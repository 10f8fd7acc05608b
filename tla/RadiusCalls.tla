------------------------------ MODULE RadiusCalls ------------------------------
(***************************************************************************)
(* The table of the calls and sessions that gateways authorise and account *)
(* by RADIUS: m_radiusCallsSpool, the locks of their cards                 *)
(* (radiusAcctnToConf, radiusConfToAcctn, cardLocks), the eaters of their  *)
(* call-back legs and the slots of radiusCallsSem.                         *)
(*                                                                         *)
(* One thread handles the packets; each handler is one critical section    *)
(* under Conf::mut, followed by the wait for a slot.  Another thread erases*)
(* the calls whose start never came.  Packets are UDP: a record may come   *)
(* late, twice or never, and in any order with the others.  A gateway asks *)
(* nothing more for a call whose telephone leg it has ended.               *)
(***************************************************************************)
EXTENDS Integers, FiniteSets, FiniteSetsExt, Functions

CONSTANTS
  Calls,     \* identifiers of calls (h323ConfId)
  Cards,     \* account names
  NoCard,    \* the empty account name
  CardsOf,   \* CardsOf[x]: the cards the caller of x may name
  Lines,     \* Lines[c]: prepaid class's lines of card c, 0 for any number
  Balances,  \* Balances[c]: the balances card c is charged to
  HasStart,  \* the calls whose gateway sends start records
  Kinds,     \* the services the calls may be of
  Limits     \* values of radiusTotalCallsLimit

ASSUME CardsAssumption ==
  /\ IsFiniteSet(Calls) /\ HasStart \subseteq Calls /\ NoCard \notin Cards
  /\ CardsOf \in [Calls -> SUBSET Cards]
  /\ Lines \in [Cards -> Nat]
  /\ Balances \in [Cards -> SUBSET {"dealer", "customer", "card"}]
ASSUME KindsAssumption == Kinds \subseteq [Calls -> {"phone", "framed", "sms"}]
ASSUME LimitsAssumption == Limits \subseteq Nat \ {0}

VARIABLES
  kind, limit,  \* the service of each call; radiusTotalCallsLimit
  spool,        \* m_radiusCallsSpool
  confs,        \* radiusAcctnToConf, as pairs of a card and a call
  cardOf,       \* radiusConfToAcctn
  locks,        \* locks[c]: copies of c in cardLocks
  permits,      \* radiusCallsSem
  dangling,     \* calls that dropped an eater its spool still points to
  stray,        \* cards that lost a lock to a record that had none
  taking,       \* a TakeRadiusCallTask has not returned
  heard,        \* heard[x]: the records of x handled since it was authorised
  saw15         \* a call-back 1.5 has been asked for

vars == <<kind, limit, spool, confs, cardOf, locks, permits, dangling, stray,
          taking, heard, saw15>>

Entry == [startCame : BOOLEAN, isOV : BOOLEAN, ovSaved : BOOLEAN,
          telephonyEnded : BOOLEAN, cb : BOOLEAN, cbDealer : BOOLEAN]

NewEntry == [startCame |-> FALSE, isOV |-> FALSE, ovSaved |-> FALSE,
             telephonyEnded |-> FALSE, cb |-> FALSE, cbDealer |-> FALSE]

TypeOK ==
  /\ kind \in Kinds /\ limit \in Limits
  /\ DOMAIN spool \subseteq Calls /\ \A x \in DOMAIN spool : spool[x] \in Entry
  /\ confs \subseteq Cards \X Calls
  /\ DOMAIN cardOf \subseteq Calls /\ \A x \in DOMAIN cardOf : cardOf[x] \in Cards
  /\ DOMAIN locks = Cards /\ \A c \in Cards : locks[c] \in 0 .. Lines[c]
  /\ permits \in 0 .. limit + 1
  /\ dangling \subseteq Calls /\ stray \subseteq Cards
  /\ taking \in BOOLEAN /\ saw15 \in BOOLEAN
  /\ heard \in [Calls -> SUBSET {"ov", "at", "crossed"}]

Init ==
  /\ kind \in Kinds /\ limit \in Limits
  /\ spool = <<>> /\ confs = {} /\ cardOf = <<>>
  /\ locks = [c \in Cards |-> 0]
  /\ permits = limit
  /\ dangling = {} /\ stray = {}
  /\ taking = FALSE
  /\ heard = [x \in Calls |-> {}]
  /\ saw15 = FALSE

-----------------------------------------------------------------------------
(* What the handlers are built from, as functions of the tables.           *)

Tables == [spool |-> spool, confs |-> confs, cardOf |-> cardOf, locks |-> locks,
           permits |-> permits, dangling |-> dangling, stray |-> stray]

Become(t) ==
  /\ spool' = t.spool /\ confs' = t.confs /\ cardOf' = t.cardOf
  /\ locks' = t.locks /\ permits' = t.permits
  /\ dangling' = t.dangling /\ stray' = t.stray

Without(f, x) == Restrict(f, DOMAIN f \ {x})
With(f, x, v) == [y \in DOMAIN f \cup {x} |-> IF y = x THEN v ELSE f[y]]
Known(t, x) == x \in DOMAIN t.spool
EntryOf(t, x) == IF Known(t, x) THEN t.spool[x] ELSE NewEntry
Put(t, x, e) == [t EXCEPT !.spool = With(@, x, e)]

\* Mutant of EraseCardLock: it is not asked whether there is a lock.
EraseCardLockUnasked(t, c) ==
  [t EXCEPT !.locks = [k \in Cards |-> IF k = c THEN @[k] - 1 ELSE @[k]]]

\* A lock of the card goes, if it has one; the empty name has none.
EraseCardLock(t, c) ==
  [t EXCEPT !.locks = [k \in Cards |-> IF k = c /\ @[k] > 0 THEN @[k] - 1 ELSE @[k]]]

\* Mutant of EraseStalledCardLocks: the lock of the card stays.
EraseStalledPairs(t, x) ==
  IF x \notin DOMAIN t.cardOf THEN t
  ELSE [t EXCEPT !.confs = @ \ {<<t.cardOf[x], x>>}, !.cardOf = Without(@, x)]

\* The lock of an earlier request for the same call.
EraseStalledCardLocks(t, x) ==
  IF x \notin DOMAIN t.cardOf THEN t
  ELSE [EraseCardLock(t, t.cardOf[x]) EXCEPT
          !.confs = @ \ {<<t.cardOf[x], x>>}, !.cardOf = Without(@, x)]

\* releaseRadiusCall(): PSemaphore counts to radiusTotalCallsLimit + 1.
Released(p) == Min({p + 1, limit + 1})

\* Mutant of EraseRadiusSpool: the slot is kept.
EraseRadiusSpoolSilently(t, x) ==
  [t EXCEPT !.spool = Without(@, x),
            !.dangling = IF t.spool[x].cb \/ t.spool[x].cbDealer THEN @ \cup {x}
                         ELSE @]

\* An eater that is left in the entry is deleted with it, in the money spool it
\* is not.
EraseRadiusSpool(t, x) ==
  [t EXCEPT !.spool = Without(@, x),
            !.permits = Released(@),
            !.dangling = IF t.spool[x].cb \/ t.spool[x].cbDealer THEN @ \cup {x}
                         ELSE @]

RemoveCbEaters(e) == [e EXCEPT !.cb = FALSE, !.cbDealer = FALSE]

\* Mutant of EraseRadiusLock: the eaters are left to the end of the entry.
EraseRadiusLockOnly(t, x, name) ==
  LET c  == IF x \in DOMAIN t.cardOf THEN t.cardOf[x] ELSE name
      t1 == [EraseCardLock(t, c) EXCEPT
               !.cardOf = Without(@, x), !.confs = @ \ {<<c, x>>},
               !.stray = IF c = NoCard \/ <<c, x>> \in t.confs THEN @ ELSE @ \cup {c}]
      t2 == Put(t1, x, [EntryOf(t1, x) EXCEPT !.telephonyEnded = TRUE])
  IN IF ~Known(t, x) THEN t1
     ELSE IF t.spool[x].isOV THEN t2 ELSE EraseRadiusSpool(t2, x)

\* Mutant of EraseRadiusLock: the end of the telephone leg is not kept.
EraseRadiusLockForgetting(t, x, name) ==
  LET c  == IF x \in DOMAIN t.cardOf THEN t.cardOf[x] ELSE name
      t1 == [EraseCardLock(t, c) EXCEPT
               !.cardOf = Without(@, x), !.confs = @ \ {<<c, x>>},
               !.stray = IF c = NoCard \/ <<c, x>> \in t.confs THEN @ ELSE @ \cup {c}]
      t2 == Put(t1, x, RemoveCbEaters(EntryOf(t1, x)))
  IN IF ~Known(t, x) THEN t1
     ELSE IF t.spool[x].isOV THEN t2 ELSE EraseRadiusSpool(t2, x)

\* The telephone leg of x has ended.  A lock is freed of the card x was authorised
\* with or, when it has no pair any more, of the one that is named, if any is.
EraseRadiusLock(t, x, name) ==
  LET c  == IF x \in DOMAIN t.cardOf THEN t.cardOf[x] ELSE name
      t1 == [EraseCardLock(t, c) EXCEPT
               !.cardOf = Without(@, x), !.confs = @ \ {<<c, x>>},
               !.stray = IF c = NoCard \/ <<c, x>> \in t.confs THEN @ ELSE @ \cup {c}]
      t2 == Put(t1, x, [RemoveCbEaters(EntryOf(t1, x)) EXCEPT
                          !.telephonyEnded = TRUE])
  IN IF ~Known(t, x) THEN t1
     ELSE IF t.spool[x].isOV THEN t2 ELSE EraseRadiusSpool(t2, x)

\* The other leg has ended after secs seconds; the entry waits for the record
\* of the telephone leg.
ClearRadiusSpool(t, x, secs) ==
  IF ~Known(t, x) THEN t
  ELSE IF t.spool[x].telephonyEnded THEN EraseRadiusSpool(t, x)
  ELSE Put(t, x, [t.spool[x] EXCEPT !.ovSaved = (secs > 0)])

\* addCbEaters(): the eater of the card goes to cbDealerEater, and since
\* cbCardEater stays empty it does so each time.  What was there is deleted.
AddCbEaters(t, x, c) ==
  LET e      == t.spool[x]
      dealer == e.cbDealer \/ "dealer" \in Balances[c]
      own    == "card" \in Balances[c]
  IN [Put(t, x, [e EXCEPT !.cbDealer = dealer \/ own,
                          !.cb = @ \/ "customer" \in Balances[c]])
      EXCEPT !.dangling = IF dealer /\ own THEN @ \cup {x} ELSE @]

\* A card with lines is locked; the pair is kept in both maps for any card.
Lock(t, x, c) ==
  [t EXCEPT !.locks[c] = IF Lines[c] > 0 THEN @ + 1 ELSE @,
            !.confs = @ \cup {<<c, x>>},
            !.cardOf = With(@, x, c)]

HasLine(t, c) == Lines[c] > 0 => t.locks[c] < Lines[c]

-----------------------------------------------------------------------------
(* Requests for authorisation.                                             *)

\* The RADIUS thread is free and the gateway still has the call.
Asks(x, c) == ~taking /\ "at" \notin heard[x] /\ c \in CardsOf[x]

Start(e, x) == [e EXCEPT !.startCame = @ \/ x \notin HasStart]

Settled(x) == heard' = [heard EXCEPT ![x] = @ \ {"ov"}]

\* checkPin() of a call-back 1.5.  A call that has had a talk is erased first, and
\* no card is named for that; a slot is asked for when there was a call.  The
\* request has crossed the stop record of the last talk if that one is to come.
CheckPin15(x, c) ==
  /\ Asks(x, c) /\ kind[x] = "phone"
  /\ LET t == IF x \in DOMAIN spool /\ spool[x].ovSaved
              THEN EraseRadiusLock(Tables, x, NoCard) ELSE Tables
         u == Put(t, x, Start(EntryOf(t, x), x))
     IN Become(AddCbEaters(u, x, c))
  /\ taking' = (x \in DOMAIN spool)
  /\ saw15' = TRUE
  /\ heard' = [heard EXCEPT ![x] =
       (@ \ {"ov"}) \cup IF EntryOf(Tables, x).isOV THEN {"crossed"} ELSE {}]
  /\ UNCHANGED <<kind, limit>>

\* getCreditTime(): the card has a line.  Only a new entry asks for a slot.
GetCreditTime(x, c) ==
  /\ Asks(x, c) /\ kind[x] # "sms"
  /\ LET t == EraseStalledCardLocks(Tables, x) IN
       /\ HasLine(t, c)
       /\ Become(Put(Lock(t, x, c), x, Start(EntryOf(t, x), x)))
  /\ taking' = (x \notin DOMAIN spool)
  /\ Settled(x)
  /\ UNCHANGED <<kind, limit, saw15>>

\* All lines of the card are taken; an earlier lock of the call is gone.
CardAlreadyLocked(x, c) ==
  /\ Asks(x, c)
  /\ LET t == EraseStalledCardLocks(Tables, x) IN ~HasLine(t, c) /\ Become(t)
  /\ UNCHANGED <<kind, limit, taking, heard, saw15>>

\* handleSmsCallback2() for the first leg: a lock and the eaters.
SmsCallback2(x, c) ==
  /\ Asks(x, c) /\ kind[x] = "sms"
  /\ LET t == EraseStalledCardLocks(Tables, x) IN
       /\ HasLine(t, c)
       /\ Become(AddCbEaters(Put(Lock(t, x, c), x, EntryOf(t, x)), x, c))
  /\ taking' = (x \notin DOMAIN spool)
  /\ Settled(x)
  /\ UNCHANGED <<kind, limit, saw15>>

\* The same for the second leg: neither.
SmsCallback3(x, c) ==
  /\ Asks(x, c) /\ kind[x] = "sms"
  /\ Become(Put(Tables, x, EntryOf(Tables, x)))
  /\ taking' = (x \notin DOMAIN spool)
  /\ Settled(x)
  /\ UNCHANGED <<kind, limit, saw15>>

\* takeRadiusCall() returns when there is a slot.
TakeRadiusCall ==
  /\ taking /\ permits > 0
  /\ permits' = permits - 1
  /\ taking' = FALSE
  /\ UNCHANGED <<kind, limit, spool, confs, cardOf, locks, dangling, stray, heard,
                 saw15>>

-----------------------------------------------------------------------------
(* Accounting records.                                                     *)

Hear(x, records) == heard' = [heard EXCEPT ![x] = @ \cup records]

\* An interim or start record of the leg over IP sets m_isOV.  One that comes
\* after the stop record has crossed it.
OVRecord(x, start) ==
  /\ ~taking /\ kind[x] = "phone" /\ x \in DOMAIN spool
  /\ spool' = [spool EXCEPT ![x].isOV = TRUE, ![x].startCame = @ \/ start]
  /\ Hear(x, IF "ov" \in heard[x] THEN {"crossed"} ELSE {})
  /\ UNCHANGED <<kind, limit, confs, cardOf, locks, permits, dangling, stray,
                 taking, saw15>>

\* A start record of another leg or service.
StartRecord(x) ==
  /\ ~taking /\ x \in DOMAIN spool
  /\ spool' = [spool EXCEPT ![x].startCame = TRUE]
  /\ UNCHANGED <<kind, limit, confs, cardOf, locks, permits, dangling, stray,
                 taking, heard, saw15>>

\* The stop record of the leg over IP.
OVStop(x, secs) ==
  /\ ~taking /\ kind[x] = "phone"
  /\ IF x \in DOMAIN spool
     THEN Become(ClearRadiusSpool([Tables EXCEPT !.spool[x].isOV = FALSE], x, secs))
     ELSE Become(Tables)
  /\ Hear(x, {"ov"})
  /\ UNCHANGED <<kind, limit, taking, saw15>>

\* The stop record of the telephone leg.
ATStop(x, name) ==
  /\ ~taking /\ kind[x] = "phone" /\ name \in CardsOf[x]
  /\ IF x \in DOMAIN spool
     THEN Become(EraseRadiusLock(Tables, x, name))
     ELSE Become(Tables)
  /\ Hear(x, {"at"})
  /\ UNCHANGED <<kind, limit, taking, saw15>>

\* The stop record of an Internet session ends both.
FramedStop(x, name, secs) ==
  /\ ~taking /\ kind[x] = "framed" /\ name \in CardsOf[x]
  /\ Become(EraseRadiusLock(ClearRadiusSpool(Tables, x, secs), x, name))
  /\ Hear(x, {"at", "ov"})
  /\ UNCHANGED <<kind, limit, taking, saw15>>

\* The stop records of the legs of a call-back by SMS.
SmsStop1(x, name) ==
  /\ ~taking /\ kind[x] = "sms" /\ name \in CardsOf[x]
  /\ Become(EraseRadiusLock(Tables, x, name))
  /\ Hear(x, {"at"})
  /\ UNCHANGED <<kind, limit, taking, saw15>>

SmsStop2(x, secs) ==
  /\ ~taking /\ kind[x] = "sms"
  /\ Become(ClearRadiusSpool(Tables, x, secs))
  /\ Hear(x, {"ov"})
  /\ UNCHANGED <<kind, limit, taking, saw15>>

\* A gateway starts or stops accounting: every lock goes, of every gateway.
AccountingOnOff ==
  /\ ~taking
  /\ cardOf' = <<>> /\ confs' = {}
  /\ locks' = [c \in Cards |->
       LET n == Cardinality({p \in confs : p[1] = c})
       IN IF locks[c] > n THEN locks[c] - n ELSE 0]
  /\ stray' = {}
  /\ UNCHANGED <<kind, limit, spool, permits, dangling, taking, heard, saw15>>

\* Mutant of EraseStalledCardCall: the locks are forgotten.
EraseStalledSpoolOnly(x) ==
  /\ x \in DOMAIN spool /\ ~spool[x].startCame
  /\ Become(EraseRadiusSpool(Put(Tables, x, RemoveCbEaters(spool[x])), x))
  /\ UNCHANGED <<kind, limit, taking, heard, saw15>>

\* checkStalledCardCalls() finds a call without a start record in three minutes.
EraseStalledCardCall(x) ==
  /\ x \in DOMAIN spool /\ ~spool[x].startCame
  /\ LET t == EraseStalledCardLocks(Tables, x)
     IN Become(EraseRadiusSpool(Put(t, x, RemoveCbEaters(spool[x])), x))
  /\ UNCHANGED <<kind, limit, taking, heard, saw15>>

-----------------------------------------------------------------------------

Request(x, c) ==
  \/ CheckPin15(x, c) \/ GetCreditTime(x, c) \/ CardAlreadyLocked(x, c)
  \/ SmsCallback2(x, c) \/ SmsCallback3(x, c)

Stop(x, name, secs) ==
  \/ OVStop(x, secs) \/ ATStop(x, name) \/ FramedStop(x, name, secs)
  \/ SmsStop1(x, name) \/ SmsStop2(x, secs)

Next ==
  \/ \E x \in Calls : \E c \in Cards : Request(x, c)
  \/ \E x \in Calls : \E c \in Cards : \E secs \in {0, 1} : Stop(x, c, secs)
  \/ \E x \in Calls : \E start \in BOOLEAN : OVRecord(x, start)
  \/ \E x \in Calls : StartRecord(x) \/ EraseStalledCardCall(x)
  \/ AccountingOnOff \/ TakeRadiusCall

Spec == Init /\ [][Next]_vars

-----------------------------------------------------------------------------
(* Properties.                                                             *)

\* The two maps of locks are each other's inverse, so a call has one card, and
\* a card with lines is locked once for each of its calls, however often they
\* were authorised.  Only the stop record of a call without a pair (its second one,
\* or that of a call-back 1.5 that never talked) frees the lock of another; the
\* erasing of an earlier call-back 1.5 does not, it names no card.
LocksMatchCalls ==
  /\ confs = {<<cardOf[x], x>> : x \in DOMAIN cardOf}
  /\ \A c \in Cards : Lines[c] > 0 =>
       LET n == Cardinality({p \in confs : p[1] = c})
       IN locks[c] <= n /\ (c \notin stray => locks[c] = n)

\* A card stays locked only for a call of the table, whose end will unlock it:
\* the stop record of a call that is not there is dropped (handleAccounting).
\* A call some packet of which crossed the stop record of a talk is the exception.
LocksHaveCalls ==
  \A x \in DOMAIN cardOf : x \in DOMAIN spool \/ "crossed" \in heard[x]

\* A call whose legs have both stopped is out of the table, whichever stop came
\* first and however often they came, but for one: a start or interim record of the
\* IP leg after its stop sets m_isOV again (handleAccounting), and then the stop of
\* the telephone leg leaves the entry.  Such an entry can still be erased, by a
\* further stop of the IP leg: telephonyEnded is set.
EndedCallsErased ==
  \A x \in DOMAIN spool :
    {"ov", "at"} \subseteq heard[x] =>
      "crossed" \in heard[x] /\ spool[x].isOV /\ spool[x].telephonyEnded

\* An entry whose IP leg has stopped waits for the telephone leg, whose stop record
\* erases it (clearRadiusSpool: "not erasing, waiting for telephony").
TelephonyErasesWaiting ==
  [][\A x \in DOMAIN spool :
       "ov" \in heard[x] /\ "at" \in heard'[x] \ heard[x] => x \notin DOMAIN spool']_vars

\* No eater is deleted that its money spool still points to ("cbEater exist on
\* delete", Conf.cxx:2888), but by a call with a packet that crossed a stop record
\* and, addCbEaters' slip, by a card that is charged itself.
EatersDetached ==
  \A x \in dangling :
    \/ "crossed" \in heard[x]
    \/ \E c \in CardsOf[x] : "card" \in Balances[c]

\* The slots taken are the calls in the table, up to the one being asked for,
\* until a call-back 1.5 takes none for its new entry or one for an old entry.
SlotsMatchCalls ==
  ~saw15 => permits + Cardinality(DOMAIN spool) = limit + (IF taking THEN 1 ELSE 0)
=============================================================================
