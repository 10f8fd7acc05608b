------------------------------- MODULE CallLimits -------------------------------
(***************************************************************************)
(* Admission control of the softswitch: the semaphores and counters of     *)
(* Conf::Impl (callsSem, gwCallsSem, inLimits, outLimits, inOutLimits,     *)
(* cardLocks) and the threads that take and return them.                   *)
(*                                                                         *)
(* A call is one entry of the switch: an H.323 connection (a               *)
(* SignallingThread, which may hand over to an AnswerCall), a SIP or MGCP  *)
(* call (always an AnswerCall), a "callpath" query of the HTTP server, or  *)
(* the pair of legs of a call-back.  A leg <<c, f>> is the outgoing side   *)
(* of fork f of call c, with its own loop over the choices of a route; the *)
(* SignallingThread drives leg <<c, 1>> itself.                            *)
(***************************************************************************)
EXTENDS Integers, FiniteSets

CONSTANTS
  Calls,            \* the calls that may arrive, each once
  InPeers,          \* inbound peers (customers' gateways)
  OutPeers,         \* outbound peers (terminators)
  Cards,            \* prepaid cards
  NoCard,           \* "" : the route does not end at a card
  CardDest,         \* the choice with peer 0: a registered card's address
  Kind,             \* Kind[c]: how call c reaches the switch
  Source,           \* Source[c]: the inbound peer or card that pays for c
  OutCard,          \* OutCard[l]: outAcctn of fork l
  Proto,            \* Proto[ch]: signalling protocol of a choice
  Routes,           \* the sets of choices the routing tables yield
  Forks,            \* Forks[c]: forks of c's route; 2 for a call-back pair
  MaxForks,         \* the most forks of any call
  TotalCallsLimit,  \* initial callsSem
  GwCallsLimit,     \* initial gwCallsSem
  InLimit,          \* InLimit[i]: limit of an inbound peer, 0 for none
  OutLimit,         \* OutLimit[p]: limit of an outbound peer, 0 for none
  RouteLimit,       \* RouteLimit[i][p]: limit of a route, 0 for none
  Lines             \* Lines[a]: parallel calls of a card, 0 for any number

Kinds   == {"h323", "sip", "mgcp", "callpath", "callback"}
Legs    == Calls \X (1 .. MaxForks)
Choices == OutPeers \cup {CardDest}

ASSUME FiniteAssumption ==
  /\ IsFiniteSet(Calls)
  /\ MaxForks \in Nat /\ MaxForks >= 2
ASSUME DisjointAssumption ==
  /\ NoCard \notin Cards
  /\ CardDest \notin OutPeers
  /\ InPeers \cap Cards = {}
ASSUME TrafficAssumption ==
  /\ Kind \in [Calls -> Kinds]
  /\ Source \in [Calls -> InPeers \cup Cards]
  /\ Forks \in [Calls -> 1 .. MaxForks]
  /\ \A c \in Calls : Kind[c] = "callback" => Source[c] \in Cards /\ Forks[c] = 2
  /\ OutCard \in [Legs -> Cards \cup {NoCard}]
  /\ Proto \in [Choices -> {"h323", "sip", "mgcp"}]
  /\ Routes \subseteq (SUBSET Choices) \ {{}}
ASSUME LimitsAssumption ==
  /\ TotalCallsLimit \in Nat
  /\ GwCallsLimit \in Nat
  /\ InLimit \in [InPeers -> Nat]
  /\ OutLimit \in [OutPeers -> Nat]
  /\ RouteLimit \in [InPeers -> [OutPeers -> Nat]]
  /\ Lines \in [Cards -> Nat]

VARIABLES
  pc,           \* where the thread(s) of a call are
  lpc,          \* where a leg is in OriginateLegThread::Main
  rest,         \* the choices a leg has not tried yet
  cur,          \* the choice a leg has taken (CardDest when it has none)
  inTaken,      \* CommonCallDetails::inTaken of a call
  lockIn,       \* source.inLocked of a leg's own copy of the SourceData
  lockOut,      \* source.outLocked of that copy
  gwTaken,      \* OriginateLegThread::gwTaken
  callsSem, gwSem, inLimits, outLimits, inOutLimits, cardLocks,
  shutting,     \* Conf::Impl::inShuttingDown
  drained       \* waitForSignallingChannels has returned

threadVars  == <<pc, lpc, rest, cur, inTaken>>
lockVars    == <<cardLocks, lockIn, lockOut>>
gwVars      == <<gwSem, gwTaken>>
routeVars   == <<outLimits, inOutLimits>>
stopVars    == <<shutting, drained>>
vars == <<threadVars, lockVars, gwVars, routeVars, stopVars, callsSem, inLimits>>

CallPCs == {"new", "accepted", "failing", "proxying", "answering", "callback", "ended"}
LegPCs  == {"none", "init", "hunting", "inChoice", "talking", "quitting",
            "removed", "failed", "ended"}

TypeOK ==
  /\ pc \in [Calls -> CallPCs]
  /\ lpc \in [Legs -> LegPCs]
  /\ rest \in [Legs -> SUBSET Choices]
  /\ cur \in [Legs -> Choices]
  /\ inTaken \in [Calls -> BOOLEAN]
  /\ lockIn \in [Legs -> BOOLEAN]
  /\ lockOut \in [Legs -> BOOLEAN]
  /\ gwTaken \in [Legs -> BOOLEAN]
  /\ callsSem \in Int
  /\ gwSem \in Int
  /\ inLimits \in [InPeers -> Int]
  /\ outLimits \in [OutPeers -> Int]
  /\ inOutLimits \in [InPeers -> [OutPeers -> Int]]
  /\ cardLocks \in [Cards -> Nat]
  /\ shutting \in BOOLEAN
  /\ drained \in BOOLEAN

Init ==
  /\ pc = [c \in Calls |-> "new"]
  /\ lpc = [l \in Legs |-> "none"]
  /\ rest = [l \in Legs |-> {}]
  /\ cur = [l \in Legs |-> CardDest]
  /\ inTaken = [c \in Calls |-> FALSE]
  /\ lockIn = [l \in Legs |-> FALSE]
  /\ lockOut = [l \in Legs |-> FALSE]
  /\ gwTaken = [l \in Legs |-> FALSE]
  /\ callsSem = TotalCallsLimit
  /\ gwSem = GwCallsLimit
  /\ inLimits = [i \in InPeers |-> 0]
  /\ outLimits = [p \in OutPeers |-> 0]
  /\ inOutLimits = [i \in InPeers |-> [p \in OutPeers |-> 0]]
  /\ cardLocks = [a \in Cards |-> 0]
  /\ shutting = FALSE
  /\ drained = FALSE

-----------------------------------------------------------------------------
(* Slots of the whole switch: tryTake and the release of a call's common.  *)

\* Mutant of TryTake: the call is counted without asking for a slot.
TryTakeUnasked(c) ==
  /\ pc[c] = "new" /\ Kind[c] # "callback"
  /\ callsSem' = callsSem - 1
  /\ pc' = [pc EXCEPT ![c] = "accepted"]
  /\ UNCHANGED <<lpc, rest, cur, inTaken, lockVars, gwVars, routeVars,
                 stopVars, inLimits>>

\* tryTake(), callers included: a call that finds no slot is refused on the
\* spot and leaves no trace.
TryTake(c) ==
  /\ pc[c] = "new" /\ Kind[c] # "callback"
  /\ callsSem > 0
  /\ callsSem' = callsSem - 1
  /\ pc' = [pc EXCEPT ![c] = "accepted"]
  /\ UNCHANGED <<lpc, rest, cur, inTaken, lockVars, gwVars, routeVars,
                 stopVars, inLimits>>

\* Mutant of SmsCall: the second leg's slot is left for when it starts.
SmsCallOneSlot(c, parallelStart) ==
  /\ pc[c] = "new" /\ Kind[c] = "callback"
  /\ callsSem > 1 /\ gwSem > 0
  /\ callsSem' = callsSem - (IF parallelStart THEN 2 ELSE 1)
  /\ gwSem' = gwSem - 1
  /\ pc' = [pc EXCEPT ![c] = "callback"]
  /\ lpc' = [lpc EXCEPT ![<<c, 1>>] = "init",
                        ![<<c, 2>>] = IF parallelStart THEN "init" ELSE "none"]
  /\ UNCHANGED <<rest, cur, inTaken, lockVars, gwTaken, routeVars, stopVars, inLimits>>

\* The smscall command: two slots and one gateway slot, or nothing at all.
\* smsParallelStart decides whether the second leg starts at once.
SmsCall(c, parallelStart) ==
  /\ pc[c] = "new" /\ Kind[c] = "callback"
  /\ callsSem > 1 /\ gwSem > 0
  /\ callsSem' = callsSem - 2
  /\ gwSem' = gwSem - 1
  /\ pc' = [pc EXCEPT ![c] = "callback"]
  /\ lpc' = [lpc EXCEPT ![<<c, 1>>] = "init",
                        ![<<c, 2>>] = IF parallelStart THEN "init" ELSE "none"]
  /\ UNCHANGED <<rest, cur, inTaken, lockVars, gwTaken, routeVars, stopVars, inLimits>>

\* Mutants of ReleaseSlot: the count is given back although nothing took it;
\* only a call that was routed gives anything back.
ReleaseUntaken(c) ==
  /\ callsSem' = callsSem + 1
  /\ inTaken' = [inTaken EXCEPT ![c] = FALSE]
  /\ inLimits' = IF Source[c] \in InPeers
                 THEN [inLimits EXCEPT ![Source[c]] = @ - 1]
                 ELSE inLimits
ReleaseRouted(c) ==
  /\ inTaken' = [inTaken EXCEPT ![c] = FALSE]
  /\ IF inTaken[c]
     THEN callsSem' = callsSem + 1 /\ inLimits' = [inLimits EXCEPT ![Source[c]] = @ - 1]
     ELSE UNCHANGED <<callsSem, inLimits>>

\* CommonCallDetails::release, the last use of a call's common: the inbound
\* peer's count is given back only if getCallInfo took it.
ReleaseSlot(c) ==
  /\ callsSem' = callsSem + 1
  /\ inTaken' = [inTaken EXCEPT ![c] = FALSE]
  /\ inLimits' = IF inTaken[c]
                 THEN [inLimits EXCEPT ![Source[c]] = @ - 1]
                 ELSE inLimits

-----------------------------------------------------------------------------
(* Conf::Impl::getCallInfo: the card locks and the inbound peer's count.   *)

\* a is a card whose number of parallel calls is limited.
Lockable(a)    == a \in Cards /\ Lines[a] # 0
Full(locks, a) == Lockable(a) /\ locks[a] >= Lines[a]
Lock(locks, a) == IF Lockable(a) THEN [locks EXCEPT ![a] = @ + 1] ELSE locks

\* Mutant of InPeerFull: off by one.
InPeerOverfull(i) == i \in InPeers /\ InLimit[i] # 0 /\ inLimits[i] > InLimit[i]

InPeerFull(i) == i \in InPeers /\ InLimit[i] # 0 /\ inLimits[i] >= InLimit[i]

\* The locks once the caller's card has been locked.
LocksIn(c) == Lock(cardLocks, Source[c])

\* The ways getCallInfo returns false for the source details of leg l: no
\* route or a full caller's card (nothing changes), a full called card (the
\* caller's lock stays), a full inbound peer, or a caller that is no peer and has
\* no choice left in the end (both locks stay).
CallInfoFails(l) ==
  LET s == Source[l[1]] IN
  \/ UNCHANGED lockVars
  \/ /\ ~Full(cardLocks, s) /\ Full(LocksIn(l[1]), OutCard[l])
     /\ cardLocks' = LocksIn(l[1])
     /\ lockIn' = [lockIn EXCEPT ![l] = Lockable(s)]
     /\ UNCHANGED lockOut
  \/ /\ ~Full(cardLocks, s) /\ ~Full(LocksIn(l[1]), OutCard[l])
     /\ InPeerFull(s) \/ s \notin InPeers
     /\ cardLocks' = Lock(LocksIn(l[1]), OutCard[l])
     /\ lockIn' = [lockIn EXCEPT ![l] = Lockable(s)]
     /\ lockOut' = [lockOut EXCEPT ![l] = Lockable(OutCard[l])]

\* Mutant of CallInfoFound: the called card is looked up before the caller's
\* is locked.
CallInfoFoundStale(l, copies) ==
  LET s == Source[l[1]] IN
  /\ ~Full(cardLocks, s) /\ ~Full(cardLocks, OutCard[l]) /\ ~InPeerFull(s)
  /\ cardLocks' = Lock(LocksIn(l[1]), OutCard[l])
  /\ lockIn' = [k \in Legs |-> IF k \in copies THEN Lockable(s) ELSE lockIn[k]]
  /\ lockOut' = [k \in Legs |-> IF k \in copies THEN Lockable(OutCard[l]) ELSE lockOut[k]]

\* getCallInfo returns true for leg l.  The legs in copies get the SourceData
\* with the flags of the one lock taken for each of the two cards.
CallInfoFound(l, copies) ==
  LET s == Source[l[1]] IN
  /\ ~Full(cardLocks, s) /\ ~Full(LocksIn(l[1]), OutCard[l]) /\ ~InPeerFull(s)
  /\ cardLocks' = Lock(LocksIn(l[1]), OutCard[l])
  /\ lockIn' = [k \in Legs |-> IF k \in copies THEN Lockable(s) ELSE lockIn[k]]
  /\ lockOut' = [k \in Legs |-> IF k \in copies THEN Lockable(OutCard[l]) ELSE lockOut[k]]

\* The inbound peer's count, taken at the end of a successful getCallInfo.
TakeIn(c) ==
  IF Source[c] \in InPeers
  THEN /\ inLimits' = [inLimits EXCEPT ![Source[c]] = @ + 1]
       /\ inTaken' = [inTaken EXCEPT ![c] = TRUE]
  ELSE UNCHANGED <<inLimits, inTaken>>

\* The legs that start hunting along a route.
StartLegs(starting, route) ==
  /\ lpc' = [l \in Legs |-> IF l \in starting THEN "hunting" ELSE lpc[l]]
  /\ rest' = [l \in Legs |-> IF l \in starting THEN route ELSE rest[l]]

\* The caller's side is refused: bad address, no credentials, or getCallInfo
\* returned false.
RejectCall(c) ==
  /\ pc[c] = "accepted"
  /\ CallInfoFails(<<c, 1>>)
  /\ pc' = [pc EXCEPT ![c] = "failing"]
  /\ UNCHANGED <<lpc, rest, cur, inTaken, gwVars, routeVars, stopVars,
                 callsSem, inLimits>>

\* getCallInfo took everything, but the call goes no further: no choice was left in
\* the end, a callpath query only wanted the answer, a SIP or MGCP caller shares no
\* codec.
DropRoutedCall(c) ==
  /\ pc[c] = "accepted"
  /\ CallInfoFound(<<c, 1>>, {<<c, 1>>})
  /\ TakeIn(c)
  /\ pc' = [pc EXCEPT ![c] = "failing"]
  /\ UNCHANGED <<lpc, rest, cur, gwVars, routeVars, stopVars, callsSem>>

\* The SignallingThread proxies both sides itself, over the first fork.
ProxyCall(c) ==
  /\ pc[c] = "accepted" /\ Kind[c] = "h323"
  /\ CallInfoFound(<<c, 1>>, {<<c, 1>>})
  /\ TakeIn(c)
  /\ \E route \in Routes : StartLegs({<<c, 1>>}, route)
  /\ pc' = [pc EXCEPT ![c] = "proxying"]
  /\ UNCHANGED <<cur, gwVars, routeVars, stopVars, callsSem>>

\* An AnswerCall: an answer leg and one originating leg per fork.
AnswerCall(c) ==
  LET forks == {c} \X (1 .. Forks[c]) IN
  /\ pc[c] = "accepted" /\ Kind[c] \in {"h323", "sip", "mgcp"}
  /\ CallInfoFound(<<c, 1>>, forks)
  /\ TakeIn(c)
  /\ \E route \in Routes : StartLegs(forks, route)
  /\ pc' = [pc EXCEPT ![c] = "answering"]
  /\ UNCHANGED <<cur, gwVars, routeVars, stopVars, callsSem>>

-----------------------------------------------------------------------------
(* The loop over the choices: tryNextChoice, Conf::Impl::take and release. *)

\* tryNextChoice passes gwTaken only when the choice's protocol differs from
\* the caller's, and never for a proxied or a call-back leg.
NeedsGw(l, ch) ==
  /\ Kind[l[1]] \in {"h323", "sip", "mgcp"}
  /\ pc[l[1]] # "proxying"
  /\ Proto[ch] # Kind[l[1]]

\* Mutant of RouteFull: a route limit replaces the peer's own.
RouteOnlyFull(l, p) ==
  /\ Source[l[1]] \in InPeers
  /\ RouteLimit[Source[l[1]]][p] # 0
  /\ inOutLimits[Source[l[1]]][p] >= RouteLimit[Source[l[1]]][p]

RouteFull(l, p) ==
  \/ OutLimit[p] # 0 /\ outLimits[p] >= OutLimit[p]
  \/ /\ Source[l[1]] \in InPeers
     /\ RouteLimit[Source[l[1]]][p] # 0
     /\ inOutLimits[Source[l[1]]][p] >= RouteLimit[Source[l[1]]][p]

\* Moves the counts of peer p by d, for the inbound peer of leg l too.
CountRoute(l, p, d) ==
  /\ outLimits' = [outLimits EXCEPT ![p] = @ + d]
  /\ inOutLimits' = IF Source[l[1]] \in InPeers
                    THEN [inOutLimits EXCEPT ![Source[l[1]]][p] = @ + d]
                    ELSE inOutLimits

\* The gateway part of take: gwTaken is written only if a slot is asked for.
TakeGw(l, ch) ==
  IF NeedsGw(l, ch)
  THEN /\ gwSem > 0
       /\ gwSem' = gwSem - 1
       /\ gwTaken' = [gwTaken EXCEPT ![l] = TRUE]
  ELSE UNCHANGED gwVars

NextChoice(l, ch) ==
  /\ lpc[l] = "hunting" /\ ch \in rest[l]
  /\ rest' = [rest EXCEPT ![l] = @ \ {ch}]
  /\ UNCHANGED <<pc, inTaken, lockVars, stopVars, callsSem, inLimits>>

\* No gateway slot: take returns before it looks at the peer.
ChoiceLacksGw(l, ch) ==
  /\ NextChoice(l, ch)
  /\ NeedsGw(l, ch) /\ gwSem = 0
  /\ gwTaken' = [gwTaken EXCEPT ![l] = FALSE]
  /\ UNCHANGED <<lpc, cur, gwSem, routeVars>>

\* The peer is full, or refused for another reason (peer removed from the
\* configuration, a buffered cause, the release complete timeout).  A gateway
\* slot taken before stays taken.
ChoiceRefused(l, ch) ==
  /\ NextChoice(l, ch)
  /\ ch # CardDest
  /\ TakeGw(l, ch)
  /\ UNCHANGED <<lpc, cur, routeVars>>

TakeChoice(l, ch) ==
  /\ NextChoice(l, ch)
  /\ TakeGw(l, ch)
  /\ lpc' = [lpc EXCEPT ![l] = "inChoice"]
  /\ cur' = [cur EXCEPT ![l] = ch]
  /\ IF ch = CardDest
     THEN UNCHANGED routeVars
     ELSE ~RouteFull(l, ch) /\ CountRoute(l, ch, 1)

\* connected(): no other choice is tried any more.  The first leg of a
\* call-back starts the second one unless both started together.
Connect(l) ==
  /\ lpc[l] = "inChoice"
  /\ lpc' = IF Kind[l[1]] = "callback" /\ l[2] = 1 /\ lpc[<<l[1], 2>>] = "none"
            THEN [lpc EXCEPT ![l] = "talking", ![<<l[1], 2>>] = "init"]
            ELSE [lpc EXCEPT ![l] = "talking"]
  /\ UNCHANGED <<pc, rest, cur, inTaken, lockVars, gwVars, routeVars, stopVars,
                 callsSem, inLimits>>

\* Mutant of CloseChoice: a gateway slot comes back whether taken or not.
CloseAnyChoice(l, next) ==
  /\ \/ lpc[l] = "inChoice" /\ next \in {"hunting", "quitting"}
     \/ lpc[l] = "talking" /\ next = "quitting"
  /\ lpc' = [lpc EXCEPT ![l] = next]
  /\ cur' = [cur EXCEPT ![l] = CardDest]
  /\ gwSem' = gwSem + 1
  /\ IF cur[l] = CardDest THEN UNCHANGED routeVars ELSE CountRoute(l, cur[l], -1)
  /\ UNCHANGED <<pc, rest, inTaken, lockVars, gwTaken, stopVars,
                 callsSem, inLimits>>

\* closeThisChoice, or the release after a failed attempt: gwTaken is passed
\* as the last gateway attempt left it.
CloseChoice(l, next) ==
  /\ \/ lpc[l] = "inChoice" /\ next \in {"hunting", "quitting"}
     \/ lpc[l] = "talking" /\ next = "quitting"
  /\ lpc' = [lpc EXCEPT ![l] = next]
  /\ cur' = [cur EXCEPT ![l] = CardDest]
  /\ gwSem' = IF gwTaken[l] THEN gwSem + 1 ELSE gwSem
  /\ IF cur[l] = CardDest THEN UNCHANGED routeVars ELSE CountRoute(l, cur[l], -1)
  /\ UNCHANGED <<pc, rest, inTaken, lockVars, gwTaken, stopVars,
                 callsSem, inLimits>>

-----------------------------------------------------------------------------
(* The end of legs and calls: removeCall and common.release().             *)

\* eraseCardLock: one entry of the multiset, if there is one.
EraseLock(locks, a) ==
  IF locks[a] > 0 THEN [locks EXCEPT ![a] = @ - 1] ELSE locks

\* Mutant of EraseLocks: the cards' entries are subtracted, locked or not.
SubtractLocks(l) ==
  /\ cardLocks' = [a \in Cards |-> cardLocks[a] - (IF a \in {Source[l[1]], OutCard[l]}
                                                  THEN 1 ELSE 0)]
  /\ UNCHANGED <<lockIn, lockOut>>

\* removeCall on the SourceData of leg l.
EraseLocks(l) ==
  LET s == Source[l[1]]
      afterIn == IF s \in Cards /\ lockIn[l] THEN EraseLock(cardLocks, s) ELSE cardLocks IN
  /\ cardLocks' = IF OutCard[l] # NoCard /\ lockOut[l]
                  THEN EraseLock(afterIn, OutCard[l]) ELSE afterIn
  /\ lockIn' = [lockIn EXCEPT ![l] = @ /\ s \notin Cards]
  /\ lockOut' = [lockOut EXCEPT ![l] = @ /\ OutCard[l] = NoCard]

\* The loop is over: no choice left, a good call ended, closed by the other
\* leg, or shutting down.
RemoveCall(l) ==
  /\ lpc[l] \in {"hunting", "quitting"}
  /\ lpc' = [lpc EXCEPT ![l] = "removed"]
  /\ rest' = [rest EXCEPT ![l] = {}]
  /\ EraseLocks(l)
  /\ UNCHANGED <<pc, cur, inTaken, gwVars, routeVars, stopVars,
                 callsSem, inLimits>>

\* The originating leg of an AnswerCall ends: the slot is not its own.
LegEnds(l) ==
  /\ lpc[l] = "removed"
  /\ pc[l[1]] # "proxying" /\ Kind[l[1]] # "callback"
  /\ lpc' = [lpc EXCEPT ![l] = "ended"]
  /\ gwTaken' = [gwTaken EXCEPT ![l] = FALSE]
  /\ UNCHANGED <<pc, rest, cur, inTaken, lockVars, gwSem, routeVars, stopVars,
                 callsSem, inLimits>>

\* The end of SignallingThread::Main.
ProxyEnds(c) ==
  /\ pc[c] = "proxying" /\ lpc[<<c, 1>>] = "removed"
  /\ lpc' = [lpc EXCEPT ![<<c, 1>>] = "ended"]
  /\ pc' = [pc EXCEPT ![c] = "ended"]
  /\ ReleaseSlot(c)
  /\ UNCHANGED <<rest, cur, lockVars, gwVars, routeVars, stopVars>>

\* A refused call gives its slot back.  Only the SignallingThread goes
\* through removeCall first; the SIP, MGCP and callpath handlers do not.
RefusedCallEnds(c) ==
  /\ pc[c] = "failing"
  /\ pc' = [pc EXCEPT ![c] = "ended"]
  /\ ReleaseSlot(c)
  /\ IF Kind[c] = "h323" THEN EraseLocks(<<c, 1>>) ELSE UNCHANGED lockVars
  /\ UNCHANGED <<lpc, rest, cur, gwVars, routeVars, stopVars>>

\* AnswerLegThread::Main ends: the answer leg owns the slot of the call.
AnswerLegEnds(c) ==
  /\ pc[c] = "answering"
  /\ pc' = [pc EXCEPT ![c] = "ended"]
  /\ ReleaseSlot(c)
  /\ UNCHANGED <<lpc, rest, cur, lockVars, gwVars, routeVars, stopVars>>

Finished(l) == lpc[l] \in {"none", "failed", "ended"}

\* CallBackCall::stop for leg l: the last leg to stop removes the call and
\* returns its gateway slot.
CallBackStop(l) ==
  IF \A k \in {l[1]} \X {1, 2} : k = l \/ Finished(k)
  THEN pc' = [pc EXCEPT ![l[1]] = "ended"] /\ gwSem' = gwSem + 1
  ELSE UNCHANGED <<pc, gwSem>>

\* CallBackLegThread::init.  When getCallInfo fails Main returns at once,
\* without accountCall and so without the release of the leg's slot.
CallBackInit(l) ==
  /\ lpc[l] = "init"
  /\ CallInfoFound(l, {l})
  /\ \E route \in Routes : StartLegs({l}, route)
  /\ UNCHANGED <<pc, cur, inTaken, gwVars, routeVars, stopVars, callsSem, inLimits>>

CallBackInitFails(l) ==
  /\ lpc[l] = "init"
  /\ CallInfoFails(l)
  /\ lpc' = [lpc EXCEPT ![l] = "failed"]
  /\ CallBackStop(l)
  /\ UNCHANGED <<rest, cur, inTaken, gwTaken, routeVars, stopVars, callsSem, inLimits>>

\* accountCall with its common.release(), then stop.
CallBackLegEnds(l) ==
  /\ lpc[l] = "removed" /\ Kind[l[1]] = "callback"
  /\ lpc' = [lpc EXCEPT ![l] = "ended"]
  /\ ReleaseSlot(l[1])
  /\ CallBackStop(l)
  /\ UNCHANGED <<rest, cur, lockVars, gwTaken, routeVars, stopVars>>

-----------------------------------------------------------------------------
(* Shutdown.                                                               *)

SetShuttingDown ==
  /\ ~shutting
  /\ shutting' = TRUE
  /\ UNCHANGED <<threadVars, lockVars, gwVars, routeVars, drained, callsSem, inLimits>>

\* callsCount moves with callsSem, in the opposite direction.
callsCount == TotalCallsLimit - callsSem

\* Mutant of WaitForSignallingChannels: it does not wait.
NoWaitForSignallingChannels ==
  /\ shutting /\ ~drained
  /\ drained' = TRUE
  /\ UNCHANGED <<threadVars, lockVars, gwVars, routeVars, shutting, callsSem, inLimits>>

\* waitForSignallingChannels: callsCount.WaitCondition().
WaitForSignallingChannels ==
  /\ shutting /\ ~drained
  /\ callsCount <= 0
  /\ drained' = TRUE
  /\ UNCHANGED <<threadVars, lockVars, gwVars, routeVars, shutting, callsSem, inLimits>>

-----------------------------------------------------------------------------
CallNext(c) ==
  \/ TryTake(c)
  \/ \E parallelStart \in BOOLEAN : SmsCall(c, parallelStart)
  \/ RejectCall(c)
  \/ DropRoutedCall(c)
  \/ ProxyCall(c)
  \/ AnswerCall(c)
  \/ ProxyEnds(c)
  \/ RefusedCallEnds(c)
  \/ AnswerLegEnds(c)

LegNext(l) ==
  \/ \E ch \in Choices : \/ ChoiceLacksGw(l, ch)
                         \/ ChoiceRefused(l, ch)
                         \/ TakeChoice(l, ch)
  \/ Connect(l)
  \/ \E next \in {"hunting", "quitting"} : CloseChoice(l, next)
  \/ RemoveCall(l)
  \/ LegEnds(l)
  \/ CallBackInit(l)
  \/ CallBackInitFails(l)
  \/ CallBackLegEnds(l)

\* Everything is over; a call still "new" was refused or never came.
Terminated ==
  /\ drained
  /\ \A c \in Calls : pc[c] \in {"new", "ended"}
  /\ \A l \in Legs : Finished(l)
  /\ UNCHANGED vars

Next ==
  \/ \E c \in Calls : CallNext(c)
  \/ \E l \in Legs : LegNext(l)
  \/ SetShuttingDown
  \/ WaitForSignallingChannels
  \/ Terminated

Spec == Init /\ [][Next]_vars

\* Under shutdown every loop of a thread breaks at its next iteration, and a
\* thread that runs gets on with its next step.  getCallInfo returns: the
\* fairness of RejectCall and CallBackInitFails, always among the outcomes,
\* asks for one of them and not for a refusal.
Fairness ==
  /\ WF_vars(SetShuttingDown)
  /\ WF_vars(WaitForSignallingChannels)
  /\ \A c \in Calls :
       /\ WF_vars(RejectCall(c))
       /\ WF_vars(RefusedCallEnds(c))
       /\ WF_vars(ProxyEnds(c))
       /\ WF_vars(shutting /\ AnswerLegEnds(c))
  /\ \A l \in Legs :
       /\ WF_vars(shutting /\ CloseChoice(l, "quitting"))
       /\ WF_vars(shutting /\ RemoveCall(l))
       /\ WF_vars(LegEnds(l))
       /\ WF_vars(CallBackInitFails(l))
       /\ WF_vars(CallBackLegEnds(l))

FairSpec == Spec /\ Fairness

-----------------------------------------------------------------------------
(* What the counters stand for.                                            *)

\* The leg (or leg 1, for the caller's side of a call) owns a slot of
\* callsSem that nobody has given back.
HoldsSlot(l) ==
  \/ l[2] = 1 /\ pc[l[1]] \in {"accepted", "failing", "proxying", "answering"}
  \/ /\ l[2] \in {1, 2} /\ Kind[l[1]] = "callback"
     /\ pc[l[1]] # "new" /\ lpc[l] # "ended"

SlotHolders == {l \in Legs : HoldsSlot(l)}

InChoice(l) == lpc[l] \in {"inChoice", "talking"}

InHolders(i)       == {c \in Calls : inTaken[c] /\ Source[c] = i}
OutHolders(p)      == {l \in Legs : InChoice(l) /\ cur[l] = p}
RouteHolders(i, p) == {l \in OutHolders(p) : Source[l[1]] = i}

\* The slots left in callsSem are exactly those no thread owns: no path of
\* a call (refusal, hand-over to an AnswerCall, call-back, a lost leg) gives
\* a slot back twice or takes one unnoticed.
SlotsConserved == callsSem = TotalCallsLimit - Cardinality(SlotHolders)

\* inLimits, outLimits and inOutLimits count the calls and legs that are
\* really there, whatever the order in which threads take and release them.
PeersConserved ==
  /\ \A i \in InPeers : inLimits[i] = Cardinality(InHolders(i))
  /\ \A p \in OutPeers : outLimits[p] = Cardinality(OutHolders(p))
  /\ \A i \in InPeers, p \in OutPeers :
       inOutLimits[i][p] = Cardinality(RouteHolders(i, p))

\* The configured limits bound the calls and legs in progress, not just the
\* counters.
LimitsRespected ==
  /\ Cardinality(SlotHolders) <= TotalCallsLimit
  /\ \A i \in InPeers : InLimit[i] # 0 => Cardinality(InHolders(i)) <= InLimit[i]
  /\ \A p \in OutPeers : OutLimit[p] # 0 => Cardinality(OutHolders(p)) <= OutLimit[p]
  /\ \A i \in InPeers, p \in OutPeers :
       RouteLimit[i][p] # 0 => Cardinality(RouteHolders(i, p)) <= RouteLimit[i][p]

\* The legs that own a lock of card a, as caller and as called card.
CallerLocks(a) == {l \in Legs : lockIn[l] /\ Source[l[1]] = a}
CalledLocks(a) == {l \in Legs : lockOut[l] /\ OutCard[l] = a}

\* Card a takes part in a call with several forks.  Each fork's removeCall
\* erases the lock that was taken once, so nothing is promised of such cards.
Forked(a) ==
  \E c \in Calls : /\ Kind[c] # "callback" /\ Forks[c] > 1
                   /\ a = Source[c] \/ \E f \in 1 .. MaxForks : a = OutCard[<<c, f>>]

\* A card that no call forks has one entry of cardLocks per call that locked
\* it, and never more of them than its lines, even when it calls itself.
CardLinesRespected ==
  \A a \in Cards : Lines[a] # 0 /\ ~Forked(a) =>
    /\ cardLocks[a] = Cardinality(CallerLocks(a)) + Cardinality(CalledLocks(a))
    /\ cardLocks[a] <= Lines[a]

\* Every choice a call may be given asks for a gateway slot, or none does.
NoMixedRoutes ==
  \A c \in Calls, x, y \in Choices : Proto[x] = Kind[c] <=> Proto[y] = Kind[c]

GwHolders == {l \in Legs : InChoice(l) /\ NeedsGw(l, cur[l])}
CallBacks == {c \in Calls : pc[c] = "callback"}

\* While routes do not mix protocols, the legs that change the protocol and
\* the call-backs together stay within the gateway licence.
GwLimitRespected ==
  NoMixedRoutes => Cardinality(GwHolders) + Cardinality(CallBacks) <= GwCallsLimit

\* waitForSignallingChannels lets the process go on to tear itself down only
\* at a moment when no thread owns a slot.
DrainsWhenQuiet == [][~drained /\ drained' => SlotHolders = {}]_vars

\* Shutting down terminates: every slot comes back and the wait returns.
ShutdownDrains == shutting ~> drained

-----------------------------------------------------------------------------
(* Each limited resource is an abstract pool.                              *)

SlotPool == INSTANCE LimitedPool
              WITH Clients <- Legs, Limit <- TotalCallsLimit, inUse <- SlotHolders
OutPool(p) == INSTANCE LimitedPool
              WITH Clients <- Legs, Limit <- OutLimit[p], inUse <- OutHolders(p)

\* The slots of the switch are a pool of TotalCallsLimit.
ImplementsSlotPool == SlotPool!Spec

\* The legs of an outbound peer are a pool of that peer's limit.
ImplementsOutPools ==
  /\ \A p \in OutPeers : OutPool(p)!Init
  /\ [][\A p \in OutPeers : UNCHANGED OutHolders(p) \/ OutPool(p)!Next]_vars
=============================================================================
