------------------------------- MODULE MoneySpool -------------------------------
(***************************************************************************)
(* The money of the calls in progress.  Every account some call is paid    *)
(* from (a prepaid card, a customer, a dealer) has a MoneySpool in memory; *)
(* every payer of a call has an eater on that account's spool, from the    *)
(* connect of the call to its end.  EndThread and ConfThread tick the      *)
(* spools, the end of a call debits the spool, the cached account and, for *)
(* a card, the database; the other accounts reach the database later, as   *)
(* accounting records.  Meanwhile ConfThread replaces the cached accounts  *)
(* by what it read from the database, and the code of one card may be      *)
(* applied to another.                                                     *)
(*                                                                         *)
(* Everything but the two database transactions of ConfThread and of       *)
(* applyCode runs under Conf::Impl::mut.  An eater is a pair <<c, r>>: the *)
(* field r of the EaterDetails or RadiusCall of call c.  Money is counted  *)
(* in the currency of the account (valuteRate is 1).                       *)
(***************************************************************************)
EXTENDS Integers, FiniteSets, FiniteSetsExt, SequencesExt

CONSTANTS
  Calls,            \* the calls that may arrive, each once
  Cards, Customers, Dealers,
  Credit,           \* the cards that may go below zero
  Kind,             \* Kind[c]: "peer", "card" or "radius"
  Payer,            \* Payer[c]: the fields of c's eaters and their accounts
  CustomerOf,       \* CustomerOf[c]: the customer c arrives for
  Charge,           \* Charge[e][s]: getMoney ( s ) of an eater
  TrafficCosts,     \* what the octets of a session may cost
  Codes,            \* pairs <<a, b>>: the code of card b is applied to a
  MaxSecs,          \* bound of the model: the longest call
  InitialMoney,     \* InitialMoney[a]: what the database starts with
  None              \* no call holds the mutex; no data has been read

Accounts == Cards \cup Customers \cup Dealers

\* The order of removeCall, then the order of removeInEaters and
\* removeTrafEaters.
H323Roles    == <<"outCard", "outCustomer", "outResponsible", "card", "in", "inDealer">>
RadiusRoles  == <<"inDealer", "in", "inCard">>
TrafficRoles == <<"inDealerTraf", "inTraf", "inCardTraf", "outDealerTraf", "outTraf", "outCardTraf">>
RoleOrder(c) == IF Kind[c] = "radius" THEN RadiusRoles \o TrafficRoles ELSE H323Roles

Eaters       == UNION {{c} \X DOMAIN Payer[c] : c \in Calls}
AccountOf(e) == Payer[e[1]][e[2]]
EatersOf(c)  == {e \in Eaters : e[1] = c}
CardsOf(c)   == {AccountOf(e) : e \in EatersOf(c)} \cap Cards
IsTraffic(e) == e[2] \in ToSet(TrafficRoles)
Tickable(e)  == Kind[e[1]] # "radius"

ASSUME AccountsAssumption ==
  /\ Cards \cap (Customers \cup Dealers) = {}
  /\ Customers \cap Dealers = {}
  /\ Credit \subseteq Cards
  /\ InitialMoney \in [Accounts -> Int]
ASSUME CallsAssumption ==
  /\ None \notin Calls
  /\ Kind \in [Calls -> {"peer", "card", "radius"}]
  /\ CustomerOf \in [Calls -> Customers]
  /\ \A c \in Calls : \A r \in DOMAIN Payer[c] :
       r \in ToSet(RoleOrder(c)) /\ Payer[c][r] \in Accounts
ASSUME MoneyAssumption ==
  /\ MaxSecs \in Nat
  /\ Charge \in [Eaters -> [0 .. MaxSecs + 1 -> Nat]]
  /\ TrafficCosts \subseteq Nat
  /\ Codes \subseteq Cards \X Cards
  /\ \A x \in Codes : x[1] # x[2]

VARIABLES
  stage,      \* where the thread of a call is
  age,        \* seconds since the eaters of a call were made
  secs,       \* endTime - begTime, or Acct-Session-Time
  mut,        \* the call whose removal holds Conf::Impl::mut
  spools,     \* the keys of cardCalls and customerCalls
  total, used,      \* totalMoney and usedMoney of a spool
  attached,   \* the members of eaters and nteaters of all spools
  eaterUsed,  \* usedMoney of an eater
  asked,      \* the calls told to beginShutDown
  cached,     \* the cards in acctnToCard
  cost,       \* CardInfo::cost, CustomerInfo and ResponsibleInfo::balance
  ledger,     \* the money of an account in the database
  bill,       \* the realMoney of a detached eater
  pending,    \* detached eaters whose record the database has not yet
  snapshot,   \* the balances a reload has read and not installed
  applied,    \* how far the application of a code is
  outside     \* what applied codes changed on a cached card, not yet reread

spoolVars  == <<spools, total, used, attached, eaterUsed>>
memVars    == <<cached, cost>>
dbVars     == <<ledger, bill, pending>>
codeVars   == <<applied, outside>>
callVars   == <<stage, age, secs, mut>>
vars == <<callVars, spoolVars, asked, memVars, dbVars, snapshot, codeVars>>

Unbilled == -1
Stages   == {"idle", "routed", "talking", "ended", "removing", "removed", "accounted"}

TypeOK ==
  /\ stage \in [Calls -> Stages]
  /\ age \in [Calls -> 0 .. MaxSecs]
  /\ secs \in [Calls -> 0 .. MaxSecs]
  /\ mut \in Calls \cup {None}
  /\ spools \subseteq Accounts
  /\ total \in [Accounts -> Int] /\ used \in [Accounts -> Int]
  /\ attached \subseteq Eaters
  /\ eaterUsed \in [Eaters -> Nat]
  /\ asked \subseteq {c \in Calls : Kind[c] # "radius"}
  /\ cached \subseteq Cards
  /\ cost \in [Accounts -> Int] /\ ledger \in [Accounts -> Int]
  /\ bill \in [Eaters -> Nat \cup {Unbilled}]
  /\ pending \subseteq Eaters
  /\ snapshot \in [Customers \cup Dealers -> Int] \cup {None}
  /\ applied \in [Codes -> {"no", "sql", "done"}]
  /\ outside \in [Cards -> Int]

Init ==
  /\ stage = [c \in Calls |-> "idle"]
  /\ age = [c \in Calls |-> 0] /\ secs = [c \in Calls |-> 0]
  /\ mut = None
  /\ spools = {} /\ attached = {} /\ asked = {} /\ cached = {} /\ pending = {}
  /\ total = [a \in Accounts |-> 0] /\ used = [a \in Accounts |-> 0]
  /\ eaterUsed = [e \in Eaters |-> 0]
  /\ ledger = InitialMoney
  /\ cost = [a \in Accounts |-> IF a \in Cards THEN 0 ELSE InitialMoney[a]]
  /\ bill = [e \in Eaters |-> Unbilled]
  /\ snapshot = None
  /\ applied = [x \in Codes |-> "no"]
  /\ outside = [a \in Cards |-> 0]

--------------------------------------------------------------------------------
(* Spools and eaters *)

ZeroCost(e) == \A s \in DOMAIN Charge[e] : Charge[e][s] = 0

Users(a) == {e \in attached : AccountOf(e) = a}

\* Mutant of StopOn: a RADIUS eater asks for a stop it cannot get.
StopOnAny(A) == {e[1] : e \in {f \in attached : AccountOf(f) \in A /\ ~ ZeroCost(f)}}

\* MoneySpool::stop: every eater that costs something is told to stop; only
\* an H.323 eater can end its call.
StopOn(A) == {e[1] : e \in {f \in attached : /\ AccountOf(f) \in A
                                             /\ ~ ZeroCost(f)
                                             /\ Kind[f[1]] # "radius"}}

\* What the next second of the tickable eaters of a costs.
NextSecond(a) ==
  MapThenSumSet(LAMBDA e : Charge[e][age[e[1]] + 1] - Charge[e][age[e[1]]],
                {e \in Users(a) : Tickable(e)})

\* One tick of the spools A: the eaters' money is brought up to date, and a
\* spool that cannot pay the next second stops.
Tick(A) ==
  LET Ticked == {e \in attached : AccountOf(e) \in A /\ Tickable(e)}
      Broke  == {a \in A \cap spools : a \notin Credit /\ NextSecond(a) > total[a]}
  IN /\ mut = None
     /\ eaterUsed' = [e \in Eaters |-> IF e \in Ticked THEN Charge[e][age[e[1]]]
                                                       ELSE eaterUsed[e]]
     /\ used' = [a \in Accounts |-> used[a] +
          MapThenSumSet(LAMBDA e : Charge[e][age[e[1]]] - eaterUsed[e],
                        Ticked \cap Users(a))]
     /\ asked' = asked \cup StopOn(Broke)
     /\ UNCHANGED <<callVars, spools, total, attached, memVars, dbVars, snapshot, codeVars>>

BalanceCards  == Tick(Cards)
BalanceSecond == Tick(Customers \cup Dealers)

--------------------------------------------------------------------------------
(* The cached accounts *)

\* The cost cardByAcctn finds, reading the database when the card is new.
Cost(a) == IF a \in Cards \ cached THEN ledger[a] ELSE cost[a]

\* What cardByAcctn leaves of the cards A; a card that was read is told to its
\* spool (cardLoaded).
Looked(A)      == [a \in Accounts |-> IF a \in A THEN Cost(a) ELSE cost[a]]
LookedTotal(A) == [a \in Accounts |->
                     IF a \in (A \ cached) \cap spools THEN ledger[a] ELSE total[a]]

UsedOn(a)    == IF a \in spools THEN used[a] ELSE 0
Remaining(a) == IF a \in spools THEN total[a] - used[a] ELSE cost[a]

\* The balance checks of a card: one second of the call, or any money at all.
CardCanPay(e) ==
  LET a == AccountOf(e)
  IN a \in Credit \/ (Cost(a) > 0 /\ Charge[e][1] <= Cost(a))
OutCardCanPay(e) == AccountOf(e) \in Credit \/ Cost(AccountOf(e)) > 0

\* The balance checks of a customer or dealer: what is left, at Pin check and
\* setup; the dealer of a card's call is compared with the customer's spool.
OthersCanPay(e) ==
  LET a == AccountOf(e)  c == e[1]
  IN CASE Kind[c] = "radius" -> Remaining(a) > 0
       [] Kind[c] = "card" /\ e[2] = "inDealer" -> cost[a] > UsedOn(CustomerOf[c])
       [] OTHER -> cost[a] > UsedOn(a)

\* A price of zero excuses from the check, but for a peer's own customer and
\* dealer and for the card of a RADIUS request, all of whose prices must be zero.
Excused(e) ==
  /\ ZeroCost(e)
  /\ e[2] # "inCard"
  /\ Kind[e[1]] = "radius" => \A f \in EatersOf(e[1]) : IsTraffic(f) \/ ZeroCost(f)
  /\ Kind[e[1]] = "peer" => e[2] \notin {"in", "inDealer"}

CanPay(e) ==
  \/ Excused(e)
  \/ IsTraffic(e)
  \/ e[2] \in {"card", "inCard"} /\ CardCanPay(e)
  \/ e[2] = "outCard" /\ OutCardCanPay(e)
  \/ AccountOf(e) \notin Cards /\ OthersCanPay(e)

--------------------------------------------------------------------------------
(* A call *)

\* The route of a setup or the Pin check of a RADIUS request.  A call that
\* cannot be paid is refused, and may be tried again.
Setup(c) ==
  /\ stage[c] = "idle" /\ mut = None
  /\ cached' = cached \cup CardsOf(c)
  /\ cost' = Looked(CardsOf(c))
  /\ total' = LookedTotal(CardsOf(c))
  /\ stage' = IF \A e \in EatersOf(c) : CanPay(e)
              THEN [stage EXCEPT ![c] = "routed"] ELSE stage
  /\ UNCHANGED <<age, secs, mut, spools, used, attached, eaterUsed, asked, dbVars, snapshot, codeVars>>

\* addCall at the connect, addInEaters and addTrafEaters in getCreditTime: the
\* spools that are missing are made from the cached accounts.
AddCall(c) ==
  LET New == {AccountOf(e) : e \in EatersOf(c)} \ spools
  IN /\ stage[c] = "routed" /\ mut = None
     /\ stage' = [stage EXCEPT ![c] = "talking"]
     /\ cached' = cached \cup CardsOf(c)
     /\ cost' = Looked(CardsOf(c))
     /\ spools' = spools \cup New
     /\ total' = [a \in Accounts |-> IF a \in New THEN Cost(a)
                                                  ELSE LookedTotal(CardsOf(c))[a]]
     /\ attached' = attached \cup EatersOf(c)
     /\ UNCHANGED <<age, secs, mut, used, eaterUsed, asked, dbVars, snapshot, codeVars>>

\* A second passes for every call with eaters.
Second ==
  /\ attached # {}
  /\ \A e \in attached : age[e[1]] < MaxSecs
  /\ age' = [c \in Calls |-> IF \E e \in attached : e[1] = c THEN age[c] + 1 ELSE age[c]]
  /\ UNCHANGED <<stage, secs, mut, spoolVars, asked, memVars, dbVars, snapshot, codeVars>>

\* An H.323 call ends: a release, a socket that closes, beginShutDown.
HangUp(c) ==
  /\ Kind[c] # "radius" /\ stage[c] \in {"routed", "talking"}
  /\ stage' = [stage EXCEPT ![c] = "ended"]
  /\ secs' = [secs EXCEPT ![c] = age[c]]
  /\ UNCHANGED <<age, mut, spoolVars, asked, memVars, dbVars, snapshot, codeVars>>

\* The thread of an ended call enters removeCall.
RemoveCall(c) ==
  /\ stage[c] = "ended" /\ mut = None
  /\ stage' = [stage EXCEPT ![c] = "removing"]
  /\ mut' = c
  /\ UNCHANGED <<age, secs, spoolVars, asked, memVars, dbVars, snapshot, codeVars>>

\* The stop record of a RADIUS call: the octets are charged first, which may
\* stop the H.323 calls on the same account.
RadiusStop(c) ==
  LET Traffic == {e \in EatersOf(c) : IsTraffic(e)}
  IN /\ Kind[c] = "radius" /\ stage[c] = "talking" /\ mut = None
     /\ stage' = [stage EXCEPT ![c] = "removing"]
     /\ mut' = c
     /\ secs' \in {[secs EXCEPT ![c] = t] : t \in 0 .. MaxSecs}
     /\ \E m \in TrafficCosts :
          /\ eaterUsed' = [e \in Eaters |-> IF e \in Traffic THEN m ELSE eaterUsed[e]]
          /\ used' = [a \in Accounts |-> used[a] + m * Cardinality(Traffic \cap Users(a))]
     /\ asked' = asked \cup StopOn({a \in {AccountOf(e) : e \in Traffic} :
                                      a \notin Credit /\ used'[a] >= total[a]})
     /\ UNCHANGED <<age, spools, total, attached, memVars, dbVars, snapshot, codeVars>>

\* The calls' eaters leave in the order of the code.
IsFirst(e) ==
  LET Rank(f) == CHOOSE i \in 1 .. Len(RoleOrder(e[1])) : RoleOrder(e[1])[i] = f[2]
  IN \A f \in attached \cap EatersOf(e[1]) : Rank(e) <= Rank(f)

RealMoney(e) == IF IsTraffic(e) THEN eaterUsed[e] ELSE Charge[e][secs[e[1]]]

\* Mutant of LeftOver: the ticks are charged instead of the real seconds.
LeftOverTicked(e) == total[AccountOf(e)] - eaterUsed[e]

\* totalMoney after e left; the cached account of the spool follows it, and is
\* read from the database first when it is not there.
LeftOver(e) ==
  IF AccountOf(e) \in Cards \ cached THEN ledger[AccountOf(e)]
  ELSE total[AccountOf(e)] - RealMoney(e)

\* Mutant of UsedLeft: the real money leaves usedMoney, not the ticked one.
UsedLeftReal(e) == used[AccountOf(e)] - RealMoney(e)

UsedLeft(e) == used[AccountOf(e)] - eaterUsed[e]

\* Mutant of IsLast: nteaters is not looked at.
IsLastTicked(e) == {f \in Users(AccountOf(e)) : ~ IsTraffic(f)} = {e}

\* No eater of either kind is left on the spool.
IsLast(e) == Users(AccountOf(e)) = {e}

\* delEater: the spool and the cached account (not a dealer's) lose the
\* realMoney of the call, a card's row in the database too; the last eater
\* takes its spool with it.
DelEater(e) ==
  LET a == AccountOf(e)
  IN /\ mut = e[1] /\ e \in attached /\ IsFirst(e)
     /\ attached' = attached \ {e}
     /\ cached' = cached \cup ({a} \cap Cards)
     /\ cost' = IF a \in Dealers THEN cost ELSE [cost EXCEPT ![a] = LeftOver(e)]
     /\ total' = [total EXCEPT ![a] = IF IsLast(e) THEN 0 ELSE LeftOver(e)]
     /\ used' = [used EXCEPT ![a] = IF IsLast(e) THEN 0 ELSE UsedLeft(e)]
     /\ eaterUsed' = [eaterUsed EXCEPT ![e] = 0]
     /\ spools' = IF IsLast(e) THEN spools \ {a} ELSE spools
     /\ bill' = [bill EXCEPT ![e] = RealMoney(e)]
     /\ ledger' = IF a \in Cards THEN [ledger EXCEPT ![a] = @ - RealMoney(e)] ELSE ledger
     /\ UNCHANGED <<callVars, asked, pending, snapshot, codeVars>>

\* Mutant of Removed: the mutex stays locked.
RemovedLocked(c) ==
  /\ mut = c /\ attached \cap EatersOf(c) = {}
  /\ stage' = [stage EXCEPT ![c] = "removed"]
  /\ UNCHANGED <<age, secs, mut, spoolVars, asked, memVars, dbVars, snapshot, codeVars>>

\* The end of removeCall or of the stop record.
Removed(c) ==
  /\ mut = c /\ attached \cap EatersOf(c) = {}
  /\ mut' = None
  /\ stage' = [stage EXCEPT ![c] = "removed"]
  /\ UNCHANGED <<age, secs, spoolVars, asked, memVars, dbVars, snapshot, codeVars>>

\* The accounting record of the call goes out.
AccountCall(c) ==
  /\ stage[c] = "removed"
  /\ stage' = [stage EXCEPT ![c] = "accounted"]
  /\ pending' = pending \cup {e \in EatersOf(c) : /\ bill[e] # Unbilled
                                                  /\ AccountOf(e) \notin Cards}
  /\ UNCHANGED <<age, secs, mut, spoolVars, asked, memVars, ledger, bill, snapshot, codeVars>>

\* The record has reached the tables the balances are summed from.
Report(e) ==
  /\ e \in pending
  /\ pending' = pending \ {e}
  /\ ledger' = [ledger EXCEPT ![AccountOf(e)] = @ - bill[e]]
  /\ UNCHANGED <<callVars, spoolVars, asked, memVars, bill, snapshot, codeVars>>

--------------------------------------------------------------------------------
(* The reload, and the application of a card's code *)

\* ConfData is built from the database, under confMut only.
ReloadRead ==
  /\ snapshot = None
  /\ snapshot' = [a \in Customers \cup Dealers |-> ledger[a]]
  /\ UNCHANGED <<callVars, spoolVars, asked, memVars, dbVars, codeVars>>

\* ConfData is installed: the spools take the new balances, and the cards with
\* a spool are read again.
ReloadInstall ==
  /\ snapshot # None /\ mut = None
  /\ snapshot' = None
  /\ cached' = spools \cap Cards
  /\ cost' = [a \in Accounts |->
       CASE a \notin Cards -> snapshot[a]
         [] a \in spools \cap Cards -> ledger[a]
         [] OTHER -> 0]
  /\ total' = [a \in Accounts |-> IF a \in spools THEN cost'[a] ELSE total[a]]
  /\ outside' = [a \in Cards |-> 0]
  /\ UNCHANGED <<callVars, spools, used, attached, eaterUsed, asked, dbVars, applied>>

\* Mutant of ApplyCodeSql: the code's own card keeps its money.
ApplyCodeHalf(x) ==
  /\ \A y \in Codes : y[2] = x[2] => applied[y] = "no"
  /\ applied' = [applied EXCEPT ![x] = "sql"]
  /\ ledger' = [ledger EXCEPT ![x[1]] = @ + ledger[x[2]]]
  /\ outside' = [k \in Cards |->
       IF k \in cached THEN outside[k] + (ledger'[k] - ledger[k]) ELSE outside[k]]
  /\ UNCHANGED <<callVars, spoolVars, asked, memVars, bill, pending, snapshot>>

\* applyCodeSql: one transaction of the database, under confMut.  A card whose
\* code was applied is closed there.
ApplyCodeSql(x) ==
  LET a == x[1]  b == x[2]
  IN /\ \A y \in Codes : y[2] = b => applied[y] = "no"
     /\ applied' = [applied EXCEPT ![x] = "sql"]
     /\ ledger' = [ledger EXCEPT ![a] = @ + ledger[b], ![b] = 0]
     /\ outside' = [k \in Cards |->
          IF k \in cached THEN outside[k] + (ledger'[k] - ledger[k]) ELSE outside[k]]
     /\ UNCHANGED <<callVars, spoolVars, asked, memVars, bill, pending, snapshot>>

\* Mutant of RefreshCards: a card in use is read again, its spool is not told.
RefreshCardsOnly(x) ==
  LET Both == {x[1], x[2]}
  IN /\ applied[x] = "sql" /\ mut = None
     /\ applied' = [applied EXCEPT ![x] = "done"]
     /\ cached' = (cached \ Both) \cup (Both \cap spools)
     /\ cost' = [a \in Accounts |->
          CASE a \in Both \cap spools -> ledger[a]
            [] a \in Both \ spools -> 0
            [] OTHER -> cost[a]]
     /\ outside' = [a \in Cards |-> IF a \in Both THEN 0 ELSE outside[a]]
     /\ UNCHANGED <<callVars, spoolVars, asked, dbVars, snapshot>>

\* The rest of applyCode: both cards are dropped, and read again if calls use
\* them.
RefreshCards(x) ==
  LET Both == {x[1], x[2]}
  IN /\ applied[x] = "sql" /\ mut = None
     /\ applied' = [applied EXCEPT ![x] = "done"]
     /\ cached' = (cached \ Both) \cup (Both \cap spools)
     /\ cost' = [a \in Accounts |->
          CASE a \in Both \cap spools -> ledger[a]
            [] a \in Both \ spools -> 0
            [] OTHER -> cost[a]]
     /\ total' = [a \in Accounts |-> IF a \in Both \cap spools THEN ledger[a] ELSE total[a]]
     /\ outside' = [a \in Cards |-> IF a \in Both THEN 0 ELSE outside[a]]
     /\ UNCHANGED <<callVars, spools, used, attached, eaterUsed, asked, dbVars, snapshot>>

--------------------------------------------------------------------------------

Next ==
  \/ \E c \in Calls :
       \/ Setup(c) \/ AddCall(c) \/ HangUp(c) \/ RemoveCall(c) \/ RadiusStop(c)
       \/ Removed(c) \/ AccountCall(c)
  \/ \E e \in Eaters : DelEater(e) \/ Report(e)
  \/ Second
  \/ BalanceCards
  \/ BalanceSecond
  \/ ReloadRead
  \/ ReloadInstall
  \/ \E x \in Codes : ApplyCodeSql(x) \/ RefreshCards(x)

Spec == Init /\ [][Next]_vars

(***************************************************************************)
(* A thread that was told to stop leaves its loop, a thread that ended     *)
(* runs removeCall and accountCall, and SQLOutThread and the jobs behind   *)
(* it empty their queues.  Nothing makes a call begin or a reload happen.  *)
(***************************************************************************)
Fairness ==
  /\ \A c \in Calls :
       /\ WF_vars(c \in asked /\ HangUp(c))
       /\ WF_vars(RemoveCall(c)) /\ WF_vars(Removed(c)) /\ WF_vars(AccountCall(c))
  /\ \A e \in Eaters : WF_vars(DelEater(e)) /\ WF_vars(Report(e))

FairSpec == Spec /\ Fairness

--------------------------------------------------------------------------------
(* Properties *)

\* usedMoney of a spool is the sum of what its eaters have used: the admission
\* of the next call compares it with the balance, whatever ticks, traffic
\* records and ends of calls came in between.
UsedIsSum ==
  \A a \in Accounts : used[a] = MapThenSumSet(LAMBDA e : eaterUsed[e], Users(a))

\* What the switch believes a card holds is what the database holds, but for
\* codes applied and not yet reread; a card in use is always cached, and its
\* spool agrees with the cache.
CardMemoryExact ==
  /\ \A a \in cached : cost[a] + outside[a] = ledger[a]
  /\ \A a \in spools \cap Cards : a \in cached /\ total[a] = cost[a]

\* A spool lives as long as some eater, tickable or not, is on it.
SpoolsHaveEaters == spools = {AccountOf(e) : e \in attached}

\* The money of ended calls that the database does not show yet.
Owed(a) ==
  MapThenSumSet(LAMBDA e : bill[e],
    {e \in Eaters : /\ AccountOf(e) = a /\ bill[e] # Unbilled
                    /\ e \in pending \/ stage[e[1]] \in {"removing", "removed"}})

\* A reload may forget the calls whose records are on their way, but nobody is
\* ever charged twice in memory: a customer or dealer is believed to have at
\* least what the database will show once it has caught up.
NeverBelowLedger ==
  \A a \in Customers \cup Dealers :
    LET truth == ledger[a] - Owed(a)
    IN /\ cost[a] >= truth
       /\ a \in spools => total[a] >= truth
       /\ snapshot # None => snapshot[a] >= truth

\* Every charge reaches the database once, and codes move money whole.
Paid == {e \in Eaters : /\ bill[e] # Unbilled
                        /\ \/ AccountOf(e) \in Cards
                           \/ stage[e[1]] = "accounted" /\ e \notin pending}
AmountsOf == [e \in Eaters |-> IF IsTraffic(e) THEN TrafficCosts
                               ELSE {Charge[e][s] : s \in 0 .. MaxSecs}]
Ledger == INSTANCE Billing WITH
  Charges <- Eaters, PayerOf <- [e \in Eaters |-> AccountOf(e)],
  Amounts <- AmountsOf, balance <- ledger, paid <- Paid
ImplementsBilling == Ledger!Spec

\* A call that was told to stop ends, leaves every spool and is accounted.
StoppedCallsSettle ==
  \A c \in Calls :
    c \in asked ~> stage[c] = "accounted" /\ pending \cap EatersOf(c) = {}

\* "race ne budet": once its code has been applied, no call starts on the
\* money of a card.
AppliedCardIsSpent ==
  [][\A x \in Codes : \A c \in Calls :
       applied[x] # "no" /\ stage[c] = "idle" /\ stage'[c] = "routed"
         => x[2] \notin {AccountOf(e) : e \in EatersOf(c)}]_vars
================================================================================
