---------------------------- MODULE MoneySpoolProofs ----------------------------
(***************************************************************************)
(* Theorems about MoneySpool, for all calls, accounts and tariffs.         *)
(*                                                                         *)
(* What needs no sum: the stages of eaters, the cached cards, the spools   *)
(* and the refinement of Billing.  The sums are in SpoolSumsProofs.        *)
(***************************************************************************)
EXTENDS MoneySpool, TLAPS

--------------------------------------------------------------------------------
(* Eaters. *)

\* An eater belongs to a call, and drinks from an account.
LEMMA EaterParts ==
  ASSUME NEW e \in Eaters
  PROVE  /\ e[1] \in Calls
         /\ AccountOf(e) \in Accounts
         /\ e \in EatersOf(e[1])
         /\ e[2] \in ToSet(RoleOrder(e[1]))
<1>1. PICK c \in Calls : e \in {c} \X DOMAIN Payer[c]
  BY DEF Eaters
<1>2. e[1] = c /\ e[2] \in DOMAIN Payer[c]
  BY <1>1
<1> QED BY <1>2, CallsAssumption DEF AccountOf, EatersOf

\* A charge is taken from a table of natural numbers.
LEMMA ChargeType ==
  ASSUME NEW e \in Eaters, NEW s \in 0 .. MaxSecs
  PROVE  Charge[e][s] \in Nat
BY MoneyAssumption

\* Only the sessions of RADIUS have traffic to pay.
LEMMA TrafficIsRadius ==
  ASSUME NEW e \in Eaters, IsTraffic(e)
  PROVE  Kind[e[1]] = "radius"
<1>1. SUFFICES ASSUME Kind[e[1]] # "radius" PROVE FALSE
  OBVIOUS
<1>2. e[2] \in ToSet(H323Roles)
  BY <1>1, EaterParts DEF RoleOrder
<1>3. e[2] \in {"outCard", "outCustomer", "outResponsible", "card", "in", "inDealer"}
  BY <1>2 DEF H323Roles, ToSet
<1>4. e[2] \in {"inDealerTraf", "inTraf", "inCardTraf", "outDealerTraf", "outTraf", "outCardTraf"}
  BY DEF IsTraffic, TrafficRoles, ToSet
<1> QED BY <1>3, <1>4

--------------------------------------------------------------------------------
(* The inductive invariant. *)

\* What TypeOK says of everything the other invariants count with.
MoneyTypes ==
  /\ stage \in [Calls -> Stages]
  /\ age \in [Calls -> 0 .. MaxSecs]
  /\ secs \in [Calls -> 0 .. MaxSecs]
  /\ spools \subseteq Accounts
  /\ total \in [Accounts -> Int]
  /\ attached \subseteq Eaters
  /\ eaterUsed \in [Eaters -> Nat]
  /\ cached \subseteq Cards
  /\ cost \in [Accounts -> Int]
  /\ ledger \in [Accounts -> Int]
  /\ bill \in [Eaters -> Nat \cup {Unbilled}]
  /\ pending \subseteq Eaters
  /\ snapshot \in [Customers \cup Dealers -> Int] \cup {None}
  /\ applied \in [Codes -> {"no", "sql", "done"}]
  /\ outside \in [Cards -> Int]

\* An eater is made at the connect, billed when it leaves its spool, and
\* reported after its call is accounted.
EaterStages ==
  \A e \in Eaters :
    /\ e \in attached => bill[e] = Unbilled /\ stage[e[1]] \in {"talking", "ended", "removing"}
    /\ stage[e[1]] \in {"idle", "routed"} => e \notin attached /\ bill[e] = Unbilled
    /\ e \in pending => /\ stage[e[1]] = "accounted"
                        /\ bill[e] # Unbilled
                        /\ AccountOf(e) \notin Cards

\* Only the call in removeCall or in its stop record has the mutex; its traffic
\* is charged.
RemovalHolds ==
  /\ \A c \in Calls : stage[c] = "removing" <=> mut = c
  /\ \A c \in Calls : stage[c] = "ended" => Kind[c] # "radius"
  /\ \A e \in attached : IsTraffic(e) /\ stage[e[1]] = "removing"
                           => eaterUsed[e] \in TrafficCosts

\* A bill is an amount the tariff yields.
BillAmounts == \A e \in Eaters : bill[e] # Unbilled => bill[e] \in AmountsOf[e]

\* A code changes a card behind the cache only while the card is cached.
OutsideIsCached == \A a \in Cards \ cached : outside[a] = 0

IInv ==
  /\ MoneyTypes
  /\ EaterStages
  /\ RemovalHolds
  /\ BillAmounts
  /\ SpoolsHaveEaters
  /\ CardMemoryExact
  /\ OutsideIsCached

--------------------------------------------------------------------------------
(* Types. *)

\* The ticked money and the real money of an eater are natural numbers.
LEMMA RealMoneyType ==
  ASSUME MoneyTypes, NEW e \in Eaters
  PROVE  RealMoney(e) \in Nat
<1>1. secs[e[1]] \in 0 .. MaxSecs /\ eaterUsed[e] \in Nat
  BY EaterParts DEF MoneyTypes
<1> QED BY <1>1, ChargeType DEF RealMoney

\* The cost a lookup finds is a number, and so are those it leaves.
LEMMA LookupType ==
  ASSUME MoneyTypes
  PROVE  /\ \A a \in Accounts : Cost(a) \in Int
         /\ \A A : Looked(A) \in [Accounts -> Int]
         /\ \A A : LookedTotal(A) \in [Accounts -> Int]
<1>1. \A a \in Accounts : Cost(a) \in Int
  BY DEF MoneyTypes, Cost
<1> QED BY <1>1 DEF MoneyTypes, Looked, LookedTotal

LEMMA TypesInit == Init => MoneyTypes
BY AccountsAssumption, MoneyAssumption
DEF Init, MoneyTypes, Stages, Accounts

LEMMA TypesStep ==
  ASSUME MoneyTypes, [Next]_vars
  PROVE  MoneyTypes'
<1>1. ASSUME NEW c \in Calls, Setup(c) PROVE MoneyTypes'
  <2>1. cost' \in [Accounts -> Int] /\ total' \in [Accounts -> Int]
    BY <1>1, LookupType DEF Setup
  <2>2. stage' \in [Calls -> Stages]
    BY <1>1 DEF Setup, MoneyTypes, Stages
  <2>3. cached' \subseteq Cards
    BY <1>1 DEF Setup, MoneyTypes, CardsOf
  <2> QED BY <1>1, <2>1, <2>2, <2>3 DEF Setup, MoneyTypes, dbVars, codeVars
<1>2. ASSUME NEW c \in Calls, AddCall(c) PROVE MoneyTypes'
  <2>1. cost' \in [Accounts -> Int]
    BY <1>2, LookupType DEF AddCall
  <2>2. total' \in [Accounts -> Int]
    BY <1>2, LookupType DEF AddCall
  <2>3. stage' \in [Calls -> Stages]
    BY <1>2 DEF AddCall, MoneyTypes, Stages
  <2>4. cached' \subseteq Cards
    BY <1>2 DEF AddCall, MoneyTypes, CardsOf
  <2>5. attached' \subseteq Eaters /\ spools' \subseteq Accounts
    BY <1>2, EaterParts DEF AddCall, MoneyTypes, EatersOf
  <2> QED BY <1>2, <2>1, <2>2, <2>3, <2>4, <2>5 DEF AddCall, MoneyTypes, dbVars, codeVars
<1>3. ASSUME NEW c \in Calls, HangUp(c) \/ RemoveCall(c) \/ Removed(c) PROVE MoneyTypes'
  <2>1. stage' \in [Calls -> Stages] /\ secs' \in [Calls -> 0 .. MaxSecs]
    BY <1>3 DEF HangUp, RemoveCall, Removed, MoneyTypes, Stages
  <2> QED BY <1>3, <2>1
      DEF HangUp, RemoveCall, Removed, MoneyTypes, spoolVars, memVars, dbVars, codeVars
<1>4. ASSUME NEW c \in Calls, RadiusStop(c) PROVE MoneyTypes'
  <2>1. stage' \in [Calls -> Stages] /\ secs' \in [Calls -> 0 .. MaxSecs]
    BY <1>4 DEF RadiusStop, MoneyTypes, Stages
  <2>2. eaterUsed' \in [Eaters -> Nat]
    BY <1>4, MoneyAssumption DEF RadiusStop, MoneyTypes
  <2> QED BY <1>4, <2>1, <2>2 DEF RadiusStop, MoneyTypes, memVars, dbVars, codeVars
<1>5. ASSUME NEW c \in Calls, AccountCall(c) PROVE MoneyTypes'
  <2>1. stage' \in [Calls -> Stages]
    BY <1>5 DEF AccountCall, MoneyTypes, Stages
  <2>2. pending' \subseteq Eaters
    BY <1>5 DEF AccountCall, MoneyTypes, EatersOf
  <2> QED BY <1>5, <2>1, <2>2 DEF AccountCall, MoneyTypes, spoolVars, memVars, codeVars
<1>6. ASSUME NEW e \in Eaters, DelEater(e) PROVE MoneyTypes'
  <2>1. RealMoney(e) \in Nat /\ AccountOf(e) \in Accounts
    BY RealMoneyType, EaterParts
  <2>2. LeftOver(e) \in Int
    BY <2>1 DEF LeftOver, MoneyTypes
  <2>3. cost' \in [Accounts -> Int] /\ total' \in [Accounts -> Int]
    BY <1>6, <2>1, <2>2 DEF DelEater, MoneyTypes
  <2>4. ledger' \in [Accounts -> Int]
    BY <1>6, <2>1 DEF DelEater, MoneyTypes
  <2>5. bill' \in [Eaters -> Nat \cup {Unbilled}] /\ eaterUsed' \in [Eaters -> Nat]
    BY <1>6, <2>1 DEF DelEater, MoneyTypes
  <2>6. cached' \subseteq Cards /\ attached' \subseteq Eaters /\ spools' \subseteq Accounts
    BY <1>6 DEF DelEater, MoneyTypes
  <2> QED BY <1>6, <2>3, <2>4, <2>5, <2>6 DEF DelEater, MoneyTypes, callVars, codeVars
<1>7. ASSUME NEW e \in Eaters, Report(e) PROVE MoneyTypes'
  <2>1. bill[e] \in Int /\ AccountOf(e) \in Accounts
    BY EaterParts DEF MoneyTypes, Unbilled
  <2>2. ledger' \in [Accounts -> Int] /\ pending' \subseteq Eaters
    BY <1>7, <2>1 DEF Report, MoneyTypes
  <2> QED BY <1>7, <2>2 DEF Report, MoneyTypes, callVars, spoolVars, memVars, codeVars
<1>8. ASSUME Second PROVE MoneyTypes'
  <2>1. age' \in [Calls -> 0 .. MaxSecs]
    <3> SUFFICES ASSUME NEW c \in Calls, NEW e \in attached, e[1] = c
                 PROVE  age[c] + 1 \in 0 .. MaxSecs
      BY <1>8 DEF Second, MoneyTypes
    <3>1. age[c] < MaxSecs
      BY <1>8 DEF Second
    <3>2. age[c] \in 0 .. MaxSecs
      BY DEF MoneyTypes
    <3> QED BY <3>1, <3>2, MoneyAssumption
  <2> QED BY <1>8, <2>1 DEF Second, MoneyTypes, spoolVars, memVars, dbVars, codeVars
<1>9. ASSUME NEW A, Tick(A) PROVE MoneyTypes'
  <2>1. eaterUsed' \in [Eaters -> Nat]
    <3>1. \A e \in Eaters : Charge[e][age[e[1]]] \in Nat
      BY EaterParts, ChargeType DEF MoneyTypes
    <3> QED BY <1>9, <3>1 DEF Tick, MoneyTypes
  <2> QED BY <1>9, <2>1 DEF Tick, MoneyTypes, callVars, memVars, dbVars, codeVars
<1>10. ASSUME ReloadRead PROVE MoneyTypes'
  <2>1. snapshot' \in [Customers \cup Dealers -> Int]
    BY <1>10 DEF ReloadRead, MoneyTypes, Accounts
  <2> QED BY <1>10, <2>1 DEF ReloadRead, MoneyTypes, callVars, spoolVars, memVars, dbVars, codeVars
<1>11. ASSUME ReloadInstall PROVE MoneyTypes'
  <2>1. snapshot \in [Customers \cup Dealers -> Int]
    BY <1>11 DEF ReloadInstall, MoneyTypes
  <2>2. cost' \in [Accounts -> Int]
    BY <1>11, <2>1 DEF ReloadInstall, MoneyTypes, Accounts
  <2>3. total' \in [Accounts -> Int]
    BY <1>11, <2>2 DEF ReloadInstall, MoneyTypes
  <2>4. snapshot' = None /\ cached' \subseteq Cards /\ outside' \in [Cards -> Int]
    BY <1>11 DEF ReloadInstall
  <2> QED BY <1>11, <2>2, <2>3, <2>4 DEF ReloadInstall, MoneyTypes, callVars, dbVars
<1>12. ASSUME NEW x \in Codes, ApplyCodeSql(x) PROVE MoneyTypes'
  <2>1. x[1] \in Accounts /\ x[2] \in Accounts
    BY MoneyAssumption DEF Accounts
  <2>2. ledger' \in [Accounts -> Int]
    BY <1>12, <2>1 DEF ApplyCodeSql, MoneyTypes
  <2>3. outside' \in [Cards -> Int]
    BY <1>12, <2>2 DEF ApplyCodeSql, MoneyTypes, Accounts
  <2>4. applied' \in [Codes -> {"no", "sql", "done"}]
    BY <1>12 DEF ApplyCodeSql, MoneyTypes
  <2> QED BY <1>12, <2>2, <2>3, <2>4
      DEF ApplyCodeSql, MoneyTypes, callVars, spoolVars, memVars
<1>13. ASSUME NEW x \in Codes, RefreshCards(x) PROVE MoneyTypes'
  <2>1. cost' \in [Accounts -> Int] /\ total' \in [Accounts -> Int]
    BY <1>13 DEF RefreshCards, MoneyTypes
  <2>2. /\ outside' \in [Cards -> Int]
        /\ applied' \in [Codes -> {"no", "sql", "done"}]
    BY <1>13 DEF RefreshCards, MoneyTypes
  <2>3. cached' \subseteq Cards
    BY <1>13, MoneyAssumption DEF RefreshCards, MoneyTypes
  <2> QED BY <1>13, <2>1, <2>2, <2>3 DEF RefreshCards, MoneyTypes, callVars, dbVars
<1>14. CASE UNCHANGED vars
  BY <1>14 DEF MoneyTypes, vars, callVars, spoolVars, memVars, dbVars, codeVars
<1> QED
  BY <1>1, <1>2, <1>3, <1>4, <1>5, <1>6, <1>7, <1>8, <1>9, <1>10, <1>11, <1>12, <1>13, <1>14
  DEF Next, BalanceCards, BalanceSecond

--------------------------------------------------------------------------------
(* The stages of eaters and the mutex. *)

LEMMA StagesStep ==
  ASSUME MoneyTypes, EaterStages, RemovalHolds, [Next]_vars
  PROVE  EaterStages'
<1>1. ASSUME NEW c \in Calls, Setup(c) PROVE EaterStages'
  <2>1. \A d \in Calls : stage'[d] # stage[d] =>
          stage[d] = "idle" /\ stage'[d] = "routed"
    <3>1. /\ stage[c] = "idle"
          /\ stage' = [stage EXCEPT ![c] = "routed"] \/ stage' = stage
      BY <1>1 DEF Setup
    <3>2. stage \in [Calls -> Stages]
      BY DEF MoneyTypes
    <3>3. CASE stage' = stage
      BY <3>3
    <3>4. CASE stage' = [stage EXCEPT ![c] = "routed"]
      BY <3>1, <3>2, <3>4
    <3> QED BY <3>1, <3>3, <3>4
  <2> QED BY <1>1, <2>1, EaterParts DEF Setup, EaterStages, dbVars
<1>2. ASSUME NEW c \in Calls, AddCall(c) PROVE EaterStages'
  <2>1. \A e \in Eaters : e \in EatersOf(c) <=> e[1] = c
    BY DEF EatersOf
  <2>2. \A d \in Calls : stage'[d] = IF d = c THEN "talking" ELSE stage[d]
    BY <1>2 DEF AddCall, MoneyTypes
  <2> QED BY <1>2, <2>1, <2>2, EaterParts DEF AddCall, EaterStages, dbVars
<1>3. ASSUME NEW c \in Calls, HangUp(c) PROVE EaterStages'
  <2>1. \A d \in Calls : stage'[d] = IF d = c THEN "ended" ELSE stage[d]
    BY <1>3 DEF HangUp, MoneyTypes
  <2> QED BY <1>3, <2>1, EaterParts DEF HangUp, EaterStages, dbVars, spoolVars
<1>4. ASSUME NEW c \in Calls, RemoveCall(c) PROVE EaterStages'
  <2>1. \A d \in Calls : stage'[d] = IF d = c THEN "removing" ELSE stage[d]
    BY <1>4 DEF RemoveCall, MoneyTypes
  <2> QED BY <1>4, <2>1, EaterParts DEF RemoveCall, EaterStages, dbVars, spoolVars
<1>5. ASSUME NEW c \in Calls, RadiusStop(c) PROVE EaterStages'
  <2>1. \A d \in Calls : stage'[d] = IF d = c THEN "removing" ELSE stage[d]
    BY <1>5 DEF RadiusStop, MoneyTypes
  <2> QED BY <1>5, <2>1, EaterParts DEF RadiusStop, EaterStages, dbVars
<1>6. ASSUME NEW c \in Calls, Removed(c) PROVE EaterStages'
  <2>1. \A d \in Calls : stage'[d] = IF d = c THEN "removed" ELSE stage[d]
    BY <1>6 DEF Removed, MoneyTypes
  <2>2. stage[c] = "removing"
    BY <1>6 DEF Removed, RemovalHolds
  <2>3. \A e \in attached : e[1] # c
    BY <1>6 DEF Removed, EatersOf, MoneyTypes
  <2> QED BY <1>6, <2>1, <2>2, <2>3, EaterParts DEF Removed, EaterStages, dbVars, spoolVars
<1>7. ASSUME NEW c \in Calls, AccountCall(c) PROVE EaterStages'
  <2>1. \A d \in Calls : stage'[d] = IF d = c THEN "accounted" ELSE stage[d]
    BY <1>7 DEF AccountCall, MoneyTypes
  <2>2. \A e \in EatersOf(c) : e[1] = c
    BY DEF EatersOf
  <2> QED BY <1>7, <2>1, <2>2, EaterParts DEF AccountCall, EaterStages, spoolVars
<1>8. ASSUME NEW e \in Eaters, DelEater(e) PROVE EaterStages'
  <2>1. \A f \in Eaters : bill'[f] = IF f = e THEN RealMoney(e) ELSE bill[f]
    BY <1>8 DEF DelEater, MoneyTypes
  <2>2. stage[e[1]] = "removing"
    BY <1>8, EaterParts DEF DelEater, RemovalHolds
  <2> QED BY <1>8, <2>1, <2>2, EaterParts DEF DelEater, EaterStages, callVars
<1>9. ASSUME NEW e \in Eaters, Report(e) PROVE EaterStages'
  BY <1>9 DEF Report, EaterStages, callVars, spoolVars
<1>10. ASSUME Second PROVE EaterStages'
  BY <1>10 DEF Second, EaterStages, dbVars, spoolVars
<1>11. ASSUME NEW A, Tick(A) PROVE EaterStages'
  BY <1>11 DEF Tick, EaterStages, dbVars, callVars
<1>12. CASE ReloadRead \/ ReloadInstall
  BY <1>12 DEF ReloadRead, ReloadInstall, EaterStages, dbVars, callVars, spoolVars
<1>13. ASSUME NEW x \in Codes, ApplyCodeSql(x) \/ RefreshCards(x) PROVE EaterStages'
  BY <1>13 DEF ApplyCodeSql, RefreshCards, EaterStages, dbVars, callVars, spoolVars
<1>14. CASE UNCHANGED vars
  BY <1>14 DEF EaterStages, vars, callVars, spoolVars, dbVars
<1> QED
  BY <1>1, <1>2, <1>3, <1>4, <1>5, <1>6, <1>7, <1>8, <1>9, <1>10, <1>11, <1>12, <1>13, <1>14
  DEF Next, BalanceCards, BalanceSecond

LEMMA RemovalStep ==
  ASSUME MoneyTypes, EaterStages, RemovalHolds, [Next]_vars
  PROVE  RemovalHolds'
<1>1. ASSUME NEW c \in Calls, Setup(c) \/ AddCall(c) PROVE RemovalHolds'
  <2>1. \A d \in Calls : stage'[d] # stage[d] =>
          stage[d] # "removing" /\ stage'[d] \in {"routed", "talking"}
    <3>1. /\ stage[c] \in {"idle", "routed"}
          /\ \E g \in {"routed", "talking"} : stage' = [stage EXCEPT ![c] = g] \/ stage' = stage
      BY <1>1 DEF Setup, AddCall
    <3>2. PICK g \in {"routed", "talking"} : stage' = [stage EXCEPT ![c] = g] \/ stage' = stage
      BY <3>1
    <3>3. stage \in [Calls -> Stages]
      BY DEF MoneyTypes
    <3>4. CASE stage' = stage
      BY <3>4
    <3>5. CASE stage' = [stage EXCEPT ![c] = g]
      BY <3>1, <3>3, <3>5
    <3> QED BY <3>2, <3>4, <3>5
  <2>2. mut' = mut /\ eaterUsed' = eaterUsed
    BY <1>1 DEF Setup, AddCall
  <2>3. \A e \in attached' : e \in attached \/ stage'[e[1]] = "talking"
    BY <1>1 DEF Setup, AddCall, EatersOf, MoneyTypes
  <2>4. \A e \in attached : e[1] \in Calls
    BY EaterParts DEF MoneyTypes
  <2> QED BY <2>1, <2>2, <2>3, <2>4 DEF RemovalHolds
<1>2. ASSUME NEW c \in Calls, HangUp(c) PROVE RemovalHolds'
  <2>1. \A d \in Calls : stage'[d] = IF d = c THEN "ended" ELSE stage[d]
    BY <1>2 DEF HangUp, MoneyTypes
  <2>2. \A e \in attached : e[1] \in Calls
    BY EaterParts DEF MoneyTypes
  <2> QED BY <1>2, <2>1, <2>2 DEF HangUp, RemovalHolds, spoolVars
<1>3. ASSUME NEW c \in Calls, RemoveCall(c) PROVE RemovalHolds'
  <2>1. \A d \in Calls : stage'[d] = IF d = c THEN "removing" ELSE stage[d]
    BY <1>3 DEF RemoveCall, MoneyTypes
  <2>2. Kind[c] # "radius"
    BY <1>3 DEF RemoveCall, RemovalHolds
  <2>3. \A e \in attached : IsTraffic(e) => e[1] \in Calls /\ e[1] # c
    BY <2>2, EaterParts, TrafficIsRadius DEF MoneyTypes
  <2> QED BY <1>3, <2>1, <2>3, CallsAssumption DEF RemoveCall, RemovalHolds, spoolVars
<1>4. ASSUME NEW c \in Calls, RadiusStop(c) PROVE RemovalHolds'
  <2>1. \A d \in Calls : stage'[d] = IF d = c THEN "removing" ELSE stage[d]
    BY <1>4 DEF RadiusStop, MoneyTypes
  <2>2. \A d \in Calls : stage[d] # "removing"
    BY <1>4, CallsAssumption DEF RadiusStop, RemovalHolds
  <2>3. PICK m \in TrafficCosts :
          eaterUsed' = [e \in Eaters |-> IF e \in {f \in EatersOf(c) : IsTraffic(f)}
                                         THEN m ELSE eaterUsed[e]]
    BY <1>4 DEF RadiusStop
  <2>4. \A e \in attached : IsTraffic(e) /\ e[1] = c => eaterUsed'[e] \in TrafficCosts
    BY <2>3 DEF EatersOf, MoneyTypes
  <2>5. \A e \in attached : e[1] \in Calls
    BY EaterParts DEF MoneyTypes
  <2>6. attached' = attached /\ mut' = c /\ mut = None
    BY <1>4 DEF RadiusStop
  <2> QED BY <2>1, <2>2, <2>4, <2>5, <2>6 DEF RemovalHolds
<1>5. ASSUME NEW c \in Calls, Removed(c) PROVE RemovalHolds'
  <2>1. \A d \in Calls : stage'[d] = IF d = c THEN "removed" ELSE stage[d]
    BY <1>5 DEF Removed, MoneyTypes
  <2>2. \A e \in attached : e[1] \in Calls
    BY EaterParts DEF MoneyTypes
  <2> QED BY <1>5, <2>1, <2>2, CallsAssumption DEF Removed, RemovalHolds, spoolVars
<1>6. ASSUME NEW c \in Calls, AccountCall(c) PROVE RemovalHolds'
  <2>1. \A d \in Calls : stage'[d] = IF d = c THEN "accounted" ELSE stage[d]
    BY <1>6 DEF AccountCall, MoneyTypes
  <2>2. \A e \in attached : e[1] \in Calls
    BY EaterParts DEF MoneyTypes
  <2> QED BY <1>6, <2>1, <2>2 DEF AccountCall, RemovalHolds, spoolVars
<1>7. ASSUME NEW e \in Eaters, DelEater(e) PROVE RemovalHolds'
  <2>1. \A f \in attached \ {e} : eaterUsed'[f] = eaterUsed[f]
    BY <1>7 DEF DelEater, MoneyTypes
  <2> QED BY <1>7, <2>1 DEF DelEater, RemovalHolds, callVars
<1>8. ASSUME NEW A, Tick(A) PROVE RemovalHolds'
  <2>1. \A e \in attached : IsTraffic(e) => eaterUsed'[e] = eaterUsed[e]
    BY <1>8, TrafficIsRadius DEF Tick, Tickable, MoneyTypes
  <2> QED BY <1>8, <2>1 DEF Tick, RemovalHolds, callVars
<1>9. ASSUME NEW e \in Eaters, Report(e) PROVE RemovalHolds'
  BY <1>9 DEF Report, RemovalHolds, callVars, spoolVars
<1>10. CASE Second \/ ReloadRead \/ ReloadInstall
  BY <1>10 DEF Second, ReloadRead, ReloadInstall, RemovalHolds, callVars, spoolVars
<1>11. ASSUME NEW x \in Codes, ApplyCodeSql(x) \/ RefreshCards(x) PROVE RemovalHolds'
  BY <1>11 DEF ApplyCodeSql, RefreshCards, RemovalHolds, callVars, spoolVars
<1>12. CASE UNCHANGED vars
  BY <1>12 DEF RemovalHolds, vars, callVars, spoolVars
<1> QED
  BY <1>1, <1>2, <1>3, <1>4, <1>5, <1>6, <1>7, <1>8, <1>9, <1>10, <1>11, <1>12
  DEF Next, BalanceCards, BalanceSecond

--------------------------------------------------------------------------------
(* Bills and spools. *)

\* What an eater is billed when it leaves is an amount the tariff yields.
LEMMA RealMoneyAmount ==
  ASSUME MoneyTypes, RemovalHolds, NEW e \in Eaters, DelEater(e)
  PROVE  RealMoney(e) \in AmountsOf[e]
<1>1. e \in attached /\ stage[e[1]] = "removing"
  BY EaterParts DEF DelEater, RemovalHolds
<1>2. CASE IsTraffic(e)
  BY <1>1, <1>2 DEF RemovalHolds, RealMoney, AmountsOf
<1>3. CASE ~ IsTraffic(e)
  <2>1. secs[e[1]] \in 0 .. MaxSecs
    BY EaterParts DEF MoneyTypes
  <2> QED BY <1>3, <2>1 DEF RealMoney, AmountsOf
<1> QED BY <1>2, <1>3

LEMMA BillsStep ==
  ASSUME MoneyTypes, RemovalHolds, BillAmounts, [Next]_vars
  PROVE  BillAmounts'
<1>1. ASSUME NEW e \in Eaters, DelEater(e) PROVE BillAmounts'
  <2>1. \A f \in Eaters : bill'[f] = IF f = e THEN RealMoney(e) ELSE bill[f]
    BY <1>1 DEF DelEater, MoneyTypes
  <2> QED BY <1>1, <2>1, RealMoneyAmount DEF BillAmounts, AmountsOf
<1>2. ASSUME bill' = bill PROVE BillAmounts'
  BY <1>2 DEF BillAmounts, AmountsOf
<1>3. (\A e \in Eaters : ~ DelEater(e)) => bill' = bill
  BY DEF Next, Setup, AddCall, HangUp, RemoveCall, RadiusStop, Removed, AccountCall, Report,
     Second, BalanceCards, BalanceSecond, Tick, ReloadRead, ReloadInstall, ApplyCodeSql,
     RefreshCards, vars, dbVars
<1> QED BY <1>1, <1>2, <1>3

LEMMA SpoolsStep ==
  ASSUME MoneyTypes, SpoolsHaveEaters, [Next]_vars
  PROVE  SpoolsHaveEaters'
<1>1. ASSUME NEW c \in Calls, AddCall(c) PROVE SpoolsHaveEaters'
  <2>1. /\ attached' = attached \cup EatersOf(c)
        /\ spools' = spools \cup ({AccountOf(e) : e \in EatersOf(c)} \ spools)
    BY <1>1 DEF AddCall
  <2> QED BY <2>1 DEF SpoolsHaveEaters
<1>2. ASSUME NEW e \in Eaters, DelEater(e) PROVE SpoolsHaveEaters'
  <2>1. /\ attached' = attached \ {e} /\ e \in attached
        /\ spools' = IF IsLast(e) THEN spools \ {AccountOf(e)} ELSE spools
    BY <1>2 DEF DelEater
  <2>2. CASE IsLast(e)
    BY <2>1, <2>2 DEF IsLast, Users, SpoolsHaveEaters
  <2>3. CASE ~ IsLast(e)
    <3>1. PICK f \in attached \ {e} : AccountOf(f) = AccountOf(e)
      BY <2>1, <2>3 DEF IsLast, Users
    <3> QED BY <2>1, <2>3, <3>1 DEF SpoolsHaveEaters
  <2> QED BY <2>2, <2>3
<1>3. ASSUME attached' = attached, spools' = spools PROVE SpoolsHaveEaters'
  BY <1>3 DEF SpoolsHaveEaters
<1>4. \/ attached' = attached /\ spools' = spools
      \/ \E c \in Calls : AddCall(c)
      \/ \E e \in Eaters : DelEater(e)
  BY DEF Next, Setup, HangUp, RemoveCall, RadiusStop, Removed, AccountCall, Report,
     Second, BalanceCards, BalanceSecond, Tick, ReloadRead, ReloadInstall, ApplyCodeSql,
     RefreshCards, vars, spoolVars
<1> QED BY <1>1, <1>2, <1>3, <1>4

--------------------------------------------------------------------------------
(* The cached cards. *)

\* A card is neither a customer nor a dealer, and a card in use is cached.
LEMMA SpoolCardCached ==
  ASSUME CardMemoryExact
  PROVE  (spools \cap Cards) \ cached = {}
BY DEF CardMemoryExact

LEMMA LookedExact ==
  ASSUME MoneyTypes, CardMemoryExact, OutsideIsCached, NEW A \in SUBSET Cards
  PROVE  /\ \A a \in cached \cup A : Looked(A)[a] = Cost(a) /\ Cost(a) + outside[a] = ledger[a]
         /\ \A a \in spools \cap Cards : LookedTotal(A)[a] = total[a] /\ Looked(A)[a] = cost[a]
<1>1. cached \cup A \subseteq Accounts /\ spools \cap Cards \subseteq cached
  BY SpoolCardCached DEF MoneyTypes, Accounts
<1>2. ASSUME NEW a \in cached \cup A
      PROVE  Looked(A)[a] = Cost(a) /\ Cost(a) + outside[a] = ledger[a]
  <2>1. CASE a \in cached
    BY <1>1, <2>1 DEF Looked, Cost, CardMemoryExact
  <2>2. CASE a \notin cached
    <3>1. a \in A /\ a \in Cards /\ a \in Accounts
      BY <1>1, <2>2
    <3>2. outside[a] = 0 /\ ledger[a] \in Int
      BY <2>2, <3>1 DEF OutsideIsCached, MoneyTypes
    <3>3. Looked(A)[a] = Cost(a) /\ Cost(a) = ledger[a]
      BY <2>2, <3>1 DEF Looked, Cost
    <3> QED BY <3>2, <3>3
  <2> QED BY <2>1, <2>2
<1>3. ASSUME NEW a \in spools \cap Cards
      PROVE  LookedTotal(A)[a] = total[a] /\ Looked(A)[a] = cost[a]
  BY <1>1 DEF LookedTotal, Looked, Cost
<1> QED BY <1>2, <1>3

LEMMA CardMemoryStep ==
  ASSUME MoneyTypes, EaterStages, SpoolsHaveEaters, CardMemoryExact, OutsideIsCached,
         [Next]_vars
  PROVE  CardMemoryExact' /\ OutsideIsCached'
<1> DEFINE Goal == CardMemoryExact' /\ OutsideIsCached'
<1>1. ASSUME NEW c \in Calls, Setup(c) PROVE Goal
  <2>1. CardsOf(c) \in SUBSET Cards
    BY DEF CardsOf
  <2>2. /\ cached' = cached \cup CardsOf(c)
        /\ cost' = Looked(CardsOf(c)) /\ total' = LookedTotal(CardsOf(c))
        /\ ledger' = ledger /\ outside' = outside /\ spools' = spools
    BY <1>1 DEF Setup, dbVars, codeVars
  <2> QED BY <2>1, <2>2, LookedExact DEF CardMemoryExact, OutsideIsCached
<1>2. ASSUME NEW c \in Calls, AddCall(c) PROVE Goal
  <2> DEFINE new == {AccountOf(e) : e \in EatersOf(c)} \ spools
  <2>1. CardsOf(c) \in SUBSET Cards /\ new \cap Cards \subseteq CardsOf(c)
    BY DEF CardsOf
  <2>2. /\ cached' = cached \cup CardsOf(c)
        /\ cost' = Looked(CardsOf(c))
        /\ total' = [a \in Accounts |-> IF a \in new THEN Cost(a)
                                                      ELSE LookedTotal(CardsOf(c))[a]]
        /\ ledger' = ledger /\ outside' = outside /\ spools' = spools \cup new
    BY <1>2 DEF AddCall, dbVars, codeVars
  <2>3. ASSUME NEW a \in (spools \cup new) \cap Cards
        PROVE  a \in cached' /\ total'[a] = cost'[a]
    <3>1. a \in Accounts
      BY DEF Accounts
    <3>2. CASE a \in new
      BY <2>1, <2>2, <3>1, <3>2, LookedExact
    <3>3. CASE a \notin new
      BY <2>1, <2>2, <3>1, <3>3, LookedExact, SpoolCardCached DEF CardMemoryExact
    <3> QED BY <3>2, <3>3
  <2> QED BY <2>1, <2>2, <2>3, LookedExact DEF CardMemoryExact, OutsideIsCached
<1>3. ASSUME NEW e \in Eaters, DelEater(e) PROVE Goal
  <2> DEFINE a == AccountOf(e)
  <2>1. /\ a \in Accounts /\ a \in spools
        /\ cost \in [Accounts -> Int] /\ total \in [Accounts -> Int]
        /\ ledger \in [Accounts -> Int] /\ RealMoney(e) \in Nat
    BY <1>3, EaterParts, RealMoneyType DEF DelEater, SpoolsHaveEaters, MoneyTypes
  <2>2. /\ cached' = cached \cup ({a} \cap Cards)
        /\ cost' = IF a \in Dealers THEN cost ELSE [cost EXCEPT ![a] = LeftOver(e)]
        /\ total' = [total EXCEPT ![a] = IF IsLast(e) THEN 0 ELSE LeftOver(e)]
        /\ spools' = IF IsLast(e) THEN spools \ {a} ELSE spools
        /\ ledger' = IF a \in Cards THEN [ledger EXCEPT ![a] = @ - RealMoney(e)] ELSE ledger
        /\ outside' = outside
    BY <1>3 DEF DelEater, codeVars
  <2>3. CASE a \in Cards
    <3>1. a \in cached /\ a \notin Dealers /\ cached' = cached
      BY <2>1, <2>2, <2>3, AccountsAssumption DEF CardMemoryExact
    <3>2. LeftOver(e) = cost[a] - RealMoney(e)
      BY <2>1, <2>3, <3>1 DEF LeftOver, CardMemoryExact
    <3>3. /\ cost' = [cost EXCEPT ![a] = LeftOver(e)]
          /\ ledger' = [ledger EXCEPT ![a] = @ - RealMoney(e)]
      BY <2>2, <2>3, <3>1
    <3>4. ASSUME NEW b \in cached PROVE cost'[b] + outside'[b] = ledger'[b]
      <4>1. b \in Accounts /\ outside[b] \in Int /\ cost[b] + outside[b] = ledger[b]
        BY DEF MoneyTypes, CardMemoryExact, Accounts
      <4>2. CASE b = a
        <5>1. cost'[b] = cost[b] - RealMoney(e) /\ ledger'[b] = ledger[b] - RealMoney(e)
          BY <2>1, <3>2, <3>3, <4>2
        <5> QED BY <2>1, <2>2, <4>1, <5>1
      <4>3. CASE b # a
        BY <2>1, <2>2, <3>3, <4>1, <4>3
      <4> QED BY <4>2, <4>3
    <3>5. ASSUME NEW b \in spools' \cap Cards PROVE b \in cached /\ total'[b] = cost'[b]
      <4>1. b \in spools /\ b \in Accounts /\ b \in cached /\ total[b] = cost[b]
        BY <2>2 DEF CardMemoryExact, Accounts
      <4>2. CASE b = a
        BY <2>1, <2>2, <3>3, <4>1, <4>2
      <4>3. CASE b # a
        BY <2>1, <2>2, <3>3, <4>1, <4>3
      <4> QED BY <4>2, <4>3
    <3> QED BY <2>2, <3>1, <3>4, <3>5 DEF CardMemoryExact, OutsideIsCached
  <2>4. CASE a \notin Cards
    <3>1. /\ cached' = cached /\ ledger' = ledger
          /\ \A b \in Cards : cost'[b] = cost[b] /\ total'[b] = total[b]
      BY <2>1, <2>2, <2>4 DEF Accounts
    <3>2. cached \subseteq Cards /\ spools' \subseteq spools
      BY <2>2 DEF MoneyTypes
    <3> QED BY <2>2, <3>1, <3>2 DEF CardMemoryExact, OutsideIsCached
  <2> QED BY <2>3, <2>4
<1>4. ASSUME NEW e \in Eaters, Report(e) PROVE Goal
  <2>1. \A b \in Cards : ledger'[b] = ledger[b]
    BY <1>4 DEF Report, EaterStages, MoneyTypes, Accounts
  <2>2. cached \subseteq Cards
    BY DEF MoneyTypes
  <2> QED BY <1>4, <2>1, <2>2
      DEF Report, CardMemoryExact, OutsideIsCached, spoolVars, memVars, codeVars
<1>5. ASSUME ReloadInstall PROVE Goal
  <2>1. /\ cached' = spools \cap Cards
        /\ \A a \in spools \cap Cards : cost'[a] = ledger[a] /\ total'[a] = cost'[a]
        /\ spools' = spools /\ ledger' = ledger
        /\ \A a \in Cards : outside'[a] = 0
    BY <1>5 DEF ReloadInstall, dbVars, Accounts
  <2>2. \A a \in Cards : ledger[a] \in Int
    BY DEF MoneyTypes, Accounts
  <2> QED BY <2>1, <2>2 DEF CardMemoryExact, OutsideIsCached
<1>6. ASSUME NEW x \in Codes, ApplyCodeSql(x) PROVE Goal
  <2>1. /\ ledger' \in [Accounts -> Int] /\ ledger \in [Accounts -> Int]
        /\ cached \subseteq Cards /\ Cards \subseteq Accounts
    BY <1>6, TypesStep DEF MoneyTypes, Accounts
  <2>2. /\ outside' = [k \in Cards |->
             IF k \in cached THEN outside[k] + (ledger'[k] - ledger[k]) ELSE outside[k]]
        /\ cached' = cached /\ cost' = cost /\ total' = total /\ spools' = spools
    BY <1>6 DEF ApplyCodeSql, memVars, spoolVars
  <2>3. ASSUME NEW a \in cached PROVE cost'[a] + outside'[a] = ledger'[a]
    <3>1. cost[a] \in Int /\ outside[a] \in Int /\ ledger[a] \in Int /\ ledger'[a] \in Int
      BY <2>1 DEF MoneyTypes
    <3>2. outside'[a] = outside[a] + (ledger'[a] - ledger[a])
      BY <2>1, <2>2
    <3>3. cost[a] + outside[a] = ledger[a]
      BY DEF CardMemoryExact
    <3> QED BY <2>2, <3>1, <3>2, <3>3
  <2> QED BY <2>2, <2>3 DEF CardMemoryExact, OutsideIsCached
<1>7. ASSUME NEW x \in Codes, RefreshCards(x) PROVE Goal
  <2> DEFINE both == {x[1], x[2]}
  <2>1. /\ cached' = (cached \ both) \cup (both \cap spools)
        /\ \A a \in both \cap spools : cost'[a] = ledger[a] /\ total'[a] = ledger[a]
        /\ \A a \in Accounts \ both : cost'[a] = cost[a] /\ total'[a] = total[a]
        /\ \A a \in Cards : outside'[a] = IF a \in both THEN 0 ELSE outside[a]
        /\ spools' = spools /\ ledger' = ledger
    BY <1>7 DEF RefreshCards, dbVars, MoneyTypes
  <2>2. both \subseteq Cards /\ cached \subseteq Cards /\ Cards \subseteq Accounts
    BY MoneyAssumption DEF MoneyTypes, Accounts
  <2>3. \A a \in Cards : ledger[a] \in Int
    BY DEF MoneyTypes, Accounts
  <2> QED BY <2>1, <2>2, <2>3 DEF CardMemoryExact, OutsideIsCached
<1>8. ASSUME UNCHANGED <<spools, total, memVars, ledger, codeVars>> PROVE Goal
  BY <1>8 DEF CardMemoryExact, OutsideIsCached, memVars, codeVars
<1>9. \/ UNCHANGED <<spools, total, memVars, ledger, codeVars>>
      \/ \E c \in Calls : Setup(c) \/ AddCall(c)
      \/ \E e \in Eaters : DelEater(e) \/ Report(e)
      \/ ReloadInstall
      \/ \E x \in Codes : ApplyCodeSql(x) \/ RefreshCards(x)
  BY DEF Next, HangUp, RemoveCall, RadiusStop, Removed, AccountCall, Second, BalanceCards,
     BalanceSecond, Tick, ReloadRead, vars, callVars, spoolVars, memVars, dbVars, codeVars
<1> QED BY <1>1, <1>2, <1>3, <1>4, <1>5, <1>6, <1>7, <1>8, <1>9

--------------------------------------------------------------------------------
(* The theorems. *)

LEMMA IInvInit == Init => IInv
<1> SUFFICES ASSUME Init PROVE IInv
  OBVIOUS
<1>1. MoneyTypes
  BY TypesInit
<1>2. EaterStages /\ BillAmounts
  BY DEF Init, EaterStages, BillAmounts
<1>3. RemovalHolds
  BY CallsAssumption DEF Init, RemovalHolds
<1>4. SpoolsHaveEaters /\ CardMemoryExact /\ OutsideIsCached
  BY DEF Init, SpoolsHaveEaters, CardMemoryExact, OutsideIsCached
<1> QED BY <1>1, <1>2, <1>3, <1>4 DEF IInv

LEMMA IInvStep == IInv /\ [Next]_vars => IInv'
BY TypesStep, StagesStep, RemovalStep, BillsStep, SpoolsStep, CardMemoryStep DEF IInv

LEMMA IInvHolds == Spec => []IInv
BY IInvInit, IInvStep, PTL DEF Spec

\* Whatever ticks, hang-ups, reloads and applied codes interleave, the cached
\* cost of a card is what the database holds, up to codes that were applied and
\* not yet reread, and the spool of a card in use agrees with the cache.
THEOREM CardMemoryIsExact == Spec => []CardMemoryExact
<1>1. IInv => CardMemoryExact
  BY DEF IInv
<1> QED BY <1>1, IInvHolds, PTL

\* The spools in memory are exactly those some call in progress has an eater
\* on: none is deleted under a call, none outlives its calls.
THEOREM SpoolsLiveWithEaters == Spec => []SpoolsHaveEaters
<1>1. IInv => SpoolsHaveEaters
  BY DEF IInv
<1> QED BY <1>1, IInvHolds, PTL

\* An eater is on a spool only between the connect of its call and the end of
\* removeCall, has no bill while it is there, and its record is sent after.
THEOREM EatersFollowCalls == Spec => []EaterStages
<1>1. IInv => EaterStages
  BY DEF IInv
<1> QED BY <1>1, IInvHolds, PTL

\* The payers of a call go together.
Together(c) ==
  \/ \A e \in EatersOf(c) : e \in attached \/ bill[e] # Unbilled
  \/ \A e \in EatersOf(c) : e \notin attached /\ bill[e] = Unbilled

\* Once the eaters of a call are gone, all its payers are billed or none is.
PayersTogether ==
  \A c \in Calls :
    /\ Together(c)
    /\ stage[c] \in {"removed", "accounted"} =>
         \/ \A e \in EatersOf(c) : bill[e] # Unbilled
         \/ \A e \in EatersOf(c) : bill[e] = Unbilled

LEMMA TogetherStep ==
  ASSUME IInv, \A c \in Calls : Together(c), [Next]_vars
  PROVE  \A c \in Calls : Together(c)'
<1>1. ASSUME NEW d \in Calls, AddCall(d) PROVE \A c \in Calls : Together(c)'
  <2>1. attached' = attached \cup EatersOf(d) /\ bill' = bill
    BY <1>1 DEF AddCall, dbVars
  <2>2. \A c \in Calls : c # d => EatersOf(c) \cap EatersOf(d) = {}
    BY DEF EatersOf
  <2>3. Together(d)'
    BY <2>1 DEF Together, EatersOf
  <2>4. ASSUME NEW c \in Calls, c # d PROVE Together(c)'
    <3>1. \A e \in EatersOf(c) : e \in attached' <=> e \in attached
      BY <2>1, <2>2, <2>4
    <3> QED BY <2>1, <3>1 DEF Together, EatersOf
  <2> QED BY <2>3, <2>4
<1>2. ASSUME NEW e \in Eaters, DelEater(e) PROVE \A c \in Calls : Together(c)'
  <2>1. /\ e \in attached /\ attached' = attached \ {e}
        /\ \A f \in Eaters : bill'[f] = IF f = e THEN RealMoney(e) ELSE bill[f]
    BY <1>2 DEF DelEater, IInv, MoneyTypes
  <2>2. RealMoney(e) # Unbilled
    BY RealMoneyType DEF IInv, Unbilled
  <2>3. ASSUME NEW c \in Calls PROVE Together(c)'
    <3>1. \A f \in EatersOf(c) : f \in Eaters
      BY DEF EatersOf
    <3>2. CASE \A f \in EatersOf(c) : f \in attached \/ bill[f] # Unbilled
      <4>1. \A f \in EatersOf(c) : f \in attached' \/ bill'[f] # Unbilled
        BY <2>1, <2>2, <3>1, <3>2
      <4> QED BY <4>1 DEF Together, EatersOf
    <3>3. CASE \A f \in EatersOf(c) : f \notin attached /\ bill[f] = Unbilled
      <4>1. \A f \in EatersOf(c) : f \notin attached' /\ bill'[f] = Unbilled
        BY <2>1, <3>1, <3>3
      <4> QED BY <4>1 DEF Together, EatersOf
    <3> QED BY <3>2, <3>3 DEF Together
  <2> QED BY <2>3
<1>3. ASSUME UNCHANGED <<attached, bill>> PROVE \A c \in Calls : Together(c)'
  BY <1>3 DEF Together, EatersOf
<1>4. \/ UNCHANGED <<attached, bill>>
      \/ \E c \in Calls : AddCall(c)
      \/ \E e \in Eaters : DelEater(e)
  BY DEF Next, Setup, HangUp, RemoveCall, RadiusStop, Removed, AccountCall, Report, Second,
     BalanceCards, BalanceSecond, Tick, ReloadRead, ReloadInstall, ApplyCodeSql, RefreshCards,
     spoolVars, dbVars, vars
<1> QED BY <1>1, <1>2, <1>3, <1>4

\* A call is paid by all its payers or by none: whichever way it ends, between
\* the connect and the accounting record no eater is forgotten and none is billed
\* for a call that was never connected (addCall, removeCall, addInEaters,
\* addTrafEaters, removeInEaters, removeTrafEaters).
THEOREM PayersGoTogether == Spec => []PayersTogether
<1> DEFINE All == \A c \in Calls : Together(c)
<1>1. Init => All
  BY DEF Init, Together, EatersOf
<1>2. IInv /\ All /\ [Next]_vars => All'
  BY TogetherStep
<1>3. IInv /\ All => PayersTogether
  <2> SUFFICES ASSUME IInv, All, NEW c \in Calls, stage[c] \in {"removed", "accounted"}
               PROVE  \/ \A e \in EatersOf(c) : bill[e] # Unbilled
                      \/ \A e \in EatersOf(c) : bill[e] = Unbilled
    BY DEF PayersTogether
  <2>1. \A e \in EatersOf(c) : e \notin attached
    BY DEF EatersOf, IInv, EaterStages
  <2> QED BY <2>1 DEF Together
<1> HIDE DEF All
<1> QED BY <1>1, <1>2, <1>3, IInvHolds, PTL DEF Spec

\* A charge that is neither taken nor reported in a step stays as it was.
LEMMA PaidFrame ==
  ASSUME IInv, bill' = bill, pending' = pending,
         \A c \in Calls : stage'[c] = "accounted" <=> stage[c] = "accounted"
  PROVE  Paid' = Paid
BY EaterParts DEF Paid

LEMMA BillingStep ==
  ASSUME IInv, IInv', [Next]_vars
  PROVE  [Ledger!Next]_<<ledger, Paid>>
<1> DEFINE Goal == Ledger!Next \/ (ledger' = ledger /\ Paid' = Paid)
<1> SUFFICES Goal
  OBVIOUS
<1>1. stage \in [Calls -> Stages]
  BY DEF IInv, MoneyTypes
<1>2. ASSUME NEW c \in Calls, Setup(c) PROVE Goal
  <2>1. /\ stage[c] = "idle"
        /\ stage' = [stage EXCEPT ![c] = "routed"] \/ stage' = stage
    BY <1>2 DEF Setup
  <2>2. \A d \in Calls : stage'[d] = "accounted" <=> stage[d] = "accounted"
    <3>1. CASE stage' = stage
      BY <3>1
    <3>2. CASE stage' = [stage EXCEPT ![c] = "routed"]
      BY <1>1, <2>1, <3>2
    <3> QED BY <2>1, <3>1, <3>2
  <2> QED BY <1>2, <2>2, PaidFrame DEF Setup, dbVars
<1>3. ASSUME NEW c \in Calls,
             AddCall(c) \/ HangUp(c) \/ RemoveCall(c) \/ RadiusStop(c) \/ Removed(c)
      PROVE  Goal
  <2>1. /\ stage[c] # "accounted"
        /\ \E g \in Stages \ {"accounted"} : stage' = [stage EXCEPT ![c] = g]
    BY <1>3 DEF AddCall, HangUp, RemoveCall, RadiusStop, Removed, Stages, IInv, RemovalHolds
  <2>2. \A d \in Calls : stage'[d] = "accounted" <=> stage[d] = "accounted"
    BY <1>1, <2>1
  <2>3. bill' = bill /\ pending' = pending /\ ledger' = ledger
    BY <1>3 DEF AddCall, HangUp, RemoveCall, RadiusStop, Removed, dbVars
  <2> QED BY <2>2, <2>3, PaidFrame
<1>4. ASSUME NEW c \in Calls, AccountCall(c) PROVE Goal
  <2>1. /\ stage[c] = "removed"
        /\ \A d \in Calls : stage'[d] = IF d = c THEN "accounted" ELSE stage[d]
        /\ bill' = bill /\ ledger' = ledger
        /\ pending' = pending \cup
                         {e \in EatersOf(c) : bill[e] # Unbilled /\ AccountOf(e) \notin Cards}
    BY <1>1, <1>4 DEF AccountCall
  <2>2. \A e \in Eaters : e \in EatersOf(c) <=> e[1] = c
    BY DEF EatersOf
  <2>3. \A e \in pending : e[1] # c
    BY <2>1 DEF IInv, EaterStages, MoneyTypes
  <2>4. \A e \in Eaters : e \in Paid' <=> e \in Paid
    BY <2>1, <2>2, <2>3, EaterParts DEF Paid
  <2> QED BY <2>1, <2>4 DEF Paid
<1>5. ASSUME NEW e \in Eaters, DelEater(e) PROVE Goal
  <2>1. /\ bill[e] = Unbilled /\ stage[e[1]] = "removing" /\ stage' = stage /\ pending' = pending
        /\ \A f \in Eaters : bill'[f] = IF f = e THEN RealMoney(e) ELSE bill[f]
    BY <1>5, EaterParts DEF DelEater, IInv, EaterStages, RemovalHolds, MoneyTypes, callVars
  <2>2. RealMoney(e) \in Nat /\ RealMoney(e) \in AmountsOf[e]
    BY <1>5, RealMoneyType, RealMoneyAmount DEF IInv
  <2>3. CASE AccountOf(e) \in Cards
    <3>1. ledger' = [ledger EXCEPT ![AccountOf(e)] = @ - RealMoney(e)]
      BY <1>5, <2>3 DEF DelEater
    <3>2. e \notin Paid
      BY <2>1 DEF Paid
    <3>3. \A f \in Eaters : f \in Paid' <=> f \in Paid \/ f = e
      BY <2>1, <2>2, <2>3 DEF Paid, Unbilled
    <3>4. Paid' = Paid \cup {e}
      BY <3>3 DEF Paid
    <3>5. Ledger!Pay(e)
      BY <2>2, <3>1, <3>2, <3>4 DEF Ledger!Pay
    <3> QED BY <3>5 DEF Ledger!Next
  <2>4. CASE AccountOf(e) \notin Cards
    <3>1. ledger' = ledger
      BY <1>5, <2>4 DEF DelEater
    <3>2. \A f \in Eaters : f \in Paid' <=> f \in Paid
      BY <2>1, <2>4 DEF Paid
    <3> QED BY <3>1, <3>2 DEF Paid
  <2> QED BY <2>3, <2>4
<1>6. ASSUME NEW e \in Eaters, Report(e) PROVE Goal
  <2>1. /\ e \in pending /\ pending' = pending \ {e} /\ bill' = bill /\ stage' = stage
        /\ ledger' = [ledger EXCEPT ![AccountOf(e)] = @ - bill[e]]
    BY <1>6 DEF Report, callVars
  <2>2. stage[e[1]] = "accounted" /\ bill[e] # Unbilled /\ bill[e] \in AmountsOf[e]
    BY <2>1 DEF IInv, EaterStages, BillAmounts
  <2>3. AccountOf(e) \notin Cards
    BY <2>1 DEF IInv, EaterStages
  <2>4. e \notin Paid
    BY <2>1, <2>3 DEF Paid
  <2>5. \A f \in Eaters : f \in Paid' <=> f \in Paid \/ f = e
    BY <2>1, <2>2 DEF Paid
  <2>6. Paid' = Paid \cup {e}
    BY <2>5 DEF Paid
  <2>7. Ledger!Pay(e)
    BY <2>1, <2>2, <2>4, <2>6 DEF Ledger!Pay
  <2> QED BY <2>7 DEF Ledger!Next
<1>7. ASSUME NEW x \in Codes, ApplyCodeSql(x) PROVE Goal
  <2>1. x[1] \in Cards /\ x[2] \in Cards /\ x[1] # x[2]
    BY MoneyAssumption
  <2>2. /\ ledger' = [ledger EXCEPT ![x[1]] = @ + ledger[x[2]], ![x[2]] = 0]
        /\ bill' = bill /\ pending' = pending /\ stage' = stage
    BY <1>7 DEF ApplyCodeSql, callVars
  <2>3. Paid' = Paid
    BY <2>2, PaidFrame
  <2>4. Ledger!Transfer(x[1], x[2])
    BY <2>1, <2>2, <2>3 DEF Ledger!Transfer
  <2> QED BY <2>1, <2>4 DEF Ledger!Next
<1>8. ASSUME UNCHANGED <<stage, dbVars>> PROVE Goal
  BY <1>8, PaidFrame DEF dbVars
<1>9. \/ UNCHANGED <<stage, dbVars>>
      \/ \E c \in Calls : \/ Setup(c)
                          \/ AddCall(c) \/ HangUp(c) \/ RemoveCall(c) \/ RadiusStop(c) \/ Removed(c)
                          \/ AccountCall(c)
      \/ \E e \in Eaters : DelEater(e) \/ Report(e)
      \/ \E x \in Codes : ApplyCodeSql(x)
  BY DEF Next, Second, BalanceCards, BalanceSecond, Tick, ReloadRead, ReloadInstall,
     RefreshCards, vars, callVars, dbVars
<1> QED BY <1>2, <1>3, <1>4, <1>5, <1>6, <1>7, <1>8, <1>9

\* The database is a ledger that takes every charge of a call once, at an amount
\* of its tariff, from the account that owes it, and moves a card's money only
\* whole, through delEater, the accounting records and applyCode alike.
THEOREM BillingImplemented == Spec => ImplementsBilling
<1>1. Init => Ledger!Init
  BY AccountsAssumption DEF Init, Ledger!Init, Paid
<1>2. IInv /\ IInv' /\ [Next]_vars => [Ledger!Next]_<<ledger, Paid>>
  BY BillingStep
<1> QED BY <1>1, <1>2, IInvHolds, PTL DEF Spec, ImplementsBilling, Ledger!Spec
================================================================================
