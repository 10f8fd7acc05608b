----------------------------- MODULE SpoolSumsProofs -----------------------------
(***************************************************************************)
(* The theorems about MoneySpool that speak of sums: usedMoney is what the *)
(* eaters of a spool have used, and no balance in memory is below what the *)
(* database will show.  A sum is a recursion over the subsets of a set, of *)
(* which nothing can be said by induction here; a sum of natural numbers   *)
(* is also a number of units, and of the sizes of finite sets the library  *)
(* has theorems.                                                           *)
(***************************************************************************)
EXTENDS MoneySpoolProofs, FiniteSetTheorems

--------------------------------------------------------------------------------
(* Sums.  MapThenSumSet is a recursion over the subsets of its set.  The
   recursion has one solution on a finite set, and where the terms are natural
   numbers the solution counts units: a term n is n units. *)

Pick(s) == CHOOSE x \in s : TRUE

\* iter is a solution of the recursion of MapThenSumSet, with terms v.
SumsUp(iter, v, S) ==
  iter = [s \in SUBSET S |-> IF s = {} THEN 0 ELSE v[Pick(s)] + iter[s \ {Pick(s)}]]

\* Two solutions agree on a finite set: a smallest subset on which they differ
\* is not empty, and they agree on what is left of it.
LEMMA OneSum ==
  ASSUME NEW S, IsFiniteSet(S), NEW v, NEW i, NEW j, SumsUp(i, v, S), SumsUp(j, v, S)
  PROVE  i[S] = j[S]
<1> DEFINE D == {s \in SUBSET S : i[s] # j[s]}
           R == StrictSubsetOrdering(S)
<1>1. IsWellFoundedOn(R, SUBSET S)
  BY FS_StrictSubsetOrderingWellFounded, FS_FiniteSubsetsOfFinite
<1>2. SUFFICES ASSUME D # {} PROVE FALSE
  OBVIOUS
<1>3. PICK s \in D : \A t \in D : ~ (<<t, s>> \in R)
  <2> HIDE DEF R
  <2>1. D \subseteq SUBSET S
    OBVIOUS
  <2> HIDE DEF D
  <2> QED BY <1>1, <1>2, <2>1, WFMin
<1>4. s # {}
  <2>1. i[{}] = 0 /\ j[{}] = 0
    BY DEF SumsUp
  <2> QED BY <1>3, <2>1
<1>5. Pick(s) \in s
  BY <1>4 DEF Pick
<1>6. s \ {Pick(s)} \in SUBSET S /\ <<s \ {Pick(s)}, s>> \in R
  BY <1>5 DEF StrictSubsetOrdering
<1>7. i[s \ {Pick(s)}] = j[s \ {Pick(s)}]
  BY <1>3, <1>6
<1>8. /\ i[s] = v[Pick(s)] + i[s \ {Pick(s)}]
      /\ j[s] = v[Pick(s)] + j[s \ {Pick(s)}]
  BY <1>4 DEF SumsUp
<1> QED BY <1>3, <1>7, <1>8

\* So a solution tells what MapThenSumSet computes.
LEMMA SumIs ==
  ASSUME NEW S, IsFiniteSet(S), NEW v, NEW w, SumsUp(w, v, S)
  PROVE  MapThenSumSet(LAMBDA e : v[e], S) = w[S]
<1>1. \E iter : SumsUp(iter, v, S) /\ MapThenSumSet(LAMBDA e : v[e], S) = iter[S]
  BY DEF MapThenSumSet, MapThenFoldSet, SumsUp, Pick
<1> QED BY <1>1, OneSum

Units(f, S)  == UNION {{e} \X (1 .. f[e]) : e \in S}
Weight(f, S) == Cardinality(Units(f, S))

LEMMA UnitsFinite ==
  ASSUME NEW S, IsFiniteSet(S), NEW f, \A e \in S : f[e] \in Nat
  PROVE  IsFiniteSet(Units(f, S)) /\ Weight(f, S) \in Nat
<1> DEFINE T == {{e} \X (1 .. f[e]) : e \in S}
           g == [e \in S |-> {e} \X (1 .. f[e])]
<1>1. g \in Surjection(S, T)
  BY DEF Surjection
<1>2. \A t \in T : IsFiniteSet(t)
  <2> SUFFICES ASSUME NEW e \in S PROVE IsFiniteSet({e} \X (1 .. f[e]))
    OBVIOUS
  <2>1. f[e] \in Int /\ 1 \in Int
    OBVIOUS
  <2>2. IsFiniteSet({e}) /\ IsFiniteSet(1 .. f[e])
    BY <2>1, FS_Singleton, FS_Interval
  <2> QED BY <2>2, FS_Product
<1>3. IsFiniteSet(T)
  <2> HIDE DEF T, g
  <2> QED BY <1>1, FS_Surjection
<1>4. IsFiniteSet(UNION T)
  <2> HIDE DEF T
  <2> QED BY <1>2, <1>3, FS_UNION
<1>5. IsFiniteSet(Units(f, S))
  BY <1>4 DEF Units
<1> QED BY <1>5, FS_CardinalityType DEF Weight

LEMMA WeightUnion ==
  ASSUME NEW S, IsFiniteSet(S), NEW T, IsFiniteSet(T), S \cap T = {},
         NEW f, \A e \in S \cup T : f[e] \in Nat
  PROVE  Weight(f, S \cup T) = Weight(f, S) + Weight(f, T)
<1>1. Units(f, S \cup T) = Units(f, S) \cup Units(f, T)
  BY DEF Units
<1>2. Units(f, S) \cap Units(f, T) = {}
  <2> SUFFICES ASSUME NEW u, u \in Units(f, S), u \in Units(f, T) PROVE FALSE
    OBVIOUS
  <2>1. u[1] \in S /\ u[1] \in T
    BY DEF Units
  <2> QED BY <2>1
<1>3. /\ IsFiniteSet(Units(f, S)) /\ Cardinality(Units(f, S)) \in Nat
      /\ IsFiniteSet(Units(f, T)) /\ Cardinality(Units(f, T)) \in Nat
  BY UnitsFinite DEF Weight
<1>4. Cardinality(Units(f, S) \cap Units(f, T)) = 0
  BY <1>2, FS_EmptySet
<1>5. Cardinality(Units(f, S) \cup Units(f, T)) =
        Cardinality(Units(f, S)) + Cardinality(Units(f, T))
          - Cardinality(Units(f, S) \cap Units(f, T))
  BY <1>3, FS_Union
<1>6. Weight(f, S \cup T) = Cardinality(Units(f, S) \cup Units(f, T))
  BY <1>1 DEF Weight
<1>7. Cardinality(Units(f, S) \cup Units(f, T)) = Cardinality(Units(f, S)) + Cardinality(Units(f, T))
  BY <1>3, <1>4, <1>5
<1> QED BY <1>6, <1>7 DEF Weight

LEMMA WeightSame ==
  ASSUME NEW S, NEW f, NEW g, \A e \in S : f[e] = g[e]
  PROVE  Weight(f, S) = Weight(g, S)
<1>1. Units(f, S) = Units(g, S)
  BY DEF Units
<1> QED BY <1>1 DEF Weight

\* Equal terms: their number times their value.
LEMMA WeightEqual ==
  ASSUME NEW S, IsFiniteSet(S), NEW f, NEW m \in Nat, \A e \in S : f[e] = m
  PROVE  /\ Cardinality(S) \in Nat
         /\ Weight(f, S) = m * Cardinality(S)
<1>1. Units(f, S) = S \X (1 .. m)
  BY DEF Units
<1>2. IsFiniteSet(1 .. m) /\ Cardinality(1 .. m) = m
  <2>1. m \in Int /\ 1 \in Int
    OBVIOUS
  <2>2. IsFiniteSet(1 .. m) /\ Cardinality(1 .. m) = IF 1 > m THEN 0 ELSE m - 1 + 1
    BY <2>1, FS_Interval
  <2> QED BY <2>2
<1>3. Cardinality(S \X (1 .. m)) = Cardinality(S) * Cardinality(1 .. m)
  BY <1>2, FS_Product
<1>4. Cardinality(S) \in Nat
  BY FS_CardinalityType
<1>5. Weight(f, S) = Cardinality(S) * m
  BY <1>1, <1>2, <1>3 DEF Weight
<1>6. Cardinality(S) * m = m * Cardinality(S)
  BY <1>4
<1> QED BY <1>4, <1>5, <1>6

LEMMA WeightOne ==
  ASSUME NEW x, NEW f, f[x] \in Nat
  PROVE  Weight(f, {x}) = f[x]
<1>1. IsFiniteSet({x}) /\ Cardinality({x}) = 1
  BY FS_Singleton
<1>2. Weight(f, {x}) = f[x] * Cardinality({x})
  BY <1>1, WeightEqual
<1> QED BY <1>1, <1>2

LEMMA WeightZero ==
  ASSUME NEW S, NEW f, \A e \in S : f[e] = 0
  PROVE  Weight(f, S) = 0
<1>1. Units(f, S) = {}
  BY DEF Units
<1> QED BY <1>1, FS_EmptySet DEF Weight

\* One element more.
LEMMA WeightAdd ==
  ASSUME NEW S, IsFiniteSet(S), NEW x, x \notin S, NEW f, \A e \in S \cup {x} : f[e] \in Nat
  PROVE  Weight(f, S \cup {x}) = Weight(f, S) + f[x]
<1>1. IsFiniteSet({x}) /\ S \cap {x} = {} /\ f[x] \in Nat
  BY FS_Singleton
<1>2. Weight(f, S \cup {x}) = Weight(f, S) + Weight(f, {x})
  BY <1>1, WeightUnion
<1> QED BY <1>1, <1>2, WeightOne

\* One element less.
LEMMA WeightPick ==
  ASSUME NEW S, IsFiniteSet(S), NEW x \in S, NEW f, \A e \in S : f[e] \in Nat
  PROVE  /\ IsFiniteSet(S \ {x})
         /\ Weight(f, S) = f[x] + Weight(f, S \ {x})
         /\ Weight(f, S \ {x}) \in Nat
<1> DEFINE T == S \ {x}
<1>1. IsFiniteSet(T) /\ T \cup {x} = S /\ x \notin T
  BY FS_RemoveElement
<1>2. Weight(f, T) \in Nat /\ f[x] \in Nat
  BY <1>1, UnitsFinite
<1>3. Weight(f, T \cup {x}) = Weight(f, T) + f[x]
  <2>1. \A e \in T \cup {x} : f[e] \in Nat
    BY <1>1
  <2> HIDE DEF T
  <2> QED BY <1>1, <2>1, WeightAdd
<1>4. Weight(f, S) = Weight(f, T) + f[x]
  BY <1>1, <1>3
<1> HIDE DEF T
<1>5. Weight(f, S) = f[x] + Weight(f, T)
  BY <1>2, <1>4
<1> QED BY <1>1, <1>2, <1>5 DEF T

\* The sum of natural numbers.
LEMMA SumIsWeight ==
  ASSUME NEW S, IsFiniteSet(S), NEW f, \A e \in S : f[e] \in Nat
  PROVE  MapThenSumSet(LAMBDA e : f[e], S) = Weight(f, S)
<1> DEFINE w == [s \in SUBSET S |-> Weight(f, s)]
<1>1. ASSUME NEW s \in SUBSET S
      PROVE  Weight(f, s) = IF s = {} THEN 0 ELSE f[Pick(s)] + Weight(f, s \ {Pick(s)})
  <2>1. CASE s = {}
    BY <2>1, WeightZero
  <2>2. CASE s # {}
    <3>1. Pick(s) \in s
      BY <2>2 DEF Pick
    <3>2. IsFiniteSet(s) /\ \A e \in s : f[e] \in Nat
      BY FS_Subset
    <3>3. Weight(f, s) = f[Pick(s)] + Weight(f, s \ {Pick(s)})
      BY <3>1, <3>2, WeightPick
    <3> QED BY <2>2, <3>3
  <2> QED BY <2>1, <2>2
<1>2. SumsUp(w, f, S)
  <2>1. ASSUME NEW s \in SUBSET S
        PROVE  w[s] = IF s = {} THEN 0 ELSE f[Pick(s)] + w[s \ {Pick(s)}]
    <3>1. s \ {Pick(s)} \in SUBSET S
      OBVIOUS
    <3> QED BY <1>1, <3>1
  <2> QED BY <2>1 DEF SumsUp
<1>3. w[S] = Weight(f, S)
  OBVIOUS
<1> HIDE DEF w
<1> QED BY <1>2, <1>3, SumIs

\* Differences of natural numbers sum up to a difference of weights.
LEMMA DifferencesSumUp ==
  ASSUME NEW S, IsFiniteSet(S), NEW f, NEW g, \A e \in S : f[e] \in Nat /\ g[e] \in Nat
  PROVE  SumsUp([s \in SUBSET S |-> Weight(f, s) - Weight(g, s)],
                [e \in S |-> f[e] - g[e]], S)
<1> DEFINE v == [e \in S |-> f[e] - g[e]]
           w == [s \in SUBSET S |-> Weight(f, s) - Weight(g, s)]
<1>1. ASSUME NEW s \in SUBSET S
      PROVE  Weight(f, s) - Weight(g, s)
               = IF s = {} THEN 0
                 ELSE v[Pick(s)] + (Weight(f, s \ {Pick(s)}) - Weight(g, s \ {Pick(s)}))
  <2>1. CASE s = {}
    BY <2>1, WeightZero
  <2>2. CASE s # {}
    <3>1. Pick(s) \in s
      BY <2>2 DEF Pick
    <3>2. IsFiniteSet(s) /\ \A e \in s : f[e] \in Nat /\ g[e] \in Nat
      BY FS_Subset
    <3>3. /\ Weight(f, s) = f[Pick(s)] + Weight(f, s \ {Pick(s)})
          /\ Weight(f, s \ {Pick(s)}) \in Nat /\ f[Pick(s)] \in Nat
      BY <3>1, <3>2, WeightPick
    <3>4. /\ Weight(g, s) = g[Pick(s)] + Weight(g, s \ {Pick(s)})
          /\ Weight(g, s \ {Pick(s)}) \in Nat /\ g[Pick(s)] \in Nat
      BY <3>1, <3>2, WeightPick
    <3>5. v[Pick(s)] = f[Pick(s)] - g[Pick(s)]
      BY <3>1
    <3> QED BY <2>2, <3>3, <3>4, <3>5
  <2> QED BY <2>1, <2>2
<1>2. ASSUME NEW s \in SUBSET S
      PROVE  w[s] = IF s = {} THEN 0 ELSE v[Pick(s)] + w[s \ {Pick(s)}]
  <2>1. s \ {Pick(s)} \in SUBSET S
    OBVIOUS
  <2> HIDE DEF v
  <2> QED BY <1>1, <2>1
<1> HIDE DEF v
<1>3. SumsUp(w, v, S)
  BY <1>2 DEF SumsUp
<1> QED BY <1>3 DEF v

--------------------------------------------------------------------------------
(* The inductive invariant. *)

Billed    == {e \in Eaters : bill[e] # Unbilled}
OwedOf(a) == {e \in Eaters : /\ AccountOf(e) = a /\ bill[e] # Unbilled
                             /\ e \in pending \/ stage[e[1]] \in {"removing", "removed"}}
Debt(a)   == Weight(bill, OwedOf(a))

\* The types IInv does not need.
OtherTypes ==
  /\ mut \in Calls \cup {None}
  /\ asked \subseteq {c \in Calls : Kind[c] # "radius"}

\* However many calls may come, finitely many have come: the sums are over
\* finite sets.
Finitely == IsFiniteSet(attached) /\ IsFiniteSet(Billed)

\* An eater holds no money but on its spool, where it is from the connect of its
\* call; octets are charged in the stop record, and billed when an eater leaves.
EaterMoney ==
  \A e \in Eaters :
    /\ e \notin attached => eaterUsed[e] = 0
    /\ stage[e[1]] = "talking" => e \in attached
    /\ IsTraffic(e) /\ stage[e[1]] # "removing" => eaterUsed[e] = 0
    /\ bill[e] # Unbilled => stage[e[1]] \in {"removing", "removed", "accounted"}

\* UsedIsSum and NeverBelowLedger, with the sums counted.
UsedIsWeight == used = [a \in Accounts |-> Weight(eaterUsed, Users(a))]

NeverBelowDebt ==
  \A a \in Customers \cup Dealers :
    /\ cost[a] >= ledger[a] - Debt(a)
    /\ a \in spools => total[a] >= ledger[a] - Debt(a)
    /\ snapshot # None => snapshot[a] >= ledger[a] - Debt(a)

SumsInv ==
  /\ IInv
  /\ OtherTypes
  /\ Finitely
  /\ EaterMoney
  /\ UsedIsWeight
  /\ NeverBelowDebt

\* A call has finitely many eaters: each is a field of its EaterDetails or
\* RadiusCall.
LEMMA EatersOfFinite ==
  ASSUME NEW c \in Calls
  PROVE  IsFiniteSet(EatersOf(c))
<1> DEFINE seq   == RoleOrder(c)
           names == {"outCard", "outCustomer", "outResponsible", "card", "in", "inDealer",
                     "inCard", "inDealerTraf", "inTraf", "inCardTraf", "outDealerTraf",
                     "outTraf", "outCardTraf"}
<1>1. seq \in Seq(names)
  <2>1. H323Roles \in Seq(names)
    BY DEF H323Roles
  <2>2. RadiusRoles \in Seq(names)
    BY DEF RadiusRoles
  <2>3. TrafficRoles \in Seq(names)
    BY DEF TrafficRoles
  <2> HIDE DEF names
  <2>4. RadiusRoles \o TrafficRoles \in Seq(names)
    BY <2>2, <2>3
  <2> QED BY <2>1, <2>4 DEF RoleOrder
<1> HIDE DEF names, seq
<1>2. IsFiniteSet(ToSet(seq))
  <2>1. Len(seq) \in Nat /\ seq \in [1 .. Len(seq) -> names] /\ DOMAIN seq = 1 .. Len(seq)
    BY <1>1
  <2>2. seq \in Surjection(1 .. Len(seq), ToSet(seq))
    BY <2>1 DEF Surjection, ToSet
  <2>3. IsFiniteSet(1 .. Len(seq))
    BY <2>1, FS_Interval
  <2> QED BY <2>2, <2>3, FS_Surjection
<1>3. IsFiniteSet({c} \X ToSet(seq))
  BY <1>2, FS_Singleton, FS_Product
<1>4. EatersOf(c) \subseteq {c} \X ToSet(seq)
  <2> SUFFICES ASSUME NEW e \in EatersOf(c) PROVE e \in {c} \X ToSet(seq)
    OBVIOUS
  <2>1. e \in Eaters /\ e[1] = c
    BY DEF EatersOf
  <2>2. PICK d \in Calls : e \in {d} \X DOMAIN Payer[d]
    BY <2>1 DEF Eaters
  <2>3. e[2] \in DOMAIN Payer[c] /\ e = <<c, e[2]>>
    BY <2>1, <2>2
  <2> QED BY <2>3, CallsAssumption DEF seq
<1> QED BY <1>3, <1>4, FS_Subset

\* The sets that are summed are finite, of natural numbers.
LEMMA UsersFinite ==
  ASSUME MoneyTypes, Finitely, NEW a
  PROVE  IsFiniteSet(Users(a)) /\ \A e \in Users(a) : eaterUsed[e] \in Nat
<1>1. IsFiniteSet(Users(a))
  BY FS_Subset DEF Users, Finitely
<1> QED BY <1>1 DEF Users, MoneyTypes

LEMMA DebtType ==
  ASSUME MoneyTypes, Finitely, NEW a
  PROVE  /\ IsFiniteSet(OwedOf(a))
         /\ \A e \in OwedOf(a) : bill[e] \in Nat
         /\ Debt(a) \in Nat
<1>1. OwedOf(a) \subseteq Billed
  BY DEF OwedOf, Billed
<1>2. IsFiniteSet(OwedOf(a))
  BY <1>1, FS_Subset DEF Finitely
<1>3. \A e \in OwedOf(a) : bill[e] \in Nat
  BY DEF OwedOf, MoneyTypes
<1> QED BY <1>2, <1>3, UnitsFinite DEF Debt

\* The sums of the model are the weights of the invariant.
LEMMA UsedSums ==
  ASSUME MoneyTypes, Finitely, UsedIsWeight
  PROVE  UsedIsSum
<1> SUFFICES ASSUME NEW a \in Accounts
             PROVE  used[a] = MapThenSumSet(LAMBDA e : eaterUsed[e], Users(a))
  BY DEF UsedIsSum
<1>1. MapThenSumSet(LAMBDA e : eaterUsed[e], Users(a)) = Weight(eaterUsed, Users(a))
  BY UsersFinite, SumIsWeight
<1> QED BY <1>1 DEF UsedIsWeight

LEMMA OwedSums ==
  ASSUME MoneyTypes, Finitely, NEW a
  PROVE  Owed(a) = Debt(a)
<1>1. Owed(a) = MapThenSumSet(LAMBDA e : bill[e], OwedOf(a))
  BY DEF Owed, OwedOf
<1>2. MapThenSumSet(LAMBDA e : bill[e], OwedOf(a)) = Weight(bill, OwedOf(a))
  BY DebtType, SumIsWeight
<1> QED BY <1>1, <1>2 DEF Debt

\* What a tick adds to a spool.
LEMMA TickedSum ==
  ASSUME MoneyTypes, NEW S \in SUBSET Eaters, IsFiniteSet(S),
         NEW now, \A e \in S : now[e] = Charge[e][age[e[1]]] /\ now[e] \in Nat
  PROVE  MapThenSumSet(LAMBDA e : Charge[e][age[e[1]]] - eaterUsed[e], S)
           = Weight(now, S) - Weight(eaterUsed, S)
<1> DEFINE v == [e \in S |-> now[e] - eaterUsed[e]]
           w == [s \in SUBSET S |-> Weight(now, s) - Weight(eaterUsed, s)]
           Sums(i) == i = [s \in SUBSET S |-> IF s = {} THEN 0
             ELSE (Charge[Pick(s)][age[Pick(s)[1]]] - eaterUsed[Pick(s)]) + i[s \ {Pick(s)}]]
<1>1. ASSUME NEW s \in SUBSET S, s # {}
      PROVE  Charge[Pick(s)][age[Pick(s)[1]]] - eaterUsed[Pick(s)] = v[Pick(s)]
  <2>1. Pick(s) \in S
    BY <1>1 DEF Pick
  <2> QED BY <2>1
<1>2. \A i : Sums(i) <=> SumsUp(i, v, S)
  <2> HIDE DEF v
  <2> QED BY <1>1 DEF SumsUp
<1>3. SumsUp(w, v, S)
  <2>1. \A e \in S : now[e] \in Nat /\ eaterUsed[e] \in Nat
    BY DEF MoneyTypes
  <2> QED BY <2>1, DifferencesSumUp
<1>4. w[S] = Weight(now, S) - Weight(eaterUsed, S)
  OBVIOUS
<1> HIDE DEF v, w
<1>5. Sums(w)
  <2> HIDE DEF Sums
  <2> QED BY <1>2, <1>3
<1>6. PICK iter : /\ Sums(iter)
                  /\ MapThenSumSet(LAMBDA e : Charge[e][age[e[1]]] - eaterUsed[e], S) = iter[S]
  BY <1>5 DEF MapThenSumSet, MapThenFoldSet, Pick
<1>7. SumsUp(iter, v, S)
  <2> HIDE DEF Sums
  <2> QED BY <1>2, <1>6
<1>8. iter[S] = w[S]
  BY <1>3, <1>7, OneSum
<1> QED BY <1>4, <1>6, <1>8

--------------------------------------------------------------------------------
(* Types, finiteness and the money of eaters. *)

LEMMA OtherTypesStep ==
  ASSUME IInv, OtherTypes, [Next]_vars
  PROVE  OtherTypes'
<1>1. \A A : StopOn(A) \subseteq {c \in Calls : Kind[c] # "radius"}
  BY EaterParts DEF StopOn, IInv, MoneyTypes
<1>2. mut' \in Calls \cup {None}
  <2>1. UNCHANGED mut \/ \E c \in Calls : mut' \in {c, None}
    BY DEF Next, Setup, AddCall, HangUp, RemoveCall, RadiusStop, Removed, AccountCall, DelEater,
       Report, Second, BalanceCards, BalanceSecond, Tick, ReloadRead, ReloadInstall,
       ApplyCodeSql, RefreshCards, callVars, vars
  <2> QED BY <2>1 DEF OtherTypes
<1>3. asked' \subseteq {c \in Calls : Kind[c] # "radius"}
  <2>1. UNCHANGED asked \/ \E A : asked' = asked \cup StopOn(A)
    BY DEF Next, Setup, AddCall, HangUp, RemoveCall, RadiusStop, Removed, AccountCall, DelEater,
       Report, Second, BalanceCards, BalanceSecond, Tick, ReloadRead, ReloadInstall,
       ApplyCodeSql, RefreshCards, vars
  <2>2. CASE UNCHANGED asked
    BY <2>2 DEF OtherTypes
  <2>3. ASSUME NEW A, asked' = asked \cup StopOn(A) PROVE asked' \subseteq {c \in Calls : Kind[c] # "radius"}
    BY <1>1, <2>3 DEF OtherTypes
  <2> QED BY <2>1, <2>2, <2>3
<1> QED BY <1>2, <1>3 DEF OtherTypes

LEMMA FinitelyStep ==
  ASSUME IInv, Finitely, [Next]_vars
  PROVE  Finitely'
<1>1. ASSUME NEW c \in Calls, AddCall(c) PROVE Finitely'
  <2>1. attached' = attached \cup EatersOf(c) /\ Billed' = Billed
    BY <1>1 DEF AddCall, Billed, dbVars
  <2>2. IsFiniteSet(attached \cup EatersOf(c))
    BY EatersOfFinite, FS_Union DEF Finitely
  <2> QED BY <2>1, <2>2 DEF Finitely
<1>2. ASSUME NEW e \in Eaters, DelEater(e) PROVE Finitely'
  <2>1. attached' = attached \ {e} /\ bill' = [bill EXCEPT ![e] = RealMoney(e)]
    BY <1>2 DEF DelEater
  <2>2. Billed' \subseteq Billed \cup {e}
    BY <2>1 DEF Billed, IInv, MoneyTypes
  <2>3. IsFiniteSet(attached \ {e}) /\ IsFiniteSet(Billed \cup {e})
    BY FS_RemoveElement, FS_AddElement DEF Finitely
  <2>4. IsFiniteSet(Billed')
    BY <2>2, <2>3, FS_Subset
  <2> QED BY <2>1, <2>3, <2>4 DEF Finitely
<1>3. ASSUME UNCHANGED <<attached, bill>> PROVE Finitely'
  BY <1>3 DEF Finitely, Billed
<1>4. \/ UNCHANGED <<attached, bill>>
      \/ \E c \in Calls : AddCall(c)
      \/ \E e \in Eaters : DelEater(e)
  BY DEF Next, Setup, HangUp, RemoveCall, RadiusStop, Removed, AccountCall, Report, Second,
     BalanceCards, BalanceSecond, Tick, ReloadRead, ReloadInstall, ApplyCodeSql, RefreshCards,
     spoolVars, dbVars, vars
<1> QED BY <1>1, <1>2, <1>3, <1>4

LEMMA EaterMoneyStep ==
  ASSUME IInv, EaterMoney, [Next]_vars
  PROVE  EaterMoney'
<1>1. stage \in [Calls -> Stages]
  BY DEF IInv, MoneyTypes
<1>2. ASSUME NEW c \in Calls, Setup(c) PROVE EaterMoney'
  <2>1. \A d \in Calls : \/ stage'[d] = stage[d]
                         \/ stage[d] = "idle" /\ stage'[d] = "routed"
    <3>1. /\ stage[c] = "idle"
          /\ stage' = [stage EXCEPT ![c] = "routed"] \/ stage' = stage
      BY <1>2 DEF Setup
    <3>2. CASE stage' = stage
      BY <3>2
    <3>3. CASE stage' = [stage EXCEPT ![c] = "routed"]
      BY <1>1, <3>1, <3>3
    <3> QED BY <3>1, <3>2, <3>3
  <2>2. attached' = attached /\ eaterUsed' = eaterUsed /\ bill' = bill
    BY <1>2 DEF Setup, dbVars
  <2>3. \A e \in Eaters : stage'[e[1]] = stage[e[1]]
                            \/ (stage[e[1]] = "idle" /\ stage'[e[1]] = "routed")
    BY <2>1, EaterParts
  <2> QED BY <2>2, <2>3 DEF EaterMoney
<1>3. ASSUME NEW c \in Calls, AddCall(c) PROVE EaterMoney'
  <2>1. \A d \in Calls : stage'[d] = IF d = c THEN "talking" ELSE stage[d]
    BY <1>1, <1>3 DEF AddCall
  <2>2. /\ stage[c] = "routed" /\ attached' = attached \cup EatersOf(c)
        /\ eaterUsed' = eaterUsed /\ bill' = bill
    BY <1>3 DEF AddCall, dbVars
  <2>3. \A e \in Eaters : e[1] = c => e \in EatersOf(c)
    BY DEF EatersOf
  <2>4. \A e \in Eaters : /\ e[1] = c => stage'[e[1]] = "talking" /\ stage[e[1]] = "routed"
                          /\ e[1] # c => stage'[e[1]] = stage[e[1]]
    BY <2>1, <2>2, EaterParts
  <2> QED BY <2>2, <2>3, <2>4 DEF EaterMoney
<1>4. ASSUME NEW c \in Calls, HangUp(c) \/ RemoveCall(c) \/ Removed(c) \/ AccountCall(c)
      PROVE  EaterMoney'
  <2>1. PICK g \in {"ended", "removing", "removed", "accounted"} :
          /\ \A d \in Calls : stage'[d] = IF d = c THEN g ELSE stage[d]
          /\ g = "ended" => stage[c] \in {"routed", "talking"}
          /\ g = "removing" => stage[c] = "ended"
          /\ g = "removed" => stage[c] = "removing" /\ attached \cap EatersOf(c) = {}
          /\ g = "accounted" => stage[c] = "removed"
    BY <1>1, <1>4 DEF HangUp, RemoveCall, Removed, AccountCall, IInv, RemovalHolds
  <2>2. attached' = attached /\ eaterUsed' = eaterUsed /\ bill' = bill
    BY <1>4 DEF HangUp, RemoveCall, Removed, AccountCall, spoolVars, dbVars
  <2>3. \A e \in Eaters : /\ e[1] = c => stage'[e[1]] = g /\ stage[e[1]] = stage[c]
                          /\ e[1] # c => stage'[e[1]] = stage[e[1]]
    BY <2>1, EaterParts
  <2>4. \A e \in Eaters : e[1] = c => e \in EatersOf(c)
    BY DEF EatersOf
  <2>5. ASSUME NEW e \in Eaters
        PROVE  /\ e \notin attached => eaterUsed[e] = 0
               /\ stage'[e[1]] = "talking" => e \in attached
               /\ IsTraffic(e) /\ stage'[e[1]] # "removing" => eaterUsed[e] = 0
               /\ bill[e] # Unbilled => stage'[e[1]] \in {"removing", "removed", "accounted"}
    <3>1. CASE e[1] # c
      BY <2>3, <3>1 DEF EaterMoney
    <3>2. CASE e[1] = c
      <4>1. stage'[e[1]] = g /\ stage[e[1]] = stage[c] /\ e \in EatersOf(c)
        BY <2>3, <2>4, <3>2
      <4>2. g = "removed" => e \notin attached
        BY <2>1, <4>1
      <4> QED BY <2>1, <4>1, <4>2 DEF EaterMoney
    <3> QED BY <3>1, <3>2
  <2> QED BY <2>2, <2>5 DEF EaterMoney
<1>5. ASSUME NEW c \in Calls, RadiusStop(c) PROVE EaterMoney'
  <2>1. \A d \in Calls : stage'[d] = IF d = c THEN "removing" ELSE stage[d]
    BY <1>1, <1>5 DEF RadiusStop
  <2>2. /\ stage[c] = "talking" /\ attached' = attached /\ bill' = bill
        /\ \A e \in Eaters : e[1] # c \/ ~ IsTraffic(e) => eaterUsed'[e] = eaterUsed[e]
    BY <1>5 DEF RadiusStop, dbVars, EatersOf
  <2>3. \A e \in Eaters : /\ e[1] = c => stage'[e[1]] = "removing" /\ stage[e[1]] = "talking"
                          /\ e[1] # c => stage'[e[1]] = stage[e[1]]
    BY <2>1, <2>2, EaterParts
  <2> QED BY <2>2, <2>3 DEF EaterMoney
<1>6. ASSUME NEW e \in Eaters, DelEater(e) PROVE EaterMoney'
  <2>1. /\ attached' = attached \ {e} /\ stage' = stage
        /\ \A f \in Eaters : eaterUsed'[f] = IF f = e THEN 0 ELSE eaterUsed[f]
        /\ \A f \in Eaters : f # e => bill'[f] = bill[f]
    BY <1>6 DEF DelEater, callVars, IInv, MoneyTypes
  <2>2. stage[e[1]] = "removing"
    BY <1>6, EaterParts DEF DelEater, IInv, RemovalHolds
  <2> QED BY <2>1, <2>2 DEF EaterMoney
<1>7. ASSUME NEW A, Tick(A) PROVE EaterMoney'
  <2>1. /\ attached' = attached /\ stage' = stage /\ bill' = bill
        /\ \A e \in Eaters : e \notin attached \/ ~ Tickable(e) => eaterUsed'[e] = eaterUsed[e]
    BY <1>7 DEF Tick, callVars, dbVars
  <2>2. \A e \in Eaters : IsTraffic(e) => ~ Tickable(e)
    BY TrafficIsRadius DEF Tickable
  <2> QED BY <2>1, <2>2 DEF EaterMoney
<1>8. ASSUME UNCHANGED <<stage, attached, eaterUsed, bill>> PROVE EaterMoney'
  BY <1>8 DEF EaterMoney
<1>9. \/ UNCHANGED <<stage, attached, eaterUsed, bill>>
      \/ \E c \in Calls : \/ Setup(c) \/ AddCall(c) \/ RadiusStop(c)
                          \/ HangUp(c) \/ RemoveCall(c) \/ Removed(c) \/ AccountCall(c)
      \/ \E e \in Eaters : DelEater(e)
      \/ \E A : Tick(A)
  BY DEF Next, Report, Second, BalanceCards, BalanceSecond, ReloadRead, ReloadInstall,
     ApplyCodeSql, RefreshCards, callVars, spoolVars, dbVars, vars
<1> QED BY <1>2, <1>3, <1>4, <1>5, <1>6, <1>7, <1>8, <1>9

--------------------------------------------------------------------------------
(* usedMoney. *)

LEMMA UsedAddCall ==
  ASSUME IInv, EaterMoney, Finitely, Finitely', IInv', UsedIsWeight, NEW c \in Calls, AddCall(c)
  PROVE  UsedIsWeight'
<1>1. /\ stage[c] = "routed" /\ attached' = attached \cup EatersOf(c)
      /\ eaterUsed' = eaterUsed /\ used' = used
  BY DEF AddCall
<1>2. \A e \in EatersOf(c) : e \notin attached /\ eaterUsed[e] = 0
  BY <1>1 DEF EatersOf, IInv, EaterStages, EaterMoney
<1>3. ASSUME NEW a PROVE Weight(eaterUsed', Users(a)') = Weight(eaterUsed, Users(a))
  <2> DEFINE new == {e \in EatersOf(c) : AccountOf(e) = a}
  <2>1. Users(a)' = Users(a) \cup new /\ Users(a) \cap new = {}
    BY <1>1, <1>2 DEF Users
  <2>2. IsFiniteSet(new)
    BY EatersOfFinite, FS_Subset
  <2>3. \A e \in new : eaterUsed[e] = 0
    BY <1>2
  <2> HIDE DEF new
  <2>4. IsFiniteSet(Users(a)) /\ \A e \in Users(a) : eaterUsed[e] \in Nat
    BY UsersFinite DEF IInv
  <2>5. Weight(eaterUsed, Users(a) \cup new) = Weight(eaterUsed, Users(a)) + Weight(eaterUsed, new)
    BY <2>1, <2>2, <2>3, <2>4, WeightUnion
  <2>6. Weight(eaterUsed, new) = 0 /\ Weight(eaterUsed, Users(a)) \in Nat
    BY <2>3, <2>4, WeightZero, UnitsFinite
  <2>7. Weight(eaterUsed, Users(a) \cup new) = Weight(eaterUsed, Users(a))
    BY <2>5, <2>6
  <2> QED BY <1>1, <2>1, <2>7
<1> QED BY <1>1, <1>3 DEF UsedIsWeight

\* A tick replaces what the ticked eaters of a spool have used.
LEMMA UsedTick ==
  ASSUME IInv, Finitely, UsedIsWeight, NEW A, Tick(A)
  PROVE  UsedIsWeight'
<1> DEFINE ticked == {e \in attached : AccountOf(e) \in A /\ Tickable(e)}
           now    == [e \in Eaters |-> Charge[e][age[e[1]]]]
<1>1. /\ eaterUsed' = [e \in Eaters |-> IF e \in ticked THEN now[e] ELSE eaterUsed[e]]
      /\ used' = [a \in Accounts |-> used[a] +
           MapThenSumSet(LAMBDA e : Charge[e][age[e[1]]] - eaterUsed[e], ticked \cap Users(a))]
      /\ attached' = attached
  BY DEF Tick
<1>2. \A e \in Eaters : now[e] = Charge[e][age[e[1]]] /\ now[e] \in Nat
  BY EaterParts, ChargeType DEF IInv, MoneyTypes
<1> HIDE DEF ticked, now
<1>3. ASSUME NEW a \in Accounts PROVE used'[a] = Weight(eaterUsed', Users(a)')
  <2> DEFINE hit  == ticked \cap Users(a)
             rest == Users(a) \ ticked
  <2>1. Users(a)' = hit \cup rest /\ Users(a) = hit \cup rest /\ hit \cap rest = {}
    BY <1>1 DEF Users
  <2>2. IsFiniteSet(Users(a)) /\ Users(a) \subseteq Eaters
        /\ \A e \in Users(a) : eaterUsed[e] \in Nat
    BY UsersFinite DEF IInv, MoneyTypes, Users
  <2>3. IsFiniteSet(hit) /\ IsFiniteSet(rest)
    BY <2>2, FS_Subset
  <2>4. /\ \A e \in hit : eaterUsed'[e] = now[e]
        /\ \A e \in rest : eaterUsed'[e] = eaterUsed[e]
    BY <1>1, <2>2
  <2>5. hit \in SUBSET Eaters /\ rest \in SUBSET Eaters
    BY <2>2
  <2>6. used'[a] = used[a] +
          MapThenSumSet(LAMBDA e : Charge[e][age[e[1]]] - eaterUsed[e], hit)
    BY <1>1
  <2>7. \A e \in hit \cup rest : eaterUsed[e] \in Nat /\ now[e] \in Nat /\ eaterUsed'[e] \in Nat
    BY <1>2, <2>1, <2>2, <2>4, <2>5
  <2> HIDE DEF hit, rest
  <2>8. MapThenSumSet(LAMBDA e : Charge[e][age[e[1]]] - eaterUsed[e], hit)
          = Weight(now, hit) - Weight(eaterUsed, hit)
    <3>1. \A e \in hit : now[e] = Charge[e][age[e[1]]] /\ now[e] \in Nat
      BY <1>2, <2>5
    <3> QED BY <2>3, <2>5, <3>1, TickedSum DEF IInv
  <2>9. Weight(eaterUsed, hit \cup rest) = Weight(eaterUsed, hit) + Weight(eaterUsed, rest)
    BY <2>1, <2>3, <2>7, WeightUnion
  <2>10. Weight(eaterUsed', hit \cup rest) = Weight(eaterUsed', hit) + Weight(eaterUsed', rest)
    BY <2>1, <2>3, <2>7, WeightUnion
  <2>11. /\ Weight(eaterUsed', hit) = Weight(now, hit)
         /\ Weight(eaterUsed', rest) = Weight(eaterUsed, rest)
    BY <2>4, WeightSame
  <2>12. /\ Weight(eaterUsed, hit) \in Nat /\ Weight(now, hit) \in Nat
         /\ Weight(eaterUsed, rest) \in Nat
    BY <2>3, <2>7, UnitsFinite
  <2>13. used[a] = Weight(eaterUsed, hit) + Weight(eaterUsed, rest)
    BY <2>1, <2>9 DEF UsedIsWeight
  <2>14. used'[a] = Weight(now, hit) + Weight(eaterUsed, rest)
    <3>1. used'[a] = used[a] + (Weight(now, hit) - Weight(eaterUsed, hit))
      BY <2>6, <2>8
    <3> QED BY <2>12, <2>13, <3>1
  <2> QED BY <2>1, <2>10, <2>11, <2>14
<1>4. used' = [a \in Accounts |-> used'[a]]
  BY <1>1
<1> QED BY <1>3, <1>4 DEF UsedIsWeight

\* The octets of a session had cost nothing before its stop record.
LEMMA UsedRadiusStop ==
  ASSUME IInv, Finitely, EaterMoney, UsedIsWeight, NEW c \in Calls, RadiusStop(c)
  PROVE  UsedIsWeight'
<1> DEFINE traffic == {e \in EatersOf(c) : IsTraffic(e)}
<1>1. PICK m \in TrafficCosts :
        /\ eaterUsed' = [e \in Eaters |-> IF e \in traffic THEN m ELSE eaterUsed[e]]
        /\ used' = [a \in Accounts |-> used[a] + m * Cardinality(traffic \cap Users(a))]
  BY DEF RadiusStop
<1>2. m \in Nat /\ attached' = attached /\ stage[c] = "talking"
  BY MoneyAssumption DEF RadiusStop
<1>3. \A e \in traffic : eaterUsed[e] = 0
  BY <1>2 DEF EatersOf, EaterMoney
<1> HIDE DEF traffic
<1>4. ASSUME NEW a \in Accounts PROVE used'[a] = Weight(eaterUsed', Users(a)')
  <2> DEFINE hit  == traffic \cap Users(a)
             rest == Users(a) \ traffic
  <2>1. Users(a)' = hit \cup rest /\ Users(a) = hit \cup rest /\ hit \cap rest = {}
    BY <1>2 DEF Users
  <2>2. IsFiniteSet(Users(a)) /\ Users(a) \subseteq Eaters
        /\ \A e \in Users(a) : eaterUsed[e] \in Nat
    BY UsersFinite DEF IInv, MoneyTypes, Users
  <2>3. IsFiniteSet(hit) /\ IsFiniteSet(rest)
    BY <2>2, FS_Subset
  <2>4. /\ \A e \in hit : eaterUsed'[e] = m /\ eaterUsed[e] = 0
        /\ \A e \in rest : eaterUsed'[e] = eaterUsed[e]
    BY <1>1, <1>3, <2>2
  <2>5. used'[a] = used[a] + m * Cardinality(hit)
    BY <1>1
  <2>6. \A e \in hit \cup rest : eaterUsed[e] \in Nat /\ eaterUsed'[e] \in Nat
    BY <1>2, <2>1, <2>2, <2>4
  <2> HIDE DEF hit, rest
  <2>7. Weight(eaterUsed, hit \cup rest) = Weight(eaterUsed, hit) + Weight(eaterUsed, rest)
    BY <2>1, <2>3, <2>6, WeightUnion
  <2>8. Weight(eaterUsed', hit \cup rest) = Weight(eaterUsed', hit) + Weight(eaterUsed', rest)
    BY <2>1, <2>3, <2>6, WeightUnion
  <2>9. /\ Weight(eaterUsed', hit) = m * Cardinality(hit)
        /\ Weight(eaterUsed, hit) = 0
        /\ Weight(eaterUsed', rest) = Weight(eaterUsed, rest)
    BY <1>2, <2>3, <2>4, WeightEqual, WeightZero, WeightSame
  <2>10. Weight(eaterUsed', hit) \in Nat /\ Weight(eaterUsed, rest) \in Nat
    BY <2>3, <2>6, UnitsFinite
  <2>11. used[a] = Weight(eaterUsed, rest)
    <3>1. used[a] = Weight(eaterUsed, Users(a))
      BY DEF UsedIsWeight
    <3>2. used[a] = Weight(eaterUsed, hit) + Weight(eaterUsed, rest)
      BY <2>1, <2>7, <3>1
    <3> QED BY <2>9, <2>10, <3>2
  <2>12. used'[a] = Weight(eaterUsed', hit) + Weight(eaterUsed', rest)
    BY <2>5, <2>9, <2>10, <2>11
  <2> QED BY <2>1, <2>8, <2>12
<1>5. used' = [a \in Accounts |-> used'[a]]
  BY <1>1
<1> QED BY <1>4, <1>5 DEF UsedIsWeight

\* An eater takes what it used with it.
LEMMA UsedDelEater ==
  ASSUME IInv, Finitely, UsedIsWeight, NEW e \in Eaters, DelEater(e)
  PROVE  UsedIsWeight'
<1> DEFINE b == AccountOf(e)
<1>1. /\ e \in attached /\ attached' = attached \ {e}
      /\ used' = [used EXCEPT ![b] = IF IsLast(e) THEN 0 ELSE UsedLeft(e)]
      /\ eaterUsed' = [eaterUsed EXCEPT ![e] = 0]
  BY DEF DelEater
<1>2. b \in Accounts /\ e \in Users(b) /\ eaterUsed \in [Eaters -> Nat]
  BY <1>1, EaterParts DEF Users, IInv, MoneyTypes
<1>3. /\ \A a : a # b => Users(a)' = Users(a)
      /\ \A a : a # b => e \notin Users(a)
      /\ Users(b)' = Users(b) \ {e}
  BY <1>1 DEF Users
<1>4. \A a : Users(a) \subseteq Eaters
  BY DEF Users, IInv, MoneyTypes
<1>5. \A f \in Eaters : f # e => eaterUsed'[f] = eaterUsed[f]
  BY <1>1, <1>2
<1>6. used = [a \in Accounts |-> Weight(eaterUsed, Users(a))]
  BY DEF UsedIsWeight
<1>7. ASSUME NEW a \in Accounts, a # b PROVE used'[a] = Weight(eaterUsed', Users(a)')
  <2>1. \A f \in Users(a) : eaterUsed'[f] = eaterUsed[f]
    BY <1>3, <1>4, <1>5, <1>7
  <2>2. Weight(eaterUsed', Users(a)) = Weight(eaterUsed, Users(a))
    BY <2>1, WeightSame
  <2>3. used'[a] = used[a]
    BY <1>1, <1>6, <1>7
  <2> QED BY <1>3, <1>6, <1>7, <2>2, <2>3
<1>8. used'[b] = Weight(eaterUsed', Users(b)')
  <2>1. \A f \in Users(b) \ {e} : eaterUsed'[f] = eaterUsed[f]
    BY <1>4, <1>5
  <2>2. Weight(eaterUsed', Users(b) \ {e}) = Weight(eaterUsed, Users(b) \ {e})
    BY <2>1, WeightSame
  <2>3. /\ Weight(eaterUsed, Users(b)) = eaterUsed[e] + Weight(eaterUsed, Users(b) \ {e})
        /\ Weight(eaterUsed, Users(b) \ {e}) \in Nat /\ eaterUsed[e] \in Nat
    <3>1. IsFiniteSet(Users(b)) /\ \A f \in Users(b) : eaterUsed[f] \in Nat
      BY UsersFinite DEF IInv
    <3> HIDE DEF b
    <3> QED BY <1>2, <3>1, WeightPick
  <2>4. used[b] = Weight(eaterUsed, Users(b))
    BY <1>2, <1>6
  <2>5. used'[b] = IF IsLast(e) THEN 0 ELSE UsedLeft(e)
    BY <1>1, <1>2, <1>6
  <2>6. CASE IsLast(e)
    <3>1. Users(b) \ {e} = {}
      BY <2>6 DEF IsLast
    <3>2. Weight(eaterUsed, Users(b) \ {e}) = 0
      BY <3>1, WeightZero
    <3> QED BY <1>3, <2>2, <2>5, <2>6, <3>2
  <2>7. CASE ~ IsLast(e)
    <3>1. used'[b] = used[b] - eaterUsed[e]
      BY <2>5, <2>7 DEF UsedLeft
    <3>2. used'[b] = Weight(eaterUsed, Users(b) \ {e})
      BY <2>3, <2>4, <3>1
    <3> QED BY <1>3, <2>2, <3>2
  <2> QED BY <2>6, <2>7
<1>9. used' = [a \in Accounts |-> used'[a]]
  BY <1>1, <1>6
<1> QED BY <1>7, <1>8, <1>9 DEF UsedIsWeight

LEMMA UsedStep ==
  ASSUME IInv, IInv', EaterMoney, Finitely, Finitely', UsedIsWeight, [Next]_vars
  PROVE  UsedIsWeight'
<1>1. ASSUME UNCHANGED <<used, attached, eaterUsed>> PROVE UsedIsWeight'
  BY <1>1 DEF UsedIsWeight, Users
<1>2. \/ UNCHANGED <<used, attached, eaterUsed>>
      \/ \E c \in Calls : AddCall(c) \/ RadiusStop(c)
      \/ \E e \in Eaters : DelEater(e)
      \/ \E A : Tick(A)
  BY DEF Next, Setup, HangUp, RemoveCall, Removed, AccountCall, Report, Second, BalanceCards,
     BalanceSecond, ReloadRead, ReloadInstall, ApplyCodeSql, RefreshCards, spoolVars, vars
<1> QED BY <1>1, <1>2, UsedAddCall, UsedRadiusStop, UsedDelEater, UsedTick

--------------------------------------------------------------------------------
(* What the database will show. *)

\* A step that keeps the debts, the balances and the cached money of customers
\* and dealers, and makes no spool that owns less than the cached account.
LEMMA BelowFrame ==
  ASSUME NeverBelowDebt,
         \A a \in Customers \cup Dealers :
           /\ OwedOf(a)' = OwedOf(a)
           /\ cost'[a] = cost[a] /\ ledger'[a] = ledger[a]
           /\ a \in spools' => \/ a \in spools /\ total'[a] = total[a]
                               \/ total'[a] = cost[a],
         bill' = bill, snapshot' = snapshot
  PROVE  NeverBelowDebt'
<1>1. \A a \in Customers \cup Dealers : Debt(a)' = Debt(a)
  BY DEF Debt
<1>2. ASSUME NEW a \in Customers \cup Dealers
      PROVE  /\ cost'[a] >= ledger'[a] - Debt(a)'
             /\ a \in spools' => total'[a] >= ledger'[a] - Debt(a)'
             /\ snapshot' # None => snapshot'[a] >= ledger'[a] - Debt(a)'
  <2>1. Debt(a)' = Debt(a)
    BY <1>1
  <2> QED BY <2>1 DEF NeverBelowDebt
<1> QED BY <1>2 DEF NeverBelowDebt

LEMMA NotCards ==
  ASSUME NEW a \in Customers \cup Dealers
  PROVE  a \in Accounts /\ a \notin Cards
BY AccountsAssumption DEF Accounts

\* The set of debts changes neither with the steps of a call before removeCall
\* ends nor when its record goes out.
LEMMA DebtsOfCall ==
  ASSUME IInv, EaterMoney, NEW c \in Calls,
         \/ Setup(c) \/ AddCall(c) \/ HangUp(c) \/ RemoveCall(c) \/ RadiusStop(c)
         \/ Removed(c) \/ AccountCall(c),
         NEW a \in Customers \cup Dealers
  PROVE  OwedOf(a)' = OwedOf(a)
<1>1. stage \in [Calls -> Stages]
  BY DEF IInv, MoneyTypes
<1>2. bill' = bill
  BY DEF Setup, AddCall, HangUp, RemoveCall, RadiusStop, Removed, AccountCall, dbVars
<1>3. \A d \in Calls : d # c => stage'[d] = stage[d]
  <2>1. stage' = stage \/ \E g : stage' = [stage EXCEPT ![c] = g]
    BY DEF Setup, AddCall, HangUp, RemoveCall, RadiusStop, Removed, AccountCall
  <2>2. CASE stage' = stage
    BY <2>2
  <2>3. ASSUME NEW g, stage' = [stage EXCEPT ![c] = g]
        PROVE  \A d \in Calls : d # c => stage'[d] = stage[d]
    BY <1>1, <2>3
  <2> QED BY <2>1, <2>2, <2>3
<1>4. CASE Setup(c) \/ AddCall(c) \/ HangUp(c) \/ RemoveCall(c) \/ RadiusStop(c)
  <2>1. pending' = pending
    BY <1>4 DEF Setup, AddCall, HangUp, RemoveCall, RadiusStop, dbVars
  <2>2. stage[c] \in {"idle", "routed", "talking", "ended"}
    BY <1>4 DEF Setup, AddCall, HangUp, RemoveCall, RadiusStop
  <2>3. \A e \in Eaters : e[1] = c => bill[e] = Unbilled
    BY <2>2 DEF EaterMoney
  <2>4. \A e \in Eaters : e \in OwedOf(a)' <=> e \in OwedOf(a)
    BY <1>2, <1>3, <2>1, <2>3, EaterParts DEF OwedOf
  <2> QED BY <2>4 DEF OwedOf
<1>5. CASE Removed(c)
  <2>1. pending' = pending
    BY <1>5 DEF Removed, dbVars
  <2>2. stage[c] = "removing" /\ stage'[c] = "removed"
    BY <1>1, <1>5 DEF Removed, IInv, RemovalHolds
  <2>3. \A e \in Eaters : e \in OwedOf(a)' <=> e \in OwedOf(a)
    BY <1>2, <1>3, <2>1, <2>2, EaterParts DEF OwedOf
  <2> QED BY <2>3 DEF OwedOf
<1>6. CASE AccountCall(c)
  <2>1. /\ stage[c] = "removed" /\ stage'[c] = "accounted"
        /\ pending' = pending \cup {e \in EatersOf(c) : bill[e] # Unbilled /\ AccountOf(e) \notin Cards}
    BY <1>1, <1>6 DEF AccountCall
  <2>2. ASSUME NEW e \in Eaters PROVE e \in OwedOf(a)' <=> e \in OwedOf(a)
    <3>1. CASE e[1] # c
      <4>1. e \notin EatersOf(c) /\ stage'[e[1]] = stage[e[1]]
        BY <1>3, <3>1, EaterParts DEF EatersOf
      <4> QED BY <1>2, <2>1, <4>1 DEF OwedOf
    <3>2. CASE e[1] = c
      <4>1. e \in EatersOf(c)
        BY <3>2 DEF EatersOf
      <4> QED BY <1>2, <2>1, <3>2, <4>1, NotCards DEF OwedOf
    <3> QED BY <3>1, <3>2
  <2> QED BY <2>2 DEF OwedOf
<1> QED BY <1>4, <1>5, <1>6

\* The end of a call: cache, spool and debt lose the same money, a dealer's
\* cached account nothing.
LEMMA BelowDelEater ==
  ASSUME IInv, Finitely, NeverBelowDebt, NEW e \in Eaters, DelEater(e)
  PROVE  NeverBelowDebt'
<1> DEFINE b == AccountOf(e)
           m == RealMoney(e)
<1>1. /\ mut = e[1] /\ e \in attached /\ stage' = stage /\ pending' = pending
      /\ snapshot' = snapshot
      /\ cost' = IF b \in Dealers THEN cost ELSE [cost EXCEPT ![b] = LeftOver(e)]
      /\ total' = [total EXCEPT ![b] = IF IsLast(e) THEN 0 ELSE LeftOver(e)]
      /\ spools' = IF IsLast(e) THEN spools \ {b} ELSE spools
      /\ bill' = [bill EXCEPT ![e] = m]
      /\ ledger' = IF b \in Cards THEN [ledger EXCEPT ![b] = @ - m] ELSE ledger
  BY DEF DelEater, callVars
<1>2. /\ b \in Accounts /\ m \in Nat /\ b \in spools
      /\ bill[e] = Unbilled /\ stage[e[1]] = "removing"
  BY <1>1, EaterParts, RealMoneyType
  DEF IInv, SpoolsHaveEaters, EaterStages, RemovalHolds
<1>3. /\ cost \in [Accounts -> Int] /\ total \in [Accounts -> Int]
      /\ ledger \in [Accounts -> Int] /\ bill \in [Eaters -> Nat \cup {Unbilled}]
      /\ snapshot \in [Customers \cup Dealers -> Int] \cup {None}
  BY DEF IInv, MoneyTypes
<1>4. LeftOver(e) = total[b] - m \/ b \in Cards
  BY DEF LeftOver
<1>5. m # Unbilled
  BY <1>2 DEF Unbilled
<1> HIDE DEF m
<1>6. \A f \in Eaters : f # e => bill'[f] = bill[f]
  BY <1>1, <1>3
<1>7. bill'[e] = m
  BY <1>1, <1>3
<1> SUFFICES ASSUME NEW a \in Customers \cup Dealers
             PROVE  /\ cost'[a] >= ledger'[a] - Debt(a)'
                    /\ a \in spools' => total'[a] >= ledger'[a] - Debt(a)'
                    /\ snapshot' # None => snapshot'[a] >= ledger'[a] - Debt(a)'
  BY DEF NeverBelowDebt
<1>8. a \in Accounts /\ a \notin Cards
  BY NotCards
<1>9. /\ cost[a] >= ledger[a] - Debt(a)
      /\ a \in spools => total[a] >= ledger[a] - Debt(a)
      /\ snapshot # None => snapshot[a] >= ledger[a] - Debt(a)
  BY DEF NeverBelowDebt
<1>10. IsFiniteSet(OwedOf(a)) /\ (\A f \in OwedOf(a) : bill[f] \in Nat) /\ Debt(a) \in Nat
  BY DebtType DEF IInv
<1>11. e \notin OwedOf(a) /\ OwedOf(a) \subseteq Eaters
  BY <1>2 DEF OwedOf
<1>12. \A f \in OwedOf(a) : bill'[f] = bill[f]
  BY <1>6, <1>11
<1>13. Weight(bill', OwedOf(a)) = Debt(a)
  BY <1>12, WeightSame DEF Debt
<1>14. CASE a # b
  <2>1. OwedOf(a)' = OwedOf(a)
    <3>1. \A f \in Eaters : f \in OwedOf(a)' <=> f \in OwedOf(a)
      BY <1>1, <1>6, <1>14 DEF OwedOf
    <3> QED BY <3>1 DEF OwedOf
  <2>2. Debt(a)' = Debt(a)
    BY <1>13, <2>1 DEF Debt
  <2>3. /\ cost'[a] = cost[a] /\ total'[a] = total[a] /\ ledger'[a] = ledger[a]
        /\ a \in spools' => a \in spools
    BY <1>1, <1>3, <1>8, <1>14
  <2> QED BY <1>1, <1>9, <2>2, <2>3
<1>15. CASE a = b
  <2>1. OwedOf(a)' = OwedOf(a) \cup {e}
    <3>1. \A f \in Eaters : f \in OwedOf(a)' <=> f \in OwedOf(a) \/ f = e
      BY <1>1, <1>2, <1>5, <1>6, <1>7, <1>15 DEF OwedOf
    <3> QED BY <3>1 DEF OwedOf
  <2>2. Weight(bill', OwedOf(a) \cup {e}) = Weight(bill', OwedOf(a)) + bill'[e]
    <3>1. \A f \in OwedOf(a) \cup {e} : bill'[f] \in Nat
      BY <1>2, <1>7, <1>10, <1>12
    <3> QED BY <1>10, <1>11, <3>1, WeightAdd
  <2>3. Debt(a)' = Debt(a) + m
    BY <1>7, <1>13, <2>1, <2>2 DEF Debt
  <2>4. /\ ledger'[a] = ledger[a]
        /\ cost'[a] = cost[a] \/ cost'[a] = total[a] - m
        /\ a \in spools' => total'[a] = total[a] - m
        /\ a \in spools
    BY <1>1, <1>2, <1>3, <1>4, <1>8, <1>15
  <2>5. cost[a] \in Int /\ total[a] \in Int /\ ledger[a] \in Int /\ m \in Nat /\ Debt(a) \in Nat
        /\ (snapshot # None => snapshot[a] \in Int)
    BY <1>2, <1>3, <1>8, <1>10
  <2>6. ledger'[a] - Debt(a)' = (ledger[a] - Debt(a)) - m
    BY <2>3, <2>4, <2>5
  <2>7. cost'[a] >= ledger'[a] - Debt(a)'
    BY <1>9, <2>4, <2>5, <2>6
  <2>8. a \in spools' => total'[a] >= ledger'[a] - Debt(a)'
    BY <1>9, <2>4, <2>5, <2>6
  <2>9. snapshot' # None => snapshot'[a] >= ledger'[a] - Debt(a)'
    BY <1>1, <1>9, <2>5, <2>6
  <2> QED BY <2>7, <2>8, <2>9
<1> QED BY <1>14, <1>15

\* A record that arrives moves its money from the debts to the balance.
LEMMA BelowReport ==
  ASSUME IInv, Finitely, NeverBelowDebt, NEW e \in Eaters, Report(e)
  PROVE  NeverBelowDebt'
<1> DEFINE b == AccountOf(e)
<1>1. /\ e \in pending /\ pending' = pending \ {e} /\ bill' = bill /\ stage' = stage
      /\ ledger' = [ledger EXCEPT ![b] = @ - bill[e]]
      /\ cost' = cost /\ total' = total /\ spools' = spools /\ snapshot' = snapshot
  BY DEF Report, callVars, spoolVars, memVars
<1>2. stage[e[1]] = "accounted" /\ bill[e] # Unbilled /\ b \in Accounts
  BY <1>1, EaterParts DEF IInv, EaterStages
<1>3. ledger \in [Accounts -> Int] /\ bill[e] \in Nat
  BY <1>2 DEF IInv, MoneyTypes
<1> SUFFICES ASSUME NEW a \in Customers \cup Dealers
             PROVE  /\ cost'[a] >= ledger'[a] - Debt(a)'
                    /\ a \in spools' => total'[a] >= ledger'[a] - Debt(a)'
                    /\ snapshot' # None => snapshot'[a] >= ledger'[a] - Debt(a)'
  BY DEF NeverBelowDebt
<1>4. a \in Accounts
  BY NotCards
<1>5. /\ cost[a] >= ledger[a] - Debt(a)
      /\ a \in spools => total[a] >= ledger[a] - Debt(a)
      /\ snapshot # None => snapshot[a] >= ledger[a] - Debt(a)
  BY DEF NeverBelowDebt
<1>6. ledger'[a] - Debt(a)' = ledger[a] - Debt(a)
  <2>1. CASE a # b
    <3>1. \A f \in Eaters : f \in OwedOf(a)' <=> f \in OwedOf(a)
      BY <1>1, <2>1 DEF OwedOf
    <3>2. OwedOf(a)' = OwedOf(a)
      BY <3>1 DEF OwedOf
    <3>3. Debt(a)' = Debt(a) /\ ledger'[a] = ledger[a]
      BY <1>1, <1>3, <1>4, <2>1, <3>2 DEF Debt
    <3> QED BY <3>3
  <2>2. CASE a = b
    <3>1. \A f \in Eaters : f \in OwedOf(a)' <=> f \in OwedOf(a) \ {e}
      BY <1>1, <1>2 DEF OwedOf
    <3>2. OwedOf(a)' = OwedOf(a) \ {e} /\ e \in OwedOf(a)
      BY <1>1, <1>2, <2>2, <3>1 DEF OwedOf
    <3>3. Weight(bill, OwedOf(a)) = bill[e] + Weight(bill, OwedOf(a) \ {e})
          /\ Weight(bill, OwedOf(a) \ {e}) \in Nat
      <4>1. IsFiniteSet(OwedOf(a)) /\ \A f \in OwedOf(a) : bill[f] \in Nat
        BY DebtType DEF IInv
      <4> QED BY <3>2, <4>1, WeightPick
    <3>4. Debt(a)' = Weight(bill, OwedOf(a) \ {e})
      BY <1>1, <3>2 DEF Debt
    <3>5. Debt(a) = bill[e] + Debt(a)' /\ Debt(a)' \in Nat
      BY <3>3, <3>4 DEF Debt
    <3>6. ledger'[a] = ledger[a] - bill[e] /\ ledger[a] \in Int
      BY <1>1, <1>3, <1>4, <2>2
    <3> QED BY <1>3, <3>5, <3>6
  <2> QED BY <2>1, <2>2
<1> QED BY <1>1, <1>5, <1>6

LEMMA BelowStep ==
  ASSUME IInv, Finitely, EaterMoney, NeverBelowDebt, [Next]_vars
  PROVE  NeverBelowDebt'
<1>1. ASSUME NEW c \in Calls,
             \/ Setup(c) \/ AddCall(c) \/ HangUp(c) \/ RemoveCall(c) \/ RadiusStop(c)
             \/ Removed(c) \/ AccountCall(c)
      PROVE  NeverBelowDebt'
  <2>1. \A a \in Customers \cup Dealers : OwedOf(a)' = OwedOf(a)
    BY <1>1, DebtsOfCall
  <2>2. bill' = bill /\ snapshot' = snapshot /\ ledger' = ledger
    BY <1>1 DEF Setup, AddCall, HangUp, RemoveCall, RadiusStop, Removed, AccountCall, dbVars
  <2>3. ASSUME NEW a \in Customers \cup Dealers
        PROVE  /\ cost'[a] = cost[a]
               /\ a \in spools' => \/ a \in spools /\ total'[a] = total[a]
                                   \/ total'[a] = cost[a]
    <3>1. a \in Accounts /\ a \notin Cards /\ a \notin CardsOf(c)
      BY NotCards DEF CardsOf
    <3>2. Looked(CardsOf(c))[a] = cost[a] /\ LookedTotal(CardsOf(c))[a] = total[a]
          /\ Cost(a) = cost[a]
      BY <3>1 DEF Looked, LookedTotal, Cost
    <3>3. CASE Setup(c)
      BY <3>2, <3>3 DEF Setup
    <3>4. CASE AddCall(c)
      BY <3>1, <3>2, <3>4 DEF AddCall
    <3>5. CASE UNCHANGED <<cost, spools, total>>
      BY <3>5
    <3> QED BY <1>1, <3>3, <3>4, <3>5
        DEF HangUp, RemoveCall, RadiusStop, Removed, AccountCall, spoolVars, memVars
  <2> QED BY <2>1, <2>2, <2>3, BelowFrame
<1>2. ASSUME ReloadRead PROVE NeverBelowDebt'
  <2>1. /\ snapshot' = [a \in Customers \cup Dealers |-> ledger[a]]
        /\ UNCHANGED <<stage, spools, total, cost, ledger, bill, pending>>
    BY <1>2 DEF ReloadRead, callVars, spoolVars, memVars, dbVars
  <2>2. \A a : Debt(a)' = Debt(a)
    BY <2>1 DEF Debt, OwedOf
  <2>3. \A a \in Customers \cup Dealers : ledger[a] >= ledger[a] - Debt(a)
    BY DebtType, NotCards DEF IInv, MoneyTypes
  <2> QED BY <2>1, <2>2, <2>3 DEF NeverBelowDebt
<1>3. ASSUME ReloadInstall PROVE NeverBelowDebt'
  <2>1. /\ snapshot # None /\ snapshot' = None
        /\ UNCHANGED <<stage, spools, ledger, bill, pending>>
    BY <1>3 DEF ReloadInstall, callVars, dbVars
  <2>2. \A a : Debt(a)' = Debt(a)
    BY <2>1 DEF Debt, OwedOf
  <2>3. \A a \in Customers \cup Dealers :
          cost'[a] = snapshot[a] /\ (a \in spools => total'[a] = snapshot[a])
    BY <1>3, NotCards DEF ReloadInstall
  <2> QED BY <2>1, <2>2, <2>3 DEF NeverBelowDebt
<1>4. ASSUME NEW x \in Codes, ApplyCodeSql(x) \/ RefreshCards(x) PROVE NeverBelowDebt'
  <2>1. UNCHANGED <<stage, spools, bill, pending, snapshot>> /\ x[1] \in Cards /\ x[2] \in Cards
    BY <1>4, MoneyAssumption DEF ApplyCodeSql, RefreshCards, callVars, spoolVars, dbVars
  <2>2. \A a : OwedOf(a)' = OwedOf(a)
    BY <2>1 DEF OwedOf
  <2>3. \A a \in Customers \cup Dealers :
          cost'[a] = cost[a] /\ total'[a] = total[a] /\ ledger'[a] = ledger[a]
    BY <1>4, <2>1, NotCards
    DEF ApplyCodeSql, RefreshCards, IInv, MoneyTypes, memVars, spoolVars, dbVars
  <2> QED BY <2>1, <2>2, <2>3, BelowFrame
<1>5. ASSUME UNCHANGED <<stage, spools, total, cost, dbVars, snapshot>> PROVE NeverBelowDebt'
  BY <1>5 DEF NeverBelowDebt, Debt, OwedOf, dbVars
<1>6. \/ UNCHANGED <<stage, spools, total, cost, dbVars, snapshot>>
      \/ \E c \in Calls : \/ Setup(c) \/ AddCall(c) \/ HangUp(c) \/ RemoveCall(c)
                          \/ RadiusStop(c) \/ Removed(c) \/ AccountCall(c)
      \/ \E e \in Eaters : DelEater(e) \/ Report(e)
      \/ ReloadRead
      \/ ReloadInstall
      \/ \E x \in Codes : ApplyCodeSql(x) \/ RefreshCards(x)
  BY DEF Next, Second, BalanceCards, BalanceSecond, Tick, callVars, spoolVars, memVars, vars
<1> QED BY <1>1, <1>2, <1>3, <1>4, <1>5, <1>6, BelowDelEater, BelowReport

--------------------------------------------------------------------------------
(* The theorems. *)

LEMMA SumsInit == Init => SumsInv
<1> SUFFICES ASSUME Init PROVE SumsInv
  OBVIOUS
<1>1. IInv
  BY IInvInit
<1>2. OtherTypes
  BY DEF Init, OtherTypes
<1>3. Finitely
  <2>1. attached = {} /\ Billed = {}
    BY DEF Init, Billed
  <2> QED BY <2>1, FS_EmptySet DEF Finitely
<1>4. EaterMoney
  BY EaterParts DEF Init, EaterMoney
<1>5. UsedIsWeight
  <2>1. \A a \in Accounts : Weight(eaterUsed, Users(a)) = 0
    <3>1. \A a : Users(a) = {}
      BY DEF Init, Users
    <3> QED BY <3>1, WeightZero
  <2> QED BY <2>1 DEF Init, UsedIsWeight
<1>6. NeverBelowDebt
  <2>1. ASSUME NEW a \in Customers \cup Dealers
        PROVE  cost[a] = ledger[a] /\ ledger[a] \in Int /\ Debt(a) = 0
    <3>1. OwedOf(a) = {}
      BY DEF Init, OwedOf
    <3>2. Debt(a) = 0
      BY <3>1, WeightZero DEF Debt
    <3> QED BY <3>2, NotCards, AccountsAssumption DEF Init
  <2>2. spools = {} /\ snapshot = None
    BY DEF Init
  <2> QED BY <2>1, <2>2 DEF NeverBelowDebt
<1> QED BY <1>1, <1>2, <1>3, <1>4, <1>5, <1>6 DEF SumsInv

LEMMA SumsStep == SumsInv /\ [Next]_vars => SumsInv'
<1> SUFFICES ASSUME SumsInv, [Next]_vars PROVE SumsInv'
  OBVIOUS
<1>1. IInv /\ OtherTypes /\ Finitely /\ EaterMoney /\ UsedIsWeight /\ NeverBelowDebt
  BY DEF SumsInv
<1>2. IInv'
  BY <1>1, IInvStep
<1>3. OtherTypes' /\ Finitely' /\ EaterMoney'
  BY <1>1, OtherTypesStep, FinitelyStep, EaterMoneyStep
<1>4. UsedIsWeight' /\ NeverBelowDebt'
  BY <1>1, <1>2, <1>3, UsedStep, BelowStep
<1> QED BY <1>2, <1>3, <1>4 DEF SumsInv

LEMMA SumsHold == Spec => []SumsInv
BY SumsInit, SumsStep, PTL DEF Spec

\* The tables of accounts, spools, eaters and bills hold what the code can put
\* there, whatever calls, reloads and codes interleave: money is an integer, a
\* bill no less than zero, and only calls that can be stopped were told to stop.
THEOREM Typed == Spec => []TypeOK
<1>1. SumsInv => TypeOK
  <2> SUFFICES ASSUME SumsInv PROVE TypeOK
    OBVIOUS
  <2>1. MoneyTypes /\ OtherTypes /\ Finitely /\ UsedIsWeight
    BY DEF SumsInv, IInv
  <2>2. \A a \in Accounts : Weight(eaterUsed, Users(a)) \in Int
    BY <2>1, UsersFinite, UnitsFinite
  <2>3. used \in [Accounts -> Int]
    BY <2>1, <2>2 DEF UsedIsWeight
  <2> QED BY <2>1, <2>3 DEF MoneyTypes, OtherTypes, TypeOK
<1> QED BY <1>1, SumsHold, PTL

\* usedMoney of every spool is the sum of what the eaters on it have used,
\* through ticks of all eaters at once, the octets of stop records, eaters that
\* come at the connect and eaters that leave: what the admission of the next
\* call subtracts from the balance is what the calls in progress have used.
THEOREM UsedIsTheSum == Spec => []UsedIsSum
<1>1. SumsInv => UsedIsSum
  BY UsedSums DEF SumsInv, IInv
<1> QED BY <1>1, SumsHold, PTL

\* The cached balance of a customer or dealer, its spool and a balance a reload
\* has read are never below what the database will show once the records of the
\* ended calls are in: a reload between delEater, accountCall and the report may
\* forget a charge, it never takes one twice.
THEOREM NobodyIsChargedTwice == Spec => []NeverBelowLedger
<1>1. SumsInv => NeverBelowLedger
  <2> SUFFICES ASSUME SumsInv PROVE NeverBelowLedger
    OBVIOUS
  <2>1. \A a : Owed(a) = Debt(a)
    BY OwedSums DEF SumsInv, IInv
  <2> QED BY <2>1 DEF SumsInv, NeverBelowDebt, NeverBelowLedger
<1> QED BY <1>1, SumsHold, PTL
================================================================================
