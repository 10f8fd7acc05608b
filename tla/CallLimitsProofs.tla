--------------------------- MODULE CallLimitsProofs ---------------------------
(***************************************************************************)
(* Theorems about CallLimits, for every population of calls, every route   *)
(* and every limit.                                                        *)
(***************************************************************************)
EXTENDS CallLimits, FiniteSetTheorems, TLAPS

-----------------------------------------------------------------------------
(* Legs as pairs.                                                          *)

\* A leg is its call and its fork.
LEMMA LegParts ==
  ASSUME NEW l \in Legs
  PROVE  l[1] \in Calls /\ l[2] \in 1 .. MaxForks /\ l = <<l[1], l[2]>>
BY DEF Legs

\* Legs 1 and 2 of a call exist.
LEMMA FirstLegs ==
  ASSUME NEW c \in Calls
  PROVE  <<c, 1>> \in Legs /\ <<c, 2>> \in Legs
BY FiniteAssumption DEF Legs

LEMMA LegsFinite == IsFiniteSet(Legs)
<1>1. IsFiniteSet(1 .. MaxForks)
  BY FiniteAssumption, FS_Interval
<1> QED BY <1>1, FiniteAssumption, FS_Product DEF Legs

-----------------------------------------------------------------------------
(* Which stages of a call, of its legs and of its inbound count go together. *)

CallStages ==
  \A c \in Calls :
    /\ Kind[c] = "callback" => pc[c] \in {"new", "callback", "ended"}
    /\ Kind[c] # "callback" => pc[c] # "callback"
    /\ inTaken[c] => /\ pc[c] \in {"failing", "proxying", "answering"}
                     /\ Source[c] \in InPeers

LegStages ==
  \A l \in Legs :
    /\ pc[l[1]] \in {"new", "accepted", "failing"} => lpc[l] = "none"
    /\ Kind[l[1]] = "callback" /\ l[2] \notin {1, 2} => lpc[l] = "none"
    /\ Kind[l[1]] # "callback" => lpc[l] \notin {"init", "failed"}

-----------------------------------------------------------------------------
(* Type correctness.                                                       *)

LEMMA LockType ==
  ASSUME NEW locks \in [Cards -> Nat], NEW a
  PROVE  Lock(locks, a) \in [Cards -> Nat]
BY DEF Lock, Lockable

LEMMA EraseLockType ==
  ASSUME NEW locks \in [Cards -> Nat], NEW a \in Cards
  PROVE  EraseLock(locks, a) \in [Cards -> Nat]
BY DEF EraseLock

LEMMA LockableType == ASSUME NEW a PROVE Lockable(a) \in BOOLEAN
BY DEF Lockable

LEMMA CallInfoFailsType ==
  ASSUME TypeOK, NEW l \in Legs, CallInfoFails(l)
  PROVE  /\ cardLocks' \in [Cards -> Nat]
         /\ lockIn' \in [Legs -> BOOLEAN]
         /\ lockOut' \in [Legs -> BOOLEAN]
<1> DEFINE s == Source[l[1]]
           once == Lock(cardLocks, s)
<1>1. once \in [Cards -> Nat] /\ Lock(once, OutCard[l]) \in [Cards -> Nat]
  BY LockType DEF TypeOK
<1>2. Lockable(s) \in BOOLEAN /\ Lockable(OutCard[l]) \in BOOLEAN
  BY LockableType
<1> QED BY <1>1, <1>2 DEF TypeOK, CallInfoFails, LocksIn, lockVars

LEMMA CallInfoFoundType ==
  ASSUME TypeOK, NEW l \in Legs, NEW copies, CallInfoFound(l, copies)
  PROVE  /\ cardLocks' \in [Cards -> Nat]
         /\ lockIn' \in [Legs -> BOOLEAN]
         /\ lockOut' \in [Legs -> BOOLEAN]
BY LockType, LockableType DEF TypeOK, CallInfoFound, LocksIn

LEMMA EraseLocksType ==
  ASSUME TypeOK, NEW l \in Legs, EraseLocks(l)
  PROVE  /\ cardLocks' \in [Cards -> Nat]
         /\ lockIn' \in [Legs -> BOOLEAN]
         /\ lockOut' \in [Legs -> BOOLEAN]
<1>1. OutCard[l] # NoCard => OutCard[l] \in Cards
  BY TrafficAssumption
<1> QED BY <1>1, EraseLockType DEF TypeOK, EraseLocks

LEMMA ReleaseSlotType ==
  ASSUME TypeOK, NEW c \in Calls, ReleaseSlot(c), inTaken[c] => Source[c] \in InPeers
  PROVE  /\ callsSem' \in Int
         /\ inTaken' \in [Calls -> BOOLEAN]
         /\ inLimits' \in [InPeers -> Int]
BY DEF TypeOK, ReleaseSlot

LEMMA TakeInType ==
  ASSUME TypeOK, NEW c \in Calls, TakeIn(c)
  PROVE  /\ inTaken' \in [Calls -> BOOLEAN]
         /\ inLimits' \in [InPeers -> Int]
<1>1. CASE Source[c] \in InPeers
  <2>1. /\ inLimits' = [inLimits EXCEPT ![Source[c]] = @ + 1]
        /\ inTaken' = [inTaken EXCEPT ![c] = TRUE]
    BY <1>1 DEF TakeIn
  <2>2. inTaken \in [Calls -> BOOLEAN] /\ inLimits \in [InPeers -> Int]
    BY DEF TypeOK
  <2>3. inTaken' \in [Calls -> BOOLEAN]
    BY <2>1, <2>2
  <2>4. inLimits' \in [InPeers -> Int]
    BY <1>1, <2>1, <2>2
  <2> QED BY <2>3, <2>4
<1>2. CASE Source[c] \notin InPeers
  BY <1>2 DEF TypeOK, TakeIn
<1> QED BY <1>1, <1>2

LEMMA StartLegsType ==
  ASSUME TypeOK, NEW starting, NEW route \in Routes, StartLegs(starting, route)
  PROVE  /\ lpc' \in [Legs -> LegPCs]
         /\ rest' \in [Legs -> SUBSET Choices]
BY TrafficAssumption DEF TypeOK, StartLegs, LegPCs

LEMMA TakeGwType ==
  ASSUME TypeOK, NEW l \in Legs, NEW ch, TakeGw(l, ch)
  PROVE  gwSem' \in Int /\ gwTaken' \in [Legs -> BOOLEAN]
<1>1. CASE NeedsGw(l, ch)
  <2>1. gwSem' = gwSem - 1 /\ gwTaken' = [gwTaken EXCEPT ![l] = TRUE]
    BY <1>1 DEF TakeGw
  <2> QED BY <2>1 DEF TypeOK
<1>2. CASE ~NeedsGw(l, ch)
  BY <1>2 DEF TypeOK, TakeGw, gwVars
<1> QED BY <1>1, <1>2

LEMMA CountRouteType ==
  ASSUME TypeOK, NEW l \in Legs, NEW p \in OutPeers, NEW d \in Int, CountRoute(l, p, d)
  PROVE  /\ outLimits' \in [OutPeers -> Int]
         /\ inOutLimits' \in [InPeers -> [OutPeers -> Int]]
BY DEF TypeOK, CountRoute

LEMMA CallBackStopType ==
  ASSUME TypeOK, NEW l \in Legs, CallBackStop(l)
  PROVE  pc' \in [Calls -> CallPCs] /\ gwSem' \in Int
<1> DEFINE last == \A k \in {l[1]} \X {1, 2} : k = l \/ Finished(k)
<1>1. CASE last
  BY <1>1, LegParts DEF CallBackStop, TypeOK, CallPCs
<1>2. CASE ~last
  BY <1>2 DEF CallBackStop, TypeOK
<1> QED BY <1>1, <1>2

LEMMA TypeInit == Init => TypeOK
<1> SUFFICES ASSUME Init PROVE TypeOK
  OBVIOUS
<1>1. /\ pc \in [Calls -> CallPCs]
      /\ lpc \in [Legs -> LegPCs]
      /\ rest \in [Legs -> SUBSET Choices]
      /\ cur \in [Legs -> Choices]
  BY DEF Init, CallPCs, LegPCs, Choices
<1>2. /\ inTaken \in [Calls -> BOOLEAN]
      /\ lockIn \in [Legs -> BOOLEAN]
      /\ lockOut \in [Legs -> BOOLEAN]
      /\ gwTaken \in [Legs -> BOOLEAN]
      /\ shutting \in BOOLEAN
      /\ drained \in BOOLEAN
  BY DEF Init
<1>3. /\ callsSem \in Int
      /\ gwSem \in Int
      /\ inLimits \in [InPeers -> Int]
      /\ outLimits \in [OutPeers -> Int]
      /\ inOutLimits \in [InPeers -> [OutPeers -> Int]]
      /\ cardLocks \in [Cards -> Nat]
  BY LimitsAssumption DEF Init
<1> QED BY <1>1, <1>2, <1>3 DEF TypeOK

LEMMA TypeStep == TypeOK /\ CallStages /\ [Next]_vars => TypeOK'
<1> SUFFICES ASSUME TypeOK, CallStages, [Next]_vars PROVE TypeOK'
  OBVIOUS
<1> USE DEF threadVars, lockVars, gwVars, routeVars, stopVars
<1>1. ASSUME NEW c \in Calls, TryTake(c) PROVE TypeOK'
  BY <1>1 DEF TryTake, TypeOK, CallPCs
<1>2. ASSUME NEW c \in Calls, NEW par \in BOOLEAN, SmsCall(c, par) PROVE TypeOK'
  <2>1. pc' \in [Calls -> CallPCs]
    BY <1>2 DEF SmsCall, TypeOK, CallPCs
  <2>2. lpc' \in [Legs -> LegPCs]
    BY <1>2, FirstLegs DEF SmsCall, TypeOK, LegPCs
  <2>3. callsSem' \in Int /\ gwSem' \in Int
    BY <1>2 DEF SmsCall, TypeOK
  <2>4. UNCHANGED <<rest, cur, inTaken, lockVars, gwTaken, routeVars, stopVars, inLimits>>
    BY <1>2 DEF SmsCall
  <2> QED BY <2>1, <2>2, <2>3, <2>4 DEF TypeOK
<1>3. ASSUME NEW c \in Calls, RejectCall(c) PROVE TypeOK'
  BY <1>3, FirstLegs, CallInfoFailsType DEF RejectCall, TypeOK, CallPCs
<1>4. ASSUME NEW c \in Calls, DropRoutedCall(c) PROVE TypeOK'
  BY <1>4, FirstLegs, CallInfoFoundType, TakeInType DEF DropRoutedCall, TypeOK, CallPCs
<1>5. ASSUME NEW c \in Calls, ProxyCall(c) PROVE TypeOK'
  BY <1>5, FirstLegs, CallInfoFoundType, TakeInType, StartLegsType
  DEF ProxyCall, TypeOK, CallPCs
<1>6. ASSUME NEW c \in Calls, AnswerCall(c) PROVE TypeOK'
  BY <1>6, FirstLegs, CallInfoFoundType, TakeInType, StartLegsType
  DEF AnswerCall, TypeOK, CallPCs
<1>7. ASSUME NEW c \in Calls, ProxyEnds(c) PROVE TypeOK'
  BY <1>7, FirstLegs, ReleaseSlotType DEF ProxyEnds, TypeOK, CallPCs, LegPCs, CallStages
<1>8. ASSUME NEW c \in Calls, RefusedCallEnds(c) PROVE TypeOK'
  BY <1>8, FirstLegs, ReleaseSlotType, EraseLocksType
  DEF RefusedCallEnds, TypeOK, CallPCs, CallStages
<1>9. ASSUME NEW c \in Calls, AnswerLegEnds(c) PROVE TypeOK'
  BY <1>9, ReleaseSlotType DEF AnswerLegEnds, TypeOK, CallPCs, CallStages
<1>10. ASSUME NEW l \in Legs, NEW ch \in Choices, ChoiceLacksGw(l, ch) PROVE TypeOK'
  BY <1>10 DEF ChoiceLacksGw, NextChoice, TypeOK
<1>11. ASSUME NEW l \in Legs, NEW ch \in Choices, ChoiceRefused(l, ch) PROVE TypeOK'
  BY <1>11, TakeGwType DEF ChoiceRefused, NextChoice, TypeOK
<1>12. ASSUME NEW l \in Legs, NEW ch \in Choices, TakeChoice(l, ch) PROVE TypeOK'
  <2>1. /\ outLimits' \in [OutPeers -> Int]
        /\ inOutLimits' \in [InPeers -> [OutPeers -> Int]]
    BY <1>12, CountRouteType DEF TakeChoice, TypeOK, Choices
  <2> QED BY <1>12, <2>1, TakeGwType DEF TakeChoice, NextChoice, TypeOK, LegPCs
<1>13. ASSUME NEW l \in Legs, Connect(l) PROVE TypeOK'
  BY <1>13 DEF Connect, TypeOK, LegPCs
<1>14. ASSUME NEW l \in Legs, NEW next \in {"hunting", "quitting"}, CloseChoice(l, next)
       PROVE  TypeOK'
  <2>1. /\ outLimits' \in [OutPeers -> Int]
        /\ inOutLimits' \in [InPeers -> [OutPeers -> Int]]
    BY <1>14, CountRouteType DEF CloseChoice, TypeOK, Choices
  <2> QED BY <1>14, <2>1 DEF CloseChoice, TypeOK, LegPCs, Choices
<1>15. ASSUME NEW l \in Legs, RemoveCall(l) PROVE TypeOK'
  BY <1>15, EraseLocksType DEF RemoveCall, TypeOK, LegPCs
<1>16. ASSUME NEW l \in Legs, LegEnds(l) PROVE TypeOK'
  BY <1>16 DEF LegEnds, TypeOK, LegPCs
<1>17. ASSUME NEW l \in Legs, CallBackInit(l) PROVE TypeOK'
  BY <1>17, CallInfoFoundType, StartLegsType DEF CallBackInit, TypeOK
<1>18. ASSUME NEW l \in Legs, CallBackInitFails(l) PROVE TypeOK'
  BY <1>18, CallInfoFailsType, CallBackStopType DEF CallBackInitFails, TypeOK, LegPCs
<1>19. ASSUME NEW l \in Legs, CallBackLegEnds(l) PROVE TypeOK'
  BY <1>19, ReleaseSlotType, CallBackStopType, LegParts
  DEF CallBackLegEnds, TypeOK, LegPCs, CallStages
<1>20. ASSUME SetShuttingDown PROVE TypeOK'
  BY <1>20 DEF SetShuttingDown, TypeOK
<1>21. ASSUME WaitForSignallingChannels PROVE TypeOK'
  BY <1>21 DEF WaitForSignallingChannels, TypeOK
<1>22. ASSUME UNCHANGED vars PROVE TypeOK'
  BY <1>22 DEF vars, TypeOK
<1> QED
  BY <1>1, <1>2, <1>3, <1>4, <1>5, <1>6, <1>7, <1>8, <1>9, <1>10, <1>11, <1>12, <1>13,
     <1>14, <1>15, <1>16, <1>17, <1>18, <1>19, <1>20, <1>21, <1>22
  DEF Next, CallNext, LegNext, Terminated

-----------------------------------------------------------------------------
(* The stages are invariant.                                               *)

LEMMA StagesInit == Init => CallStages /\ LegStages
BY LegParts DEF Init, CallStages, LegStages

LEMMA CallStagesStep == TypeOK /\ CallStages /\ LegStages /\ [Next]_vars => CallStages'
<1> SUFFICES ASSUME TypeOK, CallStages, LegStages, [Next]_vars PROVE CallStages'
  OBVIOUS
<1> USE DEF CallStages, threadVars
<1>1. ASSUME NEW c \in Calls, TryTake(c) PROVE CallStages'
  BY <1>1 DEF TryTake, TypeOK
<1>2. ASSUME NEW c \in Calls, NEW par \in BOOLEAN, SmsCall(c, par) PROVE CallStages'
  BY <1>2 DEF SmsCall, TypeOK
<1>3. ASSUME NEW c \in Calls, RejectCall(c) PROVE CallStages'
  BY <1>3 DEF RejectCall, TypeOK
<1>4. ASSUME NEW c \in Calls, DropRoutedCall(c) PROVE CallStages'
  BY <1>4 DEF DropRoutedCall, TakeIn, TypeOK
<1>5. ASSUME NEW c \in Calls, ProxyCall(c) PROVE CallStages'
  BY <1>5 DEF ProxyCall, TakeIn, TypeOK
<1>6. ASSUME NEW c \in Calls, AnswerCall(c) PROVE CallStages'
  BY <1>6 DEF AnswerCall, TakeIn, TypeOK
<1>7. ASSUME NEW c \in Calls, ProxyEnds(c) PROVE CallStages'
  BY <1>7 DEF ProxyEnds, ReleaseSlot, TypeOK
<1>8. ASSUME NEW c \in Calls, RefusedCallEnds(c) PROVE CallStages'
  BY <1>8 DEF RefusedCallEnds, ReleaseSlot, TypeOK
<1>9. ASSUME NEW c \in Calls, AnswerLegEnds(c) PROVE CallStages'
  BY <1>9 DEF AnswerLegEnds, ReleaseSlot, TypeOK
<1>10. ASSUME NEW l \in Legs, CallBackInitFails(l) PROVE CallStages'
  <2>1. Kind[l[1]] = "callback"
    BY <1>10 DEF CallBackInitFails, LegStages
  <2>2. UNCHANGED pc \/ pc' = [pc EXCEPT ![l[1]] = "ended"]
    BY <1>10 DEF CallBackInitFails, CallBackStop
  <2>3. UNCHANGED inTaken
    BY <1>10 DEF CallBackInitFails
  <2> QED BY <2>1, <2>2, <2>3, LegParts DEF TypeOK
<1>11. ASSUME NEW l \in Legs, CallBackLegEnds(l) PROVE CallStages'
  <2>1. Kind[l[1]] = "callback"
    BY <1>11 DEF CallBackLegEnds
  <2>2. UNCHANGED pc \/ pc' = [pc EXCEPT ![l[1]] = "ended"]
    BY <1>11 DEF CallBackLegEnds, CallBackStop
  <2>3. inTaken' = [inTaken EXCEPT ![l[1]] = FALSE]
    BY <1>11 DEF CallBackLegEnds, ReleaseSlot
  <2> QED BY <2>1, <2>2, <2>3, LegParts DEF TypeOK
<1>12. ASSUME UNCHANGED <<pc, inTaken>> PROVE CallStages'
  BY <1>12
<1>13. ASSUME NEW l \in Legs, LegNext(l) PROVE CallStages'
  BY <1>10, <1>11, <1>12, <1>13
  DEF LegNext, ChoiceLacksGw, ChoiceRefused, TakeChoice, NextChoice, Connect, CloseChoice,
      RemoveCall, LegEnds, CallBackInit
<1> QED
  BY <1>1, <1>2, <1>3, <1>4, <1>5, <1>6, <1>7, <1>8, <1>9, <1>12, <1>13
  DEF Next, CallNext, Terminated, vars, SetShuttingDown, WaitForSignallingChannels

LEMMA LegStagesStep == TypeOK /\ CallStages /\ LegStages /\ [Next]_vars => LegStages'
<1> SUFFICES ASSUME TypeOK, CallStages, LegStages, [Next]_vars PROVE LegStages'
  OBVIOUS
<1> USE LegParts DEF LegStages, threadVars
<1>1. ASSUME NEW c \in Calls, TryTake(c) PROVE LegStages'
  BY <1>1 DEF TryTake, TypeOK
<1>2. ASSUME NEW c \in Calls, NEW par \in BOOLEAN, SmsCall(c, par) PROVE LegStages'
  BY <1>2, FirstLegs DEF SmsCall, TypeOK
<1>3. ASSUME NEW c \in Calls, RejectCall(c) PROVE LegStages'
  BY <1>3 DEF RejectCall, TypeOK
<1>4. ASSUME NEW c \in Calls, DropRoutedCall(c) PROVE LegStages'
  BY <1>4 DEF DropRoutedCall, TypeOK
<1>5. ASSUME NEW c \in Calls, ProxyCall(c) PROVE LegStages'
  BY <1>5, FirstLegs DEF ProxyCall, StartLegs, TypeOK
<1>6. ASSUME NEW c \in Calls, AnswerCall(c) PROVE LegStages'
  BY <1>6 DEF AnswerCall, StartLegs, TypeOK
<1>7. ASSUME NEW c \in Calls, ProxyEnds(c) PROVE LegStages'
  BY <1>7, FirstLegs DEF ProxyEnds, CallStages, TypeOK
<1>8. ASSUME NEW c \in Calls, RefusedCallEnds(c) PROVE LegStages'
  BY <1>8 DEF RefusedCallEnds, TypeOK
<1>9. ASSUME NEW c \in Calls, AnswerLegEnds(c) PROVE LegStages'
  BY <1>9 DEF AnswerLegEnds, TypeOK
<1>10. ASSUME NEW l \in Legs, NEW ch \in Choices,
              ChoiceLacksGw(l, ch) \/ ChoiceRefused(l, ch)
       PROVE  LegStages'
  BY <1>10 DEF ChoiceLacksGw, ChoiceRefused, NextChoice, TypeOK
<1>11. ASSUME NEW l \in Legs, NEW ch \in Choices, TakeChoice(l, ch) PROVE LegStages'
  BY <1>11 DEF TakeChoice, NextChoice, TypeOK
<1>12. ASSUME NEW l \in Legs, Connect(l) PROVE LegStages'
  BY <1>12 DEF Connect, TypeOK
<1>13. ASSUME NEW l \in Legs, NEW next \in {"hunting", "quitting"}, CloseChoice(l, next)
       PROVE  LegStages'
  BY <1>13 DEF CloseChoice, TypeOK
<1>14. ASSUME NEW l \in Legs, RemoveCall(l) PROVE LegStages'
  BY <1>14 DEF RemoveCall, TypeOK
<1>15. ASSUME NEW l \in Legs, LegEnds(l) PROVE LegStages'
  BY <1>15 DEF LegEnds, TypeOK
<1>16. ASSUME NEW l \in Legs, CallBackInit(l) PROVE LegStages'
  BY <1>16 DEF CallBackInit, StartLegs, TypeOK
<1>17. ASSUME NEW l \in Legs, CallBackInitFails(l) PROVE LegStages'
  BY <1>17 DEF CallBackInitFails, CallBackStop, TypeOK
<1>18. ASSUME NEW l \in Legs, CallBackLegEnds(l) PROVE LegStages'
  BY <1>18 DEF CallBackLegEnds, CallBackStop, TypeOK
<1>19. ASSUME UNCHANGED <<pc, lpc>> PROVE LegStages'
  BY <1>19
<1> QED
  BY <1>1, <1>2, <1>3, <1>4, <1>5, <1>6, <1>7, <1>8, <1>9, <1>10, <1>11, <1>12, <1>13,
     <1>14, <1>15, <1>16, <1>17, <1>18, <1>19
  DEF Next, CallNext, LegNext, Terminated, vars, SetShuttingDown, WaitForSignallingChannels

-----------------------------------------------------------------------------
(* Who enters and who leaves a counted set in one step.                    *)

LEMMA AddOne ==
  ASSUME NEW S, IsFiniteSet(S), NEW x, x \notin S
  PROVE  IsFiniteSet(S \cup {x}) /\ Cardinality(S \cup {x}) = Cardinality(S) + 1
BY FS_AddElement

LEMMA DropOne ==
  ASSUME NEW S, IsFiniteSet(S), NEW x \in S
  PROVE  IsFiniteSet(S \ {x}) /\ Cardinality(S \ {x}) = Cardinality(S) - 1
BY FS_RemoveElement

LEMMA TwoCount ==
  ASSUME NEW x, NEW y, x # y
  PROVE  Cardinality({x, y}) = 2
<1>1. IsFiniteSet({x}) /\ Cardinality({x}) = 1
  BY FS_Singleton
<1>2. {x, y} = {x} \cup {y}
  OBVIOUS
<1> QED BY <1>1, <1>2, AddOne

\* The counter moves from n to m as the set moves from S to T, and a newcomer
\* only enters below the limit, if there is one.
CountsOne(S, T, n, m, limit) ==
  \/ T = S /\ m = n
  \/ \E x \in T : /\ x \notin S /\ T = S \cup {x}
                  /\ m = n + 1 /\ (limit = 0 \/ n < limit)
  \/ \E x \in S : T = S \ {x} /\ m = n - 1

LEMMA CountsOneKeeps ==
  ASSUME NEW S, NEW T, NEW n, NEW m, NEW limit \in Nat,
         IsFiniteSet(S), n = Cardinality(S), limit # 0 => n <= limit,
         CountsOne(S, T, n, m, limit)
  PROVE  m = Cardinality(T) /\ (limit # 0 => m <= limit)
<1>1. n \in Nat
  BY FS_CardinalityType
<1>2. CASE T = S /\ m = n
  BY <1>2
<1>3. ASSUME NEW x \in T, x \notin S, T = S \cup {x}, m = n + 1, limit = 0 \/ n < limit
      PROVE  m = Cardinality(T) /\ (limit # 0 => m <= limit)
  BY <1>1, <1>3, AddOne
<1>4. ASSUME NEW x \in S, T = S \ {x}, m = n - 1
      PROVE  m = Cardinality(T) /\ (limit # 0 => m <= limit)
  BY <1>1, <1>4, DropOne
<1> QED BY <1>2, <1>3, <1>4 DEF CountsOne

-----------------------------------------------------------------------------
(* The slots of the switch.                                                *)

SlotQuiet == callsSem' = callsSem /\ SlotHolders' = SlotHolders

SlotTaken ==
  \E x, y \in Legs :
    /\ {x, y} \cap SlotHolders = {} /\ SlotHolders' = SlotHolders \cup {x, y}
    /\ callsSem >= Cardinality({x, y}) /\ callsSem' = callsSem - Cardinality({x, y})

SlotGiven ==
  \E x \in SlotHolders : SlotHolders' = SlotHolders \ {x} /\ callsSem' = callsSem + 1

\* A call that changes its stage, and no other, changes only its own slots.
LEMMA SameHolders ==
  ASSUME \A l \in Legs : HoldsSlot(l)' <=> HoldsSlot(l)
  PROVE  SlotHolders' = SlotHolders
BY DEF SlotHolders

LEMMA OneHolderLess ==
  ASSUME NEW x \in Legs, HoldsSlot(x), ~HoldsSlot(x)',
         \A l \in Legs \ {x} : HoldsSlot(l)' <=> HoldsSlot(l)
  PROVE  x \in SlotHolders /\ SlotHolders' = SlotHolders \ {x}
BY DEF SlotHolders

LEMMA SlotStep ==
  TypeOK /\ CallStages /\ LegStages /\ [Next]_vars => SlotQuiet \/ SlotTaken \/ SlotGiven
<1> DEFINE goal == SlotQuiet \/ SlotTaken \/ SlotGiven
<1> SUFFICES ASSUME TypeOK, CallStages, LegStages, [Next]_vars PROVE goal
  OBVIOUS
<1> USE LegParts DEF threadVars
<1>1. ASSUME NEW c \in Calls, TryTake(c) PROVE goal
  <2> DEFINE x == <<c, 1>>
  <2>1. x \in Legs /\ x[1] = c /\ x[2] = 1
    BY FirstLegs
  <2>2. ~HoldsSlot(x) /\ HoldsSlot(x)'
    BY <1>1, <2>1 DEF TryTake, HoldsSlot, TypeOK
  <2>3. \A l \in Legs \ {x} : HoldsSlot(l)' <=> HoldsSlot(l)
    BY <1>1, <2>1 DEF TryTake, HoldsSlot, TypeOK
  <2>4. {x, x} \cap SlotHolders = {} /\ SlotHolders' = SlotHolders \cup {x, x}
    BY <2>1, <2>2, <2>3 DEF SlotHolders
  <2>5. Cardinality({x, x}) = 1
    BY FS_Singleton
  <2>6. callsSem >= 1 /\ callsSem' = callsSem - 1
    BY <1>1 DEF TryTake, TypeOK
  <2> QED BY <2>1, <2>4, <2>5, <2>6 DEF SlotTaken
<1>2. ASSUME NEW c \in Calls, NEW par \in BOOLEAN, SmsCall(c, par) PROVE goal
  <2> DEFINE x == <<c, 1>>
             y == <<c, 2>>
  <2>1. /\ x \in Legs /\ x[1] = c /\ x[2] = 1
        /\ y \in Legs /\ y[1] = c /\ y[2] = 2
    BY FirstLegs
  <2>2. ~HoldsSlot(x) /\ ~HoldsSlot(y)
    BY <1>2, <2>1 DEF SmsCall, HoldsSlot
  <2>3. /\ lpc'[x] # "ended" /\ lpc'[y] # "ended"
        /\ pc'[c] = "callback"
        /\ \A l \in Legs \ {x, y} : lpc'[l] = lpc[l]
        /\ \A d \in Calls \ {c} : pc'[d] = pc[d]
    BY <1>2, <2>1 DEF SmsCall, TypeOK
  <2>4. HoldsSlot(x)' /\ HoldsSlot(y)'
    BY <1>2, <2>1, <2>3 DEF SmsCall, HoldsSlot
  <2>5. \A l \in Legs \ {x, y} : HoldsSlot(l)' <=> HoldsSlot(l)
    <3> SUFFICES ASSUME NEW l \in Legs \ {x, y} PROVE HoldsSlot(l)' <=> HoldsSlot(l)
      OBVIOUS
    <3>1. CASE l[1] = c
      BY <1>2, <2>1, <2>3, <3>1 DEF SmsCall, HoldsSlot
    <3>2. CASE l[1] # c
      BY <2>3, <3>2 DEF HoldsSlot
    <3> QED BY <3>1, <3>2
  <2>6. {x, y} \cap SlotHolders = {} /\ SlotHolders' = SlotHolders \cup {x, y}
    BY <2>1, <2>2, <2>4, <2>5 DEF SlotHolders
  <2>7. Cardinality({x, y}) = 2
    <3>1. x # y
      OBVIOUS
    <3> HIDE DEF x, y
    <3> QED BY <3>1, TwoCount
  <2>8. callsSem >= 2 /\ callsSem' = callsSem - 2
    BY <1>2 DEF SmsCall, TypeOK
  <2> QED BY <2>1, <2>6, <2>7, <2>8 DEF SlotTaken
<1>3. ASSUME NEW c \in Calls,
             RejectCall(c) \/ DropRoutedCall(c) \/ ProxyCall(c) \/ AnswerCall(c)
      PROVE  goal
  <2>1. \E s \in {"failing", "proxying", "answering"} : pc' = [pc EXCEPT ![c] = s]
    BY <1>3 DEF RejectCall, DropRoutedCall, ProxyCall, AnswerCall
  <2>2. pc[c] = "accepted" /\ callsSem' = callsSem
    BY <1>3 DEF RejectCall, DropRoutedCall, ProxyCall, AnswerCall
  <2>3. Kind[c] # "callback"
    BY <2>2 DEF CallStages
  <2>4. \A l \in Legs : l[1] # c => lpc'[l] = lpc[l]
    BY <1>3 DEF RejectCall, DropRoutedCall, ProxyCall, AnswerCall, StartLegs
  <2> QED BY <2>1, <2>2, <2>3, <2>4, SameHolders DEF HoldsSlot, TypeOK, SlotQuiet
<1>4. ASSUME NEW c \in Calls, ProxyEnds(c) \/ RefusedCallEnds(c) \/ AnswerLegEnds(c)
      PROVE  goal
  <2> DEFINE x == <<c, 1>>
  <2>1. x \in Legs /\ x[1] = c /\ x[2] = 1
    BY FirstLegs
  <2>2. /\ pc' = [pc EXCEPT ![c] = "ended"]
        /\ pc[c] \in {"failing", "proxying", "answering"}
        /\ callsSem' = callsSem + 1
    BY <1>4 DEF ProxyEnds, RefusedCallEnds, AnswerLegEnds, ReleaseSlot
  <2>3. Kind[c] # "callback"
    BY <2>2 DEF CallStages
  <2>4. \A l \in Legs : l[1] # c => lpc'[l] = lpc[l]
    BY <1>4, <2>1 DEF ProxyEnds, RefusedCallEnds, AnswerLegEnds, TypeOK
  <2>5. HoldsSlot(x) /\ ~HoldsSlot(x)'
    BY <2>1, <2>2, <2>3 DEF HoldsSlot, TypeOK
  <2>6. \A l \in Legs \ {x} : HoldsSlot(l)' <=> HoldsSlot(l)
    BY <2>1, <2>2, <2>3, <2>4 DEF HoldsSlot, TypeOK
  <2> QED BY <2>1, <2>2, <2>5, <2>6, OneHolderLess DEF SlotGiven
<1>5. ASSUME NEW l \in Legs, CallBackLegEnds(l) PROVE goal
  <2>1. /\ lpc' = [lpc EXCEPT ![l] = "ended"]
        /\ callsSem' = callsSem + 1
        /\ UNCHANGED pc \/ pc' = [pc EXCEPT ![l[1]] = "ended"]
    BY <1>5 DEF CallBackLegEnds, CallBackStop, ReleaseSlot
  <2>2. Kind[l[1]] = "callback" /\ pc[l[1]] # "new" /\ lpc[l] = "removed" /\ l[2] \in {1, 2}
    BY <1>5 DEF CallBackLegEnds, LegStages
  <2>3. HoldsSlot(l) /\ ~HoldsSlot(l)'
    BY <2>1, <2>2 DEF HoldsSlot, TypeOK, CallStages
  <2>4. \A k \in Legs \ {l} : HoldsSlot(k)' <=> HoldsSlot(k)
    BY <2>1, <2>2 DEF HoldsSlot, TypeOK, CallStages
  <2> QED BY <2>1, <2>3, <2>4, OneHolderLess DEF SlotGiven
<1>6. ASSUME NEW l \in Legs, CallBackInitFails(l) PROVE goal
  <2>1. /\ lpc' = [lpc EXCEPT ![l] = "failed"]
        /\ callsSem' = callsSem
        /\ UNCHANGED pc \/ pc' = [pc EXCEPT ![l[1]] = "ended"]
    BY <1>6 DEF CallBackInitFails, CallBackStop
  <2>2. Kind[l[1]] = "callback" /\ pc[l[1]] # "new" /\ lpc[l] = "init"
    BY <1>6 DEF CallBackInitFails, LegStages
  <2>3. pc[l[1]] \in {"callback", "ended"}
    BY <2>2 DEF CallStages
  <2> QED BY <2>1, <2>2, <2>3, SameHolders DEF HoldsSlot, TypeOK, SlotQuiet
<1>7. ASSUME UNCHANGED <<pc, callsSem>>,
             \A l \in Legs : \/ lpc[l] # "ended" /\ lpc'[l] # "ended"
                             \/ Kind[l[1]] # "callback"
                             \/ lpc'[l] = lpc[l]
      PROVE  goal
  BY <1>7, SameHolders DEF HoldsSlot, SlotQuiet
<1>8. ASSUME NEW l \in Legs, NEW ch \in Choices,
             ChoiceLacksGw(l, ch) \/ ChoiceRefused(l, ch) \/ TakeChoice(l, ch)
      PROVE  goal
  BY <1>7, <1>8 DEF ChoiceLacksGw, ChoiceRefused, TakeChoice, NextChoice, TypeOK
<1>9. ASSUME NEW l \in Legs, Connect(l) PROVE goal
  BY <1>7, <1>9 DEF Connect, TypeOK
<1>10. ASSUME NEW l \in Legs, NEW next \in {"hunting", "quitting"}, CloseChoice(l, next)
       PROVE  goal
  BY <1>7, <1>10 DEF CloseChoice, TypeOK
<1>11. ASSUME NEW l \in Legs, RemoveCall(l) \/ LegEnds(l) PROVE goal
  BY <1>7, <1>11 DEF RemoveCall, LegEnds, TypeOK
<1>12. ASSUME NEW l \in Legs, CallBackInit(l) PROVE goal
  BY <1>7, <1>12 DEF CallBackInit, StartLegs, TypeOK
<1>13. ASSUME UNCHANGED <<pc, lpc, callsSem>> PROVE goal
  BY <1>7, <1>13
<1> QED
  BY <1>1, <1>2, <1>3, <1>4, <1>5, <1>6, <1>8, <1>9, <1>10, <1>11, <1>12, <1>13
  DEF Next, CallNext, LegNext, Terminated, vars, SetShuttingDown, WaitForSignallingChannels

-----------------------------------------------------------------------------
(* The counts of the inbound peers.                                        *)

InCounted(i) == CountsOne(InHolders(i), InHolders(i)', inLimits[i], inLimits'[i], InLimit[i])

LEMMA InStep ==
  TypeOK /\ CallStages /\ [Next]_vars => \A i \in InPeers : InCounted(i)
<1> SUFFICES ASSUME TypeOK, CallStages, [Next]_vars, NEW i \in InPeers PROVE InCounted(i)
  OBVIOUS
<1> USE DEF InHolders, CountsOne, InCounted, threadVars
<1>1. ASSUME UNCHANGED <<inTaken, inLimits>> PROVE InCounted(i)
  BY <1>1
<1>2. ASSUME NEW c \in Calls, pc[c] = "accepted", ~InPeerFull(Source[c]), TakeIn(c)
      PROVE  InCounted(i)
  <2>1. CASE Source[c] \in InPeers
    <3>1. /\ inLimits' = [inLimits EXCEPT ![Source[c]] = @ + 1]
          /\ inTaken' = [inTaken EXCEPT ![c] = TRUE]
      BY <1>2, <2>1 DEF TakeIn
    <3> InLimit[Source[c]] \in Nat /\ inLimits[Source[c]] \in Int
      BY <2>1, LimitsAssumption DEF TypeOK
    <3>4. InLimit[Source[c]] = 0 \/ inLimits[Source[c]] < InLimit[Source[c]]
      BY <1>2, <2>1 DEF InPeerFull
    <3>2. CASE Source[c] = i
      <4>1. c \notin InHolders(i) /\ InHolders(i)' = InHolders(i) \cup {c}
        BY <1>2, <3>1, <3>2 DEF CallStages, TypeOK
      <4>2. inLimits'[i] = inLimits[i] + 1 /\ (InLimit[i] = 0 \/ inLimits[i] < InLimit[i])
        BY <3>1, <3>2, <3>4 DEF TypeOK
      <4> QED BY <4>1, <4>2
    <3>3. CASE Source[c] # i
      BY <3>1, <3>3 DEF TypeOK
    <3> QED BY <3>2, <3>3
  <2>2. CASE Source[c] \notin InPeers
    BY <1>1, <1>2, <2>2 DEF TakeIn
  <2> QED BY <2>1, <2>2
<1>3. ASSUME NEW c \in Calls, ReleaseSlot(c) PROVE InCounted(i)
  <2>1. CASE inTaken[c]
    <3>1. /\ inLimits' = [inLimits EXCEPT ![Source[c]] = @ - 1]
          /\ inTaken' = [inTaken EXCEPT ![c] = FALSE]
      BY <1>3, <2>1 DEF ReleaseSlot
    <3>2. CASE Source[c] = i
      <4>1. c \in InHolders(i) /\ InHolders(i)' = InHolders(i) \ {c}
        BY <2>1, <3>1, <3>2 DEF TypeOK
      <4>2. inLimits'[i] = inLimits[i] - 1
        BY <3>1, <3>2 DEF TypeOK
      <4> QED BY <4>1, <4>2
    <3>3. CASE Source[c] # i
      BY <3>1, <3>3 DEF TypeOK
    <3> QED BY <3>2, <3>3
  <2>2. CASE ~inTaken[c]
    BY <1>3, <2>2 DEF ReleaseSlot, TypeOK
  <2> QED BY <2>1, <2>2
<1>4. ASSUME NEW c \in Calls, CallNext(c) PROVE InCounted(i)
  <2>1. <<c, 1>>[1] = c
    OBVIOUS
  <2>2. CASE DropRoutedCall(c) \/ ProxyCall(c) \/ AnswerCall(c)
    BY <1>2, <2>1, <2>2 DEF DropRoutedCall, ProxyCall, AnswerCall, CallInfoFound
  <2>3. CASE ProxyEnds(c) \/ RefusedCallEnds(c) \/ AnswerLegEnds(c)
    BY <1>3, <2>3 DEF ProxyEnds, RefusedCallEnds, AnswerLegEnds
  <2>4. CASE TryTake(c) \/ RejectCall(c) \/ \E par \in BOOLEAN : SmsCall(c, par)
    BY <1>1, <2>4 DEF TryTake, RejectCall, SmsCall
  <2> QED BY <1>4, <2>2, <2>3, <2>4 DEF CallNext
<1>5. ASSUME NEW l \in Legs, LegNext(l) PROVE InCounted(i)
  <2>1. CASE CallBackLegEnds(l)
    BY <1>3, <2>1, LegParts DEF CallBackLegEnds
  <2>2. CASE ~CallBackLegEnds(l)
    BY <1>1, <1>5, <2>2
    DEF LegNext, ChoiceLacksGw, ChoiceRefused, TakeChoice, NextChoice, Connect, CloseChoice,
        RemoveCall, LegEnds, CallBackInit, CallBackInitFails
  <2> QED BY <2>1, <2>2
<1> QED
  BY <1>1, <1>4, <1>5
  DEF Next, Terminated, vars, SetShuttingDown, WaitForSignallingChannels

-----------------------------------------------------------------------------
(* The counts of the outbound peers and of the routes.                     *)

OutCounted(p) == CountsOne(OutHolders(p), OutHolders(p)', outLimits[p], outLimits'[p], OutLimit[p])

RouteCounted(i, p) ==
  CountsOne(RouteHolders(i, p), RouteHolders(i, p)',
            inOutLimits[i][p], inOutLimits'[i][p], RouteLimit[i][p])

\* Nobody enters or leaves a choice.
OutQuiet ==
  /\ UNCHANGED routeVars
  /\ \A l \in Legs : /\ InChoice(l)' <=> InChoice(l)
                     /\ InChoice(l) => cur'[l] = cur[l]

LEMMA OutQuietSteps ==
  TypeOK /\ LegStages /\ [Next]_vars =>
    \/ OutQuiet
    \/ \E l \in Legs, ch \in Choices : TakeChoice(l, ch)
    \/ \E l \in Legs, next \in {"hunting", "quitting"} : CloseChoice(l, next)
<1> SUFFICES ASSUME TypeOK, LegStages, [Next]_vars,
                    \A l \in Legs : \A ch \in Choices : ~TakeChoice(l, ch),
                    \A l \in Legs : \A next \in {"hunting", "quitting"} : ~CloseChoice(l, next)
             PROVE  OutQuiet
  OBVIOUS
<1> USE LegParts DEF OutQuiet, InChoice, threadVars
<1>1. ASSUME UNCHANGED <<lpc, cur, routeVars>> PROVE OutQuiet
  BY <1>1
<1>2. ASSUME NEW c \in Calls, NEW par \in BOOLEAN, SmsCall(c, par) PROVE OutQuiet
  BY <1>2, FirstLegs DEF SmsCall, LegStages, TypeOK
<1>3. ASSUME NEW c \in Calls, ProxyCall(c) \/ AnswerCall(c) PROVE OutQuiet
  BY <1>3, FirstLegs DEF ProxyCall, AnswerCall, StartLegs, LegStages, TypeOK
<1>4. ASSUME NEW c \in Calls, ProxyEnds(c) PROVE OutQuiet
  BY <1>4, FirstLegs DEF ProxyEnds, TypeOK
<1>5. ASSUME NEW c \in Calls, CallNext(c) PROVE OutQuiet
  BY <1>1, <1>2, <1>3, <1>4, <1>5
  DEF CallNext, TryTake, RejectCall, DropRoutedCall, RefusedCallEnds, AnswerLegEnds
<1>6. ASSUME NEW l \in Legs, Connect(l) PROVE OutQuiet
  BY <1>6 DEF Connect, TypeOK
<1>7. ASSUME NEW l \in Legs, RemoveCall(l) \/ LegEnds(l) PROVE OutQuiet
  BY <1>7 DEF RemoveCall, LegEnds, TypeOK
<1>8. ASSUME NEW l \in Legs, CallBackInit(l) PROVE OutQuiet
  BY <1>8 DEF CallBackInit, StartLegs, TypeOK
<1>9. ASSUME NEW l \in Legs, CallBackInitFails(l) \/ CallBackLegEnds(l) PROVE OutQuiet
  BY <1>9 DEF CallBackInitFails, CallBackLegEnds, TypeOK
<1>10. ASSUME NEW l \in Legs, LegNext(l) PROVE OutQuiet
  BY <1>1, <1>6, <1>7, <1>8, <1>9, <1>10
  DEF LegNext, ChoiceLacksGw, ChoiceRefused, NextChoice
<1> QED
  BY <1>1, <1>5, <1>10
  DEF Next, Terminated, vars, SetShuttingDown, WaitForSignallingChannels

LEMMA OutQuietCounts ==
  ASSUME OutQuiet, NEW p \in OutPeers
  PROVE  OutCounted(p) /\ \A i \in InPeers : RouteCounted(i, p)
<1>1. OutHolders(p)' = OutHolders(p)
  <2>1. ASSUME NEW l \in Legs
        PROVE  (InChoice(l)' /\ cur'[l] = p) <=> (InChoice(l) /\ cur[l] = p)
    <3>1. InChoice(l)' <=> InChoice(l)
      BY DEF OutQuiet
    <3>2. InChoice(l) => cur'[l] = cur[l]
      BY DEF OutQuiet
    <3> QED BY <3>1, <3>2
  <2> QED BY <2>1 DEF OutHolders
<1>2. \A i \in InPeers : RouteHolders(i, p)' = RouteHolders(i, p)
  BY <1>1 DEF RouteHolders
<1> QED
  BY <1>1, <1>2 DEF OutQuiet, routeVars, OutCounted, RouteCounted, CountsOne

\* The leg that moves, its peer, and the way the counts go.
LEMMA CountRouteMoves ==
  ASSUME TypeOK, NEW l \in Legs, NEW q \in OutPeers, NEW d \in Int, CountRoute(l, q, d)
  PROVE  /\ outLimits'[q] = outLimits[q] + d
         /\ \A p \in OutPeers : p # q => outLimits'[p] = outLimits[p]
         /\ \A i \in InPeers, p \in OutPeers :
              inOutLimits'[i][p] = IF i = Source[l[1]] /\ p = q
                                   THEN inOutLimits[i][p] + d ELSE inOutLimits[i][p]
BY DEF CountRoute, TypeOK

LEMMA TakeChoiceCounts ==
  ASSUME TypeOK, NEW l \in Legs, NEW ch \in Choices, TakeChoice(l, ch), NEW p \in OutPeers
  PROVE  OutCounted(p) /\ \A i \in InPeers : RouteCounted(i, p)
<1>1. /\ ~InChoice(l) /\ InChoice(l)' /\ cur'[l] = ch
      /\ \A k \in Legs \ {l} : (InChoice(k)' <=> InChoice(k)) /\ cur'[k] = cur[k]
  BY DEF TakeChoice, NextChoice, InChoice, TypeOK
<1>2. OutHolders(p)' = IF ch = p THEN OutHolders(p) \cup {l} ELSE OutHolders(p)
  BY <1>1 DEF OutHolders, InChoice
<1>3. l \notin OutHolders(p)
  BY <1>1 DEF OutHolders
<1>4. CASE ch = p
  <2>1. ~RouteFull(l, p) /\ CountRoute(l, p, 1)
    BY <1>4, DisjointAssumption DEF TakeChoice
  <2>2. OutCounted(p)
    <3>1. outLimits'[p] = outLimits[p] + 1
      BY <2>1, CountRouteMoves
    <3>2. OutLimit[p] = 0 \/ outLimits[p] < OutLimit[p]
      <4>1. OutLimit[p] \in Nat /\ outLimits[p] \in Int
        BY LimitsAssumption DEF TypeOK
      <4> QED BY <2>1, <4>1 DEF RouteFull
    <3> QED BY <1>2, <1>3, <1>4, <3>1, <3>2 DEF OutCounted, CountsOne
  <2>3. ASSUME NEW i \in InPeers PROVE RouteCounted(i, p)
    <3>1. CASE Source[l[1]] = i
      <4>1. l \notin RouteHolders(i, p) /\ RouteHolders(i, p)' = RouteHolders(i, p) \cup {l}
        BY <1>2, <1>3, <1>4, <3>1 DEF RouteHolders
      <4>2. inOutLimits'[i][p] = inOutLimits[i][p] + 1
        BY <2>1, <3>1, CountRouteMoves
      <4>3. RouteLimit[i][p] = 0 \/ inOutLimits[i][p] < RouteLimit[i][p]
        <5>1. RouteLimit[i][p] \in Nat /\ inOutLimits[i][p] \in Int
          BY LimitsAssumption DEF TypeOK
        <5> QED BY <2>1, <3>1, <5>1 DEF RouteFull
      <4> QED BY <4>1, <4>2, <4>3 DEF RouteCounted, CountsOne
    <3>2. CASE Source[l[1]] # i
      <4>1. RouteHolders(i, p)' = RouteHolders(i, p)
        BY <1>2, <3>2 DEF RouteHolders
      <4>2. inOutLimits'[i][p] = inOutLimits[i][p]
        BY <2>1, <3>2, CountRouteMoves
      <4> QED BY <4>1, <4>2 DEF RouteCounted, CountsOne
    <3> QED BY <3>1, <3>2
  <2> QED BY <2>2, <2>3
<1>5. CASE ch # p
  <2>1. OutHolders(p)' = OutHolders(p) /\ \A i \in InPeers : RouteHolders(i, p)' = RouteHolders(i, p)
    BY <1>2, <1>5 DEF RouteHolders
  <2>2. outLimits'[p] = outLimits[p] /\ \A i \in InPeers : inOutLimits'[i][p] = inOutLimits[i][p]
    <3>1. CASE ch = CardDest
      BY <3>1 DEF TakeChoice, routeVars
    <3>2. CASE ch # CardDest
      <4>1. ch \in OutPeers /\ CountRoute(l, ch, 1)
        BY <3>2 DEF TakeChoice, Choices
      <4> QED BY <1>5, <4>1, CountRouteMoves
    <3> QED BY <3>1, <3>2
  <2> QED BY <2>1, <2>2 DEF OutCounted, RouteCounted, CountsOne
<1> QED BY <1>4, <1>5

LEMMA CloseChoiceCounts ==
  ASSUME TypeOK, NEW l \in Legs, NEW next \in {"hunting", "quitting"}, CloseChoice(l, next),
         NEW p \in OutPeers
  PROVE  OutCounted(p) /\ \A i \in InPeers : RouteCounted(i, p)
<1> DEFINE ch == cur[l]
<1>1. /\ InChoice(l) /\ ~InChoice(l)'
      /\ \A k \in Legs \ {l} : (InChoice(k)' <=> InChoice(k)) /\ cur'[k] = cur[k]
  BY DEF CloseChoice, InChoice, TypeOK
<1>2. OutHolders(p)' = IF ch = p THEN OutHolders(p) \ {l} ELSE OutHolders(p)
  BY <1>1 DEF OutHolders, InChoice
<1>3. CASE ch = p
  <2>1. CountRoute(l, p, -1)
    BY <1>3, DisjointAssumption DEF CloseChoice
  <2>2. l \in OutHolders(p)
    BY <1>1, <1>3 DEF OutHolders
  <2>3. OutCounted(p)
    <3>1. outLimits'[p] = outLimits[p] - 1
      BY <2>1, CountRouteMoves DEF TypeOK
    <3> QED BY <1>2, <1>3, <2>2, <3>1 DEF OutCounted, CountsOne
  <2>4. ASSUME NEW i \in InPeers PROVE RouteCounted(i, p)
    <3>1. CASE Source[l[1]] = i
      <4>1. l \in RouteHolders(i, p) /\ RouteHolders(i, p)' = RouteHolders(i, p) \ {l}
        BY <1>2, <1>3, <2>2, <3>1 DEF RouteHolders
      <4>2. inOutLimits'[i][p] = inOutLimits[i][p] - 1
        BY <2>1, <3>1, CountRouteMoves DEF TypeOK
      <4> QED BY <4>1, <4>2 DEF RouteCounted, CountsOne
    <3>2. CASE Source[l[1]] # i
      <4>1. RouteHolders(i, p)' = RouteHolders(i, p)
        BY <1>2, <3>2 DEF RouteHolders
      <4>2. inOutLimits'[i][p] = inOutLimits[i][p]
        BY <2>1, <3>2, CountRouteMoves
      <4> QED BY <4>1, <4>2 DEF RouteCounted, CountsOne
    <3> QED BY <3>1, <3>2
  <2> QED BY <2>3, <2>4
<1>4. CASE ch # p
  <2>1. OutHolders(p)' = OutHolders(p) /\ \A i \in InPeers : RouteHolders(i, p)' = RouteHolders(i, p)
    BY <1>2, <1>4 DEF RouteHolders
  <2>2. outLimits'[p] = outLimits[p] /\ \A i \in InPeers : inOutLimits'[i][p] = inOutLimits[i][p]
    <3>1. CASE ch = CardDest
      BY <3>1 DEF CloseChoice, routeVars
    <3>2. CASE ch # CardDest
      <4>1. ch \in OutPeers /\ CountRoute(l, ch, -1)
        BY <3>2 DEF CloseChoice, Choices, TypeOK
      <4> QED BY <1>4, <4>1, CountRouteMoves
    <3> QED BY <3>1, <3>2
  <2> QED BY <2>1, <2>2 DEF OutCounted, RouteCounted, CountsOne
<1> QED BY <1>3, <1>4

LEMMA OutStep ==
  ASSUME TypeOK, LegStages, [Next]_vars, NEW p \in OutPeers
  PROVE  OutCounted(p) /\ \A i \in InPeers : RouteCounted(i, p)
BY OutQuietSteps, OutQuietCounts, TakeChoiceCounts, CloseChoiceCounts

-----------------------------------------------------------------------------
(* The inductive invariant, and the theorems.                              *)

\* The counters themselves keep within the limits.
CountersBounded ==
  /\ callsSem >= 0
  /\ \A i \in InPeers : InLimit[i] # 0 => inLimits[i] <= InLimit[i]
  /\ \A p \in OutPeers : OutLimit[p] # 0 => outLimits[p] <= OutLimit[p]
  /\ \A i \in InPeers, p \in OutPeers :
       RouteLimit[i][p] # 0 => inOutLimits[i][p] <= RouteLimit[i][p]

IInv ==
  /\ TypeOK
  /\ CallStages
  /\ LegStages
  /\ SlotsConserved
  /\ PeersConserved
  /\ CountersBounded

LEMMA HoldersFinite ==
  /\ SlotHolders \subseteq Legs /\ IsFiniteSet(SlotHolders)
  /\ \A i : IsFiniteSet(InHolders(i))
  /\ \A p : IsFiniteSet(OutHolders(p))
  /\ \A i, p : IsFiniteSet(RouteHolders(i, p))
<1>1. SlotHolders \subseteq Legs
  BY DEF SlotHolders
<1>2. \A i : InHolders(i) \subseteq Calls
  BY DEF InHolders
<1>3. \A p : OutHolders(p) \subseteq Legs
  BY DEF OutHolders
<1>4. \A i, p : RouteHolders(i, p) \subseteq OutHolders(p)
  BY DEF RouteHolders
<1> QED BY <1>1, <1>2, <1>3, <1>4, LegsFinite, FiniteAssumption, FS_Subset

LEMMA IInvInit == Init => IInv
<1> SUFFICES ASSUME Init PROVE IInv
  OBVIOUS
<1>1. TypeOK /\ CallStages /\ LegStages
  BY TypeInit, StagesInit
<1>2. SlotHolders = {}
  BY LegParts DEF Init, SlotHolders, HoldsSlot
<1>3. \A i : InHolders(i) = {}
  BY DEF Init, InHolders
<1>4. \A p : OutHolders(p) = {}
  BY DEF Init, OutHolders, InChoice
<1>5. \A i, p : RouteHolders(i, p) = {}
  BY <1>4 DEF RouteHolders
<1>6. Cardinality({}) = 0
  BY FS_EmptySet
<1>7. SlotsConserved
  BY <1>2, <1>6, LimitsAssumption DEF Init, SlotsConserved
<1>8. PeersConserved
  BY <1>3, <1>4, <1>5, <1>6 DEF Init, PeersConserved
<1>9. CountersBounded
  BY LimitsAssumption DEF Init, CountersBounded
<1> QED BY <1>1, <1>7, <1>8, <1>9 DEF IInv

LEMMA SlotsStep ==
  ASSUME IInv, [Next]_vars
  PROVE  SlotsConserved' /\ callsSem' >= 0
<1>1. SlotQuiet \/ SlotTaken \/ SlotGiven
  BY SlotStep DEF IInv
<1>2. /\ callsSem = TotalCallsLimit - Cardinality(SlotHolders)
      /\ callsSem >= 0 /\ callsSem \in Int
      /\ IsFiniteSet(SlotHolders) /\ Cardinality(SlotHolders) \in Nat
      /\ TotalCallsLimit \in Nat
  BY HoldersFinite, FS_CardinalityType, LimitsAssumption
  DEF IInv, SlotsConserved, CountersBounded, TypeOK
<1>3. CASE SlotQuiet
  BY <1>2, <1>3 DEF SlotQuiet, SlotsConserved
<1>4. ASSUME NEW x \in SlotHolders, SlotHolders' = SlotHolders \ {x}, callsSem' = callsSem + 1
      PROVE  SlotsConserved' /\ callsSem' >= 0
  BY <1>2, <1>4, DropOne DEF SlotsConserved
<1>5. ASSUME NEW x, NEW y, {x, y} \cap SlotHolders = {}, SlotHolders' = SlotHolders \cup {x, y},
             callsSem >= Cardinality({x, y}), callsSem' = callsSem - Cardinality({x, y})
      PROVE  SlotsConserved' /\ callsSem' >= 0
  <2> DEFINE grown == SlotHolders \cup {x}
  <2>1. IsFiniteSet(grown) /\ Cardinality(grown) = Cardinality(SlotHolders) + 1
    BY <1>2, <1>5, AddOne
  <2>2. CASE x = y
    <3>1. Cardinality({x, y}) = 1 /\ SlotHolders' = grown
      BY <1>5, <2>2, FS_Singleton
    <3>2. Cardinality(SlotHolders') = Cardinality(SlotHolders) + 1
      BY <2>1, <3>1
    <3> QED BY <1>2, <1>5, <3>1, <3>2 DEF SlotsConserved
  <2>3. CASE x # y
    <3>1. y \notin grown /\ SlotHolders' = grown \cup {y}
      BY <1>5, <2>3
    <3>2. Cardinality(SlotHolders') = Cardinality(grown) + 1
      BY <2>1, <3>1, AddOne
    <3>3. Cardinality({x, y}) = 2
      BY <2>3, TwoCount
    <3> QED BY <1>2, <1>5, <2>1, <3>2, <3>3 DEF SlotsConserved
  <2> QED BY <2>2, <2>3
<1> QED BY <1>1, <1>3, <1>4, <1>5 DEF SlotTaken, SlotGiven

LEMMA PeersStep ==
  ASSUME IInv, [Next]_vars
  PROVE  PeersConserved' /\ (callsSem' >= 0 => CountersBounded')
<1> USE DEF IInv, PeersConserved, CountersBounded
<1>1. ASSUME NEW i \in InPeers
      PROVE  /\ inLimits'[i] = Cardinality(InHolders(i)')
             /\ InLimit[i] # 0 => inLimits'[i] <= InLimit[i]
  <2>1. InCounted(i)
    BY InStep
  <2>2. InLimit[i] \in Nat /\ IsFiniteSet(InHolders(i))
    BY LimitsAssumption, HoldersFinite
  <2> QED BY <2>1, <2>2, CountsOneKeeps DEF InCounted
<1>2. ASSUME NEW p \in OutPeers
      PROVE  /\ outLimits'[p] = Cardinality(OutHolders(p)')
             /\ OutLimit[p] # 0 => outLimits'[p] <= OutLimit[p]
  <2>1. OutCounted(p)
    BY OutStep
  <2>2. OutLimit[p] \in Nat /\ IsFiniteSet(OutHolders(p))
    BY LimitsAssumption, HoldersFinite
  <2> QED BY <2>1, <2>2, CountsOneKeeps DEF OutCounted
<1>3. ASSUME NEW i \in InPeers, NEW p \in OutPeers
      PROVE  /\ inOutLimits'[i][p] = Cardinality(RouteHolders(i, p)')
             /\ RouteLimit[i][p] # 0 => inOutLimits'[i][p] <= RouteLimit[i][p]
  <2>1. RouteCounted(i, p)
    BY OutStep
  <2>2. RouteLimit[i][p] \in Nat /\ IsFiniteSet(RouteHolders(i, p))
    BY LimitsAssumption, HoldersFinite
  <2> QED BY <2>1, <2>2, CountsOneKeeps DEF RouteCounted
<1> QED BY <1>1, <1>2, <1>3

LEMMA IInvStep == IInv /\ [Next]_vars => IInv'
BY TypeStep, CallStagesStep, LegStagesStep, SlotsStep, PeersStep DEF IInv

THEOREM Invariance == Spec => []IInv
BY IInvInit, IInvStep, PTL DEF Spec

LEMMA BoundsGiveLimits == IInv => LimitsRespected
<1> SUFFICES ASSUME IInv PROVE LimitsRespected
  OBVIOUS
<1>1. Cardinality(SlotHolders) \in Nat
  BY HoldersFinite, FS_CardinalityType
<1>2. Cardinality(SlotHolders) <= TotalCallsLimit
  BY <1>1, LimitsAssumption DEF IInv, SlotsConserved, CountersBounded
<1> QED BY <1>2 DEF IInv, PeersConserved, CountersBounded, LimitsRespected

LEMMA LimitsRespectedStep ==
  ASSUME IInv, [Next]_vars
  PROVE  LimitsRespected'
<1>1. IInv'
  BY IInvStep
<1> QED BY <1>1, BoundsGiveLimits, PTL

\* Every variable keeps its type.
THEOREM TypeCorrect == Spec => []TypeOK
BY Invariance, PTL DEF IInv

\* No path of a call gives a slot back twice or loses one unnoticed.
THEOREM SlotsAreConserved == Spec => []SlotsConserved
BY Invariance, PTL DEF IInv

\* The peers' counters count the calls and legs that are there.
THEOREM PeersAreConserved == Spec => []PeersConserved
BY Invariance, PTL DEF IInv

\* The calls and legs in progress keep within every configured limit.
THEOREM LimitsAreRespected == Spec => []LimitsRespected
BY Invariance, BoundsGiveLimits, PTL

\* The wait at shutdown returns only when nobody owns a slot.
THEOREM ShutdownWaitIsQuiet == Spec => DrainsWhenQuiet
<1>1. IInv /\ [Next]_vars => [~drained /\ drained' => SlotHolders = {}]_vars
  <2> SUFFICES ASSUME IInv, Next, ~drained, drained' PROVE SlotHolders = {}
    OBVIOUS
  <2>1. WaitForSignallingChannels
    BY DEF Next, CallNext, LegNext, TryTake, SmsCall, RejectCall, DropRoutedCall, ProxyCall,
           AnswerCall, ProxyEnds, RefusedCallEnds, AnswerLegEnds, ChoiceLacksGw, ChoiceRefused,
           TakeChoice, NextChoice, Connect, CloseChoice, RemoveCall, LegEnds, CallBackInit,
           CallBackInitFails, CallBackLegEnds, SetShuttingDown, Terminated, vars, stopVars
  <2>2. TotalCallsLimit - callsSem <= 0
    BY <2>1 DEF WaitForSignallingChannels, callsCount
  <2>3. Cardinality(SlotHolders) \in Nat /\ IsFiniteSet(SlotHolders)
    BY HoldersFinite, FS_CardinalityType
  <2>4. Cardinality(SlotHolders) = 0
    BY <2>2, <2>3, LimitsAssumption DEF IInv, SlotsConserved
  <2> QED BY <2>3, <2>4, FS_EmptySet
<1> QED BY <1>1, Invariance, PTL DEF Spec, DrainsWhenQuiet

-----------------------------------------------------------------------------
(* Refinement of the abstract pools.                                       *)

\* The pools count with the same Cardinality.
LEMMA SlotPoolCardinality == \A S : SlotPool!Cardinality(S) = Cardinality(S)
BY Zenon DEF SlotPool!Cardinality, Cardinality

LEMMA OutPoolCardinality ==
  ASSUME NEW p
  PROVE  \A S : OutPool(p)!Cardinality(S) = Cardinality(S)
BY Zenon DEF OutPool!Cardinality, Cardinality

LEMMA SlotPoolStep == IInv /\ [Next]_vars => [SlotPool!Next]_SlotHolders
<1> SUFFICES ASSUME IInv, [Next]_vars PROVE [SlotPool!Next]_SlotHolders
  OBVIOUS
<1>1. SlotQuiet \/ SlotTaken \/ SlotGiven
  BY SlotStep DEF IInv
<1>2. CASE SlotQuiet
  BY <1>2 DEF SlotQuiet
<1>3. CASE SlotGiven
  BY <1>3 DEF SlotGiven, SlotPool!Next, SlotPool!Leave
<1>4. CASE SlotTaken
  <2>1. Cardinality(SlotHolders') <= TotalCallsLimit
    BY LimitsRespectedStep DEF LimitsRespected
  <2> QED BY <1>4, <2>1, SlotPoolCardinality DEF SlotTaken, SlotPool!Next, SlotPool!Enter
<1> QED BY <1>1, <1>2, <1>3, <1>4

\* The slots of the switch implement a pool of TotalCallsLimit.
THEOREM SlotsImplementPool == Spec => ImplementsSlotPool
<1>1. Init => SlotPool!Init
  BY LegParts DEF Init, SlotPool!Init, SlotHolders, HoldsSlot
<1> QED BY <1>1, SlotPoolStep, Invariance, PTL DEF Spec, ImplementsSlotPool, SlotPool!Spec

LEMMA OutPoolStep ==
  ASSUME IInv, [Next]_vars, NEW p \in OutPeers
  PROVE  UNCHANGED OutHolders(p) \/ OutPool(p)!Next
<1>1. OutCounted(p) /\ OutHolders(p)' \subseteq Legs
  BY OutStep DEF IInv, OutHolders
<1>2. CASE OutHolders(p)' = OutHolders(p)
  BY <1>2
<1>3. ASSUME NEW x \in OutHolders(p), OutHolders(p)' = OutHolders(p) \ {x}
      PROVE  OutPool(p)!Next
  BY <1>3 DEF OutPool!Next, OutPool!Leave
<1>4. ASSUME NEW x \in OutHolders(p)', x \notin OutHolders(p),
             OutHolders(p)' = OutHolders(p) \cup {x}
      PROVE  OutPool(p)!Next
  <2>1. OutLimit[p] = 0 \/ Cardinality(OutHolders(p)') <= OutLimit[p]
    BY LimitsRespectedStep DEF LimitsRespected
  <2> QED BY <1>1, <1>4, <2>1, OutPoolCardinality DEF OutPool!Next, OutPool!Enter
<1> QED BY <1>1, <1>2, <1>3, <1>4 DEF OutCounted, CountsOne

\* The legs of each outbound peer implement a pool of that peer's limit.
THEOREM PeersImplementPools == Spec => ImplementsOutPools
<1>1. Init => \A p \in OutPeers : OutPool(p)!Init
  BY DEF Init, OutPool!Init, OutHolders, InChoice
<1>2. IInv /\ [Next]_vars =>
        [\A p \in OutPeers : UNCHANGED OutHolders(p) \/ OutPool(p)!Next]_vars
  BY OutPoolStep
<1> QED BY <1>1, <1>2, Invariance, PTL DEF Spec, ImplementsOutPools
=============================================================================
