--------------------------- MODULE AnswerCallProofs ---------------------------
(***************************************************************************)
(* Theorems about AnswerCall, for every set of forks, every route and any  *)
(* number of choices.                                                      *)
(***************************************************************************)
EXTENDS AnswerCall, FiniteSetTheorems, TLAPS

-----------------------------------------------------------------------------
(* The inductive invariant.                                                *)

\* The object knows a leg exactly until its stop(); useDelays ends with the first
\* winner.
Members ==
  /\ first <=> caller # "gone"
  /\ \A f \in present : pc[f] # "gone" <=> f \in delayed \/ f = second
  /\ second \in present \cup {NoLeg} /\ second \notin delayed
  /\ second # NoLeg => ~useDelays
  /\ deleted => ~first /\ second = NoLeg /\ delayed = {}

\* A fork that goes by an old value of useDelays is still in the map.
OldValues ==
  \A f \in present :
    pc[f] \in {"newChoice", "setDirect"} /\ saw[f] => f \in delayed

AtChoice == {"newChoice", "taking", "setDirect", "trying", "iterating", "connecting",
             "replaying", "announcing", "checking"}
Underway == {"trying", "iterating", "connecting", "announcing", "checking"}

\* What is put off is of the fork's present choice, and what is in force of the
\* winner's.
DirectKept ==
  \A f \in present :
    /\ pc[f] \in AtChoice => choice[f] > 0
    /\ pc[f] = "setDirect" /\ ~saw[f] => ~useDelays
    /\ pc[f] \in Underway /\ useDelays => putOff[f] = choice[f]
    /\ pc[f] = "connecting" /\ saw[f] => putOff[f] = choice[f]
    /\ pc[f] = "replaying" => inHand[f] = choice[f] /\ f = second
    /\ pc[f] \in Underway /\ f = second => directBy = <<f, choice[f]>>

\* The full account is written by the winner or by the last fork that ends.
Accounts ==
  /\ IF forkAccounted THEN \E f \in present : billed = {f} ELSE billed = {}
  /\ second # NoLeg /\ pc[second] = "stopping" => forkAccounted
  /\ ~forkAccounted /\ second = NoLeg =>
       \A f \in delayed : pc[f] = "stopping" => f \in accounted
  /\ (\A f \in present : pc[f] \in {"stopping", "gone"}) => forkAccounted

InLoop == {"iterating", "connecting", "replaying", "announcing", "checking"}

\* A fork that rings after its Close looks into its queue before it leaves the
\* choice.
RingsHeard ==
  \A f \in Forks :
    \/ lateRings[f] = 0
    \/ /\ lateRings[f] = 1
       /\ \/ pc[f] \in InLoop /\ closeQueued[f]
          \/ end[f] /\ pc[f] \in ForkPCs \ AtChoice

IInv ==
  /\ TypeOK /\ Members /\ OldValues /\ DirectKept /\ NobodyLeftBehind
  /\ Accounts /\ RingsHeard

\* A call has a fork.
LEMMA PresentForks == TypeOK => present \subseteq Forks /\ present # {}
BY ForkSetsAssumption DEF TypeOK

\* The types of the object, and of the legs.
ObjectTypes ==
  /\ present \in ForkSets
  /\ first \in BOOLEAN /\ second \in Forks \cup {NoLeg}
  /\ delayed \subseteq present /\ useDelays \in BOOLEAN
  /\ putOff \in [Forks -> Nat] /\ accounted \subseteq delayed
  /\ forkAccounted \in BOOLEAN
  /\ directBy \in (Forks \cup {NoLeg}) \X Nat
  /\ deleted \in BOOLEAN
  /\ billed \subseteq present

CallerTypes ==
  caller \in {"running", "stopping", "gone"} /\ callerQueue \in Seq(Messages)

ForkTypes ==
  /\ pc \in [Forks -> ForkPCs]
  /\ DOMAIN choice = Forks /\ \A f \in Forks : choice[f] \in 0 .. NumChoices[f]
  /\ saw \in [Forks -> BOOLEAN] /\ inHand \in [Forks -> Nat]
  /\ end \in [Forks -> BOOLEAN] /\ goodCall \in [Forks -> BOOLEAN]
  /\ begInited \in [Forks -> BOOLEAN] /\ isSendAddressSet \in [Forks -> BOOLEAN]
  /\ closeQueued \in [Forks -> BOOLEAN]
  /\ lateRings \in [Forks -> Nat]

LEMMA TypeParts == TypeOK <=> ObjectTypes /\ CallerTypes /\ ForkTypes
BY DEF TypeOK, ObjectTypes, CallerTypes, ForkTypes

\* A call that is not forked has one fork.
LEMMA OnlyFork ==
  ASSUME present \subseteq Forks, ~Forked, NEW f \in present, NEW g \in present
  PROVE  f = g
<1>1. IsFiniteSet(present) /\ Cardinality(present) \in Nat
  BY FiniteForks, FS_Subset, FS_CardinalityType
<1>2. SUFFICES ASSUME f # g PROVE FALSE
  OBVIOUS
<1>3. IsFiniteSet({f}) /\ Cardinality({f}) = 1
  BY FS_Singleton
<1>4. Cardinality({f} \cup {g}) = 2
  BY <1>2, <1>3, FS_AddElement
<1>5. {f} \cup {g} \subseteq present
  OBVIOUS
<1>6. Cardinality({f} \cup {g}) <= Cardinality(present)
  BY <1>1, <1>5, FS_Subset
<1> QED BY <1>1, <1>4, <1>6 DEF Forked

LEMMA IInvInit == Init => IInv
<1> SUFFICES ASSUME Init PROVE IInv
  OBVIOUS
<1>1. present \subseteq Forks /\ present # {}
  BY ForkSetsAssumption DEF Init
<1>2. \/ useDelays = TRUE /\ second = NoLeg /\ delayed = present
      \/ useDelays = FALSE /\ second \in present /\ delayed = {} /\ ~Forked
  <2>1. Forked \in BOOLEAN
    BY DEF Forked
  <2>2. CASE Forked
    BY <2>1, <2>2 DEF Init
  <2>3. CASE ~Forked
    BY <2>1, <2>3 DEF Init
  <2> QED BY <2>1, <2>2, <2>3
<1>3. TypeOK
  <2>1. ObjectTypes
    BY <1>1, <1>2 DEF Init, ObjectTypes
  <2>2. CallerTypes
    BY DEF Init, CallerTypes, Messages
  <2>3. ForkTypes
    BY NumChoicesAssumption DEF Init, ForkTypes, ForkPCs
  <2> QED BY <2>1, <2>2, <2>3, TypeParts
<1>4. Members
  <2>1. caller = "running" /\ first = TRUE /\ deleted = FALSE
    BY DEF Init
  <2>2. \A f \in present : pc[f] = "next"
    BY <1>1 DEF Init
  <2>3. CASE useDelays = TRUE /\ second = NoLeg /\ delayed = present
    BY <1>1, <2>1, <2>2, <2>3, NoLegAssumption DEF Members
  <2>4. CASE useDelays = FALSE /\ second \in present /\ delayed = {} /\ ~Forked
    <3>1. \A f \in present : f = second
      BY <1>1, <2>4, OnlyFork
    <3> QED BY <1>1, <2>1, <2>2, <2>4, <3>1, NoLegAssumption DEF Members
  <2> QED BY <1>2, <2>3, <2>4
<1>5. OldValues /\ DirectKept
  BY <1>1, <1>2 DEF Init, OldValues, DirectKept, AtChoice, Underway
<1>6. NobodyLeftBehind
  BY <1>1, NoLegAssumption DEF Init, NobodyLeftBehind
<1>7. Accounts /\ RingsHeard
  BY <1>1 DEF Init, Accounts, RingsHeard
<1> QED BY <1>3, <1>4, <1>5, <1>6, <1>7 DEF IInv

-----------------------------------------------------------------------------
(* Every step keeps each part of it.                                       *)

\* What connected() does for a fork that saw useDelays: it is too late, or it wins.
IsLate(f) ==
  /\ f \in Forks /\ pc[f] = "connecting"
  /\ pc' = [pc EXCEPT ![f] = "checking"]
  /\ UNCHANGED <<present, first, second, delayed, useDelays, putOff, accounted,
                 forkAccounted, directBy, deleted, caller, choice, saw, inHand, end,
                 closeQueued, billed, lateRings>>

IsWinner(f) ==
  /\ f \in Forks /\ pc[f] = "connecting" /\ saw[f]
  /\ pc' = [pc EXCEPT ![f] = "replaying"]
  /\ second' = f /\ useDelays' = FALSE
  /\ delayed' = delayed \ {f} /\ accounted' = accounted \ {f}
  /\ inHand' = [inHand EXCEPT ![f] = putOff[f]]
  /\ closeQueued' = [g \in Forks |-> closeQueued[g] \/ g \in delayed \ {f}]
  /\ UNCHANGED <<present, first, putOff, forkAccounted, directBy, deleted, caller,
                 choice, saw, end, billed, lateRings>>

LEMMA TooLate ==
  ASSUME TypeOK, NEW f \in present, TryToWin(f), second # NoLeg
  PROVE  IsLate(f)
BY PresentForks DEF TryToWin, GoTo, callerVars, flagVars, IsLate

LEMMA Wins ==
  ASSUME TypeOK, NEW f \in present, TryToWin(f), second = NoLeg
  PROVE  IsWinner(f)
BY PresentForks DEF TryToWin, GoTo, Win, Close, callerVars, flagVars, IsWinner

\* The types of the object, and that delayedThreads only holds forks of this call.
LEMMA ObjectTypesStep ==
  ASSUME IInv, [Next]_vars
  PROVE  ObjectTypes'
<1>1. ASSUME NEW f \in present, LeaveLoop(f) PROVE ObjectTypes'
  BY <1>1, TypeParts, PresentForks, NoLegAssumption DEF IInv, ObjectTypes,
         LeaveLoop, GoTo, Quiet, objectVars, callerVars, stepVars, flagVars
<1>2. ASSUME NEW f \in present, NextChoice(f) PROVE ObjectTypes'
  BY <1>2, TypeParts, PresentForks, NoLegAssumption DEF IInv, ObjectTypes,
         NextChoice, GoTo, Quiet, objectVars, callerVars, flagVars
<1>3. ASSUME NEW f \in present, NewChoice(f) PROVE ObjectTypes'
  BY <1>3, TypeParts, PresentForks, NoLegAssumption DEF IInv, ObjectTypes,
         NewChoice, GoTo, Quiet, callerVars, stepVars, flagVars
<1>4. ASSUME NEW f \in present, ChoiceFails(f) PROVE ObjectTypes'
  BY <1>4, TypeParts, PresentForks, NoLegAssumption DEF IInv, ObjectTypes,
         ChoiceFails, GoTo, Quiet, objectVars, callerVars, stepVars, flagVars
<1>5. ASSUME NEW f \in present, TakeChoice(f) PROVE ObjectTypes'
  BY <1>5, TypeParts, PresentForks, NoLegAssumption DEF IInv, ObjectTypes,
         TakeChoice, GoTo, Quiet, objectVars, callerVars, flagVars
<1>6. ASSUME NEW f \in present, SetDirect(f) PROVE ObjectTypes'
  BY <1>6, TypeParts, PresentForks, NoLegAssumption DEF IInv, ObjectTypes,
         ForkTypes, SetDirect, GoTo, Quiet, Direct, callerVars, stepVars,
         flagVars
<1>7. ASSUME NEW f \in present, StartRinging(f) PROVE ObjectTypes'
  BY <1>7, TypeParts, PresentForks, NoLegAssumption DEF IInv, ObjectTypes,
         StartRinging, GoTo, Quiet, objectVars, callerVars, stepVars, flagVars
<1>8. ASSUME NEW f \in present, Alerted(f) PROVE ObjectTypes'
  BY <1>8, TypeParts, PresentForks, NoLegAssumption DEF IInv, ObjectTypes,
         Alerted, GoTo, TellCaller, objectVars, stepVars
<1>9. ASSUME NEW f \in present, SetSendAddress(f) PROVE ObjectTypes'
  BY <1>9, TypeParts, PresentForks, NoLegAssumption DEF IInv, ObjectTypes,
         SetSendAddress, GoTo, Quiet, objectVars, callerVars
<1>10. ASSUME NEW f \in present, Connected(f) PROVE ObjectTypes'
  BY <1>10, TypeParts, PresentForks, NoLegAssumption DEF IInv, ObjectTypes,
         Connected, GoTo, Quiet, objectVars, callerVars
<1>11. ASSUME NEW f \in present, TryToWin(f) PROVE ObjectTypes'
  BY <1>11, TypeParts, PresentForks, NoLegAssumption DEF IInv, ObjectTypes,
         TryToWin, GoTo, Close, Win, callerVars, flagVars
<1>12. ASSUME NEW f \in present, NotDelayed(f) PROVE ObjectTypes'
  BY <1>12, TypeParts, PresentForks, NoLegAssumption DEF IInv, ObjectTypes,
         NotDelayed, GoTo, Quiet, objectVars, callerVars, stepVars, flagVars
<1>13. ASSUME NEW f \in present, ReplayDelays(f) PROVE ObjectTypes'
  <2>1. f \in Forks /\ inHand[f] \in Nat /\ ObjectTypes
    BY TypeParts, PresentForks DEF IInv, ForkTypes
  <2>2. putOff' \in [Forks -> Nat] /\ directBy' \in (Forks \cup {NoLeg}) \X Nat
    <3>1. CASE inHand[f] > 0 /\ useDelays
      <4>1. putOff' = [putOff EXCEPT ![f] = inHand[f]] /\ directBy' = directBy
        BY <1>13, <3>1 DEF ReplayDelays, Direct
      <4> QED BY <2>1, <4>1 DEF ObjectTypes
    <3>2. CASE inHand[f] > 0 /\ ~useDelays
      <4>1. putOff' = putOff /\ (directBy' = directBy \/ directBy' = <<f, inHand[f]>>)
        BY <1>13, <3>2 DEF ReplayDelays, Direct
      <4> QED BY <2>1, <4>1 DEF ObjectTypes
    <3>3. CASE ~(inHand[f] > 0)
      <4>1. putOff' = putOff /\ directBy' = directBy
        BY <1>13, <3>3 DEF ReplayDelays
      <4> QED BY <2>1, <4>1 DEF ObjectTypes
    <3> QED BY <3>1, <3>2, <3>3
  <2>3. UNCHANGED <<present, first, second, delayed, useDelays, accounted,
                    forkAccounted, deleted, billed>>
    BY <1>13 DEF ReplayDelays
  <2> QED BY <2>1, <2>2, <2>3 DEF ObjectTypes
<1>14. ASSUME NEW f \in present, Announce(f) PROVE ObjectTypes'
  BY <1>14, TypeParts, PresentForks, NoLegAssumption DEF IInv, ObjectTypes,
         Announce, GoTo, TellCaller, objectVars, stepVars, flagVars
<1>15. ASSUME NEW f \in present, Idle(f) PROVE ObjectTypes'
  BY <1>15, TypeParts, PresentForks, NoLegAssumption DEF IInv, ObjectTypes,
         Idle, GoTo, Quiet, objectVars, callerVars, stepVars, flagVars
<1>16. ASSUME NEW f \in present, CheckPeerMessages(f) PROVE ObjectTypes'
  BY <1>16, TypeParts, PresentForks, NoLegAssumption DEF IInv, ObjectTypes,
         CheckPeerMessages, GoTo, Checked, objectVars, callerVars, stepVars
<1>17. ASSUME NEW f \in present, IterationFails(f) PROVE ObjectTypes'
  BY <1>17, TypeParts, PresentForks, NoLegAssumption DEF IInv, ObjectTypes,
         IterationFails, GoTo, Checked, objectVars, callerVars, stepVars
<1>18. ASSUME NEW f \in present, TimesOut(f) PROVE ObjectTypes'
  BY <1>18, TypeParts, PresentForks, NoLegAssumption DEF IInv, ObjectTypes,
         TimesOut, GoTo, Checked, objectVars, callerVars, stepVars
<1>19. ASSUME NEW f \in present, CloseThisChoice(f) PROVE ObjectTypes'
  BY <1>19, TypeParts, PresentForks, NoLegAssumption DEF IInv, ObjectTypes,
         CloseThisChoice, GoTo, Quiet, objectVars, callerVars, stepVars,
         flagVars
<1>20. ASSUME NEW f \in present, AccountCall(f) PROVE ObjectTypes'
  BY <1>20, TypeParts, PresentForks, NoLegAssumption DEF IInv, ObjectTypes,
         AccountCall, GoTo, Quiet, FullAccount, callerVars, stepVars, flagVars
<1>21. ASSUME NEW f \in present, StopSecond(f) PROVE ObjectTypes'
  BY <1>21, TypeParts, PresentForks, NoLegAssumption DEF IInv, ObjectTypes,
         StopSecond, GoTo, TellCaller, stepVars, flagVars
<1>22. ASSUME NEW f \in present, StopFork(f) PROVE ObjectTypes'
  BY <1>22, TypeParts, PresentForks, NoLegAssumption DEF IInv, ObjectTypes,
         StopFork, GoTo, TellCaller, stepVars, flagVars
<1>23. ASSUME CallerMessage PROVE ObjectTypes'
  BY <1>23, TypeParts, PresentForks, NoLegAssumption DEF IInv, ObjectTypes,
         CallerMessage, objectVars, stepVars, flagVars
<1>24. ASSUME CallerHangsUp PROVE ObjectTypes'
  BY <1>24, TypeParts, PresentForks, NoLegAssumption DEF IInv, ObjectTypes,
         CallerHangsUp, Close, objectVars, stepVars, flagVars
<1>25. ASSUME CallerLeaves PROVE ObjectTypes'
  BY <1>25, TypeParts, PresentForks, NoLegAssumption DEF IInv, ObjectTypes,
         CallerLeaves, objectVars, stepVars, flagVars
<1>26. ASSUME StopFirst PROVE ObjectTypes'
  BY <1>26, TypeParts, PresentForks, NoLegAssumption DEF IInv, ObjectTypes,
         StopFirst, Close, stepVars, flagVars
<1>27. CASE UNCHANGED vars
  BY <1>27, TypeParts, PresentForks, NoLegAssumption DEF IInv, ObjectTypes,
         vars, objectVars, callerVars, stepVars, flagVars
<1> QED BY <1>1, <1>2, <1>3, <1>4, <1>5, <1>6, <1>7, <1>8, <1>9, <1>10, <1>11, <1>12,
   <1>13, <1>14, <1>15, <1>16, <1>17, <1>18, <1>19, <1>20, <1>21, <1>22,
   <1>23, <1>24, <1>25, <1>26, <1>27 DEF Next, Far, Own

\* The types of the forks' legs.
LEMMA ForkTypesStep ==
  ASSUME IInv, [Next]_vars
  PROVE  ForkTypes'
<1>1. ASSUME NEW f \in present, LeaveLoop(f) PROVE ForkTypes'
  BY <1>1, TypeParts, PresentForks, NumChoicesAssumption DEF IInv, ForkTypes,
         ForkPCs, LeaveLoop, GoTo, Quiet, objectVars, callerVars, stepVars,
         flagVars
<1>2. ASSUME NEW f \in present, NextChoice(f) PROVE ForkTypes'
  BY <1>2, TypeParts, PresentForks, NumChoicesAssumption DEF IInv, ForkTypes,
         ForkPCs, ObjectTypes, NextChoice, GoTo, Quiet, objectVars,
         callerVars, flagVars
<1>3. ASSUME NEW f \in present, NewChoice(f) PROVE ForkTypes'
  BY <1>3, TypeParts, PresentForks, NumChoicesAssumption DEF IInv, ForkTypes,
         ForkPCs, NewChoice, GoTo, Quiet, callerVars, stepVars, flagVars
<1>4. ASSUME NEW f \in present, ChoiceFails(f) PROVE ForkTypes'
  BY <1>4, TypeParts, PresentForks, NumChoicesAssumption DEF IInv, ForkTypes,
         ForkPCs, ChoiceFails, GoTo, Quiet, objectVars, callerVars, stepVars,
         flagVars
<1>5. ASSUME NEW f \in present, TakeChoice(f) PROVE ForkTypes'
  BY <1>5, TypeParts, PresentForks, NumChoicesAssumption DEF IInv, ForkTypes,
         ForkPCs, ObjectTypes, TakeChoice, GoTo, Quiet, objectVars,
         callerVars, flagVars
<1>6. ASSUME NEW f \in present, SetDirect(f) PROVE ForkTypes'
  BY <1>6, TypeParts, PresentForks, NumChoicesAssumption DEF IInv, ForkTypes,
         ForkPCs, SetDirect, GoTo, Quiet, Direct, callerVars, stepVars,
         flagVars
<1>7. ASSUME NEW f \in present, StartRinging(f) PROVE ForkTypes'
  BY <1>7, TypeParts, PresentForks, NumChoicesAssumption DEF IInv, ForkTypes,
         ForkPCs, StartRinging, GoTo, Quiet, objectVars, callerVars, stepVars,
         flagVars
<1>8. ASSUME NEW f \in present, Alerted(f) PROVE ForkTypes'
  BY <1>8, TypeParts, PresentForks, NumChoicesAssumption DEF IInv, ForkTypes,
         ForkPCs, Alerted, GoTo, TellCaller, objectVars, stepVars
<1>9. ASSUME NEW f \in present, SetSendAddress(f) PROVE ForkTypes'
  BY <1>9, TypeParts, PresentForks, NumChoicesAssumption DEF IInv, ForkTypes,
         ForkPCs, ObjectTypes, SetSendAddress, GoTo, Quiet, objectVars,
         callerVars
<1>10. ASSUME NEW f \in present, Connected(f) PROVE ForkTypes'
  BY <1>10, TypeParts, PresentForks, NumChoicesAssumption DEF IInv, ForkTypes,
         ForkPCs, ObjectTypes, Connected, GoTo, Quiet, objectVars, callerVars
<1>11. ASSUME NEW f \in present, TryToWin(f) PROVE ForkTypes'
  BY <1>11, TypeParts, PresentForks, NumChoicesAssumption DEF IInv, ForkTypes,
         ForkPCs, ObjectTypes, TryToWin, GoTo, Close, Win, callerVars,
         flagVars
<1>12. ASSUME NEW f \in present, NotDelayed(f) PROVE ForkTypes'
  BY <1>12, TypeParts, PresentForks, NumChoicesAssumption DEF IInv, ForkTypes,
         ForkPCs, NotDelayed, GoTo, Quiet, objectVars, callerVars, stepVars,
         flagVars
<1>13. ASSUME NEW f \in present, ReplayDelays(f) PROVE ForkTypes'
  BY <1>13, TypeParts, PresentForks, NumChoicesAssumption DEF IInv, ForkTypes,
         ForkPCs, ReplayDelays, GoTo, TellCaller, Direct, stepVars, flagVars
<1>14. ASSUME NEW f \in present, Announce(f) PROVE ForkTypes'
  BY <1>14, TypeParts, PresentForks, NumChoicesAssumption DEF IInv, ForkTypes,
         ForkPCs, Announce, GoTo, TellCaller, objectVars, stepVars, flagVars
<1>15. ASSUME NEW f \in present, Idle(f) PROVE ForkTypes'
  BY <1>15, TypeParts, PresentForks, NumChoicesAssumption DEF IInv, ForkTypes,
         ForkPCs, Idle, GoTo, Quiet, objectVars, callerVars, stepVars,
         flagVars
<1>16. ASSUME NEW f \in present, CheckPeerMessages(f) PROVE ForkTypes'
  BY <1>16, TypeParts, PresentForks, NumChoicesAssumption DEF IInv, ForkTypes,
         ForkPCs, CheckPeerMessages, GoTo, Checked, objectVars, callerVars,
         stepVars
<1>17. ASSUME NEW f \in present, IterationFails(f) PROVE ForkTypes'
  BY <1>17, TypeParts, PresentForks, NumChoicesAssumption DEF IInv, ForkTypes,
         ForkPCs, IterationFails, GoTo, Checked, objectVars, callerVars,
         stepVars
<1>18. ASSUME NEW f \in present, TimesOut(f) PROVE ForkTypes'
  BY <1>18, TypeParts, PresentForks, NumChoicesAssumption DEF IInv, ForkTypes,
         ForkPCs, TimesOut, GoTo, Checked, objectVars, callerVars, stepVars
<1>19. ASSUME NEW f \in present, CloseThisChoice(f) PROVE ForkTypes'
  BY <1>19, TypeParts, PresentForks, NumChoicesAssumption DEF IInv, ForkTypes,
         ForkPCs, CloseThisChoice, GoTo, Quiet, objectVars, callerVars,
         stepVars, flagVars
<1>20. ASSUME NEW f \in present, AccountCall(f) PROVE ForkTypes'
  BY <1>20, TypeParts, PresentForks, NumChoicesAssumption DEF IInv, ForkTypes,
         ForkPCs, AccountCall, GoTo, Quiet, FullAccount, callerVars, stepVars,
         flagVars
<1>21. ASSUME NEW f \in present, StopSecond(f) PROVE ForkTypes'
  BY <1>21, TypeParts, PresentForks, NumChoicesAssumption DEF IInv, ForkTypes,
         ForkPCs, StopSecond, GoTo, TellCaller, stepVars, flagVars
<1>22. ASSUME NEW f \in present, StopFork(f) PROVE ForkTypes'
  BY <1>22, TypeParts, PresentForks, NumChoicesAssumption DEF IInv, ForkTypes,
         ForkPCs, StopFork, GoTo, TellCaller, stepVars, flagVars
<1>23. ASSUME CallerMessage PROVE ForkTypes'
  BY <1>23, TypeParts, PresentForks, NumChoicesAssumption DEF IInv, ForkTypes,
         ForkPCs, CallerMessage, objectVars, stepVars, flagVars
<1>24. ASSUME CallerHangsUp PROVE ForkTypes'
  BY <1>24, TypeParts, PresentForks, NumChoicesAssumption DEF IInv, ForkTypes,
         ForkPCs, CallerHangsUp, Close, objectVars, stepVars, flagVars
<1>25. ASSUME CallerLeaves PROVE ForkTypes'
  BY <1>25, TypeParts, PresentForks, NumChoicesAssumption DEF IInv, ForkTypes,
         ForkPCs, CallerLeaves, objectVars, stepVars, flagVars
<1>26. ASSUME StopFirst PROVE ForkTypes'
  BY <1>26, TypeParts, PresentForks, NumChoicesAssumption DEF IInv, ForkTypes,
         ForkPCs, StopFirst, Close, stepVars, flagVars
<1>27. CASE UNCHANGED vars
  BY <1>27, TypeParts, PresentForks, NumChoicesAssumption DEF IInv, ForkTypes,
         ForkPCs, vars, objectVars, callerVars, stepVars, flagVars
<1> QED BY <1>1, <1>2, <1>3, <1>4, <1>5, <1>6, <1>7, <1>8, <1>9, <1>10, <1>11, <1>12,
   <1>13, <1>14, <1>15, <1>16, <1>17, <1>18, <1>19, <1>20, <1>21, <1>22,
   <1>23, <1>24, <1>25, <1>26, <1>27 DEF Next, Far, Own

\* Legs enter and leave the object once.
LEMMA MembersStep ==
  ASSUME IInv, [Next]_vars
  PROVE  Members'
<1>1. ASSUME NEW f \in present, LeaveLoop(f) PROVE Members'
  BY <1>1, PresentForks, NoLegAssumption DEF IInv, TypeOK, Members, LeaveLoop,
         GoTo, Quiet, objectVars, callerVars, stepVars, flagVars
<1>2. ASSUME NEW f \in present, NextChoice(f) PROVE Members'
  BY <1>2, PresentForks, NoLegAssumption DEF IInv, TypeOK, Members,
         NextChoice, GoTo, Quiet, objectVars, callerVars, flagVars
<1>3. ASSUME NEW f \in present, NewChoice(f) PROVE Members'
  BY <1>3, PresentForks, NoLegAssumption DEF IInv, TypeOK, Members, NewChoice,
         GoTo, Quiet, callerVars, stepVars, flagVars
<1>4. ASSUME NEW f \in present, ChoiceFails(f) PROVE Members'
  BY <1>4, PresentForks, NoLegAssumption DEF IInv, TypeOK, Members,
         ChoiceFails, GoTo, Quiet, objectVars, callerVars, stepVars, flagVars
<1>5. ASSUME NEW f \in present, TakeChoice(f) PROVE Members'
  BY <1>5, PresentForks, NoLegAssumption DEF IInv, TypeOK, Members,
         TakeChoice, GoTo, Quiet, objectVars, callerVars, flagVars
<1>6. ASSUME NEW f \in present, SetDirect(f) PROVE Members'
  BY <1>6, PresentForks, NoLegAssumption DEF IInv, TypeOK, Members, SetDirect,
         GoTo, Quiet, Direct, callerVars, stepVars, flagVars
<1>7. ASSUME NEW f \in present, StartRinging(f) PROVE Members'
  BY <1>7, PresentForks, NoLegAssumption DEF IInv, TypeOK, Members,
         StartRinging, GoTo, Quiet, objectVars, callerVars, stepVars, flagVars
<1>8. ASSUME NEW f \in present, Alerted(f) PROVE Members'
  BY <1>8, PresentForks, NoLegAssumption DEF IInv, TypeOK, Members, Alerted,
         GoTo, TellCaller, objectVars, stepVars
<1>9. ASSUME NEW f \in present, SetSendAddress(f) PROVE Members'
  BY <1>9, PresentForks, NoLegAssumption DEF IInv, TypeOK, Members,
         SetSendAddress, GoTo, Quiet, objectVars, callerVars
<1>10. ASSUME NEW f \in present, Connected(f) PROVE Members'
  BY <1>10, PresentForks, NoLegAssumption DEF IInv, TypeOK, Members,
         Connected, GoTo, Quiet, objectVars, callerVars
<1>11. ASSUME NEW f \in present, TryToWin(f) PROVE Members'
  <2>1. TypeOK
    BY DEF IInv
  <2>2. CASE second # NoLeg
    <3>1. IsLate(f)
      BY <1>11, <2>1, <2>2, TooLate
    <3> QED BY <2>1, <2>2, <3>1, PresentForks, NoLegAssumption DEF IInv, TypeOK,
           Members, IsLate
  <2>3. CASE second = NoLeg
    <3>1. IsWinner(f)
      BY <1>11, <2>1, <2>3, Wins
    <3> QED BY <2>1, <2>3, <3>1, PresentForks, NoLegAssumption DEF IInv, TypeOK,
           Members, IsWinner
  <2> QED BY <2>2, <2>3
<1>12. ASSUME NEW f \in present, NotDelayed(f) PROVE Members'
  BY <1>12, PresentForks, NoLegAssumption DEF IInv, TypeOK, Members,
         NotDelayed, GoTo, Quiet, objectVars, callerVars, stepVars, flagVars
<1>13. ASSUME NEW f \in present, ReplayDelays(f) PROVE Members'
  BY <1>13, PresentForks, NoLegAssumption DEF IInv, TypeOK, Members,
         ReplayDelays, GoTo, TellCaller, Direct, stepVars, flagVars
<1>14. ASSUME NEW f \in present, Announce(f) PROVE Members'
  BY <1>14, PresentForks, NoLegAssumption DEF IInv, TypeOK, Members, Announce,
         GoTo, TellCaller, objectVars, stepVars, flagVars
<1>15. ASSUME NEW f \in present, Idle(f) PROVE Members'
  BY <1>15, PresentForks, NoLegAssumption DEF IInv, TypeOK, Members, Idle,
         GoTo, Quiet, objectVars, callerVars, stepVars, flagVars
<1>16. ASSUME NEW f \in present, CheckPeerMessages(f) PROVE Members'
  BY <1>16, PresentForks, NoLegAssumption DEF IInv, TypeOK, Members,
         CheckPeerMessages, GoTo, Checked, objectVars, callerVars, stepVars
<1>17. ASSUME NEW f \in present, IterationFails(f) PROVE Members'
  BY <1>17, PresentForks, NoLegAssumption DEF IInv, TypeOK, Members,
         IterationFails, GoTo, Checked, objectVars, callerVars, stepVars
<1>18. ASSUME NEW f \in present, TimesOut(f) PROVE Members'
  BY <1>18, PresentForks, NoLegAssumption DEF IInv, TypeOK, Members, TimesOut,
         GoTo, Checked, objectVars, callerVars, stepVars
<1>19. ASSUME NEW f \in present, CloseThisChoice(f) PROVE Members'
  BY <1>19, PresentForks, NoLegAssumption DEF IInv, TypeOK, Members,
         CloseThisChoice, GoTo, Quiet, objectVars, callerVars, stepVars,
         flagVars
<1>20. ASSUME NEW f \in present, AccountCall(f) PROVE Members'
  BY <1>20, PresentForks, NoLegAssumption DEF IInv, TypeOK, Members,
         AccountCall, GoTo, Quiet, FullAccount, callerVars, stepVars, flagVars
<1>21. ASSUME NEW f \in present, StopSecond(f) PROVE Members'
  BY <1>21, PresentForks, NoLegAssumption DEF IInv, TypeOK, Members,
         StopSecond, GoTo, TellCaller, stepVars, flagVars
<1>22. ASSUME NEW f \in present, StopFork(f) PROVE Members'
  BY <1>22, PresentForks, NoLegAssumption DEF IInv, TypeOK, Members, StopFork,
         GoTo, TellCaller, stepVars, flagVars
<1>23. ASSUME CallerMessage PROVE Members'
  BY <1>23, PresentForks, NoLegAssumption DEF IInv, TypeOK, Members,
         CallerMessage, objectVars, stepVars, flagVars
<1>24. ASSUME CallerHangsUp PROVE Members'
  BY <1>24, PresentForks, NoLegAssumption DEF IInv, TypeOK, Members,
         CallerHangsUp, Close, objectVars, stepVars, flagVars
<1>25. ASSUME CallerLeaves PROVE Members'
  BY <1>25, PresentForks, NoLegAssumption DEF IInv, TypeOK, Members,
         CallerLeaves, objectVars, stepVars, flagVars
<1>26. ASSUME StopFirst PROVE Members'
  BY <1>26, PresentForks, NoLegAssumption DEF IInv, TypeOK, Members,
         StopFirst, Close, stepVars, flagVars
<1>27. CASE UNCHANGED vars
  BY <1>27, PresentForks, NoLegAssumption DEF IInv, TypeOK, Members, vars,
         objectVars, callerVars, stepVars, flagVars
<1> QED BY <1>1, <1>2, <1>3, <1>4, <1>5, <1>6, <1>7, <1>8, <1>9, <1>10, <1>11, <1>12,
   <1>13, <1>14, <1>15, <1>16, <1>17, <1>18, <1>19, <1>20, <1>21, <1>22,
   <1>23, <1>24, <1>25, <1>26, <1>27 DEF Next, Far, Own

\* Only a connecting fork leaves the map, and only its own step does it.
LEMMA OldValuesStep ==
  ASSUME IInv, [Next]_vars
  PROVE  OldValues'
<1>1. ASSUME NEW f \in present, LeaveLoop(f) PROVE OldValues'
  BY <1>1, PresentForks, NoLegAssumption DEF IInv, TypeOK, Members, OldValues,
         LeaveLoop, GoTo, Quiet, objectVars, callerVars, stepVars, flagVars
<1>2. ASSUME NEW f \in present, NextChoice(f) PROVE OldValues'
  <2>1. useDelays => f \in delayed
    BY <1>2, PresentForks, NoLegAssumption DEF IInv, TypeOK, Members, NextChoice
  <2>2. \A g \in present : g # f => pc'[g] = pc[g] /\ saw'[g] = saw[g]
    BY <1>2, PresentForks DEF IInv, TypeOK, NextChoice, GoTo
  <2>3. saw'[f] = useDelays /\ present' = present /\ delayed' = delayed
    BY <1>2, PresentForks DEF IInv, TypeOK, NextChoice, objectVars
  <2> QED BY <2>1, <2>2, <2>3 DEF IInv, OldValues
<1>3. ASSUME NEW f \in present, NewChoice(f) PROVE OldValues'
  BY <1>3, PresentForks, NoLegAssumption DEF IInv, TypeOK, Members, OldValues,
         NewChoice, GoTo, Quiet, callerVars, stepVars, flagVars
<1>4. ASSUME NEW f \in present, ChoiceFails(f) PROVE OldValues'
  BY <1>4, PresentForks, NoLegAssumption DEF IInv, TypeOK, Members, OldValues,
         ChoiceFails, GoTo, Quiet, objectVars, callerVars, stepVars, flagVars
<1>5. ASSUME NEW f \in present, TakeChoice(f) PROVE OldValues'
  <2>1. useDelays => f \in delayed
    BY <1>5, PresentForks, NoLegAssumption DEF IInv, TypeOK, Members, TakeChoice
  <2>2. \A g \in present : g # f => pc'[g] = pc[g] /\ saw'[g] = saw[g]
    BY <1>5, PresentForks DEF IInv, TypeOK, TakeChoice, GoTo
  <2>3. saw'[f] = useDelays /\ present' = present /\ delayed' = delayed
    BY <1>5, PresentForks DEF IInv, TypeOK, TakeChoice, objectVars
  <2> QED BY <2>1, <2>2, <2>3 DEF IInv, OldValues
<1>6. ASSUME NEW f \in present, SetDirect(f) PROVE OldValues'
  BY <1>6, PresentForks, NoLegAssumption DEF IInv, TypeOK, Members, OldValues,
         SetDirect, GoTo, Quiet, Direct, callerVars, stepVars, flagVars
<1>7. ASSUME NEW f \in present, StartRinging(f) PROVE OldValues'
  BY <1>7, PresentForks, NoLegAssumption DEF IInv, TypeOK, Members, OldValues,
         StartRinging, GoTo, Quiet, objectVars, callerVars, stepVars, flagVars
<1>8. ASSUME NEW f \in present, Alerted(f) PROVE OldValues'
  BY <1>8, PresentForks, NoLegAssumption DEF IInv, TypeOK, Members, OldValues,
         Alerted, GoTo, TellCaller, objectVars, stepVars
<1>9. ASSUME NEW f \in present, SetSendAddress(f) PROVE OldValues'
  BY <1>9, PresentForks, NoLegAssumption DEF IInv, TypeOK, Members, OldValues,
         SetSendAddress, GoTo, Quiet, objectVars, callerVars
<1>10. ASSUME NEW f \in present, Connected(f) PROVE OldValues'
  BY <1>10, PresentForks, NoLegAssumption DEF IInv, TypeOK, Members,
         OldValues, Connected, GoTo, Quiet, objectVars, callerVars
<1>11. ASSUME NEW f \in present, TryToWin(f) PROVE OldValues'
  <2>1. TypeOK
    BY DEF IInv
  <2>2. CASE second # NoLeg
    <3>1. IsLate(f)
      BY <1>11, <2>1, <2>2, TooLate
    <3> QED BY <2>1, <2>2, <3>1, PresentForks, NoLegAssumption DEF IInv, TypeOK,
           Members, OldValues, IsLate
  <2>3. CASE second = NoLeg
    <3>1. IsWinner(f)
      BY <1>11, <2>1, <2>3, Wins
    <3> QED BY <2>1, <2>3, <3>1, PresentForks, NoLegAssumption DEF IInv, TypeOK,
           Members, OldValues, IsWinner
  <2> QED BY <2>2, <2>3
<1>12. ASSUME NEW f \in present, NotDelayed(f) PROVE OldValues'
  BY <1>12, PresentForks, NoLegAssumption DEF IInv, TypeOK, Members,
         OldValues, NotDelayed, GoTo, Quiet, objectVars, callerVars, stepVars,
         flagVars
<1>13. ASSUME NEW f \in present, ReplayDelays(f) PROVE OldValues'
  BY <1>13, PresentForks, NoLegAssumption DEF IInv, TypeOK, Members,
         OldValues, ReplayDelays, GoTo, TellCaller, Direct, stepVars, flagVars
<1>14. ASSUME NEW f \in present, Announce(f) PROVE OldValues'
  BY <1>14, PresentForks, NoLegAssumption DEF IInv, TypeOK, Members,
         OldValues, Announce, GoTo, TellCaller, objectVars, stepVars, flagVars
<1>15. ASSUME NEW f \in present, Idle(f) PROVE OldValues'
  BY <1>15, PresentForks, NoLegAssumption DEF IInv, TypeOK, Members,
         OldValues, Idle, GoTo, Quiet, objectVars, callerVars, stepVars,
         flagVars
<1>16. ASSUME NEW f \in present, CheckPeerMessages(f) PROVE OldValues'
  BY <1>16, PresentForks, NoLegAssumption DEF IInv, TypeOK, Members,
         OldValues, CheckPeerMessages, GoTo, Checked, objectVars, callerVars,
         stepVars
<1>17. ASSUME NEW f \in present, IterationFails(f) PROVE OldValues'
  BY <1>17, PresentForks, NoLegAssumption DEF IInv, TypeOK, Members,
         OldValues, IterationFails, GoTo, Checked, objectVars, callerVars,
         stepVars
<1>18. ASSUME NEW f \in present, TimesOut(f) PROVE OldValues'
  BY <1>18, PresentForks, NoLegAssumption DEF IInv, TypeOK, Members,
         OldValues, TimesOut, GoTo, Checked, objectVars, callerVars, stepVars
<1>19. ASSUME NEW f \in present, CloseThisChoice(f) PROVE OldValues'
  BY <1>19, PresentForks, NoLegAssumption DEF IInv, TypeOK, Members,
         OldValues, CloseThisChoice, GoTo, Quiet, objectVars, callerVars,
         stepVars, flagVars
<1>20. ASSUME NEW f \in present, AccountCall(f) PROVE OldValues'
  BY <1>20, PresentForks, NoLegAssumption DEF IInv, TypeOK, Members,
         OldValues, AccountCall, GoTo, Quiet, FullAccount, callerVars,
         stepVars, flagVars
<1>21. ASSUME NEW f \in present, StopSecond(f) PROVE OldValues'
  BY <1>21, PresentForks, NoLegAssumption DEF IInv, TypeOK, Members,
         OldValues, StopSecond, GoTo, TellCaller, stepVars, flagVars
<1>22. ASSUME NEW f \in present, StopFork(f) PROVE OldValues'
  BY <1>22, PresentForks, NoLegAssumption DEF IInv, TypeOK, Members,
         OldValues, StopFork, GoTo, TellCaller, stepVars, flagVars
<1>23. ASSUME CallerMessage PROVE OldValues'
  BY <1>23, PresentForks, NoLegAssumption DEF IInv, TypeOK, Members,
         OldValues, CallerMessage, objectVars, stepVars, flagVars
<1>24. ASSUME CallerHangsUp PROVE OldValues'
  BY <1>24, PresentForks, NoLegAssumption DEF IInv, TypeOK, Members,
         OldValues, CallerHangsUp, Close, objectVars, stepVars, flagVars
<1>25. ASSUME CallerLeaves PROVE OldValues'
  BY <1>25, PresentForks, NoLegAssumption DEF IInv, TypeOK, Members,
         OldValues, CallerLeaves, objectVars, stepVars, flagVars
<1>26. ASSUME StopFirst PROVE OldValues'
  BY <1>26, PresentForks, NoLegAssumption DEF IInv, TypeOK, Members,
         OldValues, StopFirst, Close, stepVars, flagVars
<1>27. CASE UNCHANGED vars
  BY <1>27, PresentForks, NoLegAssumption DEF IInv, TypeOK, Members,
         OldValues, vars, objectVars, callerVars, stepVars, flagVars
<1> QED BY <1>1, <1>2, <1>3, <1>4, <1>5, <1>6, <1>7, <1>8, <1>9, <1>10, <1>11, <1>12,
   <1>13, <1>14, <1>15, <1>16, <1>17, <1>18, <1>19, <1>20, <1>21, <1>22,
   <1>23, <1>24, <1>25, <1>26, <1>27 DEF Next, Far, Own

\* What a fork asked for goes with its choice.
LEMMA DirectStep ==
  ASSUME IInv, [Next]_vars
  PROVE  DirectKept'
<1>1. ASSUME NEW f \in present, LeaveLoop(f) PROVE DirectKept'
  BY <1>1, PresentForks, NoLegAssumption DEF IInv, TypeOK, Members, OldValues,
         DirectKept, AtChoice, Underway, LeaveLoop, GoTo, Quiet, objectVars,
         callerVars, stepVars, flagVars
<1>2. ASSUME NEW f \in present, NextChoice(f) PROVE DirectKept'
  <2>1. choice[f] \in Nat /\ choice'[f] = choice[f] + 1 /\ pc'[f] = "newChoice"
    BY <1>2, PresentForks, NumChoicesAssumption DEF IInv, TypeOK, NextChoice, GoTo
  <2>2. \A g \in present : g # f => /\ pc'[g] = pc[g] /\ saw'[g] = saw[g]
                                   /\ choice'[g] = choice[g]
    BY <1>2, PresentForks DEF IInv, TypeOK, NextChoice, GoTo
  <2>3. UNCHANGED <<present, second, useDelays, putOff, inHand, directBy>>
    BY <1>2 DEF NextChoice, objectVars
  <2> QED BY <2>1, <2>2, <2>3 DEF IInv, DirectKept, AtChoice, Underway
<1>3. ASSUME NEW f \in present, NewChoice(f) PROVE DirectKept'
  BY <1>3, PresentForks, NoLegAssumption DEF IInv, TypeOK, Members, OldValues,
         DirectKept, AtChoice, Underway, NewChoice, GoTo, Quiet, callerVars,
         stepVars, flagVars
<1>4. ASSUME NEW f \in present, ChoiceFails(f) PROVE DirectKept'
  BY <1>4, PresentForks, NoLegAssumption DEF IInv, TypeOK, Members, OldValues,
         DirectKept, AtChoice, Underway, ChoiceFails, GoTo, Quiet, objectVars,
         callerVars, stepVars, flagVars
<1>5. ASSUME NEW f \in present, TakeChoice(f) PROVE DirectKept'
  BY <1>5, PresentForks, NoLegAssumption DEF IInv, TypeOK, Members, OldValues,
         DirectKept, AtChoice, Underway, TakeChoice, GoTo, Quiet, objectVars,
         callerVars, flagVars
<1>6. ASSUME NEW f \in present, SetDirect(f) PROVE DirectKept'
  BY <1>6, PresentForks, NoLegAssumption DEF IInv, TypeOK, Members, OldValues,
         DirectKept, AtChoice, Underway, SetDirect, GoTo, Quiet, Direct,
         callerVars, stepVars, flagVars
<1>7. ASSUME NEW f \in present, StartRinging(f) PROVE DirectKept'
  BY <1>7, PresentForks, NoLegAssumption DEF IInv, TypeOK, Members, OldValues,
         DirectKept, AtChoice, Underway, StartRinging, GoTo, Quiet,
         objectVars, callerVars, stepVars, flagVars
<1>8. ASSUME NEW f \in present, Alerted(f) PROVE DirectKept'
  BY <1>8, PresentForks, NoLegAssumption DEF IInv, TypeOK, Members, OldValues,
         DirectKept, AtChoice, Underway, Alerted, GoTo, TellCaller,
         objectVars, stepVars
<1>9. ASSUME NEW f \in present, SetSendAddress(f) PROVE DirectKept'
  BY <1>9, PresentForks, NoLegAssumption DEF IInv, TypeOK, Members, OldValues,
         DirectKept, AtChoice, Underway, SetSendAddress, GoTo, Quiet,
         objectVars, callerVars
<1>10. ASSUME NEW f \in present, Connected(f) PROVE DirectKept'
  BY <1>10, PresentForks, NoLegAssumption DEF IInv, TypeOK, Members,
         OldValues, DirectKept, AtChoice, Underway, Connected, GoTo, Quiet,
         objectVars, callerVars
<1>11. ASSUME NEW f \in present, TryToWin(f) PROVE DirectKept'
  <2>1. TypeOK
    BY DEF IInv
  <2>2. CASE second # NoLeg
    <3>1. IsLate(f)
      BY <1>11, <2>1, <2>2, TooLate
    <3> QED BY <2>1, <2>2, <3>1, PresentForks, NoLegAssumption DEF IInv, TypeOK,
           Members, OldValues, DirectKept, AtChoice, Underway, IsLate
  <2>3. CASE second = NoLeg
    <3>1. IsWinner(f)
      BY <1>11, <2>1, <2>3, Wins
    <3> QED BY <2>1, <2>3, <3>1, PresentForks, NoLegAssumption DEF IInv, TypeOK,
           Members, OldValues, DirectKept, AtChoice, Underway, IsWinner
  <2> QED BY <2>2, <2>3
<1>12. ASSUME NEW f \in present, NotDelayed(f) PROVE DirectKept'
  BY <1>12, PresentForks, NoLegAssumption DEF IInv, TypeOK, Members,
         OldValues, DirectKept, AtChoice, Underway, NotDelayed, GoTo, Quiet,
         objectVars, callerVars, stepVars, flagVars
<1>13. ASSUME NEW f \in present, ReplayDelays(f) PROVE DirectKept'
  BY <1>13, PresentForks, NoLegAssumption DEF IInv, TypeOK, Members,
         OldValues, DirectKept, AtChoice, Underway, ReplayDelays, GoTo,
         TellCaller, Direct, stepVars, flagVars
<1>14. ASSUME NEW f \in present, Announce(f) PROVE DirectKept'
  BY <1>14, PresentForks, NoLegAssumption DEF IInv, TypeOK, Members,
         OldValues, DirectKept, AtChoice, Underway, Announce, GoTo,
         TellCaller, objectVars, stepVars, flagVars
<1>15. ASSUME NEW f \in present, Idle(f) PROVE DirectKept'
  BY <1>15, PresentForks, NoLegAssumption DEF IInv, TypeOK, Members,
         OldValues, DirectKept, AtChoice, Underway, Idle, GoTo, Quiet,
         objectVars, callerVars, stepVars, flagVars
<1>16. ASSUME NEW f \in present, CheckPeerMessages(f) PROVE DirectKept'
  BY <1>16, PresentForks, NoLegAssumption DEF IInv, TypeOK, Members,
         OldValues, DirectKept, AtChoice, Underway, CheckPeerMessages, GoTo,
         Checked, objectVars, callerVars, stepVars
<1>17. ASSUME NEW f \in present, IterationFails(f) PROVE DirectKept'
  BY <1>17, PresentForks, NoLegAssumption DEF IInv, TypeOK, Members,
         OldValues, DirectKept, AtChoice, Underway, IterationFails, GoTo,
         Checked, objectVars, callerVars, stepVars
<1>18. ASSUME NEW f \in present, TimesOut(f) PROVE DirectKept'
  BY <1>18, PresentForks, NoLegAssumption DEF IInv, TypeOK, Members,
         OldValues, DirectKept, AtChoice, Underway, TimesOut, GoTo, Checked,
         objectVars, callerVars, stepVars
<1>19. ASSUME NEW f \in present, CloseThisChoice(f) PROVE DirectKept'
  BY <1>19, PresentForks, NoLegAssumption DEF IInv, TypeOK, Members,
         OldValues, DirectKept, AtChoice, Underway, CloseThisChoice, GoTo,
         Quiet, objectVars, callerVars, stepVars, flagVars
<1>20. ASSUME NEW f \in present, AccountCall(f) PROVE DirectKept'
  BY <1>20, PresentForks, NoLegAssumption DEF IInv, TypeOK, Members,
         OldValues, DirectKept, AtChoice, Underway, AccountCall, GoTo, Quiet,
         FullAccount, callerVars, stepVars, flagVars
<1>21. ASSUME NEW f \in present, StopSecond(f) PROVE DirectKept'
  BY <1>21, PresentForks, NoLegAssumption DEF IInv, TypeOK, Members,
         OldValues, DirectKept, AtChoice, Underway, StopSecond, GoTo,
         TellCaller, stepVars, flagVars
<1>22. ASSUME NEW f \in present, StopFork(f) PROVE DirectKept'
  BY <1>22, PresentForks, NoLegAssumption DEF IInv, TypeOK, Members,
         OldValues, DirectKept, AtChoice, Underway, StopFork, GoTo,
         TellCaller, stepVars, flagVars
<1>23. ASSUME CallerMessage PROVE DirectKept'
  BY <1>23, PresentForks, NoLegAssumption DEF IInv, TypeOK, Members,
         OldValues, DirectKept, AtChoice, Underway, CallerMessage, objectVars,
         stepVars, flagVars
<1>24. ASSUME CallerHangsUp PROVE DirectKept'
  BY <1>24, PresentForks, NoLegAssumption DEF IInv, TypeOK, Members,
         OldValues, DirectKept, AtChoice, Underway, CallerHangsUp, Close,
         objectVars, stepVars, flagVars
<1>25. ASSUME CallerLeaves PROVE DirectKept'
  BY <1>25, PresentForks, NoLegAssumption DEF IInv, TypeOK, Members,
         OldValues, DirectKept, AtChoice, Underway, CallerLeaves, objectVars,
         stepVars, flagVars
<1>26. ASSUME StopFirst PROVE DirectKept'
  BY <1>26, PresentForks, NoLegAssumption DEF IInv, TypeOK, Members,
         OldValues, DirectKept, AtChoice, Underway, StopFirst, Close,
         stepVars, flagVars
<1>27. CASE UNCHANGED vars
  BY <1>27, PresentForks, NoLegAssumption DEF IInv, TypeOK, Members,
         OldValues, DirectKept, AtChoice, Underway, vars, objectVars,
         callerVars, stepVars, flagVars
<1> QED BY <1>1, <1>2, <1>3, <1>4, <1>5, <1>6, <1>7, <1>8, <1>9, <1>10, <1>11, <1>12,
   <1>13, <1>14, <1>15, <1>16, <1>17, <1>18, <1>19, <1>20, <1>21, <1>22,
   <1>23, <1>24, <1>25, <1>26, <1>27 DEF Next, Far, Own

\* A fork that is told to stop stays told.
LEMMA ToldStays ==
  ASSUME IInv, [Next]_vars, NEW f \in present, Told(f)
  PROVE  Told(f)'
<1>1. ASSUME NEW g \in present, LeaveLoop(g) PROVE Told(f)'
  BY <1>1, PresentForks DEF IInv, TypeOK, Told, LoopPlaces, ForkPCs,
         LeaveLoop, GoTo, Quiet, objectVars, callerVars, stepVars, flagVars
<1>2. ASSUME NEW g \in present, NextChoice(g) PROVE Told(f)'
  BY <1>2, PresentForks DEF IInv, TypeOK, Told, LoopPlaces, ForkPCs,
         NextChoice, GoTo, Quiet, objectVars, callerVars, flagVars
<1>3. ASSUME NEW g \in present, NewChoice(g) PROVE Told(f)'
  BY <1>3, PresentForks DEF IInv, TypeOK, Told, LoopPlaces, ForkPCs,
         NewChoice, GoTo, Quiet, callerVars, stepVars, flagVars
<1>4. ASSUME NEW g \in present, ChoiceFails(g) PROVE Told(f)'
  BY <1>4, PresentForks DEF IInv, TypeOK, Told, LoopPlaces, ForkPCs,
         ChoiceFails, GoTo, Quiet, objectVars, callerVars, stepVars, flagVars
<1>5. ASSUME NEW g \in present, TakeChoice(g) PROVE Told(f)'
  BY <1>5, PresentForks DEF IInv, TypeOK, Told, LoopPlaces, ForkPCs,
         TakeChoice, GoTo, Quiet, objectVars, callerVars, flagVars
<1>6. ASSUME NEW g \in present, SetDirect(g) PROVE Told(f)'
  BY <1>6, PresentForks DEF IInv, TypeOK, Told, LoopPlaces, ForkPCs,
         SetDirect, GoTo, Quiet, Direct, callerVars, stepVars, flagVars
<1>7. ASSUME NEW g \in present, StartRinging(g) PROVE Told(f)'
  BY <1>7, PresentForks DEF IInv, TypeOK, Told, LoopPlaces, ForkPCs,
         StartRinging, GoTo, Quiet, objectVars, callerVars, stepVars, flagVars
<1>8. ASSUME NEW g \in present, Alerted(g) PROVE Told(f)'
  BY <1>8, PresentForks DEF IInv, TypeOK, Told, LoopPlaces, ForkPCs, Alerted,
         GoTo, TellCaller, objectVars, stepVars
<1>9. ASSUME NEW g \in present, SetSendAddress(g) PROVE Told(f)'
  BY <1>9, PresentForks DEF IInv, TypeOK, Told, LoopPlaces, ForkPCs,
         SetSendAddress, GoTo, Quiet, objectVars, callerVars
<1>10. ASSUME NEW g \in present, Connected(g) PROVE Told(f)'
  BY <1>10, PresentForks DEF IInv, TypeOK, Told, LoopPlaces, ForkPCs,
         Connected, GoTo, Quiet, objectVars, callerVars
<1>11. ASSUME NEW g \in present, TryToWin(g) PROVE Told(f)'
  BY <1>11, PresentForks DEF IInv, TypeOK, Told, LoopPlaces, ForkPCs,
         TryToWin, GoTo, Close, Win, callerVars, flagVars
<1>12. ASSUME NEW g \in present, NotDelayed(g) PROVE Told(f)'
  BY <1>12, PresentForks DEF IInv, TypeOK, Told, LoopPlaces, ForkPCs,
         NotDelayed, GoTo, Quiet, objectVars, callerVars, stepVars, flagVars
<1>13. ASSUME NEW g \in present, ReplayDelays(g) PROVE Told(f)'
  BY <1>13, PresentForks DEF IInv, TypeOK, Told, LoopPlaces, ForkPCs,
         ReplayDelays, GoTo, TellCaller, Direct, stepVars, flagVars
<1>14. ASSUME NEW g \in present, Announce(g) PROVE Told(f)'
  BY <1>14, PresentForks DEF IInv, TypeOK, Told, LoopPlaces, ForkPCs,
         Announce, GoTo, TellCaller, objectVars, stepVars, flagVars
<1>15. ASSUME NEW g \in present, Idle(g) PROVE Told(f)'
  BY <1>15, PresentForks DEF IInv, TypeOK, Told, LoopPlaces, ForkPCs, Idle,
         GoTo, Quiet, objectVars, callerVars, stepVars, flagVars
<1>16. ASSUME NEW g \in present, CheckPeerMessages(g) PROVE Told(f)'
  BY <1>16, PresentForks DEF IInv, TypeOK, Told, LoopPlaces, ForkPCs,
         CheckPeerMessages, GoTo, Checked, objectVars, callerVars, stepVars
<1>17. ASSUME NEW g \in present, IterationFails(g) PROVE Told(f)'
  BY <1>17, PresentForks DEF IInv, TypeOK, Told, LoopPlaces, ForkPCs,
         IterationFails, GoTo, Checked, objectVars, callerVars, stepVars
<1>18. ASSUME NEW g \in present, TimesOut(g) PROVE Told(f)'
  BY <1>18, PresentForks DEF IInv, TypeOK, Told, LoopPlaces, ForkPCs,
         TimesOut, GoTo, Checked, objectVars, callerVars, stepVars
<1>19. ASSUME NEW g \in present, CloseThisChoice(g) PROVE Told(f)'
  BY <1>19, PresentForks DEF IInv, TypeOK, Told, LoopPlaces, ForkPCs,
         CloseThisChoice, GoTo, Quiet, objectVars, callerVars, stepVars,
         flagVars
<1>20. ASSUME NEW g \in present, AccountCall(g) PROVE Told(f)'
  BY <1>20, PresentForks DEF IInv, TypeOK, Told, LoopPlaces, ForkPCs,
         AccountCall, GoTo, Quiet, FullAccount, callerVars, stepVars, flagVars
<1>21. ASSUME NEW g \in present, StopSecond(g) PROVE Told(f)'
  BY <1>21, PresentForks DEF IInv, TypeOK, Told, LoopPlaces, ForkPCs,
         StopSecond, GoTo, TellCaller, stepVars, flagVars
<1>22. ASSUME NEW g \in present, StopFork(g) PROVE Told(f)'
  BY <1>22, PresentForks DEF IInv, TypeOK, Told, LoopPlaces, ForkPCs,
         StopFork, GoTo, TellCaller, stepVars, flagVars
<1>23. ASSUME CallerMessage PROVE Told(f)'
  BY <1>23, PresentForks DEF IInv, TypeOK, Told, LoopPlaces, ForkPCs,
         CallerMessage, objectVars, stepVars, flagVars
<1>24. ASSUME CallerHangsUp PROVE Told(f)'
  BY <1>24, PresentForks DEF IInv, TypeOK, Told, LoopPlaces, ForkPCs,
         CallerHangsUp, Close, objectVars, stepVars, flagVars
<1>25. ASSUME CallerLeaves PROVE Told(f)'
  BY <1>25, PresentForks DEF IInv, TypeOK, Told, LoopPlaces, ForkPCs,
         CallerLeaves, objectVars, stepVars, flagVars
<1>26. ASSUME StopFirst PROVE Told(f)'
  BY <1>26, PresentForks DEF IInv, TypeOK, Told, LoopPlaces, ForkPCs,
         StopFirst, Close, stepVars, flagVars
<1>27. CASE UNCHANGED vars
  BY <1>27, PresentForks DEF IInv, TypeOK, Told, LoopPlaces, ForkPCs, vars,
         objectVars, callerVars, stepVars, flagVars
<1> QED BY <1>1, <1>2, <1>3, <1>4, <1>5, <1>6, <1>7, <1>8, <1>9, <1>10, <1>11, <1>12,
   <1>13, <1>14, <1>15, <1>16, <1>17, <1>18, <1>19, <1>20, <1>21, <1>22,
   <1>23, <1>24, <1>25, <1>26, <1>27 DEF Next, Far, Own

QueueGrows == \E more \in Seq(Messages) : callerQueue' = callerQueue \o more
QueueMoves == CallerMessage \/ (QueueGrows /\ caller' \in {caller, "stopping", "gone"})

\* A longer queue holds what it held.
LEMMA LongerQueue ==
  ASSUME NEW q \in Seq(Messages), NEW more \in Seq(Messages)
  PROVE  /\ q \o more \in Seq(Messages)
         /\ \A i \in 1 .. Len(q) : i \in 1 .. Len(q \o more) /\ (q \o more)[i] = q[i]
         /\ \A i \in 1 .. Len(more) : /\ Len(q) + i \in 1 .. Len(q \o more)
                                     /\ (q \o more)[Len(q) + i] = more[i]
OBVIOUS

\* The caller takes a message, or is told more.
LEMMA QueueStep ==
  ASSUME IInv, [Next]_vars
  PROVE  QueueMoves
<1>a. \A more \in Seq(Messages) : callerQueue' = callerQueue \o more => QueueGrows
  BY DEF QueueGrows
<1>b. callerQueue' = callerQueue => QueueGrows
  <2>1. callerQueue \in Seq(Messages)
    BY DEF IInv, TypeOK
  <2>2. callerQueue \o <<>> = callerQueue /\ <<>> \in Seq(Messages)
    BY <2>1
  <2> QED BY <2>2 DEF QueueGrows
<1>c. {<<>>, <<"alerted">>, <<"connected">>, <<"close">>} \subseteq Seq(Messages)
  BY DEF Messages
<1>1. ASSUME NEW f \in present, LeaveLoop(f) PROVE QueueMoves
  BY <1>1, <1>a, <1>b, <1>c DEF QueueMoves, LeaveLoop, GoTo, Quiet,
         objectVars, callerVars, stepVars, flagVars
<1>2. ASSUME NEW f \in present, NextChoice(f) PROVE QueueMoves
  BY <1>2, <1>a, <1>b, <1>c DEF QueueMoves, NextChoice, GoTo, Quiet,
         objectVars, callerVars, flagVars
<1>3. ASSUME NEW f \in present, NewChoice(f) PROVE QueueMoves
  BY <1>3, <1>a, <1>b, <1>c DEF QueueMoves, NewChoice, GoTo, Quiet,
         callerVars, stepVars, flagVars
<1>4. ASSUME NEW f \in present, ChoiceFails(f) PROVE QueueMoves
  BY <1>4, <1>a, <1>b, <1>c DEF QueueMoves, ChoiceFails, GoTo, Quiet,
         objectVars, callerVars, stepVars, flagVars
<1>5. ASSUME NEW f \in present, TakeChoice(f) PROVE QueueMoves
  BY <1>5, <1>a, <1>b, <1>c DEF QueueMoves, TakeChoice, GoTo, Quiet,
         objectVars, callerVars, flagVars
<1>6. ASSUME NEW f \in present, SetDirect(f) PROVE QueueMoves
  BY <1>6, <1>a, <1>b, <1>c DEF QueueMoves, SetDirect, GoTo, Quiet, Direct,
         callerVars, stepVars, flagVars
<1>7. ASSUME NEW f \in present, StartRinging(f) PROVE QueueMoves
  BY <1>7, <1>a, <1>b, <1>c DEF QueueMoves, StartRinging, GoTo, Quiet,
         objectVars, callerVars, stepVars, flagVars
<1>8. ASSUME NEW f \in present, Alerted(f) PROVE QueueMoves
  BY <1>8, <1>a, <1>b, <1>c DEF QueueMoves, Alerted, GoTo, TellCaller,
         objectVars, stepVars
<1>9. ASSUME NEW f \in present, SetSendAddress(f) PROVE QueueMoves
  BY <1>9, <1>a, <1>b, <1>c DEF QueueMoves, SetSendAddress, GoTo, Quiet,
         objectVars, callerVars
<1>10. ASSUME NEW f \in present, Connected(f) PROVE QueueMoves
  BY <1>10, <1>a, <1>b, <1>c DEF QueueMoves, Connected, GoTo, Quiet,
         objectVars, callerVars
<1>11. ASSUME NEW f \in present, TryToWin(f) PROVE QueueMoves
  BY <1>11, <1>a, <1>b, <1>c DEF QueueMoves, TryToWin, GoTo, Close, Win,
         callerVars, flagVars
<1>12. ASSUME NEW f \in present, NotDelayed(f) PROVE QueueMoves
  BY <1>12, <1>a, <1>b, <1>c DEF QueueMoves, NotDelayed, GoTo, Quiet,
         objectVars, callerVars, stepVars, flagVars
<1>13. ASSUME NEW f \in present, ReplayDelays(f) PROVE QueueMoves
  BY <1>13, <1>a, <1>b, <1>c DEF QueueMoves, ReplayDelays, GoTo, TellCaller,
         Direct, stepVars, flagVars
<1>14. ASSUME NEW f \in present, Announce(f) PROVE QueueMoves
  BY <1>14, <1>a, <1>b, <1>c DEF QueueMoves, Announce, GoTo, TellCaller,
         objectVars, stepVars, flagVars
<1>15. ASSUME NEW f \in present, Idle(f) PROVE QueueMoves
  BY <1>15, <1>a, <1>b, <1>c DEF QueueMoves, Idle, GoTo, Quiet, objectVars,
         callerVars, stepVars, flagVars
<1>16. ASSUME NEW f \in present, CheckPeerMessages(f) PROVE QueueMoves
  BY <1>16, <1>a, <1>b, <1>c DEF QueueMoves, CheckPeerMessages, GoTo, Checked,
         objectVars, callerVars, stepVars
<1>17. ASSUME NEW f \in present, IterationFails(f) PROVE QueueMoves
  BY <1>17, <1>a, <1>b, <1>c DEF QueueMoves, IterationFails, GoTo, Checked,
         objectVars, callerVars, stepVars
<1>18. ASSUME NEW f \in present, TimesOut(f) PROVE QueueMoves
  BY <1>18, <1>a, <1>b, <1>c DEF QueueMoves, TimesOut, GoTo, Checked,
         objectVars, callerVars, stepVars
<1>19. ASSUME NEW f \in present, CloseThisChoice(f) PROVE QueueMoves
  BY <1>19, <1>a, <1>b, <1>c DEF QueueMoves, CloseThisChoice, GoTo, Quiet,
         objectVars, callerVars, stepVars, flagVars
<1>20. ASSUME NEW f \in present, AccountCall(f) PROVE QueueMoves
  BY <1>20, <1>a, <1>b, <1>c DEF QueueMoves, AccountCall, GoTo, Quiet,
         FullAccount, callerVars, stepVars, flagVars
<1>21. ASSUME NEW f \in present, StopSecond(f) PROVE QueueMoves
  BY <1>21, <1>a, <1>b, <1>c DEF QueueMoves, StopSecond, GoTo, TellCaller,
         stepVars, flagVars
<1>22. ASSUME NEW f \in present, StopFork(f) PROVE QueueMoves
  BY <1>22, <1>a, <1>b, <1>c DEF QueueMoves, StopFork, GoTo, TellCaller,
         stepVars, flagVars
<1>23. ASSUME CallerMessage PROVE QueueMoves
  BY <1>23, <1>a, <1>b, <1>c DEF QueueMoves, CallerMessage, objectVars,
         stepVars, flagVars
<1>24. ASSUME CallerHangsUp PROVE QueueMoves
  BY <1>24, <1>a, <1>b, <1>c DEF QueueMoves, CallerHangsUp, Close, objectVars,
         stepVars, flagVars
<1>25. ASSUME CallerLeaves PROVE QueueMoves
  BY <1>25, <1>a, <1>b, <1>c DEF QueueMoves, CallerLeaves, objectVars,
         stepVars, flagVars
<1>26. ASSUME StopFirst PROVE QueueMoves
  BY <1>26, <1>a, <1>b, <1>c DEF QueueMoves, StopFirst, Close, stepVars,
         flagVars
<1>27. CASE UNCHANGED vars
  BY <1>27, <1>a, <1>b, <1>c DEF QueueMoves, vars, objectVars, callerVars,
         stepVars, flagVars
<1> QED BY <1>1, <1>2, <1>3, <1>4, <1>5, <1>6, <1>7, <1>8, <1>9, <1>10, <1>11, <1>12,
   <1>13, <1>14, <1>15, <1>16, <1>17, <1>18, <1>19, <1>20, <1>21, <1>22,
   <1>23, <1>24, <1>25, <1>26, <1>27 DEF Next, Far, Own

\* The types of the caller's leg.
LEMMA CallerTypesStep ==
  ASSUME IInv, [Next]_vars
  PROVE  CallerTypes'
<1>1. CallerTypes
  BY DEF IInv, TypeOK, CallerTypes
<1>2. ASSUME QueueGrows, caller' \in {caller, "stopping", "gone"} PROVE CallerTypes'
  <2>1. PICK more \in Seq(Messages) : callerQueue' = callerQueue \o more
    BY <1>2 DEF QueueGrows
  <2>2. callerQueue' \in Seq(Messages)
    BY <1>1, <2>1, LongerQueue DEF CallerTypes
  <2> QED BY <1>1, <1>2, <2>2 DEF CallerTypes
<1>3. ASSUME CallerMessage PROVE CallerTypes'
  BY <1>1, <1>3 DEF CallerMessage, CallerTypes
<1> QED BY <1>2, <1>3, QueueStep DEF QueueMoves

\* A caller that is told to stop stays told.
LEMMA CallerToldStays ==
  ASSUME IInv, [Next]_vars, CallerTold
  PROVE  CallerTold'
<1>1. callerQueue \in Seq(Messages) /\ caller \in {"running", "stopping", "gone"}
  BY DEF IInv, TypeOK
<1>2. CASE caller' # "running"
  BY <1>2 DEF CallerTold
<1>3. ASSUME caller = "running", QueueGrows PROVE CallerTold'
  <2>1. PICK more \in Seq(Messages) : callerQueue' = callerQueue \o more
    BY <1>3 DEF QueueGrows
  <2>2. PICK i \in 1 .. Len(callerQueue) : callerQueue[i] = "close"
    BY <1>3 DEF CallerTold
  <2>3. i \in 1 .. Len(callerQueue') /\ callerQueue'[i] = "close"
    BY <1>1, <2>1, <2>2, LongerQueue
  <2> QED BY <2>3 DEF CallerTold
<1>4. ASSUME CallerMessage, caller' = "running" PROVE CallerTold'
  <2>1. /\ caller = "running" /\ callerQueue # <<>> /\ callerQueue' = Tail(callerQueue)
        /\ callerQueue[1] # "close"
    BY <1>4 DEF CallerMessage
  <2>2. PICK i \in 1 .. Len(callerQueue) : callerQueue[i] = "close"
    BY <2>1 DEF CallerTold
  <2>3. i - 1 \in 1 .. Len(callerQueue') /\ callerQueue'[i - 1] = "close"
    BY <1>1, <2>1, <2>2
  <2> QED BY <2>3 DEF CallerTold
<1> QED BY <1>1, <1>2, <1>3, <1>4, QueueStep DEF QueueMoves, CallerMessage

\* What TellCaller(<<"close">>) does.
LEMMA CloseTold ==
  ASSUME IInv, TellCaller(<<"close">>), first, caller' = caller
  PROVE  CallerTold'
<1>1. callerQueue \in Seq(Messages) /\ <<"close">> \in Seq(Messages)
  BY DEF IInv, TypeOK, Messages
<1>2. callerQueue' = callerQueue \o <<"close">>
  BY DEF TellCaller
<1>3. Len(callerQueue) + 1 \in 1 .. Len(callerQueue') /\ callerQueue'[Len(callerQueue) + 1] = "close"
  BY <1>1, <1>2
<1> QED BY <1>3 DEF CallerTold

\* Whoever loses its other side is told in the same step.
LEMMA LeftStep ==
  ASSUME IInv, [Next]_vars
  PROVE  NobodyLeftBehind'
<1>a. \A f \in present : Told(f) => Told(f)'
  BY ToldStays
<1>b. CallerTold => CallerTold'
  BY CallerToldStays
<1>1. ASSUME NEW f \in present, LeaveLoop(f) PROVE NobodyLeftBehind'
  BY <1>1, <1>a, <1>b, PresentForks, NoLegAssumption DEF IInv, TypeOK,
         Members, NobodyLeftBehind, LeaveLoop, GoTo, Quiet, objectVars,
         callerVars, stepVars, flagVars
<1>2. ASSUME NEW f \in present, NextChoice(f) PROVE NobodyLeftBehind'
  BY <1>2, <1>a, <1>b, PresentForks, NoLegAssumption DEF IInv, TypeOK,
         Members, NobodyLeftBehind, NextChoice, GoTo, Quiet, objectVars,
         callerVars, flagVars
<1>3. ASSUME NEW f \in present, NewChoice(f) PROVE NobodyLeftBehind'
  BY <1>3, <1>a, <1>b, PresentForks, NoLegAssumption DEF IInv, TypeOK,
         Members, NobodyLeftBehind, NewChoice, GoTo, Quiet, callerVars,
         stepVars, flagVars
<1>4. ASSUME NEW f \in present, ChoiceFails(f) PROVE NobodyLeftBehind'
  BY <1>4, <1>a, <1>b, PresentForks, NoLegAssumption DEF IInv, TypeOK,
         Members, NobodyLeftBehind, ChoiceFails, GoTo, Quiet, objectVars,
         callerVars, stepVars, flagVars
<1>5. ASSUME NEW f \in present, TakeChoice(f) PROVE NobodyLeftBehind'
  BY <1>5, <1>a, <1>b, PresentForks, NoLegAssumption DEF IInv, TypeOK,
         Members, NobodyLeftBehind, TakeChoice, GoTo, Quiet, objectVars,
         callerVars, flagVars
<1>6. ASSUME NEW f \in present, SetDirect(f) PROVE NobodyLeftBehind'
  BY <1>6, <1>a, <1>b, PresentForks, NoLegAssumption DEF IInv, TypeOK,
         Members, NobodyLeftBehind, SetDirect, GoTo, Quiet, Direct,
         callerVars, stepVars, flagVars
<1>7. ASSUME NEW f \in present, StartRinging(f) PROVE NobodyLeftBehind'
  BY <1>7, <1>a, <1>b, PresentForks, NoLegAssumption DEF IInv, TypeOK,
         Members, NobodyLeftBehind, StartRinging, GoTo, Quiet, objectVars,
         callerVars, stepVars, flagVars
<1>8. ASSUME NEW f \in present, Alerted(f) PROVE NobodyLeftBehind'
  BY <1>8, <1>a, <1>b, PresentForks, NoLegAssumption DEF IInv, TypeOK,
         Members, NobodyLeftBehind, Alerted, GoTo, TellCaller, objectVars,
         stepVars
<1>9. ASSUME NEW f \in present, SetSendAddress(f) PROVE NobodyLeftBehind'
  BY <1>9, <1>a, <1>b, PresentForks, NoLegAssumption DEF IInv, TypeOK,
         Members, NobodyLeftBehind, SetSendAddress, GoTo, Quiet, objectVars,
         callerVars
<1>10. ASSUME NEW f \in present, Connected(f) PROVE NobodyLeftBehind'
  BY <1>10, <1>a, <1>b, PresentForks, NoLegAssumption DEF IInv, TypeOK,
         Members, NobodyLeftBehind, Connected, GoTo, Quiet, objectVars,
         callerVars
<1>11. ASSUME NEW f \in present, TryToWin(f) PROVE NobodyLeftBehind'
  <2>1. TypeOK
    BY DEF IInv
  <2>2. CASE second # NoLeg
    <3>1. IsLate(f)
      BY <1>11, <2>1, <2>2, TooLate
    <3> QED BY <2>1, <2>2, <3>1, <1>a, <1>b, PresentForks, NoLegAssumption DEF IInv,
           TypeOK, Members, NobodyLeftBehind, Told, IsLate
  <2>3. CASE second = NoLeg
    <3>1. IsWinner(f)
      BY <1>11, <2>1, <2>3, Wins
    <3> QED BY <2>1, <2>3, <3>1, <1>a, <1>b, PresentForks, NoLegAssumption DEF IInv,
           TypeOK, Members, NobodyLeftBehind, Told, IsWinner
  <2> QED BY <2>2, <2>3
<1>12. ASSUME NEW f \in present, NotDelayed(f) PROVE NobodyLeftBehind'
  BY <1>12, <1>a, <1>b, PresentForks, NoLegAssumption DEF IInv, TypeOK,
         Members, NobodyLeftBehind, NotDelayed, GoTo, Quiet, objectVars,
         callerVars, stepVars, flagVars
<1>13. ASSUME NEW f \in present, ReplayDelays(f) PROVE NobodyLeftBehind'
  BY <1>13, <1>a, <1>b, PresentForks, NoLegAssumption DEF IInv, TypeOK,
         Members, NobodyLeftBehind, ReplayDelays, GoTo, TellCaller, Direct,
         stepVars, flagVars
<1>14. ASSUME NEW f \in present, Announce(f) PROVE NobodyLeftBehind'
  BY <1>14, <1>a, <1>b, PresentForks, NoLegAssumption DEF IInv, TypeOK,
         Members, NobodyLeftBehind, Announce, GoTo, TellCaller, objectVars,
         stepVars, flagVars
<1>15. ASSUME NEW f \in present, Idle(f) PROVE NobodyLeftBehind'
  BY <1>15, <1>a, <1>b, PresentForks, NoLegAssumption DEF IInv, TypeOK,
         Members, NobodyLeftBehind, Idle, GoTo, Quiet, objectVars, callerVars,
         stepVars, flagVars
<1>16. ASSUME NEW f \in present, CheckPeerMessages(f) PROVE NobodyLeftBehind'
  BY <1>16, <1>a, <1>b, PresentForks, NoLegAssumption DEF IInv, TypeOK,
         Members, NobodyLeftBehind, CheckPeerMessages, GoTo, Checked,
         objectVars, callerVars, stepVars
<1>17. ASSUME NEW f \in present, IterationFails(f) PROVE NobodyLeftBehind'
  BY <1>17, <1>a, <1>b, PresentForks, NoLegAssumption DEF IInv, TypeOK,
         Members, NobodyLeftBehind, IterationFails, GoTo, Checked, objectVars,
         callerVars, stepVars
<1>18. ASSUME NEW f \in present, TimesOut(f) PROVE NobodyLeftBehind'
  BY <1>18, <1>a, <1>b, PresentForks, NoLegAssumption DEF IInv, TypeOK,
         Members, NobodyLeftBehind, TimesOut, GoTo, Checked, objectVars,
         callerVars, stepVars
<1>19. ASSUME NEW f \in present, CloseThisChoice(f) PROVE NobodyLeftBehind'
  BY <1>19, <1>a, <1>b, PresentForks, NoLegAssumption DEF IInv, TypeOK,
         Members, NobodyLeftBehind, CloseThisChoice, GoTo, Quiet, objectVars,
         callerVars, stepVars, flagVars
<1>20. ASSUME NEW f \in present, AccountCall(f) PROVE NobodyLeftBehind'
  BY <1>20, <1>a, <1>b, PresentForks, NoLegAssumption DEF IInv, TypeOK,
         Members, NobodyLeftBehind, AccountCall, GoTo, Quiet, FullAccount,
         callerVars, stepVars, flagVars
<1>21. ASSUME NEW f \in present, StopSecond(f) PROVE NobodyLeftBehind'
  <2>1. first => CallerTold'
    BY <1>21, CloseTold DEF StopSecond
  <2>2. ~first => CallerTold
    BY <1>21, NoLegAssumption DEF IInv, Members, CallerTold
  <2>3. CallerTold'
    BY <1>b, <2>1, <2>2
  <2> QED BY <1>21, <1>a, <2>3, PresentForks DEF IInv, TypeOK, Members, NobodyLeftBehind,
          StopSecond
<1>22. ASSUME NEW f \in present, StopFork(f) PROVE NobodyLeftBehind'
  <2>1. ASSUME first, delayed' = {}, second = NoLeg PROVE CallerTold'
    BY <1>22, <2>1, CloseTold DEF StopFork
  <2>2. ~first => CallerTold
    BY <1>22, NoLegAssumption DEF IInv, Members, CallerTold
  <2>3. second' = NoLeg /\ (delayed' = {} \/ ~useDelays') => CallerTold'
    BY <1>22, <1>b, <2>1, <2>2 DEF IInv, NobodyLeftBehind, StopFork
  <2> QED BY <1>22, <1>a, <2>3, PresentForks DEF IInv, TypeOK, Members, NobodyLeftBehind,
          StopFork
<1>23. ASSUME CallerMessage PROVE NobodyLeftBehind'
  BY <1>23, <1>a, <1>b, PresentForks, NoLegAssumption DEF IInv, TypeOK,
         Members, NobodyLeftBehind, CallerMessage, objectVars, stepVars,
         flagVars
<1>24. ASSUME CallerHangsUp PROVE NobodyLeftBehind'
  BY <1>24, <1>a, <1>b, PresentForks, NoLegAssumption DEF IInv, TypeOK,
         Members, NobodyLeftBehind, CallerHangsUp, Close, objectVars,
         stepVars, flagVars
<1>25. ASSUME CallerLeaves PROVE NobodyLeftBehind'
  BY <1>25, <1>a, <1>b, PresentForks, NoLegAssumption DEF IInv, TypeOK,
         Members, NobodyLeftBehind, CallerLeaves, objectVars, stepVars,
         flagVars
<1>26. ASSUME StopFirst PROVE NobodyLeftBehind'
  <2>1. ASSUME NEW f \in present PROVE Told(f)'
    <3>1. CASE pc[f] = "gone"
      BY <1>a, <3>1 DEF Told, LoopPlaces
    <3>2. CASE f = second \/ (second = NoLeg /\ f \in delayed)
      BY <1>26, <3>2, PresentForks, NoLegAssumption DEF StopFirst, Close, Told, IInv, TypeOK
    <3>3. CASE second # NoLeg /\ f \in delayed
      BY <1>a, <3>3 DEF IInv, Members, NobodyLeftBehind
    <3> QED BY <3>1, <3>2, <3>3 DEF IInv, Members
  <2>2. CallerTold'
    BY <1>26 DEF StopFirst, CallerTold
  <2>3. present' = present /\ delayed' = delayed /\ delayed \subseteq present
    BY <1>26 DEF StopFirst, IInv, TypeOK
  <2> QED BY <2>1, <2>2, <2>3 DEF NobodyLeftBehind
<1>27. CASE UNCHANGED vars
  BY <1>27, <1>a, <1>b, PresentForks, NoLegAssumption DEF IInv, TypeOK,
         Members, NobodyLeftBehind, vars, objectVars, callerVars, stepVars,
         flagVars
<1> QED BY <1>1, <1>2, <1>3, <1>4, <1>5, <1>6, <1>7, <1>8, <1>9, <1>10, <1>11, <1>12,
   <1>13, <1>14, <1>15, <1>16, <1>17, <1>18, <1>19, <1>20, <1>21, <1>22,
   <1>23, <1>24, <1>25, <1>26, <1>27 DEF Next, Far, Own

\* The full account is written once.
LEMMA AccountsStep ==
  ASSUME IInv, [Next]_vars
  PROVE  Accounts'
<1>1. ASSUME NEW f \in present, LeaveLoop(f) PROVE Accounts'
  BY <1>1, PresentForks, NoLegAssumption DEF IInv, TypeOK, Members, Accounts,
         LeaveLoop, GoTo, Quiet, objectVars, callerVars, stepVars, flagVars
<1>2. ASSUME NEW f \in present, NextChoice(f) PROVE Accounts'
  BY <1>2, PresentForks, NoLegAssumption DEF IInv, TypeOK, Members, Accounts,
         NextChoice, GoTo, Quiet, objectVars, callerVars, flagVars
<1>3. ASSUME NEW f \in present, NewChoice(f) PROVE Accounts'
  BY <1>3, PresentForks, NoLegAssumption DEF IInv, TypeOK, Members, Accounts,
         NewChoice, GoTo, Quiet, callerVars, stepVars, flagVars
<1>4. ASSUME NEW f \in present, ChoiceFails(f) PROVE Accounts'
  BY <1>4, PresentForks, NoLegAssumption DEF IInv, TypeOK, Members, Accounts,
         ChoiceFails, GoTo, Quiet, objectVars, callerVars, stepVars, flagVars
<1>5. ASSUME NEW f \in present, TakeChoice(f) PROVE Accounts'
  BY <1>5, PresentForks, NoLegAssumption DEF IInv, TypeOK, Members, Accounts,
         TakeChoice, GoTo, Quiet, objectVars, callerVars, flagVars
<1>6. ASSUME NEW f \in present, SetDirect(f) PROVE Accounts'
  BY <1>6, PresentForks, NoLegAssumption DEF IInv, TypeOK, Members, Accounts,
         SetDirect, GoTo, Quiet, Direct, callerVars, stepVars, flagVars
<1>7. ASSUME NEW f \in present, StartRinging(f) PROVE Accounts'
  BY <1>7, PresentForks, NoLegAssumption DEF IInv, TypeOK, Members, Accounts,
         StartRinging, GoTo, Quiet, objectVars, callerVars, stepVars, flagVars
<1>8. ASSUME NEW f \in present, Alerted(f) PROVE Accounts'
  BY <1>8, PresentForks, NoLegAssumption DEF IInv, TypeOK, Members, Accounts,
         Alerted, GoTo, TellCaller, objectVars, stepVars
<1>9. ASSUME NEW f \in present, SetSendAddress(f) PROVE Accounts'
  BY <1>9, PresentForks, NoLegAssumption DEF IInv, TypeOK, Members, Accounts,
         SetSendAddress, GoTo, Quiet, objectVars, callerVars
<1>10. ASSUME NEW f \in present, Connected(f) PROVE Accounts'
  BY <1>10, PresentForks, NoLegAssumption DEF IInv, TypeOK, Members, Accounts,
         Connected, GoTo, Quiet, objectVars, callerVars
<1>11. ASSUME NEW f \in present, TryToWin(f) PROVE Accounts'
  <2>1. TypeOK
    BY DEF IInv
  <2>2. CASE second # NoLeg
    <3>1. IsLate(f)
      BY <1>11, <2>1, <2>2, TooLate
    <3> QED BY <2>1, <2>2, <3>1, PresentForks, NoLegAssumption DEF IInv, TypeOK,
           Members, Accounts, IsLate
  <2>3. CASE second = NoLeg
    <3>1. IsWinner(f)
      BY <1>11, <2>1, <2>3, Wins
    <3> QED BY <2>1, <2>3, <3>1, PresentForks, NoLegAssumption DEF IInv, TypeOK,
           Members, Accounts, IsWinner
  <2> QED BY <2>2, <2>3
<1>12. ASSUME NEW f \in present, NotDelayed(f) PROVE Accounts'
  BY <1>12, PresentForks, NoLegAssumption DEF IInv, TypeOK, Members, Accounts,
         NotDelayed, GoTo, Quiet, objectVars, callerVars, stepVars, flagVars
<1>13. ASSUME NEW f \in present, ReplayDelays(f) PROVE Accounts'
  BY <1>13, PresentForks, NoLegAssumption DEF IInv, TypeOK, Members, Accounts,
         ReplayDelays, GoTo, TellCaller, Direct, stepVars, flagVars
<1>14. ASSUME NEW f \in present, Announce(f) PROVE Accounts'
  BY <1>14, PresentForks, NoLegAssumption DEF IInv, TypeOK, Members, Accounts,
         Announce, GoTo, TellCaller, objectVars, stepVars, flagVars
<1>15. ASSUME NEW f \in present, Idle(f) PROVE Accounts'
  BY <1>15, PresentForks, NoLegAssumption DEF IInv, TypeOK, Members, Accounts,
         Idle, GoTo, Quiet, objectVars, callerVars, stepVars, flagVars
<1>16. ASSUME NEW f \in present, CheckPeerMessages(f) PROVE Accounts'
  BY <1>16, PresentForks, NoLegAssumption DEF IInv, TypeOK, Members, Accounts,
         CheckPeerMessages, GoTo, Checked, objectVars, callerVars, stepVars
<1>17. ASSUME NEW f \in present, IterationFails(f) PROVE Accounts'
  BY <1>17, PresentForks, NoLegAssumption DEF IInv, TypeOK, Members, Accounts,
         IterationFails, GoTo, Checked, objectVars, callerVars, stepVars
<1>18. ASSUME NEW f \in present, TimesOut(f) PROVE Accounts'
  BY <1>18, PresentForks, NoLegAssumption DEF IInv, TypeOK, Members, Accounts,
         TimesOut, GoTo, Checked, objectVars, callerVars, stepVars
<1>19. ASSUME NEW f \in present, CloseThisChoice(f) PROVE Accounts'
  BY <1>19, PresentForks, NoLegAssumption DEF IInv, TypeOK, Members, Accounts,
         CloseThisChoice, GoTo, Quiet, objectVars, callerVars, stepVars,
         flagVars
<1>20. ASSUME NEW f \in present, AccountCall(f) PROVE Accounts'
  <2>1. present' = present /\ second' = second /\ delayed' = delayed
    BY <1>20 DEF AccountCall
  <2>2. CASE FullAccount(f)
    <3>1. billed = {}
      BY <2>2 DEF FullAccount, IInv, Accounts
    <3>2. forkAccounted' = TRUE /\ billed' = {f}
      BY <1>20, <2>2, <3>1 DEF AccountCall
    <3> QED BY <2>1, <3>2 DEF Accounts
  <2>3. CASE ~FullAccount(f)
    BY <1>20, <2>3, PresentForks, NoLegAssumption DEF IInv, TypeOK, Members, Accounts,
       AccountCall, FullAccount, GoTo
  <2> QED BY <2>2, <2>3
<1>21. ASSUME NEW f \in present, StopSecond(f) PROVE Accounts'
  BY <1>21, PresentForks, NoLegAssumption DEF IInv, TypeOK, Members, Accounts,
         StopSecond, GoTo, TellCaller, stepVars, flagVars
<1>22. ASSUME NEW f \in present, StopFork(f) PROVE Accounts'
  BY <1>22, PresentForks, NoLegAssumption DEF IInv, TypeOK, Members, Accounts,
         StopFork, GoTo, TellCaller, stepVars, flagVars
<1>23. ASSUME CallerMessage PROVE Accounts'
  BY <1>23, PresentForks, NoLegAssumption DEF IInv, TypeOK, Members, Accounts,
         CallerMessage, objectVars, stepVars, flagVars
<1>24. ASSUME CallerHangsUp PROVE Accounts'
  BY <1>24, PresentForks, NoLegAssumption DEF IInv, TypeOK, Members, Accounts,
         CallerHangsUp, Close, objectVars, stepVars, flagVars
<1>25. ASSUME CallerLeaves PROVE Accounts'
  BY <1>25, PresentForks, NoLegAssumption DEF IInv, TypeOK, Members, Accounts,
         CallerLeaves, objectVars, stepVars, flagVars
<1>26. ASSUME StopFirst PROVE Accounts'
  BY <1>26, PresentForks, NoLegAssumption DEF IInv, TypeOK, Members, Accounts,
         StopFirst, Close, stepVars, flagVars
<1>27. CASE UNCHANGED vars
  BY <1>27, PresentForks, NoLegAssumption DEF IInv, TypeOK, Members, Accounts,
         vars, objectVars, callerVars, stepVars, flagVars
<1> QED BY <1>1, <1>2, <1>3, <1>4, <1>5, <1>6, <1>7, <1>8, <1>9, <1>10, <1>11, <1>12,
   <1>13, <1>14, <1>15, <1>16, <1>17, <1>18, <1>19, <1>20, <1>21, <1>22,
   <1>23, <1>24, <1>25, <1>26, <1>27 DEF Next, Far, Own

\* A Close is heard after one more choice.
LEMMA RingsStep ==
  ASSUME IInv, [Next]_vars
  PROVE  RingsHeard'
<1>1. ASSUME NEW f \in present, LeaveLoop(f) PROVE RingsHeard'
  BY <1>1, PresentForks DEF IInv, TypeOK, RingsHeard, InLoop, ForkPCs,
         AtChoice, LeaveLoop, GoTo, Quiet, objectVars, callerVars, stepVars,
         flagVars
<1>2. ASSUME NEW f \in present, NextChoice(f) PROVE RingsHeard'
  BY <1>2, PresentForks DEF IInv, TypeOK, RingsHeard, InLoop, ForkPCs,
         AtChoice, NextChoice, GoTo, Quiet, objectVars, callerVars, flagVars
<1>3. ASSUME NEW f \in present, NewChoice(f) PROVE RingsHeard'
  BY <1>3, PresentForks DEF IInv, TypeOK, RingsHeard, InLoop, ForkPCs,
         AtChoice, NewChoice, GoTo, Quiet, callerVars, stepVars, flagVars
<1>4. ASSUME NEW f \in present, ChoiceFails(f) PROVE RingsHeard'
  BY <1>4, PresentForks DEF IInv, TypeOK, RingsHeard, InLoop, ForkPCs,
         AtChoice, ChoiceFails, GoTo, Quiet, objectVars, callerVars, stepVars,
         flagVars
<1>5. ASSUME NEW f \in present, TakeChoice(f) PROVE RingsHeard'
  BY <1>5, PresentForks DEF IInv, TypeOK, RingsHeard, InLoop, ForkPCs,
         AtChoice, TakeChoice, GoTo, Quiet, objectVars, callerVars, flagVars
<1>6. ASSUME NEW f \in present, SetDirect(f) PROVE RingsHeard'
  BY <1>6, PresentForks DEF IInv, TypeOK, RingsHeard, InLoop, ForkPCs,
         AtChoice, SetDirect, GoTo, Quiet, Direct, callerVars, stepVars,
         flagVars
<1>7. ASSUME NEW f \in present, StartRinging(f) PROVE RingsHeard'
  <2>1. lateRings[f] = 0
    BY <1>7, PresentForks DEF StartRinging, IInv, RingsHeard, InLoop, AtChoice
  <2>2. /\ lateRings'[f] = IF closeQueued[f] THEN 1 ELSE 0
        /\ pc'[f] = "iterating" /\ closeQueued' = closeQueued /\ end' = end
    BY <1>7, <2>1, PresentForks DEF StartRinging, GoTo, Quiet, flagVars, IInv, TypeOK
  <2>3. \A g \in Forks : g # f => lateRings'[g] = lateRings[g] /\ pc'[g] = pc[g]
    BY <1>7, PresentForks DEF StartRinging, GoTo, IInv, TypeOK
  <2> QED BY <2>2, <2>3 DEF IInv, RingsHeard, InLoop
<1>8. ASSUME NEW f \in present, Alerted(f) PROVE RingsHeard'
  BY <1>8, PresentForks DEF IInv, TypeOK, RingsHeard, InLoop, ForkPCs,
         AtChoice, Alerted, GoTo, TellCaller, objectVars, stepVars
<1>9. ASSUME NEW f \in present, SetSendAddress(f) PROVE RingsHeard'
  BY <1>9, PresentForks DEF IInv, TypeOK, RingsHeard, InLoop, ForkPCs,
         AtChoice, SetSendAddress, GoTo, Quiet, objectVars, callerVars
<1>10. ASSUME NEW f \in present, Connected(f) PROVE RingsHeard'
  BY <1>10, PresentForks DEF IInv, TypeOK, RingsHeard, InLoop, ForkPCs,
         AtChoice, Connected, GoTo, Quiet, objectVars, callerVars
<1>11. ASSUME NEW f \in present, TryToWin(f) PROVE RingsHeard'
  <2>1. TypeOK
    BY DEF IInv
  <2>2. CASE second # NoLeg
    <3>1. IsLate(f)
      BY <1>11, <2>1, <2>2, TooLate
    <3> QED BY <2>1, <2>2, <3>1, PresentForks DEF IInv, TypeOK, RingsHeard, InLoop,
           ForkPCs, AtChoice, IsLate
  <2>3. CASE second = NoLeg
    <3>1. IsWinner(f)
      BY <1>11, <2>1, <2>3, Wins
    <3> QED BY <2>1, <2>3, <3>1, PresentForks DEF IInv, TypeOK, RingsHeard, InLoop,
           ForkPCs, AtChoice, IsWinner
  <2> QED BY <2>2, <2>3
<1>12. ASSUME NEW f \in present, NotDelayed(f) PROVE RingsHeard'
  BY <1>12, PresentForks DEF IInv, TypeOK, RingsHeard, InLoop, ForkPCs,
         AtChoice, NotDelayed, GoTo, Quiet, objectVars, callerVars, stepVars,
         flagVars
<1>13. ASSUME NEW f \in present, ReplayDelays(f) PROVE RingsHeard'
  BY <1>13, PresentForks DEF IInv, TypeOK, RingsHeard, InLoop, ForkPCs,
         AtChoice, ReplayDelays, GoTo, TellCaller, Direct, stepVars, flagVars
<1>14. ASSUME NEW f \in present, Announce(f) PROVE RingsHeard'
  BY <1>14, PresentForks DEF IInv, TypeOK, RingsHeard, InLoop, ForkPCs,
         AtChoice, Announce, GoTo, TellCaller, objectVars, stepVars, flagVars
<1>15. ASSUME NEW f \in present, Idle(f) PROVE RingsHeard'
  BY <1>15, PresentForks DEF IInv, TypeOK, RingsHeard, InLoop, ForkPCs,
         AtChoice, Idle, GoTo, Quiet, objectVars, callerVars, stepVars,
         flagVars
<1>16. ASSUME NEW f \in present, CheckPeerMessages(f) PROVE RingsHeard'
  BY <1>16, PresentForks DEF IInv, TypeOK, RingsHeard, InLoop, ForkPCs,
         AtChoice, CheckPeerMessages, GoTo, Checked, objectVars, callerVars,
         stepVars
<1>17. ASSUME NEW f \in present, IterationFails(f) PROVE RingsHeard'
  BY <1>17, PresentForks DEF IInv, TypeOK, RingsHeard, InLoop, ForkPCs,
         AtChoice, IterationFails, GoTo, Checked, objectVars, callerVars,
         stepVars
<1>18. ASSUME NEW f \in present, TimesOut(f) PROVE RingsHeard'
  BY <1>18, PresentForks DEF IInv, TypeOK, RingsHeard, InLoop, ForkPCs,
         AtChoice, TimesOut, GoTo, Checked, objectVars, callerVars, stepVars
<1>19. ASSUME NEW f \in present, CloseThisChoice(f) PROVE RingsHeard'
  BY <1>19, PresentForks DEF IInv, TypeOK, RingsHeard, InLoop, ForkPCs,
         AtChoice, CloseThisChoice, GoTo, Quiet, objectVars, callerVars,
         stepVars, flagVars
<1>20. ASSUME NEW f \in present, AccountCall(f) PROVE RingsHeard'
  BY <1>20, PresentForks DEF IInv, TypeOK, RingsHeard, InLoop, ForkPCs,
         AtChoice, AccountCall, GoTo, Quiet, FullAccount, callerVars,
         stepVars, flagVars
<1>21. ASSUME NEW f \in present, StopSecond(f) PROVE RingsHeard'
  BY <1>21, PresentForks DEF IInv, TypeOK, RingsHeard, InLoop, ForkPCs,
         AtChoice, StopSecond, GoTo, TellCaller, stepVars, flagVars
<1>22. ASSUME NEW f \in present, StopFork(f) PROVE RingsHeard'
  BY <1>22, PresentForks DEF IInv, TypeOK, RingsHeard, InLoop, ForkPCs,
         AtChoice, StopFork, GoTo, TellCaller, stepVars, flagVars
<1>23. ASSUME CallerMessage PROVE RingsHeard'
  BY <1>23, PresentForks DEF IInv, TypeOK, RingsHeard, InLoop, ForkPCs,
         AtChoice, CallerMessage, objectVars, stepVars, flagVars
<1>24. ASSUME CallerHangsUp PROVE RingsHeard'
  BY <1>24, PresentForks DEF IInv, TypeOK, RingsHeard, InLoop, ForkPCs,
         AtChoice, CallerHangsUp, Close, objectVars, stepVars, flagVars
<1>25. ASSUME CallerLeaves PROVE RingsHeard'
  BY <1>25, PresentForks DEF IInv, TypeOK, RingsHeard, InLoop, ForkPCs,
         AtChoice, CallerLeaves, objectVars, stepVars, flagVars
<1>26. ASSUME StopFirst PROVE RingsHeard'
  BY <1>26, PresentForks DEF IInv, TypeOK, RingsHeard, InLoop, ForkPCs,
         AtChoice, StopFirst, Close, stepVars, flagVars
<1>27. CASE UNCHANGED vars
  BY <1>27, PresentForks DEF IInv, TypeOK, RingsHeard, InLoop, ForkPCs,
         AtChoice, vars, objectVars, callerVars, stepVars, flagVars
<1> QED BY <1>1, <1>2, <1>3, <1>4, <1>5, <1>6, <1>7, <1>8, <1>9, <1>10, <1>11, <1>12,
   <1>13, <1>14, <1>15, <1>16, <1>17, <1>18, <1>19, <1>20, <1>21, <1>22,
   <1>23, <1>24, <1>25, <1>26, <1>27 DEF Next, Far, Own

LEMMA IInvHolds == Spec => []IInv
<1>1. IInv /\ [Next]_vars => TypeOK'
  BY ObjectTypesStep, CallerTypesStep, ForkTypesStep
     DEF TypeOK, ObjectTypes, CallerTypes, ForkTypes
<1>2. IInv /\ [Next]_vars => IInv'
  BY <1>1, MembersStep, OldValuesStep, DirectStep, LeftStep, AccountsStep, RingsStep DEF IInv
<1> QED BY <1>2, IInvInit, PTL DEF Spec

-----------------------------------------------------------------------------
(* The theorems.                                                           *)

\* Every variable of the call object and its legs keeps its type.
THEOREM TypeCorrect == Spec => []TypeOK
<1>1. IInv => TypeOK
  BY DEF IInv
<1> QED BY <1>1, IInvHolds, PTL

\* "delete this" is done by the last leg that stops, and no pointer of the object
\* leads to a leg that has gone (AnswerCall::stop), for any forks and any order.
THEOREM LastLegDeletes == Spec => []Lifetimes
<1>1. IInv => Lifetimes
  BY PresentForks, NoLegAssumption DEF IInv, TypeOK, Members, Lifetimes
<1> QED BY <1>1, IInvHolds, PTL

\* The unasked find() in delayedThreads always finds the fork, by whatever value
\* of useDelays it goes (newChoice, setDirect, setPeer, setSendAddress).
THEOREM DelaysAreFound == Spec => []DelaysFound
<1>1. IInv => DelaysFound
  BY PresentForks, NoLegAssumption DEF IInv, Members, OldValues, DelaysFound
<1> QED BY <1>1, IInvHolds, PTL

\* A fork that lost, a fork whose caller has gone and a caller without a fork have
\* each been told to stop (connected, released, stop).
THEOREM NobodyIsLeftBehind == Spec => []NobodyLeftBehind
<1>1. IInv => NobodyLeftBehind
  BY DEF IInv
<1> QED BY <1>1, IInvHolds, PTL

\* The call is accounted in full once, whoever wins and whoever ends last
\* (fullAccount).
THEOREM AccountedExactlyOnce == Spec => []AccountedOnce
<1>1. ASSUME IInv PROVE AccountedOnce
  <2>1. CASE forkAccounted
    <3>1. PICK f \in present : billed = {f}
      BY <1>1, <2>1 DEF IInv, Accounts
    <3>2. Cardinality(billed) = 1
      BY <3>1, FS_Singleton
    <3> QED BY <3>1, <3>2 DEF AccountedOnce
  <2>2. CASE ~forkAccounted
    <3>1. billed = {} /\ ~(\A f \in present : pc[f] \in {"stopping", "gone"})
      BY <1>1, <2>2 DEF IInv, Accounts
    <3>2. Cardinality(billed) = 0
      BY <3>1, FS_EmptySet
    <3> QED BY <3>1, <3>2 DEF AccountedOnce
  <2> QED BY <2>1, <2>2
<1> QED BY <1>1, IInvHolds, PTL

\* After a Close at most one more choice of a fork is called, however many it has.
THEOREM AtMostOneMoreChoice == Spec => []OneMoreChoice
<1>1. IInv => OneMoreChoice
  BY DEF IInv, RingsHeard, OneMoreChoice
<1> QED BY <1>1, IInvHolds, PTL

\* The direct flag in force when the caller is told of the winner is that of the
\* choice the winner has answered on (connected, setDirect, newChoice).
THEOREM DirectIsOfWinner == Spec => []DirectOfWinner
<1>1. IInv => DirectOfWinner
  BY DEF IInv, DirectKept, Underway, DirectOfWinner
<1> QED BY <1>1, IInvHolds, PTL

\* A call object that no leg is left in has been deleted.
NothingLeaks == caller = "gone" /\ (\A f \in present : pc[f] = "gone") => deleted

\* An object that knows nobody has been deleted.
Emptied == ~first /\ second = NoLeg /\ delayed = {} => deleted

LEMMA EmptiedStep ==
  ASSUME IInv, Emptied, [Next]_vars
  PROVE  Emptied'
<1>1. CASE StopFirst
  BY <1>1 DEF StopFirst, Emptied
<1>2. ASSUME NEW f \in present, StopSecond(f) \/ StopFork(f) PROVE Emptied'
  <2>1. CASE StopSecond(f)
    <3>1. first' = first /\ delayed' = delayed /\ deleted' = (~first /\ delayed = {})
      BY <2>1 DEF StopSecond
    <3> QED BY <3>1 DEF Emptied
  <2>2. CASE StopFork(f)
    <3>1. /\ first' = first /\ second' = second
          /\ deleted' = ((delayed' = {} /\ second = NoLeg) /\ ~first)
      BY <2>2 DEF StopFork
    <3> QED BY <3>1 DEF Emptied
  <2> QED BY <1>2, <2>1, <2>2
<1>3. ASSUME NEW f \in present, TryToWin(f) PROVE Emptied'
  <2>1. CASE second # NoLeg
    BY <1>3, <2>1 DEF TryToWin, Emptied
  <2>2. CASE second = NoLeg
    <3>1. second' = f /\ f # NoLeg
      BY <1>3, <2>2, PresentForks, NoLegAssumption DEF TryToWin, Win, IInv
    <3> QED BY <3>1 DEF Emptied
  <2> QED BY <2>1, <2>2
<1>4. CASE UNCHANGED <<first, second, delayed, deleted>>
  BY <1>4 DEF Emptied
<1>5. \/ UNCHANGED <<first, second, delayed, deleted>>
      \/ StopFirst
      \/ \E f \in present : TryToWin(f) \/ StopSecond(f) \/ StopFork(f)
  BY DEF Next, Far, Own, Alerted, SetSendAddress, Connected, IterationFails, TimesOut, LeaveLoop,
     NextChoice, NewChoice, ChoiceFails, TakeChoice, SetDirect, StartRinging, NotDelayed,
     ReplayDelays, Announce, Idle, CheckPeerMessages, CloseThisChoice, AccountCall,
     CallerMessage, CallerHangsUp, CallerLeaves, Direct, objectVars, vars
<1> QED BY <1>1, <1>2, <1>3, <1>4, <1>5

\* Whoever is the last to stop deletes the object: it does not outlive its legs,
\* in whatever order the caller, the winner and the forks that lost stop
\* (AnswerCall::stop).
THEOREM LastLegLeavesNothing == Spec => []NothingLeaks
<1>1. Init => Emptied
  BY DEF Init, Emptied
<1>2. IInv /\ Emptied /\ [Next]_vars => Emptied'
  BY EmptiedStep
<1>3. IInv /\ Emptied => NothingLeaks
  BY PresentForks, NoLegAssumption DEF IInv, TypeOK, Members, Emptied, NothingLeaks
<1> QED BY <1>1, <1>2, <1>3, IInvHolds, PTL DEF Spec
================================================================================
