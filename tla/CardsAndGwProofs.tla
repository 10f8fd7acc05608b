--------------------------- MODULE CardsAndGwProofs ---------------------------
(***************************************************************************)
(* The two limits of CallLimits that several flags of a leg guard: the     *)
(* lines of the prepaid cards and the gateway licence.                     *)
(***************************************************************************)
EXTENDS CallLimitsProofs

-----------------------------------------------------------------------------
(* The lines of a card.                                                    *)

\* No SourceData carries a lock before getCallInfo has run for its leg.
LocksFresh ==
  \A l \in Legs :
    \/ pc[l[1]] \in {"new", "accepted"}
    \/ Kind[l[1]] = "callback" /\ lpc[l] \in {"none", "init"}
    => ~lockIn[l] /\ ~lockOut[l]

\* The two locks leg l may own of card a, and how many of them there are.
AsCaller(l, a) == lockIn[l] /\ Source[l[1]] = a
AsCalled(l, a) == lockOut[l] /\ OutCard[l] = a
One(b)         == IF b THEN 1 ELSE 0
\* The locks of leg l, before and after a step that changes the entries of
\* card a: the entries move with the locks and grow only up to the lines.
LegMoves(a, l) ==
  /\ \A k \in Legs \ {l} : /\ AsCaller(k, a)' <=> AsCaller(k, a)
                           /\ AsCalled(k, a)' <=> AsCalled(k, a)
  /\ cardLocks'[a] = cardLocks[a] + One(AsCaller(l, a)') - One(AsCaller(l, a))
                                  + One(AsCalled(l, a)') - One(AsCalled(l, a))
  /\ cardLocks'[a] <= cardLocks[a] \/ cardLocks'[a] <= Lines[a]

LocksQuiet(a) ==
  /\ \A k \in Legs : /\ AsCaller(k, a)' <=> AsCaller(k, a)
                     /\ AsCalled(k, a)' <=> AsCalled(k, a)
  /\ cardLocks'[a] = cardLocks[a]

CardMoves(a) == LocksQuiet(a) \/ \E l \in Legs : LegMoves(a, l)

\* A limited card outside every call with several forks.
Single(a) == a \in Cards /\ Lines[a] # 0 /\ ~Forked(a)

\* What CardLinesRespected says of card a.
LinesKept(a) ==
  /\ cardLocks[a] = Cardinality(CallerLocks(a)) + Cardinality(CalledLocks(a))
  /\ cardLocks[a] <= Lines[a]

LEMMA LinesKeptOfAll == CardLinesRespected <=> \A a : Single(a) => LinesKept(a)
BY DEF CardLinesRespected, Single, LinesKept

\* A set that differs at most in one element counts that element.
LEMMA OneElement ==
  ASSUME NEW S, NEW T, IsFiniteSet(S), NEW x,
         \A y : y # x => (y \in T <=> y \in S)
  PROVE  /\ IsFiniteSet(T)
         /\ Cardinality(T) = Cardinality(S) + One(x \in T) - One(x \in S)
<1>1. Cardinality(S) \in Nat
  BY FS_CardinalityType
<1>2. CASE x \in S <=> x \in T
  <2>1. S = T
    BY <1>2
  <2> QED BY <1>1, <1>2, <2>1 DEF One
<1>3. CASE x \in S /\ x \notin T
  <2>1. T = S \ {x}
    BY <1>3
  <2> QED BY <1>1, <1>3, <2>1, DropOne DEF One
<1>4. CASE x \notin S /\ x \in T
  <2>1. T = S \cup {x}
    BY <1>4
  <2> QED BY <1>1, <1>4, <2>1, AddOne DEF One
<1> QED BY <1>2, <1>3, <1>4

LEMMA LocksFinite == \A a : IsFiniteSet(CallerLocks(a)) /\ IsFiniteSet(CalledLocks(a))
<1>1. \A a : CallerLocks(a) \subseteq Legs /\ CalledLocks(a) \subseteq Legs
  BY DEF CallerLocks, CalledLocks
<1> QED BY <1>1, LegsFinite, FS_Subset

LEMMA CardMovesKeeps ==
  ASSUME TypeOK, NEW a, Single(a), LinesKept(a), CardMoves(a)
  PROVE  LinesKept(a)'
<1>1. \A k \in Legs : /\ k \in CallerLocks(a) <=> AsCaller(k, a)
                      /\ k \in CalledLocks(a) <=> AsCalled(k, a)
                      /\ k \in CallerLocks(a)' <=> AsCaller(k, a)'
                      /\ k \in CalledLocks(a)' <=> AsCalled(k, a)'
  BY DEF CallerLocks, CalledLocks, AsCaller, AsCalled
<1>2. /\ CallerLocks(a) \subseteq Legs /\ CallerLocks(a)' \subseteq Legs
      /\ CalledLocks(a) \subseteq Legs /\ CalledLocks(a)' \subseteq Legs
  BY DEF CallerLocks, CalledLocks
<1>3. /\ Cardinality(CallerLocks(a)) \in Nat /\ Cardinality(CalledLocks(a)) \in Nat
      /\ Lines[a] \in Nat
  BY LocksFinite, FS_CardinalityType, LimitsAssumption DEF Single
<1>4. CASE LocksQuiet(a)
  <2>1. CallerLocks(a)' = CallerLocks(a) /\ CalledLocks(a)' = CalledLocks(a)
    BY <1>1, <1>2, <1>4 DEF LocksQuiet
  <2> QED BY <1>4, <2>1 DEF LinesKept, LocksQuiet
<1>5. ASSUME NEW l \in Legs, LegMoves(a, l) PROVE LinesKept(a)'
  <2>1. \A k : k # l => /\ k \in CallerLocks(a)' <=> k \in CallerLocks(a)
                        /\ k \in CalledLocks(a)' <=> k \in CalledLocks(a)
    BY <1>1, <1>2, <1>5 DEF LegMoves
  <2>2. Cardinality(CallerLocks(a)') = Cardinality(CallerLocks(a))
          + One(l \in CallerLocks(a)') - One(l \in CallerLocks(a))
    BY <2>1, LocksFinite, OneElement
  <2>3. Cardinality(CalledLocks(a)') = Cardinality(CalledLocks(a))
          + One(l \in CalledLocks(a)') - One(l \in CalledLocks(a))
    BY <2>1, LocksFinite, OneElement
  <2>4. /\ l \in CallerLocks(a) <=> AsCaller(l, a)
        /\ l \in CalledLocks(a) <=> AsCalled(l, a)
        /\ l \in CallerLocks(a)' <=> AsCaller(l, a)'
        /\ l \in CalledLocks(a)' <=> AsCalled(l, a)'
    BY <1>1
  <2>5. cardLocks'[a] = cardLocks[a] + One(AsCaller(l, a)') - One(AsCaller(l, a))
                                     + One(AsCalled(l, a)') - One(AsCalled(l, a))
    BY <1>5 DEF LegMoves
  <2>6. cardLocks'[a] <= Lines[a]
    <3>1. cardLocks[a] \in Nat /\ cardLocks[a] <= Lines[a]
      BY DEF TypeOK, Single, LinesKept
    <3> QED BY <1>3, <1>5, <2>5, <3>1 DEF LegMoves, One
  <2>7. cardLocks[a] = Cardinality(CallerLocks(a)) + Cardinality(CalledLocks(a))
    BY DEF LinesKept
  <2>8. cardLocks'[a] = Cardinality(CallerLocks(a)') + Cardinality(CalledLocks(a)')
    BY <1>3, <2>2, <2>3, <2>4, <2>5, <2>7 DEF One
  <2> QED BY <2>6, <2>8 DEF LinesKept
<1> QED BY <1>4, <1>5 DEF CardMoves

-----------------------------------------------------------------------------
(* What getCallInfo and removeCall do to one card.                         *)

\* One more entry for card a, if it is b.
LEMMA LockOne ==
  ASSUME NEW locks \in [Cards -> Nat], NEW b, NEW a, Single(a)
  PROVE  /\ Lock(locks, b) \in [Cards -> Nat]
         /\ Lock(locks, b)[a] = locks[a] + One(b = a)
         /\ b = a => Lockable(b)
<1>1. a \in Cards /\ Lines[a] # 0
  BY DEF Single
<1>2. CASE b = a
  BY <1>1, <1>2 DEF Lock, Lockable, One
<1>3. CASE b # a
  BY <1>1, <1>3 DEF Lock, Lockable, One
<1> QED BY <1>2, <1>3

LEMMA FullOne ==
  ASSUME NEW locks \in [Cards -> Nat], NEW a, Single(a), ~Full(locks, a)
  PROVE  locks[a] < Lines[a]
BY LimitsAssumption DEF Single, Full, Lockable

\* getCallInfo returns true: one entry for each lock leg l gets, the other
\* copies of its SourceData belonging to calls that are not card a's.
LEMMA FoundMoves ==
  ASSUME TypeOK, NEW a, Single(a), NEW l \in Legs, NEW copies, l \in copies,
         CallInfoFound(l, copies), ~lockIn[l], ~lockOut[l],
         \A k \in copies \ {l} : Source[k[1]] # a /\ OutCard[k] # a
  PROVE  LegMoves(a, l)
<1> DEFINE s    == Source[l[1]]
           o    == OutCard[l]
           once == LocksIn(l[1])
<1>1. cardLocks \in [Cards -> Nat] /\ Lines[a] \in Nat /\ a \in Cards
  BY LimitsAssumption DEF TypeOK, Single
<1>2. /\ once \in [Cards -> Nat] /\ once[a] = cardLocks[a] + One(s = a)
      /\ cardLocks' = Lock(once, o) /\ cardLocks'[a] = once[a] + One(o = a)
  BY <1>1, LockOne DEF CallInfoFound, LocksIn
<1>3. s = a => cardLocks[a] < Lines[a]
  BY <1>1, FullOne DEF CallInfoFound
<1>4. o = a => once[a] < Lines[a]
  BY <1>1, <1>2, FullOne DEF CallInfoFound
<1>5. \A k \in Legs : /\ lockIn'[k] = IF k \in copies THEN Lockable(s) ELSE lockIn[k]
                      /\ lockOut'[k] = IF k \in copies THEN Lockable(o) ELSE lockOut[k]
  BY DEF CallInfoFound
<1>6. \A k \in Legs \ {l} : /\ AsCaller(k, a)' <=> AsCaller(k, a)
                            /\ AsCalled(k, a)' <=> AsCalled(k, a)
  BY <1>5 DEF AsCaller, AsCalled
<1>7. AsCaller(l, a)' <=> s = a
  BY <1>1, <1>5, LockOne DEF AsCaller
<1>8. AsCalled(l, a)' <=> o = a
  BY <1>1, <1>5, LockOne DEF AsCalled
<1>9. ~AsCaller(l, a) /\ ~AsCalled(l, a)
  BY DEF AsCaller, AsCalled
<1> HIDE DEF s, o, once
<1>10. cardLocks'[a] = cardLocks[a] + One(AsCaller(l, a)') - One(AsCaller(l, a))
                                    + One(AsCalled(l, a)') - One(AsCalled(l, a))
  BY <1>1, <1>2, <1>7, <1>8, <1>9 DEF One
<1>11. cardLocks'[a] <= cardLocks[a] \/ cardLocks'[a] <= Lines[a]
  BY <1>1, <1>2, <1>3, <1>4 DEF One
<1> QED BY <1>6, <1>10, <1>11 DEF LegMoves

\* getCallInfo returns false: the locks it leaves behind are leg l's.
LEMMA FailsMoves ==
  ASSUME TypeOK, NEW a, Single(a), NEW l \in Legs, CallInfoFails(l), ~lockIn[l], ~lockOut[l]
  PROVE  CardMoves(a)
<1> DEFINE s    == Source[l[1]]
           o    == OutCard[l]
           once == LocksIn(l[1])
<1>1. cardLocks \in [Cards -> Nat] /\ Lines[a] \in Nat /\ a \in Cards
  BY LimitsAssumption DEF TypeOK, Single
<1>2. /\ once \in [Cards -> Nat] /\ once[a] = cardLocks[a] + One(s = a)
      /\ Lock(once, o)[a] = once[a] + One(o = a)
  BY <1>1, LockOne DEF LocksIn
<1>3. ~AsCaller(l, a) /\ ~AsCalled(l, a)
  BY DEF AsCaller, AsCalled
<1>4. CASE UNCHANGED lockVars
  BY <1>4 DEF lockVars, CardMoves, LocksQuiet, AsCaller, AsCalled
<1>5. CASE /\ ~Full(cardLocks, s) /\ Full(once, o)
           /\ cardLocks' = once
           /\ lockIn' = [lockIn EXCEPT ![l] = Lockable(s)]
           /\ UNCHANGED lockOut
  <2>1. \A k \in Legs \ {l} : /\ AsCaller(k, a)' <=> AsCaller(k, a)
                              /\ AsCalled(k, a)' <=> AsCalled(k, a)
    BY <1>5 DEF AsCaller, AsCalled, TypeOK
  <2>2. (AsCaller(l, a)' <=> s = a) /\ ~AsCalled(l, a)'
    <3>1. lockIn'[l] = Lockable(s) /\ ~lockOut'[l]
      BY <1>5 DEF TypeOK
    <3>2. s = a => Lockable(s)
      BY <1>1, LockOne
    <3> QED BY <3>1, <3>2 DEF AsCaller, AsCalled
  <2>3. s = a => cardLocks[a] < Lines[a]
    BY <1>1, <1>5, FullOne
  <2> HIDE DEF s, o, once
  <2>4. cardLocks'[a] = cardLocks[a] + One(AsCaller(l, a)') - One(AsCaller(l, a))
                                     + One(AsCalled(l, a)') - One(AsCalled(l, a))
    BY <1>1, <1>2, <1>3, <1>5, <2>2 DEF One
  <2>5. cardLocks'[a] <= cardLocks[a] \/ cardLocks'[a] <= Lines[a]
    BY <1>1, <1>2, <1>5, <2>3 DEF One
  <2> QED BY <2>1, <2>4, <2>5 DEF LegMoves, CardMoves
<1>6. CASE /\ ~Full(cardLocks, s) /\ ~Full(once, o)
           /\ cardLocks' = Lock(once, o)
           /\ lockIn' = [lockIn EXCEPT ![l] = Lockable(s)]
           /\ lockOut' = [lockOut EXCEPT ![l] = Lockable(o)]
  <2>1. \A k \in Legs \ {l} : /\ AsCaller(k, a)' <=> AsCaller(k, a)
                              /\ AsCalled(k, a)' <=> AsCalled(k, a)
    BY <1>6 DEF AsCaller, AsCalled, TypeOK
  <2>2. (AsCaller(l, a)' <=> s = a) /\ (AsCalled(l, a)' <=> o = a)
    <3>1. lockIn'[l] = Lockable(s) /\ lockOut'[l] = Lockable(o)
      BY <1>6 DEF TypeOK
    <3>2. (s = a => Lockable(s)) /\ (o = a => Lockable(o))
      BY <1>1, LockOne
    <3> QED BY <3>1, <3>2 DEF AsCaller, AsCalled
  <2>3. (s = a => cardLocks[a] < Lines[a]) /\ (o = a => once[a] < Lines[a])
    BY <1>1, <1>2, <1>6, FullOne
  <2> HIDE DEF s, o, once
  <2>4. cardLocks'[a] = cardLocks[a] + One(AsCaller(l, a)') - One(AsCaller(l, a))
                                     + One(AsCalled(l, a)') - One(AsCalled(l, a))
    BY <1>1, <1>2, <1>3, <1>6, <2>2 DEF One
  <2>5. cardLocks'[a] <= cardLocks[a] \/ cardLocks'[a] <= Lines[a]
    BY <1>1, <1>2, <1>6, <2>3 DEF One
  <2> QED BY <2>1, <2>4, <2>5 DEF LegMoves, CardMoves
<1> QED BY <1>4, <1>5, <1>6 DEF CallInfoFails

\* removeCall finds the entries of the locks it erases.
LEMMA EraseMoves ==
  ASSUME TypeOK, NEW a, Single(a), LinesKept(a), NEW l \in Legs, EraseLocks(l)
  PROVE  LegMoves(a, l)
<1> DEFINE s     == Source[l[1]]
           o     == OutCard[l]
           after == IF s \in Cards /\ lockIn[l] THEN EraseLock(cardLocks, s) ELSE cardLocks
<1>1. cardLocks \in [Cards -> Nat] /\ a \in Cards /\ a # NoCard
  BY DisjointAssumption DEF TypeOK, Single
<1>2. /\ cardLocks' = IF o # NoCard /\ lockOut[l] THEN EraseLock(after, o) ELSE after
      /\ lockIn' = [lockIn EXCEPT ![l] = @ /\ s \notin Cards]
      /\ lockOut' = [lockOut EXCEPT ![l] = @ /\ o = NoCard]
  BY DEF EraseLocks
<1>3. cardLocks[a] >= One(AsCaller(l, a)) + One(AsCalled(l, a))
  <2>1. AsCaller(l, a) => Cardinality(CallerLocks(a)) >= 1
    <3>1. AsCaller(l, a) => CallerLocks(a) # {}
      BY DEF AsCaller, CallerLocks
    <3> QED BY <3>1, LocksFinite, FS_CardinalityType, FS_EmptySet
  <2>2. AsCalled(l, a) => Cardinality(CalledLocks(a)) >= 1
    <3>1. AsCalled(l, a) => CalledLocks(a) # {}
      BY DEF AsCalled, CalledLocks
    <3> QED BY <3>1, LocksFinite, FS_CardinalityType, FS_EmptySet
  <2>3. Cardinality(CallerLocks(a)) \in Nat /\ Cardinality(CalledLocks(a)) \in Nat
    BY LocksFinite, FS_CardinalityType
  <2>4. cardLocks[a] = Cardinality(CallerLocks(a)) + Cardinality(CalledLocks(a))
    BY DEF LinesKept
  <2> QED BY <2>1, <2>2, <2>3, <2>4 DEF One
<1>4. \A k \in Legs \ {l} : /\ AsCaller(k, a)' <=> AsCaller(k, a)
                            /\ AsCalled(k, a)' <=> AsCalled(k, a)
  BY <1>2 DEF AsCaller, AsCalled, TypeOK
<1>5. ~AsCaller(l, a)' /\ ~AsCalled(l, a)'
  BY <1>1, <1>2 DEF AsCaller, AsCalled, TypeOK
<1>6. after \in [Cards -> Nat] /\ after[a] = cardLocks[a] - One(AsCaller(l, a))
  <2>1. CASE s \in Cards /\ lockIn[l]
    <3>1. after \in [Cards -> Nat]
      BY <1>1, <2>1, EraseLockType
    <3>2. CASE s = a
      BY <1>1, <1>3, <2>1, <3>1, <3>2 DEF EraseLock, AsCaller, One
    <3>3. CASE s # a
      BY <1>1, <2>1, <3>1, <3>3 DEF EraseLock, AsCaller, One
    <3> QED BY <3>2, <3>3
  <2>2. CASE ~(s \in Cards /\ lockIn[l])
    BY <1>1, <2>2 DEF AsCaller, One
  <2> QED BY <2>1, <2>2
<1> HIDE DEF after
<1>7. cardLocks'[a] = after[a] - One(AsCalled(l, a))
  <2>1. CASE o # NoCard /\ lockOut[l]
    <3>1. CASE o = a
      <4>1. AsCalled(l, a) /\ after[a] > 0
        BY <1>1, <1>3, <1>6, <2>1, <3>1 DEF AsCalled, One
      <4> QED BY <1>1, <1>2, <1>6, <2>1, <3>1, <4>1 DEF EraseLock, One
    <3>2. CASE o # a
      BY <1>1, <1>2, <1>6, <2>1, <3>2 DEF EraseLock, AsCalled, One
    <3> QED BY <3>1, <3>2
  <2>2. CASE ~(o # NoCard /\ lockOut[l])
    BY <1>1, <1>2, <1>6, <2>2 DEF AsCalled, One
  <2> QED BY <2>1, <2>2
<1>8. cardLocks'[a] = cardLocks[a] + One(AsCaller(l, a)') - One(AsCaller(l, a))
                                   + One(AsCalled(l, a)') - One(AsCalled(l, a))
  BY <1>1, <1>5, <1>6, <1>7 DEF One
<1>9. cardLocks'[a] <= cardLocks[a]
  BY <1>1, <1>6, <1>7 DEF One
<1> QED BY <1>4, <1>8, <1>9 DEF LegMoves

-----------------------------------------------------------------------------
(* Every step moves at most the locks of one leg.                          *)

\* The leg of a call, and the call of a leg, that getCallInfo runs for.
LEMMA FreshLeg ==
  ASSUME LocksFresh, NEW l \in Legs,
         \/ pc[l[1]] \in {"new", "accepted"}
         \/ Kind[l[1]] = "callback" /\ lpc[l] \in {"none", "init"}
  PROVE  ~lockIn[l] /\ ~lockOut[l]
BY DEF LocksFresh

LEMMA RoutedMoves ==
  ASSUME TypeOK, LocksFresh, NEW a, Single(a), NEW c \in Calls, pc[c] = "accepted",
         CallInfoFound(<<c, 1>>, {<<c, 1>>})
  PROVE  CardMoves(a)
<1> DEFINE l == <<c, 1>>
<1>1. l \in Legs /\ l[1] = c
  BY FirstLegs
<1>2. ~lockIn[l] /\ ~lockOut[l]
  BY <1>1, FreshLeg
<1> HIDE DEF l
<1>3. LegMoves(a, l)
  BY <1>1, <1>2, FoundMoves DEF l
<1> QED BY <1>1, <1>3 DEF CardMoves

\* The forks of an AnswerCall: either there is one, or none of them is of a
\* card that no call forks.
LEMMA AnswerMoves ==
  ASSUME TypeOK, CallStages, LocksFresh, NEW a, Single(a), NEW c \in Calls, AnswerCall(c)
  PROVE  CardMoves(a)
<1> DEFINE l     == <<c, 1>>
           forks == {c} \X (1 .. Forks[c])
<1>1. l \in Legs /\ l[1] = c
  BY FirstLegs
<1>2. ~lockIn[l] /\ ~lockOut[l]
  BY <1>1, FreshLeg DEF AnswerCall
<1>3. CallInfoFound(l, forks) /\ Kind[c] # "callback"
  BY DEF AnswerCall
<1>4. l \in forks
  BY TrafficAssumption
<1>5. \A k \in forks \ {l} : Source[k[1]] # a /\ OutCard[k] # a
  <2> SUFFICES ASSUME NEW f \in 1 .. Forks[c], f # 1
               PROVE  Source[c] # a /\ OutCard[<<c, f>>] # a
    OBVIOUS
  <2>1. Forks[c] \in 1 .. MaxForks /\ MaxForks \in Nat
    BY TrafficAssumption, FiniteAssumption
  <2>2. Forks[c] > 1 /\ f \in 1 .. MaxForks
    BY <2>1
  <2> QED BY <1>3, <2>2 DEF Single, Forked
<1> HIDE DEF l, forks
<1>6. LegMoves(a, l)
  BY <1>1, <1>2, <1>3, <1>4, <1>5, FoundMoves
<1> QED BY <1>1, <1>6 DEF CardMoves

LEMMA CardStep ==
  ASSUME TypeOK, CallStages, LegStages, LocksFresh, [Next]_vars,
         NEW a, Single(a), LinesKept(a)
  PROVE  CardMoves(a)
<1>1. ASSUME NEW c \in Calls, RejectCall(c) PROVE CardMoves(a)
  <2> DEFINE l == <<c, 1>>
  <2>1. l \in Legs /\ l[1] = c
    BY FirstLegs
  <2>2. ~lockIn[l] /\ ~lockOut[l] /\ CallInfoFails(l)
    BY <1>1, <2>1, FreshLeg DEF RejectCall
  <2> QED BY <2>1, <2>2, FailsMoves
<1>2. ASSUME NEW c \in Calls, DropRoutedCall(c) PROVE CardMoves(a)
  BY <1>2, RoutedMoves DEF DropRoutedCall
<1>3. ASSUME NEW c \in Calls, ProxyCall(c) PROVE CardMoves(a)
  BY <1>3, RoutedMoves DEF ProxyCall
<1>4. ASSUME NEW c \in Calls, AnswerCall(c) PROVE CardMoves(a)
  BY <1>4, AnswerMoves
<1>5. ASSUME UNCHANGED lockVars PROVE CardMoves(a)
  BY <1>5 DEF lockVars, CardMoves, LocksQuiet, AsCaller, AsCalled
<1>6. ASSUME NEW c \in Calls, RefusedCallEnds(c) PROVE CardMoves(a)
  <2>1. CASE Kind[c] = "h323"
    <3>1. EraseLocks(<<c, 1>>)
      BY <1>6, <2>1 DEF RefusedCallEnds
    <3> QED BY <3>1, FirstLegs, EraseMoves DEF CardMoves
  <2>2. CASE Kind[c] # "h323"
    <3>1. UNCHANGED lockVars
      BY <1>6, <2>2 DEF RefusedCallEnds
    <3> QED BY <1>5, <3>1
  <2> QED BY <2>1, <2>2
<1>7. ASSUME NEW l \in Legs, RemoveCall(l) PROVE CardMoves(a)
  BY <1>7, EraseMoves DEF RemoveCall, CardMoves
<1>8. ASSUME NEW l \in Legs, CallBackInit(l) PROVE CardMoves(a)
  <2>1. Kind[l[1]] = "callback"
    BY <1>8 DEF CallBackInit, LegStages
  <2>2. ~lockIn[l] /\ ~lockOut[l] /\ CallInfoFound(l, {l})
    BY <1>8, <2>1, FreshLeg DEF CallBackInit
  <2>3. LegMoves(a, l)
    BY <2>2, FoundMoves
  <2> QED BY <2>3 DEF CardMoves
<1>9. ASSUME NEW l \in Legs, CallBackInitFails(l) PROVE CardMoves(a)
  <2>1. Kind[l[1]] = "callback"
    BY <1>9 DEF CallBackInitFails, LegStages
  <2>2. ~lockIn[l] /\ ~lockOut[l] /\ CallInfoFails(l)
    BY <1>9, <2>1, FreshLeg DEF CallBackInitFails
  <2> QED BY <2>2, FailsMoves
<1>10. ASSUME NEW c \in Calls, CallNext(c) PROVE CardMoves(a)
  BY <1>1, <1>2, <1>3, <1>4, <1>5, <1>6, <1>10
  DEF CallNext, TryTake, SmsCall, ProxyEnds, AnswerLegEnds
<1>11. ASSUME NEW l \in Legs, LegNext(l) PROVE CardMoves(a)
  BY <1>5, <1>7, <1>8, <1>9, <1>11
  DEF LegNext, NextChoice, ChoiceLacksGw, ChoiceRefused, TakeChoice, Connect, CloseChoice,
      LegEnds, CallBackLegEnds
<1>12. ASSUME SetShuttingDown \/ WaitForSignallingChannels \/ UNCHANGED vars
       PROVE  CardMoves(a)
  BY <1>5, <1>12 DEF SetShuttingDown, WaitForSignallingChannels, vars
<1> QED BY <1>10, <1>11, <1>12 DEF Next, Terminated

-----------------------------------------------------------------------------
(* A leg that may still be routed has no lock.                             *)

\* A step that only takes flags away, or gives them to legs whose calls are
\* past routing, and puts no call or leg back, keeps the others fresh.
LEMMA FreshKeeps ==
  ASSUME LocksFresh,
         \A l \in Legs :
           (\/ pc'[l[1]] \in {"new", "accepted"}
            \/ Kind[l[1]] = "callback" /\ lpc'[l] \in {"none", "init"})
           => /\ \/ pc[l[1]] \in {"new", "accepted"}
                 \/ Kind[l[1]] = "callback" /\ lpc[l] \in {"none", "init"}
              /\ (lockIn'[l] => lockIn[l]) /\ (lockOut'[l] => lockOut[l])
  PROVE  LocksFresh'
BY DEF LocksFresh

LEMMA FreshInit == Init => LocksFresh
BY DEF Init, LocksFresh

LEMMA EraseOnlyTakes ==
  ASSUME TypeOK, NEW l \in Legs, EraseLocks(l)
  PROVE  \A k \in Legs : (lockIn'[k] => lockIn[k]) /\ (lockOut'[k] => lockOut[k])
BY DEF EraseLocks, TypeOK

LEMMA FailsOnlyOne ==
  ASSUME TypeOK, NEW l \in Legs, CallInfoFails(l)
  PROVE  \A k \in Legs \ {l} : lockIn'[k] = lockIn[k] /\ lockOut'[k] = lockOut[k]
BY DEF CallInfoFails, TypeOK, lockVars

LEMMA FoundOnlyCopies ==
  ASSUME NEW l, NEW copies, CallInfoFound(l, copies)
  PROVE  \A k \in Legs \ copies : lockIn'[k] = lockIn[k] /\ lockOut'[k] = lockOut[k]
BY DEF CallInfoFound

LEMMA FreshStep ==
  TypeOK /\ CallStages /\ LegStages /\ LocksFresh /\ [Next]_vars => LocksFresh'
<1> SUFFICES ASSUME TypeOK, CallStages, LegStages, LocksFresh, [Next]_vars PROVE LocksFresh'
  OBVIOUS
<1>1. ASSUME NEW c \in Calls, TryTake(c) PROVE LocksFresh'
  BY <1>1, FreshKeeps DEF TryTake, TypeOK, lockVars
<1>2. ASSUME NEW c \in Calls, NEW par \in BOOLEAN, SmsCall(c, par) PROVE LocksFresh'
  <2>1. \A l \in Legs : l[1] # c => pc'[l[1]] = pc[l[1]] /\ lpc'[l] = lpc[l]
    BY <1>2, FirstLegs, LegParts DEF SmsCall, TypeOK
  <2>2. pc[c] = "new" /\ UNCHANGED <<lockIn, lockOut>>
    BY <1>2 DEF SmsCall, lockVars
  <2> QED BY <2>1, <2>2, FreshKeeps
<1>3. ASSUME NEW c \in Calls, RejectCall(c) PROVE LocksFresh'
  <2>1. /\ pc' = [pc EXCEPT ![c] = "failing"] /\ UNCHANGED lpc /\ Kind[c] # "callback"
        /\ CallInfoFails(<<c, 1>>)
    BY <1>3 DEF RejectCall, CallStages
  <2>2. \A l \in Legs : l[1] # c => lockIn'[l] = lockIn[l] /\ lockOut'[l] = lockOut[l]
    <3> DEFINE x == <<c, 1>>
    <3>1. x \in Legs /\ x[1] = c /\ CallInfoFails(x)
      BY <2>1, FirstLegs
    <3> HIDE DEF x
    <3>2. \A l \in Legs \ {x} : lockIn'[l] = lockIn[l] /\ lockOut'[l] = lockOut[l]
      BY <3>1, FailsOnlyOne
    <3> QED BY <3>1, <3>2
  <2>3. \A l \in Legs : /\ l[1] # c => pc'[l[1]] = pc[l[1]]
                        /\ l[1] = c => pc'[l[1]] = "failing"
    BY <2>1, LegParts DEF TypeOK
  <2> QED BY <2>1, <2>2, <2>3, FreshKeeps
<1>4. ASSUME NEW c \in Calls, NEW copies, NEW to \in {"failing", "proxying", "answering"},
             Kind[c] # "callback", pc' = [pc EXCEPT ![c] = to],
             CallInfoFound(<<c, 1>>, copies), \A k \in copies : k[1] = c,
             \A l \in Legs : l[1] # c => lpc'[l] = lpc[l]
      PROVE  LocksFresh'
  <2>1. \A l \in Legs : l[1] # c => lockIn'[l] = lockIn[l] /\ lockOut'[l] = lockOut[l]
    BY <1>4, FoundOnlyCopies
  <2>2. \A l \in Legs : /\ l[1] # c => pc'[l[1]] = pc[l[1]]
                        /\ l[1] = c => pc'[l[1]] = to
    BY <1>4, LegParts DEF TypeOK
  <2> QED BY <1>4, <2>1, <2>2, FreshKeeps
<1>5. ASSUME NEW c \in Calls, DropRoutedCall(c) PROVE LocksFresh'
  <2> DEFINE copies == {<<c, 1>>}
  <2>1. /\ Kind[c] # "callback" /\ pc' = [pc EXCEPT ![c] = "failing"]
        /\ CallInfoFound(<<c, 1>>, copies) /\ UNCHANGED lpc
    BY <1>5 DEF DropRoutedCall, CallStages
  <2>2. \A k \in copies : k[1] = c
    OBVIOUS
  <2> HIDE DEF copies
  <2> QED BY <1>4, <2>1, <2>2
<1>6. ASSUME NEW c \in Calls, ProxyCall(c) PROVE LocksFresh'
  <2> DEFINE copies == {<<c, 1>>}
  <2>1. /\ Kind[c] # "callback" /\ pc' = [pc EXCEPT ![c] = "proxying"]
        /\ CallInfoFound(<<c, 1>>, copies)
    BY <1>6 DEF ProxyCall
  <2>2. \A k \in copies : k[1] = c
    OBVIOUS
  <2>3. \A l \in Legs : l[1] # c => lpc'[l] = lpc[l]
    BY <1>6 DEF ProxyCall, StartLegs
  <2> HIDE DEF copies
  <2> QED BY <1>4, <2>1, <2>2, <2>3
<1>7. ASSUME NEW c \in Calls, AnswerCall(c) PROVE LocksFresh'
  <2> DEFINE forks == {c} \X (1 .. Forks[c])
  <2>1. \A k \in forks : k[1] = c
    OBVIOUS
  <2>2. \A l \in Legs : l[1] # c => lpc'[l] = lpc[l]
    BY <1>7 DEF AnswerCall, StartLegs
  <2>3. /\ Kind[c] # "callback" /\ pc' = [pc EXCEPT ![c] = "answering"]
        /\ CallInfoFound(<<c, 1>>, forks)
    BY <1>7 DEF AnswerCall
  <2> HIDE DEF forks
  <2> QED BY <1>4, <2>1, <2>2, <2>3
<1>8. ASSUME NEW c \in Calls, ProxyEnds(c) PROVE LocksFresh'
  <2>1. /\ \A l \in Legs : pc'[l[1]] \in {pc[l[1]], "ended"} /\ lpc'[l] \in {lpc[l], "ended"}
        /\ UNCHANGED <<lockIn, lockOut>>
    BY <1>8, LegParts DEF ProxyEnds, TypeOK, lockVars
  <2> QED BY <2>1, FreshKeeps
<1>9. ASSUME NEW c \in Calls, RefusedCallEnds(c) PROVE LocksFresh'
  <2>1. \A l \in Legs : pc'[l[1]] \in {pc[l[1]], "ended"} /\ lpc'[l] = lpc[l]
    BY <1>9, LegParts DEF RefusedCallEnds, TypeOK
  <2>2. \A l \in Legs : (lockIn'[l] => lockIn[l]) /\ (lockOut'[l] => lockOut[l])
    <3>1. EraseLocks(<<c, 1>>) \/ UNCHANGED <<lockIn, lockOut>>
      BY <1>9 DEF RefusedCallEnds, lockVars
    <3> QED BY <3>1, FirstLegs, EraseOnlyTakes
  <2> QED BY <2>1, <2>2, FreshKeeps
<1>10. ASSUME NEW c \in Calls, AnswerLegEnds(c) PROVE LocksFresh'
  <2>1. /\ \A l \in Legs : pc'[l[1]] \in {pc[l[1]], "ended"}
        /\ UNCHANGED <<lpc, lockIn, lockOut>>
    BY <1>10, LegParts DEF AnswerLegEnds, TypeOK, lockVars
  <2> QED BY <2>1, FreshKeeps
<1>11. ASSUME NEW l \in Legs, Connect(l) PROVE LocksFresh'
  <2>1. \A k \in Legs : lpc'[k] \in {"none", "init"} => lpc[k] \in {"none", "init"}
    BY <1>11 DEF Connect, TypeOK
  <2> QED BY <1>11, <2>1, FreshKeeps DEF Connect, lockVars
<1>12. ASSUME NEW l \in Legs, NEW to, to \notin {"none", "init"},
              lpc' = [lpc EXCEPT ![l] = to],
              \A k \in Legs : pc'[k[1]] \in {pc[k[1]], "ended"},
              \A k \in Legs \ {l} : (lockIn'[k] => lockIn[k]) /\ (lockOut'[k] => lockOut[k]),
              \/ Kind[l[1]] = "callback" /\ pc[l[1]] \notin {"new", "accepted"}
              \/ (lockIn'[l] => lockIn[l]) /\ (lockOut'[l] => lockOut[l])
       PROVE  LocksFresh'
  <2>1. /\ lpc'[l] = to
        /\ \A k \in Legs \ {l} : lpc'[k] = lpc[k]
    BY <1>12 DEF TypeOK
  <2> QED BY <1>12, <2>1, FreshKeeps
<1>13. ASSUME NEW l \in Legs, NEW to, to \notin {"none", "init"},
              lpc' = [lpc EXCEPT ![l] = to], UNCHANGED <<pc, lockVars>>
       PROVE  LocksFresh'
  BY <1>12, <1>13 DEF lockVars
<1>14. ASSUME NEW l \in Legs, RemoveCall(l) PROVE LocksFresh'
  <2>1. \A k \in Legs : (lockIn'[k] => lockIn[k]) /\ (lockOut'[k] => lockOut[k])
    BY <1>14, EraseOnlyTakes DEF RemoveCall
  <2>2. lpc' = [lpc EXCEPT ![l] = "removed"] /\ UNCHANGED pc
    BY <1>14 DEF RemoveCall
  <2> QED BY <1>12, <2>1, <2>2
<1>15. ASSUME NEW l \in Legs, lpc[l] = "init"
       PROVE  Kind[l[1]] = "callback" /\ pc[l[1]] \notin {"new", "accepted"}
  BY <1>15 DEF LegStages
<1>16. ASSUME NEW l \in Legs, CallBackInit(l) PROVE LocksFresh'
  <2>1. \A k \in Legs \ {l} : lockIn'[k] = lockIn[k] /\ lockOut'[k] = lockOut[k]
    BY <1>16, FoundOnlyCopies DEF CallBackInit
  <2>2. \A k \in Legs : lpc'[k] = IF k = l THEN "hunting" ELSE lpc[k]
    BY <1>16 DEF CallBackInit, StartLegs
  <2>3. UNCHANGED pc
    BY <1>16 DEF CallBackInit
  <2>4. Kind[l[1]] = "callback" /\ pc[l[1]] \notin {"new", "accepted"}
    BY <1>15, <1>16 DEF CallBackInit
  <2> QED BY <2>1, <2>2, <2>3, <2>4, FreshKeeps
<1>17. ASSUME NEW l \in Legs, CallBackStop(l)
       PROVE  \A k \in Legs : pc'[k[1]] \in {pc[k[1]], "ended"}
  BY <1>17, LegParts DEF CallBackStop, TypeOK
<1>18. ASSUME NEW l \in Legs, CallBackInitFails(l) PROVE LocksFresh'
  <2>1. \A k \in Legs \ {l} : lockIn'[k] = lockIn[k] /\ lockOut'[k] = lockOut[k]
    BY <1>18, FailsOnlyOne DEF CallBackInitFails
  <2>2. lpc[l] = "init" /\ lpc' = [lpc EXCEPT ![l] = "failed"] /\ CallBackStop(l)
    BY <1>18 DEF CallBackInitFails
  <2> QED BY <1>12, <1>15, <1>17, <2>1, <2>2
<1>19. ASSUME NEW l \in Legs, CallBackLegEnds(l) PROVE LocksFresh'
  <2>1. /\ lpc' = [lpc EXCEPT ![l] = "ended"] /\ CallBackStop(l)
        /\ UNCHANGED <<lockIn, lockOut>>
    BY <1>19 DEF CallBackLegEnds, lockVars
  <2> QED BY <1>12, <1>17, <2>1
<1>20. ASSUME UNCHANGED <<pc, lpc, lockVars>> PROVE LocksFresh'
  BY <1>20, FreshKeeps DEF lockVars
<1>21. ASSUME NEW c \in Calls, CallNext(c) PROVE LocksFresh'
  BY <1>1, <1>2, <1>3, <1>5, <1>6, <1>7, <1>8, <1>9, <1>10, <1>21 DEF CallNext
<1>22. ASSUME NEW l \in Legs, LegNext(l) PROVE LocksFresh'
  <2>1. ASSUME NEW ch \in Choices, ChoiceLacksGw(l, ch) \/ ChoiceRefused(l, ch)
        PROVE  LocksFresh'
    BY <1>20, <2>1 DEF ChoiceLacksGw, ChoiceRefused, NextChoice
  <2>2. ASSUME NEW ch \in Choices, TakeChoice(l, ch) PROVE LocksFresh'
    <3>1. lpc' = [lpc EXCEPT ![l] = "inChoice"] /\ UNCHANGED <<pc, lockVars>>
      BY <2>2 DEF TakeChoice, NextChoice
    <3> QED BY <1>13, <3>1
  <2>3. ASSUME NEW next \in {"hunting", "quitting"}, CloseChoice(l, next) PROVE LocksFresh'
    <3>1. lpc' = [lpc EXCEPT ![l] = next] /\ UNCHANGED <<pc, lockVars>>
      BY <2>3 DEF CloseChoice
    <3> QED BY <1>13, <2>3, <3>1
  <2>4. ASSUME LegEnds(l) PROVE LocksFresh'
    <3>1. lpc' = [lpc EXCEPT ![l] = "ended"] /\ UNCHANGED <<pc, lockVars>>
      BY <2>4 DEF LegEnds
    <3> QED BY <1>13, <3>1
  <2> QED BY <1>11, <1>14, <1>16, <1>18, <1>19, <1>22, <2>1, <2>2, <2>3, <2>4 DEF LegNext
<1>23. ASSUME SetShuttingDown \/ WaitForSignallingChannels \/ UNCHANGED vars
       PROVE  LocksFresh'
  BY <1>20, <1>23 DEF SetShuttingDown, WaitForSignallingChannels, vars, threadVars
<1> QED BY <1>21, <1>22, <1>23 DEF Next, Terminated

-----------------------------------------------------------------------------
(* The invariant of the cards.                                             *)

CardsInv == IInv /\ LocksFresh /\ CardLinesRespected

LEMMA CardsInit == Init => CardsInv
<1> SUFFICES ASSUME Init PROVE CardsInv
  OBVIOUS
<1>1. \A a : CallerLocks(a) = {} /\ CalledLocks(a) = {}
  BY DEF Init, CallerLocks, CalledLocks
<1>2. Cardinality({}) = 0
  BY FS_EmptySet
<1>3. CardLinesRespected
  <2> SUFFICES ASSUME NEW a \in Cards
               PROVE  /\ cardLocks[a] = Cardinality(CallerLocks(a)) + Cardinality(CalledLocks(a))
                      /\ cardLocks[a] <= Lines[a]
    BY DEF CardLinesRespected
  <2>1. cardLocks[a] = 0 /\ Lines[a] \in Nat
    BY LimitsAssumption DEF Init
  <2>2. Cardinality(CallerLocks(a)) = 0 /\ Cardinality(CalledLocks(a)) = 0
    BY <1>1, <1>2
  <2> QED BY <2>1, <2>2
<1> QED BY <1>3, IInvInit, FreshInit DEF CardsInv

LEMMA CardsStep == CardsInv /\ [Next]_vars => CardsInv'
<1> SUFFICES ASSUME CardsInv, [Next]_vars PROVE CardsInv'
  OBVIOUS
<1>1. TypeOK /\ CallStages /\ LegStages /\ LocksFresh
  BY DEF CardsInv, IInv
<1>2. ASSUME NEW a, Single(a) PROVE LinesKept(a)'
  <2>1. LinesKept(a)
    BY <1>2, LinesKeptOfAll DEF CardsInv
  <2>2. CardMoves(a)
    BY <1>1, <1>2, <2>1, CardStep
  <2> QED BY <1>1, <1>2, <2>1, <2>2, CardMovesKeeps
<1>3. CardLinesRespected'
  BY <1>2 DEF CardLinesRespected, Single, LinesKept
<1>4. IInv' /\ LocksFresh'
  BY <1>1, IInvStep, FreshStep DEF CardsInv
<1> QED BY <1>3, <1>4 DEF CardsInv

\* A card that no call forks has one entry of cardLocks for each leg that
\* locked it, as caller or called, and never more of them than its lines.
THEOREM CardLinesAreRespected == Spec => []CardLinesRespected
<1>1. Spec => []CardsInv
  BY CardsInit, CardsStep, PTL DEF Spec
<1> QED BY <1>1, PTL DEF CardsInv

-----------------------------------------------------------------------------
(* The gateway licence: which legs and call-backs own one of its slots.    *)

\* What the stage of a call says of its legs' slots: a call still to be
\* routed has taken none, a proxied call has one leg, the legs of a call-back
\* that is over have all finished.
GwStages ==
  \A l \in Legs :
    /\ pc[l[1]] \in {"new", "accepted"} => ~gwTaken[l]
    /\ pc[l[1]] = "proxying" /\ l[2] # 1 => lpc[l] = "none"
    /\ Kind[l[1]] = "callback" /\ pc[l[1]] = "ended" => Finished(l)

\* gwTaken is the truth about a leg in a choice; it may be stale in between,
\* but only for a leg every choice of which needs a slot.
FlagTrue(l) ==
  /\ gwTaken[l] => \A ch \in Choices : NeedsGw(l, ch)
  /\ InChoice(l) /\ NeedsGw(l, cur[l]) => gwTaken[l]

GwFlags == \A l \in Legs : FlagTrue(l)

\* The slots of gwCallsSem and those in use never exceed the licence.
GwBounded ==
  /\ gwSem >= 0
  /\ gwSem + Cardinality(GwHolders) + Cardinality(CallBacks) <= GwCallsLimit

\* The step leaves leg k's slot and choice alone.
LegSame(k) ==
  /\ InChoice(k)' <=> InChoice(k)
  /\ InChoice(k) => /\ cur'[k] = cur[k]
                    /\ gwTaken'[k] = gwTaken[k]
                    /\ pc'[k[1]] = "proxying" <=> pc[k[1]] = "proxying"
  /\ gwTaken'[k] => gwTaken[k] /\ (pc'[k[1]] = "proxying" => pc[k[1]] = "proxying")

LegsQuiet == GwHolders' = GwHolders
CallBacksQuiet == CallBacks' = CallBacks
LegTakes ==
  \E l \in Legs : /\ l \notin GwHolders /\ GwHolders' = GwHolders \cup {l}
                  /\ gwSem > 0 /\ gwSem' = gwSem - 1
LegGives ==
  \E l \in GwHolders : GwHolders' = GwHolders \ {l} /\ gwSem' = gwSem + 1
CallBackTakes ==
  \E c \in Calls : /\ c \notin CallBacks /\ CallBacks' = CallBacks \cup {c}
                   /\ gwSem > 0 /\ gwSem' = gwSem - 1
CallBackGives ==
  \E c \in CallBacks : CallBacks' = CallBacks \ {c} /\ gwSem' = gwSem + 1

\* A slot may be lost (a refused choice keeps it), never gained.
GwMoves ==
  \/ LegsQuiet /\ CallBacksQuiet /\ (gwSem' = gwSem \/ (gwSem > 0 /\ gwSem' = gwSem - 1))
  \/ LegsQuiet /\ (CallBackTakes \/ CallBackGives)
  \/ CallBacksQuiet /\ (LegTakes \/ LegGives)

LEMMA GwFinite == IsFiniteSet(GwHolders) /\ IsFiniteSet(CallBacks)
<1>1. GwHolders \subseteq Legs /\ CallBacks \subseteq Calls
  BY DEF GwHolders, CallBacks
<1> QED BY <1>1, LegsFinite, FiniteAssumption, FS_Subset

LEMMA GwMovesKeeps ==
  ASSUME TypeOK, GwBounded, GwMoves
  PROVE  GwBounded'
<1>1. /\ gwSem \in Int /\ GwCallsLimit \in Nat
      /\ Cardinality(GwHolders) \in Nat /\ Cardinality(CallBacks) \in Nat
  BY GwFinite, FS_CardinalityType, LimitsAssumption DEF TypeOK
<1>2. /\ gwSem >= 0
      /\ gwSem + Cardinality(GwHolders) + Cardinality(CallBacks) <= GwCallsLimit
  BY DEF GwBounded
<1>3. CASE LegsQuiet /\ CallBacksQuiet /\ (gwSem' = gwSem \/ (gwSem > 0 /\ gwSem' = gwSem - 1))
  BY <1>1, <1>2, <1>3 DEF LegsQuiet, CallBacksQuiet, GwBounded
<1>4. CASE LegsQuiet /\ CallBackTakes
  <2>1. Cardinality(CallBacks') = Cardinality(CallBacks) + 1 /\ gwSem > 0 /\ gwSem' = gwSem - 1
    BY <1>4, GwFinite, AddOne DEF CallBackTakes
  <2> QED BY <1>1, <1>2, <1>4, <2>1 DEF LegsQuiet, GwBounded
<1>5. CASE LegsQuiet /\ CallBackGives
  <2>1. Cardinality(CallBacks') = Cardinality(CallBacks) - 1 /\ gwSem' = gwSem + 1
    BY <1>5, GwFinite, DropOne DEF CallBackGives
  <2> QED BY <1>1, <1>2, <1>5, <2>1 DEF LegsQuiet, GwBounded
<1>6. CASE CallBacksQuiet /\ LegTakes
  <2>1. Cardinality(GwHolders') = Cardinality(GwHolders) + 1 /\ gwSem > 0 /\ gwSem' = gwSem - 1
    BY <1>6, GwFinite, AddOne DEF LegTakes
  <2> QED BY <1>1, <1>2, <1>6, <2>1 DEF CallBacksQuiet, GwBounded
<1>7. CASE CallBacksQuiet /\ LegGives
  <2>1. Cardinality(GwHolders') = Cardinality(GwHolders) - 1 /\ gwSem' = gwSem + 1
    BY <1>7, GwFinite, DropOne DEF LegGives
  <2> QED BY <1>1, <1>2, <1>7, <2>1 DEF CallBacksQuiet, GwBounded
<1> QED BY <1>3, <1>4, <1>5, <1>6, <1>7 DEF GwMoves

\* A leg left alone keeps its flag true and its place among the holders.
LEMMA LegSameKeeps ==
  ASSUME TypeOK, NEW k \in Legs, FlagTrue(k), LegSame(k)
  PROVE  FlagTrue(k)' /\ (k \in GwHolders' <=> k \in GwHolders)
BY DEF FlagTrue, LegSame, NeedsGw, GwHolders

LEMMA LegsSameKeep ==
  ASSUME TypeOK, GwFlags, \A k \in Legs : LegSame(k)
  PROVE  GwFlags' /\ LegsQuiet
<1>1. \A k \in Legs : FlagTrue(k)' /\ (k \in GwHolders' <=> k \in GwHolders)
  BY LegSameKeeps DEF GwFlags
<1>2. GwHolders \subseteq Legs /\ GwHolders' \subseteq Legs
  BY DEF GwHolders
<1> QED BY <1>1, <1>2 DEF GwFlags, LegsQuiet

\* Without mixed routes a leg needs a slot for every choice or for none.
LEMMA NeedsAllOrNone ==
  ASSUME NoMixedRoutes, NEW l \in Legs, NEW x \in Choices, NEW y \in Choices, NeedsGw(l, x)
  PROVE  NeedsGw(l, y)
BY LegParts DEF NoMixedRoutes, NeedsGw

\* take with a gateway slot: the flag becomes true and a slot is taken, or
\* nothing happens and the flag was false.
LEMMA TakeGwCases ==
  ASSUME TypeOK, NoMixedRoutes, GwFlags, NEW l \in Legs, NEW ch \in Choices, TakeGw(l, ch)
  PROVE  \/ /\ NeedsGw(l, ch) /\ gwSem > 0 /\ gwSem' = gwSem - 1
            /\ gwTaken' = [gwTaken EXCEPT ![l] = TRUE]
         \/ ~NeedsGw(l, ch) /\ ~gwTaken[l] /\ UNCHANGED gwVars
BY DEF TakeGw, GwFlags, FlagTrue

\* The flag leg l may set is true of every choice.
LEMMA FlagNeeded ==
  ASSUME TypeOK, NoMixedRoutes, NEW l \in Legs, NEW ch \in Choices, NeedsGw(l, ch), UNCHANGED pc
  PROVE  \A x \in Choices : NeedsGw(l, x)'
<1>1. \A x \in Choices : NeedsGw(l, x)
  BY NeedsAllOrNone
<1> QED BY <1>1 DEF NeedsGw

LEMMA OtherLegsSame ==
  ASSUME TypeOK, GwFlags, NEW l \in Legs, UNCHANGED pc,
         \A k \in Legs \ {l} : /\ lpc'[k] = lpc[k] /\ cur'[k] = cur[k]
                               /\ gwTaken'[k] = gwTaken[k]
  PROVE  \A k \in Legs \ {l} : FlagTrue(k)' /\ (k \in GwHolders' <=> k \in GwHolders)
<1>1. \A k \in Legs \ {l} : LegSame(k)
  BY DEF LegSame, InChoice
<1> QED BY <1>1, LegSameKeeps DEF GwFlags

LEMMA PcKeepsCallBacks == UNCHANGED pc => CallBacksQuiet
BY DEF CallBacks, CallBacksQuiet

LEMMA ChoiceRefusedMoves ==
  ASSUME TypeOK, NoMixedRoutes, GwFlags, NEW l \in Legs, NEW ch \in Choices,
         ChoiceRefused(l, ch)
  PROVE  GwFlags' /\ GwMoves
<1>1. /\ UNCHANGED <<pc, lpc, cur>> /\ TakeGw(l, ch) /\ lpc[l] = "hunting"
  BY DEF ChoiceRefused, NextChoice
<1>2. gwTaken \in [Legs -> BOOLEAN]
  BY DEF TypeOK
<1>3. CASE /\ NeedsGw(l, ch) /\ gwSem > 0 /\ gwSem' = gwSem - 1
           /\ gwTaken' = [gwTaken EXCEPT ![l] = TRUE]
  <2>1. \A k \in Legs \ {l} : FlagTrue(k)' /\ (k \in GwHolders' <=> k \in GwHolders)
    BY <1>1, <1>2, <1>3, OtherLegsSame
  <2>2. FlagTrue(l)'
    BY <1>1, <1>2, <1>3, FlagNeeded DEF FlagTrue
  <2>3. l \notin GwHolders /\ l \notin GwHolders'
    BY <1>1 DEF GwHolders, InChoice
  <2>4. GwHolders \subseteq Legs /\ GwHolders' \subseteq Legs
    BY DEF GwHolders
  <2>5. LegsQuiet
    BY <2>1, <2>3, <2>4 DEF LegsQuiet
  <2> QED BY <1>1, <1>3, <2>1, <2>2, <2>5, PcKeepsCallBacks DEF GwFlags, GwMoves
<1>4. CASE UNCHANGED gwVars
  <2>1. \A k \in Legs : LegSame(k)
    BY <1>1, <1>4 DEF LegSame, InChoice, gwVars
  <2>2. gwSem' = gwSem /\ CallBacksQuiet
    BY <1>1, <1>4, PcKeepsCallBacks DEF gwVars
  <2>3. GwFlags' /\ LegsQuiet
    BY <2>1, LegsSameKeep
  <2> QED BY <2>2, <2>3 DEF GwMoves
<1> QED BY <1>1, <1>3, <1>4, TakeGwCases

LEMMA TakeChoiceMoves ==
  ASSUME TypeOK, NoMixedRoutes, GwFlags, NEW l \in Legs, NEW ch \in Choices, TakeChoice(l, ch)
  PROVE  GwFlags' /\ GwMoves
<1>1. /\ UNCHANGED pc /\ TakeGw(l, ch) /\ lpc[l] = "hunting"
      /\ lpc' = [lpc EXCEPT ![l] = "inChoice"]
      /\ cur' = [cur EXCEPT ![l] = ch]
  BY DEF TakeChoice, NextChoice
<1>2. /\ gwTaken \in [Legs -> BOOLEAN] /\ lpc \in [Legs -> LegPCs] /\ cur \in [Legs -> Choices]
  BY DEF TypeOK
<1>3. /\ lpc'[l] = "inChoice" /\ cur'[l] = ch
      /\ \A k \in Legs \ {l} : lpc'[k] = lpc[k] /\ cur'[k] = cur[k]
  BY <1>1, <1>2
<1>4. NeedsGw(l, ch)' <=> NeedsGw(l, ch)
  BY <1>1 DEF NeedsGw
<1>5. /\ l \notin GwHolders
      /\ l \in GwHolders' <=> NeedsGw(l, ch)
  BY <1>1, <1>3, <1>4 DEF GwHolders, InChoice, NeedsGw
<1>6. GwHolders \subseteq Legs /\ GwHolders' \subseteq Legs
  BY DEF GwHolders
<1>7. CASE /\ NeedsGw(l, ch) /\ gwSem > 0 /\ gwSem' = gwSem - 1
           /\ gwTaken' = [gwTaken EXCEPT ![l] = TRUE]
  <2>1. \A k \in Legs \ {l} : FlagTrue(k)' /\ (k \in GwHolders' <=> k \in GwHolders)
    BY <1>1, <1>2, <1>3, <1>7, OtherLegsSame
  <2>2. FlagTrue(l)'
    BY <1>1, <1>2, <1>7, FlagNeeded DEF FlagTrue
  <2>3. GwHolders' = GwHolders \cup {l}
    BY <1>5, <1>6, <1>7, <2>1
  <2>4. LegTakes
    BY <1>5, <1>7, <2>3 DEF LegTakes
  <2> QED BY <1>1, <2>1, <2>2, <2>4, PcKeepsCallBacks DEF GwFlags, GwMoves
<1>8. CASE ~NeedsGw(l, ch) /\ ~gwTaken[l] /\ UNCHANGED gwVars
  <2>1. \A k \in Legs \ {l} : FlagTrue(k)' /\ (k \in GwHolders' <=> k \in GwHolders)
    BY <1>1, <1>2, <1>3, <1>8, OtherLegsSame DEF gwVars
  <2>2. FlagTrue(l)'
    BY <1>1, <1>3, <1>8 DEF FlagTrue, NeedsGw, gwVars
  <2>3. LegsQuiet
    BY <1>5, <1>6, <1>8, <2>1 DEF LegsQuiet
  <2>4. gwSem' = gwSem /\ CallBacksQuiet
    BY <1>1, <1>8, PcKeepsCallBacks DEF gwVars
  <2>5. GwFlags'
    BY <2>1, <2>2 DEF GwFlags
  <2> QED BY <2>3, <2>4, <2>5 DEF GwMoves
<1> QED BY <1>1, <1>7, <1>8, TakeGwCases

LEMMA CloseChoiceMoves ==
  ASSUME TypeOK, NoMixedRoutes, GwFlags, NEW l \in Legs,
         NEW next \in {"hunting", "quitting"}, CloseChoice(l, next)
  PROVE  GwFlags' /\ GwMoves
<1>1. /\ UNCHANGED <<pc, gwTaken>> /\ InChoice(l)
      /\ lpc' = [lpc EXCEPT ![l] = next]
      /\ cur' = [cur EXCEPT ![l] = CardDest]
      /\ gwSem' = IF gwTaken[l] THEN gwSem + 1 ELSE gwSem
  BY DEF CloseChoice, InChoice
<1>2. /\ lpc'[l] = next
      /\ \A k \in Legs \ {l} : lpc'[k] = lpc[k] /\ cur'[k] = cur[k]
  BY <1>1 DEF TypeOK
<1>3. \A k \in Legs \ {l} : FlagTrue(k)' /\ (k \in GwHolders' <=> k \in GwHolders)
  BY <1>1, <1>2, OtherLegsSame
<1>4. ~InChoice(l)'
  BY <1>2 DEF InChoice
<1>5. FlagTrue(l)'
  BY <1>1, <1>4 DEF GwFlags, FlagTrue, NeedsGw
<1>6. l \notin GwHolders' /\ (l \in GwHolders <=> gwTaken[l])
  BY <1>1, <1>4 DEF GwHolders, GwFlags, FlagTrue, TypeOK
<1>7. GwHolders \subseteq Legs /\ GwHolders' \subseteq Legs
  BY DEF GwHolders
<1>8. CASE gwTaken[l]
  <2>1. GwHolders' = GwHolders \ {l}
    BY <1>3, <1>6, <1>7
  <2> QED BY <1>1, <1>3, <1>5, <1>6, <1>8, <2>1, PcKeepsCallBacks
          DEF GwFlags, GwMoves, LegGives
<1>9. CASE ~gwTaken[l]
  <2>1. LegsQuiet
    BY <1>3, <1>6, <1>7, <1>9 DEF LegsQuiet
  <2>2. gwSem' = gwSem /\ CallBacksQuiet
    BY <1>1, <1>9, PcKeepsCallBacks
  <2>3. GwFlags'
    BY <1>3, <1>5 DEF GwFlags
  <2> QED BY <2>1, <2>2, <2>3 DEF GwMoves
<1> QED BY <1>8, <1>9

-----------------------------------------------------------------------------
(* The steps that leave every leg's slot alone.                            *)

\* What such a step does to gwCallsSem and the call-backs.
OnlyCallBacks ==
  \/ CallBacksQuiet /\ gwSem' = gwSem
  \/ CallBackTakes
  \/ CallBackGives

LEMMA LegsSameMoves ==
  ASSUME TypeOK, GwFlags, \A k \in Legs : LegSame(k), OnlyCallBacks
  PROVE  GwFlags' /\ GwMoves
<1>1. GwFlags' /\ LegsQuiet
  BY LegsSameKeep
<1> QED BY <1>1 DEF OnlyCallBacks, GwMoves

\* No call-back begins or ends when another call moves on.
LEMMA OtherStage ==
  ASSUME TypeOK, CallStages, NEW c \in Calls, Kind[c] # "callback",
         NEW to, to # "callback", pc' = [pc EXCEPT ![c] = to]
  PROVE  CallBacksQuiet
<1>1. pc[c] # "callback"
  BY DEF CallStages
<1>2. \A d \in Calls : pc'[d] = "callback" <=> pc[d] = "callback"
  BY <1>1 DEF TypeOK
<1> QED BY <1>2 DEF CallBacks, CallBacksQuiet

\* A call that is routed has no leg with a slot; its legs start hunting.
LEMMA RoutedSame ==
  ASSUME TypeOK, CallStages, LegStages, GwStages, NEW c \in Calls, pc[c] = "accepted",
         NEW to, pc' = [pc EXCEPT ![c] = to], UNCHANGED <<cur, gwTaken>>,
         \A l \in Legs : /\ l[1] # c => lpc'[l] = lpc[l]
                         /\ l[1] = c => lpc'[l] \in {lpc[l], "hunting"}
  PROVE  \A k \in Legs : LegSame(k)
<1> SUFFICES ASSUME NEW k \in Legs PROVE LegSame(k)
  OBVIOUS
<1>1. CASE k[1] = c
  <2>1. ~gwTaken[k] /\ lpc[k] = "none"
    BY <1>1 DEF GwStages, LegStages
  <2> QED BY <1>1, <2>1 DEF LegSame, InChoice
<1>2. CASE k[1] # c
  <2>1. pc'[k[1]] = pc[k[1]] /\ lpc'[k] = lpc[k]
    BY <1>2, LegParts DEF TypeOK
  <2> QED BY <2>1 DEF LegSame, InChoice
<1> QED BY <1>1, <1>2

\* A leg between other stages than those in a choice.
LEMMA StageSame ==
  ASSUME TypeOK, NEW l \in Legs, NEW to, ~InChoice(l), to \notin {"inChoice", "talking"},
         lpc' = [lpc EXCEPT ![l] = to], UNCHANGED cur,
         \A k \in Legs : gwTaken'[k] = gwTaken[k] \/ (k = l /\ ~gwTaken'[k]),
         \A k \in Legs : pc'[k[1]] = "proxying" <=> pc[k[1]] = "proxying"
  PROVE  \A k \in Legs : LegSame(k)
<1>1. lpc'[l] = to /\ \A k \in Legs \ {l} : lpc'[k] = lpc[k]
  BY DEF TypeOK
<1> QED BY <1>1 DEF LegSame, InChoice

\* CallBackCall::stop, run by a leg whose call-back is still there.
LEMMA StopMoves ==
  ASSUME TypeOK, CallStages, NEW l \in Legs, Kind[l[1]] = "callback", pc[l[1]] = "callback",
         CallBackStop(l)
  PROVE  /\ (CallBacksQuiet /\ gwSem' = gwSem) \/ CallBackGives
         /\ \A k \in Legs : pc'[k[1]] = "proxying" <=> pc[k[1]] = "proxying"
<1> DEFINE last == \A k \in {l[1]} \X {1, 2} : k = l \/ Finished(k)
<1>1. l[1] \in Calls
  BY LegParts
<1>2. CASE last
  <2>1. pc' = [pc EXCEPT ![l[1]] = "ended"] /\ gwSem' = gwSem + 1
    BY <1>2 DEF CallBackStop
  <2>2. \A c \in Calls : pc'[c] = IF c = l[1] THEN "ended" ELSE pc[c]
    BY <2>1 DEF TypeOK
  <2>3. l[1] \in CallBacks /\ CallBacks' = CallBacks \ {l[1]}
    BY <1>1, <2>2 DEF CallBacks
  <2>4. \A k \in Legs : pc'[k[1]] = "proxying" <=> pc[k[1]] = "proxying"
    BY <2>2, LegParts
  <2> QED BY <2>1, <2>3, <2>4 DEF CallBackGives
<1>3. CASE ~last
  <2>1. UNCHANGED <<pc, gwSem>>
    BY <1>3 DEF CallBackStop
  <2> QED BY <2>1, PcKeepsCallBacks
<1> QED BY <1>2, <1>3

\* A leg of a call-back that has not finished has its call-back.
LEMMA RunningBack ==
  ASSUME CallStages, LegStages, GwStages, NEW l \in Legs, Kind[l[1]] = "callback",
         lpc[l] \in {"init", "removed"}
  PROVE  pc[l[1]] = "callback"
BY LegParts DEF CallStages, LegStages, GwStages, Finished

LEMMA GwStep ==
  ASSUME TypeOK, CallStages, LegStages, GwStages, GwFlags, NoMixedRoutes, [Next]_vars
  PROVE  GwFlags' /\ GwMoves
<1> DEFINE goal == GwFlags' /\ GwMoves
<1>1. ASSUME UNCHANGED <<pc, lpc, cur, gwVars>> PROVE goal
  <2>1. \A k \in Legs : LegSame(k)
    BY <1>1 DEF LegSame, InChoice, gwVars
  <2> QED BY <1>1, <2>1, LegsSameMoves, PcKeepsCallBacks DEF OnlyCallBacks, gwVars
<1>2. ASSUME NEW c \in Calls, TryTake(c) PROVE goal
  <2>1. /\ pc' = [pc EXCEPT ![c] = "accepted"] /\ Kind[c] # "callback" /\ pc[c] = "new"
        /\ UNCHANGED <<lpc, cur, gwSem, gwTaken>>
    BY <1>2 DEF TryTake, gwVars
  <2>2. \A k \in Legs : LegSame(k)
    BY <2>1, LegParts DEF LegSame, InChoice, TypeOK
  <2> QED BY <2>1, <2>2, LegsSameMoves, OtherStage DEF OnlyCallBacks
<1>3. ASSUME NEW c \in Calls, NEW par \in BOOLEAN, SmsCall(c, par) PROVE goal
  <2>1. /\ pc' = [pc EXCEPT ![c] = "callback"] /\ pc[c] = "new"
        /\ gwSem > 0 /\ gwSem' = gwSem - 1
        /\ UNCHANGED <<cur, gwTaken>>
    BY <1>3 DEF SmsCall
  <2>2. \A l \in Legs : \/ lpc'[l] = lpc[l]
                        \/ lpc[l] = "none" /\ lpc'[l] = "init"
    BY <1>3, FirstLegs, LegParts DEF SmsCall, TypeOK, LegStages
  <2>3. \A c2 \in Calls : pc'[c2] = IF c2 = c THEN "callback" ELSE pc[c2]
    BY <2>1 DEF TypeOK
  <2>4. \A k \in Legs : LegSame(k)
    BY <2>1, <2>2, <2>3, LegParts DEF LegSame, InChoice
  <2>5. CallBackTakes
    BY <2>1, <2>3 DEF CallBackTakes, CallBacks
  <2> QED BY <2>4, <2>5, LegsSameMoves DEF OnlyCallBacks
<1>4. ASSUME NEW c \in Calls, NEW to, to # "callback", pc[c] = "accepted",
             pc' = [pc EXCEPT ![c] = to], UNCHANGED <<cur, gwVars>>,
             \A l \in Legs : /\ l[1] # c => lpc'[l] = lpc[l]
                             /\ l[1] = c => lpc'[l] \in {lpc[l], "hunting"}
      PROVE  goal
  <2>1. \A k \in Legs : LegSame(k)
    BY <1>4, RoutedSame DEF gwVars
  <2>2. Kind[c] # "callback"
    BY <1>4 DEF CallStages
  <2>3. CallBacksQuiet /\ gwSem' = gwSem
    BY <1>4, <2>2, OtherStage DEF gwVars
  <2> QED BY <2>1, <2>3, LegsSameMoves DEF OnlyCallBacks
<1>5. ASSUME NEW c \in Calls, RejectCall(c) \/ DropRoutedCall(c) PROVE goal
  <2>1. pc[c] = "accepted" /\ pc' = [pc EXCEPT ![c] = "failing"] /\ UNCHANGED <<lpc, cur, gwVars>>
    BY <1>5 DEF RejectCall, DropRoutedCall
  <2> QED BY <1>4, <2>1
<1>6. ASSUME NEW c \in Calls, ProxyCall(c) PROVE goal
  <2>1. pc[c] = "accepted" /\ pc' = [pc EXCEPT ![c] = "proxying"] /\ UNCHANGED <<cur, gwVars>>
    BY <1>6 DEF ProxyCall
  <2>2. \A l \in Legs : /\ l[1] # c => lpc'[l] = lpc[l]
                        /\ l[1] = c => lpc'[l] \in {lpc[l], "hunting"}
    BY <1>6 DEF ProxyCall, StartLegs
  <2> QED BY <1>4, <2>1, <2>2
<1>7. ASSUME NEW c \in Calls, AnswerCall(c) PROVE goal
  <2>1. pc[c] = "accepted" /\ pc' = [pc EXCEPT ![c] = "answering"] /\ UNCHANGED <<cur, gwVars>>
    BY <1>7 DEF AnswerCall
  <2>2. \A l \in Legs : /\ l[1] # c => lpc'[l] = lpc[l]
                        /\ l[1] = c => lpc'[l] \in {lpc[l], "hunting"}
    BY <1>7 DEF AnswerCall, StartLegs
  <2> QED BY <1>4, <2>1, <2>2
<1>8. ASSUME NEW c \in Calls, ProxyEnds(c) PROVE goal
  <2>1. /\ pc[c] = "proxying" /\ pc' = [pc EXCEPT ![c] = "ended"]
        /\ lpc[<<c, 1>>] = "removed" /\ lpc' = [lpc EXCEPT ![<<c, 1>>] = "ended"]
        /\ UNCHANGED <<cur, gwSem, gwTaken>>
    BY <1>8 DEF ProxyEnds, gwVars
  <2>2. ASSUME NEW k \in Legs, k[1] = c PROVE LegSame(k)
    <3>1. ~gwTaken[k]
      BY <2>1, <2>2 DEF GwFlags, FlagTrue, NeedsGw, Choices
    <3>2. ~InChoice(k) /\ ~InChoice(k)'
      <4>1. CASE k = <<c, 1>>
        BY <2>1, <2>2, <4>1 DEF InChoice, TypeOK
      <4>2. CASE k # <<c, 1>>
        <5>1. k[2] # 1
          BY <2>2, <4>2, LegParts
        <5>2. lpc[k] = "none" /\ lpc'[k] = lpc[k]
          BY <2>1, <2>2, <4>2, <5>1 DEF GwStages, TypeOK
        <5> QED BY <5>2 DEF InChoice
      <4> QED BY <4>1, <4>2
    <3> QED BY <2>1, <3>1, <3>2 DEF LegSame
  <2>3. ASSUME NEW k \in Legs, k[1] # c PROVE LegSame(k)
    <3>1. k # <<c, 1>> /\ k[1] \in Calls
      BY <2>3, LegParts
    <3>2. pc'[k[1]] = pc[k[1]] /\ lpc'[k] = lpc[k]
      BY <2>1, <2>3, <3>1 DEF TypeOK
    <3> QED BY <2>1, <3>2 DEF LegSame, InChoice
  <2>4. Kind[c] # "callback"
    BY <2>1 DEF CallStages
  <2>5. CallBacksQuiet /\ gwSem' = gwSem
    BY <2>1, <2>4, OtherStage
  <2> QED BY <2>2, <2>3, <2>5, LegsSameMoves DEF OnlyCallBacks
<1>9. ASSUME NEW c \in Calls, RefusedCallEnds(c) \/ AnswerLegEnds(c) PROVE goal
  <2>1. /\ pc[c] \in {"failing", "answering"} /\ pc' = [pc EXCEPT ![c] = "ended"]
        /\ UNCHANGED <<lpc, cur, gwSem, gwTaken>>
    BY <1>9 DEF RefusedCallEnds, AnswerLegEnds, gwVars
  <2>2. \A k \in Legs : pc'[k[1]] = "proxying" <=> pc[k[1]] = "proxying"
    BY <2>1, LegParts DEF TypeOK
  <2>3. \A k \in Legs : LegSame(k)
    BY <2>1, <2>2 DEF LegSame, InChoice
  <2>4. Kind[c] # "callback"
    BY <2>1 DEF CallStages
  <2>5. CallBacksQuiet /\ gwSem' = gwSem
    BY <2>1, <2>4, OtherStage
  <2> QED BY <2>3, <2>5, LegsSameMoves DEF OnlyCallBacks
<1>10. ASSUME NEW l \in Legs, NEW ch \in Choices, ChoiceLacksGw(l, ch) PROVE goal
  <2>1. UNCHANGED <<pc, lpc, cur, gwSem>> /\ gwTaken' = [gwTaken EXCEPT ![l] = FALSE]
        /\ lpc[l] = "hunting"
    BY <1>10 DEF ChoiceLacksGw, NextChoice
  <2>2. \A k \in Legs : gwTaken'[k] = IF k = l THEN FALSE ELSE gwTaken[k]
    BY <2>1 DEF TypeOK
  <2>3. \A k \in Legs : LegSame(k)
    BY <2>1, <2>2 DEF LegSame, InChoice
  <2>4. CallBacksQuiet /\ gwSem' = gwSem
    BY <2>1, PcKeepsCallBacks
  <2> QED BY <2>3, <2>4, LegsSameMoves DEF OnlyCallBacks
<1>11. ASSUME NEW l \in Legs, NEW ch \in Choices, ChoiceRefused(l, ch) PROVE goal
  BY <1>11, ChoiceRefusedMoves
<1>12. ASSUME NEW l \in Legs, NEW ch \in Choices, TakeChoice(l, ch) PROVE goal
  BY <1>12, TakeChoiceMoves
<1>13. ASSUME NEW l \in Legs, Connect(l) PROVE goal
  <2>1. UNCHANGED <<pc, cur, gwVars>>
    BY <1>13 DEF Connect
  <2>2. \A k \in Legs : InChoice(k)' <=> InChoice(k)
    BY <1>13 DEF Connect, InChoice, TypeOK
  <2>3. \A k \in Legs : LegSame(k)
    BY <2>1, <2>2 DEF LegSame, gwVars
  <2>4. CallBacksQuiet /\ gwSem' = gwSem
    BY <2>1, PcKeepsCallBacks DEF gwVars
  <2> QED BY <2>3, <2>4, LegsSameMoves DEF OnlyCallBacks
<1>14. ASSUME NEW l \in Legs, NEW next \in {"hunting", "quitting"}, CloseChoice(l, next)
       PROVE  goal
  BY <1>14, CloseChoiceMoves
<1>15. ASSUME NEW l \in Legs, NEW to, ~InChoice(l), to \notin {"inChoice", "talking"},
              lpc' = [lpc EXCEPT ![l] = to], UNCHANGED <<pc, cur, gwSem>>,
              gwTaken' = gwTaken \/ gwTaken' = [gwTaken EXCEPT ![l] = FALSE]
       PROVE  goal
  <2>1. \A k \in Legs : gwTaken'[k] = gwTaken[k] \/ (k = l /\ ~gwTaken'[k])
    BY <1>15 DEF TypeOK
  <2>2. \A k \in Legs : LegSame(k)
    BY <1>15, <2>1, StageSame
  <2>3. CallBacksQuiet /\ gwSem' = gwSem
    BY <1>15, PcKeepsCallBacks
  <2> QED BY <2>2, <2>3, LegsSameMoves DEF OnlyCallBacks
<1>16. ASSUME NEW l \in Legs, RemoveCall(l) PROVE goal
  <2>1. /\ ~InChoice(l) /\ lpc' = [lpc EXCEPT ![l] = "removed"]
        /\ UNCHANGED <<pc, cur, gwSem, gwTaken>>
    BY <1>16 DEF RemoveCall, InChoice, gwVars
  <2> QED BY <1>15, <2>1
<1>17. ASSUME NEW l \in Legs, LegEnds(l) PROVE goal
  <2>1. /\ ~InChoice(l) /\ lpc' = [lpc EXCEPT ![l] = "ended"]
        /\ UNCHANGED <<pc, cur, gwSem>> /\ gwTaken' = [gwTaken EXCEPT ![l] = FALSE]
    BY <1>17 DEF LegEnds, InChoice
  <2> QED BY <1>15, <2>1
<1>18. ASSUME NEW l \in Legs, CallBackInit(l) PROVE goal
  <2>1. /\ lpc[l] = "init" /\ UNCHANGED <<pc, cur, gwSem, gwTaken>>
        /\ \A k \in Legs : lpc'[k] = IF k = l THEN "hunting" ELSE lpc[k]
    BY <1>18 DEF CallBackInit, StartLegs, gwVars
  <2>2. \A k \in Legs : LegSame(k)
    BY <2>1 DEF LegSame, InChoice
  <2>3. CallBacksQuiet /\ gwSem' = gwSem
    BY <2>1, PcKeepsCallBacks
  <2> QED BY <2>2, <2>3, LegsSameMoves DEF OnlyCallBacks
<1>19. ASSUME NEW l \in Legs, NEW to \in {"failed", "ended"}, Kind[l[1]] = "callback",
              lpc[l] \in {"init", "removed"}, lpc' = [lpc EXCEPT ![l] = to],
              CallBackStop(l), UNCHANGED <<cur, gwTaken>>
       PROVE  goal
  <2>1. /\ (CallBacksQuiet /\ gwSem' = gwSem) \/ CallBackGives
        /\ \A k \in Legs : pc'[k[1]] = "proxying" <=> pc[k[1]] = "proxying"
    BY <1>19, RunningBack, StopMoves
  <2>2. ~InChoice(l)
    BY <1>19 DEF InChoice
  <2>3. \A k \in Legs : LegSame(k)
    BY <1>19, <2>1, <2>2, StageSame
  <2> QED BY <2>1, <2>3, LegsSameMoves DEF OnlyCallBacks
<1>20. ASSUME NEW l \in Legs, CallBackInitFails(l) PROVE goal
  <2>1. /\ lpc[l] = "init" /\ lpc' = [lpc EXCEPT ![l] = "failed"]
        /\ CallBackStop(l) /\ UNCHANGED <<cur, gwTaken>>
    BY <1>20 DEF CallBackInitFails
  <2>2. Kind[l[1]] = "callback"
    BY <2>1 DEF LegStages
  <2> QED BY <1>19, <2>1, <2>2
<1>21. ASSUME NEW l \in Legs, CallBackLegEnds(l) PROVE goal
  <2>1. /\ lpc[l] = "removed" /\ Kind[l[1]] = "callback"
        /\ lpc' = [lpc EXCEPT ![l] = "ended"]
        /\ CallBackStop(l) /\ UNCHANGED <<cur, gwTaken>>
    BY <1>21 DEF CallBackLegEnds
  <2> QED BY <1>19, <2>1
<1>22. ASSUME SetShuttingDown \/ WaitForSignallingChannels \/ UNCHANGED vars PROVE goal
  BY <1>1, <1>22 DEF SetShuttingDown, WaitForSignallingChannels, vars, threadVars
<1>23. ASSUME NEW c \in Calls, CallNext(c) PROVE goal
  BY <1>2, <1>3, <1>5, <1>6, <1>7, <1>8, <1>9, <1>23 DEF CallNext
<1>24. ASSUME NEW l \in Legs, LegNext(l) PROVE goal
  BY <1>10, <1>11, <1>12, <1>13, <1>14, <1>16, <1>17, <1>18, <1>20, <1>21, <1>24 DEF LegNext
<1> QED BY <1>22, <1>23, <1>24 DEF Next, Terminated

-----------------------------------------------------------------------------
(* The stages of the gateway flags are invariant.                          *)

\* What GwStages says of leg l.
StageOf(l) ==
  /\ pc[l[1]] \in {"new", "accepted"} => ~gwTaken[l]
  /\ pc[l[1]] = "proxying" /\ l[2] # 1 => lpc[l] = "none"
  /\ Kind[l[1]] = "callback" /\ pc[l[1]] = "ended" => Finished(l)

\* A leg of a call that does not move: it keeps its stage, or runs on while
\* its call is under way.
LEMMA CallStays ==
  ASSUME NEW k \in Legs, StageOf(k), pc'[k[1]] = pc[k[1]],
         \/ lpc'[k] = lpc[k]
         \/ pc[k[1]] = "proxying" /\ lpc[k] # "none"
         \/ pc[k[1]] \notin {"proxying", "ended"}
         \/ pc[k[1]] = "ended" /\ ~Finished(k)
         \/ pc[k[1]] = "ended" /\ Kind[k[1]] # "callback",
         gwTaken'[k] => gwTaken[k] \/ lpc[k] # "none",
         LegStages
  PROVE  StageOf(k)'
BY DEF StageOf, LegStages, Finished

LEMMA GwStagesStep ==
  TypeOK /\ CallStages /\ LegStages /\ GwStages /\ [Next]_vars => GwStages'
<1> SUFFICES ASSUME TypeOK, CallStages, LegStages, GwStages, [Next]_vars PROVE GwStages'
  OBVIOUS
<1>0. \A l \in Legs : StageOf(l)
  BY DEF GwStages, StageOf
<1>1. ASSUME \A k \in Legs : StageOf(k)' PROVE GwStages'
  BY <1>1 DEF GwStages, StageOf
<1>2. ASSUME UNCHANGED pc,
             \A k \in Legs : \/ lpc'[k] = lpc[k]
                             \/ lpc[k] # "none" /\ ~Finished(k)
                             \/ pc[k[1]] = "callback",
             \A k \in Legs : gwTaken'[k] => gwTaken[k] \/ lpc[k] # "none"
      PROVE  GwStages'
  <2>1. \A k \in Legs : StageOf(k)'
    BY <1>0, <1>2, CallStays
  <2> QED BY <1>1, <2>1
<1>3. ASSUME NEW c \in Calls, NEW to, pc' = [pc EXCEPT ![c] = to],
             \A k \in Legs : k[1] # c => lpc'[k] = lpc[k] /\ gwTaken'[k] = gwTaken[k],
             \A k \in Legs : k[1] = c => StageOf(k)'
      PROVE  GwStages'
  <2>1. ASSUME NEW k \in Legs, k[1] # c PROVE StageOf(k)'
    <3>1. pc'[k[1]] = pc[k[1]] /\ lpc'[k] = lpc[k] /\ gwTaken'[k] = gwTaken[k]
      BY <1>3, <2>1, LegParts DEF TypeOK
    <3> QED BY <1>0, <3>1, CallStays
  <2> QED BY <1>1, <1>3, <2>1
<1>4. ASSUME NEW c \in Calls, TryTake(c) PROVE GwStages'
  <2>1. pc[c] = "new" /\ pc' = [pc EXCEPT ![c] = "accepted"] /\ UNCHANGED <<lpc, gwTaken>>
    BY <1>4 DEF TryTake, gwVars
  <2>2. \A k \in Legs : k[1] = c => StageOf(k)'
    BY <1>0, <2>1 DEF StageOf, TypeOK
  <2> QED BY <1>3, <2>1, <2>2
<1>5. ASSUME NEW c \in Calls, NEW par \in BOOLEAN, SmsCall(c, par) PROVE GwStages'
  <2>1. pc' = [pc EXCEPT ![c] = "callback"] /\ UNCHANGED gwTaken
    BY <1>5 DEF SmsCall
  <2>2. \A k \in Legs : k[1] # c => lpc'[k] = lpc[k]
    BY <1>5, FirstLegs, LegParts DEF SmsCall, TypeOK
  <2>3. \A k \in Legs : k[1] = c => StageOf(k)'
    BY <2>1 DEF StageOf, TypeOK
  <2> QED BY <1>3, <2>1, <2>2, <2>3
<1>6. ASSUME NEW c \in Calls, RejectCall(c) \/ DropRoutedCall(c) PROVE GwStages'
  <2>1. pc' = [pc EXCEPT ![c] = "failing"] /\ UNCHANGED <<lpc, gwTaken>>
    BY <1>6 DEF RejectCall, DropRoutedCall, gwVars
  <2>2. \A k \in Legs : k[1] = c => StageOf(k)'
    BY <2>1 DEF StageOf, TypeOK
  <2> QED BY <1>3, <2>1, <2>2
<1>7. ASSUME NEW c \in Calls, ProxyCall(c) PROVE GwStages'
  <2>1. /\ pc[c] = "accepted" /\ pc' = [pc EXCEPT ![c] = "proxying"] /\ UNCHANGED gwTaken
        /\ \A k \in Legs : k \notin {<<c, 1>>} => lpc'[k] = lpc[k]
    BY <1>7 DEF ProxyCall, StartLegs, gwVars
  <2>2. ASSUME NEW k \in Legs, k[1] = c PROVE StageOf(k)'
    <3>1. pc'[k[1]] = "proxying" /\ lpc[k] = "none"
      BY <2>1, <2>2 DEF TypeOK, LegStages
    <3>2. k[2] # 1 => lpc'[k] = "none"
      BY <2>1, <2>2, <3>1
    <3> QED BY <3>1, <3>2 DEF StageOf
  <2>3. \A k \in Legs : k[1] # c => lpc'[k] = lpc[k]
    BY <2>1
  <2> QED BY <1>3, <2>1, <2>2, <2>3
<1>8. ASSUME NEW c \in Calls, AnswerCall(c) PROVE GwStages'
  <2>1. /\ pc' = [pc EXCEPT ![c] = "answering"] /\ UNCHANGED gwTaken
        /\ \A k \in Legs : k[1] # c => lpc'[k] = lpc[k]
    BY <1>8 DEF AnswerCall, StartLegs, gwVars
  <2>2. \A k \in Legs : k[1] = c => StageOf(k)'
    BY <2>1 DEF StageOf, TypeOK
  <2> QED BY <1>3, <2>1, <2>2
<1>9. ASSUME NEW c \in Calls, Kind[c] # "callback", pc' = [pc EXCEPT ![c] = "ended"],
             \A k \in Legs : k[1] # c => lpc'[k] = lpc[k], UNCHANGED gwTaken
      PROVE  GwStages'
  <2>1. \A k \in Legs : k[1] = c => StageOf(k)'
    BY <1>9 DEF StageOf, TypeOK
  <2> QED BY <1>3, <1>9, <2>1
<1>10. ASSUME NEW c \in Calls, ProxyEnds(c) PROVE GwStages'
  <2>1. /\ Kind[c] # "callback" /\ pc' = [pc EXCEPT ![c] = "ended"] /\ UNCHANGED gwTaken
        /\ lpc' = [lpc EXCEPT ![<<c, 1>>] = "ended"]
    BY <1>10 DEF ProxyEnds, CallStages, gwVars
  <2>2. \A k \in Legs : k[1] # c => lpc'[k] = lpc[k]
    BY <2>1 DEF TypeOK
  <2> QED BY <1>9, <2>1, <2>2
<1>11. ASSUME NEW c \in Calls, RefusedCallEnds(c) \/ AnswerLegEnds(c) PROVE GwStages'
  <2>1. /\ Kind[c] # "callback" /\ pc' = [pc EXCEPT ![c] = "ended"]
        /\ UNCHANGED <<lpc, gwTaken>>
    BY <1>11 DEF RefusedCallEnds, AnswerLegEnds, CallStages, gwVars
  <2> QED BY <1>9, <2>1
<1>12. ASSUME NEW l \in Legs, NEW ch \in Choices, ChoiceLacksGw(l, ch) PROVE GwStages'
  <2>1. UNCHANGED <<pc, lpc>> /\ gwTaken' = [gwTaken EXCEPT ![l] = FALSE]
    BY <1>12 DEF ChoiceLacksGw, NextChoice
  <2>2. \A k \in Legs : gwTaken'[k] => gwTaken[k]
    BY <2>1 DEF TypeOK
  <2> QED BY <1>2, <2>1, <2>2
<1>13. ASSUME NEW l \in Legs, NEW ch, TakeGw(l, ch), lpc[l] = "hunting"
       PROVE  \A k \in Legs : gwTaken'[k] => gwTaken[k] \/ lpc[k] # "none"
  <2>1. gwTaken' = gwTaken \/ gwTaken' = [gwTaken EXCEPT ![l] = TRUE]
    BY <1>13 DEF TakeGw, gwVars
  <2> QED BY <1>13, <2>1 DEF TypeOK
<1>14. ASSUME NEW l \in Legs, NEW ch \in Choices, ChoiceRefused(l, ch) PROVE GwStages'
  <2>1. UNCHANGED <<pc, lpc>> /\ TakeGw(l, ch) /\ lpc[l] = "hunting"
    BY <1>14 DEF ChoiceRefused, NextChoice
  <2> QED BY <1>2, <1>13, <2>1
<1>15. ASSUME NEW l \in Legs, NEW to, lpc[l] \notin {"none", "failed", "ended"},
              lpc' = [lpc EXCEPT ![l] = to], UNCHANGED pc,
              \A k \in Legs : gwTaken'[k] => gwTaken[k] \/ lpc[k] # "none"
       PROVE  GwStages'
  <2>1. \A k \in Legs : lpc'[k] = lpc[k] \/ (lpc[k] # "none" /\ ~Finished(k))
    BY <1>15 DEF TypeOK, Finished
  <2> QED BY <1>2, <1>15, <2>1
<1>16. ASSUME NEW l \in Legs, NEW ch \in Choices, TakeChoice(l, ch) PROVE GwStages'
  <2>1. /\ UNCHANGED pc /\ TakeGw(l, ch) /\ lpc[l] = "hunting"
        /\ lpc' = [lpc EXCEPT ![l] = "inChoice"]
    BY <1>16 DEF TakeChoice, NextChoice
  <2>2. \A k \in Legs : gwTaken'[k] => gwTaken[k] \/ lpc[k] # "none"
    BY <1>13, <2>1
  <2> QED BY <1>15, <2>1, <2>2
<1>17. ASSUME NEW l \in Legs, Connect(l) PROVE GwStages'
  <2>1. /\ lpc[l] = "inChoice" /\ UNCHANGED <<pc, gwTaken>>
        /\ \/ lpc' = [lpc EXCEPT ![l] = "talking"]
           \/ /\ Kind[l[1]] = "callback"
              /\ lpc' = [lpc EXCEPT ![l] = "talking", ![<<l[1], 2>>] = "init"]
    BY <1>17 DEF Connect, gwVars
  <2>2. CASE lpc' = [lpc EXCEPT ![l] = "talking"]
    BY <1>15, <2>1, <2>2
  <2>3. CASE /\ Kind[l[1]] = "callback"
             /\ lpc' = [lpc EXCEPT ![l] = "talking", ![<<l[1], 2>>] = "init"]
    <3>1. l[1] \in Calls
      BY LegParts
    <3>2. pc[l[1]] = "callback"
      <4>1. ~Finished(l) /\ lpc[l] # "none"
        BY <2>1 DEF Finished
      <4> QED BY <2>3, <3>1, <4>1 DEF CallStages, LegStages, GwStages
    <3>3. \A k \in Legs : k[1] # l[1] => lpc'[k] = lpc[k]
      BY <2>3, <3>1, FirstLegs DEF TypeOK
    <3>4. \A k \in Legs : lpc'[k] = lpc[k] \/ pc[k[1]] = "callback"
      BY <3>2, <3>3
    <3> QED BY <1>2, <2>1, <3>4
  <2> QED BY <2>1, <2>2, <2>3
<1>18. ASSUME NEW l \in Legs, NEW next \in {"hunting", "quitting"}, CloseChoice(l, next)
       PROVE  GwStages'
  <2>1. /\ lpc[l] \in {"inChoice", "talking"} /\ lpc' = [lpc EXCEPT ![l] = next]
        /\ UNCHANGED <<pc, gwTaken>>
    BY <1>18 DEF CloseChoice
  <2> QED BY <1>15, <2>1
<1>19. ASSUME NEW l \in Legs, RemoveCall(l) PROVE GwStages'
  <2>1. /\ lpc[l] \in {"hunting", "quitting"} /\ lpc' = [lpc EXCEPT ![l] = "removed"]
        /\ UNCHANGED <<pc, gwTaken>>
    BY <1>19 DEF RemoveCall, gwVars
  <2> QED BY <1>15, <2>1
<1>20. ASSUME NEW l \in Legs, LegEnds(l) PROVE GwStages'
  <2>1. /\ lpc[l] = "removed" /\ lpc' = [lpc EXCEPT ![l] = "ended"]
        /\ UNCHANGED pc /\ gwTaken' = [gwTaken EXCEPT ![l] = FALSE]
    BY <1>20 DEF LegEnds
  <2>2. \A k \in Legs : gwTaken'[k] => gwTaken[k] \/ lpc[k] # "none"
    BY <2>1 DEF TypeOK
  <2> QED BY <1>15, <2>1, <2>2
<1>21. ASSUME NEW l \in Legs, CallBackInit(l) PROVE GwStages'
  <2>1. /\ lpc[l] = "init" /\ UNCHANGED <<pc, gwTaken>>
        /\ \A k \in Legs : lpc'[k] = IF k = l THEN "hunting" ELSE lpc[k]
    BY <1>21 DEF CallBackInit, StartLegs, gwVars
  <2>2. \A k \in Legs : lpc'[k] = lpc[k] \/ (lpc[k] # "none" /\ ~Finished(k))
    BY <2>1 DEF Finished
  <2> QED BY <1>2, <2>1, <2>2
<1>22. ASSUME NEW l \in Legs, NEW to \in {"failed", "ended"}, Kind[l[1]] = "callback",
              lpc[l] \in {"init", "removed"}, lpc' = [lpc EXCEPT ![l] = to],
              CallBackStop(l), UNCHANGED gwTaken
       PROVE  GwStages'
  <2> DEFINE last == \A k \in {l[1]} \X {1, 2} : k = l \/ Finished(k)
  <2>1. CASE ~last
    <3>1. UNCHANGED pc
      BY <1>22, <2>1 DEF CallBackStop
    <3> QED BY <1>15, <1>22, <3>1
  <2>2. CASE last
    <3>1. pc' = [pc EXCEPT ![l[1]] = "ended"] /\ l[1] \in Calls
      BY <1>22, <2>2, LegParts DEF CallBackStop
    <3>2. lpc'[l] = to /\ \A k \in Legs \ {l} : lpc'[k] = lpc[k]
      BY <1>22 DEF TypeOK
    <3>3. ASSUME NEW k \in Legs, k[1] = l[1] PROVE lpc'[k] \in {"none", "failed", "ended"}
      <4>1. CASE k = l
        BY <1>22, <3>2, <4>1
      <4>2. CASE k # l /\ k[2] \in {1, 2}
        <5>1. k \in {l[1]} \X {1, 2}
          BY <3>3, <4>2, LegParts
        <5> QED BY <2>2, <3>2, <4>2, <5>1 DEF Finished
      <4>3. CASE k # l /\ k[2] \notin {1, 2}
        BY <1>22, <3>2, <3>3, <4>3 DEF LegStages
      <4> QED BY <4>1, <4>2, <4>3
    <3>4. ASSUME NEW k \in Legs, k[1] = l[1] PROVE StageOf(k)'
      <4>1. pc'[k[1]] = "ended"
        BY <3>1, <3>4 DEF TypeOK
      <4> QED BY <3>3, <3>4, <4>1 DEF StageOf, Finished
    <3>5. \A k \in Legs : k[1] # l[1] => lpc'[k] = lpc[k] /\ gwTaken'[k] = gwTaken[k]
      BY <1>22, <3>2
    <3> QED BY <1>3, <3>1, <3>4, <3>5
  <2> QED BY <2>1, <2>2
<1>23. ASSUME NEW l \in Legs, CallBackInitFails(l) PROVE GwStages'
  <2>1. /\ lpc[l] = "init" /\ lpc' = [lpc EXCEPT ![l] = "failed"]
        /\ CallBackStop(l) /\ UNCHANGED gwTaken
    BY <1>23 DEF CallBackInitFails
  <2>2. Kind[l[1]] = "callback"
    BY <2>1 DEF LegStages
  <2> QED BY <1>22, <2>1, <2>2
<1>24. ASSUME NEW l \in Legs, CallBackLegEnds(l) PROVE GwStages'
  <2>1. /\ lpc[l] = "removed" /\ Kind[l[1]] = "callback"
        /\ lpc' = [lpc EXCEPT ![l] = "ended"]
        /\ CallBackStop(l) /\ UNCHANGED gwTaken
    BY <1>24 DEF CallBackLegEnds
  <2> QED BY <1>22, <2>1
<1>25. ASSUME SetShuttingDown \/ WaitForSignallingChannels \/ UNCHANGED vars PROVE GwStages'
  BY <1>2, <1>25
  DEF SetShuttingDown, WaitForSignallingChannels, vars, threadVars, gwVars
<1>26. ASSUME NEW c \in Calls, CallNext(c) PROVE GwStages'
  BY <1>4, <1>5, <1>6, <1>7, <1>8, <1>10, <1>11, <1>26 DEF CallNext
<1>27. ASSUME NEW l \in Legs, LegNext(l) PROVE GwStages'
  BY <1>12, <1>14, <1>16, <1>17, <1>18, <1>19, <1>20, <1>21, <1>23, <1>24, <1>27 DEF LegNext
<1> QED BY <1>25, <1>26, <1>27 DEF Next, Terminated

-----------------------------------------------------------------------------
(* The invariant of the gateway licence.                                   *)

GwInv ==
  /\ IInv
  /\ GwStages
  /\ NoMixedRoutes => GwFlags /\ GwBounded

LEMMA GwInit == Init => GwInv
<1> SUFFICES ASSUME Init PROVE GwInv
  OBVIOUS
<1>1. GwStages /\ GwFlags
  BY LegParts DEF Init, GwStages, Finished, GwFlags, FlagTrue, InChoice
<1>2. GwHolders = {} /\ CallBacks = {}
  BY DEF Init, GwHolders, CallBacks, InChoice
<1>3. GwBounded
  BY <1>2, FS_EmptySet, LimitsAssumption DEF Init, GwBounded
<1> QED BY <1>1, <1>3, IInvInit DEF GwInv

LEMMA GwInvStep == GwInv /\ [Next]_vars => GwInv'
<1> SUFFICES ASSUME GwInv, [Next]_vars PROVE GwInv'
  OBVIOUS
<1>1. TypeOK /\ CallStages /\ LegStages /\ GwStages
  BY DEF GwInv, IInv
<1>2. IInv' /\ GwStages'
  BY <1>1, IInvStep, GwStagesStep DEF GwInv
<1>3. ASSUME NoMixedRoutes PROVE GwFlags' /\ GwBounded'
  <2>1. GwFlags /\ GwBounded
    BY <1>3 DEF GwInv
  <2>2. GwFlags' /\ GwMoves
    BY <1>1, <1>3, <2>1, GwStep
  <2> QED BY <1>1, <2>1, <2>2, GwMovesKeeps
<1>4. NoMixedRoutes' <=> NoMixedRoutes
  BY DEF NoMixedRoutes
<1> QED BY <1>2, <1>3, <1>4 DEF GwInv

LEMMA GwBoundedGives == GwInv => GwLimitRespected
<1> SUFFICES ASSUME GwInv, NoMixedRoutes
             PROVE  Cardinality(GwHolders) + Cardinality(CallBacks) <= GwCallsLimit
  BY DEF GwLimitRespected
<1>1. /\ gwSem \in Int /\ GwCallsLimit \in Nat
      /\ Cardinality(GwHolders) \in Nat /\ Cardinality(CallBacks) \in Nat
  BY GwFinite, FS_CardinalityType, LimitsAssumption DEF GwInv, IInv, TypeOK
<1> QED BY <1>1 DEF GwInv, GwBounded

\* While no route mixes the caller's protocol with another, the legs that
\* change the protocol and the call-backs keep within the gateway licence,
\* the stale gwTaken of a refused choice notwithstanding.
THEOREM GwLimitIsRespected == Spec => []GwLimitRespected
<1>1. Spec => []GwInv
  BY GwInit, GwInvStep, PTL DEF Spec
<1> QED BY <1>1, GwBoundedGives, PTL
=============================================================================
