-------------------------- MODULE RadiusCallsProofs --------------------------
(***************************************************************************)
(* Theorems about RadiusCalls, for any finite set of calls, any cards, any *)
(* lines and any limit.  The handlers are functions of the tables, so the  *)
(* lemmas are about tables: what each helper keeps, and what it does to    *)
(* the call it is called for.                                              *)
(***************************************************************************)
EXTENDS RadiusCalls, FiniteSetTheorems, TLAPS

-----------------------------------------------------------------------------
(* The inductive invariant.                                                *)

Partial(S, T) == UNION {[D -> T] : D \in SUBSET S}

TableType ==
  [spool : Partial(Calls, Entry), confs : SUBSET (Cards \X Calls),
   cardOf : Partial(Calls, Cards), locks : [Cards -> Nat], permits : Nat,
   dangling : SUBSET Calls, stray : SUBSET Cards]

PairsOf(t, c) == {p \in t.confs : p[1] = c}

\* The two maps of locks are each other's inverse.
Inverted(t) == t.confs = {<<t.cardOf[x], x>> : x \in DOMAIN t.cardOf}

\* A card is locked as often as its lines allow, and once for each of its pairs,
\* but for a stray unlocking.
Counts(t) ==
  \A c \in Cards :
    /\ t.locks[c] <= Lines[c]
    /\ Lines[c] > 0 =>
         LET n == Cardinality(PairsOf(t, c))
         IN t.locks[c] <= n /\ (c \notin t.stray => t.locks[c] = n)

Sound(t) ==
  t \in TableType /\ IsFiniteSet(t.confs) /\ Inverted(t) /\ Counts(t)

\* What the entry of x says of the records heard: the stop of the telephone leg
\* leaves an entry only for the leg over IP and, while no packet has crossed a
\* stop record, without a lock and without eaters; the stop of the leg over IP
\* leaves none for that leg.
EntryFits(t, x, h) ==
  x \in DOMAIN t.spool =>
    LET e == t.spool[x]
    IN /\ kind[x] # "phone" => ~e.isOV
       /\ "at" \in h => e.telephonyEnded /\ e.isOV
       /\ \/ "crossed" \in h
          \/ /\ "ov" \in h => ~e.isOV
             /\ e.telephonyEnded => /\ "at" \in h /\ x \notin DOMAIN t.cardOf
                                    /\ ~e.cb /\ ~e.cbDealer

LockFits(t, x, h) == x \in DOMAIN t.cardOf => x \in DOMAIN t.spool \/ "crossed" \in h

EatersFit(t, x, h) ==
  x \in t.dangling => "crossed" \in h \/ \E c \in CardsOf[x] : "card" \in Balances[c]

Fits(t, x, h) == EntryFits(t, x, h) /\ LockFits(t, x, h) /\ EatersFit(t, x, h)

\* The slots of a table: those left, and those of its entries.
Slots(t) == t.permits + Cardinality(DOMAIN t.spool)

IInv ==
  /\ kind \in Kinds /\ limit \in Limits
  /\ taking \in BOOLEAN /\ saw15 \in BOOLEAN
  /\ heard \in [Calls -> SUBSET {"ov", "at", "crossed"}]
  /\ Sound(Tables) /\ permits <= limit + 1
  /\ \A x \in Calls : Fits(Tables, x, heard[x])
  /\ ~saw15 => Slots(Tables) = limit + (IF taking THEN 1 ELSE 0)

-----------------------------------------------------------------------------
(* Partial functions and counters.                                         *)

LEMMA PartialType ==
  ASSUME NEW S, NEW T, NEW f
  PROVE  f \in Partial(S, T) <=> /\ f = [x \in DOMAIN f |-> f[x]]
                                 /\ DOMAIN f \subseteq S
                                 /\ \A x \in DOMAIN f : f[x] \in T
BY DEF Partial

LEMMA WithoutIsPartial ==
  ASSUME NEW S, NEW T, NEW f \in Partial(S, T), NEW x
  PROVE  Without(f, x) \in Partial(S, T)
<1>1. DOMAIN f \subseteq S /\ \A y \in DOMAIN f : f[y] \in T
  BY PartialType
<1>2. Without(f, x) = [y \in DOMAIN f \ {x} |-> f[y]]
  BY DEF Without, Restrict
<1> QED BY <1>1, <1>2, PartialType

LEMMA WithIsPartial ==
  ASSUME NEW S, NEW T, NEW f \in Partial(S, T), NEW x \in S, NEW v \in T
  PROVE  With(f, x, v) \in Partial(S, T)
<1>1. DOMAIN f \subseteq S /\ \A y \in DOMAIN f : f[y] \in T
  BY PartialType
<1>2. With(f, x, v) = [y \in DOMAIN f \cup {x} |-> IF y = x THEN v ELSE f[y]]
  BY DEF With
<1> QED BY <1>1, <1>2, PartialType

LEMMA ReleasedSlot ==
  ASSUME NEW p \in Nat, limit \in Nat
  PROVE  /\ Released(p) \in Nat /\ Released(p) <= limit + 1
         /\ p <= limit => Released(p) = p + 1
<1>1. \E m \in {p + 1, limit + 1} : \A k \in {p + 1, limit + 1} : m <= k
  <2>1. CASE p <= limit
    <3>1. p + 1 \in {p + 1, limit + 1} /\ \A k \in {p + 1, limit + 1} : p + 1 <= k
      BY <2>1
    <3> QED BY <3>1
  <2>2. CASE ~(p <= limit)
    <3>1. limit + 1 \in {p + 1, limit + 1} /\ \A k \in {p + 1, limit + 1} : limit + 1 <= k
      BY <2>2
    <3> QED BY <3>1
  <2> QED BY <2>1, <2>2
<1>2. /\ Released(p) \in {p + 1, limit + 1}
      /\ \A k \in {p + 1, limit + 1} : Released(p) <= k
  BY <1>1 DEF Released, Min
<1> QED BY <1>2

LEMMA NewEntryType == NewEntry \in Entry
BY DEF NewEntry, Entry

\* The fields of tables.
LEMMA TableFields ==
  ASSUME NEW t \in TableType
  PROVE  /\ t.spool \in Partial(Calls, Entry) /\ DOMAIN t.spool \subseteq Calls
         /\ \A x \in DOMAIN t.spool : t.spool[x] \in Entry
         /\ t.confs \subseteq Cards \X Calls
         /\ t.cardOf \in Partial(Calls, Cards) /\ DOMAIN t.cardOf \subseteq Calls
         /\ \A x \in DOMAIN t.cardOf : t.cardOf[x] \in Cards
         /\ t.locks \in [Cards -> Nat] /\ t.permits \in Nat
         /\ t.dangling \subseteq Calls /\ t.stray \subseteq Cards
  BY PartialType DEF TableType

\* The pairs of a card, when one is added or taken away.
LEMMA PairsCount ==
  ASSUME NEW t \in TableType, IsFiniteSet(t.confs), NEW c \in Cards
  PROVE  /\ IsFiniteSet(PairsOf(t, c)) /\ Cardinality(PairsOf(t, c)) \in Nat
<1>1. PairsOf(t, c) \in SUBSET t.confs
  BY DEF PairsOf
<1>2. IsFiniteSet(PairsOf(t, c))
  BY <1>1, FS_Subset
<1> QED BY <1>2, FS_CardinalityType

-----------------------------------------------------------------------------
(* The locks.                                                              *)

\* A lock of card c goes, if it has one.
FreesLock(t, u, c) ==
  u.locks = [t.locks EXCEPT ![c] = IF t.locks[c] > 0 THEN t.locks[c] - 1 ELSE 0]

\* The lock of card c goes, and the pair of c and x.
Unlocks(t, u, c, x) ==
  /\ u \in TableType
  /\ u.spool = t.spool /\ u.permits = t.permits /\ u.dangling = t.dangling
  /\ u.confs = t.confs \ {<<c, x>>} /\ u.cardOf = Without(t.cardOf, x)
  /\ FreesLock(t, u, c)

\* A call gives back the lock it has.
LEMMA Unpaired ==
  ASSUME NEW t, Sound(t), NEW u, NEW x, NEW c, x \in DOMAIN t.cardOf, c = t.cardOf[x],
         Unlocks(t, u, c, x), t.stray \subseteq u.stray
  PROVE  Sound(u) /\ DOMAIN u.cardOf = DOMAIN t.cardOf \ {x}
<1>0. /\ u \in TableType /\ u.confs = t.confs \ {<<c, x>>}
      /\ u.cardOf = Without(t.cardOf, x) /\ FreesLock(t, u, c)
  BY DEF Unlocks
<1>1. /\ t \in TableType /\ IsFiniteSet(t.confs) /\ Inverted(t) /\ Counts(t)
  BY DEF Sound
<1>2. /\ t.cardOf \in Partial(Calls, Cards) /\ c \in Cards
      /\ t.locks \in [Cards -> Nat]
  BY <1>1, TableFields
<1>3. /\ DOMAIN u.cardOf = DOMAIN t.cardOf \ {x}
      /\ \A y \in DOMAIN t.cardOf \ {x} : u.cardOf[y] = t.cardOf[y]
  BY <1>0 DEF Without, Restrict
<1>4. <<c, x>> \in t.confs
  BY <1>1 DEF Inverted
<1>5. IsFiniteSet(u.confs)
  <2>1. IsFiniteSet(t.confs \ {<<c, x>>})
    BY <1>1, FS_RemoveElement
  <2> QED BY <1>0, <2>1
<1>6. Inverted(u)
  BY <1>0, <1>1, <1>3 DEF Inverted
<1>7. Counts(u)
  <2> SUFFICES ASSUME NEW k \in Cards
               PROVE  /\ u.locks[k] <= Lines[k]
                      /\ Lines[k] > 0 =>
                           /\ u.locks[k] <= Cardinality(PairsOf(u, k))
                           /\ k \notin u.stray => u.locks[k] = Cardinality(PairsOf(u, k))
    BY DEF Counts
  <2>1. /\ t.locks[k] \in Nat /\ t.locks[k] <= Lines[k] /\ Lines[k] \in Nat
        /\ Lines[k] > 0 =>
             /\ t.locks[k] <= Cardinality(PairsOf(t, k))
             /\ k \notin t.stray => t.locks[k] = Cardinality(PairsOf(t, k))
        /\ IsFiniteSet(PairsOf(t, k)) /\ Cardinality(PairsOf(t, k)) \in Nat
    BY <1>1, <1>2, PairsCount, CardsAssumption DEF Counts
  <2>2. CASE k = c
    <3>1. PairsOf(u, k) = PairsOf(t, k) \ {<<c, x>>} /\ <<c, x>> \in PairsOf(t, k)
      BY <1>0, <1>4, <2>2 DEF PairsOf
    <3>2. Cardinality(PairsOf(u, k)) = Cardinality(PairsOf(t, k)) - 1
          /\ Cardinality(PairsOf(t, k)) # 0
      <4>1. /\ Cardinality(PairsOf(t, k) \ {<<c, x>>}) = Cardinality(PairsOf(t, k)) - 1
            /\ PairsOf(t, k) # {}
        BY <2>1, <3>1, FS_RemoveElement
      <4>2. Cardinality(PairsOf(t, k)) # 0
        BY <2>1, <4>1, FS_EmptySet
      <4> QED BY <2>1, <3>1, <4>1, <4>2
    <3>3. u.locks[k] = IF t.locks[k] > 0 THEN t.locks[k] - 1 ELSE 0
      BY <1>0, <1>2, <2>2 DEF FreesLock
    <3> QED BY <2>1, <3>2, <3>3
  <2>3. CASE k # c
    <3>1. PairsOf(u, k) = PairsOf(t, k)
      BY <1>0, <2>3 DEF PairsOf
    <3>2. u.locks[k] = t.locks[k]
      BY <1>0, <1>2, <2>3 DEF FreesLock
    <3> QED BY <2>1, <3>1, <3>2
  <2> QED BY <2>2, <2>3
<1> QED BY <1>0, <1>3, <1>5, <1>6, <1>7 DEF Sound

\* A record frees a lock of the card it names for a call that has none.
LEMMA Strayed ==
  ASSUME NEW t, Sound(t), NEW u, NEW x, x \notin DOMAIN t.cardOf, NEW c \in Cards,
         Unlocks(t, u, c, x), u.stray = t.stray \cup {c}
  PROVE  Sound(u) /\ DOMAIN u.cardOf = DOMAIN t.cardOf
<1>0. /\ u \in TableType /\ u.confs = t.confs \ {<<c, x>>}
      /\ u.cardOf = Without(t.cardOf, x) /\ FreesLock(t, u, c)
  BY DEF Unlocks
<1>1. /\ t \in TableType /\ IsFiniteSet(t.confs) /\ Inverted(t) /\ Counts(t)
  BY DEF Sound
<1>2. t.cardOf \in Partial(Calls, Cards) /\ t.locks \in [Cards -> Nat]
  BY <1>1, TableFields
<1>3. /\ DOMAIN u.cardOf = DOMAIN t.cardOf
      /\ \A y \in DOMAIN t.cardOf : u.cardOf[y] = t.cardOf[y]
  BY <1>0 DEF Without, Restrict
<1>4. <<c, x>> \notin t.confs /\ u.confs = t.confs
  BY <1>0, <1>1 DEF Inverted
<1>5. Inverted(u) /\ IsFiniteSet(u.confs)
  BY <1>1, <1>3, <1>4 DEF Inverted
<1>6. Counts(u)
  <2> SUFFICES ASSUME NEW k \in Cards
               PROVE  /\ u.locks[k] <= Lines[k]
                      /\ Lines[k] > 0 =>
                           /\ u.locks[k] <= Cardinality(PairsOf(u, k))
                           /\ k \notin u.stray => u.locks[k] = Cardinality(PairsOf(u, k))
    BY DEF Counts
  <2>1. /\ t.locks[k] \in Nat /\ t.locks[k] <= Lines[k] /\ Lines[k] \in Nat
        /\ Lines[k] > 0 =>
             /\ t.locks[k] <= Cardinality(PairsOf(t, k))
             /\ k \notin t.stray => t.locks[k] = Cardinality(PairsOf(t, k))
        /\ Cardinality(PairsOf(t, k)) \in Nat
    BY <1>1, <1>2, PairsCount, CardsAssumption DEF Counts
  <2>2. PairsOf(u, k) = PairsOf(t, k)
    BY <1>4 DEF PairsOf
  <2>3. u.locks[k] = IF k = c THEN IF t.locks[k] > 0 THEN t.locks[k] - 1 ELSE 0
                     ELSE t.locks[k]
    BY <1>0, <1>2 DEF FreesLock
  <2>4. k # c => (k \in u.stray <=> k \in t.stray)
    OBVIOUS
  <2>5. k = c => k \in u.stray
    OBVIOUS
  <2> QED BY <2>1, <2>2, <2>3, <2>4, <2>5
<1> QED BY <1>0, <1>3, <1>4, <1>5, <1>6 DEF Sound

\* A call without a lock gets one.
Locks(t, u, c, x) ==
  /\ u \in TableType
  /\ u.confs = t.confs \cup {<<c, x>>} /\ u.cardOf = With(t.cardOf, x, c)
  /\ u.locks = [t.locks EXCEPT ![c] = IF Lines[c] > 0 THEN t.locks[c] + 1 ELSE t.locks[c]]
  /\ u.stray = t.stray

LEMMA Paired ==
  ASSUME NEW t, Sound(t), NEW u, NEW x \in Calls, x \notin DOMAIN t.cardOf,
         NEW c \in Cards, HasLine(t, c), Locks(t, u, c, x)
  PROVE  Sound(u) /\ DOMAIN u.cardOf = DOMAIN t.cardOf \cup {x}
<1>0. /\ u \in TableType
      /\ u.confs = t.confs \cup {<<c, x>>} /\ u.cardOf = With(t.cardOf, x, c)
      /\ u.locks = [t.locks EXCEPT ![c] = IF Lines[c] > 0 THEN t.locks[c] + 1 ELSE t.locks[c]]
      /\ u.stray = t.stray
  BY DEF Locks
<1>1. /\ t \in TableType /\ IsFiniteSet(t.confs) /\ Inverted(t) /\ Counts(t)
  BY DEF Sound
<1>2. t.cardOf \in Partial(Calls, Cards) /\ t.locks \in [Cards -> Nat]
  BY <1>1, TableFields
<1>3. /\ DOMAIN u.cardOf = DOMAIN t.cardOf \cup {x} /\ u.cardOf[x] = c
      /\ \A y \in DOMAIN t.cardOf \ {x} : u.cardOf[y] = t.cardOf[y]
  BY <1>0 DEF With
<1>4. <<c, x>> \notin t.confs
  BY <1>1 DEF Inverted
<1>5. IsFiniteSet(u.confs)
  BY <1>0, <1>1, FS_AddElement
<1>6. Inverted(u)
  BY <1>0, <1>1, <1>3 DEF Inverted
<1>7. Counts(u)
  <2> SUFFICES ASSUME NEW k \in Cards
               PROVE  /\ u.locks[k] <= Lines[k]
                      /\ Lines[k] > 0 =>
                           /\ u.locks[k] <= Cardinality(PairsOf(u, k))
                           /\ k \notin u.stray => u.locks[k] = Cardinality(PairsOf(u, k))
    BY DEF Counts
  <2>1. /\ t.locks[k] \in Nat /\ t.locks[k] <= Lines[k] /\ Lines[k] \in Nat
        /\ Lines[k] > 0 =>
             /\ t.locks[k] <= Cardinality(PairsOf(t, k))
             /\ k \notin t.stray => t.locks[k] = Cardinality(PairsOf(t, k))
        /\ IsFiniteSet(PairsOf(t, k)) /\ Cardinality(PairsOf(t, k)) \in Nat
    BY <1>1, <1>2, PairsCount, CardsAssumption DEF Counts
  <2>2. CASE k = c
    <3>1. PairsOf(u, k) = PairsOf(t, k) \cup {<<c, x>>} /\ <<c, x>> \notin PairsOf(t, k)
      BY <1>0, <1>4, <2>2 DEF PairsOf
    <3>2. Cardinality(PairsOf(u, k)) = Cardinality(PairsOf(t, k)) + 1
      BY <2>1, <3>1, FS_AddElement
    <3>3. u.locks[k] = IF Lines[k] > 0 THEN t.locks[k] + 1 ELSE t.locks[k]
      BY <1>0, <1>2, <2>2
    <3>4. Lines[k] > 0 => t.locks[k] < Lines[k]
      BY <2>2 DEF HasLine
    <3> QED BY <1>0, <2>1, <3>2, <3>3, <3>4
  <2>3. CASE k # c
    <3>1. PairsOf(u, k) = PairsOf(t, k)
      BY <1>0, <2>3 DEF PairsOf
    <3>2. u.locks[k] = t.locks[k]
      BY <1>0, <1>2, <2>3
    <3> QED BY <1>0, <2>1, <3>1, <3>2
  <2> QED BY <2>2, <2>3
<1> QED BY <1>0, <1>3, <1>5, <1>6, <1>7 DEF Sound

\* The locks of two tables are the same.
SameLocks(t, u) ==
  u.confs = t.confs /\ u.cardOf = t.cardOf /\ u.locks = t.locks /\ u.stray = t.stray

LEMMA LocksUntouched ==
  ASSUME NEW t, Sound(t), NEW u \in TableType, SameLocks(t, u)
  PROVE  Sound(u)
BY DEF Sound, SameLocks, Inverted, Counts, PairsOf

-----------------------------------------------------------------------------
(* What the helpers do to tables.                                          *)

\* A table that differs from another one only in what it says of call x.
Others(t, u, x) ==
  \A y \in Calls \ {x} :
    /\ y \in DOMAIN u.spool <=> y \in DOMAIN t.spool
    /\ y \in DOMAIN t.spool => u.spool[y] = t.spool[y]
    /\ y \in DOMAIN u.cardOf <=> y \in DOMAIN t.cardOf
    /\ y \in u.dangling <=> y \in t.dangling

LEMMA OthersTwice ==
  ASSUME NEW t, NEW u, NEW v, NEW x, Others(t, u, x), Others(u, v, x)
  PROVE  Others(t, v, x)
BY DEF Others

LEMMA OthersFit ==
  ASSUME NEW t, NEW u, NEW x, Others(t, u, x), NEW y \in Calls \ {x}, NEW h, Fits(t, y, h)
  PROVE  Fits(u, y, h)
<1>1. /\ y \in DOMAIN u.spool <=> y \in DOMAIN t.spool
      /\ y \in DOMAIN t.spool => u.spool[y] = t.spool[y]
      /\ y \in DOMAIN u.cardOf <=> y \in DOMAIN t.cardOf
      /\ y \in u.dangling <=> y \in t.dangling
  BY DEF Others
<1> QED BY <1>1 DEF Fits, EntryFits, LockFits, EatersFit

\* Only the locks of x differ.
OnlyLocks(t, u, x) ==
  /\ u.spool = t.spool /\ u.permits = t.permits /\ u.dangling = t.dangling
  /\ DOMAIN u.cardOf = DOMAIN t.cardOf \ {x}

LEMMA EraseCardLockFields ==
  ASSUME NEW t \in TableType, NEW c \in Cards, NEW w, w = EraseCardLock(t, c)
  PROVE  /\ w \in TableType /\ FreesLock(t, w, c)
         /\ w.spool = t.spool /\ w.permits = t.permits /\ w.dangling = t.dangling
         /\ w.confs = t.confs /\ w.cardOf = t.cardOf /\ w.stray = t.stray
<1> DEFINE l == [t.locks EXCEPT ![c] = IF t.locks[c] > 0 THEN t.locks[c] - 1 ELSE 0]
<1>1. t.locks \in [Cards -> Nat]
  BY TableFields
<1>2. l \in [Cards -> Nat]
  BY <1>1
<1>3. w = [t EXCEPT !.locks = l]
  <2>1. [k \in Cards |-> IF k = c /\ t.locks[k] > 0 THEN t.locks[k] - 1 ELSE t.locks[k]]
          = [k \in Cards |-> IF k = c THEN IF t.locks[k] > 0 THEN t.locks[k] - 1 ELSE 0
                                     ELSE t.locks[k]]
    BY <1>1
  <2>2. l = [k \in Cards |-> IF k = c THEN IF t.locks[k] > 0 THEN t.locks[k] - 1 ELSE 0
                                      ELSE t.locks[k]]
    BY <1>1
  <2>3. w = [t EXCEPT !.locks =
                [k \in Cards |-> IF k = c /\ t.locks[k] > 0 THEN t.locks[k] - 1
                                 ELSE t.locks[k]]]
    BY DEF EraseCardLock, TableType
  <2> QED BY <2>1, <2>2, <2>3
<1> HIDE DEF l
<1>4. w \in TableType /\ w.locks = l
  BY <1>2, <1>3 DEF TableType
<1>5. /\ w.spool = t.spool /\ w.permits = t.permits /\ w.dangling = t.dangling
      /\ w.confs = t.confs /\ w.cardOf = t.cardOf /\ w.stray = t.stray
  BY <1>3 DEF TableType
<1> QED BY <1>4, <1>5 DEF FreesLock, l

UnlockedBy(t, c, x, s) ==
  [EraseCardLock(t, c) EXCEPT
     !.cardOf = Without(@, x), !.confs = @ \ {<<c, x>>}, !.stray = s]

LEMMA UnlockFields ==
  ASSUME NEW t \in TableType, NEW c \in Cards, NEW x, NEW s \in SUBSET Cards, NEW u,
         u = UnlockedBy(t, c, x, s)
  PROVE  Unlocks(t, u, c, x) /\ u.stray = s
<1>1. PICK w : w = EraseCardLock(t, c)
  OBVIOUS
<1>2. /\ w \in TableType /\ FreesLock(t, w, c)
      /\ w.spool = t.spool /\ w.permits = t.permits /\ w.dangling = t.dangling
      /\ w.confs = t.confs /\ w.cardOf = t.cardOf
  BY <1>1, EraseCardLockFields
<1>3. PICK f : f = Without(t.cardOf, x)
  OBVIOUS
<1>4. f \in Partial(Calls, Cards)
  BY <1>3, WithoutIsPartial, TableFields
<1>5. u = [w EXCEPT !.cardOf = f, !.confs = t.confs \ {<<c, x>>}, !.stray = s]
  BY <1>1, <1>2, <1>3 DEF TableType, UnlockedBy
<1>6. t.confs \ {<<c, x>>} \in SUBSET (Cards \X Calls)
  BY TableFields
<1>7. /\ u \in TableType /\ u.spool = w.spool /\ u.permits = w.permits
      /\ u.dangling = w.dangling /\ u.locks = w.locks
      /\ u.cardOf = f /\ u.confs = t.confs \ {<<c, x>>} /\ u.stray = s
  BY <1>2, <1>4, <1>5, <1>6 DEF TableType
<1> QED BY <1>2, <1>3, <1>7 DEF Unlocks, FreesLock

LEMMA EraseStalledKeeps ==
  ASSUME NEW t, Sound(t), NEW x \in Calls, NEW u, u = EraseStalledCardLocks(t, x)
  PROVE  Sound(u) /\ OnlyLocks(t, u, x)
<1>1. t \in TableType
  BY DEF Sound
<1>2. CASE x \notin DOMAIN t.cardOf
  BY <1>2 DEF EraseStalledCardLocks, OnlyLocks
<1>3. CASE x \in DOMAIN t.cardOf
  <2>1. PICK c : c = t.cardOf[x]
    OBVIOUS
  <2>2. c \in Cards /\ t.stray \in SUBSET Cards
    BY <1>1, <1>3, <2>1, TableFields
  <2>3. u = UnlockedBy(t, c, x, t.stray)
    <3>1. PICK w : w = EraseCardLock(t, c)
      OBVIOUS
    <3>2. w.stray = t.stray /\ w \in TableType
      BY <1>1, <2>2, <3>1, EraseCardLockFields
    <3>3. u = [w EXCEPT !.confs = @ \ {<<c, x>>}, !.cardOf = Without(@, x)]
      BY <1>3, <2>1, <3>1 DEF EraseStalledCardLocks
    <3> QED BY <3>1, <3>2, <3>3 DEF TableType, UnlockedBy
  <2>4. Unlocks(t, u, c, x) /\ u.stray = t.stray
    BY <1>1, <2>2, <2>3, UnlockFields
  <2>5. Sound(u) /\ DOMAIN u.cardOf = DOMAIN t.cardOf \ {x}
    BY <1>3, <2>1, <2>4, Unpaired
  <2> QED BY <2>4, <2>5 DEF OnlyLocks, Unlocks
<1> QED BY <1>2, <1>3

\* The locks that the end of the telephone leg frees.
FreedBy(t, x, name) ==
  LET c == IF x \in DOMAIN t.cardOf THEN t.cardOf[x] ELSE name
  IN [EraseCardLock(t, c) EXCEPT
        !.cardOf = Without(@, x), !.confs = @ \ {<<c, x>>},
        !.stray = IF c = NoCard \/ <<c, x>> \in t.confs THEN @ ELSE @ \cup {c}]

LEMMA FreedByCardKeeps ==
  ASSUME NEW t, Sound(t), NEW x \in Calls, NEW name,
         x \in DOMAIN t.cardOf \/ name \in Cards, NEW u, u = FreedBy(t, x, name)
  PROVE  Sound(u) /\ OnlyLocks(t, u, x)
<1>1. t \in TableType /\ Inverted(t)
  BY DEF Sound
<1>2. PICK c : c = IF x \in DOMAIN t.cardOf THEN t.cardOf[x] ELSE name
  OBVIOUS
<1>3. PICK s : s = IF <<c, x>> \in t.confs THEN t.stray ELSE t.stray \cup {c}
  OBVIOUS
<1>4. c \in Cards /\ s \in SUBSET Cards /\ c # NoCard
  BY <1>1, <1>2, <1>3, TableFields, CardsAssumption
<1>5. u = UnlockedBy(t, c, x, s)
  <2>1. PICK w : w = EraseCardLock(t, c)
    OBVIOUS
  <2>2. w.stray = t.stray /\ w \in TableType
    BY <1>1, <1>4, <2>1, EraseCardLockFields
  <2> QED BY <1>2, <1>3, <1>4, <2>1, <2>2 DEF FreedBy, TableType, UnlockedBy
<1>6. Unlocks(t, u, c, x) /\ u.stray = s
  BY <1>1, <1>4, <1>5, UnlockFields
<1>7. CASE x \in DOMAIN t.cardOf
  <2>1. Sound(u) /\ DOMAIN u.cardOf = DOMAIN t.cardOf \ {x}
    <3>1. t.stray \subseteq u.stray /\ c = t.cardOf[x]
      BY <1>2, <1>3, <1>6, <1>7
    <3> QED BY <1>6, <1>7, <3>1, Unpaired
  <2> QED BY <1>6, <2>1 DEF OnlyLocks, Unlocks
<1>8. CASE x \notin DOMAIN t.cardOf
  <2>1. <<c, x>> \notin t.confs
    BY <1>1, <1>8 DEF Inverted
  <2>2. Sound(u) /\ DOMAIN u.cardOf = DOMAIN t.cardOf
    <3>1. u.stray = t.stray \cup {c}
      BY <1>3, <1>6, <2>1
    <3> QED BY <1>4, <1>6, <1>8, <3>1, Strayed
  <2> QED BY <1>6, <1>8, <2>2 DEF OnlyLocks, Unlocks
<1> QED BY <1>7, <1>8

\* When no card is named and the call has no pair, nothing is freed.
LEMMA NothingFreed ==
  ASSUME NEW t, Sound(t), NEW x \in Calls, x \notin DOMAIN t.cardOf,
         NEW u, u = FreedBy(t, x, NoCard)
  PROVE  Sound(u) /\ OnlyLocks(t, u, x)
<1>1. t \in TableType /\ Inverted(t)
  BY DEF Sound
<1>2. t.locks \in [Cards -> Nat] /\ t.cardOf \in Partial(Calls, Cards)
  BY <1>1, TableFields
<1>3. PICK w : w = EraseCardLock(t, NoCard)
  OBVIOUS
<1>4. w = t
  <2>1. [k \in Cards |-> IF k = NoCard /\ t.locks[k] > 0 THEN t.locks[k] - 1
                         ELSE t.locks[k]] = t.locks
    BY <1>2, CardsAssumption
  <2>2. w = [t EXCEPT !.locks =
                [k \in Cards |-> IF k = NoCard /\ t.locks[k] > 0 THEN t.locks[k] - 1
                                 ELSE t.locks[k]]]
    BY <1>1, <1>3 DEF EraseCardLock, TableType
  <2> QED BY <1>1, <2>1, <2>2 DEF TableType
<1>5. PICK f : f = Without(t.cardOf, x)
  OBVIOUS
<1>6. f = t.cardOf
  <2>1. f = [y \in DOMAIN t.cardOf |-> t.cardOf[y]]
    BY <1>5 DEF Without, Restrict
  <2> QED BY <1>2, <2>1, PartialType
<1>7. t.confs \ {<<NoCard, x>>} = t.confs
  BY <1>1, TableFields, CardsAssumption
<1>8. u = [w EXCEPT !.cardOf = Without(@, x), !.confs = @ \ {<<NoCard, x>>}, !.stray = @]
  BY <1>3 DEF FreedBy
<1>9. u = t
  <2>1. u = [t EXCEPT !.cardOf = Without(t.cardOf, x),
                      !.confs = t.confs \ {<<NoCard, x>>}, !.stray = t.stray]
    BY <1>1, <1>4, <1>8 DEF TableType
  <2>2. u = [t EXCEPT !.cardOf = t.cardOf, !.confs = t.confs, !.stray = t.stray]
    BY <1>5, <1>6, <1>7, <2>1
  <2> QED BY <1>1, <2>2 DEF TableType
<1> QED BY <1>9 DEF OnlyLocks

LEMMA FreedByKeeps ==
  ASSUME NEW t, Sound(t), NEW x \in Calls, NEW name \in Cards \cup {NoCard},
         NEW u, u = FreedBy(t, x, name)
  PROVE  Sound(u) /\ OnlyLocks(t, u, x)
<1>1. CASE x \in DOMAIN t.cardOf \/ name \in Cards
  BY <1>1, FreedByCardKeeps
<1>2. CASE x \notin DOMAIN t.cardOf /\ name = NoCard
  BY <1>2, NothingFreed
<1> QED BY <1>1, <1>2

\* Call x gets a lock of card c.
LEMMA LockKeeps ==
  ASSUME NEW t, Sound(t), NEW x \in Calls, x \notin DOMAIN t.cardOf,
         NEW c \in Cards, HasLine(t, c), NEW u, u = Lock(t, x, c)
  PROVE  /\ Sound(u)
         /\ u.spool = t.spool /\ u.permits = t.permits /\ u.dangling = t.dangling
         /\ DOMAIN u.cardOf = DOMAIN t.cardOf \cup {x}
<1>1. t \in TableType
  BY DEF Sound
<1>2. PICK l : l = [t.locks EXCEPT ![c] = IF Lines[c] > 0 THEN t.locks[c] + 1 ELSE t.locks[c]]
  OBVIOUS
<1>3. PICK f : f = With(t.cardOf, x, c)
  OBVIOUS
<1>4. l \in [Cards -> Nat] /\ f \in Partial(Calls, Cards)
  BY <1>1, <1>2, <1>3, TableFields, WithIsPartial
<1>5. u = [t EXCEPT !.locks = l, !.confs = t.confs \cup {<<c, x>>}, !.cardOf = f]
  BY <1>1, <1>2, <1>3 DEF Lock, TableType
<1>6. t.confs \cup {<<c, x>>} \in SUBSET (Cards \X Calls)
  BY <1>1, TableFields
<1>7. /\ u \in TableType /\ u.spool = t.spool /\ u.permits = t.permits
      /\ u.dangling = t.dangling /\ u.locks = l
      /\ u.cardOf = f /\ u.confs = t.confs \cup {<<c, x>>} /\ u.stray = t.stray
  BY <1>1, <1>4, <1>5, <1>6 DEF TableType
<1>8. Sound(u) /\ DOMAIN u.cardOf = DOMAIN t.cardOf \cup {x}
  <2>1. Locks(t, u, c, x)
    BY <1>2, <1>3, <1>7 DEF Locks
  <2> QED BY <2>1, Paired
<1> QED BY <1>7, <1>8

-----------------------------------------------------------------------------
(* The entries.                                                            *)

LEMMA EntryOfType ==
  ASSUME NEW t \in TableType, NEW x
  PROVE  EntryOf(t, x) \in Entry /\ (x \in DOMAIN t.spool => EntryOf(t, x) = t.spool[x])
         /\ (x \notin DOMAIN t.spool => EntryOf(t, x) = NewEntry)
BY TableFields, NewEntryType DEF EntryOf, Known

\* A table that has got e for the entry of x.
Puts(t, u, x, e) ==
  /\ Sound(u) /\ Others(t, u, x)
  /\ DOMAIN u.spool = DOMAIN t.spool \cup {x} /\ u.spool[x] = e
  /\ u.permits = t.permits /\ u.cardOf = t.cardOf

LEMMA PutKeeps ==
  ASSUME NEW t, Sound(t), NEW x \in Calls, NEW e \in Entry, NEW u, u = Put(t, x, e)
  PROVE  Puts(t, u, x, e) /\ u.dangling = t.dangling
<1>1. t \in TableType
  BY DEF Sound
<1>2. PICK f : f = With(t.spool, x, e)
  OBVIOUS
<1>3. f \in Partial(Calls, Entry)
  BY <1>1, <1>2, TableFields, WithIsPartial
<1>4. /\ DOMAIN f = DOMAIN t.spool \cup {x} /\ f[x] = e
      /\ \A y \in DOMAIN t.spool \ {x} : f[y] = t.spool[y]
  BY <1>2 DEF With
<1>5. u = [t EXCEPT !.spool = f]
  BY <1>2 DEF Put
<1>6. /\ u \in TableType /\ u.spool = f /\ SameLocks(t, u)
      /\ u.permits = t.permits /\ u.dangling = t.dangling
  BY <1>1, <1>3, <1>5 DEF TableType, SameLocks
<1>7. Sound(u)
  BY <1>6, LocksUntouched
<1>8. Others(t, u, x)
  BY <1>4, <1>6 DEF Others, SameLocks
<1> QED BY <1>4, <1>6, <1>7, <1>8 DEF Puts, SameLocks

LEMMA EraseRadiusSpoolKeeps ==
  ASSUME NEW t, Sound(t), limit \in Nat, NEW x \in DOMAIN t.spool, NEW u, u = EraseRadiusSpool(t, x)
  PROVE  /\ Sound(u) /\ Others(t, u, x)
         /\ DOMAIN u.spool = DOMAIN t.spool \ {x}
         /\ u.permits = Released(t.permits) /\ u.cardOf = t.cardOf
         /\ x \in u.dangling <=> x \in t.dangling \/ t.spool[x].cb \/ t.spool[x].cbDealer
<1>1. t \in TableType
  BY DEF Sound
<1>2. PICK f : f = Without(t.spool, x)
  OBVIOUS
<1>3. f \in Partial(Calls, Entry)
  BY <1>1, <1>2, TableFields, WithoutIsPartial
<1>4. /\ DOMAIN f = DOMAIN t.spool \ {x}
      /\ \A y \in DOMAIN t.spool \ {x} : f[y] = t.spool[y]
  BY <1>2 DEF Without, Restrict
<1>5. PICK p : p = Released(t.permits)
  OBVIOUS
<1>6. p \in Nat
  BY <1>1, <1>5, TableFields, ReleasedSlot
<1>7. PICK d : d = IF t.spool[x].cb \/ t.spool[x].cbDealer THEN t.dangling \cup {x}
                   ELSE t.dangling
  OBVIOUS
<1>8. d \in SUBSET Calls
  BY <1>1, <1>7, TableFields
<1>9. u = [t EXCEPT !.spool = f, !.permits = p, !.dangling = d]
  BY <1>1, <1>2, <1>5, <1>7 DEF EraseRadiusSpool, TableType
<1>10. /\ u \in TableType /\ u.spool = f /\ SameLocks(t, u)
       /\ u.permits = p /\ u.dangling = d
  BY <1>1, <1>3, <1>6, <1>8, <1>9 DEF TableType, SameLocks
<1>11. Sound(u)
  BY <1>10, LocksUntouched
<1>12. Others(t, u, x)
  BY <1>4, <1>7, <1>10 DEF Others, SameLocks
<1> QED BY <1>4, <1>5, <1>7, <1>10, <1>11, <1>12 DEF SameLocks

\* What the end of the telephone leg leaves of call x.
Ended(t, u, x) ==
  /\ Sound(u) /\ Others(t, u, x) /\ x \notin DOMAIN u.cardOf
  /\ x \in u.dangling => x \in t.dangling
  /\ \/ /\ x \notin DOMAIN t.spool /\ DOMAIN u.spool = DOMAIN t.spool
        /\ u.permits = t.permits
     \/ /\ x \in DOMAIN t.spool /\ t.spool[x].isOV
        /\ DOMAIN u.spool = DOMAIN t.spool /\ u.permits = t.permits
        /\ u.spool[x].isOV /\ u.spool[x].telephonyEnded
        /\ ~u.spool[x].cb /\ ~u.spool[x].cbDealer
     \/ /\ x \in DOMAIN t.spool /\ ~t.spool[x].isOV
        /\ DOMAIN u.spool = DOMAIN t.spool \ {x} /\ u.permits = Released(t.permits)

LEMMA EraseRadiusLockKeeps ==
  ASSUME NEW t, Sound(t), limit \in Nat, NEW x \in Calls,
         NEW name \in Cards \cup {NoCard}, NEW u, u = EraseRadiusLock(t, x, name)
  PROVE  Ended(t, u, x)
<1>1. PICK t1 : t1 = FreedBy(t, x, name)
  OBVIOUS
<1>2. Sound(t1) /\ OnlyLocks(t, t1, x)
  BY <1>1, FreedByKeeps
<1>3. PICK e : e = [RemoveCbEaters(EntryOf(t1, x)) EXCEPT !.telephonyEnded = TRUE]
  OBVIOUS
<1>4. PICK t2 : t2 = Put(t1, x, e)
  OBVIOUS
<1>5. u = IF ~Known(t, x) THEN t1 ELSE IF t.spool[x].isOV THEN t2 ELSE EraseRadiusSpool(t2, x)
  BY <1>1, <1>3, <1>4 DEF EraseRadiusLock, FreedBy
<1>6. Others(t, t1, x) /\ x \notin DOMAIN t1.cardOf /\ t1.dangling = t.dangling
      /\ t1.spool = t.spool /\ t1.permits = t.permits
  BY <1>2 DEF OnlyLocks, Others
<1>7. CASE ~Known(t, x)
  BY <1>2, <1>5, <1>6, <1>7 DEF Ended, Known
<1>8. CASE Known(t, x)
  <2>1. EntryOf(t1, x) \in Entry /\ EntryOf(t1, x) = t.spool[x]
    BY <1>2, <1>6, <1>8, EntryOfType DEF Sound, Known
  <2>2. /\ e \in Entry /\ e.isOV = t.spool[x].isOV /\ e.telephonyEnded
        /\ ~e.cb /\ ~e.cbDealer
    BY <1>3, <2>1 DEF RemoveCbEaters, Entry
  <2>3. Puts(t1, t2, x, e) /\ t2.dangling = t1.dangling
    BY <1>2, <1>4, <2>2, PutKeeps
  <2>4. /\ Sound(t2) /\ Others(t, t2, x) /\ x \notin DOMAIN t2.cardOf
        /\ t2.dangling = t.dangling
        /\ DOMAIN t2.spool = DOMAIN t.spool /\ t2.spool[x] = e /\ t2.permits = t.permits
    BY <1>6, <1>8, <2>3, OthersTwice DEF Puts, Known
  <2>5. CASE t.spool[x].isOV
    BY <1>5, <1>8, <2>2, <2>4, <2>5 DEF Ended, Known
  <2>6. CASE ~t.spool[x].isOV
    <3>1. u = EraseRadiusSpool(t2, x) /\ x \in DOMAIN t2.spool
      BY <1>5, <1>8, <2>4, <2>6 DEF Known
    <3>2. /\ Sound(u) /\ Others(t2, u, x)
          /\ DOMAIN u.spool = DOMAIN t2.spool \ {x}
          /\ u.permits = Released(t2.permits) /\ u.cardOf = t2.cardOf
          /\ x \in u.dangling <=> x \in t2.dangling \/ t2.spool[x].cb \/ t2.spool[x].cbDealer
      BY <2>4, <3>1, EraseRadiusSpoolKeeps
    <3>3. Others(t, u, x)
      BY <2>4, <3>2, OthersTwice
    <3> QED BY <1>8, <2>2, <2>4, <2>6, <3>2, <3>3 DEF Ended, Known
  <2> QED BY <2>5, <2>6
<1> QED BY <1>7, <1>8

\* What the end of the other leg leaves of it.
OtherEnded(t, u, x) ==
  /\ Sound(u) /\ Others(t, u, x) /\ u.cardOf = t.cardOf
  /\ \/ x \notin DOMAIN t.spool /\ u = t
     \/ /\ x \in DOMAIN t.spool /\ t.spool[x].telephonyEnded
        /\ DOMAIN u.spool = DOMAIN t.spool \ {x} /\ u.permits = Released(t.permits)
        /\ x \in u.dangling <=> x \in t.dangling \/ t.spool[x].cb \/ t.spool[x].cbDealer
     \/ /\ x \in DOMAIN t.spool /\ ~t.spool[x].telephonyEnded
        /\ DOMAIN u.spool = DOMAIN t.spool /\ u.permits = t.permits
        /\ u.dangling = t.dangling
        /\ u.spool[x].isOV = t.spool[x].isOV /\ ~u.spool[x].telephonyEnded

LEMMA ClearRadiusSpoolKeeps ==
  ASSUME NEW t, Sound(t), limit \in Nat, NEW x \in Calls, NEW secs \in {0, 1},
         NEW u, u = ClearRadiusSpool(t, x, secs)
  PROVE  OtherEnded(t, u, x)
<1>1. CASE x \notin DOMAIN t.spool
  BY <1>1 DEF ClearRadiusSpool, OtherEnded, Known, Others
<1>2. CASE x \in DOMAIN t.spool /\ t.spool[x].telephonyEnded
  <2>1. u = EraseRadiusSpool(t, x)
    BY <1>2 DEF ClearRadiusSpool, Known
  <2> QED BY <1>2, <2>1, EraseRadiusSpoolKeeps DEF OtherEnded
<1>3. CASE x \in DOMAIN t.spool /\ ~t.spool[x].telephonyEnded
  <2>0. PICK b : b = (secs > 0)
    BY Zenon
  <2>b. (secs > 0) \in BOOLEAN
    OBVIOUS
  <2>c. b \in BOOLEAN
    BY <2>0, <2>b, Zenon
  <2>1. PICK e : e = [t.spool[x] EXCEPT !.ovSaved = b]
    OBVIOUS
  <2>2. t.spool[x] \in Entry
    BY <1>3, TableFields DEF Sound
  <2>3. e \in Entry /\ e.isOV = t.spool[x].isOV /\ ~e.telephonyEnded
    BY <1>3, <2>c, <2>1, <2>2 DEF Entry
  <2>4. u = Put(t, x, e)
    BY <1>3, <2>0, <2>1 DEF ClearRadiusSpool, Known
  <2>5. Puts(t, u, x, e) /\ u.dangling = t.dangling
    BY <2>3, <2>4, PutKeeps
  <2> QED BY <1>3, <2>3, <2>5 DEF Puts, OtherEnded
<1> QED BY <1>1, <1>2, <1>3

\* The eaters of a call-back: nothing but the entry's, and a card that is charged
\* itself may leave one behind.
GetsEaters(t, u, x, c) ==
  /\ Sound(u) /\ Others(t, u, x) /\ u.cardOf = t.cardOf
  /\ DOMAIN u.spool = DOMAIN t.spool /\ u.permits = t.permits
  /\ u.spool[x].isOV = t.spool[x].isOV
  /\ u.spool[x].telephonyEnded = t.spool[x].telephonyEnded
  /\ x \in u.dangling => x \in t.dangling \/ "card" \in Balances[c]

LEMMA AddCbEatersKeeps ==
  ASSUME NEW t, Sound(t), NEW x \in Calls, x \in DOMAIN t.spool, NEW c \in Cards,
         NEW u, u = AddCbEaters(t, x, c)
  PROVE  GetsEaters(t, u, x, c)
<1> DEFINE dealer == t.spool[x].cbDealer \/ "dealer" \in Balances[c]
           own == "card" \in Balances[c]
<1>1. t.spool[x] \in Entry /\ t \in TableType
  BY TableFields DEF Sound
<1>2. PICK e : e = [t.spool[x] EXCEPT !.cbDealer = dealer \/ own,
                                      !.cb = @ \/ "customer" \in Balances[c]]
  OBVIOUS
<1>3. /\ e \in Entry /\ e.isOV = t.spool[x].isOV
      /\ e.telephonyEnded = t.spool[x].telephonyEnded
  BY <1>1, <1>2 DEF Entry
<1>4. PICK w : w = Put(t, x, e)
  OBVIOUS
<1>5. Puts(t, w, x, e) /\ w.dangling = t.dangling /\ w \in TableType
  BY <1>3, <1>4, PutKeeps DEF Puts, Sound
<1>6. PICK d : d = IF dealer /\ own THEN t.dangling \cup {x} ELSE t.dangling
  OBVIOUS
<1>7. d \in SUBSET Calls /\ (x \in d => x \in t.dangling \/ own)
      /\ \A y \in Calls \ {x} : y \in d <=> y \in t.dangling
  BY <1>1, <1>6, TableFields
<1>8. u = [w EXCEPT !.dangling = d]
  BY <1>2, <1>4, <1>5, <1>6 DEF AddCbEaters
<1> HIDE DEF dealer
<1>9. /\ u \in TableType /\ u.spool = w.spool /\ SameLocks(w, u)
      /\ u.permits = w.permits /\ u.dangling = d
  BY <1>5, <1>7, <1>8 DEF TableType, SameLocks
<1>10. Sound(u)
  BY <1>5, <1>9, LocksUntouched DEF Puts
<1>11. Others(t, u, x)
  BY <1>5, <1>7, <1>9 DEF Others, SameLocks, Puts
<1> QED BY <1>3, <1>5, <1>7, <1>9, <1>10, <1>11 DEF GetsEaters, Puts, SameLocks


-----------------------------------------------------------------------------
(* Slots.                                                                  *)

LEMMA SlotsType ==
  ASSUME NEW t, Sound(t)
  PROVE  /\ IsFiniteSet(DOMAIN t.spool) /\ Cardinality(DOMAIN t.spool) \in Nat
         /\ t.permits \in Nat /\ Slots(t) \in Nat
<1>1. t \in TableType
  BY DEF Sound
<1>2. DOMAIN t.spool \subseteq Calls /\ t.permits \in Nat
  BY <1>1, TableFields
<1>3. IsFiniteSet(DOMAIN t.spool)
  BY <1>2, CardsAssumption, FS_Subset
<1>4. Cardinality(DOMAIN t.spool) \in Nat
  BY <1>3, FS_CardinalityType
<1> QED BY <1>2, <1>3, <1>4 DEF Slots

LEMMA SlotAdded ==
  ASSUME NEW t, Sound(t), NEW x, x \notin DOMAIN t.spool, NEW u,
         DOMAIN u.spool = DOMAIN t.spool \cup {x}, u.permits = t.permits
  PROVE  Slots(u) = Slots(t) + 1
<1>1. /\ IsFiniteSet(DOMAIN t.spool) /\ Cardinality(DOMAIN t.spool) \in Nat
      /\ t.permits \in Nat
  BY SlotsType
<1>2. Cardinality(DOMAIN u.spool) = Cardinality(DOMAIN t.spool) + 1
  BY <1>1, FS_AddElement
<1> QED BY <1>1, <1>2 DEF Slots

LEMMA SlotDropped ==
  ASSUME NEW t, Sound(t), limit \in Nat, NEW x \in DOMAIN t.spool, NEW u,
         DOMAIN u.spool = DOMAIN t.spool \ {x}, u.permits = Released(t.permits)
  PROVE  /\ u.permits <= limit + 1
         /\ Slots(t) <= limit + 1 => Slots(u) = Slots(t)
<1>1. /\ IsFiniteSet(DOMAIN t.spool) /\ Cardinality(DOMAIN t.spool) \in Nat
      /\ t.permits \in Nat
  BY SlotsType
<1>2. Cardinality(DOMAIN u.spool) = Cardinality(DOMAIN t.spool) - 1
  BY <1>1, FS_RemoveElement
<1>3. Cardinality(DOMAIN t.spool) # 0
  BY <1>1, FS_EmptySet
<1>4. /\ u.permits \in Nat /\ u.permits <= limit + 1
      /\ t.permits <= limit => u.permits = t.permits + 1
  BY <1>1, ReleasedSlot
<1> QED BY <1>1, <1>2, <1>3, <1>4 DEF Slots

\* At most one slot is taken, dropped or asked for: those of u are those of t.
SlotsKept(t, u) ==
  /\ t.permits <= limit + 1 => u.permits <= limit + 1
  /\ Slots(t) <= limit + 1 => Slots(u) = Slots(t)

LEMMA SlotsSame ==
  ASSUME NEW t, NEW u, DOMAIN u.spool = DOMAIN t.spool, u.permits = t.permits
  PROVE  SlotsKept(t, u)
BY DEF SlotsKept, Slots

LEMMA SlotsEnded ==
  ASSUME NEW t, Sound(t), limit \in Nat, NEW x, NEW u, Ended(t, u, x)
  PROVE  SlotsKept(t, u)
<1>1. CASE DOMAIN u.spool = DOMAIN t.spool /\ u.permits = t.permits
  BY <1>1, SlotsSame
<1>2. CASE /\ x \in DOMAIN t.spool
           /\ DOMAIN u.spool = DOMAIN t.spool \ {x} /\ u.permits = Released(t.permits)
  BY <1>2, SlotDropped DEF SlotsKept
<1> QED BY <1>1, <1>2 DEF Ended

LEMMA SlotsOtherEnded ==
  ASSUME NEW t, Sound(t), limit \in Nat, NEW x, NEW u, OtherEnded(t, u, x)
  PROVE  SlotsKept(t, u)
<1>1. CASE DOMAIN u.spool = DOMAIN t.spool /\ u.permits = t.permits
  BY <1>1, SlotsSame
<1>2. CASE /\ x \in DOMAIN t.spool
           /\ DOMAIN u.spool = DOMAIN t.spool \ {x} /\ u.permits = Released(t.permits)
  BY <1>2, SlotDropped DEF SlotsKept
<1> QED BY <1>1, <1>2 DEF OtherEnded

-----------------------------------------------------------------------------
(* From tables to states.                                                  *)

LEMMA StateFacts ==
  ASSUME IInv
  PROVE  /\ limit \in Nat /\ kind \in [Calls -> {"phone", "framed", "sms"}]
         /\ Sound(Tables) /\ Tables \in TableType /\ Tables.permits <= limit + 1
         /\ Tables.spool = spool /\ Tables.confs = confs /\ Tables.cardOf = cardOf
         /\ Tables.permits = permits /\ Tables.dangling = dangling
         /\ \A x \in Calls : heard[x] \in SUBSET {"ov", "at", "crossed"}
BY KindsAssumption, LimitsAssumption DEF IInv, Sound, Tables

\* A step after which the tables are u and the records of x are h, and which does
\* nothing to the other calls.
LEMMA Becomes ==
  ASSUME IInv, NEW u, Sound(u), NEW x \in Calls, Others(Tables, u, x), Become(u),
         u.permits <= limit + 1,
         NEW h \in SUBSET {"ov", "at", "crossed"}, heard' = [heard EXCEPT ![x] = h],
         Fits(u, x, h), kind' = kind, limit' = limit,
         taking' \in BOOLEAN, saw15' \in BOOLEAN,
         ~saw15' => Slots(u) = limit + (IF taking' THEN 1 ELSE 0)
  PROVE  IInv'
<1>1. u \in TableType
  BY DEF Sound
<1>2. u = [spool |-> u.spool, confs |-> u.confs, cardOf |-> u.cardOf, locks |-> u.locks,
           permits |-> u.permits, dangling |-> u.dangling, stray |-> u.stray]
  BY <1>1 DEF TableType
<1>3. Tables' = u
  BY <1>2 DEF Tables, Become
<1>4. heard \in [Calls -> SUBSET {"ov", "at", "crossed"}]
  BY DEF IInv
<1>5. /\ heard' \in [Calls -> SUBSET {"ov", "at", "crossed"}]
      /\ heard'[x] = h /\ \A y \in Calls \ {x} : heard'[y] = heard[y]
  BY <1>4
<1>6. Sound(Tables)'
  BY <1>3
<1>7. ASSUME NEW y \in Calls
      PROVE  Fits(u, y, heard'[y])
  <2>1. CASE y = x
    BY <1>5, <2>1
  <2>2. CASE y # x
    <3>1. Fits(Tables, y, heard[y])
      BY DEF IInv
    <3>2. Fits(u, y, heard[y])
      BY <2>2, <3>1, OthersFit
    <3> QED BY <1>5, <2>2, <3>2
  <2> QED BY <2>1, <2>2
<1>8. (\A y \in Calls : Fits(Tables, y, heard[y]))'
  BY <1>3, <1>7 DEF Fits, EntryFits, LockFits, EatersFit
<1>9. permits' = u.permits
  BY DEF Become
<1>10. (~saw15 => Slots(Tables) = limit + (IF taking THEN 1 ELSE 0))'
  BY <1>3 DEF Slots
<1> QED BY <1>5, <1>6, <1>8, <1>9, <1>10 DEF IInv

\* A step that takes or drops no slot.
LEMMA BecomesKept ==
  ASSUME IInv, NEW u, Sound(u), NEW x \in Calls, Others(Tables, u, x), Become(u),
         SlotsKept(Tables, u),
         NEW h \in SUBSET {"ov", "at", "crossed"}, heard' = [heard EXCEPT ![x] = h],
         Fits(u, x, h), UNCHANGED <<kind, limit, taking, saw15>>
  PROVE  IInv'
<1>1. /\ u.permits <= limit + 1
      /\ ~saw15 => Slots(u) = limit + (IF taking THEN 1 ELSE 0)
  <2>1. limit \in Nat /\ Tables.permits <= limit + 1
    BY StateFacts
  <2>2. ~saw15 => Slots(Tables) = limit + (IF taking THEN 1 ELSE 0)
    BY DEF IInv
  <2>3. ~saw15 => Slots(Tables) <= limit + 1
    BY <2>1, <2>2
  <2> QED BY <2>1, <2>2, <2>3 DEF SlotsKept
<1>2. taking' \in BOOLEAN /\ saw15' \in BOOLEAN
  BY DEF IInv
<1> QED BY <1>1, <1>2, Becomes

-----------------------------------------------------------------------------
(* What the entry of a call says after a request or a record of it.        *)

\* A request keeps the flags of the entry and forgets the record of a last talk.
LEMMA RequestFits ==
  ASSUME NEW t, NEW u, NEW x, NEW h, Fits(t, x, h), "at" \notin h, x \in DOMAIN u.spool,
         u.spool[x].isOV = EntryOf(t, x).isOV,
         u.spool[x].telephonyEnded = EntryOf(t, x).telephonyEnded,
         x \in u.dangling =>
           x \in t.dangling \/ \E c \in CardsOf[x] : "card" \in Balances[c]
  PROVE  Fits(u, x, h \ {"ov"})
<1>1. CASE x \in DOMAIN t.spool
  BY <1>1 DEF EntryOf, Known, Fits, EntryFits, LockFits, EatersFit
<1>2. CASE x \notin DOMAIN t.spool
  BY <1>2 DEF EntryOf, Known, NewEntry, Fits, EntryFits, LockFits, EatersFit
<1> QED BY <1>1, <1>2

\* The stop record of the telephone leg, alone or of both legs.
LEMMA EndedFits ==
  ASSUME NEW t, NEW u, NEW x, NEW h, Fits(t, x, h), Ended(t, u, x),
         NEW r, h \subseteq r, "at" \in r, "ov" \in r => "ov" \in h \/ kind[x] # "phone"
  PROVE  Fits(u, x, r)
BY DEF Ended, Fits, EntryFits, LockFits, EatersFit

\* The stop record of the other leg; t is the table with m_isOV cleared.
LEMMA OtherEndedFits ==
  ASSUME NEW t, NEW u, NEW x, NEW h, LockFits(t, x, h), EatersFit(t, x, h),
         OtherEnded(t, u, x), NEW r, r = h \cup {"ov"},
         x \in DOMAIN t.spool =>
           /\ ~t.spool[x].isOV
           /\ "at" \in h => t.spool[x].telephonyEnded
           /\ "crossed" \in h \/
              (t.spool[x].telephonyEnded => /\ x \notin DOMAIN t.cardOf
                                             /\ ~t.spool[x].cb /\ ~t.spool[x].cbDealer)
  PROVE  Fits(u, x, r)
<1>1. CASE x \notin DOMAIN t.spool /\ u = t
  BY <1>1 DEF Fits, EntryFits, LockFits, EatersFit
<1>2. CASE x \in DOMAIN t.spool /\ t.spool[x].telephonyEnded
  BY <1>2 DEF OtherEnded, Fits, EntryFits, LockFits, EatersFit
<1>3. CASE x \in DOMAIN t.spool /\ ~t.spool[x].telephonyEnded
  BY <1>3 DEF OtherEnded, Fits, EntryFits, LockFits, EatersFit
<1> QED BY <1>1, <1>2, <1>3 DEF OtherEnded

-----------------------------------------------------------------------------
(* The requests.                                                           *)

LEMMA StartKeeps ==
  ASSUME NEW e \in Entry, NEW x
  PROVE  /\ Start(e, x) \in Entry /\ Start(e, x).isOV = e.isOV
         /\ Start(e, x).telephonyEnded = e.telephonyEnded
<1>1. PICK b : b = (e.startCame \/ x \notin HasStart)
  BY Zenon
<1>2. b \in BOOLEAN
  BY <1>1, Zenon
<1>3. Start(e, x) = [e EXCEPT !.startCame = b]
  BY <1>1 DEF Start
<1> HIDE DEF Start
<1> QED BY <1>2, <1>3 DEF Entry

\* A call that is authorised: u has its entry, with the flags it had.
Authorised(t, u, x) ==
  /\ Sound(u) /\ Others(t, u, x)
  /\ DOMAIN u.spool = DOMAIN t.spool \cup {x} /\ u.permits = t.permits
  /\ u.spool[x].isOV = EntryOf(t, x).isOV
  /\ u.spool[x].telephonyEnded = EntryOf(t, x).telephonyEnded
  /\ x \in u.dangling =>
       x \in t.dangling \/ \E c \in CardsOf[x] : "card" \in Balances[c]

LEMMA RequestKeeps ==
  ASSUME IInv, ~taking, NEW x \in Calls, "at" \notin heard[x],
         NEW u, Authorised(Tables, u, x), Become(u), Settled(x),
         taking' = (x \notin DOMAIN spool), UNCHANGED <<kind, limit, saw15>>
  PROVE  IInv'
<1>1. /\ limit \in Nat /\ Sound(Tables) /\ Tables.permits <= limit + 1
      /\ Tables.spool = spool /\ heard[x] \in SUBSET {"ov", "at", "crossed"}
  BY StateFacts
<1>2. Fits(Tables, x, heard[x])
  BY DEF IInv
<1>3. Fits(u, x, heard[x] \ {"ov"})
  BY <1>2, RequestFits DEF Authorised
<1>4. heard' = [heard EXCEPT ![x] = heard[x] \ {"ov"}]
  BY DEF Settled
<1>5. ~saw15 => Slots(Tables) = limit
  BY StateFacts, SlotsType DEF IInv
<1>6. CASE x \in DOMAIN spool
  <2>1. Slots(u) = Slots(Tables)
    <3>1. DOMAIN u.spool = DOMAIN Tables.spool /\ u.permits = Tables.permits
      BY <1>1, <1>6 DEF Authorised
    <3> QED BY <3>1 DEF Slots
  <2>2. taking' = FALSE
    BY <1>6
  <2>3. ~saw15' => Slots(u) = limit + (IF taking' THEN 1 ELSE 0)
    BY <1>1, <1>5, <2>1, <2>2
  <2>4. taking' \in BOOLEAN /\ saw15' \in BOOLEAN
    BY <2>2 DEF IInv
  <2> QED BY <1>1, <1>3, <1>4, <2>3, <2>4, Becomes DEF Authorised
<1>7. CASE x \notin DOMAIN spool
  <2>1. Slots(u) = Slots(Tables) + 1
    BY <1>1, <1>7, SlotAdded DEF Authorised
  <2>2. taking' = TRUE
    BY <1>7
  <2>3. ~saw15' => Slots(u) = limit + (IF taking' THEN 1 ELSE 0)
    BY <1>1, <1>5, <2>1, <2>2
  <2>4. taking' \in BOOLEAN /\ saw15' \in BOOLEAN
    BY <2>2 DEF IInv
  <2> QED BY <1>1, <1>3, <1>4, <2>3, <2>4, Becomes DEF Authorised
<1> QED BY <1>6, <1>7

LEMMA OnlyLocksOthers ==
  ASSUME NEW t, NEW u, NEW x, OnlyLocks(t, u, x)
  PROVE  Others(t, u, x) /\ EntryOf(u, x) = EntryOf(t, x)
BY DEF OnlyLocks, Others, EntryOf, Known

\* A lock of card c for call x, and entry e.
LEMMA LockAndPut ==
  ASSUME NEW t, Sound(t), NEW x \in Calls, NEW c \in Cards,
         NEW t1, t1 = EraseStalledCardLocks(t, x), HasLine(t1, c),
         NEW e \in Entry, NEW u, u = Put(Lock(t1, x, c), x, e)
  PROVE  /\ Sound(u) /\ Others(t, u, x)
         /\ DOMAIN u.spool = DOMAIN t.spool \cup {x} /\ u.spool[x] = e
         /\ u.permits = t.permits /\ u.dangling = t.dangling
<1>1. Sound(t1) /\ OnlyLocks(t, t1, x)
  BY EraseStalledKeeps
<1>2. PICK w : w = Lock(t1, x, c)
  OBVIOUS
<1>3. /\ Sound(w) /\ w.spool = t1.spool /\ w.permits = t1.permits
      /\ w.dangling = t1.dangling /\ DOMAIN w.cardOf = DOMAIN t1.cardOf \cup {x}
  <2>1. x \notin DOMAIN t1.cardOf
    BY <1>1 DEF OnlyLocks
  <2> QED BY <1>1, <1>2, <2>1, LockKeeps
<1>4. Others(t, w, x) /\ w.spool = t.spool /\ w.permits = t.permits
      /\ w.dangling = t.dangling
  BY <1>1, <1>3 DEF OnlyLocks, Others
<1>5. Puts(w, u, x, e) /\ u.dangling = w.dangling
  BY <1>2, <1>3, PutKeeps
<1>6. Others(t, u, x)
  BY <1>4, <1>5, OthersTwice DEF Puts
<1> QED BY <1>4, <1>5, <1>6 DEF Puts

LEMMA GetCreditTimeKeeps ==
  ASSUME IInv, NEW x \in Calls, NEW c \in Cards, GetCreditTime(x, c)
  PROVE  IInv'
<1>1. Sound(Tables) /\ Tables.spool = spool /\ Tables \in TableType
  BY StateFacts
<1>2. PICK t : t = EraseStalledCardLocks(Tables, x)
  OBVIOUS
<1>3. PICK e : e = Start(EntryOf(t, x), x)
  OBVIOUS
<1>4. PICK u : u = Put(Lock(t, x, c), x, e)
  OBVIOUS
<1>5. EntryOf(t, x) = EntryOf(Tables, x) /\ EntryOf(Tables, x) \in Entry
  BY <1>1, <1>2, EraseStalledKeeps, OnlyLocksOthers, EntryOfType
<1>6. /\ e \in Entry /\ e.isOV = EntryOf(Tables, x).isOV
      /\ e.telephonyEnded = EntryOf(Tables, x).telephonyEnded
  BY <1>3, <1>5, StartKeeps
<1>7. /\ ~taking /\ "at" \notin heard[x] /\ HasLine(t, c) /\ Become(u)
      /\ taking' = (x \notin DOMAIN spool) /\ Settled(x)
      /\ UNCHANGED <<kind, limit, saw15>>
  BY <1>2, <1>3, <1>4 DEF GetCreditTime, Asks
<1>8. Authorised(Tables, u, x)
  BY <1>1, <1>2, <1>4, <1>6, <1>7, LockAndPut DEF Authorised
<1> QED BY <1>7, <1>8, RequestKeeps

LEMMA CardAlreadyLockedKeeps ==
  ASSUME IInv, NEW x \in Calls, NEW c \in Cards, CardAlreadyLocked(x, c)
  PROVE  IInv'
<1>1. Sound(Tables) /\ heard[x] \in SUBSET {"ov", "at", "crossed"}
  BY StateFacts
<1>2. PICK u : u = EraseStalledCardLocks(Tables, x)
  OBVIOUS
<1>3. Sound(u) /\ OnlyLocks(Tables, u, x)
  BY <1>1, <1>2, EraseStalledKeeps
<1>4. Others(Tables, u, x)
  BY <1>3, OnlyLocksOthers
<1>5. SlotsKept(Tables, u)
  BY <1>3, SlotsSame DEF OnlyLocks
<1>6. Fits(Tables, x, heard[x])
  BY DEF IInv
<1>7. Fits(u, x, heard[x])
  BY <1>3, <1>6 DEF OnlyLocks, Fits, EntryFits, LockFits, EatersFit
<1>8. Become(u) /\ heard' = heard /\ UNCHANGED <<kind, limit, taking, saw15>>
  BY <1>2 DEF CardAlreadyLocked
<1>9. heard' = [heard EXCEPT ![x] = heard[x]]
  BY <1>8 DEF IInv
<1> QED BY <1>1, <1>3, <1>4, <1>5, <1>7, <1>8, <1>9, BecomesKept

LEMMA SmsCallback2Keeps ==
  ASSUME IInv, NEW x \in Calls, NEW c \in Cards, SmsCallback2(x, c)
  PROVE  IInv'
<1>1. Sound(Tables) /\ Tables.spool = spool /\ Tables \in TableType
  BY StateFacts
<1>2. PICK t : t = EraseStalledCardLocks(Tables, x)
  OBVIOUS
<1>3. PICK e : e = EntryOf(t, x)
  OBVIOUS
<1>4. PICK w : w = Put(Lock(t, x, c), x, e)
  OBVIOUS
<1>5. PICK u : u = AddCbEaters(w, x, c)
  OBVIOUS
<1>6. e = EntryOf(Tables, x) /\ e \in Entry
  BY <1>1, <1>2, <1>3, EraseStalledKeeps, OnlyLocksOthers, EntryOfType
<1>7. /\ ~taking /\ "at" \notin heard[x] /\ HasLine(t, c) /\ Become(u)
      /\ taking' = (x \notin DOMAIN spool) /\ Settled(x) /\ c \in CardsOf[x]
      /\ UNCHANGED <<kind, limit, saw15>>
  BY <1>2, <1>3, <1>4, <1>5 DEF SmsCallback2, Asks
<1>8. /\ Sound(w) /\ Others(Tables, w, x)
      /\ DOMAIN w.spool = DOMAIN Tables.spool \cup {x} /\ w.spool[x] = e
      /\ w.permits = Tables.permits /\ w.dangling = Tables.dangling
  BY <1>1, <1>2, <1>4, <1>6, <1>7, LockAndPut
<1>9. GetsEaters(w, u, x, c)
  BY <1>5, <1>8, AddCbEatersKeeps
<1>10. Others(Tables, u, x)
  BY <1>8, <1>9, OthersTwice DEF GetsEaters
<1>11. Authorised(Tables, u, x)
  BY <1>6, <1>7, <1>8, <1>9, <1>10 DEF Authorised, GetsEaters
<1> QED BY <1>7, <1>11, RequestKeeps

LEMMA SmsCallback3Keeps ==
  ASSUME IInv, NEW x \in Calls, NEW c \in Cards, SmsCallback3(x, c)
  PROVE  IInv'
<1>1. Sound(Tables) /\ Tables \in TableType
  BY StateFacts
<1>2. PICK e : e = EntryOf(Tables, x)
  OBVIOUS
<1>3. e \in Entry
  BY <1>1, <1>2, EntryOfType
<1>4. PICK u : u = Put(Tables, x, e)
  OBVIOUS
<1>5. Puts(Tables, u, x, e) /\ u.dangling = Tables.dangling
  BY <1>1, <1>3, <1>4, PutKeeps
<1>6. Authorised(Tables, u, x)
  BY <1>2, <1>5 DEF Authorised, Puts
<1>7. /\ ~taking /\ "at" \notin heard[x] /\ Become(u)
      /\ taking' = (x \notin DOMAIN spool) /\ Settled(x)
      /\ UNCHANGED <<kind, limit, saw15>>
  BY <1>2, <1>4 DEF SmsCallback3, Asks
<1> QED BY <1>6, <1>7, RequestKeeps

\* The entry that a call-back 1.5 finds: none, or one whose talk is not over.
LEMMA CheckPin15Keeps ==
  ASSUME IInv, NEW x \in Calls, NEW c \in Cards, CheckPin15(x, c)
  PROVE  IInv'
<1>1. /\ Sound(Tables) /\ Tables.spool = spool /\ Tables \in TableType /\ limit \in Nat
      /\ Tables.permits <= limit + 1
      /\ kind \in [Calls -> {"phone", "framed", "sms"}]
      /\ heard[x] \in SUBSET {"ov", "at", "crossed"}
  BY StateFacts
<1>2. PICK t : t = IF x \in DOMAIN spool /\ spool[x].ovSaved
                   THEN EraseRadiusLock(Tables, x, NoCard) ELSE Tables
  OBVIOUS
<1>3. PICK e : e = Start(EntryOf(t, x), x)
  OBVIOUS
<1>4. PICK w : w = Put(t, x, e)
  OBVIOUS
<1>5. PICK u : u = AddCbEaters(w, x, c)
  OBVIOUS
<1>6. PICK r : r = (heard[x] \ {"ov"}) \cup
                   IF EntryOf(Tables, x).isOV THEN {"crossed"} ELSE {}
  OBVIOUS
<1>7. /\ "at" \notin heard[x] /\ Become(u) /\ c \in CardsOf[x] /\ kind[x] = "phone"
      /\ taking' = (x \in DOMAIN spool) /\ saw15' = TRUE
      /\ heard' = [heard EXCEPT ![x] = r] /\ UNCHANGED <<kind, limit>>
  BY <1>2, <1>3, <1>4, <1>5, <1>6 DEF CheckPin15, Asks
<1>8. t = Tables \/ Ended(Tables, t, x)
  BY <1>1, <1>2, EraseRadiusLockKeeps
<1>9. /\ Sound(t) /\ Others(Tables, t, x) /\ SlotsKept(Tables, t)
      /\ x \in t.dangling => x \in Tables.dangling
  <2>1. CASE t = Tables
    <3>1. Others(Tables, t, x)
      BY <2>1 DEF Others
    <3>2. SlotsKept(Tables, t)
      BY <2>1, SlotsSame
    <3> QED BY <1>1, <2>1, <3>1, <3>2
  <2>2. CASE Ended(Tables, t, x)
    <3>1. SlotsKept(Tables, t)
      BY <1>1, <2>2, SlotsEnded
    <3> QED BY <2>2, <3>1 DEF Ended
  <2> QED BY <1>8, <2>1, <2>2
<1>10. EntryOf(t, x) \in Entry /\ t.permits <= limit + 1
  BY <1>1, <1>9, EntryOfType DEF Sound, SlotsKept
<1>11. /\ e \in Entry /\ e.isOV = EntryOf(t, x).isOV
       /\ e.telephonyEnded = EntryOf(t, x).telephonyEnded
  BY <1>3, <1>10, StartKeeps
<1>12. Puts(t, w, x, e) /\ w.dangling = t.dangling
  BY <1>4, <1>9, <1>11, PutKeeps
<1>13. GetsEaters(w, u, x, c)
  BY <1>5, <1>12, AddCbEatersKeeps DEF Puts
<1>14. /\ Others(Tables, u, x) /\ Sound(u) /\ x \in DOMAIN u.spool
       /\ u.spool[x].isOV = EntryOf(t, x).isOV
       /\ u.spool[x].telephonyEnded = EntryOf(t, x).telephonyEnded
       /\ u.permits <= limit + 1
       /\ x \in u.dangling => x \in Tables.dangling \/ "card" \in Balances[c]
  <2>1. Others(Tables, w, x)
    BY <1>9, <1>12, OthersTwice DEF Puts
  <2>2. Others(Tables, u, x)
    BY <1>13, <2>1, OthersTwice DEF GetsEaters
  <2> QED BY <1>9, <1>10, <1>11, <1>12, <1>13, <2>2 DEF GetsEaters, Puts
<1>15. Fits(Tables, x, heard[x])
  BY DEF IInv
<1>16. "crossed" \in r \/ ~u.spool[x].telephonyEnded
  <2> SUFFICES ASSUME "crossed" \notin r PROVE ~u.spool[x].telephonyEnded
    OBVIOUS
  <2>1. ~EntryOf(Tables, x).isOV /\ "crossed" \notin heard[x]
    BY <1>6
  <2>2. x \in DOMAIN Tables.spool => ~Tables.spool[x].telephonyEnded /\ ~Tables.spool[x].isOV
    BY <1>7, <1>15, <2>1 DEF Fits, EntryFits, EntryOf, Known
  <2>3. CASE t = Tables
    BY <1>14, <2>2, <2>3 DEF EntryOf, Known, NewEntry
  <2>4. CASE Ended(Tables, t, x)
    <3>1. x \notin DOMAIN t.spool
      BY <2>2, <2>4 DEF Ended
    <3> QED BY <1>14, <3>1 DEF EntryOf, Known, NewEntry
  <2> QED BY <1>8, <2>3, <2>4
<1>17. Fits(u, x, r)
  <2>1. "at" \notin r /\ "ov" \notin r /\ ("crossed" \in heard[x] => "crossed" \in r)
    BY <1>6, <1>7
  <2>2. EntryFits(u, x, r)
    BY <1>7, <1>16, <2>1 DEF EntryFits
  <2>3. LockFits(u, x, r) /\ EatersFit(u, x, r)
    BY <1>7, <1>14, <1>15, <2>1 DEF Fits, LockFits, EatersFit
  <2> QED BY <2>2, <2>3 DEF Fits
<1>18. r \in SUBSET {"ov", "at", "crossed"}
  BY <1>1, <1>6
<1>19. taking' \in BOOLEAN /\ saw15' \in BOOLEAN
  <2>1. CASE x \in DOMAIN spool
    BY <1>7, <2>1
  <2>2. CASE x \notin DOMAIN spool
    BY <1>7, <2>2
  <2> QED BY <2>1, <2>2
<1> QED BY <1>7, <1>14, <1>17, <1>18, <1>19, Becomes

LEMMA TakeRadiusCallKeeps ==
  ASSUME IInv, TakeRadiusCall
  PROVE  IInv'
<1>1. Sound(Tables) /\ Tables \in TableType /\ Tables.permits <= limit + 1 /\ limit \in Nat
  BY StateFacts
<1>2. /\ taking /\ taking' = FALSE /\ permits > 0 /\ permits' = permits - 1
      /\ UNCHANGED <<kind, limit, spool, confs, cardOf, locks, dangling, stray, heard,
                     saw15>>
  BY DEF TakeRadiusCall
<1>3. permits = Tables.permits /\ permits \in Nat /\ permits - 1 \in Nat
  BY <1>1, <1>2, TableFields, StateFacts
<1>4. PICK u : u = [Tables EXCEPT !.permits = permits - 1]
  OBVIOUS
<1>5. /\ u \in TableType /\ u.spool = Tables.spool /\ u.confs = Tables.confs
      /\ u.cardOf = Tables.cardOf /\ u.locks = Tables.locks /\ u.stray = Tables.stray
      /\ u.dangling = Tables.dangling /\ u.permits = permits - 1
  BY <1>1, <1>3, <1>4 DEF TableType
<1>6. Tables' = u
  BY <1>2, <1>4 DEF Tables
<1>7. Sound(u)
  BY <1>1, <1>5, LocksUntouched DEF SameLocks
<1>8. Sound(Tables)'
  BY <1>6, <1>7
<1>9. (\A y \in Calls : Fits(Tables, y, heard[y]))'
  BY <1>2, <1>5, <1>6 DEF IInv, Fits, EntryFits, LockFits, EatersFit
<1>10. (~saw15 => Slots(Tables) = limit + (IF taking THEN 1 ELSE 0))'
  <2>1. Cardinality(DOMAIN Tables.spool) \in Nat
    BY <1>1, SlotsType
  <2>2. ~saw15 => Slots(Tables) = limit + 1
    BY <1>2 DEF IInv
  <2>3. Slots(u) = Slots(Tables) - 1
    BY <1>3, <1>5, <2>1 DEF Slots
  <2>4. ~saw15 => Slots(u) = limit
    BY <1>1, <2>2, <2>3
  <2>5. (Slots(Tables))' = Slots(u)
    BY <1>6 DEF Slots
  <2> QED BY <1>1, <1>2, <2>4, <2>5
<1>11. permits' <= limit + 1
  BY <1>1, <1>2, <1>3
<1>12. heard' \in [Calls -> SUBSET {"ov", "at", "crossed"}] /\ limit' = limit
  BY <1>2 DEF IInv
<1> QED BY <1>2, <1>8, <1>9, <1>10, <1>11, <1>12 DEF IInv

-----------------------------------------------------------------------------
(* The records.                                                            *)

\* The table with a new entry for a call it has.
LEMMA PutIs ==
  ASSUME NEW t \in TableType, NEW x \in DOMAIN t.spool, NEW e
  PROVE  [t EXCEPT !.spool = [t.spool EXCEPT ![x] = e]] = Put(t, x, e)
<1>1. t.spool = [y \in DOMAIN t.spool |-> t.spool[y]]
  BY TableFields, PartialType
<1>2. PICK f : f = [t.spool EXCEPT ![x] = e]
  OBVIOUS
<1>3. PICK g : g = With(t.spool, x, e)
  OBVIOUS
<1>4. f = g
  BY <1>1, <1>2, <1>3 DEF With
<1> QED BY <1>2, <1>3, <1>4 DEF Put

\* A record that changes the entry of x and nothing else.
LEMMA RecordKeeps ==
  ASSUME IInv, NEW x \in DOMAIN spool, NEW e \in Entry,
         spool' = [spool EXCEPT ![x] = e],
         UNCHANGED <<kind, limit, confs, cardOf, locks, permits, dangling, stray,
                     taking, saw15>>,
         NEW h \in SUBSET {"ov", "at", "crossed"}, heard' = [heard EXCEPT ![x] = h],
         \A u : Puts(Tables, u, x, e) /\ u.dangling = Tables.dangling => Fits(u, x, h)
  PROVE  IInv'
<1>1. Sound(Tables) /\ Tables \in TableType /\ Tables.spool = spool
  BY StateFacts
<1>2. x \in Calls
  BY <1>1, TableFields
<1>3. PICK u : u = Put(Tables, x, e)
  OBVIOUS
<1>4. Puts(Tables, u, x, e) /\ u.dangling = Tables.dangling
  BY <1>1, <1>2, <1>3, PutKeeps
<1>5. Fits(u, x, h)
  BY <1>4
<1>6. u = [Tables EXCEPT !.spool = spool']
  BY <1>1, <1>3, PutIs
<1>7. Become(u)
  BY <1>6 DEF Tables, Become
<1>8. SlotsKept(Tables, u)
  <2>1. DOMAIN u.spool = DOMAIN Tables.spool /\ u.permits = Tables.permits
    BY <1>1, <1>4 DEF Puts
  <2> QED BY <2>1, SlotsSame
<1>9. Others(Tables, u, x) /\ Sound(u)
  BY <1>4 DEF Puts
<1> QED BY <1>2, <1>5, <1>7, <1>8, <1>9, BecomesKept

LEMMA OVRecordKeeps ==
  ASSUME IInv, NEW x \in Calls, NEW start \in BOOLEAN, OVRecord(x, start)
  PROVE  IInv'
<1>1. /\ Sound(Tables) /\ Tables \in TableType /\ Tables.spool = spool
      /\ Tables.dangling = dangling /\ Tables.cardOf = cardOf
      /\ heard[x] \in SUBSET {"ov", "at", "crossed"}
  BY StateFacts
<1>2. x \in DOMAIN spool /\ spool[x] \in Entry /\ kind[x] = "phone"
  BY <1>1, TableFields DEF OVRecord
<1>3. PICK b : b = (spool[x].startCame \/ start)
  BY Zenon
<1>4. b \in BOOLEAN
  BY <1>3, Zenon
<1>5. PICK e : e = [spool[x] EXCEPT !.isOV = TRUE, !.startCame = b]
  OBVIOUS
<1>6. /\ e \in Entry /\ e.isOV /\ e.telephonyEnded = spool[x].telephonyEnded
      /\ e.cb = spool[x].cb /\ e.cbDealer = spool[x].cbDealer
  BY <1>2, <1>4, <1>5 DEF Entry
<1>7. spool' = [spool EXCEPT ![x] = e]
  <2>1. spool' = [spool EXCEPT ![x].isOV = TRUE, ![x].startCame = @ \/ start]
    BY DEF OVRecord
  <2>2. spool = [y \in DOMAIN spool |-> spool[y]]
    BY <1>1, TableFields, PartialType
  <2> QED BY <1>2, <1>3, <1>5, <2>1, <2>2 DEF Entry
<1>8. PICK h : h = heard[x] \cup (IF "ov" \in heard[x] THEN {"crossed"} ELSE {})
  OBVIOUS
<1>9. h \in SUBSET {"ov", "at", "crossed"} /\ heard' = [heard EXCEPT ![x] = h]
  BY <1>1, <1>8 DEF OVRecord, Hear
<1>10. ASSUME NEW u, Puts(Tables, u, x, e), u.dangling = Tables.dangling
       PROVE  Fits(u, x, h)
  <2>1. Fits(Tables, x, heard[x])
    BY DEF IInv
  <2> QED BY <1>1, <1>2, <1>6, <1>8, <1>10, <2>1
        DEF Puts, Fits, EntryFits, LockFits, EatersFit
<1>11. UNCHANGED <<kind, limit, confs, cardOf, locks, permits, dangling, stray,
                   taking, saw15>>
  BY DEF OVRecord
<1> QED BY <1>2, <1>6, <1>7, <1>9, <1>10, <1>11, RecordKeeps

LEMMA StartRecordKeeps ==
  ASSUME IInv, NEW x \in Calls, StartRecord(x)
  PROVE  IInv'
<1>1. /\ Sound(Tables) /\ Tables \in TableType /\ Tables.spool = spool
      /\ heard[x] \in SUBSET {"ov", "at", "crossed"}
  BY StateFacts
<1>2. x \in DOMAIN spool /\ spool[x] \in Entry
  BY <1>1, TableFields DEF StartRecord
<1>3. PICK e : e = [spool[x] EXCEPT !.startCame = TRUE]
  OBVIOUS
<1>4. /\ e \in Entry /\ e.isOV = spool[x].isOV
      /\ e.telephonyEnded = spool[x].telephonyEnded
      /\ e.cb = spool[x].cb /\ e.cbDealer = spool[x].cbDealer
  BY <1>2, <1>3 DEF Entry
<1>5. /\ spool' = [spool EXCEPT ![x] = e] /\ heard' = heard
      /\ UNCHANGED <<kind, limit, confs, cardOf, locks, permits, dangling, stray,
                     taking, saw15>>
  BY <1>3 DEF StartRecord
<1>6. heard' = [heard EXCEPT ![x] = heard[x]]
  BY <1>5 DEF IInv
<1>7. ASSUME NEW u, Puts(Tables, u, x, e), u.dangling = Tables.dangling
      PROVE  Fits(u, x, heard[x])
  <2>1. Fits(Tables, x, heard[x])
    BY DEF IInv
  <2> QED BY <1>1, <1>2, <1>4, <1>7, <2>1 DEF Puts, Fits, EntryFits, LockFits, EatersFit
<1> QED BY <1>1, <1>2, <1>4, <1>5, <1>6, <1>7, RecordKeeps

\* A stop record that adds records to what was heard of the call.
LEMMA HearIs ==
  ASSUME IInv, NEW x \in Calls, NEW records \in SUBSET {"ov", "at", "crossed"},
         Hear(x, records)
  PROVE  /\ heard[x] \cup records \in SUBSET {"ov", "at", "crossed"}
         /\ heard' = [heard EXCEPT ![x] = heard[x] \cup records]
BY StateFacts DEF Hear

\* A record of a call that the table does not have.
LEMMA UnknownKeeps ==
  ASSUME IInv, NEW x \in Calls \ DOMAIN spool, Become(Tables),
         NEW records \in SUBSET {"ov", "at", "crossed"}, Hear(x, records),
         UNCHANGED <<kind, limit, taking, saw15>>
  PROVE  IInv'
<1>1. Sound(Tables) /\ Tables.spool = spool
  BY StateFacts
<1>2. PICK r : r = heard[x] \cup records
  OBVIOUS
<1>3. r \in SUBSET {"ov", "at", "crossed"} /\ heard' = [heard EXCEPT ![x] = r]
  BY <1>2, HearIs
<1>4. Fits(Tables, x, heard[x])
  BY DEF IInv
<1>5. Fits(Tables, x, r)
  BY <1>1, <1>2, <1>4 DEF Fits, EntryFits, LockFits, EatersFit
<1>6. Others(Tables, Tables, x)
  BY DEF Others
<1>7. SlotsKept(Tables, Tables)
  BY SlotsSame
<1> QED BY <1>1, <1>3, <1>5, <1>6, <1>7, BecomesKept

\* The end of the telephone leg alone.
LEMMA LegEndKeeps ==
  ASSUME IInv, NEW x \in Calls, NEW name \in Cards,
         Become(EraseRadiusLock(Tables, x, name)), Hear(x, {"at"}),
         UNCHANGED <<kind, limit, taking, saw15>>
  PROVE  IInv'
<1>1. Sound(Tables) /\ limit \in Nat
  BY StateFacts
<1>2. PICK u : u = EraseRadiusLock(Tables, x, name)
  OBVIOUS
<1>3. Become(u)
  BY <1>2
<1>4. Ended(Tables, u, x)
  BY <1>1, <1>2, EraseRadiusLockKeeps
<1>5. PICK r : r = heard[x] \cup {"at"}
  OBVIOUS
<1>6. r \in SUBSET {"ov", "at", "crossed"} /\ heard' = [heard EXCEPT ![x] = r]
  BY <1>5, HearIs
<1>7. Fits(u, x, r)
  <2>1. Fits(Tables, x, heard[x])
    BY DEF IInv
  <2>2. heard[x] \subseteq r /\ "at" \in r /\ ("ov" \in r => "ov" \in heard[x])
    BY <1>5
  <2> QED BY <1>4, <2>1, <2>2, EndedFits
<1>8. SlotsKept(Tables, u)
  BY <1>1, <1>4, SlotsEnded
<1>9. Sound(u) /\ Others(Tables, u, x)
  BY <1>4 DEF Ended
<1> QED BY <1>3, <1>6, <1>7, <1>8, <1>9, BecomesKept

LEMMA ATStopKeeps ==
  ASSUME IInv, NEW x \in Calls, NEW name \in Cards, ATStop(x, name)
  PROVE  IInv'
<1>1. Hear(x, {"at"}) /\ UNCHANGED <<kind, limit, taking, saw15>>
  BY DEF ATStop
<1>2. CASE x \in DOMAIN spool
  <2>1. Become(EraseRadiusLock(Tables, x, name))
    BY <1>2 DEF ATStop
  <2> QED BY <1>1, <2>1, LegEndKeeps
<1>3. CASE x \notin DOMAIN spool
  <2>1. Become(Tables)
    BY <1>3 DEF ATStop
  <2> QED BY <1>1, <1>3, <2>1, UnknownKeeps
<1> QED BY <1>2, <1>3

LEMMA SmsStop1Keeps ==
  ASSUME IInv, NEW x \in Calls, NEW name \in Cards, SmsStop1(x, name)
  PROVE  IInv'
BY LegEndKeeps DEF SmsStop1

LEMMA OVStopKeeps ==
  ASSUME IInv, NEW x \in Calls, NEW secs \in {0, 1}, OVStop(x, secs)
  PROVE  IInv'
<1>1. /\ Sound(Tables) /\ Tables \in TableType /\ Tables.spool = spool /\ limit \in Nat
      /\ Tables.dangling = dangling /\ Tables.cardOf = cardOf
  BY StateFacts
<1>2. Hear(x, {"ov"}) /\ UNCHANGED <<kind, limit, taking, saw15>>
  BY DEF OVStop
<1>3. CASE x \notin DOMAIN spool
  <2>1. Become(Tables)
    BY <1>3 DEF OVStop
  <2> QED BY <1>2, <1>3, <2>1, UnknownKeeps
<1>4. CASE x \in DOMAIN spool
  <2>1. PICK e : e = [spool[x] EXCEPT !.isOV = FALSE]
    OBVIOUS
  <2>2. /\ e \in Entry /\ ~e.isOV /\ e.telephonyEnded = spool[x].telephonyEnded
        /\ e.cb = spool[x].cb /\ e.cbDealer = spool[x].cbDealer
    BY <1>1, <1>4, <2>1, TableFields DEF Entry
  <2>3. PICK t : t = Put(Tables, x, e)
    OBVIOUS
  <2>4. PICK u : u = ClearRadiusSpool(t, x, secs)
    OBVIOUS
  <2>5. Become(u)
    <3>1. Become(ClearRadiusSpool([Tables EXCEPT !.spool[x].isOV = FALSE], x, secs))
      BY <1>4 DEF OVStop
    <3>2. [Tables EXCEPT !.spool[x].isOV = FALSE]
            = [Tables EXCEPT !.spool = [Tables.spool EXCEPT ![x] = e]]
      BY <1>1, <2>1
    <3>3. t = [Tables EXCEPT !.spool = [Tables.spool EXCEPT ![x] = e]]
      BY <1>1, <1>4, <2>3, PutIs
    <3> QED BY <2>4, <3>1, <3>2, <3>3
  <2>6. Puts(Tables, t, x, e) /\ t.dangling = Tables.dangling
    BY <1>1, <2>2, <2>3, PutKeeps
  <2>7. OtherEnded(t, u, x)
    BY <1>1, <2>4, <2>6, ClearRadiusSpoolKeeps DEF Puts
  <2>8. Sound(u) /\ Others(Tables, u, x)
    BY <2>6, <2>7, OthersTwice DEF Puts, OtherEnded
  <2>9. SlotsKept(Tables, u)
    <3>1. DOMAIN t.spool = DOMAIN Tables.spool /\ t.permits = Tables.permits /\ Sound(t)
      BY <1>1, <1>4, <2>6 DEF Puts
    <3>2. SlotsKept(t, u)
      BY <1>1, <2>7, <3>1, SlotsOtherEnded
    <3> QED BY <3>1, <3>2 DEF SlotsKept, Slots
  <2>10. PICK r : r = heard[x] \cup {"ov"}
    OBVIOUS
  <2>11. r \in SUBSET {"ov", "at", "crossed"} /\ heard' = [heard EXCEPT ![x] = r]
    BY <1>2, <2>10, HearIs
  <2>12. Fits(u, x, r)
    <3>1. Fits(Tables, x, heard[x])
      BY DEF IInv
    <3>2. LockFits(t, x, heard[x]) /\ EatersFit(t, x, heard[x])
      BY <1>1, <1>4, <2>6, <3>1 DEF Puts, Fits, LockFits, EatersFit
    <3>3. /\ ~t.spool[x].isOV
          /\ "at" \in heard[x] => t.spool[x].telephonyEnded
          /\ "crossed" \in heard[x] \/
             (t.spool[x].telephonyEnded => /\ x \notin DOMAIN t.cardOf
                                            /\ ~t.spool[x].cb /\ ~t.spool[x].cbDealer)
      BY <1>1, <1>4, <2>2, <2>6, <3>1 DEF Puts, Fits, EntryFits
    <3> QED BY <2>7, <2>10, <3>2, <3>3, OtherEndedFits
  <2> QED BY <1>2, <2>5, <2>8, <2>9, <2>11, <2>12, BecomesKept
<1> QED BY <1>3, <1>4

LEMMA SmsStop2Keeps ==
  ASSUME IInv, NEW x \in Calls, NEW secs \in {0, 1}, SmsStop2(x, secs)
  PROVE  IInv'
<1>1. Sound(Tables) /\ limit \in Nat
  BY StateFacts
<1>2. /\ Hear(x, {"ov"}) /\ kind[x] = "sms" /\ Become(ClearRadiusSpool(Tables, x, secs))
      /\ UNCHANGED <<kind, limit, taking, saw15>>
  BY DEF SmsStop2
<1>3. PICK u : u = ClearRadiusSpool(Tables, x, secs)
  OBVIOUS
<1>4. OtherEnded(Tables, u, x)
  BY <1>1, <1>3, ClearRadiusSpoolKeeps
<1>5. SlotsKept(Tables, u)
  BY <1>1, <1>4, SlotsOtherEnded
<1>6. PICK r : r = heard[x] \cup {"ov"}
  OBVIOUS
<1>7. r \in SUBSET {"ov", "at", "crossed"} /\ heard' = [heard EXCEPT ![x] = r]
  BY <1>2, <1>6, HearIs
<1>8. Fits(u, x, r)
  <2>1. Fits(Tables, x, heard[x])
    BY DEF IInv
  <2>2. LockFits(Tables, x, heard[x]) /\ EatersFit(Tables, x, heard[x])
    BY <2>1 DEF Fits
  <2>3. x \in DOMAIN Tables.spool =>
          /\ ~Tables.spool[x].isOV
          /\ "at" \in heard[x] => Tables.spool[x].telephonyEnded
          /\ "crossed" \in heard[x] \/
             (Tables.spool[x].telephonyEnded =>
                /\ x \notin DOMAIN Tables.cardOf
                /\ ~Tables.spool[x].cb /\ ~Tables.spool[x].cbDealer)
    BY <1>2, <2>1 DEF Fits, EntryFits
  <2> QED BY <1>4, <1>6, <2>2, <2>3, OtherEndedFits
<1>9. Sound(u) /\ Others(Tables, u, x) /\ Become(u)
  BY <1>2, <1>3, <1>4 DEF OtherEnded
<1> QED BY <1>2, <1>5, <1>7, <1>8, <1>9, BecomesKept

LEMMA FramedStopKeeps ==
  ASSUME IInv, NEW x \in Calls, NEW name \in Cards, NEW secs \in {0, 1},
         FramedStop(x, name, secs)
  PROVE  IInv'
<1>1. Sound(Tables) /\ limit \in Nat
  BY StateFacts
<1>2. /\ Hear(x, {"at", "ov"}) /\ kind[x] = "framed"
      /\ Become(EraseRadiusLock(ClearRadiusSpool(Tables, x, secs), x, name))
      /\ UNCHANGED <<kind, limit, taking, saw15>>
  BY DEF FramedStop
<1>3. PICK t : t = ClearRadiusSpool(Tables, x, secs)
  OBVIOUS
<1>4. PICK u : u = EraseRadiusLock(t, x, name)
  OBVIOUS
<1>5. OtherEnded(Tables, t, x) /\ Sound(t)
  BY <1>1, <1>3, ClearRadiusSpoolKeeps DEF OtherEnded
<1>6. Ended(t, u, x)
  BY <1>1, <1>4, <1>5, EraseRadiusLockKeeps
<1>7. SlotsKept(Tables, u)
  BY <1>1, <1>5, <1>6, SlotsEnded, SlotsOtherEnded DEF SlotsKept
<1>8. Sound(u) /\ Others(Tables, u, x)
  BY <1>5, <1>6, OthersTwice DEF Ended, OtherEnded
<1>9. PICK r : r = heard[x] \cup {"at", "ov"}
  OBVIOUS
<1>10. r \in SUBSET {"ov", "at", "crossed"} /\ heard' = [heard EXCEPT ![x] = r]
  BY <1>2, <1>9, HearIs
<1>11. Fits(u, x, r)
  <2>1. Fits(Tables, x, heard[x])
    BY DEF IInv
  <2>2. x \in DOMAIN Tables.spool => ~Tables.spool[x].isOV
    BY <1>2, <2>1 DEF Fits, EntryFits
  <2>3. x \in DOMAIN t.spool => ~t.spool[x].isOV
    BY <1>5, <2>2 DEF OtherEnded
  <2>4. x \notin DOMAIN u.spool /\ x \notin DOMAIN u.cardOf
    BY <1>6, <2>3 DEF Ended
  <2>5. x \in u.dangling => x \in t.dangling
    BY <1>6 DEF Ended
  <2>6. x \in t.dangling => \/ x \in Tables.dangling
                            \/ "crossed" \in heard[x]
    BY <1>5, <2>1 DEF OtherEnded, Fits, EntryFits
  <2> QED BY <1>9, <2>1, <2>4, <2>5, <2>6 DEF Fits, EntryFits, LockFits, EatersFit
<1>12. Become(u)
  BY <1>2, <1>3, <1>4
<1> QED BY <1>2, <1>7, <1>8, <1>10, <1>11, <1>12, BecomesKept

-----------------------------------------------------------------------------
(* The gateways' restart, the sweep and the whole.                         *)

LEMMA NoEntries == \A S, T : <<>> \in Partial(S, T) /\ DOMAIN <<>> = {}
<1>1. DOMAIN <<>> = {} /\ <<>> = [y \in DOMAIN <<>> |-> <<>>[y]]
  OBVIOUS
<1> QED BY <1>1, PartialType

\* A table without locks.
NoLocks(t) ==
  t.confs = {} /\ t.cardOf = <<>> /\ t.locks = [c \in Cards |-> 0] /\ t.stray = {}

LEMMA NoLocksSound ==
  ASSUME NEW t \in TableType, NoLocks(t)
  PROVE  Sound(t) /\ DOMAIN t.cardOf = {}
<1>1. DOMAIN t.cardOf = {} /\ t.confs = {}
  BY NoEntries DEF NoLocks
<1>2. IsFiniteSet(t.confs)
  BY <1>1, FS_EmptySet
<1>3. Inverted(t)
  BY <1>1 DEF Inverted
<1>4. Counts(t)
  <2>1. \A c \in Cards : PairsOf(t, c) = {} /\ t.locks[c] = 0 /\ Lines[c] \in Nat
    BY <1>1, CardsAssumption DEF PairsOf, NoLocks
  <2>2. Cardinality({}) = 0
    BY FS_EmptySet
  <2> QED BY <2>1, <2>2 DEF Counts
<1> QED BY <1>1, <1>2, <1>3, <1>4 DEF Sound

LEMMA AccountingOnOffKeeps ==
  ASSUME IInv, AccountingOnOff
  PROVE  IInv'
<1>1. /\ Sound(Tables) /\ Tables \in TableType /\ Tables.permits <= limit + 1
      /\ Counts(Tables)
  BY StateFacts DEF Sound
<1>2. /\ cardOf' = <<>> /\ confs' = {} /\ stray' = {}
      /\ locks' = [c \in Cards |->
            LET n == Cardinality({p \in confs : p[1] = c})
            IN IF locks[c] > n THEN locks[c] - n ELSE 0]
      /\ UNCHANGED <<kind, limit, spool, permits, dangling, taking, heard, saw15>>
  BY DEF AccountingOnOff
<1>3. locks' = [c \in Cards |-> 0]
  <2>1. ASSUME NEW c \in Cards
        PROVE  ~(locks[c] > Cardinality({p \in confs : p[1] = c}))
    <3>1. /\ locks[c] \in Nat /\ Lines[c] \in Nat /\ locks[c] <= Lines[c]
          /\ Lines[c] > 0 => locks[c] <= Cardinality(PairsOf(Tables, c))
      BY <1>1, TableFields, CardsAssumption DEF Counts, Tables
    <3>2. PairsOf(Tables, c) = {p \in confs : p[1] = c}
      BY DEF PairsOf, Tables
    <3>3. Cardinality(PairsOf(Tables, c)) \in Nat
      BY <1>1, PairsCount DEF Sound
    <3> QED BY <3>1, <3>2, <3>3
  <2> QED BY <1>2, <2>1
<1>4. PICK u : u = [spool |-> spool, confs |-> {}, cardOf |-> <<>>,
                    locks |-> [c \in Cards |-> 0], permits |-> permits,
                    dangling |-> dangling, stray |-> {}]
  OBVIOUS
<1>5. Tables' = u
  BY <1>2, <1>3, <1>4 DEF Tables
<1>6. u \in TableType
  <2>1. /\ spool \in Partial(Calls, Entry) /\ permits \in Nat
        /\ dangling \in SUBSET Calls
    BY <1>1, TableFields DEF Tables
  <2>2. <<>> \in Partial(Calls, Cards)
    BY NoEntries
  <2> QED BY <1>4, <2>1, <2>2 DEF TableType
<1>7. Sound(u) /\ DOMAIN u.cardOf = {}
  BY <1>4, <1>6, NoLocksSound DEF NoLocks
<1>8. Sound(Tables)'
  BY <1>5, <1>7
<1>9. /\ u.spool = Tables.spool /\ u.dangling = Tables.dangling
      /\ u.permits = Tables.permits
  BY <1>4 DEF Tables
<1>10. (\A y \in Calls : Fits(Tables, y, heard[y]))'
  <2> SUFFICES ASSUME NEW y \in Calls PROVE Fits(Tables, y, heard[y])'
    OBVIOUS
  <2>1. Fits(Tables, y, heard[y])
    BY DEF IInv
  <2> QED BY <1>2, <1>5, <1>7, <1>9, <2>1 DEF Fits, EntryFits, LockFits, EatersFit
<1>11. (~saw15 => Slots(Tables) = limit + (IF taking THEN 1 ELSE 0))'
  BY <1>2, <1>5, <1>9 DEF IInv, Slots
<1>12. permits' <= limit' + 1
  BY <1>1, <1>2 DEF Tables
<1> QED BY <1>2, <1>8, <1>10, <1>11, <1>12 DEF IInv

LEMMA EraseStalledCardCallKeeps ==
  ASSUME IInv, NEW x \in Calls, EraseStalledCardCall(x)
  PROVE  IInv'
<1>1. /\ Sound(Tables) /\ Tables \in TableType /\ Tables.spool = spool /\ limit \in Nat
      /\ heard[x] \in SUBSET {"ov", "at", "crossed"}
  BY StateFacts
<1>2. x \in DOMAIN spool /\ spool[x] \in Entry
  BY <1>1, TableFields DEF EraseStalledCardCall
<1>3. PICK t : t = EraseStalledCardLocks(Tables, x)
  OBVIOUS
<1>4. PICK e : e = RemoveCbEaters(spool[x])
  OBVIOUS
<1>5. PICK w : w = Put(t, x, e)
  OBVIOUS
<1>6. PICK u : u = EraseRadiusSpool(w, x)
  OBVIOUS
<1>7. Become(u) /\ heard' = heard /\ UNCHANGED <<kind, limit, taking, saw15>>
  BY <1>3, <1>4, <1>5, <1>6 DEF EraseStalledCardCall
<1>8. Sound(t) /\ OnlyLocks(Tables, t, x) /\ Others(Tables, t, x)
  BY <1>1, <1>3, EraseStalledKeeps, OnlyLocksOthers
<1>9. e \in Entry /\ ~e.cb /\ ~e.cbDealer
  BY <1>2, <1>4 DEF RemoveCbEaters, Entry
<1>10. Puts(t, w, x, e) /\ w.dangling = t.dangling
  BY <1>5, <1>8, <1>9, PutKeeps
<1>11. /\ Sound(u) /\ Others(w, u, x)
       /\ DOMAIN u.spool = DOMAIN w.spool \ {x}
       /\ u.permits = Released(w.permits) /\ u.cardOf = w.cardOf
       /\ x \in u.dangling <=> x \in w.dangling \/ w.spool[x].cb \/ w.spool[x].cbDealer
  BY <1>1, <1>6, <1>10, EraseRadiusSpoolKeeps DEF Puts
<1>12. Others(Tables, u, x)
  BY <1>8, <1>10, <1>11, OthersTwice DEF Puts
<1>13. SlotsKept(Tables, u)
  <2>1. /\ DOMAIN u.spool = DOMAIN Tables.spool \ {x} /\ x \in DOMAIN Tables.spool
        /\ u.permits = Released(Tables.permits)
    BY <1>1, <1>2, <1>8, <1>10, <1>11 DEF OnlyLocks, Puts
  <2> QED BY <1>1, <2>1, SlotDropped DEF SlotsKept
<1>14. Fits(u, x, heard[x])
  <2>1. Fits(Tables, x, heard[x])
    BY DEF IInv
  <2>2. x \notin DOMAIN u.spool /\ x \notin DOMAIN u.cardOf
    BY <1>8, <1>10, <1>11 DEF OnlyLocks, Puts
  <2>3. x \in u.dangling => x \in Tables.dangling
    BY <1>8, <1>9, <1>10, <1>11 DEF OnlyLocks, Puts
  <2> QED BY <2>1, <2>2, <2>3 DEF Fits, EntryFits, LockFits, EatersFit
<1>15. heard' = [heard EXCEPT ![x] = heard[x]]
  BY <1>7 DEF IInv
<1> QED BY <1>1, <1>7, <1>11, <1>12, <1>13, <1>14, <1>15, BecomesKept

LEMMA IInvInit == Init => IInv
<1> SUFFICES ASSUME Init PROVE IInv
  OBVIOUS
<1>1. /\ kind \in Kinds /\ limit \in Limits /\ limit \in Nat
      /\ spool = <<>> /\ confs = {} /\ cardOf = <<>> /\ locks = [c \in Cards |-> 0]
      /\ permits = limit /\ dangling = {} /\ stray = {} /\ taking = FALSE
      /\ heard = [x \in Calls |-> {}] /\ saw15 = FALSE
  BY LimitsAssumption DEF Init
<1>2. Tables \in TableType
  <2>1. <<>> \in Partial(Calls, Entry) /\ <<>> \in Partial(Calls, Cards)
    BY NoEntries
  <2> QED BY <1>1, <2>1 DEF Tables, TableType
<1>3. Sound(Tables) /\ DOMAIN Tables.cardOf = {}
  BY <1>1, <1>2, NoLocksSound DEF NoLocks, Tables
<1>4. DOMAIN Tables.spool = {} /\ Tables.dangling = {} /\ Tables.permits = limit
  BY <1>1, NoEntries DEF Tables
<1>5. \A x \in Calls : Fits(Tables, x, heard[x])
  BY <1>3, <1>4 DEF Fits, EntryFits, LockFits, EatersFit
<1>6. Slots(Tables) = limit
  BY <1>1, <1>4, FS_EmptySet DEF Slots
<1>7. heard \in [Calls -> SUBSET {"ov", "at", "crossed"}]
  BY <1>1
<1>8. permits <= limit + 1
  BY <1>1
<1>9. Slots(Tables) = limit + (IF taking THEN 1 ELSE 0)
  BY <1>1, <1>6
<1>10. taking \in BOOLEAN /\ saw15 \in BOOLEAN
  BY <1>1
<1> QED BY <1>1, <1>3, <1>5, <1>7, <1>8, <1>9, <1>10 DEF IInv

LEMMA IInvUnchanged ==
  ASSUME IInv, UNCHANGED vars
  PROVE  IInv'
<1>1. Tables' = Tables
  BY DEF vars, Tables
<1>2. /\ UNCHANGED <<kind, limit, permits, taking, heard, saw15>>
  BY DEF vars
<1>3. Sound(Tables)'
  BY <1>1 DEF IInv
<1>4. (\A y \in Calls : Fits(Tables, y, heard[y]))'
  BY <1>1, <1>2 DEF IInv, Fits, EntryFits, LockFits, EatersFit
<1>5. (~saw15 => Slots(Tables) = limit + (IF taking THEN 1 ELSE 0))'
  BY <1>1, <1>2 DEF IInv, Slots
<1> QED BY <1>2, <1>3, <1>4, <1>5 DEF IInv

LEMMA IInvNext == IInv /\ [Next]_vars => IInv'
<1> SUFFICES ASSUME IInv, [Next]_vars PROVE IInv'
  OBVIOUS
<1>1. ASSUME NEW x \in Calls, NEW c \in Cards, Request(x, c)
      PROVE  IInv'
  BY <1>1, CheckPin15Keeps, GetCreditTimeKeeps, CardAlreadyLockedKeeps, SmsCallback2Keeps,
     SmsCallback3Keeps DEF Request
<1>2. ASSUME NEW x \in Calls, NEW c \in Cards, NEW secs \in {0, 1}, Stop(x, c, secs)
      PROVE  IInv'
  BY <1>2, OVStopKeeps, ATStopKeeps, FramedStopKeeps, SmsStop1Keeps, SmsStop2Keeps DEF Stop
<1>3. ASSUME NEW x \in Calls, NEW start \in BOOLEAN, OVRecord(x, start)
      PROVE  IInv'
  BY <1>3, OVRecordKeeps
<1>4. ASSUME NEW x \in Calls, StartRecord(x) \/ EraseStalledCardCall(x)
      PROVE  IInv'
  BY <1>4, StartRecordKeeps, EraseStalledCardCallKeeps
<1>5. CASE AccountingOnOff
  BY <1>5, AccountingOnOffKeeps
<1>6. CASE TakeRadiusCall
  BY <1>6, TakeRadiusCallKeeps
<1>7. CASE UNCHANGED vars
  BY <1>7, IInvUnchanged
<1> QED BY <1>1, <1>2, <1>3, <1>4, <1>5, <1>6, <1>7 DEF Next

LEMMA IInvAlways == Spec => []IInv
BY IInvInit, IInvNext, PTL DEF Spec

-----------------------------------------------------------------------------
(* The theorems.                                                           *)

\* Every variable keeps its type, no card is locked more often than it has lines,
\* and radiusCallsSem stays within its bounds.
THEOREM TypeCorrect == Spec => []TypeOK
<1>1. IInv => TypeOK
  <2> SUFFICES ASSUME IInv PROVE TypeOK
    OBVIOUS
  <2>1. /\ Tables \in TableType /\ Counts(Tables) /\ limit \in Nat
    BY StateFacts DEF Sound
  <2>2. /\ DOMAIN spool \subseteq Calls /\ \A x \in DOMAIN spool : spool[x] \in Entry
        /\ confs \subseteq Cards \X Calls
        /\ DOMAIN cardOf \subseteq Calls /\ \A x \in DOMAIN cardOf : cardOf[x] \in Cards
        /\ locks \in [Cards -> Nat] /\ permits \in Nat
        /\ dangling \subseteq Calls /\ stray \subseteq Cards
    BY <2>1, TableFields DEF Tables
  <2>3. \A c \in Cards : locks[c] \in 0 .. Lines[c]
    BY <2>1, <2>2, CardsAssumption DEF Counts, Tables
  <2>4. permits \in 0 .. limit + 1
    BY <2>1, <2>2 DEF IInv
  <2> QED BY <2>2, <2>3, <2>4 DEF IInv, TypeOK
<1> QED BY <1>1, IInvAlways, PTL

\* The two maps of locks are inverse, and a card with lines is locked once for
\* each of its calls (EraseStalledCardLocks, Lock, EraseRadiusLock), but for a card
\* that lost a lock to the stop record of a call without a pair.
THEOREM LocksAreOfCalls == Spec => []LocksMatchCalls
<1>1. IInv => LocksMatchCalls
  <2> SUFFICES ASSUME IInv PROVE LocksMatchCalls
    OBVIOUS
  <2>1. Inverted(Tables) /\ Counts(Tables)
    BY StateFacts DEF Sound
  <2>2. \A c \in Cards : PairsOf(Tables, c) = {p \in confs : p[1] = c}
    BY DEF PairsOf, Tables
  <2> QED BY <2>1, <2>2 DEF Inverted, Counts, LocksMatchCalls, Tables
<1> QED BY <1>1, IInvAlways, PTL

\* A locked card has its call in the table, whose end will unlock it, but for a
\* packet that crossed a stop record (handleAccounting drops stops of other calls).
THEOREM LockedCardsHaveCalls == Spec => []LocksHaveCalls
<1>1. IInv => LocksHaveCalls
  <2> SUFFICES ASSUME IInv, NEW x \in DOMAIN cardOf
               PROVE  x \in DOMAIN spool \/ "crossed" \in heard[x]
    BY DEF LocksHaveCalls
  <2>1. x \in Calls
    BY StateFacts, TableFields
  <2> QED BY <2>1 DEF IInv, Fits, LockFits, Tables
<1> QED BY <1>1, IInvAlways, PTL

\* A call both of whose legs have stopped is out of the table, in whatever order
\* and however often the stops came, unless a record of the IP leg came after its
\* stop; what is left then is marked as ended, so a further stop erases it.
THEOREM EndedCallsAreErased == Spec => []EndedCallsErased
<1>1. IInv => EndedCallsErased
  <2> SUFFICES ASSUME IInv, NEW x \in DOMAIN spool, {"ov", "at"} \subseteq heard[x]
               PROVE  /\ "crossed" \in heard[x]
                      /\ spool[x].isOV /\ spool[x].telephonyEnded
    BY DEF EndedCallsErased
  <2>1. x \in Calls /\ Tables.spool = spool
    BY StateFacts, TableFields
  <2>2. EntryFits(Tables, x, heard[x])
    BY <2>1 DEF IInv, Fits
  <2> QED BY <2>1, <2>2 DEF EntryFits
<1> QED BY <1>1, IInvAlways, PTL

\* No eater of a call-back is deleted while its money spool points to it, but in
\* the two cases EatersDetached names.
THEOREM EatersAreDetached == Spec => []EatersDetached
<1>1. IInv => EatersDetached
  <2> SUFFICES ASSUME IInv, NEW x \in dangling
               PROVE  "crossed" \in heard[x] \/ \E c \in CardsOf[x] : "card" \in Balances[c]
    BY DEF EatersDetached
  <2>1. x \in Calls
    BY StateFacts, TableFields
  <2> QED BY <2>1 DEF IInv, Fits, EatersFit, Tables
<1> QED BY <1>1, IInvAlways, PTL

\* No slot of radiusCallsSem is lost or gained, until a call-back 1.5.
THEOREM SlotsAreOfCalls == Spec => []SlotsMatchCalls
<1>1. IInv => SlotsMatchCalls
  BY DEF IInv, Slots, Tables, SlotsMatchCalls
<1> QED BY <1>1, IInvAlways, PTL

=============================================================================
