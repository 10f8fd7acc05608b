--------------------------- MODULE RecoveryProofs ---------------------------
(***************************************************************************)
(* Proofs about Recovery: for any calls, any number of starts and any      *)
(* length of the queue, a call is accounted once but for the program ends  *)
(* between its account and its delete, no call whose row was written is    *)
(* forgotten, and the time the program was down is not charged.            *)
(***************************************************************************)
EXTENDS Recovery, FiniteSetTheorems, SequenceTheorems, TLAPS

(***************************************************************************)
(* The inductive invariant.  The queue of a life is what the start put     *)
(* there for the rows it found (an account before each delete), the drop   *)
(* of the table, the queries of this life's calls, and the stop.           *)
(***************************************************************************)

CallQueries == [op : {"replace", "bill", "delete"}, call : Calls, id : Nat, until : Nat]
Queries == CallQueries \cup {Drop, Stop}

\* The i-th query of q is op, for call c.
At(q, i, op, c) == i \in DOMAIN q /\ q[i].op = op /\ q[i].call = c

Types ==
  /\ life \in 0 .. MaxLives /\ stamp \in 0 .. life /\ (life > 0 => stamp > 0)
  /\ up \in BOOLEAN /\ closing \in BOOLEAN
  /\ st \in [Calls -> {"idle", "talking", "accounted", "over"}]
  /\ idOf \in [Calls -> Nat] /\ lastId \in Nat
  /\ queue \in Seq(Queries)
  /\ rows \subseteq [id : Nat, call : Calls] /\ IsFiniteSet(rows)
  /\ bills \in [Calls -> Seq(Nat)]
  /\ bornIn \in [Calls -> 0 .. life] /\ cut \in [Calls -> Nat]
  /\ written \subseteq Calls /\ redone \subseteq Calls /\ unstamped \subseteq Calls

\* The life of a call: one that is idle has left no trace, one that talks was born
\* in this life and is in no account yet.
Lives ==
  /\ ~up => queue = <<>>
  /\ up => life > 0
  /\ \A c \in Calls : bornIn[c] = 0 => st[c] = "idle"
  /\ \A c \in Calls : st[c] = "idle" => bills[c] = <<>> /\ c \notin written /\ c \notin RowCalls
  /\ \A c \in Calls : st[c] \in {"talking", "accounted"} => up /\ bornIn[c] = life
  /\ \A c \in Calls : st[c] = "talking" => bills[c] = <<>>

\* A number names one call of a life, and the rows are all of one life.
Numbers ==
  /\ \A c \in Calls : bornIn[c] = life => idOf[c] <= lastId
  /\ \A c, d \in Calls : bornIn[c] = bornIn[d] /\ bornIn[c] # 0 /\ idOf[c] = idOf[d] => c = d
  /\ \A r \in rows : r.id = idOf[r.call]
  /\ \A r, s \in rows : bornIn[r.call] = bornIn[s.call]

\* The queries of calls: by their number; an idle call has none, a talking one
\* only its row; one account for a call.
Items ==
  /\ \A i \in DOMAIN queue : queue[i] \in CallQueries => st[queue[i].call] # "idle"
  /\ \A i \in DOMAIN queue : queue[i].op \in {"replace", "delete"} => queue[i].id = idOf[queue[i].call]
  /\ \A i \in DOMAIN queue : queue[i].op \in {"bill", "delete"} => st[queue[i].call] # "talking"
  /\ \A i, j \in DOMAIN queue :
       queue[i].op = "bill" /\ queue[j].op = "bill" /\ queue[i].call = queue[j].call => i = j

\* Before the drop the queries of the rows a start found, behind it those of this
\* life's calls.
Order ==
  /\ \A i, d \in DOMAIN queue : queue[d].op = "drop" /\ i < d =>
       /\ queue[i].op \in {"bill", "delete"}
       /\ bornIn[queue[i].call] < life
       /\ \A r \in rows : bornIn[queue[i].call] = bornIn[r.call]
  /\ \A i, d \in DOMAIN queue : queue[d].op = "drop" /\ i > d =>
       queue[i].op # "drop" /\ (queue[i].op # "stop" => bornIn[queue[i].call] = life)
  /\ (\A d \in DOMAIN queue : queue[d].op # "drop") =>
       /\ \A i \in DOMAIN queue : queue[i].op # "stop" => bornIn[queue[i].call] = life
       /\ up => \A r \in rows : bornIn[r.call] = life

\* Every row the drop will meet has its delete before it, and every delete of a
\* call that is accounted at all has the account before it, done or waiting.
Accounts ==
  /\ \A d \in DOMAIN queue : queue[d].op = "drop" =>
       \A r \in rows : bornIn[r.call] < life /\ \E i \in 1 .. d - 1 : At(queue, i, "delete", r.call)
  /\ \A i \in DOMAIN queue :
       queue[i].op = "delete" /\ (queue[i].call \notin Losers \/ bornIn[queue[i].call] < life) =>
         bills[queue[i].call] # <<>> \/ \E j \in 1 .. i - 1 : At(queue, j, "bill", queue[i].call)
  /\ \A c \in Calls \ Losers : st[c] = "accounted" =>
       bills[c] # <<>> \/ \E j \in DOMAIN queue : At(queue, j, "bill", c)

\* A call that is over in this life has the delete of its row in the queue, behind
\* the row when that waits too; after the stop there are queries of proxied calls only.
Stopping ==
  /\ \A c \in Calls : up /\ st[c] = "over" /\ bornIn[c] = life =>
       /\ c \in RowCalls => \E j \in DOMAIN queue : At(queue, j, "delete", c)
       /\ \A i \in DOMAIN queue : At(queue, i, "replace", c) =>
            \E j \in DOMAIN queue : i < j /\ At(queue, j, "delete", c)
  /\ \A s \in DOMAIN queue : queue[s].op = "stop" => closing
  /\ \A s, i \in DOMAIN queue : queue[s].op = "stop" /\ i > s =>
       queue[i].op \notin {"stop", "drop"} /\ queue[i].call \in Proxied
  /\ up /\ closing =>
       \A c \in Calls : st[c] # "talking" /\ (st[c] = "accounted" => c \in Proxied)

\* What is accounted and what will be: the account that waits leaves room for one
\* more end between account and delete only when one was counted.
Counts ==
  /\ \A c \in Calls : Len(bills[c]) <= Due(c) + cut[c]
  /\ \A i \in DOMAIN queue : queue[i].op = "bill" =>
       Len(bills[queue[i].call]) < Due(queue[i].call) + cut[queue[i].call]
  /\ ~up => \A c \in RowCalls : Len(bills[c]) < Due(c) + cut[c]

\* Until when the accounts charge.  A start that finds rows writes the stamp at once.
Times ==
  /\ TimelyBill
  /\ \A i \in DOMAIN queue : queue[i].op = "bill" =>
       Timely(queue[i].call, queue[i].until)
  /\ ~up => \A c \in RowCalls : Timely(c, stamp)
  /\ up => \A c \in RowCalls : bornIn[c] = life \/ stamp = life

IInv ==
  /\ Types /\ Lives /\ Numbers /\ Items /\ Order /\ Accounts /\ Stopping /\ Counts /\ Times
  /\ NoneForgotten

-----------------------------------------------------------------------------
(* Lemmas: queries and queues. *)

LEMMA QueryKinds ==
  ASSUME NEW q \in Queries
  PROVE  /\ q.op \in {"replace", "bill", "delete", "drop", "stop"}
         /\ q.op \in {"replace", "bill", "delete"} <=> q \in CallQueries
         /\ q \in CallQueries => q.call \in Calls /\ q.id \in Nat /\ q.until \in Nat
  BY DEF Queries, CallQueries, Drop, Stop

LEMMA NewQueries ==
  ASSUME NEW c \in Calls, NEW n \in Nat
  PROVE  /\ Replace(c, n) \in CallQueries /\ Replace(c, n).op = "replace"
         /\ Replace(c, n).call = c /\ Replace(c, n).id = n
         /\ Bill(c, n) \in CallQueries /\ Bill(c, n).op = "bill"
         /\ Bill(c, n).call = c /\ Bill(c, n).until = n
         /\ Delete(c, n) \in CallQueries /\ Delete(c, n).op = "delete"
         /\ Delete(c, n).call = c /\ Delete(c, n).id = n
  BY DEF CallQueries, Replace, Bill, Delete

LEMMA Appended ==
  ASSUME NEW q \in Seq(Queries), NEW e \in Queries, NEW u, u = Append(q, e)
  PROVE  /\ u \in Seq(Queries) /\ DOMAIN q = 1 .. Len(q) /\ Len(q) \in Nat
         /\ DOMAIN u = 1 .. Len(q) + 1
         /\ \A i \in DOMAIN q : u[i] = q[i]
         /\ u[Len(q) + 1] = e
  BY AppendProperties, LenProperties

LEMMA Shifted ==
  ASSUME NEW q \in Seq(Queries), q # <<>>, NEW u, u = Tail(q)
  PROVE  /\ u \in Seq(Queries) /\ DOMAIN q = 1 .. Len(q) /\ Len(q) \in Nat \ {0}
         /\ DOMAIN u = 1 .. Len(q) - 1
         /\ \A i \in DOMAIN u : i + 1 \in DOMAIN q /\ u[i] = q[i + 1]
         /\ Head(q) = q[1] /\ q[1] \in Queries /\ 1 \in DOMAIN q
<1>1. u \in Seq(Queries) /\ Len(u) = Len(q) - 1 /\ \A i \in 1 .. Len(u) : u[i] = q[i + 1]
  BY HeadTailProperties
<1>2. Len(q) \in Nat \ {0} /\ DOMAIN q = 1 .. Len(q)
  BY EmptySeq, LenProperties
<1>3. DOMAIN u = 1 .. Len(u)
  BY <1>1, LenProperties
<1> QED BY <1>1, <1>2, <1>3

\* The rows a start found, in a sequence: each once.
LEMMA RowsInOrder ==
  ASSUME NEW R, IsFiniteSet(R), NEW s, s = SetToSeq(R)
  PROVE  /\ Cardinality(R) \in Nat /\ s \in [1 .. Cardinality(R) -> R]
         /\ s \in Seq(R) /\ Len(s) = Cardinality(R)
         /\ \A i, j \in 1 .. Len(s) : s[i] = s[j] => i = j
         /\ \A r \in R : \E i \in 1 .. Len(s) : s[i] = r
<1> DEFINE n == Cardinality(R)
<1>1. n \in Nat
  BY FS_CardinalityType
<1>2. PICK f : f \in Bijection(1 .. n, R)
  BY FS_CardinalityType DEF ExistsBijection
<1>3. f \in [1 .. n -> R] /\ IsInjective(f)
  BY <1>2 DEF Bijection, Injection, IsInjective
<1>4. s \in [1 .. n -> R] /\ IsInjective(s)
  BY <1>3 DEF SetToSeq
<1>5. s \in Seq(R) /\ Len(s) = n
  BY <1>1, <1>4
<1>6. \A i, j \in 1 .. n : s[i] = s[j] => i = j
  BY <1>4 DEF IsInjective
<1>7. s \in Surjection(1 .. n, R)
  <2>1. s \in Injection(1 .. n, R)
    BY <1>4 DEF Injection
  <2>2. Cardinality(1 .. n) = n
    BY <1>1, FS_Interval
  <2> QED BY <2>1, <2>2, FS_Injection
<1>8. \A r \in R : \E i \in 1 .. n : s[i] = r
  BY <1>7 DEF Surjection
<1> QED BY <1>1, <1>4, <1>5, <1>6, <1>8

\* What a start puts into the queue: for every row an account, and behind it the
\* delete; behind them all the drop.
StartQueue(u, n, until) ==
  /\ u \in Seq(Queries) /\ DOMAIN u = 1 .. n + 1 /\ u[n + 1] = Drop
  /\ \A i \in 1 .. n : u[i].op \in {"bill", "delete"} /\ \E r \in rows : u[i].call = r.call
  /\ \A i \in 1 .. n : u[i].op = "bill" => \E r \in rows : u[i] = Bill(r.call, until)
  /\ \A i \in 1 .. n : u[i].op = "delete" => \E r \in rows :
       u[i] = Delete(r.call, r.id) /\ i > 1 /\ u[i - 1] = Bill(r.call, until)
  /\ \A i, j \in 1 .. n : u[i].op = "bill" /\ u[j].op = "bill" /\ i # j =>
       \E r, s \in rows : r # s /\ u[i].call = r.call /\ u[j].call = s.call
  /\ \A r \in rows : \E i \in 1 .. n : u[i] = Delete(r.call, r.id)

LEMMA QueueOfStart ==
  ASSUME Types, NEW until \in Nat, NEW u, u = Recovered(until) \o <<Drop>>
  PROVE  \E n \in Nat : StartQueue(u, n, until)
<1> DEFINE seq == SetToSeq(rows)
           k == Len(seq)
           at(i) == (i + 1) \div 2
           first == Recovered(until)
<1>1. /\ k \in Nat /\ seq \in Seq(rows)
      /\ \A i, j \in 1 .. k : seq[i] = seq[j] => i = j
      /\ \A r \in rows : \E i \in 1 .. k : seq[i] = r
  BY RowsInOrder DEF Types
<1>2. \A i \in 1 .. k : seq[i] \in rows
  BY <1>1
<1> HIDE DEF seq
<1>3. \A i \in 1 .. 2 * k : at(i) \in 1 .. k
  BY <1>1
<1>4. \A r \in rows : r.call \in Calls /\ r.id \in Nat
  BY DEF Types
<1>5. first = [i \in 1 .. 2 * k |-> IF i % 2 = 1 THEN Bill(seq[at(i)].call, until)
                                   ELSE Delete(seq[at(i)].call, seq[at(i)].id)]
  BY DEF Recovered, seq
<1> HIDE DEF k, first
<1>6. \A i \in 1 .. 2 * k : first[i] \in Queries
  BY <1>2, <1>3, <1>4, <1>5, NewQueries DEF Queries
<1>7. first \in Seq(Queries) /\ Len(first) = 2 * k
  BY <1>1, <1>5, <1>6
<1>8. <<Drop>> \in Seq(Queries) /\ Len(<<Drop>>) = 1 /\ <<Drop>>[1] = Drop
  BY DEF Queries
<1>9. /\ u \in Seq(Queries) /\ DOMAIN u = 1 .. 2 * k + 1 /\ u[2 * k + 1] = Drop
      /\ \A i \in 1 .. 2 * k : u[i] = first[i]
  <2>1. u \in Seq(Queries) /\ Len(u) = 2 * k + 1
    BY <1>1, <1>7, <1>8, ConcatProperties DEF first
  <2>2. \A i \in 1 .. 2 * k + 1 : u[i] = IF i <= 2 * k THEN first[i] ELSE <<Drop>>[i - 2 * k]
    BY <1>1, <1>7, <1>8, ConcatProperties DEF first
  <2>3. (2 * k + 1) - 2 * k = 1 /\ ~(2 * k + 1 <= 2 * k)
    BY <1>1
  <2> QED BY <1>1, <1>8, <2>1, <2>2, <2>3
<1> DEFINE b(i) == Bill(seq[at(i)].call, until)
           d(i) == Delete(seq[at(i)].call, seq[at(i)].id)
<1>10. \A i \in 1 .. 2 * k : u[i] = IF i % 2 = 1 THEN b(i) ELSE d(i)
  BY <1>5, <1>9
<1> HIDE DEF b, d, at
<1>0. \A m : /\ b(m).op = "bill" /\ b(m).call = seq[at(m)].call
             /\ d(m).op = "delete" /\ d(m).call = seq[at(m)].call
  BY DEF b, d, Bill, Delete
<1>11. \A i \in 1 .. 2 * k :
         u[i].op \in {"bill", "delete"} /\ \E r \in rows : u[i].call = r.call
  BY <1>0, <1>2, <1>3, <1>10
<1>16. \A i \in 1 .. 2 * k : u[i].op = "bill" => \E r \in rows : u[i] = Bill(r.call, until)
  <2> SUFFICES ASSUME NEW i \in 1 .. 2 * k, u[i].op = "bill"
               PROVE  \E r \in rows : u[i] = Bill(r.call, until)
    OBVIOUS
  <2>1. u[i] = b(i)
    BY <1>0, <1>10
  <2> QED BY <1>2, <1>3, <2>1 DEF b
<1>17. \A i \in 1 .. 2 * k : u[i].op = "delete" => \E r \in rows :
         u[i] = Delete(r.call, r.id) /\ i > 1 /\ u[i - 1] = Bill(r.call, until)
  <2> SUFFICES ASSUME NEW i \in 1 .. 2 * k, u[i].op = "delete"
               PROVE  \E r \in rows :
                 u[i] = Delete(r.call, r.id) /\ i > 1 /\ u[i - 1] = Bill(r.call, until)
    OBVIOUS
  <2>1. u[i] = d(i) /\ i % 2 # 1
    BY <1>0, <1>10
  <2>2. i > 1 /\ i - 1 \in 1 .. 2 * k /\ (i - 1) % 2 = 1 /\ at(i - 1) = at(i)
    BY <1>1, <2>1 DEF at
  <2>3. u[i - 1] = b(i - 1)
    BY <1>10, <2>2
  <2> QED BY <1>2, <1>3, <2>1, <2>2, <2>3 DEF b, d
<1>12. \A i, j \in 1 .. 2 * k : u[i].op = "bill" /\ u[j].op = "bill" /\ i # j =>
         \E r, s \in rows : r # s /\ u[i].call = r.call /\ u[j].call = s.call
  <2> SUFFICES ASSUME NEW i \in 1 .. 2 * k, NEW j \in 1 .. 2 * k,
                      u[i].op = "bill", u[j].op = "bill", i # j
               PROVE  \E r, s \in rows : r # s /\ u[i].call = r.call /\ u[j].call = s.call
    OBVIOUS
  <2>1. i % 2 = 1 /\ j % 2 = 1
    BY <1>0, <1>10
  <2>2. at(i) # at(j)
    BY <2>1 DEF at
  <2>3. seq[at(i)] # seq[at(j)]
    BY <1>1, <1>3, <2>2
  <2>4. u[i].call = seq[at(i)].call /\ u[j].call = seq[at(j)].call
    BY <1>0, <1>10, <2>1
  <2> QED BY <1>2, <1>3, <2>3, <2>4
<1>13. \A r \in rows : \E i \in 1 .. 2 * k : u[i] = Delete(r.call, r.id)
  <2> SUFFICES ASSUME NEW r \in rows
               PROVE  \E i \in 1 .. 2 * k : u[i] = Delete(r.call, r.id)
    OBVIOUS
  <2>1. PICK m \in 1 .. k : seq[m] = r
    BY <1>1
  <2>2. 2 * m \in 1 .. 2 * k /\ (2 * m) % 2 # 1 /\ at(2 * m) = m
    BY <1>1 DEF at
  <2> QED BY <1>10, <2>1, <2>2 DEF d
<1>14. 2 * k \in Nat
  BY <1>1
<1>15. StartQueue(u, 2 * k, until)
  BY <1>9, <1>11, <1>12, <1>13, <1>16, <1>17 DEF StartQueue
<1> QED BY <1>14, <1>15

\* One row for a call.
LEMMA OneRow ==
  ASSUME Types, Lives, Numbers
  PROVE  \A r, s \in rows : r.id = s.id \/ r.call = s.call => r = s
<1> SUFFICES ASSUME NEW r \in rows, NEW s \in rows, r.id = s.id \/ r.call = s.call
             PROVE  r = s
  OBVIOUS
<1>1. r \in [id : Nat, call : Calls] /\ s \in [id : Nat, call : Calls]
  BY DEF Types
<1>2. r.id = idOf[r.call] /\ s.id = idOf[s.call] /\ bornIn[r.call] = bornIn[s.call]
  BY DEF Numbers
<1>3. bornIn[r.call] # 0
  BY <1>1 DEF Lives, RowCalls
<1>4. r.call = s.call
  BY <1>1, <1>2, <1>3 DEF Numbers
<1> QED BY <1>1, <1>2, <1>4

LEMMA RowCallsOf ==
  ASSUME Types
  PROVE  /\ RowCalls \subseteq Calls
         /\ \A r \in rows : r.call \in Calls /\ r.id \in Nat /\ r.call \in RowCalls
         /\ \A c \in RowCalls : \E r \in rows : r.call = c
  BY DEF RowCalls, Types

LEMMA DueType ==
  ASSUME NEW c
  PROVE  Due(c) \in {0, 1} /\ (Due(c) = 0 <=> c \in Losers)
  BY DEF Due

-----------------------------------------------------------------------------
(* Each action keeps the invariant. *)

LEMMA IInvInit ==
  ASSUME Init
  PROVE  IInv
<1> USE DEF Init
<1>1. Types
  <2>1. <<>> \in Seq(Queries) /\ <<>> \in Seq(Nat)
    BY EmptySeq
  <2>2. bills \in [Calls -> Seq(Nat)] /\ bornIn \in [Calls -> 0 .. life]
    BY <2>1
  <2>3. IsFiniteSet(rows)
    BY FS_EmptySet
  <2>5. cut \in [Calls -> Nat] /\ idOf \in [Calls -> Nat] /\ queue \in Seq(Queries)
        /\ st \in [Calls -> {"idle", "talking", "accounted", "over"}]
    BY <2>1
  <2>6. stamp \in 0 .. life /\ (life > 0 => stamp > 0) /\ lastId \in Nat
    OBVIOUS
  <2>7. /\ rows \subseteq [id : Nat, call : Calls] /\ written \subseteq Calls /\ redone \subseteq Calls /\ unstamped \subseteq Calls
        /\ up \in BOOLEAN /\ closing \in BOOLEAN
    OBVIOUS
  <2> HIDE DEF Init
  <2>4. life \in 0 .. MaxLives
    BY MaxLivesAssumption DEF Init
  <2> QED BY <2>2, <2>3, <2>4, <2>5, <2>6, <2>7 DEF Types
<1>2. Lives /\ Numbers
  BY DEF Lives, Numbers, RowCalls
<1>3. Items /\ Order /\ Accounts /\ Stopping
  <2>1. DOMAIN queue = {} OBVIOUS
  <2> QED BY <2>1 DEF Items, Order, Accounts, Stopping
<1>4. Counts /\ Times /\ NoneForgotten
  <2>1. DOMAIN queue = {} OBVIOUS
  <2>2. \A c \in Calls : bills[c] = <<>> /\ Len(bills[c]) = 0 /\ DOMAIN bills[c] = {} /\ cut[c] = 0
    OBVIOUS
  <2>3. RowCalls = {}
    BY DEF RowCalls
  <2> QED BY <2>1, <2>2, <2>3, DueType DEF Counts, Times, TimelyBill, Timely, NoneForgotten
<1> QED BY <1>1, <1>2, <1>3, <1>4 DEF IInv

LEMMA StartKeeps ==
  ASSUME IInv, Start
  PROVE  IInv'
<1>0. Types /\ Lives /\ Numbers /\ Items /\ Order /\ Accounts /\ Stopping /\ Counts /\ Times /\ NoneForgotten
  BY DEF IInv
<1>1. /\ UNCHANGED <<st, idOf, rows, bills, bornIn, written, cut, redone, unstamped>>
      /\ up' = TRUE /\ closing' = FALSE /\ life' = life + 1 /\ life \in Nat /\ stamp \in Nat /\ ~up
  BY <1>0 DEF Start, database, history, Types
<1>2. stamp = 0 => rows = {}
  <2> SUFFICES ASSUME stamp = 0, NEW r \in rows PROVE FALSE
    OBVIOUS
  <2>1. life = 0
    BY <1>0 DEF Types
  <2>2. bornIn[r.call] = 0
    BY <1>0, <2>1 DEF Types
  <2>3. st[r.call] = "idle" /\ r.call \in RowCalls /\ r.call \in Calls
    BY <1>0, <2>2, RowCallsOf DEF Lives
  <2> QED BY <1>0, <2>3 DEF Lives
<1>p. PICK n \in Nat : StartQueue(queue', n, stamp)
  <2>1. CASE stamp = 0
    <3>0. <<Drop>> \in Seq(Queries) /\ Len(<<Drop>>) = 1 /\ <<Drop>>[1] = Drop
      BY DEF Queries
    <3>1. queue' = <<Drop>>
      BY <1>1, <2>1, <3>0, ConcatEmptySeq DEF Start
    <3>2. queue' \in Seq(Queries) /\ DOMAIN queue' = 1 .. 1 /\ queue'[1] = Drop
      BY <3>0, <3>1, LenProperties
    <3>3. 0 \in Nat /\ 0 + 1 = 1 /\ 1 .. 0 = {}
      OBVIOUS
    <3>4. StartQueue(queue', 0, stamp)
      BY <1>2, <2>1, <3>2, <3>3 DEF StartQueue
    <3> QED BY <3>3, <3>4
  <2>2. CASE stamp # 0
    <3>1. queue' = Recovered(stamp) \o <<Drop>>
      BY <2>2 DEF Start
    <3> QED BY <1>0, <1>1, <3>1, QueueOfStart
  <2> QED BY <2>1, <2>2
<1>3. queue' \in Seq(Queries) /\ DOMAIN queue' = 1 .. n + 1 /\ queue'[n + 1] = Drop
  BY <1>p DEF StartQueue
<1>4. \A i \in DOMAIN queue' :
         (i \in 1 .. n /\ queue'[i].op \in {"bill", "delete"}) \/ (i = n + 1 /\ queue'[i] = Drop)
  <2>1. \A i \in 1 .. n : queue'[i].op \in {"bill", "delete"}
    BY <1>p DEF StartQueue
  <2>2. \A i \in 1 .. n + 1 : i \in 1 .. n \/ i = n + 1
    OBVIOUS
  <2> QED BY <1>3, <2>1, <2>2
<1>9. \A c, m : /\ Bill(c, m).op = "bill" /\ Bill(c, m).call = c /\ Bill(c, m).until = m
                /\ Delete(c, m).op = "delete" /\ Delete(c, m).call = c /\ Delete(c, m).id = m
  BY DEF Bill, Delete
<1>5. Drop.op = "drop"
  BY DEF Drop
<1>6. \A r \in rows : /\ r.call \in Calls /\ r.call \in RowCalls
                      /\ r.id = idOf[r.call] /\ st[r.call] \notin {"idle", "talking"}
                      /\ bornIn[r.call] \in Nat /\ bornIn[r.call] < life + 1
  BY <1>0, <1>1, RowCallsOf DEF Types, Lives, Numbers
<1>7. \A i \in DOMAIN queue' : queue'[i].op = "bill" => i \in 1 .. n
           /\ \E r \in rows : queue'[i] = Bill(r.call, stamp)
  BY <1>4, <1>5, <1>p DEF StartQueue
<1>8. \A i \in DOMAIN queue' : queue'[i].op = "delete" => i \in 1 .. n
           /\ \E r \in rows : queue'[i] = Delete(r.call, r.id) /\ i > 1 /\ queue'[i - 1] = Bill(r.call, stamp)
  BY <1>4, <1>5, <1>p DEF StartQueue
<1>11. \A i, j \in 1 .. n : queue'[i].op = "bill" /\ queue'[j].op = "bill" /\ i # j =>
         \E r, s \in rows : r # s /\ queue'[i].call = r.call /\ queue'[j].call = s.call
  BY <1>p DEF StartQueue
<1>10. RowCalls' = RowCalls
  BY <1>1 DEF RowCalls
<1>t. Types'
  <2>1. life' \in 0 .. MaxLives /\ life' \in Nat
    BY <1>0, <1>1, MaxLivesAssumption DEF Start, Types
  <2>2. stamp' \in 0 .. life' /\ stamp' > 0
    BY <1>0, <1>1 DEF Start, Types
  <2>3. bornIn' \in [Calls -> 0 .. life']
    BY <1>0, <1>1 DEF Types
  <2>4. lastId' \in Nat
    BY DEF Start
  <2> QED BY <1>0, <1>1, <1>3, <2>1, <2>2, <2>3, <2>4 DEF Types
<1>l. Lives'
  BY <1>0, <1>1, <1>10 DEF Lives
<1>n. Numbers'
  <2>1. \A c \in Calls : bornIn[c] < life'
    BY <1>0, <1>1 DEF Types
  <2> QED BY <1>0, <1>1, <2>1 DEF Numbers, Types
<1>i. Items'
  <2>1. \A i \in DOMAIN queue' : queue'[i] \in CallQueries => queue'[i].op \in {"bill", "delete"}
    BY <1>4 DEF CallQueries, Drop
  <2>2. \A i \in DOMAIN queue' : queue'[i].op \in {"bill", "delete"} =>
          \E r \in rows : queue'[i].call = r.call /\ (queue'[i].op = "delete" => queue'[i].id = r.id)
    BY <1>7, <1>8, <1>9
  <2>3. \A i, j \in DOMAIN queue' :
       queue'[i].op = "bill" /\ queue'[j].op = "bill" /\ queue'[i].call = queue'[j].call => i = j
    <3> SUFFICES ASSUME NEW i \in DOMAIN queue', NEW j \in DOMAIN queue', i # j,
                        queue'[i].op = "bill", queue'[j].op = "bill", queue'[i].call = queue'[j].call
                 PROVE  FALSE
      OBVIOUS
    <3>1. \E r, s \in rows : r # s /\ queue'[i].call = r.call /\ queue'[j].call = s.call
      BY <1>7, <1>11
    <3> QED BY <1>0, <3>1, OneRow
  <2> QED BY <1>1, <1>4, <1>5, <1>6, <2>1, <2>2, <2>3 DEF Items
<1>o. Order'
  <2>1. \A i \in DOMAIN queue' : i \in 1 .. n =>
          /\ queue'[i].op \in {"bill", "delete"}
          /\ \E r \in rows : queue'[i].call = r.call
    BY <1>p DEF StartQueue
  <2>2. \A d \in DOMAIN queue' : queue'[d].op = "drop" => d = n + 1
    BY <1>4
  <2>3. n + 1 \in DOMAIN queue' /\ queue'[n + 1].op = "drop"
    BY <1>3, <1>5
  <2>4. \A i, d \in DOMAIN queue' : queue'[d].op = "drop" /\ i < d =>
       /\ queue'[i].op \in {"bill", "delete"}
       /\ bornIn'[queue'[i].call] < life'
       /\ \A r \in rows' : bornIn'[queue'[i].call] = bornIn'[r.call]
    <3> SUFFICES ASSUME NEW i \in DOMAIN queue', NEW d \in DOMAIN queue', queue'[d].op = "drop", i < d
                 PROVE  /\ queue'[i].op \in {"bill", "delete"}
                        /\ bornIn[queue'[i].call] < life + 1
                        /\ \A r \in rows : bornIn[queue'[i].call] = bornIn[r.call]
      BY <1>1
    <3>1. i \in 1 .. n
      BY <1>3, <2>2
    <3> QED BY <1>0, <1>6, <2>1, <3>1 DEF Numbers
  <2>5. \A i, d \in DOMAIN queue' : queue'[d].op = "drop" => ~(i > d)
    BY <1>3, <2>2
  <2> QED BY <2>3, <2>4, <2>5 DEF Order
<1>a. Accounts'
  <2>1. \A d \in DOMAIN queue' : queue'[d].op = "drop" => d = n + 1
    BY <1>4
  <2>2. \A d \in DOMAIN queue' : queue'[d].op = "drop" =>
       \A r \in rows' : bornIn'[r.call] < life' /\ \E i \in 1 .. d - 1 : At(queue', i, "delete", r.call)
    <3> SUFFICES ASSUME NEW r \in rows
                 PROVE  bornIn[r.call] < life + 1 /\ \E i \in 1 .. n : At(queue', i, "delete", r.call)
      BY <1>1, <2>1
    <3>1. PICK i \in 1 .. n : queue'[i] = Delete(r.call, r.id)
      BY <1>p DEF StartQueue
    <3>2. At(queue', i, "delete", r.call)
      BY <1>3, <1>9, <3>1 DEF At
    <3> QED BY <1>6, <3>2
  <2>3. \A i \in DOMAIN queue' : queue'[i].op = "delete" =>
          \E j \in 1 .. i - 1 : At(queue', j, "bill", queue'[i].call)
    <3> SUFFICES ASSUME NEW i \in DOMAIN queue', queue'[i].op = "delete"
                 PROVE  \E j \in 1 .. i - 1 : At(queue', j, "bill", queue'[i].call)
      OBVIOUS
    <3>1. i \in 1 .. n
      BY <1>8
    <3>2. PICK r \in rows : queue'[i] = Delete(r.call, r.id) /\ i > 1
                           /\ queue'[i - 1] = Bill(r.call, stamp)
      BY <1>8
    <3>3. i - 1 \in DOMAIN queue' /\ i - 1 \in 1 .. i - 1
      BY <1>3, <3>1, <3>2
    <3>4. At(queue', i - 1, "bill", queue'[i].call)
      BY <1>9, <3>2, <3>3 DEF At
    <3> QED BY <3>3, <3>4
  <2>4. \A c \in Calls : st'[c] # "accounted"
    BY <1>0, <1>1 DEF Lives
  <2> QED BY <2>2, <2>3, <2>4 DEF Accounts
<1>s. Stopping'
  <2>1. \A c \in Calls : bornIn'[c] < life'
    BY <1>0, <1>1 DEF Types
  <2>2. \A c \in Calls : bornIn'[c] # life'
    BY <1>0, <1>1, <2>1 DEF Types
  <2>3. \A i \in DOMAIN queue' : queue'[i].op # "stop"
    BY <1>4, <1>5
  <2> QED BY <1>1, <2>2, <2>3 DEF Stopping
<1>c. Counts'
  <2>1. \A i \in DOMAIN queue' : queue'[i].op = "bill" => queue'[i].call \in RowCalls
    BY <1>6, <1>7, <1>9
  <2> QED BY <1>0, <1>1, <2>1 DEF Counts, Due
<1>m. Times'
  <2>1. \A i \in DOMAIN queue' : queue'[i].op = "bill" => queue'[i].call \in RowCalls /\ queue'[i].until = stamp
    BY <1>6, <1>7, <1>9
  <2>2. \A i \in DOMAIN queue' : queue'[i].op = "bill" => Timely(queue'[i].call, queue'[i].until)
    BY <1>0, <1>1, <2>1 DEF Times
  <2>3. RowCalls' = RowCalls /\ \A c \in RowCalls : stamp' = life'
    BY <1>1 DEF RowCalls, Start
  <2>4. TimelyBill
    BY <1>0 DEF Times
  <2> QED BY <1>1, <2>2, <2>3, <2>4 DEF Times, TimelyBill, Timely
<1>f. NoneForgotten'
  BY <1>0, <1>1, <1>10 DEF NoneForgotten
<1> QED BY <1>t, <1>l, <1>n, <1>i, <1>o, <1>a, <1>s, <1>c, <1>m, <1>f DEF IInv

LEMMA StampTimeKeeps ==
  ASSUME IInv, StampTime
  PROVE  IInv'
<1> USE DEF StampTime, database, history
<1>0. Types /\ Lives /\ Numbers /\ Items /\ Order /\ Accounts /\ Stopping /\ Counts /\ Times /\ NoneForgotten
  BY DEF IInv
<1>1. Types'
  BY <1>0 DEF Types, Lives
<1>2. Lives'
  BY <1>0 DEF Lives, RowCalls
<1>3. Numbers' /\ Items' /\ Order'
  BY <1>0 DEF Numbers, Items, Order
<1>4. Accounts'
  BY <1>0 DEF Accounts, At
<1>5. Stopping'
  BY <1>0 DEF Stopping, At, RowCalls
<1>6. Counts' /\ NoneForgotten'
  BY <1>0 DEF Counts, NoneForgotten, RowCalls
<1>7. Times'
  BY <1>0 DEF Times, TimelyBill, Timely, RowCalls
<1> QED BY <1>1, <1>2, <1>3, <1>4, <1>5, <1>6, <1>7 DEF IInv

LEMMA SqlConnectKeeps ==
  ASSUME IInv, NEW c \in Calls, SqlConnect(c)
  PROVE  IInv'
<1>0. Types /\ Lives /\ Numbers /\ Items /\ Order /\ Accounts /\ Stopping /\ Counts /\ Times /\ NoneForgotten
  BY DEF IInv
<1> DEFINE n == Len(queue)
           e == Replace(c, lastId + 1)
<1>1. /\ UNCHANGED <<life, up, closing, rows, bills, stamp, written, cut, redone, unstamped>>
      /\ up = TRUE /\ closing = FALSE /\ st[c] = "idle" /\ life \in Nat \ {0} /\ lastId \in Nat
      /\ lastId' = lastId + 1
  BY <1>0 DEF SqlConnect, database, Types, Lives
<1>2. /\ \A d \in Calls : st'[d] = IF d = c THEN "talking" ELSE st[d]
      /\ \A d \in Calls : idOf'[d] = IF d = c THEN lastId + 1 ELSE idOf[d]
      /\ \A d \in Calls : bornIn'[d] = IF d = c THEN life ELSE bornIn[d]
  BY <1>0 DEF SqlConnect, Types
<1>3. e \in CallQueries /\ e \in Queries /\ e.op = "replace" /\ e.call = c /\ e.id = lastId + 1
  BY <1>1, NewQueries DEF Queries
<1> HIDE DEF e
<1>4. /\ queue' \in Seq(Queries) /\ DOMAIN queue = 1 .. n /\ n \in Nat
      /\ DOMAIN queue' = 1 .. n + 1 /\ queue'[n + 1] = e
      /\ \A i \in 1 .. n : queue'[i] = queue[i]
  <2>1. queue' = Append(queue, e)
    BY DEF SqlConnect, e
  <2> QED BY <1>0, <1>3, <2>1, Appended DEF Types
<1> HIDE DEF n
<1>5. \A i \in DOMAIN queue' : (i \in 1 .. n /\ i \in DOMAIN queue /\ queue'[i] = queue[i])
                               \/ (i = n + 1 /\ queue'[i] = e)
  BY <1>4
<1>6. \A i \in DOMAIN queue : queue[i] \in Queries /\ i \in DOMAIN queue' /\ queue'[i] = queue[i]
  BY <1>0, <1>4, ElementOfSeq DEF Types
\* c has left no trace
<1>7. \A i \in DOMAIN queue : queue[i].op \in {"replace", "bill", "delete"} =>
         queue[i].call \in Calls /\ queue[i].call # c
  BY <1>0, <1>1, <1>6, QueryKinds DEF Items
<1>8. RowCalls' = RowCalls /\ c \notin RowCalls /\ c \notin written /\ bills[c] = <<>>
  BY <1>0, <1>1 DEF Lives, RowCalls
<1>9. \A r \in rows : r.call \in Calls /\ r.call # c
  BY <1>0, <1>8, RowCallsOf
<1>10. \A i \in DOMAIN queue : queue[i].op \in {"replace", "bill", "delete", "drop", "stop"}
  BY <1>6, QueryKinds
<1>t. Types'
  <2>1. idOf' \in [Calls -> Nat] /\ bornIn' \in [Calls -> 0 .. life]
        /\ st' \in [Calls -> {"idle", "talking", "accounted", "over"}]
    BY <1>0, <1>1 DEF Types, SqlConnect
  <2>2. bornIn' \in [Calls -> 0 .. life']
    BY <1>1, <2>1
  <2>3. lastId' \in Nat
    BY <1>1
  <2>4. /\ life' \in 0 .. MaxLives /\ stamp' \in 0 .. life' /\ (life' > 0 => stamp' > 0)
        /\ up' \in BOOLEAN /\ closing' \in BOOLEAN
        /\ rows' \subseteq [id : Nat, call : Calls] /\ IsFiniteSet(rows')
        /\ bills' \in [Calls -> Seq(Nat)] /\ cut' \in [Calls -> Nat]
        /\ written' \subseteq Calls /\ redone' \subseteq Calls /\ unstamped' \subseteq Calls
    BY <1>0, <1>1 DEF Types
  <2> QED BY <1>4, <2>1, <2>2, <2>3, <2>4 DEF Types
<1>l. Lives'
  BY <1>0, <1>1, <1>2, <1>8 DEF Lives
<1>n. Numbers'
  <2>1. \A a, b \in Calls : bornIn'[a] = bornIn'[b] /\ bornIn'[a] # 0 /\ idOf'[a] = idOf'[b] => a = b
    <3>1. \A a \in Calls : idOf[a] \in Nat /\ (bornIn[a] = life => idOf[a] # lastId + 1)
      BY <1>0, <1>1 DEF Numbers, Types
    <3> QED BY <1>0, <1>1, <1>2, <3>1 DEF Numbers
  <2>2. \A a \in Calls : bornIn'[a] = life' => idOf'[a] <= lastId'
    <3>1. \A a \in Calls : idOf[a] \in Nat /\ (bornIn[a] = life => idOf[a] <= lastId)
      BY <1>0 DEF Numbers, Types
    <3> QED BY <1>1, <1>2, <3>1
  <2>3. \A r \in rows' : r.id = idOf'[r.call]
    BY <1>0, <1>1, <1>2, <1>9 DEF Numbers
  <2>4. \A r, s \in rows' : bornIn'[r.call] = bornIn'[s.call]
    BY <1>0, <1>1, <1>2, <1>9 DEF Numbers
  <2> QED BY <2>1, <2>2, <2>3, <2>4 DEF Numbers
<1>i. Items'
  <2>1. \A i \in DOMAIN queue' : queue'[i] \in CallQueries => st'[queue'[i].call] # "idle"
    BY <1>0, <1>2, <1>3, <1>5, <1>6, <1>7, QueryKinds DEF Items
  <2>2. \A i \in DOMAIN queue' : queue'[i].op \in {"replace", "delete"} => queue'[i].id = idOf'[queue'[i].call]
    BY <1>0, <1>2, <1>3, <1>5, <1>7 DEF Items
  <2>3. \A i \in DOMAIN queue' : queue'[i].op \in {"bill", "delete"} => st'[queue'[i].call] # "talking"
    BY <1>0, <1>2, <1>3, <1>5, <1>7 DEF Items
  <2>4. \A i, j \in DOMAIN queue' :
       queue'[i].op = "bill" /\ queue'[j].op = "bill" /\ queue'[i].call = queue'[j].call => i = j
    BY <1>0, <1>3, <1>5 DEF Items
  <2> QED BY <2>1, <2>2, <2>3, <2>4 DEF Items
<1>o. Order'
  <2>1. \A i, d \in DOMAIN queue' : queue'[d].op = "drop" /\ i < d => i \in DOMAIN queue /\ d \in DOMAIN queue
    BY <1>3, <1>4, <1>5
  <2>2. \A i, d \in DOMAIN queue' : queue'[d].op = "drop" /\ i < d =>
       /\ queue'[i].op \in {"bill", "delete"}
       /\ bornIn'[queue'[i].call] < life'
       /\ \A r \in rows' : bornIn'[queue'[i].call] = bornIn'[r.call]
    <3> SUFFICES ASSUME NEW i \in DOMAIN queue', NEW d \in DOMAIN queue', queue'[d].op = "drop", i < d
                 PROVE  /\ queue'[i].op \in {"bill", "delete"}
                        /\ bornIn'[queue'[i].call] < life
                        /\ \A r \in rows : bornIn'[queue'[i].call] = bornIn'[r.call]
      BY <1>1
    <3>1. i \in DOMAIN queue /\ d \in DOMAIN queue /\ queue[d].op = "drop" /\ queue'[i] = queue[i]
      BY <1>6, <2>1
    <3>2. queue[i].op \in {"bill", "delete"} /\ bornIn[queue[i].call] < life
          /\ \A r \in rows : bornIn[queue[i].call] = bornIn[r.call]
      BY <1>0, <3>1 DEF Order
    <3> QED BY <1>2, <1>7, <1>9, <3>1, <3>2
  <2>3. \A i, d \in DOMAIN queue' : queue'[d].op = "drop" /\ i > d =>
       queue'[i].op # "drop" /\ (queue'[i].op # "stop" => bornIn'[queue'[i].call] = life')
    <3> SUFFICES ASSUME NEW i \in DOMAIN queue', NEW d \in DOMAIN queue', queue'[d].op = "drop", i > d
                 PROVE  queue'[i].op # "drop" /\ (queue'[i].op # "stop" => bornIn'[queue'[i].call] = life)
      BY <1>1
    <3>1. d \in DOMAIN queue /\ queue[d].op = "drop"
      BY <1>3, <1>5
    <3>2. CASE i \in DOMAIN queue
      BY <1>0, <1>2, <1>6, <1>7, <1>10, <3>1, <3>2 DEF Order
    <3>3. CASE i \notin DOMAIN queue
      BY <1>2, <1>3, <1>5, <3>3
    <3> QED BY <3>2, <3>3
  <2>4. (\A d \in DOMAIN queue' : queue'[d].op # "drop") =>
       /\ \A i \in DOMAIN queue' : queue'[i].op # "stop" => bornIn'[queue'[i].call] = life'
       /\ up' => \A r \in rows' : bornIn'[r.call] = life'
    <3> SUFFICES ASSUME \A d \in DOMAIN queue' : queue'[d].op # "drop"
                 PROVE  /\ \A i \in DOMAIN queue' : queue'[i].op # "stop" => bornIn'[queue'[i].call] = life
                        /\ \A r \in rows : bornIn'[r.call] = life
      BY <1>1
    <3>1. /\ \A i \in DOMAIN queue : queue[i].op # "stop" => bornIn[queue[i].call] = life
          /\ \A r \in rows : bornIn[r.call] = life
      BY <1>0, <1>1, <1>6 DEF Order
    <3> QED BY <1>2, <1>3, <1>5, <1>6, <1>7, <1>9, <1>10, <3>1
  <2> QED BY <2>2, <2>3, <2>4 DEF Order
<1>a. Accounts'
  <2>1. \A i, op, d : At(queue, i, op, d) => At(queue', i, op, d)
    BY <1>6 DEF At
  <2>2. \A d \in DOMAIN queue' : queue'[d].op = "drop" =>
       \A r \in rows' : bornIn'[r.call] < life' /\ \E i \in 1 .. d - 1 : At(queue', i, "delete", r.call)
    <3> SUFFICES ASSUME NEW d \in DOMAIN queue', queue'[d].op = "drop", NEW r \in rows
                 PROVE  bornIn'[r.call] < life /\ \E i \in 1 .. d - 1 : At(queue', i, "delete", r.call)
      BY <1>1
    <3>1. d \in DOMAIN queue /\ queue[d].op = "drop"
      BY <1>3, <1>5
    <3>2. bornIn[r.call] < life /\ \E i \in 1 .. d - 1 : At(queue, i, "delete", r.call)
      BY <1>0, <3>1 DEF Accounts
    <3> QED BY <1>2, <1>9, <2>1, <3>2
  <2>3. \A i \in DOMAIN queue' :
       queue'[i].op = "delete" /\ (queue'[i].call \notin Losers \/ bornIn'[queue'[i].call] < life') =>
         bills'[queue'[i].call] # <<>> \/ \E j \in 1 .. i - 1 : At(queue', j, "bill", queue'[i].call)
    <3> SUFFICES ASSUME NEW i \in DOMAIN queue', queue'[i].op = "delete",
                        queue'[i].call \notin Losers \/ bornIn'[queue'[i].call] < life
                 PROVE  bills[queue'[i].call] # <<>> \/ \E j \in 1 .. i - 1 : At(queue', j, "bill", queue'[i].call)
      BY <1>1
    <3>1. i \in DOMAIN queue /\ queue'[i] = queue[i]
      BY <1>3, <1>5
    <3>2. queue[i].call \in Calls /\ bornIn'[queue[i].call] = bornIn[queue[i].call]
      BY <1>2, <1>7, <3>1
    <3> QED BY <1>0, <2>1, <3>1, <3>2 DEF Accounts
  <2>4. \A d \in Calls \ Losers : st'[d] = "accounted" =>
       bills'[d] # <<>> \/ \E j \in DOMAIN queue' : At(queue', j, "bill", d)
    BY <1>0, <1>1, <1>2, <1>6, <2>1 DEF Accounts
  <2> QED BY <2>2, <2>3, <2>4 DEF Accounts
<1>s. Stopping'
  <2>1. \A d \in Calls : up' /\ st'[d] = "over" /\ bornIn'[d] = life' =>
       /\ d \in RowCalls' => \E j \in DOMAIN queue' : At(queue', j, "delete", d)
       /\ \A i \in DOMAIN queue' : At(queue', i, "replace", d) =>
            \E j \in DOMAIN queue' : i < j /\ At(queue', j, "delete", d)
    <3> SUFFICES ASSUME NEW d \in Calls, st'[d] = "over", bornIn'[d] = life
                 PROVE  /\ d \in RowCalls => \E j \in DOMAIN queue' : At(queue', j, "delete", d)
                        /\ \A i \in DOMAIN queue' : At(queue', i, "replace", d) =>
                              \E j \in DOMAIN queue' : i < j /\ At(queue', j, "delete", d)
      BY <1>1, <1>8
    <3>1. d # c /\ st[d] = "over" /\ bornIn[d] = life
      BY <1>2
    <3>2. \A i, op : At(queue, i, op, d) <=> At(queue', i, op, d)
      BY <1>3, <1>5, <1>6, <3>1 DEF At
    <3>3. /\ d \in RowCalls => \E j \in DOMAIN queue : At(queue, j, "delete", d)
          /\ \A i \in DOMAIN queue : At(queue, i, "replace", d) =>
                \E j \in DOMAIN queue : i < j /\ At(queue, j, "delete", d)
      BY <1>0, <1>1, <3>1 DEF Stopping
    <3> QED BY <1>6, <3>2, <3>3 DEF At
  <2>2. \A s \in DOMAIN queue' : queue'[s].op # "stop"
    BY <1>0, <1>1, <1>3, <1>5 DEF Stopping
  <2> QED BY <1>1, <2>1, <2>2 DEF Stopping
<1>c. Counts'
  <2>1. \A i \in DOMAIN queue' : queue'[i].op = "bill" => i \in DOMAIN queue /\ queue'[i] = queue[i]
    BY <1>3, <1>5
  <2> QED BY <1>0, <1>1, <2>1 DEF Counts, Due
<1>m. Times'
  <2>1. \A i \in DOMAIN queue' : queue'[i].op = "bill" => i \in DOMAIN queue /\ queue'[i] = queue[i]
    BY <1>3, <1>5
  <2>2. (\A i \in DOMAIN queue : queue[i].op = "bill" => Timely(queue[i].call, queue[i].until))'
    <3> SUFFICES ASSUME NEW i \in DOMAIN queue', queue'[i].op = "bill"
                 PROVE  Timely(queue[i].call, queue[i].until)'
      OBVIOUS
    <3>1. /\ queue'[i] = queue[i] /\ Timely(queue[i].call, queue[i].until)
          /\ queue[i].call \in Calls /\ queue[i].call # c
      BY <1>0, <1>7, <2>1 DEF Times
    <3> QED BY <1>1, <1>2, <3>1 DEF Timely
  <2>3. TimelyBill'
    <3> SUFFICES ASSUME NEW d \in Calls, NEW i \in DOMAIN bills[d]
                 PROVE  Timely(d, bills[d][i])'
      BY <1>1 DEF TimelyBill, Timely
    <3>1. d # c
      <4>1. DOMAIN <<>> = {} OBVIOUS
      <4> QED BY <1>8, <4>1
    <3>2. Timely(d, bills[d][i])
      BY <1>0 DEF Times, TimelyBill
    <3> QED BY <1>1, <1>2, <3>1, <3>2 DEF Timely
  <2>4. \A d \in RowCalls' : bornIn'[d] = life' \/ stamp' = life'
    <3>1. \A d \in RowCalls : d \in Calls /\ d # c
      BY <1>0, <1>8, RowCallsOf
    <3>2. \A d \in RowCalls : bornIn[d] = life \/ stamp = life
      BY <1>0, <1>1 DEF Times
    <3> QED BY <1>1, <1>2, <1>8, <3>1, <3>2
  <2> QED BY <1>1, <2>2, <2>3, <2>4 DEF Times
<1>f. NoneForgotten'
  BY <1>0, <1>1, <1>8 DEF NoneForgotten
<1> QED BY <1>t, <1>l, <1>n, <1>i, <1>o, <1>a, <1>s, <1>c, <1>m, <1>f DEF IInv

\* accountCall and sqlEnd put a query of their call into the queue: the account when
\* it talked, the delete when it is accounted.
LEMMA OwnQueryKeeps ==
  ASSUME IInv, NEW c \in Calls, NEW e, NEW x,
         up, queue' = Append(queue, e), st' = [st EXCEPT ![c] = x],
         UNCHANGED <<life, up, closing, idOf, lastId, rows, bills, stamp, bornIn, written, cut, redone, unstamped>>,
         \/ st[c] = "talking" /\ c \notin Losers /\ e = Bill(c, life) /\ x = "accounted"
         \/ st[c] = "accounted" /\ e = Delete(c, idOf[c]) /\ x = "over"
  PROVE  IInv'
<1>0. Types /\ Lives /\ Numbers /\ Items /\ Order /\ Accounts /\ Stopping /\ Counts /\ Times /\ NoneForgotten
  BY DEF IInv
<1> DEFINE n == Len(queue)
<1>1. /\ up = TRUE /\ life \in Nat \ {0} /\ bornIn[c] = life /\ idOf[c] \in Nat
      /\ st[c] \in {"talking", "accounted"} /\ x \in {"accounted", "over"}
  BY <1>0 DEF Types, Lives
<1>2. \A d \in Calls : st'[d] = IF d = c THEN x ELSE st[d]
  BY <1>0 DEF Types
<1>3. /\ e \in CallQueries /\ e \in Queries /\ e.op \in {"bill", "delete"} /\ e.call = c
      /\ e.op = "bill" => st[c] = "talking" /\ c \notin Losers /\ e.until = life /\ x = "accounted"
      /\ e.op = "delete" => st[c] = "accounted" /\ e.id = idOf[c] /\ x = "over"
  BY <1>1, NewQueries DEF Queries
<1>4. /\ queue' \in Seq(Queries) /\ DOMAIN queue = 1 .. n /\ n \in Nat
      /\ DOMAIN queue' = 1 .. n + 1 /\ queue'[n + 1] = e
      /\ \A i \in 1 .. n : queue'[i] = queue[i]
  BY <1>0, <1>3, Appended DEF Types
<1> HIDE DEF n
<1>5. \A i \in DOMAIN queue' : (i \in 1 .. n /\ i \in DOMAIN queue /\ queue'[i] = queue[i])
                               \/ (i = n + 1 /\ queue'[i] = e)
  BY <1>4
<1>6. \A i \in DOMAIN queue : queue[i] \in Queries /\ i \in DOMAIN queue' /\ queue'[i] = queue[i]
  BY <1>0, <1>4, ElementOfSeq DEF Types
<1>7. \A i \in DOMAIN queue : queue[i].op \in {"replace", "bill", "delete"} => queue[i].call \in Calls
  BY <1>6, QueryKinds
<1>8. RowCalls' = RowCalls
  BY DEF RowCalls
<1>9. \A i, op, d : At(queue, i, op, d) => At(queue', i, op, d)
  BY <1>6 DEF At
<1>10. \A i \in DOMAIN queue : queue[i].op \in {"replace", "bill", "delete", "drop", "stop"}
  BY <1>6, QueryKinds
<1>11. e.op = "bill" => \A i \in DOMAIN queue : queue[i].op = "bill" => queue[i].call # c
  BY <1>0, <1>3 DEF Items
<1>12. x # "talking" /\ x # "idle" /\ e.op # "drop" /\ e.op # "stop"
  BY <1>1, <1>3
<1>t. Types'
  <2>1. st' \in [Calls -> {"idle", "talking", "accounted", "over"}]
    BY <1>0, <1>1 DEF Types
  <2> QED BY <1>0, <1>4, <2>1 DEF Types
<1>l. Lives'
  BY <1>0, <1>1, <1>2, <1>8, <1>12 DEF Lives
<1>n. Numbers'
  BY <1>0 DEF Numbers
<1>i. Items'
  <2>1. \A i \in DOMAIN queue' : queue'[i] \in CallQueries => st'[queue'[i].call] # "idle"
    BY <1>0, <1>2, <1>3, <1>5, <1>6, <1>7, <1>12, QueryKinds DEF Items
  <2>2. \A i \in DOMAIN queue' : queue'[i].op \in {"replace", "delete"} => queue'[i].id = idOf'[queue'[i].call]
    BY <1>0, <1>3, <1>5 DEF Items
  <2>3. \A i \in DOMAIN queue' : queue'[i].op \in {"bill", "delete"} => st'[queue'[i].call] # "talking"
    BY <1>0, <1>2, <1>3, <1>5, <1>7, <1>12 DEF Items
  <2>4. \A i, j \in DOMAIN queue' :
       queue'[i].op = "bill" /\ queue'[j].op = "bill" /\ queue'[i].call = queue'[j].call => i = j
    BY <1>0, <1>3, <1>5, <1>11 DEF Items
  <2> QED BY <2>1, <2>2, <2>3, <2>4 DEF Items
<1>o. Order'
  <2>1. \A i, d \in DOMAIN queue' : queue'[d].op = "drop" /\ i < d =>
       i \in DOMAIN queue /\ d \in DOMAIN queue /\ queue[d].op = "drop" /\ queue'[i] = queue[i]
    BY <1>4, <1>5, <1>6, <1>12
  <2>2. \A i, d \in DOMAIN queue' : queue'[d].op = "drop" /\ i < d =>
       /\ queue'[i].op \in {"bill", "delete"}
       /\ bornIn'[queue'[i].call] < life'
       /\ \A r \in rows' : bornIn'[queue'[i].call] = bornIn'[r.call]
    BY <1>0, <2>1 DEF Order
  <2>3. \A i, d \in DOMAIN queue' : queue'[d].op = "drop" /\ i > d =>
       queue'[i].op # "drop" /\ (queue'[i].op # "stop" => bornIn'[queue'[i].call] = life')
    <3> SUFFICES ASSUME NEW i \in DOMAIN queue', NEW d \in DOMAIN queue', queue'[d].op = "drop", i > d
                 PROVE  queue'[i].op # "drop" /\ (queue'[i].op # "stop" => bornIn[queue'[i].call] = life)
      OBVIOUS
    <3>1. d \in DOMAIN queue /\ queue[d].op = "drop"
      BY <1>5, <1>12
    <3>2. CASE i \in DOMAIN queue
      BY <1>0, <1>6, <3>1, <3>2 DEF Order
    <3>3. CASE i \notin DOMAIN queue
      BY <1>1, <1>3, <1>5, <3>3
    <3> QED BY <3>2, <3>3
  <2>4. (\A d \in DOMAIN queue' : queue'[d].op # "drop") =>
       /\ \A i \in DOMAIN queue' : queue'[i].op # "stop" => bornIn'[queue'[i].call] = life'
       /\ up' => \A r \in rows' : bornIn'[r.call] = life'
    BY <1>0, <1>1, <1>3, <1>5, <1>6 DEF Order
  <2> QED BY <2>2, <2>3, <2>4 DEF Order
<1>a. Accounts'
  <2>2. \A d \in DOMAIN queue' : queue'[d].op = "drop" =>
       \A r \in rows' : bornIn'[r.call] < life' /\ \E i \in 1 .. d - 1 : At(queue', i, "delete", r.call)
    <3> SUFFICES ASSUME NEW d \in DOMAIN queue', queue'[d].op = "drop", NEW r \in rows
                 PROVE  bornIn[r.call] < life /\ \E i \in 1 .. d - 1 : At(queue', i, "delete", r.call)
      OBVIOUS
    <3>1. d \in DOMAIN queue /\ queue[d].op = "drop"
      BY <1>5, <1>12
    <3>2. bornIn[r.call] < life /\ \E i \in 1 .. d - 1 : At(queue, i, "delete", r.call)
      BY <1>0, <3>1 DEF Accounts
    <3> QED BY <1>9, <3>2
  <2>3. \A i \in DOMAIN queue' :
       queue'[i].op = "delete" /\ (queue'[i].call \notin Losers \/ bornIn'[queue'[i].call] < life') =>
         bills'[queue'[i].call] # <<>> \/ \E j \in 1 .. i - 1 : At(queue', j, "bill", queue'[i].call)
    <3> SUFFICES ASSUME NEW i \in DOMAIN queue', queue'[i].op = "delete",
                        queue'[i].call \notin Losers \/ bornIn[queue'[i].call] < life
                 PROVE  bills[queue'[i].call] # <<>> \/ \E j \in 1 .. i - 1 : At(queue', j, "bill", queue'[i].call)
      OBVIOUS
    <3>1. CASE i \in DOMAIN queue
      BY <1>0, <1>6, <1>9, <3>1 DEF Accounts
    <3>2. CASE i \notin DOMAIN queue
      <4>1. i = n + 1 /\ queue'[i] = e /\ e.op = "delete" /\ c \notin Losers /\ st[c] = "accounted"
        BY <1>1, <1>3, <1>5, <3>2
      <4>2. bills[c] # <<>> \/ \E j \in DOMAIN queue : At(queue, j, "bill", c)
        BY <1>0, <4>1 DEF Accounts
      <4>3. \A j \in DOMAIN queue : j \in 1 .. i - 1
        BY <1>4, <4>1
      <4> QED BY <1>3, <1>9, <4>1, <4>2, <4>3
    <3> QED BY <3>1, <3>2
  <2>4. \A d \in Calls \ Losers : st'[d] = "accounted" =>
       bills'[d] # <<>> \/ \E j \in DOMAIN queue' : At(queue', j, "bill", d)
    <3> SUFFICES ASSUME NEW d \in Calls \ Losers, st'[d] = "accounted"
                 PROVE  bills[d] # <<>> \/ \E j \in DOMAIN queue' : At(queue', j, "bill", d)
      OBVIOUS
    <3>1. CASE d = c
      <4>1. e.op = "bill" /\ n + 1 \in DOMAIN queue'
        BY <1>2, <1>3, <1>4, <3>1
      <4>2. At(queue', n + 1, "bill", d)
        BY <1>3, <1>4, <3>1, <4>1 DEF At
      <4> QED BY <4>1, <4>2
    <3>2. CASE d # c
      BY <1>0, <1>2, <1>6, <1>9, <3>2 DEF Accounts
    <3> QED BY <3>1, <3>2
  <2> QED BY <2>2, <2>3, <2>4 DEF Accounts
<1>s. Stopping'
  <2>1. \A d \in Calls : up' /\ st'[d] = "over" /\ bornIn'[d] = life' =>
       /\ d \in RowCalls' => \E j \in DOMAIN queue' : At(queue', j, "delete", d)
       /\ \A i \in DOMAIN queue' : At(queue', i, "replace", d) =>
            \E j \in DOMAIN queue' : i < j /\ At(queue', j, "delete", d)
    <3> SUFFICES ASSUME NEW d \in Calls, st'[d] = "over", bornIn[d] = life
                 PROVE  /\ d \in RowCalls => \E j \in DOMAIN queue' : At(queue', j, "delete", d)
                        /\ \A i \in DOMAIN queue' : At(queue', i, "replace", d) =>
                              \E j \in DOMAIN queue' : i < j /\ At(queue', j, "delete", d)
      BY <1>8
    <3>1. CASE d = c
      <4>1. e.op = "delete" /\ n + 1 \in DOMAIN queue'
        BY <1>2, <1>3, <1>4, <3>1
      <4>2. At(queue', n + 1, "delete", d)
        BY <1>3, <1>4, <3>1, <4>1 DEF At
      <4>3. \A i \in DOMAIN queue' : At(queue', i, "replace", d) => i < n + 1
        BY <1>4, <1>5, <4>1 DEF At
      <4> QED BY <4>1, <4>2, <4>3
    <3>2. CASE d # c
      <4>1. st[d] = "over"
        BY <1>2, <3>2
      <4>2. \A i : At(queue', i, "replace", d) => i \in DOMAIN queue /\ At(queue, i, "replace", d)
        BY <1>3, <1>5, <3>2 DEF At
      <4>3. /\ d \in RowCalls => \E j \in DOMAIN queue : At(queue, j, "delete", d)
            /\ \A i \in DOMAIN queue : At(queue, i, "replace", d) =>
                  \E j \in DOMAIN queue : i < j /\ At(queue, j, "delete", d)
        BY <1>0, <1>1, <4>1 DEF Stopping
      <4> QED BY <1>6, <1>9, <4>2, <4>3
    <3> QED BY <3>1, <3>2
  <2>2. \A s \in DOMAIN queue' : queue'[s].op = "stop" => closing' /\ s \in DOMAIN queue /\ queue[s].op = "stop"
    BY <1>0, <1>5, <1>12 DEF Stopping
  <2>3. \A s, i \in DOMAIN queue' : queue'[s].op = "stop" /\ i > s =>
       queue'[i].op \notin {"stop", "drop"} /\ queue'[i].call \in Proxied
    <3> SUFFICES ASSUME NEW s \in DOMAIN queue', NEW i \in DOMAIN queue', queue'[s].op = "stop", i > s
                 PROVE  queue'[i].op \notin {"stop", "drop"} /\ queue'[i].call \in Proxied
      OBVIOUS
    <3>1. closing /\ s \in DOMAIN queue /\ queue[s].op = "stop"
      BY <2>2
    <3>2. CASE i \in DOMAIN queue
      BY <1>0, <1>6, <3>1, <3>2 DEF Stopping
    <3>3. CASE i \notin DOMAIN queue
      <4>1. c \in Proxied
        BY <1>0, <1>1, <3>1 DEF Stopping
      <4> QED BY <1>3, <1>5, <3>3, <4>1
    <3> QED BY <3>2, <3>3
  <2>4. up' /\ closing' => \A d \in Calls : st'[d] # "talking" /\ (st'[d] = "accounted" => d \in Proxied)
    BY <1>0, <1>1, <1>2, <1>12 DEF Stopping
  <2> QED BY <2>1, <2>2, <2>3, <2>4 DEF Stopping
<1>c. Counts'
  <2>1. e.op = "bill" => Len(bills[c]) < Due(c) + cut[c]
    <3> SUFFICES ASSUME e.op = "bill" PROVE Len(bills[c]) < Due(c) + cut[c]
      OBVIOUS
    <3>1. Len(bills[c]) = 0
      <4>1. bills[c] = <<>>
        BY <1>0, <1>3 DEF Lives
      <4> QED BY <4>1
    <3>2. Due(c) = 1 /\ cut[c] \in Nat
      BY <1>0, <1>3 DEF Due, Types
    <3> QED BY <3>1, <3>2
  <2> QED BY <1>0, <1>1, <1>3, <1>5, <2>1 DEF Counts, Due
<1>m. Times'
  <2>1. (\A i \in DOMAIN queue : queue[i].op = "bill" => Timely(queue[i].call, queue[i].until))'
    BY <1>0, <1>1, <1>3, <1>5 DEF Times, Timely
  <2> QED BY <1>0, <1>1, <2>1 DEF Times, TimelyBill, Timely, RowCalls
<1>f. NoneForgotten'
  BY <1>0, <1>8 DEF NoneForgotten
<1> QED BY <1>t, <1>l, <1>n, <1>i, <1>o, <1>a, <1>s, <1>c, <1>m, <1>f DEF IInv

LEMMA AccountCallKeeps ==
  ASSUME IInv, NEW c \in Calls, AccountCall(c)
  PROVE  IInv'
<1>1. CASE c \notin Losers
  <2>1. /\ up /\ queue' = Append(queue, Bill(c, life)) /\ st' = [st EXCEPT ![c] = "accounted"]
        /\ st[c] = "talking"
        /\ UNCHANGED <<life, up, closing, idOf, lastId, rows, bills, stamp, bornIn, written, cut, redone, unstamped>>
    BY <1>1 DEF AccountCall, database, history
  <2> QED BY <1>1, <2>1, OwnQueryKeeps
<1>2. CASE c \in Losers
  <2> USE <1>2 DEF AccountCall, database, history
  <2>0. Types /\ Lives /\ Numbers /\ Items /\ Order /\ Accounts /\ Stopping /\ Counts /\ Times /\ NoneForgotten
    BY DEF IInv
  <2>1. \A d \in Calls : st'[d] = IF d = c THEN "accounted" ELSE st[d]
    BY <2>0 DEF Types
  <2>2. RowCalls' = RowCalls
    BY DEF RowCalls
  <2>3. Types' /\ Numbers' /\ Order'
    BY <2>0 DEF Types, Numbers, Order
  <2>4. Lives'
    BY <2>0, <2>1, <2>2 DEF Lives
  <2>5. \A i \in DOMAIN queue : queue[i] \in Queries
    BY <2>0, ElementOfSeq, LenProperties DEF Types
  <2>6. Items'
    BY <2>0, <2>1, <2>5, QueryKinds DEF Items
  <2>7. Accounts'
    BY <2>0, <2>1 DEF Accounts, At
  <2>8. c \notin Proxied /\ ~closing
    BY <2>0, CallsAssumption DEF Stopping
  <2>9. Stopping'
    BY <2>0, <2>1, <2>2, <2>8 DEF Stopping, At
  <2>10. Counts' /\ Times' /\ NoneForgotten'
    BY <2>0, <2>2 DEF Counts, Due, Times, TimelyBill, Timely, NoneForgotten
  <2> QED BY <2>3, <2>4, <2>6, <2>7, <2>9, <2>10 DEF IInv
<1> QED BY <1>1, <1>2

LEMMA SqlEndKeeps ==
  ASSUME IInv, NEW c \in Calls, SqlEnd(c)
  PROVE  IInv'
<1>1. /\ up /\ queue' = Append(queue, Delete(c, idOf[c])) /\ st' = [st EXCEPT ![c] = "over"]
      /\ st[c] = "accounted"
      /\ UNCHANGED <<life, up, closing, idOf, lastId, rows, bills, stamp, bornIn, written, cut, redone, unstamped>>
  BY DEF SqlEnd, database, history
<1> QED BY <1>1, OwnQueryKeeps

LEMMA CloseKeeps ==
  ASSUME IInv, Close
  PROVE  IInv'
<1>0. Types /\ Lives /\ Numbers /\ Items /\ Order /\ Accounts /\ Stopping /\ Counts /\ Times /\ NoneForgotten
  BY DEF IInv
<1> DEFINE n == Len(queue)
<1>1. /\ up /\ ~closing /\ closing' = TRUE
      /\ \A c \in Calls : st[c] # "talking" /\ (st[c] = "accounted" => c \in Proxied)
      /\ UNCHANGED <<life, up, st, idOf, lastId, rows, bills, stamp, bornIn, written, cut, redone, unstamped>>
  BY DEF Close, database, history
<1>2. Stop \in Queries /\ Stop.op = "stop" /\ Stop \notin CallQueries
  BY DEF Queries, Stop, CallQueries
<1>4. /\ queue' \in Seq(Queries) /\ DOMAIN queue = 1 .. n /\ n \in Nat
      /\ DOMAIN queue' = 1 .. n + 1 /\ queue'[n + 1] = Stop
      /\ \A i \in 1 .. n : queue'[i] = queue[i]
  <2>1. queue' = Append(queue, Stop)
    BY DEF Close
  <2> QED BY <1>0, <1>2, <2>1, Appended DEF Types
<1> HIDE DEF n
<1>5. \A i \in DOMAIN queue' : (i \in 1 .. n /\ i \in DOMAIN queue /\ queue'[i] = queue[i])
                               \/ (i = n + 1 /\ queue'[i] = Stop)
  BY <1>4
<1>6. \A i \in DOMAIN queue : i \in DOMAIN queue' /\ queue'[i] = queue[i] /\ i < n + 1
  BY <1>4
<1>7. \A i \in DOMAIN queue' : queue'[i].op # "stop" => i \in DOMAIN queue /\ queue'[i] = queue[i]
  BY <1>2, <1>5
<1>8. RowCalls' = RowCalls
  BY <1>1 DEF RowCalls
<1>9. \A i, op, c : At(queue, i, op, c) => At(queue', i, op, c)
  BY <1>6 DEF At
<1>10. \A i, op, c : At(queue', i, op, c) /\ op # "stop" => At(queue, i, op, c)
  BY <1>7 DEF At
<1>11. \A s \in DOMAIN queue : queue[s].op # "stop"
  BY <1>0, <1>1 DEF Stopping
<1>t. Types'
  BY <1>0, <1>1, <1>4 DEF Types
<1>l. Lives'
  BY <1>0, <1>1, <1>8 DEF Lives
<1>n. Numbers'
  BY <1>0, <1>1 DEF Numbers
<1>i. Items'
  BY <1>0, <1>1, <1>2, <1>5 DEF Items
<1>o. Order'
  <2>1. \A i, d \in DOMAIN queue' : queue'[d].op = "drop" /\ i < d =>
       i \in DOMAIN queue /\ d \in DOMAIN queue /\ queue[d].op = "drop" /\ queue'[i] = queue[i]
    BY <1>2, <1>4, <1>5, <1>6
  <2>2. \A i, d \in DOMAIN queue' : queue'[d].op = "drop" /\ i < d =>
       /\ queue'[i].op \in {"bill", "delete"}
       /\ bornIn'[queue'[i].call] < life'
       /\ \A r \in rows' : bornIn'[queue'[i].call] = bornIn'[r.call]
    BY <1>0, <1>1, <2>1 DEF Order
  <2>3. \A i, d \in DOMAIN queue' : queue'[d].op = "drop" /\ i > d =>
       queue'[i].op # "drop" /\ (queue'[i].op # "stop" => bornIn'[queue'[i].call] = life')
    BY <1>0, <1>1, <1>2, <1>5, <1>6 DEF Order
  <2>4. (\A d \in DOMAIN queue' : queue'[d].op # "drop") =>
       /\ \A i \in DOMAIN queue' : queue'[i].op # "stop" => bornIn'[queue'[i].call] = life'
       /\ up' => \A r \in rows' : bornIn'[r.call] = life'
    BY <1>0, <1>1, <1>6, <1>7 DEF Order
  <2> QED BY <2>2, <2>3, <2>4 DEF Order
<1>a. Accounts'
  <2>2. \A d \in DOMAIN queue' : queue'[d].op = "drop" =>
       \A r \in rows' : bornIn'[r.call] < life' /\ \E i \in 1 .. d - 1 : At(queue', i, "delete", r.call)
    <3> SUFFICES ASSUME NEW d \in DOMAIN queue', queue'[d].op = "drop", NEW r \in rows
                 PROVE  bornIn[r.call] < life /\ \E i \in 1 .. d - 1 : At(queue', i, "delete", r.call)
      BY <1>1
    <3>1. d \in DOMAIN queue /\ queue[d].op = "drop"
      BY <1>7
    <3>2. bornIn[r.call] < life /\ \E i \in 1 .. d - 1 : At(queue, i, "delete", r.call)
      BY <1>0, <3>1 DEF Accounts
    <3> QED BY <1>9, <3>2
  <2>3. \A i \in DOMAIN queue' :
       queue'[i].op = "delete" /\ (queue'[i].call \notin Losers \/ bornIn'[queue'[i].call] < life') =>
         bills'[queue'[i].call] # <<>> \/ \E j \in 1 .. i - 1 : At(queue', j, "bill", queue'[i].call)
    <3> SUFFICES ASSUME NEW i \in DOMAIN queue', queue'[i].op = "delete",
                        queue'[i].call \notin Losers \/ bornIn[queue'[i].call] < life
                 PROVE  bills[queue'[i].call] # <<>> \/ \E j \in 1 .. i - 1 : At(queue', j, "bill", queue'[i].call)
      BY <1>1
    <3>1. i \in DOMAIN queue /\ queue'[i] = queue[i]
      BY <1>7
    <3> QED BY <1>0, <1>9, <3>1 DEF Accounts
  <2>4. \A d \in Calls \ Losers : st'[d] = "accounted" =>
       bills'[d] # <<>> \/ \E j \in DOMAIN queue' : At(queue', j, "bill", d)
    BY <1>0, <1>1, <1>6, <1>9 DEF Accounts
  <2> QED BY <2>2, <2>3, <2>4 DEF Accounts
<1>s. Stopping'
  <2>1. \A d \in Calls : up' /\ st'[d] = "over" /\ bornIn'[d] = life' =>
       /\ d \in RowCalls' => \E j \in DOMAIN queue' : At(queue', j, "delete", d)
       /\ \A i \in DOMAIN queue' : At(queue', i, "replace", d) =>
            \E j \in DOMAIN queue' : i < j /\ At(queue', j, "delete", d)
    <3> SUFFICES ASSUME NEW d \in Calls, st[d] = "over", bornIn[d] = life
                 PROVE  /\ d \in RowCalls => \E j \in DOMAIN queue' : At(queue', j, "delete", d)
                        /\ \A i \in DOMAIN queue' : At(queue', i, "replace", d) =>
                              \E j \in DOMAIN queue' : i < j /\ At(queue', j, "delete", d)
      BY <1>1, <1>8
    <3>1. /\ d \in RowCalls => \E j \in DOMAIN queue : At(queue, j, "delete", d)
          /\ \A i \in DOMAIN queue : At(queue, i, "replace", d) =>
                \E j \in DOMAIN queue : i < j /\ At(queue, j, "delete", d)
      BY <1>0, <1>1 DEF Stopping
    <3> QED BY <1>6, <1>9, <1>10, <3>1 DEF At
  <2>2. \A s \in DOMAIN queue' : queue'[s].op = "stop" => s = n + 1
    BY <1>5, <1>11
  <2>3. \A s, i \in DOMAIN queue' : queue'[s].op = "stop" => ~(i > s)
    BY <1>4, <2>2
  <2> QED BY <1>1, <2>1, <2>3 DEF Stopping
<1>c. Counts'
  BY <1>0, <1>1, <1>2, <1>5 DEF Counts, Due
<1>m. Times'
  <2>1. (\A i \in DOMAIN queue : queue[i].op = "bill" => Timely(queue[i].call, queue[i].until))'
    BY <1>0, <1>1, <1>2, <1>5 DEF Times, Timely
  <2> QED BY <1>0, <1>1, <2>1 DEF Times, TimelyBill, Timely, RowCalls
<1>f. NoneForgotten'
  BY <1>0, <1>1, <1>8 DEF NoneForgotten
<1> QED BY <1>t, <1>l, <1>n, <1>i, <1>o, <1>a, <1>s, <1>c, <1>m, <1>f DEF IInv

\* The end of a program: the queue is gone.  What the next start finds is right if
\* every row that is left though its call is accounted is counted, and if the rows
\* that were there before this life are those of redone.
LEMMA EndsKeeps ==
  ASSUME IInv, NEW mayCut \in SUBSET Calls, up, Ends(mayCut),
         redone \subseteq redone', redone' \subseteq Calls,
         \A c \in RowCalls : c \in mayCut \/ Len(bills[c]) < Due(c),
         \A c \in RowCalls : bornIn[c] = life \/ c \in redone'
  PROVE  IInv'
<1>0. Types /\ Lives /\ Numbers /\ Items /\ Order /\ Accounts /\ Stopping /\ Counts /\ Times /\ NoneForgotten
  BY DEF IInv
<1>1. /\ up' = FALSE /\ queue' = <<>>
      /\ UNCHANGED <<life, closing, idOf, lastId, rows, bills, stamp, bornIn, written>>
  BY DEF Ends, database
<1>2. \A c \in Calls : st'[c] = IF st[c] = "idle" THEN "idle" ELSE "over"
  BY DEF Ends
<1>3. \A c \in Calls :
        cut'[c] = IF c \in mayCut \cap RowCalls /\ Len(bills[c]) >= Due(c) THEN cut[c] + 1 ELSE cut[c]
  BY DEF Ends
<1>4. RowCalls' = RowCalls /\ RowCalls \subseteq Calls
  BY <1>0, <1>1, RowCallsOf DEF RowCalls
<1>5. DOMAIN queue' = {}
  BY <1>1
<1>6. \A c \in Calls : cut[c] \in Nat /\ Len(bills[c]) \in Nat /\ Due(c) \in {0, 1}
  BY <1>0, DueType, LenProperties DEF Types
<1>7. \A c \in Calls : cut'[c] \in Nat /\ cut[c] <= cut'[c]
  BY <1>3, <1>6
<1>t. Types'
  <2>1. st' \in [Calls -> {"idle", "talking", "accounted", "over"}]
    BY <1>2 DEF Ends
  <2>2. cut' \in [Calls -> Nat]
    BY <1>7 DEF Ends
  <2>3. queue' \in Seq(Queries)
    BY <1>1, EmptySeq
  <2>4. unstamped' \subseteq Calls
    BY <1>0 DEF Ends, Types
  <2> QED BY <1>0, <1>1, <2>1, <2>2, <2>3, <2>4 DEF Types
<1>l. Lives'
  BY <1>0, <1>1, <1>2, <1>4 DEF Lives
<1>n. Numbers'
  BY <1>0, <1>1 DEF Numbers
<1>i. Items' /\ Order'
  BY <1>1, <1>5 DEF Items, Order
<1>a. Accounts' /\ Stopping'
  BY <1>1, <1>2, <1>5 DEF Accounts, Stopping
<1>c. Counts'
  <2>1. \A c \in Calls : Len(bills[c]) <= Due(c) + cut'[c]
    BY <1>0, <1>6, <1>7 DEF Counts
  <2>2. \A c \in RowCalls : Len(bills[c]) < Due(c) + cut'[c]
    <3> SUFFICES ASSUME NEW c \in RowCalls PROVE Len(bills[c]) < Due(c) + cut'[c]
      OBVIOUS
    <3>1. Len(bills[c]) <= Due(c) + cut[c] /\ c \in Calls
      BY <1>0, <1>4 DEF Counts
    <3>2. CASE Len(bills[c]) < Due(c)
      BY <1>6, <1>7, <3>1, <3>2
    <3>3. CASE ~(Len(bills[c]) < Due(c))
      <4>1. c \in mayCut /\ Len(bills[c]) >= Due(c)
        BY <1>6, <3>1, <3>3
      <4>2. cut'[c] = cut[c] + 1
        BY <1>3, <3>1, <4>1
      <4> QED BY <1>6, <3>1, <4>2
    <3> QED BY <3>2, <3>3
  <2> QED BY <1>1, <1>4, <1>5, <2>1, <2>2 DEF Counts, Due
<1>m. Times'
  <2>0. unstamped \subseteq unstamped' /\ \A c \in Calls : bornIn[c] = life /\ stamp # life => c \in unstamped'
    BY DEF Ends
  <2>1. \A c \in RowCalls : Timely(c, stamp)'
    <3> SUFFICES ASSUME NEW c \in RowCalls PROVE Timely(c, stamp)'
      OBVIOUS
    <3>1. c \in Calls /\ bornIn[c] \in 0 .. life /\ stamp \in 0 .. life /\ life \in Nat
      BY <1>0, <1>4 DEF Types
    <3>2. CASE bornIn[c] = life
      BY <1>1, <2>0, <3>1, <3>2 DEF Timely
    <3>3. CASE bornIn[c] # life
      <4>1. stamp = life /\ c \in redone'
        BY <1>0, <3>3 DEF Times
      <4> QED BY <1>1, <3>1, <3>3, <4>1 DEF Timely
    <3> QED BY <3>2, <3>3
  <2>2. TimelyBill'
    <3>1. \A c \in Calls : \A i \in DOMAIN bills[c] : Timely(c, bills[c][i])
      BY <1>0 DEF Times, TimelyBill
    <3> QED BY <1>1, <2>0, <3>1 DEF TimelyBill, Timely
  <2> QED BY <1>1, <1>4, <1>5, <2>1, <2>2 DEF Times
<1>f. NoneForgotten'
  BY <1>0, <1>1, <1>4 DEF NoneForgotten
<1> QED BY <1>t, <1>l, <1>n, <1>i, <1>a, <1>c, <1>m, <1>f DEF IInv

\* When the SQL thread meets the stop only calls of the proxy have rows, of this life.
LEMMA ExitKeeps ==
  ASSUME IInv, Exit
  PROVE  IInv'
<1>0. Types /\ Lives /\ Numbers /\ Items /\ Order /\ Accounts /\ Stopping /\ Counts /\ Times /\ NoneForgotten
  BY DEF IInv
<1>1. up /\ Ends(Proxied) /\ redone' = redone /\ 1 \in DOMAIN queue /\ queue[1].op = "stop"
  BY <1>0, Shifted DEF Exit, Types
<1>2. closing
  BY <1>0, <1>1 DEF Stopping
<1>3. \A i \in DOMAIN queue : i = 1 \/ (i > 1 /\ queue[i].op \notin {"stop", "drop"} /\ queue[i].call \in Proxied)
  <2>1. \A i \in DOMAIN queue : i = 1 \/ i > 1
    BY <1>0, LenProperties DEF Types
  <2> QED BY <1>0, <1>1, <2>1 DEF Stopping
<1>4. \A c \in RowCalls : bornIn[c] = life
  <2>1. \A i \in DOMAIN queue : queue[i].op # "drop"
    BY <1>1, <1>3
  <2>2. \A r \in rows : bornIn[r.call] = life
    BY <1>0, <1>1, <2>1 DEF Order
  <2> QED BY <2>2 DEF RowCalls
<1>5. \A c \in RowCalls : c \in Proxied
  <2> SUFFICES ASSUME NEW c \in RowCalls, c \notin Proxied PROVE FALSE
    OBVIOUS
  <2>1. c \in Calls /\ bornIn[c] = life /\ life > 0
    BY <1>0, <1>1, <1>4, RowCallsOf DEF Lives
  <2>2. st[c] # "talking" /\ st[c] # "accounted"
    BY <1>0, <1>1, <1>2, <2>1 DEF Stopping
  <2>3. st[c] # "idle"
    BY <1>0, <2>1 DEF Lives
  <2>4. st[c] = "over"
    BY <1>0, <2>1, <2>2, <2>3 DEF Types
  <2>5. \E j \in DOMAIN queue : At(queue, j, "delete", c)
    BY <1>0, <1>1, <2>1, <2>4 DEF Stopping
  <2> QED BY <1>1, <1>3, <2>5 DEF At
<1>6. Proxied \in SUBSET Calls /\ redone' \subseteq Calls
  BY <1>0, <1>1, CallsAssumption DEF Types
<1> QED BY <1>1, <1>4, <1>5, <1>6, EndsKeeps

LEMMA CrashKeeps ==
  ASSUME IInv, Crash
  PROVE  IInv'
<1>0. Types /\ Lives /\ Numbers /\ Items /\ Order /\ Accounts /\ Stopping /\ Counts /\ Times /\ NoneForgotten
  BY DEF IInv
<1>1. /\ up /\ Ends(Calls)
      /\ redone' = redone \cup
           {c \in Calls : bornIn[c] < life
              /\ \E i \in DOMAIN queue : queue[i].op \in {"bill", "delete"} /\ queue[i].call = c}
  BY DEF Crash
<1>2. redone \subseteq redone' /\ redone' \subseteq Calls
  BY <1>0, <1>1 DEF Types
<1>3. \A c \in RowCalls : c \in Calls
  BY <1>0, RowCallsOf
<1>4. \A c \in RowCalls : bornIn[c] = life \/ c \in redone'
  <2> SUFFICES ASSUME NEW c \in RowCalls, bornIn[c] # life PROVE c \in redone'
    OBVIOUS
  <2>1. PICK r \in rows : r.call = c
    BY DEF RowCalls
  <2>2. PICK d \in DOMAIN queue : queue[d].op = "drop"
    BY <1>0, <1>1, <2>1 DEF Order
  <2>3. bornIn[c] < life /\ \E i \in 1 .. d - 1 : At(queue, i, "delete", c)
    BY <1>0, <2>1, <2>2 DEF Accounts
  <2> QED BY <1>1, <1>3, <2>3 DEF At
<1> QED BY <1>1, <1>2, <1>3, <1>4, EndsKeeps

\* The query at the head of the queue is executed: what becomes of the rows, of the
\* accounts and of the calls whose row was written.
LEMMA ExecutedTables ==
  ASSUME IInv, Execute, NEW q, q = queue[1]
  PROVE  /\ q \in Queries /\ q.op \in {"replace", "bill", "delete", "drop"} /\ 1 \in DOMAIN queue
         /\ rows' \subseteq [id : Nat, call : Calls] /\ IsFiniteSet(rows')
         /\ \A r \in rows' : r \in rows \/ (q.op = "replace" /\ r.call = q.call /\ r.id = q.id)
         /\ q.op = "delete" => \A r \in rows' : r.call # q.call
         /\ q.op = "drop" => rows = {} /\ rows' = {}
         /\ \A c \in RowCalls : c \in RowCalls' \/ (q.op = "delete" /\ c = q.call)
         /\ q.op = "replace" => q.call \in RowCalls'
         /\ bills' \in [Calls -> Seq(Nat)]
         /\ \A c \in Calls :
              bills'[c] = IF q.op = "bill" /\ c = q.call THEN Append(bills[c], q.until) ELSE bills[c]
         /\ written' = IF q.op = "replace" THEN written \cup {q.call} ELSE written
<1>0. Types /\ Lives /\ Numbers /\ Items /\ Order /\ Accounts
  BY DEF IInv
<1>1. queue \in Seq(Queries) /\ queue # <<>> /\ Head(queue) = q /\ q \in Queries /\ 1 \in DOMAIN queue
      /\ DOMAIN queue = 1 .. Len(queue) /\ Len(queue) \in Nat
  BY <1>0, Shifted DEF Execute, Types
<1>2. q.op # "stop" /\ Executed(q)
  BY <1>1 DEF Execute
<1>3. q.op \in {"replace", "bill", "delete", "drop"}
  BY <1>1, <1>2, QueryKinds
<1>4. \A r \in rows : r \in [id : Nat, call : Calls]
  BY <1>0 DEF Types
<1>5. rows \subseteq [id : Nat, call : Calls] /\ IsFiniteSet(rows) /\ bills \in [Calls -> Seq(Nat)]
  BY <1>0 DEF Types
<1> DEFINE kept == {r \in rows : r.id # q.id}
<1>6. kept \subseteq rows /\ IsFiniteSet(kept)
  BY <1>5, FS_Subset
<1>7. q.op \in {"replace", "delete"} => q.call \in Calls /\ q.id \in Nat /\ q.id = idOf[q.call]
  BY <1>0, <1>1, QueryKinds DEF Items
\* A number names the row of its call only.
<1>8. q.op \in {"replace", "delete"} => \A r \in rows : r.id = q.id <=> r.call = q.call
  <2> SUFFICES ASSUME q.op \in {"replace", "delete"}, NEW r \in rows
               PROVE  r.id = q.id <=> r.call = q.call
    OBVIOUS
  <2>1. bornIn[q.call] = bornIn[r.call]
    <3>1. CASE \A d \in DOMAIN queue : queue[d].op # "drop"
      BY <1>0, <1>1, <1>2, <3>1 DEF Order, Execute
    <3>2. CASE \E d \in DOMAIN queue : queue[d].op = "drop"
      <4>1. PICK d \in DOMAIN queue : queue[d].op = "drop" /\ 1 < d
        BY <1>1, <3>2
      <4> QED BY <1>0, <1>1, <4>1 DEF Order
    <3> QED BY <3>1, <3>2
  <2>2. r.id = idOf[r.call] /\ bornIn[r.call] # 0 /\ r.call \in Calls
    BY <1>0, <1>4 DEF Numbers, Lives, RowCalls
  <2> QED BY <1>0, <1>7, <2>1, <2>2 DEF Numbers
<1>9. CASE q.op = "replace"
  <2> DEFINE new == [id |-> q.id, call |-> q.call]
  <2>1. rows' = kept \cup {new} /\ written' = written \cup {q.call} /\ bills' = bills
    BY <1>2, <1>9 DEF Executed
  <2>2. new \in [id : Nat, call : Calls] /\ new.id = q.id /\ new.call = q.call
    BY <1>7, <1>9
  <2> HIDE DEF new
  <2>3. IsFiniteSet(rows')
    BY <1>6, <2>1, FS_AddElement
  <2>4. rows' \subseteq [id : Nat, call : Calls]
    BY <1>5, <1>6, <2>1, <2>2
  <2>5. \A r \in rows' : r \in rows \/ (r.call = q.call /\ r.id = q.id)
    BY <1>6, <2>1, <2>2
  <2>6. q.call \in RowCalls'
    BY <2>1, <2>2 DEF RowCalls
  <2>7. \A r \in rows : r.call # q.call => r \in rows'
    BY <1>8, <1>9, <2>1
  <2>8. \A c \in RowCalls : c \in RowCalls'
    BY <2>6, <2>7 DEF RowCalls
  <2> QED BY <1>1, <1>3, <1>5, <1>9, <2>1, <2>3, <2>4, <2>5, <2>6, <2>8
<1>10. CASE q.op = "bill"
  <2>1. bills' = [bills EXCEPT ![q.call] = Append(@, q.until)] /\ rows' = rows /\ written' = written
    BY <1>2, <1>10 DEF Executed
  <2>2. q.call \in Calls /\ q.until \in Nat
    BY <1>1, <1>10, QueryKinds
  <2>3. Append(bills[q.call], q.until) \in Seq(Nat)
    BY <1>5, <2>2, AppendProperties
  <2>4. bills' \in [Calls -> Seq(Nat)] /\ \A c \in Calls :
          bills'[c] = IF c = q.call THEN Append(bills[c], q.until) ELSE bills[c]
    BY <1>5, <2>1, <2>2, <2>3
  <2>5. RowCalls' = RowCalls
    BY <2>1 DEF RowCalls
  <2> QED BY <1>1, <1>3, <1>5, <1>10, <2>1, <2>4, <2>5
<1>11. CASE q.op = "delete"
  <2>1. rows' = kept /\ written' = written /\ bills' = bills
    BY <1>2, <1>11 DEF Executed
  <2>2. \A r \in rows : r \in rows' <=> r.call # q.call
    BY <1>8, <1>11, <2>1
  <2>3. \A c \in RowCalls : c \in RowCalls' \/ c = q.call
    BY <2>2 DEF RowCalls
  <2> QED BY <1>1, <1>3, <1>5, <1>6, <1>11, <2>1, <2>2, <2>3
<1>12. CASE q.op = "drop"
  <2>1. rows' = {} /\ written' = written /\ bills' = bills
    BY <1>2, <1>12 DEF Executed
  <2>2. rows = {}
    <3> SUFFICES ASSUME NEW r \in rows PROVE FALSE
      OBVIOUS
    <3>1. \E i \in 1 .. 1 - 1 : At(queue, i, "delete", r.call)
      BY <1>0, <1>1, <1>12 DEF Accounts
    <3> QED BY <3>1
  <2>3. RowCalls = {}
    BY <2>2 DEF RowCalls
  <2> QED BY <1>1, <1>3, <1>5, <1>12, <2>1, <2>2, <2>3, FS_EmptySet
<1> QED BY <1>3, <1>9, <1>10, <1>11, <1>12

LEMMA ExecuteKeeps ==
  ASSUME IInv, Execute
  PROVE  IInv'
<1>0. Types /\ Lives /\ Numbers /\ Items /\ Order /\ Accounts /\ Stopping /\ Counts /\ Times /\ NoneForgotten
  BY DEF IInv
<1> DEFINE q == queue[1]
           n == Len(queue)
<1>1. /\ q \in Queries /\ q.op \in {"replace", "bill", "delete", "drop"} /\ 1 \in DOMAIN queue
      /\ rows' \subseteq [id : Nat, call : Calls] /\ IsFiniteSet(rows')
      /\ \A r \in rows' : r \in rows \/ (q.op = "replace" /\ r.call = q.call /\ r.id = q.id)
      /\ q.op = "delete" => \A r \in rows' : r.call # q.call
      /\ q.op = "drop" => rows = {} /\ rows' = {}
      /\ \A c \in RowCalls : c \in RowCalls' \/ (q.op = "delete" /\ c = q.call)
      /\ q.op = "replace" => q.call \in RowCalls'
      /\ bills' \in [Calls -> Seq(Nat)]
      /\ \A c \in Calls :
           bills'[c] = IF q.op = "bill" /\ c = q.call THEN Append(bills[c], q.until) ELSE bills[c]
      /\ written' = IF q.op = "replace" THEN written \cup {q.call} ELSE written
  BY ExecutedTables
<1>2. /\ up /\ UNCHANGED <<life, up, closing, st, idOf, lastId, stamp, bornIn, cut, redone, unstamped>>
  BY DEF Execute, history
<1>3. /\ queue' \in Seq(Queries) /\ DOMAIN queue = 1 .. n /\ n \in Nat \ {0}
      /\ DOMAIN queue' = 1 .. n - 1
      /\ \A i \in DOMAIN queue' : i + 1 \in DOMAIN queue /\ queue'[i] = queue[i + 1]
  <2>1. queue # <<>> /\ queue' = Tail(queue)
    BY DEF Execute
  <2> QED BY <1>0, <2>1, Shifted DEF Types
<1> HIDE DEF q, n
<1>4. \A i \in DOMAIN queue : queue[i] \in Queries
  BY <1>0, <1>3, ElementOfSeq DEF Types
<1>5. \A i \in DOMAIN queue : queue[i].op \in {"replace", "bill", "delete"} => queue[i].call \in Calls
  BY <1>4, QueryKinds
<1>6. \A i \in DOMAIN queue : (i = 1 /\ queue[i] = q) \/ (i > 1 /\ i - 1 \in DOMAIN queue' /\ queue'[i - 1] = queue[i])
  <2>1. \A i \in DOMAIN queue : i = 1 \/ (i > 1 /\ i - 1 \in DOMAIN queue')
    BY <1>3
  <2>2. \A i \in DOMAIN queue : i > 1 => (i - 1) + 1 = i
    BY <1>3
  <2> QED BY <1>3, <2>1, <2>2 DEF q
<1>7. \A j, op, c : At(queue, j, op, c) => (j = 1 /\ q.op = op /\ q.call = c)
                                            \/ (j > 1 /\ j - 1 \in DOMAIN queue' /\ At(queue', j - 1, op, c))
  BY <1>6 DEF At
<1>8. \A i \in DOMAIN queue' : i \in Nat /\ i >= 1 /\ 1 < i + 1
  BY <1>3
<1>9. q.op \in {"replace", "bill", "delete"} => q.call \in Calls /\ q \in CallQueries /\ q.id \in Nat /\ q.until \in Nat
  BY <1>1, QueryKinds
<1>10. /\ q.op \in {"replace", "bill", "delete"} => st[q.call] # "idle"
       /\ q.op \in {"replace", "delete"} => q.id = idOf[q.call]
       /\ q.op \in {"bill", "delete"} => st[q.call] # "talking"
  BY <1>0, <1>1, <1>9 DEF Items, q
<1>11. /\ RowCalls \subseteq Calls /\ RowCalls' \subseteq Calls
       /\ \A c \in RowCalls' : c \in RowCalls \/ (q.op = "replace" /\ c = q.call)
       /\ q.op = "delete" => q.call \notin RowCalls'
  BY <1>0, <1>1, RowCallsOf DEF RowCalls
<1>12. \A r \in rows' : r.call \in Calls
  BY <1>1
\* While a drop waits the head is an account or a delete of an earlier life's call.
<1>13. \A d \in DOMAIN queue' : queue'[d].op = "drop" =>
         /\ q.op \in {"bill", "delete"} /\ rows' \subseteq rows
         /\ d + 1 \in DOMAIN queue /\ queue[d + 1].op = "drop"
  <2> SUFFICES ASSUME NEW d \in DOMAIN queue', queue'[d].op = "drop"
               PROVE  q.op \in {"bill", "delete"} /\ d + 1 \in DOMAIN queue /\ queue[d + 1].op = "drop"
    BY <1>1
  <2>1. d + 1 \in DOMAIN queue /\ queue[d + 1].op = "drop" /\ 1 < d + 1
    BY <1>3, <1>8
  <2> QED BY <1>0, <1>1, <2>1 DEF Order, q
<1>14. (\A d \in DOMAIN queue' : queue'[d].op # "drop") =>
         /\ \A i \in DOMAIN queue' : queue'[i].op # "stop" => bornIn[queue'[i].call] = life
         /\ \A r \in rows' : bornIn[r.call] = life
  <2> SUFFICES ASSUME \A d \in DOMAIN queue' : queue'[d].op # "drop"
               PROVE  /\ \A i \in DOMAIN queue' : queue'[i].op # "stop" => bornIn[queue'[i].call] = life
                      /\ \A r \in rows' : bornIn[r.call] = life
    OBVIOUS
  <2>1. CASE q.op = "drop"
    <3>1. \A i \in DOMAIN queue' : queue'[i].op # "stop" => bornIn[queue'[i].call] = life
      <4> SUFFICES ASSUME NEW i \in DOMAIN queue', queue'[i].op # "stop"
                   PROVE  bornIn[queue'[i].call] = life
        OBVIOUS
      <4>1. i + 1 \in DOMAIN queue /\ i + 1 > 1 /\ queue'[i] = queue[i + 1]
        BY <1>3, <1>8
      <4>2. queue[1].op = "drop" /\ 1 \in DOMAIN queue
        BY <1>1, <2>1 DEF q
      <4> QED BY <1>0, <4>1, <4>2 DEF Order
    <3> QED BY <1>1, <2>1, <3>1
  <2>2. CASE q.op # "drop"
    <3>1. \A d \in DOMAIN queue : queue[d].op # "drop"
      BY <1>6, <2>2
    <3>2. /\ \A i \in DOMAIN queue : queue[i].op # "stop" => bornIn[queue[i].call] = life
          /\ \A r \in rows : bornIn[r.call] = life
      BY <1>0, <1>2, <3>1 DEF Order
    <3>3. q.op = "replace" => bornIn[q.call] = life
      BY <1>1, <3>2 DEF q
    <3> QED BY <1>1, <1>3, <3>2, <3>3
  <2> QED BY <2>1, <2>2
<1>16. \A c \in Calls : (bills[c] # <<>> \/ (q.op = "bill" /\ c = q.call)) => bills'[c] # <<>>
  <2> SUFFICES ASSUME NEW c \in Calls, bills[c] # <<>> \/ (q.op = "bill" /\ c = q.call)
               PROVE  bills'[c] # <<>>
    OBVIOUS
  <2>1. CASE q.op = "bill" /\ c = q.call
    <3>1. bills[c] \in Seq(Nat) /\ q.until \in Nat
      BY <1>0, <1>9, <2>1 DEF Types
    <3>2. Append(bills[c], q.until) # <<>>
      BY <3>1, AppendProperties
    <3> QED BY <1>1, <2>1, <3>2
  <2>2. CASE ~(q.op = "bill" /\ c = q.call)
    BY <1>1, <2>2
  <2> QED BY <2>1, <2>2
<1>t. Types'
  <2>1. written' \subseteq Calls
    BY <1>0, <1>1, <1>9 DEF Types
  <2> QED BY <1>0, <1>1, <1>2, <1>3, <2>1 DEF Types
<1>l. Lives'
  <2>1. \A c \in Calls : st[c] \in {"idle", "talking"} => bills'[c] = bills[c]
    BY <1>1, <1>10
  <2>2. \A c \in Calls : st[c] = "idle" => c \notin written' /\ c \notin RowCalls'
    <3> SUFFICES ASSUME NEW c \in Calls, st[c] = "idle"
                 PROVE  c \notin written' /\ c \notin RowCalls'
      OBVIOUS
    <3>1. c \notin written /\ c \notin RowCalls
      BY <1>0 DEF Lives
    <3>2. ~(q.op = "replace" /\ c = q.call)
      BY <1>10
    <3> QED BY <1>1, <1>11, <3>1, <3>2
  <2>3. queue' = <<>> \/ up
    BY <1>2
  <2> QED BY <1>0, <1>2, <2>1, <2>2, <2>3 DEF Lives
<1>n. Numbers'
  <2>1. \A r \in rows' : r.id = idOf[r.call]
    BY <1>0, <1>1, <1>10 DEF Numbers
  <2>2. \A r, s \in rows' : bornIn[r.call] = bornIn[s.call]
    BY <1>0, <1>13, <1>14 DEF Numbers
  <2> QED BY <1>0, <1>2, <2>1, <2>2 DEF Numbers
<1>i. Items'
  <2>1. \A i, j \in DOMAIN queue' :
       queue'[i].op = "bill" /\ queue'[j].op = "bill" /\ queue'[i].call = queue'[j].call => i = j
    <3> SUFFICES ASSUME NEW i \in DOMAIN queue', NEW j \in DOMAIN queue',
                        queue'[i].op = "bill", queue'[j].op = "bill", queue'[i].call = queue'[j].call
                 PROVE  i = j
      OBVIOUS
    <3>1. i + 1 = j + 1
      BY <1>0, <1>3 DEF Items
    <3> QED BY <1>8, <3>1
  <2> QED BY <1>0, <1>2, <1>3, <2>1 DEF Items
<1>o. Order'
  <2>1. \A i, d \in DOMAIN queue' : queue'[d].op = "drop" /\ i < d =>
       /\ queue'[i].op \in {"bill", "delete"}
       /\ bornIn[queue'[i].call] < life
       /\ \A r \in rows' : bornIn[queue'[i].call] = bornIn[r.call]
    <3> SUFFICES ASSUME NEW i \in DOMAIN queue', NEW d \in DOMAIN queue', queue'[d].op = "drop", i < d
                 PROVE  /\ queue'[i].op \in {"bill", "delete"}
                        /\ bornIn[queue'[i].call] < life
                        /\ \A r \in rows' : bornIn[queue'[i].call] = bornIn[r.call]
      OBVIOUS
    <3>1. i + 1 \in DOMAIN queue /\ d + 1 \in DOMAIN queue /\ i + 1 < d + 1 /\ queue[d + 1].op = "drop"
          /\ queue'[i] = queue[i + 1] /\ rows' \subseteq rows
      BY <1>3, <1>8, <1>13
    <3> QED BY <1>0, <3>1 DEF Order
  <2>2. \A i, d \in DOMAIN queue' : queue'[d].op = "drop" /\ i > d =>
       queue'[i].op # "drop" /\ (queue'[i].op # "stop" => bornIn[queue'[i].call] = life)
    <3> SUFFICES ASSUME NEW i \in DOMAIN queue', NEW d \in DOMAIN queue', queue'[d].op = "drop", i > d
                 PROVE  queue'[i].op # "drop" /\ (queue'[i].op # "stop" => bornIn[queue'[i].call] = life)
      OBVIOUS
    <3>1. i + 1 \in DOMAIN queue /\ d + 1 \in DOMAIN queue /\ i + 1 > d + 1 /\ queue[d + 1].op = "drop"
          /\ queue'[i] = queue[i + 1]
      BY <1>3, <1>8
    <3> QED BY <1>0, <3>1 DEF Order
  <2> QED BY <1>2, <1>14, <2>1, <2>2 DEF Order
<1>a. Accounts'
  <2>1. \A d \in DOMAIN queue' : queue'[d].op = "drop" =>
       \A r \in rows' : bornIn[r.call] < life /\ \E i \in 1 .. d - 1 : At(queue', i, "delete", r.call)
    <3> SUFFICES ASSUME NEW d \in DOMAIN queue', queue'[d].op = "drop", NEW r \in rows'
                 PROVE  bornIn[r.call] < life /\ \E i \in 1 .. d - 1 : At(queue', i, "delete", r.call)
      OBVIOUS
    <3>1. r \in rows /\ d + 1 \in DOMAIN queue /\ queue[d + 1].op = "drop"
      BY <1>13
    <3>2. bornIn[r.call] < life /\ \E i \in 1 .. (d + 1) - 1 : At(queue, i, "delete", r.call)
      BY <1>0, <3>1 DEF Accounts
    <3>3. PICK i \in 1 .. (d + 1) - 1 : At(queue, i, "delete", r.call)
      BY <3>2
    <3>4. i > 1 /\ At(queue', i - 1, "delete", r.call)
      BY <1>1, <1>7, <3>3
    <3>5. i - 1 \in 1 .. d - 1
      BY <1>8, <3>4
    <3> QED BY <3>2, <3>4, <3>5
  <2>2. \A i \in DOMAIN queue' :
       queue'[i].op = "delete" /\ (queue'[i].call \notin Losers \/ bornIn[queue'[i].call] < life) =>
         bills'[queue'[i].call] # <<>> \/ \E j \in 1 .. i - 1 : At(queue', j, "bill", queue'[i].call)
    <3> SUFFICES ASSUME NEW i \in DOMAIN queue', queue'[i].op = "delete",
                        queue'[i].call \notin Losers \/ bornIn[queue'[i].call] < life
                 PROVE  bills'[queue'[i].call] # <<>> \/ \E j \in 1 .. i - 1 : At(queue', j, "bill", queue'[i].call)
      OBVIOUS
    <3> DEFINE c == queue'[i].call
    <3>1. i + 1 \in DOMAIN queue /\ queue'[i] = queue[i + 1] /\ c \in Calls
      BY <1>3, <1>5
    <3>2. bills[c] # <<>> \/ \E j \in 1 .. (i + 1) - 1 : At(queue, j, "bill", c)
      BY <1>0, <3>1 DEF Accounts
    <3> HIDE DEF c
    <3>3. CASE bills[c] # <<>>
      BY <1>16, <3>1, <3>3 DEF c
    <3>4. CASE \E j \in 1 .. (i + 1) - 1 : At(queue, j, "bill", c)
      <4>1. PICK j \in 1 .. (i + 1) - 1 : At(queue, j, "bill", c)
        BY <3>4
      <4>2. CASE j = 1
        <5>1. q.op = "bill" /\ q.call = c
          BY <1>7, <4>1, <4>2
        <5> QED BY <1>16, <3>1, <5>1 DEF c
      <4>3. CASE j # 1
        <5>1. At(queue', j - 1, "bill", c)
          BY <1>7, <4>1, <4>3
        <5>2. j - 1 \in 1 .. i - 1
          BY <1>8, <4>1, <4>3
        <5> QED BY <5>1, <5>2 DEF c
      <4> QED BY <4>2, <4>3
    <3> QED BY <3>2, <3>3, <3>4
  <2>3. \A c \in Calls \ Losers : st[c] = "accounted" =>
       bills'[c] # <<>> \/ \E j \in DOMAIN queue' : At(queue', j, "bill", c)
    <3> SUFFICES ASSUME NEW c \in Calls \ Losers, st[c] = "accounted"
                 PROVE  bills'[c] # <<>> \/ \E j \in DOMAIN queue' : At(queue', j, "bill", c)
      OBVIOUS
    <3>1. bills[c] # <<>> \/ \E j \in DOMAIN queue : At(queue, j, "bill", c)
      BY <1>0 DEF Accounts
    <3> QED BY <1>7, <1>16, <3>1
  <2> QED BY <1>2, <2>1, <2>2, <2>3 DEF Accounts
<1>s. Stopping'
  <2>1. \A c \in Calls : st[c] = "over" /\ bornIn[c] = life =>
       /\ c \in RowCalls' => \E j \in DOMAIN queue' : At(queue', j, "delete", c)
       /\ \A i \in DOMAIN queue' : At(queue', i, "replace", c) =>
            \E j \in DOMAIN queue' : i < j /\ At(queue', j, "delete", c)
    <3> SUFFICES ASSUME NEW c \in Calls, st[c] = "over", bornIn[c] = life
                 PROVE  /\ c \in RowCalls' => \E j \in DOMAIN queue' : At(queue', j, "delete", c)
                        /\ \A i \in DOMAIN queue' : At(queue', i, "replace", c) =>
                             \E j \in DOMAIN queue' : i < j /\ At(queue', j, "delete", c)
      OBVIOUS
    <3>1. /\ c \in RowCalls => \E j \in DOMAIN queue : At(queue, j, "delete", c)
          /\ \A i \in DOMAIN queue : At(queue, i, "replace", c) =>
               \E j \in DOMAIN queue : i < j /\ At(queue, j, "delete", c)
      BY <1>0, <1>2 DEF Stopping
    <3>2. ASSUME c \in RowCalls'
          PROVE  \E j \in DOMAIN queue' : At(queue', j, "delete", c)
      <4>1. CASE c \in RowCalls
        BY <1>7, <1>11, <3>1, <3>2, <4>1
      <4>2. CASE q.op = "replace" /\ c = q.call
        <5>1. At(queue, 1, "replace", c)
          BY <1>1, <4>2 DEF At, q
        <5>2. PICK j \in DOMAIN queue : 1 < j /\ At(queue, j, "delete", c)
          BY <1>1, <3>1, <5>1
        <5> QED BY <1>7, <5>2
      <4> QED BY <1>11, <3>2, <4>1, <4>2
    <3>3. ASSUME NEW i \in DOMAIN queue', At(queue', i, "replace", c)
          PROVE  \E j \in DOMAIN queue' : i < j /\ At(queue', j, "delete", c)
      <4>1. i + 1 \in DOMAIN queue /\ At(queue, i + 1, "replace", c)
        BY <1>3, <3>3 DEF At
      <4>2. PICK j \in DOMAIN queue : i + 1 < j /\ At(queue, j, "delete", c)
        BY <3>1, <4>1
      <4>3. j - 1 \in DOMAIN queue' /\ At(queue', j - 1, "delete", c)
        BY <1>7, <1>8, <4>2
      <4>4. i < j - 1
        BY <1>3, <1>8, <4>2
      <4> QED BY <4>3, <4>4
    <3> QED BY <3>2, <3>3
  <2>2. \A s \in DOMAIN queue' : queue'[s].op = "stop" => closing
    BY <1>0, <1>3 DEF Stopping
  <2>3. \A s, i \in DOMAIN queue' : queue'[s].op = "stop" /\ i > s =>
       queue'[i].op \notin {"stop", "drop"} /\ queue'[i].call \in Proxied
    <3> SUFFICES ASSUME NEW s \in DOMAIN queue', NEW i \in DOMAIN queue', queue'[s].op = "stop", i > s
                 PROVE  queue'[i].op \notin {"stop", "drop"} /\ queue'[i].call \in Proxied
      OBVIOUS
    <3>1. i + 1 \in DOMAIN queue /\ s + 1 \in DOMAIN queue /\ i + 1 > s + 1 /\ queue[s + 1].op = "stop"
          /\ queue'[i] = queue[i + 1]
      BY <1>3, <1>8
    <3> QED BY <1>0, <3>1 DEF Stopping
  <2>4. up /\ closing => \A d \in Calls : st[d] # "talking" /\ (st[d] = "accounted" => d \in Proxied)
    BY <1>0 DEF Stopping
  <2> QED BY <1>2, <2>1, <2>2, <2>3, <2>4 DEF Stopping
\* The account executed leaves no other waiting for its call.
<1>15. q.op = "bill" => \A i \in DOMAIN queue' : queue'[i].op = "bill" => queue'[i].call # q.call
  <2> SUFFICES ASSUME q.op = "bill", NEW i \in DOMAIN queue', queue'[i].op = "bill", queue'[i].call = q.call
               PROVE  FALSE
    OBVIOUS
  <2>1. i + 1 = 1
    BY <1>0, <1>1, <1>3 DEF Items, q
  <2> QED BY <1>8, <2>1
<1>c. Counts'
  <2>1. q.op = "bill" => Len(bills[q.call]) < Due(q.call) + cut[q.call]
    BY <1>0, <1>1 DEF Counts, q
  <2>2. \A c \in Calls : Len(bills[c]) \in Nat /\ cut[c] \in Nat /\ Due(c) \in {0, 1}
    BY <1>0, DueType, LenProperties DEF Types
  <2>3. q.op = "bill" => Len(Append(bills[q.call], q.until)) = Len(bills[q.call]) + 1
    BY <1>0, <1>9, AppendProperties DEF Types
  <2>4. \A c \in Calls : Len(bills'[c]) <= Due(c) + cut[c]
    <3> SUFFICES ASSUME NEW c \in Calls PROVE Len(bills'[c]) <= Due(c) + cut[c]
      OBVIOUS
    <3>1. CASE q.op = "bill" /\ c = q.call
      <4>1. Len(bills'[c]) = Len(bills[c]) + 1
        BY <1>1, <2>3, <3>1
      <4> QED BY <2>1, <2>2, <3>1, <4>1
    <3>2. CASE ~(q.op = "bill" /\ c = q.call)
      BY <1>0, <1>1, <3>2 DEF Counts
    <3> QED BY <3>1, <3>2
  <2>5. \A i \in DOMAIN queue' : queue'[i].op = "bill" => 
          Len(bills'[queue'[i].call]) < Due(queue'[i].call) + cut[queue'[i].call]
    <3> SUFFICES ASSUME NEW i \in DOMAIN queue', queue'[i].op = "bill"
                 PROVE  Len(bills'[queue'[i].call]) < Due(queue'[i].call) + cut[queue'[i].call]
      OBVIOUS
    <3>1. i + 1 \in DOMAIN queue /\ queue'[i] = queue[i + 1] /\ queue'[i].call \in Calls
      BY <1>3, <1>5
    <3>2. bills'[queue'[i].call] = bills[queue'[i].call]
      BY <1>1, <1>15, <3>1
    <3> QED BY <1>0, <3>1, <3>2 DEF Counts
  <2> QED BY <1>2, <2>4, <2>5 DEF Counts, Due
<1>m. Times'
  <2>1. q.op = "bill" => Timely(q.call, q.until)
    BY <1>0, <1>1 DEF Times, q
  <2>2. TimelyBill'
    <3> SUFFICES ASSUME NEW c \in Calls, NEW i \in DOMAIN bills'[c]
                 PROVE  Timely(c, bills'[c][i])
      BY <1>2 DEF TimelyBill, Timely
    <3>1. CASE q.op = "bill" /\ c = q.call
      <4>1. bills'[c] = Append(bills[c], q.until) /\ bills[c] \in Seq(Nat) /\ q.until \in Nat
        BY <1>0, <1>1, <1>9, <3>1 DEF Types
      <4>2. i \in DOMAIN bills[c] \/ bills'[c][i] = q.until
        BY <4>1
      <4>3. i \in DOMAIN bills[c] => bills'[c][i] = bills[c][i]
        BY <4>1
      <4> QED BY <1>0, <2>1, <3>1, <4>2, <4>3 DEF Times, TimelyBill
    <3>2. CASE ~(q.op = "bill" /\ c = q.call)
      BY <1>0, <1>1, <3>2 DEF Times, TimelyBill
    <3> QED BY <3>1, <3>2
  <2>3. \A i \in DOMAIN queue' : queue'[i].op = "bill" => Timely(queue'[i].call, queue'[i].until)
    BY <1>0, <1>3 DEF Times
  <2>4. q.op = "replace" => bornIn[q.call] = life
    <3> SUFFICES ASSUME q.op = "replace" PROVE bornIn[q.call] = life
      OBVIOUS
    <3>1. \A d \in DOMAIN queue : d = 1 \/ 1 < d
      BY <1>3
    <3>2. \A d \in DOMAIN queue : queue[d].op # "drop"
      BY <1>0, <1>1, <3>1 DEF Order, q
    <3> QED BY <1>0, <1>1, <3>2 DEF Order, q
  <2>5. \A c \in RowCalls' : bornIn[c] = life \/ stamp = life
    <3> SUFFICES ASSUME NEW r \in rows' PROVE bornIn[r.call] = life \/ stamp = life
      BY DEF RowCalls
    <3>1. CASE r \in rows
      BY <1>0, <1>2, <3>1 DEF Times, RowCalls
    <3>2. CASE r \notin rows
      BY <1>1, <2>4, <3>2
    <3> QED BY <3>1, <3>2
  <2> QED BY <1>2, <2>2, <2>3, <2>5 DEF Times, Timely
<1>f. NoneForgotten'
  <2> SUFFICES ASSUME NEW c \in written' \ Losers
               PROVE  bills'[c] # <<>> \/ c \in RowCalls'
    BY DEF NoneForgotten
  <2>1. c \in Calls
    BY <1>t DEF Types
  <2>2. CASE q.op = "replace" /\ c = q.call
    BY <1>1, <2>2
  <2>3. CASE ~(q.op = "replace" /\ c = q.call)
    <3>1. c \in written \ Losers
      BY <1>1, <2>3
    <3>2. CASE bills[c] # <<>>
      BY <1>16, <2>1, <3>2
    <3>3. CASE bills[c] = <<>>
      <4>1. c \in RowCalls
        BY <1>0, <3>1, <3>3 DEF NoneForgotten
      <4>2. ~(q.op = "delete" /\ c = q.call)
        <5> SUFFICES ASSUME q.op = "delete", c = q.call PROVE FALSE
          OBVIOUS
        <5>1. bills[c] # <<>> \/ \E j \in 1 .. 1 - 1 : At(queue, j, "bill", c)
          BY <1>0, <1>1, <3>1 DEF Accounts, q
        <5> QED BY <3>3, <5>1
      <4> QED BY <1>1, <4>1, <4>2
    <3> QED BY <3>2, <3>3
  <2> QED BY <2>2, <2>3
<1> QED BY <1>t, <1>l, <1>n, <1>i, <1>o, <1>a, <1>s, <1>c, <1>m, <1>f DEF IInv

LEMMA IInvUnchanged ==
  ASSUME IInv, UNCHANGED vars
  PROVE  IInv'
BY DEF IInv, vars, Types, Lives, Numbers, Items, Order, Accounts, Stopping, Counts, Times,
       TimelyBill, Timely, NoneForgotten, RowCalls, At, Due

LEMMA IInvNext ==
  ASSUME IInv, [Next]_vars
  PROVE  IInv'
<1>1. CASE Start     BY <1>1, StartKeeps
<1>2. CASE StampTime BY <1>2, StampTimeKeeps
<1>3. CASE Execute   BY <1>3, ExecuteKeeps
<1>4. CASE Close     BY <1>4, CloseKeeps
<1>5. CASE Exit      BY <1>5, ExitKeeps
<1>6. CASE Crash     BY <1>6, CrashKeeps
<1>7. ASSUME NEW c \in Calls, SqlConnect(c) \/ AccountCall(c) \/ SqlEnd(c)
      PROVE  IInv'
  BY <1>7, SqlConnectKeeps, AccountCallKeeps, SqlEndKeeps
<1>8. CASE UNCHANGED vars BY <1>8, IInvUnchanged
<1> QED BY <1>1, <1>2, <1>3, <1>4, <1>5, <1>6, <1>7, <1>8 DEF Next

LEMMA IInvAlways == Spec => []IInv
  BY IInvInit, IInvNext, PTL DEF Spec

-----------------------------------------------------------------------------
(* Theorems *)

\* Every variable keeps its type, a number has one row, and the SQL thread is
\* stopped once (SQLOutThread::Close).
THEOREM Typed == Spec => []TypeOK
<1>1. IInv => TypeOK
  <2> SUFFICES ASSUME IInv PROVE TypeOK
    OBVIOUS
  <2>0. Types /\ Lives /\ Numbers /\ Stopping
    BY DEF IInv
  <2>1. \A r \in rows : r.call \in Calls /\ \A s \in rows : r.id = s.id => r = s
    BY <2>0, OneRow, RowCallsOf
  <2>2. DOMAIN queue = 1 .. Len(queue) /\ Len(queue) \in Nat /\ \A i \in DOMAIN queue : queue[i] \in Queries
    BY <2>0, ElementOfSeq, LenProperties DEF Types
  <2>3. \A i \in DOMAIN queue : queue[i].op \in {"replace", "bill", "delete", "drop", "stop"}
    BY <2>2, QueryKinds
  <2>4. \A i \in DOMAIN queue, j \in DOMAIN queue :
          queue[i].op = "stop" /\ queue[j].op = "stop" => i = j
    <3>1. \A i \in DOMAIN queue, j \in DOMAIN queue : i = j \/ i > j \/ j > i
      BY <2>2
    <3> QED BY <2>0, <3>1 DEF Stopping
  <2> QED BY <2>0, <2>1, <2>3, <2>4 DEF TypeOK, Types
<1> QED BY <1>1, IInvAlways, PTL

\* However the program ends and starts again, a call is accounted once, and a fork
\* that lost not at all, but for the ends between its account and its delete
\* (accountCall, sqlEnd, checkCrashedActiveCalls).
THEOREM AccountedOnce == Spec => []BilledOnce
<1>1. IInv => BilledOnce
  BY DEF IInv, Counts, BilledOnce
<1> QED BY <1>1, IInvAlways, PTL

\* A call whose row was written is accounted, or its row is there for the next
\* start, in spite of numbers given again and of the table dropped (sqlout's
\* constructor).
THEOREM RowsSurvive == Spec => []NoneForgotten
<1>1. IInv => NoneForgotten
  BY DEF IInv
<1> QED BY <1>1, IInvAlways, PTL

\* The time the program was down is not charged, unless a crash came before the
\* accounts of an earlier start were executed (checkCrashedActiveCalls, reloadConf).
THEOREM DownTimeIsFree == Spec => []TimelyBill
<1>1. IInv => TimelyBill
  BY DEF IInv, Times
<1> QED BY <1>1, IInvAlways, PTL

=============================================================================
