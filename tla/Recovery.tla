------------------------------ MODULE Recovery ------------------------------
(***************************************************************************)
(* The table of active calls, the thread that writes it, and the start     *)
(* after a crash.  A call that connects writes a row with its prices; when *)
(* it is over it is accounted (radacctSS) and its row is deleted.  All of  *)
(* that goes through the queue of the SQL thread, which a crash loses.  A  *)
(* start accounts the calls whose rows are still there, up to the time     *)
(* stamp the configuration thread writes now and then, and drops the table.*)
(* The database itself survives and answers; time is counted in starts of  *)
(* the program ("lives").                                                  *)
(***************************************************************************)
EXTENDS Naturals, SequencesExt

CONSTANTS
  Calls,     \* calls that connect
  Proxied,   \* those of the H.323 proxy, which release their slot before the delete
  Losers,    \* forks that connected beside another fork, and are not accounted
  MaxLives   \* bound: how often the program is started

ASSUME CallsAssumption == Proxied \subseteq Calls /\ Losers \subseteq Calls \ Proxied
ASSUME MaxLivesAssumption == MaxLives \in Nat

VARIABLES
  life,      \* which start of the program this is
  up,        \* it runs
  closing,   \* Close was asked of the SQL thread
  st,        \* "idle", "talking", "accounted" or "over" for each call
  idOf,      \* the number of a call, and of its row
  lastId,    \* the last number given; a start begins again
  queue,     \* the queries not executed yet
  rows,      \* database: ActiveCalls
  bills,     \* database: radacctSS, by call the lives its accounts end in
  stamp,     \* database: the life timeStamp_ was last written in, 0 for none
  bornIn,    \* history: the life a call connected in
  written,   \* history: the calls whose row was written
  cut,       \* history: how often a life ended between a call's account and its delete
  redone,    \* history: calls whose account by a start a crash came before
  unstamped  \* history: calls of a life that ended before its first time stamp

database == <<rows, bills>>
history == <<bornIn, cut, redone, unstamped>>
vars == <<life, up, closing, st, idOf, lastId, queue, rows, bills, stamp, bornIn,
          written, cut, redone, unstamped>>

Replace(c, id) == [op |-> "replace", call |-> c, id |-> id, until |-> 0]
Bill(c, until) == [op |-> "bill", call |-> c, id |-> 0, until |-> until]
Delete(c, id) == [op |-> "delete", call |-> c, id |-> id, until |-> 0]
Drop == [op |-> "drop"]
Stop == [op |-> "stop"]

Init ==
  /\ life = 0 /\ up = FALSE /\ closing = FALSE
  /\ st = [c \in Calls |-> "idle"]
  /\ idOf = [c \in Calls |-> 0] /\ lastId = 0
  /\ queue = <<>> /\ rows = {} /\ bills = [c \in Calls |-> <<>>] /\ stamp = 0
  /\ bornIn = [c \in Calls |-> 0]
  /\ written = {} /\ cut = [c \in Calls |-> 0] /\ redone = {} /\ unstamped = {}

Due(c) == IF c \in Losers THEN 0 ELSE 1
RowCalls == {r.call : r \in rows}

\* Mutant of Recovered: the accounts end with the life that has just begun.
RecoveredLate(until) ==
  LET rowsInOrder == SetToSeq(rows)
      row(i) == rowsInOrder[(i + 1) \div 2]
  IN [i \in 1 .. 2 * Len(rowsInOrder) |->
       IF i % 2 = 1 THEN Bill(row(i).call, life + 1) ELSE Delete(row(i).call, row(i).id)]

\* checkCrashedActiveCalls: an account and a delete for every row.
Recovered(until) ==
  LET rowsInOrder == SetToSeq(rows)
      row(i) == rowsInOrder[(i + 1) \div 2]
  IN [i \in 1 .. 2 * Len(rowsInOrder) |->
       IF i % 2 = 1 THEN Bill(row(i).call, until) ELSE Delete(row(i).call, row(i).id)]

\* A start: the stamp of the last life is read, the rows of its calls are put into
\* the queue, and behind them the table is dropped and made anew.  The stamp is
\* written at once when it was missing, and with every row.
Start ==
  /\ ~up /\ life < MaxLives
  /\ life' = life + 1 /\ up' = TRUE /\ closing' = FALSE /\ lastId' = 0
  /\ queue' = (IF stamp = 0 THEN <<>> ELSE Recovered(stamp)) \o <<Drop>>
  /\ stamp' = IF stamp = 0 \/ rows # {} THEN life + 1 ELSE stamp
  /\ UNCHANGED <<st, idOf, database, written, history>>

\* reloadConf, every ten seconds: the time stamp.
StampTime ==
  /\ up /\ stamp # life
  /\ stamp' = life
  /\ UNCHANGED <<life, up, closing, st, idOf, lastId, queue, database, written, history>>

\* connected: the row of the call, with its prices.
SqlConnect(c) ==
  /\ up /\ ~closing /\ st[c] = "idle"
  /\ st' = [st EXCEPT ![c] = "talking"]
  /\ lastId' = lastId + 1 /\ idOf' = [idOf EXCEPT ![c] = lastId + 1]
  /\ bornIn' = [bornIn EXCEPT ![c] = life]
  /\ queue' = Append(queue, Replace(c, lastId + 1))
  /\ UNCHANGED <<life, up, closing, database, stamp, written, cut, redone, unstamped>>

\* Mutant of AccountCall: the row is deleted before the call is accounted.
AccountCallAfterDelete(c) ==
  /\ up /\ st[c] = "talking"
  /\ st' = [st EXCEPT ![c] = "accounted"]
  /\ queue' = Append(queue, Delete(c, idOf[c]))
              \o (IF c \in Losers THEN <<>> ELSE <<Bill(c, life)>>)
  /\ UNCHANGED <<life, up, closing, idOf, lastId, database, stamp, written, history>>

\* accountCall, before sqlEnd; a fork that lost is accounted as an attempt only.
AccountCall(c) ==
  /\ up /\ st[c] = "talking"
  /\ st' = [st EXCEPT ![c] = "accounted"]
  /\ queue' = IF c \in Losers THEN queue ELSE Append(queue, Bill(c, life))
  /\ UNCHANGED <<life, up, closing, idOf, lastId, database, stamp, written, history>>

\* Mutant of SqlEnd: the row is left to the next start.
SqlEndForgetting(c) ==
  /\ up /\ st[c] = "accounted"
  /\ st' = [st EXCEPT ![c] = "over"]
  /\ UNCHANGED <<queue, life, up, closing, idOf, lastId, database, stamp, written, history>>

\* sqlEnd
SqlEnd(c) ==
  /\ up /\ st[c] = "accounted"
  /\ st' = [st EXCEPT ![c] = "over"]
  /\ queue' = Append(queue, Delete(c, idOf[c]))
  /\ UNCHANGED <<life, up, closing, idOf, lastId, database, stamp, written, history>>

\* The SQL thread executes a query that changes the tables of calls.
Executed(q) ==
  CASE q.op = "replace" ->
         /\ rows' = {r \in rows : r.id # q.id} \cup {[id |-> q.id, call |-> q.call]}
         /\ written' = written \cup {q.call} /\ UNCHANGED bills
    [] q.op = "bill" ->
         /\ bills' = [bills EXCEPT ![q.call] = Append(@, q.until)]
         /\ UNCHANGED <<rows, written>>
    [] q.op = "delete" ->
         /\ rows' = {r \in rows : r.id # q.id} /\ UNCHANGED <<bills, written>>
    [] q.op = "drop" -> rows' = {} /\ UNCHANGED <<bills, written>>

Execute ==
  /\ up /\ queue # <<>> /\ Head(queue).op # "stop"
  /\ Executed(Head(queue))
  /\ queue' = Tail(queue)
  /\ UNCHANGED <<life, up, closing, st, idOf, lastId, stamp, history>>

\* Mutant of Close: it may be asked again.
CloseAgain ==
  /\ up
  /\ \A c \in Calls : st[c] # "talking" /\ (st[c] = "accounted" => c \in Proxied)
  /\ closing' = TRUE /\ queue' = Append(queue, Stop)
  /\ UNCHANGED <<life, up, st, idOf, lastId, database, stamp, written, history>>

\* Close, once no call holds a slot any more (waitForSignallingChannels).  A call
\* of the H.323 proxy gives its slot back between accountCall and sqlEnd.
Close ==
  /\ up /\ ~closing
  /\ \A c \in Calls : st[c] # "talking" /\ (st[c] = "accounted" => c \in Proxied)
  /\ closing' = TRUE /\ queue' = Append(queue, Stop)
  /\ UNCHANGED <<life, up, st, idOf, lastId, database, stamp, written, history>>

\* The end of the program: what is not in the database is gone.  A row that stays
\* though its call is accounted already is one the next start accounts again.
Ends(mayCut) ==
  /\ up' = FALSE /\ queue' = <<>>
  /\ st' = [c \in Calls |-> IF st[c] = "idle" THEN "idle" ELSE "over"]
  /\ cut' = [c \in Calls |->
       IF c \in mayCut \cap RowCalls /\ Len(bills[c]) >= Due(c) THEN cut[c] + 1 ELSE cut[c]]
  /\ unstamped' = unstamped \cup {c \in Calls : bornIn[c] = life /\ stamp # life}
  /\ UNCHANGED <<life, closing, idOf, lastId, database, stamp, bornIn, written>>

\* The SQL thread meets the empty query of Close and ends, and the program with it.
Exit ==
  /\ up /\ queue # <<>> /\ Head(queue).op = "stop"
  /\ Ends(Proxied)
  /\ UNCHANGED redone

Crash ==
  /\ up
  /\ Ends(Calls)
  /\ redone' = redone \cup
       {c \in Calls : bornIn[c] < life
          /\ \E i \in DOMAIN queue : queue[i].op \in {"bill", "delete"} /\ queue[i].call = c}

Next ==
  \/ Start \/ StampTime \/ Execute \/ Close \/ Exit \/ Crash
  \/ \E c \in Calls : SqlConnect(c) \/ AccountCall(c) \/ SqlEnd(c)

Spec == Init /\ [][Next]_vars

-----------------------------------------------------------------------------
(* Properties *)

\* Every variable keeps its type; a number has one row, and the SQL thread is
\* stopped once.
TypeOK ==
  /\ life \in 0 .. MaxLives /\ stamp \in 0 .. life
  /\ up \in BOOLEAN /\ closing \in BOOLEAN
  /\ st \in [Calls -> {"idle", "talking", "accounted", "over"}]
  /\ \A r \in rows : r.call \in Calls /\ \A s \in rows : r.id = s.id => r = s
  /\ \A i \in DOMAIN queue : queue[i].op \in {"replace", "bill", "delete", "drop", "stop"}
  /\ \A i \in DOMAIN queue, j \in DOMAIN queue :
       queue[i].op = "stop" /\ queue[j].op = "stop" => i = j
  /\ written \subseteq Calls /\ redone \subseteq Calls /\ unstamped \subseteq Calls

\* A call is accounted once, a fork that lost not at all (accountCall,
\* checkCrashedActiveCalls), but for a program that ends between the account and
\* the delete of the row: by a crash, or by a stop that a call of the H.323 proxy
\* gave its slot back for too early.  A fork that lost has no account to wait for:
\* any crash that finds its row is such an end, and the next start bills it.
BilledOnce == \A c \in Calls : Len(bills[c]) <= Due(c) + cut[c]

\* A call whose row was written is never lost: it is accounted, or its row is there
\* for the next start, whatever crashes come and although numbers are given again
\* and the table is dropped (sqlout's constructor).
NoneForgotten == \A c \in written \ Losers : bills[c] # <<>> \/ c \in RowCalls

\* An account ends in the life its call talked in, so the time the program was down
\* is not charged, with two exceptions: the accounts a crash came before, made
\* again by a later start, and the calls of a life that ended before the
\* configuration thread wrote its first time stamp (ConfThread::Main sleeps first),
\* which the start accounts until an earlier life, before they began.
Timely(c, until) ==
  \/ until = bornIn[c]
  \/ until > bornIn[c] /\ c \in redone
  \/ until < bornIn[c] /\ c \in unstamped
TimelyBill == \A c \in Calls : \A i \in DOMAIN bills[c] : Timely(c, bills[c][i])

=============================================================================
