----------------------------- MODULE RasAnswers -----------------------------
(***************************************************************************)
(* The answers of H.323 gatekeepers to the requests of the client threads. *)
(* A thread takes the RAS mutex, sends its request with the next sequence  *)
(* number, puts an answer object on its stack into the map of its kind and *)
(* waits three seconds; the RAS thread finds the object by the number of   *)
(* the answer that came, fills it and signals.  Answers may be lost, late, *)
(* repeated or out of order.                                               *)
(***************************************************************************)
EXTENDS Naturals

CONSTANTS
  Gks,      \* the gatekeepers, one client thread for each
  SeqMod    \* the sequence number wraps here; 2 ^ 16 in the code

VARIABLES
  seq,        \* getSeqNum's counter, shared by all threads
  answers,    \* rrqAnswers and grqAnswers: for a number, whose stack it points to
  doing,      \* "idle", "rrq" or "grq": what a client thread waits for
  id,         \* the number of its request
  reply,      \* the answer object of its request
  tries,      \* the requests of each kind it has sent for this registration
  registered,
  refused     \* the numbers a request was refused for: "id already in map"

vars == <<seq, answers, doing, id, reply, tries, registered, refused>>

Kinds == {"rrq", "grq"}
Ids == 0 .. SeqMod - 1
Replies == {"none", "confirmed", "rejected", "discover"}

Init ==
  /\ seq = 0 /\ answers = [k \in Kinds |-> [n \in {} |-> CHOOSE g \in Gks : TRUE]]
  /\ doing = [g \in Gks |-> "idle"] /\ id = [g \in Gks |-> 0]
  /\ reply = [g \in Gks |-> "none"]
  /\ tries = [g \in Gks |-> [k \in Kinds |-> 0]]
  /\ registered = [g \in Gks |-> FALSE] /\ refused = {}

\* sendRRQ or sendGRQ, and the wait.  The mutex is held from before the request is
\* sent until the thread waits, so that no answer comes between.  A number that is
\* in the map already is not waited for.
Ask(g, k, sent) ==
  LET n == (seq + 1) % SeqMod
  IN /\ seq' = n
     /\ id' = [id EXCEPT ![g] = n]
     /\ reply' = [reply EXCEPT ![g] = "none"]
     /\ tries' = [tries EXCEPT ![g] = [sent EXCEPT ![k] = @ + 1]]
     /\ doing' = [doing EXCEPT ![g] = k]
     /\ IF n \in DOMAIN answers[k]
        THEN refused' = refused \cup {<<k, n>>} /\ UNCHANGED answers
        ELSE /\ answers' = [answers EXCEPT ![k] =
                             [m \in DOMAIN @ \cup {n} |-> IF m = n THEN g ELSE @[m]]]
             /\ UNCHANGED refused
     /\ UNCHANGED registered

\* tryToRegister, when the registration is due.
Register(g) ==
  /\ doing[g] = "idle"
  /\ Ask(g, "rrq", [k \in Kinds |-> 0])

\* confirmRrq, rejectRrq, confirmGrq, rejectGrq: the RAS thread writes to the object
\* the map points to.  When its thread has left that wait, the object is the one of
\* the thread's next wait of this kind, at the same place of the stack, or nothing
\* known.
Answered(k, n, r) ==
  /\ n \in DOMAIN answers[k]
  /\ LET g == answers[k][n]
     IN /\ doing[g] = k
        /\ reply' = [reply EXCEPT ![g] = r]
  /\ UNCHANGED <<seq, answers, doing, id, tries, registered, refused>>

\* The wait is over, by an answer or by its time.  The scope guard that should erase
\* the number holds a copy of the map, bound by value, and erases it there.
Left(g) ==
  /\ doing' = [doing EXCEPT ![g] = "idle"]
  /\ UNCHANGED <<seq, answers, id, reply, tries, refused>>

\* The end of tryToRegister: the endpoint identifier came, or an RCF is read from
\* the thread's own socket, or the registration failed.
Registered(g) ==
  /\ doing[g] = "rrq" /\ (reply[g] = "discover" => tries[g]["rrq"] = 2)
  /\ registered' \in {[registered EXCEPT ![g] = b] :
                        b \in IF reply[g] = "confirmed" THEN {TRUE} ELSE BOOLEAN}
  /\ Left(g)

\* The gatekeeper wants to be discovered first; then the RRQ is sent once more.
Discover(g) ==
  /\ doing[g] = "rrq" /\ reply[g] = "discover" /\ tries[g]["rrq"] < 2
  /\ Ask(g, "grq", tries[g])

\* discover: a gatekeeper that rejects and names another one is asked once more.
DiscoverAgain(g) ==
  /\ doing[g] = "grq" /\ reply[g] = "rejected" /\ tries[g]["grq"] < 2
  /\ Ask(g, "grq", tries[g])

RegisterAgain(g) ==
  /\ doing[g] = "grq" /\ reply[g] = "confirmed"
  /\ Ask(g, "rrq", tries[g])

DiscoveryFails(g) ==
  /\ doing[g] = "grq" /\ reply[g] \in {"none", "rejected"}
  /\ registered' \in {[registered EXCEPT ![g] = b] : b \in BOOLEAN}
  /\ Left(g)

\* gotURQ
GotURQ(g) ==
  /\ registered[g]
  /\ registered' = [registered EXCEPT ![g] = FALSE]
  /\ UNCHANGED <<seq, answers, doing, id, reply, tries, refused>>

Next ==
  \/ \E g \in Gks :
       \/ Register(g) \/ Registered(g) \/ Discover(g) \/ DiscoverAgain(g)
       \/ RegisterAgain(g) \/ DiscoveryFails(g) \/ GotURQ(g)
  \/ \E n \in Ids, r \in {"confirmed", "rejected", "discover"} : Answered("rrq", n, r)
  \/ \E n \in Ids, r \in {"confirmed", "rejected"} : Answered("grq", n, r)

Spec == Init /\ [][Next]_vars

\* A number that is in the map is an error the code reports, "rrq id already in map"
\* and "grq id already in map": with more numbers than threads it never happens.
NeverRefused == refused = {}

=============================================================================
