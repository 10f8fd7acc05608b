--------------------------- MODULE SipServerProofs ---------------------------
(***************************************************************************)
(* Theorems about SipServer, for any number of calls that the packets of   *)
(* one INVITE may open.                                                    *)
(***************************************************************************)
EXTENDS SipServer, FiniteSetTheorems, TLAPS

-----------------------------------------------------------------------------
(* The inductive invariant.                                                *)

LegType == [st : {"none", "running", "gone"}, oked : BOOLEAN, detached : BOOLEAN,
            queue : Seq(Messages)]
States == {"none", "trying", "ringing", "completed", "refused", "early", "confirmed",
           "terminated"}
Requests == {"bye", "cancel", "hold", "info", "ack", "early", "refused"}

\* At most one.
DialogType(D) == D = {} \/ \E d \in Dialogs : D = {d}

Types ==
  /\ trans \in States
  /\ DialogType(dialog) /\ DialogType(unlocked)
  /\ leg \in [Legs -> LegType]
  /\ heard \subseteq Requests
  /\ sent \subseteq {"tag", "ringing", "ok", "final", "bye"}
  /\ failed \in BOOLEAN /\ old \in BOOLEAN
  /\ down \in {"no", "answer", "cancel", "hold", "bye", "gone"}

HasDisconnect(q) == \E i \in DOMAIN q : q[i] = "disconnect"

\* A leg that hears its peer and was not told of the end of the dialog.
Waits(l) == Hears(l) /\ ~HasDisconnect(leg[l].queue)

\* The handler of the dialog waits; a transaction that was answered has none; and
\* a BYE without the mutex has found the handler that is still there.
Attached ==
  /\ \A l \in Legs : leg[l].st = "none" => ~leg[l].detached /\ leg[l].queue = <<>>
  /\ \A d \in dialog :
       /\ d.confirmed => d.leg # NoLeg
       /\ d.leg # NoLeg => leg[d.leg].st # "none"
       /\ d.leg # NoLeg => Waits(d.leg) \/ down = "answer" \/ Overlooked
       /\ d.leg # NoLeg /\ Answered => "refused" \in heard
       /\ unlocked # {} /\ d.leg # NoLeg => \E u \in unlocked : u.leg = d.leg
  /\ unlocked # {} => "bye" \in heard
  /\ trans = "early" => "early" \in heard

\* Before the first call there is nothing but INVITEs that were refused.
Fresh ==
  leg[1].st = "none" =>
    /\ \A l \in Legs : leg[l].st = "none"
    /\ ~Unanswered /\ trans # "completed"
    /\ dialog = {} /\ unlocked = {} /\ sent = {} /\ heard = {} /\ ~failed

\* While the INVITE has opened one call only, its leg hears of the end of the dialog,
Reachable ==
  Hears(1) => (\E d \in dialog : d.leg = 1) \/ HasDisconnect(leg[1].queue) \/ failed

\* its transaction is over with the 200 and has its dialog before,
InStep ==
  /\ Unanswered \/ trans = "completed" => "ok" \notin sent
  /\ "early" \in heard => ~Proceeding /\ "ok" \notin sent
  /\ Proceeding =>
       /\ \A d \in dialog : d.leg # NoLeg /\ ~d.ok /\ (d.confirmed => "ack" \in heard)
       /\ dialog = {} => {"bye", "ack"} \cap heard # {}
  /\ Hears(1) /\ ~leg[1].oked /\ {"early", "info"} \cap heard = {} =>
       Proceeding \/ dialog = {}

\* and the dialog of the 200 stays until a BYE, unless a refusal hides it.
Ended ==
  "ok" \in sent =>
    /\ trans = "none" \/ dialog = {}
    /\ "bye" \in sent \/ "bye" \in heard \/ \E d \in dialog : d.ok \/ d.confirmed
    /\ down # "answer"

IInv ==
  /\ Types /\ Attached /\ Fresh /\ StaysUp
  /\ ~Again => Reachable /\ InStep /\ ("refused" \notin heard => Ended)

-----------------------------------------------------------------------------
(* Legs and queues.                                                        *)

LEMMA OneLeg == 1 \in Legs /\ NoLeg \notin Legs
BY MaxLegsAssumption DEF Legs

\* What a queue holds of the end of the dialog.
LEMMA QueueAppend ==
  ASSUME NEW q \in Seq(Messages), NEW m \in Messages
  PROVE  /\ Append(q, m) \in Seq(Messages)
         /\ HasDisconnect(Append(q, m)) <=> HasDisconnect(q) \/ m = "disconnect"
<1>1. /\ Append(q, m) \in Seq(Messages) /\ Len(Append(q, m)) = Len(q) + 1
      /\ \A i \in 1 .. Len(q) : Append(q, m)[i] = q[i]
      /\ Append(q, m)[Len(q) + 1] = m
      /\ DOMAIN q = 1 .. Len(q) /\ DOMAIN Append(q, m) = 1 .. Len(q) + 1
      /\ Len(q) \in Nat
  OBVIOUS
<1>2. ASSUME HasDisconnect(Append(q, m)) PROVE HasDisconnect(q) \/ m = "disconnect"
  BY <1>1, <1>2 DEF HasDisconnect
<1>3. ASSUME HasDisconnect(q) \/ m = "disconnect" PROVE HasDisconnect(Append(q, m))
  BY <1>1, <1>3 DEF HasDisconnect
<1> QED BY <1>1, <1>2, <1>3

LEMMA QueueTail ==
  ASSUME NEW q \in Seq(Messages), q # <<>>
  PROVE  /\ Tail(q) \in Seq(Messages)
         /\ HasDisconnect(Tail(q)) => HasDisconnect(q)
         /\ Head(q) # "disconnect" /\ HasDisconnect(q) => HasDisconnect(Tail(q))
<1>1. /\ Tail(q) \in Seq(Messages) /\ Len(Tail(q)) = Len(q) - 1
      /\ \A i \in 1 .. Len(q) - 1 : Tail(q)[i] = q[i + 1]
      /\ DOMAIN q = 1 .. Len(q) /\ DOMAIN Tail(q) = 1 .. Len(q) - 1
      /\ Len(q) \in Nat /\ Head(q) = q[1]
  OBVIOUS
<1>2. ASSUME HasDisconnect(Tail(q)) PROVE HasDisconnect(q)
  BY <1>1, <1>2 DEF HasDisconnect
<1>3. ASSUME Head(q) # "disconnect", HasDisconnect(q) PROVE HasDisconnect(Tail(q))
  <2>1. PICK i \in 1 .. Len(q) : q[i] = "disconnect"
    BY <1>1, <1>3 DEF HasDisconnect
  <2>2. i - 1 \in 1 .. Len(q) - 1 /\ Tail(q)[i - 1] = "disconnect"
    BY <1>1, <1>3, <2>1
  <2> QED BY <1>1, <2>2 DEF HasDisconnect
<1> QED BY <1>1, <1>2, <1>3

LEMMA QueueEmpty == <<>> \in Seq(Messages) /\ ~HasDisconnect(<<>>)
BY DEF HasDisconnect

\* A queue whose first message is the end of the dialog holds it.
LEMMA QueueHead ==
  ASSUME NEW q \in Seq(Messages), q # <<>>, Head(q) = "disconnect"
  PROVE  HasDisconnect(q)
<1>1. 1 \in DOMAIN q /\ q[1] = "disconnect"
  OBVIOUS
<1> QED BY <1>1 DEF HasDisconnect

\* putMessage: the legs stay as they are, and those of S that hear it have the message.
LEMMA PutLegs ==
  ASSUME Types, NEW lg \in [Legs -> LegType], NEW S, NEW m \in Messages,
         \A l \in Legs : lg[l].st = leg[l].st /\ lg[l].detached = leg[l].detached
  PROVE  /\ Put(lg, S, m) \in [Legs -> LegType]
         /\ \A l \in Legs :
              /\ Put(lg, S, m)[l].st = lg[l].st
              /\ Put(lg, S, m)[l].detached = lg[l].detached
              /\ Put(lg, S, m)[l].oked = lg[l].oked
              /\ ~(l \in S /\ Hears(l)) => Put(lg, S, m)[l] = lg[l]
              /\ HasDisconnect(Put(lg, S, m)[l].queue) <=>
                   HasDisconnect(lg[l].queue) \/ (l \in S /\ Hears(l) /\ m = "disconnect")
<1>1. ASSUME NEW l \in Legs
      PROVE  /\ lg[l] \in LegType /\ lg[l].queue \in Seq(Messages)
             /\ Append(lg[l].queue, m) \in Seq(Messages)
             /\ HasDisconnect(Append(lg[l].queue, m)) <=>
                  HasDisconnect(lg[l].queue) \/ m = "disconnect"
  <2>1. lg[l] \in LegType /\ lg[l].queue \in Seq(Messages)
    BY DEF LegType
  <2> QED BY <2>1, QueueAppend
<1>2. ASSUME NEW l \in Legs
      PROVE  /\ Put(lg, S, m)[l] \in LegType
             /\ Put(lg, S, m)[l].st = lg[l].st
             /\ Put(lg, S, m)[l].detached = lg[l].detached
             /\ Put(lg, S, m)[l].oked = lg[l].oked
             /\ l \in S /\ Hears(l) => Put(lg, S, m)[l].queue = Append(lg[l].queue, m)
             /\ ~(l \in S /\ Hears(l)) => Put(lg, S, m)[l] = lg[l]
  BY <1>1 DEF Put, LegType
<1>3. Put(lg, S, m) \in [Legs -> LegType]
  BY <1>2 DEF Put
<1> QED BY <1>1, <1>2, <1>3

\* A leg that has taken a message from its queue.
LEMMA TakenLegs ==
  ASSUME Types, NEW l \in Legs, leg[l].queue # <<>>, Head(leg[l].queue) # "disconnect"
  PROVE  /\ Taken(l) \in [Legs -> LegType]
         /\ \A k \in Legs \ {l} : Taken(l)[k] = leg[k]
         /\ Taken(l)[l].st = leg[l].st
         /\ Taken(l)[l].detached = leg[l].detached
         /\ Taken(l)[l].oked = leg[l].oked
         /\ HasDisconnect(Taken(l)[l].queue) <=> HasDisconnect(leg[l].queue)
<1>1. leg[l] \in LegType /\ leg[l].queue \in Seq(Messages) /\ leg \in [Legs -> LegType]
  BY DEF Types, LegType
<1>2. Tail(leg[l].queue) \in Seq(Messages)
  BY <1>1, QueueTail
<1>3. /\ Taken(l)[l] \in LegType
      /\ Taken(l)[l].st = leg[l].st
      /\ Taken(l)[l].detached = leg[l].detached
      /\ Taken(l)[l].oked = leg[l].oked
      /\ Taken(l)[l].queue = Tail(leg[l].queue)
  BY <1>1, <1>2 DEF Taken, LegType
<1>4. /\ Taken(l) \in [Legs -> LegType]
      /\ \A k \in Legs \ {l} : Taken(l)[k] = leg[k]
  <2>1. \A k \in Legs \ {l} : Taken(l)[k] = leg[k]
    BY <1>1 DEF Taken
  <2>2. Taken(l) = [k \in Legs |-> Taken(l)[k]]
    BY <1>1 DEF Taken
  <2> QED BY <1>1, <1>3, <2>1, <2>2
<1> QED BY <1>1, <1>3, <1>4, QueueTail

\* A leg that has detached from the call, or has gone.
LEMMA DetachedLegs ==
  ASSUME Types, NEW l \in Legs,
         \/ leg' = Detached(l) /\ Running(l)
         \/ leg' = [leg EXCEPT ![l] = [NewLeg EXCEPT !.st = "gone", !.detached = TRUE]]
  PROVE  /\ leg' \in [Legs -> LegType]
         /\ leg'[l].st # "none" /\ leg'[l].detached
         /\ \A k \in Legs \ {l} : leg'[k] = leg[k]
<1>1. /\ leg'[l] \in LegType /\ leg'[l].st # "none" /\ leg'[l].detached
      /\ \A k \in Legs \ {l} : leg'[k] = leg[k]
  <2>1. leg \in [Legs -> LegType] /\ leg[l] \in LegType /\ <<>> \in Seq(Messages)
    BY QueueEmpty DEF Types
  <2>2. CASE leg' = Detached(l) /\ Running(l)
    BY <2>1, <2>2 DEF LegType, Detached, Running
  <2>3. CASE leg' = [leg EXCEPT ![l] = [NewLeg EXCEPT !.st = "gone", !.detached = TRUE]]
    BY <2>1, <2>3 DEF LegType, NewLeg
  <2> QED BY <2>2, <2>3
<1>2. leg' = [k \in Legs |-> leg'[k]]
  BY DEF Types, Detached
<1> QED BY <1>1, <1>2 DEF Types

\* While the INVITE has opened one call, only its leg runs.
LEMMA OnlyTheFirst ==
  ASSUME ~Again
  PROVE  \A l \in Legs : leg[l].st # "none" => l = 1
BY MaxLegsAssumption DEF Again, Legs

\* A call that was opened stays opened.
LEMMA AgainStays ==
  ASSUME \A l \in Legs : leg[l].st # "none" => leg'[l].st # "none"
  PROVE  ~Again' => ~Again
BY DEF Again

\* A dialog, its handler, and who is told of its end.
LEMMA TheOne ==
  ASSUME Types
  PROVE  \/ dialog = {} /\ Handlers = {}
         \/ \E d \in Dialogs : dialog = {d} /\ TheDialog = d /\ Handlers = {d.leg} \ {NoLeg}
BY DEF Types, DialogType, Handlers, TheDialog

\* The handler of a dialog is a deleted leg only when the dialog was overlooked.
LEMMA DownsAre ==
  ASSUME IInv, down = "no"
  PROVE  \A x \in Downs : x = "no" \/ (x = "gone" /\ Overlooked)
<1>1. CASE dialog = {}
  BY <1>1 DEF Downs, Handlers
<1>2. ASSUME NEW d \in Dialogs, dialog = {d}, Handlers = {d.leg} \ {NoLeg}
      PROVE  \A x \in Downs : x = "no" \/ (x = "gone" /\ Overlooked)
  BY <1>2 DEF Downs, IInv, Attached, Waits, Hears
<1> QED BY <1>1, <1>2, TheOne DEF IInv

-----------------------------------------------------------------------------
(* The transport thread.                                                   *)

LEMMA NewCallKeeps == ASSUME IInv, NewCall PROVE IInv'
<1> USE OneLeg
<1>1. PICK l \in Legs :
        /\ leg[l].st = "none" /\ \A k \in Legs : k < l => leg[k].st # "none"
        /\ leg' = [leg EXCEPT ![l].st = "running"]
        /\ trans' = "trying"
        /\ dialog' = IF dialog = {} THEN {[leg |-> l, confirmed |-> FALSE, ok |-> FALSE]}
                     ELSE dialog
  BY DEF NewCall
<1>2. /\ trans = "none" /\ ~old /\ down = "no" /\ unlocked = {}
      /\ UNCHANGED <<sent, unlocked, heard, failed, old, down>>
  BY DEF NewCall, TransportRuns, history
<1>3. /\ leg' \in [Legs -> LegType] /\ leg'[l].st = "running"
      /\ leg'[l].queue = leg[l].queue /\ leg'[l].detached = leg[l].detached
      /\ \A k \in Legs \ {l} : leg'[k] = leg[k]
  BY <1>1 DEF IInv, Types, LegType
<1>4. DialogType(dialog')
  BY <1>1 DEF IInv, Types, DialogType, Dialogs
<1>5. Types'
  BY <1>1, <1>2, <1>3, <1>4 DEF IInv, Types, DialogType, States
<1>6. Fresh'
  <2>1. l = 1 \/ leg[1].st # "none"
    BY <1>1, MaxLegsAssumption DEF Legs
  <2> QED BY <1>3, <2>1 DEF Fresh
<1>7. Attached'
  <2>1. leg[l].queue = <<>> /\ ~leg[l].detached
    BY <1>1 DEF IInv, Attached
  <2>2. \A k \in Legs : leg'[k].st = "none" => ~leg'[k].detached /\ leg'[k].queue = <<>>
    BY <1>3 DEF IInv, Attached
  <2>3. Waits(l)'
    BY <1>3, <2>1, QueueEmpty DEF Waits, Hears, Running
  <2>4. CASE dialog = {}
    BY <1>1, <1>2, <1>3, <2>2, <2>3, <2>4 DEF Attached, Answered
  <2>5. ASSUME NEW d \in Dialogs, dialog = {d} PROVE Attached'
    <3>1. dialog' = {d} /\ d.leg # l
      BY <1>1, <2>5 DEF IInv, Attached
    <3>2. d.leg # NoLeg => d.leg \in Legs /\ leg'[d.leg] = leg[d.leg]
      BY <1>3, <3>1 DEF Dialogs
    <3> QED BY <1>1, <1>2, <2>2, <2>5, <3>1, <3>2
        DEF IInv, Attached, Answered, Waits, Hears, Running, Overlooked
  <2> QED BY <2>4, <2>5 DEF IInv, Types, DialogType
<1>8. ASSUME ~Again' PROVE Reachable' /\ InStep' /\ Ended'
  <2>2. l = 1
    BY <1>3, <1>8, MaxLegsAssumption DEF Again, Legs
  <2>3. dialog = {} /\ sent = {} /\ heard = {} /\ ~failed
    BY <1>1, <2>2 DEF IInv, Fresh
  <2>4. dialog' = {[leg |-> 1, confirmed |-> FALSE, ok |-> FALSE]}
    BY <1>1, <2>2, <2>3
  <2>5. \A d \in dialog' : d.leg = 1 /\ ~d.confirmed /\ ~d.ok
    BY <2>4
  <2>6. Reachable' /\ Ended'
    BY <1>2, <2>3, <2>4 DEF Reachable, Ended
  <2>7. InStep'
    BY <1>1, <1>2, <2>3, <2>4, <2>5 DEF InStep, Unanswered, Proceeding
  <2> QED BY <2>6, <2>7
<1> QED BY <1>2, <1>5, <1>6, <1>7, <1>8 DEF IInv, StaysUp

\* What an action that leaves the legs and the process alone has to keep.
LEMMA InviteRefusedKeeps == ASSUME IInv, InviteRefused PROVE IInv'
<1> USE OneLeg
<1>1. /\ trans = "none" /\ down = "no" /\ unlocked = {}
      /\ UNCHANGED <<dialog, unlocked, leg, sent, failed, old, down>>
  BY DEF InviteRefused, TransportRuns
<1>2. CASE UNCHANGED <<trans, heard>>
  BY <1>1, <1>2 DEF IInv, Types, DialogType, Attached, Fresh, StaysUp, Again, Reachable,
     InStep, Ended, Overlooked, Waits, Hears, Running, Answered, Unanswered, Proceeding
<1>3. CASE /\ trans' = "refused"
           /\ heard' = IF dialog = {} THEN heard ELSE heard \cup {"refused"}
  <2>1. Types' /\ Fresh'
    BY <1>1, <1>3 DEF IInv, Types, DialogType, States, Requests, Fresh, Unanswered, Proceeding
  <2>2. Attached'
    BY <1>1, <1>3 DEF IInv, Attached, Overlooked, Waits, Hears, Running, Answered
  <2>3. ASSUME ~Again' PROVE Reachable' /\ InStep' /\ ("refused" \notin heard' => Ended')
    BY <1>1, <1>3, <2>3 DEF IInv, Again, Reachable, InStep, Ended, Hears, Running,
       Unanswered, Proceeding
  <2> QED BY <1>1, <2>1, <2>2, <2>3 DEF IInv, StaysUp
<1> QED BY <1>2, <1>3 DEF InviteRefused

\* The handler of the dialog is told something: the legs stay as they are, and a
\* leg that hears its dialog's end has it in its queue.
LEMMA ToldLegs ==
  ASSUME Types, NEW lg \in [Legs -> LegType], NEW m \in Messages, leg' = Told(lg, m),
         \A l \in Legs : lg[l].st = leg[l].st /\ lg[l].detached = leg[l].detached
  PROVE  /\ leg' \in [Legs -> LegType]
         /\ \A l \in Legs :
              /\ leg'[l].st = leg[l].st
              /\ leg'[l].detached = leg[l].detached
              /\ leg'[l].oked = lg[l].oked
              /\ ~Hears(l) => leg'[l] = lg[l]
              /\ HasDisconnect(leg'[l].queue) <=>
                   HasDisconnect(lg[l].queue) \/ (l \in Handlers /\ Hears(l) /\ m = "disconnect")
BY PutLegs DEF Told

\* The end of the dialog, told to its handler.
LEMMA TransportErrorKeeps ==
  ASSUME IInv, TransportError, down = "no", unlocked = {},
         trans \in {"trying", "ringing", "completed"}, trans' \in {"none", "terminated"},
         UNCHANGED <<unlocked, sent, heard, failed, old>>
  PROVE  IInv'
<1> USE OneLeg
<1>1. leg' = Told(leg, "disconnect") /\ dialog' = {}
  BY DEF TransportError
<1>2. leg \in [Legs -> LegType] /\ "disconnect" \in Messages
  BY DEF IInv, Types, Messages
<1>3. /\ leg' \in [Legs -> LegType]
      /\ \A l \in Legs :
           /\ leg'[l].st = leg[l].st
           /\ leg'[l].detached = leg[l].detached
           /\ ~Hears(l) => leg'[l] = leg[l]
           /\ HasDisconnect(leg'[l].queue) <=>
                HasDisconnect(leg[l].queue) \/ (l \in Handlers /\ Hears(l))
  BY <1>1, <1>2, ToldLegs DEF IInv
<1>4. down' = "no" \/ (down' = "gone" /\ Overlooked)
  BY DownsAre DEF TransportError
<1>5. Types' /\ StaysUp'
  BY <1>1, <1>3, <1>4 DEF IInv, Types, DialogType, States, StaysUp, Overlooked
<1>6. Attached'
  BY <1>1, <1>3 DEF IInv, Attached, Hears, Running
<1>7. Fresh'
  BY <1>1, <1>3 DEF IInv, Fresh, Unanswered, Proceeding
<1>8. ASSUME ~Again' PROVE Reachable' /\ InStep' /\ Ended'
  <2>1. ~Again
    BY <1>3, <1>8, AgainStays
  <2>2. Reachable'
    BY <1>3, <2>1, TheOne DEF IInv, Reachable, Hears, Running, Handlers
  <2>3. "ok" \notin sent
    BY <2>1 DEF IInv, InStep, Unanswered, Proceeding
  <2> QED BY <1>1, <2>2, <2>3 DEF InStep, Ended, Unanswered, Proceeding
<1> QED BY <1>5, <1>6, <1>7, <1>8 DEF IInv

LEMMA InviteAgainKeeps == ASSUME IInv, InviteAgain PROVE IInv'
<1> USE OneLeg
<1>1. /\ down = "no" /\ unlocked = {} /\ trans \notin {"none", "terminated"}
      /\ UNCHANGED <<unlocked, sent, heard, failed, old>>
  BY DEF InviteAgain, TransportRuns
<1>2. CASE UNCHANGED <<trans, dialog, leg, down>>
  BY <1>1, <1>2 DEF IInv, Types, DialogType, Attached, Fresh, StaysUp, Again, Reachable,
     InStep, Ended, Overlooked, Waits, Hears, Running, Answered, Unanswered, Proceeding
<1>3. CASE trans \notin {"early", "confirmed", "refused"} /\ trans' = "terminated"
           /\ TransportError
  BY <1>1, <1>3, TransportErrorKeeps DEF IInv, Types, States
<1>4. CASE trans = "refused" /\ trans' = "terminated" /\ UNCHANGED <<dialog, leg, down>>
  <2>1. Types' /\ Fresh' /\ StaysUp'
    BY <1>1, <1>4 DEF IInv, Types, DialogType, States, Fresh, StaysUp, Unanswered, Proceeding
  <2>2. Attached'
    BY <1>1, <1>4 DEF IInv, Attached, Overlooked, Waits, Hears, Running, Answered
  <2>3. ASSUME ~Again' PROVE Reachable' /\ InStep' /\ ("refused" \notin heard' => Ended')
    BY <1>1, <1>4, <2>3 DEF IInv, Again, Reachable, InStep, Ended, Hears, Running,
       Unanswered, Proceeding
  <2> QED BY <2>1, <2>2, <2>3 DEF IInv
<1> QED BY <1>2, <1>3, <1>4 DEF InviteAgain

LEMMA ResendFailsKeeps == ASSUME IInv, ResendFails PROVE IInv'
<1> USE OneLeg
<1>1. /\ trans \in {"ringing", "completed", "refused"} /\ trans' = "none"
      /\ down = "no" /\ unlocked = {}
      /\ UNCHANGED <<unlocked, sent, heard, failed, old>>
  BY DEF ResendFails, TransportRuns
<1>2. CASE trans = "ringing"
  BY <1>1, <1>2, TransportErrorKeeps DEF ResendFails
<1>3. CASE trans # "ringing"
  <2>1. UNCHANGED <<leg, dialog, down>>
    BY <1>3 DEF ResendFails
  <2>2. Types' /\ Fresh' /\ StaysUp'
    BY <1>1, <2>1 DEF IInv, Types, DialogType, States, Fresh, StaysUp, Unanswered, Proceeding
  <2>3. Attached'
    BY <1>1, <2>1 DEF IInv, Attached, Overlooked, Waits, Hears, Running, Answered
  <2>4. ASSUME ~Again' PROVE Reachable' /\ InStep' /\ ("refused" \notin heard' => Ended')
    BY <1>1, <1>3, <2>1, <2>4 DEF IInv, Again, Reachable, InStep, Ended, Hears, Running,
       Unanswered, Proceeding
  <2> QED BY <2>2, <2>3, <2>4 DEF IInv
<1> QED BY <1>2, <1>3

LEMMA RefusalOverKeeps == ASSUME IInv, RefusalOver PROVE IInv'
<1> USE OneLeg
<1>1. /\ Answered \/ trans = "early"
      /\ trans' = "none" /\ old' = (old \/ Answered) /\ down = "no" /\ unlocked = {}
      /\ UNCHANGED <<dialog, unlocked, leg, sent, heard, failed, down>>
  BY DEF RefusalOver, TransportRuns
<1>2. Types' /\ Fresh' /\ StaysUp'
  BY <1>1 DEF IInv, Types, DialogType, States, Fresh, StaysUp, Unanswered, Proceeding, Answered
<1>3. Attached'
  BY <1>1 DEF IInv, Attached, Overlooked, Waits, Hears, Running, Answered
<1>4. ASSUME ~Again' PROVE Reachable' /\ InStep' /\ ("refused" \notin heard' => Ended')
  BY <1>1, <1>4 DEF IInv, Attached, Again, Reachable, InStep, Ended, Hears, Running,
     Unanswered, Proceeding, Answered
<1> QED BY <1>2, <1>3, <1>4 DEF IInv

\* The dialog is dropped, its leg is not told.
LEMMA OkResendFailsKeeps == ASSUME IInv, OkResendFails PROVE IInv'
<1> USE OneLeg
<1>1. /\ \E d \in dialog : d.ok
      /\ dialog' = {} /\ sent' = sent \cup {"bye"} /\ failed' = TRUE /\ down = "no"
      /\ UNCHANGED <<trans, unlocked, leg, heard, old, down>>
  BY DEF OkResendFails, TransportRuns
<1>2. Types' /\ Fresh' /\ StaysUp'
  BY <1>1 DEF IInv, Types, DialogType, Fresh, StaysUp
<1>3. Attached'
  BY <1>1 DEF IInv, Attached, Answered
<1>4. ASSUME ~Again' PROVE Reachable' /\ InStep' /\ ("refused" \notin heard' => Ended')
  BY <1>1, <1>4 DEF IInv, Again, Reachable, InStep, Ended, Hears, Running,
     Unanswered, Proceeding
<1> QED BY <1>2, <1>3, <1>4 DEF IInv

LEMMA AckOfBranchKeeps == ASSUME IInv, AckOfBranch PROVE IInv'
<1> USE OneLeg
<1>1. /\ \/ trans \in {"completed", "refused"} /\ trans' = "confirmed" /\ UNCHANGED heard
         \/ Proceeding /\ trans' = "early" /\ heard' = heard \cup {"early"}
      /\ down = "no" /\ unlocked = {}
      /\ UNCHANGED <<dialog, unlocked, leg, sent, failed, old, down>>
  BY DEF AckOfBranch, TransportRuns
<1>2. Types' /\ StaysUp'
  BY <1>1 DEF IInv, Types, DialogType, States, Requests, StaysUp
<1>3. Fresh'
  BY <1>1 DEF IInv, Fresh, Unanswered, Proceeding
<1>4. Attached'
  BY <1>1 DEF IInv, Attached, Overlooked, Waits, Hears, Running, Answered
<1>5. ASSUME ~Again' PROVE Reachable' /\ InStep' /\ ("refused" \notin heard' => Ended')
  <2>1. ~Again
    BY <1>1, <1>5 DEF Again
  <2> QED BY <1>1, <2>1 DEF IInv, Reachable, InStep, Ended, Hears, Running,
     Unanswered, Proceeding
<1> QED BY <1>2, <1>3, <1>4, <1>5 DEF IInv

\* The ACK ends a dialog whose leg has left, or confirms it.
LEMMA AckReceivedKeeps == ASSUME IInv, AckReceived PROVE IInv'
<1> USE OneLeg
<1>1. /\ dialog # {} /\ down = "no" /\ unlocked = {}
      /\ heard' = IF Proceeding THEN heard \cup {"ack"} ELSE heard
      /\ UNCHANGED <<trans, unlocked, leg, failed, old, down>>
  BY DEF AckReceived, TransportRuns, TagKnown
<1>2. PICK d \in Dialogs : dialog = {d} /\ TheDialog = d
  BY <1>1, TheOne DEF IInv
<1>3. leg[1].st # "none"
  BY <1>1 DEF IInv, Fresh
<1>4. CASE d.leg = NoLeg
  <2>1. dialog' = {} /\ sent' = sent \cup {"bye"}
    BY <1>2, <1>4 DEF AckReceived
  <2>2. Types' /\ Fresh' /\ StaysUp'
    BY <1>1, <1>3, <2>1 DEF IInv, Types, DialogType, Requests, Fresh, StaysUp
  <2>3. Attached'
    BY <1>1, <2>1 DEF IInv, Attached
  <2>4. ASSUME ~Again' PROVE Reachable' /\ InStep' /\ ("refused" \notin heard' => Ended')
    <3>1. ~Again
      BY <1>1, <2>4 DEF Again
    <3>2. Reachable'
      BY <1>1, <1>2, <1>4, <2>1, <3>1 DEF IInv, Reachable, Hears, Running
    <3> QED BY <1>1, <1>2, <2>1, <3>1, <3>2 DEF IInv, InStep, Ended, Hears, Running,
       Unanswered, Proceeding
  <2> QED BY <2>2, <2>3, <2>4 DEF IInv
<1>5. CASE d.leg # NoLeg
  <2> DEFINE e == [d EXCEPT !.confirmed = TRUE, !.ok = FALSE]
  <2>1. dialog' = {e} /\ sent' = sent
    BY <1>2, <1>5 DEF AckReceived
  <2>2. e \in Dialogs /\ e.leg = d.leg /\ e.confirmed /\ ~e.ok
    BY DEF Dialogs
  <2> HIDE DEF e
  <2>3. Types' /\ Fresh' /\ StaysUp'
    BY <1>1, <1>3, <2>1, <2>2 DEF IInv, Types, DialogType, Requests, Fresh, StaysUp
  <2>4. Attached'
    BY <1>1, <1>2, <1>5, <2>1, <2>2 DEF IInv, Attached, Overlooked, Waits, Hears, Running, Answered
  <2>5. ASSUME ~Again' PROVE Reachable' /\ InStep' /\ ("refused" \notin heard' => Ended')
    <3>1. ~Again
      BY <1>1, <2>5 DEF Again
    <3>2. Reachable'
      BY <1>1, <1>2, <2>1, <2>2, <3>1 DEF IInv, Reachable, Hears, Running
    <3>3. "refused" \notin heard' => Ended'
      BY <1>1, <1>2, <2>1, <2>2, <3>1 DEF IInv, Ended
    <3>4. InStep'
      BY <1>1, <1>2, <1>5, <2>1, <2>2, <3>1 DEF IInv, InStep, Hears, Running,
         Unanswered, Proceeding
    <3> QED BY <3>2, <3>3, <3>4
  <2> QED BY <2>3, <2>4, <2>5 DEF IInv
<1> QED BY <1>4, <1>5

\* The end of the dialog by the peer, with the mutex and without it.
LEMMA ByesKeep ==
  ASSUME IInv, down = "no", dialog' = {}, "bye" \in heard', heard \subseteq heard',
         heard' \subseteq Requests, \A h \in {"early", "info", "refused"} : h \in heard' => h \in heard,
         unlocked' = {}, leg' \in [Legs -> LegType],
         \A l \in Legs : /\ leg'[l].st = leg[l].st /\ leg'[l].detached = leg[l].detached
                         /\ leg'[l].oked = leg[l].oked
                         /\ ~Hears(l) => leg'[l] = leg[l],
         leg[1].st # "none",
         Hears(1) /\ HasDisconnect(leg[1].queue) => HasDisconnect(leg'[1].queue),
         Hears(1) /\ (\E d \in dialog : d.leg = 1) => HasDisconnect(leg'[1].queue),
         down' \in {"no", "bye"} \/ (down' = "gone" /\ Overlooked),
         UNCHANGED <<trans, sent, failed, old>>
  PROVE  IInv'
<1> USE OneLeg
<1>1. Types' /\ StaysUp'
  BY DEF IInv, Types, DialogType, StaysUp, Overlooked
<1>2. Attached'
  BY DEF IInv, Attached, Hears, Running
<1>3. Fresh'
  BY DEF Fresh
<1>4. ASSUME ~Again' PROVE Reachable' /\ InStep' /\ ("refused" \notin heard' => Ended')
  <2>1. ~Again
    BY <1>4, AgainStays
  <2>2. Reachable'
    BY <2>1 DEF IInv, Reachable, Hears, Running
  <2>3. InStep'
    BY <2>1 DEF IInv, InStep, Unanswered, Proceeding
  <2>4. Ended'
    BY DEF Ended
  <2> QED BY <2>2, <2>3, <2>4
<1> QED BY <1>1, <1>2, <1>3, <1>4 DEF IInv

LEMMA ByeReceivedKeeps == ASSUME IInv, ByeReceived PROVE IInv'
<1> USE OneLeg
<1>1. /\ dialog # {} /\ down = "no" /\ unlocked = {}
      /\ heard' = heard \cup {"bye"} /\ dialog' = {} /\ leg' = Told(leg, "disconnect")
      /\ down' \in Downs
      /\ UNCHANGED <<trans, unlocked, sent, failed, old>>
  BY DEF ByeReceived, TransportRuns, TagKnown
<1>2. leg \in [Legs -> LegType] /\ "disconnect" \in Messages
  BY DEF IInv, Types, Messages
<1>3. /\ leg' \in [Legs -> LegType]
      /\ \A l \in Legs :
           /\ leg'[l].st = leg[l].st
           /\ leg'[l].detached = leg[l].detached /\ leg'[l].oked = leg[l].oked
           /\ ~Hears(l) => leg'[l] = leg[l]
           /\ HasDisconnect(leg'[l].queue) <=>
                HasDisconnect(leg[l].queue) \/ (l \in Handlers /\ Hears(l))
  BY <1>1, <1>2, ToldLegs DEF IInv
<1>4. down' = "no" \/ (down' = "gone" /\ Overlooked)
  BY <1>1, DownsAre
<1>5. leg[1].st # "none"
  BY <1>1 DEF IInv, Fresh
<1>6. (\E d \in dialog : d.leg = 1) => 1 \in Handlers
  BY DEF Handlers
<1>7. heard \subseteq Requests
  BY DEF IInv, Types
<1> QED BY <1>1, <1>3, <1>4, <1>5, <1>6, <1>7, ByesKeep DEF Requests

LEMMA OldByeFindsKeeps == ASSUME IInv, OldByeFinds PROVE IInv'
<1> USE OneLeg
<1>1. /\ dialog # {} /\ down = "no"
      /\ unlocked' = dialog /\ heard' = heard \cup {"bye"}
      /\ UNCHANGED <<trans, dialog, leg, sent, failed, old, down>>
  BY DEF OldByeFinds, TransportRuns, TagKnown
<1>2. Types' /\ StaysUp' /\ Fresh'
  BY <1>1 DEF IInv, Types, DialogType, Requests, StaysUp, Fresh
<1>3. Attached'
  BY <1>1 DEF IInv, Attached, Overlooked, Waits, Hears, Running, Answered
<1>4. ASSUME ~Again' PROVE Reachable' /\ InStep' /\ ("refused" \notin heard' => Ended')
  BY <1>1, <1>4 DEF IInv, Again, Reachable, InStep, Ended, Hears, Running,
     Unanswered, Proceeding
<1> QED BY <1>2, <1>3, <1>4 DEF IInv

\* Whichever handler is told, it is the one leg that waits for the dialog's end.
LEMMA OldByeTellsKeeps == ASSUME IInv, OldByeTells PROVE IInv'
<1> USE OneLeg
<1>1. /\ unlocked # {} /\ down = "no" /\ unlocked' = {} /\ dialog' = {}
      /\ down' \in {"no", "bye"}
      /\ UNCHANGED <<trans, sent, heard, failed, old>>
  BY DEF OldByeTells
<1>2. PICK d \in unlocked \cup dialog : leg' = Put(leg, {d.leg}, "disconnect")
  BY DEF OldByeTells
<1>3. leg \in [Legs -> LegType] /\ "disconnect" \in Messages
  BY DEF IInv, Types, Messages
<1>4. /\ leg' \in [Legs -> LegType]
      /\ \A l \in Legs :
           /\ leg'[l].st = leg[l].st
           /\ leg'[l].detached = leg[l].detached /\ leg'[l].oked = leg[l].oked
           /\ ~Hears(l) => leg'[l] = leg[l]
           /\ HasDisconnect(leg'[l].queue) <=>
                HasDisconnect(leg[l].queue) \/ (l = d.leg /\ Hears(l))
  BY <1>2, <1>3, PutLegs DEF IInv
<1>5. leg[1].st # "none" /\ "bye" \in heard
  BY <1>1 DEF IInv, Fresh, Attached
<1>6. (\E x \in dialog : x.leg = 1) => d.leg = 1
  BY <1>1, <1>2 DEF IInv, Attached, Types, DialogType
<1>7. heard \subseteq Requests
  BY DEF IInv, Types
<1> QED BY <1>1, <1>4, <1>5, <1>6, <1>7, ByesKeep

\* A message to the handler that is not the end of the dialog.
LEMMA CancelReceivedKeeps == ASSUME IInv, CancelReceived PROVE IInv'
<1> USE OneLeg
<1>1. /\ down = "no" /\ unlocked = {} /\ \E l \in Legs : leg[l].st # "none"
      /\ heard' = heard \cup {"cancel"}
      /\ leg' = IF Unanswered THEN Told(leg, "cancel") ELSE leg
      /\ sent' = IF Unanswered /\ dialog # {} THEN sent \cup {"tag"} ELSE sent
      /\ UNCHANGED <<trans, dialog, unlocked, failed, old>>
  BY DEF CancelReceived, TransportRuns
<1>2. leg \in [Legs -> LegType] /\ "cancel" \in Messages
  BY DEF IInv, Types, Messages
<1>3. /\ leg' \in [Legs -> LegType]
      /\ \A l \in Legs :
           /\ leg'[l].st = leg[l].st
           /\ leg'[l].detached = leg[l].detached /\ leg'[l].oked = leg[l].oked
           /\ ~Hears(l) => leg'[l] = leg[l]
           /\ HasDisconnect(leg'[l].queue) <=> HasDisconnect(leg[l].queue)
  BY <1>1, <1>2, ToldLegs DEF IInv
<1>4. \/ down' = "no"
      \/ down' = "gone" /\ Overlooked
      \/ down' = "cancel" /\ Unanswered /\ dialog = {}
  BY <1>1, DownsAre DEF CancelReceived
<1>5. Types'
  BY <1>1, <1>3, <1>4 DEF IInv, Types, DialogType, Requests
<1>6. StaysUp'
  <2>1. CASE down' = "cancel"
    <3>1. Again => Again'
      BY <1>3 DEF Again
    <3>2. ~Again => {"bye", "ack", "early"} \cap heard # {}
      BY <1>4, <2>1 DEF IInv, Attached, InStep, Unanswered
    <3> QED BY <1>1, <1>4, <2>1, <3>1, <3>2 DEF StaysUp
  <2> QED BY <1>1, <1>4, <2>1 DEF StaysUp, Overlooked
<1>7. leg[1].st # "none"
  BY <1>1 DEF IInv, Fresh
<1>8. Attached' /\ Fresh'
  BY <1>1, <1>3, <1>4, <1>7 DEF IInv, Attached, Fresh, Overlooked, Waits, Hears, Running,
     Answered, Dialogs, Types, DialogType
<1>9. ASSUME ~Again' PROVE Reachable' /\ InStep' /\ ("refused" \notin heard' => Ended')
  <2>1. ~Again
    BY <1>3, <1>9, AgainStays
  <2> QED BY <1>1, <1>3, <1>4, <2>1 DEF IInv, Reachable, InStep, Ended, Hears, Running,
     Unanswered, Proceeding
<1> QED BY <1>5, <1>6, <1>8, <1>9 DEF IInv

LEMMA HoldReceivedKeeps == ASSUME IInv, HoldReceived PROVE IInv'
<1> USE OneLeg
<1>1. /\ down = "no" /\ unlocked = {} /\ dialog # {}
      /\ heard' = heard \cup {"hold"} /\ leg' = Told(leg, "hold")
      /\ UNCHANGED <<trans, dialog, unlocked, sent, failed, old>>
  BY DEF HoldReceived, TransportRuns, TagKnown
<1>2. leg \in [Legs -> LegType] /\ "hold" \in Messages
  BY DEF IInv, Types, Messages
<1>3. /\ leg' \in [Legs -> LegType]
      /\ \A l \in Legs :
           /\ leg'[l].st = leg[l].st
           /\ leg'[l].detached = leg[l].detached /\ leg'[l].oked = leg[l].oked
           /\ ~Hears(l) => leg'[l] = leg[l]
           /\ HasDisconnect(leg'[l].queue) <=> HasDisconnect(leg[l].queue)
  BY <1>1, <1>2, ToldLegs DEF IInv
<1>4. \/ down' = "no"
      \/ down' = "gone" /\ Overlooked
      \/ down' = "hold" /\ \E d \in dialog : d.leg = NoLeg
  BY <1>1, DownsAre, TheOne DEF HoldReceived, IInv
<1>5. Types' /\ StaysUp'
  BY <1>1, <1>3, <1>4 DEF IInv, Types, DialogType, Requests, StaysUp, Overlooked
<1>6. leg[1].st # "none"
  BY <1>1 DEF IInv, Fresh
<1>7. Attached' /\ Fresh'
  BY <1>1, <1>3, <1>4, <1>6 DEF IInv, Attached, Fresh, Overlooked, Waits, Hears, Running,
     Answered, Dialogs, Types, DialogType
<1>8. ASSUME ~Again' PROVE Reachable' /\ InStep' /\ ("refused" \notin heard' => Ended')
  <2>1. ~Again
    BY <1>3, <1>8, AgainStays
  <2> QED BY <1>1, <1>3, <1>4, <2>1 DEF IInv, Reachable, InStep, Ended, Hears, Running,
     Unanswered, Proceeding
<1> QED BY <1>5, <1>7, <1>8 DEF IInv

-----------------------------------------------------------------------------
(* The leg, and an INFO that detaches it.                                  *)

\* What detachHandlerInt makes of a dialog.
LEMMA DetachInt ==
  ASSUME NEW d \in Dialogs, dialog = {d}, TheDialog = d, DetachHandlerInt, trans \in States
  PROVE  \/ d.confirmed /\ dialog' = {} /\ sent' = sent \cup {"bye"} /\ trans' = trans
         \/ /\ ~d.confirmed /\ trans = "none" /\ trans' = trans /\ sent' = sent
            /\ \E e \in Dialogs : /\ dialog' = {e} /\ e.leg = NoLeg /\ e.ok = d.ok
                                  /\ ~e.confirmed
         \/ ~d.confirmed /\ (Answered \/ trans = "early")
            /\ UNCHANGED <<trans, dialog, sent>>
         \/ /\ ~d.confirmed /\ Proceeding /\ trans' = "completed"
            /\ sent' = sent \cup {"final"}
            /\ \E e \in Dialogs : /\ dialog' = {e} /\ e.leg = NoLeg /\ e.ok = d.ok
                                  /\ ~e.confirmed
         \/ ~d.confirmed /\ Proceeding /\ trans' = "none" /\ dialog' = {} /\ sent' = sent
<1> DEFINE e == [d EXCEPT !.leg = NoLeg]
<1>1. e \in Dialogs /\ e.leg = NoLeg /\ e.ok = d.ok /\ e.confirmed = d.confirmed
  BY DEF Dialogs
<1> HIDE DEF e
<1>2. /\ d.confirmed => dialog' = {} /\ sent' = sent \cup {"bye"} /\ trans' = trans
      /\ ~d.confirmed /\ trans = "none" => dialog' = {e} /\ UNCHANGED <<trans, sent>>
      /\ ~d.confirmed /\ trans # "none" /\ ~Proceeding => UNCHANGED <<trans, dialog, sent>>
      /\ ~d.confirmed /\ trans # "none" /\ Proceeding =>
           \/ trans' = "completed" /\ sent' = sent \cup {"final"} /\ dialog' = {e}
           \/ trans' = "none" /\ dialog' = {} /\ sent' = sent
  BY DEF DetachHandlerInt, e
<1> QED BY <1>1, <1>2 DEF States, Answered, Proceeding

\* The leg detaches from the call: it hears no more, and its dialog is ended, forgets
\* it, or is one that a refusal hides.
LEMMA LegDetaches ==
  ASSUME IInv, NEW l \in Legs, down = "no", Running(l), DetachHandler,
         leg' \in [Legs -> LegType], leg'[l].st # "none", leg'[l].detached,
         \A k \in Legs \ {l} : leg'[k] = leg[k],
         UNCHANGED <<unlocked, heard, failed, old>>
  PROVE  IInv'
<1> USE OneLeg
<1>1. leg[1].st # "none"
  BY DEF IInv, Fresh, Running
<1>2. \A k \in Legs : leg'[k].st = "none" => leg[k].st = "none" /\ leg'[k] = leg[k]
  OBVIOUS
<1>3. \A k \in Legs : leg[k].st # "none" => leg'[k].st # "none"
  BY DEF Running
<1>4. Fresh'
  BY <1>1, <1>3 DEF Fresh
<1>5. ~Again' => ~Again /\ l = 1
  BY <1>3, AgainStays, OnlyTheFirst DEF Running
<1>6. CASE dialog = {}
  <2>1. UNCHANGED <<trans, dialog, sent, down>>
    BY <1>6 DEF DetachHandler, Throws
  <2>2. Types' /\ StaysUp'
    BY <2>1 DEF IInv, Types, DialogType, StaysUp
  <2>3. Attached'
    BY <1>2, <1>6, <2>1 DEF IInv, Attached
  <2>4. ASSUME ~Again' PROVE Reachable' /\ InStep' /\ ("refused" \notin heard' => Ended')
    BY <1>5, <1>6, <2>1, <2>4 DEF IInv, Reachable, InStep, Ended, Hears, Running,
       Unanswered, Proceeding
  <2> QED BY <1>4, <2>2, <2>3, <2>4 DEF IInv
<1>7. ASSUME NEW d \in Dialogs, dialog = {d}, TheDialog = d PROVE IInv'
  <2>1. /\ DetachHandlerInt
        /\ down' = IF trans = "early" /\ ~d.confirmed THEN "answer" ELSE "no"
    BY <1>7 DEF DetachHandler, Throws
  <2>2. trans \in States
    BY DEF IInv, Types
  <2>3. ASSUME NEW k \in Legs, k # l PROVE Waits(k)' <=> Waits(k)
    BY <2>3 DEF Waits, Hears, Running
  <2>4. CASE /\ d.confirmed /\ dialog' = {} /\ sent' = sent \cup {"bye"} /\ trans' = trans
    <3>1. Types' /\ StaysUp'
      BY <2>1, <2>4 DEF IInv, Types, DialogType, StaysUp
    <3>2. Attached'
      BY <1>2, <2>4 DEF IInv, Attached
    <3>3. ASSUME ~Again' PROVE Reachable' /\ InStep' /\ ("refused" \notin heard' => Ended')
      BY <1>5, <1>7, <2>1, <2>4, <3>3 DEF IInv, Reachable, InStep, Ended, Hears, Running,
         Unanswered, Proceeding
    <3> QED BY <1>4, <3>1, <3>2, <3>3 DEF IInv
  <2>5. CASE /\ ~d.confirmed /\ trans = "none" /\ trans' = trans /\ sent' = sent
             /\ \E e \in Dialogs : /\ dialog' = {e} /\ e.leg = NoLeg /\ e.ok = d.ok
                                   /\ ~e.confirmed
    <3>1. PICK e \in Dialogs : /\ dialog' = {e} /\ e.leg = NoLeg /\ e.ok = d.ok
                               /\ ~e.confirmed
      BY <2>5
    <3>2. Types' /\ StaysUp'
      BY <2>1, <2>5, <3>1 DEF IInv, Types, DialogType, StaysUp
    <3>3. Attached'
      BY <1>2, <2>5, <3>1 DEF IInv, Attached
    <3>4. ASSUME ~Again' PROVE Reachable' /\ InStep' /\ ("refused" \notin heard' => Ended')
      BY <1>5, <1>7, <2>1, <2>5, <3>1, <3>4 DEF IInv, Reachable, InStep, Ended, Hears,
         Running, Unanswered, Proceeding
    <3> QED BY <1>4, <3>2, <3>3, <3>4 DEF IInv
  <2>6. CASE ~d.confirmed /\ (Answered \/ trans = "early") /\ UNCHANGED <<trans, dialog, sent>>
    <3>1. Types' /\ StaysUp'
      BY <2>1, <2>6 DEF IInv, Types, DialogType, StaysUp, Attached
    <3>2. d.leg # NoLeg => \/ Waits(d.leg)' \/ down' = "answer" \/ Overlooked'
      BY <1>7, <2>1, <2>3, <2>6 DEF IInv, Attached, Overlooked, Dialogs, Answered
    <3>3. Attached'
      BY <1>2, <1>3, <1>7, <2>6, <3>2 DEF IInv, Attached, Answered, Overlooked, Dialogs
    <3>4. ASSUME ~Again' PROVE Reachable' /\ InStep' /\ ("refused" \notin heard' => Ended')
      BY <1>5, <1>7, <2>1, <2>6, <3>4 DEF IInv, Reachable, InStep, Ended, Hears, Running,
         Answered, Unanswered, Proceeding
    <3> QED BY <1>4, <3>1, <3>3, <3>4 DEF IInv
  <2>7. CASE /\ ~d.confirmed /\ Proceeding /\ trans' = "completed"
             /\ sent' = sent \cup {"final"}
             /\ \E e \in Dialogs : /\ dialog' = {e} /\ e.leg = NoLeg /\ e.ok = d.ok
                                   /\ ~e.confirmed
    <3>1. PICK e \in Dialogs : /\ dialog' = {e} /\ e.leg = NoLeg /\ e.ok = d.ok
                               /\ ~e.confirmed
      BY <2>7
    <3>2. Types' /\ StaysUp'
      BY <2>1, <2>7, <3>1 DEF IInv, Types, DialogType, States, StaysUp, Proceeding
    <3>3. Attached'
      BY <1>2, <2>7, <3>1 DEF IInv, Attached
    <3>4. ASSUME ~Again' PROVE Reachable' /\ InStep' /\ ("refused" \notin heard' => Ended')
      BY <1>5, <1>7, <2>1, <2>7, <3>1, <3>4 DEF IInv, Reachable, InStep, Ended, Hears,
         Running, Unanswered, Proceeding
    <3> QED BY <1>4, <3>2, <3>3, <3>4 DEF IInv
  <2>8. CASE ~d.confirmed /\ Proceeding /\ trans' = "none" /\ dialog' = {} /\ sent' = sent
    <3>1. Types' /\ StaysUp'
      BY <2>1, <2>8 DEF IInv, Types, DialogType, States, StaysUp, Proceeding
    <3>2. Attached'
      BY <1>2, <2>8 DEF IInv, Attached
    <3>3. ASSUME ~Again' PROVE Reachable' /\ InStep' /\ ("refused" \notin heard' => Ended')
      BY <1>5, <1>7, <2>1, <2>8, <3>3 DEF IInv, Reachable, InStep, Ended, Hears, Running,
         Unanswered, Proceeding
    <3> QED BY <1>4, <3>1, <3>2, <3>3 DEF IInv
  <2> QED BY <1>7, <2>1, <2>2, <2>4, <2>5, <2>6, <2>7, <2>8, DetachInt
<1> QED BY <1>6, <1>7, TheOne DEF IInv

\* A leg that was told of the end of the dialog, or went on after it, leaves it as it is.
LEMMA LegStops ==
  ASSUME IInv, NEW l \in Legs, down = "no", Running(l),
         leg[l].detached \/ HasDisconnect(leg[l].queue),
         leg' \in [Legs -> LegType], leg'[l].st # "none", leg'[l].detached,
         \A k \in Legs \ {l} : leg'[k] = leg[k],
         UNCHANGED <<trans, dialog, sent, down, unlocked, heard, failed, old>>
  PROVE  IInv'
<1> USE OneLeg
<1>1. leg[1].st # "none"
  BY DEF IInv, Fresh, Running
<1>2. /\ \A k \in Legs : leg'[k].st = "none" => leg[k].st = "none" /\ leg'[k] = leg[k]
      /\ \A k \in Legs : leg[k].st # "none" => leg'[k].st # "none"
  BY DEF Running
<1>3. Types' /\ StaysUp' /\ Fresh'
  BY <1>1, <1>2 DEF IInv, Types, DialogType, StaysUp, Fresh, Overlooked
<1>4. \A d \in dialog : d.leg # NoLeg => Waits(d.leg)' \/ Overlooked'
  <2>1. ASSUME NEW k \in Legs, k # l PROVE Waits(k)' <=> Waits(k)
    BY <2>1 DEF Waits, Hears, Running
  <2>2. ~Waits(l)
    BY DEF Waits, Hears
  <2> QED BY <2>1, <2>2 DEF IInv, Attached, Overlooked, Types, DialogType, Dialogs
<1>5. Attached'
  BY <1>2, <1>4 DEF IInv, Attached, Answered, Overlooked, Types, DialogType, Dialogs
<1>6. ASSUME ~Again' PROVE Reachable' /\ InStep' /\ ("refused" \notin heard' => Ended')
  <2>1. ~Again /\ l = 1
    BY <1>2, <1>6, AgainStays, OnlyTheFirst DEF Running
  <2> QED BY <2>1 DEF IInv, Reachable, InStep, Ended, Hears, Running, Unanswered, Proceeding
<1> QED BY <1>3, <1>5, <1>6 DEF IInv

\* A leg takes a message and goes on as before.
LEMMA LegGoesOn ==
  ASSUME IInv, NEW l \in Legs, down = "no", Hears(l), leg' = Taken(l),
         leg[l].queue # <<>>, Head(leg[l].queue) # "disconnect",
         UNCHANGED <<trans, dialog, sent, down, unlocked, heard, failed, old>>
  PROVE  IInv'
<1> USE OneLeg
<1>1. /\ leg' \in [Legs -> LegType]
      /\ \A k \in Legs :
           /\ leg'[k].st = leg[k].st /\ leg'[k].detached = leg[k].detached
           /\ leg'[k].oked = leg[k].oked
           /\ leg[k].st = "none" => leg'[k] = leg[k]
           /\ HasDisconnect(leg'[k].queue) <=> HasDisconnect(leg[k].queue)
  BY TakenLegs DEF IInv, Hears, Running
<1>2. leg[1].st # "none" /\ leg'[1].st # "none"
  BY <1>1 DEF IInv, Fresh, Hears, Running
<1>3. Types' /\ StaysUp' /\ Fresh'
  BY <1>1, <1>2 DEF IInv, Types, DialogType, StaysUp, Fresh
<1>4. Attached'
  BY <1>1 DEF IInv, Attached, Overlooked, Waits, Hears, Running, Answered, Dialogs, Types,
     DialogType
<1>5. ASSUME ~Again' PROVE Reachable' /\ InStep' /\ ("refused" \notin heard' => Ended')
  <2>1. ~Again
    BY <1>1, <1>5, AgainStays
  <2> QED BY <1>1, <2>1 DEF IInv, Reachable, InStep, Ended, Hears, Running,
     Unanswered, Proceeding
<1> QED BY <1>3, <1>4, <1>5 DEF IInv

LEMMA CloseLocalKeeps == ASSUME IInv, NEW l \in Legs, CloseLocal(l) PROVE IInv'
BY LegDetaches, DetachedLegs DEF CloseLocal, Hears, IInv

LEMMA ExpiresKeeps == ASSUME IInv, NEW l \in Legs, Expires(l) PROVE IInv'
BY LegDetaches, DetachedLegs DEF Expires, IInv

LEMMA CancelReceivedLocalKeeps ==
  ASSUME IInv, NEW l \in Legs, CancelReceivedLocal(l) PROVE IInv'
<1>1. CASE leg[l].oked
  BY <1>1, LegGoesOn DEF CancelReceivedLocal, Takes
<1>2. CASE ~leg[l].oked
  BY <1>2, LegDetaches, DetachedLegs DEF CancelReceivedLocal, Takes, Hears, IInv
<1> QED BY <1>1, <1>2

LEMMA DisconnectReceivedLocalKeeps ==
  ASSUME IInv, NEW l \in Legs, DisconnectReceivedLocal(l) PROVE IInv'
<1>1. leg[l].queue \in Seq(Messages)
  BY DEF IInv, Types, LegType
<1>2. HasDisconnect(leg[l].queue)
  BY <1>1, QueueHead DEF DisconnectReceivedLocal, Takes
<1> QED BY <1>2, LegStops, DetachedLegs
    DEF DisconnectReceivedLocal, Takes, Hears, IInv, history

LEMMA OnHoldReceivedLocalKeeps ==
  ASSUME IInv, NEW l \in Legs, OnHoldReceivedLocal(l) PROVE IInv'
BY LegGoesOn DEF OnHoldReceivedLocal, Takes, history

LEMMA LeavesKeeps == ASSUME IInv, NEW l \in Legs, Leaves(l) PROVE IInv'
<1>1. CASE leg[l].detached
  BY <1>1, LegStops, DetachedLegs DEF Leaves, IInv
<1>2. CASE ~leg[l].detached
  BY <1>2, LegDetaches, DetachedLegs DEF Leaves, IInv
<1> QED BY <1>1, <1>2

\* An INFO detaches the dialog that has a handler, and tells the leg.
LEMMA InfoReceivedKeeps == ASSUME IInv, InfoReceived PROVE IInv'
<1> USE OneLeg
<1>1. /\ down = "no" /\ unlocked = {} /\ dialog # {} /\ TheDialog.leg # NoLeg
      /\ heard' = heard \cup {"info"} /\ leg' = Told(leg, "disconnect") /\ down' \in Downs
      /\ DetachHandlerInt
      /\ UNCHANGED <<unlocked, failed, old>>
  BY DEF InfoReceived, TransportRuns, TagKnown
<1>2. PICK d \in Dialogs :
        dialog = {d} /\ TheDialog = d /\ Handlers = {d.leg} \ {NoLeg} /\ d.leg # NoLeg
  BY <1>1, TheOne DEF IInv
<1>3. leg \in [Legs -> LegType] /\ "disconnect" \in Messages /\ trans \in States
  BY DEF IInv, Types, Messages
<1>4. /\ leg' \in [Legs -> LegType]
      /\ \A l \in Legs :
           /\ leg'[l].st = leg[l].st
           /\ leg'[l].detached = leg[l].detached /\ leg'[l].oked = leg[l].oked
           /\ ~Hears(l) => leg'[l] = leg[l]
           /\ HasDisconnect(leg'[l].queue) <=>
                HasDisconnect(leg[l].queue) \/ (l = d.leg /\ Hears(l))
  BY <1>1, <1>2, <1>3, ToldLegs DEF IInv
<1>5. down' = "no" \/ (down' = "gone" /\ Overlooked)
  BY <1>1, DownsAre
<1>6. leg[1].st # "none"
  BY <1>1 DEF IInv, Fresh
<1>7. \/ d.confirmed /\ dialog' = {} /\ sent' = sent \cup {"bye"} /\ trans' = trans
      \/ /\ ~d.confirmed /\ trans = "none" /\ trans' = trans /\ sent' = sent
         /\ \E e \in Dialogs : /\ dialog' = {e} /\ e.leg = NoLeg /\ e.ok = d.ok
                               /\ ~e.confirmed
      \/ ~d.confirmed /\ (Answered \/ trans = "early") /\ UNCHANGED <<trans, dialog, sent>>
      \/ /\ ~d.confirmed /\ Proceeding /\ trans' = "completed"
         /\ sent' = sent \cup {"final"}
         /\ \E e \in Dialogs : /\ dialog' = {e} /\ e.leg = NoLeg /\ e.ok = d.ok
                               /\ ~e.confirmed
      \/ ~d.confirmed /\ Proceeding /\ trans' = "none" /\ dialog' = {} /\ sent' = sent
  BY <1>1, <1>2, <1>3, DetachInt
<1>8. Types' /\ StaysUp'
  BY <1>1, <1>2, <1>4, <1>5, <1>7
     DEF IInv, Types, DialogType, States, Requests, StaysUp, Overlooked
<1>9. Fresh'
  BY <1>4, <1>6 DEF Fresh
<1>10. Attached'
  <2>1. /\ \A l \in Legs : leg'[l].st = "none" => ~leg'[l].detached /\ leg'[l].queue = <<>>
        /\ unlocked' = {}
        /\ trans' = "early" => "early" \in heard'
    BY <1>1, <1>4, <1>7 DEF IInv, Attached, Hears, Running
  <2>2. CASE \A x \in dialog' : x.leg = NoLeg /\ ~x.confirmed
    BY <2>1, <2>2 DEF Attached
  <2>3. CASE ~d.confirmed /\ (Answered \/ trans = "early") /\ UNCHANGED <<trans, dialog, sent>>
    <3>1. Overlooked'
      BY <1>1, <1>2, <2>3 DEF IInv, Attached, Overlooked
    <3>2. leg'[d.leg].st # "none" /\ (Answered => "refused" \in heard)
      BY <1>2, <1>4 DEF IInv, Attached, Dialogs
    <3> QED BY <1>1, <1>2, <2>1, <2>3, <3>1, <3>2 DEF Attached, Answered
  <2> QED BY <1>7, <2>2, <2>3
<1>11. ASSUME ~Again' PROVE Reachable' /\ InStep' /\ ("refused" \notin heard' => Ended')
  <2>1. ~Again
    BY <1>4, <1>11, AgainStays
  <2>2. Reachable'
    <3>1. d.leg = 1
      BY <1>2, <2>1, OnlyTheFirst DEF IInv, Attached, Dialogs
    <3> QED BY <1>4, <3>1 DEF Reachable, Hears, Running
  <2>3. InStep'
    BY <1>1, <1>2, <1>7, <2>1 DEF IInv, InStep, Unanswered, Proceeding
  <2>4. "refused" \notin heard' => Ended'
    BY <1>1, <1>2, <1>5, <1>7, <2>1 DEF IInv, InStep, Ended, Unanswered, Proceeding, Answered
  <2> QED BY <2>2, <2>3, <2>4
<1> QED BY <1>8, <1>9, <1>10, <1>11 DEF IInv

\* An answer changes of the legs that the one of it may be oked, and of their queues
\* that the end of the dialog is in that of the handler, if the answer was dropped.
Answers(l) ==
  /\ leg' \in [Legs -> LegType]
  /\ \A k \in Legs :
       /\ leg'[k].st = leg[k].st /\ leg'[k].detached = leg[k].detached
       /\ leg'[k].oked = leg[k].oked \/ (k = l /\ leg'[k].oked)
       /\ ~Hears(k) => leg'[k] = leg[k]
       /\ HasDisconnect(leg'[k].queue) <=>
            HasDisconnect(leg[k].queue) \/ (Dropped /\ k \in Handlers /\ Hears(k))

Oked(l) == [leg EXCEPT ![l].oked = TRUE]

LEMMA OkedLegs ==
  ASSUME Types, NEW l \in Legs
  PROVE  /\ Oked(l) \in [Legs -> LegType] /\ Oked(l)[l].oked
         /\ \A k \in Legs :
              /\ Oked(l)[k].st = leg[k].st /\ Oked(l)[k].detached = leg[k].detached
              /\ Oked(l)[k].queue = leg[k].queue
              /\ k # l => Oked(l)[k] = leg[k]
<1>1. leg \in [Legs -> LegType] /\ leg[l] \in LegType
  BY DEF Types
<1>2. /\ Oked(l)[l] \in LegType /\ Oked(l)[l].oked /\ Oked(l)[l].st = leg[l].st
      /\ Oked(l)[l].detached = leg[l].detached /\ Oked(l)[l].queue = leg[l].queue
  BY <1>1 DEF LegType, Oked
<1>3. \A k \in Legs : k # l => Oked(l)[k] = leg[k]
  BY <1>1 DEF Oked
<1>4. Oked(l) = [k \in Legs |-> Oked(l)[k]]
  BY <1>1 DEF Oked
<1> QED BY <1>1, <1>2, <1>3, <1>4

LEMMA PeerAnswers ==
  ASSUME IInv, NEW l \in Legs, PeerAlerted(l) \/ PeerConnected(l)
  PROVE  Answers(l)
<1>1. leg \in [Legs -> LegType] /\ leg[l] \in LegType /\ "disconnect" \in Messages
  BY DEF IInv, Types, Messages
<1>2. PICK lg \in {leg, Oked(l)} :
        leg' = IF Dropped THEN Told(lg, "disconnect") ELSE lg
  BY DEF PeerAlerted, PeerConnected, Oked
<1>3. /\ lg \in [Legs -> LegType] /\ Hears(l)
      /\ \A k \in Legs :
           /\ lg[k].st = leg[k].st /\ lg[k].detached = leg[k].detached
           /\ lg[k].queue = leg[k].queue
           /\ lg[k].oked = leg[k].oked \/ (k = l /\ lg[k].oked)
           /\ k # l => lg[k] = leg[k]
  <2>1. Hears(l)
    BY DEF PeerAlerted, PeerConnected
  <2>2. CASE lg = leg
    BY <1>1, <2>1, <2>2
  <2>3. CASE lg = Oked(l)
    BY <2>1, <2>3, OkedLegs DEF IInv
  <2> QED BY <1>2, <2>2, <2>3
<1>4. CASE Dropped
  BY <1>1, <1>2, <1>3, <1>4, ToldLegs DEF IInv, Answers
<1>5. CASE ~Dropped
  BY <1>2, <1>3, <1>5 DEF Answers
<1> QED BY <1>4, <1>5

\* The answer is sent to nobody: there is no transaction or dialog, or responseSent
\* throws, as the dialog was answered before or confirmed too early.
LEMMA NobodyAnswered ==
  ASSUME IInv, NEW l \in Legs, down = "no", Hears(l), ~leg[l].oked, Answers(l),
         UNCHANGED <<trans, dialog, sent, unlocked, heard, failed, old>>,
         \/ dialog = {} \/ trans = "none"
         \/ ~Proceeding,
         IF dialog = {} \/ trans = "none" THEN down' = down ELSE down' = "answer"
  PROVE  IInv'
<1> USE OneLeg
<1>1. ~Dropped
  BY DEF Dropped
<1>2. /\ leg' \in [Legs -> LegType]
      /\ \A k \in Legs :
           /\ leg'[k].st = leg[k].st /\ leg'[k].detached = leg[k].detached
           /\ leg'[k].oked = leg[k].oked \/ (k = l /\ leg'[k].oked)
           /\ ~Hears(k) => leg'[k] = leg[k]
           /\ HasDisconnect(leg'[k].queue) <=> HasDisconnect(leg[k].queue)
  BY <1>1 DEF Answers
<1>3. leg[1].st # "none" /\ leg'[1].st # "none"
  BY <1>2 DEF IInv, Fresh, Hears, Running
<1>4. Types' /\ Fresh'
  BY <1>2, <1>3 DEF IInv, Types, DialogType, Fresh
<1>5. Attached'
  BY <1>2 DEF IInv, Attached, Overlooked, Waits, Hears, Running, Answered, Dialogs, Types,
     DialogType
<1>6. ~Again => (l = 1 /\ ~Again')
  BY <1>2, OnlyTheFirst DEF Again, Hears, Running
<1>7. StaysUp'
  <2>1. CASE dialog = {} \/ trans = "none"
    BY <2>1 DEF IInv, StaysUp
  <2>2. CASE dialog # {} /\ trans # "none"
    <3>1. Again => Again'
      BY <1>2 DEF Again
    <3>2. ~Again => {"early", "info"} \cap heard # {}
      BY <2>2, <1>6 DEF IInv, InStep
    <3> QED BY <2>2, <3>1, <3>2 DEF StaysUp
  <2> QED BY <2>1, <2>2
<1>8. ASSUME ~Again' PROVE Reachable' /\ InStep' /\ ("refused" \notin heard' => Ended')
  <2>1. ~Again
    BY <1>2, <1>8, AgainStays
  <2>2. Reachable' /\ InStep'
    BY <1>2, <1>6, <2>1 DEF IInv, Reachable, InStep, Hears, Running, Unanswered, Proceeding
  <2>3. "refused" \notin heard' => Ended'
    BY <2>1 DEF IInv, Ended
  <2> QED BY <2>2, <2>3
<1> QED BY <1>4, <1>5, <1>7, <1>8 DEF IInv

\* The answer cannot be sent: the dialog is dropped and its handler is told.
LEMMA AnswerFails ==
  ASSUME IInv, NEW l \in Legs, down = "no", Hears(l), Answers(l),
         dialog # {}, Proceeding, trans' = "none", dialog' = {}, sent' = sent,
         UNCHANGED <<unlocked, heard, failed, old>>,
         down' \in Downs \/ (down' = "answer" /\ Handlers = {})
  PROVE  IInv'
<1> USE OneLeg
<1>1. Dropped
  BY DEF Dropped, Proceeding
<1>2. /\ leg' \in [Legs -> LegType]
      /\ \A k \in Legs :
           /\ leg'[k].st = leg[k].st /\ leg'[k].detached = leg[k].detached
           /\ ~Hears(k) => leg'[k] = leg[k]
           /\ HasDisconnect(leg'[k].queue) <=>
                HasDisconnect(leg[k].queue) \/ (k \in Handlers /\ Hears(k))
  BY <1>1 DEF Answers
<1>3. leg[1].st # "none" /\ leg'[1].st # "none"
  BY <1>2 DEF IInv, Fresh, Hears, Running
<1>4. PICK d \in Dialogs : dialog = {d} /\ Handlers = {d.leg} \ {NoLeg}
  BY TheOne DEF IInv
<1>5. ASSUME ~Again PROVE d.leg # NoLeg
  BY <1>4, <1>5 DEF IInv, InStep
<1>6. \/ down' = "no" \/ (down' = "gone" /\ Overlooked)
      \/ down' = "answer" /\ Again
  <2>1. ASSUME Handlers = {} PROVE Again
    BY <1>4, <1>5, <2>1
  <2> QED BY <2>1, DownsAre
<1>7. Types' /\ Fresh'
  BY <1>2, <1>3, <1>6 DEF IInv, Types, DialogType, States, Fresh
<1>8. StaysUp'
  <2>1. Again => Again'
    BY <1>2 DEF Again
  <2> QED BY <1>6, <2>1 DEF StaysUp, Overlooked
<1>9. Attached'
  BY <1>2 DEF IInv, Attached, Hears, Running
<1>10. ASSUME ~Again' PROVE Reachable' /\ InStep' /\ ("refused" \notin heard' => Ended')
  <2>1. ~Again
    BY <1>2, <1>10, AgainStays
  <2>2. Reachable'
    BY <1>2, <1>4, <2>1 DEF IInv, Reachable, Hears, Running
  <2>3. "ok" \notin sent
    BY <2>1 DEF IInv, InStep, Unanswered
  <2> QED BY <2>1, <2>2, <2>3 DEF IInv, InStep, Ended, Unanswered, Proceeding
<1> QED BY <1>7, <1>8, <1>9, <1>10 DEF IInv

LEMMA PeerAlertedKeeps == ASSUME IInv, NEW l \in Legs, PeerAlerted(l) PROVE IInv'
<1> USE OneLeg
<1>1. /\ down = "no" /\ Hears(l) /\ ~leg[l].oked /\ Answers(l)
      /\ UNCHANGED <<unlocked, heard, failed, old>>
  BY PeerAnswers DEF PeerAlerted
<1>2. CASE dialog = {} \/ trans = "none" \/ ~Proceeding
  BY <1>1, <1>2, NobodyAnswered DEF PeerAlerted, SendRinging
<1>3. CASE /\ dialog # {} /\ Proceeding
           /\ trans' = "none" /\ dialog' = {} /\ UNCHANGED sent
           /\ down' \in IF Handlers = {} THEN {"answer"} ELSE Downs
  BY <1>1, <1>3, AnswerFails
<1>4. CASE /\ dialog # {} /\ Proceeding
           /\ trans' = "ringing" /\ sent' = sent \cup {"ringing"} /\ UNCHANGED <<dialog, down>>
  <2>1. leg' = leg
    BY <1>4 DEF PeerAlerted, Dropped
  <2>2. leg[1].st # "none"
    BY <1>1 DEF IInv, Fresh, Hears, Running
  <2>3. Types' /\ Fresh' /\ StaysUp'
    BY <1>1, <1>4, <2>1, <2>2 DEF IInv, Types, DialogType, States, Fresh, StaysUp
  <2>4. Attached'
    BY <1>1, <1>4, <2>1 DEF IInv, Attached, Overlooked, Waits, Hears, Running, Answered
  <2>5. ASSUME ~Again' PROVE Reachable' /\ InStep' /\ ("refused" \notin heard' => Ended')
    <3>1. ~Again
      BY <2>1, <2>5 DEF Again
    <3> QED BY <1>1, <1>4, <2>1, <3>1 DEF IInv, Reachable, InStep, Ended, Hears, Running,
       Unanswered, Proceeding
  <2> QED BY <2>3, <2>4, <2>5 DEF IInv
<1> QED BY <1>2, <1>3, <1>4 DEF PeerAlerted, SendRinging

LEMMA PeerConnectedKeeps == ASSUME IInv, NEW l \in Legs, PeerConnected(l) PROVE IInv'
<1> USE OneLeg
<1>1. /\ down = "no" /\ Hears(l) /\ ~leg[l].oked /\ Answers(l)
      /\ UNCHANGED <<unlocked, heard, failed, old>>
  BY PeerAnswers DEF PeerConnected
<1>2. CASE dialog = {} \/ trans = "none" \/ ~Proceeding
  BY <1>1, <1>2, NobodyAnswered DEF PeerConnected, SendOk
<1>3. CASE /\ dialog # {} /\ Proceeding
           /\ trans' = "none" /\ dialog' = {} /\ down' \in Downs /\ UNCHANGED sent
  BY <1>1, <1>3, AnswerFails
<1>4. CASE /\ dialog # {} /\ Proceeding /\ trans' = "none"
           /\ dialog' = {[TheDialog EXCEPT !.ok = TRUE]} /\ sent' = sent \cup {"ok"}
           /\ UNCHANGED down
  <2>1. PICK d \in Dialogs : dialog = {d} /\ TheDialog = d
    BY <1>4, TheOne DEF IInv
  <2> DEFINE e == [d EXCEPT !.ok = TRUE]
  <2>2. dialog' = {e}
    BY <1>4, <2>1
  <2>3. e \in Dialogs /\ e.leg = d.leg /\ e.ok /\ e.confirmed = d.confirmed
    BY DEF Dialogs
  <2> HIDE DEF e
  <2>4. leg' = Oked(l)
    BY <1>4, <2>2 DEF PeerConnected, Dropped, Oked
  <2>5. /\ leg' \in [Legs -> LegType] /\ leg'[l].oked
        /\ \A k \in Legs :
             /\ leg'[k].st = leg[k].st /\ leg'[k].detached = leg[k].detached
             /\ leg'[k].queue = leg[k].queue
    BY <2>4, OkedLegs DEF IInv
  <2>6. leg[1].st # "none" /\ leg'[1].st # "none"
    BY <1>1, <2>5 DEF IInv, Fresh, Hears, Running
  <2>7. Types' /\ Fresh' /\ StaysUp'
    BY <1>1, <1>4, <2>2, <2>3, <2>5, <2>6 DEF IInv, Types, DialogType, States, Fresh, StaysUp
  <2>8. Attached'
    BY <1>1, <1>4, <2>1, <2>2, <2>3, <2>5
       DEF IInv, Attached, Overlooked, Waits, Hears, Running, Answered, Dialogs
  <2>9. ASSUME ~Again' PROVE Reachable' /\ InStep' /\ ("refused" \notin heard' => Ended')
    <3>1. ~Again /\ l = 1
      BY <1>1, <2>5, <2>9, AgainStays, OnlyTheFirst DEF Hears, Running
    <3>2. Reachable'
      BY <1>1, <2>1, <2>2, <2>3, <2>5, <3>1 DEF IInv, Reachable, Hears, Running
    <3>3. InStep'
      BY <1>1, <1>4, <2>5, <3>1 DEF IInv, InStep, Hears, Unanswered, Proceeding
    <3>4. Ended'
      BY <1>1, <1>4, <2>2, <2>3 DEF Ended
    <3> QED BY <3>2, <3>3, <3>4
  <2> QED BY <2>7, <2>8, <2>9 DEF IInv
<1> QED BY <1>2, <1>3, <1>4 DEF PeerConnected, SendOk

-----------------------------------------------------------------------------
(* The theorems.                                                           *)

LEMMA InitIInv == Init => IInv
<1> SUFFICES ASSUME Init PROVE IInv
  OBVIOUS
<1>1. \A l \in Legs : leg[l] = NewLeg /\ NewLeg \in LegType
  BY QueueEmpty DEF Init, NewLeg, LegType
<1>2. leg \in [Legs -> LegType]
  BY <1>1 DEF Init
<1>3. ~Again /\ ~Hears(1)
  BY <1>1, OneLeg DEF Again, Hears, Running, NewLeg
<1>4. Types /\ StaysUp
  BY <1>2 DEF Init, Types, DialogType, States, StaysUp
<1>5. Attached /\ Fresh
  BY <1>1 DEF Init, Attached, Fresh, NewLeg, Unanswered, Proceeding
<1>6. Reachable /\ InStep /\ Ended
  BY <1>3 DEF Init, Reachable, InStep, Ended, Unanswered, Proceeding
<1> QED BY <1>4, <1>5, <1>6 DEF IInv

LEMMA StutterIInv == ASSUME IInv, UNCHANGED vars PROVE IInv'
BY DEF vars, IInv, Types, DialogType, Attached, Fresh, StaysUp, Again, Reachable, InStep,
   Ended, Overlooked, Waits, Hears, Running, Answered, Unanswered, Proceeding

LEMMA IInvAlways == Spec => []IInv
<1>1. IInv /\ [Next]_vars => IInv'
  <2> SUFFICES ASSUME IInv, [Next]_vars PROVE IInv'
    OBVIOUS
  <2>1. CASE Transport
    BY <2>1, NewCallKeeps, InviteRefusedKeeps, InviteAgainKeeps, ResendFailsKeeps,
       RefusalOverKeeps, OkResendFailsKeeps, AckOfBranchKeeps, AckReceivedKeeps,
       ByeReceivedKeeps, OldByeFindsKeeps, OldByeTellsKeeps, CancelReceivedKeeps,
       HoldReceivedKeeps, InfoReceivedKeeps
       DEF Transport
  <2>2. ASSUME NEW l \in Legs, LegSteps(l) PROVE IInv'
    BY <2>2, PeerAlertedKeeps, PeerConnectedKeeps, CloseLocalKeeps,
       CancelReceivedLocalKeeps, DisconnectReceivedLocalKeeps, OnHoldReceivedLocalKeeps,
       ExpiresKeeps, LeavesKeeps
       DEF LegSteps
  <2>3. CASE UNCHANGED vars
    BY <2>3, StutterIInv
  <2> QED BY <2>1, <2>2, <2>3 DEF Next
<1> QED BY <1>1, InitIInv, PTL DEF Spec

\* The type invariant, for any number of calls of one INVITE.
THEOREM TypeCorrect == Spec => []TypeOK
<1>1. ASSUME NEW D, DialogType(D) PROVE D \in SUBSET Dialogs /\ Cardinality(D) <= 1
  <2>1. CASE D = {}
    BY <2>1, FS_EmptySet
  <2>2. ASSUME NEW d \in Dialogs, D = {d}
        PROVE  D \in SUBSET Dialogs /\ Cardinality(D) <= 1
    <3>1. Cardinality({d}) = 1
      BY FS_Singleton
    <3> QED BY <2>2, <3>1
  <2> QED BY <1>1, <2>1, <2>2 DEF DialogType
<1>2. IInv => TypeOK
  BY <1>1 DEF TypeOK, IInv, Types, States, Requests, LegType
<1> QED BY <1>2, IInvAlways, PTL

\* The transport puts messages only into queues of legs that run: the answer handler
\* of a dialog is one (siptransportthread.cxx, detachHandlerInt), but where a refused
\* INVITE or an early ACK makes detachHandlerInt do nothing.
THEOREM HandlersAreAlive == Spec => []HandlersAlive
<1>1. IInv => HandlersAlive
  BY DEF IInv, Attached, HandlersAlive, Handlers, Waits, Hears
<1> QED BY <1>1, IInvAlways, PTL

\* A leg that is not detached is the handler of its dialog or has the dialog's end
\* in its queue, but for a 2xx that could not be sent again and a second call.
THEOREM LegsAreReachable == Spec => []LegsReachable
<1>1. IInv => LegsReachable
  <2> SUFFICES ASSUME IInv, NEW l \in Legs, Running(l), ~leg[l].detached, ~Again
               PROVE  l \in Handlers \/ HasDisconnect(leg[l].queue) \/ failed
    BY DEF LegsReachable, HasDisconnect
  <2>1. l = 1
    BY OnlyTheFirst DEF Running
  <2> QED BY <2>1, OneLeg DEF IInv, Reachable, Hears, Handlers
<1> QED BY <1>1, IInvAlways, PTL

\* When the leg of an answered call is gone, the peer has been or will be told by
\* BYE, or has sent it, unless a late INVITE was refused beside the dialog.
THEOREM EndedAtBoth == Spec => []EndedAtBothEnds
<1>1. IInv => EndedAtBothEnds
  <2> SUFFICES ASSUME IInv, "ok" \in sent, ~Again, "refused" \notin heard,
                      NEW l \in Legs, leg[l].st = "gone"
               PROVE  \/ "bye" \in sent \/ "bye" \in heard
                      \/ \E d \in dialog : d.leg = NoLeg /\ d.ok /\ ~d.confirmed
    BY DEF EndedAtBothEnds
  <2>1. \A k \in Legs : leg[k].st # "none" => k = 1
    BY OnlyTheFirst
  <2>2. leg[1].st = "gone"
    BY <2>1
  <2>3. ~Overlooked /\ down # "answer"
    BY DEF IInv, InStep, Ended, Overlooked
  <2>4. ASSUME NEW d \in dialog PROVE d.leg = NoLeg /\ ~d.confirmed
    <3>1. d.leg = NoLeg \/ d.leg \in Legs
      BY DEF IInv, Types, DialogType, Dialogs
    <3> QED BY <2>1, <2>2, <2>3, <3>1 DEF IInv, Attached, Waits, Hears, Running
  <2> QED BY <2>4 DEF IInv, Ended
<1> QED BY <1>1, IInvAlways, PTL

\* The process comes down in the cases of StaysUp only.
THEOREM ProcessStaysUp == Spec => []StaysUp
<1>1. IInv => StaysUp
  BY DEF IInv
<1> QED BY <1>1, IInvAlways, PTL

=============================================================================
