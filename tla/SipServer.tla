----------------------------- MODULE SipServer -----------------------------
(***************************************************************************)
(* The server side of one INVITE: the transaction that answers it, the     *)
(* dialog it opens, and the answering leg of the call.  The SIP transport  *)
(* thread handles the packets of the peer and the timers; the leg is a     *)
(* thread of its own with a message queue, and calls sendRinging, sendOk   *)
(* and detachHandler of the transport.  Both sides take the mutex of the   *)
(* transport, so that each of these is one step, but for a BYE in the old  *)
(* format, which is handled before the mutex is taken.  Between two steps  *)
(* anything may happen, and a packet may be lost, repeated or late.        *)
(***************************************************************************)
EXTENDS Naturals, Sequences, FiniteSets

CONSTANTS
  MaxLegs,   \* how many calls the packets of one INVITE may open here
  NoLeg      \* the answer handler of a dialog that is detached

ASSUME MaxLegsAssumption == MaxLegs \in Nat \ {0} /\ NoLeg \notin 1 .. MaxLegs

VARIABLES
  trans,    \* the INVITE's transaction: see the operators below
  dialog,   \* its ServerDialog, or {} when there is none
  unlocked, \* the dialog an old BYE has found without the mutex, {} when none has
  leg,      \* the answering legs: running, detached, oked, and the peer's messages
  heard,    \* the requests of the peer that were handled
  sent,     \* what the peer was sent with the tag of the dialog
  failed,   \* a 2xx could not be sent again, and the dialog was dropped
  old,      \* the transaction timed out: no packet of the INVITE is still under way
  down      \* the process came down, and by what

vars == <<trans, dialog, unlocked, leg, heard, sent, failed, old, down>>
history == <<unlocked, heard, failed, old, down>>

Legs == 1 .. MaxLegs
Dialogs == [leg : Legs \cup {NoLeg}, confirmed : BOOLEAN, ok : BOOLEAN]
Messages == {"cancel", "disconnect", "hold"}

NewLeg == [st |-> "none", oked |-> FALSE, detached |-> FALSE, queue |-> <<>>]

Init ==
  /\ trans = "none" /\ dialog = {} /\ unlocked = {} /\ sent = {} /\ heard = {}
  /\ leg = [l \in Legs |-> NewLeg]
  /\ failed = FALSE /\ old = FALSE /\ down = "no"

\* sProceeding.  "early" is sConfirmed by an ACK that came before the answer: the
\* last response is still a provisional one, and the state takes no other.
Proceeding == trans \in {"trying", "ringing"}
Unanswered == Proceeding \/ trans = "early"

\* A final response is the transaction's last one: sCompleted by the leg, which
\* may be sTerminated by now, or by the handler itself ("refused"), or sConfirmed.
Answered == trans \in {"completed", "refused", "confirmed", "terminated"}

Running(l) == leg[l].st = "running"

\* A late packet of the INVITE has opened a second call.
Again == \E l \in Legs : l > 1 /\ leg[l].st # "none"

\* The dialog of the transaction: ServerTransactionId is a unique key.
TheDialog == CHOOSE d \in dialog : TRUE
Handlers == {d.leg : d \in dialog} \ {NoLeg}

\* putMessage.  A leg that is detached reads no message any more, and its queue is
\* left out.
Hears(l) == Running(l) /\ ~leg[l].detached
Put(lg, S, m) ==
  [l \in Legs |-> IF l \in S /\ Hears(l) THEN [lg[l] EXCEPT !.queue = Append(@, m)] ELSE lg[l]]

\* A message to the answer handler of the dialog, if it has one.  A handler whose
\* leg is gone is an object that was deleted: the process may come down.
Told(lg, m) == Put(lg, Handlers, m)
Downs == IF \E l \in Handlers : ~Running(l) THEN {down, "gone"} ELSE {down}

\* checkTimers throws at a terminated transaction that is still in the map, and
\* Main begins its next loop with it: no packet is read any more.
TransportRuns == down = "no" /\ trans # "terminated" /\ unlocked = {}

\* The peer names a dialog by the tag it was given: by a response of the leg, or
\* by the response to a CANCEL.  A refusal of InviteRefused has a tag of its own.
TagKnown == sent # {} /\ dialog # {}

-----------------------------------------------------------------------------
(* The transport thread *)

\* Mutant of NewCall: the new dialog is kept beside the one that is there.
NewCallSecondDialog ==
  /\ TransportRuns /\ trans = "none" /\ ~old
  /\ \E l \in Legs :
       /\ leg[l].st = "none" /\ \A k \in Legs : k < l => leg[k].st # "none"
       /\ leg' = [leg EXCEPT ![l].st = "running"]
       /\ trans' = "trying"
       /\ dialog' = dialog \cup {[leg |-> l, confirmed |-> FALSE, ok |-> FALSE]}
  /\ UNCHANGED <<sent, history>>

\* An INVITE no transaction is known for: a call of its own, and its leg starts.
\* A dialog with this id already there is kept, and the new one is dropped.
NewCall ==
  /\ TransportRuns /\ trans = "none" /\ ~old
  /\ \E l \in Legs :
       /\ leg[l].st = "none" /\ \A k \in Legs : k < l => leg[k].st # "none"
       /\ leg' = [leg EXCEPT ![l].st = "running"]
       /\ trans' = "trying"
       /\ dialog' = IF dialog = {} THEN {[leg |-> l, confirmed |-> FALSE, ok |-> FALSE]}
                    ELSE dialog
  /\ UNCHANGED <<sent, history>>

\* An INVITE no transaction is known for, refused by the handler itself: no SDP, no
\* hops, no slot, no authorisation, no route, or a Require.  Its transaction has no
\* handler, and the id of a dialog that an INVITE before it may have opened.
InviteRefused ==
  /\ TransportRuns /\ trans = "none" /\ ~old
  /\ \/ /\ trans' = "refused"
        /\ heard' = IF dialog = {} THEN heard ELSE heard \cup {"refused"}
     \/ UNCHANGED <<trans, heard>>
  /\ UNCHANGED <<dialog, unlocked, leg, sent, failed, old, down>>

\* CoreServerInviteHandler::transactionTransportError
TransportError ==
  /\ leg' = Told(leg, "disconnect") /\ down' \in Downs
  /\ dialog' = {}

\* Mutant of InviteAgain: the dialog goes, its leg is not told.
InviteAgainSilent ==
  /\ TransportRuns /\ trans # "none" /\ ~old
  /\ \/ UNCHANGED <<trans, dialog, leg, down>>
     \/ /\ trans \notin {"early", "confirmed"} /\ trans' = "terminated"
        /\ IF trans = "refused" THEN UNCHANGED <<dialog, leg, down>>
           ELSE dialog' = {} /\ UNCHANGED <<leg, down>>
  /\ UNCHANGED <<unlocked, sent, heard, failed, old>>

\* The INVITE again: the last response again.  When it cannot be sent the
\* transaction is terminated, but handleRequest leaves it in the map.
InviteAgain ==
  /\ TransportRuns /\ trans # "none" /\ ~old
  /\ \/ UNCHANGED <<trans, dialog, leg, down>>
     \/ /\ trans \notin {"early", "confirmed"} /\ trans' = "terminated"
        /\ IF trans = "refused" THEN UNCHANGED <<dialog, leg, down>> ELSE TransportError
  /\ UNCHANGED <<unlocked, sent, heard, failed, old>>

\* checkTimeout sends the response again, after 60 s of ringing or while the ACK of
\* a refusal is missing.  When that fails the transaction is erased from the map.
ResendFails ==
  /\ TransportRuns /\ trans \in {"ringing", "completed", "refused"}
  /\ trans' = "none"
  /\ IF trans = "ringing" THEN TransportError ELSE UNCHANGED <<leg, dialog, down>>
  /\ UNCHANGED <<unlocked, sent, heard, failed, old>>

\* checkTimeout: a refusal is over after 32 s, or 5 s after its ACK.
RefusalOver ==
  /\ TransportRuns
  /\ Answered \/ trans = "early"
  /\ trans' = "none" /\ old' = (old \/ Answered)
  /\ UNCHANGED <<dialog, unlocked, leg, sent, heard, failed, down>>

\* ServerDialog::checkTimeout: the 2xx is sent until its ACK comes; when that
\* fails, BYE, and the dialog is erased.  Its leg is not told.
OkResendFails ==
  /\ TransportRuns /\ \E d \in dialog : d.ok
  /\ dialog' = {} /\ sent' = sent \cup {"bye"}
  /\ failed' = TRUE
  /\ UNCHANGED <<trans, unlocked, leg, heard, old, down>>

\* An ACK with the branch of the INVITE finds the transaction.  It is the ACK of a
\* refusal, but one that comes before the answer confirms the transaction as well.
AckOfBranch ==
  /\ TransportRuns
  /\ \/ trans \in {"completed", "refused"} /\ trans' = "confirmed" /\ UNCHANGED heard
     \/ Proceeding /\ trans' = "early" /\ heard' = heard \cup {"early"}
  /\ UNCHANGED <<dialog, unlocked, leg, sent, failed, old, down>>

\* Mutant of AckReceived: a dialog whose leg has left is confirmed as any other.
AckReceivedTrusting ==
  /\ TransportRuns /\ TagKnown
  /\ heard' = IF Proceeding THEN heard \cup {"ack"} ELSE heard
  /\ dialog' = {[TheDialog EXCEPT !.confirmed = TRUE, !.ok = FALSE]}
  /\ UNCHANGED <<trans, unlocked, leg, sent, failed, old, down>>

\* Any other ACK finds the dialog.  When the leg has left it is ended now.
AckReceived ==
  /\ TransportRuns /\ TagKnown
  /\ heard' = IF Proceeding THEN heard \cup {"ack"} ELSE heard
  /\ IF TheDialog.leg = NoLeg
     THEN dialog' = {} /\ sent' = sent \cup {"bye"}
     ELSE dialog' = {[TheDialog EXCEPT !.confirmed = TRUE, !.ok = FALSE]} /\ UNCHANGED sent
  /\ UNCHANGED <<trans, unlocked, leg, failed, old, down>>

\* BYE: the leg is told and the dialog erased.  The peer may end the dialog before
\* it is answered: the transaction stays as it is.
ByeReceived ==
  /\ TransportRuns /\ TagKnown
  /\ heard' = heard \cup {"bye"}
  /\ leg' = Told(leg, "disconnect") /\ dialog' = {} /\ down' \in Downs
  /\ UNCHANGED <<trans, unlocked, sent, failed, old>>

\* A BYE with a branch of the old format (one of them here) is handled before the
\* mutex is taken: it finds the dialog, and the legs go on with it,
OldByeFinds ==
  /\ TransportRuns /\ TagKnown /\ "bye" \notin heard
  /\ unlocked' = dialog /\ heard' = heard \cup {"bye"}
  /\ UNCHANGED <<trans, dialog, leg, sent, failed, old, down>>

\* until it tells the handler read before or after their steps and erases the
\* dialog, which is undefined when a leg, of this call or another, did so too.
OldByeTells ==
  /\ down = "no" /\ unlocked # {}
  /\ unlocked' = {} /\ dialog' = {}
  /\ \E d \in unlocked \cup dialog : leg' = Put(leg, {d.leg}, "disconnect")
  /\ down' \in {"no", "bye"}
  /\ UNCHANGED <<trans, sent, heard, failed, old>>

\* CANCEL reaches the leg only while the INVITE is not answered.  A transaction
\* without its dialog is one the code does not expect: it reads the dialog of
\* an end iterator.  The response has the tag of the dialog.
CancelReceived ==
  /\ TransportRuns /\ "cancel" \notin heard /\ \E l \in Legs : leg[l].st # "none"
  /\ heard' = heard \cup {"cancel"}
  /\ leg' = IF Unanswered THEN Told(leg, "cancel") ELSE leg
  /\ sent' = IF Unanswered /\ dialog # {} THEN sent \cup {"tag"} ELSE sent
  /\ down' \in IF ~Unanswered THEN {down}
               ELSE IF dialog = {} THEN {down, "cancel"} ELSE Downs
  /\ UNCHANGED <<trans, dialog, unlocked, failed, old>>

\* A re-INVITE of the peer.  Before the INVITE is answered it is refused; the
\* handler of the dialog is used without a look whether there is one.
HoldReceived ==
  /\ TransportRuns /\ TagKnown /\ "hold" \notin heard /\ ~Unanswered
  /\ heard' = heard \cup {"hold"}
  /\ leg' = Told(leg, "hold")
  /\ down' \in IF TheDialog.leg = NoLeg THEN {"hold"} ELSE Downs
  /\ UNCHANGED <<trans, dialog, unlocked, sent, failed, old>>

-----------------------------------------------------------------------------
(* What a leg asks of the transport *)

\* sendRinging.  Any response after a final one makes responseSent throw, and after
\* an early ACK as well, in the leg's thread, where nobody catches it.
SendRinging ==
  IF dialog = {} \/ trans = "none" THEN UNCHANGED <<trans, dialog, sent, down>>
  ELSE IF ~Proceeding THEN down' = "answer" /\ UNCHANGED <<trans, dialog, sent>>
  ELSE \/ trans' = "ringing" /\ sent' = sent \cup {"ringing"} /\ UNCHANGED <<dialog, down>>
       \/ trans' = "none" /\ dialog' = {} /\ UNCHANGED sent
          /\ down' \in IF Handlers = {} THEN {"answer"} ELSE Downs

\* Whether SendRinging or SendOk, as they were done, had nobody to send to.
Dropped == dialog # {} /\ trans # "none" /\ dialog' = {}

\* sendOk.  The transaction is over whatever comes of it.
SendOk ==
  IF dialog = {} \/ trans = "none" THEN UNCHANGED <<trans, dialog, sent, down>>
  ELSE IF ~Proceeding THEN down' = "answer" /\ UNCHANGED <<trans, dialog, sent>>
  ELSE /\ trans' = "none"
       /\ \/ /\ dialog' = {[TheDialog EXCEPT !.ok = TRUE]}
             /\ sent' = sent \cup {"ok"} /\ UNCHANGED down
          \/ dialog' = {} /\ down' \in Downs /\ UNCHANGED sent

\* detachHandlerInt: BYE in a confirmed dialog; nothing but to forget the handler
\* before the ACK; a refusal of an INVITE that is not answered.  When a refusal is
\* there already, of this leg or of another INVITE with the id, nothing is done.
DetachHandlerInt ==
  IF TheDialog.confirmed
  THEN dialog' = {} /\ sent' = sent \cup {"bye"} /\ UNCHANGED trans
  ELSE IF trans = "none"
  THEN dialog' = {[TheDialog EXCEPT !.leg = NoLeg]} /\ UNCHANGED <<trans, sent>>
  ELSE IF ~Proceeding THEN UNCHANGED <<trans, dialog, sent>>
  ELSE \/ /\ trans' = "completed" /\ sent' = sent \cup {"final"}
          /\ dialog' = {[TheDialog EXCEPT !.leg = NoLeg]}
       \/ trans' = "none" /\ dialog' = {} /\ UNCHANGED sent

\* A transaction an early ACK has confirmed takes no refusal: detachHandlerInt throws.
Throws == dialog # {} /\ trans = "early" /\ ~TheDialog.confirmed

\* Mutant of DetachHandler: a dialog that is not acknowledged keeps its handler.
DetachHandlerKeeping ==
  /\ IF dialog = {} \/ (trans = "none" /\ ~TheDialog.confirmed)
     THEN UNCHANGED <<trans, dialog, sent>> ELSE DetachHandlerInt
  /\ down' = IF Throws THEN "answer" ELSE down

\* detachHandler, called by the leg: nobody catches what it throws.
DetachHandler ==
  /\ IF dialog = {} THEN UNCHANGED <<trans, dialog, sent>> ELSE DetachHandlerInt
  /\ down' = IF Throws THEN "answer" ELSE down

\* An INFO of a package the code does not know: the leg is told that the dialog is
\* gone, and the transport detaches it.  Main catches what that throws.
InfoReceived ==
  /\ TransportRuns /\ TagKnown /\ "info" \notin heard /\ TheDialog.leg # NoLeg
  /\ heard' = heard \cup {"info"}
  /\ leg' = Told(leg, "disconnect") /\ down' \in Downs
  /\ DetachHandlerInt
  /\ UNCHANGED <<unlocked, failed, old>>

-----------------------------------------------------------------------------
(* The leg.  The call puts its messages into the same queue as the transport, but  *)
(* when it likes: a leg may so read one at any time, and the queue here holds the  *)
(* messages of the peer only.                                                      *)

\* The loop of Main: one message, while the leg is not detached.
Takes(l, m) ==
  /\ down = "no" /\ Hears(l)
  /\ leg[l].queue # <<>> /\ Head(leg[l].queue) = m

Taken(l) == [leg EXCEPT ![l].queue = Tail(@)]
Detached(l) == [leg EXCEPT ![l].detached = TRUE, ![l].queue = <<>>]

\* An answer that could not be sent tells the handler of the dialog, which may
\* be another leg than the one that sent it.
PeerAlerted(l) ==
  /\ down = "no" /\ Hears(l) /\ ~leg[l].oked
  /\ SendRinging
  /\ leg' = IF Dropped THEN Told(leg, "disconnect") ELSE leg
  /\ UNCHANGED <<unlocked, heard, failed, old>>

PeerConnected(l) ==
  /\ down = "no" /\ Hears(l) /\ ~leg[l].oked
  /\ SendOk
  /\ LET lg == [leg EXCEPT ![l].oked = TRUE]
     IN leg' = IF Dropped THEN Told(lg, "disconnect") ELSE lg
  /\ UNCHANGED <<unlocked, heard, failed, old>>

\* closeLocal, by way of shutDown.
CloseLocal(l) ==
  /\ down = "no" /\ Hears(l)
  /\ DetachHandler
  /\ leg' = Detached(l)
  /\ UNCHANGED <<unlocked, heard, failed, old>>

\* Mutant of CancelReceivedLocal: the leg is not marked as detached.
CancelReceivedLocalOn(l) ==
  /\ Takes(l, "cancel")
  /\ IF leg[l].oked
     THEN leg' = Taken(l) /\ UNCHANGED <<trans, dialog, sent, down>>
     ELSE leg' = Taken(l) /\ DetachHandler
  /\ UNCHANGED <<unlocked, heard, failed, old>>

\* cancelReceivedLocal: too late once the leg has answered.
CancelReceivedLocal(l) ==
  /\ Takes(l, "cancel")
  /\ IF leg[l].oked
     THEN leg' = Taken(l) /\ UNCHANGED <<trans, dialog, sent, down>>
     ELSE leg' = Detached(l) /\ DetachHandler
  /\ UNCHANGED <<unlocked, heard, failed, old>>

\* disconnectReceivedLocal: the dialog is gone, there is nothing to detach from.
DisconnectReceivedLocal(l) ==
  /\ Takes(l, "disconnect")
  /\ leg' = Detached(l)
  /\ UNCHANGED <<trans, dialog, sent, history>>

OnHoldReceivedLocal(l) ==
  /\ Takes(l, "hold")
  /\ leg' = Taken(l)
  /\ UNCHANGED <<trans, dialog, sent, history>>

\* iteration: the INVITE has expired and is not answered.
Expires(l) ==
  /\ down = "no" /\ Running(l) /\ ~leg[l].oked
  /\ DetachHandler
  /\ leg' = Detached(l)
  /\ UNCHANGED <<unlocked, heard, failed, old>>

\* The end of Main, after the loop or because the program shuts down or the
\* call is too long; shutDownLeg detaches a leg that is not detached yet.
Leaves(l) ==
  /\ down = "no" /\ Running(l)
  /\ IF leg[l].detached THEN UNCHANGED <<trans, dialog, sent, down>> ELSE DetachHandler
  /\ leg' = [leg EXCEPT ![l] = [NewLeg EXCEPT !.st = "gone", !.detached = TRUE]]
  /\ UNCHANGED <<unlocked, heard, failed, old>>

Transport ==
  \/ NewCall \/ InviteRefused \/ InviteAgain \/ ResendFails \/ RefusalOver
  \/ OkResendFails \/ AckOfBranch \/ AckReceived \/ ByeReceived \/ OldByeFinds
  \/ OldByeTells \/ CancelReceived \/ HoldReceived \/ InfoReceived

LegSteps(l) ==
  \/ PeerAlerted(l) \/ PeerConnected(l) \/ CloseLocal(l)
  \/ CancelReceivedLocal(l) \/ DisconnectReceivedLocal(l) \/ OnHoldReceivedLocal(l)
  \/ Expires(l) \/ Leaves(l)

Next == Transport \/ \E l \in Legs : LegSteps(l)

Spec == Init /\ [][Next]_vars

-----------------------------------------------------------------------------
(* Properties *)

\* Every variable keeps its type; in particular an INVITE has one dialog at most.
TypeOK ==
  /\ trans \in {"none", "trying", "ringing", "completed", "refused", "early", "confirmed",
               "terminated"}
  /\ dialog \in SUBSET Dialogs /\ Cardinality(dialog) <= 1
  /\ unlocked \in SUBSET Dialogs /\ Cardinality(unlocked) <= 1
  /\ \A l \in Legs :
       /\ leg[l].st \in {"none", "running", "gone"}
       /\ leg[l].oked \in BOOLEAN /\ leg[l].detached \in BOOLEAN
       /\ leg[l].queue \in Seq(Messages)
  /\ heard \subseteq {"bye", "cancel", "hold", "info", "ack", "early", "refused"}
  /\ sent \subseteq {"tag", "ringing", "ok", "final", "bye"}
  /\ failed \in BOOLEAN /\ old \in BOOLEAN
  /\ down \in {"no", "answer", "cancel", "hold", "bye", "gone"}

\* What lets a leg go while its dialog keeps it: a late INVITE of the dialog's id
\* was refused, or the throw of a transaction with an early ACK cut an INFO short.
Overlooked == "refused" \in heard \/ {"early", "info"} \subseteq heard

\* The transport thread puts what the peer says into the queue of a dialog's
\* answer handler: the leg there still runs, whatever the order of its leaving,
\* of the answers and of the packets (CoreServerByeHandler, CoreServerCancelHandler),
\* but for the two ways in which detachHandlerInt does nothing.
HandlersAlive == down = "no" /\ ~Overlooked => \A l \in Handlers : Running(l)

\* A leg that is not detached hears its peer: it is the handler of the dialog, or
\* the end of the dialog is in its queue.  A 2xx that cannot be sent again ends
\* the dialog without a word, and a second call of one INVITE has no dialog.
LegsReachable ==
  \A l \in Legs :
    Running(l) /\ ~leg[l].detached =>
      \/ l \in Handlers
      \/ \E i \in DOMAIN leg[l].queue : leg[l].queue[i] = "disconnect"
      \/ failed \/ Again

\* A call that was answered is ended at the peer too, once its leg is gone: a BYE
\* was sent or came, or it will be sent at the ACK the dialog still waits for.  A
\* late INVITE that is refused before that ACK hides the dialog from its leg.
EndedAtBothEnds ==
  "ok" \in sent /\ ~Again /\ "refused" \notin heard =>
    \A l \in Legs :
      leg[l].st = "gone" =>
        \/ "bye" \in sent \/ "bye" \in heard
        \/ \E d \in dialog : d.leg = NoLeg /\ d.ok /\ ~d.confirmed

\* The process comes down only by one of these, whatever else is lost, late or
\* repeated: a re-INVITE to a dialog whose leg has left before the ACK; a CANCEL to
\* a transaction whose dialog is gone, by a BYE or an ACK that came before the
\* answer; an answer after an early ACK, or after the refusal an INFO made; a BYE of
\* the old format; a dialog whose leg was overlooked; and, for a CANCEL or an
\* answer, a second call of one INVITE.
StaysUp ==
  /\ down = "hold" => "hold" \in heard /\ \E d \in dialog : d.leg = NoLeg
  /\ down = "cancel" => dialog = {} /\ (Again \/ {"bye", "ack", "early"} \cap heard # {})
  /\ down = "answer" => Again \/ {"early", "info"} \cap heard # {}
  /\ down = "bye" => "bye" \in heard
  /\ down = "gone" => Overlooked

\* A transaction is never left in the state of which checkTimeout says that it
\* does not meet it: "checkTimeout in terminated state".
NoneTerminated == trans # "terminated"

=============================================================================
