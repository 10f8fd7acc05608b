------------------------------- MODULE AnswerCall -------------------------------
(***************************************************************************)
(* The object of an answered call: the leg of the caller (first), the legs *)
(* of its forks, and AnswerCall, which they all call and which the last of *)
(* them deletes.  A call with several forks puts off what they ask for     *)
(* (delayedThreads) until one of them is connected and becomes second.     *)
(*                                                                         *)
(* A critical section under AnswerCall::mut is one action.  useDelays is   *)
(* read outside of it: saw[f] is what fork f has read.  A leg handles what *)
(* its peers ask of it only when it looks into its own queue.              *)
(***************************************************************************)
EXTENDS Naturals, Sequences, FiniteSets

CONSTANTS
  Forks,       \* the forks a route may have
  ForkSets,    \* the sets of forks a route may yield
  NumChoices,  \* NumChoices[f]: choices of fork f
  NoLeg        \* the null pointer

ASSUME NoLegAssumption == NoLeg \notin Forks
ASSUME FiniteForks == IsFiniteSet(Forks)
ASSUME ForkSetsAssumption == ForkSets \subseteq (SUBSET Forks) \ {{}}
ASSUME NumChoicesAssumption == NumChoices \in [Forks -> Nat]

VARIABLES
  present,        \* the forks of this call
  first,          \* the caller's leg has not stopped: first # 0
  second,         \* the fork the caller talks to
  delayed,        \* the keys of delayedThreads
  useDelays,
  putOff,         \* putOff[f]: the choice whose setDirect is in f's Delays, 0 for none
  accounted,      \* Delays::accounted of the delayed forks
  forkAccounted,
  directBy,       \* the fork and the choice that set directOut
  deleted,        \* "delete this" has been done
  caller,         \* where AnswerLegThread::Main of the caller is
  callerQueue,    \* the messages for the caller's leg
  pc,             \* where OriginateLegThread::Main of a fork is
  choice,         \* the number of the choice a fork is at
  saw,            \* useDelays as fork f has read it
  inHand,         \* inHand[f]: the setDirect connected() has taken out of the map
  end, goodCall, begInited,
  isSendAddressSet,
  closeQueued,    \* the queue of a fork holds a closeLocal
  billed,         \* the forks that wrote the call's full account
  lateRings       \* choices a fork has begun to iterate with a closeLocal queued

objectVars == <<first, second, delayed, useDelays, putOff, accounted,
                forkAccounted, directBy, deleted>>
callerVars == <<caller, callerQueue>>
stepVars   == <<choice, saw, inHand>>
flagVars   == <<end, goodCall, begInited, isSendAddressSet>>
vars == <<present, objectVars, callerVars, pc, stepVars, flagVars, closeQueued,
          billed, lateRings>>

ForkPCs == {"next", "newChoice", "taking", "setDirect", "trying", "iterating",
            "connecting", "replaying", "announcing", "checking", "closing",
            "accounting", "stopping", "gone"}
Messages == {"alerted", "connected", "close"}
Forked == Cardinality(present) > 1

TypeOK ==
  /\ present \in ForkSets
  /\ first \in BOOLEAN /\ second \in Forks \cup {NoLeg}
  /\ delayed \subseteq present /\ useDelays \in BOOLEAN
  /\ putOff \in [Forks -> Nat] /\ accounted \subseteq delayed
  /\ forkAccounted \in BOOLEAN
  /\ directBy \in (Forks \cup {NoLeg}) \X Nat
  /\ deleted \in BOOLEAN
  /\ caller \in {"running", "stopping", "gone"} /\ callerQueue \in Seq(Messages)
  /\ pc \in [Forks -> ForkPCs]
  /\ DOMAIN choice = Forks /\ \A f \in Forks : choice[f] \in 0 .. NumChoices[f]
  /\ saw \in [Forks -> BOOLEAN] /\ inHand \in [Forks -> Nat]
  /\ end \in [Forks -> BOOLEAN] /\ goodCall \in [Forks -> BOOLEAN]
  /\ begInited \in [Forks -> BOOLEAN] /\ isSendAddressSet \in [Forks -> BOOLEAN]
  /\ closeQueued \in [Forks -> BOOLEAN]
  /\ billed \subseteq present /\ lateRings \in [Forks -> Nat]

\* The constructor holds mut until all legs are started, so no leg gets into
\* the object before.
Init ==
  /\ present \in ForkSets
  /\ first = TRUE
  /\ useDelays = Forked
  /\ IF Forked
     THEN second = NoLeg /\ delayed = present
     ELSE second \in present /\ delayed = {}
  /\ putOff = [f \in Forks |-> 0]
  /\ accounted = {} /\ forkAccounted = FALSE
  /\ directBy = <<NoLeg, 0>>
  /\ deleted = FALSE
  /\ caller = "running" /\ callerQueue = <<>>
  /\ pc = [f \in Forks |-> "next"]
  /\ choice = [f \in Forks |-> 0]
  /\ saw = [f \in Forks |-> FALSE]
  /\ inHand = [f \in Forks |-> 0]
  /\ end = [f \in Forks |-> FALSE]
  /\ goodCall = [f \in Forks |-> FALSE]
  /\ begInited = [f \in Forks |-> FALSE]
  /\ isSendAddressSet = [f \in Forks |-> FALSE]
  /\ closeQueued = [f \in Forks |-> FALSE]
  /\ billed = {}
  /\ lateRings = [f \in Forks |-> 0]

-----------------------------------------------------------------------------
(* Messages to the legs.                                                   *)

GoTo(f, place) == pc' = [pc EXCEPT ![f] = place]

\* OriginateLegThread::Close of some forks.
Close(forks) ==
  closeQueued' = [f \in Forks |-> closeQueued[f] \/ f \in forks]

\* What the object asks of the caller's leg, if it is still there.
TellCaller(messages) ==
  callerQueue' = IF first THEN callerQueue \o messages ELSE callerQueue

Quiet == UNCHANGED <<callerVars, closeQueued>>

-----------------------------------------------------------------------------
(* The forks' loop over their choices.                                     *)

LeaveLoop(f) ==
  /\ pc[f] = "next"
  /\ end[f] \/ goodCall[f] \/ choice[f] = NumChoices[f]
  /\ GoTo(f, "accounting")
  /\ UNCHANGED <<present, objectVars, stepVars, flagVars, billed, lateRings>>
  /\ Quiet

\* Mutant of NextChoice: the last choice is not noticed.
NextChoiceUnbounded(f) ==
  /\ pc[f] = "next"
  /\ ~end[f] /\ ~goodCall[f] /\ choice[f] <= NumChoices[f]
  /\ choice' = [choice EXCEPT ![f] = @ + 1]
  /\ saw' = [saw EXCEPT ![f] = useDelays]
  /\ GoTo(f, "newChoice")
  /\ UNCHANGED <<present, objectVars, inHand, flagVars, billed, lateRings>>
  /\ Quiet

\* tryNextChoice() takes the next choice and enters newChoice(), which reads
\* useDelays without the mutex.
NextChoice(f) ==
  /\ pc[f] = "next"
  /\ ~end[f] /\ ~goodCall[f] /\ choice[f] < NumChoices[f]
  /\ choice' = [choice EXCEPT ![f] = @ + 1]
  /\ saw' = [saw EXCEPT ![f] = useDelays]
  /\ GoTo(f, "newChoice")
  /\ UNCHANGED <<present, objectVars, inHand, flagVars, billed, lateRings>>
  /\ Quiet

\* newChoice() forgets what an earlier choice asked for.
NewChoice(f) ==
  /\ pc[f] = "newChoice"
  /\ IF saw[f]
     THEN /\ putOff' = [putOff EXCEPT ![f] = 0]
          /\ accounted' = accounted \ {f}
     ELSE UNCHANGED <<putOff, accounted>>
  /\ GoTo(f, "taking")
  /\ UNCHANGED <<present, first, second, delayed, useDelays, forkAccounted,
                 directBy, deleted, stepVars, flagVars, billed, lateRings>>
  /\ Quiet

\* conf->take() refuses the choice, no codec fits, tryChoice() or initChoice()
\* fails: on to the next choice, without a look at the queue.
ChoiceFails(f) ==
  /\ pc[f] \in {"taking", "trying"}
  /\ GoTo(f, "next")
  /\ UNCHANGED <<present, objectVars, stepVars, flagVars, billed, lateRings>>
  /\ Quiet

\* The choice is taken; setDirect() reads useDelays.
TakeChoice(f) ==
  /\ pc[f] = "taking"
  /\ saw' = [saw EXCEPT ![f] = useDelays]
  /\ GoTo(f, "setDirect")
  /\ UNCHANGED <<present, objectVars, choice, inHand, flagVars, billed, lateRings>>
  /\ Quiet

\* What setDirect() does of a choice's flag, put off or not.
Direct(f, delay, ch) ==
  /\ putOff' = IF delay THEN [putOff EXCEPT ![f] = ch] ELSE putOff
  /\ directBy' = IF ~delay /\ f = second THEN <<f, ch>> ELSE directBy

SetDirect(f) ==
  /\ pc[f] = "setDirect"
  /\ Direct(f, saw[f], choice[f])
  /\ GoTo(f, "trying")
  /\ UNCHANGED <<present, first, second, delayed, useDelays, accounted,
                 forkAccounted, deleted, stepVars, flagVars, billed, lateRings>>
  /\ Quiet

\* The leg is set up and the inner loop begins.
StartRinging(f) ==
  /\ pc[f] = "trying"
  /\ lateRings' = [lateRings EXCEPT ![f] = @ + (IF closeQueued[f] THEN 1 ELSE 0)]
  /\ GoTo(f, "iterating")
  /\ UNCHANGED <<present, objectVars, stepVars, flagVars, billed>>
  /\ Quiet

-----------------------------------------------------------------------------
(* An iteration: a message of the called party, a wake-up or its timeout.  *)

\* The called party rings.
Alerted(f) ==
  /\ pc[f] = "iterating" /\ ~goodCall[f]
  /\ goodCall' = [goodCall EXCEPT ![f] = TRUE]
  /\ IF ~useDelays /\ f = second
     THEN TellCaller(<<"alerted">>)
     ELSE UNCHANGED callerQueue
  /\ GoTo(f, "checking")
  /\ UNCHANGED <<present, objectVars, caller, stepVars, end, begInited,
                 isSendAddressSet, closeQueued, billed, lateRings>>

\* The address of the called party becomes known.  When it was connected before,
\* only now is the call told; connected() reads useDelays without the mutex.
SetSendAddress(f) ==
  /\ pc[f] = "iterating"
  /\ ~isSendAddressSet[f]
  /\ isSendAddressSet' = [isSendAddressSet EXCEPT ![f] = TRUE]
  /\ saw' = [saw EXCEPT ![f] = useDelays]
  /\ GoTo(f, IF begInited[f] THEN "connecting" ELSE "checking")
  /\ UNCHANGED <<present, objectVars, choice, inHand, end, goodCall, begInited,
                 billed, lateRings>>
  /\ Quiet

\* The called party answers.
Connected(f) ==
  /\ pc[f] = "iterating" /\ ~begInited[f]
  /\ begInited' = [begInited EXCEPT ![f] = TRUE]
  /\ goodCall' = [goodCall EXCEPT ![f] = TRUE]
  /\ saw' = [saw EXCEPT ![f] = useDelays]
  /\ GoTo(f, IF isSendAddressSet[f] THEN "connecting" ELSE "checking")
  /\ UNCHANGED <<present, objectVars, choice, inHand, end, isSendAddressSet,
                 billed, lateRings>>
  /\ Quiet

\* Mutant of Win: the losers are left to ring.
WinAlone(f) ==
  /\ second' = f
  /\ useDelays' = FALSE
  /\ inHand' = [inHand EXCEPT ![f] = putOff[f]]
  /\ Close({})
  /\ delayed' = delayed \ {f}
  /\ accounted' = accounted \ {f}

\* Mutant of Win: the map is cleared.
WinClearing(f) ==
  /\ second' = f
  /\ useDelays' = FALSE
  /\ inHand' = [inHand EXCEPT ![f] = putOff[f]]
  /\ Close(delayed \ {f})
  /\ delayed' = {}
  /\ accounted' = {}

\* The fork becomes second, the others are closed.
Win(f) ==
  /\ second' = f
  /\ useDelays' = FALSE
  /\ inHand' = [inHand EXCEPT ![f] = putOff[f]]
  /\ Close(delayed \ {f})
  /\ delayed' = delayed \ {f}
  /\ accounted' = accounted \ {f}

\* connected() of a fork that saw useDelays: the first one wins.
TryToWin(f) ==
  /\ pc[f] = "connecting" /\ saw[f]
  /\ IF second # NoLeg
     THEN /\ GoTo(f, "checking")
          /\ UNCHANGED <<second, useDelays, delayed, accounted, inHand, closeQueued>>
     ELSE Win(f) /\ GoTo(f, "replaying")
  /\ UNCHANGED <<present, first, putOff, forkAccounted, directBy, deleted,
                 callerVars, choice, saw, flagVars, billed, lateRings>>

\* connected() of a fork that did not see it goes straight to the end.
NotDelayed(f) ==
  /\ pc[f] = "connecting" /\ ~saw[f]
  /\ GoTo(f, "announcing")
  /\ UNCHANGED <<present, objectVars, stepVars, flagVars, billed, lateRings>>
  /\ Quiet

\* Mutant of ReplayDelays: the settings taken out of the map are dropped.
ReplayNothing(f) ==
  /\ pc[f] = "replaying"
  /\ TellCaller(IF f = second THEN <<"alerted">> ELSE <<>>)
  /\ GoTo(f, "announcing")
  /\ UNCHANGED <<present, objectVars, caller, stepVars, flagVars, closeQueued,
                 billed, lateRings>>

\* The winner does what was put off, and alerted() follows.
ReplayDelays(f) ==
  /\ pc[f] = "replaying"
  /\ IF inHand[f] > 0
     THEN Direct(f, useDelays, inHand[f])
     ELSE UNCHANGED <<putOff, directBy>>
  /\ TellCaller(IF f = second THEN <<"alerted">> ELSE <<>>)
  /\ GoTo(f, "announcing")
  /\ UNCHANGED <<present, first, second, delayed, useDelays, accounted,
                 forkAccounted, deleted, caller, stepVars, flagVars, closeQueued,
                 billed, lateRings>>

\* The end of connected(): the caller's leg is told.
Announce(f) ==
  /\ pc[f] = "announcing"
  /\ TellCaller(IF f = second THEN <<"connected">> ELSE <<>>)
  /\ GoTo(f, "checking")
  /\ UNCHANGED <<present, objectVars, caller, stepVars, flagVars, closeQueued,
                 billed, lateRings>>

\* The iteration ends with nothing to do: another message, wakeUp() or three
\* seconds.
Idle(f) ==
  /\ pc[f] = "iterating"
  /\ GoTo(f, "checking")
  /\ UNCHANGED <<present, objectVars, stepVars, flagVars, billed, lateRings>>
  /\ Quiet

\* checkPeerMessages(): closeLocal sets end.
Checked(f) ==
  /\ end' = [end EXCEPT ![f] = @ \/ closeQueued[f]]
  /\ closeQueued' = [closeQueued EXCEPT ![f] = FALSE]

CheckPeerMessages(f) ==
  /\ pc[f] = "checking"
  /\ Checked(f)
  /\ GoTo(f, IF end'[f] THEN "closing" ELSE "iterating")
  /\ UNCHANGED <<present, objectVars, callerVars, stepVars, goodCall, begInited,
                 isSendAddressSet, billed, lateRings>>

\* Mutant of IterationFails: the queue is not looked into.
IterationFailsUnchecked(f) ==
  /\ pc[f] = "iterating"
  /\ GoTo(f, "closing")
  /\ UNCHANGED <<present, objectVars, stepVars, flagVars, billed, lateRings>>
  /\ Quiet

\* The called party refuses or hangs up.
IterationFails(f) ==
  /\ pc[f] = "iterating"
  /\ Checked(f)
  /\ GoTo(f, "closing")
  /\ UNCHANGED <<present, objectVars, callerVars, stepVars, goodCall, begInited,
                 isSendAddressSet, billed, lateRings>>

\* A timeout of the loop, after its look into the queue.
TimesOut(f) ==
  /\ pc[f] = "checking"
  /\ Checked(f)
  /\ GoTo(f, "closing")
  /\ UNCHANGED <<present, objectVars, callerVars, stepVars, goodCall, begInited,
                 isSendAddressSet, billed, lateRings>>

CloseThisChoice(f) ==
  /\ pc[f] = "closing"
  /\ GoTo(f, "next")
  /\ UNCHANGED <<present, objectVars, stepVars, flagVars, billed, lateRings>>
  /\ Quiet

-----------------------------------------------------------------------------
(* The end of the legs.                                                    *)

\* Mutant of FullAccount: the forks that are no longer in the map are not
\* thought of.
FullAccountOfAny(f) ==
  \/ f = second
  \/ second = NoLeg /\ f \in delayed

\* fullAccount() yields true: the winner writes the account, or the last
\* fork when none has won.
FullAccount(f) ==
  /\ ~forkAccounted
  /\ \/ f = second
     \/ second = NoLeg /\ f \in delayed /\ delayed \subseteq accounted \cup {f}

AccountCall(f) ==
  /\ pc[f] = "accounting"
  /\ IF FullAccount(f)
     THEN forkAccounted' = TRUE /\ billed' = billed \cup {f}
     ELSE UNCHANGED <<forkAccounted, billed>>
  /\ accounted' = IF ~forkAccounted /\ second = NoLeg /\ f \in delayed
                  THEN accounted \cup {f} ELSE accounted
  /\ GoTo(f, "stopping")
  /\ UNCHANGED <<present, first, second, delayed, useDelays, putOff, directBy,
                 deleted, stepVars, flagVars, lateRings>>
  /\ Quiet

\* stop() of the fork the caller talks to.
StopSecond(f) ==
  /\ pc[f] = "stopping" /\ f = second
  /\ second' = NoLeg
  /\ TellCaller(<<"close">>)
  /\ deleted' = (~first /\ delayed = {})
  /\ GoTo(f, "gone")
  /\ UNCHANGED <<present, first, delayed, useDelays, putOff, accounted,
                 forkAccounted, directBy, caller, stepVars, flagVars, closeQueued,
                 billed, lateRings>>

\* Mutant of StopFork: a fork that stops when none has won deletes the call.
StopForkAlone(f) ==
  /\ pc[f] = "stopping" /\ f # second
  /\ delayed' = delayed \ {f}
  /\ accounted' = accounted \ {f}
  /\ deleted' = (second = NoLeg /\ ~first)
  /\ TellCaller(IF delayed' = {} /\ second = NoLeg THEN <<"close">> ELSE <<>>)
  /\ GoTo(f, "gone")
  /\ UNCHANGED <<present, first, second, useDelays, putOff, forkAccounted,
                 directBy, caller, stepVars, flagVars, closeQueued, billed,
                 lateRings>>

\* Mutant of StopFork: the caller is told only when the first fork fails.
StopForkSilent(f) ==
  /\ pc[f] = "stopping" /\ f # second
  /\ delayed' = delayed \ {f}
  /\ accounted' = accounted \ {f}
  /\ deleted' = (delayed' = {} /\ second = NoLeg /\ ~first)
  /\ UNCHANGED callerQueue
  /\ GoTo(f, "gone")
  /\ UNCHANGED <<present, first, second, useDelays, putOff, forkAccounted,
                 directBy, caller, stepVars, flagVars, closeQueued, billed,
                 lateRings>>

\* stop() of any other fork.
StopFork(f) ==
  /\ pc[f] = "stopping" /\ f # second
  /\ delayed' = delayed \ {f}
  /\ accounted' = accounted \ {f}
  /\ LET last == delayed' = {} /\ second = NoLeg IN
       /\ deleted' = (last /\ ~first)
       /\ TellCaller(IF last THEN <<"close">> ELSE <<>>)
  /\ GoTo(f, "gone")
  /\ UNCHANGED <<present, first, second, useDelays, putOff, forkAccounted,
                 directBy, caller, stepVars, flagVars, closeQueued, billed,
                 lateRings>>

-----------------------------------------------------------------------------
(* The caller's leg.                                                       *)

\* A message of the call: alerted and connected go out to the caller,
\* closeLocal ends the loop.
CallerMessage ==
  /\ caller = "running" /\ callerQueue # <<>>
  /\ callerQueue' = Tail(callerQueue)
  /\ caller' = IF Head(callerQueue) = "close" THEN "stopping" ELSE caller
  /\ UNCHANGED <<present, objectVars, pc, stepVars, flagVars, closeQueued, billed,
                 lateRings>>

\* The caller hangs up, cancels, or its time to answer is over: released()
\* closes the forks before the leg stops.
CallerHangsUp ==
  /\ caller = "running"
  /\ caller' = "stopping"
  /\ Close(delayed \cup {second})
  /\ UNCHANGED <<present, objectVars, callerQueue, pc, stepVars, flagVars, billed,
                 lateRings>>

\* Another exit of the loop: the switch shuts down, the call is too long.
CallerLeaves ==
  /\ caller = "running"
  /\ caller' = "stopping"
  /\ UNCHANGED <<present, objectVars, callerQueue, pc, stepVars, flagVars, billed,
                 lateRings>>
  /\ UNCHANGED closeQueued

\* stop() of the caller's leg.
StopFirst ==
  /\ caller = "stopping"
  /\ caller' = "gone"
  /\ first' = FALSE
  /\ Close(IF second # NoLeg THEN {second} ELSE delayed)
  /\ deleted' = (second = NoLeg /\ delayed = {})
  /\ UNCHANGED <<present, second, delayed, useDelays, putOff, accounted,
                 forkAccounted, directBy, callerQueue, pc, stepVars, flagVars,
                 billed, lateRings>>

-----------------------------------------------------------------------------

\* What the called party of a fork may do.
Far(f) ==
  \/ Alerted(f) \/ SetSendAddress(f) \/ Connected(f) \/ IterationFails(f)
  \/ TimesOut(f)

\* What the thread of a fork does by itself.
Own(f) ==
  \/ LeaveLoop(f) \/ NextChoice(f) \/ NewChoice(f) \/ ChoiceFails(f)
  \/ TakeChoice(f) \/ SetDirect(f) \/ StartRinging(f) \/ TryToWin(f)
  \/ NotDelayed(f) \/ ReplayDelays(f) \/ Announce(f) \/ Idle(f)
  \/ CheckPeerMessages(f) \/ CloseThisChoice(f) \/ AccountCall(f)
  \/ StopSecond(f) \/ StopFork(f)

Next ==
  \/ \E f \in present : Far(f) \/ Own(f)
  \/ CallerMessage \/ CallerHangsUp \/ CallerLeaves \/ StopFirst

\* A thread that can go on does; an iteration ends after three seconds at the
\* latest (ThreadMessageQueue::get, H323Leg::iteration); nothing is assumed of
\* the parties.
Fairness ==
  /\ \A f \in Forks : WF_vars(f \in present /\ Own(f))
  /\ WF_vars(CallerMessage) /\ WF_vars(StopFirst)

Spec == Init /\ [][Next]_vars /\ Fairness

-----------------------------------------------------------------------------
(* Properties.                                                             *)

LoopPlaces == ForkPCs \ {"accounting", "stopping", "gone"}

\* Fork f has been told to stop, or is past its loop.
Told(f) == closeQueued[f] \/ end[f] \/ pc[f] \notin LoopPlaces
CallerTold ==
  \/ caller # "running"
  \/ \E i \in 1 .. Len(callerQueue) : callerQueue[i] = "close"

\* The object is deleted by the last leg that stops and by no other, and its
\* pointers lead to threads that still run (answercall.cxx, stop): no leg is
\* ever in a deleted call, and none is told anything after it has gone.
Lifetimes ==
  /\ deleted => caller = "gone" /\ \A f \in present : pc[f] = "gone"
  /\ first => caller # "gone"
  /\ second # NoLeg => pc[second] # "gone"
  /\ \A f \in delayed : pc[f] # "gone"

\* A fork finds itself in delayedThreads whenever it goes by useDelays, by an
\* old value of it too: find() is dereferenced unasked in newChoice, setDirect,
\* setPeer and setSendAddress.
DelaysFound ==
  \A f \in present :
    /\ pc[f] \in {"newChoice", "setDirect"} /\ saw[f] => f \in delayed
    /\ pc[f] # "gone" /\ useDelays => f \in delayed

\* Nobody is left behind: a fork that lost, a fork whose caller has gone and a
\* caller without a fork have each been told to stop.
NobodyLeftBehind ==
  /\ ~useDelays => \A f \in delayed : Told(f)
  /\ ~first => \A f \in present : Told(f)
  /\ second = NoLeg /\ (delayed = {} \/ ~useDelays) => CallerTold

\* The call has one full account in radacctSS, whoever wins and in whatever
\* order the forks end (fullAccount).
AccountedOnce ==
  /\ Cardinality(billed) <= 1
  /\ (\A f \in present : pc[f] \in {"stopping", "gone"}) => billed # {}

\* After a Close at most one more choice of a fork is called, however often the
\* choices fail (the look into the queue at originatelegthread.cxx:326).
OneMoreChoice == \A f \in Forks : lateRings[f] <= 1

\* When the caller has been told of the winner, the direct flag in force is
\* that of the choice the winner has answered on.
DirectOfWinner ==
  \A f \in present :
    pc[f] = "announcing" /\ f = second => directBy = <<f, choice[f]>>

\* A call that the caller has left, or all its forks or the winner, is deleted.
EndedCallDeleted ==
  (~first \/ (second = NoLeg /\ (delayed = {} \/ ~useDelays))) ~> deleted
=============================================================================
