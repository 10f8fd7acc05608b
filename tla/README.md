# A TLA+ model of VoipCpp

VoipCpp ("voipss") is a VoIP softswitch: it accepts H.323, SIP and MGCP calls,
routes them to outbound peers or registered cards, bills prepaid cards while
they talk, answers a RADIUS client that asks for credit, and relays RTP.  This
directory holds TLA+ modules of its concurrent core, TLC configurations that
check them on small instances, and TLAPS proofs.

## The system

### Components, their state and operations

| Component | Source | State | Operations | Correct means |
|---|---|---|---|---|
| Admission control | `Conf.cxx` | `callsSem`, `gwCallsSem`, `inLimits`, `outLimits`, `inOutLimits`, `cardLocks` | `tryTake`, `getCallInfo`, `take`, `release`, `removeCall`, `waitForSignallingChannels` | the counters equal what is in progress, limits hold, shutdown drains |
| Originating legs | `originatelegthread.cxx` | the choices left, `gwTaken`, `goodCall` | `tryNextChoice`, `closeThisChoice`, `connected` | every choice taken is closed once |
| AnswerCall | `answercall.cxx`, `answerlegthread.cxx` | `first`, `second`, `delayedThreads` | `stop`, `connected`, `released`, `fullAccount`, the RTP set-up calls | one fork wins, the object is deleted once, after its legs |
| Call-back calls | `h323call.cxx` | `first`, `second`, `secondStarted` | `stop`, `connected` | both slots and the gateway slot come back |
| H.323 proxy | `signallingthread.cxx`, `CallThread.cxx` | the two sockets, `call` | one handler per Q.931 message | messages are relayed in order, a release is answered |
| Money spools | `moneyspool.cxx`, `customercalls.cxx` | `totalMoney`, `usedMoney`, eaters | `tick`, `addEater`, `delEater`, `setTotalMoney` | what is charged is what was talked; no overdraft beyond a second |
| RADIUS calls | `Conf.cxx`, `radius*.cxx` | `m_radiusCallsSpool`, `radiusAcctnToConf`, `radiusConfToAcctn`, `radiusCallsSem` | authorisation, start, stop, stalled-call sweep | locks, eaters and slots end with their call |
| SIP transport | `siptransportthread.cxx`, `sip2.cxx` | transactions, dialogs | requests, responses, timers | a leg hears its peer, a dialog its leg, the peer the end |
| RAS, gatekeeper clients | `rasthread.cxx`, `h323gkclientthread.cxx` | pending requests | `waitGrq`, `confirm`, `reject` | a waiter gets its own answer or a timeout |
| Registrations | `RegisteredOutPeersMap.cxx` | registered cards and peers | register, expire | an expired address is not called |
| H.245 relay | `h245thread.cxx`, `h245handler.cxx` | handler stack | one handler per message | channels opened are closed |
| MGCP | `mgcp*.cxx` | endpoint handler | signals, commands | one call per endpoint |
| Threads, SQL writer | `threadmessagequeue.hpp`, `sqloutthread.cxx`, `New.cxx` | queues, the table `ActiveCalls` | put, get, wake; start, close | no message lost; every call is accounted, across a crash too |
| Routing, configuration | `confdata.cxx` | tables replaced by a reload | look-ups | no reader sees a freed table |
| RTP relay, HTTP, parsers | the rest | | | not modelled |

`PROJECT.json` lists every source file's component with its status.  The old SIP
signalling thread is dead code: `New.cxx:127` comments it out.

### How they interact

Threads share one `Conf::Impl` guarded by `mut`.  A listener (`CallThread`, the
SIP transport, an MGCP gateway, the HTTP server, the command reader) takes a slot
with `tryTake`, asks `getCallInfo` for a route, and starts a thread: a
`SignallingThread` that proxies the call itself or hands it to an `AnswerCall`,
or the legs of an `AnswerCall` or `CallBackCall`, which call each other through
the call object.  Each originating leg walks through its choices with
`Conf::take` and `Conf::release`; at its end it calls `removeCall`, and the
thread that owns the slot calls `common.release`.  At shutdown the main thread
closes the listeners and waits for `callsCount` to reach zero.

### What is hard

Counters checked and moved by many threads; slots whose owner changes (a
`SignallingThread` hands its slot to an answer leg, a call-back splits two slots
over two legs); refusals in the middle of a sequence of locks; forks that copy
the caller's details; RADIUS records out of order; balances read before a lock
and used after; waits for answers that come late.  `PROJECT.json` lists these
hazards with their lines.

## Modules

`LimitedPool` is the abstract promise of a counter with a limit: those inside
never outnumber it, nobody is inside twice, nobody leaves who is not inside.

`CallLimits` models admission control and all the threads that use it.

| Model | Code |
|---|---|
| `pc[c]` | where the thread(s) of a call are, from the listener to `common.release` |
| `lpc[l]`, `rest[l]`, `cur[l]` | a leg's place in `OriginateLegThread::Main`, its untried choices, the one it took |
| `inTaken[c]` | `CommonCallDetails::inTaken` |
| `lockIn[l]`, `lockOut[l]` | `inLocked`, `outLocked` in the leg's own copy of `SourceData` |
| `gwTaken[l]` | `OriginateLegThread::gwTaken` |
| `callsSem` ... `cardLocks` | the members of `Conf::Impl` of that name (`gwSem` is `gwCallsSem`) |
| `shutting`, `drained` | `inShuttingDown`; `waitForSignallingChannels` has returned |
| `TryTake`, `SmsCall`, `ReleaseSlot` | `tryTake` and its callers, the `smscall` command, `common.release` |
| `CallInfoFails`, `CallInfoFound` | `getCallInfo`'s two results with what they leave locked |
| `RejectCall`, `DropRoutedCall`, `ProxyCall`, `AnswerCall` | what each kind of caller does with the result |
| `ChoiceLacksGw`, `ChoiceRefused`, `TakeChoice` | the three results of `Conf::take` |
| `CloseChoice`, `RemoveCall` | `Conf::release`, `removeCall` |
| `ProxyEnds`, `RefusedCallEnds`, `AnswerLegEnds`, `LegEnds`, `CallBackLegEnds`, `CallBackInitFails` | the ends of the threads |

Abstractions: the order of a leg's choices is free (the code sorts by price and
priority); `ChoiceRefused` covers a peer that is gone, the call buffer and the
release complete timeout; peer 0, a registered card, is the choice `CardDest`.
The routes, cards and limits are constants: a reload of the configuration is not
modelled, nor a slave server, nor `disableSIP`.  Each call arrives once.  A step
under `mut` is one action; `smscall`'s three tries are one action, because a
failed one gives back what it took.  `httpCount` is left out of the wait, and so are
the returns of a listener that sees the shutdown before it takes a slot.  The
constructor of `CallBackCall` starts both legs in one step; that it does so
without its mutex is a hazard of its own.

`CallLimitsMC` gives the constants their values; `CallLimitsProofs` and
`CardsAndGwProofs` hold the proofs.

`Billing` is the abstract promise of the money: every charge of a call reaches
its account once, at an amount the tariff yields, and money moves between two
cards only whole.

`MoneySpool` models the money of the calls in progress.

| Model | Code |
|---|---|
| `stage[c]`, `age[c]`, `secs[c]` | the thread of a call or its RADIUS session, the seconds since `MoneyEater::created`, the seconds of the call or `Acct-Session-Time` |
| `mut` | the call whose `removeCall` or stop record holds `Conf::Impl::mut`; every other step under it is one action |
| `spools`, `total`, `used` | the keys of `cardCalls` and `customerCalls`; `totalMoney` and `usedMoney` |
| `attached`, `eaterUsed` | `eaters` and `nteaters` of all spools; an eater's `usedMoney` |
| `cached`, `cost` | `acctnToCard`; `CardInfo::cost`, `CustomerInfo::balance`, `ResponsibleInfo::balance` |
| `ledger`, `pending` | the database; the records that are not summed up there yet |
| `snapshot` | the balances of the `ConfData` a reload is building |
| `Setup`, `AddCall` | the balance checks of a route or Pin check; `addCall`, `addInEaters`, `addTrafEaters` |
| `BalanceCards`, `BalanceSecond` | the ticks of `EndThread` and of `reloadConf` |
| `HangUp`, `RemoveCall`, `RadiusStop`, `DelEater`, `Removed`, `AccountCall` | the end of a call, eater by eater |
| `ReloadRead`, `ReloadInstall` | the two halves of `reloadConf`, under two mutexes |
| `ApplyCodeSql`, `RefreshCards` | the two halves of `applyCode`, under two mutexes |

Which account each eater of a call drinks from is the constant `Payer`, so the
routing, the flags of cards and customers and the odd choices of the code
(`inCardTrafEater` drinks from the customer, `Conf.cxx:2406`) are data.
`Charge[e][s]` is `getMoney ( s )`: prices, rounding and amortisation are a table.
`valuteRate` is 1, cards are never deleted from the database, `credit` of a card
does not change, and an eater is as old as its call.  `Report` is external: other
programs sum the records up.  `checkPin` before and after `applyCode` is the
`Setup` of a RADIUS request.  The eaters of a RADIUS call-back are left to the
RADIUS module.

`MoneySpoolMC`, `MoneySpoolProofs` and `SpoolSumsProofs` belong to it.

`AnswerCall` models the object of one answered call and the threads of its legs:
the caller's `AnswerLegThread` and one `OriginateLegThread` for each fork.

| Model | Code |
|---|---|
| `first`, `second`, `delayed`, `useDelays`, `forkAccounted` | the members of `AnswerCall`; `delayed` is the keys of `delayedThreads` |
| `putOff[f]`, `accounted` | what a fork's `Delays` holds |
| `pc[f]`, `choice[f]`, `end`, `goodCall`, `begInited`, `isSendAddressSet` | a fork's place in `Main`, its choice, its members |
| `saw[f]`, `inHand[f]` | `useDelays` as it was read without the mutex; the `Delays` that `connected` took out of the map |
| `caller`, `callerQueue`, `closeQueued[f]` | the caller's loop and the messages for it; a `closeLocal` in a fork's queue |
| `NextChoice` ... `TakeChoice`, `Direct`, `SetDirect` | `Main`'s loop, `newChoice`, `setDirect` |
| `Connected`, `Win`, `TryToWin`, `ReplayDelays`, `Announce` | `connected`: the winner, what is put off and told |
| `CheckPeerMessages`, `IterationFails`, `CloseThisChoice`, `AccountCall`, `StopFork` | the rest of the loop and the end of the thread |
| `CallerMessage`, `CallerHangsUp`, `CallerLeaves`, `StopFirst` | the caller's loop, its end, `stop` |
| `billed`, `lateRings` | history: who wrote the full account; choices begun after a Close |

A critical section under `AnswerCall::mut` is one action.  `setPeer`, the address
and the payload type are put off and replayed as `setDirect` is, and left out, as
are the RTP session, hold and DTMF.  A message a leg gets twice is handled once.
That a wake-up may be lost only costs the three seconds of
`ThreadMessageQueue::get`.  `AnswerCallMC` and `AnswerCallProofs` belong to it.

`RadiusCalls` models the table of the calls and sessions that gateways authorise
and account by RADIUS.

| Model | Code |
|---|---|
| `spool` | `m_radiusCallsSpool`; an entry's flags are the members of `RadiusCall` and whether its call-back eaters are there |
| `confs`, `cardOf`, `locks` | `radiusAcctnToConf`, `radiusConfToAcctn`, `cardLocks` as far as RADIUS calls lock |
| `permits`, `taking` | `radiusCallsSem`; the RADIUS thread waits in `takeRadiusCall` |
| `CheckPin15`, `GetCreditTime`, `CardAlreadyLocked`, `SmsCallback2`, `SmsCallback3`, `TakeRadiusCall` | the requests |
| `OVRecord`, `StartRecord`, `OVStop`, `ATStop`, `FramedStop`, `SmsStop1`, `SmsStop2`, `AccountingOnOff` | the records of `handleAccounting` |
| `EraseStalledCardCall` | one call found by `checkStalledCardCalls` |
| `kind`, `heard`, `stray`, `dangling`, `saw15` | history: the service of a call, the records that came, locks and eaters that went wrong |

Each handler is one critical section under `Conf::mut`, so helpers
(`EraseRadiusLock`, `ClearRadiusSpool`, ...) are functions of the tables, and a
handler composes them as the code does.  A session identifier stands for one
call.  Prices, codes, the credit time, SQL rows and the eaters of traffic belong
to `MoneySpool` or are left out, and so are the requests of an administrator.  A
checkPin of an earlier call-back 1.5 erases the entry without naming a card
(`NoCard`), so that no lock is freed unless the pair of maps knows the card; a stop
record names one, and frees a lock of it even when this call has none (`stray`).  A
gateway asks nothing for a call after its
telephone leg's stop record; a packet that comes after a stop record it was sent
before has "crossed" it, and some properties except such calls.
`RadiusCallsMC` and `RadiusCallsProofs` belong to it.

`SipServer` models the server side of one INVITE.

| Model | Code |
|---|---|
| `trans` | the `ServerTransaction` in `SipTransportThread`'s map |
| `dialog` | its `ServerDialog`: the answer handler, whether 2xx was sent and the ACK came |
| `unlocked` | the dialog a BYE of the old format has found before the mutex was taken |
| `leg[l]` | the `SipAnswerLegThread2`: running, `oked`, detached, the peer's messages in its queue |
| `NewCall`, `InviteRefused`, `InviteAgain`, `ResendFails`, `RefusalOver`, `OkResendFails` | an INVITE and the timers, with a repeated answer that can or cannot be sent |
| `AckReceived`, `AckOfBranch`, `ByeReceived`, `OldByeFinds`, `OldByeTells`, `CancelReceived`, `HoldReceived`, `InfoReceived` | the other packets of the peer |
| `SendRinging`, `SendOk`, `DetachHandler` | what the leg calls in the transport |
| `PeerAlerted`, `PeerConnected`, `CloseLocal`, ... | what the leg does at a message of the call or of the peer |
| `heard`, `sent`, `failed`, `old`, `down` | history: the peer's requests, our answers, a lost 2xx, an old transaction, what brought the process down |

Both sides take the transport's mutex, so each call is one step, but for a BYE whose
branch has the old format, which is handled before (`siptransportthread.cxx:566`):
the legs' steps may come between its look-up and its end.  A packet may be lost,
repeated or late until the transaction has timed out, and any answer may fail to be
sent.  A late INVITE may open another call (`MaxLegs`); the insertion of its dialog
fails silently, because the first one's is there.  Or it is refused, for any of the
handler's reasons, and leaves a final response under the transaction of the first
call's dialog (`"refused"`).  An ACK with the branch of the INVITE confirms the
transaction at any time (`"early"` before the answer).  The call may tell the leg
something at any time, so its messages are read when they come and the queue holds
the peer's only.  A hold sent by the leg, DTMF in an INFO, REGISTER and merged
requests are left out, and so are the transactions in which the switch is the
client.
`SipServerMC` and `SipServerProofs` belong to it.

`Recovery` models the table `ActiveCalls`, the queue of the SQL thread and the
start after a crash.

| Model | Code |
|---|---|
| `queue`, `rows`, `bills`, `stamp` | the queue of `SqlOutThread`; the tables `ActiveCalls` and `radacctSS`, the row of the time stamp |
| `Start`, `StampTime` | `checkCrashedActiveCalls` and the new table; the stamp that `reloadConf` writes |
| `SqlConnect`, `AccountCall`, `SqlEnd`, `Execute` | `connected`, `accountCall`, `sqlEnd`; one query of the SQL thread |
| `Close`, `Exit`, `Crash` | the shutdown once the slots are free; its end; an end at any moment |
| `bornIn`, `written`, `cut`, `redone`, `unstamped` | history |

Time is counted in starts of the program.  The database survives and answers: a
query that fails is only logged by the code.  Rows whose price cache cannot be
read are dropped unbilled and are left out.  A row's end of call is the last time
stamp, which `ConfThread` writes every ten seconds, for the first time ten seconds
after a start (`confthread.cxx:23`).  A start that finds no rows does not write it, so
a program that ends before leaves a stamp of an earlier life, and its calls are billed
until then, a negative number of seconds (`Conf.cxx:3760`); `unstamped` has these
calls, and `TimelyBill` excepts them by name.  How the times within a life compare is
below the model's unit.  An end of the program between a call's account
and the delete of its row bills it again at the next start; `cut` counts those,
and `BilledOnce` allows as many.  A clean stop can do it too, to a call of the
proxy, which gives its slot back before `sqlEnd` (`signallingthread.cxx:689`).  A fork
that lost has no account of its own: any crash that finds its row lets the next start
bill it, and is counted as well.
`RecoveryMC` and `RecoveryProofs` belong to it.

`RasAnswers` models the wait of an H.323 gatekeeper client for GCF and RCF:
`seq` is `getSeqNum`'s counter, `answers` the maps `rrqAnswers` and `grqAnswers`,
and `Register`, `Discover`, `RegisterAgain`, `Answered`, `Registered`, `GotURQ`
the steps of the client and of the RAS thread.  The guard that should erase a
number holds a copy of the map (`Conf.cxx:1766`, `:1808`), so entries stay.
`SeqMod` stands for 2^16.  Nobody calls the wait for ACF.  `RasAnswersMC` belongs
to it.

## Runs

| Run | Instance | Checks |
|---|---|---|
| `peers` | an H.323, a SIP and a callpath call of one peer (limit 1), two outbound peers (limit 1; limit 2 with a route limit 1), two slots, one gateway slot | `PeersConserved`, `LimitsRespected`, `DrainsWhenQuiet`, `ShutdownDrains`, and that the slots and each outbound peer implement `LimitedPool` |
| `cards` | card a1 (two lines) calls itself and is called back, the legs of the call-back call card a2 (one line); they and a call with two forks share one gateway slot; three slots | `TypeOK`, `SlotsConserved`, `CardLinesRespected`, `GwLimitRespected` |
| `spool_cards` | a call of card k1, a call of card k2 to the owner of k1 that both pay for; k2's code may be applied to k1; reloads; two units on each card, calls of up to two seconds | `CardMemoryExact`, `ImplementsBilling`, `StoppedCallsSettle` |
| `spool_peers` | a gateway's call paid by a customer and its dealer, an Internet session paid by a card and, for its traffic, by the same customer; reloads | `TypeOK`, `UsedIsSum`, `SpoolsHaveEaters`, `NeverBelowLedger` |
| `spool_code` | two calls of the card whose code is applied | `AppliedCardIsSpent`, which fails |
| `answer_forks` | a call with one fork and a call with two, two choices each | `TypeOK`, `Lifetimes`, `DelaysFound`, `NobodyLeftBehind`, `AccountedOnce`, `OneMoreChoice`, `DirectOfWinner`, `EndedCallDeleted` |
| `radius_calls` | a telephone call of card A (one line) beside a session or a call-back by SMS of A or B (any lines, charged itself), one slot or two | `TypeOK`, `LocksMatchCalls`, `LocksHaveCalls`, `EndedCallsErased`, `EatersDetached`, `SlotsMatchCalls` |
| `radius_late` | the same | `TelephonyErasesWaiting`, which fails |
| `sip_server` | one INVITE and a second call opened by its late packet | `TypeOK`, `HandlersAlive`, `LegsReachable`, `EndedAtBothEnds`, `StaysUp` |
| `sip_stuck` | the same | `NoneTerminated`, which fails |
| `recovery` | a call of two legs, a proxied call, a fork that lost; three starts | `TypeOK`, `BilledOnce`, `NoneForgotten`, `TimelyBill` |
| `ras_wrap` | one client, four sequence numbers | `NeverRefused`, which fails |

Every limit is reached and hit again in these instances: three calls for two
slots, two legs for a peer of one, a card with one line locked from two sides.
More calls repeat the same conflicts; the proofs cover any number.

Two seconds and two units are enough for a spool to run dry in the middle of a
call, for the connect price to matter (one tariff charges it), and for two calls
to share an account: every step of `MoneySpool` moves at most two accounts.

Two forks are enough for one to win while the other is anywhere in its loop, and
two choices for a fork to lose a choice it has put requests off for; the theorems
of `AnswerCallProofs` cover any number of both.  Two RADIUS calls compete for the
one line of card A and, with the limit 1, for the slot; each service of the second
one is tried.  A second call opened by a late packet of the INVITE does to the
first what a third would do (`SipServerProofs` takes any number).  Three starts are
enough for a start that is itself cut short by a crash while it accounts the calls
of the life before.

The runs that fail show where the code departs from what it says:

- `spool_code`: what the comment at `Conf.cxx:2037` denies.  `applyCodeSql` runs
  under `confMut`, the cards are looked up under `mut`, so a call that arrives
  before `refreshCard` is admitted on money the card no longer has.
- `sip_stuck`: a repeated INVITE whose answer cannot be sent again leaves its
  transaction terminated in the map, since `handleRequest` does not look at what
  `requestReceived` returns (`siptransportthread.cxx:574`); `checkTimeout` throws
  at it ("checkTimeout in terminated state") in every loop from then on.
- `radius_late`: an entry that waits for the stop of the telephone leg ("not erasing,
  waiting for telephony", `Conf.cxx:2995`) is not erased by it when a start or interim
  record of the IP leg came late: the record sets `m_isOV` again (`Conf.cxx:3014`).
- `ras_wrap`: when the sequence numbers begin again, the numbers that were never
  erased refuse every wait ("rrq id already in map").

Three more ways to bring the transport down are named in `StaysUp` itself, without a
run of their own: an ACK with the branch of an INVITE that is not answered yet confirms
its transaction (`sip2.cxx:5064`), and the leg's next answer throws "new response in
confirmed state"; the INFO of an unknown package refuses the INVITE while an answer waits
in the leg's queue ("new response in completed state"); and the tag in the response to a
CANCEL lets the peer end the dialog of an INVITE that is not answered, which the code
calls "impossible" (`siptransportthread.cxx:1492`), and the next CANCEL reads it.

`shutting` may become true at any moment.  Three runs use fairness.  `spool_cards`
assumes that a call that was told to stop leaves its loop, that an ended thread
gets through `removeCall` and `accountCall`, and that its record is summed up; no
call, tick or reload is assumed to happen.  In `peers`, at
shutdown each loop of a thread breaks at its next iteration
(`originatelegthread.cxx:219`, `:319`, `answerlegthread.cxx:51`), a thread that is
scheduled gets on, and a call to `getCallInfo` returns.  `answer_forks` assumes
that a leg's thread gets on with its own steps, that the caller's leg looks into
its queue, and that it stops once told: `ThreadMessageQueue::get` returns after
three seconds whatever comes.  Nothing is assumed of the network or of
a party that hangs up.

`cards` does not check deadlock: a call-back
leg whose `init` fails never gives its slot back (`originatelegthread.cxx:609`),
so the wait at shutdown may really last for ever.  `answer_forks`, `sip_server`
and `recovery` stop when the call is deleted, the dialogs are over or the program
was started often enough, and in `radius_calls` the RADIUS thread does block at
the limit, in `radiusCallsSem.Wait`, until the sweep frees a slot.

What the runs do not promise, because the code does not: cards of forked calls
(each fork erases the one lock), and the gateway limit when a route mixes
protocols (`gwTaken` keeps the value of an earlier choice).  Both are hazards in
`PROJECT.json`, and the two properties state their conditions (`Forked`,
`NoMixedRoutes`).

## Proofs

`CallLimitsProofs` proves, for any sets of calls, peers and cards and any limits:

- `TypeCorrect`, `SlotsAreConserved`, `PeersAreConserved`, `LimitsAreRespected`;
- `ShutdownWaitIsQuiet`: the wait returns only when nobody owns a slot;
- `SlotsImplementPool`, `PeersImplementPools`: the refinement of `LimitedPool`.

The assumptions are those of `CallLimits`: finitely many calls, at least two
forks, disjoint names, natural limits.  The inductive invariant `IInv` adds to
the properties which stages of a call and of its legs go together (`CallStages`,
`LegStages`): without them a call could give back a slot it does not own, or a
leg start twice.  It also bounds the counters themselves (`CountersBounded`),
because a step checks a counter and not the set it stands for.  For each counter
one lemma says that a step adds or removes at most one holder and moves the
counter along (`SlotStep`, `InStep`, `OutStep`; a call-back adds two slots), and
`CountsOneKeeps` turns that into cardinalities.

`MoneySpoolProofs` proves, for any calls, accounts, tariffs and codes:

- `CardMemoryIsExact`: cache, spool and database agree on every card;
- `SpoolsLiveWithEaters`, `EatersFollowCalls`: spools live exactly as long as their
  eaters, and an eater is billed once it has left and reported later;
- `BillingImplemented`: the refinement of `Billing`.

The assumptions are that cards, customers and dealers are different accounts,
that charges are natural numbers and that a code is not applied to its own card.
The inductive invariant adds the stages in which an eater may be attached, billed
or pending (`EaterStages`: otherwise a charge could be paid twice), who holds the
mutex (`RemovalHolds`: otherwise the traffic of a session could be billed before it
is set), that bills are amounts of the tariff, and that a card which is not cached
has no change the cache has missed (`OutsideIsCached`: otherwise a fresh look-up
would be counted twice).

`AnswerCallProofs` proves, for any forks, any sets of them a route may yield and
any number of choices: `TypeOK`, `Lifetimes`, `DelaysFound`, `NobodyLeftBehind`,
`AccountedOnce`, `OneMoreChoice` and `DirectOfWinner`.  The assumptions are that
the forks are finitely many, that a route has one at least, and that the null
pointer is not a fork.  The inductive invariant adds whom the object knows at each
stage (`Members`: a leg exactly until its `stop`, and no fork both as winner and in
the map, or the last leg could not be told), that a fork which goes by an old value
of `useDelays` is in the map still (`OldValues`), that what is put off is of the
fork's present choice and what is in force of the winner's (`DirectKept`), which
forks have been accounted while the call is not (`Accounts`: the last to end must
see that the others have), and that a fork which rings after its Close will look
into its queue before it leaves the choice, or has done so (`RingsHeard`).

`SipServerProofs` proves, for any number of calls one INVITE may open: `TypeOK`,
`HandlersAlive`, `LegsReachable`, `EndedAtBothEnds` and `StaysUp`.  The assumption
is that there is a call and the null handler is none.  The inductive invariant says
that an answer handler runs, is not detached and has no disconnect in its queue,
and which refusals may have hidden it (`Attached`), that before the first call there
is nothing but refused INVITEs (`Fresh`), and, as long as there is one call, that its
leg hears of the end of the dialog (`Reachable`), how transaction, dialog and leg
keep step (`InStep`: a transaction that is not answered has its dialog, or a BYE or an
ACK came too early; a leg that may still answer has a transaction that takes the
answer, or no dialog, but for an early ACK or an INFO), and that the dialog of the 200
stays until a BYE (`Ended`).  A second call breaks the last three, which is why three
of the properties except it; a refused INVITE breaks `Ended`, and the handler that
`detachHandlerInt` then leaves behind is the exception of `HandlersAlive`.

`RadiusCallsProofs` proves, for any finite set of calls, any cards and lines and
any limits: `TypeOK`, `LocksMatchCalls`, `LocksHaveCalls`, `EndedCallsErased`,
`EatersDetached` and `SlotsMatchCalls`.  The handlers are functions of the tables,
so the lemmas are about tables: each helper keeps a table `Sound` (typed, the maps
inverse, the counts of locks right) and changes only what it says of its call
(`Others`).  The inductive part (`Fits`) ties the entry of a call to the records
heard of it: while no packet has crossed a stop record, the entry outlives the
stop of the telephone leg only for the leg over IP, and then without a lock and
without eaters, which is what makes the second stop erase it without harm.  That
`Released` stops counting at the limit is harmless because a slot that is given
back belongs to an entry (`SlotDropped`).

`RecoveryProofs` proves, for any calls, legs and number of starts: `TypeOK`,
`BilledOnce`, `NoneForgotten` and `TimelyBill`.  The assumptions are that a proxied
call has no losing leg and that the number of starts is natural.  None of the three
is inductive, because what is promised of the tables depends on what waits in the
queue.  The invariant says of the queue that a number names one call of one life
(`Numbers`), that the queries of the calls a start found come before the drop of the
table and those of this life behind it (`Order`: otherwise the drop would take a row
of this life), that a row the drop will meet has its delete before it and each
delete of an accounted call the account before that (`Accounts`: this is what keeps
`NoneForgotten` when a crash empties the queue), that a call which is over has its
delete waiting unless the row is gone (`Stopping`), and how many accounts are
written and waiting against those due and those cut (`Counts`).  `Times` says until
when they charge: a start that finds rows writes the time stamp at once, so a row of
an earlier life meets a stamp of this one.

`CardsAndGwProofs` proves, under the assumptions of `CallLimits`:

- `CardLinesAreRespected`: a card no call forks has as many entries in `cardLocks`
  as legs that locked it, and no more than its lines.  `CardsInv` adds that no lock
  is held before `getCallInfo` (`LocksFresh`); each step then moves the locks of one
  leg and one card at most (`LegMoves`), and entries grow only below the lines.
- `GwLimitIsRespected`: the gateway licence holds while routes do not mix protocols.
  `GwInv` adds what the stages of a call say of its legs' slots (`GwStages`), that
  `gwTaken` may be stale only for a leg all of whose choices need a slot
  (`GwFlags`), and that the free slots and the used ones together do not exceed the
  licence (`GwBounded`).  It is an inequality: a refused choice may lose a slot, no
  step gains one.

`SpoolSumsProofs` proves, under the assumptions of `MoneySpool`:

- `Typed`: `TypeOK`;
- `UsedIsTheSum`: `usedMoney` of a spool is the sum over its eaters;
- `NobodyIsChargedTwice`: `NeverBelowLedger`.

The sums are `MapThenSumSet`, a recursion over the subsets of a set.  The prover has
no induction over an operator, so the module goes another way: the recursion has one
solution on a finite set (`OneSum`, by a smallest subset on which two solutions
differ), and a sum of natural numbers is the size of a set of units (`Weight`), of
which the library's theorems on finite sets say what a union, one element more or
one less do; it solves the recursion, so it is the sum (`SumIsWeight`).
`SumsInv` adds to the invariant of `MoneySpoolProofs` that finitely many eaters are
attached or billed at a time, although the calls that may come are any set
(`Finitely`), and that an eater off its spool, or one for octets before the stop
record, has used nothing (`EaterMoney`: otherwise a connect would change a sum
without changing `usedMoney`, and a stop record would charge octets on top of
others).  `NeverBelowLedger` is itself inductive with these: the end of a call takes
the same money from the cache and the spool that it adds to the debts, and the
report moves it from the debts to the balance.

Two results no run lists: `PayersGoTogether` (`MoneySpoolProofs`: when the eaters of
a call are gone, all its payers are billed or none is) and `LastLegLeavesNothing`
(`AnswerCallProofs`: a call object whose legs have all stopped is deleted; with
`LastLegDeletes` it is deleted exactly then).

Every safety property of the passing runs has a theorem.  What stays model-checked is
liveness (`ShutdownDrains`, `StoppedCallsSettle`, `EndedCallDeleted`), which rests on
fairness and `ENABLED` and is beyond the prover, and the four counterexamples.

## Plan

1. `CallLimits`, `LimitedPool`: done, with proofs.
2. `MoneySpool`, `Billing`: done, with proofs.
3. `AnswerCall`: done, with proofs.
4. `RadiusCalls`: done, with proofs.
5. `SipServer`: done, with proofs.  The client side of a transaction and the hold a
   leg sends would be a module of their own.
6. `Recovery`: done, with proofs.
7. `RasAnswers`: done; nothing is proved of it.
8. To do later: more results that no run can state for every instance, such as what
   stays true of a forked card or of a route that mixes protocols.

## Not modelled

- The generated ASN.1 code (`h225`, `h245`, `asnparser`), most of the lines of the
  repository, and the text parsers: conversions without a state of their own.
- The content of H.323, SIP and MGCP messages, codecs, tunnelling, hold and DTMF:
  what a leg does to the call, the transport and the limits is modelled, what it
  writes into a message is not.
- The H.245 relay: a stack of handlers in one thread that rewrites the control
  channel of one call.
- Registrations: two tables whose entries expire, each changed in single steps
  under one mutex.
- The RTP relay (control of a kernel module and of sockets) and the HTTP pages.
- Prefix search, tariffs and the price of a call: data of the models.
- The call buffer, the release complete timeout and the fake call detector: their
  refusals are the choice `ChoiceRefused`; what they compute is statistics of past
  calls.
- The old SIP signalling thread, which `New.cxx:127` comments out, and the helper
  libraries.
