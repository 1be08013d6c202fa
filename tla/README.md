# Verification of the secure call of Silent Phone

TLA+ models, TLC configurations and TLAPS proofs for the parts of Silent Phone (iOS and Android)
that decide whether a call is set up, secure and stays so: the SIP session of a call, the ZRTP key
agreement, its session, its retained secrets, its timers, and the packet index of SRTP. Paths are relative to `src/`; `libs/zrtp` is abbreviated
to `zrtp/` where it is clear.

## 1. Inventory

Silent Phone is a SIP phone. `silentphone/tiviengine` holds the SIP user agent and the media
streams, `libs/zrtp` the ZRTP and SDES key agreement and SRTP. Vendored and left aside: PolarSSL,
Speex, SQLite, bnlib, the ciphers, the codecs; also the user interfaces.

| component | state | operations | interacts with |
|---|---|---|---|
| ZRTP engine (`zrtp/zrtp/ZrtpStateClass.cpp`) | protocol state, `sentPacket`, T1/T2, resend counters, `commitPkt` | `processEvent` for start, packet, timer, close, error | ZRtp (preparing packets), the stream (send, timers, SRTP switches) |
| ZRTP packets (`zrtp/zrtp/ZRtp.cpp`) | hash chain, peer Hello, DH and hvi values, role, keys, `zidRec`, the chosen algorithms | `prepareXxx`, `findBestXxx`, key derivation, `SASVerified` | engine, ZID cache, configuration |
| ZRTP configuration (`zrtp/zrtp/ZrtpConfigure.cpp`, `silentphone/tiviengine/g_cfg.cpp`) | enumerations of algorithms, the lists an engine offers | `addAlgo`, `setStandardConfig`, `setupConfiguration` | copied into each engine |
| ZRTP stream (`zrtp/clients/tivi/CtZrtpStream.cpp`) | the engine, four SRTP contexts, packet counters, the stream's lock | `processIncomingRtp`, `processOutgoingRtp`, `stopStream`, `handleTimeout`, callbacks | engine, SRTP, timeout provider, session |
| ZRTP session (`zrtp/clients/tivi/CtZrtpSession.cpp`) | two streams, master key data for the slave | `init`, `start`, `stop`, `masterStreamSecure`, `setVerify` | streams; called by SIP and audio threads |
| Timeout provider (`zrtp/clients/tivi/TiviTimeoutProvider.h`) | ordered list, lock, event, worker thread | `requestTimeout`, `cancelRequest`, `OnTask`, `stopThread` | all streams of the process |
| Retained secrets, ZID cache (`zrtp/zrtp/ZIDCacheFile.cpp`, `ZIDRecordFile.cpp`) | a file of records: rs1, rs2, validity and SAS flags | `getRecord`, `saveRecord`, `setNewRs1`, migration | engines of all calls share one `FILE` |
| SRTP (`zrtp/srtp/CryptoContext.cpp`, `SrtpHandler.cpp`) | roc, `s_l`, replay window, keys | `protect`, `unprotect` | ZRTP and SDES streams |
| SDES (`zrtp/zrtp/ZrtpSdesStream.cpp`) | offer/answer state, crypto contexts | create/parse SDES, mixing | SIP/SDP, SRTP |
| SIP engine (`silentphone/tiviengine/CPhone.cpp`, `CSessions.cpp`, `threads.cpp`) | session table, registration, pending requests | receive, timer and user threads: call, answer, end, retransmit | SIP transport, media, ZRTP session |
| SIP transport (`silentphone/tiviengine/CTSipSock.cpp`) | socket, send queue with busy flags | `addToQuve`, `sendQuve`, receive, reconnect | SIP engine |
| RTP queue and jitter (`silentphone/audio/CTRtpQueue.h`, `CTJit.h`) | ring of packets, roll-over | put, get, reset | receive and audio threads |
| Media (`silentphone/tiviengine/media.cpp`) | RTP sockets, codecs | send, receive | ZRTP stream, RTP queue |

What is hard here:

* **Ordering and loss.** ZRTP runs over UDP with its own resending: both Hellos and both Commits
  cross, answers are repeated, timers fire while their answers are processed, a new call starts
  while packets of the last one are under way.
* **Threads.** The timeout provider's worker, the RTP receive thread of each stream, the SIP threads
  and the user interface meet in one stream; the provider's list, the ZID file, the session's
  start and the SIP send queue are shared.
* **Partial failure.** The two ends store the new retained secret at different moments, and
  switch SRTP on in two steps.
* **Numbers.** The 48-bit SRTP index is guessed from 16 bits; deadlines are compared for order.

The hazards, each at its line and with the properties about it, are listed in `PROJECT.json`.
What would make each component correct:

* engine: at most one Initiator; both ends encrypt under one confirmed key; no packet re-keys a secure
  call and only a malformed one ends it; nothing waits for ever (sections 3 and 4);
* negotiation: both ends, choosing from each other's Hello before they know their roles, end with one
  suite, out of what they offered, and never refuse each other;
* provider: the list is ordered, each stream has a timer of its own, the worker does not sleep past the
  first request, no deadlock;
* retained secrets: both ends mix the same secret, the SAS flag is earned, a cut call does not
  break the chain;
* SRTP: no index twice, no replay, no stall;
* SIP: a user interface is told what the session holds; nobody talks in a call that was not answered or
  that has ended; the memory of a call that is over is freed;
* session: the slave stream starts, and never without the master's data;
* SDES, send queue, RTP queue (not modelled yet): both ends of an offer/answer agree on the suite; a
  queued message is sent once; no packet is played twice or after a reset.

## 2. Plan

1. *(done)* the ZRTP engine at both ends over an unreliable network, with its timers, restarts
   and multi-stream mode, and its proofs;
2. *(done)* the timeout provider, the timers it implements, and the proof; the SRTP index with its proof; the retained secrets;
3. *(done)* the start of the slave stream by two threads, with its proof; left: the lifetime of an
   engine, `stopStream` against `handleTimeout`;
4. *(done)* the negotiation of the algorithms, from the Hellos to the slave streams, with its proofs;
5. *(done)* the SIP session of one call between two user agents over UDP, the abstract call it
   implements, and their proofs; left: the send queue of `CTSipSock`, registration, several calls;
6. the RTP queue's ring, and the ZID file at the level of seek, read and write;
7. an abstract key agreement (two ends, none or one agreed key, secure only after confirmation)
   that `ZrtpStateClass` implements under a refinement mapping;
8. *(done)* proofs of every invariant the runs check (section 5); left: `SecureAgreement` in
   multi-stream mode for two starts, and `AppMatches` with a
   change of network once the declined re-INVITE (section 4) is told apart.

## 3. Modules

`MCXxx` modules hold only what TLC needs (model values, symmetry); every module is checked as it is
proved. In each module an operator named in a comment `Mutant:` is a plausible bug of the
definition below it; it is not part of the specification and is only used to see that a
property notices it.

### ZrtpStateClass (with ZRtp.cpp and CtZrtpStream.cpp)

Two ends, `Alice` and `Bob`, run the same engine. One action is one event handled under the stream's
lock (`synchEnter`/`synchLeave` around `processEvent`): an action per state and kind of packet
(`DetectHello`, `AckSentCommit`, `CommitClashWon`, `WaitConfirm1Confirm1`, ...), per timer event
(`TimerHello`, `TimerResend`, `TimerFailed`, `TimerUnexpected`, `TimerIgnored`),
`StartCheck` and `Start*` (the test in `startZrtpEngine` and the event, which are two steps since the
test is outside the lock), `Close` (`stopStream`, then a new engine), `Malformed` (a packet
whose length field does not fit) and `SendRtp`.

| variable | code |
|---|---|
| `state`, `sent` | `inState`, `sentPacket` (by kind: the packet objects are members of ZRtp, so resending sends their present contents) |
| `timer` | `req`: requests in the provider; `due`: one taken out but not yet handed over; `lost`: the last request was dropped; `counter` and `maxT1`: the resend counters |
| `neg` | what ZRtp keeps: how it was set up (DH or multi-stream mode, protocol versions; also what may happen to the end: `drops`, its provider may drop requests, and `malformed`, how many such packets may come), hash chain (the engine's number), version, peer Hello, DH value, hvi, role, key |
| `srtp` | `recvSrtp`, `sendSrtp` of the stream, by key |
| `user`, `drawn` | start calls in progress or left, malformed packets that may still come, random values drawn |
| `net` | every packet ever sent |

`net` only grows: a delivery takes nothing away, so loss, delay, reordering and duplication, also into a
later engine of the same stream, are all behaviours. A timer event takes two steps
(`TimerPop`, `TimerXxx`) because the provider gives up its lock before it calls the stream;
the handlers of packets in between call `cancelTimer` in vain. `activateTimer` reports success
whatever the provider does, and the provider drops a request whose deadline equals the last one's
(TiviTimeoutProvider.h:204-223): `ActivateTimer` queues the request or, where the set-up allows it, sets `lost`.
That each stream may be given a timer of its own here, though all share one list and one thread, is what
`StreamTimers` says and `TimeoutProvider` is shown to implement.

A malformed packet makes every engine but one in WaitErrorAck send Error and go to WaitErrorAck
(ZrtpStateClass.cpp:94-104), a secure one too. `sendErrorPacket` does not call `srtpSecretsOff`, so contexts
that were on stay on until the stream is stopped or secure again (`LeftOver`).

Cryptography is abstracted to what the code's checks tell apart: a hash chain is the number
of its engine, a DH value a number that also orders the hvi values, the key `s0` the record of
what is hashed into it. Not modelled: SAS relay and PBX, Ping, GoClear (commented
out), failure of `send` or of algorithm negotiation, and of `startTimer`, which never reports one in this client
(CtZrtpStream.cpp:932-938). In this build an engine
offers one protocol version (ZRtp.h:58); the run with two versions shows Bob with a later
build (ZRtp.h:55 provides for two). `Setups` is the set of set-ups Init chooses from; the assumption
that both ends are in the same mode stands for the session: a slave stream's engine starts
only with the master's data (CtZrtpSession.cpp:225-261).

### ZrtpNegotiation (with ZRtp.cpp, ZrtpConfigure.cpp and CtZrtpSession.cpp)

`config` is each phone's configuration, which is also what its Hello lists; `audio` and `video` are the
engines of the master and of the slave stream: the suite they are set to, the algorithm of `dhContext`
and the hash under which the ids of the retained secrets were computed (`TakeOver`: what
`prepareDHPart1` computes again). A step is one packet prepared (`PrepareCommit`, `PrepareDHPart1`,
`PrepareDHPart2`, and their multi-stream counterparts) or the data handed to the slave
(`MasterStreamSecure`). Either end may become Responder; that not both do is `OneInitiator` of
ZrtpStateClass, and losses are left to it. The four `findBestXxx` of one shape are one operator
(`FindBest`), `findBestPubkey` is written as what its two loops compute. A configuration is
any lists `addAlgo` can build; `setupConfiguration` and `Loaded` (what the client corrects after reading its
settings) give those of this client, `setStandardConfig`, `setMandatoryOnly`, an order of its own and
an empty configuration stand for other programs with this library. Names in a Hello that are not
implemented are not modelled: `getByName` drops them.

### TimeoutProvider, which implements StreamTimers

`StreamTimers` is what a stream relies on: the number of its own requests that are queued (`req`), and the one taken out
that is on its way to it (`due`). `Request`, `Cancel`, `Take` and `Deliver` are about one stream each; only
`StopThread` throws a queued request away. A request that the provider drops is a `Request` that never
happens, so the abstract timer makes no promise that one is queued (see `bug_lost_request`).

`TimeoutProvider` has the list of requests of all streams, the provider's lock, each stream's lock, the calls in progress, the
worker's place in `OnTask`. One action per critical section or wait. The event of `EventClass.cpp` is a bare condition
variable: a signal nobody waits for is lost (`Set`). A request's subscriber and command are one value (each
stream uses one command); its deadline is computed before the lock is taken and kept as the time left, which
stops at -1. `plan` is a history variable: the time left until the worker means to wake, and whether a signal came
between its look at the list and its wait. `stopThread` is modelled though this client never calls it.

### CryptoContext

The sender's `roc` and sequence number; the receiver's `s_l`, `roc`, `seqNumSet` and replay window
as a set of bit positions; packets by the index they were protected with, so that the tag fits exactly when
the receiver guesses that index. `replay_window << delta` and `1 << delta` with a count outside the
width are undefined: the model takes every result a processor gives (count taken modulo the width, or everything shifted out).
`Unprotected` is a plain RTP packet from before encryption, which also reaches `checkReplay` and sets
`s_l`; such packets are as late as `Late` allows. Sequence numbers start at 1 (CTPhMediaBase.h:63,
media.cpp:384), so SRTP begins in the lower half of a cycle. Not modelled: SRTCP, MKI, key derivation,
the NULL algorithms.

### SipSession, which implements PhoneCall

`PhoneCall` is what the user interface relies on: `caller` and `callee` are the last callback each got
(`onCalling`, `onIncomCall`, `onStartCall`, `onEndCall`), `answered` says that the callee's user has answered.
A caller is told that the call stands only after that; after the end of a call nobody talks in it.
`SipSession` instantiates it (`Phone`) with its `app`. A caller whose session rings for a re-INVITE
of the callee is told nothing (`notifyIncomingCall` returns for `iCaller`, CSessions.cpp:404).

`ses` holds the `CSesBase` of each phone for one Call-ID. Each step is what one thread does under
`cMutexSip`: the user interface (`Call`, `AnswerCall`, `Hangup`, `ReInvite`), the receive thread (`Receive`:
a `RecXxx` for each branch of `recMsg` and `onSipMsgSes`, `RecUnknown` and `RecIncoming` without a session), the
timer thread (`ClearMem`, `GiveUp`, `Resend` of `handleSessions`, `Unanswered` of `onTimer`) and
`ReInviteAll` after a change of network. `onEndCall`, which `onKillSes` calls at its end, belongs to the step.

| variable | code |
|---|---|
| `ses[x]` | `st`, `sub`: `iCallStat`, `iCallSubStat`; `sendS`, `waitS`: `iSendS`, `iWaitS`; `retr`, `armed`: `iRetransmitions`, whether `uiNextRetransmit` is set; `buf`: `sSendTo.data`; `killed`, `clear`: `iKillCalled`, `uiClearMemAt`; `tick`: `uiSend480AfterTicks`; `tag`: the callee's tag; `media`: `mBase`; `told`: `iOnEndCalled`; `reinv`: `iSendingReinvite` |
| `app` | the last callback to the user interface |
| `net` | the datagrams on their way, a set; a step takes one out or leaves a duplicate, and what it sends may be lost (`Exchange`) |
| `tags` | sessions the callee has created for this Call-ID: a late INVITE makes a new one |

A message is its receiver, method, status code (0: a request) and the callee's tag, which is how `findSes`
tells sessions of one Call-ID apart. Times are abstracted: a timer that is set may expire at any moment. With
`Prompt` a message is repeated only when no copy of it is on its way, and the last timers (giving up, the
minute of ringing) expire only when nothing is: datagrams take less than the half second of the first repetition;
without it they take as long as they like. `Roaming` allows `ReInviteAll`; `Busy` gives the two reasons to
refuse a call (no free slot, a GSM call). CSeq is not kept: a session takes an answer to an older
request for one to the present, where the code does too. `iRetransmitions` below zero has one value.

Not modelled: several calls in one table (`Busy` stands for them), authentication and redirection, SDP that
cannot be used, automatic answer, REGISTER, MESSAGE, OPTIONS, UPDATE, INFO, TCP and TLS, and the caller's user
who answers when the callee's re-INVITE rings.

### ZrtpSession

The start of the slave (video) stream in `CtZrtpSession`, for one call after the other with one session
object. The thread that receives video runs `startIfNotStarted` and `start` for every packet
(`StartIfNotStarted`, `Enable`, `TestParam`, then `StartSlave`), the thread that receives audio
`masterStreamSecure` once (`GetMultiStrParams`, `TestEnable`, then `StartSlave`). They share `enableZrtp`
and `multiStreamParameter` without a lock, so each access is a step, and when both have stored and both test, either may not yet see the
other's store (`BothMiss`); only the next video packet then starts the slave. `CopyParam` and `SetMultiStrParams` are two
steps, since the string is passed by value. `StartZrtpEngine` does nothing for a running engine. SDES is
reduced to its effect on the audio stream's state, which lets video start before ZRTP is done.
`Release` (`stopStream`) comes after the media threads have left the session.

### RetainedSecrets

Several calls, one after the other (`MaxActive = 1`) or overlapping, between two phones. `cache` is
the record in each phone's file, `end[n][p]` the engine of phone p in call n with its copy `zidRec`, the
secret it selected (`s1`) and its stage; `sent` the packets of the call. The engine's states and
resending are those of ZrtpStateClass and left out here; a call may stop (`Stop`) or a phone crash
(`Crash`) at any point, and a phone may lose its file between calls (`LoseCache`: it then has a new
ZID, so both records are empty). The secret of call n is n, 0 the data of an empty record; `trusted` and
`cuts` are histories. `SetVerify` is the user's button, offered while the call is secure. Not
modelled: expiry (-1, never), PBX secrets, paranoid mode (never set in this client), the SQLite backend.

## 4. What the runs check

| run | question | bounds |
|---|---|---|
| `zrtp_dh` | DH mode, one negotiation, one resend per timer; Bob's build speaks versions 1 and 2, or 2 only (no common one: nobody gets secure), and his provider may drop requests, or both have version 1 and Bob gets a malformed packet: at most one Initiator, the Responder secure first, a resending end has asked for a timeout, agreed version, only a malformed packet ends a secure call, waits end, both ends get secure if they have a common version and everything comes in time and whole | Draws 3, T1 = T2 = 1, one engine and one start per end, one malformed packet |
| `zrtp_restart` | streams stopped and started again with packets of the old engines still arriving, in DH and in multi-stream mode (where the key comes from the master's), in DH mode also with a malformed packet at one end: packet to resend, its timeout asked for, SRTP contexts, confirmation, agreement; in DH mode no key used twice by a sender that is switched on again | Draws 4, two engines and two starts per end; no timeouts delivered; an end that may get a malformed packet keeps its engine |
| `timeout` | list ordered, the worker's sleep no longer than the front allows, every call into the provider returns, the front of the list is served, the timer of `StreamTimers` implemented; no deadlock | one stream, three requests, delays 1 and 2 |
| `srtp` | index new, roc right, newest packet accepted, accepted packets refused, a rollover heals | cycle of 28 numbers, window of 4 bits, int of 2, over three rollovers, delay up to 5, up to 6 lost in a row |
| `negotiation` | nobody refuses, one key algorithm before and one suite after the roles are taken, the Responder's suite within its own Hello, slaves like their masters | every pair of the client's configurations (all settings of key algorithms, hash and ciphers; SAS type and authentication vary for one choice of these, as nothing depends on both) and four others |
| `secrets` | same secret selected, SAS flag earned and the same at both ends, chain kept over one cut | four calls |
| `sip_call` | the user interface told what the session holds; the abstract call implemented; a session that is over has a timer and its slot is freed, unless it is stranded | one lost or repeated datagram, one re-INVITE, INVITE sent twice and other requests three times, two sessions at the callee, change of network, two datagrams of users and timers in flight (answers are not held back) |
| `session` | the slave starts, never without the master's data | two calls with one session object |

The bounds are enough for the cases the hazards name: three draws give both orders of two hvi values and a
new draw after it; one resend before the limit reaches every resend and every failure of a timer; two
engines per end give leftovers of an old negotiation at either or both ends; `zrtp_restart` leaves out timeouts
(`NoTimeouts`) because with a growing `net` a resent packet is one that is delivered
again. The malformed packet comes to one end at its first start, when it has SRTP contexts (`SrtpOutlives`): the
cases of interest are what becomes of those contexts when the engine starts again. The SRTP cycle is longer than twice window + delay + loss, so a late packet, a gap and
a rollover can fall together; four calls are a good one, two cut ones and the one that notices.
In `timeout` one stream's thread and the worker take both locks, in both orders, and three requests give a
front, a back and one between, cancelled or joined by others while the worker delivers. The temporal properties are
too expensive with a second stream; that any number of streams and any delays keep `Sorted`, `NotOverslept` and
`TimersSpec` is what the theorems of TimeoutProofs say. In `sip_call` the one fault
may meet any message of the call, and a message that gets no answer its session accepts (a BYE answered 481) is
repeated until the counter runs out, so that giving up is reached too. Two calls with one
session object show what the first leaves to the second.
`CHECK_DEADLOCK FALSE` stands where the system may stop: all calls made (also the one call of `sip_call`), all packets sent, all starts used. In `zrtp_*` and
`srtp` histories and counters end behaviours by their bound. `timeout` checks deadlock.

Assertions of the code's own comments that do not hold (runs `bug_*`, expected to be violated):

* `bug_both_passive` (`HelloStillToCome`): ZrtpStateClass.cpp:237-239 says of a HelloAck in Detect that the
  peer's Hello has not been seen yet, and that AckDetected is to wait for it. An end that has seen the Hello and
  whose T1 ran out in AckSent is back in Detect; a late HelloAck brings it to AckDetected, and if the peer
  has stopped sending Hello (it is in AckDetected or WaitCommit) both ends are passive for ever.
* `bug_lost_request` (`RequestIsQueued`): a timeout request as late as the last one in the
  list matches none of the tests of the insert loop (TiviTimeoutProvider.h:204-219) and is lost.
* `bug_late_rollover` (`NewestAlwaysAccepted`): a packet of the last cycle that arrives after the
  rollover moves `s_l` to that cycle's end without the roc (CryptoContext.cpp:422); newer packets are
  refused until the next rollover.
* `bug_stale_record` (`StopKeepsSecrets`): with two calls to one peer, `stopStream` saves the copy
  of the record its engine read at the start over the secret the other call stored
  (CtZrtpStream.cpp:98-104, ZRtp.cpp:2278). With overlapping calls `SasMeansVerified` and `ContinuityAfterCut`
  fail as well: the old copy brings back a SAS flag that the user has taken back, and loses a secret. `secrets` therefore has one call at a time.

Other places where code and comment differ, met while modelling and modelled as the code does: a Timer event
that reaches a state without a timer is taken for a protocol error (ZrtpStateClass.cpp:1009-1015 and
639-644; the comments at 952 and 549 say the timer is not active); CommitSent after a lost clash may hold no Commit
to resend (746 against 859); AckSent's timer is stopped before the Commit is known to be good (387
against 476); the worker may sleep up to an hour past a request whose signal came between its
unlock and its wait (TiviTimeoutProvider.h:274-278 against 184-185), unless another request arrives: `plan.missed` marks
this case, which `NotOverslept` has to exempt; the replay
bit of a late packet is not recorded reliably (`1 << negative`, CryptoContext.cpp:417); with ECDH-384 the
cipher is the first 256-bit one of the peer's Hello (ZRtp.cpp:1495, 1593-1603), so a phone with Twofish disabled uses
it, though ZrtpConfigure.h:302-303 says that a configuration restricts the algorithms used.

Many properties are stated so that they hold; what they had to leave room for is behaviour of the code a
reader should know. In the engine and its timers:

* a malformed packet takes an end out of a secure call (ZrtpStateClass.cpp:94-104) and leaves its SRTP
  contexts on (`SecureIsKept` and `SrtpMatchesState` name the case); the peer stays in SecureState until it
  gets the Error;
* a dropped timeout request leaves a state that resends without a timer, though `startTimer` has reported
  success: `RetransmissionArmed` and `WaitsEnd` exempt it (`timer.lost`). The first says no more than that every
  path through the engine has asked;
* AckSent is not among those states: a Commit it ignores has stopped its timer (line 476), after which it
  waits for the peer alone;
* in multi-stream mode the Responder adds nothing of its own to the key, so `KeyNeverReused` is stated for DH mode
  (section 5 says at which bounds it breaks).

In the SIP session and the ZRTP session:

* a call that was declined waits in `ESendError` for the ACK. An INVITE that arrives meanwhile clears
  `iWaitS` (CSessions.cpp:654-657), after which neither the ACK nor a timer ends the session, once the
  one-minute timer has been used. `Stranded` names these sessions; they keep their slot for ever, and
  `EndingIsTimed` and `EndedIsFreed` say nothing of them;
* `uiSend480AfterTicks` is not cleared by `endCall`, so a declined call may be ended a second time, with 480;
* an answer to INVITE that arrives in `EEnding`, such as a 180 that crosses a CANCEL, gets a BYE made from what
  the session knows (CSessions.cpp:509-522): without a To tag when it is the first answer, so the callee says 481;
* a callee that never gets the ACK of its 200 gives up without a BYE (`onKillSes`), and the caller is left
  talking until its user hangs up or its next re-INVITE is refused. There is therefore no property that the end of
  a call reaches the other end: with the retransmissions of `sip_call` and a second lost datagram TLC finds the
  caller left talking;
* after a change of network a callee that has declined a call sends a re-INVITE for it
  (`ReInviteAll` asks only for `EEnding`); the caller's answer may come back as a 200 that makes the declined
  call one that stands. This needs a datagram that is late by more than the retransmission, so
  `sip_call` (`Prompt`) passes with `Roaming`, and the theorems assume no change of network;
* during a GSM call, or for a second call of the same user, a CANCEL without a session is refused with 486
  (CPhone.cpp:1934-1935), which stops the caller's retransmission and
  leaves its session in `EEnding` without a timer; `Busy` is empty in `sip_call`, and
  `EndingIsTimedCorrect` has the absence of a GSM call as its hypothesis (stranded sessions are exempt in
  `EndingIsTimed` itself);
* a late 486, or an error to a re-INVITE, ends a standing call without a BYE; the rule in
  CSessions.cpp:523-526 (491 while an own INVITE is in progress) is followed by the callee only;
* `multiStreamParameter` is not cleared when a call ends, so the slave of a second call whose audio has SDES
  may start with the parameters of the first (CtZrtpSession.h:163-180 speaks of the master stream's);
  `SlaveIsKeyed` therefore asks for parameters, not for those of this call.

### Fairness

* `ZrtpStateClass`: `TimerFairness`, the provider's thread goes on: weak fairness of `TimerPop`
  and `TimerStep`. It gives `WaitsEnd` without any assumption on the network. `Progress` assumes in
  addition what no code can give: the starts happen, and a packet that would move an engine on is
  delivered in the end (`NetworkFairness`), before the resend counters run out and without a malformed packet
  (`InTime`); since `net` only grows, it is then a statement about interleavings, not about resending.
  These stand as assumptions in the properties themselves, so that the theorems and the safety runs use plain
  `Spec`.
* `TimeoutProvider`: time passes, the worker's steps are weakly fair while nothing can disable them; taking
  a mutex is strongly fair (a mutex is handed over between waiters again and again), and a holder of a
  stream's lock gives it up.
* `SipSession`: the receive and the timer thread of each phone keep running (`WF Receive`, `WF Timer`, the loops
  of threads.cpp); no user has to do anything. A lost datagram is made good by the counters, not by an
  assumption on the network.
* `ZrtpSession`: video packets keep coming while the call lasts (`WF VideoThread`), and the audio
  thread goes on with what it has begun.
* `CryptoContext`, `RetainedSecrets` and `ZrtpNegotiation` have safety properties only.

## 5. What is proved

For every value of the constants that satisfies the named assumptions (for any versions, any limits, any
number of engines and packets; cycle, window and delay of any size with Late + MaxLost < half a
cycle; any set of configurations in which EC38 comes with S384 and the multi-stream mode is offered; any set
of streams and delays; any number of retransmissions, faults, sessions and re-INVITEs, with datagrams late as they like;
any number of calls between two phones). Three hypotheses appear in the theorems themselves, each because the property is false
without it: *DH mode* (`DiffieHellman`: no engine starts in multi-stream mode), *one start* (`OneStart`: one engine and one start
per end) and *one call* (`[]OneCall`: no session of a call opens before those of the last one have ended).

| theorem | module | property |
|---|---|---|
| `TypeCorrect` | ZrtpProofs | `TypeOK` |
| `SentPacketCorrect` | ZrtpProofs | `SentMatchesState` |
| `SrtpCorrect` | ZrtpProofs | `SrtpMatchesState` |
| `KeyConfirmedCorrect` | ZrtpProofs | `KeyConfirmed` |
| `SecureIsKeptCorrect` | ZrtpProofs | `SecureIsKept` |
| `RetransmissionArmedCorrect` | ZrtpProofs | `RetransmissionArmed` |
| `VersionAgreedCorrect` | ZrtpProofs | `VersionAgreed` |
| `SecureAgreementCorrect` | ZrtpProofs | `SecureAgreement`, DH mode |
| `KeyNeverReusedCorrect` | ZrtpProofs | `KeyNeverReused` (which is about streams in DH mode) |
| `OneInitiatorCorrect` | ZrtpProofs | `OneInitiator`, one start |
| `ResponderSecureFirstCorrect` | ZrtpProofs | `ResponderSecureFirst`, one start |
| `CryptoTypeCorrect` | CryptoProofs | `TypeOK` |
| `IndexIsNewCorrect` | CryptoProofs | `IndexIsNew` |
| `RocIsNewestCorrect` | CryptoProofs | `RocIsNewest` |
| `NewestAcceptedCorrect` | CryptoProofs | `NewestAccepted` |
| `NotAcceptedTwiceCorrect` | CryptoProofs | `NotAcceptedTwice` |
| `NextRolloverHealsCorrect` | CryptoProofs | `NextRolloverHeals` |
| `RetainedTypeCorrect` | RetainedProofs | `TypeOK` |
| `KeysAgreeCorrect` | RetainedProofs | `KeysAgree` |
| `FlagsAgreeCorrect` | RetainedProofs | `FlagsAgree` |
| `SasMeansVerifiedCorrect` | RetainedProofs | `SasMeansVerified`, one call |
| `ContinuityAfterCutCorrect` | RetainedProofs | `ContinuityAfterCut`, one call |
| `OneSessionOneCall` | RetainedProofs | `OneCall`, if `MaxActive = 1` |
| `PubkeySymmetric` | NegotiationProofs | `findBestPubkey` has one result for both ends |
| `NoFailureCorrect` | NegotiationProofs | `NoFailure` |
| `PubKeyAgreedCorrect` | NegotiationProofs | `PubKeyAgreed` |
| `SuiteAgreedCorrect` | NegotiationProofs | `SuiteAgreed` |
| `ResponderOfferedCorrect` | NegotiationProofs | `ResponderOffered` |
| `SlaveLikeMasterCorrect` | NegotiationProofs | `SlaveLikeMaster` |
| `ProviderTypeCorrect` | TimeoutProofs | `TypeOK` |
| `SortedCorrect` | TimeoutProofs | `Sorted` |
| `NotOversleptCorrect` | TimeoutProofs | `NotOverslept` |
| `TimersCorrect` | TimeoutProofs | `TimersSpec`: the provider implements `StreamTimers` |
| `SessionTypeCorrect` | SessionProofs | `TypeOK` |
| `SlaveIsKeyedCorrect` | SessionProofs | `SlaveIsKeyed` |
| `AppMatchesCorrect` | SipProofs | `AppMatches`, without `Roaming` |
| `SipCallCorrect` | SipProofs | `CallSpec`: the SIP session implements `PhoneCall`, without `Roaming` |
| `EndingIsTimedCorrect` | SipTimerProofs | `EndingIsTimed` (stranded sessions exempt), without a GSM call at the callee |

`TypeOK` of TimeoutProvider, ZrtpSession and RetainedSecrets is proved and in no run; that of SipSession is
stated for the reader (`Inv` of SipProofs contains the types of `ses`, `app`, `answered` and `tags`, and of each
message of `net`).

*ZrtpProofs* has six inductive invariants, each above `TypeInv` and proved event by event; `StepFrame` says what an
event of one end leaves alone at the other. The invariants were checked on the runs' instances first.

* `TypeInv == TypeOK /\ SentMatchesState`: the packet that a resend sends exists in `Messages` only because the
  packet kept fits the state.
* `KeyInv`: `SrtpMatchesState` is not inductive, as that `WaitConfAck` follows a Confirm1 under the end's own key
  needs the role that belongs to each state and the confirmation already in `net`. `KeyInv` adds these
  (`RoleOf`, `SrtpOf`, `ConfirmedOf`, one conjunct per end); since `net` only grows, a confirmation once there
  stays. `SecureIsKept` follows from it for each event in SecureState. Outside the keyed states a context exists only
  after a malformed packet (`LeftOver`).
* `ArmedInv` does the same for the timers: a request is in the list, on its way, or was dropped.
* `VersionInv`: an end in one of the `AgreedStates` has had a packet that only a peer which speaks its version sends. What a
  packet says of its sender (`MessageVersion`) is enough for this, however old it is; the two ends are never compared with each other.
* `DrawInv`: every draw of a DH value has one key at most, and an end's Confirm packets name it (`OneKey`). Two secure ends with
  different keys would each have accepted a Confirm under a key whose sender has drawn again since, while the other end still uses
  its part of it (`Outlived`): each draw would be older than the other, which `NotCrossed` excludes. This needs a value of both ends in the
  key. In multi-stream mode the Responder adds none, so an old Commit and Confirm2 can lead an engine that was started again back to a
  key it has had: without the restriction to DH mode TLC finds `KeyNeverReused` violated for `MaxStarts = 3` and `MaxChain = 1` (19 steps), and
  `SecureAgreement` for `MaxStarts = 5` and `MaxChain = 2` (Alice secure with her second Commit, Bob with her first; found with the roles
  fixed by a constraint). An engine is started again only when a start call overtakes the first (`StartElsewhere`) or after an
  Error. `zrtp_restart` has two starts, within which `SecureAgreement` holds in either mode.
* `OnceInv`: with one engine and one start an end only goes forward, so what it has sent tells how far it is (`MessageOnce`). An end that took the
  Responder's role has met a Commit and given up its own only for a greater hvi (`RoleOnce`), so the two ends cannot both have given way or both
  have stood; an Initiator that is secure has had the answer of a secure Responder (`KeyOnce`). An engine that meets leftovers
  of an earlier negotiation breaks both properties for a while, which is why they are stated for one start; what
  matters then is `SecureAgreement`.

*CryptoProofs.* The receiver's roc is right because the guess is right, and the guess is right because every
packet that may arrive lies within half a cycle of `s_l`: `InFlightInv` bounds how far the packets on the way
are behind the sender, `Near` (in `Inv`) how far the newest accepted is, and `LocalIsTop` says that `s_l` is
its number as long as no late packet crossed the last rollover. The lemmas `NewerIndex`, `NearRoc` and
`NextIndex` relate the order of packets to their 48-bit indices; the nonlinear products
(`roc * SeqMod`) are kept inside them. After a crossing only `RocIsNewest` and `IndexIsNew` survive,
which is what `bug_late_rollover` shows to be sharp. `ReplayInv` is about the window: while no late packet has crossed, it
has the bit of every packet accepted in time that is not too old for it, because the shifts whose result is undefined are those by a distance
that the window does not cover. After a crossing `s_l` lies in the upper half and all that was accepted is behind, so the guess
at the next rollover is right again.

*NegotiationProofs.* Everything rests on two facts about the operators: the faster of two first choices is
the same from either side (`PubkeySymmetric`), and the first match in a list exists and is in
both lists (`LeastPosition`, which needs no induction as a list has at most `maxNoOfAlgos` entries). The invariant
`NegInv` says of each stage what the engine's suite is: while both are Ready it is the choice from the
Hellos (`SuiteFor`), and a Responder or Initiator has its peer's. That EC38 never ends in `UnsuppHashType` is where
`ConfigsAssumption` is needed; for this client it holds by `setupConfiguration`, and the runs evaluate it.

*TimeoutProofs.* `Sorted` and `NotOverslept` are inductive together with the type invariant and `Asked` (a request
under way is for a stream). `NotOverslept` needs the order of the list: a new request that becomes the first has sent a
signal (it wakes the worker, or marks the plan as missed), any other lies behind the first one, and cancelling can only
move the first deadline back; time takes the same from the plan and from the list. The work on the list is in lemmas about
sequences: `Inserted` puts a request before the first later one, and `CancelRequest` keeps the others in their order; the
latter is why the model writes the surviving positions as the ascending function into them rather than with a recursive
filter. For `TimersSpec` each step is mapped to one of `StreamTimers`: `Of` (the positions of a stream's requests)
grows by one with an insert, is empty after the stream's cancel and unchanged in number for every other stream, and
loses one when the front is taken. A request that is dropped, and every step of a lock, is a stutter.

*SessionProofs.* `Inv` adds to `SlaveIsKeyed` what a thread knows at each place of `StartSlave` (`Knows`): there are
parameters before it copies, its copy is one of them before it sets, the key is set before it starts the engine. The
other thread cannot undo any of it, because `multiStreamParameter` never becomes empty again.

*SipProofs.* `AppMatches` is not inductive: that a late 200 or an INVITE of the callee cannot start a call
that was never answered needs to know what each message says of the session it came from. `Inv` has `Sound`
for each end and `Good` for each message in `net` and in the send buffers: a 200 to the caller's INVITE exists
only if the user has answered, an INVITE of the callee only for a session that stands or is ending.
`StepOf` is the form of nearly every step (one session replaced, messages added, the callee's session
followed by one with the same tag or a later one); `StepKeepsInv` and `StepIsCall` show once that it keeps `Inv` and
maps to a step of `PhoneCall` or a stutter, so that of each action only the form is left to show. With `Roaming` the second
half of `Good` fails (see above).

*SipTimerProofs.* `TimerInv` says of a session that is over which of its timers is left, or that it is stranded, and of every message that
only an INVITE is answered with an error other than 481 (`Fit`); a CANCEL refused with 486 breaks
that, which is why "gsm" is excluded. It does not need `Inv`, so it holds with `Roaming` too.

*RetainedProofs.* The properties speak of two records that change at different times, in calls that may overlap.
`CallInv` says what the packets of one call tell of its ends: their order, what each stage has sent, and that the ids in
a DHPart are those of the sender's copy. That both ends select the same secret is then a question about two records: they differ only if the phones
have two common secrets in opposite order. `SecretsInv` excludes this over all calls: the secret of a call is stored at one end
only after both have read their records (`NotYetInv`), so no record can have another's second secret before its first
(`OppositeInv`), nor get there by the saves under way (`NextInv`, `CrossInv`). This holds for any number of overlapping calls, and with
it `KeysAgree` and `FlagsAgree`. The other two properties are false when calls overlap (section 4). Under `[]OneCall`, `SingleInv` ties the
copies of the engines to the files, `TrustInv` each flag to the users who compared the SAS (a flag vouches for the
second secret too, as long as the peer may fall back to it), and `ContinuityInv` the number of cuts to the secrets in common.
`OneCall` is about what the users do, not about the size of the model: `OneSessionOneCall` shows that the run's `MaxActive = 1` is one way to have it.

Only model-checked: liveness (`WaitsEnd`, `Progress`, `CallsReturn`, `FrontServed`, `EndedIsFreed`,
`SlaveStarts`), which the prover does not reach, and, within the bounds of `zrtp_restart`,
`SecureAgreement` in multi-stream mode.

## 6. Not modelled

SDES, the send queue of `CTSipSock`, the RTP queue, the ZID file at the level of seek and read, and
the lifetime of an engine (`stopStream` against `handleTimeout`): not modelled yet (section 2). What the
modelled components leave out is named in section 3. Media, codecs, sockets and user interface: input and output. Third-party libraries: taken as
correct. Memory safety and the strength of the cryptography are outside what these models can say.
