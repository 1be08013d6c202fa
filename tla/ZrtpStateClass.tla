--------------------------- MODULE ZrtpStateClass ---------------------------
(***************************************************************************)
(* The ZRTP protocol engine (libs/zrtp/zrtp/ZrtpStateClass.cpp, with the   *)
(* packet preparation and checking of ZRtp.cpp and the start, stop, timer  *)
(* and SRTP switches of clients/tivi/CtZrtpStream.cpp), run by both ends   *)
(* of a media stream over UDP.                                             *)
(*                                                                         *)
(* One action is one event handled under the stream's lock (synchEnter /   *)
(* synchLeave around processEvent).  The network keeps every packet ever   *)
(* sent: a packet may be delivered any number of times, in any order, at   *)
(* any later moment (also to a later engine of the same stream) or never.  *)
(*                                                                         *)
(* A Timer event takes two steps, because the timeout provider removes the *)
(* request from its list and calls the engine after it has given up its    *)
(* lock: TimerPop, then TimerXxx.  Between the two any packet may be       *)
(* processed, and a cancelTimer of that packet's handler comes too late.   *)
(*                                                                         *)
(* Cryptography is abstracted to what the checks in the code tell apart:   *)
(*  - a hash chain H0..H3 is the number of the engine that drew it;        *)
(*  - a Diffie-Hellman value (a nonce, in multi-stream mode) is the number *)
(*    drawn with it, which also orders the hvi values;                     *)
(*  - the session key s0 is the record of what is hashed into it.          *)
(***************************************************************************)
EXTENDS Integers, FiniteSets

CONSTANTS
  Alice, Bob,    \* the two ends of the stream
  Setups,        \* what the two ends' engines may be set up with, and may meet
  Draws,         \* bound: the random hvi values that may be drawn
  T1Detect,      \* T1.maxResend of a new engine (20 in the code)
  T1AckSent,     \* T1.maxResend after the first Hello was seen (60)
  T2Max,         \* T2.maxResend (10)
  MaxChain,      \* bound: engines an end may create one after the other
  MaxStarts      \* bound: calls of startZrtpEngine at each end

Peers == {Alice, Bob}

ASSUME PeersAssumption == Alice # Bob

\* multi: a slave stream, keyed from the master's zrtpSession (setMultiStrParams)
\* at both ends; min, max: the lowest and the highest entry of helloPackets.
\* drops: the timeout provider may drop a request of this end; malformed: bound,
\* the packets of a wrong length that may reach it.
SetupRecords ==
  [multi : BOOLEAN, min : Nat \ {0}, max : Nat \ {0}, drops : BOOLEAN, malformed : Nat]

ASSUME SetupsAssumption ==
  /\ Setups \subseteq [Peers -> SetupRecords]
  /\ \A c \in Setups :
       /\ c[Alice].multi = c[Bob].multi
       /\ \A p \in Peers : c[p].min <= c[p].max
ASSUME DrawsAssumption == Draws \subseteq Nat \ {0}
ASSUME BoundAssumption ==
  /\ T1Detect \in Nat /\ T1AckSent \in Nat /\ T2Max \in Nat
  /\ MaxChain \in Nat \ {0} /\ MaxStarts \in Nat

Other(p) == IF p = Alice THEN Bob ELSE Alice

-----------------------------------------------------------------------------
(* The values the engine handles. *)

States == {"Initial", "Detect", "AckDetected", "AckSent", "WaitCommit",
           "CommitSent", "WaitDHPart2", "WaitConfirm1", "WaitConfirm2",
           "WaitConfAck", "SecureState", "WaitErrorAck"}

\* The states that resend sentPacket on a Timer event, and those whose code
\* takes a Timer event for a protocol error.
T2States == {"CommitSent", "WaitConfirm1", "WaitConfAck", "WaitErrorAck"}
TimedStates == {"Detect", "AckSent"} \cup T2States
TimerlessStates == {"AckDetected", "WaitCommit", "WaitDHPart2", "WaitConfirm2"}

\* sentPacket is a pointer to a packet object of the ZRtp class: its kind.
Packets == {"NULL", "Hello", "HelloAck", "Commit", "DHPart1", "DHPart2",
            "Confirm1", "Confirm2", "Conf2Ack", "Error"}

\* A Hello is known by the engine that sent it and by its protocol version.
HelloIds == [chain : Nat, ver : Nat]
NoHello == [chain |-> 0, ver |-> 0]

\* The hash over the Initiator's DHPart2 and the Responder's Hello.
Hvis == [dh : Nat, hello : HelloIds]
NoHvi == [dh |-> 0, hello |-> NoHello]

\* s0: the Responder's Hello, and the values both ends put in (resp is 0 in
\* multi-stream mode, where only the Initiator's nonce is hashed).
Keys == [hello : HelloIds, ini : Nat, resp : Nat]
NoKey == [hello |-> NoHello, ini |-> 0, resp |-> 0]

Roles == {"NoRole", "Initiator", "Responder"}

Messages ==
  [type : {"Hello"}, from : Peers, chain : Nat, ver : Nat]
  \cup [type : {"Commit"}, from : Peers, chain : Nat, hvi : Hvis]
  \cup [type : {"DHPart1", "DHPart2"}, from : Peers, chain : Nat, dh : Nat]
  \cup [type : {"Confirm1", "Confirm2", "Srtp"}, from : Peers, key : Keys]
  \cup [type : {"HelloAck", "Conf2Ack", "Error", "ErrorAck"}, from : Peers]

VARIABLES
  state,   \* [Peers -> States]: the state of the protocol engine
  sent,    \* [Peers -> Packets]: sentPacket, the packet to resend
  timer,   \* the stream's timeout requests and the resend counter
  neg,     \* the negotiation data kept by the ZRtp object
  srtp,    \* the keys of the SRTP contexts the stream uses (NoKey: none)
  user,    \* the start calls in progress and still allowed, and the malformed
           \* packets that may still come
  drawn,   \* the random values drawn so far, by either end
  net      \* every packet sent so far

vars == <<state, sent, timer, neg, srtp, user, drawn, net>>

-----------------------------------------------------------------------------
(* Init: both streams are initialised, no engine is started. *)

NewNeg(set, c) ==
  [setup |-> set, chain |-> c, ver |-> set.max, peerHello |-> NoHello,
   commitPkt |-> FALSE, dh |-> 0, peerHvi |-> NoHvi, role |-> "NoRole", key |-> NoKey]

Init ==
  /\ state = [p \in Peers |-> "Initial"]
  /\ sent = [p \in Peers |-> "NULL"]
  /\ timer = [p \in Peers |-> [req |-> 0, due |-> FALSE, lost |-> FALSE,
                               counter |-> 0, maxT1 |-> T1Detect]]
  /\ srtp = [p \in Peers |-> [recv |-> NoKey, send |-> NoKey]]
  /\ \E c \in Setups :
       /\ neg = [p \in Peers |-> NewNeg(c[p], 1)]
       /\ user = [p \in Peers |-> [calls |-> 0, left |-> MaxStarts, started |-> FALSE,
                                   malformed |-> c[p].malformed]]
  /\ drawn = {}
  /\ net = {}

-----------------------------------------------------------------------------
(* Timers.  req counts the requests in the provider's list: activateTimer   *)
(* asks for one, cancelTimer removes them all.  due: the provider's thread    *)
(* has taken a request out of the list and is about to deliver the event.     *)
(* lost: the provider has dropped the last request (requestTimeout inserts    *)
(* nothing for a deadline equal to the last one's); activateTimer reports     *)
(* success all the same.                                                     *)

SetTimer(p, t) == timer' = [timer EXCEPT ![p] = t]

Queued(t) == [t EXCEPT !.req = @ + 1, !.lost = FALSE]
Cancelled(t) == [t EXCEPT !.req = 0, !.lost = FALSE]
Delivered(t) == [t EXCEPT !.due = FALSE]

ActivateTimer(p, t) ==
  \/ SetTimer(p, Queued(t))
  \/ neg[p].setup.drops /\ SetTimer(p, [t EXCEPT !.lost = TRUE])

StartTimer(p, t) == ActivateTimer(p, [t EXCEPT !.counter = 0])

\* nextTimer, for a limit of max resends; the counter saturates, because only
\* its comparison with the limit matters.
Exhausted(t, max) == t.counter >= max
\* Mutant: the resends are not counted.
NextTimerUncounted(p, t, max) ==
  IF Exhausted(t, max) THEN SetTimer(p, t) ELSE ActivateTimer(p, t)

NextTimer(p, t, max) ==
  IF Exhausted(t, max) THEN SetTimer(p, [t EXCEPT !.counter = max + 1])
  ELSE ActivateTimer(p, [t EXCEPT !.counter = @ + 1])

\* Mutant: the list is not tested for being empty.
TimerPopAny(p) ==
  /\ ~timer[p].due
  /\ SetTimer(p, [timer[p] EXCEPT !.req = @ - 1, !.due = TRUE])
  /\ UNCHANGED <<state, sent, neg, srtp, user, drawn, net>>

\* The provider's worker: one request at a time.
TimerPop(p) ==
  /\ timer[p].req > 0 /\ ~timer[p].due
  /\ SetTimer(p, [timer[p] EXCEPT !.req = @ - 1, !.due = TRUE])
  /\ UNCHANGED <<state, sent, neg, srtp, user, drawn, net>>

-----------------------------------------------------------------------------
(* Sending.  The packet objects take their content from the ZRtp object. *)

Packet(p, kind, n) ==
  CASE kind = "Hello" -> [type |-> kind, from |-> p, chain |-> n.chain, ver |-> n.ver]
    [] kind = "Commit" -> [type |-> kind, from |-> p, chain |-> n.chain,
                           hvi |-> [dh |-> n.dh, hello |-> n.peerHello]]
    [] kind \in {"DHPart1", "DHPart2"} ->
         [type |-> kind, from |-> p, chain |-> n.chain, dh |-> n.dh]
    [] kind \in {"Confirm1", "Confirm2"} -> [type |-> kind, from |-> p, key |-> n.key]
    [] OTHER -> [type |-> kind, from |-> p]

Send(p, kinds, n) == net' = net \cup {Packet(p, k, n) : k \in kinds}

Goto(p, s, pkt) ==
  /\ state' = [state EXCEPT ![p] = s]
  /\ sent' = [sent EXCEPT ![p] = pkt]

\* sendErrorPacket: stop the timer, send Error, wait for its acknowledgement.
ErrorSent(p, n) ==
  /\ Goto(p, "WaitErrorAck", "Error")
  /\ StartTimer(p, Cancelled(timer[p]))
  /\ neg' = [neg EXCEPT ![p] = n]
  /\ Send(p, {"Error"}, n)
  /\ UNCHANGED <<srtp, drawn>>

SendErrorPacket(p, n) == ErrorSent(p, n) /\ UNCHANGED user

ReceiverOff(p) == srtp' = [srtp EXCEPT ![p].recv = NoKey]
\* Mutant: the sender's context is forgotten.
BothOffReceiverOnly(p) == srtp' = [srtp EXCEPT ![p].recv = NoKey]

BothOff(p) == srtp' = [srtp EXCEPT ![p] = [recv |-> NoKey, send |-> NoKey]]

\* Mutant: sentPacket is not cleared.
GiveUpKeepsSent(p) ==
  /\ Goto(p, "Initial", sent[p])
  /\ neg' = [neg EXCEPT ![p].commitPkt = @ /\ state[p] # "AckSent"]
  /\ CASE state[p] = "WaitConfAck" -> ReceiverOff(p)
       [] state[p] = "SecureState" -> BothOff(p)
       [] OTHER -> UNCHANGED srtp

\* The engine gives up: back to Initial, sentPacket cleared.  WaitConfAck also
\* switches the receiver's SRTP off, SecureState both directions.
GiveUp(p) ==
  /\ Goto(p, "Initial", "NULL")
  /\ neg' = [neg EXCEPT ![p].commitPkt = @ /\ state[p] # "AckSent"]
  /\ CASE state[p] = "WaitConfAck" -> ReceiverOff(p)
       [] state[p] = "SecureState" -> BothOff(p)
       [] OTHER -> UNCHANGED srtp

-----------------------------------------------------------------------------
(* Start and stop. *)

\* startZrtpEngine reads the state without the lock ...
StartCheck(p) ==
  /\ state[p] = "Initial" /\ user[p].left > 0
  /\ user' = [user EXCEPT ![p].calls = @ + 1, ![p].left = @ - 1]
  /\ UNCHANGED <<state, sent, timer, neg, srtp, drawn, net>>

StartCall(p) ==
  /\ user[p].calls > 0
  /\ user' = [user EXCEPT ![p].calls = @ - 1, ![p].started = TRUE]

\* ... and then hands a ZrtpInitial event to whatever state the engine is in.
StartInitial(p) ==
  /\ state[p] = "Initial"
  /\ StartCall(p)
  /\ Goto(p, "Detect", "Hello")
  /\ Send(p, {"Hello"}, neg[p])
  /\ StartTimer(p, timer[p])
  /\ UNCHANGED <<neg, srtp, drawn>>

StartDetect(p) ==
  /\ state[p] = "Detect"
  /\ StartCall(p)
  /\ Send(p, {sent[p]}, neg[p])
  /\ StartTimer(p, Cancelled(timer[p]))
  /\ UNCHANGED <<state, sent, neg, srtp, drawn>>

StartElsewhere(p) ==
  /\ state[p] \notin {"Initial", "Detect"}
  /\ StartCall(p)
  /\ GiveUp(p)
  /\ UNCHANGED <<timer, drawn, net>>

\* stopStream: the engine gets ZrtpClose and is deleted, the SRTP contexts too;
\* the next call uses a new engine, with a new hash chain.  A Timer event the
\* provider has already taken out is still delivered to the stream.  No start
\* call is under way: a stream is stopped after its start has returned.
Close(p) ==
  /\ neg[p].chain < MaxChain /\ user[p].calls = 0
  /\ Goto(p, "Initial", "NULL")
  /\ SetTimer(p, [Cancelled(timer[p]) EXCEPT !.maxT1 = T1Detect, !.counter = 0])
  /\ neg' = [neg EXCEPT ![p] = NewNeg(neg[p].setup, neg[p].chain + 1)]
  /\ BothOff(p)
  /\ user' = [user EXCEPT ![p].started = FALSE]
  /\ UNCHANGED <<drawn, net>>

-----------------------------------------------------------------------------
(* Timer events. *)

TimerEvent(p) == timer[p].due

\* Detect and AckSent resend the Hello; when T1 is exhausted the engine stays
\* in, or falls back to, Detect with no timer of its own.
TimerHello(p) ==
  /\ TimerEvent(p) /\ state[p] \in {"Detect", "AckSent"}
  /\ LET t == Delivered(timer[p])
         gone == Exhausted(t, t.maxT1)
     IN /\ NextTimer(p, t, t.maxT1)
        /\ state' = [state EXCEPT ![p] = IF gone THEN "Detect" ELSE @]
        /\ neg' = [neg EXCEPT ![p].commitPkt = @ /\ ~gone]
  /\ Send(p, {sent[p]}, neg[p])
  /\ UNCHANGED <<sent, srtp, user, drawn>>

\* Mutant: resend without nextTimer.
TimerResendOnce(p) ==
  /\ TimerEvent(p) /\ state[p] \in T2States
  /\ sent[p] # "NULL"
  /\ ~Exhausted(timer[p], T2Max)
  /\ SetTimer(p, Delivered(timer[p]))
  /\ Send(p, {sent[p]}, neg[p])
  /\ UNCHANGED <<state, sent, neg, srtp, user, drawn>>

\* The T2 states resend sentPacket.  Sending NULL fails: sendFailed.
TimerResend(p) ==
  /\ TimerEvent(p) /\ state[p] \in T2States
  /\ sent[p] # "NULL"
  /\ ~Exhausted(timer[p], T2Max)
  /\ NextTimer(p, Delivered(timer[p]), T2Max)
  /\ Send(p, {sent[p]}, neg[p])
  /\ UNCHANGED <<state, sent, neg, srtp, user, drawn>>

TimerFailed(p) ==
  /\ TimerEvent(p) /\ state[p] \in T2States
  /\ sent[p] = "NULL" \/ Exhausted(timer[p], T2Max)
  /\ IF sent[p] = "NULL" THEN SetTimer(p, Delivered(timer[p]))
     ELSE NextTimer(p, Delivered(timer[p]), T2Max)
  /\ IF sent[p] = "NULL" THEN UNCHANGED net ELSE Send(p, {sent[p]}, neg[p])
  /\ GiveUp(p)
  /\ UNCHANGED <<user, drawn>>

\* A Timer event is unknown in the states that run no timer: protocol error.
TimerUnexpected(p) ==
  /\ TimerEvent(p) /\ state[p] \in TimerlessStates
  /\ SetTimer(p, Delivered(timer[p]))
  /\ GiveUp(p)
  /\ UNCHANGED <<user, drawn, net>>

\* Mutant: SecureState takes a late Timer event for a protocol error.
TimerIgnoredNowhere(p) ==
  /\ TimerEvent(p) /\ state[p] \in {"Initial", "SecureState"}
  /\ SetTimer(p, Delivered(timer[p]))
  /\ GiveUp(p)
  /\ UNCHANGED <<user, drawn, net>>

TimerIgnored(p) ==
  /\ TimerEvent(p) /\ state[p] \in {"Initial", "SecureState"}
  /\ SetTimer(p, Delivered(timer[p]))
  /\ UNCHANGED <<state, sent, neg, srtp, user, drawn, net>>

TimerStep(p) ==
  \/ TimerHello(p) \/ TimerResend(p) \/ TimerFailed(p)
  \/ TimerUnexpected(p) \/ TimerIgnored(p)

-----------------------------------------------------------------------------
(* Packets.  A packet is handed to a started engine only. *)

Receive(p, m) == m \in net /\ m.from = Other(p) /\ user[p].started

KeepData == UNCHANGED <<neg, srtp, user, drawn>>

\* Mutant: the Diffie-Hellman value of an earlier negotiation is used again.
CommittedOnce(n, m, r) ==
  [n EXCEPT !.peerHello = [chain |-> m.chain, ver |-> m.ver], !.dh = IF @ = 0 THEN r ELSE @]

\* prepareCommit: a new Diffie-Hellman value, its hvi over our DHPart2 and the
\* peer's Hello m.
Committed(n, m, r) ==
  [n EXCEPT !.peerHello = [chain |-> m.chain, ver |-> m.ver], !.dh = r]

(* Detect *)

DetectHelloAck(p, m) ==
  /\ state[p] = "Detect" /\ m.type = "HelloAck"
  /\ Goto(p, "AckDetected", "NULL")
  /\ SetTimer(p, Cancelled(timer[p]))
  /\ KeepData /\ UNCHANGED net

\* A version we do not support: stay, and give the peer time to downgrade.
DetectHelloNewer(p, m) ==
  /\ state[p] = "Detect" /\ m.type = "Hello" /\ m.ver > neg[p].ver
  /\ StartTimer(p, Cancelled(timer[p]))
  /\ KeepData /\ UNCHANGED <<state, sent, net>>

\* Mutant: any older version is accepted.
DetectHelloAnyOlder(p, m) ==
  /\ state[p] = "Detect" /\ m.type = "Hello"
  /\ m.ver < neg[p].ver
  /\ LET n == [neg[p] EXCEPT !.ver = m.ver]
     IN neg' = [neg EXCEPT ![p] = n] /\ Send(p, {"Hello"}, n)
  /\ StartTimer(p, Cancelled(timer[p]))
  /\ Goto(p, "Detect", "Hello")
  /\ UNCHANGED <<srtp, user, drawn>>

\* An older version: fall back to our best version not above it ...
DetectHelloOlder(p, m) ==
  /\ state[p] = "Detect" /\ m.type = "Hello"
  /\ m.ver < neg[p].ver /\ m.ver >= neg[p].setup.min
  /\ LET n == [neg[p] EXCEPT !.ver = m.ver]
     IN neg' = [neg EXCEPT ![p] = n] /\ Send(p, {"Hello"}, n)
  /\ StartTimer(p, Cancelled(timer[p]))
  /\ Goto(p, "Detect", "Hello")
  /\ UNCHANGED <<srtp, user, drawn>>

\* ... or report UnsuppZRTPVersion.
DetectHelloUnsupported(p, m) ==
  /\ state[p] = "Detect" /\ m.type = "Hello"
  /\ m.ver < neg[p].ver /\ m.ver < neg[p].setup.min
  /\ SendErrorPacket(p, neg[p])

\* Mutant: the version is not compared.
DetectHelloAnyVersion(p, m) ==
  /\ state[p] = "Detect" /\ m.type = "Hello"
  /\ \E r \in Draws \ drawn :
       /\ neg' = [neg EXCEPT ![p] = [Committed(@, m, r) EXCEPT !.commitPkt = TRUE]]
       /\ drawn' = drawn \cup {r}
  /\ state' = [state EXCEPT ![p] = "AckSent"]
  /\ Send(p, {"HelloAck"}, neg[p])
  /\ StartTimer(p, [Cancelled(timer[p]) EXCEPT !.maxT1 = T1AckSent])
  /\ UNCHANGED <<sent, srtp, user>>

DetectHello(p, m) ==
  /\ state[p] = "Detect" /\ m.type = "Hello" /\ m.ver = neg[p].ver
  /\ \E r \in Draws \ drawn :
       /\ neg' = [neg EXCEPT ![p] = [Committed(@, m, r) EXCEPT !.commitPkt = TRUE]]
       /\ drawn' = drawn \cup {r}
  /\ state' = [state EXCEPT ![p] = "AckSent"]
  /\ Send(p, {"HelloAck"}, neg[p])
  /\ StartTimer(p, [Cancelled(timer[p]) EXCEPT !.maxT1 = T1AckSent])
  /\ UNCHANGED <<sent, srtp, user>>

(* AckDetected, WaitCommit: we are going to be the Responder. *)

\* Mutant: the Hello is not acknowledged.
AckDetectedHelloSilent(p, m) ==
  /\ state[p] = "AckDetected" /\ m.type = "Hello"
  /\ \E r \in Draws \ drawn :
       /\ neg' = [neg EXCEPT ![p] = Committed(@, m, r)]
       /\ drawn' = drawn \cup {r}
  /\ Goto(p, "WaitCommit", "HelloAck")
  /\ UNCHANGED <<timer, srtp, user, net>>

AckDetectedHello(p, m) ==
  /\ state[p] = "AckDetected" /\ m.type = "Hello"
  /\ \E r \in Draws \ drawn :
       /\ neg' = [neg EXCEPT ![p] = Committed(@, m, r)]
       /\ drawn' = drawn \cup {r}
  /\ Goto(p, "WaitCommit", "HelloAck")
  /\ Send(p, {"HelloAck"}, neg[p])
  /\ UNCHANGED <<timer, srtp, user>>

WaitCommitHello(p, m) ==
  /\ state[p] = "WaitCommit" /\ m.type = "Hello"
  /\ Send(p, {sent[p]}, neg[p])
  /\ KeepData /\ UNCHANGED <<state, sent, timer>>

(* AckSent *)

AckSentHelloAck(p, m) ==
  /\ state[p] = "AckSent" /\ m.type = "HelloAck"
  /\ neg[p].commitPkt
  /\ LET n == [neg[p] EXCEPT !.commitPkt = FALSE]
     IN neg' = [neg EXCEPT ![p] = n] /\ Send(p, {"Commit"}, n)
  /\ Goto(p, "CommitSent", "Commit")
  /\ StartTimer(p, Cancelled(timer[p]))
  /\ UNCHANGED <<srtp, user, drawn>>

AckSentHello(p, m) ==
  /\ state[p] = "AckSent" /\ m.type = "Hello"
  /\ Send(p, {"HelloAck"}, neg[p])
  /\ KeepData /\ UNCHANGED <<state, sent, timer>>

(* The Responder's answer to a Commit: prepareDHPart1, or in multi-stream *)
(* mode prepareConfirm1MultiStream, which derives the key at once.        *)

\* The Commit's H2 must hash to the H3 of the peer's Hello.
ChainOk(p, m) == m.chain = neg[p].peerHello.chain

Multi(p) == neg[p].setup.multi

OwnHello(p) == [chain |-> neg[p].chain, ver |-> neg[p].ver]

\* Mutant: the Responder does not note its role.
ResponderNegNoRole(p, m) ==
  IF Multi(p)
  THEN [neg[p] EXCEPT !.key = [hello |-> OwnHello(p), ini |-> m.hvi.dh, resp |-> 0]]
  ELSE [neg[p] EXCEPT !.commitPkt = FALSE, !.peerHvi = m.hvi]

ResponderNeg(p, m) ==
  IF Multi(p)
  THEN [neg[p] EXCEPT !.role = "Responder",
                      !.key = [hello |-> OwnHello(p), ini |-> m.hvi.dh, resp |-> 0]]
  ELSE [neg[p] EXCEPT !.role = "Responder", !.commitPkt = FALSE, !.peerHvi = m.hvi]

BecomeResponder(p, m) ==
  LET n == ResponderNeg(p, m)
      answer == IF Multi(p) THEN "Confirm1" ELSE "DHPart1"
  IN /\ neg' = [neg EXCEPT ![p] = n]
     /\ Goto(p, IF Multi(p) THEN "WaitConfirm2" ELSE "WaitDHPart2", answer)
     /\ Send(p, {answer}, n)
     /\ UNCHANGED <<srtp, user, drawn>>

AckSentCommit(p, m) ==
  /\ state[p] = "AckSent" /\ m.type = "Commit" /\ ChainOk(p, m)
  /\ SetTimer(p, Cancelled(timer[p]))
  /\ BecomeResponder(p, m)

\* IgnorePacket, after cancelTimer: the state stays, its timer is gone.
AckSentCommitIgnored(p, m) ==
  /\ state[p] = "AckSent" /\ m.type = "Commit" /\ ~ChainOk(p, m)
  /\ SetTimer(p, Cancelled(timer[p]))
  /\ KeepData /\ UNCHANGED <<state, sent, net>>

WaitCommitCommit(p, m) ==
  /\ state[p] = "WaitCommit" /\ m.type = "Commit" /\ ChainOk(p, m)
  /\ UNCHANGED timer
  /\ BecomeResponder(p, m)

(* CommitSent *)

\* Mutant: the hvi values are not compared.
CommitClashLostAlways(p, m) ==
  /\ state[p] = "CommitSent" /\ m.type = "Commit" /\ ChainOk(p, m)
  /\ SetTimer(p, Cancelled(timer[p]))
  /\ BecomeResponder(p, m)

\* Commit clash: the greater hvi is the Initiator.  verifyH2 comes first.
CommitClashLost(p, m) ==
  /\ state[p] = "CommitSent" /\ m.type = "Commit" /\ ChainOk(p, m)
  /\ neg[p].dh < m.hvi.dh
  /\ SetTimer(p, Cancelled(timer[p]))
  /\ BecomeResponder(p, m)

CommitClashWon(p, m) ==
  /\ state[p] = "CommitSent" /\ m.type = "Commit" /\ ChainOk(p, m)
  /\ neg[p].dh >= m.hvi.dh
  /\ StartTimer(p, Cancelled(timer[p]))
  /\ KeepData /\ UNCHANGED <<state, sent, net>>

\* prepareDHPart2: the Initiator can compute s0.
CommitSentDHPart1(p, m) ==
  /\ state[p] = "CommitSent" /\ m.type = "DHPart1" /\ ChainOk(p, m)
  /\ LET n == [neg[p] EXCEPT !.role = "Initiator",
                 !.key = [hello |-> neg[p].peerHello, ini |-> neg[p].dh,
                          resp |-> m.dh]]
     IN neg' = [neg EXCEPT ![p] = n] /\ Send(p, {"DHPart2"}, n)
  /\ Goto(p, "WaitConfirm1", "DHPart2")
  /\ StartTimer(p, Cancelled(timer[p]))
  /\ UNCHANGED <<srtp, user, drawn>>

\* Mutant: the timer stays stopped.
CommitSentDHPart1IgnoredSilent(p, m) ==
  /\ state[p] = "CommitSent" /\ m.type = "DHPart1" /\ ~ChainOk(p, m)
  /\ Goto(p, "CommitSent", "NULL")
  /\ SetTimer(p, Cancelled(timer[p]))
  /\ KeepData /\ UNCHANGED net

\* IgnorePacket: the timer is restarted, but sentPacket was already cleared.
CommitSentDHPart1Ignored(p, m) ==
  /\ state[p] = "CommitSent" /\ m.type = "DHPart1" /\ ~ChainOk(p, m)
  /\ Goto(p, "CommitSent", "NULL")
  /\ StartTimer(p, Cancelled(timer[p]))
  /\ KeepData /\ UNCHANGED net

\* Multi-stream: the Responder answers our Commit with Confirm1.
CommitSentConfirm1(p, m) ==
  /\ Multi(p) /\ state[p] = "CommitSent" /\ m.type = "Confirm1"
  /\ LET k == [hello |-> neg[p].peerHello, ini |-> neg[p].dh, resp |-> 0]
         n == [neg[p] EXCEPT !.role = "Initiator", !.key = k]
     IN IF m.key = k
        THEN /\ neg' = [neg EXCEPT ![p] = n]
             /\ Goto(p, "WaitConfAck", "Confirm2")
             /\ Send(p, {"Confirm2"}, n)
             /\ StartTimer(p, Cancelled(timer[p]))
             /\ srtp' = [srtp EXCEPT ![p].recv = k]
             /\ UNCHANGED <<user, drawn>>
        ELSE SendErrorPacket(p, n)

(* WaitDHPart2, WaitConfirm2: the Responder. *)

WaitDHPart2Commit(p, m) ==
  /\ state[p] = "WaitDHPart2" /\ m.type = "Commit"
  /\ Send(p, {sent[p]}, neg[p])
  /\ KeepData /\ UNCHANGED <<state, sent, timer>>

\* prepareConfirm1: the hvi of this DHPart2 over our Hello must be the one the
\* Commit announced; a DHPart2 whose H1 is not of the Commit's chain is ignored.
WaitDHPart2DHPart2(p, m) ==
  /\ state[p] = "WaitDHPart2" /\ m.type = "DHPart2" /\ ChainOk(p, m)
  /\ LET n == [neg[p] EXCEPT !.key = [hello |-> OwnHello(p), ini |-> m.dh,
                                       resp |-> neg[p].dh]]
     IN IF neg[p].peerHvi = [dh |-> m.dh, hello |-> OwnHello(p)]
        THEN /\ neg' = [neg EXCEPT ![p] = n]
             /\ Goto(p, "WaitConfirm2", "Confirm1")
             /\ Send(p, {"Confirm1"}, n)
             /\ UNCHANGED <<timer, srtp, user, drawn>>
        ELSE SendErrorPacket(p, neg[p])

WaitConfirm2Repeat(p, m) ==
  /\ state[p] = "WaitConfirm2"
  /\ m.type = "DHPart2" \/ (Multi(p) /\ m.type = "Commit")
  /\ Send(p, {sent[p]}, neg[p])
  /\ KeepData /\ UNCHANGED <<state, sent, timer>>

\* Mutant: only the receiver is switched to SRTP.
WaitConfirm2Confirm2HalfSecure(p, m) ==
  /\ state[p] = "WaitConfirm2" /\ m.type = "Confirm2"
  /\ IF m.key = neg[p].key
     THEN /\ Goto(p, "SecureState", "Conf2Ack")
          /\ Send(p, {"Conf2Ack"}, neg[p])
          /\ srtp' = [srtp EXCEPT ![p].recv = neg[p].key]
          /\ UNCHANGED <<timer, neg, user, drawn>>
     ELSE SendErrorPacket(p, neg[p])

WaitConfirm2Confirm2(p, m) ==
  /\ state[p] = "WaitConfirm2" /\ m.type = "Confirm2"
  /\ IF m.key = neg[p].key
     THEN /\ Goto(p, "SecureState", "Conf2Ack")
          /\ Send(p, {"Conf2Ack"}, neg[p])
          /\ srtp' = [srtp EXCEPT ![p] = [recv |-> neg[p].key, send |-> neg[p].key]]
          /\ UNCHANGED <<timer, neg, user, drawn>>
     ELSE SendErrorPacket(p, neg[p])

(* WaitConfirm1, WaitConfAck: the Initiator. *)

\* Mutant: the confirmation's MAC is not checked.
WaitConfirm1Confirm1Unchecked(p, m) ==
  /\ state[p] = "WaitConfirm1" /\ m.type = "Confirm1"
  /\ Goto(p, "WaitConfAck", "Confirm2")
  /\ Send(p, {"Confirm2"}, neg[p])
  /\ StartTimer(p, Cancelled(timer[p]))
  /\ srtp' = [srtp EXCEPT ![p].recv = neg[p].key]
  /\ UNCHANGED <<neg, user, drawn>>

WaitConfirm1Confirm1(p, m) ==
  /\ state[p] = "WaitConfirm1" /\ m.type = "Confirm1"
  /\ IF m.key = neg[p].key
     THEN /\ Goto(p, "WaitConfAck", "Confirm2")
          /\ Send(p, {"Confirm2"}, neg[p])
          /\ StartTimer(p, Cancelled(timer[p]))
          /\ srtp' = [srtp EXCEPT ![p].recv = neg[p].key]
          /\ UNCHANGED <<neg, user, drawn>>
     ELSE SendErrorPacket(p, neg[p])

\* Conf2Ack, or a good SRTP packet under the receiver's new key.
WaitConfAckDone(p, m) ==
  /\ state[p] = "WaitConfAck"
  /\ m.type = "Conf2Ack" \/ (m.type = "Srtp" /\ m.key = srtp[p].recv)
  /\ Goto(p, "SecureState", "NULL")
  /\ SetTimer(p, Cancelled(timer[p]))
  /\ srtp' = [srtp EXCEPT ![p].send = neg[p].key]
  /\ UNCHANGED <<neg, user, drawn, net>>

(* SecureState *)

SecureConfirm2(p, m) ==
  /\ state[p] = "SecureState" /\ m.type = "Confirm2" /\ sent[p] # "NULL"
  /\ Send(p, {sent[p]}, neg[p])
  /\ KeepData /\ UNCHANGED <<state, sent, timer>>

\* Media goes out under the sender's key once there is one.
SendRtp(p) ==
  /\ srtp[p].send # NoKey
  /\ net' = net \cup {[type |-> "Srtp", from |-> p, key |-> srtp[p].send]}
  /\ KeepData /\ UNCHANGED <<state, sent, timer>>

(* Error handling *)

\* An Error packet is acknowledged and the timer stopped, whatever the state.
ErrorPkt(p, m) ==
  /\ m.type = "Error"
  /\ SetTimer(p, Cancelled(timer[p]))
  /\ Send(p, {"ErrorAck"}, neg[p])
  /\ IF state[p] \in {"Initial", "SecureState"}
     THEN UNCHANGED <<state, sent, neg, srtp>>
     ELSE GiveUp(p)
  /\ UNCHANGED <<user, drawn>>

WaitErrorAckDone(p, m) ==
  /\ state[p] = "WaitErrorAck" /\ m.type = "ErrorAck"
  /\ Goto(p, "Initial", "NULL")
  /\ SetTimer(p, Cancelled(timer[p]))
  /\ KeepData /\ UNCHANGED net

\* A packet whose length field does not fit: MalformedPacket, in every state but
\* WaitErrorAck.  SRTP that is on stays on, here and when the engine gives up.
Malformed(p) ==
  /\ user[p].started /\ user[p].malformed > 0 /\ state[p] # "WaitErrorAck"
  /\ user' = [user EXCEPT ![p].malformed = @ - 1]
  /\ ErrorSent(p, neg[p])

-----------------------------------------------------------------------------

\* Packets of the discovery phase, of the key agreement, and of its end.
Discovery(p, m) ==
  \/ DetectHelloAck(p, m) \/ DetectHelloNewer(p, m) \/ DetectHelloOlder(p, m)
  \/ DetectHelloUnsupported(p, m) \/ DetectHello(p, m)
  \/ AckDetectedHello(p, m) \/ WaitCommitHello(p, m)
  \/ AckSentHelloAck(p, m) \/ AckSentHello(p, m)

Agreement(p, m) ==
  \/ AckSentCommit(p, m) \/ AckSentCommitIgnored(p, m) \/ WaitCommitCommit(p, m)
  \/ CommitClashLost(p, m) \/ CommitClashWon(p, m)
  \/ CommitSentDHPart1(p, m) \/ CommitSentDHPart1Ignored(p, m)
  \/ CommitSentConfirm1(p, m)
  \/ WaitDHPart2Commit(p, m) \/ WaitDHPart2DHPart2(p, m)

Confirmation(p, m) ==
  \/ WaitConfirm2Repeat(p, m) \/ WaitConfirm2Confirm2(p, m)
  \/ WaitConfirm1Confirm1(p, m) \/ WaitConfAckDone(p, m) \/ SecureConfirm2(p, m)
  \/ ErrorPkt(p, m) \/ WaitErrorAckDone(p, m)

Deliver(p, m) ==
  Receive(p, m) /\ (Discovery(p, m) \/ Agreement(p, m) \/ Confirmation(p, m))

Start(p) == StartInitial(p) \/ StartDetect(p) \/ StartElsewhere(p)

Next ==
  \E p \in Peers :
    \/ StartCheck(p) \/ Start(p) \/ Close(p) \/ SendRtp(p)
    \/ TimerPop(p) \/ TimerStep(p)
    \/ Malformed(p) \/ \E m \in net : Deliver(p, m)

Spec == Init /\ [][Next]_vars
-----------------------------------------------------------------------------
(* Safety. *)

TimerRecords == [req : Nat, due : BOOLEAN, lost : BOOLEAN, counter : Nat, maxT1 : Nat]
NegRecords ==
  [setup : SetupRecords, chain : Nat, ver : Nat, peerHello : HelloIds, commitPkt : BOOLEAN, dh : Nat,
   peerHvi : Hvis, role : Roles, key : Keys]

\* The type invariant.
TypeOK ==
  /\ state \in [Peers -> States]
  /\ sent \in [Peers -> Packets]
  /\ timer \in [Peers -> TimerRecords]
  /\ neg \in [Peers -> NegRecords]
  /\ srtp \in [Peers -> [recv : Keys, send : Keys]]
  /\ user \in [Peers -> [calls : Nat, left : Nat, started : BOOLEAN, malformed : Nat]]
  /\ drawn \subseteq Draws
  /\ net \subseteq Messages

\* What the "When entering this transition function" comment of each state says
\* of sentPacket, except that CommitSent may have lost it: after a lost clash in
\* AckSent it holds NULL (evAckSent clears it after sending the Commit).
SentIn(s) ==
  CASE s \in {"Detect", "AckSent"} -> {"Hello"}
    [] s = "WaitCommit" -> {"HelloAck"}
    [] s = "CommitSent" -> {"Commit", "NULL"}
    [] s = "WaitDHPart2" -> {"DHPart1"}
    [] s = "WaitConfirm1" -> {"DHPart2"}
    [] s = "WaitConfirm2" -> {"Confirm1"}
    [] s = "WaitConfAck" -> {"Confirm2"}
    [] s = "WaitErrorAck" -> {"Error"}
    [] s = "SecureState" -> {"NULL", "Conf2Ack"}
    [] OTHER -> {"NULL"}

\* Whatever path leads to a state, sentPacket is the packet the state's code
\* resends on a Timer event or a repeated packet of the peer.
SentMatchesState == \A p \in Peers : sent[p] \in SentIn(state[p])

\* The SRTP contexts carry the key just negotiated from the moment its outcome
\* is known: the receiver's from the accepted Confirm1 or Confirm2 on, the
\* sender's in SecureState.  Elsewhere there are none, except that the contexts
\* an end used when a malformed packet came outlive the negotiation.
LeftOver(p) == user[p].malformed < neg[p].setup.malformed

SrtpMatchesState ==
  \A p \in Peers :
    /\ CASE state[p] \in {"WaitConfAck", "SecureState"} -> srtp[p].recv = neg[p].key
         [] OTHER -> srtp[p].recv = NoKey \/ LeftOver(p)
    /\ CASE state[p] = "SecureState" -> srtp[p].send = neg[p].key
         [] OTHER -> srtp[p].send = NoKey \/ LeftOver(p)

\* No end switches SRTP on before the peer has proved that it holds the same
\* key: the peer's Confirm packet under that key must have been sent, and it is
\* the Responder's or the Initiator's as the end's own role asks for.
KeyConfirmed ==
  \A p \in Peers :
    srtp[p].recv # NoKey =>
      \E m \in net :
        /\ m.from = Other(p)
        /\ m.type \in {"Confirm1", "Confirm2"}
        /\ m.key = srtp[p].recv
        /\ state[p] \in {"WaitConfAck", "SecureState"} =>
             (neg[p].role = "Initiator") = (m.type = "Confirm1")

\* Two ends that both encrypt media use one key, one of them as Initiator and
\* the other as Responder (the roles select the directions' keys).
SecureAgreement ==
  (\A p \in Peers : state[p] = "SecureState") =>
    /\ neg[Alice].key = neg[Bob].key
    /\ {neg[Alice].role, neg[Bob].role} = {"Initiator", "Responder"}

\* A sender that is switched on never encrypts under a key it has already used:
\* its packet counter starts again at 0 and would repeat the key stream.  (With
\* a Diffie-Hellman exchange: in multi-stream mode the Responder adds nothing of
\* its own to the key, and an old Commit gives an old key.)
KeyNeverReused ==
  [][\A p \in Peers :
       state[p] # "SecureState" /\ state'[p] = "SecureState" /\ ~Multi(p) =>
         [type |-> "Srtp", from |-> p, key |-> srtp'[p].send] \notin net]_vars

\* Two ends that agree on a key speak the highest version that both support; if
\* there is none, no end ever encrypts.
VersionAgreed ==
  \A p \in Peers :
    state[p] = "SecureState" =>
      /\ \A q \in Peers : neg[p].ver \in neg[q].setup.min .. neg[q].setup.max
      /\ neg[p].ver \in {neg[q].setup.max : q \in Peers}

\* An end that waits for an answer to Commit, DHPart2, Confirm2 or Error has a
\* timeout pending, so that it cannot wait for ever for a lost packet, unless the
\* provider has dropped the request without a word: no path through the engine,
\* a packet that is ignored included, leaves such a wait without having asked.
RetransmissionArmed ==
  \A p \in Peers :
    state[p] \in T2States => timer[p].req > 0 \/ timer[p].due \/ timer[p].lost

\* A clash of Commits, or any other interleaving of the two Hellos, leaves at
\* most one Initiator and one Responder.  (For one engine and one start at each
\* end: an engine may meet leftovers of an earlier negotiation.)
OneInitiator ==
  /\ \E p \in Peers : state[p] \notin {"WaitConfirm1", "WaitConfAck"}
  /\ \E p \in Peers : state[p] \notin {"WaitDHPart2", "WaitConfirm2"}

\* "Switch to secure mode after sending Conf2Ack, our peer switches to secure
\* mode after receiving Conf2Ack" (evWaitConfirm2): an Initiator in SecureState
\* has a Responder whose SRTP runs under the same key.
ResponderSecureFirst ==
  \A p \in Peers :
    state[p] = "SecureState" /\ neg[p].role = "Initiator"
    /\ neg[Other(p)].chain = neg[p].peerHello.chain =>
      srtp[Other(p)].send = neg[p].key

\* SecureState is left only when the stream is stopped, when a start call that
\* had seen Initial comes late, or for a packet of the wrong length: no other
\* packet and no timeout ends a secure call, the keys in use do not change, and
\* even a malformed packet does not send the media in the clear.
SecureIsKept ==
  [][\A p \in Peers :
       state[p] = "SecureState" =>
         \/ /\ state'[p] = "SecureState" \/ user'[p].malformed < user[p].malformed
            /\ srtp'[p] = srtp[p] /\ neg'[p] = neg[p]
         \/ neg'[p].chain # neg[p].chain
         \/ user'[p].calls < user[p].calls]_vars

\* "We have not seen the peer's Hello yet ... wait for peer's Hello" (evDetect, of
\* a HelloAck): an engine in AckDetected, where it sends no Hello itself, has not
\* seen the Hello of a peer that has stopped sending it.
HelloStillToCome ==
  \A p \in Peers :
    state[p] = "AckDetected" /\ state[Other(p)] \in {"AckDetected", "WaitCommit"} =>
      neg[p].peerHello = NoHello

-----------------------------------------------------------------------------
(* Liveness. *)

\* A delivery that moves the engine on: to another state or another version.
Advance(p) ==
  \E m \in net :
    Deliver(p, m) /\ (state'[p] # state[p] \/ neg'[p].ver # neg[p].ver)

\* The provider's thread keeps running.
TimerFairness ==
  \A p \in Peers : WF_vars(TimerPop(p)) /\ WF_vars(TimerStep(p))

\* Both ends start the stream, and the network does not lose for ever the
\* packets that one end waits for and the other resends.
NetworkFairness ==
  \A p \in Peers : WF_vars(StartCheck(p) \/ Start(p)) /\ WF_vars(Advance(p))

\* Packets that restart the wait for an answer to our Commit: a Commit that loses
\* the clash and a DHPart1 of another engine, repeated for ever, keep it going.
Restarted ==
  \E p \in Peers, m \in net : CommitClashWon(p, m) \/ CommitSentDHPart1Ignored(p, m)

\* The Initiator's and the error handling's waits are bounded by the resend
\* counters, whatever the network loses, as long as the provider's thread runs
\* and drops no request.
WaitsEnd ==
  TimerFairness /\ <>[][~Restarted]_vars =>
    \A p \in Peers :
      state[p] \in T2States ~> (state[p] \notin T2States \/ timer[p].lost)

\* No resend counter has run out, no Timer event comes late, and no packet is
\* malformed.
InTime ==
  \A p \in Peers :
    /\ ~LeftOver(p)
    /\ timer[p].counter <= (CASE state[p] = "Initial" -> 0
                              [] state[p] \in T2States -> T2Max
                              [] OTHER -> timer[p].maxT1)
    /\ timer[p].due => state[p] \notin TimerlessStates

\* The two ends have a version in common.
Compatible ==
  \E v \in {neg[p].setup.max : p \in Peers} :
    \A q \in Peers : v \in neg[q].setup.min .. neg[q].setup.max

\* If both ends start with a common version, the network delivers in the end what
\* it is sent, and everything comes in time and whole, they reach SecureState:
\* no interleaving of the two Hellos and Commits makes them wait for each other.
Progress ==
  NetworkFairness /\ [](InTime /\ Compatible) => <>(\A p \in Peers : state[p] = "SecureState")

=============================================================================
