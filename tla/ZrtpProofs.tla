----------------------------- MODULE ZrtpProofs -----------------------------
(* Theorems about ZrtpStateClass, for every value of its constants.         *)
EXTENDS ZrtpStateClass, TLAPS

-----------------------------------------------------------------------------
(* The operators the actions are built from. *)

\* A packet object that is sent is a message.
LEMMA PacketTyped ==
  ASSUME NEW p \in Peers, NEW kind \in Packets \ {"NULL"}, NEW n \in NegRecords
  PROVE  Packet(p, kind, n) \in Messages
<1>1. CASE kind = "Hello"
  BY <1>1 DEF Packet, Messages, NegRecords
<1>2. CASE kind = "Commit"
  BY <1>2 DEF Packet, Messages, NegRecords, Hvis
<1>3. CASE kind \in {"DHPart1", "DHPart2"}
  BY <1>3 DEF Packet, Messages, NegRecords
<1>4. CASE kind \in {"Confirm1", "Confirm2"}
  BY <1>4 DEF Packet, Messages, NegRecords
<1>5. CASE kind \in {"HelloAck", "Conf2Ack", "Error"}
  BY <1>5 DEF Packet, Messages
<1> QED BY <1>1, <1>2, <1>3, <1>4, <1>5 DEF Packets

\* Sending keeps the type of the network, and loses no message.
LEMMA SendTyped ==
  ASSUME net \subseteq Messages, NEW p \in Peers,
         NEW kinds \in SUBSET (Packets \ {"NULL"}), NEW n \in NegRecords,
         Send(p, kinds, n)
  PROVE  net' \subseteq Messages /\ net \subseteq net'
BY PacketTyped DEF Send

\* The timer operations keep the type of the stream's timer record.
LEMMA TimerTyped ==
  ASSUME NEW t \in TimerRecords, NEW max \in Nat
  PROVE  /\ Cancelled(t) \in TimerRecords
         /\ Queued(t) \in TimerRecords
         /\ Delivered(t) \in TimerRecords
         /\ [t EXCEPT !.lost = TRUE] \in TimerRecords
         /\ \A c \in Nat : [t EXCEPT !.counter = c] \in TimerRecords
         /\ [t EXCEPT !.maxT1 = max] \in TimerRecords
         /\ [t EXCEPT !.maxT1 = max, !.counter = 0] \in TimerRecords
<1>1. t.req + 1 \in Nat /\ t.counter + 1 \in Nat /\ max + 1 \in Nat /\ 0 \in Nat
  BY DEF TimerRecords
<1>2. Cancelled(t) \in TimerRecords
  BY <1>1 DEF TimerRecords, Cancelled
<1>3. Queued(t) \in TimerRecords
  BY <1>1, Zenon DEF TimerRecords, Queued
<1>4. Delivered(t) \in TimerRecords
  BY DEF TimerRecords, Delivered
<1>5. /\ [t EXCEPT !.lost = TRUE] \in TimerRecords
      /\ \A c \in Nat : [t EXCEPT !.counter = c] \in TimerRecords
  BY Zenon DEF TimerRecords
<1>6. /\ [t EXCEPT !.maxT1 = max] \in TimerRecords
      /\ [t EXCEPT !.maxT1 = max, !.counter = 0] \in TimerRecords
  BY <1>1, Zenon DEF TimerRecords
<1> QED BY <1>2, <1>3, <1>4, <1>5, <1>6

\* So do the operations on the negotiation record.
LEMMA NegTyped ==
  ASSUME NEW n \in NegRecords
  PROVE  /\ \A b \in BOOLEAN : [n EXCEPT !.commitPkt = b] \in NegRecords
         /\ \A v \in Nat : [n EXCEPT !.ver = v] \in NegRecords
         /\ \A k \in Keys : [n EXCEPT !.key = k] \in NegRecords
         /\ \A r \in Roles, k \in Keys :
              [n EXCEPT !.role = r, !.key = k] \in NegRecords
         /\ \A r \in Roles, h \in Hvis :
              [n EXCEPT !.role = r, !.commitPkt = FALSE, !.peerHvi = h]
                \in NegRecords
         /\ \A h \in HelloIds, r \in Nat :
              [n EXCEPT !.peerHello = h, !.dh = r] \in NegRecords
BY Zenon DEF NegRecords

\* Messages have the fields their handlers read.
LEMMA MessageTyped ==
  ASSUME NEW m \in Messages
  PROVE  /\ m.type = "Hello" => m.chain \in Nat /\ m.ver \in Nat
         /\ m.type = "Commit" => m.chain \in Nat /\ m.hvi \in Hvis
         /\ m.type \in {"DHPart1", "DHPart2"} => m.chain \in Nat /\ m.dh \in Nat
         /\ m.type \in {"Confirm1", "Confirm2", "Srtp"} => m.key \in Keys
BY DEF Messages

-----------------------------------------------------------------------------
(* Type correctness.  It is not inductive alone: a resent packet has a type  *)
(* only if sentPacket is not NULL, which SentMatchesState tells.             *)

TypeInv == TypeOK /\ SentMatchesState

UserRecords == [calls : Nat, left : Nat, started : BOOLEAN, malformed : Nat]

\* What the type invariant says of one end, and of a received message.
LEMMA LocalTypes ==
  ASSUME TypeInv, NEW p \in Peers
  PROVE  /\ state[p] \in States
         /\ sent[p] \in Packets
         /\ sent[p] \in SentIn(state[p])
         /\ timer[p] \in TimerRecords
         /\ neg[p] \in NegRecords
         /\ \A m \in net : m \in Messages
BY DEF TypeInv, TypeOK, SentMatchesState

LEMMA GotoTyped ==
  ASSUME TypeInv, NEW p \in Peers, NEW s \in States, NEW pkt \in SentIn(s),
         pkt \in Packets, Goto(p, s, pkt)
  PROVE  /\ state' \in [Peers -> States] /\ sent' \in [Peers -> Packets]
         /\ SentMatchesState'
<1>1. state' \in [Peers -> States] /\ sent' \in [Peers -> Packets]
  BY DEF Goto, TypeInv, TypeOK
<1>2. SentMatchesState'
  BY DEF Goto, TypeInv, TypeOK, SentMatchesState
<1> QED BY <1>1, <1>2

LEMMA SetTimerTyped ==
  ASSUME TypeInv, NEW p \in Peers, NEW t \in TimerRecords, SetTimer(p, t)
  PROVE  timer' \in [Peers -> TimerRecords]
BY DEF SetTimer, TypeInv, TypeOK

LEMMA ActivateTyped ==
  ASSUME TypeInv, NEW p \in Peers, NEW t \in TimerRecords, ActivateTimer(p, t)
  PROVE  timer' \in [Peers -> TimerRecords]
BY TimerTyped, SetTimerTyped DEF ActivateTimer

LEMMA StartTimerTyped ==
  ASSUME TypeInv, NEW p \in Peers, NEW t \in TimerRecords, StartTimer(p, t)
  PROVE  timer' \in [Peers -> TimerRecords]
<1>1. [t EXCEPT !.counter = 0] \in TimerRecords
  BY TimerTyped
<1> QED BY <1>1, ActivateTyped DEF StartTimer

LEMMA NextTimerTyped ==
  ASSUME TypeInv, NEW p \in Peers, NEW t \in TimerRecords, NEW max \in Nat,
         NextTimer(p, t, max)
  PROVE  timer' \in [Peers -> TimerRecords]
<1>1. t.counter + 1 \in Nat /\ max + 1 \in Nat
  BY DEF TimerRecords
<1>2. /\ [t EXCEPT !.counter = max + 1] \in TimerRecords
      /\ [t EXCEPT !.counter = t.counter + 1] \in TimerRecords
  BY <1>1, TimerTyped
<1>3. CASE Exhausted(t, max)
  BY <1>2, <1>3, SetTimerTyped DEF NextTimer
<1>4. CASE ~Exhausted(t, max)
  <2>1. ActivateTimer(p, [t EXCEPT !.counter = t.counter + 1])
    BY <1>4 DEF NextTimer
  <2> QED BY <1>2, <2>1, ActivateTyped
<1> QED BY <1>3, <1>4

LEMMA NegSetTyped ==
  ASSUME TypeInv, NEW p \in Peers, NEW n \in NegRecords,
         neg' = [neg EXCEPT ![p] = n]
  PROVE  neg' \in [Peers -> NegRecords]
BY DEF TypeInv, TypeOK

LEMMA BothOffTyped ==
  ASSUME TypeInv, NEW p \in Peers, ReceiverOff(p) \/ BothOff(p)
  PROVE  srtp' \in [Peers -> [recv : Keys, send : Keys]]
<1>1. NoKey \in Keys
  BY DEF NoKey, Keys, NoHello, HelloIds
<1>2. [srtp[p] EXCEPT !.recv = NoKey] \in [recv : Keys, send : Keys]
  BY <1>1 DEF TypeInv, TypeOK
<1>3. [recv |-> NoKey, send |-> NoKey] \in [recv : Keys, send : Keys]
  BY <1>1
<1> QED BY <1>2, <1>3 DEF TypeInv, TypeOK, ReceiverOff, BothOff

LEMMA GiveUpTyped ==
  ASSUME TypeInv, NEW p \in Peers, GiveUp(p)
  PROVE  /\ state' \in [Peers -> States] /\ sent' \in [Peers -> Packets]
         /\ SentMatchesState'
         /\ neg' \in [Peers -> NegRecords]
         /\ srtp' \in [Peers -> [recv : Keys, send : Keys]]
<1>1. Goto(p, "Initial", "NULL")
  BY DEF GiveUp
<1>2. "NULL" \in SentIn("Initial") /\ "Initial" \in States /\ "NULL" \in Packets
  BY DEF SentIn, States, Packets
<1>3. neg' \in [Peers -> NegRecords]
  <2> DEFINE n == [neg[p] EXCEPT !.commitPkt = @ /\ state[p] # "AckSent"]
  <2>1. neg' = [neg EXCEPT ![p] = n]
    BY DEF GiveUp
  <2>2. n \in NegRecords
    BY LocalTypes, NegTyped, Zenon DEF NegRecords
  <2> QED BY <2>1, <2>2, NegSetTyped
<1>4. srtp' \in [Peers -> [recv : Keys, send : Keys]]
  <2>1. ReceiverOff(p) \/ BothOff(p) \/ UNCHANGED srtp
    BY DEF GiveUp
  <2> QED BY <2>1, BothOffTyped DEF TypeInv, TypeOK
<1> QED BY <1>1, <1>2, <1>3, <1>4, GotoTyped

LEMMA ErrorSentTyped ==
  ASSUME TypeInv, NEW p \in Peers, NEW n \in NegRecords, ErrorSent(p, n),
         user' \in [Peers -> UserRecords]
  PROVE  TypeInv'
<1>1. "Error" \in SentIn("WaitErrorAck") /\ "WaitErrorAck" \in States
      /\ "Error" \in Packets /\ {"Error"} \subseteq Packets \ {"NULL"}
  BY DEF SentIn, States, Packets
<1>2. /\ state' \in [Peers -> States] /\ sent' \in [Peers -> Packets]
      /\ SentMatchesState'
  BY <1>1, GotoTyped DEF ErrorSent
<1>3. timer' \in [Peers -> TimerRecords]
  BY LocalTypes, TimerTyped, StartTimerTyped DEF ErrorSent
<1>4. net' \subseteq Messages
  BY <1>1, SendTyped DEF ErrorSent, TypeInv, TypeOK
<1> QED BY <1>2, <1>3, <1>4, NegSetTyped DEF ErrorSent, TypeInv, TypeOK, UserRecords

LEMMA SendErrorPacketTyped ==
  ASSUME TypeInv, NEW p \in Peers, NEW n \in NegRecords, SendErrorPacket(p, n)
  PROVE  TypeInv'
BY ErrorSentTyped DEF SendErrorPacket, TypeInv, TypeOK, UserRecords

-----------------------------------------------------------------------------
(* One lemma for each kind of event. *)

LEMMA UserTyped ==
  ASSUME NEW u \in UserRecords
  PROVE  /\ u.calls > 0 => [u EXCEPT !.calls = @ - 1, !.started = TRUE] \in UserRecords
         /\ u.left > 0 => [u EXCEPT !.calls = @ + 1, !.left = @ - 1] \in UserRecords
         /\ [u EXCEPT !.started = FALSE] \in UserRecords
         /\ u.malformed > 0 => [u EXCEPT !.malformed = @ - 1] \in UserRecords
<1>1. ASSUME u.calls > 0
      PROVE  [u EXCEPT !.calls = @ - 1, !.started = TRUE] \in UserRecords
  <2>1. u.calls - 1 \in Nat
    BY <1>1 DEF UserRecords
  <2> QED BY <2>1, Zenon DEF UserRecords
<1>2. ASSUME u.left > 0
      PROVE  [u EXCEPT !.calls = @ + 1, !.left = @ - 1] \in UserRecords
  <2>1. u.calls + 1 \in Nat /\ u.left - 1 \in Nat
    BY <1>2 DEF UserRecords
  <2> QED BY <2>1, Zenon DEF UserRecords
<1>3. [u EXCEPT !.started = FALSE] \in UserRecords
  BY DEF UserRecords
<1>4. ASSUME u.malformed > 0
      PROVE  [u EXCEPT !.malformed = @ - 1] \in UserRecords
  <2>1. u.malformed - 1 \in Nat
    BY <1>4 DEF UserRecords
  <2> QED BY <2>1, Zenon DEF UserRecords
<1> QED BY <1>1, <1>2, <1>3, <1>4

LEMMA StartCallTyped ==
  ASSUME TypeInv, NEW p \in Peers, StartCall(p)
  PROVE  user' \in [Peers -> UserRecords]
<1>1. user' = [user EXCEPT ![p] = [user[p] EXCEPT !.calls = @ - 1, !.started = TRUE]]
  BY Zenon DEF StartCall
<1>2. user \in [Peers -> UserRecords] /\ user[p].calls > 0
  BY DEF TypeInv, TypeOK, UserRecords, StartCall
<1> QED BY <1>1, <1>2, UserTyped

LEMMA StartTyped ==
  ASSUME TypeInv, NEW p \in Peers, StartCheck(p) \/ Start(p)
  PROVE  TypeInv'
<1> USE LocalTypes
<1>1. CASE StartCheck(p)
  <2>1. user' = [user EXCEPT ![p] = [user[p] EXCEPT !.calls = @ + 1, !.left = @ - 1]]
    BY <1>1, Zenon DEF StartCheck
  <2>2. user[p] \in UserRecords /\ user[p].left > 0
    BY <1>1 DEF TypeInv, TypeOK, UserRecords, StartCheck
  <2>3. user' \in [Peers -> UserRecords]
    BY <2>1, <2>2, UserTyped DEF TypeInv, TypeOK, UserRecords
  <2> QED BY <1>1, <2>3
        DEF StartCheck, TypeInv, TypeOK, UserRecords, SentMatchesState
<1>2. CASE StartInitial(p)
  <2>1. "Hello" \in SentIn("Detect") /\ "Detect" \in States
        /\ {"Hello"} \in SUBSET (Packets \ {"NULL"})
    BY DEF SentIn, States, Packets
  <2>2. /\ state' \in [Peers -> States] /\ sent' \in [Peers -> Packets]
        /\ SentMatchesState'
    BY <1>2, <2>1, GotoTyped DEF StartInitial
  <2>3. timer' \in [Peers -> TimerRecords]
    BY <1>2, TimerTyped, StartTimerTyped DEF StartInitial
  <2>4. net' \subseteq Messages
    BY <1>2, <2>1, SendTyped DEF StartInitial, TypeInv, TypeOK
  <2>5. user' \in [Peers -> UserRecords]
    BY <1>2, StartCallTyped DEF StartInitial
  <2> QED BY <1>2, <2>2, <2>3, <2>4, <2>5 DEF StartInitial, TypeInv, TypeOK, UserRecords
<1>3. CASE StartDetect(p)
  <2>1. sent[p] = "Hello" /\ {"Hello"} \in SUBSET (Packets \ {"NULL"})
    BY <1>3 DEF StartDetect, SentIn, Packets
  <2>2. timer' \in [Peers -> TimerRecords]
    BY <1>3, TimerTyped, StartTimerTyped DEF StartDetect
  <2>3. net' \subseteq Messages
    BY <1>3, <2>1, SendTyped DEF StartDetect, TypeInv, TypeOK
  <2>4. user' \in [Peers -> UserRecords]
    BY <1>3, StartCallTyped DEF StartDetect
  <2> QED BY <1>3, <2>2, <2>3, <2>4
        DEF StartDetect, TypeInv, TypeOK, UserRecords, SentMatchesState
<1>4. CASE StartElsewhere(p)
  <2>1. user' \in [Peers -> UserRecords]
    BY <1>4, StartCallTyped DEF StartElsewhere
  <2> QED BY <1>4, <2>1, GiveUpTyped DEF StartElsewhere, TypeInv, TypeOK, UserRecords
<1> QED BY <1>1, <1>2, <1>3, <1>4 DEF Start

LEMMA StreamTyped ==
  ASSUME TypeInv, NEW p \in Peers, Close(p) \/ SendRtp(p) \/ TimerPop(p)
  PROVE  TypeInv'
<1> USE LocalTypes
<1>1. CASE Close(p)
  <2>1. NewNeg(neg[p].setup, neg[p].chain + 1) \in NegRecords
    <3>1. NoHello \in HelloIds /\ NoHvi \in Hvis /\ NoKey \in Keys
      BY DEF NoHello, HelloIds, NoHvi, Hvis, NoKey, Keys
    <3>2. /\ neg[p].chain + 1 \in Nat /\ neg[p].setup \in SetupRecords
          /\ neg[p].setup.max \in Nat
      BY DEF NegRecords, SetupRecords
    <3> QED BY <3>1, <3>2 DEF NewNeg, NegRecords, Roles
  <2>2. [Cancelled(timer[p]) EXCEPT !.maxT1 = T1Detect, !.counter = 0] \in TimerRecords
    BY TimerTyped, BoundAssumption
  <2>3. timer' \in [Peers -> TimerRecords] /\ neg' \in [Peers -> NegRecords]
    BY <1>1, <2>1, <2>2, SetTimerTyped, NegSetTyped DEF Close
  <2>4. "NULL" \in SentIn("Initial") /\ "Initial" \in States /\ "NULL" \in Packets
    BY DEF SentIn, States, Packets
  <2>5. /\ state' \in [Peers -> States] /\ sent' \in [Peers -> Packets]
        /\ SentMatchesState'
    BY <1>1, <2>4, GotoTyped DEF Close
  <2>6. srtp' \in [Peers -> [recv : Keys, send : Keys]]
    BY <1>1, BothOffTyped DEF Close
  <2>7. user' \in [Peers -> UserRecords]
    <3>1. user \in [Peers -> UserRecords]
      BY DEF TypeInv, TypeOK, UserRecords
    <3>2. [user[p] EXCEPT !.started = FALSE] \in UserRecords
      BY <3>1, UserTyped
    <3>3. user' = [user EXCEPT ![p] = [user[p] EXCEPT !.started = FALSE]]
      BY <1>1, Zenon DEF Close
    <3> QED BY <3>1, <3>2, <3>3
  <2> QED BY <1>1, <2>3, <2>5, <2>6, <2>7 DEF Close, TypeInv, TypeOK, UserRecords
<1>2. CASE SendRtp(p)
  <2>1. [type |-> "Srtp", from |-> p, key |-> srtp[p].send] \in Messages
    BY DEF TypeInv, TypeOK, Messages
  <2> QED BY <1>2, <2>1 DEF SendRtp, KeepData, TypeInv, TypeOK, SentMatchesState
<1>3. CASE TimerPop(p)
  <2>1. timer[p].req - 1 \in Nat
    BY <1>3 DEF TimerPop, TimerRecords
  <2>2. [timer[p] EXCEPT !.req = @ - 1, !.due = TRUE] \in TimerRecords
    BY <2>1, Zenon DEF TimerRecords
  <2>3. timer' \in [Peers -> TimerRecords]
    BY <1>3, <2>2, SetTimerTyped DEF TimerPop
  <2> QED BY <1>3, <2>3 DEF TimerPop, TypeInv, TypeOK, SentMatchesState
<1> QED BY <1>1, <1>2, <1>3

LEMMA MalformedTyped ==
  ASSUME TypeInv, NEW p \in Peers, Malformed(p)
  PROVE  TypeInv'
<1>1. user' = [user EXCEPT ![p] = [user[p] EXCEPT !.malformed = @ - 1]]
  BY Zenon DEF Malformed
<1>2. user \in [Peers -> UserRecords] /\ user[p].malformed > 0
  BY DEF TypeInv, TypeOK, UserRecords, Malformed
<1>3. user' \in [Peers -> UserRecords]
  BY <1>1, <1>2, UserTyped
<1> QED BY <1>3, LocalTypes, ErrorSentTyped DEF Malformed

LEMMA TimerStepTyped ==
  ASSUME TypeInv, NEW p \in Peers, TimerStep(p)
  PROVE  TypeInv'
<1> USE LocalTypes, BoundAssumption
<1>0. Delivered(timer[p]) \in TimerRecords
  BY TimerTyped
<1>1. CASE TimerHello(p)
  <2> DEFINE t == Delivered(timer[p])
             gone == Exhausted(t, t.maxT1)
             n == [neg[p] EXCEPT !.commitPkt = @ /\ ~gone]
  <2>1. t.maxT1 \in Nat
    BY <1>0 DEF TimerRecords
  <2>2. timer' \in [Peers -> TimerRecords]
    BY <1>0, <1>1, <2>1, NextTimerTyped DEF TimerHello
  <2>3. n \in NegRecords
    BY NegTyped, Zenon DEF NegRecords
  <2>4. neg' = [neg EXCEPT ![p] = n]
    BY <1>1, Zenon DEF TimerHello
  <2>5. neg' \in [Peers -> NegRecords]
    BY <2>3, <2>4, NegSetTyped
  <2>6. state' \in [Peers -> States] /\ SentMatchesState'
    BY <1>1 DEF TimerHello, TypeInv, TypeOK, SentMatchesState, SentIn, States
  <2>7. sent[p] = "Hello" /\ {"Hello"} \in SUBSET (Packets \ {"NULL"})
    BY <1>1 DEF TimerHello, SentIn, Packets
  <2>8. net' \subseteq Messages
    BY <1>1, <2>7, SendTyped DEF TimerHello, TypeInv, TypeOK
  <2> QED BY <1>1, <2>2, <2>5, <2>6, <2>8 DEF TimerHello, TypeInv, TypeOK
<1>2. CASE TimerResend(p)
  <2>1. timer' \in [Peers -> TimerRecords]
    BY <1>0, <1>2, NextTimerTyped DEF TimerResend
  <2>2. net' \subseteq Messages
    BY <1>2, SendTyped DEF TimerResend, TypeInv, TypeOK
  <2> QED BY <1>2, <2>1, <2>2 DEF TimerResend, TypeInv, TypeOK, SentMatchesState
<1>3. CASE TimerFailed(p)
  <2>1. timer' \in [Peers -> TimerRecords]
    BY <1>0, <1>3, SetTimerTyped, NextTimerTyped DEF TimerFailed
  <2>2. net' \subseteq Messages
    BY <1>3, SendTyped DEF TimerFailed, TypeInv, TypeOK
  <2> QED BY <1>3, <2>1, <2>2, GiveUpTyped DEF TimerFailed, TypeInv, TypeOK
<1>4. CASE TimerUnexpected(p)
  BY <1>0, <1>4, SetTimerTyped, GiveUpTyped DEF TimerUnexpected, TypeInv, TypeOK
<1>5. CASE TimerIgnored(p)
  <2>1. timer' \in [Peers -> TimerRecords]
    BY <1>0, <1>5, SetTimerTyped DEF TimerIgnored
  <2> QED BY <1>5, <2>1 DEF TimerIgnored, TypeInv, TypeOK, SentMatchesState
<1> QED BY <1>1, <1>2, <1>3, <1>4, <1>5 DEF TimerStep

\* An action that leaves the ZRtp object, SRTP, the start calls and the drawn
\* values alone is typed if the state machine, the timer and the network are.
LEMMA KeepDataTyped ==
  ASSUME TypeInv, KeepData,
         state' \in [Peers -> States], sent' \in [Peers -> Packets],
         SentMatchesState',
         timer' \in [Peers -> TimerRecords], net' \subseteq Messages
  PROVE  TypeInv'
BY DEF KeepData, TypeInv, TypeOK

\* The common case of an event that changes neither state nor sentPacket.
LEMMA StayTyped ==
  ASSUME TypeInv, KeepData, UNCHANGED <<state, sent>>,
         timer' \in [Peers -> TimerRecords], net' \subseteq Messages
  PROVE  TypeInv'
BY DEF KeepData, TypeInv, TypeOK, SentMatchesState

LEMMA DrawTyped ==
  ASSUME NEW r \in Draws
  PROVE  r \in Nat
BY DrawsAssumption

LEMMA CommittedTyped ==
  ASSUME NEW n \in NegRecords, NEW m \in Messages, m.type = "Hello",
         NEW r \in Draws
  PROVE  /\ Committed(n, m, r) \in NegRecords
         /\ [Committed(n, m, r) EXCEPT !.commitPkt = TRUE] \in NegRecords
<1>1. [chain |-> m.chain, ver |-> m.ver] \in HelloIds /\ r \in Nat
  BY MessageTyped, DrawTyped DEF HelloIds
<1>2. Committed(n, m, r) \in NegRecords
  BY <1>1, NegTyped, Zenon DEF Committed
<1> QED BY <1>2, NegTyped

LEMMA DiscoveryTyped ==
  ASSUME TypeInv, NEW p \in Peers, NEW m \in net, Discovery(p, m)
  PROVE  TypeInv'
<1> USE LocalTypes, BoundAssumption
<1>0. /\ {"Hello"} \in SUBSET (Packets \ {"NULL"})
      /\ {"HelloAck"} \in SUBSET (Packets \ {"NULL"})
      /\ {"Commit"} \in SUBSET (Packets \ {"NULL"})
  BY DEF Packets
<1>1. /\ Cancelled(timer[p]) \in TimerRecords
      /\ [Cancelled(timer[p]) EXCEPT !.maxT1 = T1AckSent] \in TimerRecords
  BY TimerTyped
<1>2. CASE DetectHelloAck(p, m)
  <2>1. "NULL" \in SentIn("AckDetected") /\ "AckDetected" \in States /\ "NULL" \in Packets
    BY DEF SentIn, States, Packets
  <2>2. timer' \in [Peers -> TimerRecords]
    BY <1>1, <1>2, SetTimerTyped DEF DetectHelloAck
  <2> QED BY <1>2, <2>1, <2>2, GotoTyped, KeepDataTyped DEF DetectHelloAck, TypeInv, TypeOK
<1>3. CASE DetectHelloNewer(p, m)
  <2>1. timer' \in [Peers -> TimerRecords]
    BY <1>1, <1>3, StartTimerTyped DEF DetectHelloNewer
  <2> QED BY <1>3, <2>1, StayTyped DEF DetectHelloNewer, TypeInv, TypeOK
<1>4. CASE DetectHelloOlder(p, m)
  <2> DEFINE n == [neg[p] EXCEPT !.ver = m.ver]
  <2>1. n \in NegRecords
    BY <1>4, MessageTyped, NegTyped DEF DetectHelloOlder
  <2>2. neg' \in [Peers -> NegRecords]
    BY <1>4, <2>1, NegSetTyped DEF DetectHelloOlder
  <2>3. net' \subseteq Messages
    BY <1>0, <1>4, <2>1, SendTyped DEF DetectHelloOlder, TypeInv, TypeOK
  <2>4. timer' \in [Peers -> TimerRecords]
    BY <1>1, <1>4, StartTimerTyped DEF DetectHelloOlder
  <2>5. "Hello" \in SentIn("Detect") /\ "Detect" \in States /\ "Hello" \in Packets
    BY DEF SentIn, States, Packets
  <2>6. /\ state' \in [Peers -> States] /\ sent' \in [Peers -> Packets]
        /\ SentMatchesState'
    BY <1>4, <2>5, GotoTyped DEF DetectHelloOlder
  <2> QED BY <1>4, <2>2, <2>3, <2>4, <2>6 DEF DetectHelloOlder, TypeInv, TypeOK
<1>5. CASE DetectHelloUnsupported(p, m)
  BY <1>5, SendErrorPacketTyped DEF DetectHelloUnsupported
<1>6. CASE DetectHello(p, m)
  <2>1. PICK r \in Draws :
          /\ neg' = [neg EXCEPT ![p] = [Committed(neg[p], m, r) EXCEPT !.commitPkt = TRUE]]
          /\ drawn' = drawn \cup {r}
    BY <1>6, Zenon DEF DetectHello
  <2>2. neg' \in [Peers -> NegRecords]
    BY <1>6, <2>1, CommittedTyped, NegSetTyped DEF DetectHello
  <2>3. drawn' \subseteq Draws
    BY <2>1 DEF TypeInv, TypeOK
  <2>4. net' \subseteq Messages
    BY <1>0, <1>6, SendTyped DEF DetectHello, TypeInv, TypeOK
  <2>5. timer' \in [Peers -> TimerRecords]
    BY <1>1, <1>6, StartTimerTyped DEF DetectHello
  <2>6. state' \in [Peers -> States] /\ SentMatchesState'
    BY <1>6 DEF DetectHello, TypeInv, TypeOK, SentMatchesState, SentIn, States
  <2> QED BY <1>6, <2>2, <2>3, <2>4, <2>5, <2>6 DEF DetectHello, TypeInv, TypeOK
<1>7. CASE AckDetectedHello(p, m)
  <2>1. PICK r \in Draws :
          neg' = [neg EXCEPT ![p] = Committed(neg[p], m, r)] /\ drawn' = drawn \cup {r}
    BY <1>7, Zenon DEF AckDetectedHello
  <2>2. neg' \in [Peers -> NegRecords]
    BY <1>7, <2>1, CommittedTyped, NegSetTyped DEF AckDetectedHello
  <2>3. drawn' \subseteq Draws
    BY <2>1 DEF TypeInv, TypeOK
  <2>4. net' \subseteq Messages
    BY <1>0, <1>7, SendTyped DEF AckDetectedHello, TypeInv, TypeOK
  <2>5. "HelloAck" \in SentIn("WaitCommit") /\ "WaitCommit" \in States
        /\ "HelloAck" \in Packets
    BY DEF SentIn, States, Packets
  <2>6. /\ state' \in [Peers -> States] /\ sent' \in [Peers -> Packets]
        /\ SentMatchesState'
    BY <1>7, <2>5, GotoTyped DEF AckDetectedHello
  <2> QED BY <1>7, <2>2, <2>3, <2>4, <2>6 DEF AckDetectedHello, TypeInv, TypeOK
<1>8. CASE WaitCommitHello(p, m)
  <2>1. sent[p] = "HelloAck"
    BY <1>8 DEF WaitCommitHello, SentIn
  <2>2. net' \subseteq Messages
    BY <1>0, <1>8, <2>1, SendTyped DEF WaitCommitHello, TypeInv, TypeOK
  <2> QED BY <1>8, <2>2, StayTyped DEF WaitCommitHello, TypeInv, TypeOK
<1>9. CASE AckSentHelloAck(p, m)
  <2> DEFINE n == [neg[p] EXCEPT !.commitPkt = FALSE]
  <2>1. n \in NegRecords
    BY NegTyped
  <2>2. neg' \in [Peers -> NegRecords]
    BY <1>9, <2>1, NegSetTyped DEF AckSentHelloAck
  <2>3. net' \subseteq Messages
    BY <1>0, <1>9, <2>1, SendTyped DEF AckSentHelloAck, TypeInv, TypeOK
  <2>4. timer' \in [Peers -> TimerRecords]
    BY <1>1, <1>9, StartTimerTyped DEF AckSentHelloAck
  <2>5. "Commit" \in SentIn("CommitSent") /\ "CommitSent" \in States
        /\ "Commit" \in Packets
    BY DEF SentIn, States, Packets
  <2>6. /\ state' \in [Peers -> States] /\ sent' \in [Peers -> Packets]
        /\ SentMatchesState'
    BY <1>9, <2>5, GotoTyped DEF AckSentHelloAck
  <2> QED BY <1>9, <2>2, <2>3, <2>4, <2>6 DEF AckSentHelloAck, TypeInv, TypeOK
<1>10. CASE AckSentHello(p, m)
  <2>1. net' \subseteq Messages
    BY <1>0, <1>10, SendTyped DEF AckSentHello, TypeInv, TypeOK
  <2> QED BY <1>10, <2>1, StayTyped DEF AckSentHello, TypeInv, TypeOK
<1> QED BY <1>2, <1>3, <1>4, <1>5, <1>6, <1>7, <1>8, <1>9, <1>10, Discovery(p, m)
        DEF Discovery

\* The Responder's record and answer.
LEMMA BecomeResponderTyped ==
  ASSUME TypeInv, NEW p \in Peers, NEW m \in net, m.type = "Commit",
         BecomeResponder(p, m), timer' \in [Peers -> TimerRecords]
  PROVE  TypeInv'
<1> USE LocalTypes
<1>1. OwnHello(p) \in HelloIds /\ m.hvi \in Hvis /\ m.hvi.dh \in Nat
  BY MessageTyped DEF OwnHello, NegRecords, HelloIds, Hvis
<1>2. [hello |-> OwnHello(p), ini |-> m.hvi.dh, resp |-> 0] \in Keys
  BY <1>1 DEF Keys
<1>3. ResponderNeg(p, m) \in NegRecords
  <2>1. "Responder" \in Roles
    BY DEF Roles
  <2>2. CASE Multi(p)
    BY <1>2, <2>1, <2>2, NegTyped, Zenon DEF ResponderNeg
  <2>3. CASE ~Multi(p)
    BY <1>1, <2>1, <2>3, NegTyped, Zenon DEF ResponderNeg
  <2> QED BY <2>2, <2>3
<1>4. neg' \in [Peers -> NegRecords]
  BY <1>3, NegSetTyped DEF BecomeResponder
<1>5. /\ state' \in [Peers -> States] /\ sent' \in [Peers -> Packets]
      /\ SentMatchesState' /\ net' \subseteq Messages
  <2> DEFINE answer == IF Multi(p) THEN "Confirm1" ELSE "DHPart1"
             s == IF Multi(p) THEN "WaitConfirm2" ELSE "WaitDHPart2"
  <2>1. answer \in SentIn(s) /\ s \in States /\ answer \in Packets
        /\ {answer} \in SUBSET (Packets \ {"NULL"})
    BY DEF SentIn, States, Packets
  <2>2. Goto(p, s, answer) /\ Send(p, {answer}, ResponderNeg(p, m))
    BY DEF BecomeResponder
  <2> HIDE DEF answer, s
  <2> QED BY <1>3, <2>1, <2>2, GotoTyped, SendTyped DEF TypeInv, TypeOK
<1> QED BY <1>4, <1>5 DEF BecomeResponder, TypeInv, TypeOK

LEMMA AgreementTyped ==
  ASSUME TypeInv, NEW p \in Peers, NEW m \in net, Agreement(p, m)
  PROVE  TypeInv'
<1> USE LocalTypes
<1>1. Cancelled(timer[p]) \in TimerRecords
  BY TimerTyped
<1>2. CASE AckSentCommit(p, m)
  <2>1. timer' \in [Peers -> TimerRecords]
    BY <1>1, <1>2, SetTimerTyped DEF AckSentCommit
  <2> QED BY <1>2, <2>1, BecomeResponderTyped DEF AckSentCommit
<1>3. CASE AckSentCommitIgnored(p, m)
  <2>1. timer' \in [Peers -> TimerRecords]
    BY <1>1, <1>3, SetTimerTyped DEF AckSentCommitIgnored
  <2> QED BY <1>3, <2>1, StayTyped DEF AckSentCommitIgnored, TypeInv, TypeOK
<1>4. CASE WaitCommitCommit(p, m)
  BY <1>4, BecomeResponderTyped DEF WaitCommitCommit, TypeInv, TypeOK
<1>5. CASE CommitClashLost(p, m)
  <2>1. timer' \in [Peers -> TimerRecords]
    BY <1>1, <1>5, SetTimerTyped DEF CommitClashLost
  <2> QED BY <1>5, <2>1, BecomeResponderTyped DEF CommitClashLost
<1>6. CASE CommitClashWon(p, m)
  <2>1. timer' \in [Peers -> TimerRecords]
    BY <1>1, <1>6, StartTimerTyped DEF CommitClashWon
  <2> QED BY <1>6, <2>1, StayTyped DEF CommitClashWon, TypeInv, TypeOK
<1>7. CASE CommitSentDHPart1(p, m)
  <2> DEFINE k == [hello |-> neg[p].peerHello, ini |-> neg[p].dh, resp |-> m.dh]
             n == [neg[p] EXCEPT !.role = "Initiator", !.key = k]
  <2>1. k \in Keys /\ "Initiator" \in Roles
    BY <1>7, MessageTyped DEF CommitSentDHPart1, Keys, NegRecords, Roles
  <2>2. n \in NegRecords
    BY <2>1, NegTyped, Zenon
  <2>3. neg' \in [Peers -> NegRecords]
    BY <1>7, <2>2, NegSetTyped DEF CommitSentDHPart1
  <2>4. timer' \in [Peers -> TimerRecords]
    BY <1>1, <1>7, StartTimerTyped DEF CommitSentDHPart1
  <2>5. "DHPart2" \in SentIn("WaitConfirm1") /\ "WaitConfirm1" \in States
        /\ "DHPart2" \in Packets /\ {"DHPart2"} \in SUBSET (Packets \ {"NULL"})
    BY DEF SentIn, States, Packets
  <2>6. /\ state' \in [Peers -> States] /\ sent' \in [Peers -> Packets]
        /\ SentMatchesState'
    BY <1>7, <2>5, GotoTyped DEF CommitSentDHPart1
  <2>7. net' \subseteq Messages
    BY <1>7, <2>2, <2>5, SendTyped DEF CommitSentDHPart1, TypeInv, TypeOK
  <2> QED BY <1>7, <2>3, <2>4, <2>6, <2>7 DEF CommitSentDHPart1, TypeInv, TypeOK
<1>8. CASE CommitSentDHPart1Ignored(p, m)
  <2>1. "NULL" \in SentIn("CommitSent") /\ "CommitSent" \in States /\ "NULL" \in Packets
    BY DEF SentIn, States, Packets
  <2>2. timer' \in [Peers -> TimerRecords]
    BY <1>1, <1>8, StartTimerTyped DEF CommitSentDHPart1Ignored
  <2> QED BY <1>8, <2>1, <2>2, GotoTyped, KeepDataTyped
        DEF CommitSentDHPart1Ignored, TypeInv, TypeOK
<1>9. CASE CommitSentConfirm1(p, m)
  <2> DEFINE k == [hello |-> neg[p].peerHello, ini |-> neg[p].dh, resp |-> 0]
             n == [neg[p] EXCEPT !.role = "Initiator", !.key = k]
  <2>1. k \in Keys /\ "Initiator" \in Roles
    BY DEF Keys, NegRecords, Roles
  <2>2. n \in NegRecords
    BY <2>1, NegTyped, Zenon
  <2>3. CASE m.key = k
    <3>1. neg' \in [Peers -> NegRecords]
      BY <1>9, <2>2, <2>3, NegSetTyped DEF CommitSentConfirm1
    <3>2. timer' \in [Peers -> TimerRecords]
      BY <1>1, <1>9, <2>3, StartTimerTyped DEF CommitSentConfirm1
    <3>3. "Confirm2" \in SentIn("WaitConfAck") /\ "WaitConfAck" \in States
          /\ "Confirm2" \in Packets /\ {"Confirm2"} \in SUBSET (Packets \ {"NULL"})
      BY DEF SentIn, States, Packets
    <3>4. /\ state' \in [Peers -> States] /\ sent' \in [Peers -> Packets]
          /\ SentMatchesState'
      BY <1>9, <2>3, <3>3, GotoTyped DEF CommitSentConfirm1
    <3>5. net' \subseteq Messages
      BY <1>9, <2>2, <2>3, <3>3, SendTyped DEF CommitSentConfirm1, TypeInv, TypeOK
    <3>6. srtp' = [srtp EXCEPT ![p] = [srtp[p] EXCEPT !.recv = k]]
      BY <1>9, <2>3, Zenon DEF CommitSentConfirm1
    <3>7. srtp' \in [Peers -> [recv : Keys, send : Keys]]
      BY <2>1, <3>6 DEF TypeInv, TypeOK
    <3> QED BY <1>9, <2>3, <3>1, <3>2, <3>4, <3>5, <3>7
          DEF CommitSentConfirm1, TypeInv, TypeOK
  <2>4. CASE m.key # k
    <3>1. SendErrorPacket(p, n)
      BY <1>9, <2>4 DEF CommitSentConfirm1
    <3> QED BY <2>2, <3>1, SendErrorPacketTyped
  <2> QED BY <2>3, <2>4
<1>10. CASE WaitDHPart2Commit(p, m)
  <2>1. sent[p] = "DHPart1" /\ {"DHPart1"} \in SUBSET (Packets \ {"NULL"})
    BY <1>10 DEF WaitDHPart2Commit, SentIn, Packets
  <2>2. net' \subseteq Messages
    BY <1>10, <2>1, SendTyped DEF WaitDHPart2Commit, TypeInv, TypeOK
  <2> QED BY <1>10, <2>2, StayTyped DEF WaitDHPart2Commit, TypeInv, TypeOK
<1>11. CASE WaitDHPart2DHPart2(p, m)
  <2> DEFINE k == [hello |-> OwnHello(p), ini |-> m.dh, resp |-> neg[p].dh]
             n == [neg[p] EXCEPT !.key = k]
             good == neg[p].peerHvi = [dh |-> m.dh, hello |-> OwnHello(p)]
  <2>1. k \in Keys
    BY <1>11, MessageTyped DEF WaitDHPart2DHPart2, Keys, NegRecords, OwnHello, HelloIds
  <2>2. n \in NegRecords
    BY <2>1, NegTyped
  <2>3. CASE good
    <3>1. neg' \in [Peers -> NegRecords]
      BY <1>11, <2>2, <2>3, NegSetTyped DEF WaitDHPart2DHPart2
    <3>2. "Confirm1" \in SentIn("WaitConfirm2") /\ "WaitConfirm2" \in States
          /\ "Confirm1" \in Packets /\ {"Confirm1"} \in SUBSET (Packets \ {"NULL"})
      BY DEF SentIn, States, Packets
    <3>3. /\ state' \in [Peers -> States] /\ sent' \in [Peers -> Packets]
          /\ SentMatchesState'
      BY <1>11, <2>3, <3>2, GotoTyped DEF WaitDHPart2DHPart2
    <3>4. net' \subseteq Messages
      BY <1>11, <2>2, <2>3, <3>2, SendTyped DEF WaitDHPart2DHPart2, TypeInv, TypeOK
    <3> QED BY <1>11, <2>3, <3>1, <3>3, <3>4 DEF WaitDHPart2DHPart2, TypeInv, TypeOK
  <2>4. CASE ~good
    BY <1>11, <2>4, SendErrorPacketTyped DEF WaitDHPart2DHPart2
  <2> QED BY <2>3, <2>4
<1> QED BY <1>2, <1>3, <1>4, <1>5, <1>6, <1>7, <1>8, <1>9, <1>10, <1>11 DEF Agreement

LEMMA ConfirmationTyped ==
  ASSUME TypeInv, NEW p \in Peers, NEW m \in net, Confirmation(p, m)
  PROVE  TypeInv'
<1> USE LocalTypes
<1>0. /\ {"Conf2Ack"} \in SUBSET (Packets \ {"NULL"})
      /\ {"Confirm2"} \in SUBSET (Packets \ {"NULL"})
      /\ {"Confirm1"} \in SUBSET (Packets \ {"NULL"})
  BY DEF Packets
<1>1. Cancelled(timer[p]) \in TimerRecords
  BY TimerTyped
<1>2. CASE WaitConfirm2Repeat(p, m)
  <2>1. sent[p] = "Confirm1"
    BY <1>2 DEF WaitConfirm2Repeat, SentIn
  <2>2. net' \subseteq Messages
    BY <1>0, <1>2, <2>1, SendTyped DEF WaitConfirm2Repeat, TypeInv, TypeOK
  <2> QED BY <1>2, <2>2, StayTyped DEF WaitConfirm2Repeat, TypeInv, TypeOK
<1>3. CASE WaitConfirm2Confirm2(p, m)
  <2>1. CASE m.key = neg[p].key
    <3>1. "Conf2Ack" \in SentIn("SecureState") /\ "SecureState" \in States
          /\ "Conf2Ack" \in Packets
      BY DEF SentIn, States, Packets
    <3>2. /\ state' \in [Peers -> States] /\ sent' \in [Peers -> Packets]
          /\ SentMatchesState'
      BY <1>3, <2>1, <3>1, GotoTyped DEF WaitConfirm2Confirm2
    <3>3. net' \subseteq Messages
      BY <1>0, <1>3, <2>1, SendTyped DEF WaitConfirm2Confirm2, TypeInv, TypeOK
    <3>4. neg[p].key \in Keys
      BY DEF NegRecords
    <3>5. srtp' \in [Peers -> [recv : Keys, send : Keys]]
      BY <1>3, <2>1, <3>4 DEF WaitConfirm2Confirm2, TypeInv, TypeOK
    <3> QED BY <1>3, <2>1, <3>2, <3>3, <3>5 DEF WaitConfirm2Confirm2, TypeInv, TypeOK
  <2>2. CASE m.key # neg[p].key
    BY <1>3, <2>2, SendErrorPacketTyped DEF WaitConfirm2Confirm2
  <2> QED BY <2>1, <2>2
<1>4. CASE WaitConfirm1Confirm1(p, m)
  <2>1. CASE m.key = neg[p].key
    <3>1. "Confirm2" \in SentIn("WaitConfAck") /\ "WaitConfAck" \in States
          /\ "Confirm2" \in Packets
      BY DEF SentIn, States, Packets
    <3>2. /\ state' \in [Peers -> States] /\ sent' \in [Peers -> Packets]
          /\ SentMatchesState'
      BY <1>4, <2>1, <3>1, GotoTyped DEF WaitConfirm1Confirm1
    <3>3. net' \subseteq Messages
      BY <1>0, <1>4, <2>1, SendTyped DEF WaitConfirm1Confirm1, TypeInv, TypeOK
    <3>4. neg[p].key \in Keys
      BY DEF NegRecords
    <3>5. srtp' = [srtp EXCEPT ![p] = [srtp[p] EXCEPT !.recv = neg[p].key]]
      BY <1>4, <2>1, Zenon DEF WaitConfirm1Confirm1
    <3>6. srtp' \in [Peers -> [recv : Keys, send : Keys]]
      BY <3>4, <3>5 DEF TypeInv, TypeOK
    <3>7. timer' \in [Peers -> TimerRecords]
      BY <1>1, <1>4, <2>1, StartTimerTyped DEF WaitConfirm1Confirm1
    <3> QED BY <1>4, <2>1, <3>2, <3>3, <3>6, <3>7
          DEF WaitConfirm1Confirm1, TypeInv, TypeOK
  <2>2. CASE m.key # neg[p].key
    BY <1>4, <2>2, SendErrorPacketTyped DEF WaitConfirm1Confirm1
  <2> QED BY <2>1, <2>2
<1>5. CASE WaitConfAckDone(p, m)
  <2>1. "NULL" \in SentIn("SecureState") /\ "SecureState" \in States /\ "NULL" \in Packets
    BY DEF SentIn, States, Packets
  <2>2. /\ state' \in [Peers -> States] /\ sent' \in [Peers -> Packets]
        /\ SentMatchesState'
    BY <1>5, <2>1, GotoTyped DEF WaitConfAckDone
  <2>3. timer' \in [Peers -> TimerRecords]
    BY <1>1, <1>5, SetTimerTyped DEF WaitConfAckDone
  <2>4. neg[p].key \in Keys
    BY DEF NegRecords
  <2>5. srtp' = [srtp EXCEPT ![p] = [srtp[p] EXCEPT !.send = neg[p].key]]
    BY <1>5, Zenon DEF WaitConfAckDone
  <2>6. srtp' \in [Peers -> [recv : Keys, send : Keys]]
    BY <2>4, <2>5 DEF TypeInv, TypeOK
  <2> QED BY <1>5, <2>2, <2>3, <2>6 DEF WaitConfAckDone, TypeInv, TypeOK
<1>6. CASE SecureConfirm2(p, m)
  <2>1. net' \subseteq Messages
    BY <1>6, SendTyped DEF SecureConfirm2, TypeInv, TypeOK
  <2> QED BY <1>6, <2>1, StayTyped DEF SecureConfirm2, TypeInv, TypeOK
<1>7. CASE ErrorPkt(p, m)
  <2>1. timer' \in [Peers -> TimerRecords]
    BY <1>1, <1>7, SetTimerTyped DEF ErrorPkt
  <2>2. net' \subseteq Messages
    BY <1>7 DEF ErrorPkt, Send, Packet, Messages, TypeInv, TypeOK
  <2>3. GiveUp(p) \/ UNCHANGED <<state, sent, neg, srtp>>
    BY <1>7 DEF ErrorPkt
  <2>4. CASE GiveUp(p)
    BY <1>7, <2>1, <2>2, <2>4, GiveUpTyped DEF ErrorPkt, TypeInv, TypeOK
  <2>5. CASE UNCHANGED <<state, sent, neg, srtp>>
    BY <1>7, <2>1, <2>2, <2>5 DEF ErrorPkt, TypeInv, TypeOK, SentMatchesState
  <2> QED BY <2>3, <2>4, <2>5
<1>8. CASE WaitErrorAckDone(p, m)
  <2>1. "NULL" \in SentIn("Initial") /\ "Initial" \in States /\ "NULL" \in Packets
    BY DEF SentIn, States, Packets
  <2>2. timer' \in [Peers -> TimerRecords]
    BY <1>1, <1>8, SetTimerTyped DEF WaitErrorAckDone
  <2> QED BY <1>8, <2>1, <2>2, GotoTyped, KeepDataTyped DEF WaitErrorAckDone, TypeInv, TypeOK
<1> QED BY <1>2, <1>3, <1>4, <1>5, <1>6, <1>7, <1>8 DEF Confirmation

LEMMA InitTyped == Init => TypeInv
<1> SUFFICES ASSUME Init PROVE TypeInv
  OBVIOUS
<1>1. /\ NoHello \in HelloIds /\ NoHvi \in Hvis /\ NoKey \in Keys
      /\ "NULL" \in SentIn("Initial") /\ "Initial" \in States /\ "NULL" \in Packets
  BY DEF NoHello, HelloIds, NoHvi, Hvis, NoKey, Keys, SentIn, States, Packets
<1>2. state \in [Peers -> States] /\ sent \in [Peers -> Packets] /\ SentMatchesState
  BY <1>1 DEF Init, SentMatchesState
<1>3. timer \in [Peers -> TimerRecords]
  BY BoundAssumption DEF Init, TimerRecords
<1>4. ASSUME NEW set \in SetupRecords PROVE NewNeg(set, 1) \in NegRecords
  <2>1. set.max \in Nat
    BY DEF SetupRecords
  <2> QED BY <1>1, <2>1 DEF NewNeg, NegRecords, Roles
<1>5. neg \in [Peers -> NegRecords] /\ user \in [Peers -> UserRecords]
  <2>1. PICK c \in Setups :
          /\ neg = [p \in Peers |-> NewNeg(c[p], 1)]
          /\ user = [p \in Peers |-> [calls |-> 0, left |-> MaxStarts,
                                     started |-> FALSE, malformed |-> c[p].malformed]]
    BY DEF Init
  <2>2. \A p \in Peers : c[p] \in SetupRecords
    BY SetupsAssumption
  <2>3. \A p \in Peers : c[p].malformed \in Nat
    BY <2>2 DEF SetupRecords
  <2>4. neg \in [Peers -> NegRecords]
    BY <1>4, <2>1, <2>2
  <2>5. user \in [Peers -> UserRecords]
    BY <2>1, <2>3, BoundAssumption DEF UserRecords
  <2> QED BY <2>4, <2>5
<1>6. srtp \in [Peers -> [recv : Keys, send : Keys]]
  BY <1>1 DEF Init
<1> QED BY <1>2, <1>3, <1>5, <1>6 DEF Init, TypeInv, TypeOK, UserRecords

LEMMA NextTyped == TypeInv /\ [Next]_vars => TypeInv'
<1> SUFFICES ASSUME TypeInv, [Next]_vars PROVE TypeInv'
  OBVIOUS
<1>1. CASE UNCHANGED vars
  BY <1>1 DEF vars, TypeInv, TypeOK, SentMatchesState
<1>2. CASE Next
  <2>1. PICK p \in Peers :
          \/ StartCheck(p) \/ Start(p) \/ Close(p) \/ SendRtp(p)
          \/ TimerPop(p) \/ TimerStep(p)
          \/ Malformed(p) \/ \E m \in net : Deliver(p, m)
    BY <1>2 DEF Next
  <2>2. CASE \E m \in net : Deliver(p, m)
    BY <2>2, DiscoveryTyped, AgreementTyped, ConfirmationTyped DEF Deliver
  <2> QED BY <2>1, <2>2, StartTyped, StreamTyped, TimerStepTyped, MalformedTyped
<1> QED BY <1>1, <1>2

\* Every variable of the two engines has its type: a stream's protocol engine
\* sends only packets it has, with the fields their readers take.
THEOREM TypeCorrect == Spec => []TypeOK
<1>1. TypeInv => TypeOK
  BY DEF TypeInv
<1> QED BY InitTyped, NextTyped, <1>1, PTL DEF Spec

\* sentPacket is always the packet the state's code resends.
THEOREM SentPacketCorrect == Spec => []SentMatchesState
<1>1. TypeInv => SentMatchesState
  BY DEF TypeInv
<1> QED BY InitTyped, NextTyped, <1>1, PTL DEF Spec

-----------------------------------------------------------------------------
(* Keys, SRTP contexts and timers.                                           *)

\* A step of one end.
Step(p) ==
  \/ StartCheck(p) \/ Start(p) \/ Close(p) \/ SendRtp(p) \/ TimerPop(p)
  \/ TimerStep(p) \/ Malformed(p) \/ \E m \in net : Deliver(p, m)

-----------------------------------------------------------------------------
(* A step of one end leaves the engine, the timer and the SRTP contexts of   *)
(* the other alone, and the network loses nothing.                           *)

Frame(q) ==
  /\ state'[q] = state[q] /\ neg'[q] = neg[q] /\ srtp'[q] = srtp[q]
  /\ timer'[q] = timer[q] /\ user'[q] = user[q] /\ net \subseteq net'

LEMMA GiveUpFrame ==
  ASSUME TypeInv, NEW p \in Peers, NEW q \in Peers, q # p, GiveUp(p)
  PROVE  state'[q] = state[q] /\ neg'[q] = neg[q] /\ srtp'[q] = srtp[q]
<1>1. ReceiverOff(p) \/ BothOff(p) \/ UNCHANGED srtp
  BY DEF GiveUp
<1>2. srtp'[q] = srtp[q]
  BY <1>1 DEF ReceiverOff, BothOff, TypeInv, TypeOK
<1> QED BY <1>2 DEF GiveUp, Goto, TypeInv, TypeOK

LEMMA SendErrorFrame ==
  ASSUME TypeInv, NEW p \in Peers, NEW q \in Peers, q # p, NEW n,
         ErrorSent(p, n), user'[q] = user[q]
  PROVE  Frame(q)
BY DEF ErrorSent, Goto, StartTimer, ActivateTimer, SetTimer, Send, Frame, TypeInv, TypeOK

LEMMA StepFrame ==
  ASSUME TypeInv, NEW p \in Peers, NEW q \in Peers, q # p, Step(p)
  PROVE  Frame(q)
<1> USE DEF Frame, TypeInv, TypeOK, Goto, StartTimer, ActivateTimer, SetTimer, Send, KeepData
<1>1. CASE StartCheck(p) \/ StartInitial(p) \/ StartDetect(p)
  BY <1>1 DEF StartCheck, StartInitial, StartDetect, StartCall
<1>2. CASE StartElsewhere(p)
  BY <1>2, GiveUpFrame DEF StartElsewhere, StartCall
<1>3. CASE Close(p) \/ SendRtp(p) \/ TimerPop(p)
  BY <1>3 DEF Close, BothOff, SendRtp, TimerPop
<1>4. CASE TimerStep(p)
  <2>1. CASE TimerHello(p) \/ TimerResend(p) \/ TimerIgnored(p)
    BY <2>1 DEF TimerHello, TimerResend, TimerIgnored, NextTimer
  <2>2. CASE TimerFailed(p) \/ TimerUnexpected(p)
    BY <2>2, GiveUpFrame DEF TimerFailed, TimerUnexpected, NextTimer
  <2> QED BY <1>4, <2>1, <2>2 DEF TimerStep
<1>5. ASSUME NEW m \in net, Discovery(p, m)
      PROVE  Frame(q)
  <2>1. CASE DetectHelloAck(p, m) \/ DetectHelloNewer(p, m) \/ DetectHelloOlder(p, m)
    BY <2>1 DEF DetectHelloAck, DetectHelloNewer, DetectHelloOlder
  <2>2. CASE DetectHelloUnsupported(p, m)
    BY <2>2, SendErrorFrame DEF DetectHelloUnsupported, SendErrorPacket
  <2>3. CASE DetectHello(p, m)
    BY <2>3 DEF DetectHello
  <2>4. CASE AckDetectedHello(p, m)
    BY <2>4 DEF AckDetectedHello
  <2>5. CASE WaitCommitHello(p, m) \/ AckSentHelloAck(p, m) \/ AckSentHello(p, m)
    BY <2>5 DEF WaitCommitHello, AckSentHelloAck, AckSentHello
  <2> QED BY <1>5, <2>1, <2>2, <2>3, <2>4, <2>5 DEF Discovery
<1>6. ASSUME NEW m \in net, Agreement(p, m)
      PROVE  Frame(q)
  <2>1. CASE AckSentCommit(p, m) \/ WaitCommitCommit(p, m) \/ CommitClashLost(p, m)
    BY <2>1 DEF AckSentCommit, WaitCommitCommit, CommitClashLost, BecomeResponder
  <2>2. CASE AckSentCommitIgnored(p, m) \/ CommitClashWon(p, m)
             \/ CommitSentDHPart1Ignored(p, m) \/ WaitDHPart2Commit(p, m)
    BY <2>2 DEF AckSentCommitIgnored, CommitClashWon, CommitSentDHPart1Ignored,
                WaitDHPart2Commit
  <2>3. CASE CommitSentDHPart1(p, m)
    BY <2>3 DEF CommitSentDHPart1
  <2>4. CASE CommitSentConfirm1(p, m)
    BY <2>4, SendErrorFrame DEF CommitSentConfirm1, SendErrorPacket
  <2>5. CASE WaitDHPart2DHPart2(p, m)
    BY <2>5, SendErrorFrame DEF WaitDHPart2DHPart2, SendErrorPacket
  <2> QED BY <1>6, <2>1, <2>2, <2>3, <2>4, <2>5 DEF Agreement
<1>7. ASSUME NEW m \in net, Confirmation(p, m)
      PROVE  Frame(q)
  <2>1. CASE WaitConfirm2Repeat(p, m) \/ SecureConfirm2(p, m) \/ WaitErrorAckDone(p, m)
    BY <2>1 DEF WaitConfirm2Repeat, SecureConfirm2, WaitErrorAckDone
  <2>2. CASE WaitConfirm2Confirm2(p, m)
    BY <2>2, SendErrorFrame DEF WaitConfirm2Confirm2, SendErrorPacket
  <2>3. CASE WaitConfirm1Confirm1(p, m)
    BY <2>3, SendErrorFrame DEF WaitConfirm1Confirm1, SendErrorPacket
  <2>4. CASE WaitConfAckDone(p, m)
    BY <2>4 DEF WaitConfAckDone
  <2>5. CASE ErrorPkt(p, m)
    BY <2>5, GiveUpFrame DEF ErrorPkt
  <2> QED BY <1>7, <2>1, <2>2, <2>3, <2>4, <2>5 DEF Confirmation
<1>8. CASE Malformed(p)
  BY <1>8, SendErrorFrame DEF Malformed
<1> QED BY <1>1, <1>2, <1>3, <1>4, <1>5, <1>6, <1>7, <1>8 DEF Step, Start, Deliver

-----------------------------------------------------------------------------
(* The versions.  What an end knows of its peer's versions comes from the    *)
(* Hello it answered or, for a Responder that had only seen a HelloAck, from *)
(* the key that the Initiator's Confirm2 proves; what packets say of their   *)
(* sender's versions is therefore part of the invariant.                     *)

Speaks(q) == neg[q].setup.min .. neg[q].setup.max
Highest == {neg[q].setup.max : q \in Peers}

OfferStates == {"AckSent", "CommitSent"}
HelloKeyStates == {"WaitConfirm1", "WaitConfAck", "WaitConfirm2"}
AgreedStates == OfferStates \cup {"WaitConfirm1", "WaitConfAck", "SecureState"}

\* End q may be in state s with the negotiation data n.
VersionIn(q, s, n) ==
  /\ n.setup = neg[q].setup
  /\ n.ver \in Speaks(q) /\ n.ver \in Highest
  /\ s \in OfferStates => n.peerHello.ver = n.ver
  /\ s \in HelloKeyStates => n.key.hello.ver = n.ver
  /\ s \in AgreedStates => n.ver \in Speaks(Other(q))

MessageVersion(m) ==
  /\ m.type = "Hello" => m.ver \in Speaks(m.from) /\ m.ver \in Highest
  /\ m.type = "Confirm2" => m.key.hello.ver \in Speaks(m.from)

VersionInv ==
  /\ TypeInv
  /\ \A q \in Peers : VersionIn(q, state[q], neg[q])
  /\ \A m \in net : MessageVersion(m)

\* What a step of p does: its own claims hold, and those of what it sends.
VersionStep(p) ==
  /\ VersionIn(p, state'[p], neg'[p])
  /\ \A m \in net' : m \in net \/ MessageVersion(m)

\* The updates of the negotiation record, field by field.
LEMMA NegFields ==
  ASSUME NEW n \in NegRecords
  PROVE  /\ \A b : LET u == [n EXCEPT !.commitPkt = b] IN
              u.setup = n.setup /\ u.ver = n.ver /\ u.peerHello = n.peerHello
              /\ u.key = n.key
         /\ \A v : LET u == [n EXCEPT !.ver = v] IN u.setup = n.setup /\ u.ver = v
         /\ \A r, k : LET u == [n EXCEPT !.role = r, !.key = k] IN
              u.setup = n.setup /\ u.ver = n.ver /\ u.key = k
         /\ \A k : LET u == [n EXCEPT !.key = k] IN
              u.setup = n.setup /\ u.ver = n.ver /\ u.key = k
         /\ \A r, h : LET u == [n EXCEPT !.role = r, !.commitPkt = FALSE, !.peerHvi = h] IN
              u.setup = n.setup /\ u.ver = n.ver
         /\ \A h, r : LET u == [n EXCEPT !.peerHello = h, !.dh = r] IN
              u.setup = n.setup /\ u.ver = n.ver /\ u.peerHello = h
         /\ \A h, r : LET u == [[n EXCEPT !.peerHello = h, !.dh = r] EXCEPT !.commitPkt = TRUE] IN
              u.setup = n.setup /\ u.ver = n.ver /\ u.peerHello = h
BY Zenon DEF NegRecords

\* The claims of an end whose versions and key stay, in the same state or in one
\* that makes none.
LEMMA KeepVersion ==
  ASSUME NEW p, VersionIn(p, state[p], neg[p]), NEW s, NEW n,
         n.setup = neg[p].setup, n.ver = neg[p].ver, n.peerHello = neg[p].peerHello,
         n.key = neg[p].key,
         s = state[p] \/ s \notin AgreedStates \cup HelloKeyStates
  PROVE  VersionIn(p, s, n)
BY DEF VersionIn, AgreedStates

\* Only Hello and Confirm2 say something of versions.
LEMMA SendVersion ==
  ASSUME NEW p \in Peers, NEW kinds, NEW n, Send(p, kinds, n),
         "Hello" \in kinds => n.ver \in Speaks(p) /\ n.ver \in Highest,
         "Confirm2" \in kinds => n.key.hello.ver \in Speaks(p)
  PROVE  \A m \in net' : m \in net \/ MessageVersion(m)
<1> SUFFICES ASSUME NEW k \in kinds PROVE MessageVersion(Packet(p, k, n))
  BY DEF Send
<1>1. CASE k = "Hello"
  BY <1>1 DEF Packet, MessageVersion
<1>2. CASE k \in {"Confirm1", "Confirm2"}
  BY <1>2 DEF Packet, MessageVersion
<1>3. CASE k = "Commit"
  BY <1>3 DEF Packet, MessageVersion
<1>4. CASE k \in {"DHPart1", "DHPart2"}
  BY <1>4 DEF Packet, MessageVersion
<1>5. CASE k \notin {"Hello", "Confirm1", "Confirm2", "Commit", "DHPart1", "DHPart2"}
  <2>1. Packet(p, k, n) = [type |-> k, from |-> p]
    BY <1>5 DEF Packet
  <2> QED BY <1>5, <2>1 DEF MessageVersion
<1> QED BY <1>1, <1>2, <1>3, <1>4, <1>5

\* What an engine resends, it may say.
LEMMA ResendVersion ==
  ASSUME VersionInv, NEW p \in Peers, Send(p, {sent[p]}, neg[p])
  PROVE  \A m \in net' : m \in net \/ MessageVersion(m)
<1>1. VersionIn(p, state[p], neg[p]) /\ sent[p] \in SentIn(state[p])
  BY LocalTypes DEF VersionInv
<1>2. sent[p] = "Confirm2" => state[p] = "WaitConfAck"
  BY <1>1 DEF SentIn
<1>3. sent[p] = "Confirm2" => neg[p].key.hello.ver \in Speaks(p)
  BY <1>1, <1>2 DEF VersionIn, HelloKeyStates
<1>4. neg[p].ver \in Speaks(p) /\ neg[p].ver \in Highest
  BY <1>1 DEF VersionIn
<1> QED BY <1>3, <1>4, SendVersion

LEMMA GiveUpVersion ==
  ASSUME VersionInv, NEW p \in Peers, GiveUp(p)
  PROVE  VersionIn(p, state'[p], neg'[p])
<1>1. neg[p] \in NegRecords /\ state'[p] = "Initial"
  BY DEF GiveUp, Goto, VersionInv, TypeInv, TypeOK
<1> DEFINE b == neg[p].commitPkt /\ state[p] # "AckSent"
<1>2. neg' = [neg EXCEPT ![p] = [neg[p] EXCEPT !.commitPkt = b]]
  BY Zenon DEF GiveUp
<1> HIDE DEF b
<1>3. neg'[p] = [neg[p] EXCEPT !.commitPkt = b]
  BY <1>2 DEF VersionInv, TypeInv, TypeOK
<1>4. /\ neg'[p].setup = neg[p].setup /\ neg'[p].ver = neg[p].ver
      /\ neg'[p].peerHello = neg[p].peerHello /\ neg'[p].key = neg[p].key
  BY <1>1, <1>3, NegFields
<1> QED BY <1>1, <1>4, KeepVersion DEF VersionInv, AgreedStates, OfferStates, HelloKeyStates

LEMMA SendErrorVersion ==
  ASSUME VersionInv, NEW p \in Peers, NEW n, ErrorSent(p, n),
         n.setup = neg[p].setup, n.ver = neg[p].ver
  PROVE  VersionStep(p)
<1>1. state'[p] = "WaitErrorAck" /\ neg'[p] = n
  BY DEF ErrorSent, Goto, VersionInv, TypeInv, TypeOK
<1>2. VersionIn(p, state'[p], neg'[p])
  BY <1>1 DEF VersionInv, VersionIn, AgreedStates, OfferStates, HelloKeyStates
<1>3. Send(p, {"Error"}, n)
  BY DEF ErrorSent
<1>4. "Hello" \notin {"Error"} /\ "Confirm2" \notin {"Error"}
  OBVIOUS
<1> QED BY <1>2, <1>3, <1>4, SendVersion DEF VersionStep

LEMMA StartVersion ==
  ASSUME VersionInv, NEW p \in Peers,
         StartCheck(p) \/ Start(p) \/ Close(p) \/ SendRtp(p) \/ TimerPop(p)
  PROVE  VersionStep(p)
<1> USE DEF VersionInv, TypeInv, TypeOK
<1>1. CASE StartCheck(p) \/ TimerPop(p)
  BY <1>1 DEF StartCheck, TimerPop, VersionStep
<1>2. CASE StartInitial(p)
  <2>1. state'[p] = "Detect" /\ neg'[p] = neg[p] /\ Send(p, {"Hello"}, neg[p])
    BY <1>2 DEF StartInitial, Goto
  <2>2. VersionIn(p, state'[p], neg'[p])
    BY <2>1, KeepVersion DEF AgreedStates, OfferStates, HelloKeyStates
  <2>3. neg[p].ver \in Speaks(p) /\ neg[p].ver \in Highest /\ "Confirm2" \notin {"Hello"}
    BY DEF VersionIn
  <2> QED BY <2>1, <2>2, <2>3, SendVersion DEF VersionStep
<1>3. CASE StartDetect(p)
  BY <1>3, ResendVersion DEF StartDetect, VersionStep
<1>4. CASE StartElsewhere(p)
  BY <1>4, GiveUpVersion DEF StartElsewhere, VersionStep
<1>5. CASE Close(p)
  <2>1. /\ state'[p] = "Initial" /\ net' = net
        /\ neg'[p].setup = neg[p].setup /\ neg'[p].ver = neg[p].setup.max
    BY <1>5 DEF Close, Goto, NewNeg
  <2>2. neg[p].setup.max \in Speaks(p) /\ neg[p].setup.max \in Highest
    BY DEF VersionIn, Speaks, Highest, NegRecords, SetupRecords
  <2>3. VersionIn(p, state'[p], neg'[p])
    BY <2>1, <2>2 DEF VersionIn, AgreedStates, OfferStates, HelloKeyStates
  <2> QED BY <2>1, <2>3 DEF VersionStep
<1>6. CASE SendRtp(p)
  <2>1. UNCHANGED <<neg, state>>
        /\ \A m \in net' : m \in net \/ (m.type = "Srtp")
    BY <1>6 DEF SendRtp, KeepData
  <2> QED BY <2>1 DEF VersionStep, MessageVersion
<1> QED BY <1>1, <1>2, <1>3, <1>4, <1>5, <1>6 DEF Start

LEMMA TimerVersion ==
  ASSUME VersionInv, NEW p \in Peers, TimerStep(p)
  PROVE  VersionStep(p)
<1> USE DEF VersionInv, TypeInv, TypeOK
<1>1. CASE TimerHello(p)
  <2> DEFINE t == Delivered(timer[p])
             gone == Exhausted(t, t.maxT1)
             b == neg[p].commitPkt /\ ~gone
  <2>1. /\ Send(p, {sent[p]}, neg[p])
        /\ state' = [state EXCEPT ![p] = IF gone THEN "Detect" ELSE @]
        /\ neg' = [neg EXCEPT ![p] = [neg[p] EXCEPT !.commitPkt = b]]
    BY <1>1, Zenon DEF TimerHello
  <2>2. state'[p] = state[p] \/ state'[p] = "Detect"
    BY <2>1
  <2> HIDE DEF b
  <2>3. neg[p] \in NegRecords /\ neg'[p] = [neg[p] EXCEPT !.commitPkt = b]
    BY <2>1
  <2>4. /\ neg'[p].setup = neg[p].setup /\ neg'[p].ver = neg[p].ver
        /\ neg'[p].peerHello = neg[p].peerHello /\ neg'[p].key = neg[p].key
    BY <2>3, NegFields
  <2>5. VersionIn(p, state'[p], neg'[p])
    BY <2>2, <2>4, KeepVersion DEF AgreedStates, OfferStates, HelloKeyStates
  <2> QED BY <2>1, <2>5, ResendVersion DEF VersionStep
<1>2. CASE TimerResend(p)
  BY <1>2, ResendVersion DEF TimerResend, VersionStep
<1>3. CASE TimerIgnored(p)
  BY <1>3 DEF TimerIgnored, VersionStep
<1>4. CASE TimerFailed(p)
  <2>1. GiveUp(p) /\ (net' = net \/ Send(p, {sent[p]}, neg[p]))
    BY <1>4 DEF TimerFailed
  <2> QED BY <2>1, GiveUpVersion, ResendVersion DEF VersionStep
<1>5. CASE TimerUnexpected(p)
  BY <1>5, GiveUpVersion DEF TimerUnexpected, VersionStep
<1> QED BY <1>1, <1>2, <1>3, <1>4, <1>5 DEF TimerStep

\* prepareCommit notes the Hello.
LEMMA CommittedVersion ==
  ASSUME VersionInv, NEW p \in Peers, NEW m \in net, NEW r
  PROVE  LET u == Committed(neg[p], m, r)
             w == [Committed(neg[p], m, r) EXCEPT !.commitPkt = TRUE]
         IN /\ u.setup = neg[p].setup /\ u.ver = neg[p].ver /\ u.peerHello.ver = m.ver
            /\ w.setup = neg[p].setup /\ w.ver = neg[p].ver /\ w.peerHello.ver = m.ver
<1>1. neg[p] \in NegRecords
  BY LocalTypes DEF VersionInv
<1> DEFINE h == [chain |-> m.chain, ver |-> m.ver]
<1>2. h.ver = m.ver
  OBVIOUS
<1> HIDE DEF h
<1>3. Committed(neg[p], m, r) = [neg[p] EXCEPT !.peerHello = h, !.dh = r]
  BY DEF Committed, h
<1> QED BY <1>1, <1>2, <1>3, NegFields

LEMMA DiscoveryVersion ==
  ASSUME VersionInv, NEW p \in Peers, NEW m \in net, m.from = Other(p), Discovery(p, m)
  PROVE  VersionStep(p)
<1> USE DEF VersionInv, TypeInv, TypeOK
<1>0. /\ neg[p] \in NegRecords /\ VersionIn(p, state[p], neg[p])
      /\ m \in Messages /\ MessageVersion(m)
  BY LocalTypes
\* What is sent in this phase, apart from the Hello and what is resent.
<1>1. ASSUME NEW n, NEW k \in {"HelloAck", "Commit"}, Send(p, {k}, n)
      PROVE  \A x \in net' : x \in net \/ MessageVersion(x)
  <2>1. "Hello" \notin {k} /\ "Confirm2" \notin {k}
    OBVIOUS
  <2> QED BY <1>1, <2>1, SendVersion
<1>2. CASE DetectHelloAck(p, m) \/ DetectHelloNewer(p, m)
  <2>1. /\ neg'[p] = neg[p] /\ net' = net
        /\ state'[p] = state[p] \/ state'[p] = "AckDetected"
    BY <1>2 DEF DetectHelloAck, DetectHelloNewer, Goto, KeepData
  <2> QED BY <2>1, KeepVersion DEF VersionStep, AgreedStates, OfferStates, HelloKeyStates
<1>3. CASE DetectHelloOlder(p, m)
  <2> DEFINE n == [neg[p] EXCEPT !.ver = m.ver]
  <2>1. /\ neg' = [neg EXCEPT ![p] = n] /\ Send(p, {"Hello"}, n)
        /\ m.ver < neg[p].ver /\ m.ver >= neg[p].setup.min /\ m.type = "Hello"
    BY <1>3 DEF DetectHelloOlder
  <2>2. state'[p] = "Detect"
    BY <1>3 DEF DetectHelloOlder, Goto
  <2>3. n.setup = neg[p].setup /\ n.ver = m.ver
    BY <1>0, NegFields
  <2> HIDE DEF n
  <2>4. m.ver \in Highest /\ m.ver \in Nat
    BY <1>0, <2>1, MessageTyped DEF MessageVersion
  <2>5. /\ neg[p].setup.min \in Nat /\ neg[p].setup.max \in Nat /\ neg[p].ver \in Nat
        /\ neg[p].ver <= neg[p].setup.max
    BY <1>0 DEF NegRecords, SetupRecords, VersionIn, Speaks
  <2>6. m.ver \in Speaks(p)
    BY <2>1, <2>4, <2>5 DEF Speaks
  <2>7. VersionIn(p, state'[p], neg'[p])
    BY <2>1, <2>2, <2>3, <2>4, <2>6
    DEF VersionIn, AgreedStates, OfferStates, HelloKeyStates
  <2>8. "Confirm2" \notin {"Hello"}
    OBVIOUS
  <2> QED BY <2>1, <2>3, <2>4, <2>6, <2>7, <2>8, SendVersion DEF VersionStep
<1>4. CASE DetectHelloUnsupported(p, m)
  BY <1>4, SendErrorVersion DEF SendErrorPacket, DetectHelloUnsupported
<1>5. CASE DetectHello(p, m)
  <2>1. PICK r \in Draws : neg' = [neg EXCEPT ![p] = [Committed(neg[p], m, r) EXCEPT !.commitPkt = TRUE]]
    BY <1>5, Zenon DEF DetectHello
  <2> DEFINE n == [Committed(neg[p], m, r) EXCEPT !.commitPkt = TRUE]
  <2>2. n.setup = neg[p].setup /\ n.ver = neg[p].ver /\ n.peerHello.ver = m.ver
    BY CommittedVersion
  <2> HIDE DEF n
  <2>3. neg'[p] = n
    BY <2>1 DEF n
  <2>4. /\ state'[p] = "AckSent" /\ Send(p, {"HelloAck"}, neg[p])
        /\ m.type = "Hello" /\ m.ver = neg[p].ver
    BY <1>5 DEF DetectHello
  <2>5. neg[p].ver \in Speaks(Other(p))
    BY <1>0, <2>4 DEF MessageVersion
  <2>6. VersionIn(p, state'[p], neg'[p])
    BY <1>0, <2>2, <2>3, <2>4, <2>5 DEF VersionIn, HelloKeyStates
  <2> QED BY <1>1, <2>4, <2>6 DEF VersionStep
<1>6. CASE AckDetectedHello(p, m)
  <2>1. PICK r \in Draws : neg' = [neg EXCEPT ![p] = Committed(neg[p], m, r)]
    BY <1>6, Zenon DEF AckDetectedHello
  <2> DEFINE n == Committed(neg[p], m, r)
  <2>2. n.setup = neg[p].setup /\ n.ver = neg[p].ver
    BY CommittedVersion
  <2> HIDE DEF n
  <2>3. neg'[p] = n
    BY <2>1 DEF n
  <2>4. state'[p] = "WaitCommit" /\ Send(p, {"HelloAck"}, neg[p])
    BY <1>6 DEF AckDetectedHello, Goto
  <2>5. VersionIn(p, state'[p], neg'[p])
    BY <1>0, <2>2, <2>3, <2>4 DEF VersionIn, HelloKeyStates, OfferStates, AgreedStates
  <2> QED BY <1>1, <2>4, <2>5 DEF VersionStep
<1>7. CASE WaitCommitHello(p, m)
  BY <1>7, ResendVersion DEF WaitCommitHello, KeepData, VersionStep
<1>8. CASE AckSentHello(p, m)
  BY <1>1, <1>8 DEF AckSentHello, KeepData, VersionStep
<1>9. CASE AckSentHelloAck(p, m)
  <2> DEFINE n == [neg[p] EXCEPT !.commitPkt = FALSE]
  <2>1. neg' = [neg EXCEPT ![p] = n] /\ Send(p, {"Commit"}, n)
    BY <1>9 DEF AckSentHelloAck
  <2>2. /\ n.setup = neg[p].setup /\ n.ver = neg[p].ver
        /\ n.peerHello = neg[p].peerHello
    BY <1>0, NegFields
  <2> HIDE DEF n
  <2>3. neg'[p] = n /\ state[p] = "AckSent"
    BY <1>9, <2>1 DEF AckSentHelloAck
  <2>4. state'[p] = "CommitSent"
    BY <1>9 DEF AckSentHelloAck, Goto
  <2>5. VersionIn(p, state'[p], neg'[p])
    BY <1>0, <2>2, <2>3, <2>4 DEF VersionIn, HelloKeyStates, OfferStates, AgreedStates
  <2> QED BY <1>1, <2>1, <2>5 DEF VersionStep
<1> QED BY <1>2, <1>3, <1>4, <1>5, <1>6, <1>7, <1>8, <1>9 DEF Discovery

\* Multi-stream mode derives the Responder's key from its own Hello at once.
LEMMA BecomeResponderVersion ==
  ASSUME VersionInv, NEW p \in Peers, NEW m, BecomeResponder(p, m)
  PROVE  VersionStep(p)
<1> USE DEF VersionInv, TypeInv, TypeOK
<1>0. neg[p] \in NegRecords /\ VersionIn(p, state[p], neg[p])
  BY LocalTypes
<1> DEFINE n == ResponderNeg(p, m)
           answer == IF Multi(p) THEN "Confirm1" ELSE "DHPart1"
           s == IF Multi(p) THEN "WaitConfirm2" ELSE "WaitDHPart2"
<1>1. neg' = [neg EXCEPT ![p] = n] /\ state' = [state EXCEPT ![p] = s] /\ Send(p, {answer}, n)
  BY DEF BecomeResponder, Goto
<1>2. /\ n.setup = neg[p].setup /\ n.ver = neg[p].ver
      /\ Multi(p) => n.key.hello.ver = n.ver
  <2>1. CASE Multi(p)
    <3> DEFINE k == [hello |-> OwnHello(p), ini |-> m.hvi.dh, resp |-> 0]
    <3>1. k.hello.ver = neg[p].ver
      BY DEF OwnHello
    <3> HIDE DEF k
    <3>2. n = [neg[p] EXCEPT !.role = "Responder", !.key = k]
      BY <2>1 DEF ResponderNeg, k
    <3> HIDE DEF n
    <3> QED BY <1>0, <3>1, <3>2, NegFields
  <2>2. CASE ~Multi(p)
    <3>1. n = [neg[p] EXCEPT !.role = "Responder", !.commitPkt = FALSE, !.peerHvi = m.hvi]
      BY <2>2 DEF ResponderNeg
    <3> HIDE DEF n
    <3> QED BY <1>0, <2>2, <3>1, NegFields
  <2> QED BY <2>1, <2>2
<1> HIDE DEF n
<1>3. neg'[p] = n /\ state'[p] = s
  BY <1>1
<1>4. VersionIn(p, state'[p], neg'[p])
  BY <1>0, <1>2, <1>3 DEF VersionIn, HelloKeyStates, OfferStates, AgreedStates
<1>5. "Hello" \notin {answer} /\ "Confirm2" \notin {answer}
  OBVIOUS
<1> QED BY <1>1, <1>4, <1>5, SendVersion DEF VersionStep

LEMMA AgreementVersion ==
  ASSUME VersionInv, NEW p \in Peers, NEW m \in net, Agreement(p, m)
  PROVE  VersionStep(p)
<1> USE DEF VersionInv, TypeInv, TypeOK
<1>0. neg[p] \in NegRecords /\ VersionIn(p, state[p], neg[p])
  BY LocalTypes
<1>1. CASE AckSentCommit(p, m) \/ WaitCommitCommit(p, m) \/ CommitClashLost(p, m)
  BY <1>1, BecomeResponderVersion DEF AckSentCommit, WaitCommitCommit, CommitClashLost
<1>2. CASE AckSentCommitIgnored(p, m) \/ CommitClashWon(p, m)
  BY <1>2 DEF AckSentCommitIgnored, CommitClashWon, KeepData, VersionStep
<1>3. CASE WaitDHPart2Commit(p, m)
  BY <1>3, ResendVersion DEF WaitDHPart2Commit, KeepData, VersionStep
<1>4. CASE CommitSentDHPart1Ignored(p, m)
  <2>1. neg' = neg /\ net' = net /\ state'[p] = state[p]
    BY <1>4 DEF CommitSentDHPart1Ignored, KeepData, Goto
  <2> QED BY <2>1 DEF VersionStep
<1>5. CASE CommitSentDHPart1(p, m)
  <2> DEFINE k == [hello |-> neg[p].peerHello, ini |-> neg[p].dh, resp |-> m.dh]
             n == [neg[p] EXCEPT !.role = "Initiator", !.key = k]
  <2>1. neg' = [neg EXCEPT ![p] = n] /\ Send(p, {"DHPart2"}, n) /\ state[p] = "CommitSent"
    BY <1>5 DEF CommitSentDHPart1
  <2>2. state'[p] = "WaitConfirm1"
    BY <1>5 DEF CommitSentDHPart1, Goto
  <2>3. k.hello = neg[p].peerHello
    OBVIOUS
  <2> HIDE DEF k
  <2>4. n.setup = neg[p].setup /\ n.ver = neg[p].ver /\ n.key = k
    BY <1>0, NegFields
  <2> HIDE DEF n
  <2>5. neg'[p] = n
    BY <2>1
  <2>6. VersionIn(p, state'[p], neg'[p])
    BY <1>0, <2>1, <2>2, <2>3, <2>4, <2>5
    DEF VersionIn, HelloKeyStates, OfferStates, AgreedStates
  <2>7. "Hello" \notin {"DHPart2"} /\ "Confirm2" \notin {"DHPart2"}
    OBVIOUS
  <2> QED BY <2>1, <2>6, <2>7, SendVersion DEF VersionStep
<1>6. CASE CommitSentConfirm1(p, m)
  <2> DEFINE k == [hello |-> neg[p].peerHello, ini |-> neg[p].dh, resp |-> 0]
             n == [neg[p] EXCEPT !.role = "Initiator", !.key = k]
  <2>1. k.hello = neg[p].peerHello /\ state[p] = "CommitSent"
    BY <1>6 DEF CommitSentConfirm1
  <2>2. CASE m.key = k
    <3>1. neg' = [neg EXCEPT ![p] = n] /\ Send(p, {"Confirm2"}, n)
      BY <1>6, <2>2 DEF CommitSentConfirm1
    <3>2. state'[p] = "WaitConfAck"
      BY <1>6, <2>2 DEF CommitSentConfirm1, Goto
    <3> HIDE DEF k
    <3>3. n.setup = neg[p].setup /\ n.ver = neg[p].ver /\ n.key = k
      BY <1>0, NegFields
    <3> HIDE DEF n
    <3>4. neg'[p] = n
      BY <3>1
    <3>5. VersionIn(p, state'[p], neg'[p]) /\ n.key.hello.ver \in Speaks(p)
      BY <1>0, <2>1, <3>2, <3>3, <3>4
      DEF VersionIn, HelloKeyStates, OfferStates, AgreedStates
    <3>6. "Hello" \notin {"Confirm2"}
      OBVIOUS
    <3> QED BY <3>1, <3>5, <3>6, SendVersion DEF VersionStep
  <2>3. CASE m.key # k
    <3>1. SendErrorPacket(p, n)
      BY <1>6, <2>3 DEF CommitSentConfirm1
    <3> HIDE DEF k
    <3>2. n.setup = neg[p].setup /\ n.ver = neg[p].ver
      BY <1>0, NegFields
    <3> HIDE DEF n
    <3> QED BY <3>1, <3>2, SendErrorVersion DEF SendErrorPacket
  <2> QED BY <2>2, <2>3
<1>7. CASE WaitDHPart2DHPart2(p, m)
  <2> DEFINE k == [hello |-> OwnHello(p), ini |-> m.dh, resp |-> neg[p].dh]
             n == [neg[p] EXCEPT !.key = k]
             good == neg[p].peerHvi = [dh |-> m.dh, hello |-> OwnHello(p)]
  <2>1. k.hello.ver = neg[p].ver
    BY DEF OwnHello
  <2>2. CASE good
    <3>1. neg' = [neg EXCEPT ![p] = n] /\ Send(p, {"Confirm1"}, n)
      BY <1>7, <2>2 DEF WaitDHPart2DHPart2
    <3>2. state'[p] = "WaitConfirm2"
      BY <1>7, <2>2 DEF WaitDHPart2DHPart2, Goto
    <3> HIDE DEF k
    <3>3. n.setup = neg[p].setup /\ n.ver = neg[p].ver /\ n.key = k
      BY <1>0, NegFields
    <3> HIDE DEF n
    <3>4. neg'[p] = n
      BY <3>1
    <3>5. VersionIn(p, state'[p], neg'[p])
      BY <1>0, <2>1, <3>2, <3>3, <3>4
      DEF VersionIn, HelloKeyStates, OfferStates, AgreedStates
    <3>6. "Hello" \notin {"Confirm1"} /\ "Confirm2" \notin {"Confirm1"}
      OBVIOUS
    <3> QED BY <3>1, <3>5, <3>6, SendVersion DEF VersionStep
  <2>3. CASE ~good
    BY <1>7, <2>3, SendErrorVersion DEF SendErrorPacket, WaitDHPart2DHPart2
  <2> QED BY <2>2, <2>3
<1> QED BY <1>1, <1>2, <1>3, <1>4, <1>5, <1>6, <1>7 DEF Agreement

LEMMA ConfirmationVersion ==
  ASSUME VersionInv, NEW p \in Peers, NEW m \in net, m.from = Other(p), Confirmation(p, m)
  PROVE  VersionStep(p)
<1> USE DEF VersionInv, TypeInv, TypeOK
<1>0. neg[p] \in NegRecords /\ VersionIn(p, state[p], neg[p]) /\ MessageVersion(m)
  BY LocalTypes
<1>1. CASE WaitConfirm2Repeat(p, m) \/ SecureConfirm2(p, m)
  BY <1>1, ResendVersion DEF WaitConfirm2Repeat, SecureConfirm2, KeepData, VersionStep
<1>2. CASE WaitConfirm2Confirm2(p, m)
  <2>1. CASE m.key = neg[p].key
    <3>1. /\ state[p] = "WaitConfirm2" /\ neg' = neg /\ m.type = "Confirm2"
          /\ Send(p, {"Conf2Ack"}, neg[p])
      BY <1>2, <2>1 DEF WaitConfirm2Confirm2
    <3>2. state'[p] = "SecureState"
      BY <1>2, <2>1 DEF WaitConfirm2Confirm2, Goto
    <3>3. neg[p].ver \in Speaks(Other(p))
      BY <1>0, <2>1, <3>1 DEF MessageVersion, VersionIn, HelloKeyStates
    <3>4. VersionIn(p, state'[p], neg'[p])
      BY <1>0, <3>1, <3>2, <3>3 DEF VersionIn, HelloKeyStates, OfferStates
    <3>5. "Hello" \notin {"Conf2Ack"} /\ "Confirm2" \notin {"Conf2Ack"}
      OBVIOUS
    <3> QED BY <3>1, <3>4, <3>5, SendVersion DEF VersionStep
  <2>2. CASE m.key # neg[p].key
    BY <1>2, <2>2, SendErrorVersion DEF SendErrorPacket, WaitConfirm2Confirm2
  <2> QED BY <2>1, <2>2
<1>3. CASE WaitConfirm1Confirm1(p, m)
  <2>1. CASE m.key = neg[p].key
    <3>1. state[p] = "WaitConfirm1" /\ neg' = neg /\ Send(p, {"Confirm2"}, neg[p])
      BY <1>3, <2>1 DEF WaitConfirm1Confirm1
    <3>2. state'[p] = "WaitConfAck"
      BY <1>3, <2>1 DEF WaitConfirm1Confirm1, Goto
    <3>3. VersionIn(p, state'[p], neg'[p]) /\ neg[p].key.hello.ver \in Speaks(p)
      BY <1>0, <3>1, <3>2 DEF VersionIn, HelloKeyStates, OfferStates, AgreedStates
    <3>4. "Hello" \notin {"Confirm2"}
      OBVIOUS
    <3> QED BY <3>1, <3>3, <3>4, SendVersion DEF VersionStep
  <2>2. CASE m.key # neg[p].key
    BY <1>3, <2>2, SendErrorVersion DEF SendErrorPacket, WaitConfirm1Confirm1
  <2> QED BY <2>1, <2>2
<1>4. CASE WaitConfAckDone(p, m)
  <2>1. state[p] = "WaitConfAck" /\ neg' = neg /\ net' = net
    BY <1>4 DEF WaitConfAckDone
  <2>2. state'[p] = "SecureState"
    BY <1>4 DEF WaitConfAckDone, Goto
  <2> QED BY <1>0, <2>1, <2>2
        DEF VersionStep, VersionIn, HelloKeyStates, OfferStates, AgreedStates
<1>5. CASE ErrorPkt(p, m)
  <2>1. "Hello" \notin {"ErrorAck"} /\ "Confirm2" \notin {"ErrorAck"}
    OBVIOUS
  <2>2. \A x \in net' : x \in net \/ MessageVersion(x)
    BY <1>5, <2>1, SendVersion DEF ErrorPkt
  <2>3. GiveUp(p) \/ UNCHANGED <<state, neg>>
    BY <1>5 DEF ErrorPkt
  <2> QED BY <1>0, <2>2, <2>3, GiveUpVersion DEF VersionStep
<1>6. CASE WaitErrorAckDone(p, m)
  <2>1. neg' = neg /\ net' = net /\ state'[p] = "Initial"
    BY <1>6 DEF WaitErrorAckDone, KeepData, Goto
  <2> QED BY <1>0, <2>1, KeepVersion
        DEF VersionStep, HelloKeyStates, OfferStates, AgreedStates
<1> QED BY <1>1, <1>2, <1>3, <1>4, <1>5, <1>6 DEF Confirmation

LEMMA StepVersion ==
  ASSUME VersionInv, NEW p \in Peers, Step(p)
  PROVE  VersionStep(p)
<1>1. CASE Malformed(p)
  BY <1>1, SendErrorVersion DEF Malformed
<1> QED BY <1>1, StartVersion, TimerVersion, DiscoveryVersion, AgreementVersion,
           ConfirmationVersion DEF Step, Deliver, Receive

LEMMA VersionNext == VersionInv /\ [Next]_vars => VersionInv'
<1> SUFFICES ASSUME VersionInv, [Next]_vars PROVE VersionInv'
  OBVIOUS
<1>1. TypeInv /\ TypeInv'
  BY NextTyped DEF VersionInv
<1>2. CASE UNCHANGED vars
  BY <1>1, <1>2 DEF vars, VersionInv, VersionIn, MessageVersion, Speaks, Highest
<1>3. CASE Next
  <2>1. PICK p \in Peers : Step(p)
    BY <1>3 DEF Next, Step
  <2>2. VersionStep(p)
    BY <2>1, StepVersion
  <2>3. ASSUME NEW q \in Peers, q # p
        PROVE  state'[q] = state[q] /\ neg'[q] = neg[q]
    BY <1>1, <2>1, <2>3, StepFrame DEF Frame
  <2>4. \A q \in Peers : neg'[q].setup = neg[q].setup
    BY <2>2, <2>3 DEF VersionStep, VersionIn
  <2>5. \A q \in Peers : Speaks(q)' = Speaks(q) /\ Other(q) \in Peers
    BY <2>4 DEF Speaks, Other, Peers
  <2>6. Highest' = Highest
    BY <2>4 DEF Highest
  <2>7. ASSUME NEW q \in Peers PROVE VersionIn(q, state[q], neg[q])'
    <3>1. VersionIn(q, state'[q], neg'[q])
      BY <2>2, <2>3 DEF VersionStep, VersionInv
    <3> QED BY <2>5, <2>6, <3>1 DEF VersionIn
  <2>8. ASSUME NEW m \in net' PROVE MessageVersion(m)'
    <3>1. MessageVersion(m)
      BY <2>2, <2>8 DEF VersionStep, VersionInv
    <3>2. m \in Messages /\ m.from \in Peers
      BY <1>1 DEF TypeInv, TypeOK, Messages
    <3> QED BY <2>5, <2>6, <3>1, <3>2 DEF MessageVersion
  <2> QED BY <1>1, <2>7, <2>8 DEF VersionInv
<1> QED BY <1>2, <1>3

LEMMA VersionInit == Init => VersionInv
<1> SUFFICES ASSUME Init PROVE VersionInv
  OBVIOUS
<1>1. TypeInv
  BY InitTyped
<1>2. PICK c \in Setups : neg = [p \in Peers |-> NewNeg(c[p], 1)]
  BY DEF Init
<1>3. ASSUME NEW q \in Peers PROVE VersionIn(q, state[q], neg[q])
  <2>1. /\ neg[q].setup = c[q] /\ neg[q].ver = c[q].max /\ state[q] = "Initial"
        /\ c[q] \in SetupRecords /\ c[q].min <= c[q].max
    BY <1>2, SetupsAssumption DEF Init, NewNeg
  <2>2. c[q].max \in Speaks(q) /\ c[q].max \in Highest
    BY <2>1 DEF Speaks, Highest, SetupRecords
  <2> QED BY <2>1, <2>2 DEF VersionIn, AgreedStates, OfferStates, HelloKeyStates
<1> QED BY <1>1, <1>3 DEF VersionInv, Init

\* A secure end speaks a version that both ends support, and the highest of one
\* of them: whatever Hellos of earlier engines the network still delivers.
THEOREM VersionAgreedCorrect == Spec => []VersionAgreed
<1>1. VersionInv => VersionAgreed
  <2> SUFFICES ASSUME VersionInv, NEW p \in Peers, state[p] = "SecureState"
               PROVE  /\ \A q \in Peers : neg[p].ver \in Speaks(q)
                      /\ neg[p].ver \in Highest
    BY DEF VersionAgreed, Speaks, Highest
  <2>1. neg[p].ver \in Speaks(p) /\ neg[p].ver \in Speaks(Other(p)) /\ neg[p].ver \in Highest
    BY DEF VersionInv, VersionIn, AgreedStates
  <2>2. \A q \in Peers : q = p \/ q = Other(p)
    BY DEF Other, Peers
  <2> QED BY <2>1, <2>2
<1> QED BY VersionInit, VersionNext, <1>1, PTL DEF Spec

-----------------------------------------------------------------------------
(* The inductive invariant: SrtpMatchesState and KeyConfirmed hold only       *)
(* together with the role each state implies, which selects the Confirm      *)
(* packet that proves the peer's knowledge of the key.                       *)

InitiatorStates == {"WaitConfirm1", "WaitConfAck"}
ResponderStates == {"WaitDHPart2", "WaitConfirm2"}
KeyedStates == {"WaitConfAck", "SecureState"}

RoleOf(q) ==
  /\ state[q] \in InitiatorStates => neg[q].role = "Initiator"
  /\ state[q] \in ResponderStates => neg[q].role = "Responder"

SrtpOf(q) ==
  /\ IF state[q] \in KeyedStates THEN srtp[q].recv = neg[q].key
     ELSE srtp[q].recv = NoKey \/ LeftOver(q)
  /\ IF state[q] = "SecureState" THEN srtp[q].send = neg[q].key
     ELSE srtp[q].send = NoKey \/ LeftOver(q)

ConfirmedOf(q) ==
  srtp[q].recv # NoKey =>
    \E m \in net :
      /\ m.from = Other(q)
      /\ m.type \in {"Confirm1", "Confirm2"}
      /\ m.key = srtp[q].recv
      /\ state[q] \in KeyedStates =>
           (neg[q].role = "Initiator") = (m.type = "Confirm1")

KeyOf(q) == RoleOf(q) /\ SrtpOf(q) /\ ConfirmedOf(q)

BudgetOf(q) == user[q].malformed <= neg[q].setup.malformed

KeyInv == VersionInv /\ \A q \in Peers : KeyOf(q) /\ BudgetOf(q)

\* The network loses nothing, and contexts that may outlive their negotiation
\* still may.
Stays(q) == net \subseteq net' /\ (LeftOver(q) => LeftOver(q)')

\* The malformed packets that may still come.
LEMMA UserStep ==
  ASSUME TypeInv, NEW p \in Peers, Step(p)
  PROVE  \/ user'[p].malformed = user[p].malformed
         \/ /\ Malformed(p) /\ user[p].malformed > 0
            /\ user'[p].malformed = user[p].malformed - 1
<1> USE DEF TypeInv, TypeOK
<1>1. user[p] \in UserRecords
  BY DEF UserRecords
<1>2. /\ \A a, b : [user[p] EXCEPT !.calls = a, !.left = b].malformed = user[p].malformed
      /\ \A a, b : [user[p] EXCEPT !.calls = a, !.started = b].malformed
                     = user[p].malformed
      /\ \A a : [user[p] EXCEPT !.started = a].malformed = user[p].malformed
      /\ \A a : [user[p] EXCEPT !.malformed = a].malformed = a
  BY <1>1, Zenon DEF UserRecords
<1>3. CASE StartCheck(p)
  <2>1. user' = [user EXCEPT ![p] = [user[p] EXCEPT !.calls = @ + 1, !.left = @ - 1]]
    BY <1>3, Zenon DEF StartCheck
  <2>2. user'[p] = [user[p] EXCEPT !.calls = user[p].calls + 1, !.left = user[p].left - 1]
    BY <2>1
  <2> QED BY <1>2, <2>2
<1>4. CASE Start(p)
  <2>1. user' = [user EXCEPT ![p] = [user[p] EXCEPT !.calls = @ - 1, !.started = TRUE]]
    BY <1>4, Zenon DEF Start, StartInitial, StartDetect, StartElsewhere, StartCall
  <2>2. user'[p] = [user[p] EXCEPT !.calls = user[p].calls - 1, !.started = TRUE]
    BY <2>1
  <2> QED BY <1>2, <2>2
<1>5. CASE Close(p)
  <2>1. user' = [user EXCEPT ![p] = [user[p] EXCEPT !.started = FALSE]]
    BY <1>5, Zenon DEF Close
  <2>2. user'[p] = [user[p] EXCEPT !.started = FALSE]
    BY <2>1
  <2> QED BY <1>2, <2>2
<1>6. CASE Malformed(p)
  <2>1. user' = [user EXCEPT ![p] = [user[p] EXCEPT !.malformed = @ - 1]]
    BY <1>6, Zenon DEF Malformed
  <2>2. user'[p] = [user[p] EXCEPT !.malformed = user[p].malformed - 1]
    BY <2>1
  <2> QED BY <1>2, <1>6, <2>2 DEF Malformed
<1>7. CASE SendRtp(p) \/ TimerPop(p) \/ TimerStep(p)
  BY <1>7 DEF SendRtp, TimerPop, KeepData, TimerStep, TimerHello, TimerResend,
              TimerFailed, TimerUnexpected, TimerIgnored
<1>8. ASSUME NEW m \in net, Deliver(p, m)
      PROVE  user' = user
  <2>1. CASE Discovery(p, m)
    BY <2>1
    DEF Discovery, DetectHelloAck, DetectHelloNewer, DetectHelloOlder,
        DetectHelloUnsupported, DetectHello, AckDetectedHello, WaitCommitHello,
        AckSentHelloAck, AckSentHello, KeepData, SendErrorPacket
  <2>2. CASE Agreement(p, m)
    BY <2>2
    DEF Agreement, AckSentCommit, AckSentCommitIgnored, WaitCommitCommit,
        CommitClashLost, CommitClashWon, CommitSentDHPart1, CommitSentDHPart1Ignored,
        CommitSentConfirm1, WaitDHPart2Commit, WaitDHPart2DHPart2, BecomeResponder,
        KeepData, SendErrorPacket
  <2>3. CASE Confirmation(p, m)
    BY <2>3
    DEF Confirmation, WaitConfirm2Repeat, WaitConfirm2Confirm2, WaitConfirm1Confirm1,
        WaitConfAckDone, SecureConfirm2, ErrorPkt, WaitErrorAckDone, KeepData,
        SendErrorPacket
  <2> QED BY <1>8, <2>1, <2>2, <2>3 DEF Deliver
<1> QED BY <1>3, <1>4, <1>5, <1>6, <1>7, <1>8 DEF Step

LEMMA StepStays ==
  ASSUME KeyInv, NEW p \in Peers, Step(p)
  PROVE  Stays(p) /\ BudgetOf(p)' /\ (Malformed(p) => LeftOver(p)')
<1>1. neg'[p].setup = neg[p].setup
  BY StepVersion DEF KeyInv, VersionStep, VersionIn
<1>2. user[p].malformed \in Nat /\ neg[p].setup.malformed \in Nat
  BY LocalTypes DEF KeyInv, VersionInv, TypeInv, TypeOK, UserRecords, NegRecords,
                    SetupRecords
<1>3. user[p].malformed <= neg[p].setup.malformed
  BY DEF KeyInv, BudgetOf
<1>4. \/ user'[p].malformed = user[p].malformed
      \/ /\ Malformed(p) /\ user[p].malformed > 0
         /\ user'[p].malformed = user[p].malformed - 1
  BY UserStep DEF KeyInv, VersionInv
<1>5. Malformed(p) => user'[p].malformed = user[p].malformed - 1
  <2> SUFFICES ASSUME Malformed(p)
               PROVE  user'[p].malformed = user[p].malformed - 1
    OBVIOUS
  <2>1. user' = [user EXCEPT ![p] = [user[p] EXCEPT !.malformed = @ - 1]]
    BY Zenon DEF Malformed
  <2>2. user[p] \in UserRecords /\ user \in [Peers -> UserRecords]
    BY DEF UserRecords, KeyInv, VersionInv, TypeInv, TypeOK
  <2>3. [user[p] EXCEPT !.malformed = @ - 1].malformed = user[p].malformed - 1
    BY <2>2, Zenon DEF UserRecords
  <2> QED BY <2>1, <2>2, <2>3
<1>6. net \subseteq net'
  <2>1. Other(p) \in Peers /\ Other(p) # p
    BY PeersAssumption DEF Other, Peers
  <2> QED BY <2>1, StepFrame DEF Frame, KeyInv, VersionInv
<1> QED BY <1>1, <1>2, <1>3, <1>4, <1>5, <1>6 DEF Stays, LeftOver, BudgetOf

\* An end that no step touches keeps its part, whatever is sent.
LEMMA KeepKeyOf ==
  ASSUME NEW q \in Peers, KeyOf(q), Stays(q), state'[q] = state[q], srtp'[q] = srtp[q],
         neg'[q].key = neg[q].key, neg'[q].role = neg[q].role
  PROVE  KeyOf(q)'
<1>1. RoleOf(q)'
  BY DEF KeyOf, RoleOf
<1>2. SrtpOf(q)'
  BY DEF KeyOf, SrtpOf, Stays
<1>3. ConfirmedOf(q)'
  BY DEF KeyOf, ConfirmedOf, Stays
<1> QED BY <1>1, <1>2, <1>3 DEF KeyOf

\* An end without SRTP, in a state that makes no claim on the role, or with it.
LEMMA NoSrtpKeyOf ==
  ASSUME NEW q \in Peers, state'[q] \notin KeyedStates,
         state'[q] \in InitiatorStates => neg'[q].role = "Initiator",
         state'[q] \in ResponderStates => neg'[q].role = "Responder",
         srtp'[q].recv = NoKey, srtp'[q].send = NoKey
  PROVE  KeyOf(q)'
BY DEF KeyOf, RoleOf, SrtpOf, ConfirmedOf, KeyedStates

\* An end that stays outside the keyed states, with the contexts it had.
LEMMA OffKeyOf ==
  ASSUME NEW q \in Peers, KeyOf(q), Stays(q), state[q] \notin KeyedStates,
         state'[q] \notin KeyedStates, srtp'[q] = srtp[q],
         state'[q] \in InitiatorStates => neg'[q].role = "Initiator",
         state'[q] \in ResponderStates => neg'[q].role = "Responder"
  PROVE  KeyOf(q)'
<1>1. RoleOf(q)'
  BY DEF RoleOf
<1>2. SrtpOf(q)'
  BY DEF KeyOf, SrtpOf, Stays, KeyedStates
<1>3. ConfirmedOf(q)'
  BY DEF KeyOf, ConfirmedOf, Stays
<1> QED BY <1>1, <1>2, <1>3 DEF KeyOf

LEMMA GiveUpKeyOf ==
  ASSUME KeyInv, NEW p \in Peers, Stays(p), GiveUp(p)
  PROVE  KeyOf(p)'
<1> USE DEF KeyInv, VersionInv, TypeInv, TypeOK
<1>1. state'[p] = "Initial"
  BY DEF GiveUp, Goto
<1>2. CASE state[p] = "WaitConfAck"
  <2>1. srtp[p].send = NoKey \/ LeftOver(p)
    BY <1>2 DEF KeyOf, SrtpOf
  <2>2. srtp'[p] = [srtp[p] EXCEPT !.recv = NoKey]
    BY <1>2 DEF GiveUp, ReceiverOff
  <2>3. srtp'[p].recv = NoKey /\ srtp'[p].send = srtp[p].send
    BY <2>2
  <2> QED BY <1>1, <2>1, <2>3
        DEF KeyOf, RoleOf, SrtpOf, ConfirmedOf, Stays, InitiatorStates, ResponderStates,
            KeyedStates
<1>3. CASE state[p] = "SecureState"
  <2>1. srtp'[p].recv = NoKey /\ srtp'[p].send = NoKey
    BY <1>3 DEF GiveUp, BothOff
  <2> QED BY <1>1, <2>1, NoSrtpKeyOf DEF InitiatorStates, ResponderStates, KeyedStates
<1>4. CASE state[p] \notin KeyedStates
  <2>1. srtp'[p] = srtp[p]
    BY <1>4 DEF GiveUp, KeyedStates
  <2> QED BY <1>1, <1>4, <2>1, OffKeyOf
        DEF InitiatorStates, ResponderStates, KeyedStates
<1> QED BY <1>2, <1>3, <1>4 DEF KeyedStates

LEMMA SendErrorKeyOf ==
  ASSUME KeyInv, NEW p \in Peers, Stays(p), NEW n, ErrorSent(p, n),
         state[p] \notin KeyedStates
  PROVE  KeyOf(p)'
<1>1. state'[p] = "WaitErrorAck" /\ srtp'[p] = srtp[p]
  BY DEF ErrorSent, Goto, KeyInv, VersionInv, TypeInv, TypeOK
<1> QED BY <1>1, OffKeyOf
      DEF KeyInv, InitiatorStates, ResponderStates, KeyedStates

LEMMA MalformedKeyOf ==
  ASSUME KeyInv, NEW p \in Peers, Stays(p), Malformed(p), LeftOver(p)'
  PROVE  KeyOf(p)'
<1>1. state'[p] = "WaitErrorAck" /\ srtp'[p] = srtp[p]
  BY DEF Malformed, ErrorSent, Goto, KeyInv, VersionInv, TypeInv, TypeOK
<1>2. RoleOf(p)' /\ SrtpOf(p)'
  BY <1>1 DEF RoleOf, SrtpOf, InitiatorStates, ResponderStates, KeyedStates
<1>3. ConfirmedOf(p)'
  BY <1>1 DEF KeyInv, KeyOf, ConfirmedOf, Stays, KeyedStates
<1> QED BY <1>2, <1>3 DEF KeyOf

LEMMA BecomeResponderKeyOf ==
  ASSUME KeyInv, NEW p \in Peers, Stays(p), NEW m, BecomeResponder(p, m),
         state[p] \notin KeyedStates
  PROVE  KeyOf(p)'
<1>1. state'[p] \in ResponderStates /\ srtp'[p] = srtp[p]
  <2> DEFINE s == IF Multi(p) THEN "WaitConfirm2" ELSE "WaitDHPart2"
  <2>1. s \in ResponderStates
    BY DEF ResponderStates
  <2>2. state' = [state EXCEPT ![p] = s] /\ srtp' = srtp
    BY DEF BecomeResponder, Goto
  <2> QED BY <2>1, <2>2 DEF KeyInv, VersionInv, TypeInv, TypeOK
<1>2. neg[p] \in NegRecords
  BY DEF KeyInv, VersionInv, TypeInv, TypeOK
<1>3. ResponderNeg(p, m).role = "Responder"
  <2>1. CASE Multi(p)
    BY <1>2, <2>1, Zenon DEF ResponderNeg, NegRecords
  <2>2. CASE ~Multi(p)
    BY <1>2, <2>2, Zenon DEF ResponderNeg, NegRecords
  <2> QED BY <2>1, <2>2
<1>4. neg'[p].role = "Responder"
  BY <1>3 DEF BecomeResponder, KeyInv, VersionInv, TypeInv, TypeOK
<1> QED BY <1>1, <1>4, OffKeyOf
      DEF KeyInv, InitiatorStates, ResponderStates, KeyedStates

LEMMA StartKeyOf ==
  ASSUME KeyInv, NEW p \in Peers, Stays(p),
         StartCheck(p) \/ Start(p) \/ Close(p) \/ SendRtp(p) \/ TimerPop(p)
  PROVE  KeyOf(p)'
<1> USE DEF KeyInv, VersionInv, TypeInv, TypeOK, Goto, Send
<1>1. CASE StartCheck(p) \/ SendRtp(p) \/ TimerPop(p)
  BY <1>1, KeepKeyOf DEF StartCheck, SendRtp, TimerPop, KeepData
<1>2. CASE StartInitial(p)
  <2>1. state'[p] = "Detect" /\ srtp'[p] = srtp[p] /\ state[p] \notin KeyedStates
    BY <1>2 DEF StartInitial, KeyedStates
  <2> QED BY <2>1, OffKeyOf DEF InitiatorStates, ResponderStates, KeyedStates
<1>3. CASE StartDetect(p)
  BY <1>3, KeepKeyOf DEF StartDetect
<1>4. CASE StartElsewhere(p)
  BY <1>4, GiveUpKeyOf DEF StartElsewhere
<1>5. CASE Close(p)
  <2>1. state'[p] = "Initial" /\ srtp'[p].recv = NoKey /\ srtp'[p].send = NoKey
    BY <1>5 DEF Close, BothOff
  <2> QED BY <2>1, NoSrtpKeyOf DEF InitiatorStates, ResponderStates, KeyedStates
<1> QED BY <1>1, <1>2, <1>3, <1>4, <1>5 DEF Start

LEMMA TimerKeyOf ==
  ASSUME KeyInv, NEW p \in Peers, Stays(p), TimerStep(p)
  PROVE  KeyOf(p)'
<1> USE DEF KeyInv, VersionInv, TypeInv, TypeOK, Send
<1>1. CASE TimerHello(p)
  <2>1. state'[p] \in {"Detect", "AckSent"} /\ srtp'[p] = srtp[p]
        /\ state[p] \notin KeyedStates
    BY <1>1 DEF TimerHello, KeyedStates
  <2> QED BY <2>1, OffKeyOf DEF InitiatorStates, ResponderStates, KeyedStates
<1>2. CASE TimerResend(p) \/ TimerIgnored(p)
  BY <1>2, KeepKeyOf DEF TimerResend, TimerIgnored
<1>3. CASE TimerFailed(p) \/ TimerUnexpected(p)
  BY <1>3, GiveUpKeyOf DEF TimerFailed, TimerUnexpected
<1> QED BY <1>1, <1>2, <1>3 DEF TimerStep

LEMMA DiscoveryKeyOf ==
  ASSUME KeyInv, NEW p \in Peers, Stays(p), NEW m \in net, Discovery(p, m)
  PROVE  KeyOf(p)'
<1>1. CASE DetectHelloUnsupported(p, m)
  BY <1>1, SendErrorKeyOf DEF SendErrorPacket, DetectHelloUnsupported, KeyedStates
<1>2. CASE ~DetectHelloUnsupported(p, m)
  <2>1. state[p] \notin KeyedStates
    BY <1>2 DEF Discovery, DetectHelloAck, DetectHelloNewer, DetectHelloOlder,
                DetectHello, AckDetectedHello, WaitCommitHello, AckSentHelloAck,
                AckSentHello, KeyedStates
  <2>2. state'[p] \notin KeyedStates \cup InitiatorStates \cup ResponderStates
        /\ srtp'[p] = srtp[p]
    BY <1>2, <2>1
    DEF Discovery, DetectHelloAck, DetectHelloNewer, DetectHelloOlder,
        DetectHello, AckDetectedHello, WaitCommitHello, AckSentHelloAck,
        AckSentHello, KeyedStates, InitiatorStates, ResponderStates, Goto,
        KeepData, KeyInv, VersionInv, TypeInv, TypeOK
  <2> QED BY <2>1, <2>2, OffKeyOf DEF KeyInv
<1> QED BY <1>1, <1>2

LEMMA AgreementKeyOf ==
  ASSUME KeyInv, NEW p \in Peers, Stays(p), NEW m \in net, m.from = Other(p), Agreement(p, m)
  PROVE  KeyOf(p)'
<1> USE DEF KeyInv, VersionInv, TypeInv, TypeOK
<1>1. CASE AckSentCommit(p, m) \/ WaitCommitCommit(p, m) \/ CommitClashLost(p, m)
  BY <1>1, BecomeResponderKeyOf
     DEF AckSentCommit, WaitCommitCommit, CommitClashLost, KeyedStates
<1>2. CASE AckSentCommitIgnored(p, m) \/ CommitClashWon(p, m) \/ WaitDHPart2Commit(p, m)
  BY <1>2, KeepKeyOf
     DEF AckSentCommitIgnored, CommitClashWon, WaitDHPart2Commit, KeepData, Send
<1>3. CASE CommitSentDHPart1Ignored(p, m)
  BY <1>3, OffKeyOf
     DEF CommitSentDHPart1Ignored, KeepData, Goto, KeyedStates, InitiatorStates,
         ResponderStates
<1>4. CASE CommitSentDHPart1(p, m)
  <2> DEFINE k == [hello |-> neg[p].peerHello, ini |-> neg[p].dh, resp |-> m.dh]
             n == [neg[p] EXCEPT !.role = "Initiator", !.key = k]
  <2>0. neg[p] \in NegRecords
    OBVIOUS
  <2>1. n.role = "Initiator"
    BY <2>0, Zenon DEF NegRecords
  <2>2. neg' = [neg EXCEPT ![p] = n]
    BY <1>4 DEF CommitSentDHPart1
  <2> HIDE DEF n
  <2>3. neg'[p].role = "Initiator"
    BY <2>1, <2>2
  <2>4. state'[p] = "WaitConfirm1" /\ srtp'[p] = srtp[p] /\ state[p] \notin KeyedStates
    BY <1>4 DEF CommitSentDHPart1, Goto, KeyedStates
  <2> QED BY <2>3, <2>4, OffKeyOf DEF KeyedStates, ResponderStates
<1>5. CASE CommitSentConfirm1(p, m)
  <2> DEFINE k == [hello |-> neg[p].peerHello, ini |-> neg[p].dh, resp |-> 0]
             n == [neg[p] EXCEPT !.role = "Initiator", !.key = k]
  <2>0. state[p] \notin KeyedStates
    BY <1>5 DEF CommitSentConfirm1, KeyedStates
  <2>1. CASE m.key = k
    <3>0. neg[p] \in NegRecords
      OBVIOUS
    <3>1. n.role = "Initiator" /\ n.key = k
      BY <3>0, Zenon DEF NegRecords
    <3>2. neg' = [neg EXCEPT ![p] = n]
      BY <1>5, <2>1 DEF CommitSentConfirm1
    <3>3. srtp' = [srtp EXCEPT ![p] = [srtp[p] EXCEPT !.recv = k]]
      BY <1>5, <2>1, Zenon DEF CommitSentConfirm1
    <3>4. state'[p] = "WaitConfAck" /\ net \subseteq net'
      BY <1>5, <2>1 DEF CommitSentConfirm1, Goto, Send
    <3> HIDE DEF n, k
    <3>5. neg'[p].role = "Initiator" /\ neg'[p].key = k
      BY <3>1, <3>2
    <3>6. srtp'[p].recv = k /\ srtp'[p].send = srtp[p].send
      BY <3>3
    <3>7. m \in net' /\ m.type = "Confirm1"
      BY <1>5, <3>4 DEF CommitSentConfirm1
    <3>8. srtp[p].send = NoKey \/ LeftOver(p)
      BY <2>0 DEF KeyOf, SrtpOf, KeyedStates
    <3> QED BY <2>1, <3>4, <3>5, <3>6, <3>7, <3>8
          DEF KeyOf, RoleOf, SrtpOf, ConfirmedOf, Stays, KeyedStates, ResponderStates
  <2>2. CASE m.key # k
    BY <1>5, <2>0, <2>2, SendErrorKeyOf DEF SendErrorPacket, CommitSentConfirm1
  <2> QED BY <2>1, <2>2
<1>6. CASE WaitDHPart2DHPart2(p, m)
  <2> DEFINE k == [hello |-> OwnHello(p), ini |-> m.dh, resp |-> neg[p].dh]
             n == [neg[p] EXCEPT !.key = k]
             good == neg[p].peerHvi = [dh |-> m.dh, hello |-> OwnHello(p)]
  <2>0. state[p] \notin KeyedStates /\ state[p] \in ResponderStates
    BY <1>6 DEF WaitDHPart2DHPart2, KeyedStates, ResponderStates
  <2>1. CASE good
    <3>1. neg' = [neg EXCEPT ![p] = n]
      BY <1>6, <2>1 DEF WaitDHPart2DHPart2
    <3>0. neg[p] \in NegRecords
      OBVIOUS
    <3>2. n.role = neg[p].role
      BY <3>0, Zenon DEF NegRecords
    <3> HIDE DEF n
    <3>3. neg'[p].role = "Responder"
      BY <2>0, <3>1, <3>2 DEF KeyOf, RoleOf
    <3>4. state'[p] = "WaitConfirm2" /\ srtp'[p] = srtp[p]
      BY <1>6, <2>1 DEF WaitDHPart2DHPart2, Goto
    <3> QED BY <2>0, <3>3, <3>4, OffKeyOf DEF KeyedStates, InitiatorStates
  <2>2. CASE ~good
    BY <1>6, <2>0, <2>2, SendErrorKeyOf DEF SendErrorPacket, WaitDHPart2DHPart2
  <2> QED BY <2>1, <2>2
<1> QED BY <1>1, <1>2, <1>3, <1>4, <1>5, <1>6 DEF Agreement

LEMMA ConfirmationKeyOf ==
  ASSUME KeyInv, NEW p \in Peers, Stays(p), NEW m \in net, m.from = Other(p), Confirmation(p, m)
  PROVE  KeyOf(p)'
<1> USE DEF KeyInv, VersionInv, TypeInv, TypeOK
<1>1. CASE WaitConfirm2Repeat(p, m) \/ SecureConfirm2(p, m)
  BY <1>1, KeepKeyOf DEF WaitConfirm2Repeat, SecureConfirm2, KeepData, Send
<1>2. CASE WaitConfirm2Confirm2(p, m)
  <2>0. state[p] \notin KeyedStates /\ neg[p].role = "Responder"
    BY <1>2 DEF WaitConfirm2Confirm2, KeyedStates, KeyOf, RoleOf, ResponderStates
  <2>1. CASE m.key = neg[p].key
    <3>1. /\ state'[p] = "SecureState" /\ neg'[p] = neg[p]
          /\ srtp'[p] = [recv |-> neg[p].key, send |-> neg[p].key]
          /\ m \in net' /\ m.type = "Confirm2"
      BY <1>2, <2>1 DEF WaitConfirm2Confirm2, Goto, Send
    <3> QED BY <2>0, <2>1, <3>1
          DEF KeyOf, RoleOf, SrtpOf, ConfirmedOf, KeyedStates, InitiatorStates,
              ResponderStates
  <2>2. CASE m.key # neg[p].key
    BY <1>2, <2>0, <2>2, SendErrorKeyOf DEF SendErrorPacket, WaitConfirm2Confirm2
  <2> QED BY <2>1, <2>2
<1>3. CASE WaitConfirm1Confirm1(p, m)
  <2>0. state[p] \notin KeyedStates /\ neg[p].role = "Initiator"
    BY <1>3 DEF WaitConfirm1Confirm1, KeyedStates, KeyOf, RoleOf, InitiatorStates
  <2>1. CASE m.key = neg[p].key
    <3>1. /\ state'[p] = "WaitConfAck" /\ neg'[p] = neg[p]
          /\ m \in net' /\ m.type = "Confirm1"
      BY <1>3, <2>1 DEF WaitConfirm1Confirm1, Goto, Send
    <3>2. srtp' = [srtp EXCEPT ![p] = [srtp[p] EXCEPT !.recv = neg[p].key]]
      BY <1>3, <2>1, Zenon DEF WaitConfirm1Confirm1
    <3>3. srtp'[p].recv = neg[p].key /\ srtp'[p].send = srtp[p].send
      BY <3>2
    <3>4. srtp[p].send = NoKey \/ LeftOver(p)
      BY <2>0 DEF KeyOf, SrtpOf, KeyedStates
    <3> QED BY <2>0, <2>1, <3>1, <3>3, <3>4
          DEF KeyOf, RoleOf, SrtpOf, ConfirmedOf, Stays, KeyedStates, ResponderStates
  <2>2. CASE m.key # neg[p].key
    BY <1>3, <2>0, <2>2, SendErrorKeyOf DEF SendErrorPacket, WaitConfirm1Confirm1
  <2> QED BY <2>1, <2>2
<1>4. CASE WaitConfAckDone(p, m)
  <2>1. /\ state'[p] = "SecureState" /\ neg'[p] = neg[p] /\ net' = net
        /\ state[p] = "WaitConfAck"
    BY <1>4 DEF WaitConfAckDone, Goto
  <2>2. srtp' = [srtp EXCEPT ![p] = [srtp[p] EXCEPT !.send = neg[p].key]]
    BY <1>4, Zenon DEF WaitConfAckDone
  <2>3. srtp'[p].recv = srtp[p].recv /\ srtp'[p].send = neg[p].key
    BY <2>2
  <2> QED BY <2>1, <2>3
        DEF KeyOf, RoleOf, SrtpOf, ConfirmedOf, KeyedStates, InitiatorStates,
            ResponderStates
<1>5. CASE ErrorPkt(p, m)
  <2>1. CASE state[p] \in {"Initial", "SecureState"}
    BY <1>5, <2>1, KeepKeyOf DEF ErrorPkt, Send
  <2>2. CASE state[p] \notin {"Initial", "SecureState"}
    BY <1>5, <2>2, GiveUpKeyOf DEF ErrorPkt
  <2> QED BY <2>1, <2>2
<1>6. CASE WaitErrorAckDone(p, m)
  BY <1>6, OffKeyOf
     DEF WaitErrorAckDone, KeepData, Goto, KeyedStates, InitiatorStates,
         ResponderStates
<1> QED BY <1>1, <1>2, <1>3, <1>4, <1>5, <1>6 DEF Confirmation

LEMMA NextKeyInv == KeyInv /\ [Next]_vars => KeyInv'
<1> SUFFICES ASSUME KeyInv, [Next]_vars PROVE KeyInv'
  OBVIOUS
<1>1. VersionInv'
  BY VersionNext DEF KeyInv
<1>2. CASE UNCHANGED vars
  BY <1>1, <1>2, KeepKeyOf DEF vars, KeyInv, Stays, LeftOver, BudgetOf
<1>3. CASE Next
  <2>1. PICK p \in Peers : Step(p)
    BY <1>3 DEF Next, Step
  <2>4. Stays(p) /\ BudgetOf(p)' /\ (Malformed(p) => LeftOver(p)')
    BY <2>1, StepStays
  <2>2. KeyOf(p)'
    BY <2>1, <2>4, StartKeyOf, TimerKeyOf, MalformedKeyOf, DiscoveryKeyOf,
       AgreementKeyOf, ConfirmationKeyOf DEF Step, Deliver, Receive
  <2>3. ASSUME NEW q \in Peers, q # p
        PROVE  KeyOf(q)' /\ BudgetOf(q)'
    <3>1. Frame(q) /\ KeyOf(q) /\ BudgetOf(q)
      BY <2>1, <2>3, StepFrame DEF KeyInv, VersionInv
    <3>2. Stays(q) /\ BudgetOf(q)'
      BY <3>1 DEF Frame, Stays, LeftOver, BudgetOf
    <3> QED BY <3>1, <3>2, KeepKeyOf DEF Frame
  <2> QED BY <1>1, <2>2, <2>3, <2>4 DEF KeyInv
<1> QED BY <1>2, <1>3

LEMMA InitKeyInv == Init => KeyInv
<1> SUFFICES ASSUME Init PROVE KeyInv
  OBVIOUS
<1>1. VersionInv
  BY VersionInit
<1>3. ASSUME NEW q \in Peers PROVE BudgetOf(q)
  <2>1. PICK c \in Setups :
          /\ neg = [p \in Peers |-> NewNeg(c[p], 1)]
          /\ user = [p \in Peers |-> [calls |-> 0, left |-> MaxStarts,
                                     started |-> FALSE, malformed |-> c[p].malformed]]
    BY DEF Init
  <2>2. neg[q].setup = c[q] /\ user[q].malformed = c[q].malformed
    BY <2>1 DEF NewNeg
  <2>3. c[q].malformed \in Nat
    BY SetupsAssumption DEF SetupRecords
  <2> QED BY <2>2, <2>3 DEF BudgetOf
<1>2. ASSUME NEW q \in Peers PROVE KeyOf(q)
  BY DEF Init, KeyOf, RoleOf, SrtpOf, ConfirmedOf, KeyedStates, InitiatorStates,
         ResponderStates
<1> QED BY <1>1, <1>2, <1>3 DEF KeyInv

LEMMA KeyInvAlways == Spec => []KeyInv
BY InitKeyInv, NextKeyInv, PTL DEF Spec

\* An SRTP context runs under the negotiated key in the states in which the
\* negotiation has produced it (srtpSecretsReady, srtpSecretsOff); elsewhere
\* there is one only after a malformed packet.
THEOREM SrtpCorrect == Spec => []SrtpMatchesState
<1>1. KeyInv => SrtpMatchesState
  BY DEF KeyInv, KeyOf, SrtpOf, SrtpMatchesState, KeyedStates
<1> QED BY KeyInvAlways, <1>1, PTL

\* No end decrypts or encrypts media before the peer has confirmed the key.
THEOREM KeyConfirmedCorrect == Spec => []KeyConfirmed
<1>1. KeyInv => KeyConfirmed
  BY DEF KeyInv, KeyOf, ConfirmedOf, KeyConfirmed, KeyedStates
<1> QED BY KeyInvAlways, <1>1, PTL

-----------------------------------------------------------------------------
(* What may end a secure call. *)

LEMMA SecureStep ==
  ASSUME TypeInv, NEW p \in Peers, state[p] = "SecureState", Step(p)
  PROVE  \/ /\ state'[p] = "SecureState" \/ user'[p].malformed < user[p].malformed
            /\ srtp'[p] = srtp[p] /\ neg'[p] = neg[p]
         \/ neg'[p].chain # neg[p].chain
         \/ user'[p].calls < user[p].calls
<1> USE DEF TypeInv, TypeOK
<1>1. CASE Start(p)
  <2>1. StartElsewhere(p)
    BY <1>1 DEF Start, StartInitial, StartDetect
  <2>2. user' = [user EXCEPT ![p] = [user[p] EXCEPT !.calls = @ - 1, !.started = TRUE]]
    BY <2>1, Zenon DEF StartElsewhere, StartCall
  <2>3. user[p] \in UserRecords
    BY DEF UserRecords
  <2>4. [user[p] EXCEPT !.calls = @ - 1, !.started = TRUE].calls = user[p].calls - 1
    BY <2>3, Zenon DEF UserRecords
  <2>5. user'[p].calls = user[p].calls - 1
    BY <2>2, <2>4
  <2> QED BY <2>3, <2>5 DEF UserRecords
<1>2. CASE Close(p)
  <2>1. neg'[p].chain = neg[p].chain + 1 /\ neg[p].chain \in Nat
    BY <1>2 DEF Close, NewNeg, NegRecords
  <2> QED BY <2>1
<1>3. CASE StartCheck(p) \/ SendRtp(p) \/ TimerPop(p) \/ TimerStep(p)
  BY <1>3
  DEF StartCheck, SendRtp, TimerPop, KeepData, TimerStep, TimerHello, TimerResend,
      TimerFailed, TimerUnexpected, TimerIgnored, T2States, TimerlessStates
<1>4. ASSUME NEW m \in net, Discovery(p, m) \/ Agreement(p, m)
      PROVE  FALSE
  BY <1>4
  DEF Discovery, DetectHelloAck, DetectHelloNewer, DetectHelloOlder,
      DetectHelloUnsupported, DetectHello, AckDetectedHello, WaitCommitHello,
      AckSentHelloAck, AckSentHello,
      Agreement, AckSentCommit, AckSentCommitIgnored, WaitCommitCommit,
      CommitClashLost, CommitClashWon, CommitSentDHPart1, CommitSentDHPart1Ignored,
      CommitSentConfirm1, WaitDHPart2Commit, WaitDHPart2DHPart2
<1>5. ASSUME NEW m \in net, Confirmation(p, m)
      PROVE  state'[p] = "SecureState" /\ srtp'[p] = srtp[p] /\ neg'[p] = neg[p]
  BY <1>5
  DEF Confirmation, WaitConfirm2Repeat, WaitConfirm2Confirm2, WaitConfirm1Confirm1,
      WaitConfAckDone, SecureConfirm2, ErrorPkt, WaitErrorAckDone, KeepData
<1>6. CASE Malformed(p)
  <2>1. srtp'[p] = srtp[p] /\ neg'[p] = neg[p]
    BY <1>6 DEF Malformed, ErrorSent
  <2>2. user' = [user EXCEPT ![p] = [user[p] EXCEPT !.malformed = @ - 1]]
    BY <1>6, Zenon DEF Malformed
  <2>3. user[p] \in UserRecords
    BY DEF UserRecords
  <2>4. [user[p] EXCEPT !.malformed = @ - 1].malformed = user[p].malformed - 1
    BY <2>3, Zenon DEF UserRecords
  <2>5. user'[p].malformed = user[p].malformed - 1
    BY <2>2, <2>4
  <2> QED BY <2>1, <2>3, <2>5 DEF UserRecords
<1> QED BY <1>1, <1>2, <1>3, <1>4, <1>5, <1>6 DEF Step, Deliver

\* Whatever the network delivers and whenever timeouts come: only stopStream, a
\* start call that had seen the engine in Initial and a packet of the wrong length
\* take it out of SecureState, the last with the SRTP contexts left on.
THEOREM SecureIsKeptCorrect == Spec => SecureIsKept
<1> DEFINE A == \A p \in Peers :
                  state[p] = "SecureState" =>
                    \/ /\ state'[p] = "SecureState" \/ user'[p].malformed < user[p].malformed
                       /\ srtp'[p] = srtp[p] /\ neg'[p] = neg[p]
                    \/ neg'[p].chain # neg[p].chain
                    \/ user'[p].calls < user[p].calls
<1>1. TypeInv /\ [Next]_vars => [A]_vars
  <2> SUFFICES ASSUME TypeInv, Next, NEW q \in Peers, state[q] = "SecureState"
               PROVE  \/ /\ \/ state'[q] = "SecureState"
                            \/ user'[q].malformed < user[q].malformed
                         /\ srtp'[q] = srtp[q] /\ neg'[q] = neg[q]
                      \/ neg'[q].chain # neg[q].chain
                      \/ user'[q].calls < user[q].calls
    OBVIOUS
  <2>1. PICK p \in Peers : Step(p)
    BY DEF Next, Step
  <2>2. CASE q = p
    BY <2>1, <2>2, SecureStep
  <2>3. CASE q # p
    BY <2>1, <2>3, StepFrame DEF Frame
  <2> QED BY <2>2, <2>3
<1>2. Spec => []TypeInv
  BY InitTyped, NextTyped, PTL DEF Spec
<1> QED BY <1>1, <1>2, PTL DEF Spec, SecureIsKept

-----------------------------------------------------------------------------
(* No end waits for an answer without a timeout. *)

ArmedOf(q) ==
  state[q] \in T2States => timer[q].req > 0 \/ timer[q].due \/ timer[q].lost

ArmedInv == TypeInv /\ \A q \in Peers : ArmedOf(q)

\* Asking for a timeout arms the timer, unless the provider drops the request.
LEMMA ActivateArmed ==
  ASSUME TypeInv, NEW p \in Peers, NEW t \in TimerRecords, ActivateTimer(p, t)
  PROVE  ArmedOf(p)'
<1>1. Queued(t).req = t.req + 1 /\ [t EXCEPT !.lost = TRUE].lost
  BY Zenon DEF Queued, TimerRecords
<1>2. t.req + 1 > 0
  BY DEF TimerRecords
<1>3. timer'[p] = Queued(t) \/ timer'[p] = [t EXCEPT !.lost = TRUE]
  BY DEF ActivateTimer, SetTimer, TypeInv, TypeOK
<1> QED BY <1>1, <1>2, <1>3 DEF ArmedOf

LEMMA RestartArmed ==
  ASSUME TypeInv, NEW p \in Peers, NEW t \in TimerRecords, StartTimer(p, t)
  PROVE  ArmedOf(p)'
<1>1. [t EXCEPT !.counter = 0] \in TimerRecords
  BY TimerTyped
<1> QED BY <1>1, ActivateArmed DEF StartTimer

\* So does nextTimer, as long as resends are left.
LEMMA ResendArmed ==
  ASSUME TypeInv, NEW p \in Peers, NextTimer(p, Delivered(timer[p]), T2Max),
         ~Exhausted(timer[p], T2Max)
  PROVE  ArmedOf(p)'
<1> DEFINE t == Delivered(timer[p])
<1>1. timer[p] \in TimerRecords /\ t \in TimerRecords
  BY LocalTypes, TimerTyped
<1>2. t.counter = timer[p].counter
  BY <1>1, Zenon DEF Delivered, TimerRecords
<1> HIDE DEF t
<1>3. ~Exhausted(t, T2Max) /\ NextTimer(p, t, T2Max)
  BY <1>2 DEF Exhausted, t
<1>4. ActivateTimer(p, [t EXCEPT !.counter = t.counter + 1])
  BY <1>3 DEF NextTimer
<1>5. t.counter + 1 \in Nat
  BY <1>1 DEF TimerRecords
<1>6. [t EXCEPT !.counter = t.counter + 1] \in TimerRecords
  BY <1>1, <1>5, TimerTyped, BoundAssumption
<1> QED BY <1>4, <1>6, ActivateArmed

LEMMA StepArmed ==
  ASSUME ArmedInv, NEW p \in Peers, Step(p)
  PROVE  ArmedOf(p)'
<1> USE DEF ArmedInv, TypeInv, TypeOK
<1>01. Cancelled(timer[p]) \in TimerRecords
  BY LocalTypes, TimerTyped
<1>0. ASSUME GiveUp(p) PROVE ArmedOf(p)'
  BY <1>0 DEF GiveUp, Goto, ArmedOf, T2States
<1>1. ASSUME NEW n, ErrorSent(p, n) PROVE ArmedOf(p)'
  BY <1>01, <1>1, RestartArmed DEF ErrorSent
<1>2. CASE StartCheck(p) \/ SendRtp(p)
  BY <1>2 DEF StartCheck, SendRtp, KeepData, ArmedOf
<1>3. CASE Start(p)
  BY <1>0, <1>3, RestartArmed
  DEF Start, StartInitial, StartDetect, StartElsewhere, Goto, ArmedOf, T2States
<1>4. CASE Close(p)
  BY <1>4 DEF Close, Goto, ArmedOf, T2States
<1>5. CASE TimerPop(p)
  <2>1. [timer[p] EXCEPT !.req = @ - 1, !.due = TRUE].due
    BY LocalTypes, Zenon DEF TimerRecords
  <2>2. timer' = [timer EXCEPT ![p] = [timer[p] EXCEPT !.req = @ - 1, !.due = TRUE]]
    BY <1>5 DEF TimerPop, SetTimer
  <2>3. timer'[p].due
    BY <2>1, <2>2
  <2> QED BY <2>3 DEF ArmedOf
<1>6. CASE TimerStep(p)
  <2>1. CASE TimerHello(p)
    <3>1. state'[p] \in {"Detect", "AckSent"}
      BY <2>1 DEF TimerHello
    <3> QED BY <3>1 DEF ArmedOf, T2States
  <2>2. CASE TimerResend(p)
    BY <2>2, ResendArmed DEF TimerResend
  <2>3. CASE TimerFailed(p) \/ TimerUnexpected(p)
    BY <1>0, <2>3 DEF TimerFailed, TimerUnexpected
  <2>4. CASE TimerIgnored(p)
    BY <2>4 DEF TimerIgnored, ArmedOf, T2States
  <2> QED BY <1>6, <2>1, <2>2, <2>3, <2>4 DEF TimerStep
<1>7. ASSUME NEW m \in net, Discovery(p, m) PROVE ArmedOf(p)'
  <2>1. CASE DetectHelloUnsupported(p, m)
    BY <1>1, <2>1 DEF DetectHelloUnsupported, SendErrorPacket
  <2>2. CASE AckSentHelloAck(p, m)
    BY <2>2, <1>01, RestartArmed DEF AckSentHelloAck
  <2>3. CASE ~DetectHelloUnsupported(p, m) /\ ~AckSentHelloAck(p, m)
    <3>1. state'[p] \notin T2States
      BY <1>7, <2>3
      DEF Discovery, DetectHelloAck, DetectHelloNewer, DetectHelloOlder, DetectHello,
          AckDetectedHello, WaitCommitHello, AckSentHello, Goto, T2States
    <3> QED BY <3>1 DEF ArmedOf
  <2> QED BY <2>1, <2>2, <2>3
<1>8. ASSUME NEW m \in net, Agreement(p, m) PROVE ArmedOf(p)'
  <2>1. ASSUME BecomeResponder(p, m) PROVE ArmedOf(p)'
    <3>1. state'[p] \in {"WaitConfirm2", "WaitDHPart2"}
      BY <2>1 DEF BecomeResponder, Goto
    <3> QED BY <3>1 DEF ArmedOf, T2States
  <2>2. CASE AckSentCommit(p, m) \/ WaitCommitCommit(p, m) \/ CommitClashLost(p, m)
    BY <2>1, <2>2 DEF AckSentCommit, WaitCommitCommit, CommitClashLost
  <2>3. CASE AckSentCommitIgnored(p, m) \/ WaitDHPart2Commit(p, m)
    BY <2>3 DEF AckSentCommitIgnored, WaitDHPart2Commit, ArmedOf, T2States
  <2>4. CASE CommitClashWon(p, m) \/ CommitSentDHPart1(p, m)
             \/ CommitSentDHPart1Ignored(p, m)
    BY <1>01, <2>4, RestartArmed
    DEF CommitClashWon, CommitSentDHPart1, CommitSentDHPart1Ignored
  <2>5. CASE CommitSentConfirm1(p, m)
    BY <1>1, <1>01, <2>5, RestartArmed DEF SendErrorPacket, CommitSentConfirm1
  <2>6. CASE WaitDHPart2DHPart2(p, m)
    BY <1>1, <2>6 DEF SendErrorPacket, WaitDHPart2DHPart2, Goto, ArmedOf, T2States
  <2> QED BY <1>8, <2>2, <2>3, <2>4, <2>5, <2>6 DEF Agreement
<1>9. ASSUME NEW m \in net, Confirmation(p, m) PROVE ArmedOf(p)'
  <2>1. CASE WaitConfirm2Repeat(p, m) \/ SecureConfirm2(p, m)
    BY <2>1 DEF WaitConfirm2Repeat, SecureConfirm2, ArmedOf, T2States
  <2>2. CASE WaitConfirm2Confirm2(p, m)
    BY <1>1, <2>2 DEF SendErrorPacket, WaitConfirm2Confirm2, Goto, ArmedOf, T2States
  <2>3. CASE WaitConfirm1Confirm1(p, m)
    BY <1>1, <1>01, <2>3, RestartArmed DEF SendErrorPacket, WaitConfirm1Confirm1
  <2>4. CASE WaitConfAckDone(p, m) \/ WaitErrorAckDone(p, m)
    BY <2>4 DEF WaitConfAckDone, WaitErrorAckDone, Goto, ArmedOf, T2States
  <2>5. CASE ErrorPkt(p, m)
    BY <1>0, <2>5 DEF ErrorPkt, ArmedOf, T2States
  <2> QED BY <1>9, <2>1, <2>2, <2>3, <2>4, <2>5 DEF Confirmation
<1>10. CASE Malformed(p)
  BY <1>1, <1>10 DEF Malformed
<1> QED BY <1>2, <1>3, <1>4, <1>5, <1>6, <1>7, <1>8, <1>9, <1>10 DEF Step, Deliver

\* Every wait for an answer to Commit, DHPart2, Confirm2 or Error has a timeout
\* request in the provider's list or on its way to the engine, or its last request
\* was dropped by the provider.
THEOREM RetransmissionArmedCorrect == Spec => []RetransmissionArmed
<1>1. Init => ArmedInv
  BY InitTyped DEF Init, ArmedInv, ArmedOf, T2States
<1>2. ArmedInv /\ [Next]_vars => ArmedInv'
  <2> SUFFICES ASSUME ArmedInv, [Next]_vars PROVE ArmedInv'
    OBVIOUS
  <2>1. TypeInv'
    BY NextTyped DEF ArmedInv
  <2>2. CASE UNCHANGED vars
    BY <2>1, <2>2 DEF vars, ArmedInv, ArmedOf
  <2>3. CASE Next
    <3>1. PICK p \in Peers : Step(p)
      BY <2>3 DEF Next, Step
    <3>2. ASSUME NEW q \in Peers, q # p PROVE ArmedOf(q)'
      BY <3>1, <3>2, StepFrame DEF ArmedInv, ArmedOf, Frame
    <3> QED BY <2>1, <3>1, <3>2, StepArmed DEF ArmedInv
  <2> QED BY <2>2, <2>3
<1>3. ArmedInv => RetransmissionArmed
  BY DEF ArmedInv, ArmedOf, RetransmissionArmed
<1> QED BY <1>1, <1>2, <1>3, PTL DEF Spec

-----------------------------------------------------------------------------
(* The keys in Diffie-Hellman mode.  Every draw yields one key at most, and   *)
(* the Confirm packets under it name it; of two ends that are secure with     *)
(* draws of different negotiations each would have to have drawn before the   *)
(* other (NotCrossed).  In multi-stream mode the Responder adds no value of   *)
(* its own to the key, and the argument does not hold.                        *)

DiffieHellman == \A c \in Setups : ~c[Alice].multi

\* Nothing is confirmed yet; nothing is encrypted yet; the key is there.
FreshStates == {"AckSent", "WaitCommit", "CommitSent", "WaitDHPart2", "WaitConfirm1"}
UnsentStates == FreshStates \cup {"WaitConfirm2", "WaitConfAck"}
HeldStates == {"WaitConfirm1", "WaitConfirm2", "WaitConfAck", "SecureState"}

Confirms == {"Confirm1", "Confirm2"}

\* The values that the sender of a Confirm packet and its peer put into the key.
Own(m) == IF m.type = "Confirm1" THEN m.key.resp ELSE m.key.ini
Theirs(m) == IF m.type = "Confirm1" THEN m.key.ini ELSE m.key.resp
SenderRole(m) == IF m.type = "Confirm1" THEN "Responder" ELSE "Initiator"

\* The key n.key is one of n's draw and of another.
HeldKey(n, D) ==
  /\ n.key.ini \in D /\ n.key.resp \in D
  /\ \/ n.role = "Initiator" /\ n.key.ini = n.dh
     \/ n.role = "Responder" /\ n.key.resp = n.dh

EndDraws(q) ==
  /\ ~neg[q].setup.multi
  /\ neg[q].dh \in drawn \cup {0}
  /\ state[q] \in UnsentStates => neg[q].dh \in drawn
  /\ state[q] \in HeldStates => HeldKey(neg[q], drawn)

MessageDraws(m) ==
  /\ m.type \in {"DHPart1", "DHPart2"} => m.dh \in drawn
  /\ m.type \in Confirms \cup {"Srtp"} => m.key.ini \in drawn /\ m.key.resp \in drawn

\* The draw in use has one key, ...
OneKey(q) ==
  \A m \in net :
    m.from = q /\ m.type \in Confirms /\ Own(m) = neg[q].dh =>
      state[q] \notin FreshStates /\ m.key = neg[q].key /\ neg[q].role = SenderRole(m)

\* ... which has encrypted nothing before SecureState.
Unsent(q) ==
  \A m \in net :
    m.from = q /\ m.type = "Srtp" /\ neg[q].dh \in {m.key.ini, m.key.resp} =>
      state[q] \notin UnsentStates

\* The sender's context is of earlier draws as long as the draw in use has sent
\* nothing: after a malformed packet it may outlive the negotiation that made it.
Sender(q) ==
  srtp[q].send # NoKey =>
    /\ srtp[q].send.ini \in drawn /\ srtp[q].send.resp \in drawn
    /\ state[q] \in UnsentStates =>
         neg[q].dh \notin {srtp[q].send.ini, srtp[q].send.resp}

\* The sender of m has drawn again since, the peer of that key has not.
Outlived(m) ==
  /\ m.type \in Confirms
  /\ Own(m) # neg[m.from].dh /\ Theirs(m) = neg[Other(m.from)].dh

NotCrossed == \A m, k \in net : Outlived(m) /\ Outlived(k) => m.from = k.from

DrawInv ==
  /\ KeyInv
  /\ \A q \in Peers : EndDraws(q) /\ OneKey(q) /\ Unsent(q) /\ Sender(q)
  /\ \A m \in net : MessageDraws(m)
  /\ NotCrossed

-----------------------------------------------------------------------------
(* What a step of p does to the draws: its new data n in state s ...         *)

NewDraws(p) ==
  /\ ~neg'[p].setup.multi
  /\ drawn \subseteq drawn'
  /\ neg'[p].dh \in {neg[p].dh, 0} \cup (drawn' \ drawn)
  /\ state'[p] \in UnsentStates => neg'[p].dh \in drawn'
  /\ state'[p] \in HeldStates => HeldKey(neg'[p], drawn')
  /\ state'[p] = "SecureState" => state[p] \in UnsentStates \cup {"SecureState"}
  /\ neg'[p].dh = neg[p].dh /\ neg[p].dh # 0 =>
       /\ state'[p] \in FreshStates => state[p] \in FreshStates
       /\ state'[p] \in UnsentStates => state[p] \in UnsentStates
       /\ \/ state[p] \in FreshStates
          \/ neg'[p].key = neg[p].key /\ neg'[p].role = neg[p].role

\* ... and a packet m that it sends.
NewMessage(p, m) ==
  /\ m.from = p
  /\ m.type \in {"DHPart1", "DHPart2"} => m.dh \in drawn'
  /\ m.type \in Confirms =>
       /\ state'[p] \notin FreshStates
       /\ HeldKey(neg'[p], drawn')
       /\ m.key = neg'[p].key /\ neg'[p].role = SenderRole(m)
  /\ m.type = "Srtp" => m.key # NoKey /\ m.key = srtp'[p].send

\* Only on the way to SecureState does a step switch the sender on.
SenderStep(p) ==
  state'[p] # "SecureState" => srtp'[p].send \in {srtp[p].send, NoKey}

DrawStep(p) == NewDraws(p) /\ \A m \in net' : m \in net \/ NewMessage(p, m)

LEMMA DrawMessages ==
  ASSUME DrawInv, NEW p \in Peers, DrawStep(p), Sender(p)', NEW m \in net'
  PROVE  MessageDraws(m)'
<1>1. CASE m \in net
  BY <1>1 DEF DrawInv, MessageDraws, DrawStep, NewDraws
<1>2. CASE NewMessage(p, m)
  BY <1>2 DEF NewMessage, MessageDraws, DrawStep, NewDraws, HeldKey, HeldStates, Sender
<1> QED BY <1>1, <1>2 DEF DrawStep

\* A value that a packet names is no new draw, and not 0.
LEMMA NamedDraws ==
  ASSUME DrawInv, NEW p \in Peers, DrawStep(p), NEW m \in net,
         m.type \in Confirms \cup {"Srtp"}, neg'[p].dh \in {m.key.ini, m.key.resp}
  PROVE  neg'[p].dh = neg[p].dh /\ neg[p].dh # 0
<1>1. 0 \notin drawn
  BY DrawsAssumption DEF DrawInv, KeyInv, VersionInv, TypeInv, TypeOK
<1>2. m.key.ini \in drawn /\ m.key.resp \in drawn
  BY DEF DrawInv, MessageDraws
<1> QED BY <1>1, <1>2 DEF DrawStep, NewDraws

LEMMA DrawSender ==
  ASSUME DrawInv, KeyInv', NEW p \in Peers, DrawStep(p), SenderStep(p)
  PROVE  Sender(p)'
<1>1. CASE state'[p] = "SecureState"
  <2>1. srtp'[p].send = neg'[p].key
    BY <1>1 DEF KeyInv, KeyOf, SrtpOf
  <2>2. HeldKey(neg'[p], drawn')
    BY <1>1 DEF DrawStep, NewDraws, HeldStates
  <2> QED BY <1>1, <2>1, <2>2 DEF Sender, HeldKey, UnsentStates, FreshStates
<1>2. CASE state'[p] # "SecureState"
  <2> SUFFICES ASSUME srtp'[p].send # NoKey PROVE Sender(p)'
    BY DEF Sender
  <2>1. srtp'[p].send = srtp[p].send
    BY <1>2 DEF SenderStep
  <2>2. Sender(p) /\ srtp[p].send.ini \in drawn /\ srtp[p].send.resp \in drawn
    BY <2>1 DEF DrawInv, Sender
  <2>3. ASSUME state'[p] \in UnsentStates,
               neg'[p].dh \in {srtp[p].send.ini, srtp[p].send.resp}
        PROVE  FALSE
    <3>1. 0 \notin drawn
      BY DrawsAssumption DEF DrawInv, KeyInv, VersionInv, TypeInv, TypeOK
    <3>2. neg'[p].dh = neg[p].dh /\ neg[p].dh # 0
      BY <2>2, <2>3, <3>1 DEF DrawStep, NewDraws
    <3>3. state[p] \in UnsentStates
      BY <2>3, <3>2 DEF DrawStep, NewDraws
    <3> QED BY <2>1, <2>2, <2>3, <3>2, <3>3 DEF Sender
  <2> QED BY <2>1, <2>2, <2>3 DEF Sender, DrawStep, NewDraws
<1> QED BY <1>1, <1>2

LEMMA DrawOneKey ==
  ASSUME DrawInv, NEW p \in Peers, DrawStep(p)
  PROVE  OneKey(p)'
<1> SUFFICES ASSUME NEW m \in net', m.from = p, m.type \in Confirms, Own(m) = neg'[p].dh
             PROVE  /\ state'[p] \notin FreshStates
                    /\ m.key = neg'[p].key /\ neg'[p].role = SenderRole(m)
  BY DEF OneKey, Own, SenderRole
<1>1. CASE m \in net
  <2>1. neg'[p].dh = neg[p].dh /\ neg[p].dh # 0
    BY <1>1, NamedDraws DEF Own
  <2>2. /\ state[p] \notin FreshStates
        /\ m.key = neg[p].key /\ neg[p].role = SenderRole(m)
    BY <1>1, <2>1 DEF DrawInv, OneKey
  <2> QED BY <2>1, <2>2 DEF DrawStep, NewDraws
<1>2. CASE NewMessage(p, m)
  BY <1>2 DEF NewMessage
<1> QED BY <1>1, <1>2 DEF DrawStep

LEMMA DrawUnsent ==
  ASSUME DrawInv, NEW p \in Peers, DrawStep(p), Sender(p)'
  PROVE  Unsent(p)'
<1> SUFFICES ASSUME NEW m \in net', m.from = p, m.type = "Srtp",
                    neg'[p].dh \in {m.key.ini, m.key.resp}
             PROVE  state'[p] \notin UnsentStates
  BY DEF Unsent
<1>1. CASE m \in net
  <2>1. neg'[p].dh = neg[p].dh /\ neg[p].dh # 0
    BY <1>1, NamedDraws
  <2>2. state[p] \notin UnsentStates
    BY <1>1, <2>1 DEF DrawInv, Unsent
  <2> QED BY <2>1, <2>2 DEF DrawStep, NewDraws
<1>2. CASE NewMessage(p, m)
  BY <1>2 DEF NewMessage, Sender
<1> QED BY <1>1, <1>2 DEF DrawStep

\* A packet that has newly outlived its draw does so because p has drawn again:
\* then no packet names p's draw yet.
LEMMA DrawNotCrossed ==
  ASSUME DrawInv, NEW p \in Peers, DrawStep(p), neg'[Other(p)] = neg[Other(p)]
  PROVE  NotCrossed'
<1>0. /\ Other(p) \in Peers /\ Other(p) # p /\ Other(Other(p)) = p
      /\ \A q \in Peers : q = p \/ q = Other(p)
  BY PeersAssumption DEF Other, Peers
<1>1. \A m \in net' : m.type \in Confirms /\ m \notin net =>
        m.from = p /\ Own(m) = neg'[p].dh
  BY DEF DrawStep, NewMessage, HeldKey, Own, SenderRole, Confirms
\* A packet of p that has outlived its draw is an old one.
<1>2. ASSUME NEW m \in net', Outlived(m)', m.from = p
      PROVE  m \in net /\ Theirs(m) = neg[Other(p)].dh /\ m.type \in Confirms
             /\ Own(m) # neg'[p].dh
  BY <1>0, <1>1, <1>2 DEF Outlived, Own, Theirs
\* A packet of the peer that names p's draw names the one p had.
<1>3. ASSUME NEW m \in net', Outlived(m)', m.from = Other(p)
      PROVE  m \in net /\ Outlived(m) /\ neg'[p].dh = neg[p].dh
  <2>1. /\ m \in net /\ m.type \in Confirms /\ Theirs(m) = neg'[p].dh
        /\ Own(m) # neg[Other(p)].dh
    BY <1>0, <1>1, <1>3 DEF Outlived, Own, Theirs
  <2>2. neg'[p].dh = neg[p].dh
    BY <2>1, NamedDraws DEF Theirs
  <2> QED BY <1>0, <1>3, <2>1, <2>2 DEF Outlived
<1>4. \A m \in net' : m.from \in Peers
  <2>1. \A m \in net : m.from \in Peers
    BY DEF DrawInv, KeyInv, VersionInv, TypeInv, TypeOK, Messages
  <2> QED BY <2>1 DEF DrawStep, NewMessage
<1>5. ASSUME NEW m \in net', NEW k \in net', Outlived(m)', Outlived(k)',
             m.from = p, k.from = Other(p)
      PROVE  FALSE
  <2>1. k \in net /\ Outlived(k) /\ neg'[p].dh = neg[p].dh
    BY <1>3, <1>5
  <2>2. m \in net /\ Outlived(m)
    BY <1>2, <1>5, <2>1 DEF Outlived
  <2> QED BY <1>0, <1>5, <2>1, <2>2 DEF DrawInv, NotCrossed
<1> QED BY <1>0, <1>4, <1>5 DEF NotCrossed

LEMMA DrawFrame ==
  ASSUME DrawInv, KeyInv', NEW p \in Peers, DrawStep(p), SenderStep(p),
         Frame(Other(p))
  PROVE  DrawInv'
<1>0. /\ Other(p) \in Peers /\ Other(p) # p
      /\ \A q \in Peers : q = p \/ q = Other(p)
  BY PeersAssumption DEF Other, Peers
<1>1. EndDraws(p)'
  <2>1. neg[p].dh \in drawn \cup {0}
    BY DEF DrawInv, EndDraws
  <2> QED BY <2>1 DEF DrawStep, NewDraws, EndDraws, HeldKey
<1>2. \A m \in net' : m \in net \/ m.from # Other(p)
  BY <1>0 DEF DrawStep, NewMessage
<1>3. EndDraws(Other(p))' /\ OneKey(Other(p))' /\ Unsent(Other(p))' /\ Sender(Other(p))'
  <2> DEFINE q == Other(p)
  <2>0. q \in Peers
    BY <1>0
  <2> HIDE DEF q
  <2>1. state'[q] = state[q] /\ neg'[q] = neg[q] /\ drawn \subseteq drawn'
    BY DEF Frame, DrawStep, NewDraws, q
  <2>2. EndDraws(q)'
    BY <2>0, <2>1 DEF DrawInv, EndDraws, HeldKey
  <2>3. OneKey(q)'
    BY <1>2, <2>0, <2>1 DEF DrawInv, OneKey, Own, SenderRole, q
  <2>4. Unsent(q)'
    BY <1>2, <2>0, <2>1 DEF DrawInv, Unsent, q
  <2>5. Sender(q)'
    BY <2>0, <2>1 DEF DrawInv, Sender, Frame, q
  <2> QED BY <2>2, <2>3, <2>4, <2>5 DEF q
<1>5. Sender(p)'
  BY DrawSender
<1>4. NotCrossed'
  BY DrawNotCrossed DEF Frame
<1> QED BY <1>0, <1>1, <1>3, <1>4, <1>5, DrawMessages, DrawOneKey, DrawUnsent DEF DrawInv

\* More of the updates of the negotiation record.
LEMMA NegDraws ==
  ASSUME NEW n \in NegRecords
  PROVE  /\ \A b : LET u == [n EXCEPT !.commitPkt = b] IN
              u.setup = n.setup /\ u.dh = n.dh /\ u.role = n.role /\ u.key = n.key
         /\ \A v : LET u == [n EXCEPT !.ver = v] IN
              u.setup = n.setup /\ u.dh = n.dh /\ u.role = n.role /\ u.key = n.key
         /\ \A r, k : LET u == [n EXCEPT !.role = r, !.key = k] IN
              u.setup = n.setup /\ u.dh = n.dh /\ u.role = r /\ u.key = k
         /\ \A k : LET u == [n EXCEPT !.key = k] IN
              u.setup = n.setup /\ u.dh = n.dh /\ u.role = n.role /\ u.key = k
         /\ \A r, h : LET u == [n EXCEPT !.role = r, !.commitPkt = FALSE, !.peerHvi = h] IN
              u.setup = n.setup /\ u.dh = n.dh /\ u.role = r /\ u.key = n.key
         /\ \A h, r : LET u == [n EXCEPT !.peerHello = h, !.dh = r] IN
              u.setup = n.setup /\ u.dh = r /\ u.role = n.role /\ u.key = n.key
         /\ \A h, r : LET u == [[n EXCEPT !.peerHello = h, !.dh = r] EXCEPT !.commitPkt = TRUE] IN
              u.setup = n.setup /\ u.dh = r /\ u.role = n.role /\ u.key = n.key
BY Zenon DEF NegRecords

\* What an end may send.
LEMMA SendDraws ==
  ASSUME NEW p \in Peers, NEW k, NEW n, Send(p, {k}, n),
         k \in {"DHPart1", "DHPart2"} => n.dh \in drawn',
         k \in Confirms =>
           /\ state'[p] \notin FreshStates
           /\ HeldKey(neg'[p], drawn')
           /\ n.key = neg'[p].key
           /\ neg'[p].role = (IF k = "Confirm1" THEN "Responder" ELSE "Initiator"),
         k # "Srtp"
  PROVE  \A m \in net' : m \in net \/ NewMessage(p, m)
<1> SUFFICES NewMessage(p, Packet(p, k, n))
  BY DEF Send
<1>1. CASE k = "Hello"
  BY <1>1 DEF Packet, NewMessage, Confirms
<1>2. CASE k \in {"Confirm1", "Confirm2"}
  BY <1>2 DEF Packet, NewMessage, Confirms, SenderRole
<1>3. CASE k = "Commit"
  BY <1>3 DEF Packet, NewMessage, Confirms
<1>4. CASE k \in {"DHPart1", "DHPart2"}
  BY <1>4 DEF Packet, NewMessage, Confirms
<1>5. CASE k \notin {"Hello", "Confirm1", "Confirm2", "Commit", "DHPart1", "DHPart2"}
  <2>1. Packet(p, k, n) = [type |-> k, from |-> p]
    BY <1>5 DEF Packet
  <2> QED BY <1>5, <2>1 DEF NewMessage, Confirms
<1> QED BY <1>1, <1>2, <1>3, <1>4, <1>5

\* The draw, the key and the role stay, in the same state or in an idle one.
KeptDraws(p) ==
  /\ neg'[p].setup = neg[p].setup /\ neg'[p].dh = neg[p].dh
  /\ neg'[p].key = neg[p].key /\ neg'[p].role = neg[p].role
  /\ drawn' = drawn
  /\ state'[p] = state[p] \/ state'[p] \notin UnsentStates \cup HeldStates

LEMMA KeepDraws ==
  ASSUME DrawInv, NEW p \in Peers, KeptDraws(p)
  PROVE  NewDraws(p)
<1>1. EndDraws(p)
  BY DEF DrawInv
<1> QED BY <1>1 DEF KeptDraws, NewDraws, EndDraws, HeldKey, HeldStates, UnsentStates

LEMMA ResendDraws ==
  ASSUME DrawInv, NEW p \in Peers, KeptDraws(p), Send(p, {sent[p]}, neg[p])
  PROVE  DrawStep(p)
<1>1. sent[p] \in SentIn(state[p]) /\ EndDraws(p) /\ KeyOf(p)
  BY LocalTypes DEF DrawInv, KeyInv, VersionInv
<1>2. /\ sent[p] = "DHPart1" => state[p] = "WaitDHPart2"
      /\ sent[p] = "DHPart2" => state[p] = "WaitConfirm1"
      /\ sent[p] = "Confirm1" => state[p] = "WaitConfirm2"
      /\ sent[p] = "Confirm2" => state[p] = "WaitConfAck"
      /\ sent[p] # "Srtp"
  BY <1>1 DEF SentIn
<1>3. sent[p] \in {"DHPart1", "DHPart2"} => neg[p].dh \in drawn'
  BY <1>1, <1>2 DEF EndDraws, UnsentStates, FreshStates, KeptDraws
<1>4. sent[p] \in Confirms =>
           /\ state'[p] \notin FreshStates
           /\ HeldKey(neg'[p], drawn')
           /\ neg[p].key = neg'[p].key
           /\ neg'[p].role = (IF sent[p] = "Confirm1" THEN "Responder" ELSE "Initiator")
  BY <1>1, <1>2 DEF EndDraws, UnsentStates, FreshStates, HeldStates, KeptDraws, Confirms,
                    KeyOf, RoleOf, InitiatorStates, ResponderStates, HeldKey
<1>5. \A m \in net' : m \in net \/ NewMessage(p, m)
  BY <1>2, <1>3, <1>4, SendDraws
<1> QED BY <1>5, KeepDraws DEF DrawStep

\* The packets that say nothing of draws and keys.
PlainPackets == {"Hello", "HelloAck", "Commit", "Conf2Ack", "Error", "ErrorAck"}

LEMMA PlainDraws ==
  ASSUME NEW p \in Peers, NEW k \in PlainPackets, NEW n, Send(p, {k}, n)
  PROVE  \A m \in net' : m \in net \/ NewMessage(p, m)
<1>1. k \notin {"DHPart1", "DHPart2"} /\ k \notin Confirms /\ k # "Srtp"
  BY DEF PlainPackets, Confirms
<1> QED BY <1>1, SendDraws

LEMMA GiveUpDraws ==
  ASSUME DrawInv, NEW p \in Peers, GiveUp(p), drawn' = drawn
  PROVE  KeptDraws(p)
<1> USE DEF DrawInv, KeyInv, VersionInv, TypeInv, TypeOK
<1>1. neg[p] \in NegRecords /\ state'[p] = "Initial"
  BY DEF GiveUp, Goto
<1> DEFINE b == neg[p].commitPkt /\ state[p] # "AckSent"
<1>2. neg' = [neg EXCEPT ![p] = [neg[p] EXCEPT !.commitPkt = b]]
  BY Zenon DEF GiveUp
<1> HIDE DEF b
<1>3. neg'[p] = [neg[p] EXCEPT !.commitPkt = b]
  BY <1>2
<1> QED BY <1>1, <1>3, NegDraws DEF KeptDraws, UnsentStates, FreshStates, HeldStates

LEMMA SendErrorDraws ==
  ASSUME DrawInv, NEW p \in Peers, ErrorSent(p, neg[p])
  PROVE  DrawStep(p)
<1> USE DEF DrawInv, KeyInv, VersionInv, TypeInv, TypeOK
<1>1. /\ state'[p] = "WaitErrorAck" /\ neg'[p] = neg[p] /\ drawn' = drawn
      /\ Send(p, {"Error"}, neg[p])
  BY DEF ErrorSent, Goto
<1>2. KeptDraws(p)
  BY <1>1 DEF KeptDraws, UnsentStates, FreshStates, HeldStates
<1>3. \A m \in net' : m \in net \/ NewMessage(p, m)
  BY <1>1, PlainDraws DEF PlainPackets
<1> QED BY <1>2, <1>3, KeepDraws DEF DrawStep

LEMMA StartDraws ==
  ASSUME DrawInv, NEW p \in Peers,
         StartCheck(p) \/ Start(p) \/ Close(p) \/ SendRtp(p) \/ TimerPop(p)
  PROVE  DrawStep(p)
<1> USE DEF DrawInv, KeyInv, VersionInv, TypeInv, TypeOK
<1>1. CASE StartCheck(p) \/ TimerPop(p)
  <2>1. KeptDraws(p) /\ net' = net
    BY <1>1 DEF StartCheck, TimerPop, KeptDraws
  <2> QED BY <2>1, KeepDraws DEF DrawStep
<1>2. CASE StartInitial(p)
  <2>1. state'[p] = "Detect" /\ neg'[p] = neg[p] /\ drawn' = drawn /\ Send(p, {"Hello"}, neg[p])
    BY <1>2 DEF StartInitial, Goto
  <2>2. KeptDraws(p)
    BY <2>1 DEF KeptDraws, UnsentStates, FreshStates, HeldStates
  <2> QED BY <2>1, <2>2, KeepDraws, PlainDraws DEF DrawStep, PlainPackets
<1>3. CASE StartDetect(p)
  <2>1. KeptDraws(p) /\ Send(p, {sent[p]}, neg[p])
    BY <1>3 DEF StartDetect, KeptDraws
  <2> QED BY <2>1, ResendDraws
<1>4. CASE StartElsewhere(p)
  <2>1. KeptDraws(p) /\ net' = net
    BY <1>4, GiveUpDraws DEF StartElsewhere
  <2> QED BY <2>1, KeepDraws DEF DrawStep
<1>5. CASE Close(p)
  <2>1. /\ state'[p] = "Initial" /\ net' = net /\ drawn' = drawn
        /\ neg'[p].setup = neg[p].setup /\ neg'[p].dh = 0
    BY <1>5 DEF Close, Goto, NewNeg
  <2>2. ~neg[p].setup.multi
    BY DEF EndDraws
  <2>3. NewDraws(p)
    BY <2>1, <2>2 DEF NewDraws, UnsentStates, FreshStates, HeldStates
  <2> QED BY <2>1, <2>3 DEF DrawStep
<1>6. CASE SendRtp(p)
  <2> DEFINE x == [type |-> "Srtp", from |-> p, key |-> srtp[p].send]
  <2>1. UNCHANGED <<neg, state, drawn>> /\ srtp[p].send # NoKey /\ net' = net \cup {x}
    BY <1>6 DEF SendRtp, KeepData
  <2>2. srtp' = srtp
    BY <1>6 DEF SendRtp, KeepData
  <2>3. NewMessage(p, x)
    BY <2>1, <2>2 DEF NewMessage, Confirms
  <2>4. KeptDraws(p)
    BY <2>1 DEF KeptDraws
  <2> QED BY <2>1, <2>3, <2>4, KeepDraws DEF DrawStep
<1> QED BY <1>1, <1>2, <1>3, <1>4, <1>5, <1>6 DEF Start

\* A new draw is no value of an earlier one.
LEMMA CommittedDraws ==
  ASSUME DrawInv, NEW p \in Peers, NEW r \in Draws \ drawn, NEW n,
         neg'[p] = n, drawn' = drawn \cup {r},
         n.setup = neg[p].setup, n.dh = r, state'[p] \notin HeldStates
  PROVE  NewDraws(p)
<1>1. ~neg[p].setup.multi /\ neg[p].dh \in drawn \cup {0}
  BY DEF DrawInv, EndDraws
<1>2. r # 0 /\ r # neg[p].dh
  BY <1>1, DrawsAssumption
<1> QED BY <1>1, <1>2 DEF NewDraws, HeldStates

LEMMA DiscoveryDraws ==
  ASSUME DrawInv, NEW p \in Peers, NEW m \in net, Discovery(p, m)
  PROVE  DrawStep(p)
<1> USE DEF DrawInv, KeyInv, VersionInv, TypeInv, TypeOK
<1>0. neg[p] \in NegRecords
  BY LocalTypes
<1>1. CASE DetectHelloAck(p, m) \/ DetectHelloNewer(p, m)
  <2>1. /\ neg'[p] = neg[p] /\ net' = net /\ drawn' = drawn
        /\ state'[p] = state[p] \/ state'[p] = "AckDetected"
    BY <1>1 DEF DetectHelloAck, DetectHelloNewer, Goto, KeepData
  <2>2. KeptDraws(p)
    BY <2>1 DEF KeptDraws, UnsentStates, FreshStates, HeldStates
  <2> QED BY <2>1, <2>2, KeepDraws DEF DrawStep
<1>2. CASE DetectHelloOlder(p, m)
  <2> DEFINE n == [neg[p] EXCEPT !.ver = m.ver]
  <2>1. neg' = [neg EXCEPT ![p] = n] /\ Send(p, {"Hello"}, n) /\ drawn' = drawn
    BY <1>2 DEF DetectHelloOlder
  <2>2. state'[p] = "Detect"
    BY <1>2 DEF DetectHelloOlder, Goto
  <2>3. /\ n.setup = neg[p].setup /\ n.dh = neg[p].dh
        /\ n.key = neg[p].key /\ n.role = neg[p].role
    BY <1>0, NegDraws
  <2> HIDE DEF n
  <2>4. KeptDraws(p)
    BY <2>1, <2>2, <2>3 DEF KeptDraws, UnsentStates, FreshStates, HeldStates
  <2> QED BY <2>1, <2>4, KeepDraws, PlainDraws DEF DrawStep, PlainPackets
<1>3. CASE DetectHelloUnsupported(p, m)
  BY <1>3, SendErrorDraws DEF SendErrorPacket, DetectHelloUnsupported
<1>4. CASE DetectHello(p, m)
  <2>1. PICK r \in Draws \ drawn :
          /\ neg' = [neg EXCEPT ![p] = [Committed(neg[p], m, r) EXCEPT !.commitPkt = TRUE]]
          /\ drawn' = drawn \cup {r}
    BY <1>4, Zenon DEF DetectHello
  <2> DEFINE n == [Committed(neg[p], m, r) EXCEPT !.commitPkt = TRUE]
  <2>2. n.setup = neg[p].setup /\ n.dh = r
    BY <1>0, NegDraws DEF Committed
  <2> HIDE DEF n
  <2>3. neg'[p] = n /\ drawn' = drawn \cup {r}
    BY <2>1 DEF n
  <2>4. state'[p] = "AckSent" /\ Send(p, {"HelloAck"}, neg[p])
    BY <1>4 DEF DetectHello
  <2>5. NewDraws(p)
    BY <2>2, <2>3, <2>4, CommittedDraws DEF HeldStates
  <2> QED BY <2>4, <2>5, PlainDraws DEF DrawStep, PlainPackets
<1>5. CASE AckDetectedHello(p, m)
  <2>1. PICK r \in Draws \ drawn :
          /\ neg' = [neg EXCEPT ![p] = Committed(neg[p], m, r)]
          /\ drawn' = drawn \cup {r}
    BY <1>5, Zenon DEF AckDetectedHello
  <2> DEFINE n == Committed(neg[p], m, r)
  <2>2. n.setup = neg[p].setup /\ n.dh = r
    BY <1>0, NegDraws DEF Committed
  <2> HIDE DEF n
  <2>3. neg'[p] = n /\ drawn' = drawn \cup {r}
    BY <2>1 DEF n
  <2>4. state'[p] = "WaitCommit" /\ Send(p, {"HelloAck"}, neg[p])
    BY <1>5 DEF AckDetectedHello, Goto
  <2>5. NewDraws(p)
    BY <2>2, <2>3, <2>4, CommittedDraws DEF HeldStates
  <2> QED BY <2>4, <2>5, PlainDraws DEF DrawStep, PlainPackets
<1>6. CASE WaitCommitHello(p, m)
  <2>1. KeptDraws(p) /\ Send(p, {sent[p]}, neg[p])
    BY <1>6 DEF WaitCommitHello, KeepData, KeptDraws
  <2> QED BY <2>1, ResendDraws
<1>7. CASE AckSentHello(p, m)
  <2>1. KeptDraws(p) /\ Send(p, {"HelloAck"}, neg[p])
    BY <1>7 DEF AckSentHello, KeepData, KeptDraws
  <2> QED BY <2>1, KeepDraws, PlainDraws DEF DrawStep, PlainPackets
<1>8. CASE AckSentHelloAck(p, m)
  <2> DEFINE n == [neg[p] EXCEPT !.commitPkt = FALSE]
  <2>1. /\ neg' = [neg EXCEPT ![p] = n] /\ Send(p, {"Commit"}, n) /\ drawn' = drawn
        /\ state[p] = "AckSent"
    BY <1>8 DEF AckSentHelloAck
  <2>2. /\ n.setup = neg[p].setup /\ n.dh = neg[p].dh
        /\ n.key = neg[p].key /\ n.role = neg[p].role
    BY <1>0, NegDraws
  <2> HIDE DEF n
  <2>3. state'[p] = "CommitSent" /\ neg'[p] = n
    BY <1>8, <2>1 DEF AckSentHelloAck, Goto
  <2>4. EndDraws(p)
    OBVIOUS
  <2>5. NewDraws(p)
    BY <2>1, <2>2, <2>3, <2>4
    DEF NewDraws, EndDraws, UnsentStates, FreshStates, HeldStates
  <2> QED BY <2>1, <2>5, PlainDraws DEF DrawStep, PlainPackets
<1> QED BY <1>1, <1>2, <1>3, <1>4, <1>5, <1>6, <1>7, <1>8 DEF Discovery

LEMMA BecomeResponderDraws ==
  ASSUME DrawInv, NEW p \in Peers, NEW m, BecomeResponder(p, m), state[p] \in FreshStates
  PROVE  DrawStep(p)
<1> USE DEF DrawInv, KeyInv, VersionInv, TypeInv, TypeOK
<1>0. neg[p] \in NegRecords /\ EndDraws(p) /\ ~Multi(p)
  BY LocalTypes DEF EndDraws, Multi
<1> DEFINE n == ResponderNeg(p, m)
<1>1. /\ neg' = [neg EXCEPT ![p] = n] /\ Send(p, {"DHPart1"}, n) /\ drawn' = drawn
  BY <1>0 DEF BecomeResponder
<1>2. state'[p] = "WaitDHPart2"
  BY <1>0 DEF BecomeResponder, Goto
<1>3. n.setup = neg[p].setup /\ n.dh = neg[p].dh /\ n.role = "Responder"
  BY <1>0, NegDraws DEF ResponderNeg
<1> HIDE DEF n
<1>4. neg'[p] = n
  BY <1>1
<1>5. NewDraws(p)
  BY <1>0, <1>1, <1>2, <1>3, <1>4
  DEF NewDraws, EndDraws, UnsentStates, FreshStates, HeldStates
<1>6. n.dh \in drawn' /\ "DHPart1" \notin Confirms
  BY <1>0, <1>1, <1>3 DEF EndDraws, UnsentStates, Confirms
<1>7. \A x \in net' : x \in net \/ NewMessage(p, x)
  BY <1>1, <1>6, SendDraws
<1> QED BY <1>5, <1>7 DEF DrawStep

LEMMA AgreementDraws ==
  ASSUME DrawInv, NEW p \in Peers, NEW m \in net, Agreement(p, m)
  PROVE  DrawStep(p)
<1> USE DEF DrawInv, KeyInv, VersionInv, TypeInv, TypeOK
<1>0. neg[p] \in NegRecords /\ EndDraws(p) /\ ~Multi(p) /\ MessageDraws(m)
  BY LocalTypes DEF EndDraws, Multi
<1>1. CASE AckSentCommit(p, m) \/ WaitCommitCommit(p, m) \/ CommitClashLost(p, m)
  BY <1>1, BecomeResponderDraws
     DEF AckSentCommit, WaitCommitCommit, CommitClashLost, FreshStates
<1>2. CASE AckSentCommitIgnored(p, m) \/ CommitClashWon(p, m)
  <2>1. KeptDraws(p) /\ net' = net
    BY <1>2 DEF AckSentCommitIgnored, CommitClashWon, KeepData, KeptDraws
  <2> QED BY <2>1, KeepDraws DEF DrawStep
<1>3. CASE WaitDHPart2Commit(p, m)
  <2>1. KeptDraws(p) /\ Send(p, {sent[p]}, neg[p])
    BY <1>3 DEF WaitDHPart2Commit, KeepData, KeptDraws
  <2> QED BY <2>1, ResendDraws
<1>4. CASE CommitSentDHPart1Ignored(p, m)
  <2>1. /\ neg' = neg /\ drawn' = drawn /\ net' = net /\ state'[p] = state[p]
    BY <1>4 DEF CommitSentDHPart1Ignored, KeepData, Goto
  <2>2. KeptDraws(p)
    BY <2>1 DEF KeptDraws
  <2> QED BY <2>1, <2>2, KeepDraws DEF DrawStep
<1>5. CASE CommitSentDHPart1(p, m)
  <2> DEFINE k == [hello |-> neg[p].peerHello, ini |-> neg[p].dh, resp |-> m.dh]
             n == [neg[p] EXCEPT !.role = "Initiator", !.key = k]
  <2>1. /\ neg' = [neg EXCEPT ![p] = n] /\ Send(p, {"DHPart2"}, n) /\ drawn' = drawn
        /\ state[p] = "CommitSent" /\ m.type = "DHPart1"
    BY <1>5 DEF CommitSentDHPart1
  <2>2. state'[p] = "WaitConfirm1"
    BY <1>5 DEF CommitSentDHPart1, Goto
  <2>3. k.ini = neg[p].dh /\ k.resp = m.dh
    OBVIOUS
  <2> HIDE DEF k
  <2>4. n.setup = neg[p].setup /\ n.dh = neg[p].dh /\ n.role = "Initiator" /\ n.key = k
    BY <1>0, NegDraws
  <2> HIDE DEF n
  <2>5. neg'[p] = n /\ neg[p].dh \in drawn /\ m.dh \in drawn
    BY <1>0, <2>1 DEF EndDraws, MessageDraws, UnsentStates, FreshStates
  <2>6. HeldKey(n, drawn)
    BY <2>3, <2>4, <2>5 DEF HeldKey
  <2>7. NewDraws(p)
    BY <1>0, <2>1, <2>2, <2>4, <2>5, <2>6
    DEF NewDraws, EndDraws, UnsentStates, FreshStates
  <2>8. n.dh \in drawn' /\ "DHPart2" \notin Confirms
    BY <2>1, <2>4, <2>5 DEF Confirms
  <2>9. \A x \in net' : x \in net \/ NewMessage(p, x)
    BY <2>1, <2>8, SendDraws
  <2> QED BY <2>7, <2>9 DEF DrawStep
<1>6. ~CommitSentConfirm1(p, m)
  BY <1>0 DEF CommitSentConfirm1
<1>7. CASE WaitDHPart2DHPart2(p, m)
  <2> DEFINE k == [hello |-> OwnHello(p), ini |-> m.dh, resp |-> neg[p].dh]
             n == [neg[p] EXCEPT !.key = k]
             good == neg[p].peerHvi = [dh |-> m.dh, hello |-> OwnHello(p)]
  <2>1. CASE good
    <3>1. /\ neg' = [neg EXCEPT ![p] = n] /\ Send(p, {"Confirm1"}, n) /\ drawn' = drawn
          /\ state[p] = "WaitDHPart2" /\ m.type = "DHPart2"
      BY <1>7, <2>1 DEF WaitDHPart2DHPart2
    <3>2. state'[p] = "WaitConfirm2"
      BY <1>7, <2>1 DEF WaitDHPart2DHPart2, Goto
    <3>3. k.ini = m.dh /\ k.resp = neg[p].dh
      OBVIOUS
    <3> HIDE DEF k
    <3>4. n.setup = neg[p].setup /\ n.dh = neg[p].dh /\ n.role = neg[p].role /\ n.key = k
      BY <1>0, NegDraws
    <3> HIDE DEF n
    <3>5. neg'[p] = n /\ neg[p].dh \in drawn /\ m.dh \in drawn /\ neg[p].role = "Responder"
      BY <1>0, <3>1 DEF EndDraws, MessageDraws, UnsentStates, FreshStates, KeyOf, RoleOf,
                        ResponderStates
    <3>6. HeldKey(n, drawn)
      BY <3>3, <3>4, <3>5 DEF HeldKey
    <3>7. NewDraws(p)
      BY <1>0, <3>1, <3>2, <3>4, <3>5, <3>6
      DEF NewDraws, EndDraws, UnsentStates, FreshStates
    <3>8. state'[p] \notin FreshStates /\ n.role = "Responder"
      BY <3>2, <3>4, <3>5 DEF FreshStates
    <3>9. \A x \in net' : x \in net \/ NewMessage(p, x)
      BY <3>1, <3>5, <3>6, <3>8, SendDraws
    <3> QED BY <3>7, <3>9 DEF DrawStep
  <2>2. CASE ~good
    BY <1>7, <2>2, SendErrorDraws DEF SendErrorPacket, WaitDHPart2DHPart2
  <2> QED BY <2>1, <2>2
<1> QED BY <1>1, <1>2, <1>3, <1>4, <1>5, <1>6, <1>7 DEF Agreement

LEMMA ConfirmationDraws ==
  ASSUME DrawInv, NEW p \in Peers, NEW m \in net, Confirmation(p, m)
  PROVE  DrawStep(p)
<1> USE DEF DrawInv, KeyInv, VersionInv, TypeInv, TypeOK
<1>0. EndDraws(p) /\ KeyOf(p)
  OBVIOUS
<1>1. CASE WaitConfirm2Repeat(p, m) \/ SecureConfirm2(p, m)
  <2>1. KeptDraws(p) /\ Send(p, {sent[p]}, neg[p])
    BY <1>1 DEF WaitConfirm2Repeat, SecureConfirm2, KeepData, KeptDraws
  <2> QED BY <2>1, ResendDraws
\* From one state with the key to the next.
<1>2. ASSUME state[p] \in HeldStates \ {"WaitConfirm1"}, state'[p] \in {"WaitConfAck", "SecureState"},
             neg'[p] = neg[p], drawn' = drawn, state'[p] = "WaitConfAck" => state[p] \in UnsentStates
      PROVE  NewDraws(p)
  BY <1>0, <1>2 DEF NewDraws, EndDraws, HeldStates, UnsentStates, FreshStates
<1>3. CASE WaitConfirm2Confirm2(p, m)
  <2>1. CASE m.key = neg[p].key
    <3>1. /\ state[p] = "WaitConfirm2" /\ neg' = neg /\ drawn' = drawn
          /\ Send(p, {"Conf2Ack"}, neg[p])
      BY <1>3, <2>1 DEF WaitConfirm2Confirm2
    <3>2. state'[p] = "SecureState"
      BY <1>3, <2>1 DEF WaitConfirm2Confirm2, Goto
    <3>3. NewDraws(p)
      BY <1>2, <3>1, <3>2 DEF HeldStates
    <3> QED BY <3>1, <3>3, PlainDraws DEF DrawStep, PlainPackets
  <2>2. CASE m.key # neg[p].key
    BY <1>3, <2>2, SendErrorDraws DEF SendErrorPacket, WaitConfirm2Confirm2
  <2> QED BY <2>1, <2>2
<1>4. CASE WaitConfirm1Confirm1(p, m)
  <2>1. CASE m.key = neg[p].key
    <3>1. /\ state[p] = "WaitConfirm1" /\ neg' = neg /\ drawn' = drawn
          /\ Send(p, {"Confirm2"}, neg[p])
      BY <1>4, <2>1 DEF WaitConfirm1Confirm1
    <3>2. state'[p] = "WaitConfAck"
      BY <1>4, <2>1 DEF WaitConfirm1Confirm1, Goto
    <3>3. HeldKey(neg[p], drawn) /\ neg[p].role = "Initiator"
      BY <1>0, <3>1 DEF EndDraws, HeldStates, KeyOf, RoleOf, InitiatorStates
    <3>4. NewDraws(p)
      BY <1>0, <3>1, <3>2, <3>3 DEF NewDraws, EndDraws, UnsentStates, FreshStates
    <3>5. state'[p] \notin FreshStates
      BY <3>2 DEF FreshStates
    <3>6. \A x \in net' : x \in net \/ NewMessage(p, x)
      BY <3>1, <3>3, <3>5, SendDraws
    <3> QED BY <3>4, <3>6 DEF DrawStep
  <2>2. CASE m.key # neg[p].key
    BY <1>4, <2>2, SendErrorDraws DEF SendErrorPacket, WaitConfirm1Confirm1
  <2> QED BY <2>1, <2>2
<1>5. CASE WaitConfAckDone(p, m)
  <2>1. state[p] = "WaitConfAck" /\ neg' = neg /\ net' = net /\ drawn' = drawn
    BY <1>5 DEF WaitConfAckDone
  <2>2. state'[p] = "SecureState"
    BY <1>5 DEF WaitConfAckDone, Goto
  <2> QED BY <1>2, <2>1, <2>2 DEF DrawStep, HeldStates
<1>6. CASE ErrorPkt(p, m)
  <2>1. KeptDraws(p)
    <3>1. drawn' = drawn
      BY <1>6 DEF ErrorPkt
    <3>2. GiveUp(p) \/ UNCHANGED <<state, neg>>
      BY <1>6 DEF ErrorPkt
    <3> QED BY <3>1, <3>2, GiveUpDraws DEF KeptDraws
  <2>2. Send(p, {"ErrorAck"}, neg[p])
    BY <1>6 DEF ErrorPkt
  <2> QED BY <2>1, <2>2, KeepDraws, PlainDraws DEF DrawStep, PlainPackets
<1>7. CASE WaitErrorAckDone(p, m)
  <2>1. neg' = neg /\ net' = net /\ drawn' = drawn /\ state'[p] = "Initial"
    BY <1>7 DEF WaitErrorAckDone, KeepData, Goto
  <2>2. KeptDraws(p)
    BY <2>1 DEF KeptDraws, UnsentStates, FreshStates, HeldStates
  <2> QED BY <2>1, <2>2, KeepDraws DEF DrawStep
<1> QED BY <1>1, <1>3, <1>4, <1>5, <1>6, <1>7 DEF Confirmation

LEMMA TimerDraws ==
  ASSUME DrawInv, NEW p \in Peers, TimerStep(p)
  PROVE  DrawStep(p)
<1> USE DEF DrawInv, KeyInv, VersionInv, TypeInv, TypeOK
<1>1. CASE TimerHello(p)
  <2> DEFINE t == Delivered(timer[p])
             gone == Exhausted(t, t.maxT1)
             b == neg[p].commitPkt /\ ~gone
  <2>1. /\ Send(p, {sent[p]}, neg[p]) /\ drawn' = drawn
        /\ state' = [state EXCEPT ![p] = IF gone THEN "Detect" ELSE @]
        /\ neg' = [neg EXCEPT ![p] = [neg[p] EXCEPT !.commitPkt = b]]
    BY <1>1, Zenon DEF TimerHello
  <2>2. state'[p] = state[p] \/ state'[p] = "Detect"
    BY <2>1
  <2> HIDE DEF b
  <2>3. neg[p] \in NegRecords /\ neg'[p] = [neg[p] EXCEPT !.commitPkt = b]
    BY <2>1
  <2>4. KeptDraws(p)
    BY <2>1, <2>2, <2>3, NegDraws DEF KeptDraws, UnsentStates, FreshStates, HeldStates
  <2> QED BY <2>1, <2>4, ResendDraws
<1>2. CASE TimerResend(p)
  <2>1. KeptDraws(p) /\ Send(p, {sent[p]}, neg[p])
    BY <1>2 DEF TimerResend, KeptDraws
  <2> QED BY <2>1, ResendDraws
<1>3. CASE TimerIgnored(p)
  <2>1. KeptDraws(p) /\ net' = net
    BY <1>3 DEF TimerIgnored, KeptDraws
  <2> QED BY <2>1, KeepDraws DEF DrawStep
<1>4. CASE TimerFailed(p) \/ TimerUnexpected(p)
  <2>1. /\ GiveUp(p) /\ drawn' = drawn
        /\ net' = net \/ Send(p, {sent[p]}, neg[p])
    BY <1>4 DEF TimerFailed, TimerUnexpected
  <2>2. KeptDraws(p)
    BY <2>1, GiveUpDraws
  <2> QED BY <2>1, <2>2, KeepDraws, ResendDraws DEF DrawStep
<1> QED BY <1>1, <1>2, <1>3, <1>4 DEF TimerStep

LEMMA StepSender ==
  ASSUME TypeInv, NEW p \in Peers, Step(p)
  PROVE  SenderStep(p)
<1> USE DEF TypeInv, TypeOK, SenderStep
<1>1. CASE srtp' = srtp \/ ReceiverOff(p) \/ BothOff(p)
  <2>1. [srtp[p] EXCEPT !.recv = NoKey].send = srtp[p].send
    OBVIOUS
  <2> QED BY <1>1, <2>1 DEF ReceiverOff, BothOff
<1>2. ASSUME NEW k, srtp' = [srtp EXCEPT ![p] = [srtp[p] EXCEPT !.recv = k]]
      PROVE  SenderStep(p)
  BY <1>2
<1>3. CASE GiveUp(p)
  BY <1>1, <1>3 DEF GiveUp
<1>4. CASE StartCheck(p) \/ SendRtp(p) \/ TimerPop(p) \/ Malformed(p)
  BY <1>1, <1>4 DEF StartCheck, SendRtp, KeepData, TimerPop, Malformed, ErrorSent
<1>5. CASE Start(p) \/ Close(p)
  BY <1>1, <1>3, <1>5 DEF Start, StartInitial, StartDetect, StartElsewhere, Close
<1>6. CASE TimerStep(p)
  BY <1>1, <1>3, <1>6
  DEF TimerStep, TimerHello, TimerResend, TimerFailed, TimerUnexpected, TimerIgnored
<1>7. ASSUME NEW m \in net, Discovery(p, m)
      PROVE  SenderStep(p)
  BY <1>1, <1>7
  DEF Discovery, DetectHelloAck, DetectHelloNewer, DetectHelloOlder,
      DetectHelloUnsupported, DetectHello, AckDetectedHello, WaitCommitHello,
      AckSentHelloAck, AckSentHello, KeepData, SendErrorPacket, ErrorSent
<1>8. ASSUME NEW m \in net, Agreement(p, m)
      PROVE  SenderStep(p)
  <2>1. CASE CommitSentConfirm1(p, m)
    <3> DEFINE k == [hello |-> neg[p].peerHello, ini |-> neg[p].dh, resp |-> 0]
    <3>1. CASE m.key = k
      <4>1. srtp' = [srtp EXCEPT ![p] = [srtp[p] EXCEPT !.recv = k]]
        BY <2>1, <3>1, Zenon DEF CommitSentConfirm1
      <4> QED BY <4>1, <1>2
    <3>2. CASE m.key # k
      BY <1>1, <2>1, <3>2 DEF CommitSentConfirm1, SendErrorPacket, ErrorSent
    <3> QED BY <3>1, <3>2
  <2>2. CASE ~CommitSentConfirm1(p, m)
    BY <1>1, <1>8, <2>2
    DEF Agreement, AckSentCommit, AckSentCommitIgnored, WaitCommitCommit,
        CommitClashLost, CommitClashWon, CommitSentDHPart1, CommitSentDHPart1Ignored,
        WaitDHPart2Commit, WaitDHPart2DHPart2, BecomeResponder, KeepData,
        SendErrorPacket, ErrorSent
  <2> QED BY <2>1, <2>2
<1>9. ASSUME NEW m \in net, Confirmation(p, m)
      PROVE  SenderStep(p)
  <2>1. CASE WaitConfirm1Confirm1(p, m)
    <3>1. CASE m.key = neg[p].key
      <4>1. srtp' = [srtp EXCEPT ![p] = [srtp[p] EXCEPT !.recv = neg[p].key]]
        BY <2>1, <3>1, Zenon DEF WaitConfirm1Confirm1
      <4> QED BY <4>1, <1>2
    <3>2. CASE m.key # neg[p].key
      BY <1>1, <2>1, <3>2 DEF WaitConfirm1Confirm1, SendErrorPacket, ErrorSent
    <3> QED BY <3>1, <3>2
  <2>2. CASE WaitConfAckDone(p, m)
    BY <2>2 DEF WaitConfAckDone, Goto
  <2>3. CASE WaitConfirm2Confirm2(p, m)
    BY <1>1, <2>3 DEF WaitConfirm2Confirm2, Goto, SendErrorPacket, ErrorSent
  <2>4. CASE WaitConfirm2Repeat(p, m) \/ SecureConfirm2(p, m) \/ ErrorPkt(p, m)
             \/ WaitErrorAckDone(p, m)
    BY <1>1, <1>3, <2>4
    DEF WaitConfirm2Repeat, SecureConfirm2, ErrorPkt, WaitErrorAckDone, KeepData
  <2> QED BY <1>9, <2>1, <2>2, <2>3, <2>4 DEF Confirmation
<1> QED BY <1>4, <1>5, <1>6, <1>7, <1>8, <1>9 DEF Step, Deliver

LEMMA StepDraws ==
  ASSUME DrawInv, NEW p \in Peers, Step(p)
  PROVE  DrawStep(p)
<1>1. CASE Malformed(p)
  BY <1>1, SendErrorDraws DEF Malformed
<1> QED BY <1>1, StartDraws, TimerDraws, DiscoveryDraws, AgreementDraws,
           ConfirmationDraws DEF Step, Deliver

AllMulti == \A q \in Peers : neg[q].setup.multi

\* Both ends of a stream are in the same mode, one way or the other.
LEMMA ModeInit == Init => DrawInv \/ AllMulti
<1> SUFFICES ASSUME Init, ~AllMulti PROVE DrawInv
  OBVIOUS
<1>1. KeyInv
  BY InitKeyInv
<1>2. PICK c \in Setups : neg = [p \in Peers |-> NewNeg(c[p], 1)]
  BY DEF Init
<1>3. ASSUME NEW q \in Peers PROVE EndDraws(q)
  <2>1. ~c[q].multi
    BY <1>2, SetupsAssumption DEF AllMulti, NewNeg, Peers
  <2> QED BY <1>2, <2>1 DEF Init, NewNeg, EndDraws, UnsentStates, FreshStates, HeldStates
<1>4. net = {}
  BY DEF Init
<1> QED BY <1>1, <1>3, <1>4 DEF DrawInv, OneKey, Unsent, Sender, NotCrossed, Init

LEMMA DrawNext == DrawInv /\ [Next]_vars => DrawInv'
<1> SUFFICES ASSUME DrawInv, [Next]_vars PROVE DrawInv'
  OBVIOUS
<1>1. KeyInv /\ TypeInv /\ KeyInv'
  BY NextKeyInv DEF DrawInv, KeyInv, VersionInv
<1>2. CASE UNCHANGED vars
  <2>1. PICK p : p = Alice
    OBVIOUS
  <2>2. p \in Peers /\ Other(p) # p /\ Other(p) \in Peers
    BY <2>1, PeersAssumption DEF Peers, Other
  <2>3. KeptDraws(p) /\ net' = net
    BY <1>2 DEF vars, KeptDraws
  <2>4. DrawStep(p)
    BY <2>2, <2>3, KeepDraws DEF DrawStep
  <2>5. Frame(Other(p)) /\ SenderStep(p)
    BY <1>2 DEF vars, Frame, SenderStep
  <2> QED BY <1>1, <2>2, <2>4, <2>5, DrawFrame
<1>3. CASE Next
  <2>1. PICK p \in Peers : Step(p)
    BY <1>3 DEF Next, Step
  <2>2. DrawStep(p) /\ SenderStep(p)
    BY <1>1, <2>1, StepDraws, StepSender
  <2>3. Frame(Other(p))
    BY <1>1, <2>1, StepFrame, PeersAssumption DEF Other, Peers
  <2> QED BY <1>1, <2>2, <2>3, DrawFrame
<1> QED BY <1>2, <1>3

LEMMA ModeNext == VersionInv /\ AllMulti /\ [Next]_vars => AllMulti'
<1> SUFFICES ASSUME VersionInv, AllMulti, [Next]_vars PROVE AllMulti'
  OBVIOUS
<1>1. CASE UNCHANGED vars
  BY <1>1 DEF vars, AllMulti
<1>2. CASE Next
  <2>1. PICK p \in Peers : Step(p)
    BY <1>2 DEF Next, Step
  <2>2. neg'[p].setup = neg[p].setup
    BY <2>1, StepVersion DEF VersionStep, VersionIn
  <2>3. ASSUME NEW q \in Peers, q # p PROVE neg'[q] = neg[q]
    BY <2>1, <2>3, StepFrame DEF Frame, VersionInv
  <2> QED BY <2>2, <2>3 DEF AllMulti
<1> QED BY <1>1, <1>2

LEMMA ModeCorrect == Spec => [](DrawInv \/ AllMulti)
<1>1. Spec => []VersionInv
  BY VersionInit, VersionNext, PTL DEF Spec
<1> QED BY <1>1, ModeInit, ModeNext, DrawNext, PTL DEF Spec

LEMMA DrawCorrect == DiffieHellman => (Spec => []DrawInv)
<1> SUFFICES ASSUME DiffieHellman PROVE Spec => []DrawInv
  OBVIOUS
<1>1. Init => ~AllMulti
  <2> SUFFICES ASSUME Init PROVE ~neg[Alice].setup.multi
    BY DEF AllMulti, Peers
  <2>1. PICK c \in Setups : neg = [p \in Peers |-> NewNeg(c[p], 1)]
    BY DEF Init
  <2> QED BY <2>1 DEF DiffieHellman, NewNeg, Peers
<1> QED BY <1>1, ModeInit, DrawNext, PTL DEF Spec

\* The Confirm packet that let p switch SRTP on is one of the peer's draw in use,
\* or has outlived it.
LEMMA PeerConfirmed ==
  ASSUME DrawInv, NEW p \in Peers, state[p] = "SecureState"
  PROVE  \E m \in net :
           /\ m.from = Other(p) /\ m.type \in Confirms /\ m.key = neg[p].key
           /\ SenderRole(m) # neg[p].role /\ neg[p].role \in {"Initiator", "Responder"}
           /\ Theirs(m) = neg[p].dh
<1>1. KeyOf(p) /\ EndDraws(p)
  BY DEF DrawInv, KeyInv
<1>2. srtp[p].recv = neg[p].key
  BY <1>1 DEF KeyOf, SrtpOf, KeyedStates
<1>3. HeldKey(neg[p], drawn)
  BY <1>1 DEF EndDraws, HeldStates
<1>4. neg[p].key # NoKey
  <2>1. 0 \notin drawn
    BY DrawsAssumption DEF DrawInv, KeyInv, VersionInv, TypeInv, TypeOK
  <2> QED BY <1>3, <2>1 DEF HeldKey, NoKey
<1>5. PICK m \in net :
        /\ m.from = Other(p)
        /\ m.type \in {"Confirm1", "Confirm2"} /\ m.key = neg[p].key
        /\ (neg[p].role = "Initiator") = (m.type = "Confirm1")
  BY <1>1, <1>2, <1>4 DEF KeyOf, ConfirmedOf, KeyedStates
<1> QED BY <1>3, <1>5 DEF HeldKey, Confirms, SenderRole, Theirs

\* Whatever is delivered late or again, to this engine or the next: two secure
\* ends have the same key, one of them as Initiator and the other as Responder.
THEOREM SecureAgreementCorrect == DiffieHellman => (Spec => []SecureAgreement)
<1> SUFFICES ASSUME DiffieHellman PROVE Spec => []SecureAgreement
  OBVIOUS
<1>1. DrawInv => SecureAgreement
  <2> SUFFICES ASSUME DrawInv, \A p \in Peers : state[p] = "SecureState"
               PROVE  /\ neg[Alice].key = neg[Bob].key
                      /\ {neg[Alice].role, neg[Bob].role} = {"Initiator", "Responder"}
    BY DEF SecureAgreement
  <2>1. /\ Alice \in Peers /\ Bob \in Peers /\ Other(Alice) = Bob /\ Other(Bob) = Alice
    BY PeersAssumption DEF Other, Peers
  <2>2. PICK m \in net :
          /\ m.from = Bob /\ m.type \in Confirms /\ m.key = neg[Alice].key
          /\ SenderRole(m) # neg[Alice].role /\ neg[Alice].role \in {"Initiator", "Responder"}
          /\ Theirs(m) = neg[Alice].dh
    BY <2>1, PeerConfirmed
  <2>3. PICK k \in net :
          /\ k.from = Alice /\ k.type \in Confirms /\ k.key = neg[Bob].key
          /\ SenderRole(k) # neg[Bob].role /\ neg[Bob].role \in {"Initiator", "Responder"}
          /\ Theirs(k) = neg[Bob].dh
    BY <2>1, PeerConfirmed
  <2>4. CASE Own(m) = neg[Bob].dh
    <3>1. m.key = neg[Bob].key /\ neg[Bob].role = SenderRole(m)
      BY <2>1, <2>2, <2>4 DEF DrawInv, OneKey
    <3> QED BY <2>2, <2>3, <3>1
  <2>5. CASE Own(k) = neg[Alice].dh
    <3>1. k.key = neg[Alice].key /\ neg[Alice].role = SenderRole(k)
      BY <2>1, <2>3, <2>5 DEF DrawInv, OneKey
    <3> QED BY <2>2, <2>3, <3>1
  <2>6. CASE Own(m) # neg[Bob].dh /\ Own(k) # neg[Alice].dh
    <3>1. Outlived(m) /\ Outlived(k)
      BY <2>1, <2>2, <2>3, <2>6 DEF Outlived
    <3>2. m.from = k.from
      BY <3>1 DEF DrawInv, NotCrossed
    <3> QED BY <2>2, <2>3, <3>2, PeersAssumption
  <2> QED BY <2>4, <2>5, <2>6
<1> QED BY DrawCorrect, <1>1, PTL

\* No sender of a stream that has agreed on its key itself is switched on under a
\* key that it has encrypted with before, in whatever engine, however often the
\* negotiation was started, and whatever context an earlier one left behind.
THEOREM KeyNeverReusedCorrect == Spec => KeyNeverReused
<1> DEFINE A == \A p \in Peers :
                  state[p] # "SecureState" /\ state'[p] = "SecureState" /\ ~Multi(p) =>
                    [type |-> "Srtp", from |-> p, key |-> srtp'[p].send] \notin net
<1>1. DrawInv /\ [Next]_vars => [A]_vars
  <2> SUFFICES ASSUME DrawInv, Next, NEW q \in Peers,
                      state[q] # "SecureState", state'[q] = "SecureState",
                      NEW m \in net, m.from = q, m.type = "Srtp", m.key = srtp'[q].send
               PROVE  FALSE
    OBVIOUS
  <2>0. KeyInv'
    BY NextKeyInv DEF DrawInv
  <2>1. PICK p \in Peers : Step(p)
    BY DEF Next, Step
  <2>2. q = p /\ DrawStep(p)
    BY <2>1, StepFrame, StepDraws DEF Frame, DrawInv, KeyInv, VersionInv
  <2>3. m.key = neg'[q].key
    BY <2>0 DEF KeyInv, KeyOf, SrtpOf
  <2>4. neg'[q].dh \in {m.key.ini, m.key.resp}
    BY <2>2, <2>3 DEF DrawStep, NewDraws, HeldKey, HeldStates
  <2>5. neg'[q].dh = neg[q].dh
    BY <2>2, <2>4, NamedDraws
  <2>6. state[q] \notin UnsentStates
    BY <2>4, <2>5 DEF DrawInv, Unsent
  <2> QED BY <2>2, <2>6 DEF DrawStep, NewDraws
<1>2. AllMulti /\ [Next]_vars => [A]_vars
  BY DEF AllMulti, Multi
<1> QED BY ModeCorrect, <1>1, <1>2, PTL DEF Spec, KeyNeverReused

-----------------------------------------------------------------------------
(* One engine and one start at each end.  The negotiation then goes forward  *)
(* only: what an end has sent tells how far it is, and the Commits that were *)
(* exchanged who gave way.                                                   *)

OneStart == MaxChain = 1 /\ MaxStarts = 1

PreCommitStates == {"Detect", "AckDetected", "AckSent", "WaitCommit"}
EarlyStates == PreCommitStates \cup {"CommitSent"}

\* The start call has returned, and there will be no other.
StartDone(q) == user[q].left = 0 /\ user[q].calls = 0

Committing(q) == \E m \in net : m.from = q /\ m.type = "Commit"

\* An end that has got as far as a key sends under it.
Switched(s, n, k) == n.role # "NoRole" /\ s # "WaitDHPart2" /\ k = n.key

EndOnce(q) ==
  /\ neg[q].chain = 1
  /\ user[q].left + user[q].calls <= 1
  /\ state[q] # "Initial" \/ neg[q].role # "NoRole" \/ user[q].started => StartDone(q)
  /\ neg[q].role # "NoRole" => state[q] \notin EarlyStates
  /\ state[q] = "SecureState" => neg[q].role # "NoRole"
  /\ srtp[q].send # NoKey => Switched(state[q], neg[q], srtp[q].send)

\* The Initiator has met a Responder, who has met a Commit and given up its own.
RoleOnce(q) ==
  /\ neg[q].role = "Initiator" => neg[Other(q)].role = "Responder"
  /\ neg[q].role = "Responder" =>
       /\ Committing(Other(q))
       /\ Committing(q) => neg[q].dh < neg[Other(q)].dh

\* With Confirm1 the Initiator knows that the Responder has its key, and with the
\* answer to Confirm2 that it uses it.
KeyOnce(q) ==
  neg[q].role = "Initiator" =>
    /\ state[q] \in KeyedStates =>
         neg[Other(q)].key = neg[q].key /\ state[Other(q)] # "WaitDHPart2"
    /\ state[q] = "SecureState" => srtp[Other(q)].send = neg[Other(q)].key

\* What a packet m says of its sender: its state s, its negotiation data n and
\* the key k of the context it sends with.
MessageOnce(m, s, n, k) ==
  /\ m.type = "Commit" => s \notin PreCommitStates /\ m.hvi.dh = n.dh
  /\ m.type \in {"DHPart1", "Confirm1"} => n.role = "Responder"
  /\ m.type = "Confirm1" => m.key = n.key /\ s # "WaitDHPart2"
  /\ m.type \in {"Conf2Ack", "Srtp"} => Switched(s, n, k)

OnceInv ==
  /\ KeyInv
  /\ \A q \in Peers : EndOnce(q) /\ RoleOnce(q) /\ KeyOnce(q)
  /\ \A m \in net :
       /\ MessageOnce(m, state[m.from], neg[m.from], srtp[m.from].send)
       /\ m.type = "Commit" => StartDone(m.from)

-----------------------------------------------------------------------------
(* A step of p ...                                                           *)

ForwardOnce(p) ==
  /\ neg'[p].chain = 1
  /\ user'[p].left + user'[p].calls <= 1
  /\ StartDone(p) \/ state'[p] # "Initial" \/ user'[p].started => StartDone(p)'
  /\ StartDone(p) /\ state[p] \notin PreCommitStates =>
       state'[p] \notin PreCommitStates /\ neg'[p].dh = neg[p].dh
  /\ StartDone(p) /\ state[p] \notin EarlyStates =>
       /\ state'[p] \notin EarlyStates
       /\ state[p] # "WaitDHPart2" =>
            state'[p] # "WaitDHPart2" /\ neg'[p].key = neg[p].key
  /\ \/ srtp'[p].send = srtp[p].send
     \/ /\ srtp'[p].send = neg'[p].key /\ neg[p].role # "NoRole"
        /\ state[p] # "WaitDHPart2"
  /\ state'[p] = "SecureState" => neg'[p].role # "NoRole"

\* ... in which it may take on a role, ...
RoleStep(p) ==
  \/ neg'[p].role = neg[p].role
  \/ /\ state[p] \in EarlyStates /\ state'[p] \notin EarlyStates
     /\ \/ neg'[p].role = "Initiator" /\ neg[Other(p)].role = "Responder"
        \/ /\ neg'[p].role = "Responder" /\ Committing(Other(p))
           /\ Committing(p)' => neg'[p].dh < neg[Other(p)].dh

KeyStep(p) ==
  neg'[p].role = "Initiator" =>
    /\ state'[p] \in KeyedStates =>
         neg[Other(p)].key = neg'[p].key /\ state[Other(p)] # "WaitDHPart2"
    /\ state'[p] = "SecureState" => srtp[Other(p)].send = neg[Other(p)].key

\* ... and send a packet m.
NewOnce(p, m) ==
  /\ m.from = p
  /\ MessageOnce(m, state'[p], neg'[p], srtp'[p].send)
  /\ m.type = "Commit" => StartDone(p)' /\ neg'[p].role # "Responder"

MoveOnce(p) == ForwardOnce(p) /\ RoleStep(p) /\ KeyStep(p)

OnceStep(p) == MoveOnce(p) /\ \A m \in net' : m \in net \/ NewOnce(p, m)

\* An end that sends under its key goes on doing so.
LEMMA SwitchedStays ==
  ASSUME NEW p \in Peers, EndOnce(p), ForwardOnce(p), RoleStep(p),
         Switched(state[p], neg[p], srtp[p].send)
  PROVE  Switched(state'[p], neg'[p], srtp'[p].send)
<1>1. StartDone(p) /\ state[p] \notin EarlyStates
  BY DEF EndOnce, Switched
<1>2. neg'[p].role = neg[p].role
  BY <1>1 DEF RoleStep
<1> QED BY <1>1, <1>2 DEF ForwardOnce, Switched

\* What the packets that p has sent before say of it stays true.
LEMMA SaidOnce ==
  ASSUME OnceInv, NEW p \in Peers, OnceStep(p), NEW m \in net, m.from = p
  PROVE  /\ MessageOnce(m, state'[p], neg'[p], srtp'[p].send)
         /\ m.type = "Commit" => StartDone(p)'
<1>1. /\ MessageOnce(m, state[p], neg[p], srtp[p].send)
      /\ m.type = "Commit" => StartDone(p)
      /\ EndOnce(p)
  BY DEF OnceInv
<1>2. ForwardOnce(p) /\ RoleStep(p)
  BY DEF OnceStep, MoveOnce
<1>3. CASE m.type = "Commit"
  BY <1>1, <1>2, <1>3 DEF MessageOnce, ForwardOnce
<1>4. CASE m.type \in {"DHPart1", "Confirm1"}
  <2>1. neg[p].role = "Responder" /\ StartDone(p) /\ state[p] \notin EarlyStates
    BY <1>1, <1>4 DEF MessageOnce, EndOnce
  <2>2. neg'[p].role = "Responder"
    BY <1>2, <2>1 DEF RoleStep
  <2> QED BY <1>1, <1>2, <1>4, <2>1, <2>2 DEF MessageOnce, ForwardOnce
<1>5. CASE m.type \in {"Conf2Ack", "Srtp"}
  BY <1>1, <1>2, <1>5, SwitchedStays DEF MessageOnce
<1>6. CASE m.type \notin {"Commit", "DHPart1", "Confirm1", "Conf2Ack", "Srtp"}
  BY <1>6 DEF MessageOnce
<1> QED BY <1>3, <1>4, <1>5, <1>6

LEMMA OnceFrame ==
  ASSUME OnceInv, KeyInv', NEW p \in Peers, OnceStep(p), Frame(Other(p))
  PROVE  OnceInv'
<1> DEFINE q == Other(p)
<1>0. /\ q \in Peers /\ q # p /\ Other(q) = p /\ q = Other(p)
      /\ \A o \in Peers : o = p \/ o = q
  BY PeersAssumption DEF Other, Peers
<1>1. /\ state'[q] = state[q] /\ neg'[q] = neg[q] /\ user'[q] = user[q] /\ net \subseteq net'
      /\ srtp'[q] = srtp[q]
  BY DEF Frame
<1> HIDE DEF q
<1>2. /\ EndOnce(p) /\ RoleOnce(p) /\ KeyOnce(p) /\ EndOnce(q) /\ RoleOnce(q) /\ KeyOnce(q)
  BY <1>0 DEF OnceInv
<1>3. ForwardOnce(p) /\ RoleStep(p) /\ KeyStep(p)
  BY DEF OnceStep, MoveOnce
<1>4. /\ Committing(q)' <=> Committing(q)
      /\ Committing(p) => Committing(p)'
      /\ neg'[p].role = "Responder" /\ Committing(p)' => Committing(p)
  BY <1>0, <1>1 DEF OnceStep, NewOnce, Committing
<1>5. EndOnce(p)' /\ EndOnce(q)'
  <2>1. neg'[p].role # "NoRole" => StartDone(p)' /\ state'[p] \notin EarlyStates
    <3>1. CASE neg'[p].role = neg[p].role
      BY <1>2, <1>3, <3>1 DEF EndOnce, ForwardOnce
    <3>2. CASE neg'[p].role # neg[p].role
      <4>1. state[p] \in EarlyStates /\ state'[p] \notin EarlyStates
        BY <1>3, <3>2 DEF RoleStep
      <4>2. StartDone(p)
        BY <1>2, <4>1 DEF EndOnce, EarlyStates, PreCommitStates
      <4> QED BY <1>3, <4>1, <4>2 DEF ForwardOnce
    <3> QED BY <3>1, <3>2
  <2>2. srtp'[p].send # NoKey => Switched(state'[p], neg'[p], srtp'[p].send)
    <3>1. CASE srtp'[p].send = srtp[p].send
      BY <1>2, <1>3, <3>1, SwitchedStays DEF EndOnce
    <3>2. CASE /\ srtp'[p].send = neg'[p].key /\ neg[p].role # "NoRole"
               /\ state[p] # "WaitDHPart2"
      <4>1. StartDone(p) /\ state[p] \notin EarlyStates
        BY <1>2, <3>2 DEF EndOnce
      <4> QED BY <1>3, <3>2, <4>1 DEF RoleStep, ForwardOnce, Switched
    <3> QED BY <1>3, <3>1, <3>2 DEF ForwardOnce
  <2>3. EndOnce(p)'
    BY <1>3, <2>1, <2>2 DEF EndOnce, ForwardOnce
  <2> QED BY <1>1, <1>2, <2>3 DEF EndOnce, StartDone
\* Whoever has a role, or has sent a Commit, goes forward.
<1>6. neg[p].role # "NoRole" => StartDone(p) /\ state[p] \notin EarlyStates
  BY <1>2 DEF EndOnce
<1>7. neg[p].role # "NoRole" => neg'[p].role = neg[p].role
  BY <1>3, <1>6 DEF RoleStep
<1>8. Committing(p) => neg'[p].dh = neg[p].dh
  <2> SUFFICES ASSUME NEW m \in net, m.from = p, m.type = "Commit"
               PROVE  neg'[p].dh = neg[p].dh
    BY DEF Committing
  <2> QED BY <1>3 DEF OnceInv, MessageOnce, ForwardOnce
<1>9. RoleOnce(q)'
  BY <1>0, <1>1, <1>2, <1>4, <1>7, <1>8 DEF RoleOnce
<1>10. RoleOnce(p)'
  <2>1. CASE neg'[p].role = neg[p].role
    <3>1. Committing(p) => neg'[p].dh = neg[p].dh
      BY <1>8
    <3> QED BY <1>0, <1>1, <1>2, <1>4, <2>1, <3>1 DEF RoleOnce
  <2>2. CASE neg'[p].role # neg[p].role
    BY <1>0, <1>1, <1>3, <1>4, <2>2 DEF RoleOnce, RoleStep
  <2> QED BY <2>1, <2>2
<1>11. KeyOnce(p)'
  BY <1>0, <1>1, <1>3 DEF KeyOnce, KeyStep
<1>12. KeyOnce(q)'
  <2> SUFFICES ASSUME neg[q].role = "Initiator"
               PROVE  /\ state[q] \in KeyedStates =>
                           neg'[p].key = neg[q].key /\ state'[p] # "WaitDHPart2"
                      /\ state[q] = "SecureState" => srtp'[p].send = neg'[p].key
    BY <1>0, <1>1 DEF KeyOnce
  <2>1. neg[p].role = "Responder"
    BY <1>0, <1>2 DEF RoleOnce
  <2>2. CASE state[q] \in KeyedStates
    BY <1>0, <1>2, <1>3, <1>6, <2>1, <2>2 DEF KeyOnce, ForwardOnce
  <2> QED BY <2>2 DEF KeyedStates
<1>13. ASSUME NEW m \in net'
       PROVE  /\ MessageOnce(m, state[m.from], neg[m.from], srtp[m.from].send)'
              /\ m.type = "Commit" => StartDone(m.from)'
  <2>1. CASE m \in net /\ m.from = p
    BY <2>1, SaidOnce DEF MessageOnce, StartDone
  <2>2. CASE NewOnce(p, m)
    BY <2>2 DEF NewOnce, MessageOnce, StartDone
  <2>3. CASE m \in net /\ m.from # p
    <3>1. m.from \in Peers
      BY <2>3 DEF OnceInv, KeyInv, VersionInv, TypeInv, TypeOK, Messages
    <3>2. m.from = q
      BY <1>0, <2>3, <3>1
    <3> QED BY <1>1, <2>3, <3>2 DEF OnceInv, MessageOnce, StartDone
  <2> QED BY <2>1, <2>2, <2>3 DEF OnceStep
<1> QED BY <1>0, <1>5, <1>9, <1>10, <1>11, <1>12, <1>13 DEF OnceInv

LEMMA SendOnce ==
  ASSUME NEW p \in Peers, NEW k, NEW n, Send(p, {k}, n), k # "Srtp",
         k = "Commit" =>
           /\ StartDone(p)' /\ state'[p] \notin PreCommitStates
           /\ n.dh = neg'[p].dh /\ neg'[p].role # "Responder",
         k \in {"DHPart1", "Confirm1"} => neg'[p].role = "Responder",
         k = "Confirm1" => n.key = neg'[p].key /\ state'[p] # "WaitDHPart2",
         k = "Conf2Ack" => Switched(state'[p], neg'[p], srtp'[p].send)
  PROVE  \A m \in net' : m \in net \/ NewOnce(p, m)
<1> SUFFICES NewOnce(p, Packet(p, k, n))
  BY DEF Send
<1>1. CASE k = "Hello"
  BY <1>1 DEF Packet, NewOnce, MessageOnce
<1>2. CASE k \in {"Confirm1", "Confirm2"}
  BY <1>2 DEF Packet, NewOnce, MessageOnce
<1>3. CASE k = "Commit"
  BY <1>3 DEF Packet, NewOnce, MessageOnce
<1>4. CASE k \in {"DHPart1", "DHPart2"}
  BY <1>4 DEF Packet, NewOnce, MessageOnce
<1>5. CASE k \notin {"Hello", "Confirm1", "Confirm2", "Commit", "DHPart1", "DHPart2"}
  <2>1. Packet(p, k, n) = [type |-> k, from |-> p]
    BY <1>5 DEF Packet
  <2> QED BY <1>5, <2>1 DEF NewOnce, MessageOnce
<1> QED BY <1>1, <1>2, <1>3, <1>4, <1>5

\* The packets that say nothing of how far the sender is.
MutePackets == {"Hello", "HelloAck", "DHPart2", "Confirm2", "Error", "ErrorAck"}

LEMMA MuteOnce ==
  ASSUME NEW p \in Peers, NEW k \in MutePackets, NEW n, Send(p, {k}, n)
  PROVE  \A m \in net' : m \in net \/ NewOnce(p, m)
<1>1. k # "Srtp" /\ k # "Commit" /\ k \notin {"DHPart1", "Confirm1"} /\ k # "Conf2Ack"
  BY DEF MutePackets
<1> QED BY <1>1, SendOnce

\* The record of the negotiation and the user stay, in the same state or in one
\* that gives up.
KeptOnce(p) ==
  /\ neg'[p].chain = neg[p].chain /\ neg'[p].dh = neg[p].dh
  /\ neg'[p].key = neg[p].key /\ neg'[p].role = neg[p].role
  /\ user'[p].left = user[p].left /\ user'[p].calls = user[p].calls
  /\ user'[p].started = user[p].started /\ srtp'[p].send = srtp[p].send
  /\ \/ state'[p] = state[p]
     \/ /\ state[p] # "Initial" \/ user[p].started
        /\ state'[p] \in {"Initial", "WaitErrorAck"}

LEMMA KeepOnce ==
  ASSUME OnceInv, NEW p \in Peers, KeptOnce(p)
  PROVE  MoveOnce(p)
<1>1. EndOnce(p) /\ KeyOnce(p)
  BY DEF OnceInv
<1>2. ForwardOnce(p)
  BY <1>1 DEF KeptOnce, ForwardOnce, EndOnce, StartDone, PreCommitStates, EarlyStates
<1>3. RoleStep(p) /\ KeyStep(p)
  BY <1>1 DEF KeptOnce, RoleStep, KeyStep, KeyOnce, KeyedStates
<1> QED BY <1>2, <1>3 DEF MoveOnce

\* Before the Commit nothing is settled.
LEMMA EarlyOnce ==
  ASSUME OnceInv, NEW p \in Peers, state[p] \in PreCommitStates, state'[p] \in EarlyStates,
         neg'[p].chain = neg[p].chain, neg'[p].role = neg[p].role, user'[p] = user[p],
         srtp'[p] = srtp[p]
  PROVE  MoveOnce(p)
<1>1. EndOnce(p) /\ neg[p].role \in Roles
  BY LocalTypes DEF OnceInv, KeyInv, VersionInv, NegRecords
<1>2. neg[p].role = "NoRole" /\ StartDone(p)
  BY <1>1 DEF EndOnce, EarlyStates, PreCommitStates
<1>3. ForwardOnce(p)
  BY <1>1, <1>2 DEF ForwardOnce, EndOnce, StartDone, PreCommitStates, EarlyStates
<1> QED BY <1>2, <1>3 DEF MoveOnce, RoleStep, KeyStep

LEMMA ResendOnce ==
  ASSUME OnceInv, NEW p \in Peers, KeptOnce(p), Send(p, {sent[p]}, neg[p])
  PROVE  OnceStep(p)
<1>1. /\ sent[p] \in SentIn(state[p]) /\ EndOnce(p) /\ KeyOf(p)
      /\ state'[p] = state[p] \/ state'[p] \in {"Initial", "WaitErrorAck"}
  BY LocalTypes DEF OnceInv, KeyInv, VersionInv, KeptOnce
<1>2. /\ sent[p] = "Commit" => state[p] = "CommitSent"
      /\ sent[p] = "DHPart1" => state[p] = "WaitDHPart2"
      /\ sent[p] = "Confirm1" => state[p] = "WaitConfirm2"
      /\ sent[p] = "Conf2Ack" => state[p] = "SecureState"
      /\ sent[p] # "Srtp"
  BY <1>1 DEF SentIn
<1>3. sent[p] = "Commit" =>
           /\ StartDone(p)' /\ state'[p] \notin PreCommitStates
           /\ neg[p].dh = neg'[p].dh /\ neg'[p].role # "Responder"
  BY <1>1, <1>2 DEF EndOnce, KeptOnce, StartDone, PreCommitStates, EarlyStates
<1>4. sent[p] \in {"DHPart1", "Confirm1"} => neg'[p].role = "Responder"
  BY <1>1, <1>2 DEF KeyOf, RoleOf, ResponderStates, KeptOnce
<1>5. /\ sent[p] = "Confirm1" => neg[p].key = neg'[p].key /\ state'[p] # "WaitDHPart2"
      /\ sent[p] = "Conf2Ack" => Switched(state'[p], neg'[p], srtp'[p].send)
  <2>1. sent[p] = "Confirm1" => neg[p].key = neg'[p].key /\ state'[p] # "WaitDHPart2"
    BY <1>1, <1>2 DEF KeptOnce
  <2>2. ASSUME state[p] = "SecureState"
        PROVE  Switched(state[p], neg[p], srtp[p].send)
    BY <1>1, <2>2 DEF EndOnce, KeyOf, SrtpOf, KeyedStates, Switched
  <2> QED BY <1>1, <1>2, <2>1, <2>2 DEF KeptOnce, Switched
<1>6. \A m \in net' : m \in net \/ NewOnce(p, m)
  BY <1>2, <1>3, <1>4, <1>5, SendOnce
<1> QED BY <1>6, KeepOnce DEF OnceStep

LEMMA NegChain ==
  ASSUME NEW n \in NegRecords
  PROVE  /\ \A b : [n EXCEPT !.commitPkt = b].chain = n.chain
         /\ \A v : [n EXCEPT !.ver = v].chain = n.chain
         /\ \A r, k : [n EXCEPT !.role = r, !.key = k].chain = n.chain
         /\ \A k : [n EXCEPT !.key = k].chain = n.chain
         /\ \A r, h : [n EXCEPT !.role = r, !.commitPkt = FALSE, !.peerHvi = h].chain = n.chain
         /\ \A h, r : [n EXCEPT !.peerHello = h, !.dh = r].chain = n.chain
         /\ \A h, r : [[n EXCEPT !.peerHello = h, !.dh = r] EXCEPT !.commitPkt = TRUE].chain = n.chain
BY Zenon DEF NegRecords

LEMMA GiveUpOnce ==
  ASSUME OnceInv, NEW p \in Peers, GiveUp(p), user' = user,
         state[p] \notin {"Initial", "SecureState"}
  PROVE  KeptOnce(p)
<1> USE DEF OnceInv, KeyInv, VersionInv, TypeInv, TypeOK
<1>0. srtp'[p].send = srtp[p].send
  <2>1. ReceiverOff(p) \/ srtp' = srtp
    BY DEF GiveUp
  <2> QED BY <2>1 DEF ReceiverOff
<1>1. neg[p] \in NegRecords /\ state'[p] = "Initial"
  BY DEF GiveUp, Goto
<1> DEFINE b == neg[p].commitPkt /\ state[p] # "AckSent"
<1>2. neg' = [neg EXCEPT ![p] = [neg[p] EXCEPT !.commitPkt = b]]
  BY Zenon DEF GiveUp
<1> HIDE DEF b
<1>3. neg'[p] = [neg[p] EXCEPT !.commitPkt = b]
  BY <1>2
<1> QED BY <1>0, <1>1, <1>3, NegDraws, NegChain DEF KeptOnce

LEMMA SendErrorOnce ==
  ASSUME OnceInv, NEW p \in Peers, ErrorSent(p, neg[p]),
         state[p] # "Initial" \/ user[p].started,
         user'[p].left = user[p].left, user'[p].calls = user[p].calls,
         user'[p].started = user[p].started
  PROVE  OnceStep(p)
<1> USE DEF OnceInv, KeyInv, VersionInv, TypeInv, TypeOK
<1>1. /\ state'[p] = "WaitErrorAck" /\ neg'[p] = neg[p] /\ srtp' = srtp
      /\ Send(p, {"Error"}, neg[p])
  BY DEF ErrorSent, Goto
<1>2. KeptOnce(p)
  BY <1>1 DEF KeptOnce
<1>3. \A m \in net' : m \in net \/ NewOnce(p, m)
  BY <1>1, MuteOnce DEF MutePackets
<1> QED BY <1>2, <1>3, KeepOnce DEF OnceStep

\* The start call: StartCheck and StartInitial.
LEMMA BeginOnce ==
  ASSUME OnceInv, NEW p \in Peers, state[p] = "Initial", ~StartDone(p),
         neg'[p] = neg[p], user'[p].left + user'[p].calls <= 1,
         state'[p] # "Initial" \/ user'[p].started # user[p].started => StartDone(p)',
         state'[p] # "SecureState", srtp'[p] = srtp[p]
  PROVE  MoveOnce(p)
<1>1. EndOnce(p)
  BY DEF OnceInv
<1>2. neg[p].role = "NoRole" /\ ~user[p].started
  BY <1>1 DEF EndOnce
<1>3. ForwardOnce(p)
  BY <1>1, <1>2 DEF ForwardOnce, EndOnce
<1> QED BY <1>2, <1>3 DEF MoveOnce, RoleStep, KeyStep

LEMMA CallCounts ==
  ASSUME TypeInv, NEW p \in Peers
  PROVE  /\ user[p].left \in Nat /\ user[p].calls \in Nat
         /\ StartCheck(p) => /\ user'[p].calls = user[p].calls + 1
                             /\ user'[p].left = user[p].left - 1
                             /\ user'[p].started = user[p].started
         /\ StartCall(p) => /\ user'[p].calls = user[p].calls - 1
                            /\ user'[p].left = user[p].left
<1>1. user[p] \in UserRecords /\ user \in [Peers -> UserRecords]
  BY DEF TypeInv, TypeOK, UserRecords
<1>2. user[p].left \in Nat /\ user[p].calls \in Nat
  BY <1>1 DEF UserRecords
<1>3. ASSUME StartCheck(p)
      PROVE  /\ user'[p].calls = user[p].calls + 1 /\ user'[p].left = user[p].left - 1
             /\ user'[p].started = user[p].started
  <2> DEFINE u == [user[p] EXCEPT !.calls = @ + 1, !.left = @ - 1]
  <2>1. user' = [user EXCEPT ![p] = u]
    BY <1>3, Zenon DEF StartCheck
  <2>2. u.calls = user[p].calls + 1 /\ u.left = user[p].left - 1 /\ u.started = user[p].started
    BY <1>1, Zenon DEF UserRecords
  <2> HIDE DEF u
  <2> QED BY <1>1, <2>1, <2>2
<1>4. ASSUME StartCall(p)
      PROVE  user'[p].calls = user[p].calls - 1 /\ user'[p].left = user[p].left
  <2> DEFINE u == [user[p] EXCEPT !.calls = @ - 1, !.started = TRUE]
  <2>1. user' = [user EXCEPT ![p] = u]
    BY <1>4, Zenon DEF StartCall
  <2>2. u.calls = user[p].calls - 1 /\ u.left = user[p].left
    BY <1>1, Zenon DEF UserRecords
  <2> HIDE DEF u
  <2> QED BY <1>1, <2>1, <2>2
<1> QED BY <1>2, <1>3, <1>4

LEMMA StartOnce ==
  ASSUME OneStart, OnceInv, NEW p \in Peers,
         StartCheck(p) \/ Start(p) \/ Close(p) \/ SendRtp(p) \/ TimerPop(p)
  PROVE  OnceStep(p)
<1>a. ASSUME NEW l \in Nat, NEW c \in Nat, l + c <= 1, c > 0
      PROVE  l = 0 /\ c = 1
  BY <1>a
<1> USE DEF OnceInv, KeyInv, VersionInv, TypeInv, TypeOK
<1>0. EndOnce(p) /\ user[p].left \in Nat /\ user[p].calls \in Nat
  BY CallCounts
<1>1. CASE StartCheck(p)
  <2>1. /\ state[p] = "Initial" /\ state' = state /\ neg' = neg /\ net' = net
        /\ user[p].left > 0 /\ srtp' = srtp
    BY <1>1 DEF StartCheck
  <2>2. /\ ~StartDone(p) /\ user'[p].left + user'[p].calls <= 1
        /\ user'[p].started = user[p].started
    BY <1>0, <1>1, <2>1, CallCounts DEF StartDone, EndOnce
  <2> QED BY <2>1, <2>2, BeginOnce DEF OnceStep
<1>2. CASE StartInitial(p)
  <2>1. /\ state[p] = "Initial" /\ neg' = neg /\ Send(p, {"Hello"}, neg[p])
        /\ StartCall(p) /\ user[p].calls > 0 /\ srtp' = srtp /\ state'[p] = "Detect"
    BY <1>2 DEF StartInitial, StartCall, Goto
  <2>2. user'[p].calls = user[p].calls - 1 /\ user'[p].left = user[p].left
    BY <2>1, CallCounts
  <2>3. user[p].left = 0 /\ user[p].calls = 1
    BY <1>a, <1>0, <2>1, Zenon DEF EndOnce
  <2>4. ~StartDone(p) /\ user'[p].left + user'[p].calls <= 1 /\ StartDone(p)'
    BY <2>2, <2>3 DEF StartDone
  <2>5. MoveOnce(p)
    BY <2>1, <2>4, BeginOnce
  <2> QED BY <2>1, <2>5, MuteOnce DEF OnceStep, MutePackets
<1>3. ~StartDetect(p) /\ ~StartElsewhere(p)
  BY <1>0 DEF StartDetect, StartElsewhere, StartCall, EndOnce, StartDone
<1>4. ~Close(p)
  BY <1>0 DEF Close, EndOnce, OneStart
<1>5. CASE SendRtp(p)
  <2> DEFINE x == [type |-> "Srtp", from |-> p, key |-> srtp[p].send]
  <2>1. UNCHANGED <<neg, state, user, srtp>> /\ srtp[p].send # NoKey /\ net' = net \cup {x}
    BY <1>5 DEF SendRtp, KeepData
  <2>2. Switched(state[p], neg[p], srtp[p].send)
    BY <1>0, <2>1 DEF EndOnce
  <2>3. NewOnce(p, x)
    BY <2>1, <2>2 DEF NewOnce, MessageOnce
  <2>4. KeptOnce(p)
    BY <2>1 DEF KeptOnce
  <2> QED BY <2>1, <2>3, <2>4, KeepOnce DEF OnceStep
<1>6. CASE TimerPop(p)
  <2>1. KeptOnce(p) /\ net' = net
    BY <1>6 DEF TimerPop, KeptOnce
  <2> QED BY <2>1, KeepOnce DEF OnceStep
<1> QED BY <1>1, <1>2, <1>3, <1>4, <1>5, <1>6 DEF Start

LEMMA TimerOnce ==
  ASSUME OnceInv, NEW p \in Peers, TimerStep(p)
  PROVE  OnceStep(p)
<1> USE DEF OnceInv, KeyInv, VersionInv, TypeInv, TypeOK
<1>1. CASE TimerHello(p)
  <2> DEFINE t == Delivered(timer[p])
             gone == Exhausted(t, t.maxT1)
             b == neg[p].commitPkt /\ ~gone
  <2>1. /\ Send(p, {sent[p]}, neg[p]) /\ user' = user /\ srtp' = srtp
        /\ state[p] \in {"Detect", "AckSent"}
        /\ state' = [state EXCEPT ![p] = IF gone THEN "Detect" ELSE @]
        /\ neg' = [neg EXCEPT ![p] = [neg[p] EXCEPT !.commitPkt = b]]
    BY <1>1, Zenon DEF TimerHello
  <2>2. state'[p] = state[p] \/ state'[p] = "Detect"
    BY <2>1
  <2> HIDE DEF b
  <2>3. neg[p] \in NegRecords /\ neg'[p] = [neg[p] EXCEPT !.commitPkt = b]
    BY <2>1
  <2>4. neg'[p].chain = neg[p].chain /\ neg'[p].role = neg[p].role
    BY <2>3, NegDraws, NegChain
  <2>5. MoveOnce(p)
    BY <2>1, <2>2, <2>4, EarlyOnce DEF PreCommitStates, EarlyStates
  <2>6. sent[p] = "Hello"
    BY <2>1, LocalTypes DEF SentIn
  <2> QED BY <2>1, <2>5, <2>6, MuteOnce DEF OnceStep, MutePackets
<1>2. CASE TimerResend(p)
  <2>1. KeptOnce(p) /\ Send(p, {sent[p]}, neg[p])
    BY <1>2 DEF TimerResend, KeptOnce
  <2> QED BY <2>1, ResendOnce
<1>3. CASE TimerIgnored(p)
  <2>1. KeptOnce(p) /\ net' = net
    BY <1>3 DEF TimerIgnored, KeptOnce
  <2> QED BY <2>1, KeepOnce DEF OnceStep
<1>4. CASE TimerFailed(p) \/ TimerUnexpected(p)
  <2>1. /\ GiveUp(p) /\ user' = user /\ state[p] \notin {"Initial", "SecureState"}
        /\ net' = net \/ Send(p, {sent[p]}, neg[p])
    BY <1>4 DEF TimerFailed, TimerUnexpected, T2States, TimerlessStates
  <2>2. KeptOnce(p)
    BY <2>1, GiveUpOnce
  <2> QED BY <2>1, <2>2, KeepOnce, ResendOnce DEF OnceStep
<1> QED BY <1>1, <1>2, <1>3, <1>4 DEF TimerStep

LEMMA DiscoveryOnce ==
  ASSUME OnceInv, NEW p \in Peers, NEW m \in net, Discovery(p, m)
  PROVE  OnceStep(p)
<1> USE DEF OnceInv, KeyInv, VersionInv, TypeInv, TypeOK
<1>0. neg[p] \in NegRecords /\ EndOnce(p)
  BY LocalTypes
<1>1. CASE DetectHelloAck(p, m) \/ DetectHelloNewer(p, m)
  <2>1. /\ state[p] = "Detect" /\ neg'[p] = neg[p] /\ net' = net /\ user' = user
        /\ state'[p] \in {"Detect", "AckDetected"} /\ srtp' = srtp
    BY <1>1 DEF DetectHelloAck, DetectHelloNewer, Goto, KeepData
  <2> QED BY <2>1, EarlyOnce DEF OnceStep, PreCommitStates, EarlyStates
<1>2. CASE DetectHelloOlder(p, m)
  <2> DEFINE n == [neg[p] EXCEPT !.ver = m.ver]
  <2>1. /\ neg' = [neg EXCEPT ![p] = n] /\ Send(p, {"Hello"}, n) /\ user' = user
        /\ state[p] = "Detect" /\ srtp' = srtp
    BY <1>2 DEF DetectHelloOlder
  <2>2. state'[p] = "Detect"
    BY <1>2 DEF DetectHelloOlder, Goto
  <2>3. n.chain = neg[p].chain /\ n.role = neg[p].role
    BY <1>0, NegDraws, NegChain
  <2> HIDE DEF n
  <2>4. MoveOnce(p)
    BY <2>1, <2>2, <2>3, EarlyOnce DEF PreCommitStates, EarlyStates
  <2> QED BY <2>1, <2>4, MuteOnce DEF OnceStep, MutePackets
<1>3. CASE DetectHelloUnsupported(p, m)
  BY <1>3, SendErrorOnce DEF SendErrorPacket, DetectHelloUnsupported
<1>4. CASE DetectHello(p, m)
  <2>1. PICK r \in Draws :
          neg' = [neg EXCEPT ![p] = [Committed(neg[p], m, r) EXCEPT !.commitPkt = TRUE]]
    BY <1>4, Zenon DEF DetectHello
  <2> DEFINE n == [Committed(neg[p], m, r) EXCEPT !.commitPkt = TRUE]
  <2>2. n.chain = neg[p].chain /\ n.role = neg[p].role
    BY <1>0, NegDraws, NegChain DEF Committed
  <2> HIDE DEF n
  <2>3. neg'[p] = n
    BY <2>1 DEF n
  <2>4. /\ state[p] = "Detect" /\ state'[p] = "AckSent" /\ user' = user /\ srtp' = srtp
        /\ Send(p, {"HelloAck"}, neg[p])
    BY <1>4 DEF DetectHello
  <2>5. MoveOnce(p)
    BY <2>2, <2>3, <2>4, EarlyOnce DEF PreCommitStates, EarlyStates
  <2> QED BY <2>4, <2>5, MuteOnce DEF OnceStep, MutePackets
<1>5. CASE AckDetectedHello(p, m)
  <2>1. PICK r \in Draws : neg' = [neg EXCEPT ![p] = Committed(neg[p], m, r)]
    BY <1>5, Zenon DEF AckDetectedHello
  <2> DEFINE n == Committed(neg[p], m, r)
  <2>2. n.chain = neg[p].chain /\ n.role = neg[p].role
    BY <1>0, NegDraws, NegChain DEF Committed
  <2> HIDE DEF n
  <2>3. neg'[p] = n
    BY <2>1 DEF n
  <2>4. /\ state[p] = "AckDetected" /\ state'[p] = "WaitCommit" /\ user' = user /\ srtp' = srtp
        /\ Send(p, {"HelloAck"}, neg[p])
    BY <1>5 DEF AckDetectedHello, Goto
  <2>5. MoveOnce(p)
    BY <2>2, <2>3, <2>4, EarlyOnce DEF PreCommitStates, EarlyStates
  <2> QED BY <2>4, <2>5, MuteOnce DEF OnceStep, MutePackets
<1>6. CASE WaitCommitHello(p, m)
  <2>1. KeptOnce(p) /\ Send(p, {sent[p]}, neg[p])
    BY <1>6 DEF WaitCommitHello, KeepData, KeptOnce
  <2> QED BY <2>1, ResendOnce
<1>7. CASE AckSentHello(p, m)
  <2>1. KeptOnce(p) /\ Send(p, {"HelloAck"}, neg[p])
    BY <1>7 DEF AckSentHello, KeepData, KeptOnce
  <2> QED BY <2>1, KeepOnce, MuteOnce DEF OnceStep, MutePackets
<1>8. CASE AckSentHelloAck(p, m)
  <2> DEFINE n == [neg[p] EXCEPT !.commitPkt = FALSE]
  <2>1. /\ neg' = [neg EXCEPT ![p] = n] /\ Send(p, {"Commit"}, n) /\ user' = user
        /\ state[p] = "AckSent" /\ srtp' = srtp
    BY <1>8 DEF AckSentHelloAck
  <2>2. n.chain = neg[p].chain /\ n.role = neg[p].role
    BY <1>0, NegDraws, NegChain
  <2> HIDE DEF n
  <2>3. state'[p] = "CommitSent" /\ neg'[p] = n
    BY <1>8, <2>1 DEF AckSentHelloAck, Goto
  <2>4. MoveOnce(p)
    BY <2>1, <2>2, <2>3, EarlyOnce DEF PreCommitStates, EarlyStates
  <2>5. StartDone(p)' /\ state'[p] \notin PreCommitStates
    BY <2>3, <2>4 DEF MoveOnce, ForwardOnce, PreCommitStates
  <2>6. n.role # "Responder"
    BY <1>0, <2>1, <2>2 DEF EndOnce, EarlyStates, PreCommitStates
  <2>7. \A x \in net' : x \in net \/ NewOnce(p, x)
    BY <2>1, <2>3, <2>5, <2>6, SendOnce
  <2> QED BY <2>4, <2>7 DEF OnceStep
<1> QED BY <1>1, <1>2, <1>3, <1>4, <1>5, <1>6, <1>7, <1>8 DEF Discovery

\* A Commit makes a Responder of an end that has sent none, or a lesser one.
LEMMA BecomeResponderOnce ==
  ASSUME OnceInv, NEW p \in Peers, NEW m \in net, m.from = Other(p), m.type = "Commit",
         BecomeResponder(p, m), state[p] \in EarlyStates,
         state[p] = "CommitSent" => neg[p].dh < m.hvi.dh
  PROVE  OnceStep(p)
<1> USE DEF OnceInv, KeyInv, VersionInv, TypeInv, TypeOK
<1>0. neg[p] \in NegRecords /\ EndOnce(p) /\ Other(p) \in Peers /\ Other(p) # p
  BY LocalTypes, PeersAssumption DEF Other, Peers
<1> DEFINE n == ResponderNeg(p, m)
           answer == IF Multi(p) THEN "Confirm1" ELSE "DHPart1"
           s == IF Multi(p) THEN "WaitConfirm2" ELSE "WaitDHPart2"
<1>1. /\ neg' = [neg EXCEPT ![p] = n] /\ state' = [state EXCEPT ![p] = s]
      /\ Send(p, {answer}, n) /\ user' = user /\ srtp' = srtp
  BY DEF BecomeResponder, Goto
<1>2. n.chain = neg[p].chain /\ n.dh = neg[p].dh /\ n.role = "Responder"
  <2>1. CASE Multi(p)
    BY <1>0, <2>1, NegDraws, NegChain DEF ResponderNeg
  <2>2. CASE ~Multi(p)
    BY <1>0, <2>2, NegDraws, NegChain DEF ResponderNeg
  <2> QED BY <2>1, <2>2
<1> HIDE DEF n
<1>3. neg'[p] = n /\ state'[p] = s
  BY <1>1
<1>4. StartDone(p) /\ StartDone(p)'
  BY <1>0, <1>1 DEF EndOnce, StartDone, EarlyStates, PreCommitStates
<1>5. ForwardOnce(p)
  BY <1>0, <1>1, <1>2, <1>3, <1>4
  DEF ForwardOnce, EndOnce, EarlyStates, PreCommitStates
<1>6. answer # "Srtp" /\ answer # "Commit" /\ answer # "Conf2Ack"
      /\ (answer = "Confirm1" => s # "WaitDHPart2")
  OBVIOUS
<1>7. \A x \in net' : x \in net \/ NewOnce(p, x)
  BY <1>1, <1>2, <1>3, <1>6, SendOnce
<1>8. Committing(p)' => neg[p].dh < neg[Other(p)].dh
  <2>1. m.hvi.dh = neg[Other(p)].dh
    BY DEF MessageOnce
  <2> SUFFICES ASSUME NEW x \in net', x.from = p, x.type = "Commit"
               PROVE  state[p] = "CommitSent"
    BY <2>1 DEF Committing
  <2>2. x \in net
    BY <1>2, <1>3, <1>7 DEF NewOnce
  <2> QED BY <2>2 DEF MessageOnce, EarlyStates
<1>9. RoleStep(p)
  BY <1>2, <1>3, <1>8 DEF RoleStep, Committing, EarlyStates, PreCommitStates
<1>10. KeyStep(p)
  BY <1>2, <1>3 DEF KeyStep
<1> QED BY <1>5, <1>7, <1>9, <1>10 DEF OnceStep, MoveOnce

\* The answer to its Commit makes an Initiator, be it the end of the negotiation.
LEMMA BecomeInitiatorOnce ==
  ASSUME OnceInv, NEW p \in Peers, NEW m \in net, m.from = Other(p),
         m.type \in {"DHPart1", "Confirm1"}, state[p] = "CommitSent",
         neg'[p].chain = neg[p].chain, neg'[p].dh = neg[p].dh,
         neg'[p].role = "Initiator", user'[p] = user[p], srtp'[p].send = srtp[p].send,
         \/ state'[p] \in {"WaitConfirm1", "WaitErrorAck"}
         \/ state'[p] = "WaitConfAck" /\ m.type = "Confirm1" /\ neg'[p].key = m.key
  PROVE  MoveOnce(p)
<1> USE DEF OnceInv
<1>1. /\ EndOnce(p) /\ neg[Other(p)].role = "Responder"
      /\ m.type = "Confirm1" =>
           m.key = neg[Other(p)].key /\ state[Other(p)] # "WaitDHPart2"
  BY DEF MessageOnce
<1>2. StartDone(p) /\ StartDone(p)'
  BY <1>1 DEF EndOnce, StartDone
<1>3. ForwardOnce(p)
  BY <1>1, <1>2 DEF ForwardOnce, EndOnce, EarlyStates, PreCommitStates
<1>4. RoleStep(p)
  BY <1>1 DEF RoleStep, EarlyStates, PreCommitStates
<1>5. KeyStep(p)
  BY <1>1 DEF KeyStep, KeyedStates
<1> QED BY <1>3, <1>4, <1>5 DEF MoveOnce

LEMMA AgreementOnce ==
  ASSUME OnceInv, NEW p \in Peers, NEW m \in net, m.from = Other(p), Agreement(p, m)
  PROVE  OnceStep(p)
<1> USE DEF OnceInv, KeyInv, VersionInv, TypeInv, TypeOK
<1>0. neg[p] \in NegRecords /\ EndOnce(p) /\ KeyOf(p)
  BY LocalTypes
<1>1. CASE AckSentCommit(p, m) \/ WaitCommitCommit(p, m) \/ CommitClashLost(p, m)
  BY <1>1, BecomeResponderOnce
     DEF AckSentCommit, WaitCommitCommit, CommitClashLost, EarlyStates, PreCommitStates
<1>2. CASE AckSentCommitIgnored(p, m) \/ CommitClashWon(p, m)
  <2>1. KeptOnce(p) /\ net' = net
    BY <1>2 DEF AckSentCommitIgnored, CommitClashWon, KeepData, KeptOnce
  <2> QED BY <2>1, KeepOnce DEF OnceStep
<1>3. CASE WaitDHPart2Commit(p, m)
  <2>1. KeptOnce(p) /\ Send(p, {sent[p]}, neg[p])
    BY <1>3 DEF WaitDHPart2Commit, KeepData, KeptOnce
  <2> QED BY <2>1, ResendOnce
<1>4. CASE CommitSentDHPart1Ignored(p, m)
  <2>1. neg' = neg /\ user' = user /\ net' = net /\ state'[p] = state[p] /\ srtp' = srtp
    BY <1>4 DEF CommitSentDHPart1Ignored, KeepData, Goto
  <2>2. KeptOnce(p)
    BY <2>1 DEF KeptOnce
  <2> QED BY <2>1, <2>2, KeepOnce DEF OnceStep
<1>5. CASE CommitSentDHPart1(p, m)
  <2> DEFINE k == [hello |-> neg[p].peerHello, ini |-> neg[p].dh, resp |-> m.dh]
             n == [neg[p] EXCEPT !.role = "Initiator", !.key = k]
  <2>1. /\ neg' = [neg EXCEPT ![p] = n] /\ Send(p, {"DHPart2"}, n) /\ user' = user
        /\ state[p] = "CommitSent" /\ m.type = "DHPart1" /\ srtp' = srtp
    BY <1>5 DEF CommitSentDHPart1
  <2>2. state'[p] = "WaitConfirm1"
    BY <1>5 DEF CommitSentDHPart1, Goto
  <2> HIDE DEF k
  <2>3. n.chain = neg[p].chain /\ n.dh = neg[p].dh /\ n.role = "Initiator"
    BY <1>0, NegDraws, NegChain
  <2> HIDE DEF n
  <2>4. MoveOnce(p)
    BY <2>1, <2>2, <2>3, BecomeInitiatorOnce
  <2> QED BY <2>1, <2>4, MuteOnce DEF OnceStep, MutePackets
<1>6. CASE CommitSentConfirm1(p, m)
  <2> DEFINE k == [hello |-> neg[p].peerHello, ini |-> neg[p].dh, resp |-> 0]
             n == [neg[p] EXCEPT !.role = "Initiator", !.key = k]
  <2>1. state[p] = "CommitSent" /\ m.type = "Confirm1"
    BY <1>6 DEF CommitSentConfirm1
  <2>2. CASE m.key = k
    <3>1. /\ neg' = [neg EXCEPT ![p] = n] /\ Send(p, {"Confirm2"}, n) /\ user' = user
          /\ srtp'[p].send = srtp[p].send
      BY <1>6, <2>2 DEF CommitSentConfirm1
    <3>2. state'[p] = "WaitConfAck"
      BY <1>6, <2>2 DEF CommitSentConfirm1, Goto
    <3> HIDE DEF k
    <3>3. n.chain = neg[p].chain /\ n.dh = neg[p].dh /\ n.role = "Initiator" /\ n.key = k
      BY <1>0, NegDraws, NegChain
    <3> HIDE DEF n
    <3>4. MoveOnce(p)
      BY <2>1, <2>2, <3>1, <3>2, <3>3, BecomeInitiatorOnce
    <3> QED BY <3>1, <3>4, MuteOnce DEF OnceStep, MutePackets
  <2>3. CASE m.key # k
    <3>1. SendErrorPacket(p, n)
      BY <1>6, <2>3 DEF CommitSentConfirm1
    <3> HIDE DEF k
    <3>2. n.chain = neg[p].chain /\ n.dh = neg[p].dh /\ n.role = "Initiator"
      BY <1>0, NegDraws, NegChain
    <3> HIDE DEF n
    <3>3. /\ neg'[p] = n /\ state'[p] = "WaitErrorAck" /\ user' = user
          /\ Send(p, {"Error"}, n) /\ srtp' = srtp
      BY <3>1 DEF SendErrorPacket, ErrorSent, Goto
    <3>4. MoveOnce(p)
      BY <2>1, <3>2, <3>3, BecomeInitiatorOnce
    <3> QED BY <3>3, <3>4, MuteOnce DEF OnceStep, MutePackets
  <2> QED BY <2>2, <2>3
<1>7. CASE WaitDHPart2DHPart2(p, m)
  <2> DEFINE k == [hello |-> OwnHello(p), ini |-> m.dh, resp |-> neg[p].dh]
             n == [neg[p] EXCEPT !.key = k]
             good == neg[p].peerHvi = [dh |-> m.dh, hello |-> OwnHello(p)]
  <2>0. state[p] = "WaitDHPart2" /\ neg[p].role = "Responder"
    BY <1>0, <1>7 DEF WaitDHPart2DHPart2, KeyOf, RoleOf, ResponderStates
  <2>1. CASE good
    <3>1. /\ neg' = [neg EXCEPT ![p] = n] /\ Send(p, {"Confirm1"}, n) /\ user' = user
          /\ srtp' = srtp
      BY <1>7, <2>1 DEF WaitDHPart2DHPart2
    <3>2. state'[p] = "WaitConfirm2"
      BY <1>7, <2>1 DEF WaitDHPart2DHPart2, Goto
    <3> HIDE DEF k
    <3>3. n.chain = neg[p].chain /\ n.dh = neg[p].dh /\ n.role = neg[p].role
      BY <1>0, NegDraws, NegChain
    <3> HIDE DEF n
    <3>4. neg'[p] = n
      BY <3>1
    <3>5. StartDone(p) /\ StartDone(p)'
      BY <1>0, <2>0, <3>1 DEF EndOnce, StartDone
    <3>6. ForwardOnce(p)
      BY <1>0, <2>0, <3>1, <3>2, <3>3, <3>4, <3>5
      DEF ForwardOnce, EndOnce, EarlyStates, PreCommitStates
    <3>7. RoleStep(p) /\ KeyStep(p)
      BY <2>0, <3>3, <3>4 DEF RoleStep, KeyStep
    <3>8. \A x \in net' : x \in net \/ NewOnce(p, x)
      BY <2>0, <3>1, <3>2, <3>3, <3>4, SendOnce
    <3> QED BY <3>6, <3>7, <3>8 DEF OnceStep, MoveOnce
  <2>2. CASE ~good
    BY <1>7, <2>0, <2>2, SendErrorOnce DEF SendErrorPacket, WaitDHPart2DHPart2
  <2> QED BY <2>1, <2>2
<1> QED BY <1>1, <1>2, <1>3, <1>4, <1>5, <1>6, <1>7 DEF Agreement

LEMMA ConfirmationOnce ==
  ASSUME OnceInv, NEW p \in Peers, NEW m \in net, m.from = Other(p), Confirmation(p, m)
  PROVE  OnceStep(p)
<1> USE DEF OnceInv, KeyInv, VersionInv, TypeInv, TypeOK
<1>0. /\ EndOnce(p) /\ KeyOf(p) /\ KeyOnce(p) /\ neg[p] \in NegRecords
      /\ MessageOnce(m, state[Other(p)], neg[Other(p)], srtp[Other(p)].send)
  BY LocalTypes
\* A step forward that keeps the record.
<1>1. ASSUME neg'[p] = neg[p], user' = user,
             state[p] \in {"WaitConfirm1", "WaitConfirm2", "WaitConfAck"},
             state'[p] \in KeyedStates,
             srtp'[p].send \in {srtp[p].send, neg[p].key}
      PROVE  ForwardOnce(p) /\ RoleStep(p)
  BY <1>0, <1>1
  DEF ForwardOnce, RoleStep, EndOnce, StartDone, EarlyStates, PreCommitStates, KeyedStates,
      KeyOf, RoleOf, InitiatorStates, ResponderStates
<1>2. CASE WaitConfirm2Repeat(p, m) \/ SecureConfirm2(p, m)
  <2>1. KeptOnce(p) /\ Send(p, {sent[p]}, neg[p])
    BY <1>2 DEF WaitConfirm2Repeat, SecureConfirm2, KeepData, KeptOnce
  <2> QED BY <2>1, ResendOnce
<1>3. CASE WaitConfirm2Confirm2(p, m)
  <2>0. state[p] = "WaitConfirm2" /\ neg[p].role = "Responder"
    BY <1>0, <1>3 DEF WaitConfirm2Confirm2, KeyOf, RoleOf, ResponderStates
  <2>1. CASE m.key = neg[p].key
    <3>1. /\ neg' = neg /\ user' = user /\ Send(p, {"Conf2Ack"}, neg[p])
          /\ srtp'[p].send = neg[p].key
      BY <1>3, <2>1 DEF WaitConfirm2Confirm2
    <3>2. state'[p] = "SecureState"
      BY <1>3, <2>1 DEF WaitConfirm2Confirm2, Goto
    <3>3. ForwardOnce(p) /\ RoleStep(p)
      BY <1>1, <2>0, <3>1, <3>2 DEF KeyedStates
    <3>4. KeyStep(p)
      BY <2>0, <3>1 DEF KeyStep
    <3>5. Switched(state'[p], neg'[p], srtp'[p].send)
      BY <2>0, <3>1, <3>2 DEF Switched
    <3>6. \A x \in net' : x \in net \/ NewOnce(p, x)
      BY <3>1, <3>2, <3>5, SendOnce
    <3> QED BY <3>3, <3>4, <3>6 DEF OnceStep, MoveOnce
  <2>2. CASE m.key # neg[p].key
    BY <1>3, <2>0, <2>2, SendErrorOnce DEF SendErrorPacket, WaitConfirm2Confirm2
  <2> QED BY <2>1, <2>2
<1>4. CASE WaitConfirm1Confirm1(p, m)
  <2>0. state[p] = "WaitConfirm1" /\ m.type = "Confirm1"
    BY <1>4 DEF WaitConfirm1Confirm1
  <2>1. CASE m.key = neg[p].key
    <3>1. /\ neg' = neg /\ user' = user /\ Send(p, {"Confirm2"}, neg[p])
          /\ srtp'[p].send = srtp[p].send
      BY <1>4, <2>1 DEF WaitConfirm1Confirm1
    <3>2. state'[p] = "WaitConfAck"
      BY <1>4, <2>1 DEF WaitConfirm1Confirm1, Goto
    <3>3. ForwardOnce(p) /\ RoleStep(p)
      BY <1>1, <2>0, <3>1, <3>2 DEF KeyedStates
    <3>4. KeyStep(p)
      BY <1>0, <2>0, <2>1, <3>1, <3>2 DEF KeyStep, MessageOnce
    <3> QED BY <3>1, <3>3, <3>4, MuteOnce DEF OnceStep, MoveOnce, MutePackets
  <2>2. CASE m.key # neg[p].key
    BY <1>4, <2>0, <2>2, SendErrorOnce DEF SendErrorPacket, WaitConfirm1Confirm1
  <2> QED BY <2>1, <2>2
<1>5. CASE WaitConfAckDone(p, m)
  <2>1. /\ state[p] = "WaitConfAck" /\ neg' = neg /\ net' = net /\ user' = user
        /\ m.type \in {"Conf2Ack", "Srtp"} /\ srtp'[p].send = neg[p].key
    BY <1>5 DEF WaitConfAckDone
  <2>2. state'[p] = "SecureState"
    BY <1>5 DEF WaitConfAckDone, Goto
  <2>3. ForwardOnce(p) /\ RoleStep(p)
    BY <1>1, <2>1, <2>2 DEF KeyedStates
  <2>4. KeyStep(p)
    BY <1>0, <2>1, <2>2 DEF KeyStep, KeyOnce, KeyedStates, MessageOnce, Switched
  <2> QED BY <2>1, <2>3, <2>4 DEF OnceStep, MoveOnce
<1>6. CASE ErrorPkt(p, m)
  <2>1. KeptOnce(p)
    <3>1. user' = user
      BY <1>6 DEF ErrorPkt
    <3>2. \/ UNCHANGED <<state, neg, srtp>>
          \/ GiveUp(p) /\ state[p] \notin {"Initial", "SecureState"}
      BY <1>6 DEF ErrorPkt
    <3> QED BY <3>1, <3>2, GiveUpOnce DEF KeptOnce
  <2>2. Send(p, {"ErrorAck"}, neg[p])
    BY <1>6 DEF ErrorPkt
  <2> QED BY <2>1, <2>2, KeepOnce, MuteOnce DEF OnceStep, MutePackets
<1>7. CASE WaitErrorAckDone(p, m)
  <2>1. /\ state[p] = "WaitErrorAck" /\ neg' = neg /\ net' = net /\ user' = user
        /\ state'[p] = "Initial" /\ srtp' = srtp
    BY <1>7 DEF WaitErrorAckDone, KeepData, Goto
  <2>2. KeptOnce(p)
    BY <2>1 DEF KeptOnce
  <2> QED BY <2>1, <2>2, KeepOnce DEF OnceStep
<1> QED BY <1>2, <1>3, <1>4, <1>5, <1>6, <1>7 DEF Confirmation

\* A malformed packet ends the negotiation, not the media.
LEMMA MalformedOnce ==
  ASSUME OnceInv, NEW p \in Peers, Malformed(p)
  PROVE  OnceStep(p)
<1> USE DEF OnceInv, KeyInv, VersionInv, TypeInv, TypeOK
<1>1. user[p] \in UserRecords
  BY DEF UserRecords
<1> DEFINE u == [user[p] EXCEPT !.malformed = @ - 1]
<1>2. user' = [user EXCEPT ![p] = u] /\ ErrorSent(p, neg[p]) /\ user[p].started
  BY Zenon DEF Malformed
<1>3. u.left = user[p].left /\ u.calls = user[p].calls /\ u.started = user[p].started
  BY <1>1, Zenon DEF UserRecords
<1> HIDE DEF u
<1> QED BY <1>2, <1>3, SendErrorOnce

LEMMA OnceInit == OneStart /\ Init => OnceInv
<1> SUFFICES ASSUME OneStart, Init PROVE OnceInv
  OBVIOUS
<1>1. KeyInv
  BY InitKeyInv
<1>2. PICK c \in Setups :
        /\ neg = [p \in Peers |-> NewNeg(c[p], 1)]
        /\ user = [p \in Peers |-> [calls |-> 0, left |-> MaxStarts, started |-> FALSE,
                                    malformed |-> c[p].malformed]]
  BY DEF Init
<1>3. /\ net = {}
      /\ \A q \in Peers : /\ neg[q].chain = 1 /\ neg[q].role = "NoRole"
                          /\ state[q] = "Initial" /\ user[q].calls = 0 /\ user[q].left = 1
                          /\ ~user[q].started /\ srtp[q].send = NoKey
  BY <1>2 DEF Init, NewNeg, OneStart
<1> QED BY <1>1, <1>3 DEF OnceInv, EndOnce, RoleOnce, KeyOnce

LEMMA OnceNext == OneStart /\ OnceInv /\ [Next]_vars => OnceInv'
<1> SUFFICES ASSUME OneStart, OnceInv, [Next]_vars PROVE OnceInv'
  OBVIOUS
<1>1. KeyInv /\ TypeInv /\ KeyInv'
  BY NextKeyInv DEF OnceInv, KeyInv, VersionInv
<1>2. CASE UNCHANGED vars
  <2>1. Alice \in Peers /\ KeptOnce(Alice) /\ net' = net
    BY <1>2 DEF vars, KeptOnce, Peers
  <2>2. OnceStep(Alice)
    BY <2>1, KeepOnce DEF OnceStep
  <2>3. Frame(Other(Alice))
    BY <1>2 DEF vars, Frame
  <2> QED BY <1>1, <2>1, <2>2, <2>3, OnceFrame
<1>3. CASE Next
  <2>1. PICK p \in Peers : Step(p)
    BY <1>3 DEF Next, Step
  <2>2. OnceStep(p)
    BY <2>1, StartOnce, TimerOnce, DiscoveryOnce, AgreementOnce,
       ConfirmationOnce, MalformedOnce DEF Step, Deliver, Receive
  <2>3. Frame(Other(p))
    BY <1>1, <2>1, StepFrame, PeersAssumption DEF Other, Peers
  <2> QED BY <1>1, <2>2, <2>3, OnceFrame
<1> QED BY <1>2, <1>3

LEMMA OnceCorrect == OneStart => (Spec => []OnceInv)
<1> SUFFICES ASSUME OneStart PROVE Spec => []OnceInv
  OBVIOUS
<1> QED BY OnceInit, OnceNext, PTL DEF Spec

\* However Hellos and Commits cross, are lost or repeated, and in either mode: the
\* ends of one negotiation never both act as Initiator or both as Responder.
THEOREM OneInitiatorCorrect == OneStart => (Spec => []OneInitiator)
<1> SUFFICES ASSUME OneStart PROVE Spec => []OneInitiator
  OBVIOUS
<1>1. OnceInv => OneInitiator
  <2> SUFFICES ASSUME OnceInv PROVE OneInitiator
    OBVIOUS
  <2>1. /\ Alice \in Peers /\ Bob \in Peers /\ Other(Alice) = Bob /\ Other(Bob) = Alice
    BY PeersAssumption DEF Other, Peers
  <2>2. /\ RoleOnce(Alice) /\ RoleOnce(Bob) /\ RoleOf(Alice) /\ RoleOf(Bob)
        /\ neg[Alice].dh \in Nat /\ neg[Bob].dh \in Nat
    BY <2>1 DEF OnceInv, KeyInv, VersionInv, KeyOf, TypeInv, TypeOK, NegRecords
  <2>3. ~(neg[Alice].role = "Initiator" /\ neg[Bob].role = "Initiator")
    BY <2>1, <2>2 DEF RoleOnce
  <2>4. ~(neg[Alice].role = "Responder" /\ neg[Bob].role = "Responder")
    BY <2>1, <2>2 DEF RoleOnce
  <2>5. state[Alice] \notin InitiatorStates \/ state[Bob] \notin InitiatorStates
    BY <2>2, <2>3 DEF RoleOf
  <2>6. state[Alice] \notin ResponderStates \/ state[Bob] \notin ResponderStates
    BY <2>2, <2>4 DEF RoleOf
  <2> QED BY <2>1, <2>5, <2>6 DEF OneInitiator, InitiatorStates, ResponderStates
<1> QED BY OnceCorrect, <1>1, PTL

\* An Initiator is secure only after its Responder, whose SRTP has the same key.
THEOREM ResponderSecureFirstCorrect == OneStart => (Spec => []ResponderSecureFirst)
<1> SUFFICES ASSUME OneStart PROVE Spec => []ResponderSecureFirst
  OBVIOUS
<1>1. OnceInv => ResponderSecureFirst
  <2> SUFFICES ASSUME OnceInv, NEW p \in Peers, state[p] = "SecureState",
                      neg[p].role = "Initiator"
               PROVE  srtp[Other(p)].send = neg[p].key
    BY DEF ResponderSecureFirst
  <2>1. Other(p) \in Peers
    BY DEF Other, Peers
  <2>2. neg[Other(p)].key = neg[p].key /\ srtp[Other(p)].send = neg[Other(p)].key
    BY DEF OnceInv, KeyOnce, KeyedStates
  <2> QED BY <2>1, <2>2
<1> QED BY OnceCorrect, <1>1, PTL

=============================================================================
