---------------------------- MODULE RetainedProofs ----------------------------
(* Proofs about RetainedSecrets, for any number of calls.                    *)
(*                                                                           *)
(* CallInv says what the packets of one call tell about its two ends, and    *)
(* SecretsInv that the two phones never hold the same two secrets in         *)
(* opposite order: however many calls overlap, each end of a call reads its  *)
(* record before either stores the secret of that call. With one call at a   *)
(* time SingleInv ties the copies of the engines to the files, TrustInv the  *)
(* flags to what the users did, and ContinuityInv the cuts to the secrets.   *)
EXTENDS RetainedSecrets, FiniteSetTheorems, TLAPS

-----------------------------------------------------------------------------
(* The inductive invariants.                                                 *)

Sent(n, p, kind) == \E msg \in sent[n] : msg.from = p /\ msg.kind = kind

\* The packets of a call come in order, each an answer to one of the peer, and
\* there is one Initiator.
OrderOf(n, p) ==
  LET q == Other(p) IN
  /\ ~(Sent(n, p, "Commit") /\ Sent(n, q, "Commit"))
  /\ Sent(n, p, "DHPart1") => Sent(n, q, "Commit")
  /\ Sent(n, p, "DHPart2") => Sent(n, q, "DHPart1")
  /\ Sent(n, p, "Confirm1") => Sent(n, q, "DHPart2")
  /\ Sent(n, p, "Confirm2") => Sent(n, q, "Confirm1")
  /\ Sent(n, p, "Conf2Ack") => Sent(n, q, "Confirm2")

OrderInv(n) ==
  /\ n > calls => sent[n] = {} /\ \A p \in Peers : end[n][p].pc = "none"
  /\ sent[n] # {} => \E p \in Peers : end[n][p].pc # "none"
  /\ \A p \in Peers : OrderOf(n, p)

\* What an end has sent at each of its stages.
StageOf(n, p, pc) ==
  /\ pc = "hello" => ~Sent(n, p, "Commit") /\ ~Sent(n, p, "DHPart1")
  /\ pc \in {"hello", "read"} => ~Sent(n, p, "DHPart2") /\ ~Sent(n, p, "Confirm1")
  /\ pc \in {"hello", "read", "keys"} => ~Sent(n, p, "Confirm2") /\ ~Sent(n, p, "Conf2Ack")
  /\ pc = "keys" => Sent(n, p, "DHPart2") \/ Sent(n, p, "Confirm1")
  /\ pc = "confirmed" => Sent(n, p, "Confirm2")
  /\ pc = "secure" => \/ Sent(n, p, "Conf2Ack")
                      \/ Sent(n, p, "Confirm2") /\ Sent(n, Other(p), "Conf2Ack")

StageInv(n) == \A p \in Peers : StageOf(n, p, end[n][p].pc)

\* What a packet says of its sender's engine e and its receiver's engine f.
ContentOf(msg, e, f) ==
  /\ msg.kind = "DHPart1" /\ e.pc = "read" => msg.ids = Valid(e.rec)
  /\ msg.kind = "DHPart2" /\ e.pc = "keys" =>
       /\ msg.ids = Valid(e.rec)
       /\ f.pc = "read" => e.s1 = Select(e.rec, Valid(f.rec))
  /\ msg.kind = "Confirm1" /\ e.pc = "keys" => msg.sas = e.rec.sas
  /\ msg.kind = "Confirm1" /\ e.pc # "none" /\ f.pc # "none" => e.s1 = f.s1
  /\ msg.kind = "Confirm2" /\ e.pc = "confirmed" => msg.sas = e.rec.sas
  /\ msg.kind = "Confirm2" /\ f.pc = "keys" => (msg.sas => f.rec.sas)

ContentInv(n) ==
  \A msg \in sent[n] : ContentOf(msg, end[n][msg.from], end[n][Other(msg.from)])

CallInv == \A n \in Calls : OrderInv(n) /\ StageInv(n) /\ ContentInv(n)

\* The records that phone p has: its file's, and the copies of its engines.
Held(p, r) == r = cache[p] \/ \E n \in Calls : r = end[n][p].rec

\* End p of call n has read the record and not yet stored the call's secret.
Between(n, p) == end[n][p].pc \in {"read", "keys"}

NotYet(n, p) == n > calls \/ end[n][p].pc = "hello"

\* Record r has secret s behind t.
Follows(r, t, s) == r.rs1 = t /\ r.rs2 = s

\* The first secret is the newer one, valid from the first on.
ShapeInv ==
  \A p \in Peers, r \in Records : Held(p, r) =>
    (r.v1 <=> r.rs1 # 0) /\ (r.rs1 = 0 => r.rs2 = 0)

\* Nobody has the secret of a call before both ends have read their records.
NotYetInv ==
  \A n \in Calls, p \in Peers, q \in Peers, r \in Records :
    NotYet(n, p) /\ Held(q, r) => r.rs1 # n /\ r.rs2 # n

\* The phones do not have two secrets in opposite order, ...
OppositeInv ==
  \A p \in Peers, r, t \in Records : Held(p, r) /\ Held(Other(p), t) =>
    r.rs1 = t.rs1 \/ ~Follows(t, r.rs2, r.rs1)

\* ... nor will they when p has stored the secret of call n, ...
NextInv ==
  \A n \in Calls, p \in Peers, r \in Records :
    Between(n, p) /\ Held(Other(p), r) => ~Follows(r, end[n][p].rec.rs1, n)

\* ... or each of the secret of another call.
CrossInv ==
  \A n, m \in Calls, p \in Peers : Between(n, p) /\ Between(m, Other(p)) =>
    ~(end[n][p].rec.rs1 = m /\ end[m][Other(p)].rec.rs1 = n)

SecretsInv == ShapeInv /\ NotYetInv /\ OppositeInv /\ NextInv /\ CrossInv

\* The same secrets in the same places.
SameSecrets(r, t) == r.rs1 = t.rs1 /\ r.rs2 = t.rs2 /\ r.v1 = t.v1

\* Calls do not overlap: no session opens before those of the last call end.
OneCall == \A n, m \in Active : n = m

\* Then the calls are numbered as they come, ...
AloneInv == \A n \in Calls, p \in Peers : end[n][p].pc # "none" => n = calls

\* ... a record has the newer secret in front, ...
RecordOf(c) ==
  /\ c.rs1 <= calls
  /\ c.v1 <=> c.rs1 # 0
  /\ c.rs2 < c.rs1 \/ c.rs2 = 0

\* ... the copy in engine e of call n is that of the file, c, ...
CopyOf(n, e, c) ==
  /\ e.pc \in {"hello", "read", "keys"} => c.rs1 < n
  /\ e.pc \in {"read", "keys"} => SameSecrets(e.rec, c) /\ (e.rec.sas => c.sas)
  /\ e.pc \in {"confirmed", "secure"} => e.rec = c
  /\ e.media => e.pc = "secure"

\* ... who has confirmed has stored the secret, ...
StoredInv ==
  \A n \in Calls, p \in Peers :
    Sent(n, p, "Confirm2") \/ Sent(n, p, "Conf2Ack") => cache[p].rs1 = n

\* ... and the ids that a phone announces are those of its file.
IdsOf(msg, f, c) ==
  msg.kind \in {"DHPart1", "DHPart2"} /\ f.pc \in {"hello", "read"} =>
    msg.ids \subseteq {c.rs1, c.rs2} /\ (c.v1 => c.rs1 \in msg.ids)

IdsInv ==
  \A n \in Calls : \A msg \in sent[n] :
    IdsOf(msg, end[n][Other(msg.from)], cache[msg.from])

SingleInv ==
  /\ AloneInv
  /\ \A p \in Peers : RecordOf(cache[p])
  /\ \A n \in Calls, p \in Peers : CopyOf(n, end[n][p], cache[p])
  /\ StoredInv
  /\ IdsInv

\* The peer, whose record is d, has stored the secret that record c has in
\* front.
Shared(c, d) == c.rs1 = d.rs1 \/ c.rs1 <= d.rs2

\* A flag in record c of p is about its first secret, and about the second one
\* if the peer, with record d, may still need that.
FlagOf(p, c, d) ==
  c.sas => /\ c.v1 /\ p \in trusted[c.rs1]
           /\ p \in trusted[c.rs2] \/ Shared(c, d)

KeyFlags ==
  \A n \in Calls, p \in Peers :
    end[n][p].pc = "keys" /\ end[n][p].rec.sas => p \in trusted[n]

TrustInv == KeyFlags /\ \A p \in Peers : FlagOf(p, cache[p], cache[Other(p)])

\* After one cut p has the common secret in the second place, where it is valid
\* or will be when the session stops.
BehindOf(p) ==
  /\ cache[Other(p)].v1 /\ cache[p].rs2 = cache[Other(p)].rs1
  /\ cache[p].v2 \/ \E n \in Calls : end[n][p].pc = "confirmed"

ContinuityInv ==
  /\ \A n \in Calls, p \in Peers : Sent(n, p, "Conf2Ack") => cuts = 0
  /\ cuts = 0 => \A p \in Peers : cache[p].v1 /\ cache[p].rs1 = cache[Other(p)].rs1
  /\ cuts = 1 => \E p \in Peers : BehindOf(p)

-----------------------------------------------------------------------------
(* Peers, records and engines.                                               *)

LEMMA TwoPeers ==
  ASSUME NEW p \in Peers
  PROVE  /\ Other(p) \in Peers /\ Other(p) # p /\ Other(Other(p)) = p
         /\ \A q \in Peers : q = p \/ q = Other(p)
<1>1. PICK a, b \in Peers : a # b /\ Peers = {a, b}
  BY PeersAssumption
<1>2. ASSUME NEW q \in Peers PROVE Other(q) \in Peers /\ Other(q) # q
  <2>1. \E o \in Peers : o # q
    BY <1>1
  <2> QED BY <2>1 DEF Other
<1> QED BY <1>1, <1>2

\* Only end p of call n changes, into e.
Changed(n, p, e) ==
  /\ end' \in [Calls -> [Peers -> Ends]]
  /\ end'[n][p] = e
  /\ \A m \in Calls, o \in Peers : m # n \/ o # p => end'[m][o] = end[m][o]

\* Only the packets of call n change, by msgs.
Added(n, msgs) ==
  /\ sent'[n] = sent[n] \union msgs
  /\ \A m \in Calls : m # n => sent'[m] = sent[m]

LEMMA SendAdds ==
  ASSUME TypeOK, NEW n \in Calls, NEW msg \in Messages, Send(n, msg)
  PROVE  Added(n, {msg}) /\ DOMAIN sent' = Calls /\ \A m \in Calls : sent'[m] \subseteq Messages
BY DEF TypeOK, Send, Added

LEMMA EndChanges ==
  ASSUME TypeOK, NEW n \in Calls, NEW p \in Peers, NEW e \in Ends,
         end' = [end EXCEPT ![n] = [end[n] EXCEPT ![p] = e]]
  PROVE  Changed(n, p, e)
BY DEF Changed, TypeOK

LEMMA MessageType ==
  ASSUME NEW msg \in Messages
  PROVE  /\ msg.from \in Peers
         /\ msg.kind \in {"Commit", "Conf2Ack", "DHPart1", "DHPart2", "Confirm1", "Confirm2"}
         /\ msg.kind \in {"DHPart1", "DHPart2"} => msg.ids \subseteq Secrets
         /\ msg.kind \in {"Confirm1", "Confirm2"} => msg.sas \in BOOLEAN
BY DEF Messages

LEMMA CallIsSecret == Calls \subseteq Secrets /\ 0 \in Secrets /\ NoSecret \notin Secrets
BY BoundsAssumption DEF Calls, Secrets, NoSecret

LEMMA EmptyTypes ==
  /\ EmptyRecord \in Records /\ EmptyRecord.rs1 = 0 /\ EmptyRecord.rs2 = 0
  /\ ~EmptyRecord.v1 /\ ~EmptyRecord.sas
  /\ Gone \in Ends /\ Gone.pc = "none" /\ Gone.rec = EmptyRecord /\ ~Gone.media
BY CallIsSecret DEF EmptyRecord, Records, Gone, Ends, Stages

LEMMA ConfirmedRecord ==
  ASSUME NEW r \in Records, NEW n \in Calls, NEW sas \in BOOLEAN
  PROVE  /\ Confirmed(r, n, sas) \in Records
         /\ Confirmed(r, n, sas).rs1 = n /\ Confirmed(r, n, sas).v1
         /\ Confirmed(r, n, sas).rs2 = r.rs1 /\ ~Confirmed(r, n, sas).v2
         /\ Confirmed(r, n, sas).sas = (r.sas /\ sas)
<1> DEFINE t == [r EXCEPT !.sas = @ /\ sas]
<1>1. t \in Records /\ t.rs1 = r.rs1 /\ t.sas = (r.sas /\ sas)
  BY DEF Records
<1>2. Confirmed(r, n, sas) =
        [t EXCEPT !.rs1 = n, !.v1 = TRUE, !.rs2 = t.rs1, !.v2 = FALSE]
  BY DEF Confirmed, WithNewRs1
<1> HIDE DEF t
<1> QED BY <1>1, <1>2, CallIsSecret DEF Records

LEMMA SelectType ==
  ASSUME NEW r \in Records, NEW ids
  PROVE  /\ Select(r, ids) \in Secrets \union {NoSecret}
         /\ Select(r, ids) # NoSecret => Select(r, ids) \in {r.rs1, r.rs2}
BY DEF Select, Records

LEMMA MatchedRecord ==
  ASSUME NEW r \in Records, NEW ids
  PROVE  /\ Matched(r, ids) \in Records
         /\ Matched(r, ids).rs1 = r.rs1 /\ Matched(r, ids).rs2 = r.rs2
         /\ Matched(r, ids).v1 = r.v1 /\ Matched(r, ids).v2 = r.v2
         /\ Matched(r, ids).sas => r.sas
BY DEF Matched, Records

-----------------------------------------------------------------------------
(* What each action does to the engine it is of.                             *)

LEMMA ReadEffect ==
  ASSUME TypeOK, NEW n \in Calls, NEW p \in Peers, Read(n, p)
  PROVE  Changed(n, p, [end[n][p] EXCEPT !.pc = "read", !.rec = cache[p]])
<1>1. end[n][p] \in Ends /\ cache[p] \in Records
  BY DEF TypeOK
<1>2. [end[n][p] EXCEPT !.pc = "read", !.rec = cache[p]] \in Ends
  BY <1>1 DEF Ends, Stages
<1>3. end' = [end EXCEPT ![n] = [end[n] EXCEPT ![p] =
                [end[n][p] EXCEPT !.pc = "read", !.rec = cache[p]]]]
  BY DEF Read, TypeOK
<1> QED BY <1>2, <1>3, EndChanges

LEMMA KeysEffect ==
  ASSUME TypeOK, NEW n \in Calls, NEW p \in Peers, NEW ids, GenerateKeys(n, p, ids)
  PROVE  /\ Changed(n, p, [end[n][p] EXCEPT !.pc = "keys",
                             !.s1 = Select(end[n][p].rec, ids),
                             !.rec = Matched(end[n][p].rec, ids)])
         /\ trusted' \in [Secrets -> SUBSET Peers]
<1> DEFINE r == end[n][p].rec
           e == [end[n][p] EXCEPT !.pc = "keys", !.s1 = Select(r, ids), !.rec = Matched(r, ids)]
<1>1. end[n][p] \in Ends /\ r \in Records
  BY DEF TypeOK, Ends
<1>2. Matched(r, ids) \in Records /\ Select(r, ids) \in Secrets \union {NoSecret}
  BY <1>1, MatchedRecord, SelectType
<1>3. e \in Ends
  BY <1>1, <1>2 DEF Ends, Stages
<1>4. end' = [end EXCEPT ![n] = [end[n] EXCEPT ![p] = e]]
  BY DEF GenerateKeys, TypeOK
<1>5. trusted' \in [Secrets -> SUBSET Peers]
  BY CallIsSecret DEF GenerateKeys, TypeOK
<1> HIDE DEF e
<1>6. Changed(n, p, e)
  BY <1>3, <1>4, EndChanges
<1> QED BY <1>5, <1>6 DEF e

LEMMA ConfirmEffect ==
  ASSUME TypeOK, NEW n \in Calls, NEW p \in Peers, NEW sas \in BOOLEAN,
         NEW pc \in {"confirmed", "secure"},
         end' = [end EXCEPT ![n][p].pc = pc, ![n][p].rec = Confirmed(end[n][p].rec, n, sas)],
         Save(p, Confirmed(end[n][p].rec, n, sas))
  PROVE  /\ Changed(n, p, [end[n][p] EXCEPT !.pc = pc, !.rec = Confirmed(end[n][p].rec, n, sas)])
         /\ cache' \in [Peers -> Records]
<1> DEFINE r == Confirmed(end[n][p].rec, n, sas)
<1>1. end[n][p] \in Ends /\ end[n][p].rec \in Records
  BY DEF TypeOK, Ends
<1>2. r \in Records
  BY <1>1, ConfirmedRecord
<1> HIDE DEF r
<1>3. [end[n][p] EXCEPT !.pc = pc, !.rec = r] \in Ends
  BY <1>1, <1>2 DEF Ends, Stages
<1>4. end' = [end EXCEPT ![n] = [end[n] EXCEPT ![p] =
                [end[n][p] EXCEPT !.pc = pc, !.rec = r]]]
  BY DEF TypeOK, r
<1>5. cache' \in [Peers -> Records]
  BY <1>2 DEF Save, TypeOK, r
<1>6. Changed(n, p, [end[n][p] EXCEPT !.pc = pc, !.rec = r])
  BY <1>3, <1>4, EndChanges
<1> QED BY <1>5, <1>6 DEF r

LEMMA AckEffect ==
  ASSUME TypeOK, NEW n \in Calls, NEW p \in Peers, HandleConf2Ack(n, p)
  PROVE  Changed(n, p, [end[n][p] EXCEPT !.pc = "secure"])
<1>1. end[n][p] \in Ends
  BY DEF TypeOK
<1>2. [end[n][p] EXCEPT !.pc = "secure"] \in Ends
  BY <1>1 DEF Ends, Stages
<1>3. end' = [end EXCEPT ![n] = [end[n] EXCEPT ![p] = [end[n][p] EXCEPT !.pc = "secure"]]]
  BY DEF HandleConf2Ack, TypeOK
<1> QED BY <1>2, <1>3, EndChanges

LEMMA MediaEffect ==
  ASSUME TypeOK, NEW n \in Calls, NEW p \in Peers, Media(n, p)
  PROVE  Changed(n, p, [end[n][p] EXCEPT !.media = TRUE])
<1>1. end[n][p] \in Ends
  BY DEF TypeOK
<1>2. [end[n][p] EXCEPT !.media = TRUE] \in Ends
  BY <1>1 DEF Ends
<1>3. end' = [end EXCEPT ![n] = [end[n] EXCEPT ![p] = [end[n][p] EXCEPT !.media = TRUE]]]
  BY DEF Media, TypeOK
<1> QED BY <1>2, <1>3, EndChanges

LEMMA VerifyEffect ==
  ASSUME TypeOK, NEW n \in Calls, NEW p \in Peers, NEW yes \in BOOLEAN, SetVerify(n, p, yes)
  PROVE  /\ Changed(n, p, [end[n][p] EXCEPT !.rec = [end[n][p].rec EXCEPT !.sas = yes]])
         /\ cache' \in [Peers -> Records] /\ trusted' \in [Secrets -> SUBSET Peers]
<1> DEFINE r == [end[n][p].rec EXCEPT !.sas = yes]
<1>1. end[n][p] \in Ends /\ end[n][p].rec \in Records
  BY DEF TypeOK, Ends
<1>2. r \in Records
  BY <1>1 DEF Records
<1>3. end' = [end EXCEPT ![n] = [end[n] EXCEPT ![p] = [end[n][p] EXCEPT !.rec = r]]]
  BY DEF SetVerify, TypeOK
<1>4. cache' \in [Peers -> Records]
  BY <1>2 DEF SetVerify, Save, TypeOK
<1>5. trusted' \in [Secrets -> SUBSET Peers]
  BY CallIsSecret DEF SetVerify, TypeOK
<1> HIDE DEF r
<1>6. [end[n][p] EXCEPT !.rec = r] \in Ends
  BY <1>1, <1>2 DEF Ends
<1>7. Changed(n, p, [end[n][p] EXCEPT !.rec = r])
  BY <1>3, <1>6, EndChanges
<1> QED BY <1>4, <1>5, <1>7 DEF r

\* Sessions of p are gone, and the packets of the calls that nobody is in.
Forgotten(ns, p) ==
  /\ end' \in [Calls -> [Peers -> Ends]]
  /\ \A m \in Calls, o \in Peers :
       end'[m][o] = IF m \in ns /\ o = p THEN Gone ELSE end[m][o]
  /\ DOMAIN sent' = Calls
  /\ \A m \in Calls :
       sent'[m] = IF m \in ns /\ end[m][Other(p)].pc = "none" THEN {} ELSE sent[m]

LEMMA LeaveEffect ==
  ASSUME TypeOK, NEW p \in Peers, NEW ns, Leave(ns, p)
  PROVE  Forgotten(ns, p)
<1>1. ASSUME NEW m \in Calls
      PROVE  /\ end'[m] = IF m \in ns THEN [end[m] EXCEPT ![p] = Gone] ELSE end[m]
             /\ end'[m] \in [Peers -> Ends]
  BY EmptyTypes DEF Leave, TypeOK
<1>2. end' \in [Calls -> [Peers -> Ends]]
  BY <1>1 DEF Leave
<1>3. \A m \in Calls, o \in Peers :
        end'[m][o] = IF m \in ns /\ o = p THEN Gone ELSE end[m][o]
  BY <1>1 DEF TypeOK
<1> QED BY <1>2, <1>3 DEF Leave, Forgotten

LEMMA StartEffect ==
  ASSUME TypeOK, StartCall
  PROVE  /\ calls + 1 \in Calls /\ calls' = calls + 1
         /\ end' \in [Calls -> [Peers -> Ends]]
         /\ \A o \in Peers : end'[calls + 1][o] = [Gone EXCEPT !.pc = "hello"]
         /\ \A m \in Calls : m # calls + 1 => end'[m] = end[m]
<1>1. calls + 1 \in Calls /\ calls' = calls + 1
  BY BoundsAssumption DEF StartCall, TypeOK, Calls
<1>2. [Gone EXCEPT !.pc = "hello"] \in Ends
  BY EmptyTypes DEF Ends, Stages
<1> QED BY <1>1, <1>2 DEF StartCall, TypeOK

-----------------------------------------------------------------------------
(* Type correctness.                                                         *)

LEMMA TypeInit == Init => TypeOK
BY EmptyTypes, BoundsAssumption DEF Init, TypeOK, Calls, Secrets

LEMMA ValidSecrets ==
  ASSUME NEW r \in Records
  PROVE  Valid(r) \subseteq Secrets
BY DEF Valid, Records

\* The packets of an action are packets.
LEMMA SentTypes ==
  ASSUME TypeOK, NEW n \in Calls, NEW p \in Peers
  PROVE  /\ [from |-> p, kind |-> "Commit"] \in Messages
         /\ [from |-> p, kind |-> "Conf2Ack"] \in Messages
         /\ [from |-> p, kind |-> "DHPart1", ids |-> Valid(end[n][p].rec)] \in Messages
         /\ [from |-> p, kind |-> "DHPart2", ids |-> Valid(end[n][p].rec)] \in Messages
         /\ \A ids : [from |-> p, kind |-> "Confirm1", s1 |-> Select(end[n][p].rec, ids),
                      sas |-> Matched(end[n][p].rec, ids).sas] \in Messages
         /\ \A sas \in BOOLEAN :
              [from |-> p, kind |-> "Confirm2",
               sas |-> Confirmed(end[n][p].rec, n, sas).sas] \in Messages
<1> DEFINE r == end[n][p].rec
<1>1. r \in Records
  BY DEF TypeOK, Ends
<1> HIDE DEF r
<1>2. Valid(r) \in SUBSET Secrets
  BY <1>1, ValidSecrets
<1>3. \A ids : Select(r, ids) \in Secrets \union {NoSecret} /\ Matched(r, ids).sas \in BOOLEAN
  <2> TAKE ids
  <2>1. Matched(r, ids) \in Records
    BY <1>1, MatchedRecord
  <2> QED BY <1>1, <2>1, SelectType DEF Records
<1>4. \A sas \in BOOLEAN : Confirmed(r, n, sas).sas \in BOOLEAN
  <2> TAKE sas \in BOOLEAN
  <2>1. Confirmed(r, n, sas) \in Records
    BY <1>1, ConfirmedRecord
  <2> QED BY <2>1 DEF Records
<1>5. \A k \in {"Commit", "Conf2Ack"} : [from |-> p, kind |-> k] \in Messages
  BY DEF Messages
<1>6. \A k \in {"DHPart1", "DHPart2"} : [from |-> p, kind |-> k, ids |-> Valid(r)] \in Messages
  BY <1>2 DEF Messages
<1>7. \A s \in Secrets \union {NoSecret}, b \in BOOLEAN :
        [from |-> p, kind |-> "Confirm1", s1 |-> s, sas |-> b] \in Messages
  BY DEF Messages
<1>8. \A b \in BOOLEAN : [from |-> p, kind |-> "Confirm2", sas |-> b] \in Messages
  BY DEF Messages
<1> QED BY <1>3, <1>4, <1>5, <1>6, <1>7, <1>8 DEF r

LEMMA ReceivedType ==
  ASSUME TypeOK, NEW n \in Calls, NEW p \in Peers, NEW kind, NEW msg \in Received(n, p, kind)
  PROVE  msg \in sent[n] /\ msg \in Messages /\ msg.from = Other(p) /\ msg.kind = kind
<1>1. msg \in sent[n] /\ msg \in Messages /\ msg.from # p /\ msg.kind = kind
  BY DEF Received, TypeOK
<1> QED BY <1>1, MessageType, TwoPeers

LEMMA TypeNext == TypeOK /\ [Next]_vars => TypeOK'
<1> SUFFICES ASSUME TypeOK, [Next]_vars PROVE TypeOK'
  OBVIOUS
<1>1. CASE StartCall
  <2>1. end' \in [Calls -> [Peers -> Ends]] /\ calls' \in 0 .. MaxCalls
    BY <1>1, StartEffect DEF Calls
  <2> QED BY <1>1, <2>1 DEF StartCall, TypeOK
<1>2. ASSUME NEW n \in Calls, NEW p \in Peers,
             \/ Read(n, p) \/ SendCommit(n, p) \/ AnswerCommit(n, p)
             \/ InitiatorKeys(n, p) \/ ResponderKeys(n, p)
             \/ HandleConfirm1(n, p) \/ HandleConfirm2(n, p) \/ HandleConf2Ack(n, p)
             \/ Media(n, p) \/ (\E yes \in BOOLEAN : SetVerify(n, p, yes)) \/ Stop(n, p)
      PROVE  TypeOK'
  <2>1. CASE Read(n, p)
    BY <2>1, ReadEffect DEF Changed, TypeOK, Read
  <2>2. CASE SendCommit(n, p)
    BY <2>2, SendAdds, SentTypes DEF TypeOK, SendCommit
  <2>3. CASE AnswerCommit(n, p)
    BY <2>3, SendAdds, SentTypes DEF TypeOK, AnswerCommit
  <2>4. CASE InitiatorKeys(n, p)
    <3>1. PICK msg \in Received(n, p, "DHPart1") :
            /\ GenerateKeys(n, p, msg.ids)
            /\ Send(n, [from |-> p, kind |-> "DHPart2", ids |-> Valid(end[n][p].rec)])
      BY <2>4 DEF InitiatorKeys
    <3>2. end' \in [Calls -> [Peers -> Ends]] /\ trusted' \in [Secrets -> SUBSET Peers]
      BY <3>1, KeysEffect DEF Changed
    <3>3. DOMAIN sent' = Calls /\ \A m \in Calls : sent'[m] \subseteq Messages
      BY <3>1, SendAdds, SentTypes
    <3> QED BY <3>1, <3>2, <3>3 DEF GenerateKeys, TypeOK
  <2>5. CASE ResponderKeys(n, p)
    <3>1. PICK msg \in Received(n, p, "DHPart2") :
            /\ GenerateKeys(n, p, msg.ids)
            /\ Send(n, [from |-> p, kind |-> "Confirm1", s1 |-> Select(end[n][p].rec, msg.ids),
                        sas |-> Matched(end[n][p].rec, msg.ids).sas])
      BY <2>5 DEF ResponderKeys
    <3>2. end' \in [Calls -> [Peers -> Ends]] /\ trusted' \in [Secrets -> SUBSET Peers]
      BY <3>1, KeysEffect DEF Changed
    <3>3. DOMAIN sent' = Calls /\ \A m \in Calls : sent'[m] \subseteq Messages
      BY <3>1, SendAdds, SentTypes
    <3> QED BY <3>1, <3>2, <3>3 DEF GenerateKeys, TypeOK
  <2>6. CASE HandleConfirm1(n, p)
    <3>1. PICK msg \in Received(n, p, "Confirm1") :
            LET r == Confirmed(end[n][p].rec, n, msg.sas) IN
            /\ Save(p, r)
            /\ end' = [end EXCEPT ![n][p].pc = "confirmed", ![n][p].rec = r]
            /\ Send(n, [from |-> p, kind |-> "Confirm2", sas |-> r.sas])
            /\ cuts' = IF cuts = 2 THEN 2 ELSE cuts + 1
            /\ UNCHANGED <<calls, trusted>>
      BY <2>6 DEF HandleConfirm1
    <3>2. msg.sas \in BOOLEAN
      BY <3>1, ReceivedType, MessageType
    <3>3. end' \in [Calls -> [Peers -> Ends]] /\ cache' \in [Peers -> Records]
      BY <3>1, <3>2, ConfirmEffect DEF Changed
    <3>4. DOMAIN sent' = Calls /\ \A m \in Calls : sent'[m] \subseteq Messages
      BY <3>1, <3>2, SendAdds, SentTypes
    <3>5. cuts' \in 0 .. 2
      BY <3>1 DEF TypeOK
    <3> QED BY <3>1, <3>3, <3>4, <3>5 DEF TypeOK
  <2>7. CASE HandleConfirm2(n, p)
    <3>1. PICK msg \in Received(n, p, "Confirm2") :
            LET r == Confirmed(end[n][p].rec, n, msg.sas) IN
            /\ Save(p, r)
            /\ end' = [end EXCEPT ![n][p].pc = "secure", ![n][p].rec = r]
            /\ Send(n, [from |-> p, kind |-> "Conf2Ack"])
            /\ cuts' = 0
            /\ UNCHANGED <<calls, trusted>>
      BY <2>7 DEF HandleConfirm2
    <3>2. msg.sas \in BOOLEAN
      BY <3>1, ReceivedType, MessageType
    <3>3. end' \in [Calls -> [Peers -> Ends]] /\ cache' \in [Peers -> Records]
      BY <3>1, <3>2, ConfirmEffect DEF Changed
    <3>4. DOMAIN sent' = Calls /\ \A m \in Calls : sent'[m] \subseteq Messages
      BY <3>1, SendAdds, SentTypes
    <3> QED BY <3>1, <3>3, <3>4 DEF TypeOK
  <2>8. CASE HandleConf2Ack(n, p)
    BY <2>8, AckEffect DEF Changed, TypeOK, HandleConf2Ack
  <2>9. CASE Media(n, p)
    BY <2>9, MediaEffect DEF Changed, TypeOK, Media
  <2>10. ASSUME NEW yes \in BOOLEAN, SetVerify(n, p, yes) PROVE TypeOK'
    BY <2>10, VerifyEffect DEF Changed, TypeOK, SetVerify
  <2>11. CASE Stop(n, p)
    <3>1. Forgotten({n}, p)
      BY <2>11, LeaveEffect DEF Stop
    <3>2. \A m \in Calls : sent'[m] \subseteq Messages
      BY <3>1 DEF Forgotten, TypeOK
    <3>3. cache' \in [Peers -> Records]
      <4>1. end[n][p].rec \in Records
        BY DEF TypeOK, Ends
      <4>2. [end[n][p].rec EXCEPT !.v2 = TRUE] \in Records
        BY <4>1 DEF Records
      <4> QED BY <2>11, <4>2 DEF Stop, Save, TypeOK
    <3> QED BY <2>11, <3>1, <3>2, <3>3 DEF Stop, Forgotten, TypeOK
  <2> QED
    BY <1>2, <2>1, <2>2, <2>3, <2>4, <2>5, <2>6, <2>7, <2>8, <2>9, <2>10, <2>11
<1>3. ASSUME NEW p \in Peers, Crash(p) PROVE TypeOK'
  <2>1. PICK ns : Leave(ns, p)
    BY <1>3 DEF Crash
  <2>2. Forgotten(ns, p)
    BY <2>1, LeaveEffect
  <2>3. \A m \in Calls : sent'[m] \subseteq Messages
    BY <2>2 DEF Forgotten, TypeOK
  <2>4. cuts' \in 0 .. 2
    BY <1>3 DEF Crash, TypeOK
  <2> QED BY <1>3, <2>2, <2>3, <2>4 DEF Crash, Forgotten, TypeOK
<1>4. CASE LoseCache
  BY <1>4, EmptyTypes DEF LoseCache, TypeOK
<1>5. CASE UNCHANGED vars
  BY <1>5 DEF vars, TypeOK
<1> QED BY <1>1, <1>2, <1>3, <1>4, <1>5 DEF Next

\* The type invariant, for any number of calls and of calls at a time.
THEOREM RetainedTypeCorrect == Spec => []TypeOK
<1> QED BY TypeInit, TypeNext, PTL DEF Spec

-----------------------------------------------------------------------------
(* The packets of a call.                                                    *)

LEMMA SentAdded ==
  ASSUME NEW n \in Calls, NEW p, NEW msg, msg.from = p, Added(n, {msg})
  PROVE  /\ \A o, k : Sent(n, o, k)' <=> Sent(n, o, k) \/ (o = p /\ k = msg.kind)
         /\ \A m \in Calls : \A o, k : m # n => (Sent(m, o, k)' <=> Sent(m, o, k))
BY DEF Sent, Added

\* A call whose ends and packets stay.
LEMMA CallKept ==
  ASSUME TypeOK, NEW m \in Calls, OrderInv(m), StageInv(m), ContentInv(m),
         \A o \in Peers : end'[m][o] = end[m][o], sent'[m] = sent[m],
         m > calls' => m > calls
  PROVE  OrderInv(m)' /\ StageInv(m)' /\ ContentInv(m)'
<1>1. \A o, k : Sent(m, o, k)' <=> Sent(m, o, k)
  BY DEF Sent
<1>2. \A o \in Peers : OrderOf(m, o)' /\ StageOf(m, o, end[m][o].pc)'
  BY <1>1 DEF OrderOf, StageOf, OrderInv, StageInv
<1>3. OrderInv(m)'
  BY <1>2 DEF OrderInv
<1>4. StageInv(m)'
  BY <1>2 DEF StageInv
<1>5. ContentInv(m)'
  <2>1. \A msg \in sent[m] : msg.from \in Peers /\ Other(msg.from) \in Peers
    BY MessageType, TwoPeers DEF TypeOK
  <2> QED BY <2>1 DEF ContentInv
<1> QED BY <1>3, <1>4, <1>5

\* A call that one end leaves, with the packets when the other has left.
LEMMA CallLeft ==
  ASSUME TypeOK, NEW m \in Calls, OrderInv(m), StageInv(m), ContentInv(m),
         NEW p \in Peers, end'[m][p] = Gone, end'[m][Other(p)] = end[m][Other(p)],
         sent'[m] = IF end[m][Other(p)].pc = "none" THEN {} ELSE sent[m],
         calls' = calls
  PROVE  OrderInv(m)' /\ StageInv(m)' /\ ContentInv(m)'
<1>1. Other(p) \in Peers /\ (\A o \in Peers : o = p \/ o = Other(p)) /\ Gone.pc = "none"
  BY TwoPeers, EmptyTypes
<1>2. CASE end[m][Other(p)].pc = "none"
  <2>1. sent'[m] = {} /\ \A o \in Peers : end'[m][o].pc = "none"
    BY <1>1, <1>2
  <2>2. \A o, k : ~Sent(m, o, k)'
    BY <2>1 DEF Sent
  <2>3. OrderInv(m)'
    BY <2>1, <2>2 DEF OrderInv, OrderOf
  <2>4. StageInv(m)'
    BY <2>1, <2>2 DEF StageInv, StageOf
  <2>5. ContentInv(m)'
    BY <2>1 DEF ContentInv
  <2> QED BY <2>3, <2>4, <2>5
<1>3. CASE end[m][Other(p)].pc # "none"
  <2>1. sent'[m] = sent[m]
    BY <1>3
  <2>2. \A o, k : Sent(m, o, k)' <=> Sent(m, o, k)
    BY <2>1 DEF Sent
  <2>3. OrderInv(m)'
    <3>1. \A o \in Peers : OrderOf(m, o)'
      BY <2>2 DEF OrderInv, OrderOf
    <3> QED BY <1>1, <1>3, <2>1, <3>1 DEF OrderInv
  <2>4. StageInv(m)'
    <3>1. StageOf(m, p, end[m][p].pc)'
      BY <1>1 DEF StageOf
    <3>2. StageOf(m, Other(p), end[m][Other(p)].pc)'
      BY <1>1, <2>2 DEF StageInv, StageOf
    <3> QED BY <1>1, <3>1, <3>2 DEF StageInv
  <2>5. ContentInv(m)'
    <3> SUFFICES ASSUME NEW msg \in sent[m]
                 PROVE  ContentOf(msg, end'[m][msg.from], end'[m][Other(msg.from)])
      BY <2>1 DEF ContentInv
    <3>1. msg.from \in Peers
      BY MessageType DEF TypeOK
    <3>2. ContentOf(msg, end[m][msg.from], end[m][Other(msg.from)])
      BY DEF ContentInv
    <3>3. CASE msg.from = p
      BY <1>1, <3>2, <3>3 DEF ContentOf
    <3>4. CASE msg.from = Other(p)
      <4>1. Other(Other(p)) = p
        BY TwoPeers
      <4> QED BY <1>1, <3>2, <3>4, <4>1 DEF ContentOf
    <3> QED BY <1>1, <3>1, <3>3, <3>4
  <2> QED BY <2>3, <2>4, <2>5
<1> QED BY <1>2, <1>3

\* Which answer may follow which packet.
Answers(n, p, kind) ==
  LET q == Other(p) IN
  \/ kind = "Commit" /\ ~Sent(n, q, "Commit")
  \/ kind = "DHPart1" /\ Sent(n, q, "Commit")
  \/ kind = "DHPart2" /\ Sent(n, q, "DHPart1")
  \/ kind = "Confirm1" /\ Sent(n, q, "DHPart2")
  \/ kind = "Confirm2" /\ Sent(n, q, "Confirm1")
  \/ kind = "Conf2Ack" /\ Sent(n, q, "Confirm2")

LEMMA OrderAdded ==
  ASSUME NEW n \in Calls, NEW p \in Peers, NEW msg, msg.from = p, Added(n, {msg}),
         OrderInv(n), Answers(n, p, msg.kind), end[n][p].pc # "none",
         end'[n][p].pc # "none", calls' = calls
  PROVE  OrderInv(n)'
<1>1. /\ \A o, k : Sent(n, o, k)' <=> Sent(n, o, k) \/ (o = p /\ k = msg.kind)
  BY SentAdded
<1>2. Other(p) \in Peers /\ Other(p) # p /\ Other(Other(p)) = p
      /\ \A o \in Peers : o = p \/ o = Other(p)
  BY TwoPeers
<1>3. OrderOf(n, p) /\ OrderOf(n, Other(p)) /\ ~(n > calls)
  BY <1>2 DEF OrderInv
<1>4. OrderOf(n, p)'
  BY <1>1, <1>2, <1>3 DEF OrderOf, Answers
<1>5. OrderOf(n, Other(p))'
  BY <1>1, <1>2, <1>3 DEF OrderOf, Answers
<1> QED BY <1>2, <1>3, <1>4, <1>5 DEF OrderInv

LEMMA StageAdded ==
  ASSUME NEW n \in Calls, NEW p \in Peers, StageInv(n),
         end'[n][Other(p)].pc = end[n][Other(p)].pc,
         \A o, k : Sent(n, o, k) => Sent(n, o, k)',
         \A k : Sent(n, Other(p), k)' => Sent(n, Other(p), k),
         StageOf(n, p, end[n][p].pc)'
  PROVE  StageInv(n)'
<1>1. Other(p) \in Peers /\ \A o \in Peers : o = p \/ o = Other(p)
  BY TwoPeers
<1>2. StageOf(n, Other(p), end[n][Other(p)].pc)'
  BY <1>1 DEF StageInv, StageOf
<1> QED BY <1>1, <1>2 DEF StageInv

\* The content of the packets, seen from end p: those it sent and those it got.
LEMMA ContentSides ==
  ASSUME TypeOK', NEW n \in Calls, NEW p \in Peers,
         \A msg \in sent'[n] :
           /\ msg.from = p => ContentOf(msg, end'[n][p], end'[n][Other(p)])
           /\ msg.from = Other(p) => ContentOf(msg, end'[n][Other(p)], end'[n][p])
  PROVE  ContentInv(n)'
<1>1. \A msg \in sent'[n] : msg.from \in Peers
  BY MessageType DEF TypeOK
<1> QED BY <1>1, TwoPeers DEF ContentInv

\* A step of end p of call n, with at most one packet.
LEMMA CallStep ==
  ASSUME TypeOK, TypeOK', CallInv, calls' = calls, NEW n \in Calls, NEW p \in Peers, NEW e,
         Changed(n, p, e), e.pc # "none", end[n][p].pc # "none",
         \/ UNCHANGED sent
         \/ \E msg : msg.from = p /\ Answers(n, p, msg.kind) /\ Added(n, {msg}),
         StageOf(n, p, end[n][p].pc)',
         \A msg \in sent'[n] :
           /\ msg.from = p => ContentOf(msg, e, end[n][Other(p)])
           /\ msg.from = Other(p) => ContentOf(msg, end[n][Other(p)], e)
  PROVE  CallInv'
<1>1. Other(p) \in Peers /\ Other(p) # p
  BY TwoPeers
<1>2. end'[n][p] = e /\ end'[n][Other(p)] = end[n][Other(p)]
  BY <1>1 DEF Changed
<1>3. OrderInv(n) /\ StageInv(n)
  BY DEF CallInv
<1>4. /\ \A o, k : Sent(n, o, k) => Sent(n, o, k)'
      /\ \A k : Sent(n, Other(p), k)' => Sent(n, Other(p), k)
  <2>1. CASE UNCHANGED sent
    BY <2>1 DEF Sent
  <2>2. ASSUME NEW msg, msg.from = p, Added(n, {msg})
        PROVE  /\ \A o, k : Sent(n, o, k) => Sent(n, o, k)'
               /\ \A k : Sent(n, Other(p), k)' => Sent(n, Other(p), k)
    BY <1>1, <2>2, SentAdded
  <2> QED BY <2>1, <2>2
<1>5. OrderInv(n)'
  <2>1. CASE UNCHANGED sent
    <3>1. \A o, k : Sent(n, o, k)' <=> Sent(n, o, k)
      BY <2>1 DEF Sent
    <3>2. \A o \in Peers : OrderOf(n, o)'
      BY <1>3, <3>1 DEF OrderInv, OrderOf
    <3> QED BY <1>2, <1>3, <2>1, <3>2 DEF OrderInv
  <2>2. ASSUME NEW msg, msg.from = p, Answers(n, p, msg.kind), Added(n, {msg})
        PROVE  OrderInv(n)'
    BY <1>2, <1>3, <2>2, OrderAdded
  <2> QED BY <2>1, <2>2
<1>6. StageInv(n)'
  BY <1>2, <1>3, <1>4, StageAdded
<1>7. ContentInv(n)'
  BY <1>2, ContentSides
<1>8. ASSUME NEW m \in Calls, m # n PROVE OrderInv(m)' /\ StageInv(m)' /\ ContentInv(m)'
  <2>1. \A o \in Peers : end'[m][o] = end[m][o]
    BY <1>8 DEF Changed
  <2>2. sent'[m] = sent[m]
    BY <1>8 DEF Added
  <2>3. OrderInv(m) /\ StageInv(m) /\ ContentInv(m)
    BY DEF CallInv
  <2>4. m > calls' => m > calls
    OBVIOUS
  <2> QED BY <2>1, <2>2, <2>3, <2>4, CallKept
<1> QED BY <1>5, <1>6, <1>7, <1>8 DEF CallInv

-----------------------------------------------------------------------------
(* Both ends select the same secret.                                         *)

\* Two records of which neither has the secrets of the other in opposite order.
LEMMA SelectAgree ==
  ASSUME NEW r \in Records, NEW t \in Records,
         r.v1 <=> r.rs1 # 0, t.v1 <=> t.rs1 # 0,
         r.rs1 = 0 => r.rs2 = 0, t.rs1 = 0 => t.rs2 = 0,
         r.rs1 = t.rs1 \/ ~Follows(t, r.rs2, r.rs1)
  PROVE  Select(r, Valid(t)) = Select(t, Valid(r))
<1>1. \A s : s \in Valid(r) <=> (r.v1 /\ s = r.rs1) \/ (r.v2 /\ s = r.rs2)
  BY DEF Valid
<1>2. \A s : s \in Valid(t) <=> (t.v1 /\ s = t.rs1) \/ (t.v2 /\ s = t.rs2)
  BY DEF Valid
<1>3. CASE r.rs1 = t.rs1
  BY <1>1, <1>2, <1>3 DEF Select
<1>4. CASE r.rs1 # t.rs1 /\ r.v1 /\ r.rs1 \in Valid(t)
  BY <1>1, <1>2, <1>4 DEF Select, Follows
<1>5. CASE r.rs1 # t.rs1 /\ t.v1 /\ t.rs1 \in Valid(r)
  BY <1>1, <1>2, <1>5 DEF Select, Follows
<1>6. CASE r.rs1 # t.rs1 /\ ~(r.v1 /\ r.rs1 \in Valid(t)) /\ ~(t.v1 /\ t.rs1 \in Valid(r))
  BY <1>1, <1>2, <1>6 DEF Select, Follows
<1> QED BY <1>3, <1>4, <1>5, <1>6

LEMMA MatchedSelects ==
  ASSUME NEW r \in Records, NEW ids
  PROVE  /\ Valid(Matched(r, ids)) = Valid(r)
         /\ \A s : Select(Matched(r, ids), s) = Select(r, s)
BY MatchedRecord DEF Valid, Select

-----------------------------------------------------------------------------
(* CallInv is inductive.                                                     *)

LEMMA CallRead ==
  ASSUME TypeOK, TypeOK', CallInv, NEW n \in Calls, NEW p \in Peers, Read(n, p)
  PROVE  CallInv'
<1> DEFINE e == [end[n][p] EXCEPT !.pc = "read", !.rec = cache[p]]
<1>1. Changed(n, p, e) /\ end[n][p].pc = "hello" /\ UNCHANGED <<calls, sent>>
  BY ReadEffect DEF Read
<1>2. e.pc = "read" /\ end[n][p] \in Ends
  BY DEF TypeOK, Ends
<1>3. StageOf(n, p, "hello") /\ OrderOf(n, p) /\ OrderOf(n, Other(p)) /\ ContentInv(n)
  BY <1>1, TwoPeers DEF CallInv, StageInv, OrderInv
<1>4. \A o, k : Sent(n, o, k)' <=> Sent(n, o, k)
  BY <1>1 DEF Sent
<1>5. end'[n][p] = e
  BY <1>1 DEF Changed
<1>6. StageOf(n, p, end[n][p].pc)'
  BY <1>2, <1>3, <1>4, <1>5 DEF StageOf
<1>7. \A k : k \in {"DHPart1", "DHPart2", "Confirm1", "Confirm2"} => ~Sent(n, p, k)
  BY <1>3 DEF StageOf
<1>8. \A k : k \in {"DHPart1", "DHPart2", "Confirm1", "Confirm2"} => ~Sent(n, Other(p), k)
  BY <1>3, <1>7, TwoPeers DEF StageOf, OrderOf
<1>9. \A msg \in sent[n] : msg.from \in {p, Other(p)} =>
        msg.kind \notin {"DHPart1", "DHPart2", "Confirm1", "Confirm2"}
  BY <1>7, <1>8 DEF Sent
<1> HIDE DEF e
<1>10. \A msg \in sent'[n] :
         /\ msg.from = p => ContentOf(msg, e, end[n][Other(p)])
         /\ msg.from = Other(p) => ContentOf(msg, end[n][Other(p)], e)
  BY <1>1, <1>9 DEF ContentOf
<1> QED BY <1>1, <1>2, <1>6, <1>10, CallStep

\* What can be there when p has no keys yet, or has not confirmed.
LEMMA EarlyPackets ==
  ASSUME TypeOK, CallInv, NEW n \in Calls, NEW p \in Peers, NEW msg \in sent[n]
  PROVE  /\ end[n][p].pc \in {"hello", "read"} =>
              /\ msg.from = p => msg.kind \in {"Commit", "DHPart1"}
              /\ msg.from = Other(p) => msg.kind \in {"Commit", "DHPart1", "DHPart2"}
         /\ end[n][p].pc = "keys" =>
              /\ msg.from = p => msg.kind \notin {"Confirm2", "Conf2Ack"}
              /\ msg.from = Other(p) => msg.kind # "Conf2Ack"
<1>1. StageOf(n, p, end[n][p].pc) /\ OrderOf(n, p) /\ OrderOf(n, Other(p))
      /\ Other(Other(p)) = p
  BY TwoPeers DEF CallInv, StageInv, OrderInv
<1>2. Sent(n, msg.from, msg.kind)
  BY DEF Sent
<1>3. msg.kind \in {"Commit", "Conf2Ack", "DHPart1", "DHPart2", "Confirm1", "Confirm2"}
  BY MessageType DEF TypeOK
<1>4. CASE end[n][p].pc \in {"hello", "read"}
  BY <1>1, <1>2, <1>3, <1>4 DEF StageOf, OrderOf
<1>5. CASE end[n][p].pc = "keys"
  BY <1>1, <1>2, <1>3, <1>5 DEF StageOf, OrderOf
<1> QED BY <1>4, <1>5

LEMMA EndKept ==
  ASSUME TypeOK, UNCHANGED end, NEW n \in Calls, NEW p \in Peers
  PROVE  Changed(n, p, end[n][p])
BY DEF Changed, TypeOK

LEMMA CallCommit ==
  ASSUME TypeOK, TypeOK', CallInv, NEW n \in Calls, NEW p \in Peers, SendCommit(n, p)
  PROVE  CallInv'
<1> DEFINE msg == [from |-> p, kind |-> "Commit"]
<1>1. Changed(n, p, end[n][p]) /\ end[n][p].pc = "read" /\ UNCHANGED <<calls, end>>
  BY EndKept DEF SendCommit
<1>2. Added(n, {msg}) /\ msg.from = p /\ Answers(n, p, msg.kind)
  BY SendAdds, SentTypes DEF SendCommit, Answers, Sent
<1>3. StageOf(n, p, end[n][p].pc)'
  <2>1. StageOf(n, p, "read")
    BY <1>1 DEF CallInv, StageInv
  <2>2. \A k : Sent(n, p, k)' <=> Sent(n, p, k) \/ k = "Commit"
    <3>1. msg.from = p /\ msg.kind = "Commit" /\ Added(n, {msg})
      BY <1>2
    <3> HIDE DEF msg
    <3> QED BY <3>1, SentAdded
  <2>3. end'[n][p].pc = "read"
    BY <1>1
  <2> QED BY <2>1, <2>2, <2>3 DEF StageOf
<1>4. \A m \in sent'[n] :
        /\ m.from = p => ContentOf(m, end[n][p], end[n][Other(p)])
        /\ m.from = Other(p) => ContentOf(m, end[n][Other(p)], end[n][p])
  <2>1. \A m \in sent[n] : ContentOf(m, end[n][m.from], end[n][Other(m.from)])
    BY DEF CallInv, ContentInv
  <2>2. ContentOf(msg, end[n][p], end[n][Other(p)])
    BY DEF ContentOf
  <2> QED BY <1>2, <2>1, <2>2, TwoPeers DEF Added
<1> QED BY <1>1, <1>2, <1>3, <1>4, CallStep

LEMMA CallAnswer ==
  ASSUME TypeOK, TypeOK', CallInv, NEW n \in Calls, NEW p \in Peers, AnswerCommit(n, p)
  PROVE  CallInv'
<1> DEFINE msg == [from |-> p, kind |-> "DHPart1", ids |-> Valid(end[n][p].rec)]
<1>1. Changed(n, p, end[n][p]) /\ end[n][p].pc = "read" /\ UNCHANGED <<calls, end>>
  BY EndKept DEF AnswerCommit
<1>2. Added(n, {msg}) /\ msg.from = p /\ Answers(n, p, msg.kind)
  <2>1. Sent(n, Other(p), "Commit")
    BY ReceivedType DEF AnswerCommit, Sent
  <2> QED BY <2>1, SendAdds, SentTypes DEF AnswerCommit, Answers
<1>3. StageOf(n, p, end[n][p].pc)'
  <2>1. StageOf(n, p, "read")
    BY <1>1 DEF CallInv, StageInv
  <2>2. \A k : Sent(n, p, k)' <=> Sent(n, p, k) \/ k = "DHPart1"
    <3>1. msg.from = p /\ msg.kind = "DHPart1" /\ Added(n, {msg})
      BY <1>2
    <3> HIDE DEF msg
    <3> QED BY <3>1, SentAdded
  <2>3. end'[n][p].pc = "read"
    BY <1>1
  <2> QED BY <2>1, <2>2, <2>3 DEF StageOf
<1>4. \A m \in sent'[n] :
        /\ m.from = p => ContentOf(m, end[n][p], end[n][Other(p)])
        /\ m.from = Other(p) => ContentOf(m, end[n][Other(p)], end[n][p])
  <2>1. \A m \in sent[n] : ContentOf(m, end[n][m.from], end[n][Other(m.from)])
    BY DEF CallInv, ContentInv
  <2>2. ContentOf(msg, end[n][p], end[n][Other(p)])
    BY DEF ContentOf
  <2> QED BY <1>2, <2>1, <2>2, TwoPeers DEF Added
<1> QED BY <1>1, <1>2, <1>3, <1>4, CallStep

LEMMA CallInitiatorKeys ==
  ASSUME TypeOK, TypeOK', CallInv, NEW n \in Calls, NEW p \in Peers, InitiatorKeys(n, p)
  PROVE  CallInv'
<1>1. PICK d \in Received(n, p, "DHPart1") :
        /\ GenerateKeys(n, p, d.ids)
        /\ Send(n, [from |-> p, kind |-> "DHPart2", ids |-> Valid(end[n][p].rec)])
  BY DEF InitiatorKeys
<1> DEFINE r == end[n][p].rec
           f == end[n][Other(p)]
           e == [end[n][p] EXCEPT !.pc = "keys", !.s1 = Select(r, d.ids), !.rec = Matched(r, d.ids)]
           msg == [from |-> p, kind |-> "DHPart2", ids |-> Valid(r)]
<1>2. Changed(n, p, e) /\ end[n][p].pc = "read" /\ UNCHANGED calls
  BY <1>1, KeysEffect DEF GenerateKeys
<1>3. d \in sent[n] /\ d.from = Other(p) /\ d.kind = "DHPart1"
  BY <1>1, ReceivedType
<1>4. Added(n, {msg}) /\ msg.from = p /\ Answers(n, p, msg.kind)
  <2>1. Sent(n, Other(p), "DHPart1")
    BY <1>3 DEF Sent
  <2> QED BY <1>1, <2>1, SendAdds, SentTypes DEF Answers
<1>5. r \in Records /\ e.pc = "keys" /\ e.s1 = Select(r, d.ids) /\ e.rec = Matched(r, d.ids)
  BY DEF TypeOK, Ends
<1>6. StageOf(n, p, end[n][p].pc)'
  <2>1. StageOf(n, p, "read")
    BY <1>2 DEF CallInv, StageInv
  <2>2. \A k : Sent(n, p, k)' <=> Sent(n, p, k) \/ k = "DHPart2"
    <3>1. msg.from = p /\ msg.kind = "DHPart2" /\ Added(n, {msg})
      BY <1>4
    <3> HIDE DEF msg
    <3> QED BY <3>1, SentAdded
  <2>3. end'[n][p].pc = "keys"
    BY <1>2, <1>5 DEF Changed
  <2> QED BY <2>1, <2>2, <2>3 DEF StageOf
<1>7. ContentOf(d, f, end[n][p])
  BY <1>3, TwoPeers DEF CallInv, ContentInv
<1> HIDE DEF e, f, r
<1>8. ContentOf(msg, e, f)
  BY <1>3, <1>5, <1>7, MatchedSelects DEF ContentOf
<1>9. \A m \in sent'[n] :
        /\ m.from = p => ContentOf(m, e, f)
        /\ m.from = Other(p) => ContentOf(m, f, e)
  <2>1. ASSUME NEW m \in sent[n], m.from = p PROVE ContentOf(m, e, f)
    <3>1. m.kind \in {"Commit", "DHPart1"}
      BY <1>2, <2>1, EarlyPackets
    <3> QED BY <1>5, <3>1 DEF ContentOf
  <2>2. ASSUME NEW m \in sent[n], m.from = Other(p) PROVE ContentOf(m, f, e)
    <3>1. m.kind \in {"Commit", "DHPart1", "DHPart2"}
      BY <1>2, <2>2, EarlyPackets
    <3>2. ContentOf(m, f, end[n][p])
      BY <2>2, TwoPeers DEF CallInv, ContentInv, f
    <3> QED BY <1>5, <3>1, <3>2 DEF ContentOf
  <2>3. msg.from # Other(p)
    BY TwoPeers
  <2> QED BY <1>4, <1>8, <2>1, <2>2, <2>3 DEF Added
<1>10. e.pc # "none" /\ end[n][p].pc # "none"
  BY <1>2, <1>5
<1> QED BY <1>2, <1>4, <1>6, <1>9, <1>10, CallStep DEF f

LEMMA CallResponderKeys ==
  ASSUME TypeOK, TypeOK', CallInv, SecretsInv, NEW n \in Calls, NEW p \in Peers,
         ResponderKeys(n, p)
  PROVE  CallInv'
<1>1. PICK d \in Received(n, p, "DHPart2") :
        /\ GenerateKeys(n, p, d.ids)
        /\ Send(n, [from |-> p, kind |-> "Confirm1", s1 |-> Select(end[n][p].rec, d.ids),
                    sas |-> Matched(end[n][p].rec, d.ids).sas])
  BY DEF ResponderKeys
<1> DEFINE r == end[n][p].rec
           f == end[n][Other(p)]
           e == [end[n][p] EXCEPT !.pc = "keys", !.s1 = Select(r, d.ids), !.rec = Matched(r, d.ids)]
           msg == [from |-> p, kind |-> "Confirm1", s1 |-> Select(r, d.ids),
                   sas |-> Matched(r, d.ids).sas]
<1>2. Changed(n, p, e) /\ end[n][p].pc = "read" /\ UNCHANGED calls
  BY <1>1, KeysEffect DEF GenerateKeys
<1>3. d \in sent[n] /\ d.from = Other(p) /\ d.kind = "DHPart2"
  BY <1>1, ReceivedType
<1>4. Added(n, {msg}) /\ msg.from = p /\ Answers(n, p, msg.kind)
  <2>1. Sent(n, Other(p), "DHPart2")
    BY <1>3 DEF Sent
  <2> QED BY <1>1, <2>1, SendAdds, SentTypes DEF Answers
<1>5. r \in Records /\ e.pc = "keys" /\ e.s1 = Select(r, d.ids) /\ e.rec = Matched(r, d.ids)
  BY DEF TypeOK, Ends
<1>6. StageOf(n, p, end[n][p].pc)'
  <2>1. StageOf(n, p, "read")
    BY <1>2 DEF CallInv, StageInv
  <2>2. \A k : Sent(n, p, k)' <=> Sent(n, p, k) \/ k = "Confirm1"
    <3>1. msg.from = p /\ msg.kind = "Confirm1" /\ Added(n, {msg})
      BY <1>4
    <3> HIDE DEF msg
    <3> QED BY <3>1, SentAdded
  <2>3. end'[n][p].pc = "keys"
    BY <1>2, <1>5 DEF Changed
  <2> QED BY <2>1, <2>2, <2>3 DEF StageOf
<1>7. ContentOf(d, f, end[n][p])
  BY <1>3, TwoPeers DEF CallInv, ContentInv
<1>8. f.pc # "none" => f.pc = "keys"
  <2>1. StageOf(n, p, "read") /\ StageOf(n, Other(p), f.pc) /\ OrderOf(n, p) /\ OrderOf(n, Other(p))
        /\ Sent(n, Other(p), "DHPart2") /\ Other(Other(p)) = p /\ f.pc \in Stages
    BY <1>2, <1>3, TwoPeers DEF CallInv, StageInv, OrderInv, Sent, TypeOK, Ends
  <2> QED BY <2>1 DEF StageOf, OrderOf, Stages
\* The keys of the Initiator are there, and from the same secret.
<1>9. f.pc # "none" => f.s1 = Select(r, d.ids)
  <2> SUFFICES ASSUME f.pc # "none" PROVE f.s1 = Select(r, d.ids)
    OBVIOUS
  <2>1. d.ids = Valid(f.rec) /\ f.s1 = Select(f.rec, Valid(r))
    BY <1>2, <1>3, <1>7, <1>8 DEF ContentOf
  <2>2. f.rec \in Records /\ Held(p, r) /\ Held(Other(p), f.rec) /\ Other(p) \in Peers
    BY TwoPeers DEF Held, TypeOK, Ends
  <2>3. /\ (r.v1 <=> r.rs1 # 0) /\ (r.rs1 = 0 => r.rs2 = 0)
        /\ (f.rec.v1 <=> f.rec.rs1 # 0) /\ (f.rec.rs1 = 0 => f.rec.rs2 = 0)
    <3> HIDE DEF e, f, r
    <3> QED BY <1>5, <2>2 DEF SecretsInv, ShapeInv
  <2>4. r.rs1 = f.rec.rs1 \/ ~Follows(f.rec, r.rs2, r.rs1)
    <3> HIDE DEF e, f, r
    <3> QED BY <1>5, <2>2 DEF SecretsInv, OppositeInv
  <2>5. Select(r, Valid(f.rec)) = Select(f.rec, Valid(r))
    <3> HIDE DEF e, f, r
    <3> QED BY <1>5, <2>2, <2>3, <2>4, SelectAgree
  <2> QED BY <2>1, <2>5
<1> HIDE DEF e, f, r
<1>10. ContentOf(msg, e, f)
  BY <1>5, <1>9 DEF ContentOf
<1>11. \A m \in sent'[n] :
        /\ m.from = p => ContentOf(m, e, f)
        /\ m.from = Other(p) => ContentOf(m, f, e)
  <2>1. ASSUME NEW m \in sent[n], m.from = p PROVE ContentOf(m, e, f)
    <3>1. m.kind \in {"Commit", "DHPart1"}
      BY <1>2, <2>1, EarlyPackets
    <3> QED BY <1>5, <3>1 DEF ContentOf
  <2>2. ASSUME NEW m \in sent[n], m.from = Other(p) PROVE ContentOf(m, f, e)
    <3>1. m.kind \in {"Commit", "DHPart1", "DHPart2"}
      BY <1>2, <2>2, EarlyPackets
    <3>2. ContentOf(m, f, end[n][p])
      BY <2>2, TwoPeers DEF CallInv, ContentInv, f
    <3> QED BY <1>5, <3>1, <3>2 DEF ContentOf
  <2>3. msg.from # Other(p)
    BY TwoPeers
  <2> QED BY <1>4, <1>10, <2>1, <2>2, <2>3 DEF Added
<1>12. e.pc # "none" /\ end[n][p].pc # "none"
  BY <1>2, <1>5
<1> QED BY <1>2, <1>4, <1>6, <1>11, <1>12, CallStep DEF f

LEMMA CallConfirm1 ==
  ASSUME TypeOK, TypeOK', CallInv, NEW n \in Calls, NEW p \in Peers, HandleConfirm1(n, p)
  PROVE  CallInv'
<1>1. PICK c \in Received(n, p, "Confirm1") :
        LET r == Confirmed(end[n][p].rec, n, c.sas) IN
        /\ end[n][p].pc = "keys"
        /\ Save(p, r)
        /\ end' = [end EXCEPT ![n][p].pc = "confirmed", ![n][p].rec = r]
        /\ Send(n, [from |-> p, kind |-> "Confirm2", sas |-> r.sas])
        /\ UNCHANGED calls
  BY DEF HandleConfirm1
<1> DEFINE r == Confirmed(end[n][p].rec, n, c.sas)
           f == end[n][Other(p)]
           e == [end[n][p] EXCEPT !.pc = "confirmed", !.rec = r]
           msg == [from |-> p, kind |-> "Confirm2", sas |-> r.sas]
<1>2. c \in sent[n] /\ c.from = Other(p) /\ c.kind = "Confirm1" /\ c.sas \in BOOLEAN
  BY <1>1, ReceivedType, MessageType
<1>3. Changed(n, p, e)
  BY <1>1, <1>2, ConfirmEffect
<1>4. Added(n, {msg}) /\ msg.from = p /\ Answers(n, p, msg.kind)
  <2>1. Sent(n, Other(p), "Confirm1")
    BY <1>2 DEF Sent
  <2> QED BY <1>1, <1>2, <2>1, SendAdds, SentTypes DEF Answers
<1>5. e.pc = "confirmed" /\ e.rec = r /\ e.s1 = end[n][p].s1 /\ (r.sas => c.sas)
  BY <1>2, ConfirmedRecord DEF TypeOK, Ends
<1>6. StageOf(n, p, end[n][p].pc)'
  <2>1. Sent(n, p, "Confirm2")'
    <3>1. msg.from = p /\ msg.kind = "Confirm2" /\ Added(n, {msg})
      BY <1>4
    <3> HIDE DEF msg
    <3> QED BY <3>1, SentAdded
  <2>2. end'[n][p].pc = "confirmed"
    BY <1>3, <1>5 DEF Changed
  <2> QED BY <2>1, <2>2 DEF StageOf
<1>7. ContentOf(c, f, end[n][p])
  BY <1>2, TwoPeers DEF CallInv, ContentInv
<1> HIDE DEF e, f, r
<1>8. ContentOf(msg, e, f)
  BY <1>2, <1>5, <1>7 DEF ContentOf
<1>9. \A m \in sent'[n] :
        /\ m.from = p => ContentOf(m, e, f)
        /\ m.from = Other(p) => ContentOf(m, f, e)
  <2>1. ASSUME NEW m \in sent[n], m.from = p PROVE ContentOf(m, e, f)
    <3>1. m.kind # "Confirm2"
      BY <1>1, <2>1, EarlyPackets
    <3>2. ContentOf(m, end[n][p], f)
      BY <2>1, TwoPeers DEF CallInv, ContentInv, f
    <3> QED BY <1>1, <1>5, <3>1, <3>2 DEF ContentOf
  <2>2. ASSUME NEW m \in sent[n], m.from = Other(p) PROVE ContentOf(m, f, e)
    <3>1. ContentOf(m, f, end[n][p])
      BY <2>2, TwoPeers DEF CallInv, ContentInv, f
    <3> QED BY <1>1, <1>5, <3>1 DEF ContentOf
  <2>3. msg.from # Other(p)
    BY TwoPeers
  <2> QED BY <1>4, <1>8, <2>1, <2>2, <2>3 DEF Added
<1>10. e.pc # "none" /\ end[n][p].pc # "none"
  BY <1>1, <1>5
<1> QED BY <1>1, <1>3, <1>4, <1>6, <1>9, <1>10, CallStep DEF f

LEMMA CallConfirm2 ==
  ASSUME TypeOK, TypeOK', CallInv, NEW n \in Calls, NEW p \in Peers, HandleConfirm2(n, p)
  PROVE  CallInv'
<1>1. PICK c \in Received(n, p, "Confirm2") :
        LET r == Confirmed(end[n][p].rec, n, c.sas) IN
        /\ end[n][p].pc = "keys"
        /\ Save(p, r)
        /\ end' = [end EXCEPT ![n][p].pc = "secure", ![n][p].rec = r]
        /\ Send(n, [from |-> p, kind |-> "Conf2Ack"])
        /\ UNCHANGED calls
  BY DEF HandleConfirm2
<1> DEFINE r == Confirmed(end[n][p].rec, n, c.sas)
           f == end[n][Other(p)]
           e == [end[n][p] EXCEPT !.pc = "secure", !.rec = r]
           msg == [from |-> p, kind |-> "Conf2Ack"]
<1>2. c \in sent[n] /\ c.from = Other(p) /\ c.kind = "Confirm2" /\ c.sas \in BOOLEAN
  BY <1>1, ReceivedType, MessageType
<1>3. Changed(n, p, e)
  BY <1>1, <1>2, ConfirmEffect
<1>4. Added(n, {msg}) /\ msg.from = p /\ Answers(n, p, msg.kind)
  <2>1. Sent(n, Other(p), "Confirm2")
    BY <1>2 DEF Sent
  <2> QED BY <1>1, <2>1, SendAdds, SentTypes DEF Answers
<1>5. e.pc = "secure" /\ e.s1 = end[n][p].s1
  BY DEF TypeOK, Ends
<1>6. StageOf(n, p, end[n][p].pc)'
  <2>1. Sent(n, p, "Conf2Ack")'
    <3>1. msg.from = p /\ msg.kind = "Conf2Ack" /\ Added(n, {msg})
      BY <1>4
    <3> HIDE DEF msg
    <3> QED BY <3>1, SentAdded
  <2>2. end'[n][p].pc = "secure"
    BY <1>3, <1>5 DEF Changed
  <2> QED BY <2>1, <2>2 DEF StageOf
<1> HIDE DEF e, f, r
<1>7. \A m \in sent'[n] :
        /\ m.from = p => ContentOf(m, e, f)
        /\ m.from = Other(p) => ContentOf(m, f, e)
  <2>1. ASSUME NEW m \in sent[n], m.from = p PROVE ContentOf(m, e, f)
    <3>1. m.kind # "Confirm2"
      BY <1>1, <2>1, EarlyPackets
    <3>2. ContentOf(m, end[n][p], f)
      BY <2>1, TwoPeers DEF CallInv, ContentInv, f
    <3> QED BY <1>1, <1>5, <3>1, <3>2 DEF ContentOf
  <2>2. ASSUME NEW m \in sent[n], m.from = Other(p) PROVE ContentOf(m, f, e)
    <3>1. ContentOf(m, f, end[n][p])
      BY <2>2, TwoPeers DEF CallInv, ContentInv, f
    <3> QED BY <1>1, <1>5, <3>1 DEF ContentOf
  <2>3. msg.from # Other(p) /\ ContentOf(msg, e, f)
    BY TwoPeers DEF ContentOf
  <2> QED BY <1>4, <2>1, <2>2, <2>3 DEF Added
<1>8. e.pc # "none" /\ end[n][p].pc # "none"
  BY <1>1, <1>5
<1> QED BY <1>1, <1>3, <1>4, <1>6, <1>7, <1>8, CallStep DEF f

\* The steps of a secure engine send nothing.
LEMMA CallQuiet ==
  ASSUME TypeOK, TypeOK', CallInv, NEW n \in Calls, NEW p \in Peers, NEW e, Changed(n, p, e),
         end[n][p].pc \in {"confirmed", "secure"}, e.pc = "secure", e.s1 = end[n][p].s1,
         Received(n, p, "Conf2Ack") # {} \/ end[n][p].pc = "secure",
         UNCHANGED <<calls, sent>>
  PROVE  CallInv'
<1> DEFINE f == end[n][Other(p)]
<1>1. StageOf(n, p, end[n][p].pc)'
  <2>1. StageOf(n, p, end[n][p].pc)
    BY DEF CallInv, StageInv
  <2>2. \A o, k : Sent(n, o, k)' <=> Sent(n, o, k)
    BY DEF Sent
  <2>3. end'[n][p].pc = "secure"
    BY DEF Changed
  <2>4. Received(n, p, "Conf2Ack") # {} => Sent(n, Other(p), "Conf2Ack")
    BY ReceivedType DEF Sent
  <2> QED BY <2>1, <2>2, <2>3, <2>4 DEF StageOf
<1>2. \A m \in sent'[n] :
        /\ m.from = p => ContentOf(m, e, f)
        /\ m.from = Other(p) => ContentOf(m, f, e)
  <2>1. ASSUME NEW m \in sent[n], m.from = p PROVE ContentOf(m, e, f)
    <3>1. ContentOf(m, end[n][p], f)
      BY <2>1, TwoPeers DEF CallInv, ContentInv
    <3> QED BY <3>1 DEF ContentOf
  <2>2. ASSUME NEW m \in sent[n], m.from = Other(p) PROVE ContentOf(m, f, e)
    <3>1. ContentOf(m, f, end[n][p])
      BY <2>2, TwoPeers DEF CallInv, ContentInv
    <3> QED BY <3>1 DEF ContentOf
  <2> QED BY <2>1, <2>2
<1> QED BY <1>1, <1>2, CallStep

LEMMA CallForgotten ==
  ASSUME TypeOK, CallInv, NEW p \in Peers, NEW ns, Forgotten(ns, p), calls' = calls
  PROVE  CallInv'
<1> SUFFICES ASSUME NEW m \in Calls PROVE OrderInv(m)' /\ StageInv(m)' /\ ContentInv(m)'
  BY DEF CallInv
<1>1. OrderInv(m) /\ StageInv(m) /\ ContentInv(m)
  BY DEF CallInv
<1>2. CASE m \in ns
  <2>1. end'[m][p] = Gone /\ end'[m][Other(p)] = end[m][Other(p)]
        /\ sent'[m] = IF end[m][Other(p)].pc = "none" THEN {} ELSE sent[m]
    BY <1>2, TwoPeers DEF Forgotten
  <2> QED BY <1>1, <2>1, CallLeft
<1>3. CASE m \notin ns
  <2>1. (\A o \in Peers : end'[m][o] = end[m][o]) /\ sent'[m] = sent[m]
    BY <1>3 DEF Forgotten
  <2>2. m > calls' => m > calls
    OBVIOUS
  <2> QED BY <1>1, <2>1, <2>2, CallKept
<1> QED BY <1>2, <1>3

LEMMA CallStart == ASSUME TypeOK, CallInv, StartCall PROVE CallInv'
<1>0. PICK n \in Calls : n = calls + 1
  BY StartEffect
<1>1. /\ calls' = n /\ sent' = sent
      /\ \A o \in Peers : end'[n][o] = [Gone EXCEPT !.pc = "hello"]
      /\ \A m \in Calls : m # n => end'[m] = end[m]
  BY <1>0, StartEffect DEF StartCall
<1>2. ASSUME NEW m \in Calls, m # n PROVE OrderInv(m)' /\ StageInv(m)' /\ ContentInv(m)'
  <2>1. m > calls' => m > calls
    BY <1>0, <1>1 DEF Calls, TypeOK
  <2>2. (\A o \in Peers : end'[m][o] = end[m][o]) /\ sent'[m] = sent[m]
    BY <1>1, <1>2
  <2> QED BY <2>1, <2>2, CallKept DEF CallInv
<1>3. sent'[n] = {} /\ \A o \in Peers : end'[n][o].pc = "hello"
  <2>1. n > calls
    BY <1>0 DEF TypeOK
  <2>2. sent[n] = {}
    BY <2>1 DEF CallInv, OrderInv
  <2>3. [Gone EXCEPT !.pc = "hello"].pc = "hello"
    BY DEF Gone
  <2> QED BY <1>1, <2>2, <2>3
<1>4. \A o, k : ~Sent(n, o, k)'
  BY <1>3 DEF Sent
<1>5. ~(n > calls')
  BY <1>1 DEF Calls
<1>6. OrderInv(n)'
  BY <1>3, <1>4, <1>5 DEF OrderInv, OrderOf
<1>7. StageInv(n)'
  BY <1>3, <1>4 DEF StageInv, StageOf
<1>8. ContentInv(n)'
  BY <1>3 DEF ContentInv
<1> QED BY <1>2, <1>6, <1>7, <1>8 DEF CallInv

-----------------------------------------------------------------------------
(* SecretsInv is inductive.                                                  *)

LEMMA HeldType ==
  ASSUME TypeOK, NEW p \in Peers, NEW r, Held(p, r)
  PROVE  r \in Records
BY DEF Held, TypeOK, Ends

LEMMA SecretsInit == TypeOK /\ Init => SecretsInv
<1> SUFFICES ASSUME Init PROVE SecretsInv
  OBVIOUS
<1>1. \A p \in Peers : \A r : Held(p, r) => r = EmptyRecord
  BY EmptyTypes DEF Init, Held
<1>2. \A n \in Calls, p \in Peers : ~Between(n, p)
  BY EmptyTypes DEF Init, Between
<1>3. \A n \in Calls : n # 0
  BY DEF Calls
<1> QED
  BY <1>1, <1>2, <1>3, EmptyTypes
  DEF SecretsInv, ShapeInv, NotYetInv, OppositeInv, NextInv, CrossInv, Follows

\* No record with another secret comes, and no engine gets its record.
LEMMA SecretsKept ==
  ASSUME TypeOK, SecretsInv,
         \A p \in Peers, r \in Records : Held(p, r)' =>
           SameSecrets(r, EmptyRecord) \/ \E t \in Records : Held(p, t) /\ SameSecrets(r, t),
         \A n \in Calls, p \in Peers : NotYet(n, p)' => NotYet(n, p),
         \A n \in Calls, p \in Peers : Between(n, p)' =>
           Between(n, p) /\ end'[n][p].rec.rs1 = end[n][p].rec.rs1
  PROVE  SecretsInv'
<1>1. \A n \in Calls : n # 0
  BY DEF Calls
<1>2. ShapeInv'
  BY EmptyTypes DEF SecretsInv, ShapeInv, SameSecrets
<1>3. NotYetInv'
  BY <1>1, EmptyTypes DEF SecretsInv, NotYetInv, SameSecrets
<1>4. OppositeInv'
  <2> SUFFICES ASSUME NEW p \in Peers, NEW r \in Records, NEW t \in Records,
                      Held(p, r)', Held(Other(p), t)', r.rs1 # t.rs1
               PROVE  ~Follows(t, r.rs2, r.rs1)
    BY DEF OppositeInv
  <2>1. Other(p) \in Peers
    BY TwoPeers
  <2>2. CASE SameSecrets(r, EmptyRecord)
    <3>1. SameSecrets(t, EmptyRecord) \/ (t.rs1 = 0 => t.rs2 = 0)
      BY <2>1 DEF SecretsInv, ShapeInv, SameSecrets
    <3> QED BY <2>2, <3>1, EmptyTypes DEF SameSecrets, Follows
  <2>3. CASE SameSecrets(t, EmptyRecord)
    <3>1. SameSecrets(r, EmptyRecord) \/ (r.rs1 = 0 => r.rs2 = 0)
      BY DEF SecretsInv, ShapeInv, SameSecrets
    <3> QED BY <2>3, <3>1, EmptyTypes DEF SameSecrets, Follows
  <2>4. CASE ~SameSecrets(r, EmptyRecord) /\ ~SameSecrets(t, EmptyRecord)
    <3>1. PICK r0 \in Records : Held(p, r0) /\ SameSecrets(r, r0)
      BY <2>4
    <3>2. PICK t0 \in Records : Held(Other(p), t0) /\ SameSecrets(t, t0)
      BY <2>1, <2>4
    <3> QED BY <3>1, <3>2 DEF SecretsInv, OppositeInv, SameSecrets, Follows
  <2> QED BY <2>2, <2>3, <2>4
<1>5. NextInv'
  <2> SUFFICES ASSUME NEW n \in Calls, NEW p \in Peers, NEW r \in Records,
                      Between(n, p)', Held(Other(p), r)'
               PROVE  ~Follows(r, end'[n][p].rec.rs1, n)
    BY DEF NextInv
  <2>1. Other(p) \in Peers /\ Between(n, p) /\ end'[n][p].rec.rs1 = end[n][p].rec.rs1
    BY TwoPeers
  <2>2. CASE SameSecrets(r, EmptyRecord)
    BY <1>1, <2>2, EmptyTypes DEF SameSecrets, Follows
  <2>3. ASSUME NEW t \in Records, Held(Other(p), t), SameSecrets(r, t)
        PROVE  ~Follows(r, end'[n][p].rec.rs1, n)
    BY <2>1, <2>3 DEF SecretsInv, NextInv, SameSecrets, Follows
  <2> QED BY <2>1, <2>2, <2>3
<1>6. CrossInv'
  BY TwoPeers DEF SecretsInv, CrossInv
<1> QED BY <1>2, <1>3, <1>4, <1>5, <1>6 DEF SecretsInv

\* prepareCommit: no record has the secret of this call yet.
LEMMA SecretsRead ==
  ASSUME TypeOK, SecretsInv, NEW n \in Calls, NEW p \in Peers, Read(n, p)
  PROVE  SecretsInv'
<1> DEFINE e == [end[n][p] EXCEPT !.pc = "read", !.rec = cache[p]]
<1>1. Changed(n, p, e) /\ NotYet(n, p) /\ UNCHANGED <<cache, calls>>
      /\ e.pc = "read" /\ e.rec = cache[p]
  <2>1. Changed(n, p, e) /\ NotYet(n, p) /\ UNCHANGED <<cache, calls>>
    BY ReadEffect DEF Read, NotYet
  <2>2. end[n][p] \in Ends
    BY DEF TypeOK
  <2>3. e.pc = "read" /\ e.rec = cache[p]
    BY <2>2 DEF Ends
  <2> QED BY <2>1, <2>3
<1> HIDE DEF e
<1>2. end'[n][p] = e /\ \A m \in Calls, o \in Peers : m # n \/ o # p => end'[m][o] = end[m][o]
  BY <1>1 DEF Changed
<1>3. ASSUME NEW q \in Peers, NEW r \in Records, Held(q, r)' PROVE Held(q, r)
  BY <1>1, <1>2, <1>3 DEF Held
<1>4. \A m \in Calls, o \in Peers : NotYet(m, o)' => NotYet(m, o)
  BY <1>1, <1>2 DEF NotYet
<1>5. \A m \in Calls, o \in Peers : m # n \/ o # p =>
        (Between(m, o)' => Between(m, o)) /\ end'[m][o].rec = end[m][o].rec
  BY <1>2 DEF Between
<1>6. \A q \in Peers, r \in Records : Held(q, r) => r.rs1 # n /\ r.rs2 # n
  BY <1>1 DEF SecretsInv, NotYetInv
<1>7. ShapeInv' /\ NotYetInv' /\ OppositeInv'
  BY <1>3, <1>4, TwoPeers DEF SecretsInv, ShapeInv, NotYetInv, OppositeInv
<1>8. NextInv'
  BY <1>3, <1>5, <1>6, TwoPeers DEF SecretsInv, NextInv, Follows
<1>9. CrossInv'
  <2> SUFFICES ASSUME NEW m \in Calls, NEW k \in Calls, NEW o \in Peers,
                      Between(m, o)', Between(k, Other(o))',
                      end'[m][o].rec.rs1 = k, end'[k][Other(o)].rec.rs1 = m
               PROVE  FALSE
    BY DEF CrossInv
  <2>1. Other(o) \in Peers /\ Other(o) # o /\ Other(Other(o)) = o
    BY TwoPeers
  <2>2. \A i \in Calls, q \in Peers :
          end[i][q].rec \in Records /\ Held(q, end[i][q].rec)
    BY DEF TypeOK, Ends, Held
  <2>3. CASE m = n /\ o = p
    BY <1>5, <1>6, <2>1, <2>2, <2>3
  <2>4. CASE k = n /\ Other(o) = p
    BY <1>5, <1>6, <2>1, <2>2, <2>4
  <2>5. CASE (m # n \/ o # p) /\ (k # n \/ Other(o) # p)
    BY <1>5, <2>1, <2>5 DEF SecretsInv, CrossInv
  <2> QED BY <2>3, <2>4, <2>5
<1> QED BY <1>7, <1>8, <1>9 DEF SecretsInv

\* Confirm1, Confirm2: the secret of the call goes in front of the first of the
\* record that was read.
LEMMA SecretsConfirmed ==
  ASSUME TypeOK, CallInv, SecretsInv, NEW n \in Calls, NEW p \in Peers, NEW e, NEW r \in Records,
         Changed(n, p, e), Save(p, r), calls' = calls, end[n][p].pc = "keys",
         e.pc \in {"confirmed", "secure"}, e.rec = r,
         r.rs1 = n, r.rs2 = end[n][p].rec.rs1, r.v1,
         NEW msg \in sent[n], msg.from = Other(p), msg.kind \in {"Confirm1", "Confirm2"}
  PROVE  SecretsInv'
<1> DEFINE q == Other(p)
           b == end[n][p].rec.rs1
<1>1. q \in Peers /\ q # p /\ Other(q) = p /\ \A o \in Peers : o = p \/ o = q
  BY TwoPeers
<1>2. /\ end'[n][p] = e /\ \A m \in Calls, o \in Peers : m # n \/ o # p => end'[m][o] = end[m][o]
      /\ cache'[p] = r /\ cache'[q] = cache[q]
  BY <1>1 DEF Changed, Save, TypeOK
<1>3. n <= calls /\ end[n][q].pc # "hello" /\ n # 0
  <2>1. OrderInv(n)
    BY DEF CallInv
  <2>2. ~(n > calls)
    BY <2>1 DEF OrderInv
  <2>3. end[n][q].pc # "hello"
    <3>1. StageOf(n, q, end[n][q].pc)
      BY <1>1 DEF CallInv, StageInv
    <3>2. Sent(n, q, "Confirm1") \/ Sent(n, q, "Confirm2")
      BY DEF Sent
    <3> QED BY <3>1, <3>2 DEF StageOf
  <2> QED BY <2>2, <2>3 DEF Calls, TypeOK
<1>4. \A t : Held(p, t)' => t = r \/ Held(p, t)
  BY <1>2 DEF Held
<1>5. \A t : Held(q, t)' => Held(q, t)
  BY <1>1, <1>2 DEF Held
<1>6. \A m \in Calls, o \in Peers : NotYet(m, o)' => NotYet(m, o) /\ m # n
  BY <1>1, <1>2, <1>3 DEF NotYet, Calls, TypeOK
<1>7. \A m \in Calls, o \in Peers : Between(m, o)' =>
        Between(m, o) /\ end'[m][o].rec = end[m][o].rec
  BY <1>2 DEF Between
<1>8. Between(n, p) /\ end[n][p].rec \in Records /\ Held(p, end[n][p].rec)
  BY DEF Between, TypeOK, Ends, Held
<1>9. ShapeInv'
  BY <1>1, <1>3, <1>4, <1>5 DEF SecretsInv, ShapeInv
<1>10. NotYetInv'
  <2>1. \A m \in Calls, o \in Peers : NotYet(m, o)' => r.rs1 # m /\ r.rs2 # m
    BY <1>6, <1>8 DEF SecretsInv, NotYetInv
  <2> QED BY <1>1, <1>4, <1>5, <1>6, <2>1 DEF SecretsInv, NotYetInv
<1>11. OppositeInv'
  <2>1. \A t \in Records : Held(q, t) => ~Follows(t, b, n)
    BY <1>8 DEF SecretsInv, NextInv
  <2>2. \A s, t \in Records : Held(p, s)' /\ Held(q, t)' =>
          s.rs1 = t.rs1 \/ ~Follows(t, s.rs2, s.rs1)
    BY <1>4, <1>5, <2>1 DEF SecretsInv, OppositeInv
  <2>3. \A s, t \in Records : Held(q, s)' /\ Held(p, t)' =>
          s.rs1 = t.rs1 \/ ~Follows(t, s.rs2, s.rs1)
    BY <2>2 DEF Follows
  <2> QED BY <1>1, <2>2, <2>3 DEF OppositeInv
<1>12. NextInv'
  <2> SUFFICES ASSUME NEW m \in Calls, NEW o \in Peers, NEW t \in Records,
                      Between(m, o)', Held(Other(o), t)', Follows(t, end'[m][o].rec.rs1, m)
               PROVE  FALSE
    BY DEF NextInv
  <2>1. CASE Held(Other(o), t)
    BY <1>7, <2>1 DEF SecretsInv, NextInv
  <2>2. CASE o = q /\ t = r
    <3>1. Between(m, q) /\ end[m][q].rec.rs1 = n /\ b = m
      BY <1>7, <2>2 DEF Follows
    <3> QED BY <1>1, <1>8, <3>1 DEF SecretsInv, CrossInv
  <2> QED BY <1>1, <1>4, <1>5, <2>1, <2>2
<1>13. CrossInv'
  BY <1>7, TwoPeers DEF SecretsInv, CrossInv
<1> QED BY <1>9, <1>10, <1>11, <1>12, <1>13 DEF SecretsInv

LEMMA SecretsHeld ==
  ASSUME TypeOK, TypeOK', SecretsInv,
         \A o \in Peers : \E t \in Records : Held(o, t) /\ SameSecrets(cache'[o], t),
         \A m \in Calls, o \in Peers :
           \/ /\ SameSecrets(end'[m][o].rec, EmptyRecord)
              /\ ~Between(m, o)'
           \/ /\ SameSecrets(end'[m][o].rec, end[m][o].rec)
              /\ Between(m, o)' => Between(m, o),
         \A m \in Calls, o \in Peers : NotYet(m, o)' => NotYet(m, o)
  PROVE  SecretsInv'
<1>1. ASSUME NEW o \in Peers, NEW r \in Records, Held(o, r)'
      PROVE  SameSecrets(r, EmptyRecord) \/ \E t \in Records : Held(o, t) /\ SameSecrets(r, t)
  <2>1. CASE r = cache'[o]
    BY <2>1
  <2>2. ASSUME NEW m \in Calls, r = end'[m][o].rec
        PROVE  SameSecrets(r, EmptyRecord) \/ \E t \in Records : Held(o, t) /\ SameSecrets(r, t)
    <3>1. end[m][o].rec \in Records /\ Held(o, end[m][o].rec)
      BY DEF TypeOK, Ends, Held
    <3> QED BY <2>2, <3>1
  <2> QED BY <1>1, <2>1, <2>2 DEF Held
<1>2. \A m \in Calls, o \in Peers : Between(m, o)' =>
        Between(m, o) /\ end'[m][o].rec.rs1 = end[m][o].rec.rs1
  BY DEF SameSecrets
<1> QED BY <1>1, <1>2, SecretsKept

\* A step of end p of call n that leaves its secrets as they are.
LEMMA SecretsEnd ==
  ASSUME TypeOK, TypeOK', SecretsInv, NEW n \in Calls, NEW p \in Peers, NEW e, Changed(n, p, e),
         calls' = calls, SameSecrets(e.rec, end[n][p].rec),
         e.pc = end[n][p].pc \/ (e.pc = "keys" /\ end[n][p].pc = "read") \/ e.pc = "secure",
         cache'[p] = cache[p] \/ SameSecrets(cache'[p], end[n][p].rec),
         cache'[Other(p)] = cache[Other(p)]
  PROVE  SecretsInv'
<1>1. end'[n][p] = e /\ \A m \in Calls, o \in Peers : m # n \/ o # p => end'[m][o] = end[m][o]
  BY DEF Changed
<1>2. \A m \in Calls, o \in Peers : NotYet(m, o)' => NotYet(m, o)
  BY <1>1 DEF NotYet
<1>3. \A m \in Calls, o \in Peers :
        SameSecrets(end'[m][o].rec, end[m][o].rec) /\ (Between(m, o)' => Between(m, o))
  BY <1>1 DEF Between, SameSecrets
<1>4. \A o \in Peers : \E t \in Records : Held(o, t) /\ SameSecrets(cache'[o], t)
  <2>1. \A o \in Peers : cache[o] \in Records /\ Held(o, cache[o])
    BY DEF TypeOK, Held
  <2>2. end[n][p].rec \in Records /\ Held(p, end[n][p].rec)
    BY DEF TypeOK, Ends, Held
  <2>3. \A t : SameSecrets(t, t)
    BY DEF SameSecrets
  <2> QED BY <2>1, <2>2, <2>3, TwoPeers
<1> QED BY <1>2, <1>3, <1>4, SecretsHeld

LEMMA SecretsKeys ==
  ASSUME TypeOK, TypeOK', SecretsInv, NEW n \in Calls, NEW p \in Peers, NEW ids,
         GenerateKeys(n, p, ids)
  PROVE  SecretsInv'
<1> DEFINE r == end[n][p].rec
           e == [end[n][p] EXCEPT !.pc = "keys", !.s1 = Select(r, ids), !.rec = Matched(r, ids)]
<1>1. end[n][p] \in Ends /\ r \in Records
  BY DEF TypeOK, Ends
<1>2. e.pc = "keys" /\ e.rec = Matched(r, ids)
  BY <1>1 DEF Ends
<1>3. SameSecrets(e.rec, end[n][p].rec)
  BY <1>1, <1>2, MatchedRecord DEF SameSecrets
<1>4. Changed(n, p, e) /\ end[n][p].pc = "read" /\ UNCHANGED <<cache, calls>>
  BY KeysEffect DEF GenerateKeys
<1> HIDE DEF e
<1> QED BY <1>2, <1>3, <1>4, SecretsEnd

LEMMA SecretsConfirm ==
  ASSUME TypeOK, TypeOK', CallInv, SecretsInv, NEW n \in Calls, NEW p \in Peers,
         HandleConfirm1(n, p) \/ HandleConfirm2(n, p)
  PROVE  SecretsInv'
<1>1. PICK pc \in {"confirmed", "secure"}, kind \in {"Confirm1", "Confirm2"}, msg \in sent[n] :
        LET r == Confirmed(end[n][p].rec, n, msg.sas) IN
        /\ end[n][p].pc = "keys"
        /\ Save(p, r)
        /\ end' = [end EXCEPT ![n][p].pc = pc, ![n][p].rec = r]
        /\ UNCHANGED calls
        /\ msg \in Received(n, p, kind)
  BY DEF HandleConfirm1, HandleConfirm2, Received
<1> DEFINE r == Confirmed(end[n][p].rec, n, msg.sas)
           e == [end[n][p] EXCEPT !.pc = pc, !.rec = r]
<1>2. msg \in sent[n] /\ msg.from = Other(p) /\ msg.kind = kind /\ msg.sas \in BOOLEAN
  BY <1>1, ReceivedType, MessageType
<1>3. Changed(n, p, e)
  BY <1>1, <1>2, ConfirmEffect
<1>4. end[n][p] \in Ends /\ end[n][p].rec \in Records
  BY DEF TypeOK, Ends
<1>5. r \in Records /\ r.rs1 = n /\ r.rs2 = end[n][p].rec.rs1 /\ r.v1
  BY <1>2, <1>4, ConfirmedRecord
<1>6. e.pc = pc /\ e.rec = r
  BY <1>4 DEF Ends
<1>7. Save(p, r) /\ end[n][p].pc = "keys" /\ calls' = calls
  BY <1>1
<1> HIDE DEF e, r
<1> QED BY <1>2, <1>3, <1>5, <1>6, <1>7, SecretsConfirmed

LEMMA SecretsForgotten ==
  ASSUME TypeOK, TypeOK', SecretsInv, NEW p \in Peers, NEW ns, Forgotten(ns, p), calls' = calls,
         \A o \in Peers : \E t \in Records : Held(o, t) /\ SameSecrets(cache'[o], t)
  PROVE  SecretsInv'
<1>1. \A m \in Calls, o \in Peers : end'[m][o] = end[m][o] \/ end'[m][o] = Gone
  BY DEF Forgotten
<1>2. \A m \in Calls, o \in Peers : NotYet(m, o)' => NotYet(m, o)
  BY <1>1, EmptyTypes DEF NotYet
<1>3. \A m \in Calls, o \in Peers :
        \/ SameSecrets(end'[m][o].rec, EmptyRecord) /\ ~Between(m, o)'
        \/ SameSecrets(end'[m][o].rec, end[m][o].rec) /\ (Between(m, o)' => Between(m, o))
  BY <1>1, EmptyTypes DEF SameSecrets, Between
<1> QED BY <1>2, <1>3, SecretsHeld

LEMMA CacheHeld ==
  ASSUME TypeOK
  PROVE  \A o \in Peers : \E t \in Records : Held(o, t) /\ SameSecrets(cache[o], t)
BY DEF TypeOK, Held, SameSecrets

LEMMA SecretsStart == ASSUME TypeOK, TypeOK', SecretsInv, StartCall PROVE SecretsInv'
<1>1. PICK n \in Calls : n = calls + 1
  BY StartEffect
<1>2. calls' = n /\ cache' = cache
      /\ (\A o \in Peers : end'[n][o] = [Gone EXCEPT !.pc = "hello"])
      /\ \A m \in Calls : m # n => end'[m] = end[m]
  BY <1>1, StartEffect DEF StartCall
<1>3. \A o \in Peers : end'[n][o].pc = "hello" /\ end'[n][o].rec = EmptyRecord
  BY <1>2 DEF Gone
<1>4. \A m \in Calls, o \in Peers : NotYet(m, o)' => NotYet(m, o)
  BY <1>1, <1>2 DEF NotYet, TypeOK, Calls
<1>5. \A m \in Calls, o \in Peers :
        \/ SameSecrets(end'[m][o].rec, EmptyRecord) /\ ~Between(m, o)'
        \/ SameSecrets(end'[m][o].rec, end[m][o].rec) /\ (Between(m, o)' => Between(m, o))
  BY <1>2, <1>3 DEF SameSecrets, Between
<1>6. \A o \in Peers : \E t \in Records : Held(o, t) /\ SameSecrets(cache'[o], t)
  BY <1>2, CacheHeld
<1> QED BY <1>4, <1>5, <1>6, SecretsHeld

LEMMA SecretsLost == ASSUME TypeOK, TypeOK', SecretsInv, LoseCache PROVE SecretsInv'
<1>1. cache' = [p \in Peers |-> EmptyRecord] /\ UNCHANGED <<calls, end>>
  BY DEF LoseCache
<1>2. ASSUME NEW p \in Peers, NEW r \in Records, Held(p, r)'
      PROVE  SameSecrets(r, EmptyRecord) \/ \E t \in Records : Held(p, t) /\ SameSecrets(r, t)
  BY <1>1, <1>2 DEF Held, SameSecrets
<1>3. \A m \in Calls, o \in Peers : NotYet(m, o)' => NotYet(m, o)
  BY <1>1 DEF NotYet
<1>4. \A m \in Calls, o \in Peers : Between(m, o)' =>
        Between(m, o) /\ end'[m][o].rec.rs1 = end[m][o].rec.rs1
  BY <1>1 DEF Between
<1> QED BY <1>2, <1>3, <1>4, SecretsKept

-----------------------------------------------------------------------------
(* Both ends of a call have the same keys and the same flag.                 *)

AgreeInv == TypeOK /\ CallInv /\ SecretsInv

LEMMA AgreeInit == Init => AgreeInv
<1> SUFFICES ASSUME Init PROVE AgreeInv
  OBVIOUS
<1>1. \A n \in Calls : sent[n] = {} /\ \A p \in Peers : end[n][p].pc = "none"
  BY EmptyTypes DEF Init
<1>2. \A n \in Calls : \A o, k : ~Sent(n, o, k)
  BY <1>1 DEF Sent
<1>3. CallInv
  BY <1>1, <1>2 DEF CallInv, OrderInv, OrderOf, StageInv, StageOf, ContentInv
<1> QED BY <1>3, TypeInit, SecretsInit DEF AgreeInv

LEMMA AgreeNext == AgreeInv /\ [Next]_vars => AgreeInv'
<1> SUFFICES ASSUME AgreeInv, [Next]_vars PROVE AgreeInv'
  OBVIOUS
<1>1. TypeOK /\ CallInv /\ SecretsInv /\ TypeOK'
  BY TypeNext DEF AgreeInv
<1>2. CASE StartCall
  BY <1>1, <1>2, CallStart, SecretsStart DEF AgreeInv
<1>3. ASSUME NEW n \in Calls, NEW p \in Peers,
             \/ Read(n, p) \/ SendCommit(n, p) \/ AnswerCommit(n, p)
             \/ InitiatorKeys(n, p) \/ ResponderKeys(n, p)
             \/ HandleConfirm1(n, p) \/ HandleConfirm2(n, p) \/ HandleConf2Ack(n, p)
             \/ Media(n, p) \/ (\E yes \in BOOLEAN : SetVerify(n, p, yes)) \/ Stop(n, p)
      PROVE  AgreeInv'
  <2>0. end[n][p] \in Ends /\ end[n][p].rec \in Records /\ \A r : SameSecrets(r, r)
    BY <1>1 DEF TypeOK, Ends, SameSecrets
  <2>1. CASE Read(n, p)
    BY <1>1, <2>1, CallRead, SecretsRead DEF AgreeInv
  <2>2. CASE SendCommit(n, p) \/ AnswerCommit(n, p)
    <3>1. Changed(n, p, end[n][p]) /\ UNCHANGED <<cache, calls>>
      BY <1>1, <2>2, EndKept DEF SendCommit, AnswerCommit
    <3> QED BY <1>1, <2>0, <2>2, <3>1, CallCommit, CallAnswer, SecretsEnd DEF AgreeInv
  <2>3. CASE InitiatorKeys(n, p)
    <3>1. SecretsInv'
      BY <1>1, <2>3, SecretsKeys DEF InitiatorKeys
    <3> QED BY <1>1, <2>3, <3>1, CallInitiatorKeys DEF AgreeInv
  <2>4. CASE ResponderKeys(n, p)
    <3>1. SecretsInv'
      BY <1>1, <2>4, SecretsKeys DEF ResponderKeys
    <3> QED BY <1>1, <2>4, <3>1, CallResponderKeys DEF AgreeInv
  <2>5. CASE HandleConfirm1(n, p)
    BY <1>1, <2>5, CallConfirm1, SecretsConfirm DEF AgreeInv
  <2>6. CASE HandleConfirm2(n, p)
    BY <1>1, <2>6, CallConfirm2, SecretsConfirm DEF AgreeInv
  <2>7. CASE HandleConf2Ack(n, p)
    <3> DEFINE e == [end[n][p] EXCEPT !.pc = "secure"]
    <3>1. Changed(n, p, e) /\ end[n][p].pc = "confirmed" /\ Received(n, p, "Conf2Ack") # {}
          /\ UNCHANGED <<cache, calls, sent>>
      BY <1>1, <2>7, AckEffect DEF HandleConf2Ack
    <3>2. e.pc = "secure" /\ e.rec = end[n][p].rec /\ e.s1 = end[n][p].s1
      BY <2>0 DEF Ends
    <3> HIDE DEF e
    <3>3. CallInv'
      BY <1>1, <3>1, <3>2, CallQuiet
    <3>4. SecretsInv'
      BY <1>1, <2>0, <3>1, <3>2, SecretsEnd
    <3> QED BY <1>1, <3>3, <3>4 DEF AgreeInv
  <2>8. CASE Media(n, p)
    <3> DEFINE e == [end[n][p] EXCEPT !.media = TRUE]
    <3>1. Changed(n, p, e) /\ end[n][p].pc = "secure" /\ UNCHANGED <<cache, calls, sent>>
      BY <1>1, <2>8, MediaEffect DEF Media
    <3>2. e.pc = end[n][p].pc /\ e.rec = end[n][p].rec /\ e.s1 = end[n][p].s1
      BY <2>0 DEF Ends
    <3> HIDE DEF e
    <3>3. CallInv'
      BY <1>1, <3>1, <3>2, CallQuiet
    <3>4. SecretsInv'
      BY <1>1, <2>0, <3>1, <3>2, SecretsEnd
    <3> QED BY <1>1, <3>3, <3>4 DEF AgreeInv
  <2>9. ASSUME NEW yes \in BOOLEAN, SetVerify(n, p, yes) PROVE AgreeInv'
    <3> DEFINE r == [end[n][p].rec EXCEPT !.sas = yes]
               e == [end[n][p] EXCEPT !.rec = r]
    <3>1. Changed(n, p, e) /\ end[n][p].pc = "secure" /\ UNCHANGED <<calls, sent>>
          /\ cache' = [cache EXCEPT ![p] = r]
      BY <1>1, <2>9, VerifyEffect DEF SetVerify, Save
    <3>2. e.pc = end[n][p].pc /\ e.rec = r /\ e.s1 = end[n][p].s1
      BY <2>0 DEF Ends
    <3>3. SameSecrets(r, end[n][p].rec)
      BY <2>0 DEF Records, SameSecrets
    <3> HIDE DEF e, r
    <3>4. cache'[p] = r /\ cache'[Other(p)] = cache[Other(p)]
      BY <1>1, <3>1, TwoPeers DEF TypeOK
    <3>5. CallInv'
      BY <1>1, <3>1, <3>2, CallQuiet
    <3>6. SecretsInv'
      BY <1>1, <3>1, <3>2, <3>3, <3>4, SecretsEnd
    <3> QED BY <1>1, <3>5, <3>6 DEF AgreeInv
  <2>10. CASE Stop(n, p)
    <3> DEFINE r == [end[n][p].rec EXCEPT !.v2 = TRUE]
    <3>1. Forgotten({n}, p) /\ calls' = calls
      BY <1>1, <2>10, LeaveEffect DEF Stop
    <3>2. SameSecrets(r, end[n][p].rec) /\ Held(p, end[n][p].rec)
      BY <2>0 DEF Records, SameSecrets, Held
    <3>3. cache' = cache \/ cache' = [cache EXCEPT ![p] = r]
      BY <2>10 DEF Stop, Save
    <3> HIDE DEF r
    <3>4. \A o \in Peers : \E t \in Records : Held(o, t) /\ SameSecrets(cache'[o], t)
      <4>1. \A o \in Peers : cache'[o] = cache[o] \/ (o = p /\ cache'[o] = r)
        BY <1>1, <3>3 DEF TypeOK
      <4> QED BY <1>1, <2>0, <3>2, <4>1, CacheHeld
    <3> QED BY <1>1, <3>1, <3>4, CallForgotten, SecretsForgotten DEF AgreeInv
  <2> QED BY <1>3, <2>1, <2>2, <2>3, <2>4, <2>5, <2>6, <2>7, <2>8, <2>9, <2>10
<1>4. ASSUME NEW p \in Peers, Crash(p) PROVE AgreeInv'
  <2>1. PICK ns : Leave(ns, p) /\ UNCHANGED <<cache, calls>>
    BY <1>4 DEF Crash
  <2>2. Forgotten(ns, p)
    BY <1>1, <2>1, LeaveEffect
  <2>3. \A o \in Peers : \E t \in Records : Held(o, t) /\ SameSecrets(cache'[o], t)
    BY <1>1, <2>1, CacheHeld
  <2> QED BY <1>1, <2>1, <2>2, <2>3, CallForgotten, SecretsForgotten DEF AgreeInv
<1>5. CASE LoseCache
  <2>1. CallInv'
    BY <1>1, <1>5, CallKept DEF CallInv, LoseCache
  <2> QED BY <1>1, <1>5, <2>1, SecretsLost DEF AgreeInv
<1>6. CASE UNCHANGED vars
  <2>1. CallInv'
    BY <1>1, <1>6, CallKept DEF CallInv, vars
  <2>2. SecretsInv'
    BY <1>1, <1>6 DEF vars, SecretsInv, ShapeInv, NotYetInv, OppositeInv, NextInv, CrossInv,
                      Held, NotYet, Between
  <2> QED BY <1>1, <2>1, <2>2 DEF AgreeInv
<1> QED BY <1>2, <1>3, <1>4, <1>5, <1>6 DEF Next

LEMMA AgreeCorrect == Spec => []AgreeInv
BY AgreeInit, AgreeNext, PTL DEF Spec

LEMMA KeysAgreeHolds == AgreeInv => KeysAgree
<1> SUFFICES ASSUME AgreeInv, NEW n \in Calls, NEW p \in Peers,
                    {end[n][p].pc, end[n][Other(p)].pc} \subseteq {"keys", "confirmed", "secure"}
             PROVE  end[n][p].s1 = end[n][Other(p)].s1
  BY DEF KeysAgree
<1>1. Other(p) \in Peers /\ Other(Other(p)) = p
  BY TwoPeers
<1>2. /\ OrderOf(n, p) /\ OrderOf(n, Other(p))
      /\ StageOf(n, p, end[n][p].pc) /\ StageOf(n, Other(p), end[n][Other(p)].pc)
  BY <1>1 DEF AgreeInv, CallInv, OrderInv, StageInv
<1>3. Sent(n, p, "Confirm1") \/ Sent(n, Other(p), "Confirm1")
  BY <1>1, <1>2 DEF OrderOf, StageOf
<1>4. PICK msg \in sent[n] : msg.kind = "Confirm1" /\ msg.from \in {p, Other(p)}
  BY <1>3 DEF Sent
<1>5. ContentOf(msg, end[n][msg.from], end[n][Other(msg.from)])
  BY DEF AgreeInv, CallInv, ContentInv
<1> QED BY <1>1, <1>4, <1>5 DEF ContentOf

\* However many calls overlap, are cut or lost with a phone that crashes, the
\* two ends of a call with keys selected the same retained secret.
THEOREM KeysAgreeCorrect == Spec => []KeysAgree
BY AgreeCorrect, KeysAgreeHolds, PTL

\* Only a Confirm2 makes an end with keys secure.
LEMMA SecureByConfirm2 ==
  ASSUME TypeOK, [Next]_vars, NEW n \in Calls, NEW p \in Peers,
         end[n][p].pc = "keys", end'[n][p].pc = "secure"
  PROVE  HandleConfirm2(n, p)
<1>1. ASSUME NEW m \in Calls, NEW o \in Peers, NEW e, Changed(m, o, e) PROVE m = n /\ o = p
  BY <1>1 DEF Changed
<1>2. ~StartCall
  <2>1. SUFFICES ASSUME StartCall PROVE FALSE
    OBVIOUS
  <2>2. CASE n = calls + 1
    <3>1. end'[n][p] = [Gone EXCEPT !.pc = "hello"]
      BY <2>1, <2>2, StartEffect
    <3> QED BY <3>1 DEF Gone
  <2> QED BY <2>1, <2>2, StartEffect
<1>3. ASSUME NEW ns, NEW o \in Peers, Leave(ns, o) PROVE FALSE
  BY <1>3, LeaveEffect, EmptyTypes DEF Forgotten
<1>4. ~LoseCache /\ ~UNCHANGED vars
  BY DEF LoseCache, vars
<1>5. PICK m \in Calls, o \in Peers :
        \/ Read(m, o) \/ SendCommit(m, o) \/ AnswerCommit(m, o)
        \/ InitiatorKeys(m, o) \/ ResponderKeys(m, o)
        \/ HandleConfirm1(m, o) \/ HandleConfirm2(m, o) \/ HandleConf2Ack(m, o)
        \/ Media(m, o) \/ (\E yes \in BOOLEAN : SetVerify(m, o, yes)) \/ Stop(m, o)
  BY <1>2, <1>3, <1>4 DEF Next, Crash
<1>6. CASE Read(m, o)
  BY <1>1, <1>6, ReadEffect DEF Read
<1>7. CASE SendCommit(m, o) \/ AnswerCommit(m, o)
  BY <1>7 DEF SendCommit, AnswerCommit
<1>8. CASE InitiatorKeys(m, o) \/ ResponderKeys(m, o)
  <2>1. PICK ids : GenerateKeys(m, o, ids)
    BY <1>8 DEF InitiatorKeys, ResponderKeys
  <2>2. end[m][o].pc = "read"
    BY <2>1 DEF GenerateKeys
  <2>3. \E e : Changed(m, o, e)
    BY <2>1, KeysEffect
  <2>4. m = n /\ o = p
    BY <1>1, <2>3
  <2> QED BY <2>2, <2>4
<1>9. CASE HandleConfirm1(m, o)
  <2>1. PICK r : end' = [end EXCEPT ![m][o].pc = "confirmed", ![m][o].rec = r]
    BY <1>9 DEF HandleConfirm1
  <2>2. end[n] \in [Peers -> Ends] /\ end[n][p] \in Ends
    BY DEF TypeOK
  <2>3. end'[n] = IF n = m THEN [end[n] EXCEPT ![o].pc = "confirmed", ![o].rec = r] ELSE end[n]
    BY <2>1 DEF TypeOK
  <2>4. end'[n][p].pc # "secure"
    BY <2>2, <2>3 DEF Ends
  <2> QED BY <2>4
<1>10. CASE HandleConfirm2(m, o)
  <2>1. PICK r : end' = [end EXCEPT ![m][o].pc = "secure", ![m][o].rec = r]
    BY <1>10 DEF HandleConfirm2
  <2>2. m = n /\ o = p
    BY <2>1 DEF TypeOK
  <2> QED BY <1>10, <2>2
<1>11. CASE HandleConf2Ack(m, o)
  BY <1>1, <1>11, AckEffect DEF HandleConf2Ack
<1>12. CASE Media(m, o)
  BY <1>1, <1>12, MediaEffect DEF Media
<1>13. CASE \E yes \in BOOLEAN : SetVerify(m, o, yes)
  BY <1>1, <1>13, VerifyEffect DEF SetVerify
<1>14. CASE Stop(m, o)
  BY <1>3, <1>14 DEF Stop
<1> QED BY <1>5, <1>6, <1>7, <1>8, <1>9, <1>10, <1>11, <1>12, <1>13, <1>14

LEMMA FlagsStep ==
  ASSUME AgreeInv, [Next]_vars, NEW n \in Calls, NEW p \in Peers,
         end[n][p].pc = "keys", end'[n][p].pc = "secure", end[n][Other(p)].pc = "confirmed"
  PROVE  end'[n][p].rec.sas = end[n][Other(p)].rec.sas
<1>1. TypeOK
  BY DEF AgreeInv
<1>2. HandleConfirm2(n, p)
  BY <1>1, SecureByConfirm2
<1>3. PICK c \in Received(n, p, "Confirm2") :
        LET r == Confirmed(end[n][p].rec, n, c.sas) IN
        /\ Save(p, r)
        /\ end' = [end EXCEPT ![n][p].pc = "secure", ![n][p].rec = r]
  BY <1>2 DEF HandleConfirm2
<1> DEFINE r == Confirmed(end[n][p].rec, n, c.sas)
           e == [end[n][p] EXCEPT !.pc = "secure", !.rec = r]
<1>4. c \in sent[n] /\ c.from = Other(p) /\ c.kind = "Confirm2" /\ c.sas \in BOOLEAN
  BY <1>1, <1>3, ReceivedType, MessageType
<1>5. Changed(n, p, e)
  BY <1>1, <1>3, <1>4, ConfirmEffect
<1>6. end[n][p] \in Ends /\ end[n][p].rec \in Records /\ end[n][Other(p)].rec \in Records
  BY <1>1, TwoPeers DEF TypeOK, Ends
<1>7. end'[n][p].rec = r
  BY <1>5, <1>6 DEF Changed, Ends
<1>8. r.sas = (end[n][p].rec.sas /\ c.sas)
  BY <1>4, <1>6, ConfirmedRecord
<1>9. ContentOf(c, end[n][Other(p)], end[n][p])
  BY <1>4, TwoPeers DEF AgreeInv, CallInv, ContentInv
<1>10. c.sas = end[n][Other(p)].rec.sas /\ (c.sas => end[n][p].rec.sas)
  BY <1>4, <1>9 DEF ContentOf
<1> HIDE DEF r, e
<1> QED BY <1>4, <1>7, <1>8, <1>10

\* When the Responder becomes secure it shows the flag of the Initiator, which
\* had sent it with its Confirm2 and keeps it until then.
THEOREM FlagsAgreeCorrect == Spec => FlagsAgree
<1>1. AgreeInv /\ [Next]_vars =>
        [\A n \in Calls, p \in Peers :
           /\ end[n][p].pc = "keys" /\ end'[n][p].pc = "secure"
           /\ end[n][Other(p)].pc = "confirmed"
           => end'[n][p].rec.sas = end[n][Other(p)].rec.sas]_vars
  BY FlagsStep
<1> QED BY <1>1, AgreeCorrect, PTL DEF Spec, FlagsAgree

-----------------------------------------------------------------------------
(* One call at a time: SingleInv is inductive.                               *)

LEMMA SingleInit == Init => SingleInv
<1> SUFFICES ASSUME Init PROVE SingleInv
  OBVIOUS
<1>1. \A n \in Calls, p \in Peers : end[n][p] = Gone
  BY DEF Init
<1>2. AloneInv
  BY <1>1, EmptyTypes DEF AloneInv
<1>3. \A p \in Peers : RecordOf(cache[p])
  <2>1. \A p \in Peers : cache[p] = EmptyRecord
    BY DEF Init
  <2>2. calls = 0
    BY DEF Init
  <2> QED BY <2>1, <2>2, EmptyTypes DEF RecordOf
<1>4. \A n \in Calls, p \in Peers : CopyOf(n, end[n][p], cache[p])
  BY <1>1, EmptyTypes DEF CopyOf
<1>5. \A n \in Calls : sent[n] = {}
  BY DEF Init
<1>6. StoredInv
  BY <1>5 DEF StoredInv, Sent
<1>7. IdsInv
  BY <1>5 DEF IdsInv
<1> QED BY <1>2, <1>3, <1>4, <1>6, <1>7 DEF SingleInv

\* Another call than the one with an end has no end and no packets.
LEMMA OthersQuiet ==
  ASSUME CallInv, AloneInv, NEW n \in Calls, NEW p \in Peers, end[n][p].pc # "none",
         NEW m \in Calls, m # n
  PROVE  sent[m] = {} /\ \A o \in Peers : end[m][o].pc = "none"
BY DEF CallInv, OrderInv, AloneInv

\* A step of end p of call n, its record in the file becoming c.
LEMMA SingleStep ==
  ASSUME TypeOK, TypeOK', CallInv, SingleInv, calls' = calls, NEW n \in Calls, NEW p \in Peers,
         NEW e, Changed(n, p, e), end[n][p].pc # "none",
         NEW c, cache'[p] = c, cache'[Other(p)] = cache[Other(p)], RecordOf(c),
         CopyOf(n, e, c),
         e.pc \in {"hello", "read"} => end[n][p].pc \in {"hello", "read"},
         \/ SameSecrets(c, cache[p])
         \/ c.rs1 = n /\ end[n][Other(p)].pc \notin {"hello", "read"},
         \/ UNCHANGED sent
         \/ \E msg : /\ Added(n, {msg}) /\ msg.from = p
                     /\ msg.kind \in {"Confirm2", "Conf2Ack"} => c.rs1 = n
                     /\ IdsOf(msg, end[n][Other(p)], c)
  PROVE  SingleInv'
<1> DEFINE q == Other(p)
<1>1. q \in Peers /\ q # p /\ Other(q) = p /\ \A o \in Peers : o = p \/ o = q
  BY TwoPeers
<1>2. end'[n][p] = e /\ end'[n][q] = end[n][q] /\ \A m \in Calls, o \in Peers :
        m # n => end'[m][o] = end[m][o]
  BY <1>1 DEF Changed
<1>3. n = calls
  BY DEF SingleInv, AloneInv
<1>4. ASSUME NEW m \in Calls, m # n
      PROVE  sent[m] = {} /\ sent'[m] = {} /\ \A o \in Peers : end'[m][o].pc = "none"
  BY <1>2, <1>4, OthersQuiet DEF Added, SingleInv
<1>5. AloneInv'
  BY <1>3, <1>4 DEF AloneInv
<1>6. \A o \in Peers : RecordOf(cache[o])'
  BY <1>1 DEF SingleInv, RecordOf
<1>7. \A m \in Calls, o \in Peers : CopyOf(m, end[m][o], cache[o])'
  <2> SUFFICES ASSUME NEW m \in Calls, NEW o \in Peers PROVE CopyOf(m, end'[m][o], cache'[o])
    BY DEF CopyOf
  <2>1. CASE m = n
    BY <1>1, <1>2, <2>1 DEF SingleInv
  <2>2. CASE m # n
    <3>1. end'[m][o].pc = "none" /\ end'[m][o] = end[m][o] /\ CopyOf(m, end[m][o], cache[o])
      BY <1>2, <1>4, <2>2 DEF SingleInv
    <3> QED BY <3>1 DEF CopyOf
  <2> QED BY <2>1, <2>2
<1>8. StoredInv'
  <2> SUFFICES ASSUME NEW m \in Calls, NEW o \in Peers,
                      NEW k \in {"Confirm2", "Conf2Ack"}, Sent(m, o, k)'
               PROVE  cache'[o].rs1 = m
    BY DEF StoredInv
  <2>1. m = n
    BY <1>4 DEF Sent
  <2>2. CASE Sent(n, o, k)
    <3>1. cache[o].rs1 = n
      BY <2>2 DEF SingleInv, StoredInv
    <3> QED BY <1>1, <2>1, <3>1 DEF SameSecrets
  <2>3. CASE ~Sent(n, o, k)
    <3>1. PICK msg : /\ Added(n, {msg}) /\ msg.from = p
                     /\ msg.kind \in {"Confirm2", "Conf2Ack"} => c.rs1 = n
      BY <2>1, <2>3 DEF Sent
    <3>2. o = p /\ k = msg.kind
      BY <2>1, <2>3, <3>1, SentAdded
    <3> QED BY <2>1, <3>1, <3>2
  <2> QED BY <2>2, <2>3
<1>9. IdsInv'
  <2> SUFFICES ASSUME NEW m \in Calls, NEW msg \in sent'[m]
               PROVE  IdsOf(msg, end'[m][Other(msg.from)], cache'[msg.from])
    BY DEF IdsInv, IdsOf
  <2>1. m = n
    BY <1>4
  <2>2. msg.from \in Peers
    BY MessageType DEF TypeOK
  <2>3. CASE msg \in sent[n] /\ msg.from = p
    <3>1. IdsOf(msg, end[n][q], cache[p])
      BY <2>3 DEF SingleInv, IdsInv
    <3> QED BY <1>2, <2>1, <2>3, <3>1 DEF IdsOf, SameSecrets
  <2>4. CASE msg \in sent[n] /\ msg.from = q
    <3>1. IdsOf(msg, end[n][p], cache[q])
      BY <1>1, <2>4 DEF SingleInv, IdsInv
    <3> QED BY <1>1, <1>2, <2>1, <2>4, <3>1 DEF IdsOf
  <2>5. CASE msg \notin sent[n]
    BY <1>2, <2>1, <2>5 DEF Added
  <2> QED BY <1>1, <2>2, <2>3, <2>4, <2>5
<1> QED BY <1>5, <1>6, <1>7, <1>8, <1>9 DEF SingleInv

\* The sessions of p in some calls end.
LEMMA SingleForgotten ==
  ASSUME TypeOK, CallInv, SingleInv, calls' = calls, NEW p \in Peers, NEW ns, Forgotten(ns, p),
         NEW c, cache'[p] = c, cache'[Other(p)] = cache[Other(p)], SameSecrets(c, cache[p]),
         c = cache[p] \/ \E n \in Calls : n \in ns /\ end[n][p].pc # "none"
  PROVE  SingleInv'
<1>1. \A o \in Peers : o = p \/ o = Other(p)
  BY TwoPeers
<1>2. \A m \in Calls, o \in Peers :
        end'[m][o] = end[m][o] \/ end'[m][o] = Gone
  BY DEF Forgotten
<1>3. \A m \in Calls : sent'[m] = sent[m] \/ sent'[m] = {}
  BY DEF Forgotten
<1>4. \A o \in Peers : SameSecrets(cache'[o], cache[o])
  BY <1>1 DEF SameSecrets
<1>5. AloneInv'
  BY <1>2, EmptyTypes DEF SingleInv, AloneInv
<1>6. \A o \in Peers : RecordOf(cache[o])'
  BY <1>4 DEF SingleInv, RecordOf, SameSecrets
<1>7. \A m \in Calls, o \in Peers : CopyOf(m, end[m][o], cache[o])'
  <2> SUFFICES ASSUME NEW m \in Calls, NEW o \in Peers PROVE CopyOf(m, end'[m][o], cache'[o])
    BY DEF CopyOf
  <2>1. CASE end'[m][o] = Gone
    BY <2>1, EmptyTypes DEF CopyOf
  <2>2. CASE end'[m][o] # Gone /\ cache'[o] = cache[o]
    BY <1>2, <2>2 DEF SingleInv
  <2>3. CASE end'[m][o] # Gone /\ cache'[o] # cache[o]
    <3>1. o = p /\ end'[m][o] = end[m][o] /\ m \notin ns
      BY <1>1, <2>3 DEF Forgotten
    <3>2. PICK n \in Calls : n \in ns /\ end[n][p].pc # "none"
      BY <2>3, <3>1
    <3>3. end[m][o].pc = "none"
      BY <3>1, <3>2, OthersQuiet DEF SingleInv
    <3>4. CopyOf(m, end[m][o], cache[o])
      BY DEF SingleInv
    <3> QED BY <3>1, <3>3, <3>4 DEF CopyOf
  <2> QED BY <2>1, <2>2, <2>3
<1>8. StoredInv'
  <2>1. \A m \in Calls, o \in Peers : \A k : Sent(m, o, k)' => Sent(m, o, k)
    BY <1>3 DEF Sent
  <2> QED BY <1>4, <2>1 DEF SingleInv, StoredInv, SameSecrets
<1>9. IdsInv'
  <2> SUFFICES ASSUME NEW m \in Calls, NEW msg \in sent'[m]
               PROVE  IdsOf(msg, end'[m][Other(msg.from)], cache'[msg.from])
    BY DEF IdsInv, IdsOf
  <2>1. msg \in sent[m] /\ msg.from \in Peers /\ Other(msg.from) \in Peers
    BY <1>3, MessageType, TwoPeers DEF TypeOK
  <2>2. IdsOf(msg, end[m][Other(msg.from)], cache[msg.from])
    BY <2>1 DEF SingleInv, IdsInv
  <2> QED BY <1>2, <1>4, <2>1, <2>2, EmptyTypes DEF IdsOf, SameSecrets
<1> QED BY <1>5, <1>6, <1>7, <1>8, <1>9 DEF SingleInv

LEMMA SameItself == \A r : SameSecrets(r, r)
BY DEF SameSecrets

\* The file of p stays.
LEMMA FileKept ==
  ASSUME UNCHANGED cache, NEW p \in Peers
  PROVE  cache'[p] = cache[p] /\ cache'[Other(p)] = cache[Other(p)] /\ SameSecrets(cache[p], cache[p])
BY SameItself

\* What every step of an end finds.
LEMMA SingleEnd ==
  ASSUME TypeOK, SingleInv, NEW n \in Calls, NEW p \in Peers
  PROVE  /\ end[n][p] \in Ends /\ end[n][p].rec \in Records
         /\ cache[p] \in Records /\ RecordOf(cache[p]) /\ CopyOf(n, end[n][p], cache[p])
         /\ end[n][p].pc # "none" => n = calls
BY DEF TypeOK, Ends, SingleInv, AloneInv

LEMMA SingleRead ==
  ASSUME AgreeInv, AgreeInv', SingleInv, NEW n \in Calls, NEW p \in Peers, Read(n, p)
  PROVE  SingleInv'
<1> DEFINE e == [end[n][p] EXCEPT !.pc = "read", !.rec = cache[p]]
<1>1. Changed(n, p, e) /\ end[n][p].pc = "hello" /\ UNCHANGED <<cache, calls, sent>>
  BY ReadEffect DEF Read, AgreeInv
<1>2. end[n][p] \in Ends /\ RecordOf(cache[p]) /\ CopyOf(n, end[n][p], cache[p])
  BY SingleEnd DEF AgreeInv
<1>3. e.pc = "read" /\ e.rec = cache[p] /\ e.media = end[n][p].media
  BY <1>2 DEF Ends
<1> HIDE DEF e
<1>4. CopyOf(n, e, cache[p])
  BY <1>1, <1>2, <1>3, SameItself DEF CopyOf
<1> QED BY <1>1, <1>2, <1>3, <1>4, FileKept, SingleStep DEF AgreeInv

\* The ids of a record that has not been stored since it was read.
LEMMA IdsOfCopy ==
  ASSUME NEW r, NEW c, NEW msg, NEW f, SameSecrets(r, c), msg.ids = Valid(r)
  PROVE  IdsOf(msg, f, c)
BY DEF IdsOf, SameSecrets, Valid

LEMMA SingleSends ==
  ASSUME AgreeInv, AgreeInv', SingleInv, NEW n \in Calls, NEW p \in Peers,
         SendCommit(n, p) \/ AnswerCommit(n, p)
  PROVE  SingleInv'
<1>1. Changed(n, p, end[n][p]) /\ end[n][p].pc = "read" /\ UNCHANGED <<cache, calls>>
  BY EndKept DEF SendCommit, AnswerCommit, AgreeInv
<1>2. RecordOf(cache[p]) /\ CopyOf(n, end[n][p], cache[p])
  BY SingleEnd DEF AgreeInv
<1>3. \E msg : /\ Added(n, {msg}) /\ msg.from = p
               /\ msg.kind \in {"Confirm2", "Conf2Ack"} => cache[p].rs1 = n
               /\ IdsOf(msg, end[n][Other(p)], cache[p])
  <2>1. CASE SendCommit(n, p)
    <3> DEFINE msg == [from |-> p, kind |-> "Commit"]
    <3>1. Added(n, {msg}) /\ msg.from = p /\ msg.kind = "Commit"
      BY <2>1, SendAdds, SentTypes DEF SendCommit, AgreeInv
    <3> HIDE DEF msg
    <3> QED BY <3>1 DEF IdsOf
  <2>2. CASE AnswerCommit(n, p)
    <3> DEFINE msg == [from |-> p, kind |-> "DHPart1", ids |-> Valid(end[n][p].rec)]
    <3>1. Added(n, {msg}) /\ msg.from = p /\ msg.kind = "DHPart1" /\ msg.ids = Valid(end[n][p].rec)
      BY <2>2, SendAdds, SentTypes DEF AnswerCommit, AgreeInv
    <3>2. SameSecrets(end[n][p].rec, cache[p])
      BY <1>1, <1>2 DEF CopyOf
    <3> HIDE DEF msg
    <3> QED BY <3>1, <3>2, IdsOfCopy
  <2> QED BY <2>1, <2>2
<1>4. end[n][p].pc # "none" /\ end[n][p].pc \in {"hello", "read"}
  BY <1>1
<1> QED BY <1>1, <1>2, <1>3, <1>4, FileKept, SingleStep DEF AgreeInv

LEMMA SingleKeys ==
  ASSUME AgreeInv, AgreeInv', SingleInv, NEW n \in Calls, NEW p \in Peers,
         InitiatorKeys(n, p) \/ ResponderKeys(n, p)
  PROVE  SingleInv'
<1>0. TypeOK
  BY DEF AgreeInv
<1>1. PICK ids :
        /\ GenerateKeys(n, p, ids)
        /\ \/ Send(n, [from |-> p, kind |-> "DHPart2", ids |-> Valid(end[n][p].rec)])
           \/ Send(n, [from |-> p, kind |-> "Confirm1", s1 |-> Select(end[n][p].rec, ids),
                       sas |-> Matched(end[n][p].rec, ids).sas])
  BY DEF InitiatorKeys, ResponderKeys
<1> DEFINE r == end[n][p].rec
           e == [end[n][p] EXCEPT !.pc = "keys", !.s1 = Select(r, ids), !.rec = Matched(r, ids)]
<1>2. Changed(n, p, e) /\ end[n][p].pc = "read" /\ UNCHANGED <<cache, calls>>
  BY <1>0, <1>1, KeysEffect DEF GenerateKeys
<1>3. end[n][p] \in Ends /\ r \in Records /\ RecordOf(cache[p]) /\ CopyOf(n, end[n][p], cache[p])
  BY <1>0, SingleEnd
<1>4. e.pc = "keys" /\ e.rec = Matched(r, ids) /\ e.media = end[n][p].media
  BY <1>3 DEF Ends
<1>5. SameSecrets(r, cache[p]) /\ (r.sas => cache[p].sas)
  BY <1>2, <1>3 DEF CopyOf
<1>6. SameSecrets(Matched(r, ids), cache[p]) /\ (Matched(r, ids).sas => cache[p].sas)
  BY <1>3, <1>5, MatchedRecord DEF SameSecrets
<1>7. \E msg : /\ Added(n, {msg}) /\ msg.from = p
               /\ msg.kind \in {"Confirm2", "Conf2Ack"} => cache[p].rs1 = n
               /\ IdsOf(msg, end[n][Other(p)], cache[p])
  <2>1. CASE Send(n, [from |-> p, kind |-> "DHPart2", ids |-> Valid(r)])
    <3> DEFINE msg == [from |-> p, kind |-> "DHPart2", ids |-> Valid(r)]
    <3>1. Added(n, {msg}) /\ msg.from = p /\ msg.kind = "DHPart2" /\ msg.ids = Valid(r)
      BY <1>0, <2>1, SendAdds, SentTypes
    <3> HIDE DEF msg
    <3> QED BY <1>5, <3>1, IdsOfCopy
  <2>2. CASE Send(n, [from |-> p, kind |-> "Confirm1", s1 |-> Select(r, ids),
                      sas |-> Matched(r, ids).sas])
    <3> DEFINE msg == [from |-> p, kind |-> "Confirm1", s1 |-> Select(r, ids),
                       sas |-> Matched(r, ids).sas]
    <3>1. Added(n, {msg}) /\ msg.from = p /\ msg.kind = "Confirm1"
      BY <1>0, <2>2, SendAdds, SentTypes
    <3> HIDE DEF msg
    <3> QED BY <3>1 DEF IdsOf
  <2> QED BY <1>1, <2>1, <2>2
<1> HIDE DEF e, r
<1>8. CopyOf(n, e, cache[p])
  BY <1>2, <1>3, <1>4, <1>6 DEF CopyOf
<1>9. end[n][p].pc # "none" /\ e.pc \notin {"hello", "read"}
  BY <1>2, <1>4
<1> QED BY <1>2, <1>3, <1>7, <1>8, <1>9, FileKept, SingleStep DEF AgreeInv

\* End p of call n becomes e, which has the record of the file, and confirms
\* with msg.
Confirmation(n, p, e, msg) ==
  /\ Changed(n, p, e) /\ e.rec = cache'[p] /\ e.media = end[n][p].media
  /\ Added(n, {msg}) /\ msg.from = p
  /\ \/ /\ HandleConfirm1(n, p) /\ e.pc = "confirmed" /\ msg.kind = "Confirm2"
        /\ cuts' = IF cuts = 2 THEN 2 ELSE cuts + 1
     \/ /\ HandleConfirm2(n, p) /\ e.pc = "secure" /\ msg.kind = "Conf2Ack"
        /\ cuts' = 0 /\ Sent(n, Other(p), "Confirm2")

LEMMA ConfirmStep ==
  ASSUME AgreeInv, NEW n \in Calls, NEW p \in Peers, HandleConfirm1(n, p) \/ HandleConfirm2(n, p)
  PROVE  /\ end[n][p].pc = "keys" /\ UNCHANGED <<calls, trusted>>
         /\ end[n][Other(p)].pc \notin {"hello", "read"}
         /\ cache'[Other(p)] = cache[Other(p)]
         /\ \E e : \E msg : Confirmation(n, p, e, msg)
         /\ cache'[p].rs1 = n /\ cache'[p].v1 /\ cache'[p].rs2 = end[n][p].rec.rs1
         /\ cache'[p].sas => end[n][p].rec.sas
<1>0. TypeOK /\ CallInv /\ end[n][p] \in Ends /\ end[n][p].rec \in Records
  BY DEF AgreeInv, TypeOK, Ends
<1>1. PICK pc \in {"confirmed", "secure"}, kind \in {"Confirm1", "Confirm2"}, c \in sent[n] :
        LET r == Confirmed(end[n][p].rec, n, c.sas) IN
        /\ end[n][p].pc = "keys"
        /\ Save(p, r)
        /\ end' = [end EXCEPT ![n][p].pc = pc, ![n][p].rec = r]
        /\ UNCHANGED <<calls, trusted>>
        /\ c \in Received(n, p, kind)
        /\ \/ /\ HandleConfirm1(n, p) /\ pc = "confirmed"
              /\ Send(n, [from |-> p, kind |-> "Confirm2", sas |-> r.sas])
              /\ cuts' = IF cuts = 2 THEN 2 ELSE cuts + 1
           \/ /\ HandleConfirm2(n, p) /\ pc = "secure" /\ kind = "Confirm2"
              /\ Send(n, [from |-> p, kind |-> "Conf2Ack"])
              /\ cuts' = 0
  BY DEF HandleConfirm1, HandleConfirm2, Received
<1> DEFINE r == Confirmed(end[n][p].rec, n, c.sas)
           e == [end[n][p] EXCEPT !.pc = pc, !.rec = r]
<1>2. c.from = Other(p) /\ c.kind = kind /\ c.sas \in BOOLEAN
  BY <1>0, <1>1, ReceivedType, MessageType
<1>3. Changed(n, p, e)
  BY <1>0, <1>1, <1>2, ConfirmEffect
<1>4. /\ r \in Records /\ r.rs1 = n /\ r.v1 /\ r.rs2 = end[n][p].rec.rs1
      /\ r.sas = (end[n][p].rec.sas /\ c.sas)
  BY <1>0, <1>2, ConfirmedRecord
<1>5. e.pc = pc /\ e.rec = r /\ e.media = end[n][p].media
  BY <1>0 DEF Ends
<1>6. cache'[p] = r /\ cache'[Other(p)] = cache[Other(p)]
  BY <1>0, <1>1, TwoPeers DEF Save, TypeOK
<1>7. end[n][Other(p)].pc \notin {"hello", "read"}
  <2>1. Sent(n, Other(p), "Confirm1") \/ Sent(n, Other(p), "Confirm2")
    BY <1>2 DEF Sent
  <2>2. StageOf(n, Other(p), end[n][Other(p)].pc)
    BY <1>0, TwoPeers DEF CallInv, StageInv
  <2> QED BY <2>1, <2>2 DEF StageOf
<1>8. \E msg :
        /\ Added(n, {msg}) /\ msg.from = p
        /\ \/ /\ HandleConfirm1(n, p) /\ pc = "confirmed" /\ msg.kind = "Confirm2"
              /\ cuts' = IF cuts = 2 THEN 2 ELSE cuts + 1
           \/ /\ HandleConfirm2(n, p) /\ pc = "secure" /\ msg.kind = "Conf2Ack"
              /\ cuts' = 0 /\ Sent(n, Other(p), "Confirm2")
  <2>1. CASE HandleConfirm1(n, p) /\ pc = "confirmed"
             /\ Send(n, [from |-> p, kind |-> "Confirm2", sas |-> r.sas])
             /\ cuts' = IF cuts = 2 THEN 2 ELSE cuts + 1
    <3> DEFINE msg == [from |-> p, kind |-> "Confirm2", sas |-> r.sas]
    <3>1. Added(n, {msg}) /\ msg.from = p /\ msg.kind = "Confirm2"
      BY <1>0, <1>2, <2>1, SendAdds, SentTypes
    <3> HIDE DEF msg
    <3> QED BY <2>1, <3>1
  <2>2. CASE HandleConfirm2(n, p) /\ pc = "secure" /\ kind = "Confirm2"
             /\ Send(n, [from |-> p, kind |-> "Conf2Ack"]) /\ cuts' = 0
    <3> DEFINE msg == [from |-> p, kind |-> "Conf2Ack"]
    <3>1. Added(n, {msg}) /\ msg.from = p /\ msg.kind = "Conf2Ack"
      BY <1>0, <2>2, SendAdds, SentTypes
    <3>2. Sent(n, Other(p), "Confirm2")
      BY <1>2, <2>2 DEF Sent
    <3> HIDE DEF msg
    <3> QED BY <2>2, <3>1, <3>2
  <2> QED BY <1>1, <2>1, <2>2
<1>9. end[n][p].pc = "keys" /\ UNCHANGED <<calls, trusted>>
  BY <1>1
<1> HIDE DEF e, r
<1>10. \E msg : Confirmation(n, p, e, msg)
  BY <1>3, <1>5, <1>6, <1>8 DEF Confirmation
<1> QED BY <1>4, <1>6, <1>7, <1>9, <1>10

LEMMA SingleConfirm ==
  ASSUME AgreeInv, AgreeInv', SingleInv, NEW n \in Calls, NEW p \in Peers,
         HandleConfirm1(n, p) \/ HandleConfirm2(n, p)
  PROVE  SingleInv'
<1>0. PICK e, msg : Confirmation(n, p, e, msg)
  BY ConfirmStep
<1>1. /\ Changed(n, p, e) /\ e.rec = cache'[p] /\ e.media = end[n][p].media
      /\ e.pc \in {"confirmed", "secure"}
      /\ Added(n, {msg}) /\ msg.from = p /\ msg.kind \in {"Confirm2", "Conf2Ack"}
  BY <1>0 DEF Confirmation
<1>2. /\ end[n][p].pc = "keys" /\ UNCHANGED calls
      /\ end[n][Other(p)].pc \notin {"hello", "read"} /\ cache'[Other(p)] = cache[Other(p)]
      /\ cache'[p].rs1 = n /\ cache'[p].v1 /\ cache'[p].rs2 = end[n][p].rec.rs1
  BY ConfirmStep
<1>3. n = calls /\ CopyOf(n, end[n][p], cache[p]) /\ cache[p] \in Records /\ n \in Nat \ {0}
  BY <1>2, SingleEnd DEF AgreeInv, Calls
<1>4. cache'[p].rs2 < n
  BY <1>2, <1>3 DEF CopyOf, SameSecrets
<1>5. RecordOf(cache'[p])
  BY <1>2, <1>3, <1>4 DEF RecordOf
<1>6. CopyOf(n, e, cache'[p])
  BY <1>1, <1>2, <1>3 DEF CopyOf
<1>7. IdsOf(msg, end[n][Other(p)], cache'[p])
  BY <1>1 DEF IdsOf
<1>8. end[n][p].pc # "none" /\ e.pc \notin {"hello", "read"}
  BY <1>1, <1>2
<1> QED BY <1>1, <1>2, <1>5, <1>6, <1>7, <1>8, SingleStep DEF AgreeInv

\* Conf2Ack and media: the file stays.
LEMMA SingleQuiet ==
  ASSUME AgreeInv, AgreeInv', SingleInv, NEW n \in Calls, NEW p \in Peers,
         HandleConf2Ack(n, p) \/ Media(n, p)
  PROVE  SingleInv'
<1>1. PICK e : /\ Changed(n, p, e) /\ e.pc = "secure" /\ e.rec = end[n][p].rec
               /\ UNCHANGED <<cache, calls, sent>>
               /\ end[n][p].pc \in {"confirmed", "secure"}
  <2>1. end[n][p] \in Ends /\ TypeOK
    BY DEF AgreeInv, TypeOK
  <2>2. CASE HandleConf2Ack(n, p)
    <3> DEFINE e == [end[n][p] EXCEPT !.pc = "secure"]
    <3>1. e.pc = "secure" /\ e.rec = end[n][p].rec
      BY <2>1 DEF Ends
    <3>2. Changed(n, p, e)
      BY <2>1, <2>2, AckEffect
    <3> HIDE DEF e
    <3> QED BY <2>2, <3>1, <3>2 DEF HandleConf2Ack
  <2>3. CASE Media(n, p)
    <3> DEFINE e == [end[n][p] EXCEPT !.media = TRUE]
    <3>1. e.pc = end[n][p].pc /\ e.rec = end[n][p].rec
      BY <2>1 DEF Ends
    <3>2. Changed(n, p, e)
      BY <2>1, <2>3, MediaEffect
    <3> HIDE DEF e
    <3> QED BY <2>3, <3>1, <3>2 DEF Media
  <2> QED BY <2>2, <2>3
<1>2. RecordOf(cache[p]) /\ CopyOf(n, end[n][p], cache[p])
  BY SingleEnd DEF AgreeInv
<1>3. CopyOf(n, e, cache[p])
  BY <1>1, <1>2 DEF CopyOf
<1>4. end[n][p].pc # "none" /\ e.pc \notin {"hello", "read"}
  BY <1>1
<1> QED BY <1>1, <1>2, <1>3, <1>4, FileKept, SingleStep DEF AgreeInv

LEMMA SingleVerify ==
  ASSUME AgreeInv, AgreeInv', SingleInv, NEW n \in Calls, NEW p \in Peers,
         NEW yes \in BOOLEAN, SetVerify(n, p, yes)
  PROVE  /\ SingleInv'
         /\ cache'[p] = [cache[p] EXCEPT !.sas = yes] /\ cache'[Other(p)] = cache[Other(p)]
<1> DEFINE r == [end[n][p].rec EXCEPT !.sas = yes]
           e == [end[n][p] EXCEPT !.rec = r]
<1>0. TypeOK
  BY DEF AgreeInv
<1>1. Changed(n, p, e) /\ end[n][p].pc = "secure" /\ UNCHANGED <<calls, sent>>
      /\ cache' = [cache EXCEPT ![p] = r]
  BY <1>0, VerifyEffect DEF SetVerify, Save
<1>2. /\ end[n][p] \in Ends /\ end[n][p].rec \in Records
      /\ RecordOf(cache[p]) /\ CopyOf(n, end[n][p], cache[p])
  BY <1>0, SingleEnd
<1>3. e.pc = "secure" /\ e.rec = r
  BY <1>1, <1>2 DEF Ends
<1>4. end[n][p].rec = cache[p]
  BY <1>1, <1>2 DEF CopyOf
<1>5. SameSecrets(r, cache[p])
  BY <1>2, <1>4 DEF Records, SameSecrets
<1>6. r = [cache[p] EXCEPT !.sas = yes]
  BY <1>4
<1> HIDE DEF e, r
<1>7. cache'[p] = r /\ cache'[Other(p)] = cache[Other(p)]
  BY <1>0, <1>1, TwoPeers DEF TypeOK
<1>8. RecordOf(r)
  BY <1>2, <1>5 DEF RecordOf, SameSecrets
<1>9. CopyOf(n, e, r)
  BY <1>3 DEF CopyOf
<1>10. end[n][p].pc # "none" /\ e.pc \notin {"hello", "read"}
  BY <1>1, <1>3
<1>11. SingleInv'
  BY <1>1, <1>5, <1>7, <1>8, <1>9, <1>10, SingleStep DEF AgreeInv
<1> QED BY <1>6, <1>7, <1>11

\* What a stopping session leaves in the file.
LEMMA StopRecord ==
  ASSUME AgreeInv, SingleInv, NEW n \in Calls, NEW p \in Peers, Stop(n, p)
  PROVE  /\ SameSecrets(cache'[p], cache[p]) /\ (cache'[p].sas => cache[p].sas)
         /\ cache'[p] = cache[p] \/ cache'[p].v2
         /\ end[n][p].pc = "confirmed" => cache'[p].v2
         /\ cache'[Other(p)] = cache[Other(p)]
<1> DEFINE r == [end[n][p].rec EXCEPT !.v2 = TRUE]
<1>1. /\ end[n][p] \in Ends /\ end[n][p].rec \in Records
      /\ RecordOf(cache[p]) /\ CopyOf(n, end[n][p], cache[p])
  BY SingleEnd DEF AgreeInv
<1>2. r.v2 /\ SameSecrets(r, end[n][p].rec) /\ r.sas = end[n][p].rec.sas
  BY <1>1 DEF Records, SameSecrets
<1>3. IF end[n][p].pc # "hello" /\ ~end[n][p].media
        THEN cache' = [cache EXCEPT ![p] = r] ELSE cache' = cache
  BY DEF Stop, Save
<1>4. end[n][p].pc # "none" /\ end[n][p].pc \in Stages
  BY <1>1 DEF Stop, Ends
<1>5. Other(p) \in Peers /\ Other(p) # p
  BY TwoPeers
<1>6. CASE end[n][p].pc = "hello" \/ end[n][p].media
  BY <1>1, <1>3, <1>6, SameItself DEF CopyOf
<1>7. CASE end[n][p].pc # "hello" /\ ~end[n][p].media
  <2>1. cache'[p] = r /\ cache'[Other(p)] = cache[Other(p)]
    BY <1>3, <1>5, <1>7 DEF AgreeInv, TypeOK
  <2>2. SameSecrets(end[n][p].rec, cache[p]) /\ (end[n][p].rec.sas => cache[p].sas)
    BY <1>1, <1>4, <1>7, SameItself DEF CopyOf, Stages
  <2> HIDE DEF r
  <2> QED BY <1>2, <2>1, <2>2 DEF SameSecrets
<1> QED BY <1>6, <1>7

LEMMA SingleStop ==
  ASSUME AgreeInv, SingleInv, NEW n \in Calls, NEW p \in Peers, Stop(n, p)
  PROVE  SingleInv'
<1>1. Forgotten({n}, p) /\ calls' = calls /\ end[n][p].pc # "none"
  BY LeaveEffect DEF Stop, AgreeInv
<1>2. SameSecrets(cache'[p], cache[p]) /\ cache'[Other(p)] = cache[Other(p)]
  BY StopRecord
<1> QED BY <1>1, <1>2, SingleForgotten DEF AgreeInv

LEMMA SingleCrash ==
  ASSUME AgreeInv, SingleInv, NEW p \in Peers, Crash(p)
  PROVE  SingleInv'
<1>1. PICK ns : Leave(ns, p) /\ UNCHANGED <<cache, calls>>
  BY DEF Crash
<1>2. Forgotten(ns, p)
  BY <1>1, LeaveEffect DEF AgreeInv
<1> QED BY <1>1, <1>2, FileKept, SingleForgotten DEF AgreeInv

LEMMA NobodyThere ==
  ASSUME CallInv, Active = {}
  PROVE  \A n \in Calls : sent[n] = {} /\ \A p \in Peers : end[n][p].pc = "none"
BY DEF CallInv, OrderInv, Active

\* A call starts when the sessions of the last one are gone.
LEMMA StartsAlone ==
  ASSUME TypeOK, CallInv, OneCall', StartCall
  PROVE  Active = {}
<1> SUFFICES ASSUME NEW m \in Active PROVE FALSE
  OBVIOUS
<1>1. PICK n \in Calls : n = calls + 1
  BY StartEffect
<1>2. \A o \in Peers : end'[n][o].pc = "hello"
  BY <1>1, StartEffect DEF Gone
<1>3. PICK p \in Peers : end[m][p].pc # "none"
  BY DEF Active
<1>4. end'[m][p].pc # "none" /\ end'[n][p].pc # "none"
  BY <1>1, <1>2, <1>3, StartEffect DEF Active
<1>5. m = n
  BY <1>4 DEF OneCall, Active
<1>6. n > calls
  BY <1>1 DEF TypeOK
<1> QED BY <1>3, <1>5, <1>6 DEF CallInv, OrderInv

LEMMA SingleStart ==
  ASSUME AgreeInv, SingleInv, OneCall', StartCall
  PROVE  SingleInv'
<1>0. TypeOK /\ CallInv
  BY DEF AgreeInv
<1>1. PICK n \in Calls : n = calls + 1
  BY <1>0, StartEffect
<1>2. /\ calls' = n /\ UNCHANGED <<cache, sent>>
      /\ \A o \in Peers : end'[n][o] = [Gone EXCEPT !.pc = "hello"]
      /\ \A m \in Calls : m # n => end'[m] = end[m]
  BY <1>0, <1>1, StartEffect DEF StartCall
<1>3. \A m \in Calls : sent[m] = {} /\ \A p \in Peers : end[m][p].pc = "none"
  BY <1>0, StartsAlone, NobodyThere
<1>4. \A p \in Peers : RecordOf(cache[p]) /\ cache[p] \in Records
  BY <1>0 DEF SingleInv, TypeOK
<1>5. AloneInv'
  BY <1>2, <1>3 DEF AloneInv
<1>6. \A p \in Peers : RecordOf(cache[p])'
  BY <1>0, <1>1, <1>2, <1>4 DEF RecordOf, Records, Secrets, TypeOK
<1>7. \A m \in Calls, p \in Peers : CopyOf(m, end[m][p], cache[p])'
  <2> SUFFICES ASSUME NEW m \in Calls, NEW p \in Peers PROVE CopyOf(m, end'[m][p], cache[p])
    BY <1>2 DEF CopyOf
  <2>1. CASE m = n
    <3>1. end'[m][p].pc = "hello" /\ ~end'[m][p].media
      <4>1. [Gone EXCEPT !.pc = "hello"].pc = "hello" /\ ~[Gone EXCEPT !.pc = "hello"].media
        BY DEF Gone
      <4>2. end'[m][p] = [Gone EXCEPT !.pc = "hello"]
        BY <1>2, <2>1
      <4> QED BY <4>1, <4>2
    <3>2. cache[p].rs1 < n
      BY <1>0, <1>1, <1>4 DEF RecordOf, Records, Secrets, TypeOK
    <3> QED BY <2>1, <3>1, <3>2 DEF CopyOf
  <2>2. CASE m # n
    BY <1>2, <2>2 DEF SingleInv
  <2> QED BY <2>1, <2>2
<1>8. StoredInv' /\ IdsInv'
  <2>1. \A m \in Calls : sent'[m] = {}
    BY <1>2, <1>3
  <2> QED BY <2>1 DEF StoredInv, IdsInv, Sent
<1> QED BY <1>5, <1>6, <1>7, <1>8 DEF SingleInv

LEMMA SingleLose == ASSUME AgreeInv, SingleInv, LoseCache PROVE SingleInv'
<1>1. cache' = [p \in Peers |-> EmptyRecord] /\ UNCHANGED <<calls, end, sent>> /\ TypeOK
  BY DEF LoseCache, AgreeInv
<1>2. \A m \in Calls : sent[m] = {} /\ \A p \in Peers : end[m][p].pc = "none"
  BY NobodyThere DEF LoseCache, AgreeInv
<1>3. AloneInv'
  BY <1>1, <1>2 DEF AloneInv
<1>4. \A p \in Peers : RecordOf(cache[p])'
  <2>1. \A p \in Peers : cache'[p] = EmptyRecord
    BY <1>1
  <2>2. calls' \in Nat
    BY <1>1 DEF TypeOK
  <2> QED BY <2>1, <2>2, EmptyTypes DEF RecordOf
<1>5. \A m \in Calls, p \in Peers : CopyOf(m, end[m][p], cache[p])'
  <2>1. \A m \in Calls, p \in Peers : CopyOf(m, end[m][p], cache[p])
    BY DEF SingleInv
  <2> QED BY <1>1, <1>2, <2>1 DEF CopyOf
<1>6. StoredInv' /\ IdsInv'
  <2>1. \A m \in Calls : sent'[m] = {}
    BY <1>1, <1>2
  <2> QED BY <2>1 DEF StoredInv, IdsInv, Sent
<1> QED BY <1>3, <1>4, <1>5, <1>6 DEF SingleInv

-----------------------------------------------------------------------------
(* TrustInv is inductive.                                                    *)

\* The secret that is selected is one p has compared the SAS of, if the flag is
\* still there.
LEMMA SelectedTrusted ==
  ASSUME TypeOK, NEW p, NEW r \in Records, NEW c \in Records, NEW d \in Records, NEW ids,
         SameSecrets(r, c), r.sas => c.sas, RecordOf(c), RecordOf(d), FlagOf(p, c, d),
         ids \subseteq {d.rs1, d.rs2}, d.v1 => d.rs1 \in ids, Matched(r, ids).sas
  PROVE  Select(r, ids) # NoSecret /\ p \in trusted[Select(r, ids)]
<1>1. r.sas /\ c.sas
  BY MatchedRecord
<1>2. r.v1 /\ p \in trusted[r.rs1] /\ (p \in trusted[r.rs2] \/ Shared(c, d)) /\ r.rs1 # 0
  BY <1>1 DEF FlagOf, SameSecrets, RecordOf
<1>3. Select(r, ids) # NoSecret
  <2> SUFFICES ASSUME Select(r, ids) = NoSecret PROVE FALSE
    OBVIOUS
  <2>1. Matched(r, ids) = [r EXCEPT !.sas = FALSE]
    BY <1>2 DEF Matched
  <2> QED BY <2>1 DEF Records
<1>4. CASE r.rs1 \in ids
  BY <1>2, <1>3, <1>4 DEF Select
<1>5. CASE r.rs1 \notin ids
  <2>1. Select(r, ids) = r.rs2 /\ r.rs2 \in ids
    BY <1>3, <1>5 DEF Select
  <2>2. CASE Shared(c, d)
    <3>1. r.rs1 \in Nat /\ r.rs2 \in Nat /\ d.rs1 \in Nat /\ d.rs2 \in Nat
      BY DEF Records, Secrets
    <3>2. r.rs2 < r.rs1
      BY <1>2, <3>1 DEF SameSecrets, RecordOf
    <3>3. r.rs1 # d.rs1
      BY <1>2, <1>5 DEF RecordOf
    <3>4. r.rs1 <= d.rs2
      BY <2>2, <3>3 DEF Shared, SameSecrets
    <3>5. d.rs2 < d.rs1
      BY <1>2, <3>1, <3>4 DEF RecordOf
    <3>6. r.rs2 # d.rs1 /\ r.rs2 # d.rs2
      BY <3>1, <3>2, <3>4, <3>5
    <3>7. r.rs2 \in {d.rs1, d.rs2}
      BY <2>1
    <3> QED BY <3>6, <3>7
  <2>3. CASE p \in trusted[r.rs2]
    BY <1>3, <2>1, <2>3
  <2> QED BY <1>2, <2>2, <2>3
<1> QED BY <1>4, <1>5

LEMMA TrustKept ==
  ASSUME TypeOK, TrustInv, KeyFlags',
         \A p \in Peers : SameSecrets(cache'[p], cache[p]) /\ (cache'[p].sas => cache[p].sas),
         \A s \in Secrets : trusted[s] \subseteq trusted'[s]
  PROVE  TrustInv'
<1> SUFFICES ASSUME NEW p \in Peers PROVE FlagOf(p, cache[p], cache[Other(p)])'
  BY DEF TrustInv
<1>1. Other(p) \in Peers /\ FlagOf(p, cache[p], cache[Other(p)])
  BY TwoPeers DEF TrustInv
<1>2. cache[p].rs1 \in Secrets /\ cache[p].rs2 \in Secrets
  BY DEF TypeOK, Records
<1> QED BY <1>1, <1>2 DEF FlagOf, Shared, SameSecrets

LEMMA KeyFlagsKept ==
  ASSUME TrustInv, UNCHANGED trusted,
         \A n \in Calls, p \in Peers : end'[n][p] = end[n][p] \/ end'[n][p].pc # "keys"
  PROVE  KeyFlags'
<1> SUFFICES ASSUME NEW n \in Calls, NEW p \in Peers, end'[n][p].pc = "keys", end'[n][p].rec.sas
             PROVE  p \in trusted[n]
  BY DEF KeyFlags
<1>1. end'[n][p] = end[n][p]
  OBVIOUS
<1> QED BY <1>1 DEF TrustInv, KeyFlags

LEMMA FilesKept ==
  ASSUME UNCHANGED cache
  PROVE  \A p \in Peers : SameSecrets(cache'[p], cache[p]) /\ (cache'[p].sas => cache[p].sas)
BY SameItself

LEMMA TrustKeys ==
  ASSUME AgreeInv, SingleInv, TrustInv, NEW n \in Calls, NEW p \in Peers,
         InitiatorKeys(n, p) \/ ResponderKeys(n, p)
  PROVE  TrustInv'
<1>0. TypeOK
  BY DEF AgreeInv
<1>1. PICK d \in sent[n] : /\ GenerateKeys(n, p, d.ids)
                           /\ d \in Received(n, p, "DHPart1") \/ d \in Received(n, p, "DHPart2")
  BY DEF InitiatorKeys, ResponderKeys, Received
<1> DEFINE r == end[n][p].rec
           e == [end[n][p] EXCEPT !.pc = "keys", !.s1 = Select(r, d.ids),
                                  !.rec = Matched(r, d.ids)]
<1>2. /\ end[n][p].pc = "read" /\ UNCHANGED cache
      /\ trusted' = [trusted EXCEPT ![n] =
                       IF Select(r, d.ids) # NoSecret
                         THEN @ \union ({p} \intersect trusted[Select(r, d.ids)]) ELSE @]
  BY <1>1 DEF GenerateKeys
<1>3. Changed(n, p, e)
  BY <1>0, <1>1, KeysEffect
<1>4. end[n][p] \in Ends /\ r \in Records /\ CopyOf(n, end[n][p], cache[p])
  BY <1>0, SingleEnd
<1>5. e.pc = "keys" /\ e.rec = Matched(r, d.ids)
  BY <1>4 DEF Ends
<1>6. d.kind \in {"DHPart1", "DHPart2"} /\ d.from = Other(p)
  BY <1>0, <1>1, ReceivedType
<1>7. Other(p) \in Peers /\ Other(Other(p)) = p
  BY TwoPeers
<1>8. d.ids \subseteq {cache[Other(p)].rs1, cache[Other(p)].rs2}
      /\ (cache[Other(p)].v1 => cache[Other(p)].rs1 \in d.ids)
  <2>1. IdsOf(d, end[n][p], cache[Other(p)])
    BY <1>6, <1>7 DEF SingleInv, IdsInv
  <2> QED BY <1>2, <1>6, <2>1 DEF IdsOf
<1>9. SameSecrets(r, cache[p]) /\ (r.sas => cache[p].sas)
  BY <1>2, <1>4 DEF CopyOf
<1>10. Matched(r, d.ids).sas =>
         Select(r, d.ids) # NoSecret /\ p \in trusted[Select(r, d.ids)]
  <2>1. cache[p] \in Records /\ cache[Other(p)] \in Records /\ RecordOf(cache[p])
        /\ RecordOf(cache[Other(p)]) /\ FlagOf(p, cache[p], cache[Other(p)])
    BY <1>0, <1>7 DEF TypeOK, SingleInv, TrustInv
  <2> HIDE DEF r
  <2> QED BY <1>0, <1>4, <1>8, <1>9, <2>1, SelectedTrusted
<1> HIDE DEF e, r
<1>11. \A s \in Secrets : trusted[s] \subseteq trusted'[s]
  BY <1>0, <1>2 DEF TypeOK
<1>12. Matched(r, d.ids).sas => p \in trusted'[n]
  BY <1>0, <1>2, <1>10, CallIsSecret DEF TypeOK
<1>13. KeyFlags'
  <2> SUFFICES ASSUME NEW m \in Calls, NEW o \in Peers,
                      end'[m][o].pc = "keys", end'[m][o].rec.sas
               PROVE  o \in trusted'[m]
    BY DEF KeyFlags
  <2>1. CASE m = n /\ o = p
    BY <1>3, <1>5, <1>12, <2>1 DEF Changed
  <2>2. CASE ~(m = n /\ o = p)
    <3>1. end'[m][o] = end[m][o]
      BY <1>3, <2>2 DEF Changed
    <3>2. o \in trusted[m]
      BY <3>1 DEF TrustInv, KeyFlags
    <3> QED BY <1>11, <3>2, CallIsSecret
  <2> QED BY <2>1, <2>2
<1> QED BY <1>0, <1>2, <1>11, <1>13, FilesKept, TrustKept

LEMMA TrustConfirm ==
  ASSUME AgreeInv, SingleInv, TrustInv, NEW n \in Calls, NEW p \in Peers,
         HandleConfirm1(n, p) \/ HandleConfirm2(n, p)
  PROVE  TrustInv'
<1> DEFINE q == Other(p)
<1>0. TypeOK /\ q \in Peers /\ q # p /\ Other(q) = p /\ \A o \in Peers : o = p \/ o = q
  BY TwoPeers DEF AgreeInv
<1>1. PICK e, msg : Confirmation(n, p, e, msg)
  BY ConfirmStep
<1>2. Changed(n, p, e) /\ e.pc # "keys"
  BY <1>1 DEF Confirmation
<1>3. /\ end[n][p].pc = "keys" /\ UNCHANGED trusted /\ cache'[q] = cache[q]
      /\ cache'[p].rs1 = n /\ cache'[p].v1 /\ cache'[p].rs2 = end[n][p].rec.rs1
      /\ cache'[p].sas => end[n][p].rec.sas
  BY ConfirmStep
<1>4. CopyOf(n, end[n][p], cache[p]) /\ cache[p] \in Records /\ cache[q] \in Records
      /\ RecordOf(cache[p])
  BY <1>0, SingleEnd DEF TypeOK
<1>5. cache'[p].rs2 = cache[p].rs1 /\ (cache'[p].sas => cache[p].sas)
  BY <1>3, <1>4 DEF CopyOf, SameSecrets
<1>6. KeyFlags'
  <2>1. \A m \in Calls, o \in Peers : end'[m][o] = end[m][o] \/ end'[m][o].pc # "keys"
    BY <1>2 DEF Changed
  <2> QED BY <1>3, <2>1, KeyFlagsKept
<1>7. cache'[p].sas => p \in trusted[n]
  BY <1>3 DEF TrustInv, KeyFlags
<1>8. FlagOf(p, cache'[p], cache'[q])
  BY <1>0, <1>3, <1>5, <1>7 DEF TrustInv, FlagOf
<1>9. FlagOf(q, cache'[q], cache'[p])
  <2>1. FlagOf(q, cache[q], cache[p])
    BY <1>0 DEF TrustInv
  <2>2. Shared(cache[q], cache[p]) => Shared(cache'[q], cache'[p])
    BY <1>3, <1>4, <1>5 DEF Shared, RecordOf, Records, Secrets
  <2> QED BY <1>3, <2>1, <2>2 DEF FlagOf
<1>10. FlagOf(p, cache[p], cache[q])' /\ FlagOf(q, cache[q], cache[p])'
  BY <1>3, <1>8, <1>9 DEF FlagOf
<1> QED BY <1>0, <1>6, <1>10 DEF TrustInv

\* A secure end and its peer have both stored the secret of the call.
LEMMA SecureStored ==
  ASSUME AgreeInv, SingleInv, NEW n \in Calls, NEW p \in Peers, end[n][p].pc = "secure"
  PROVE  cache[p].rs1 = n /\ cache[Other(p)].rs1 = n
<1>1. Other(p) \in Peers /\ StageOf(n, p, "secure") /\ OrderOf(n, p)
  BY TwoPeers DEF AgreeInv, CallInv, StageInv, OrderInv
<1> QED BY <1>1 DEF StageOf, OrderOf, SingleInv, StoredInv

LEMMA TrustVerify ==
  ASSUME AgreeInv, AgreeInv', SingleInv, TrustInv, NEW n \in Calls, NEW p \in Peers,
         NEW yes \in BOOLEAN, SetVerify(n, p, yes)
  PROVE  TrustInv'
<1> DEFINE q == Other(p)
<1>0. TypeOK /\ q \in Peers /\ q # p /\ Other(q) = p /\ \A o \in Peers : o = p \/ o = q
  BY TwoPeers DEF AgreeInv
<1>1. cache'[p] = [cache[p] EXCEPT !.sas = yes] /\ cache'[q] = cache[q]
  BY SingleVerify
<1>2. /\ end[n][p].pc = "secure"
      /\ trusted' = [trusted EXCEPT ![n] = IF yes THEN @ \union {p} ELSE @ \ {p}]
  BY DEF SetVerify
<1>3. cache[p].rs1 = n /\ cache[q].rs1 = n
  BY <1>2, SecureStored
<1>4. cache[p] \in Records /\ cache[q] \in Records /\ RecordOf(cache[p]) /\ n \in Secrets /\ n # 0
  BY <1>0, CallIsSecret DEF TypeOK, SingleInv, Calls
<1>5. /\ cache'[p].rs1 = n /\ cache'[p].rs2 = cache[p].rs2 /\ cache'[p].v1
      /\ cache'[p].sas = yes
  BY <1>1, <1>3, <1>4 DEF Records, RecordOf
<1>6. \A s \in Secrets, o \in Peers : o # p /\ o \in trusted[s] => o \in trusted'[s]
  BY <1>0, <1>2 DEF TypeOK
<1>7. \A m \in Calls : m # n => trusted'[m] = trusted[m]
  BY <1>0, <1>2, CallIsSecret DEF TypeOK
<1>8. yes => p \in trusted'[n]
  BY <1>0, <1>2, <1>4 DEF TypeOK
<1>9. KeyFlags'
  <2> SUFFICES ASSUME NEW m \in Calls, NEW o \in Peers,
                      end'[m][o].pc = "keys", end'[m][o].rec.sas
               PROVE  o \in trusted'[m]
    BY DEF KeyFlags
  <2>1. m # n \/ o # p
    <3>1. Changed(n, p, [end[n][p] EXCEPT !.rec = [end[n][p].rec EXCEPT !.sas = yes]])
      BY <1>0, VerifyEffect
    <3>2. end[n][p] \in Ends
      BY <1>0 DEF TypeOK
    <3> QED BY <1>2, <3>1, <3>2 DEF Changed, Ends
  <2>2. end'[m][o] = end[m][o]
    <3>1. \E e : Changed(n, p, e)
      BY <1>0, VerifyEffect
    <3> QED BY <2>1, <3>1 DEF Changed
  <2>3. o \in trusted[m]
    BY <2>2 DEF TrustInv, KeyFlags
  <2> QED BY <1>6, <1>7, <2>1, <2>3, CallIsSecret
<1>10. FlagOf(p, cache[p], cache[q])'
  <2>1. Shared(cache'[p], cache'[q])
    BY <1>1, <1>3, <1>5 DEF Shared
  <2> QED BY <1>5, <1>8, <2>1 DEF FlagOf
<1>11. FlagOf(q, cache[q], cache[p])'
  <2>1. FlagOf(q, cache[q], cache[p])
    BY <1>0 DEF TrustInv
  <2>2. Shared(cache[q], cache[p]) => Shared(cache'[q], cache'[p])
    BY <1>1, <1>3, <1>5 DEF Shared
  <2>3. cache[q].rs1 \in Secrets /\ cache[q].rs2 \in Secrets
    BY <1>4 DEF Records
  <2> QED BY <1>0, <1>1, <1>6, <2>1, <2>2, <2>3 DEF FlagOf
<1> QED BY <1>0, <1>9, <1>10, <1>11 DEF TrustInv

\* The other steps set no flag and have no end get keys.
LEMMA TrustRest ==
  ASSUME TypeOK, TrustInv, UNCHANGED trusted,
         \A n \in Calls, p \in Peers : end'[n][p] = end[n][p] \/ end'[n][p].pc # "keys",
         \A p \in Peers : SameSecrets(cache'[p], cache[p]) /\ (cache'[p].sas => cache[p].sas)
  PROVE  TrustInv'
<1>1. KeyFlags'
  BY KeyFlagsKept
<1> QED BY <1>1, TrustKept

-----------------------------------------------------------------------------
(* ContinuityInv is inductive.                                               *)

\* A step that stores no new secret and makes no cut.
LEMMA ContinuityKept ==
  ASSUME ContinuityInv, UNCHANGED cuts,
         \A p \in Peers : SameSecrets(cache'[p], cache[p]),
         \A n \in Calls : \A msg \in sent'[n] : msg \in sent[n] \/ msg.kind # "Conf2Ack",
         cuts = 1 => \A p \in Peers : BehindOf(p) =>
                       cache'[p].v2 \/ \E n \in Calls : end'[n][p].pc = "confirmed"
  PROVE  ContinuityInv'
<1>1. \A n \in Calls, p \in Peers : Sent(n, p, "Conf2Ack")' => Sent(n, p, "Conf2Ack")
  BY DEF Sent
<1>2. \A p \in Peers : Other(p) \in Peers
  BY TwoPeers
<1>3. (\A n \in Calls, p \in Peers : Sent(n, p, "Conf2Ack") => cuts = 0)'
  BY <1>1 DEF ContinuityInv
<1>4. (cuts = 0 => \A p \in Peers : cache[p].v1 /\ cache[p].rs1 = cache[Other(p)].rs1)'
  BY <1>2 DEF ContinuityInv, SameSecrets
<1>5. (cuts = 1 => \E p \in Peers : BehindOf(p))'
  <2> SUFFICES ASSUME cuts = 1 PROVE \E p \in Peers : BehindOf(p)'
    OBVIOUS
  <2>1. PICK p \in Peers : BehindOf(p)
    BY DEF ContinuityInv
  <2>2. SameSecrets(cache'[p], cache[p]) /\ SameSecrets(cache'[Other(p)], cache[Other(p)])
    BY <1>2
  <2>3. BehindOf(p)'
    BY <2>1, <2>2 DEF BehindOf, SameSecrets
  <2> QED BY <2>3
<1> QED BY <1>3, <1>4, <1>5 DEF ContinuityInv

\* ... and leaves the confirmed ends where they are.
LEMMA ContinuityRest ==
  ASSUME ContinuityInv, UNCHANGED cuts,
         \A p \in Peers : SameSecrets(cache'[p], cache[p]) /\ cache'[p].v2 = cache[p].v2,
         \A n \in Calls : \A msg \in sent'[n] : msg \in sent[n] \/ msg.kind # "Conf2Ack",
         \A n \in Calls, p \in Peers : end'[n][p].pc = end[n][p].pc \/ end[n][p].pc # "confirmed"
  PROVE  ContinuityInv'
<1>1. \A p \in Peers : BehindOf(p) =>
        cache'[p].v2 \/ \E n \in Calls : end'[n][p].pc = "confirmed"
  BY DEF BehindOf
<1> QED BY <1>1, ContinuityKept

\* With one call and an end that has no more than keys no Conf2Ack is there.
LEMMA NoAck ==
  ASSUME AgreeInv, SingleInv, NEW n \in Calls, NEW p \in Peers,
         \/ end[n][p].pc = "keys"
         \/ end[n][p].pc = "confirmed" /\ Received(n, p, "Conf2Ack") = {}
  PROVE  \A m \in Calls : \A msg \in sent[m] : msg.kind # "Conf2Ack"
<1> SUFFICES ASSUME NEW m \in Calls, NEW msg \in sent[m], msg.kind = "Conf2Ack" PROVE FALSE
  OBVIOUS
<1>1. TypeOK /\ CallInv /\ AloneInv
  BY DEF AgreeInv, SingleInv
<1>2. m = n
  BY <1>1, OthersQuiet
<1>3. msg.from \in Peers /\ msg.from \in {p, Other(p)} /\ Other(Other(p)) = p
  BY <1>1, MessageType, TwoPeers DEF TypeOK
<1>4. CASE end[n][p].pc = "keys"
  BY <1>1, <1>2, <1>3, <1>4, EarlyPackets
<1>5. CASE end[n][p].pc = "confirmed" /\ Received(n, p, "Conf2Ack") = {}
  <2>1. msg.from = p
    BY <1>2, <1>3, <1>5 DEF Received
  <2>2. StageOf(n, p, "confirmed") /\ OrderOf(n, p) /\ OrderOf(n, Other(p))
    BY <1>1, <1>5, TwoPeers DEF CallInv, StageInv, OrderInv
  <2>3. Sent(n, p, "Conf2Ack") /\ Sent(n, p, "Confirm2")
    BY <1>2, <2>1, <2>2 DEF Sent, StageOf
  <2> QED BY <1>3, <2>2, <2>3 DEF OrderOf
<1> QED BY <1>4, <1>5

LEMMA ContinuityConfirm ==
  ASSUME AgreeInv, SingleInv, ContinuityInv, NEW n \in Calls, NEW p \in Peers,
         HandleConfirm1(n, p) \/ HandleConfirm2(n, p)
  PROVE  ContinuityInv'
<1> DEFINE q == Other(p)
<1>0. TypeOK /\ q \in Peers /\ q # p /\ Other(q) = p /\ \A o \in Peers : o = p \/ o = q
  BY TwoPeers DEF AgreeInv
<1>1. PICK e, msg : Confirmation(n, p, e, msg)
  BY ConfirmStep
<1>2. /\ end[n][p].pc = "keys" /\ cache'[q] = cache[q]
      /\ cache'[p].rs1 = n /\ cache'[p].v1 /\ cache'[p].rs2 = end[n][p].rec.rs1
  BY ConfirmStep
<1>3. cache'[p].rs2 = cache[p].rs1
  <2>1. CopyOf(n, end[n][p], cache[p])
    BY <1>0, SingleEnd
  <2> QED BY <1>2, <2>1 DEF CopyOf, SameSecrets
<1>4. CASE e.pc = "confirmed"
  <2>1. /\ Changed(n, p, e) /\ Added(n, {msg}) /\ msg.kind = "Confirm2"
        /\ cuts' = IF cuts = 2 THEN 2 ELSE cuts + 1
    BY <1>1, <1>4 DEF Confirmation
  <2>2. cuts \in 0 .. 2
    BY <1>0 DEF TypeOK
  <2>3. \A m \in Calls : \A a \in sent'[m] : a.kind # "Conf2Ack"
    BY <1>2, <2>1, NoAck DEF Added
  <2>4. cuts' # 0
    BY <2>1, <2>2
  <2>5. cuts' = 1 => BehindOf(p)'
    <3> SUFFICES ASSUME cuts' = 1 PROVE BehindOf(p)'
      OBVIOUS
    <3>1. cuts = 0
      BY <2>1, <2>2
    <3>2. cache[q].v1 /\ cache[p].rs1 = cache[q].rs1
      BY <1>0, <3>1 DEF ContinuityInv
    <3>3. end'[n][p].pc = "confirmed"
      BY <1>4, <2>1 DEF Changed
    <3> QED BY <1>2, <1>3, <3>2, <3>3 DEF BehindOf
  <2> QED BY <2>3, <2>4, <2>5 DEF ContinuityInv, Sent
<1>5. CASE e.pc = "secure"
  <2>1. cuts' = 0 /\ Sent(n, q, "Confirm2")
    BY <1>1, <1>5 DEF Confirmation
  <2>2. cache[q].rs1 = n
    BY <1>0, <2>1 DEF SingleInv, StoredInv
  <2>3. n # 0 /\ RecordOf(cache[q])
    BY <1>0 DEF Calls, SingleInv
  <2>4. cache[q].v1
    BY <2>2, <2>3 DEF RecordOf
  <2>5. \A o \in Peers : cache'[o].v1 /\ cache'[o].rs1 = n
    BY <1>0, <1>2, <2>2, <2>4
  <2> QED BY <1>0, <2>1, <2>5, TwoPeers DEF ContinuityInv
<1> QED BY <1>1, <1>4, <1>5 DEF Confirmation

\* The Initiator is secure by a Conf2Ack, so its peer has stored the secret.
LEMMA ContinuityAck ==
  ASSUME AgreeInv, ContinuityInv, NEW n \in Calls, NEW p \in Peers, HandleConf2Ack(n, p)
  PROVE  ContinuityInv'
<1>1. PICK msg \in Received(n, p, "Conf2Ack") : TRUE
  BY DEF HandleConf2Ack
<1>2. Sent(n, Other(p), "Conf2Ack")
  BY <1>1, ReceivedType DEF Sent, AgreeInv
<1>3. cuts = 0
  BY <1>2, TwoPeers DEF ContinuityInv
<1> QED BY <1>3, SameItself, ContinuityKept DEF HandleConf2Ack

LEMMA ContinuityStop ==
  ASSUME AgreeInv, SingleInv, ContinuityInv, NEW n \in Calls, NEW p \in Peers, Stop(n, p)
  PROVE  ContinuityInv'
<1>1. /\ SameSecrets(cache'[p], cache[p]) /\ (cache'[p] = cache[p] \/ cache'[p].v2)
      /\ end[n][p].pc = "confirmed" => cache'[p].v2
      /\ cache'[Other(p)] = cache[Other(p)]
  BY StopRecord
<1>2. Forgotten({n}, p) /\ UNCHANGED cuts
  BY LeaveEffect DEF Stop, AgreeInv
<1>3. \A m \in Calls : \A msg \in sent'[m] : msg \in sent[m]
  BY <1>2 DEF Forgotten
<1>4. \A o \in Peers : SameSecrets(cache'[o], cache[o])
  BY <1>1, SameItself, TwoPeers
<1>5. ASSUME NEW o \in Peers, BehindOf(o)
      PROVE  cache'[o].v2 \/ \E m \in Calls : end'[m][o].pc = "confirmed"
  <2>1. CASE cache[o].v2
    BY <1>1, <2>1, TwoPeers
  <2>2. ASSUME NEW m \in Calls, end[m][o].pc = "confirmed"
        PROVE  cache'[o].v2 \/ \E k \in Calls : end'[k][o].pc = "confirmed"
    BY <1>1, <1>2, <2>2 DEF Forgotten
  <2> QED BY <1>5, <2>1, <2>2 DEF BehindOf
<1> QED BY <1>2, <1>3, <1>4, <1>5, ContinuityKept

LEMMA ContinuityCrash ==
  ASSUME AgreeInv, SingleInv, ContinuityInv, NEW p \in Peers, Crash(p)
  PROVE  ContinuityInv'
<1> DEFINE ns == {n \in Active : end[n][p].pc # "none"}
<1>1. /\ Leave(ns, p) /\ UNCHANGED cache
      /\ cuts' = IF \E n \in ns : end[n][p].pc = "confirmed" /\ Received(n, p, "Conf2Ack") = {}
                   THEN 2 ELSE cuts
  BY DEF Crash
<1>2. ns \subseteq Calls /\ \A n \in Calls : end[n][p].pc = "confirmed" => n \in ns
  BY DEF Active
<1> HIDE DEF ns
<1>3. Forgotten(ns, p)
  BY <1>1, LeaveEffect DEF AgreeInv
<1>4. \A m \in Calls : \A msg \in sent'[m] : msg \in sent[m]
  BY <1>3 DEF Forgotten
<1>5. ASSUME NEW n \in ns, end[n][p].pc = "confirmed", Received(n, p, "Conf2Ack") = {}
      PROVE  ContinuityInv'
  <2>1. cuts' = 2
    BY <1>1, <1>5
  <2>2. \A m \in Calls : \A msg \in sent'[m] : msg.kind # "Conf2Ack"
    BY <1>2, <1>4, <1>5, NoAck
  <2> QED BY <2>1, <2>2 DEF ContinuityInv, Sent
<1>6. ASSUME \A n \in ns : end[n][p].pc = "confirmed" => Received(n, p, "Conf2Ack") # {}
      PROVE  ContinuityInv'
  <2>1. cuts' = cuts
    BY <1>1, <1>6
  <2>2. ASSUME cuts = 1, NEW o \in Peers, BehindOf(o), NEW m \in Calls, end[m][o].pc = "confirmed"
        PROVE  end'[m][o].pc = "confirmed"
    <3>1. CASE o = p
      <4>1. Received(m, p, "Conf2Ack") # {}
        BY <1>2, <1>6, <2>2, <3>1
      <4>2. Sent(m, Other(p), "Conf2Ack")
        BY <4>1, ReceivedType DEF Sent, AgreeInv
      <4> QED BY <2>2, <4>2, TwoPeers DEF ContinuityInv
    <3>2. CASE o # p
      BY <1>3, <2>2, <3>2 DEF Forgotten
    <3> QED BY <3>1, <3>2
  <2>3. cuts = 1 => \A o \in Peers : BehindOf(o) =>
          cache'[o].v2 \/ \E m \in Calls : end'[m][o].pc = "confirmed"
    BY <1>1, <2>2 DEF BehindOf
  <2>4. \A o \in Peers : SameSecrets(cache'[o], cache[o])
    BY <1>1, SameItself
  <2>5. \A n \in Calls : \A msg \in sent'[n] : msg \in sent[n] \/ msg.kind # "Conf2Ack"
    BY <1>4
  <2> QED BY <2>1, <2>3, <2>4, <2>5, ContinuityKept
<1> QED BY <1>5, <1>6

-----------------------------------------------------------------------------
(* One call at a time: the flags and the secrets of the files.               *)

SoloInv == AgreeInv /\ SingleInv /\ TrustInv /\ ContinuityInv

LEMMA SoloInit == Init => SoloInv
<1> SUFFICES ASSUME Init PROVE SoloInv
  OBVIOUS
<1>1. (\A p \in Peers : cache[p] = EmptyRecord) /\ cuts = 2
      /\ \A n \in Calls, p \in Peers : end[n][p] = Gone
  BY DEF Init
<1>2. TrustInv
  <2>1. \A p \in Peers : ~cache[p].sas
    BY <1>1, EmptyTypes
  <2>2. KeyFlags
    BY <1>1, EmptyTypes DEF KeyFlags
  <2> QED BY <2>1, <2>2 DEF TrustInv, FlagOf
<1>3. ContinuityInv
  <2>1. \A n \in Calls : sent[n] = {}
    BY DEF Init
  <2> QED BY <1>1, <2>1 DEF ContinuityInv, Sent
<1> QED BY <1>2, <1>3, AgreeInit, SingleInit DEF SoloInv

LEMMA SoloEnd ==
  ASSUME SoloInv, AgreeInv', NEW n \in Calls, NEW p \in Peers,
         \/ Read(n, p) \/ SendCommit(n, p) \/ AnswerCommit(n, p)
         \/ InitiatorKeys(n, p) \/ ResponderKeys(n, p)
         \/ HandleConfirm1(n, p) \/ HandleConfirm2(n, p) \/ HandleConf2Ack(n, p)
         \/ Media(n, p) \/ (\E yes \in BOOLEAN : SetVerify(n, p, yes)) \/ Stop(n, p)
  PROVE  SoloInv'
<1>0. TypeOK /\ AgreeInv /\ SingleInv /\ TrustInv /\ ContinuityInv
  BY DEF SoloInv, AgreeInv
<1>1. CASE Read(n, p)
  <2>1. SingleInv'
    BY <1>0, <1>1, SingleRead
  <2>2. UNCHANGED <<cache, sent, trusted, cuts>> /\ end[n][p].pc = "hello"
    BY <1>1 DEF Read
  <2>3. \A m \in Calls, o \in Peers :
          \/ end'[m][o] = end[m][o]
          \/ end'[m][o].pc = "read" /\ end[m][o].pc = "hello"
    <3> DEFINE e == [end[n][p] EXCEPT !.pc = "read", !.rec = cache[p]]
    <3>1. Changed(n, p, e)
      BY <1>0, <1>1, ReadEffect
    <3>2. end[n][p] \in Ends
      BY <1>0 DEF TypeOK
    <3>3. e.pc = "read"
      BY <3>2, Zenon DEF Ends
    <3> HIDE DEF e
    <3> QED BY <2>2, <3>1, <3>3 DEF Changed
  <2>4. TrustInv'
    BY <1>0, <2>2, <2>3, FilesKept, TrustRest
  <2>5. ContinuityInv'
    BY <1>0, <2>2, <2>3, SameItself, ContinuityRest
  <2> QED BY <2>1, <2>4, <2>5 DEF SoloInv
<1>2. CASE SendCommit(n, p) \/ AnswerCommit(n, p)
  <2>1. SingleInv'
    BY <1>0, <1>2, SingleSends
  <2>2. UNCHANGED <<cache, end, trusted, cuts>>
    BY <1>2 DEF SendCommit, AnswerCommit
  <2>3. TrustInv'
    BY <1>0, <2>2, FilesKept, TrustRest
  <2>4. \A m \in Calls : \A msg \in sent'[m] : msg \in sent[m] \/ msg.kind # "Conf2Ack"
    BY <1>0, <1>2 DEF SendCommit, AnswerCommit, Send, TypeOK
  <2>5. ContinuityInv'
    BY <1>0, <2>2, <2>4, SameItself, ContinuityRest
  <2> QED BY <2>1, <2>3, <2>5 DEF SoloInv
<1>3. CASE InitiatorKeys(n, p) \/ ResponderKeys(n, p)
  <2>1. SingleInv' /\ TrustInv'
    BY <1>0, <1>3, SingleKeys, TrustKeys
  <2>2. PICK ids : GenerateKeys(n, p, ids)
    BY <1>3 DEF InitiatorKeys, ResponderKeys
  <2>3. UNCHANGED <<cache, cuts>> /\ end[n][p].pc = "read"
    BY <2>2 DEF GenerateKeys
  <2>4. \A m \in Calls, o \in Peers : end'[m][o].pc = end[m][o].pc \/ end[m][o].pc # "confirmed"
    <3>1. PICK e : Changed(n, p, e)
      BY <1>0, <2>2, KeysEffect
    <3> QED BY <2>3, <3>1 DEF Changed
  <2>5. \A m \in Calls : \A msg \in sent'[m] : msg \in sent[m] \/ msg.kind # "Conf2Ack"
    BY <1>0, <1>3 DEF InitiatorKeys, ResponderKeys, Send, TypeOK
  <2>6. ContinuityInv'
    BY <1>0, <2>3, <2>4, <2>5, SameItself, ContinuityRest
  <2> QED BY <2>1, <2>6 DEF SoloInv
<1>4. CASE HandleConfirm1(n, p) \/ HandleConfirm2(n, p)
  BY <1>0, <1>4, SingleConfirm, TrustConfirm, ContinuityConfirm DEF SoloInv
<1>5. CASE HandleConf2Ack(n, p) \/ Media(n, p)
  <2>1. SingleInv'
    BY <1>0, <1>5, SingleQuiet
  <2>2. UNCHANGED <<cache, sent, trusted, cuts>>
    BY <1>5 DEF HandleConf2Ack, Media
  <2>3. \A m \in Calls, o \in Peers :
          end'[m][o] = end[m][o] \/ end'[m][o].pc = "secure"
    <3>1. CASE HandleConf2Ack(n, p)
      <4>1. Changed(n, p, [end[n][p] EXCEPT !.pc = "secure"]) /\ end[n][p] \in Ends
        BY <1>0, <3>1, AckEffect DEF TypeOK
      <4> QED BY <4>1 DEF Changed, Ends
    <3>2. CASE Media(n, p)
      <4>1. Changed(n, p, [end[n][p] EXCEPT !.media = TRUE]) /\ end[n][p] \in Ends
            /\ end[n][p].pc = "secure"
        BY <1>0, <3>2, MediaEffect DEF TypeOK, Media
      <4> QED BY <4>1 DEF Changed, Ends
    <3> QED BY <1>5, <3>1, <3>2
  <2>4. TrustInv'
    BY <1>0, <2>2, <2>3, FilesKept, TrustRest
  <2>5. ContinuityInv'
    <3>1. CASE HandleConf2Ack(n, p)
      BY <1>0, <3>1, ContinuityAck
    <3>2. CASE Media(n, p)
      <4>1. \A m \in Calls, o \in Peers :
              end'[m][o].pc = end[m][o].pc \/ end[m][o].pc # "confirmed"
        <5>1. (\E e : Changed(n, p, e)) /\ end[n][p].pc = "secure"
          BY <1>0, <3>2, MediaEffect DEF Media
        <5> QED BY <5>1 DEF Changed
      <4> QED BY <1>0, <2>2, <4>1, SameItself, ContinuityRest
    <3> QED BY <1>5, <3>1, <3>2
  <2> QED BY <2>1, <2>4, <2>5 DEF SoloInv
<1>6. ASSUME NEW yes \in BOOLEAN, SetVerify(n, p, yes) PROVE SoloInv'
  <2>1. SingleInv' /\ TrustInv'
    BY <1>0, <1>6, SingleVerify, TrustVerify
  <2>2. cache'[p] = [cache[p] EXCEPT !.sas = yes] /\ cache'[Other(p)] = cache[Other(p)]
    BY <1>0, <1>6, SingleVerify
  <2>3. UNCHANGED <<sent, cuts>> /\ end[n][p].pc = "secure"
    BY <1>6 DEF SetVerify
  <2>4. \A o \in Peers : SameSecrets(cache'[o], cache[o]) /\ cache'[o].v2 = cache[o].v2
    <3>1. cache[p] \in Records
      BY <1>0 DEF TypeOK
    <3>2. SameSecrets(cache'[p], cache[p]) /\ cache'[p].v2 = cache[p].v2
      BY <2>2, <3>1 DEF Records, SameSecrets
    <3> QED BY <2>2, <3>2, SameItself, TwoPeers
  <2>5. \A m \in Calls, o \in Peers : end'[m][o].pc = end[m][o].pc \/ end[m][o].pc # "confirmed"
    <3>1. PICK e : Changed(n, p, e)
      BY <1>0, <1>6, VerifyEffect
    <3> QED BY <2>3, <3>1 DEF Changed
  <2>6. ContinuityInv'
    BY <1>0, <2>3, <2>4, <2>5, ContinuityRest
  <2> QED BY <2>1, <2>6 DEF SoloInv
<1>7. CASE Stop(n, p)
  <2>1. SingleInv' /\ ContinuityInv'
    BY <1>0, <1>7, SingleStop, ContinuityStop
  <2>2. TrustInv'
    <3>1. \A o \in Peers : SameSecrets(cache'[o], cache[o]) /\ (cache'[o].sas => cache[o].sas)
      BY <1>0, <1>7, StopRecord, SameItself, TwoPeers
    <3>2. \A m \in Calls, o \in Peers : end'[m][o] = end[m][o] \/ end'[m][o].pc # "keys"
      BY <1>0, <1>7, LeaveEffect, EmptyTypes DEF Stop, Forgotten
    <3> QED BY <1>0, <1>7, <3>1, <3>2, TrustRest DEF Stop
  <2> QED BY <2>1, <2>2 DEF SoloInv
<1> QED BY <1>1, <1>2, <1>3, <1>4, <1>5, <1>6, <1>7

LEMMA SoloNext == SoloInv /\ OneCall' /\ [Next]_vars => SoloInv'
<1> SUFFICES ASSUME SoloInv, OneCall', [Next]_vars PROVE SoloInv'
  OBVIOUS
<1>0. TypeOK /\ AgreeInv /\ SingleInv /\ TrustInv /\ ContinuityInv /\ AgreeInv'
  BY AgreeNext DEF SoloInv, AgreeInv
<1>1. CASE StartCall
  <2>1. SingleInv'
    BY <1>0, <1>1, SingleStart
  <2>2. UNCHANGED <<cache, sent, trusted, cuts>>
    BY <1>1 DEF StartCall
  <2>3. \A m \in Calls, o \in Peers :
          \/ end'[m][o] = end[m][o]
          \/ end'[m][o].pc = "hello" /\ end[m][o].pc = "none"
    <3>1. PICK n \in Calls : n = calls + 1
      BY <1>0, <1>1, StartEffect
    <3>2. (\A o \in Peers : end'[n][o] = [Gone EXCEPT !.pc = "hello"])
          /\ \A m \in Calls : m # n => end'[m] = end[m]
      BY <1>0, <1>1, <3>1, StartEffect
    <3>3. \A o \in Peers : end'[n][o].pc = "hello"
      BY <3>2 DEF Gone
    <3>4. n > calls
      BY <1>0, <3>1 DEF TypeOK
    <3>5. \A o \in Peers : end[n][o].pc = "none"
      BY <1>0, <3>4 DEF AgreeInv, CallInv, OrderInv
    <3> QED BY <3>2, <3>3, <3>5
  <2>4. TrustInv'
    BY <1>0, <2>2, <2>3, FilesKept, TrustRest
  <2>5. ContinuityInv'
    BY <1>0, <2>2, <2>3, SameItself, ContinuityRest
  <2> QED BY <1>0, <2>1, <2>4, <2>5 DEF SoloInv
<1>2. ASSUME NEW p \in Peers, Crash(p) PROVE SoloInv'
  <2>1. UNCHANGED <<cache, trusted>> /\ \E ns : Leave(ns, p)
    BY <1>2 DEF Crash
  <2>2. \A m \in Calls, o \in Peers : end'[m][o] = end[m][o] \/ end'[m][o].pc # "keys"
    BY <1>0, <2>1, LeaveEffect, EmptyTypes DEF Forgotten
  <2>3. TrustInv'
    BY <1>0, <2>1, <2>2, FilesKept, TrustRest
  <2> QED BY <1>0, <1>2, <2>3, SingleCrash, ContinuityCrash DEF SoloInv
<1>3. CASE LoseCache
  <2>1. (\A p \in Peers : cache'[p] = EmptyRecord) /\ UNCHANGED <<end, sent, trusted>> /\ cuts' = 2
    BY <1>3 DEF LoseCache
  <2>2. TrustInv'
    <3>1. KeyFlags'
      BY <1>0, <2>1, KeyFlagsKept
    <3>2. \A p \in Peers : ~cache'[p].sas
      BY <2>1, EmptyTypes
    <3> QED BY <3>1, <3>2 DEF TrustInv, FlagOf
  <2>3. ContinuityInv'
    <3>1. \A n \in Calls : sent[n] = {}
      BY <1>0, <1>3, NobodyThere DEF LoseCache, AgreeInv
    <3> QED BY <2>1, <3>1 DEF ContinuityInv, Sent
  <2> QED BY <1>0, <1>3, <2>2, <2>3, SingleLose DEF SoloInv
<1>4. CASE UNCHANGED vars
  <2>1. UNCHANGED <<cache, calls, end, sent, trusted, cuts>>
    BY <1>4 DEF vars
  <2>2. TrustInv'
    BY <1>0, <2>1, FilesKept, TrustRest
  <2>3. ContinuityInv'
    BY <1>0, <2>1, SameItself, ContinuityRest
  <2>4. SingleInv'
    BY <1>0, <2>1 DEF SingleInv, AloneInv, RecordOf, CopyOf, StoredInv, IdsInv, IdsOf, Sent
  <2> QED BY <1>0, <2>2, <2>3, <2>4 DEF SoloInv
<1> QED BY <1>0, <1>1, <1>2, <1>3, <1>4, SoloEnd DEF Next

LEMMA SoloCorrect == Spec /\ []OneCall => []SoloInv
BY SoloInit, SoloNext, PTL DEF Spec

\* As long as calls do not overlap: where a phone says that the SAS was verified
\* its user has compared it, in the call that left the secret in front or in one
\* that call continues without a break.
THEOREM SasMeansVerifiedCorrect == Spec /\ []OneCall => []SasMeansVerified
<1>1. SoloInv => SasMeansVerified
  BY DEF SoloInv, TrustInv, FlagOf, SasMeansVerified
<1> QED BY <1>1, SoloCorrect, PTL

\* As long as calls do not overlap: after calls of which no more than one was cut
\* between the two stores the phones have a valid secret in common.
THEOREM ContinuityAfterCutCorrect == Spec /\ []OneCall => []ContinuityAfterCut
<1>1. SoloInv => ContinuityAfterCut
  <2> SUFFICES ASSUME SoloInv, Active = {}, cuts < 2, NEW p \in Peers
               PROVE  Valid(cache[p]) \intersect Valid(cache[Other(p)]) # {}
    BY DEF ContinuityAfterCut
  <2>1. ContinuityInv /\ (cuts = 0 \/ cuts = 1)
    BY DEF SoloInv, AgreeInv, TypeOK
  <2>2. CASE cuts = 0
    <3>1. cache[p].rs1 \in Valid(cache[p]) /\ cache[p].rs1 \in Valid(cache[Other(p)])
      BY <2>1, <2>2, TwoPeers DEF ContinuityInv, Valid
    <3> QED BY <3>1
  <2>3. CASE cuts = 1
    <3>1. PICK o \in Peers : BehindOf(o)
      BY <2>1, <2>3 DEF ContinuityInv
    <3>2. cache[o].v2
      BY <3>1, NobodyThere DEF BehindOf, SoloInv, AgreeInv
    <3>3. cache[o].rs2 \in Valid(cache[o]) /\ cache[o].rs2 \in Valid(cache[Other(o)])
      BY <3>1, <3>2 DEF BehindOf, Valid
    <3> QED BY <3>3, TwoPeers
  <2> QED BY <2>1, <2>2, <2>3
<1> QED BY <1>1, SoloCorrect, PTL

LEMMA OnlyStartOpens ==
  ASSUME AgreeInv, [Next]_vars, ~StartCall
  PROVE  \A m \in Calls, o \in Peers : end'[m][o].pc # "none" => end[m][o].pc # "none"
<1>0. TypeOK
  BY DEF AgreeInv
<1>1. ASSUME NEW n \in Calls, NEW p \in Peers, NEW e, Changed(n, p, e), end[n][p].pc # "none"
      PROVE  \A m \in Calls, o \in Peers : end'[m][o].pc # "none" => end[m][o].pc # "none"
  BY <1>1 DEF Changed
<1>2. ASSUME NEW ns, NEW p \in Peers, Leave(ns, p)
      PROVE  \A m \in Calls, o \in Peers : end'[m][o].pc # "none" => end[m][o].pc # "none"
  BY <1>0, <1>2, LeaveEffect, EmptyTypes DEF Forgotten
<1>3. ASSUME UNCHANGED end
      PROVE  \A m \in Calls, o \in Peers : end'[m][o].pc # "none" => end[m][o].pc # "none"
  BY <1>3
<1>4. ASSUME NEW n \in Calls, NEW p \in Peers,
             \/ Read(n, p) \/ SendCommit(n, p) \/ AnswerCommit(n, p)
             \/ InitiatorKeys(n, p) \/ ResponderKeys(n, p)
             \/ HandleConfirm1(n, p) \/ HandleConfirm2(n, p) \/ HandleConf2Ack(n, p)
             \/ Media(n, p) \/ (\E yes \in BOOLEAN : SetVerify(n, p, yes)) \/ Stop(n, p)
      PROVE  \/ UNCHANGED end
             \/ (\E e : Changed(n, p, e)) /\ end[n][p].pc # "none"
             \/ Leave({n}, p)
  <2>1. CASE Read(n, p)
    BY <1>0, <2>1, ReadEffect DEF Read
  <2>2. CASE SendCommit(n, p) \/ AnswerCommit(n, p)
    BY <2>2 DEF SendCommit, AnswerCommit
  <2>3. CASE InitiatorKeys(n, p) \/ ResponderKeys(n, p)
    <3>1. PICK ids : GenerateKeys(n, p, ids)
      BY <2>3 DEF InitiatorKeys, ResponderKeys
    <3>2. end[n][p].pc = "read"
      BY <3>1 DEF GenerateKeys
    <3>3. \E e : Changed(n, p, e)
      BY <1>0, <3>1, KeysEffect
    <3> QED BY <3>2, <3>3
  <2>4. CASE HandleConfirm1(n, p) \/ HandleConfirm2(n, p)
    <3>1. (\E e : \E msg : Confirmation(n, p, e, msg)) /\ end[n][p].pc = "keys"
      BY <2>4, ConfirmStep
    <3>2. \E e : Changed(n, p, e)
      BY <3>1 DEF Confirmation
    <3> QED BY <3>1, <3>2
  <2>5. CASE HandleConf2Ack(n, p)
    BY <1>0, <2>5, AckEffect DEF HandleConf2Ack
  <2>6. CASE Media(n, p)
    BY <1>0, <2>6, MediaEffect DEF Media
  <2>7. CASE \E yes \in BOOLEAN : SetVerify(n, p, yes)
    BY <1>0, <2>7, VerifyEffect DEF SetVerify
  <2>8. CASE Stop(n, p)
    BY <2>8 DEF Stop
  <2> QED BY <1>4, <2>1, <2>2, <2>3, <2>4, <2>5, <2>6, <2>7, <2>8
<1>5. ASSUME NEW p \in Peers, Crash(p) PROVE \E ns : Leave(ns, p)
  BY <1>5 DEF Crash
<1>6. LoseCache => UNCHANGED end
  BY DEF LoseCache
<1> QED BY <1>1, <1>2, <1>3, <1>4, <1>5, <1>6 DEF Next, vars

\* With one session at a time, as the run has it, no calls overlap.
THEOREM OneSessionOneCall == MaxActive = 1 => (Spec => []OneCall)
<1> SUFFICES ASSUME MaxActive = 1 PROVE Spec => []OneCall
  OBVIOUS
<1>1. Init => OneCall
  BY EmptyTypes DEF Init, OneCall, Active
<1>2. AgreeInv /\ OneCall /\ [Next]_vars => OneCall'
  <2> SUFFICES ASSUME AgreeInv, OneCall, [Next]_vars PROVE OneCall'
    OBVIOUS
  <2>1. CASE StartCall
    <3>1. Active = {}
      <4>1. IsFiniteSet(Calls)
        BY FS_Interval, BoundsAssumption DEF Calls
      <4>2. IsFiniteSet(Active)
        BY <4>1, FS_Subset DEF Active
      <4>3. Cardinality(Active) \in Nat /\ Cardinality(Active) < 1
        BY <2>1, <4>2, FS_CardinalityType DEF StartCall
      <4> QED BY <4>2, <4>3, FS_EmptySet
    <3>2. \A m \in Calls, o \in Peers : m # calls + 1 => end'[m][o].pc = "none"
      BY <2>1, <3>1, StartEffect DEF Active, AgreeInv
    <3> QED BY <3>2 DEF OneCall, Active
  <2>2. CASE ~StartCall
    BY <2>2, OnlyStartOpens DEF OneCall, Active
  <2> QED BY <2>1, <2>2
<1> QED BY <1>1, <1>2, AgreeCorrect, PTL DEF Spec

=============================================================================
