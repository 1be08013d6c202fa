--------------------------- MODULE RetainedSecrets ---------------------------
(* The retained shared secrets of ZRTP: what two phones remember of their    *)
(* calls, how the next call continues from it, and the flag that says that   *)
(* the user has compared the SAS.                                            *)
(*                                                                           *)
(* A phone keeps one record per peer in its ZID cache (ZIDCacheFile,         *)
(* ZIDRecordFile). An engine copies the record when it prepares its Commit   *)
(* (zidRec), works on the copy and saves the copy at several places, each    *)
(* time as a whole. Both ends announce the ids of their valid secrets, mix   *)
(* the one they have in common into the keys, and after the confirmation     *)
(* shift the new secret of the call into the record. Calls may be cut at any *)
(* point, a phone may crash without saving or lose its cache.                *)
(*                                                                           *)
(* The secret of call n is n; the data of a record nobody wrote is 0. The    *)
(* messages of a call are kept once sent: losing one is never handling it.   *)
(* The engines' states, resending and timers are in ZrtpStateClass.          *)
EXTENDS Integers, FiniteSets

CONSTANTS
  Peers,       \* the two phones
  MaxCalls,    \* bound: calls between them
  MaxActive    \* bound: calls of which a phone still has a session

ASSUME PeersAssumption == \E a, b \in Peers : a # b /\ Peers = {a, b}
ASSUME BoundsAssumption == MaxCalls \in Nat /\ MaxActive \in Nat \ {0}

VARIABLES
  cache,       \* [Peers -> Records]: the record of the peer in the file
  calls,       \* the number of calls so far
  end,         \* [Calls -> [Peers -> Ends]]: the engines
  sent,        \* [Calls -> SUBSET Messages]: the packets of a call, while one
               \* of its ends is there
  trusted,     \* history, [Secrets -> SUBSET Peers]: who compared the SAS of
               \* the call, or of one it continues
  cuts         \* history: calls since both ends last stored the same secret
               \* that only the Initiator stored; 2 when continuity is lost

vars == <<cache, calls, end, sent, trusted, cuts>>

-----------------------------------------------------------------------------
(* Records, engines and messages.                                            *)

Calls == 1 .. MaxCalls
Secrets == 0 .. MaxCalls
NoSecret == -1

Other(p) == CHOOSE q \in Peers : q # p

Records == [rs1 : Secrets, rs2 : Secrets, v1 : BOOLEAN, v2 : BOOLEAN,
            sas : BOOLEAN]

EmptyRecord == [rs1 |-> 0, rs2 |-> 0, v1 |-> FALSE, v2 |-> FALSE,
                sas |-> FALSE]

\* The secrets whose ids an engine announces: those marked valid (an id of
\* random data, which nobody else has, stands for an invalid one).
Valid(r) == (IF r.v1 THEN {r.rs1} ELSE {}) \union
            (IF r.v2 THEN {r.rs2} ELSE {})

\* setNewRs1: the new secret pushes the first into the second place, where it
\* is not valid.
WithNewRs1(r, n) == [r EXCEPT !.rs1 = n, !.v1 = TRUE, !.rs2 = r.rs1,
                              !.v2 = FALSE]

\* Stages of an engine: started (hello), with the record read (read), with
\* keys (keys), Confirm2 sent (confirmed), secure, stopped or not there.
Stages == {"none", "hello", "read", "keys", "confirmed", "secure"}

Ends == [pc : Stages, rec : Records, s1 : Secrets \union {NoSecret},
         media : BOOLEAN]    \* media: ten SRTP packets have come in

Gone == [pc |-> "none", rec |-> EmptyRecord, s1 |-> NoSecret, media |-> FALSE]

Messages ==
  [from : Peers, kind : {"Commit", "Conf2Ack"}] \union
  [from : Peers, kind : {"DHPart1", "DHPart2"}, ids : SUBSET Secrets] \union
  [from : Peers, kind : {"Confirm1"}, s1 : Secrets \union {NoSecret},
   sas : BOOLEAN] \union
  [from : Peers, kind : {"Confirm2"}, sas : BOOLEAN]

Active == {n \in Calls : \E p \in Peers : end[n][p].pc # "none"}

Init ==
  /\ cache = [p \in Peers |-> EmptyRecord]
  /\ calls = 0
  /\ end = [n \in Calls |-> [p \in Peers |-> Gone]]
  /\ sent = [n \in Calls |-> {}]
  /\ trusted = [s \in Secrets |-> {}]
  /\ cuts = 2

-----------------------------------------------------------------------------
(* The negotiation.                                                          *)

\* Both phones open a session for a new call.
StartCall ==
  /\ calls < MaxCalls
  /\ Cardinality(Active) < MaxActive
  /\ calls' = calls + 1
  /\ end' = [end EXCEPT ![calls + 1] =
               [p \in Peers |-> [Gone EXCEPT !.pc = "hello"]]]
  /\ UNCHANGED <<cache, sent, trusted, cuts>>

Send(n, msg) == sent' = [sent EXCEPT ![n] = @ \union {msg}]

\* The packets of a kind that end p of call n has before it.
Received(n, p, kind) ==
  {msg \in sent[n] : msg.from # p /\ msg.kind = kind}

\* prepareCommit, at both ends on the peer's Hello: getRecord.
Read(n, p) ==
  /\ end[n][p].pc = "hello"
  /\ end' = [end EXCEPT ![n][p].pc = "read", ![n][p].rec = cache[p]]
  /\ UNCHANGED <<cache, calls, sent, trusted, cuts>>

\* The Commit that stands (of two, one end gives up its own): its sender is
\* the Initiator.
SendCommit(n, p) ==
  /\ end[n][p].pc = "read"
  /\ \A msg \in sent[n] : msg.kind # "Commit"
  /\ Send(n, [from |-> p, kind |-> "Commit"])
  /\ UNCHANGED <<cache, calls, end, trusted, cuts>>

\* prepareDHPart1: the Responder announces its secrets.
AnswerCommit(n, p) ==
  /\ end[n][p].pc = "read"
  /\ Received(n, p, "Commit") # {}
  /\ Received(n, Other(p), "DHPart1") = {}
  /\ Send(n, [from |-> p, kind |-> "DHPart1", ids |-> Valid(end[n][p].rec)])
  /\ UNCHANGED <<cache, calls, end, trusted, cuts>>

\* Mutant: only the secret in front is tried.
SelectFirstOnly(r, ids) == IF r.v1 /\ r.rs1 \in ids THEN r.rs1 ELSE NoSecret

\* The secret of record r to use with a peer that announces ids: the first
\* one if it is among them, else the second.
Select(r, ids) ==
  IF r.v1 /\ r.rs1 \in ids THEN r.rs1
  ELSE IF r.v2 /\ r.rs2 \in ids THEN r.rs2
  ELSE NoSecret

\* Mutant: without a match the flag stays.
MatchedKeepsFlag(r, ids) == r

\* With valid secrets and no match the SAS has to be compared again.
Matched(r, ids) ==
  IF Select(r, ids) = NoSecret /\ (r.v1 \/ r.v2)
    THEN [r EXCEPT !.sas = FALSE] ELSE r

\* generateKeysInitiator, generateKeysResponder: end p of call n has keys from
\* the Diffie-Hellman result and the selected secret.
GenerateKeys(n, p, ids) ==
  LET r == end[n][p].rec
      s == Select(r, ids)
  IN
  /\ end[n][p].pc = "read"
  /\ end' = [end EXCEPT ![n][p].pc = "keys", ![n][p].s1 = s,
                        ![n][p].rec = Matched(r, ids)]
  /\ trusted' = [trusted EXCEPT ![n] =
                   IF s # NoSecret THEN @ \union ({p} \intersect trusted[s])
                                   ELSE @]
  /\ UNCHANGED <<cache, calls, cuts>>

\* prepareDHPart2.
InitiatorKeys(n, p) ==
  \E msg \in Received(n, p, "DHPart1") :
    /\ GenerateKeys(n, p, msg.ids)
    /\ Send(n, [from |-> p, kind |-> "DHPart2",
                ids |-> Valid(end[n][p].rec)])

\* prepareConfirm1: the flag of the record after the secrets were compared.
ResponderKeys(n, p) ==
  \E msg \in Received(n, p, "DHPart2") :
    /\ GenerateKeys(n, p, msg.ids)
    /\ Send(n, [from |-> p, kind |-> "Confirm1",
                s1 |-> Select(end[n][p].rec, msg.ids),
                sas |-> Matched(end[n][p].rec, msg.ids).sas])

\* Mutant: the flag of the peer is not looked at.
ConfirmedAlone(r, n, sas) == WithNewRs1(r, n)

\* The record after a confirmation of the peer with this flag: SAS verified
\* only if it is at both ends, and the secret of the call in front.
Confirmed(r, n, sas) ==
  WithNewRs1([r EXCEPT !.sas = @ /\ sas], n)

Save(p, r) == cache' = [cache EXCEPT ![p] = r]

\* prepareConfirm2: a Confirm1 under another key fails its MAC and ends the
\* negotiation (Stop).
HandleConfirm1(n, p) ==
  \E msg \in Received(n, p, "Confirm1") :
    LET r == Confirmed(end[n][p].rec, n, msg.sas) IN
    /\ end[n][p].pc = "keys"
    /\ msg.s1 = end[n][p].s1
    /\ Save(p, r)
    /\ end' = [end EXCEPT ![n][p].pc = "confirmed", ![n][p].rec = r]
    /\ Send(n, [from |-> p, kind |-> "Confirm2", sas |-> r.sas])
    /\ cuts' = IF cuts = 2 THEN 2 ELSE cuts + 1
    /\ UNCHANGED <<calls, trusted>>

\* prepareConf2Ack.
HandleConfirm2(n, p) ==
  \E msg \in Received(n, p, "Confirm2") :
    LET r == Confirmed(end[n][p].rec, n, msg.sas) IN
    /\ end[n][p].pc = "keys"
    /\ Save(p, r)
    /\ end' = [end EXCEPT ![n][p].pc = "secure", ![n][p].rec = r]
    /\ Send(n, [from |-> p, kind |-> "Conf2Ack"])
    /\ cuts' = 0
    /\ UNCHANGED <<calls, trusted>>

\* Conf2Ack, or the first good SRTP packet in its place.
HandleConf2Ack(n, p) ==
  /\ end[n][p].pc = "confirmed"
  /\ Received(n, p, "Conf2Ack") # {}
  /\ end' = [end EXCEPT ![n][p].pc = "secure"]
  /\ UNCHANGED <<cache, calls, sent, trusted, cuts>>

-----------------------------------------------------------------------------
(* The secure call and its end.                                              *)

\* Ten SRTP packets of the peer have been unprotected.
Media(n, p) ==
  /\ end[n][p].pc = "secure" /\ ~end[n][p].media
  /\ end[n][Other(p)].pc = "secure"
  /\ end' = [end EXCEPT ![n][p].media = TRUE]
  /\ UNCHANGED <<cache, calls, sent, trusted, cuts>>

\* The user says that the SAS is right, or takes it back (setVerify).
SetVerify(n, p, yes) ==
  /\ end[n][p].pc = "secure"
  /\ end' = [end EXCEPT ![n][p].rec.sas = yes]
  /\ Save(p, [end[n][p].rec EXCEPT !.sas = yes])
  /\ trusted' = [trusted EXCEPT ![n] =
                   IF yes THEN @ \union {p} ELSE @ \ {p}]
  /\ UNCHANGED <<calls, sent, cuts>>

\* The session of p in the calls of ns is gone; what is left of a call is
\* forgotten with its last session.
Leave(ns, p) ==
  /\ end' = [n \in Calls |-> IF n \in ns THEN [end[n] EXCEPT ![p] = Gone]
                                        ELSE end[n]]
  /\ sent' = [n \in Calls |->
       IF n \in ns /\ end[n][Other(p)].pc = "none" THEN {} ELSE sent[n]]

\* Mutant: the second secret stays as it is.
StopWithoutRs2(n, p) ==
  /\ end[n][p].pc # "none"
  /\ Leave({n}, p)
  /\ UNCHANGED <<cache, calls, trusted, cuts>>

\* stopStream: after little media the peer may not have stored the new
\* secret, so the second one is marked valid in the copy and the copy saved.
\* Without a record (zidRec is NULL) there is nothing to do.
Stop(n, p) ==
  LET e == end[n][p] IN
  /\ e.pc # "none"
  /\ IF e.pc # "hello" /\ ~e.media
       THEN Save(p, [e.rec EXCEPT !.v2 = TRUE])
       ELSE UNCHANGED cache
  /\ Leave({n}, p)
  /\ UNCHANGED <<calls, trusted, cuts>>

\* The phone dies: its sessions are gone, nothing is saved. If it has stored
\* the secret of a call as Initiator and its peer has not, it may have lost
\* the one it shares.
Crash(p) ==
  LET ns == {n \in Active : end[n][p].pc # "none"} IN
  /\ ns # {}
  /\ Leave(ns, p)
  /\ cuts' = IF \E n \in ns : /\ end[n][p].pc = "confirmed"
                              /\ Received(n, p, "Conf2Ack") = {}
               THEN 2 ELSE cuts
  /\ UNCHANGED <<cache, calls, trusted>>

\* The file of p is gone, and createZIDFile makes a new one with a new ZID:
\* no record of either phone is about a peer that exists.
LoseCache ==
  /\ Active = {}
  /\ cache' = [p \in Peers |-> EmptyRecord]
  /\ cache' # cache
  /\ cuts' = 2
  /\ UNCHANGED <<calls, end, sent, trusted>>

Next ==
  \/ StartCall
  \/ \E n \in Calls, p \in Peers :
       \/ Read(n, p)
       \/ SendCommit(n, p)
       \/ AnswerCommit(n, p)
       \/ InitiatorKeys(n, p)
       \/ ResponderKeys(n, p)
       \/ HandleConfirm1(n, p)
       \/ HandleConfirm2(n, p)
       \/ HandleConf2Ack(n, p)
       \/ Media(n, p)
       \/ \E yes \in BOOLEAN : SetVerify(n, p, yes)
       \/ Stop(n, p)
  \/ \E p \in Peers : Crash(p)
  \/ LoseCache

Spec == Init /\ [][Next]_vars

-----------------------------------------------------------------------------
(* Properties.                                                               *)

\* The type invariant.
TypeOK ==
  /\ cache \in [Peers -> Records]
  /\ calls \in 0 .. MaxCalls
  /\ end \in [Calls -> [Peers -> Ends]]
  /\ DOMAIN sent = Calls
  /\ \A n \in Calls : sent[n] \subseteq Messages
  /\ trusted \in [Secrets -> SUBSET Peers]
  /\ cuts \in 0 .. 2

\* A phone tells its user that the SAS was verified (the flag of its record)
\* only if this user did compare it, in the call whose secret is in front or
\* in one that call continues from without a break.
SasMeansVerified ==
  \A p \in Peers : cache[p].sas => cache[p].v1 /\ p \in trusted[cache[p].rs1]

\* Both ends of a call that selected a secret selected the same one: they
\* get the same keys, whatever the records went through.
KeysAgree ==
  \A n \in Calls, p \in Peers :
    {end[n][p].pc, end[n][Other(p)].pc} \subseteq
        {"keys", "confirmed", "secure"} =>
      end[n][p].s1 = end[n][Other(p)].s1

\* When the Responder becomes secure, it shows the same SAS flag as the
\* Initiator: verified at both ends, or at none.
FlagsAgree ==
  [][\A n \in Calls, p \in Peers :
       /\ end[n][p].pc = "keys" /\ end'[n][p].pc = "secure"
       /\ end[n][Other(p)].pc = "confirmed"
       => end'[n][p].rec.sas = end[n][Other(p)].rec.sas]_vars

\* Between calls the two phones have a valid secret in common, as long as no
\* more than one call since the last good one was cut between the Initiator's
\* saving and the Responder's: the purpose of the second secret.
ContinuityAfterCut ==
  (Active = {} /\ cuts < 2) =>
    \A p \in Peers : Valid(cache[p]) \intersect Valid(cache[Other(p)]) # {}

\* "thus make sure we have a second retained shared secret available": what a
\* stopping session saves has all secrets that were valid before.
StopKeepsSecrets ==
  [][\A n \in Calls, p \in Peers :
       end[n][p].pc # "none" /\ end'[n][p].pc = "none" =>
         Valid(cache[p]) \subseteq Valid(cache'[p])]_vars

=============================================================================
