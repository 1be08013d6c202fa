-------------------------- MODULE ZrtpNegotiation --------------------------
(***************************************************************************)
(* How the two ends of a call settle on their algorithms: the choice from  *)
(* the peer's Hello (findBestXxx in libs/zrtp/zrtp/ZRtp.cpp), what the     *)
(* Responder takes over from the Commit, and what the audio stream hands   *)
(* to the video stream when it is secure (getMultiStrParams and            *)
(* setMultiStrParams), for every configuration an application can build.   *)
(*                                                                         *)
(* The engine that sends and checks the packets is ZrtpStateClass; here a  *)
(* step is one packet prepared.  That at most one end becomes Responder in *)
(* a negotiation is taken from there (OneInitiator).                       *)
(***************************************************************************)
EXTENDS Naturals, Sequences, Functions

CONSTANTS
  Alice, Bob,   \* the two ends of the call
  Configs       \* the configurations (ZrtpConfigure) their engines may have

Peers == {Alice, Bob}

Other(p) == IF p = Alice THEN Bob ELSE Alice

ASSUME PeersAssumption == Alice # Bob

-----------------------------------------------------------------------------
(* The implemented algorithms, in the order of their enumerations, which    *)
(* is what an ordinal counts.                                               *)

Hashes == <<"S256", "S384">>
SymCiphers == <<"AES3", "AES1", "2FS3", "2FS1">>
PubKeys == <<"DH2k", "EC25", "DH3k", "EC38", "Mult">>
SasTypes == <<"B32", "B256">>
AuthLengths == <<"HS32", "HS80", "SK32", "SK64">>

NULL == "NULL"

mandatoryHash == "S256"
mandatoryCipher == "AES1"
mandatoryPubKey == "DH3k"
mandatorySasType == "B32"
mandatoryAuthLen == "HS32"

maxNoOfAlgos == 7

\* addAlgo takes implemented algorithms only, none twice, and not too many.
Lists(algos) ==
  {s \in Seq(Range(algos)) :
     Len(s) <= maxNoOfAlgos /\ \A i, j \in DOMAIN s : s[i] = s[j] => i = j}

Configurations ==
  [hashes : Lists(Hashes), symCiphers : Lists(SymCiphers),
   publicKeyAlgos : Lists(PubKeys), sasTypes : Lists(SasTypes),
   authLengths : Lists(AuthLengths)]

checkMultiStream(hello) ==
  hello.publicKeyAlgos = <<>> \/ "Mult" \in Range(hello.publicKeyAlgos)

\* The hash of an EC38 key agreement has to be S384: who offers the one has
\* to offer the other.  A slave needs the multi-stream mode.
ASSUME ConfigsAssumption ==
  /\ Configs \subseteq Configurations
  /\ \A c \in Configs :
       /\ "EC38" \in Range(c.publicKeyAlgos) => "S384" \in Range(c.hashes)
       /\ checkMultiStream(c)

-----------------------------------------------------------------------------
(* The configuration of this client.  A field of the settings is TRUE when  *)
(* the algorithm is on.                                                     *)

Settings == [ecdh384 : BOOLEAN, ecdh256 : BOOLEAN, dh2k : BOOLEAN, sha384 : BOOLEAN,
             aes256 : BOOLEAN, twofish : BOOLEAN, skein : BOOLEAN, sas256 : BOOLEAN]

\* What init leaves of the settings in the file.
Loaded(s) ==
  IF s.ecdh384 THEN [s EXCEPT !.sha384 = TRUE, !.aes256 = TRUE] ELSE s

If(on, algo) == IF on THEN <<algo>> ELSE <<>>

setupConfiguration(s) ==
  [publicKeyAlgos |-> If(s.ecdh384, "EC38") \o If(s.ecdh256, "EC25")
                      \o If(s.dh2k, "DH2k") \o <<"DH3k", "Mult">>,
   hashes |-> If(s.sha384 \/ s.ecdh384, "S384") \o <<"S256">>,
   symCiphers |-> If(s.aes256 /\ s.twofish, "2FS3") \o If(s.aes256, "AES3")
                  \o If(s.twofish, "2FS1") \o <<"AES1">>,
   sasTypes |-> If(s.sas256, "B256") \o <<"B32">>,
   authLengths |-> (IF s.skein THEN <<"SK32", "SK64">> ELSE <<>>) \o <<"HS32", "HS80">>]

\* The library's own configurations, for other programs.
setStandardConfig ==
  [hashes |-> <<"S384", "S256">>, symCiphers |-> <<"2FS3", "AES3", "2FS1", "AES1">>,
   publicKeyAlgos |-> <<"EC25", "DH3k", "EC38", "DH2k", "Mult">>, sasTypes |-> <<"B32">>,
   authLengths |-> <<"SK32", "SK64", "HS32", "HS80">>]

setMandatoryOnly ==
  [hashes |-> <<"S256">>, symCiphers |-> <<"AES1">>, publicKeyAlgos |-> <<"DH3k", "Mult">>,
   sasTypes |-> <<"B32">>, authLengths |-> <<"HS32", "HS80">>]

-----------------------------------------------------------------------------
(* The choice from a Hello.  A Hello lists the configuration of its sender. *)

\* The first entry of the list that is in the set.
FirstIn(list, set) ==
  list[CHOOSE i \in DOMAIN list :
         list[i] \in set /\ \A j \in DOMAIN list : list[j] \in set => i <= j]

\* Mutant: without a match the first one configured.
FindBestOwn(configured, offered, mandatory) ==
  IF Range(offered) \cap Range(configured) # {} THEN FirstIn(offered, Range(configured))
  ELSE IF configured = <<>> THEN mandatory ELSE configured[1]

\* findBestHash, findBestCipher, findBestSASType, findBestAuthLen: the first
\* one offered that is configured.
FindBest(configured, offered, mandatory) ==
  IF Range(offered) \cap Range(configured) = {}
    THEN mandatory ELSE FirstIn(offered, Range(configured))

\* The place of a public key algorithm in orderedAlgos, from fast to slow.
Speed(pk) == CHOOSE i \in DOMAIN PubKeys : PubKeys[i] = pk

Common(own, peer) == (Range(own) \cap Range(peer)) \ {"Mult"}

\* Mutant: of the two first choices, the peer's.
findBestPubkeyPeers(own, peer) ==
  IF Common(own, peer) = {} THEN mandatoryPubKey
  ELSE FirstIn(peer, Common(own, peer))

\* The faster one of the two ends' first choices among the common ones.
findBestPubkey(own, peer) ==
  IF Common(own, peer) = {} THEN mandatoryPubKey
  ELSE LET mine == FirstIn(own, Common(own, peer))
           theirs == FirstIn(peer, Common(own, peer))
       IN  IF Speed(mine) < Speed(theirs) THEN mine ELSE theirs

\* Mutant: only the first one offered is looked at.
getStrongHashOfferedFirst(hello) ==
  IF hello.hashes # <<>> /\ hello.hashes[1] = "S384" THEN "S384" ELSE NULL

getStrongHashOffered(hello) ==
  IF "S384" \in Range(hello.hashes) THEN "S384" ELSE NULL

Strong == {"AES3", "2FS3"}

\* NULL if no strong cipher is offered.
getStrongCipherOffered(hello) ==
  IF Range(hello.symCiphers) \cap Strong = {} THEN NULL ELSE FirstIn(hello.symCiphers, Strong)

findBestCipher(own, hello, pk) ==
  IF pk = "DH2k" THEN "AES1"
  ELSE FindBest(own.symCiphers, hello.symCiphers, mandatoryCipher)

HashFor(own, hello, pk) ==
  IF Common(own.publicKeyAlgos, hello.publicKeyAlgos) = {} THEN mandatoryHash
  ELSE IF pk = "EC38" THEN getStrongHashOffered(hello)
  ELSE FindBest(own.hashes, hello.hashes, mandatoryHash)

CipherFor(own, hello, pk) ==
  IF pk = "EC38" /\ getStrongCipherOffered(hello) # NULL
    THEN getStrongCipherOffered(hello) ELSE findBestCipher(own, hello, pk)

\* What prepareCommit chooses; no hash means UnsuppHashType.
SuiteFor(own, hello) ==
  LET pk == findBestPubkey(own.publicKeyAlgos, hello.publicKeyAlgos)
  IN  [hash |-> HashFor(own, hello, pk),
       cipher |-> CipherFor(own, hello, pk),
       authLength |-> FindBest(own.authLengths, hello.authLengths, mandatoryAuthLen),
       pubKey |-> pk,
       sasType |-> FindBest(own.sasTypes, hello.sasTypes, mandatorySasType)]

-----------------------------------------------------------------------------
(* The engines.                                                             *)

VARIABLES
  config,   \* [Peers -> Configs]: configureAlgos, the same for both streams
  audio,    \* [Peers -> engine]: the master's engine
  video     \* [Peers -> engine]: the slave's

vars == <<config, audio, video>>

NoSuite == [hash |-> NULL, cipher |-> NULL, authLength |-> NULL,
            pubKey |-> NULL, sasType |-> NULL]

\* dhType: the algorithm of dhContext; idsHash: the hash under which the ids
\* of the retained secrets were computed.
NewEngine == [stage |-> "Start", suite |-> NoSuite, dhType |-> NULL, idsHash |-> NULL]

Init ==
  /\ config \in [Peers -> Configs]
  /\ audio = [p \in Peers |-> NewEngine]
  /\ video = [p \in Peers |-> NewEngine]

\* The end has taken its role: its suite is final.
Negotiated(e) == e.stage \in {"Responder", "Initiator"}

Failed(e) == [e EXCEPT !.stage = "Failed"]

\* The peer's Hello arrives: choose, and prepare a Commit.
PrepareCommit(p) ==
  LET s == SuiteFor(config[p], config[Other(p)])
  IN  /\ audio[p].stage = "Start"
      /\ audio' = [audio EXCEPT ![p] =
           IF s.hash = NULL THEN Failed(@)
           ELSE [stage |-> "Ready", suite |-> s, dhType |-> s.pubKey, idsHash |-> s.hash]]
      /\ UNCHANGED <<config, video>>

Implemented(s) ==
  /\ s.hash \in Range(Hashes) /\ s.cipher \in Range(SymCiphers)
  /\ s.authLength \in Range(AuthLengths)
  /\ s.pubKey \in Range(PubKeys) /\ s.sasType \in Range(SasTypes)

\* Mutant: the ids stay as they were computed for the own Commit.
TakeOverOldIds(e, s) ==
  [stage |-> "Responder", suite |-> s, dhType |-> s.pubKey, idsHash |-> e.idsHash]

\* The Commit's suite replaces the own one; what was computed under the own
\* hash and for the own public key algorithm is computed again.
TakeOver(e, s) ==
  [stage |-> "Responder", suite |-> s,
   dhType |-> IF e.dhType # s.pubKey THEN s.pubKey ELSE e.dhType,
   idsHash |-> IF e.suite.hash # s.hash THEN s.hash ELSE e.idsHash]

\* The peer's Commit arrives: p is the Responder (the checks of the suite only).
PrepareDHPart1(p) ==
  LET s == audio[Other(p)].suite
  IN  /\ audio[p].stage = "Ready" /\ audio[Other(p)].stage = "Ready"
      /\ audio' = [audio EXCEPT ![p] =
           IF Implemented(s) /\ (s.pubKey = "EC38" => s.hash = "S384")
             THEN TakeOver(@, s) ELSE Failed(@)]
      /\ UNCHANGED <<config, video>>

\* DHPart1 arrives: p is the Initiator.
PrepareDHPart2(p) ==
  /\ audio[p].stage = "Ready" /\ audio[Other(p)].stage = "Responder"
  /\ audio' = [audio EXCEPT ![p].stage = "Initiator"]
  /\ UNCHANGED <<config, video>>

getOrdinal(algos, name) == (CHOOSE i \in DOMAIN algos : algos[i] = name) - 1
getByOrdinal(algos, ord) == algos[ord + 1]

\* Mutant: cipher and authentication in the other order.
getMultiStrParamsSwapped(s) ==
  <<getOrdinal(Hashes, s.hash), getOrdinal(SymCiphers, s.cipher),
    getOrdinal(AuthLengths, s.authLength)>>

getMultiStrParams(s) ==
  <<getOrdinal(Hashes, s.hash), getOrdinal(AuthLengths, s.authLength),
    getOrdinal(SymCiphers, s.cipher)>>

setMultiStrParams(e, params) ==
  [e EXCEPT !.suite.hash = getByOrdinal(Hashes, params[1]),
            !.suite.authLength = getByOrdinal(AuthLengths, params[2]),
            !.suite.cipher = getByOrdinal(SymCiphers, params[3])]

\* The master is secure (both ends sent what they had to): the slave is
\* given its algorithms and started.
MasterStreamSecure(p) ==
  /\ \A q \in Peers : Negotiated(audio[q])
  /\ video[p].suite.hash = NULL
  /\ video' = [video EXCEPT ![p] = setMultiStrParams(@, getMultiStrParams(audio[p].suite))]
  /\ UNCHANGED <<config, audio>>

\* The Hello of the peer's slave arrives at the slave.
PrepareCommitMultiStream(p) ==
  /\ video[p].stage = "Start"
  /\ \A q \in Peers : video[q].suite.hash # NULL
  /\ video' = [video EXCEPT ![p] =
       IF checkMultiStream(config[Other(p)])
         THEN [@ EXCEPT !.stage = "Ready", !.suite.pubKey = "Mult",
                        !.suite.sasType = FindBest(config[p].sasTypes,
                                            config[Other(p)].sasTypes, mandatorySasType)]
         ELSE Failed(@)]
  /\ UNCHANGED <<config, audio>>

\* The Commit of the peer's slave arrives.
PrepareConfirm1MultiStream(p) ==
  LET s == video[Other(p)].suite
  IN  /\ video[p].stage = "Ready" /\ video[Other(p)].stage = "Ready"
      /\ video' = [video EXCEPT ![p] =
           IF Implemented(s) /\ s.pubKey = "Mult"
             THEN [@ EXCEPT !.stage = "Responder", !.suite.hash = s.hash,
                            !.suite.cipher = s.cipher, !.suite.authLength = s.authLength]
             ELSE Failed(@)]
      /\ UNCHANGED <<config, audio>>

\* Confirm1 of the peer's slave arrives.
PrepareConfirm2MultiStream(p) ==
  /\ video[p].stage = "Ready" /\ video[Other(p)].stage = "Responder"
  /\ video' = [video EXCEPT ![p].stage = "Initiator"]
  /\ UNCHANGED <<config, audio>>

Next ==
  \E p \in Peers :
    \/ PrepareCommit(p) \/ PrepareDHPart1(p) \/ PrepareDHPart2(p)
    \/ MasterStreamSecure(p)
    \/ PrepareCommitMultiStream(p) \/ PrepareConfirm1MultiStream(p)
    \/ PrepareConfirm2MultiStream(p)

Spec == Init /\ [][Next]_vars

-----------------------------------------------------------------------------
(* Properties.                                                              *)

\* Two ends that offer S384 whenever they offer EC38 always agree: no
\* negotiation ends in UnsuppHashType, UnsuppPKExchange or another refusal
\* (ZRtp.cpp:315, 334, 510-563, 844-873).
NoFailure ==
  \A p \in Peers : audio[p].stage # "Failed" /\ video[p].stage # "Failed"

\* Both ends choose the same public key algorithm from each other's Hello,
\* before either knows who will be Responder: the key pair a Responder made
\* for its own Commit is the one it needs (ZRtp.cpp:1420-1501 against 565-571).
PubKeyAgreed ==
  \A p \in Peers :
    (audio[p].dhType # NULL /\ audio[Other(p)].dhType # NULL) =>
      audio[p].dhType = audio[Other(p)].dhType

\* Once both ends have their role they run one suite, and the key pair and the
\* ids of the retained secrets of both belong to it, whatever each of them
\* had prepared before (ZRtp.cpp:508-571).
SuiteAgreed ==
  (\A p \in Peers : Negotiated(audio[p])) =>
    \A p \in Peers :
      /\ audio[p].suite = audio[Other(p)].suite
      /\ audio[p].idsHash = audio[p].suite.hash
      /\ audio[p].dhType = audio[p].suite.pubKey

\* Every algorithm of the suite is in the Hello, or mandatory.
Within(s, c) ==
  /\ s.hash \in Range(c.hashes) \cup {mandatoryHash}
  /\ s.cipher \in Range(c.symCiphers) \cup {mandatoryCipher}
  /\ s.authLength \in Range(c.authLengths) \cup {mandatoryAuthLen}
  /\ s.pubKey \in Range(c.publicKeyAlgos) \cup {mandatoryPubKey}
  /\ s.sasType \in Range(c.sasTypes) \cup {mandatorySasType}

\* What the Responder of a call uses is in its own Hello or mandatory, although
\* it accepts in a Commit whatever is implemented (ZRtp.cpp:510-563): the
\* Initiator's choice keeps to the Hello.
ResponderOffered ==
  \A p \in Peers :
    audio[p].stage = "Responder" => Within(audio[p].suite, config[p])

\* The slave streams of a call use the hash, cipher and authentication of their
\* masters, at both ends (ZRtp.cpp:2418-2456).
SlaveLikeMaster ==
  \A p \in Peers :
    video[p].suite.hash # NULL =>
      /\ video[p].suite.hash = audio[p].suite.hash
      /\ video[p].suite.cipher = audio[p].suite.cipher
      /\ video[p].suite.authLength = audio[p].suite.authLength
=============================================================================
