------------------------- MODULE NegotiationProofs -------------------------
(* Theorems about ZrtpNegotiation, for every set of configurations.         *)
EXTENDS ZrtpNegotiation, TLAPS

-----------------------------------------------------------------------------
(* The choice of an algorithm. *)

LEMMA Ranges ==
  /\ Range(Hashes) = {"S256", "S384"}
  /\ Range(SymCiphers) = {"AES3", "AES1", "2FS3", "2FS1"}
  /\ Range(PubKeys) = {"DH2k", "EC25", "DH3k", "EC38", "Mult"}
  /\ Range(SasTypes) = {"B32", "B256"}
  /\ Range(AuthLengths) = {"HS32", "HS80", "SK32", "SK64"}
<1>1. Range(Hashes) = {"S256", "S384"}
  BY DEF Range, Hashes
<1>2. Range(SymCiphers) = {"AES3", "AES1", "2FS3", "2FS1"}
  BY DEF Range, SymCiphers
<1>3. Range(PubKeys) = {"DH2k", "EC25", "DH3k", "EC38", "Mult"}
  BY DEF Range, PubKeys
<1>4. Range(SasTypes) = {"B32", "B256"}
  BY DEF Range, SasTypes
<1>5. Range(AuthLengths) = {"HS32", "HS80", "SK32", "SK64"}
  BY DEF Range, AuthLengths
<1> QED BY <1>1, <1>2, <1>3, <1>4, <1>5

\* A set of positions of a list has a first one.
LEMMA LeastPosition ==
  ASSUME NEW S \in SUBSET (1 .. 7), NEW x \in S
  PROVE  \E m \in S : \A y \in S : m <= y
<1>1. SUFFICES ASSUME \A m \in S : \E y \in S : y < m  PROVE FALSE
  BY <1>1
<1>2. 1 \notin S
  BY <1>1
<1>3. 2 \notin S
  BY <1>1, <1>2
<1>4. 3 \notin S
  BY <1>1, <1>2, <1>3
<1>5. 4 \notin S
  BY <1>1, <1>2, <1>3, <1>4
<1>6. 5 \notin S
  BY <1>1, <1>2, <1>3, <1>4, <1>5
<1>7. 6 \notin S /\ 7 \notin S
  BY <1>1, <1>2, <1>3, <1>4, <1>5, <1>6
<1> QED BY <1>2, <1>3, <1>4, <1>5, <1>6, <1>7

\* FirstIn returns an entry of the list that is in the set, if there is one.
LEMMA FirstInSet ==
  ASSUME NEW list, NEW algos, list \in Lists(algos), NEW set,
         Range(list) \cap set # {}
  PROVE  FirstIn(list, set) \in Range(list) \cap set
<1> DEFINE S == {i \in DOMAIN list : list[i] \in set}
<1>1. DOMAIN list = 1 .. Len(list) /\ Len(list) \in Nat /\ Len(list) <= 7
  BY DEF Lists, maxNoOfAlgos
<1>2. S \in SUBSET (1 .. 7)
  BY <1>1
<1>3. PICK x \in S : TRUE
  BY DEF Range
<1>4. PICK m \in S : \A y \in S : m <= y
  BY <1>2, <1>3, LeastPosition
<1>5. \E i \in DOMAIN list : list[i] \in set /\ \A j \in DOMAIN list : list[j] \in set => i <= j
  BY <1>4
<1> QED BY <1>5 DEF FirstIn, Range

\* The algorithm found is one that was offered, or the mandatory one.
LEMMA FindBestOffered ==
  ASSUME NEW algos, NEW own, NEW peer \in Lists(algos), NEW mandatory
  PROVE  FindBest(own, peer, mandatory) \in Range(peer) \cup {mandatory}
BY FirstInSet DEF FindBest

\* Every list names implemented algorithms only.
LEMMA ListRange ==
  ASSUME NEW algos, NEW list \in Lists(algos)
  PROVE  Range(list) \subseteq Range(algos)
BY DEF Lists, Range

-----------------------------------------------------------------------------
(* The public key algorithm. *)

LEMMA SpeedInjective ==
  ASSUME NEW a \in Range(PubKeys), NEW b \in Range(PubKeys)
  PROVE  /\ Speed(a) \in 1 .. 5
         /\ Speed(a) = Speed(b) => a = b
<1>1. DOMAIN PubKeys = 1 .. 5
  BY DEF PubKeys
<1>2. \E i \in 1 .. 5 : PubKeys[i] = a
  BY <1>1 DEF Range
<1>3. \E i \in 1 .. 5 : PubKeys[i] = b
  BY <1>1 DEF Range
<1>4. Speed(a) \in 1 .. 5 /\ PubKeys[Speed(a)] = a
  BY <1>1, <1>2 DEF Speed
<1>5. Speed(b) \in 1 .. 5 /\ PubKeys[Speed(b)] = b
  BY <1>1, <1>3 DEF Speed
<1> QED BY <1>4, <1>5

LEMMA BestIsCommon ==
  ASSUME NEW own \in Lists(PubKeys), NEW peer \in Lists(PubKeys)
  PROVE  IF Common(own, peer) = {} THEN findBestPubkey(own, peer) = mandatoryPubKey
                                   ELSE findBestPubkey(own, peer) \in Common(own, peer)
<1>1. CASE Common(own, peer) = {}
  BY <1>1 DEF findBestPubkey
<1>2. CASE Common(own, peer) # {}
  <2>1. Range(own) \cap Common(own, peer) # {} /\ Range(peer) \cap Common(own, peer) # {}
    BY <1>2 DEF Common
  <2>2. FirstIn(own, Common(own, peer)) \in Common(own, peer)
    BY <2>1, FirstInSet
  <2>3. FirstIn(peer, Common(own, peer)) \in Common(own, peer)
    BY <2>1, FirstInSet
  <2> QED BY <1>2, <2>2, <2>3 DEF findBestPubkey
<1> QED BY <1>1, <1>2

\* The choice is the same from both sides (RFC 6189, 4.1.2, as the code has it
\* in ZRtp.cpp:1420-1501): two ends that know each other's Hello need no packet
\* to agree on the public key algorithm.
THEOREM PubkeySymmetric ==
  ASSUME NEW own \in Lists(PubKeys), NEW peer \in Lists(PubKeys)
  PROVE  findBestPubkey(own, peer) = findBestPubkey(peer, own)
<1>1. Common(own, peer) = Common(peer, own)
  BY DEF Common
<1>2. CASE Common(own, peer) = {}
  BY <1>1, <1>2 DEF findBestPubkey
<1>3. CASE Common(own, peer) # {}
  <2> DEFINE C == Common(own, peer)
             a == FirstIn(own, C)
             b == FirstIn(peer, C)
  <2>1. a \in C /\ b \in C
    <3>1. Range(own) \cap C # {} /\ Range(peer) \cap C # {}
      BY <1>3 DEF Common
    <3> QED BY <3>1, FirstInSet
  <2>2. a \in Range(PubKeys) /\ b \in Range(PubKeys)
    BY <2>1, ListRange DEF Common
  <2>3. /\ findBestPubkey(own, peer) = IF Speed(a) < Speed(b) THEN a ELSE b
        /\ findBestPubkey(peer, own) = IF Speed(b) < Speed(a) THEN b ELSE a
    BY <1>1, <1>3 DEF findBestPubkey
  <2>4. Speed(a) \in Nat /\ Speed(b) \in Nat /\ (Speed(a) = Speed(b) => a = b)
    BY <2>2, SpeedInjective
  <2> HIDE DEF a, b
  <2> QED BY <2>3, <2>4
<1> QED BY <1>2, <1>3

-----------------------------------------------------------------------------
(* The suite of a Commit. *)

Suites ==
  [hash : Range(Hashes), cipher : Range(SymCiphers), authLength : Range(AuthLengths),
   pubKey : Range(PubKeys), sasType : Range(SasTypes)]

LEMMA ConfigLists ==
  ASSUME NEW c \in Configs
  PROVE  /\ c.hashes \in Lists(Hashes) /\ c.symCiphers \in Lists(SymCiphers)
         /\ c.publicKeyAlgos \in Lists(PubKeys) /\ c.sasTypes \in Lists(SasTypes)
         /\ c.authLengths \in Lists(AuthLengths)
         /\ "EC38" \in Range(c.publicKeyAlgos) => "S384" \in Range(c.hashes)
         /\ checkMultiStream(c)
BY ConfigsAssumption DEF Configurations

LEMMA HashOffered ==
  ASSUME NEW own \in Configs, NEW hello \in Configs,
         NEW pk, pk = findBestPubkey(own.publicKeyAlgos, hello.publicKeyAlgos)
  PROVE  /\ HashFor(own, hello, pk) \in Range(hello.hashes) \cup {mandatoryHash}
         /\ pk = "EC38" => HashFor(own, hello, pk) = "S384"
<1> DEFINE C == Common(own.publicKeyAlgos, hello.publicKeyAlgos)
<1>1. IF C = {} THEN pk = mandatoryPubKey ELSE pk \in C
  BY BestIsCommon, ConfigLists
<1>2. CASE C = {}
  BY <1>1, <1>2 DEF HashFor, mandatoryPubKey
<1>3. CASE C # {} /\ pk = "EC38"
  <2>1. "S384" \in Range(hello.hashes)
    BY <1>1, <1>3, ConfigLists DEF Common
  <2> QED BY <1>3, <2>1 DEF HashFor, getStrongHashOffered
<1>4. CASE C # {} /\ pk # "EC38"
  <2>1. HashFor(own, hello, pk) = FindBest(own.hashes, hello.hashes, mandatoryHash)
    BY <1>4 DEF HashFor
  <2> QED BY <1>4, <2>1, FindBestOffered, ConfigLists
<1> QED BY <1>2, <1>3, <1>4

LEMMA CipherOffered ==
  ASSUME NEW own \in Configs, NEW hello \in Configs, NEW pk
  PROVE  CipherFor(own, hello, pk) \in Range(hello.symCiphers) \cup {mandatoryCipher}
<1>1. CASE pk = "EC38" /\ getStrongCipherOffered(hello) # NULL
  <2>1. Range(hello.symCiphers) \cap Strong # {}
    BY <1>1 DEF getStrongCipherOffered
  <2>2. FirstIn(hello.symCiphers, Strong) \in Range(hello.symCiphers)
    BY <2>1, FirstInSet, ConfigLists
  <2> QED BY <1>1, <2>1, <2>2 DEF CipherFor, getStrongCipherOffered
<1>2. CASE ~(pk = "EC38" /\ getStrongCipherOffered(hello) # NULL)
  <2>1. FindBest(own.symCiphers, hello.symCiphers, mandatoryCipher)
          \in Range(hello.symCiphers) \cup {mandatoryCipher}
    BY FindBestOffered, ConfigLists
  <2> QED BY <1>2, <2>1 DEF CipherFor, findBestCipher, mandatoryCipher
<1> QED BY <1>1, <1>2

\* What an end chooses from a Hello is implemented, within the Hello, and has
\* a hash that suits the key agreement.
LEMMA SuiteChosen ==
  ASSUME NEW own \in Configs, NEW hello \in Configs, NEW s, s = SuiteFor(own, hello)
  PROVE  /\ s \in Suites
         /\ Within(s, hello)
         /\ s.pubKey = "EC38" => s.hash = "S384"
         /\ s.pubKey = findBestPubkey(own.publicKeyAlgos, hello.publicKeyAlgos)
<1> DEFINE pk == findBestPubkey(own.publicKeyAlgos, hello.publicKeyAlgos)
<1>1. s = [hash |-> HashFor(own, hello, pk), cipher |-> CipherFor(own, hello, pk),
           authLength |-> FindBest(own.authLengths, hello.authLengths, mandatoryAuthLen),
           pubKey |-> pk,
           sasType |-> FindBest(own.sasTypes, hello.sasTypes, mandatorySasType)]
  BY DEF SuiteFor
<1>2. s.pubKey \in Range(hello.publicKeyAlgos) \cup {mandatoryPubKey}
  BY <1>1, BestIsCommon, ConfigLists DEF Common
<1>3. /\ s.hash \in Range(hello.hashes) \cup {mandatoryHash}
      /\ s.pubKey = "EC38" => s.hash = "S384"
  BY <1>1, HashOffered
<1>4. s.cipher \in Range(hello.symCiphers) \cup {mandatoryCipher}
  BY <1>1, CipherOffered
<1>5. /\ s.authLength \in Range(hello.authLengths) \cup {mandatoryAuthLen}
      /\ s.sasType \in Range(hello.sasTypes) \cup {mandatorySasType}
  BY <1>1, FindBestOffered, ConfigLists
<1>6. Within(s, hello)
  BY <1>2, <1>3, <1>4, <1>5 DEF Within
<1>7. /\ Range(hello.hashes) \subseteq Range(Hashes)
      /\ Range(hello.symCiphers) \subseteq Range(SymCiphers)
      /\ Range(hello.publicKeyAlgos) \subseteq Range(PubKeys)
      /\ Range(hello.sasTypes) \subseteq Range(SasTypes)
      /\ Range(hello.authLengths) \subseteq Range(AuthLengths)
  BY ListRange, ConfigLists
<1>8. /\ mandatoryHash \in Range(Hashes) /\ mandatoryCipher \in Range(SymCiphers)
      /\ mandatoryPubKey \in Range(PubKeys) /\ mandatorySasType \in Range(SasTypes)
      /\ mandatoryAuthLen \in Range(AuthLengths)
  BY Ranges DEF mandatoryHash, mandatoryCipher, mandatoryPubKey, mandatorySasType,
                mandatoryAuthLen
<1>9. /\ s.hash \in Range(Hashes) /\ s.cipher \in Range(SymCiphers)
      /\ s.authLength \in Range(AuthLengths) /\ s.pubKey \in Range(PubKeys)
      /\ s.sasType \in Range(SasTypes)
  BY <1>2, <1>3, <1>4, <1>5, <1>7, <1>8
<1>10. s \in Suites
  BY <1>1, <1>9 DEF Suites
<1> QED BY <1>1, <1>3, <1>6, <1>10

LEMMA NullIsNoAlgorithm ==
  /\ NULL \notin Range(Hashes)
  /\ NULL \notin Range(PubKeys)
BY Ranges DEF NULL

-----------------------------------------------------------------------------
(* The inductive invariant. *)

MaybeSuites ==
  [hash : Range(Hashes) \cup {NULL}, cipher : Range(SymCiphers) \cup {NULL},
   authLength : Range(AuthLengths) \cup {NULL}, pubKey : Range(PubKeys) \cup {NULL},
   sasType : Range(SasTypes) \cup {NULL}]

Engines ==
  [stage : {"Start", "Ready", "Responder", "Initiator", "Failed"}, suite : MaybeSuites,
   dhType : Range(PubKeys) \cup {NULL}, idsHash : Range(Hashes) \cup {NULL}]

TypeInv ==
  /\ config \in [Peers -> Configs]
  /\ audio \in [Peers -> Engines]
  /\ video \in [Peers -> Engines]

\* What an engine has prepared belongs to its suite.
Consistent(e) ==
  /\ e.suite \in Suites
  /\ e.dhType = e.suite.pubKey
  /\ e.idsHash = e.suite.hash
  /\ e.suite.pubKey = "EC38" => e.suite.hash = "S384"

AudioOf(p) ==
  LET e == audio[p]  o == audio[Other(p)]  mine == config[p]  theirs == config[Other(p)]
  IN  /\ e.stage # "Failed"
      /\ e.stage = "Start" => e.dhType = NULL
      /\ e.stage # "Start" =>
           /\ Consistent(e)
           /\ e.suite.pubKey = findBestPubkey(mine.publicKeyAlgos, theirs.publicKeyAlgos)
      /\ e.stage = "Ready" => Within(e.suite, theirs)
      /\ e.stage = "Responder" =>
           o.stage \in {"Ready", "Initiator"} /\ o.suite = e.suite /\ Within(e.suite, mine)
      /\ e.stage = "Initiator" => o.stage = "Responder"

SameKeying(s, t) ==
  s.hash = t.hash /\ s.cipher = t.cipher /\ s.authLength = t.authLength

VideoOf(p) ==
  LET e == video[p]
  IN  /\ e.stage # "Failed"
      /\ e.stage # "Start" =>
           e.suite.hash # NULL /\ e.suite.pubKey = "Mult" /\ e.suite.sasType # NULL
      /\ e.suite.hash # NULL =>
           (\A q \in Peers : Negotiated(audio[q])) /\ SameKeying(e.suite, audio[p].suite)

NegInv == TypeInv /\ \A p \in Peers : AudioOf(p) /\ VideoOf(p)

LEMMA OtherPeer ==
  ASSUME NEW p \in Peers
  PROVE  /\ Other(p) \in Peers /\ Other(p) # p /\ Other(Other(p)) = p
         /\ \A q \in Peers : q = p \/ q = Other(p)
BY PeersAssumption DEF Peers, Other

LEMMA SuitesAreMaybe ==
  ASSUME NEW s \in Suites
  PROVE  s \in MaybeSuites
BY DEF Suites, MaybeSuites

LEMMA NegInit == Init => NegInv
<1> SUFFICES ASSUME Init PROVE NegInv
  OBVIOUS
<1>1. NewEngine \in Engines
  BY DEF NewEngine, NoSuite, Engines, MaybeSuites
<1>2. TypeInv
  BY <1>1 DEF Init, TypeInv
<1>3. ASSUME NEW p \in Peers PROVE AudioOf(p) /\ VideoOf(p)
  BY OtherPeer DEF Init, NewEngine, NoSuite, AudioOf, VideoOf
<1> QED BY <1>2, <1>3 DEF NegInv

-----------------------------------------------------------------------------
(* Each step of the audio streams. *)

\* As long as one end has no role, no slave has been started.
LEMMA NoSlaveYet ==
  ASSUME NegInv, NEW p \in Peers, audio[p].stage = "Start" \/ audio[p].stage = "Ready"
  PROVE  \A q \in Peers : video[q].suite.hash = NULL /\ video[q].stage = "Start"
BY DEF NegInv, VideoOf, Negotiated

LEMMA StepPrepareCommit ==
  ASSUME NegInv, NEW p \in Peers, PrepareCommit(p)
  PROVE  NegInv'
<1> DEFINE s == SuiteFor(config[p], config[Other(p)])
           e == [stage |-> "Ready", suite |-> s, dhType |-> s.pubKey, idsHash |-> s.hash]
<1>1. config[p] \in Configs /\ config[Other(p)] \in Configs
  BY OtherPeer DEF NegInv, TypeInv
<1>2. /\ s \in Suites
      /\ Within(s, config[Other(p)])
      /\ s.pubKey = "EC38" => s.hash = "S384"
      /\ s.pubKey = findBestPubkey(config[p].publicKeyAlgos, config[Other(p)].publicKeyAlgos)
  BY <1>1, SuiteChosen
<1> HIDE DEF s
<1>3. s.hash # NULL
  BY <1>2, NullIsNoAlgorithm DEF Suites
<1>4. /\ audio[p].stage = "Start"
      /\ audio' = [audio EXCEPT ![p] = e]
      /\ config' = config /\ video' = video
  BY <1>3 DEF PrepareCommit, s
<1>5. e \in Engines /\ Consistent(e)
  BY <1>2, SuitesAreMaybe DEF Engines, Suites, Consistent
<1>6. audio'[p] = e /\ audio'[Other(p)] = audio[Other(p)]
  BY <1>4, OtherPeer DEF NegInv, TypeInv
<1>7. TypeInv'
  BY <1>4, <1>5 DEF NegInv, TypeInv
<1>8. audio[Other(p)].stage \in {"Start", "Ready"}
  BY <1>4, OtherPeer DEF NegInv, TypeInv, AudioOf, Engines
<1>9. AudioOf(p)'
  BY <1>2, <1>4, <1>5, <1>6 DEF AudioOf
<1>10. AudioOf(Other(p))'
  BY <1>4, <1>6, <1>8, OtherPeer DEF NegInv, AudioOf
<1>11. ASSUME NEW q \in Peers PROVE VideoOf(q)'
  BY <1>4, NoSlaveYet, <1>11 DEF VideoOf
<1> QED BY <1>7, <1>9, <1>10, <1>11, OtherPeer DEF NegInv

LEMMA StepPrepareDHPart1 ==
  ASSUME NegInv, NEW p \in Peers, PrepareDHPart1(p)
  PROVE  NegInv'
<1> DEFINE o == Other(p)
           s == audio[o].suite
           e == TakeOver(audio[p], s)
<1>1. audio[p].stage = "Ready" /\ audio[o].stage = "Ready" /\ o \in Peers
  BY OtherPeer DEF PrepareDHPart1
<1>2. Consistent(audio[p]) /\ Consistent(audio[o]) /\ Within(s, config[p])
  BY <1>1, OtherPeer DEF NegInv, AudioOf
<1>3. Implemented(s) /\ (s.pubKey = "EC38" => s.hash = "S384")
  BY <1>2 DEF Consistent, Suites, Implemented
<1>4. audio' = [audio EXCEPT ![p] = e] /\ config' = config /\ video' = video
  BY <1>3 DEF PrepareDHPart1
<1>5. e = [stage |-> "Responder", suite |-> s, dhType |-> s.pubKey, idsHash |-> s.hash]
  BY <1>2 DEF TakeOver, Consistent
<1>6. e \in Engines /\ Consistent(e)
  BY <1>2, <1>5, SuitesAreMaybe DEF Engines, Suites, Consistent
<1> HIDE DEF e
<1>7. audio'[p] = e /\ audio'[o] = audio[o]
  BY <1>4, OtherPeer DEF NegInv, TypeInv
<1>8. TypeInv'
  BY <1>4, <1>6 DEF NegInv, TypeInv
<1>9. s.pubKey = findBestPubkey(config[p].publicKeyAlgos, config[o].publicKeyAlgos)
  <2>1. s.pubKey = findBestPubkey(config[o].publicKeyAlgos, config[p].publicKeyAlgos)
    BY <1>1, OtherPeer DEF NegInv, AudioOf
  <2>2. config[p].publicKeyAlgos \in Lists(PubKeys) /\ config[o].publicKeyAlgos \in Lists(PubKeys)
    BY <1>1, ConfigLists DEF NegInv, TypeInv
  <2> QED BY <2>1, <2>2, PubkeySymmetric
<1>10. AudioOf(p)'
  BY <1>1, <1>2, <1>4, <1>5, <1>6, <1>7, <1>9 DEF AudioOf
<1>11. AudioOf(o)'
  BY <1>1, <1>4, <1>7, OtherPeer DEF NegInv, AudioOf
<1>12. ASSUME NEW q \in Peers PROVE VideoOf(q)'
  BY <1>1, <1>4, NoSlaveYet, <1>12 DEF VideoOf
<1> QED BY <1>8, <1>10, <1>11, <1>12, OtherPeer DEF NegInv

LEMMA StepPrepareDHPart2 ==
  ASSUME NegInv, NEW p \in Peers, PrepareDHPart2(p)
  PROVE  NegInv'
<1> DEFINE o == Other(p)
<1>1. /\ audio[p].stage = "Ready" /\ audio[o].stage = "Responder" /\ o \in Peers
      /\ audio' = [audio EXCEPT ![p].stage = "Initiator"]
      /\ config' = config /\ video' = video
  BY OtherPeer DEF PrepareDHPart2
<1>2. audio[p] \in Engines
  BY DEF NegInv, TypeInv
<1>3. /\ audio'[p] = [audio[p] EXCEPT !.stage = "Initiator"]
      /\ audio'[o] = audio[o]
  BY <1>1, OtherPeer DEF NegInv, TypeInv
<1>4. /\ audio'[p].stage = "Initiator" /\ audio'[p].suite = audio[p].suite
      /\ audio'[p].dhType = audio[p].dhType /\ audio'[p].idsHash = audio[p].idsHash
      /\ audio'[p] \in Engines
  BY <1>2, <1>3 DEF Engines
<1>5. TypeInv'
  BY <1>1, <1>3, <1>4 DEF NegInv, TypeInv
<1>6. AudioOf(p)'
  BY <1>1, <1>3, <1>4 DEF NegInv, AudioOf, Consistent
<1>7. AudioOf(o)'
  BY <1>1, <1>3, <1>4, OtherPeer DEF NegInv, AudioOf
<1>8. ASSUME NEW q \in Peers PROVE VideoOf(q)'
  BY <1>1, NoSlaveYet, <1>8 DEF VideoOf
<1> QED BY <1>5, <1>6, <1>7, <1>8, OtherPeer DEF NegInv

-----------------------------------------------------------------------------
(* Each step of the video streams. *)

\* An algorithm is found again by its ordinal.
LEMMA OrdinalFound ==
  ASSUME NEW algos \in {Hashes, AuthLengths, SymCiphers}, NEW name \in Range(algos)
  PROVE  getByOrdinal(algos, getOrdinal(algos, name)) = name
<1> DEFINE i == CHOOSE i \in DOMAIN algos : algos[i] = name
<1>1. i \in DOMAIN algos /\ algos[i] = name
  BY DEF Range
<1>2. i \in Nat
  BY <1>1 DEF Hashes, AuthLengths, SymCiphers
<1> HIDE DEF i
<1>3. (i - 1) + 1 = i
  BY <1>2
<1> QED BY <1>1, <1>3 DEF getByOrdinal, getOrdinal, i

\* Both ends of a call with a role have the same suite.
LEMMA OneSuite ==
  ASSUME NegInv, \A q \in Peers : Negotiated(audio[q]), NEW p \in Peers
  PROVE  audio[p].suite = audio[Other(p)].suite /\ audio[p].suite \in Suites
BY OtherPeer DEF NegInv, AudioOf, Negotiated, Consistent

\* A step of one slave that keeps its algorithms leaves everything else alone.
LEMMA SlaveStep ==
  ASSUME NegInv, NEW p \in Peers, NEW e \in Engines,
         video' = [video EXCEPT ![p] = e], UNCHANGED <<config, audio>>,
         e.stage \notin {"Start", "Failed"}, e.suite.pubKey = "Mult", e.suite.sasType # NULL,
         e.suite.hash # NULL,
         \A q \in Peers : Negotiated(audio[q]),
         SameKeying(e.suite, audio[p].suite)
  PROVE  NegInv'
<1>1. video'[p] = e /\ \A q \in Peers \ {p} : video'[q] = video[q]
  BY DEF NegInv, TypeInv
<1>2. TypeInv'
  BY DEF NegInv, TypeInv
<1>3. ASSUME NEW q \in Peers PROVE AudioOf(q)'
  BY <1>3 DEF NegInv, AudioOf
<1>4. ASSUME NEW q \in Peers PROVE VideoOf(q)'
  <2>1. CASE q = p
    BY <1>1, <2>1 DEF VideoOf
  <2>2. CASE q # p
    BY <1>1, <2>2 DEF NegInv, VideoOf
  <2> QED BY <2>1, <2>2
<1> QED BY <1>2, <1>3, <1>4 DEF NegInv

LEMMA StepMasterStreamSecure ==
  ASSUME NegInv, NEW p \in Peers, MasterStreamSecure(p)
  PROVE  NegInv'
<1> DEFINE s == audio[p].suite
           e == setMultiStrParams(video[p], getMultiStrParams(s))
<1>1. /\ \A q \in Peers : Negotiated(audio[q])
      /\ video[p].suite.hash = NULL
      /\ video' = [video EXCEPT ![p] = e]
      /\ config' = config /\ audio' = audio
  BY DEF MasterStreamSecure
<1>2. s \in Suites /\ video[p] \in Engines
  BY <1>1, OneSuite DEF NegInv, TypeInv
<1>3. /\ getByOrdinal(Hashes, getOrdinal(Hashes, s.hash)) = s.hash
      /\ getByOrdinal(AuthLengths, getOrdinal(AuthLengths, s.authLength)) = s.authLength
      /\ getByOrdinal(SymCiphers, getOrdinal(SymCiphers, s.cipher)) = s.cipher
  BY <1>2, OrdinalFound DEF Suites
<1>4. e = [video[p] EXCEPT !.suite.hash = s.hash, !.suite.authLength = s.authLength,
                           !.suite.cipher = s.cipher]
  BY <1>3 DEF setMultiStrParams, getMultiStrParams
<1>5. /\ e \in Engines /\ SameKeying(e.suite, s) /\ e.stage = video[p].stage
      /\ e.suite.pubKey = video[p].suite.pubKey /\ e.suite.sasType = video[p].suite.sasType
  <2> DEFINE t == [video[p].suite EXCEPT !.hash = s.hash, !.authLength = s.authLength,
                                         !.cipher = s.cipher]
  <2>1. video[p].suite \in MaybeSuites
    BY <1>2 DEF Engines
  <2>2. /\ s.hash \in Range(Hashes) /\ s.authLength \in Range(AuthLengths)
        /\ s.cipher \in Range(SymCiphers)
    BY <1>2 DEF Suites
  <2>3. /\ t \in MaybeSuites /\ SameKeying(t, s)
        /\ t.pubKey = video[p].suite.pubKey /\ t.sasType = video[p].suite.sasType
    BY <2>1, <2>2 DEF MaybeSuites, SameKeying
  <2>4. e = [video[p] EXCEPT !.suite = t]
    BY <1>2, <1>4, <2>1 DEF Engines, MaybeSuites
  <2> HIDE DEF t, e
  <2> QED BY <1>2, <2>3, <2>4 DEF Engines
<1> HIDE DEF e
<1>6. video[p].stage = "Start"
  BY <1>1 DEF NegInv, VideoOf
<1>7. video'[p] = e /\ \A q \in Peers \ {p} : video'[q] = video[q]
  BY <1>1 DEF NegInv, TypeInv
<1>8. TypeInv'
  BY <1>1, <1>5 DEF NegInv, TypeInv
<1>9. ASSUME NEW q \in Peers PROVE AudioOf(q)'
  BY <1>1, <1>9 DEF NegInv, AudioOf
<1>10. ASSUME NEW q \in Peers PROVE VideoOf(q)'
  <2>1. CASE q = p
    BY <1>1, <1>5, <1>6, <1>7, <2>1 DEF VideoOf
  <2>2. CASE q # p
    BY <1>1, <1>7, <2>2 DEF NegInv, VideoOf
  <2> QED BY <2>1, <2>2
<1> QED BY <1>8, <1>9, <1>10 DEF NegInv

LEMMA StepPrepareCommitMultiStream ==
  ASSUME NegInv, NEW p \in Peers, PrepareCommitMultiStream(p)
  PROVE  NegInv'
<1> DEFINE sas == FindBest(config[p].sasTypes, config[Other(p)].sasTypes, mandatorySasType)
           e == [video[p] EXCEPT !.stage = "Ready", !.suite.pubKey = "Mult",
                                 !.suite.sasType = sas]
<1>1. config[p] \in Configs /\ config[Other(p)] \in Configs /\ video[p] \in Engines
  BY OtherPeer DEF NegInv, TypeInv
<1>2. /\ video[p].suite.hash # NULL
      /\ video' = [video EXCEPT ![p] = e]
      /\ UNCHANGED <<config, audio>>
  BY <1>1, ConfigLists DEF PrepareCommitMultiStream
<1>3. sas \in Range(SasTypes) /\ sas # NULL
  <2>1. sas \in Range(config[Other(p)].sasTypes) \cup {mandatorySasType}
    BY <1>1, FindBestOffered, ConfigLists
  <2>2. sas \in Range(SasTypes)
    BY <1>1, <2>1, ListRange, ConfigLists, Ranges DEF mandatorySasType
  <2> QED BY <2>2, Ranges DEF NULL
<1> HIDE DEF sas
<1>4. "Mult" \in Range(PubKeys)
  BY Ranges
<1>5. /\ e \in Engines /\ e.stage = "Ready" /\ e.suite.pubKey = "Mult"
      /\ e.suite.sasType # NULL /\ SameKeying(e.suite, video[p].suite)
  BY <1>1, <1>3, <1>4 DEF Engines, MaybeSuites, SameKeying
<1> HIDE DEF e
<1>6. (\A q \in Peers : Negotiated(audio[q])) /\ SameKeying(video[p].suite, audio[p].suite)
  BY <1>2 DEF NegInv, VideoOf
<1>7. SameKeying(e.suite, audio[p].suite) /\ e.suite.hash # NULL
  BY <1>2, <1>5, <1>6 DEF SameKeying
<1> QED BY <1>2, <1>5, <1>6, <1>7, SlaveStep

LEMMA StepPrepareConfirm1MultiStream ==
  ASSUME NegInv, NEW p \in Peers, PrepareConfirm1MultiStream(p)
  PROVE  NegInv'
<1> DEFINE o == Other(p)
           s == video[o].suite
           e == [video[p] EXCEPT !.stage = "Responder", !.suite.hash = s.hash,
                                 !.suite.cipher = s.cipher, !.suite.authLength = s.authLength]
<1>1. /\ video[p].stage = "Ready" /\ video[o].stage = "Ready" /\ o \in Peers
      /\ video[p] \in Engines /\ video[o] \in Engines
  BY OtherPeer DEF PrepareConfirm1MultiStream, NegInv, TypeInv
<1>2. /\ \A q \in Peers : Negotiated(audio[q])
      /\ SameKeying(s, audio[o].suite)
      /\ s.pubKey = "Mult" /\ s.sasType # NULL /\ s.hash # NULL
      /\ video[p].suite.pubKey = "Mult" /\ video[p].suite.sasType # NULL
  BY <1>1 DEF NegInv, VideoOf
<1>3. SameKeying(s, audio[p].suite) /\ audio[p].suite \in Suites
  BY <1>2, OneSuite
<1>4. Implemented(s)
  BY <1>1, <1>2, <1>3, Ranges DEF Implemented, SameKeying, Suites, Engines, MaybeSuites
<1>5. /\ video' = [video EXCEPT ![p] = e]
      /\ UNCHANGED <<config, audio>>
  BY <1>2, <1>4 DEF PrepareConfirm1MultiStream
<1>6. /\ e \in Engines /\ e.stage = "Responder" /\ e.suite.pubKey = video[p].suite.pubKey
      /\ e.suite.sasType = video[p].suite.sasType /\ SameKeying(e.suite, s)
  BY <1>1 DEF Engines, MaybeSuites, SameKeying
<1> HIDE DEF e
<1>7. SameKeying(e.suite, audio[p].suite) /\ e.suite.hash # NULL
  BY <1>2, <1>3, <1>6 DEF SameKeying
<1> QED BY <1>2, <1>5, <1>6, <1>7, SlaveStep

LEMMA StepPrepareConfirm2MultiStream ==
  ASSUME NegInv, NEW p \in Peers, PrepareConfirm2MultiStream(p)
  PROVE  NegInv'
<1> DEFINE e == [video[p] EXCEPT !.stage = "Initiator"]
<1>1. /\ video[p].stage = "Ready" /\ video[p] \in Engines
      /\ video' = [video EXCEPT ![p] = e] /\ UNCHANGED <<config, audio>>
  BY DEF PrepareConfirm2MultiStream, NegInv, TypeInv
<1>2. e \in Engines /\ e.stage = "Initiator" /\ e.suite = video[p].suite
  BY <1>1 DEF Engines
<1> HIDE DEF e
<1>3. /\ video[p].suite.hash # NULL /\ video[p].suite.pubKey = "Mult"
      /\ video[p].suite.sasType # NULL
      /\ \A q \in Peers : Negotiated(audio[q])
      /\ SameKeying(video[p].suite, audio[p].suite)
  BY <1>1 DEF NegInv, VideoOf
<1> QED BY <1>1, <1>2, <1>3, SlaveStep

-----------------------------------------------------------------------------
(* The theorems. *)

\* Every step keeps the invariant.
LEMMA NegStep == NegInv /\ [Next]_vars => NegInv'
<1> SUFFICES ASSUME NegInv, [Next]_vars PROVE NegInv'
  OBVIOUS
<1>1. CASE UNCHANGED vars
  BY <1>1 DEF vars, NegInv, TypeInv, AudioOf, VideoOf, Negotiated
<1>2. CASE Next
  <2>1. PICK p \in Peers :
          \/ PrepareCommit(p) \/ PrepareDHPart1(p) \/ PrepareDHPart2(p)
          \/ MasterStreamSecure(p)
          \/ PrepareCommitMultiStream(p) \/ PrepareConfirm1MultiStream(p)
          \/ PrepareConfirm2MultiStream(p)
    BY <1>2 DEF Next
  <2> QED BY <2>1, StepPrepareCommit, StepPrepareDHPart1, StepPrepareDHPart2,
             StepMasterStreamSecure, StepPrepareCommitMultiStream,
             StepPrepareConfirm1MultiStream, StepPrepareConfirm2MultiStream
<1> QED BY <1>1, <1>2

THEOREM NegInvAlways == Spec => []NegInv
BY NegInit, NegStep, PTL DEF Spec

\* Whatever the two ends' configurations, as long as each offers S384 with EC38,
\* no negotiation of a call is refused (ZRtp.cpp:271-420, 471-571, 811-873).
THEOREM NoFailureCorrect == Spec => []NoFailure
<1>1. NegInv => NoFailure
  BY DEF NegInv, AudioOf, VideoOf, NoFailure
<1> QED BY <1>1, NegInvAlways, PTL

\* The key pairs both ends prepare are always of one kind (ZRtp.cpp:1420-1501).
THEOREM PubKeyAgreedCorrect == Spec => []PubKeyAgreed
<1>1. ASSUME NegInv PROVE PubKeyAgreed
  <2> SUFFICES ASSUME NEW p \in Peers, audio[p].dhType # NULL, audio[Other(p)].dhType # NULL
               PROVE  audio[p].dhType = audio[Other(p)].dhType
    BY DEF PubKeyAgreed
  <2> DEFINE a == config[p].publicKeyAlgos
             b == config[Other(p)].publicKeyAlgos
  <2>1. audio[p].dhType = findBestPubkey(a, b) /\ audio[Other(p)].dhType = findBestPubkey(b, a)
    BY <1>1, OtherPeer DEF NegInv, AudioOf, Consistent
  <2>2. a \in Lists(PubKeys) /\ b \in Lists(PubKeys)
    BY <1>1, OtherPeer, ConfigLists DEF NegInv, TypeInv
  <2> QED BY <2>1, <2>2, PubkeySymmetric
<1> QED BY <1>1, NegInvAlways, PTL

\* Both ends end up with one suite, and with key pair and secret ids of that
\* suite (ZRtp.cpp:508-571).
THEOREM SuiteAgreedCorrect == Spec => []SuiteAgreed
<1>1. NegInv => SuiteAgreed
  BY OneSuite, OtherPeer DEF NegInv, AudioOf, Consistent, Negotiated, SuiteAgreed
<1> QED BY <1>1, NegInvAlways, PTL

\* A Responder never ends up with what it did not offer (ZRtp.cpp:510-563).
THEOREM ResponderOfferedCorrect == Spec => []ResponderOffered
<1>1. NegInv => ResponderOffered
  BY DEF NegInv, AudioOf, ResponderOffered
<1> QED BY <1>1, NegInvAlways, PTL

\* The slaves use their masters' algorithms (ZRtp.cpp:2418-2456).
THEOREM SlaveLikeMasterCorrect == Spec => []SlaveLikeMaster
<1>1. NegInv => SlaveLikeMaster
  BY DEF NegInv, VideoOf, SameKeying, SlaveLikeMaster
<1> QED BY <1>1, NegInvAlways, PTL

=============================================================================
