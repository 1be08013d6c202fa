---------------------------- MODULE ZrtpSession -----------------------------
(***************************************************************************)
(* The start of the video stream in a ZRTP session of the client           *)
(* (CtZrtpSession.cpp).  The audio stream, the Master, negotiates a key;   *)
(* the video stream, the Slave, derives its key from the Master's and has  *)
(* to wait for it.                                                         *)
(*                                                                         *)
(* Two threads start the Slave: the one that receives video (startIfNot-   *)
(* Started and start, for every packet) and the one that receives audio    *)
(* (masterStreamSecure, once).  They test each other's fields without a    *)
(* lock, so every access is a step, and when both store and then test,     *)
(* neither need see what the other has stored (BothMiss).                  *)
(*                                                                         *)
(* A session object is used for one call after the other (initMediaIDS).   *)
(***************************************************************************)
EXTENDS Naturals

CONSTANT MaxCalls   \* bound: calls the session object is used for

ASSUME CallsAssumption == MaxCalls \in Nat \ {0}

Calls == 0..MaxCalls    \* 0: no call, and no parameters

VARIABLES
  call,     \* the current call
  live,     \* the streams are initialised
  stopped,  \* isStopped of both streams
  sdes,     \* the audio stream has a negotiated SDES context
  audio,    \* [started, state]: the Master
  slave,    \* [enable, started, engine, key]: the Slave and its engine
  param,    \* multiStreamParameter: the call it comes from
  thread    \* ["audio", "video" -> [pc, copy]]

vars == <<call, live, stopped, sdes, audio, slave, param, thread>>

Threads == {"audio", "video"}
Idle == [pc |-> "idle", copy |-> 0]
NewMaster == [started |-> FALSE, state |-> "looking"]
NewSlave(engine) == [enable |-> FALSE, started |-> FALSE, engine |-> engine, key |-> 0]

Init ==
  /\ call = 0 /\ live = FALSE /\ stopped = FALSE /\ sdes = FALSE
  /\ audio = NewMaster
  /\ slave = NewSlave("none")
  /\ param = 0
  /\ thread = [t \in Threads |-> Idle]

-----------------------------------------------------------------------------
(* The SIP thread: a call begins and ends.                                  *)

(* init, for a session object that is not in use.                            *)
InitSession ==
  /\ ~live /\ call < MaxCalls
  /\ call' = call + 1 /\ live' = TRUE
  /\ slave' = NewSlave("initial")
  /\ UNCHANGED <<stopped, sdes, audio, param, thread>>

(* parseSdes: the SDP of the peer sets up SDES, unless the stream is secure.  *)
ParseSdes ==
  /\ live /\ ~stopped /\ ~sdes /\ audio.state # "secure"
  /\ sdes' = TRUE
  /\ audio' = [audio EXCEPT !.state = "sdes"]
  /\ UNCHANGED <<call, live, stopped, slave, param, thread>>

(* stop, when the session of the call ends.                                  *)
Stop ==
  /\ live /\ ~stopped
  /\ stopped' = TRUE
  /\ UNCHANGED <<call, live, sdes, audio, slave, param, thread>>

(* release and stopStream, a second after stop, when the media's threads have *)
(* left the session.  multiStreamParameter stays.                             *)
Release ==
  /\ stopped /\ \A t \in Threads : thread[t] = Idle
  /\ live' = FALSE /\ stopped' = FALSE /\ sdes' = FALSE
  /\ audio' = NewMaster
  /\ slave' = NewSlave("none")
  /\ UNCHANGED <<call, param, thread>>

-----------------------------------------------------------------------------
(* Both threads start the Slave by the same calls.                           *)

At(t, pc) == thread[t].pc = pc
Goto(t, pc) == thread' = [thread EXCEPT ![t].pc = pc]
Leave(t) == thread' = [thread EXCEPT ![t] = Idle]

(* setMultiStrParams takes a copy of the string ...                          *)
CopyParam(t) ==
  /\ At(t, "copy")
  /\ thread' = [thread EXCEPT ![t] = [pc |-> "set", copy |-> param]]
  /\ UNCHANGED slave

(* ... and sets the engine up with it.                                       *)
SetMultiStrParams(t) ==
  /\ At(t, "set") /\ Goto(t, "engine")
  /\ slave' = [slave EXCEPT !.key = thread[t].copy]

(* startZrtpEngine does nothing for an engine that has left Initial.         *)
StartZrtpEngine(t) ==
  /\ At(t, "engine") /\ Goto(t, "mark")
  /\ slave' = [slave EXCEPT !.engine = IF @ = "initial" THEN "running" ELSE @]

MarkStarted(t) ==
  /\ At(t, "mark") /\ Leave(t)
  /\ slave' = [slave EXCEPT !.started = TRUE]

StartSlave(t) ==
  /\ \/ CopyParam(t) \/ SetMultiStrParams(t) \/ StartZrtpEngine(t) \/ MarkStarted(t)
  /\ UNCHANGED <<call, live, stopped, sdes, audio, param>>

-----------------------------------------------------------------------------
(* The audio thread.                                                         *)

(* startIfNotStarted and start of the Master.                                *)
StartMaster ==
  /\ live /\ At("audio", "idle") /\ ~audio.started
  /\ audio' = [started |-> TRUE, state |-> "looking"]
  /\ UNCHANGED <<call, live, stopped, sdes, slave, param, thread>>

(* sendInfo(InfoRespCommitReceived), sendInfo(InfoInitDH1Received).            *)
GoSecure ==
  /\ audio.started /\ ~stopped /\ At("audio", "idle")
  /\ audio.state \in {"looking", "sdes"}
  /\ audio' = [audio EXCEPT !.state = "going"]
  /\ UNCHANGED <<call, live, stopped, sdes, slave, param, thread>>

(* zrtpNotSuppOther: Hello has been repeated in vain; SDES is left.           *)
NotSupported ==
  /\ audio.started /\ sdes /\ audio.state = "looking"
  /\ audio' = [audio EXCEPT !.state = "sdes"]
  /\ UNCHANGED <<call, live, stopped, sdes, slave, param, thread>>

(* srtpSecretsOn; the engine enters SecureState and reports it.               *)
SrtpSecretsOn ==
  /\ audio.state = "going" /\ ~stopped /\ At("audio", "idle")
  /\ audio' = [audio EXCEPT !.state = "secure"]
  /\ Goto("audio", "secure")
  /\ UNCHANGED <<call, live, stopped, sdes, slave, param>>

(* masterStreamSecure stores the parameters (its copy keeps the old ones, as   *)
(* the video thread may still see them) ...                                  *)
GetMultiStrParams ==
  /\ At("audio", "secure")
  /\ thread' = [thread EXCEPT !["audio"] = [pc |-> "test", copy |-> param]]
  /\ param' = call
  /\ UNCHANGED <<call, live, stopped, sdes, audio, slave>>

\* Mutant: the Slave is started whatever the video thread has said.
TestEnableAlways ==
  /\ At("audio", "test") /\ Goto("audio", "engine")
  /\ UNCHANGED <<call, live, stopped, sdes, audio, slave, param>>

(* ... and starts the Slave if its thread has enabled it.                     *)
TestEnable ==
  /\ At("audio", "test")
  /\ IF slave.enable THEN Goto("audio", "copy") ELSE Leave("audio")
  /\ UNCHANGED <<call, live, stopped, sdes, audio, slave, param>>

-----------------------------------------------------------------------------
(* The video thread.                                                         *)

AudioIsSecure == audio.state \in {"secure", "sdes"}

\* Mutant: a Slave that was enabled is left to the audio thread.
StartIfNotEnabled ==
  /\ live /\ At("video", "idle") /\ ~slave.enable /\ AudioIsSecure
  /\ Goto("video", "enable")
  /\ UNCHANGED <<call, live, stopped, sdes, audio, slave, param>>

(* startIfNotStarted, for a packet.                                          *)
StartIfNotStarted ==
  /\ live /\ At("video", "idle") /\ ~slave.started /\ AudioIsSecure
  /\ Goto("video", "enable")
  /\ UNCHANGED <<call, live, stopped, sdes, audio, slave, param>>

(* start enables the Slave ...                                               *)
Enable ==
  /\ At("video", "enable") /\ Goto("video", "test")
  /\ slave' = [slave EXCEPT !.enable = TRUE]
  /\ UNCHANGED <<call, live, stopped, sdes, audio, param>>

(* ... and starts it if there are parameters.                                *)
TestParam ==
  /\ At("video", "test")
  /\ IF param # 0 THEN Goto("video", "copy") ELSE Leave("video")
  /\ UNCHANGED <<call, live, stopped, sdes, audio, slave, param>>

(* Each thread tests before the store of the other reaches it: the video      *)
(* thread finds the parameters of an earlier call, or none.                   *)
BothMiss ==
  LET old == thread["audio"].copy IN
  /\ At("audio", "test") /\ At("video", "test")
  /\ thread' = [t \in Threads |->
                  IF t = "video" /\ old # 0 THEN [pc |-> "set", copy |-> old] ELSE Idle]
  /\ UNCHANGED <<call, live, stopped, sdes, audio, slave, param>>

-----------------------------------------------------------------------------
AudioThread ==
  StartMaster \/ GoSecure \/ NotSupported \/ SrtpSecretsOn
    \/ GetMultiStrParams \/ TestEnable \/ StartSlave("audio")

VideoThread == StartIfNotStarted \/ Enable \/ TestParam \/ StartSlave("video")

Next ==
  \/ InitSession \/ ParseSdes \/ Stop \/ Release
  \/ AudioThread \/ VideoThread \/ BothMiss

Spec == Init /\ [][Next]_vars

(* Video packets keep coming while the call lasts, and a thread goes on with  *)
(* what it has begun.                                                        *)
FairSpec ==
  /\ Spec
  /\ WF_vars(VideoThread)
  /\ WF_vars(GetMultiStrParams \/ TestEnable \/ StartSlave("audio"))

-----------------------------------------------------------------------------
(* Properties.                                                               *)

(* The variables stay in their types.                                        *)
TypeOK ==
  /\ call \in Calls /\ param \in Calls
  /\ live \in BOOLEAN /\ stopped \in BOOLEAN /\ sdes \in BOOLEAN
  /\ audio \in [started : BOOLEAN, state : {"looking", "sdes", "going", "secure"}]
  /\ slave \in [enable : BOOLEAN, started : BOOLEAN,
                engine : {"none", "initial", "running"}, key : Calls]
  /\ thread \in [Threads -> [pc : {"idle", "secure", "test", "enable", "copy", "set",
                                   "engine", "mark"}, copy : Calls]]

(* The Slave's engine never runs before it has multi-stream parameters,       *)
(* whoever starts it: without them it would negotiate a key of its own        *)
(* ("the functions then gets the multi-stream data from the master stream",   *)
(* start).                                                                    *)
SlaveIsKeyed == slave.engine = "running" => slave.key # 0

(* Whoever comes first, once the Master is secure the Slave is started, with  *)
(* the first video packets, unless the call ends.                             *)
SlaveStarts ==
  (live /\ audio.state = "secure") ~> (slave.started \/ stopped)
=============================================================================
