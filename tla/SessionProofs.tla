---------------------------- MODULE SessionProofs ----------------------------
(***************************************************************************)
(* Proofs about the start of the slave stream (ZrtpSession.tla), for any   *)
(* number of calls.                                                        *)
(***************************************************************************)
EXTENDS ZrtpSession, TLAPS

(* Before init and after release no thread is in the session, and the Master  *)
(* is not about to become secure.                                             *)
OutOfCall ==
  IF live THEN call # 0
  ELSE ~audio.started /\ audio.state # "going" /\ \A t \in Threads : thread[t].pc = "idle"

(* What a thread knows at each place of the start: there are parameters, its  *)
(* copy is of them, the engine has them.                                      *)
Knows(t) ==
  /\ thread[t].pc = "copy" => param # 0
  /\ t = "audio" /\ thread[t].pc = "test" => param # 0
  /\ thread[t].pc = "set" => thread[t].copy # 0
  /\ thread[t].pc \in {"engine", "mark"} => slave.key # 0

Inv == TypeOK /\ OutOfCall /\ (\A t \in Threads : Knows(t)) /\ SlaveIsKeyed

(* A thread that is in no call of the session.                                *)
Places ==
  [pc : {"idle", "secure", "test", "enable", "copy", "set", "engine", "mark"}, copy : Calls]

LEMMA IdleType == Idle \in Places /\ Idle.pc = "idle" /\ 0 \in Calls
  BY CallsAssumption DEF Idle, Places, Calls

LEMMA Initially == Init => Inv
<1> SUFFICES ASSUME Init PROVE Inv
  OBVIOUS
<1>1. TypeOK
  <2>1. thread \in [Threads -> Places]
    BY IdleType DEF Init
  <2> QED
    BY <2>1, IdleType DEF TypeOK, Init, NewMaster, NewSlave, Places
<1>2. \A t \in Threads : thread[t].pc = "idle"
  BY IdleType DEF Init
<1>3. OutOfCall
  BY <1>2 DEF OutOfCall, Init, NewMaster
<1>4. \A t \in Threads : Knows(t)
  BY <1>2 DEF Knows, Init
<1> QED
  BY <1>1, <1>3, <1>4 DEF Inv, SlaveIsKeyed, Init, NewSlave

(* The SIP thread's steps.                                                    *)
LEMMA CallSteps == Inv /\ (InitSession \/ ParseSdes \/ Stop \/ Release) => Inv'
<1> SUFFICES ASSUME Inv, InitSession \/ ParseSdes \/ Stop \/ Release PROVE Inv'
  OBVIOUS
<1> USE CallsAssumption DEF Inv, TypeOK, OutOfCall, Knows, SlaveIsKeyed, Calls, Threads, Idle
<1>1. CASE InitSession
  BY <1>1 DEF InitSession, NewSlave
<1>2. CASE ParseSdes
  BY <1>2 DEF ParseSdes
<1>3. CASE Stop
  BY <1>3 DEF Stop
<1>4. CASE Release
  <2>1. TypeOK'
    BY <1>4, IdleType DEF Release, NewMaster, NewSlave
  <2>2. \A t \in Threads : thread[t].pc = "idle"
    BY <1>4 DEF Release
  <2>3. OutOfCall' /\ SlaveIsKeyed'
    BY <1>4, <2>2 DEF Release, NewMaster, NewSlave
  <2>4. \A t \in Threads : Knows(t)'
    BY <1>4, <2>2 DEF Release
  <2> QED
    BY <2>1, <2>3, <2>4
<1> QED
  BY <1>1, <1>2, <1>3, <1>4

(* The start of the slave's engine, on either thread.                         *)
LEMMA StartSteps == ASSUME NEW t \in Threads PROVE Inv /\ StartSlave(t) => Inv'
<1> SUFFICES ASSUME Inv, StartSlave(t) PROVE Inv'
  OBVIOUS
<1> USE CallsAssumption
    DEF Inv, TypeOK, OutOfCall, Knows, SlaveIsKeyed, Calls, Threads, Idle, StartSlave, At, Goto, Leave
<1>1. CASE CopyParam(t)
  BY <1>1 DEF CopyParam
<1>2. CASE SetMultiStrParams(t)
  BY <1>2 DEF SetMultiStrParams
<1>3. CASE StartZrtpEngine(t)
  <2>1. TypeOK'
    BY <1>3 DEF StartZrtpEngine
  <2>2. OutOfCall' /\ (\A u \in Threads : Knows(u))' /\ SlaveIsKeyed'
    BY <1>3 DEF StartZrtpEngine
  <2> QED
    BY <2>1, <2>2
<1>4. CASE MarkStarted(t)
  <2>1. thread' \in [Threads -> Places]
    BY <1>4, IdleType DEF MarkStarted, Places
  <2>2. TypeOK'
    BY <1>4, <2>1 DEF MarkStarted, Places
  <2>3. OutOfCall' /\ (\A u \in Threads : Knows(u))' /\ SlaveIsKeyed'
    BY <1>4 DEF MarkStarted
  <2> QED
    BY <2>2, <2>3
<1> QED
  BY <1>1, <1>2, <1>3, <1>4

LEMMA AudioSteps == Inv /\ AudioThread => Inv'
<1> SUFFICES ASSUME Inv, AudioThread PROVE Inv'
  OBVIOUS
<1>1. CASE StartSlave("audio")
  BY <1>1, StartSteps DEF Threads
<1> USE CallsAssumption
    DEF Inv, TypeOK, OutOfCall, Knows, SlaveIsKeyed, Calls, Threads, Idle, At, Goto, Leave
<1>2. CASE StartMaster
  BY <1>2 DEF StartMaster
<1>3. CASE GoSecure
  BY <1>3 DEF GoSecure
<1>4. CASE NotSupported
  BY <1>4 DEF NotSupported
<1>5. CASE SrtpSecretsOn
  BY <1>5 DEF SrtpSecretsOn
<1>6. CASE GetMultiStrParams
  BY <1>6 DEF GetMultiStrParams
<1>7. CASE TestEnable
  BY <1>7 DEF TestEnable
<1> QED
  BY <1>1, <1>2, <1>3, <1>4, <1>5, <1>6, <1>7 DEF AudioThread

LEMMA VideoSteps == Inv /\ VideoThread => Inv'
<1> SUFFICES ASSUME Inv, VideoThread PROVE Inv'
  OBVIOUS
<1>1. CASE StartSlave("video")
  BY <1>1, StartSteps DEF Threads
<1> USE CallsAssumption
    DEF Inv, TypeOK, OutOfCall, Knows, SlaveIsKeyed, Calls, Threads, Idle, At, Goto, Leave
<1>2. CASE StartIfNotStarted
  BY <1>2 DEF StartIfNotStarted
<1>3. CASE Enable
  BY <1>3 DEF Enable
<1>4. CASE TestParam
  BY <1>4 DEF TestParam
<1> QED
  BY <1>1, <1>2, <1>3, <1>4 DEF VideoThread

LEMMA MissStep == Inv /\ BothMiss => Inv'
<1> SUFFICES ASSUME Inv, BothMiss PROVE Inv'
  OBVIOUS
<1> DEFINE old == thread["audio"].copy
<1>1. old \in Calls /\ live
  BY DEF Inv, TypeOK, OutOfCall, BothMiss, At, Threads
<1>2. thread' = [t \in Threads |->
                  IF t = "video" /\ old # 0 THEN [pc |-> "set", copy |-> old] ELSE Idle]
  BY DEF BothMiss
<1> HIDE DEF old
<1>3. thread' \in [Threads -> Places]
  BY <1>1, <1>2, IdleType DEF Places
<1>4. TypeOK'
  BY <1>3 DEF Inv, TypeOK, BothMiss, Places
<1>5. \A t \in Threads : Knows(t)'
  BY <1>1, <1>2, IdleType DEF Knows
<1> QED
  BY <1>1, <1>4, <1>5 DEF Inv, OutOfCall, SlaveIsKeyed, BothMiss

LEMMA Unchanged == Inv /\ UNCHANGED vars => Inv'
  BY DEF Inv, TypeOK, OutOfCall, Knows, SlaveIsKeyed, vars

LEMMA Invariant == Spec => []Inv
<1>1. Inv /\ [Next]_vars => Inv'
  BY CallSteps, AudioSteps, VideoSteps, MissStep, Unchanged DEF Next
<1> QED
  BY Initially, <1>1, PTL DEF Spec

(* Whichever thread starts the slave's engine, in whatever order the two test *)
(* each other's fields (CtZrtpSession.cpp:208-261), it has the parameters of a *)
(* Master by then.                                                            *)
THEOREM SlaveIsKeyedCorrect == Spec => []SlaveIsKeyed
<1>1. Inv => SlaveIsKeyed
  BY DEF Inv
<1> QED
  BY Invariant, <1>1, PTL

(* The variables stay in their types.                                         *)
THEOREM SessionTypeCorrect == Spec => []TypeOK
<1>1. Inv => TypeOK
  BY DEF Inv
<1> QED
  BY Invariant, <1>1, PTL
=============================================================================
