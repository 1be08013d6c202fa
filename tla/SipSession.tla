----------------------------- MODULE SipSession -----------------------------
(***************************************************************************)
(* One call of the SIP engine of silentphone (tiviengine/CSessions.cpp,    *)
(* CSessions.h, CMakeSipSdp.cpp, CPhone.cpp) between two phones that run   *)
(* it and send each other datagrams: lost, duplicated and reordered.       *)
(*                                                                         *)
(* A phone keeps the call in a CSesBase.  Three threads work on it, each   *)
(* under cMutexSip: the user interface (call, answerCall, endCall,         *)
(* reInvite), the receive thread (recMsg) and the timer thread             *)
(* (handleSessions, onTimer).  What a thread does under the lock is one    *)
(* step here.                                                              *)
(*                                                                         *)
(* The two phones are named by their part in the call.  Everything is      *)
(* about one Call-ID; other calls show only in Busy.                       *)
(***************************************************************************)
EXTENDS Integers, FiniteSets

CONSTANTS
  RetrInvite,   \* setRetransmit(7, ...) of an INVITE
  RetrRequest,  \* setRetransmit() of other messages
  RetrError,    \* setRetransmit(3) of a final error response
  Busy,         \* subset of {"slots", "gsm"}: why the callee may refuse
  Prompt,       \* a datagram arrives or is lost before retransmission ends
  MaxFlight,    \* bound: datagrams in flight after a user or a timer sent one
  Roaming,      \* a phone may change its network during the call
  MaxFault,     \* bound: datagrams lost or delivered twice
  MaxIncoming,  \* bound: sessions the callee creates for this Call-ID
  MaxReinvite   \* bound: re-INVITEs of the users and after such a change

ASSUME RetrAssumption ==
  RetrInvite \in Nat \ {0} /\ RetrRequest \in Nat \ {0} /\ RetrError \in Nat \ {0}
ASSUME SettingAssumption ==
  Busy \subseteq {"slots", "gsm"} /\ Prompt \in BOOLEAN /\ Roaming \in BOOLEAN
ASSUME BoundAssumption ==
  /\ MaxFlight \in Nat \ {0}
  /\ MaxFault \in Nat /\ MaxIncoming \in Nat /\ MaxReinvite \in Nat

Side == {"caller", "callee"}
Other(x) == IF x = "caller" THEN "callee" ELSE "caller"

Methods == {"INVITE", "ACK", "CANCEL", "BYE"}
Codes == {0, 180, 200, 480, 481, 486, 487, 491, 603}   \* 0: a request
(* tag is the callee's tag: it names the callee's session, 0 is none.         *)
Msg == [to : Side, meth : Methods, code : Codes, tag : 0..MaxIncoming]

Session ==
  [st     : {"clear", "init", "ok", "ending", "error"},   \* cs.iCallStat
   sub    : BOOLEAN,                    \* iCallSubStat = EWaitUserAnswer
   sendS  : Methods \cup {"none"},      \* cs.iSendS
   waitS  : {"none", "200", "ACK"},     \* cs.iWaitS
   retr   : -1..(RetrInvite + RetrRequest + RetrError),   \* iRetransmitions
   armed  : BOOLEAN,                    \* uiNextRetransmit > 0
   buf    : SUBSET Msg,                 \* sSendTo.data
   killed : BOOLEAN,                    \* iKillCalled
   clear  : BOOLEAN,                    \* uiClearMemAt > 0
   told   : BOOLEAN,                    \* iOnEndCalled
   tag    : 0..MaxIncoming,             \* the callee's tag, where known
   media  : BOOLEAN,                    \* mBase
   tick   : BOOLEAN,                    \* uiSend480AfterTicks > 0
   reinv  : BOOLEAN]                    \* iSendingReinvite

(* CSesBase::clear; a slot in this state is free (iBusy = 0).                 *)
Free == [st |-> "clear", sub |-> FALSE, sendS |-> "none", waitS |-> "none",
         retr |-> 0, armed |-> FALSE, buf |-> {}, killed |-> FALSE,
         clear |-> FALSE, told |-> FALSE, tag |-> 0, media |-> FALSE,
         tick |-> FALSE, reinv |-> FALSE]

VARIABLES
  ses,        \* [Side -> Session]
  app,        \* [Side -> the last callback of the user interface]
  answered,   \* the callee's user has answered
  net,        \* the datagrams in flight
  tags,       \* sessions the callee has created
  faults,     \* datagrams lost or duplicated
  reinvites   \* re-INVITEs sent

vars == <<ses, app, answered, net, tags, faults, reinvites>>

Init ==
  /\ ses = [x \in Side |-> Free]
  /\ app = [x \in Side |-> "none"]
  /\ answered = FALSE
  /\ net = {}
  /\ tags = 0
  /\ faults = 0
  /\ reinvites = 0

-----------------------------------------------------------------------------
(* Operations on one session.                                               *)

StopRetransmit(s) == [s EXCEPT !.retr = 0, !.armed = FALSE]
SetRetransmit(s, n) == [s EXCEPT !.retr = n, !.armed = FALSE]

(* Only the sign of iRetransmitions below zero matters: it stays at -1.       *)
UpdateRetransmit(s) ==
  [s EXCEPT !.armed = TRUE, !.retr = IF @ > -1 THEN @ - 1 ELSE -1]

(* sendSip: a session that waits for nothing, or was killed, does not repeat. *)
SendSip(s) ==
  LET t == IF s.waitS = "none" \/ s.killed
           THEN [StopRetransmit(s) EXCEPT !.sendS = "none"] ELSE s
  IN IF t.waitS = "none" THEN t ELSE UpdateRetransmit(t)

Request(x, id, tag) == [to |-> Other(x), meth |-> id, code |-> 0, tag |-> tag]

\* Mutant: only an INVITE waits for its answer.
MakeReqUnwatched(x, s, id, tag) ==
  LET n == [s EXCEPT
              !.sendS = id, !.waitS = IF id = "INVITE" THEN "200" ELSE "none",
              !.buf = {Request(x, id, IF id = "CANCEL" THEN 0 ELSE tag)}]
  IN SendSip(SetRetransmit(n, RetrRequest))

(* makeReq and sendSip.  A CANCEL carries no To tag.                          *)
MakeReq(x, s, id, tag) ==
  LET n == [s EXCEPT
              !.sendS = id, !.waitS = IF id = "ACK" THEN "none" ELSE "200",
              !.buf = {Request(x, id, IF id = "CANCEL" THEN 0 ELSE tag)}]
  IN SendSip(IF id = "ACK" \/ s.sendS = id THEN n
             ELSE SetRetransmit(n, IF id = "INVITE" THEN RetrInvite ELSE RetrRequest))

(* makeResp and sendSip of a session.                                         *)
MakeResp(x, s, meth, code, tag) ==
  LET n == [s EXCEPT !.buf = {[to |-> Other(x), meth |-> meth, code |-> code, tag |-> tag]}]
  IN SendSip(IF s.waitS = "ACK" /\ s.st = "error" /\ s.retr <= 0
             THEN SetRetransmit(n, RetrError) ELSE n)

(* sendResp: an answer without a session copies the tags of the request.      *)
SendResp(m, code) ==
  {[to |-> Other(m.to), meth |-> m.meth, code |-> code, tag |-> m.tag]}

(* send200Sdp for an INVITE.                                                  *)
Send200Sdp(x, s, tag) ==
  MakeResp(x, UpdateRetransmit(SetRetransmit(
                [s EXCEPT !.sendS = "none", !.waitS = "ACK"], RetrRequest)),
           "INVITE", 200, tag)

(* onKillSes and destroy: the first call ends the session and leaves its      *)
(* memory for a second, the next one frees it.                                *)
KillSes(s) ==
  IF s.killed THEN Free
  ELSE [s EXCEPT !.killed = TRUE, !.media = FALSE, !.told = TRUE, !.st = "ending",
                 !.sendS = "none", !.waitS = "none", !.clear = TRUE]

\* Mutant: the end of a call that still rings is not reported.
ToldEndAnswered(s, a) == IF s.killed \/ s.told \/ s.sub THEN a ELSE "ended"

(* onEndCall, once per session.                                               *)
ToldEnd(s, a) == IF s.killed \/ s.told THEN a ELSE "ended"

(* getNewSes and setMBase.                                                    *)
NewSes == [Free EXCEPT !.st = "init", !.media = TRUE]

-----------------------------------------------------------------------------
(* A step changes one session and what its user interface was told, takes    *)
(* datagrams from the network (or leaves a duplicate of them) and sends       *)
(* others, of which some are lost.                                            *)

Set(x, s, a) == ses' = [ses EXCEPT ![x] = s] /\ app' = [app EXCEPT ![x] = a]

Exchange(taken, out) ==
  \E lost \in SUBSET out, again \in SUBSET taken :
    /\ faults' = faults + Cardinality(lost) + Cardinality(again)
    /\ faults' <= MaxFault
    /\ net' = (net \ (taken \ again)) \cup (out \ lost)

(* Room for a datagram of a user or a timer; an answer is never held back.    *)
Room == Cardinality(net) < MaxFlight

-----------------------------------------------------------------------------
(* The receive thread: recMsg.                                               *)

IsReq(m) == m.code = 0
HasToTag(m) == m.to = "caller" \/ m.tag > 0

(* findSes: by the Call-ID alone for an INVITE or a CANCEL without a To tag.  *)
Found(m) ==
  /\ ses[m.to].st # "clear"
  /\ \/ IsReq(m) /\ m.meth \in {"INVITE", "CANCEL"} /\ ~HasToTag(m)
     \/ m.to = "caller"
     \/ m.tag = ses[m.to].tag

Kill(x, s, m, out) == Set(x, KillSes(s), ToldEnd(s, app[x])) /\ Exchange({m}, out)

(* A final error: acknowledged (481 is not), and the end of the call if it    *)
(* answers an INVITE.                                                         *)
RecError(x, m) ==
  LET s == ses[x]
      t == IF m.code = 481 THEN s ELSE MakeReq(x, s, "ACK", m.tag)
      out == IF m.code = 481 THEN {} ELSE t.buf
  IN /\ m.code > 299 /\ m.code # 491
     /\ IF m.meth = "INVITE" THEN Kill(x, t, m, out)
        ELSE Set(x, t, app[x]) /\ Exchange({m}, out)

(* The first test: an INVITE that meets our own, before the call is set up.   *)
OwnInvite(s) == s.st = "init" /\ s.sendS = "INVITE"

(* The later test: a re-INVITE of the callee's own is in progress.            *)
OwnReinvite(x, s) == x = "callee" /\ s.reinv

RecInvitePending(x, m) ==
  LET s == ses[x] IN
  /\ IsReq(m) /\ m.meth = "INVITE"
  /\ OwnInvite(s) \/ (s.st # "ending" /\ OwnReinvite(x, s))
  /\ Set(x, s, app[x]) /\ Exchange({m}, SendResp(m, 491))

(* The call is over here: an INVITE is declined, an answer to ours gets a BYE *)
(* made from what the session knows of the other side.                        *)
RecInEnding(x, m) ==
  LET s == ses[x]
      t == MakeReq(x, s, "BYE", s.tag)
  IN /\ s.st = "ending" /\ m.meth = "INVITE" /\ (m.code < 300 \/ m.code = 491)
     /\ IF IsReq(m)
        THEN Set(x, s, app[x]) /\ Exchange({m}, SendResp(m, 603))
        ELSE Set(x, t, app[x]) /\ Exchange({m}, t.buf)

RecAck(x, m) ==
  LET s == ses[x] IN
  /\ m.meth = "ACK"
  /\ IF s.waitS # "ACK" THEN Set(x, s, app[x]) /\ Exchange({m}, {})
     ELSE IF s.st = "error" THEN Kill(x, s, m, {})
     ELSE Set(x, [StopRetransmit(s) EXCEPT !.sendS = "none", !.waitS = "none"], app[x])
          /\ Exchange({m}, {})

(* BYE and CANCEL, requests and answers alike, end the call.  A CANCEL is     *)
(* answered for itself and, with 487, for the INVITE.                         *)
RecByeCancel(x, m) ==
  LET s == StopRetransmit(ses[x])
      t == MakeResp(x, s, "INVITE", 487, s.tag)
  IN /\ m.meth \in {"BYE", "CANCEL"} /\ (IsReq(m) \/ m.code = 200)
     /\ IF ~IsReq(m) THEN Kill(x, ses[x], m, {})
        ELSE IF m.meth = "BYE" THEN Kill(x, s, m, SendResp(m, 200))
        ELSE Kill(x, t, m, SendResp(m, 200) \cup t.buf)

(* The INVITE of a session: answered again if the call stands, else it rings. *)
Stored(x, s, m) == [s EXCEPT !.reinv = FALSE,
                             !.tag = IF x = "caller" /\ (IsReq(m) \/ @ = 0)
                                     THEN m.tag ELSE @]

Invited(x, s0, m) ==
  LET s == Stored(x, s0, m)
      idle == StopRetransmit([s EXCEPT !.sendS = "none", !.waitS = "none"])
      ring == MakeResp(x, idle, "INVITE", 180, s.tag)
  IN IF s.st = "ok" THEN Send200Sdp(x, s, s.tag)
     ELSE IF s.sub THEN ring ELSE [ring EXCEPT !.sub = TRUE, !.tick = TRUE]

(* notifyIncomingCall does nothing here: the caller's user interface is never  *)
(* told of one, the callee's was when the session was made.                   *)
RecInvite(x, m) ==
  LET t == Invited(x, ses[x], m) IN
  /\ IsReq(m) /\ m.meth = "INVITE" /\ ses[x].st # "ending"
  /\ ~OwnInvite(ses[x]) /\ ~OwnReinvite(x, ses[x])
  /\ Set(x, t, app[x]) /\ Exchange({m}, t.buf)

\* Mutant: a 200 sets up a call that is on its way out.
RecOkAnyState(x, m) ==
  LET s == StopRetransmit(Stored(x, ses[x], m))
      t == MakeReq(x, s, "ACK", m.tag)
  IN /\ m.code = 200 /\ m.meth = "INVITE"
     /\ Set(x, [t EXCEPT !.st = "ok"], IF s.st = "ok" THEN app[x] ELSE "talking")
     /\ Exchange({m}, t.buf)

(* 200: acknowledge it; the call starts unless it already stands.             *)
RecOk(x, m) ==
  LET s == StopRetransmit(Stored(x, ses[x], m))
      t == MakeReq(x, s, "ACK", m.tag)
  IN /\ m.code = 200 /\ m.meth = "INVITE" /\ s.st # "ending"
     /\ Set(x, [t EXCEPT !.st = "ok"], IF s.st = "ok" THEN app[x] ELSE "talking")
     /\ Exchange({m}, t.buf)

(* 180: wait for the answer without repeating the INVITE.                     *)
RecRinging(x, m) ==
  LET s == Stored(x, ses[x], m) IN
  /\ m.code = 180 /\ s.st # "ending"
  /\ Set(x, StopRetransmit([s EXCEPT !.sendS = "none", !.waitS = "200"]), app[x])
  /\ Exchange({m}, {})

(* 491: acknowledge it and wait for nothing.                                  *)
RecPending(x, m) ==
  LET s == Stored(x, ses[x], m)
      t == MakeReq(x, s, "ACK", m.tag)
  IN /\ m.code = 491 /\ s.st # "ending"
     /\ Set(x, StopRetransmit([t EXCEPT !.sendS = "none", !.waitS = "none"]), app[x])
     /\ Exchange({m}, t.buf)

(* No session: an INVITE makes one if it can, other requests get an error.    *)
NoSession(x, m, code) ==
  UNCHANGED <<ses, app>> /\ Exchange({m}, IF code = 0 THEN {} ELSE SendResp(m, code))

RecUnknown(x, m) ==
  /\ ~Found(m)
  /\ \/ (~IsReq(m) \/ m.meth = "ACK") /\ NoSession(x, m, 0)
     \/ IsReq(m) /\ m.meth = "BYE" /\ NoSession(x, m, 481)
     \/ IsReq(m) /\ m.meth = "CANCEL" /\ NoSession(x, m, IF "gsm" \in Busy THEN 486 ELSE 481)
     \/ IsReq(m) /\ m.meth = "INVITE" /\ (HasToTag(m) \/ Busy # {} \/ tags = MaxIncoming)
          /\ NoSession(x, m, 486)
  /\ UNCHANGED tags

RecIncoming(x, m) ==
  LET t == Invited(x, [NewSes EXCEPT !.tag = tags + 1], m) IN
  /\ ~Found(m)
  /\ IsReq(m) /\ m.meth = "INVITE" /\ ~HasToTag(m)
  /\ "gsm" \notin Busy /\ tags < MaxIncoming
  /\ tags' = tags + 1
  /\ Set(x, t, "ringing") /\ Exchange({m}, t.buf)

Receive(x) ==
  /\ \E m \in net :
       /\ m.to = x
       /\ \/ RecUnknown(x, m)
          \/ RecIncoming(x, m)
          \/ /\ Found(m)
             /\ UNCHANGED tags
             /\ \/ RecError(x, m) \/ RecInvitePending(x, m) \/ RecInEnding(x, m)
                \/ RecAck(x, m) \/ RecByeCancel(x, m) \/ RecInvite(x, m)
                \/ RecOk(x, m) \/ RecRinging(x, m) \/ RecPending(x, m)
  /\ UNCHANGED <<answered, reinvites>>

-----------------------------------------------------------------------------
(* The user interface.                                                       *)

Call ==
  LET s == MakeReq("caller", NewSes, "INVITE", 0) IN
  /\ app["caller"] = "none"
  /\ Set("caller", s, "calling") /\ Exchange({}, s.buf)
  /\ UNCHANGED <<answered, tags, reinvites>>

AnswerCall ==
  LET s == ses["callee"]
      t == Send200Sdp("callee", [s EXCEPT !.st = "ok", !.sub = FALSE, !.tick = FALSE], s.tag)
  IN /\ s.st = "init" /\ s.media /\ Room
     /\ answered' = TRUE
     /\ Set("callee", t, "talking") /\ Exchange({}, t.buf)
     /\ UNCHANGED <<tags, reinvites>>

(* endCall: BYE for a call that stands, CANCEL for an unanswered one of ours, *)
(* an error response for one that rings here.                                 *)
CanEnd(s) == s.st \notin {"clear", "ending"}

Ended(x, s, code) ==
  LET e == [s EXCEPT !.media = FALSE, !.told = TRUE] IN
  IF s.st = "init" /\ x = "callee"
  THEN MakeResp(x, [e EXCEPT !.st = "error", !.waitS = "ACK"], "INVITE", code, s.tag)
  ELSE MakeReq(x, [e EXCEPT !.st = "ending"],
               IF s.st = "init" THEN "CANCEL" ELSE "BYE", s.tag)

EndCall(x, s, code) ==
  /\ CanEnd(s) /\ Room
  /\ Set(x, Ended(x, s, code), "ended")
  /\ Exchange({}, Ended(x, s, code).buf)
  /\ UNCHANGED <<answered, tags, reinvites>>

Hangup(x) == EndCall(x, ses[x], 603)

(* reInvite, of the user (who needs media) or, for every session that is not   *)
(* ending, after a change of the network.                                     *)
SendReinvite(x, s) ==
  LET t == MakeReq(x, s, "INVITE", s.tag) IN
  /\ s.st \notin {"clear", "ending"} /\ (x = "caller" \/ s.st # "init")
  /\ Room /\ reinvites < MaxReinvite
  /\ reinvites' = reinvites + 1
  /\ Set(x, t, app[x]) /\ Exchange({}, t.buf)
  /\ UNCHANGED <<answered, tags>>

ReInvite(x) ==
  /\ ses[x].media
  /\ SendReinvite(x, [ses[x] EXCEPT !.reinv = TRUE])

ReInviteAll(x) == Roaming /\ SendReinvite(x, ses[x])

-----------------------------------------------------------------------------
(* The timer thread: handleSessions and onTimer.                             *)

(* handleSessions looks at the retransmission of these sessions only.         *)
Watched(s) == s.waitS # "none" /\ (s.sendS # "none" \/ s.st = "error" \/ s.waitS = "ACK")

ClearMem(x) ==
  /\ ses[x].clear
  /\ Set(x, KillSes(ses[x]), ToldEnd(ses[x], app[x])) /\ Exchange({}, {})
  /\ UNCHANGED <<answered, tags, reinvites>>

\* Mutant: the retransmission ends and the session stays.
GiveUpQuietly(x) ==
  /\ Watched(ses[x]) /\ ses[x].retr < 0
  /\ Prompt => net = {}
  /\ Set(x, [ses[x] EXCEPT !.waitS = "none"], app[x]) /\ Exchange({}, {})
  /\ UNCHANGED <<answered, tags, reinvites>>

GiveUp(x) ==
  /\ Watched(ses[x]) /\ ses[x].retr < 0
  /\ Prompt => net = {}
  /\ Set(x, KillSes(ses[x]), ToldEnd(ses[x], app[x])) /\ Exchange({}, {})
  /\ UNCHANGED <<answered, tags, reinvites>>

Resend(x) ==
  LET s == ses[x] IN
  /\ Watched(s) /\ s.retr >= 0 /\ s.armed
  /\ Prompt => s.buf \cap net = {}
  /\ IF s.retr > 0 THEN Room /\ Set(x, SendSip(s), app[x]) /\ Exchange({}, s.buf)
     ELSE Set(x, UpdateRetransmit(s), app[x]) /\ Exchange({}, {})
  /\ UNCHANGED <<answered, tags, reinvites>>

(* onTimer: an unanswered call is ended with 480.                             *)
Unanswered(x) ==
  LET s == [ses[x] EXCEPT !.tick = FALSE] IN
  /\ ses[x].tick
  /\ Prompt => net = {}
  /\ IF s.sub /\ CanEnd(s) THEN EndCall(x, s, 480)
     ELSE Set(x, s, app[x]) /\ Exchange({}, {}) /\ UNCHANGED <<answered, tags, reinvites>>

Timer(x) == ClearMem(x) \/ GiveUp(x) \/ Resend(x) \/ Unanswered(x)

-----------------------------------------------------------------------------
Next ==
  \/ Call \/ AnswerCall
  \/ \E x \in Side :
       Hangup(x) \/ ReInvite(x) \/ ReInviteAll(x) \/ Receive(x) \/ Timer(x)

Spec == Init /\ [][Next]_vars

(* The receive thread and the timer thread of each phone keep running; no     *)
(* user has to do anything.                                                   *)
FairSpec == Spec /\ \A x \in Side : WF_vars(Receive(x)) /\ WF_vars(Timer(x))

-----------------------------------------------------------------------------
(* Properties.                                                               *)

Active == {"calling", "ringing", "talking"}

(* The variables stay in their types.                                         *)
TypeOK ==
  /\ ses \in [Side -> Session]
  /\ app \in [Side -> {"none", "ended"} \cup Active]
  /\ answered \in BOOLEAN
  /\ net \subseteq Msg
  /\ tags \in 0..MaxIncoming
  /\ faults \in 0..MaxFault
  /\ reinvites \in 0..MaxReinvite

(* What the user interface was told last is what the engine holds: it talks   *)
(* exactly while the session stands, and a session that is freed, or on its   *)
(* way out, was reported as ended.                                            *)
AppMatches ==
  \A x \in Side :
    /\ app[x] = "talking" <=> ses[x].st = "ok"
    /\ app[x] \in {"calling", "ringing"} <=> ses[x].st = "init"

(* A declined session whose one-minute timer has been used and that no longer *)
(* waits for the acknowledgement, since another INVITE, from here or there,   *)
(* came after the refusal: RecInvite and RecRinging forget the refusal.       *)
Stranded(s) == s.st = "error" /\ ~s.tick /\ s.sendS = "none" /\ s.waitS # "ACK"

(* A session that is over, and is not stranded, still has something on the    *)
(* timer thread that will end it: its memory is due, its message is repeated, *)
(* or the one-minute timer of the ringing is left.                            *)
EndingIsTimed ==
  \A x \in Side : ses[x].st \in {"ending", "error"} =>
    \/ ses[x].clear
    \/ Watched(ses[x]) /\ (ses[x].retr < 0 \/ ses[x].armed)
    \/ ses[x].tick /\ ses[x].sub
    \/ Stranded(ses[x])

(* The slot of a call that is over is freed, or the session is stranded.      *)
EndedIsFreed == \A x \in Side : app[x] = "ended" ~> ses[x].st = "clear" \/ Stranded(ses[x])

(* The SIP engine implements the call of PhoneCall.tla.                       *)
Phone == INSTANCE PhoneCall WITH caller <- app["caller"], callee <- app["callee"]
CallSpec == Phone!CallSpec
=============================================================================
