---------------------------- MODULE SipTimerProofs ----------------------------
(***************************************************************************)
(* A SIP session (SipSession.tla) that is over always has something on the *)
(* timer thread that will end it, as long as no CANCEL is refused (Busy).  *)
(***************************************************************************)
EXTENDS SipProofs

(* A message: only an INVITE is answered with an error other than 481.        *)
Fit(m) == m \in Msg /\ (m.meth # "INVITE" => m.code \in {0, 200, 481})

(* The shape of x's session.                                                 *)
Whole(x, s) ==
  /\ s \in Session
  /\ s.st = "clear" => s = Free
  /\ s.killed => s.st = "ending"
  /\ s.killed <=> s.clear
  /\ x = "caller" => s.st # "error"
  /\ x = "callee" => (s.st \in {"init", "error"} => s.sub)

Due(s) == s.retr < 0 \/ s.armed

(* What ends a session that is over: its memory is due, or its message is     *)
(* repeated; a declined one may be left with the timer of the ringing, or     *)
(* stranded.                                                                 *)
Timed(s) ==
  /\ s.st = "ending" => s.clear \/ (s.sendS # "none" /\ s.waitS = "200" /\ Due(s))
  /\ s.st = "ending" => s.waitS # "ACK"
  /\ s.st = "error" => \/ s.waitS # "none" /\ Due(s)
                       \/ s.tick
                       \/ s.sendS = "none" /\ s.waitS # "ACK"

Kept(x, s) == Whole(x, s) /\ Timed(s) /\ \A m \in s.buf : Fit(m)

TimerInv ==
  /\ ses \in [Side -> Session] /\ tags \in 0..MaxIncoming
  /\ \A x \in Side : Kept(x, ses[x])
  /\ \A m \in net : Fit(m)

-----------------------------------------------------------------------------
(* What the operations do to the fields Timed is about.                      *)

LEMMA StopRetransmitWaits ==
  ASSUME NEW s \in Session
  PROVE  LET t == StopRetransmit(s)
         IN  t \in Session /\ t.sendS = s.sendS /\ t.waitS = s.waitS /\ t.tick = s.tick
  BY StopRetransmitSame DEF StopRetransmit, Session, Same

LEMMA UpdateRetransmitWaits ==
  ASSUME NEW s \in Session
  PROVE  LET t == UpdateRetransmit(s)
         IN  /\ t \in Session /\ t.sendS = s.sendS /\ t.waitS = s.waitS /\ t.tick = s.tick
             /\ t.armed
<1> DEFINE r == IF s.retr > -1 THEN s.retr - 1 ELSE -1
           t == UpdateRetransmit(s)
<1>1. t = [s EXCEPT !.armed = TRUE, !.retr = r]
  BY DEF UpdateRetransmit
<1>2. t \in Session
  BY UpdateRetransmitSame DEF Same
<1> HIDE DEF r, t
<1>3. t.sendS = s.sendS /\ t.waitS = s.waitS /\ t.tick = s.tick
  BY <1>1 DEF Session
<1>4. t.armed
  BY <1>1 DEF Session
<1> QED
  BY <1>2, <1>3, <1>4 DEF t

LEMMA SendSipWaits ==
  ASSUME NEW s \in Session
  PROVE  LET t == SendSip(s)
         IN  /\ t.waitS = s.waitS /\ t.tick = s.tick
             /\ s.waitS = "none" => t.sendS = "none"
             /\ s.waitS # "none" /\ ~s.killed => t.sendS = s.sendS /\ t.armed
<1> DEFINE q == [StopRetransmit(s) EXCEPT !.sendS = "none"]
           u == IF s.waitS = "none" \/ s.killed THEN q ELSE s
           t == SendSip(s)
<1>1. /\ u \in Session /\ u.waitS = s.waitS /\ u.tick = s.tick
      /\ s.waitS = "none" => u.sendS = "none"
      /\ s.waitS # "none" /\ ~s.killed => u = s
  BY StopRetransmitWaits DEF Session
<1> HIDE DEF u
<1>2. t = IF u.waitS = "none" THEN u ELSE UpdateRetransmit(u)
  BY DEF SendSip, u
<1> HIDE DEF t
<1>3. CASE u.waitS = "none"
  BY <1>1, <1>2, <1>3 DEF t
<1>4. CASE u.waitS # "none"
  <2>1. t = UpdateRetransmit(u)
    BY <1>2, <1>4
  <2>2. t.sendS = u.sendS /\ t.waitS = u.waitS /\ t.tick = u.tick
    BY <1>1, <2>1, UpdateRetransmitWaits
  <2>3. t.armed
    BY <1>1, <2>1, UpdateRetransmitWaits
  <2> QED
    BY <1>1, <1>4, <2>2, <2>3 DEF t
<1> QED
  BY <1>3, <1>4

LEMMA SetRetransmitWaits ==
  ASSUME NEW s \in Session, NEW n \in {RetrInvite, RetrRequest, RetrError}
  PROVE  LET t == SetRetransmit(s, n)
         IN  /\ t \in Session /\ t.sendS = s.sendS /\ t.waitS = s.waitS /\ t.tick = s.tick
             /\ t.killed = s.killed
<1> DEFINE t == SetRetransmit(s, n)
<1>1. t = [s EXCEPT !.retr = n, !.armed = FALSE]
  BY DEF SetRetransmit
<1>2. t \in Session /\ t.killed = s.killed
  BY SetRetransmitSame DEF Same
<1> HIDE DEF t
<1>3. t.sendS = s.sendS /\ t.waitS = s.waitS /\ t.tick = s.tick
  BY <1>1 DEF Session
<1> QED
  BY <1>2, <1>3 DEF t

LEMMA MakeReqWaits ==
  ASSUME NEW x \in Side, NEW s \in Session, NEW id \in Methods, NEW tag \in 0..MaxIncoming
  PROVE  LET t == MakeReq(x, s, id, tag)
         IN  /\ t.tick = s.tick
             /\ t.waitS = IF id = "ACK" THEN "none" ELSE "200"
             /\ id # "ACK" /\ ~s.killed => t.sendS = id /\ t.armed
<1> DEFINE b == {Request(x, id, IF id = "CANCEL" THEN 0 ELSE tag)}
           n == [s EXCEPT !.sendS = id, !.waitS = IF id = "ACK" THEN "none" ELSE "200",
                          !.buf = b]
           r == IF id = "INVITE" THEN RetrInvite ELSE RetrRequest
           u == IF id = "ACK" \/ s.sendS = id THEN n ELSE SetRetransmit(n, r)
           t == MakeReq(x, s, id, tag)
<1>1. b \subseteq Msg
  <2>1. 0 \in 0..MaxIncoming
    BY BoundAssumption
  <2> QED
    BY <2>1, RequestType
<1> HIDE DEF b
<1>2. /\ n \in Session /\ n.sendS = id /\ n.tick = s.tick /\ n.killed = s.killed
      /\ n.waitS = IF id = "ACK" THEN "none" ELSE "200"
  BY <1>1 DEF Session
<1> HIDE DEF n
<1>3. r \in {RetrInvite, RetrRequest, RetrError}
  OBVIOUS
<1> HIDE DEF r
<1>4. u \in Session /\ u.sendS = id /\ u.tick = s.tick /\ u.killed = s.killed /\ u.waitS = n.waitS
  BY <1>2, <1>3, SetRetransmitWaits
<1>5. t = SendSip(u)
  BY DEF MakeReq, u, n, b, r
<1> HIDE DEF u, t
<1>6. /\ t.waitS = u.waitS /\ t.tick = u.tick
      /\ u.waitS # "none" /\ ~u.killed => t.sendS = u.sendS /\ t.armed
  BY <1>4, <1>5, SendSipWaits
<1> QED
  BY <1>2, <1>4, <1>6 DEF t

LEMMA MakeRespWaits ==
  ASSUME NEW x \in Side, NEW s \in Session, NEW meth \in Methods, NEW code \in Codes,
         NEW tag \in 0..MaxIncoming
  PROVE  LET t == MakeResp(x, s, meth, code, tag)
         IN  /\ t.tick = s.tick /\ t.waitS = s.waitS
             /\ s.waitS = "none" => t.sendS = "none"
             /\ s.waitS # "none" /\ ~s.killed => t.armed
<1> DEFINE b == {[to |-> Other(x), meth |-> meth, code |-> code, tag |-> tag]}
           n == [s EXCEPT !.buf = b]
           u == IF s.waitS = "ACK" /\ s.st = "error" /\ s.retr <= 0
                THEN SetRetransmit(n, RetrError) ELSE n
           t == MakeResp(x, s, meth, code, tag)
<1>1. b \subseteq Msg
  BY DEF Msg, Side, Other
<1> HIDE DEF b
<1>2. /\ n \in Session /\ n.tick = s.tick /\ n.killed = s.killed /\ n.waitS = s.waitS
  BY <1>1 DEF Session
<1> HIDE DEF n
<1>3. u \in Session /\ u.tick = s.tick /\ u.killed = s.killed /\ u.waitS = s.waitS
  BY <1>2, SetRetransmitWaits
<1>4. t = SendSip(u)
  BY DEF MakeResp, u, n, b
<1> HIDE DEF u, t
<1>5. /\ t.waitS = u.waitS /\ t.tick = u.tick
      /\ u.waitS = "none" => t.sendS = "none"
      /\ u.waitS # "none" /\ ~u.killed => t.armed
  BY <1>3, <1>4, SendSipWaits
<1> QED
  BY <1>3, <1>5 DEF t

-----------------------------------------------------------------------------
(* Every step gives one session another value that is kept, and sends fit     *)
(* messages only.                                                            *)

TimerStep ==
  \E x \in Side : \E t, out :
    /\ ses' = [ses EXCEPT ![x] = t]
    /\ net' \subseteq net \cup out
    /\ tags' \in 0..MaxIncoming
    /\ Kept(x, t)
    /\ \A m \in out : Fit(m)

LEMMA TimerStepKeepsInv == TimerInv /\ TimerStep => TimerInv'
<1> SUFFICES ASSUME TimerInv, TimerStep PROVE TimerInv'
  OBVIOUS
<1>1. PICK x \in Side : \E t, out :
        /\ ses' = [ses EXCEPT ![x] = t] /\ net' \subseteq net \cup out
        /\ tags' \in 0..MaxIncoming /\ Kept(x, t) /\ \A m \in out : Fit(m)
  BY DEF TimerStep
<1>2. PICK t, out :
        /\ ses' = [ses EXCEPT ![x] = t] /\ net' \subseteq net \cup out
        /\ tags' \in 0..MaxIncoming /\ Kept(x, t) /\ \A m \in out : Fit(m)
  BY <1>1
<1>3. t \in Session /\ ses \in [Side -> Session]
  BY <1>2 DEF Kept, Whole, TimerInv
<1>4. ses' \in [Side -> Session]
  BY <1>2, <1>3
<1>5. \A y \in Side : Kept(y, ses'[y])
  BY <1>2, <1>3 DEF TimerInv
<1>6. \A m \in net' : Fit(m)
  BY <1>2 DEF TimerInv
<1> QED
  BY <1>2, <1>4, <1>5, <1>6 DEF TimerInv

(* The forms of a step.                                                      *)
LEMMA Becomes ==
  ASSUME TimerInv, NEW x \in Side, NEW t, NEW u, NEW taken, NEW out,
         Set(x, t, u), Exchange(taken, out), UNCHANGED tags, Kept(x, t),
         \A m \in out : Fit(m)
  PROVE  TimerStep
<1>1. ses' = [ses EXCEPT ![x] = t] /\ net' \subseteq net \cup out /\ tags' \in 0..MaxIncoming
  BY ExchangeNet DEF Set, TimerInv
<1> QED
  BY <1>1 DEF TimerStep

LEMMA OwnKept ==
  ASSUME TimerInv, NEW x \in Side
  PROVE  /\ Kept(x, ses[x]) /\ Whole(x, ses[x]) /\ Timed(ses[x])
         /\ ses[x] \in Session /\ ses[x].tag \in 0..MaxIncoming
         /\ \A m \in ses[x].buf : Fit(m)
  BY DEF TimerInv, Kept, Whole, Session

LEMMA Killed ==
  ASSUME TimerInv, NEW x \in Side, NEW s \in Session, NEW u, NEW taken, NEW out,
         Set(x, KillSes(s), u), Exchange(taken, out), UNCHANGED tags,
         \A m \in s.buf \cup out : Fit(m)
  PROVE  TimerStep
<1> DEFINE t == KillSes(s)
<1>1. CASE s.killed
  <2>1. t = Free
    BY <1>1 DEF KillSes
  <2>2. Kept(x, Free)
    BY FreeType DEF Kept, Whole, Timed, Free
  <2> QED
    BY <2>1, <2>2, Becomes
<1>2. CASE ~s.killed
  <2>1. t = [s EXCEPT !.killed = TRUE, !.media = FALSE, !.told = TRUE, !.st = "ending",
                      !.sendS = "none", !.waitS = "none", !.clear = TRUE]
    BY <1>2 DEF KillSes
  <2> HIDE DEF t
  <2>2. /\ t \in Session /\ t.st = "ending" /\ t.waitS = "none" /\ t.buf = s.buf
        /\ t.killed /\ t.clear
    BY <2>1 DEF Session
  <2>3. Kept(x, t)
    BY <2>2 DEF Kept, Whole, Timed
  <2> QED
    BY <2>3, Becomes DEF t
<1> QED
  BY <1>1, <1>2

(* A session in a state that is not over.                                    *)
LEMMA Going ==
  ASSUME NEW x \in Side, NEW t \in Session, t.st \in {"init", "ok"}, ~t.killed, ~t.clear,
         x = "callee" /\ t.st = "init" => t.sub, \A m \in t.buf : Fit(m)
  PROVE  Kept(x, t)
  BY DEF Kept, Whole, Timed

(* Sending from a session that keeps its state.                              *)
LEMMA SameIsWhole ==
  ASSUME NEW x \in Side, NEW s, NEW t, Whole(x, s), Same(s, t), s.st # "clear"
  PROVE  Whole(x, t)
  BY DEF Whole, Same

-----------------------------------------------------------------------------
(* Messages.                                                                 *)

LEMMA FitRequest ==
  ASSUME NEW x \in Side, NEW id \in Methods, NEW tag \in 0..MaxIncoming
  PROVE  \A r \in {Request(x, id, IF id = "CANCEL" THEN 0 ELSE tag)} : Fit(r)
<1> DEFINE g == IF id = "CANCEL" THEN 0 ELSE tag
<1>1. g \in 0..MaxIncoming
  BY BoundAssumption
<1>2. Request(x, id, g) \in Msg /\ Request(x, id, g).code = 0
  BY <1>1, RequestType DEF Request
<1> QED
  BY <1>2 DEF Fit

LEMMA FitInviteAnswer ==
  ASSUME NEW x \in Side, NEW code \in Codes, NEW tag \in 0..MaxIncoming
  PROVE  \A r \in {[to |-> Other(x), meth |-> "INVITE", code |-> code, tag |-> tag]} : Fit(r)
<1>1. [to |-> Other(x), meth |-> "INVITE", code |-> code, tag |-> tag] \in Msg
  BY DEF Msg, Other, Side, Methods
<1> QED
  BY <1>1 DEF Fit

LEMMA FitReply ==
  ASSUME TimerInv, NEW m \in net, NEW code \in Codes,
         m.meth # "INVITE" => code \in {200, 481}
  PROVE  \A r \in SendResp(m, code) : Fit(r)
<1> SUFFICES ASSUME NEW r \in SendResp(m, code) PROVE Fit(r)
  OBVIOUS
<1>1. /\ r = [to |-> Other(m.to), meth |-> m.meth, code |-> code, tag |-> m.tag]
      /\ m \in Msg
  BY DEF SendResp, TimerInv, Fit
<1>2. r \in Msg /\ r.meth = m.meth /\ r.code = code
  BY <1>1 DEF Msg, Other, Side
<1> QED
  BY <1>2 DEF Fit

LEMMA FitReceived ==
  ASSUME TimerInv, NEW m \in net
  PROVE  Fit(m) /\ m \in Msg /\ m.to \in Side /\ m.tag \in 0..MaxIncoming
<1>1. Fit(m)
  BY DEF TimerInv
<1> QED
  BY <1>1 DEF Fit, Msg

-----------------------------------------------------------------------------
(* The receive thread.                                                       *)

(* The session stays as it is.                                               *)
LEMMA Stays ==
  ASSUME TimerInv, NEW x \in Side, NEW u, NEW taken, NEW out,
         Set(x, ses[x], u), Exchange(taken, out), UNCHANGED tags, \A m \in out : Fit(m)
  PROVE  TimerStep
  BY OwnKept, Becomes

(* Sending a request.                                                        *)
LEMMA ReqKept ==
  ASSUME NEW x \in Side, NEW s \in Session, NEW id \in Methods, NEW tag \in 0..MaxIncoming
  PROVE  LET t == MakeReq(x, s, id, tag)
         IN  t \in Session /\ Same(s, t) /\ \A m \in t.buf : Fit(m)
  BY MakeReqSame, FitRequest DEF Same

LEMMA RespKept ==
  ASSUME NEW x \in Side, NEW s \in Session, NEW code \in Codes, NEW tag \in 0..MaxIncoming
  PROVE  LET t == MakeResp(x, s, "INVITE", code, tag)
         IN  t \in Session /\ Same(s, t) /\ \A m \in t.buf : Fit(m)
<1>1. "INVITE" \in Methods
  BY DEF Methods
<1> QED
  BY <1>1, MakeRespSame, FitInviteAnswer DEF Same

LEMMA TimerRecError ==
  ASSUME TimerInv, NEW m \in net, RecError(m.to, m), UNCHANGED tags
  PROVE  TimerStep
<1> DEFINE x == m.to
           q == MakeReq(x, ses[x], "ACK", m.tag)
           t == IF m.code = 481 THEN ses[x] ELSE q
           out == IF m.code = 481 THEN {} ELSE t.buf
<1>1. Fit(m) /\ x \in Side /\ m.tag \in 0..MaxIncoming /\ "ACK" \in Methods
  BY FitReceived DEF Methods
<1>2. /\ m.code > 299
      /\ IF m.meth = "INVITE" THEN Kill(x, t, m, out)
         ELSE Set(x, t, app[x]) /\ Exchange({m}, out)
  BY DEF RecError
<1>3. q \in Session /\ \A r \in q.buf : Fit(r)
  BY <1>1, OwnKept, ReqKept
<1> HIDE DEF q
<1>4. t \in Session /\ \A r \in t.buf \cup out : Fit(r)
  BY <1>1, <1>3, OwnKept
<1>5. CASE m.meth = "INVITE"
  <2>1. Set(x, KillSes(t), ToldEnd(t, app[x])) /\ Exchange({m}, out)
    BY <1>2, <1>5 DEF Kill
  <2> HIDE DEF x, t, out
  <2> QED
    BY <1>1, <1>4, <2>1, Killed
<1>6. CASE m.meth # "INVITE"
  <2>1. m.code = 481
    BY <1>1, <1>2, <1>6 DEF Fit
  <2>2. Set(x, ses[x], app[x]) /\ Exchange({m}, {})
    BY <1>2, <1>6, <2>1
  <2> QED
    BY <1>1, <2>2, Stays
<1> QED
  BY <1>5, <1>6

LEMMA TimerRecInvitePending ==
  ASSUME TimerInv, NEW m \in net, RecInvitePending(m.to, m), UNCHANGED tags
  PROVE  TimerStep
<1>1. /\ Set(m.to, ses[m.to], app[m.to]) /\ Exchange({m}, SendResp(m, 491))
      /\ m.meth = "INVITE" /\ m.to \in Side /\ 491 \in Codes
  BY FitReceived DEF RecInvitePending, Codes
<1> QED
  BY <1>1, FitReply, Stays

LEMMA TimerRecInEnding ==
  ASSUME TimerInv, NEW m \in net, RecInEnding(m.to, m), UNCHANGED tags
  PROVE  TimerStep
<1> DEFINE x == m.to
           s == ses[x]
           t == MakeReq(x, s, "BYE", s.tag)
<1>1. x \in Side /\ s.st = "ending" /\ m.meth = "INVITE"
  BY FitReceived DEF RecInEnding
<1>2. CASE IsReq(m)
  <2>1. Set(x, s, app[x]) /\ Exchange({m}, SendResp(m, 603)) /\ 603 \in Codes
    BY <1>2 DEF RecInEnding, Codes
  <2> QED
    BY <1>1, <2>1, FitReply, Stays
<1>3. CASE ~IsReq(m)
  <2>1. Set(x, t, app[x]) /\ Exchange({m}, t.buf)
    BY <1>3 DEF RecInEnding
  <2>2. Whole(x, s) /\ s \in Session /\ s.tag \in 0..MaxIncoming /\ "BYE" \in Methods
    BY <1>1, OwnKept DEF Methods
  <2>3. t \in Session /\ Same(s, t) /\ \A r \in t.buf : Fit(r)
    BY <1>1, <2>2, ReqKept
  <2>4. t.waitS = "200" /\ (~s.killed => t.sendS = "BYE" /\ t.armed)
    BY <1>1, <2>2, MakeReqWaits
  <2> HIDE DEF t
  <2>5. Whole(x, t)
    BY <1>1, <2>2, <2>3, SameIsWhole
  <2>6. Timed(t)
    <3>1. t.st = "ending" /\ t.killed = s.killed
      BY <1>1, <2>3 DEF Same
    <3>2. CASE s.killed
      BY <2>4, <2>5, <3>1, <3>2 DEF Timed, Whole
    <3>3. CASE ~s.killed
      BY <2>4, <3>1, <3>3 DEF Timed, Due
    <3> QED
      BY <3>2, <3>3
  <2> HIDE DEF x
  <2> QED
    BY <1>1, <2>1, <2>3, <2>5, <2>6, Becomes DEF Kept
<1> QED
  BY <1>2, <1>3

LEMMA TimerRecAck ==
  ASSUME TimerInv, NEW m \in net, Found(m), RecAck(m.to, m), UNCHANGED tags
  PROVE  TimerStep
<1> DEFINE x == m.to
           s == ses[x]
           q == StopRetransmit(s)
           t == [q EXCEPT !.sendS = "none", !.waitS = "none"]
<1>1. x \in Side /\ s \in Session /\ s.st # "clear" /\ Whole(x, s) /\ Timed(s)
      /\ \A r \in s.buf : Fit(r)
  BY FitReceived, OwnKept DEF Found
<1>2. CASE s.waitS # "ACK"
  BY <1>1, <1>2, Stays DEF RecAck
<1>3. CASE s.waitS = "ACK" /\ s.st = "error"
  BY <1>1, <1>3, Killed DEF RecAck, Kill
<1>4. CASE s.waitS = "ACK" /\ s.st # "error"
  <2>1. Set(x, t, app[x]) /\ Exchange({m}, {})
    BY <1>4 DEF RecAck
  <2>2. Same(s, q) /\ q.buf = s.buf
    BY <1>1, StopRetransmitSame
  <2> HIDE DEF q
  <2>3. Same(s, t) /\ t.buf = s.buf
    BY <2>2 DEF Same, Session
  <2>4. s.st \in {"init", "ok"}
    BY <1>1, <1>4 DEF Timed, Session
  <2> HIDE DEF t
  <2>5. Kept(x, t)
    BY <1>1, <2>3, <2>4, SameIsWhole DEF Same, Kept, Timed
  <2> QED
    BY <1>1, <2>1, <2>5, Becomes
<1> QED
  BY <1>2, <1>3, <1>4

LEMMA TimerRecByeCancel ==
  ASSUME TimerInv, NEW m \in net, RecByeCancel(m.to, m), UNCHANGED tags
  PROVE  TimerStep
<1> DEFINE x == m.to
           s == StopRetransmit(ses[x])
           t == MakeResp(x, s, "INVITE", 487, s.tag)
<1>1. x \in Side /\ ses[x] \in Session /\ \A r \in ses[x].buf : Fit(r)
  BY FitReceived, OwnKept
<1>2. s \in Session /\ s.tag \in 0..MaxIncoming /\ \A r \in s.buf : Fit(r)
  BY <1>1, StopRetransmitSame DEF Same, Session
<1> HIDE DEF s
<1>3. 487 \in Codes /\ 200 \in Codes
  BY DEF Codes
<1>4. t \in Session /\ \A r \in t.buf : Fit(r)
  BY <1>1, <1>2, <1>3, RespKept
<1>5. \A r \in SendResp(m, 200) : Fit(r)
  BY <1>3, FitReply
<1>6. CASE ~IsReq(m)
  <2>1. Set(x, KillSes(ses[x]), ToldEnd(ses[x], app[x])) /\ Exchange({m}, {})
    BY <1>6 DEF RecByeCancel, Kill
  <2> QED
    BY <1>1, <2>1, Killed
<1>7. CASE IsReq(m) /\ m.meth = "BYE"
  <2>1. Set(x, KillSes(s), ToldEnd(s, app[x])) /\ Exchange({m}, SendResp(m, 200))
    BY <1>7 DEF RecByeCancel, Kill, s
  <2> QED
    BY <1>1, <1>2, <1>5, <2>1, Killed
<1>8. CASE IsReq(m) /\ m.meth # "BYE"
  <2> DEFINE out == SendResp(m, 200) \cup t.buf
  <2>1. Set(x, KillSes(t), ToldEnd(t, app[x])) /\ Exchange({m}, out)
    BY <1>8 DEF RecByeCancel, Kill, s
  <2>2. \A r \in t.buf \cup out : Fit(r)
    BY <1>4, <1>5
  <2> HIDE DEF t, out
  <2> QED
    BY <1>1, <1>4, <2>1, <2>2, Killed
<1> QED
  BY <1>6, <1>7, <1>8

LEMMA StoredSame ==
  ASSUME TimerInv, NEW m \in net
  PROVE  LET s == ses[m.to]
             t == Stored(m.to, s, m)
         IN  /\ t \in Session /\ t.st = s.st /\ t.sub = s.sub /\ t.killed = s.killed
             /\ t.clear = s.clear /\ t.tag \in 0..MaxIncoming /\ t.buf = s.buf
<1> DEFINE x == m.to
           s == ses[x]
           g == IF x = "caller" /\ (IsReq(m) \/ s.tag = 0) THEN m.tag ELSE s.tag
<1>1. s \in Session /\ g \in 0..MaxIncoming
  BY FitReceived, OwnKept
<1>2. Stored(x, s, m) = [s EXCEPT !.reinv = FALSE, !.tag = g]
  BY DEF Stored
<1> HIDE DEF g, s
<1> QED
  BY <1>1, <1>2 DEF Session, s

LEMMA TimerRecInvite ==
  ASSUME TimerInv, NEW m \in net, Found(m), RecInvite(m.to, m), UNCHANGED tags
  PROVE  TimerStep
<1> DEFINE x == m.to
           s == Stored(x, ses[x], m)
           n == [s EXCEPT !.sendS = "none", !.waitS = "none"]
           i == StopRetransmit(n)
           ring == MakeResp(x, i, "INVITE", 180, s.tag)
           t == Invited(x, ses[x], m)
<1>1. /\ x \in Side /\ ses[x].st \notin {"clear", "ending"} /\ Whole(x, ses[x])
      /\ Set(x, t, app[x]) /\ Exchange({m}, t.buf)
  BY FitReceived, OwnKept DEF Found, RecInvite
<1>2. /\ s \in Session /\ s.st = ses[x].st /\ ~s.killed /\ ~s.clear /\ s.sub = ses[x].sub
      /\ s.tag \in 0..MaxIncoming
  BY <1>1, StoredSame DEF Whole
<1>3. t = IF s.st = "ok" THEN Send200Sdp(x, s, s.tag)
          ELSE IF s.sub THEN ring ELSE [ring EXCEPT !.sub = TRUE, !.tick = TRUE]
  BY DEF Invited
<1> HIDE DEF s, t
<1>4. 180 \in Codes /\ 200 \in Codes
  BY DEF Codes
<1>5. CASE s.st = "ok"
  <2>1. Same(s, t) /\ t.buf = {[to |-> Other(x), meth |-> "INVITE", code |-> 200, tag |-> s.tag]}
    BY <1>1, <1>2, <1>3, <1>5, Send200SdpSame
  <2>2. \A r \in t.buf : Fit(r)
    BY <1>1, <1>2, <1>4, <2>1, FitInviteAnswer
  <2>3. Kept(x, t)
    BY <1>1, <1>2, <1>5, <2>1, <2>2, Going DEF Same
  <2> HIDE DEF x
  <2> QED
    BY <1>1, <2>2, <2>3, Becomes
<1>6. CASE s.st # "ok"
  <2>1. n \in Session /\ Same(s, n) /\ n.waitS = "none"
    BY <1>2 DEF Same, Session
  <2> HIDE DEF n
  <2>2. i \in Session /\ Same(s, i) /\ i.waitS = "none"
    BY <2>1, StopRetransmitSame, StopRetransmitWaits DEF Same
  <2> HIDE DEF i
  <2>3. ring \in Session /\ Same(i, ring) /\ \A r \in ring.buf : Fit(r)
    BY <1>1, <1>2, <1>4, <2>2, RespKept
  <2>4. ring.waitS = "none" /\ ring.sendS = "none"
    BY <1>1, <1>2, <1>4, <2>2, MakeRespWaits DEF Methods
  <2> HIDE DEF ring
  <2>5. Same(s, ring)
    BY <2>2, <2>3 DEF Same
  <2>6. /\ t \in Session /\ t.st = s.st /\ t.killed = s.killed /\ t.clear = s.clear /\ t.sub
        /\ t.buf = ring.buf /\ t.waitS = "none" /\ t.sendS = "none"
    <3>1. CASE s.sub
      BY <1>3, <1>6, <2>3, <2>4, <2>5, <3>1 DEF Same
    <3>2. CASE ~s.sub
      <4>1. t = [ring EXCEPT !.sub = TRUE, !.tick = TRUE]
        BY <1>3, <1>6, <3>2
      <4> QED
        BY <2>3, <2>4, <2>5, <4>1 DEF Same, Session
    <3> QED
      BY <3>1, <3>2
  <2>7. s.st \in {"init", "error"}
    BY <1>1, <1>2, <1>6 DEF Session
  <2>8. Whole(x, t) /\ Timed(t)
    BY <1>1, <1>2, <2>6, <2>7 DEF Whole, Timed
  <2>9. Kept(x, t)
    BY <2>3, <2>6, <2>8 DEF Kept
  <2>10. \A r \in t.buf : Fit(r)
    BY <2>3, <2>6
  <2> HIDE DEF x
  <2> QED
    BY <1>1, <2>9, <2>10, Becomes
<1> QED
  BY <1>5, <1>6

LEMMA TimerRecOk ==
  ASSUME TimerInv, NEW m \in net, Found(m), RecOk(m.to, m), UNCHANGED tags
  PROVE  TimerStep
<1> DEFINE x == m.to
           r == Stored(x, ses[x], m)
           s == StopRetransmit(r)
           q == MakeReq(x, s, "ACK", m.tag)
           t == [q EXCEPT !.st = "ok"]
           u == IF s.st = "ok" THEN app[x] ELSE "talking"
<1>1. /\ x \in Side /\ ses[x].st # "clear" /\ Whole(x, ses[x]) /\ s.st # "ending"
      /\ m.tag \in 0..MaxIncoming /\ "ACK" \in Methods
      /\ Set(x, t, u) /\ Exchange({m}, t.buf)
  BY FitReceived, OwnKept DEF Found, RecOk, Methods
<1>2. /\ r \in Session /\ r.st = ses[x].st /\ r.killed = ses[x].killed
      /\ r.clear = ses[x].clear
  BY StoredSame
<1> HIDE DEF r
<1>3. s \in Session /\ Same(r, s)
  BY <1>2, StopRetransmitSame DEF Same
<1> HIDE DEF s
<1>4. q \in Session /\ Same(s, q) /\ \A g \in q.buf : Fit(g)
  BY <1>1, <1>3, ReqKept
<1> HIDE DEF q
<1>5. ~q.killed /\ ~q.clear
  BY <1>1, <1>2, <1>3, <1>4 DEF Same, Whole
<1>6. t \in Session /\ t.st = "ok" /\ ~t.killed /\ ~t.clear /\ t.buf = q.buf
  BY <1>4, <1>5 DEF Session
<1> HIDE DEF t, u
<1>7. Kept(x, t) /\ \A g \in t.buf : Fit(g)
  BY <1>1, <1>4, <1>6, Going
<1> HIDE DEF x
<1> QED
  BY <1>1, <1>7, Becomes

(* A session that waits for nothing it would repeat.                         *)
LEMMA QuietKept ==
  ASSUME NEW x \in Side, NEW c, NEW q \in Session, NEW w \in {"none", "200"},
         Whole(x, c), c.st \notin {"clear", "ending"},
         q.st = c.st, q.killed = c.killed, q.clear = c.clear, q.sub = c.sub,
         \A r \in q.buf : Fit(r)
  PROVE  Kept(x, StopRetransmit([q EXCEPT !.sendS = "none", !.waitS = w]))
<1> DEFINE n == [q EXCEPT !.sendS = "none", !.waitS = w]
           t == StopRetransmit(n)
<1>1. n \in Session /\ Same(q, n) /\ n.sendS = "none" /\ n.waitS = w /\ n.buf = q.buf
  BY DEF Same, Session
<1> HIDE DEF n
<1>2. t \in Session /\ Same(n, t) /\ t.sendS = "none" /\ t.waitS = w /\ t.buf = q.buf
  BY <1>1, StopRetransmitSame, StopRetransmitWaits DEF Same
<1> HIDE DEF t
<1>3. /\ t.st = c.st /\ t.killed = c.killed /\ t.clear = c.clear /\ t.sub = c.sub
  BY <1>1, <1>2 DEF Same
<1>4. Whole(x, t)
  BY <1>2, <1>3 DEF Whole
<1>5. Timed(t)
  BY <1>2, <1>3 DEF Timed
<1>6. Kept(x, t)
  BY <1>2, <1>4, <1>5 DEF Kept
<1> QED
  BY <1>6 DEF t, n

LEMMA TimerRecRinging ==
  ASSUME TimerInv, NEW m \in net, Found(m), RecRinging(m.to, m), UNCHANGED tags
  PROVE  TimerStep
<1> DEFINE x == m.to
           s == Stored(x, ses[x], m)
           t == StopRetransmit([s EXCEPT !.sendS = "none", !.waitS = "200"])
<1>1. /\ x \in Side /\ ses[x].st # "clear" /\ Whole(x, ses[x]) /\ s.st # "ending"
      /\ Set(x, t, app[x]) /\ Exchange({m}, {}) /\ \A r \in ses[x].buf : Fit(r)
  BY FitReceived, OwnKept DEF Found, RecRinging
<1>2. /\ s \in Session /\ s.st = ses[x].st /\ s.sub = ses[x].sub /\ s.buf = ses[x].buf
      /\ s.killed = ses[x].killed /\ s.clear = ses[x].clear
  BY StoredSame
<1> HIDE DEF s
<1>3. Kept(x, t)
  BY <1>1, <1>2, QuietKept
<1> HIDE DEF x, t
<1> QED
  BY <1>1, <1>3, Becomes

LEMMA TimerRecPending ==
  ASSUME TimerInv, NEW m \in net, Found(m), RecPending(m.to, m), UNCHANGED tags
  PROVE  TimerStep
<1> DEFINE x == m.to
           s == Stored(x, ses[x], m)
           q == MakeReq(x, s, "ACK", m.tag)
           t == StopRetransmit([q EXCEPT !.sendS = "none", !.waitS = "none"])
<1>1. /\ x \in Side /\ ses[x].st # "clear" /\ Whole(x, ses[x]) /\ s.st # "ending"
      /\ m.tag \in 0..MaxIncoming /\ "ACK" \in Methods
      /\ Set(x, t, app[x]) /\ Exchange({m}, q.buf)
  BY FitReceived, OwnKept DEF Found, RecPending, Methods
<1>2. /\ s \in Session /\ s.st = ses[x].st /\ s.sub = ses[x].sub
      /\ s.killed = ses[x].killed /\ s.clear = ses[x].clear
  BY StoredSame
<1> HIDE DEF s
<1>3. q \in Session /\ Same(s, q) /\ \A r \in q.buf : Fit(r)
  BY <1>1, <1>2, ReqKept
<1> HIDE DEF q
<1>4. Kept(x, t)
  BY <1>1, <1>2, <1>3, QuietKept DEF Same
<1> HIDE DEF x, t
<1> QED
  BY <1>1, <1>3, <1>4, Becomes

(* A CANCEL that finds no session is not refused: "gsm" is not in Busy.       *)
LEMMA TimerRecUnknown ==
  ASSUME TimerInv, "gsm" \notin Busy, NEW m \in net, RecUnknown(m.to, m)
  PROVE  TimerStep
<1>1. /\ m.to \in Side /\ UNCHANGED <<ses, app, tags>>
      /\ \/ Exchange({m}, {})
         \/ Exchange({m}, SendResp(m, 481))
         \/ Exchange({m}, SendResp(m, 486)) /\ m.meth = "INVITE"
  BY FitReceived DEF RecUnknown, NoSession
<1>2. ses' = [ses EXCEPT ![m.to] = ses[m.to]]
  BY <1>1 DEF TimerInv
<1>3. PICK out : Exchange({m}, out) /\ \A r \in out : Fit(r)
  <2>1. 481 \in Codes /\ 486 \in Codes
    BY DEF Codes
  <2> QED
    BY <1>1, <2>1, FitReply
<1>4. net' \subseteq net \cup out /\ tags' \in 0..MaxIncoming /\ Kept(m.to, ses[m.to])
  BY <1>1, <1>3, ExchangeNet DEF TimerInv
<1> QED
  BY <1>1, <1>2, <1>3, <1>4 DEF TimerStep

LEMMA TimerRecIncoming ==
  ASSUME TimerInv, NEW m \in net, RecIncoming(m.to, m)
  PROVE  TimerStep
<1> DEFINE n == tags + 1
           s == [NewSes EXCEPT !.tag = n]
           q == [s EXCEPT !.sendS = "none", !.waitS = "none"]
           i == StopRetransmit(q)
           ring == MakeResp("callee", i, "INVITE", 180, n)
           t == [ring EXCEPT !.sub = TRUE, !.tick = TRUE]
<1>1. /\ m.to = "callee" /\ tags < MaxIncoming /\ tags' = tags + 1
  BY FitReceived DEF RecIncoming, HasToTag, Side
<1>2. n \in 0..MaxIncoming
  BY <1>1, BoundAssumption DEF TimerInv
<1>3. s \in Session /\ s.st = "init" /\ ~s.sub /\ s.tag = n /\ ~s.reinv /\ ~s.killed /\ ~s.clear
  BY <1>2, NewSesType DEF Session
<1>4. Stored("callee", s, m) = s
  BY <1>3 DEF Stored, Session
<1>5. Set("callee", t, "ringing") /\ Exchange({m}, t.buf)
  <2>1. LET v == Invited("callee", s, m) IN Set("callee", v, "ringing") /\ Exchange({m}, v.buf)
    BY <1>1 DEF RecIncoming
  <2>2. Invited("callee", s, m) =
          IF s.st = "ok" THEN Send200Sdp("callee", s, s.tag)
          ELSE LET g == MakeResp("callee",
                          StopRetransmit([s EXCEPT !.sendS = "none", !.waitS = "none"]),
                          "INVITE", 180, s.tag)
               IN  IF s.sub THEN g ELSE [g EXCEPT !.sub = TRUE, !.tick = TRUE]
    BY ZenonT(60), <1>4 DEF Invited
  <2> HIDE DEF s
  <2>3. Invited("callee", s, m) = t
    BY <1>3, <2>2
  <2> HIDE DEF t
  <2> QED
    BY <2>1, <2>3
<1> HIDE DEF n, s
<1>6. q \in Session /\ Same(s, q)
  BY <1>3 DEF Same, Session
<1> HIDE DEF q
<1>7. i \in Session /\ Same(q, i)
  BY <1>6, StopRetransmitSame DEF Same
<1> HIDE DEF i
<1>8. "callee" \in Side /\ 180 \in Codes
  BY DEF Side, Codes
<1>9. ring \in Session /\ Same(i, ring) /\ \A r \in ring.buf : Fit(r)
  BY <1>2, <1>7, <1>8, RespKept
<1> HIDE DEF ring
<1>10. ring.st = "init" /\ ~ring.killed /\ ~ring.clear
  BY <1>3, <1>6, <1>7, <1>9 DEF Same
<1>11. t \in Session /\ t.st = "init" /\ t.sub /\ ~t.killed /\ ~t.clear /\ t.buf = ring.buf
  BY <1>9, <1>10 DEF Session
<1> HIDE DEF t
<1>12. Kept("callee", t) /\ \A r \in t.buf : Fit(r)
  BY <1>8, <1>9, <1>11, Going
<1>13. ses' = [ses EXCEPT !["callee"] = t] /\ net' \subseteq net \cup t.buf
       /\ tags' \in 0..MaxIncoming
  BY <1>1, <1>2, <1>5, ExchangeNet DEF Set, n
<1> QED
  BY <1>8, <1>12, <1>13 DEF TimerStep

LEMMA TimerReceive ==
  ASSUME TimerInv, "gsm" \notin Busy, NEW x \in Side, Receive(x)
  PROVE  TimerStep
<1>1. PICK m \in net :
        /\ m.to = x
        /\ \/ RecUnknown(x, m)
           \/ RecIncoming(x, m)
           \/ /\ Found(m) /\ UNCHANGED tags
              /\ \/ RecError(x, m) \/ RecInvitePending(x, m) \/ RecInEnding(x, m)
                 \/ RecAck(x, m) \/ RecByeCancel(x, m) \/ RecInvite(x, m)
                 \/ RecOk(x, m) \/ RecRinging(x, m) \/ RecPending(x, m)
  BY DEF Receive
<1> QED
  BY <1>1, TimerRecUnknown, TimerRecIncoming, TimerRecError, TimerRecInvitePending,
     TimerRecInEnding, TimerRecAck, TimerRecByeCancel, TimerRecInvite, TimerRecOk,
     TimerRecRinging, TimerRecPending

-----------------------------------------------------------------------------
(* The user interface.                                                       *)

LEMMA TimerCall ==
  ASSUME TimerInv, Call
  PROVE  TimerStep
<1> DEFINE t == MakeReq("caller", NewSes, "INVITE", 0)
<1>1. Set("caller", t, "calling") /\ Exchange({}, t.buf) /\ UNCHANGED tags
  BY DEF Call
<1>2. "caller" \in Side /\ "INVITE" \in Methods /\ 0 \in 0..MaxIncoming
  BY BoundAssumption DEF Side, Methods
<1>3. t \in Session /\ Same(NewSes, t) /\ \A r \in t.buf : Fit(r)
  BY <1>2, NewSesType, ReqKept
<1> HIDE DEF t
<1>4. Kept("caller", t)
  BY <1>2, <1>3, NewSesType, Going DEF Same
<1> QED
  BY <1>1, <1>2, <1>3, <1>4, Becomes

LEMMA TimerAnswerCall ==
  ASSUME TimerInv, AnswerCall
  PROVE  TimerStep
<1> DEFINE c == ses["callee"]
           s == [c EXCEPT !.st = "ok", !.sub = FALSE, !.tick = FALSE]
           t == Send200Sdp("callee", s, c.tag)
<1>1. /\ c.st = "init" /\ Set("callee", t, "talking") /\ Exchange({}, t.buf) /\ UNCHANGED tags
  BY DEF AnswerCall
<1>2. "callee" \in Side /\ 200 \in Codes
  BY DEF Side, Codes
<1>3. c \in Session /\ ~c.killed /\ ~c.clear /\ c.tag \in 0..MaxIncoming
  BY <1>1, <1>2, OwnKept DEF Whole
<1> HIDE DEF c
<1>4. s \in Session /\ s.st = "ok" /\ ~s.killed /\ ~s.clear
  BY <1>3 DEF Session
<1> HIDE DEF s
<1>5. /\ Same(s, t)
      /\ t.buf = {[to |-> Other("callee"), meth |-> "INVITE", code |-> 200, tag |-> c.tag]}
  BY <1>2, <1>3, <1>4, Send200SdpSame
<1>6. \A r \in t.buf : Fit(r)
  BY <1>2, <1>3, <1>5, FitInviteAnswer
<1> HIDE DEF t
<1>7. Kept("callee", t)
  BY <1>2, <1>4, <1>5, <1>6, Going DEF Same
<1> QED
  BY <1>1, <1>2, <1>6, <1>7, Becomes

LEMMA TimerEndCall ==
  ASSUME TimerInv, NEW x \in Side, NEW s, NEW code \in {480, 603}, EndCall(x, s, code),
         Whole(x, s), s.tag \in 0..MaxIncoming
  PROVE  TimerStep
<1> DEFINE t == Ended(x, s, code)
           e == [s EXCEPT !.media = FALSE, !.told = TRUE]
           w == [e EXCEPT !.st = "error", !.waitS = "ACK"]
           v == [e EXCEPT !.st = "ending"]
           id == IF s.st = "init" THEN "CANCEL" ELSE "BYE"
<1>1. /\ s.st \notin {"clear", "ending"} /\ UNCHANGED tags
      /\ Set(x, t, "ended") /\ Exchange({}, t.buf)
  BY DEF EndCall, CanEnd
<1>2. s \in Session /\ ~s.killed /\ ~s.clear
  BY <1>1 DEF Whole
<1>3. t = IF s.st = "init" /\ x = "callee" THEN MakeResp(x, w, "INVITE", code, s.tag)
          ELSE MakeReq(x, v, id, s.tag)
  BY DEF Ended
<1>4. e \in Session /\ ~e.killed /\ ~e.clear /\ e.sub = s.sub
  <2> DEFINE d == [s EXCEPT !.media = FALSE]
  <2>1. d \in Session /\ d.killed = s.killed /\ d.clear = s.clear /\ d.sub = s.sub
    BY ZenonT(60), <1>2 DEF Session
  <2> HIDE DEF d
  <2>2. e = [d EXCEPT !.told = TRUE]
    BY DEF d
  <2> HIDE DEF e
  <2> QED
    BY ZenonT(60), <1>2, <2>1, <2>2 DEF Session
<1> HIDE DEF e
<1>5. w \in Session /\ w.st = "error" /\ w.waitS = "ACK" /\ ~w.killed /\ ~w.clear /\ w.sub = s.sub
  BY ZenonT(60), <1>4 DEF Session
<1>6. v \in Session /\ v.st = "ending" /\ ~v.killed /\ ~v.clear
  BY <1>4 DEF Session
<1> HIDE DEF t, w, v
<1>7. Kept(x, t)
  <2>1. CASE s.st = "init" /\ x = "callee"
    <3>1. "INVITE" \in Methods /\ code \in Codes
      BY DEF Methods, Codes
    <3>2. t = MakeResp(x, w, "INVITE", code, s.tag)
      BY <1>3, <2>1
    <3>3. t \in Session /\ Same(w, t) /\ \A r \in t.buf : Fit(r)
      BY <1>5, <3>1, <3>2, RespKept
    <3>4. t.waitS = "ACK" /\ t.armed
      BY <1>5, <3>1, <3>2, MakeRespWaits
    <3>5. s.sub
      BY <2>1 DEF Whole
    <3>6. Whole(x, t)
      BY <1>5, <2>1, <3>3, <3>5 DEF Whole, Same
    <3>7. Timed(t)
      BY <1>5, <3>3, <3>4 DEF Timed, Due, Same
    <3> QED
      BY <3>3, <3>6, <3>7 DEF Kept
  <2>2. CASE ~(s.st = "init" /\ x = "callee")
    <3>1. id \in Methods /\ id # "ACK" /\ id \in {"CANCEL", "BYE"} /\ t = MakeReq(x, v, id, s.tag)
      BY <1>3, <2>2 DEF Methods
    <3> HIDE DEF id
    <3>2. t \in Session /\ Same(v, t) /\ \A r \in t.buf : Fit(r)
      BY <1>6, <3>1, ReqKept
    <3>3. t.waitS = "200" /\ t.sendS = id /\ t.armed
      BY <1>6, <3>1, MakeReqWaits
    <3>4. Whole(x, t)
      BY <1>6, <3>2 DEF Whole, Same
    <3>5. Timed(t)
      BY <1>6, <3>1, <3>2, <3>3 DEF Timed, Due, Same
    <3> QED
      BY <3>2, <3>4, <3>5 DEF Kept
  <2> QED
    BY <2>1, <2>2
<1>8. \A r \in t.buf : Fit(r)
  BY <1>7 DEF Kept
<1> QED
  BY <1>1, <1>7, <1>8, Becomes

LEMMA TimerSendReinvite ==
  ASSUME TimerInv, NEW x \in Side, NEW s, SendReinvite(x, s),
         Whole(x, s), s.tag \in 0..MaxIncoming
  PROVE  TimerStep
<1> DEFINE t == MakeReq(x, s, "INVITE", s.tag)
<1>1. /\ s.st \notin {"clear", "ending"} /\ UNCHANGED tags
      /\ Set(x, t, app[x]) /\ Exchange({}, t.buf)
  BY DEF SendReinvite
<1>2. s \in Session /\ ~s.killed /\ "INVITE" \in Methods /\ "INVITE" # "ACK"
  BY <1>1 DEF Whole, Methods
<1>3. t \in Session /\ Same(s, t) /\ \A r \in t.buf : Fit(r)
  BY <1>2, ReqKept
<1>4. t.waitS = "200" /\ t.armed
  BY <1>2, MakeReqWaits
<1> HIDE DEF t
<1>5. Whole(x, t)
  BY <1>1, <1>3, SameIsWhole
<1>6. Timed(t)
  BY <1>1, <1>3, <1>4 DEF Timed, Due, Same
<1>7. Kept(x, t)
  BY <1>3, <1>5, <1>6 DEF Kept
<1> QED
  BY <1>1, <1>3, <1>7, Becomes

LEMMA TimerReInvite ==
  ASSUME TimerInv, NEW x \in Side, ReInvite(x) \/ ReInviteAll(x)
  PROVE  TimerStep
<1>1. CASE ReInviteAll(x)
  BY <1>1, OwnKept, TimerSendReinvite DEF ReInviteAll
<1>2. CASE ReInvite(x)
  <2> DEFINE c == ses[x]
             s == [c EXCEPT !.reinv = TRUE]
  <2>1. SendReinvite(x, s)
    BY <1>2 DEF ReInvite
  <2>2. s.st \notin {"clear", "ending"} /\ c \in Session /\ Whole(x, c) /\ c.tag \in 0..MaxIncoming
    BY <2>1, OwnKept DEF SendReinvite
  <2> HIDE DEF c
  <2>3. /\ s \in Session /\ s.st = c.st /\ s.killed = c.killed /\ s.clear = c.clear
        /\ s.sub = c.sub /\ s.tag = c.tag
    BY <2>2 DEF Session
  <2> HIDE DEF s
  <2>4. Whole(x, s)
    BY <2>2, <2>3 DEF Whole
  <2> QED
    BY <2>1, <2>2, <2>3, <2>4, TimerSendReinvite
<1> QED
  BY <1>1, <1>2

-----------------------------------------------------------------------------
(* The timer thread.                                                         *)

LEMMA TimerResend ==
  ASSUME TimerInv, NEW x \in Side, Resend(x)
  PROVE  TimerStep
<1> DEFINE s == ses[x]
<1>1. /\ Whole(x, s) /\ Timed(s) /\ s \in Session /\ \A r \in s.buf : Fit(r)
      /\ s.waitS # "none" /\ UNCHANGED tags
  BY OwnKept DEF Resend, Watched
<1>2. s.st # "clear"
  BY <1>1, FreeType DEF Whole
<1>3. CASE s.retr > 0
  <2> DEFINE t == SendSip(s)
  <2>1. Set(x, t, app[x]) /\ Exchange({}, s.buf)
    BY <1>3 DEF Resend
  <2>2. Same(s, t) /\ t.buf = s.buf /\ t.waitS = s.waitS
    BY <1>1, SendSipSame, SendSipWaits
  <2>3. ~s.killed => t.sendS = s.sendS /\ t.armed
    BY <1>1, SendSipWaits
  <2> HIDE DEF s, t
  <2>4. Whole(x, t)
    BY <1>1, <1>2, <2>2, SameIsWhole
  <2>5. Timed(t)
    BY <1>1, <2>2, <2>3 DEF Timed, Due, Same, Whole
  <2>6. Kept(x, t)
    BY <1>1, <2>2, <2>4, <2>5 DEF Kept
  <2> QED
    BY <1>1, <2>1, <2>6, Becomes
<1>4. CASE ~(s.retr > 0)
  <2> DEFINE t == UpdateRetransmit(s)
  <2>1. Set(x, t, app[x]) /\ Exchange({}, {})
    BY <1>4 DEF Resend
  <2>2. Same(s, t) /\ t.buf = s.buf
    BY <1>1, UpdateRetransmitSame
  <2>3. t.sendS = s.sendS /\ t.waitS = s.waitS /\ t.armed
    BY <1>1, UpdateRetransmitWaits
  <2> HIDE DEF s, t
  <2>4. Whole(x, t)
    BY <1>1, <1>2, <2>2, SameIsWhole
  <2>5. Timed(t)
    BY <1>1, <2>2, <2>3 DEF Timed, Due, Same
  <2>6. Kept(x, t)
    BY <1>1, <2>2, <2>4, <2>5 DEF Kept
  <2> QED
    BY <1>1, <2>1, <2>6, Becomes
<1> QED
  BY <1>3, <1>4

LEMMA TimerUnanswered ==
  ASSUME TimerInv, NEW x \in Side, Unanswered(x)
  PROVE  TimerStep
<1> DEFINE c == ses[x]
           s == [c EXCEPT !.tick = FALSE]
<1>1. /\ Whole(x, c) /\ Timed(c) /\ c \in Session /\ c.tag \in 0..MaxIncoming
      /\ c.tick /\ \A r \in c.buf : Fit(r)
  BY OwnKept DEF Unanswered
<1>2. IF s.sub /\ CanEnd(s) THEN EndCall(x, s, 480)
      ELSE Set(x, s, app[x]) /\ Exchange({}, {}) /\ UNCHANGED tags
  BY DEF Unanswered
<1> HIDE DEF c
<1>3. /\ s \in Session /\ s.st = c.st /\ s.sub = c.sub /\ s.killed = c.killed
      /\ s.clear = c.clear /\ s.tag = c.tag /\ s.buf = c.buf /\ s.sendS = c.sendS
      /\ s.waitS = c.waitS /\ s.retr = c.retr /\ s.armed = c.armed
  BY <1>1 DEF Session
<1>4. c.st # "clear"
  <2>1. c.st = "clear" => c = Free
    BY <1>1 DEF Whole
  <2>2. Free.tick = FALSE
    BY DEF Free
  <2>3. c # Free
    BY <1>1, <2>2
  <2> QED
    BY <2>1, <2>3
<1> HIDE DEF s
<1>5. Whole(x, s)
  BY <1>1, <1>3, <1>4 DEF Whole
<1>6. CASE s.sub /\ CanEnd(s)
  BY <1>1, <1>2, <1>3, <1>5, <1>6, TimerEndCall
<1>7. CASE ~(s.sub /\ CanEnd(s))
  <2>1. s.st # "error"
    BY <1>5, <1>7 DEF Whole, CanEnd, Side
  <2>2. Timed(s)
    BY <1>1, <1>3, <2>1 DEF Timed, Due
  <2>3. Kept(x, s)
    BY <1>1, <1>3, <1>5, <2>2 DEF Kept
  <2> QED
    BY <1>2, <1>7, <2>3, Becomes
<1> QED
  BY <1>6, <1>7

LEMMA TimerTimer ==
  ASSUME TimerInv, NEW x \in Side, Timer(x)
  PROVE  TimerStep
<1>1. CASE ClearMem(x) \/ GiveUp(x)
  <2>1. /\ Set(x, KillSes(ses[x]), ToldEnd(ses[x], app[x])) /\ Exchange({}, {})
        /\ UNCHANGED tags
    BY <1>1 DEF ClearMem, GiveUp
  <2>2. ses[x] \in Session /\ \A m \in ses[x].buf \cup {} : Fit(m)
    BY OwnKept
  <2> QED
    BY <2>1, <2>2, Killed
<1> QED
  BY <1>1, TimerResend, TimerUnanswered DEF Timer

-----------------------------------------------------------------------------
(* The invariant and the theorem.                                            *)

LEMMA InitTimerInv == Init => TimerInv
<1> SUFFICES ASSUME Init PROVE TimerInv
  OBVIOUS
<1>1. ses = [x \in Side |-> Free] /\ net = {} /\ tags = 0
  BY DEF Init
<1>2. \A x \in Side : Kept(x, Free)
  BY FreeType DEF Kept, Whole, Timed, Free
<1>3. 0 \in 0..MaxIncoming /\ Free \in Session
  BY BoundAssumption, FreeType
<1> QED
  BY <1>1, <1>2, <1>3 DEF TimerInv

LEMMA TimerInvStays ==
  ASSUME TimerInv, "gsm" \notin Busy, [Next]_vars
  PROVE  TimerInv'
<1>1. ASSUME NEW x \in Side, Hangup(x) PROVE TimerStep
  BY <1>1, OwnKept, TimerEndCall DEF Hangup
<1>2. CASE Next
  BY <1>1, <1>2, TimerCall, TimerAnswerCall, TimerReInvite, TimerReceive, TimerTimer,
     TimerStepKeepsInv DEF Next
<1>3. CASE UNCHANGED vars
  BY <1>3 DEF vars, TimerInv
<1> QED
  BY <1>2, <1>3

LEMMA KeptIsTimed ==
  ASSUME NEW x \in Side, NEW s, Kept(x, s), s.st \in {"ending", "error"}
  PROVE  \/ s.clear
         \/ Watched(s) /\ (s.retr < 0 \/ s.armed)
         \/ s.tick /\ s.sub
         \/ Stranded(s)
<1>1. Timed(s) /\ Whole(x, s)
  BY DEF Kept
<1>2. CASE s.st = "ending"
  BY <1>1, <1>2 DEF Timed, Due, Watched
<1>3. CASE s.st = "error"
  <2>1. s.sub
    BY <1>1, <1>3 DEF Whole, Side
  <2> QED
    BY <1>1, <1>3, <2>1 DEF Timed, Due, Watched, Stranded
<1> QED
  BY <1>2, <1>3

LEMMA TimerInvIsTimed == TimerInv => EndingIsTimed
  BY KeptIsTimed DEF TimerInv, EndingIsTimed

(* A session that is over has its memory due, its message repeated until it   *)
(* gives up, or the timer of the ringing left, unless it was declined and is  *)
(* stranded (an INVITE that came after the refusal cleared what it waits for, *)
(* and the timer of the ringing is used up); networks, re-INVITEs and faults  *)
(* as they like, but no CANCEL refused because of a GSM call.                 *)
THEOREM EndingIsTimedCorrect == "gsm" \notin Busy => (Spec => []EndingIsTimed)
<1> SUFFICES ASSUME "gsm" \notin Busy PROVE Spec => []EndingIsTimed
  OBVIOUS
<1>1. TimerInv /\ [Next]_vars => TimerInv'
  BY TimerInvStays
<1> QED
  BY InitTimerInv, <1>1, TimerInvIsTimed, PTL DEF Spec
=============================================================================
