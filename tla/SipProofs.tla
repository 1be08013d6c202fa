------------------------------ MODULE SipProofs ------------------------------
(***************************************************************************)
(* The SIP session (SipSession.tla) implements the call of PhoneCall.tla,  *)
(* for any number of retransmissions, datagrams, faults and re-INVITEs, as *)
(* long as no phone changes its network during the call (Roaming).         *)
(***************************************************************************)
EXTENDS SipSession, TLAPS

(* The tags, and the answer of the user, behind a message: nothing is sent    *)
(* for a session the callee has not created; an INVITE of the callee, and the *)
(* answer to it, is about a session that was answered.  c is the callee's     *)
(* session.                                                                  *)
OfCallee(m) ==
  m.meth = "INVITE" /\ \/ m.to = "caller" /\ m.code = 0
                       \/ m.to = "callee" /\ m.code = 200

Good(m, c, a, n) ==
  /\ m \in Msg /\ m.tag <= n
  /\ m.to = "caller" /\ m.meth = "INVITE" /\ m.code = 200 => a
  /\ OfCallee(m) => m.tag # 0 /\ (m.tag = c.tag => c.st \in {"ok", "ending"})

(* What one end knows, s its session, u what its user interface was told, a   *)
(* and n as above.                                                           *)
Sound(x, s, u, a, n) ==
  /\ s \in Session /\ s.tag <= n
  /\ u \in {"none", "ended"} \cup Active
  /\ u = "talking" <=> s.st = "ok"
  /\ u \in {"calling", "ringing"} <=> s.st = "init"
  /\ s.st \in {"ending", "error"} => u = "ended"
  /\ s.told <=> s.st \in {"ending", "error"}
  /\ s.st = "clear" => s = Free
  /\ s.killed => s.st = "ending"
  /\ s.clear => s.killed
  /\ x = "caller" => s.st # "error" /\ u # "ringing"
  /\ x = "callee" =>
       /\ u # "calling"
       /\ s.st = "ok" => a
       /\ s.st # "clear" => s.tag # 0
       /\ s.st \in {"init", "error"} => s.sub
       /\ s.st = "error" => ~s.media

Inv ==
  /\ ses \in [Side -> Session] /\ app \in [Side -> {"none", "ended"} \cup Active]
  /\ answered \in BOOLEAN /\ tags \in 0..MaxIncoming
  /\ \A x \in Side : Sound(x, ses[x], app[x], answered, tags)
  /\ \A m \in net : Good(m, ses["callee"], answered, tags)
  /\ \A x \in Side : \A m \in ses[x].buf : Good(m, ses["callee"], answered, tags)
  /\ app["caller"] = "none" => net = {} /\ ses["callee"] = Free

-----------------------------------------------------------------------------
(* The operations on a session: they give sessions, and sending something     *)
(* changes nothing of what Sound is about.                                   *)

Same(s, t) ==
  /\ t \in Session
  /\ t.st = s.st /\ t.sub = s.sub /\ t.killed = s.killed /\ t.clear = s.clear
  /\ t.told = s.told /\ t.tag = s.tag /\ t.media = s.media

LEMMA RetrRange ==
  /\ -1..(RetrInvite + RetrRequest + RetrError) \subseteq Int
  /\ {-1, 0, RetrInvite, RetrRequest, RetrError} \subseteq
       -1..(RetrInvite + RetrRequest + RetrError)
  /\ \A r \in -1..(RetrInvite + RetrRequest + RetrError) :
       r > -1 => r - 1 \in -1..(RetrInvite + RetrRequest + RetrError)
  BY RetrAssumption

LEMMA StopRetransmitSame ==
  ASSUME NEW s \in Session
  PROVE  Same(s, StopRetransmit(s)) /\ StopRetransmit(s).buf = s.buf
  BY RetrRange DEF StopRetransmit, Same, Session

LEMMA SetRetransmitSame ==
  ASSUME NEW s \in Session, NEW n \in {RetrInvite, RetrRequest, RetrError}
  PROVE  Same(s, SetRetransmit(s, n)) /\ SetRetransmit(s, n).buf = s.buf
  BY RetrRange DEF SetRetransmit, Same, Session

LEMMA UpdateRetransmitSame ==
  ASSUME NEW s \in Session
  PROVE  Same(s, UpdateRetransmit(s)) /\ UpdateRetransmit(s).buf = s.buf
<1> DEFINE R == -1..(RetrInvite + RetrRequest + RetrError)
           r == IF s.retr > -1 THEN s.retr - 1 ELSE -1
<1>1. s.retr \in R
  BY DEF Session
<1>2. r \in R
  BY <1>1, RetrRange
<1> HIDE DEF r
<1>3. UpdateRetransmit(s) = [s EXCEPT !.armed = TRUE, !.retr = r]
  BY DEF UpdateRetransmit, r
<1> QED
  BY <1>2, <1>3 DEF Same, Session

LEMMA SendSipSame ==
  ASSUME NEW s \in Session
  PROVE  Same(s, SendSip(s)) /\ SendSip(s).buf = s.buf
<1> DEFINE t == IF s.waitS = "none" \/ s.killed
                THEN [StopRetransmit(s) EXCEPT !.sendS = "none"] ELSE s
<1>1. Same(s, t) /\ t.buf = s.buf
  BY StopRetransmitSame DEF Same, Session
<1> HIDE DEF t
<1>2. SendSip(s) = IF t.waitS = "none" THEN t ELSE UpdateRetransmit(t)
  BY DEF SendSip, t
<1>3. Same(t, UpdateRetransmit(t)) /\ UpdateRetransmit(t).buf = t.buf
  BY <1>1, UpdateRetransmitSame DEF Same
<1> QED
  BY <1>1, <1>2, <1>3 DEF Same

LEMMA RequestType ==
  ASSUME NEW x \in Side, NEW id \in Methods, NEW tag \in 0..MaxIncoming
  PROVE  Request(x, id, tag) \in Msg
  BY DEF Request, Msg, Side, Other, Codes

LEMMA MakeReqSame ==
  ASSUME NEW x \in Side, NEW s \in Session, NEW id \in Methods, NEW tag \in 0..MaxIncoming
  PROVE  /\ Same(s, MakeReq(x, s, id, tag))
         /\ MakeReq(x, s, id, tag).buf = {Request(x, id, IF id = "CANCEL" THEN 0 ELSE tag)}
<1> DEFINE b == {Request(x, id, IF id = "CANCEL" THEN 0 ELSE tag)}
           n == [s EXCEPT !.sendS = id, !.waitS = IF id = "ACK" THEN "none" ELSE "200",
                          !.buf = b]
           r == IF id = "INVITE" THEN RetrInvite ELSE RetrRequest
           u == IF id = "ACK" \/ s.sendS = id THEN n ELSE SetRetransmit(n, r)
<1>1. b \subseteq Msg
  <2>1. 0 \in 0..MaxIncoming
    BY BoundAssumption
  <2> QED
    BY <2>1, RequestType
<1> HIDE DEF b
<1>2. Same(s, n) /\ n.buf = b
  BY <1>1 DEF Same, Session
<1> HIDE DEF n
<1>3. n \in Session /\ Same(n, SetRetransmit(n, r)) /\ SetRetransmit(n, r).buf = n.buf
  BY <1>2, SetRetransmitSame DEF Same
<1> HIDE DEF r
<1>4. u \in Session /\ Same(s, u) /\ u.buf = b
  BY <1>2, <1>3 DEF Same
<1> HIDE DEF u
<1>5. MakeReq(x, s, id, tag) = SendSip(u)
  BY DEF MakeReq, u, n, r, b
<1>6. Same(u, SendSip(u)) /\ SendSip(u).buf = u.buf
  BY <1>4, SendSipSame
<1> QED
  BY <1>4, <1>5, <1>6 DEF Same, b

LEMMA MakeRespSame ==
  ASSUME NEW x \in Side, NEW s \in Session, NEW meth \in Methods, NEW code \in Codes,
         NEW tag \in 0..MaxIncoming
  PROVE  /\ Same(s, MakeResp(x, s, meth, code, tag))
         /\ MakeResp(x, s, meth, code, tag).buf =
              {[to |-> Other(x), meth |-> meth, code |-> code, tag |-> tag]}
<1> DEFINE b == {[to |-> Other(x), meth |-> meth, code |-> code, tag |-> tag]}
           n == [s EXCEPT !.buf = b]
           u == IF s.waitS = "ACK" /\ s.st = "error" /\ s.retr <= 0
                THEN SetRetransmit(n, RetrError) ELSE n
<1>1. b \subseteq Msg
  BY DEF Msg, Side, Other
<1> HIDE DEF b
<1>2. Same(s, n) /\ n.buf = b
  BY <1>1 DEF Same, Session
<1> HIDE DEF n
<1>3. n \in Session /\ Same(n, SetRetransmit(n, RetrError)) /\ SetRetransmit(n, RetrError).buf = n.buf
  BY <1>2, SetRetransmitSame DEF Same
<1>4. u \in Session /\ Same(s, u) /\ u.buf = b
  BY <1>2, <1>3 DEF Same
<1> HIDE DEF u
<1>5. MakeResp(x, s, meth, code, tag) = SendSip(u)
  BY DEF MakeResp, u, n, b
<1>6. Same(u, SendSip(u)) /\ SendSip(u).buf = u.buf
  BY <1>4, SendSipSame
<1> QED
  BY <1>4, <1>5, <1>6 DEF Same, b

LEMMA Send200SdpSame ==
  ASSUME NEW x \in Side, NEW s \in Session, NEW tag \in 0..MaxIncoming
  PROVE  /\ Same(s, Send200Sdp(x, s, tag))
         /\ Send200Sdp(x, s, tag).buf =
              {[to |-> Other(x), meth |-> "INVITE", code |-> 200, tag |-> tag]}
<1> DEFINE n == [s EXCEPT !.sendS = "none", !.waitS = "ACK"]
           u == UpdateRetransmit(SetRetransmit(n, RetrRequest))
<1>1. Same(s, n)
  BY DEF Same, Session
<1> HIDE DEF n
<1>2. n \in Session /\ Same(n, SetRetransmit(n, RetrRequest))
  BY <1>1, SetRetransmitSame DEF Same
<1>3. Same(SetRetransmit(n, RetrRequest), u)
  BY <1>2, UpdateRetransmitSame DEF Same
<1>4. Same(s, u)
  BY <1>1, <1>2, <1>3 DEF Same
<1> HIDE DEF u
<1>5. Send200Sdp(x, s, tag) = MakeResp(x, u, "INVITE", 200, tag)
  BY DEF Send200Sdp, u, n
<1>6. u \in Session /\ "INVITE" \in Methods /\ 200 \in Codes
  BY <1>4 DEF Same, Methods, Codes
<1> QED
  BY <1>4, <1>5, <1>6, MakeRespSame DEF Same

LEMMA FreeType ==
  /\ Free \in Session /\ NewSes \in Session
  /\ Free.buf = {} /\ Free.waitS = "none" /\ ~Free.tick /\ ~Free.clear
<1>1. 0 \in -1..(RetrInvite + RetrRequest + RetrError)
  BY RetrRange
<1>2. 0 \in 0..MaxIncoming
  BY BoundAssumption
<1>3. {} \in SUBSET Msg
  OBVIOUS
<1>4. Free \in Session
  BY <1>1, <1>2, <1>3 DEF Free, Session
<1>5. NewSes \in Session
  BY <1>4 DEF NewSes, Session
<1> QED
  BY <1>4, <1>5 DEF Free

LEMMA NewSesType ==
  /\ NewSes \in Session /\ NewSes.st = "init" /\ ~NewSes.sub /\ ~NewSes.reinv
  /\ ~NewSes.killed /\ ~NewSes.clear /\ ~NewSes.told /\ NewSes.tag = 0
<1>1. /\ Free \in Session /\ ~Free.sub /\ ~Free.reinv
      /\ ~Free.killed /\ ~Free.clear /\ ~Free.told /\ Free.tag = 0
  BY FreeType DEF Free
<1> QED
  BY <1>1 DEF NewSes, Session

-----------------------------------------------------------------------------
(* Every step is of one form: the session of x becomes t, its user interface  *)
(* is told u, and only datagrams of out are sent.                            *)

(* What becomes of the callee's session: it keeps its tag and is not set up   *)
(* again, or it is freed, or it is new.                                      *)
Follows(c, d, n) ==
  \/ d.tag = c.tag /\ (c.st \in {"ok", "ending"} => d.st \in {"ok", "ending"})
  \/ d.tag = 0
  \/ d.tag > n

(* What PhoneCall allows the user interface to be told.                       *)
Allowed(x, u, v) ==
  \/ answered' = answered /\ u = v
  \/ answered' = answered /\ u \in Active /\ v = "ended"
  \/ answered' = answered /\ x = "caller" /\ u = "none" /\ v = "calling"
  \/ answered' = answered /\ answered /\ x = "caller" /\ u = "calling" /\ v = "talking"
  \/ answered' = answered /\ x = "callee" /\ u \in {"none", "ended"} /\ v = "ringing"
  \/ answered' = TRUE /\ x = "callee" /\ u = "ringing" /\ v = "talking"

StepOf(x, t, u, out) ==
  /\ Set(x, t, u) /\ net' \subseteq net \cup out
  /\ answered' \in BOOLEAN /\ (answered => answered')
  /\ tags' \in 0..MaxIncoming /\ tags <= tags'
  /\ Sound(x, t, u, answered', tags')
  /\ \A m \in out \cup t.buf : Good(m, ses'["callee"], answered', tags')
  /\ x = "callee" => Follows(ses["callee"], t, tags)
  /\ app'["caller"] # "none"
  /\ Allowed(x, app[x], u)

LEMMA GoodStays ==
  ASSUME NEW m, NEW c, NEW d, NEW a \in BOOLEAN, NEW b \in BOOLEAN,
         NEW n \in 0..MaxIncoming, NEW k \in 0..MaxIncoming,
         Good(m, c, a, n), Follows(c, d, n), a => b, n <= k,
         d.tag \in 0..MaxIncoming
  PROVE  Good(m, d, b, k)
<1>1. m \in Msg /\ m.tag \in 0..MaxIncoming /\ m.tag <= n
  BY DEF Good, Msg
<1>2. m.tag <= k
  BY <1>1
<1>3. OfCallee(m) => m.tag # 0 /\ (m.tag = d.tag => d.st \in {"ok", "ending"})
  BY <1>1 DEF Good, Follows
<1> QED
  BY <1>1, <1>2, <1>3 DEF Good

LEMMA StepKeepsInv ==
  ASSUME Inv, NEW x \in Side, NEW t, NEW u, NEW out, StepOf(x, t, u, out)
  PROVE  Inv'
<1>1. /\ ses' = [ses EXCEPT ![x] = t] /\ app' = [app EXCEPT ![x] = u]
      /\ net' \subseteq net \cup out /\ t \in Session
      /\ ses \in [Side -> Session] /\ app \in [Side -> {"none", "ended"} \cup Active]
      /\ u \in {"none", "ended"} \cup Active
  BY DEF StepOf, Set, Sound, Inv
<1>2. /\ answered \in BOOLEAN /\ answered' \in BOOLEAN /\ (answered => answered')
      /\ tags \in 0..MaxIncoming /\ tags' \in 0..MaxIncoming /\ tags <= tags'
  BY DEF StepOf, Inv
<1>3. ses' \in [Side -> Session] /\ app' \in [Side -> {"none", "ended"} \cup Active]
  BY <1>1
<1>4. ASSUME NEW y \in Side PROVE Sound(y, ses'[y], app'[y], answered', tags')
  <2>1. CASE y = x
    BY <1>1, <2>1 DEF StepOf
  <2>2. CASE y # x
    <3>1. ses'[y] = ses[y] /\ app'[y] = app[y]
      BY <1>1, <2>2
    <3>2. Sound(y, ses[y], app[y], answered, tags) /\ ses[y].tag \in 0..MaxIncoming
      BY <1>1 DEF Inv, Session
    <3> QED
      BY <1>2, <3>1, <3>2 DEF Sound
  <2> QED
    BY <2>1, <2>2
<1>5. Follows(ses["callee"], ses'["callee"], tags)
  <2>1. CASE x = "callee"
    BY <1>1, <2>1 DEF StepOf, Side
  <2>2. CASE x # "callee"
    BY <1>1, <2>2 DEF Side, Follows
  <2> QED
    BY <2>1, <2>2
<1>6. ses'["callee"].tag \in 0..MaxIncoming
  BY <1>3 DEF Side, Session
<1>7. \A m : Good(m, ses["callee"], answered, tags) => Good(m, ses'["callee"], answered', tags')
  BY <1>2, <1>5, <1>6, GoodStays
<1>8. \A m \in net' : Good(m, ses'["callee"], answered', tags')
  BY <1>1, <1>7 DEF Inv, StepOf
<1>9. \A y \in Side : \A m \in ses'[y].buf : Good(m, ses'["callee"], answered', tags')
  <2> SUFFICES ASSUME NEW y \in Side, NEW m \in ses'[y].buf
               PROVE  Good(m, ses'["callee"], answered', tags')
    OBVIOUS
  <2>1. CASE y = x
    BY <1>1, <2>1 DEF StepOf
  <2>2. CASE y # x
    BY <1>1, <1>7, <2>2 DEF Inv
  <2> QED
    BY <2>1, <2>2
<1>10. app'["caller"] # "none"
  BY DEF StepOf
<1> QED
  BY <1>2, <1>3, <1>4, <1>8, <1>9, <1>10 DEF Inv

LEMMA StepIsCall ==
  ASSUME Inv, NEW x \in Side, NEW t, NEW u, NEW out, StepOf(x, t, u, out)
  PROVE  [Phone!CallNext]_(Phone!vars)
<1>1. app \in [Side -> {"none", "ended"} \cup Active] /\ app' = [app EXCEPT ![x] = u]
  BY DEF Inv, StepOf, Set
<1>2. Allowed(x, app[x], u) /\ app'["caller"] # "none"
  BY DEF StepOf
<1> USE DEF Phone!CallNext, Phone!vars, Phone!Dial, Phone!Ring, Phone!Answer, Phone!Connect,
            Phone!CallerEnds, Phone!CalleeEnds
<1>3. CASE x = "caller"
  <2>1. app' = [app EXCEPT !["caller"] = u] /\ app'["callee"] = app["callee"] /\ app'["caller"] = u
    BY <1>1, <1>3 DEF Side
  <2>2. app["caller"] # "ringing"
    BY DEF Inv, Sound, Side
  <2> QED
    BY <1>2, <1>3, <2>1, <2>2 DEF Allowed, Active
<1>4. CASE x = "callee"
  <2>1. app'["caller"] = app["caller"] /\ app'["callee"] = u
    BY <1>1, <1>4 DEF Side
  <2>2. app["callee"] # "calling"
    BY DEF Inv, Sound, Side
  <2> QED
    BY <1>2, <1>4, <2>1, <2>2 DEF Allowed, Active
<1> QED
  BY <1>3, <1>4 DEF Side

-----------------------------------------------------------------------------
(* The three steps that most actions take.                                   *)

LEMMA InCall ==
  ASSUME Inv, NEW x \in Side, ses[x].st # "clear"
  PROVE  app["caller"] # "none"
<1>1. CASE x = "caller"
  BY <1>1 DEF Inv, Sound, Session
<1>2. CASE x = "callee"
  BY <1>2 DEF Inv, Free
<1> QED
  BY <1>1, <1>2 DEF Side

(* t differs from s in what is waited for and sent only; the caller may have  *)
(* learnt another tag.                                                       *)
Similar(x, s, t) ==
  /\ t \in Session
  /\ t.st = s.st /\ t.sub = s.sub /\ t.killed = s.killed /\ t.clear = s.clear
  /\ t.told = s.told /\ t.media = s.media
  /\ t.tag <= tags /\ (x = "callee" => t.tag = s.tag)

LEMMA SameIsSimilar ==
  ASSUME Inv, NEW x \in Side, NEW s, NEW t, Similar(x, ses[x], s), Same(s, t)
  PROVE  Similar(x, ses[x], t)
  BY DEF Similar, Same

(* The call goes on as it was.                                               *)
LEMMA QuietStep ==
  ASSUME Inv, NEW x \in Side, NEW t, NEW out,
         Similar(x, ses[x], t), ses[x].st = "clear" => t = ses[x],
         Set(x, t, app[x]), net' \subseteq net \cup out, UNCHANGED <<answered, tags>>,
         \A m \in out \cup t.buf : Good(m, ses["callee"], answered, tags),
         app["caller"] # "none"
  PROVE  StepOf(x, t, app[x], out)
<1>1. answered \in BOOLEAN /\ tags \in 0..MaxIncoming /\ Sound(x, ses[x], app[x], answered, tags)
  BY DEF Inv
<1>2. Sound(x, t, app[x], answered', tags')
  BY <1>1 DEF Sound, Similar
<1>3. ses' = [ses EXCEPT ![x] = t] /\ app' = [app EXCEPT ![x] = app[x]]
      /\ ses \in [Side -> Session] /\ app \in [Side -> {"none", "ended"} \cup Active]
  BY DEF Set, Inv
<1>4. ses'["callee"].tag = ses["callee"].tag /\ ses'["callee"].st = ses["callee"].st
  BY <1>3 DEF Side, Similar
<1>5. \A m \in out \cup t.buf : Good(m, ses'["callee"], answered', tags')
  BY <1>4 DEF Good
<1>6. x = "callee" => Follows(ses["callee"], t, tags)
  BY DEF Follows, Similar
<1>7. app'["caller"] # "none"
  BY <1>3
<1> QED
  BY <1>1, <1>2, <1>5, <1>6, <1>7 DEF StepOf, Allowed

(* The session or what was told of it changes in any other way.              *)
LEMMA ChangeStep ==
  ASSUME Inv, NEW x \in Side, NEW t, NEW u, NEW out,
         Set(x, t, u), net' \subseteq net \cup out, UNCHANGED <<answered, tags>>,
         Sound(x, t, u, answered, tags), Allowed(x, app[x], u),
         x = "callee" => Follows(ses["callee"], t, tags),
         \A m \in out \cup t.buf : Good(m, ses["callee"], answered, tags),
         u # "none", x = "caller" \/ app["caller"] # "none"
  PROVE  StepOf(x, t, u, out)
<1>1. answered \in BOOLEAN /\ tags \in 0..MaxIncoming /\ tags <= tags
  BY DEF Inv
<1>2. ses' = [ses EXCEPT ![x] = t] /\ app' = [app EXCEPT ![x] = u]
      /\ ses \in [Side -> Session] /\ app \in [Side -> {"none", "ended"} \cup Active]
  BY DEF Set, Inv
<1>3. Follows(ses["callee"], ses'["callee"], tags)
  <2>1. CASE x = "callee"
    BY <1>2, <2>1 DEF Side
  <2>2. CASE x # "callee"
    BY <1>2, <2>2 DEF Side, Follows
  <2> QED
    BY <2>1, <2>2
<1>4. ses'["callee"].tag \in 0..MaxIncoming
  <2>1. ses' \in [Side -> Session]
    BY <1>2 DEF Sound
  <2> QED
    BY <2>1 DEF Side, Session
<1>5. \A m \in out \cup t.buf : Good(m, ses'["callee"], answered', tags')
  <2> SUFFICES ASSUME NEW m \in out \cup t.buf PROVE Good(m, ses'["callee"], answered', tags')
    OBVIOUS
  <2>1. Good(m, ses["callee"], answered, tags)
    OBVIOUS
  <2> QED
    BY <1>1, <1>3, <1>4, <2>1, GoodStays
<1>6. app'["caller"] # "none"
  BY <1>2 DEF Side
<1> QED
  BY <1>1, <1>5, <1>6 DEF StepOf

(* The session is ended, or its memory freed.                                *)
LEMMA KillStep ==
  ASSUME Inv, NEW x \in Side, NEW s, NEW out,
         Similar(x, ses[x], s), ses[x].st # "clear",
         Set(x, KillSes(s), ToldEnd(s, app[x])), net' \subseteq net \cup out,
         UNCHANGED <<answered, tags>>,
         \A m \in out \cup s.buf : Good(m, ses["callee"], answered, tags)
  PROVE  StepOf(x, KillSes(s), ToldEnd(s, app[x]), out)
<1> DEFINE t == KillSes(s)
           u == ToldEnd(s, app[x])
<1>1. /\ answered \in BOOLEAN /\ tags \in 0..MaxIncoming
      /\ Sound(x, ses[x], app[x], answered, tags) /\ s \in Session
  BY DEF Inv, Similar
<1> HIDE DEF t, u
<1>2. /\ Sound(x, t, u, answered, tags) /\ Allowed(x, app[x], u)
      /\ x = "callee" => Follows(ses["callee"], t, tags)
      /\ t.buf \subseteq s.buf /\ u # "none"
  <2>1. CASE s.killed
    <3>1. t = Free /\ u = app[x] /\ u = "ended"
      BY <1>1, <2>1 DEF t, u, KillSes, ToldEnd, Sound, Similar
    <3> QED
      BY <1>1, <3>1, FreeType DEF Sound, Free, Active, Follows, Allowed
  <2>2. CASE ~s.killed
    <3>1. t = [s EXCEPT !.killed = TRUE, !.media = FALSE, !.told = TRUE, !.st = "ending",
                        !.sendS = "none", !.waitS = "none", !.clear = TRUE]
      BY <2>2 DEF t, KillSes
    <3>2. /\ t \in Session /\ t.buf = s.buf /\ t.tag = s.tag /\ t.st = "ending"
          /\ t.told /\ t.killed /\ t.clear
      BY <1>1, <3>1 DEF Session
    <3>3. u = "ended" /\ (app[x] = "ended" \/ app[x] \in Active)
      BY <1>1, <2>2 DEF u, ToldEnd, Sound, Similar, Session, Active
    <3>4. s.tag <= tags /\ (x = "callee" => s.tag # 0 /\ s.tag = ses["callee"].tag)
      BY <1>1 DEF Similar, Sound
    <3>5. Sound(x, t, u, answered, tags)
      BY <3>2, <3>3, <3>4 DEF Sound, Active
    <3>6. Allowed(x, app[x], u)
      BY <3>3 DEF Allowed
    <3>7. x = "callee" => Follows(ses["callee"], t, tags)
      BY <3>2, <3>4 DEF Follows
    <3> QED
      BY <3>2, <3>3, <3>5, <3>6, <3>7
  <2> QED
    BY <2>1, <2>2
<1>3. Set(x, t, u) /\ app["caller"] # "none"
  BY InCall DEF t, u
<1>4. \A m \in out \cup t.buf : Good(m, ses["callee"], answered, tags)
  BY <1>2
<1>5. StepOf(x, t, u, out)
  BY <1>1, <1>2, <1>3, <1>4, ChangeStep
<1> QED
  BY <1>5 DEF t, u

-----------------------------------------------------------------------------
(* The network.                                                              *)

LEMMA ExchangeNet ==
  ASSUME NEW taken, NEW out, Exchange(taken, out)
  PROVE  net' \subseteq net \cup out
  BY DEF Exchange

(* A request or an answer that is about no call of the callee's own.         *)
LEMMA GoodMsg ==
  ASSUME Inv, NEW m \in Msg, m.tag <= tags, ~OfCallee(m),
         m.to = "caller" /\ m.meth = "INVITE" => m.code # 200
  PROVE  Good(m, ses["callee"], answered, tags)
  BY DEF Good

LEMMA GoodReceived ==
  ASSUME Inv, NEW m \in net
  PROVE  /\ Good(m, ses["callee"], answered, tags) /\ m \in Msg /\ m.tag \in 0..MaxIncoming
         /\ m.tag <= tags /\ m.to \in Side /\ app["caller"] # "none"
<1>1. Good(m, ses["callee"], answered, tags) /\ app["caller"] # "none"
  BY DEF Inv
<1> QED
  BY <1>1 DEF Good, Msg

LEMMA GoodReply ==
  ASSUME Inv, NEW m \in net, NEW code \in Codes \ {0}, m.meth = "INVITE" => code # 200
  PROVE  \A r \in SendResp(m, code) : Good(r, ses["callee"], answered, tags)
<1> SUFFICES ASSUME NEW r \in SendResp(m, code)
             PROVE  Good(r, ses["callee"], answered, tags)
  OBVIOUS
<1>1. /\ r = [to |-> Other(m.to), meth |-> m.meth, code |-> code, tag |-> m.tag]
      /\ m \in Msg /\ m.tag <= tags
  BY GoodReceived DEF SendResp
<1>2. r \in Msg /\ r.meth = m.meth /\ r.code = code /\ r.tag = m.tag
  BY <1>1 DEF Msg, Other, Side
<1> QED
  BY <1>1, <1>2, GoodMsg DEF OfCallee

LEMMA GoodRequest ==
  ASSUME Inv, NEW x \in Side, NEW id \in {"ACK", "CANCEL", "BYE"}, NEW tag \in 0..MaxIncoming,
         tag <= tags
  PROVE  \A r \in {Request(x, id, IF id = "CANCEL" THEN 0 ELSE tag)} :
           Good(r, ses["callee"], answered, tags)
<1> DEFINE g == IF id = "CANCEL" THEN 0 ELSE tag
           r == Request(x, id, g)
<1>1. g \in 0..MaxIncoming /\ g <= tags
  BY BoundAssumption DEF Inv
<1>2. r \in Msg /\ r.meth = id /\ r.tag = g
  BY <1>1, RequestType DEF Methods, Request
<1> QED
  BY <1>1, <1>2, GoodMsg DEF OfCallee

-----------------------------------------------------------------------------
(* The receive thread.                                                       *)

Step == \E x \in Side : \E t, u, out : StepOf(x, t, u, out)

(* A datagram that is for a session is answered out of it.                    *)
LEMMA ReceivedQuiet ==
  ASSUME Inv, NEW x \in Side, NEW m \in net, NEW t, NEW out,
         Similar(x, ses[x], t), ses[x].st # "clear" \/ t = ses[x],
         Set(x, t, app[x]), Exchange({m}, out), UNCHANGED <<answered, tags>>,
         \A r \in out \cup t.buf : Good(r, ses["callee"], answered, tags)
  PROVE  Step
<1>1. app["caller"] # "none"
  BY GoodReceived
<1>2. net' \subseteq net \cup out
  BY ExchangeNet
<1> QED
  BY <1>1, <1>2, QuietStep DEF Step

LEMMA ReceivedKill ==
  ASSUME Inv, NEW x \in Side, NEW m \in net, NEW s, NEW out,
         Similar(x, ses[x], s), ses[x].st # "clear",
         Kill(x, s, m, out), UNCHANGED <<answered, tags>>,
         \A r \in out \cup s.buf : Good(r, ses["callee"], answered, tags)
  PROVE  Step
<1>1. Set(x, KillSes(s), ToldEnd(s, app[x])) /\ net' \subseteq net \cup out
  BY ExchangeNet DEF Kill
<1> QED
  BY <1>1, KillStep DEF Step

LEMMA OwnSession ==
  ASSUME Inv, NEW x \in Side
  PROVE  /\ ses[x] \in Session /\ Similar(x, ses[x], ses[x])
         /\ Sound(x, ses[x], app[x], answered, tags)
         /\ ses[x].tag \in 0..MaxIncoming /\ ses[x].tag <= tags
         /\ \A r \in ses[x].buf : Good(r, ses["callee"], answered, tags)
<1>1. Sound(x, ses[x], app[x], answered, tags)
  BY DEF Inv
<1> QED
  BY <1>1 DEF Inv, Sound, Similar, Session

(* Sending a request other than an INVITE.                                   *)
LEMMA ReqSimilar ==
  ASSUME Inv, NEW x \in Side, NEW s, Similar(x, ses[x], s),
         NEW id \in {"ACK", "CANCEL", "BYE"}, NEW tag \in 0..MaxIncoming, tag <= tags
  PROVE  /\ Similar(x, ses[x], MakeReq(x, s, id, tag))
         /\ \A r \in MakeReq(x, s, id, tag).buf : Good(r, ses["callee"], answered, tags)
<1>1. s \in Session /\ id \in Methods
  BY DEF Similar, Methods
<1> QED
  BY <1>1, MakeReqSame, SameIsSimilar, GoodRequest

(* Answering an INVITE, but not with a 200.                                  *)
LEMMA RespSimilar ==
  ASSUME Inv, NEW x \in Side, NEW s, Similar(x, ses[x], s),
         NEW code \in Codes \ {0, 200}, NEW tag \in 0..MaxIncoming, tag <= tags
  PROVE  /\ Similar(x, ses[x], MakeResp(x, s, "INVITE", code, tag))
         /\ \A r \in MakeResp(x, s, "INVITE", code, tag).buf :
              Good(r, ses["callee"], answered, tags)
<1> DEFINE r == [to |-> Other(x), meth |-> "INVITE", code |-> code, tag |-> tag]
<1>1. s \in Session /\ "INVITE" \in Methods /\ code \in Codes
  BY DEF Similar, Methods
<1>2. Similar(x, ses[x], MakeResp(x, s, "INVITE", code, tag))
  BY <1>1, MakeRespSame, SameIsSimilar
<1>3. MakeResp(x, s, "INVITE", code, tag).buf = {r}
  BY <1>1, MakeRespSame
<1>4. r \in Msg /\ r.meth = "INVITE" /\ r.code = code /\ r.tag = tag
  BY <1>1 DEF Msg, Other, Side
<1>5. Good(r, ses["callee"], answered, tags)
  BY <1>4, GoodMsg DEF OfCallee
<1> QED
  BY <1>2, <1>3, <1>5

LEMMA StopSimilar ==
  ASSUME Inv, NEW x \in Side, NEW s, Similar(x, ses[x], s)
  PROVE  Similar(x, ses[x], StopRetransmit(s)) /\ StopRetransmit(s).buf = s.buf
<1>1. s \in Session
  BY DEF Similar
<1> QED
  BY <1>1, StopRetransmitSame, SameIsSimilar

LEMMA StepRecError ==
  ASSUME Inv, NEW m \in net, Found(m), RecError(m.to, m), UNCHANGED <<answered, tags>>
  PROVE  Step
<1> DEFINE x == m.to
           t == IF m.code = 481 THEN ses[x] ELSE MakeReq(x, ses[x], "ACK", m.tag)
           out == IF m.code = 481 THEN {} ELSE t.buf
<1>1. x \in Side /\ m.tag \in 0..MaxIncoming /\ m.tag <= tags
  BY GoodReceived
<1>2. ses[x].st # "clear"
  BY DEF Found
<1>3. Similar(x, ses[x], t) /\ \A r \in t.buf : Good(r, ses["callee"], answered, tags)
  <2>1. CASE m.code = 481
    BY <1>1, <2>1, OwnSession
  <2>2. CASE m.code # 481
    BY <1>1, <2>2, OwnSession, ReqSimilar
  <2> QED
    BY <2>1, <2>2
<1>4. IF m.meth = "INVITE" THEN Kill(x, t, m, out)
      ELSE Set(x, t, app[x]) /\ Exchange({m}, out)
  BY DEF RecError
<1>5. \A r \in out \cup t.buf : Good(r, ses["callee"], answered, tags)
  BY <1>3
<1> HIDE DEF x, t, out
<1>6. CASE m.meth = "INVITE"
  BY <1>1, <1>2, <1>3, <1>4, <1>5, <1>6, ReceivedKill
<1>7. CASE m.meth # "INVITE"
  BY <1>1, <1>2, <1>3, <1>4, <1>5, <1>7, ReceivedQuiet
<1> QED
  BY <1>6, <1>7

LEMMA StepRecInvitePending ==
  ASSUME Inv, NEW m \in net, RecInvitePending(m.to, m), UNCHANGED <<answered, tags>>
  PROVE  Step
<1>1. /\ m.to \in Side
      /\ Set(m.to, ses[m.to], app[m.to]) /\ Exchange({m}, SendResp(m, 491))
  BY GoodReceived DEF RecInvitePending
<1>2. \A r \in SendResp(m, 491) : Good(r, ses["callee"], answered, tags)
  BY GoodReply DEF Codes
<1>3. \A r \in SendResp(m, 491) \cup ses[m.to].buf : Good(r, ses["callee"], answered, tags)
  BY <1>1, <1>2, OwnSession
<1> QED
  BY <1>1, <1>3, OwnSession, ReceivedQuiet

LEMMA StepRecInEnding ==
  ASSUME Inv, NEW m \in net, RecInEnding(m.to, m), UNCHANGED <<answered, tags>>
  PROVE  Step
<1> DEFINE x == m.to
           t == MakeReq(x, ses[x], "BYE", ses[x].tag)
<1>1. x \in Side /\ ses[x].st # "clear" /\ m.meth = "INVITE"
  BY GoodReceived DEF RecInEnding
<1>2. CASE IsReq(m)
  <2>1. Set(x, ses[x], app[x]) /\ Exchange({m}, SendResp(m, 603))
    BY <1>2 DEF RecInEnding
  <2>2. \A r \in SendResp(m, 603) \cup ses[x].buf : Good(r, ses["callee"], answered, tags)
    BY <1>1, OwnSession, GoodReply DEF Codes
  <2> QED
    BY <1>1, <2>1, <2>2, OwnSession, ReceivedQuiet
<1>3. CASE ~IsReq(m)
  <2>1. Set(x, t, app[x]) /\ Exchange({m}, t.buf)
    BY <1>3 DEF RecInEnding
  <2>2. Similar(x, ses[x], t) /\ \A r \in t.buf \cup t.buf : Good(r, ses["callee"], answered, tags)
    BY <1>1, OwnSession, ReqSimilar
  <2> HIDE DEF t
  <2> QED
    BY <1>1, <2>1, <2>2, ReceivedQuiet
<1> QED
  BY <1>2, <1>3

LEMMA StepRecAck ==
  ASSUME Inv, NEW m \in net, Found(m), RecAck(m.to, m), UNCHANGED <<answered, tags>>
  PROVE  Step
<1> DEFINE x == m.to
           t == [StopRetransmit(ses[x]) EXCEPT !.sendS = "none", !.waitS = "none"]
<1>1. x \in Side /\ ses[x].st # "clear"
  BY GoodReceived DEF Found
<1>2. \A r \in {} \cup ses[x].buf : Good(r, ses["callee"], answered, tags)
  BY <1>1, OwnSession
<1>3. Similar(x, ses[x], t) /\ t.buf = ses[x].buf
  <2> DEFINE q == StopRetransmit(ses[x])
  <2>1. Similar(x, ses[x], q) /\ q.buf = ses[x].buf
    BY <1>1, OwnSession, StopSimilar
  <2>2. t = [q EXCEPT !.sendS = "none", !.waitS = "none"]
    OBVIOUS
  <2> HIDE DEF q, t
  <2> QED
    BY <2>1, <2>2 DEF Similar, Session
<1>4. CASE ses[x].waitS # "ACK"
  BY <1>1, <1>2, <1>4, OwnSession, ReceivedQuiet DEF RecAck
<1>5. CASE ses[x].waitS = "ACK" /\ ses[x].st = "error"
  BY <1>1, <1>2, <1>5, OwnSession, ReceivedKill DEF RecAck
<1>6. CASE ses[x].waitS = "ACK" /\ ses[x].st # "error"
  <2>1. Set(x, t, app[x]) /\ Exchange({m}, {})
    BY <1>6 DEF RecAck
  <2> HIDE DEF t
  <2> QED
    BY <1>1, <1>2, <1>3, <2>1, ReceivedQuiet
<1> QED
  BY <1>4, <1>5, <1>6

LEMMA StepRecByeCancel ==
  ASSUME Inv, NEW m \in net, Found(m), RecByeCancel(m.to, m), UNCHANGED <<answered, tags>>
  PROVE  Step
<1> DEFINE x == m.to
           s == StopRetransmit(ses[x])
           t == MakeResp(x, s, "INVITE", 487, s.tag)
<1>1. x \in Side /\ ses[x].st # "clear" /\ m.meth \in {"BYE", "CANCEL"}
  BY GoodReceived DEF Found, RecByeCancel
<1>2. /\ Similar(x, ses[x], s) /\ s.tag \in 0..MaxIncoming /\ s.tag <= tags
      /\ \A r \in s.buf : Good(r, ses["callee"], answered, tags)
  BY <1>1, OwnSession, StopSimilar DEF Similar, Session
<1>3. \A r \in SendResp(m, 200) : Good(r, ses["callee"], answered, tags)
  BY <1>1, GoodReply DEF Codes
<1>4. 487 \in Codes \ {0, 200}
  BY DEF Codes
<1> HIDE DEF s
<1>5. Similar(x, ses[x], t) /\ \A r \in t.buf : Good(r, ses["callee"], answered, tags)
  BY <1>1, <1>2, <1>4, RespSimilar
<1> HIDE DEF t
<1>6. CASE ~IsReq(m)
  <2>1. Kill(x, ses[x], m, {})
    BY <1>6 DEF RecByeCancel
  <2>2. \A r \in {} \cup ses[x].buf : Good(r, ses["callee"], answered, tags)
    BY <1>1, OwnSession
  <2> QED
    BY <1>1, <2>1, <2>2, OwnSession, ReceivedKill
<1>7. CASE IsReq(m) /\ m.meth = "BYE"
  <2>1. Kill(x, s, m, SendResp(m, 200))
    BY <1>7 DEF RecByeCancel, s
  <2>2. \A r \in SendResp(m, 200) \cup s.buf : Good(r, ses["callee"], answered, tags)
    BY <1>2, <1>3
  <2> QED
    BY <1>1, <1>2, <2>1, <2>2, ReceivedKill
<1>8. CASE IsReq(m) /\ m.meth # "BYE"
  <2>1. Kill(x, t, m, SendResp(m, 200) \cup t.buf)
    BY <1>8 DEF RecByeCancel, s, t
  <2>2. \A r \in (SendResp(m, 200) \cup t.buf) \cup t.buf : Good(r, ses["callee"], answered, tags)
    BY <1>3, <1>5
  <2> QED
    BY <1>1, <1>5, <2>1, <2>2, ReceivedKill
<1> QED
  BY <1>6, <1>7, <1>8

LEMMA StoredSimilar ==
  ASSUME Inv, NEW m \in net
  PROVE  /\ Similar(m.to, ses[m.to], Stored(m.to, ses[m.to], m))
         /\ Stored(m.to, ses[m.to], m).buf = ses[m.to].buf
         /\ m.to = "caller" /\ IsReq(m) => Stored(m.to, ses[m.to], m).tag = m.tag
<1> DEFINE x == m.to
           g == IF x = "caller" /\ (IsReq(m) \/ ses[x].tag = 0) THEN m.tag ELSE ses[x].tag
<1>1. m.to \in Side /\ m.tag \in 0..MaxIncoming /\ m.tag <= tags
  BY GoodReceived
<1>2. ses[x] \in Session /\ ses[x].tag \in 0..MaxIncoming /\ ses[x].tag <= tags
  BY <1>1, OwnSession
<1>3. g \in 0..MaxIncoming /\ g <= tags /\ (x = "callee" => g = ses[x].tag)
  BY <1>1, <1>2
<1>4. Stored(x, ses[x], m) = [ses[x] EXCEPT !.reinv = FALSE, !.tag = g]
  BY DEF Stored
<1>5. x = "caller" /\ IsReq(m) => g = m.tag
  OBVIOUS
<1> HIDE DEF g
<1> QED
  BY ZenonT(60), <1>2, <1>3, <1>4, <1>5 DEF Similar, Session

(* A session that neither repeats nor waits, and its 180.                     *)
Idle(s) == StopRetransmit([s EXCEPT !.sendS = "none", !.waitS = "none"])

LEMMA IdleSimilar ==
  ASSUME Inv, NEW x \in Side, NEW s, Similar(x, ses[x], s), NEW w \in {"none", "200"}
  PROVE  LET t == StopRetransmit([s EXCEPT !.sendS = "none", !.waitS = w])
         IN  Similar(x, ses[x], t) /\ t.buf = s.buf
<1> DEFINE n == [s EXCEPT !.sendS = "none", !.waitS = w]
<1>1. Similar(x, ses[x], n) /\ n.buf = s.buf
  BY DEF Similar, Session
<1> HIDE DEF n
<1>2. Similar(x, ses[x], StopRetransmit(n)) /\ StopRetransmit(n).buf = n.buf
  BY <1>1, StopSimilar
<1> QED
  BY <1>1, <1>2 DEF n

LEMMA RingSimilar ==
  ASSUME Inv, NEW m \in net
  PROVE  LET x == m.to
             s == Stored(x, ses[x], m)
             ring == MakeResp(x, Idle(s), "INVITE", 180, s.tag)
         IN  Similar(x, ses[x], ring) /\ \A r \in ring.buf : Good(r, ses["callee"], answered, tags)
<1> DEFINE x == m.to
           s == Stored(x, ses[x], m)
<1>1. x \in Side /\ Similar(x, ses[x], s)
  BY GoodReceived, StoredSimilar
<1>2. Similar(x, ses[x], Idle(s))
  BY <1>1, IdleSimilar DEF Idle
<1>3. s.tag \in 0..MaxIncoming /\ s.tag <= tags /\ 180 \in Codes \ {0, 200}
  BY <1>1 DEF Similar, Session, Codes
<1> DEFINE i == Idle(s)
           g == s.tag
<1>4. Similar(x, ses[x], i) /\ g \in 0..MaxIncoming /\ g <= tags
  BY <1>2, <1>3
<1> HIDE DEF x, i, g
<1>5. Similar(x, ses[x], MakeResp(x, i, "INVITE", 180, g))
  BY ZenonT(60), <1>1, <1>3, <1>4, RespSimilar
<1>6. \A r \in MakeResp(x, i, "INVITE", 180, g).buf : Good(r, ses["callee"], answered, tags)
  BY <1>1, <1>3, <1>4, RespSimilar
<1> QED
  BY <1>5, <1>6 DEF x, i, g

(* The caller's session begins to ring for a re-INVITE of the callee.         *)
LEMMA RingStep ==
  ASSUME Inv, NEW q, NEW out, NEW t,
         Similar("caller", ses["caller"], q), ses["caller"].st = "init",
         t = [q EXCEPT !.sub = TRUE, !.tick = TRUE],
         Set("caller", t, app["caller"]), net' \subseteq net \cup out, UNCHANGED <<answered, tags>>,
         \A m \in out \cup q.buf : Good(m, ses["callee"], answered, tags)
  PROVE  StepOf("caller", t, app["caller"], out)
<1>1. /\ Sound("caller", ses["caller"], app["caller"], answered, tags)
      /\ answered \in BOOLEAN /\ tags \in 0..MaxIncoming
  BY DEF Inv, Side
<1>2. /\ t \in Session /\ t.buf = q.buf /\ t.st = "init" /\ t.tag <= tags
      /\ t.told = ses["caller"].told /\ t.killed = ses["caller"].killed
      /\ t.clear = ses["caller"].clear
  BY DEF Similar, Session
<1>3. Sound("caller", t, app["caller"], answered', tags')
  BY <1>1, <1>2 DEF Sound, Active
<1>4. app["caller"] # "none"
  BY <1>1 DEF Sound
<1>5. ses' = [ses EXCEPT !["caller"] = t] /\ app' = [app EXCEPT !["caller"] = app["caller"]]
      /\ app \in [Side -> {"none", "ended"} \cup Active]
  BY DEF Set, Inv
<1>6. ses'["callee"] = ses["callee"] /\ app'["caller"] # "none"
  BY <1>4, <1>5 DEF Inv, Side
<1> QED
  BY <1>1, <1>2, <1>3, <1>6 DEF StepOf, Allowed

LEMMA StepRecInvite ==
  ASSUME Inv, NEW m \in net, Found(m), RecInvite(m.to, m), UNCHANGED <<answered, tags>>
  PROVE  Step
<1> DEFINE x == m.to
           s == Stored(x, ses[x], m)
           ring == MakeResp(x, Idle(s), "INVITE", 180, s.tag)
           t == Invited(x, ses[x], m)
<1>1. /\ x \in Side /\ ses[x].st \notin {"clear", "ending"} /\ m.meth = "INVITE" /\ m.code = 0
      /\ Set(x, t, app[x]) /\ Exchange({m}, t.buf)
  BY GoodReceived DEF Found, RecInvite, IsReq
<1>2. Similar(x, ses[x], s) /\ (x = "caller" => s.tag = m.tag)
  BY <1>1, StoredSimilar DEF IsReq
<1>3. s \in Session /\ s.st = ses[x].st /\ s.sub = ses[x].sub /\ s.tag \in 0..MaxIncoming
      /\ s.tag <= tags
  BY <1>2 DEF Similar, Session
<1>4. Similar(x, ses[x], ring) /\ \A r \in ring.buf : Good(r, ses["callee"], answered, tags)
  BY RingSimilar
<1>5. t = IF s.st = "ok" THEN Send200Sdp(x, s, s.tag)
          ELSE IF s.sub THEN ring ELSE [ring EXCEPT !.sub = TRUE, !.tick = TRUE]
  BY DEF Invited, Idle
<1>6. /\ Sound(x, ses[x], app[x], answered, tags) /\ Good(m, ses["callee"], answered, tags)
      /\ m \in Msg
  BY <1>1, OwnSession, GoodReceived
<1> HIDE DEF s, ring, t
<1>7. CASE s.st = "ok"
  <2> DEFINE a == [to |-> Other(x), meth |-> "INVITE", code |-> 200, tag |-> s.tag]
  <2>1. Same(s, t) /\ t.buf = {a}
    BY <1>1, <1>3, <1>5, <1>7, Send200SdpSame
  <2>2. Similar(x, ses[x], t)
    BY <1>1, <1>2, <2>1, SameIsSimilar
  <2>3. /\ a \in Msg /\ a.tag = s.tag /\ a.to = Other(x) /\ a.meth = "INVITE" /\ a.code = 200
    BY <1>1, <1>3 DEF Msg, Other, Side, Methods, Codes
  <2>4. Good(a, ses["callee"], answered, tags)
    <3>1. CASE x = "caller"
      <4>1. a.to = "callee" /\ m.to = "caller" /\ OfCallee(m) /\ a.tag = m.tag
        BY <1>1, <1>2, <2>3, <3>1 DEF OfCallee, Other
      <4>2. m.tag # 0 /\ (m.tag = ses["callee"].tag => ses["callee"].st \in {"ok", "ending"})
        BY <1>6, <4>1 DEF Good
      <4> QED
        BY <1>3, <2>3, <4>1, <4>2 DEF Good
    <3>2. CASE x = "callee"
      <4>1. a.to = "caller" /\ ~OfCallee(a) /\ answered
        BY <1>3, <1>6, <1>7, <2>3, <3>2 DEF OfCallee, Other, Sound
      <4> QED
        BY <1>3, <2>3, <4>1 DEF Good
    <3> QED
      BY <1>1, <3>1, <3>2 DEF Side
  <2>6. \A r \in t.buf \cup t.buf : Good(r, ses["callee"], answered, tags)
    BY <2>1, <2>4
  <2> HIDE DEF x
  <2> QED
    BY <1>1, <2>2, <2>6, ReceivedQuiet
<1>8. CASE s.st # "ok" /\ s.sub
  <2>1. t = ring
    BY <1>5, <1>8
  <2> HIDE DEF x
  <2> QED
    BY <1>1, <1>4, <2>1, ReceivedQuiet
<1>9. CASE s.st # "ok" /\ ~s.sub
  <2>1. t = [ring EXCEPT !.sub = TRUE, !.tick = TRUE]
    BY <1>5, <1>9
  <2>2. ses[x].st \in {"init", "error"} /\ ~ses[x].sub
    BY <1>1, <1>3, <1>6, <1>9 DEF Sound, Session
  <2>3. x = "caller" /\ ses["caller"].st = "init"
    BY <1>1, <1>6, <2>2 DEF Sound, Side
  <2>4. ring \in Session
    BY <1>4 DEF Similar
  <2>5. t.sub /\ t.buf = ring.buf
    BY <2>1, <2>4 DEF Session
  <2>6. net' \subseteq net \cup t.buf
    BY <1>1, ExchangeNet
  <2>7. \A r \in t.buf \cup ring.buf : Good(r, ses["callee"], answered, tags)
    BY <1>4, <2>5
  <2>8. Set("caller", t, app["caller"]) /\ Similar("caller", ses["caller"], ring)
    BY <1>1, <1>4, <2>3
  <2> HIDE DEF x
  <2>9. StepOf("caller", t, app["caller"], t.buf)
    BY <2>1, <2>3, <2>6, <2>7, <2>8, RingStep
  <2> QED
    BY <2>9 DEF Step, Side
<1> QED
  BY <1>7, <1>8, <1>9

(* A 200 for the INVITE sets the call up, unless it stands.                   *)
LEMMA TalkStep ==
  ASSUME Inv, NEW q, NEW out, NEW t,
         Similar("caller", ses["caller"], q), ses["caller"].st = "init", answered,
         t = [q EXCEPT !.st = "ok"],
         Set("caller", t, "talking"), net' \subseteq net \cup out, UNCHANGED <<answered, tags>>,
         \A m \in out \cup q.buf : Good(m, ses["callee"], answered, tags)
  PROVE  StepOf("caller", t, "talking", out)
<1>1. /\ Sound("caller", ses["caller"], app["caller"], answered, tags)
      /\ answered \in BOOLEAN /\ tags \in 0..MaxIncoming
  BY DEF Inv, Side
<1>2. /\ t \in Session /\ t.buf = q.buf /\ t.st = "ok" /\ t.tag <= tags
      /\ t.told = ses["caller"].told /\ t.killed = ses["caller"].killed
      /\ t.clear = ses["caller"].clear
  BY DEF Similar, Session
<1>3. Sound("caller", t, "talking", answered', tags')
  BY <1>1, <1>2 DEF Sound, Active
<1>4. app["caller"] = "calling"
  BY <1>1 DEF Sound
<1>5. ses' = [ses EXCEPT !["caller"] = t] /\ app' = [app EXCEPT !["caller"] = "talking"]
      /\ app \in [Side -> {"none", "ended"} \cup Active]
  BY DEF Set, Inv
<1>6. ses'["callee"] = ses["callee"] /\ app'["caller"] # "none"
  BY <1>5 DEF Inv, Side
<1>7. Allowed("caller", app["caller"], "talking")
  BY <1>4 DEF Allowed
<1>8. tags <= tags' /\ (answered => answered')
  BY <1>1
<1>9. \A m \in out \cup t.buf : Good(m, ses'["callee"], answered', tags')
  BY <1>2, <1>6
<1> QED
  BY <1>1, <1>3, <1>6, <1>7, <1>8, <1>9 DEF StepOf

LEMMA StepRecOk ==
  ASSUME Inv, NEW m \in net, Found(m), RecOk(m.to, m), UNCHANGED <<answered, tags>>
  PROVE  Step
<1> DEFINE x == m.to
           s == StopRetransmit(Stored(x, ses[x], m))
           q == MakeReq(x, s, "ACK", m.tag)
           t == [q EXCEPT !.st = "ok"]
           u == IF s.st = "ok" THEN app[x] ELSE "talking"
<1>1. /\ x \in Side /\ ses[x].st \notin {"clear", "ending"} /\ m.meth = "INVITE" /\ m.code = 200
      /\ m.tag \in 0..MaxIncoming /\ m.tag <= tags /\ m \in Msg
      /\ Good(m, ses["callee"], answered, tags)
      /\ Set(x, t, u) /\ Exchange({m}, q.buf)
  <2>1. Set(x, t, u) /\ Exchange({m}, t.buf)
    BY DEF RecOk
  <2>2. t.buf = q.buf
    <3>1. Similar(x, ses[x], Stored(x, ses[x], m)) /\ x \in Side
      BY StoredSimilar, GoodReceived
    <3>2. s \in Session /\ "ACK" \in Methods /\ m.tag \in 0..MaxIncoming
      BY <3>1, StopSimilar, GoodReceived DEF Similar, Methods
    <3> HIDE DEF s
    <3>3. q \in Session
      BY <3>1, <3>2, MakeReqSame DEF Same
    <3> HIDE DEF q
    <3> QED
      BY <3>3 DEF Session
  <2>3. s.st = ses[x].st
    BY StoredSimilar, StopSimilar, GoodReceived DEF Similar
  <2>4. s.st # "ending" /\ m.meth = "INVITE" /\ m.code = 200
    BY DEF RecOk
  <2> HIDE DEF s, t, u
  <2> QED
    BY <2>1, <2>2, <2>3, <2>4, GoodReceived DEF Found
<1>2. Similar(x, ses[x], s)
  BY <1>1, StoredSimilar, StopSimilar
<1> HIDE DEF s
<1>3. Similar(x, ses[x], q) /\ \A r \in q.buf : Good(r, ses["callee"], answered, tags)
  BY <1>1, <1>2, ReqSimilar
<1>4. Sound(x, ses[x], app[x], answered, tags) /\ s.st = ses[x].st /\ q.st = ses[x].st
  BY <1>1, <1>2, <1>3, OwnSession DEF Similar
<1> HIDE DEF q
<1>5. CASE s.st = "ok"
  <2>1. t = q
    BY <1>3, <1>4, <1>5 DEF Similar, Session
  <2>2. u = app[x] /\ \A r \in q.buf \cup q.buf : Good(r, ses["callee"], answered, tags)
    BY <1>3, <1>5
  <2> HIDE DEF x, t, u
  <2> QED
    BY <1>1, <1>3, <2>1, <2>2, ReceivedQuiet
<1>6. CASE s.st # "ok"
  <2>1. x = "caller"
    <3>1. SUFFICES ASSUME x = "callee" PROVE FALSE
      BY <1>1 DEF Side
    <3>2. OfCallee(m) /\ m.tag = ses["callee"].tag
      BY <1>1, <3>1 DEF OfCallee, Found, IsReq
    <3>3. ses["callee"].st = "ok"
      BY <1>1, <3>1, <3>2 DEF Good
    <3> QED
      BY <1>4, <1>6, <3>1, <3>3
  <2>2. answered /\ ses["caller"].st = "init" /\ u = "talking"
    BY <1>1, <1>4, <1>6, <2>1 DEF Good, Sound, Session
  <2>3. net' \subseteq net \cup q.buf
    BY <1>1, ExchangeNet
  <2>4. Set("caller", t, "talking") /\ Similar("caller", ses["caller"], q) /\ t = [q EXCEPT !.st = "ok"]
    BY <1>1, <1>3, <2>1, <2>2
  <2>5. \A r \in q.buf \cup q.buf : Good(r, ses["callee"], answered, tags)
    BY <1>3
  <2> HIDE DEF x, u, t
  <2>6. StepOf("caller", t, "talking", q.buf)
    BY <2>2, <2>3, <2>4, <2>5, TalkStep
  <2> QED
    BY <2>6 DEF Step, Side
<1> QED
  BY <1>5, <1>6

LEMMA StepRecRinging ==
  ASSUME Inv, NEW m \in net, Found(m), RecRinging(m.to, m), UNCHANGED <<answered, tags>>
  PROVE  Step
<1> DEFINE x == m.to
           s == Stored(x, ses[x], m)
           t == StopRetransmit([s EXCEPT !.sendS = "none", !.waitS = "200"])
<1>1. x \in Side /\ ses[x].st # "clear" /\ Set(x, t, app[x]) /\ Exchange({m}, {})
  BY GoodReceived DEF Found, RecRinging
<1>2. Similar(x, ses[x], s) /\ s.buf = ses[x].buf
  BY StoredSimilar
<1> HIDE DEF s
<1>3. Similar(x, ses[x], t) /\ t.buf = ses[x].buf
  BY <1>1, <1>2, IdleSimilar
<1>4. \A r \in {} \cup t.buf : Good(r, ses["callee"], answered, tags)
  BY <1>1, <1>3, OwnSession
<1> HIDE DEF x, t
<1> QED
  BY <1>1, <1>3, <1>4, ReceivedQuiet

LEMMA StepRecPending ==
  ASSUME Inv, NEW m \in net, Found(m), RecPending(m.to, m), UNCHANGED <<answered, tags>>
  PROVE  Step
<1> DEFINE x == m.to
           s == Stored(x, ses[x], m)
           q == MakeReq(x, s, "ACK", m.tag)
           t == StopRetransmit([q EXCEPT !.sendS = "none", !.waitS = "none"])
<1>1. /\ x \in Side /\ ses[x].st # "clear" /\ Set(x, t, app[x]) /\ Exchange({m}, q.buf)
      /\ m.tag \in 0..MaxIncoming /\ m.tag <= tags
  BY GoodReceived DEF Found, RecPending
<1>2. Similar(x, ses[x], s)
  BY StoredSimilar
<1> HIDE DEF s
<1>3. Similar(x, ses[x], q) /\ \A r \in q.buf : Good(r, ses["callee"], answered, tags)
  BY <1>1, <1>2, ReqSimilar
<1> HIDE DEF q
<1>4. Similar(x, ses[x], t) /\ t.buf = q.buf
  BY <1>1, <1>3, IdleSimilar
<1>5. \A r \in q.buf \cup t.buf : Good(r, ses["callee"], answered, tags)
  BY <1>3, <1>4
<1> HIDE DEF x, t
<1> QED
  BY <1>1, <1>4, <1>5, ReceivedQuiet

LEMMA StepRecUnknown ==
  ASSUME Inv, NEW m \in net, RecUnknown(m.to, m), UNCHANGED answered
  PROVE  Step
<1>1. /\ m.to \in Side /\ UNCHANGED <<ses, app, tags>>
      /\ \/ Exchange({m}, {})
         \/ \E code \in {481, 486} : Exchange({m}, SendResp(m, code)) /\ m.meth # "ACK"
  BY GoodReceived DEF RecUnknown, NoSession
<1>2. Set(m.to, ses[m.to], app[m.to])
  BY <1>1 DEF Set, Inv
<1>3. CASE Exchange({m}, {})
  <2>1. \A r \in {} \cup ses[m.to].buf : Good(r, ses["callee"], answered, tags)
    BY <1>1, OwnSession
  <2> QED
    BY <1>1, <1>2, <1>3, <2>1, OwnSession, ReceivedQuiet
<1>4. ASSUME NEW code \in {481, 486}, Exchange({m}, SendResp(m, code))
      PROVE  Step
  <2>1. code \in Codes \ {0} /\ code # 200
    BY DEF Codes
  <2>2. \A r \in SendResp(m, code) \cup ses[m.to].buf : Good(r, ses["callee"], answered, tags)
    BY <1>1, <2>1, GoodReply, OwnSession
  <2> QED
    BY <1>1, <1>2, <1>4, <2>2, OwnSession, ReceivedQuiet
<1> QED
  BY <1>1, <1>3, <1>4

(* An INVITE that finds no session of the callee makes one.                  *)
LEMMA StepRecIncoming ==
  ASSUME Inv, NEW m \in net, RecIncoming(m.to, m), UNCHANGED answered
  PROVE  Step
<1> DEFINE n == tags + 1
           s == [NewSes EXCEPT !.tag = n]
           i == Idle(s)
           ring == MakeResp("callee", i, "INVITE", 180, n)
           t == [ring EXCEPT !.sub = TRUE, !.tick = TRUE]
           r == [to |-> "caller", meth |-> "INVITE", code |-> 180, tag |-> n]
<1>1. /\ m.to = "callee" /\ ses["callee"].st = "clear"
      /\ tags < MaxIncoming /\ tags' = tags + 1
      /\ app["caller"] # "none"
  BY GoodReceived DEF RecIncoming, Found, HasToTag, Side
<1>2. tags \in Nat /\ n \in 0..MaxIncoming /\ n > tags /\ n # 0 /\ answered \in BOOLEAN
  BY <1>1, BoundAssumption DEF Inv
<1>3. s \in Session /\ s.st = "init" /\ ~s.sub /\ s.tag = n /\ ~s.reinv
      /\ ~s.killed /\ ~s.clear /\ ~s.told
  BY <1>2, NewSesType DEF Session
<1>4. Stored("callee", s, m) = s
  BY <1>3 DEF Stored, Session
<1>5. Set("callee", t, "ringing") /\ Exchange({m}, t.buf)
  <2>1. LET v == Invited("callee", s, m) IN Set("callee", v, "ringing") /\ Exchange({m}, v.buf)
    BY <1>1 DEF RecIncoming
  <2>2. Invited("callee", s, m) =
          IF s.st = "ok" THEN Send200Sdp("callee", s, s.tag)
          ELSE IF s.sub THEN MakeResp("callee", Idle(s), "INVITE", 180, s.tag)
          ELSE [MakeResp("callee", Idle(s), "INVITE", 180, s.tag) EXCEPT !.sub = TRUE, !.tick = TRUE]
    BY ZenonT(60), <1>4 DEF Invited, Idle
  <2> HIDE DEF s
  <2>3. Invited("callee", s, m) = t
    BY <1>3, <2>2
  <2> HIDE DEF t
  <2> QED
    BY <2>1, <2>3
<1> HIDE DEF n, s
<1>6. Same(s, i)
  <2> DEFINE q == [s EXCEPT !.sendS = "none", !.waitS = "none"]
  <2>1. Same(s, q)
    BY <1>3 DEF Same, Session
  <2>2. i = StopRetransmit(q)
    BY DEF Idle
  <2> HIDE DEF q, i
  <2> QED
    BY <2>1, <2>2, StopRetransmitSame DEF Same
<1> HIDE DEF i
<1>7. Same(i, ring) /\ ring.buf = {r}
  <2>1. "callee" \in Side /\ "INVITE" \in Methods /\ 180 \in Codes /\ Other("callee") = "caller"
    BY DEF Side, Methods, Codes, Other
  <2>2. i \in Session
    BY <1>6 DEF Same
  <2> QED
    BY <1>2, <2>1, <2>2, MakeRespSame
<1> HIDE DEF ring
<1>8. /\ t \in Session /\ t.buf = {r} /\ t.st = "init" /\ t.sub /\ t.tag = n
      /\ ~t.killed /\ ~t.clear /\ ~t.told
  BY ZenonT(60), <1>3, <1>6, <1>7 DEF Same, Session
<1> HIDE DEF t
<1>9. ses' = [ses EXCEPT !["callee"] = t] /\ app' = [app EXCEPT !["callee"] = "ringing"]
      /\ ses \in [Side -> Session] /\ app \in [Side -> {"none", "ended"} \cup Active]
  BY <1>5 DEF Set, Inv
<1>10. Sound("callee", t, "ringing", answered', tags')
  BY <1>1, <1>2, <1>8 DEF Sound, Active, n
<1>11. r \in Msg /\ ~OfCallee(r) /\ r.tag = n /\ r.code = 180
  BY <1>2 DEF Msg, Side, Methods, Codes, OfCallee
<1> HIDE DEF r
<1>12. Good(r, ses'["callee"], answered', tags')
  BY <1>1, <1>2, <1>11 DEF Good, n
<1>13. \A g \in t.buf \cup t.buf : Good(g, ses'["callee"], answered', tags')
  BY <1>8, <1>12
<1>14. Allowed("callee", app["callee"], "ringing")
  <2>1. Sound("callee", ses["callee"], app["callee"], answered, tags)
    BY DEF Inv, Side
  <2>2. app["callee"] \in {"none", "ended"}
    BY <1>1, <2>1 DEF Sound, Active
  <2> QED
    BY <2>2 DEF Allowed
<1>15. Follows(ses["callee"], t, tags)
  BY <1>2, <1>8 DEF Follows
<1>16. app'["caller"] # "none" /\ net' \subseteq net \cup t.buf
  BY <1>1, <1>5, <1>9, ExchangeNet DEF Side
<1>17. /\ answered' \in BOOLEAN /\ (answered => answered')
       /\ tags' \in 0..MaxIncoming /\ tags <= tags'
  BY <1>1, <1>2 DEF n
<1>18. StepOf("callee", t, "ringing", t.buf)
  BY <1>5, <1>10, <1>13, <1>14, <1>15, <1>16, <1>17 DEF StepOf
<1> QED
  BY <1>18 DEF Step, Side

LEMMA StepReceive ==
  ASSUME Inv, NEW x \in Side, Receive(x)
  PROVE  Step
<1>1. PICK m \in net :
        /\ m.to = x
        /\ \/ RecUnknown(x, m)
           \/ RecIncoming(x, m)
           \/ /\ Found(m) /\ UNCHANGED tags
              /\ \/ RecError(x, m) \/ RecInvitePending(x, m) \/ RecInEnding(x, m)
                 \/ RecAck(x, m) \/ RecByeCancel(x, m) \/ RecInvite(x, m)
                 \/ RecOk(x, m) \/ RecRinging(x, m) \/ RecPending(x, m)
  BY DEF Receive
<1>2. UNCHANGED answered
  BY DEF Receive
<1> QED
  BY <1>1, <1>2, StepRecUnknown, StepRecIncoming, StepRecError, StepRecInvitePending,
     StepRecInEnding, StepRecAck, StepRecByeCancel, StepRecInvite, StepRecOk, StepRecRinging,
     StepRecPending

-----------------------------------------------------------------------------
(* The user interface.                                                       *)

(* Before the call there is nothing.                                         *)
LEMMA StepCall ==
  ASSUME Inv, Call
  PROVE  Step
<1> DEFINE t == MakeReq("caller", NewSes, "INVITE", 0)
           r == Request("caller", "INVITE", 0)
<1>1. /\ app["caller"] = "none" /\ UNCHANGED <<answered, tags>>
      /\ Set("caller", t, "calling") /\ Exchange({}, t.buf)
  BY DEF Call
<1>2. 0 \in 0..MaxIncoming /\ 0 <= tags /\ answered \in BOOLEAN
  BY BoundAssumption DEF Inv
<1>3. Same(NewSes, t) /\ t.buf = {r}
  <2>1. "caller" \in Side /\ "INVITE" \in Methods
    BY DEF Side, Methods
  <2> QED
    BY <1>2, <2>1, NewSesType, MakeReqSame
<1>4. r \in Msg /\ r.to = "callee" /\ r.meth = "INVITE" /\ r.code = 0 /\ r.tag = 0
  BY <1>2, RequestType DEF Request, Other, Side, Methods
<1> HIDE DEF t, r
<1>5. Good(r, ses["callee"], answered, tags)
  BY <1>2, <1>4, GoodMsg DEF OfCallee
<1>6. /\ t \in Session /\ t.st = "init" /\ ~t.killed /\ ~t.clear /\ ~t.told /\ t.tag = 0
  BY <1>3, NewSesType DEF Same
<1>7. Sound("caller", t, "calling", answered, tags)
  BY <1>2, <1>6 DEF Sound, Active
<1>8. Allowed("caller", app["caller"], "calling")
  BY <1>1 DEF Allowed
<1>9. \A g \in t.buf \cup t.buf : Good(g, ses["callee"], answered, tags)
  BY <1>3, <1>5
<1>10. net' \subseteq net \cup t.buf
  BY <1>1, ExchangeNet
<1>11. StepOf("caller", t, "calling", t.buf)
  BY <1>1, <1>7, <1>8, <1>9, <1>10, ChangeStep DEF Side
<1> QED
  BY <1>11 DEF Step, Side

LEMMA StepAnswerCall ==
  ASSUME Inv, AnswerCall
  PROVE  Step
<1> DEFINE c == ses["callee"]
           s == [c EXCEPT !.st = "ok", !.sub = FALSE, !.tick = FALSE]
           t == Send200Sdp("callee", s, c.tag)
           r == [to |-> "caller", meth |-> "INVITE", code |-> 200, tag |-> c.tag]
<1>1. /\ c.st = "init" /\ answered' = TRUE /\ UNCHANGED tags
      /\ Set("callee", t, "talking") /\ Exchange({}, t.buf)
  BY DEF AnswerCall
<1>2. /\ Sound("callee", c, app["callee"], answered, tags) /\ c \in Session
      /\ c.tag \in 0..MaxIncoming /\ c.tag <= tags /\ c.tag # 0
      /\ answered \in BOOLEAN /\ tags \in 0..MaxIncoming /\ tags <= tags
  BY <1>1 DEF Inv, Sound, Side, Session
<1>3. s \in Session /\ s.st = "ok" /\ s.killed = c.killed /\ s.clear = c.clear
      /\ s.told = c.told /\ s.tag = c.tag
  BY <1>2 DEF Session
<1> HIDE DEF s
<1>4. Same(s, t) /\ t.buf = {r}
  <2>1. "callee" \in Side /\ Other("callee") = "caller"
    BY DEF Side, Other
  <2> QED
    BY <1>2, <1>3, <2>1, Send200SdpSame
<1>5. r \in Msg /\ ~OfCallee(r) /\ r.tag <= tags
  BY <1>2 DEF Msg, Side, Methods, Codes, OfCallee
<1> HIDE DEF t, r
<1>6. Good(r, ses'["callee"], answered', tags')
  BY <1>1, <1>5 DEF Good
<1>7. /\ t \in Session /\ t.st = "ok" /\ t.killed = c.killed /\ t.clear = c.clear
      /\ t.told = c.told /\ t.tag = c.tag
  BY <1>3, <1>4 DEF Same
<1>8. Sound("callee", t, "talking", answered', tags')
  BY <1>1, <1>2, <1>7 DEF Sound, Active
<1>9. app["callee"] = "ringing"
  BY <1>1, <1>2 DEF Sound
<1>10. Allowed("callee", app["callee"], "talking")
  BY <1>1, <1>9 DEF Allowed
<1>11. app["caller"] # "none" /\ app'["caller"] = app["caller"]
  BY <1>1, InCall DEF Set, Inv, Side
<1>12. \A g \in t.buf \cup t.buf : Good(g, ses'["callee"], answered', tags')
  BY <1>4, <1>6
<1>13. Follows(c, t, tags) /\ net' \subseteq net \cup t.buf
  BY <1>1, <1>7, ExchangeNet DEF Follows
<1>14. StepOf("callee", t, "talking", t.buf)
  BY <1>1, <1>2, <1>8, <1>10, <1>11, <1>12, <1>13 DEF StepOf
<1> QED
  BY <1>14 DEF Step, Side

LEMMA StepEndCall ==
  ASSUME Inv, NEW x \in Side, NEW s, NEW code \in {480, 603}, Similar(x, ses[x], s),
         EndCall(x, s, code)
  PROVE  Step
<1> DEFINE t == Ended(x, s, code)
           e == [s EXCEPT !.media = FALSE, !.told = TRUE]
           w == [e EXCEPT !.st = "error", !.waitS = "ACK"]
           v == [e EXCEPT !.st = "ending"]
           id == IF s.st = "init" THEN "CANCEL" ELSE "BYE"
<1>1. /\ s.st \notin {"clear", "ending"} /\ UNCHANGED <<answered, tags>>
      /\ Set(x, t, "ended") /\ Exchange({}, t.buf)
  BY DEF EndCall, CanEnd
<1>2. /\ s \in Session /\ s.st = ses[x].st /\ s.killed = ses[x].killed
      /\ s.clear = ses[x].clear /\ s.sub = ses[x].sub
      /\ s.tag \in 0..MaxIncoming /\ s.tag <= tags
      /\ (x = "callee" => s.tag = ses["callee"].tag)
  BY DEF Similar, Session
<1>3. /\ Sound(x, ses[x], app[x], answered, tags) /\ app["caller"] # "none"
      /\ answered \in BOOLEAN
  BY <1>1, <1>2, InCall DEF Inv
<1>4. /\ t = IF s.st = "init" /\ x = "callee" THEN MakeResp(x, w, "INVITE", code, s.tag)
              ELSE MakeReq(x, v, id, s.tag)
  BY DEF Ended
<1>5. /\ e \in Session /\ e.told /\ ~e.media /\ e.killed = s.killed
      /\ e.clear = s.clear /\ e.sub = s.sub /\ e.tag = s.tag
  <2> DEFINE d == [s EXCEPT !.media = FALSE]
  <2>1. s \in Session
    BY <1>2
  <2>2. /\ d \in Session /\ ~d.media /\ d.killed = s.killed
        /\ d.clear = s.clear /\ d.sub = s.sub /\ d.tag = s.tag
    BY ZenonT(60), <2>1 DEF Session
  <2> HIDE DEF d
  <2>3. e = [d EXCEPT !.told = TRUE]
    BY DEF d
  <2> HIDE DEF e
  <2> QED
    BY ZenonT(60), <2>2, <2>3 DEF Session
<1> HIDE DEF e
<1>6. /\ w \in Session /\ w.st = "error" /\ w.told /\ ~w.media /\ w.killed = s.killed
      /\ w.clear = s.clear /\ w.sub = s.sub /\ w.tag = s.tag
  BY ZenonT(60), <1>5 DEF Session
<1>7. /\ v \in Session /\ v.st = "ending" /\ v.told /\ v.killed = s.killed
      /\ v.clear = s.clear /\ v.tag = s.tag
  BY <1>5 DEF Session
<1> HIDE DEF t, v, w
<1>8. /\ t \in Session /\ t.told /\ t.killed = s.killed /\ t.clear = s.clear /\ t.tag = s.tag
      /\ \A r \in t.buf : Good(r, ses["callee"], answered, tags)
      /\ \/ t.st = "ending"
         \/ x = "callee" /\ s.st = "init" /\ t.st = "error" /\ ~t.media /\ t.sub = s.sub
  <2>1. CASE s.st = "init" /\ x = "callee"
    <3> DEFINE r == [to |-> Other(x), meth |-> "INVITE", code |-> code, tag |-> s.tag]
    <3>1. "INVITE" \in Methods /\ code \in Codes /\ code \notin {0, 200}
      BY DEF Methods, Codes
    <3>2. t = MakeResp(x, w, "INVITE", code, s.tag)
      BY <1>4, <2>1
    <3>3. Same(w, t) /\ t.buf = {r}
      BY <1>2, <1>6, <3>1, <3>2, MakeRespSame
    <3>4. r \in Msg /\ r.code = code /\ r.tag = s.tag
      BY <1>2, <3>1 DEF Msg, Side, Other
    <3> HIDE DEF r
    <3>5. Good(r, ses["callee"], answered, tags)
      BY <1>2, <3>1, <3>4, GoodMsg DEF OfCallee
    <3> QED
      BY <1>6, <2>1, <3>3, <3>5 DEF Same
  <2>2. CASE ~(s.st = "init" /\ x = "callee")
    <3>1. id \in Methods /\ id \in {"ACK", "CANCEL", "BYE"} /\ t = MakeReq(x, v, id, s.tag)
      BY <1>4, <2>2 DEF Methods
    <3> HIDE DEF id
    <3>2. Same(v, t) /\ t.buf = {Request(x, id, IF id = "CANCEL" THEN 0 ELSE s.tag)}
      BY <1>2, <1>7, <3>1, MakeReqSame
    <3>3. \A r \in t.buf : Good(r, ses["callee"], answered, tags)
      BY <1>2, <3>1, <3>2, GoodRequest
    <3> QED
      BY <1>7, <3>2, <3>3 DEF Same
  <2> QED
    BY <2>1, <2>2
<1>9. Sound(x, t, "ended", answered, tags)
  BY <1>1, <1>2, <1>3, <1>8 DEF Sound, Active
<1>10. Allowed(x, app[x], "ended")
  <2>1. app[x] \in Active \/ app[x] = "ended"
    BY <1>1, <1>2, <1>3 DEF Sound, Session, Active
  <2> QED
    BY <1>1, <2>1 DEF Allowed
<1>11. x = "callee" => Follows(ses["callee"], t, tags)
  BY <1>2, <1>8 DEF Follows
<1>12. \A r \in t.buf \cup t.buf : Good(r, ses["callee"], answered, tags)
  BY <1>8
<1>13. net' \subseteq net \cup t.buf
  BY <1>1, ExchangeNet
<1>14. StepOf(x, t, "ended", t.buf)
  BY <1>1, <1>3, <1>9, <1>10, <1>11, <1>12, <1>13, ChangeStep
<1> QED
  BY <1>14 DEF Step

(* Only a call that stands, or one of its own, is invited again: a declined   *)
(* session has no media.                                                     *)
LEMMA StepReInvite ==
  ASSUME Inv, NEW x \in Side, ReInvite(x)
  PROVE  Step
<1> DEFINE s == [ses[x] EXCEPT !.reinv = TRUE]
           t == MakeReq(x, s, "INVITE", s.tag)
           r == Request(x, "INVITE", s.tag)
<1>1. /\ ses[x].media /\ s.st \notin {"clear", "ending"} /\ (x = "caller" \/ s.st # "init")
      /\ Set(x, t, app[x]) /\ Exchange({}, t.buf) /\ UNCHANGED <<answered, tags>>
  BY DEF ReInvite, SendReinvite
<1>2. /\ s \in Session /\ Similar(x, ses[x], s) /\ s.tag \in 0..MaxIncoming /\ s.tag <= tags
      /\ s.tag = ses[x].tag /\ s.st = ses[x].st
  BY ZenonT(60), OwnSession DEF Similar, Session
<1> HIDE DEF s
<1>3. Same(s, t) /\ t.buf = {r}
  BY <1>2, MakeReqSame DEF Methods
<1>4. Similar(x, ses[x], t)
  BY <1>2, <1>3, SameIsSimilar
<1>5. r \in Msg /\ r.to = Other(x) /\ r.meth = "INVITE" /\ r.code = 0 /\ r.tag = s.tag
  BY <1>2, RequestType DEF Request, Methods
<1> HIDE DEF t, r
<1>6. x = "callee" => ses["callee"].st = "ok" /\ s.tag # 0
  <2> SUFFICES ASSUME x = "callee" PROVE ses["callee"].st = "ok" /\ s.tag # 0
    OBVIOUS
  <2>1. Sound("callee", ses["callee"], app["callee"], answered, tags)
    BY OwnSession
  <2>2. ses["callee"].st \in {"ok", "error"}
    BY <1>1, <1>2, OwnSession DEF Session
  <2>3. ses["callee"].st # "error" /\ ses["callee"].tag # 0
    BY <1>1, <2>1, <2>2 DEF Sound
  <2> QED
    BY <1>2, <2>2, <2>3
<1>7. Good(r, ses["callee"], answered, tags)
  BY <1>2, <1>5, <1>6 DEF Good, OfCallee, Other, Side
<1>8. \A g \in t.buf \cup t.buf : Good(g, ses["callee"], answered, tags)
  BY <1>3, <1>7
<1>9. net' \subseteq net \cup t.buf /\ app["caller"] # "none"
  BY <1>1, <1>2, ExchangeNet, InCall
<1>10. StepOf(x, t, app[x], t.buf)
  BY <1>1, <1>2, <1>4, <1>8, <1>9, QuietStep
<1> QED
  BY <1>10 DEF Step

-----------------------------------------------------------------------------
(* The timer thread.                                                         *)

LEMMA StepKilled ==
  ASSUME Inv, NEW x \in Side, ses[x].st # "clear",
         Set(x, KillSes(ses[x]), ToldEnd(ses[x], app[x])), Exchange({}, {}),
         UNCHANGED <<answered, tags>>
  PROVE  Step
<1>1. net' \subseteq net \cup {}
  BY ExchangeNet
<1>2. \A r \in {} \cup ses[x].buf : Good(r, ses["callee"], answered, tags)
  BY OwnSession
<1>3. StepOf(x, KillSes(ses[x]), ToldEnd(ses[x], app[x]), {})
  BY <1>1, <1>2, OwnSession, KillStep
<1> QED
  BY <1>3 DEF Step

LEMMA StepSent ==
  ASSUME Inv, NEW x \in Side, ses[x].st # "clear", NEW t, NEW out,
         Similar(x, ses[x], t), t.buf = ses[x].buf, out \subseteq ses[x].buf,
         Set(x, t, app[x]), Exchange({}, out), UNCHANGED <<answered, tags>>
  PROVE  Step
<1>1. net' \subseteq net \cup out /\ app["caller"] # "none"
  BY ExchangeNet, InCall
<1>2. \A r \in out \cup t.buf : Good(r, ses["callee"], answered, tags)
  BY OwnSession
<1>3. StepOf(x, t, app[x], out)
  BY <1>1, <1>2, QuietStep
<1> QED
  BY <1>3 DEF Step

LEMMA TimedIsInCall ==
  ASSUME Inv, NEW x \in Side, Watched(ses[x]) \/ ses[x].clear \/ ses[x].tick
  PROVE  ses[x].st # "clear"
  BY OwnSession, FreeType DEF Sound, Watched

LEMMA StepTimer ==
  ASSUME Inv, NEW x \in Side, Timer(x)
  PROVE  Step
<1>1. CASE ClearMem(x)
  BY <1>1, TimedIsInCall, StepKilled DEF ClearMem
<1>2. CASE GiveUp(x)
  BY <1>2, TimedIsInCall, StepKilled DEF GiveUp
<1>3. CASE Resend(x)
  <2>1. ses[x].st # "clear" /\ ses[x] \in Session /\ UNCHANGED <<answered, tags>>
    BY <1>3, TimedIsInCall, OwnSession DEF Resend
  <2>2. CASE ses[x].retr > 0
    <3> DEFINE t == SendSip(ses[x])
    <3>1. Set(x, t, app[x]) /\ Exchange({}, ses[x].buf)
      BY <1>3, <2>2 DEF Resend
    <3>2. Similar(x, ses[x], t) /\ t.buf = ses[x].buf
      BY <2>1, OwnSession, SendSipSame, SameIsSimilar
    <3> HIDE DEF t
    <3> QED
      BY <2>1, <3>1, <3>2, StepSent
  <2>3. CASE ~(ses[x].retr > 0)
    <3> DEFINE t == UpdateRetransmit(ses[x])
    <3>1. Set(x, t, app[x]) /\ Exchange({}, {})
      BY <1>3, <2>3 DEF Resend
    <3>2. Similar(x, ses[x], t) /\ t.buf = ses[x].buf
      BY <2>1, OwnSession, UpdateRetransmitSame, SameIsSimilar
    <3> HIDE DEF t
    <3> QED
      BY <2>1, <3>1, <3>2, StepSent
  <2> QED
    BY <2>2, <2>3
<1>4. CASE Unanswered(x)
  <2> DEFINE s == [ses[x] EXCEPT !.tick = FALSE]
  <2>1. ses[x].tick /\ IF s.sub /\ CanEnd(s) THEN EndCall(x, s, 480)
                       ELSE /\ Set(x, s, app[x]) /\ Exchange({}, {})
                            /\ UNCHANGED <<answered, tags>>
    BY <1>4 DEF Unanswered
  <2>2. Similar(x, ses[x], s) /\ s.buf = ses[x].buf /\ ses[x].st # "clear"
    BY ZenonT(60), <2>1, OwnSession, TimedIsInCall DEF Similar, Session
  <2> HIDE DEF s
  <2>3. CASE s.sub /\ CanEnd(s)
    BY <2>1, <2>2, <2>3, StepEndCall
  <2>4. CASE ~(s.sub /\ CanEnd(s))
    BY <2>1, <2>2, <2>4, StepSent
  <2> QED
    BY <2>3, <2>4
<1> QED
  BY <1>1, <1>2, <1>3, <1>4 DEF Timer

-----------------------------------------------------------------------------
(* The invariant and the theorems.                                           *)

LEMMA InitInv == Init => Inv
<1> SUFFICES ASSUME Init PROVE Inv
  OBVIOUS
<1>1. /\ ses = [x \in Side |-> Free] /\ app = [x \in Side |-> "none"]
      /\ answered = FALSE /\ net = {} /\ tags = 0
  BY DEF Init
<1>2. Free \in Session /\ Free.buf = {} /\ Free.st = "clear" /\ Free.tag = 0
      /\ ~Free.told /\ ~Free.killed /\ ~Free.clear
  BY FreeType DEF Free
<1>3. 0 \in 0..MaxIncoming
  BY BoundAssumption
<1>4. \A x \in Side : Sound(x, ses[x], app[x], answered, tags)
  BY <1>1, <1>2, <1>3 DEF Sound, Active
<1>5. \A x \in Side : ses[x] = Free
  BY <1>1
<1> QED
  BY <1>1, <1>2, <1>3, <1>4, <1>5 DEF Inv, Side

LEMMA NextStep ==
  ASSUME Inv, ~Roaming, [Next]_vars
  PROVE  Step \/ UNCHANGED vars
<1>1. ASSUME NEW x \in Side, Hangup(x) PROVE Step
  BY <1>1, OwnSession, StepEndCall DEF Hangup
<1>2. \A x \in Side : ~ReInviteAll(x)
  BY DEF ReInviteAll
<1> QED
  BY <1>1, <1>2, StepCall, StepAnswerCall, StepReInvite, StepReceive, StepTimer DEF Next

LEMMA InvStays ==
  ASSUME Inv, ~Roaming, [Next]_vars
  PROVE  Inv' /\ [Phone!CallNext]_(Phone!vars)
<1>1. CASE Step
  BY <1>1, StepKeepsInv, StepIsCall DEF Step
<1>2. CASE UNCHANGED vars
  BY <1>2 DEF vars, Inv, Phone!vars
<1> QED
  BY <1>1, <1>2, NextStep

(* What the user interface was told last is what the engine holds, for any    *)
(* number of faults, retransmissions, sessions and re-INVITEs.               *)
THEOREM AppMatchesCorrect == ~Roaming => (Spec => []AppMatches)
<1> SUFFICES ASSUME ~Roaming PROVE Spec => []AppMatches
  OBVIOUS
<1>1. Inv /\ [Next]_vars => Inv'
  BY InvStays
<1>2. Inv => AppMatches
  BY DEF Inv, Sound, AppMatches
<1> QED
  BY InitInv, <1>1, <1>2, PTL DEF Spec

(* Nobody talks in a call that the callee has not answered or that was        *)
(* reported as ended: the engine implements PhoneCall.tla.                    *)
THEOREM SipCallCorrect == ~Roaming => (Spec => CallSpec)
<1> SUFFICES ASSUME ~Roaming PROVE Spec => CallSpec
  OBVIOUS
<1>1. Init => Phone!CallInit
  BY DEF Init, Side, Phone!CallInit
<1>2. Inv /\ [Next]_vars => Inv'
  BY InvStays
<1>3. Inv /\ [Next]_vars => [Phone!CallNext]_(Phone!vars)
  BY InvStays
<1> QED
  BY InitInv, <1>1, <1>2, <1>3, PTL DEF Spec, CallSpec, Phone!CallSpec
=============================================================================
