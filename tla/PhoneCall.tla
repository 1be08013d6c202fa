------------------------------ MODULE PhoneCall ------------------------------
(***************************************************************************)
(* What the SIP engine of silentphone promises its user interface about    *)
(* one call (the callbacks of CTEngineCallBack, CSessions.h): the caller   *)
(* is told that a call has started only when the user at the other end has *)
(* answered it, and nobody talks in a call after it was reported as ended. *)
(* SipSession.tla implements this.                                         *)
(***************************************************************************)
VARIABLES
  caller,     \* what the caller's user interface was told last
  callee,     \* what the callee's user interface was told last
  answered    \* the callee's user has answered

vars == <<caller, callee, answered>>

CallInit == caller = "none" /\ callee = "none" /\ answered = FALSE

Dial == /\ caller = "none"
        /\ caller' = "calling"
        /\ UNCHANGED <<callee, answered>>

(* A copy of the invitation may ring again after the call has ended: the      *)
(* callee keeps nothing of a call that is over.                               *)
Ring == /\ caller # "none" /\ callee \in {"none", "ended"}
        /\ callee' = "ringing"
        /\ UNCHANGED <<caller, answered>>

Answer == /\ callee = "ringing"
          /\ callee' = "talking"
          /\ answered' = TRUE
          /\ UNCHANGED caller

Connect == /\ caller = "calling" /\ answered
           /\ caller' = "talking"
           /\ UNCHANGED <<callee, answered>>

CallerEnds == /\ caller \in {"calling", "talking"}
              /\ caller' = "ended"
              /\ UNCHANGED <<callee, answered>>

CalleeEnds == /\ callee \in {"ringing", "talking"}
              /\ callee' = "ended"
              /\ UNCHANGED <<caller, answered>>

CallNext == Dial \/ Ring \/ Answer \/ Connect \/ CallerEnds \/ CalleeEnds

CallSpec == CallInit /\ [][CallNext]_vars
=============================================================================
