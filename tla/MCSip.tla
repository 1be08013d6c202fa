------------------------------- MODULE MCSip --------------------------------
(* The instance of SipSession that TLC checks has all its values in           *)
(* sip_call.cfg.                                                              *)
EXTENDS SipSession
=============================================================================
