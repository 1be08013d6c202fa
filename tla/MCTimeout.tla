------------------------------ MODULE MCTimeout ------------------------------
(* The instances of TimeoutProvider that TLC checks: their values are in       *)
(* timeout.cfg and bug_lost_request.cfg.                                      *)
EXTENDS TimeoutProvider
=============================================================================
