----------------------------- MODULE MCSession ------------------------------
(* The instance of ZrtpSession that TLC checks: its bound is in session.cfg.  *)
EXTENDS ZrtpSession
=============================================================================
