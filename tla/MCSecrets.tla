----------------------------- MODULE MCSecrets -----------------------------
(* Small instances of RetainedSecrets for TLC.                              *)
EXTENDS RetainedSecrets, TLC

CONSTANTS Alice, Bob

MCPeers == {Alice, Bob}

\* Neither end is special: the Initiator of each call is chosen freely.
SwapPeers == Permutations(MCPeers)
=============================================================================
