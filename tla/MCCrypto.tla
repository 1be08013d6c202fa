------------------------------ MODULE MCCrypto ------------------------------
(* Small instances of CryptoContext for TLC. *)
EXTENDS CryptoContext
=============================================================================
