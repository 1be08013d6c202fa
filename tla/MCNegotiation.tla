--------------------------- MODULE MCNegotiation ---------------------------
(* Small instances of ZrtpNegotiation for TLC. *)
EXTENDS ZrtpNegotiation

\* Every setting of this client that bears on more than one choice; the SAS
\* type and the authentication vary with everything else on.
ClientSettings ==
  {s \in Settings : s.skein /\ s.sas256}
  \cup {s \in Settings : s.ecdh384 /\ s.ecdh256 /\ ~s.dh2k /\ s.twofish}

ClientConfigs == {setupConfiguration(Loaded(s)) : s \in ClientSettings}

\* A program with an order of its own, and one that configures nothing.
OwnOrder ==
  [hashes |-> <<"S256", "S384">>, symCiphers |-> <<"AES1", "AES3">>,
   publicKeyAlgos |-> <<"EC38", "DH3k", "DH2k", "Mult">>, sasTypes |-> <<"B32", "B256">>,
   authLengths |-> <<"HS80", "HS32">>]

Empty == [hashes |-> <<>>, symCiphers |-> <<>>, publicKeyAlgos |-> <<>>,
          sasTypes |-> <<>>, authLengths |-> <<>>]

AllConfigs == ClientConfigs \cup {setStandardConfig, setMandatoryOnly, OwnOrder, Empty}
=============================================================================
