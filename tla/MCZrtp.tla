------------------------------- MODULE MCZrtp -------------------------------
(* Small instances of ZrtpStateClass for TLC. *)
EXTENDS ZrtpStateClass, TLC

\* One protocol version, as in this build; packets for the end q may come malformed.
Plain(multi, q) ==
  [p \in Peers |-> [multi |-> multi, min |-> 1, max |-> 1, drops |-> FALSE,
                    malformed |-> IF p = q THEN 1 ELSE 0]]

\* Bob's build is a later one, which speaks version 2, and version 1 or not; his
\* timeout provider may drop requests.
Later(min) ==
  [p \in Peers |-> IF p = Alice
                   THEN [Plain(FALSE, Bob)[p] EXCEPT !.max = 1]
                   ELSE [multi |-> FALSE, min |-> min, max |-> 2, drops |-> TRUE,
                         malformed |-> 0]]

Nobody == "nobody"
VersionSetups == {Later(1), Later(2), Plain(FALSE, Bob)}
PlainSetup == {Plain(FALSE, Nobody)}
\* Closed under the swap of the two ends.
RestartSetups ==
  {Plain(FALSE, Nobody), Plain(FALSE, Alice), Plain(FALSE, Bob), Plain(TRUE, Nobody)}

\* The two ends run the same code: with equal versions they can be swapped.
Swap == Permutations(Peers)

\* A bound: no timeout is delivered (every packet arrives in time).
NoTimeouts == \A p \in Peers : ~timer[p].due

\* A bound: a malformed packet comes only to an end with SRTP contexts, at the
\* first start of both ends, and what happens while the contexts last is of
\* interest; such an end keeps its engine.
FirstStart == \A p \in Peers : user[p].left + 1 >= MaxStarts /\ neg[p].chain = 1

SrtpOutlives ==
  \A p \in Peers :
    neg[p].setup.malformed > 0 =>
      /\ neg[p].chain = 1
      /\ IF LeftOver(p) THEN srtp[p].recv # NoKey ELSE FirstStart
=============================================================================
