---------------------------- MODULE CryptoProofs ----------------------------
(***************************************************************************)
(* Proofs about CryptoContext.                                             *)
(*                                                                         *)
(* Inv relates the receiver's context to what it has accepted: as long as  *)
(* no late packet crossed the last rollover, (roc, s_l) is the newest      *)
(* packet accepted, or, before the first, one that was sent just before.   *)
(* A newer packet in flight is then less than half of the number space     *)
(* ahead, which is what guessIndex relies on.                              *)
(***************************************************************************)
EXTENDS CryptoContext, TLAPS

First == [roc |-> 0, seq |-> FirstSeq - 1]

\* The context is that of the newest packet.
LocalIsTop ==
  ctx.seqNumSet =>
    ctx.s_l = top.seq \/ (top = First /\ ctx.s_l \in (FirstSeq - Late)..(FirstSeq - 1))

\* The sender is not too far ahead: packets are lost, or the rollover healed.
Near ==
  \/ Index(send) <= Index(top) + MaxLost + 1
  \/ top.roc > 0 /\ Index(send) <= Index(top) + Late + 1

InFlightInv ==
  \A p \in flight : Index(send) <= Index(p) + Late + 1 /\ Index(p) >= FirstSeq

FreshInv == ~ctx.seqNumSet => ctx.window = {} /\ top = First /\ ~crossed

BaseInv ==
  /\ TypeOK /\ IndexIsNew /\ RocIsNewest /\ InFlightInv /\ FreshInv
  /\ Newer(send, top) /\ Index(send) >= FirstSeq

Inv == BaseInv /\ (~crossed => LocalIsTop /\ Near)

-----------------------------------------------------------------------------
(* Indices. *)

LEMMA NextSeq ==
  ASSUME NEW s \in Seqs
  PROVE  (s + 1) % SeqMod = IF s = SeqMod - 1 THEN 0 ELSE s + 1
BY ModAssumption, FirstAssumption DEF Seqs

LEMMA NextRoc ==
  ASSUME NEW r \in Rocs, r < RocMod - 1
  PROVE  (r + 1) % RocMod = r + 1
BY ModAssumption DEF Rocs

LEMMA RocBelow ==
  ASSUME NEW p \in Packets, Index(p) <= MaxIndex
  PROVE  p.roc < RocMod - 1
<1>1. p.roc * SeqMod < (RocMod - 1) * SeqMod
  BY ModAssumption, BoundAssumption DEF Packets, Seqs, Rocs, Index
<1>2. ASSUME p.roc >= RocMod - 1 PROVE p.roc * SeqMod >= (RocMod - 1) * SeqMod
  BY <1>2, ModAssumption DEF Packets, Rocs
<1> QED
  BY <1>1, <1>2, ModAssumption DEF Packets, Rocs

LEMMA IndexNat == ASSUME NEW p \in Packets PROVE Index(p) \in Nat
<1>1. p.roc \in Nat /\ p.seq \in Nat /\ SeqMod \in Nat
  BY ModAssumption DEF Packets, Rocs, Seqs
<1>2. p.roc * SeqMod \in Nat
  BY <1>1
<1> QED BY <1>1, <1>2 DEF Index

\* The order of the packets is that of their indices.
LEMMA NewerIndex ==
  ASSUME NEW p \in Packets, NEW q \in Packets
  PROVE  Newer(p, q) <=> Index(p) > Index(q)
<1> DEFINE a == p.roc  b == q.roc
<1>1. a \in Nat /\ b \in Nat /\ p.seq \in 0..(SeqMod - 1) /\ q.seq \in 0..(SeqMod - 1)
      /\ SeqMod \in Nat
  BY ModAssumption DEF Packets, Rocs, Seqs
<1>2. ASSUME a > b PROVE a * SeqMod >= b * SeqMod + SeqMod
  BY <1>1, <1>2
<1>3. ASSUME b > a PROVE b * SeqMod >= a * SeqMod + SeqMod
  BY <1>1, <1>3
<1>4. a * SeqMod \in Nat /\ b * SeqMod \in Nat
  BY <1>1
<1> QED
  BY <1>1, <1>2, <1>3, <1>4 DEF Newer, Index

\* A packet less than half of the number space ahead is of the same roc or the next.
LEMMA NearRoc ==
  ASSUME NEW p \in Packets, NEW q \in Packets, Newer(p, q), Index(p) < Index(q) + Half
  PROVE  \/ p.roc = q.roc /\ p.seq > q.seq
         \/ p.roc = q.roc + 1 /\ q.seq >= Half /\ q.seq - Half > p.seq
<1> DEFINE a == p.roc  b == q.roc
<1>1. a \in Nat /\ b \in Nat /\ p.seq \in 0..(SeqMod - 1) /\ q.seq \in 0..(SeqMod - 1)
      /\ SeqMod \in Nat /\ Half \in Nat /\ SeqMod = 2 * Half
  BY ModAssumption DEF Packets, Rocs, Seqs
<1>2. ASSUME a >= b + 2 PROVE a * SeqMod >= b * SeqMod + 2 * SeqMod
  BY <1>1, <1>2
<1>3. ASSUME a = b + 1 PROVE a * SeqMod = b * SeqMod + SeqMod
  BY <1>1, <1>3
<1>4. a * SeqMod \in Nat /\ b * SeqMod \in Nat
  BY <1>1
<1>5. a < b + 2
  BY <1>1, <1>2, <1>4 DEF Index
<1>6. CASE a = b
  BY <1>1, <1>6 DEF Newer
<1>7. CASE a = b + 1
  BY <1>1, <1>3, <1>4, <1>7 DEF Index
<1> QED
  BY <1>1, <1>5, <1>6, <1>7 DEF Newer

\* The next packet's index is the next number, and a packet again.
LEMMA NextIndex ==
  ASSUME NEW s \in Packets, s.roc < RocMod - 1
  PROVE  NextSend(s) \in Packets /\ Index(NextSend(s)) = Index(s) + 1
<1>1. s.roc \in Rocs /\ s.seq \in Seqs
  BY DEF Packets
<1>2. (s.seq + 1) % SeqMod = IF s.seq = SeqMod - 1 THEN 0 ELSE s.seq + 1
  BY <1>1, NextSeq
<1>3. (s.roc + 1) % RocMod = s.roc + 1
  BY <1>1, NextRoc
<1>4. (s.roc + 1) * SeqMod = s.roc * SeqMod + SeqMod
  BY <1>1, ModAssumption DEF Rocs
<1>5. s.roc * SeqMod \in Nat
  BY <1>1, ModAssumption DEF Rocs
<1> QED
  BY <1>1, <1>2, <1>3, <1>4, <1>5, ModAssumption DEF NextSend, Packets, Rocs, Seqs, Index

-----------------------------------------------------------------------------
(* The context. *)

LEMMA FirstPacket == First \in Packets /\ Index(First) = FirstSeq - 1
<1>1. FirstSeq \in 1..(Half - 1) /\ Half \in Nat /\ SeqMod = 2 * Half /\ RocMod >= 1
      /\ RocMod \in Nat
  BY FirstAssumption, ModAssumption
<1>2. 0 * SeqMod = 0
  BY ModAssumption
<1> QED BY <1>1, <1>2 DEF First, Packets, Rocs, Seqs, Index

LEMMA SeqNumSetType ==
  ASSUME NEW c \in Contexts, NEW q \in Seqs
  PROVE  /\ SeqNumSet(c, q) \in Contexts /\ SeqNumSet(c, q).seqNumSet
         /\ SeqNumSet(c, q).roc = c.roc /\ SeqNumSet(c, q).window = c.window
         /\ SeqNumSet(c, q).s_l = IF c.seqNumSet THEN c.s_l ELSE q
BY DEF SeqNumSet, Contexts

LEMMA DeltaType ==
  ASSUME NEW c \in Contexts, NEW q \in Seqs
  PROVE  GuessedRoc(c, q) \in Rocs /\ Delta(c, q) \in Int
<1>1. c.roc \in Int /\ c.s_l \in Int /\ q \in Int /\ RocMod \in Nat \ {0} /\ SeqMod \in Nat
      /\ c.roc \in Rocs
  BY ModAssumption DEF Contexts, Rocs, Seqs
<1>2. GuessedRoc(c, q) \in Rocs
  BY <1>1 DEF GuessedRoc, Rocs
<1>3. (GuessedRoc(c, q) - c.roc) * SeqMod \in Int
  BY <1>1, <1>2 DEF Rocs
<1> QED BY <1>1, <1>2, <1>3 DEF Delta

LEMMA WindowsType ==
  ASSUME NEW c \in Contexts, NEW q \in Seqs, NEW w \in Windows(c, q)
  PROVE  w \subseteq 0..(WindowSize - 1)
<1> DEFINE d == Delta(c, q)
<1>1. WindowSize \in Nat /\ IntBits \in 1..WindowSize /\ c.window \subseteq 0..(WindowSize - 1)
  BY WindowAssumption DEF Contexts
<1>2. CASE d > 0
  <2>1. \A v \in ShiftLeft(c.window, d) : v \subseteq 0..(WindowSize - 1)
    BY DEF ShiftLeft, Shifted
  <2>2. PICK v \in ShiftLeft(c.window, d) : w = v \cup {0}
    BY <1>2 DEF Windows
  <2> QED BY <1>1, <2>1, <2>2
<1>3. CASE ~(d > 0)
  <2>1. \A bits \in OneShifted(d) : bits \subseteq 0..(WindowSize - 1)
    <3>1. d % IntBits \in 0..(IntBits - 1)
      BY <1>1, DeltaType
    <3> QED BY <1>1, <3>1 DEF OneShifted
  <2>2. PICK bits \in OneShifted(d) : w = c.window \cup bits
    BY <1>3 DEF Windows
  <2> QED BY <1>1, <2>1, <2>2
<1> QED BY <1>2, <1>3

\* A packet that fits moves the context to its roc, if that is later.
LEMMA UpdateType ==
  ASSUME NEW c \in Contexts, NEW p \in Packets, Fits(c, p), NEW w \in Windows(c, p.seq)
  PROVE  /\ Update(c, p.seq, w) \in Contexts
         /\ Update(c, p.seq, w).seqNumSet = c.seqNumSet
         /\ Update(c, p.seq, w).roc = IF p.roc > c.roc THEN p.roc ELSE c.roc
         /\ Update(c, p.seq, w).s_l =
              IF p.roc > c.roc \/ p.seq > c.s_l THEN p.seq ELSE c.s_l
<1>1. w \subseteq 0..(WindowSize - 1)
  BY WindowsType DEF Packets
<1> QED BY <1>1 DEF Update, Fits, Contexts, Packets

-----------------------------------------------------------------------------
(* A newer packet passes all the tests of unprotect. *)

LEMMA NewerPasses ==
  ASSUME Inv, ~crossed, NEW p \in flight, Newer(p, top)
  PROVE  Unprotect(ctx, p) = 1
<1> DEFINE n == SeqNumSet(ctx, p.seq)
<1>1. p \in Packets /\ top \in Packets /\ send \in Packets /\ ctx \in Contexts
  BY DEF Inv, BaseInv, TypeOK
<1>2. Index(p) < Index(top) + Half /\ p.seq \in Seqs
  <2>1. Index(p) < Index(send)
    BY <1>1, NewerIndex DEF Inv, BaseInv, IndexIsNew
  <2>2. Index(p) \in Nat /\ Index(send) \in Nat /\ Index(top) \in Nat
    BY <1>1, IndexNat
  <2>3. Index(send) <= Index(top) + MaxLost + 1 \/ Index(send) <= Index(top) + Late + 1
    BY DEF Inv, Near
  <2> QED BY <1>1, <2>1, <2>2, <2>3, BoundAssumption, ModAssumption DEF Packets
<1>3. n \in Contexts /\ n.roc = top.roc /\ n.window = ctx.window
      /\ n.s_l = IF ctx.seqNumSet THEN ctx.s_l ELSE p.seq
  BY <1>1, <1>2, SeqNumSetType DEF Inv, BaseInv, RocIsNewest
<1>4. \/ p.roc = top.roc /\ p.seq > top.seq
      \/ p.roc = top.roc + 1 /\ top.seq >= Half /\ top.seq - Half > p.seq
  BY <1>1, <1>2, NearRoc
<1>5. Half \in Nat /\ SeqMod = 2 * Half /\ SeqMod \in Nat /\ WindowSize > 0
      /\ FirstSeq \in 1..(Half - 1) /\ WindowSize \in Nat
  BY ModAssumption, FirstAssumption, WindowAssumption
<1>6. p.seq \in 0..(SeqMod - 1) /\ top.seq \in 0..(SeqMod - 1) /\ n.s_l \in 0..(SeqMod - 1)
      /\ p.roc \in 0..(RocMod - 1) /\ top.roc \in 0..(RocMod - 1) /\ RocMod \in Nat
  BY <1>1, <1>3, ModAssumption DEF Packets, Seqs, Rocs, Contexts
<1>7. CASE ctx.seqNumSet /\ ctx.s_l = top.seq
  <2>1. CASE p.roc = top.roc /\ p.seq > top.seq
    <3>1. p.seq - top.seq < Half
      <4>1. p.roc * SeqMod \in Nat /\ p.roc * SeqMod = top.roc * SeqMod
        BY <2>1, <1>5, <1>6
      <4> QED BY <4>1, <1>2, <1>5, <1>6 DEF Index
    <3>2. GuessedRoc(n, p.seq) = p.roc
      BY <1>3, <1>5, <1>6, <1>7, <2>1, <3>1 DEF GuessedRoc
    <3>3. Delta(n, p.seq) = p.seq - top.seq
      <4>1. (p.roc - n.roc) * SeqMod = 0
        BY <1>3, <1>5, <1>6, <2>1
      <4> QED BY <4>1, <1>3, <1>6, <1>7, <3>2 DEF Delta
    <3> QED BY <1>6, <2>1, <3>2, <3>3 DEF Unprotect, CheckReplay, Fits
  <2>2. CASE p.roc = top.roc + 1 /\ top.seq >= Half /\ top.seq - Half > p.seq
    <3>1. (top.roc + 1) % RocMod = p.roc
      <4>1. top.roc \in Rocs /\ top.roc < RocMod - 1
        BY <1>6, <2>2 DEF Rocs
      <4> QED BY <4>1, <2>2, NextRoc
    <3>2. GuessedRoc(n, p.seq) = p.roc
      BY <1>3, <1>5, <1>6, <1>7, <2>2, <3>1 DEF GuessedRoc
    <3>3. Delta(n, p.seq) = SeqMod + p.seq - top.seq
      <4>1. (p.roc - n.roc) * SeqMod = SeqMod
        BY <1>3, <1>5, <1>6, <2>2
      <4> QED BY <4>1, <1>3, <1>5, <1>6, <1>7, <3>2 DEF Delta
    <3> QED BY <1>5, <1>6, <2>2, <3>2, <3>3 DEF Unprotect, CheckReplay, Fits
  <2> QED BY <1>4, <2>1, <2>2
<1>8. CASE top = First /\ (~ctx.seqNumSet \/ ctx.s_l \in (FirstSeq - Late)..(FirstSeq - 1))
  <2>1. p.roc = 0 /\ top.roc = 0 /\ top.seq = FirstSeq - 1 /\ p.seq > FirstSeq - 1
    BY <1>4, <1>5, <1>6, <1>8 DEF First
  <2>2. p.seq < FirstSeq - 1 + MaxLost + 1
    <3>1. Index(p) < Index(send) /\ Index(send) <= Index(top) + MaxLost + 1
      BY <1>1, <2>1, NewerIndex, IndexNat DEF Inv, BaseInv, IndexIsNew, Near
    <3>2. Index(top) = FirstSeq - 1 /\ Index(p) = p.seq
      <4>1. 0 * SeqMod = 0
        BY <1>5
      <4> QED BY <4>1, <1>8, <2>1, <1>5, <1>6, FirstPacket DEF Index
    <3>3. Index(send) \in Nat /\ MaxLost \in Nat
      BY <1>1, IndexNat, BoundAssumption
    <3> QED BY <3>1, <3>2, <3>3, <1>5, <1>6
  <2>3. n.s_l = p.seq \/ n.s_l \in (FirstSeq - Late)..(FirstSeq - 1)
    BY <1>3, <1>8
  <2>4. MaxLost \in Nat /\ Late \in Nat /\ Late + MaxLost < Half - 1
    BY BoundAssumption
  <2>5. GuessedRoc(n, p.seq) = p.roc
    <3>1. ~(n.s_l < Half /\ p.seq - n.s_l > Half)
      BY <1>5, <1>6, <2>1, <2>2, <2>3, <2>4
    <3>2. ~(n.s_l >= Half /\ n.s_l - Half > p.seq)
      BY <1>5, <1>6, <2>1, <2>3, <2>4
    <3> QED BY <1>3, <1>5, <1>6, <2>1, <3>1, <3>2 DEF GuessedRoc
  <2>6. Delta(n, p.seq) = p.seq - n.s_l
    <3>1. (p.roc - n.roc) * SeqMod = 0
      BY <1>3, <1>5, <1>6, <2>1
    <3> QED BY <3>1, <1>6, <2>5 DEF Delta
  <2>7. CASE n.s_l = p.seq
    <3>1. CASE ~ctx.seqNumSet
      <4>1. n.window = {}
        BY <1>3, <3>1 DEF Inv, BaseInv, FreshInv
      <4> QED BY <1>5, <1>6, <2>5, <2>6, <2>7, <4>1 DEF Unprotect, CheckReplay, Fits
    <3>2. CASE ctx.seqNumSet
      BY <1>3, <1>5, <1>6, <1>8, <2>1, <2>4, <2>7, <3>2
    <3> QED BY <3>1, <3>2
  <2>8. CASE n.s_l \in (FirstSeq - Late)..(FirstSeq - 1)
    <3>1. Delta(n, p.seq) > 0
      BY <1>5, <1>6, <2>1, <2>4, <2>6, <2>8
    <3> QED BY <2>5, <3>1 DEF Unprotect, CheckReplay, Fits
  <2> QED BY <2>3, <2>7, <2>8
<1> QED
  BY <1>7, <1>8 DEF Inv, BaseInv, LocalIsTop, FreshInv
-----------------------------------------------------------------------------
(* The invariant. *)

LEMMA InitInv == ASSUME Init PROVE Inv
<1>1. First \in Packets /\ Index(First) = FirstSeq - 1
  BY FirstPacket
<1>2. FirstSeq \in 1..(Half - 1) /\ Half \in Nat /\ SeqMod = 2 * Half /\ RocMod \in Nat \ {0}
      /\ WindowSize \in Nat /\ MaxLost \in Nat
  BY FirstAssumption, ModAssumption, WindowAssumption, BoundAssumption
<1>3. send \in Packets /\ Index(send) = FirstSeq
  <2>1. 0 * SeqMod = 0
    BY <1>2
  <2> QED BY <1>2, <2>1 DEF Init, Packets, Rocs, Seqs, Index
<1>4. TypeOK
  <2>1. ctx \in Contexts
    BY <1>2 DEF Init, Contexts, Rocs, Seqs
  <2>2. top \in Packets
    BY <1>1 DEF Init, First
  <2> QED BY <1>3, <2>1, <2>2 DEF Init, TypeOK
<1>5. Newer(send, top)
  BY <1>2 DEF Init, Newer
<1>6. BaseInv
  BY <1>2, <1>3, <1>4, <1>5
  DEF Init, BaseInv, IndexIsNew, RocIsNewest, InFlightInv, FreshInv, First
<1>7. LocalIsTop /\ Near
  BY <1>1, <1>2, <1>3 DEF Init, LocalIsTop, Near, First
<1> QED BY <1>6, <1>7 DEF Inv

LEMMA ProtectInv == ASSUME Inv, Protect PROVE Inv'
<1>1. send \in Packets /\ top \in Packets /\ flight \subseteq Packets
  BY DEF Inv, BaseInv, TypeOK
<1>2. Index(send) <= MaxIndex /\ send' = NextSend(send)
  BY DEF Protect
<1>3. send' \in Packets /\ Index(send') = Index(send) + 1
  BY <1>1, <1>2, RocBelow, NextIndex
<1>4. flight' \subseteq flight \cup {send} /\ UNCHANGED <<ctx, top, crossed>>
      /\ \A p \in flight' : Index(p) >= Index(send) - Late
  BY DEF Protect, InFlight
<1>5. TypeOK'
  BY <1>1, <1>3, <1>4 DEF Inv, BaseInv, TypeOK, Protect
<1>6. \A p \in flight' : p \in Packets /\ Index(p) \in Nat /\ Index(p) <= Index(send)
                         /\ Index(p) >= FirstSeq
  <2> TAKE p \in flight'
  <2>1. p \in Packets /\ Index(p) \in Nat /\ Index(send) \in Nat
    BY <1>1, <1>4, IndexNat
  <2>2. CASE p = send
    BY <2>1, <2>2 DEF Inv, BaseInv
  <2>3. CASE p \in flight
    BY <1>1, <2>1, <2>3, NewerIndex DEF Inv, BaseInv, IndexIsNew, InFlightInv
  <2> QED BY <1>4, <2>1, <2>2, <2>3
<1>7. Index(send) \in Nat /\ Index(top) \in Nat /\ Late \in Nat /\ MaxLost \in Nat
      /\ FirstSeq \in Nat
  BY <1>1, IndexNat, BoundAssumption, FirstAssumption, ModAssumption
<1>8. IndexIsNew' /\ InFlightInv'
  <2>1. \A p \in flight' : Newer(send', p)
    BY <1>3, <1>6, <1>7, NewerIndex
  <2>2. \A p \in flight' : Index(send') <= Index(p) + Late + 1
    BY <1>3, <1>4, <1>6, <1>7
  <2> QED BY <1>6, <2>1, <2>2 DEF IndexIsNew, InFlightInv
<1>9. Newer(send', top) /\ Index(send') >= FirstSeq
  BY <1>1, <1>3, <1>7, NewerIndex DEF Inv, BaseInv
<1>10. BaseInv'
  BY <1>4, <1>5, <1>8, <1>9 DEF Inv, BaseInv, RocIsNewest, FreshInv
<1>11. ASSUME ~crossed' PROVE LocalIsTop' /\ Near'
  <2>1. LocalIsTop'
    BY <1>4, <1>11 DEF Inv, LocalIsTop
  <2>2. Index(send) - Index(top) <= MaxLost
    BY <1>4, <1>11 DEF Protect
  <2> QED BY <1>3, <1>4, <1>7, <2>1, <2>2 DEF Near
<1> QED BY <1>10, <1>11 DEF Inv

\* Only s_l may change, and only before the first accepted packet.
LEMMA RefusedInv ==
  ASSUME Inv, NEW q \in Seqs, ctx' = SeqNumSet(ctx, q),
         ctx.seqNumSet \/ q \in (FirstSeq - Late)..(FirstSeq - 1),
         UNCHANGED <<send, flight, top, onTime, crossed>>
  PROVE  Inv'
<1>1. ctx \in Contexts
  BY DEF Inv, BaseInv, TypeOK
<1>2. ctx' \in Contexts /\ ctx'.seqNumSet /\ ctx'.roc = ctx.roc
      /\ ctx'.s_l = IF ctx.seqNumSet THEN ctx.s_l ELSE q
  BY <1>1, SeqNumSetType
<1>3. BaseInv'
  BY <1>2 DEF Inv, BaseInv, TypeOK, IndexIsNew, RocIsNewest, InFlightInv, FreshInv
<1>4. ASSUME ~crossed' PROVE LocalIsTop' /\ Near'
  <2>1. CASE ctx.seqNumSet
    BY <1>2, <1>4, <2>1 DEF Inv, LocalIsTop, Near
  <2>2. CASE ~ctx.seqNumSet
    BY <1>2, <1>4, <2>2 DEF Inv, BaseInv, FreshInv, LocalIsTop, Near
  <2> QED BY <2>1, <2>2
<1> QED BY <1>3, <1>4 DEF Inv

LEMMA AcceptedInv == ASSUME Inv, NEW p \in flight, Accepted(p) PROVE Inv'
<1> DEFINE n == SeqNumSet(ctx, p.seq)
<1>1. p \in Packets /\ p.seq \in Seqs /\ ctx \in Contexts /\ top \in Packets
      /\ send \in Packets /\ flight \subseteq Packets
  BY DEF Inv, BaseInv, TypeOK, Packets
<1>2. n \in Contexts /\ n.seqNumSet /\ n.roc = top.roc
      /\ n.s_l = IF ctx.seqNumSet THEN ctx.s_l ELSE p.seq
  BY <1>1, SeqNumSetType DEF Inv, BaseInv, RocIsNewest
<1>3. Fits(n, p)
  BY DEF Accepted, Unprotect
<1>4. /\ ctx' \in Contexts /\ ctx'.seqNumSet
      /\ ctx'.roc = IF p.roc > top.roc THEN p.roc ELSE top.roc
      /\ ctx'.s_l = IF p.roc > top.roc \/ p.seq > n.s_l THEN p.seq ELSE n.s_l
  <2>1. PICK w \in Windows(n, p.seq) : ctx' = Update(n, p.seq, w)
    BY DEF Accepted
  <2> QED BY <1>1, <1>2, <1>3, <2>1, UpdateType
<1>5. /\ top' = IF Newer(p, top) THEN p ELSE top
      /\ crossed' = (p.roc < top.roc \/ (crossed /\ p.roc = top.roc))
      /\ onTime' \subseteq onTime \cup {p}
      /\ UNCHANGED <<send, flight>>
  BY DEF Accepted
<1>6. /\ p.roc \in Nat /\ top.roc \in Nat /\ p.seq \in Nat /\ top.seq \in Nat
      /\ n.s_l \in Nat
  BY <1>1, <1>2, ModAssumption DEF Packets, Rocs, Seqs, Contexts
<1>7. TypeOK'
  <2>1. crossed' \in BOOLEAN
    BY <1>5
  <2>2. top' \in Packets
    BY <1>1, <1>5
  <2>3. onTime' \subseteq flight'
    BY <1>5 DEF Inv, BaseInv, TypeOK
  <2> QED BY <1>1, <1>4, <1>5, <2>1, <2>2, <2>3 DEF TypeOK
<1>8. Newer(send, p)
  BY DEF Inv, BaseInv, IndexIsNew
<1>9. BaseInv'
  <2>1. RocIsNewest'
    BY <1>4, <1>5, <1>6 DEF RocIsNewest, Newer
  <2>2. Newer(send, top')
    BY <1>5, <1>8 DEF Inv, BaseInv
  <2>3. IndexIsNew' /\ InFlightInv' /\ Index(send') >= FirstSeq /\ send' = send
    BY <1>5 DEF Inv, BaseInv, IndexIsNew, InFlightInv
  <2> QED BY <1>4, <1>7, <2>1, <2>2, <2>3 DEF BaseInv, FreshInv
<1>10. Index(send) \in Nat /\ Index(p) \in Nat /\ Index(top) \in Nat
       /\ Late \in Nat /\ MaxLost \in Nat
  BY <1>1, IndexNat, BoundAssumption
<1>11. ASSUME ~crossed' PROVE LocalIsTop' /\ Near'
  <2>1. p.roc >= top.roc /\ (crossed => p.roc > top.roc)
    <3>1. ~(p.roc < top.roc) /\ ~(crossed /\ p.roc = top.roc)
      BY <1>5, <1>11, Zenon
    <3> QED BY <1>6, <3>1
  <2>2. CASE p.roc > top.roc
    <3>1. top' = p /\ ctx'.s_l = p.seq
      BY <1>4, <1>5, <2>2 DEF Newer
    <3>2. Index(send) <= Index(p) + Late + 1
      BY DEF Inv, BaseInv, InFlightInv
    <3>3. top'.roc > 0
      BY <1>6, <2>2, <3>1
    <3> QED BY <1>5, <3>1, <3>2, <3>3 DEF LocalIsTop, Near
  <2>3. CASE p.roc = top.roc
    <3>1. ~crossed
      BY <1>6, <2>1, <2>3
    <3>2. LocalIsTop /\ Near
      BY <3>1 DEF Inv
    <3>3. CASE Newer(p, top)
      <4>1. top' = p /\ p.seq > top.seq
        BY <1>5, <1>6, <2>3, <3>3 DEF Newer
      <4>2. n.s_l = p.seq \/ n.s_l <= top.seq
        BY <1>2, <1>6, <3>2, FirstAssumption, ModAssumption, BoundAssumption
        DEF LocalIsTop, First
      <4>3. ctx'.s_l = p.seq
        BY <1>4, <1>6, <4>1, <4>2
      <4>4. Index(p) > Index(top)
        BY <1>1, <3>3, NewerIndex
      <4>5. Near'
        BY <1>5, <1>10, <2>3, <3>2, <4>1, <4>4 DEF Near
      <4> QED BY <1>5, <4>1, <4>3, <4>5 DEF LocalIsTop
    <3>4. CASE ~Newer(p, top)
      <4>1. top' = top /\ p.seq <= top.seq
        BY <1>5, <1>6, <2>3, <3>4 DEF Newer
      <4>2. top # First
        <5>1. Index(p) >= FirstSeq /\ Index(p) <= Index(top)
          BY <1>1, <1>10, <3>4, NewerIndex DEF Inv, BaseInv, InFlightInv
        <5> QED BY <5>1, <1>10, FirstPacket, FirstAssumption, ModAssumption
      <4>3. ctx.seqNumSet /\ ctx.s_l = top.seq
        BY <3>2, <4>2 DEF Inv, BaseInv, FreshInv, LocalIsTop
      <4>4. ctx'.s_l = top.seq
        BY <1>2, <1>4, <1>6, <2>3, <4>1, <4>3
      <4> QED BY <1>5, <3>2, <4>1, <4>4 DEF LocalIsTop, Near
    <3> QED BY <3>3, <3>4
  <2> QED BY <1>6, <2>1, <2>2, <2>3
<1> QED BY <1>9, <1>11 DEF Inv

LEMMA NextInv == ASSUME Inv, [Next]_vars PROVE Inv'
<1>1. CASE Protect
  BY <1>1, ProtectInv
<1>2. ASSUME NEW p \in flight, Refused(p) PROVE Inv'
  <2>1. p.seq \in Seqs /\ p \in Packets /\ top \in Packets
    BY DEF Inv, BaseInv, TypeOK, Packets
  <2>2. ctx.seqNumSet
    <3>1. SUFFICES ASSUME ~ctx.seqNumSet PROVE FALSE
      OBVIOUS
    <3>2. top = First /\ ~crossed
      BY <3>1 DEF Inv, BaseInv, FreshInv
    <3>3. Newer(p, top)
      <4>1. Index(p) >= FirstSeq /\ Index(p) \in Nat /\ FirstSeq \in Nat
        BY <2>1, IndexNat, FirstAssumption, ModAssumption DEF Inv, BaseInv, InFlightInv
      <4> QED BY <2>1, <3>2, <4>1, FirstPacket, NewerIndex
    <3> QED BY <1>2, <3>2, <3>3, NewerPasses DEF Refused
  <2> QED BY <1>2, <2>1, <2>2, RefusedInv DEF Refused
<1>3. ASSUME NEW p \in flight, Accepted(p) PROVE Inv'
  BY <1>3, AcceptedInv
<1>4. ASSUME NEW seq \in 1..(FirstSeq - 1), Unprotected(seq) PROVE Inv'
  <2>1. seq \in Seqs /\ seq \in (FirstSeq - Late)..(FirstSeq - 1)
    BY <1>4, FirstAssumption, ModAssumption, BoundAssumption DEF Unprotected, Seqs
  <2> QED BY <1>4, <2>1, RefusedInv DEF Unprotected
<1>5. CASE UNCHANGED vars
  BY <1>5 DEF vars, Inv, BaseInv, TypeOK, IndexIsNew, RocIsNewest, InFlightInv, FreshInv,
              LocalIsTop, Near
<1> QED BY <1>1, <1>2, <1>3, <1>4, <1>5 DEF Next

LEMMA InvCorrect == Spec => []Inv
<1>1. Init => Inv
  BY InitInv
<1>2. Inv /\ [Next]_vars => Inv'
  BY NextInv
<1> QED BY <1>1, <1>2, PTL DEF Spec

\* The type invariant holds for every size of the numbers and of the window.
THEOREM CryptoTypeCorrect == Spec => []TypeOK
<1>1. Inv => TypeOK
  BY DEF Inv, BaseInv
<1> QED BY <1>1, InvCorrect, PTL

\* The sender (SrtpHandler::protect) never uses an index twice.
THEOREM IndexIsNewCorrect == Spec => []IndexIsNew
<1>1. Inv => IndexIsNew
  BY DEF Inv, BaseInv
<1> QED BY <1>1, InvCorrect, PTL

\* The receiver's roc (CryptoContext::update) is that of the newest packet.
THEOREM RocIsNewestCorrect == Spec => []RocIsNewest
<1>1. Inv => RocIsNewest
  BY DEF Inv, BaseInv
<1> QED BY <1>1, InvCorrect, PTL

\* Between rollovers that no late packet crosses, guessIndex and checkReplay let
\* every newer packet pass, for any loss of less than half of the number space.
THEOREM NewestAcceptedCorrect == Spec => []NewestAccepted
<1>1. Inv => NewestAccepted
  BY NewerPasses DEF NewestAccepted
<1> QED BY <1>1, InvCorrect, PTL

-----------------------------------------------------------------------------
(* The replay window. *)

\* Between rollovers that no late packet crossed, the window has the bit of every
\* packet accepted in time. A late packet that crossed leaves s_l in the upper half,
\* and by the next rollover what was accepted before it is no longer in flight.
ReplayInv ==
  /\ \A q \in onTime : Index(q) <= Index(top)
  /\ ~crossed => \A q \in onTime :
       Index(top) - Index(q) < WindowSize => Index(top) - Index(q) \in ctx.window
  /\ crossed =>
       /\ ctx.seqNumSet /\ ctx.s_l > Half
       /\ \A q \in onTime : Index(q) <= top.roc * SeqMod + Late

\* The indices of one roc lie between its multiples of the number space.
LEMMA IndexOfRoc ==
  ASSUME NEW p \in Packets, NEW r \in Nat
  PROVE  /\ r * SeqMod \in Nat /\ (r + 1) * SeqMod = r * SeqMod + SeqMod
         /\ p.roc >= r => Index(p) >= r * SeqMod
         /\ p.roc < r => Index(p) < r * SeqMod
<1> DEFINE a == p.roc
<1>1. a \in Nat /\ p.seq \in 0..(SeqMod - 1) /\ SeqMod \in Nat
  BY ModAssumption DEF Packets, Rocs, Seqs
<1>2. a * SeqMod \in Nat /\ r * SeqMod \in Nat /\ (r + 1) * SeqMod = r * SeqMod + SeqMod
  BY <1>1
<1>3. ASSUME a >= r PROVE a * SeqMod >= r * SeqMod
  BY <1>1, <1>3
<1>4. ASSUME r >= a + 1 PROVE r * SeqMod >= a * SeqMod + SeqMod
  <2>1. r * SeqMod >= (a + 1) * SeqMod
    BY <1>1, <1>4
  <2> QED BY <1>1, <2>1
<1> QED BY <1>1, <1>2, <1>3, <1>4 DEF Index

\* For a packet whose tag fits, the guessed distance is the real one.
LEMMA DeltaIsDistance ==
  ASSUME NEW c \in Contexts, NEW p \in Packets, NEW q \in Packets,
         Fits(c, p), c.roc = q.roc, c.s_l = q.seq
  PROVE  Delta(c, p.seq) = Index(p) - Index(q)
<1>1. p.roc \in Int /\ q.roc \in Int /\ SeqMod \in Int /\ p.seq \in Int /\ q.seq \in Int
  BY ModAssumption DEF Packets, Rocs, Seqs
<1>2. (p.roc - q.roc) * SeqMod = p.roc * SeqMod - q.roc * SeqMod
  BY <1>1
<1>3. p.roc * SeqMod \in Int /\ q.roc * SeqMod \in Int
  BY <1>1
<1>4. Delta(c, p.seq) = (p.roc - q.roc) * SeqMod + (p.seq - q.seq)
  BY DEF Delta, Fits
<1> QED BY <1>1, <1>2, <1>3, <1>4 DEF Index

\* update sets the bit of the newest packet and moves the others with it.
LEMMA WindowOfNewer ==
  ASSUME NEW c \in Contexts, NEW q \in Seqs, NEW w \in Windows(c, q), Delta(c, q) >= 0
  PROVE  /\ 0 \in w
         /\ \A b \in c.window : b + Delta(c, q) < WindowSize => b + Delta(c, q) \in w
<1> DEFINE d == Delta(c, q)
<1>1. d \in Int /\ WindowSize \in Nat /\ c.window \subseteq 0..(WindowSize - 1)
  BY DeltaType, WindowAssumption DEF Contexts
<1>2. CASE d > 0
  <2>1. PICK v \in ShiftLeft(c.window, d) : w = v \cup {0}
    BY <1>2 DEF Windows
  <2>2. ASSUME NEW b \in c.window, b + d < WindowSize PROVE b + d \in v
    <3>1. v = Shifted(c.window, d)
      BY <1>1, <1>2, <2>1, <2>2 DEF ShiftLeft
    <3>2. b + d \in 0..(WindowSize - 1) /\ (b + d) - d = b
      BY <1>1, <1>2, <2>2
    <3> QED BY <3>1, <3>2 DEF Shifted
  <2> QED BY <2>1, <2>2
<1>3. CASE d = 0
  <2>1. w = c.window \cup {0}
    BY <1>3 DEF Windows, OneShifted
  <2> QED BY <1>1, <1>3, <2>1
<1> QED BY <1>1, <1>2, <1>3

\* The bits of the window stay when the packet is not newer.
LEMMA WindowOfOlder ==
  ASSUME NEW c \in Contexts, NEW q \in Seqs, NEW w \in Windows(c, q), Delta(c, q) <= 0
  PROVE  c.window \subseteq w
BY DeltaType DEF Windows

\* What was accepted in time lies behind the newest packet, at most Late behind.
LEMMA OnTimeTop ==
  ASSUME Inv, ReplayInv, ~crossed, NEW q \in onTime
  PROVE  top # First /\ ctx.seqNumSet /\ ctx.s_l = top.seq /\ ctx.roc = top.roc
<1>1. q \in flight /\ q \in Packets /\ top \in Packets
  BY DEF Inv, BaseInv, TypeOK
<1>2. Index(q) >= FirstSeq /\ Index(q) <= Index(top) /\ Index(q) \in Nat /\ Index(top) \in Nat
  BY <1>1, IndexNat DEF Inv, BaseInv, InFlightInv, ReplayInv
<1>3. top # First
  BY <1>2, FirstPacket, FirstAssumption, ModAssumption
<1> QED BY <1>3 DEF Inv, BaseInv, FreshInv, LocalIsTop, RocIsNewest

LEMMA ReplayInit == ASSUME Init PROVE ReplayInv
BY DEF Init, ReplayInv

\* Packets leave the network and the context stays.
LEMMA ReplayProtect == ASSUME Inv, ReplayInv, Protect PROVE ReplayInv'
BY DEF Protect, ReplayInv

\* A refused packet changes the context only before the first is accepted.
LEMMA ReplayRefused ==
  ASSUME Inv, ReplayInv, NEW q \in Seqs, ctx' = SeqNumSet(ctx, q),
         UNCHANGED <<send, flight, top, onTime, crossed>>
  PROVE  ReplayInv'
<1>1. ctx' = ctx \/ (~ctx.seqNumSet /\ ~crossed)
  BY DEF SeqNumSet, Inv, BaseInv, FreshInv
<1>2. ctx'.window = ctx.window
  BY SeqNumSetType DEF Inv, BaseInv, TypeOK
<1> QED BY <1>1, <1>2 DEF ReplayInv

LEMMA ReplayAccepted == ASSUME Inv, ReplayInv, NEW p \in flight, Accepted(p) PROVE ReplayInv'
<1> DEFINE n == SeqNumSet(ctx, p.seq)
           d == Delta(n, p.seq)
<1>1. p \in Packets /\ p.seq \in Seqs /\ ctx \in Contexts /\ top \in Packets
      /\ send \in Packets /\ flight \subseteq Packets /\ onTime \subseteq flight
  BY DEF Inv, BaseInv, TypeOK, Packets
<1>2. n \in Contexts /\ n.seqNumSet /\ n.roc = top.roc /\ n.window = ctx.window
      /\ n.s_l = IF ctx.seqNumSet THEN ctx.s_l ELSE p.seq
  BY <1>1, SeqNumSetType DEF Inv, BaseInv, RocIsNewest
<1>3. Fits(n, p) /\ d \in Int
  BY <1>1, <1>2, DeltaType DEF Accepted, Unprotect
<1>4. PICK w \in Windows(n, p.seq) : ctx' = Update(n, p.seq, w)
  BY DEF Accepted
<1>5. ctx'.window = w /\ ctx'.seqNumSet
      /\ ctx'.s_l = IF p.roc > top.roc \/ p.seq > n.s_l THEN p.seq ELSE n.s_l
  <2>1. ctx'.window = w
    BY <1>2, <1>4 DEF Update, Contexts
  <2>2. ctx'.s_l = IF p.roc > n.roc \/ p.seq > n.s_l THEN p.seq ELSE n.s_l
    BY <1>1, <1>2, <1>3, <1>4, UpdateType
  <2>3. ctx'.seqNumSet
    BY <1>1, <1>2, <1>3, <1>4, UpdateType
  <2> QED BY <1>2, <2>1, <2>2, <2>3
<1>6. /\ top' = IF Newer(p, top) THEN p ELSE top
      /\ crossed' = (p.roc < top.roc \/ (crossed /\ p.roc = top.roc))
      /\ onTime' = IF Newer(p, top) /\ ~crossed' THEN onTime \cup {p} ELSE onTime
      /\ UNCHANGED <<send, flight>>
  BY DEF Accepted
<1>7. /\ p.roc \in Nat /\ top.roc \in Nat /\ p.seq \in Nat /\ top.seq \in Nat
      /\ n.s_l \in 0..(SeqMod - 1) /\ SeqMod \in Nat /\ Half \in Nat /\ SeqMod = 2 * Half
      /\ Late \in Nat /\ Late < Half - 1 /\ WindowSize \in Nat \ {0}
  BY <1>1, <1>2, ModAssumption, BoundAssumption, WindowAssumption
  DEF Packets, Rocs, Seqs, Contexts
<1>8. /\ Index(p) \in Nat /\ Index(top) \in Nat /\ Index(send) \in Nat
      /\ Index(p) < Index(send) /\ Index(top) < Index(send)
      /\ Index(send) <= Index(p) + Late + 1
      /\ \A q \in onTime : /\ q \in Packets /\ Index(q) \in Nat
                           /\ Index(q) < Index(send) /\ Index(send) <= Index(q) + Late + 1
  BY <1>1, IndexNat, NewerIndex DEF Inv, BaseInv, IndexIsNew, InFlightInv
<1>9. \A q \in onTime' : Index(q) <= Index(top')
  BY <1>1, <1>6, <1>8, NewerIndex DEF ReplayInv
<1>10. CASE p.roc < top.roc
  <2>1. crossed' /\ top' = top /\ onTime' = onTime
    <3>1. ~Newer(p, top)
      BY <1>7, <1>10 DEF Newer
    <3>2. crossed'
      BY <1>6, <1>10, Zenon
    <3> QED BY <1>6, <3>1, <3>2
  <2>2. top.roc * SeqMod \in Nat /\ Index(p) < top.roc * SeqMod /\ Index(top) >= top.roc * SeqMod
    BY <1>1, <1>7, <1>10, IndexOfRoc
  <2>3. \A q \in onTime : Index(q) <= top.roc * SeqMod + Late
    BY <1>7, <1>8, <2>2
  <2>4. p.seq > Half
    <3>1. (p.roc + 1) * SeqMod <= top.roc * SeqMod
      BY <1>7, <1>10
    <3>2. (p.roc + 1) * SeqMod = p.roc * SeqMod + SeqMod /\ p.roc * SeqMod \in Nat
      BY <1>7
    <3>3. Index(p) >= top.roc * SeqMod - Late
      BY <1>7, <1>8, <2>2
    <3> QED BY <1>7, <2>2, <3>1, <3>2, <3>3 DEF Index
  <2>5. ctx'.s_l > Half
    BY <1>5, <1>7, <2>4
  <2> QED BY <1>5, <1>9, <2>1, <2>3, <2>5 DEF ReplayInv
<1>11. CASE p.roc > top.roc
  <2>1. ~crossed' /\ top' = p /\ onTime' = onTime \cup {p}
    <3>1. ~(p.roc < top.roc) /\ p.roc # top.roc
      BY <1>7, <1>11
    <3>2. ~crossed'
      BY <1>6, <3>1
    <3> QED BY <1>6, <1>11, <3>2 DEF Newer
  <2>2. d >= 0
    <3>1. (p.roc - top.roc) * SeqMod >= SeqMod
      BY <1>7, <1>11
    <3>2. (p.roc - top.roc) * SeqMod \in Int
      BY <1>7
    <3> QED BY <1>2, <1>3, <1>7, <3>1, <3>2 DEF Delta, Fits
  <2>3. 0 \in w /\ \A b \in n.window : b + d < WindowSize => b + d \in w
    BY <1>1, <1>2, <2>2, WindowOfNewer
  <2>4. ASSUME NEW q \in onTime, Index(p) - Index(q) < WindowSize
        PROVE  Index(p) - Index(q) \in w
    <3>1. ~crossed
      <4>1. Index(p) >= (top.roc + 1) * SeqMod /\ top.roc * SeqMod \in Nat
            /\ (top.roc + 1) * SeqMod = top.roc * SeqMod + SeqMod
        <5>1. p.roc >= top.roc + 1 /\ top.roc + 1 \in Nat
          BY <1>7, <1>11
        <5> QED BY <1>1, <1>7, <5>1, IndexOfRoc
      <4>2. Index(q) > top.roc * SeqMod + Late
        BY <1>7, <1>8, <4>1
      <4> QED BY <1>7, <1>8, <4>1, <4>2 DEF ReplayInv
    <3>2. ctx.seqNumSet /\ n.s_l = top.seq
      BY <1>2, <3>1, OnTimeTop
    <3>3. d = Index(p) - Index(top)
      BY <1>1, <1>2, <1>3, <3>2, DeltaIsDistance
    <3>4. Index(top) - Index(q) < WindowSize
      BY <1>7, <1>8, <2>2, <2>4, <3>3
    <3>5. Index(top) - Index(q) \in n.window
      BY <1>2, <3>1, <3>4 DEF ReplayInv
    <3>6. Index(top) - Index(q) + d = Index(p) - Index(q)
      BY <1>8, <3>3
    <3> QED BY <2>3, <2>4, <3>5, <3>6
  <2>5. Index(p) - Index(p) = 0
    BY <1>8
  <2> QED BY <1>5, <1>9, <2>1, <2>3, <2>4, <2>5 DEF ReplayInv
<1>12. CASE p.roc = top.roc /\ crossed
  <2>1. crossed' /\ onTime' = onTime /\ top'.roc = top.roc
    <3>1. crossed'
      BY <1>6, <1>12
    <3> QED BY <1>6, <1>12, <3>1
  <2>2. n.s_l > Half /\ ctx'.s_l > Half
    BY <1>2, <1>5, <1>7, <1>12 DEF ReplayInv
  <2> QED BY <1>5, <1>9, <1>12, <2>1, <2>2 DEF ReplayInv
<1>13. CASE p.roc = top.roc /\ ~crossed
  <2>1. ~crossed'
    <3>1. ~(p.roc < top.roc)
      BY <1>7, <1>13
    <3> QED BY <1>6, <1>13, <3>1, Zenon
  <2>2. CASE Newer(p, top)
    <3>1. top' = p /\ onTime' = onTime \cup {p} /\ p.seq > top.seq
      BY <1>6, <1>7, <1>13, <2>1, <2>2 DEF Newer
    <3>2. d = p.seq - n.s_l
      <4>1. (p.roc - n.roc) * SeqMod = 0
        BY <1>2, <1>7, <1>13
      <4> QED BY <1>2, <1>3, <1>7, <4>1 DEF Delta, Fits
    <3>3. d >= 0
      BY <1>2, <1>7, <1>13, <3>1, <3>2, FirstAssumption, ModAssumption, BoundAssumption
      DEF Inv, LocalIsTop, First
    <3>4. 0 \in w /\ \A b \in n.window : b + d < WindowSize => b + d \in w
      BY <1>1, <1>2, <3>3, WindowOfNewer
    <3>5. ASSUME NEW q \in onTime, Index(p) - Index(q) < WindowSize
          PROVE  Index(p) - Index(q) \in w
      <4>1. n.s_l = top.seq
        BY <1>2, <1>13, OnTimeTop
      <4>2. d = Index(p) - Index(top)
        BY <1>1, <1>2, <1>3, <4>1, DeltaIsDistance
      <4>3. Index(top) - Index(q) < WindowSize
        BY <1>7, <1>8, <3>3, <3>5, <4>2
      <4>4. Index(top) - Index(q) \in n.window
        BY <1>2, <1>13, <4>3 DEF ReplayInv
      <4>5. Index(top) - Index(q) + d = Index(p) - Index(q)
        BY <1>8, <4>2
      <4> QED BY <3>4, <3>5, <4>4, <4>5
    <3>6. Index(p) - Index(p) = 0
      BY <1>8
    <3> QED BY <1>5, <1>9, <2>1, <3>1, <3>4, <3>5, <3>6 DEF ReplayInv
  <2>3. CASE ~Newer(p, top)
    <3>1. top' = top /\ onTime' = onTime /\ p.seq <= top.seq
      BY <1>6, <1>7, <1>13, <2>3 DEF Newer
    <3>2. n.window \subseteq w
      <4>1. top # First
        <5>1. Index(p) >= FirstSeq /\ Index(p) <= Index(top)
          BY <1>1, <1>8, <2>3, NewerIndex DEF Inv, BaseInv, InFlightInv
        <5> QED BY <1>8, <5>1, FirstPacket, FirstAssumption, ModAssumption
      <4>2. n.s_l = top.seq
        BY <1>2, <1>13, <4>1 DEF Inv, BaseInv, FreshInv, LocalIsTop
      <4>3. d = Index(p) - Index(top)
        BY <1>1, <1>2, <1>3, <4>2, DeltaIsDistance
      <4>4. d <= 0
        BY <1>1, <1>8, <2>3, <4>3, NewerIndex
      <4> QED BY <1>1, <1>2, <4>4, WindowOfOlder
    <3> QED BY <1>2, <1>5, <1>9, <1>13, <2>1, <3>1, <3>2 DEF ReplayInv
  <2> QED BY <2>2, <2>3
<1> QED BY <1>7, <1>10, <1>11, <1>12, <1>13

LEMMA ReplayInvCorrect == Spec => []ReplayInv
<1>1. Init => ReplayInv
  BY ReplayInit
<1>2. Inv /\ ReplayInv /\ [Next]_vars => ReplayInv'
  <2> SUFFICES ASSUME Inv, ReplayInv, [Next]_vars PROVE ReplayInv'
    OBVIOUS
  <2>1. CASE Protect
    BY <2>1, ReplayProtect
  <2>2. ASSUME NEW p \in flight, Refused(p) PROVE ReplayInv'
    <3>1. p.seq \in Seqs
      BY DEF Inv, BaseInv, TypeOK, Packets
    <3> QED BY <2>2, <3>1, ReplayRefused DEF Refused
  <2>3. ASSUME NEW p \in flight, Accepted(p) PROVE ReplayInv'
    BY <2>3, ReplayAccepted
  <2>4. ASSUME NEW seq \in 1..(FirstSeq - 1), Unprotected(seq) PROVE ReplayInv'
    <3>1. seq \in Seqs
      BY FirstAssumption, ModAssumption DEF Seqs
    <3> QED BY <2>4, <3>1, ReplayRefused DEF Unprotected
  <2>5. CASE UNCHANGED vars
    BY <2>5 DEF vars, ReplayInv
  <2> QED BY <2>1, <2>2, <2>3, <2>4, <2>5 DEF Next
<1> QED BY <1>1, <1>2, InvCorrect, PTL DEF Spec

\* A replayed packet is refused (checkReplay), although update shifts an int by
\* more than its bits: such a shift never concerns a bit that is still needed.
THEOREM NotAcceptedTwiceCorrect == Spec => []NotAcceptedTwice
<1>1. Inv /\ ReplayInv => NotAcceptedTwice
  <2> SUFFICES ASSUME Inv, ReplayInv, ~crossed, NEW p \in onTime
               PROVE  Unprotect(ctx, p) # 1
    BY DEF NotAcceptedTwice
  <2> DEFINE n == SeqNumSet(ctx, p.seq)
  <2>1. p \in Packets /\ top \in Packets /\ ctx \in Contexts /\ p.seq \in Seqs
    BY DEF Inv, BaseInv, TypeOK, Packets
  <2>2. ctx.seqNumSet /\ ctx.s_l = top.seq /\ ctx.roc = top.roc /\ n = ctx
    BY OnTimeTop DEF SeqNumSet
  <2>3. Index(p) <= Index(top) /\ Index(p) \in Nat /\ Index(top) \in Nat
    BY <2>1, IndexNat DEF ReplayInv
  <2>4. CASE Fits(ctx, p)
    <3>1. Delta(ctx, p.seq) = Index(p) - Index(top)
      BY <2>1, <2>2, <2>4, DeltaIsDistance
    <3>2. -Delta(ctx, p.seq) = Index(top) - Index(p)
      BY <2>3, <3>1
    <3>3. ~CheckReplay(ctx, p.seq)
      BY <2>3, <3>1, <3>2 DEF CheckReplay, ReplayInv
    <3> QED BY <2>2, <3>3 DEF Unprotect
  <2>5. CASE ~Fits(ctx, p)
    BY <2>2, <2>5 DEF Unprotect
  <2> QED BY <2>4, <2>5
<1> QED BY <1>1, InvCorrect, ReplayInvCorrect, PTL

\* A late packet that crossed a rollover harms until the next one only: there
\* guessIndex (CryptoContext) finds the new roc again.
THEOREM NextRolloverHealsCorrect == Spec => []NextRolloverHeals
<1>1. Inv /\ ReplayInv => NextRolloverHeals
  <2> SUFFICES ASSUME Inv, ReplayInv, crossed, NEW p \in flight,
                      p.seq = 0, p.roc = ctx.roc + 1
               PROVE  Unprotect(ctx, p) = 1
    BY DEF NextRolloverHeals
  <2>1. ctx.seqNumSet /\ ctx.s_l > Half /\ SeqNumSet(ctx, p.seq) = ctx
    BY DEF ReplayInv, SeqNumSet
  <2>2. ctx.roc \in Rocs /\ ctx.s_l \in 0..(SeqMod - 1) /\ p.roc \in 0..(RocMod - 1)
        /\ RocMod \in Nat /\ SeqMod \in Nat /\ Half \in Nat /\ SeqMod = 2 * Half
    BY ModAssumption DEF Inv, BaseInv, TypeOK, Contexts, Packets, Rocs, Seqs
  <2>3. (ctx.roc + 1) % RocMod = ctx.roc + 1
    BY <2>2, NextRoc DEF Rocs
  <2>4. GuessedRoc(ctx, p.seq) = p.roc
    BY <2>1, <2>2, <2>3 DEF GuessedRoc
  <2>5. Delta(ctx, p.seq) > 0
    <3>1. (p.roc - ctx.roc) * SeqMod = SeqMod
      BY <2>2 DEF Rocs
    <3> QED BY <2>2, <2>4, <3>1 DEF Delta
  <2> QED BY <2>1, <2>4, <2>5 DEF Unprotect, CheckReplay, Fits
<1> QED BY <1>1, InvCorrect, ReplayInvCorrect, PTL

=============================================================================
