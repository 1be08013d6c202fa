---------------------------- MODULE CryptoContext ----------------------------
(***************************************************************************)
(* The packet index of SRTP (libs/zrtp/srtp/CryptoContext.cpp, used by     *)
(* SrtpHandler.cpp): the sender's rollover counter, the receiver's guess   *)
(* of it from the 16-bit sequence number, and the replay window.           *)
(*                                                                         *)
(* A packet is known by the index it was encrypted and authenticated with, *)
(* the record of its rollover counter and sequence number.  Its tag fits   *)
(* exactly when the receiver guesses that index.  The network loses,       *)
(* duplicates and delays packets.                                          *)
(***************************************************************************)
EXTENDS Integers, FiniteSets

CONSTANTS
  SeqMod,      \* 2^16
  RocMod,      \* 2^32
  WindowSize,  \* REPLAY_WINDOW_SIZE, 64: the bits of replay_window
  IntBits,     \* the bits of an int, 32
  FirstSeq,    \* the sequence number of the first protected packet
  Late,        \* bound: how many packets may overtake one
  MaxLost,     \* bound: packets lost in a row
  MaxIndex     \* bound: packets sent

Half == SeqMod \div 2

ASSUME ModAssumption ==
  SeqMod \in Nat /\ Half \in Nat /\ SeqMod = 2 * Half /\ RocMod \in Nat \ {0}
ASSUME WindowAssumption ==
  /\ WindowSize \in Nat /\ IntBits \in 1..WindowSize /\ WindowSize < Half
\* CTMediaIDS starts a stream's numbers at 0: SRTP is on long before 2^15.
ASSUME FirstAssumption == FirstSeq \in 1..(Half - 1)
ASSUME BoundAssumption ==
  /\ Late \in Nat /\ MaxLost \in Nat /\ Late + MaxLost < Half - 1
  /\ MaxIndex \in Nat /\ MaxIndex < (RocMod - 1) * SeqMod

Seqs == 0..(SeqMod - 1)
Rocs == 0..(RocMod - 1)
Packets == [roc : Rocs, seq : Seqs]
Index(p) == p.roc * SeqMod + p.seq

VARIABLES
  send,     \* the sender's roc, and the sequence number of the next packet
  flight,   \* the packets that may still arrive, or arrive again
  ctx,      \* the receiver's CryptoContext
  top,      \* history: the newest packet accepted
  onTime,   \* history: those accepted as the newest, while not crossed
  crossed   \* history: since the newest roc began, a packet of the one before
            \* was accepted

vars == <<send, flight, ctx, top, onTime, crossed>>

Contexts == [seqNumSet : BOOLEAN, s_l : Seqs, roc : Rocs,
             window : SUBSET (0..(WindowSize - 1))]

Init ==
  /\ send = [roc |-> 0, seq |-> FirstSeq]
  /\ flight = {}
  /\ ctx = [seqNumSet |-> FALSE, s_l |-> 0, roc |-> 0, window |-> {}]
  /\ top = [roc |-> 0, seq |-> FirstSeq - 1]
  /\ onTime = {}
  /\ crossed = FALSE

-----------------------------------------------------------------------------
(* SrtpHandler::protect *)

\* Mutant: the rollover is noticed one packet late.
NextSendLate(s) ==
  [roc |-> IF s.seq = 0 THEN (s.roc + 1) % RocMod ELSE s.roc,
   seq |-> (s.seq + 1) % SeqMod]

\* makeRTP counts the sequence number, protect the rollovers.
NextSend(s) ==
  [roc |-> IF s.seq = SeqMod - 1 THEN (s.roc + 1) % RocMod ELSE s.roc,
   seq |-> (s.seq + 1) % SeqMod]

InFlight(ps, newest) == {p \in ps : Index(p) >= Index(newest) - Late}

Protect ==
  /\ Index(send) <= MaxIndex
  /\ ~crossed => Index(send) - Index(top) <= MaxLost
  /\ flight' = InFlight(flight \cup {send}, send)
  /\ onTime' = onTime \cap flight'
  /\ send' = NextSend(send)
  /\ UNCHANGED <<ctx, top, crossed>>

-----------------------------------------------------------------------------
(* CryptoContext *)

\* The first call that uses a sequence number initialises s_l.
SeqNumSet(c, seq) == IF c.seqNumSet THEN c ELSE [c EXCEPT !.seqNumSet = TRUE, !.s_l = seq]

\* Mutant: a rollover is only seen right behind the highest number.
GuessedRocAtTheEnd(c, seq) ==
  CASE c.s_l < Half /\ seq - c.s_l > Half -> (c.roc - 1) % RocMod
    [] c.s_l = SeqMod - 1 /\ seq < Half -> (c.roc + 1) % RocMod
    [] OTHER -> c.roc

\* guessIndex: the rollover counter that brings the number closest to s_l.
GuessedRoc(c, seq) ==
  IF c.s_l < Half
  THEN IF seq - c.s_l > Half THEN (c.roc - 1) % RocMod ELSE c.roc
  ELSE IF c.s_l - Half > seq THEN (c.roc + 1) % RocMod ELSE c.roc

\* The guessed index, less the local one.
Delta(c, seq) == (GuessedRoc(c, seq) - c.roc) * SeqMod + (seq - c.s_l)

\* Mutant: a packet is new if the bit of the window is not looked at.
CheckReplayNoWindow(c, seq) == Delta(c, seq) > -WindowSize

CheckReplay(c, seq) ==
  \/ Delta(c, seq) > 0
  \/ /\ -Delta(c, seq) < WindowSize
     /\ -Delta(c, seq) \notin c.window

\* Mutant: the bits that leave the window are kept.
ShiftedUncut(window, delta) == {b + delta : b \in window}

\* replay_window << delta, for bits that stay in the window.
Shifted(window, delta) == {b \in 0..(WindowSize - 1) : b - delta \in window}

\* A shift by the window's size or more is undefined: the processor takes the
\* count modulo the size, or shifts everything out.
ShiftLeft(window, delta) ==
  IF delta < WindowSize THEN {Shifted(window, delta)}
  ELSE {{}, Shifted(window, delta % WindowSize)}

\* 1 << delta for an int and a delta that is not positive: undefined but for 0.
\* The count is taken modulo the size, and the sign extended, or nothing is set.
OneShifted(delta) ==
  LET bit == delta % IntBits
      masked == IF bit = IntBits - 1 THEN bit..(WindowSize - 1) ELSE {bit}
  IN IF delta = 0 THEN {{0}} ELSE {{}, masked}

\* What update may make of the window.
Windows(c, seq) ==
  LET delta == Delta(c, seq)
  IN IF delta > 0 THEN {w \cup {0} : w \in ShiftLeft(c.window, delta)}
     ELSE {c.window \cup bits : bits \in OneShifted(delta)}

\* Mutant: the highest sequence number is kept over a rollover.
UpdateKeepsHighest(c, seq, w) ==
  [c EXCEPT !.window = w,
            !.s_l = IF seq > @ THEN seq ELSE @,
            !.roc = IF GuessedRoc(c, seq) > @ THEN GuessedRoc(c, seq) ELSE @]

\* Mutant: the guess is taken over, whatever it is.
UpdateAnyRoc(c, seq, w) ==
  [c EXCEPT !.window = w, !.s_l = seq, !.roc = GuessedRoc(c, seq)]

\* update: a higher number is the highest, even if it is of the roc before.
Update(c, seq, w) ==
  LET later == GuessedRoc(c, seq) > c.roc
  IN [c EXCEPT !.window = w,
               !.s_l = IF later \/ seq > @ THEN seq ELSE @,
               !.roc = IF later THEN GuessedRoc(c, seq) ELSE @]

-----------------------------------------------------------------------------
(* SrtpHandler::unprotect *)

Fits(c, p) == GuessedRoc(c, p.seq) = p.roc

\* What unprotect returns for p: -2 for a replay, -1 for a bad tag, or 1.
Unprotect(c, p) ==
  LET n == SeqNumSet(c, p.seq)
  IN IF ~CheckReplay(n, p.seq) THEN -2 ELSE IF ~Fits(n, p) THEN -1 ELSE 1

Newer(p, q) == p.roc > q.roc \/ (p.roc = q.roc /\ p.seq > q.seq)

Refused(p) ==
  /\ p \in flight /\ Unprotect(ctx, p) # 1
  /\ ctx' = SeqNumSet(ctx, p.seq)
  /\ UNCHANGED <<send, flight, top, onTime, crossed>>

Accepted(p) ==
  /\ p \in flight /\ Unprotect(ctx, p) = 1
  /\ LET n == SeqNumSet(ctx, p.seq)
     IN \E w \in Windows(n, p.seq) : ctx' = Update(n, p.seq, w)
  /\ top' = IF Newer(p, top) THEN p ELSE top
  /\ crossed' = (p.roc < top.roc \/ (crossed /\ p.roc = top.roc))
  /\ onTime' = IF Newer(p, top) /\ ~crossed' THEN onTime \cup {p} ELSE onTime
  /\ UNCHANGED <<send, flight>>

\* A packet sent before SRTP was on arrives late: no tag, so it is refused.
Unprotected(seq) ==
  /\ seq >= FirstSeq - Late
  /\ ctx' = SeqNumSet(ctx, seq)
  /\ UNCHANGED <<send, flight, top, onTime, crossed>>

Next ==
  \/ Protect
  \/ \E p \in flight : Refused(p) \/ Accepted(p)
  \/ \E seq \in 1..(FirstSeq - 1) : Unprotected(seq)

Spec == Init /\ [][Next]_vars

-----------------------------------------------------------------------------
(* Safety. *)

\* The type invariant.
TypeOK ==
  /\ send \in Packets
  /\ flight \subseteq Packets
  /\ ctx \in Contexts
  /\ top \in Packets
  /\ onTime \subseteq flight
  /\ crossed \in BOOLEAN

\* The next packet's index is one that no packet before it had: under one key,
\* an index used twice would encrypt two packets with one key stream.
IndexIsNew == \A p \in flight : Newer(send, p)

\* The receiver's rollover counter is that of the newest packet it accepted:
\* neither a late packet nor a refused one moves it.
RocIsNewest == ctx.roc = top.roc

\* As long as no late packet was accepted across the last rollover, a packet newer
\* than all before it is accepted: loss, duplicates and delay do not stop the
\* stream.
NewestAccepted ==
  ~crossed => \A p \in flight : Newer(p, top) => Unprotect(ctx, p) = 1

\* A packet that was accepted as the newest is not accepted again: the undefined
\* shifts of update never clear its bit while it is in the window.
NotAcceptedTwice == ~crossed => \A p \in onTime : Unprotect(ctx, p) # 1

\* If a late packet did cross the rollover, the next rollover heals it: the first
\* packet that follows is accepted, and with it (NewestAccepted) the rest.
NextRolloverHeals ==
  crossed => \A p \in flight :
               p.seq = 0 /\ p.roc = ctx.roc + 1 => Unprotect(ctx, p) = 1

-----------------------------------------------------------------------------
(* What a comment says and the code does not keep. *)

\* "false if packet is too old ar was already received" (checkReplay), and
\* "Call this method after all checks were successful.  See chapter 3.3.1 in the
\* RFC when to update the ROC" (update): a packet newer than all is accepted.
NewestAlwaysAccepted ==
  \A p \in flight : Newer(p, top) => Unprotect(ctx, p) = 1

=============================================================================
