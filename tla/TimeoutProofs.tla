---------------------------- MODULE TimeoutProofs ----------------------------
(***************************************************************************)
(* Proofs about the timeout provider (TimeoutProvider.tla): for any number *)
(* of streams, any delays and a list of any length, the list is in the     *)
(* order of expiry, the worker does not plan to sleep past its front, and  *)
(* the list and the worker give every stream a timer of its own            *)
(* (StreamTimers.tla).                                                     *)
(***************************************************************************)
EXTENDS TimeoutProvider, SequenceTheorems, FiniteSetTheorems, WellFoundedInduction, TLAPS

SortedList(l) == \A i, j \in DOMAIN l : i <= j => l[i].left <= l[j].left

-----------------------------------------------------------------------------
(* The list.                                                                 *)

LEMMA ListType ==
  ASSUME NEW l \in Seq(Requests)
  PROVE  /\ Len(l) \in Nat /\ DOMAIN l = 1..Len(l)
         /\ \A i \in DOMAIN l : l[i] \in Requests /\ l[i].left \in Int
<1>1. Len(l) \in Nat /\ DOMAIN l = 1..Len(l)
  BY LenProperties
<1>2. \A i \in 1..Len(l) : l[i] \in Requests
  BY ElementOfSeq
<1>3. \A r \in Requests : r.left \in Int
  BY DEF Requests, Lefts
<1> QED
  BY <1>1, <1>2, <1>3

(* A set of positions has a first one.                                       *)
LEMMA FirstExists ==
  ASSUME NEW S \in SUBSET Nat, S # {}
  PROVE  \E i \in S : \A j \in S : i <= j
<1>1. PICK i \in S : \A j \in S : ~(<<j, i>> \in OpToRel(<, Nat))
  BY NatLessThanWellFounded, WFMin
<1>2. \A j \in S : ~(j < i)
  BY <1>1 DEF OpToRel
<1> QED
  BY <1>2

(* What InsertAt returns.                                                    *)
LEMMA InsertAtElements ==
  ASSUME NEW l \in Seq(Requests), NEW r \in Requests, NEW n \in 1..Len(l)
  PROVE  /\ InsertAt(l, n, r) \in Seq(Requests)
         /\ Len(InsertAt(l, n, r)) = Len(l) + 1
         /\ \A i \in 1..Len(l) + 1 :
              InsertAt(l, n, r)[i] =
                IF i < n THEN l[i] ELSE IF i = n THEN r ELSE l[i - 1]
<1> DEFINE front == SubSeq(l, 1, n - 1)
           back == SubSeq(l, n, Len(l))
           mid == front \o <<r>>
<1>1. /\ Len(l) \in Nat /\ n \in Int /\ 1 <= n /\ n <= Len(l)
      /\ \A i \in 1..Len(l) : l[i] \in Requests
  BY ListType
<1>2. /\ front \in Seq(Requests) /\ Len(front) = n - 1
      /\ \A i \in 1..n - 1 : front[i] = l[i]
  <2>1. \A i \in 1..n - 1 : l[i] \in Requests
    BY <1>1
  <2>2. n - 1 \in Int /\ 1 \in Int
    BY <1>1
  <2>3. /\ front \in Seq(Requests)
        /\ Len(front) = IF 1 <= n - 1 THEN n - 1 - 1 + 1 ELSE 0
        /\ \A i \in 1..n - 1 - 1 + 1 : front[i] = l[1 + i - 1]
    BY <2>1, <2>2, SubSeqProperties
  <2> QED
    BY <1>1, <2>3
<1>3. /\ back \in Seq(Requests) /\ Len(back) = Len(l) - n + 1
      /\ \A i \in 1..Len(l) - n + 1 : back[i] = l[n + i - 1]
  <2>1. \A i \in n..Len(l) : l[i] \in Requests
    BY <1>1
  <2>2. /\ back \in Seq(Requests)
        /\ Len(back) = IF n <= Len(l) THEN Len(l) - n + 1 ELSE 0
        /\ \A i \in 1..Len(l) - n + 1 : back[i] = l[n + i - 1]
    BY <1>1, <2>1, SubSeqProperties
  <2> QED
    BY <1>1, <2>2
<1>4. <<r>> \in Seq(Requests) /\ Len(<<r>>) = 1 /\ <<r>>[1] = r
  OBVIOUS
<1> HIDE DEF front, back
<1>5. /\ mid \in Seq(Requests) /\ Len(mid) = n
      /\ \A i \in 1..n : mid[i] = IF i < n THEN l[i] ELSE r
  <2>1. /\ mid \in Seq(Requests) /\ Len(mid) = Len(front) + Len(<<r>>)
        /\ \A i \in 1..Len(front) + Len(<<r>>) :
             mid[i] = IF i <= Len(front) THEN front[i] ELSE <<r>>[i - Len(front)]
    BY <1>2, <1>4, ConcatProperties
  <2> HIDE DEF mid
  <2>2. Len(mid) = n
    BY <1>1, <1>2, <1>4, <2>1
  <2>3. ASSUME NEW i \in 1..n PROVE mid[i] = IF i < n THEN l[i] ELSE r
    <3>1. CASE i < n
      BY <1>1, <1>2, <1>4, <2>1, <3>1
    <3>2. CASE i = n
      BY <1>1, <1>2, <1>4, <2>1, <3>2
    <3> QED
      BY <1>1, <3>1, <3>2
  <2> QED
    BY <2>1, <2>2, <2>3
<1> HIDE DEF mid
<1>6. InsertAt(l, n, r) = mid \o back
  BY DEF InsertAt, mid, front, back
<1>7. /\ mid \o back \in Seq(Requests)
      /\ Len(mid \o back) = Len(mid) + Len(back)
      /\ \A i \in 1..Len(mid) + Len(back) :
           (mid \o back)[i] = IF i <= Len(mid) THEN mid[i] ELSE back[i - Len(mid)]
  BY <1>3, <1>5, ConcatProperties
<1>8. Len(InsertAt(l, n, r)) = Len(l) + 1
  BY <1>1, <1>3, <1>5, <1>6, <1>7
<1>9. ASSUME NEW i \in 1..Len(l) + 1
      PROVE  InsertAt(l, n, r)[i] = IF i < n THEN l[i] ELSE IF i = n THEN r ELSE l[i - 1]
  <2>1. CASE i <= n
    BY <1>1, <1>3, <1>5, <1>6, <1>7, <2>1
  <2>2. CASE i > n
    <3>1. i - n \in 1..Len(l) - n + 1
      BY <1>1, <2>2
    <3>2. back[i - n] = l[n + (i - n) - 1]
      BY <1>3, <3>1
    <3>3. InsertAt(l, n, r)[i] = back[i - n]
      BY <1>1, <1>3, <1>5, <1>6, <1>7, <2>2
    <3> QED
      BY <1>1, <2>2, <3>2, <3>3
  <2> QED
    BY <1>1, <2>1, <2>2
<1> QED
  BY <1>6, <1>7, <1>8, <1>9

(* requestTimeout keeps the list in order, wherever it inserts.              *)
LEMMA InsertedSorted ==
  ASSUME NEW l \in Seq(Requests), SortedList(l), NEW r \in Requests
  PROVE  Inserted(l, r) \in Seq(Requests) /\ SortedList(Inserted(l, r))
<1>1. /\ Len(l) \in Nat /\ DOMAIN l = 1..Len(l)
      /\ \A i \in DOMAIN l : l[i] \in Requests /\ l[i].left \in Int
  BY ListType
<1>2. r.left \in Int
  BY DEF Requests, Lefts
<1>3. CASE l = <<>> \/ r.left < l[1].left
  <2>1. Inserted(l, r) = <<r>> \o l
    BY <1>3 DEF Inserted
  <2>2. <<r>> \in Seq(Requests) /\ Len(<<r>>) = 1 /\ <<r>>[1] = r
    OBVIOUS
  <2>3. /\ <<r>> \o l \in Seq(Requests) /\ Len(<<r>> \o l) = 1 + Len(l)
        /\ \A i \in 1..1 + Len(l) : (<<r>> \o l)[i] = IF i <= 1 THEN <<r>>[i] ELSE l[i - 1]
    BY <2>2, ConcatProperties
  <2> DEFINE k == <<r>> \o l
  <2>4. DOMAIN k = 1..1 + Len(l)
    BY <2>3, LenProperties
  <2> HIDE DEF k
  <2>5. ASSUME NEW i \in DOMAIN k, NEW j \in DOMAIN k, i <= j PROVE k[i].left <= k[j].left
    <3>1. CASE j = 1
      BY <1>2, <2>2, <2>3, <2>4, <2>5, <3>1 DEF k
    <3>2. CASE i = 1 /\ j # 1
      <4>1. j - 1 \in 1..Len(l) /\ 1 \in 1..Len(l) /\ 1 <= j - 1
        BY <1>1, <2>4, <3>2
      <4>2. l # <<>>
        BY <4>1
      <4>3. r.left < l[1].left /\ l[1].left <= l[j - 1].left
        BY <1>1, <1>3, <4>1, <4>2 DEF SortedList
      <4>4. k[1] = r /\ k[j] = l[j - 1]
        BY <1>1, <2>2, <2>3, <2>4, <3>2 DEF k
      <4> QED
        BY <1>1, <1>2, <3>2, <4>1, <4>3, <4>4
    <3>3. CASE i # 1
      <4>1. i - 1 \in DOMAIN l /\ j - 1 \in DOMAIN l /\ i - 1 <= j - 1
        BY <1>1, <2>4, <2>5, <3>3
      <4>2. k[i] = l[i - 1] /\ k[j] = l[j - 1]
        BY <1>1, <2>3, <2>4, <2>5, <3>3 DEF k
      <4> QED
        BY <4>1, <4>2 DEF SortedList
    <3> QED
      BY <3>1, <3>2, <3>3
  <2> QED
    BY <2>1, <2>3, <2>5 DEF SortedList, k
<1>4. CASE ~(l = <<>> \/ r.left < l[1].left) /\ l[Len(l)].left < r.left
  <2> DEFINE k == Append(l, r)
  <2>1. Inserted(l, r) = k
    BY <1>4 DEF Inserted
  <2>2. /\ k \in Seq(Requests) /\ Len(k) = Len(l) + 1
        /\ \A i \in 1..Len(l) : k[i] = l[i]
        /\ k[Len(l) + 1] = r
    BY AppendProperties
  <2>3. DOMAIN k = 1..Len(l) + 1
    BY <2>2, LenProperties
  <2> HIDE DEF k
  <2>4. Len(l) # 0
    BY <1>4, EmptySeq
  <2>5. \A i \in 1..Len(l) : l[i].left <= l[Len(l)].left
    BY <1>1, <2>4 DEF SortedList
  <2>6. ASSUME NEW i \in DOMAIN k, NEW j \in DOMAIN k, i <= j PROVE k[i].left <= k[j].left
    <3>1. CASE j # Len(l) + 1
      <4>1. i \in DOMAIN l /\ j \in DOMAIN l
        BY <1>1, <2>3, <2>6, <3>1
      <4> QED
        BY <1>1, <2>2, <2>6, <4>1 DEF SortedList
    <3>2. CASE j = Len(l) + 1 /\ i = j
      BY <1>2, <2>2, <3>2
    <3>3. CASE j = Len(l) + 1 /\ i # j
      <4>1. i \in 1..Len(l) /\ Len(l) \in 1..Len(l)
        BY <1>1, <2>3, <2>4, <2>6, <3>3
      <4> QED
        BY <1>1, <1>2, <1>4, <2>2, <2>5, <3>3, <4>1
    <3> QED
      BY <3>1, <3>2, <3>3
  <2> QED
    BY <2>1, <2>2, <2>6 DEF SortedList
<1>5. CASE ~(l = <<>> \/ r.left < l[1].left) /\ ~(l[Len(l)].left < r.left) /\ Later(l, r) = {}
  BY <1>5 DEF Inserted
<1>6. CASE ~(l = <<>> \/ r.left < l[1].left) /\ ~(l[Len(l)].left < r.left) /\ Later(l, r) # {}
  <2> DEFINE n == CHOOSE i \in Later(l, r) : \A j \in Later(l, r) : i <= j
             k == InsertAt(l, n, r)
  <2>1. Inserted(l, r) = k
    BY <1>6 DEF Inserted
  <2>2. n \in Later(l, r) /\ \A j \in Later(l, r) : n <= j
    <3>1. Later(l, r) \in SUBSET Nat
      BY <1>1 DEF Later
    <3> QED
      BY <1>6, <3>1, FirstExists
  <2> HIDE DEF n
  <2>3. /\ n \in 1..Len(l) /\ r.left < l[n].left
        /\ \A i \in 1..Len(l) : i < n => l[i].left <= r.left
    BY <1>1, <1>2, <2>2 DEF Later
  <2>4. /\ k \in Seq(Requests) /\ Len(k) = Len(l) + 1
        /\ \A i \in 1..Len(l) + 1 :
             k[i] = IF i < n THEN l[i] ELSE IF i = n THEN r ELSE l[i - 1]
    BY <2>3, InsertAtElements
  <2>5. DOMAIN k = 1..Len(l) + 1
    BY <2>4, LenProperties
  <2> HIDE DEF k
  <2>6. ASSUME NEW i \in DOMAIN k, NEW j \in DOMAIN k, i <= j PROVE k[i].left <= k[j].left
    <3> DEFINE Back(x) == IF x < n THEN x ELSE x - 1
    <3>1. CASE i # n /\ j # n
      <4>1. Back(i) \in DOMAIN l /\ Back(j) \in DOMAIN l /\ Back(i) <= Back(j)
        BY <1>1, <2>3, <2>5, <2>6, <3>1
      <4>2. k[i] = l[Back(i)] /\ k[j] = l[Back(j)]
        BY <1>1, <2>3, <2>4, <2>5, <3>1
      <4> HIDE DEF Back
      <4> QED
        BY <4>1, <4>2 DEF SortedList
    <3>2. CASE i = n /\ j = n
      BY <1>2, <2>3, <2>4, <2>5, <3>2
    <3>3. CASE i = n /\ j # n
      <4>1. j - 1 \in DOMAIN l /\ n \in DOMAIN l /\ n <= j - 1 /\ k[j] = l[j - 1] /\ k[i] = r
        BY <1>1, <2>3, <2>4, <2>5, <2>6, <3>3
      <4>2. l[n].left <= l[j - 1].left
        BY <4>1 DEF SortedList
      <4> QED
        BY <1>1, <1>2, <2>3, <4>1, <4>2
    <3>4. CASE i # n /\ j = n
      <4>1. i \in 1..Len(l) /\ i < n /\ k[i] = l[i] /\ k[j] = r
        BY <1>1, <2>3, <2>4, <2>5, <2>6, <3>4
      <4> QED
        BY <2>3, <4>1
    <3> QED
      BY <3>1, <3>2, <3>3, <3>4
  <2> QED
    BY <2>1, <2>4, <2>6 DEF SortedList
<1> QED
  BY <1>3, <1>4, <1>5, <1>6

(* cancelRequest leaves the others in their order.                           *)
LEMMA AscendingSorted ==
  ASSUME NEW l \in Seq(Requests), SortedList(l), NEW s,
         NEW f \in Ascending(Others(l, s))
  PROVE  /\ [i \in DOMAIN f |-> l[f[i]]] \in Seq(Requests)
         /\ SortedList([i \in DOMAIN f |-> l[f[i]]])
         /\ \A i \in DOMAIN f : l # <<>> /\ l[1].left <= l[f[i]].left
<1> DEFINE S == Others(l, s)
           n == Cardinality(S)
           k == [i \in DOMAIN f |-> l[f[i]]]
<1>1. /\ Len(l) \in Nat /\ DOMAIN l = 1..Len(l)
      /\ \A i \in DOMAIN l : l[i] \in Requests /\ l[i].left \in Int
  BY ListType
<1>2. n \in Nat
  <2>1. IsFiniteSet(1..Len(l))
    BY <1>1, FS_Interval
  <2>2. S \in SUBSET (1..Len(l))
    BY <1>1 DEF Others
  <2>3. IsFiniteSet(S)
    BY <2>1, <2>2, FS_Subset
  <2> QED
    BY <2>3, FS_CardinalityType
<1>3. /\ f \in [1..n -> S] /\ DOMAIN f = 1..n
      /\ \A i, j \in 1..n : i < j => f[i] < f[j]
  BY DEF Ascending
<1>4. S \subseteq DOMAIN l
  BY DEF Others
<1> HIDE DEF S, n
<1>5. k \in [1..n -> Requests]
  BY <1>1, <1>3, <1>4
<1>6. k \in Seq(Requests)
  BY <1>2, <1>5, SeqDef
<1>7. ASSUME NEW i \in DOMAIN k, NEW j \in DOMAIN k, i <= j PROVE k[i].left <= k[j].left
  <2>1. i \in 1..n /\ j \in 1..n /\ f[i] \in DOMAIN l /\ f[j] \in DOMAIN l
    BY <1>3, <1>4
  <2>2. f[i] <= f[j]
    BY <1>1, <1>2, <1>3, <1>7, <2>1
  <2>3. k[i] = l[f[i]] /\ k[j] = l[f[j]]
    BY <1>3, <2>1
  <2> QED
    BY <2>1, <2>2, <2>3 DEF SortedList
<1>8. ASSUME NEW i \in DOMAIN f PROVE l # <<>> /\ l[1].left <= l[f[i]].left
  <2>1. f[i] \in 1..Len(l)
    BY <1>1, <1>3, <1>4
  <2>2. l # <<>> /\ 1 \in DOMAIN l /\ 1 <= f[i]
    BY <1>1, <2>1
  <2> QED
    BY <1>1, <2>1, <2>2 DEF SortedList
<1> QED
  BY <1>6, <1>7, <1>8 DEF SortedList

(* Time passes for all of them alike.                                        *)
LEMMA TickSorted ==
  ASSUME NEW l \in Seq(Requests), SortedList(l)
  PROVE  /\ [i \in DOMAIN l |-> [l[i] EXCEPT !.left = Earlier(@)]] \in Seq(Requests)
         /\ SortedList([i \in DOMAIN l |-> [l[i] EXCEPT !.left = Earlier(@)]])
<1> DEFINE k == [i \in DOMAIN l |-> [l[i] EXCEPT !.left = Earlier(@)]]
<1>1. /\ Len(l) \in Nat /\ DOMAIN l = 1..Len(l)
      /\ \A i \in DOMAIN l : l[i] \in Requests /\ l[i].left \in Int
  BY ListType
<1>2. \A i \in DOMAIN l : k[i] \in Requests /\ k[i].left = Earlier(l[i].left)
  BY <1>1 DEF Requests, Lefts, Earlier
<1>3. k \in Seq(Requests)
  <2>1. k = [i \in 1..Len(l) |-> k[i]]
    BY <1>1
  <2> HIDE DEF k
  <2>2. k \in [1..Len(l) -> Requests]
    BY <1>1, <1>2, <2>1
  <2> QED
    BY <1>1, <2>2, SeqDef
<1>4. \A a, b \in Lefts : a <= b => Earlier(a) <= Earlier(b)
  BY DEF Lefts, Earlier
<1>5. SortedList(k)
  <2>1. \A i \in DOMAIN l : l[i].left \in Lefts
    BY <1>1 DEF Requests
  <2>2. DOMAIN k = DOMAIN l
    OBVIOUS
  <2> HIDE DEF k
  <2> QED
    BY <1>2, <1>4, <2>1, <2>2 DEF SortedList
<1> QED
  BY <1>3, <1>5

LEMMA TailSorted ==
  ASSUME NEW l \in Seq(Requests), l # <<>>, SortedList(l)
  PROVE  Tail(l) \in Seq(Requests) /\ SortedList(Tail(l))
<1>1. /\ Tail(l) \in Seq(Requests) /\ Len(Tail(l)) = Len(l) - 1
      /\ \A i \in 1..Len(Tail(l)) : Tail(l)[i] = l[i + 1]
  BY HeadTailProperties
<1>2. Len(l) \in Nat /\ DOMAIN l = 1..Len(l) /\ DOMAIN Tail(l) = 1..Len(l) - 1
  BY <1>1, LenProperties
<1>3. ASSUME NEW i \in DOMAIN Tail(l), NEW j \in DOMAIN Tail(l), i <= j
      PROVE  Tail(l)[i].left <= Tail(l)[j].left
  <2>1. i + 1 \in DOMAIN l /\ j + 1 \in DOMAIN l /\ i + 1 <= j + 1
    BY <1>2, <1>3
  <2>2. Tail(l)[i] = l[i + 1] /\ Tail(l)[j] = l[j + 1]
    BY <1>1, <1>2
  <2> QED
    BY <2>1, <2>2 DEF SortedList
<1> QED
  BY <1>1, <1>3 DEF SortedList

-----------------------------------------------------------------------------
(* The invariant: a call is made, and a request handed on, for a stream.      *)

Asked == \A t \in Threads : call[t].op # "none" => call[t].sub \in Streams
Handed == worker.pc = "callback" => worker.sub \in Streams

Inv == TypeOK /\ Asked /\ Handed /\ Sorted /\ NotOverslept

LEMMA SortedIsSorted == Sorted <=> SortedList(requests)
  BY DEF Sorted, SortedList

LEMMA Initially == Init => Inv
<1> SUFFICES ASSUME Init PROVE Inv
  OBVIOUS
<1>1. requests = <<>> /\ <<>> \in Seq(Requests) /\ DOMAIN requests = {}
  BY EmptySeq DEF Init
<1>2. NoCall \in [op : {"none", "request", "cancel"}, sub : Streams \cup {Nobody}, left : Lefts]
  BY DEF NoCall, Lefts
<1>3. TypeOK
  BY <1>1, <1>2 DEF TypeOK, Init, Lefts
<1>4. Sorted
  BY <1>1 DEF Sorted
<1> QED
  BY <1>3, <1>4 DEF Inv, Init, Asked, Handed, NoCall, NotOverslept

(* The steps that leave the list alone.                                      *)
LEMMA StreamSteps ==
  ASSUME Inv,
         \/ \E s \in Streams : Enter(s) \/ Leave(s)
         \/ \E t \in Threads : Calls(t) \/ Lock(t)
         \/ StopThread
  PROVE  Inv'
<1> USE DEF Inv, TypeOK, Asked, Handed, Sorted, NotOverslept
<1>1. ASSUME NEW s \in Streams, Enter(s) PROVE Inv'
  BY <1>1 DEF Enter, Threads
<1>2. ASSUME NEW s \in Streams, Leave(s) PROVE Inv'
  BY <1>2 DEF Leave
<1>3. ASSUME NEW t \in Threads, NEW s \in Streams, NEW d \in Delays, CallRequest(t, s, d)
      PROVE  Inv'
  <2>1. d \in Lefts
    BY DelaysAssumption DEF Lefts
  <2> QED
    BY <1>3, <2>1 DEF CallRequest
<1>4. ASSUME NEW t \in Threads, NEW s \in Streams, CallCancel(t, s) PROVE Inv'
  BY <1>4 DEF CallCancel, Lefts
<1>5. ASSUME NEW t \in Threads, Lock(t) PROVE Inv'
  BY <1>5 DEF Lock
<1>6. CASE StopThread
  BY <1>6 DEF StopThread, Set
<1> QED
  BY <1>1, <1>2, <1>3, <1>4, <1>5, <1>6 DEF Calls

LEMMA ReturnType ==
  ASSUME Inv, NEW t \in Threads, Return(t)
  PROVE  /\ synchLock' \in Threads \cup {Nobody}
         /\ stream' \in [Streams -> Threads \cup {Nobody}]
         /\ call' \in [Threads -> [op : {"none", "request", "cancel"},
                                   sub : Streams \cup {Nobody}, left : Lefts]]
         /\ stop' \in BOOLEAN
         /\ Asked'
<1>1. NoCall \in [op : {"none", "request", "cancel"}, sub : Streams \cup {Nobody}, left : Lefts]
  BY DEF NoCall, Lefts
<1> QED
  BY <1>1 DEF Inv, TypeOK, Return, Asked, NoCall

LEMMA RequestStep == ASSUME Inv, NEW t \in Threads, RequestTimeout(t) PROVE Inv'
<1> DEFINE r == [sub |-> call[t].sub, left |-> call[t].left]
<1>1. r \in Requests
  BY DEF Inv, TypeOK, Asked, RequestTimeout, Requests
<1> HIDE DEF r
<1>2. requests' = Inserted(requests, r) /\ Set /\ Return(t)
  BY DEF RequestTimeout, r
<1>3. requests' \in Seq(Requests) /\ SortedList(requests')
  BY <1>1, <1>2, InsertedSorted, SortedIsSorted DEF Inv, TypeOK
<1>4. TypeOK' /\ Asked'
  <2>1. /\ worker' \in [pc : {"loop", "locked", "callback", "handling", "measured",
                            "waiting", "woken", "stopped"},
                      sub : Streams \cup {Nobody}, left : Lefts]
        /\ plan' \in [until : Lefts, missed : BOOLEAN]
    BY <1>2 DEF Inv, TypeOK, Set
  <2> QED
    BY <1>2, <1>3, <2>1, ReturnType DEF TypeOK
<1>5. NotOverslept' /\ Handed'
  BY <1>2 DEF Inv, TypeOK, Set, NotOverslept, Handed
<1> QED
  BY <1>3, <1>4, <1>5 DEF Inv, Sorted, SortedList

LEMMA CancelStep == ASSUME Inv, NEW t \in Threads, CancelRequest(t) PROVE Inv'
<1>1. PICK f \in Ascending(Others(requests, call[t].sub)) :
        requests' = [i \in DOMAIN f |-> requests[f[i]]]
  BY DEF CancelRequest
<1>2. /\ requests' \in Seq(Requests) /\ SortedList(requests')
      /\ \A i \in DOMAIN f : requests # <<>> /\ requests[1].left <= requests[f[i]].left
  BY <1>1, AscendingSorted, SortedIsSorted DEF Inv, TypeOK
<1>3. Return(t) /\ worker' = worker /\ plan' = plan
  BY DEF CancelRequest
<1>4. TypeOK' /\ Asked' /\ Handed'
  BY <1>2, <1>3, ReturnType DEF Inv, TypeOK, Handed
<1>5. NotOverslept'
  <2> SUFFICES ASSUME worker.pc \in {"measured", "waiting"}, ~plan.missed, requests' # <<>>
               PROVE  plan.until <= requests'[1].left
    BY <1>3 DEF NotOverslept
  <2>1. Len(requests') \in Nat \ {0} /\ DOMAIN requests' = 1..Len(requests')
    BY <1>2, EmptySeq, LenProperties
  <2>2. 1 \in DOMAIN f /\ requests'[1] = requests[f[1]]
    BY <1>1, <2>1
  <2>3. requests # <<>> /\ requests[1].left <= requests'[1].left
    BY <1>2, <2>2
  <2>4. plan.until <= requests[1].left
    BY <2>3 DEF Inv, NotOverslept
  <2>5. Len(requests) \in Nat \ {0}
    BY <2>3, EmptySeq DEF Inv, TypeOK
  <2>6. requests[1] \in Requests /\ requests'[1] \in Requests
    BY <1>2, <2>1, <2>5, ElementOfSeq DEF Inv, TypeOK
  <2> QED
    BY <2>3, <2>4, <2>6 DEF Inv, TypeOK, Requests, Lefts
<1> QED
  BY <1>2, <1>4, <1>5 DEF Inv, Sorted, SortedList

(* The worker.                                                               *)
LEMMA WorkerSteps == ASSUME Inv, WorkerStep \/ WaitEnds PROVE Inv'
<1> DEFINE Places == [pc : {"loop", "locked", "callback", "handling", "measured",
                            "waiting", "woken", "stopped"},
                      sub : Streams \cup {Nobody}, left : Lefts]
<1>1. worker \in Places /\ 0 \in Lefts
  BY DEF Inv, TypeOK, Lefts
<1>2. CASE Pop
  <2>1. requests # <<>> /\ requests[1].left <= 0 /\ requests' = Tail(requests)
    BY <1>2 DEF Pop
  <2>2. requests' \in Seq(Requests) /\ SortedList(requests')
    BY <2>1, TailSorted, SortedIsSorted DEF Inv, TypeOK
  <2>3. requests[1] \in Requests
    <3>1. Len(requests) \in Nat \ {0}
      BY <2>1, EmptySeq DEF Inv, TypeOK
    <3> QED
      BY <3>1, ElementOfSeq DEF Inv, TypeOK
  <2>4. worker' \in Places
    BY <1>1, <1>2, <2>3 DEF Pop, Requests
  <2>5. NotOverslept'
    BY <1>2, <2>1 DEF Pop, NotOverslept
  <2>6. Asked' /\ TypeOK' /\ Handed'
    BY <1>2, <2>2, <2>3, <2>4 DEF Pop, Inv, TypeOK, Asked, Handed, Requests
  <2> QED
    BY <2>2, <2>5, <2>6 DEF Inv, Sorted, SortedList
<1>3. CASE Measure
  <2> DEFINE time == IF requests = <<>> THEN IdleWait ELSE requests[1].left
  <2>1. time \in Lefts /\ (requests # <<>> => time <= requests[1].left)
    <3>1. CASE requests = <<>>
      BY <3>1, WaitAssumption DEF Lefts
    <3>2. CASE requests # <<>>
      <4>1. Len(requests) \in Nat \ {0}
        BY <3>2, EmptySeq DEF Inv, TypeOK
      <4>2. requests[1] \in Requests
        BY <4>1, ElementOfSeq DEF Inv, TypeOK
      <4> QED
        BY <3>2, <4>2 DEF Requests, Lefts
    <3> QED
      BY <3>1, <3>2
  <2> HIDE DEF time
  <2>2. /\ worker' = [pc |-> IF stop THEN "stopped" ELSE "measured", sub |-> Nobody, left |-> time]
        /\ plan' = [until |-> time, missed |-> FALSE] /\ requests' = requests
    BY <1>3 DEF Measure, time
  <2>3. NotOverslept' /\ worker' \in Places /\ plan' \in [until : Lefts, missed : BOOLEAN]
    BY <2>1, <2>2 DEF NotOverslept
  <2> QED
    BY <1>3, <2>2, <2>3 DEF Measure, Inv, TypeOK, Asked, Handed, Sorted
<1>4. CASE WorkerLock \/ Wait \/ TimedOut \/ WaitEnds \/ Woken \/ Callback \/ CallbackReturns
  <2>1. UNCHANGED <<requests, call, stop, plan>>
    BY <1>4 DEF WorkerLock, Wait, TimedOut, WaitEnds, Woken, Callback, CallbackReturns
  <2>2. worker' \in Places /\ NotOverslept' /\ Handed'
    BY <1>1, <1>4
    DEF WorkerLock, Wait, TimedOut, WaitEnds, Woken, Callback, CallbackReturns, Inv, NotOverslept,
        Handed
  <2>3. /\ synchLock' \in Threads \cup {Nobody}
        /\ stream' \in [Streams -> Threads \cup {Nobody}]
    BY <1>4
    DEF WorkerLock, Wait, TimedOut, WaitEnds, Woken, Callback, CallbackReturns, Inv, TypeOK,
        Threads
  <2> QED
    BY <2>1, <2>2, <2>3 DEF Inv, TypeOK, Asked, Sorted
<1> QED
  BY <1>2, <1>3, <1>4 DEF WorkerStep

LEMMA TickStep == ASSUME Inv, Tick PROVE Inv'
<1>1. requests' \in Seq(Requests) /\ SortedList(requests')
  BY TickSorted, SortedIsSorted DEF Inv, TypeOK, Tick
<1>2. /\ call' \in [Threads -> [op : {"none", "request", "cancel"},
                               sub : Streams \cup {Nobody}, left : Lefts]]
      /\ Asked'
  <2>1. ASSUME NEW t \in Threads
        PROVE  /\ call'[t] \in [op : {"none", "request", "cancel"},
                                sub : Streams \cup {Nobody}, left : Lefts]
               /\ call'[t].op = call[t].op /\ call'[t].sub = call[t].sub
    <3>1. CASE call[t].op = "request"
      <4>1. call[t].left \in Nat /\ call[t].left > 0
        BY <3>1 DEF Inv, TypeOK, Tick, Lefts
      <4>2. call'[t] = [call[t] EXCEPT !.left = call[t].left - 1]
        BY <3>1 DEF Tick
      <4>3. call[t].left - 1 \in Lefts
        BY <4>1 DEF Lefts
      <4> QED
        BY <4>2, <4>3 DEF Inv, TypeOK
    <3>2. CASE call[t].op # "request"
      BY <3>2 DEF Inv, TypeOK, Tick
    <3> QED
      BY <3>1, <3>2
  <2>2. call' = [t \in Threads |-> call'[t]]
    BY DEF Tick
  <2> QED
    BY <2>1, <2>2 DEF Inv, Asked
<1>3. worker' \in [pc : {"loop", "locked", "callback", "handling", "measured",
                        "waiting", "woken", "stopped"},
                  sub : Streams \cup {Nobody}, left : Lefts]
  <2>1. worker.left > 0 => worker.left - 1 \in Lefts
    BY DEF Inv, TypeOK, Lefts
  <2>2. worker' = [worker EXCEPT !.left = IF worker.pc = "waiting" /\ worker.left > 0
                                          THEN worker.left - 1 ELSE worker.left]
    BY DEF Tick
  <2> QED
    BY <2>1, <2>2 DEF Inv, TypeOK
<1>4. /\ plan' = [plan EXCEPT !.until = Earlier(plan.until)]
      /\ plan' \in [until : Lefts, missed : BOOLEAN]
  BY DEF Tick, Inv, TypeOK, Earlier, Lefts
<1>5. TypeOK'
  BY <1>1, <1>2, <1>3, <1>4 DEF Inv, TypeOK, Tick
<1>6. Handed'
  BY <1>3 DEF Inv, TypeOK, Handed, Tick
<1>7. NotOverslept'
  <2> SUFFICES ASSUME worker'.pc \in {"measured", "waiting"}, ~plan'.missed, requests' # <<>>
               PROVE  plan'.until <= requests'[1].left
    BY DEF NotOverslept
  <2>1. worker'.pc = worker.pc /\ plan'.missed = plan.missed /\ plan'.until = Earlier(plan.until)
    BY <1>4 DEF Tick, Inv, TypeOK
  <2>2. Len(requests') \in Nat \ {0} /\ DOMAIN requests' = 1..Len(requests')
    BY <1>1, EmptySeq, LenProperties
  <2>3. 1 \in DOMAIN requests /\ requests'[1] = [requests[1] EXCEPT !.left = Earlier(@)]
    BY <2>2 DEF Tick
  <2>4. requests # <<>> /\ requests[1] \in Requests
    BY <2>3, ListType DEF Inv, TypeOK
  <2>5. plan.until <= requests[1].left /\ plan.until \in Lefts /\ requests[1].left \in Lefts
    BY <2>1, <2>4 DEF Inv, TypeOK, NotOverslept, Requests
  <2>6. requests'[1].left = Earlier(requests[1].left)
    BY <2>3, <2>4 DEF Requests
  <2> QED
    BY <2>1, <2>5, <2>6 DEF Earlier, Lefts
<1> QED
  BY <1>1, <1>2, <1>5, <1>6, <1>7 DEF Inv, Sorted, SortedList

LEMMA Invariant == Spec => []Inv
<1>1. Inv /\ [Next]_vars => Inv'
  <2> SUFFICES ASSUME Inv, [Next]_vars PROVE Inv'
    OBVIOUS
  <2>1. CASE UNCHANGED vars
    BY <2>1 DEF vars, Inv, TypeOK, Asked, Handed, Sorted, NotOverslept
  <2> QED
    BY <2>1, StreamSteps, RequestStep, CancelStep, WorkerSteps, TickStep DEF Next
<1> QED
  BY Initially, <1>1, PTL DEF Spec

-----------------------------------------------------------------------------
(* The variables stay in their types.                                        *)
THEOREM ProviderTypeCorrect == Spec => []TypeOK
<1>1. Inv => TypeOK
  BY DEF Inv
<1> QED
  BY Invariant, <1>1, PTL

(* Requests are in the order in which they expire, whatever the streams ask   *)
(* for and cancel (requestTimeout, cancelRequest).                            *)
THEOREM SortedCorrect == Spec => []Sorted
<1>1. Inv => Sorted
  BY DEF Inv
<1> QED
  BY Invariant, <1>1, PTL

(* The worker plans to sleep no longer than the front of the list allows,     *)
(* except for the signal it cannot see (OnTask, CEventClass::Set).             *)
THEOREM NotOversleptCorrect == Spec => []NotOverslept
<1>1. Inv => NotOverslept
  BY DEF Inv
<1> QED
  BY Invariant, <1>1, PTL

-----------------------------------------------------------------------------
(* Each stream's own requests.                                               *)

Count(l, s) == Cardinality(Of(l, s))

LEMMA OfType ==
  ASSUME NEW l \in Seq(Requests), NEW s
  PROVE  /\ IsFiniteSet(Of(l, s)) /\ Of(l, s) \subseteq 1..Len(l)
         /\ Count(l, s) \in Nat
<1>1. Len(l) \in Nat /\ DOMAIN l = 1..Len(l)
  BY ListType
<1>2. Of(l, s) \in SUBSET (1..Len(l)) /\ IsFiniteSet(1..Len(l))
  BY <1>1, FS_Interval DEF Of
<1> QED
  BY <1>2, FS_Subset, FS_CardinalityType DEF Count

LEMMA SameCount ==
  ASSUME NEW S, NEW T, IsFiniteSet(S), NEW b \in Bijection(S, T)
  PROVE  Cardinality(T) = Cardinality(S)
BY FS_Bijection DEF ExistsBijection

(* k is l with r at position n.                                              *)
Longer(k, l, r, n) ==
  /\ k \in Seq(Requests) /\ Len(k) = Len(l) + 1 /\ n \in 1..Len(l) + 1
  /\ \A i \in 1..Len(l) + 1 : k[i] = IF i < n THEN l[i] ELSE IF i = n THEN r ELSE l[i - 1]

(* One more in the list, wherever it stands, is one more of its stream's.    *)
LEMMA OneMore ==
  ASSUME NEW l \in Seq(Requests), NEW k, NEW r, NEW n, Longer(k, l, r, n), NEW s
  PROVE  Count(k, s) = Count(l, s) + (IF r.sub = s THEN 1 ELSE 0)
<1> DEFINE S == Of(l, s)
           T == Of(k, s) \ {n}
           b == [i \in S |-> IF i < n THEN i ELSE i + 1]
<1>0. /\ k \in Seq(Requests) /\ Len(k) = Len(l) + 1 /\ n \in 1..Len(l) + 1
      /\ \A i \in 1..Len(l) + 1 : k[i] = IF i < n THEN l[i] ELSE IF i = n THEN r ELSE l[i - 1]
  BY DEF Longer
<1>1. /\ Len(l) \in Nat /\ DOMAIN l = 1..Len(l) /\ DOMAIN k = 1..Len(l) + 1 /\ n \in Int
      /\ 1 <= n /\ n <= Len(l) + 1
  BY <1>0, LenProperties
<1>2. IsFiniteSet(S) /\ S \subseteq 1..Len(l) /\ IsFiniteSet(Of(k, s))
      /\ Count(l, s) \in Nat /\ Count(k, s) \in Nat
  BY <1>0, OfType
<1>3. b \in Bijection(S, T)
  <2>1. ASSUME NEW i \in S PROVE b[i] \in T
    <3>1. i \in 1..Len(l) /\ l[i].sub = s
      BY <1>1 DEF Of
    <3>2. b[i] \in 1..Len(l) + 1 /\ b[i] # n
      BY <1>1, <3>1
    <3>3. k[b[i]] = l[i]
      BY <1>0, <1>1, <3>1, <3>2
    <3> QED
      BY <1>1, <3>1, <3>2, <3>3 DEF Of
  <2>2. ASSUME NEW i \in S, NEW j \in S, b[i] = b[j] PROVE i = j
    <3>1. i \in Int /\ j \in Int
      BY <1>1, <1>2
    <3> QED
      BY <1>1, <2>2, <3>1
  <2>3. ASSUME NEW j \in T PROVE \E i \in S : b[i] = j
    <3>1. j \in 1..Len(l) + 1 /\ j # n /\ k[j].sub = s
      BY <1>1 DEF Of
    <3> DEFINE i == IF j < n THEN j ELSE j - 1
    <3>2. i \in 1..Len(l) /\ l[i] = k[j]
      BY <1>0, <1>1, <3>1
    <3>3. i \in S
      BY <1>1, <3>1, <3>2 DEF Of
    <3>4. b[i] = j
      BY <1>1, <3>1, <3>3
    <3> QED
      BY <3>3, <3>4
  <2> HIDE DEF S, T
  <2>4. b \in [S -> T]
    BY <2>1
  <2> QED
    BY <2>1, <2>2, <2>3, <2>4, Zenon DEF Bijection, Injection, Surjection, IsInjective
<1>4. Cardinality(T) = Cardinality(S)
  BY <1>2, <1>3, SameCount
<1>5. k[n] = r /\ n \in DOMAIN k
  BY <1>0, <1>1
<1>6. n \in Of(k, s) <=> r.sub = s
  BY <1>5 DEF Of
<1>7. Cardinality(T) = IF r.sub = s THEN Count(k, s) - 1 ELSE Count(k, s)
  BY <1>2, <1>6, FS_RemoveElement DEF Count
<1> HIDE DEF S, T
<1> QED
  BY <1>2, <1>4, <1>7 DEF Count, S

(* requestTimeout adds one request of its stream, or drops it.               *)
LEMMA InsertedCount ==
  ASSUME NEW l \in Seq(Requests), NEW r \in Requests
  PROVE  \/ Inserted(l, r) = l
         \/ \A s : Count(Inserted(l, r), s) = Count(l, s) + (IF r.sub = s THEN 1 ELSE 0)
<1>1. Len(l) \in Nat /\ DOMAIN l = 1..Len(l) /\ \A i \in DOMAIN l : l[i].left \in Int
  BY ListType
<1>2. CASE l = <<>> \/ r.left < l[1].left
  <2> DEFINE k == <<r>> \o l
  <2>1. Inserted(l, r) = k
    BY <1>2 DEF Inserted
  <2>2. <<r>> \in Seq(Requests) /\ Len(<<r>>) = 1 /\ <<r>>[1] = r
    OBVIOUS
  <2>3. /\ k \in Seq(Requests) /\ Len(k) = 1 + Len(l)
        /\ \A i \in 1..1 + Len(l) : k[i] = IF i <= 1 THEN <<r>>[i] ELSE l[i - 1]
    BY <2>2, ConcatProperties
  <2> HIDE DEF k
  <2>4. 1 \in 1..Len(l) + 1 /\ Len(k) = Len(l) + 1
    BY <1>1, <2>3
  <2>5. \A i \in 1..Len(l) + 1 : k[i] = IF i < 1 THEN l[i] ELSE IF i = 1 THEN r ELSE l[i - 1]
    BY <1>1, <2>2, <2>3
  <2>6. Longer(k, l, r, 1)
    BY <2>3, <2>4, <2>5 DEF Longer
  <2> QED
    BY <2>1, <2>6, OneMore
<1>3. CASE ~(l = <<>> \/ r.left < l[1].left) /\ l[Len(l)].left < r.left
  <2> DEFINE k == Append(l, r)
  <2>1. Inserted(l, r) = k
    BY <1>3 DEF Inserted
  <2>2. /\ k \in Seq(Requests) /\ Len(k) = Len(l) + 1
        /\ \A i \in 1..Len(l) : k[i] = l[i]
        /\ k[Len(l) + 1] = r
    BY AppendProperties
  <2> HIDE DEF k
  <2> DEFINE n == Len(l) + 1
  <2>3. n \in 1..Len(l) + 1
    BY <1>1
  <2>4. \A i \in 1..Len(l) + 1 : k[i] = IF i < n THEN l[i] ELSE IF i = n THEN r ELSE l[i - 1]
    BY <1>1, <2>2
  <2> HIDE DEF n
  <2>5. Longer(k, l, r, n)
    BY <2>2, <2>3, <2>4 DEF Longer
  <2> QED
    BY <2>1, <2>5, OneMore
<1>4. CASE ~(l = <<>> \/ r.left < l[1].left) /\ ~(l[Len(l)].left < r.left) /\ Later(l, r) = {}
  BY <1>4 DEF Inserted
<1>5. CASE ~(l = <<>> \/ r.left < l[1].left) /\ ~(l[Len(l)].left < r.left) /\ Later(l, r) # {}
  <2> DEFINE n == CHOOSE i \in Later(l, r) : \A j \in Later(l, r) : i <= j
             k == InsertAt(l, n, r)
  <2>1. Inserted(l, r) = k
    BY <1>5 DEF Inserted
  <2>2. n \in Later(l, r)
    <3>1. Later(l, r) \in SUBSET Nat
      BY <1>1 DEF Later
    <3> QED
      BY <1>5, <3>1, FirstExists
  <2> HIDE DEF n
  <2>3. n \in 1..Len(l)
    BY <1>1, <2>2 DEF Later
  <2>4. /\ k \in Seq(Requests) /\ Len(k) = Len(l) + 1
        /\ \A i \in 1..Len(l) + 1 :
             k[i] = IF i < n THEN l[i] ELSE IF i = n THEN r ELSE l[i - 1]
    BY <2>3, InsertAtElements
  <2> HIDE DEF k
  <2>5. n \in 1..Len(l) + 1
    BY <1>1, <2>3
  <2>6. Longer(k, l, r, n)
    BY <2>4, <2>5 DEF Longer
  <2> QED
    BY <2>1, <2>6, OneMore
<1> QED
  BY <1>2, <1>3, <1>4, <1>5

LEMMA TailCount ==
  ASSUME NEW l \in Seq(Requests), l # <<>>, NEW s
  PROVE  /\ Count(l, s) = Count(Tail(l), s) + (IF l[1].sub = s THEN 1 ELSE 0)
         /\ Count(Tail(l), s) \in Nat
<1>1. /\ Tail(l) \in Seq(Requests) /\ Len(Tail(l)) = Len(l) - 1
      /\ \A i \in 1..Len(Tail(l)) : Tail(l)[i] = l[i + 1]
  BY HeadTailProperties
<1>2. Len(l) \in Nat \ {0}
  BY EmptySeq, LenProperties
<1> DEFINE k == Tail(l)
<1> HIDE DEF k
<1>3. k \in Seq(Requests) /\ Len(l) = Len(k) + 1 /\ 1 \in 1..Len(k) + 1
  BY <1>1, <1>2 DEF k
<1>4. \A i \in 1..Len(k) + 1 : l[i] = IF i < 1 THEN k[i] ELSE IF i = 1 THEN l[1] ELSE k[i - 1]
  <2> TAKE i \in 1..Len(k) + 1
  <2>1. CASE i = 1
    BY <2>1
  <2>2. CASE i # 1
    <3>1. i - 1 \in 1..Len(k) /\ i \in Int /\ i > 1
      BY <1>1, <1>2, <2>2 DEF k
    <3>2. k[i - 1] = l[(i - 1) + 1] /\ (i - 1) + 1 = i
      BY <1>1, <3>1 DEF k
    <3> QED
      BY <3>1, <3>2
  <2> QED
    BY <2>1, <2>2
<1>5. Longer(l, k, l[1], 1)
  BY <1>3, <1>4 DEF Longer
<1>6. Count(l, s) = Count(k, s) + (IF l[1].sub = s THEN 1 ELSE 0)
  BY <1>3, <1>5, OneMore
<1> QED
  BY <1>3, <1>6, OfType DEF k

(* cancelRequest leaves none of its stream and all of the others.            *)
LEMMA CancelCount ==
  ASSUME NEW l \in Seq(Requests), NEW s, NEW f \in Ascending(Others(l, s)), NEW q
  PROVE  Count([i \in DOMAIN f |-> l[f[i]]], q) = IF q = s THEN 0 ELSE Count(l, q)
<1> DEFINE S == Others(l, s)
           n == Cardinality(S)
           k == [i \in DOMAIN f |-> l[f[i]]]
<1>1. Len(l) \in Nat /\ DOMAIN l = 1..Len(l)
  BY ListType
<1>2. IsFiniteSet(S) /\ n \in Nat
  <2>1. S \in SUBSET (1..Len(l)) /\ IsFiniteSet(1..Len(l))
    BY <1>1, FS_Interval DEF Others
  <2> QED
    BY <2>1, FS_Subset, FS_CardinalityType
<1>3. /\ f \in [1..n -> S] /\ DOMAIN f = 1..n /\ DOMAIN k = 1..n
      /\ \A i, j \in 1..n : i < j => f[i] < f[j]
  BY DEF Ascending
<1>4. \A i \in 1..n : k[i] = l[f[i]] /\ f[i] \in Int /\ f[i] \in DOMAIN l /\ l[f[i]].sub # s
  BY <1>1, <1>3 DEF Others
<1>5. S = {i \in DOMAIN l : l[i].sub # s}
  BY DEF Others
<1> HIDE DEF S, n, k
<1>6. \A i, j \in 1..n : f[i] = f[j] => i = j
  BY <1>2, <1>3, <1>4
<1>7. \A x \in S : \E i \in 1..n : f[i] = x
  <2>1. IsFiniteSet(1..n) /\ Cardinality(1..n) = n
    BY <1>2, FS_Interval
  <2>2. f \in Injection(1..n, S)
    BY <1>3, <1>6, Zenon DEF Injection, IsInjective
  <2>3. f \in Surjection(1..n, S)
    BY <1>2, <2>1, <2>2, FS_Injection DEF n
  <2> QED
    BY <2>3 DEF Surjection
<1>8. CASE q = s
  <2>1. Of(k, q) = {}
    BY <1>3, <1>4, <1>8 DEF Of
  <2> QED
    BY <1>8, <2>1, FS_EmptySet DEF Count, k
<1>9. CASE q # s
  <2> DEFINE A == Of(k, q)
             B == Of(l, q)
             b == [i \in A |-> f[i]]
  <2>1. \A i : i \in A <=> i \in 1..n /\ l[f[i]].sub = q
    BY <1>3, <1>4 DEF Of
  <2>2. \A i : i \in B <=> i \in S /\ l[i].sub = q
    BY <1>5, <1>9 DEF Of
  <2>3. IsFiniteSet(A)
    <3>1. A \in SUBSET (1..n) /\ IsFiniteSet(1..n)
      BY <1>2, <2>1, FS_Interval
    <3> QED
      BY <3>1, FS_Subset
  <2> HIDE DEF A, B
  <2>4. b \in [A -> B]
    BY <1>3, <2>1, <2>2
  <2>5. \A i, j \in A : b[i] = b[j] => i = j
    BY <1>6, <2>1
  <2>6. \A x \in B : \E i \in A : b[i] = x
    <3> TAKE x \in B
    <3>1. PICK i \in 1..n : f[i] = x
      BY <1>7, <2>2
    <3>2. i \in A
      BY <2>1, <2>2, <3>1
    <3> QED
      BY <3>1, <3>2
  <2>7. b \in Bijection(A, B)
    BY <2>4, <2>5, <2>6, Zenon DEF Bijection, Injection, Surjection, IsInjective
  <2>8. Cardinality(B) = Cardinality(A)
    BY <2>3, <2>7, SameCount
  <2> QED
    BY <1>9, <2>8 DEF Count, A, B, k
<1> QED
  BY <1>8, <1>9

LEMMA TickCount ==
  ASSUME NEW l \in Seq(Requests), NEW s
  PROVE  Count([i \in DOMAIN l |-> [l[i] EXCEPT !.left = Earlier(@)]], s) = Count(l, s)
<1> DEFINE k == [i \in DOMAIN l |-> [l[i] EXCEPT !.left = Earlier(@)]]
<1>1. DOMAIN k = DOMAIN l /\ \A i \in DOMAIN l : k[i].sub = l[i].sub
  BY ListType DEF Requests
<1> HIDE DEF k
<1>2. Of(k, s) = Of(l, s)
  BY <1>1 DEF Of
<1> QED
  BY <1>2 DEF Count, k

-----------------------------------------------------------------------------
(* Every step of the provider is a step of the streams' timers, or none.      *)

Req == [s \in Streams |-> Count(requests, s)]
DueNow == IF worker.pc = "callback" THEN worker.sub ELSE Nobody

LEMMA TimersInit == Init => Timers!Init
<1> SUFFICES ASSUME Init PROVE Timers!Init
  OBVIOUS
<1>1. \A s : Of(requests, s) = {}
  BY DEF Init, Of
<1>2. \A s : Cardinality(Of(requests, s)) = 0
  BY <1>1, FS_EmptySet
<1> QED
  BY <1>2 DEF Timers!Init, Init

LEMMA TimersKept ==
  ASSUME requests' = requests, DueNow' = DueNow, stop' = stop
  PROVE  UNCHANGED Timers!timerVars
BY DEF Timers!timerVars, DueNow

LEMMA ReqChange ==
  ASSUME NEW s \in Streams, NEW v,
         \A q \in Streams : Count(requests', q) = IF q = s THEN v ELSE Count(requests, q)
  PROVE  Req' = [Req EXCEPT ![s] = v] /\ Req[s] = Count(requests, s)
BY DEF Req

LEMMA TimersRequest ==
  ASSUME Inv, NEW t \in Threads, RequestTimeout(t)
  PROVE  Timers!Next \/ UNCHANGED Timers!timerVars
<1> DEFINE s == call[t].sub
           r == [sub |-> s, left |-> call[t].left]
<1>1. s \in Streams /\ r \in Requests
  BY DEF Inv, TypeOK, Asked, RequestTimeout, Requests
<1>2. requests' = Inserted(requests, r) /\ stop' = stop /\ DueNow' = DueNow
  BY DEF RequestTimeout, Return, Set, DueNow, Inv, TypeOK
<1> HIDE DEF s
<1>3. CASE requests' = requests
  BY <1>2, <1>3, TimersKept
<1>4. CASE requests' # requests
  <2>1. \A q : Count(requests', q) = Count(requests, q) + (IF s = q THEN 1 ELSE 0)
    BY <1>1, <1>2, <1>4, InsertedCount DEF Inv, TypeOK
  <2>2. \A q : Count(requests, q) \in Nat
    BY OfType DEF Inv, TypeOK
  <2>3. \A q \in Streams : Count(requests', q) = IF q = s THEN Count(requests, s) + 1
                                                 ELSE Count(requests, q)
    BY <2>1, <2>2
  <2>4. Req' = [Req EXCEPT ![s] = @ + 1]
    BY <1>1, <2>3, ReqChange
  <2>5. Timers!Request(s)
    BY <1>2, <2>4 DEF Timers!Request, Req, DueNow, Count
  <2> QED
    BY <1>1, <2>5 DEF Timers!Next
<1> QED
  BY <1>3, <1>4

LEMMA TimersCancel ==
  ASSUME Inv, NEW t \in Threads, CancelRequest(t)
  PROVE  Timers!Next
<1> DEFINE s == call[t].sub
<1>1. s \in Streams
  BY DEF Inv, Asked, CancelRequest
<1>2. PICK f \in Ascending(Others(requests, s)) :
        requests' = [i \in DOMAIN f |-> requests[f[i]]]
  BY DEF CancelRequest
<1>3. stop' = stop /\ DueNow' = DueNow
  BY DEF CancelRequest, Return, DueNow
<1> HIDE DEF s
<1>4. \A q : Count(requests', q) = IF q = s THEN 0 ELSE Count(requests, q)
  BY <1>2, CancelCount DEF Inv, TypeOK
<1>5. Req' = [Req EXCEPT ![s] = 0]
  BY <1>1, <1>4 DEF Req
<1>6. Timers!Cancel(s)
  BY <1>3, <1>5 DEF Timers!Cancel, Req, DueNow, Count
<1> QED
  BY <1>1, <1>6 DEF Timers!Next

LEMMA TimersTake ==
  ASSUME Inv, Pop
  PROVE  Timers!Next
<1> DEFINE s == requests[1].sub
<1>1. requests \in Seq(Requests) /\ requests # <<>> /\ requests' = Tail(requests)
  BY DEF Inv, TypeOK, Pop
<1>2. s \in Streams
  <2>1. Len(requests) \in Nat \ {0}
    BY <1>1, EmptySeq
  <2>2. requests[1] \in Requests
    BY <1>1, <2>1, ElementOfSeq
  <2> QED
    BY <2>2 DEF Requests
<1>3. stop' = stop /\ DueNow = Nobody /\ DueNow' = IF stop THEN Nobody ELSE s
  BY DEF Pop, DueNow
<1> HIDE DEF s
<1>4. \A q : /\ Count(requests, q) = Count(requests', q) + (IF s = q THEN 1 ELSE 0)
             /\ Count(requests', q) \in Nat
  BY <1>1, TailCount DEF s
<1>5. Req[s] > 0 /\ Req' = [Req EXCEPT ![s] = @ - 1]
  <2>1. \A q \in Streams : Count(requests', q) = IF q = s THEN Count(requests, s) - 1
                                                 ELSE Count(requests, q)
    BY <1>4
  <2>2. Req[s] = Count(requests, s) /\ Req' = [Req EXCEPT ![s] = Count(requests, s) - 1]
    BY <1>2, <2>1, ReqChange
  <2> QED
    BY <1>2, <1>4, <2>2
<1>6. Timers!Take(s)
  BY <1>3, <1>5 DEF Timers!Take, Req, DueNow, Count
<1> QED
  BY <1>2, <1>6 DEF Timers!Next

LEMMA TimersDeliver ==
  ASSUME Inv, Callback
  PROVE  Timers!Next
<1>1. DueNow \in Streams /\ DueNow' = Nobody /\ UNCHANGED <<requests, stop>>
  BY DEF Callback, DueNow, Inv, Handed, TypeOK
<1>2. DueNow # Nobody
  BY <1>1, ThreadsAssumption
<1> QED
  BY <1>1, <1>2 DEF Timers!Next, Timers!Deliver, DueNow

LEMMA TimersTick ==
  ASSUME Inv, Tick
  PROVE  UNCHANGED Timers!timerVars
<1>1. stop' = stop /\ DueNow' = DueNow
  BY DEF Tick, DueNow, Inv, TypeOK
<1>2. \A s : Count(requests', s) = Count(requests, s)
  BY TickCount DEF Tick, Inv, TypeOK
<1> QED
  BY <1>1, <1>2 DEF Timers!timerVars, DueNow, Count

LEMMA TimersStep ==
  ASSUME Inv, Next
  PROVE  Timers!Next \/ UNCHANGED Timers!timerVars
<1>1. CASE \E s \in Streams : Enter(s) \/ Leave(s)
  BY <1>1, TimersKept DEF Enter, Leave, DueNow
<1>2. CASE \E t \in Threads : Calls(t) \/ Lock(t)
  BY <1>2, TimersKept DEF Calls, CallRequest, CallCancel, Lock, DueNow
<1>3. CASE StopThread
  <2>1. DueNow' = DueNow /\ requests' = requests /\ stop' = TRUE
    BY <1>3 DEF StopThread, Set, DueNow, Inv, TypeOK
  <2> QED
    BY <2>1 DEF Timers!Next, Timers!StopThread, DueNow
<1>4. CASE WorkerLock \/ Measure \/ Wait \/ WaitEnds \/ TimedOut \/ Woken \/ CallbackReturns
  <2>1. requests' = requests /\ stop' = stop
    BY <1>4 DEF WorkerLock, Measure, Wait, WaitEnds, TimedOut, Woken, CallbackReturns
  <2>2. worker.pc # "callback" /\ worker'.pc # "callback"
    BY <1>4
    DEF WorkerLock, Measure, Wait, WaitEnds, TimedOut, Woken, CallbackReturns, Inv, TypeOK
  <2> QED
    BY <2>1, <2>2, TimersKept DEF DueNow
<1> QED
  BY <1>1, <1>2, <1>3, <1>4, TimersRequest, TimersCancel, TimersTake, TimersDeliver, TimersTick
  DEF Next, WorkerStep

(* The provider implements a timer for each of its streams (TiviTimeoutProvider *)
(* .h as a whole, seen from handleTimeout, requestTimeout and cancelRequest).  *)
THEOREM TimersCorrect == Spec => TimersSpec
<1>1. Inv /\ [Next]_vars => [Timers!Next]_(Timers!timerVars)
  <2> SUFFICES ASSUME Inv, [Next]_vars PROVE Timers!Next \/ UNCHANGED Timers!timerVars
    OBVIOUS
  <2>1. CASE UNCHANGED vars
    BY <2>1, TimersKept DEF vars, DueNow
  <2> QED
    BY <2>1, TimersStep
<1> QED
  BY Invariant, TimersInit, <1>1, PTL DEF Spec, TimersSpec, Timers!Spec
=============================================================================
