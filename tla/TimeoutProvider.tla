--------------------------- MODULE TimeoutProvider ---------------------------
(***************************************************************************)
(* The timeout provider of the ZRTP client                                 *)
(* (libs/zrtp/clients/tivi/TiviTimeoutProvider.h) with the event object it *)
(* sleeps on (common/EventClass.cpp): one list of requests for all         *)
(* streams, one worker thread.                                             *)
(*                                                                         *)
(* Every stream has a thread that takes the stream's lock (synchEnter) and *)
(* then calls requestTimeout and cancelRequest, which take the provider's  *)
(* lock; the worker calls handleTimeout, which takes the stream's lock and *)
(* may in turn call requestTimeout.                                        *)
(*                                                                         *)
(* Deadlines are relative: left is when_ms minus the current time.  It is  *)
(* kept at -1 once the deadline has passed, since the code only asks       *)
(* whether it has.                                                         *)
(***************************************************************************)
EXTENDS Integers, Sequences, FiniteSets

CONSTANTS
  Streams,    \* the subscribers (each uses one command)
  Worker,     \* the provider's thread
  Nobody,     \* no thread, no stream
  Delays,     \* the time_ms values requested
  IdleWait,   \* the wait of a worker with an empty list (3600000)
  MaxList     \* bound: requests in the list

ASSUME ThreadsAssumption ==
  Worker \notin Streams /\ Nobody \notin Streams /\ Nobody # Worker
ASSUME DelaysAssumption == Delays \subseteq Nat \ {0}
ASSUME WaitAssumption == IdleWait \in Nat \ {0} /\ \A d \in Delays : d < IdleWait
ASSUME ListAssumption == MaxList \in Nat

Threads == Streams \cup {Worker}
Lefts == Nat \cup {-1}
Requests == [sub : Streams, left : Lefts]

VARIABLES
  requests,   \* the list, nearest deadline first
  synchLock,  \* the thread that holds the provider's lock
  stream,     \* [Streams -> Threads]: who holds each stream's lock
  call,       \* [Threads -> the call it makes into the provider]
  worker,     \* the worker's place in OnTask, its request or its wait
  stop,       \* the flag that ends the worker
  plan        \* history: the deadline the worker measured, and whether a signal
              \* came after that and before it waited

vars == <<requests, synchLock, stream, call, worker, stop, plan>>

NoCall == [op |-> "none", sub |-> Nobody, left |-> 0]

Init ==
  /\ requests = <<>>
  /\ synchLock = Nobody
  /\ stream = [s \in Streams |-> Nobody]
  /\ call = [t \in Threads |-> NoCall]
  /\ worker = [pc |-> "loop", sub |-> Nobody, left |-> 0]
  /\ stop = FALSE
  /\ plan = [until |-> 0, missed |-> FALSE]

-----------------------------------------------------------------------------
(* The event: Set is a bare pthread_cond_signal.  It wakes a worker that      *)
(* waits; nothing is remembered for one that is about to.                    *)

Set ==
  /\ worker' = IF worker.pc = "waiting" THEN [worker EXCEPT !.pc = "woken"] ELSE worker
  /\ plan' = [plan EXCEPT !.missed = @ \/ worker.pc = "measured"]

-----------------------------------------------------------------------------
(* The streams. *)

Enter(s) ==
  /\ stream[s] = Nobody /\ call[s] = NoCall
  /\ stream' = [stream EXCEPT ![s] = s]
  /\ UNCHANGED <<requests, synchLock, call, worker, stop, plan>>

Leave(s) ==
  /\ stream[s] = s /\ call[s] = NoCall
  /\ stream' = [stream EXCEPT ![s] = Nobody]
  /\ UNCHANGED <<requests, synchLock, call, worker, stop, plan>>

\* A thread that holds the lock of stream s calls the provider for it.  The
\* deadline is computed before the provider's lock is taken.
CallRequest(t, s, d) ==
  /\ stream[s] = t /\ call[t] = NoCall
  /\ Len(requests) < MaxList
  /\ call' = [call EXCEPT ![t] = [op |-> "request", sub |-> s, left |-> d]]
  /\ UNCHANGED <<requests, synchLock, stream, worker, stop, plan>>

CallCancel(t, s) ==
  /\ stream[s] = t /\ call[t] = NoCall
  /\ call' = [call EXCEPT ![t] = [op |-> "cancel", sub |-> s, left |-> 0]]
  /\ UNCHANGED <<requests, synchLock, stream, worker, stop, plan>>

Lock(t) ==
  /\ synchLock = Nobody /\ call[t] # NoCall
  /\ synchLock' = t
  /\ UNCHANGED <<requests, stream, call, worker, stop, plan>>

Return(t) ==
  /\ call' = [call EXCEPT ![t] = NoCall]
  /\ synchLock' = Nobody
  /\ UNCHANGED <<stream, stop>>

-----------------------------------------------------------------------------
(* requestTimeout and cancelRequest, in the provider's lock. *)

\* Positions of the requests that r strictly precedes.
Later(l, r) == {i \in DOMAIN l : r.left < l[i].left}

InsertAt(l, i, r) == SubSeq(l, 1, i - 1) \o <<r>> \o SubSeq(l, i, Len(l))

\* Mutant: every request that is not the first to expire goes to the back.
InsertedBack(l, r) ==
  IF l = <<>> \/ r.left < l[1].left THEN <<r>> \o l ELSE Append(l, r)

\* Before the front, behind the back, or before the first later request.  When
\* r is as late as the back, no request is later and r is inserted nowhere.
Inserted(l, r) ==
  IF l = <<>> \/ r.left < l[1].left THEN <<r>> \o l
  ELSE IF l[Len(l)].left < r.left THEN Append(l, r)
  ELSE IF Later(l, r) = {} THEN l
  ELSE InsertAt(l, CHOOSE i \in Later(l, r) : \A j \in Later(l, r) : i <= j, r)

\* Mutant: only the first request in an empty list wakes the worker.
RequestTimeoutQuiet(t) ==
  /\ synchLock = t /\ call[t].op = "request"
  /\ requests' = Inserted(requests, [sub |-> call[t].sub, left |-> call[t].left])
  /\ IF requests = <<>> THEN Set ELSE UNCHANGED <<worker, plan>>
  /\ Return(t)

RequestTimeout(t) ==
  /\ synchLock = t /\ call[t].op = "request"
  /\ requests' = Inserted(requests, [sub |-> call[t].sub, left |-> call[t].left])
  /\ Set
  /\ Return(t)

\* Mutant: the one after a removed request is skipped.
OthersSkipping(l, s) ==
  {i \in DOMAIN l : l[i].sub # s \/ (i > 1 /\ l[i - 1].sub = s)}

\* Positions of the requests of other streams than s.
Others(l, s) == {i \in DOMAIN l : l[i].sub # s}

\* The members of a set of positions in ascending order: one function.
Ascending(S) ==
  {f \in [1..Cardinality(S) -> S] : \A i, j \in DOMAIN f : i < j => f[i] < f[j]}

CancelRequest(t) ==
  /\ synchLock = t /\ call[t].op = "cancel"
  /\ \E f \in Ascending(Others(requests, call[t].sub)) :
       requests' = [i \in DOMAIN f |-> requests[f[i]]]
  /\ UNCHANGED <<worker, plan>>
  /\ Return(t)

StopThread ==
  /\ ~stop
  /\ stop' = TRUE
  /\ Set
  /\ UNCHANGED <<requests, synchLock, stream, call>>

-----------------------------------------------------------------------------
(* OnTask: the worker. *)

\* The first half of the loop body runs in the lock.
WorkerLock ==
  /\ worker.pc = "loop" /\ synchLock = Nobody
  /\ synchLock' = Worker
  /\ worker' = [worker EXCEPT !.pc = "locked"]
  /\ UNCHANGED <<requests, stream, call, stop, plan>>

\* Mutant: the command is called with the mutex held.
PopLocked ==
  /\ worker.pc = "locked"
  /\ requests # <<>> /\ requests[1].left <= 0
  /\ requests' = Tail(requests)
  /\ worker' = IF stop THEN [pc |-> "stopped", sub |-> Nobody, left |-> 0]
               ELSE [pc |-> "callback", sub |-> requests[1].sub,
                     left |-> requests[1].left]
  /\ UNCHANGED <<synchLock, stream, call, stop, plan>>

\* A due request is taken out and delivered with the lock free.
Pop ==
  /\ worker.pc = "locked"
  /\ requests # <<>> /\ requests[1].left <= 0
  /\ requests' = Tail(requests)
  /\ synchLock' = Nobody
  /\ worker' = IF stop THEN [pc |-> "stopped", sub |-> Nobody, left |-> 0]
               ELSE [pc |-> "callback", sub |-> requests[1].sub,
                     left |-> requests[1].left]
  /\ UNCHANGED <<stream, call, stop, plan>>

\* Otherwise the time to wait is computed, and the lock given up.
Measure ==
  /\ worker.pc = "locked"
  /\ requests # <<>> => requests[1].left > 0
  /\ LET time == IF requests = <<>> THEN IdleWait ELSE requests[1].left
     IN /\ worker' = [pc |-> IF stop THEN "stopped" ELSE "measured",
                      sub |-> Nobody, left |-> time]
        /\ plan' = [until |-> time, missed |-> FALSE]
  /\ synchLock' = Nobody
  /\ UNCHANGED <<requests, stream, call, stop>>

Wait ==
  /\ worker.pc = "measured"
  /\ worker' = [worker EXCEPT !.pc = "waiting"]
  /\ UNCHANGED <<requests, synchLock, stream, call, stop, plan>>

\* The time is over, or the wait ends for no reason (a spurious wakeup, or
\* EINVAL for a tv_nsec of exactly 1000000000).
WaitEnds ==
  /\ worker.pc = "waiting"
  /\ worker' = [worker EXCEPT !.pc = "woken"]
  /\ UNCHANGED <<requests, synchLock, stream, call, stop, plan>>

\* Mutant: the wait has no timeout.
TimedOutNever == FALSE /\ WaitEnds

TimedOut == worker.left = 0 /\ WaitEnds

Woken ==
  /\ worker.pc = "woken"
  /\ worker' = [pc |-> IF stop THEN "stopped" ELSE "loop", sub |-> Nobody, left |-> 0]
  /\ UNCHANGED <<requests, synchLock, stream, call, stop, plan>>

\* handleTimeout takes the stream's lock, may call the provider, and returns.
Callback ==
  /\ worker.pc = "callback" /\ stream[worker.sub] = Nobody
  /\ stream' = [stream EXCEPT ![worker.sub] = Worker]
  /\ worker' = [worker EXCEPT !.pc = "handling"]
  /\ UNCHANGED <<requests, synchLock, call, stop, plan>>

CallbackReturns ==
  /\ worker.pc = "handling" /\ call[Worker] = NoCall
  /\ stream' = [stream EXCEPT ![worker.sub] = Nobody]
  /\ worker' = [pc |-> "loop", sub |-> Nobody, left |-> 0]
  /\ UNCHANGED <<requests, synchLock, call, stop, plan>>

-----------------------------------------------------------------------------
(* Time.  A bound: no caller waits for the lock past its own deadline. *)

Earlier(left) == IF left >= 0 THEN left - 1 ELSE left

Tick ==
  /\ \A t \in Threads : call[t].op = "request" => call[t].left > 0
  /\ requests' = [i \in DOMAIN requests |->
                    [requests[i] EXCEPT !.left = Earlier(@)]]
  /\ call' = [t \in Threads |->
                [call[t] EXCEPT !.left = IF call[t].op = "request" THEN @ - 1 ELSE @]]
  /\ worker' = [worker EXCEPT !.left = IF worker.pc = "waiting" /\ @ > 0
                                       THEN @ - 1 ELSE @]
  /\ plan' = [plan EXCEPT !.until = Earlier(@)]
  /\ UNCHANGED <<synchLock, stream, stop>>

WorkerStep ==
  \/ WorkerLock \/ Pop \/ Measure \/ Wait \/ TimedOut \/ Woken
  \/ Callback \/ CallbackReturns

Calls(t) ==
  \/ \E s \in Streams, d \in Delays : CallRequest(t, s, d)
  \/ \E s \in Streams : CallCancel(t, s)

Next ==
  \/ \E s \in Streams : Enter(s) \/ Leave(s)
  \/ \E t \in Threads : Calls(t) \/ Lock(t) \/ RequestTimeout(t) \/ CancelRequest(t)
  \/ StopThread \/ WorkerStep \/ WaitEnds \/ Tick

Spec == Init /\ [][Next]_vars

-----------------------------------------------------------------------------
(* Safety. *)

TypeOK ==
  /\ requests \in Seq(Requests)
  /\ synchLock \in Threads \cup {Nobody}
  /\ stream \in [Streams -> Threads \cup {Nobody}]
  /\ call \in [Threads -> [op : {"none", "request", "cancel"},
                           sub : Streams \cup {Nobody}, left : Lefts]]
  /\ worker \in [pc : {"loop", "locked", "callback", "handling", "measured",
                       "waiting", "woken", "stopped"},
                 sub : Streams \cup {Nobody}, left : Lefts]
  /\ stop \in BOOLEAN
  /\ plan \in [until : Lefts, missed : BOOLEAN]

\* "The timeouts are ordered in the order of which they will expire": the
\* worker looks at the front only.
Sorted ==
  \A i, j \in DOMAIN requests : i <= j => requests[i].left <= requests[j].left

\* "Nearest in future is first in list": a worker that sleeps has planned to wake
\* no later than the first request expires, whatever was asked for or cancelled
\* since it looked; the one exception is a signal that came between its look at
\* the list and its wait (Set wakes only a thread that waits already).
NotOverslept ==
  worker.pc \in {"measured", "waiting"} /\ ~plan.missed /\ requests # <<>> =>
    plan.until <= requests[1].left

-----------------------------------------------------------------------------
(* What the comments say and the code does not keep. *)

\* "Request a timeout trigger" (requestTimeout): the request is in the list.
RequestIsQueued ==
  [][\A t \in Threads :
       call[t].op = "request" /\ call'[t] = NoCall =>
         Len(requests') = Len(requests) + 1]_vars

-----------------------------------------------------------------------------
(* Every stream sees its own timer only: the requests in the list by stream,  *)
(* and the one taken out whose handleTimeout has not the stream's lock yet.   *)

Of(l, s) == {i \in DOMAIN l : l[i].sub = s}

Timers == INSTANCE StreamTimers WITH
  req <- [s \in Streams |-> Cardinality(Of(requests, s))],
  due <- IF worker.pc = "callback" THEN worker.sub ELSE Nobody

\* The list and the worker's thread give each stream a timer of its own: a request
\* is taken at most once and one at a time, cancelling removes all of the stream's
\* and nobody else's, and nothing but the stop throws a queued request away.
TimersSpec == Timers!Spec

-----------------------------------------------------------------------------
(* Liveness: the threads run, time passes, a mutex is handed to every thread  *)
(* that keeps asking for it, and a holder of a stream's lock, which makes a   *)
(* finite number of calls, gives it up.                                      *)

Fairness ==
  /\ WF_vars(Tick) /\ SF_vars(WorkerLock) /\ SF_vars(Callback)
  /\ WF_vars(Pop \/ Measure \/ Wait \/ TimedOut \/ Woken)
  /\ SF_vars(CallbackReturns)
  /\ \A t \in Threads :
       /\ SF_vars(Lock(t)) /\ WF_vars(RequestTimeout(t) \/ CancelRequest(t))
  /\ \A s \in Streams : SF_vars(Leave(s))

FairSpec == Spec /\ Fairness

\* Every call into the provider returns: the provider's lock and the streams'
\* locks are never taken in a circle.
CallsReturn == \A t \in Threads : call[t] # NoCall ~> call[t] = NoCall

\* A request that is due and first in the list is handed to its stream or
\* cancelled (OnTask), unless the worker is told to stop.
Due(s) == requests # <<>> /\ requests[1].sub = s /\ requests[1].left <= 0

FrontServed ==
  \A s \in Streams : Due(s) ~> (~Due(s) \/ worker.pc = "callback" \/ stop)

=============================================================================
