---------------------------- MODULE StreamTimers ----------------------------
(***************************************************************************)
(* What the timeout provider (libs/zrtp/clients/tivi/TiviTimeoutProvider.h)*)
(* promises to each stream: a timer of its own.  This is how the protocol  *)
(* engine's module (ZrtpStateClass.tla) sees it; TimeoutProvider, with one *)
(* list, one thread and its locks, implements it.                          *)
(***************************************************************************)
EXTENDS Naturals

CONSTANTS Streams, Nobody

VARIABLES
  req,    \* [Streams -> Nat]: the requests queued for each stream
  due,    \* the stream whose request was taken out and is being delivered
  stop    \* the provider was told to stop

timerVars == <<req, due, stop>>

Init == req = [s \in Streams |-> 0] /\ due = Nobody /\ stop = FALSE

\* requestTimeout; one that is dropped changes nothing.
Request(s) ==
  /\ req' = [req EXCEPT ![s] = @ + 1]
  /\ UNCHANGED <<due, stop>>

\* cancelRequest: all of the stream's requests, but not one already taken out.
Cancel(s) ==
  /\ req' = [req EXCEPT ![s] = 0]
  /\ UNCHANGED <<due, stop>>

\* The worker takes one out; once it is to stop, it throws it away.
Take(s) ==
  /\ req[s] > 0 /\ due = Nobody
  /\ req' = [req EXCEPT ![s] = @ - 1]
  /\ due' = IF stop THEN Nobody ELSE s
  /\ UNCHANGED stop

\* handleTimeout gets the stream's lock.
Deliver ==
  /\ due # Nobody
  /\ due' = Nobody
  /\ UNCHANGED <<req, stop>>

StopThread == stop' = TRUE /\ UNCHANGED <<req, due>>

Next ==
  \/ \E s \in Streams : Request(s) \/ Cancel(s) \/ Take(s)
  \/ Deliver \/ StopThread

Spec == Init /\ [][Next]_timerVars

=============================================================================
