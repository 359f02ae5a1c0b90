------------------------------ MODULE KeyQueue ------------------------------
(***************************************************************************)
(* What a controller may rely on: a set of keys to work on.  A key handed  *)
(* over is taken by one worker at a time, it may be handed over again      *)
(* while somebody works on it, and after the end of the queue nothing is   *)
(* handed over any more.  WorkerPool implements this specification; the    *)
(* modules about the controllers build on it.                              *)
(***************************************************************************)
CONSTANT Key

VARIABLES
  waiting,  \* keys handed over and not taken since
  working,  \* keys some worker has
  closed    \* the queue was shut down

vars == <<waiting, working, closed>>

Init ==
  /\ waiting = {}
  /\ working = {}
  /\ closed = FALSE

HandOver(k) ==
  /\ ~ closed
  /\ waiting' = waiting \cup {k}
  /\ UNCHANGED <<working, closed>>

\* A key handed over twice may still be waiting for its second time.
Take(k) ==
  /\ k \in waiting
  /\ k \notin working
  /\ waiting' \in {waiting, waiting \ {k}}
  /\ working' = working \cup {k}
  /\ UNCHANGED closed

Finish(k) ==
  /\ k \in working
  /\ working' = working \ {k}
  /\ UNCHANGED <<waiting, closed>>

\* The keys whose time has not come are lost.
Close ==
  /\ closed' = TRUE
  /\ waiting' \in SUBSET waiting
  /\ UNCHANGED working

Next ==
  \/ \E k \in Key : HandOver(k) \/ Take(k) \/ Finish(k)
  \/ Close

Spec == Init /\ [][Next]_vars
=============================================================================
