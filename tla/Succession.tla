----------------------------- MODULE Succession -----------------------------
(***************************************************************************)
(* What leader election promises the controllers: at most one process      *)
(* leads, and the next one may begin while workers of an earlier one still *)
(* finish what was queued.  LeaderElection implements this specification;  *)
(* SecretReplication builds on it.                                         *)
(***************************************************************************)
CONSTANT Process

VARIABLE role   \* role[p]: "down", "leading" or, told to stop, "draining"

Init == role = [p \in Process |-> "down"]

Start(p) ==
  /\ role[p] = "down"
  /\ \A q \in Process : role[q] # "leading"
  /\ role' = [role EXCEPT ![p] = "leading"]

Stop(p) ==
  /\ role[p] = "leading"
  /\ role' = [role EXCEPT ![p] = "draining"]

\* The process exits, or crashes.
End(p) ==
  /\ role[p] # "down"
  /\ role' = [role EXCEPT ![p] = "down"]

Next == \E p \in Process : Start(p) \/ Stop(p) \/ End(p)

Spec == Init /\ [][Next]_role
=============================================================================
