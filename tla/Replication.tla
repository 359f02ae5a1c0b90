---------------------------- MODULE Replication ----------------------------
(***************************************************************************)
(* What the broker promises the users of the target cluster about the      *)
(* control cluster, without informers, queues, workers, faults or crashes: *)
(* a control Ingress holds a copy of a section its own target has had, and *)
(* only what a user has withdrawn is taken away, the secrets after it by   *)
(* name.  IngressReplication implements this specification.                *)
(***************************************************************************)
CONSTANTS
  Key,      \* the Ingresses of the target cluster
  Section,  \* TLS sections users write
  Copies,   \* Copies[k][tls]: what a copy of section tls for k may be
  Empty     \* a copy without an entry

VARIABLES
  used,       \* used[k]: the sections Ingress k has had
  withdrawn,  \* the keys a user has deleted or unlabelled
  copies,     \* copies[k]: no control Ingress, or the section of the one there is
  secrets     \* the certificate secrets of the control cluster

vars == <<used, withdrawn, copies, secrets>>

\* The copies a section of k has ever called for, and the secrets a section names.
Called(k) == UNION {Copies[k][tls] : tls \in used[k]}
Names(section) == {section[i].secretName : i \in DOMAIN section}

Init ==
  /\ used = [k \in Key |-> {}]
  /\ withdrawn = {}
  /\ copies = [k \in Key |-> {}]
  /\ secrets = {}

Use(k) ==
  /\ \E tls \in Section : used' = [used EXCEPT ![k] = @ \cup {tls}]
  /\ UNCHANGED <<withdrawn, copies, secrets>>

Withdraw(k) ==
  /\ used[k] # {}
  /\ withdrawn' = withdrawn \cup {k}
  /\ UNCHANGED <<used, copies, secrets>>

\* There is no control Ingress without an entry, unless one had some before.
CreateCopy(k) ==
  /\ copies[k] = {}
  /\ \E copy \in Called(k) \ {Empty} : copies' = [copies EXCEPT ![k] = {copy}]
  /\ UNCHANGED <<used, withdrawn, secrets>>

UpdateCopy(k) ==
  /\ copies[k] # {}
  /\ \E copy \in Called(k) : copies' = [copies EXCEPT ![k] = {copy}]
  /\ UNCHANGED <<used, withdrawn, secrets>>

Remove(k) ==
  /\ k \in withdrawn
  /\ copies' = [copies EXCEPT ![k] = {}]
  /\ UNCHANGED <<used, withdrawn, secrets>>

RemoveSecret(k) ==
  /\ k \in withdrawn
  /\ \E copy \in Called(k) : \E secret \in Names(copy) : secrets' = secrets \ {secret}
  /\ UNCHANGED <<used, withdrawn, copies>>

Issue(k) ==
  /\ \E copy \in copies[k] : \E secret \in Names(copy) : secrets' = secrets \cup {secret}
  /\ UNCHANGED <<used, withdrawn, copies>>

Next ==
  \E k \in Key :
    \/ Use(k)
    \/ Withdraw(k)
    \/ CreateCopy(k)
    \/ UpdateCopy(k)
    \/ Remove(k)
    \/ RemoveSecret(k)
    \/ Issue(k)

Spec == Init /\ [][Next]_vars
=============================================================================
