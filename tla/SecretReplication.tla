-------------------------- MODULE SecretReplication --------------------------
(***************************************************************************)
(* The secret controller: how the certificate that Cert-Manager writes     *)
(* into the control cluster reaches the target cluster, with one secret    *)
(* and several processes that take over from each other (Succession), each *)
(* with a queue that behaves like KeyQueue.                                *)
(*                                                                         *)
(* A cluster's object is the sequence of its states; its version is a      *)
(* position in it, and a cache is the position it has got to.  A reflector *)
(* that lists again may take it back: it lists with ResourceVersion 0.     *)
(***************************************************************************)
EXTENDS Naturals, Sequences

CONSTANTS
  Process,
  NoProcess,
  MaxVersions,  \* bound: states of the secret
  MaxChanges,   \* bound: states of the target Ingress
  MaxLosses,    \* bound: removals of the copy by others
  MaxFaults,    \* bound: lost requests or answers, lists that take a cache back
  MaxStarts     \* bound: processes that begin to lead

ASSUME ProcessAssumption == NoProcess \notin Process

VARIABLES
  secret,   \* secret[v]: is there a certificate in the control cluster
  wanted,   \* wanted[i]: does a managed target Ingress name the secret
  copy,     \* version of the target cluster's copy, 0 if there is none
  writer,   \* the process that wrote the copy, as long as that run of it lasts and
            \*   no list has taken its cache back since it read the certificate
  role,     \* as in Succession
  seen,     \* seen[p]: version in the SecretLister's cache, 0 before its list
  listed,   \* listed[p]: state in the IngressLister's cache, 0 before its list
  waiting,  \* waiting[p]: the key is in the queue, as in KeyQueue
  task,     \* task[p]: where Sync is, the version it read, and whether no list has
            \*   taken the cache back since
  budget    \* the bounded events that have happened

clusterVars == <<secret, wanted>>
copyVars == <<copy, writer>>
cacheVars == <<seen, listed>>
vars == <<secret, wanted, copy, writer, role, seen, listed, waiting, task, budget>>

Roles == INSTANCE Succession

Idle == [pc |-> "idle", version |-> 0, current |-> TRUE]

Init ==
  /\ secret = <<FALSE>>
  /\ wanted \in {<<FALSE>>, <<TRUE>>}
  /\ copy = 0
  /\ writer = NoProcess
  /\ Roles!Init
  /\ seen = [p \in Process |-> 0]
  /\ listed = [p \in Process |-> 0]
  /\ waiting = [p \in Process |-> FALSE]
  /\ task = [p \in Process |-> Idle]
  /\ budget = [losses |-> 0, faults |-> 0, starts |-> 0]

Spend(what, max) ==
  /\ budget[what] < max
  /\ budget' = [budget EXCEPT ![what] = @ + 1]

-----------------------------------------------------------------------------
\* The clusters.

\* Cert-Manager issues or renews the certificate; the secret is removed.
Issue ==
  /\ Len(secret) < MaxVersions
  /\ secret' = Append(secret, TRUE)
  /\ UNCHANGED <<wanted, copyVars, role, cacheVars, waiting, task, budget>>

Remove ==
  /\ Len(secret) < MaxVersions
  /\ secret[Len(secret)]
  /\ secret' = Append(secret, FALSE)
  /\ UNCHANGED <<wanted, copyVars, role, cacheVars, waiting, task, budget>>

\* A user creates, edits, labels or deletes the Ingress.
ChangeIngress ==
  /\ Len(wanted) < MaxChanges
  /\ wanted' = Append(wanted, ~ wanted[Len(wanted)])
  /\ UNCHANGED <<secret, copyVars, role, cacheVars, waiting, task, budget>>

LoseCopy ==
  /\ copy # 0
  /\ Spend("losses", MaxLosses)
  /\ copy' = 0
  /\ writer' = NoProcess
  /\ UNCHANGED <<clusterVars, role, cacheVars, waiting, task>>

-----------------------------------------------------------------------------
\* The processes.

\* `run`: informers and controller begin with nothing.
Start(p) ==
  /\ Roles!Start(p)
  /\ Spend("starts", MaxStarts)
  /\ UNCHANGED <<clusterVars, copyVars, cacheVars, waiting, task>>

\* The context ends: the informers stop and the queue shuts down, and keys whose
\* time has not come are lost.  The worker finishes what was due.
Stop(p) ==
  /\ Roles!Stop(p)
  /\ \E kept \in {FALSE, waiting[p]} : waiting' = [waiting EXCEPT ![p] = kept]
  /\ UNCHANGED <<clusterVars, copyVars, cacheVars, task, budget>>

\* Exit after the drain, or a crash.
End(p) ==
  /\ Roles!End(p)
  /\ writer' = IF writer = p THEN NoProcess ELSE writer
  /\ seen' = [seen EXCEPT ![p] = 0]
  /\ listed' = [listed EXCEPT ![p] = 0]
  /\ waiting' = [waiting EXCEPT ![p] = FALSE]
  /\ task' = [task EXCEPT ![p] = Idle]
  /\ UNCHANGED <<clusterVars, copy, budget>>

\* EventHandler: OnAdd and OnUpdate hand the key over; OnUpdate of an equal secret,
\* by a resync, and OnDelete do nothing.
Notifies(v) == secret[v]

SecretCacheIs(p, v) ==
  /\ seen' = [seen EXCEPT ![p] = v]
  /\ waiting' = [waiting EXCEPT ![p] = @ \/ Notifies(v)]

\* The SecretInformer moves on: its list, an event of its watch, or a new list that
\* skips some of them.
ObserveSecret(p) ==
  /\ role[p] = "leading"
  /\ \E v \in seen[p] + 1 .. Len(secret) : SecretCacheIs(p, v)
  /\ UNCHANGED <<clusterVars, copyVars, role, listed, task, budget>>

\* A new list from an API server that lags behind: ListAndWatch asks for
\* ResourceVersion 0, and Replace puts what it gets in the place of the cache.
RelistSecret(p) ==
  /\ role[p] = "leading"
  /\ Spend("faults", MaxFaults)
  /\ \E v \in 1 .. Len(secret) : v < seen[p] /\ SecretCacheIs(p, v)
  /\ writer' = IF writer = p THEN NoProcess ELSE writer
  /\ task' = IF task[p] = Idle THEN task ELSE [task EXCEPT ![p].current = FALSE]
  /\ UNCHANGED <<clusterVars, copy, role, listed>>

\* The target IngressInformer; the secret controller has no handler for it.
ObserveIngress(p) ==
  /\ role[p] = "leading"
  /\ \E i \in listed[p] + 1 .. Len(wanted) : listed' = [listed EXCEPT ![p] = i]
  /\ UNCHANGED <<clusterVars, copyVars, role, seen, waiting, task, budget>>

RelistIngress(p) ==
  /\ role[p] = "leading"
  /\ Spend("faults", MaxFaults)
  /\ \E i \in 1 .. Len(wanted) : i < listed[p] /\ listed' = [listed EXCEPT ![p] = i]
  /\ UNCHANGED <<clusterVars, copyVars, role, seen, waiting, task>>

-----------------------------------------------------------------------------
\* Sync.

\* The SecretLister.  Start has waited for SecretSync alone.  A key that was handed
\* over again before its time may stay in the queue.  One mutant does not return
\* when the secret is gone; the other one's queue holds the secrets of the events,
\* and a retry brings an old one back.
SyncStartUnchecked(p) ==
  /\ waiting[p]
  /\ task[p] = Idle
  /\ \E again \in BOOLEAN : waiting' = [waiting EXCEPT ![p] = again]
  /\ task' = [task EXCEPT ![p] = [pc |-> "list", version |-> seen[p], current |-> TRUE]]
  /\ UNCHANGED <<clusterVars, copyVars, role, cacheVars, budget>>
SyncStartWithObject(p) ==
  /\ waiting[p]
  /\ task[p] = Idle
  /\ \E again \in BOOLEAN : waiting' = [waiting EXCEPT ![p] = again]
  /\ \E v \in 1 .. seen[p] :
       secret[v] /\ task' = [task EXCEPT ![p] = [pc |-> "list", version |-> v, current |-> TRUE]]
  /\ UNCHANGED <<clusterVars, copyVars, role, cacheVars, budget>>
SyncStart(p) ==
  /\ waiting[p]
  /\ task[p] = Idle
  /\ \E again \in BOOLEAN : waiting' = [waiting EXCEPT ![p] = again]
  /\ task' = [task EXCEPT ![p] =
       IF secret[seen[p]] THEN [pc |-> "list", version |-> seen[p], current |-> TRUE] ELSE Idle]
  /\ UNCHANGED <<clusterVars, copyVars, role, cacheVars, budget>>

\* hasIngressInTargetCluster over the IngressLister; without one the secret is
\* ignored.
HasIngressInTargetCluster(p) == listed[p] # 0 /\ wanted[listed[p]]

ListIngresses(p) ==
  /\ task[p].pc = "list"
  /\ task' = [task EXCEPT ![p] = IF HasIngressInTargetCluster(p)
                                 THEN [@ EXCEPT !.pc = "create"] ELSE Idle]
  /\ UNCHANGED <<clusterVars, copyVars, role, cacheVars, waiting, budget>>

\* Sync returns an error: AddRateLimited, in vain when the queue is shut down.  The
\* mutant forgets the key.
RetryNever(p) ==
  /\ task' = [task EXCEPT ![p] = Idle]
  /\ UNCHANGED waiting
Retry(p) ==
  /\ task' = [task EXCEPT ![p] = Idle]
  /\ waiting' = [waiting EXCEPT ![p] = @ \/ role[p] = "leading"]

Replaces(p) ==
  /\ copy' = task[p].version
  /\ writer' = IF task[p].current THEN p ELSE NoProcess

Write(p) ==
  /\ Replaces(p)
  /\ task' = [task EXCEPT ![p] = Idle]
  /\ UNCHANGED waiting

\* replicateSecretToTargetCluster.
Create(p) ==
  /\ task[p].pc = "create"
  /\ IF copy = 0
     THEN Write(p)
     ELSE /\ task' = [task EXCEPT ![p].pc = "update"]
          /\ UNCHANGED <<copyVars, waiting>>
  /\ UNCHANGED <<clusterVars, role, cacheVars, budget>>

\* Without a resourceVersion: it replaces whatever is there.  The mutant does not
\* return the error.
UpdateOnce(p) ==
  /\ task[p].pc = "update"
  /\ IF copy # 0
     THEN Write(p)
     ELSE /\ task' = [task EXCEPT ![p] = Idle]
          /\ UNCHANGED <<copyVars, waiting>>
  /\ UNCHANGED <<clusterVars, role, cacheVars, budget>>
Update(p) ==
  /\ task[p].pc = "update"
  /\ IF copy # 0
     THEN Write(p)
     ELSE /\ Retry(p)
          /\ UNCHANGED copyVars
  /\ UNCHANGED <<clusterVars, role, cacheVars, budget>>

\* The request is lost, or took effect and its answer is lost.
LoseRequest(p) ==
  /\ task[p].pc \in {"create", "update"}
  /\ Spend("faults", MaxFaults)
  /\ Retry(p)
  /\ \/ UNCHANGED copyVars
     \/ ((task[p].pc = "create") <=> (copy = 0)) /\ Replaces(p)
  /\ UNCHANGED <<clusterVars, role, cacheVars>>

-----------------------------------------------------------------------------
Observe(p) == ObserveSecret(p) \/ ObserveIngress(p) \/ RelistSecret(p) \/ RelistIngress(p)
Sync(p) == SyncStart(p) \/ ListIngresses(p) \/ Create(p) \/ Update(p)

Next ==
  \/ Issue
  \/ Remove
  \/ ChangeIngress
  \/ LoseCopy
  \/ \E p \in Process :
       \/ Start(p)
       \/ Stop(p)
       \/ End(p)
       \/ Observe(p)
       \/ Sync(p)
       \/ LoseRequest(p)

Spec == Init /\ [][Next]_vars

\* Informers and workers run.
Fairness ==
  \A p \in Process :
    /\ WF_vars(ObserveSecret(p))
    /\ WF_vars(ObserveIngress(p))
    /\ WF_vars(Sync(p))

FairSpec == Spec /\ Fairness

-----------------------------------------------------------------------------
\* What is read and copied is a certificate that there was, not the state of a secret
\* that is gone (secret/sync.go:106-111).
TypeOK ==
  /\ secret \in Seq(BOOLEAN)
  /\ wanted \in Seq(BOOLEAN)
  /\ copy \in 0..Len(secret)
  /\ writer \in Process \cup {NoProcess}
  /\ role \in [Process -> {"down", "leading", "draining"}]
  /\ seen \in [Process -> 0..Len(secret)]
  /\ listed \in [Process -> 0..Len(wanted)]
  /\ waiting \in [Process -> BOOLEAN]
  /\ task \in [Process -> [pc : {"idle", "list", "create", "update"},
                           version : 0..Len(secret), current : BOOLEAN]]
  /\ budget \in [{"losses", "faults", "starts"} -> Nat]
  /\ copy # 0 => secret[copy]
  /\ \A p \in Process : task[p].pc # "idle" => secret[task[p].version]

\* A process never puts an older certificate in the place of a newer one of its
\* own, in whatever order events, retries and lost answers come, unless a list has
\* taken its cache back between its two reads (secret/sync.go:105,157-158).  The copy
\* may go back after such a list, and around a change of leaders or a restart.
WritesMoveForward ==
  [][copy' # 0 /\ copy' < copy => writer = NoProcess \/ writer' # writer]_vars

\* A leader that has nothing to do and whose write is the last one has left the
\* certificate it knows of, when the Ingress was there all the time and no list has
\* taken its cache back since it read what it wrote (secret/sync.go:155-163).
QuietLeaderIsFresh ==
  \A p \in Process :
    /\ role[p] = "leading"
    /\ writer = p
    /\ ~ waiting[p]
    /\ task[p] = Idle
    /\ secret[seen[p]]
    /\ \A i \in 1..Len(wanted) : wanted[i]
    => copy = seen[p]

\* The managed Ingress is in the cache, and nothing changes that.
KnownAsWanted(p) ==
  /\ role[p] = "leading"
  /\ listed[p] # 0
  /\ \A i \in listed[p]..Len(wanted) : wanted[i]

\* A certificate that is issued or renewed while a leader knows the Ingress reaches
\* the target cluster, through lost requests, removed copies and lists that take the
\* leader's cache back (secret/eventhandler.go:32-49, secret/sync.go:98-163).
RenewalArrives ==
  \A v \in 2..MaxVersions :
    (Len(secret) = v /\ secret[v] /\ \E p \in Process : seen[p] < v /\ KnownAsWanted(p))
      ~> (copy = v \/ Len(secret) # v \/ ~ \E p \in Process : KnownAsWanted(p))

\* A certificate there is, for an Ingress that asks for it, reaches the target
\* cluster when a process goes on leading: "Subsequently the generated certificate,
\* i.e. Kubernetes secret, is copied back to the target cluster."
\* (controller-manager.go:242).
CertificateArrives ==
  \A p \in Process, v \in 2..MaxVersions :
    (Len(secret) = v /\ secret[v] /\ wanted[Len(wanted)] /\ role[p] = "leading")
      ~> (copy = v \/ Len(secret) # v \/ ~ wanted[Len(wanted)] \/ role[p] # "leading")
=============================================================================
