------------------------- MODULE IngressReplication -------------------------
(***************************************************************************)
(* The ingress controller (pkg/ingress) and the cleaner (pkg/cleaner) of   *)
(* one broker process, with everything they share: the informer caches of  *)
(* both clusters, the control Ingresses they both write, the secrets they  *)
(* both delete and the IngressTemplate they both read.                     *)
(*                                                                         *)
(*   user --> target --tStream--> tCache --notify--> queue["ingress"]      *)
(*                                   |                    |                *)
(*                                   v                    v                *)
(*   cleaner <--queue["cleaner"]-- cCache <--cStream-- control --> secrets *)
(*                                                                         *)
(* A key names an Ingress of the target cluster and stands for its control *)
(* Ingress as well (module Naming: the name is reversible).  The two       *)
(* controllers process a key at most once at a time, which their workqueue *)
(* guarantees, so the state of a worker is kept with the key it works on.  *)
(***************************************************************************)
EXTENDS IngressTLS

CONSTANTS
  Key,                   \* target Ingresses, as <<namespace, name>>
  TargetTLS,             \* TLS sections users write
  Absent,                \* no such object
  Garbled,               \* what a torn read of a Go string yields
  UpdateControlIngress,  \* the update-ingress flag
  Workers,               \* Workers[a]: ingress-workers, cleanup-workers
  UserOps,               \* what users do: a subset of the names in UserOp
  MaxUserOps,            \* bound: operations of users
  MaxFaults,             \* bound: API calls whose request or answer is lost
  MaxRestarts,           \* bound: crashes of the broker
  MaxRelists             \* bound: keys a broken watch makes the informer list

\* The two controllers that act on control Ingresses.
Actor == {"ingress", "cleaner"}

ASSUME ReplicationAssumption ==
  /\ UpdateControlIngress \in BOOLEAN
  /\ Workers \in [Actor -> Nat]
  /\ {MaxUserOps, MaxFaults, MaxRestarts, MaxRelists} \subseteq Nat

\* Sections are what the API server accepts: entries of hosts and a secret name.
ASSUME SectionsAssumption ==
  \A tls \in TargetTLS : tls \in TLSSection({tls[i].secretName : i \in DOMAIN tls})

VARIABLES
  target,    \* target[k]: the Ingress in the target cluster
  tStream,   \* tStream[k]: its states the informer has yet to see, the one the
             \*   first list may still return in front
  tCache,    \* tCache[k]: its state in the informer's cache
  control,   \* control[k]: the Ingress in the control cluster
  cStream, cCache,
  rev,       \* rev[k]: the last resourceVersion given to control[k]
  secrets,   \* the certificate secrets in the control cluster
  synced,    \* synced[c]: HasSynced of the informer of cluster c
  queue,     \* queue[a]: the workqueue of controller a
  task,      \* task[a][k]: what a's worker does with key k
  template,  \* IngressTemplate.dns01Provider
  boot,      \* which process: its ingressClass and issuer settings
  withdrawn, \* history: keys a user has ever deleted or unlabelled
  used,      \* history: the TLS sections key k has had
  budget     \* the bounded events that have happened

targetVars  == <<target, tStream, withdrawn, used>>
controlVars == <<control, cStream, rev>>
cacheVars   == <<tCache, cCache, synced>>
workVars    == <<queue, task, template>>
vars == <<target, tStream, tCache, control, cStream, cCache, rev, secrets,
          synced, queue, task, template, boot, withdrawn, used, budget>>

-----------------------------------------------------------------------------
\* Objects and the workers' state.

\* The test of FilterOnIngressLables on a state of a target Ingress.
FilterOnIngressLables(ing) == ing # Absent /\ ing.managed

\* A worker's task: source is the target Ingress it read, object the control
\* Ingress it read or is about to write, todo the secrets it has yet to delete.
Idle == [pc |-> "idle", source |-> Absent, object |-> Absent, todo |-> << >>]

At(a, k, pc) == task[a][k].pc = pc
Goto(a, k, pc) == task' = [task EXCEPT ![a][k].pc = pc]

\* The workqueue.  A key in `delayed` was handed over by a handler or by
\* AddAfter and not yet added; a key in `dirty` is added and waits for a worker,
\* and for Done of the worker that has it.
Enqueue(q, a, keys) == [q EXCEPT ![a].delayed = @ \cup keys]

Working(a) == {k \in Key : ~ At(a, k, "idle")}

\* Get: a free worker takes the key, and no other worker has it.  Start runs
\* workers once WaitForCacheSync has seen both informers list.  The mutant starts
\* them at once.
TakeUnsynced(a, k) ==
  /\ k \in queue[a].dirty
  /\ At(a, k, "idle")
  /\ Cardinality(Working(a)) < Workers[a]

Take(a, k) ==
  /\ synced = [target |-> TRUE, control |-> TRUE]
  /\ k \in queue[a].dirty
  /\ At(a, k, "idle")
  /\ Cardinality(Working(a)) < Workers[a]

\* Return of the sync handler without an error; with one, for which the key is
\* queued again after the rate limiter's delay; and of the cleaner's handler
\* with true, for which it is queued again after requeuePeriod.
Finish(a, k) ==
  /\ task' = [task EXCEPT ![a][k] = Idle]
  /\ UNCHANGED queue

\* Mutant: the error is logged and the key dropped.
RequeueNever(a, k) == Finish(a, k)

Requeue(a, k) ==
  /\ task' = [task EXCEPT ![a][k] = Idle]
  /\ queue' = Enqueue(queue, a, {k})

\* Mutant: syncHandler returns false for an Ingress with a counterpart.
RecheckNever(k) == Finish("cleaner", k)

Recheck(k) == Requeue("cleaner", k)

Spend(what, max) ==
  /\ budget[what] < max
  /\ budget' = [budget EXCEPT ![what] = @ + 1]

\* An API call that took effect: the caller goes on, or misses the answer.
Answered(a, k, continue) ==
  \/ continue /\ UNCHANGED budget
  \/ Requeue(a, k) /\ Spend("faults", MaxFaults)

\* The control cluster's API server stores a new state of control Ingress k and
\* publishes it to the watch.
Store(k, state) ==
  /\ control' = [control EXCEPT ![k] = state]
  /\ cStream' = [cStream EXCEPT ![k] = Append(@, state)]

-----------------------------------------------------------------------------
\* The beginning of a process.  A crash loses everything but the clusters.

\* A process that has read nothing yet: empty listers, queues, no task.
Nothing == [k \in Key |-> Absent]
NotSynced == [target |-> FALSE, control |-> FALSE]
NoQueue == [a \in Actor |-> [delayed |-> {}, dirty |-> {}]]
NoTask == [a \in Actor |-> [k \in Key |-> Idle]]

Init ==
  /\ target = Nothing
  /\ tStream = [k \in Key |-> <<Absent>>]
  /\ control = Nothing
  /\ cStream = [k \in Key |-> <<Absent>>]
  /\ rev = [k \in Key |-> 0]
  /\ secrets = {}
  /\ boot = 1
  /\ withdrawn = {}
  /\ used = [k \in Key |-> {}]
  /\ budget = [ops |-> 0, faults |-> 0, restarts |-> 0, relists |-> 0]
  /\ tCache = Nothing
  /\ cCache = Nothing
  /\ synced = NotSynced
  /\ queue = NoQueue
  /\ task = NoTask
  /\ template = NoProvider

\* SIGKILL, OOM or a panic (HandleCrash re-panics) and a new process.  Its first
\* list may be as old as what the old process had in its cache.
Restart ==
  LET Rewind(cache, stream, c) ==
        [k \in Key |-> IF synced[c] THEN <<cache[k]>> \o stream[k] ELSE stream[k]]
  IN
  /\ Spend("restarts", MaxRestarts)
  /\ boot' = boot + 1
  /\ tStream' = Rewind(tCache, tStream, "target")
  /\ cStream' = Rewind(cCache, cStream, "control")
  /\ tCache' = Nothing
  /\ cCache' = Nothing
  /\ synced' = NotSynced
  /\ queue' = NoQueue
  /\ task' = NoTask
  /\ template' = NoProvider
  /\ UNCHANGED <<target, control, rev, secrets, withdrawn, used>>

-----------------------------------------------------------------------------
\* Users of the target cluster.

\* A user's operation leaves the Ingress in a new state and the watch delivers it.
UserOp(op, k, state) ==
  /\ op \in UserOps
  /\ Spend("ops", MaxUserOps)
  /\ target' = [target EXCEPT ![k] = state]
  /\ tStream' = [tStream EXCEPT ![k] = Append(@, state)]
  /\ used' = IF state = Absent THEN used ELSE [used EXCEPT ![k] = @ \cup {state.tls}]
  /\ withdrawn' = IF FilterOnIngressLables(target[k]) /\ ~ FilterOnIngressLables(state)
                  THEN withdrawn \cup {k} ELSE withdrawn
  /\ UNCHANGED <<controlVars, cacheVars, workVars, secrets, boot>>

Create(k) ==
  /\ target[k] = Absent
  /\ \E tls \in TargetTLS, managed \in BOOLEAN :
       UserOp("create", k, [tls |-> tls, managed |-> managed])

\* A change to a TLS section the Ingress has not had, and one back to an old one.
Edit(k) ==
  /\ target[k] # Absent
  /\ \E tls \in TargetTLS \ used[k] : UserOp("edit", k, [target[k] EXCEPT !.tls = tls])

Revert(k) ==
  /\ target[k] # Absent
  /\ \E tls \in used[k] \ {target[k].tls} :
       UserOp("revert", k, [target[k] EXCEPT !.tls = tls])

Label(k) ==
  /\ target[k] # Absent
  /\ ~ target[k].managed
  /\ UserOp("label", k, [target[k] EXCEPT !.managed = TRUE])

Unlabel(k) ==
  /\ FilterOnIngressLables(target[k])
  /\ UserOp("unlabel", k, [target[k] EXCEPT !.managed = FALSE])

Delete(k) ==
  /\ target[k] # Absent
  /\ UserOp("delete", k, Absent)

-----------------------------------------------------------------------------
\* The informers: cache and handlers.

\* Mutant: no OnUpdate for an Ingress that stays managed.
NotifiesNoEdit(old, new, listed) ==
  \/ ~ FilterOnIngressLables(old) /\ FilterOnIngressLables(new)
  \/ FilterOnIngressLables(old) /\ new # Absent /\ ~ new.managed
  \/ FilterOnIngressLables(old) /\ new = Absent /\ ~ listed

\* Whether the ingress controller's handlers queue the key when its Ingress goes
\* from old to new in the cache.  FilteringResourceEventHandler turns a change
\* of the label into OnAdd and OnDelete; OnUpdate drops equal TLS sections; the
\* tombstone of a deletion that a list revealed does not pass the filter.
Notifies(old, new, listed) ==
  \/ ~ FilterOnIngressLables(old) /\ FilterOnIngressLables(new)
  \/ FilterOnIngressLables(old) /\ FilterOnIngressLables(new) /\ old.tls # new.tls
  \/ FilterOnIngressLables(old) /\ new # Absent /\ ~ new.managed
  \/ FilterOnIngressLables(old) /\ new = Absent /\ ~ listed

\* A choice of a state in the stream of every one of the keys.
Positions(stream, keys) ==
  {pos \in [keys -> UNION {DOMAIN stream[k] : k \in keys}] :
     \A k \in keys : pos[k] \in DOMAIN stream[k]}

\* What a cache holds, and what is left of a stream, once the informer has come
\* to state number pos[k] of every key that pos is about.
Seen(cache, stream, pos) ==
  [k \in Key |-> IF k \in DOMAIN pos THEN stream[k][pos[k]] ELSE cache[k]]
Unseen(stream, pos) ==
  [k \in Key |-> IF k \in DOMAIN pos
                 THEN SubSeq(stream[k], pos[k] + 1, Len(stream[k])) ELSE stream[k]]

SeeTarget(pos, listed) ==
  LET new == Seen(tCache, tStream, pos) IN
  /\ tCache' = new
  /\ tStream' = Unseen(tStream, pos)
  /\ queue' = Enqueue(queue, "ingress",
                      {k \in Key : Notifies(tCache[k], new[k], listed)})
  /\ UNCHANGED <<target, withdrawn, used, controlVars, cCache, task, template,
                 secrets, boot>>

\* The cleaner's OnAdd queues the key; its OnUpdate and OnDelete are empty.
SeeControl(pos) ==
  LET new == Seen(cCache, cStream, pos) IN
  /\ cCache' = new
  /\ cStream' = Unseen(cStream, pos)
  /\ queue' = Enqueue(queue, "cleaner",
                      {k \in Key : cCache[k] = Absent /\ new[k] # Absent})
  /\ UNCHANGED <<targetVars, control, rev, tCache, task, template, secrets, boot>>

\* The first list of a process, all keys at once; HasSynced from then on.
ListTarget ==
  /\ ~ synced.target
  /\ synced' = [synced EXCEPT !.target = TRUE]
  /\ \E pos \in Positions(tStream, Key) : SeeTarget(pos, TRUE)
  /\ UNCHANGED budget

ListControl ==
  /\ ~ synced.control
  /\ synced' = [synced EXCEPT !.control = TRUE]
  /\ \E pos \in Positions(cStream, Key) : SeeControl(pos)
  /\ UNCHANGED budget

\* The watch delivers one event.
WatchTarget(k) ==
  /\ synced.target
  /\ tStream[k] # << >>
  /\ SeeTarget([i \in {k} |-> 1], FALSE)
  /\ UNCHANGED <<synced, budget>>

WatchControl(k) ==
  /\ synced.control
  /\ cStream[k] # << >>
  /\ SeeControl([i \in {k} |-> 1])
  /\ UNCHANGED <<synced, budget>>

\* The watch broke and a new list skips events of the key.
RelistTarget(k) ==
  /\ synced.target
  /\ Spend("relists", MaxRelists)
  /\ \E pos \in Positions(tStream, {k}) : SeeTarget(pos, TRUE)
  /\ UNCHANGED synced

RelistControl(k) ==
  /\ synced.control
  /\ Spend("relists", MaxRelists)
  /\ \E pos \in Positions(cStream, {k}) : SeeControl(pos)
  /\ UNCHANGED synced

\* The handler, or the delaying queue when the delay is over, adds the key.
Add(a, k) ==
  /\ k \in queue[a].delayed
  /\ queue' = [queue EXCEPT ![a].delayed = @ \ {k}, ![a].dirty = @ \cup {k}]
  /\ UNCHANGED <<targetVars, controlVars, cacheVars, task, template, secrets,
                 boot, budget>>

-----------------------------------------------------------------------------
\* A worker of the ingress controller.

\* Get, and the read of the target lister.
SyncStart(k) ==
  /\ Take("ingress", k)
  /\ queue' = [queue EXCEPT !.ingress.dirty = @ \ {k}]
  /\ task' = [task EXCEPT !.ingress[k] =
                [Idle EXCEPT !.pc = "lookup", !.source = tCache[k]]]
  /\ UNCHANGED <<targetVars, controlVars, cacheVars, template, secrets, boot, budget>>

\* updateIngress: the copy of the cached object with the new section and its
\* provider.  One mutant leaves the provider's annotation as it is, the other
\* appends the new section to the old one.
WithTLSOnly(object, tls, provider) == [object EXCEPT !.tls = tls]
WithTLSAppended(object, tls, provider) ==
  [object EXCEPT !.tls = @ \o tls, !.provider = provider]
WithTLS(object, tls, provider) == [object EXCEPT !.tls = tls, !.provider = provider]

\* The read of the control lister for a target that is gone.
LookupOrphan(k) ==
  /\ At("ingress", k, "lookup")
  /\ task.ingress[k].source = Absent
  /\ IF cCache[k] = Absent
     THEN Finish("ingress", k)
     ELSE /\ task' = [task EXCEPT !.ingress[k] =
                        [Idle EXCEPT !.pc = "delete", !.object = cCache[k]]]
          /\ UNCHANGED queue
  /\ UNCHANGED <<targetVars, controlVars, cacheVars, template, secrets, boot, budget>>

\* The same read for a target that exists, and what Sync computes from both.
\* A control Ingress with the same section is "already synced"; a target
\* without managed hosts gets none.
Lookup(k) ==
  /\ At("ingress", k, "lookup")
  /\ task.ingress[k].source # Absent
  /\ LET source == task.ingress[k].source IN
     \E copy \in CopyTLS(source.tls) :
       LET tls == PrefixWithNamespace(copy.tls, k[1])
           next(pc, object) ==
             /\ task' = [task EXCEPT !.ingress[k] =
                           [Idle EXCEPT !.pc = pc, !.object = object]]
             /\ UNCHANGED queue
       IN \/ /\ cCache[k] = Absent
             /\ IF tls = << >>
                THEN Finish("ingress", k)
                ELSE next("write", [tls |-> tls, provider |-> copy.provider,
                                    settings |-> boot, rv |-> 0])
          \/ /\ cCache[k] # Absent
             /\ IF DeepEqual(source.tls, cCache[k].tls, k[1])
                THEN Finish("ingress", k)
                ELSE next("update", WithTLS(cCache[k], tls, copy.provider))
  /\ UNCHANGED <<targetVars, controlVars, cacheVars, template, secrets, boot, budget>>

\* t.dns01Provider is written and read by every worker without a lock.  What an
\* access yields while another worker is at its write of a different string
\* may be a mix of the two.
Torn(others, provider) ==
  {Garbled : j \in {i \in others : /\ At("ingress", i, "write")
                                   /\ task.ingress[i].object.provider # provider}}

SetProvider(k) ==
  /\ At("ingress", k, "write")
  /\ LET provider == task.ingress[k].object.provider IN
     template' \in {provider} \cup Torn(Key \ {k}, provider)
  /\ Goto("ingress", k, "render")
  /\ UNCHANGED <<targetVars, controlVars, cacheVars, queue, secrets, boot, budget>>

\* CreateIngressAnnotations
Render(k) ==
  /\ At("ingress", k, "render")
  /\ \E provider \in {template} \cup Torn(Key \ {k}, template) :
       task' = [task EXCEPT !.ingress[k].pc = "create",
                            !.ingress[k].object.provider = provider]
  /\ UNCHANGED <<targetVars, controlVars, cacheVars, queue, template, secrets,
                 boot, budget>>

\* Ingresses().Create: refused when the control Ingress exists.
CreateIngress(k) ==
  /\ At("ingress", k, "create")
  /\ \/ /\ control[k] = Absent
        /\ rev' = [rev EXCEPT ![k] = @ + 1]
        /\ Store(k, [task.ingress[k].object EXCEPT !.rv = rev[k] + 1])
        /\ Answered("ingress", k, Finish("ingress", k))
     \/ /\ control[k] # Absent
        /\ Requeue("ingress", k)
        /\ UNCHANGED <<controlVars, budget>>
  /\ UNCHANGED <<targetVars, cacheVars, template, secrets, boot>>

\* Optimistic concurrency of the API server.  The mutant sends no resourceVersion.
IsCurrentUnversioned(k, object) == control[k] # Absent
IsCurrent(k, object) == control[k] # Absent /\ object.rv = control[k].rv

\* Ingresses().Update of the object a cached one was copied to: refused unless
\* the control Ingress still has that resourceVersion; one that changes nothing
\* gets no new version.
UpdateIngress(a, k) ==
  LET object == task[a][k].object IN
  /\ At(a, k, "update")
  /\ \/ /\ IsCurrent(k, object)
        /\ IF object = control[k]
           THEN UNCHANGED controlVars
           ELSE /\ rev' = [rev EXCEPT ![k] = @ + 1]
                /\ Store(k, [object EXCEPT !.rv = rev[k] + 1])
        /\ Answered(a, k, IF a = "ingress" THEN Finish(a, k) ELSE Recheck(k))
     \/ /\ ~ IsCurrent(k, object)
        /\ Requeue(a, k)
        /\ UNCHANGED <<controlVars, budget>>
  /\ UNCHANGED <<targetVars, cacheVars, template, secrets, boot>>

SyncUpdate(k) == UpdateIngress("ingress", k)

-----------------------------------------------------------------------------
\* CleanUpIngressAndTLSSecrets, which both controllers call.

\* Mutants: the first secret only; the names of the target cluster.
FirstSecretName(tls) == [i \in DOMAIN tls \cap {1} |-> tls[i].secretName]
TargetSecretNames(tls) == [i \in DOMAIN tls |-> tls[i].secretName[2]]

SecretNames(tls) == [i \in DOMAIN tls |-> tls[i].secretName]

\* The Ingress goes first, by name: whatever now has that name is deleted, and
\* that it is gone already is no error.
DeleteIngress(a, k) ==
  LET todo == SecretNames(task[a][k].object.tls)
      continue == IF todo = << >> THEN Finish(a, k)
                  ELSE /\ task' = [task EXCEPT ![a][k] =
                                     [Idle EXCEPT !.pc = "secrets", !.todo = todo]]
                       /\ UNCHANGED queue
  IN
  /\ At(a, k, "delete")
  /\ IF control[k] = Absent THEN UNCHANGED <<control, cStream>> ELSE Store(k, Absent)
  /\ Answered(a, k, continue)
  /\ UNCHANGED <<targetVars, rev, cacheVars, template, secrets, boot>>

\* Then every secret its TLS section names, in order.
DeleteSecret(a, k) ==
  LET todo == task[a][k].todo
      continue == IF Len(todo) = 1 THEN Finish(a, k)
                  ELSE /\ task' = [task EXCEPT ![a][k].todo = Tail(@)]
                       /\ UNCHANGED queue
  IN
  /\ At(a, k, "secrets")
  /\ secrets' = secrets \ {Head(todo)}
  /\ Answered(a, k, continue)
  /\ UNCHANGED <<targetVars, controlVars, cacheVars, template, boot>>

\* An API call that fails before it takes effect.
LoseRequest(a, k) ==
  /\ task[a][k].pc \in {"create", "update", "delete", "secrets"}
  /\ Requeue(a, k)
  /\ Spend("faults", MaxFaults)
  /\ UNCHANGED <<targetVars, controlVars, cacheVars, template, secrets, boot>>

-----------------------------------------------------------------------------
\* A worker of the cleaner.

\* Get, and the read of the control lister: a control Ingress that is gone is
\* not looked at again.
CleanerStart(k) ==
  /\ Take("cleaner", k)
  /\ queue' = [queue EXCEPT !.cleaner.dirty = @ \ {k}]
  /\ task' = IF cCache[k] = Absent THEN task
             ELSE [task EXCEPT !.cleaner[k] =
                     [Idle EXCEPT !.pc = "check", !.object = cCache[k]]]
  /\ UNCHANGED <<targetVars, controlVars, cacheVars, template, secrets, boot, budget>>

\* What the read of the target lister finds.  The mutant forgets the label.
HasCounterpartOfAnyKind(k) == tCache[k] # Absent
HasCounterpart(k) == FilterOnIngressLables(tCache[k])

\* It finds no managed target: clean up.
FindOrphan(k) ==
  /\ At("cleaner", k, "check")
  /\ ~ HasCounterpart(k)
  /\ Goto("cleaner", k, "delete")
  /\ UNCHANGED <<targetVars, controlVars, cacheVars, queue, template, secrets,
                 boot, budget>>

\* It finds one: with update-ingress the annotations are brought up to date,
\* the provider only when the template has one.
FindCounterpart(k) ==
  /\ At("cleaner", k, "check")
  /\ HasCounterpart(k)
  /\ IF UpdateControlIngress
     THEN /\ \E provider \in {template} \cup Torn(Key, template) :
               task' = [task EXCEPT
                 !.cleaner[k].pc = "update",
                 !.cleaner[k].object.settings = boot,
                 !.cleaner[k].object.provider =
                   IF provider = NoProvider THEN @ ELSE provider]
          /\ UNCHANGED queue
     ELSE Recheck(k)
  /\ UNCHANGED <<targetVars, controlVars, cacheVars, template, secrets, boot, budget>>

CleanerUpdate(k) == UpdateIngress("cleaner", k)

-----------------------------------------------------------------------------
\* cert-manager: for every secret a control Ingress names it obtains a
\* certificate and stores it, and no other.
Issue(k) ==
  /\ control[k] # Absent
  /\ \E i \in DOMAIN control[k].tls :
       /\ control[k].tls[i].secretName \notin secrets
       /\ secrets' = secrets \cup {control[k].tls[i].secretName}
  /\ UNCHANGED <<targetVars, controlVars, cacheVars, workVars, boot, budget>>

-----------------------------------------------------------------------------
SyncStep(k) ==
  \/ LookupOrphan(k)
  \/ Lookup(k)
  \/ SetProvider(k)
  \/ Render(k)
  \/ CreateIngress(k)
  \/ SyncUpdate(k)
  \/ DeleteIngress("ingress", k)
  \/ DeleteSecret("ingress", k)

CleanerStep(k) ==
  \/ FindOrphan(k)
  \/ FindCounterpart(k)
  \/ CleanerUpdate(k)
  \/ DeleteIngress("cleaner", k)
  \/ DeleteSecret("cleaner", k)

User(k) ==
  \/ Create(k)
  \/ Edit(k)
  \/ Revert(k)
  \/ Label(k)
  \/ Unlabel(k)
  \/ Delete(k)

Informers(k) ==
  \/ WatchTarget(k)
  \/ WatchControl(k)
  \/ RelistTarget(k)
  \/ RelistControl(k)

Next ==
  \/ Restart
  \/ ListTarget
  \/ ListControl
  \/ \E k \in Key :
       \/ User(k)
       \/ Informers(k)
       \/ SyncStart(k)
       \/ SyncStep(k)
       \/ CleanerStart(k)
       \/ CleanerStep(k)
       \/ Issue(k)
       \/ \E a \in Actor : Add(a, k) \/ LoseRequest(a, k)

Spec == Init /\ [][Next]_vars

\* The informers list and watch, timers fire, workers run, and the queue is
\* first in first out, so a key that keeps being ready is taken.  Nothing is
\* assumed of users, faults, crashes and broken watches.
Fairness ==
  /\ WF_vars(ListTarget)
  /\ WF_vars(ListControl)
  /\ \A k \in Key :
       /\ WF_vars(WatchTarget(k))
       /\ WF_vars(WatchControl(k))
       /\ \A a \in Actor : WF_vars(Add(a, k))
       /\ SF_vars(SyncStart(k))
       /\ SF_vars(CleanerStart(k))
       /\ WF_vars(SyncStep(k))
       /\ WF_vars(CleanerStep(k))
       /\ WF_vars(Issue(k))

FairSpec == Spec /\ Fairness

-----------------------------------------------------------------------------
\* Types.

TargetState == {Absent} \cup [tls : TargetTLS, managed : BOOLEAN]

\* The TLS sections the broker can give a control Ingress, and their secrets.
ControlTLS ==
  {PrefixWithNamespace(copy.tls, k[1]) :
     copy \in UNION {CopyTLS(tls) : tls \in TargetTLS}, k \in Key}
ControlSecret == UNION {{tls[i].secretName : i \in DOMAIN tls} : tls \in ControlTLS}

ControlIngress ==
  [tls : ControlTLS, provider : Provider \cup {NoProvider, Garbled},
   settings : Nat, rv : Nat]
ControlState == {Absent} \cup ControlIngress

ASSUME AbsentAssumption == Absent \notin ControlIngress

\* What a worker holds at each place of its handler.
TaskState ==
  [pc : {"idle", "lookup", "write", "render", "create", "check", "update", "delete", "secrets"},
   source : TargetState, object : ControlState, todo : Seq(ControlSecret)]

TypeOK ==
  /\ target \in [Key -> TargetState]
  /\ tStream \in [Key -> Seq(TargetState)]
  /\ tCache \in [Key -> TargetState]
  /\ control \in [Key -> ControlState]
  /\ cStream \in [Key -> Seq(ControlState)]
  /\ cCache \in [Key -> ControlState]
  /\ task \in [Actor -> [Key -> TaskState]]
  /\ rev \in [Key -> Nat]
  /\ secrets \subseteq ControlSecret
  /\ synced \in [target : BOOLEAN, control : BOOLEAN]
  /\ queue \in [Actor -> [delayed : SUBSET Key, dirty : SUBSET Key]]
  /\ template \in Provider \cup {NoProvider, Garbled}
  /\ boot \in Nat \ {0}
  /\ withdrawn \subseteq Key
  /\ used \in [Key -> SUBSET TargetTLS]
  /\ budget \in [ops : 0..MaxUserOps, faults : 0..MaxFaults,
                 restarts : 0..MaxRestarts, relists : 0..MaxRelists]

-----------------------------------------------------------------------------
\* Safety.

\* The cleaner deletes control Ingresses "which don't have a counterpart in the
\* target cluster" (cleaner/controller.go:71), and Sync those whose target is
\* gone: no step deletes the control Ingress of a target that no user has ever
\* deleted or unlabelled, however stale the caches are and also while a new
\* process fills them.  Lists may be old (reflector.go:175), but here none is older
\* than what the process, or the one before it, has seen.
NeverDropsManaged ==
  [][\A k \in Key : control[k] # Absent /\ control'[k] = Absent => k \in withdrawn]_vars

\* Both controllers update the same object from a cached copy of it
\* (ingress/sync.go:184, cleaner/controller.go:205).  The cleaner's update never
\* takes back a TLS section, and the ingress controller's never takes back the
\* settings the cleaner renewed: a write of a stale copy is refused.  The provider,
\* which both of them write, is left to ProviderMatches.
UpdatesKeepTheOthersWork ==
  [][\A k \in Key : control[k] # Absent /\ control'[k] \notin {Absent, control[k]} =>
       /\ At("cleaner", k, "update") /\ task'.cleaner[k] # task.cleaner[k]
            => control'[k].tls = control[k].tls
       /\ At("ingress", k, "update") /\ task'.ingress[k] # task.ingress[k]
            => control'[k].settings = control[k].settings]_vars

\* The cleaner's OnUpdate and OnDelete are empty, so a control Ingress is looked
\* at only as long as its key goes round in the queue (cleaner/controller.go:147
\* and 158).  Every control Ingress is in that round, or its OnAdd is still
\* ahead: in the first list or in the stream, behind the deletion of another.
CleanerTracks ==
  \A k \in Key : control[k] # Absent =>
    \/ ~ synced.control
    \/ k \in queue.cleaner.delayed \cup queue.cleaner.dirty
    \/ task.cleaner[k].pc \in {"check", "update", "delete"}
    \/ \E i \in 1..Len(cStream[k]) :
         /\ cStream[k][i] # Absent
         /\ IF i = 1 THEN cCache[k] = Absent ELSE cStream[k][i - 1] = Absent

\* "CreateControlIngress creates an Ingress object which includes the given
\* name, namespace and TLS info.  Further settings which are necessary for the
\* control cluster are set by this method" (controller-helper.go:70): the DNS01
\* provider a control Ingress asks for is one that copyTLS finds for its hosts.
ProviderMatches ==
  \A k \in Key : control[k] # Absent =>
    \E copy \in CopyTLS(control[k].tls) : control[k].provider = copy.provider

\* The sections a copy of section tls for key k may be, and what is there to see
\* of the control Ingresses.
Copies ==
  [k \in Key |-> [tls \in TargetTLS |->
     {PrefixWithNamespace(copy.tls, k[1]) : copy \in CopyTLS(tls)}]]
ShownCopies == [k \in Key |-> IF control[k] = Absent THEN {} ELSE {control[k].tls}]

Promise == INSTANCE Replication WITH
  Section <- TargetTLS, Copies <- Copies, Empty <- << >>, copies <- ShownCopies

\* "Cert-Broker triggers certificate management for Ingress resouces by copying
\* them from a plain cluster (target cluster) to another cluster"
\* (controller-manager.go:241).  Whatever the two controllers read too early or
\* too late: a control Ingress holds a copy of a section of its own target, and
\* only of a target that a user has withdrawn do they delete the control Ingress
\* and secrets, those that some section of it named.
IsReplication == Promise!Spec

-----------------------------------------------------------------------------
\* Liveness, under FairSpec.

\* A control Ingress without a managed target does not stay: it is deleted, or
\* its target is back (cleaner/controller.go:184-195, ingress/sync.go:121).
Orphan(k) == control[k] # Absent /\ ~ FilterOnIngressLables(target[k])
OrphansAreRemoved == \A k \in Key : Orphan(k) ~> ~ Orphan(k)

\* "Cert-Broker triggers certificate management for Ingress resouces by copying
\* them from a plain cluster (target cluster) to another cluster"
\* (controller-manager.go:241): the control Ingress of a managed target whose
\* section has something to copy comes to hold that section, prefixed.
InStep(k) ==
  FilterOnIngressLables(target[k]) =>
    \E copy \in CopyTLS(target[k].tls) :
      \/ copy.tls = << >>
      \/ control[k] # Absent /\ control[k].tls = PrefixWithNamespace(copy.tls, k[1])
ManagedAreReplicated == \A k \in Key : ~ InStep(k) ~> InStep(k)

\* "CleanUpIngressAndTLSSecrets deletes the given Ingress as well as it's
\* configured Secrets" (controller-helper.go:94): a certificate secret that no
\* control Ingress names any more does not stay.
Leaked(secret) ==
  /\ secret \in secrets
  /\ \A k \in Key : control[k] = Absent
                    \/ \A i \in DOMAIN control[k].tls : control[k].tls[i].secretName # secret
SecretsAreRemoved == \A secret \in ControlSecret : Leaked(secret) ~> ~ Leaked(secret)

\* "Determins whether existing Ingress resources in the control cluster should
\* be updated.  Needed if issuer information has changed." (options.go:64): with
\* update-ingress a control Ingress of an earlier process gets the settings of
\* the current one.
Outdated(k) == control[k] # Absent /\ control[k].settings # boot
SettingsAreRenewed == \A k \in Key : Outdated(k) ~> ~ Outdated(k)
=============================================================================
