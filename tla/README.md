# A TLA+ model of cert-broker

cert-broker runs beside a Gardener control plane.  It watches the Ingresses of a
*target cluster*, copies the TLS section of those that carry the label
`garden.sapcloud.io/purpose: managed-cert` into Ingresses of a *control
cluster*, where cert-manager obtains certificates for them, and carries the
certificate secrets and the events back.  This directory models the program in
TLA+, checks the models with TLC on small instances and proves theorems about
them with TLAPS.

Line numbers refer to the files below `src/`; `PROJECT.json` maps every
definition to the lines it stands for.

## 1. Inventory

| component | source | state it keeps | operations |
|---|---|---|---|
| naming and filters | `pkg/utils/naming.go`, `controller-helper.go:121` | none | `CreateNameForControlCluster`, `SplitNamespace`, `FilterMethod`, `FilterOnIngressLables` |
| TLS copying | `pkg/ingress/sync.go:196-242` | none | `copyTLS`, `prefixWithNamespace`, `deepEqual` |
| ingress controller | `pkg/ingress` | a workqueue of target keys; the shared `IngressTemplate.dns01Provider` | event handlers, `Sync`: create, update, clean up |
| cleaner | `pkg/cleaner` | a workqueue of control keys | `OnAdd`, `syncHandler`, requeue after an hour, `CleanUpIngressAndTLSSecrets`, `update-ingress` |
| secret controller | `pkg/secret` | a workqueue of control secrets | handlers, `Sync`: copy a secret to the target cluster |
| event controller | `pkg/events` | a workqueue of control events, a count annotation on each event | handlers, `Sync`: replay an event, write the count |
| worker pool | `pkg/common/controller.go`, its copy in `pkg/cleaner/controller.go`, `client-go/util/workqueue` | queue, dirty and processing sets, delayed items, worker goroutines, a WaitGroup | `Add`, `AddAfter`, `Get`, `Done`, `ShutDown`, `Start` |
| informers | `client-go/tools/cache` | a cache per kind, filled by list and watch | list, watch, relist, handler calls |
| process | `main.go`, `cmd/` | stop channel, leader's lease, WaitGroup | start, signals, leader election |

**How they interact.**  One process runs four controllers side by side.  They
share the informers (two factories, one per cluster), hence the listers of the
target Ingresses (all four) and of the control Ingresses (ingress controller and
cleaner).  The ingress controller and the cleaner both write and delete the same
control Ingresses and the same secrets, and both read the one
`IngressTemplate`.  There is no lock in the broker's own code: mutual exclusion
is the workqueue's (one worker per key *of one controller*), and concurrency
between controllers is left to the API server's `resourceVersion`.  External
actors are users of the target cluster, cert-manager, and both API servers.

**What is hard.**  Decisions are made on caches that lag behind; the two
controllers interleave between a read of a cache and a write; the cleaner is
called for additions only and must keep every key in its queue by itself; a
broken watch turns deletions into tombstones and merges events; a crash loses
queues and timers; an API call may fail before or after it took effect; a clean-up
has several steps and the first one destroys the memory of the others; the
template is written by all workers without a lock; Go's map order decides among
overlapping domains.  A certificate or an event is copied from a cache of one
cluster on the word of a cache of the other.  Replicas take over by a lease that
each measures with its own clock, requests that were given up may still take
effect, and the old leader's workers finish their queues beside the new one's.

**What makes them correct.**
naming: reversible, no clashes.  TLS: one provider for all hosts, settles after
one write.  Ingress controller: managed targets are replicated with the right
provider.  Cleaner: orphans go, managed ones stay, nothing drops out of its
round.  Both: no update undoes the other's, no secret is leaked.  Worker pool: one
worker per key, nothing lost, no lost wake-up, drained when `Start` returns.
Secret controller: a renewal arrives, and no process puts an older certificate
over its newer one unless a list has taken its cache back.  Event controller: each occurrence it sees is replayed, the
annotation never says more than that, and the controller does not keep itself
busy.  Process: one leader, another one when it is gone, and an end.

## 2. Modules

| module | what it is |
|---|---|
| `Naming` | names as sequences of labels; the four operators on them |
| `IngressTLS` | `copyTLS` as the *set* of its results over all map orders, `deepEqual` |
| `IngressTLSProofs` | lemmas about it, for sections of any length |
| `Convention` | every pair of names and every TLS section, with the nested loops of `copyTLS` run step by step; EXTENDS `Naming` and `IngressTLS` |
| `MCConvention` | hosts, domains and providers for its run |
| `ConventionProofs` | theorems about it |
| `KeyQueue` | abstract: what a controller may rely on, a set of keys each with one worker |
| `WorkerPool` | the machine under every controller: workqueue, workers, `Start`, shutdown; implements `KeyQueue` |
| `WorkerPoolProofs` | theorems about it, the refinement included |
| `Replication` | abstract: what the two controllers promise the users of the target cluster |
| `IngressReplication` | ingress controller and cleaner of one process, with informers, API servers, users, cert-manager, crashes and faults; EXTENDS `IngressTLS`, implements `Replication` |
| `MCIngressReplication` | hosts, domains, providers and TLS sections for its runs |
| `IngressReplicationProofs` | theorems about it: types, what is not dropped, concurrent updates |
| `ControlIngressProofs` | what becomes of the control Ingresses: the refinement of `Replication`, their provider, the cleaner's round; EXTENDS `IngressReplicationProofs` |
| `Succession` | abstract: what leader election promises, at most one leader beside processes that drain |
| `LeaderElection` | the elector, its record and its clocks, signals, crashes and the end of a process; implements `Succession` |
| `LeaderElectionProofs` | theorems about it, the refinement included |
| `SecretReplication` | the secret controller of several processes; its processes come and go by the actions of `Succession` |
| `SecretReplicationProofs` | theorems about it |
| `EventPropagation` | the event controller of a process that crashes and starts again |
| `EventPropagationProofs` | theorems about it |

How they compose: `WorkerPool` implements `KeyQueue`, so the modules of the
controllers model a queue by the keys that wait and the task a key has.
`LeaderElection` implements `Succession`, and `SecretReplication` takes its
`Roles!Start`, `Roles!Stop` and `Roles!End` from there: what it shows of two
processes that overlap holds of what leader election lets happen.
`IngressReplication` gets the conversion of TLS sections from `IngressTLS`, and that
of names from `Naming`, as an identity of keys that `ConventionProofs` justifies.
That `IngressTLS` is what the loops of `copyTLS` compute is shown in `Convention`.

Definitions named "mutant" in a comment are plausible bugs of the definition
below them.  They take no part in the specification; `PROJECT.json` pairs each
with a property it breaks.

### Convention and the code

* A state is an input, two resources or a TLS section, and how far `copyTLS` has got
  with it.  Sections grow by an entry or a host at a time.
* `Call` to `Return` are the loops of `copyTLS`.  `place` is the entry and the host at
  which they are; `foundProvider`, `copiedHosts` and `copiedTLS` are the variables of
  the function.
* Go fixes no order for a range over the domain map, and each of them is left at the first
  domain that matches.  `order` holds that domain for each host that has one; `Call` chooses all
  of them at once, which no step can tell from one choice per range.
* `CopyWith(tls, order)` says without loops what they return.  `CopyTLS(tls)`, the set of it
  over all orders, is what `IngressReplication` calls.

### WorkerPool and the code

`queue`, `dirty`, `processing` and `shuttingDown` are the fields of
`workqueue.Type`; `delayed` is the heap of `delayingType` together with the
channel in front of it.  The queue's mutex makes `Add`, `Done`, `Get` and
`ShutDown` single steps; `cond.Wait` is the worker state `asleep`, `cond.Signal`
the operator `Signal`, which wakes any one sleeper.  The rate limiter's delay and
the cleaner's `requeuePeriod` are any delay: `Ready` may happen at any time
before the shutdown.  A worker goroutine is launched, may find `stopCh` closed
before `wait.Until` ever calls `runWorker` (`skipped`), takes items, and ends
when `Get` reports the shutdown.  The common controller requeues a failed item
after `Done`, the cleaner requeues before it; both ways are actions.

### IngressReplication and the code

* An object is a record of what decisions depend on: a target Ingress is its TLS
  section and its label; a control Ingress its section, its provider annotation,
  the process whose issuer, challenge type and class it carries (`settings`) and
  its `resourceVersion`.
* A key is one Ingress name of the target cluster.  The control cluster's name is
  the same key: `Naming` shows (and proves) that the conversion is reversible.
  A control secret is the pair of namespace and target name for the same reason.
* Each API server's history of a key is a stream (`tStream`, `cStream`) of states
  the informer has yet to see.  The first list of a process picks any position
  in the streams of all keys, a watch event the next one, a relist any later one,
  so it can skip states: deletions then arrive as tombstones and a deletion and
  creation as one update.  `Notifies` and `SeeControl` are the handlers with their
  filters.  The 30 s resync is no action: it delivers updates with equal
  sections, which both handlers drop.
* `queue[a].delayed` holds keys a handler or `AddAfter` has handed over, and
  `dirty` those that are added.  That a key has one worker at a time is what
  `WorkerPool` establishes, so the state of a worker is `task[a][k]`.
* A worker stops between any two reads or calls that others can interleave with:
  the read of the target lister, of the control lister, the write and the read of
  the template, each API call.  An API call succeeds, is refused (AlreadyExists,
  Conflict), is lost before it took effect (`LoseRequest`) or has its answer lost
  (`Answered`).
* `template` is `dns01Provider`; an access while another worker is at its write of a
  different string may yield `Garbled`, a mix of pointer and length.
* `Restart` keeps the clusters and drops the rest.  The new process's first list
  may be as old as the old process's cache, as a list from the API server's watch
  cache may be.
* Secrets are created by `Issue` (cert-manager) and deleted by the clean-up.

Left out: the Kubernetes events `Sync` records for users (best effort, no one
reads them in these controllers), logging, label and owner-reference fields that
no decision reads.

### LeaderElection and the code

* Time is counted in ticks.  `lockAge`, `seen[p].age`, `timer[p]` and `left[p]` are the
  ages and the deadlines that the code computes from clocks; `Tick` moves all of
  them.  A process does what is due before the next tick.  `lockAge` and
  `seen[p].age` stop at `LeaseDuration`, which is all that is asked of them.
* The record in the ConfigMap is `holder` and its age; its `resourceVersion` is the
  mark `current` on every copy of it, which a write takes from all of them (`Outdate`).
* `tryAcquireOrRenew` is three steps: `Get` with the test of identity and time, `Update`
  (or the creation of the record) when it takes effect, and `Answer`.  Between them
  anything may happen, and a leader that gives up leaves its request behind: it may
  take effect later.
* `acquire` looks at its context between two tries only; `renew` gives each round
  `RenewDeadline`.  An answer of the round gives a leader `RetryPeriod` until the next
  one begins, hence `left = RetryPeriod + RenewDeadline`.
* `Launch` is the callback `run`, a goroutine of its own that no one waits for:
  `Exit`, which is `controllerWg.Wait`, may come before it.
* A restarted process takes its host name again, and its record as its own.

### SecretReplication and the code

* One secret, in the control cluster a sequence of states, and one Ingress (or none)
  that names it.  A cache is the position a process has got to: a list or a watch
  moves it on by any number of states, so states may be skipped (`ObserveSecret`,
  `ObserveIngress`).
* A reflector that lists again asks for `ResourceVersion` 0, which an API server may
  answer from a cache that lags behind (`reflector.go:172-175`).  `RelistSecret` and
  `RelistIngress` take a cache back to an earlier state; `MaxFaults` bounds them together with
  the lost requests.
* `SyncStart` reads the secret, `ListIngresses` the Ingresses, `Create` and `Update` are
  the two API calls.  `GetInformerSyncs` has the secret informer alone, so
  `ListIngresses` may find a cache without its list (`listed[p] = 0`).
* `copy` is the version of the certificate in the target cluster, `writer` the
  process that put it there, as long as that run of it lasts and no list has taken
  its cache of secrets back since it read the certificate.  `current` in a task says the
  same of what its worker has read.  Both are history variables.

### EventPropagation and the code

* One event, one Certificate and one Ingress, each a sequence of states.  A state of
  the event is its `Count` and the annotation `mark`; its position is its
  `resourceVersion`.
* `replayed` is the set of counts that the recorder of the target cluster got.  It is
  a history variable; nothing reads it.
* The queue has up to two entries for a key, one delayed by the rate limiter and one
  that is due (`KeyQueue`).
* `ReadEvent`, `Replay` and `Mark` are the places at which `Sync` can be interleaved with:
  the read of the event, the reads of Certificate and Ingress with the call of the
  recorder, and the update of the annotation.

## 3. Runs

| run | instance | shows |
|---|---|---|
| `convention` | three labels, names up to three labels, all pairs; four hosts (one ends in two domains of different providers, one in none), sections within `MaxEntries`, `MaxHosts` | names are reversible and do not clash; the filter passes what lives in the watched namespace, whatever namespace its target is in; the loops of `copyTLS` return what `CopyWith` says, one provider, when a write settles |
| `pool` | 3 keys, 2 workers, unbounded additions, stop at any time | six invariants, the refinement `IsKeyQueue` and both liveness properties |
| `replication_replicated` | 1 key, sections with all, some and no managed hosts; create, edit, label; 1 fault, 1 crash, 1 relist, `update-ingress` | `ManagedAreReplicated`, `NeverDropsManaged`, `UpdatesKeepTheOthersWork` |
| `replication_orphans` | 1 key, create, label, unlabel, delete (3 of them; one section, so no edits), 1 fault, 1 crash, `update-ingress` | types, `CleanerTracks`, `OrphansAreRemoved`, `SettingsAreRenewed` |
| `replication_secrets` | 2 keys with different providers that share two secrets, one ingress worker; create, edit, revert, unlabel, delete | `ProviderMatches`, `SecretsAreRemoved`, the refinement `IsReplication` |
| `provider_race` | 2 keys, two ingress workers | `ProviderMatches` is violated: the shortest trace ends with a torn string, a mix of two providers, longer ones with the provider of the other Ingress |
| `recreated_target` | 1 key; create, delete, create | `ManagedAreReplicated` is violated |
| `relist_orphan` | 1 key; create, delete, create; 1 relist | `OrphansAreRemoved` is violated |
| `lease` | 2 processes; lease 5, deadline 2, period 1, latency 1; a lost request, a crash, a signal | types, one leader that owns the lease, the refinement `IsSuccession`, takeover, end of a process |
| `secret_copies` | 2 processes, 3 versions, 2 states of the Ingress; a lost request or a list that takes a cache back, a removed copy, two starts | types, `QuietLeaderIsFresh`, `WritesMoveForward`, `RenewalArrives` |
| `secret_start` | 1 process, no faults | `CertificateArrives` is violated |
| `events` | 3 occurrences, 2 states of Certificate and of Ingress; an expiry, a lost request, a crash | types, `MarkIsHonest`, `UnreplayedIsQueued`, `OccurrenceIsReplayed`, `QueueSettles` |

The four violations are disagreements between the code and what it says of itself,
quoted under `findings`.

**Bounds.**  `MaxUserOps`, `MaxFaults`, `MaxRestarts` and `MaxRelists` bound the
events nobody controls; the broker itself is not bounded.  Three user operations are
what the interesting histories need (create, withdraw, create again, or create,
edit, withdraw), one fault or crash can fall between any two steps of them.  A
second key matters only for what keys share, the template and the secrets; those
runs have two.  Two processes are what a change of leaders takes; a third one
would only wait like the second.  A lease of 5 ticks is the smallest with a period and a latency of one tick each: the
deadline of 2 ticks is the smallest that `NewLeaderElector` accepts with that period
(`DurationsAssumption`), and `LatencyAssumption` asks for a tick more than the three
together.  So a deadline, a renewal and an answer can each be late by a step.  Three versions of a secret let a process be a version
behind while it writes an older one; three occurrences do the same for an event,
and with an expiry let it come again without its annotation.  In `WorkerPool` nothing is bounded: three keys allow one in the
queue while both workers are busy, two workers are what exclusion and lost
wake-ups take.  Deadlock is checked for `WorkerPool` and `LeaderElection`; in the replication,
secret and event runs the system stops when the bounds are used up and every key is settled, so it is not
(`CHECK_DEADLOCK FALSE`).

**Preconditions of the properties that hold**, each with the reason:

* `ProviderMatches`: one ingress worker and no `update-ingress`.  With two
  workers the template is raced for (`provider_race`), and with the flag the
  cleaner writes the template's last provider into every control Ingress
  (`cleaner/controller.go:203`).  The defaults are four workers and the flag
  (`options.go:26-27`), so what holds here does not hold of a default deployment.
* `NeverDropsManaged`, `ManagedAreReplicated`, `IsReplication`: no list is older than what
  the process, or the one before it, has seen of the object (section 5).
* `UpdatesKeepTheOthersWork` is about the TLS section, which `Sync` alone writes, and the
  settings, which the cleaner alone renews.  The provider annotation is written by both and
  is left to `ProviderMatches`.
* `WritesMoveForward`, `QuietLeaderIsFresh`: no list has taken the process's cache of
  secrets back since it read what it wrote.  After such a list a worker may copy an older
  certificate, until the watch catches up and the next one follows (`RenewalArrives`).
* `CleanerTracks`, `OrphansAreRemoved`: no relist, because one that skips a deletion
  and a creation takes the new control Ingress from the round (`relist_orphan`).
* `ManagedAreReplicated`: the section never goes back to an earlier one and the
  target is not deleted, because a sync that finds the stale control Ingress with
  the same section takes it for done (`recreated_target`).
* `SecretsAreRemoved`: no faults, crashes or edits of a secret name.  The Ingress is deleted first and
  nothing else knows its secrets' names; an edit of a secret name updates the
  Ingress in place, whatever `sync.go:172` says, and leaves the old secret.
* `AtMostOneLeader`, `LeaderOwnsTheLease`: `LatencyAssumption`, an answer that is used
  takes less than the 15 s that lease, deadline and period leave.  `client-go` sets no
  timeout of its own for the request: `renew` gives up after 30 s on one that hangs,
  `acquire` never does.  And the clocks of all processes go at one rate, as `Tick` has
  it; `leaderelection.go:21-24` promises nothing if they do not.
* `StoppedProcessEnds`: each controller's `Start` returns, which is `StopEndsStart`.
* `RenewalArrives`: the Ingress is in the cache and stays wanted.  Before it is, the
  certificate is dropped (`secret_start`).
* `OccurrenceIsReplayed`: the Ingress stays and the Certificate does not go for good.
  An Ingress that is not there yet ends `Sync` without an error (`events/sync.go:135`), and
  the occurrence waits for the next one.
* `QueueSettles`: not while the event or the Certificate is gone, when `Sync` fails
  for ever (`events/sync.go:117-124`).
* `StopEndsStart`: every worker had begun when the stop came; `wait.Until` may
  otherwise return without calling `runWorker`, and `Start` waits for a
  `WaitGroup.Done` that never comes.

Further observations that no run is spent on: `SplitNamespace` never compares the
prefix and returns a lone label as a name, whatever `naming.go:62` says;
`FilterMethod` therefore passes any name of three labels;
`FilterOnIngressLables` drops tombstones, so that the ingress controller is not
told of a deletion a list reveals, which is left to the cleaner's hourly round;
around a change of leaders an old leader that drains may put an older certificate
over the new leader's until that one syncs the key again (`WritesMoveForward` speaks
of one process between two lists that take its cache back); a replay may be repeated after a crash or a conflict between
`events/sync.go:140` and `:147`.

**Fairness.**  Informers keep listing and watching (`Reflector.Run` retries for
ever), timers fire, worker goroutines run and API calls return: weak fairness.
Starting on a key is strongly fair, `SF_vars(SyncStart(k))`: all workers may be
busy again and again, but the queue is first in first out and every key comes to
its head; in `WorkerPool`, where the order is modelled, weak fairness of the workers
suffices and `RequestedIsProcessed` shows the same.  cert-manager is weakly fair
(`Issue`).  In `LeaderElection` time passes and each process goes on (weak fairness
of `Tick` and `Step`), but nothing makes the kubelet start one (`Boot`).  In
`SecretReplication` and `EventPropagation` informers, the queue's timer and the
worker are weakly fair.  Users, faults, crashes, broken watches, handler calls and signals have
no fairness.

## 4. Theorems

All theorems hold for every value of the constants that the named assumptions
admit: any set of keys, hosts, domains and TLS sections, any number of workers and
any bound on operations, faults, crashes and relists.

**Names and TLS sections** (`ConventionProofs`, from `LabelAssumption`,
`TLSAssumption`, `BoundsAssumption`).  Every property of the `convention` run is a theorem,
whatever its bounds.

* `SplitUndoesCreate`, `ControlNamesDoNotClash` and `FilterPassesManaged` follow from the lengths
  and positions of the pieces of a control name (`ShapeOfControlName`).  With the
  kinds of inputs there are (`InputKinds`) they give `NamesAreAlwaysReversible`, `NamesNeverClash`
  and `FilterAlwaysKeepsManaged`.
* `LoopsDoCopy`: the loops return what `CopyWith` says.  The invariant is that of the loops
  (`LoopsOK`): at `place`, `copiedHosts` are the managed hosts before it, `copiedTLS` the kept
  entries before it, `foundProvider` is that of the last occurrence before it, and no two
  adjacent occurrences before it are in conflict.  `LoopAppends` says that such a loop makes a
  `Subsequence`; `HostIsPassed` and `EntryIsPassed` what is before the next place.
* `OneProviderAlwaysManagesAll` and `WrittenIsUpToDateWhenWhole` rest on
  `IngressTLSProofs`: without a conflict every occurrence has the provider of the last
  one, or none (`OneProvider`, by the last occurrence that would be an exception), and a
  copy of the length of the section is the section (`UpToDate`).

`Subsequence` is defined by the rank of a place among those kept, not by recursion:
element n is the one with n - 1 kept places before it.  `RankIsBijection` (an injection of
finite sets of one size) and `LeastNat` (finite sets are well-founded) are all the induction that
the lemmas need, so they hold for sections of any length.

**Worker pool** (`WorkerPoolProofs`, from `PoolAssumption`).  Three layers, each
inductive relative to the ones below it.

1. *Types*: a worker past `Get` has an item.  Gives `PoolTypes`.
2. *Who holds what*: `processing` is exactly what the workers hold, each item held by
   one; the queue is exactly what is dirty and not processing, without duplicates.
   `OneWorkerPerKey` alone is not inductive: that `Done` may put an item back is safe
   only because whatever is queued is held by nobody.  Gives `KeysAreExclusive`,
   `QueueHoldsTheRest`, `HandedOverIsKept`.
3. *What is left to do*: while items are queued somebody awake is on the way to
   `Get`, and a worker ends only on an empty queue that will stay empty.  Gives
   `SignalsAreNotLost` and `ReturnsDrained`; the latter for at least one worker,
   since `Start` with none returns at once.

`PoolIsKeyQueue`: `WorkerPool` implements `KeyQueue`, from the second layer.  A key waits
if it is dirty or, before the shutdown, delayed; a key is worked on if it is in
`processing`.  The workers' and `Start`'s own steps are stutters.

**Leader election** (`LeaderElectionProofs`, from `ElectionAssumption` and
`LatencyAssumption`; `DurationsAssumption` only says which durations the program accepts).  `LeaderOwnsTheLease` is not inductive.  `Safe` adds what makes it
so: a leader's record is as old as its deadline allows, `lockAge + left <= MaxLatency +
RetryPeriod + RenewDeadline` (`LeadersInTime`); an update that the API server will accept
is one of the holder, or of a process that has waited for the whole lease
(`UpdatesAllowed`); who waits for an answer owns the record (`AnswersInTime`); and a
process's own clock never makes a record older than it is (`ObservedLater`).  So nobody
can write while somebody leads: the record would have to be `LeaseDuration` old, and
the leader gives up before.  All steps but writes and ticks touch one process and not
the record (`Local`).  Gives `LeadersOwnTheLease`, `OneLeaderAtMost`, `ElectionTypes`, and
`ElectionIsSuccession`: the answer that makes a leader comes when there is none.

**Secrets** (`SecretReplicationProofs`, from `ProcessAssumption`).  `Versions` is the
inductive invariant: the types (`Ranges`); a process that is down has nothing
(`Holdings`); what is copied, or about to be, is a certificate that there was (`Genuine`);
and, as long as no list has taken its cache back since it read them, what a process
wrote is not newer than what it is about to write, and that not newer than its
cache (`Ordered`).  The history variables `writer` and `current` make that condition a
state predicate.  Gives `SecretTypes` and `WritesNeverGoBack`, which says no more than the code
does: after a list from an old cache a process may write an older certificate.  `Handled`
adds that a leader whose cache is ahead of what it wrote has its key in the queue or a
worker at that version; with `Listed`, that a writer has the list of Ingresses, it gives
`QuietMeansFresh`.

**Events** (`EventPropagationProofs`, without assumptions).  `Marks`: every state of the
event says something that happened, and an annotation is a replayed count, not above
the event's own.  `Work`: a worker has an event that was there, and has replayed what it
is about to annotate.  They give `AnnotatedMeansReplayed` and, with `UnreplayedIsQueued` itself,
`NothingSeenIsLeftOut`: when `OnAdd` turns an event down, its annotation is its count.

**Replication** (`IngressReplicationProofs` and `ControlIngressProofs`, from `TLSAssumption`,
`ReplicationAssumption`, `SectionsAssumption`, `AbsentAssumption`).

* `ReplicationTypes`.  `TypeOK` is not inductive: a worker at an API call needs an
  object to send, and one that deletes secrets needs one left.  `GoodTask` adds that
  per place of the handler.
* `NothingManagedIsDropped`: `NeverDropsManaged`.  The invariant is `SafeKey(k)` for
  every key no user has withdrawn.  Along cache, stream and target "managed" only
  goes from false to true (`StaysManaged`); whatever shows that there is or was a
  control Ingress (`Known`) implies that the target is managed, in all of its
  stream, and in the cache of a process that has listed; and a key that is queued
  or worked on (`Handled`) is managed in the cache.  So no worker comes to a deletion.
  It needs `WaitForCacheSync` before the first worker, and that a list may be old, but
  not older than what the process, or the one before it, had seen (section 5).
* `UpdatesAreNotLost`: `UpdatesKeepTheOthersWork`.  The invariant is `Versioned`:
  a state that a cache or a stream shows and that has the current version is the
  current state, no version is from the future, and what a worker is about to write
  still has the other controller's field of the state it copied.  So a write that
  passes the API server's check keeps that field.

* `BrokerKeepsItsPromise`: `IngressReplication` implements `Replication`, which knows the
  sections a target has had, the keys users have withdrawn, the section of each control
  Ingress and the secrets, but no informers, queues, workers, faults or crashes.  The mapping is
  the identity but for the control Ingress, of which it keeps the section (`ShownCopies`).
  The invariant is `Provenance`: every section that a target's history, a cache or a worker holds
  has been one of that target; every control Ingress, in its cluster, on its way to a
  cache, in a cache or with a worker (`Objects`), holds a copy of such a section, and a
  worker's secrets are those of such a copy; and a worker at a deletion has a withdrawn key.
  The last part is what `SafeKey` shows of the others.  `NewTask` says what one step
  can leave a worker with, so that the invariant is shown for all steps of the handlers at
  once.  It bounds what the clean-up deletes, through any fault, crash and relist: an Ingress whose
  target was withdrawn, and secrets that a section of that target has named.
* `ProvidersMatch`: `ProviderMatches` with at most one ingress worker and without
  `update-ingress`.  `Matched`: a control Ingress, wherever it is, has the provider that
  `copyTLS` finds for its section, and `TemplateHeld`: from the write of the template to
  its read, it holds the provider of the task (`OneAtATime`: there is no other task).  That a
  copy of a copy has the same provider is `CopyKeepsProvider`.  Both hypotheses are
  needed: TLC finds the violation with two workers (`provider_race`), and with one worker and the
  flag, where the cleaner renders the template's last provider into every Ingress.
* `CleanerLosesNothing`: `CleanerTracks` when `MaxRelists` is
  0; `relist_orphan` shows that it needs that.  `CleanerTracks` is not inductive: when
  the cleaner takes a key whose Ingress is not in its cache, the key leaves the round,
  and nothing in the property says that an existing Ingress is then still ahead.
  `LeadsToControl` does: cache and stream end with the state of the control cluster,
  and after any state that lacks an Ingress that exists there is one at which `OnAdd`
  will be called.  `SeeLeads`, `StoreLeads` and `RestartTracked` show that a watch, a
  write and a crash keep it; `QuietHanded` that a key leaves the round for a cache
  without the Ingress only.

The proofs go through one description of everything a worker may do in one step
(`WorkerStep`): it goes on with a task that `NextTask` allows and makes at most one
call, a write of a new version or a deletion.  `NextSteps` shows that `Next` has no
other steps than that, crashes, users, informers and starts.

`SectionsAssumption` says that the sections users write are TLS sections.  `AbsentAssumption` says
that the mark for "no object" is not an object.

## 5. Only model-checked, and not modelled

Liveness is TLC's alone: TLAPS has no proofs under fairness, nor of ENABLED.  These are
`RequestedIsProcessed` and `StopEndsStart` of `WorkerPool`, `ManagedAreReplicated`,
`OrphansAreRemoved`, `SettingsAreRenewed` and `SecretsAreRemoved` of `IngressReplication`,
`StandbyTakesOver` and `StoppedProcessEnds` of `LeaderElection`, `RenewalArrives` of
`SecretReplication`, `OccurrenceIsReplayed` and `QueueSettles` of `EventPropagation`.  Every other
property of the passing runs is a theorem.  That the loops of `copyTLS` end is not stated; what they
return if they do is.

Abstractions that a reader should know of:

* `LeaderElection`: a request of the process before a restart is forgotten when the new
  one begins (`Boot`), and a pod that is replaced has a new name.  The jitter of
  `acquire` is any whole tick up to 2.2 periods.
* `IngressReplication`: a list, the first one of a process or a later one, is never older
  than what the process, or the one before it, has seen of that object, though every one
  of them asks for `ResourceVersion` 0 (`reflector.go:175`) and several API servers may
  lag behind each other.  `NeverDropsManaged`, `ManagedAreReplicated` and `IsReplication`,
  with the theorems about them, rest on that: a list from before a target was created
  makes its control Ingress look orphaned.
* `EventPropagation`: new lists of one process never go back in time either; those of a
  new process may.  `SecretReplication` has lists that go back.
* `SecretReplication`, `EventPropagation`: the informers of a process stop when its context
  ends.  A handler is called in the step in which the cache changes.  A lost API call is a
  lost request or a lost answer, and has taken effect, or never will, when the process goes
  on: only `LeaderElection` has requests that take effect late.  Other errors end in the same
  retry.
* `SecretReplication`: the other Ingresses that may name the secret are one, and one
  secret is enough since keys share nothing but the workers.
* `EventPropagation`: Cert-Manager's recorder sets no annotations of its own on an event
  and counts on when it has to make the event anew.  The recorder of the target
  cluster is a set of counts: correlation and rate limits in `client-go/tools/record` are
  best effort, and nothing reads what it sends.  Two processes at a time are left to
  `SecretReplication`; here they would repeat a replay.

Not modelled: flag parsing and `validateControllerOptions` (they end the process before
anything runs), building clients and contexts, the recorder's insides, logging,
the Helm chart, the Dockerfile, the Makefile, version.

## 6. Plan

1. `Naming`, `IngressTLS`, `WorkerPool`, `IngressReplication` with their runs and
   proofs: done.
2. `KeyQueue`, `Succession`, `LeaderElection`, `SecretReplication`, `EventPropagation` with
   their runs, refinements and proofs: done.
3. `Replication` with the proof that `IngressReplication` implements it, `ProviderMatches` for
   one worker, and the loops of `copyTLS` step by step with the proofs of `Convention`: done.
4. Next: what the liveness properties rest on, as safety that can be proved.  For
   `OrphansAreRemoved`, that a key in the cleaner's round whose target is gone can only
   go forward; for `SecretsAreRemoved` without faults, that the secrets of a
   withdrawn Ingress stay in the hands of its control Ingress or of one worker; for
   `StopEndsStart`, that `Start` waits for exactly the workers that have begun and not ended.
