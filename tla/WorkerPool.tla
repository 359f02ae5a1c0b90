----------------------------- MODULE WorkerPool -----------------------------
(***************************************************************************)
(* The machine every controller of the broker runs on: the client-go       *)
(* workqueue with its delaying part, the workers Start launches by         *)
(* wait.Until (pkg/common/controller.go; the cleaner has a copy of it in   *)
(* pkg/cleaner/controller.go), and the end of it all when stopCh is closed.*)
(*                                                                         *)
(* The queue's mutex makes Add, Get, Done and ShutDown one step each.  Get *)
(* sleeps on a condition variable, which is modelled as one: Add and Done  *)
(* wake one sleeper, ShutDown all of them.                                 *)
(***************************************************************************)
EXTENDS Naturals, Sequences, FiniteSets

CONSTANTS
  Key,     \* the items of the queue
  Worker,  \* the goroutines Start launches: the worker-count flag
  NoKey    \* a worker without an item

ASSUME PoolAssumption == NoKey \notin Key

VARIABLES
  queue,         \* the order in which items are worked on
  dirty,         \* items that need processing
  processing,    \* items some worker processes
  shuttingDown,  \* the queue's flag
  delayed,       \* items AddAfter was called with, the heap and its channel
  worker,        \* worker[w]: [pc, key]
  start,         \* where Start is
  stopped,       \* stopCh is closed
  requested      \* history: keys handed over and not taken by a worker since

poolVars == <<queue, dirty, processing, shuttingDown, delayed>>
vars == <<queue, dirty, processing, shuttingDown, delayed, worker, start,
          stopped, requested>>

WorkerPC ==
  {"unborn",    \* not launched yet
   "launched",  \* the goroutine exists, WaitGroup.Add(1) was called
   "skipped",   \* wait.Until found stopCh closed and never called runWorker
   "get",       \* about to call Get
   "asleep",    \* in cond.Wait
   "sync",      \* the handler runs
   "done",      \* the handler is through, Done is next
   "failed",    \* it returned an error, Done is next
   "requeue",   \* after Done of a failed item, AddRateLimited is next
   "exited"}    \* Get said shutdown; WaitGroup.Done was called

StartPC == {"caches", "launch", "run", "drain", "returned", "gaveUp"}

Init ==
  /\ queue = << >>
  /\ dirty = {}
  /\ processing = {}
  /\ shuttingDown = FALSE
  /\ delayed = {}
  /\ worker = [w \in Worker |-> [pc |-> "unborn", key |-> NoKey]]
  /\ start = "caches"
  /\ stopped = FALSE
  /\ requested = {}

-----------------------------------------------------------------------------
\* The workqueue.

At(w, pc) == worker[w].pc = pc
Goto(w, pc, key) == worker' = [worker EXCEPT ![w] = [pc |-> pc, key |-> key]]

Asleep == {w \in Worker : At(w, "asleep")}

\* cond.Signal on the workers as they are in ws.  The mutant does not signal.
NoSignal(ws) == worker' = ws
Signal(ws) ==
  LET asleep == {w \in Worker : ws[w].pc = "asleep"} IN
  IF asleep = {} THEN worker' = ws
  ELSE \E w \in asleep : worker' = [ws EXCEPT ![w].pc = "get"]

\* Type.Add.  The mutant queues an item that is being processed.
AddAtOnce(k) ==
  IF shuttingDown \/ k \in dirty
  THEN UNCHANGED <<dirty, queue, worker>>
  ELSE /\ dirty' = dirty \cup {k}
       /\ queue' = Append(queue, k)
       /\ Signal(worker)

Add(k) ==
  IF shuttingDown \/ k \in dirty
  THEN UNCHANGED <<dirty, queue, worker>>
  ELSE /\ dirty' = dirty \cup {k}
       /\ IF k \in processing
          THEN UNCHANGED <<queue, worker>>
          ELSE queue' = Append(queue, k) /\ Signal(worker)

\* AddAfter: nothing once the queue is shutting down.
AddAfter(k) ==
  delayed' = IF shuttingDown THEN delayed ELSE delayed \cup {k}

\* Type.Done by worker w, which goes on at pc.  The mutant forgets what became
\* dirty in the meantime.
DoneForgets(w, k, pc, key) ==
  /\ processing' = processing \ {k}
  /\ Goto(w, pc, key)
  /\ UNCHANGED queue

Done(w, k, pc, key) ==
  LET ws == [worker EXCEPT ![w] = [pc |-> pc, key |-> key]] IN
  /\ processing' = processing \ {k}
  /\ IF k \in dirty
     THEN queue' = Append(queue, k) /\ Signal(ws)
     ELSE worker' = ws /\ UNCHANGED queue

-----------------------------------------------------------------------------
\* The informers' handlers, and the delaying part of the queue.

\* The cleaner's handler calls Add, all others AddRateLimited.
HandlerAdds(k) ==
  /\ Add(k)
  /\ requested' = IF shuttingDown THEN requested ELSE requested \cup {k}
  /\ UNCHANGED <<processing, shuttingDown, delayed, start, stopped>>

HandlerAddsRateLimited(k) ==
  /\ AddAfter(k)
  /\ requested' = IF shuttingDown THEN requested ELSE requested \cup {k}
  /\ UNCHANGED <<queue, dirty, processing, shuttingDown, worker, start, stopped>>

\* waitingLoop: an item's time has come.  It returns once the queue shuts down.
Ready(k) ==
  /\ k \in delayed
  /\ ~ shuttingDown
  /\ delayed' = delayed \ {k}
  /\ Add(k)
  /\ UNCHANGED <<processing, shuttingDown, start, stopped, requested>>

-----------------------------------------------------------------------------
\* A worker.

\* wait.Until looks at stopCh before it calls runWorker for the first time.
Begin(w) ==
  /\ At(w, "launched")
  /\ Goto(w, IF stopped THEN "skipped" ELSE "get", NoKey)
  /\ UNCHANGED <<poolVars, start, stopped, requested>>

\* Get returns the first item.  The mutant clears the whole dirty set.
GetAndForget(w) ==
  /\ At(w, "get")
  /\ queue # << >>
  /\ Goto(w, "sync", Head(queue))
  /\ queue' = Tail(queue)
  /\ processing' = processing \cup {Head(queue)}
  /\ dirty' = {}
  /\ requested' = requested \ {Head(queue)}
  /\ UNCHANGED <<shuttingDown, delayed, start, stopped>>

Get(w) ==
  /\ At(w, "get")
  /\ queue # << >>
  /\ Goto(w, "sync", Head(queue))
  /\ queue' = Tail(queue)
  /\ processing' = processing \cup {Head(queue)}
  /\ dirty' = dirty \ {Head(queue)}
  /\ requested' = requested \ {Head(queue)}
  /\ UNCHANGED <<shuttingDown, delayed, start, stopped>>

\* Get finds nothing: it sleeps, or reports the shutdown and the worker ends.
Sleep(w) ==
  /\ At(w, "get")
  /\ queue = << >>
  /\ ~ shuttingDown
  /\ Goto(w, "asleep", NoKey)
  /\ UNCHANGED <<poolVars, start, stopped, requested>>

Exit(w) ==
  /\ At(w, "get")
  /\ queue = << >>
  /\ shuttingDown
  /\ Goto(w, "exited", NoKey)
  /\ UNCHANGED <<poolVars, start, stopped, requested>>

\* The sync handler returns.  With an error the item is queued again after Done;
\* the cleaner queues it again before Done when it wants to look at it later.
SyncReturns(w) ==
  /\ At(w, "sync")
  /\ \E pc \in {"done", "failed"} : Goto(w, pc, worker[w].key)
  /\ UNCHANGED <<poolVars, start, stopped, requested>>

SyncRechecks(w) ==
  /\ At(w, "sync")
  /\ AddAfter(worker[w].key)
  /\ requested' = IF shuttingDown THEN requested ELSE requested \cup {worker[w].key}
  /\ Goto(w, "done", worker[w].key)
  /\ UNCHANGED <<queue, dirty, processing, shuttingDown, start, stopped>>

FinishItem(w) ==
  /\ At(w, "done")
  /\ Done(w, worker[w].key, "get", NoKey)
  /\ UNCHANGED <<dirty, shuttingDown, delayed, start, stopped, requested>>

\* Mutant: the worker's item is cleared with Done, and requeued after it.
FailItemCleared(w) ==
  /\ At(w, "failed")
  /\ Done(w, worker[w].key, "requeue", NoKey)
  /\ UNCHANGED <<dirty, shuttingDown, delayed, start, stopped, requested>>

FailItem(w) ==
  /\ At(w, "failed")
  /\ Done(w, worker[w].key, "requeue", worker[w].key)
  /\ UNCHANGED <<dirty, shuttingDown, delayed, start, stopped, requested>>

RequeueItem(w) ==
  /\ At(w, "requeue")
  /\ AddAfter(worker[w].key)
  /\ requested' = IF shuttingDown THEN requested ELSE requested \cup {worker[w].key}
  /\ Goto(w, "get", NoKey)
  /\ UNCHANGED <<queue, dirty, processing, shuttingDown, start, stopped>>

-----------------------------------------------------------------------------
\* Start, and the signal that ends it.

\* WaitForCacheSync
CachesSync ==
  /\ start = "caches"
  /\ \/ start' = "launch"
     \/ stopped /\ start' = "gaveUp"
  /\ UNCHANGED <<poolVars, worker, stopped, requested>>

\* workerwg.Add(1); go wait.Until(c.runWorker, ...)
Launch(w) ==
  /\ start = "launch"
  /\ At(w, "unborn")
  /\ Goto(w, "launched", NoKey)
  /\ UNCHANGED <<poolVars, start, stopped, requested>>

Launched ==
  /\ start = "launch"
  /\ \A w \in Worker : ~ At(w, "unborn")
  /\ start' = "run"
  /\ UNCHANGED <<poolVars, worker, stopped, requested>>

\* The first signal, or the loss of the leader's lease.
Stop ==
  /\ ~ stopped
  /\ stopped' = TRUE
  /\ UNCHANGED <<poolVars, worker, start, requested>>

\* <-stopCh; ShutDown, which wakes every sleeper.  The mutant wakes one.
ShutDownSignal ==
  /\ start = "run"
  /\ stopped
  /\ shuttingDown' = TRUE
  /\ Signal(worker)
  /\ start' = "drain"
  /\ UNCHANGED <<queue, dirty, processing, delayed, stopped, requested>>

ShutDown ==
  /\ start = "run"
  /\ stopped
  /\ shuttingDown' = TRUE
  /\ worker' = [w \in Worker |->
                  IF At(w, "asleep") THEN [worker[w] EXCEPT !.pc = "get"] ELSE worker[w]]
  /\ start' = "drain"
  /\ UNCHANGED <<queue, dirty, processing, delayed, stopped, requested>>

\* workerwg.Wait: Add(1) was called for each worker and Done by those that
\* exited.  The mutant does not wait.
ReturnAtOnce ==
  /\ start = "drain"
  /\ start' = "returned"
  /\ UNCHANGED <<poolVars, worker, stopped, requested>>

Return ==
  /\ start = "drain"
  /\ \A w \in Worker : At(w, "exited")
  /\ start' = "returned"
  /\ UNCHANGED <<poolVars, worker, stopped, requested>>

-----------------------------------------------------------------------------
Handler(k) == HandlerAdds(k) \/ HandlerAddsRateLimited(k)

WorkerStep(w) ==
  \/ Begin(w)
  \/ Get(w)
  \/ Sleep(w)
  \/ Exit(w)
  \/ SyncReturns(w)
  \/ SyncRechecks(w)
  \/ FinishItem(w)
  \/ FailItem(w)
  \/ RequeueItem(w)

StartStep ==
  \/ CachesSync
  \/ Launched
  \/ ShutDown
  \/ Return
  \/ \E w \in Worker : Launch(w)

Next ==
  \/ \E k \in Key : Handler(k) \/ Ready(k)
  \/ \E w \in Worker : WorkerStep(w)
  \/ StartStep
  \/ Stop

Spec == Init /\ [][Next]_vars

\* Goroutines run and timers fire.  Nothing is assumed of handlers and signals.
Fairness ==
  /\ WF_vars(StartStep)
  /\ \A k \in Key : WF_vars(Ready(k))
  /\ \A w \in Worker : WF_vars(WorkerStep(w))

FairSpec == Spec /\ Fairness

-----------------------------------------------------------------------------
Queued == {queue[i] : i \in DOMAIN queue}

TypeOK ==
  /\ queue \in Seq(Key)
  /\ dirty \subseteq Key
  /\ processing \subseteq Key
  /\ delayed \subseteq Key
  /\ requested \subseteq Key
  /\ shuttingDown \in BOOLEAN
  /\ stopped \in BOOLEAN
  /\ start \in StartPC
  /\ worker \in [Worker -> [pc : WorkerPC, key : Key \cup {NoKey}]]

Holds(w) == worker[w].pc \in {"sync", "done", "failed"}

\* The reason the controllers need no locks of their own: no two workers run the
\* handler of one key at the same time (Get and Done, queue.go:141-176).
OneWorkerPerKey ==
  \A w, v \in Worker : Holds(w) /\ Holds(v) /\ worker[w].key = worker[v].key => w = v

\* "Every element of queue should be in the dirty set and not in the processing
\* set" (queue.go:65), each only once, and nothing dirty is left out.
QueueIsDirtyNotProcessing ==
  /\ Queued = dirty \ processing
  /\ \A i, j \in DOMAIN queue : queue[i] = queue[j] => i = j

\* A key handed over is not forgotten before a worker takes it: it waits for its
\* time, or it is dirty (AddRateLimited, AddAfter, Add).
RequestedIsKept == ~ shuttingDown => requested \subseteq delayed \cup dirty

\* No worker sleeps on work: while items are queued and someone is in cond.Wait,
\* another worker is on its way to Get (Signal in Add and Done).
NobodySleepsOnWork ==
  Queued # {} /\ Asleep # {} =>
    \E w \in Worker : worker[w].pc \in {"get", "sync", "done", "failed", "requeue"}

\* "As soon as the worker goroutines have drained the existing items in the
\* queue, they will be instructed to exit" (queue.go:178): when Start logs that
\* all workers have stopped processing, no item is left and none is worked on.
DrainedWhenReturned ==
  start = "returned" => queue = << >> /\ dirty = {} /\ processing = {}

\* The abstraction the controllers are modelled on: a key is waiting when it is
\* dirty or its time will still come, and a failed item is handed over anew.
KQ == INSTANCE KeyQueue WITH
        waiting <- IF shuttingDown THEN dirty ELSE delayed \cup dirty,
        working <- processing,
        closed  <- shuttingDown

\* Workqueue and workers implement KeyQueue: whatever handlers, the timers and
\* the two goroutines do, no key is handled twice at a time, none is dropped but
\* by ShutDown, and none appears that was not handed over.
IsKeyQueue == KQ!Spec

\* What a handler or a failed sync hands over is taken by a worker, unless the
\* process is asked to stop.
RequestedIsProcessed ==
  \A k \in Key : k \in requested ~> (k \notin requested \/ stopped)

\* After the signal Start comes to an end, once every worker has begun: main
\* waits for that (controllerWg.Wait, controller-manager.go:213).
StopEndsStart ==
  stopped ~> (start \in {"returned", "gaveUp"} \/ \E w \in Worker : At(w, "skipped"))
=============================================================================
