-------------------------- MODULE WorkerPoolProofs --------------------------
(***************************************************************************)
(* The safety of WorkerPool for every set of items and of workers.  The    *)
(* proof goes in three layers, each on top of the one before: what the     *)
(* types are, who holds which item, and what is left to do.                *)
(***************************************************************************)
EXTENDS WorkerPool, TLAPS

WorkerState == [pc : WorkerPC, key : Key \cup {NoKey}]
Workers == [Worker -> WorkerState]

-----------------------------------------------------------------------------
\* Sequences and the condition variable.

Elements(q) == {q[i] : i \in DOMAIN q}
NoRepeats(q) == \A i, j \in DOMAIN q : q[i] = q[j] => i = j

\* Appending an item that the queue does not hold keeps it free of repetitions.
LEMMA AppendItem ==
  ASSUME NEW q \in Seq(Key), NEW k \in Key
  PROVE  /\ Append(q, k) \in Seq(Key)
         /\ Append(q, k) # << >>
         /\ Elements(Append(q, k)) = Elements(q) \cup {k}
         /\ NoRepeats(q) /\ k \notin Elements(q) => NoRepeats(Append(q, k))
<1> DEFINE r == Append(q, k)
<1>1. /\ r \in Seq(Key)
      /\ Len(r) = Len(q) + 1
      /\ r[Len(q) + 1] = k
      /\ \A i \in 1..Len(q) : r[i] = q[i]
  OBVIOUS
<1>2. DOMAIN q = 1..Len(q) /\ DOMAIN r = 1..(Len(q) + 1) /\ Len(q) \in Nat
  BY <1>1
<1> HIDE DEF r
<1>3. Elements(r) = Elements(q) \cup {k}
  <2>1. \A i \in DOMAIN r : r[i] \in Elements(q) \cup {k}
    BY <1>1, <1>2 DEF Elements
  <2>2. \A i \in DOMAIN q : i \in DOMAIN r /\ r[i] = q[i]
    BY <1>1, <1>2
  <2>3. Len(q) + 1 \in DOMAIN r
    BY <1>2
  <2> QED
    BY <1>1, <2>1, <2>2, <2>3 DEF Elements
<1>4. NoRepeats(q) /\ k \notin Elements(q) => NoRepeats(r)
  BY <1>1, <1>2 DEF NoRepeats, Elements
<1>5. r # << >>
  BY <1>1, <1>2
<1> QED
  BY <1>1, <1>3, <1>4, <1>5 DEF r

\* Taking the first item leaves the others, each as often as before.
LEMMA TakeItem ==
  ASSUME NEW q \in Seq(Key), q # << >>
  PROVE  /\ Tail(q) \in Seq(Key)
         /\ Head(q) \in Key
         /\ Elements(q) = Elements(Tail(q)) \cup {Head(q)}
         /\ NoRepeats(q) => NoRepeats(Tail(q)) /\ Head(q) \notin Elements(Tail(q))
<1> DEFINE r == Tail(q)
<1>1. /\ r \in Seq(Key)
      /\ Head(q) = q[1] /\ Head(q) \in Key
      /\ Len(q) \in Nat \ {0}
      /\ Len(r) = Len(q) - 1
      /\ \A i \in 1..Len(r) : r[i] = q[i + 1]
  OBVIOUS
<1>2. DOMAIN q = 1..Len(q) /\ DOMAIN r = 1..(Len(q) - 1)
  BY <1>1
<1> HIDE DEF r
<1>3. \A i \in DOMAIN r : i + 1 \in DOMAIN q /\ i + 1 # 1 /\ q[i + 1] = r[i]
  BY <1>1, <1>2
<1>4. 1 \in DOMAIN q
  BY <1>1, <1>2
<1>5. Elements(q) = Elements(r) \cup {Head(q)}
  <2>1. \A i \in DOMAIN q : q[i] \in Elements(r) \cup {Head(q)}
    <3>1. \A i \in DOMAIN q : i = 1 \/ (i - 1 \in DOMAIN r /\ q[i] = r[i - 1])
      BY <1>1, <1>2
    <3> QED
      BY <1>1, <3>1 DEF Elements
  <2>2. \A i \in DOMAIN r : r[i] \in Elements(q)
    BY <1>3 DEF Elements
  <2>3. Head(q) \in Elements(q)
    BY <1>1, <1>4 DEF Elements
  <2> QED
    BY <2>1, <2>2, <2>3 DEF Elements
<1>6. ASSUME NoRepeats(q) PROVE NoRepeats(r) /\ Head(q) \notin Elements(r)
  <2>1. NoRepeats(r)
    <3> SUFFICES ASSUME NEW i \in DOMAIN r, NEW j \in DOMAIN r, r[i] = r[j]
                 PROVE  i = j
      BY DEF NoRepeats
    <3>1. i + 1 = j + 1
      BY <1>3, <1>6 DEF NoRepeats
    <3> QED
      BY <1>2, <3>1
  <2>2. Head(q) \notin Elements(r)
    BY <1>1, <1>3, <1>4, <1>6 DEF NoRepeats, Elements
  <2> QED
    BY <2>1, <2>2
<1> QED
  BY <1>1, <1>5, <1>6 DEF r

\* cond.Signal changes nothing but that a worker that slept goes to Get, and
\* somebody is there to take the item when somebody slept.
LEMMA SignalWakes ==
  ASSUME NEW ws \in Workers, Signal(ws)
  PROVE  /\ worker' \in Workers
         /\ \A w \in Worker :
              /\ worker'[w].key = ws[w].key
              /\ \/ worker'[w] = ws[w]
                 \/ ws[w].pc = "asleep" /\ worker'[w].pc = "get"
         /\ (\E w \in Worker : ws[w].pc = "asleep") => \E w \in Worker : worker'[w].pc = "get"
<1>1. CASE worker' = ws /\ {w \in Worker : ws[w].pc = "asleep"} = {}
  BY <1>1
<1>2. CASE \E w \in {v \in Worker : ws[v].pc = "asleep"} :
             worker' = [ws EXCEPT ![w].pc = "get"]
  BY <1>2 DEF Workers, WorkerState, WorkerPC
<1> QED
  BY <1>1, <1>2 DEF Signal

-----------------------------------------------------------------------------
\* The types.

\* A worker past Get has an item, which it hands to Done and AddRateLimited.
HasItem == \A w \in Worker :
  worker[w].pc \in {"sync", "done", "failed", "requeue"} => worker[w].key \in Key

Types == TypeOK /\ HasItem

\* What Add changes, whatever it finds.
LEMMA AddTypes ==
  ASSUME Types, NEW k \in Key, Add(k)
  PROVE  /\ queue' \in Seq(Key)
         /\ dirty' \subseteq Key
         /\ worker' \in Workers
         /\ HasItem'
<1> USE DEF Types, TypeOK
<1>1. worker \in Workers
  BY DEF Workers, WorkerState
<1>2. CASE UNCHANGED <<dirty, queue, worker>>
  BY <1>1, <1>2 DEF HasItem
<1>3. CASE dirty' = dirty \cup {k} /\ UNCHANGED <<queue, worker>>
  BY <1>1, <1>3 DEF HasItem
<1>4. CASE dirty' = dirty \cup {k} /\ queue' = Append(queue, k) /\ Signal(worker)
  BY <1>1, <1>4, AppendItem, SignalWakes DEF HasItem
<1> QED
  BY <1>2, <1>3, <1>4 DEF Add

\* What Done changes, whatever it finds.
LEMMA DoneTypes ==
  ASSUME Types, NEW w \in Worker, NEW k \in Key, NEW pc \in WorkerPC,
         NEW key \in Key \cup {NoKey},
         pc \in {"sync", "done", "failed", "requeue"} => key \in Key,
         Done(w, k, pc, key)
  PROVE  /\ queue' \in Seq(Key)
         /\ processing' \subseteq Key
         /\ worker' \in Workers
         /\ HasItem'
<1> DEFINE ws == [worker EXCEPT ![w] = [pc |-> pc, key |-> key]]
<1>1. ws \in Workers /\ \A v \in Worker :
        ws[v].pc \in {"sync", "done", "failed", "requeue"} => ws[v].key \in Key
  BY DEF Types, TypeOK, HasItem, Workers, WorkerState
<1>2. processing' \subseteq Key
  BY DEF Done, Types, TypeOK
<1> HIDE DEF ws
<1>3. CASE queue' = Append(queue, k) /\ Signal(ws)
  BY <1>1, <1>2, <1>3, AppendItem, SignalWakes DEF HasItem, Types, TypeOK
<1>4. CASE worker' = ws /\ UNCHANGED queue
  BY <1>1, <1>2, <1>4 DEF HasItem, Types, TypeOK
<1> QED
  BY <1>3, <1>4 DEF Done, ws

\* A handler that hands an item over, with or without a delay.
LEMMA HandlerTypes ==
  ASSUME Types, NEW k \in Key, Handler(k) \/ Ready(k)
  PROVE  Types'
<1> USE DEF Types, TypeOK
<1>1. CASE HandlerAdds(k)
  BY <1>1, AddTypes DEF HandlerAdds, Workers, WorkerState
<1>2. CASE HandlerAddsRateLimited(k)
  BY <1>2 DEF HandlerAddsRateLimited, AddAfter, HasItem
<1>3. CASE Ready(k)
  BY <1>3, AddTypes DEF Ready, Workers, WorkerState
<1> QED
  BY <1>1, <1>2, <1>3 DEF Handler

\* A worker's next step, whatever it is.
LEMMA WorkerTypes ==
  ASSUME Types, NEW w \in Worker, WorkerStep(w)
  PROVE  Types'
<1> USE DEF Types, TypeOK
<1>1. CASE Begin(w) \/ Sleep(w) \/ Exit(w)
  BY <1>1 DEF Begin, Sleep, Exit, Goto, At, WorkerPC, HasItem, poolVars
<1>2. CASE Get(w)
  BY <1>2, TakeItem DEF Get, Goto, At, WorkerPC, HasItem
<1>3. CASE SyncReturns(w)
  BY <1>3 DEF SyncReturns, Goto, At, WorkerPC, HasItem, poolVars
<1>4. CASE SyncRechecks(w) \/ RequeueItem(w)
  BY <1>4 DEF SyncRechecks, RequeueItem, AddAfter, Goto, At, WorkerPC, HasItem
<1>5. CASE FinishItem(w)
  <2>1. worker[w].key \in Key
    BY <1>5 DEF FinishItem, At, HasItem
  <2>2. /\ queue' \in Seq(Key)
        /\ processing' \subseteq Key
        /\ worker' \in Workers
        /\ HasItem'
    BY <1>5, <2>1, DoneTypes DEF FinishItem, WorkerPC
  <2> QED
    BY <1>5, <2>2 DEF FinishItem, Workers, WorkerState
<1>6. CASE FailItem(w)
  <2>1. worker[w].key \in Key
    BY <1>6 DEF FailItem, At, HasItem
  <2>2. /\ queue' \in Seq(Key)
        /\ processing' \subseteq Key
        /\ worker' \in Workers
        /\ HasItem'
    BY <1>6, <2>1, DoneTypes DEF FailItem, WorkerPC
  <2> QED
    BY <1>6, <2>2 DEF FailItem, Workers, WorkerState
<1> QED
  BY <1>1, <1>2, <1>3, <1>4, <1>5, <1>6 DEF WorkerStep

\* A step of Start.
LEMMA StartTypes ==
  ASSUME Types, StartStep \/ Stop
  PROVE  Types'
<1> USE DEF Types, TypeOK, StartPC, poolVars
<1>1. CASE CachesSync \/ Launched \/ Return \/ Stop
  BY <1>1 DEF CachesSync, Launched, Return, Stop, HasItem
<1>2. CASE ShutDown
  BY <1>2 DEF ShutDown, At, WorkerPC, HasItem
<1>3. ASSUME NEW w \in Worker, Launch(w) PROVE Types'
  BY <1>3 DEF Launch, Goto, WorkerPC, HasItem
<1> QED
  BY <1>1, <1>2, <1>3 DEF StartStep

LEMMA InitTypes == Init => Types
<1> SUFFICES ASSUME Init PROVE Types
  OBVIOUS
<1>1. queue \in Seq(Key)
  BY DEF Init
<1>2. HasItem /\ worker \in [Worker -> [pc : WorkerPC, key : Key \cup {NoKey}]]
  BY DEF Init, HasItem, WorkerPC
<1> QED
  BY <1>1, <1>2 DEF Init, Types, TypeOK, StartPC

LEMMA NextTypes == Types /\ [Next]_vars => Types'
<1> SUFFICES ASSUME Types, [Next]_vars PROVE Types'
  OBVIOUS
<1>1. CASE UNCHANGED vars
  BY <1>1 DEF vars, Types, TypeOK, HasItem
<1>2. ASSUME NEW k \in Key, Handler(k) \/ Ready(k) PROVE Types'
  BY <1>2, HandlerTypes
<1>3. ASSUME NEW w \in Worker, WorkerStep(w) PROVE Types'
  BY <1>3, WorkerTypes
<1>4. CASE StartStep \/ Stop
  BY <1>4, StartTypes
<1> QED
  BY <1>1, <1>2, <1>3, <1>4 DEF Next

\* Every variable keeps its type; what a worker past Get hands to Done and to
\* AddRateLimited is always an item.
THEOREM PoolTypes == Spec => []TypeOK
<1>1. Types => TypeOK
  BY DEF Types
<1> QED
  BY <1>1, InitTypes, NextTypes, PTL DEF Spec

-----------------------------------------------------------------------------
\* Who holds which item.

\* processing is exactly the items in the hands of workers.
ProcessingIsHeld ==
  /\ \A w \in Worker : Holds(w) => worker[w].key \in processing
  /\ \A k \in processing : \E w \in Worker : Holds(w) /\ worker[w].key = k

Exclusion == ProcessingIsHeld /\ OneWorkerPerKey /\ QueueIsDirtyNotProcessing

LEMMA QueuedIsElements ==
  /\ QueueIsDirtyNotProcessing
       <=> Elements(queue) = dirty \ processing /\ NoRepeats(queue)
  /\ QueueIsDirtyNotProcessing'
       <=> Elements(queue') = dirty' \ processing' /\ NoRepeats(queue')
BY DEF QueueIsDirtyNotProcessing, Queued, Elements, NoRepeats

\* A step after which the same workers hold the same items.
LEMMA SameHolders ==
  ASSUME Exclusion, UNCHANGED processing,
         \A w \in Worker : /\ Holds(w)' <=> Holds(w)
                           /\ Holds(w) => worker'[w].key = worker[w].key
  PROVE  ProcessingIsHeld' /\ OneWorkerPerKey'
BY DEF Exclusion, ProcessingIsHeld, OneWorkerPerKey

\* Add queues a new item unless it is being processed.
LEMMA AddExcludes ==
  ASSUME Types, Exclusion, NEW k \in Key, Add(k), UNCHANGED processing
  PROVE  Exclusion'
<1>1. worker \in Workers /\ queue \in Seq(Key)
  BY DEF Types, TypeOK, Workers, WorkerState
<1>2. CASE UNCHANGED <<dirty, queue, worker>>
  <2>1. QueueIsDirtyNotProcessing'
    BY <1>2, QueuedIsElements DEF Exclusion
  <2> QED
    BY <1>2, <2>1, SameHolders DEF Exclusion, Holds
<1>3. CASE dirty' = dirty \cup {k} /\ k \in processing /\ UNCHANGED <<queue, worker>>
  <2>1. QueueIsDirtyNotProcessing'
    BY <1>3, QueuedIsElements DEF Exclusion
  <2> QED
    BY <1>3, <2>1, SameHolders DEF Exclusion, Holds
<1>4. CASE /\ k \notin dirty /\ dirty' = dirty \cup {k} /\ k \notin processing
           /\ queue' = Append(queue, k) /\ Signal(worker)
  <2>1. \A w \in Worker : /\ Holds(w)' <=> Holds(w)
                          /\ Holds(w) => worker'[w].key = worker[w].key
    BY <1>1, <1>4, SignalWakes DEF Holds
  <2>2. ProcessingIsHeld' /\ OneWorkerPerKey'
    BY <2>1, SameHolders
  <2>3. Elements(queue) = dirty \ processing /\ NoRepeats(queue)
    BY QueuedIsElements DEF Exclusion
  <2>4. Elements(queue') = dirty' \ processing' /\ NoRepeats(queue')
    BY <1>1, <1>4, <2>3, AppendItem
  <2> QED
    BY <2>2, <2>4, QueuedIsElements DEF Exclusion
<1> QED
  BY <1>2, <1>3, <1>4 DEF Add

\* Done gives the item up, and queues it if it became dirty in the meantime.
LEMMA DoneExcludes ==
  ASSUME Types, Exclusion, NEW w \in Worker, Holds(w),
         NEW pc \in {"get", "requeue"}, NEW key \in Key \cup {NoKey},
         worker[w].key \in Key, Done(w, worker[w].key, pc, key), UNCHANGED dirty
  PROVE  Exclusion'
<1> DEFINE k == worker[w].key
           ws == [worker EXCEPT ![w] = [pc |-> pc, key |-> key]]
<1>1. worker \in Workers /\ queue \in Seq(Key) /\ k \in Key
  BY DEF Types, TypeOK, Workers, WorkerState
<1>2. /\ ws \in Workers
      /\ ws[w].pc \notin {"sync", "done", "failed", "asleep"}
      /\ \A v \in Worker \ {w} : ws[v] = worker[v]
  BY <1>1 DEF Workers, WorkerState, WorkerPC
<1>3. /\ processing' = processing \ {k}
      /\ \/ k \in dirty /\ queue' = Append(queue, k) /\ Signal(ws)
         \/ k \notin dirty /\ worker' = ws /\ UNCHANGED queue
  BY DEF Done
<1>4. k \in processing /\ \A v \in Worker \ {w} : Holds(v) => worker[v].key # k
  BY DEF Exclusion, ProcessingIsHeld, OneWorkerPerKey
<1>5. Elements(queue) = dirty \ processing /\ NoRepeats(queue)
  BY QueuedIsElements DEF Exclusion
<1> HIDE DEF k, ws
<1>6. /\ ~ Holds(w)'
      /\ \A v \in Worker \ {w} : /\ Holds(v)' <=> Holds(v)
                                 /\ Holds(v) => worker'[v].key = worker[v].key
  BY <1>2, <1>3, SignalWakes DEF Holds
<1>7. ProcessingIsHeld'
  <2>1. ASSUME NEW v \in Worker, Holds(v)' PROVE worker'[v].key \in processing'
    BY <1>3, <1>4, <1>6, <2>1 DEF Exclusion, ProcessingIsHeld, Holds
  <2>2. ASSUME NEW i \in processing' PROVE \E v \in Worker : Holds(v)' /\ worker'[v].key = i
    <3>1. PICK v \in Worker : Holds(v) /\ worker[v].key = i
      BY <1>3, <2>2 DEF Exclusion, ProcessingIsHeld
    <3>2. v # w
      BY <1>3, <2>2, <3>1 DEF k
    <3> QED
      BY <1>6, <3>1, <3>2 DEF Holds
  <2> QED
    BY <2>1, <2>2 DEF ProcessingIsHeld
<1>8. OneWorkerPerKey'
  BY <1>6 DEF Exclusion, OneWorkerPerKey, Holds
<1>9. Elements(queue') = dirty' \ processing' /\ NoRepeats(queue')
  <2>1. dirty \ processing' = (dirty \ processing) \cup ({k} \cap dirty)
    BY <1>3, <1>4
  <2>2. CASE k \in dirty /\ queue' = Append(queue, k)
    <3>1. Elements(queue') = Elements(queue) \cup {k} /\ NoRepeats(queue')
      BY <1>1, <1>4, <1>5, <2>2, AppendItem
    <3> QED
      BY <1>5, <2>1, <2>2, <3>1
  <2>3. CASE k \notin dirty /\ UNCHANGED queue
    BY <1>5, <2>1, <2>3
  <2> QED
    BY <1>3, <2>2, <2>3
<1> QED
  BY <1>7, <1>8, <1>9, QueuedIsElements DEF Exclusion

\* A worker's next step.  Only Get, FinishItem and FailItem change who holds what.
LEMMA WorkerExcludes ==
  ASSUME Types, Exclusion, NEW w \in Worker, WorkerStep(w)
  PROVE  Exclusion'
<1>1. /\ worker \in Workers /\ queue \in Seq(Key)
      /\ Elements(queue) = dirty \ processing /\ NoRepeats(queue)
  BY QueuedIsElements DEF Types, TypeOK, Workers, WorkerState, Exclusion
<1>2. CASE \/ Begin(w) \/ Sleep(w) \/ Exit(w)
           \/ SyncReturns(w) \/ SyncRechecks(w) \/ RequeueItem(w)
  <2>1. /\ UNCHANGED <<queue, dirty, processing>>
        /\ \A v \in Worker : /\ Holds(v)' <=> Holds(v)
                             /\ Holds(v) => worker'[v].key = worker[v].key
    BY <1>1, <1>2 DEF Begin, Sleep, Exit, SyncReturns, SyncRechecks, RequeueItem,
                      Goto, At, Holds, Workers, poolVars
  <2>2. QueueIsDirtyNotProcessing'
    BY <1>1, <2>1, QueuedIsElements
  <2> QED
    BY <2>1, <2>2, SameHolders DEF Exclusion
<1>3. CASE Get(w)
  <2> DEFINE k == Head(queue)
  <2>1. /\ Elements(queue) = Elements(Tail(queue)) \cup {k}
        /\ NoRepeats(Tail(queue)) /\ k \notin Elements(Tail(queue))
        /\ k \in Key
    BY <1>1, <1>3, TakeItem DEF Get
  <2>2. /\ ~ Holds(w)
        /\ worker' = [worker EXCEPT ![w] = [pc |-> "sync", key |-> k]]
        /\ processing' = processing \cup {k}
        /\ dirty' = dirty \ {k}
        /\ queue' = Tail(queue)
    BY <1>3 DEF Get, Goto, At, Holds
  <2> HIDE DEF k
  <2>3. /\ Holds(w)' /\ worker'[w].key = k
        /\ \A v \in Worker \ {w} : worker'[v] = worker[v]
    BY <1>1, <2>2 DEF Holds, Workers
  <2>4. k \notin processing
    BY <1>1, <2>1
  <2>5. ProcessingIsHeld'
    <3>1. ASSUME NEW v \in Worker, Holds(v)' PROVE worker'[v].key \in processing'
      BY <2>2, <2>3, <3>1 DEF Exclusion, ProcessingIsHeld, Holds
    <3>2. ASSUME NEW i \in processing'
          PROVE  \E v \in Worker : Holds(v)' /\ worker'[v].key = i
      <4>1. CASE i = k
        BY <2>3, <4>1
      <4>2. CASE i \in processing
        <5>1. PICK v \in Worker : Holds(v) /\ worker[v].key = i
          BY <4>2 DEF Exclusion, ProcessingIsHeld
        <5> QED
          BY <2>2, <2>3, <5>1 DEF Holds
      <4> QED
        BY <2>2, <3>2, <4>1, <4>2
    <3> QED
      BY <3>1, <3>2 DEF ProcessingIsHeld
  <2>6. OneWorkerPerKey'
    BY <2>2, <2>3, <2>4 DEF Exclusion, ProcessingIsHeld, OneWorkerPerKey, Holds
  <2>7. Elements(queue') = dirty' \ processing' /\ NoRepeats(queue')
    BY <1>1, <2>1, <2>2
  <2> QED
    BY <2>5, <2>6, <2>7, QueuedIsElements DEF Exclusion
<1>4. CASE FinishItem(w)
  <2>1. Holds(w) /\ worker[w].key \in Key
    BY <1>4 DEF FinishItem, At, Holds, Types, HasItem
  <2> QED
    BY <1>4, <2>1, DoneExcludes DEF FinishItem
<1>5. CASE FailItem(w)
  <2>1. Holds(w) /\ worker[w].key \in Key
    BY <1>5 DEF FailItem, At, Holds, Types, HasItem
  <2> QED
    BY <1>5, <2>1, DoneExcludes DEF FailItem
<1> QED
  BY <1>2, <1>3, <1>4, <1>5 DEF WorkerStep

\* Handlers, the clock, Start and the signal leave items where they are.
LEMMA OthersExclude ==
  ASSUME Types, Exclusion,
         \/ \E k \in Key : Handler(k) \/ Ready(k)
         \/ StartStep \/ Stop \/ UNCHANGED vars
  PROVE  Exclusion'
<1>1. worker \in Workers
  BY DEF Types, TypeOK, Workers, WorkerState
<1>2. ASSUME NEW k \in Key, HandlerAdds(k) \/ Ready(k) PROVE Exclusion'
  BY <1>2, AddExcludes DEF HandlerAdds, Ready
<1>3. CASE \/ \E k \in Key : HandlerAddsRateLimited(k)
           \/ StartStep \/ Stop \/ UNCHANGED vars
  <2>1. /\ UNCHANGED <<queue, dirty, processing>>
        /\ \A v \in Worker : /\ Holds(v)' <=> Holds(v)
                             /\ Holds(v) => worker'[v].key = worker[v].key
    <3>1. CASE \E w \in Worker : Launch(w)
      BY <1>1, <3>1 DEF Launch, Goto, At, Holds, Workers, poolVars
    <3>2. CASE ShutDown
      BY <1>1, <3>2 DEF ShutDown, At, Holds, Workers, WorkerState
    <3> QED
      BY <1>3, <3>1, <3>2
         DEF HandlerAddsRateLimited, StartStep, CachesSync, Launched, Return, Stop,
             vars, poolVars, Holds
  <2>2. QueueIsDirtyNotProcessing'
    BY <2>1, QueuedIsElements DEF Exclusion
  <2> QED
    BY <2>1, <2>2, SameHolders DEF Exclusion
<1> QED
  BY <1>2, <1>3 DEF Handler

LEMMA PoolExclusion == Spec => [](Types /\ Exclusion)
<1>1. Init => Types /\ Exclusion
  <2> SUFFICES ASSUME Init PROVE Types /\ Exclusion
    OBVIOUS
  <2>1. Types
    BY InitTypes
  <2>2. Elements(queue) = {} /\ NoRepeats(queue)
    BY DEF Init, Elements, NoRepeats
  <2> QED
    BY <2>1, <2>2, QueuedIsElements
       DEF Init, Exclusion, ProcessingIsHeld, OneWorkerPerKey, Holds
<1>2. Types /\ Exclusion /\ [Next]_vars => (Types /\ Exclusion)'
  BY NextTypes, WorkerExcludes, OthersExclude DEF Next
<1> QED
  BY <1>1, <1>2, PTL DEF Spec

\* No two workers run the handler of one key at the same time, however many
\* workers and keys there are: Get and Done of the workqueue are the only locks
\* the controllers have.
THEOREM KeysAreExclusive == Spec => []OneWorkerPerKey
<1>1. Exclusion => OneWorkerPerKey
  BY DEF Exclusion
<1> QED
  BY <1>1, PoolExclusion, PTL

\* The queue is what is dirty and not being processed, each item once.
THEOREM QueueHoldsTheRest == Spec => []QueueIsDirtyNotProcessing
<1>1. Exclusion => QueueIsDirtyNotProcessing
  BY DEF Exclusion
<1> QED
  BY <1>1, PoolExclusion, PTL

-----------------------------------------------------------------------------
\* What is left to do.

\* A key handed over stays known to the queue until Get returns it: Done does not
\* touch dirty, and only Ready takes it from the delayed ones.
THEOREM HandedOverIsKept == Spec => []RequestedIsKept
<1>1. Init => RequestedIsKept
  BY DEF Init, RequestedIsKept
<1>2. Types /\ RequestedIsKept /\ [Next]_vars => RequestedIsKept'
  <2> SUFFICES ASSUME Types, RequestedIsKept, [Next]_vars PROVE RequestedIsKept'
    OBVIOUS
  <2> USE DEF RequestedIsKept
  <2>1. CASE UNCHANGED vars
    BY <2>1 DEF vars
  <2>2. ASSUME NEW k \in Key, HandlerAdds(k) \/ Ready(k) PROVE RequestedIsKept'
    <3>1. ~ shuttingDown => dirty' = dirty \cup {k}
      BY <2>2 DEF HandlerAdds, Ready, Add
    <3> QED
      BY <2>2, <3>1 DEF HandlerAdds, Ready
  <2>3. ASSUME NEW k \in Key, HandlerAddsRateLimited(k) PROVE RequestedIsKept'
    BY <2>3 DEF HandlerAddsRateLimited, AddAfter
  <2>4. ASSUME NEW w \in Worker, Get(w) PROVE RequestedIsKept'
    BY <2>4 DEF Get
  <2>5. ASSUME NEW w \in Worker, SyncRechecks(w) \/ RequeueItem(w) PROVE RequestedIsKept'
    BY <2>5 DEF SyncRechecks, RequeueItem, AddAfter
  <2>6. ASSUME NEW w \in Worker,
               \/ Begin(w) \/ Sleep(w) \/ Exit(w) \/ SyncReturns(w)
               \/ FinishItem(w) \/ FailItem(w)
        PROVE  RequestedIsKept'
    BY <2>6 DEF Begin, Sleep, Exit, SyncReturns, FinishItem, FailItem, poolVars
  <2>7. CASE StartStep \/ Stop
    BY <2>7 DEF StartStep, CachesSync, Launched, ShutDown, Return, Launch, Stop, poolVars
  <2> QED
    BY <2>1, <2>2, <2>3, <2>4, <2>5, <2>6, <2>7 DEF Next, Handler, WorkerStep
<1> QED
  BY <1>1, <1>2, InitTypes, NextTypes, PTL DEF Spec

\* The workers that will come to Get without being woken.
Awake == {w \in Worker : worker[w].pc \in {"get", "sync", "done", "failed", "requeue"}}
NothingToWakeFor == queue = << >> \/ Asleep = {} \/ Awake # {}

LEMMA SleepersAndWork ==
  ASSUME Types
  PROVE  NobodySleepsOnWork <=> NothingToWakeFor
<1>1. queue \in Seq(Key)
  BY DEF Types, TypeOK
<1>2. CASE queue = << >>
  BY <1>2 DEF NobodySleepsOnWork, NothingToWakeFor, Queued
<1>3. CASE queue # << >>
  <2>1. Queued # {}
    BY <1>1, <1>3, TakeItem DEF Queued, Elements
  <2> QED
    BY <1>3, <2>1 DEF NobodySleepsOnWork, NothingToWakeFor, Awake
<1> QED
  BY <1>2, <1>3

\* Whatever Add finds: when it queues the item it signals, and either nobody
\* sleeps or the one it woke is on its way to Get.
LEMMA AddWakes ==
  ASSUME Types, NothingToWakeFor, NEW k \in Key, Add(k)
  PROVE  NothingToWakeFor'
<1>1. worker \in Workers
  BY DEF Types, TypeOK, Workers, WorkerState
<1>2. CASE UNCHANGED <<queue, worker>>
  BY <1>2 DEF NothingToWakeFor, Asleep, Awake, At
<1>3. CASE Signal(worker)
  BY <1>1, <1>3, SignalWakes DEF NothingToWakeFor, Asleep, Awake, At
<1> QED
  BY <1>2, <1>3 DEF Add

\* A worker that calls Done stays awake itself.
LEMMA DoneWakes ==
  ASSUME Types, NEW w \in Worker, NEW k, NEW pc \in {"get", "requeue"},
         NEW key \in Key \cup {NoKey}, Done(w, k, pc, key)
  PROVE  NothingToWakeFor'
<1> DEFINE ws == [worker EXCEPT ![w] = [pc |-> pc, key |-> key]]
<1>1. ws \in Workers /\ ws[w].pc = pc
  BY DEF Types, TypeOK, Workers, WorkerState, WorkerPC
<1>2. worker' = ws \/ Signal(ws)
  BY DEF Done
<1> HIDE DEF ws
<1>3. worker'[w].pc = pc
  BY <1>1, <1>2, SignalWakes
<1> QED
  BY <1>3 DEF NothingToWakeFor, Awake

\* No signal is lost: while items are queued and a worker sleeps in cond.Wait,
\* another one will call Get.
THEOREM SignalsAreNotLost == Spec => []NobodySleepsOnWork
<1>1. Init => NothingToWakeFor
  BY DEF Init, NothingToWakeFor
<1>2. Types /\ NothingToWakeFor /\ [Next]_vars => NothingToWakeFor'
  <2> SUFFICES ASSUME Types, NothingToWakeFor, [Next]_vars PROVE NothingToWakeFor'
    OBVIOUS
  <2>0. worker \in Workers
    BY DEF Types, TypeOK, Workers, WorkerState
  <2> USE DEF NothingToWakeFor, Asleep, Awake, At
  <2>1. CASE UNCHANGED vars
    BY <2>1 DEF vars
  <2>2. ASSUME NEW k \in Key, HandlerAdds(k) \/ Ready(k) PROVE NothingToWakeFor'
    BY <2>2, AddWakes DEF HandlerAdds, Ready
  <2>3. CASE \/ \E k \in Key : HandlerAddsRateLimited(k)
             \/ CachesSync \/ Launched \/ Return \/ Stop
    BY <2>3 DEF HandlerAddsRateLimited, CachesSync, Launched, Return, Stop, poolVars
  <2>4. ASSUME NEW w \in Worker, FinishItem(w) \/ FailItem(w) PROVE NothingToWakeFor'
    <3>1. worker[w].key \in Key
      BY <2>4 DEF FinishItem, FailItem, Types, HasItem
    <3> QED
      BY <2>4, <3>1, DoneWakes DEF FinishItem, FailItem
  <2>5. ASSUME NEW w \in Worker,
               Get(w) \/ SyncReturns(w) \/ SyncRechecks(w) \/ RequeueItem(w)
        PROVE  w \in Awake'
    BY <2>0, <2>5 DEF Get, SyncReturns, SyncRechecks, RequeueItem, Goto, Workers
  <2>6. ASSUME NEW w \in Worker, Sleep(w) \/ Exit(w) PROVE NothingToWakeFor'
    BY <2>6 DEF Sleep, Exit, poolVars
  <2>7. ASSUME NEW w \in Worker, Begin(w) \/ Launch(w) PROVE NothingToWakeFor'
    <3>1. /\ UNCHANGED queue
          /\ worker[w].pc \in {"unborn", "launched"}
          /\ worker'[w].pc \in {"launched", "skipped", "get"}
          /\ \A v \in Worker \ {w} : worker'[v] = worker[v]
      BY <2>0, <2>7 DEF Begin, Launch, Goto, Workers, poolVars
    <3> QED
      BY <3>1
  <2>8. CASE ShutDown
    BY <2>0, <2>8 DEF ShutDown, Workers, WorkerState
  <2> QED
    BY <2>1, <2>2, <2>3, <2>4, <2>5, <2>6, <2>7, <2>8
       DEF Next, Handler, WorkerStep, StartStep
<1>3. Types /\ NothingToWakeFor => NobodySleepsOnWork
  BY SleepersAndWork
<1> QED
  BY <1>1, <1>2, <1>3, InitTypes, NextTypes, PTL DEF Spec

\* A worker ends only when the queue is shutting down and empty, and the last one
\* to end leaves it empty: nothing is added any more, and Done is a worker's.
Draining ==
  /\ (\E w \in Worker : At(w, "exited")) => shuttingDown
  /\ Worker # {} /\ (\A w \in Worker : At(w, "exited")) => queue = << >>
  /\ start = "returned" => \A w \in Worker : At(w, "exited")

\* A step after which no other worker has ended, and those that had still have.
LEMMA SameEnds ==
  ASSUME Draining, shuttingDown => shuttingDown', start' = start \/ start' # "returned",
         \A w \in Worker : At(w, "exited")' <=> At(w, "exited"),
         UNCHANGED queue \/ \E w \in Worker : ~ At(w, "exited")
  PROVE  Draining'
BY DEF Draining

\* Add does nothing any more once a worker has ended.
LEMMA AddDrains ==
  ASSUME Types, Draining, NEW k \in Key, Add(k), UNCHANGED <<shuttingDown, start>>
  PROVE  Draining'
<1>1. worker \in Workers
  BY DEF Types, TypeOK, Workers, WorkerState
<1>2. CASE UNCHANGED <<queue, worker>>
  BY <1>2, SameEnds DEF At
<1>3. CASE Signal(worker) /\ ~ shuttingDown
  <2>1. \A w \in Worker : ~ At(w, "exited")
    BY <1>3 DEF Draining
  <2>2. \A w \in Worker : At(w, "exited")' <=> At(w, "exited")
    BY <1>1, <1>3, SignalWakes DEF At
  <2>3. CASE Worker = {}
    BY <2>3 DEF Draining, At
  <2>4. CASE Worker # {}
    BY <2>1, <2>2, <2>4, SameEnds
  <2> QED
    BY <2>3, <2>4
<1> QED
  BY <1>2, <1>3 DEF Add

LEMMA WorkerDrains ==
  ASSUME Types, Draining, NEW w \in Worker, WorkerStep(w)
  PROVE  Draining'
<1>1. worker \in Workers
  BY DEF Types, TypeOK, Workers, WorkerState
<1>2. CASE Exit(w)
  <2>1. /\ shuttingDown /\ queue = << >> /\ UNCHANGED <<shuttingDown, queue, start>>
        /\ \A v \in Worker : At(v, "exited") => At(v, "exited")'
    BY <1>1, <1>2 DEF Exit, Goto, At, Workers, poolVars
  <2> QED
    BY <2>1 DEF Draining
<1>3. CASE \/ Begin(w) \/ Get(w) \/ Sleep(w) \/ SyncReturns(w) \/ SyncRechecks(w)
           \/ RequeueItem(w)
  <2>1. /\ UNCHANGED <<shuttingDown, start>>
        /\ ~ At(w, "exited") /\ ~ At(w, "exited")'
        /\ \A v \in Worker \ {w} : At(v, "exited")' <=> At(v, "exited")
    BY <1>1, <1>3 DEF Begin, Get, Sleep, SyncReturns, SyncRechecks, RequeueItem,
                      Goto, At, Workers, poolVars
  <2> QED
    BY <2>1, SameEnds
<1>4. CASE FinishItem(w) \/ FailItem(w)
  <2>1. /\ UNCHANGED <<shuttingDown, start>>
        /\ ~ At(w, "exited")
        /\ worker[w].key \in Key
        /\ \E pc \in {"get", "requeue"}, key \in Key \cup {NoKey} :
             Done(w, worker[w].key, pc, key)
    BY <1>4 DEF FinishItem, FailItem, At, Types, HasItem
  <2>2. PICK pc \in {"get", "requeue"}, key \in Key \cup {NoKey} :
          Done(w, worker[w].key, pc, key)
    BY <2>1
  <2> DEFINE ws == [worker EXCEPT ![w] = [pc |-> pc, key |-> key]]
  <2>3. /\ ws \in Workers
        /\ worker' = ws \/ Signal(ws)
        /\ ws[w].pc # "exited"
        /\ \A v \in Worker \ {w} : ws[v] = worker[v]
    BY <1>1, <2>2 DEF Done, Workers, WorkerState, WorkerPC
  <2> HIDE DEF ws
  <2>4. \A v \in Worker : At(v, "exited")' <=> At(v, "exited")
    BY <2>1, <2>3, SignalWakes DEF At
  <2> QED
    BY <2>1, <2>4, SameEnds
<1> QED
  BY <1>2, <1>3, <1>4 DEF WorkerStep

LEMMA StartDrains ==
  ASSUME Types, Draining,
         (\E k \in Key : HandlerAddsRateLimited(k)) \/ StartStep \/ Stop \/ UNCHANGED vars
  PROVE  Draining'
<1>1. worker \in Workers
  BY DEF Types, TypeOK, Workers, WorkerState
<1>2. CASE \/ \E k \in Key : HandlerAddsRateLimited(k)
           \/ CachesSync \/ Launched \/ Stop \/ UNCHANGED vars
  BY <1>2, SameEnds DEF HandlerAddsRateLimited, CachesSync, Launched, Stop, vars, poolVars, At
<1>3. CASE Return
  BY <1>3 DEF Return, Draining, At, poolVars
<1>4. CASE ShutDown
  <2>1. \A w \in Worker : At(w, "exited")' <=> At(w, "exited")
    BY <1>1, <1>4 DEF ShutDown, At, Workers, WorkerState
  <2> QED
    BY <1>4, <2>1, SameEnds DEF ShutDown
<1>5. ASSUME NEW w \in Worker, Launch(w) PROVE Draining'
  <2>1. \A v \in Worker : At(v, "exited")' <=> At(v, "exited")
    BY <1>1, <1>5 DEF Launch, Goto, At, Workers
  <2> QED
    BY <1>5, <2>1, SameEnds DEF Launch, poolVars
<1> QED
  BY <1>2, <1>3, <1>4, <1>5 DEF StartStep

\* "As soon as the worker goroutines have drained the existing items in the
\* queue, they will be instructed to exit": with at least one worker, Start
\* returns only when no item is queued, dirty or being processed.
THEOREM ReturnsDrained ==
  ASSUME Worker # {}
  PROVE  Spec => []DrainedWhenReturned
<1>1. Init => Draining
  BY DEF Init, Draining, At
<1>2. Types /\ Draining /\ [Next]_vars => Draining'
  <2> SUFFICES ASSUME Types, Draining, [Next]_vars PROVE Draining'
    OBVIOUS
  <2>1. ASSUME NEW k \in Key, HandlerAdds(k) \/ Ready(k) PROVE Draining'
    BY <2>1, AddDrains DEF HandlerAdds, Ready
  <2> QED
    BY <2>1, WorkerDrains, StartDrains DEF Next, Handler
<1>3. Exclusion /\ Draining => DrainedWhenReturned
  <2> SUFFICES ASSUME Exclusion, Draining, start = "returned"
               PROVE  queue = << >> /\ dirty = {} /\ processing = {}
    BY DEF DrainedWhenReturned
  <2>1. queue = << >> /\ \A w \in Worker : ~ Holds(w)
    BY DEF Draining, At, Holds
  <2>2. processing = {}
    BY <2>1 DEF Exclusion, ProcessingIsHeld
  <2>3. Elements(queue) = {}
    BY <2>1 DEF Elements
  <2> QED
    BY <2>1, <2>2, <2>3, QueuedIsElements DEF Exclusion
<1> QED
  BY <1>1, <1>2, <1>3, PoolExclusion, PTL DEF Spec
-----------------------------------------------------------------------------
\* The abstraction.

\* Every step of handlers, timers and workers is one of KeyQueue or none.
LEMMA HandlerMaps ==
  ASSUME NEW k \in Key, Handler(k) \/ Ready(k)
  PROVE  KQ!HandOver(k) \/ UNCHANGED KQ!vars
<1> USE DEF KQ!HandOver, KQ!vars
<1>1. CASE HandlerAdds(k)
  <2>1. dirty' = IF shuttingDown THEN dirty ELSE dirty \cup {k}
    BY <1>1 DEF HandlerAdds, Add
  <2> QED
    BY <1>1, <2>1 DEF HandlerAdds
<1>2. CASE HandlerAddsRateLimited(k)
  BY <1>2 DEF HandlerAddsRateLimited, AddAfter
<1>3. CASE Ready(k)
  <2>1. dirty' = dirty \cup {k} /\ delayed' = delayed \ {k}
    BY <1>3 DEF Ready, Add
  <2> QED
    BY <1>3, <2>1 DEF Ready
<1> QED
  BY <1>1, <1>2, <1>3 DEF Handler

\* Get is Take: what the queue holds is dirty and not being processed.  Done is
\* Finish, and the two ways to come back later are HandOver.
LEMMA WorkerMaps ==
  ASSUME Types, Exclusion, NEW w \in Worker, WorkerStep(w)
  PROVE  (\E k \in Key : KQ!HandOver(k) \/ KQ!Take(k) \/ KQ!Finish(k))
           \/ UNCHANGED KQ!vars
<1> USE DEF KQ!HandOver, KQ!Take, KQ!Finish, KQ!vars
<1>1. CASE Begin(w) \/ Sleep(w) \/ Exit(w) \/ SyncReturns(w)
  <2>1. UNCHANGED <<dirty, delayed, processing, shuttingDown>>
    BY <1>1 DEF Begin, Sleep, Exit, SyncReturns, poolVars
  <2> QED
    BY <2>1
<1>2. CASE Get(w)
  <2>1. PICK k \in Key : k = Head(queue) /\ k \in Elements(queue)
    BY <1>2, TakeItem DEF Get, Types, TypeOK
  <2>2. k \in dirty /\ k \notin processing
    BY <2>1, QueuedIsElements DEF Exclusion
  <2>3. KQ!Take(k)
    BY <1>2, <2>1, <2>2 DEF Get
  <2> QED
    BY <2>3
<1>3. CASE SyncRechecks(w) \/ RequeueItem(w)
  <2>1. PICK k \in Key : k = worker[w].key
    BY <1>3 DEF SyncRechecks, RequeueItem, Types, HasItem, At
  <2>2. KQ!HandOver(k) \/ UNCHANGED KQ!vars
    BY <1>3, <2>1 DEF SyncRechecks, RequeueItem, AddAfter
  <2> QED
    BY <2>2
<1>4. CASE FinishItem(w) \/ FailItem(w)
  <2>1. PICK k \in Key : k = worker[w].key
    BY <1>4 DEF FinishItem, FailItem, Types, HasItem, At
  <2>2. k \in processing
    BY <1>4, <2>1 DEF FinishItem, FailItem, Exclusion, ProcessingIsHeld, Holds, At
  <2>3. processing' = processing \ {k} /\ UNCHANGED <<dirty, delayed, shuttingDown>>
    BY <1>4, <2>1 DEF FinishItem, FailItem, Done
  <2>4. KQ!Finish(k)
    BY <2>2, <2>3
  <2> QED
    BY <2>4
<1> QED
  BY <1>1, <1>2, <1>3, <1>4 DEF WorkerStep

\* ShutDown is Close, all else that Start does is not seen.
LEMMA StartMaps ==
  ASSUME StartStep \/ Stop
  PROVE  KQ!Close \/ UNCHANGED KQ!vars
<1> USE DEF KQ!Close, KQ!vars
<1>1. CASE ShutDown
  <2>1. shuttingDown' = TRUE /\ UNCHANGED <<dirty, delayed, processing>>
    BY <1>1 DEF ShutDown
  <2> QED
    BY <2>1
<1>2. CASE CachesSync \/ Launched \/ Return \/ Stop \/ \E w \in Worker : Launch(w)
  <2>1. UNCHANGED <<dirty, delayed, processing, shuttingDown>>
    BY <1>2 DEF CachesSync, Launched, Return, Stop, Launch, poolVars
  <2> QED
    BY <2>1
<1> QED
  BY <1>1, <1>2 DEF StartStep

\* The workqueue, its timers and any number of workers implement KeyQueue, which
\* is all that the models of the controllers assume of them.
THEOREM PoolIsKeyQueue == Spec => IsKeyQueue
<1>1. Init => KQ!Init
  BY DEF Init, KQ!Init
<1>2. Types /\ Exclusion /\ [Next]_vars => [KQ!Next]_(KQ!vars)
  <2> SUFFICES ASSUME Types, Exclusion, [Next]_vars PROVE KQ!Next \/ UNCHANGED KQ!vars
    OBVIOUS
  <2>1. CASE UNCHANGED vars
    BY <2>1 DEF vars, KQ!vars
  <2>2. ASSUME NEW k \in Key, Handler(k) \/ Ready(k) PROVE KQ!Next \/ UNCHANGED KQ!vars
    BY <2>2, HandlerMaps DEF KQ!Next
  <2>3. ASSUME NEW w \in Worker, WorkerStep(w) PROVE KQ!Next \/ UNCHANGED KQ!vars
    BY <2>3, WorkerMaps DEF KQ!Next
  <2>4. CASE StartStep \/ Stop
    BY <2>4, StartMaps DEF KQ!Next
  <2> QED
    BY <2>1, <2>2, <2>3, <2>4 DEF Next
<1> QED
  BY <1>1, <1>2, PoolExclusion, PTL DEF Spec, IsKeyQueue, KQ!Spec
=============================================================================
