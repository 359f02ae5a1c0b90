------------------------ MODULE ControlIngressProofs ------------------------
(***************************************************************************)
(* What becomes of the control Ingresses, for every set of keys and TLS    *)
(* sections and any number of user operations, faults and crashes:         *)
(*   - they hold copies of what their own target has had, and only what a  *)
(*     user has withdrawn is taken away, secrets included (Replication);   *)
(*   - with one ingress worker they ask for the DNS provider that copyTLS  *)
(*     finds;                                                              *)
(*   - the cleaner loses sight of none of them, as long as no watch breaks.*)
(***************************************************************************)
EXTENDS IngressReplicationProofs

-----------------------------------------------------------------------------
\* Everything there is of a control Ingress: in its cluster, on its way to the
\* cache, in the cache, with a worker.
Objects(k) ==
  {control[k], cCache[k]} \cup Members(cStream[k]) \cup {task[a][k].object : a \in Actor}

\* What a step leaves a worker with: what it had or nothing, what it read of the
\* target, what it read of the control Ingress, the copy it made of its source,
\* the same object with another provider or other settings, the secrets to delete.
Keeps(k, t, u) ==
  /\ u.source = t.source /\ u.object = t.object
  /\ \/ t.pc = "write" /\ u.pc = "render" /\ SetProvider(k)
     \/ t.pc = "check" /\ u.pc = "delete"
ReadsTarget(a, k, u) ==
  a = "ingress" /\ SyncStart(k) /\ u = [Idle EXCEPT !.pc = "lookup", !.source = tCache[k]]
ReadsControl(a, k, t, u) ==
  /\ u.pc \in {"check", "delete"} /\ u.source = Absent /\ u.object = cCache[k]
  /\ a = "ingress" => t.pc = "lookup"
Copied(a, k, t, u) ==
  /\ a = "ingress" /\ t.pc = "lookup" /\ t.source # Absent
  /\ u.pc \in {"write", "update"} /\ u.source = Absent /\ u.object # Absent
  /\ u.pc = "write" => u.object.tls # << >>
  /\ \E copy \in CopyTLS(t.source.tls) :
       u.object.tls = PrefixWithNamespace(copy.tls, k[1]) /\ u.object.provider = copy.provider
Rendered(a, k, t, u) ==
  /\ a = "ingress" /\ t.pc = "render"
  /\ u.pc = "create" /\ u.source = t.source /\ u.object # Absent
  /\ u.object.tls = t.object.tls
  /\ u.object.provider \in {template} \cup Torn(Key \ {k}, template)
Renewed(a, t, u) ==
  /\ a = "cleaner" /\ UpdateControlIngress
  /\ u.pc = "update" /\ u.source = t.source /\ u.object # Absent
  /\ t.object # Absent /\ u.object.tls = t.object.tls
Deleting(t, u) ==
  /\ u.pc = "secrets" /\ u.source \in {t.source, Absent} /\ u.object \in {t.object, Absent}
  /\ \/ t.pc = "delete" /\ t.object # Absent /\ u.todo = SecretNames(t.object.tls)
     \/ t.pc = "secrets" /\ u.todo = Tail(t.todo)

NewTask(a, k) ==
  LET t == task[a][k]
      u == task'[a][k]
  IN  \/ u \in {t, Idle}
      \/ Keeps(k, t, u)
      \/ ReadsTarget(a, k, u)
      \/ ReadsControl(a, k, t, u)
      \/ Copied(a, k, t, u)
      \/ Rendered(a, k, t, u)
      \/ Renewed(a, t, u)
      \/ Deleting(t, u)

-----------------------------------------------------------------------------
\* Where the objects of the next state come from.

SameAs(p, o) == o # Absent => p # Absent /\ o.tls = p.tls /\ o.provider = p.provider

\* The caches and streams move within what there is.
LEMMA ViewsMove ==
  ASSUME Types, Restart \/ ToControl, NEW k \in Key
  PROVE  {control'[k], cCache'[k]} \cup Members(cStream'[k])
           \subseteq {Absent, control[k], cCache[k]} \cup Members(cStream[k])
<1>1. cStream[k] \in Seq(ControlState) /\ cCache[k] \in ControlState
  BY DEF Types, ControlTypes, CacheTypes
<1>2. CASE Restart
  <2>1. UNCHANGED control[k] /\ cCache'[k] = Absent
        /\ cStream'[k] \in {<<cCache[k]>> \o cStream[k], cStream[k]}
    BY <1>2 DEF Restart, Nothing
  <2>2. Members(<<cCache[k]>> \o cStream[k]) = Members(cStream[k]) \cup {cCache[k]}
    BY <1>1, PrependMembers
  <2> QED
    BY <2>1, <2>2
<1>3. CASE ToControl
  <2>1. PICK keys, pos :
          /\ keys \subseteq Key
          /\ DOMAIN pos = keys
          /\ \A i \in keys : pos[i] \in DOMAIN cStream[i]
          /\ SeeControl(pos)
    BY <1>3 DEF ToControl
  <2>2. CASE k \notin keys
    BY <2>1, <2>2 DEF SeeControl, Seen, Unseen
  <2>3. CASE k \in keys
    <3>1. /\ cCache'[k] = cStream[k][pos[k]]
          /\ cStream'[k] = SubSeq(cStream[k], pos[k] + 1, Len(cStream[k]))
          /\ UNCHANGED control
      BY <2>1, <2>3 DEF SeeControl, Seen, Unseen
    <3>2. cCache'[k] \in Members(cStream[k]) /\ Members(cStream'[k]) \subseteq Members(cStream[k])
      BY <1>1, <2>1, <2>3, <3>1, SuffixMembers DEF Members
    <3> QED
      BY <3>1, <3>2
  <2> QED
    BY <2>2, <2>3
<1> QED
  BY <1>2, <1>3

\* A store puts the worker's object, or its absence, into cluster and stream.
LEMMA StoresMove ==
  ASSUME Types, NEW b \in Actor, NEW i \in Key, NEW k \in Key, Writes(b, i) \/ Deletes(b, i),
         UNCHANGED cCache
  PROVE  \A o \in {control'[k], cCache'[k]} \cup Members(cStream'[k]) :
           \E p \in Objects(k) : SameAs(p, o)
<1>1. /\ cStream[k] \in Seq(ControlState) /\ control \in [Key -> ControlState]
      /\ cStream \in [Key -> Seq(ControlState)] /\ task[b][i] \in GoodTask
      /\ rev[i] + 1 \in Nat
  BY DEF Types, ControlTypes, WorkTypes, Tasks
<1>2. {control[k], cCache[k], task[b][k].object} \cup Members(cStream[k]) \subseteq Objects(k)
  BY DEF Objects
<1>3. PICK x \in ControlState :
        Store(i, x) /\ SameAs(task[b][i].object, x)
  <2>1. CASE Writes(b, i)
    <3> DEFINE o == task[b][i].object
               x == [o EXCEPT !.rv = rev[i] + 1]
    <3>1. o \in ControlIngress
      BY <1>1, <2>1 DEF Writes, At, GoodTask
    <3>2. x \in ControlIngress /\ x.tls = o.tls /\ x.provider = o.provider /\ o # Absent
      BY <1>1, <3>1, AbsentAssumption DEF ControlIngress
    <3>3. Store(i, x)
      BY <2>1 DEF Writes
    <3> HIDE DEF x
    <3> QED
      BY <3>2, <3>3 DEF SameAs, ControlState
  <2>2. CASE Deletes(b, i)
    BY <2>2 DEF Deletes, SameAs, ControlState
  <2> QED
    BY <2>1, <2>2
<1>4. CASE k # i
  BY <1>1, <1>2, <1>3, <1>4 DEF Store, SameAs
<1>5. CASE k = i
  <2>1. control'[k] = x /\ cStream'[k] = Append(cStream[k], x)
    BY <1>1, <1>3, <1>5 DEF Store
  <2>2. Members(cStream'[k]) = Members(cStream[k]) \cup {x}
    BY <1>1, <2>1, AppendMembers
  <2> QED
    BY <1>2, <1>3, <1>5, <2>1, <2>2 DEF SameAs
<1> QED
  BY <1>4, <1>5

LEMMA ObjectsMove ==
  ASSUME Types, [Next]_vars, NEW k \in Key, NEW o \in Objects(k)'
  PROVE  \/ \E p \in Objects(k) : SameAs(p, o)
         \/ \E a \in Actor : o = task'[a][k].object
<1> DEFINE Around == {control[k], cCache[k]} \cup Members(cStream[k])
<1>1. {control'[k], cCache'[k]} \cup Members(cStream'[k]) = Around'
  OBVIOUS
<1>2. Around \subseteq Objects(k) /\ o \in Around' \cup {task'[a][k].object : a \in Actor}
  BY DEF Objects
<1>3. Objects(k) # {} /\ \A p : SameAs(p, p)
  BY DEF Objects, SameAs
<1>4. CASE UNCHANGED <<control, cCache, cStream>>
  BY <1>2, <1>3, <1>4
<1>5. CASE Restart \/ ToControl
  <2>1. Around' \subseteq {Absent} \cup Around
    BY <1>5, ViewsMove
  <2>2. \A p : SameAs(p, Absent)
    BY DEF SameAs
  <2> QED
    BY <1>2, <1>3, <2>1, <2>2
<1>6. ASSUME NEW b \in Actor, NEW i \in Key, WorkerStep(b, i)
      PROVE  \/ UNCHANGED <<control, cCache, cStream>>
             \/ \A q \in Around' : \E p \in Objects(k) : SameAs(p, q)
  <2>1. UNCHANGED cCache /\ (UNCHANGED controlVars \/ Writes(b, i) \/ Deletes(b, i))
    BY <1>6 DEF WorkerStep, cacheVars
  <2>2. CASE UNCHANGED controlVars
    BY <2>1, <2>2 DEF controlVars
  <2>3. CASE Writes(b, i) \/ Deletes(b, i)
    BY <2>1, <2>3, StoresMove
  <2> QED
    BY <2>1, <2>2, <2>3
<1>7. \/ UNCHANGED <<control, cCache, cStream>> \/ Restart \/ ToControl
      \/ \E b \in Actor, i \in Key : WorkerStep(b, i)
  <2>1. CASE \/ UNCHANGED vars \/ Minor
             \/ (\E i \in Key : User(i)) \/ (\E i \in Key : Starts(i))
             \/ (ToTarget /\ UNCHANGED <<task, controlVars, cCache>>)
    BY ZenonT(60), <2>1 DEF vars, Minor, Issue, Add, User, Create, Edit, Revert, Label, Unlabel, Delete,
                UserOp, Starts, SyncStart, CleanerStart, controlVars, cacheVars
  <2>2. UNCHANGED vars \/ Next
    OBVIOUS
  <2> QED
    BY <2>1, <2>2, NextSteps
<1> QED
  BY <1>2, <1>4, <1>5, <1>6, <1>7

-----------------------------------------------------------------------------
\* What a step leaves a worker with.

LEMMA OthersKeepTheirs ==
  ASSUME Types, NEW b \in Actor, NEW i \in Key, NEW u, task' = [task EXCEPT ![b][i] = u],
         NEW a \in Actor, NEW k \in Key,
         NewTask(b, i)
  PROVE  NewTask(a, k)
<1>1. CASE a = b /\ k = i
  BY <1>1
<1>2. CASE ~ (a = b /\ k = i)
  BY <1>2 DEF Types, WorkTypes, Tasks, NewTask
<1> QED
  BY <1>1, <1>2

LEMMA EndedTask ==
  ASSUME Types, NEW a \in Actor, NEW k \in Key, NEW i \in Key, NEW b \in Actor,
         Finish(b, i) \/ Requeue(b, i)
  PROVE  NewTask(a, k)
<1>1. task' = [task EXCEPT ![b][i] = Idle]
  BY DEF Finish, Requeue
<1>2. NewTask(b, i)
  BY <1>1 DEF NewTask, Types, WorkTypes, Tasks
<1> QED
  BY <1>1, <1>2, OthersKeepTheirs

LEMMA ReadTasks ==
  ASSUME Types, NEW a \in Actor, NEW k \in Key, NEW i \in Key, Starts(i)
  PROVE  NewTask(a, k)
<1> DEFINE u == [Idle EXCEPT !.pc = "lookup", !.source = tCache[i]]
           v == [Idle EXCEPT !.pc = "check", !.object = cCache[i]]
<1>1. task \in Tasks /\ "ingress" \in Actor /\ "cleaner" \in Actor
  BY DEF Types, WorkTypes, Actor
<1>2. CASE SyncStart(i)
  <2>1. task' = [task EXCEPT !["ingress"][i] = u]
    BY <1>2 DEF SyncStart
  <2>2. task'["ingress"][i] = u
    BY <1>1, <2>1 DEF Tasks
  <2>3. NewTask("ingress", i)
    BY <1>2, <2>2 DEF NewTask, ReadsTarget
  <2> QED
    BY <1>1, <2>1, <2>3, OthersKeepTheirs
<1>3. CASE CleanerStart(i)
  <2>1. v.pc = "check" /\ v.source = Absent /\ v.object = cCache[i]
    BY DEF Idle
  <2>2. CASE task' = task
    BY <2>2 DEF NewTask
  <2>3. CASE task' = [task EXCEPT !["cleaner"][i] = v]
    <3> HIDE DEF v
    <3>1. task'["cleaner"][i] = v
      BY <1>1, <2>3 DEF Tasks
    <3>2. NewTask("cleaner", i)
      BY <2>1, <3>1 DEF NewTask, ReadsControl
    <3> QED
      BY <1>1, <2>3, <3>2, OthersKeepTheirs
  <2> QED
    BY <1>3, <2>2, <2>3 DEF CleanerStart
<1> QED
  BY <1>2, <1>3 DEF Starts

LEMMA LookupTasks ==
  ASSUME Types, NEW a \in Actor, NEW k \in Key, NEW i \in Key, LookupOrphan(i) \/ Lookup(i)
  PROVE  NewTask(a, k)
<1>1. task \in Tasks /\ "ingress" \in Actor /\ cCache[i] \in ControlState
  BY DEF Types, WorkTypes, CacheTypes, Actor
<1>2. CASE LookupOrphan(i)
  <2> DEFINE u == [Idle EXCEPT !.pc = "delete", !.object = cCache[i]]
  <2>1. u.pc = "delete" /\ u.source = Absent /\ u.object = cCache[i]
    BY DEF Idle
  <2>2. CASE Finish("ingress", i)
    BY <1>1, <2>2, EndedTask
  <2>3. CASE task' = [task EXCEPT !["ingress"][i] = u]
    <3> HIDE DEF u
    <3>1. task'["ingress"][i] = u
      BY <1>1, <2>3 DEF Tasks
    <3>2. NewTask("ingress", i)
      BY <1>2, <2>1, <3>1 DEF NewTask, ReadsControl, LookupOrphan, At
    <3> QED
      BY <1>1, <2>3, <3>2, OthersKeepTheirs
  <2> QED
    BY <1>2, <2>2, <2>3 DEF LookupOrphan
<1>3. CASE Lookup(i)
  <2> DEFINE source == task.ingress[i].source
  <2>1. source # Absent /\ task["ingress"][i].pc = "lookup"
    BY <1>3 DEF Lookup, At
  <2>2. PICK copy \in CopyTLS(source.tls) :
          LET tls == PrefixWithNamespace(copy.tls, i[1])
              next(pc, object) ==
                /\ task' = [task EXCEPT !.ingress[i] =
                              [Idle EXCEPT !.pc = pc, !.object = object]]
                /\ UNCHANGED queue
          IN \/ /\ cCache[i] = Absent
                /\ IF tls = << >>
                   THEN Finish("ingress", i)
                   ELSE next("write", [tls |-> tls, provider |-> copy.provider,
                                       settings |-> boot, rv |-> 0])
             \/ /\ cCache[i] # Absent
                /\ IF DeepEqual(source.tls, cCache[i].tls, i[1])
                   THEN Finish("ingress", i)
                   ELSE next("update", WithTLS(cCache[i], tls, copy.provider))
    BY <1>3 DEF Lookup
  <2> DEFINE tls == PrefixWithNamespace(copy.tls, i[1])
             new == [tls |-> tls, provider |-> copy.provider, settings |-> boot, rv |-> 0]
             changed == WithTLS(cCache[i], tls, copy.provider)
             task2(pc, object) == [Idle EXCEPT !.pc = pc, !.object = object]
  <2>3. source \in TargetState
    BY <1>1 DEF Tasks, GoodTask, TaskState
  <2>4. /\ new \in ControlIngress
        /\ \A object \in ControlIngress : WithTLS(object, tls, copy.provider) \in ControlIngress
    BY <2>1, <2>3, LookupObject
  <2>5. new # Absent /\ new.tls = tls /\ new.provider = copy.provider
    BY <2>4, AbsentAssumption
  <2>6. ASSUME cCache[i] # Absent
        PROVE  changed # Absent /\ changed.tls = tls /\ changed.provider = copy.provider
    <3>1. cCache[i] \in ControlIngress /\ changed \in ControlIngress
      BY <1>1, <2>4, <2>6 DEF ControlState
    <3> QED
      BY <3>1, AbsentAssumption DEF WithTLS, ControlIngress
  <2>7. ASSUME NEW pc \in {"write", "update"}, NEW object, object # Absent,
               object.tls = tls, object.provider = copy.provider,
               pc = "write" => tls # << >>,
               task' = [task EXCEPT !["ingress"][i] = task2(pc, object)]
        PROVE  NewTask(a, k)
    <3> DEFINE u == task2(pc, object)
    <3>1. u.pc = pc /\ u.object = object /\ u.source = Absent
      BY DEF Idle
    <3> HIDE DEF u, tls
    <3>2. task'["ingress"][i] = u
      BY <1>1, <2>7 DEF Tasks, u
    <3>3. Copied("ingress", i, task["ingress"][i], u)
      BY <2>1, <2>2, <2>7, <3>1 DEF Copied, tls
    <3>4. NewTask("ingress", i)
      BY <3>2, <3>3 DEF NewTask
    <3>5. task' = [task EXCEPT !["ingress"][i] = u]
      BY <2>7 DEF u
    <3> HIDE DEF task2
    <3> QED
      BY <1>1, <3>4, <3>5, OthersKeepTheirs
  <2>8. \/ Finish("ingress", i)
        \/ tls # << >> /\ task' = [task EXCEPT !["ingress"][i] = task2("write", new)]
        \/ cCache[i] # Absent /\ task' = [task EXCEPT !["ingress"][i] = task2("update", changed)]
    <3> HIDE DEF new, changed, tls
    <3> QED
      BY <2>2 DEF new, changed, tls
  <2> HIDE DEF new, changed, tls, task2
  <2> QED
    BY <1>1, <2>5, <2>6, <2>7, <2>8, EndedTask
<1> QED
  BY <1>2, <1>3

LEMMA ProviderTasks ==
  ASSUME Types, NEW a \in Actor, NEW k \in Key, NEW i \in Key, SetProvider(i) \/ Render(i)
  PROVE  NewTask(a, k)
<1> DEFINE t == task["ingress"][i]
<1>1. task \in Tasks /\ "ingress" \in Actor /\ t \in GoodTask
  BY DEF Types, WorkTypes, Tasks, Actor
<1>2. CASE SetProvider(i)
  <2> DEFINE u == [t EXCEPT !.pc = "render"]
  <2>1. u.pc = "render" /\ u.source = t.source /\ u.object = t.object
    BY <1>1 DEF GoodTask, TaskState
  <2>2. task' = [task EXCEPT !["ingress"][i] = u] /\ t.pc = "write"
    BY <1>2 DEF SetProvider, Goto, At
  <2> HIDE DEF u
  <2>3. task'["ingress"][i] = u
    BY <1>1, <2>2 DEF Tasks
  <2>4. NewTask("ingress", i)
    BY <1>2, <2>1, <2>2, <2>3 DEF NewTask, Keeps
  <2> QED
    BY <1>1, <2>2, <2>4, OthersKeepTheirs
<1>3. CASE Render(i)
  <2>1. PICK p \in {template} \cup Torn(Key \ {i}, template) :
          task' = [task EXCEPT !.ingress[i].pc = "create", !.ingress[i].object.provider = p]
    BY <1>3 DEF Render
  <2> DEFINE u == [t EXCEPT !.pc = "create", !.object.provider = p]
  <2>2. t.pc = "render" /\ t.object \in ControlIngress
    BY <1>1, <1>3 DEF Render, At, GoodTask
  <2>3. /\ u.pc = "create" /\ u.source = t.source
        /\ u.object = [t.object EXCEPT !.provider = p]
    BY <1>1 DEF GoodTask, TaskState
  <2>4. u.object # Absent /\ u.object.tls = t.object.tls /\ u.object.provider = p
    <3>1. p \in Provider \cup {NoProvider, Garbled}
      BY DEF Torn, Types, WorkTypes, Templates
    <3>2. u.object \in ControlIngress
      BY <2>2, <2>3, <3>1 DEF ControlIngress
    <3> QED
      BY <2>2, <2>3, <3>2, AbsentAssumption DEF ControlIngress
  <2>5. task' = [task EXCEPT !["ingress"][i] = u]
    BY ZenonT(60), <1>1, <2>1 DEF Tasks
  <2> HIDE DEF u
  <2>6. task'["ingress"][i] = u
    BY <1>1, <2>5 DEF Tasks
  <2>7. NewTask("ingress", i)
    BY <2>2, <2>3, <2>4, <2>6 DEF NewTask, Rendered
  <2> QED
    BY <1>1, <2>5, <2>7, OthersKeepTheirs
<1> QED
  BY <1>2, <1>3

LEMMA CheckTasks ==
  ASSUME Types, NEW a \in Actor, NEW k \in Key, NEW i \in Key, FindOrphan(i) \/ FindCounterpart(i)
  PROVE  NewTask(a, k)
<1> DEFINE t == task["cleaner"][i]
<1>1. task \in Tasks /\ "cleaner" \in Actor /\ t \in GoodTask /\ t.pc = "check"
      /\ template \in Templates /\ boot \in Nat
  BY DEF Types, WorkTypes, Tasks, Actor, FindOrphan, FindCounterpart, At
<1>2. CASE FindOrphan(i)
  <2> DEFINE u == [t EXCEPT !.pc = "delete"]
  <2>1. u.pc = "delete" /\ u.source = t.source /\ u.object = t.object
    BY <1>1 DEF GoodTask, TaskState
  <2>2. task' = [task EXCEPT !["cleaner"][i] = u]
    BY <1>2 DEF FindOrphan, Goto
  <2> HIDE DEF u
  <2>3. task'["cleaner"][i] = u
    BY <1>1, <2>2 DEF Tasks
  <2>4. NewTask("cleaner", i)
    BY <1>1, <2>1, <2>3 DEF NewTask, Keeps
  <2> QED
    BY <1>1, <2>2, <2>4, OthersKeepTheirs
<1>3. CASE FindCounterpart(i) /\ UpdateControlIngress
  <2>1. PICK p \in {template} \cup Torn(Key, template) :
          task' = [task EXCEPT
                     !.cleaner[i].pc = "update",
                     !.cleaner[i].object.settings = boot,
                     !.cleaner[i].object.provider = IF p = NoProvider THEN @ ELSE p]
    BY <1>3 DEF FindCounterpart
  <2> DEFINE o == [t.object EXCEPT !.settings = boot,
                     !.provider = IF p = NoProvider THEN @ ELSE p]
             u == [t EXCEPT !.pc = "update",
                            !.object.settings = boot,
                            !.object.provider = IF p = NoProvider THEN @ ELSE p]
  <2>2. t.object \in ControlIngress
    BY <1>1 DEF GoodTask
  <2>3. o \in ControlIngress
    <3>1. p \in Provider \cup {NoProvider, Garbled}
      BY <1>1 DEF Torn, Templates
    <3> QED
      BY <1>1, <2>2, <3>1 DEF ControlIngress
  <2>4. o # Absent /\ t.object # Absent /\ o.tls = t.object.tls
    BY <2>2, <2>3, AbsentAssumption DEF ControlIngress
  <2>5. task' = [task EXCEPT !["cleaner"][i] = u]
    BY ZenonT(60), <1>1, <2>1 DEF Tasks, GoodTask, TaskState
  <2>6. u.pc = "update" /\ u.source = t.source /\ u.object = o
    BY <1>1, <2>2 DEF GoodTask, TaskState, ControlIngress
  <2> HIDE DEF u, o
  <2>7. task'["cleaner"][i] = u
    BY <1>1, <2>5 DEF Tasks
  <2>8. NewTask("cleaner", i)
    BY <1>3, <2>4, <2>6, <2>7 DEF NewTask, Renewed
  <2> QED
    BY <1>1, <2>5, <2>8, OthersKeepTheirs
<1>4. CASE FindCounterpart(i) /\ ~ UpdateControlIngress
  BY <1>1, <1>4, EndedTask DEF FindCounterpart, Recheck
<1> QED
  BY <1>2, <1>3, <1>4

LEMMA CallTasks ==
  ASSUME Types, NEW a \in Actor, NEW k \in Key, NEW i \in Key, NEW b \in Actor,
         \/ CreateIngress(i) \/ UpdateIngress(b, i) \/ DeleteIngress(b, i)
         \/ DeleteSecret(b, i) \/ LoseRequest(b, i)
  PROVE  NewTask(a, k)
<1> DEFINE t == task[b][i]
<1>1. task \in Tasks /\ "ingress" \in Actor /\ t \in GoodTask
  BY DEF Types, WorkTypes, Tasks, Actor
<1>2. ASSUME Finish(b, i) \/ Requeue(b, i) \/ Finish("ingress", i) \/ Requeue("ingress", i)
      PROVE  NewTask(a, k)
  BY <1>1, <1>2, EndedTask
<1>3. ASSUME NEW todo, NEW u,
             u.pc = "secrets", u.source \in {t.source, Absent}, u.object \in {t.object, Absent},
             \/ t.pc = "delete" /\ t.object # Absent /\ u.todo = SecretNames(t.object.tls)
             \/ t.pc = "secrets" /\ u.todo = Tail(t.todo),
             task' = [task EXCEPT ![b][i] = u]
      PROVE  NewTask(a, k)
  <2>1. task'[b][i] = u
    BY <1>1, <1>3 DEF Tasks
  <2>2. NewTask(b, i)
    BY <1>3, <2>1 DEF NewTask, Deleting
  <2> QED
    BY <1>3, <2>2, OthersKeepTheirs
<1>4. CASE CreateIngress(i)
  BY <1>2, <1>4 DEF CreateIngress, Answered
<1>5. CASE UpdateIngress(b, i)
  BY <1>2, <1>5 DEF UpdateIngress, Answered, Recheck, Actor
<1>6. CASE LoseRequest(b, i)
  BY <1>2, <1>6 DEF LoseRequest
<1>7. CASE DeleteIngress(b, i)
  <2> DEFINE u == [Idle EXCEPT !.pc = "secrets", !.todo = SecretNames(t.object.tls)]
  <2>1. u.pc = "secrets" /\ u.source = Absent /\ u.object = Absent
        /\ u.todo = SecretNames(t.object.tls)
    BY DEF Idle
  <2>2. t.pc = "delete" /\ t.object # Absent
    BY <1>1, <1>7, AbsentAssumption DEF DeleteIngress, At, GoodTask
  <2>3. \/ Finish(b, i) \/ Requeue(b, i)
        \/ task' = [task EXCEPT ![b][i] = u]
    BY <1>7 DEF DeleteIngress, Answered
  <2> HIDE DEF u
  <2> QED
    BY <1>2, <1>3, <2>1, <2>2, <2>3
<1>8. CASE DeleteSecret(b, i)
  <2> DEFINE u == [t EXCEPT !.todo = Tail(@)]
  <2>1. t.pc = "secrets"
    BY <1>8 DEF DeleteSecret, At
  <2>2. u.pc = "secrets" /\ u.source = t.source /\ u.object = t.object /\ u.todo = Tail(t.todo)
    BY <1>1, <2>1 DEF GoodTask, TaskState
  <2>3. \/ Finish(b, i) \/ Requeue(b, i)
        \/ task' = [task EXCEPT ![b][i] = u]
    BY <1>8 DEF DeleteSecret, Answered
  <2> HIDE DEF u
  <2> QED
    BY <1>2, <1>3, <2>1, <2>2, <2>3
<1> QED
  BY <1>4, <1>5, <1>6, <1>7, <1>8

LEMMA NewTasks ==
  ASSUME Types, [Next]_vars, NEW a \in Actor, NEW k \in Key
  PROVE  NewTask(a, k)
<1>1. "ingress" \in Actor /\ "cleaner" \in Actor
  BY DEF Actor
<1>2. CASE UNCHANGED task
  BY <1>2 DEF NewTask
<1>3. CASE Restart
  BY <1>3 DEF Restart, NoTask, NewTask
<1>4. ASSUME NEW i \in Key, Starts(i) \/ SyncStep(i) \/ CleanerStep(i)
                             \/ \E b \in Actor : LoseRequest(b, i)
      PROVE  NewTask(a, k)
  BY <1>1, <1>4, ReadTasks, LookupTasks, ProviderTasks, CheckTasks, CallTasks
     DEF SyncStep, CleanerStep, SyncUpdate, CleanerUpdate
<1>5. CASE UNCHANGED vars
  BY <1>2, <1>5 DEF vars
<1>6. CASE Next
  <2>1. ASSUME \/ ListTarget \/ ListControl
               \/ \E i \in Key : \/ User(i) \/ Informers(i) \/ Issue(i)
                                 \/ \E b \in Actor : Add(b, i)
        PROVE  UNCHANGED task
    BY ZenonT(60), <2>1 DEF ListTarget, ListControl, User, Create, Edit, Revert, Label, Unlabel, Delete,
                UserOp, workVars, Informers, WatchTarget, WatchControl, RelistTarget,
                RelistControl, SeeTarget, SeeControl, Issue, Add
  <2> QED
    BY <1>2, <1>3, <1>4, <1>6, <2>1 DEF Next, Starts
<1> QED
  BY <1>5, <1>6

-----------------------------------------------------------------------------
\* Provenance: the first inductive invariant.  Whatever is about of the target was
\* written by a user, whatever is about of the control Ingress is a copy of such a
\* section, a worker that is to create one has a copy with an entry, and one that
\* deletes secrets does so for a withdrawn key and finds their names in a copy.

FromUsed(k, ing) == ing # Absent => ing.tls \in used[k]
Called(k) == UNION {Copies[k][tls] : tls \in used[k]}
FromCalled(k, o) == o # Absent => o.tls \in Called(k)
TodoFrom(k, todo) ==
  \A i \in DOMAIN todo : \E copy \in Called(k) : todo[i] \in {copy[j].secretName : j \in DOMAIN copy}

SourcesKnown(k) ==
  /\ FromUsed(k, target[k]) /\ FromUsed(k, tCache[k])
  /\ \A s \in Members(tStream[k]) : FromUsed(k, s)
  /\ \A a \in Actor : FromUsed(k, task[a][k].source)
CopiesKnown(k) == \A o \in Objects(k) : FromCalled(k, o)
TaskKnown(a, k) ==
  /\ task[a][k].pc \in {"write", "render", "create"} => task[a][k].object.tls # << >>
  /\ At(a, k, "secrets") => k \in withdrawn /\ TodoFrom(k, task[a][k].todo)
KnownKey(k) == SourcesKnown(k) /\ CopiesKnown(k) /\ \A a \in Actor : TaskKnown(a, k)
Provenance == \A k \in Key : KnownKey(k)

LEMMA InitKnown == Init => Provenance
<1> SUFFICES ASSUME Init, NEW k \in Key PROVE KnownKey(k)
  BY DEF Provenance
<1>1. /\ target[k] = Absent /\ tCache[k] = Absent /\ tStream[k] = <<Absent>>
      /\ control[k] = Absent /\ cCache[k] = Absent /\ cStream[k] = <<Absent>>
      /\ \A a \in Actor : task[a][k] = Idle
  BY DEF Init, Nothing, NoTask
<1>2. Members(<<Absent>>) = {Absent}
  BY DEF Members
<1>3. Idle.pc = "idle" /\ Idle.source = Absent /\ Idle.object = Absent
  BY DEF Idle
<1> QED
  BY <1>1, <1>2, <1>3 DEF KnownKey, SourcesKnown, CopiesKnown, TaskKnown, Objects, FromUsed,
                          FromCalled, At

\* What users write is recorded, and nothing else appears in the target cluster.
LEMMA UserMoves ==
  ASSUME Types, NEW i \in Key, User(i), NEW k \in Key
  PROVE  /\ used[k] \subseteq used'[k] /\ withdrawn \subseteq withdrawn'
         /\ tCache'[k] = tCache[k]
         /\ \A s \in {target'[k]} \cup Members(tStream'[k]) :
              s \in {Absent, target[k]} \cup Members(tStream[k]) \/ s.tls \in used'[k]
<1>1. PICK op, state : UserOp(op, i, state) /\ state \in TargetState
  <2>1. target[i] \in TargetState /\ used[i] \subseteq TargetTLS
    BY DEF Types, TargetTypes
  <2>2. ASSUME target[i] # Absent
        PROVE  /\ \A tls \in TargetTLS : [target[i] EXCEPT !.tls = tls] \in TargetState
               /\ \A managed \in BOOLEAN : [target[i] EXCEPT !.managed = managed] \in TargetState
    BY <2>1, <2>2 DEF TargetState
  <2>3. Absent \in TargetState
        /\ \A tls \in TargetTLS, managed \in BOOLEAN :
             [tls |-> tls, managed |-> managed] \in TargetState
    BY DEF TargetState
  <2>4. CASE Create(i) \/ Delete(i)
    BY <2>3, <2>4 DEF Create, Delete
  <2>5. CASE Edit(i) \/ Revert(i)
    BY <2>1, <2>2, <2>5 DEF Edit, Revert
  <2>6. CASE Label(i) \/ Unlabel(i)
    BY <2>2, <2>6 DEF Label, Unlabel, FilterOnIngressLables
  <2> QED
    BY <2>4, <2>5, <2>6 DEF User
<1>2. tStream \in [Key -> Seq(TargetState)] /\ used \in [Key -> SUBSET TargetTLS]
      /\ target \in [Key -> TargetState]
  BY DEF Types, TargetTypes
<1>3. /\ target' = [target EXCEPT ![i] = state]
      /\ tStream' = [tStream EXCEPT ![i] = Append(@, state)]
      /\ used' = IF state = Absent THEN used ELSE [used EXCEPT ![i] = @ \cup {state.tls}]
      /\ withdrawn \subseteq withdrawn' /\ UNCHANGED tCache
  BY <1>1 DEF UserOp, cacheVars
<1>4. Members(Append(tStream[i], state)) = Members(tStream[i]) \cup {state}
  BY <1>1, <1>2, AppendMembers
<1>5. used[k] \subseteq used'[k] /\ (k = i /\ state # Absent => state.tls \in used'[k])
  BY <1>2, <1>3
<1>6. CASE k # i
  BY <1>2, <1>3, <1>5, <1>6
<1>7. CASE k = i
  <2>1. target'[k] = state /\ Members(tStream'[k]) = Members(tStream[k]) \cup {state}
    BY <1>2, <1>3, <1>4, <1>7
  <2> QED
    BY <1>3, <1>5, <1>7, <2>1
<1> QED
  BY <1>6, <1>7

\* The informer of the target cluster and a crash move within what there is.
LEMMA TargetViewsMove ==
  ASSUME Types, Restart \/ ToTarget, NEW k \in Key
  PROVE  /\ UNCHANGED <<target, used, withdrawn>>
         /\ {tCache'[k]} \cup Members(tStream'[k]) \subseteq {Absent, tCache[k]} \cup Members(tStream[k])
<1>1. tStream[k] \in Seq(TargetState) /\ tCache[k] \in TargetState
  BY DEF Types, TargetTypes, CacheTypes
<1>2. CASE Restart
  <2>1. UNCHANGED <<target, used, withdrawn>> /\ tCache'[k] = Absent
        /\ tStream'[k] \in {<<tCache[k]>> \o tStream[k], tStream[k]}
    BY <1>2 DEF Restart, Nothing
  <2>2. Members(<<tCache[k]>> \o tStream[k]) = Members(tStream[k]) \cup {tCache[k]}
    BY <1>1, PrependMembers
  <2> QED
    BY <2>1, <2>2
<1>3. CASE ToTarget
  <2>1. PICK keys, pos, listed :
          /\ keys \subseteq Key
          /\ DOMAIN pos = keys
          /\ \A i \in keys : pos[i] \in DOMAIN tStream[i]
          /\ SeeTarget(pos, listed)
    BY <1>3 DEF ToTarget
  <2>2. UNCHANGED <<target, used, withdrawn>>
    BY <2>1 DEF SeeTarget
  <2>3. CASE k \notin keys
    BY <2>1, <2>2, <2>3 DEF SeeTarget, Seen, Unseen
  <2>4. CASE k \in keys
    <3>1. /\ tCache'[k] = tStream[k][pos[k]]
          /\ tStream'[k] = SubSeq(tStream[k], pos[k] + 1, Len(tStream[k]))
      BY <2>1, <2>4 DEF SeeTarget, Seen, Unseen
    <3>2. tCache'[k] \in Members(tStream[k]) /\ Members(tStream'[k]) \subseteq Members(tStream[k])
      BY <1>1, <2>1, <2>4, <3>1, SuffixMembers DEF Members
    <3> QED
      BY <2>2, <3>1, <3>2
  <2> QED
    BY <2>3, <2>4
<1> QED
  BY <1>2, <1>3

LEMMA TargetMoves ==
  ASSUME Types, [Next]_vars, NEW k \in Key
  PROVE  /\ used[k] \subseteq used'[k] /\ withdrawn \subseteq withdrawn'
         /\ \A s \in {target'[k], tCache'[k]} \cup Members(tStream'[k]) :
              s \in {Absent, target[k], tCache[k]} \cup Members(tStream[k]) \/ s.tls \in used'[k]
<1>1. CASE UNCHANGED <<targetVars, tCache>>
  BY <1>1 DEF targetVars
<1>2. CASE Restart \/ ToTarget
  BY <1>2, TargetViewsMove
<1>3. ASSUME NEW i \in Key, User(i)
      PROVE  /\ used[k] \subseteq used'[k] /\ withdrawn \subseteq withdrawn'
             /\ \A s \in {target'[k], tCache'[k]} \cup Members(tStream'[k]) :
                  s \in {Absent, target[k], tCache[k]} \cup Members(tStream[k]) \/ s.tls \in used'[k]
  <2> HIDE DEF User, Members
  <2> QED
    BY <1>3, UserMoves
<1>4. \/ UNCHANGED <<targetVars, tCache>> \/ Restart \/ ToTarget
      \/ \E i \in Key : User(i)
  <2>1. CASE \/ UNCHANGED vars \/ Minor
             \/ (\E i \in Key : Starts(i)) \/ (\E b \in Actor, i \in Key : WorkerStep(b, i))
             \/ ToControl
    BY <2>1 DEF vars, targetVars, Minor, Issue, Add, Starts, SyncStart, CleanerStart,
                WorkerStep, ToControl, SeeControl, cacheVars
  <2>2. UNCHANGED vars \/ Next
    OBVIOUS
  <2> QED
    BY <2>1, <2>2, NextSteps
<1> QED
  BY <1>1, <1>2, <1>3, <1>4

LEMMA CalledGrows ==
  ASSUME NEW k, used[k] \subseteq used'[k]
  PROVE  /\ Called(k) \subseteq Called(k)'
         /\ \A s : FromUsed(k, s) => FromUsed(k, s)'
         /\ \A o : FromCalled(k, o) => FromCalled(k, o)'
         /\ \A todo : TodoFrom(k, todo) => TodoFrom(k, todo)'
<1>1. Called(k) \subseteq Called(k)'
  BY DEF Called, Copies
<1> QED
  BY <1>1 DEF FromUsed, FromCalled, TodoFrom

\* What follows from NewTask of the source and of the object.
LEMMA NewSource ==
  ASSUME NEW a \in Actor, NEW k \in Key, NewTask(a, k)
  PROVE  task'[a][k].source \in {task[a][k].source, Absent, tCache[k]}
<1>1. Idle.source = Absent /\ [Idle EXCEPT !.pc = "lookup", !.source = tCache[k]].source = tCache[k]
  BY DEF Idle
<1> QED
  BY <1>1 DEF NewTask, Keeps, ReadsTarget, ReadsControl, Copied, Rendered, Renewed, Deleting

LEMMA NewObject ==
  ASSUME NEW a \in Actor, NEW k \in Key, NewTask(a, k)
  PROVE  \/ Copied(a, k, task[a][k], task'[a][k]) \/ Rendered(a, k, task[a][k], task'[a][k])
         \/ Renewed(a, task[a][k], task'[a][k])
         \/ task'[a][k].object \in {task[a][k].object, cCache[k], Absent}
<1>1. Idle.object = Absent
      /\ [Idle EXCEPT !.pc = "lookup", !.source = tCache[k]].object = Absent
  BY DEF Idle
<1> QED
  BY <1>1 DEF NewTask, Keeps, ReadsTarget, ReadsControl, Deleting

LEMMA NewPlace ==
  ASSUME NEW a \in Actor, NEW k \in Key, NewTask(a, k)
  PROVE  LET t == task[a][k]
             u == task'[a][k]
         IN  /\ u.pc \in {"write", "render", "create"} =>
                  \/ u.object.tls # << >>
                  \/ t.pc \in {"write", "render", "create"} /\ u.object.tls = t.object.tls
             /\ u.pc = "secrets" => u = t \/ Deleting(t, u)
             /\ u.pc = "render" => u = t \/ (SetProvider(k) /\ u.object = t.object)
             /\ a = "ingress" /\ t.pc = "idle" /\ u.pc # "idle" => SyncStart(k)
<1>1. Idle.pc = "idle" /\ [Idle EXCEPT !.pc = "lookup", !.source = tCache[k]].pc = "lookup"
  BY DEF Idle
<1> QED
  BY <1>1 DEF NewTask, Keeps, ReadsTarget, ReadsControl, Copied, Rendered, Renewed, Deleting

LEMMA SourcesStayKnown ==
  ASSUME Types, [Next]_vars, NEW k \in Key, KnownKey(k)
  PROVE  SourcesKnown(k)'
<1>1. used[k] \subseteq used'[k] /\ \A s : FromUsed(k, s) => FromUsed(k, s)'
  BY TargetMoves, CalledGrows
<1>2. \A s \in {Absent, target[k], tCache[k]} \cup Members(tStream[k]) : FromUsed(k, s)
  BY DEF KnownKey, SourcesKnown, FromUsed
<1>3. \A s \in {target'[k], tCache'[k]} \cup Members(tStream'[k]) : FromUsed(k, s)'
  BY <1>1, <1>2, TargetMoves DEF FromUsed
<1>4. ASSUME NEW a \in Actor PROVE FromUsed(k, task[a][k].source)'
  <2>1. task'[a][k].source \in {task[a][k].source, Absent, tCache[k]}
    BY NewTasks, NewSource
  <2>2. \A s \in {task[a][k].source, Absent, tCache[k]} : FromUsed(k, s)
    BY <1>2 DEF KnownKey, SourcesKnown
  <2> QED
    BY <1>1, <2>1, <2>2 DEF FromUsed
<1> QED
  BY <1>3, <1>4 DEF SourcesKnown

LEMMA CopiesStayKnown ==
  ASSUME Types, [Next]_vars, NEW k \in Key, KnownKey(k)
  PROVE  CopiesKnown(k)'
<1>1. \A o : FromCalled(k, o) => FromCalled(k, o)'
  BY TargetMoves, CalledGrows
<1>2. \A o \in Objects(k) : FromCalled(k, o)
  BY DEF KnownKey, CopiesKnown
<1>3. ASSUME NEW a \in Actor PROVE FromCalled(k, task'[a][k].object)
  <2> DEFINE t == task[a][k]
             u == task'[a][k]
  <2>1. t.object \in Objects(k) /\ cCache[k] \in Objects(k)
    BY DEF Objects
  <2>2. CASE Copied(a, k, t, u)
    <3>1. PICK copy \in CopyTLS(t.source.tls) : u.object.tls = PrefixWithNamespace(copy.tls, k[1])
      BY <2>2 DEF Copied
    <3>2. t.source.tls \in used[k]
      BY <2>2 DEF Copied, KnownKey, SourcesKnown, FromUsed
    <3>3. t.source.tls \in TargetTLS
      BY <3>2 DEF Types, TargetTypes
    <3>4. u.object.tls \in Copies[k][t.source.tls]
      BY <3>1, <3>3 DEF Copies
    <3> QED
      BY <3>2, <3>4 DEF FromCalled, Called
  <2>3. CASE Rendered(a, k, t, u) \/ Renewed(a, t, u)
    <3>1. t.object # Absent
      <4>1. t \in GoodTask
        BY DEF Types, WorkTypes, Tasks
      <4> QED
        BY <2>3, <4>1, AbsentAssumption DEF Rendered, Renewed, GoodTask
    <3> QED
      BY <1>2, <2>1, <2>3, <3>1 DEF Rendered, Renewed, FromCalled
  <2>4. CASE u.object \in {t.object, cCache[k], Absent}
    BY <1>2, <2>1, <2>4 DEF FromCalled
  <2>5. \/ Copied(a, k, t, u) \/ Rendered(a, k, t, u) \/ Renewed(a, t, u)
        \/ u.object \in {t.object, cCache[k], Absent}
    BY NewTasks, NewObject
  <2> QED
    BY <2>2, <2>3, <2>4, <2>5
<1>4. ASSUME NEW o \in Objects(k)' PROVE FromCalled(k, o)
  BY <1>2, <1>3, ObjectsMove DEF SameAs, FromCalled
<1> QED
  BY <1>1, <1>4 DEF CopiesKnown

LEMMA TasksStayKnown ==
  ASSUME Types, NothingDropped, [Next]_vars, NEW k \in Key, KnownKey(k), NEW a \in Actor
  PROVE  TaskKnown(a, k)'
<1> DEFINE t == task[a][k]
           u == task'[a][k]
<1>1. TaskKnown(a, k) /\ t \in GoodTask /\ t.object \in Objects(k)
  BY DEF KnownKey, Types, WorkTypes, Tasks, Objects
<1>2. withdrawn \subseteq withdrawn' /\ \A todo : TodoFrom(k, todo) => TodoFrom(k, todo)'
  BY TargetMoves, CalledGrows
<1>3. u.pc \in {"write", "render", "create"} => u.object.tls # << >>
  BY <1>1, NewTasks, NewPlace DEF TaskKnown
<1>4. ASSUME u.pc = "secrets" PROVE k \in withdrawn /\ TodoFrom(k, u.todo)
  <2>1. u = t \/ Deleting(t, u)
    BY <1>4, NewTasks, NewPlace
  <2>2. CASE u = t
    BY <1>1, <1>4, <2>2 DEF TaskKnown, At
  <2>3. CASE t.pc = "delete" /\ t.object # Absent /\ u.todo = SecretNames(t.object.tls)
    <3>1. k \in withdrawn
      BY <2>3 DEF NothingDropped, SafeKey, At
    <3>2. t.object.tls \in Called(k)
      BY <1>1, <2>3 DEF KnownKey, CopiesKnown, FromCalled
    <3>3. TodoFrom(k, SecretNames(t.object.tls))
      BY <3>2 DEF TodoFrom, SecretNames
    <3> QED
      BY <2>3, <3>1, <3>3
  <2>4. CASE t.pc = "secrets" /\ u.todo = Tail(t.todo)
    <3>1. k \in withdrawn /\ TodoFrom(k, t.todo)
      BY <1>1, <2>4 DEF TaskKnown, At
    <3>2. t.todo \in Seq(ControlSecret) /\ t.todo # << >>
      BY <1>1, <2>4 DEF GoodTask, TaskState
    <3>3. \A i \in DOMAIN Tail(t.todo) : i + 1 \in DOMAIN t.todo /\ Tail(t.todo)[i] = t.todo[i + 1]
      BY <3>2
    <3> QED
      BY <2>4, <3>1, <3>3 DEF TodoFrom
  <2> QED
    BY <2>1, <2>2, <2>3, <2>4 DEF Deleting
<1> QED
  BY <1>2, <1>3, <1>4 DEF TaskKnown, At

LEMMA NextKnown ==
  ASSUME Types, NothingDropped, Provenance, [Next]_vars
  PROVE  Provenance'
BY SourcesStayKnown, CopiesStayKnown, TasksStayKnown DEF Provenance, KnownKey

-----------------------------------------------------------------------------
\* The control cluster keeps the promise of Replication, step by step.

\* Only cert-manager and the clean-up touch secrets.
LEMMA SecretsChange ==
  ASSUME Types, [Next]_vars, secrets' # secrets
  PROVE  \E i \in Key : Issue(i) \/ \E a \in Actor : DeleteSecret(a, i)
<1>1. Next
  BY DEF vars
<1>2. "ingress" \in Actor /\ "cleaner" \in Actor
  BY DEF Actor
<1>3. ~ Restart /\ ~ ListTarget /\ ~ ListControl
  BY DEF Restart, ListTarget, ListControl, SeeTarget, SeeControl
<1>4. ASSUME NEW i \in Key
      PROVE  /\ ~ User(i) /\ ~ Informers(i) /\ ~ SyncStart(i) /\ ~ CleanerStart(i)
             /\ \A a \in Actor : ~ Add(a, i) /\ ~ LoseRequest(a, i)
  <2>1. ~ User(i)
    BY DEF User, Create, Edit, Revert, Label, Unlabel, Delete, UserOp
  <2>2. ~ Informers(i)
    BY DEF Informers, WatchTarget, WatchControl, RelistTarget, RelistControl, SeeTarget, SeeControl
  <2> QED
    BY <2>1, <2>2 DEF SyncStart, CleanerStart, Add, LoseRequest
<1>5. ASSUME NEW i \in Key, SyncStep(i)
      PROVE  DeleteSecret("ingress", i)
  BY <1>5 DEF SyncStep, LookupOrphan, Lookup, SetProvider, Render, CreateIngress, SyncUpdate,
              UpdateIngress, DeleteIngress
<1>6. ASSUME NEW i \in Key, CleanerStep(i)
      PROVE  DeleteSecret("cleaner", i)
  BY <1>6 DEF CleanerStep, FindOrphan, FindCounterpart, CleanerUpdate, UpdateIngress, DeleteIngress
<1> QED
  BY <1>1, <1>2, <1>3, <1>4, <1>5, <1>6 DEF Next

\* The variables of Replication as the control cluster shows them.
ShownVars == <<used, withdrawn, ShownCopies, secrets>>

LEMMA StoreShown ==
  ASSUME NEW i \in Key, NEW x, control \in [Key -> ControlState], Store(i, x)
  PROVE  ShownCopies' = [ShownCopies EXCEPT ![i] = IF x = Absent THEN {} ELSE {x.tls}]
<1>1. control' = [control EXCEPT ![i] = x]
  BY DEF Store
<1>2. \A k \in Key : control'[k] = IF k = i THEN x ELSE control[k]
  BY <1>1
<1> QED
  BY <1>2 DEF ShownCopies

LEMMA CalledIsCalled ==
  ASSUME NEW k \in Key
  PROVE  Promise!Called(k) = Called(k)
BY DEF Promise!Called, Called

\* The users' steps.
LEMMA UserMaps ==
  ASSUME Types, Provenance, NEW i \in Key, User(i)
  PROVE  [Promise!Next]_ShownVars
<1>1. /\ target[i] \in TargetState /\ used \in [Key -> SUBSET TargetTLS]
      /\ FromUsed(i, target[i])
  BY DEF Types, TargetTypes, Provenance, KnownKey, SourcesKnown
<1>2. UNCHANGED <<control, secrets>>
  BY DEF User, Create, Edit, Revert, Label, Unlabel, Delete, UserOp, controlVars
<1>3. UNCHANGED <<ShownCopies, secrets>>
  BY <1>2 DEF ShownCopies
<1>4. ASSUME NEW op, NEW state \in TargetState, UserOp(op, i, state),
             ~ FilterOnIngressLables(target[i]) \/ FilterOnIngressLables(state)
      PROVE  [Promise!Next]_ShownVars
  <2>1. withdrawn' = withdrawn
    BY <1>4 DEF UserOp
  <2>2. CASE state = Absent
    BY <1>3, <1>4, <2>1, <2>2 DEF UserOp, ShownVars
  <2>3. CASE state # Absent
    <3>1. state.tls \in TargetTLS /\ used' = [used EXCEPT ![i] = @ \cup {state.tls}]
      BY <1>4, <2>3 DEF UserOp, TargetState
    <3>2. Promise!Use(i)
      BY <1>3, <2>1, <3>1 DEF Promise!Use
    <3> QED
      BY <3>2 DEF Promise!Next
  <2> QED
    BY <2>2, <2>3
<1>5. ASSUME NEW op, NEW state, UserOp(op, i, state), target[i] # Absent,
             state # Absent => state.tls = target[i].tls
      PROVE  [Promise!Next]_ShownVars
  <2>1. used[i] # {} /\ used' = used
    BY <1>1, <1>5 DEF UserOp, FromUsed
  <2>2. withdrawn' \in {withdrawn, withdrawn \cup {i}}
    BY <1>5 DEF UserOp
  <2>3. CASE withdrawn' = withdrawn
    BY <1>3, <2>1, <2>3 DEF ShownVars
  <2>4. CASE withdrawn' = withdrawn \cup {i}
    <3>1. Promise!Withdraw(i)
      BY <1>3, <2>1, <2>4 DEF Promise!Withdraw
    <3> QED
      BY <3>1 DEF Promise!Next
  <2> QED
    BY <2>2, <2>3, <2>4
<1>6. CASE Create(i)
  <2>1. PICK tls \in TargetTLS, managed \in BOOLEAN :
          UserOp("create", i, [tls |-> tls, managed |-> managed])
    BY <1>6 DEF Create
  <2>2. [tls |-> tls, managed |-> managed] \in TargetState
    BY DEF TargetState
  <2>3. ~ FilterOnIngressLables(target[i])
    BY <1>6 DEF Create, FilterOnIngressLables
  <2> QED
    BY <1>4, <2>1, <2>2, <2>3
<1>7. CASE Edit(i) \/ Revert(i)
  <2>1. PICK op, tls : UserOp(op, i, [target[i] EXCEPT !.tls = tls]) /\ tls \in TargetTLS
                       /\ target[i] # Absent
    BY <1>1, <1>7 DEF Edit, Revert
  <2> DEFINE state == [target[i] EXCEPT !.tls = tls]
  <2>2. state \in TargetState /\ state.managed = target[i].managed
    BY <1>1, <2>1 DEF TargetState
  <2>3. CASE state = Absent
    BY <1>5, <2>1, <2>3
  <2>4. CASE state # Absent
    BY <1>4, <2>1, <2>2, <2>4 DEF FilterOnIngressLables
  <2> QED
    BY <2>3, <2>4
<1>8. CASE Label(i) \/ Unlabel(i)
  <2>1. PICK op, managed : UserOp(op, i, [target[i] EXCEPT !.managed = managed])
                           /\ target[i] # Absent
    BY <1>8 DEF Label, Unlabel, FilterOnIngressLables
  <2>2. [target[i] EXCEPT !.managed = managed].tls = target[i].tls
    BY <1>1, <2>1 DEF TargetState
  <2> QED
    BY <1>5, <2>1, <2>2
<1>9. CASE Delete(i)
  BY <1>5, <1>9 DEF Delete
<1> QED
  BY <1>6, <1>7, <1>8, <1>9 DEF User

LEMMA SecretsMap ==
  ASSUME Types, Provenance, NEW i \in Key,
         Issue(i) \/ \E a \in Actor : DeleteSecret(a, i)
  PROVE  [Promise!Next]_ShownVars
<1>1. UNCHANGED <<used, withdrawn, control>>
  BY DEF Issue, DeleteSecret, targetVars, controlVars
<1>2. UNCHANGED <<used, withdrawn, ShownCopies>>
  BY <1>1 DEF ShownCopies
<1>3. CASE Issue(i)
  <2>1. PICK j \in DOMAIN control[i].tls : secrets' = secrets \cup {control[i].tls[j].secretName}
    BY <1>3 DEF Issue
  <2>2. ShownCopies[i] = {control[i].tls}
    BY <1>3 DEF Issue, ShownCopies
  <2>3. Promise!Issue(i)
    BY ZenonT(60), <1>2, <2>1, <2>2 DEF Promise!Issue, Promise!Names
  <2> QED
    BY <2>3 DEF Promise!Next
<1>4. ASSUME NEW a \in Actor, DeleteSecret(a, i)
      PROVE  [Promise!Next]_ShownVars
  <2> DEFINE todo == task[a][i].todo
  <2>1. task[a][i] \in GoodTask /\ At(a, i, "secrets") /\ secrets' = secrets \ {Head(todo)}
    BY <1>4 DEF DeleteSecret, Types, WorkTypes, Tasks
  <2>2. i \in withdrawn /\ TodoFrom(i, todo)
    BY <2>1 DEF Provenance, KnownKey, TaskKnown
  <2>3. 1 \in DOMAIN todo /\ Head(todo) = todo[1]
    BY <2>1 DEF At, GoodTask, TaskState
  <2>4. PICK copy \in Called(i) : Head(todo) \in {copy[j].secretName : j \in DOMAIN copy}
    BY <2>2, <2>3 DEF TodoFrom
  <2> HIDE DEF todo
  <2>5. Promise!RemoveSecret(i)
    BY <1>2, <2>1, <2>2, <2>4, CalledIsCalled DEF Promise!RemoveSecret, Promise!Names
  <2> QED
    BY <2>5 DEF Promise!Next
<1> QED
  BY <1>3, <1>4

LEMMA StoresMap ==
  ASSUME Types, NothingDropped, Provenance, NEW a \in Actor, NEW i \in Key,
         Writes(a, i) \/ Deletes(a, i), UNCHANGED <<used, withdrawn, secrets>>
  PROVE  [Promise!Next]_ShownVars
<1> DEFINE o == task[a][i].object
           x == [o EXCEPT !.rv = rev[i] + 1]
<1>1. control \in [Key -> ControlState] /\ task[a][i] \in GoodTask /\ rev[i] \in Nat
  BY DEF Types, ControlTypes, WorkTypes, Tasks
<1>2. CASE Deletes(a, i)
  <2>1. i \in withdrawn
    BY <1>2 DEF Deletes, NothingDropped, SafeKey
  <2>2. ShownCopies' = [ShownCopies EXCEPT ![i] = {}]
    BY <1>1, <1>2, StoreShown DEF Deletes
  <2>3. Promise!Remove(i)
    BY <2>1, <2>2 DEF Promise!Remove
  <2> QED
    BY <2>3 DEF Promise!Next
<1>3. CASE Writes(a, i)
  <2>1. o \in ControlIngress /\ o # Absent
    BY <1>1, <1>3, AbsentAssumption DEF Writes, At, GoodTask
  <2>2. x \in ControlIngress /\ x.tls = o.tls
    BY <1>1, <2>1 DEF ControlIngress
  <2>3. x # Absent /\ Store(i, x)
    BY <1>3, <2>2, AbsentAssumption DEF Writes
  <2>4. o.tls \in Called(i)
    BY <2>1 DEF Provenance, KnownKey, CopiesKnown, Objects, FromCalled
  <2> HIDE DEF x
  <2>5. ShownCopies' = [ShownCopies EXCEPT ![i] = {o.tls}]
    BY <1>1, <2>2, <2>3, StoreShown
  <2>6. CASE control[i] = Absent
    <3>1. o.tls # << >>
      BY <1>3, <2>6 DEF Writes, At, Provenance, KnownKey, TaskKnown
    <3>2. ShownCopies[i] = {}
      BY <2>6 DEF ShownCopies
    <3>3. Promise!CreateCopy(i)
      BY <2>4, <2>5, <3>1, <3>2, CalledIsCalled DEF Promise!CreateCopy
    <3> QED
      BY <3>3 DEF Promise!Next
  <2>7. CASE control[i] # Absent
    <3>1. ShownCopies[i] # {}
      BY <2>7 DEF ShownCopies
    <3>2. Promise!UpdateCopy(i)
      BY <2>4, <2>5, <3>1, CalledIsCalled DEF Promise!UpdateCopy
    <3> QED
      BY <3>2 DEF Promise!Next
  <2> QED
    BY <2>6, <2>7
<1> QED
  BY <1>2, <1>3

LEMMA NextMaps ==
  ASSUME Types, NothingDropped, Provenance, [Next]_vars
  PROVE  [Promise!Next]_ShownVars
<1>1. CASE secrets' # secrets
  BY <1>1, SecretsChange, SecretsMap
<1>2. CASE secrets' = secrets /\ control' # control
  <2>1. PICK a \in Actor, i \in Key : WorkerStep(a, i)
    BY <1>2, WorkersChangeControl
  <2>2. UNCHANGED <<used, withdrawn>> /\ (Writes(a, i) \/ Deletes(a, i))
    BY <1>2, <2>1 DEF WorkerStep, targetVars, controlVars
  <2> QED
    BY <1>2, <2>2, StoresMap
<1>3. CASE secrets' = secrets /\ control' = control
  <2>1. CASE \E i \in Key : User(i)
    BY <2>1, UserMaps
  <2>2. CASE UNCHANGED <<used, withdrawn>>
    BY <1>3, <2>2 DEF ShownVars, ShownCopies
  <2>3. CASE \/ UNCHANGED vars \/ Minor \/ Restart
             \/ (\E i \in Key : Starts(i)) \/ (\E b \in Actor, i \in Key : WorkerStep(b, i))
             \/ ToControl \/ ToTarget
    BY <2>2, <2>3 DEF vars, targetVars, Minor, Issue, Add, Starts, SyncStart, CleanerStart,
                      WorkerStep, ToControl, SeeControl, ToTarget, SeeTarget, Restart
  <2>4. UNCHANGED vars \/ Next
    OBVIOUS
  <2> QED
    BY <2>1, <2>3, <2>4, NextSteps
<1> QED
  BY <1>1, <1>2, <1>3

\* For every set of keys and sections, any number of workers, and however calls fail,
\* watches break and processes crash, with and without update-ingress: what users see in
\* the control cluster is a behaviour of Replication.  A control Ingress holds a copy of a
\* section of its own target (Sync, pkg/ingress/sync.go:108), and only the control Ingress
\* and the secrets of a withdrawn target are deleted (CleanUpIngressAndTLSSecrets,
\* pkg/utils/controller-helper.go:94).
THEOREM BrokerKeepsItsPromise == Spec => IsReplication
<1>1. Init => Types /\ NothingDropped /\ Provenance
  BY InitTypes, InitDropsNothing, InitKnown
<1>2. Types /\ NothingDropped /\ Provenance /\ [Next]_vars
        => Types' /\ NothingDropped' /\ Provenance'
  BY NextTypes, NextDropsNothing, NextKnown
<1>3. Init => Promise!Init
  BY DEF Init, Promise!Init, ShownCopies, Nothing
<1>4. Types /\ NothingDropped /\ Provenance /\ [Next]_vars => [Promise!Next]_ShownVars
  BY NextMaps
<1> QED
  BY <1>1, <1>2, <1>3, <1>4, PTL DEF Spec, IsReplication, Promise!Spec, Promise!vars, ShownVars

-----------------------------------------------------------------------------
\* The providers, with one worker and without update-ingress: the second inductive
\* invariant.  Every object asks for a provider that copyTLS finds for its section, and
\* between its write of the template and its read of it no other worker has written it.

Matches(o) == o # Absent => \E copy \in CopyTLS(o.tls) : o.provider = copy.provider
Matched == \A k \in Key : \A o \in Objects(k) : Matches(o)
OneAtATime ==
  \A i, j \in Key : ~ At("ingress", i, "idle") /\ ~ At("ingress", j, "idle") => i = j
TemplateHeld ==
  \A k \in Key : At("ingress", k, "render") => template = task.ingress[k].object.provider

LEMMA InitMatched == Init => Matched /\ TemplateHeld /\ OneAtATime
<1> SUFFICES ASSUME Init PROVE Matched /\ TemplateHeld /\ OneAtATime
  OBVIOUS
<1>1. \A k \in Key :
        /\ control[k] = Absent /\ cCache[k] = Absent /\ cStream[k] = <<Absent>>
        /\ \A a \in Actor : task[a][k] = Idle
  BY DEF Init, Nothing, NoTask
<1>2. Members(<<Absent>>) = {Absent}
  BY DEF Members
<1>3. Idle.pc = "idle" /\ Idle.object = Absent /\ "ingress" \in Actor
  BY DEF Idle, Actor
<1> QED
  BY <1>1, <1>2, <1>3 DEF Matched, Objects, Matches, TemplateHeld, OneAtATime, At

LEMMA OneStaysAtATime ==
  ASSUME Types, OneAtATime, [Next]_vars, Workers["ingress"] <= 1
  PROVE  OneAtATime'
<1>1. task \in Tasks /\ "ingress" \in Actor /\ Workers["ingress"] \in Nat
  BY ReplicationAssumption DEF Types, WorkTypes, Actor
<1>2. \A k \in Key : task["ingress"][k].pc = "idle" /\ task'["ingress"][k].pc # "idle" => SyncStart(k)
  BY <1>1, NewTasks, NewPlace
<1>3. CASE \A k \in Key : ~ SyncStart(k)
  BY <1>2, <1>3 DEF OneAtATime, At
<1>4. ASSUME NEW k \in Key, SyncStart(k) PROVE OneAtATime'
  <2>1. \A i \in Key : i # k => task'["ingress"][i] = task["ingress"][i]
    BY <1>1, <1>4 DEF SyncStart, Tasks
  <2>2. Working("ingress") = {}
    <3>1. SUFFICES ASSUME NEW i \in Working("ingress") PROVE FALSE
      OBVIOUS
    <3>2. Working("ingress") = {i}
      BY <3>1 DEF OneAtATime, Working
    <3>3. Cardinality(Working("ingress")) = 1
      BY <3>2, FS_Singleton
    <3>4. Cardinality(Working("ingress")) < Workers["ingress"]
      BY <1>4 DEF SyncStart, Take
    <3> QED
      BY <1>1, <3>3, <3>4
  <2> QED
    BY <2>1, <2>2 DEF OneAtATime, At, Working
<1> QED
  BY <1>3, <1>4

\* Nobody else is at its write, so that no access is torn.
LEMMA NothingTorn ==
  ASSUME OneAtATime, NEW k \in Key, ~ At("ingress", k, "idle"), NEW provider
  PROVE  Torn(Key \ {k}, provider) = {}
BY DEF OneAtATime, Torn, At

LEMMA TemplateChanges ==
  ASSUME [Next]_vars, template' # template
  PROVE  Restart \/ \E i \in Key : SetProvider(i)
<1>1. Next
  BY DEF vars
<1>2. ~ ListTarget /\ ~ ListControl
  BY DEF ListTarget, ListControl, SeeTarget, SeeControl
<1>3. ASSUME NEW i \in Key
      PROVE  /\ ~ User(i) /\ ~ Informers(i) /\ ~ SyncStart(i) /\ ~ CleanerStart(i)
             /\ ~ CleanerStep(i) /\ ~ Issue(i)
             /\ \A a \in Actor : ~ Add(a, i) /\ ~ LoseRequest(a, i)
  <2>1. ~ User(i)
    BY DEF User, Create, Edit, Revert, Label, Unlabel, Delete, UserOp, workVars
  <2>2. ~ Informers(i)
    BY DEF Informers, WatchTarget, WatchControl, RelistTarget, RelistControl, SeeTarget, SeeControl
  <2>3. ~ CleanerStep(i)
    BY DEF CleanerStep, FindOrphan, FindCounterpart, CleanerUpdate, UpdateIngress, DeleteIngress,
           DeleteSecret
  <2> QED
    BY <2>1, <2>2, <2>3 DEF SyncStart, CleanerStart, Add, LoseRequest, Issue, workVars
<1>4. ASSUME NEW i \in Key, SyncStep(i)
      PROVE  SetProvider(i)
  BY <1>4 DEF SyncStep, LookupOrphan, Lookup, Render, CreateIngress, SyncUpdate, UpdateIngress,
              DeleteIngress, DeleteSecret
<1> QED
  BY <1>1, <1>2, <1>3, <1>4 DEF Next

LEMMA TemplateStaysHeld ==
  ASSUME Types, OneAtATime, TemplateHeld, [Next]_vars
  PROVE  TemplateHeld'
<1> SUFFICES ASSUME NEW k \in Key, At("ingress", k, "render")'
             PROVE  (template = task.ingress[k].object.provider)'
  BY DEF TemplateHeld
<1> DEFINE t == task["ingress"][k]
           u == task'["ingress"][k]
<1>1. u.pc = "render" /\ "ingress" \in Actor /\ task \in Tasks
  BY DEF At, Actor, Types, WorkTypes
<1>2. u = t \/ (SetProvider(k) /\ u.object = t.object)
  BY <1>1, NewTasks, NewPlace
<1>3. ASSUME NEW i \in Key, SetProvider(i)
      PROVE  template' = u.object.provider
  <2>1. i = k
    BY <1>1, <1>2, <1>3 DEF OneAtATime, SetProvider, At
  <2>2. Torn(Key \ {k}, t.object.provider) = {}
    BY <1>3, <2>1, NothingTorn DEF SetProvider, At
  <2>3. template' = t.object.provider
    BY <1>3, <2>1, <2>2 DEF SetProvider
  <2> QED
    BY <1>2, <2>3
<1>4. CASE Restart
  BY <1>1, <1>4 DEF Restart, NoTask, Idle
<1>5. CASE UNCHANGED template /\ \A i \in Key : ~ SetProvider(i)
  <2>1. u = t
    BY <1>1, <1>2, <1>5
  <2> QED
    BY <1>5, <2>1 DEF TemplateHeld, At
<1> QED
  BY <1>3, <1>4, <1>5, TemplateChanges

\* What the ingress controller writes asks for the provider that copyTLS found, and the
\* prefixed copy calls for that provider again.
LEMMA StaysMatched ==
  ASSUME Types, OneAtATime, TemplateHeld, Matched, [Next]_vars, ~ UpdateControlIngress
  PROVE  Matched'
<1> SUFFICES ASSUME NEW k \in Key, NEW o \in Objects(k)' PROVE Matches(o)
  BY DEF Matched, Matches
<1>1. \A p \in Objects(k) : Matches(p)
  BY DEF Matched
<1>2. ASSUME NEW p \in Objects(k), SameAs(p, o) PROVE Matches(o)
  BY <1>1, <1>2 DEF SameAs, Matches
<1>3. ASSUME NEW a \in Actor PROVE Matches(task'[a][k].object)
  <2> DEFINE t == task[a][k]
             u == task'[a][k]
  <2>1. t \in GoodTask /\ t.object \in Objects(k) /\ cCache[k] \in Objects(k)
    BY DEF Types, WorkTypes, Tasks, Objects
  <2>2. CASE Copied(a, k, t, u)
    <3>1. PICK copy \in CopyTLS(t.source.tls) :
            /\ u.object.tls = PrefixWithNamespace(copy.tls, k[1])
            /\ u.object.provider = copy.provider
      BY <2>2 DEF Copied
    <3>2. t.source.tls \in TargetTLS
      BY <2>1, <2>2 DEF Copied, GoodTask, TaskState, TargetState
    <3> DEFINE tls == t.source.tls
               S == {tls[i].secretName : i \in DOMAIN tls}
    <3>3. tls \in TLSSection(S)
      BY <3>2, SectionsAssumption
    <3> HIDE DEF S
    <3>4. \E again \in CopyTLS(PrefixWithNamespace(copy.tls, k[1])) : again.provider = copy.provider
      BY <3>3, CopyKeepsProvider
    <3> QED
      BY <3>1, <3>4 DEF Matches
  <2>3. CASE Rendered(a, k, t, u)
    <3>1. a = "ingress" /\ t.pc = "render" /\ u.object.tls = t.object.tls
          /\ u.object.provider \in {template} \cup Torn(Key \ {k}, template)
      BY <2>3 DEF Rendered
    <3>2. Torn(Key \ {k}, template) = {}
      BY <3>1, NothingTorn DEF At
    <3>3. u.object.provider = t.object.provider
      BY <3>1, <3>2 DEF TemplateHeld, At
    <3>4. t.object # Absent
      BY <2>1, <3>1, AbsentAssumption DEF GoodTask
    <3> QED
      BY <1>1, <2>1, <3>1, <3>3, <3>4 DEF Matches
  <2>4. CASE u.object \in {t.object, cCache[k], Absent}
    BY <1>1, <2>1, <2>4 DEF Matches
  <2>5. ~ Renewed(a, t, u)
    BY DEF Renewed
  <2> QED
    BY <2>2, <2>3, <2>4, <2>5, NewTasks, NewObject
<1> QED
  BY <1>2, <1>3, ObjectsMove

\* With one ingress worker and without update-ingress no control Ingress asks for the DNS01
\* provider of another: between the write to the shared IngressTemplate and the read of it
\* (CreateControlIngress, pkg/utils/controller-helper.go:73 and 65) nobody else writes there.
\* TLC finds a counterexample without either hypothesis: a second worker writes the template
\* in between, and the cleaner's update takes whatever provider the last Ingress left there.
THEOREM ProvidersMatch ==
  ASSUME Workers["ingress"] <= 1, ~ UpdateControlIngress
  PROVE  Spec => []ProviderMatches
<1> DEFINE Inv == Types /\ Matched /\ TemplateHeld /\ OneAtATime
<1>1. Init => Inv
  BY InitTypes, InitMatched
<1>2. Inv /\ [Next]_vars => Inv'
  BY NextTypes, StaysMatched, TemplateStaysHeld, OneStaysAtATime
<1>3. Inv => ProviderMatches
  <2> SUFFICES ASSUME Matched, NEW k \in Key, control[k] # Absent
               PROVE  \E copy \in CopyTLS(control[k].tls) : control[k].provider = copy.provider
    BY DEF ProviderMatches
  <2>1. Matches(control[k])
    BY DEF Matched, Objects
  <2> QED
    BY <2>1 DEF Matches
<1> QED
  BY <1>1, <1>2, <1>3, PTL DEF Spec

-----------------------------------------------------------------------------
\* What the informer shows of a control Ingress: state 0 is in the cache, the
\* others are in the stream.

Shows(k, i) == IF i = 0 THEN cCache[k] ELSE cStream[k][i]
Last(k) == Len(cStream[k])

\* Beyond state i an Ingress appears, for which OnAdd is called.
AddBeyond(k, i) ==
  \E j \in (i + 1)..Last(k) : Shows(k, j) # Absent /\ Shows(k, j - 1) = Absent

\* The stream leads to the state of the control cluster, a process that has not
\* listed yet has it all to itself, and an Ingress that a state lacks appears
\* beyond it.
LeadsToControl(k) ==
  /\ Shows(k, Last(k)) = control[k]
  /\ ~ synced.control => cCache[k] = Absent /\ Last(k) # 0
  /\ control[k] # Absent =>
       \A i \in 0..Last(k) : Shows(k, i) = Absent => AddBeyond(k, i)

\* The key goes round in the cleaner.
Handed(k) ==
  \/ k \in queue.cleaner.delayed \cup queue.cleaner.dirty
  \/ task.cleaner[k].pc \in {"check", "update", "delete"}

TrackedKey(k) ==
  /\ LeadsToControl(k)
  /\ control[k] # Absent /\ synced.control => Handed(k) \/ AddBeyond(k, 0)

Tracked == \A k \in Key : TrackedKey(k)

LEMMA TrackedGivesCleanerTracks == Types /\ Tracked => CleanerTracks
<1> SUFFICES ASSUME Types, Tracked, NEW k \in Key, control[k] # Absent, synced.control,
                    ~ Handed(k)
             PROVE  \E i \in 1..Len(cStream[k]) :
                      /\ cStream[k][i] # Absent
                      /\ IF i = 1 THEN cCache[k] = Absent ELSE cStream[k][i - 1] = Absent
  BY DEF CleanerTracks, Handed
<1>1. PICK j \in 1..Last(k) : Shows(k, j) # Absent /\ Shows(k, j - 1) = Absent
  BY DEF Tracked, TrackedKey, AddBeyond
<1>2. Last(k) \in Nat
  BY DEF Types, ControlTypes, Last
<1> QED
  BY <1>1, <1>2 DEF Shows, Last

LEMMA InitTracked == Init => Tracked
<1> SUFFICES ASSUME Init, NEW k \in Key PROVE TrackedKey(k)
  BY DEF Tracked
<1>1. control[k] = Absent /\ cCache[k] = Absent /\ cStream[k] = <<Absent>>
      /\ synced.control = FALSE
  BY DEF Init, Nothing, NotSynced
<1>2. Last(k) = 1 /\ Shows(k, 1) = Absent
  BY <1>1 DEF Last, Shows
<1> QED
  BY <1>1, <1>2 DEF TrackedKey, LeadsToControl

-----------------------------------------------------------------------------
\* How the stream and the cache move.

\* The control Ingress and what is shown of it stay.
LEMMA ShownKept ==
  ASSUME NEW k \in Key, UNCHANGED <<control[k], cCache[k], cStream[k], synced.control>>
  PROVE  /\ LeadsToControl(k) => LeadsToControl(k)'
         /\ \A i : AddBeyond(k, i) => AddBeyond(k, i)'
BY DEF LeadsToControl, AddBeyond, Shows, Last

\* The API server stores a new state.
LEMMA StoreLeads ==
  ASSUME Types, NEW k \in Key, LeadsToControl(k), NEW x \in ControlState,
         control'[k] = x, cStream'[k] = Append(cStream[k], x),
         UNCHANGED <<cCache[k], synced.control>>
  PROVE  /\ LeadsToControl(k)'
         /\ AddBeyond(k, 0) => AddBeyond(k, 0)'
         /\ control[k] = Absent /\ x # Absent => AddBeyond(k, 0)'
<1>0. PICK n \in Nat : n = Last(k)
  BY DEF Last, Types, ControlTypes
<1>1. Last(k)' = n + 1 /\ Shows(k, n + 1)' = x
      /\ \A i \in 0..n : Shows(k, i)' = Shows(k, i)
  BY <1>0 DEF Last, Shows, Types, ControlTypes
<1>2. ASSUME NEW i \in 0..n, AddBeyond(k, i) PROVE AddBeyond(k, i)'
  <2>1. PICK j \in (i + 1)..n : Shows(k, j) # Absent /\ Shows(k, j - 1) = Absent
    BY <1>0, <1>2 DEF AddBeyond
  <2>2. j \in (i + 1)..(n + 1) /\ Shows(k, j)' # Absent /\ Shows(k, j - 1)' = Absent
    BY <1>1, <2>1
  <2> QED
    BY <1>1, <2>2 DEF AddBeyond
<1>3. ASSUME control[k] = Absent, x # Absent, NEW i \in 0..n PROVE AddBeyond(k, i)'
  <2>1. Shows(k, n) = Absent
    BY <1>0, <1>3 DEF LeadsToControl
  <2>2. n + 1 \in (i + 1)..(n + 1) /\ Shows(k, n + 1)' # Absent /\ Shows(k, (n + 1) - 1)' = Absent
    BY <1>1, <1>3, <2>1
  <2> QED
    BY <1>1, <2>2 DEF AddBeyond
<1>4. ASSUME x # Absent, NEW i \in 0..(n + 1), Shows(k, i)' = Absent PROVE AddBeyond(k, i)'
  <2>1. i \in 0..n /\ Shows(k, i) = Absent
    BY <1>1, <1>4
  <2> QED
    BY <1>2, <1>3, <1>4, <2>1, <1>0 DEF LeadsToControl
<1>5. LeadsToControl(k)'
  BY <1>1, <1>4 DEF LeadsToControl
<1>6. 0 \in 0..n
  OBVIOUS
<1> QED
  BY <1>2, <1>3, <1>5, <1>6

\* The informer comes to state number n of the stream.
LEMMA SeeLeads ==
  ASSUME Types, NEW k \in Key, LeadsToControl(k), NEW n \in DOMAIN cStream[k],
         cCache'[k] = cStream[k][n],
         cStream'[k] = SubSeq(cStream[k], n + 1, Len(cStream[k])),
         synced'.control, UNCHANGED control
  PROVE  /\ LeadsToControl(k)'
         /\ \A j \in (n + 1)..Last(k) :
              Shows(k, j) # Absent /\ Shows(k, j - 1) = Absent => AddBeyond(k, 0)'
<1>0. cStream[k] \in Seq(ControlState)
  BY DEF Types, ControlTypes
<1>1. PICK m \in Nat : m = Last(k)
  BY <1>0 DEF Last
<1>2. n \in Nat /\ n >= 1 /\ n <= m /\ Last(k)' = m - n
  BY <1>1, <1>0, SuffixMembers DEF Last
<1>3. \A i \in 0..(m - n) : Shows(k, i)' = Shows(k, i + n)
  <2>1. Shows(k, 0)' = Shows(k, 0 + n)
    BY <1>2 DEF Shows
  <2>2. \A i \in 1..(m - n) : Shows(k, i)' = Shows(k, i + n)
    BY <1>1, <1>0, <1>2, SuffixMembers DEF Shows, Last
  <2> QED
    BY <1>2, <2>1, <2>2
<1>4. ASSUME NEW i \in 0..(m - n), NEW j \in (i + n + 1)..m,
             Shows(k, j) # Absent, Shows(k, j - 1) = Absent
      PROVE  AddBeyond(k, i)'
  <2>1. /\ j - n \in (i + 1)..(m - n)
        /\ j - n \in 0..(m - n) /\ (j - n) - 1 \in 0..(m - n)
        /\ (j - n) + n = j /\ ((j - n) - 1) + n = j - 1
    BY SMTT(30), <1>2
  <2>2. Shows(k, j - n)' # Absent /\ Shows(k, (j - n) - 1)' = Absent
    BY <1>3, <1>4, <2>1
  <2> QED
    BY <1>2, <2>1, <2>2 DEF AddBeyond
<1>5. ASSUME control[k] # Absent, NEW i \in 0..(m - n), Shows(k, i)' = Absent
      PROVE  AddBeyond(k, i)'
  <2>1. Shows(k, i + n) = Absent /\ i + n \in 0..m
    BY <1>2, <1>3, <1>5
  <2>2. AddBeyond(k, i + n)
    BY <1>1, <1>5, <2>1 DEF LeadsToControl
  <2> QED
    BY <1>1, <1>4, <2>2 DEF AddBeyond
<1>6. Shows(k, Last(k))' = control[k]
  <2>1. m - n \in 0..(m - n) /\ (m - n) + n = m
    BY <1>2
  <2>2. Shows(k, m - n)' = Shows(k, m)
    BY <1>3, <2>1
  <2>3. Shows(k, Last(k))' = Shows(k, m)
    BY <1>2, <2>2 DEF Shows
  <2> QED
    BY <1>1, <2>3 DEF LeadsToControl
<1>7. LeadsToControl(k)'
  BY <1>2, <1>5, <1>6 DEF LeadsToControl
<1>8. 0 \in 0..(m - n) /\ 0 + n + 1 = n + 1
  BY <1>2
<1> QED
  BY <1>1, <1>4, <1>7, <1>8

\* A crash: what the old process had in its cache is in front of the stream.
LEMMA RestartTracked ==
  ASSUME Types, Tracked, Restart
  PROVE  Tracked'
<1> SUFFICES ASSUME NEW k \in Key PROVE LeadsToControl(k)'
  BY DEF Tracked, TrackedKey, Restart, NotSynced
<1>1. LeadsToControl(k) /\ cStream[k] \in Seq(ControlState) /\ cCache[k] \in ControlState
  BY DEF Tracked, TrackedKey, Types, ControlTypes, CacheTypes
<1>2. /\ UNCHANGED control[k] /\ cCache'[k] = Absent /\ synced'.control = FALSE
      /\ cStream'[k] = IF synced.control THEN <<cCache[k]>> \o cStream[k] ELSE cStream[k]
  BY DEF Restart, Nothing, NotSynced
<1>3. PICK n \in Nat : n = Last(k)
  BY <1>1 DEF Last
<1>4. CASE ~ synced.control
  BY <1>1, <1>2, <1>4 DEF LeadsToControl, AddBeyond, Shows, Last
<1>5. CASE synced.control
  <2>1. /\ Last(k)' = n + 1 /\ Shows(k, 0)' = Absent
        /\ \A i \in 0..n : Shows(k, i + 1)' = Shows(k, i)
    <3>1. Last(k)' = n + 1 /\ Shows(k, 0)' = Absent /\ Shows(k, 0 + 1)' = Shows(k, 0)
      BY <1>1, <1>2, <1>3, <1>5, PrependMembers DEF Last, Shows
    <3>2. \A i \in 1..n : Shows(k, i + 1)' = Shows(k, i)
      BY <1>1, <1>2, <1>3, <1>5, PrependMembers DEF Last, Shows
    <3> QED
      BY <3>1, <3>2
  <2>2. ASSUME NEW i \in 0..n, NEW j \in (i + 1)..n,
               Shows(k, j) # Absent, Shows(k, j - 1) = Absent
        PROVE  AddBeyond(k, i + 1)' /\ AddBeyond(k, 0)'
    <3>1. /\ j + 1 \in (i + 1 + 1)..(n + 1) /\ j + 1 \in (0 + 1)..(n + 1)
          /\ j \in 0..n /\ j - 1 \in 0..n /\ (j - 1) + 1 = (j + 1) - 1
      OBVIOUS
    <3>2. Shows(k, j + 1)' # Absent /\ Shows(k, (j + 1) - 1)' = Absent
      BY <2>1, <2>2, <3>1
    <3> QED
      BY <2>1, <3>1, <3>2 DEF AddBeyond
  <2>3. ASSUME control[k] # Absent, NEW i \in 0..n, Shows(k, i) = Absent
        PROVE  AddBeyond(k, i + 1)' /\ AddBeyond(k, 0)'
    BY <1>1, <1>3, <2>2, <2>3 DEF LeadsToControl, AddBeyond
  <2>4. ASSUME control[k] # Absent PROVE AddBeyond(k, 0)'
    <3>1. CASE Shows(k, 0) = Absent
      BY <2>3, <2>4, <3>1
    <3>2. CASE Shows(k, 0) # Absent
      <4>1. 1 \in (0 + 1)..(n + 1) /\ Shows(k, 1)' # Absent /\ Shows(k, 1 - 1)' = Absent
        BY <2>1, <3>2
      <4> QED
        BY <2>1, <4>1 DEF AddBeyond
    <3> QED
      BY <3>1, <3>2
  <2>5. ASSUME control[k] # Absent, NEW i \in 0..(n + 1), Shows(k, i)' = Absent
        PROVE  AddBeyond(k, i)'
    <3>1. CASE i = 0
      BY <2>4, <2>5, <3>1
    <3>2. CASE i # 0
      <4>1. PICK m \in 0..n : i = m + 1
        BY <3>2
      <4> QED
        BY <2>1, <2>3, <2>5, <4>1
    <3> QED
      BY <3>1, <3>2
  <2>6. Shows(k, Last(k))' = control[k]
    <3>1. Shows(k, n + 1)' = control[k]
      BY <1>1, <1>3, <2>1 DEF LeadsToControl
    <3> QED
      BY <2>1, <3>1 DEF Shows
  <2> QED
    BY <1>2, <2>1, <2>5, <2>6 DEF LeadsToControl
<1> QED
  BY <1>4, <1>5

\* A list, and an event of the watch: the informer comes to state pos[k] of each of
\* the keys.
Advances(keys, pos) ==
  /\ keys \subseteq Key
  /\ DOMAIN pos = keys
  /\ \A i \in keys : pos[i] \in DOMAIN cStream[i]
  /\ SeeControl(pos)
  /\ synced.control => \A i \in keys : pos[i] = 1
  /\ ~ synced.control => keys = Key
  /\ synced'.control

LEMMA ControlInformerAdvances ==
  ASSUME MaxRelists = 0, Types,
         ListControl \/ \E i \in Key : WatchControl(i) \/ RelistControl(i)
  PROVE  \E keys, pos : Advances(keys, pos)
<1>1. \A i \in Key : ~ RelistControl(i)
  BY DEF RelistControl, Spend, Types, BudgetTypes
<1>2. CASE ListControl
  <2>1. PICK pos \in Positions(cStream, Key) : SeeControl(pos)
    BY <1>2 DEF ListControl
  <2>2. synced'.control /\ ~ synced.control
    BY <1>2 DEF ListControl, Types, CacheTypes
  <2>3. Advances(Key, pos)
    BY <2>1, <2>2, PositionsTypes DEF Advances
  <2> QED
    BY <2>3
<1>3. ASSUME NEW i \in Key, WatchControl(i) PROVE \E keys, pos : Advances(keys, pos)
  <2> DEFINE pos == [j \in {i} |-> 1]
  <2>1. DOMAIN pos = {i} /\ pos[i] = 1 /\ 1 \in DOMAIN cStream[i]
    BY <1>3 DEF WatchControl, Types, ControlTypes
  <2>2. SeeControl(pos) /\ synced.control /\ synced'.control
    BY <1>3 DEF WatchControl
  <2> HIDE DEF pos
  <2>3. Advances({i}, pos)
    BY <2>1, <2>2 DEF Advances
  <2> QED
    BY <2>3
<1> QED
  BY <1>1, <1>2, <1>3

\* What appears on the way is queued, and nobody lists again.
LEMMA ControlInformerTracked ==
  ASSUME MaxRelists = 0, Types, Tracked,
         ListControl \/ \E i \in Key : WatchControl(i) \/ RelistControl(i)
  PROVE  Tracked'
<1>1. PICK keys, pos : Advances(keys, pos)
  BY ControlInformerAdvances
<1> USE DEF Advances
<1> SUFFICES ASSUME NEW k \in Key PROVE TrackedKey(k)'
  BY DEF Tracked
<1>2. TrackedKey(k) /\ UNCHANGED <<control, task>> /\ queue \in Queues
  BY <1>1 DEF Tracked, SeeControl, Types, WorkTypes
<1>3. Handed(k) => Handed(k)'
  BY <1>1, <1>2 DEF Handed, SeeControl, Enqueue, Queues, Actor
<1>4. CASE k \notin keys
  <2>1. UNCHANGED <<control[k], cCache[k], cStream[k], synced.control>>
    BY <1>1, <1>2, <1>4 DEF SeeControl, Seen, Unseen
  <2> QED
    BY <1>2, <1>3, <2>1, ShownKept DEF TrackedKey
<1>5. CASE k \in keys
  <2> DEFINE n == pos[k]
  <2>1. /\ n \in DOMAIN cStream[k]
        /\ cCache'[k] = cStream[k][n]
        /\ cStream'[k] = SubSeq(cStream[k], n + 1, Len(cStream[k]))
    BY <1>1, <1>5 DEF SeeControl, Seen, Unseen
  <2> HIDE DEF n
  <2>2. /\ LeadsToControl(k)'
        /\ \A j \in (n + 1)..Last(k) :
             Shows(k, j) # Absent /\ Shows(k, j - 1) = Absent => AddBeyond(k, 0)'
    BY <1>1, <1>2, <2>1, SeeLeads DEF TrackedKey
  <2>3. cCache[k] = Absent /\ cCache'[k] # Absent => Handed(k)'
    BY <1>1, <1>2 DEF Handed, SeeControl, Enqueue, Queues, Actor
  <2>4. ASSUME control[k] # Absent PROVE Handed(k)' \/ AddBeyond(k, 0)'
    <3>1. PICK m \in Nat : m = Last(k)
      BY DEF Last, Types, ControlTypes
    <3>2. CASE ~ synced.control
      <4>1. CASE cCache'[k] = Absent
        <5>1. Shows(k, 0)' = Absent /\ 0 \in 0..Last(k)'
          <6>1. cStream'[k] \in Seq(ControlState)
            BY <2>1, SuffixMembers DEF Types, ControlTypes
          <6> QED
            BY <4>1, <6>1 DEF Shows, Last
        <5> QED
          BY <1>2, <2>2, <2>4, <5>1 DEF LeadsToControl
      <4>2. CASE cCache'[k] # Absent
        BY <1>2, <2>3, <3>2, <4>2 DEF TrackedKey, LeadsToControl
      <4> QED
        BY <4>1, <4>2
    <3>3. CASE synced.control /\ ~ Handed(k)
      <4>1. PICK j \in (0 + 1)..m : Shows(k, j) # Absent /\ Shows(k, j - 1) = Absent
        BY <1>2, <2>4, <3>1, <3>3 DEF TrackedKey, AddBeyond
      <4>2. n = 1
        BY <1>1, <1>5, <3>3 DEF n
      <4>3. CASE j = 1
        BY <2>1, <2>3, <4>1, <4>2, <4>3 DEF Shows
      <4>4. CASE j # 1
        <5>1. j \in (n + 1)..m
          BY <4>2, <4>4
        <5> QED
          BY <2>2, <3>1, <4>1, <5>1
      <4> QED
        BY <4>3, <4>4
    <3> QED
      BY <1>3, <3>2, <3>3
  <2> QED
    BY <1>2, <2>2, <2>4 DEF TrackedKey
<1> QED
  BY <1>4, <1>5

-----------------------------------------------------------------------------
\* The workers.

LEMMA WorkersStep ==
  ASSUME Types, NEW a \in Actor, NEW i \in Key,
         \/ a = "ingress" /\ SyncStep(i)
         \/ a = "cleaner" /\ CleanerStep(i)
         \/ LoseRequest(a, i)
  PROVE  /\ WorkerStep(a, i)
         /\ UNCHANGED queue \/ Requeue(a, i)
<1>1. WorkerStep(a, i)
  BY ReadSteps, CheckSteps, CallSteps DEF SyncStep, SyncUpdate, CleanerStep, CleanerUpdate
<1>2. \A continue : Answered(a, i, continue) => continue \/ Requeue(a, i)
  BY DEF Answered
<1>3. CASE LookupOrphan(i) \/ Lookup(i) \/ SetProvider(i) \/ Render(i) \/ FindOrphan(i)
  BY <1>1, <1>3 DEF LookupOrphan, Lookup, SetProvider, Render, FindOrphan, Finish
<1>4. CASE (a = "cleaner" /\ FindCounterpart(i)) \/ LoseRequest(a, i)
  BY <1>1, <1>4 DEF FindCounterpart, Recheck, LoseRequest
<1>5. CASE a = "ingress" /\ CreateIngress(i)
  BY <1>1, <1>5 DEF CreateIngress, Answered, Finish
<1>6. CASE UpdateIngress(a, i)
  BY <1>1, <1>6 DEF UpdateIngress, Answered, Finish, Recheck, Actor
<1>7. CASE DeleteIngress(a, i)
  BY <1>1, <1>7 DEF DeleteIngress, Answered, Finish
<1>8. CASE DeleteSecret(a, i)
  BY <1>1, <1>8 DEF DeleteSecret, Answered, Finish
<1> QED
  BY <1>1, <1>3, <1>4, <1>5, <1>6, <1>7, <1>8
     DEF SyncStep, SyncUpdate, CleanerStep, CleanerUpdate

\* A worker of the cleaner that ends with a control Ingress in place queues it.
LEMMA CleanerKeepsHanded ==
  ASSUME Types, NEW k \in Key, CleanerStep(k) \/ LoseRequest("cleaner", k), Handed(k)
  PROVE  Handed(k)' \/ control'[k] = Absent
<1>1. queue \in Queues /\ task \in Tasks /\ "cleaner" \in Actor
  BY DEF Types, WorkTypes, Actor
<1>2. Requeue("cleaner", k) => Handed(k)'
  BY <1>1 DEF Requeue, Enqueue, Queues, Handed
<1>3. CASE FindOrphan(k)
  BY <1>1, <1>3 DEF FindOrphan, Goto, Handed, Tasks, GoodTask, TaskState
<1>4. CASE FindCounterpart(k)
  <2>1. CASE UpdateControlIngress
    <3>1. PICK provider \in {template} \cup Torn(Key, template) :
            task' = [task EXCEPT
                       !.cleaner[k].pc = "update",
                       !.cleaner[k].object.settings = boot,
                       !.cleaner[k].object.provider =
                         IF provider = NoProvider THEN @ ELSE provider]
      BY <1>4, <2>1 DEF FindCounterpart
    <3> DEFINE t == task.cleaner[k]
               u == [t EXCEPT !.pc = "update",
                              !.object.settings = boot,
                              !.object.provider =
                                IF provider = NoProvider THEN @ ELSE provider]
    <3>2. t \in TaskState
      BY <1>1 DEF Tasks, GoodTask
    <3>3. task'.cleaner[k] = u
      BY <1>1, <3>1, <3>2 DEF Tasks, TaskState
    <3>4. u.pc = "update"
      BY <3>2 DEF TaskState
    <3> HIDE DEF u
    <3> QED
      BY <3>3, <3>4 DEF Handed
  <2>2. CASE ~ UpdateControlIngress
    BY <1>2, <1>4, <2>2 DEF FindCounterpart, Recheck
  <2> QED
    BY <2>1, <2>2
<1>5. CASE CleanerUpdate(k) \/ LoseRequest("cleaner", k)
  BY <1>2, <1>5 DEF CleanerUpdate, UpdateIngress, Answered, Recheck, LoseRequest
<1>6. CASE DeleteIngress("cleaner", k)
  BY <1>6 DEF DeleteIngress, Store, Types, ControlTypes
<1>7. CASE DeleteSecret("cleaner", k)
  <2>1. k \in queue.cleaner.delayed \cup queue.cleaner.dirty
    BY <1>7 DEF DeleteSecret, At, Handed
  <2>2. UNCHANGED queue \/ Requeue("cleaner", k)
    BY <1>1, <1>7, WorkersStep DEF CleanerStep
  <2> QED
    BY <1>2, <2>1, <2>2 DEF Handed
<1> QED
  BY <1>3, <1>4, <1>5, <1>6, <1>7 DEF CleanerStep

-----------------------------------------------------------------------------
\* The other steps.
Quiet == ~ Restart /\ ~ ListControl /\ \A i \in Key : ~ WatchControl(i) /\ ~ RelistControl(i)

\* They may store a state of the control Ingress, and the informer stays where it is.
Moves(k) ==
  /\ UNCHANGED <<cCache[k], synced.control>>
  /\ \/ UNCHANGED <<control[k], cStream[k]>>
     \/ \E x \in ControlState : control'[k] = x /\ cStream'[k] = Append(cStream[k], x)

LEMMA WorkerMoves ==
  ASSUME Types, NEW k \in Key, NEW a \in Actor, NEW i \in Key, WorkerStep(a, i)
  PROVE  Moves(k)
<1>1. UNCHANGED <<cCache[k], synced.control>>
  BY DEF WorkerStep, cacheVars
<1>2. CASE UNCHANGED controlVars
  BY <1>1, <1>2 DEF Moves, controlVars
<1>3. CASE Deletes(a, i)
  BY <1>1, <1>3 DEF Moves, Deletes, Store, Types, ControlTypes, ControlState
<1>4. CASE Writes(a, i)
  <2> DEFINE o == [task[a][i].object EXCEPT !.rv = rev[i] + 1]
  <2>1. task[a][i].object \in ControlIngress /\ rev[i] \in Nat
    BY <1>4 DEF Writes, At, Types, WorkTypes, ControlTypes, Tasks, GoodTask
  <2>2. o \in ControlState
    BY <2>1 DEF ControlIngress, ControlState
  <2>3. /\ control' = [control EXCEPT ![i] = o]
        /\ cStream' = [cStream EXCEPT ![i] = Append(@, o)]
    BY <1>4 DEF Writes, Store
  <2> HIDE DEF o
  <2> QED
    BY <1>1, <2>2, <2>3 DEF Moves, Types, ControlTypes
<1> QED
  BY <1>2, <1>3, <1>4 DEF WorkerStep

LEMMA QuietMoves ==
  ASSUME Types, NEW k \in Key, [Next]_vars, Quiet
  PROVE  Moves(k)
<1>1. ASSUME UNCHANGED <<control, cStream, cCache>>, UNCHANGED synced.control
      PROVE  Moves(k)
  BY <1>1 DEF Moves
<1>2. CASE UNCHANGED vars
  BY <1>1, <1>2 DEF vars
<1>3. CASE ListTarget \/ \E i \in Key : WatchTarget(i) \/ RelistTarget(i)
  BY <1>1, <1>3 DEF ListTarget, WatchTarget, RelistTarget, SeeTarget, controlVars,
                    Types, CacheTypes
<1>4. ASSUME NEW i \in Key, User(i) \/ SyncStart(i) \/ CleanerStart(i) \/ Issue(i)
      PROVE  Moves(k)
  BY <1>1, <1>4 DEF User, Create, Edit, Revert, Label, Unlabel, Delete, UserOp, SyncStart,
                    CleanerStart, Issue, controlVars, cacheVars
<1>5. ASSUME NEW i \in Key, NEW a \in Actor, Add(a, i) PROVE Moves(k)
  BY <1>1, <1>5 DEF Add, controlVars, cacheVars
<1>6. ASSUME NEW i \in Key, NEW a \in Actor,
             \/ a = "ingress" /\ SyncStep(i)
             \/ a = "cleaner" /\ CleanerStep(i)
             \/ LoseRequest(a, i)
      PROVE  Moves(k)
  BY <1>6, WorkersStep, WorkerMoves
<1> QED
  BY <1>2, <1>3, <1>4, <1>5, <1>6 DEF Next, Informers, Quiet, Actor

\* The key of a control Ingress leaves the round only when the cleaner reads that
\* there is none.
LEMMA QuietHanded ==
  ASSUME Types, NEW k \in Key, [Next]_vars, Quiet, Handed(k)
  PROVE  Handed(k)' \/ control'[k] = Absent \/ (synced.control /\ cCache[k] = Absent)
<1>1. queue \in Queues /\ task \in Tasks /\ "cleaner" \in Actor /\ "ingress" \in Actor
  BY DEF Types, WorkTypes, Actor
<1>2. ASSUME NEW a \in Actor, NEW keys, queue' = Enqueue(queue, a, keys),
             task'.cleaner[k] = task.cleaner[k]
      PROVE  Handed(k)'
  BY <1>1, <1>2 DEF Enqueue, Queues, Handed
<1>3. CASE UNCHANGED vars
  BY <1>3 DEF vars, Handed
<1>4. CASE ListTarget \/ \E i \in Key : WatchTarget(i) \/ RelistTarget(i)
  BY <1>1, <1>2, <1>4 DEF ListTarget, WatchTarget, RelistTarget, SeeTarget
<1>5. ASSUME NEW i \in Key, User(i) \/ Issue(i) PROVE Handed(k)'
  BY <1>5 DEF User, Create, Edit, Revert, Label, Unlabel, Delete, UserOp, Issue, workVars,
              Handed
<1>6. ASSUME NEW i \in Key, SyncStart(i) PROVE Handed(k)'
  BY <1>1, <1>6 DEF SyncStart, Handed, Queues, Tasks
<1>7. ASSUME NEW i \in Key, CleanerStart(i)
      PROVE  Handed(k)' \/ (synced.control /\ cCache[k] = Absent)
  <2>1. CASE i = k
    <3>1. CASE cCache[k] = Absent
      BY <1>7, <2>1, <3>1 DEF CleanerStart, Take
    <3>2. CASE cCache[k] # Absent
      BY <1>1, <1>7, <2>1, <3>2 DEF CleanerStart, Handed, Tasks, Idle
    <3> QED
      BY <3>1, <3>2
  <2>2. CASE i # k
    <3>1. task'.cleaner[k] = task.cleaner[k]
      BY <1>1, <1>7, <2>2 DEF CleanerStart, Tasks
    <3>2. queue' = [queue EXCEPT !.cleaner.dirty = @ \ {i}]
      BY <1>7 DEF CleanerStart
    <3> QED
      BY <1>1, <2>2, <3>1, <3>2 DEF Handed, Queues
  <2> QED
    BY <2>1, <2>2
<1>8. ASSUME NEW i \in Key, NEW a \in Actor, Add(a, i) PROVE Handed(k)'
  BY <1>1, <1>8 DEF Add, Handed, Queues
<1>9. ASSUME NEW i \in Key, NEW a \in Actor, a = "ingress" \/ i # k,
             \/ a = "ingress" /\ SyncStep(i)
             \/ a = "cleaner" /\ CleanerStep(i)
             \/ LoseRequest(a, i)
      PROVE  Handed(k)'
  <2>1. task'.cleaner[k] = task.cleaner[k]
    BY <1>1, <1>9, WorkersStep DEF WorkerStep, Tasks
  <2>2. UNCHANGED queue \/ queue' = Enqueue(queue, a, {i})
    BY <1>9, WorkersStep DEF Requeue
  <2>3. CASE UNCHANGED queue
    BY <2>1, <2>3 DEF Handed
  <2> QED
    BY <1>2, <2>1, <2>2, <2>3
<1>10. CASE CleanerStep(k) \/ LoseRequest("cleaner", k)
  BY <1>10, CleanerKeepsHanded
<1> QED
  BY <1>1, <1>3, <1>4, <1>5, <1>6, <1>7, <1>8, <1>9, <1>10
     DEF Next, Informers, Quiet, Actor

LEMMA QuietTracked ==
  ASSUME Types, Tracked, [Next]_vars, Quiet
  PROVE  Tracked'
<1> SUFFICES ASSUME NEW k \in Key PROVE TrackedKey(k)'
  BY DEF Tracked
<1>1. TrackedKey(k) /\ Moves(k)
  BY QuietMoves DEF Tracked
<1>2. Handed(k) => Handed(k)' \/ control'[k] = Absent \/ (synced.control /\ cCache[k] = Absent)
  BY QuietHanded
<1>3. cCache[k] = Absent /\ control[k] # Absent => AddBeyond(k, 0)
  <2>1. Last(k) \in Nat
    BY DEF Last, Types, ControlTypes
  <2> QED
    BY <1>1, <2>1 DEF TrackedKey, LeadsToControl, Shows
<1>4. CASE UNCHANGED <<control[k], cStream[k]>>
  <2>1. LeadsToControl(k)' /\ (AddBeyond(k, 0) => AddBeyond(k, 0)')
    BY <1>1, <1>4, ShownKept DEF Moves, TrackedKey
  <2> QED
    BY <1>1, <1>2, <1>3, <1>4, <2>1 DEF TrackedKey, Moves
<1>5. ASSUME NEW x \in ControlState, control'[k] = x, cStream'[k] = Append(cStream[k], x)
      PROVE  TrackedKey(k)'
  <2>1. /\ LeadsToControl(k)'
        /\ AddBeyond(k, 0) => AddBeyond(k, 0)'
        /\ control[k] = Absent /\ x # Absent => AddBeyond(k, 0)'
    BY <1>1, <1>5, StoreLeads DEF Moves, TrackedKey
  <2> QED
    BY <1>1, <1>2, <1>3, <1>5, <2>1 DEF TrackedKey, Moves
<1> QED
  BY <1>1, <1>4, <1>5 DEF Moves

\* Every control Ingress is in the cleaner's round, or its OnAdd is still ahead, however
\* calls fail, processes crash and controllers overtake each other, as long as no watch
\* breaks: the cleaner queues again what it does not remove, and an Ingress that the
\* ingress controller creates behind the deletion of another is one the informer has
\* yet to add (pkg/cleaner/controller.go:147, 158).
THEOREM CleanerLosesNothing ==
  ASSUME MaxRelists = 0
  PROVE  Spec => []CleanerTracks
<1>1. Init => Types /\ Tracked
  BY InitTypes, InitTracked
<1>2. ASSUME Types, Tracked, [Next]_vars PROVE Tracked'
  BY <1>2, RestartTracked, ControlInformerTracked, QuietTracked DEF Quiet
<1>3. Types /\ Tracked /\ [Next]_vars => Types' /\ Tracked'
  BY <1>2, NextTypes
<1>4. Types /\ Tracked => CleanerTracks
  BY TrackedGivesCleanerTracks
<1> QED
  BY <1>1, <1>3, <1>4, PTL DEF Spec
=============================================================================
