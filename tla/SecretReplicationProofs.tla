---------------------- MODULE SecretReplicationProofs ----------------------
(***************************************************************************)
(* The safety of SecretReplication for any number of processes, versions   *)
(* and faults: what versions a process holds, and what it still has to do. *)
(***************************************************************************)
EXTENDS SecretReplication, TLAPS

\* Appending a state leaves the earlier ones.
LEMMA AppendKeeps ==
  ASSUME NEW s \in Seq(BOOLEAN), NEW b \in BOOLEAN
  PROVE  /\ Append(s, b) \in Seq(BOOLEAN)
         /\ Len(Append(s, b)) = Len(s) + 1
         /\ Len(s) \in Nat
         /\ \A i \in 1..Len(s) : Append(s, b)[i] = s[i]
OBVIOUS

-----------------------------------------------------------------------------
\* Types.

\* The part of TypeOK that is inductive by itself.
Ranges ==
  /\ secret \in Seq(BOOLEAN)
  /\ wanted \in Seq(BOOLEAN)
  /\ copy \in 0..Len(secret)
  /\ writer \in Process \cup {NoProcess}
  /\ role \in [Process -> {"down", "leading", "draining"}]
  /\ seen \in [Process -> 0..Len(secret)]
  /\ listed \in [Process -> 0..Len(wanted)]
  /\ waiting \in [Process -> BOOLEAN]
  /\ task \in [Process -> [pc : {"idle", "list", "create", "update"},
                           version : 0..Len(secret), current : BOOLEAN]]
  /\ budget \in [{"losses", "faults", "starts"} -> Nat]

LEMMA SpendTypes ==
  ASSUME Ranges, NEW what \in {"losses", "faults", "starts"}, NEW max, Spend(what, max)
  PROVE  budget' \in [{"losses", "faults", "starts"} -> Nat]
BY DEF Ranges, Spend

\* What the clusters do keeps the types.
LEMMA ClusterTypes ==
  ASSUME Ranges, Issue \/ Remove \/ ChangeIngress \/ LoseCopy
  PROVE  Ranges'
<1>1. ASSUME NEW b \in BOOLEAN, secret' = Append(secret, b),
             UNCHANGED <<wanted, copyVars, role, cacheVars, waiting, task, budget>>
      PROVE  Ranges'
  <2>1. secret' \in Seq(BOOLEAN) /\ Len(secret') = Len(secret) + 1 /\ Len(secret) \in Nat
    BY <1>1, AppendKeeps DEF Ranges
  <2>2. UNCHANGED <<wanted, copy, writer, role, seen, listed, waiting, task, budget>>
    BY <1>1 DEF copyVars, cacheVars
  <2>3. 0..Len(secret) \subseteq 0..Len(secret')
    BY <2>1
  <2>4. task \in [Process -> [pc : {"idle", "list", "create", "update"},
                              version : 0..Len(secret'), current : BOOLEAN]]
    BY <2>3 DEF Ranges
  <2>5. seen \in [Process -> 0..Len(secret')] /\ copy \in 0..Len(secret')
    BY <2>3 DEF Ranges
  <2> QED
    BY <2>1, <2>2, <2>4, <2>5 DEF Ranges
<1>2. CASE Issue
  BY <1>1, <1>2 DEF Issue
<1>3. CASE Remove
  BY <1>1, <1>3 DEF Remove
<1>4. CASE ChangeIngress
  <2>1. UNCHANGED <<secret, copy, writer, role, seen, waiting, task, budget>> /\ listed' = listed
    BY <1>4 DEF ChangeIngress, copyVars, cacheVars
  <2>2. wanted' = Append(wanted, ~ wanted[Len(wanted)])
    BY <1>4 DEF ChangeIngress
  <2>3. wanted' \in Seq(BOOLEAN) /\ Len(wanted') = Len(wanted) + 1 /\ Len(wanted) \in Nat
    BY <2>2, AppendKeeps DEF Ranges
  <2>4. listed' \in [Process -> 0..Len(wanted')]
    <3>1. 0..Len(wanted) \subseteq 0..Len(wanted')
      BY <2>3
    <3> QED
      BY <2>1, <3>1 DEF Ranges
  <2> QED
    BY <2>1, <2>3, <2>4 DEF Ranges
<1>5. CASE LoseCopy
  <2>1. budget' \in [{"losses", "faults", "starts"} -> Nat]
    BY <1>5, SpendTypes DEF LoseCopy
  <2>2. UNCHANGED <<secret, wanted, role, seen, listed, waiting, task>>
    BY <1>5 DEF LoseCopy, clusterVars, cacheVars
  <2>3. copy' = 0 /\ writer' = NoProcess /\ Len(secret) \in Nat
    BY <1>5 DEF LoseCopy, Ranges
  <2> QED
    BY <2>1, <2>2, <2>3 DEF Ranges
<1> QED
  BY <1>2, <1>3, <1>4, <1>5

\* What a process does keeps the types.
LEMMA ProcessTypes ==
  ASSUME Ranges, NEW p \in Process,
         Start(p) \/ Stop(p) \/ End(p) \/ Observe(p) \/ Sync(p) \/ LoseRequest(p)
  PROVE  Ranges'
<1>0. UNCHANGED <<secret, wanted>> /\ Len(secret) \in Nat /\ Len(wanted) \in Nat
  BY DEF Start, Stop, End, Observe, ObserveSecret, ObserveIngress, RelistSecret,
         RelistIngress, Sync, SyncStart,
         ListIngresses, Create, Update, LoseRequest, clusterVars, Ranges
<1>1. CASE Start(p)
  <2>1. budget' \in [{"losses", "faults", "starts"} -> Nat]
    BY <1>1, SpendTypes DEF Start
  <2> QED
    BY <1>0, <1>1, <2>1 DEF Start, Roles!Start, copyVars, cacheVars, clusterVars, Ranges
<1>2. CASE Stop(p)
  BY <1>0, <1>2 DEF Stop, Roles!Stop, copyVars, cacheVars, clusterVars, Ranges
<1>3. CASE End(p)
  BY <1>0, <1>3 DEF End, Roles!End, Idle, Ranges
<1>4. CASE ObserveSecret(p)
  <2>1. PICK v \in seen[p] + 1 .. Len(secret) :
          /\ seen' = [seen EXCEPT ![p] = v]
          /\ waiting' = [waiting EXCEPT ![p] = @ \/ Notifies(v)]
    BY <1>4 DEF ObserveSecret, SecretCacheIs
  <2>2. v \in 0..Len(secret)
    BY <1>0 DEF Ranges
  <2> QED
    BY <1>0, <1>4, <2>1, <2>2 DEF ObserveSecret, copyVars, clusterVars, Ranges
<1>5. CASE ObserveIngress(p)
  <2>1. PICK i \in listed[p] + 1 .. Len(wanted) : listed' = [listed EXCEPT ![p] = i]
    BY <1>5 DEF ObserveIngress
  <2>2. i \in 0..Len(wanted)
    BY <1>0 DEF Ranges
  <2> QED
    BY <1>0, <1>5, <2>1, <2>2 DEF ObserveIngress, copyVars, clusterVars, Ranges
<1>c. CASE RelistSecret(p)
  <2>1. budget' \in [{"losses", "faults", "starts"} -> Nat]
    BY <1>c, SpendTypes DEF RelistSecret
  <2>2. PICK v \in 1 .. Len(secret) :
          /\ seen' = [seen EXCEPT ![p] = v]
          /\ waiting' = [waiting EXCEPT ![p] = @ \/ Notifies(v)]
    BY <1>c DEF RelistSecret, SecretCacheIs
  <2>3. v \in 0..Len(secret)
    BY <1>0
  <2>4. /\ UNCHANGED <<copy, role, listed>>
        /\ writer' = IF writer = p THEN NoProcess ELSE writer
        /\ task' = IF task[p] = Idle THEN task ELSE [task EXCEPT ![p].current = FALSE]
    BY <1>c DEF RelistSecret
  <2>5. task' \in [Process -> [pc : {"idle", "list", "create", "update"},
                               version : 0..Len(secret), current : BOOLEAN]]
    BY <2>4 DEF Ranges
  <2>6. seen' \in [Process -> 0..Len(secret)] /\ waiting' \in [Process -> BOOLEAN]
    BY <2>2, <2>3 DEF Ranges
  <2> QED
    BY <1>0, <2>1, <2>4, <2>5, <2>6 DEF Ranges
<1>d. CASE RelistIngress(p)
  <2>1. budget' \in [{"losses", "faults", "starts"} -> Nat]
    BY <1>d, SpendTypes DEF RelistIngress
  <2>2. PICK i \in 1 .. Len(wanted) : listed' = [listed EXCEPT ![p] = i]
    BY <1>d DEF RelistIngress
  <2>3. i \in 0..Len(wanted)
    BY <1>0
  <2> QED
    BY <1>0, <1>d, <2>1, <2>2, <2>3 DEF RelistIngress, copyVars, Ranges
<1>6. CASE SyncStart(p)
  BY <1>0, <1>6 DEF SyncStart, copyVars, cacheVars, clusterVars, Idle, Ranges
<1> DEFINE Tasks == [pc : {"idle", "list", "create", "update"}, version : 0..Len(secret), current : BOOLEAN]
<1>a. /\ task \in [Process -> Tasks]
      /\ \A pc \in {"create", "update"} : [task[p] EXCEPT !.pc = pc] \in Tasks
      /\ Idle \in Tasks
      /\ task[p].version \in 0..Len(secret)
  <2>1. task \in [Process -> Tasks] /\ task[p] \in Tasks
    BY DEF Ranges
  <2>2. Idle \in Tasks
    BY <1>0 DEF Idle
  <2>3. ASSUME NEW pc \in {"create", "update"} PROVE [task[p] EXCEPT !.pc = pc] \in Tasks
    BY <2>1
  <2>4. task[p].version \in 0..Len(secret)
    BY <2>1
  <2> QED
    BY <2>1, <2>2, <2>3, <2>4
<1>b. ASSUME UNCHANGED <<role, seen, listed>>, task' \in [Process -> Tasks],
             waiting' \in [Process -> BOOLEAN], UNCHANGED budget,
             copy' \in 0..Len(secret), writer' \in Process \cup {NoProcess}
      PROVE  Ranges'
  BY <1>0, <1>b DEF Ranges
<1>7. CASE ListIngresses(p)
  <2>1. task' = [task EXCEPT ![p] = IF HasIngressInTargetCluster(p)
                                    THEN [task[p] EXCEPT !.pc = "create"] ELSE Idle]
    BY <1>7 DEF ListIngresses
  <2>2. task' \in [Process -> Tasks]
    BY <1>a, <2>1
  <2>3. UNCHANGED <<role, seen, listed, waiting, budget, copy, writer>>
    BY <1>7 DEF ListIngresses, copyVars, cacheVars
  <2> QED
    BY <1>b, <2>2, <2>3 DEF Ranges
<1>8. CASE Create(p)
  <2>1. \/ /\ task' = [task EXCEPT ![p] = Idle]
           /\ copy' = task[p].version /\ writer' = IF task[p].current THEN p ELSE NoProcess
        \/ task' = [task EXCEPT ![p] = [task[p] EXCEPT !.pc = "update"]] /\ UNCHANGED <<copy, writer>>
    BY <1>8 DEF Create, Write, Replaces, copyVars
  <2>2. UNCHANGED <<role, seen, listed, waiting, budget>>
    BY <1>8 DEF Create, Write, cacheVars
  <2>3. task' \in [Process -> Tasks]
    BY <1>a, <2>1
  <2> QED
    BY <1>a, <1>b, <2>1, <2>2, <2>3 DEF Ranges
<1>9. CASE Update(p)
  <2>1. /\ task' = [task EXCEPT ![p] = Idle]
        /\ \/ copy' = task[p].version /\ writer' = IF task[p].current THEN p ELSE NoProcess
           \/ UNCHANGED <<copy, writer>>
    BY <1>9 DEF Update, Write, Replaces, Retry, copyVars
  <2>2. UNCHANGED <<role, seen, listed, budget>>
    BY <1>9 DEF Update, cacheVars
  <2>3. task' \in [Process -> Tasks]
    BY <1>a, <2>1
  <2>4. waiting' \in [Process -> BOOLEAN]
    BY <1>9 DEF Update, Write, Retry, Ranges
  <2> QED
    BY <1>a, <1>b, <2>1, <2>2, <2>3, <2>4 DEF Ranges
<1>10. CASE LoseRequest(p)
  <2>1. budget' \in [{"losses", "faults", "starts"} -> Nat]
    BY <1>10, SpendTypes DEF LoseRequest
  <2>2. /\ task' = [task EXCEPT ![p] = Idle]
        /\ \/ copy' = task[p].version /\ writer' = IF task[p].current THEN p ELSE NoProcess
           \/ UNCHANGED <<copy, writer>>
    BY <1>10 DEF LoseRequest, Replaces, Retry, copyVars
  <2>3. task' \in [Process -> Tasks] /\ waiting' \in [Process -> BOOLEAN]
    BY <1>a, <1>10, <2>2 DEF LoseRequest, Retry, Ranges
  <2>4. copy' \in 0..Len(secret) /\ writer' \in Process \cup {NoProcess}
    BY <1>a, <2>2 DEF Ranges
  <2>5. UNCHANGED <<role, seen, listed>>
    BY <1>10 DEF LoseRequest, cacheVars
  <2> QED
    BY <1>0, <2>1, <2>3, <2>4, <2>5 DEF Ranges
<1> QED
  BY <1>1, <1>2, <1>3, <1>4, <1>5, <1>c, <1>d, <1>6, <1>7, <1>8, <1>9, <1>10 DEF Observe, Sync

LEMMA NextTypes ==
  ASSUME Ranges, [Next]_vars
  PROVE  Ranges'
<1>1. CASE UNCHANGED vars
  BY <1>1 DEF vars, Ranges
<1>2. CASE Next
  BY <1>2, ClusterTypes, ProcessTypes DEF Next
<1> QED
  BY <1>1, <1>2

LEMMA InitTypes ==
  ASSUME Init
  PROVE  Ranges
<1>1. secret \in Seq(BOOLEAN) /\ Len(secret) = 1
  BY DEF Init
<1>2. wanted \in Seq(BOOLEAN) /\ Len(wanted) = 1
  <2>1. <<FALSE>> \in Seq(BOOLEAN) /\ Len(<<FALSE>>) = 1
    OBVIOUS
  <2>2. <<TRUE>> \in Seq(BOOLEAN) /\ Len(<<TRUE>>) = 1
    OBVIOUS
  <2>3. wanted = <<FALSE>> \/ wanted = <<TRUE>>
    BY DEF Init
  <2> QED
    BY <2>1, <2>2, <2>3
<1> QED
  <2>1. wanted \in Seq(BOOLEAN) /\ Len(wanted) \in Nat /\ Len(secret) \in Nat
    BY <1>1, <1>2
  <2> QED
    BY <1>1, <2>1 DEF Init, Idle, Roles!Init, Ranges

-----------------------------------------------------------------------------
\* Versions.

Busy(p) == task[p].pc # "idle"

\* A process that is down holds nothing, and whoever has a key has a version.
Holdings ==
  \A p \in Process :
    /\ role[p] = "down" => ~ waiting[p] /\ ~ Busy(p) /\ writer # p
    /\ waiting[p] \/ Busy(p) \/ writer = p => seen[p] # 0

\* Since the last list that took the cache back: what a process wrote is not newer than
\* what it is about to write, and that is not newer than its cache.
Ordered ==
  \A p \in Process :
    /\ Busy(p) \/ task[p] = Idle
    /\ ~ task[p].current => writer # p
    /\ Busy(p) /\ task[p].current => task[p].version <= seen[p]
    /\ writer = p => copy <= seen[p]
    /\ writer = p /\ Busy(p) => copy <= task[p].version

\* What a process has read, and what it has copied, was a certificate.
Genuine ==
  /\ copy # 0 => secret[copy]
  /\ \A p \in Process : Busy(p) => task[p].version # 0 /\ secret[task[p].version]

Versions == Ranges /\ Holdings /\ Ordered /\ Genuine

\* A write: by process p, of the version it has read.
Writes(p) ==
  /\ Busy(p)
  /\ copy' = task[p].version
  /\ writer' = IF task[p].current THEN p ELSE NoProcess
  /\ task' = [task EXCEPT ![p] = Idle]
  /\ UNCHANGED <<role, seen, secret>>
  /\ \A q \in Process : waiting'[q] => waiting[q] \/ q = p

\* Where a step of Sync may leave its task.
NextTask(p, t) ==
  \/ t = Idle
  \/ Busy(p) /\ t.pc # "idle" /\ t.version = task[p].version /\ t.current = task[p].current
  \/ /\ waiting[p] /\ ~ Busy(p)
     /\ t.pc # "idle" /\ t.version = seen[p] /\ t.current /\ secret[seen[p]]

\* What the steps of Sync are.
LEMMA SyncShape ==
  ASSUME Ranges, NEW p \in Process, Sync(p) \/ LoseRequest(p)
  PROVE  \/ Writes(p)
         \/ /\ UNCHANGED <<copy, writer, role, seen, secret>>
            /\ \E t \in [pc : {"idle", "list", "create", "update"}, version : Nat, current : BOOLEAN] :
                 task' = [task EXCEPT ![p] = t] /\ NextTask(p, t)
            /\ \A q \in Process : waiting'[q] => waiting[q] \/ (q = p /\ Busy(p) /\ role[p] = "leading")
<1> DEFINE Tasks == [pc : {"idle", "list", "create", "update"}, version : Nat, current : BOOLEAN]
           Stay == UNCHANGED <<copy, writer, role, seen, secret>>
<1>1. /\ task[p] \in Tasks
      /\ Idle \in Tasks /\ Idle.pc = "idle"
      /\ seen[p] \in Nat
      /\ waiting \in [Process -> BOOLEAN]
      /\ task \in [Process -> [pc : {"idle", "list", "create", "update"},
                               version : 0..Len(secret), current : BOOLEAN]]
  BY DEF Ranges, Idle
<1>2. CASE SyncStart(p)
  <2> DEFINE t == IF secret[seen[p]]
                  THEN [pc |-> "list", version |-> seen[p], current |-> TRUE] ELSE Idle
  <2>1. task' = [task EXCEPT ![p] = t] /\ Stay
    BY <1>2 DEF SyncStart, copyVars, cacheVars, clusterVars
  <2>2. waiting[p] /\ ~ Busy(p) /\ \A q \in Process : waiting'[q] => waiting[q]
    BY <1>1, <1>2 DEF SyncStart, Busy
  <2>3. t \in Tasks /\ NextTask(p, t)
    BY <1>1, <2>2 DEF NextTask
  <2> QED
    BY <2>1, <2>2, <2>3
<1>3. CASE ListIngresses(p)
  <2> DEFINE t == IF HasIngressInTargetCluster(p) THEN [task[p] EXCEPT !.pc = "create"] ELSE Idle
  <2>1. task' = [task EXCEPT ![p] = t] /\ Stay /\ waiting' = waiting /\ Busy(p)
    BY <1>3 DEF ListIngresses, copyVars, cacheVars, clusterVars, Busy
  <2>2. t \in Tasks /\ NextTask(p, t)
    BY <1>1, <2>1 DEF NextTask
  <2> QED
    BY <2>1, <2>2
<1>4. CASE Create(p)
  <2>1. CASE Write(p)
    BY <1>4, <2>1 DEF Create, Write, Replaces, Writes, Busy, cacheVars, clusterVars
  <2>2. CASE ~ Write(p)
    <3> DEFINE t == [task[p] EXCEPT !.pc = "update"]
    <3>1. task' = [task EXCEPT ![p] = t] /\ Stay /\ waiting' = waiting /\ Busy(p)
      BY <1>4, <2>2 DEF Create, copyVars, cacheVars, clusterVars, Busy
    <3>2. t \in Tasks /\ NextTask(p, t)
      BY <1>1, <3>1 DEF NextTask
    <3> QED
      BY <3>1, <3>2
  <2> QED
    BY <2>1, <2>2
<1>5. CASE Update(p)
  <2>1. CASE Write(p)
    BY <1>5, <2>1 DEF Update, Write, Replaces, Writes, Busy, cacheVars, clusterVars
  <2>2. CASE ~ Write(p)
    <3>1. task' = [task EXCEPT ![p] = Idle] /\ Stay /\ Busy(p)
      BY <1>5, <2>2 DEF Update, Retry, copyVars, cacheVars, clusterVars, Busy
    <3>2. \A q \in Process : waiting'[q] => waiting[q] \/ (q = p /\ Busy(p) /\ role[p] = "leading")
      BY <1>1, <1>5, <2>2, <3>1 DEF Update, Retry
    <3> QED
      BY <1>1, <3>1, <3>2 DEF NextTask
  <2> QED
    BY <2>1, <2>2
<1>6. CASE LoseRequest(p)
  <2>1. task' = [task EXCEPT ![p] = Idle] /\ UNCHANGED <<role, seen, secret>> /\ Busy(p)
    BY <1>6 DEF LoseRequest, Retry, Busy, cacheVars, clusterVars
  <2>2. \A q \in Process : waiting'[q] => waiting[q] \/ (q = p /\ Busy(p) /\ role[p] = "leading")
    BY <1>1, <1>6, <2>1 DEF LoseRequest, Retry
  <2>3. \/ UNCHANGED <<copy, writer>>
        \/ copy' = task[p].version /\ writer' = IF task[p].current THEN p ELSE NoProcess
    BY <1>6 DEF LoseRequest, Replaces, copyVars
  <2> QED
    BY <1>1, <2>1, <2>2, <2>3 DEF Writes, NextTask
<1> QED
  BY <1>2, <1>3, <1>4, <1>5, <1>6 DEF Sync

LEMMA VersionValues ==
  ASSUME Ranges
  PROVE  /\ task \in [Process -> [pc : {"idle", "list", "create", "update"},
                                  version : 0..Len(secret), current : BOOLEAN]]
         /\ \A q \in Process : /\ task[q].version \in Nat /\ seen[q] \in Nat
                               /\ task[q].current \in BOOLEAN
         /\ copy \in Nat /\ Idle.pc = "idle" /\ Idle.current
         /\ writer \in Process \cup {NoProcess} /\ NoProcess \notin Process
         /\ Len(secret) \in Nat /\ seen \in [Process -> Nat]
         /\ waiting \in [Process -> BOOLEAN]
         /\ role \in [Process -> {"down", "leading", "draining"}]
BY ProcessAssumption DEF Ranges, Idle

\* A step replaces no newer copy of the same writer.
MovesForward == copy' # 0 /\ copy' < copy => writer = NoProcess \/ writer' # writer

\* Sync keeps to the order: it writes what it has read, and reads what it knows.
LEMMA SyncVersions ==
  ASSUME Versions, NEW p \in Process, Sync(p) \/ LoseRequest(p)
  PROVE  Holdings' /\ Ordered' /\ Genuine' /\ MovesForward
<1>1. Ranges /\ Holdings /\ Ordered /\ Genuine
  BY DEF Versions
<1>2. CASE Writes(p)
  <2>1. /\ Busy(p)
        /\ copy' = task[p].version
        /\ writer' = IF task[p].current THEN p ELSE NoProcess
        /\ task' = [task EXCEPT ![p] = Idle]
        /\ UNCHANGED <<role, seen, secret>>
        /\ \A q \in Process : waiting'[q] => waiting[q] \/ q = p
    BY <1>2 DEF Writes
  <2>2. /\ \A q \in Process \ {p} : task'[q] = task[q] /\ writer' # q
        /\ task'[p] = Idle
        /\ writer' = p => task[p].current
    BY <1>1, <2>1, VersionValues
  <2>3. role[p] # "down" /\ seen[p] # 0
    BY <1>1, <2>1 DEF Holdings
  <2>4. Holdings'
    BY <1>1, <2>1, <2>2, <2>3, VersionValues DEF Holdings, Busy
  <2>5. Ordered'
    BY <1>1, <2>1, <2>2, VersionValues DEF Ordered, Busy
  <2>6. Genuine'
    BY <1>1, <2>1, <2>2, VersionValues DEF Genuine, Busy
  <2>7. MovesForward
    <3> SUFFICES ASSUME copy' < copy, writer # NoProcess, writer' = writer PROVE FALSE
      BY DEF MovesForward
    <3>1. writer = p
      BY <2>1
    <3>2. copy <= task[p].version
      BY <1>1, <2>1, <3>1 DEF Ordered
    <3> QED
      BY <1>1, <2>1, <3>2, VersionValues
  <2> QED
    BY <2>4, <2>5, <2>6, <2>7
<1>3. CASE ~ Writes(p)
  <2>1. PICK t \in [pc : {"idle", "list", "create", "update"}, version : Nat, current : BOOLEAN] :
          task' = [task EXCEPT ![p] = t] /\ NextTask(p, t)
    BY <1>1, <1>3, SyncShape
  <2>2. UNCHANGED <<copy, writer, role, seen, secret>>
    BY <1>1, <1>3, SyncShape
  <2>3. \A q \in Process : waiting'[q] => waiting[q] \/ (q = p /\ Busy(p) /\ role[p] = "leading")
    BY <1>1, <1>3, SyncShape
  <2>4. task'[p] = t /\ \A q \in Process \ {p} : task'[q] = task[q]
    BY <1>1, <2>1, VersionValues
  <2>5. \/ t = Idle /\ t.pc = "idle" /\ t.current
        \/ Busy(p) /\ t.pc # "idle" /\ t.version = task[p].version /\ t.current = task[p].current
        \/ /\ waiting[p] /\ ~ Busy(p) /\ seen[p] # 0
           /\ t.pc # "idle" /\ t.version = seen[p] /\ t.current /\ secret[seen[p]]
    <3>1. waiting[p] => seen[p] # 0
      BY <1>1 DEF Holdings
    <3>2. Idle.pc = "idle" /\ Idle.current
      BY DEF Idle
    <3> QED
      BY <2>1, <3>1, <3>2 DEF NextTask
  <2>6. Holdings'
    BY <1>1, <2>2, <2>3, <2>4, <2>5 DEF Holdings, Busy
  <2>7. Ordered'
    BY <1>1, <2>2, <2>4, <2>5, VersionValues DEF Ordered, Busy
  <2>8. Genuine'
    BY <1>1, <2>2, <2>4, <2>5 DEF Genuine, Busy
  <2>9. MovesForward
    BY <1>1, <2>2, VersionValues DEF MovesForward
  <2> QED
    BY <2>6, <2>7, <2>8, <2>9
<1> QED
  BY <1>2, <1>3

\* What the clusters do takes nothing from a process.
LEMMA ClusterVersions ==
  ASSUME Versions, Issue \/ Remove \/ ChangeIngress \/ LoseCopy \/ UNCHANGED vars
  PROVE  Holdings' /\ Ordered' /\ Genuine' /\ (copy' # 0 => copy' = copy)
<1>1. Ranges /\ Holdings /\ Ordered /\ Genuine
  BY DEF Versions
<1>2. UNCHANGED <<role, seen, waiting, task>>
  BY DEF Issue, Remove, ChangeIngress, LoseCopy, vars, cacheVars
<1>3. UNCHANGED <<copy, writer>> \/ (copy' = 0 /\ writer' = NoProcess)
  BY DEF Issue, Remove, ChangeIngress, LoseCopy, copyVars, vars
<1>4. \A v \in 1..Len(secret) : secret'[v] = secret[v]
  <2>1. secret' = secret \/ \E b \in BOOLEAN : secret' = Append(secret, b)
    BY DEF Issue, Remove, ChangeIngress, LoseCopy, clusterVars, vars
  <2> QED
    BY <1>1, <2>1, AppendKeeps DEF Ranges
<1>5. Holdings'
  BY <1>1, <1>2, <1>3, VersionValues DEF Holdings, Busy
<1>6. Ordered'
  BY <1>1, <1>2, <1>3, VersionValues DEF Ordered, Busy
<1>7. Genuine'
  <2>1. copy # 0 => copy \in 1..Len(secret)
    BY <1>1 DEF Ranges
  <2>2. \A p \in Process : task[p].version # 0 => task[p].version \in 1..Len(secret)
    BY <1>1 DEF Ranges
  <2> QED
    BY <1>1, <1>2, <1>3, <1>4, <2>1, <2>2 DEF Genuine, Busy
<1> QED
  BY <1>3, <1>5, <1>6, <1>7

\* So does everything else: a cache moves on, or what was read from it counts as old,
\* and a process that ends leaves nothing behind.
LEMMA OtherVersions ==
  ASSUME Versions, NEW p \in Process, Start(p) \/ Stop(p) \/ End(p) \/ Observe(p)
  PROVE  Holdings' /\ Ordered' /\ Genuine' /\ copy' = copy
<1>1. Ranges /\ Holdings /\ Ordered /\ Genuine
  BY DEF Versions
<1>2. CASE ObserveIngress(p) \/ RelistIngress(p)
  <2>1. UNCHANGED <<secret, copy, writer, role, seen, waiting, task>>
    BY <1>2 DEF ObserveIngress, RelistIngress, copyVars, clusterVars
  <2> QED
    BY <1>1, <2>1 DEF Holdings, Ordered, Genuine, Busy
<1>3. CASE ObserveSecret(p)
  <2>1. PICK v \in seen[p] + 1 .. Len(secret) :
          /\ seen' = [seen EXCEPT ![p] = v]
          /\ waiting' = [waiting EXCEPT ![p] = @ \/ Notifies(v)]
    BY <1>3 DEF ObserveSecret, SecretCacheIs
  <2>2. UNCHANGED <<secret, copy, writer, role, task>> /\ role[p] = "leading"
    BY <1>3 DEF ObserveSecret, copyVars, clusterVars
  <2>3. v > seen[p] /\ v \in Nat /\ v # 0
    BY <1>1, <2>1, VersionValues
  <2>4. seen'[p] = v /\ \A q \in Process \ {p} : seen'[q] = seen[q] /\ waiting'[q] = waiting[q]
    BY <1>1, <2>1, VersionValues
  <2>5. Holdings'
    BY <1>1, <2>2, <2>3, <2>4 DEF Holdings, Busy
  <2>6. Ordered'
    BY <1>1, <2>2, <2>3, <2>4, VersionValues DEF Ordered, Busy
  <2>7. Genuine'
    BY <1>1, <2>2 DEF Genuine, Busy
  <2> QED
    BY <2>2, <2>5, <2>6, <2>7
<1>4. CASE RelistSecret(p)
  <2>1. PICK v \in 1 .. Len(secret) :
          /\ seen' = [seen EXCEPT ![p] = v]
          /\ waiting' = [waiting EXCEPT ![p] = @ \/ Notifies(v)]
    BY <1>4 DEF RelistSecret, SecretCacheIs
  <2>2. /\ UNCHANGED <<secret, copy, role>> /\ role[p] = "leading"
        /\ writer' = IF writer = p THEN NoProcess ELSE writer
        /\ task' = IF task[p] = Idle THEN task ELSE [task EXCEPT ![p].current = FALSE]
    BY <1>4 DEF RelistSecret, clusterVars
  <2>3. v \in Nat /\ v # 0
    BY <1>1, <2>1, VersionValues
  <2>4. seen'[p] = v /\ \A q \in Process \ {p} : seen'[q] = seen[q] /\ waiting'[q] = waiting[q]
    BY <1>1, <2>1, VersionValues
  <2>5. /\ task'[p].pc = task[p].pc /\ task'[p].version = task[p].version
        /\ task[p] # Idle => ~ task'[p].current
        /\ task[p] = Idle => task'[p] = Idle
        /\ \A q \in Process \ {p} : task'[q] = task[q]
    <3>1. CASE task[p] = Idle
      BY <2>2, <3>1
    <3>2. CASE task[p] # Idle
      <4>1. task' = [task EXCEPT ![p].current = FALSE]
        BY <2>2, <3>2
      <4> QED
        BY <1>1, <3>2, <4>1, VersionValues
    <3> QED
      BY <3>1, <3>2
  <2>6. writer' # p /\ \A q \in Process : writer' = q => writer = q
    BY <1>1, <2>2, VersionValues
  <2>7. Busy(p) <=> task[p] # Idle
    BY <1>1, VersionValues DEF Busy, Ordered
  <2>8. Holdings'
    BY <1>1, <2>2, <2>3, <2>4, <2>5, <2>6 DEF Holdings, Busy
  <2>9. Ordered'
    BY <1>1, <2>2, <2>3, <2>4, <2>5, <2>6, <2>7, VersionValues DEF Ordered, Busy
  <2>10. Genuine'
    BY <1>1, <2>2, <2>5 DEF Genuine, Busy
  <2> QED
    BY <2>2, <2>8, <2>9, <2>10
<1>5. CASE Start(p) \/ Stop(p)
  <2>1. UNCHANGED <<secret, copy, writer, seen, task>>
    BY <1>5 DEF Start, Stop, copyVars, cacheVars, clusterVars
  <2>2. \A q \in Process : role'[q] = "down" => role[q] = "down"
    BY <1>1, <1>5, VersionValues DEF Start, Stop, Roles!Start, Roles!Stop
  <2>3. \A q \in Process : waiting'[q] => waiting[q]
    BY <1>1, <1>5, VersionValues DEF Start, Stop
  <2> QED
    BY <1>1, <2>1, <2>2, <2>3 DEF Holdings, Ordered, Genuine, Busy
<1>6. CASE End(p)
  <2>1. /\ UNCHANGED <<secret, copy>>
        /\ writer' = IF writer = p THEN NoProcess ELSE writer
        /\ role' = [role EXCEPT ![p] = "down"]
        /\ seen' = [seen EXCEPT ![p] = 0]
        /\ waiting' = [waiting EXCEPT ![p] = FALSE]
        /\ task' = [task EXCEPT ![p] = Idle]
    BY <1>6 DEF End, Roles!End, clusterVars
  <2>2. /\ writer' # p
        /\ \A q \in Process : writer' = q => writer = q
        /\ ~ waiting'[p] /\ task'[p] = Idle
        /\ \A q \in Process \ {p} : /\ role'[q] = role[q] /\ seen'[q] = seen[q]
                                     /\ waiting'[q] = waiting[q] /\ task'[q] = task[q]
    BY <1>1, <2>1, VersionValues
  <2>3. Holdings'
    BY <1>1, <2>2, VersionValues DEF Holdings, Busy
  <2>4. Ordered'
    BY <1>1, <2>1, <2>2, VersionValues DEF Ordered, Busy
  <2>5. Genuine'
    BY <1>1, <2>1, <2>2, VersionValues DEF Genuine, Busy
  <2> QED
    BY <2>1, <2>3, <2>4, <2>5
<1> QED
  BY <1>2, <1>3, <1>4, <1>5, <1>6 DEF Observe

LEMMA NextVersions ==
  ASSUME Versions, [Next]_vars
  PROVE  Versions' /\ MovesForward
<1>1. Ranges' /\ copy \in Nat
  BY NextTypes, VersionValues DEF Versions
<1>2. CASE Issue \/ Remove \/ ChangeIngress \/ LoseCopy \/ UNCHANGED vars
  BY <1>1, <1>2, ClusterVersions DEF Versions, MovesForward
<1>3. CASE \E p \in Process : Sync(p) \/ LoseRequest(p)
  BY <1>1, <1>3, SyncVersions DEF Versions
<1>4. CASE \E p \in Process : Start(p) \/ Stop(p) \/ End(p) \/ Observe(p)
  BY <1>1, <1>4, OtherVersions DEF Versions, MovesForward
<1> QED
  BY <1>2, <1>3, <1>4 DEF Next

LEMMA InitVersions ==
  ASSUME Init
  PROVE  Versions
<1>1. Ranges
  BY InitTypes
<1> QED
  BY <1>1, ProcessAssumption DEF Init, Versions, Holdings, Ordered, Genuine, Busy, Idle

LEMMA AlwaysVersions == Spec => []Versions
<1> QED
  BY InitVersions, NextVersions, PTL DEF Spec

\* Every variable keeps its type, and what is read and copied is a certificate that
\* there was (secret/sync.go:105-111), for any number of processes, versions and faults.
THEOREM SecretTypes == Spec => []TypeOK
<1>1. Versions => TypeOK
  BY DEF Versions, Ranges, Genuine, Busy, TypeOK
<1> QED
  BY <1>1, AlwaysVersions, PTL

\* Between two lists that take its cache back, a process replaces its own writes by
\* newer ones only: what it is about to write is never older than what it wrote, for
\* any number of processes, versions, faults and such lists (secret/sync.go:157-158).
THEOREM WritesNeverGoBack == Spec => WritesMoveForward
<1>1. Versions /\ [Next]_vars =>
        [copy' # 0 /\ copy' < copy => writer = NoProcess \/ writer' # writer]_vars
  BY NextVersions DEF MovesForward
<1> QED
  BY <1>1, AlwaysVersions, PTL DEF Spec, WritesMoveForward

-----------------------------------------------------------------------------
\* Freshness.

\* Whoever writes has seen the list of the Ingresses.
Listed ==
  \A p \in Process : task[p].pc \in {"create", "update"} \/ writer = p => listed[p] # 0

\* A leader whose cache is ahead of its last write has that still to do.
Handled ==
  \A p \in Process :
    /\ Busy(p) \/ writer = p
    /\ role[p] = "leading"
    /\ secret[seen[p]]
    /\ \A i \in 1..Len(wanted) : wanted[i]
    => \/ waiting[p]
       \/ Busy(p) /\ task[p].version = seen[p]
       \/ writer = p /\ copy = seen[p]

Fresh == Versions /\ Listed /\ Handled

LEMMA Values ==
  ASSUME Ranges
  PROVE  /\ task \in [Process -> [pc : {"idle", "list", "create", "update"}, version : 0..Len(secret), current : BOOLEAN]]
         /\ \A q \in Process : task[q].version \in Nat /\ seen[q] \in Nat /\ listed[q] \in Nat
         /\ copy \in Nat /\ Idle.pc = "idle"
         /\ writer \in Process \cup {NoProcess} /\ NoProcess \notin Process
         /\ Len(secret) \in Nat /\ Len(wanted) \in Nat
         /\ seen \in [Process -> 0..Len(secret)] /\ listed \in [Process -> 0..Len(wanted)]
         /\ waiting \in [Process -> BOOLEAN]
         /\ role \in [Process -> {"down", "leading", "draining"}]
BY ProcessAssumption DEF Ranges, Idle

\* A process that is about to write something older than its cache has to look again:
\* it cannot have written the newest already.
LEMMA OlderIsQueued ==
  ASSUME Fresh, NEW p \in Process, Busy(p), role[p] = "leading", secret[seen[p]],
         \A i \in 1..Len(wanted) : wanted[i]
  PROVE  waiting[p] \/ task[p].version = seen[p]
<1>1. Ranges /\ Ordered /\ Handled /\ task[p].current \in BOOLEAN
  BY DEF Fresh, Versions, Ranges
<1>2. writer = p /\ copy = seen[p] => task[p].version = seen[p]
  BY <1>1, Values DEF Ordered
<1> QED
  BY <1>1, <1>2 DEF Handled

\* A write, or the removal of the copy, that leaves the others as they are.
LEMMA OthersStayFresh ==
  ASSUME Fresh, NEW p \in Process,
         UNCHANGED <<wanted, listed, role, seen, secret>>,
         task'[p] = task[p], waiting'[p] = waiting[p],
         UNCHANGED <<copy, writer>> \/ writer' # p
  PROVE  /\ task'[p].pc \in {"create", "update"} \/ writer' = p => listed'[p] # 0
         /\ /\ task'[p].pc # "idle" \/ writer' = p
            /\ role'[p] = "leading"
            /\ secret'[seen'[p]]
            /\ \A i \in 1..Len(wanted') : wanted'[i]
            => \/ waiting'[p]
               \/ task'[p].pc # "idle" /\ task'[p].version = seen'[p]
               \/ writer' = p /\ copy' = seen'[p]
<1>1. CASE UNCHANGED <<copy, writer>>
  BY <1>1 DEF Fresh, Listed, Handled, Busy
<1>2. CASE writer' # p
  BY <1>2, OlderIsQueued DEF Fresh, Listed, Busy
<1> QED
  BY <1>1, <1>2

\* Sync writes what it has to.
LEMMA SyncFresh ==
  ASSUME Fresh, NEW p \in Process, Sync(p) \/ LoseRequest(p)
  PROVE  Listed' /\ Handled'
<1> USE DEF Fresh, Versions
<1>1. UNCHANGED <<secret, wanted, listed, role, seen>>
  BY DEF Sync, SyncStart, ListIngresses, Create, Update, LoseRequest, clusterVars, cacheVars
<1>2. PICK t : task' = [task EXCEPT ![p] = t]
  BY DEF Sync, SyncStart, ListIngresses, Create, Update, Write, Retry, LoseRequest
<1>3. task'[p] = t /\ \A q \in Process \ {p} : task'[q] = task[q] /\ waiting'[q] = waiting[q]
  <2>1. UNCHANGED waiting \/ \E b : waiting' = [waiting EXCEPT ![p] = b]
    BY DEF Sync, SyncStart, ListIngresses, Create, Update, Write, Retry, LoseRequest
  <2> QED
    BY <1>2, <2>1, Values
<1>4. UNCHANGED <<copy, writer>> \/ writer' \in {p, NoProcess}
  BY DEF Sync, SyncStart, ListIngresses, Create, Update, Write, Replaces, LoseRequest, copyVars
<1> DEFINE listedOf(q) == task'[q].pc \in {"create", "update"} \/ writer' = q => listed'[q] # 0
           handledOf(q) == /\ task'[q].pc # "idle" \/ writer' = q
                           /\ role'[q] = "leading"
                           /\ secret'[seen'[q]]
                           /\ \A i \in 1..Len(wanted') : wanted'[i]
                           => \/ waiting'[q]
                              \/ task'[q].pc # "idle" /\ task'[q].version = seen'[q]
                              \/ writer' = q /\ copy' = seen'[q]
<1>5. \A q \in Process \ {p} : listedOf(q) /\ handledOf(q)
  <2> TAKE q \in Process \ {p}
  <2>1. task'[q] = task[q] /\ waiting'[q] = waiting[q] /\ (UNCHANGED <<copy, writer>> \/ writer' # q)
    BY <1>3, <1>4, Values
  <2> QED
    BY <1>1, <2>1, OthersStayFresh
<1>6. listedOf(p) /\ handledOf(p)
  <2>1. CASE SyncStart(p)
    <3>1. /\ waiting[p] /\ task[p] = Idle /\ UNCHANGED <<copy, writer>>
          /\ task'[p] = IF secret[seen[p]]
                        THEN [pc |-> "list", version |-> seen[p], current |-> TRUE] ELSE Idle
      BY <1>2, <1>3, <2>1, Values DEF SyncStart, copyVars
    <3>2. listedOf(p)
      BY <1>1, <3>1, Values DEF Listed
    <3>3. secret[seen[p]] => task'[p].pc # "idle" /\ task'[p].version = seen[p]
      BY <3>1
    <3> QED
      BY <1>1, <3>2, <3>3
  <2>2. CASE ListIngresses(p)
    <3>1. /\ task[p].pc = "list" /\ UNCHANGED <<copy, writer, waiting>>
          /\ task'[p] = IF HasIngressInTargetCluster(p)
                        THEN [task[p] EXCEPT !.pc = "create"] ELSE Idle
      BY <2>2, Values DEF ListIngresses, copyVars
    <3>2. CASE HasIngressInTargetCluster(p)
      <4>1. task'[p].pc = "create" /\ task'[p].version = task[p].version /\ listed[p] # 0
        BY <3>1, <3>2, Values DEF HasIngressInTargetCluster
      <4>2. listedOf(p)
        BY <1>1, <4>1
      <4>3. Busy(p)
        BY <3>1 DEF Busy
      <4>4. handledOf(p)
        BY <1>1, <3>1, <4>1, <4>3, OlderIsQueued
      <4> QED
        BY <4>2, <4>4
    <3>3. CASE ~ HasIngressInTargetCluster(p)
      <4>1. task'[p] = Idle
        BY <3>1, <3>3
      <4>2. listedOf(p)
        BY <1>1, <3>1, <4>1, Values DEF Listed
      <4>3. writer = p => ~ \A i \in 1..Len(wanted) : wanted[i]
        <5>1. writer = p => listed[p] \in 1..Len(wanted)
          BY Values DEF Listed
        <5> QED
          BY <3>3, <5>1 DEF HasIngressInTargetCluster
      <4>4. handledOf(p)
        BY <1>1, <3>1, <4>1, <4>3, Values
      <4> QED
        BY <4>2, <4>4
    <3> QED
      BY <3>2, <3>3
  <2>3. CASE Create(p) \/ Update(p) \/ LoseRequest(p)
    <3>1. task[p].pc \in {"create", "update"}
      BY <2>3 DEF Create, Update, LoseRequest
    <3>2. listed[p] # 0 /\ Busy(p)
      BY <3>1 DEF Listed, Busy
    <3>3. listedOf(p)
      BY <1>1, <3>2
    <3>4. CASE Write(p)
      <4>1. /\ copy' = task[p].version /\ waiting' = waiting
            /\ writer' = IF task[p].current THEN p ELSE NoProcess
            /\ task'[p] = Idle
        BY <3>4, Values DEF Write, Replaces
      <4>2. handledOf(p)
        BY <1>1, <3>2, <4>1, OlderIsQueued, Values
      <4> QED
        BY <3>3, <4>2
    <3>5. CASE Retry(p)
      <4>1. role[p] = "leading" => waiting'[p]
        BY <3>5, Values DEF Retry
      <4> QED
        BY <1>1, <3>3, <4>1
    <3>6. CASE Create(p) /\ ~ Write(p)
      <4>1. task'[p] = [task[p] EXCEPT !.pc = "update"] /\ waiting' = waiting
        BY <3>6, Values DEF Create
      <4>2. task'[p].pc # "idle" /\ task'[p].version = task[p].version
        BY <4>1, Values
      <4>3. handledOf(p)
        BY <1>1, <3>2, <4>1, <4>2, OlderIsQueued
      <4> QED
        BY <3>3, <4>3
    <3> QED
      BY <2>3, <3>4, <3>5, <3>6 DEF Create, Update, LoseRequest
  <2> QED
    BY <2>1, <2>2, <2>3 DEF Sync
<1>7. \A q \in Process : listedOf(q) /\ handledOf(q)
  BY <1>5, <1>6
<1> QED
  BY <1>7 DEF Listed, Handled, Busy

\* Nothing else takes from what a leader has to do.
LEMMA OtherFresh ==
  ASSUME Fresh, [Next]_vars, ~ \E p \in Process : Sync(p) \/ LoseRequest(p)
  PROVE  Listed' /\ Handled'
<1> USE DEF Fresh, Versions
<1>1. CASE UNCHANGED vars
  BY <1>1 DEF vars, Listed, Handled, Busy
<1>2. CASE Issue \/ Remove
  <2>1. /\ UNCHANGED <<wanted, copy, writer, role, seen, listed, waiting, task>>
        /\ \E b \in BOOLEAN : secret' = Append(secret, b)
    BY <1>2 DEF Issue, Remove, copyVars, cacheVars
  <2>2. \A v \in 1..Len(secret) : secret'[v] = secret[v]
    BY <2>1, AppendKeeps DEF Ranges
  <2>3. \A p \in Process : Busy(p) \/ writer = p => seen[p] \in 1..Len(secret)
    BY Values DEF Holdings
  <2>4. Listed'
    BY <2>1 DEF Listed
  <2>5. Handled'
    BY <2>1, <2>2, <2>3 DEF Handled, Busy
  <2> QED
    BY <2>4, <2>5
<1>3. CASE ChangeIngress
  <2>1. /\ UNCHANGED <<secret, copy, writer, role, seen, listed, waiting, task>>
        /\ wanted' = Append(wanted, ~ wanted[Len(wanted)])
    BY <1>3 DEF ChangeIngress, copyVars, cacheVars
  <2>2. /\ Len(wanted') = Len(wanted) + 1
        /\ \A i \in 1..Len(wanted) : wanted'[i] = wanted[i]
    BY <2>1, AppendKeeps DEF Ranges
  <2>3. (\A i \in 1..Len(wanted') : wanted'[i]) => \A i \in 1..Len(wanted) : wanted[i]
    <3>1. \A i \in 1..Len(wanted) : i \in 1..Len(wanted')
      BY <2>2, Values
    <3> QED
      BY <2>2, <3>1
  <2>4. Listed' /\ Handled'
    BY <2>1, <2>3 DEF Listed, Handled, Busy
  <2> QED
    BY <2>4
<1>4. CASE LoseCopy
  <2>1. UNCHANGED <<secret, wanted, role, seen, listed, waiting, task>> /\ writer' = NoProcess
    BY <1>4 DEF LoseCopy, clusterVars, cacheVars
  <2>2. \A p \in Process : writer' # p
    BY <2>1, Values
  <2> QED
    BY <2>1, <2>2, OthersStayFresh DEF Listed, Handled, Busy
<1>5. ASSUME NEW p \in Process, ObserveIngress(p) PROVE Listed' /\ Handled'
  <2>1. UNCHANGED <<secret, wanted, copy, writer, role, seen, waiting, task>>
    BY <1>5 DEF ObserveIngress, copyVars, clusterVars
  <2>2. PICK i \in listed[p] + 1 .. Len(wanted) : listed' = [listed EXCEPT ![p] = i]
    BY <1>5 DEF ObserveIngress
  <2>3. \A q \in Process : listed'[q] # 0 \/ listed'[q] = listed[q]
    BY <2>2, Values
  <2> QED
    BY <2>1, <2>3 DEF Listed, Handled, Busy
<1>6. ASSUME NEW p \in Process, ObserveSecret(p) PROVE Listed' /\ Handled'
  <2>1. PICK v \in seen[p] + 1 .. Len(secret) :
          /\ seen' = [seen EXCEPT ![p] = v]
          /\ waiting' = [waiting EXCEPT ![p] = @ \/ Notifies(v)]
    BY <1>6 DEF ObserveSecret, SecretCacheIs
  <2>2. UNCHANGED <<secret, wanted, copy, writer, role, listed, task>>
    BY <1>6 DEF ObserveSecret, copyVars, clusterVars
  <2>3. seen'[p] = v /\ (secret[v] => waiting'[p])
    BY <2>1, Values DEF Notifies
  <2>4. \A q \in Process \ {p} : seen'[q] = seen[q] /\ waiting'[q] = waiting[q]
    BY <2>1, Values
  <2> QED
    BY <2>2, <2>3, <2>4 DEF Listed, Handled, Busy
<1>a. ASSUME NEW p \in Process, RelistIngress(p) PROVE Listed' /\ Handled'
  <2>1. UNCHANGED <<secret, wanted, copy, writer, role, seen, waiting, task>>
    BY <1>a DEF RelistIngress, copyVars, clusterVars
  <2>2. PICK i \in 1 .. Len(wanted) : listed' = [listed EXCEPT ![p] = i]
    BY <1>a DEF RelistIngress
  <2>3. \A q \in Process : listed'[q] # 0 \/ listed'[q] = listed[q]
    BY <2>2, Values
  <2> QED
    BY <2>1, <2>3 DEF Listed, Handled, Busy
<1>b. ASSUME NEW p \in Process, RelistSecret(p) PROVE Listed' /\ Handled'
  <2>1. PICK v \in 1 .. Len(secret) :
          /\ seen' = [seen EXCEPT ![p] = v]
          /\ waiting' = [waiting EXCEPT ![p] = @ \/ Notifies(v)]
    BY <1>b DEF RelistSecret, SecretCacheIs
  <2>2. /\ UNCHANGED <<secret, wanted, copy, role, listed>>
        /\ writer' = IF writer = p THEN NoProcess ELSE writer
        /\ task' = IF task[p] = Idle THEN task ELSE [task EXCEPT ![p].current = FALSE]
    BY <1>b DEF RelistSecret, clusterVars
  <2>3. /\ seen'[p] = v /\ (secret[v] => waiting'[p])
        /\ writer' # p /\ task'[p].pc = task[p].pc
    BY <2>1, <2>2, Values DEF Notifies
  <2>4. \A q \in Process \ {p} : /\ seen'[q] = seen[q] /\ waiting'[q] = waiting[q]
                                  /\ task'[q] = task[q] /\ (writer' = q <=> writer = q)
    BY <2>1, <2>2, Values
  <2>5. Listed'
    BY <2>2, <2>3, <2>4 DEF Listed
  <2>6. Handled'
    BY <2>2, <2>3, <2>4 DEF Handled, Busy
  <2> QED
    BY <2>5, <2>6
<1>7. ASSUME NEW p \in Process, Start(p) PROVE Listed' /\ Handled'
  <2>1. /\ UNCHANGED <<secret, wanted, copy, writer, seen, listed, waiting, task>>
        /\ role[p] = "down" /\ role' = [role EXCEPT ![p] = "leading"]
    BY <1>7 DEF Start, Roles!Start, copyVars, cacheVars, clusterVars
  <2>2. ~ Busy(p) /\ writer # p
    BY <2>1 DEF Holdings
  <2>3. \A q \in Process \ {p} : role'[q] = role[q]
    BY <2>1, Values
  <2> QED
    BY <2>1, <2>2, <2>3 DEF Listed, Handled, Busy
<1>8. ASSUME NEW p \in Process, Stop(p) PROVE Listed' /\ Handled'
  <2>1. /\ UNCHANGED <<secret, wanted, copy, writer, seen, listed, task>>
        /\ role' = [role EXCEPT ![p] = "draining"]
        /\ \E kept \in {FALSE, waiting[p]} : waiting' = [waiting EXCEPT ![p] = kept]
    BY <1>8 DEF Stop, Roles!Stop, copyVars, cacheVars, clusterVars
  <2>2. role'[p] # "leading"
        /\ \A q \in Process \ {p} : role'[q] = role[q] /\ waiting'[q] = waiting[q]
    BY <2>1, Values
  <2> QED
    BY <2>1, <2>2 DEF Listed, Handled, Busy
<1>9. ASSUME NEW p \in Process, End(p) PROVE Listed' /\ Handled'
  <2>1. /\ UNCHANGED <<secret, wanted, copy>>
        /\ writer' = IF writer = p THEN NoProcess ELSE writer
        /\ role' = [role EXCEPT ![p] = "down"]
        /\ seen' = [seen EXCEPT ![p] = 0]
        /\ listed' = [listed EXCEPT ![p] = 0]
        /\ waiting' = [waiting EXCEPT ![p] = FALSE]
        /\ task' = [task EXCEPT ![p] = Idle]
    BY <1>9 DEF End, Roles!End, clusterVars
  <2>2. /\ writer' # p /\ task'[p] = Idle
        /\ \A q \in Process : writer' = q => writer = q
        /\ \A q \in Process \ {p} : /\ role'[q] = role[q] /\ seen'[q] = seen[q]
                                     /\ waiting'[q] = waiting[q] /\ task'[q] = task[q]
                                     /\ listed'[q] = listed[q] /\ (writer = q => writer' = q)
    BY <2>1, Values
  <2> QED
    BY <2>1, <2>2, Values DEF Listed, Handled, Busy
<1> QED
  BY <1>1, <1>2, <1>3, <1>4, <1>5, <1>6, <1>a, <1>b, <1>7, <1>8, <1>9 DEF Next, Observe

LEMMA NextFresh ==
  ASSUME Fresh, [Next]_vars
  PROVE  Fresh'
<1>1. Versions'
  BY NextVersions DEF Fresh
<1>2. Listed' /\ Handled'
  <2>1. CASE \E p \in Process : Sync(p) \/ LoseRequest(p)
    BY <2>1, SyncFresh
  <2>2. CASE ~ \E p \in Process : Sync(p) \/ LoseRequest(p)
    BY <2>2, OtherFresh
  <2> QED
    BY <2>1, <2>2
<1> QED
  BY <1>1, <1>2 DEF Fresh

LEMMA InitFresh ==
  ASSUME Init
  PROVE  Fresh
<1>1. \A p \in Process : ~ Busy(p) /\ writer # p
  BY ProcessAssumption DEF Init, Busy, Idle
<1>2. Listed /\ Handled
  BY <1>1 DEF Listed, Handled, Busy
<1> QED
  BY <1>2, InitVersions DEF Fresh

\* A leader at rest has left what it knows of, for any number of processes, versions and
\* faults.
THEOREM QuietMeansFresh == Spec => []QuietLeaderIsFresh
<1>1. Fresh => QuietLeaderIsFresh
  <2>1. \A p \in Process : task[p] = Idle => ~ Busy(p)
    BY DEF Busy, Idle
  <2> QED
    BY <2>1 DEF Fresh, Handled, QuietLeaderIsFresh
<1> QED
  BY <1>1, InitFresh, NextFresh, PTL DEF Spec
=============================================================================
