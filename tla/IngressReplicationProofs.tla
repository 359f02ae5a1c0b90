---------------------- MODULE IngressReplicationProofs ----------------------
(***************************************************************************)
(* The safety of IngressReplication for every set of keys and TLS sections,*)
(* any number of workers, user operations, faults, crashes and broken      *)
(* watches.                                                                *)
(***************************************************************************)
EXTENDS IngressReplication, IngressTLSProofs, TLAPS

-----------------------------------------------------------------------------
\* Streams, and what is copied.

Members(s) == {s[i] : i \in DOMAIN s}

\* What a watch appends, what a restart puts in front, what a list skips.
LEMMA AppendMembers ==
  ASSUME NEW S, NEW s \in Seq(S), NEW x \in S
  PROVE  Append(s, x) \in Seq(S) /\ Members(Append(s, x)) = Members(s) \cup {x}
<1> DEFINE r == Append(s, x)
<1>1. /\ r \in Seq(S)
      /\ DOMAIN s = 1..Len(s) /\ DOMAIN r = 1..(Len(s) + 1) /\ Len(s) \in Nat
      /\ r[Len(s) + 1] = x
      /\ \A i \in 1..Len(s) : r[i] = s[i]
  OBVIOUS
<1> HIDE DEF r
<1>2. \A i \in DOMAIN r : r[i] \in Members(s) \cup {x}
  BY <1>1 DEF Members
<1>3. \A i \in DOMAIN s : i \in DOMAIN r /\ s[i] = r[i]
  BY <1>1
<1>4. Len(s) + 1 \in DOMAIN r
  BY <1>1
<1>5. Members(r) = Members(s) \cup {x}
  BY <1>1, <1>2, <1>3, <1>4 DEF Members
<1> QED
  BY <1>1, <1>5 DEF r

LEMMA PrependMembers ==
  ASSUME NEW S, NEW s \in Seq(S), NEW x \in S
  PROVE  /\ <<x>> \o s \in Seq(S)
         /\ Len(<<x>> \o s) = Len(s) + 1
         /\ (<<x>> \o s)[1] = x
         /\ \A i \in 1..Len(s) : (<<x>> \o s)[i + 1] = s[i]
         /\ Members(<<x>> \o s) = Members(s) \cup {x}
<1> DEFINE r == <<x>> \o s
<1>1. /\ r \in Seq(S)
      /\ DOMAIN s = 1..Len(s) /\ DOMAIN r = 1..(Len(s) + 1) /\ Len(s) \in Nat
      /\ Len(r) = Len(s) + 1
      /\ r[1] = x
      /\ \A i \in 1..Len(s) : r[i + 1] = s[i]
  OBVIOUS
<1> HIDE DEF r
<1>2. \A i \in DOMAIN r : i = 1 \/ (i - 1 \in 1..Len(s) /\ r[i] = s[i - 1])
  BY <1>1
<1>3. \A i \in DOMAIN r : r[i] \in Members(s) \cup {x}
  BY <1>1, <1>2 DEF Members
<1>4. \A i \in DOMAIN s : i + 1 \in DOMAIN r /\ s[i] = r[i + 1]
  BY <1>1
<1>5. 1 \in DOMAIN r
  BY <1>1
<1>6. Members(r) = Members(s) \cup {x}
  BY <1>1, <1>3, <1>4, <1>5 DEF Members
<1> QED
  BY <1>1, <1>6 DEF r

LEMMA SuffixMembers ==
  ASSUME NEW S, NEW s \in Seq(S), NEW n \in DOMAIN s
  PROVE  /\ s[n] \in S
         /\ SubSeq(s, n + 1, Len(s)) \in Seq(S)
         /\ Len(SubSeq(s, n + 1, Len(s))) = Len(s) - n
         /\ \A i \in 1..(Len(s) - n) :
              i + n \in DOMAIN s /\ SubSeq(s, n + 1, Len(s))[i] = s[i + n]
         /\ Members(SubSeq(s, n + 1, Len(s))) \subseteq Members(s)
<1> DEFINE r == SubSeq(s, n + 1, Len(s))
<1>1. n \in Nat /\ n >= 1 /\ n <= Len(s) /\ Len(s) \in Nat /\ DOMAIN s = 1..Len(s)
  OBVIOUS
<1>2. /\ r \in Seq(S)
      /\ Len(r) = Len(s) - n
      /\ DOMAIN r = 1..(Len(s) - n)
      /\ \A i \in 1..(Len(s) - n) : r[i] = s[i + n]
  BY <1>1
<1> HIDE DEF r
<1>3. \A i \in 1..(Len(s) - n) : i + n \in DOMAIN s
  BY <1>1
<1>4. Members(r) \subseteq Members(s)
  BY <1>2, <1>3 DEF Members
<1> QED
  BY <1>1, <1>2, <1>3, <1>4 DEF r

LEMMA CopyProvider ==
  ASSUME NEW tls \in TargetTLS, NEW copy \in CopyTLS(tls)
  PROVE  copy.provider \in Provider \cup {NoProvider}
<1>1. tls \in TLSSection({tls[i].secretName : i \in DOMAIN tls})
  BY SectionsAssumption
<1> QED
  BY <1>1, CopyOf

LEMMA LongTail ==
  ASSUME NEW S, NEW s \in Seq(S), s # << >>, Len(s) # 1
  PROVE  Tail(s) \in Seq(S) /\ Tail(s) # << >>
<1>1. Tail(s) \in Seq(S) /\ Len(Tail(s)) = Len(s) - 1 /\ Len(s) \in Nat
  OBVIOUS
<1>2. Len(Tail(s)) # 0
  BY <1>1
<1> QED
  BY <1>1, <1>2

\* The names of a control section's secrets, in order.
LEMMA SecretNamesTypes ==
  ASSUME NEW tls \in ControlTLS
  PROVE  SecretNames(tls) \in Seq(ControlSecret)
<1>1. PICK copy \in UNION {CopyTLS(t) : t \in TargetTLS}, k \in Key :
        tls = PrefixWithNamespace(copy.tls, k[1])
  BY DEF ControlTLS
<1>2. PICK t \in TargetTLS : copy \in CopyTLS(t)
  OBVIOUS
<1>3. copy.tls \in TLSSection({t[i].secretName : i \in DOMAIN t})
  BY <1>2, CopyOf, SectionsAssumption
<1>4. PICK n \in Nat : DOMAIN copy.tls = 1..n
  BY <1>3, SectionParts
<1>5. DOMAIN tls = 1..n
  BY <1>1, <1>4 DEF PrefixWithNamespace
<1>6. \A i \in 1..n : tls[i].secretName \in ControlSecret
  BY <1>5 DEF ControlSecret
<1> QED
  BY <1>5, <1>6 DEF SecretNames

-----------------------------------------------------------------------------
\* The types.  A worker at a place where it uses its object has one, and one that
\* deletes secrets has some left.

GoodTask ==
  {t \in TaskState :
     /\ t.pc \in {"write", "render", "create", "check", "update", "delete"}
          => t.object \in ControlIngress
     /\ t.pc = "secrets" => t.todo # << >>}
Tasks == [Actor -> [Key -> GoodTask]]
Queues == [Actor -> [delayed : SUBSET Key, dirty : SUBSET Key]]
Templates == Provider \cup {NoProvider, Garbled}

TargetTypes ==
  /\ target \in [Key -> TargetState]
  /\ tStream \in [Key -> Seq(TargetState)]
  /\ withdrawn \subseteq Key
  /\ used \in [Key -> SUBSET TargetTLS]
ControlTypes ==
  /\ control \in [Key -> ControlState]
  /\ cStream \in [Key -> Seq(ControlState)]
  /\ rev \in [Key -> Nat]
  /\ secrets \subseteq ControlSecret
CacheTypes ==
  /\ tCache \in [Key -> TargetState]
  /\ cCache \in [Key -> ControlState]
  /\ synced \in [target : BOOLEAN, control : BOOLEAN]
WorkTypes == queue \in Queues /\ task \in Tasks /\ template \in Templates
BudgetTypes ==
  budget \in [ops : 0..MaxUserOps, faults : 0..MaxFaults,
              restarts : 0..MaxRestarts, relists : 0..MaxRelists]

Types ==
  TargetTypes /\ ControlTypes /\ CacheTypes /\ WorkTypes /\ BudgetTypes /\ boot \in Nat \ {0}

LEMMA TypesGiveTypeOK == Types => TypeOK
<1> SUFFICES ASSUME Types PROVE TypeOK
  OBVIOUS
<1>1. task \in [Actor -> [Key -> TaskState]]
  BY DEF Types, WorkTypes, Tasks, GoodTask
<1> QED
  BY <1>1 DEF Types, TargetTypes, ControlTypes, CacheTypes, WorkTypes, BudgetTypes,
              Queues, Templates, TypeOK

\* The idle task, and replacing the task of one worker.
LEMMA IdleTask == Idle \in GoodTask
BY DEF Idle, GoodTask, TaskState, TargetState, ControlState

LEMMA SetTask ==
  ASSUME task \in Tasks, NEW a \in Actor, NEW k \in Key, NEW t \in GoodTask,
         task' = [task EXCEPT ![a][k] = t]
  PROVE  task' \in Tasks
BY DEF Tasks

LEMMA SpendTypes ==
  ASSUME BudgetTypes,
         \/ Spend("ops", MaxUserOps) \/ Spend("faults", MaxFaults)
         \/ Spend("restarts", MaxRestarts) \/ Spend("relists", MaxRelists)
         \/ UNCHANGED budget
  PROVE  BudgetTypes'
<1>1. /\ MaxUserOps \in Nat /\ MaxFaults \in Nat
      /\ MaxRestarts \in Nat /\ MaxRelists \in Nat
  BY ReplicationAssumption
<1>2. CASE UNCHANGED budget
  BY <1>2 DEF BudgetTypes
<1>3. CASE Spend("ops", MaxUserOps)
  BY <1>1, <1>3 DEF BudgetTypes, Spend
<1>4. CASE Spend("faults", MaxFaults)
  BY <1>1, <1>4 DEF BudgetTypes, Spend
<1>5. CASE Spend("restarts", MaxRestarts)
  BY <1>1, <1>5 DEF BudgetTypes, Spend
<1>6. CASE Spend("relists", MaxRelists)
  BY <1>1, <1>6 DEF BudgetTypes, Spend
<1> QED
  BY <1>2, <1>3, <1>4, <1>5, <1>6

\* The ways a worker ends its work on a key.
LEMMA EnqueueTypes ==
  ASSUME queue \in Queues, NEW a \in Actor, NEW keys \in SUBSET Key
  PROVE  Enqueue(queue, a, keys) \in Queues
BY DEF Enqueue, Queues

LEMMA EndTypes ==
  ASSUME queue \in Queues, task \in Tasks, NEW a \in Actor, NEW k \in Key,
         Finish(a, k) \/ Requeue(a, k)
  PROVE  queue' \in Queues /\ task' \in Tasks
<1>1. task' = [task EXCEPT ![a][k] = Idle]
  BY DEF Finish, Requeue
<1>2. task' \in Tasks
  BY <1>1, IdleTask, SetTask
<1> QED
  BY <1>2, EnqueueTypes DEF Finish, Requeue

LEMMA StoreTypes ==
  ASSUME ControlTypes, NEW k \in Key, NEW state \in ControlState, Store(k, state)
  PROVE  control' \in [Key -> ControlState] /\ cStream' \in [Key -> Seq(ControlState)]
<1>1. Append(cStream[k], state) \in Seq(ControlState)
  BY AppendMembers DEF ControlTypes
<1> QED
  BY <1>1 DEF Store, ControlTypes

-----------------------------------------------------------------------------
\* Users, crashes and informers.

LEMMA UserOpTypes ==
  ASSUME Types, NEW op, NEW k \in Key, NEW state \in TargetState, UserOp(op, k, state)
  PROVE  Types'
<1>1. state # Absent => state.tls \in TargetTLS
  BY DEF TargetState
<1>2. TargetTypes'
  <2>1. Append(tStream[k], state) \in Seq(TargetState)
    BY AppendMembers DEF Types, TargetTypes
  <2> QED
    BY <1>1, <2>1 DEF UserOp, Types, TargetTypes
<1>3. BudgetTypes'
  BY SpendTypes DEF UserOp, Types
<1> QED
  BY <1>2, <1>3 DEF UserOp, Types, ControlTypes, CacheTypes, WorkTypes,
                    controlVars, cacheVars, workVars

LEMMA UserTypes ==
  ASSUME Types, NEW k \in Key, User(k)
  PROVE  Types'
<1>1. target[k] \in TargetState /\ used[k] \subseteq TargetTLS
  BY DEF Types, TargetTypes
<1>2. CASE Create(k)
  BY <1>2, UserOpTypes DEF Create, TargetState
<1>3. CASE Edit(k)
  <2>1. PICK tls \in TargetTLS : UserOp("edit", k, [target[k] EXCEPT !.tls = tls])
    BY <1>3 DEF Edit
  <2>2. [target[k] EXCEPT !.tls = tls] \in TargetState
    BY <1>1, <1>3 DEF Edit, TargetState
  <2> QED
    BY <2>1, <2>2, UserOpTypes
<1>4. CASE Revert(k)
  <2>1. PICK tls \in TargetTLS : UserOp("revert", k, [target[k] EXCEPT !.tls = tls])
    BY <1>1, <1>4 DEF Revert
  <2>2. [target[k] EXCEPT !.tls = tls] \in TargetState
    BY <1>1, <1>4 DEF Revert, TargetState
  <2> QED
    BY <2>1, <2>2, UserOpTypes
<1>5. CASE Label(k)
  <2>1. [target[k] EXCEPT !.managed = TRUE] \in TargetState
    BY <1>1, <1>5 DEF Label, TargetState
  <2> QED
    BY <1>5, <2>1, UserOpTypes DEF Label
<1>6. CASE Unlabel(k)
  <2>1. [target[k] EXCEPT !.managed = FALSE] \in TargetState
    BY <1>1, <1>6 DEF Unlabel, FilterOnIngressLables, TargetState
  <2> QED
    BY <1>6, <2>1, UserOpTypes DEF Unlabel
<1>7. CASE Delete(k)
  BY <1>7, UserOpTypes DEF Delete, TargetState
<1> QED
  BY <1>2, <1>3, <1>4, <1>5, <1>6, <1>7 DEF User

\* A process begins with empty caches and queues.
LEMMA BeginTypes ==
  /\ Nothing \in [Key -> TargetState]
  /\ Nothing \in [Key -> ControlState]
  /\ NotSynced \in [target : BOOLEAN, control : BOOLEAN]
  /\ NoQueue \in Queues
  /\ NoTask \in Tasks
<1>1. NoTask \in Tasks
  BY IdleTask DEF NoTask, Tasks
<1> QED
  BY <1>1 DEF Nothing, NotSynced, NoQueue, Queues, TargetState, ControlState

LEMMA InitTypes == Init => Types
<1> SUFFICES ASSUME Init PROVE Types
  OBVIOUS
<1>1. <<Absent>> \in Seq(TargetState) /\ <<Absent>> \in Seq(ControlState)
  BY DEF TargetState, ControlState
<1>2. TargetTypes
  BY <1>1, BeginTypes DEF Init, TargetTypes
<1>3. ControlTypes
  BY <1>1, BeginTypes DEF Init, ControlTypes
<1>4. CacheTypes /\ WorkTypes
  BY BeginTypes DEF Init, CacheTypes, WorkTypes, Templates
<1>5. BudgetTypes
  BY ReplicationAssumption DEF Init, BudgetTypes
<1> QED
  BY <1>2, <1>3, <1>4, <1>5 DEF Init, Types

LEMMA RestartTypes ==
  ASSUME Types, Restart
  PROVE  Types'
<1>1. \A k \in Key : /\ <<tCache[k]>> \o tStream[k] \in Seq(TargetState)
                     /\ <<cCache[k]>> \o cStream[k] \in Seq(ControlState)
  BY PrependMembers DEF Types, TargetTypes, ControlTypes, CacheTypes
<1>2. TargetTypes' /\ ControlTypes'
  BY <1>1 DEF Restart, Types, TargetTypes, ControlTypes
<1>3. CacheTypes' /\ WorkTypes'
  BY BeginTypes DEF Restart, CacheTypes, WorkTypes, Templates
<1>4. BudgetTypes'
  BY SpendTypes DEF Restart, Types
<1> QED
  BY <1>2, <1>3, <1>4 DEF Restart, Types

\* Where an informer may come to in the streams of some keys.
LEMMA PositionsTypes ==
  ASSUME NEW stream, NEW keys \in SUBSET Key, NEW pos \in Positions(stream, keys)
  PROVE  DOMAIN pos = keys /\ \A k \in keys : pos[k] \in DOMAIN stream[k]
BY DEF Positions

LEMMA SeenTypes ==
  ASSUME NEW S, NEW cache \in [Key -> S], NEW stream \in [Key -> Seq(S)],
         NEW keys \in SUBSET Key, NEW pos, DOMAIN pos = keys,
         \A k \in keys : pos[k] \in DOMAIN stream[k]
  PROVE  /\ Seen(cache, stream, pos) \in [Key -> S]
         /\ Unseen(stream, pos) \in [Key -> Seq(S)]
<1>1. \A k \in keys : /\ stream[k][pos[k]] \in S
                      /\ SubSeq(stream[k], pos[k] + 1, Len(stream[k])) \in Seq(S)
  BY SuffixMembers
<1> QED
  BY <1>1 DEF Seen, Unseen

LEMMA SeeTargetTypes ==
  ASSUME Types, NEW keys \in SUBSET Key, NEW pos, DOMAIN pos = keys,
         \A k \in keys : pos[k] \in DOMAIN tStream[k],
         NEW listed, SeeTarget(pos, listed),
         synced' \in [target : BOOLEAN, control : BOOLEAN], BudgetTypes'
  PROVE  Types'
<1>1. tCache' \in [Key -> TargetState] /\ tStream' \in [Key -> Seq(TargetState)]
  BY SeenTypes DEF SeeTarget, Types, TargetTypes, CacheTypes
<1>2. queue' \in Queues
  BY EnqueueTypes DEF SeeTarget, Types, WorkTypes, Actor
<1> QED
  BY <1>1, <1>2 DEF SeeTarget, Types, TargetTypes, ControlTypes, CacheTypes, WorkTypes,
                    controlVars

LEMMA SeeControlTypes ==
  ASSUME Types, NEW keys \in SUBSET Key, NEW pos, DOMAIN pos = keys,
         \A k \in keys : pos[k] \in DOMAIN cStream[k],
         SeeControl(pos),
         synced' \in [target : BOOLEAN, control : BOOLEAN], BudgetTypes'
  PROVE  Types'
<1>1. cCache' \in [Key -> ControlState] /\ cStream' \in [Key -> Seq(ControlState)]
  BY SeenTypes DEF SeeControl, Types, ControlTypes, CacheTypes
<1>2. queue' \in Queues
  BY EnqueueTypes DEF SeeControl, Types, WorkTypes, Actor
<1> QED
  BY <1>1, <1>2 DEF SeeControl, Types, TargetTypes, ControlTypes, CacheTypes, WorkTypes,
                    targetVars

\* The informers' actions as steps to a place in the streams of some keys.
ToTarget ==
  \E keys, pos, listed :
    /\ keys \subseteq Key
    /\ DOMAIN pos = keys
    /\ \A k \in keys : pos[k] \in DOMAIN tStream[k]
    /\ SeeTarget(pos, listed)
    /\ synced.target \/ keys = Key
    /\ synced' = [synced EXCEPT !.target = TRUE]
    /\ BudgetTypes'

LEMMA TargetInformer ==
  ASSUME Types, ListTarget \/ \E k \in Key : WatchTarget(k) \/ RelistTarget(k)
  PROVE  ToTarget
<1> USE DEF ToTarget
<1>1. BudgetTypes /\ (synced.target => synced = [synced EXCEPT !.target = TRUE])
  BY DEF Types, CacheTypes
<1>2. CASE ListTarget
  <2>1. PICK pos \in Positions(tStream, Key) : SeeTarget(pos, TRUE)
    BY <1>2 DEF ListTarget
  <2>2. BudgetTypes' /\ synced' = [synced EXCEPT !.target = TRUE]
    BY <1>1, <1>2, SpendTypes DEF ListTarget
  <2>3. DOMAIN pos = Key /\ \A k \in Key : pos[k] \in DOMAIN tStream[k]
    BY PositionsTypes
  <2> WITNESS Key, pos, TRUE
  <2> QED
    BY <2>1, <2>2, <2>3
<1>3. ASSUME NEW k \in Key, WatchTarget(k) PROVE ToTarget
  <2> DEFINE pos == [i \in {k} |-> 1]
  <2>1. DOMAIN pos = {k} /\ \A i \in {k} : pos[i] \in DOMAIN tStream[i]
    BY <1>3 DEF WatchTarget, Types, TargetTypes
  <2>2. BudgetTypes' /\ synced' = [synced EXCEPT !.target = TRUE]
    BY <1>1, <1>3, SpendTypes DEF WatchTarget
  <2>3. synced.target /\ SeeTarget(pos, FALSE)
    BY <1>3 DEF WatchTarget
  <2> HIDE DEF pos
  <2> WITNESS {k}, pos, FALSE
  <2> QED
    BY <2>1, <2>2, <2>3
<1>4. ASSUME NEW k \in Key, RelistTarget(k) PROVE ToTarget
  <2>1. PICK pos \in Positions(tStream, {k}) : SeeTarget(pos, TRUE)
    BY <1>4 DEF RelistTarget
  <2>2. BudgetTypes' /\ synced' = [synced EXCEPT !.target = TRUE] /\ synced.target
    BY <1>1, <1>4, SpendTypes DEF RelistTarget
  <2>3. DOMAIN pos = {k} /\ \A i \in {k} : pos[i] \in DOMAIN tStream[i]
    BY PositionsTypes
  <2> WITNESS {k}, pos, TRUE
  <2> QED
    BY <2>1, <2>2, <2>3
<1> QED
  BY <1>2, <1>3, <1>4

ToControl ==
  \E keys, pos :
    /\ keys \subseteq Key
    /\ DOMAIN pos = keys
    /\ \A k \in keys : pos[k] \in DOMAIN cStream[k]
    /\ SeeControl(pos)
    /\ synced' = [synced EXCEPT !.control = TRUE]
    /\ BudgetTypes'

LEMMA ControlInformer ==
  ASSUME Types, ListControl \/ \E k \in Key : WatchControl(k) \/ RelistControl(k)
  PROVE  ToControl
<1> USE DEF ToControl
<1>1. BudgetTypes /\ (synced.control => synced = [synced EXCEPT !.control = TRUE])
  BY DEF Types, CacheTypes
<1>2. CASE ListControl
  <2>1. PICK pos \in Positions(cStream, Key) : SeeControl(pos)
    BY <1>2 DEF ListControl
  <2>2. BudgetTypes' /\ synced' = [synced EXCEPT !.control = TRUE]
    BY <1>1, <1>2, SpendTypes DEF ListControl
  <2>3. DOMAIN pos = Key /\ \A k \in Key : pos[k] \in DOMAIN cStream[k]
    BY PositionsTypes
  <2> WITNESS Key, pos
  <2> QED
    BY <2>1, <2>2, <2>3
<1>3. ASSUME NEW k \in Key, WatchControl(k) PROVE ToControl
  <2> DEFINE pos == [i \in {k} |-> 1]
  <2>1. DOMAIN pos = {k} /\ \A i \in {k} : pos[i] \in DOMAIN cStream[i]
    BY <1>3 DEF WatchControl, Types, ControlTypes
  <2>2. BudgetTypes' /\ synced' = [synced EXCEPT !.control = TRUE]
    BY <1>1, <1>3, SpendTypes DEF WatchControl
  <2>3. synced.control /\ SeeControl(pos)
    BY <1>3 DEF WatchControl
  <2> HIDE DEF pos
  <2> WITNESS {k}, pos
  <2> QED
    BY <2>1, <2>2, <2>3
<1>4. ASSUME NEW k \in Key, RelistControl(k) PROVE ToControl
  <2>1. PICK pos \in Positions(cStream, {k}) : SeeControl(pos)
    BY <1>4 DEF RelistControl
  <2>2. BudgetTypes' /\ synced' = [synced EXCEPT !.control = TRUE] /\ synced.control
    BY <1>1, <1>4, SpendTypes DEF RelistControl
  <2>3. DOMAIN pos = {k} /\ \A i \in {k} : pos[i] \in DOMAIN cStream[i]
    BY PositionsTypes
  <2> WITNESS {k}, pos
  <2> QED
    BY <2>1, <2>2, <2>3
<1> QED
  BY <1>2, <1>3, <1>4

LEMMA InformerTypes ==
  ASSUME Types, ListTarget \/ ListControl \/ \E k \in Key : Informers(k)
  PROVE  Types'
<1>1. [synced EXCEPT !.target = TRUE] \in [target : BOOLEAN, control : BOOLEAN]
      /\ [synced EXCEPT !.control = TRUE] \in [target : BOOLEAN, control : BOOLEAN]
  BY DEF Types, CacheTypes
<1>2. CASE ListTarget \/ \E k \in Key : WatchTarget(k) \/ RelistTarget(k)
  BY <1>1, <1>2, TargetInformer, SeeTargetTypes DEF ToTarget
<1>3. CASE ListControl \/ \E k \in Key : WatchControl(k) \/ RelistControl(k)
  BY <1>1, <1>3, ControlInformer, SeeControlTypes DEF ToControl
<1> QED
  BY <1>2, <1>3 DEF Informers

-----------------------------------------------------------------------------
\* The workers.

\* What a step of a worker changes at most, and what its end gives.
LEMMA StepTypes ==
  ASSUME Types, ControlTypes', queue' \in Queues, task' \in Tasks, template' \in Templates,
         BudgetTypes', UNCHANGED <<targetVars, cacheVars, boot>>
  PROVE  Types'
BY DEF Types, WorkTypes, TargetTypes, CacheTypes, targetVars, cacheVars

LEMMA ControlKept ==
  ASSUME Types, UNCHANGED controlVars, secrets' \subseteq ControlSecret
  PROVE  ControlTypes'
BY DEF Types, ControlTypes, controlVars

LEMMA AddTypes ==
  ASSUME Types, NEW a \in Actor, NEW k \in Key, Add(a, k)
  PROVE  Types'
<1>1. queue' \in Queues
  BY DEF Add, Types, WorkTypes, Queues
<1>2. ControlTypes' /\ BudgetTypes'
  BY ControlKept, SpendTypes DEF Add, Types, ControlTypes
<1> QED
  BY <1>1, <1>2, StepTypes DEF Add, Types, WorkTypes

LEMMA StartTypes ==
  ASSUME Types, NEW k \in Key, SyncStart(k) \/ CleanerStart(k)
  PROVE  Types'
<1>1. /\ queue \in Queues /\ task \in Tasks /\ secrets \subseteq ControlSecret
      /\ tCache[k] \in TargetState /\ cCache[k] \in ControlState
  BY DEF Types, WorkTypes, CacheTypes, ControlTypes
<1>2. queue' \in Queues
  BY <1>1 DEF SyncStart, CleanerStart, Queues, Actor
<1>3. task' \in Tasks
  <2>1. [Idle EXCEPT !.pc = "lookup", !.source = tCache[k]] \in GoodTask
    BY <1>1, IdleTask DEF Idle, GoodTask, TaskState
  <2>2. cCache[k] # Absent => [Idle EXCEPT !.pc = "check", !.object = cCache[k]] \in GoodTask
    BY <1>1, IdleTask DEF Idle, GoodTask, TaskState, ControlState
  <2> QED
    BY <1>1, <2>1, <2>2 DEF SyncStart, CleanerStart, Tasks, Actor
<1>4. ControlTypes' /\ BudgetTypes' /\ template' \in Templates
  BY <1>1, ControlKept, SpendTypes DEF SyncStart, CleanerStart, Types, WorkTypes
<1> QED
  BY <1>2, <1>3, <1>4, StepTypes DEF SyncStart, CleanerStart

\* What Sync computes: a section the broker can give, and a provider.
LEMMA LookupObject ==
  ASSUME Types, NEW k \in Key, NEW source \in TargetState, source # Absent,
         NEW copy \in CopyTLS(source.tls)
  PROVE  LET tls == PrefixWithNamespace(copy.tls, k[1]) IN
         /\ [tls |-> tls, provider |-> copy.provider, settings |-> boot, rv |-> 0]
              \in ControlIngress
         /\ \A object \in ControlIngress : WithTLS(object, tls, copy.provider) \in ControlIngress
<1>1. source.tls \in TargetTLS
  BY DEF TargetState
<1>2. PrefixWithNamespace(copy.tls, k[1]) \in ControlTLS
  BY <1>1 DEF ControlTLS
<1>3. copy.provider \in Provider \cup {NoProvider}
  BY <1>1, CopyProvider
<1> QED
  BY <1>2, <1>3 DEF Types, ControlIngress, WithTLS

LEMMA LookupTypes ==
  ASSUME Types, NEW k \in Key, LookupOrphan(k) \/ Lookup(k)
  PROVE  Types'
<1>1. /\ queue \in Queues /\ task \in Tasks /\ secrets \subseteq ControlSecret
      /\ cCache[k] \in ControlState
      /\ task.ingress[k].source \in TargetState
      /\ "ingress" \in Actor
  BY DEF Types, WorkTypes, CacheTypes, ControlTypes, Tasks, GoodTask, TaskState, Actor
<1>2. \A object \in ControlIngress, pc \in {"write", "update", "delete"} :
        [Idle EXCEPT !.pc = pc, !.object = object] \in GoodTask
  BY IdleTask DEF Idle, GoodTask, TaskState, ControlState
<1>3. \A t \in GoodTask : task' = [task EXCEPT !.ingress[k] = t] => task' \in Tasks
  BY <1>1, SetTask
<1>4. cCache[k] # Absent => cCache[k] \in ControlIngress
  BY <1>1 DEF ControlState
<1>5. queue' \in Queues /\ task' \in Tasks
  <2>1. CASE Finish("ingress", k)
    BY <1>1, <2>1, EndTypes
  <2>2. CASE LookupOrphan(k) /\ ~ Finish("ingress", k)
    BY <1>1, <1>2, <1>3, <1>4, <2>2 DEF LookupOrphan
  <2>3. CASE Lookup(k) /\ ~ Finish("ingress", k)
    <3> DEFINE source == task.ingress[k].source
    <3>1. PICK copy \in CopyTLS(source.tls) :
            LET tls == PrefixWithNamespace(copy.tls, k[1]) IN
            \E pc \in {"write", "update"} :
              \E object \in {[tls |-> tls, provider |-> copy.provider,
                              settings |-> boot, rv |-> 0],
                             WithTLS(cCache[k], tls, copy.provider)} :
                /\ pc = "update" => cCache[k] # Absent
                /\ pc = "write" => object = [tls |-> tls, provider |-> copy.provider,
                                             settings |-> boot, rv |-> 0]
                /\ task' = [task EXCEPT !.ingress[k] =
                              [Idle EXCEPT !.pc = pc, !.object = object]]
                /\ UNCHANGED queue
      BY <2>3 DEF Lookup
    <3>2. source # Absent
      BY <2>3 DEF Lookup
    <3> QED
      BY <1>1, <1>2, <1>3, <1>4, <3>1, <3>2, LookupObject
  <2> QED
    BY <2>1, <2>2, <2>3
<1>6. ControlTypes' /\ BudgetTypes' /\ template' \in Templates
  BY <1>1, ControlKept, SpendTypes DEF LookupOrphan, Lookup, Types, WorkTypes
<1> QED
  BY <1>5, <1>6, StepTypes DEF LookupOrphan, Lookup

LEMMA TemplateTypes ==
  ASSUME Types, NEW k \in Key, SetProvider(k) \/ Render(k)
  PROVE  Types'
<1> DEFINE t == task.ingress[k]
<1>1. /\ queue \in Queues /\ task \in Tasks /\ template \in Templates
      /\ secrets \subseteq ControlSecret /\ "ingress" \in Actor
      /\ t \in GoodTask
  BY DEF Types, WorkTypes, ControlTypes, Tasks, Actor
<1>2. t.object \in ControlIngress
  BY <1>1 DEF SetProvider, Render, At, GoodTask
<1>3. \A others, provider : Torn(others, provider) \subseteq {Garbled}
  BY DEF Torn
<1>4. CASE SetProvider(k)
  <2>1. template' \in Templates
    BY <1>2, <1>3, <1>4 DEF SetProvider, Templates, ControlIngress
  <2>2. [t EXCEPT !.pc = "render"] \in GoodTask
    BY <1>1, <1>2 DEF GoodTask, TaskState
  <2>3. task' = [task EXCEPT !["ingress"][k] = [t EXCEPT !.pc = "render"]]
    BY <1>1, <1>4 DEF SetProvider, Goto, Tasks
  <2>4. task' \in Tasks
    BY <1>1, <2>2, <2>3, SetTask
  <2>5. ControlTypes' /\ BudgetTypes'
    BY <1>1, <1>4, ControlKept, SpendTypes DEF SetProvider, Types
  <2> QED
    BY <1>1, <1>4, <2>1, <2>4, <2>5, StepTypes DEF SetProvider
<1>5. CASE Render(k)
  <2>1. PICK provider \in {template} \cup Torn(Key \ {k}, template) :
          task' = [task EXCEPT !.ingress[k].pc = "create",
                               !.ingress[k].object.provider = provider]
    BY <1>5 DEF Render
  <2>2. provider \in Templates
    BY <1>1, <1>3 DEF Templates
  <2> DEFINE u == [t EXCEPT !.pc = "create", !.object.provider = provider]
  <2>3. u \in GoodTask
    <3>1. [t.object EXCEPT !.provider = provider] \in ControlIngress
      BY <1>2, <2>2 DEF ControlIngress, Templates
    <3> QED
      BY <1>1, <3>1 DEF GoodTask, TaskState, ControlState
  <2>4. task' = [task EXCEPT !["ingress"][k] = u]
    BY <1>1, <2>1 DEF Tasks, GoodTask, TaskState
  <2>5. task' \in Tasks
    BY <1>1, <2>3, <2>4, SetTask
  <2>6. ControlTypes' /\ BudgetTypes'
    BY <1>1, <1>5, ControlKept, SpendTypes DEF Render, Types
  <2> QED
    BY <1>1, <1>5, <2>5, <2>6, StepTypes DEF Render
<1> QED
  BY <1>4, <1>5

LEMMA CleanerCheckTypes ==
  ASSUME Types, NEW k \in Key, FindOrphan(k) \/ FindCounterpart(k)
  PROVE  Types'
<1> DEFINE t == task.cleaner[k]
<1>1. /\ queue \in Queues /\ task \in Tasks /\ template \in Templates
      /\ secrets \subseteq ControlSecret /\ "cleaner" \in Actor
      /\ t \in GoodTask /\ boot \in Nat
  BY DEF Types, WorkTypes, ControlTypes, Tasks, Actor
<1>2. t.object \in ControlIngress
  BY <1>1 DEF FindOrphan, FindCounterpart, At, GoodTask
<1>3. queue' \in Queues /\ task' \in Tasks
  <2>1. CASE FindOrphan(k)
    <3>1. [t EXCEPT !.pc = "delete"] \in GoodTask
      BY <1>1, <1>2 DEF GoodTask, TaskState
    <3>2. task' = [task EXCEPT !["cleaner"][k] = [t EXCEPT !.pc = "delete"]]
      BY <1>1, <2>1 DEF FindOrphan, Goto, Tasks
    <3> QED
      BY <1>1, <2>1, <3>1, <3>2, SetTask DEF FindOrphan
  <2>2. CASE FindCounterpart(k) /\ UpdateControlIngress
    <3>1. PICK provider \in {template} \cup Torn(Key, template) :
            task' = [task EXCEPT
                       !.cleaner[k].pc = "update",
                       !.cleaner[k].object.settings = boot,
                       !.cleaner[k].object.provider =
                         IF provider = NoProvider THEN @ ELSE provider]
      BY <2>2 DEF FindCounterpart
    <3>2. provider \in Templates
      BY <1>1 DEF Templates, Torn
    <3> DEFINE u == [t EXCEPT !.pc = "update",
                              !.object.settings = boot,
                              !.object.provider = IF provider = NoProvider THEN @ ELSE provider]
    <3>3. u \in GoodTask
      <4> DEFINE o == [t.object EXCEPT
                         !.settings = boot,
                         !.provider = IF provider = NoProvider THEN @ ELSE provider]
      <4>1. o \in ControlIngress
        BY <1>1, <1>2, <3>2 DEF ControlIngress, Templates
      <4> QED
        BY <1>1, <4>1 DEF GoodTask, TaskState, ControlState
    <3>4. task' = [task EXCEPT !["cleaner"][k] = u]
      BY ZenonT(60), <1>1, <1>2, <3>1 DEF Tasks, GoodTask, TaskState
    <3> QED
      BY <1>1, <2>2, <3>3, <3>4, SetTask DEF FindCounterpart
  <2>3. CASE FindCounterpart(k) /\ ~ UpdateControlIngress
    BY <1>1, <2>3, EndTypes DEF FindCounterpart, Recheck
  <2> QED
    BY <2>1, <2>2, <2>3
<1>4. ControlTypes' /\ BudgetTypes' /\ template' \in Templates
  BY <1>1, ControlKept, SpendTypes DEF FindOrphan, FindCounterpart, Types
<1> QED
  BY <1>3, <1>4, StepTypes DEF FindOrphan, FindCounterpart

\* The API calls, whether the worker gets the answer or not.
LEMMA AnsweredTypes ==
  ASSUME Types, NEW a \in Actor, NEW k \in Key,
         NEW A, A => queue' \in Queues /\ task' \in Tasks, Answered(a, k, A)
  PROVE  queue' \in Queues /\ task' \in Tasks /\ BudgetTypes'
<1>1. queue \in Queues /\ task \in Tasks /\ BudgetTypes
  BY DEF Types, WorkTypes
<1> QED
  BY <1>1, EndTypes, SpendTypes DEF Answered

LEMMA CallTypes ==
  ASSUME Types, NEW a \in Actor, NEW k \in Key,
         \/ CreateIngress(k) \/ UpdateIngress(a, k) \/ DeleteIngress(a, k)
         \/ DeleteSecret(a, k) \/ LoseRequest(a, k)
  PROVE  Types'
<1> DEFINE t == task[a][k]
<1>1. /\ queue \in Queues /\ task \in Tasks /\ template \in Templates
      /\ ControlTypes /\ BudgetTypes /\ t \in GoodTask /\ "ingress" \in Actor
      /\ task.ingress[k] \in GoodTask
      /\ rev[k] \in Nat
  BY DEF Types, WorkTypes, ControlTypes, Tasks, Actor
<1>2. \A o \in ControlIngress : [o EXCEPT !.rv = rev[k] + 1] \in ControlState
  BY <1>1 DEF ControlIngress, ControlState
<1>3. [rev EXCEPT ![k] = @ + 1] \in [Key -> Nat]
  BY <1>1 DEF ControlTypes
<1>4. /\ Finish(a, k) => queue' \in Queues /\ task' \in Tasks
      /\ Requeue(a, k) => queue' \in Queues /\ task' \in Tasks
      /\ Finish("ingress", k) => queue' \in Queues /\ task' \in Tasks
      /\ Requeue("ingress", k) => queue' \in Queues /\ task' \in Tasks
  BY <1>1, EndTypes
<1>5. CASE CreateIngress(k)
  <2>1. task.ingress[k].object \in ControlIngress
    BY <1>1, <1>5 DEF CreateIngress, At, GoodTask
  <2>2. ControlTypes'
    BY <1>1, <1>2, <1>3, <1>5, <2>1, StoreTypes DEF CreateIngress, ControlTypes, controlVars
  <2>3. queue' \in Queues /\ task' \in Tasks /\ BudgetTypes'
    <3>1. CASE Answered("ingress", k, Finish("ingress", k))
      BY <1>1, <1>4, <3>1, AnsweredTypes
    <3>2. CASE Requeue("ingress", k) /\ UNCHANGED budget
      BY <1>1, <1>4, <3>2, SpendTypes
    <3> QED
      BY <1>5, <3>1, <3>2 DEF CreateIngress
  <2> QED
    BY <1>1, <1>5, <2>2, <2>3, StepTypes DEF CreateIngress
<1>6. CASE UpdateIngress(a, k)
  <2>1. t.object \in ControlIngress
    BY <1>1, <1>6 DEF UpdateIngress, At, GoodTask
  <2>2. ControlTypes'
    BY <1>1, <1>2, <1>3, <1>6, <2>1, StoreTypes DEF UpdateIngress, ControlTypes, controlVars
  <2>3. queue' \in Queues /\ task' \in Tasks /\ BudgetTypes'
    <3>1. CASE Answered(a, k, IF a = "ingress" THEN Finish(a, k) ELSE Recheck(k))
      <4>1. (IF a = "ingress" THEN Finish(a, k) ELSE Recheck(k))
              => queue' \in Queues /\ task' \in Tasks
        BY <1>1, <1>4 DEF Recheck, Actor
      <4> QED
        BY <1>1, <3>1, <4>1, AnsweredTypes
    <3>2. CASE Requeue(a, k) /\ UNCHANGED budget
      BY <1>1, <1>4, <3>2, SpendTypes
    <3> QED
      BY <1>6, <3>1, <3>2 DEF UpdateIngress
  <2> QED
    BY <1>1, <1>6, <2>2, <2>3, StepTypes DEF UpdateIngress
<1>7. CASE DeleteIngress(a, k)
  <2> DEFINE todo == SecretNames(t.object.tls)
             continue == IF todo = << >> THEN Finish(a, k)
                         ELSE /\ task' = [task EXCEPT ![a][k] =
                                            [Idle EXCEPT !.pc = "secrets", !.todo = todo]]
                              /\ UNCHANGED queue
  <2>1. todo \in Seq(ControlSecret)
    <3>1. t.object \in ControlIngress
      BY <1>1, <1>7 DEF DeleteIngress, At, GoodTask
    <3> QED
      BY <3>1, SecretNamesTypes DEF ControlIngress
  <2>2. continue => queue' \in Queues /\ task' \in Tasks
    <3>1. todo # << >> => [Idle EXCEPT !.pc = "secrets", !.todo = todo] \in GoodTask
      BY <2>1, IdleTask DEF Idle, GoodTask, TaskState
    <3> QED
      BY <1>1, <1>4, <3>1, SetTask
  <2>3. Answered(a, k, continue)
    BY <1>7 DEF DeleteIngress
  <2>4. queue' \in Queues /\ task' \in Tasks /\ BudgetTypes'
    <3> HIDE DEF continue
    <3> QED
      BY <2>2, <2>3, AnsweredTypes
  <2>5. ControlTypes'
    <3>1. Absent \in ControlState
      BY DEF ControlState
    <3> QED
      BY <1>1, <1>7, <3>1, StoreTypes DEF DeleteIngress, ControlTypes
  <2> QED
    BY <1>1, <1>7, <2>4, <2>5, StepTypes DEF DeleteIngress
<1>8. CASE DeleteSecret(a, k)
  <2> DEFINE continue == IF Len(t.todo) = 1 THEN Finish(a, k)
                         ELSE /\ task' = [task EXCEPT ![a][k].todo = Tail(@)]
                              /\ UNCHANGED queue
  <2>1. t.todo \in Seq(ControlSecret) /\ t.todo # << >> /\ t.pc = "secrets"
    BY <1>1, <1>8 DEF DeleteSecret, At, GoodTask, TaskState
  <2>2. continue => queue' \in Queues /\ task' \in Tasks
    <3>1. Len(t.todo) # 1 => [t EXCEPT !.todo = Tail(@)] \in GoodTask
      BY <1>1, <2>1, LongTail DEF GoodTask, TaskState
    <3>2. continue /\ Len(t.todo) # 1 => task' = [task EXCEPT ![a][k] = [t EXCEPT !.todo = Tail(@)]]
      BY <1>1 DEF Tasks
    <3> QED
      BY <1>1, <1>4, <3>1, <3>2, SetTask
  <2>3. Answered(a, k, continue)
    BY <1>8 DEF DeleteSecret
  <2>4. queue' \in Queues /\ task' \in Tasks /\ BudgetTypes'
    <3> HIDE DEF continue
    <3> QED
      BY <2>2, <2>3, AnsweredTypes
  <2>5. ControlTypes'
    BY <1>1, <1>8 DEF DeleteSecret, ControlTypes, controlVars
  <2> QED
    BY <1>1, <1>8, <2>4, <2>5, StepTypes DEF DeleteSecret
<1>9. CASE LoseRequest(a, k)
  <2>1. queue' \in Queues /\ task' \in Tasks /\ BudgetTypes'
    BY <1>1, <1>4, <1>9, SpendTypes DEF LoseRequest
  <2>2. ControlTypes'
    BY <1>1, <1>9, ControlKept DEF LoseRequest, ControlTypes
  <2> QED
    BY <1>1, <1>9, <2>1, <2>2, StepTypes DEF LoseRequest
<1> QED
  BY <1>5, <1>6, <1>7, <1>8, <1>9

LEMMA IssueTypes ==
  ASSUME Types, NEW k \in Key, Issue(k)
  PROVE  Types'
<1>1. control[k] # Absent => control[k].tls \in ControlTLS
  BY DEF Types, ControlTypes, ControlState, ControlIngress
<1>2. secrets' \subseteq ControlSecret
  BY <1>1 DEF Issue, ControlSecret, Types, ControlTypes
<1>3. ControlTypes' /\ BudgetTypes'
  BY <1>2, ControlKept, SpendTypes DEF Issue, Types
<1> QED
  BY <1>3, StepTypes DEF Issue, Types, WorkTypes, workVars

LEMMA NextTypes == Types /\ [Next]_vars => Types'
<1> SUFFICES ASSUME Types, [Next]_vars PROVE Types'
  OBVIOUS
<1>1. CASE UNCHANGED vars
  BY <1>1 DEF vars, Types, TargetTypes, ControlTypes, CacheTypes, WorkTypes, BudgetTypes
<1>2. CASE Restart \/ ListTarget \/ ListControl
  BY <1>2, RestartTypes, InformerTypes
<1>3. ASSUME NEW k \in Key,
             \/ User(k) \/ Informers(k) \/ SyncStart(k) \/ SyncStep(k)
             \/ CleanerStart(k) \/ CleanerStep(k) \/ Issue(k)
             \/ \E a \in Actor : Add(a, k) \/ LoseRequest(a, k)
      PROVE  Types'
  <2>1. "ingress" \in Actor /\ "cleaner" \in Actor
    BY DEF Actor
  <2>2. CASE User(k) \/ Informers(k) \/ SyncStart(k) \/ CleanerStart(k) \/ Issue(k)
    BY <2>2, UserTypes, InformerTypes, StartTypes, IssueTypes
  <2>3. CASE SyncStep(k)
    BY <2>1, <2>3, LookupTypes, TemplateTypes, CallTypes DEF SyncStep, SyncUpdate
  <2>4. CASE CleanerStep(k)
    BY <2>1, <2>4, CleanerCheckTypes, CallTypes DEF CleanerStep, CleanerUpdate
  <2>5. CASE \E a \in Actor : Add(a, k) \/ LoseRequest(a, k)
    BY <2>5, AddTypes, CallTypes
  <2> QED
    BY <1>3, <2>2, <2>3, <2>4, <2>5
<1> QED
  BY <1>1, <1>2, <1>3 DEF Next

\* What the processes, the caches and the control cluster hold keeps its type in
\* every interleaving, so a worker at an API call has an object to send and one
\* that cleans up has a secret left to delete (pkg/ingress/sync.go,
\* pkg/cleaner/controller.go).
THEOREM ReplicationTypes == Spec => []TypeOK
<1>1. Types /\ [Next]_vars => Types'
  BY NextTypes
<1>2. Spec => []Types
  BY <1>1, InitTypes, PTL DEF Spec
<1> QED
  BY <1>2, TypesGiveTypeOK, PTL

-----------------------------------------------------------------------------
\* What a step of a worker in its handler does at most.

Asked(k) == k \in queue.ingress.delayed \cup queue.ingress.dirty

\* The worker has seen no managed target: Sync read that it is gone, or the
\* cleaner finds none.
NoTargetFor(a, k) ==
  \/ a = "ingress" /\ At(a, k, "lookup") /\ task[a][k].source = Absent
  \/ ~ FilterOnIngressLables(tCache[k])

\* What it goes on with: the cleaner with the section of the control Ingress it
\* read, Sync with the settings of the one it reads.
NextTask(a, k, t) ==
  /\ t.pc # "lookup"
  /\ t.pc = "delete" => NoTargetFor(a, k)
  /\ t.pc \in {"check", "update"} =>
       LET read == IF a = "cleaner" THEN task[a][k].object ELSE cCache[k] IN
       /\ IF a = "cleaner" THEN At(a, k, "check") ELSE read # Absent
       /\ t.object.rv = read.rv
       /\ IF a = "cleaner" THEN t.object.tls = read.tls ELSE t.object.settings = read.settings

\* Its API call, if any.
Writes(a, k) ==
  LET object == task[a][k].object IN
  /\ IF control[k] = Absent THEN At(a, k, "create")
     ELSE At(a, k, "update") /\ IsCurrent(k, object)
  /\ rev' = [rev EXCEPT ![k] = @ + 1]
  /\ Store(k, [object EXCEPT !.rv = rev[k] + 1])
Deletes(a, k) ==
  /\ At(a, k, "delete")
  /\ Store(k, Absent)
  /\ UNCHANGED rev

WorkerStep(a, k) ==
  /\ ~ At(a, k, "idle")
  /\ UNCHANGED <<targetVars, cacheVars>>
  /\ \E t \in GoodTask : NextTask(a, k, t) /\ task' = [task EXCEPT ![a][k] = t]
  /\ \A j \in Key : Asked(j)' => Asked(j) \/ (j = k /\ a = "ingress")
  /\ UNCHANGED controlVars \/ Writes(a, k) \/ Deletes(a, k)

LEMMA WorkerStepParts ==
  ASSUME NEW a \in Actor, NEW k \in Key, ~ At(a, k, "idle"),
         UNCHANGED <<targetVars, cacheVars>>,
         NEW t \in GoodTask, NextTask(a, k, t), task' = [task EXCEPT ![a][k] = t],
         \A j \in Key : Asked(j)' => Asked(j) \/ (j = k /\ a = "ingress"),
         UNCHANGED controlVars \/ Writes(a, k) \/ Deletes(a, k)
  PROVE  WorkerStep(a, k)
BY DEF WorkerStep

\* The end of the work on a key, and an answered or a lost call.
LEMMA EndStep ==
  ASSUME Types, NEW a \in Actor, NEW k \in Key, Finish(a, k) \/ Requeue(a, k)
  PROVE  /\ NextTask(a, k, Idle)
         /\ task' = [task EXCEPT ![a][k] = Idle]
         /\ \A j \in Key : Asked(j)' => Asked(j) \/ (j = k /\ a = "ingress")
<1>1. queue \in Queues
  BY DEF Types, WorkTypes
<1> QED
  BY <1>1 DEF Finish, Requeue, Enqueue, NextTask, Idle, Asked, Queues, Actor

LEMMA AnsweredStep ==
  ASSUME Types, NEW a \in Actor, NEW k \in Key, NEW t \in GoodTask, NextTask(a, k, t),
         Answered(a, k, task' = [task EXCEPT ![a][k] = t] /\ UNCHANGED queue)
  PROVE  /\ \E u \in GoodTask : NextTask(a, k, u) /\ task' = [task EXCEPT ![a][k] = u]
         /\ \A j \in Key : Asked(j)' => Asked(j) \/ (j = k /\ a = "ingress")
<1>1. CASE Requeue(a, k)
  BY <1>1, EndStep, IdleTask
<1>2. CASE task' = [task EXCEPT ![a][k] = t] /\ UNCHANGED queue
  BY <1>2 DEF Asked
<1> QED
  BY <1>1, <1>2 DEF Answered

LEMMA ReadSteps ==
  ASSUME Types, NEW k \in Key,
         LookupOrphan(k) \/ Lookup(k) \/ SetProvider(k) \/ Render(k)
  PROVE  WorkerStep("ingress", k)
<1> DEFINE a == "ingress"
           t == task[a][k]
<1>1. /\ a \in Actor /\ task \in Tasks /\ t \in GoodTask /\ cCache[k] \in ControlState
      /\ template \in Templates /\ t.source \in TargetState
  BY DEF Types, WorkTypes, CacheTypes, Tasks, GoodTask, TaskState, Actor
<1>2. /\ ~ At(a, k, "idle")
      /\ UNCHANGED <<targetVars, cacheVars, controlVars>>
  BY DEF LookupOrphan, Lookup, SetProvider, Render, At
<1>3. CASE Finish(a, k)
  BY <1>1, <1>2, <1>3, EndStep, IdleTask, WorkerStepParts
<1>4. ASSUME NEW u \in GoodTask, task' = [task EXCEPT ![a][k] = u], NextTask(a, k, u),
             UNCHANGED queue
      PROVE  WorkerStep(a, k)
  BY <1>1, <1>2, <1>4, WorkerStepParts DEF Asked
<1>5. CASE LookupOrphan(k) /\ ~ Finish(a, k)
  <2> DEFINE u == [Idle EXCEPT !.pc = "delete", !.object = cCache[k]]
  <2>1. task' = [task EXCEPT ![a][k] = u] /\ UNCHANGED queue /\ cCache[k] # Absent
        /\ NoTargetFor(a, k)
    BY <1>1, <1>5 DEF LookupOrphan, Tasks, NoTargetFor
  <2>2. u \in GoodTask
    BY <1>1, <2>1, IdleTask DEF Idle, GoodTask, TaskState, ControlState
  <2>3. NextTask(a, k, u)
    BY <2>1 DEF NextTask, Idle
  <2> QED
    BY <1>4, <2>1, <2>2, <2>3
<1>6. CASE Lookup(k) /\ ~ Finish(a, k)
  <2>1. PICK copy \in CopyTLS(t.source.tls) :
          LET tls == PrefixWithNamespace(copy.tls, k[1]) IN
          \E pc \in {"write", "update"} :
            \E object \in {[tls |-> tls, provider |-> copy.provider,
                            settings |-> boot, rv |-> 0],
                           WithTLS(cCache[k], tls, copy.provider)} :
              /\ pc = "update" => /\ cCache[k] # Absent
                                  /\ object = WithTLS(cCache[k], tls, copy.provider)
              /\ pc = "write" => object = [tls |-> tls, provider |-> copy.provider,
                                           settings |-> boot, rv |-> 0]
              /\ task' = [task EXCEPT ![a][k] =
                            [Idle EXCEPT !.pc = pc, !.object = object]]
              /\ UNCHANGED queue
    BY <1>1, <1>6 DEF Lookup, Tasks
  <2> DEFINE tls == PrefixWithNamespace(copy.tls, k[1])
  <2>2. t.source # Absent
    BY <1>6 DEF Lookup
  <2>3. /\ [tls |-> tls, provider |-> copy.provider, settings |-> boot, rv |-> 0]
             \in ControlIngress
        /\ \A object \in ControlIngress : WithTLS(object, tls, copy.provider) \in ControlIngress
    BY <1>1, <2>2, LookupObject
  <2>4. PICK pc \in {"write", "update"}, object \in ControlIngress :
          /\ pc = "update" => /\ cCache[k] # Absent
                              /\ object = WithTLS(cCache[k], tls, copy.provider)
          /\ task' = [task EXCEPT ![a][k] = [Idle EXCEPT !.pc = pc, !.object = object]]
          /\ UNCHANGED queue
    BY <1>1, <2>1, <2>3 DEF ControlState
  <2> DEFINE u == [Idle EXCEPT !.pc = pc, !.object = object]
  <2>5. u \in GoodTask
    BY <2>4, IdleTask DEF Idle, GoodTask, TaskState, ControlState
  <2>6. cCache[k] # Absent => cCache[k] \in ControlIngress
    BY <1>1 DEF ControlState
  <2>7. u.pc = pc /\ u.object = object
    BY DEF Idle
  <2>8. pc = "update" => object.rv = cCache[k].rv /\ object.settings = cCache[k].settings
    BY <2>4, <2>6 DEF WithTLS, ControlIngress
  <2>9. NextTask(a, k, u)
    BY <2>4, <2>7, <2>8 DEF NextTask
  <2> QED
    BY <1>4, <2>4, <2>5, <2>9
<1>7. CASE SetProvider(k)
  <2> DEFINE u == [t EXCEPT !.pc = "render"]
  <2>1. t.object \in ControlIngress
    BY <1>1, <1>7 DEF SetProvider, At, GoodTask
  <2>2. u \in GoodTask
    BY <1>1, <2>1 DEF GoodTask, TaskState
  <2>3. task' = [task EXCEPT ![a][k] = u]
    BY <1>1, <1>7 DEF SetProvider, Goto, Tasks
  <2>4. NextTask(a, k, u)
    BY <1>1 DEF NextTask, GoodTask, TaskState
  <2> QED
    BY <1>4, <1>7, <2>2, <2>3, <2>4 DEF SetProvider
<1>8. CASE Render(k)
  <2>1. PICK provider \in Templates :
          task' = [task EXCEPT !.ingress[k].pc = "create",
                               !.ingress[k].object.provider = provider]
    <3>1. \A others, provider : Torn(others, provider) \subseteq Templates
      BY DEF Torn, Templates
    <3> QED
      BY <1>1, <1>8, <3>1 DEF Render
  <2>2. t.object \in ControlIngress
    BY <1>1, <1>8 DEF Render, At, GoodTask
  <2> DEFINE u == [t EXCEPT !.pc = "create", !.object.provider = provider]
  <2>3. u \in GoodTask
    <3>1. [t.object EXCEPT !.provider = provider] \in ControlIngress
      BY <2>2 DEF ControlIngress, Templates
    <3> QED
      BY <1>1, <3>1 DEF GoodTask, TaskState, ControlState
  <2>4. task' = [task EXCEPT ![a][k] = u]
    BY <1>1, <2>1 DEF Tasks, GoodTask, TaskState
  <2>5. NextTask(a, k, u)
    BY <1>1 DEF NextTask, GoodTask, TaskState
  <2> QED
    BY <1>4, <1>8, <2>3, <2>4, <2>5 DEF Render
<1> QED
  BY <1>3, <1>5, <1>6, <1>7, <1>8

LEMMA CheckSteps ==
  ASSUME Types, NEW k \in Key, FindOrphan(k) \/ FindCounterpart(k)
  PROVE  WorkerStep("cleaner", k)
<1> DEFINE a == "cleaner"
           t == task[a][k]
<1>1. /\ a \in Actor /\ task \in Tasks /\ t \in GoodTask /\ template \in Templates
      /\ boot \in Nat /\ At(a, k, "check") /\ t.object \in ControlIngress
  BY DEF Types, WorkTypes, Tasks, Actor, GoodTask, FindOrphan, FindCounterpart, At
<1>2. ~ At(a, k, "idle") /\ UNCHANGED <<targetVars, cacheVars, controlVars>>
  BY DEF FindOrphan, FindCounterpart, At
<1>3. ASSUME NEW u \in GoodTask, task' = [task EXCEPT ![a][k] = u], NextTask(a, k, u),
             UNCHANGED queue
      PROVE  WorkerStep(a, k)
  BY <1>1, <1>2, <1>3, WorkerStepParts DEF Asked
<1>4. CASE FindOrphan(k)
  <2> DEFINE u == [t EXCEPT !.pc = "delete"]
  <2>1. u \in GoodTask
    BY <1>1 DEF GoodTask, TaskState
  <2>2. task' = [task EXCEPT ![a][k] = u] /\ UNCHANGED queue
    BY <1>1, <1>4 DEF FindOrphan, Goto, Tasks
  <2>3. NextTask(a, k, u)
    BY <1>1, <1>4 DEF NextTask, NoTargetFor, FindOrphan, HasCounterpart, GoodTask, TaskState
  <2> QED
    BY <1>3, <2>1, <2>2, <2>3
<1>5. CASE FindCounterpart(k) /\ UpdateControlIngress
  <2>1. PICK provider \in Templates :
          task' = [task EXCEPT
                     !.cleaner[k].pc = "update",
                     !.cleaner[k].object.settings = boot,
                     !.cleaner[k].object.provider =
                       IF provider = NoProvider THEN @ ELSE provider]
    <3>1. {template} \cup Torn(Key, template) \subseteq Templates
      BY <1>1 DEF Torn, Templates
    <3> QED
      BY <1>5, <3>1 DEF FindCounterpart
  <2> DEFINE u == [t EXCEPT !.pc = "update",
                            !.object.settings = boot,
                            !.object.provider = IF provider = NoProvider THEN @ ELSE provider]
             o == [t.object EXCEPT
                     !.settings = boot,
                     !.provider = IF provider = NoProvider THEN @ ELSE provider]
  <2>2. o \in ControlIngress /\ o.rv = t.object.rv /\ o.tls = t.object.tls
    BY <1>1 DEF ControlIngress, Templates
  <2>3. u.pc = "update" /\ u.object = o
    BY <1>1 DEF GoodTask, TaskState, ControlIngress
  <2>4. u \in GoodTask
    BY <1>1, <2>2 DEF GoodTask, TaskState, ControlState
  <2>5. task' = [task EXCEPT ![a][k] = u]
    BY ZenonT(60), <1>1, <2>1 DEF Tasks, GoodTask, TaskState
  <2>6. NextTask(a, k, u)
    BY <1>1, <2>2, <2>3 DEF NextTask
  <2> QED
    BY <1>3, <1>5, <2>4, <2>5, <2>6 DEF FindCounterpart
<1>6. CASE FindCounterpart(k) /\ ~ UpdateControlIngress
  <2>1. Requeue(a, k)
    BY <1>6 DEF FindCounterpart, Recheck
  <2> QED
    BY <1>1, <1>2, <2>1, EndStep, IdleTask, WorkerStepParts
<1> QED
  BY <1>4, <1>5, <1>6

LEMMA CallSteps ==
  ASSUME Types, NEW a \in Actor, NEW k \in Key,
         \/ CreateIngress(k) /\ a = "ingress"
         \/ UpdateIngress(a, k) \/ DeleteIngress(a, k)
         \/ DeleteSecret(a, k) \/ LoseRequest(a, k)
  PROVE  WorkerStep(a, k)
<1> DEFINE t == task[a][k]
<1>1. task \in Tasks /\ t \in GoodTask /\ Idle \in GoodTask
  BY IdleTask DEF Types, WorkTypes, Tasks
<1>2. ~ At(a, k, "idle") /\ UNCHANGED <<targetVars, cacheVars>>
  BY DEF CreateIngress, UpdateIngress, DeleteIngress, DeleteSecret, LoseRequest, At
<1>3. ASSUME \/ Finish(a, k) \/ Requeue(a, k)
             \/ \E t1 \in GoodTask :
                  /\ NextTask(a, k, t1)
                  /\ Answered(a, k, task' = [task EXCEPT ![a][k] = t1] /\ UNCHANGED queue),
             UNCHANGED controlVars \/ Writes(a, k) \/ Deletes(a, k)
      PROVE  WorkerStep(a, k)
  BY <1>1, <1>2, <1>3, EndStep, AnsweredStep, WorkerStepParts
<1>4. Answered(a, k, Finish(a, k)) => Finish(a, k) \/ Requeue(a, k)
  BY DEF Answered
<1>5. CASE CreateIngress(k) /\ a = "ingress"
  <2>1. UNCHANGED controlVars \/ Writes(a, k)
    BY <1>5 DEF CreateIngress, Writes, At
  <2> QED
    BY <1>3, <1>4, <1>5, <2>1 DEF CreateIngress
<1>6. CASE UpdateIngress(a, k)
  <2>1. UNCHANGED controlVars \/ Writes(a, k)
    BY <1>6 DEF UpdateIngress, Writes, At, IsCurrent
  <2>2. Finish(a, k) \/ Requeue(a, k)
    BY <1>6 DEF UpdateIngress, Answered, Recheck, Actor
  <2> QED
    BY <1>3, <2>1, <2>2
<1>7. CASE DeleteIngress(a, k)
  <2> DEFINE todo == SecretNames(t.object.tls)
             u == [Idle EXCEPT !.pc = "secrets", !.todo = todo]
  <2>1. UNCHANGED controlVars \/ Deletes(a, k)
    BY <1>7 DEF DeleteIngress, Deletes, controlVars
  <2>2. CASE todo = << >>
    <3>1. Finish(a, k) \/ Requeue(a, k)
      BY <1>7, <2>2 DEF DeleteIngress, Answered
    <3> QED
      BY <1>3, <2>1, <3>1
  <2>3. CASE todo # << >>
    <3>1. t.object \in ControlIngress
      BY <1>1, <1>7 DEF DeleteIngress, At, GoodTask
    <3>2. todo \in Seq(ControlSecret)
      BY <3>1, SecretNamesTypes DEF ControlIngress
    <3>3. u \in GoodTask /\ NextTask(a, k, u)
      <4> HIDE DEF todo
      <4> QED
        BY <2>3, <3>2, <1>1 DEF Idle, GoodTask, TaskState, NextTask
    <3>4. Answered(a, k, task' = [task EXCEPT ![a][k] = u] /\ UNCHANGED queue)
      BY <1>7, <2>3 DEF DeleteIngress, Answered
    <3> HIDE DEF u
    <3> QED
      BY <1>3, <2>1, <3>3, <3>4
  <2> QED
    BY <2>2, <2>3
<1>8. CASE DeleteSecret(a, k)
  <2> DEFINE u == [t EXCEPT !.todo = Tail(@)]
  <2>1. UNCHANGED controlVars
    BY <1>8 DEF DeleteSecret
  <2>2. CASE Len(t.todo) = 1
    <3>1. Finish(a, k) \/ Requeue(a, k)
      BY <1>8, <2>2 DEF DeleteSecret, Answered
    <3> QED
      BY <1>3, <2>1, <3>1
  <2>3. CASE Len(t.todo) # 1
    <3>1. t.todo \in Seq(ControlSecret) /\ t.todo # << >> /\ t.pc = "secrets"
      BY <1>1, <1>8 DEF DeleteSecret, At, GoodTask, TaskState
    <3>2. Tail(t.todo) \in Seq(ControlSecret) /\ Tail(t.todo) # << >>
      BY <2>3, <3>1, LongTail
    <3>3. u \in GoodTask /\ NextTask(a, k, u)
      BY <1>1, <3>1, <3>2 DEF GoodTask, TaskState, NextTask
    <3>4. task' = [task EXCEPT ![a][k].todo = Tail(@)] <=> task' = [task EXCEPT ![a][k] = u]
      BY <1>1 DEF Tasks
    <3>5. Answered(a, k, task' = [task EXCEPT ![a][k] = u] /\ UNCHANGED queue)
      BY <1>8, <2>3, <3>4 DEF DeleteSecret, Answered
    <3> HIDE DEF u
    <3> QED
      BY <1>3, <2>1, <3>3, <3>5
  <2> QED
    BY <2>2, <2>3
<1>9. CASE LoseRequest(a, k)
  BY <1>3, <1>9 DEF LoseRequest
<1> QED
  BY <1>5, <1>6, <1>7, <1>8, <1>9

\* A step of the system, as far as the safety proofs distinguish its actions.
Starts(k) == SyncStart(k) \/ CleanerStart(k)
Minor == \E k \in Key : Issue(k) \/ \E a \in Actor : Add(a, k)

LEMMA NextSteps ==
  ASSUME Types, Next
  PROVE  \/ Restart
         \/ ToTarget /\ UNCHANGED <<task, controlVars, cCache>>
         \/ ToControl
         \/ \E k \in Key : User(k)
         \/ \E k \in Key : Starts(k)
         \/ \E a \in Actor, k \in Key : WorkerStep(a, k)
         \/ Minor
<1>1. "ingress" \in Actor /\ "cleaner" \in Actor
  BY DEF Actor
<1>2. CASE Restart \/ ListTarget \/ ListControl \/ \E k \in Key : Informers(k)
  BY <1>2, TargetInformer, ControlInformer DEF Informers, ToTarget, SeeTarget
<1>3. ASSUME NEW k \in Key, SyncStep(k) PROVE WorkerStep("ingress", k)
  BY <1>1, <1>3, ReadSteps, CallSteps DEF SyncStep, SyncUpdate
<1>4. ASSUME NEW k \in Key, CleanerStep(k) PROVE WorkerStep("cleaner", k)
  BY <1>1, <1>4, CheckSteps, CallSteps DEF CleanerStep, CleanerUpdate
<1>5. ASSUME NEW k \in Key, NEW a \in Actor, LoseRequest(a, k) PROVE WorkerStep(a, k)
  BY <1>5, CallSteps
<1> QED
  BY <1>1, <1>2, <1>3, <1>4, <1>5 DEF Next, Starts, Minor

-----------------------------------------------------------------------------
\* No managed target loses its control Ingress.  The caches are behind, but they
\* are behind a target that, as long as no user withdraws it, goes from unmanaged
\* to managed once and for all.  A process that holds, or may read, anything about
\* a control Ingress has seen that happen or will find it in its first list.

AllManaged(k) ==
  /\ FilterOnIngressLables(target[k])
  /\ \A s \in Members(tStream[k]) : FilterOnIngressLables(s)

\* Along cache, stream and target, managed stays managed.
StaysManaged(k) ==
  /\ \A i, j \in DOMAIN tStream[k] :
       i < j /\ FilterOnIngressLables(tStream[k][i]) => FilterOnIngressLables(tStream[k][j])
  /\ \A s \in Members(tStream[k]) : FilterOnIngressLables(s) => FilterOnIngressLables(target[k])
  /\ FilterOnIngressLables(tCache[k]) => AllManaged(k)

\* There is or was a control Ingress; a worker has the key or will get it.
Known(k) ==
  control[k] # Absent \/ cCache[k] # Absent \/ \E s \in Members(cStream[k]) : s # Absent
Handled(k) == Asked(k) \/ \E a \in Actor : ~ At(a, k, "idle")

SafeKey(k) ==
  /\ StaysManaged(k)
  /\ Known(k) => AllManaged(k) /\ (synced.target => FilterOnIngressLables(tCache[k]))
  /\ Handled(k) => FilterOnIngressLables(tCache[k])
  /\ At("ingress", k, "lookup") => FilterOnIngressLables(task.ingress[k].source)
  /\ \A a \in Actor : ~ At(a, k, "delete")

NothingDropped == \A k \in Key \ withdrawn : SafeKey(k)

LEMMA InitDropsNothing == Init => NothingDropped
<1> SUFFICES ASSUME Init, NEW k \in Key PROVE SafeKey(k)
  BY DEF NothingDropped
<1>1. /\ tStream[k] = <<Absent>> /\ cStream[k] = <<Absent>>
      /\ tCache[k] = Absent /\ cCache[k] = Absent /\ control[k] = Absent
      /\ \A a \in Actor : task[a][k] = Idle
  BY DEF Init, Nothing, NoTask
<1>2. ~ Asked(k)
  BY DEF Init, NoQueue, Asked, Actor
<1>3. Members(<<Absent>>) = {Absent} /\ DOMAIN <<Absent>> = {1}
  BY DEF Members
<1>4. ~ FilterOnIngressLables(Absent)
  BY DEF FilterOnIngressLables
<1>5. StaysManaged(k)
  BY <1>1, <1>3, <1>4 DEF StaysManaged
<1>6. ~ Known(k)
  BY <1>1, <1>3 DEF Known
<1>7. ~ Handled(k) /\ "ingress" \in Actor
  BY <1>1, <1>2 DEF Handled, At, Idle, Actor
<1> QED
  BY <1>1, <1>5, <1>6, <1>7 DEF SafeKey, At, Idle

\* A step that leaves the target, its stream and its cache alone.
LEMMA TargetKept ==
  ASSUME NEW k \in Key, SafeKey(k),
         UNCHANGED <<target[k], tStream[k], tCache[k], synced.target>>,
         Known(k)' => Known(k) \/ FilterOnIngressLables(tCache[k]),
         Handled(k)' => Handled(k) \/ FilterOnIngressLables(tCache[k]),
         At("ingress", k, "lookup")' => FilterOnIngressLables(task.ingress[k].source)',
         \A a \in Actor : ~ At(a, k, "delete")'
  PROVE  SafeKey(k)'
<1>1. StaysManaged(k)'
  BY DEF SafeKey, StaysManaged, AllManaged
<1>2. AllManaged(k) => AllManaged(k)'
  BY DEF AllManaged
<1>3. FilterOnIngressLables(tCache[k]) => FilterOnIngressLables(tCache[k])'
  OBVIOUS
<1>4. FilterOnIngressLables(tCache[k]) => AllManaged(k)
  BY DEF SafeKey, StaysManaged
<1>5. Known(k)' => AllManaged(k)' /\ (synced.target => FilterOnIngressLables(tCache[k]))'
  BY <1>2, <1>3, <1>4 DEF SafeKey
<1>6. Handled(k)' => FilterOnIngressLables(tCache[k])'
  BY <1>3 DEF SafeKey
<1> QED
  BY <1>1, <1>5, <1>6 DEF SafeKey

\* A user's operation: what is appended is managed, or nothing before it was.
LEMMA UserDropsNothing ==
  ASSUME Types, NothingDropped, NEW i \in Key, User(i)
  PROVE  NothingDropped'
<1>1. PICK op, state : UserOp(op, i, state) /\ state \in TargetState
  <2>1. target[i] \in TargetState /\ used[i] \subseteq TargetTLS
    BY DEF Types, TargetTypes
  <2>2. \A tls \in TargetTLS : [target[i] EXCEPT !.tls = tls] \in TargetState \/ target[i] = Absent
    BY <2>1 DEF TargetState
  <2>3. \A managed \in BOOLEAN :
          [target[i] EXCEPT !.managed = managed] \in TargetState \/ target[i] = Absent
    BY <2>1 DEF TargetState
  <2>4. Absent \in TargetState /\ [tls : TargetTLS, managed : BOOLEAN] \subseteq TargetState
    BY DEF TargetState
  <2> QED
    BY <2>1, <2>2, <2>3, <2>4
       DEF User, Create, Edit, Revert, Label, Unlabel, Delete, FilterOnIngressLables
<1> SUFFICES ASSUME NEW k \in Key \ withdrawn' PROVE SafeKey(k)'
  BY DEF NothingDropped
<1>2. k \notin withdrawn /\ SafeKey(k)
  BY <1>1 DEF UserOp, NothingDropped
<1>3. UNCHANGED <<control, cStream, cCache, tCache, synced, queue, task>>
  BY <1>1 DEF UserOp, controlVars, cacheVars, workVars
<1>4. /\ Known(k)' = Known(k) /\ Handled(k)' = Handled(k)
      /\ UNCHANGED <<tCache[k], synced.target, task.ingress[k]>>
      /\ \A a \in Actor : At(a, k, "delete")' = At(a, k, "delete")
      /\ At("ingress", k, "lookup")' = At("ingress", k, "lookup")
  BY <1>3 DEF Known, Handled, Asked, At
<1>5. CASE k # i
  <2>1. UNCHANGED <<target[k], tStream[k]>>
    BY <1>1, <1>5 DEF UserOp, Types, TargetTypes
  <2> QED
    BY <1>2, <1>4, <2>1, TargetKept DEF SafeKey
<1>6. CASE k = i
  <2> DEFINE s == tStream[k]
             r == Append(s, state)
  <2>1. /\ s \in Seq(TargetState) /\ tStream'[k] = r /\ target'[k] = state
        /\ FilterOnIngressLables(target[k]) => FilterOnIngressLables(state)
    BY <1>1, <1>6 DEF UserOp, Types, TargetTypes
  <2>2. /\ Members(r) = Members(s) \cup {state}
        /\ DOMAIN r = 1..(Len(s) + 1) /\ DOMAIN s = 1..Len(s) /\ Len(s) \in Nat
        /\ r[Len(s) + 1] = state
        /\ \A j \in 1..Len(s) : r[j] = s[j]
    BY <1>1, <2>1, AppendMembers
  <2> HIDE DEF r
  <2>3. \A x \in Members(s) : FilterOnIngressLables(x) => FilterOnIngressLables(state)
    BY <1>2, <2>1 DEF SafeKey, StaysManaged
  <2>4. AllManaged(k) => AllManaged(k)'
    BY <2>1, <2>2 DEF AllManaged
  <2>5. StaysManaged(k)'
    <3>1. ASSUME NEW m \in DOMAIN r, NEW n \in DOMAIN r, m < n, FilterOnIngressLables(r[m])
          PROVE  FilterOnIngressLables(r[n])
      <4>1. m \in 1..Len(s) /\ r[m] = s[m] /\ s[m] \in Members(s)
        BY <2>2, <3>1 DEF Members
      <4>2. CASE n = Len(s) + 1
        BY <2>2, <2>3, <3>1, <4>1, <4>2
      <4>3. CASE n # Len(s) + 1
        <5>1. n \in 1..Len(s) /\ r[n] = s[n]
          BY <2>2, <4>3
        <5> QED
          BY <1>2, <2>2, <3>1, <4>1, <5>1 DEF SafeKey, StaysManaged
      <4> QED
        BY <4>2, <4>3
    <3>2. \A x \in Members(r) : FilterOnIngressLables(x) => FilterOnIngressLables(state)
      BY <2>2, <2>3
    <3>3. FilterOnIngressLables(tCache[k])' => AllManaged(k)'
      BY <1>2, <1>4, <2>4 DEF SafeKey, StaysManaged
    <3> QED
      BY <2>1, <3>1, <3>2, <3>3 DEF StaysManaged
  <2>6. Known(k)' => AllManaged(k)' /\ (synced.target => FilterOnIngressLables(tCache[k]))'
    BY <1>2, <1>4, <2>4 DEF SafeKey
  <2> QED
    BY <1>2, <1>4, <2>5, <2>6 DEF SafeKey
<1> QED
  BY <1>5, <1>6

\* A crash: what the old process had seen is in front of what is to be seen.
LEMMA RestartDropsNothing ==
  ASSUME Types, NothingDropped, Restart
  PROVE  NothingDropped'
<1> SUFFICES ASSUME NEW k \in Key \ withdrawn' PROVE SafeKey(k)'
  BY DEF NothingDropped
<1>1. k \notin withdrawn /\ SafeKey(k)
  BY DEF Restart, NothingDropped
<1> DEFINE s == tStream[k]
           r == <<tCache[k]>> \o s
           c == <<cCache[k]>> \o cStream[k]
<1>2. /\ s \in Seq(TargetState) /\ tCache[k] \in TargetState
      /\ cStream[k] \in Seq(ControlState) /\ cCache[k] \in ControlState
  BY DEF Types, TargetTypes, ControlTypes, CacheTypes
<1>3. /\ r \in Seq(TargetState) /\ DOMAIN r = 1..(Len(s) + 1)
      /\ DOMAIN s = 1..Len(s) /\ Len(s) \in Nat
      /\ r[1] = tCache[k] /\ \A i \in 1..Len(s) : r[i + 1] = s[i]
      /\ Members(r) = Members(s) \cup {tCache[k]}
      /\ Members(c) = Members(cStream[k]) \cup {cCache[k]}
  BY <1>2, PrependMembers
<1>4. /\ UNCHANGED <<target[k], control[k]>>
      /\ tStream'[k] = IF synced.target THEN r ELSE s
      /\ cStream'[k] = IF synced.control THEN c ELSE cStream[k]
      /\ tCache'[k] = Absent /\ cCache'[k] = Absent
      /\ synced'.target = FALSE
      /\ \A a \in Actor : task'[a][k] = Idle
      /\ queue' = NoQueue
  BY DEF Restart, Nothing, NotSynced, NoTask
<1>5. ~ FilterOnIngressLables(tCache[k])'
  BY <1>4 DEF FilterOnIngressLables
<1> HIDE DEF r, c
<1>6. StaysManaged(k)'
  <2>1. FilterOnIngressLables(tCache[k])
          => \A x \in Members(s) \cup {target[k]} : FilterOnIngressLables(x)
    BY <1>1 DEF SafeKey, StaysManaged, AllManaged
  <2>2. ASSUME NEW m \in DOMAIN r, NEW n \in DOMAIN r, m < n, FilterOnIngressLables(r[m])
        PROVE  FilterOnIngressLables(r[n])
    <3>1. n - 1 \in 1..Len(s) /\ r[n] = s[n - 1] /\ s[n - 1] \in Members(s)
      BY <1>3, <2>2 DEF Members
    <3>2. CASE m = 1
      BY <1>3, <2>1, <2>2, <3>1, <3>2
    <3>3. CASE m # 1
      <4>1. m - 1 \in 1..Len(s) /\ r[m] = s[m - 1] /\ m - 1 < n - 1
        BY <1>3, <2>2, <3>3
      <4> QED
        BY <1>1, <1>3, <2>2, <3>1, <4>1 DEF SafeKey, StaysManaged
    <3> QED
      BY <3>2, <3>3
  <2>3. \A x \in Members(r) : FilterOnIngressLables(x) => FilterOnIngressLables(target[k])
    BY <1>1, <1>3, <2>1 DEF SafeKey, StaysManaged
  <2>4. CASE synced.target
    BY <1>4, <1>5, <2>2, <2>3, <2>4 DEF StaysManaged
  <2>5. CASE ~ synced.target
    BY <1>1, <1>4, <1>5, <2>5 DEF SafeKey, StaysManaged
  <2> QED
    BY <2>4, <2>5
<1>7. Known(k)' => Known(k)
  BY <1>3, <1>4 DEF Known
<1>8. Known(k)' => AllManaged(k)'
  BY <1>1, <1>3, <1>4, <1>7 DEF SafeKey, AllManaged
<1>9. ~ Handled(k)' /\ "ingress" \in Actor
  BY <1>4 DEF Handled, Asked, NoQueue, At, Idle, Actor
<1> QED
  BY <1>4, <1>6, <1>8, <1>9 DEF SafeKey, At, Idle

\* The target informer goes on: what it comes to is as managed as what it leaves.
LEMMA TargetInformerDropsNothing ==
  ASSUME Types, NothingDropped, ToTarget, UNCHANGED <<task, controlVars, cCache>>
  PROVE  NothingDropped'
<1>1. PICK keys, pos, listed :
        /\ keys \subseteq Key
        /\ DOMAIN pos = keys
        /\ \A k \in keys : pos[k] \in DOMAIN tStream[k]
        /\ SeeTarget(pos, listed)
        /\ synced.target \/ keys = Key
        /\ synced' = [synced EXCEPT !.target = TRUE]
  BY DEF ToTarget
<1> SUFFICES ASSUME NEW k \in Key \ withdrawn' PROVE SafeKey(k)'
  BY DEF NothingDropped
<1>2. k \notin withdrawn /\ SafeKey(k) /\ UNCHANGED <<target[k], control[k], cStream[k]>>
  BY <1>1 DEF SeeTarget, NothingDropped, controlVars
<1> DEFINE s == tStream[k]
<1>3. s \in Seq(TargetState)
  BY DEF Types, TargetTypes
<1>4. CASE k \notin keys
  <2>1. tCache'[k] = tCache[k] /\ tStream'[k] = s /\ synced.target
    BY <1>1, <1>4 DEF SeeTarget, Seen, Unseen
  <2>2. synced'.target = synced.target
    BY <1>1, <2>1 DEF Types, CacheTypes
  <2>3. Asked(k)' => Asked(k)
    <3>1. ~ Notifies(tCache[k], tCache[k], listed)
      BY DEF Notifies, FilterOnIngressLables
    <3>2. Seen(tCache, tStream, pos)[k] = tCache[k]
      BY <1>1, <1>4 DEF Seen
    <3>3. queue \in Queues /\ "ingress" \in Actor
      BY DEF Types, WorkTypes, Actor
    <3> QED
      BY <1>1, <3>1, <3>2, <3>3 DEF SeeTarget, Enqueue, Asked, Queues
  <2> QED
    BY <1>2, <2>1, <2>2, <2>3, TargetKept DEF Known, Handled, At, SafeKey
<1>5. CASE k \in keys
  <2> DEFINE n == pos[k]
             r == SubSeq(s, n + 1, Len(s))
  <2>1. n \in DOMAIN s /\ n \in Nat /\ Len(s) \in Nat /\ n <= Len(s) /\ DOMAIN s = 1..Len(s)
    BY <1>1, <1>3, <1>5
  <2>2. tCache'[k] = s[n] /\ tStream'[k] = r /\ s[n] \in Members(s)
    BY <1>1, <1>5, <2>1 DEF SeeTarget, Seen, Unseen, Members
  <2>3. /\ r \in Seq(TargetState) /\ DOMAIN r = 1..(Len(s) - n)
        /\ \A i \in 1..(Len(s) - n) : i + n \in DOMAIN s /\ r[i] = s[i + n]
        /\ Members(r) \subseteq Members(s)
    <3> HIDE DEF n
    <3>1. /\ r \in Seq(TargetState) /\ Len(r) = Len(s) - n
          /\ \A i \in 1..(Len(s) - n) : i + n \in DOMAIN s /\ r[i] = s[i + n]
          /\ Members(r) \subseteq Members(s)
      BY <1>3, <2>1, SuffixMembers
    <3> HIDE DEF r
    <3> QED
      BY <3>1
  <2> HIDE DEF r, n
  <2>4. \A i \in DOMAIN r : FilterOnIngressLables(s[n]) => FilterOnIngressLables(r[i])
    <3>1. ASSUME NEW i \in DOMAIN r PROVE i + n \in DOMAIN s /\ n < i + n /\ r[i] = s[i + n]
      BY <2>1, <2>3
    <3> QED
      BY <1>2, <2>1, <3>1 DEF SafeKey, StaysManaged
  <2>5. StaysManaged(k)'
    <3>1. ASSUME NEW i \in DOMAIN r, NEW j \in DOMAIN r, i < j, FilterOnIngressLables(r[i])
          PROVE  FilterOnIngressLables(r[j])
      <4>1. i + n \in DOMAIN s /\ j + n \in DOMAIN s /\ i + n < j + n
            /\ r[i] = s[i + n] /\ r[j] = s[j + n]
        BY <2>1, <2>3, <3>1
      <4> QED
        BY <1>2, <3>1, <4>1 DEF SafeKey, StaysManaged
    <3>2. \A x \in Members(r) : FilterOnIngressLables(x) => FilterOnIngressLables(target[k])
      BY <1>2, <2>3 DEF SafeKey, StaysManaged
    <3>3. FilterOnIngressLables(s[n]) => FilterOnIngressLables(target[k])
                                         /\ \A x \in Members(r) : FilterOnIngressLables(x)
      BY <1>2, <2>2, <2>4 DEF SafeKey, StaysManaged, Members
    <3> QED
      BY <1>2, <2>2, <3>1, <3>2, <3>3 DEF StaysManaged, AllManaged
  <2>6. AllManaged(k) => AllManaged(k)' /\ FilterOnIngressLables(tCache[k])'
    BY <1>2, <2>2, <2>3 DEF AllManaged
  <2>7. Known(k)' => AllManaged(k)' /\ FilterOnIngressLables(tCache[k])'
    BY <1>2, <2>6 DEF SafeKey, Known
  <2>8. Handled(k)' => FilterOnIngressLables(tCache[k])'
    <3>1. FilterOnIngressLables(tCache[k]) => FilterOnIngressLables(tCache[k])'
      BY <1>2, <2>6 DEF SafeKey, StaysManaged
    <3>2. Seen(tCache, tStream, pos)[k] = tCache'[k]
      BY <1>1 DEF SeeTarget
    <3>3. queue \in Queues /\ "ingress" \in Actor
      BY DEF Types, WorkTypes, Actor
    <3>4. Handled(k)' => Handled(k) \/ Notifies(tCache[k], tCache'[k], listed)
      BY <1>1, <3>2, <3>3 DEF SeeTarget, Enqueue, Asked, Handled, At, Queues
    <3>5. Notifies(tCache[k], tCache'[k], listed) => FilterOnIngressLables(tCache'[k])
      BY <3>1 DEF Notifies
    <3> QED
      BY <1>2, <3>1, <3>4, <3>5 DEF SafeKey
  <2> QED
    BY <1>2, <2>5, <2>7, <2>8 DEF SafeKey, At
<1> QED
  BY <1>4, <1>5

LEMMA ControlInformerDropsNothing ==
  ASSUME Types, NothingDropped, ToControl
  PROVE  NothingDropped'
<1>1. PICK keys, pos :
        /\ keys \subseteq Key
        /\ DOMAIN pos = keys
        /\ \A k \in keys : pos[k] \in DOMAIN cStream[k]
        /\ SeeControl(pos)
        /\ synced' = [synced EXCEPT !.control = TRUE]
  BY DEF ToControl
<1> SUFFICES ASSUME NEW k \in Key \ withdrawn' PROVE SafeKey(k)'
  BY DEF NothingDropped
<1>2. /\ k \notin withdrawn /\ SafeKey(k)
      /\ UNCHANGED <<target[k], tStream[k], tCache[k], control[k], task>>
  BY <1>1 DEF SeeControl, NothingDropped, targetVars
<1>3. synced'.target = synced.target
  BY <1>1 DEF Types, CacheTypes
<1>4. Known(k)' => Known(k)
  <2>1. cStream[k] \in Seq(ControlState)
    BY DEF Types, ControlTypes
  <2>2. CASE k \notin keys
    <3>1. cCache'[k] = cCache[k] /\ cStream'[k] = cStream[k]
      BY <1>1, <2>2 DEF SeeControl, Seen, Unseen
    <3> QED
      BY <1>2, <3>1 DEF Known
  <2>3. CASE k \in keys
    <3>1. /\ cCache'[k] = cStream[k][pos[k]]
          /\ cStream'[k] = SubSeq(cStream[k], pos[k] + 1, Len(cStream[k]))
      BY <1>1, <2>3 DEF SeeControl, Seen, Unseen
    <3>2. cCache'[k] \in Members(cStream[k]) /\ Members(cStream'[k]) \subseteq Members(cStream[k])
      BY <1>1, <2>1, <2>3, <3>1, SuffixMembers DEF Members
    <3> QED
      BY <1>2, <3>2 DEF Known
  <2> QED
    BY <2>2, <2>3
<1>5. Asked(k)' => Asked(k)
  BY <1>1 DEF SeeControl, Enqueue, Asked, Types, WorkTypes, Queues, Actor
<1> QED
  BY <1>2, <1>3, <1>4, <1>5, TargetKept DEF Handled, At, SafeKey

LEMMA StartDropsNothing ==
  ASSUME Types, NothingDropped, NEW i \in Key, Starts(i)
  PROVE  NothingDropped'
<1> SUFFICES ASSUME NEW k \in Key \ withdrawn' PROVE SafeKey(k)'
  BY DEF NothingDropped
<1>1. /\ k \notin withdrawn /\ SafeKey(k)
      /\ UNCHANGED <<target[k], tStream[k], tCache[k], cCache[k], control[k], cStream[k],
                     synced.target>>
      /\ synced.target
  BY DEF Starts, SyncStart, CleanerStart, Take, NothingDropped, targetVars, controlVars, cacheVars
<1>2. task \in Tasks /\ queue \in Queues /\ "ingress" \in Actor /\ "cleaner" \in Actor
  BY DEF Types, WorkTypes, Actor
<1>3. Known(k)' => Known(k)
  BY <1>1 DEF Known
<1>4. Asked(k)' => Asked(k)
  BY <1>2 DEF Starts, SyncStart, CleanerStart, Asked, Queues
<1>5. CASE SyncStart(i)
  <2> DEFINE u == [Idle EXCEPT !.pc = "lookup", !.source = tCache[i]]
  <2>0. u.pc = "lookup" /\ u.source = tCache[i]
    BY DEF Idle
  <2> HIDE DEF u
  <2>1. \A a \in Actor :
          \/ task'[a][k] = task[a][k]
          \/ a = "ingress" /\ k = i /\ task'[a][k] = u
    BY <1>2, <1>5 DEF SyncStart, Tasks, u
  <2>2. k = i => Handled(k)
    BY <1>5 DEF SyncStart, Take, Handled, Asked
  <2>3. \A a \in Actor : ~ At(a, k, "delete")'
    BY <1>1, <2>0, <2>1 DEF SafeKey, At
  <2>4. At("ingress", k, "lookup")' => FilterOnIngressLables(task.ingress[k].source)'
    BY <1>1, <1>2, <2>0, <2>1, <2>2 DEF SafeKey, At
  <2>5. Handled(k)' => Handled(k)
    BY <1>4, <2>1, <2>2 DEF Handled, At
  <2> QED
    BY <1>1, <1>3, <2>3, <2>4, <2>5, TargetKept
<1>6. CASE CleanerStart(i)
  <2> DEFINE u == [Idle EXCEPT !.pc = "check", !.object = cCache[i]]
  <2>0. u.pc = "check"
    BY DEF Idle
  <2> HIDE DEF u
  <2>1. \A a \in Actor :
          \/ task'[a][k] = task[a][k]
          \/ a = "cleaner" /\ k = i /\ cCache[k] # Absent /\ task'[a][k] = u
    BY <1>2, <1>6 DEF CleanerStart, Tasks, u
  <2>2. cCache[k] # Absent => FilterOnIngressLables(tCache[k])
    BY <1>1 DEF SafeKey, Known
  <2>3. \A a \in Actor : ~ At(a, k, "delete")'
    BY <1>1, <2>0, <2>1 DEF SafeKey, At
  <2>4. At("ingress", k, "lookup")' => FilterOnIngressLables(task.ingress[k].source)'
    BY <1>1, <1>2, <2>1 DEF SafeKey, At
  <2>5. Handled(k)' => Handled(k) \/ FilterOnIngressLables(tCache[k])
    BY <1>4, <2>1, <2>2 DEF Handled, At
  <2> QED
    BY <1>1, <1>3, <2>3, <2>4, <2>5, TargetKept
<1> QED
  BY <1>5, <1>6 DEF Starts

LEMMA WorkerDropsNothing ==
  ASSUME Types, NothingDropped, NEW b \in Actor, NEW i \in Key, WorkerStep(b, i)
  PROVE  NothingDropped'
<1> SUFFICES ASSUME NEW k \in Key \ withdrawn' PROVE SafeKey(k)'
  BY DEF NothingDropped
<1>1. /\ k \notin withdrawn /\ SafeKey(k)
      /\ UNCHANGED <<target[k], tStream[k], tCache[k], cCache[k], synced.target>>
  BY DEF WorkerStep, NothingDropped, targetVars, cacheVars
<1>2. task \in Tasks /\ "ingress" \in Actor
  BY DEF Types, WorkTypes, Actor
<1>3. k = i => Handled(k) /\ FilterOnIngressLables(tCache[k])
  BY <1>1 DEF WorkerStep, Handled, SafeKey
<1>4. PICK t \in GoodTask : NextTask(b, i, t) /\ task' = [task EXCEPT ![b][i] = t]
  BY DEF WorkerStep
<1>5. \A a \in Actor : task'[a][k] = task[a][k] \/ (a = b /\ k = i /\ task'[a][k] = t)
  BY <1>2, <1>4 DEF Tasks
<1>6. Known(k)' => Known(k) \/ k = i
  <2>1. k # i => UNCHANGED <<control[k], cStream[k]>>
    BY DEF WorkerStep, Writes, Deletes, Store, Types, ControlTypes, controlVars
  <2> QED
    BY <1>1, <2>1 DEF Known
<1>7. Handled(k)' => Handled(k)
  BY <1>3, <1>5 DEF WorkerStep, Handled, At
<1>8. \A a \in Actor : ~ At(a, k, "delete")'
  <2>1. k = i => ~ NoTargetFor(b, i)
    BY <1>1, <1>3 DEF NoTargetFor, SafeKey, FilterOnIngressLables
  <2> QED
    BY <1>1, <1>4, <1>5, <2>1 DEF NextTask, SafeKey, At
<1>9. At("ingress", k, "lookup")' => FilterOnIngressLables(task.ingress[k].source)'
  BY <1>1, <1>2, <1>4, <1>5 DEF NextTask, SafeKey, At
<1> QED
  BY <1>1, <1>3, <1>6, <1>7, <1>8, <1>9, TargetKept

LEMMA NextDropsNothing ==
  ASSUME Types, NothingDropped, [Next]_vars
  PROVE  NothingDropped'
<1>1. CASE UNCHANGED vars \/ Minor
  <2> SUFFICES ASSUME NEW k \in Key \ withdrawn' PROVE SafeKey(k)'
    BY DEF NothingDropped
  <2>1. /\ k \notin withdrawn /\ SafeKey(k)
        /\ UNCHANGED <<target[k], tStream[k], tCache[k], cCache[k], control[k], cStream[k],
                       synced.target, task>>
    BY <1>1 DEF vars, Minor, Issue, Add, NothingDropped, targetVars, controlVars, cacheVars,
                workVars
  <2>2. Asked(k)' => Asked(k)
    <3>1. queue \in Queues /\ "ingress" \in Actor
      BY DEF Types, WorkTypes, Actor
    <3>2. ASSUME NEW a \in Actor, NEW i \in Key, Add(a, i) PROVE Asked(k)' => Asked(k)
      BY <3>1, <3>2 DEF Add, Asked, Queues
    <3>3. UNCHANGED queue => (Asked(k)' => Asked(k))
      BY DEF Asked
    <3> QED
      BY <1>1, <3>2, <3>3 DEF vars, Minor, Issue, workVars
  <2> QED
    BY <2>1, <2>2, TargetKept DEF Known, Handled, At, SafeKey
<1>2. CASE Next
  BY <1>1, <1>2, NextSteps, UserDropsNothing, RestartDropsNothing, TargetInformerDropsNothing,
     ControlInformerDropsNothing, StartDropsNothing, WorkerDropsNothing
<1> QED
  BY <1>1, <1>2

\* Nothing but a step of a worker changes a control Ingress.
LEMMA WorkersChangeControl ==
  ASSUME Types, [Next]_vars, control' # control
  PROVE  \E a \in Actor, i \in Key : WorkerStep(a, i)
<1>1. Next
  BY DEF vars
<1>2. /\ ~ Restart /\ ~ ToTarget /\ ~ ToControl /\ ~ Minor
      /\ \A i \in Key : ~ User(i) /\ ~ Starts(i)
  BY DEF Restart, ToTarget, ToControl, SeeTarget, SeeControl, Minor, Issue, Add, User,
         Create, Edit, Revert, Label, Unlabel, Delete, UserOp, Starts, SyncStart,
         CleanerStart, controlVars
<1> QED
  BY <1>1, <1>2, NextSteps

\* Only a clean-up removes a control Ingress.
LEMMA OnlyDeletesRemove ==
  ASSUME Types, [Next]_vars, NEW k \in Key, control[k] # Absent, control'[k] = Absent
  PROVE  \E a \in Actor : At(a, k, "delete")
<1>1. control' # control
  OBVIOUS
<1>2. PICK a \in Actor, i \in Key : WorkerStep(a, i)
  BY <1>1, WorkersChangeControl
<1>3. ~ Writes(a, i)
  <2>1. SUFFICES ASSUME Writes(a, i) PROVE FALSE
    OBVIOUS
  <2>2. task[a][i].object \in ControlIngress /\ rev[i] \in Nat /\ i = k
        /\ control'[k] = [task[a][i].object EXCEPT !.rv = rev[i] + 1]
    BY <2>1 DEF Writes, At, Store, Types, WorkTypes, ControlTypes, Tasks, GoodTask
  <2>3. control'[k] \in ControlIngress
    BY <2>2 DEF ControlIngress
  <2> QED
    BY <2>3, AbsentAssumption
<1> QED
  BY <1>1, <1>2, <1>3 DEF WorkerStep, Deletes, Store, Types, ControlTypes, controlVars

\* A control Ingress is deleted only when a user has deleted or unlabelled its
\* target: not for a stale cache, a lost answer, a broken watch, a crash or a new
\* process that is still filling its caches (pkg/cleaner/controller.go:71,
\* pkg/ingress/sync.go:121).  No list is older than what the process, or the one
\* before it, has seen.
THEOREM NothingManagedIsDropped == Spec => NeverDropsManaged
<1>1. Init => Types /\ NothingDropped
  BY InitTypes, InitDropsNothing
<1>2. Types /\ NothingDropped /\ [Next]_vars => Types' /\ NothingDropped'
  BY NextTypes, NextDropsNothing
<1>3. Types /\ NothingDropped /\ [Next]_vars
        => [\A k \in Key : control[k] # Absent /\ control'[k] = Absent => k \in withdrawn]_vars
  BY OnlyDeletesRemove DEF NothingDropped, SafeKey
<1> QED
  BY <1>1, <1>2, <1>3, PTL DEF Spec, NeverDropsManaged

-----------------------------------------------------------------------------
\* No update takes back the other controller's work.  A state of a control
\* Ingress that somebody holds and that has the current version is the current
\* state; what the holder goes on to write differs in its own fields only.

\* A state s of control Ingress k that a watch or a cache shows.
Shown(k, s) ==
  s # Absent => /\ s.rv <= rev[k]
                /\ control[k] # Absent /\ s.rv = control[k].rv => s = control[k]

\* What the cleaner and Sync keep of the one they copied.
CleanerHolds(k) ==
  LET o == task.cleaner[k].object IN
  task.cleaner[k].pc \in {"check", "update"} =>
    /\ o.rv <= rev[k]
    /\ control[k] # Absent /\ o.rv = control[k].rv => o.tls = control[k].tls
SyncHolds(k) ==
  LET o == task.ingress[k].object IN
  At("ingress", k, "update") =>
    /\ o.rv <= rev[k]
    /\ control[k] # Absent /\ o.rv = control[k].rv => o.settings = control[k].settings

VersionedKey(k) ==
  /\ Shown(k, control[k])
  /\ Shown(k, cCache[k])
  /\ \A s \in Members(cStream[k]) : Shown(k, s)
  /\ CleanerHolds(k)
  /\ SyncHolds(k)

Versioned == \A k \in Key : VersionedKey(k)

LEMMA InitVersioned == Init => Versioned
<1> SUFFICES ASSUME Init, NEW k \in Key PROVE VersionedKey(k)
  BY DEF Versioned
<1>1. /\ control[k] = Absent /\ cCache[k] = Absent /\ cStream[k] = <<Absent>>
      /\ task.ingress[k] = Idle /\ task.cleaner[k] = Idle
  BY DEF Init, Nothing, NoTask, Actor
<1>2. Members(<<Absent>>) = {Absent}
  BY DEF Members
<1> QED
  BY <1>1, <1>2 DEF VersionedKey, Shown, CleanerHolds, SyncHolds, At, Idle

\* A step that leaves the control Ingress and its versions alone.
LEMMA VersionsKept ==
  ASSUME NEW k \in Key, VersionedKey(k), UNCHANGED <<control[k], rev[k]>>,
         {cCache'[k]} \cup Members(cStream'[k]) \subseteq {Absent, cCache[k]} \cup Members(cStream[k]),
         CleanerHolds(k)', SyncHolds(k)'
  PROVE  VersionedKey(k)'
<1>1. \A s : Shown(k, s) => Shown(k, s)'
  BY DEF Shown
<1>2. Shown(k, Absent)'
  BY DEF Shown
<1> QED
  BY <1>1, <1>2 DEF VersionedKey

LEMMA HoldsKept ==
  ASSUME NEW k \in Key, VersionedKey(k), UNCHANGED <<control[k], rev[k], task>>
  PROVE  CleanerHolds(k)' /\ SyncHolds(k)'
BY DEF VersionedKey, CleanerHolds, SyncHolds, At

LEMMA ViewsVersioned ==
  ASSUME Types, Versioned, Restart \/ ToControl
  PROVE  Versioned'
<1> SUFFICES ASSUME NEW k \in Key PROVE VersionedKey(k)'
  BY DEF Versioned
<1>1. VersionedKey(k) /\ cStream[k] \in Seq(ControlState) /\ cCache[k] \in ControlState
  BY DEF Versioned, Types, ControlTypes, CacheTypes
<1>2. CASE Restart
  <2>1. UNCHANGED <<control[k], rev[k]>> /\ cCache'[k] = Absent
        /\ cStream'[k] \in {<<cCache[k]>> \o cStream[k], cStream[k]}
        /\ task'.ingress[k] = Idle /\ task'.cleaner[k] = Idle
    BY <1>2 DEF Restart, Nothing, NoTask, Actor
  <2>2. Members(<<cCache[k]>> \o cStream[k]) = Members(cStream[k]) \cup {cCache[k]}
    BY <1>1, PrependMembers
  <2>3. CleanerHolds(k)' /\ SyncHolds(k)'
    BY <2>1 DEF CleanerHolds, SyncHolds, At, Idle
  <2> QED
    BY <1>1, <2>1, <2>2, <2>3, VersionsKept
<1>3. CASE ToControl
  <2>1. PICK keys, pos :
          /\ keys \subseteq Key
          /\ DOMAIN pos = keys
          /\ \A i \in keys : pos[i] \in DOMAIN cStream[i]
          /\ SeeControl(pos)
    BY <1>3 DEF ToControl
  <2>2. {cCache'[k]} \cup Members(cStream'[k]) \subseteq {cCache[k]} \cup Members(cStream[k])
    <3>1. CASE k \notin keys
      BY <2>1, <3>1 DEF SeeControl, Seen, Unseen
    <3>2. CASE k \in keys
      <4>1. /\ cCache'[k] = cStream[k][pos[k]]
            /\ cStream'[k] = SubSeq(cStream[k], pos[k] + 1, Len(cStream[k]))
        BY <2>1, <3>2 DEF SeeControl, Seen, Unseen
      <4>2. cCache'[k] \in Members(cStream[k]) /\ Members(cStream'[k]) \subseteq Members(cStream[k])
        BY <1>1, <2>1, <3>2, <4>1, SuffixMembers DEF Members
      <4> QED
        BY <4>2
    <3> QED
      BY <3>1, <3>2
  <2>3. UNCHANGED <<control[k], rev[k], task>>
    BY <2>1 DEF SeeControl
  <2> QED
    BY <1>1, <2>2, <2>3, VersionsKept, HoldsKept
<1> QED
  BY <1>2, <1>3

LEMMA StartVersioned ==
  ASSUME Types, Versioned, NEW i \in Key, Starts(i)
  PROVE  Versioned'
<1> SUFFICES ASSUME NEW k \in Key PROVE VersionedKey(k)'
  BY DEF Versioned
<1>1. VersionedKey(k) /\ UNCHANGED <<control[k], rev[k], cCache[k], cStream[k]>>
      /\ task \in Tasks
  BY DEF Versioned, Starts, SyncStart, CleanerStart, controlVars, cacheVars, Types, WorkTypes
<1>2. \A s : Shown(k, s) => Shown(k, s)'
  BY <1>1 DEF Shown
<1>3. SyncHolds(k)'
  <2>1. task'.ingress[k] = task.ingress[k] \/ task'.ingress[k].pc = "lookup"
    BY <1>1 DEF Starts, SyncStart, CleanerStart, Tasks, Idle, Actor
  <2> QED
    BY <1>1, <2>1 DEF VersionedKey, SyncHolds, At
<1>4. CleanerHolds(k)'
  <2> DEFINE u == [Idle EXCEPT !.pc = "check", !.object = cCache[i]]
  <2>1. u.object = cCache[i]
    BY DEF Idle
  <2>2. \/ task'.cleaner[k] = task.cleaner[k]
        \/ k = i /\ cCache[k] # Absent /\ task'.cleaner[k] = u
    <3> HIDE DEF u
    <3>1. CASE SyncStart(i)
      BY <1>1, <3>1 DEF SyncStart, Tasks, Actor
    <3>2. CASE CleanerStart(i)
      BY <1>1, <3>2 DEF CleanerStart, Tasks, Actor, u
    <3> QED
      BY <3>1, <3>2 DEF Starts
  <2> HIDE DEF u
  <2> QED
    BY <1>1, <2>1, <2>2 DEF VersionedKey, Shown, CleanerHolds
<1> QED
  BY <1>1, <1>2, <1>3, <1>4 DEF VersionedKey

\* A write gives a version nobody holds yet.
LEMMA WorkerVersioned ==
  ASSUME Types, Versioned, NEW b \in Actor, NEW i \in Key, WorkerStep(b, i)
  PROVE  Versioned'
<1> SUFFICES ASSUME NEW k \in Key PROVE VersionedKey(k)'
  BY DEF Versioned
<1>1. /\ VersionedKey(k) /\ cCache'[k] = cCache[k]
      /\ task \in Tasks /\ rev[k] \in Nat /\ "ingress" \in Actor /\ "cleaner" \in Actor
      /\ control[k] \in ControlState /\ cCache[k] \in ControlState
      /\ cStream[k] \in Seq(ControlState)
  BY DEF Versioned, WorkerStep, cacheVars, Types, WorkTypes, ControlTypes, CacheTypes, Actor
<1>2. PICK t \in GoodTask : NextTask(b, i, t) /\ task' = [task EXCEPT ![b][i] = t]
  BY DEF WorkerStep
<1>3. \A a \in Actor : task'[a][k] = task[a][k] \/ (a = b /\ k = i /\ task'[a][k] = t)
  BY <1>1, <1>2 DEF Tasks
<1>4. task' \in Tasks
  BY <1>1, <1>2, SetTask
<1>5. \/ control'[k] = control[k] /\ rev'[k] = rev[k] /\ cStream'[k] = cStream[k]
      \/ control'[k] = Absent /\ rev'[k] = rev[k] /\ cStream'[k] = Append(cStream[k], Absent)
      \/ /\ control'[k].rv = rev[k] + 1 /\ rev'[k] = rev[k] + 1
         /\ control'[k] \in ControlState
         /\ cStream'[k] = Append(cStream[k], control'[k])
  <2>1. CASE UNCHANGED controlVars
    BY <2>1 DEF controlVars
  <2>2. CASE Deletes(b, i)
    BY <2>2 DEF Deletes, Store, Types, ControlTypes
  <2>3. CASE Writes(b, i)
    <3>1. task[b][i].object \in ControlIngress
      BY <1>1, <2>3 DEF Writes, At, Tasks, GoodTask
    <3>2. rev[i] \in Nat
      BY DEF Types, ControlTypes
    <3> DEFINE o == [task[b][i].object EXCEPT !.rv = rev[i] + 1]
    <3>3. o.rv = rev[i] + 1 /\ o \in ControlState
      BY <3>1, <3>2 DEF ControlIngress, ControlState
    <3>4. /\ control' = [control EXCEPT ![i] = o]
          /\ cStream' = [cStream EXCEPT ![i] = Append(@, o)]
          /\ rev' = [rev EXCEPT ![i] = @ + 1]
      BY <2>3 DEF Writes, Store
    <3> HIDE DEF o
    <3> QED
      BY <3>3, <3>4 DEF Types, ControlTypes
  <2> QED
    BY <2>1, <2>2, <2>3 DEF WorkerStep
<1>6. Absent \in ControlState
  BY DEF ControlState
<1>7. Members(cStream'[k]) \subseteq Members(cStream[k]) \cup {Absent, control'[k]}
  <2>1. \A x \in ControlState :
          Members(Append(cStream[k], x)) = Members(cStream[k]) \cup {x}
    BY <1>1, AppendMembers
  <2> QED
    BY ZenonT(60), <1>5, <1>6, <2>1
<1>8. \A s \in ControlState : s = Absent \/ s.rv \in Nat
  BY DEF ControlState, ControlIngress
<1>9. \A s \in ControlState : Shown(k, s) => Shown(k, s)'
  BY <1>1, <1>5, <1>8 DEF Shown
<1>10. Shown(k, Absent)' /\ Shown(k, control[k])'
  BY <1>1, <1>5 DEF Shown, VersionedKey
<1>11. \A s \in Members(cStream[k]) : s \in ControlState
  BY <1>1 DEF Members
<1>12. CleanerHolds(k)'
  <2> DEFINE o == task'.cleaner[k].object
  <2>1. CASE task'.cleaner[k].pc \in {"check", "update"}
    <3>1. o \in ControlIngress /\ o.rv \in Nat
      BY <1>1, <1>4, <2>1 DEF Tasks, GoodTask, ControlIngress
    <3>2. /\ o.rv <= rev[k]
          /\ control[k] # Absent /\ o.rv = control[k].rv => o.tls = control[k].tls
      <4>1. CASE task'.cleaner[k] = task.cleaner[k]
        BY <1>1, <2>1, <4>1 DEF VersionedKey, CleanerHolds
      <4>2. CASE b = "cleaner" /\ k = i /\ task'.cleaner[k] = t
        <5>1. /\ At("cleaner", k, "check")
              /\ t.object.rv = task.cleaner[k].object.rv
              /\ t.object.tls = task.cleaner[k].object.tls
          BY <1>2, <2>1, <4>2 DEF NextTask
        <5> QED
          BY <1>1, <4>2, <5>1 DEF VersionedKey, CleanerHolds, At
      <4> QED
        BY <1>1, <1>3, <4>1, <4>2
    <3> QED
      BY <1>1, <1>5, <3>1, <3>2 DEF CleanerHolds
  <2> QED
    BY <2>1 DEF CleanerHolds
<1>13. SyncHolds(k)'
  <2> DEFINE o == task'.ingress[k].object
  <2>1. CASE task'.ingress[k].pc = "update"
    <3>1. o \in ControlIngress /\ o.rv \in Nat
      BY <1>1, <1>4, <2>1 DEF Tasks, GoodTask, ControlIngress
    <3>2. /\ o.rv <= rev[k]
          /\ control[k] # Absent /\ o.rv = control[k].rv => o.settings = control[k].settings
      <4>1. CASE task'.ingress[k] = task.ingress[k]
        BY <1>1, <2>1, <4>1 DEF VersionedKey, SyncHolds, At
      <4>2. CASE b = "ingress" /\ k = i /\ task'.ingress[k] = t
        <5>1. /\ cCache[k] # Absent
              /\ t.object.rv = cCache[k].rv
              /\ t.object.settings = cCache[k].settings
          BY <1>2, <2>1, <4>2 DEF NextTask
        <5> QED
          BY <1>1, <4>2, <5>1 DEF VersionedKey, Shown
      <4> QED
        BY <1>1, <1>3, <4>1, <4>2
    <3> QED
      BY <1>1, <1>5, <3>1, <3>2 DEF SyncHolds
  <2> QED
    BY <2>1 DEF SyncHolds, At
<1>14. Shown(k, cCache[k])'
  BY <1>1, <1>9 DEF VersionedKey
<1>15. (\A s \in Members(cStream[k]) : Shown(k, s))'
  <2>1. \A s \in Members(cStream[k]) : Shown(k, s)'
    BY <1>1, <1>9, <1>11 DEF VersionedKey
  <2> QED
    BY <1>7, <1>10, <2>1
<1> QED
  BY <1>10, <1>12, <1>13, <1>14, <1>15 DEF VersionedKey

LEMMA NextVersioned ==
  ASSUME Types, Versioned, [Next]_vars
  PROVE  Versioned'
<1>1. CASE \/ UNCHANGED vars \/ Minor \/ \E i \in Key : User(i)
           \/ ToTarget /\ UNCHANGED <<task, controlVars, cCache>>
  <2> SUFFICES ASSUME NEW k \in Key PROVE VersionedKey(k)'
    BY DEF Versioned
  <2>1. VersionedKey(k) /\ UNCHANGED <<control[k], rev[k], cCache[k], cStream[k], task>>
    BY <1>1 DEF vars, Minor, Issue, Add, User, Create, Edit, Revert, Label, Unlabel, Delete,
                UserOp, Versioned, controlVars, cacheVars, workVars
  <2> QED
    BY <2>1, VersionsKept, HoldsKept
<1>2. CASE Next
  BY <1>1, <1>2, NextSteps, ViewsVersioned, StartVersioned, WorkerVersioned
<1> QED
  BY <1>1, <1>2

\* An update that replaces a control Ingress keeps the other controller's field.
LEMMA UpdateKeeps ==
  ASSUME Types, Versioned, [Next]_vars, NEW k \in Key,
         control[k] # Absent, control'[k] \notin {Absent, control[k]}
  PROVE  /\ At("cleaner", k, "update") /\ task'.cleaner[k] # task.cleaner[k]
              => control'[k].tls = control[k].tls
         /\ At("ingress", k, "update") /\ task'.ingress[k] # task.ingress[k]
              => control'[k].settings = control[k].settings
<1>1. control' # control
  OBVIOUS
<1>2. PICK b \in Actor, i \in Key : WorkerStep(b, i)
  BY <1>1, WorkersChangeControl
<1>3. Writes(b, i) /\ i = k
  BY <1>1, <1>2 DEF WorkerStep, Writes, Deletes, Store, Types, ControlTypes, controlVars
<1> DEFINE o == task[b][k].object
<1>4. /\ At(b, k, "update") /\ IsCurrent(k, o) /\ o \in ControlIngress
      /\ control'[k] = [o EXCEPT !.rv = rev[k] + 1]
      /\ VersionedKey(k)
  BY <1>3 DEF Writes, Store, At, Versioned, Types, WorkTypes, ControlTypes, Tasks, GoodTask
<1>5. control'[k].tls = o.tls /\ control'[k].settings = o.settings
  BY <1>4 DEF ControlIngress
<1>6. \A a \in Actor : task'[a][k] # task[a][k] => a = b
  BY <1>2 DEF WorkerStep, Types, WorkTypes, Tasks
<1>7. b = "cleaner" => o.tls = control[k].tls
  BY <1>4 DEF VersionedKey, CleanerHolds, IsCurrent, At
<1>8. b = "ingress" => o.settings = control[k].settings
  BY <1>4 DEF VersionedKey, SyncHolds, IsCurrent, At
<1> QED
  BY <1>5, <1>6, <1>7, <1>8 DEF Actor

\* Of two workers that update one control Ingress from cached copies, the one
\* that comes second writes nothing: the cleaner never brings back an old TLS
\* section, and Sync never brings back old issuer annotations
\* (pkg/cleaner/controller.go:205, pkg/ingress/sync.go:184).
THEOREM UpdatesAreNotLost == Spec => UpdatesKeepTheOthersWork
<1>1. Init => Types /\ Versioned
  BY InitTypes, InitVersioned
<1>2. Types /\ Versioned /\ [Next]_vars => Types' /\ Versioned'
  BY NextTypes, NextVersioned
<1>3. Types /\ Versioned /\ [Next]_vars =>
        [\A k \in Key : control[k] # Absent /\ control'[k] \notin {Absent, control[k]} =>
           /\ At("cleaner", k, "update") /\ task'.cleaner[k] # task.cleaner[k]
                => control'[k].tls = control[k].tls
           /\ At("ingress", k, "update") /\ task'.ingress[k] # task.ingress[k]
                => control'[k].settings = control[k].settings]_vars
  BY UpdateKeeps
<1> QED
  BY <1>1, <1>2, <1>3, PTL DEF Spec, UpdatesKeepTheOthersWork
=============================================================================
