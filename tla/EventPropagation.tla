-------------------------- MODULE EventPropagation --------------------------
(***************************************************************************)
(* The event controller: how what Cert-Manager says of a Certificate       *)
(* reaches the Ingress in the target cluster, with one event and one       *)
(* process that crashes and starts again.                                  *)
(*                                                                         *)
(* A cluster's object is the sequence of its states; its resourceVersion   *)
(* is a position in it, and a cache is the position it has got to.         *)
(***************************************************************************)
EXTENDS Integers, Sequences

CONSTANTS
  MaxOccurrences,  \* bound: times the event occurs
  MaxExpiries,     \* bound: times the event is removed
  MaxChanges,      \* bound: states of the Certificate and of the Ingress
  MaxFaults,       \* bound: requests or answers that are lost
  MaxCrashes       \* bound: crashes

VARIABLES
  event,        \* event[v]: the event's Count, 0 if there is none, and the count
                \*   annotation, None if it has no annotations
  certificate,  \* certificate[v]: is there the Certificate, owned by an Ingress
  ingress,      \* ingress[v]: is there that Ingress in the target cluster
  occurred,     \* how often the event occurred
  up,           \* the process runs the event controller
  seen,         \* seen[o]: version in the cache for o, 0 before its list
  queue,        \* the ways in which the key is in the queue
  task,         \* where Sync is, the version it read
  replayed,     \* history: counts the recorder of the target cluster got
  budget        \* the bounded events that have happened

clusterVars == <<event, certificate, ingress, occurred>>
vars == <<event, certificate, ingress, occurred, up, seen, queue, task, replayed, budget>>

None == -1
Gone == [count |-> 0, mark |-> None]
Unlisted == [event |-> 0, certificate |-> 0, ingress |-> 0]
Idle == [pc |-> "idle", version |-> 0]

Init ==
  /\ event = <<Gone>>
  /\ certificate \in {<<FALSE>>, <<TRUE>>}
  /\ ingress \in {<<FALSE>>, <<TRUE>>}
  /\ occurred = 0
  /\ up = FALSE
  /\ seen = Unlisted
  /\ queue = {}
  /\ task = Idle
  /\ replayed = {}
  /\ budget = [expiries |-> 0, faults |-> 0, crashes |-> 0]

Spend(what, max) ==
  /\ budget[what] < max
  /\ budget' = [budget EXCEPT ![what] = @ + 1]

Last(history) == history[Len(history)]

-----------------------------------------------------------------------------
\* The clusters.

\* Cert-Manager's recorder: a patch of the count, or the event anew.
Occur ==
  /\ occurred < MaxOccurrences
  /\ occurred' = occurred + 1
  /\ event' = Append(event, [Last(event) EXCEPT !.count = occurred + 1])
  /\ UNCHANGED <<certificate, ingress, up, seen, queue, task, replayed, budget>>

Expire ==
  /\ Last(event) # Gone
  /\ Spend("expiries", MaxExpiries)
  /\ event' = Append(event, Gone)
  /\ UNCHANGED <<certificate, ingress, occurred, up, seen, queue, task, replayed>>

ChangeCertificate ==
  /\ Len(certificate) < MaxChanges
  /\ certificate' = Append(certificate, ~ Last(certificate))
  /\ UNCHANGED <<event, ingress, occurred, up, seen, queue, task, replayed, budget>>

ChangeIngress ==
  /\ Len(ingress) < MaxChanges
  /\ ingress' = Append(ingress, ~ Last(ingress))
  /\ UNCHANGED <<event, certificate, occurred, up, seen, queue, task, replayed, budget>>

-----------------------------------------------------------------------------
\* The process and its informers.

Start ==
  /\ ~ up
  /\ up' = TRUE
  /\ UNCHANGED <<clusterVars, seen, queue, task, replayed, budget>>

Crash ==
  /\ up
  /\ Spend("crashes", MaxCrashes)
  /\ up' = FALSE
  /\ seen' = Unlisted
  /\ queue' = {}
  /\ task' = Idle
  /\ UNCHANGED <<clusterVars, replayed>>

\* The count annotation is compared as a number, if there is one.  The mutant takes
\* every annotated event for a replayed one.
OnAddUnmarked(new) == new.mark = None
OnAdd(new) == new.mark = None \/ new.count > new.mark

OnUpdate(old, new) == old.count # new.count

\* EventHandler: a deletion is ignored, and a resync shows no new count.
Notifies(old, new) ==
  IF old = Gone THEN new # Gone /\ OnAdd(new) ELSE new # Gone /\ OnUpdate(old, new)

\* What the cache had when it shows version v of the event.
Shown(v) == IF v = 0 THEN Gone ELSE event[v]

\* AddRateLimited waits; an entry that is due stays for the worker.
Hand(notify) == queue' = IF notify THEN queue \cup {"delayed"} ELSE queue

\* A list, the next event of the watch, or a new list.
ObserveEvent ==
  /\ up
  /\ \E v \in seen.event + 1 .. Len(event) :
       /\ seen' = [seen EXCEPT !.event = v]
       /\ Hand(Notifies(Shown(seen.event), event[v]))
  /\ UNCHANGED <<clusterVars, up, task, replayed, budget>>

ObserveCertificate ==
  /\ up
  /\ \E v \in seen.certificate + 1 .. Len(certificate) :
       seen' = [seen EXCEPT !.certificate = v]
  /\ UNCHANGED <<clusterVars, up, queue, task, replayed, budget>>

ObserveIngress ==
  /\ up
  /\ \E v \in seen.ingress + 1 .. Len(ingress) : seen' = [seen EXCEPT !.ingress = v]
  /\ UNCHANGED <<clusterVars, up, queue, task, replayed, budget>>

\* The delay of the rate limiter is over.
BecomeDue ==
  /\ "delayed" \in queue
  /\ queue' = {"due"}
  /\ UNCHANGED <<clusterVars, up, seen, task, replayed, budget>>

-----------------------------------------------------------------------------
\* Sync.

\* The informers whose lists Start waits for.  The mutant leaves out the Ingresses,
\* as the secret controller does.
SyncedForWatches == seen.event # 0 /\ seen.certificate # 0
Synced == \A o \in DOMAIN seen : seen[o] # 0

\* An error: the key comes again.  The mutant repeats the write as it was.
RetryWrite ==
  /\ UNCHANGED task
  /\ Hand(FALSE)
Retry ==
  /\ task' = Idle
  /\ Hand(TRUE)

\* EventLister; an event that is not there is an error.  The mutant does not look at
\* it.
ReadEventUnchecked ==
  /\ Synced
  /\ "due" \in queue
  /\ task = Idle
  /\ queue' = queue \ {"due"}
  /\ task' = [pc |-> "replay", version |-> seen.event]
  /\ UNCHANGED <<clusterVars, up, seen, replayed, budget>>
ReadEvent ==
  /\ Synced
  /\ "due" \in queue
  /\ task = Idle
  /\ IF event[seen.event] = Gone
     THEN /\ queue' = (queue \ {"due"}) \cup {"delayed"}
          /\ UNCHANGED task
     ELSE /\ queue' = queue \ {"due"}
          /\ task' = [pc |-> "replay", version |-> seen.event]
  /\ UNCHANGED <<clusterVars, up, seen, replayed, budget>>

HasCertificate == seen.certificate # 0 /\ certificate[seen.certificate]
HasIngress == seen.ingress # 0 /\ ingress[seen.ingress]

\* A missing Certificate is an error, a missing Ingress ends it; else the recorder
\* gets the event.  The mutant leaves that for later.
ReplayLater ==
  /\ task.pc = "replay"
  /\ \/ /\ ~ HasCertificate
        /\ Retry
     \/ /\ HasCertificate /\ ~ HasIngress
        /\ task' = Idle
        /\ UNCHANGED queue
     \/ /\ HasCertificate /\ HasIngress
        /\ task' = [task EXCEPT !.pc = "mark"]
        /\ UNCHANGED queue
  /\ UNCHANGED <<clusterVars, up, seen, replayed, budget>>
Replay ==
  /\ task.pc = "replay"
  /\ \/ /\ ~ HasCertificate
        /\ Retry
        /\ UNCHANGED replayed
     \/ /\ HasCertificate /\ ~ HasIngress
        /\ task' = Idle
        /\ UNCHANGED <<queue, replayed>>
     \/ /\ HasCertificate /\ HasIngress
        /\ replayed' = replayed \cup {event[task.version].count}
        /\ task' = [task EXCEPT !.pc = "mark"]
        /\ UNCHANGED queue
  /\ UNCHANGED <<clusterVars, up, seen, budget>>

\* Update with the version of the cache.  A write that changes nothing leaves the
\* version.
IsCurrent(v) == v = Len(event)

Annotated(v) == [event[v] EXCEPT !.mark = event[v].count]

Write == event' = IF Last(event) = Annotated(task.version) THEN event
                  ELSE Append(event, Annotated(task.version))

Mark ==
  /\ task.pc = "mark"
  /\ IF IsCurrent(task.version)
     THEN /\ Write
          /\ task' = Idle
          /\ UNCHANGED queue
     ELSE /\ Retry
          /\ UNCHANGED event
  /\ UNCHANGED <<certificate, ingress, occurred, up, seen, replayed, budget>>

\* The request is lost, or took effect and its answer is lost.
LoseRequest ==
  /\ task.pc = "mark"
  /\ Spend("faults", MaxFaults)
  /\ Retry
  /\ \/ UNCHANGED event
     \/ IsCurrent(task.version) /\ Write
  /\ UNCHANGED <<certificate, ingress, occurred, up, seen, replayed>>

-----------------------------------------------------------------------------
Sync == ReadEvent \/ Replay \/ Mark

Next ==
  \/ Occur
  \/ Expire
  \/ ChangeCertificate
  \/ ChangeIngress
  \/ Start
  \/ Crash
  \/ ObserveEvent
  \/ ObserveCertificate
  \/ ObserveIngress
  \/ BecomeDue
  \/ Sync
  \/ LoseRequest

Spec == Init /\ [][Next]_vars

\* Informers, the queue and the workers run.
Fairness ==
  /\ WF_vars(ObserveEvent)
  /\ WF_vars(ObserveCertificate)
  /\ WF_vars(ObserveIngress)
  /\ WF_vars(BecomeDue)
  /\ WF_vars(Sync)

FairSpec == Spec /\ Fairness

-----------------------------------------------------------------------------
TypeOK ==
  /\ event \in Seq([count : Nat, mark : Nat \cup {None}])
  /\ certificate \in Seq(BOOLEAN)
  /\ ingress \in Seq(BOOLEAN)
  /\ occurred \in Nat
  /\ up \in BOOLEAN
  /\ seen \in [event : 0..Len(event), certificate : 0..Len(certificate),
               ingress : 0..Len(ingress)]
  /\ queue \subseteq {"delayed", "due"}
  /\ task \in [pc : {"idle", "replay", "mark"}, version : 0..Len(event)]
  /\ replayed \subseteq 1..occurred
  /\ budget \in [{"expiries", "faults", "crashes"} -> Nat]

\* The annotation never says more than what happened: a count that is annotated was
\* given to the target cluster's recorder before, by this process or one that
\* crashed (events/sync.go:140-147).
MarkIsHonest ==
  \A v \in 1..Len(event) : event[v].mark # None => event[v].mark \in replayed

\* The cached event has an occurrence nobody replayed, and the Ingress was there all
\* the time: the key is in the queue, or a worker is about to replay it.  So it is
\* after a start as well, when only OnAdd's test of the annotation tells
\* (events/eventhandler.go:33-53).
UnreplayedIsQueued ==
  /\ up
  /\ Shown(seen.event) # Gone
  /\ Shown(seen.event).count \notin replayed
  /\ \A v \in 1..Len(ingress) : ingress[v]
  => \/ queue # {}
     \/ task.pc = "replay" /\ event[task.version].count = Shown(seen.event).count

IngressStays == \A v \in seen.ingress..Len(ingress) : v # 0 => ingress[v]

\* An occurrence that is news to a process is replayed, also when the Certificate comes
\* late, when requests are lost and when a process before this one crashed anywhere
\* in Sync (events/eventhandler.go:33-53, events/sync.go:111-156).
OccurrenceIsReplayed ==
  \A c \in 1..MaxOccurrences :
    (up /\ Last(event).count = c /\ Shown(seen.event).count # c /\ IngressStays)
      ~> (c \in replayed \/ ~ up \/ Last(event).count # c \/ ~ IngressStays
            \/ ~ Last(certificate))

\* The controller does not feed itself: its own annotation and the conflicts it meets
\* do not keep the key in the queue.  Only an event or a Certificate that is gone
\* does, and then for ever (events/sync.go:117-124).
QueueSettles ==
  []<>(\/ queue = {} /\ task = Idle
       \/ Last(event) = Gone
       \/ ~ Last(certificate))
=============================================================================
