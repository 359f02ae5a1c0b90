----------------------- MODULE EventPropagationProofs -----------------------
(***************************************************************************)
(* The safety of EventPropagation for any number of occurrences, crashes   *)
(* and faults: what the annotation says, and that nothing the process has  *)
(* seen is left out.                                                       *)
(***************************************************************************)
EXTENDS EventPropagation, TLAPS

States == [count : Nat, mark : Nat \cup {None}]

\* What any state of the event says: it is gone or counts something that happened, and
\* the annotation is a replayed count, not later than the event's.
Marks ==
  /\ Len(event) # 0
  /\ \A v \in 1..Len(event) :
       /\ event[v].count <= occurred
       /\ event[v] # Gone => event[v].count # 0
       /\ event[v].mark # None => event[v].mark \in replayed /\ event[v].mark <= event[v].count

\* What a worker holds: an event that was there, of caches that had their lists; it
\* writes the annotation only after the replay.
Work ==
  /\ ~ up => seen = Unlisted /\ task = Idle /\ queue = {}
  /\ task.pc # "idle" =>
       /\ task.version # 0
       /\ event[task.version] # Gone
       /\ seen.ingress # 0
  /\ task.pc = "mark" => event[task.version].count \in replayed

Honest == TypeOK /\ Marks /\ Work /\ UnreplayedIsQueued

\* Appending a state leaves the earlier ones.
LEMMA AppendKeeps ==
  ASSUME NEW S, NEW s \in Seq(S), NEW e \in S
  PROVE  /\ Append(s, e) \in Seq(S)
         /\ Len(Append(s, e)) = Len(s) + 1
         /\ Len(s) \in Nat
         /\ \A i \in 1..Len(s) : Append(s, e)[i] = s[i]
         /\ Append(s, e)[Len(s) + 1] = e
OBVIOUS

\* The values the variables range over, and what is there before anything happens.
LEMMA Values ==
  ASSUME TypeOK
  PROVE  /\ event \in Seq(States) /\ Len(event) \in Nat
         /\ \A v \in 1..Len(event) : event[v] \in States
         /\ Len(ingress) \in Nat /\ Len(certificate) \in Nat
         /\ \A v \in 1..Len(ingress) : ingress[v] \in BOOLEAN
         /\ seen.event \in 0..Len(event) /\ seen.ingress \in 0..Len(ingress)
         /\ seen.certificate \in 0..Len(certificate)
         /\ task.version \in 0..Len(event) /\ task.pc \in {"idle", "replay", "mark"}
         /\ Gone \in States /\ Gone.count = 0 /\ Gone.mark = None /\ None \notin Nat
         /\ Idle.pc = "idle" /\ Idle.version = 0
         /\ Unlisted.event = 0 /\ Unlisted.certificate = 0 /\ Unlisted.ingress = 0
         /\ occurred \in Nat
<1>1. event \in Seq(States) /\ certificate \in Seq(BOOLEAN) /\ ingress \in Seq(BOOLEAN)
  BY DEF TypeOK, States
<1>2. /\ seen.event \in 0..Len(event) /\ seen.ingress \in 0..Len(ingress)
      /\ seen.certificate \in 0..Len(certificate)
      /\ task.version \in 0..Len(event) /\ task.pc \in {"idle", "replay", "mark"}
      /\ occurred \in Nat
  BY DEF TypeOK
<1>3. /\ Gone \in States /\ Gone.count = 0 /\ Gone.mark = None /\ None \notin Nat
      /\ Idle.pc = "idle" /\ Idle.version = 0
      /\ Unlisted.event = 0 /\ Unlisted.certificate = 0 /\ Unlisted.ingress = 0
  BY DEF Gone, None, States, Idle, Unlisted
<1>4. Len(event) \in Nat /\ \A v \in 1..Len(event) : event[v] \in States
  BY <1>1
<1>5. /\ Len(ingress) \in Nat /\ Len(certificate) \in Nat
      /\ \A v \in 1..Len(ingress) : ingress[v] \in BOOLEAN
  BY <1>1
<1> QED
  BY <1>1, <1>2, <1>3, <1>4, <1>5

LEMMA SpendTypes ==
  ASSUME TypeOK, NEW what \in {"expiries", "faults", "crashes"}, NEW max, Spend(what, max)
  PROVE  budget' \in [{"expiries", "faults", "crashes"} -> Nat]
BY DEF TypeOK, Spend

-----------------------------------------------------------------------------
\* The event gets a new state that tells the truth, and the worker keeps its task, puts
\* it back, or has done it.
LEMMA GrowHonest ==
  ASSUME Honest, NEW e \in States,
         event' = Append(event, e),
         occurred' \in Nat, occurred <= occurred',
         e.count <= occurred',
         e # Gone => e.count # 0,
         e.mark # None => e.mark \in replayed /\ e.mark <= e.count,
         UNCHANGED <<certificate, ingress, up, seen, replayed>>,
         \/ UNCHANGED <<task, queue>>
         \/ task' = Idle /\ queue' = queue \cup {"delayed"} /\ up
         \/ task' = Idle /\ queue' = queue /\ task.pc = "mark",
         budget' \in [{"expiries", "faults", "crashes"} -> Nat]
  PROVE  Honest'
<1> USE DEF Honest
<1>1. /\ event' \in Seq(States) /\ Len(event') = Len(event) + 1
      /\ \A v \in 1..Len(event) : event'[v] = event[v]
      /\ event'[Len(event) + 1] = e
  BY Values, AppendKeeps
<1>2. TypeOK'
  <2>1. 0..Len(event) \subseteq 0..Len(event')
    BY <1>1, Values
  <2>2. task' \in [pc : {"idle", "replay", "mark"}, version : 0..Len(event')]
    <3>1. Idle \in [pc : {"idle", "replay", "mark"}, version : 0..Len(event')]
      BY <2>1, Values DEF Idle
    <3>2. task \in [pc : {"idle", "replay", "mark"}, version : 0..Len(event')]
      BY <2>1 DEF TypeOK
    <3> QED
      BY <3>1, <3>2
  <2>3. seen' \in [event : 0..Len(event'), certificate : 0..Len(certificate'),
                   ingress : 0..Len(ingress')]
    BY <2>1 DEF TypeOK
  <2>4. replayed' \subseteq 1..occurred'
    BY Values DEF TypeOK
  <2>5. queue' \subseteq {"delayed", "due"} /\ up' \in BOOLEAN
        /\ certificate' \in Seq(BOOLEAN) /\ ingress' \in Seq(BOOLEAN)
    BY DEF TypeOK
  <2> QED
    BY <1>1, <2>2, <2>3, <2>4, <2>5 DEF TypeOK, States
<1>3. Marks'
  <2>1. Len(event') # 0
    BY <1>1, Values
  <2>2. ASSUME NEW v \in 1..Len(event')
        PROVE  /\ event'[v].count <= occurred'
               /\ event'[v] # Gone => event'[v].count # 0
               /\ event'[v].mark # None => event'[v].mark \in replayed /\ event'[v].mark <= event'[v].count
    <3>1. CASE v \in 1..Len(event)
      <4>1. event'[v] = event[v] /\ event[v].count \in Nat /\ event[v].count <= occurred
        BY <1>1, <3>1, Values DEF Marks, States
      <4>2. event[v].count <= occurred'
        BY <4>1, Values
      <4> QED
        BY <3>1, <4>1, <4>2 DEF Marks
    <3>2. CASE v = Len(event) + 1
      BY <1>1, <3>2
    <3> QED
      BY <1>1, <2>2, <3>1, <3>2, Values
  <2> QED
    BY <2>1, <2>2 DEF Marks
<1>4. task.version # 0 => event'[task.version] = event[task.version]
  BY <1>1, Values
<1>5. Work'
  BY <1>4, Values DEF Work
<1>6. Shown(seen.event)' = Shown(seen.event)
  BY <1>1, Values DEF Shown
<1>7. UnreplayedIsQueued'
  BY <1>4, <1>6, Values DEF UnreplayedIsQueued, Work
<1> QED
  BY <1>2, <1>3, <1>5, <1>7

\* What the clusters do of themselves.
LEMMA ClusterHonest ==
  ASSUME Honest, Occur \/ Expire \/ ChangeCertificate \/ ChangeIngress
  PROVE  Honest'
<1> USE DEF Honest
<1>1. CASE Occur
  <2> DEFINE e == [Last(event) EXCEPT !.count = occurred + 1]
  <2>1. Len(event) \in 1..Len(event) /\ Last(event) = event[Len(event)]
    BY Values DEF Marks, Last
  <2>2. /\ Last(event) \in States
        /\ Last(event).count <= occurred
        /\ Last(event).mark # None =>
             Last(event).mark \in replayed /\ Last(event).mark <= Last(event).count
    BY <2>1, Values DEF Marks
  <2>3. e \in States /\ e.count = occurred + 1 /\ e.mark = Last(event).mark
    BY <2>2, Values DEF States
  <2>4. Last(event).count \in Nat /\ (Last(event).mark # None => Last(event).mark \in Nat)
    BY <2>2 DEF States
  <2>5. e.mark # None => e.mark \in replayed /\ e.mark <= e.count
    BY <2>2, <2>3, <2>4, Values
  <2>6. event' = Append(event, e) /\ occurred' = occurred + 1
        /\ UNCHANGED <<certificate, ingress, up, seen, queue, task, replayed, budget>>
    BY <1>1 DEF Occur
  <2>7. budget' \in [{"expiries", "faults", "crashes"} -> Nat]
    BY <2>6 DEF TypeOK
  <2>8. e.count # 0 /\ occurred' \in Nat /\ occurred <= occurred' /\ e.count <= occurred'
    BY <2>3, <2>6, Values
  <2> HIDE DEF e
  <2> QED
    BY <2>3, <2>5, <2>6, <2>7, <2>8, GrowHonest
<1>2. CASE Expire
  <2>1. event' = Append(event, Gone)
        /\ UNCHANGED <<certificate, ingress, occurred, up, seen, queue, task, replayed>>
    BY <1>2 DEF Expire
  <2>2. budget' \in [{"expiries", "faults", "crashes"} -> Nat]
    BY <1>2, SpendTypes DEF Expire
  <2> QED
    BY <2>1, <2>2, GrowHonest, Values
<1>3. CASE ChangeCertificate
  <2>1. certificate' = Append(certificate, ~ Last(certificate))
        /\ UNCHANGED <<event, ingress, occurred, up, seen, queue, task, replayed, budget>>
    BY <1>3 DEF ChangeCertificate
  <2>2. certificate' \in Seq(BOOLEAN) /\ Len(certificate') = Len(certificate) + 1
    BY <2>1, AppendKeeps DEF TypeOK
  <2>3. 0..Len(certificate) \subseteq 0..Len(certificate')
    BY <2>2, Values
  <2>4. TypeOK'
    BY <2>1, <2>2, <2>3 DEF TypeOK
  <2>5. Marks' /\ Work' /\ UnreplayedIsQueued'
    BY <2>1 DEF Marks, Work, UnreplayedIsQueued, Shown
  <2> QED
    BY <2>4, <2>5
<1>4. CASE ChangeIngress
  <2>1. ingress' = Append(ingress, ~ Last(ingress))
        /\ UNCHANGED <<event, certificate, occurred, up, seen, queue, task, replayed, budget>>
    BY <1>4 DEF ChangeIngress
  <2>2. /\ ingress' \in Seq(BOOLEAN) /\ Len(ingress') = Len(ingress) + 1
        /\ \A v \in 1..Len(ingress) : ingress'[v] = ingress[v]
    BY <2>1, AppendKeeps DEF TypeOK
  <2>3. 0..Len(ingress) \subseteq 0..Len(ingress') /\ 1..Len(ingress) \subseteq 1..Len(ingress')
    BY <2>2, Values
  <2>4. TypeOK'
    BY <2>1, <2>2, <2>3 DEF TypeOK
  <2>5. Marks' /\ Work'
    BY <2>1 DEF Marks, Work
  <2>6. Shown(seen.event)' = Shown(seen.event)
    BY <2>1 DEF Shown
  <2>7. (\A v \in 1..Len(ingress') : ingress'[v]) => \A v \in 1..Len(ingress) : ingress[v]
    BY <2>2, <2>3
  <2>8. UnreplayedIsQueued'
    BY <2>1, <2>6, <2>7 DEF UnreplayedIsQueued
  <2> QED
    BY <2>4, <2>5, <2>8
<1> QED
  BY <1>1, <1>2, <1>3, <1>4

-----------------------------------------------------------------------------
\* What the informers and the queue do.
LEMMA InformersHonest ==
  ASSUME Honest,
         \/ Start \/ Crash \/ ObserveEvent \/ ObserveCertificate \/ ObserveIngress
         \/ BecomeDue
  PROVE  Honest'
<1> USE DEF Honest
<1>0. UNCHANGED <<event, certificate, ingress, occurred, replayed>>
  BY DEF Start, Crash, ObserveEvent, ObserveCertificate, ObserveIngress, BecomeDue, clusterVars
<1>a. Marks'
  BY <1>0 DEF Marks
<1>1. CASE Start
  <2>1. up' = TRUE /\ UNCHANGED <<seen, queue, task, budget>> /\ seen = Unlisted /\ task = Idle
    BY <1>1 DEF Start, Work
  <2>2. TypeOK'
    BY <1>0, <2>1 DEF TypeOK
  <2>3. Work'
    BY <1>0, <2>1, Values DEF Work
  <2>4. UnreplayedIsQueued'
    BY <2>1, Values DEF UnreplayedIsQueued, Shown
  <2> QED
    BY <1>a, <2>2, <2>3, <2>4
<1>2. CASE Crash
  <2>1. up' = FALSE /\ seen' = Unlisted /\ queue' = {} /\ task' = Idle
    BY <1>2 DEF Crash
  <2>2. budget' \in [{"expiries", "faults", "crashes"} -> Nat]
    BY <1>2, SpendTypes DEF Crash
  <2>3. TypeOK'
    <3>1. 0 \in 0..Len(event) /\ 0 \in 0..Len(certificate) /\ 0 \in 0..Len(ingress)
      BY Values
    <3> QED
      BY <1>0, <2>1, <2>2, <3>1 DEF TypeOK, Unlisted, Idle
  <2>4. Work' /\ UnreplayedIsQueued'
    BY <2>1, Values DEF Work, UnreplayedIsQueued
  <2> QED
    BY <1>a, <2>3, <2>4
<1>3. CASE ObserveEvent
  <2>1. PICK v \in seen.event + 1 .. Len(event) :
          /\ seen' = [seen EXCEPT !.event = v]
          /\ queue' = IF Notifies(Shown(seen.event), event[v]) THEN queue \cup {"delayed"} ELSE queue
    BY <1>3 DEF ObserveEvent, Hand
  <2>2. up /\ UNCHANGED <<up, task, budget>>
    BY <1>3 DEF ObserveEvent
  <2>3. v \in 1..Len(event)
    BY Values
  <2>4. /\ seen'.event = v /\ seen'.ingress = seen.ingress
        /\ seen' \in [event : 0..Len(event), certificate : 0..Len(certificate),
                      ingress : 0..Len(ingress)]
    <3>1. v \in 0..Len(event) /\ seen' = [seen EXCEPT !.event = v]
      BY <2>1, <2>3
    <3> QED
      BY <3>1 DEF TypeOK
  <2>5. TypeOK'
    BY <1>0, <2>1, <2>2, <2>4 DEF TypeOK
  <2>6. Work'
    BY <1>0, <2>2, <2>4 DEF Work
  <2> DEFINE old == Shown(seen.event)
             new == event[v]
  <2>7. Shown(seen.event)' = new /\ queue \subseteq queue'
        /\ (Notifies(old, new) => queue' # {})
    <3>1. Shown(seen.event)' = new
      BY <1>0, <2>3, <2>4, Values DEF Shown
    <3> QED
      BY <2>1, <3>1
  <2>8. UnreplayedIsQueued'
    <3> SUFFICES ASSUME new # Gone, new.count \notin replayed,
                        \A w \in 1..Len(ingress) : ingress[w],
                        ~ Notifies(old, new)
                 PROVE  queue # {} \/ (task.pc = "replay" /\ event[task.version].count = new.count)
      BY <1>0, <2>2, <2>7 DEF UnreplayedIsQueued
    <3>1. CASE old = Gone
      <4>1. new.mark # None /\ ~ (new.count > new.mark)
        BY <3>1 DEF Notifies, OnAdd
      <4>2. new.mark \in replayed /\ new.mark <= new.count /\ new \in States
        BY <2>3, <4>1, Values DEF Marks
      <4>3. new.count \in Nat /\ new.mark \in Nat
        BY <4>1, <4>2 DEF States
      <4>4. new.count = new.mark
        BY <4>1, <4>2, <4>3
      <4> QED
        BY <4>2, <4>4
    <3>2. CASE old # Gone
      <4>1. old.count = new.count
        BY <3>2 DEF Notifies, OnUpdate
      <4> QED
        BY <2>2, <3>2, <4>1 DEF UnreplayedIsQueued
    <3> QED
      BY <3>1, <3>2
  <2> QED
    BY <1>a, <2>5, <2>6, <2>8
<1>4. CASE ObserveCertificate \/ ObserveIngress
  <2>1. /\ UNCHANGED <<up, queue, task, budget>> /\ up
        /\ \/ \E v \in seen.certificate + 1 .. Len(certificate) :
                seen' = [seen EXCEPT !.certificate = v]
           \/ \E v \in seen.ingress + 1 .. Len(ingress) : seen' = [seen EXCEPT !.ingress = v]
    BY <1>4 DEF ObserveCertificate, ObserveIngress
  <2>2. /\ seen' \in [event : 0..Len(event), certificate : 0..Len(certificate),
                      ingress : 0..Len(ingress)]
        /\ seen'.event = seen.event
        /\ seen.ingress # 0 => seen'.ingress # 0
    <3>1. CASE \E v \in seen.certificate + 1 .. Len(certificate) :
                 seen' = [seen EXCEPT !.certificate = v]
      <4>1. PICK v \in seen.certificate + 1 .. Len(certificate) :
              seen' = [seen EXCEPT !.certificate = v]
        BY <3>1
      <4>2. v \in 0..Len(certificate)
        BY Values
      <4> QED
        BY <4>1, <4>2 DEF TypeOK
    <3>2. CASE \E v \in seen.ingress + 1 .. Len(ingress) : seen' = [seen EXCEPT !.ingress = v]
      <4>1. PICK v \in seen.ingress + 1 .. Len(ingress) : seen' = [seen EXCEPT !.ingress = v]
        BY <3>2
      <4>2. v \in 0..Len(ingress) /\ v # 0
        BY Values
      <4> QED
        BY <4>1, <4>2 DEF TypeOK
    <3> QED
      BY <2>1, <3>1, <3>2
  <2>3. TypeOK'
    BY <1>0, <2>1, <2>2 DEF TypeOK
  <2>4. Work'
    BY <1>0, <2>1, <2>2 DEF Work
  <2>5. UnreplayedIsQueued'
    BY <1>0, <2>1, <2>2 DEF UnreplayedIsQueued, Shown
  <2> QED
    BY <1>a, <2>3, <2>4, <2>5
<1>5. CASE BecomeDue
  <2>1. queue' = {"due"} /\ UNCHANGED <<up, seen, task, budget>> /\ "delayed" \in queue
    BY <1>5 DEF BecomeDue
  <2>2. TypeOK'
    BY <1>0, <2>1 DEF TypeOK
  <2>3. Work' /\ UnreplayedIsQueued'
    BY <1>0, <2>1 DEF Work, UnreplayedIsQueued, Shown
  <2> QED
    BY <1>a, <2>2, <2>3
<1> QED
  BY <1>1, <1>2, <1>3, <1>4, <1>5

\* What Sync does.
LEMMA SyncHonest ==
  ASSUME Honest, ReadEvent \/ Replay
  PROVE  Honest'
<1> USE DEF Honest
<1>0. UNCHANGED <<event, certificate, ingress, occurred, up, seen, budget>>
  BY DEF ReadEvent, Replay, clusterVars
<1>1. CASE ReadEvent
  <2>1. Synced /\ "due" \in queue /\ task = Idle /\ replayed' = replayed /\ up
    BY <1>1 DEF ReadEvent, Work
  <2>2. seen.event # 0 /\ seen.ingress # 0 /\ Shown(seen.event) = event[seen.event]
    <3>1. "event" \in DOMAIN seen /\ "ingress" \in DOMAIN seen
      BY DEF TypeOK
    <3> QED
      BY <2>1, <3>1 DEF Synced, Shown
  <2>3. Marks'
    BY <1>0, <2>1 DEF Marks
  <2>4. CASE event[seen.event] = Gone
    <3>1. queue' = (queue \ {"due"}) \cup {"delayed"} /\ task' = task
      BY <1>1, <2>4 DEF ReadEvent
    <3>2. TypeOK'
      BY <1>0, <2>1, <3>1 DEF TypeOK
    <3>3. Work' /\ UnreplayedIsQueued'
      BY <1>0, <2>1, <3>1 DEF Work, UnreplayedIsQueued
    <3> QED
      BY <2>3, <3>2, <3>3
  <2>5. CASE event[seen.event] # Gone
    <3>1. queue' = queue \ {"due"} /\ task' = [pc |-> "replay", version |-> seen.event]
      BY <1>1, <2>5 DEF ReadEvent
    <3>2. TypeOK'
      BY <1>0, <2>1, <3>1, Values DEF TypeOK
    <3>3. Work'
      BY <1>0, <2>1, <2>2, <2>5, <3>1 DEF Work
    <3>4. UnreplayedIsQueued'
      BY <1>0, <2>2, <3>1 DEF UnreplayedIsQueued, Shown
    <3> QED
      BY <2>3, <3>2, <3>3, <3>4
  <2> QED
    BY <2>4, <2>5
<1>2. CASE Replay
  <2>1. task.pc = "replay" /\ up /\ task.version # 0 /\ event[task.version] # Gone /\ seen.ingress # 0
    BY <1>2, Values DEF Replay, Work
  <2>2. CASE Retry /\ replayed' = replayed
    <3>1. task' = Idle /\ queue' = queue \cup {"delayed"}
      BY <2>2 DEF Retry, Hand
    <3>2. TypeOK'
      BY <1>0, <2>2, <3>1, Values DEF TypeOK, Idle
    <3>3. Marks' /\ Work' /\ UnreplayedIsQueued'
      BY <1>0, <2>1, <2>2, <3>1, Values DEF Marks, Work, UnreplayedIsQueued
    <3> QED
      BY <3>2, <3>3
  <2>3. CASE ~ HasIngress /\ task' = Idle /\ UNCHANGED <<queue, replayed>>
    <3>1. TypeOK'
      BY <1>0, <2>3, Values DEF TypeOK, Idle
    <3>2. seen.ingress \in 1..Len(ingress) /\ ~ ingress[seen.ingress]
      BY <2>1, <2>3, Values DEF HasIngress
    <3>3. Marks' /\ Work'
      BY <1>0, <2>1, <2>3, Values DEF Marks, Work
    <3>4. UnreplayedIsQueued'
      BY <1>0, <3>2 DEF UnreplayedIsQueued
    <3> QED
      BY <3>1, <3>3, <3>4
  <2>4. CASE /\ replayed' = replayed \cup {event[task.version].count}
             /\ task' = [task EXCEPT !.pc = "mark"]
             /\ UNCHANGED queue
    <3> DEFINE c == event[task.version].count
    <3>1. task.version \in 1..Len(event) /\ c \in Nat /\ c # 0 /\ c <= occurred
      BY <2>1, Values DEF Marks, States
    <3>2. c \in 1..occurred
      BY <3>1, Values
    <3>3. task'.pc = "mark" /\ task'.version = task.version
          /\ task' \in [pc : {"idle", "replay", "mark"}, version : 0..Len(event)]
      BY <2>4 DEF TypeOK
    <3>4. TypeOK'
      BY <1>0, <2>4, <3>2, <3>3 DEF TypeOK
    <3>5. Marks'
      BY <1>0, <2>4 DEF Marks
    <3>6. Work'
      BY <1>0, <2>1, <2>4, <3>3 DEF Work
    <3>7. UnreplayedIsQueued'
      BY <1>0, <2>4 DEF UnreplayedIsQueued, Shown
    <3> QED
      BY <3>4, <3>5, <3>6, <3>7
  <2> QED
    BY <1>2, <2>2, <2>3, <2>4 DEF Replay
<1> QED
  BY <1>1, <1>2

\* The annotation, written or not, with or without an answer.
LEMMA MarkHonest ==
  ASSUME Honest, Mark \/ LoseRequest
  PROVE  Honest'
<1> USE DEF Honest
<1> DEFINE e == Annotated(task.version)
<1>1. /\ UNCHANGED <<certificate, ingress, occurred, up, seen, replayed>>
      /\ task.pc = "mark" /\ task' = Idle
      /\ queue' = queue \/ queue' = queue \cup {"delayed"}
      /\ event' = event \/ event' = Append(event, e)
  BY DEF Mark, LoseRequest, Retry, Hand, Write
<1>2. budget' \in [{"expiries", "faults", "crashes"} -> Nat]
  BY SpendTypes DEF Mark, LoseRequest, TypeOK
<1>3. /\ up /\ task.version \in 1..Len(event) /\ event[task.version] # Gone
      /\ event[task.version].count \in replayed
  BY <1>1, Values DEF Work
<1>4. event[task.version] \in States /\ event[task.version].count # 0
      /\ event[task.version].count <= occurred
  BY <1>3, Values DEF Marks
<1>5. e \in States /\ e.count = event[task.version].count /\ e.mark = event[task.version].count
  BY <1>4 DEF Annotated, States
<1>6. CASE event' = Append(event, e)
  <2> HIDE DEF e
  <2>1. occurred' \in Nat /\ occurred <= occurred' /\ e.count <= occurred'
        /\ e.count \in Nat /\ e.mark <= e.count
    BY <1>1, <1>4, <1>5, Values DEF States
  <2> QED
    BY <1>1, <1>2, <1>3, <1>4, <1>5, <1>6, <2>1, GrowHonest
<1>7. CASE event' = event
  <2>1. TypeOK'
    <3>1. Idle \in [pc : {"idle", "replay", "mark"}, version : 0..Len(event)]
      BY Values DEF Idle
    <3>2. queue' \subseteq {"delayed", "due"}
      BY <1>1 DEF TypeOK
    <3> QED
      BY <1>1, <1>2, <1>7, <3>1, <3>2 DEF TypeOK
  <2>2. Marks'
    BY <1>1, <1>7 DEF Marks
  <2>3. Work'
    BY <1>1, <1>3, <1>7, Values DEF Work
  <2>4. UnreplayedIsQueued'
    BY <1>1, <1>7 DEF UnreplayedIsQueued, Shown
  <2> QED
    BY <2>1, <2>2, <2>3, <2>4
<1> QED
  BY <1>1, <1>6, <1>7

LEMMA NextHonest ==
  ASSUME Honest, [Next]_vars
  PROVE  Honest'
<1>1. CASE UNCHANGED vars
  BY <1>1 DEF vars, Honest, TypeOK, Marks, Work, UnreplayedIsQueued, Shown
<1>2. CASE Next
  BY <1>2, ClusterHonest, InformersHonest, SyncHonest, MarkHonest DEF Next, Sync
<1> QED
  BY <1>1, <1>2

LEMMA InitHonest ==
  ASSUME Init
  PROVE  Honest
<1>1. event \in Seq(States) /\ Len(event) = 1 /\ event[1] = Gone
  BY DEF Init, Gone, None, States
<1>2. certificate \in Seq(BOOLEAN) /\ ingress \in Seq(BOOLEAN)
      /\ Len(certificate) = 1 /\ Len(ingress) = 1
  <2>1. /\ <<FALSE>> \in Seq(BOOLEAN) /\ <<TRUE>> \in Seq(BOOLEAN)
        /\ Len(<<FALSE>>) = 1 /\ Len(<<TRUE>>) = 1
    OBVIOUS
  <2>2. (certificate = <<FALSE>> \/ certificate = <<TRUE>>) /\ (ingress = <<FALSE>> \/ ingress = <<TRUE>>)
    BY DEF Init
  <2> QED
    BY <2>1, <2>2
<1>3. TypeOK
  <2>1. /\ Unlisted \in [event : 0..Len(event), certificate : 0..Len(certificate),
                        ingress : 0..Len(ingress)]
        /\ Idle \in [pc : {"idle", "replay", "mark"}, version : 0..Len(event)]
    BY <1>1, <1>2 DEF Unlisted, Idle
  <2>2. budget \in [{"expiries", "faults", "crashes"} -> Nat]
    BY DEF Init
  <2>3. /\ seen = Unlisted /\ task = Idle /\ queue = {} /\ replayed = {} /\ occurred = 0
        /\ up = FALSE
    BY DEF Init
  <2> QED
    BY <1>1, <1>2, <2>1, <2>2, <2>3 DEF TypeOK, States
<1>4. Marks
  BY <1>1 DEF Init, Marks, Gone
<1>5. Work /\ UnreplayedIsQueued
  BY DEF Init, Work, UnreplayedIsQueued, Idle
<1> QED
  BY <1>3, <1>4, <1>5 DEF Honest

LEMMA AlwaysHonest == Spec => []Honest
<1> QED
  BY InitHonest, NextHonest, PTL DEF Spec

\* Every variable keeps its type, and the recorder only gets counts of the event.
THEOREM EventTypes == Spec => []TypeOK
<1>1. Honest => TypeOK
  BY DEF Honest
<1> QED
  BY <1>1, AlwaysHonest, PTL

\* A count that is annotated was replayed, for any number of occurrences, crashes and
\* lost requests.
THEOREM AnnotatedMeansReplayed == Spec => []MarkIsHonest
<1>1. Honest => MarkIsHonest
  BY DEF Honest, Marks, MarkIsHonest
<1> QED
  BY <1>1, AlwaysHonest, PTL

\* What the process sees and nobody replayed has a key that will be processed.
THEOREM NothingSeenIsLeftOut == Spec => []UnreplayedIsQueued
<1>1. Honest => UnreplayedIsQueued
  BY DEF Honest
<1> QED
  BY <1>1, AlwaysHonest, PTL
=============================================================================
