------------------------ MODULE LeaderElectionProofs ------------------------
(***************************************************************************)
(* The safety of leader election for any number of processes and any       *)
(* durations that satisfy LatencyAssumption, with any faults: who may      *)
(* write the record, and how old it is when a leader gives up.             *)
(***************************************************************************)
EXTENDS LeaderElection, TLAPS

\* A leader's record is its own, and old enough for no one as long as it leads.
LeadersInTime ==
  \A p \in Process :
    role[p] = "leading" =>
      holder = p /\ lockAge + left[p] <= MaxLatency + RetryPeriod + RenewDeadline

\* An update the API server will accept is one of the holder itself, or of a process
\* that waited for the whole lease.
UpdatesAllowed ==
  \A p \in Process :
    try[p].pc = "update" /\ try[p].current =>
      holder \in {p, NoOne} \/ lockAge >= LeaseDuration

\* Whoever waits for an answer owns the record, and did not wait for long.
AnswersInTime ==
  \A p \in Process :
    /\ try[p].age <= MaxLatency
    /\ try[p].pc = "answer" => holder = p /\ lockAge <= try[p].age

\* What a process observed is never older than it is.
ObservedLater ==
  \A p \in Process :
    seen[p].current => seen[p].holder = holder /\ seen[p].age <= lockAge

Safe == TypeOK /\ LeadersInTime /\ UpdatesAllowed /\ AnswersInTime /\ ObservedLater

Durations ==
  /\ LeaseDuration \in Nat /\ RenewDeadline \in Nat /\ RetryPeriod \in Nat
  /\ MaxLatency \in Nat /\ Controllers \in Nat
  /\ MaxLatency + RetryPeriod + RenewDeadline < LeaseDuration
  /\ NoOne \notin Process

LEMMA DurationsHold == Durations
BY ElectionAssumption, LatencyAssumption DEF Durations

-----------------------------------------------------------------------------
\* Types.

Records == [holder : Process \cup {NoOne}, age : 0..LeaseDuration, current : BOOLEAN]
Tries == [pc : {"none", "update", "answer"}, current : BOOLEAN, age : 0..LeaseDuration]

LEMMA NothingTypes == Unseen \in Records /\ NoTry \in Tries
BY DurationsHold DEF Unseen, NoTry, Records, Tries, Durations

LEMMA SpendTypes ==
  ASSUME TypeOK, NEW what \in {"faults", "crashes", "signals"}, NEW max, Spend(what, max)
  PROVE  budget' \in [{"faults", "crashes", "signals"} -> Nat]
BY DEF TypeOK, Spend

LEMMA TryFailsTypes ==
  ASSUME TypeOK, NEW p \in Process, TryFails(p)
  PROVE  try' \in [Process -> Tries] /\ timer' \in [Process -> Nat]
<1>1. Backoff(p) \subseteq Nat
  BY DurationsHold DEF Backoff, Durations
<1>2. try' = [try EXCEPT ![p] = NoTry] /\ \E t \in Backoff(p) : timer' = [timer EXCEPT ![p] = t]
  BY DEF TryFails
<1>3. try \in [Process -> Tries] /\ timer \in [Process -> Nat]
  BY DEF TypeOK, Tries
<1> QED
  BY <1>1, <1>2, <1>3, NothingTypes

LEMMA LeaveElectorTypes ==
  ASSUME TypeOK, NEW p \in Process, LeaveElector(p)
  PROVE  /\ seen' \in [Process -> Records]
         /\ try' \in [Process -> Tries]
         /\ timer' \in [Process -> Nat]
         /\ left' \in [Process -> Nat]
<1>1. /\ seen \in [Process -> Records] /\ try \in [Process -> Tries]
      /\ timer \in [Process -> Nat] /\ left \in [Process -> Nat]
  BY DEF TypeOK, Records, Tries
<1>2. seen' = [seen EXCEPT ![p] = Unseen] /\ seen' \in [Process -> Records]
  BY <1>1, NothingTypes DEF LeaveElector
<1>3. try' \in [Process -> Tries]
  <2>1. try' = [try EXCEPT ![p] = try[p]] \/ try' = [try EXCEPT ![p] = NoTry]
    BY DEF LeaveElector
  <2> QED
    BY <1>1, <2>1, NothingTypes
<1>4. timer' \in [Process -> Nat] /\ left' \in [Process -> Nat]
  BY <1>1 DEF LeaveElector
<1> QED
  BY <1>2, <1>3, <1>4

LEMMA EndProcessTypes ==
  ASSUME TypeOK, NEW p \in Process, EndProcess(p), UNCHANGED lockVars,
         budget' \in [{"faults", "crashes", "signals"} -> Nat]
  PROVE  TypeOK'
<1>1. /\ seen' \in [Process -> Records] /\ try' \in [Process -> Tries]
      /\ timer' \in [Process -> Nat] /\ left' \in [Process -> Nat]
  BY LeaveElectorTypes DEF EndProcess
<1>2. /\ role' \in [Process -> Role]
      /\ ctx' \in [Process -> BOOLEAN]
      /\ launched' \in [Process -> 0..Controllers]
      /\ ended' \in [Process -> 0..Controllers]
  BY DurationsHold DEF EndProcess, TypeOK, Role, Durations
<1> QED
  BY <1>1, <1>2 DEF TypeOK, lockVars, Records, Tries

\* The record as it is observed.
LEMMA ObservedTypes ==
  ASSUME TypeOK, NEW p \in Process
  PROVE  Observed(p) \in Records
BY DurationsHold DEF TypeOK, Observed, Records, Durations

\* A write.
LEMMA OutdateTypes ==
  ASSUME TypeOK, NEW p \in Process
  PROVE  /\ Outdate(try, p) \in [Process -> Tries]
         /\ Outdate(seen, p) \in [Process -> Records]
<1>1. \A q \in Process : try[q] \in Tries /\ [try[q] EXCEPT !.current = FALSE] \in Tries
  BY DEF TypeOK, Tries
<1>2. \A q \in Process : seen[q] \in Records /\ [seen[q] EXCEPT !.current = FALSE] \in Records
  BY DEF TypeOK, Records
<1> QED
  BY <1>1, <1>2 DEF Outdate

\* What a try does keeps the types.
LEMMA TryTypes ==
  ASSUME TypeOK, NEW p \in Process, Get(p) \/ Update(p) \/ LoseTry(p) \/ Answer(p)
  PROVE  TypeOK'
<1> USE DurationsHold DEF Durations
<1>1. /\ try \in [Process -> Tries] /\ seen \in [Process -> Records]
      /\ UNCHANGED <<ctx, launched, ended>>
  BY DEF TypeOK, Tries, Records, Get, Update, LoseTry, Answer, runVars
<1>2. CASE Get(p)
  <2>1. UNCHANGED <<holder, lockAge, role, left, budget>>
    BY <1>2 DEF Get, lockVars
  <2>2. seen' = [seen EXCEPT ![p] = Observed(p)]
    BY <1>2 DEF Get
  <2>3. try' \in [Process -> Tries] /\ timer' \in [Process -> Nat]
    <3>1. [pc |-> "update", current |-> TRUE, age |-> 0] \in Tries
      BY DEF Tries
    <3>2. CASE TryFails(p)
      BY <3>2, TryFailsTypes
    <3>3. CASE try' = [try EXCEPT ![p] = [pc |-> "update", current |-> TRUE, age |-> 0]] /\ timer' = timer
      BY <1>1, <3>1, <3>3 DEF TypeOK
    <3> QED
      BY <1>2, <3>2, <3>3 DEF Get
  <2>4. seen' \in [Process -> Records]
    BY <1>1, <2>2, ObservedTypes
  <2> QED
    BY <1>1, <2>1, <2>3, <2>4 DEF TypeOK, Tries, Records
<1>3. CASE Update(p)
  <2>1. UNCHANGED <<role, left, budget>>
    BY <1>3 DEF Update
  <2>2. CASE try[p].current
    <3>1. holder' = p /\ lockAge' = 0 /\ timer' = timer
      BY <1>3, <2>2 DEF Update
    <3> DEFINE t == IF Running(p) THEN [Outdate(try, p)[p] EXCEPT !.pc = "answer"] ELSE NoTry
               r == [Outdate(seen, p)[p] EXCEPT !.current = FALSE]
    <3>2. try' = [Outdate(try, p) EXCEPT ![p] = t] /\ seen' = [Outdate(seen, p) EXCEPT ![p] = r]
      BY <1>3, <2>2 DEF Update
    <3>3. t \in Tries /\ r \in Records
      <4>1. Outdate(try, p)[p] \in Tries /\ Outdate(seen, p)[p] \in Records
        BY OutdateTypes
      <4>2. [Outdate(try, p)[p] EXCEPT !.pc = "answer"] \in Tries
        BY <4>1 DEF Tries
      <4>3. r \in Records
        BY <4>1 DEF Records
      <4> QED
        BY <4>2, <4>3, NothingTypes
    <3>4. try' \in [Process -> Tries] /\ seen' \in [Process -> Records]
      BY <3>2, <3>3, OutdateTypes
    <3> QED
      BY <1>1, <2>1, <3>1, <3>4 DEF TypeOK, Tries, Records
  <2>3. CASE ~ try[p].current
    <3>1. TryFails(p) /\ UNCHANGED <<holder, lockAge, seen>>
      BY <1>3, <2>3 DEF Update, lockVars
    <3>2. try' \in [Process -> Tries] /\ timer' \in [Process -> Nat]
      BY <3>1, TryFailsTypes
    <3> QED
      BY <1>1, <2>1, <3>1, <3>2 DEF TypeOK, Tries, Records
  <2> QED
    BY <2>2, <2>3
<1>4. CASE LoseTry(p)
  <2>1. UNCHANGED <<holder, lockAge, role, seen, left>> /\ TryFails(p)
    BY <1>4 DEF LoseTry, lockVars
  <2>2. budget' \in [{"faults", "crashes", "signals"} -> Nat]
    BY <1>4, SpendTypes DEF LoseTry
  <2>3. try' \in [Process -> Tries] /\ timer' \in [Process -> Nat]
    BY <2>1, TryFailsTypes
  <2> QED
    BY <1>1, <2>1, <2>2, <2>3 DEF TypeOK, Tries, Records
<1>5. CASE Answer(p)
  <2>1. UNCHANGED <<holder, lockAge, budget>> /\ try' = [try EXCEPT ![p] = NoTry]
    BY <1>5 DEF Answer, lockVars
  <2>2. seen' = [seen EXCEPT ![p] = [holder |-> p, age |-> 0, current |-> try[p].current]]
    BY <1>5 DEF Answer
  <2>3. [holder |-> p, age |-> 0, current |-> try[p].current] \in Records
    BY <1>1 DEF Records, Tries
  <2>4. try' \in [Process -> Tries] /\ seen' \in [Process -> Records]
    BY <1>1, <2>1, <2>2, <2>3, NothingTypes
  <2>5. role' \in [Process -> Role] /\ left' \in [Process -> Nat] /\ timer' \in [Process -> Nat]
    <3>1. RetryPeriod + RenewDeadline \in Nat
      OBVIOUS
    <3>2. left' \in [Process -> Nat] /\ timer' \in [Process -> Nat]
      <4>1. /\ \/ left' = [left EXCEPT ![p] = RenewDeadline]
               \/ left' = [left EXCEPT ![p] = RetryPeriod + RenewDeadline]
            /\ \/ timer' = [timer EXCEPT ![p] = 0]
               \/ timer' = [timer EXCEPT ![p] = RetryPeriod]
        BY <1>5 DEF Answer
      <4> QED
        BY <3>1, <4>1 DEF TypeOK
    <3>3. role' \in [Process -> Role]
      <4>1. \/ role' = [role EXCEPT ![p] = "leading"]
            \/ role' = [role EXCEPT ![p] = "quitting"]
            \/ role' = role
        BY <1>5 DEF Answer
      <4> QED
        BY <4>1 DEF TypeOK, Role
    <3> QED
      BY <3>2, <3>3
  <2> QED
    BY <1>1, <2>1, <2>4, <2>5 DEF TypeOK, Tries, Records
<1> QED
  BY <1>2, <1>3, <1>4, <1>5

\* So does the rest of a process's life.
LEMMA LifeTypes ==
  ASSUME TypeOK, NEW p \in Process,
         \/ GiveUp(p) \/ Quit(p) \/ Launch(p) \/ EndController(p) \/ Exit(p)
         \/ Boot(p) \/ Signal(p) \/ Crash(p)
  PROVE  TypeOK'
<1> USE DurationsHold DEF Durations
<1>1. UNCHANGED <<holder, lockAge>>
  BY DEF GiveUp, Quit, Launch, EndController, Exit, Boot, Signal, Crash, lockVars
<1>2. CASE GiveUp(p)
  BY <1>1, <1>2, LeaveElectorTypes DEF GiveUp, TypeOK, Tries, Records, Role, runVars
<1>3. CASE Quit(p) \/ Exit(p)
  <2>1. EndProcess(p) /\ UNCHANGED lockVars /\ budget' = budget
    BY <1>3 DEF Quit, Exit
  <2> QED
    BY <2>1, EndProcessTypes DEF TypeOK
<1>4. CASE Launch(p)
  BY <1>1, <1>4 DEF Launch, TypeOK
<1>5. CASE EndController(p)
  BY <1>1, <1>5 DEF EndController, TypeOK
<1>6. CASE Boot(p)
  <2>1. try' \in [Process -> Tries]
    BY <1>6, NothingTypes DEF Boot, TypeOK, Tries
  <2> QED
    BY <1>1, <1>6, <2>1 DEF Boot, TypeOK, Tries, Role, runVars
<1>7. CASE Signal(p)
  <2>1. budget' \in [{"faults", "crashes", "signals"} -> Nat]
    BY <1>7, SpendTypes DEF Signal
  <2>2. ctx' \in [Process -> BOOLEAN] /\ role' \in [Process -> Role] /\ UNCHANGED <<launched, ended>>
    BY <1>7 DEF Signal, TypeOK, Role, runVars
  <2>3. \/ UNCHANGED <<seen, try, timer, left>>
        \/ LeaveElector(p)
    BY <1>7 DEF Signal
  <2> QED
    BY <1>1, <2>1, <2>2, <2>3, LeaveElectorTypes DEF TypeOK, Tries, Records
<1>8. CASE Crash(p)
  <2>1. budget' \in [{"faults", "crashes", "signals"} -> Nat]
    BY <1>8, SpendTypes DEF Crash
  <2> QED
    BY <1>8, <2>1, EndProcessTypes DEF Crash
<1> QED
  BY <1>2, <1>3, <1>4, <1>5, <1>6, <1>7, <1>8

\* So does time.
LEMMA TickTypes ==
  ASSUME TypeOK, Tick
  PROVE  TypeOK'
<1> USE DurationsHold DEF Durations
<1>1. /\ \A q \in Process : seen[q] \in Records /\ try[q] \in Tries
      /\ timer \in [Process -> Nat] /\ left \in [Process -> Nat]
      /\ lockAge \in 0..LeaseDuration
  BY DEF TypeOK, Records, Tries
<1>2. \A age \in 0..LeaseDuration : Older(age) \in 0..LeaseDuration
  BY DEF Older
<1>3. \A q \in Process :
        /\ [seen[q] EXCEPT !.age = Older(@)] \in Records
        /\ [try[q] EXCEPT !.age = Older(@)] \in Tries
  BY <1>1, <1>2 DEF Records, Tries
<1>4. seen' \in [Process -> Records] /\ try' \in [Process -> Tries]
  BY <1>1, <1>3 DEF Tick
<1>5. timer' \in [Process -> Nat] /\ left' \in [Process -> Nat]
  BY <1>1 DEF Tick, Sooner
<1>6. lockAge' \in 0..LeaseDuration
  BY <1>1, <1>2 DEF Tick
<1>7. UNCHANGED <<holder, role, ctx, launched, ended, budget>>
  BY DEF Tick, runVars
<1> QED
  BY <1>4, <1>5, <1>6, <1>7 DEF TypeOK, Records, Tries

LEMMA NextTypes ==
  ASSUME TypeOK, [Next]_vars
  PROVE  TypeOK'
<1>1. CASE UNCHANGED vars
  BY <1>1 DEF vars, TypeOK
<1>2. CASE Next
  BY <1>2, TryTypes, LifeTypes, TickTypes DEF Next, Step
<1> QED
  BY <1>1, <1>2

LEMMA InitTypes ==
  ASSUME Init
  PROVE  TypeOK
BY DurationsHold, NothingTypes DEF Init, TypeOK, Role, Records, Tries, Durations

\* Every variable keeps its type, for any number of processes and any durations.
THEOREM ElectionTypes == Spec => []TypeOK
<1> QED
  BY InitTypes, NextTypes, PTL DEF Spec

-----------------------------------------------------------------------------
\* The lease.

\* Observing the record again keeps ObservedLater, and tells who may write it.
LEMMA ObservedIsLater ==
  ASSUME Safe, NEW p \in Process
  PROVE  /\ Observed(p).current =>
              Observed(p).holder = holder /\ Observed(p).age <= lockAge
         /\ MayUpdate(p, Observed(p)) => holder \in {p, NoOne} \/ lockAge >= LeaseDuration
<1> USE DurationsHold DEF Durations
<1>1. lockAge \in Nat /\ LeaseDuration > 0 /\ seen[p] \in Records /\ seen[p].age \in Nat
  BY DEF Safe, TypeOK, Records
<1>2. CASE holder = NoOne
  BY <1>2 DEF Safe, ObservedLater, Observed
<1>3. CASE holder # NoOne /\ seen[p].current
  <2>1. Observed(p) = seen[p]
    BY <1>3 DEF Observed
  <2>2. seen[p].holder = holder /\ seen[p].age <= lockAge
    BY <1>3 DEF Safe, ObservedLater
  <2> QED
    BY <1>1, <2>1, <2>2 DEF MayUpdate
<1>4. CASE holder # NoOne /\ ~ seen[p].current
  <2>1. Observed(p) = [holder |-> holder, age |-> 0, current |-> TRUE]
    BY <1>4 DEF Observed
  <2> QED
    BY <1>1, <2>1 DEF MayUpdate
<1> QED
  BY <1>2, <1>3, <1>4

\* What may change when the record does not: one process's own state.
Local(p) ==
  /\ UNCHANGED <<holder, lockAge>>
  /\ \A q \in Process \ {p} :
       role'[q] = role[q] /\ try'[q] = try[q] /\ seen'[q] = seen[q] /\ left'[q] = left[q]
  /\ \/ try'[p] = try[p]
     \/ try'[p].pc = "none" /\ try'[p].age = 0
     \/ try'[p].pc = "update" /\ try'[p].age = 0 /\ MayUpdate(p, Observed(p))
  /\ \/ seen'[p] = seen[p]
     \/ ~ seen'[p].current
     \/ seen'[p] = Observed(p)
     \/ try[p].pc = "answer" /\ seen'[p].holder = p /\ seen'[p].age = 0
  /\ role'[p] = "leading" =>
       \/ role[p] = "leading" /\ left'[p] = left[p]
       \/ try[p].pc = "answer" /\ left'[p] \in {RenewDeadline, RetryPeriod + RenewDeadline}

LEMMA LocalSafe ==
  ASSUME Safe, NEW p \in Process, Local(p)
  PROVE  LeadersInTime' /\ UpdatesAllowed' /\ AnswersInTime' /\ ObservedLater'
<1> USE DurationsHold DEF Durations, Safe
<1>1. /\ lockAge \in Nat /\ lockAge' = lockAge /\ holder' = holder
      /\ \A q \in Process : left[q] \in Nat /\ try[q].age \in Nat
  BY DEF TypeOK, Local
<1>2. try[p].pc = "answer" => holder = p /\ lockAge <= MaxLatency
  BY <1>1 DEF AnswersInTime
<1>3. ASSUME NEW q \in Process, role'[q] = "leading"
      PROVE  holder = q /\ lockAge + left'[q] <= MaxLatency + RetryPeriod + RenewDeadline
  <2>1. CASE role[q] = "leading" /\ left'[q] = left[q]
    BY <2>1 DEF LeadersInTime
  <2>2. CASE q = p /\ try[p].pc = "answer" /\ left'[p] \in {RenewDeadline, RetryPeriod + RenewDeadline}
    BY <1>1, <1>2, <2>2
  <2> QED
    BY <1>3, <2>1, <2>2 DEF Local
<1>4. LeadersInTime'
  BY <1>1, <1>3 DEF LeadersInTime
<1>5. UpdatesAllowed'
  <2>1. ASSUME NEW q \in Process, try'[q].pc = "update", try'[q].current
        PROVE  holder \in {q, NoOne} \/ lockAge >= LeaseDuration
    <3>1. CASE try'[q] = try[q]
      BY <2>1, <3>1 DEF UpdatesAllowed
    <3>2. CASE q = p /\ MayUpdate(p, Observed(p))
      BY <3>2, ObservedIsLater
    <3> QED
      BY <2>1, <3>1, <3>2 DEF Local
  <2> QED
    BY <1>1, <2>1 DEF UpdatesAllowed
<1>6. AnswersInTime'
  <2>1. ASSUME NEW q \in Process
        PROVE  /\ try'[q].age <= MaxLatency
               /\ try'[q].pc = "answer" => holder = q /\ lockAge <= try'[q].age
    <3>1. CASE try'[q] = try[q]
      BY <3>1 DEF AnswersInTime
    <3>2. CASE try'[q].pc # "answer" /\ try'[q].age = 0
      BY <3>2
    <3> QED
      BY <2>1, <3>1, <3>2 DEF Local
  <2> QED
    BY <1>1, <2>1 DEF AnswersInTime
<1>7. ObservedLater'
  <2>1. ASSUME NEW q \in Process, seen'[q].current
        PROVE  seen'[q].holder = holder /\ seen'[q].age <= lockAge
    <3>1. CASE seen'[q] = seen[q]
      BY <2>1, <3>1 DEF ObservedLater
    <3>2. CASE q = p /\ seen'[p] = Observed(p)
      BY <2>1, <3>2, ObservedIsLater
    <3>3. CASE q = p /\ try[p].pc = "answer" /\ seen'[p].holder = p /\ seen'[p].age = 0
      BY <1>1, <1>2, <3>3
    <3> QED
      BY <2>1, <3>1, <3>2, <3>3 DEF Local
  <2> QED
    BY <1>1, <2>1 DEF ObservedLater
<1> QED
  BY <1>4, <1>5, <1>6, <1>7

\* All steps of a process but a write are of this kind.
LEMMA StepsAreLocal ==
  ASSUME TypeOK, NEW p \in Process,
         Step(p) \/ LoseTry(p) \/ Boot(p) \/ Signal(p) \/ Crash(p),
         ~ (Update(p) /\ try[p].current)
  PROVE  Local(p)
<1>1. /\ role \in [Process -> Role] /\ left \in [Process -> Nat]
      /\ try \in [Process -> Tries] /\ seen \in [Process -> Records]
      /\ NoTry.pc = "none" /\ NoTry.age = 0 /\ ~ Unseen.current
  BY DEF TypeOK, Tries, Records, NoTry, Unseen
<1>2. CASE Get(p)
  <2>1. /\ UNCHANGED <<holder, lockAge, role, left>>
        /\ seen' = [seen EXCEPT ![p] = Observed(p)]
    BY <1>2 DEF Get, lockVars
  <2>2. \/ /\ MayUpdate(p, Observed(p))
           /\ try' = [try EXCEPT ![p] = [pc |-> "update", current |-> TRUE, age |-> 0]]
        \/ try' = [try EXCEPT ![p] = NoTry]
    BY <1>2 DEF Get, TryFails
  <2> QED
    BY <1>1, <2>1, <2>2 DEF Local
<1>3. CASE (Update(p) /\ ~ try[p].current) \/ LoseTry(p)
  <2>1. UNCHANGED <<holder, lockAge, role, left, seen>> /\ try' = [try EXCEPT ![p] = NoTry]
    BY <1>3 DEF Update, LoseTry, TryFails, lockVars
  <2> QED
    BY <1>1, <2>1 DEF Local
<1>4. CASE Answer(p)
  <2>1. /\ UNCHANGED <<holder, lockAge>> /\ try[p].pc = "answer"
        /\ try' = [try EXCEPT ![p] = NoTry]
        /\ seen' = [seen EXCEPT ![p] = [holder |-> p, age |-> 0, current |-> try[p].current]]
    BY <1>4 DEF Answer, lockVars
  <2>2. /\ \/ left' = [left EXCEPT ![p] = RenewDeadline]
           \/ left' = [left EXCEPT ![p] = RetryPeriod + RenewDeadline]
        /\ \/ role' = [role EXCEPT ![p] = "leading"]
           \/ role' = [role EXCEPT ![p] = "quitting"]
           \/ role' = role
    BY <1>4 DEF Answer
  <2> QED
    BY <1>1, <2>1, <2>2 DEF Local
<1>5. CASE Launch(p) \/ EndController(p)
  <2>1. UNCHANGED <<holder, lockAge, role, left, seen, try>>
    BY <1>5 DEF Launch, EndController, lockVars
  <2> QED
    BY <2>1 DEF Local
<1>6. CASE Boot(p)
  <2>1. /\ UNCHANGED <<holder, lockAge, left, seen>>
        /\ role' = [role EXCEPT ![p] = "acquire"] /\ try' = [try EXCEPT ![p] = NoTry]
    BY <1>6 DEF Boot, lockVars
  <2> QED
    BY <1>1, <2>1 DEF Local
<1>7. CASE Signal(p) /\ UNCHANGED <<role, seen, try, timer, left>>
  <2>1. UNCHANGED <<holder, lockAge>>
    BY <1>7 DEF Signal, lockVars
  <2> QED
    BY <1>7, <2>1 DEF Local
<1>8. CASE GiveUp(p) \/ Quit(p) \/ Exit(p) \/ Crash(p)
             \/ (Signal(p) /\ ~ UNCHANGED <<role, seen, try, timer, left>>)
  <2>1. UNCHANGED <<holder, lockAge>> /\ LeaveElector(p)
    BY <1>8 DEF GiveUp, Quit, Exit, Crash, Signal, EndProcess, lockVars
  <2>2. role' = [role EXCEPT ![p] = "down"] \/ role' = [role EXCEPT ![p] = "draining"]
    BY <1>8 DEF GiveUp, Quit, Exit, Crash, Signal, EndProcess
  <2>3. /\ seen' = [seen EXCEPT ![p] = Unseen]
        /\ \/ try' = [try EXCEPT ![p] = try[p]]
           \/ try' = [try EXCEPT ![p] = NoTry]
        /\ left' = [left EXCEPT ![p] = 0]
    BY <2>1 DEF LeaveElector
  <2> QED
    BY <1>1, <2>1, <2>2, <2>3 DEF Local
<1> QED
  BY <1>2, <1>3, <1>4, <1>5, <1>6, <1>7, <1>8 DEF Step

\* A write is never another's than the leader's, and nobody waits for the answer to an
\* earlier one.
LEMMA WriteSafe ==
  ASSUME Safe, NEW p \in Process, Update(p), try[p].current
  PROVE  LeadersInTime' /\ UpdatesAllowed' /\ AnswersInTime' /\ ObservedLater'
<1> USE DurationsHold DEF Durations, Safe
<1>1. /\ holder' = p /\ lockAge' = 0 /\ UNCHANGED <<role, left>>
      /\ try[p].pc = "update"
  BY DEF Update
<1>2. /\ lockAge \in Nat
      /\ try \in [Process -> Tries] /\ seen \in [Process -> Records]
      /\ \A q \in Process : left[q] \in Nat /\ try[q].age \in Nat
  BY DEF TypeOK, Tries, Records
<1>3. holder \in {p, NoOne} \/ lockAge >= LeaseDuration
  BY <1>1 DEF UpdatesAllowed
<1>4. \A q \in Process : role[q] = "leading" => q = p
  BY <1>2, <1>3 DEF LeadersInTime
<1>5. \A q \in Process : try[q].pc = "answer" => q = p
  BY <1>2, <1>3 DEF AnswersInTime
<1>6. /\ \A q \in Process \ {p} : try'[q] = [try[q] EXCEPT !.current = FALSE]
      /\ try'[p] = NoTry \/ try'[p] = [try[p] EXCEPT !.pc = "answer"]
  <2>1. try' = [Outdate(try, p) EXCEPT
                  ![p] = IF Running(p) THEN [Outdate(try, p)[p] EXCEPT !.pc = "answer"] ELSE NoTry]
    BY DEF Update
  <2>2. Outdate(try, p) \in [Process -> Tries] /\ Outdate(try, p)[p] = try[p]
    BY OutdateTypes DEF Outdate
  <2>3. \A q \in Process \ {p} : Outdate(try, p)[q] = [try[q] EXCEPT !.current = FALSE]
    BY DEF Outdate
  <2> QED
    BY <2>1, <2>2, <2>3
<1>7. \A q \in Process : ~ seen'[q].current
  <2>1. seen' = [Outdate(seen, p) EXCEPT ![p] = [Outdate(seen, p)[p] EXCEPT !.current = FALSE]]
    BY DEF Update
  <2>2. Outdate(seen, p) \in [Process -> Records]
    BY OutdateTypes
  <2>3. \A q \in Process \ {p} : Outdate(seen, p)[q] = [seen[q] EXCEPT !.current = FALSE]
    BY DEF Outdate
  <2>4. \A q \in Process \ {p} : seen'[q] = [seen[q] EXCEPT !.current = FALSE]
    BY <2>1, <2>2, <2>3
  <2>5. seen'[p] = [Outdate(seen, p)[p] EXCEPT !.current = FALSE]
    BY <2>1, <2>2
  <2>6. Outdate(seen, p)[p] \in Records
    BY <2>2
  <2>7. ~ seen'[p].current
    BY <2>5, <2>6 DEF Records
  <2>8. \A q \in Process \ {p} : ~ seen'[q].current
    BY <1>2, <2>4 DEF Records
  <2> QED
    BY <2>7, <2>8
<1>8. LeadersInTime'
  BY <1>1, <1>2, <1>4 DEF LeadersInTime
<1>9. \A q \in Process \ {p} : ~ try'[q].current /\ try'[q].pc = try[q].pc /\ try'[q].age = try[q].age
  <2> TAKE q \in Process \ {p}
  <2>1. try'[q] = [try[q] EXCEPT !.current = FALSE] /\ try[q] \in Tries
    BY <1>2, <1>6
  <2> QED
    BY <2>1 DEF Tries
<1>10. try'[p].pc # "update" /\ (try'[p].age = 0 \/ try'[p].age = try[p].age)
  BY <1>2, <1>6 DEF Tries, NoTry
<1>11. UpdatesAllowed'
  BY <1>9, <1>10 DEF UpdatesAllowed
<1>12. AnswersInTime'
  BY <1>1, <1>2, <1>5, <1>9, <1>10 DEF AnswersInTime
<1>13. ObservedLater'
  BY <1>7 DEF ObservedLater
<1> QED
  BY <1>8, <1>11, <1>12, <1>13

\* Time passes for the record as for everybody.
LEMMA TickSafe ==
  ASSUME Safe, Tick
  PROVE  LeadersInTime' /\ UpdatesAllowed' /\ AnswersInTime' /\ ObservedLater'
<1> USE DurationsHold DEF Durations, Safe
<1>1. /\ holder' = holder /\ role' = role /\ lockAge' = Older(lockAge)
      /\ lockAge \in 0..LeaseDuration
      /\ try \in [Process -> Tries] /\ seen \in [Process -> Records]
      /\ left \in [Process -> Nat]
  BY DEF Tick, TypeOK, Tries, Records
<1>2. /\ \A a \in 0..LeaseDuration :
           Older(a) \in 0..LeaseDuration /\ a <= Older(a) /\ Older(a) <= a + 1
      /\ \A a, b \in 0..LeaseDuration : a <= b => Older(a) <= Older(b)
      /\ Older(LeaseDuration) = LeaseDuration
  BY DEF Older
<1>3. LeadersInTime'
  <2>1. ASSUME NEW q \in Process, role[q] = "leading"
        PROVE  holder = q /\ lockAge' + left'[q] <= MaxLatency + RetryPeriod + RenewDeadline
    <3>1. left[q] # 0 /\ left'[q] = Sooner(left[q]) /\ left[q] \in Nat
      BY <1>1, <2>1 DEF Tick
    <3>2. left'[q] = left[q] - 1
      BY <3>1 DEF Sooner
    <3>3. holder = q /\ lockAge + left[q] <= MaxLatency + RetryPeriod + RenewDeadline
      BY <2>1 DEF LeadersInTime
    <3> QED
      BY <1>1, <1>2, <3>1, <3>2, <3>3
  <2> QED
    BY <1>1, <2>1 DEF LeadersInTime
<1>4. \A q \in Process :
        /\ try'[q].pc = try[q].pc /\ try'[q].current = try[q].current
        /\ try[q].age \in 0..LeaseDuration
        /\ try[q].pc = "answer" => try'[q].age = Older(try[q].age) /\ try[q].age < MaxLatency
        /\ try[q].pc # "answer" => try'[q].age = try[q].age
  <2> TAKE q \in Process
  <2>1. try'[q] = IF try[q].pc = "answer" THEN [try[q] EXCEPT !.age = Older(try[q].age)] ELSE try[q]
    BY DEF Tick
  <2>2. try[q] \in Tries /\ [try[q] EXCEPT !.age = Older(try[q].age)].age = Older(try[q].age)
        /\ [try[q] EXCEPT !.age = Older(try[q].age)].pc = try[q].pc
        /\ [try[q] EXCEPT !.age = Older(try[q].age)].current = try[q].current
    BY <1>1 DEF Tries
  <2>3. try[q].age \in 0..LeaseDuration
    BY <2>2 DEF Tries
  <2>4. try[q].pc = "answer" => ~ (try[q].age >= MaxLatency)
    BY DEF Tick
  <2> QED
    BY <2>1, <2>2, <2>3, <2>4
<1>5. \A q \in Process :
        /\ seen'[q].holder = seen[q].holder /\ seen'[q].current = seen[q].current
        /\ seen[q].age \in 0..LeaseDuration
        /\ seen'[q].age \in {seen[q].age, Older(seen[q].age)}
  <2> TAKE q \in Process
  <2>1. seen'[q] = IF Running(q) THEN [seen[q] EXCEPT !.age = Older(seen[q].age)] ELSE seen[q]
    BY DEF Tick
  <2>2. seen[q] \in Records /\ [seen[q] EXCEPT !.age = Older(seen[q].age)].age = Older(seen[q].age)
        /\ [seen[q] EXCEPT !.age = Older(seen[q].age)].holder = seen[q].holder
        /\ [seen[q] EXCEPT !.age = Older(seen[q].age)].current = seen[q].current
    BY <1>1 DEF Records
  <2>3. seen[q].age \in 0..LeaseDuration
    BY <2>2 DEF Records
  <2> QED
    BY <2>1, <2>2, <2>3
<1>6. UpdatesAllowed'
  BY <1>1, <1>2, <1>4 DEF UpdatesAllowed
<1>7. AnswersInTime'
  <2> SUFFICES ASSUME NEW q \in Process
               PROVE  /\ try'[q].age <= MaxLatency
                      /\ try'[q].pc = "answer" => holder' = q /\ lockAge' <= try'[q].age
    BY DEF AnswersInTime
  <2>1. CASE try[q].pc = "answer"
    <3>1. holder = q /\ lockAge <= try[q].age
      BY <2>1 DEF AnswersInTime
    <3>2. try'[q].age = Older(try[q].age) /\ try[q].age < MaxLatency /\ try[q].age \in 0..LeaseDuration
      BY <1>4, <2>1
    <3>3. Older(lockAge) <= Older(try[q].age)
      BY <1>1, <1>2, <3>1, <3>2
    <3>4. Older(try[q].age) \in Nat /\ Older(try[q].age) <= try[q].age + 1
      BY <1>2, <3>2
    <3> QED
      BY <1>1, <3>1, <3>2, <3>3, <3>4
  <2>2. CASE try[q].pc # "answer"
    BY <1>4, <2>2 DEF AnswersInTime
  <2> QED
    BY <2>1, <2>2
<1>8. ObservedLater'
  <2> SUFFICES ASSUME NEW q \in Process, seen'[q].current
               PROVE  seen'[q].holder = holder' /\ seen'[q].age <= lockAge'
    BY DEF ObservedLater
  <2>1. seen[q].holder = holder /\ seen[q].age <= lockAge
    BY <1>5 DEF ObservedLater
  <2> QED
    BY <1>1, <1>2, <1>5, <2>1
<1> QED
  BY <1>3, <1>6, <1>7, <1>8

LEMMA NextSafe ==
  ASSUME Safe, [Next]_vars
  PROVE  Safe'
<1>1. TypeOK /\ TypeOK'
  BY NextTypes DEF Safe
<1>2. CASE UNCHANGED vars
  BY <1>2 DEF vars, Safe, TypeOK, LeadersInTime, UpdatesAllowed, AnswersInTime, ObservedLater
<1>3. CASE Tick
  BY <1>1, <1>3, TickSafe DEF Safe
<1>4. ASSUME NEW p \in Process,
             Step(p) \/ LoseTry(p) \/ Boot(p) \/ Signal(p) \/ Crash(p)
      PROVE  Safe'
  <2>1. CASE Update(p) /\ try[p].current
    BY <1>1, <2>1, WriteSafe DEF Safe
  <2>2. CASE ~ (Update(p) /\ try[p].current)
    BY <1>1, <1>4, <2>2, StepsAreLocal, LocalSafe DEF Safe
  <2> QED
    BY <2>1, <2>2
<1> QED
  BY <1>2, <1>3, <1>4 DEF Next

LEMMA InitSafe ==
  ASSUME Init
  PROVE  Safe
<1>1. TypeOK
  BY InitTypes
<1> QED
  BY <1>1, DurationsHold DEF Init, Durations, Unseen, NoTry, Safe, LeadersInTime, UpdatesAllowed,
       AnswersInTime, ObservedLater

LEMMA AlwaysSafe == Spec => []Safe
<1> QED
  BY InitSafe, NextSafe, PTL DEF Spec

\* The leader's record is its own and has not expired, whatever is lost, late or stopped,
\* for any durations that leave time for an answer.
THEOREM LeadersOwnTheLease == Spec => []LeaderOwnsTheLease
<1>1. Safe => LeaderOwnsTheLease
  BY DurationsHold DEF Safe, LeadersInTime, LeaderOwnsTheLease, Durations, TypeOK
<1> QED
  BY <1>1, AlwaysSafe, PTL

\* So no two processes lead at a time.
THEOREM OneLeaderAtMost == Spec => []AtMostOneLeader
<1>1. Safe => AtMostOneLeader
  BY DEF Safe, LeadersInTime, AtMostOneLeader
<1> QED
  BY <1>1, AlwaysSafe, PTL

-----------------------------------------------------------------------------
\* The abstract specification.

Shown == [p \in Process |-> IF role[p] \in {"leading", "draining"} THEN role[p] ELSE "down"]

\* A step of one process is one of Succession, or none.
LEMMA StepMaps ==
  ASSUME Safe, NEW p \in Process, NEW r \in Role, role' = [role EXCEPT ![p] = r],
         \/ r \notin {"leading", "draining"}
         \/ r = "draining" /\ role[p] = "leading"
         \/ r = "leading" /\ role[p] = "acquire" /\ try[p].pc = "answer"
  PROVE  [Roles!Next]_Shown
<1> USE DEF Safe
<1> DEFINE shown == IF r \in {"leading", "draining"} THEN r ELSE "down"
<1>1. role \in [Process -> Role]
  BY DEF TypeOK
<1>2. Shown' = [Shown EXCEPT ![p] = shown]
  BY <1>1 DEF Shown
<1>3. \A q \in Process : Shown[q] = IF role[q] \in {"leading", "draining"} THEN role[q] ELSE "down"
  BY DEF Shown
<1>4. CASE r \notin {"leading", "draining"}
  <2>1. CASE Shown[p] = "down"
    BY <1>2, <1>4, <2>1 DEF Shown
  <2>2. CASE Shown[p] # "down"
    <3>1. Roles!End(p)
      BY <1>2, <1>4, <2>2 DEF Roles!End, Shown
    <3> QED
      BY <3>1 DEF Roles!Next
  <2> QED
    BY <2>1, <2>2
<1>5. CASE r = "draining" /\ role[p] = "leading"
  <2>1. Roles!Stop(p)
    BY <1>2, <1>3, <1>5 DEF Roles!Stop, Shown
  <2> QED
    BY <2>1 DEF Roles!Next
<1>6. CASE r = "leading" /\ role[p] = "acquire" /\ try[p].pc = "answer"
  <2>1. holder = p
    BY <1>6 DEF AnswersInTime
  <2>2. \A q \in Process : role[q] # "leading"
    BY <1>6, <2>1 DEF LeadersInTime
  <2>3. \A q \in Process : Shown[q] # "leading"
    BY <1>3, <2>2
  <2>4. Shown[p] = "down" /\ shown = "leading"
    BY <1>3, <1>6
  <2>5. Roles!Start(p)
    BY <1>2, <2>3, <2>4 DEF Roles!Start, Shown
  <2> QED
    BY <2>5 DEF Roles!Next
<1> QED
  BY <1>4, <1>5, <1>6

LEMMA NextMaps ==
  ASSUME Safe, [Next]_vars
  PROVE  [Roles!Next]_Shown
<1> USE DEF Role
<1>1. CASE role' = role
  BY <1>1 DEF Shown
<1>2. CASE UNCHANGED vars \/ Tick
  BY <1>1, <1>2 DEF vars, Tick
<1>3. ASSUME NEW p \in Process, Step(p) PROVE [Roles!Next]_Shown
  <2>1. CASE Get(p) \/ Update(p) \/ Launch(p) \/ EndController(p)
    BY <1>1, <2>1 DEF Get, Update, Launch, EndController
  <2>2. CASE Answer(p)
    <3>1. try[p].pc = "answer"
      BY <2>2 DEF Answer
    <3>2. \/ role' = role
          \/ role[p] = "acquire" /\ role' = [role EXCEPT ![p] = "leading"]
          \/ role' = [role EXCEPT ![p] = "quitting"]
      BY <2>2 DEF Answer
    <3> QED
      BY <1>1, <3>1, <3>2, StepMaps
  <2>3. CASE GiveUp(p)
    BY <2>3, StepMaps DEF GiveUp
  <2>4. CASE Quit(p) \/ Exit(p)
    BY <2>4, StepMaps DEF Quit, Exit, EndProcess
  <2> QED
    BY <1>3, <2>1, <2>2, <2>3, <2>4 DEF Step
<1>4. ASSUME NEW p \in Process, LoseTry(p) \/ Boot(p) \/ Signal(p) \/ Crash(p)
      PROVE  [Roles!Next]_Shown
  <2>1. CASE LoseTry(p)
    BY <1>1, <2>1 DEF LoseTry
  <2>2. CASE Boot(p)
    BY <2>2, StepMaps DEF Boot
  <2>3. CASE Signal(p)
    <3>1. role' = role \/ (role[p] = "leading" /\ role' = [role EXCEPT ![p] = "draining"])
      BY <2>3 DEF Signal
    <3> QED
      BY <1>1, <3>1, StepMaps
  <2>4. CASE Crash(p)
    BY <2>4, StepMaps DEF Crash, EndProcess
  <2> QED
    BY <1>4, <2>1, <2>2, <2>3, <2>4
<1> QED
  BY <1>2, <1>3, <1>4 DEF Next

\* Leader election implements Succession, for any number of processes and any durations:
\* what SecretReplication takes for granted of the change of leaders is true of it.
THEOREM ElectionIsSuccession == Spec => IsSuccession
<1>1. Init => Roles!Init
  BY DEF Init, Roles!Init
<1>2. Safe /\ [Next]_vars => [Roles!Next]_Shown
  BY NextMaps
<1> QED
  BY <1>1, <1>2, AlwaysSafe, PTL DEF Spec, IsSuccession, Roles!Spec, Shown
=============================================================================
