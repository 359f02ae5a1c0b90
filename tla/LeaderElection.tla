--------------------------- MODULE LeaderElection ---------------------------
(***************************************************************************)
(* Which process runs the controllers: runWithLeaderElection with          *)
(* client-go's LeaderElector and its record in a ConfigMap, the `run`      *)
(* callback that launches the controllers, and the WaitGroup and signals   *)
(* that end a process.                                                     *)
(*                                                                         *)
(* Time is counted in ticks.  A process does what is due before the next   *)
(* tick; a request may hang for ever, but an answer that is used arrives   *)
(* at most MaxLatency after the request took effect.                       *)
(***************************************************************************)
EXTENDS Naturals

CONSTANTS
  Process,        \* replicas, each with its own host name
  NoOne,          \* no record yet
  LeaseDuration, RenewDeadline, RetryPeriod,
  MaxLatency,     \* from the effect of a request to its answer
  Controllers,    \* how many controllers `run` launches
  MaxFaults,      \* bound: requests or answers that are lost
  MaxCrashes,     \* bound: crashes, second signals included
  MaxSignals      \* bound: first signals

ASSUME ElectionAssumption ==
  /\ NoOne \notin Process
  /\ {LeaseDuration, RenewDeadline, RetryPeriod, MaxLatency, Controllers,
      MaxFaults, MaxCrashes, MaxSignals} \subseteq Nat

\* NewLeaderElector refuses a renewal that may not take 1.2 retry periods
\* (leaderelection.go:76, JitterFactor).
ASSUME DurationsAssumption == 5 * RenewDeadline > 6 * RetryPeriod

\* 60 s, 30 s and 15 s leave 15 s for the answer of a renewal.
ASSUME LatencyAssumption ==
  MaxLatency + RetryPeriod + RenewDeadline < LeaseDuration

VARIABLES
  holder,    \* the record's HolderIdentity
  lockAge,   \* time since its RenewTime, up to LeaseDuration
  role,      \* role[p]: what process p is up to
  ctx,       \* ctx[p]: no signal has cancelled main's context
  seen,      \* seen[p]: observedRecord: its holder, the time since observedTime
             \*   up to LeaseDuration, whether it is still the record
  try,       \* try[p]: where tryAcquireOrRenew is, whether the record it read is
             \*   still the record, the time since its Update took effect
  timer,     \* timer[p]: time until the next try
  left,      \* left[p]: time until a leader that cannot renew gives up
  launched,  \* launched[p]: calls of controllerWg.Add
  ended,     \* ended[p]: calls of controllerWg.Done
  budget     \* the bounded events that have happened

lockVars == <<holder, lockAge>>
runVars  == <<launched, ended>>
vars == <<holder, lockAge, role, ctx, seen, try, timer, left, launched, ended, budget>>

Role ==
  {"down",      \* no process
   "acquire",   \* in acquire
   "leading",   \* in renew: the controllers' context is alive
   "quitting",  \* got the lease when a signal had ended the context
   "draining"}  \* lost the lease or got a signal: in controllerWg.Wait

NoTry == [pc |-> "none", current |-> FALSE, age |-> 0]
Unseen == [holder |-> NoOne, age |-> 0, current |-> FALSE]

Init ==
  /\ holder = NoOne
  /\ lockAge = 0
  /\ role = [p \in Process |-> "down"]
  /\ ctx = [p \in Process |-> TRUE]
  /\ seen = [p \in Process |-> Unseen]
  /\ try = [p \in Process |-> NoTry]
  /\ timer = [p \in Process |-> 0]
  /\ left = [p \in Process |-> 0]
  /\ launched = [p \in Process |-> 0]
  /\ ended = [p \in Process |-> 0]
  /\ budget = [faults |-> 0, crashes |-> 0, signals |-> 0]

Spend(what, max) ==
  /\ budget[what] < max
  /\ budget' = [budget EXCEPT ![what] = @ + 1]

-----------------------------------------------------------------------------
\* tryAcquireOrRenew.

\* The mutant's acquire does not look at the context.
TryingForEver(p) == role[p] \in {"acquire", "leading"}
Trying(p) == role[p] = "leading" \/ (role[p] = "acquire" /\ ctx[p])

Running(p) == role[p] \in {"acquire", "leading"}
Due(p) == Trying(p) /\ try[p].pc = "none" /\ timer[p] = 0

\* The next try: acquire waits with jitter, renew polls with a ticker.
Backoff(p) == IF role[p] = "leading" THEN 0..RetryPeriod
              ELSE RetryPeriod..(11 * RetryPeriod) \div 5

TryFails(p) ==
  /\ try' = [try EXCEPT ![p] = NoTry]
  /\ \E t \in Backoff(p) : timer' = [timer EXCEPT ![p] = t]

\* The record differs from the one observed before: its time starts now.  The
\* mutant takes the time of every read.
ObservedAfresh(p) ==
  IF holder = NoOne THEN seen[p]
  ELSE [holder |-> holder, age |-> 0, current |-> TRUE]
Observed(p) ==
  IF seen[p].current \/ holder = NoOne THEN seen[p]
  ELSE [holder |-> holder, age |-> 0, current |-> TRUE]

\* Lock.Get and the test of identity and time.  The mutant takes its own stale
\* observedTime for the record's.
MayUpdateEarly(p, record) ==
  holder = NoOne \/ record.holder = p \/ seen[p].age >= LeaseDuration
MayUpdate(p, record) ==
  holder = NoOne \/ record.holder = p \/ record.age >= LeaseDuration

Get(p) ==
  LET record == Observed(p) IN
  /\ Due(p)
  /\ seen' = [seen EXCEPT ![p] = record]
  /\ IF MayUpdate(p, record)
     THEN /\ try' = [try EXCEPT ![p] = [pc |-> "update", current |-> TRUE, age |-> 0]]
          /\ UNCHANGED timer
     ELSE TryFails(p)
  /\ UNCHANGED <<lockVars, role, ctx, left, runVars, budget>>

\* A write makes every other copy of the record an old one.
Outdate(f, p) == [q \in Process |-> IF q = p THEN f[q] ELSE [f[q] EXCEPT !.current = FALSE]]

\* Lock.Create or Lock.Update at the API server, which checks the version.  Nobody
\* waits for the answer to a try that was left behind.  The mutant sends no version.
UpdateUnversioned(p) ==
  /\ try[p].pc = "update"
  /\ holder' = p
  /\ lockAge' = 0
  /\ try' = [Outdate(try, p) EXCEPT
               ![p] = IF Running(p) THEN [@ EXCEPT !.pc = "answer"] ELSE NoTry]
  /\ seen' = [Outdate(seen, p) EXCEPT ![p].current = FALSE]
  /\ UNCHANGED <<role, ctx, timer, left, runVars, budget>>

Update(p) ==
  /\ try[p].pc = "update"
  /\ IF try[p].current
     THEN /\ holder' = p
          /\ lockAge' = 0
          /\ try' = [Outdate(try, p) EXCEPT
                       ![p] = IF Running(p) THEN [@ EXCEPT !.pc = "answer"] ELSE NoTry]
          /\ seen' = [Outdate(seen, p) EXCEPT ![p].current = FALSE]
          /\ UNCHANGED timer
     ELSE /\ TryFails(p)
          /\ UNCHANGED <<lockVars, seen>>
  /\ UNCHANGED <<role, ctx, left, runVars, budget>>

\* A request or its answer is lost.
LoseTry(p) ==
  /\ Due(p) \/ try[p].pc # "none"
  /\ Spend("faults", MaxFaults)
  /\ TryFails(p)
  /\ UNCHANGED <<lockVars, role, ctx, seen, left, runVars>>

\* The answer: acquire returns and Run goes on to renew, or renew waits for its
\* next round.
Answer(p) ==
  /\ try[p].pc = "answer"
  /\ try' = [try EXCEPT ![p] = NoTry]
  /\ seen' = [seen EXCEPT ![p] = [holder |-> p, age |-> 0, current |-> try[p].current]]
  /\ \/ /\ role[p] = "acquire"
        /\ role' = [role EXCEPT ![p] = IF ctx[p] THEN "leading" ELSE "quitting"]
        /\ left' = [left EXCEPT ![p] = RenewDeadline]
        /\ timer' = [timer EXCEPT ![p] = 0]
     \/ /\ role[p] = "leading"
        /\ left' = [left EXCEPT ![p] = RetryPeriod + RenewDeadline]
        /\ timer' = [timer EXCEPT ![p] = RetryPeriod]
        /\ UNCHANGED role
  /\ UNCHANGED <<lockVars, ctx, runVars, budget>>

-----------------------------------------------------------------------------
\* The life of a process.

\* Run returns, or the process ends: the elector's state is gone, but a request
\* on its way may still take effect.
LeaveElector(p) ==
  /\ seen' = [seen EXCEPT ![p] = Unseen]
  /\ try' = [try EXCEPT ![p] = IF @.pc = "update" THEN @ ELSE NoTry]
  /\ timer' = [timer EXCEPT ![p] = 0]
  /\ left' = [left EXCEPT ![p] = 0]

EndProcess(p) ==
  /\ role' = [role EXCEPT ![p] = "down"]
  /\ ctx' = [ctx EXCEPT ![p] = TRUE]
  /\ launched' = [launched EXCEPT ![p] = 0]
  /\ ended' = [ended EXCEPT ![p] = 0]
  /\ LeaveElector(p)

\* The kubelet starts it.
Boot(p) ==
  /\ role[p] = "down"
  /\ role' = [role EXCEPT ![p] = "acquire"]
  /\ try' = [try EXCEPT ![p] = NoTry]
  /\ UNCHANGED <<lockVars, ctx, seen, timer, left, runVars, budget>>

\* The deadline of the round is over: renew returns and Run cancels the context
\* of the controllers.  The mutant only reports it.
GiveUpLate(p) ==
  /\ role[p] = "leading"
  /\ left[p] = 0
  /\ left' = [left EXCEPT ![p] = RenewDeadline]
  /\ UNCHANGED <<lockVars, role, ctx, seen, try, timer, runVars, budget>>

GiveUp(p) ==
  /\ role[p] = "leading"
  /\ left[p] = 0
  /\ role' = [role EXCEPT ![p] = "draining"]
  /\ LeaveElector(p)
  /\ UNCHANGED <<lockVars, ctx, runVars, budget>>

\* SIGTERM: a leader stops at once, and does not give the lease back.
Signal(p) ==
  /\ ctx[p]
  /\ Spend("signals", MaxSignals)
  /\ ctx' = [ctx EXCEPT ![p] = FALSE]
  /\ \/ /\ role[p] = "acquire"
        /\ UNCHANGED <<role, seen, try, timer, left>>
     \/ /\ role[p] = "leading"
        /\ role' = [role EXCEPT ![p] = "draining"]
        /\ LeaveElector(p)
  /\ UNCHANGED <<lockVars, runVars>>

\* acquire returns false between two tries; nothing was launched.
Quit(p) ==
  /\ role[p] = "acquire"
  /\ ~ ctx[p]
  /\ try[p].pc = "none"
  /\ EndProcess(p)
  /\ UNCHANGED <<lockVars, budget>>

\* `run`, a goroutine of its own, launches the controllers one by one, whatever
\* has become of the context.
Launch(p) ==
  /\ role[p] \in {"leading", "quitting", "draining"}
  /\ launched[p] < Controllers
  /\ launched' = [launched EXCEPT ![p] = @ + 1]
  /\ UNCHANGED <<lockVars, role, ctx, seen, try, timer, left, ended, budget>>

\* Start of a controller returns (WorkerPool).  The mutant calls Done once more.
EndControllerTwice(p) ==
  /\ role[p] \in {"quitting", "draining"}
  /\ ended[p] <= launched[p]
  /\ ended' = [ended EXCEPT ![p] = @ + 1]
  /\ UNCHANGED <<lockVars, role, ctx, seen, try, timer, left, launched, budget>>

EndController(p) ==
  /\ role[p] \in {"quitting", "draining"}
  /\ ended[p] < launched[p]
  /\ ended' = [ended EXCEPT ![p] = @ + 1]
  /\ UNCHANGED <<lockVars, role, ctx, seen, try, timer, left, launched, budget>>

\* controllerWg.Wait returns, perhaps before `run` has launched them all.
Exit(p) ==
  /\ role[p] \in {"quitting", "draining"}
  /\ ended[p] = launched[p]
  /\ EndProcess(p)
  /\ UNCHANGED <<lockVars, budget>>

\* Whatever ends a process at once.
Crash(p) ==
  /\ role[p] # "down"
  /\ Spend("crashes", MaxCrashes)
  /\ EndProcess(p)
  /\ UNCHANGED lockVars

Older(age) == IF age < LeaseDuration THEN age + 1 ELSE age
Sooner(t) == IF t > 0 THEN t - 1 ELSE t

Tick ==
  /\ \A p \in Process :
       /\ ~ Due(p)
       /\ ~ (role[p] = "leading" /\ left[p] = 0)
       /\ ~ (try[p].pc = "answer" /\ try[p].age >= MaxLatency)
  /\ lockAge' = Older(lockAge)
  /\ seen' = [p \in Process |->
                IF Running(p) THEN [seen[p] EXCEPT !.age = Older(@)] ELSE seen[p]]
  /\ try' = [p \in Process |->
               IF try[p].pc = "answer" THEN [try[p] EXCEPT !.age = Older(@)] ELSE try[p]]
  /\ timer' = [p \in Process |-> Sooner(timer[p])]
  /\ left' = [p \in Process |-> Sooner(left[p])]
  /\ UNCHANGED <<holder, role, ctx, runVars, budget>>

-----------------------------------------------------------------------------
Step(p) ==
  \/ Get(p)
  \/ Update(p)
  \/ Answer(p)
  \/ GiveUp(p)
  \/ Quit(p)
  \/ Launch(p)
  \/ EndController(p)
  \/ Exit(p)

Next ==
  \/ \E p \in Process : Step(p) \/ LoseTry(p) \/ Boot(p) \/ Signal(p) \/ Crash(p)
  \/ Tick

Spec == Init /\ [][Next]_vars

\* Processes run, time passes, requests are answered or fail.  Nothing makes the
\* kubelet start a process.
Fairness == WF_vars(Tick) /\ \A p \in Process : WF_vars(Step(p))

FairSpec == Spec /\ Fairness

-----------------------------------------------------------------------------
TypeOK ==
  /\ holder \in Process \cup {NoOne}
  /\ lockAge \in 0..LeaseDuration
  /\ role \in [Process -> Role]
  /\ ctx \in [Process -> BOOLEAN]
  /\ seen \in [Process -> [holder : Process \cup {NoOne}, age : 0..LeaseDuration,
                           current : BOOLEAN]]
  /\ try \in [Process -> [pc : {"none", "update", "answer"}, current : BOOLEAN,
                          age : 0..LeaseDuration]]
  /\ timer \in [Process -> Nat]
  /\ left \in [Process -> Nat]
  /\ launched \in [Process -> 0..Controllers]
  /\ ended \in [Process -> 0..Controllers]
  /\ budget \in [{"faults", "crashes", "signals"} -> Nat]

\* No two processes run the controllers with a live context, through lost
\* requests, late ones, crashes and signals, as long as an answer takes less than
\* LeaseDuration - RenewDeadline - RetryPeriod (leader-election.go:31-33) and clocks go
\* at one rate: client-go tolerates skew, "but is not tolerant to arbitrary clock skew
\* rate" (leaderelection.go:23-24).
AtMostOneLeader ==
  \A p, q \in Process : role[p] = "leading" /\ role[q] = "leading" => p = q

\* The leader's record is the one at the API server, and not expired: whoever
\* leads still owns the lease.
LeaderOwnsTheLease ==
  \A p \in Process : role[p] = "leading" => holder = p /\ lockAge < LeaseDuration

Roles == INSTANCE Succession WITH
           role <- [p \in Process |->
                      IF role[p] \in {"leading", "draining"} THEN role[p] ELSE "down"]

\* Leader election implements Succession: a process begins only when no other
\* leads, but it does not wait for one that still drains its queues.
IsSuccession == Roles!Spec

\* A standby does not wait for ever, whatever became of the process whose record it
\* sees: the record expires and somebody leads, unless the standby is stopped
\* (tryAcquireOrRenew's test of observedTime, leaderelection.go:282-291).
StandbyTakesOver ==
  \A p \in Process :
    (role[p] = "acquire" /\ ctx[p])
      ~> ((\E q \in Process : role[q] = "leading") \/ role[p] = "down" \/ ~ ctx[p])

\* A process that got a signal or lost the lease comes to its end, also when the
\* signal finds it in the middle of a try.
StoppedProcessEnds ==
  \A p \in Process :
    (role[p] \in {"quitting", "draining"} \/ (role[p] = "acquire" /\ ~ ctx[p]))
      ~> role[p] = "down"
=============================================================================
