-------------------------- MODULE AwaitScope_proofs --------------------------
(***************************************************************************)
(* A scope of processes, for any number of tasks, any timeout and every    *)
(* plan.                                                                   *)
(*                                                                         *)
(* First the reducer alone: a scope never runs dry, never runs too much,   *)
(* and decides once.  What needs an argument is FillCapacity: that some    *)
(* pending task starts when nothing runs (the first of them has nobody     *)
(* before it), and that what runs afterwards is at most the limit          *)
(* (everything that runs was counted before the last task that started).   *)
(*                                                                         *)
(* Then the composition.  The invariant of the reducer (ScopeInv) is       *)
(* joined to the host's by Coupled: what the reducer takes for waiting or  *)
(* cancelled before its start has no process, and what it takes for        *)
(* settled was reported by the one receipt its process left.  Hence a live *)
(* process is a running task, and the limit on tasks is a limit on         *)
(* processes.                                                              *)
(***************************************************************************)
EXTENDS AwaitScope, FiniteSetTheorems, WellFoundedInduction, TLAPS

USE PlanAssumption

-----------------------------------------------------------------------------
(* The reducer alone *)

Statuses == {"pending", "running"} \cup Results
Assignments == [Tasks -> Statuses]

LEMMA Least ==
  ASSUME NEW S \in SUBSET Nat, S # {}
  PROVE  \E m \in S : \A n \in S : m <= n
<1>1. PICK m \in S : \A n \in S : <<n, m>> \notin OpToRel(<, Nat)
  BY WFMin, NatLessThanWellFounded, Zenon
<1>2. \A n \in S : ~(n < m) BY <1>1 DEF OpToRel
<1> QED BY <1>2

LEMMA Greatest ==
  ASSUME NEW S \in SUBSET Tasks, S # {}
  PROVE  \E m \in S : \A n \in S : n <= m
<1> DEFINE Depths == {TaskCount - t : t \in S}
<1>1. \A t \in S : t \in Nat /\ t <= TaskCount /\ TaskCount - t \in Nat BY DEF Tasks
<1>2. Depths \in SUBSET Nat BY <1>1
<1>3. Depths # {} OBVIOUS
<1>4. PICK d \in Depths : \A e \in Depths : d <= e BY <1>2, <1>3, Least
<1>5. PICK m \in S : d = TaskCount - m OBVIOUS
<1>6. ASSUME NEW n \in S PROVE n <= m
  <2>1. TaskCount - m <= TaskCount - n BY <1>4, <1>5
  <2> HIDE DEF Depths
  <2> QED BY <2>1, <1>1
<1> QED BY <1>6

LEMMA TasksFinite == \A S \in SUBSET Tasks : IsFiniteSet(S) /\ Cardinality(S) \in Nat
<1>1. IsFiniteSet(Tasks) BY FS_Interval DEF Tasks
<1>2. ASSUME NEW S \in SUBSET Tasks PROVE IsFiniteSet(S) BY <1>1, FS_Subset
<1> QED BY <1>2, FS_CardinalityType

(* The tasks FillCapacity counts before it starts t. *)
Before(ts, t) == {u \in Tasks : ts[u] = "running" \/ (ts[u] = "pending" /\ u < t)}

LEMMA Filled ==
  ASSUME NEW ts \in Assignments, NEW t \in Tasks
  PROVE  FillCapacity(ts)[t] =
           IF ts[t] = "pending" /\ Cardinality(Before(ts, t)) < plan.maxInFlight
           THEN "running" ELSE ts[t]
BY DEF FillCapacity, Before

LEMMA FilledType ==
  ASSUME NEW ts \in Assignments
  PROVE  /\ FillCapacity(ts) \in Assignments
         /\ Running(ts) \subseteq Running(FillCapacity(ts))
BY Filled DEF FillCapacity, Assignments, Statuses, Running

(* Unless everything is settled, something runs. *)
LEMMA FilledRuns ==
  ASSUME plan \in Plans, NEW ts \in Assignments,
         NEW t \in Tasks, FillCapacity(ts)[t] \notin Results
  PROVE  Running(FillCapacity(ts)) # {}
<1>1. CASE Running(ts) # {} BY <1>1, FilledType
<1>2. CASE Running(ts) = {}
  <2>1. Pending(ts) \in SUBSET Nat /\ t \in Pending(ts)
    BY <1>2, Filled DEF Pending, Running, Assignments, Statuses, Tasks
  <2>2. PICK first \in Pending(ts) : \A u \in Pending(ts) : first <= u
    BY <2>1, Least
  <2>3. first \in Tasks /\ ts[first] = "pending" BY <2>2 DEF Pending
  <2>4. Before(ts, first) = {}
    BY <1>2, <2>2, <2>3 DEF Before, Running, Pending, Tasks
  <2>5. FillCapacity(ts)[first] = "running"
    BY <2>3, <2>4, Filled, FS_EmptySet DEF Plans, Tasks
  <2> QED BY <2>3, <2>5 DEF Running
<1> QED BY <1>1, <1>2

(* The limit is kept. *)
LEMMA FilledBounded ==
  ASSUME plan \in Plans, NEW ts \in Assignments,
         Cardinality(Running(ts)) <= plan.maxInFlight
  PROVE  Cardinality(Running(FillCapacity(ts))) <= plan.maxInFlight
<1> DEFINE started == Running(FillCapacity(ts)) \ Running(ts)
<1>1. CASE started = {}
  <2>1. Running(FillCapacity(ts)) \subseteq Running(ts) BY <1>1
  <2>2. Running(ts) \subseteq Running(FillCapacity(ts)) BY FilledType
  <2>3. Running(FillCapacity(ts)) = Running(ts) BY <2>1, <2>2, Zenon
  <2> QED BY <2>3
<1>2. CASE started # {}
  <2>1. PICK last \in started : \A u \in started : u <= last
    BY <1>2, Greatest DEF Running
  <2>2. last \in Tasks /\ ts[last] = "pending"
        /\ Cardinality(Before(ts, last)) < plan.maxInFlight
    BY <2>1, Filled DEF Running
  <2>3. Running(FillCapacity(ts)) \subseteq Before(ts, last) \cup {last}
    <3>1. ASSUME NEW u \in Running(FillCapacity(ts)), u \notin Running(ts)
          PROVE  u \in Before(ts, last) \cup {last}
      <4>1. u \in Tasks /\ u <= last BY <2>1, <3>1 DEF Running
      <4>2. ts[u] = "pending" BY <3>1, <4>1, Filled DEF Running
      <4> QED BY <2>2, <4>1, <4>2 DEF Before, Tasks
    <3>2. Running(ts) \subseteq Before(ts, last) BY DEF Running, Before
    <3> QED BY <3>1, <3>2
  <2>4. /\ IsFiniteSet(Before(ts, last)) /\ Cardinality(Before(ts, last)) \in Nat
        /\ IsFiniteSet(Before(ts, last) \cup {last})
        /\ Cardinality(Running(FillCapacity(ts))) \in Nat
    BY <2>2, TasksFinite, FS_AddElement DEF Before, Running
  <2>5. Cardinality(Before(ts, last) \cup {last}) <= Cardinality(Before(ts, last)) + 1
    BY <2>4, FS_AddElement
  <2>6. Cardinality(Running(FillCapacity(ts))) <= Cardinality(Before(ts, last) \cup {last})
    BY <2>3, <2>4, FS_Subset
  <2> QED BY <2>2, <2>4, <2>5, <2>6, FS_AddElement DEF Plans, Tasks
<1> QED BY <1>1, <1>2

-----------------------------------------------------------------------------
(* The invariant *)

ScopeInv == ScopeTypeOK /\ ScopeAgrees /\ InFlightBounded

LEMMA StartScopeInv == StartScope => ScopeInv
<1> SUFFICES ASSUME StartScope PROVE ScopeInv OBVIOUS
<1> DEFINE idle == [t \in Tasks |-> "pending"]
<1>1. idle \in Assignments /\ Running(idle) = {}
  BY DEF Assignments, Statuses, Running
<1>2. tasks = FillCapacity(idle) /\ commands = Started(idle, FillCapacity(idle))
  BY DEF StartScope
<1>3. plan \in Plans /\ plan.maxInFlight \in Nat \ {0}
  BY DEF StartScope, Plans, Tasks
<1>4. tasks \in Assignments BY <1>1, <1>2, FilledType
<1>5. \A t \in Tasks : tasks[t] \notin Results
  BY <1>1, <1>2, Filled DEF Results
<1>6. Running(tasks) # {}
  <2>1. 1 \in Tasks BY DEF Tasks
  <2> QED BY <2>1, <1>1, <1>2, <1>3, <1>5, FilledRuns
<1>7. InFlightBounded
  <2>1. Cardinality(Running(idle)) <= plan.maxInFlight
    BY <1>1, <1>3, FS_EmptySet
  <2> QED BY <2>1, <1>1, <1>2, <1>3, FilledBounded DEF InFlightBounded
<1>8. commands \subseteq Commands
  BY <1>2 DEF Started, Pending, Command, Commands
<1>9. ScopeTypeOK
  BY <1>3, <1>4, <1>8 DEF ScopeTypeOK, StartScope, Assignments, Statuses, NoIntent
<1>10. ScopeAgrees BY <1>6 DEF ScopeAgrees, StartScope, Outcomes
<1> QED BY <1>7, <1>9, <1>10 DEF ScopeInv

(* Every way an event is answered, from any statuses in which no more than
   the limit run. *)
LEMMA CancellationKeeps ==
  ASSUME plan \in Plans, NEW ts \in Assignments, NEW at \in Nat,
         Cardinality(Running(ts)) <= plan.maxInFlight,
         NEW outcome \in Outcomes, NEW task \in Tasks \cup {NoTask},
         BeginCancellation(ts, at, outcome, task)
  PROVE  ScopeInv'
<1> USE DEF BeginCancellation
<1>1. tasks' \in Assignments BY DEF Assignments, Statuses, Results
<1>2. Running(tasks') = Running(ts) BY DEF Running, Assignments
<1>3. Pending(tasks') = {} BY DEF Pending
<1>4. commands' \subseteq Commands BY DEF Running, Command, Commands
<1>5. ScopeTypeOK'
  BY <1>1, <1>4 DEF ScopeTypeOK, Assignments, Statuses
<1>6. ScopeAgrees'
  <2>1. CASE Running(ts) = {}
    <3>1. \A t \in Tasks : tasks'[t] \in Results
      BY <2>1, <1>1, <1>2, <1>3 DEF Running, Pending, Assignments, Statuses
    <3> QED BY <2>1, <3>1 DEF ScopeAgrees, Outcomes
  <2>2. CASE Running(ts) # {}
    BY <2>2, <1>2, <1>3 DEF ScopeAgrees, Outcomes, NoIntent
  <2> QED BY <2>1, <2>2
<1>7. InFlightBounded' BY <1>2 DEF InFlightBounded
<1> QED BY <1>5, <1>6, <1>7 DEF ScopeInv

LEMMA ProceedKeeps ==
  ASSUME plan \in Plans, winner \in Tasks \cup {NoTask}, NEW ts \in Assignments, NEW at \in Nat,
         Cardinality(Running(ts)) <= plan.maxInFlight,
         Proceed(ts, at)
  PROVE  ScopeInv'
<1> DEFINE filled == FillCapacity(ts)
<1> DEFINE over == \A t \in Tasks : filled[t] \in Results
<1>1. /\ tasks' = filled /\ elapsed' = at /\ UNCHANGED <<plan, winner>>
      /\ ~over => scopeStatus' = "running" /\ intent' = NoIntent
      /\ over => scopeStatus' \in {"succeeded", "failed"} /\ intent' = scopeStatus'
      /\ commands' \subseteq Started(ts, filled) \cup {Command("terminal", NoTask)}
  BY DEF Proceed
<1> HIDE DEF filled
<1>2. tasks' \in Assignments BY <1>1, FilledType DEF filled
<1>3. commands' \subseteq Commands
  BY <1>1 DEF Started, Pending, Command, Commands
<1>4. ScopeTypeOK'
  BY <1>1, <1>2, <1>3 DEF ScopeTypeOK, Assignments, Statuses, Outcomes, NoIntent
<1>5. ScopeAgrees'
  <2>1. CASE over BY <1>1, <2>1 DEF ScopeAgrees, Outcomes
  <2>2. CASE ~over
    <3>1. Running(filled) # {} BY <2>2, FilledRuns DEF filled
    <3> QED BY <1>1, <2>2, <3>1 DEF ScopeAgrees, Outcomes
  <2> QED BY <2>1, <2>2
<1>6. InFlightBounded'
  BY <1>1, FilledBounded DEF InFlightBounded, filled
<1> QED BY <1>4, <1>5, <1>6 DEF ScopeInv

LEMMA CancellingKeeps ==
  ASSUME plan \in Plans, winner \in Tasks \cup {NoTask}, intent \in Outcomes,
         NEW ts \in Assignments, Pending(ts) = {}, NEW at \in Nat,
         Cardinality(Running(ts)) <= plan.maxInFlight,
         HandleCancellingTaskEvent(ts, at)
  PROVE  ScopeInv'
<1> USE DEF HandleCancellingTaskEvent
<1>1. commands' \subseteq Commands BY DEF Command, Commands
<1>2. ScopeTypeOK'
  BY <1>1 DEF ScopeTypeOK, Assignments, Statuses
<1>3. ScopeAgrees'
  <2>1. CASE Running(ts) = {}
    <3>1. \A t \in Tasks : ts[t] \in Results
      BY <2>1 DEF Running, Pending, Assignments, Statuses
    <3> QED BY <2>1, <3>1 DEF ScopeAgrees, Outcomes
  <2>2. CASE Running(ts) # {}
    BY <2>2 DEF ScopeAgrees, Outcomes, NoIntent
  <2> QED BY <2>1, <2>2
<1>4. InFlightBounded' BY DEF InFlightBounded
<1> QED BY <1>2, <1>3, <1>4 DEF ScopeInv

(* A task that is reported leaves the others as they are. *)
LEMMA Reported ==
  ASSUME ScopeInv, NEW t \in Tasks, NEW result \in Results
  PROVE  LET ts == [tasks EXCEPT ![t] = result] IN
         /\ ts \in Assignments
         /\ Running(ts) \subseteq Running(tasks) /\ Pending(ts) \subseteq Pending(tasks)
         /\ Cardinality(Running(ts)) <= plan.maxInFlight
<1> DEFINE ts == [tasks EXCEPT ![t] = result]
<1>1. tasks \in Assignments /\ plan.maxInFlight \in Nat
  BY DEF ScopeInv, ScopeTypeOK, Assignments, Statuses, Plans, Tasks
<1>2. ts \in Assignments BY <1>1 DEF Assignments, Statuses
<1>3. Running(ts) \subseteq Running(tasks) /\ Pending(ts) \subseteq Pending(tasks)
  BY <1>1 DEF Running, Pending, Assignments, Results
<1>4. Cardinality(Running(ts)) <= Cardinality(Running(tasks))
      /\ Cardinality(Running(ts)) \in Nat /\ Cardinality(Running(tasks)) \in Nat
  BY <1>3, TasksFinite, FS_Subset DEF Running
<1>5. Cardinality(Running(tasks)) <= plan.maxInFlight
  BY DEF ScopeInv, InFlightBounded
<1>6. Cardinality(Running(ts)) <= plan.maxInFlight
  <2> HIDE DEF ts
  <2> QED BY <1>1, <1>4, <1>5
<1> QED BY <1>2, <1>3, <1>6

LEMMA TaskEventKeeps ==
  ASSUME ScopeInv, NEW at \in Nat, NEW t \in Tasks, NEW result \in Results,
         TaskEvent(t, result, at)
  PROVE  ScopeInv'
<1> DEFINE ts == [tasks EXCEPT ![t] = result]
<1>1. /\ ts \in Assignments /\ Pending(ts) \subseteq Pending(tasks)
      /\ Cardinality(Running(ts)) <= plan.maxInFlight
  BY Reported
<1>2. plan \in Plans /\ winner \in Tasks \cup {NoTask}
  BY DEF ScopeInv, ScopeTypeOK
<1> HIDE DEF ts
<1>3. CASE scopeStatus = "cancelling" /\ HandleCancellingTaskEvent(ts, at)
  <2>1. intent \in Outcomes /\ Pending(tasks) = {}
    BY <1>3 DEF ScopeInv, ScopeTypeOK, ScopeAgrees
  <2> QED BY <1>1, <1>2, <1>3, <2>1, CancellingKeeps
<1>4. CASE HandleRunningTaskEvent(ts, t, result, at)
  <2>1. \/ \E outcome \in Outcomes, task \in Tasks \cup {NoTask} :
             BeginCancellation(ts, at, outcome, task)
        \/ Proceed(ts, at)
    BY <1>4, Zenon DEF HandleRunningTaskEvent, Outcomes
  <2>2. ASSUME NEW outcome \in Outcomes, NEW task \in Tasks \cup {NoTask},
               BeginCancellation(ts, at, outcome, task)
        PROVE  ScopeInv'
    BY <2>2, <1>1, <1>2, CancellationKeeps
  <2>3. CASE Proceed(ts, at) BY <2>3, <1>1, <1>2, ProceedKeeps
  <2> QED BY <2>1, <2>2, <2>3
<1> QED BY <1>3, <1>4 DEF TaskEvent, ts

LEMMA ScopeStep == ASSUME ScopeInv, [ScopeNext]_scopeVars PROVE ScopeInv'
<1>1. /\ tasks \in Assignments /\ plan \in Plans
      /\ Cardinality(Running(tasks)) <= plan.maxInFlight
  BY DEF ScopeInv, ScopeTypeOK, InFlightBounded, Assignments, Statuses
<1>2. ASSUME NEW at \in Nat, Tick(at) PROVE ScopeInv'
  <2>1. CASE BeginCancellation(tasks, at, "timed_out", NoTask)
    BY <1>1, <2>1, CancellationKeeps DEF Outcomes
  <2>2. CASE /\ elapsed' = at /\ commands' = {}
             /\ UNCHANGED <<plan, scopeStatus, intent, winner, tasks>>
    BY <2>2 DEF ScopeInv, ScopeTypeOK, ScopeAgrees, InFlightBounded
  <2> QED BY <1>2, <2>1, <2>2 DEF Tick
<1>3. ASSUME NEW at \in Nat, CancelScope(at) PROVE ScopeInv'
  BY <1>1, <1>3, CancellationKeeps DEF CancelScope, Outcomes
<1>4. ASSUME NEW at \in Nat, NEW t \in Tasks, NEW result \in Results,
             TaskEvent(t, result, at)
      PROVE  ScopeInv'
  BY <1>4, TaskEventKeeps
<1>5. CASE UNCHANGED scopeVars
  BY <1>5 DEF scopeVars, ScopeInv, ScopeTypeOK, ScopeAgrees, InFlightBounded
<1> QED BY <1>2, <1>3, <1>4, <1>5 DEF ScopeNext

(* The invariant holds after every event the reducer admits. *)
THEOREM ScopeInvariance == ScopeSpec => []ScopeInv
BY StartScopeInv, ScopeStep, PTL DEF ScopeSpec

-----------------------------------------------------------------------------
(* The results *)

(* For every plan and every sequence of events the scope and its tasks agree:
   work in flight while it runs, nothing waiting while it is cancelled, every
   task settled when it has ended (advanceStructuredAwait). *)
THEOREM ScopeAndTasksAgree == ScopeSpec => []ScopeAgrees
BY ScopeInvariance, PTL DEF ScopeInv

(* No event makes the scope run more tasks than its plan allows
   (fillCapacity, called by start and after every report). *)
THEOREM NeverAboveLimit == ScopeSpec => []InFlightBounded
BY ScopeInvariance, PTL DEF ScopeInv

(* The first decision stands: no later event changes the outcome or the
   winner, or starts a task (beginCancellation and the cancelling branch). *)
THEOREM FirstDecisionStands == ScopeSpec => DecisionStands
<1> DEFINE Stands == intent # NoIntent =>
             /\ intent' = intent /\ winner' = winner
             /\ Running(tasks') \subseteq Running(tasks)
<1>1. ASSUME ScopeInv, ScopeNext, intent # NoIntent PROVE Stands
  <2>1. scopeStatus # "running" BY <1>1 DEF ScopeInv, ScopeAgrees
  <2>2. ASSUME NEW at \in Nat, Tick(at) \/ CancelScope(at) PROVE Stands
    BY <2>1, <2>2 DEF Tick, CancelScope
  <2>3. ASSUME NEW at \in Nat, NEW t \in Tasks, NEW result \in Results,
               TaskEvent(t, result, at)
        PROVE  Stands
    <3>1. HandleCancellingTaskEvent([tasks EXCEPT ![t] = result], at)
      BY <2>1, <2>3 DEF TaskEvent, Admitted
    <3> QED BY <3>1, <1>1, Reported DEF HandleCancellingTaskEvent
  <2> QED BY <1>1, <2>2, <2>3 DEF ScopeNext
<1>2. ScopeInv /\ [ScopeNext]_scopeVars => [Stands]_scopeVars BY <1>1
<1> QED BY <1>2, ScopeInvariance, PTL DEF ScopeSpec, DecisionStands

-----------------------------------------------------------------------------
(* Reducer and host together *)

Runs ==
  [proc : {"none", "unborn", "alive", "exited"},
   exit : H!Exits \cup {H!NoCause},
   killCause : H!KillCauses \cup {H!NoCause},
   result : H!Causes \cup
     {H!NotSettled, "refused", "termination_unconfirmed", "receipt_unavailable"}]

HostTyped ==
  /\ run \in [Tasks -> Runs]
  /\ now \in Nat /\ lastIssued \in Nat /\ lastSeen \in Nat
  /\ receipts \subseteq [task : Tasks, cause : H!Causes, at : Nat, sequence : Nat \ {0}]
  /\ refused \subseteq receipts

(* What the host knows of one process hangs together. *)
Sound(x) ==
  /\ x.proc = "none" => x = H!NotRun
  /\ x.proc = "exited" => x.exit \in H!Exits
  /\ x.result \in H!Causes => x.proc \in {"unborn", "exited"}
  /\ x.result = "exit_zero" => x.exit = "exit_zero" /\ x.killCause = H!NoCause

(* A run leaves one receipt at most, and it names the cause it settled with. *)
ReceiptsTrue ==
  /\ \A r \in receipts : run[r.task].result = r.cause /\ r.at <= now
  /\ \A r, s \in receipts : r.task = s.task => r = s

(* Statuses that agree with the processes, when the verifier has come to the
   number `seen`. *)
Fits(ts, seen) ==
  \A t \in Tasks :
    /\ ts[t] = "pending" => run[t] = H!NotRun
    /\ ts[t] \in Results =>
         run[t] = H!NotRun \/ \E r \in receipts : r.task = t /\ r.sequence <= seen

Coupled ==
  /\ Fits(tasks, lastSeen)
  /\ \A t \in Tasks : Command("start", t) \in commands =>
       run[t] = H!NotRun /\ tasks[t] = "running" /\ scopeStatus = "running"

Earned(t) == \E r \in receipts : r.task = t /\ r.cause = "exit_zero" /\ r.at < TimeoutMs

AllEarned ==
  /\ scopeStatus = "running" =>
       winner = NoTask /\ \A t \in Tasks : tasks[t] = "succeeded" => Earned(t)
  /\ intent = "succeeded" =>
       \A t \in IF winner = NoTask THEN Tasks ELSE {winner} : Earned(t)

AwaitInv ==
  /\ ScopeInv
  /\ HostTyped
  /\ \A t \in Tasks : Sound(run[t])
  /\ ReceiptsTrue
  /\ Coupled
  /\ AllEarned
  /\ elapsed <= now
  /\ RefusedOnlyLate

Runner == {"unborn", "exited"}

LEMMA RunsDistinct ==
  /\ H!Causes = {"deadline_kill", "cancel_kill", "output_limit_kill", "spawn_failed",
                 "exit_zero", "exit_nonzero"}
  /\ H!NotRun \in Runs /\ Sound(H!NotRun) /\ H!NotRun.proc = "none"
  /\ H!NotRun.result \notin H!Causes
BY DEF H!Causes, H!KillCauses, H!Exits, H!NotRun, H!NoCause, H!NotSettled, Runs, Sound

-----------------------------------------------------------------------------
(* Steps of the host *)

(* What one callback, spawn or cancellation does: the run of one task moves
   on, unless it has left its receipt, and it may leave it now. *)
Moved(g) ==
  /\ run' \in [Tasks -> Runs] /\ \A t \in Tasks \ {g} : run'[t] = run[t]
  /\ Sound(run'[g])
  /\ run[g] # H!NotRun => run'[g].proc # "none"
  /\ run[g].result \in H!Causes => run'[g] = run[g]
  /\ UNCHANGED <<now, lastSeen>> /\ lastIssued' \in Nat
  /\ \/ receipts' = receipts
     \/ /\ run[g].result = H!NotSettled /\ run'[g].result \in H!Causes
        /\ receipts' = receipts \cup
             {[task |-> g, cause |-> run'[g].result, at |-> now, sequence |-> lastIssued + 1]}

LEMMA FinishMoves ==
  ASSUME HostTyped, NEW g \in Tasks, NEW x \in Runs, NEW cause \in H!Causes,
         run[g].result = H!NotSettled, x.proc \in Runner,
         x.proc = "exited" => x.exit \in H!Exits,
         cause = "exit_zero" => x.exit = "exit_zero" /\ x.killCause = H!NoCause,
         H!Finish(g, x, cause)
  PROVE  Moved(g)
<1> DEFINE y == [x EXCEPT !.result = cause]
           z == [x EXCEPT !.result = "receipt_unavailable"]
<1>1. /\ y \in Runs /\ y.result = cause /\ y.proc # "none" /\ Sound(y)
      /\ z \in Runs /\ z.result = "receipt_unavailable" /\ z.proc # "none" /\ Sound(z)
  BY RunsDistinct DEF Runs, Sound, Runner
<1>2. run[g].result \notin H!Causes BY RunsDistinct DEF H!NotSettled
<1>3. \/ /\ run' = [run EXCEPT ![g] = y] /\ H!Sign(g, cause) /\ UNCHANGED <<now, lastSeen>>
      \/ /\ run' = [run EXCEPT ![g] = z] /\ UNCHANGED <<now, lastIssued, receipts, lastSeen>>
  BY DEF H!Finish
<1> HIDE DEF y, z
<1>4. CASE run' = [run EXCEPT ![g] = y] /\ H!Sign(g, cause) /\ UNCHANGED <<now, lastSeen>>
  BY <1>1, <1>2, <1>4 DEF Moved, HostTyped, H!Sign
<1>5. CASE run' = [run EXCEPT ![g] = z] /\ UNCHANGED <<now, lastIssued, receipts, lastSeen>>
  BY <1>1, <1>2, <1>5 DEF Moved, HostTyped
<1> QED BY <1>3, <1>4, <1>5

LEMMA KillMoves ==
  ASSUME HostTyped, NEW g \in Tasks, NEW cause \in H!KillCauses,
         Sound(run[g]), H!HardKill(g, cause)
  PROVE  Moved(g)
<1> DEFINE y == [run[g] EXCEPT !.killCause = cause]
<1>1. run[g] \in Runs /\ run[g].result = H!NotSettled /\ run[g].proc # "none"
  BY DEF H!HardKill, H!Open, HostTyped
<1>2. y \in Runs /\ y.proc # "none" /\ Sound(y)
  BY <1>1, RunsDistinct DEF Runs, Sound, H!NotSettled
<1>3. run' = [run EXCEPT ![g] = y] /\ UNCHANGED <<now, lastIssued, receipts, lastSeen>>
  BY DEF H!HardKill
<1>4. run[g].result \notin H!Causes BY <1>1, RunsDistinct DEF H!NotSettled
<1> HIDE DEF y
<1> QED BY <1>2, <1>3, <1>4 DEF Moved, HostTyped

LEMMA HostMoves ==
  ASSUME HostTyped, NEW g \in Tasks, Sound(run[g]),
         H!Spawn(g) \/ H!CancelRun(g) \/ H!HostStep(g)
  PROVE  Moved(g)
<1>0. run[g] \in Runs BY DEF HostTyped
<1>1. CASE H!Spawn(g)
  <2>1. run[g] = H!NotRun /\ run[g].result = H!NotSettled BY <1>1 DEF H!Spawn, H!NotRun
  <2>2. ASSUME NEW proc \in {"alive", "unborn"}, run' = [run EXCEPT ![g].proc = proc],
               UNCHANGED <<now, lastIssued, receipts, lastSeen>>
        PROVE  Moved(g)
    <3> DEFINE y == [run[g] EXCEPT !.proc = proc]
    <3>1. y \in Runs /\ y.proc # "none" /\ Sound(y)
      BY <1>0, <2>1, RunsDistinct DEF Runs, Sound, H!NotSettled
    <3>2. run' = [run EXCEPT ![g] = y] BY <2>2
    <3>3. run[g].result \notin H!Causes BY <2>1, RunsDistinct
    <3> HIDE DEF y
    <3> QED BY <2>2, <3>1, <3>2, <3>3 DEF Moved, HostTyped
  <2>3. CASE H!Finish(g, [run[g] EXCEPT !.proc = "unborn"], "spawn_failed")
    <3> DEFINE x == [run[g] EXCEPT !.proc = "unborn"]
    <3>1. x \in Runs /\ x.proc = "unborn" /\ "spawn_failed" \in H!Causes
      BY <1>0, RunsDistinct DEF Runs
    <3>2. H!Finish(g, x, "spawn_failed") BY <2>3
    <3> HIDE DEF x
    <3> QED BY <2>1, <3>1, <3>2, FinishMoves DEF Runner
  <2> DEFINE y == [run[g] EXCEPT !.proc = "unborn", !.result = "refused"]
  <2>4. CASE run' = [run EXCEPT ![g] = y] /\ UNCHANGED <<now, lastIssued, receipts, lastSeen>>
    <3>1. y \in Runs /\ y.proc # "none" /\ Sound(y)
      BY <1>0, <2>1, RunsDistinct DEF Runs, Sound, H!NotSettled
    <3>2. run[g].result \notin H!Causes BY <2>1, RunsDistinct
    <3> HIDE DEF y
    <3> QED BY <2>4, <3>1, <3>2 DEF Moved, HostTyped
  <2> QED BY <1>1, <2>2, <2>3, <2>4 DEF H!Spawn
<1>2. CASE H!CancelRun(g)
  <2>1. CASE H!HardKill(g, "cancel_kill") BY <2>1, KillMoves DEF H!KillCauses
  <2>2. CASE UNCHANGED <<run, now, lastIssued, receipts, lastSeen>>
    BY <2>2 DEF Moved, HostTyped, Sound
  <2> QED BY <1>2, <2>1, <2>2 DEF H!CancelRun
<1>3. CASE H!OnError(g)
  <2>1. CASE run[g].proc = "unborn" /\ H!Finish(g, run[g], "spawn_failed")
    BY <1>0, <1>3, <2>1, FinishMoves, RunsDistinct DEF H!OnError, H!Open, Runner
  <2>2. CASE H!HardKill(g, "spawn_failed") BY <2>2, KillMoves DEF H!KillCauses
  <2> QED BY <1>3, <2>1, <2>2 DEF H!OnError
<1>4. CASE H!OnClose(g)
  <2>1. /\ run[g].result = H!NotSettled /\ run[g].proc \in Runner
        /\ run[g].proc = "exited" => run[g].exit \in H!Exits
    BY <1>4 DEF H!OnClose, H!Open, Runner, Sound
  <2>2. PICK cause : H!Finish(g, run[g], cause) /\
             \/ run[g].killCause # H!NoCause /\ cause = run[g].killCause
             \/ run[g].killCause = H!NoCause /\ run[g].proc = "unborn" /\ cause = "exit_nonzero"
             \/ run[g].killCause = H!NoCause /\ run[g].proc # "unborn" /\ cause = run[g].exit
    BY <1>4, Zenon DEF H!OnClose
  <2>3. /\ cause \in H!Causes
        /\ cause = "exit_zero" => run[g].exit = "exit_zero" /\ run[g].killCause = H!NoCause
    BY <1>0, <2>1, <2>2 DEF Runs, Runner, H!Causes, H!KillCauses, H!Exits
  <2> QED BY <1>0, <2>1, <2>2, <2>3, FinishMoves
<1>5. CASE H!OnFlood(g) \/ H!DeadlineTimer(g)
  BY <1>5, KillMoves DEF H!OnFlood, H!DeadlineTimer, H!KillCauses
<1>6. CASE H!ConfirmTimer(g)
  <2> DEFINE y == [run[g] EXCEPT !.result = "termination_unconfirmed"]
  <2>1. run[g].result = H!NotSettled /\ run[g].proc # "none"
    BY <1>6 DEF H!ConfirmTimer, H!Open
  <2>2. y \in Runs /\ y.proc # "none" /\ Sound(y)
    BY <1>0, <2>1, RunsDistinct DEF Runs, Sound
  <2>3. run' = [run EXCEPT ![g] = y] /\ UNCHANGED <<now, lastIssued, receipts, lastSeen>>
    BY <1>6 DEF H!ConfirmTimer
  <2>4. run[g].result \notin H!Causes BY <2>1, RunsDistinct DEF H!NotSettled
  <2> HIDE DEF y
  <2> QED BY <2>2, <2>3, <2>4 DEF Moved, HostTyped
<1>7. CASE H!Exit(g)
  <2>1. PICK exit \in H!Exits : run' = [run EXCEPT ![g].proc = "exited", ![g].exit = exit]
    BY <1>7 DEF H!Exit
  <2> DEFINE y == [run[g] EXCEPT !.proc = "exited", !.exit = exit]
  <2>2. run[g].proc = "alive" /\ UNCHANGED <<now, lastIssued, receipts, lastSeen>>
    BY <1>7 DEF H!Exit
  <2>3. run[g].result \notin H!Causes BY <2>2 DEF Sound
  <2>4. y \in Runs /\ y.proc # "none" /\ Sound(y)
    BY <1>0, <2>2, <2>3, RunsDistinct DEF Runs, Sound, H!Exits
  <2>5. run' = [run EXCEPT ![g] = y] BY <1>0, <2>1 DEF HostTyped
  <2> HIDE DEF y
  <2> QED BY <2>2, <2>3, <2>4, <2>5 DEF Moved, HostTyped
<1> QED BY <1>1, <1>2, <1>3, <1>4, <1>5, <1>6, <1>7 DEF H!HostStep

(* The parts of the invariant that speak of the host alone. *)
HostInv == HostTyped /\ (\A t \in Tasks : Sound(run[t])) /\ ReceiptsTrue /\ elapsed <= now

LEMMA Spoken ==
  ASSUME HostInv, NEW r \in receipts
  PROVE  /\ r.task \in Tasks /\ r.at \in Nat /\ r.sequence \in Nat
         /\ run[r.task].result = r.cause /\ r.cause \in H!Causes
         /\ run[r.task].proc \in Runner
         /\ run[r.task] # H!NotRun
BY RunsDistinct DEF HostInv, HostTyped, ReceiptsTrue, Sound, Runner

LEMMA MovedHost ==
  ASSUME AwaitInv, NEW g \in Tasks, Moved(g), elapsed' = elapsed, refused' = refused
  PROVE  /\ HostInv'
         /\ receipts \subseteq receipts'
         /\ \A r \in receipts : run'[r.task] = run[r.task]
<1>0. HostInv BY DEF AwaitInv, HostInv
<1>1. receipts \subseteq receipts' BY DEF Moved
<1>2. ASSUME NEW r \in receipts PROVE run'[r.task] = run[r.task]
  BY <1>0, Spoken DEF Moved
<1>3. HostTyped'
  <2>1. receipts' \subseteq [task : Tasks, cause : H!Causes, at : Nat, sequence : Nat \ {0}]
    BY <1>0 DEF Moved, HostInv, HostTyped
  <2> QED BY <1>0, <1>1, <2>1 DEF Moved, HostInv, HostTyped
<1>4. \A t \in Tasks : Sound(run[t])'
  BY <1>0 DEF Moved, HostInv, Sound
<1>5. ReceiptsTrue'
  <2>1. CASE receipts' = receipts
    BY <1>0, <1>2, <2>1 DEF HostInv, ReceiptsTrue, Moved
  <2>2. CASE run[g].result = H!NotSettled /\ run'[g].result \in H!Causes
             /\ receipts' = receipts \cup
                  {[task |-> g, cause |-> run'[g].result, at |-> now, sequence |-> lastIssued + 1]}
    <3>1. \A r \in receipts : r.task # g
      BY <1>0, <2>2, Spoken, RunsDistinct DEF H!NotSettled
    <3>2. now' = now /\ now \in Nat BY <1>0 DEF Moved, HostInv, HostTyped
    <3> QED BY <1>0, <1>2, <2>2, <3>1, <3>2 DEF HostInv, ReceiptsTrue
  <2> QED BY <2>1, <2>2 DEF Moved
<1>6. (elapsed <= now)' BY <1>0 DEF Moved, HostInv
<1> QED BY <1>1, <1>2, <1>3, <1>4, <1>5, <1>6 DEF HostInv

(* A step of the host, while the caller carries out commands: the reducer's
   state stands, and what starts was to be started. *)
LEMMA HostStepKeeps ==
  ASSUME AwaitInv, NEW g \in Tasks, Moved(g),
         UNCHANGED <<plan, elapsed, scopeStatus, intent, winner, tasks, refused>>,
         commands' \subseteq commands,
         \/ run'[g] = run[g]
         \/ run[g] # H!NotRun
         \/ tasks[g] = "running" /\ Command("start", g) \notin commands'
  PROVE  AwaitInv'
<1>1. HostInv' /\ receipts \subseteq receipts' BY MovedHost
<1>2. ScopeInv'
  BY DEF AwaitInv, ScopeInv, ScopeTypeOK, ScopeAgrees, InFlightBounded
<1>3. ASSUME NEW t \in Tasks, run[t] = H!NotRun, run'[t] # H!NotRun
      PROVE  t = g /\ tasks[t] = "running" /\ Command("start", t) \notin commands'
  BY <1>3 DEF Moved
<1>4. \A t \in Tasks : Command("start", t) \in commands => run[t] = H!NotRun
  BY DEF AwaitInv, Coupled
<1>5. Coupled'
  <2>1. Fits(tasks, lastSeen)'
    <3>1. ASSUME NEW t \in Tasks, tasks[t] = "pending" PROVE run'[t] = H!NotRun
      BY <1>3, <3>1 DEF AwaitInv, Coupled, Fits
    <3>2. ASSUME NEW t \in Tasks, tasks[t] \in Results
          PROVE  run'[t] = H!NotRun \/ \E r \in receipts' : r.task = t /\ r.sequence <= lastSeen
      BY <1>1, <1>3, <3>2 DEF AwaitInv, Coupled, Fits, Results
    <3> QED BY <3>1, <3>2 DEF Fits, Moved
  <2>2. ASSUME NEW t \in Tasks, Command("start", t) \in commands'
        PROVE  run'[t] = H!NotRun /\ tasks[t] = "running" /\ scopeStatus = "running"
    BY <1>3, <2>2 DEF AwaitInv, Coupled
  <2> QED BY <2>1, <2>2 DEF Coupled
<1>6. AllEarned' BY <1>1 DEF AwaitInv, AllEarned, Earned
<1>7. RefusedOnlyLate' BY DEF AwaitInv, RefusedOnlyLate
<1> QED BY <1>1, <1>2, <1>5, <1>6, <1>7 DEF AwaitInv, HostInv

LEMMA ObeyKeeps == ASSUME AwaitInv, NEW c \in commands, Obey(c) PROVE AwaitInv'
<1>1. \A t \in Tasks : Sound(run[t]) BY DEF AwaitInv
<1>2. /\ commands' = commands \ {c}
      /\ UNCHANGED <<plan, elapsed, scopeStatus, intent, winner, tasks, refused>>
  BY DEF Obey
<1>3. commands \subseteq Commands BY DEF AwaitInv, ScopeInv, ScopeTypeOK
<1>4. CASE c.kind = "start" /\ H!Spawn(c.task)
  <2>1. c.task \in Tasks /\ c = Command("start", c.task)
    BY <1>3, <1>4 DEF Commands, Command
  <2>2. Moved(c.task) BY <1>1, <1>4, <2>1, HostMoves DEF AwaitInv
  <2>3. tasks[c.task] = "running" /\ Command("start", c.task) \notin commands'
    BY <1>2, <2>1 DEF AwaitInv, Coupled
  <2> QED BY <1>2, <2>1, <2>2, <2>3, HostStepKeeps
<1>5. CASE c.kind = "cancel" /\ H!CancelRun(c.task)
  <2>1. c.task \in Tasks BY <1>3, <1>5 DEF Commands
  <2>2. Moved(c.task) BY <1>1, <1>5, <2>1, HostMoves DEF AwaitInv
  <2>3. run'[c.task] = run[c.task] \/ run[c.task] # H!NotRun
    BY <1>5 DEF H!CancelRun, H!HardKill, H!Open, H!NotRun
  <2> QED BY <1>2, <2>1, <2>2, <2>3, HostStepKeeps
<1> QED BY <1>4, <1>5 DEF Obey

LEMMA WorldKeeps == ASSUME AwaitInv, NEW t \in Tasks, World(t) PROVE AwaitInv'
<1>1. Sound(run[t]) /\ HostTyped BY DEF AwaitInv
<1>2. Moved(t) BY <1>1, HostMoves DEF World
<1>3. run[t] # H!NotRun
  BY DEF World, H!HostStep, H!OnError, H!OnClose, H!OnFlood, H!DeadlineTimer, H!HardKill,
         H!ConfirmTimer, H!Exit, H!Open, H!NotRun
<1> QED BY <1>2, <1>3, HostStepKeeps DEF World, scopeVars

LEMMA ClockKeeps == ASSUME AwaitInv, ClockRuns PROVE AwaitInv'
<1>1. now \in Nat /\ elapsed \in Nat /\ now' = now + 1
  BY DEF AwaitInv, HostTyped, ScopeInv, ScopeTypeOK, ClockRuns, H!TimePasses
<1>2. UNCHANGED <<scopeVars, run, lastIssued, receipts, lastSeen, refused>>
  BY DEF ClockRuns, H!TimePasses
<1>3. ScopeInv'
  BY <1>2 DEF scopeVars, AwaitInv, ScopeInv, ScopeTypeOK, ScopeAgrees, InFlightBounded
<1>4. HostTyped' BY <1>1, <1>2 DEF AwaitInv, HostTyped
<1>5. ReceiptsTrue'
  <2>1. \A r \in receipts : r.at \in Nat BY DEF AwaitInv, HostTyped
  <2> QED BY <1>1, <1>2, <2>1 DEF AwaitInv, ReceiptsTrue
<1>6. Coupled' /\ AllEarned' /\ RefusedOnlyLate' /\ (\A t \in Tasks : Sound(run[t])')
  BY <1>2 DEF scopeVars, AwaitInv, Coupled, Fits, AllEarned, Earned, RefusedOnlyLate, Sound
<1>7. (elapsed <= now)' BY <1>1, <1>2 DEF scopeVars, AwaitInv
<1> QED BY <1>3, <1>4, <1>5, <1>6, <1>7 DEF AwaitInv

-----------------------------------------------------------------------------
(* Events of the reducer *)

LEMMA CancellationAwaits ==
  ASSUME NEW ts \in Assignments, NEW at \in Nat, NEW outcome \in Outcomes, NEW task,
         NEW seen \in Nat, run' = run, receipts' = receipts, lastSeen' = seen,
         Fits(ts, seen), BeginCancellation(ts, at, outcome, task),
         outcome = "succeeded" =>
           \A t \in IF task = NoTask THEN Tasks ELSE {task} : Earned(t)
  PROVE  Coupled' /\ AllEarned'
<1> USE DEF BeginCancellation
<1>1. Fits(ts, seen)' = Fits(ts, seen) BY DEF Fits
<1>2. \A t \in Tasks : ts[t] = "pending" => run[t] = H!NotRun BY DEF Fits
<1>3. Fits(tasks, lastSeen)'
  <2>1. ASSUME NEW t \in Tasks PROVE tasks'[t] # "pending" OBVIOUS
  <2>2. ASSUME NEW t \in Tasks, tasks'[t] \in Results
        PROVE  run[t] = H!NotRun \/ \E r \in receipts : r.task = t /\ r.sequence <= seen
    <3>1. CASE ts[t] = "pending" BY <1>2, <3>1
    <3>2. CASE ts[t] # "pending" BY <2>2, <3>2 DEF Fits
    <3> QED BY <3>1, <3>2
  <2> QED BY <2>1, <2>2 DEF Fits
<1>4. \A t \in Tasks : Command("start", t) \notin commands' BY DEF Command
<1>5. AllEarned' BY DEF AllEarned, Earned, Outcomes
<1> QED BY <1>3, <1>4, <1>5 DEF Coupled

LEMMA ProceedAwaits ==
  ASSUME NEW ts \in Assignments, NEW at \in Nat, winner = NoTask,
         NEW seen \in Nat, run' = run, receipts' = receipts, lastSeen' = seen,
         Fits(ts, seen), Proceed(ts, at),
         \A t \in Tasks : ts[t] = "succeeded" => Earned(t)
  PROVE  Coupled' /\ AllEarned'
<1> DEFINE filled == FillCapacity(ts)
           over == \A t \in Tasks : filled[t] \in Results
<1>1. /\ tasks' = filled /\ UNCHANGED <<plan, winner>>
      /\ ~over => scopeStatus' = "running" /\ intent' = NoIntent
      /\ over => scopeStatus' \in {"succeeded", "failed"} /\ intent' = scopeStatus'
      /\ intent' = "succeeded" => \A t \in Tasks : filled[t] = "succeeded"
      /\ commands' \subseteq Started(ts, filled) \cup {Command("terminal", NoTask)}
  BY DEF Proceed, NoIntent
<1>2. \A t \in Tasks : filled[t] = ts[t] \/ (ts[t] = "pending" /\ filled[t] = "running")
  BY Filled
<1> HIDE DEF filled
<1>3. Fits(tasks, lastSeen)'
  BY <1>1, <1>2 DEF Fits, Results
<1>4. ASSUME NEW t \in Tasks, Command("start", t) \in commands'
      PROVE  run[t] = H!NotRun /\ filled[t] = "running" /\ scopeStatus' = "running"
  <2>1. ts[t] = "pending" /\ filled[t] = "running"
    BY <1>1, <1>4 DEF Started, Pending, Running, Command
  <2>2. ~over BY <2>1 DEF Results
  <2> QED BY <1>1, <2>1, <2>2 DEF Fits
<1>5. Coupled' BY <1>1, <1>3, <1>4 DEF Coupled
<1>6. AllEarned' BY <1>1, <1>2 DEF AllEarned, Earned, NoIntent
<1> QED BY <1>5, <1>6

LEMMA CancellingAwaits ==
  ASSUME AllEarned, NEW ts \in Assignments, NEW at \in Nat, intent \in Outcomes,
         NEW seen \in Nat, run' = run, receipts' = receipts, lastSeen' = seen,
         Fits(ts, seen), HandleCancellingTaskEvent(ts, at)
  PROVE  Coupled' /\ AllEarned'
<1> USE DEF HandleCancellingTaskEvent
<1>1. Fits(tasks, lastSeen)' BY DEF Fits
<1>2. \A t \in Tasks : Command("start", t) \notin commands' BY DEF Command
<1>3. AllEarned' BY DEF AllEarned, Earned, Outcomes
<1> QED BY <1>1, <1>2, <1>3 DEF Coupled

(* An event the reducer admits carries a time of the clock. *)
LEMMA EventTimes ==
  ASSUME NEW at \in Nat,
         \/ Tick(at) \/ CancelScope(at)
         \/ \E t \in Tasks, result \in Results : TaskEvent(t, result, at)
  PROVE  elapsed' = at /\ elapsed <= at
<1>1. elapsed <= at BY DEF Tick, CancelScope, TaskEvent, Admitted
<1>2. CASE Tick(at) \/ CancelScope(at)
  <2>1. (\E ts, outcome, task : BeginCancellation(ts, at, outcome, task)) \/ elapsed' = at
    BY <1>2, Zenon DEF Tick, CancelScope
  <2>2. ASSUME NEW ts, NEW outcome, NEW task, BeginCancellation(ts, at, outcome, task)
        PROVE  elapsed' = at
    BY <2>2, Zenon DEF BeginCancellation
  <2> QED BY <1>1, <2>1, <2>2
<1>3. ASSUME NEW t \in Tasks, NEW result \in Results, TaskEvent(t, result, at)
      PROVE  elapsed' = at
  <2>1. \/ HandleCancellingTaskEvent([tasks EXCEPT ![t] = result], at)
        \/ HandleRunningTaskEvent([tasks EXCEPT ![t] = result], t, result, at)
    BY <1>3 DEF TaskEvent
  <2>2. ASSUME NEW ts, HandleRunningTaskEvent(ts, t, result, at) PROVE elapsed' = at
    <3>1. (\E outcome, task : BeginCancellation(ts, at, outcome, task)) \/ Proceed(ts, at)
      BY <2>2, Zenon DEF HandleRunningTaskEvent
    <3> QED BY <3>1 DEF BeginCancellation, Proceed
  <2> QED BY <2>1, <2>2 DEF HandleCancellingTaskEvent
<1> QED BY <1>1, <1>2, <1>3

LEMMA SentByCaller ==
  ASSUME AwaitInv, TickScope \/ CancelByCaller PROVE AwaitInv'
<1>1. /\ Tick(now) \/ CancelScope(now)
      /\ Idle /\ UNCHANGED <<run, now, lastIssued, receipts, lastSeen, refused>>
  BY DEF TickScope, CancelByCaller, host
<1>2. now \in Nat /\ lastSeen \in Nat /\ Fits(tasks, lastSeen) /\ tasks \in Assignments
  BY DEF AwaitInv, HostTyped, Coupled, ScopeInv, ScopeTypeOK, Assignments, Statuses
<1>3. ScopeInv'
  BY <1>1, <1>2, ScopeStep DEF AwaitInv, ScopeNext
<1>4. elapsed' = now /\ elapsed <= now /\ elapsed \in Nat
  BY <1>1, <1>2, EventTimes DEF AwaitInv, ScopeInv, ScopeTypeOK
<1>5. HostTyped' /\ (\A t \in Tasks : Sound(run[t])') /\ ReceiptsTrue'
  BY <1>1 DEF AwaitInv, HostTyped, Sound, ReceiptsTrue
<1>6. RefusedOnlyLate'
  <2>1. ASSUME NEW r \in refused PROVE r.at < now
    <3>1. r.at \in Nat BY DEF AwaitInv, HostTyped
    <3> QED BY <1>2, <1>4, <3>1 DEF AwaitInv, RefusedOnlyLate
  <2> QED BY <1>1, <1>4, <2>1 DEF RefusedOnlyLate
<1>7. Coupled' /\ AllEarned'
  <2>1. ASSUME NEW outcome \in Outcomes, outcome # "succeeded",
               BeginCancellation(tasks, now, outcome, NoTask)
        PROVE  Coupled' /\ AllEarned'
    BY <1>1, <1>2, <2>1, CancellationAwaits
  <2>2. CASE /\ elapsed' = now /\ commands' = {}
             /\ UNCHANGED <<plan, scopeStatus, intent, winner, tasks>>
    BY <1>1, <2>2 DEF AwaitInv, Coupled, Fits, AllEarned, Earned
  <2> QED BY <1>1, <2>1, <2>2 DEF Tick, CancelScope, Outcomes
<1> QED BY <1>1, <1>2, <1>3, <1>4, <1>5, <1>6, <1>7 DEF AwaitInv

(* A receipt beyond the verifier's number finds its task running and the
   scope open: its one earlier report would have been this receipt. *)
LEMMA FreshReceipt ==
  ASSUME AwaitInv, Idle, NEW r \in receipts, r.sequence > lastSeen
  PROVE  tasks[r.task] = "running" /\ scopeStatus \in {"running", "cancelling"}
<1>1. HostInv BY DEF AwaitInv, HostInv
<1>2. r.task \in Tasks /\ r.sequence \in Nat /\ lastSeen \in Nat /\ run[r.task] # H!NotRun
  BY <1>1, Spoken DEF AwaitInv, HostTyped
<1>3. tasks[r.task] \notin Results
  <2>1. SUFFICES ASSUME tasks[r.task] \in Results PROVE FALSE OBVIOUS
  <2>2. PICK s \in receipts : s.task = r.task /\ s.sequence <= lastSeen
    BY <1>2, <2>1 DEF AwaitInv, Coupled, Fits
  <2>3. s = r BY <2>2 DEF AwaitInv, ReceiptsTrue
  <2> QED BY <1>2, <2>2, <2>3
<1>4. tasks[r.task] # "pending" BY <1>2 DEF AwaitInv, Coupled, Fits
<1>5. tasks[r.task] = "running"
  BY <1>2, <1>3, <1>4 DEF AwaitInv, ScopeInv, ScopeTypeOK
<1>6. scopeStatus \notin Outcomes BY <1>2, <1>3 DEF AwaitInv, ScopeInv, ScopeAgrees
<1> QED BY <1>5, <1>6 DEF AwaitInv, ScopeInv, ScopeTypeOK

(* What is reported fits the processes, once the verifier has come to the
   number of the report. *)
LEMMA ReportFits ==
  ASSUME AwaitInv, NEW r \in receipts, r.sequence > lastSeen, NEW result \in Results
  PROVE  Fits([tasks EXCEPT ![r.task] = result], r.sequence)
<1> DEFINE ts == [tasks EXCEPT ![r.task] = result]
<1>1. r.sequence \in Nat /\ lastSeen \in Nat /\ r.task \in Tasks
  BY Spoken DEF AwaitInv, HostInv, HostTyped
<1>2. \A s \in receipts : s.sequence \in Nat BY DEF AwaitInv, HostTyped
<1>3. tasks \in [Tasks -> Statuses]
  BY DEF AwaitInv, ScopeInv, ScopeTypeOK, Statuses
<1>4. ASSUME NEW t \in Tasks, ts[t] = "pending" PROVE run[t] = H!NotRun
  BY <1>3, <1>4 DEF AwaitInv, Coupled, Fits, Results
<1>5. ASSUME NEW t \in Tasks, ts[t] \in Results
      PROVE  run[t] = H!NotRun \/ \E s \in receipts : s.task = t /\ s.sequence <= r.sequence
  <2>1. CASE t = r.task BY <1>1, <2>1
  <2>2. CASE t # r.task
    <3>1. ts[t] = tasks[t] BY <1>3, <2>2
    <3>2. CASE run[t] = H!NotRun BY <3>2
    <3>3. ASSUME NEW s \in receipts, s.task = t, s.sequence <= lastSeen
          PROVE  s.sequence <= r.sequence
      BY <1>1, <1>2, <3>3
    <3> QED BY <1>5, <3>1, <3>3 DEF AwaitInv, Coupled, Fits
  <2> QED BY <2>1, <2>2
<1> QED BY <1>4, <1>5 DEF Fits

LEMMA DeliverKeeps == ASSUME AwaitInv, NEW r \in receipts, Deliver(r) PROVE AwaitInv'
<1> DEFINE result == H!ResultOf(r.cause)
           ts == [tasks EXCEPT ![r.task] = result]
<1>1. /\ Idle /\ r.sequence > lastSeen /\ lastSeen' = r.sequence
      /\ UNCHANGED <<run, now, lastIssued, receipts>>
  BY DEF Deliver, H!Verify
<1>2. HostInv BY DEF AwaitInv, HostInv
<1>3. /\ r.task \in Tasks /\ r.at \in Nat /\ r.sequence \in Nat /\ r.cause \in H!Causes
      /\ r.at <= now /\ now \in Nat /\ elapsed \in Nat /\ lastSeen \in Nat
  BY <1>2, Spoken DEF HostInv, HostTyped, ReceiptsTrue, AwaitInv, ScopeInv, ScopeTypeOK
<1>4. tasks[r.task] = "running" /\ scopeStatus \in {"running", "cancelling"}
  BY <1>1, FreshReceipt
<1>5. result \in Results /\ (result = "succeeded" => r.cause = "exit_zero")
  BY <1>3, RunsDistinct DEF H!ResultOf, Results
<1>6. Fits(ts, r.sequence) BY <1>1, <1>5, ReportFits
<1>7. (\A t \in Tasks : Sound(run[t])') /\ ReceiptsTrue'
  BY <1>1 DEF AwaitInv, Sound, ReceiptsTrue
<1>8. \A s \in refused : s.at \in Nat BY DEF AwaitInv, HostTyped
<1>9. CASE Admitted(r.at) /\ TaskEvent(r.task, result, r.at) /\ UNCHANGED refused
  <2>1. ScopeInv'
    BY <1>3, <1>5, <1>9, ScopeStep DEF AwaitInv, ScopeNext
  <2>2. elapsed' = r.at /\ elapsed <= r.at BY <1>3, <1>5, <1>9, EventTimes
  <2>3. HostTyped' BY <1>1, <1>3, <1>9 DEF AwaitInv, HostTyped
  <2>4. RefusedOnlyLate'
    BY <1>3, <1>8, <1>9, <2>2 DEF AwaitInv, RefusedOnlyLate
  <2>5. ts \in Assignments BY <1>3, <1>5, Reported DEF AwaitInv
  <2>6. result = "succeeded" /\ r.at < TimeoutMs => Earned(r.task) BY <1>5 DEF Earned
  <2>7. tasks \in [Tasks -> Statuses]
    BY DEF AwaitInv, ScopeInv, ScopeTypeOK, Statuses
  <2>8. Coupled' /\ AllEarned'
    <3> HIDE DEF result
    <3>1. CASE scopeStatus = "cancelling"
      <4>1. HandleCancellingTaskEvent(ts, r.at) BY <1>9, <3>1 DEF TaskEvent
      <4>2. intent \in Outcomes BY <3>1 DEF AwaitInv, ScopeInv, ScopeTypeOK, ScopeAgrees
      <4> HIDE DEF ts
      <4> QED BY <1>1, <1>3, <1>6, <2>5, <4>1, <4>2, CancellingAwaits DEF AwaitInv
    <3>2. CASE scopeStatus = "running"
      <4>1. HandleRunningTaskEvent(ts, r.task, result, r.at)
        BY <1>9, <3>2 DEF TaskEvent
      <4>2. winner = NoTask /\ \A t \in Tasks : tasks[t] = "succeeded" => Earned(t)
        BY <3>2 DEF AwaitInv, AllEarned
      <4>3. r.at < TimeoutMs => \A t \in Tasks : ts[t] = "succeeded" => Earned(t)
        BY <2>6, <2>7, <4>2
      <4> HIDE DEF ts
      <4>4. \/ BeginCancellation(ts, r.at, "timed_out", NoTask)
            \/ BeginCancellation(ts, r.at, "failed", r.task)
            \/ BeginCancellation(ts, r.at, "failed", NoTask)
            \/ /\ r.at < TimeoutMs /\ result = "succeeded"
               /\ BeginCancellation(ts, r.at, "succeeded", r.task)
            \/ ~(r.at >= TimeoutMs) /\ Proceed(ts, r.at)
        BY <4>1, Zenon DEF HandleRunningTaskEvent
      <4>5. ASSUME NEW outcome \in Outcomes, NEW task, BeginCancellation(ts, r.at, outcome, task),
                   outcome = "succeeded" => task = r.task /\ Earned(r.task)
            PROVE  Coupled' /\ AllEarned'
        <5>1. r.task # NoTask BY <1>3
        <5> QED BY <1>1, <1>3, <1>6, <2>5, <4>5, <5>1, CancellationAwaits
      <4>6. CASE ~(r.at >= TimeoutMs) /\ Proceed(ts, r.at)
        <5>1. r.at < TimeoutMs BY <1>3, <4>6
        <5> QED BY <1>1, <1>3, <1>6, <2>5, <4>2, <4>3, <4>6, <5>1, ProceedAwaits
      <4> QED BY <2>6, <4>4, <4>5, <4>6 DEF Outcomes
    <3> QED BY <1>4, <3>1, <3>2
  <2> QED BY <1>1, <1>3, <1>7, <2>1, <2>2, <2>3, <2>4, <2>8 DEF AwaitInv
<1>10. CASE ~Admitted(r.at) /\ refused' = refused \cup {r} /\ UNCHANGED scopeVars
  <2>1. r.at < elapsed BY <1>3, <1>4, <1>10 DEF Admitted
  <2>2. ScopeInv'
    BY <1>10 DEF scopeVars, AwaitInv, ScopeInv, ScopeTypeOK, ScopeAgrees, InFlightBounded
  <2>3. HostTyped' BY <1>1, <1>3, <1>10 DEF AwaitInv, HostTyped
  <2>4. RefusedOnlyLate' BY <1>10, <2>1 DEF scopeVars, AwaitInv, RefusedOnlyLate
  <2>5. Coupled'
    <3>1. ASSUME NEW t \in Tasks, NEW s \in receipts, s.sequence <= lastSeen
          PROVE  s.sequence <= r.sequence
      <4>1. s.sequence \in Nat BY <1>2, Spoken
      <4> QED BY <1>1, <1>3, <3>1, <4>1
    <3>2. Fits(tasks, lastSeen)'
      BY <1>1, <1>10, <3>1 DEF scopeVars, AwaitInv, Coupled, Fits
    <3> QED BY <1>1, <1>10, <3>2 DEF scopeVars, AwaitInv, Coupled
  <2>6. AllEarned' BY <1>1, <1>10 DEF scopeVars, AwaitInv, AllEarned, Earned
  <2>7. (elapsed <= now)' BY <1>1, <1>10 DEF scopeVars, AwaitInv
  <2> QED BY <1>7, <2>2, <2>3, <2>4, <2>5, <2>6, <2>7 DEF AwaitInv
<1> QED BY <1>4, <1>9, <1>10 DEF Deliver

-----------------------------------------------------------------------------
(* The invariant *)

LEMMA InitAwaits == AwaitInit => AwaitInv
<1> SUFFICES ASSUME AwaitInit PROVE AwaitInv OBVIOUS
<1> DEFINE idle == [t \in Tasks |-> "pending"]
<1>1. ScopeInv BY StartScopeInv DEF AwaitInit
<1>2. /\ \A t \in Tasks : run[t] = H!NotRun
      /\ run \in [Tasks -> Runs] /\ now = 0 /\ lastIssued = 0 /\ lastSeen = 0
      /\ receipts = {} /\ refused = {} /\ elapsed = 0
      /\ scopeStatus = "running" /\ intent = "none" /\ winner = NoTask
      /\ tasks = FillCapacity(idle) /\ commands = Started(idle, FillCapacity(idle))
  BY RunsDistinct DEF AwaitInit, H!HostInit, StartScope, NoIntent
<1>3. HostTyped BY <1>2 DEF HostTyped
<1>4. (\A t \in Tasks : Sound(run[t])) /\ ReceiptsTrue /\ RefusedOnlyLate /\ elapsed <= now
  BY <1>2, RunsDistinct DEF ReceiptsTrue, RefusedOnlyLate
<1>5. idle \in Assignments BY DEF Assignments, Statuses
<1>6. Coupled
  <2>1. \A t \in Tasks : Command("start", t) \in commands => tasks[t] = "running"
    BY <1>2 DEF Started, Running, Command
  <2> QED BY <1>2, <2>1 DEF Coupled, Fits
<1>7. AllEarned
  <2>1. \A t \in Tasks : tasks[t] # "succeeded" BY <1>2, <1>5, Filled
  <2> QED BY <1>2, <2>1 DEF AllEarned
<1> QED BY <1>1, <1>3, <1>4, <1>6, <1>7 DEF AwaitInv

LEMMA StepAwaits == AwaitInv /\ [AwaitNext]_awaitVars => AwaitInv'
<1> SUFFICES ASSUME AwaitInv, [AwaitNext]_awaitVars PROVE AwaitInv' OBVIOUS
<1>1. CASE UNCHANGED awaitVars
  BY <1>1 DEF awaitVars, scopeVars, host, AwaitInv, ScopeInv, ScopeTypeOK, ScopeAgrees,
     InFlightBounded, HostTyped, Sound, ReceiptsTrue, Coupled, Fits, AllEarned, Earned,
     RefusedOnlyLate
<1>2. CASE AwaitNext
  BY <1>2, ObeyKeeps, SentByCaller, DeliverKeeps, WorldKeeps, ClockKeeps DEF AwaitNext
<1> QED BY <1>1, <1>2

(* The invariant holds in every state of a scope and its processes. *)
THEOREM AwaitInvariance == AwaitSpec => []AwaitInv
BY InitAwaits, StepAwaits, PTL DEF AwaitSpec

-----------------------------------------------------------------------------
(* The results *)

(* A scope succeeds only on runs that exited with zero, that nobody had told
   to die, and that were reported before the timeout (handleRunningTaskEvent
   over the host's close and kill callbacks). *)
THEOREM SuccessIsEarned == AwaitSpec => []OutcomeIsEarned
<1>1. AwaitInv => OutcomeIsEarned
  <2> SUFFICES ASSUME AwaitInv, intent = "succeeded",
                      NEW t \in IF winner = NoTask THEN Tasks ELSE {winner}
               PROVE  /\ run[t].exit = "exit_zero" /\ run[t].killCause = H!NoCause
                      /\ \E r \in receipts : r.task = t /\ r.at < TimeoutMs
    BY DEF OutcomeIsEarned
  <2>1. t \in Tasks BY DEF AwaitInv, ScopeInv, ScopeTypeOK
  <2>2. PICK r \in receipts : r.task = t /\ r.cause = "exit_zero" /\ r.at < TimeoutMs
    BY DEF AwaitInv, AllEarned, Earned
  <2>3. run[t].result = "exit_zero" BY <2>2 DEF AwaitInv, ReceiptsTrue
  <2> QED BY <2>1, <2>2, <2>3 DEF AwaitInv, Sound
<1> QED BY <1>1, AwaitInvariance, PTL

(* What the verifier admits the reducer refuses only for its time stamp: it
   is never a second report of a task nor one to a scope that has ended
   (verifyTaskReceipt before advanceStructuredAwait). *)
THEOREM OnlyLateRefused == AwaitSpec => []RefusedOnlyLate
BY AwaitInvariance, PTL DEF AwaitInv

(* The reducer's own invariant survives the composition with the host. *)
THEOREM AwaitAgrees == AwaitSpec => []ScopeAgrees
BY AwaitInvariance, PTL DEF AwaitInv, ScopeInv

-----------------------------------------------------------------------------
(* The scope keeps its contract.  What the contract calls asked, begun, live *)
(* and closed: *)

Asked  == Begun \cup {t \in Tasks : Command("start", t) \in commands}
Live   == {t \in Tasks : run[t].proc = "alive"}
Closed == scopeStatus \in Outcomes

LEMMA SameCardinality == \A S : Contract!Cardinality(S) = Cardinality(S)
BY Zenon DEF Contract!Cardinality, Cardinality

LEMMA InitContract == AwaitInit => Contract!Init
<1> SUFFICES ASSUME AwaitInit PROVE Contract!Init OBVIOUS
<1>1. Cardinality(Tasks) = TaskCount BY FS_Interval DEF Tasks
<1>2. plan.maxInFlight \in 1..Contract!Cardinality(Tasks)
  BY <1>1, SameCardinality DEF AwaitInit, StartScope, Plans, Tasks
<1>3. \A t \in Tasks : run[t].proc = "none"
  BY DEF AwaitInit, H!HostInit, H!NotRun
<1>4. intent = NoIntent /\ scopeStatus \notin Outcomes
  BY DEF AwaitInit, StartScope, Outcomes
<1>5. /\ Begun = {} /\ {t \in Tasks : run[t].proc = "alive"} = {}
      /\ Begun \cup {t \in Tasks : Command("start", t) \in commands} \subseteq Tasks
      /\ (scopeStatus \in Outcomes) = FALSE
  BY <1>3, <1>4 DEF Begun
<1> QED BY <1>2, <1>4, <1>5, Zenon DEF Contract!Init

(* Statuses that fit the processes show every live one as running. *)
LEMMA LiveRuns ==
  ASSUME HostInv, NEW ts \in Assignments, NEW seen, Fits(ts, seen)
  PROVE  Live \subseteq Running(ts)
<1> SUFFICES ASSUME NEW t \in Tasks, run[t].proc = "alive" PROVE ts[t] = "running"
  BY DEF Live, Running
<1>1. run[t] # H!NotRun BY RunsDistinct
<1>2. \A r \in receipts : r.task # t BY Spoken DEF Runner
<1> QED BY <1>1, <1>2 DEF Fits, Assignments, Statuses

(* What the contract sees of an event of the reducer: nothing was waiting to
   be started, and the processes stand still. *)
Still ==
  /\ \A t \in Tasks : Command("start", t) \notin commands
  /\ Begun' = Begun /\ Live' = Live /\ plan' = plan

LEMMA DecideStep ==
  ASSUME Still, ~Closed, intent = NoIntent, intent' \in Outcomes,
         \A t \in Tasks : Command("start", t) \notin commands',
         Closed' => Live = {}
  PROVE  Contract!Next
<1>1. Asked' = Asked BY DEF Still, Asked
<1>2. Contract!Decide
  BY <1>1 DEF Contract!Decide, Still, Asked, Live, Closed, Outcomes, NoIntent
<1> QED BY <1>2 DEF Contract!Next

LEMMA CancellationDecides ==
  ASSUME HostInv, Still, ~Closed, intent = NoIntent, NEW ts \in Assignments,
         NEW seen, Fits(ts, seen), NEW at, NEW outcome \in Outcomes, NEW task,
         BeginCancellation(ts, at, outcome, task)
  PROVE  Contract!Next
<1>1. /\ intent' = outcome
      /\ scopeStatus' = IF Running(ts) = {} THEN outcome ELSE "cancelling"
      /\ \A t \in Tasks : Command("start", t) \notin commands'
  BY DEF BeginCancellation, Command
<1>2. Live \subseteq Running(ts) BY LiveRuns
<1>3. Closed' => Live = {} BY <1>1, <1>2 DEF Closed, Outcomes
<1> QED BY <1>1, <1>3, DecideStep

LEMMA ProceedAsks ==
  ASSUME HostInv, Still, ~Closed, intent = NoIntent, NEW ts \in Assignments,
         NEW seen, Fits(ts, seen), NEW at, Proceed(ts, at)
  PROVE  Contract!Next
<1> DEFINE filled == FillCapacity(ts)
           over == \A t \in Tasks : filled[t] \in Results
<1>1. /\ ~over => scopeStatus' = "running" /\ intent' = NoIntent
      /\ over => scopeStatus' \in {"succeeded", "failed"} /\ intent' = scopeStatus'
      /\ commands' \subseteq Started(ts, filled) \cup {Command("terminal", NoTask)}
  BY DEF Proceed, NoIntent
<1>2. Running(ts) \subseteq Running(filled) BY FilledType
<1> HIDE DEF filled
<1>3. CASE over
  <2>1. Running(filled) = {} BY <1>3 DEF Running, Results
  <2>2. \A t \in Tasks : Command("start", t) \notin commands'
    BY <1>1, <2>1 DEF Started, Command
  <2>3. Live = {} BY <1>2, <2>1, LiveRuns
  <2> QED BY <1>1, <1>3, <2>2, <2>3, DecideStep DEF Outcomes
<1>4. CASE ~over
  <2>1. Asked' \in SUBSET Tasks /\ Asked \subseteq Asked'
    BY DEF Still, Asked, Begun
  <2>2. ~Closed' BY <1>1, <1>4 DEF Closed, Outcomes
  <2>3. Contract!Ask
    BY <1>1, <1>4, <2>1, <2>2 DEF Contract!Ask, Still, Asked, Live, Closed
  <2> QED BY <2>3 DEF Contract!Next
<1> QED BY <1>3, <1>4

LEMMA CancellingCloses ==
  ASSUME HostInv, Still, scopeStatus = "cancelling", intent \in Outcomes,
         NEW ts \in Assignments, NEW seen, Fits(ts, seen), NEW at,
         HandleCancellingTaskEvent(ts, at)
  PROVE  [Contract!Next]_Contract!vars
<1>1. /\ intent' = intent
      /\ scopeStatus' = IF Running(ts) = {} THEN intent ELSE "cancelling"
      /\ \A t \in Tasks : Command("start", t) \notin commands'
  BY DEF HandleCancellingTaskEvent, Command
<1>2. Asked' = Asked BY <1>1 DEF Still, Asked
<1>3. Live \subseteq Running(ts) BY LiveRuns
<1>4. CASE Running(ts) = {}
  <2>1. Contract!Close
    BY <1>1, <1>2, <1>3, <1>4 DEF Contract!Close, Still, Asked, Live, Closed, Outcomes, NoIntent
  <2> QED BY <2>1 DEF Contract!Next
<1>5. CASE Running(ts) # {}
  <2>1. Closed' = Closed BY <1>1, <1>5 DEF Closed, Outcomes
  <2> QED BY <1>1, <1>2, <2>1 DEF Contract!vars, Still, Asked, Live, Closed
<1> QED BY <1>4, <1>5

LEMMA DeliverContract ==
  ASSUME AwaitInv, NEW r \in receipts, Deliver(r)
  PROVE  [Contract!Next]_Contract!vars
<1> DEFINE result == H!ResultOf(r.cause)
           ts == [tasks EXCEPT ![r.task] = result]
<1>1. /\ Idle /\ r.sequence > lastSeen /\ run' = run
  BY DEF Deliver, H!Verify
<1>2. HostInv BY DEF AwaitInv, HostInv
<1>3. r.task \in Tasks /\ r.at \in Nat /\ r.cause \in H!Causes BY <1>2, Spoken
<1>4. \A t \in Tasks : Command("start", t) \notin commands BY <1>1 DEF Idle, Command
<1>5. CASE Admitted(r.at) /\ TaskEvent(r.task, result, r.at)
  <2>1. tasks[r.task] = "running" /\ scopeStatus \in {"running", "cancelling"}
    BY <1>1, FreshReceipt
  <2>2. result \in Results BY <1>3, RunsDistinct DEF H!ResultOf, Results
  <2>3. Fits(ts, r.sequence) BY <1>1, <2>2, ReportFits
  <2>4. ts \in Assignments BY <1>3, <2>2, Reported DEF AwaitInv
  <2>5. ~Closed BY <2>1 DEF Closed, Outcomes
  <2> HIDE DEF ts, result
  <2>6. CASE scopeStatus = "cancelling"
    <3>1. HandleCancellingTaskEvent(ts, r.at) BY <1>5, <2>6 DEF TaskEvent, ts
    <3>2. Still BY <1>1, <1>4, <3>1 DEF Still, Begun, Live, HandleCancellingTaskEvent
    <3>3. intent \in Outcomes BY <2>6 DEF AwaitInv, ScopeInv, ScopeTypeOK, ScopeAgrees
    <3> QED BY <1>2, <2>3, <2>4, <2>6, <3>1, <3>2, <3>3, CancellingCloses
  <2>7. CASE scopeStatus = "running"
    <3>1. HandleRunningTaskEvent(ts, r.task, result, r.at)
      BY <1>5, <2>7 DEF TaskEvent, ts
    <3>2. (\E outcome \in Outcomes : \E task : BeginCancellation(ts, r.at, outcome, task))
            \/ Proceed(ts, r.at)
      BY <3>1, Zenon DEF HandleRunningTaskEvent, Outcomes
    <3>3. intent = NoIntent BY <2>7 DEF AwaitInv, ScopeInv, ScopeAgrees
    <3>4. plan' = plan BY <3>2, Zenon DEF BeginCancellation, Proceed
    <3>5. Still BY <1>1, <1>4, <3>4 DEF Still, Begun, Live
    <3> QED BY <1>2, <2>3, <2>4, <2>5, <3>2, <3>3, <3>5, CancellationDecides, ProceedAsks
  <2> QED BY <2>1, <2>6, <2>7
<1>6. CASE UNCHANGED scopeVars
  BY <1>1, <1>6 DEF scopeVars, Contract!vars, Begun
<1> QED BY <1>5, <1>6 DEF Deliver

LEMMA CallerContract ==
  ASSUME AwaitInv, TickScope \/ CancelByCaller
  PROVE  [Contract!Next]_Contract!vars
<1>1. Idle /\ run' = run /\ (Tick(now) \/ CancelScope(now))
  BY DEF TickScope, CancelByCaller, host
<1>2. \A t \in Tasks : Command("start", t) \notin commands BY <1>1 DEF Idle, Command
<1>3. HostInv /\ tasks \in Assignments /\ Fits(tasks, lastSeen)
  BY DEF AwaitInv, HostInv, Coupled, ScopeInv, ScopeTypeOK, Assignments, Statuses
<1>4. ASSUME scopeStatus = "running", NEW outcome \in Outcomes,
             BeginCancellation(tasks, now, outcome, NoTask)
      PROVE  Contract!Next
  <2>1. Still BY <1>1, <1>2, <1>4 DEF Still, Begun, Live, BeginCancellation
  <2>2. intent = NoIntent /\ ~Closed
    BY <1>4 DEF AwaitInv, ScopeInv, ScopeAgrees, Closed, Outcomes
  <2> QED BY <1>3, <1>4, <2>1, <2>2, CancellationDecides
<1>5. CASE commands' = {} /\ UNCHANGED <<plan, scopeStatus, intent, winner, tasks>>
  BY <1>1, <1>2, <1>5 DEF Contract!vars, Begun
<1> QED BY <1>1, <1>4, <1>5 DEF Tick, CancelScope, Outcomes

(* A callback of a process: it ends, or the contract does not see it. *)
LEMMA WorldContract ==
  ASSUME AwaitInv, NEW t \in Tasks, World(t)
  PROVE  [Contract!Next]_Contract!vars
<1>1. UNCHANGED scopeVars BY DEF World
<1>2. run \in [Tasks -> Runs] BY DEF AwaitInv, HostTyped
<1>3. CASE H!Exit(t)
  <2>1. PICK exit : run' = [run EXCEPT ![t].proc = "exited", ![t].exit = exit]
    BY <1>3 DEF H!Exit
  <2>2. run[t].proc = "alive" BY <1>3 DEF H!Exit
  <2>3. /\ \A u \in Tasks \ {t} : run'[u] = run[u]
        /\ run'[t].proc = "exited"
    BY <1>2, <2>1 DEF Runs
  <2>4. Begun' = Begun /\ t \in Live /\ Live' = Live \ {t}
    BY <2>2, <2>3 DEF Begun, Live
  <2>5. Contract!End
    BY <1>1, <2>4 DEF Contract!End, scopeVars, Live
  <2> QED BY <2>5 DEF Contract!Next
<1>4. CASE \A u \in Tasks : run'[u].proc = run[u].proc
  <2>1. Begun' = Begun /\ Live' = Live BY <1>4 DEF Begun, Live
  <2> QED BY <1>1, <2>1 DEF Contract!vars, scopeVars, Live
<1>5. ~H!Exit(t) => \A u \in Tasks : run'[u].proc = run[u].proc
  <2>1. ASSUME NEW cause, H!HardKill(t, cause) \/ H!Finish(t, run[t], cause)
               \/ H!ConfirmTimer(t)
        PROVE  \A u \in Tasks : run'[u].proc = run[u].proc
    <3> DEFINE k == [run[t] EXCEPT !.killCause = cause]
               f == [run[t] EXCEPT !.result = cause]
               l == [run[t] EXCEPT !.result = "receipt_unavailable"]
               c == [run[t] EXCEPT !.result = "termination_unconfirmed"]
    <3>1. k.proc = run[t].proc /\ f.proc = run[t].proc /\ l.proc = run[t].proc
          /\ c.proc = run[t].proc
      BY <1>2 DEF Runs
    <3>2. \/ run' = [run EXCEPT ![t] = k] \/ run' = [run EXCEPT ![t] = f]
          \/ run' = [run EXCEPT ![t] = l] \/ run' = [run EXCEPT ![t] = c]
      BY <2>1 DEF H!HardKill, H!Finish, H!ConfirmTimer
    <3> HIDE DEF k, f, l, c
    <3> QED BY <1>2, <3>1, <3>2
  <2>2. H!OnError(t) \/ H!OnClose(t) \/ H!OnFlood(t) \/ H!DeadlineTimer(t) =>
          \E cause : H!HardKill(t, cause) \/ H!Finish(t, run[t], cause)
    BY Zenon DEF H!OnError, H!OnClose, H!OnFlood, H!DeadlineTimer
  <2> QED BY <2>1, <2>2 DEF World, H!HostStep
<1> QED BY <1>3, <1>4, <1>5

(* A command: a start begins the task's work, or finds that it cannot; a
   cancellation has no effect the contract sees. *)
LEMMA ObeyContract ==
  ASSUME AwaitInv, NEW c \in commands, Obey(c)
  PROVE  [Contract!Next]_Contract!vars
<1>1. /\ commands' = commands \ {c}
      /\ UNCHANGED <<plan, elapsed, scopeStatus, intent, winner, tasks, refused>>
  BY DEF Obey
<1>2. commands \subseteq Commands BY DEF AwaitInv, ScopeInv, ScopeTypeOK
<1>3. run \in [Tasks -> Runs] /\ HostInv /\ tasks \in Assignments
  BY DEF AwaitInv, HostInv, HostTyped, ScopeInv, ScopeTypeOK, Assignments, Statuses
<1>4. CASE c.kind = "cancel" /\ H!CancelRun(c.task)
  <2>1. c.task \in Tasks /\ \A t \in Tasks : c # Command("start", t)
    BY <1>2, <1>4 DEF Commands, Command
  <2>2. \A u \in Tasks : run'[u].proc = run[u].proc
    <3> DEFINE k == [run[c.task] EXCEPT !.killCause = "cancel_kill"]
    <3>1. k.proc = run[c.task].proc BY <1>3, <2>1 DEF Runs
    <3>2. run' = run \/ run' = [run EXCEPT ![c.task] = k]
      BY <1>4 DEF H!CancelRun, H!HardKill
    <3> HIDE DEF k
    <3> QED BY <1>3, <2>1, <3>1, <3>2
  <2>3. Begun' = Begun /\ Live' = Live BY <2>2 DEF Begun, Live
  <2>4. Asked' = Asked BY <1>1, <2>1, <2>3 DEF Asked
  <2> QED BY <1>1, <2>3, <2>4 DEF Contract!vars, Live, Asked
<1>5. CASE c.kind = "start" /\ H!Spawn(c.task)
  <2> DEFINE w == c.task
  <2>1. w \in Tasks /\ c = Command("start", w) BY <1>2, <1>5 DEF Commands, Command
  <2>2. run[w] = H!NotRun /\ tasks[w] = "running" /\ scopeStatus = "running"
    BY <2>1 DEF AwaitInv, Coupled
  <2>3. PICK proc \in {"alive", "unborn"} :
          /\ \A u \in Tasks \ {w} : run'[u] = run[u]
          /\ run'[w].proc = proc
    <3> DEFINE a(p) == [run[w] EXCEPT !.proc = p]
               u == [run[w] EXCEPT !.proc = "unborn"]
               f == [u EXCEPT !.result = "spawn_failed"]
               l == [u EXCEPT !.result = "receipt_unavailable"]
               n == [run[w] EXCEPT !.proc = "unborn", !.result = "refused"]
    <3>1. u.proc = "unborn" /\ f.proc = "unborn" /\ l.proc = "unborn" /\ n.proc = "unborn"
          /\ \A p : a(p).proc = p
      BY <1>3, <2>1 DEF Runs
    <3>2. \/ \E p \in {"alive", "unborn"} : run' = [run EXCEPT ![w] = a(p)]
          \/ run' = [run EXCEPT ![w] = f] \/ run' = [run EXCEPT ![w] = l]
          \/ run' = [run EXCEPT ![w] = n]
      BY <1>5 DEF H!Spawn, H!Finish
    <3> HIDE DEF a, u, f, l, n
    <3> QED BY <1>3, <2>1, <3>1, <3>2
  <2> HIDE DEF w
  <2>4. w \notin Begun /\ Begun' = Begun \cup {w} BY <2>1, <2>2, <2>3, RunsDistinct DEF Begun
  <2>5. Live' \in {Live, Live \cup {w}}
    <3>1. CASE proc = "alive" BY <2>1, <2>3, <3>1 DEF Live
    <3>2. CASE proc = "unborn" BY <2>1, <2>2, <2>3, <3>2, RunsDistinct DEF Live
    <3> QED BY <3>1, <3>2
  <2>6. Live' \subseteq Running(tasks)
    <3>1. Live \subseteq Running(tasks) BY <1>3, LiveRuns DEF AwaitInv, Coupled
    <3> QED BY <2>1, <2>2, <2>5, <3>1 DEF Running
  <2>7. Cardinality(Live') <= plan.maxInFlight
    <3>1. Running(tasks) \in SUBSET Tasks /\ Live' \in SUBSET Tasks BY <2>6 DEF Running
    <3>2. /\ Cardinality(Live') <= Cardinality(Running(tasks))
          /\ Cardinality(Live') \in Nat /\ Cardinality(Running(tasks)) \in Nat
      BY <2>6, <3>1, TasksFinite, FS_Subset
    <3>3. /\ Cardinality(Running(tasks)) <= plan.maxInFlight /\ plan.maxInFlight \in Nat
      BY DEF AwaitInv, ScopeInv, InFlightBounded, ScopeTypeOK, Plans, Tasks
    <3> QED BY <3>2, <3>3
  <2>8. w \in Asked \ Begun /\ Asked' = Asked
    <3>1. \A t \in Tasks : t # w =>
            (Command("start", t) \in commands' <=> Command("start", t) \in commands)
      BY <1>1, <2>1 DEF Command
    <3> QED BY <2>1, <2>4, <3>1 DEF Asked
  <2>9. intent = NoIntent BY <2>2 DEF AwaitInv, ScopeInv, ScopeAgrees
  <2>10. Contract!Begin
    BY <1>1, <2>4, <2>5, <2>7, <2>8, <2>9, SameCardinality DEF Contract!Begin, Asked, Live
  <2> QED BY <2>10 DEF Contract!Next
<1> QED BY <1>4, <1>5 DEF Obey

(* No more processes are alive than the limit, none begins after the outcome
   is chosen, the outcome is chosen once, and none is alive when it is
   published: what ScopeContract promises, of the reducer and the host
   together, wired as the end-to-end test wires them. *)
THEOREM KeepsContract == AwaitSpec => ImplementsContract
<1>1. AwaitInv /\ [AwaitNext]_awaitVars => [Contract!Next]_Contract!vars
  <2> SUFFICES ASSUME AwaitInv, [AwaitNext]_awaitVars
               PROVE  [Contract!Next]_Contract!vars
    OBVIOUS
  <2>1. CASE ClockRuns
    BY <2>1 DEF ClockRuns, H!TimePasses, scopeVars, Contract!vars, Begun
  <2>2. CASE UNCHANGED awaitVars
    BY <2>2 DEF awaitVars, scopeVars, host, Contract!vars, Begun
  <2> QED BY <2>1, <2>2, ObeyContract, CallerContract, DeliverContract, WorldContract
          DEF AwaitNext
<1> QED BY <1>1, InitContract, AwaitInvariance, PTL
        DEF AwaitSpec, ImplementsContract, Contract!Spec
=============================================================================
