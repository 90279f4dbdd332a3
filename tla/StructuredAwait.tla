-------------------------- MODULE StructuredAwait --------------------------
(***************************************************************************)
(* The Structured Await reducer: a scope runs a fixed list of tasks under  *)
(* a timeout, a limit on how many run at once and a completion policy.     *)
(* The caller feeds it ticks, a cancellation and task outcomes, each       *)
(* stamped with the scope's elapsed time, and carries out the commands     *)
(* every step returns.  An event the reducer refuses changes nothing, so a *)
(* refusal is an action that is not enabled.                               *)
(***************************************************************************)
EXTENDS Integers, FiniteSets

CONSTANTS
  TaskCount,   \* the tasks are 1..TaskCount, in their declared order
  TimeoutMs,   \* the plan's timeout
  NoTask       \* no winner

Tasks == 1..TaskCount

ASSUME PlanAssumption ==
  /\ TaskCount \in Nat \ {0}
  /\ TimeoutMs \in Nat \ {0}
  /\ NoTask \notin Tasks

VARIABLES
  plan,         \* the limit and the completion policy the scope was started with
  elapsed,      \* the latest elapsed time an event carried
  scopeStatus,
  intent,       \* the outcome being worked towards
  winner,       \* the task that decided a race
  tasks,        \* the status of each task
  commands      \* what the latest step asks of the caller

scopeVars == <<plan, elapsed, scopeStatus, intent, winner, tasks, commands>>

(* "all" is split by its onFailure field. *)
Completions == {"cancel_remaining", "wait_for_all", "first_success", "first_result"}
Plans == [maxInFlight : Tasks, completion : Completions]

Results  == {"succeeded", "failed", "cancelled"}
Outcomes == {"succeeded", "failed", "timed_out", "cancelled"}
NoIntent == "none"

Command(kind, t) == [kind |-> kind, task |-> t]
Commands == [kind : {"start", "cancel"}, task : Tasks]
              \cup [kind : {"terminal"}, task : Tasks \cup {NoTask}]

ScopeTypeOK ==
  /\ plan \in Plans
  /\ elapsed \in Nat
  /\ scopeStatus \in {"running", "cancelling"} \cup Outcomes
  /\ intent \in Outcomes \cup {NoIntent}
  /\ winner \in Tasks \cup {NoTask}
  /\ tasks \in [Tasks -> {"pending", "running"} \cup Results]
  /\ commands \subseteq Commands

Running(ts) == {t \in Tasks : ts[t] = "running"}
Pending(ts) == {t \in Tasks : ts[t] = "pending"}

(* In declared order, a pending task is started while fewer than the limit
   run: those running already and the pending ones before it. *)
FillCapacity(ts) ==
  LET before(t) == {u \in Tasks : ts[u] = "running" \/ (ts[u] = "pending" /\ u < t)}
  IN  [t \in Tasks |->
         IF ts[t] = "pending" /\ Cardinality(before(t)) < plan.maxInFlight
         THEN "running" ELSE ts[t]]

Started(ts, filled) == {Command("start", t) : t \in Pending(ts) \cap Running(filled)}

(* Mutant: what waits to start is left waiting. *)
BeginCancellation_KeepsWaiting(ts, at, outcome, task) ==
  LET over == Running(ts) = {} IN
  /\ tasks' = ts
  /\ elapsed' = at
  /\ intent' = outcome
  /\ winner' = task
  /\ scopeStatus' = IF over THEN outcome ELSE "cancelling"
  /\ commands' = IF over THEN {Command("terminal", task)}
                 ELSE {Command("cancel", t) : t \in Running(ts)}
  /\ UNCHANGED plan

(* Mutant: the outcome is left to a later report even when nothing runs. *)
BeginCancellation_AlwaysWaits(ts, at, outcome, task) ==
  /\ tasks' = [t \in Tasks |-> IF ts[t] = "pending" THEN "cancelled" ELSE ts[t]]
  /\ elapsed' = at
  /\ intent' = outcome
  /\ winner' = task
  /\ scopeStatus' = "cancelling"
  /\ commands' = {Command("cancel", t) : t \in Running(ts)}
  /\ UNCHANGED plan

(* Nothing new is started; what runs is asked to stop; the outcome is
   published at once only if nothing runs. *)
BeginCancellation(ts, at, outcome, task) ==
  LET cancels == {Command("cancel", t) : t \in Running(ts)}
      over == Running(ts) = {}
  IN  /\ tasks' = [t \in Tasks |-> IF ts[t] = "pending" THEN "cancelled" ELSE ts[t]]
      /\ elapsed' = at
      /\ intent' = outcome
      /\ winner' = task
      /\ scopeStatus' = IF over THEN outcome ELSE "cancelling"
      /\ commands' = IF over THEN {Command("terminal", task)} ELSE cancels
      /\ UNCHANGED plan

(* A task is reported and no policy decides: the next pending ones start, or,
   after the last of them, the scope ends. *)
Proceed(ts, at) ==
  LET filled == FillCapacity(ts)
      over == \A t \in Tasks : filled[t] \in Results
      outcome == IF \A t \in Tasks : filled[t] = "succeeded" THEN "succeeded" ELSE "failed"
  IN  /\ tasks' = filled
      /\ elapsed' = at
      /\ scopeStatus' = IF over THEN outcome ELSE "running"
      /\ intent' = IF over THEN outcome ELSE NoIntent
      /\ commands' = Started(ts, filled)
                       \cup (IF over THEN {Command("terminal", NoTask)} ELSE {})
      /\ UNCHANGED <<plan, winner>>

HandleRunningTaskEvent(ts, t, result, at) ==
  CASE at >= TimeoutMs -> BeginCancellation(ts, at, "timed_out", NoTask)
    [] at < TimeoutMs /\ plan.completion = "first_result" ->
         BeginCancellation(ts, at, IF result = "succeeded" THEN "succeeded" ELSE "failed", t)
    [] at < TimeoutMs /\ plan.completion = "first_success" /\ result = "succeeded" ->
         BeginCancellation(ts, at, "succeeded", t)
    [] at < TimeoutMs /\ plan.completion = "cancel_remaining" /\ result # "succeeded" ->
         BeginCancellation(ts, at, "failed", NoTask)
    [] OTHER -> Proceed(ts, at)

(* While the scope is being cancelled a report only confirms that its task
   has stopped. *)
HandleCancellingTaskEvent(ts, at) ==
  /\ tasks' = ts
  /\ elapsed' = at
  /\ scopeStatus' = IF Running(ts) = {} THEN intent ELSE "cancelling"
  /\ commands' = IF Running(ts) = {} THEN {Command("terminal", winner)} ELSE {}
  /\ UNCHANGED <<plan, intent, winner>>

(* The checks every event passes first: time does not go back, and the scope
   has not ended. *)
Admitted(at) == at >= elapsed /\ scopeStatus \in {"running", "cancelling"}

TaskEvent(t, result, at) ==
  /\ Admitted(at)
  /\ tasks[t] = "running"
  /\ LET ts == [tasks EXCEPT ![t] = result] IN
     IF scopeStatus = "cancelling"
     THEN HandleCancellingTaskEvent(ts, at)
     ELSE HandleRunningTaskEvent(ts, t, result, at)

Tick(at) ==
  /\ Admitted(at)
  /\ IF scopeStatus = "running" /\ at >= TimeoutMs
     THEN BeginCancellation(tasks, at, "timed_out", NoTask)
     ELSE /\ elapsed' = at
          /\ commands' = {}
          /\ UNCHANGED <<plan, scopeStatus, intent, winner, tasks>>

CancelScope(at) ==
  /\ Admitted(at)
  /\ scopeStatus = "running"
  /\ BeginCancellation(tasks, at,
       IF at >= TimeoutMs THEN "timed_out" ELSE "cancelled", NoTask)

(* startStructuredAwait: the first tasks start at once. *)
StartScope ==
  LET idle == [t \in Tasks |-> "pending"] IN
  /\ plan \in Plans
  /\ elapsed = 0
  /\ scopeStatus = "running"
  /\ intent = NoIntent /\ winner = NoTask
  /\ tasks = FillCapacity(idle)
  /\ commands = Started(idle, FillCapacity(idle))

ScopeNext ==
  \E at \in Nat :
    \/ Tick(at) \/ CancelScope(at)
    \/ \E t \in Tasks, result \in Results : TaskEvent(t, result, at)

ScopeSpec == StartScope /\ [][ScopeNext]_scopeVars

-----------------------------------------------------------------------------
(* Properties *)

(* The scope and its tasks agree: while it runs no outcome is chosen and
   something is in flight; being cancelled, nothing is waiting to start; and
   it has ended only when every task is settled, with the chosen outcome. *)
ScopeAgrees ==
  /\ scopeStatus = "running" => intent = NoIntent /\ Running(tasks) # {}
  /\ scopeStatus = "cancelling" =>
       intent # NoIntent /\ Running(tasks) # {} /\ Pending(tasks) = {}
  /\ scopeStatus \in Outcomes =>
       scopeStatus = intent /\ \A t \in Tasks : tasks[t] \in Results

(* Never more tasks in flight than the plan allows. *)
InFlightBounded == Cardinality(Running(tasks)) <= plan.maxInFlight

(* The first decision stands: neither a later report, nor the timeout, nor a
   late success changes what a scope is going to publish or who won it, and
   from then on nothing starts. *)
DecisionStands ==
  [][intent # NoIntent =>
       /\ intent' = intent /\ winner' = winner
       /\ Running(tasks') \subseteq Running(tasks)]_scopeVars
=============================================================================
