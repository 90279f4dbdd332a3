----------------------------- MODULE AwaitScope -----------------------------
(***************************************************************************)
(* A Structured Await scope whose tasks run under the isolated host, wired *)
(* as the repository's end-to-end test does: the caller carries out the    *)
(* commands of a step before it takes the next one, ticks the scope with   *)
(* the clock the host stamps receipts with, and passes each receipt        *)
(* through the verifier to the reducer.                                    *)
(***************************************************************************)
EXTENDS StructuredAwait

CONSTANT MaxTime   \* bound on the clock

VARIABLES run, now, lastIssued, receipts, lastSeen,   \* of the host
          refused                                     \* verified receipts the reducer refused

H == INSTANCE IsolatedHost WITH Guests <- Tasks

host      == <<run, now, lastIssued, receipts, lastSeen>>
awaitVars == <<scopeVars, host, refused>>

(* The caller has carried out all but the final command. *)
Idle == \A c \in commands : c.kind = "terminal"

Obey(c) ==
  /\ c \in commands
  /\ \/ c.kind = "start" /\ H!Spawn(c.task)
     \/ c.kind = "cancel" /\ H!CancelRun(c.task)
  /\ commands' = commands \ {c}
  /\ UNCHANGED <<plan, elapsed, scopeStatus, intent, winner, tasks, refused>>

TickScope ==
  /\ Idle
  /\ Tick(now)
  /\ UNCHANGED <<host, refused>>

CancelByCaller ==
  /\ Idle
  /\ CancelScope(now)
  /\ UNCHANGED <<host, refused>>

(* A verified receipt is the reducer's event.  If the reducer refuses it, the
   number it bears is spent all the same. *)
Deliver(r) ==
  /\ Idle
  /\ H!Verify(r)
  /\ IF Admitted(r.at) /\ tasks[r.task] = "running"
     THEN TaskEvent(r.task, H!ResultOf(r.cause), r.at) /\ UNCHANGED refused
     ELSE refused' = refused \cup {r} /\ UNCHANGED scopeVars

World(t) == H!HostStep(t) /\ UNCHANGED <<scopeVars, refused>>
ClockRuns == H!TimePasses /\ UNCHANGED <<scopeVars, refused>>

AwaitInit == StartScope /\ H!HostInit /\ refused = {}

AwaitNext ==
  \/ \E c \in commands : Obey(c)
  \/ TickScope \/ CancelByCaller
  \/ \E r \in receipts : Deliver(r)
  \/ \E t \in Tasks : World(t)
  \/ ClockRuns

(* The caller carries out what it is told, keeps ticking and delivers what
   arrives; the clock runs, and the event loop fires a run's deadline and
   its confirmation watchdog.  Each of these can happen finitely often only,
   so one condition for all is as good as one for each.  Nothing is assumed
   of the guests, not even that a process told to die does. *)
Due ==
  \/ \E c \in commands : Obey(c)
  \/ TickScope \/ ClockRuns
  \/ \E r \in receipts : Deliver(r)
  \/ \E t \in Tasks : /\ H!DeadlineTimer(t) \/ H!ConfirmTimer(t)
                      /\ UNCHANGED <<scopeVars, refused>>

AwaitSpec == AwaitInit /\ [][AwaitNext]_awaitVars /\ WF_awaitVars(Due)

-----------------------------------------------------------------------------
(* Properties *)

(* Success is earned on both sides of the boundary: the runs a policy
   decides by (the winner's, or all of them) exited with zero, nobody had
   told them to die, and they were reported before the scope's timeout. *)
OutcomeIsEarned ==
  intent = "succeeded" =>
    \A t \in IF winner = NoTask THEN Tasks ELSE {winner} :
      /\ run[t].exit = "exit_zero" /\ run[t].killCause = H!NoCause
      /\ \E r \in receipts : r.task = t /\ r.at < TimeoutMs

(* What the verifier admits, the reducer refuses for one reason only: the
   scope's clock was moved past the receipt's stamp.  It is never a second
   report of a task, nor one of a scope that has ended. *)
RefusedOnlyLate == \A r \in refused : r.at < elapsed

(* The scope as the code that opened it sees it: work is in progress while
   its process is alive, whatever anyone has been told. *)
Begun == {t \in Tasks : run[t].proc # "none"}

Contract == INSTANCE ScopeContract WITH
  Work      <- Tasks,
  Undecided <- NoIntent,
  limit     <- plan.maxInFlight,
  asked     <- Begun \cup {t \in Tasks : Command("start", t) \in commands},
  begun     <- Begun,
  live      <- {t \in Tasks : run[t].proc = "alive"},
  outcome   <- intent,
  closed    <- scopeStatus \in Outcomes

(* The scope keeps its contract: no more processes alive than the limit,
   none begun after the outcome is chosen, one outcome, and none alive when
   it is published. *)
ImplementsContract == Contract!Spec

(* A task nobody will hear of: its run was refused or settled without a
   receipt, or the receipt was refused, or overtaken by one that was issued
   after it. *)
Lost(t) ==
  /\ tasks[t] = "running"
  /\ \/ run[t].result \in {"refused", "termination_unconfirmed", "receipt_unavailable"}
     \/ \E r \in receipts : r.task = t /\ r.sequence <= lastSeen

(* Every scope ends, unless a report of one of its tasks is lost. *)
EndsOrLoses == []<>(scopeStatus \in Outcomes \/ \E t \in Tasks : Lost(t))
=============================================================================
