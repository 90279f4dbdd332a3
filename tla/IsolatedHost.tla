---------------------------- MODULE IsolatedHost ----------------------------
(***************************************************************************)
(* The isolated host: one process per guest, killed on its deadline, on    *)
(* cancellation or when it floods its output, and one authenticated        *)
(* receipt for its outcome.  The callbacks of a run (close, error, data,   *)
(* the two timers, cancel) come in any order the process and the event     *)
(* loop allow.  Receipts travel to the verifier in any order, any number   *)
(* of times; those that fail authentication change nothing and are left    *)
(* out.                                                                    *)
(***************************************************************************)
EXTENDS Integers

CONSTANTS
  Guests,
  MaxTime   \* bound on the clock

VARIABLES
  run,       \* what the host and the operating system know of each guest
  now,       \* elapsedMs, the scope's clock
  lastIssued,\* the signer's sequence store
  receipts,  \* every receipt issued
  lastSeen   \* the verifier's sequence store

KillCauses == {"deadline_kill", "cancel_kill", "output_limit_kill", "spawn_failed"}

(* Output that is not text is reported, and admitted, as a nonzero exit is:
   the two are one here. *)
Exits  == {"exit_zero", "exit_nonzero"}
Causes == KillCauses \cup Exits
NoCause == "none"
NotSettled == "open"

(* TASK_RECEIPT_CAUSE_KIND: what a cause tells the reducer. *)
ResultOf(cause) ==
  CASE cause = "exit_zero" -> "succeeded"
    [] cause \in {"deadline_kill", "cancel_kill"} -> "cancelled"
    [] OTHER -> "failed"

Receipts == [task : Guests, cause : Causes, at : 0..MaxTime, sequence : Nat \ {0}]

HostTypeOK ==
  /\ run \in [Guests ->
       [proc : {"none", "unborn", "alive", "exited"},
        exit : Exits \cup {NoCause},       \* how the process ended
        killCause : KillCauses \cup {NoCause},
        result : Causes \cup
          {NotSettled, "refused", "termination_unconfirmed", "receipt_unavailable"}]]
  /\ now \in 0..MaxTime
  /\ lastIssued \in Nat /\ lastSeen \in Nat
  /\ receipts \subseteq Receipts

NotRun == [proc |-> "none", exit |-> NoCause, killCause |-> NoCause, result |-> NotSettled]

HostInit ==
  /\ run = [g \in Guests |-> NotRun]
  /\ now = 0 /\ lastIssued = 0 /\ lastSeen = 0
  /\ receipts = {}

Open(g) == run[g].proc # "none" /\ run[g].result = NotSettled

(* The signer numbers the receipt and records the number before it is handed
   out. *)
Sign(g, cause) ==
  /\ lastIssued' = lastIssued + 1
  /\ receipts' = receipts \cup
       {[task |-> g, cause |-> cause, at |-> now, sequence |-> lastIssued + 1]}

(* The run settles with a receipt, or without one if the clock, the key or
   the sequence store fails. *)
Finish(g, r, cause) ==
  \/ /\ run' = [run EXCEPT ![g] = [r EXCEPT !.result = cause]]
     /\ Sign(g, cause)
     /\ UNCHANGED <<now, lastSeen>>
  \/ /\ run' = [run EXCEPT ![g] = [r EXCEPT !.result = "receipt_unavailable"]]
     /\ UNCHANGED <<now, lastIssued, receipts, lastSeen>>

(* The first cause wins; the process is told to die and the confirmation
   watchdog starts.  Nothing is claimed yet. *)
HardKill(g, cause) ==
  /\ Open(g) /\ run[g].killCause = NoCause
  /\ run' = [run EXCEPT ![g].killCause = cause]
  /\ UNCHANGED <<now, lastIssued, receipts, lastSeen>>

(* run refuses a task it cannot admit, without a process or a receipt; else
   spawn starts a process, or returns an object for one that will not start,
   or throws. *)
Spawn(g) ==
  /\ run[g] = NotRun
  /\ \/ \E proc \in {"alive", "unborn"} :
          /\ run' = [run EXCEPT ![g].proc = proc]
          /\ UNCHANGED <<now, lastIssued, receipts, lastSeen>>
     \/ Finish(g, [run[g] EXCEPT !.proc = "unborn"], "spawn_failed")
     \/ /\ run' = [run EXCEPT ![g] = [@ EXCEPT !.proc = "unborn", !.result = "refused"]]
        /\ UNCHANGED <<now, lastIssued, receipts, lastSeen>>

OnError(g) ==
  /\ Open(g)
  /\ IF run[g].proc = "unborn" /\ run[g].killCause = NoCause
     THEN Finish(g, run[g], "spawn_failed")
     ELSE HardKill(g, "spawn_failed")

(* Mutant: the exit of a killed process is believed. *)
OnClose_ForgetsKill(g) ==
  /\ Open(g) /\ run[g].proc \in {"exited", "unborn"}
  /\ Finish(g, run[g], IF run[g].proc = "unborn" THEN "exit_nonzero" ELSE run[g].exit)

(* The close event of a process that ended, or of one that never began. *)
OnClose(g) ==
  /\ Open(g) /\ run[g].proc \in {"exited", "unborn"}
  /\ Finish(g, run[g],
       CASE run[g].killCause # NoCause -> run[g].killCause
         [] run[g].killCause = NoCause /\ run[g].proc = "unborn" -> "exit_nonzero"
         [] OTHER -> run[g].exit)

OnFlood(g) == run[g].proc \in {"alive", "exited"} /\ HardKill(g, "output_limit_kill")
DeadlineTimer(g) == HardKill(g, "deadline_kill")

(* Mutant: a process told to die is taken for dead. *)
ConfirmTimer_Claims(g) ==
  Open(g) /\ run[g].killCause # NoCause /\ Finish(g, run[g], run[g].killCause)

ConfirmTimer(g) ==
  /\ Open(g) /\ run[g].killCause # NoCause
  /\ run' = [run EXCEPT ![g].result = "termination_unconfirmed"]
  /\ UNCHANGED <<now, lastIssued, receipts, lastSeen>>

(* The cancel capability of a run: a no-op once it is being killed or has
   settled. *)
CancelRun(g) ==
  IF Open(g) /\ run[g].killCause = NoCause
  THEN HardKill(g, "cancel_kill")
  ELSE UNCHANGED <<run, now, lastIssued, receipts, lastSeen>>

(* The process ends, by itself or because it was killed; nobody knows yet. *)
Exit(g) ==
  /\ run[g].proc = "alive"
  /\ \E exit \in Exits : run' = [run EXCEPT ![g].proc = "exited", ![g].exit = exit]
  /\ UNCHANGED <<now, lastIssued, receipts, lastSeen>>

TimePasses ==
  /\ now < MaxTime
  /\ now' = now + 1
  /\ UNCHANGED <<run, lastIssued, receipts, lastSeen>>

(* Mutant: the last receipt is taken again. *)
Verify_Again(receipt) ==
  /\ receipt \in receipts
  /\ receipt.sequence >= lastSeen
  /\ lastSeen' = receipt.sequence
  /\ UNCHANGED <<run, now, lastIssued, receipts>>

(* The verifier takes a receipt only in order, and records its number before
   it answers. *)
Verify(receipt) ==
  /\ receipt \in receipts
  /\ receipt.sequence > lastSeen
  /\ lastSeen' = receipt.sequence
  /\ UNCHANGED <<run, now, lastIssued, receipts>>

HostStep(g) ==
  OnError(g) \/ OnClose(g) \/ OnFlood(g) \/ DeadlineTimer(g) \/ ConfirmTimer(g) \/ Exit(g)

=============================================================================
