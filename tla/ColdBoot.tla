------------------------------ MODULE ColdBoot ------------------------------
(***************************************************************************)
(* The cold-boot orchestrator of galerina-core-sentinel-state.  A          *)
(* checkpoint first raises the durable rollback floor, a snapshot of a     *)
(* reserved name, and then writes the caller's snapshot; a restore gives a *)
(* snapshot back only at or above that floor.  The process may crash, the  *)
(* machine may lose power, and any file operation may throw, at each step  *)
(* of the two writes; custody may rotate and revoke the sealing key.       *)
(*                                                                         *)
(* restore changes nothing, so it is the state function Restorable.        *)
(***************************************************************************)
EXTENDS AtomicWriter, FiniteSetsExt

CONSTANTS
  Names,        \* names callers checkpoint under
  Floor,        \* the reserved name, rollback-floor
  Ticks,        \* logical ticks callers use
  BootFloors,   \* floors a host hands the constructor
  Epochs,       \* epochs custody can seal under
  ScrubNames,   \* names callers scrub
  MaxCalls,     \* bound: checkpoints and scrubs begun
  MaxTampers    \* bound: files put back, removed or damaged

ASSUME ColdBootAssumption ==
  /\ Floor \notin Names /\ Files = Names \cup {Floor}
  /\ Ticks \subseteq Nat /\ BootFloors \subseteq Nat
  /\ Epochs \subseteq Nat \ {0} /\ 1 \in Epochs
  /\ ScrubNames \subseteq Files
  /\ MaxCalls \in Nat /\ MaxTampers \in Nat

VARIABLES
  minTick,   \* the orchestrator's own floor, #minLogicalTick
  call,      \* the call in progress, or where the last one ended
  active,    \* epoch custody seals under
  revoked,   \* epochs custody resolves no key for
  best,      \* history: the highest tick a checkpoint returned with since the
             \* floor file was last put back, removed, damaged or scrubbed
  recent,    \* history: the highest tick a checkpoint returned with since boot
  kept,      \* history: per name, the snapshot a checkpoint at or above the
             \* durable floor last returned, while its file is left alone
  copies,    \* history: per file, every snapshot that was live
  calls,     \* bound: calls begun
  tampers    \* bound: files interfered with

budget  == <<calls, tampers>>
history == <<best, recent, kept, copies>>
vars == <<fileVars, minTick, call, active, revoked, history, budget>>

Idle == [step |-> "idle", file |-> Floor, name |-> Floor, tick |-> 0]
Writing   == {"write", "sync", "rename", "directory"}
Scrubbing == {"zeroTemp", "unlinkTemp", "zeroLive", "unlinkLive"}
Steps     == {"idle"} \cup Writing \cup Scrubbing

Snapshots == {Snapshot(t, e) : t \in Ticks \cup BootFloors, e \in Epochs}
As(kind)  == {[s EXCEPT !.kind = kind] : s \in Snapshots}
Contents  == {Absent, Wiped, Damaged} \cup Snapshots \cup As("zeroed")

TypeOK ==
  /\ live \in [Files -> Contents] /\ stable \in [Files -> Contents]
  /\ tmp \in [Files -> {Absent, Wiped} \cup Snapshots \cup As("unsynced")]
  /\ minTick \in Ticks \cup BootFloors
  /\ call \in [step : Steps, file : Files, name : Files, tick : Nat]
  /\ revoked \subseteq Epochs /\ active \in Epochs \ revoked
  /\ best \in Nat /\ recent \in Nat
  /\ kept \in [Names -> {Absent} \cup Snapshots]
  /\ copies \in [Files -> SUBSET Snapshots]
  /\ calls \in 0..MaxCalls /\ tampers \in 0..MaxTampers

(* Someone other than a checkpoint makes c of a file.  A floor that verifies
   still lets what was returned be restored; any other keeps everything back. *)
Touched(f, c) ==
  /\ kept' = [n \in Names |->
       IF n = f \/ (f = Floor /\ c \notin Snapshots) THEN Absent ELSE kept[n]]
  /\ best' = IF f = Floor THEN 0 ELSE best
  /\ UNCHANGED <<recent, copies>>

-----------------------------------------------------------------------------
(* Reading *)

(* verify: the MAC holds under the key custody resolves for the epoch. *)
Verifies(c) == c.kind \in {"snapshot", "unsynced"} /\ c.epoch \notin revoked

(* readPersistedFloor: no floor file is no floor; one that cannot be
   verified throws. *)
FloorReadable == live[Floor] = Absent \/ Verifies(live[Floor])
PersistedFloor == IF live[Floor] = Absent THEN 0 ELSE live[Floor].tick

(* restore: the snapshot is present and verifies, the durable floor is
   present and verifies, and the tick is at or above both floors. *)
Restorable(n) ==
  /\ Verifies(live[n])
  /\ Verifies(live[Floor])
  /\ live[n].tick >= minTick
  /\ live[n].tick >= live[Floor].tick

-----------------------------------------------------------------------------
(* checkpoint *)

(* Mutant: the floor follows the tick, whatever is on disk. *)
NextFloor_IgnoresDisk(tick) == Max({minTick, tick})

NextFloor(tick) == Max({minTick, tick, PersistedFloor})

Begin(next) ==
  /\ call.step = "idle" /\ calls < MaxCalls
  /\ calls' = calls + 1 /\ UNCHANGED tampers
  /\ call' = next

Checkpoint(n, tick) ==
  /\ tick >= minTick
  /\ FloorReadable
  /\ Begin([step |-> "write", file |-> Floor, name |-> n, tick |-> tick])
  /\ UNCHANGED <<fileVars, minTick, active, revoked, history>>

Payload ==
  Snapshot(IF call.file = Floor THEN NextFloor(call.tick) ELSE call.tick, active)

Moved(step) == [call EXCEPT !.step = step]
Goto(step) == call' = Moved(step)

Write ==
  /\ call.step = "write"
  /\ WriteTemp(call.file, Payload)
  /\ Goto("sync")
  /\ UNCHANGED <<minTick, active, revoked, history, budget>>

Sync ==
  /\ call.step = "sync"
  /\ SyncTemp(call.file)
  /\ Goto("rename")
  /\ UNCHANGED <<minTick, active, revoked, history, budget>>

Publish ==
  /\ call.step = "rename"
  /\ Rename(call.file)
  /\ Goto("directory")
  /\ kept' = [n \in Names |-> IF n = call.file THEN Absent ELSE kept[n]]
  /\ copies' = [copies EXCEPT ![call.file] = @ \cup {live'[call.file]}]
  /\ UNCHANGED <<minTick, active, revoked, best, recent, budget>>

(* The floor's write returns: the orchestrator's own floor is raised to it
   and the snapshot's write begins. *)
FloorWritten ==
  /\ call.step = "directory" /\ call.file = Floor
  /\ SyncDirectory
  /\ minTick' = live[Floor].tick
  /\ call' = [call EXCEPT !.step = "write", !.file = call.name]
  /\ UNCHANGED <<active, revoked, history, budget>>

(* The snapshot's write returns, and so does checkpoint. *)
SnapshotWritten ==
  /\ call.step = "directory" /\ call.file # Floor
  /\ SyncDirectory
  /\ minTick' = call.tick
  /\ call' = Idle
  /\ best' = Max({best, call.tick}) /\ recent' = Max({recent, call.tick})
  /\ kept' = [kept EXCEPT ![call.name] =
                IF call.tick >= PersistedFloor THEN live[call.name] ELSE Absent]
  /\ UNCHANGED <<active, revoked, copies, budget>>

(* An open, write, fsync, lstat, rename or directory fsync throws, and
   checkpoint with it; the orchestrator lives on. *)
WriteThrows ==
  /\ call.step \in Writing
  /\ IF call.step = "directory" THEN UNCHANGED fileVars ELSE DropTemp(call.file)
  /\ call' = Idle
  /\ UNCHANGED <<minTick, active, revoked, history, budget>>

-----------------------------------------------------------------------------
(* scrub, of any name a caller likes: the floor's is not refused. *)
Scrub(n) ==
  /\ Begin([step |-> "zeroTemp", file |-> n, name |-> n, tick |-> 0])
  /\ Touched(n, Absent)
  /\ UNCHANGED <<fileVars, minTick, active, revoked>>

ScrubStep(step, next) ==
  /\ call.step = step /\ call' = next
  /\ UNCHANGED <<minTick, active, revoked, history, budget>>

ScrubFiles ==
  \/ ScrubStep("zeroTemp", Moved("unlinkTemp")) /\ ZeroTemp(call.file)
  \/ ScrubStep("unlinkTemp", Moved("zeroLive")) /\ UnlinkTemp(call.file)
  \/ ScrubStep("zeroLive", Moved("unlinkLive")) /\ ZeroLive(call.file)
  \/ ScrubStep("unlinkLive", Idle) /\ UnlinkLive(call.file)

(* An lstat, open, overwrite or unlink throws, and scrub with it. *)
ScrubThrows ==
  /\ call.step \in Scrubbing
  /\ call' = Idle
  /\ UNCHANGED <<fileVars, minTick, active, revoked, history, budget>>

-----------------------------------------------------------------------------
(* The world around it *)

Boot ==
  /\ minTick' \in BootFloors
  /\ call' = Idle
  /\ recent' = 0
  /\ UNCHANGED <<active, revoked, best, kept, copies, budget>>

Crash == Boot /\ UNCHANGED fileVars

LosePower == Boot /\ PowerCut

(* An older copy of a file, the floor's like any other, is put back, or the file
   is removed or damaged. *)
Tamper(f) ==
  /\ call.step = "idle" /\ tampers < MaxTampers
  /\ tampers' = tampers + 1
  /\ \E c \in copies[f] \cup {Absent, Damaged} :
       /\ c # live[f] /\ (c = Damaged => live[f] # Absent)
       /\ Replace(f, c) /\ Touched(f, c)
  /\ UNCHANGED <<minTick, call, active, revoked, calls>>

(* Custody rotates, falls back or revokes. *)
SwitchKey(e) ==
  /\ call.step = "idle"
  /\ e \notin revoked \cup {active}
  /\ active' = e
  /\ UNCHANGED <<fileVars, minTick, call, revoked, history, budget>>

RevokeKey(e) ==
  /\ call.step = "idle"
  /\ e \notin revoked \cup {active}
  /\ revoked' = revoked \cup {e}
  /\ UNCHANGED <<fileVars, minTick, call, active, history, budget>>

Init ==
  /\ EmptyDirectory
  /\ minTick \in BootFloors
  /\ call = Idle
  /\ active = 1 /\ revoked = {}
  /\ best = 0 /\ recent = 0
  /\ kept = [n \in Names |-> Absent]
  /\ copies = [f \in Files |-> {}]
  /\ calls = 0 /\ tampers = 0

Next ==
  \/ \E n \in Names, tick \in Ticks : Checkpoint(n, tick)
  \/ Write \/ Sync \/ Publish \/ FloorWritten \/ SnapshotWritten \/ WriteThrows
  \/ \E n \in ScrubNames : Scrub(n)
  \/ ScrubFiles \/ ScrubThrows
  \/ Crash \/ LosePower
  \/ \E f \in Files : Tamper(f)
  \/ \E e \in Epochs : SwitchKey(e) \/ RevokeKey(e)

Spec == Init /\ [][Next]_vars

-----------------------------------------------------------------------------
(* Properties *)

(* Whichever old copies are put back, and wherever the process or the machine
   stopped before, restore never gives back a snapshot older than the newest
   one a checkpoint returned with, as long as the floor file itself is left
   alone; and however it was put back, removed or scrubbed, none older than the
   newest one returned since boot.  More is not true: the floor is a file in the
   same directory, any copy of it that verifies is believed, and after a restart
   an older copy of the whole directory is restored as it is. *)
NoRollback == \A n \in Names : Restorable(n) => live[n].tick >= Max({best, recent})

(* A crash, a power cut or a throw at any step of a write leaves every file
   whole: no reader ever sees part of a snapshot. *)
NeverHalfWritten == \A f \in Files : live[f] # Torn /\ stable[f] # Torn

(* A checkpoint that returned is still restorable after any crashes, power
   cuts and throws, until its file is written again, replaced or scrubbed,
   provided the durable floor is whole, it and the host's have not passed its
   tick, and neither its own epoch nor the floor's is revoked. *)
Resting ==
  {n \in Names : /\ kept[n] # Absent
                 /\ kept[n].tick >= PersistedFloor /\ kept[n].tick >= minTick
                 /\ {kept[n].epoch, live[Floor].epoch} \cap revoked = {}}
ReturnedSurvives == \A n \in Resting : Restorable(n) /\ live[n] = kept[n]

=============================================================================
