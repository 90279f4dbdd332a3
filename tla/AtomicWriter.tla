---------------------------- MODULE AtomicWriter ----------------------------
(***************************************************************************)
(* The snapshot directory of galerina-core-sentinel-state: one .snap and   *)
(* one .tmp file for each name.  A write goes through the .tmp, is synced, *)
(* renamed over the .snap, and the directory is synced; a scrub overwrites *)
(* and unlinks both files.  Until the directory is synced, what a reader   *)
(* sees (live) and what survives a power cut (stable) may differ.          *)
(***************************************************************************)
EXTENDS Integers

CONSTANT Files   \* snapshot names in use

VARIABLES live, stable, tmp   \* contents of the .snap files, and of the .tmp files

fileVars == <<live, stable, tmp>>

Snapshot(tick, epoch) == [kind |-> "snapshot", tick |-> tick, epoch |-> epoch]
Nothing(kind) == [kind |-> kind, tick |-> 0, epoch |-> 0]

Absent  == Nothing("absent")
Torn    == Nothing("torn")      \* part of what was written
Wiped   == Nothing("wiped")     \* zeroes
Damaged == Nothing("damaged")   \* no longer what any MAC covers

EmptyDirectory ==
  /\ live = [f \in Files |-> Absent]
  /\ stable = live /\ tmp = live

-----------------------------------------------------------------------------
(* write: unlink an old .tmp, create it anew, write every byte of it *)
WriteTemp(f, s) ==
  /\ tmp' = [tmp EXCEPT ![f] = [s EXCEPT !.kind = "unsynced"]]
  /\ UNCHANGED <<live, stable>>

(* Mutant: the file is renamed without having been synced. *)
SyncTemp_Skipped(f) == UNCHANGED fileVars

SyncTemp(f) ==
  /\ tmp' = [tmp EXCEPT ![f].kind = "snapshot"]
  /\ UNCHANGED <<live, stable>>

Rename(f) ==
  /\ live' = [live EXCEPT ![f] = tmp[f]]
  /\ tmp' = [tmp EXCEPT ![f] = Absent]
  /\ UNCHANGED stable

(* Mutant: the call returns without having synced the directory. *)
SyncDirectory_Skipped == UNCHANGED fileVars

SyncDirectory == stable' = live /\ UNCHANGED <<live, tmp>>

(* A write that throws before the rename unlinks its .tmp, at best effort. *)
DropTemp(f) ==
  /\ tmp' \in {tmp, [tmp EXCEPT ![f] = Absent]}
  /\ UNCHANGED <<live, stable>>

(* scrub overwrites a file with zeroes, which it does not sync, and unlinks it,
   the .tmp before the .snap; a file that is absent stays so.  The zeroes go
   into the file that both the entry a reader sees and the one on disk may name. *)
Zeroed(c) ==
  CASE c = Absent -> Absent
    [] c.kind \in {"snapshot", "unsynced", "zeroed"} -> [c EXCEPT !.kind = "zeroed"]
    [] OTHER -> Wiped

ZeroTemp(f) ==
  /\ tmp' = [tmp EXCEPT ![f] = IF @ = Absent THEN Absent ELSE Wiped]
  /\ UNCHANGED <<live, stable>>

UnlinkTemp(f) == tmp' = [tmp EXCEPT ![f] = Absent] /\ UNCHANGED <<live, stable>>

ZeroLive(f) ==
  /\ live' = [live EXCEPT ![f] = Zeroed(@)]
  /\ stable' = [stable EXCEPT ![f] = IF @ = live[f] THEN Zeroed(@) ELSE @]
  /\ UNCHANGED tmp

(* The entry goes, but not from the disk: there it is still the one last
   synced, or the one unlinked if that had reached the disk by itself. *)
UnlinkLive(f) ==
  /\ live' = [live EXCEPT ![f] = Absent]
  /\ stable' \in {stable, [stable EXCEPT ![f] = live[f]]}
  /\ UNCHANGED tmp

-----------------------------------------------------------------------------
(* What a power cut can make of a file: bytes that were never synced may be
   missing, and so may a directory entry's last change.  Nothing reads a .tmp,
   so the .tmp files stay or go together. *)
Settled(c) ==
  CASE c.kind = "unsynced" -> {[c EXCEPT !.kind = "snapshot"], Torn}
    [] c.kind = "zeroed"   -> {[c EXCEPT !.kind = "snapshot"], Wiped}
    [] OTHER -> {c}

AfterPowerCut(f) == Settled(live[f]) \cup Settled(stable[f])

PowerCut ==
  /\ live' \in {l \in [Files -> UNION {AfterPowerCut(f) : f \in Files}] :
                  \A f \in Files : l[f] \in AfterPowerCut(f)}
  /\ stable' = live'
  /\ tmp' \in {tmp, [f \in Files |-> Absent]}

(* Whoever administers the directory puts an older copy back or removes a file,
   or the medium damages one. *)
Replace(f, c) ==
  /\ live' = [live EXCEPT ![f] = c]
  /\ stable' = [stable EXCEPT ![f] = c]
  /\ UNCHANGED tmp
=============================================================================
