------------------------- MODULE DurableFiles_proofs -------------------------
(***************************************************************************)
(* The two stores whose files must outlive a power cut.                    *)
(*                                                                         *)
(* Cold-boot checkpoints, for any names, ticks, boot floors and epochs.    *)
(* That no file is ever half-written rests on the order of a write         *)
(* (Progress).  That nothing is rolled back, and nothing returned is lost, *)
(* rests on the floor on disk (FloorStands): as long as its file is left   *)
(* alone it never falls, whatever a power cut makes of it, and a snapshot  *)
(* is written only after it; and on the floor in memory, which holds until *)
(* the next boot whatever is done to the file.                             *)
(*                                                                         *)
(* The durable receipts of the generation store, for any number of         *)
(* publishers.  What makes the invariant inductive is who may own the      *)
(* name: a live call that has linked its file finds it there (Owner), and  *)
(* a file loaded but not yet proved durable is there still, unless its     *)
(* publisher took it back (Loaded).                                        *)
(***************************************************************************)
EXTENDS ColdBoot, GenerationStore, TLAPS

USE ColdBootAssumption

(* How far the call in progress has come. *)
Progress ==
  /\ call.step \in Writing =>
       /\ call.tick \in Ticks /\ call.name \in Names /\ call.file \in {Floor, call.name}
       /\ live[Floor] \in {Absent} \cup Snapshots
  /\ call.step = "sync" => tmp[call.file] = [Payload EXCEPT !.kind = "unsynced"]
  /\ call.step = "rename" => tmp[call.file] = Payload
  /\ call.step = "directory" =>
       /\ live[call.file] \in Snapshots
       /\ call.file # Floor => live[call.file] = Snapshot(call.tick, active)
       /\ call.tick <= live[call.file].tick

WholeInv == TypeOK /\ Progress

(* The floor on disk stands at or above every tick a checkpoint returned with
   since its file was left alone, before and after a power cut; the call that
   has written it is at or below it; and the floor in memory stands at or above
   every tick returned with since boot. *)
FloorStands ==
  /\ best # 0 =>
       /\ {live[Floor], stable[Floor]} \subseteq Snapshots
       /\ best <= live[Floor].tick /\ best <= stable[Floor].tick
  /\ call.step \in Writing /\ call.file # Floor =>
       /\ live[Floor] \in Snapshots /\ stable[Floor] = live[Floor]
       /\ call.tick <= live[Floor].tick
  /\ recent <= minTick
  /\ call.step \in Writing => recent <= call.tick

(* What was returned is on disk twice over, and a whole floor with it; what is
   being scrubbed was given up before. *)
KeptStands ==
  /\ \A n \in Names : kept[n] # Absent =>
       /\ live[n] = kept[n] /\ stable[n] = kept[n]
       /\ {live[Floor], stable[Floor]} \subseteq Snapshots
  /\ call.step \in Scrubbing =>
       /\ \A n \in Names : call.file \in {n, Floor} => kept[n] = Absent
       /\ call.file = Floor => best = 0

FloorInv == WholeInv /\ FloorStands /\ KeptStands

-----------------------------------------------------------------------------
(* Operators *)

LEMMA Kinds ==
  /\ \A s \in Snapshots : /\ s.kind = "snapshot" /\ s.tick \in Nat /\ s.epoch \in Epochs
                          /\ s.tick \in Ticks \cup BootFloors
                          /\ s \notin {Absent, Torn, Wiped, Damaged}
                          /\ \A k \in {"unsynced", "zeroed"} :
                               /\ [s EXCEPT !.kind = k].kind = k
                               /\ [[s EXCEPT !.kind = k] EXCEPT !.kind = "snapshot"] = s
                               /\ [[s EXCEPT !.kind = k] EXCEPT !.kind = k]
                                    = [s EXCEPT !.kind = k]
  /\ Absent.kind = "absent" /\ Absent.tick = 0
  /\ Wiped.kind = "wiped" /\ Damaged.kind = "damaged" /\ Torn.kind = "torn"
<1> USE DEF Absent, Torn, Wiped, Damaged, Nothing
<1>1. ASSUME NEW s \in Snapshots
      PROVE  /\ s.kind = "snapshot" /\ s.tick \in Ticks \cup BootFloors /\ s.epoch \in Epochs
             /\ s # Absent /\ s # Torn /\ s # Wiped /\ s # Damaged
             /\ \A k \in {"unsynced", "zeroed"} :
                  /\ [s EXCEPT !.kind = k].kind = k
                  /\ [[s EXCEPT !.kind = k] EXCEPT !.kind = "snapshot"] = s
                  /\ [[s EXCEPT !.kind = k] EXCEPT !.kind = k] = [s EXCEPT !.kind = k]
  <2>1. PICK t \in Ticks \cup BootFloors, e \in Epochs :
          s = [kind |-> "snapshot", tick |-> t, epoch |-> e]
    BY DEF Snapshots, Snapshot
  <2>2. ASSUME NEW k \in {"unsynced", "zeroed"}
        PROVE  /\ [s EXCEPT !.kind = k].kind = k
               /\ [[s EXCEPT !.kind = k] EXCEPT !.kind = "snapshot"] = s
               /\ [[s EXCEPT !.kind = k] EXCEPT !.kind = k] = [s EXCEPT !.kind = k]
    <3> DEFINE u == [kind |-> k, tick |-> t, epoch |-> e]
    <3>1. [s EXCEPT !.kind = k] = u BY <2>1
    <3>2. u.kind = k /\ [u EXCEPT !.kind = "snapshot"] = s /\ [u EXCEPT !.kind = k] = u
      BY <2>1
    <3> HIDE DEF u
    <3> QED BY <3>1, <3>2
  <2> QED BY <2>1, <2>2
<1>2. \A t \in Ticks \cup BootFloors : t \in Nat OBVIOUS
<1> QED BY <1>1, <1>2

LEMMA FloorIn == Floor \in Files /\ Names \subseteq Files /\ Idle.file = Floor
                 /\ Idle \in [step : Steps, file : Files, name : Files, tick : Nat]
BY DEF Idle, Steps

LEMMA MaxPair ==
  ASSUME NEW a \in Nat, NEW b \in Nat
  PROVE  Max({a, b}) \in {a, b} /\ a <= Max({a, b}) /\ b <= Max({a, b})
<1>1. \E x \in {a, b} : \A y \in {a, b} : x >= y
  <2>1. CASE a >= b BY <2>1
  <2>2. CASE b >= a BY <2>2
  <2> QED BY <2>1, <2>2
<1>2. /\ Max({a, b}) \in {a, b} /\ \A y \in {a, b} : Max({a, b}) >= y
  BY <1>1 DEF Max
<1> QED BY <1>2

LEMMA MaxTriple ==
  ASSUME NEW a \in Nat, NEW b \in Nat, NEW c \in Nat
  PROVE  /\ Max({a, b, c}) \in {a, b, c}
         /\ a <= Max({a, b, c}) /\ b <= Max({a, b, c}) /\ c <= Max({a, b, c})
<1>1. \E x \in {a, b, c} : \A y \in {a, b, c} : x >= y
  <2>1. CASE a >= b /\ a >= c BY <2>1
  <2>2. CASE b >= a /\ b >= c BY <2>2
  <2>3. CASE c >= a /\ c >= b BY <2>3
  <2> QED BY <2>1, <2>2, <2>3
<1>2. /\ Max({a, b, c}) \in {a, b, c} /\ \A y \in {a, b, c} : Max({a, b, c}) >= y
  BY <1>1 DEF Max
<1> QED BY <1>2

(* The floor a checkpoint writes is an admitted tick, at or above its own,
   the orchestrator's and the one on disk. *)
LEMMA NextFloorIs ==
  ASSUME TypeOK, live[Floor] \in {Absent} \cup Snapshots, NEW tick \in Ticks
  PROVE  /\ NextFloor(tick) \in Ticks \cup BootFloors /\ NextFloor(tick) \in Nat
         /\ tick <= NextFloor(tick) /\ live[Floor].tick <= NextFloor(tick)
<1>1. minTick \in Ticks \cup BootFloors /\ minTick \in Nat /\ tick \in Nat BY DEF TypeOK
<1>2. PersistedFloor = live[Floor].tick /\ PersistedFloor \in Nat
  BY Kinds DEF PersistedFloor
<1>3. PersistedFloor \in Ticks \cup BootFloors \/ PersistedFloor = 0
  BY Kinds DEF PersistedFloor
<1>4. /\ NextFloor(tick) \in {minTick, tick, PersistedFloor}
      /\ minTick <= NextFloor(tick) /\ tick <= NextFloor(tick)
      /\ PersistedFloor <= NextFloor(tick)
  BY <1>1, <1>2, MaxTriple DEF NextFloor
<1>5. NextFloor(tick) \in Ticks \cup BootFloors
  <2>1. CASE NextFloor(tick) = 0
    <3>1. minTick = 0 BY <1>1, <1>4, <2>1
    <3> QED BY <1>1, <2>1, <3>1
  <2>2. CASE NextFloor(tick) # 0 BY <1>1, <1>3, <1>4, <2>2
  <2> QED BY <2>1, <2>2
<1> QED BY <1>1, <1>2, <1>4, <1>5

LEMMA PayloadIs ==
  ASSUME TypeOK, Progress, call.step \in Writing
  PROVE  /\ Payload \in Snapshots /\ call.tick \in Nat /\ call.tick <= Payload.tick
         /\ call.file = Floor => live[Floor].tick <= Payload.tick
         /\ call.file # Floor => Payload = Snapshot(call.tick, active)
<1>1. /\ call.tick \in Ticks /\ live[Floor] \in {Absent} \cup Snapshots
      /\ active \in Epochs /\ call.tick \in Nat
  BY DEF Progress, TypeOK
<1>2. ASSUME NEW t \in Ticks \cup BootFloors
      PROVE  Snapshot(t, active) \in Snapshots /\ Snapshot(t, active).tick = t
  BY <1>1 DEF Snapshots, Snapshot
<1> QED BY <1>1, <1>2, NextFloorIs DEF Payload

-----------------------------------------------------------------------------
(* Files stay whole *)

LEMMA InitWhole == Init => WholeInv
<1> SUFFICES ASSUME Init PROVE WholeInv OBVIOUS
<1>1. TypeOK
  <2>1. call \in [step : Steps, file : Files, name : Files, tick : Nat]
    BY FloorIn DEF Init
  <2> QED BY <2>1 DEF Init, EmptyDirectory, TypeOK, Contents
<1>2. call.step = "idle" BY DEF Init, Idle
<1> QED BY <1>1, <1>2 DEF WholeInv, Progress, Writing

(* Nothing is in progress and no file was touched but in these ways. *)
LEMMA AtRest ==
  ASSUME TypeOK', call'.step \notin Writing PROVE WholeInv'
BY DEF WholeInv, Progress, Writing

LEMMA IdleStep == Idle.step = "idle" /\ Idle.step \notin Writing /\ Idle.step \notin Scrubbing
BY DEF Idle, Writing, Scrubbing

(* What a scrub or a power cut makes of a file's contents. *)
LEMMA ContentsClosed ==
  ASSUME NEW c \in Contents
  PROVE  Zeroed(c) \in Contents /\ Settled(c) \subseteq Contents
<1>1. CASE c \in {Absent, Wiped, Damaged}
  BY <1>1, Kinds DEF Contents, Zeroed, Settled
<1>2. CASE c \in Snapshots
  BY <1>2, Kinds DEF Contents, Zeroed, Settled, As
<1>3. CASE c \in As("zeroed")
  <2>1. PICK s \in Snapshots : c = [s EXCEPT !.kind = "zeroed"] BY <1>3 DEF As
  <2>2. c.kind = "zeroed" /\ c # Absent
        /\ [c EXCEPT !.kind = "snapshot"] = s /\ [c EXCEPT !.kind = "zeroed"] = c
    BY <2>1, Kinds
  <2> QED BY <1>3, <2>2 DEF Contents, Zeroed, Settled
<1> QED BY <1>1, <1>2, <1>3 DEF Contents

(* A file under scrub is whole where it lies and where it may return. *)
LEMMA SnapshotSettled == ASSUME NEW c \in Snapshots PROVE Settled(c) = {c}
BY Kinds DEF Settled

LEMMA CheckpointWhole ==
  ASSUME WholeInv, NEW n \in Names, NEW tick \in Ticks, Checkpoint(n, tick) PROVE WholeInv'
<1>1. /\ call' = [step |-> "write", file |-> Floor, name |-> n, tick |-> tick]
      /\ calls < MaxCalls /\ calls' = calls + 1 /\ tampers' = tampers
      /\ UNCHANGED <<live, stable, tmp, minTick, active, revoked, history>>
  BY DEF Checkpoint, Begin, fileVars
<1>2. live[Floor] \in {Absent} \cup Snapshots
  <2>1. live[Floor] \in Contents BY FloorIn DEF WholeInv, TypeOK
  <2> QED BY <2>1, Kinds DEF Checkpoint, FloorReadable, Verifies, Contents, As
<1>3. TypeOK' BY <1>1, FloorIn DEF WholeInv, TypeOK, Steps, Writing, history
<1> QED BY <1>1, <1>2, <1>3 DEF WholeInv, Progress, Writing

LEMMA WriteWhole == ASSUME WholeInv, Write PROVE WholeInv'
<1>1. call.step = "write" /\ call.step \in Writing BY DEF Write, Writing
<1> DEFINE u == [Payload EXCEPT !.kind = "unsynced"]
<1>2. /\ tmp' = [tmp EXCEPT ![call.file] = u] /\ call' = [call EXCEPT !.step = "sync"]
      /\ UNCHANGED <<live, stable, minTick, active, revoked, history, budget>>
  BY DEF Write, WriteTemp, Goto, Moved
<1>3. Payload \in Snapshots BY <1>1, PayloadIs DEF WholeInv
<1>4. u \in As("unsynced") BY <1>3 DEF As
<1>5. /\ call' \in [step : {"sync"}, file : Files, name : Files, tick : Nat]
      /\ call'.step = "sync" /\ call'.file = call.file /\ call'.name = call.name
      /\ call'.tick = call.tick
  BY <1>2 DEF WholeInv, TypeOK
<1>6. Payload' = Payload
  BY <1>2, <1>5 DEF Payload, NextFloor, PersistedFloor
<1>7. u' = u BY <1>6
<1> HIDE DEF u
<1>8. TypeOK'
  BY <1>2, <1>4, <1>5 DEF WholeInv, TypeOK, Steps, Writing, history, budget
<1>9. tmp'[call'.file] = u BY <1>2, <1>5 DEF WholeInv, TypeOK
<1> QED BY <1>1, <1>2, <1>5, <1>7, <1>8, <1>9 DEF WholeInv, Progress, Writing, u

LEMMA SyncWhole == ASSUME WholeInv, Sync PROVE WholeInv'
<1>1. call.step = "sync" /\ call.step \in Writing BY DEF Sync, Writing
<1> DEFINE u == [Payload EXCEPT !.kind = "unsynced"]
<1>2. /\ tmp' = [tmp EXCEPT ![call.file].kind = "snapshot"]
      /\ call' = [call EXCEPT !.step = "rename"]
      /\ UNCHANGED <<live, stable, minTick, active, revoked, history, budget>>
  BY DEF Sync, SyncTemp, Goto, Moved
<1>3. Payload \in Snapshots /\ tmp[call.file] = u
  BY <1>1, PayloadIs DEF WholeInv, Progress
<1>4. [u EXCEPT !.kind = "snapshot"] = Payload BY <1>3, Kinds
<1>5. /\ call' \in [step : {"rename"}, file : Files, name : Files, tick : Nat]
      /\ call'.step = "rename" /\ call'.file = call.file /\ call'.name = call.name
      /\ call'.tick = call.tick
  BY <1>2 DEF WholeInv, TypeOK
<1>6. Payload' = Payload
  BY <1>2, <1>5 DEF Payload, NextFloor, PersistedFloor
<1>7. tmp' = [tmp EXCEPT ![call.file] = Payload] BY <1>2, <1>3, <1>4
<1>8. TypeOK'
  BY <1>2, <1>3, <1>5, <1>7 DEF WholeInv, TypeOK, Steps, Writing, history, budget
<1>9. tmp'[call'.file] = Payload BY <1>5, <1>7 DEF WholeInv, TypeOK
<1> QED BY <1>1, <1>2, <1>5, <1>6, <1>8, <1>9 DEF WholeInv, Progress, Writing

(* The rename puts the payload, whole, in the place of the live file. *)
LEMMA PublishIs ==
  ASSUME WholeInv, Publish
  PROVE  /\ call.step \in Writing /\ Payload \in Snapshots
         /\ live' = [live EXCEPT ![call.file] = Payload] /\ stable' = stable
         /\ call'.step = "directory" /\ call'.file = call.file /\ call'.name = call.name
         /\ call'.tick = call.tick
         /\ live'[call.file] = Payload
<1>1. call.step \in Writing BY DEF Publish, Writing
<1>2. Payload \in Snapshots /\ tmp[call.file] = Payload
  BY <1>1, PayloadIs DEF WholeInv, Progress, Publish
<1> QED BY <1>1, <1>2 DEF Publish, Rename, Goto, Moved, WholeInv, TypeOK

LEMMA PublishWhole == ASSUME WholeInv, Publish PROVE WholeInv'
<1>1. /\ tmp' = [tmp EXCEPT ![call.file] = Absent]
      /\ call' = [call EXCEPT !.step = "directory"]
      /\ UNCHANGED <<minTick, active, revoked, best, recent, budget>>
  BY DEF Publish, Rename, Goto, Moved
<1>2. call.file \in {Floor, call.name} /\ call.name \in Names
  BY PublishIs DEF WholeInv, Progress
<1>3. kept' \in [Names -> {Absent} \cup Snapshots]
  BY DEF Publish, WholeInv, TypeOK
<1>4. copies' \in [Files -> SUBSET Snapshots]
  <2>1. live'[call.file] \in Snapshots /\ call.file \in Files
    BY PublishIs DEF WholeInv, TypeOK
  <2> QED BY <2>1 DEF Publish, WholeInv, TypeOK
<1>5. TypeOK'
  BY <1>1, <1>3, <1>4, PublishIs DEF WholeInv, TypeOK, Steps, Writing, Contents, budget
<1>6. /\ call.tick <= Payload.tick
      /\ call.file # Floor => Payload = Snapshot(call.tick, active)
  BY PublishIs, PayloadIs DEF WholeInv
<1>7. live'[Floor] \in {Absent} \cup Snapshots
  <2>1. live[Floor] \in {Absent} \cup Snapshots BY PublishIs DEF WholeInv, Progress
  <2> QED BY <2>1, PublishIs, FloorIn DEF WholeInv, TypeOK
<1> QED BY <1>1, <1>2, <1>5, <1>6, <1>7, PublishIs DEF WholeInv, Progress, Writing

LEMMA FloorWrittenWhole == ASSUME WholeInv, FloorWritten PROVE WholeInv'
<1>1. /\ call.step = "directory" /\ call.file = Floor /\ minTick' = live[Floor].tick
      /\ stable' = live /\ call' = [call EXCEPT !.step = "write", !.file = call.name]
      /\ UNCHANGED <<live, tmp, active, revoked, history, budget>>
  BY DEF FloorWritten, SyncDirectory
<1>2. live[Floor] \in Snapshots /\ call.tick \in Ticks /\ call.name \in Names
  BY <1>1 DEF WholeInv, Progress, Writing
<1>3. minTick' \in Ticks \cup BootFloors BY <1>1, <1>2, Kinds
<1>4. /\ call' \in [step : {"write"}, file : Files, name : Files, tick : Nat]
      /\ call'.step = "write" /\ call'.file = call.name /\ call'.name = call.name
      /\ call'.tick = call.tick
  BY <1>1 DEF WholeInv, TypeOK
<1>5. TypeOK'
  BY <1>1, <1>3, <1>4 DEF WholeInv, TypeOK, Steps, Writing, history, budget
<1> QED BY <1>1, <1>2, <1>4, <1>5 DEF WholeInv, Progress, Writing

LEMMA SnapshotWrittenWhole == ASSUME WholeInv, SnapshotWritten PROVE WholeInv'
<1>1. /\ call.step = "directory" /\ call.file # Floor /\ stable' = live
      /\ minTick' = call.tick /\ call' = Idle
      /\ best' = Max({best, call.tick}) /\ recent' = Max({recent, call.tick})
      /\ kept' = [kept EXCEPT ![call.name] =
                    IF call.tick >= PersistedFloor THEN live[call.name] ELSE Absent]
      /\ UNCHANGED <<live, tmp, active, revoked, copies, budget>>
  BY DEF SnapshotWritten, SyncDirectory
<1>2. live[call.name] \in Snapshots /\ call.tick \in Ticks /\ call.name \in Names
  BY <1>1 DEF WholeInv, Progress, Writing
<1>3. best' \in Nat /\ recent' \in Nat
  <2>1. best \in Nat /\ recent \in Nat /\ call.tick \in Nat BY DEF WholeInv, TypeOK
  <2> QED BY <1>1, <2>1, MaxPair
<1>4. TypeOK' BY <1>1, <1>2, <1>3, FloorIn DEF WholeInv, TypeOK, budget
<1> QED BY <1>1, <1>4, AtRest, IdleStep

LEMMA ThrowsWhole == ASSUME WholeInv, WriteThrows \/ ScrubThrows PROVE WholeInv'
<1>1. /\ tmp' \in {tmp, [tmp EXCEPT ![call.file] = Absent]} /\ call' = Idle
      /\ UNCHANGED <<live, stable, minTick, active, revoked, history, budget>>
  BY DEF WriteThrows, ScrubThrows, DropTemp, fileVars
<1>2. TypeOK' BY <1>1, FloorIn DEF WholeInv, TypeOK, history, budget
<1> QED BY <1>1, <1>2, AtRest, IdleStep

(* What a file that was touched from outside leaves of the history. *)
LEMMA TouchedIs ==
  ASSUME TypeOK, NEW f \in Files, NEW c, Touched(f, c)
  PROVE  /\ best' \in Nat /\ best' \in {0, best}
         /\ f = Floor => best' = 0
         /\ recent' = recent /\ copies' = copies
         /\ kept' \in [Names -> {Absent} \cup Snapshots]
         /\ \A n \in Names : kept'[n] \in {Absent, kept[n]}
         /\ f \in Names => kept'[f] = Absent
         /\ f = Floor /\ c \notin Snapshots => \A n \in Names : kept'[n] = Absent
BY DEF Touched, TypeOK

LEMMA ScrubWhole ==
  ASSUME WholeInv, (\E n \in ScrubNames : Scrub(n)) \/ ScrubFiles PROVE WholeInv'
<1>1. ASSUME NEW n \in ScrubNames, Scrub(n) PROVE WholeInv'
  <2>1. /\ call' = [step |-> "zeroTemp", file |-> n, name |-> n, tick |-> 0]
        /\ calls < MaxCalls /\ calls' = calls + 1 /\ tampers' = tampers
        /\ Touched(n, Absent)
        /\ UNCHANGED <<live, stable, tmp, minTick, active, revoked>>
    BY <1>1 DEF Scrub, Begin, fileVars
  <2>2. n \in Files /\ TypeOK BY DEF WholeInv
  <2>3. /\ best' \in Nat /\ recent' = recent /\ copies' = copies
        /\ kept' \in [Names -> {Absent} \cup Snapshots]
    BY <2>1, <2>2, TouchedIs
  <2>4. TypeOK' BY <2>1, <2>2, <2>3 DEF TypeOK, Steps, Scrubbing
  <2> QED BY <2>1, <2>4, AtRest DEF Writing
<1>2. CASE ScrubFiles
  <2>1. /\ call.file \in Files
        /\ UNCHANGED <<minTick, active, revoked, history, budget>>
    BY <1>2 DEF ScrubFiles, ScrubStep, WholeInv, TypeOK
  <2>2. /\ call' \in [step : Steps, file : Files, name : Files, tick : Nat]
        /\ call'.step \notin Writing
    BY <1>2, FloorIn, IdleStep
       DEF ScrubFiles, ScrubStep, Moved, WholeInv, TypeOK, Steps, Writing, Scrubbing
  <2>3. tmp' \in [Files -> {Absent, Wiped} \cup Snapshots \cup As("unsynced")]
    BY <1>2, <2>1 DEF ScrubFiles, ZeroTemp, UnlinkTemp, ZeroLive, UnlinkLive, WholeInv, TypeOK
  <2>4. live' \in [Files -> Contents] /\ stable' \in [Files -> Contents]
    <3>1. CASE UNCHANGED <<live, stable>> BY <3>1 DEF WholeInv, TypeOK
    <3>2. CASE ZeroLive(call.file)
      <4>1. Zeroed(live[call.file]) \in Contents /\ Zeroed(stable[call.file]) \in Contents
        BY <2>1, ContentsClosed DEF WholeInv, TypeOK
      <4> QED BY <2>1, <3>2, <4>1 DEF ZeroLive, WholeInv, TypeOK
    <3>3. CASE UnlinkLive(call.file)
      <4>1. live[call.file] \in Contents /\ Absent \in Contents
        BY <2>1 DEF WholeInv, TypeOK, Contents
      <4> QED BY <2>1, <3>3, <4>1 DEF UnlinkLive, WholeInv, TypeOK
    <3> QED BY <1>2, <3>1, <3>2, <3>3 DEF ScrubFiles, ZeroTemp, UnlinkTemp
  <2>5. TypeOK' BY <2>1, <2>2, <2>3, <2>4 DEF WholeInv, TypeOK, history, budget
  <2> QED BY <2>2, <2>5, AtRest
<1> QED BY <1>1, <1>2

(* What a power cut makes of files. *)
LEMMA PowerCutIs ==
  ASSUME TypeOK, PowerCut
  PROVE  /\ live' \in [Files -> Contents] /\ stable' = live'
         /\ \A f \in Files : live'[f] \in Settled(live[f]) \cup Settled(stable[f])
<1>1. /\ live' \in {l \in [Files -> UNION {AfterPowerCut(f) : f \in Files}] :
                      \A f \in Files : l[f] \in AfterPowerCut(f)}
      /\ stable' = live'
  BY DEF PowerCut
<1>2. ASSUME NEW f \in Files
      PROVE  /\ live'[f] \in Settled(live[f]) \cup Settled(stable[f])
             /\ live'[f] \in Contents
  <2>1. live'[f] \in AfterPowerCut(f) BY <1>1
  <2>2. live[f] \in Contents /\ stable[f] \in Contents BY DEF TypeOK
  <2> QED BY <2>1, <2>2, ContentsClosed DEF AfterPowerCut
<1>3. live' \in [Files -> Contents] BY <1>1, <1>2
<1> QED BY <1>1, <1>2, <1>3

(* What putting a file back, removing or damaging it does. *)
LEMMA TamperIs ==
  ASSUME WholeInv, NEW f \in Files, Tamper(f)
  PROVE  \E c \in {Absent, Damaged} \cup Snapshots :
           /\ live' = [live EXCEPT ![f] = c] /\ stable' = [stable EXCEPT ![f] = c]
           /\ Touched(f, c)
           /\ call.step = "idle" /\ tampers < MaxTampers /\ tampers' = tampers + 1
           /\ UNCHANGED <<tmp, minTick, call, active, revoked, calls>>
<1>1. PICK c \in copies[f] \cup {Absent, Damaged} : Replace(f, c) /\ Touched(f, c)
  BY DEF Tamper
<1>2. c \in {Absent, Damaged} \cup Snapshots BY DEF WholeInv, TypeOK
<1> QED BY <1>1, <1>2 DEF Tamper, Replace

LEMMA WorldWhole ==
  ASSUME WholeInv,
         \/ Crash \/ LosePower \/ \E f \in Files : Tamper(f)
         \/ \E e \in Epochs : SwitchKey(e) \/ RevokeKey(e)
  PROVE  WholeInv'
<1>1. CASE Boot /\ UNCHANGED fileVars
  <2>1. /\ minTick' \in BootFloors /\ call' = Idle /\ recent' = 0
        /\ UNCHANGED <<live, stable, tmp, active, revoked, best, kept, copies, budget>>
    BY <1>1 DEF Boot, fileVars
  <2>2. TypeOK' BY <2>1, FloorIn DEF WholeInv, TypeOK, budget
  <2> QED BY <2>1, <2>2, AtRest, IdleStep
<1>2. CASE Boot /\ PowerCut
  <2>1. /\ minTick' \in BootFloors /\ call' = Idle /\ recent' = 0
        /\ tmp' \in {tmp, [f \in Files |-> Absent]}
        /\ UNCHANGED <<active, revoked, best, kept, copies, budget>>
    BY <1>2 DEF Boot, PowerCut
  <2>2. live' \in [Files -> Contents] /\ stable' = live'
    BY <1>2, PowerCutIs DEF WholeInv
  <2>3. TypeOK' BY <2>1, <2>2, FloorIn DEF WholeInv, TypeOK, budget
  <2> QED BY <2>1, <2>3, AtRest, IdleStep
<1>3. ASSUME NEW f \in Files, Tamper(f) PROVE WholeInv'
  <2>1. PICK c \in {Absent, Damaged} \cup Snapshots :
          /\ live' = [live EXCEPT ![f] = c] /\ stable' = [stable EXCEPT ![f] = c]
          /\ Touched(f, c)
          /\ call.step = "idle" /\ tampers < MaxTampers /\ tampers' = tampers + 1
          /\ UNCHANGED <<tmp, minTick, call, active, revoked, calls>>
    BY <1>3, TamperIs
  <2>2. /\ best' \in Nat /\ recent' = recent /\ copies' = copies
        /\ kept' \in [Names -> {Absent} \cup Snapshots]
    BY <2>1, TouchedIs DEF WholeInv
  <2>3. TypeOK' BY <2>1, <2>2 DEF WholeInv, TypeOK, Contents
  <2> QED BY <2>1, <2>3, AtRest DEF Writing
<1>4. ASSUME NEW e \in Epochs, SwitchKey(e) \/ RevokeKey(e) PROVE WholeInv'
  <2>1. /\ call.step = "idle" /\ e \notin revoked /\ e # active
        /\ \/ active' = e /\ revoked' = revoked
           \/ active' = active /\ revoked' = revoked \cup {e}
        /\ UNCHANGED <<live, stable, tmp, minTick, call, history, budget>>
    BY <1>4 DEF SwitchKey, RevokeKey, fileVars
  <2>2. TypeOK' BY <2>1 DEF WholeInv, TypeOK, history, budget
  <2> QED BY <2>1, <2>2, AtRest DEF Writing
<1> QED BY <1>1, <1>2, <1>3, <1>4 DEF Crash, LosePower

LEMMA StepWhole == WholeInv /\ [Next]_vars => WholeInv'
<1> SUFFICES ASSUME WholeInv, [Next]_vars PROVE WholeInv' OBVIOUS
<1>1. CASE UNCHANGED vars
  BY <1>1 DEF vars, fileVars, history, budget, WholeInv, TypeOK, Progress, Payload, NextFloor,
              PersistedFloor
<1>2. CASE Next
  BY <1>2, CheckpointWhole, WriteWhole, SyncWhole, PublishWhole, FloorWrittenWhole,
     SnapshotWrittenWhole, ThrowsWhole, ScrubWhole, WorldWhole DEF Next
<1> QED BY <1>1, <1>2

(* Types, and how far each call has come, whatever the host scrubs. *)
THEOREM WholeInvariance == Spec => []WholeInv
BY InitWhole, StepWhole, PTL DEF Spec

(* No reader, and no power cut, ever meets part of a snapshot: what is renamed
   into place was synced before (AtomicWriter.write). *)
THEOREM FilesAreWhole == Spec => []NeverHalfWritten
<1>1. Torn \notin Contents
  <2>1. Torn.kind = "torn" /\ Torn \notin {Absent, Wiped, Damaged} \cup Snapshots BY Kinds
  <2>2. \A c \in As("zeroed") : c.kind = "zeroed" BY Kinds DEF As
  <2> QED BY <2>1, <2>2 DEF Contents
<1>2. WholeInv => NeverHalfWritten
  BY <1>1 DEF WholeInv, TypeOK, NeverHalfWritten
<1> QED BY <1>2, WholeInvariance, PTL

-----------------------------------------------------------------------------
(* The floors, on disk and in memory *)

LEMMA InitFloor == Init => FloorStands /\ KeptStands
<1> SUFFICES ASSUME Init PROVE FloorStands /\ KeptStands OBVIOUS
<1>1. best = 0 /\ recent = 0 /\ minTick \in Nat /\ call = Idle
      /\ \A n \in Names : kept[n] = Absent
  BY DEF Init
<1> QED BY <1>1, IdleStep DEF FloorStands, KeptStands

(* The floors' ticks and what the history promises are numbers. *)
LEMMA FloorTypes ==
  ASSUME FloorInv
  PROVE  /\ best \in Nat /\ recent \in Nat /\ minTick \in Nat /\ call.tick \in Nat
         /\ \A s \in Snapshots : s.tick \in Nat
         /\ recent <= minTick
         /\ best # 0 => /\ live[Floor] \in Snapshots /\ stable[Floor] \in Snapshots
                        /\ best <= live[Floor].tick /\ best <= stable[Floor].tick
BY Kinds DEF FloorInv, WholeInv, TypeOK, FloorStands

(* A step that leaves files and history alone. *)
LEMMA FloorKept ==
  ASSUME FloorInv, UNCHANGED <<live, stable, minTick, history>>,
         \/ UNCHANGED call
         \/ call' = Idle
         \/ /\ call'.step \in Writing /\ call.step \in Writing
            /\ call'.file = call.file /\ call'.tick = call.tick
         \/ call.step \in Scrubbing /\ call'.step \in Scrubbing /\ call'.file = call.file
  PROVE  FloorStands' /\ KeptStands'
<1>1. UNCHANGED <<live, stable, minTick, best, recent, kept>> BY DEF history
<1>2. Writing \cap Scrubbing = {} BY DEF Writing, Scrubbing
<1>3. FloorStands' BY <1>1, <1>2, IdleStep DEF FloorInv, FloorStands
<1>4. KeptStands' BY <1>1, <1>2, IdleStep DEF FloorInv, KeptStands
<1> QED BY <1>3, <1>4

LEMMA BeginFloor ==
  ASSUME FloorInv, NEW n \in Names, NEW tick \in Ticks, Checkpoint(n, tick)
  PROVE  FloorStands' /\ KeptStands'
<1>1. /\ call'.step = "write" /\ call'.file = Floor /\ call'.tick = tick /\ tick >= minTick
      /\ UNCHANGED <<live, stable, minTick, best, recent, kept>>
  BY DEF Checkpoint, Begin, fileVars, history
<1>2. tick \in Nat /\ minTick \in Nat /\ recent \in Nat /\ recent <= minTick
  BY FloorTypes
<1>3. FloorStands' BY <1>1, <1>2 DEF FloorInv, FloorStands
<1>4. KeptStands' BY <1>1 DEF FloorInv, KeptStands, Scrubbing
<1> QED BY <1>3, <1>4

LEMMA TempsKeep ==
  ASSUME FloorInv,
         \/ Write \/ Sync \/ WriteThrows \/ ScrubThrows
         \/ \E e \in Epochs : SwitchKey(e) \/ RevokeKey(e)
  PROVE  FloorStands' /\ KeptStands'
<1>1. UNCHANGED <<live, stable, minTick, history>>
  BY DEF Write, Sync, WriteThrows, ScrubThrows, SwitchKey, RevokeKey, fileVars, WriteTemp,
         SyncTemp, DropTemp
<1>2. TypeOK BY DEF FloorInv, WholeInv
<1>3. CASE Write \/ Sync
  <2>1. /\ call'.step \in Writing /\ call.step \in Writing
        /\ call'.file = call.file /\ call'.tick = call.tick
    BY <1>2, <1>3 DEF TypeOK, Write, Sync, Goto, Moved, Writing
  <2> QED BY <1>1, <2>1, FloorKept
<1>4. CASE WriteThrows \/ ScrubThrows
  BY <1>1, <1>4, FloorKept DEF WriteThrows, ScrubThrows
<1>5. CASE \E e \in Epochs : SwitchKey(e) \/ RevokeKey(e)
  BY <1>1, <1>5, FloorKept DEF SwitchKey, RevokeKey
<1> QED BY <1>3, <1>4, <1>5

(* The floor a call writes is not below what the history promises of it. *)
LEMMA RaisedFloor ==
  ASSUME FloorInv, Publish, call.file = Floor
  PROVE  /\ Payload \in Snapshots /\ Payload.tick \in Nat
         /\ live'[Floor] = Payload /\ best <= Payload.tick
<1>1. /\ call.step \in Writing /\ Payload \in Snapshots /\ live'[Floor] = Payload
      /\ live[Floor].tick <= Payload.tick
  BY PublishIs, PayloadIs DEF FloorInv, WholeInv
<1>2. Payload.tick \in Nat BY <1>1, Kinds
<1>3. CASE best = 0 BY <1>1, <1>2, <1>3
<1>4. CASE best # 0
  BY <1>1, <1>2, <1>4, FloorTypes
<1> QED BY <1>1, <1>2, <1>3, <1>4

(* Raising the floor in place, and a snapshot above it. *)
LEMMA PublishFloor == ASSUME FloorInv, Publish PROVE FloorStands' /\ KeptStands'
<1>0. WholeInv BY DEF FloorInv
<1>1. /\ call.step \in Writing /\ Payload \in Snapshots /\ stable' = stable
      /\ \A f \in Files : live'[f] = IF f = call.file THEN Payload ELSE live[f]
      /\ call'.step = "directory" /\ call'.file = call.file /\ call'.tick = call.tick
  BY <1>0, PublishIs DEF WholeInv, TypeOK
<1>2. /\ UNCHANGED <<minTick, best, recent>>
      /\ \A n \in Names : kept'[n] = IF n = call.file THEN Absent ELSE kept[n]
  BY DEF Publish
<1>3. call'.step \in Writing /\ call'.step \notin Scrubbing BY <1>1 DEF Writing, Scrubbing
<1>4. CASE call.file = Floor
  <2>1. /\ Payload.tick \in Nat /\ live'[Floor] = Payload /\ best <= Payload.tick
    BY <1>4, RaisedFloor
  <2>2. FloorStands' BY <1>1, <1>2, <1>3, <1>4, <2>1 DEF FloorInv, FloorStands
  <2>3. \A n \in Names : live'[n] = live[n] /\ kept'[n] = kept[n]
    BY <1>1, <1>2, <1>4, FloorIn
  <2>4. KeptStands' BY <1>1, <1>3, <2>1, <2>3 DEF FloorInv, KeptStands
  <2> QED BY <2>2, <2>4
<1>5. CASE call.file # Floor
  <2>1. live'[Floor] = live[Floor] BY <1>1, <1>5, FloorIn
  <2>2. FloorStands' BY <1>1, <1>2, <1>3, <1>5, <2>1 DEF FloorInv, FloorStands
  <2>3. \A n \in Names : kept'[n] # Absent => kept'[n] = kept[n] /\ live'[n] = live[n]
    BY <1>1, <1>2, FloorIn
  <2>4. KeptStands' BY <1>1, <1>3, <2>1, <2>3 DEF FloorInv, KeptStands
  <2> QED BY <2>2, <2>4
<1> QED BY <1>4, <1>5

LEMMA WrittenFloor ==
  ASSUME FloorInv, FloorWritten \/ SnapshotWritten PROVE FloorStands' /\ KeptStands'
<1>0. /\ call.step = "directory" /\ call.step \in Writing /\ live' = live /\ stable' = live
      /\ live[call.file] \in Snapshots /\ call.tick <= live[call.file].tick
      /\ call.name \in Names /\ call.file \in {Floor, call.name}
      /\ recent <= call.tick
  BY DEF FloorInv, FloorStands, WholeInv, FloorWritten, SnapshotWritten, SyncDirectory,
         Progress, Writing
<1>1. CASE FloorWritten
  <2>1. /\ call.file = Floor /\ call' = [call EXCEPT !.step = "write", !.file = call.name]
        /\ minTick' = live[Floor].tick /\ UNCHANGED <<best, recent, kept>>
    BY <1>1 DEF FloorWritten, history
  <2>2. call'.step = "write" /\ call'.tick = call.tick
    BY <2>1 DEF FloorInv, WholeInv, TypeOK
  <2>3. FloorStands' BY <1>0, <2>1, <2>2, FloorTypes DEF FloorStands
  <2>4. KeptStands' BY <1>0, <2>1, <2>2 DEF FloorInv, KeptStands, Scrubbing
  <2> QED BY <2>3, <2>4
<1>2. CASE SnapshotWritten
  <2>1. /\ call.file # Floor /\ call' = Idle /\ minTick' = call.tick
        /\ best' = Max({best, call.tick}) /\ recent' = Max({recent, call.tick})
        /\ kept' = [kept EXCEPT ![call.name] =
                      IF call.tick >= PersistedFloor THEN live[call.name] ELSE Absent]
    BY <1>2 DEF SnapshotWritten
  <2>2. live[Floor] \in Snapshots /\ call.tick <= live[Floor].tick
    BY <1>0, <2>1 DEF FloorInv, FloorStands
  <2>3. best' <= live[Floor].tick /\ recent' <= call.tick
    BY <1>0, <2>1, <2>2, FloorTypes, MaxPair
  <2>4. FloorStands' BY <1>0, <2>1, <2>2, <2>3, IdleStep DEF FloorStands
  <2>5. \A n \in Names : kept'[n] \in {kept[n], live[n], Absent}
    BY <1>0, <2>1 DEF FloorInv, WholeInv, TypeOK
  <2>6. KeptStands' BY <1>0, <2>1, <2>2, <2>5, IdleStep DEF FloorInv, KeptStands
  <2> QED BY <2>4, <2>6
<1> QED BY <1>1, <1>2

LEMMA BootFloor == ASSUME FloorInv, Crash \/ LosePower PROVE FloorStands' /\ KeptStands'
<1>1. /\ best' = best /\ recent' = 0 /\ kept' = kept /\ call' = Idle /\ minTick' \in Nat
  BY DEF Crash, LosePower, Boot
<1>2. ASSUME NEW f \in Files, live[f] \in Snapshots, stable[f] \in Snapshots
      PROVE  live'[f] \in {live[f], stable[f]} /\ stable'[f] \in {live[f], stable[f]}
  <2>1. CASE UNCHANGED fileVars BY <2>1 DEF fileVars
  <2>2. CASE PowerCut
    BY <1>2, <2>2, PowerCutIs, SnapshotSettled DEF FloorInv, WholeInv
  <2> QED BY <2>1, <2>2 DEF Crash, LosePower
<1>3. FloorStands' BY <1>1, <1>2, FloorIn, FloorTypes, IdleStep DEF FloorStands
<1>4. KeptStands'
  <2>1. ASSUME NEW n \in Names, kept[n] # Absent
        PROVE  /\ live'[n] = kept[n] /\ stable'[n] = kept[n]
               /\ {live'[Floor], stable'[Floor]} \subseteq Snapshots
    <3>1. kept[n] \in Snapshots BY <2>1 DEF FloorInv, WholeInv, TypeOK
    <3>2. /\ live[n] = kept[n] /\ stable[n] = kept[n]
          /\ live[Floor] \in Snapshots /\ stable[Floor] \in Snapshots
      BY <2>1 DEF FloorInv, KeptStands
    <3> QED BY <1>2, <3>1, <3>2, FloorIn
  <2> QED BY <1>1, <2>1, IdleStep DEF KeptStands
<1> QED BY <1>3, <1>4

(* A file that is about to be scrubbed, or that someone replaced, removed or
   damaged: the history promises nothing of it any more. *)
LEMMA TouchedFloor ==
  ASSUME FloorInv, NEW f \in Files, NEW c, Touched(f, c), minTick' = minTick,
         call'.step \notin Writing,
         call'.step \in Scrubbing => call'.file = f /\ c = Absent,
         \A g \in Files \ {f} : live'[g] = live[g] /\ stable'[g] = stable[g],
         c \in Snapshots => live'[f] = c /\ stable'[f] = c
  PROVE  FloorStands' /\ KeptStands'
<1>1. /\ best' \in {0, best}
      /\ f = Floor => best' = 0
      /\ recent' = recent
      /\ \A n \in Names : kept'[n] \in {Absent, kept[n]}
      /\ f \in Names => kept'[f] = Absent
      /\ f = Floor /\ c \notin Snapshots => \A n \in Names : kept'[n] = Absent
  BY TouchedIs DEF FloorInv, WholeInv
<1>2. Absent \notin Snapshots BY Kinds
<1>3. FloorStands'
  <2>1. best' # 0 => UNCHANGED <<live[Floor], stable[Floor]>> /\ best' = best
    BY <1>1, FloorIn
  <2> QED BY <1>1, <2>1 DEF FloorInv, FloorStands
<1>4. ASSUME NEW n \in Names, kept'[n] # Absent
      PROVE  /\ live'[n] = kept'[n] /\ stable'[n] = kept'[n]
             /\ {live'[Floor], stable'[Floor]} \subseteq Snapshots
  <2>1. kept'[n] = kept[n] /\ n # f BY <1>1, <1>4
  <2>2. live'[n] = kept'[n] /\ stable'[n] = kept'[n]
    BY <1>4, <2>1, FloorIn DEF FloorInv, KeptStands
  <2>3. {live'[Floor], stable'[Floor]} \subseteq Snapshots
    BY <1>1, <1>4, <2>1, FloorIn DEF FloorInv, KeptStands
  <2> QED BY <2>2, <2>3
<1>5. call'.step \in Scrubbing =>
        /\ \A n \in Names : call'.file \in {n, Floor} => kept'[n] = Absent
        /\ call'.file = Floor => best' = 0
  BY <1>1, <1>2
<1> QED BY <1>3, <1>4, <1>5 DEF KeptStands

LEMMA OthersFloor ==
  ASSUME FloorInv, (\E n \in ScrubNames : Scrub(n)) \/ \E f \in Files : Tamper(f)
  PROVE  FloorStands' /\ KeptStands'
<1>1. ASSUME NEW n \in ScrubNames, Scrub(n) PROVE FloorStands' /\ KeptStands'
  <2>1. /\ call'.step = "zeroTemp" /\ call'.file = n /\ n \in Files /\ Touched(n, Absent)
        /\ UNCHANGED <<live, stable, minTick>>
    BY <1>1 DEF Scrub, Begin, fileVars
  <2>2. Absent \notin Snapshots BY Kinds
  <2> QED BY <2>1, <2>2, TouchedFloor DEF Writing
<1>2. ASSUME NEW f \in Files, Tamper(f) PROVE FloorStands' /\ KeptStands'
  <2>1. PICK c \in {Absent, Damaged} \cup Snapshots :
          /\ live' = [live EXCEPT ![f] = c] /\ stable' = [stable EXCEPT ![f] = c]
          /\ Touched(f, c) /\ call.step = "idle" /\ UNCHANGED <<minTick, call>>
    BY <1>2, TamperIs DEF FloorInv
  <2>2. /\ \A g \in Files \ {f} : live'[g] = live[g] /\ stable'[g] = stable[g]
        /\ live'[f] = c /\ stable'[f] = c
    BY <2>1 DEF FloorInv, WholeInv, TypeOK
  <2> QED BY <2>1, <2>2, TouchedFloor DEF Writing, Scrubbing
<1> QED BY <1>1, <1>2

(* What scrub does to a file was given up when it began. *)
LEMMA ScrubFloor == ASSUME FloorInv, ScrubFiles PROVE FloorStands' /\ KeptStands'
<1>1. /\ call.file \in Files /\ call.step \in Scrubbing
      /\ UNCHANGED <<minTick, best, recent, kept>>
      /\ call' = Idle \/ (call'.step \in Scrubbing /\ call'.file = call.file)
  <2>1. call \in [step : Steps, file : Files, name : Files, tick : Nat]
    BY DEF FloorInv, WholeInv, TypeOK
  <2>2. ASSUME NEW step \in Scrubbing
        PROVE  Moved(step).step \in Scrubbing /\ Moved(step).file = call.file
    BY <2>1 DEF Moved
  <2>3. {"zeroTemp", "unlinkTemp", "zeroLive", "unlinkLive"} = Scrubbing BY DEF Scrubbing
  <2>4. PICK step \in {"zeroTemp", "unlinkTemp", "zeroLive", "unlinkLive"},
             next \in {Moved("unlinkTemp"), Moved("zeroLive"), Moved("unlinkLive"), Idle} :
          ScrubStep(step, next)
    BY DEF ScrubFiles
  <2>5. /\ call.step \in Scrubbing /\ UNCHANGED <<minTick, history>>
        /\ call' = next
    BY <2>3, <2>4 DEF ScrubStep
  <2>6. call' = Idle \/ (call'.step \in Scrubbing /\ call'.file = call.file)
    <3>1. CASE next = Idle BY <2>5, <3>1
    <3>2. ASSUME NEW s \in Scrubbing, next = Moved(s)
          PROVE  call'.step \in Scrubbing /\ call'.file = call.file
      BY <2>2, <2>5, <3>2
    <3> QED BY <2>3, <2>4, <3>1, <3>2
  <2>7. UNCHANGED <<minTick, best, recent, kept>> BY <2>5 DEF history
  <2> QED BY <2>1, <2>5, <2>6, <2>7
<1>2. \A g \in Files \ {call.file} : live'[g] = live[g] /\ stable'[g] = stable[g]
  BY <1>1 DEF ScrubFiles, ZeroTemp, UnlinkTemp, ZeroLive, UnlinkLive, FloorInv, WholeInv,
              TypeOK
<1>3. /\ \A n \in Names : call.file \in {n, Floor} => kept[n] = Absent
      /\ call.file = Floor => best = 0
  BY <1>1 DEF FloorInv, KeptStands
<1>4. call'.step \notin Writing BY <1>1, IdleStep DEF Writing, Scrubbing
<1>5. FloorStands' BY <1>1, <1>2, <1>3, <1>4, FloorIn DEF FloorInv, FloorStands
<1>6. KeptStands' BY <1>1, <1>2, <1>3, FloorIn, IdleStep DEF FloorInv, KeptStands
<1> QED BY <1>5, <1>6

LEMMA StepFloor == FloorInv /\ [Next]_vars => FloorInv'
<1> SUFFICES ASSUME FloorInv, [Next]_vars PROVE FloorInv' OBVIOUS
<1>1. WholeInv' BY StepWhole DEF FloorInv
<1>2. CASE UNCHANGED vars
  BY <1>1, <1>2 DEF vars, fileVars, history, FloorInv, FloorStands, KeptStands
<1>3. CASE Next
  BY <1>1, <1>3, BeginFloor, TempsKeep, PublishFloor, WrittenFloor, BootFloor, OthersFloor,
     ScrubFloor DEF Next, FloorInv
<1> QED BY <1>2, <1>3

(* The floor on disk only rises while its file is left alone, the floor in
   memory until the next boot. *)
THEOREM FloorInvariance == Spec => []FloorInv
<1>1. Init => FloorInv BY InitWhole, InitFloor DEF FloorInv
<1>2. FloorInv /\ [Next]_vars => FloorInv' BY StepFloor
<1> QED BY <1>1, <1>2, PTL DEF Spec

-----------------------------------------------------------------------------
(* The results *)

(* Whichever files are put back and wherever a call stopped, nothing older is
   restored than the newest tick a checkpoint returned with since the floor file
   was last put back, removed, damaged or scrubbed, nor than the newest one
   returned since boot, whatever was done to that file (checkpoint,
   #persistRollbackFloor and restore). *)
THEOREM NothingRolledBack == Spec => []NoRollback
<1>1. FloorInv => NoRollback
  <2> SUFFICES ASSUME FloorInv, NEW n \in Names, Restorable(n)
               PROVE  live[n].tick >= Max({best, recent})
    BY DEF NoRollback
  <2>1. live[n].tick >= live[Floor].tick /\ live[n].tick >= minTick BY DEF Restorable
  <2>2. live[n] \in Contents BY DEF FloorInv, WholeInv, TypeOK
  <2>3. live[n] \in Snapshots BY <2>2, Kinds DEF Restorable, Verifies, Contents, As
  <2>4. live[n].tick \in Nat BY <2>3, Kinds
  <2>5. live[n].tick >= best
    <3>1. CASE best = 0 BY <2>4, <3>1
    <3>2. CASE best # 0 BY <2>1, <2>4, <3>2, FloorTypes
    <3> QED BY <3>1, <3>2
  <2>6. live[n].tick >= recent BY <2>1, <2>4, FloorTypes
  <2>7. Max({best, recent}) \in {best, recent} BY FloorTypes, MaxPair
  <2> QED BY <2>5, <2>6, <2>7
<1> QED BY <1>1, FloorInvariance, PTL

(* What a checkpoint returned with is still restorable after any crashes,
   power cuts and throws, under the provisos of Resting. *)
THEOREM ReturnedIsKept == Spec => []ReturnedSurvives
<1>1. FloorInv => ReturnedSurvives
  <2> SUFFICES ASSUME FloorInv, NEW n \in Resting
               PROVE  Restorable(n) /\ live[n] = kept[n]
    BY DEF ReturnedSurvives
  <2>1. /\ n \in Names /\ kept[n] # Absent /\ live[n] = kept[n] /\ kept[n] \in Snapshots
        /\ kept[n].tick >= PersistedFloor /\ kept[n].tick >= minTick
        /\ kept[n].epoch \notin revoked /\ live[Floor].epoch \notin revoked
    BY DEF Resting, FloorInv, KeptStands, WholeInv, TypeOK
  <2>2. live[Floor] \in Snapshots BY <2>1 DEF FloorInv, KeptStands
  <2>3. PersistedFloor = live[Floor].tick BY <2>2, Kinds DEF PersistedFloor
  <2> QED BY <2>1, <2>2, <2>3, Kinds DEF Restorable, Verifies
<1> QED BY <1>1, FloorInvariance, PTL

-----------------------------------------------------------------------------
(* The durable receipts of the generation store *)

(* The name only ever holds linked, synced files. *)
Whole == \A f \in maybe \cup {final} : f # NoFile => f \in linked \cap synced

(* A call past its link, still alive, and the owner of the name. *)
InCharge(p) == p \in linked /\ At(p, AfterLink \cup {"clean", "withdraw"})

Owner ==
  \A p \in Publishers :
    /\ InCharge(p) => final = p
    /\ p \in linked => At(p, AfterLink \cup {"clean", "withdraw", "done", "dead"})
    /\ At(p, {"link"}) => p \in synced
    /\ At(p, {"withdraw"}) => p \in linked /\ receipt[p] = NoFile
    /\ p \in dropped => At(p, {"done"}) /\ receipt[p] = NoFile

Loaded ==
  \A p \in Publishers : At(p, Proofs) =>
    /\ seen[p] \in linked \cap synced
    /\ final = seen[p] \/ seen[p] \in dropped

ReceiptInv == StoreTypeOK /\ Whole /\ Owner /\ Loaded /\ ReceiptStands

USE PublisherAssumption
  DEF StoreTypeOK, CallSteps, FirstTry, AfterLink, Loads, Proofs, At

LEMMA InitReceipt == StoreInit => ReceiptInv
BY DEF StoreInit, ReceiptInv, Whole, Owner, InCharge, Loaded, ReceiptStands

(* Every step that leaves the name, the directory and the receipts alone only
   moves one call along. *)
Quiet(p) ==
  \/ Refuse(p) \/ Look(p) \/ Stage(p) \/ PublishThrows(p) \/ Clean(p) \/ CallDies(p)

LEMMA QuietStep == ASSUME NEW p \in Publishers, ReceiptInv, Quiet(p) PROVE ReceiptInv'
<1> USE DEF ReceiptInv, MoveTo
<1>1. /\ UNCHANGED <<final, maybe, synced, linked, seen, receipt, dropped>>
      /\ \A q \in Publishers \ {p} : pc'[q] = pc[q]
      /\ pc[p] \notin {"done", "dead"}
  BY DEF Quiet, Refuse, Look, Stage, PublishThrows, Clean, CallDies, Begun
<1>2. /\ pc'[p] \in {"look", "stage", "sync", "clean", "withdraw", "done", "dead"}
      /\ pc'[p] \in {"look", "stage", "sync"} =>
           pc[p] \notin AfterLink \cup {"clean", "withdraw"}
      /\ pc'[p] = "withdraw" => p \in linked /\ receipt[p] = NoFile
      /\ pc'[p] = "clean" => pc[p] \in AfterLink \cup {"stage", "sync", "link"}
  BY DEF Quiet, Refuse, Look, Stage, PublishThrows, Clean, CallDies, Begun, MustWithdraw
<1>3. StoreTypeOK' BY DEF Quiet, Refuse, Look, Stage, PublishThrows, Clean, CallDies
<1>4. Whole' BY <1>1 DEF Whole
<1>5. Owner' BY <1>1, <1>2 DEF Owner, InCharge
<1>6. Loaded' BY <1>1, <1>2 DEF Loaded
<1>7. ReceiptStands' BY <1>1 DEF ReceiptStands, Stands
<1> QED BY <1>3, <1>4, <1>5, <1>6, <1>7

LEMMA LoadStep == ASSUME NEW p \in Publishers, ReceiptInv, Load(p) PROVE ReceiptInv'
<1> USE DEF ReceiptInv, MoveTo, Load
<1>1. StoreTypeOK' OBVIOUS
<1>2. Whole' BY DEF Whole
<1>3. Owner' BY DEF Owner, InCharge
<1>4. Loaded' BY DEF Loaded, Whole
<1>5. ReceiptStands' BY DEF ReceiptStands, Stands
<1> QED BY <1>1, <1>2, <1>3, <1>4, <1>5

LEMMA ProveStep == ASSUME NEW p \in Publishers, ReceiptInv, Prove(p) PROVE ReceiptInv'
<1> USE DEF ReceiptInv, MoveTo, Prove, Mint
<1>1. StoreTypeOK' OBVIOUS
<1>2. Whole' BY DEF Whole
<1>3. Owner' BY DEF Owner, InCharge
<1>4. Loaded' BY DEF Loaded
<1>5. ReceiptStands' BY DEF ReceiptStands, Stands, Loaded
<1> QED BY <1>1, <1>2, <1>3, <1>4, <1>5

LEMMA SyncStep == ASSUME NEW p \in Publishers, ReceiptInv, SyncStaged(p) PROVE ReceiptInv'
<1> USE DEF ReceiptInv, MoveTo, SyncStaged
<1>1. StoreTypeOK' OBVIOUS
<1>2. Whole' BY DEF Whole
<1>3. Owner' BY DEF Owner, InCharge
<1>4. Loaded' BY DEF Loaded
<1>5. ReceiptStands' BY DEF ReceiptStands, Stands
<1> QED BY <1>1, <1>2, <1>3, <1>4, <1>5

(* A link takes a free name, so no receipt stands on it and no call is in
   charge of it. *)
LEMMA LinkStep == ASSUME NEW p \in Publishers, ReceiptInv, Link(p) PROVE ReceiptInv'
<1> USE DEF ReceiptInv, MoveTo, Link, Put
<1>1. StoreTypeOK' OBVIOUS
<1>2. Whole' BY DEF Whole, Owner
<1>3. Owner' BY DEF Owner, InCharge
<1>4. Loaded' BY DEF Loaded
<1>5. ReceiptStands' BY DEF ReceiptStands, Stands
<1> QED BY <1>1, <1>2, <1>3, <1>4, <1>5

(* Only the owner of the name takes it back, so every receipt that falls
   vouched for the owner's file. *)
LEMMA WithdrawStep == ASSUME NEW p \in Publishers, ReceiptInv, Withdraw(p) PROVE ReceiptInv'
<1> USE DEF ReceiptInv, MoveTo, Withdraw, Put
<1>1. final = p BY DEF Owner, InCharge
<1>2. StoreTypeOK' OBVIOUS
<1>3. Whole' BY DEF Whole
<1>4. Owner' BY <1>1 DEF Owner, InCharge
<1>5. Loaded' BY <1>1 DEF Loaded
<1>6. ReceiptStands' BY <1>1 DEF ReceiptStands, Stands
<1> QED BY <1>2, <1>3, <1>4, <1>5, <1>6

LEMMA PowerCutStep == ASSUME ReceiptInv, PowerLost PROVE ReceiptInv'
<1> USE DEF ReceiptInv, PowerLost, Begun
<1>1. StoreTypeOK' OBVIOUS
<1>2. Whole' BY DEF Whole
<1>3. Owner' BY DEF Owner, InCharge
<1>4. Loaded' BY DEF Loaded
<1>5. ReceiptStands' BY DEF ReceiptStands, Stands
<1> QED BY <1>1, <1>2, <1>3, <1>4, <1>5

LEMMA StepReceipt == ASSUME ReceiptInv, [StoreNext]_storeVars PROVE ReceiptInv'
<1>1. ASSUME NEW p \in Publishers, Quiet(p) PROVE ReceiptInv' BY <1>1, QuietStep
<1>2. ASSUME NEW p \in Publishers,
             Load(p) \/ Prove(p) \/ SyncStaged(p) \/ Link(p) \/ Withdraw(p)
      PROVE  ReceiptInv'
  BY <1>2, LoadStep, ProveStep, SyncStep, LinkStep, WithdrawStep
<1>3. CASE PowerLost BY <1>3, PowerCutStep
<1>4. CASE UNCHANGED storeVars
  BY <1>4 DEF storeVars, ReceiptInv, Whole, Owner, InCharge, Loaded, ReceiptStands, Stands
<1> QED BY <1>1, <1>2, <1>3, <1>4 DEF StoreNext, Quiet

(* The invariant holds in every state of the store. *)
THEOREM ReceiptInvariance == StoreSpec => []ReceiptInv
BY InitReceipt, StepReceipt, PTL DEF StoreSpec

(* Whatever the publishers, crashes and power cuts do, the file a durable
   receipt vouches for is under its name, whole and durable, unless the call
   that had published it was refused and took the name back
   (persistRegistryGeneration and its finally block). *)
THEOREM DurableReceipts == StoreSpec => []ReceiptStands
<1>1. ReceiptInv => ReceiptStands BY DEF ReceiptInv
<1> QED BY <1>1, ReceiptInvariance, PTL

(* What a publisher's own receipt vouches for is never disturbed: it is
   either refused or its file stays for good. *)
THEOREM PublishersReceipts == StoreSpec => []PublishersReceiptStands
<1>1. ReceiptInv => PublishersReceiptStands
  BY DEF ReceiptInv, PublishersReceiptStands, ReceiptStands, Owner
<1> QED BY <1>1, ReceiptInvariance, PTL
=============================================================================
