------------------------- MODULE RotationController -------------------------
(***************************************************************************)
(* The automatic driver of a registry key rotation                         *)
(* (registry-rotation-controller.ts) with its checkpoints                  *)
(* (registry-key-rotation.ts).  Each call restores an authenticated        *)
(* checkpoint, advances at most one phase, and hands back a state that     *)
(* must be sealed and restored before the next call.  The process may die  *)
(* at any point; storage may answer with an older checkpoint, which the    *)
(* rollback floors are there to refuse.                                    *)
(*                                                                         *)
(* A gate that refuses leaves the state alone, so only the evidence that   *)
(* decides between verification and fallback is modelled: whether the new  *)
(* key's batches verify, and how many clean ones were counted.             *)
(***************************************************************************)
EXTENDS Integers, Sequences, FiniteSets, Verdicts

CONSTANTS
  Candidates, Ticks, NoTick, NoTransition, Ballots, Quorum,
  Receipts,        \* admitted candidates: [key, serial, issued, generation]
  FirstAuthority,  \* the authority accepted before the first rotation
  FirstFloor,      \* and the floor beneath it
  CanaryN,         \* clean batches that end the canary window
  MaxCrashes,      \* bound: times the process dies
  MaxRollbacks     \* bound: times storage answers with an old checkpoint

ASSUME ControllerAssumption ==
  /\ CanaryN \in Nat \ {0}
  /\ MaxCrashes \in Nat /\ MaxRollbacks \in Nat
  /\ \A r \in Receipts :
       r.key \in Candidates /\ r.serial \in Nat /\ r.issued \in Nat
  /\ \A a \in {FirstAuthority, FirstFloor} :
       /\ a = [serial |-> a.serial, issued |-> a.issued, generation |-> a.generation]
       /\ a.serial \in Nat /\ a.issued \in Nat
  /\ FirstFloor.serial < FirstAuthority.serial
  /\ FirstFloor.issued < FirstAuthority.issued

(* What KeyRotation assumes of the constants it shares. *)
ASSUME RotationAssumption ==
  /\ Ticks \subseteq Nat /\ NoTick \notin Ticks
  /\ NoTransition \notin [from : Nat, to : Nat]
  /\ \A k \in Candidates :
       /\ k = [keyId |-> k.keyId, keyKind |-> k.keyKind,
               keyCommit |-> k.keyCommit, fileRef |-> k.fileRef]
       /\ k.keyKind \in {"symmetric", "asymmetric"}

VARIABLES
  ring, phase, transition,  \* the process in memory
  accepted, floor,          \* the accepted authority and the one before it
  mode,                     \* down, restored (may advance), unsealed, sealed
  disk,                     \* every checkpoint ever sealed, oldest first
  floors,                   \* the caller's rollback floors
  destroyed,                \* identities of the private keys custody destroyed
  bad, clean,               \* the canary: do batches verify, how many did
  crashes, rollbacks        \* bounds

R == INSTANCE KeyRotation

process == <<ring, phase, transition>>
memory  == <<process, accepted, floor>>
world   == <<floors, destroyed, bad, clean>>
budget  == <<crashes, rollbacks>>
vars    == <<memory, mode, disk, world, budget>>

State == [ring |-> ring, phase |-> phase, transition |-> transition,
          accepted |-> accepted, floor |-> floor]

Active == R!ActiveEpoch(ring)

TypeOK ==
  /\ R!TypeOK
  /\ mode \in {"down", "restored", "unsealed", "sealed"}
  /\ \A i \in DOMAIN disk : DOMAIN disk[i] = DOMAIN State
  /\ clean \in 0..CanaryN /\ bad \in BOOLEAN
  /\ crashes \in 0..MaxCrashes /\ rollbacks \in 0..MaxRollbacks

-----------------------------------------------------------------------------
(* Checkpoints *)

(* stateWellFormed: what may be sealed and what may be restored. *)
WellFormed(s) ==
  LET staged == Cardinality(R!WithStatus(s.ring, "staged")) IN
  /\ R!RingVerifies(s.ring)
  /\ s.accepted.serial > s.floor.serial /\ s.accepted.issued > s.floor.issued
  /\ s.transition # NoTransition => s.transition.to = s.transition.from + 1
  /\ CASE s.phase \in {"idle", "ready"} -> staged = 0 /\ s.transition = NoTransition
       [] s.phase = "staged" -> staged = 1 /\ s.transition = NoTransition
       [] s.phase = "locked" -> staged = 1 /\ s.transition # NoTransition
       [] OTHER -> staged = 0 /\ s.transition # NoTransition

Facts(s) == [epochs |-> Len(s.ring), accepted |-> s.accepted, floor |-> s.floor]

(* Mutants: the generation and the accepted serials are not compared; the
   floor itself is refused. *)
AboveFloors_EpochsOnly(s) == Len(s.ring) >= floors.epochs

AboveFloors_Strict(s) ==
  /\ Len(s.ring) >= floors.epochs
  /\ s.accepted.serial > floors.accepted.serial
  /\ s.accepted.generation = floors.accepted.generation

AboveFloors(s) ==
  /\ Len(s.ring) >= floors.epochs
  /\ s.floor.serial >= floors.floor.serial
  /\ s.floor.issued >= floors.floor.issued
  /\ s.accepted.serial >= floors.accepted.serial
  /\ s.accepted.issued >= floors.accepted.issued
  /\ s.accepted.generation = floors.accepted.generation

Seal ==
  /\ mode = "unsealed"
  /\ WellFormed(State)
  /\ disk' = Append(disk, State)
  /\ mode' = "sealed"
  /\ UNCHANGED <<memory, world, budget>>

(* The floors live outside the checkpoint: the caller moves them once the
   checkpoint is on disk, so it may die between the two. *)
RecordFloors ==
  /\ mode = "sealed"
  /\ floors' = Facts(State)
  /\ mode' = "down"
  /\ UNCHANGED <<memory, disk, destroyed, bad, clean, budget>>

Load(s) ==
  /\ mode = "down"
  /\ WellFormed(s)
  /\ mode' = "restored"
  /\ ring' = s.ring /\ phase' = s.phase /\ transition' = s.transition
  /\ accepted' = s.accepted /\ floor' = s.floor
  /\ UNCHANGED <<disk, world, crashes>>

Admitted == {i \in DOMAIN disk : AboveFloors(disk[i])}

RestoreNewest ==
  /\ \E i \in Admitted : (\A j \in Admitted : j <= i) /\ Load(disk[i])
  /\ UNCHANGED rollbacks

RestoreOlder ==
  /\ rollbacks < MaxRollbacks
  /\ rollbacks' = rollbacks + 1
  /\ \E i \in Admitted : (\E j \in Admitted : j > i) /\ Load(disk[i])

Crash ==
  /\ mode # "down" /\ crashes < MaxCrashes
  /\ crashes' = crashes + 1
  /\ mode' = "down"
  /\ UNCHANGED <<memory, disk, world, rollbacks>>

-----------------------------------------------------------------------------
(* The driver *)

(* The facts advanceRegistryRotationState demands of the receipt: beyond the
   accepted authority until the canary has passed, exactly it afterwards. *)
FactsValid(r) ==
  IF phase \in {"verified", "drained", "retired"}
  THEN /\ r.serial = accepted.serial /\ r.issued = accepted.issued
       /\ r.generation = accepted.generation
  ELSE /\ r.serial > accepted.serial /\ r.issued > accepted.issued
       /\ r.generation # accepted.generation

Authority(r) ==
  [serial |-> r.serial, issued |-> r.issued, generation |-> r.generation]

CanaryClauses ==
  {R!Clause(~bad), IF clean >= CanaryN THEN ALLOW ELSE UNKNOWN}

AdvanceIdle == R!CheckReadiness({ALLOW}) /\ UNCHANGED <<accepted, floor, world>>

AdvanceReady(r, tick) ==
  /\ r.key.keyKind = "asymmetric"
  /\ R!StageCandidate(r.key, tick)
  /\ UNCHANGED <<accepted, floor, world>>

AdvanceStaged(votes) ==
  /\ \E cand \in R!WithStatus(ring, "staged") :
       R!CommitTripleLock([from |-> Active, to |-> cand], ALLOW, {ALLOW}, votes)
  /\ UNCHANGED <<accepted, floor, world>>

(* The switch opens a new canary window. *)
AdvanceLocked(tick) ==
  /\ R!SwitchEpoch(tick)
  /\ bad' \in BOOLEAN /\ clean' = 0
  /\ UNCHANGED <<accepted, floor, floors, destroyed>>

Accept(r) == accepted' = Authority(r) /\ floor' = accepted

(* Mutant: the driver never falls back. *)
AdvanceSwitched_NoFallback(r, tick) ==
  R!ConfirmTripleVerify(CanaryClauses) /\ Accept(r) /\ UNCHANGED world

(* Verified, or, on a verdict of exactly DENY, back to the old epoch. *)
AdvanceSwitched(r, tick) ==
  /\ \/ R!ConfirmTripleVerify(CanaryClauses) /\ Accept(r)
     \/ /\ R!TripleVerifyVerdict(CanaryClauses) = DENY
        /\ R!FallbackToOldEpoch(tick)
        /\ UNCHANGED <<accepted, floor>>
  /\ UNCHANGED world

AdvanceVerified(votes) ==
  R!ConfirmDrain({ALLOW}, votes) /\ UNCHANGED <<accepted, floor, world>>

OldKey == ring[Active - 1].key.keyId

(* Custody destroys the old private key and confirms it, and the phase
   closes. *)
AdvanceDrained(tick) ==
  /\ Authorized(R!RetireVerdict(ring, Active - 1, "destroy-private", FALSE))
  /\ R!RetireOldEpoch("destroy-private", FALSE, tick)
  /\ destroyed' = destroyed \cup {OldKey}
  /\ UNCHANGED <<accepted, floor, floors, bad, clean>>

Advance ==
  /\ mode = "restored"
  /\ mode' = "unsealed"
  /\ \E r \in Receipts : FactsValid(r) /\
       \/ AdvanceIdle
       \/ \E tick \in Ticks :
            \/ AdvanceReady(r, tick)
            \/ AdvanceLocked(tick)
            \/ AdvanceSwitched(r, tick)
            \/ AdvanceDrained(tick)
       \/ \E votes \in Ballots : AdvanceStaged(votes) \/ AdvanceVerified(votes)
  /\ UNCHANGED <<disk, budget>>

(* Custody destroyed the key but its confirmation was lost: the call is
   refused and the phase stays open. *)
RetirePrivateUnconfirmed ==
  /\ mode = "restored" /\ phase = "drained"
  /\ Authorized(R!RetireVerdict(ring, Active - 1, "destroy-private", FALSE))
  /\ destroyed' = destroyed \cup {OldKey}
  /\ UNCHANGED <<memory, mode, disk, floors, bad, clean, budget>>

(* The next rotation is a new process over the same ring. *)
NewProcess ==
  /\ mode = "restored"
  /\ R!BeginRotation
  /\ mode' = "unsealed"
  /\ UNCHANGED <<accepted, floor, disk, world, budget>>

(* The environment of the canary: batches of the new key that verify are
   counted, and a key may stop verifying at any time. *)
CleanBatch ==
  /\ phase = "switched" /\ ~bad /\ clean < CanaryN
  /\ clean' = clean + 1
  /\ UNCHANGED <<memory, mode, disk, floors, destroyed, bad, budget>>

KeyFails ==
  /\ phase = "switched" /\ ~bad
  /\ bad' = TRUE
  /\ UNCHANGED <<memory, mode, disk, floors, destroyed, clean, budget>>

Init ==
  /\ R!Init
  /\ ring[1].key.keyKind = "asymmetric"
  /\ accepted = FirstAuthority /\ floor = FirstFloor
  /\ mode = "down" /\ disk = <<State>> /\ floors = Facts(State)
  /\ destroyed = {} /\ bad = FALSE /\ clean = 0
  /\ crashes = 0 /\ rollbacks = 0

Next ==
  \/ Advance \/ RetirePrivateUnconfirmed \/ NewProcess
  \/ Seal \/ RecordFloors \/ RestoreNewest \/ RestoreOlder \/ Crash
  \/ CleanBatch \/ KeyFails

Spec == Init /\ [][Next]_vars

(* The driver is called again and again, the caller restores the newest
   checkpoint its floors admit, and a key that works keeps signing. *)
FairSpec ==
  /\ Spec
  /\ WF_vars(Advance) /\ WF_vars(Seal) /\ WF_vars(RecordFloors) /\ WF_vars(RestoreNewest)
  /\ WF_vars(CleanBatch)

-----------------------------------------------------------------------------
(* Properties *)

(* Some checkpoint always passes the floors: no order of crashes, seals and
   floor updates leaves a deployment that cannot be restored. *)
AlwaysRestorable == \E i \in Admitted : WellFormed(disk[i])

(* The signer's private key exists: custody destroys the old key only when no
   fallback, crash or stale checkpoint can make that epoch sign again.  It
   holds if storage is honest or the process never dies, whatever the bounds
   (RotationController_proofs), and in the run that mixes one of each.  It is
   not true of every mixture: see the README on Accept. *)
SignerKeyExists == ring[Active].key.keyId \notin destroyed

(* The rotation to epoch e is over: e signs and the phase has closed, or e has
   been revoked or superseded. *)
Ended(e) ==
  /\ e \in DOMAIN ring /\ ring[e].status # "staged"
  /\ ~(phase \in {"switched", "verified", "drained"} /\ transition.to = e)

(* The one way a rotation gets stuck: the new key stops verifying before its
   canary window is full, and every DENY drowns in UNKNOWN from then on. *)
Stuck == phase = "switched" /\ bad /\ clean < CanaryN

(* A locked rotation ends: it completes, or falls back when the new key stops
   verifying with its canary window full, whatever dies or is answered with an
   old checkpoint in between.  Only a key that fails earlier leaves it stuck. *)
RotationEnds ==
  \A e \in 2..Cardinality(Candidates) :
    phase = "locked" /\ transition.to = e ~> Ended(e) \/ Stuck

=============================================================================
