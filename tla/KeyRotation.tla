---------------------------- MODULE KeyRotation ----------------------------
(***************************************************************************)
(* The triple-lock key-rotation decision core of galerina-tower-citizen    *)
(* (key-rotation.ts): an append-only ring of key epochs and the phase      *)
(* machine that rotates the active one.                                    *)
(*                                                                         *)
(* An epoch's identifier is its position in the ring.  Evidence gathered   *)
(* outside the module (custody checks, queue depths, chain heads) enters   *)
(* as the verdict of the clause that reads it.  A gate that is not ALLOW   *)
(* returns the process untouched, which is a stuttering step here.         *)
(***************************************************************************)
EXTENDS Integers, Sequences, FiniteSets, Verdicts

CONSTANTS
  Candidates,   \* key descriptions a caller may offer
  Ticks,        \* the logical instants callers pass in
  NoTick,       \* retiredTick of an epoch that was never withdrawn (null)
  NoTransition, \* no dual-signed handover on record (null)
  Ballots,      \* sequences of votes the witnesses may send
  Quorum        \* the witness threshold M the caller configures

ASSUME TicksAssumption == Ticks \subseteq Nat /\ NoTick \notin Ticks

ASSUME CandidatesAssumption ==
  \A k \in Candidates :
    /\ k = [keyId |-> k.keyId, keyKind |-> k.keyKind,
            keyCommit |-> k.keyCommit, fileRef |-> k.fileRef]
    /\ k.keyKind \in {"symmetric", "asymmetric"}

ASSUME TransitionAssumption ==
  NoTransition \notin [from : Nat, to : Nat]

VARIABLES
  ring,         \* the epochs, oldest first
  phase,        \* phase of the rotation process
  transition    \* the handover the triple lock admitted

vars == <<ring, phase, transition>>

Status == {"staged", "active", "retired", "revoked"}
Phases == {"idle", "ready", "staged", "locked", "switched", "verified",
           "drained", "retired"}

Epoch == [key : Candidates, created : Ticks, retired : Ticks \cup {NoTick},
          status : Status]

TypeOK ==
  /\ ring \in Seq(Epoch)
  /\ phase \in Phases
  /\ transition \in [from : Nat, to : Nat] \cup {NoTransition}

-----------------------------------------------------------------------------
(* The ring *)

(* Two keys share an identity, a commitment or a custody file. *)
Clash(a, b) ==
  a.keyId = b.keyId \/ a.keyCommit = b.keyCommit \/ a.fileRef = b.fileRef

WithStatus(r, s) == {i \in 1..Len(r) : r[i].status = s}

OneActive(r) == \E i \in 1..Len(r) : WithStatus(r, "active") = {i}

AtMostOneStaged(r) ==
  \A i, j \in 1..Len(r) :
    r[i].status = "staged" /\ r[j].status = "staged" => i = j

(* Creation is strictly increasing and no two epochs share key material. *)
EpochsDistinct(r) ==
  \A i, j \in 1..Len(r) :
    i < j => r[i].created < r[j].created /\ ~Clash(r[i].key, r[j].key)

(* Withdrawn epochs, and only they, carry the tick of their withdrawal. *)
TicksConsistent(r) ==
  \A i \in 1..Len(r) :
    IF r[i].status \in {"retired", "revoked"}
    THEN r[i].retired # NoTick /\ r[i].retired >= r[i].created
    ELSE r[i].retired = NoTick

(* verifyRing, for a ring whose head MAC is intact: every ring here was
   sealed by one of the operations below. *)
RingVerifies(r) ==
  /\ r # <<>>
  /\ EpochsDistinct(r)
  /\ TicksConsistent(r)
  /\ OneActive(r)
  /\ AtMostOneStaged(r)

ActiveEpoch(r) == CHOOSE i \in 1..Len(r) : r[i].status = "active"

(* epochForVerification resolves the epoch: known and not revoked. *)
Verifiable(r, i) == i \in 1..Len(r) /\ r[i].status # "revoked"

NewEpoch(key, tick, status) ==
  [key |-> key, created |-> tick, retired |-> NoTick, status |-> status]

(* Mutant: only the key identity is compared with earlier epochs. *)
CanStageEpoch_KeyIdOnly(r, key, tick) ==
  /\ RingVerifies(r)
  /\ WithStatus(r, "staged") = {}
  /\ tick > r[Len(r)].created
  /\ \A i \in 1..Len(r) : r[i].key.keyId # key.keyId

CanStageEpoch(r, key, tick) ==
  /\ RingVerifies(r)
  /\ WithStatus(r, "staged") = {}
  /\ tick > r[Len(r)].created
  /\ \A i \in 1..Len(r) : ~Clash(r[i].key, key)

StageEpoch(r, key, tick) == Append(r, NewEpoch(key, tick, "staged"))

CanSwitchActive(r, tick) ==
  /\ RingVerifies(r)
  /\ WithStatus(r, "staged") # {}
  /\ \A i \in WithStatus(r, "staged") \cup WithStatus(r, "active") :
       tick >= r[i].created

SwitchActive(r, tick) ==
  [i \in 1..Len(r) |->
     CASE r[i].status = "active" ->
            [r[i] EXCEPT !.status = "retired", !.retired = tick]
       [] r[i].status = "staged" -> [r[i] EXCEPT !.status = "active"]
       [] OTHER -> r[i]]

CanFallbackSwitch(r, tick) ==
  LET act == ActiveEpoch(r) IN
  /\ RingVerifies(r)
  /\ act - 1 \in WithStatus(r, "retired")
  /\ tick >= r[act].created
  /\ tick >= r[act - 1].retired

(* Mutant: the rejected candidate is dropped, and its identifier reused. *)
FallbackSwitch_DropsCandidate(r, tick) ==
  LET act == ActiveEpoch(r) IN
  [SubSeq(r, 1, act - 1) EXCEPT
     ![act - 1] = [@ EXCEPT !.status = "active", !.retired = NoTick]]

FallbackSwitch(r, tick) ==
  LET act == ActiveEpoch(r) IN
  [r EXCEPT ![act] = [@ EXCEPT !.status = "revoked", !.retired = tick],
            ![act - 1] = [@ EXCEPT !.status = "active", !.retired = NoTick]]

CanMarkRevoked(r, epoch, tick) ==
  /\ RingVerifies(r)
  /\ epoch \in WithStatus(r, "retired")
  /\ tick >= r[epoch].created
  /\ tick >= r[epoch].retired

MarkRevoked(r, epoch) == [r EXCEPT ![epoch] = [@ EXCEPT !.status = "revoked"]]

-----------------------------------------------------------------------------
(* The gates *)

Clause(holds) == IF holds THEN ALLOW ELSE DENY

(* R1 audit quiescence, R2 chain health, R3 queue depth. *)
ReadinessVerdict(clauses) == AllOf(clauses)

(* Lock A: A2 distinct material, A3 round trip, A4 exactly active + 1. *)
LockAVerdict(r, cand, roundTrip) ==
  IF ~RingVerifies(r) \/ cand \notin WithStatus(r, "staged") THEN DENY
  ELSE AllOf({Clause(\A i \in (1..Len(r)) \ {cand} :
                       ~Clash(r[i].key, r[cand].key)),
              roundTrip,
              Clause(cand = ActiveEpoch(r) + 1)})

(* Mutant: the handover's epochs are not compared with the ring (no B4). *)
LockBVerdict_NoB4(r, t, clauses) ==
  IF ~RingVerifies(r) THEN DENY ELSE AllOf(clauses)

(* Lock B: B1 the chain verifies, B2 no gap or fork, B3 signed by both keys
   (the clauses), B4 the handover names active -> active + 1. *)
LockBVerdict(r, t, clauses) ==
  IF ~RingVerifies(r) THEN DENY
  ELSE AllOf(clauses \cup
         {Clause(t = [from |-> ActiveEpoch(r), to |-> ActiveEpoch(r) + 1])})

(* Lock C: a threshold below two is no quorum at all. *)
LockCVerdict(votes, m) == IF m < 2 THEN UNKNOWN ELSE QuorumVerdict(votes, m)

(* V1 forward, V2 backward, V3 continuity, and the canary window. *)
TripleVerifyVerdict(clauses) == AllOf(clauses)

(* D1 queue, D2 in flight (the clauses), D3 the witnesses. *)
DrainVerdict(clauses, votes, m) == AllOf(clauses \cup {LockCVerdict(votes, m)})

RetireModes == {"cold-retain", "destroy-private", "revoke-then-archive"}

(* Mutant: archiving a symmetric key is legal once its revocation is
   recorded. *)
RetireVerdict_ArchivesSymmetric(r, epoch, mode, revocationRecorded) ==
  IF ~RingVerifies(r) \/ epoch \notin 1..Len(r) THEN DENY
  ELSE AllOf({Clause(r[epoch].status = "retired"),
              Clause(\/ mode = "cold-retain"
                     \/ mode = "revoke-then-archive" /\ revocationRecorded)})

(* The epoch must be retired; a symmetric key may only be kept cold, and an
   archived key must have its revocation on record first. *)
RetireVerdict(r, epoch, mode, revocationRecorded) ==
  IF ~RingVerifies(r) \/ epoch \notin 1..Len(r) THEN DENY
  ELSE AllOf({Clause(r[epoch].status = "retired"),
              Clause(\/ mode = "cold-retain"
                     \/ /\ r[epoch].key.keyKind = "asymmetric"
                        /\ mode = "revoke-then-archive" => revocationRecorded)})

-----------------------------------------------------------------------------
(* The phase machine.  Each action is the ALLOW outcome of its handler. *)

ClosePhase(expected, next) == phase = expected /\ phase' = next

CheckReadiness(clauses) ==
  /\ Authorized(ReadinessVerdict(clauses))
  /\ ClosePhase("idle", "ready")
  /\ UNCHANGED <<ring, transition>>

StageCandidate(key, tick) ==
  /\ CanStageEpoch(ring, key, tick)
  /\ ClosePhase("ready", "staged")
  /\ ring' = StageEpoch(ring, key, tick)
  /\ UNCHANGED transition

CommitTripleLock(t, roundTrip, clauses, votes) ==
  /\ \E cand \in WithStatus(ring, "staged") :
       Authorized(AllOf({LockAVerdict(ring, cand, roundTrip),
                         LockBVerdict(ring, t, clauses),
                         LockCVerdict(votes, Quorum)}))
  /\ ClosePhase("staged", "locked")
  /\ transition' = t
  /\ UNCHANGED ring

SwitchEpoch(tick) ==
  /\ CanSwitchActive(ring, tick)
  /\ ClosePhase("locked", "switched")
  /\ ring' = SwitchActive(ring, tick)
  /\ UNCHANGED transition

ConfirmTripleVerify(clauses) ==
  /\ Authorized(TripleVerifyVerdict(clauses))
  /\ ClosePhase("switched", "verified")
  /\ UNCHANGED <<ring, transition>>

(* Mutant: the abandoned handover stays on record. *)
FallbackToOldEpoch_KeepsTransition(tick) ==
  /\ CanFallbackSwitch(ring, tick)
  /\ ClosePhase("switched", "idle")
  /\ ring' = FallbackSwitch(ring, tick)
  /\ UNCHANGED transition

FallbackToOldEpoch(tick) ==
  /\ CanFallbackSwitch(ring, tick)
  /\ ClosePhase("switched", "idle")
  /\ ring' = FallbackSwitch(ring, tick)
  /\ transition' = NoTransition

ConfirmDrain(clauses, votes) ==
  /\ Authorized(DrainVerdict(clauses, votes, Quorum))
  /\ ClosePhase("verified", "drained")
  /\ UNCHANGED <<ring, transition>>

RetireOldEpoch(mode, revocationRecorded, tick) ==
  LET old == ActiveEpoch(ring) - 1 IN
  /\ Authorized(RetireVerdict(ring, old, mode, revocationRecorded))
  /\ ClosePhase("drained", "retired")
  /\ \/ /\ mode = "revoke-then-archive"
        /\ CanMarkRevoked(ring, old, tick)
        /\ ring' = MarkRevoked(ring, old)
     \/ /\ mode # "revoke-then-archive"
        /\ UNCHANGED ring
  /\ UNCHANGED transition

(* A finished process is never resumed: the next rotation begins a new one
   over the same ring. *)
BeginRotation ==
  /\ ClosePhase("retired", "idle")
  /\ transition' = NoTransition
  /\ UNCHANGED ring

Init ==
  /\ \E key \in Candidates, tick \in Ticks :
       ring = <<NewEpoch(key, tick, "active")>>
  /\ phase = "idle"
  /\ transition = NoTransition

(* What the environment may answer: each custody seam or evidence clause
   yields a verdict, so the clauses of a gate yield some set of them. *)
Answer  == {ALLOW, DENY, UNKNOWN}
Answers == (SUBSET Answer) \ {{}}

Handovers == [from : 1..Len(ring), to : 1..Len(ring)]

Next ==
  \/ \E clauses \in Answers : CheckReadiness(clauses)
  \/ \E key \in Candidates, tick \in Ticks : StageCandidate(key, tick)
  \/ \E t \in Handovers, roundTrip \in Answer, clauses \in Answers,
        votes \in Ballots : CommitTripleLock(t, roundTrip, clauses, votes)
  \/ \E tick \in Ticks : SwitchEpoch(tick)
  \/ \E clauses \in Answers : ConfirmTripleVerify(clauses)
  \/ \E tick \in Ticks : FallbackToOldEpoch(tick)
  \/ \E clauses \in Answers, votes \in Ballots : ConfirmDrain(clauses, votes)
  \/ \E mode \in RetireModes, recorded \in BOOLEAN, tick \in Ticks :
       RetireOldEpoch(mode, recorded, tick)
  \/ BeginRotation

Spec == Init /\ [][Next]_vars

-----------------------------------------------------------------------------
(* Properties *)

(* Every ring the machine produces passes verifyRing: exactly one signer, at
   most one candidate, distinct material, consistent ticks.  A ring that
   failed it would be refused by every later operation, for ever. *)
RingAlwaysVerifies == RingVerifies(ring)

(* The phase and the ring agree, as the checkpoint of a rotation demands
   (stateWellFormed in registry-key-rotation.ts), and the handover on record
   is the one that took place: it names the active epoch and its successor
   until the switch, and the active epoch and its predecessor after it. *)
PhaseMatchesRing ==
  LET act == ActiveEpoch(ring) IN
  /\ phase \in {"staged", "locked"} <=> WithStatus(ring, "staged") # {}
  /\ phase \in {"idle", "ready", "staged"} <=> transition = NoTransition
  /\ phase = "locked" =>
       /\ transition = [from |-> act, to |-> act + 1]
       /\ WithStatus(ring, "staged") = {act + 1}
  /\ phase \in {"switched", "verified", "drained", "retired"} =>
       /\ transition = [from |-> act - 1, to |-> act]
       /\ act - 1 \in WithStatus(ring, "retired") \cup WithStatus(ring, "revoked")

(* Up to the retire phase the handover is reversible: the epoch the rotation
   withdrew is still there to verify its batches and to fall back to. *)
OldEpochRetained ==
  phase \in {"switched", "verified", "drained"} =>
    ActiveEpoch(ring) - 1 \in WithStatus(ring, "retired")

(* Rotation appends and never replaces: an epoch keeps its place, key and
   creation tick for ever, and a revoked epoch never changes again. *)
AppendOnly ==
  [][/\ Len(ring') \in {Len(ring), Len(ring) + 1}
     /\ \A i \in 1..Len(ring) :
          /\ ring'[i].key = ring[i].key
          /\ ring'[i].created = ring[i].created
          /\ ring[i].status = "revoked" => ring'[i] = ring[i]]_vars

(* Withdrawing an epoch never costs the power to verify what it signed, with
   two exceptions: the candidate a fallback rejects, and an asymmetric epoch
   archived at the end of a drained rotation.  A symmetric epoch that has
   survived its canary window therefore verifies for ever. *)
VerifyPowerKept ==
  [][\A i \in 1..Len(ring) :
       Verifiable(ring, i) /\ ~Verifiable(ring', i) =>
         \/ phase = "switched" /\ i = ActiveEpoch(ring)
         \/ /\ phase = "drained"
            /\ i = ActiveEpoch(ring) - 1
            /\ ring[i].key.keyKind = "asymmetric"]_vars

(* The signer changes only by the switch of a locked process, to the epoch
   its admitted handover names, or back again while that switch is being
   verified. *)
SignerHandover ==
  [][ActiveEpoch(ring') # ActiveEpoch(ring) =>
       \/ /\ phase = "locked"
          /\ transition = [from |-> ActiveEpoch(ring), to |-> ActiveEpoch(ring')]
       \/ /\ phase = "switched"
          /\ transition = [from |-> ActiveEpoch(ring'), to |-> ActiveEpoch(ring)]
          ]_vars

(* What the comments of fallbackToOldEpoch promise: the process returns to
   idle for a fresh mint, so a freshly staged candidate satisfies the ring
   clauses of Lock A and Lock B. *)
FreshMintCanLock ==
  phase = "staged" =>
    \E cand \in WithStatus(ring, "staged") :
      /\ LockAVerdict(ring, cand, ALLOW) = ALLOW
      /\ \E t \in Handovers : LockBVerdict(ring, t, {ALLOW}) = ALLOW
=============================================================================
