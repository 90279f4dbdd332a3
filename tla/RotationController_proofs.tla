--------------------- MODULE RotationController_proofs ---------------------
(***************************************************************************)
(* Safety of the rotation controller and its checkpoints for every set of  *)
(* keys, receipts and bounds.                                              *)
(***************************************************************************)
EXTENDS RotationController, FiniteSetTheorems, TLAPS

K == INSTANCE KeyRotation_proofs

-----------------------------------------------------------------------------
(* Every step of the controller is a step of the rotation core.  The proofs  *)
(* of KeyRotation speak of K's copy of the core, the controller of R's.      *)

LEMMA SameRing ==
  ASSUME NEW r
  PROVE  /\ R!ActiveEpoch(r) = K!ActiveEpoch(r)
         /\ R!RingVerifies(r) = K!RingVerifies(r)
         /\ \A s : R!WithStatus(r, s) = K!WithStatus(r, s)
<1>1. \A s : R!WithStatus(r, s) = K!WithStatus(r, s)
  BY DEF R!WithStatus, K!WithStatus
<1>2. R!ActiveEpoch(r) = K!ActiveEpoch(r)
  BY DEF R!ActiveEpoch, K!ActiveEpoch
<1>3. R!RingVerifies(r) = K!RingVerifies(r)
  BY <1>1 DEF R!RingVerifies, K!RingVerifies, R!EpochsDistinct, K!EpochsDistinct,
     R!TicksConsistent, K!TicksConsistent, R!OneActive, K!OneActive,
     R!AtMostOneStaged, K!AtMostOneStaged, R!Clash, K!Clash
<1> QED
  BY <1>1, <1>2, <1>3

(* The operations on the ring. *)
LEMMA SameOperations ==
  ASSUME NEW r, NEW key, NEW tick
  PROVE  /\ R!CanStageEpoch(r, key, tick) = K!CanStageEpoch(r, key, tick)
         /\ R!StageEpoch(r, key, tick) = K!StageEpoch(r, key, tick)
         /\ R!CanSwitchActive(r, tick) = K!CanSwitchActive(r, tick)
         /\ R!SwitchActive(r, tick) = K!SwitchActive(r, tick)
         /\ R!CanFallbackSwitch(r, tick) = K!CanFallbackSwitch(r, tick)
         /\ R!FallbackSwitch(r, tick) = K!FallbackSwitch(r, tick)
<1>1. R!CanStageEpoch(r, key, tick) = K!CanStageEpoch(r, key, tick)
  BY SameRing DEF R!CanStageEpoch, K!CanStageEpoch, R!Clash, K!Clash
<1>2. R!StageEpoch(r, key, tick) = K!StageEpoch(r, key, tick)
  BY DEF R!StageEpoch, K!StageEpoch, R!NewEpoch, K!NewEpoch
<1>3. R!CanSwitchActive(r, tick) = K!CanSwitchActive(r, tick)
  BY SameRing DEF R!CanSwitchActive, K!CanSwitchActive
<1>4. R!SwitchActive(r, tick) = K!SwitchActive(r, tick)
  BY DEF R!SwitchActive, K!SwitchActive
<1>5. R!CanFallbackSwitch(r, tick) = K!CanFallbackSwitch(r, tick)
  BY SameRing DEF R!CanFallbackSwitch, K!CanFallbackSwitch
<1>6. R!FallbackSwitch(r, tick) = K!FallbackSwitch(r, tick)
  BY SameRing DEF R!FallbackSwitch, K!FallbackSwitch
<1> QED
  BY <1>1, <1>2, <1>3, <1>4, <1>5, <1>6

(* The verdicts of the gates. *)
LEMMA SameVerdicts ==
  ASSUME NEW r, NEW e, NEW t, NEW x, NEW clauses, NEW votes
  PROVE  /\ R!AllOf(clauses) = K!AllOf(clauses)
         /\ R!LockAVerdict(r, e, x) = K!LockAVerdict(r, e, x)
         /\ R!LockBVerdict(r, t, clauses) = K!LockBVerdict(r, t, clauses)
         /\ R!LockCVerdict(votes, Quorum) = K!LockCVerdict(votes, Quorum)
         /\ \A how, b : R!RetireVerdict(r, e, how, b) = K!RetireVerdict(r, e, how, b)
<1> USE DEF R!ALLOW, K!ALLOW, R!DENY, K!DENY, R!NEUTRAL, K!NEUTRAL,
            R!UNKNOWN, K!UNKNOWN, R!Clause, K!Clause
<1>1. \A S : R!AllOf(S) = K!AllOf(S)
  BY DEF R!AllOf, K!AllOf
<1>2. R!LockAVerdict(r, e, x) = K!LockAVerdict(r, e, x)
  BY <1>1, SameRing DEF R!LockAVerdict, K!LockAVerdict, R!Clash, K!Clash
<1>3. R!LockBVerdict(r, t, clauses) = K!LockBVerdict(r, t, clauses)
  BY <1>1, SameRing DEF R!LockBVerdict, K!LockBVerdict
<1>4. R!LockCVerdict(votes, Quorum) = K!LockCVerdict(votes, Quorum)
  <2>1. R!Approvals(votes) = K!Approvals(votes)
    BY DEF R!Approvals, K!Approvals
  <2>2. \A m : R!Malformed(votes, m) = K!Malformed(votes, m)
    BY DEF R!Malformed, K!Malformed, R!ValidVote, K!ValidVote
  <2> QED
    BY <2>1, <2>2 DEF R!LockCVerdict, K!LockCVerdict, R!QuorumVerdict, K!QuorumVerdict,
                      R!Cardinality, K!Cardinality
<1>5. \A how, b : R!RetireVerdict(r, e, how, b) = K!RetireVerdict(r, e, how, b)
  BY <1>1, SameRing DEF R!RetireVerdict, K!RetireVerdict
<1> QED
  BY <1>1, <1>2, <1>3, <1>4, <1>5

(* A call of the driver, or the next rotation's new process, is a step of
   the core. *)
LEMMA CoreStep ==
  ASSUME K!IInv, Advance \/ NewProcess
  PROVE  [K!Next]_(K!vars)
<1> USE DEF R!ClosePhase, K!ClosePhase, R!ALLOW, K!ALLOW, R!DENY, K!DENY,
            R!UNKNOWN, K!UNKNOWN, ALLOW, DENY, UNKNOWN, Authorized,
            R!Authorized, K!Authorized, K!Answer, K!Answers
<1>1. ASSUME AdvanceIdle PROVE K!Next
  <2>1. K!CheckReadiness({ALLOW})
    BY <1>1, SameVerdicts DEF AdvanceIdle, R!CheckReadiness, K!CheckReadiness,
       R!ReadinessVerdict, K!ReadinessVerdict
  <2> QED
    BY <2>1 DEF K!Next
<1>2. ASSUME NEW r \in Receipts, NEW tick \in Ticks, AdvanceReady(r, tick) PROVE K!Next
  <2>1. K!StageCandidate(r.key, tick) /\ r.key \in Candidates
    BY <1>2, SameOperations, ControllerAssumption
       DEF AdvanceReady, R!StageCandidate, K!StageCandidate
  <2> QED
    BY <2>1 DEF K!Next
<1>3. ASSUME NEW votes \in Ballots, AdvanceStaged(votes) PROVE K!Next
  <2>1. PICK cand \in K!WithStatus(ring, "staged") :
          R!CommitTripleLock([from |-> Active, to |-> cand], ALLOW, {ALLOW}, votes)
    BY <1>3, SameRing DEF AdvanceStaged
  <2> DEFINE t == [from |-> Active, to |-> cand]
  <2>2. t \in K!Handovers
    BY SameRing, K!ActiveEpochUnique, RotationAssumption
       DEF Active, K!Handovers, K!WithStatus, K!IInv, K!RingAlwaysVerifies
  <2> HIDE DEF t
  <2>3. K!CommitTripleLock(t, ALLOW, {ALLOW}, votes)
    <3>1. PICK c \in K!WithStatus(ring, "staged") :
            R!Authorized(R!AllOf({R!LockAVerdict(ring, c, ALLOW),
                                  R!LockBVerdict(ring, t, {ALLOW}),
                                  R!LockCVerdict(votes, Quorum)}))
      BY <2>1, SameRing DEF R!CommitTripleLock, t
    <3>2. K!Authorized(K!AllOf({K!LockAVerdict(ring, c, ALLOW),
                                K!LockBVerdict(ring, t, {ALLOW}),
                                K!LockCVerdict(votes, Quorum)}))
      BY <3>1, SameVerdicts
    <3> QED
      BY <2>1, <3>2 DEF R!CommitTripleLock, K!CommitTripleLock, t
  <2>4. K!Next
    <3>1. ALLOW \in K!Answer /\ {ALLOW} \in K!Answers
      OBVIOUS
    <3> QED
      BY <2>2, <2>3, <3>1 DEF K!Next
  <2> QED
    BY <2>4
<1>4. ASSUME NEW tick \in Ticks, AdvanceLocked(tick) PROVE K!Next
  <2>1. K!SwitchEpoch(tick)
    BY <1>4, SameOperations DEF AdvanceLocked, R!SwitchEpoch, K!SwitchEpoch
  <2> QED
    BY <2>1 DEF K!Next
<1>5. ASSUME NEW r \in Receipts, NEW tick \in Ticks, AdvanceSwitched(r, tick)
      PROVE  K!Next
  <2>1. CASE R!ConfirmTripleVerify(CanaryClauses)
    <3>1. K!ConfirmTripleVerify(CanaryClauses)
      BY <2>1, SameVerdicts DEF R!ConfirmTripleVerify, K!ConfirmTripleVerify,
         R!TripleVerifyVerdict, K!TripleVerifyVerdict
    <3>2. CanaryClauses \in K!Answers
      BY DEF CanaryClauses, R!Clause
    <3> QED
      BY <3>1, <3>2 DEF K!Next
  <2>2. CASE R!FallbackToOldEpoch(tick)
    <3>1. K!FallbackToOldEpoch(tick)
      BY <2>2, SameOperations DEF R!FallbackToOldEpoch, K!FallbackToOldEpoch
    <3> QED
      BY <3>1 DEF K!Next
  <2> QED
    BY <1>5, <2>1, <2>2 DEF AdvanceSwitched
<1>6. ASSUME NEW votes \in Ballots, AdvanceVerified(votes) PROVE K!Next
  <2>1. K!ConfirmDrain({ALLOW}, votes)
    <3>1. R!DrainVerdict({ALLOW}, votes, Quorum) = K!DrainVerdict({ALLOW}, votes, Quorum)
      BY SameVerdicts DEF R!DrainVerdict, K!DrainVerdict
    <3> QED
      BY <1>6, <3>1 DEF AdvanceVerified, R!ConfirmDrain, K!ConfirmDrain
  <2> QED
    BY <2>1 DEF K!Next
<1>7. ASSUME NEW tick \in Ticks, AdvanceDrained(tick) PROVE K!Next
  <2>1. K!RetireOldEpoch("destroy-private", FALSE, tick)
    <3>1. K!Authorized(R!RetireVerdict(ring, K!ActiveEpoch(ring) - 1, "destroy-private", FALSE))
      BY <1>7, SameRing DEF AdvanceDrained, R!RetireOldEpoch
    <3>2. K!Authorized(K!RetireVerdict(ring, K!ActiveEpoch(ring) - 1, "destroy-private", FALSE))
      BY <3>1, SameVerdicts
    <3>3. /\ phase = "drained" /\ phase' = "retired"
          /\ ring' = ring /\ transition' = transition
      BY <1>7 DEF AdvanceDrained, R!RetireOldEpoch
    <3> QED
      BY <3>2, <3>3 DEF K!RetireOldEpoch
  <2>2. "destroy-private" \in K!RetireModes
    BY DEF K!RetireModes
  <2> QED
    BY <2>1, <2>2 DEF K!Next
<1>8. ASSUME NewProcess PROVE K!Next
  BY <1>8 DEF NewProcess, R!BeginRotation, K!BeginRotation, K!Next
<1> QED
  BY <1>1, <1>2, <1>3, <1>4, <1>5, <1>6, <1>7, <1>8 DEF Advance

-----------------------------------------------------------------------------
(* Checkpoints.  A checkpoint is coherent when its ring, phase and handover  *)
(* are a state the core can be in and its authority stands above its floor:  *)
(* K!IInv, said of any state and not only of the one in memory.              *)

Generations ==
  {r.generation : r \in Receipts}
    \cup {FirstAuthority.generation, FirstFloor.generation}

Authorities == [serial : Nat, issued : Nat, generation : Generations]

Checkpoints ==
  [ring : Seq(K!Epoch), phase : K!Phases,
   transition : [from : Nat, to : Nat] \cup {NoTransition},
   accepted : Authorities, floor : Authorities]

PhaseAgrees(s) ==
  LET act == K!ActiveEpoch(s.ring) IN
  /\ s.phase \in {"staged", "locked"} <=> K!WithStatus(s.ring, "staged") # {}
  /\ s.phase \in {"idle", "ready", "staged"} <=> s.transition = NoTransition
  /\ s.phase = "locked" =>
       /\ s.transition = [from |-> act, to |-> act + 1]
       /\ K!WithStatus(s.ring, "staged") = {act + 1}
  /\ s.phase \in {"switched", "verified", "drained", "retired"} =>
       /\ s.transition = [from |-> act - 1, to |-> act]
       /\ act - 1 \in K!WithStatus(s.ring, "retired")
                        \cup K!WithStatus(s.ring, "revoked")

OldRetained(s) ==
  s.phase \in {"switched", "verified", "drained"} =>
    K!ActiveEpoch(s.ring) - 1 \in K!WithStatus(s.ring, "retired")

AboveItsFloor(s) ==
  s.accepted.serial > s.floor.serial /\ s.accepted.issued > s.floor.issued

Coherent(s) ==
  /\ s \in Checkpoints
  /\ K!RingVerifies(s.ring)
  /\ PhaseAgrees(s)
  /\ OldRetained(s)
  /\ AboveItsFloor(s)

CoreCoherent ==
  /\ K!IInv
  /\ accepted \in Authorities /\ floor \in Authorities
  /\ accepted.serial > floor.serial /\ accepted.issued > floor.issued

(* A state of the core above its floor is coherent, and conversely. *)
LEMMA CoherentState == Coherent(State) <=> CoreCoherent
<1>1. State \in Checkpoints <=>
        K!TypeOK /\ accepted \in Authorities /\ floor \in Authorities
  BY DEF State, Checkpoints, K!TypeOK
<1>2. /\ State.ring = ring /\ State.phase = phase /\ State.transition = transition
      /\ State.accepted = accepted /\ State.floor = floor
  BY DEF State
<1>3. PhaseAgrees(State) <=> K!PhaseMatchesRing
  BY <1>2 DEF PhaseAgrees, K!PhaseMatchesRing
<1>4. OldRetained(State) <=> K!OldEpochRetained
  BY <1>2 DEF OldRetained, K!OldEpochRetained
<1> QED
  BY <1>1, <1>2, <1>3, <1>4 DEF Coherent, CoreCoherent, K!IInv, K!RingAlwaysVerifies,
                              AboveItsFloor

(* What a coherent state contains, so that restoring it restores all of it. *)
LEMMA LoadIs ==
  ASSUME NEW s, Coherent(s), Load(s)
  PROVE  State' = s
<1>1. s = [ring |-> s.ring, phase |-> s.phase, transition |-> s.transition,
           accepted |-> s.accepted, floor |-> s.floor]
  BY DEF Coherent, Checkpoints
<1> QED
  BY <1>1 DEF Load, State

(* Coherent states are the ones stateWellFormed accepts. *)
LEMMA CoherentWellFormed ==
  ASSUME NEW s, Coherent(s)
  PROVE  WellFormed(s)
<1> DEFINE st == K!WithStatus(s.ring, "staged")
           act == K!ActiveEpoch(s.ring)
<1>1. /\ R!RingVerifies(s.ring) /\ R!WithStatus(s.ring, "staged") = st
      /\ act \in 1..Len(s.ring) /\ Len(s.ring) \in Nat
  BY SameRing, K!ActiveEpochUnique, RotationAssumption DEF Coherent, Checkpoints
<1>2. s.phase \in K!Phases
  BY DEF Coherent, Checkpoints
<1>3. st = {} \/ \E i : st = {i}
  <2>1. \A i, j \in st : i = j
    BY DEF Coherent, K!RingVerifies, K!AtMostOneStaged, K!WithStatus
  <2>2. ASSUME NEW i \in st PROVE st = {i}
    BY <2>1
  <2> QED
    BY <2>2
<1>4. Cardinality(st) = IF st = {} THEN 0 ELSE 1
  BY <1>3, FS_EmptySet, FS_Singleton
<1> DEFINE n == Cardinality(st)
<1>5. n = IF s.phase \in {"staged", "locked"} THEN 1 ELSE 0
  BY <1>4 DEF Coherent, PhaseAgrees
<1>6. s.transition = NoTransition <=> s.phase \in {"idle", "ready", "staged"}
  BY DEF Coherent, PhaseAgrees
<1>7. s.transition # NoTransition => s.transition.to = s.transition.from + 1
  <2>1. s.phase = "locked" => s.transition = [from |-> act, to |-> act + 1]
    BY DEF Coherent, PhaseAgrees
  <2>2. s.phase \in {"switched", "verified", "drained", "retired"} =>
          s.transition = [from |-> act - 1, to |-> act]
    BY DEF Coherent, PhaseAgrees
  <2> QED
    BY <1>1, <1>2, <1>6, <2>1, <2>2 DEF K!Phases
<1>8. AboveItsFloor(s)
  BY DEF Coherent
<1> HIDE DEF n
<1>9. CASE s.phase \in {"idle", "ready"}
  BY <1>1, <1>5, <1>6, <1>7, <1>8, <1>9 DEF WellFormed, AboveItsFloor, n
<1>10. CASE s.phase = "staged"
  BY <1>1, <1>5, <1>6, <1>7, <1>8, <1>10 DEF WellFormed, AboveItsFloor, n
<1>11. CASE s.phase = "locked"
  BY <1>1, <1>5, <1>6, <1>7, <1>8, <1>11 DEF WellFormed, AboveItsFloor, n
<1>12. CASE s.phase \in {"switched", "verified", "drained", "retired"}
  BY <1>1, <1>5, <1>6, <1>7, <1>8, <1>12 DEF WellFormed, AboveItsFloor, n
<1> QED
  BY <1>2, <1>9, <1>10, <1>11, <1>12 DEF K!Phases

-----------------------------------------------------------------------------
(* The inductive invariant: memory and every checkpoint are coherent, the    *)
(* floors are the facts of a checkpoint that is on disk, and a sealed state  *)
(* is the newest one there.                                                  *)

FloorsOnDisk == \E i \in DOMAIN disk : Facts(disk[i]) = floors

SealedIsNewest ==
  mode = "sealed" => Len(disk) \in DOMAIN disk /\ disk[Len(disk)] = State

Bounded ==
  /\ mode \in {"down", "restored", "unsealed", "sealed"}
  /\ clean \in 0..CanaryN /\ bad \in BOOLEAN
  /\ crashes \in 0..MaxCrashes /\ rollbacks \in 0..MaxRollbacks

DiskCoherent ==
  disk \in Seq(Checkpoints) /\ \A i \in DOMAIN disk : Coherent(disk[i])

IInv ==
  Coherent(State) /\ DiskCoherent /\ FloorsOnDisk /\ SealedIsNewest /\ Bounded

LEMMA InitEstablishes == Init => IInv
<1> SUFFICES ASSUME Init PROVE IInv
  OBVIOUS
<1>1. K!Init
  BY DEF Init, R!Init, K!Init, R!NewEpoch, K!NewEpoch
<1>2. K!IInv
  BY <1>1, K!InitEstablishes, RotationAssumption
<1>3. accepted \in Authorities /\ floor \in Authorities
  BY ControllerAssumption DEF Init, Authorities, Generations
<1>4. accepted.serial > floor.serial /\ accepted.issued > floor.issued
  BY ControllerAssumption DEF Init
<1>5. Coherent(State)
  BY <1>2, <1>3, <1>4, CoherentState DEF CoreCoherent
<1>6. DiskCoherent /\ disk = <<State>> /\ DOMAIN disk = {1}
  BY <1>5 DEF Init, DiskCoherent, Coherent
<1>7. FloorsOnDisk
  BY <1>6 DEF Init, FloorsOnDisk
<1>8. SealedIsNewest
  BY DEF Init, SealedIsNewest
<1>9. Bounded
  <2>1. bad \in BOOLEAN /\ mode \in {"down", "restored", "unsealed", "sealed"}
    BY DEF Init
  <2>2. 0 \in 0..CanaryN /\ 0 \in 0..MaxCrashes /\ 0 \in 0..MaxRollbacks
    BY ControllerAssumption
  <2> QED
    BY <2>1, <2>2 DEF Init, Bounded
<1> QED
  BY <1>5, <1>6, <1>7, <1>8, <1>9 DEF IInv

(* What the driver and the next process leave in memory is coherent: they
   take one step of the core and move the authority only forwards. *)
LEMMA DriverKeepsCoherence ==
  ASSUME Coherent(State), Advance \/ NewProcess
  PROVE  Coherent(State)'
<1>1. /\ K!IInv /\ accepted \in Authorities /\ floor \in Authorities
      /\ accepted.serial > floor.serial /\ accepted.issued > floor.issued
  BY CoherentState DEF CoreCoherent
<1>2. K!IInv'
  BY <1>1, CoreStep, K!NextPreserves, RotationAssumption
<1>3. /\ accepted' \in Authorities /\ floor' \in Authorities
      /\ accepted'.serial > floor'.serial /\ accepted'.issued > floor'.issued
  <2>1. ASSUME NEW r \in Receipts, FactsValid(r), phase = "switched", Accept(r)
        PROVE  /\ accepted' \in Authorities /\ floor' \in Authorities
               /\ accepted'.serial > floor'.serial /\ accepted'.issued > floor'.issued
    BY <1>1, <2>1, ControllerAssumption
       DEF Accept, Authority, FactsValid, Authorities, Generations
  <2>2. ASSUME NEW r \in Receipts, NEW tick, AdvanceSwitched(r, tick),
               ~UNCHANGED <<accepted, floor>>
        PROVE  phase = "switched" /\ Accept(r)
    BY <2>2 DEF AdvanceSwitched, R!ConfirmTripleVerify, R!ClosePhase
  <2> QED
    BY <1>1, <2>1, <2>2 DEF Advance, NewProcess, AdvanceIdle, AdvanceReady, AdvanceStaged,
       AdvanceLocked, AdvanceVerified, AdvanceDrained
<1>4. CoreCoherent'
  BY <1>2, <1>3 DEF CoreCoherent
<1> QED
  BY <1>4, CoherentState, PTL

(* The checkpoints and the floors stay, or one of them moves. *)
LEMMA StorageStep ==
  ASSUME IInv, [Next]_vars
  PROVE  /\ DiskCoherent' /\ FloorsOnDisk' /\ SealedIsNewest'
         /\ Coherent(State)'
<1> USE DEF IInv
<1>1. CASE Advance \/ NewProcess
  <2>1. disk' = disk /\ floors' = floors /\ mode' = "unsealed"
    BY <1>1 DEF Advance, NewProcess, AdvanceIdle, AdvanceReady, AdvanceStaged,
       AdvanceLocked, AdvanceSwitched, AdvanceVerified, AdvanceDrained, world
  <2> QED
    BY <1>1, <2>1, DriverKeepsCoherence DEF DiskCoherent, FloorsOnDisk, SealedIsNewest
<1>2. CASE Seal
  <2>1. disk' = Append(disk, State) /\ State' = State /\ floors' = floors
    BY <1>2 DEF Seal, State, memory, process, world
  <2>2. /\ State \in Checkpoints /\ disk \in Seq(Checkpoints)
        /\ Len(disk) \in Nat /\ DOMAIN disk = 1..Len(disk)
    BY DEF Coherent, DiskCoherent
  <2>3. /\ disk' \in Seq(Checkpoints) /\ DOMAIN disk' = 1..(Len(disk) + 1)
        /\ Len(disk') = Len(disk) + 1 /\ disk'[Len(disk) + 1] = State
        /\ \A i \in 1..Len(disk) : disk'[i] = disk[i]
    <3> HIDE DEF IInv
    <3> DEFINE s == State
    <3>1. s \in Checkpoints
      BY <2>2
    <3> HIDE DEF s
    <3>2. LET d == Append(disk, s) IN
          /\ d \in Seq(Checkpoints) /\ DOMAIN d = 1..(Len(disk) + 1)
          /\ Len(d) = Len(disk) + 1 /\ d[Len(disk) + 1] = s
          /\ \A i \in 1..Len(disk) : d[i] = disk[i]
      BY <2>2, <3>1
    <3> QED
      BY <2>1, <3>2 DEF s
  <2>4. DiskCoherent'
    BY <2>2, <2>3 DEF DiskCoherent
  <2>5. FloorsOnDisk'
    BY <2>1, <2>2, <2>3 DEF FloorsOnDisk
  <2>6. SealedIsNewest'
    BY <2>1, <2>2, <2>3 DEF SealedIsNewest
  <2>7. Coherent(State)'
    BY <2>1
  <2> QED
    BY <2>4, <2>5, <2>6, <2>7
<1>3. CASE RecordFloors
  <2>1. /\ mode = "sealed" /\ mode' = "down" /\ disk' = disk /\ State' = State
        /\ floors' = Facts(State)
    BY <1>3 DEF RecordFloors, State, memory, process
  <2>2. FloorsOnDisk'
    BY <2>1 DEF SealedIsNewest, FloorsOnDisk, Facts
  <2> QED
    BY <2>1, <2>2 DEF DiskCoherent, SealedIsNewest
<1>4. CASE RestoreNewest \/ RestoreOlder
  <2>1. PICK i \in DOMAIN disk : Load(disk[i])
    BY <1>4 DEF RestoreNewest, RestoreOlder, Admitted
  <2>2. State' = disk[i] /\ Coherent(disk[i])
    BY <2>1, LoadIs DEF DiskCoherent
  <2>3. disk' = disk /\ floors' = floors /\ mode' = "restored"
    BY <2>1 DEF Load, world
  <2> QED
    BY <2>2, <2>3 DEF DiskCoherent, FloorsOnDisk, SealedIsNewest
<1>5. CASE Crash
  <2>1. disk' = disk /\ floors' = floors /\ mode' = "down" /\ State' = State
    BY <1>5 DEF Crash, State, memory, process, world
  <2> QED
    BY <2>1 DEF DiskCoherent, FloorsOnDisk, SealedIsNewest
<1>6. CASE RetirePrivateUnconfirmed \/ CleanBatch \/ KeyFails \/ UNCHANGED vars
  <2>1. disk' = disk /\ floors' = floors /\ mode' = mode /\ State' = State
    BY <1>6 DEF RetirePrivateUnconfirmed, CleanBatch, KeyFails, State, memory, process, world, vars
  <2> QED
    BY <2>1 DEF DiskCoherent, FloorsOnDisk, SealedIsNewest
<1> QED
  BY <1>1, <1>2, <1>3, <1>4, <1>5, <1>6 DEF Next

LEMMA BoundsStep ==
  ASSUME Bounded, [Next]_vars
  PROVE  Bounded'
<1>1. /\ mode \in {"down", "restored", "unsealed", "sealed"}
      /\ clean \in 0..CanaryN /\ bad \in BOOLEAN
      /\ crashes \in 0..MaxCrashes /\ rollbacks \in 0..MaxRollbacks
      /\ CanaryN \in Nat /\ MaxCrashes \in Nat /\ MaxRollbacks \in Nat
  BY ControllerAssumption DEF Bounded
<1>2. bad' \in BOOLEAN
  BY <1>1 DEF Next, vars, world, Advance, AdvanceIdle, AdvanceReady, AdvanceStaged,
     AdvanceLocked, AdvanceSwitched, AdvanceVerified, AdvanceDrained,
     RetirePrivateUnconfirmed, NewProcess, Seal, RecordFloors, RestoreNewest,
     RestoreOlder, Load, Crash, CleanBatch, KeyFails
<1>3. clean' \in 0..CanaryN
  <2>1. CASE CleanBatch
    BY <1>1, <2>1 DEF CleanBatch
  <2>2. ASSUME ~CleanBatch PROVE clean' = clean \/ clean' = 0
    BY <2>2 DEF Next, vars, world, Advance, AdvanceIdle, AdvanceReady, AdvanceStaged,
       AdvanceLocked, AdvanceSwitched, AdvanceVerified, AdvanceDrained,
       RetirePrivateUnconfirmed, NewProcess, Seal, RecordFloors, RestoreNewest,
       RestoreOlder, Load, Crash, KeyFails
  <2> QED
    BY <1>1, <2>1, <2>2
<1>4. mode' \in {"down", "restored", "unsealed", "sealed"}
  BY <1>1 DEF Next, vars, Advance, RetirePrivateUnconfirmed, NewProcess, Seal,
     RecordFloors, RestoreNewest, RestoreOlder, Load, Crash, CleanBatch, KeyFails
<1>5. crashes' \in 0..MaxCrashes /\ rollbacks' \in 0..MaxRollbacks
  <2>1. CASE Crash
    BY <1>1, <2>1 DEF Crash
  <2>2. CASE RestoreOlder
    BY <1>1, <2>2 DEF RestoreOlder, Load
  <2>3. ASSUME ~Crash, ~RestoreOlder PROVE crashes' = crashes /\ rollbacks' = rollbacks
    BY <2>3 DEF Next, vars, budget, Advance, RetirePrivateUnconfirmed, NewProcess, Seal,
       RecordFloors, RestoreNewest, Load, CleanBatch, KeyFails
  <2> QED
    BY <1>1, <2>1, <2>2, <2>3
<1> QED
  BY <1>2, <1>3, <1>4, <1>5 DEF Bounded

LEMMA InductiveInvariant == Spec => []IInv
<1>1. IInv /\ [Next]_vars => IInv'
  BY StorageStep, BoundsStep DEF IInv
<1> QED
  BY <1>1, InitEstablishes, PTL DEF Spec

(* The variables keep their types, under the driver as in the core alone. *)
THEOREM ControllerTypes == Spec => []TypeOK
<1>1. IInv => TypeOK
  <2> SUFFICES ASSUME IInv PROVE TypeOK
    OBVIOUS
  <2>1. R!TypeOK
    <3>1. K!TypeOK
      BY CoherentState DEF IInv, CoreCoherent, K!IInv
    <3> QED
      BY <3>1 DEF R!TypeOK, K!TypeOK, R!Epoch, K!Epoch, R!Phases, K!Phases,
         R!Status, K!Status
  <2>2. \A i \in DOMAIN disk : DOMAIN disk[i] = DOMAIN State
    BY DEF IInv, DiskCoherent, Coherent, Checkpoints
  <2> QED
    BY <2>1, <2>2 DEF IInv, Bounded, TypeOK
<1> QED
  BY <1>1, InductiveInvariant, PTL

(* Whatever the calls, the crashes and the storage did, what the process
   holds is a state sealCheckpoint accepts: a rotation never reaches a state
   it cannot persist (stateWellFormed). *)
THEOREM AlwaysSealable == Spec => []WellFormed(State)
<1>1. IInv => WellFormed(State)
  BY CoherentWellFormed DEF IInv
<1> QED
  BY <1>1, InductiveInvariant, PTL

(* No order of crashes, seals, floor updates and stale answers leaves a
   deployment whose floors refuse every checkpoint on disk. *)
THEOREM RestorableForever == Spec => []AlwaysRestorable
<1>1. IInv => AlwaysRestorable
  <2> SUFFICES ASSUME IInv PROVE AlwaysRestorable
    OBVIOUS
  <2>1. PICK i \in DOMAIN disk : Facts(disk[i]) = floors
    BY DEF IInv, FloorsOnDisk
  <2>2. Coherent(disk[i])
    BY DEF IInv, DiskCoherent
  <2>3. /\ floors.epochs = Len(disk[i].ring) /\ floors.accepted = disk[i].accepted
        /\ floors.floor = disk[i].floor
    BY <2>1 DEF Facts
  <2>4. /\ Len(disk[i].ring) \in Nat
        /\ disk[i].accepted \in Authorities /\ disk[i].floor \in Authorities
    BY <2>2 DEF Coherent, Checkpoints
  <2>5. AboveFloors(disk[i])
    BY <2>3, <2>4 DEF AboveFloors, Authorities
  <2> QED
    BY <2>2, <2>5, CoherentWellFormed DEF AlwaysRestorable, Admitted
<1> QED
  BY <1>1, InductiveInvariant, PTL

-----------------------------------------------------------------------------
(* The signer's key.  Custody destroys the keys of superseded epochs only;   *)
(* what remains is that no state the process can come back to has such an    *)
(* epoch sign again.                                                         *)

Spent(s) == {s.ring[i].key.keyId : i \in K!Superseded(s.ring, s.phase)}

LEMMA SignerNotSpent ==
  ASSUME NEW s, Coherent(s)
  PROVE  s.ring[K!ActiveEpoch(s.ring)].key.keyId \notin Spent(s)
<1> DEFINE act == K!ActiveEpoch(s.ring)
<1>1. act \in 1..Len(s.ring) /\ K!EpochsDistinct(s.ring)
  BY K!ActiveEpochUnique, RotationAssumption DEF Coherent, K!RingVerifies
<1>2. ASSUME NEW i \in 1..Len(s.ring), i < act
      PROVE  s.ring[i].key.keyId # s.ring[act].key.keyId
  BY <1>1, <1>2 DEF K!EpochsDistinct, K!Clash
<1> QED
  BY <1>2 DEF Spent, K!Superseded

(* The keys of superseded epochs stay superseded as the driver advances, and
   more are added only together with a newer authority. *)
LEMMA SpentGrows ==
  ASSUME Coherent(State), Advance \/ NewProcess
  PROVE  /\ Spent(State) \subseteq Spent(State')
         /\ \/ Spent(State') = Spent(State) /\ accepted' = accepted
            \/ accepted'.serial > accepted.serial
<1>1. K!IInv /\ [K!Next]_(K!vars)
  BY CoherentState, CoreStep DEF CoreCoherent
<1>2. /\ ring \in Seq(K!Epoch) /\ Len(ring) \in Nat
      /\ State.ring = ring /\ State.phase = phase
      /\ State'.ring = ring' /\ State'.phase = phase'
  BY <1>1 DEF K!IInv, K!TypeOK, State
<1>3. /\ K!Superseded(ring, phase) \subseteq K!Superseded(ring', phase')
      /\ \/ phase = "switched" /\ phase' = "verified"
         \/ K!Superseded(ring', phase') = K!Superseded(ring, phase)
  BY <1>1, K!SupersededGrow, RotationAssumption
<1>4. \A i \in 1..Len(ring) : ring'[i].key = ring[i].key
  BY <1>1, K!RingStepEffects, RotationAssumption
<1>5. K!Superseded(ring, phase) \subseteq 1..Len(ring)
  BY DEF K!Superseded
<1>6. Spent(State) \subseteq Spent(State')
  BY <1>2, <1>3, <1>4, <1>5 DEF Spent
<1>7. CASE K!Superseded(ring', phase') = K!Superseded(ring, phase)
             /\ accepted' = accepted
  BY <1>2, <1>4, <1>5, <1>7 DEF Spent
<1>8. CASE phase = "switched" /\ phase' = "verified"
  <2>1. PICK r \in Receipts : FactsValid(r) /\ Accept(r)
    BY <1>8 DEF Advance, NewProcess, AdvanceIdle, AdvanceReady, AdvanceStaged,
       AdvanceLocked, AdvanceSwitched, AdvanceVerified, AdvanceDrained,
       R!ClosePhase, R!CheckReadiness, R!StageCandidate, R!CommitTripleLock,
       R!SwitchEpoch, R!FallbackToOldEpoch, R!ConfirmDrain, R!RetireOldEpoch,
       R!BeginRotation
  <2>2. accepted'.serial > accepted.serial
    BY <1>8, <2>1 DEF FactsValid, Accept, Authority
  <2> QED
    BY <1>6, <2>2
<1>9. accepted' = accepted \/ (phase = "switched" /\ phase' = "verified")
  BY DEF Advance, NewProcess, AdvanceIdle, AdvanceReady, AdvanceStaged,
     AdvanceLocked, AdvanceSwitched, AdvanceVerified, AdvanceDrained,
     R!ConfirmTripleVerify, R!ClosePhase
<1> QED
  BY <1>3, <1>6, <1>7, <1>8, <1>9

(* Custody destroys nothing but the key of a superseded epoch, and only for
   a process that has just restored. *)
LEMMA CustodyStep ==
  ASSUME Coherent(State), [Next]_vars
  PROVE  \/ destroyed' = destroyed
         \/ /\ mode = "restored" /\ destroyed' \subseteq destroyed \cup Spent(State)
            /\ \/ Advance
               \/ State' = State /\ disk' = disk /\ floors' = floors /\ mode' = mode
<1>1. ASSUME phase = "drained" PROVE OldKey \in Spent(State)
  <2>1. K!IInv /\ Active = K!ActiveEpoch(ring)
    BY CoherentState, SameRing DEF CoreCoherent, Active
  <2>2. /\ Active - 1 \in 1..Len(ring) /\ Active \in 1..Len(ring)
    BY <1>1, <2>1, K!ActiveEpochUnique, RotationAssumption
       DEF K!IInv, K!OldEpochRetained, K!WithStatus, K!RingAlwaysVerifies
  <2>3. Active - 1 \in K!Superseded(ring, phase)
    BY <1>1, <2>1, <2>2 DEF K!Superseded
  <2> QED
    BY <2>3 DEF Spent, State, OldKey
<1>2. CASE RetirePrivateUnconfirmed
  BY <1>1, <1>2 DEF RetirePrivateUnconfirmed, State, memory, process
<1>3. CASE Advance
  <2>1. CASE \E tick \in Ticks : AdvanceDrained(tick)
    BY <1>1, <1>3, <2>1 DEF Advance, AdvanceDrained, R!RetireOldEpoch, R!ClosePhase
  <2>2. ASSUME ~\E tick \in Ticks : AdvanceDrained(tick) PROVE destroyed' = destroyed
    BY <1>3, <2>2 DEF Advance, world, AdvanceIdle, AdvanceReady, AdvanceStaged,
       AdvanceLocked, AdvanceSwitched, AdvanceVerified
  <2> QED
    BY <2>1, <2>2
<1>4. ASSUME ~RetirePrivateUnconfirmed, ~Advance PROVE destroyed' = destroyed
  BY <1>4 DEF Next, vars, world, NewProcess, Seal, RecordFloors, RestoreNewest,
     RestoreOlder, Load, Crash, CleanBatch, KeyFails
<1> QED
  BY <1>2, <1>3, <1>4

(* Storage that always answers with the newest admitted checkpoint: what is
   destroyed is superseded in memory and in the checkpoint that would be
   restored next, and a restored process still is that checkpoint. *)
Newest(i) == i \in Admitted /\ \A j \in Admitted : j <= i

NewestKnows ==
  /\ destroyed \subseteq Spent(State)
  /\ \A i \in DOMAIN disk : Newest(i) =>
       /\ destroyed \subseteq Spent(disk[i])
       /\ mode = "restored" => State = disk[i]

(* A process that never dies records its floors after every seal: no
   checkpoint is ahead of the memory, those with the same authority agree
   with it on what is superseded, and the floors refuse all others. *)
Lineage ==
  /\ destroyed \subseteq Spent(State)
  /\ floors.accepted.serial <= accepted.serial
  /\ mode = "down" => accepted.serial = floors.accepted.serial
  /\ \A i \in DOMAIN disk :
       /\ disk[i].accepted.serial <= accepted.serial
       /\ disk[i].accepted.serial = accepted.serial => Spent(disk[i]) = Spent(State)

(* A state over which nothing moved but the destroyed keys. *)
LEMMA AdmittedSame ==
  ASSUME disk' = disk, floors' = floors
  PROVE  Admitted' = Admitted /\ \A i : Newest(i)' <=> Newest(i)
<1>1. Admitted' = Admitted
  BY DEF Admitted, AboveFloors
<1> QED
  BY <1>1 DEF Newest

(* Sealing appends the state in memory. *)
LEMMA SealIs ==
  ASSUME Coherent(State), DiskCoherent, Seal
  PROVE  /\ Len(disk) \in Nat /\ DOMAIN disk = 1..Len(disk)
         /\ DOMAIN disk' = 1..(Len(disk) + 1) /\ disk'[Len(disk) + 1] = State
         /\ \A i \in 1..Len(disk) : disk'[i] = disk[i]
         /\ State' = State /\ floors' = floors /\ destroyed' = destroyed
         /\ accepted' = accepted /\ mode' = "sealed"
<1>1. /\ State \in Checkpoints /\ disk \in Seq(Checkpoints)
      /\ Len(disk) \in Nat /\ DOMAIN disk = 1..Len(disk)
  BY DEF Coherent, DiskCoherent
<1> DEFINE s == State
<1>2. s \in Checkpoints
  BY <1>1
<1> HIDE DEF s
<1>3. LET d == Append(disk, s) IN
      /\ DOMAIN d = 1..(Len(disk) + 1) /\ d[Len(disk) + 1] = s
      /\ \A i \in 1..Len(disk) : d[i] = disk[i]
  BY <1>1, <1>2
<1>4. disk' = Append(disk, s)
  BY DEF Seal, s
<1>5. /\ State' = State /\ floors' = floors /\ destroyed' = destroyed
      /\ accepted' = accepted /\ mode' = "sealed"
  BY DEF Seal, State, memory, process, world
<1> QED
  BY <1>1, <1>3, <1>4, <1>5 DEF s

LEMMA NewestKnowsStep ==
  ASSUME MaxRollbacks = 0, IInv, NewestKnows, [Next]_vars
  PROVE  NewestKnows'
<1>0. Coherent(State) /\ DiskCoherent /\ rollbacks \in 0..MaxRollbacks
  BY DEF IInv, Bounded
<1>1. CASE Advance \/ NewProcess
  <2>1. disk' = disk /\ floors' = floors /\ mode = "restored" /\ mode' = "unsealed"
    BY <1>1 DEF Advance, NewProcess, AdvanceIdle, AdvanceReady, AdvanceStaged,
       AdvanceLocked, AdvanceSwitched, AdvanceVerified, AdvanceDrained, world
  <2>2. destroyed' \subseteq destroyed \cup Spent(State)
    BY <1>0, CustodyStep
  <2>3. Spent(State) \subseteq Spent(State')
    BY <1>0, <1>1, SpentGrows
  <2>4. ASSUME NEW i \in DOMAIN disk, Newest(i) PROVE destroyed' \subseteq Spent(disk[i])
    BY <2>1, <2>2, <2>4 DEF NewestKnows
  <2>5. destroyed' \subseteq Spent(State')
    BY <2>2, <2>3 DEF NewestKnows
  <2> QED
    BY <2>1, <2>4, <2>5, AdmittedSame DEF NewestKnows
<1>2. CASE Seal
  <2> DEFINE n == Len(disk) + 1
  <2>1. /\ Len(disk) \in Nat /\ DOMAIN disk = 1..Len(disk)
        /\ DOMAIN disk' = 1..n /\ disk'[n] = State
        /\ \A i \in 1..Len(disk) : disk'[i] = disk[i]
        /\ State' = State /\ floors' = floors /\ destroyed' = destroyed
        /\ mode' = "sealed"
    BY <1>0, <1>2, SealIs
  <2>2. \A i \in 1..Len(disk) : i \in Admitted' <=> i \in Admitted
    BY <2>1 DEF Admitted, AboveFloors
  <2>3. ASSUME NEW i \in DOMAIN disk', Newest(i)'
        PROVE  destroyed' \subseteq Spent(disk'[i])
    <3>1. CASE i = n
      BY <2>1, <3>1 DEF NewestKnows
    <3>2. CASE i \in 1..Len(disk)
      <4>1. Newest(i)
        BY <2>1, <2>2, <2>3, <3>2 DEF Newest, Admitted
      <4> QED
        BY <2>1, <3>2, <4>1 DEF NewestKnows
    <3> QED
      BY <2>1, <3>1, <3>2
  <2> QED
    BY <2>1, <2>3 DEF NewestKnows
<1>3. CASE RecordFloors
  <2>1. /\ mode = "sealed" /\ mode' = "down" /\ disk' = disk /\ State' = State
        /\ floors' = Facts(State) /\ destroyed' = destroyed
    BY <1>3 DEF RecordFloors, State, memory, process
  <2>2. /\ Len(disk) \in DOMAIN disk /\ disk[Len(disk)] = State
        /\ Len(disk) \in Nat /\ DOMAIN disk = 1..Len(disk)
    BY <1>0, <2>1 DEF IInv, SealedIsNewest, DiskCoherent
  <2>3. Len(disk) \in Admitted'
    <3>1. /\ Len(State.ring) \in Nat
          /\ State.accepted \in Authorities /\ State.floor \in Authorities
      BY <1>0 DEF Coherent, Checkpoints
    <3>2. /\ floors'.epochs = Len(State.ring) /\ floors'.accepted = State.accepted
          /\ floors'.floor = State.floor
      BY <2>1 DEF Facts
    <3> QED
      BY <2>1, <2>2, <3>1, <3>2 DEF Admitted, AboveFloors, Authorities
  <2>4. ASSUME NEW i \in DOMAIN disk', Newest(i)' PROVE i = Len(disk)
    BY <2>1, <2>2, <2>3, <2>4 DEF Newest
  <2> QED
    BY <2>1, <2>2, <2>4 DEF NewestKnows
<1>4. CASE RestoreNewest
  <2>1. PICK i \in Admitted : (\A j \in Admitted : j <= i) /\ Load(disk[i])
    BY <1>4 DEF RestoreNewest
  <2>2. i \in DOMAIN disk /\ Newest(i) /\ DOMAIN disk \subseteq Nat
    BY <1>0, <2>1 DEF Newest, Admitted, DiskCoherent
  <2>3. State' = disk[i]
    BY <1>0, <2>1, <2>2, LoadIs DEF DiskCoherent
  <2>4. disk' = disk /\ floors' = floors /\ destroyed' = destroyed
    BY <2>1 DEF Load, world
  <2>5. ASSUME NEW j \in DOMAIN disk, Newest(j) PROVE j = i
    BY <2>2, <2>5 DEF Newest, Admitted
  <2> QED
    BY <2>2, <2>3, <2>4, <2>5, AdmittedSame DEF NewestKnows
<1>5. CASE RestoreOlder
  BY <1>0, <1>5 DEF RestoreOlder
<1>6. CASE Crash
  <2>1. /\ disk' = disk /\ floors' = floors /\ destroyed' = destroyed
        /\ mode' = "down" /\ State' = State
    BY <1>6 DEF Crash, State, memory, process, world
  <2> QED
    BY <2>1, AdmittedSame DEF NewestKnows
<1>7. CASE RetirePrivateUnconfirmed \/ CleanBatch \/ KeyFails \/ UNCHANGED vars
  <2>1. disk' = disk /\ floors' = floors /\ mode' = mode /\ State' = State
    BY <1>7 DEF RetirePrivateUnconfirmed, CleanBatch, KeyFails, State, memory, process,
       world, vars
  <2>2. \/ destroyed' = destroyed
        \/ mode = "restored" /\ destroyed' \subseteq destroyed \cup Spent(State)
    BY <1>0, CustodyStep
  <2>3. CASE destroyed' = destroyed
    BY <2>1, <2>3, AdmittedSame DEF NewestKnows
  <2>4. CASE mode = "restored" /\ destroyed' \subseteq destroyed \cup Spent(State)
    BY <2>1, <2>4, AdmittedSame DEF NewestKnows
  <2> QED
    BY <2>2, <2>3, <2>4
<1> QED
  BY <1>1, <1>2, <1>3, <1>4, <1>5, <1>6, <1>7 DEF Next

LEMMA LineageStep ==
  ASSUME MaxCrashes = 0, IInv, Lineage, [Next]_vars
  PROVE  Lineage'
<1>0. /\ Coherent(State) /\ DiskCoherent /\ crashes \in 0..MaxCrashes
      /\ accepted \in Authorities /\ State.accepted = accepted
  BY CoherentState DEF IInv, Bounded, CoreCoherent, State
<1>1. /\ accepted.serial \in Nat /\ floors.accepted.serial \in Nat
      /\ \A i \in DOMAIN disk : disk[i].accepted.serial \in Nat
  <2>1. \A i \in DOMAIN disk : disk[i].accepted.serial \in Nat
    BY <1>0 DEF DiskCoherent, Coherent, Checkpoints, Authorities
  <2> QED
    BY <1>0, <2>1 DEF IInv, FloorsOnDisk, Facts, Authorities
<1>2. CASE Advance \/ NewProcess
  <2>1. disk' = disk /\ floors' = floors /\ mode' = "unsealed"
    BY <1>2 DEF Advance, NewProcess, AdvanceIdle, AdvanceReady, AdvanceStaged,
       AdvanceLocked, AdvanceSwitched, AdvanceVerified, AdvanceDrained, world
  <2>2. destroyed' \subseteq Spent(State)
    BY <1>0, CustodyStep DEF Lineage
  <2>3. /\ Spent(State) \subseteq Spent(State')
        /\ \/ Spent(State') = Spent(State) /\ accepted' = accepted
           \/ accepted'.serial > accepted.serial
    BY <1>0, <1>2, SpentGrows
  <2>4. accepted'.serial \in Nat
    <3>1. Coherent(State)'
      BY <1>0, <1>2, DriverKeepsCoherence
    <3>2. CoreCoherent'
      BY <3>1, CoherentState, PTL
    <3> QED
      BY <3>2 DEF CoreCoherent, Authorities
  <2>5. CASE Spent(State') = Spent(State) /\ accepted' = accepted
    BY <2>1, <2>2, <2>5 DEF Lineage
  <2>6. CASE accepted'.serial > accepted.serial
    BY <1>1, <2>1, <2>2, <2>3, <2>4, <2>6 DEF Lineage
  <2> QED
    BY <2>3, <2>5, <2>6
<1>3. CASE Seal
  <2>1. /\ Len(disk) \in Nat /\ DOMAIN disk = 1..Len(disk)
        /\ DOMAIN disk' = 1..(Len(disk) + 1) /\ disk'[Len(disk) + 1] = State
        /\ \A i \in 1..Len(disk) : disk'[i] = disk[i]
        /\ State' = State /\ floors' = floors /\ destroyed' = destroyed
        /\ accepted' = accepted /\ mode' = "sealed"
    BY <1>0, <1>3, SealIs
  <2>2. ASSUME NEW i \in DOMAIN disk'
        PROVE  /\ disk'[i].accepted.serial <= accepted.serial
               /\ disk'[i].accepted.serial = accepted.serial =>
                    Spent(disk'[i]) = Spent(State)
    <3>1. CASE i = Len(disk) + 1
      BY <1>0, <1>1, <2>1, <3>1
    <3>2. CASE i \in 1..Len(disk)
      BY <2>1, <3>2 DEF Lineage
    <3> QED
      BY <2>1, <3>1, <3>2
  <2> QED
    BY <2>1, <2>2 DEF Lineage
<1>4. CASE RecordFloors
  <2>1. /\ disk' = disk /\ State' = State /\ accepted' = accepted
        /\ floors' = Facts(State) /\ destroyed' = destroyed
    BY <1>4 DEF RecordFloors, State, memory, process
  <2>2. floors'.accepted.serial = accepted.serial
    BY <1>0, <2>1 DEF Facts
  <2> QED
    BY <1>1, <2>1, <2>2 DEF Lineage
<1>5. CASE RestoreNewest \/ RestoreOlder
  <2>1. PICK i \in Admitted : Load(disk[i])
    BY <1>5 DEF RestoreNewest, RestoreOlder
  <2>2. /\ i \in DOMAIN disk /\ disk[i].accepted.serial >= floors.accepted.serial
    BY <2>1 DEF Admitted, AboveFloors
  <2>3. /\ disk' = disk /\ floors' = floors /\ destroyed' = destroyed
        /\ mode = "down" /\ mode' = "restored" /\ accepted' = disk[i].accepted
    BY <2>1 DEF Load, world
  <2>4. State' = disk[i]
    BY <1>0, <2>1, <2>2, LoadIs DEF DiskCoherent
  <2>5. disk[i].accepted.serial = accepted.serial
    BY <1>1, <2>2, <2>3 DEF Lineage
  <2>6. accepted'.serial = accepted.serial /\ Spent(State') = Spent(State)
    BY <2>2, <2>3, <2>4, <2>5 DEF Lineage
  <2> QED
    BY <2>3, <2>6 DEF Lineage
<1>6. CASE Crash
  BY <1>0, <1>6 DEF Crash
<1>7. CASE RetirePrivateUnconfirmed \/ CleanBatch \/ KeyFails \/ UNCHANGED vars
  <2>1. /\ disk' = disk /\ floors' = floors /\ mode' = mode /\ State' = State
        /\ accepted' = accepted
    BY <1>7 DEF RetirePrivateUnconfirmed, CleanBatch, KeyFails, State, memory, process,
       world, vars
  <2>2. destroyed' \subseteq Spent(State)
    BY <1>0, CustodyStep DEF Lineage
  <2> QED
    BY <2>1, <2>2 DEF Lineage
<1> QED
  BY <1>2, <1>3, <1>4, <1>5, <1>6, <1>7 DEF Next

(* Either condition keeps custody from destroying the key of an epoch that
   can sign again: storage that never answers with an older checkpoint, ... *)
THEOREM SignerSafeOnHonestStorage ==
  ASSUME MaxRollbacks = 0
  PROVE  Spec => []SignerKeyExists
<1>1. Init => NewestKnows
  BY DEF Init, NewestKnows
<1>2. IInv /\ NewestKnows /\ [Next]_vars => NewestKnows'
  BY NewestKnowsStep
<1>3. IInv /\ NewestKnows => SignerKeyExists
  BY SignerNotSpent, SameRing DEF IInv, NewestKnows, SignerKeyExists, Active, State
<1> QED
  BY <1>1, <1>2, <1>3, InductiveInvariant, PTL DEF Spec

(* ... or a process that does not die between a seal and the recording of
   its floors, whatever storage answers. *)
THEOREM SignerSafeWithoutCrashes ==
  ASSUME MaxCrashes = 0
  PROVE  Spec => []SignerKeyExists
<1>1. Init => Lineage
  <2> SUFFICES ASSUME Init PROVE Lineage
    OBVIOUS
  <2>1. /\ destroyed = {} /\ accepted.serial \in Nat /\ State.accepted = accepted
        /\ disk = <<State>> /\ floors.accepted = accepted
    BY ControllerAssumption DEF Init, Facts, State
  <2> QED
    BY <2>1 DEF Lineage
<1>2. IInv /\ Lineage /\ [Next]_vars => Lineage'
  BY LineageStep
<1>3. IInv /\ Lineage => SignerKeyExists
  BY SignerNotSpent, SameRing DEF IInv, Lineage, SignerKeyExists, Active, State
<1> QED
  BY <1>1, <1>2, <1>3, InductiveInvariant, PTL DEF Spec
=============================================================================
