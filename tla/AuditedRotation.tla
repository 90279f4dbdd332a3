--------------------------- MODULE AuditedRotation --------------------------
(***************************************************************************)
(* The rotation machine and the audit ledger it rotates, wired as the      *)
(* design document and the comments of adoptEpoch describe: after a switch *)
(* the writer adopts the ring's active epoch, the ledger is verified with  *)
(* the keys the ring does not refuse (epochForVerification), and the gates *)
(* read the ledger for their evidence.  The two are separate calls, so     *)
(* records flow between the switch and the adoption.                       *)
(***************************************************************************)
EXTENDS AuditEgress, Verdicts

CONSTANTS Candidates, Ticks, NoTick, NoTransition, Ballots, Quorum

(* The keys, ticks and handovers are those of KeyRotation; custody has the key
   of the epoch that the first ring begins with, and the writer opens under. *)
ASSUME RotationAssumption ==
  /\ Ticks \subseteq Nat /\ NoTick \notin Ticks
  /\ \A k \in Candidates :
       /\ k = [keyId |-> k.keyId, keyKind |-> k.keyKind,
               keyCommit |-> k.keyCommit, fileRef |-> k.fileRef]
       /\ k.keyKind \in {"symmetric", "asymmetric"}
  /\ NoTransition \notin [from : Nat, to : Nat]
  /\ 1 \in Epochs

VARIABLES ring, phase, transition

R == INSTANCE KeyRotation

rotation    == <<ring, phase, transition>>
auditedVars == <<rotation, vars>>

Active == R!ActiveEpoch(ring)

(* epochForVerification as the key lookup of verifyChainEpochAware. *)
Keyless == {e \in Epochs : ~R!Verifiable(ring, e)}

LedgerVerifies == VerifyChainEpochAware(ledger, Keyless)

-----------------------------------------------------------------------------
(* The evidence.  R2 and B1 verify the ledger; V1 to V3 ask for a batch of  *)
(* the new epoch that verifies, over old ones that still do; D1 and D2 ask  *)
(* that nothing staged waits for the old epoch.                             *)

Health == {R!Clause(LedgerVerifies)}

(* Mutant: the canary window is closed without looking at the writer. *)
Canary_Unread == {R!Clause(LedgerVerifies)}

Canary ==
  {R!Clause(ledger # <<>> /\ Last(ledger).epoch = Active),
   R!Clause(LedgerVerifies)}

Drained == {R!Clause(mem.epoch = Active)}

Rotate ==
  /\ \/ R!CheckReadiness(Health)
     \/ \E key \in Candidates, tick \in Ticks : R!StageCandidate(key, tick)
     \/ \E t \in R!Handovers, votes \in Ballots :
          R!CommitTripleLock(t, ALLOW, Health, votes)
     \/ \E tick \in Ticks : R!SwitchEpoch(tick)
     \/ R!ConfirmTripleVerify(Canary)
     \/ \E tick \in Ticks : R!FallbackToOldEpoch(tick)
     \/ \E votes \in Ballots : R!ConfirmDrain(Drained, votes)
     \/ \E mode \in R!RetireModes, recorded \in BOOLEAN, tick \in Ticks :
          R!RetireOldEpoch(mode, recorded, tick)
     \/ R!BeginRotation
  /\ UNCHANGED vars

(* The writer is told the active epoch; adoptEpoch takes it or throws. *)
AdoptActive == AdoptEpoch(Active) /\ UNCHANGED rotation

Write == (Record \/ FlushNow) /\ UNCHANGED rotation

AuditedInit ==
  /\ R!Init
  /\ \E batchSize \in BatchSizes, capacity \in Capacities :
       mem = NewWriter(batchSize, capacity, 1)
  /\ ledger = <<>> /\ offered = <<>> /\ base = 0 /\ lifetimes = 1

AuditedNext == Rotate \/ AdoptActive \/ Write

AuditedSpec == AuditedInit /\ [][AuditedNext]_auditedVars

-----------------------------------------------------------------------------
(* Properties *)

SealedBy(e) == \E i \in DOMAIN ledger : ledger[i].epoch = e

(* Whatever the interleaving of writes, adoptions and rotation steps, a ledger
   that can be read verifies with the ring's keys, except that batches of an
   epoch the ring revoked are refused: no batch is ever sealed by an epoch the
   ring does not know, and no rotation breaks or reorders the chain. *)
LossOnlyByRevocation ==
  Readable(ledger) /\ ~LedgerVerifies =>
    \E e \in R!WithStatus(ring, "revoked") : SealedBy(e)

(* An epoch is withdrawn for good only when the writer has left it: from the
   canary's end on, the writer seals under the active epoch. *)
WriterLeftOldEpoch ==
  phase \in {"verified", "drained", "retired"} => mem.epoch = Active

(* Who may seal: the active epoch; the one it just replaced, while the switch
   is being verified; or the candidate a fallback revoked, which the writer
   cannot leave. *)
MaySeal(e) ==
  \/ e = Active
  \/ phase = "switched" /\ e = Active - 1
  \/ e = Active + 1 /\ e \in R!WithStatus(ring, "revoked")

(* Every batch a call appends, and one push may append two, is sealed by an
   epoch that may seal in the phase the call finds. *)
SealsUnderLiveEpoch ==
  [][\A i \in DOMAIN ledger' \ DOMAIN ledger :
       \/ ledger'[i] \in {Fragment, Garbled}
       \/ MaySeal(ledger'[i].epoch)]_auditedVars

=============================================================================
