---------------------------- MODULE MCAuditEgress ---------------------------
(***************************************************************************)
(* Two epochs, four records, two writers over one ledger; a ring smaller   *)
(* than, equal to and larger than the batch.                               *)
(***************************************************************************)
EXTENDS AuditEgress

MCBatchSizes == {1, 2}
MCCapacities == {1, 2, 3}
MCEpochs == {1, 2}
=============================================================================
