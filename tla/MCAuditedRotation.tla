------------------------- MODULE MCAuditedRotation -------------------------
(***************************************************************************)
(* Three keys of both kinds, so that two rotations can complete, and three *)
(* records; a ring of one record makes one push flush twice.               *)
(***************************************************************************)
EXTENDS AuditedRotation

Key(id, kind) ==
  [keyId |-> id, keyKind |-> kind, keyCommit |-> id, fileRef |-> id]

MCCandidates ==
  {Key("k1", "asymmetric"), Key("k2", "asymmetric"), Key("k3", "symmetric")}
MCTicks == 0..2
MCBallots == {<<[signer |-> "w1", verdict |-> ALLOW],
                [signer |-> "w2", verdict |-> ALLOW]>>}
MCBatchSizes == {2}
MCCapacities == {1, 2}
MCEpochs == {1, 2, 3}
=============================================================================
