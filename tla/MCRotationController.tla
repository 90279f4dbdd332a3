------------------------ MODULE MCRotationController ------------------------
(***************************************************************************)
(* One completed rotation or two attempts; three receipts, of which one    *)
(* carries a newer serial with a stale index.                              *)
(***************************************************************************)
EXTENDS RotationController

Key(id) == [keyId |-> id, keyKind |-> "asymmetric", keyCommit |-> id, fileRef |-> id]
Receipt(k, s, i, g) == [key |-> Key(k), serial |-> s, issued |-> i, generation |-> g]

MCCandidates == {Key("k1"), Key("k2"), Key("k3")}
MCTicks == 0..2
MCBallots == {<<[signer |-> "w1", verdict |-> ALLOW],
                [signer |-> "w2", verdict |-> ALLOW]>>}
MCReceipts == {Receipt("k2", 2, 2, "g2"), Receipt("k3", 3, 3, "g3"),
               Receipt("k3", 4, 1, "g4")}
MCAuthority == [serial |-> 1, issued |-> 1, generation |-> "g1"]
MCFloor == [serial |-> 0, issued |-> 0, generation |-> "g0"]
=============================================================================
