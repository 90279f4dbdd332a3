--------------------------- MODULE MCKeyRotation ---------------------------
(***************************************************************************)
(* A small instance of KeyRotation: five key descriptions, of which some   *)
(* pairs share one field, and the ballots that decide a quorum of two.     *)
(***************************************************************************)
EXTENDS KeyRotation

Key(id, kind, commit, file) ==
  [keyId |-> id, keyKind |-> kind, keyCommit |-> commit, fileRef |-> file]

(* Two keys share a custody file, two a commitment, two an identity. *)
MCCandidates ==
  {Key("k1", "symmetric", "c1", "f1"), Key("k2", "asymmetric", "c2", "f2"),
   Key("k3", "symmetric", "c3", "f3"), Key("k4", "asymmetric", "c4", "f1"),
   Key("k4", "asymmetric", "c1", "f5")}

MCTicks == 0..3

Vote(s, v) == [signer |-> s, verdict |-> v]

(* A full quorum, a signer voting twice, a signer contradicting itself, a
   shortfall, and silence. *)
MCBallots ==
  {<<Vote("w1", ALLOW), Vote("w2", ALLOW)>>,
   <<Vote("w1", ALLOW), Vote("w1", ALLOW)>>,
   <<Vote("w1", ALLOW), Vote("w2", ALLOW), Vote("w2", DENY)>>,
   <<Vote("w1", ALLOW), Vote("w2", DENY)>>,
   <<>>}
=============================================================================
