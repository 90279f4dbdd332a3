------------------------------ MODULE Verdicts ------------------------------
(***************************************************************************)
(* The governance verdict algebra every gate of the system composes with   *)
(* (three-valued-governance.ts) and the M-of-N witness quorum built on it  *)
(* (quorum.ts).  A verdict is a trit (DENY < NEUTRAL < ALLOW) or the typed *)
(* UNKNOWN sentinel, which infects every conjunction it appears in: it is  *)
(* not Kleene's third value, so DENY /\ UNKNOWN is UNKNOWN, not DENY.      *)
(***************************************************************************)
EXTENDS Integers, FiniteSets, Sequences

DENY    == "deny"
NEUTRAL == "neutral"
ALLOW   == "allow"
UNKNOWN == "unknown"    \* K3_UNKNOWN, also exported as INDETERMINATE

Trit    == {DENY, NEUTRAL, ALLOW}
Verdict == Trit \cup {UNKNOWN}

VAnd(a, b) ==
  IF UNKNOWN \in {a, b} THEN UNKNOWN
  ELSE IF DENY \in {a, b} THEN DENY
  ELSE IF NEUTRAL \in {a, b} THEN NEUTRAL
  ELSE ALLOW

VOr(a, b) ==
  IF UNKNOWN \in {a, b} THEN UNKNOWN
  ELSE IF ALLOW \in {a, b} THEN ALLOW
  ELSE IF NEUTRAL \in {a, b} THEN NEUTRAL
  ELSE DENY

VNot(a) == CASE a = ALLOW -> DENY [] a = DENY -> ALLOW [] OTHER -> a

(* Mutant: Kleene's conjunction, where a definite DENY outweighs UNKNOWN. *)
AllOf_Kleene(S) ==
  IF DENY \in S THEN DENY
  ELSE IF S = {} \/ UNKNOWN \in S THEN UNKNOWN
  ELSE IF NEUTRAL \in S THEN NEUTRAL
  ELSE ALLOW

(* Conjunction of a set of clause verdicts.  allOf folds vAnd over a list;
   vAnd is associative, commutative and idempotent, so the set of verdicts
   in the list decides the result (MCVerdicts checks it against the fold). *)
AllOf(S) ==
  IF S = {} \/ UNKNOWN \in S THEN UNKNOWN
  ELSE IF DENY \in S THEN DENY
  ELSE IF NEUTRAL \in S THEN NEUTRAL
  ELSE ALLOW

AnyOf(S) ==
  IF S = {} \/ UNKNOWN \in S THEN UNKNOWN
  ELSE IF ALLOW \in S THEN ALLOW
  ELSE IF NEUTRAL \in S THEN NEUTRAL
  ELSE DENY

(* The trust boundary: exactly ALLOW authorizes. *)
Authorized(v) == v = ALLOW

(* An UNKNOWN that reaches a boundary is denied with a diagnostic. *)
Diagnosed(v) == v \notin Trit

(* Mutant: UNKNOWN votes are skipped instead of deciding the result. *)
ConsensusTritN_SkipsUnknown(votes) ==
  LET Count(v) == Cardinality({i \in DOMAIN votes : votes[i] = v})
      sum      == Count(ALLOW) - Count(DENY)
  IN  CASE votes = <<>> -> UNKNOWN
        [] votes # <<>> /\ sum > 0 -> ALLOW
        [] votes # <<>> /\ sum < 0 -> DENY
        [] OTHER -> IF Count(ALLOW) > 0 THEN UNKNOWN ELSE NEUTRAL

(* Sign of the vote sum; any UNKNOWN vote, no vote, or an exact tie of
   opposed votes is UNKNOWN; unanimous neutrality is NEUTRAL. *)
ConsensusTritN(votes) ==
  LET Count(v) == Cardinality({i \in DOMAIN votes : votes[i] = v})
      sum      == Count(ALLOW) - Count(DENY)
  IN  CASE votes = <<>> \/ Count(UNKNOWN) > 0 -> UNKNOWN
        [] votes # <<>> /\ Count(UNKNOWN) = 0 /\ sum > 0 -> ALLOW
        [] votes # <<>> /\ Count(UNKNOWN) = 0 /\ sum < 0 -> DENY
        [] OTHER -> IF Count(ALLOW) > 0 THEN UNKNOWN ELSE NEUTRAL

-----------------------------------------------------------------------------
(* quorum.ts.  A vote names a signer and a verdict; NEUTRAL is no verdict a
   signer may cast.  One signer counts once, and a signer that casts two
   different verdicts makes the whole ballot malformed.                     *)

ValidVote(v) == v.verdict \in {ALLOW, DENY, UNKNOWN}

(* Mutant: a signer may contradict itself. *)
Malformed_NoEquivocation(votes, m) ==
  \/ m < 1
  \/ \E i \in DOMAIN votes : ~ValidVote(votes[i])

Malformed(votes, m) ==
  \/ m < 1
  \/ \E i \in DOMAIN votes : ~ValidVote(votes[i])
  \/ \E i, j \in DOMAIN votes : /\ votes[i].signer = votes[j].signer
                                /\ votes[i].verdict # votes[j].verdict

Approvals(votes) ==
  {votes[i].signer : i \in {j \in DOMAIN votes : votes[j].verdict = ALLOW}}

QuorumVerdict(votes, m) ==
  IF Malformed(votes, m) THEN UNKNOWN
  ELSE IF Cardinality(Approvals(votes)) >= m THEN ALLOW ELSE DENY
=============================================================================
