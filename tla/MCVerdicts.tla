----------------------------- MODULE MCVerdicts -----------------------------
(***************************************************************************)
(* The verdict algebra over every ballot of bounded length.  A ballot      *)
(* grows by one vote at a time, so the operators can be compared both with *)
(* the loops of the source and with themselves before and after a vote.    *)
(***************************************************************************)
EXTENDS Verdicts, SequencesExt

CONSTANTS Signers, Thresholds, MaxVotes

VARIABLES votes, m

Init == votes = <<>> /\ m \in Thresholds

Cast(signer, verdict) ==
  /\ Len(votes) < MaxVotes
  /\ votes' = Append(votes, [signer |-> signer, verdict |-> verdict])
  /\ UNCHANGED m

Next == \E signer \in Signers, verdict \in Verdict : Cast(signer, verdict)

Spec == Init /\ [][Next]_<<votes, m>>

verdicts == [i \in DOMAIN votes |-> votes[i].verdict]

(* The loop of tally: a map from signer to verdict, abandoned at the first
   invalid or contradicting vote. *)
TallyStep(acc, v) ==
  IF acc.malformed THEN acc
  ELSE IF \/ ~ValidVote(v)
          \/ v.signer \in DOMAIN acc.by /\ acc.by[v.signer] # v.verdict
  THEN [acc EXCEPT !.malformed = TRUE]
  ELSE [acc EXCEPT !.by = [s \in DOMAIN @ \cup {v.signer} |->
                             IF s = v.signer THEN v.verdict ELSE acc.by[s]]]

Tally ==
  FoldLeft(TallyStep, [malformed |-> m < 1, by |-> <<>>], votes)

(* Whatever their number and order, the votes fold through vAnd and vOr, one
   after the other as reduce does, to what the set of them determines. *)
CompositionIsOrderFree ==
  verdicts # <<>> =>
    /\ AllOf(Range(verdicts)) = FoldLeft(VAnd, Head(verdicts), Tail(verdicts))
    /\ AnyOf(Range(verdicts)) = FoldLeft(VOr, Head(verdicts), Tail(verdicts))

(* A consensus never overrides a unanimous gate, and authorizes nothing that
   holds an UNKNOWN: consensusTritN agrees with allOf and anyOf wherever
   those are decided the same way. *)
ConsensusBetweenBounds ==
  LET all == AllOf(Range(verdicts))
      some == AnyOf(Range(verdicts))
  IN  /\ all = some => ConsensusTritN(verdicts) = all
      /\ UNKNOWN \in Range(verdicts) => ConsensusTritN(verdicts) = UNKNOWN
      /\ ConsensusTritN(verdicts) = ALLOW => some = ALLOW
      /\ ConsensusTritN(verdicts) = DENY => all = DENY

(* quorumVerdict is what the map-building loop of tally computes. *)
QuorumIsTally ==
  QuorumVerdict(votes, m) =
    IF Tally.malformed THEN UNKNOWN
    ELSE IF Cardinality({s \in DOMAIN Tally.by : Tally.by[s] = ALLOW}) >= m
    THEN ALLOW ELSE DENY

=============================================================================
