--------------------------- MODULE Verdicts_proofs ---------------------------
(***************************************************************************)
(* The verdict algebra, for any signers, any ballot, of any length, and    *)
(* any threshold.  The reductions fold a ballot one vote at a time; what   *)
(* they compute is found by following the fold prefix by prefix.           *)
(*                                                                         *)
(* The folds of the library are functions on the sets of positions, each   *)
(* the CHOOSE of one that satisfies its own recursion.  That such a        *)
(* function exists (FoldExists) and that a fold obeys a law of prefixes    *)
(* (SetIsFold, TallyIs) are shown by the least length at which they would  *)
(* not hold.                                                               *)
(***************************************************************************)
EXTENDS MCVerdicts, FiniteSetTheorems, SequenceTheorems, WellFoundedInduction, TLAPS

-----------------------------------------------------------------------------
(* Ballots *)

Vote == [signer : Signers, verdict : Verdict]

BallotType == votes \in Seq(Vote)

(* Every ballot is a sequence of votes, each by a signer and of one of the
   four verdicts. *)
THEOREM BallotsTyped == Spec => []BallotType
<1>1. Init => BallotType BY EmptySeq DEF Init, BallotType
<1>2. BallotType /\ [Next]_<<votes, m>> => BallotType'
  <2> SUFFICES ASSUME BallotType, [Next]_<<votes, m>> PROVE BallotType' OBVIOUS
  <2>1. ASSUME NEW signer \in Signers, NEW verdict \in Verdict, Cast(signer, verdict)
        PROVE  BallotType'
    <3> DEFINE v == [signer |-> signer, verdict |-> verdict]
    <3>1. v \in Vote BY DEF Vote
    <3> HIDE DEF v
    <3>2. votes' = Append(votes, v) BY <2>1 DEF Cast, v
    <3> QED BY <3>1, <3>2, AppendProperties DEF BallotType
  <2>2. CASE UNCHANGED <<votes, m>> BY <2>2 DEF BallotType
  <2> QED BY <2>1, <2>2 DEF Next
<1> QED BY <1>1, <1>2, PTL DEF Spec

LEMMA VerdictsTyped ==
  ASSUME BallotType
  PROVE  /\ verdicts \in Seq(Verdict) /\ Len(verdicts) = Len(votes)
         /\ Len(votes) \in Nat /\ DOMAIN votes = 1..Len(votes)
         /\ DOMAIN verdicts = 1..Len(votes)
         /\ \A i \in DOMAIN votes : votes[i] \in Vote /\ verdicts[i] = votes[i].verdict
<1>1. Len(votes) \in Nat /\ DOMAIN votes = 1..Len(votes) BY LenProperties DEF BallotType
<1>2. \A i \in DOMAIN votes : votes[i] \in Vote BY <1>1, ElementOfSeq DEF BallotType
<1>3. \A i \in 1..Len(votes) : votes[i].verdict \in Verdict BY <1>1, <1>2 DEF Vote
<1>4. verdicts = [i \in 1..Len(votes) |-> votes[i].verdict] BY <1>1 DEF verdicts
<1>5. verdicts \in Seq(Verdict) BY <1>1, <1>3, <1>4, IsASeq
<1>6. DOMAIN verdicts = 1..Len(votes) BY <1>4
<1>7. Len(verdicts) = Len(votes) BY <1>1, <1>5, <1>6, LenProperties
<1> QED BY <1>1, <1>2, <1>4, <1>5, <1>6, <1>7

(* The four verdicts are four. *)
LEMMA VerdictsDiffer ==
  /\ ALLOW # DENY /\ ALLOW # NEUTRAL /\ ALLOW # UNKNOWN
  /\ DENY # NEUTRAL /\ DENY # UNKNOWN /\ NEUTRAL # UNKNOWN
BY DEF ALLOW, DENY, NEUTRAL, UNKNOWN

(* How often a verdict was cast, and whether it was. *)
LEMMA Counted ==
  ASSUME NEW vs \in Seq(Verdict), NEW v
  PROVE  LET c == Cardinality({i \in DOMAIN vs : vs[i] = v})
         IN  c \in Nat /\ (c > 0 <=> v \in Range(vs))
<1> DEFINE C == {i \in DOMAIN vs : vs[i] = v}
<1>1. IsFiniteSet(C)
  <2>1. DOMAIN vs = 1..Len(vs) /\ Len(vs) \in Nat BY LenProperties
  <2>2. IsFiniteSet(1..Len(vs)) BY <2>1, FS_Interval
  <2> QED BY <2>1, <2>2, FS_Subset
<1>2. Cardinality(C) \in Nat /\ (Cardinality(C) = 0 <=> C = {})
  BY <1>1, FS_CardinalityType, FS_EmptySet
<1>3. C # {} <=> v \in Range(vs) BY DEF Range
<1> HIDE DEF C
<1>4. Cardinality(C) > 0 <=> v \in Range(vs) BY <1>2, <1>3
<1> QED BY <1>2, <1>4 DEF C

(* A consensus never overrides a unanimous gate and authorizes nothing that
   holds an UNKNOWN, however many vote: the sum of the trits is positive only
   if some vote allows and negative only if some denies, and it has the one
   value of the votes when they agree (consensusTritN against allOf and
   anyOf). *)
THEOREM ConsensusKeepsBounds == Spec => []ConsensusBetweenBounds
<1>1. BallotType => ConsensusBetweenBounds
  <2> SUFFICES ASSUME BallotType PROVE ConsensusBetweenBounds OBVIOUS
  <2> DEFINE S == Range(verdicts)
             Count(v) == Cardinality({i \in DOMAIN verdicts : verdicts[i] = v})
             a == Count(ALLOW)
             d == Count(DENY)
             u == Count(UNKNOWN)
             all == AllOf(S)
             some == AnyOf(S)
             result == ConsensusTritN(verdicts)
  <2>1. /\ verdicts \in Seq(Verdict) /\ DOMAIN verdicts = 1..Len(verdicts)
        /\ Len(verdicts) \in Nat /\ (verdicts = <<>> <=> Len(verdicts) = 0)
    BY VerdictsTyped, EmptySeq
  <2>2. S \in SUBSET Verdict /\ (S = {} <=> verdicts = <<>>)
    <3>1. \A i \in 1..Len(verdicts) : verdicts[i] \in Verdict BY <2>1, ElementOfSeq
    <3>2. S = {} <=> 1..Len(verdicts) = {} BY <2>1 DEF Range
    <3> QED BY <2>1, <3>1, <3>2 DEF Range
  <2>3. /\ a \in Nat /\ (a > 0 <=> ALLOW \in S)
        /\ d \in Nat /\ (d > 0 <=> DENY \in S)
        /\ u \in Nat /\ (u > 0 <=> UNKNOWN \in S)
    BY <2>1, Counted
  <2>4. result = CASE S = {} \/ u > 0 -> UNKNOWN
                   [] S # {} /\ u = 0 /\ a - d > 0 -> ALLOW
                   [] S # {} /\ u = 0 /\ a - d < 0 -> DENY
                   [] OTHER -> IF a > 0 THEN UNKNOWN ELSE NEUTRAL
    BY <2>2 DEF ConsensusTritN
  <2> HIDE DEF S, Count, a, d, u
  <2>5. CASE S = {} \/ UNKNOWN \in S
    <3>1. all = UNKNOWN /\ some = UNKNOWN BY <2>5 DEF AllOf, AnyOf
    <3>2. result = UNKNOWN BY <2>3, <2>4, <2>5
    <3> QED BY <3>1, <3>2, VerdictsDiffer DEF ConsensusBetweenBounds, S
  <2>6. CASE S # {} /\ UNKNOWN \notin S
    <3>1. all = IF DENY \in S THEN DENY ELSE IF NEUTRAL \in S THEN NEUTRAL ELSE ALLOW
      BY <2>6 DEF AllOf
    <3>2. some = IF ALLOW \in S THEN ALLOW ELSE IF NEUTRAL \in S THEN NEUTRAL ELSE DENY
      BY <2>6 DEF AnyOf
    <3>3. S \subseteq {DENY, NEUTRAL, ALLOW} BY <2>2, <2>6 DEF Verdict, Trit
    <3>4. /\ a - d > 0 => result = ALLOW
          /\ a - d < 0 => result = DENY
          /\ a = d => result = IF a > 0 THEN UNKNOWN ELSE NEUTRAL
      BY <2>3, <2>4, <2>6
    <3>5. result = ALLOW => ALLOW \in S BY <2>3, <3>4, VerdictsDiffer
    <3>6. result = DENY => DENY \in S BY <2>3, <3>4, VerdictsDiffer
    <3>7. all = some => result = all
      BY <2>3, <2>6, <3>1, <3>2, <3>3, <3>4, VerdictsDiffer
    <3> QED BY <2>6, <3>1, <3>2, <3>5, <3>6, <3>7 DEF ConsensusBetweenBounds, S
  <2> QED BY <2>5, <2>6
<1> QED BY <1>1, BallotsTyped, PTL

-----------------------------------------------------------------------------
(* Folds over a sequence *)

LEMMA Least ==
  ASSUME NEW S \in SUBSET Nat, S # {}
  PROVE  \E k \in S : \A j \in S : k <= j
<1>1. PICK k \in S : \A j \in S : <<j, k>> \notin OpToRel(<, Nat)
  BY WFMin, NatLessThanWellFounded, Zenon
<1>2. \A j \in S : ~(j < k) BY <1>1 DEF OpToRel
<1> QED BY <1>2

LEMMA MaxOfPrefix == ASSUME NEW n \in Nat \ {0} PROVE Max(1..n) = n
<1>1. n \in 1..n /\ \A y \in 1..n : n >= y OBVIOUS
<1>2. \A x \in 1..n : (\A y \in 1..n : x >= y) => x = n BY <1>1
<1> QED BY <1>1, <1>2 DEF Max

(* The function a fold over 1..n is defined by, for a step that is a table. *)
Folds(f, step, base, n) ==
  f = [s \in SUBSET (1..n) |->
         IF s = {} THEN base ELSE step[<<f[s \ {Max(s)}], Max(s)>>]]

(* A set of positions has a last one. *)
LEMMA MaxOfSome ==
  ASSUME NEW n \in Nat, NEW s \in SUBSET (1..n), s # {}
  PROVE  Max(s) \in s
<1> DEFINE Down == {n - i : i \in s}
<1>1. Down \in SUBSET Nat /\ Down # {} OBVIOUS
<1>2. PICK d \in Down : \A e \in Down : d <= e BY <1>1, Least
<1>3. PICK i \in s : d = n - i BY <1>2
<1>4. \A j \in s : i >= j
  <2> SUFFICES ASSUME NEW j \in s PROVE i >= j OBVIOUS
  <2>1. d <= n - j BY <1>2
  <2> HIDE DEF Down
  <2> QED BY <1>3, <2>1
<1> QED BY <1>3, <1>4 DEF Max

(* There is such a function, whatever the table: one for k positions extends
   one for k - 1. *)
LEMMA FoldExists ==
  ASSUME NEW A, NEW base \in A, NEW N \in Nat, NEW step \in [A \X (1..N) -> A]
  PROVE  \E f : f \in [SUBSET (1..N) -> A] /\ Folds(f, step, base, N)
<1> DEFINE Typed(f, k) == f \in [SUBSET (1..k) -> A] /\ Folds(f, step, base, k)
           Bad == {k \in 0..N : ~\E f : Typed(f, k)}
<1>1. SUFFICES ASSUME Bad # {} PROVE FALSE
  <2>1. N \in 0..N OBVIOUS
  <2> QED BY <1>1, <2>1
<1>2. Bad \in SUBSET Nat OBVIOUS
<1>3. PICK k \in Bad : \A j \in Bad : k <= j BY <1>1, <1>2, Least
<1>4. CASE k = 0
  <2> DEFINE f == [s \in SUBSET (1..0) |-> base]
  <2>1. \A s \in SUBSET (1..0) : s = {} OBVIOUS
  <2>2. f \in [SUBSET (1..0) -> A] OBVIOUS
  <2>3. Folds(f, step, base, 0) BY <2>1 DEF Folds
  <2> QED BY <1>3, <1>4, <2>2, <2>3
<1>5. CASE k # 0
  <2>1. k - 1 \in 0..N /\ k - 1 \notin Bad /\ k \in 1..N
    <3>1. k \in 0..N BY <1>3
    <3>2. k - 1 \in 0..N /\ k \in 1..N /\ ~(k <= k - 1) BY <1>5, <3>1
    <3> HIDE DEF Bad
    <3> QED BY <1>3, <3>2
  <2>2. PICK f : Typed(f, k - 1) BY <2>1
  <2> DEFINE g == [s \in SUBSET (1..k) |->
                     IF k \in s THEN step[<<f[s \ {k}], k>>] ELSE f[s]]
  <2>3. ASSUME NEW s \in SUBSET (1..k), k \notin s
        PROVE  s \in SUBSET (1..(k - 1))
    BY <2>1, <2>3
  <2>4. g \in [SUBSET (1..k) -> A]
    <3>1. ASSUME NEW s \in SUBSET (1..k) PROVE g[s] \in A
      <4>1. CASE k \in s
        <5>1. s \ {k} \in SUBSET (1..(k - 1)) BY <2>3
        <5> QED BY <2>1, <2>2, <4>1, <5>1
      <4>2. CASE k \notin s BY <2>2, <2>3, <4>2
      <4> QED BY <4>1, <4>2
    <3> QED BY <3>1
  <2>5. ASSUME NEW s \in SUBSET (1..k), s # {}
        PROVE  g[s] = step[<<g[s \ {Max(s)}], Max(s)>>]
    <3>1. CASE k \in s
      <4>1. Max(s) = k
        <5>1. k \in s /\ \A j \in s : k >= j BY <2>1, <3>1
        <5>2. \A x \in s : (\A j \in s : x >= j) => x = k BY <2>1, <5>1
        <5> QED BY <5>1, <5>2 DEF Max
      <4>2. s \ {k} \in SUBSET (1..(k - 1)) /\ s \ {k} \in SUBSET (1..k) /\ k \notin s \ {k}
        BY <2>3
      <4>3. g[s \ {k}] = f[s \ {k}] BY <4>2
      <4> QED BY <3>1, <4>1, <4>3
    <3>2. CASE k \notin s
      <4>1. s \in SUBSET (1..(k - 1)) BY <2>3, <3>2
      <4>2. s \ {Max(s)} \in SUBSET (1..(k - 1)) /\ s \ {Max(s)} \in SUBSET (1..k)
            /\ k \notin s \ {Max(s)}
        BY <3>2, <4>1
      <4>3. f[s] = step[<<f[s \ {Max(s)}], Max(s)>>] BY <2>2, <2>5, <4>1 DEF Folds
      <4>4. g[s] = f[s] /\ g[s \ {Max(s)}] = f[s \ {Max(s)}] BY <3>2, <4>2
      <4> QED BY <4>3, <4>4
    <3> QED BY <3>1, <3>2
  <2>6. g[{}] = base
    <3>1. {} \in SUBSET (1..(k - 1)) /\ {} \in SUBSET (1..k) OBVIOUS
    <3>2. f[{}] = base BY <2>2, <3>1 DEF Folds
    <3> QED BY <3>1, <3>2
  <2>7. Folds(g, step, base, k)
    <3>1. g = [s \in SUBSET (1..k) |-> g[s]] OBVIOUS
    <3>2. \A s \in SUBSET (1..k) :
            g[s] = IF s = {} THEN base ELSE step[<<g[s \ {Max(s)}], Max(s)>>]
      BY <2>5, <2>6
    <3> HIDE DEF g
    <3> QED BY <3>1, <3>2 DEF Folds
  <2> QED BY <1>3, <2>4, <2>7
<1> QED BY <1>4, <1>5

(* The same, one set of positions after the other. *)
Table(f, A, step, base, n) ==
  /\ f = [s \in SUBSET (1..n) |-> f[s]] /\ f[{}] = base
  /\ \A s \in SUBSET (1..n) : s # {} =>
       /\ Max(s) \in 1..n /\ f[s \ {Max(s)}] \in A
       /\ f[s] = step[<<f[s \ {Max(s)}], Max(s)>>]

LEMMA FoldTable ==
  ASSUME NEW A, NEW base \in A, NEW n \in Nat, NEW step \in [A \X (1..n) -> A]
  PROVE  \E f : Table(f, A, step, base, n)
<1>1. PICK f : f \in [SUBSET (1..n) -> A] /\ Folds(f, step, base, n) BY FoldExists
<1>2. f[{}] = base
  <2>1. {} \in SUBSET (1..n) OBVIOUS
  <2> QED BY <1>1, <2>1 DEF Folds
<1>3. ASSUME NEW s \in SUBSET (1..n), s # {}
      PROVE  /\ Max(s) \in 1..n /\ f[s \ {Max(s)}] \in A
             /\ f[s] = step[<<f[s \ {Max(s)}], Max(s)>>]
  <2>1. Max(s) \in 1..n /\ s \ {Max(s)} \in SUBSET (1..n) BY <1>3, MaxOfSome
  <2> QED BY <1>1, <1>3, <2>1 DEF Folds
<1>4. f = [s \in SUBSET (1..n) |-> f[s]] BY <1>1
<1> QED BY <1>2, <1>3, <1>4 DEF Table

LEMMA Prefix ==
  ASSUME NEW n \in Nat, NEW k \in 1..n
  PROVE  /\ 1..k \in SUBSET (1..n) /\ 1..k # {} /\ Max(1..k) = k
         /\ (1..k) \ {k} = 1..(k - 1)
         /\ k \in 0..n /\ k - 1 \in 0..n
<1>1. k \in Nat \ {0} /\ k \in 0..n /\ k - 1 \in 0..n OBVIOUS
<1>2. \A j \in 1..k : j \in 1..n BY <1>1
<1>3. k \in 1..k /\ (1..k) \ {k} = 1..(k - 1) BY <1>1
<1>4. Max(1..k) = k BY <1>1, MaxOfPrefix
<1>5. 1..k \in SUBSET (1..n) BY <1>2
<1> QED BY <1>1, <1>3, <1>4, <1>5

(* A fold through vAnd is followed prefix by prefix; so is one through vOr, and
   the loop of tally further down. *)
LEMMA AndFold ==
  ASSUME NEW b \in Verdict, NEW t \in Seq(Verdict)
  PROVE  \E h : /\ FoldLeft(VAnd, b, t) = h[Len(t)] /\ h[0] = b
                /\ \A k \in 1..Len(t) : h[k] = VAnd(h[k - 1], t[k])
<1> DEFINE n == Len(t)
           Is(f) == f = [s \in SUBSET (1..n) |->
                           IF s = {} THEN b ELSE VAnd(f[s \ {Max(s)}], t[Max(s)])]
           f == CHOOSE f : Is(f)
           h == [k \in 0..n |-> f[1..k]]
           step == [p \in Verdict \X (1..n) |-> VAnd(p[1], t[p[2]])]
<1>1. n \in Nat /\ DOMAIN t = 1..n /\ \A i \in 1..n : t[i] \in Verdict
  BY LenProperties, ElementOfSeq
<1>2. step \in [Verdict \X (1..n) -> Verdict]
  BY <1>1 DEF VAnd, Verdict, Trit
<1>3. \E g : Is(g)
  <2> HIDE DEF step, n
  <2>1. PICK g : Table(g, Verdict, step, b, n) BY <1>1, <1>2, FoldTable
  <2> QED BY <2>1 DEF Table, step, n
<1>4. Is(f) BY <1>3
<1>5. FoldLeft(VAnd, b, t) = f[1..n] BY <1>1 DEF FoldLeft, MapThenFoldSet
<1> HIDE DEF f
<1>6. h[0] = b
  <2>1. 1..0 = {} /\ {} \in SUBSET (1..n) OBVIOUS
  <2> QED BY <1>1, <1>4, <2>1
<1>7. ASSUME NEW k \in 1..n PROVE h[k] = VAnd(h[k - 1], t[k])
  <2>1. /\ 1..k \in SUBSET (1..n) /\ 1..k # {} /\ Max(1..k) = k
        /\ (1..k) \ {k} = 1..(k - 1) /\ k \in 0..n /\ k - 1 \in 0..n
    BY <1>1, Prefix
  <2>2. f[1..k] = VAnd(f[1..(k - 1)], t[k]) BY <1>4, <2>1
  <2> QED BY <2>1, <2>2
<1>8. h[n] = f[1..n] BY <1>1
<1> QED BY <1>5, <1>6, <1>7, <1>8

LEMMA OrFold ==
  ASSUME NEW b \in Verdict, NEW t \in Seq(Verdict)
  PROVE  \E h : /\ FoldLeft(VOr, b, t) = h[Len(t)] /\ h[0] = b
                /\ \A k \in 1..Len(t) : h[k] = VOr(h[k - 1], t[k])
<1> DEFINE n == Len(t)
           Is(f) == f = [s \in SUBSET (1..n) |->
                           IF s = {} THEN b ELSE VOr(f[s \ {Max(s)}], t[Max(s)])]
           f == CHOOSE f : Is(f)
           h == [k \in 0..n |-> f[1..k]]
           step == [p \in Verdict \X (1..n) |-> VOr(p[1], t[p[2]])]
<1>1. n \in Nat /\ DOMAIN t = 1..n /\ \A i \in 1..n : t[i] \in Verdict
  BY LenProperties, ElementOfSeq
<1>2. step \in [Verdict \X (1..n) -> Verdict]
  BY <1>1 DEF VOr, Verdict, Trit
<1>3. \E g : Is(g)
  <2> HIDE DEF step, n
  <2>1. PICK g : Table(g, Verdict, step, b, n) BY <1>1, <1>2, FoldTable
  <2> QED BY <2>1 DEF Table, step, n
<1>4. Is(f) BY <1>3
<1>5. FoldLeft(VOr, b, t) = f[1..n] BY <1>1 DEF FoldLeft, MapThenFoldSet
<1> HIDE DEF f
<1>6. h[0] = b
  <2>1. 1..0 = {} /\ {} \in SUBSET (1..n) OBVIOUS
  <2> QED BY <1>1, <1>4, <2>1
<1>7. ASSUME NEW k \in 1..n PROVE h[k] = VOr(h[k - 1], t[k])
  <2>1. /\ 1..k \in SUBSET (1..n) /\ 1..k # {} /\ Max(1..k) = k
        /\ (1..k) \ {k} = 1..(k - 1) /\ k \in 0..n /\ k - 1 \in 0..n
    BY <1>1, Prefix
  <2>2. f[1..k] = VOr(f[1..(k - 1)], t[k]) BY <1>4, <2>1
  <2> QED BY <2>1, <2>2
<1>8. h[n] = f[1..n] BY <1>1
<1> QED BY <1>5, <1>6, <1>7, <1>8

(* What a set of verdicts determines, one verdict at a time. *)
LEMMA SetsGrow ==
  ASSUME NEW S \in SUBSET Verdict, S # {}, NEW v \in Verdict
  PROVE  /\ AllOf(S \cup {v}) = VAnd(AllOf(S), v)
         /\ AnyOf(S \cup {v}) = VOr(AnyOf(S), v)
BY VerdictsDiffer DEF AllOf, AnyOf, VAnd, VOr, Verdict, Trit

LEMMA SetOfOne ==
  ASSUME NEW v \in Verdict
  PROVE  AllOf({v}) = v /\ AnyOf({v}) = v
BY VerdictsDiffer DEF AllOf, AnyOf, Verdict, Trit

(* What the set of the votes determines is what they fold to. *)
LEMMA SetIsFold ==
  ASSUME NEW vs \in Seq(Verdict), vs # <<>>
  PROVE  /\ AllOf(Range(vs)) = FoldLeft(VAnd, Head(vs), Tail(vs))
         /\ AnyOf(Range(vs)) = FoldLeft(VOr, Head(vs), Tail(vs))
<1> DEFINE b == Head(vs)
           t == Tail(vs)
           Seen(k) == {b} \cup {t[i] : i \in 1..k}
<1>1. /\ b \in Verdict /\ t \in Seq(Verdict) /\ b = vs[1]
      /\ Len(vs) \in Nat \ {0} /\ Len(t) = Len(vs) - 1 /\ DOMAIN vs = 1..Len(vs)
      /\ \A i \in 1..Len(t) : t[i] = vs[i + 1]
  BY HeadTailProperties, EmptySeq, LenProperties
<1> HIDE DEF b, t
<1>2. Len(t) \in Nat /\ \A i \in 1..Len(t) : t[i] \in Verdict
  BY <1>1, LenProperties, ElementOfSeq
<1>3. PICK h : /\ FoldLeft(VAnd, b, t) = h[Len(t)] /\ h[0] = b
               /\ \A k \in 1..Len(t) : h[k] = VAnd(h[k - 1], t[k])
  BY <1>1, AndFold
<1>4. PICK g : /\ FoldLeft(VOr, b, t) = g[Len(t)] /\ g[0] = b
               /\ \A k \in 1..Len(t) : g[k] = VOr(g[k - 1], t[k])
  BY <1>1, OrFold
<1>5. \A k \in 0..Len(t) : h[k] = AllOf(Seen(k)) /\ g[k] = AnyOf(Seen(k))
  <2> DEFINE Bad == {k \in 0..Len(t) : ~(h[k] = AllOf(Seen(k)) /\ g[k] = AnyOf(Seen(k)))}
  <2>1. SUFFICES ASSUME Bad # {} PROVE FALSE OBVIOUS
  <2>2. Bad \in SUBSET Nat OBVIOUS
  <2>3. PICK k \in Bad : \A j \in Bad : k <= j BY <2>1, <2>2, Least
  <2>4. CASE k = 0
    <3>1. Seen(0) = {b} OBVIOUS
    <3> QED BY <1>1, <1>3, <1>4, <2>3, <2>4, <3>1, SetOfOne
  <2>5. CASE k # 0
    <3>1. k \in 1..Len(t) /\ k - 1 \in 0..Len(t) /\ ~(k <= k - 1) BY <1>2, <2>3, <2>5
    <3>2. k - 1 \notin Bad BY <2>3, <3>1
    <3>3. h[k - 1] = AllOf(Seen(k - 1)) /\ g[k - 1] = AnyOf(Seen(k - 1)) BY <3>1, <3>2
    <3>4. Seen(k) = Seen(k - 1) \cup {t[k]}
      <4>1. \A i : i \in 1..k <=> i \in 1..(k - 1) \/ i = k BY <3>1
      <4> QED BY <4>1
    <3>5. Seen(k - 1) \in SUBSET Verdict /\ Seen(k - 1) # {}
      <4>1. \A i \in 1..(k - 1) : i \in 1..Len(t) BY <1>2, <3>1
      <4> QED BY <1>1, <1>2, <4>1
    <3> HIDE DEF Seen
    <3>6. h[k] = AllOf(Seen(k)) /\ g[k] = AnyOf(Seen(k))
      BY <1>2, <1>3, <1>4, <3>1, <3>3, <3>4, <3>5, SetsGrow
    <3> QED BY <2>3, <3>6
  <2> QED BY <2>4, <2>5
<1>6. Seen(Len(t)) = Range(vs)
  <2>1. \A i \in 1..Len(vs) : i = 1 \/ (i - 1 \in 1..Len(t) /\ (i - 1) + 1 = i) BY <1>1
  <2>2. \A i \in 1..Len(t) : i + 1 \in 1..Len(vs) BY <1>1, <1>2
  <2>3. 1 \in 1..Len(vs) BY <1>1
  <2>4. Range(vs) \subseteq Seen(Len(t))
    <3>1. ASSUME NEW i \in 1..Len(vs) PROVE vs[i] \in Seen(Len(t))
      <4>1. CASE i = 1 BY <1>1, <4>1
      <4>2. CASE i # 1
        <5>1. i - 1 \in 1..Len(t) /\ vs[i] = t[i - 1] BY <1>1, <2>1, <4>2
        <5> QED BY <5>1
      <4> QED BY <4>1, <4>2
    <3> QED BY <1>1, <3>1 DEF Range
  <2>5. Seen(Len(t)) \subseteq Range(vs) BY <1>1, <2>2, <2>3 DEF Range
  <2> QED BY <2>4, <2>5
<1>7. Len(t) \in 0..Len(t) BY <1>2
<1> QED BY <1>3, <1>4, <1>5, <1>6, <1>7 DEF b, t

(* However many vote, and in whatever order, the votes fold through vAnd and
   vOr to what the set of them determines: allOf and anyOf depend neither on
   the order of the votes nor on how often each is cast. *)
THEOREM FoldsAreSets == Spec => []CompositionIsOrderFree
<1>1. BallotType => CompositionIsOrderFree
  BY VerdictsTyped, SetIsFold DEF CompositionIsOrderFree
<1> QED BY <1>1, BallotsTyped, PTL

-----------------------------------------------------------------------------
(* The loop of tally *)

Maps == UNION {[D -> Verdict] : D \in SUBSET Signers}

(* What tally has seen: is the ballot malformed, and who voted what. *)
Accs == [malformed : BOOLEAN, by : Maps]

Clashes(acc, v) ==
  ~ValidVote(v) \/ (v.signer \in DOMAIN acc.by /\ acc.by[v.signer] # v.verdict)

(* One pass through the loop. *)
LEMMA TallyStepIs ==
  ASSUME NEW acc \in Accs, NEW v \in Vote
  PROVE  LET r == TallyStep(acc, v) IN
         /\ r \in Accs
         /\ r.malformed <=> acc.malformed \/ Clashes(acc, v)
         /\ ~r.malformed =>
              /\ DOMAIN r.by = DOMAIN acc.by \cup {v.signer}
              /\ r.by[v.signer] = v.verdict
              /\ \A s \in DOMAIN acc.by \ {v.signer} : r.by[s] = acc.by[s]
<1> DEFINE r == TallyStep(acc, v)
           map == [s \in DOMAIN acc.by \cup {v.signer} |->
                     IF s = v.signer THEN v.verdict ELSE acc.by[s]]
<1>1. /\ acc = [malformed |-> acc.malformed, by |-> acc.by]
      /\ acc.malformed \in BOOLEAN /\ acc.by \in Maps
  BY DEF Accs
<1>2. v.signer \in Signers /\ v.verdict \in Verdict BY DEF Vote
<1>3. CASE acc.malformed
  <2>1. r = acc BY <1>3 DEF TallyStep
  <2> QED BY <1>1, <1>3, <2>1
<1>4. CASE ~acc.malformed /\ Clashes(acc, v)
  <2>1. r = [acc EXCEPT !.malformed = TRUE] BY <1>4 DEF TallyStep, Clashes
  <2> HIDE DEF r
  <2>2. r = [malformed |-> TRUE, by |-> acc.by] BY <1>1, <2>1
  <2>3. r \in Accs BY <1>1, <2>2 DEF Accs
  <2>4. r.malformed BY <2>2
  <2> QED BY <1>4, <2>3, <2>4 DEF r
<1>5. CASE ~acc.malformed /\ ~Clashes(acc, v)
  <2>1. r = [acc EXCEPT !.by = map] BY <1>5 DEF TallyStep, Clashes
  <2>2. /\ DOMAIN map = DOMAIN acc.by \cup {v.signer} /\ map[v.signer] = v.verdict
        /\ \A s \in DOMAIN acc.by \ {v.signer} : map[s] = acc.by[s]
    OBVIOUS
  <2>3. PICK D \in SUBSET Signers : acc.by \in [D -> Verdict] BY <1>1 DEF Maps
  <2>4. map \in [D \cup {v.signer} -> Verdict] BY <1>2, <2>3
  <2> HIDE DEF r, map
  <2>5. map \in Maps BY <1>2, <2>3, <2>4 DEF Maps
  <2>6. r = [malformed |-> acc.malformed, by |-> map] BY <1>1, <2>1
  <2>7. r \in Accs BY <1>1, <2>5, <2>6 DEF Accs
  <2>8. ~r.malformed /\ r.by = map BY <1>5, <2>6
  <2> QED BY <1>5, <2>2, <2>7, <2>8 DEF r
<1> QED BY <1>3, <1>4, <1>5

LEMMA TallyFold ==
  ASSUME NEW b \in Accs, NEW t \in Seq(Vote)
  PROVE  \E h : /\ FoldLeft(TallyStep, b, t) = h[Len(t)] /\ h[0] = b
                /\ \A k \in 1..Len(t) : h[k] = TallyStep(h[k - 1], t[k])
<1> DEFINE n == Len(t)
           Is(f) == f = [s \in SUBSET (1..n) |->
                           IF s = {} THEN b ELSE TallyStep(f[s \ {Max(s)}], t[Max(s)])]
           f == CHOOSE f : Is(f)
           h == [k \in 0..n |-> f[1..k]]
           step == [p \in Accs \X (1..n) |-> TallyStep(p[1], t[p[2]])]
<1>1. n \in Nat /\ DOMAIN t = 1..n /\ \A i \in 1..n : t[i] \in Vote
  BY LenProperties, ElementOfSeq
<1>2. step \in [Accs \X (1..n) -> Accs]
  BY <1>1, TallyStepIs
<1>3. \E g : Is(g)
  <2> HIDE DEF step, n
  <2>1. PICK g : Table(g, Accs, step, b, n) BY <1>1, <1>2, FoldTable
  <2> QED BY <2>1 DEF Table, step, n
<1>4. Is(f) BY <1>3
<1>5. FoldLeft(TallyStep, b, t) = f[1..n] BY <1>1 DEF FoldLeft, MapThenFoldSet
<1> HIDE DEF f
<1>6. h[0] = b
  <2>1. 1..0 = {} /\ {} \in SUBSET (1..n) OBVIOUS
  <2> QED BY <1>1, <1>4, <2>1
<1>7. ASSUME NEW k \in 1..n PROVE h[k] = TallyStep(h[k - 1], t[k])
  <2>1. /\ 1..k \in SUBSET (1..n) /\ 1..k # {} /\ Max(1..k) = k
        /\ (1..k) \ {k} = 1..(k - 1) /\ k \in 0..n /\ k - 1 \in 0..n
    BY <1>1, Prefix
  <2>2. f[1..k] = TallyStep(f[1..(k - 1)], t[k]) BY <1>4, <2>1
  <2> QED BY <2>1, <2>2
<1>8. h[n] = f[1..n] BY <1>1
<1> QED BY <1>5, <1>6, <1>7, <1>8

(* What the first k votes of a ballot make of it. *)
Spoilt(vs, k, q) ==
  \/ q < 1
  \/ \E i \in 1..k : ~ValidVote(vs[i])
  \/ \E i, j \in 1..k : vs[i].signer = vs[j].signer /\ vs[i].verdict # vs[j].verdict

(* The loop after k votes: abandoned if they are spoilt, and otherwise it knows
   who voted what. *)
Tallied(acc, vs, k, q) ==
  /\ acc \in Accs /\ (acc.malformed <=> Spoilt(vs, k, q))
  /\ ~acc.malformed =>
       /\ DOMAIN acc.by = {vs[i].signer : i \in 1..k}
       /\ \A i \in 1..k : acc.by[vs[i].signer] = vs[i].verdict

(* One more vote is counted: it is spoilt by an invalid vote, or by the second
   of two that disagree. *)
LEMMA TalliedNext ==
  ASSUME NEW acc, NEW vs \in Seq(Vote), NEW k \in 1..Len(vs), NEW q,
         Tallied(acc, vs, k - 1, q)
  PROVE  Tallied(TallyStep(acc, vs[k]), vs, k, q)
<1> DEFINE v == vs[k]
           r == TallyStep(acc, v)
<1>1. v \in Vote /\ k \in Nat \ {0} BY ElementOfSeq, LenProperties
<1>2. \A i : i \in 1..k <=> i \in 1..(k - 1) \/ i = k BY <1>1
<1>3. acc \in Accs /\ (acc.malformed <=> Spoilt(vs, k - 1, q)) BY DEF Tallied
<1>4. /\ r \in Accs /\ (r.malformed <=> acc.malformed \/ Clashes(acc, v))
      /\ ~r.malformed =>
           /\ DOMAIN r.by = DOMAIN acc.by \cup {v.signer}
           /\ r.by[v.signer] = v.verdict
           /\ \A s \in DOMAIN acc.by \ {v.signer} : r.by[s] = acc.by[s]
  BY <1>1, <1>3, TallyStepIs
<1> HIDE DEF r
<1>5. CASE acc.malformed
  <2>1. Spoilt(vs, k, q) BY <1>2, <1>3, <1>5 DEF Spoilt
  <2> QED BY <1>4, <1>5, <2>1 DEF Tallied, r
<1>6. CASE ~acc.malformed
  <2>1. /\ ~(q < 1)
        /\ \A i \in 1..(k - 1) : ValidVote(vs[i])
        /\ DOMAIN acc.by = {vs[i].signer : i \in 1..(k - 1)}
        /\ \A i \in 1..(k - 1) : acc.by[vs[i].signer] = vs[i].verdict
    BY <1>3, <1>6 DEF Spoilt, Tallied
  <2>2. CASE Clashes(acc, v)
    <3>1. CASE ~ValidVote(v)
      <4>1. k \in 1..k BY <1>1
      <4>2. Spoilt(vs, k, q) BY <3>1, <4>1 DEF Spoilt
      <4> QED BY <1>4, <2>2, <4>2 DEF Tallied, r
    <3>2. CASE v.signer \in DOMAIN acc.by /\ acc.by[v.signer] # v.verdict
      <4>1. PICK i \in 1..(k - 1) : vs[i].signer = v.signer BY <2>1, <3>2
      <4>2. vs[i].verdict # v.verdict /\ i \in 1..k /\ k \in 1..k
        BY <1>2, <2>1, <3>2, <4>1
      <4>3. Spoilt(vs, k, q) BY <4>1, <4>2 DEF Spoilt
      <4> QED BY <1>4, <2>2, <4>3 DEF Tallied, r
    <3> QED BY <2>2, <3>1, <3>2 DEF Clashes
  <2>3. CASE ~Clashes(acc, v)
    <3>1. ~r.malformed BY <1>4, <1>6, <2>3
    <3>2. \A i \in 1..k : vs[i].signer \in DOMAIN r.by /\ r.by[vs[i].signer] = vs[i].verdict
      <4> SUFFICES ASSUME NEW i \in 1..k
                   PROVE  vs[i].signer \in DOMAIN r.by /\ r.by[vs[i].signer] = vs[i].verdict
        OBVIOUS
      <4>1. CASE i = k BY <1>4, <3>1, <4>1
      <4>2. CASE i \in 1..(k - 1)
        <5>1. vs[i].signer \in DOMAIN acc.by /\ acc.by[vs[i].signer] = vs[i].verdict
          BY <2>1, <4>2
        <5>2. CASE vs[i].signer = v.signer
          <6>1. vs[i].verdict = v.verdict BY <2>3, <5>1, <5>2 DEF Clashes
          <6> QED BY <1>4, <3>1, <5>2, <6>1
        <5>3. CASE vs[i].signer # v.signer BY <1>4, <3>1, <5>1, <5>3
        <5> QED BY <5>2, <5>3
      <4> QED BY <1>2, <4>1, <4>2
    <3>3. DOMAIN r.by = {vs[i].signer : i \in 1..k} BY <1>2, <1>4, <2>1, <3>1
    <3>4. ~Spoilt(vs, k, q)
      <4>1. \A i \in 1..k : ValidVote(vs[i]) BY <1>2, <2>1, <2>3 DEF Clashes
      <4> QED BY <2>1, <3>2, <4>1 DEF Spoilt
    <3> QED BY <1>4, <3>1, <3>2, <3>3, <3>4 DEF Tallied, r
  <2> QED BY <2>2, <2>3
<1> QED BY <1>5, <1>6

LEMMA TallyIs ==
  ASSUME NEW vs \in Seq(Vote), NEW q
  PROVE  Tallied(FoldLeft(TallyStep, [malformed |-> q < 1, by |-> <<>>], vs),
                 vs, Len(vs), q)
<1> DEFINE b == [malformed |-> q < 1, by |-> <<>>]
<1>1. b \in Accs /\ b.by = <<>> /\ DOMAIN <<>> = {} /\ (b.malformed <=> q < 1)
  <2>1. DOMAIN <<>> = {} OBVIOUS
  <2>2. <<>> \in [{} -> Verdict] OBVIOUS
  <2>3. <<>> \in Maps BY <2>2 DEF Maps
  <2>4. b \in Accs
    <3>1. (q < 1) \in BOOLEAN OBVIOUS
    <3> QED BY <2>3, <3>1 DEF Accs
  <2>5. b.by = <<>> /\ (b.malformed <=> q < 1) OBVIOUS
  <2> QED BY <2>1, <2>4, <2>5
<1>2. Len(vs) \in Nat BY LenProperties
<1> HIDE DEF b
<1>3. PICK h : /\ FoldLeft(TallyStep, b, vs) = h[Len(vs)] /\ h[0] = b
               /\ \A k \in 1..Len(vs) : h[k] = TallyStep(h[k - 1], vs[k])
  BY <1>1, TallyFold
<1>4. \A k \in 0..Len(vs) : Tallied(h[k], vs, k, q)
  <2> DEFINE Bad == {k \in 0..Len(vs) : ~Tallied(h[k], vs, k, q)}
  <2>1. SUFFICES ASSUME Bad # {} PROVE FALSE OBVIOUS
  <2>2. Bad \in SUBSET Nat OBVIOUS
  <2>3. PICK k \in Bad : \A j \in Bad : k <= j BY <2>1, <2>2, Least
  <2>4. CASE k = 0
    <3>1. \A i \in 1..0 : FALSE OBVIOUS
    <3>2. b.malformed <=> Spoilt(vs, 0, q) BY <1>1, <3>1 DEF Spoilt
    <3>3. DOMAIN b.by = {vs[i].signer : i \in 1..0} BY <1>1, <3>1
    <3>4. Tallied(b, vs, 0, q) BY <1>1, <3>1, <3>2, <3>3 DEF Tallied
    <3> QED BY <1>3, <2>3, <2>4, <3>4
  <2>5. CASE k # 0
    <3>1. k \in 1..Len(vs) /\ k - 1 \in 0..Len(vs) /\ ~(k <= k - 1) BY <1>2, <2>3, <2>5
    <3>2. k - 1 \notin Bad BY <2>3, <3>1
    <3>3. Tallied(h[k - 1], vs, k - 1, q) BY <3>1, <3>2
    <3>4. Tallied(TallyStep(h[k - 1], vs[k]), vs, k, q) BY <3>1, <3>3, TalliedNext
    <3>5. Tallied(h[k], vs, k, q) BY <1>3, <3>1, <3>4
    <3> QED BY <2>3, <3>5
  <2> QED BY <2>4, <2>5
<1>5. Len(vs) \in 0..Len(vs) BY <1>2
<1> QED BY <1>3, <1>4, <1>5 DEF b

(* The map-building loop of tally gives the quorum verdict, on every ballot
   and for every threshold: UNKNOWN on a ballot malformed in whatever place,
   and otherwise ALLOW exactly when enough signers approve, each counted once
   however often it votes. *)
THEOREM TallyIsQuorum == Spec => []QuorumIsTally
<1>1. BallotType => QuorumIsTally
  <2> SUFFICES ASSUME BallotType PROVE QuorumIsTally OBVIOUS
  <2> DEFINE acc == Tally
             approved == {s \in DOMAIN acc.by : acc.by[s] = ALLOW}
  <2>1. Tallied(acc, votes, Len(votes), m) BY TallyIs DEF BallotType, Tally
  <2>2. DOMAIN votes = 1..Len(votes) BY VerdictsTyped
  <2> HIDE DEF acc
  <2>3. acc.malformed <=> Malformed(votes, m)
    BY <2>1, <2>2 DEF Tallied, Spoilt, Malformed
  <2>4. ~acc.malformed => approved = Approvals(votes)
    <3> SUFFICES ASSUME ~acc.malformed PROVE approved = Approvals(votes) OBVIOUS
    <3>1. /\ DOMAIN acc.by = {votes[i].signer : i \in 1..Len(votes)}
          /\ \A i \in 1..Len(votes) : acc.by[votes[i].signer] = votes[i].verdict
      BY <2>1 DEF Tallied
    <3> QED BY <2>2, <3>1 DEF Approvals
  <2> HIDE DEF approved
  <2>5. QuorumVerdict(votes, m) =
          IF acc.malformed THEN UNKNOWN
          ELSE IF Cardinality(approved) >= m THEN ALLOW ELSE DENY
    BY <2>3, <2>4 DEF QuorumVerdict
  <2> QED BY <2>5 DEF QuorumIsTally, acc, approved
<1> QED BY <1>1, BallotsTyped, PTL
=============================================================================
