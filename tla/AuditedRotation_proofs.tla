------------------------ MODULE AuditedRotation_proofs ------------------------
(***************************************************************************)
(* The audit writer, for any options, epochs, and number of records and    *)
(* writers, with appends that may tear: first its invariant, then that it  *)
(* implements the audit trail; last the writer joined to the rotation of   *)
(* its keys.  A call is proved about as it is modelled, by what it makes   *)
(* of a writer and a ledger (Good, Moved): flush keeps it, and push,       *)
(* adoptEpoch and the constructor lean on that.                            *)
(***************************************************************************)
EXTENDS AuditedRotation, SequenceTheorems, WellFoundedInduction, TLAPS

-----------------------------------------------------------------------------
(* What FlattenSeq computes: behind a longer sequence comes its last element.
   The function it is defined by exists, and those of a sequence and of what
   extends it agree; both by the least place where they would not. *)

LEMMA Least ==
  ASSUME NEW S \in SUBSET Nat, S # {}
  PROVE  \E m \in S : \A n \in S : m <= n
<1>1. PICK m \in S : \A n \in S : <<n, m>> \notin OpToRel(<, Nat)
  BY WFMin, NatLessThanWellFounded, Zenon
<1>2. \A n \in S : ~(n < m) BY <1>1 DEF OpToRel
<1> QED BY <1>2

(* The running concatenation that FlattenSeq computes. *)
Running(f, s, n) ==
  f = [i \in 1..n |-> IF i = 1 THEN s[i] ELSE f[i - 1] \o s[i]]

LEMMA RunningExists ==
  ASSUME NEW s, NEW n \in Nat
  PROVE  \E f : Running(f, s, n)
<1> DEFINE Bad == {k \in Nat : ~\E f : Running(f, s, k)}
<1>1. SUFFICES ASSUME Bad # {} PROVE FALSE OBVIOUS
<1>2. PICK k \in Bad : \A j \in Bad : k <= j BY <1>1, Least
<1>3. CASE k = 0
  <2>1. Running([i \in 1..0 |-> 0], s, 0) BY DEF Running
  <2> QED BY <1>2, <1>3, <2>1
<1>4. CASE k # 0
  <2>1. k - 1 \in Nat /\ k - 1 \notin Bad BY <1>2, <1>4
  <2>2. PICK f : Running(f, s, k - 1) BY <2>1
  <2> DEFINE g == [i \in 1..k |->
                     IF i \in 1..(k - 1) THEN f[i]
                     ELSE IF i = 1 THEN s[i] ELSE f[i - 1] \o s[i]]
  <2>3. ASSUME NEW i \in 1..k
        PROVE  g[i] = IF i = 1 THEN s[i] ELSE g[i - 1] \o s[i]
    <3>1. i # 1 => i - 1 \in 1..(k - 1) /\ i - 1 \in 1..k BY <1>4
    <3>2. i # 1 => g[i - 1] = f[i - 1] BY <3>1
    <3>3. CASE i \in 1..(k - 1) BY <2>2, <3>2, <3>3 DEF Running
    <3>4. CASE i \notin 1..(k - 1) BY <3>2, <3>4
    <3> QED BY <3>3, <3>4
  <2>4. Running(g, s, k) BY <2>3 DEF Running
  <2> QED BY <1>2, <2>4
<1> QED BY <1>3, <1>4

Flattens(f, s, n) == Running(f, s, n) /\ FlattenSeq(s) = f[n]

LEMMA FlattenIs ==
  ASSUME NEW s, NEW n \in Nat, n # 0, Len(s) = n
  PROVE  \E f : Flattens(f, s, n)
<1> DEFINE f == CHOOSE f : Running(f, s, n)
<1>1. Running(f, s, n) BY RunningExists
<1>2. FlattenSeq(s) = f[n] BY DEF FlattenSeq, Running
<1> HIDE DEF f
<1>3. Flattens(f, s, n) BY <1>1, <1>2 DEF Flattens
<1> QED BY <1>3

SameUpTo(a, b, n) == \A i \in 1..n : a[i] = b[i]

LEMMA RunningAgree ==
  ASSUME NEW f, NEW g, NEW s, NEW t, NEW n \in Nat, NEW k \in Nat, n <= k,
         Running(f, s, n), Running(g, t, k), SameUpTo(t, s, n)
  PROVE  SameUpTo(g, f, n)
<1> DEFINE Bad == {i \in 1..n : g[i] # f[i]}
<1> SUFFICES ASSUME Bad # {} PROVE FALSE BY DEF SameUpTo
<1>1. Bad \in SUBSET Nat OBVIOUS
<1>2. PICK i \in Bad : \A j \in Bad : i <= j BY <1>1, Least
<1>3. /\ f[i] = IF i = 1 THEN s[i] ELSE f[i - 1] \o s[i]
      /\ g[i] = IF i = 1 THEN t[i] ELSE g[i - 1] \o t[i]
  <2>1. i \in 1..n /\ i \in 1..k BY <1>2
  <2>2. f[i] = IF i = 1 THEN s[i] ELSE f[i - 1] \o s[i] BY <2>1 DEF Running
  <2>3. g[i] = IF i = 1 THEN t[i] ELSE g[i - 1] \o t[i] BY <2>1 DEF Running
  <2> QED BY <2>2, <2>3
<1>4. i # 1 => g[i - 1] = f[i - 1]
  <2>1. i # 1 => i - 1 \in 1..n /\ i - 1 \notin Bad BY <1>2
  <2> QED BY <2>1
<1>5. t[i] = s[i] BY <1>2 DEF SameUpTo
<1> QED BY <1>2, <1>3, <1>4, <1>5

LEMMA RunningType ==
  ASSUME NEW f, NEW S, NEW s \in Seq(Seq(S)), Running(f, s, Len(s))
  PROVE  \A i \in 1..Len(s) : f[i] \in Seq(S)
<1> DEFINE Bad == {i \in 1..Len(s) : f[i] \notin Seq(S)}
<1> SUFFICES ASSUME Bad # {} PROVE FALSE OBVIOUS
<1>1. Bad \in SUBSET Nat OBVIOUS
<1>2. PICK i \in Bad : \A j \in Bad : i <= j BY <1>1, Least
<1>3. f[i] = IF i = 1 THEN s[i] ELSE f[i - 1] \o s[i] BY <1>2 DEF Running
<1>4. s[i] \in Seq(S) BY <1>2, ElementOfSeq
<1>5. i # 1 => f[i - 1] \in Seq(S)
  <2>1. i # 1 => i - 1 \in 1..Len(s) /\ i - 1 \notin Bad BY <1>2
  <2> QED BY <2>1
<1>6. i # 1 => f[i - 1] \o s[i] \in Seq(S) BY <1>4, <1>5, ConcatProperties
<1>7. f[i] \in Seq(S) BY <1>3, <1>4, <1>6
<1> QED BY <1>2, <1>7

LEMMA FlattenAppend ==
  ASSUME NEW S, NEW s \in Seq(Seq(S)), NEW x \in Seq(S)
  PROVE  /\ FlattenSeq(s) \in Seq(S)
         /\ FlattenSeq(Append(s, x)) = FlattenSeq(s) \o x
<1> DEFINE n == Len(s)
           t == Append(s, x)
<1>1. /\ n \in Nat /\ t \in Seq(Seq(S)) /\ Len(t) = n + 1 /\ t[n + 1] = x
      /\ \A i \in 1..n : t[i] = s[i]
  BY AppendProperties, LenProperties
<1> HIDE DEF t
<1>2. PICK g : Running(g, t, n + 1) /\ FlattenSeq(t) = g[n + 1]
  <2>1. n + 1 \in Nat /\ n + 1 # 0 BY <1>1
  <2>2. PICK g : Flattens(g, t, n + 1) BY <1>1, <2>1, FlattenIs
  <2> QED BY <2>2 DEF Flattens
<1>3. CASE n = 0
  <2>1. s = <<>> BY <1>3, EmptySeq
  <2>2. FlattenSeq(s) = <<>> BY <1>3, <2>1 DEF FlattenSeq
  <2>3. g[1] = x BY <1>1, <1>2, <1>3 DEF Running
  <2> QED BY <1>2, <1>3, <2>2, <2>3, ConcatEmptySeq DEF t
<1>4. CASE n # 0
  <2>1. PICK f : Running(f, s, n) /\ FlattenSeq(s) = f[n]
    <3>1. PICK f : Flattens(f, s, n) BY <1>1, <1>4, FlattenIs
    <3> QED BY <3>1 DEF Flattens
  <2>2. f[n] \in Seq(S) BY <1>1, <1>4, <2>1, RunningType
  <2>3. g[n] = f[n]
    <3> DEFINE k == n + 1
    <3>1. n \in Nat /\ k \in Nat /\ n <= k /\ n \in 1..n BY <1>1, <1>4
    <3>2. Running(f, s, n) /\ Running(g, t, k) /\ SameUpTo(t, s, n)
      BY <1>1, <1>2, <2>1 DEF SameUpTo
    <3> HIDE DEF n, k
    <3>3. SameUpTo(g, f, n) BY <3>1, <3>2, RunningAgree
    <3> QED BY <3>1, <3>3 DEF SameUpTo
  <2>4. g[n + 1] = g[n] \o x
    <3>1. n + 1 \in 1..(n + 1) /\ n + 1 # 1 /\ (n + 1) - 1 = n BY <1>1, <1>4
    <3>2. g[n + 1] = IF n + 1 = 1 THEN t[n + 1] ELSE g[(n + 1) - 1] \o t[n + 1]
      BY <1>2, <3>1 DEF Running
    <3> QED BY <1>1, <3>1, <3>2
  <2> QED BY <1>2, <2>1, <2>2, <2>3, <2>4 DEF t
<1> QED BY <1>3, <1>4

LEMMA AppendBehind ==
  ASSUME NEW S, NEW a \in Seq(S), NEW c \in Seq(S), NEW e \in S
  PROVE  a \o Append(c, e) = Append(a \o c, e)
<1>1. <<e>> \in Seq(S) /\ a \o c \in Seq(S) BY ConcatProperties
<1>2. Append(c, e) = c \o <<e>> /\ Append(a \o c, e) = (a \o c) \o <<e>>
  BY <1>1, AppendIsConcat
<1> QED BY <1>1, <1>2, ConcatAssociative

-----------------------------------------------------------------------------
(* The writer *)

USE EgressAssumption

Writer(m) ==
  /\ m = [f \in {"batchSize", "capacity", "pending", "seq", "head", "epoch"} |-> m[f]]
  /\ m.batchSize \in BatchSizes /\ m.capacity \in Capacities
  /\ m.pending \in Seq(Nat) /\ Len(m.pending) <= m.capacity
  /\ m.epoch \in Epochs \cup {Legacy}
  /\ m.seq \in Nat /\ (m.seq = 0 <=> m.head = GENESIS)

(* Records, named by the places of `o`, sealed under the epoch of their push. *)
Sealing(records, epoch, o) ==
  /\ records \in Seq(1..Len(o))
  /\ \A k \in DOMAIN records : epoch = o[records[k]]

Lines(l, o) ==
  /\ l \in Seq(ToSet(l))
  /\ \A i \in DOMAIN l : Sealing(l[i].records, l[i].epoch, o)

(* Line i is the next batch of the writer that began after line b. *)
Link(l, b, i) ==
  /\ DOMAIN l[i] = {"seq", "prev", "records", "epoch", "hash"}
  /\ l[i].seq = i - b - 1
  /\ l[i].prev = IF i = b + 1 THEN GENESIS ELSE l[i - 1].hash
  /\ l[i].hash = Mac(l[i].epoch, l[i].epoch, l[i].seq, l[i].prev, l[i].records)
  /\ l[i].epoch \in Epochs \cup {Legacy}
  /\ i > b + 1 => l[i].epoch >= l[i - 1].epoch
  /\ l[i].records # <<>>

(* The writer stands at the end of its chain. *)
AtEnd(m, l, b) ==
  /\ m.seq = Len(l) - b
  /\ m.head = IF Len(l) = b THEN GENESIS ELSE l[Len(l)].hash
  /\ Len(l) > b => m.epoch >= l[Len(l)].epoch

Chained(m, l, b) ==
  Readable(l) => AtEnd(m, l, b) /\ \A i \in (b + 1)..Len(l) : Link(l, b, i)

Good(m, l, b, o) ==
  /\ Writer(m) /\ Sealing(m.pending, m.epoch, o)
  /\ Lines(l, o) /\ b \in 0..Len(l)
  /\ Chained(m, l, b)

EgressInv ==
  /\ offered \in Seq(Epochs \cup {Legacy}) /\ Len(offered) <= MaxRecords
  /\ Good(mem, ledger, base, offered)

-----------------------------------------------------------------------------
(* Lines *)

LEMMA Appended ==
  ASSUME NEW l, l \in Seq(ToSet(l)), NEW x
  PROVE  /\ Append(l, x) \in Seq(ToSet(Append(l, x))) /\ Len(Append(l, x)) = Len(l) + 1
         /\ \A i \in DOMAIN l : Append(l, x)[i] = l[i]
         /\ Append(l, x)[Len(l) + 1] = x
         /\ DOMAIN l = 1..Len(l) /\ DOMAIN Append(l, x) = 1..(Len(l) + 1)
<1> DEFINE S == ToSet(l) \cup {x}
<1>1. l \in Seq(S) /\ x \in S
  <2>1. ToSet(l) \subseteq S OBVIOUS
  <2> QED BY <2>1, SeqMonotonic
<1>2. /\ Append(l, x) \in Seq(S) /\ Len(Append(l, x)) = Len(l) + 1
      /\ \A i \in 1..Len(l) : Append(l, x)[i] = l[i]
      /\ Append(l, x)[Len(l) + 1] = x
  <2> HIDE DEF S
  <2> QED BY <1>1, AppendProperties
<1>3. DOMAIN l = 1..Len(l) /\ DOMAIN Append(l, x) = 1..(Len(l) + 1)
  BY <1>1, <1>2, LenProperties
<1> DEFINE a == Append(l, x)
<1> HIDE DEF a, S
<1>4. a \in Seq(ToSet(a)) BY <1>2, LenProperties, IsASeq DEF ToSet, a
<1> QED BY <1>2, <1>3, <1>4 DEF a

LEMMA Replaced ==
  ASSUME NEW l, l \in Seq(ToSet(l)), l # <<>>, NEW x
  PROVE  LET g == [l EXCEPT ![Len(l)] = x] IN
         /\ g \in Seq(ToSet(g)) /\ Len(g) = Len(l) /\ Len(l) \in DOMAIN g
         /\ DOMAIN g = DOMAIN l /\ g[Len(l)] = x
         /\ \A i \in DOMAIN l \ {Len(l)} : g[i] = l[i]
<1> DEFINE g == [l EXCEPT ![Len(l)] = x]
<1>1. Len(l) \in Nat /\ DOMAIN l = 1..Len(l) /\ Len(l) # 0
  BY LenProperties, EmptySeq
<1>2. DOMAIN g = 1..Len(l) /\ g[Len(l)] = x /\ \A i \in DOMAIN l \ {Len(l)} : g[i] = l[i]
  BY <1>1
<1>3. g = [i \in 1..Len(l) |-> g[i]] BY <1>2
<1> HIDE DEF g
<1>4. g \in Seq(ToSet(g)) /\ Len(g) = Len(l)
  BY <1>1, <1>2, <1>3, IsASeq, LenProperties DEF ToSet
<1> QED BY <1>1, <1>2, <1>4 DEF g

LEMMA NoRecords ==
  ASSUME NEW o, NEW epoch PROVE Sealing(<<>>, epoch, o)
BY EmptySeq DEF Sealing

LEMMA LineAppended ==
  ASSUME NEW l, NEW o, Lines(l, o), NEW x, Sealing(x.records, x.epoch, o)
  PROVE  /\ Lines(AppendLine(l, x), o)
         /\ Len(l) \in Nat /\ Len(AppendLine(l, x)) \in Nat /\ Len(l) <= Len(AppendLine(l, x))
         /\ Readable(AppendLine(l, x)) =>
              Readable(l) /\ AppendLine(l, x) = Append(l, x) /\ x # Fragment
<1>1. l \in Seq(ToSet(l)) /\ Len(l) \in Nat BY LenProperties DEF Lines
<1>2. CASE Torn(l)
  <2> DEFINE g == [l EXCEPT ![Len(l)] = Garbled]
  <2>1. AppendLine(l, x) = g BY <1>2 DEF AppendLine
  <2>2. /\ g \in Seq(ToSet(g)) /\ Len(g) = Len(l) /\ DOMAIN g = DOMAIN l
        /\ Len(l) \in DOMAIN g /\ g[Len(l)] = Garbled
        /\ \A i \in DOMAIN l \ {Len(l)} : g[i] = l[i]
    BY <1>1, <1>2, Replaced DEF Torn
  <2> HIDE DEF g
  <2>3. Sealing(Garbled.records, Garbled.epoch, o) BY NoRecords DEF Garbled, NoBatch
  <2>4. Lines(g, o) BY <2>2, <2>3 DEF Lines
  <2>5. ~Readable(g) BY <2>2 DEF Readable
  <2>6. Lines(AppendLine(l, x), o) /\ ~Readable(AppendLine(l, x)) BY <2>1, <2>4, <2>5
  <2>7. Len(AppendLine(l, x)) = Len(l) BY <2>1, <2>2
  <2> QED BY <1>1, <2>6, <2>7
<1>3. CASE ~Torn(l)
  <2> DEFINE a == Append(l, x)
  <2>1. AppendLine(l, x) = a BY <1>3 DEF AppendLine
  <2>2. /\ a \in Seq(ToSet(a)) /\ Len(a) = Len(l) + 1 /\ a[Len(l) + 1] = x
        /\ \A i \in DOMAIN l : a[i] = l[i]
        /\ DOMAIN l = 1..Len(l) /\ DOMAIN a = 1..(Len(l) + 1)
    BY <1>1, Appended
  <2> HIDE DEF a
  <2>3. \A i \in DOMAIN a : i \in DOMAIN l \/ i = Len(l) + 1 BY <1>1, <2>2
  <2>4. Lines(a, o) BY <2>2, <2>3 DEF Lines
  <2>5. Readable(a) => Readable(l) /\ x # Fragment
    <3>1. DOMAIN l \subseteq DOMAIN a /\ Len(l) + 1 \in DOMAIN a BY <1>1, <2>2
    <3> QED BY <2>2, <3>1 DEF Readable
  <2> QED BY <1>1, <2>1, <2>2, <2>4, <2>5 DEF a
<1> QED BY <1>2, <1>3

LEMMA FailureLeaves ==
  ASSUME NEW l, NEW o, Lines(l, o), NEW torn \in FailedAppend(l)
  PROVE  /\ Lines(torn, o) /\ Len(l) \in Nat /\ Len(torn) \in Nat /\ Len(l) <= Len(torn)
         /\ Readable(torn) => torn = l
<1>1. l \in Seq(ToSet(l)) /\ Len(l) \in Nat BY LenProperties DEF Lines
<1>2. torn = l \/ (~Torn(l) /\ torn = Append(l, Fragment)) BY DEF FailedAppend
<1>3. CASE torn = l BY <1>1, <1>3
<1>4. CASE ~Torn(l) /\ torn = Append(l, Fragment)
  <2>1. AppendLine(l, Fragment) = torn BY <1>4 DEF AppendLine
  <2>2. Sealing(Fragment.records, Fragment.epoch, o) BY NoRecords DEF Fragment, NoBatch
  <2> QED BY <2>1, <2>2, LineAppended
<1> QED BY <1>2, <1>3, <1>4

-----------------------------------------------------------------------------
(* Calls *)

LEMMA SealedIs ==
  ASSUME NEW m, Writer(m)
  PROVE  /\ Writer(Sealed(m)) /\ Sealed(m).pending = <<>> /\ Sealed(m).seq = m.seq + 1
         /\ Sealed(m).head = Batch(m).hash /\ Sealed(m).epoch = m.epoch
         /\ Sealed(m).capacity = m.capacity /\ Sealed(m).batchSize = m.batchSize
<1> DEFINE h == Batch(m).hash
<1>1. h # GENESIS BY DEF Batch, Mac, GENESIS
<1> HIDE DEF h
<1>2. Sealed(m) = [m EXCEPT !.pending = <<>>, !.seq = @ + 1, !.head = h] BY DEF Sealed, h
<1>3. <<>> \in Seq(Nat) /\ Len(<<>>) = 0 BY EmptySeq
<1> DEFINE s == [m EXCEPT !.pending = <<>>, !.seq = @ + 1, !.head = h]
<1>4. /\ s.pending = <<>> /\ s.seq = m.seq + 1 /\ s.head = h /\ s.epoch = m.epoch
      /\ s.capacity = m.capacity /\ s.batchSize = m.batchSize
      /\ s = [f \in {"batchSize", "capacity", "pending", "seq", "head", "epoch"} |-> s[f]]
  BY DEF Writer
<1> HIDE DEF s
<1>5. m.seq + 1 \in Nat /\ m.seq + 1 # 0 /\ m.capacity \in Nat BY DEF Writer
<1>6. Writer(s) BY <1>1, <1>3, <1>4, <1>5 DEF Writer
<1> QED BY <1>2, <1>4, <1>6 DEF h, s

LEMMA EpochsAreNumbers ==
  ASSUME NEW e \in Epochs \cup {Legacy} PROVE e \in Nat
BY EgressAssumption DEF Legacy

LEMMA BatchIsLinked ==
  ASSUME NEW m, NEW l, NEW b, NEW o, Good(m, l, b, o), m.pending # <<>>,
         Readable(l), NEW a, a = Append(l, Batch(m))
  PROVE  AtEnd(Sealed(m), a, b) /\ \A i \in (b + 1)..Len(a) : Link(a, b, i)
<1> DEFINE x == Batch(m)
<1>1. /\ Len(l) \in Nat /\ Len(a) = Len(l) + 1 /\ a[Len(l) + 1] = x
      /\ \A i \in 1..Len(l) : a[i] = l[i]
  BY Appended, LenProperties DEF Good, Lines
<1>2. /\ DOMAIN x = {"seq", "prev", "records", "epoch", "hash"}
      /\ x.seq = m.seq /\ x.prev = m.head /\ x.records = m.pending /\ x.epoch = m.epoch
      /\ x.hash = Mac(m.epoch, m.epoch, m.seq, m.head, m.pending)
  BY DEF Batch
<1>3. /\ Sealed(m).seq = m.seq + 1 /\ Sealed(m).head = x.hash /\ Sealed(m).epoch = m.epoch
      /\ m.epoch \in Epochs \cup {Legacy} /\ m.epoch \in Nat
  <2>1. Writer(m) BY DEF Good
  <2>2. m.epoch \in Epochs \cup {Legacy} BY <2>1 DEF Writer
  <2>3. m.epoch \in Nat BY <2>2, EpochsAreNumbers
  <2> QED BY <2>1, <2>2, <2>3, SealedIs
<1> HIDE DEF x
<1>4. /\ AtEnd(m, l, b) /\ b \in 0..Len(l)
      /\ \A i \in (b + 1)..Len(l) : Link(l, b, i)
  BY DEF Good, Chained
<1>5. AtEnd(Sealed(m), a, b)
  BY <1>1, <1>2, <1>3, <1>4 DEF AtEnd
<1>6. Link(a, b, Len(l) + 1)
  <2>1. x.prev = IF Len(l) + 1 = b + 1 THEN GENESIS ELSE a[Len(l)].hash
    BY <1>1, <1>2, <1>4 DEF AtEnd
  <2>2. Len(l) + 1 > b + 1 => x.epoch >= a[Len(l)].epoch
    BY <1>1, <1>2, <1>4 DEF AtEnd
  <2> QED BY <1>1, <1>2, <1>3, <1>4, <2>1, <2>2 DEF Link, AtEnd
<1>7. ASSUME NEW i \in (b + 1)..Len(l) PROVE Link(a, b, i)
  <2>1. a[i] = l[i] /\ (i > b + 1 => a[i - 1] = l[i - 1]) /\ Link(l, b, i)
    BY <1>1, <1>4
  <2> QED BY <1>4, <2>1 DEF Link
<1>8. \A i \in (b + 1)..Len(a) : i \in (b + 1)..Len(l) \/ i = Len(l) + 1
  BY <1>1, <1>4
<1> QED BY <1>5, <1>6, <1>7, <1>8

(* A flush leaves a good writer and ledger, under the same epoch; if it
   returned, nothing is staged any more, and if it threw, all still is. *)
LEMMA FlushKeeps ==
  ASSUME NEW m, NEW l, NEW b, NEW o, Good(m, l, b, o), NEW res \in Flush(m, l)
  PROVE  /\ Good(res.mem, res.ledger, b, o) /\ res.mem.epoch = m.epoch
         /\ res = Result(res.mem, res.ledger, res.ok) /\ res.ok \in BOOLEAN
         /\ IF res.ok THEN res.mem.pending = <<>> ELSE res.mem = m
<1>1. CASE m.pending = <<>>
  <2>1. res = Result(m, l, TRUE) BY <1>1 DEF Flush
  <2> QED BY <1>1, <2>1 DEF Result
<1>2. CASE m.pending # <<>> /\ res = Result(Sealed(m), AppendLine(l, Batch(m)), TRUE)
  <2> DEFINE a == AppendLine(l, Batch(m))
  <2>1. Sealing(Batch(m).records, Batch(m).epoch, o) BY DEF Good, Batch
  <2>2. /\ Lines(a, o) /\ Len(l) \in Nat /\ Len(a) \in Nat /\ Len(l) <= Len(a)
        /\ Readable(a) => Readable(l) /\ a = Append(l, Batch(m))
    BY <2>1, LineAppended DEF Good
  <2> HIDE DEF a
  <2>3. Chained(Sealed(m), a, b) BY <1>2, <2>2, BatchIsLinked DEF Chained
  <2>4. Writer(Sealed(m)) /\ Sealed(m).pending = <<>> /\ Sealed(m).epoch = m.epoch
    BY SealedIs DEF Good
  <2>5. b \in 0..Len(a) BY <2>2 DEF Good
  <2>6. Good(Sealed(m), a, b, o) BY <2>2, <2>3, <2>4, <2>5, NoRecords DEF Good
  <2>7. /\ res.mem = Sealed(m) /\ res.ledger = a /\ res.ok = TRUE
        /\ res = Result(res.mem, res.ledger, res.ok)
    BY <1>2 DEF Result, a
  <2> QED BY <2>4, <2>6, <2>7
<1>3. CASE \E torn \in FailedAppend(l) : res = Result(m, torn, FALSE)
  <2>1. PICK torn \in FailedAppend(l) : res = Result(m, torn, FALSE) BY <1>3
  <2>2. /\ Lines(torn, o) /\ Len(l) \in Nat /\ Len(torn) \in Nat /\ Len(l) <= Len(torn)
        /\ Readable(torn) => torn = l
    BY FailureLeaves DEF Good
  <2>3. Chained(m, torn, b) BY <2>2 DEF Good, Chained
  <2>4. b \in 0..Len(torn) BY <2>2 DEF Good
  <2>5. Good(m, torn, b, o) BY <2>2, <2>3, <2>4 DEF Good
  <2>6. /\ res.mem = m /\ res.ledger = torn /\ res.ok = FALSE
        /\ res = Result(res.mem, res.ledger, res.ok)
    BY <2>1 DEF Result
  <2> QED BY <2>5, <2>6
<1> QED BY <1>1, <1>2, <1>3 DEF Flush

LEMMA SealingGrows ==
  ASSUME NEW o \in Seq(Epochs \cup {Legacy}), NEW e \in Epochs \cup {Legacy}
  PROVE  /\ Append(o, e) \in Seq(Epochs \cup {Legacy})
         /\ Len(o) \in Nat /\ Len(Append(o, e)) = Len(o) + 1 /\ Append(o, e)[Len(o) + 1] = e
         /\ \A records, epoch : Sealing(records, epoch, o) => Sealing(records, epoch, Append(o, e))
<1> DEFINE p == Append(o, e)
<1>1. /\ p \in Seq(Epochs \cup {Legacy}) /\ Len(p) = Len(o) + 1 /\ p[Len(o) + 1] = e
      /\ \A i \in 1..Len(o) : p[i] = o[i] /\ Len(o) \in Nat
  BY AppendProperties, LenProperties
<1>2. Len(o) \in Nat BY LenProperties
<1> HIDE DEF p
<1>3. ASSUME NEW records, NEW epoch, Sealing(records, epoch, o)
      PROVE  Sealing(records, epoch, p)
  <2>1. records \in Seq(1..Len(o)) BY <1>3 DEF Sealing
  <2>2. 1..Len(o) \subseteq 1..Len(p) BY <1>1, <1>2
  <2>3. records \in Seq(1..Len(p)) BY <2>1, <2>2, SeqMonotonic
  <2>4. \A k \in DOMAIN records : records[k] \in 1..Len(o)
    BY <2>1, LenProperties, ElementOfSeq
  <2> QED BY <1>1, <1>3, <2>3, <2>4 DEF Sealing
<1> QED BY <1>1, <1>2, <1>3 DEF p

LEMMA OfferKeeps ==
  ASSUME NEW m, NEW l, NEW b, NEW o \in Seq(Epochs \cup {Legacy}),
         NEW e \in Epochs \cup {Legacy}, Good(m, l, b, o)
  PROVE  Good(m, l, b, Append(o, e))
BY SealingGrows DEF Good, Lines

LEMMA StageKeeps ==
  ASSUME NEW m, NEW l, NEW b, NEW o \in Seq(Epochs \cup {Legacy}),
         Good(m, l, b, o), HasRoom(m)
  PROVE  Good(Stage(m, Len(o) + 1), l, b, Append(o, m.epoch))
<1> DEFINE n == Len(o) + 1
           p == Append(o, m.epoch)
           s == Append(m.pending, n)
           w == Stage(m, n)
<1>1. Writer(m) /\ m.epoch \in Epochs \cup {Legacy} BY DEF Good, Writer
<1>2. /\ Good(m, l, b, p) /\ n \in 1..Len(p) /\ p[n] = m.epoch
  <2>1. Good(m, l, b, p) BY <1>1, OfferKeeps
  <2>2. Len(o) \in Nat /\ Len(p) = n /\ p[n] = m.epoch BY <1>1, SealingGrows
  <2> HIDE DEF p
  <2> QED BY <2>1, <2>2
<1>3. /\ m.pending \in Seq(1..Len(p)) /\ m.pending \in Seq(Nat)
      /\ \A k \in DOMAIN m.pending : m.epoch = p[m.pending[k]]
  BY <1>2, <1>1 DEF Good, Sealing, Writer
<1>4. /\ w.pending = s /\ w.seq = m.seq /\ w.head = m.head /\ w.epoch = m.epoch
      /\ w.capacity = m.capacity /\ w.batchSize = m.batchSize
      /\ w = [f \in {"batchSize", "capacity", "pending", "seq", "head", "epoch"} |-> w[f]]
  BY <1>1 DEF Writer, Stage
<1> HIDE DEF p, n, w
<1>5. /\ s \in Seq(1..Len(p)) /\ Len(s) = Len(m.pending) + 1 /\ Len(m.pending) \in Nat
      /\ \A k \in 1..Len(m.pending) : s[k] = m.pending[k]
      /\ s[Len(m.pending) + 1] = n
      /\ DOMAIN s = 1..Len(s) /\ DOMAIN m.pending = 1..Len(m.pending)
  BY <1>2, <1>3, AppendProperties, LenProperties
<1>6. n \in Nat /\ s \in Seq(Nat) BY <1>2, <1>3, AppendProperties
<1> HIDE DEF s
<1>7. m.capacity \in Nat /\ Len(s) <= m.capacity
  BY <1>1, <1>5 DEF Writer, HasRoom
<1>8. Writer(w) BY <1>1, <1>4, <1>6, <1>7 DEF Writer
<1>9. Sealing(s, m.epoch, p)
  <2>1. \A k \in DOMAIN s : k \in 1..Len(m.pending) \/ k = Len(m.pending) + 1 BY <1>5
  <2> QED BY <1>2, <1>3, <1>5, <2>1 DEF Sealing
<1>10. AtEnd(m, l, b) => AtEnd(w, l, b) BY <1>4 DEF AtEnd
<1> QED BY <1>2, <1>4, <1>8, <1>9, <1>10 DEF Good, Chained, w, n, p

LEMMA PushKeeps ==
  ASSUME NEW m, NEW l, NEW b, NEW o \in Seq(Epochs \cup {Legacy}),
         Good(m, l, b, o), NEW res \in Push(m, l, Len(o) + 1)
  PROVE  Good(res.mem, res.ledger, b, Append(o, m.epoch))
<1> DEFINE p == Append(o, m.epoch)
<1>1. m.epoch \in Epochs \cup {Legacy} BY DEF Good, Writer
<1>2. ASSUME NEW w, NEW k, Good(w, k, b, p), NEW f \in FlushIfDue(w, k)
      PROVE  Good(f.mem, f.ledger, b, p)
  <2>1. CASE f \in Flush(w, k) BY <1>2, <2>1, FlushKeeps
  <2>2. CASE f = Result(w, k, TRUE) BY <1>2, <2>2 DEF Result
  <2> QED BY <2>1, <2>2 DEF FlushIfDue
<1>3. CASE HasRoom(m)
  BY <1>2, <1>3, StageKeeps DEF Push
<1>4. CASE ~HasRoom(m)
  <2>1. PICK f \in Flush(m, l) :
          res \in IF f.ok THEN FlushIfDue(Stage(f.mem, Len(o) + 1), f.ledger) ELSE {f}
    BY <1>4 DEF Push
  <2>2. /\ Good(f.mem, f.ledger, b, o) /\ f.mem.epoch = m.epoch
        /\ f.ok => f.mem.pending = <<>>
    BY FlushKeeps
  <2>3. CASE f.ok
    <3>1. HasRoom(f.mem) BY <2>2, <2>3, EmptySeq DEF HasRoom, Good, Writer
    <3>2. Good(Stage(f.mem, Len(o) + 1), f.ledger, b, p) BY <2>2, <3>1, StageKeeps
    <3> QED BY <1>2, <2>1, <2>3, <3>2
  <2>4. CASE ~f.ok
    BY <1>1, <2>1, <2>2, <2>4, OfferKeeps
  <2> QED BY <2>3, <2>4
<1> QED BY <1>3, <1>4

LEMMA AdoptKeeps ==
  ASSUME NEW m, NEW l, NEW b, NEW o, Good(m, l, b, o), NEW epoch, CanAdopt(m, epoch),
         NEW res \in Adopt(m, l, epoch)
  PROVE  Good(res.mem, res.ledger, b, o)
<1>1. PICK f \in Flush(m, l) : res = IF f.ok THEN [f EXCEPT !.mem.epoch = epoch] ELSE f
  BY DEF Adopt
<1>2. /\ Good(f.mem, f.ledger, b, o) /\ f.mem.epoch = m.epoch
      /\ f = Result(f.mem, f.ledger, f.ok)
      /\ f.ok => f.mem.pending = <<>>
  BY FlushKeeps
<1>3. CASE ~f.ok BY <1>1, <1>2, <1>3
<1>4. CASE f.ok
  <2> DEFINE w == [f.mem EXCEPT !.epoch = epoch]
  <2>1. res.mem = w /\ res.ledger = f.ledger
    BY <1>1, <1>2, <1>4 DEF Result
  <2>2. Writer(f.mem) BY <1>2 DEF Good
  <2>3. /\ w.pending = <<>> /\ w.seq = f.mem.seq /\ w.head = f.mem.head /\ w.epoch = epoch
        /\ w.capacity = f.mem.capacity /\ w.batchSize = f.mem.batchSize
        /\ w = [x \in {"batchSize", "capacity", "pending", "seq", "head", "epoch"} |-> w[x]]
    BY <1>2, <1>4, <2>2 DEF Writer
  <2> HIDE DEF w
  <2>4. Writer(w) /\ Sealing(w.pending, w.epoch, o)
    BY <1>2, <1>4, <2>2, <2>3, NoRecords DEF Writer, CanAdopt
  <2>5. ASSUME Readable(f.ledger) PROVE AtEnd(w, f.ledger, b)
    <3>1. AtEnd(f.mem, f.ledger, b) BY <1>2, <2>5 DEF Good, Chained
    <3>2. Len(f.ledger) > b => f.ledger[Len(f.ledger)].epoch \in Nat
      <4>1. b \in 0..Len(f.ledger) /\ Len(f.ledger) \in Nat
        BY <1>2, LenProperties DEF Good, Lines
      <4>2. \A i \in (b + 1)..Len(f.ledger) : f.ledger[i].epoch \in Epochs \cup {Legacy}
        BY <1>2, <2>5 DEF Good, Chained, Link
      <4>3. Len(f.ledger) > b => Len(f.ledger) \in (b + 1)..Len(f.ledger) BY <4>1
      <4> QED BY <4>2, <4>3, EpochsAreNumbers
    <3>3. epoch > f.mem.epoch /\ epoch \in Nat /\ f.mem.epoch \in Nat
      <4>1. epoch > m.epoch /\ epoch \in Nat BY EpochsAreNumbers DEF CanAdopt
      <4>2. f.mem.epoch \in Nat BY <2>2, EpochsAreNumbers DEF Writer
      <4> QED BY <1>2, <4>1, <4>2
    <3> QED BY <2>3, <3>1, <3>2, <3>3 DEF AtEnd
  <2> QED BY <1>2, <2>1, <2>4, <2>5 DEF Good, Chained
<1> QED BY <1>3, <1>4

LEMMA NewWriterIsGood ==
  ASSUME NEW batchSize \in BatchSizes, NEW capacity \in Capacities,
         NEW epoch \in Epochs \cup {Legacy}, NEW l, NEW o, Lines(l, o)
  PROVE  Good(NewWriter(batchSize, capacity, epoch), l, Len(l), o)
<1> DEFINE w == NewWriter(batchSize, capacity, epoch)
<1>1. /\ w.pending = <<>> /\ w.seq = 0 /\ w.head = GENESIS /\ w.epoch = epoch
      /\ w.capacity = capacity /\ w.batchSize = batchSize
      /\ w = [f \in {"batchSize", "capacity", "pending", "seq", "head", "epoch"} |-> w[f]]
  BY DEF NewWriter
<1> HIDE DEF w
<1>2. Len(l) \in Nat BY LenProperties DEF Lines
<1>3. <<>> \in Seq(Nat) /\ Len(<<>>) = 0 /\ capacity \in Nat BY EmptySeq, EgressAssumption
<1>4. Writer(w) BY <1>1, <1>3 DEF Writer
<1>5. AtEnd(w, l, Len(l)) BY <1>1, <1>2 DEF AtEnd
<1>6. \A i \in (Len(l) + 1)..Len(l) : FALSE BY <1>2
<1> QED BY <1>1, <1>2, <1>4, <1>5, <1>6, NoRecords DEF Good, Chained, w

-----------------------------------------------------------------------------
LEMMA InitEgress == Init => EgressInv
<1> SUFFICES ASSUME Init PROVE EgressInv OBVIOUS
<1>1. PICK batchSize \in BatchSizes, capacity \in Capacities, epoch \in Epochs \cup {Legacy} :
        mem = NewWriter(batchSize, capacity, epoch)
  BY DEF Init
<1>2. ledger = <<>> /\ offered = <<>> /\ base = 0 BY DEF Init
<1>3. \A S : <<>> \in Seq(S) /\ Len(<<>>) = 0 BY EmptySeq
<1>4. Lines(ledger, offered) BY <1>2, <1>3 DEF Lines
<1>5. Good(mem, ledger, base, offered) BY <1>1, <1>2, <1>3, <1>4, NewWriterIsGood
<1> QED BY <1>2, <1>3, <1>5, EgressAssumption DEF EgressInv

LEMMA StepEgress == EgressInv /\ [Next]_vars => EgressInv'
<1> SUFFICES ASSUME EgressInv, [Next]_vars PROVE EgressInv' OBVIOUS
<1>1. /\ offered \in Seq(Epochs \cup {Legacy}) /\ Len(offered) <= MaxRecords
      /\ Good(mem, ledger, base, offered)
  BY DEF EgressInv
<1>2. CASE Record
  <2>1. PICK res \in Push(mem, ledger, Len(offered) + 1) : Take(res) BY <1>2 DEF Record
  <2>2. offered' = Append(offered, mem.epoch) /\ base' = base /\ Len(offered) < MaxRecords
    BY <1>2 DEF Record
  <2>3. Good(mem', ledger', base', offered') BY <1>1, <2>1, <2>2, PushKeeps DEF Take
  <2>4. mem.epoch \in Epochs \cup {Legacy} BY <1>1 DEF Good, Writer
  <2>5. offered' \in Seq(Epochs \cup {Legacy}) /\ Len(offered') <= MaxRecords
    BY <1>1, <2>2, <2>4, SealingGrows, EgressAssumption
  <2> QED BY <2>3, <2>5 DEF EgressInv
<1>3. CASE FlushNow
  <2>1. PICK res \in Flush(mem, ledger) : Take(res) BY <1>3 DEF FlushNow
  <2>2. offered' = offered /\ base' = base BY <1>3 DEF FlushNow
  <2>3. Good(mem', ledger', base', offered') BY <1>1, <2>1, <2>2, FlushKeeps DEF Take
  <2> QED BY <1>1, <2>2, <2>3 DEF EgressInv
<1>4. ASSUME NEW epoch \in Epochs, AdoptEpoch(epoch) PROVE EgressInv'
  <2>1. PICK res \in Adopt(mem, ledger, epoch) : Take(res) BY <1>4 DEF AdoptEpoch
  <2>2. offered' = offered /\ base' = base /\ CanAdopt(mem, epoch) BY <1>4 DEF AdoptEpoch
  <2>3. Good(mem', ledger', base', offered') BY <1>1, <2>1, <2>2, AdoptKeeps DEF Take
  <2> QED BY <1>1, <2>2, <2>3 DEF EgressInv
<1>5. ASSUME NEW batchSize \in BatchSizes, NEW capacity \in Capacities,
             NEW epoch \in Epochs \cup {Legacy}, Reopen(batchSize, capacity, epoch)
      PROVE  EgressInv'
  <2>1. /\ mem' = NewWriter(batchSize, capacity, epoch) /\ base' = Len(ledger)
        /\ ledger' = ledger /\ offered' = offered
    BY <1>5 DEF Reopen
  <2>2. Good(mem', ledger', base', offered')
    BY <1>1, <2>1, NewWriterIsGood DEF Good
  <2> QED BY <1>1, <2>1, <2>2 DEF EgressInv
<1>6. CASE UNCHANGED vars BY <1>1, <1>6 DEF EgressInv, vars
<1> QED BY <1>2, <1>3, <1>4, <1>5, <1>6 DEF Next

(* The writer always stands where its own batches end, and every line, of
   this writer or an earlier one, is sealed under the epoch of its records. *)
THEOREM EgressInvariance == Spec => []EgressInv
BY InitEgress, StepEgress, PTL DEF Spec

(* The ring never holds more than its capacity, whatever a push finds in it
   and whatever the flushes around it do. *)
THEOREM RingIsBounded == Spec => []TypeOK
<1>1. EgressInv => TypeOK
  <2> SUFFICES ASSUME EgressInv PROVE TypeOK OBVIOUS
  <2>1. Writer(mem) /\ Sealing(mem.pending, mem.epoch, offered) /\ base \in 0..Len(ledger)
    BY DEF EgressInv, Good
  <2>2. offered \in Seq(Epochs \cup {Legacy}) /\ Len(offered) <= MaxRecords BY DEF EgressInv
  <2>3. 1..Len(offered) \subseteq 1..MaxRecords BY <2>2, LenProperties, EgressAssumption
  <2>4. mem.pending \in Seq(1..MaxRecords) BY <2>1, <2>3, SeqMonotonic DEF Sealing
  <2> QED BY <2>1, <2>2, <2>4 DEF TypeOK, Writer
<1> QED BY <1>1, EgressInvariance, PTL

-----------------------------------------------------------------------------
(* A record is sealed under the epoch that was in force when it was pushed,
   however many flushes and rotations were tried in between. *)
THEOREM SealedUnderItsEpoch == Spec => []NoRecordStraddles
<1>1. EgressInv => NoRecordStraddles
  <2> SUFFICES ASSUME EgressInv PROVE NoRecordStraddles OBVIOUS
  <2>1. ASSUME NEW records, NEW epoch, Sealing(records, epoch, offered)
        PROVE  \A r \in ToSet(records) : epoch = offered[r]
    BY <2>1 DEF Sealing, ToSet
  <2> QED BY <2>1 DEF NoRecordStraddles, EgressInv, Good, Lines
<1> QED BY <1>1, EgressInvariance, PTL

(* The batches of the open writer, numbered from one. *)
LEMMA LifetimeIs ==
  ASSUME EgressInv
  PROVE  /\ Lifetime \in Seq(ToSet(ledger)) /\ Len(Lifetime) = Len(ledger) - base
         /\ DOMAIN Lifetime = 1..Len(Lifetime) /\ Len(Lifetime) \in Nat
         /\ base \in Nat /\ Len(ledger) \in Nat
         /\ \A j \in DOMAIN Lifetime : Lifetime[j] = ledger[base + j]
<1>1. ledger \in Seq(ToSet(ledger)) /\ base \in 0..Len(ledger) BY DEF EgressInv, Good, Lines
<1>2. Len(ledger) \in Nat /\ base \in Nat BY <1>1, LenProperties
<1>3. \A i \in (base + 1)..Len(ledger) : ledger[i] \in ToSet(ledger)
  <2>1. (base + 1)..Len(ledger) \subseteq 1..Len(ledger) BY <1>2
  <2> QED BY <1>1, <2>1, ElementOfSeq
<1>4. /\ Lifetime \in Seq(ToSet(ledger))
      /\ Len(Lifetime) = IF base + 1 <= Len(ledger) THEN Len(ledger) - (base + 1) + 1 ELSE 0
      /\ \A j \in 1..(Len(ledger) - (base + 1) + 1) : Lifetime[j] = ledger[(base + 1) + j - 1]
  <2> DEFINE from == base + 1
             upto == Len(ledger)
             S == ToSet(ledger)
  <2>1. from \in Int /\ upto \in Int /\ \A i \in from..upto : ledger[i] \in S
    BY <1>2, <1>3
  <2>2. Lifetime = SubSeq(ledger, from, upto) BY DEF Lifetime
  <2> HIDE DEF from, upto, S
  <2>3. /\ Lifetime \in Seq(S)
        /\ Len(Lifetime) = IF from <= upto THEN upto - from + 1 ELSE 0
        /\ \A j \in 1..(upto - from + 1) : Lifetime[j] = ledger[from + j - 1]
    BY <2>1, <2>2, SubSeqProperties
  <2> QED BY <2>3 DEF from, upto, S
<1>5. Len(Lifetime) = Len(ledger) - base
  <2>1. \A b \in Nat, n \in Nat :
          b \in 0..n => n - b = IF b + 1 <= n THEN n - (b + 1) + 1 ELSE 0
    OBVIOUS
  <2> QED BY <1>1, <1>2, <1>4, <2>1
<1>6. DOMAIN Lifetime = 1..Len(Lifetime) /\ Len(Lifetime) \in Nat BY <1>4, LenProperties
<1>7. ASSUME NEW j \in 1..Len(Lifetime) PROVE Lifetime[j] = ledger[base + j]
  <2>1. j \in 1..(Len(ledger) - (base + 1) + 1) /\ (base + 1) + j - 1 = base + j
    BY <1>2, <1>5
  <2> QED BY <1>4, <2>1
<1> QED BY <1>2, <1>4, <1>5, <1>6, <1>7

LEMMA LifetimeIsLinked ==
  ASSUME EgressInv, Readable(ledger), NEW j \in DOMAIN Lifetime
  PROVE  /\ DOMAIN Lifetime[j] = {"seq", "prev", "records", "epoch", "hash"}
         /\ Lifetime[j].seq = j - 1
         /\ Lifetime[j].prev = IF j = 1 THEN GENESIS ELSE Lifetime[j - 1].hash
         /\ MacHolds(Lifetime[j], Lifetime[j].epoch)
         /\ j > 1 => Lifetime[j].epoch >= Lifetime[j - 1].epoch
         /\ Lifetime[j].records \in Seq(1..Len(offered)) /\ Lifetime[j].records # <<>>
<1> DEFINE i == base + j
<1>1. /\ Lifetime[j] = ledger[i] /\ i \in (base + 1)..Len(ledger) /\ i \in DOMAIN ledger
      /\ i - base - 1 = j - 1 /\ (i = base + 1 <=> j = 1) /\ (i > base + 1 <=> j > 1)
      /\ j # 1 => Lifetime[j - 1] = ledger[i - 1]
  <2>1. DOMAIN ledger = 1..Len(ledger) BY LenProperties DEF EgressInv, Good, Lines
  <2>2. j # 1 => j - 1 \in DOMAIN Lifetime /\ base + (j - 1) = i - 1 BY LifetimeIs
  <2>3. j # 1 => Lifetime[j - 1] = ledger[base + (j - 1)] BY <2>2, LifetimeIs
  <2> QED BY <2>1, <2>2, <2>3, LifetimeIs
<1> HIDE DEF i
<1>2. Link(ledger, base, i) BY <1>1 DEF EgressInv, Good, Chained
<1>3. Sealing(ledger[i].records, ledger[i].epoch, offered)
  BY <1>1 DEF EgressInv, Good, Lines
<1> QED BY <1>1, <1>2, <1>3 DEF Link, Sealing, MacHolds

(* What one writer has appended verifies, until a torn line makes the ledger
   unreadable: under its key if there was one, epoch by epoch otherwise. *)
THEOREM OwnBatchesVerify == Spec => []LifetimeVerifies
<1>1. EgressInv => LifetimeVerifies
  <2> SUFFICES ASSUME EgressInv, Readable(ledger)
               PROVE  /\ \A e \in Epochs \cup {Legacy} :
                           (\A i \in DOMAIN Lifetime : Lifetime[i].epoch = e) =>
                             VerifyChain(Lifetime, e)
                      /\ (\A i \in DOMAIN Lifetime : Lifetime[i].epoch # Legacy) =>
                           VerifyChainEpochAware(Lifetime, {})
    BY DEF LifetimeVerifies
  <2>1. ChainLinks(Lifetime) BY LifetimeIsLinked DEF ChainLinks
  <2>2. ASSUME NEW e \in Epochs \cup {Legacy}, \A i \in DOMAIN Lifetime : Lifetime[i].epoch = e
        PROVE  VerifyChain(Lifetime, e)
    BY <2>1, <2>2, LifetimeIsLinked DEF VerifyChain
  <2>3. ASSUME \A i \in DOMAIN Lifetime : Lifetime[i].epoch # Legacy
        PROVE  VerifyChainEpochAware(Lifetime, {})
    BY <2>1, <2>3, LifetimeIsLinked DEF VerifyChainEpochAware
  <2> QED BY <2>2, <2>3
<1> QED BY <1>1, EgressInvariance, PTL

LEMMA Misplaced ==
  ASSUME NEW bad, NEW i \in DOMAIN bad, bad[i].seq # i - 1
  PROVE  ~ChainLinks(bad)
BY DEF ChainLinks

(* Both ways to damage the order leave in front what belongs further back. *)
LEMMA InFront ==
  ASSUME NEW S, NEW s \in Seq(S), NEW i \in 1..Len(s),
         NEW mid \in Seq(S), Len(mid) > 0
  PROVE  LET bad == SubSeq(s, 1, i - 1) \o mid IN
         bad \in Seq(S) /\ i \in DOMAIN bad /\ bad[i] = mid[1]
<1> DEFINE front == SubSeq(s, 1, i - 1)
           bad == front \o mid
<1>1. Len(s) \in Nat /\ i \in Nat /\ i >= 1 /\ Len(mid) \in Nat
  BY LenProperties
<1>2. front \in Seq(S) /\ Len(front) = i - 1
  <2>1. \A k \in 1..(i - 1) : s[k] \in S BY <1>1, ElementOfSeq
  <2>2. /\ front \in Seq(S)
        /\ Len(front) = IF 1 <= i - 1 THEN i - 1 - 1 + 1 ELSE 0
    BY <1>1, <2>1, SubSeqProperties
  <2> QED BY <1>1, <2>2
<1> HIDE DEF front
<1>3. bad \in Seq(S) /\ Len(bad) = i - 1 + Len(mid) /\ bad[i] = mid[1]
  <2>1. /\ bad \in Seq(S) /\ Len(bad) = Len(front) + Len(mid)
        /\ \A k \in 1..(Len(front) + Len(mid)) :
             bad[k] = IF k <= Len(front) THEN front[k] ELSE mid[k - Len(front)]
    BY <1>2, ConcatProperties
  <2> QED BY <1>1, <1>2, <2>1
<1> HIDE DEF bad
<1>4. i \in DOMAIN bad BY <1>1, <1>3, LenProperties
<1> QED BY <1>3, <1>4 DEF bad, front

LEMMA StaysInFront ==
  ASSUME NEW S, NEW s \in Seq(S), NEW i \in DOMAIN s, NEW rest \in Seq(S)
  PROVE  i \in DOMAIN (s \o rest) /\ (s \o rest)[i] = s[i]
<1>1. Len(s) \in Nat /\ Len(rest) \in Nat /\ i \in 1..Len(s) BY LenProperties
<1>2. /\ s \o rest \in Seq(S) /\ Len(s \o rest) = Len(s) + Len(rest)
      /\ \A k \in 1..(Len(s) + Len(rest)) :
           (s \o rest)[k] = IF k <= Len(s) THEN s[k] ELSE rest[k - Len(s)]
  BY ConcatProperties
<1> QED BY <1>1, <1>2, LenProperties

(* A reader that finds the ledger parsing notices every batch that is missing
   in front of another, every exchange of neighbours and every record cut. *)
THEOREM DamageShows == Spec => []DamageIsNoticed
<1>1. ASSUME EgressInv, Readable(ledger), NEW i \in 1..(Len(Lifetime) - 1)
      PROVE  /\ ~ChainLinks(RemoveAt(Lifetime, i))
             /\ ~ChainLinks(SubSeq(Lifetime, 1, i - 1) \o <<Lifetime[i + 1], Lifetime[i]>>
                              \o SubSeq(Lifetime, i + 2, Len(Lifetime)))
  <2> DEFINE S == ToSet(ledger)
             n == Len(Lifetime)
             back(k) == SubSeq(Lifetime, k, n)
             pair == <<Lifetime[i + 1], Lifetime[i]>>
             missing == RemoveAt(Lifetime, i)
             front == SubSeq(Lifetime, 1, i - 1) \o pair
             exchanged == front \o back(i + 2)
  <2>1. /\ Lifetime \in Seq(S) /\ n \in Nat /\ i \in Nat /\ i >= 1
        /\ i \in 1..n /\ i + 1 \in 1..n /\ DOMAIN Lifetime = 1..n
    BY <1>1, LifetimeIs
  <2>2. Lifetime[i] \in S /\ Lifetime[i + 1] \in S BY <2>1, ElementOfSeq
  <2>3. ASSUME NEW k \in Nat \ {0}
        PROVE  /\ back(k) \in Seq(S) /\ Len(back(k)) = IF k <= n THEN n - k + 1 ELSE 0
               /\ \A j \in 1..(n - k + 1) : back(k)[j] = Lifetime[k + j - 1]
    <3>1. \A j \in k..n : Lifetime[j] \in S BY <2>1, ElementOfSeq
    <3> QED BY <2>1, <3>1, SubSeqProperties
  <2>4. Lifetime[i + 1].seq # i - 1
    <3>1. Lifetime[i + 1].seq = (i + 1) - 1 BY <1>1, <2>1, LifetimeIsLinked
    <3> QED BY <2>1, <3>1
  <2>5. pair \in Seq(S) /\ Len(pair) > 0 /\ pair[1] = Lifetime[i + 1] BY <2>2
  <2>6. /\ back(i + 1) \in Seq(S) /\ Len(back(i + 1)) > 0
        /\ back(i + 1)[1] = Lifetime[i + 1] /\ back(i + 2) \in Seq(S)
    <3>1. i + 1 \in Nat \ {0} /\ i + 2 \in Nat \ {0} /\ 1 \in 1..(n - (i + 1) + 1)
          /\ (i + 1) + 1 - 1 = i + 1 /\ i + 1 <= n /\ n - (i + 1) + 1 > 0
      BY <2>1
    <3>2. back(i + 1)[1] = Lifetime[(i + 1) + 1 - 1] BY <2>3, <3>1
    <3> QED BY <2>3, <3>1, <3>2
  <2>7. missing = SubSeq(Lifetime, 1, i - 1) \o back(i + 1) BY DEF RemoveAt
  <2> HIDE DEF back, pair, S
  <2>8. i \in DOMAIN missing /\ missing[i] = Lifetime[i + 1]
    BY <2>1, <2>6, <2>7, InFront
  <2>9. i \in DOMAIN exchanged /\ exchanged[i] = Lifetime[i + 1]
    <3>1. front \in Seq(S) /\ i \in DOMAIN front /\ front[i] = Lifetime[i + 1]
      BY <2>1, <2>5, InFront
    <3> HIDE DEF front
    <3> QED BY <2>6, <3>1, StaysInFront
  <2> HIDE DEF missing, exchanged
  <2>10. ~ChainLinks(missing) /\ ~ChainLinks(exchanged) BY <2>4, <2>8, <2>9, Misplaced
  <2> QED BY <2>10 DEF missing, exchanged, front, pair, back
<1>2. ASSUME EgressInv, Readable(ledger), NEW i \in DOMAIN Lifetime, NEW key,
             NEW bad, bad = [Lifetime EXCEPT ![i].records = Tail(@)]
      PROVE  i \in DOMAIN bad /\ ~MacHolds(bad[i], key)
  <2> DEFINE was == Lifetime[i]
  <2>1. /\ DOMAIN was = {"seq", "prev", "records", "epoch", "hash"}
        /\ MacHolds(was, was.epoch)
        /\ was.records \in Seq(1..Len(offered)) /\ was.records # <<>>
    BY <1>2, LifetimeIsLinked
  <2>2. i \in DOMAIN bad /\ bad[i] = [was EXCEPT !.records = Tail(@)] BY <1>2
  <2> HIDE DEF was
  <2>3. bad[i].hash = was.hash /\ bad[i].records = Tail(was.records) BY <2>1, <2>2
  <2>4. Tail(was.records) # was.records
    <3> DEFINE r == was.records
               t == Tail(r)
    <3>1. r \in Seq(1..Len(offered)) /\ r # <<>> BY <2>1
    <3> HIDE DEF r
    <3>2. Len(t) = Len(r) - 1 /\ Len(r) \in Nat BY <3>1, HeadTailProperties, LenProperties
    <3> HIDE DEF t
    <3>3. t # r BY <3>2
    <3> QED BY <3>3 DEF t, r
  <2> QED BY <2>1, <2>2, <2>3, <2>4 DEF MacHolds, Mac
<1>3. EgressInv => DamageIsNoticed
  <2> SUFFICES ASSUME EgressInv, Readable(ledger), NEW bad \in Damaged(Lifetime)
               PROVE  /\ ~VerifyChainEpochAware(bad, {})
                      /\ \A e \in Epochs \cup {Legacy} : ~VerifyChain(bad, e)
    BY DEF DamageIsNoticed
  <2>1. CASE ~ChainLinks(bad) BY <2>1 DEF VerifyChain, VerifyChainEpochAware
  <2>2. CASE \E i \in DOMAIN Lifetime : bad = [Lifetime EXCEPT ![i].records = Tail(@)]
    <3>1. PICK i \in DOMAIN Lifetime : bad = [Lifetime EXCEPT ![i].records = Tail(@)]
      BY <2>2
    <3>2. i \in DOMAIN bad /\ \A key : ~MacHolds(bad[i], key) BY <1>2, <3>1
    <3> QED BY <3>2 DEF VerifyChain, VerifyChainEpochAware
  <2> QED BY <1>1, <2>1, <2>2 DEF Damaged
<1> QED BY <1>3, EgressInvariance, PTL

-----------------------------------------------------------------------------
(* The writer as an audit trail *)

LEMMA RecordsGrow ==
  ASSUME NEW l, NEW o, Lines(l, o), NEW x, Sealing(x.records, x.epoch, o)
  PROVE  /\ RecordsOf(l) \in Seq(1..Len(o))
         /\ RecordsOf(Append(l, x)) = RecordsOf(l) \o x.records
<1> DEFINE S == 1..Len(o)
           a == Append(l, x)
           s == [i \in DOMAIN l |-> l[i].records]
           t == [i \in DOMAIN a |-> a[i].records]
<1>1. /\ a \in Seq(ToSet(a)) /\ Len(a) = Len(l) + 1 /\ a[Len(l) + 1] = x
      /\ \A i \in DOMAIN l : a[i] = l[i]
      /\ DOMAIN l = 1..Len(l) /\ DOMAIN a = 1..(Len(l) + 1) /\ Len(l) \in Nat
  BY Appended, LenProperties DEF Lines
<1>2. /\ \A i \in 1..Len(l) : s[i] \in Seq(S) /\ s[i] = l[i].records
      /\ s = [i \in 1..Len(l) |-> s[i]]
  BY <1>1 DEF Lines, Sealing
<1>3. /\ t = [i \in 1..(Len(l) + 1) |-> t[i]]
      /\ \A i \in 1..(Len(l) + 1) : t[i] = a[i].records
  BY <1>1
<1>4. x.records \in Seq(S) BY DEF Sealing
<1>5. RecordsOf(l) = FlattenSeq(s) /\ RecordsOf(a) = FlattenSeq(t) BY DEF RecordsOf
<1> HIDE DEF s, t, a, S
<1>6. s \in Seq(Seq(S)) /\ Len(s) = Len(l) BY <1>1, <1>2, IsASeq
<1>7. t = Append(s, x.records)
  <2> DEFINE u == Append(s, x.records)
  <2>1. /\ u \in Seq(Seq(S)) /\ Len(u) = Len(l) + 1
        /\ \A i \in 1..Len(l) : u[i] = s[i] /\ u[Len(l) + 1] = x.records
    BY <1>4, <1>6, AppendProperties
  <2>2. u[Len(l) + 1] = x.records BY <1>4, <1>6, AppendProperties
  <2>3. u = [i \in 1..(Len(l) + 1) |-> u[i]] BY <2>1, LenProperties
  <2> HIDE DEF u
  <2>4. \A i \in 1..(Len(l) + 1) : u[i] = t[i]
    <3>1. \A i \in 1..(Len(l) + 1) : i \in 1..Len(l) \/ i = Len(l) + 1 BY <1>1
    <3> QED BY <1>1, <1>2, <1>3, <2>1, <2>2, <3>1
  <2>5. u = t BY <1>3, <2>3, <2>4
  <2> QED BY <2>5 DEF u
<1> QED BY <1>4, <1>5, <1>6, <1>7, FlattenAppend DEF a, S

LEMMA RecordsOfNothing == RecordsOf(<<>>) = <<>>
<1>1. DOMAIN <<>> = {} BY EmptySeq, LenProperties
<1> DEFINE s == [i \in DOMAIN <<>> |-> <<>>[i].records]
<1>2. s = <<>> BY <1>1
<1>3. FlattenSeq(<<>>) = <<>> BY EmptySeq DEF FlattenSeq
<1> QED BY <1>2, <1>3 DEF RecordsOf

(* What the writer has taken, on disk or staged. *)
Taken(m, l) == RecordsOf(l) \o m.pending

(* A flush, or a call that flushed at most: what was taken stays, and either
   nothing moved or nothing is left staged. *)
Moved(m, l, res) ==
  /\ res.mem.capacity = m.capacity
  /\ Taken(res.mem, res.ledger) = Taken(m, l)
  /\ \/ res.ledger = l /\ res.mem.pending = m.pending
     \/ res.mem.pending = <<>>

LEMMA TakenType ==
  ASSUME NEW m, NEW l, NEW b, NEW o, Good(m, l, b, o)
  PROVE  /\ RecordsOf(l) \in Seq(Nat) /\ m.pending \in Seq(Nat)
         /\ Taken(m, l) \in Seq(Nat)
         /\ Len(Taken(m, l)) = Len(RecordsOf(l)) + Len(m.pending)
         /\ Len(RecordsOf(l)) \in Nat /\ Len(m.pending) \in Nat
         /\ SubSeq(Taken(m, l), 1, Len(RecordsOf(l))) = RecordsOf(l)
         /\ m.pending = <<>> => Taken(m, l) = RecordsOf(l)
<1> DEFINE r == RecordsOf(l)
           p == m.pending
           t == r \o p
<1>1. Lines(l, o) /\ Sealing(m.pending, m.epoch, o) BY DEF Good
<1>2. r \in Seq(1..Len(o))
  <2>1. Sealing(Fragment.records, Fragment.epoch, o) BY NoRecords DEF Fragment, NoBatch
  <2> QED BY <1>1, <2>1, RecordsGrow
<1>3. p \in Seq(1..Len(o)) BY <1>1 DEF Sealing
<1>4. 1..Len(o) \subseteq Nat OBVIOUS
<1>5. r \in Seq(Nat) /\ p \in Seq(Nat) BY <1>2, <1>3, <1>4, SeqMonotonic
<1> HIDE DEF r, p
<1>6. /\ t \in Seq(Nat) /\ Len(t) = Len(r) + Len(p) /\ Len(r) \in Nat /\ Len(p) \in Nat
      /\ \A i \in 1..Len(r) : t[i] = r[i]
  BY <1>5, ConcatProperties, LenProperties
<1>7. p = <<>> => t = r BY <1>5, ConcatEmptySeq
<1> HIDE DEF t
<1>8. SubSeq(t, 1, Len(r)) = r
  <2> DEFINE u == SubSeq(t, 1, Len(r))
  <2>1. \A i \in 1..Len(r) : t[i] \in Nat BY <1>5, <1>6, ElementOfSeq
  <2>2. u \in Seq(Nat) /\ Len(u) = Len(r) /\ \A i \in 1..Len(r) : u[i] = t[1 + i - 1]
    BY <1>6, <2>1, SubSeqProperties
  <2> HIDE DEF u
  <2>3. \A i \in 1..Len(r) : u[i] = r[i] BY <1>6, <2>2
  <2>4. u = r BY <1>5, <2>2, <2>3, SeqEqual
  <2> QED BY <2>4 DEF u
<1> QED BY <1>5, <1>6, <1>7, <1>8 DEF r, p, t, Taken

(* What a flush leaves readable was readable before. *)
LEMMA FlushFromReadable ==
  ASSUME NEW m, NEW l, NEW b, NEW o, Good(m, l, b, o), NEW res \in Flush(m, l),
         Readable(res.ledger)
  PROVE  Readable(l)
<1>1. Lines(l, o) /\ Sealing(m.pending, m.epoch, o) BY DEF Good
<1>2. Sealing(Batch(m).records, Batch(m).epoch, o) BY <1>1 DEF Batch
<1>3. \/ res.ledger = l
      \/ res.ledger = AppendLine(l, Batch(m))
      \/ res.ledger \in FailedAppend(l)
  BY DEF Flush, Result
<1> QED BY <1>1, <1>2, <1>3, LineAppended, FailureLeaves

LEMMA FlushMoves ==
  ASSUME NEW m, NEW l, NEW b, NEW o, Good(m, l, b, o), NEW res \in Flush(m, l),
         Readable(res.ledger)
  PROVE  /\ Moved(m, l, res)
         /\ res.ok => res.mem.pending = <<>>
         /\ ~res.ok => res.ledger = l /\ res.mem = m
<1>1. CASE m.pending = <<>> /\ res = Result(m, l, TRUE)
  BY <1>1 DEF Result, Moved
<1>2. CASE res = Result(Sealed(m), AppendLine(l, Batch(m)), TRUE)
  <2> DEFINE x == Batch(m)
  <2>1. /\ res.mem = Sealed(m) /\ res.ledger = AppendLine(l, x) /\ res.ok = TRUE
    BY <1>2 DEF Result
  <2>2. Writer(m) /\ Sealing(m.pending, m.epoch, o) /\ Lines(l, o) BY DEF Good
  <2>3. x.records = m.pending /\ x.epoch = m.epoch BY DEF Batch
  <2> HIDE DEF x
  <2>4. res.ledger = Append(l, x) BY <2>1, <2>2, <2>3, LineAppended
  <2>5. RecordsOf(res.ledger) = Taken(m, l) /\ Taken(m, l) \in Seq(Nat)
    <3>1. Sealing(x.records, x.epoch, o) BY <2>2, <2>3
    <3>2. RecordsOf(Append(l, x)) = RecordsOf(l) \o x.records BY <2>2, <3>1, RecordsGrow
    <3>3. Taken(m, l) \in Seq(Nat) BY TakenType
    <3> QED BY <2>3, <2>4, <3>2, <3>3 DEF Taken
  <2>6. res.mem.pending = <<>> /\ res.mem.capacity = m.capacity BY <2>1, <2>2, SealedIs
  <2>7. Taken(res.mem, res.ledger) = Taken(m, l)
    BY <2>5, <2>6, ConcatEmptySeq DEF Taken
  <2> QED BY <2>1, <2>6, <2>7 DEF Moved
<1>3. CASE \E torn \in FailedAppend(l) : res = Result(m, torn, FALSE)
  <2>1. PICK torn \in FailedAppend(l) : res = Result(m, torn, FALSE) BY <1>3
  <2>2. torn = l BY <2>1, FailureLeaves DEF Good, Result
  <2> QED BY <2>1, <2>2 DEF Result, Moved
<1> QED BY <1>1, <1>2, <1>3 DEF Flush

(* What a push makes of the trail: the record is taken behind the others, and
   a flush before or after it may have put them on disk; or it is refused. *)
LEMMA PushTakes ==
  ASSUME NEW m, NEW l, NEW b, NEW o \in Seq(Epochs \cup {Legacy}),
         Good(m, l, b, o), NEW res \in Push(m, l, Len(o) + 1), Readable(res.ledger)
  PROVE  /\ res.mem.capacity = m.capacity
         /\ \/ /\ Taken(res.mem, res.ledger) = Append(Taken(m, l), Len(o) + 1)
               /\ \/ RecordsOf(res.ledger) = RecordsOf(l)
                  \/ RecordsOf(res.ledger) = Taken(m, l)
                  \/ res.mem.pending = <<>>
            \/ ~HasRoom(m) /\ res.ledger = l /\ res.mem = m
<1> DEFINE r == Len(o) + 1
           p == Append(o, m.epoch)
<1>1. r \in Nat BY LenProperties
<1> HIDE DEF p
<1>2. ASSUME NEW w, NEW k, Good(w, k, b, o), HasRoom(w), w.epoch = m.epoch,
             NEW f \in FlushIfDue(Stage(w, r), k), Readable(f.ledger)
      PROVE  /\ f.mem.capacity = w.capacity
             /\ Taken(f.mem, f.ledger) = Append(Taken(w, k), r)
             /\ RecordsOf(f.ledger) = RecordsOf(k) \/ f.mem.pending = <<>>
  <2> DEFINE s == Stage(w, r)
  <2>1. Good(s, k, b, p) BY <1>2, StageKeeps DEF p
  <2>2. /\ s.capacity = w.capacity /\ s.pending = Append(w.pending, r)
    BY <1>2 DEF Stage, Good, Writer
  <2>3. Taken(s, k) = Append(Taken(w, k), r)
    <3>1. \A a, c \in Seq(Nat), e \in Nat : a \o Append(c, e) = Append(a \o c, e)
      BY AppendBehind
    <3> DEFINE done == RecordsOf(k)
    <3>2. done \in Seq(Nat) /\ w.pending \in Seq(Nat) BY <1>2, TakenType
    <3> HIDE DEF r, s, done
    <3>3. done \o Append(w.pending, r) = Append(done \o w.pending, r)
      BY <1>1, <3>2, <3>1
    <3> QED BY <2>2, <3>3 DEF Taken, done
  <2> HIDE DEF s
  <2>4. CASE f = Result(s, k, TRUE)
    BY <2>2, <2>3, <2>4 DEF Result
  <2>5. CASE f \in Flush(s, k)
    <3>1. Moved(s, k, f) BY <1>2, <2>1, <2>5, FlushMoves
    <3> QED BY <2>2, <2>3, <3>1 DEF Moved
  <2> QED BY <1>2, <2>4, <2>5 DEF FlushIfDue, s
<1>3. CASE HasRoom(m)
  BY <1>2, <1>3 DEF Push
<1>4. CASE ~HasRoom(m)
  <2>1. PICK f \in Flush(m, l) :
          res \in IF f.ok THEN FlushIfDue(Stage(f.mem, r), f.ledger) ELSE {f}
    BY <1>4 DEF Push
  <2>2. /\ Good(f.mem, f.ledger, b, o) /\ f.mem.epoch = m.epoch
        /\ f.ok => f.mem.pending = <<>>
    BY FlushKeeps
  <2>3. CASE f.ok
    <3>1. HasRoom(f.mem) BY <2>2, <2>3, EmptySeq DEF HasRoom, Good, Writer
    <3>2. Readable(f.ledger)
      <4>1. Good(Stage(f.mem, r), f.ledger, b, p) BY <2>2, <3>1, StageKeeps DEF p
      <4>2. res \in Flush(Stage(f.mem, r), f.ledger) \/ res.ledger = f.ledger
        BY <2>1, <2>3 DEF FlushIfDue, Result
      <4> QED BY <4>1, <4>2, FlushFromReadable
    <3>3. Moved(m, l, f) BY <3>2, FlushMoves
    <3>4. Taken(f.mem, f.ledger) = RecordsOf(f.ledger) BY <2>2, <2>3, TakenType
    <3>5. /\ res.mem.capacity = f.mem.capacity
          /\ Taken(res.mem, res.ledger) = Append(Taken(f.mem, f.ledger), r)
          /\ RecordsOf(res.ledger) = RecordsOf(f.ledger) \/ res.mem.pending = <<>>
      BY <1>2, <2>1, <2>2, <2>3, <3>1
    <3> QED BY <3>3, <3>4, <3>5 DEF Moved
  <2>4. CASE ~f.ok
    BY <1>4, <2>1, <2>4, FlushMoves DEF Moved
  <2> QED BY <2>3, <2>4
<1> QED BY <1>3, <1>4

(* Until an append is torn, the writer with its ledger is an audit trail: a
   push is an acceptance or, with the ring full, a refusal; a flush, or the one
   inside an adoption, makes what is staged durable or changes nothing; and a
   reopened writer has lost what was staged. *)
THEOREM WriterIsTrail == Spec => ImplementsTrail
<1> DEFINE Step == Readable(ledger') => [Trail!Next]_(Trail!vars)
<1>1. Init => Trail!Init
  <2> SUFFICES ASSUME Init PROVE Trail!Init OBVIOUS
  <2>1. /\ ledger = <<>> /\ offered = <<>>
        /\ mem.pending = <<>> /\ mem.capacity \in Capacities
    BY DEF Init, NewWriter
  <2>2. <<>> \o <<>> = <<>> /\ Len(<<>>) = 0 BY EmptySeq, ConcatEmptySeq
  <2> QED BY <2>1, <2>2, RecordsOfNothing DEF Trail!Init
<1>2. EgressInv /\ EgressInv' /\ [Next]_vars => [Step]_vars
  <2> SUFFICES ASSUME EgressInv, EgressInv', Next, Readable(ledger')
               PROVE  [Trail!Next]_(Trail!vars)
    OBVIOUS
  <2> DEFINE done  == RecordsOf(ledger)
             taken == Taken(mem, ledger)
             n     == Len(offered)
  <2>1. /\ Good(mem, ledger, base, offered) /\ Good(mem', ledger', base', offered')
        /\ offered \in Seq(Epochs \cup {Legacy})
    BY DEF EgressInv
  <2>2. /\ done \in Seq(Nat) /\ taken \in Seq(Nat)
        /\ Len(taken) = Len(done) + Len(mem.pending)
        /\ Len(done) \in Nat /\ Len(mem.pending) \in Nat
        /\ SubSeq(taken, 1, Len(done)) = done
    BY <2>1, TakenType
  <2>3. /\ Len(taken') = Len(done') + Len(mem'.pending)
        /\ Len(done') \in Nat /\ Len(mem'.pending) \in Nat
        /\ mem'.pending = <<>> => taken' = done'
    BY <2>1, TakenType
  <2>4. /\ Len(mem'.pending) <= mem'.capacity /\ mem'.capacity \in Nat
        /\ Len(mem.pending) <= mem.capacity /\ mem.capacity \in Nat
    BY <2>1, EgressAssumption DEF Good, Writer
  <2>5. taken = done \o mem.pending /\ taken' = done' \o mem'.pending BY DEF Taken
  <2> HIDE DEF done, taken, n
  <2> USE DEF Trail!Next, Trail!vars
  <2>6. ASSUME mem'.capacity = mem.capacity, offered' = offered, taken' = taken,
               done' = done \/ mem'.pending = <<>>
        PROVE  [Trail!Next]_(Trail!vars)
    BY <2>3, <2>5, <2>6 DEF Trail!Flush, done
  <2>7. CASE Record
    <3>1. PICK res \in Push(mem, ledger, n + 1) : Take(res) BY <2>7 DEF Record, n
    <3>2. offered' = Append(offered, mem.epoch) /\ Len(offered') = n + 1
      <4>1. mem.epoch \in Epochs \cup {Legacy} BY <2>1 DEF Good, Writer
      <4> QED BY <2>1, <2>7, <4>1, SealingGrows DEF Record, n
    <3>3. /\ mem'.capacity = mem.capacity
          /\ \/ /\ taken' = Append(taken, n + 1)
                /\ done' = done \/ done' = taken \/ mem'.pending = <<>>
             \/ ~HasRoom(mem) /\ ledger' = ledger /\ mem' = mem
      BY <2>1, <3>1, PushTakes DEF Take, taken, done, n
    <3>4. CASE taken' = Append(taken, n + 1) /\ (done' = done \/ done' = taken \/ mem'.pending = <<>>)
      <4>1. Trail!Accept
        BY <2>3, <2>4, <2>5, <3>2, <3>3, <3>4 DEF Trail!Accept, done, n
      <4> QED BY <4>1
    <3>5. CASE ~HasRoom(mem) /\ ledger' = ledger /\ mem' = mem
      <4>1. Trail!Refuse
        BY <2>2, <2>4, <2>5, <3>2, <3>5 DEF Trail!Refuse, HasRoom, done, n
      <4> QED BY <4>1
    <3> QED BY <3>3, <3>4, <3>5
  <2>8. CASE FlushNow
    <3>1. PICK res \in Flush(mem, ledger) : Take(res) BY <2>8 DEF FlushNow
    <3>2. Moved(mem, ledger, res) BY <2>1, <3>1, FlushMoves DEF Take
    <3>3. offered' = offered BY <2>8 DEF FlushNow
    <3> QED BY <2>6, <3>1, <3>2, <3>3 DEF Moved, Take, taken, done
  <2>9. ASSUME NEW epoch \in Epochs, AdoptEpoch(epoch) PROVE [Trail!Next]_(Trail!vars)
    <3>1. PICK f \in Flush(mem, ledger) :
            Take(IF f.ok THEN [f EXCEPT !.mem.epoch = epoch] ELSE f)
      BY <2>9 DEF AdoptEpoch, Adopt
    <3>2. Good(f.mem, f.ledger, base, offered) /\ f = Result(f.mem, f.ledger, f.ok)
      BY <2>1, FlushKeeps
    <3>3. ledger' = f.ledger /\ mem'.pending = f.mem.pending /\ mem'.capacity = f.mem.capacity
      BY <3>1, <3>2 DEF Take, Result, Good, Writer
    <3>4. Moved(mem, ledger, f) BY <2>1, <3>3, FlushMoves
    <3>5. offered' = offered BY <2>9 DEF AdoptEpoch
    <3> QED BY <2>6, <3>3, <3>4, <3>5 DEF Moved, Taken, taken, done
  <2>10. ASSUME NEW batchSize \in BatchSizes, NEW capacity \in Capacities,
                NEW epoch \in Epochs \cup {Legacy}, Reopen(batchSize, capacity, epoch)
         PROVE  [Trail!Next]_(Trail!vars)
    <3>1. /\ mem' = NewWriter(batchSize, capacity, epoch)
          /\ ledger' = ledger /\ offered' = offered
      BY <2>10 DEF Reopen
    <3>2. mem'.pending = <<>> /\ mem'.capacity = capacity BY <3>1 DEF NewWriter
    <3>3. done' = done BY <3>1 DEF done
    <3>4. Trail!Reopen
      BY <2>2, <2>3, <2>5, <3>1, <3>2, <3>3 DEF Trail!Reopen, done
    <3> QED BY <3>4
  <2> QED BY <2>7, <2>8, <2>9, <2>10 DEF Next
<1> QED BY <1>1, <1>2, EgressInvariance, PTL DEF Spec, ImplementsTrail

-----------------------------------------------------------------------------
(* The ledger and its rotation.  The composition takes only steps of the     *)
(* writer and steps of the rotation core; the proofs of KeyRotation speak of *)
(* K's copy of the core, the composition of R's.                             *)

K == INSTANCE KeyRotation_proofs

LEMMA SameRing ==
  ASSUME NEW r
  PROVE  /\ R!ActiveEpoch(r) = K!ActiveEpoch(r)
         /\ R!RingVerifies(r) = K!RingVerifies(r)
         /\ \A s : R!WithStatus(r, s) = K!WithStatus(r, s)
<1>1. \A s : R!WithStatus(r, s) = K!WithStatus(r, s)
  BY DEF R!WithStatus, K!WithStatus
<1>2. R!ActiveEpoch(r) = K!ActiveEpoch(r)
  BY DEF R!ActiveEpoch, K!ActiveEpoch
<1>3. R!RingVerifies(r) = K!RingVerifies(r)
  BY <1>1 DEF R!RingVerifies, K!RingVerifies, R!EpochsDistinct, K!EpochsDistinct,
     R!TicksConsistent, K!TicksConsistent, R!OneActive, K!OneActive,
     R!AtMostOneStaged, K!AtMostOneStaged, R!Clash, K!Clash
<1> QED
  BY <1>1, <1>2, <1>3

(* The operations on the ring. *)
LEMMA SameOperations ==
  ASSUME NEW r, NEW key, NEW tick
  PROVE  /\ R!CanStageEpoch(r, key, tick) = K!CanStageEpoch(r, key, tick)
         /\ R!StageEpoch(r, key, tick) = K!StageEpoch(r, key, tick)
         /\ R!CanSwitchActive(r, tick) = K!CanSwitchActive(r, tick)
         /\ R!SwitchActive(r, tick) = K!SwitchActive(r, tick)
         /\ R!CanFallbackSwitch(r, tick) = K!CanFallbackSwitch(r, tick)
         /\ R!FallbackSwitch(r, tick) = K!FallbackSwitch(r, tick)
<1>1. R!CanStageEpoch(r, key, tick) = K!CanStageEpoch(r, key, tick)
  BY SameRing DEF R!CanStageEpoch, K!CanStageEpoch, R!Clash, K!Clash
<1>2. R!StageEpoch(r, key, tick) = K!StageEpoch(r, key, tick)
  BY DEF R!StageEpoch, K!StageEpoch, R!NewEpoch, K!NewEpoch
<1>3. R!CanSwitchActive(r, tick) = K!CanSwitchActive(r, tick)
  BY SameRing DEF R!CanSwitchActive, K!CanSwitchActive
<1>4. R!SwitchActive(r, tick) = K!SwitchActive(r, tick)
  BY DEF R!SwitchActive, K!SwitchActive
<1>5. R!CanFallbackSwitch(r, tick) = K!CanFallbackSwitch(r, tick)
  BY SameRing DEF R!CanFallbackSwitch, K!CanFallbackSwitch
<1>6. R!FallbackSwitch(r, tick) = K!FallbackSwitch(r, tick)
  BY SameRing DEF R!FallbackSwitch, K!FallbackSwitch
<1> QED
  BY <1>1, <1>2, <1>3, <1>4, <1>5, <1>6

(* The verdicts of the gates. *)
LEMMA SameVerdicts ==
  ASSUME NEW r, NEW e, NEW t, NEW x, NEW clauses, NEW votes
  PROVE  /\ R!AllOf(clauses) = K!AllOf(clauses)
         /\ R!LockAVerdict(r, e, x) = K!LockAVerdict(r, e, x)
         /\ R!LockBVerdict(r, t, clauses) = K!LockBVerdict(r, t, clauses)
         /\ R!LockCVerdict(votes, Quorum) = K!LockCVerdict(votes, Quorum)
         /\ \A how, b : R!RetireVerdict(r, e, how, b) = K!RetireVerdict(r, e, how, b)
<1> USE DEF R!ALLOW, K!ALLOW, R!DENY, K!DENY, R!NEUTRAL, K!NEUTRAL,
            R!UNKNOWN, K!UNKNOWN, R!Clause, K!Clause
<1>1. \A S : R!AllOf(S) = K!AllOf(S)
  BY DEF R!AllOf, K!AllOf
<1>2. R!LockAVerdict(r, e, x) = K!LockAVerdict(r, e, x)
  BY <1>1, SameRing DEF R!LockAVerdict, K!LockAVerdict, R!Clash, K!Clash
<1>3. R!LockBVerdict(r, t, clauses) = K!LockBVerdict(r, t, clauses)
  BY <1>1, SameRing DEF R!LockBVerdict, K!LockBVerdict
<1>4. R!LockCVerdict(votes, Quorum) = K!LockCVerdict(votes, Quorum)
  <2>1. R!Approvals(votes) = K!Approvals(votes)
    BY DEF R!Approvals, K!Approvals
  <2>2. \A m : R!Malformed(votes, m) = K!Malformed(votes, m)
    BY DEF R!Malformed, K!Malformed, R!ValidVote, K!ValidVote
  <2> QED
    BY <2>1, <2>2 DEF R!LockCVerdict, K!LockCVerdict, R!QuorumVerdict, K!QuorumVerdict,
                      R!Cardinality, K!Cardinality
<1>5. \A how, b : R!RetireVerdict(r, e, how, b) = K!RetireVerdict(r, e, how, b)
  BY <1>1, SameRing DEF R!RetireVerdict, K!RetireVerdict
<1> QED
  BY <1>1, <1>2, <1>3, <1>4, <1>5

(* Where the writer stands: with the signer; behind it, until the switch is
   verified; or with the candidate that a fallback revoked. *)
WriterStands ==
  LET act == K!ActiveEpoch(ring) IN
  \/ mem.epoch = act
  \/ phase = "switched" /\ mem.epoch = act - 1
  \/ /\ phase \in {"idle", "ready", "staged"}
     /\ mem.epoch = act + 1
     /\ act + 1 \in K!WithStatus(ring, "revoked")

(* The batches of a ledger are of epochs the ring has. *)
Known(l, n) ==
  \A i \in DOMAIN l : l[i] \in {Fragment, Garbled} \/ l[i].epoch \in 1..n

AuditedInv ==
  K!IInv /\ EgressInv /\ base = 0 /\ WriterStands /\ Known(ledger, Len(ring))

(* What a call makes of the lines: each is an old one, part of a line, or a
   batch of epoch e. *)
Appends(l, k, e) ==
  /\ DOMAIN l \subseteq DOMAIN k
  /\ \A i \in DOMAIN k :
       \/ i \in DOMAIN l /\ k[i] = l[i]
       \/ k[i] \in {Fragment, Garbled}
       \/ k[i].epoch = e

LEMMA AppendsCompose ==
  ASSUME NEW l, NEW k, NEW j, NEW e, Appends(l, k, e), Appends(k, j, e)
  PROVE  Appends(l, j, e)
BY DEF Appends

LEMMA AppendsNothing == ASSUME NEW l, NEW e PROVE Appends(l, l, e)
BY DEF Appends

LEMMA LineAppends ==
  ASSUME NEW l, l \in Seq(ToSet(l)), NEW x, NEW e, x = Fragment \/ x.epoch = e
  PROVE  Appends(l, AppendLine(l, x), e)
<1>1. CASE Torn(l)
  <2>1. AppendLine(l, x) = [l EXCEPT ![Len(l)] = Garbled] BY <1>1 DEF AppendLine
  <2> QED BY <1>1, <2>1, Replaced DEF Appends, Torn
<1>2. CASE ~Torn(l)
  <2>1. AppendLine(l, x) = Append(l, x) BY <1>2 DEF AppendLine
  <2>2. /\ \A i \in DOMAIN l : Append(l, x)[i] = l[i]
        /\ Append(l, x)[Len(l) + 1] = x
        /\ DOMAIN l = 1..Len(l) /\ DOMAIN Append(l, x) = 1..(Len(l) + 1)
        /\ Len(l) \in Nat
    BY Appended, LenProperties
  <2> DEFINE a == Append(l, x)
  <2> HIDE DEF a
  <2>3. DOMAIN l \subseteq DOMAIN a /\ \A i \in DOMAIN a : i \in DOMAIN l \/ i = Len(l) + 1
    BY <2>2 DEF a
  <2>4. Appends(l, a, e) BY <2>2, <2>3 DEF Appends, a
  <2> QED BY <2>1, <2>4 DEF a
<1> QED BY <1>1, <1>2

LEMMA FlushAppends ==
  ASSUME NEW m, NEW l, l \in Seq(ToSet(l)), NEW res \in Flush(m, l)
  PROVE  Appends(l, res.ledger, m.epoch) /\ res.mem.epoch = m.epoch
<1>1. CASE res = Result(m, l, TRUE)
  BY <1>1, AppendsNothing DEF Result
<1>2. CASE res = Result(Sealed(m), AppendLine(l, Batch(m)), TRUE)
  <2>1. res.ledger = AppendLine(l, Batch(m)) /\ res.mem = Sealed(m) BY <1>2 DEF Result
  <2>2. Batch(m).epoch = m.epoch BY DEF Batch
  <2>3. Appends(l, AppendLine(l, Batch(m)), m.epoch) BY <2>2, LineAppends
  <2> QED BY <2>1, <2>3 DEF Sealed
<1>3. CASE \E torn \in FailedAppend(l) : res = Result(m, torn, FALSE)
  <2>1. PICK torn \in FailedAppend(l) : res = Result(m, torn, FALSE) BY <1>3
  <2>2. torn = l \/ torn = AppendLine(l, Fragment) BY DEF FailedAppend, AppendLine
  <2>3. Appends(l, torn, m.epoch) BY <2>2, AppendsNothing, LineAppends
  <2> QED BY <2>1, <2>3 DEF Result
<1> QED BY <1>1, <1>2, <1>3 DEF Flush

(* A push seals under the writer's epoch and does not change it, though it
   may flush twice. *)
LEMMA PushAppends ==
  ASSUME NEW m, NEW l, NEW b, NEW o, Good(m, l, b, o), NEW r, NEW res \in Push(m, l, r)
  PROVE  Appends(l, res.ledger, m.epoch) /\ res.mem.epoch = m.epoch
<1>1. ASSUME NEW w, NEW k, k \in Seq(ToSet(k)), NEW f \in FlushIfDue(w, k)
      PROVE  Appends(k, f.ledger, w.epoch) /\ f.mem.epoch = w.epoch
  <2>1. CASE f \in Flush(w, k) BY <1>1, <2>1, FlushAppends
  <2>2. CASE f = Result(w, k, TRUE) BY <2>2, AppendsNothing DEF Result
  <2> QED BY <1>1, <2>1, <2>2 DEF FlushIfDue
<1>2. l \in Seq(ToSet(l)) BY DEF Good, Lines
<1>3. \A w : Stage(w, r).epoch = w.epoch BY DEF Stage
<1>4. CASE HasRoom(m) BY <1>1, <1>2, <1>3, <1>4 DEF Push
<1>5. CASE ~HasRoom(m)
  <2>1. PICK f \in Flush(m, l) :
          res \in IF f.ok THEN FlushIfDue(Stage(f.mem, r), f.ledger) ELSE {f}
    BY <1>5 DEF Push
  <2>2. Appends(l, f.ledger, m.epoch) /\ f.mem.epoch = m.epoch BY <1>2, FlushAppends
  <2>3. f.ledger \in Seq(ToSet(f.ledger)) BY FlushKeeps DEF Good, Lines
  <2>4. CASE ~f.ok BY <2>1, <2>2, <2>4
  <2>5. CASE f.ok
    <3>1. Appends(f.ledger, res.ledger, m.epoch) /\ res.mem.epoch = m.epoch
      BY <1>1, <1>3, <2>1, <2>2, <2>3, <2>5
    <3> QED BY <2>2, <3>1, AppendsCompose
  <2> QED BY <2>4, <2>5
<1> QED BY <1>4, <1>5

(* An adoption seals what is staged under the old epoch; the new one is in
   force if the seal was written. *)
LEMMA AdoptAppends ==
  ASSUME NEW m, NEW l, NEW b, NEW o, Good(m, l, b, o), NEW e, NEW res \in Adopt(m, l, e)
  PROVE  Appends(l, res.ledger, m.epoch) /\ res.mem.epoch \in {m.epoch, e}
<1>1. PICK f \in Flush(m, l) : res = IF f.ok THEN [f EXCEPT !.mem.epoch = e] ELSE f
  BY DEF Adopt
<1>2. Appends(l, f.ledger, m.epoch) /\ f.mem.epoch = m.epoch
  BY FlushAppends DEF Good, Lines
<1>3. f = Result(f.mem, f.ledger, f.ok) /\ Writer(f.mem) BY FlushKeeps DEF Good
<1>4. CASE ~f.ok BY <1>1, <1>2, <1>4
<1>5. CASE f.ok
  <2>1. res.ledger = f.ledger /\ res.mem = [f.mem EXCEPT !.epoch = e]
    BY <1>1, <1>3, <1>5 DEF Result
  <2>2. [f.mem EXCEPT !.epoch = e].epoch = e BY <1>3 DEF Writer
  <2> QED BY <1>2, <2>1, <2>2
<1> QED BY <1>4, <1>5

LEMMA KnownGrows ==
  ASSUME NEW l, NEW k, NEW n, NEW e \in 1..n, Known(l, n), Appends(l, k, e)
  PROVE  Known(k, n)
BY DEF Known, Appends

-----------------------------------------------------------------------------
(* The steps of the composition, seen from each part.                        *)

(* A rotation step is a step of the core, whatever the gates read. *)
LEMMA RotateIsCore ==
  ASSUME Rotate
  PROVE  K!Next /\ R!Next
<1> USE DEF R!ClosePhase, K!ClosePhase, R!ALLOW, K!ALLOW, R!DENY, K!DENY,
            R!UNKNOWN, K!UNKNOWN, ALLOW, DENY, UNKNOWN, Authorized,
            R!Authorized, K!Authorized
<1>1. /\ {Health, Canary, Drained} \subseteq K!Answers /\ ALLOW \in K!Answer
      /\ {Health, Canary, Drained} \subseteq R!Answers /\ ALLOW \in R!Answer
  BY DEF Health, Canary, Drained, R!Clause, K!Answers, R!Answers, K!Answer, R!Answer
<1> HIDE DEF Health, Canary, Drained
<1>2. CASE R!CheckReadiness(Health)
  <2>1. K!CheckReadiness(Health)
    BY <1>2, SameVerdicts DEF R!CheckReadiness, K!CheckReadiness,
       R!ReadinessVerdict, K!ReadinessVerdict
  <2> QED BY <1>1, <1>2, <2>1 DEF K!Next, R!Next
<1>3. ASSUME NEW key \in Candidates, NEW tick \in Ticks, R!StageCandidate(key, tick)
      PROVE  K!Next /\ R!Next
  <2>1. K!StageCandidate(key, tick)
    BY <1>3, SameOperations DEF R!StageCandidate, K!StageCandidate
  <2> QED BY <1>3, <2>1 DEF K!Next, R!Next
<1>4. ASSUME NEW t \in R!Handovers, NEW votes \in Ballots,
             R!CommitTripleLock(t, ALLOW, Health, votes)
      PROVE  K!Next /\ R!Next
  <2>1. t \in K!Handovers BY DEF R!Handovers, K!Handovers
  <2>2. PICK c \in K!WithStatus(ring, "staged") :
          R!Authorized(R!AllOf({R!LockAVerdict(ring, c, ALLOW),
                                R!LockBVerdict(ring, t, Health),
                                R!LockCVerdict(votes, Quorum)}))
    BY <1>4, SameRing DEF R!CommitTripleLock
  <2>3. K!Authorized(K!AllOf({K!LockAVerdict(ring, c, ALLOW),
                              K!LockBVerdict(ring, t, Health),
                              K!LockCVerdict(votes, Quorum)}))
    BY <2>2, SameVerdicts
  <2>4. K!CommitTripleLock(t, ALLOW, Health, votes)
    BY <1>4, <2>3 DEF R!CommitTripleLock, K!CommitTripleLock
  <2>5. K!Next BY <1>1, <2>1, <2>4 DEF K!Next
  <2>6. R!Next BY <1>1, <1>4 DEF R!Next
  <2> QED BY <2>5, <2>6
<1>5. ASSUME NEW tick \in Ticks, R!SwitchEpoch(tick) PROVE K!Next /\ R!Next
  <2>1. K!SwitchEpoch(tick)
    BY <1>5, SameOperations DEF R!SwitchEpoch, K!SwitchEpoch
  <2> QED BY <1>5, <2>1 DEF K!Next, R!Next
<1>6. CASE R!ConfirmTripleVerify(Canary)
  <2>1. K!ConfirmTripleVerify(Canary)
    BY <1>6, SameVerdicts DEF R!ConfirmTripleVerify, K!ConfirmTripleVerify,
       R!TripleVerifyVerdict, K!TripleVerifyVerdict
  <2> QED BY <1>1, <1>6, <2>1 DEF K!Next, R!Next
<1>7. ASSUME NEW tick \in Ticks, R!FallbackToOldEpoch(tick) PROVE K!Next /\ R!Next
  <2>1. K!FallbackToOldEpoch(tick)
    BY <1>7, SameOperations DEF R!FallbackToOldEpoch, K!FallbackToOldEpoch
  <2> QED BY <1>7, <2>1 DEF K!Next, R!Next
<1>8. ASSUME NEW votes \in Ballots, R!ConfirmDrain(Drained, votes) PROVE K!Next /\ R!Next
  <2>1. R!DrainVerdict(Drained, votes, Quorum) = K!DrainVerdict(Drained, votes, Quorum)
    BY SameVerdicts DEF R!DrainVerdict, K!DrainVerdict
  <2>2. K!ConfirmDrain(Drained, votes)
    BY <1>8, <2>1 DEF R!ConfirmDrain, K!ConfirmDrain
  <2> QED BY <1>1, <1>8, <2>2 DEF K!Next, R!Next
<1>9. ASSUME NEW how \in R!RetireModes, NEW recorded \in BOOLEAN, NEW tick \in Ticks,
             R!RetireOldEpoch(how, recorded, tick)
      PROVE  K!Next /\ R!Next
  <2> DEFINE old == K!ActiveEpoch(ring) - 1
  <2>1. how \in K!RetireModes BY DEF R!RetireModes, K!RetireModes
  <2>2. /\ R!CanMarkRevoked(ring, old, tick) = K!CanMarkRevoked(ring, old, tick)
        /\ R!MarkRevoked(ring, old) = K!MarkRevoked(ring, old)
    BY SameRing DEF R!CanMarkRevoked, K!CanMarkRevoked, R!MarkRevoked, K!MarkRevoked
  <2>3. R!RetireVerdict(ring, old, how, recorded) = K!RetireVerdict(ring, old, how, recorded)
    BY SameVerdicts
  <2>4. R!ActiveEpoch(ring) - 1 = old BY SameRing
  <2> HIDE DEF old
  <2>5. /\ R!Authorized(R!RetireVerdict(ring, old, how, recorded))
        /\ R!ClosePhase("drained", "retired")
        /\ \/ /\ how = "revoke-then-archive"
              /\ R!CanMarkRevoked(ring, old, tick)
              /\ ring' = R!MarkRevoked(ring, old)
           \/ how # "revoke-then-archive" /\ ring' = ring
        /\ transition' = transition
    BY <1>9, <2>4 DEF R!RetireOldEpoch
  <2>6. K!RetireOldEpoch(how, recorded, tick)
    BY <2>2, <2>3, <2>5 DEF K!RetireOldEpoch, old
  <2> QED BY <1>9, <2>1, <2>6 DEF K!Next, R!Next
<1>10. CASE R!BeginRotation
  BY <1>10 DEF R!BeginRotation, K!BeginRotation, K!Next, R!Next
<1> QED BY <1>2, <1>3, <1>4, <1>5, <1>6, <1>7, <1>8, <1>9, <1>10 DEF Rotate

(* A call of the writer, and an adoption of the active epoch, are steps of
   the ledger. *)
LEMMA CallIsEgress ==
  ASSUME AdoptActive \/ Write
  PROVE  Next
<1>1. CASE AdoptActive
  <2>1. AdoptEpoch(Active) /\ Active \in Epochs BY <1>1 DEF AdoptActive, AdoptEpoch, CanAdopt
  <2> QED BY <2>1 DEF Next
<1>2. CASE Write BY <1>2 DEF Write, Next
<1> QED BY <1>1, <1>2

(* The steps of the composition leave one part alone. *)
LEMMA StepOfParts ==
  ASSUME [AuditedNext]_auditedVars
  PROVE  [K!Next]_(K!vars) /\ [R!Next]_(R!vars) /\ [Next]_vars
<1> USE DEF K!vars, R!vars, rotation
<1>1. CASE Rotate BY <1>1, RotateIsCore DEF Rotate
<1>2. CASE AdoptActive \/ Write
  <2>1. Next BY <1>2, CallIsEgress
  <2>2. UNCHANGED rotation BY <1>2 DEF AdoptActive, Write
  <2> QED BY <2>1, <2>2
<1>3. CASE UNCHANGED auditedVars BY <1>3 DEF auditedVars, vars
<1> QED BY <1>1, <1>2, <1>3 DEF AuditedNext

LEMMA InitOfParts ==
  ASSUME AuditedInit
  PROVE  K!Init /\ R!Init /\ Init
<1>1. R!Init BY DEF AuditedInit
<1>2. K!Init BY <1>1 DEF R!Init, K!Init, R!NewEpoch, K!NewEpoch
<1>3. Init BY RotationAssumption DEF AuditedInit, Init
<1> QED BY <1>1, <1>2, <1>3

(* The composition is a rotation of the ring and a ledger of its own: nothing
   that either does with the other's answers leaves its specification, so the
   theorems about each hold of both together. *)
THEOREM ComposesBoth == AuditedSpec => R!Spec /\ Spec
<1>1. AuditedInit => R!Init /\ Init BY InitOfParts
<1>2. [AuditedNext]_auditedVars => [R!Next]_(R!vars) /\ [Next]_vars BY StepOfParts
<1> QED BY <1>1, <1>2, PTL DEF AuditedSpec, R!Spec, Spec

-----------------------------------------------------------------------------
LEMMA RingFacts ==
  ASSUME K!IInv
  PROVE  /\ Len(ring) \in Nat /\ K!ActiveEpoch(ring) \in 1..Len(ring)
         /\ phase \in {"switched", "verified", "drained", "retired"} =>
              K!ActiveEpoch(ring) - 1 \in 1..Len(ring)
         /\ phase = "locked" =>
              K!ActiveEpoch(ring) + 1 \notin K!WithStatus(ring, "revoked")
         /\ Active = K!ActiveEpoch(ring)
<1> DEFINE act == K!ActiveEpoch(ring)
<1>1. act \in 1..Len(ring) /\ Len(ring) \in Nat /\ Active = act
  BY K!ActiveEpochUnique, SameRing, RotationAssumption
     DEF K!IInv, K!RingAlwaysVerifies, K!TypeOK, Active
<1>2. phase \in {"switched", "verified", "drained", "retired"} => act - 1 \in 1..Len(ring)
  BY DEF K!IInv, K!PhaseMatchesRing, K!WithStatus
<1>3. phase = "locked" => act + 1 \notin K!WithStatus(ring, "revoked")
  <2>1. phase = "locked" => K!WithStatus(ring, "staged") = {act + 1}
    BY DEF K!IInv, K!PhaseMatchesRing
  <2> QED BY <2>1 DEF K!WithStatus
<1> QED BY <1>1, <1>2, <1>3

LEMMA WriterKnown ==
  ASSUME K!IInv, WriterStands
  PROVE  mem.epoch \in 1..Len(ring)
BY RingFacts DEF WriterStands, K!WithStatus

(* A call of the writer: it seals under the writer's epoch and leaves the
   writer there, or with the signer. *)
LEMMA CallEffects ==
  ASSUME EgressInv, AdoptActive \/ Write
  PROVE  /\ Appends(ledger, ledger', mem.epoch)
         /\ mem'.epoch \in {mem.epoch, Active}
         /\ UNCHANGED <<ring, phase, transition, base>>
<1>1. Good(mem, ledger, base, offered) /\ ledger \in Seq(ToSet(ledger))
  BY DEF EgressInv, Good, Lines
<1>2. UNCHANGED <<ring, phase, transition, base>>
  BY DEF AdoptActive, Write, rotation, AdoptEpoch, Record, FlushNow
<1>3. CASE AdoptActive
  <2>1. PICK res \in Adopt(mem, ledger, Active) : Take(res)
    BY <1>3 DEF AdoptActive, AdoptEpoch
  <2> QED BY <1>1, <1>2, <2>1, AdoptAppends DEF Take
<1>4. CASE Record
  <2>1. PICK res \in Push(mem, ledger, Len(offered) + 1) : Take(res) BY <1>4 DEF Record
  <2> QED BY <1>1, <1>2, <2>1, PushAppends DEF Take
<1>5. CASE FlushNow
  <2>1. PICK res \in Flush(mem, ledger) : Take(res) BY <1>5 DEF FlushNow
  <2> QED BY <1>1, <1>2, <2>1, FlushAppends DEF Take
<1> QED BY <1>3, <1>4, <1>5 DEF Write

(* What the canary reads: a ledger that verifies, with a batch of the active
   epoch at its end, has a writer of that epoch or a later one. *)
LEMMA CanaryReads ==
  ASSUME EgressInv, base = 0, R!ConfirmTripleVerify(Canary)
  PROVE  mem.epoch >= Active
<1> DEFINE newest == ledger # <<>> /\ Last(ledger).epoch = Active
<1>1. R!Authorized(R!AllOf(Canary)) BY DEF R!ConfirmTripleVerify, R!TripleVerifyVerdict
<1>2. newest /\ LedgerVerifies
  <2>1. R!DENY \notin Canary
    BY <1>1 DEF R!Authorized, R!AllOf, R!ALLOW, R!DENY, R!NEUTRAL, R!UNKNOWN
  <2>2. R!Clause(newest) \in Canary /\ R!Clause(LedgerVerifies) \in Canary BY DEF Canary
  <2> QED BY <2>1, <2>2 DEF R!Clause
<1>3. Readable(ledger)
  <2>1. \A i \in DOMAIN ledger : ledger[i].epoch # Legacy
    BY <1>2 DEF LedgerVerifies, VerifyChainEpochAware
  <2>2. Fragment.epoch = Legacy /\ Garbled.epoch = Legacy BY DEF Fragment, Garbled, NoBatch
  <2> QED BY <2>1, <2>2 DEF Readable
<1>4. ledger \in Seq(ToSet(ledger)) /\ Len(ledger) \in Nat /\ Len(ledger) # 0
  <2>1. ledger \in Seq(ToSet(ledger)) BY DEF EgressInv, Good, Lines
  <2> QED BY <1>2, <2>1, LenProperties, EmptySeq
<1>5. AtEnd(mem, ledger, 0) BY <1>3 DEF EgressInv, Good, Chained
<1>6. Last(ledger) = ledger[Len(ledger)] BY DEF Last
<1> QED BY <1>2, <1>4, <1>5, <1>6 DEF AtEnd

(* The rotation moves the signer, and where the writer stands with it: a
   switch leaves it one epoch behind, the canary shows that it followed, and
   a fallback leaves it with the old signer or with the revoked candidate. *)
LEMMA RotateKeepsWriter ==
  ASSUME AuditedInv, Rotate, K!IInv'
  PROVE  WriterStands'
<1> DEFINE act == K!ActiveEpoch(ring)
           new == K!ActiveEpoch(ring')
           Rejected(a, r) == mem.epoch = a + 1 /\ a + 1 \in K!WithStatus(r, "revoked")
<1>1. /\ mem' = mem /\ Len(ring) \in Nat /\ Len(ring') >= Len(ring)
      /\ act \in 1..Len(ring) /\ Active = act
      /\ \A i \in 1..Len(ring) : ring[i].status = "revoked" => ring'[i] = ring[i]
      /\ new # act => \/ K!SwitchesSigner /\ new = act + 1
                      \/ K!FallsBack /\ new = act - 1
  <2>1. [K!Next]_(K!vars) /\ mem' = mem BY RotateIsCore DEF Rotate, vars
  <2> QED BY <2>1, RingFacts, K!RingStepEffects, RotationAssumption DEF AuditedInv
<1>2. new # act => phase \in {"locked", "switched"}
  BY <1>1 DEF K!SwitchesSigner, K!FallsBack
<1>3. Rejected(act, ring) => Rejected(act, ring')
  BY <1>1 DEF K!WithStatus
<1>4. \/ mem.epoch = act
      \/ phase = "switched" /\ mem.epoch = act - 1
      \/ phase \in {"idle", "ready", "staged"} /\ Rejected(act, ring)
  BY DEF AuditedInv, WriterStands
<1>5. phase' = "locked" => ~Rejected(new, ring')
  <2>1. phase' = "locked" => K!WithStatus(ring', "staged") = {new + 1}
    BY DEF K!IInv, K!PhaseMatchesRing
  <2> QED BY <2>1 DEF K!WithStatus
<1> SUFFICES \/ mem.epoch = new
             \/ phase' = "switched" /\ mem.epoch = new - 1
             \/ phase' \in {"idle", "ready", "staged"} /\ Rejected(new, ring')
  BY <1>1 DEF WriterStands
<1> HIDE DEF act, new, Rejected
<1> USE DEF R!ClosePhase
<1>6. CASE \/ R!CheckReadiness(Health)
           \/ \E key \in Candidates, tick \in Ticks : R!StageCandidate(key, tick)
  BY <1>2, <1>3, <1>4, <1>6 DEF R!CheckReadiness, R!StageCandidate
<1>7. CASE \E t \in R!Handovers, votes \in Ballots : R!CommitTripleLock(t, ALLOW, Health, votes)
  BY <1>2, <1>3, <1>4, <1>5, <1>7 DEF R!CommitTripleLock
<1>8. CASE \E tick \in Ticks : R!SwitchEpoch(tick)
  <2>1. phase = "locked" /\ phase' = "switched" BY <1>8 DEF R!SwitchEpoch
  <2>2. new \in {act, act + 1} BY <1>1, <2>1 DEF K!FallsBack
  <2> QED BY <1>1, <1>4, <2>1, <2>2
<1>9. CASE R!ConfirmTripleVerify(Canary)
  <2>1. phase = "switched" /\ ring' = ring BY <1>9 DEF R!ConfirmTripleVerify
  <2>2. mem.epoch >= act BY <1>1, <1>9, CanaryReads DEF AuditedInv
  <2> QED BY <1>1, <1>4, <2>1, <2>2 DEF act, new
<1>10. CASE \E tick \in Ticks : R!FallbackToOldEpoch(tick)
  <2>1. PICK tick \in Ticks : R!FallbackToOldEpoch(tick) BY <1>10
  <2>2. /\ phase = "switched" /\ phase' = "idle"
        /\ K!CanFallbackSwitch(ring, tick) /\ ring' = K!FallbackSwitch(ring, tick)
    BY <2>1, SameOperations DEF R!FallbackToOldEpoch
  <2>3. K!RingType(ring) /\ K!WithStatus(ring, "staged") = {}
    BY <2>2 DEF AuditedInv, K!IInv, K!TypeOK, K!RingType, K!PhaseMatchesRing
  <2>4. new = act - 1 /\ ring'[act].status = "revoked" /\ Len(ring') = Len(ring)
    BY <2>2, <2>3, K!FallbackSwitchVerifies, RotationAssumption DEF act, new
  <2>5. act \in K!WithStatus(ring', "revoked") BY <1>1, <2>4 DEF K!WithStatus
  <2> QED BY <1>1, <1>4, <2>2, <2>4, <2>5 DEF Rejected
<1>11. CASE \/ \E votes \in Ballots : R!ConfirmDrain(Drained, votes)
            \/ \E how \in R!RetireModes, recorded \in BOOLEAN, tick \in Ticks :
                 R!RetireOldEpoch(how, recorded, tick)
            \/ R!BeginRotation
  BY <1>2, <1>4, <1>11 DEF R!ConfirmDrain, R!RetireOldEpoch, R!BeginRotation
<1> QED BY <1>6, <1>7, <1>8, <1>9, <1>10, <1>11 DEF Rotate

LEMMA InitAudited == AuditedInit => AuditedInv
<1> SUFFICES ASSUME AuditedInit PROVE AuditedInv OBVIOUS
<1>1. K!IInv BY InitOfParts, K!InitEstablishes, RotationAssumption
<1>2. EgressInv BY InitOfParts, InitEgress
<1>3. mem.epoch = 1 /\ base = 0 /\ ledger = <<>> BY DEF AuditedInit, NewWriter
<1>4. Len(ring) = 1 BY DEF AuditedInit, R!Init
<1>5. WriterStands BY <1>1, <1>3, <1>4, RingFacts DEF WriterStands
<1>6. Known(ledger, Len(ring)) BY <1>3 DEF Known
<1> QED BY <1>1, <1>2, <1>3, <1>5, <1>6 DEF AuditedInv

LEMMA StepAudited == AuditedInv /\ [AuditedNext]_auditedVars => AuditedInv'
<1> SUFFICES ASSUME AuditedInv, [AuditedNext]_auditedVars PROVE AuditedInv' OBVIOUS
<1>1. /\ K!IInv /\ EgressInv /\ base = 0 /\ WriterStands /\ Known(ledger, Len(ring))
  BY DEF AuditedInv
<1>2. K!IInv' BY <1>1, StepOfParts, K!NextPreserves, RotationAssumption
<1>3. EgressInv' BY <1>1, StepOfParts, StepEgress
<1>4. CASE Rotate
  <2>1. base' = 0 /\ ledger' = ledger BY <1>1, <1>4 DEF Rotate, vars
  <2>2. Len(ring') >= Len(ring) /\ Len(ring) \in Nat /\ Len(ring') \in Nat
    BY <1>1, StepOfParts, RingFacts, K!RingStepEffects, RotationAssumption
  <2>3. Known(ledger', Len(ring')) BY <1>1, <2>1, <2>2 DEF Known
  <2>4. WriterStands' BY <1>2, <1>4, RotateKeepsWriter
  <2> QED BY <1>2, <1>3, <2>1, <2>3, <2>4 DEF AuditedInv
<1>5. CASE AdoptActive \/ Write
  <2>1. /\ Appends(ledger, ledger', mem.epoch)
        /\ mem'.epoch \in {mem.epoch, Active}
        /\ UNCHANGED <<ring, phase, transition, base>>
    BY <1>1, <1>5, CallEffects
  <2>2. Known(ledger', Len(ring')) BY <1>1, <2>1, WriterKnown, KnownGrows
  <2>3. WriterStands' BY <1>1, <2>1, RingFacts DEF WriterStands
  <2> QED BY <1>1, <1>2, <1>3, <2>1, <2>2, <2>3 DEF AuditedInv
<1>6. CASE UNCHANGED auditedVars
  <2>1. UNCHANGED <<ring, phase, mem, ledger, base>>
    BY <1>6 DEF auditedVars, rotation, vars
  <2> QED BY <1>1, <1>2, <1>3, <2>1 DEF AuditedInv, WriterStands
<1> QED BY <1>4, <1>5, <1>6 DEF AuditedNext

(* However rotation, writing and adoption interleave, the ring and the ledger
   are each well formed, the writer stands with the signer or beside it, and
   the ledger's batches are of epochs the ring has. *)
THEOREM AuditedInvariance == AuditedSpec => []AuditedInv
BY InitAudited, StepAudited, PTL DEF AuditedSpec

(* From the canary's end on, the writer seals under the active epoch: no epoch
   is archived or destroyed while a batch may still be sealed by it. *)
THEOREM OldEpochIsLeft == AuditedSpec => []WriterLeftOldEpoch
<1>1. AuditedInv => WriterLeftOldEpoch
  BY RingFacts DEF AuditedInv, WriterStands, WriterLeftOldEpoch
<1> QED BY <1>1, AuditedInvariance, PTL

(* A ledger without torn lines stops verifying only by revocation. *)
THEOREM OnlyRevocationLoses == AuditedSpec => []LossOnlyByRevocation
<1>1. AuditedInv => LossOnlyByRevocation
  <2> SUFFICES ASSUME AuditedInv, Readable(ledger), ~LedgerVerifies
               PROVE  \E e \in R!WithStatus(ring, "revoked") : SealedBy(e)
    BY DEF LossOnlyByRevocation
  <2>1. /\ ledger \in Seq(ToSet(ledger)) /\ DOMAIN ledger = 1..Len(ledger)
        /\ Len(ledger) \in Nat /\ Len(ring) \in Nat
    BY LenProperties, RingFacts DEF AuditedInv, EgressInv, Good, Lines
  <2>2. \A i \in DOMAIN ledger : Link(ledger, 0, i)
    BY <2>1 DEF AuditedInv, EgressInv, Good, Chained
  <2>3. \A i \in DOMAIN ledger : ledger[i].epoch \in 1..Len(ring)
    BY DEF AuditedInv, Known, Readable
  <2>4. ChainLinks(ledger) BY <2>1, <2>2 DEF Link, ChainLinks
  <2>5. \A i \in DOMAIN ledger :
          /\ ledger[i].epoch # Legacy
          /\ i > 1 => ledger[i].epoch >= ledger[i - 1].epoch
          /\ MacHolds(ledger[i], ledger[i].epoch)
    BY <2>1, <2>2, <2>3 DEF Link, MacHolds, Legacy
  <2>6. PICK i \in DOMAIN ledger : ledger[i].epoch \in Keyless
    BY <2>4, <2>5 DEF LedgerVerifies, VerifyChainEpochAware
  <2>7. ledger[i].epoch \in R!WithStatus(ring, "revoked")
    BY <2>3, <2>6 DEF Keyless, R!Verifiable, R!WithStatus
  <2> QED BY <2>7 DEF SealedBy
<1> QED BY <1>1, AuditedInvariance, PTL

(* No batch is ever sealed by an epoch that may not seal, wherever in a
   rotation the push, flush or adoption that appends it falls. *)
THEOREM OnlyLiveEpochsSeal == AuditedSpec => SealsUnderLiveEpoch
<1> DEFINE A == \A i \in DOMAIN ledger' \ DOMAIN ledger :
                  \/ ledger'[i] \in {Fragment, Garbled}
                  \/ MaySeal(ledger'[i].epoch)
<1>1. AuditedInv /\ [AuditedNext]_auditedVars => [A]_auditedVars
  <2> SUFFICES ASSUME AuditedInv, AuditedNext PROVE A OBVIOUS
  <2>1. CASE Rotate
    <3>1. ledger' = ledger BY <2>1 DEF Rotate, vars
    <3> QED BY <3>1
  <2>2. CASE AdoptActive \/ Write
    <3>1. Appends(ledger, ledger', mem.epoch) BY <2>2, CallEffects DEF AuditedInv
    <3>2. MaySeal(mem.epoch)
      BY RingFacts, SameRing DEF AuditedInv, WriterStands, MaySeal
    <3> QED BY <3>1, <3>2 DEF Appends
  <2> QED BY <2>1, <2>2 DEF AuditedNext
<1> QED BY <1>1, AuditedInvariance, PTL DEF AuditedSpec, SealsUnderLiveEpoch

=============================================================================
