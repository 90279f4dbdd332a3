----------------------------- MODULE AuditEgress ----------------------------
(***************************************************************************)
(* The audit ledger's write path (galerina-core-sentinel-egress): records  *)
(* are staged in a bounded ring, flushed as MAC-chained batches by one     *)
(* file append each, and the sealing key rotates by epoch.  An append may  *)
(* fail, a record may be offered while the ring is full, and the writer    *)
(* may be opened again over the ledger an earlier one left behind.         *)
(*                                                                         *)
(* A record is its place in the order of offering; a MAC is the tuple of   *)
(* everything it binds; the key of an epoch is the epoch itself, and epoch *)
(* Legacy is the writer that was given none.                               *)
(***************************************************************************)
EXTENDS Integers, Sequences, SequencesExt

CONSTANTS
  BatchSizes,    \* values of the batchSize option
  Capacities,    \* values of the ringCapacity option
  Epochs,        \* epoch identifiers custody can supply a key for
  TornWrites,    \* may an append that throws leave part of its line behind
  MaxRecords,    \* bound: records ever offered
  MaxLifetimes   \* bound: writers ever opened over the ledger

Legacy == 0

ASSUME EgressAssumption ==
  /\ BatchSizes \subseteq Nat \ {0}
  /\ Capacities \subseteq Nat \ {0}
  /\ Epochs \subseteq Nat \ {Legacy}
  /\ TornWrites \in BOOLEAN
  /\ MaxRecords \in Nat
  /\ MaxLifetimes \in Nat

VARIABLES
  mem,       \* the open writer: options, staged records, chain head, epoch
  ledger,    \* the lines on disk, in file order: batches, unless torn
  offered,   \* history: the epoch in force when each record was offered
  base,      \* history: batches on disk when this writer was opened
  lifetimes  \* bound: writers opened so far

vars == <<mem, ledger, offered, base, lifetimes>>

GENESIS == <<>>

Mac(key, epoch, seq, prev, records) == <<key, epoch, seq, prev, records>>

NewWriter(batchSize, capacity, epoch) ==
  [batchSize |-> batchSize, capacity |-> capacity, pending |-> <<>>,
   seq |-> 0, head |-> GENESIS, epoch |-> epoch]

TypeOK ==
  /\ mem.batchSize \in BatchSizes /\ mem.capacity \in Capacities
  /\ mem.pending \in Seq(1..MaxRecords) /\ Len(mem.pending) <= mem.capacity
  /\ mem.epoch \in Epochs \cup {Legacy}
  /\ mem.seq \in Nat /\ (mem.seq = 0 <=> mem.head = GENESIS)
  /\ offered \in Seq(Epochs \cup {Legacy})
  /\ base \in 0..Len(ledger)

-----------------------------------------------------------------------------
(* One call's effect is a result: the writer and ledger it leaves behind and *)
(* whether it returned normally.  A throw is a result too.                   *)

Result(m, l, ok) == [mem |-> m, ledger |-> l, ok |-> ok]

Batch(m) ==
  [seq |-> m.seq, prev |-> m.head, records |-> m.pending, epoch |-> m.epoch,
   hash |-> Mac(m.epoch, m.epoch, m.seq, m.head, m.pending)]

Sealed(m) ==
  [m EXCEPT !.pending = <<>>, !.seq = @ + 1, !.head = Batch(m).hash]

(* A fragment is the beginning of a line, without its end; a line appended to
   it is glued to it, and the two together are no batch. *)
NoBatch(seq) ==
  [seq |-> seq, prev |-> GENESIS, records |-> <<>>, epoch |-> Legacy, hash |-> GENESIS]
Fragment == NoBatch(-1)
Garbled  == NoBatch(-2)

Torn(l) == l # <<>> /\ Last(l) = Fragment

AppendLine(l, line) ==
  IF Torn(l) THEN [l EXCEPT ![Len(l)] = Garbled] ELSE Append(l, line)

(* What a throwing append may leave: nothing, or part of its line. *)
FailedAppend(l) ==
  {l} \cup IF TornWrites THEN {IF Torn(l) THEN l ELSE Append(l, Fragment)} ELSE {}

(* Mutants: the drained records of a failed append are not staged again; the
   head moves before the append is known to have happened. *)
Flush_DropsOnError(m, l) ==
  IF m.pending = <<>> THEN {Result(m, l, TRUE)}
  ELSE {Result(Sealed(m), Append(l, Batch(m)), TRUE),
        Result([m EXCEPT !.pending = <<>>], l, FALSE)}

Flush_AdvancesFirst(m, l) ==
  IF m.pending = <<>> THEN {Result(m, l, TRUE)}
  ELSE {Result(Sealed(m), Append(l, Batch(m)), TRUE),
        Result([Sealed(m) EXCEPT !.pending = m.pending], l, FALSE)}

(* flush: the append happens and the chain advances, or it throws, the
   records are staged again and the chain stands still. *)
Flush(m, l) ==
  IF m.pending = <<>> THEN {Result(m, l, TRUE)}
  ELSE {Result(Sealed(m), AppendLine(l, Batch(m)), TRUE)}
         \cup {Result(m, torn, FALSE) : torn \in FailedAppend(l)}

(* RingBuffer.push: refused when the buffer is full. *)
HasRoom(m) == Len(m.pending) < m.capacity

Stage(m, r) == [m EXCEPT !.pending = Append(@, r)]

FlushIfDue(m, l) ==
  IF ~HasRoom(m) \/ Len(m.pending) >= m.batchSize
  THEN Flush(m, l) ELSE {Result(m, l, TRUE)}

(* push: a full ring is flushed first, and if that throws the record was
   never staged; a record that is staged stays staged whatever the flush it
   triggers does. *)
Push(m, l, r) ==
  IF HasRoom(m) THEN FlushIfDue(Stage(m, r), l)
  ELSE UNION {IF f.ok THEN FlushIfDue(Stage(f.mem, r), f.ledger) ELSE {f}
              : f \in Flush(m, l)}

(* Mutant: what is staged is left for the new key to seal. *)
Adopt_NoFlush(m, l, epoch) == {Result([m EXCEPT !.epoch = epoch], l, TRUE)}

(* adoptEpoch: what is staged is sealed under the old key first, and a flush
   that throws leaves the old epoch in force. *)
Adopt(m, l, epoch) ==
  {IF f.ok THEN [f EXCEPT !.mem.epoch = epoch] ELSE f : f \in Flush(m, l)}

CanAdopt(m, epoch) == epoch \in Epochs /\ epoch > m.epoch

-----------------------------------------------------------------------------
(* Verification *)

(* Mutant: the line that compares prevHash, seq and count is gone. *)
ChainLinks_Unchecked(batches) == TRUE

ChainLinks(batches) ==
  \A i \in DOMAIN batches :
    /\ batches[i].prev = IF i = 1 THEN GENESIS ELSE batches[i - 1].hash
    /\ batches[i].seq = i - 1

(* readEgressLedger parses every line, and throws if one does not parse. *)
Readable(l) == \A i \in DOMAIN l : l[i] \notin {Fragment, Garbled}

MacHolds(b, key) == b.hash = Mac(key, b.epoch, b.seq, b.prev, b.records)

VerifyChain(batches, key) ==
  /\ ChainLinks(batches)
  /\ \A i \in DOMAIN batches : MacHolds(batches[i], key)

(* keyless: the epochs whose key lookup answers null, for the ring does not
   know them or has revoked them. *)
VerifyChainEpochAware(batches, keyless) ==
  /\ ChainLinks(batches)
  /\ \A i \in DOMAIN batches :
       /\ batches[i].epoch # Legacy
       /\ i > 1 => batches[i].epoch >= batches[i - 1].epoch
       /\ batches[i].epoch \notin keyless
       /\ MacHolds(batches[i], batches[i].epoch)

-----------------------------------------------------------------------------
Take(res) == mem' = res.mem /\ ledger' = res.ledger

Record ==
  /\ Len(offered) < MaxRecords
  /\ \E res \in Push(mem, ledger, Len(offered) + 1) : Take(res)
  /\ offered' = Append(offered, mem.epoch)
  /\ UNCHANGED <<base, lifetimes>>

FlushNow ==
  /\ \E res \in Flush(mem, ledger) : Take(res)
  /\ UNCHANGED <<offered, base, lifetimes>>

AdoptEpoch(epoch) ==
  /\ CanAdopt(mem, epoch)
  /\ \E res \in Adopt(mem, ledger, epoch) : Take(res)
  /\ UNCHANGED <<offered, base, lifetimes>>

(* The process ends, its staged records with it, and another one constructs
   a writer over the same directory. *)
Reopen(batchSize, capacity, epoch) ==
  /\ lifetimes < MaxLifetimes
  /\ lifetimes' = lifetimes + 1
  /\ mem' = NewWriter(batchSize, capacity, epoch)
  /\ base' = Len(ledger)
  /\ UNCHANGED <<ledger, offered>>

Init ==
  /\ \E batchSize \in BatchSizes, capacity \in Capacities,
        epoch \in Epochs \cup {Legacy} :
       mem = NewWriter(batchSize, capacity, epoch)
  /\ ledger = <<>> /\ offered = <<>> /\ base = 0 /\ lifetimes = 1

Next ==
  \/ Record
  \/ FlushNow
  \/ \E epoch \in Epochs : AdoptEpoch(epoch)
  \/ \E batchSize \in BatchSizes, capacity \in Capacities,
        epoch \in Epochs \cup {Legacy} : Reopen(batchSize, capacity, epoch)

Spec == Init /\ [][Next]_vars

-----------------------------------------------------------------------------
(* Properties *)

(* The batches this writer appended. *)
Lifetime == SubSeq(ledger, base + 1, Len(ledger))

RecordsOf(batches) == FlattenSeq([i \in DOMAIN batches |-> batches[i].records])

(* Whatever fails and is retried in between, the batches of one writer, if the
   ledger can be read, chain from genesis, and the verifier that fits them
   accepts them: the single-key one when the epoch never changed, the
   epoch-aware one when every batch carries an epoch. *)
LifetimeVerifies ==
  Readable(ledger) =>
  /\ \A e \in Epochs \cup {Legacy} :
       (\A i \in DOMAIN Lifetime : Lifetime[i].epoch = e) => VerifyChain(Lifetime, e)
  /\ (\A i \in DOMAIN Lifetime : Lifetime[i].epoch # Legacy) =>
       VerifyChainEpochAware(Lifetime, {})

(* No record straddles a rotation: the epoch that seals a record is the epoch
   that was in force when its caller pushed it, even if the first attempts to
   write it failed. *)
NoRecordStraddles ==
  /\ \A i \in DOMAIN ledger : \A r \in ToSet(ledger[i].records) :
       ledger[i].epoch = offered[r]
  /\ \A r \in ToSet(mem.pending) : mem.epoch = offered[r]

(* Removing an inner batch, exchanging neighbours or rewriting a batch's
   records is noticed by both verifiers. *)
Damaged(batches) ==
  {RemoveAt(batches, i) : i \in 1..(Len(batches) - 1)}
    \cup {SubSeq(batches, 1, i - 1) \o <<batches[i + 1], batches[i]>>
            \o SubSeq(batches, i + 2, Len(batches)) : i \in 1..(Len(batches) - 1)}
    \cup {[batches EXCEPT ![i].records = Tail(@)] : i \in DOMAIN batches}

DamageIsNoticed ==
  Readable(ledger) => \A bad \in Damaged(Lifetime) :
    /\ ~VerifyChainEpochAware(bad, {})
    /\ \A e \in Epochs \cup {Legacy} : ~VerifyChain(bad, e)

(* The writer seen as an audit trail. *)
Trail == INSTANCE AuditTrail WITH
  offered <- Len(offered),
  log <- RecordsOf(ledger) \o mem.pending,
  durable <- Len(RecordsOf(ledger)),
  capacity <- mem.capacity

(* Until an append leaves part of its line behind, the writer implements the
   abstract trail: every record the sink has taken is on disk or staged, once,
   in order; it turns a record away only while the ring is full; a crash costs
   the staged records and nothing else. *)
ImplementsTrail ==
  Trail!Init /\ [][Readable(ledger') => [Trail!Next]_(Trail!vars)]_vars

=============================================================================
