# Galerina: TLA+ models of its keys, ledgers, checkpoints, secrets, scopes and request kernel

Galerina is a governed programming language with its compiler, runtime and
framework packages (`packages-ts/`). Most of the repository is a sequential
compiler and pure policy checks. What can go wrong in ways a unit test hardly
reaches sits in a handful of small stateful parts: keys that rotate, a ledger
that must stay verifiable while they do, checkpoints and published generations that
must survive crashes, secrets that must never be served stale, scopes of
killable tasks, and the kernel that runs requests between their awaits. This
directory models those parts, model-checks them with TLC and proves, with TLAPS
and for every value of their constants, the safety of the key machine, the
audit writer, the registry rotation and its checkpoints, the cold-boot
checkpoints, the secrets vault, the await scope over its processes, the request
pipeline and the generation store.

Paths below are relative to `packages-ts/`.

## 1. Inventory

### 1.1 Parts that are modelled

| Part | Code | State it keeps | Operations |
|---|---|---|---|
| Verdict algebra, witness quorum | `galerina-tower-citizen/src/three-valued-governance.ts`, `quorum.ts` | none | `vAnd`, `vOr`, `vNot`, `allOf`, `anyOf`, `authorize`, `decideAtBoundary`, `consensusTritN`, `tally`, `quorumVerdict` |
| Key ring and triple-lock rotation | `galerina-tower-citizen/src/key-rotation.ts` | ring of epochs, phase, recorded handover | eight phase handlers, five ring operations, seven gates |
| Audit egress | `galerina-core-sentinel-egress/src/audit-egress.ts`, `ring-buffer.ts` | staged records, chain head, sequence, epoch; the ledger file | `push`, `flush`, `adoptEpoch`, constructor, two verifiers, `readEgressLedger` |
| Registry rotation controller | `galerina-framework-app-kernel/src/registry-rotation-controller.ts`, `galerina-tower-citizen/src/registry-key-rotation.ts` | the rotation process, accepted authority and the floor below it; sealed checkpoints; the caller's floors | `advanceRegistryRotationState`, `sealRegistryRotationCheckpoint`, `restoreRegistryRotationCheckpoint` |
| Cold-boot checkpoints | `galerina-core-sentinel-state/src/cold-boot.ts`, `atomic-writer.ts`, `state-serializer.ts` | the floor in memory; `.snap` and `.tmp` files | `checkpoint`, `restore`, `scrub` |
| Secrets vault | `galerina-ext-secrets-vault/src/rotation-manager.ts` | handles, leases, loads, reads in progress, owed wipes | `load`, `rotate`, `rotateOrFault`, `useActive`, `dispose` |
| Structured await and isolated host | `galerina-core-runtime/src/structured-await.ts`, `isolated-host.ts` | scope status, intent, winner, task statuses; a process, its timers and its result per task; the sequence stores of signer and verifier | start, tick, cancel, task events; spawn, close, error, data, two timers, cancel; sign, verify |
| App kernel request pipeline | `galerina-framework-app-kernel/src/kernel.ts`, `secret-gate.ts`, `release-commit-point.ts`; `galerina-ext-secrets-spore/src/arena.ts` | concurrency slots, idempotency keys, audit reservations and events, release leases, the secret and its revocation epoch; per request its deadline and latches | `handle`, `runPipeline`, the `getSecret` accessor, `claim`, `reserve`, `commit`, `takeDrained`, `mint`, `consume`, `markUnknown`, `dropIfUnused`, `put`, `fault`, `remove` |
| Registry generation store | `galerina-framework-app-kernel/src/registry-generation-store.ts` | the file under a generation's name; what each call has linked, loaded and issued | `persistRegistryGeneration`, `loadRegistryGeneration` |

How they interact:

* every gate of the rotation composes clause verdicts with `allOf` and opens
  only on exactly `ALLOW`; its witnesses are counted by `quorumVerdict`;
* after a switch the audit writer is told the new epoch (`adoptEpoch`), and the
  verifier asks the ring for each batch's key (`epochForVerification`); the two
  are separate calls, and records flow in between;
* the controller drives the phases one call at a time, each from a restored
  checkpoint to one that must be sealed; custody and the caller's floors live
  outside the checkpoint;
* cold-boot snapshots are sealed under the custody's current key epoch and
  verified under the one they name;
* the vault manager calls a provider that answers later, and timers and
  continuations of different calls interleave;
* the caller of a scope carries out the reducer's commands at the host and
  feeds it the host's receipts, through the verifier, stamped with one clock;
* the kernel's requests share slots, keys, audit room, leases and one secrets
  provider, and a handler lives on after its request was answered;
* publishers of one generation, in one process or several, share its file name.

### 1.2 What is hard in each, and what makes it correct

* **Verdicts.** UNKNOWN outweighs DENY, duplicates and contradictions in a
  ballot. Correct: the composition does not depend on order, consensus
  stays between the two compositions, nobody is counted twice.
* **Rotation.** Long sequences of legal calls: several rotations, fallbacks,
  retirements. Correct: the ring keeps passing its own check, the phase agrees
  with it, history is append-only, the signer moves only along the handover
  that both keys signed, the power to verify survives.
* **Egress.** Appends that throw, a full ring, epoch changes with staged
  records, a ledger opened again. Correct: nothing accepted is lost or
  repeated, the chain verifies, no record is sealed by another epoch than its own.
* **Controller.** Death between any two steps, stale storage, lost
  confirmations of an irreversible act. Correct: never stuck, never unrestorable,
  never signing with a destroyed key.
* **Cold boot.** Two durable writes that are not one, power cuts, old files put
  back. Correct: no rollback below what was returned, nothing half-written,
  what was returned stays.
* **Await.** Kills race exits, a kill is not a death, receipts are lost or
  overtaken. Correct: the limit holds for live processes, the outcome is chosen
  once and published when nothing runs, success was earned, and the scope ends.
* **Kernel.** State read before an await and used after it; handlers that never
  settle; providers that change under the caller. Correct: the limits hold, a
  key admits one handler, every answer is on the audit trail, a secret is handed
  over only as it was at the request's admission, every request is answered.
* **Generations.** Deaths between link, load and directory flush; clean-up by
  those who lost the race. Correct: what a durable receipt vouches for stays.
* **Vault.** Overlapping awaits. Correct: a fault policy reaches the handle it
  was meant for, nothing stale is served, every buffer is wiped or owed a wipe.

### 1.3 Parts that are not modelled

| Part | Why |
|---|---|
| Fungi compiler and interpreter (`galerina-core-compiler`) | 85,000 lines of sequential parsing and checking; no protocol state |
| App kernel boot, delegation admission, policy documents | composition of checks over documents and signatures; the controller model takes their outcome as given |
| Hybrid engine, substrate model, photonic targets | numeric simulation in floating point |
| Network egress guard, vault HTTP client, Spore file store | address parsing, I/O, encryption |
| Forward probe of the generation store | a one-use check over documents |
| Memory pool, zero-copy mapper, synchronisation gate, power governor, transport machine, leases, replay store | stateful; planned, see section 8 |

## 2. Modules

| Module | What it is |
|---|---|
| `Verdicts` | the verdict algebra and quorum as operators |
| `Verdicts_proofs` | the theorems about `MCVerdicts`, where ballots grow |
| `KeyRotation` | ring operations, gates and phase handlers; extends `Verdicts` |
| `KeyRotation_proofs` | the theorems about `KeyRotation` |
| `AuditTrail` | what an audit sink owes its callers: the abstract specification |
| `AuditEgress` | the batched, chained, epoch-sealed writer that implements it |
| `AuditedRotation` | extends `AuditEgress` with an instance of `KeyRotation` and the calls between the two |
| `AuditedRotation_proofs` | the theorems about `AuditEgress`, and on them and those of `KeyRotation` the ones about the composition |
| `RotationController` | an instance of `KeyRotation` under the driver, with checkpoints and floors |
| `RotationController_proofs` | the theorems about it, on those of `KeyRotation` |
| `AtomicWriter` | the snapshot directory and what a power cut makes of it |
| `ColdBoot` | the orchestrator over it |
| `SecretsRotation` | the vault manager as event-loop continuations |
| `SecretsRotation_proofs` | the theorems about it |
| `StructuredAwait` | the reducer of a task scope |
| `IsolatedHost` | one process per task, its callbacks and timers, signer and verifier |
| `ScopeContract` | what a scope promises the code that opened it: the abstract specification |
| `AwaitScope` | reducer and host joined as the end-to-end test joins them; implements `ScopeContract` |
| `AwaitScope_proofs` | the theorems about the reducer and the composition, the refinement among them |
| `ReleaseCommit` | the lease authority as operators on its state |
| `AppKernel` | the request pipeline over audit sink, idempotency store, secret gate and arena |
| `AppKernel_proofs` | the theorems about the authority and the pipeline |
| `GenerationStore` | publishers of one generation over a directory that can lose power |
| `DurableFiles_proofs` | the theorems about `ColdBoot` and `GenerationStore`, whose files must outlive a power cut |

Each `MC*` module gives the constants of one specification small values; each
`MC*.cfg` is one run.

## 3. How state and actions correspond to the code

**Verdicts.** A verdict is a string; `UNKNOWN` is the `K3_UNKNOWN` sentinel.
The gates of the code fold a list of clauses; the models pass the *set* of
clause verdicts. That this loses nothing is the property
`CompositionIsOrderFree`.

**KeyRotation.** `ring` is the epoch list (an epoch's identifier is its
position), `phase` and `transition` are the fields of `RotationProcess`. Each
phase handler is one action, its `ALLOW` outcome; every other verdict returns
the process untouched and is a stuttering step. Clauses whose truth comes from
outside (queue depths, signature checks, chain heads) may answer anything; the
clauses about the ring are computed. `verifyRing`'s head MAC is left out: every
ring here is made by an operation that reseals it.

**AuditEgress.** An operator such as `Push(m, l, r)` yields the set of
*results* of a call: the writer and ledger it leaves, and whether it returned or
threw. That keeps nested calls (`push` calls `flush`, twice at most) in one
action, as in the code. A MAC is the tuple of what it binds. A record is its
place in the order of offering. A line of the file is a batch, a `Fragment` left
by an append that threw half way, or `Garbled`: a line glued to one.

**AuditedRotation.** The evidence of the gates is read from the ledger and the
writer. The code leaves the evidence to the caller; the module reads it as the
comments of the gates describe it. Its steps are `Rotate`, a step of the ring
that leaves the writer alone, and `Write` and `AdoptActive`, calls of the writer
that leave the ring alone. `SealsUnderLiveEpoch` speaks of every line a call
appends: a push into a full ring may append two batches.

**RotationController.** `mode` says where the caller stands: `restored` (a
checkpoint was admitted and the driver may be called), `unsealed` (the driver
returned a new state), `sealed` (on disk, floors not yet recorded), `down`.
`disk` keeps every checkpoint ever sealed, so storage can answer with any that
passes the floors. The abstention of `retirePrivate`, and all refusals, leave
the state alone; `RetirePrivateUnconfirmed` is the one refusal that leaves a
trace, in custody.

**AtomicWriter, ColdBoot.** `live` is what a reader sees, `stable` what the
directory holds after a power cut, `tmp` the temporary files. Each file
operation of `write` and `scrub` is an action (a scrub's overwrites and
unlinks are the four disjuncts of `ScrubFiles`), so a crash or throw falls between
any two. `restore` changes nothing and is the state function `Restorable`.
`Tamper` puts an older copy of any file back, the floor file's included, or
removes or damages it. `best`, `recent`, `kept` and `copies` are history; `best`
starts anew whenever the floor file is touched by anyone but a checkpoint
(`Touched`), `recent` whenever the process boots. A file name that is no
admitted snapshot name, and links and FIFOs, are refused before anything
changes and are left out.

**SecretsRotation.** An operation is a record that moves through stages, one
continuation each: `reading`, `answered` or `rejected` (the provider settled),
`owned` or `broken` (the manager copied the value or could not), `done` or
`failed`. `bytes` is what each buffer holds. The maps of the manager are derived
from the operations (`Rotating`, `Loading`, `Reads`). The end of the quiesce
interval is a timer turn and comes when no continuation is due; the awaiting
caller continues in the same turn. `stagingValue` is always null in the code and
is left out, although its types and header describe a staging slot.

**StructuredAwait, IsolatedHost, AwaitScope.** An event the reducer refuses
changes nothing and is no step. `commands` is what the last step returned;
`Obey` carries one of them out, and the next event waits until all are. In the
host, `proc` is what the operating system knows (`unborn` is a process without
a pid, `exited` one whose close event has not come), `killCause` and `result`
are the closure's variables. A specification the host does not admit is the
`refused` outcome of `Spawn`: no process, and no receipt ever. Output that is not text is reported and treated
like a nonzero exit. Forged receipts change nothing and are left out; a receipt
stays in `receipts` for ever, so it may arrive late, twice or never. `refused`
is history. `ScopeContract` sees a task as work in progress while its *process*
is alive, not while its status says so.

**ReleaseCommit, AppKernel.** A request is a record that moves from await to
await: `claiming`, `claimed` or `unclaimed`, `running`, `encoded` (`runPipeline`
has returned and `handle` has not resumed), `answered`. `handler` is the
handler's promise and goes its own way (`over` once it has ended and nobody
waits for it). The refusals of the gates that read
only the request, and of the rate window, are one nondeterministic outcome of
`Arrive`; what they have in common (no slot is kept, the audit event is
committed) is modelled. `GetSecret` is the handler's call of the accessor: a
second use is refused, and the first is `Release`, the whole synchronous
release. The provider need not be the arena. `Providers` says what it does with
the callback: it supplies the bytes; never calls back, or with what is not bytes
(then the lease is dropped, `DropIfUnused`); calls back and then breaks the
contract; denies the secret in its `has`; or has no epoch that can be read.
`Strikes` says in which of its calls a revocation falls, up to the last `has`,
and whether a new value follows, `slow` that the deadline passed
meanwhile. A callback it kept and calls later is `LateCallback`. `spent`, `failed`,
`refusal`, `unreadable` and `late` are the latches of the pipeline's closure, and
`observed`, which is history, is the epoch at which the copy was taken. A secret in the
arena is its presence and the epoch; its bytes are left out. `term` counts a
key's expiries and is history.

**GenerationStore.** `final` is the file under the generation's name, `maybe`
what a power cut may leave there, `synced` the files whose bytes survive one. A
file is named by the call that staged it: staging names are random and nobody
else reads them. `Load` takes effect at its last `lstat`. `dropped` is history.

## 4. Runs

| Run | Question | Bounds |
|---|---|---|
| `verdicts` | do the set-based operators agree with the loops, and behave? | three signers, three votes, thresholds 0 to 3 |
| `key_rotation` | is every step of the machine safe whatever the gates are told? | five keys in pairs that share one field, four ticks: up to four epochs, hence a second rotation or a fallback and another candidate |
| `audit_egress` | do writes stay verifiable through failing and torn appends, and does the writer implement the abstract trail until one is torn? | four records, two writers over one ledger, two epochs, batch 1 or 2, ring smaller than, equal to and larger than the batch |
| `audited_rotation` | does the ledger survive its own rotation? | three records, three keys of both kinds, rings of one and two records, appends that fail or tear |
| `rotation_controller` | does the driver survive crashes and stale storage, and end? | three keys, three receipts of which one has a stale index, one crash, one rollback, a canary window of one |
| `cold_boot` | is nothing rolled back, torn or lost? | two names (symmetric), two ticks, two key epochs, three calls, one file put back, removed or damaged, scrubs of any name and of the floor |
| `await_scope` | does a scope of processes keep its contract, and end? | two tasks, every limit and policy, a timeout of two on a clock of three readings |
| `app_kernel` | do the kernel's limits, keys, audit, leases and secrets hold across awaits? | two requests, one key that may expire once, one revocation, one slot and one audit event or two of each, room for one lease and one tombstone |
| `generation_store` | does a durable receipt stay good? | four publishers (symmetric), any number of throws, deaths and power cuts |
| `secrets_rotation` | do overlapping calls keep secrets fresh and accounted for, and settle? | one credential, three calls, two generations of the secret, three retained buffers, policies halt and quarantine |

Why these are enough: every hazard of `PROJECT.json` needs at most two actors
and one failure between two of their steps. The ring needs four epochs for a
second rotation to meet what the first left. Two names suffice for the shared
floor, since a third plays the second's part. Three operations are the fewest
with a load between the start and the end of a rotation and one more after it.
Two tasks suffice
for a scope: one that decides and one that is still waiting, running or dying.
Two requests suffice for the kernel, as every shared resource is contended by
the second, and its caps are set to what one request fills. Four publishers
give a linker that fails, one that loaded its file, one that publishes after
the withdrawal and one more. Credentials share only the reads in progress and the owed wipes, and these are
already shared by the operations of one. The policy `log` is left out of the
run: a rotation under it succeeds as under any other policy and fails as one
without a policy. Each property has a mutant in the
module it is about, an operator with a plausible mistake of that code, under
which the same run fails: the bounds are large enough to see it.

The run `cold_boot` compares states by `MCView`, which leaves out what nothing
reads any more: the `.tmp` files outside a write's sync and rename, and the older
copies once none can be put back. No property mentions either.

`CHECK_DEADLOCK FALSE` is set throughout: counters are bounded, and a rotation
may legitimately wait for ever for evidence.

### Fairness

Four liveness properties are checked. `RotationEnds` assumes that the
driver is called again and again, that the caller seals, records and restores,
and that a key that works goes on sealing batches: the driver's comment calls
repeated calls "the automatic driver". It exempts one case, `Stuck`: a key that
fails before its canary window is full (section 5, `AdvanceSwitched`). A key that
fails with a full window must lead to the driver's fallback. No fairness is assumed of crashes, stale
storage or keys that fail. `AllSettle` assumes that the event loop runs
continuations that are due and that each request ends, which the vault client's
`timeoutMs` deadline makes true. `EndsOrLoses` assumes a caller that obeys
commands, ticks and delivers receipts, a clock that runs, and an event loop that
fires the deadline and confirmation timers (both set by `setTimeout` in the
host). Nothing is assumed of the guests, not even that a killed one dies.
`EveryRequestAnswered` assumes that the idempotency store answers, that the
event loop runs continuations and the deadline timer, and nothing of handlers.

## 5. Disagreements between the code and what it says

Two are runs that TLC ends with a counterexample:

| Run | The repository says | The code does |
|---|---|---|
| `fresh_mint` | a fallback returns to idle for a fresh mint | the next candidate can never satisfy A4 and B4: it is active + 2 |
| `released_evicted` | every spent lease ends delivery-unknown | at the cap a lease that was just released is retired while its request is still running |

Others were met while modelling. They have no run of their own; each is visible
in the action named:

* `FailedAppend`: the contract of `flush` (`audit-egress.ts:278-279`) has a
  later flush retry the records; after an append that left part of its line the
  retry is glued to it, and `readEgressLedger` throws for the whole ledger.
* `AdvanceSwitched`: the comment of `tripleVerifyVerdict`
  (`key-rotation.ts:491`) has a failure fall back. While the canary count is
  short of its window the verdict is UNKNOWN even though a probe failed, the
  driver falls back only on exactly DENY, and a failed key completes no window.
* `Checkpoint`: a tick below the durable floor is refused, says the message
  (`cold-boot.ts:74`); after a restart it is compared with the constructor's
  floor, accepted, written over the snapshot, and can never be restored.
* `FinishLoad`: no stale key is silently retained, says the comment
  (`rotation-manager.ts:472-473`); a load that read its value before a
  rotation's commits after it, and the older secret is served.
* `Deliver`: a receipt that was stamped before the scope's latest tick is
  verified, which burns its number, then refused by the reducer because time
  would go back; it can never be presented again, and a scope waiting for it
  does not end. `EndsOrLoses` counts it among the lost reports.
* `Withdraw`: a call that linked the generation and then could not prove it
  durable unlinks the name, even if another call has loaded that file meanwhile
  and returned a durable receipt for it. `ReceiptStands` names this exception.
* `ValidVote`: the comment on `isValidVote` (`quorum.ts:64`) lists 0 among the
  verdicts of a valid vote; the code takes it for no vote and calls the ballot
  malformed.
* `NewWriter`: the class comment (`audit-egress.ts:27-28`) has the whole ledger
  form one chain; every writer starts at genesis and sequence 0.
* `Push`: its comment (`audit-egress.ts:258-261`) has no record ever dropped; a
  full ring whose flush throws drops the one being offered.
* `FallbackSwitch`: the design document has a bad key "rolled back with zero
  loss"; batches the candidate sealed stop verifying (`LossOnlyByRevocation`
  says this is the only loss).
* `Accept`: the receipt handed in at the canary's end is not compared with the
  one the candidate was staged with. Two rings forked from one checkpoint may
  then accept the same authority for different signers, which the floors cannot
  tell apart, and `SignerKeyExists` fails: one fork destroys the private key of
  an epoch that signs in the other. TLC finds this with four deaths between a
  seal and its floors, five answers with an older checkpoint, and receipts that
  name another key than the active one (114 steps, on a model narrowed to such
  histories; callers that present the active key's receipt keep the property
  within the same bounds). The run `rotation_controller` has one death and one
  such answer; section 6 says what is proved for any number of either.
* `Tamper`: the floor is a file of the same directory, and any copy of it whose
  MAC verifies is believed (`cold-boot.ts:140-161`). Within one process the floor
  in memory stands against an older copy; after a restart nothing does, and
  whoever restores the whole directory, `rollback-floor.snap` included, has an
  older checkpoint restored. `NoRollback` says what remains true: nothing older
  than the newest checkpoint returned since the floor file was last touched, or
  since boot, whichever is newer.
* `Release`: the epoch is read for the last time inside the provider's `use`,
  when the lease is consumed; the rest of the release (`secret-gate.ts:399-452`)
  asks only `has`, which the code calls provider-controlled (`:431`). A
  revocation after that reading which also puts a new value in place, in the rest
  of `use` or in `has` itself, is not noticed, and the copy of the revoked value is
  handed over. `SecretIsCurrent` therefore speaks of the epoch at which the copy
  was taken (`observed`), and of the secret still being there.
* `AdoptActive`: after a fallback the active epoch is lower than the writer's, and
  `adoptEpoch` refuses any epoch that is not greater (`audit-egress.ts:233`): the
  writer goes on sealing under the revoked candidate, and what it seals no longer
  verifies with the ring. `MaySeal` names this candidate as the one exception, and
  `LossOnlyByRevocation` confines the loss to it.
* `FloorWritten`: floor and snapshot are two writes, so a checkpoint cut off
  between them leaves the old snapshot below the floor. One floor serves all
  names, with the same effect on the other names.
* `Scrub`: neither the overwrite nor the unlink is synced, and the reserved
  name is not refused; scrubbing it removes the durable floor, as in `Tamper`.
  The run `cold_boot` scrubs it too, and the theorems of section 6 hold for any
  `ScrubNames`.
* `Dispose`: between the end of a read and its load's continuation it returns
  normally although the load owns a buffer.

## 6. Proofs

**`Verdicts_proofs`** proves for any signers and thresholds, and ballots of any
length:

| Theorem | States |
|---|---|
| `ConsensusKeepsBounds` | `[]ConsensusBetweenBounds` |
| `FoldsAreSets` | `[]CompositionIsOrderFree` |
| `TallyIsQuorum` | `[]QuorumIsTally` |

The invariant says that a ballot is a sequence of votes (`BallotsTyped`); the
rest is about one ballot. `FoldExists` shows that the function the library's fold
chooses exists when the step is a table; `AndFold`, `OrFold` and `TallyFold`
then give the fold prefix by prefix. `SetsGrow` is the law the reductions keep
(`AllOf` of one more verdict is `VAnd` with it), and `Tallied` the one of the loop
of `tally`: after `k` votes it has given up exactly if an invalid vote or two
that disagree are among them, and otherwise its map holds who voted what. That
the other models may pass *sets* of clause verdicts to the gates rests on
`FoldsAreSets`.

**`KeyRotation_proofs`** proves for every set of candidates, ticks and ballots and
every quorum threshold, from the module's assumptions on its constants alone
(ticks are naturals, candidates are key records, the null transition is none):

| Theorem | States |
|---|---|
| `TypeCorrect` | `[]TypeOK` |
| `RingNeverBroken` | `[]RingAlwaysVerifies` |
| `PhaseAgreesWithRing` | `[](PhaseMatchesRing /\ OldEpochRetained)` |
| `HistoryAppendOnly` | `AppendOnly` |
| `SignerFollowsHandover` | `SignerHandover` |
| `VerificationRetained` | `VerifyPowerKept` |

The inductive invariant is the conjunction of `TypeOK`, `RingAlwaysVerifies`,
`PhaseMatchesRing` and `OldEpochRetained`; its parts lean on one another. That a
switch leaves exactly one active epoch needs at most one staged one, from the
ring's check. That the switch withdraws the epoch the handover names needs the
locked phase to know that the staged epoch is the active one's successor, which
is what locks A4 and B4 established two phases earlier. That a fallback finds
the epoch it returns to needs the withdrawn epoch to be retained until
retirement. Each ring operation has a lemma that it preserves `verifyRing`
(`StageEpochVerifies`, `SwitchActiveVerifies`, `FallbackSwitchVerifies`,
`MarkRevokedVerifies`); the action properties follow from one lemma that lists
what a step can do to the ring (`RingSteps`, `RingStepEffects`).

**`RotationController_proofs`** proves for any keys, receipts, ballots, canary
window and bounds (that the constants are what `KeyRotation` takes them for is
`RotationAssumption`; that an authority is a record of naturals and a
generation, `ControllerAssumption`):

| Theorem | States | Assuming |
|---|---|---|
| `ControllerTypes` | `[]TypeOK` | |
| `AlwaysSealable` | `[]WellFormed(State)` | |
| `RestorableForever` | `[]AlwaysRestorable` | |
| `SignerSafeOnHonestStorage` | `[]SignerKeyExists` | `MaxRollbacks = 0` |
| `SignerSafeWithoutCrashes` | `[]SignerKeyExists` | `MaxCrashes = 0` |

The controller's steps are first shown to be steps of `KeyRotation` (`CoreStep`),
whose invariant then holds in memory. `Coherent` says the same of any state, so
that it also holds of every checkpoint on disk and comes back with it
(`LoadIs`); a coherent state is one `stateWellFormed` accepts
(`CoherentWellFormed`). What makes a deployment restorable is `FloorsOnDisk`: the
floors are always the facts of a checkpoint that is on disk, because they are
recorded only after a seal (`SealedIsNewest`).

The signer's key takes one idea more. `Superseded` are the epochs before the
active one, except the predecessor of an epoch still in its canary window, which
a fallback brings back; they only grow (`SupersededGrow`), and only together
with the accepted authority (`SpentGrows`). Custody destroys the keys of such
epochs and no others (`CustodyStep`). It remains that no restore goes back
before a superseding. With honest storage that is `NewestKnows`: the checkpoint
that would be restored next knows of all that was destroyed. With a process
that does not die it is `Lineage`: every seal moved the floors, so what they
still admit has the authority in memory, and checkpoints of one authority agree
on what is superseded. With deaths and stale answers together neither argument
stands, and the property can fail (`Accept`, section 5).

**`AwaitScope_proofs`** first proves of the reducer alone, for every number of
tasks and every timeout, every plan and every sequence of events (their time
stamps are any naturals):

| Theorem | States |
|---|---|
| `ScopeAndTasksAgree` | `[]ScopeAgrees` |
| `NeverAboveLimit` | `[]InFlightBounded` |
| `FirstDecisionStands` | `DecisionStands` |

The invariant is `ScopeTypeOK /\ ScopeAgrees /\ InFlightBounded`. Its burden is
`FillCapacity`. That something runs unless every task is settled
(`FilledRuns`) takes the least pending task, before which nothing waits. That
the limit is kept (`FilledBounded`) takes the greatest task started: all that
run are among those counted before it, and itself. Both extremes come from the
well-foundedness of the naturals, without induction over data.

Of the reducer over its processes it proves, for any tasks, any timeout and
every plan the reducer admits; clocks and sequence numbers are any naturals, so `MaxTime`, the
length of the clock of the run, is not assumed to mean anything:

| Theorem | States |
|---|---|
| `SuccessIsEarned` | `[]OutcomeIsEarned` |
| `OnlyLateRefused` | `[]RefusedOnlyLate` |
| `AwaitAgrees` | `[]ScopeAgrees`, of the reducer inside the composition |
| `KeepsContract` | `ImplementsContract`: reducer and host refine `ScopeContract` |

The invariant `AwaitInv` joins the reducer's (`ScopeInv`) to the host's.
`Sound` and `ReceiptsTrue` are the host's alone: a run leaves one receipt at
most, it names the cause the run settled with, and only a process that nobody
killed exits with zero. `Coupled` is the joint: a task that waits has no process,
a task the reducer has settled was reported by a receipt the verifier has
passed or never ran, and a start that is commanded finds a running task without
a process. `AllEarned` says that what the reducer counts as a success has its
receipt from before the deadline. The refinement goes by action: `Obey` of a start
begins a task of the contract, the death of a process ends one, the reducer's
commands ask, its first intent decides and its last step closes; the bound on
live processes is the reducer's bound on running tasks, as a live process is a
running task by `Coupled`.

**`AppKernel_proofs`** proves for any requests, keys and routes, any capacities
that are naturals (`LimitAssumption`) and any caps of the lease authority of at
least one (`CapAssumption`):

| Theorem | States |
|---|---|
| `BoundedHandlers` | `[]HandlersBounded` |
| `OneDispatchPerClaim` | `[]DispatchedOncePerClaim` |
| `ExactAudit` | `[]AuditAccounts` |
| `SettledLeases` | `[]LeasesSettle` |
| `HonestSuccess` | `SuccessIsHonest` |
| `CurrentSecret` | `SecretIsCurrent` |

The invariant `IInv` has a part for each resource a request holds on its way.
`SlotsBounded` counts the slots of handlers that outlive their answer.
`ClaimsHold` and `ClaimsDiffer` tie each claim to a term of its key: as long as
the term lasts nobody else can claim it. `LeasesFollow` says that no lease is
left unused between two awaits, and that a released one belongs to a request
that has yet to finalise. A step of a request is first shown to be `Inside` it
(it keeps or gives back its slot and leaves audit and limits alone) and `Quiet`
(it claims nothing), which settles the other parts at once. The two action
properties need the release in full: `FirstUse` says what it makes of request and
leases whatever the provider does with its callback and wherever a revocation
falls among its calls; a lease that was not consumed is dropped (`Dropped`) or
fenced (`Fenced`). The lemmas about
the authority (`LeaseFound`, `VictimFound`, `Removed`) speak of the set of
leases, since their order only chooses which one is evicted.

**`DurableFiles_proofs`** proves of `ColdBoot`, for any names, ticks, boot floors and epochs (of
which custody starts with the first, `1 \in Epochs`), any names scrubbed and any number
of files put back, removed or damaged, the floor's among them:

| Theorem | States |
|---|---|
| `FilesAreWhole` | `[]NeverHalfWritten` |
| `NothingRolledBack` | `[]NoRollback` |
| `ReturnedIsKept` | `[]ReturnedSurvives` |

`WholeInv` follows a write through its steps (`Progress`): the temporary file
is complete before the rename. `FloorStands` says that the floor on disk, before
and after a power cut, is at or above every tick a checkpoint returned with since
its file was last touched (`best`), that the call at work on a snapshot wrote the
floor first, and that the floor in memory is at or above every tick returned with
since boot (`recent`). `KeptStands` says that what was returned is the same in the
directory and in what a power cut leaves of it, and that what a scrub is at work
on was given up when it began.

Of the generation store it proves, for any set of publishers:

| Theorem | States |
|---|---|
| `DurableReceipts` | `[]ReceiptStands` |
| `PublishersReceipts` | `[]PublishersReceiptStands` |

`ReceiptStands` is not inductive: `Prove` makes a receipt for a file loaded
earlier. `Loaded` says that such a file is still under the name unless its
publisher took it back, and `Owner` that only the publisher that owns the name
ever does: a live call past its link finds its own file there, and one whose
file was taken back is done and has no receipt. `Whole` says that whatever the
name may hold was synced.

**`AuditedRotation_proofs`** proves of the writer alone, for any batch sizes and
capacities but zero, any epochs, any number of records and writers, with appends
that may fail or tear:

| Theorem | States |
|---|---|
| `RingIsBounded` | `[]TypeOK` |
| `SealedUnderItsEpoch` | `[]NoRecordStraddles` |
| `OwnBatchesVerify` | `[]LifetimeVerifies` |
| `DamageShows` | `[]DamageIsNoticed` |
| `WriterIsTrail` | `ImplementsTrail`: the writer and its ledger refine `AuditTrail` |

The invariant is stated of a writer and a ledger (`Good`), as the model's
operators yield them, so that the lemma about a flush (`FlushKeeps`) serves the
push that calls it twice. `Sealing` ties every record, staged or sealed, to the
epoch in force when it was offered. `Chained` says that while the ledger is
readable, the lines of the open writer are linked (`Link`), and the writer's
sequence and head are those of the last one (`AtEnd`). That damage shows needs
more than the writer's own lines: `DamageShows` takes a ledger that verified,
removes, exchanges or cuts, and finds the link that cannot hold, because a MAC
is the tuple of what it binds.

The refinement maps the sealed records of the trail to the records of the
ledger's batches, one batch after the other, and `FlattenSeq` is a fold over the
ledger. What is needed of it (`FlattenIs`, `FlattenAppend`, `AppendBehind`: a
batch appended puts its records behind all others) is proved by the least length
at which it would fail. `Moved` then says what a flush is to the trail: records
pass from the head of the staged ones to the end of the sealed ones, in order, or
nothing does. A push is an acceptance with such moves around it, or a refusal; an
adoption and a flush are moves; and a reopening drops what was staged.

Of the ledger under rotation it proves, for any keys, ticks, ballots and quorum
besides (custody has the key of the first epoch, `1 \in Epochs`):

| Theorem | States |
|---|---|
| `ComposesBoth` | the composition implements both `KeyRotation` and `AuditEgress` |
| `OldEpochIsLeft` | `[]WriterLeftOldEpoch` |
| `OnlyRevocationLoses` | `[]LossOnlyByRevocation` |
| `OnlyLiveEpochsSeal` | `SealsUnderLiveEpoch` |

By `ComposesBoth` every theorem about either part holds of the two together. It
rests on `StepOfParts`: whatever evidence the gates are given, a rotation step
is a step of the core, and an adoption of the ring's active epoch is one of the
adoptions the writer may be asked for.

The properties are not inductive: that the writer has left the old epoch when
the canary closes follows from what the canary read, and that depends on where
the writer was before. `AuditedInv` joins the invariants of both parts with
`WriterStands` (the writer is with the signer; or one epoch behind it, until the
switch is verified; or one ahead, with the candidate that a fallback revoked)
and `Known` (every batch is of an epoch the ring has). `RotateKeepsWriter` is the
heart of it. A switch moves the signer away from the writer; the canary, which
asks for a newest batch of the active epoch in a ledger that verifies, cannot be
told so of a writer that stayed behind (`CanaryReads`, through the chain's link
to the writer); a fallback leaves it with the signer again or with the revoked
candidate; and from there no second rotation can lock before the writer has come
back, since an epoch that is staged is not one that was revoked. `CallEffects`
says the rest: each call appends lines of the writer's own epoch only, also
where a push flushes twice and an adoption fails half way.

**`SecretsRotation_proofs`** proves for any credentials and policies and any
number of overlapping calls, with wipes that may throw and providers that may
answer with what is no buffer:

| Theorem | States |
|---|---|
| `EveryBufferIsOwned` | `[]NoOrphan` |
| `DisposedIsEmpty` | `[]DisposedHoldsNothing` |
| `FailedValueStaysDown` | `[]StaleNeverServed` |
| `PolicyStaysWithItsHandle` | `PolicyKeepsToItsHandle` |

`SecretsInv` speaks of handles, calls and memory. `Kept` is the account of
buffers: one that is not zero and owed no wipe has an owner. `Fresh` says that a
candidate belongs to one call, is nobody's active value and was nobody's when
any call began; `SameBuffer` that the value a call began with is only ever that
of the same handle, so that comparing identifiers, as the code does, is
comparing values. `Faulted` is what `StaleNeverServed` needs: a value whose
rotation failed under a policy is faulted wherever it is still active. The code's
continuations are composed of a few moves - a wipe, a buffer allocated, a handle
dropped or faulted, a call that changes stage, a candidate that becomes active -
and each move has one lemma that it keeps the account (`WipeGood` to `OwnGood`).

## 7. What is only model-checked

* Liveness under fairness: `RotationEnds`, `AllSettle`, `EndsOrLoses` and
  `EveryRequestAnswered`.
* `SignerKeyExists` with deaths and stale answers in one history, which is
  true only up to a number of them (section 5).

What the folds compute - of a ballot, of a ledger - is proved here without the
library's induction theorems, which take an operator: the least length at which
a law would fail exists, since the naturals are well-founded (`Least`), and it
cannot be zero nor follow a length at which the law holds. Since that goes
through for one law at a time, each fold has its own copy of the argument.

The type invariants of `KeyRotation`, `StructuredAwait`, `GenerationStore`,
`AppKernel`, `ColdBoot`, `AuditEgress` and `RotationController` are proved as parts of their inductive
invariants. Those of `IsolatedHost` and `SecretsRotation` are proved in a form
without the bounds of the runs (`HostTyped`, `Typed`). The others document their
variables and are not among the properties of the runs.

Assumptions that the models make and the code cannot enforce: a MAC is never
forged and keys of different epochs differ; a rename is atomic and a directory
sync is durable; a process is single-threaded; the ledger and the snapshot
directory have one writer at a time; the vault client's deadline fires; a
provider's epoch never falls back; `link` never replaces a file, and a directory
flush that answers true makes every earlier change of the directory durable.

## 8. Plan

Done, with their proofs: `Verdicts`, `KeyRotation`, `RotationController`,
`AuditTrail`/`AuditEgress`, `AuditedRotation`, `AtomicWriter`/`ColdBoot`,
`SecretsRotation`, `StructuredAwait`, `IsolatedHost` and
`ScopeContract`/`AwaitScope`, `ReleaseCommit`/`AppKernel`, `GenerationStore`.

Next models, in order of what their failure would cost:

1. the generation store's forward probe, then the store composed with
   `RotationController` in the place of its free receipts;
2. static memory pool and zero-copy mapper: handles, generations, use after
   release;
3. transport machine, capability leases, replay store: expiry against use;
4. synchronisation gate and power governor.

Next proof: `SignerKeyExists` for callers that present the active key's receipt,
with deaths and stale answers together. What distinguishes two forks is then the
authority, and the invariant has to speak of all pairs of checkpoints.
