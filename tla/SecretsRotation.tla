--------------------------- MODULE SecretsRotation --------------------------
(***************************************************************************)
(* The secrets vault of galerina-ext-secrets-vault (rotation-manager.ts):  *)
(* loads and rotations of credentials that await a provider and a quiesce  *)
(* timer, the fault policies applied when a rotation fails, the lease that *)
(* serialises rotations, and the wiping of every buffer that ever held a   *)
(* secret.  JavaScript runs one continuation at a time: an action is what  *)
(* happens between two awaits, and continuations of different calls        *)
(* interleave in any order.                                                *)
(*                                                                         *)
(* A buffer holds the provider's generation it was read at, or 0 once its  *)
(* bytes are zero.  A wipe may throw; what could not be wiped is kept in   *)
(* pendingWipes and tried again by the calls that begin with a retry.      *)
(***************************************************************************)
EXTENDS Integers, Sequences

CONSTANTS
  Creds,        \* credential ids
  Policies,     \* onRotationFault values callers use
  WipesFail,    \* may a wipe throw
  BadProvider,  \* may the provider answer something that is no Buffer
  MaxOps,       \* bound: loads and rotations begun
  MaxGen,       \* bound: secret generations of the provider
  MaxBuffers    \* bound: buffers allocated by reads that left a copy

ASSUME SecretsAssumption ==
  /\ Policies \subseteq {"halt", "quarantine", "log"}
  /\ WipesFail \in BOOLEAN /\ BadProvider \in BOOLEAN
  /\ {MaxOps, MaxGen, MaxBuffers} \subseteq Nat

VARIABLES
  handles,    \* per credential, its handle or NoHandle
  ops,        \* the loads and rotations, in the order they were begun
  bytes,      \* per buffer, the generation it holds, 0 when wiped
  pending,    \* pendingWipes: buffers whose wipe threw
  opaque,     \* the provider handed over what nothing can wipe
  disposed,   \* dispose was called
  gen         \* the generation the provider serves

vars == <<handles, ops, bytes, pending, opaque, disposed, gen>>

NoHandle == [id |-> 0, buf |-> 0, version |-> 0, faulted |-> FALSE]

Stages == {"reading", "answered", "rejected", "owned", "broken", "done", "failed"}
Settled == {"done", "failed"}

TypeOK ==
  /\ \A c \in Creds :
       \/ handles[c] = NoHandle
       \/ handles[c] \in [id : DOMAIN ops, buf : DOMAIN bytes,
                          version : 1..MaxOps, faulted : BOOLEAN]
  /\ \A i \in DOMAIN ops : ops[i].stage \in Stages
  /\ bytes \in Seq(0..MaxGen)
  /\ pending \subseteq DOMAIN bytes
  /\ gen \in 1..MaxGen

-----------------------------------------------------------------------------
(* What the maps, sets and counters of the manager hold *)

With(kinds, stages) ==
  {i \in DOMAIN ops : ops[i].kind \in kinds /\ ops[i].stage \in stages}

Rotations == {"rotate", "rotateOrFault"}

(* rotations: a credential's lease; loading; providerReadsInProgress. *)
Rotating(c) == \E i \in With(Rotations, Stages \ Settled) : ops[i].cred = c
Loading(c) == \E i \in With({"load"}, Stages \ Settled) : ops[i].cred = c
Reads == With(Rotations \cup {"load"}, {"reading", "answered", "rejected"})

(* useActive hands the callback a copy of the active value. *)
Servable(c) ==
  /\ ~disposed /\ Reads = {} /\ pending = {} /\ ~opaque /\ ~Rotating(c)
  /\ handles[c] # NoHandle /\ ~handles[c].faulted

-----------------------------------------------------------------------------
(* Wiping.  A memory is what the buffers hold and which wipes are owed. *)

Memory == [bytes |-> bytes, pending |-> pending]

Become(m) == bytes' = m.bytes /\ pending' = m.pending

(* wipeOwnedBuffer on each buffer of S, those of F throwing. *)
Wipe(m, S) ==
  {[bytes |-> [b \in DOMAIN m.bytes |-> IF b \in S \ F THEN 0 ELSE m.bytes[b]],
    pending |-> (m.pending \ S) \cup F] :
     F \in IF WipesFail THEN SUBSET S ELSE {{}}}

(* retryPendingWipes: nothing is retried once an opaque output is held. *)
Retry == IF opaque THEN {Memory} ELSE Wipe(Memory, pending)
Clean(m) == m.pending = {} /\ ~opaque

-----------------------------------------------------------------------------
(* Calls *)

Op(kind, c, policy, stage) ==
  [kind |-> kind, cred |-> c, policy |-> policy, stage |-> stage,
   start |-> handles[c].id, startBuf |-> handles[c].buf, value |-> 0, buf |-> 0]

Load(c) ==
  /\ ~disposed /\ Len(ops) < MaxOps
  /\ \E m \in Retry :
       /\ Become(m)
       /\ ops' = IF Clean(m) /\ ~Loading(c)
                 THEN Append(ops, Op("load", c, "log", "reading")) ELSE ops
  /\ UNCHANGED <<handles, opaque, disposed, gen>>

MayRotate(c) == ~Rotating(c)

(* rotate and rotateOrFault: the lease is taken and the provider called in
   one go; an unknown credential fails without a read. *)
Rotate(kind, c, policy) ==
  /\ ~disposed /\ Len(ops) < MaxOps
  /\ \E m \in Retry :
       /\ Become(m)
       /\ ops' = IF Clean(m) /\ MayRotate(c)
                 THEN Append(ops, Op(kind, c, policy,
                        IF handles[c] = NoHandle THEN "broken" ELSE "reading"))
                 ELSE ops
  /\ UNCHANGED <<handles, opaque, disposed, gen>>

(* evict: the handle goes, and its buffer is wiped. *)
Evict(c, m) ==
  /\ handles' = [handles EXCEPT ![c] = NoHandle]
  /\ \E w \in Wipe(m, {handles[c].buf} \ {0}) : Become(w)

(* rotateOrFault with a policy that does not exist. *)
RotateInvalidPolicy(c) ==
  /\ ~disposed
  /\ \E m \in Retry :
       IF Clean(m) /\ ~Rotating(c) THEN Evict(c, m)
       ELSE Become(m) /\ UNCHANGED handles
  /\ UNCHANGED <<ops, opaque, disposed, gen>>

(* The copy a callback was given could not be wiped. *)
UseActiveCopyStays(c) ==
  /\ Servable(c) /\ WipesFail /\ Len(bytes) < MaxBuffers
  /\ bytes' = Append(bytes, bytes[handles[c].buf])
  /\ pending' = {Len(bytes')}
  /\ UNCHANGED <<handles, ops, opaque, disposed, gen>>

Dispose ==
  /\ disposed' = TRUE
  /\ handles' = [c \in Creds |-> NoHandle]
  /\ \E m \in Wipe(Memory, pending \cup ({handles[c].buf : c \in Creds} \ {0})) : Become(m)
  /\ UNCHANGED <<ops, opaque, gen>>

-----------------------------------------------------------------------------
(* The provider *)

VaultRotates ==
  /\ gen < MaxGen
  /\ gen' = gen + 1
  /\ UNCHANGED <<handles, ops, bytes, pending, opaque, disposed>>

Answer(i) ==
  /\ ops[i].stage = "reading"
  /\ ops' \in {[ops EXCEPT ![i].stage = "answered", ![i].value = gen],
               [ops EXCEPT ![i].stage = "rejected"]}
  /\ UNCHANGED <<handles, bytes, pending, opaque, disposed, gen>>

-----------------------------------------------------------------------------
(* Continuations *)

To(i, stage) == ops' = [ops EXCEPT ![i].stage = stage]

(* ownProviderBuffer: the answer is copied and the provider's buffer wiped;
   if either throws, both buffers are given up. *)
Own(i) ==
  /\ bytes' = Append(bytes, ops[i].value)
  /\ ops' = [ops EXCEPT ![i].stage = "owned", ![i].buf = Len(bytes')]
  /\ UNCHANGED <<pending, opaque>>

OwnFails(i) ==
  /\ \E m \in Wipe([Memory EXCEPT !.bytes = @ \o <<ops[i].value, ops[i].value>>],
                   {Len(bytes) + 1, Len(bytes) + 2}) : Become(m)
  /\ To(i, "broken")
  /\ UNCHANGED opaque

Refuse(i) ==
  /\ BadProvider
  /\ opaque' = TRUE
  /\ To(i, "broken")
  /\ UNCHANGED <<bytes, pending>>

Receive(i) ==
  /\ \/ ops[i].stage = "answered" /\ (Own(i) \/ OwnFails(i) \/ Refuse(i))
     \/ ops[i].stage = "rejected" /\ To(i, "broken") /\ UNCHANGED <<bytes, pending, opaque>>
  /\ UNCHANGED <<handles, disposed, gen>>

(* Mutant: a load does not look at disposed after its await. *)
Publishable_Disposed == TRUE
Publishable == ~disposed

(* The end of load: unless disposed, the handle it finds is faulted and wiped
   and a new one takes its place; if that wipe throws, nothing is published
   and the value read is wiped too. *)
FinishLoad(i) ==
  LET c == ops[i].cred
      old == handles[c]
      new == [id |-> i, buf |-> ops[i].buf, version |-> old.version + 1, faulted |-> FALSE]
      Abandon(m) == To(i, "failed") /\ \E w \in Wipe(m, {ops[i].buf}) : Become(w)
  IN
  /\ ops[i].kind = "load"
  /\ \/ /\ ops[i].stage = "broken"
        /\ To(i, "failed")
        /\ UNCHANGED <<handles, bytes, pending>>
     \/ /\ ops[i].stage = "owned" /\ ~Publishable
        /\ Abandon(Memory)
        /\ UNCHANGED handles
     \/ /\ ops[i].stage = "owned" /\ Publishable
        /\ \E m \in Wipe(Memory, {old.buf} \ {0}) :
             \/ /\ old.buf \notin m.pending
                /\ Become(m) /\ To(i, "done")
                /\ handles' = [handles EXCEPT ![c] = new]
             \/ /\ old.buf \in m.pending
                /\ Abandon(m)
                /\ handles' = [handles EXCEPT ![c].faulted = TRUE]
  /\ UNCHANGED <<opaque, disposed, gen>>

(* Mutant: a policy is applied to whatever handle is there. *)
SameHandle_Any(i) == TRUE
SameHandle(i) == handles[ops[i].cred].id = ops[i].start

(* Mutant: halt does not evict. *)
Fault_HaltKeeps(i, hs, m) ==
  LET c == ops[i].cred IN
  IF ~SameHandle(i) \/ hs[c] = NoHandle \/ ops[i].policy # "quarantine"
  THEN handles' = hs /\ Become(m)
  ELSE /\ handles' = [hs EXCEPT ![c].faulted = TRUE]
       /\ \E w \in Wipe(m, {hs[c].buf}) : Become(w)

(* The fault policy, on the handle the rotation began with. *)
Fault(i, hs, m) ==
  LET c == ops[i].cred IN
  IF ~SameHandle(i) \/ hs[c] = NoHandle \/ ops[i].policy = "log"
  THEN handles' = hs /\ Become(m)
  ELSE /\ handles' = [hs EXCEPT ![c] =
                        IF ops[i].policy = "halt" THEN NoHandle ELSE [@ EXCEPT !.faulted = TRUE]]
       /\ \E w \in Wipe(m, {hs[c].buf}) : Become(w)

(* The caller's own continuation, over the handles hs and memory m the
   rotation left: the fault flag is cleared or the policy applied, and the
   lease released. *)
Settle(i, hs, m, ok) ==
  LET c == ops[i].cred IN
  /\ To(i, IF ok THEN "done" ELSE "failed")
  /\ IF ops[i].kind = "rotateOrFault" /\ ~ok THEN Fault(i, hs, m)
     ELSE /\ handles' = IF ops[i].kind = "rotateOrFault" THEN [hs EXCEPT ![c].faulted = FALSE] ELSE hs
          /\ Become(m)

(* Mutant: the candidate of a rotation whose handle has gone is not wiped. *)
Unswapped_Kept(i) == {Memory}
Unswapped(i) == Wipe(Memory, {ops[i].buf})

(* The end of the quiesce interval: the candidate is swapped in if the handle
   is still the one the rotation began with, and the old value is wiped.  The
   timer has a turn of the event loop to itself: it comes when no continuation
   is due, and the caller of the rotation continues in it. *)
Due == With({"load"}, {"owned"}) \cup With(Rotations \cup {"load"}, {"broken"})

Quiesced(i) ==
  LET c == ops[i].cred
      h == handles[c]
      swapped == [h EXCEPT !.buf = ops[i].buf, !.version = @ + 1]
  IN
  /\ ops[i].kind \in Rotations /\ ops[i].stage = "owned"
  /\ Due = {}
  /\ \/ /\ ~SameHandle(i)
        /\ \E m \in Unswapped(i) : Settle(i, handles, m, FALSE)
     \/ /\ SameHandle(i)
        /\ \E m \in Wipe(Memory, {h.buf}) :
             LET failed == h.buf \in m.pending IN
             Settle(i, [handles EXCEPT ![c] =
                          IF failed THEN [swapped EXCEPT !.faulted = TRUE] ELSE swapped],
                    m, ~failed)
  /\ UNCHANGED <<opaque, disposed, gen>>

(* Mutant: a rotation whose handle changed meanwhile keeps its lease. *)
ReadFailed_KeepsLease(i) ==
  /\ ops[i].kind \in Rotations /\ ops[i].stage = "broken" /\ SameHandle(i)
  /\ Settle(i, handles, Memory, FALSE)
  /\ UNCHANGED <<opaque, disposed, gen>>

(* A rotation that got no candidate. *)
ReadFailed(i) ==
  /\ ops[i].kind \in Rotations /\ ops[i].stage = "broken"
  /\ Settle(i, handles, Memory, FALSE)
  /\ UNCHANGED <<opaque, disposed, gen>>

-----------------------------------------------------------------------------
Init ==
  /\ handles = [c \in Creds |-> NoHandle]
  /\ ops = <<>> /\ bytes = <<>> /\ pending = {}
  /\ opaque = FALSE /\ disposed = FALSE
  /\ gen = 1

Call ==
  \/ \E c \in Creds :
       \/ Load(c)
       \/ Rotate("rotate", c, "log")
       \/ \E policy \in Policies : Rotate("rotateOrFault", c, policy)
       \/ RotateInvalidPolicy(c)
       \/ UseActiveCopyStays(c)
  \/ Dispose

Continue(i) == Receive(i) \/ FinishLoad(i) \/ Quiesced(i) \/ ReadFailed(i)

Next ==
  \/ Call
  \/ VaultRotates
  \/ \E i \in DOMAIN ops : Answer(i) \/ Continue(i)

Spec == Init /\ [][Next]_vars

(* The event loop runs every continuation that is due, timers fire, and the
   client's deadline makes every request end. *)
FairSpec ==
  /\ Spec
  /\ \A i \in 1..MaxOps : WF_vars(i \in DOMAIN ops /\ (Answer(i) \/ Continue(i)))

-----------------------------------------------------------------------------
(* Properties *)

(* No secret is lost sight of: a buffer that still holds one is some
   handle's active value, the candidate of a call in progress, or owed a
   wipe, whatever was refused, replaced, evicted or disposed meanwhile. *)
NoOrphan ==
  \A b \in DOMAIN bytes : bytes[b] # 0 =>
    \/ b \in pending
    \/ \E c \in Creds : handles[c].buf = b
    \/ \E i \in DOMAIN ops : ops[i].stage = "owned" /\ ops[i].buf = b

(* A disposed manager holds no handle, and serves and publishes nothing. *)
DisposedHoldsNothing ==
  disposed =>
    \A b \in DOMAIN bytes : bytes[b] # 0 =>
      b \in pending \/ \E i \in DOMAIN ops : ops[i].stage = "owned" /\ ops[i].buf = b

(* A rotation that failed under halt or quarantine leaves no stale key
   behind: the value that was active when it began is never served again. *)
StaleNeverServed ==
  \A i \in With({"rotateOrFault"}, {"failed"}), c \in Creds :
    ops[i].policy # "log" /\ ops[i].cred = c /\ ops[i].startBuf # 0 /\ Servable(c)
      => handles[c].buf # ops[i].startBuf

(* The fault policy of a failed rotation never reaches a handle that a later
   load published: a load's value goes only by a later commit, its own
   rotation's policy, an invalid policy's eviction or disposal. *)
PolicyKeepsToItsHandle ==
  [][\A i \in DOMAIN ops :
       LET c == ops[i].cred IN
       /\ ops[i].stage \notin Settled /\ ops'[i].stage = "failed"
       /\ ops[i].kind = "rotateOrFault" /\ handles[c].id > i
       => handles'[c] = handles[c] /\ bytes'[handles[c].buf] = bytes[handles[c].buf]]_vars

(* Every load and rotation settles, and with it every lease and the hold
   that providerReadsInProgress puts on all reads. *)
AllSettle ==
  \A i \in 1..MaxOps : i \in DOMAIN ops ~> (i \in DOMAIN ops /\ ops[i].stage \in Settled)

=============================================================================
