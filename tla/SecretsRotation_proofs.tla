----------------------- MODULE SecretsRotation_proofs -----------------------
(***************************************************************************)
(* The secrets vault, for any credentials, policies and number of calls in *)
(* progress, with wipes that may throw.  What a continuation does is a     *)
(* composition of a few moves over handles, calls and memory - a wipe, a   *)
(* buffer allocated, a handle dropped, faulted or given the candidate of a *)
(* call - and each move is proved to keep the account of buffers (Good).   *)
(***************************************************************************)
EXTENDS SecretsRotation, SequenceTheorems, TLAPS

USE SecretsAssumption

Kinds == Rotations \cup {"load"}

Handles(n, k) ==
  {NoHandle} \cup [id : 1..n, buf : 1..k, version : Nat, faulted : BOOLEAN]

Calls ==
  [kind : Kinds, cred : Creds, policy : Policies \cup {"log"}, stage : Stages,
   start : Nat, startBuf : Nat, value : Nat, buf : Nat]

(* A call begins with the handle of an earlier one, or with none; a rotation
   that begins with none never reads. *)
CallTyped(x, i, k) ==
  /\ x.start < i /\ x.startBuf <= k /\ x.buf <= k
  /\ x.start = 0 <=> x.startBuf = 0
  /\ x.kind \in Rotations /\ x.start = 0 => x.stage \in {"broken", "failed"}
  /\ x.stage = "owned" => x.buf # 0

Typed(hs, os, m) ==
  /\ m.bytes \in Seq(Nat) /\ m.pending \subseteq 1..Len(m.bytes)
  /\ os \in Seq(Calls)
  /\ hs \in [Creds -> Handles(Len(os), Len(m.bytes))]
  /\ \A i \in DOMAIN os : CallTyped(os[i], i, Len(m.bytes))

(* Nobody needs to remember buffer b: it is zero, or its wipe is owed. *)
Covered(m, b) == b # 0 => m.bytes[b] = 0 \/ b \in m.pending

Kept(hs, os, m) ==
  \A b \in DOMAIN m.bytes :
    \/ Covered(m, b)
    \/ \E c \in Creds : hs[c].buf = b
    \/ \E i \in DOMAIN os : os[i].stage = "owned" /\ os[i].buf = b

(* A candidate belongs to its call alone. *)
Fresh(hs, os) ==
  \A i \in DOMAIN os : os[i].stage = "owned" =>
    /\ \A c \in Creds : hs[c].buf # os[i].buf
    /\ \A j \in DOMAIN os :
         /\ os[j].startBuf # os[i].buf
         /\ j # i /\ os[j].stage = "owned" => os[j].buf # os[i].buf

(* The value active when a call began is only ever that of the same handle. *)
SameBuffer(hs, os) ==
  \A i \in DOMAIN os :
    os[i].startBuf # 0 /\ hs[os[i].cred].buf = os[i].startBuf
      => hs[os[i].cred].id = os[i].start

Condemned(x) == x.kind = "rotateOrFault" /\ x.stage = "failed" /\ x.policy # "log"

Faulted(hs, os) ==
  \A i \in DOMAIN os :
    Condemned(os[i]) /\ os[i].startBuf # 0 /\ hs[os[i].cred].buf = os[i].startBuf
      => hs[os[i].cred].faulted

Good(hs, os, m) ==
  /\ Typed(hs, os, m)
  /\ Kept(hs, os, m)
  /\ Fresh(hs, os)
  /\ SameBuffer(hs, os)
  /\ Faulted(hs, os)

SecretsInv ==
  /\ Good(handles, ops, Memory)
  /\ gen \in Nat
  /\ disposed => handles = [c \in Creds |-> NoHandle]

-----------------------------------------------------------------------------
(* The moves *)

LEMMA WipeIs ==
  ASSUME NEW m, m.bytes \in Seq(Nat), NEW S, NEW w \in Wipe(m, S)
  PROVE  /\ w.bytes \in Seq(Nat) /\ Len(w.bytes) = Len(m.bytes)
         /\ DOMAIN w.bytes = DOMAIN m.bytes /\ DOMAIN m.bytes = 1..Len(m.bytes)
         /\ w.pending \subseteq m.pending \cup S /\ m.pending \ S \subseteq w.pending
         /\ \A b \in DOMAIN m.bytes :
              /\ w.bytes[b] = m.bytes[b] \/ w.bytes[b] = 0
              /\ b \in S => w.bytes[b] = 0 \/ b \in w.pending
              /\ b \notin S => w.bytes[b] = m.bytes[b]
<1>1. PICK F \in SUBSET S :
        w = [bytes |-> [b \in DOMAIN m.bytes |-> IF b \in S \ F THEN 0 ELSE m.bytes[b]],
             pending |-> (m.pending \ S) \cup F]
  BY DEF Wipe
<1>2. /\ w.bytes = [b \in DOMAIN m.bytes |-> IF b \in S \ F THEN 0 ELSE m.bytes[b]]
      /\ w.pending = (m.pending \ S) \cup F
  BY <1>1
<1>3. DOMAIN m.bytes = 1..Len(m.bytes) /\ Len(m.bytes) \in Nat
      /\ \A b \in DOMAIN m.bytes : m.bytes[b] \in Nat
  BY LenProperties, ElementOfSeq
<1>4. w.bytes \in [1..Len(m.bytes) -> Nat] BY <1>2, <1>3
<1>5. w.bytes \in Seq(Nat) /\ Len(w.bytes) = Len(m.bytes)
  <2>1. w.bytes \in Seq(Nat)
    <3> DEFINE n == Len(m.bytes)
               f == w.bytes
    <3>1. n \in Nat /\ f \in [1..n -> Nat] BY <1>3, <1>4
    <3> HIDE DEF n, f
    <3>2. f \in UNION {[1..k -> Nat] : k \in Nat} BY <3>1
    <3>3. f \in Seq(Nat) BY <3>2, SeqDef, Zenon
    <3> QED BY <3>3 DEF f
  <2>2. DOMAIN w.bytes = 1..Len(w.bytes) /\ Len(w.bytes) \in Nat BY <2>1, LenProperties
  <2>3. DOMAIN w.bytes = 1..Len(m.bytes) BY <1>4
  <2> QED BY <1>3, <2>1, <2>2, <2>3
<1> QED BY <1>2, <1>3, <1>5

LEMMA WipeGood ==
  ASSUME NEW hs, NEW os, NEW m, Good(hs, os, m),
         NEW S, S \subseteq 1..Len(m.bytes), NEW w \in Wipe(m, S)
  PROVE  Good(hs, os, w) /\ Len(w.bytes) = Len(m.bytes)
         /\ \A b \in S : Covered(w, b)
<1>1. m.bytes \in Seq(Nat) /\ m.pending \subseteq 1..Len(m.bytes) BY DEF Good, Typed
<1>2. /\ w.bytes \in Seq(Nat) /\ Len(w.bytes) = Len(m.bytes)
      /\ DOMAIN w.bytes = DOMAIN m.bytes /\ DOMAIN m.bytes = 1..Len(m.bytes)
      /\ w.pending \subseteq m.pending \cup S /\ m.pending \ S \subseteq w.pending
      /\ \A b \in DOMAIN m.bytes :
           /\ w.bytes[b] = m.bytes[b] \/ w.bytes[b] = 0
           /\ b \in S => w.bytes[b] = 0 \/ b \in w.pending
           /\ b \notin S => w.bytes[b] = m.bytes[b]
  BY <1>1, WipeIs
<1>3. \A b \in S : Covered(w, b) BY <1>2 DEF Covered
<1>4. \A b \in DOMAIN m.bytes : Covered(m, b) => Covered(w, b)
  BY <1>2 DEF Covered
<1>5. Typed(hs, os, w)
  <2>1. w.pending \subseteq 1..Len(w.bytes) BY <1>1, <1>2
  <2> QED BY <1>2, <2>1 DEF Good, Typed
<1>6. Kept(hs, os, w) BY <1>2, <1>4 DEF Good, Kept
<1> QED BY <1>2, <1>3, <1>5, <1>6 DEF Good

(* Handles that lose their value, or the right to serve it. *)
LEMMA DropGood ==
  ASSUME NEW hs, NEW os, NEW m, Good(hs, os, m),
         NEW new \in [Creds -> Handles(Len(os), Len(m.bytes))],
         \A c \in Creds :
           \/ new[c] = hs[c]
           \/ new[c] = NoHandle /\ Covered(m, hs[c].buf)
           \/ new[c].id = hs[c].id /\ new[c].buf = hs[c].buf /\ new[c].faulted = TRUE
  PROVE  Good(new, os, m)
<1>1. \A c \in Creds : new[c].buf = hs[c].buf \/ (new[c].buf = 0 /\ Covered(m, hs[c].buf))
  <2>1. NoHandle.buf = 0 BY DEF NoHandle
  <2> QED BY <2>1
<1>2. Typed(new, os, m) BY DEF Good, Typed
<1>3. \A i \in DOMAIN os : os[i].cred \in Creds /\ (os[i].stage = "owned" => os[i].buf # 0)
  <2>1. os \in Seq(Calls) BY DEF Good, Typed
  <2>2. \A i \in DOMAIN os : os[i] \in Calls BY <2>1, LenProperties, ElementOfSeq
  <2> QED BY <2>2 DEF Calls, Good, Typed, CallTyped
<1>4. Kept(new, os, m) BY <1>1 DEF Good, Kept
<1>5. Fresh(new, os) BY <1>1, <1>3 DEF Good, Fresh
<1>6. SameBuffer(new, os)
  BY <1>1, <1>3 DEF Good, SameBuffer, NoHandle
<1>7. Faulted(new, os)
  BY <1>1, <1>3 DEF Good, Faulted, NoHandle
<1> QED BY <1>2, <1>4, <1>5, <1>6, <1>7 DEF Good

(* What a call that changes but its stage and value must see to. *)
LEMMA StageGood ==
  ASSUME NEW hs, NEW os, NEW m, Good(hs, os, m), NEW i \in DOMAIN os, NEW x \in Calls,
         x.kind = os[i].kind, x.cred = os[i].cred, x.policy = os[i].policy,
         x.start = os[i].start, x.startBuf = os[i].startBuf, x.buf = os[i].buf,
         x.stage # "owned", os[i].stage = "owned" => Covered(m, os[i].buf),
         x.kind \in Rotations /\ x.start = 0 => x.stage \in {"broken", "failed"},
         Condemned(x) /\ x.startBuf # 0 /\ hs[x.cred].buf = x.startBuf => hs[x.cred].faulted
  PROVE  Good(hs, [os EXCEPT ![i] = x], m)
<1> DEFINE new == [os EXCEPT ![i] = x]
<1>1. os \in Seq(Calls) /\ DOMAIN os = 1..Len(os) BY LenProperties DEF Good, Typed
<1>2. /\ new \in Seq(Calls) /\ Len(new) = Len(os) /\ DOMAIN new = DOMAIN os
      /\ new[i] = x /\ \A j \in DOMAIN os : j # i => new[j] = os[j]
  BY <1>1, ExceptSeq
<1> HIDE DEF new
<1>3. CallTyped(x, i, Len(m.bytes)) BY DEF Good, Typed, CallTyped
<1>4. Typed(hs, new, m) BY <1>2, <1>3 DEF Good, Typed
<1>5. Kept(hs, new, m)
  <2> SUFFICES ASSUME NEW b \in DOMAIN m.bytes, ~Covered(m, b), \A c \in Creds : hs[c].buf # b
               PROVE  \E j \in DOMAIN new : new[j].stage = "owned" /\ new[j].buf = b
    BY DEF Kept
  <2>1. PICK j \in DOMAIN os : os[j].stage = "owned" /\ os[j].buf = b BY DEF Good, Kept
  <2>2. j # i BY <2>1
  <2> QED BY <1>2, <2>1, <2>2
<1>6. Fresh(hs, new) BY <1>2 DEF Good, Fresh
<1>7. SameBuffer(hs, new) BY <1>2 DEF Good, SameBuffer
<1>8. Faulted(hs, new) BY <1>2 DEF Good, Faulted, Condemned
<1> QED BY <1>4, <1>5, <1>6, <1>7, <1>8 DEF Good, new

(* A candidate becomes the active value of its credential. *)
LEMMA MoveGood ==
  ASSUME NEW hs, NEW os, NEW m, Good(hs, os, m), NEW i \in DOMAIN os,
         os[i].stage = "owned", Covered(m, hs[os[i].cred].buf),
         NEW h \in Handles(Len(os), Len(m.bytes)), h.buf = os[i].buf,
         NEW x \in Calls,
         x.kind = os[i].kind, x.cred = os[i].cred, x.policy = os[i].policy,
         x.start = os[i].start, x.startBuf = os[i].startBuf, x.buf = os[i].buf,
         x.stage \in Settled
  PROVE  Good([hs EXCEPT ![os[i].cred] = h], [os EXCEPT ![i] = x], m)
<1> DEFINE new == [os EXCEPT ![i] = x]
           c == os[i].cred
           nhs == [hs EXCEPT ![c] = h]
<1>1. os \in Seq(Calls) /\ DOMAIN os = 1..Len(os) BY LenProperties DEF Good, Typed
<1>2. /\ new \in Seq(Calls) /\ Len(new) = Len(os) /\ DOMAIN new = DOMAIN os
      /\ new[i] = x /\ \A j \in DOMAIN os : j # i => new[j] = os[j]
  BY <1>1, ExceptSeq
<1>3. \A j \in DOMAIN os : os[j] \in Calls BY <1>1, ElementOfSeq
<1>4. c \in Creds BY <1>3 DEF Calls
<1>5. /\ nhs \in [Creds -> Handles(Len(os), Len(m.bytes))]
      /\ nhs[c] = h /\ \A d \in Creds : d # c => nhs[d] = hs[d]
  BY <1>4 DEF Good, Typed
<1> HIDE DEF new, nhs, c
<1>6. CallTyped(x, i, Len(m.bytes))
  <2>1. CallTyped(os[i], i, Len(m.bytes)) BY DEF Good, Typed
  <2> QED BY <2>1 DEF CallTyped, Settled
<1>7. Typed(nhs, new, m) BY <1>2, <1>5, <1>6 DEF Good, Typed
<1>8. Kept(nhs, new, m)
  <2> SUFFICES ASSUME NEW b \in DOMAIN m.bytes, ~Covered(m, b), \A d \in Creds : nhs[d].buf # b
               PROVE  \E j \in DOMAIN new : new[j].stage = "owned" /\ new[j].buf = b
    BY DEF Kept
  <2>1. b # os[i].buf BY <1>4, <1>5
  <2>2. \A d \in Creds : hs[d].buf # b BY <1>5 DEF c
  <2>3. PICK j \in DOMAIN os : os[j].stage = "owned" /\ os[j].buf = b BY <2>2 DEF Good, Kept
  <2> QED BY <1>2, <2>1, <2>3
<1>9. Fresh(nhs, new)
  <2>1. \A j \in DOMAIN new : new[j].stage = "owned" => j # i /\ new[j] = os[j]
    BY <1>2 DEF Settled
  <2>2. \A j \in DOMAIN os : os[j].startBuf = new[j].startBuf BY <1>2
  <2>3. ASSUME NEW j \in DOMAIN new, new[j].stage = "owned", NEW d \in Creds
        PROVE  nhs[d].buf # new[j].buf
    BY <1>2, <1>5, <2>1, <2>3 DEF Good, Fresh, c
  <2> QED BY <1>2, <2>1, <2>2, <2>3 DEF Good, Fresh
<1>10. \A j \in DOMAIN os : h.buf # os[j].startBuf /\ os[j].startBuf = new[j].startBuf
  BY <1>2 DEF Good, Fresh
<1>11. SameBuffer(nhs, new)
  <2> SUFFICES ASSUME NEW j \in DOMAIN new, new[j].startBuf # 0,
                      nhs[new[j].cred].buf = new[j].startBuf
               PROVE  nhs[new[j].cred].id = new[j].start
    BY DEF SameBuffer
  <2>1. new[j].cred = os[j].cred /\ new[j].start = os[j].start BY <1>2
  <2>2. new[j].cred # c /\ new[j].cred \in Creds BY <1>2, <1>3, <1>5, <1>10, <2>1 DEF Calls
  <2> QED BY <1>2, <1>5, <1>10, <2>1, <2>2 DEF Good, SameBuffer
<1>12. Faulted(nhs, new)
  <2> SUFFICES ASSUME NEW j \in DOMAIN new, Condemned(new[j]), new[j].startBuf # 0,
                      nhs[new[j].cred].buf = new[j].startBuf
               PROVE  nhs[new[j].cred].faulted
    BY DEF Faulted
  <2>1. new[j].cred = os[j].cred BY <1>2
  <2>2. new[j].cred # c /\ new[j].cred \in Creds BY <1>2, <1>3, <1>5, <1>10, <2>1 DEF Calls
  <2>3. j # i BY <2>1, <2>2 DEF c
  <2> QED BY <1>2, <1>5, <2>1, <2>2, <2>3 DEF Good, Faulted
<1> QED BY <1>7, <1>8, <1>9, <1>11, <1>12 DEF Good, new, nhs, c

LEMMA HandleIs ==
  ASSUME NEW n \in Nat, NEW k \in Nat, NEW h \in Handles(n, k)
  PROVE  /\ h.id \in 0..n /\ h.buf \in 0..k
         /\ h.id = 0 <=> h.buf = 0
         /\ h = NoHandle <=> h.buf = 0
         /\ h # NoHandle =>
              h \in [id : 1..n, buf : 1..k, version : Nat, faulted : BOOLEAN]
<1>1. CASE h = NoHandle BY <1>1 DEF NoHandle, Handles
<1>2. CASE h \in [id : 1..n, buf : 1..k, version : Nat, faulted : BOOLEAN]
  <2>1. h.id \in 1..n /\ h.buf \in 1..k BY <1>2
  <2>2. h # NoHandle BY <2>1 DEF NoHandle
  <2> QED BY <1>2, <2>1, <2>2
<1> QED BY <1>1, <1>2 DEF Handles

LEMMA HandlesGrow ==
  ASSUME NEW n \in Nat, NEW k \in Nat, NEW h \in Handles(n, k),
         NEW n2 \in Nat, NEW k2 \in Nat, n <= n2, k <= k2
  PROVE  h \in Handles(n2, k2)
<1>1. 1..n \subseteq 1..n2 /\ 1..k \subseteq 1..k2 OBVIOUS
<1>2. CASE h = NoHandle BY <1>2 DEF NoHandle, Handles
<1>3. CASE h \in [id : 1..n, buf : 1..k, version : Nat, faulted : BOOLEAN]
  <2>1. h \in [id : 1..n2, buf : 1..k2, version : Nat, faulted : BOOLEAN] BY <1>1, <1>3
  <2> QED BY <2>1 DEF Handles
<1> QED BY <1>2, <1>3 DEF Handles

(* A buffer allocated whose wipe is owed from the beginning. *)
LEMMA GrowGood ==
  ASSUME NEW hs, NEW os, NEW m, Good(hs, os, m), NEW v \in Nat
  PROVE  Good(hs, os, [bytes |-> Append(m.bytes, v),
                       pending |-> m.pending \cup {Len(m.bytes) + 1}])
<1> DEFINE more == Append(m.bytes, v)
           w == [bytes |-> more, pending |-> m.pending \cup {Len(m.bytes) + 1}]
<1>1. m.bytes \in Seq(Nat) /\ os \in Seq(Calls) BY DEF Good, Typed
<1>2. /\ more \in Seq(Nat) /\ Len(more) = Len(m.bytes) + 1 /\ Len(m.bytes) \in Nat
      /\ \A b \in 1..Len(m.bytes) : more[b] = m.bytes[b]
      /\ DOMAIN m.bytes = 1..Len(m.bytes) /\ DOMAIN more = 1..(Len(m.bytes) + 1)
  BY <1>1, AppendProperties, LenProperties
<1> HIDE DEF more
<1>3. w.bytes = more /\ w.pending = m.pending \cup {Len(m.bytes) + 1} OBVIOUS
<1> HIDE DEF w
<1>4. \A b \in DOMAIN more : b \in DOMAIN m.bytes \/ b = Len(m.bytes) + 1 BY <1>2
<1>5. Typed(hs, os, w)
  <2>1. w.bytes \in Seq(Nat) /\ w.pending \subseteq 1..Len(w.bytes)
    BY <1>2, <1>3 DEF Good, Typed
  <2>2. hs \in [Creds -> Handles(Len(os), Len(w.bytes))]
    <3>1. Len(os) \in Nat BY <1>1, LenProperties
    <3>2. Len(m.bytes) <= Len(w.bytes) /\ Len(w.bytes) \in Nat BY <1>2, <1>3
    <3>3. \A h \in Handles(Len(os), Len(m.bytes)) : h \in Handles(Len(os), Len(w.bytes))
      <4> DEFINE n == Len(os)
                 k == Len(m.bytes)
                 k2 == Len(w.bytes)
      <4>1. n \in Nat /\ k \in Nat /\ k2 \in Nat /\ n <= n /\ k <= k2 BY <1>2, <3>1, <3>2
      <4> HIDE DEF n, k, k2
      <4>2. \A h \in Handles(n, k) : h \in Handles(n, k2) BY <4>1, HandlesGrow
      <4> QED BY <4>2 DEF n, k, k2
    <3> QED BY <3>3 DEF Good, Typed
  <2>3. \A i \in DOMAIN os : os[i] \in Calls BY <1>1, LenProperties, ElementOfSeq
  <2>4. ASSUME NEW i \in DOMAIN os PROVE CallTyped(os[i], i, Len(w.bytes))
    <3>1. CallTyped(os[i], i, Len(m.bytes)) BY DEF Good, Typed
    <3>2. os[i].startBuf \in Nat /\ os[i].buf \in Nat BY <2>3 DEF Calls
    <3> QED BY <1>2, <1>3, <3>1, <3>2 DEF CallTyped
  <2> QED BY <1>1, <2>1, <2>2, <2>4 DEF Typed
<1>6. Kept(hs, os, w)
  BY <1>2, <1>3, <1>4 DEF Good, Kept, Covered
<1> QED BY <1>5, <1>6 DEF Good, w, more

(* A call is begun. *)
LEMMA AppendGood ==
  ASSUME NEW hs, NEW os, NEW m, Good(hs, os, m), NEW x \in Calls,
         x.start = hs[x.cred].id, x.startBuf = hs[x.cred].buf, x.buf = 0,
         x.stage \in {"reading", "broken"},
         x.kind \in Rotations /\ hs[x.cred] = NoHandle => x.stage = "broken"
  PROVE  Good(hs, Append(os, x), m)
<1> DEFINE new == Append(os, x)
           n == Len(os) + 1
<1>1. os \in Seq(Calls) /\ x.cred \in Creds /\ m.bytes \in Seq(Nat) BY DEF Good, Typed, Calls
<1>2. /\ new \in Seq(Calls) /\ Len(new) = n /\ Len(os) \in Nat
      /\ \A i \in 1..Len(os) : new[i] = os[i]
      /\ new[n] = x
      /\ DOMAIN os = 1..Len(os) /\ DOMAIN new = 1..n
  BY <1>1, AppendProperties, LenProperties
<1> HIDE DEF new
<1>3. \A i \in DOMAIN new : (i \in DOMAIN os /\ i # n) \/ i = n BY <1>2
<1>4. hs \in [Creds -> Handles(Len(os), Len(m.bytes))] /\ Len(m.bytes) \in Nat
  BY <1>1, LenProperties DEF Good, Typed
<1>5. \A c \in Creds :
        /\ hs[c] \in Handles(n, Len(m.bytes)) /\ hs[c].id \in 0..Len(os)
        /\ hs[c].buf \in 0..Len(m.bytes)
        /\ hs[c].id = 0 <=> hs[c].buf = 0
        /\ hs[c] = NoHandle <=> hs[c].buf = 0
  BY <1>2, <1>4, HandlesGrow, HandleIs
<1>6. Typed(hs, new, m)
  <2>1. CallTyped(x, n, Len(m.bytes))
    <3>1. x.start < n /\ x.startBuf <= Len(m.bytes) /\ 0 <= Len(m.bytes)
      BY <1>1, <1>2, <1>4, <1>5
    <3>2. x.start = 0 <=> x.startBuf = 0 BY <1>1, <1>5
    <3>3. x.kind \in Rotations /\ x.start = 0 => x.stage \in {"broken", "failed"}
      BY <1>1, <1>5
    <3> QED BY <3>1, <3>2, <3>3 DEF CallTyped
  <2>2. \A i \in DOMAIN new : CallTyped(new[i], i, Len(m.bytes))
    BY <1>2, <1>3, <2>1 DEF Good, Typed
  <2>3. hs \in [Creds -> Handles(n, Len(m.bytes))] BY <1>4, <1>5
  <2> QED BY <1>2, <2>2, <2>3 DEF Good, Typed
<1> HIDE DEF n
<1>7. Kept(hs, new, m)
  <2>1. DOMAIN os \subseteq DOMAIN new /\ \A i \in DOMAIN os : new[i] = os[i]
    BY <1>2 DEF n
  <2> QED BY <2>1 DEF Good, Kept
<1>8. \A i \in DOMAIN os : new[i] = os[i] BY <1>2
<1>9. Fresh(hs, new)
  <2> SUFFICES ASSUME NEW i \in DOMAIN new, new[i].stage = "owned"
               PROVE  /\ \A c \in Creds : hs[c].buf # new[i].buf
                      /\ \A j \in DOMAIN new :
                           /\ new[j].startBuf # new[i].buf
                           /\ j # i /\ new[j].stage = "owned" => new[j].buf # new[i].buf
    BY DEF Fresh
  <2>1. i \in DOMAIN os /\ new[i] = os[i] BY <1>2, <1>3
  <2>2. \A c \in Creds : hs[c].buf # new[i].buf BY <2>1 DEF Good, Fresh
  <2>3. x.startBuf # new[i].buf /\ x.stage # "owned" BY <1>1, <2>2
  <2> QED BY <1>2, <1>3, <1>8, <2>1, <2>2, <2>3 DEF Good, Fresh
<1>10. SameBuffer(hs, new) BY <1>2, <1>3, <1>8 DEF Good, SameBuffer
<1>11. Faulted(hs, new) BY <1>2, <1>3, <1>8 DEF Good, Faulted, Condemned
<1> QED BY <1>6, <1>7, <1>9, <1>10, <1>11 DEF Good, new

(* The answer of the provider becomes the candidate of its call. *)
LEMMA OwnGood ==
  ASSUME NEW hs, NEW os, NEW m, Good(hs, os, m), NEW i \in DOMAIN os,
         os[i].stage = "answered", NEW v \in Nat, NEW x \in Calls,
         x.kind = os[i].kind, x.cred = os[i].cred, x.policy = os[i].policy,
         x.start = os[i].start, x.startBuf = os[i].startBuf,
         x.stage = "owned", x.buf = Len(m.bytes) + 1
  PROVE  Good(hs, [os EXCEPT ![i] = x],
              [bytes |-> Append(m.bytes, v), pending |-> m.pending])
<1> DEFINE new == [os EXCEPT ![i] = x]
           k == Len(m.bytes) + 1
           more == [bytes |-> Append(m.bytes, v), pending |-> m.pending \cup {k}]
           w == [bytes |-> Append(m.bytes, v), pending |-> m.pending]
<1>1. os \in Seq(Calls) /\ DOMAIN os = 1..Len(os) BY LenProperties DEF Good, Typed
<1>2. /\ new \in Seq(Calls) /\ Len(new) = Len(os) /\ DOMAIN new = DOMAIN os
      /\ new[i] = x /\ \A j \in DOMAIN os : j # i => new[j] = os[j]
  BY <1>1, ExceptSeq
<1>3. \A j \in DOMAIN os : os[j] \in Calls BY <1>1, ElementOfSeq
<1>4. Len(m.bytes) \in Nat /\ m.bytes \in Seq(Nat) BY LenProperties DEF Good, Typed
<1>5. Good(hs, os, more) BY GrowGood
<1>6. Len(w.bytes) = k /\ DOMAIN w.bytes = 1..k
  BY <1>4, AppendProperties, LenProperties
<1>7. w.bytes = more.bytes /\ w.pending \subseteq 1..Len(w.bytes) /\ more.pending = w.pending \cup {k}
  BY <1>4, <1>6 DEF Good, Typed
<1> HIDE DEF w, more, new
<1>8. CallTyped(x, i, Len(w.bytes))
  <2>1. CallTyped(os[i], i, Len(w.bytes)) BY <1>5, <1>7 DEF Good, Typed
  <2> QED BY <1>4, <1>6, <2>1 DEF CallTyped
<1>9. Typed(hs, new, w)
  <2>1. Typed(hs, os, more) BY <1>5 DEF Good
  <2>2. ASSUME NEW j \in DOMAIN new PROVE CallTyped(new[j], j, Len(w.bytes))
    <3>1. CallTyped(os[j], j, Len(more.bytes)) BY <1>2, <2>1 DEF Typed
    <3>2. CallTyped(os[j], j, Len(w.bytes)) BY <1>7, <3>1
    <3>3. CASE j = i BY <1>2, <1>8, <3>3
    <3>4. CASE j # i
      <4>1. new[j] = os[j] BY <1>2, <3>4
      <4> QED BY <3>2, <4>1
    <3> QED BY <3>3, <3>4
  <2>3. w.bytes \in Seq(Nat) /\ hs \in [Creds -> Handles(Len(new), Len(w.bytes))]
    BY <1>2, <1>7, <2>1 DEF Typed
  <2> QED BY <1>2, <1>7, <2>2, <2>3 DEF Typed
<1> HIDE DEF k
<1>10. Kept(hs, new, w)
  <2> SUFFICES ASSUME NEW b \in DOMAIN w.bytes, ~Covered(w, b), \A c \in Creds : hs[c].buf # b
               PROVE  \E j \in DOMAIN new : new[j].stage = "owned" /\ new[j].buf = b
    BY DEF Kept
  <2>1. CASE b = k BY <1>2, <2>1 DEF k
  <2>2. CASE b # k
    <3>1. ~Covered(more, b) /\ b \in DOMAIN more.bytes BY <1>7, <2>2 DEF Covered
    <3>2. PICK j \in DOMAIN os : os[j].stage = "owned" /\ os[j].buf = b
      BY <1>5, <3>1 DEF Good, Kept
    <3>3. j # i BY <3>2
    <3> QED BY <1>2, <3>2, <3>3
  <2> QED BY <2>1, <2>2
<1>11. /\ \A c \in Creds : hs[c].buf # k
       /\ \A j \in DOMAIN os : os[j].startBuf # k /\ os[j].buf # k
  <2>1. \A c \in Creds : hs[c].buf \in 0..Len(m.bytes)
    <3>1. Len(os) \in Nat BY <1>1, LenProperties
    <3>2. \A c \in Creds : hs[c] \in Handles(Len(os), Len(m.bytes)) BY DEF Good, Typed
    <3> QED BY <1>4, <3>1, <3>2, HandleIs
  <2>2. \A j \in DOMAIN os : /\ os[j].startBuf \in Nat /\ os[j].buf \in Nat
                             /\ os[j].startBuf <= Len(m.bytes) /\ os[j].buf <= Len(m.bytes)
    BY <1>3 DEF Good, Typed, CallTyped, Calls
  <2> QED BY <1>4, <2>1, <2>2 DEF k
<1>12. Fresh(hs, new)
  <2>1. x.buf = k BY DEF k
  <2>2. \A j \in DOMAIN os : new[j].startBuf = os[j].startBuf BY <1>2
  <2>3. \A j \in DOMAIN new : new[j].stage = "owned" =>
          \/ j = i /\ new[j].buf = k
          \/ j # i /\ os[j].stage = "owned" /\ new[j].buf = os[j].buf
    BY <1>2, <2>1
  <2>4. ASSUME NEW j \in DOMAIN new, new[j].stage = "owned", NEW c \in Creds
        PROVE  hs[c].buf # new[j].buf
    BY <1>2, <1>11, <2>3, <2>4 DEF Good, Fresh
  <2>5. ASSUME NEW j \in DOMAIN new, new[j].stage = "owned", NEW l \in DOMAIN new
        PROVE  /\ new[l].startBuf # new[j].buf
               /\ l # j /\ new[l].stage = "owned" => new[l].buf # new[j].buf
    BY <1>2, <1>11, <2>2, <2>3, <2>5 DEF Good, Fresh
  <2> QED BY <2>4, <2>5 DEF Fresh
<1>13. SameBuffer(hs, new) BY <1>2 DEF Good, SameBuffer
<1>14. Faulted(hs, new) BY <1>2 DEF Good, Faulted, Condemned
<1> QED BY <1>9, <1>10, <1>12, <1>13, <1>14 DEF Good, new, w

-----------------------------------------------------------------------------
(* Calls *)

LEMMA SameMemory ==
  ASSUME NEW hs, NEW os, NEW m, NEW w, Good(hs, os, m),
         w.bytes = m.bytes, w.pending = m.pending
  PROVE  Good(hs, os, w)
BY DEF Good, Typed, Kept, Covered

LEMMA StateIs ==
  ASSUME NEW hs, NEW os, NEW m, Good(hs, os, m)
  PROVE  /\ os \in Seq(Calls) /\ DOMAIN os = 1..Len(os) /\ Len(os) \in Nat
         /\ m.bytes \in Seq(Nat) /\ DOMAIN m.bytes = 1..Len(m.bytes) /\ Len(m.bytes) \in Nat
         /\ m.pending \subseteq 1..Len(m.bytes)
         /\ hs \in [Creds -> Handles(Len(os), Len(m.bytes))]
         /\ \A i \in DOMAIN os : os[i] \in Calls /\ CallTyped(os[i], i, Len(m.bytes))
         /\ \A c \in Creds :
              /\ hs[c].id \in 0..Len(os) /\ hs[c].buf \in 0..Len(m.bytes)
              /\ hs[c].id = 0 <=> hs[c].buf = 0
              /\ hs[c] = NoHandle <=> hs[c].buf = 0
<1>1. /\ os \in Seq(Calls) /\ DOMAIN os = 1..Len(os) /\ Len(os) \in Nat
      /\ m.bytes \in Seq(Nat) /\ DOMAIN m.bytes = 1..Len(m.bytes) /\ Len(m.bytes) \in Nat
  BY LenProperties DEF Good, Typed
<1>2. \A i \in DOMAIN os : os[i] \in Calls BY <1>1, ElementOfSeq
<1>3. hs \in [Creds -> Handles(Len(os), Len(m.bytes))] BY DEF Good, Typed
<1>4. \A c \in Creds :
        /\ hs[c].id \in 0..Len(os) /\ hs[c].buf \in 0..Len(m.bytes)
        /\ hs[c].id = 0 <=> hs[c].buf = 0
        /\ hs[c] = NoHandle <=> hs[c].buf = 0
  BY <1>1, <1>3, HandleIs
<1> QED BY <1>1, <1>2, <1>3, <1>4 DEF Good, Typed

LEMMA MemoryIs == Memory.bytes = bytes /\ Memory.pending = pending
BY DEF Memory

LEMMA StageIs ==
  ASSUME NEW os \in Seq(Calls), NEW i \in DOMAIN os, NEW s \in Stages
  PROVE  LET x == [os[i] EXCEPT !.stage = s] IN
         /\ x \in Calls
         /\ [os EXCEPT ![i].stage = s] = [os EXCEPT ![i] = x] /\ x.stage = s
         /\ x.kind = os[i].kind /\ x.cred = os[i].cred /\ x.policy = os[i].policy
         /\ x.start = os[i].start /\ x.startBuf = os[i].startBuf /\ x.buf = os[i].buf
<1>1. os[i] \in Calls BY LenProperties, ElementOfSeq
<1> QED BY <1>1 DEF Calls

LEMMA RetryKeeps ==
  ASSUME SecretsInv, NEW m \in Retry PROVE Good(handles, ops, m)
<1>1. Good(handles, ops, Memory) /\ Memory.pending \subseteq 1..Len(Memory.bytes)
  BY StateIs DEF SecretsInv
<1>2. CASE m = Memory BY <1>1, <1>2
<1>3. CASE m \in Wipe(Memory, pending) BY <1>1, <1>3, WipeGood, MemoryIs
<1> QED BY <1>2, <1>3 DEF Retry

(* The call that load, rotate and rotateOrFault begin. *)
LEMMA BeginKeeps ==
  ASSUME NEW m, Good(handles, ops, m), NEW kind \in Kinds, NEW c \in Creds,
         NEW policy \in Policies \cup {"log"}, NEW stage \in {"reading", "broken"},
         kind \in Rotations /\ handles[c] = NoHandle => stage = "broken"
  PROVE  Good(handles, Append(ops, Op(kind, c, policy, stage)), m)
<1> DEFINE x == Op(kind, c, policy, stage)
<1>1. handles[c].id \in Nat /\ handles[c].buf \in Nat BY StateIs
<1>2. /\ x.start = handles[c].id /\ x.startBuf = handles[c].buf /\ x.buf = 0
      /\ x.stage = stage /\ x.kind = kind /\ x.cred = c
  BY DEF Op
<1>3. stage \in Stages BY DEF Stages
<1>4. x \in Calls BY <1>1, <1>3 DEF Op, Calls
<1> HIDE DEF x
<1>5. /\ x.start = handles[x.cred].id /\ x.startBuf = handles[x.cred].buf
      /\ x.kind \in Rotations /\ handles[x.cred] = NoHandle => x.stage = "broken"
      /\ x.stage \in {"reading", "broken"}
  BY <1>2
<1> QED BY <1>2, <1>4, <1>5, AppendGood DEF x

LEMMA LoadKeeps ==
  ASSUME SecretsInv, NEW c \in Creds, Load(c) PROVE Good(handles', ops', Memory')
<1>1. PICK m \in Retry :
        /\ Become(m)
        /\ ops' = IF Clean(m) /\ ~Loading(c)
                  THEN Append(ops, Op("load", c, "log", "reading")) ELSE ops
  BY DEF Load
<1>2. handles' = handles /\ Memory'.bytes = m.bytes /\ Memory'.pending = m.pending
  BY <1>1 DEF Load, Become, Memory
<1>3. Good(handles, ops, m) BY RetryKeeps
<1>4. "load" \in Kinds /\ "load" \notin Rotations BY DEF Kinds, Rotations
<1>5. Good(handles, Append(ops, Op("load", c, "log", "reading")), m)
  BY <1>3, <1>4, BeginKeeps
<1>6. Good(handles, ops', m) BY <1>1, <1>3, <1>5
<1> QED BY <1>2, <1>6, SameMemory

LEMMA RotateKeeps ==
  ASSUME SecretsInv, NEW kind \in Rotations, NEW c \in Creds,
         NEW policy \in Policies \cup {"log"}, Rotate(kind, c, policy)
  PROVE  Good(handles', ops', Memory')
<1> DEFINE stage == IF handles[c] = NoHandle THEN "broken" ELSE "reading"
<1>1. PICK m \in Retry :
        /\ Become(m)
        /\ ops' = IF Clean(m) /\ MayRotate(c)
                  THEN Append(ops, Op(kind, c, policy, stage)) ELSE ops
  BY DEF Rotate
<1>2. handles' = handles /\ Memory'.bytes = m.bytes /\ Memory'.pending = m.pending
  BY <1>1 DEF Rotate, Become, Memory
<1>3. Good(handles, ops, m) BY RetryKeeps
<1>4. /\ kind \in Kinds /\ stage \in {"reading", "broken"}
      /\ handles[c] = NoHandle => stage = "broken"
  BY DEF Kinds
<1> HIDE DEF stage
<1>5. Good(handles, Append(ops, Op(kind, c, policy, stage)), m)
  BY <1>3, <1>4, BeginKeeps
<1>6. Good(handles, ops', m) BY <1>1, <1>3, <1>5
<1> QED BY <1>2, <1>6, SameMemory

LEMMA InvalidPolicyKeeps ==
  ASSUME SecretsInv, NEW c \in Creds, RotateInvalidPolicy(c)
  PROVE  Good(handles', ops', Memory')
<1>1. PICK m \in Retry : IF Clean(m) /\ ~Rotating(c) THEN Evict(c, m)
                         ELSE Become(m) /\ UNCHANGED handles
  BY DEF RotateInvalidPolicy
<1>2. Good(handles, ops, m) /\ ops' = ops BY RetryKeeps DEF RotateInvalidPolicy
<1>3. CASE Become(m) /\ UNCHANGED handles
  <2>1. Memory'.bytes = m.bytes /\ Memory'.pending = m.pending BY <1>3 DEF Become, Memory
  <2> QED BY <1>2, <1>3, <2>1, SameMemory
<1>4. CASE Evict(c, m)
  <2>1. PICK w \in Wipe(m, {handles[c].buf} \ {0}) : Become(w) BY <1>4 DEF Evict
  <2>2. handles' = [handles EXCEPT ![c] = NoHandle] BY <1>4 DEF Evict
  <2>3. {handles[c].buf} \ {0} \subseteq 1..Len(m.bytes) BY <1>2, StateIs
  <2>4. Good(handles, ops, w) /\ Covered(w, handles[c].buf)
    BY <1>2, <2>3, WipeGood DEF Covered
  <2>5. /\ handles' \in [Creds -> Handles(Len(ops), Len(w.bytes))]
        /\ \A d \in Creds : handles'[d] = handles[d] \/ (d = c /\ handles'[d] = NoHandle)
    BY <2>2, <2>4, StateIs DEF Handles
  <2>6. Good(handles', ops, w) BY <2>4, <2>5, DropGood
  <2>7. Memory'.bytes = w.bytes /\ Memory'.pending = w.pending BY <2>1 DEF Become, Memory
  <2> QED BY <1>2, <2>6, <2>7, SameMemory
<1> QED BY <1>1, <1>3, <1>4

LEMMA CopyKeeps ==
  ASSUME SecretsInv, NEW c \in Creds, UseActiveCopyStays(c)
  PROVE  Good(handles', ops', Memory')
<1>1. /\ bytes' = Append(bytes, bytes[handles[c].buf]) /\ pending' = {Len(bytes')}
      /\ handles' = handles /\ ops' = ops /\ pending = {} /\ handles[c] # NoHandle
  BY DEF UseActiveCopyStays, Servable
<1>2. Good(handles, ops, Memory) BY DEF SecretsInv
<1>3. handles[c].buf \in 1..Len(bytes) /\ bytes \in Seq(Nat) BY <1>1, <1>2, StateIs, MemoryIs
<1>4. bytes[handles[c].buf] \in Nat BY <1>3, ElementOfSeq
<1>5. Len(bytes') = Len(bytes) + 1 BY <1>1, <1>3, <1>4, AppendProperties
<1> DEFINE w == [bytes |-> Append(bytes, bytes[handles[c].buf]),
                 pending |-> pending \cup {Len(bytes) + 1}]
<1>6. Good(handles, ops, w) BY <1>2, <1>4, GrowGood, MemoryIs
<1>7. Memory'.bytes = w.bytes /\ Memory'.pending = w.pending BY <1>1, <1>5 DEF Memory
<1> HIDE DEF w
<1> QED BY <1>1, <1>6, <1>7, SameMemory

LEMMA DisposeKeeps == ASSUME SecretsInv, Dispose PROVE Good(handles', ops', Memory')
<1> DEFINE S == pending \cup ({handles[c].buf : c \in Creds} \ {0})
<1>1. PICK w \in Wipe(Memory, S) : Become(w) BY DEF Dispose
<1>2. handles' = [c \in Creds |-> NoHandle] /\ ops' = ops BY DEF Dispose
<1>3. Good(handles, ops, Memory) BY DEF SecretsInv
<1>4. S \subseteq 1..Len(Memory.bytes) BY <1>3, StateIs, MemoryIs
<1>5. Good(handles, ops, w) /\ \A b \in S : Covered(w, b) BY <1>3, <1>4, WipeGood
<1>6. \A c \in Creds : handles'[c] = NoHandle /\ Covered(w, handles[c].buf)
  BY <1>2, <1>5 DEF Covered
<1>7. handles' \in [Creds -> Handles(Len(ops), Len(w.bytes))] BY <1>2 DEF Handles
<1> HIDE DEF S
<1>8. Good(handles', ops, w) BY <1>5, <1>6, <1>7, DropGood
<1>9. Memory'.bytes = w.bytes /\ Memory'.pending = w.pending BY <1>1 DEF Become, Memory
<1> QED BY <1>2, <1>8, <1>9, SameMemory

-----------------------------------------------------------------------------
(* Continuations *)

(* A call may go on to a stage in which it owns nothing. *)
MayBe(hs, m, i, s) ==
  /\ s \in Stages /\ s # "owned"
  /\ ops[i].stage = "owned" => Covered(m, ops[i].buf)
  /\ ops[i].kind \in Rotations /\ ops[i].start = 0 => s \in {"broken", "failed"}
  /\ /\ s = "failed" /\ ops[i].kind = "rotateOrFault" /\ ops[i].policy # "log"
     /\ ops[i].startBuf # 0 /\ hs[ops[i].cred].buf = ops[i].startBuf
     => hs[ops[i].cred].faulted

LEMMA StageKeeps ==
  ASSUME NEW hs, NEW m, Good(hs, ops, m), NEW i \in DOMAIN ops, NEW s, MayBe(hs, m, i, s), To(i, s)
  PROVE  Good(hs, ops', m)
<1> DEFINE x == [ops[i] EXCEPT !.stage = s]
<1>1. ops \in Seq(Calls) /\ s \in Stages BY StateIs DEF MayBe
<1>2. /\ x \in Calls
      /\ [ops EXCEPT ![i].stage = s] = [ops EXCEPT ![i] = x] /\ x.stage = s
      /\ x.kind = ops[i].kind /\ x.cred = ops[i].cred /\ x.policy = ops[i].policy
      /\ x.start = ops[i].start /\ x.startBuf = ops[i].startBuf /\ x.buf = ops[i].buf
  BY <1>1, StageIs
<1> HIDE DEF x
<1>3. Good(hs, [ops EXCEPT ![i] = x], m) BY <1>2, StageGood DEF Condemned, MayBe
<1> QED BY <1>2, <1>3 DEF To

(* A call that hands its candidate over to the handle of its credential. *)
LEMMA MoveKeeps ==
  ASSUME NEW m, Good(handles, ops, m), NEW i \in DOMAIN ops, ops[i].stage = "owned",
         Covered(m, handles[ops[i].cred].buf),
         NEW h \in Handles(Len(ops), Len(m.bytes)), h.buf = ops[i].buf,
         NEW s \in Settled, To(i, s)
  PROVE  Good([handles EXCEPT ![ops[i].cred] = h], ops', m)
<1> DEFINE x == [ops[i] EXCEPT !.stage = s]
<1>1. ops \in Seq(Calls) /\ s \in Stages BY StateIs DEF Settled, Stages
<1>2. /\ x \in Calls
      /\ [ops EXCEPT ![i].stage = s] = [ops EXCEPT ![i] = x] /\ x.stage = s
      /\ x.kind = ops[i].kind /\ x.cred = ops[i].cred /\ x.policy = ops[i].policy
      /\ x.start = ops[i].start /\ x.startBuf = ops[i].startBuf /\ x.buf = ops[i].buf
  BY <1>1, StageIs
<1> HIDE DEF x
<1>3. Good([handles EXCEPT ![ops[i].cred] = h], [ops EXCEPT ![i] = x], m) BY <1>2, MoveGood
<1> QED BY <1>2, <1>3 DEF To

LEMMA AnswerKeeps ==
  ASSUME SecretsInv, NEW i \in DOMAIN ops, Answer(i)
  PROVE  Good(handles', ops', Memory')
<1>1. Good(handles, ops, Memory) /\ gen \in Nat BY DEF SecretsInv
<1>2. /\ ops[i].stage = "reading"
      /\ handles' = handles /\ Memory'.bytes = Memory.bytes /\ Memory'.pending = Memory.pending
  BY DEF Answer, Memory
<1>3. ops[i] \in Calls /\ CallTyped(ops[i], i, Len(Memory.bytes)) BY <1>1, StateIs
<1>4. ~(ops[i].kind \in Rotations /\ ops[i].start = 0) BY <1>2, <1>3 DEF CallTyped
<1>5. CASE ops' = [ops EXCEPT ![i].stage = "answered", ![i].value = gen]
  <2> DEFINE x == [ops[i] EXCEPT !.stage = "answered", !.value = gen]
  <2>1. ops' = [ops EXCEPT ![i] = x] BY <1>5
  <2>2. /\ x \in Calls /\ x.stage = "answered"
        /\ x.kind = ops[i].kind /\ x.cred = ops[i].cred /\ x.policy = ops[i].policy
        /\ x.start = ops[i].start /\ x.startBuf = ops[i].startBuf /\ x.buf = ops[i].buf
    BY <1>1, <1>3 DEF Calls, Stages
  <2> HIDE DEF x
  <2>3. ~Condemned(x) BY <2>2 DEF Condemned
  <2>4. Good(handles, [ops EXCEPT ![i] = x], Memory)
    BY <1>1, <1>2, <1>4, <2>2, <2>3, StageGood
  <2> QED BY <1>2, <2>1, <2>4, SameMemory
<1>6. CASE ops' = [ops EXCEPT ![i].stage = "rejected"]
  <2>1. MayBe(handles, Memory, i, "rejected") BY <1>2, <1>4 DEF Stages, MayBe
  <2>2. To(i, "rejected") BY <1>6 DEF To
  <2>3. Good(handles, ops', Memory) BY <1>1, <2>1, <2>2, StageKeeps
  <2> QED BY <1>2, <2>3, SameMemory
<1> QED BY <1>5, <1>6 DEF Answer

LEMMA BrokenKeeps ==
  ASSUME NEW m, Good(handles, ops, m), NEW i \in DOMAIN ops, ops[i].stage # "owned",
         To(i, "broken")
  PROVE  Good(handles, ops', m)
<1>1. MayBe(handles, m, i, "broken") BY DEF Stages, MayBe
<1> QED BY <1>1, StageKeeps

LEMMA ReceiveKeeps ==
  ASSUME SecretsInv, NEW i \in DOMAIN ops, Receive(i)
  PROVE  Good(handles', ops', Memory')
<1>1. Good(handles, ops, Memory) /\ handles' = handles BY DEF SecretsInv, Receive
<1>2. /\ ops[i] \in Calls /\ ops[i].value \in Nat /\ ops \in Seq(Calls)
      /\ bytes \in Seq(Nat) /\ Len(bytes) \in Nat /\ pending \subseteq 1..Len(bytes)
  BY <1>1, StateIs, MemoryIs DEF Calls
<1>3. CASE ops[i].stage = "answered" /\ Own(i)
  <2> DEFINE w == [bytes |-> Append(bytes, ops[i].value), pending |-> pending]
             x == [ops[i] EXCEPT !.stage = "owned", !.buf = Len(bytes) + 1]
  <2>1. Len(bytes') = Len(bytes) + 1 BY <1>2, <1>3, AppendProperties DEF Own
  <2>2. ops' = [ops EXCEPT ![i] = x] BY <1>3, <2>1 DEF Own
  <2>3. /\ x \in Calls /\ x.stage = "owned" /\ x.buf = Len(bytes) + 1
        /\ x.kind = ops[i].kind /\ x.cred = ops[i].cred /\ x.policy = ops[i].policy
        /\ x.start = ops[i].start /\ x.startBuf = ops[i].startBuf
    <3> DEFINE k == Len(bytes) + 1
    <3>1. k \in Nat /\ "owned" \in Stages BY <1>2 DEF Stages
    <3> HIDE DEF k
    <3>2. [ops[i] EXCEPT !.stage = "owned", !.buf = k] \in Calls BY <1>2, <3>1 DEF Calls
    <3> QED BY <1>2, <3>2 DEF Calls, k
  <2>4. Memory'.bytes = w.bytes /\ Memory'.pending = w.pending BY <1>3 DEF Own, Memory
  <2> HIDE DEF x
  <2>5. Good(handles, [ops EXCEPT ![i] = x], w)
    BY <1>1, <1>2, <1>3, <2>3, OwnGood, MemoryIs
  <2> HIDE DEF w
  <2> QED BY <1>1, <2>2, <2>4, <2>5, SameMemory
<1>4. CASE ops[i].stage = "answered" /\ OwnFails(i)
  <2> DEFINE v == ops[i].value
             n == Len(bytes)
             S == {n + 1, n + 2}
             one == [bytes |-> Append(bytes, v), pending |-> pending \cup {n + 1}]
             two == [bytes |-> Append(one.bytes, v), pending |-> one.pending \cup {n + 2}]
             both == [Memory EXCEPT !.bytes = @ \o <<v, v>>]
  <2>1. PICK w \in Wipe(both, S) : Become(w) BY <1>4 DEF OwnFails
  <2>2. Good(handles, ops, one) BY <1>1, <1>2, GrowGood, MemoryIs
  <2>3. one.bytes \in Seq(Nat) /\ Len(one.bytes) = n + 1 BY <1>2, AppendProperties
  <2> HIDE DEF one
  <2>4. Good(handles, ops, two) /\ Len(two.bytes) = n + 2
    <3>1. Len(one.bytes) + 1 = n + 2 BY <1>2, <2>3
    <3>2. Good(handles, ops, [bytes |-> Append(one.bytes, v),
                              pending |-> one.pending \cup {Len(one.bytes) + 1}])
      BY <1>2, <2>2, GrowGood
    <3>3. Len(Append(one.bytes, v)) = Len(one.bytes) + 1 BY <1>2, <2>3, AppendProperties
    <3> QED BY <3>1, <3>2, <3>3
  <2>5. bytes \o <<v, v>> = Append(Append(bytes, v), v) BY <1>2
  <2>6. both.bytes = two.bytes /\ both.pending \ S = two.pending \ S
    BY <2>5 DEF one, Memory
  <2>7. S \subseteq 1..Len(two.bytes) BY <1>2, <2>4
  <2> HIDE DEF two, both, S
  <2>8. w \in Wipe(two, S) BY <2>1, <2>6 DEF Wipe
  <2>9. Good(handles, ops, w) BY <2>4, <2>7, <2>8, WipeGood
  <2>10. Good(handles, ops', w) BY <1>4, <2>9, BrokenKeeps DEF OwnFails
  <2>11. Memory'.bytes = w.bytes /\ Memory'.pending = w.pending BY <2>1 DEF Become, Memory
  <2> QED BY <1>1, <2>10, <2>11, SameMemory
<1>5. CASE ops[i].stage # "owned" /\ To(i, "broken") /\ UNCHANGED <<bytes, pending>>
  <2>1. Good(handles, ops', Memory) BY <1>1, <1>5, BrokenKeeps
  <2>2. Memory'.bytes = Memory.bytes /\ Memory'.pending = Memory.pending BY <1>5 DEF Memory
  <2> QED BY <1>1, <2>1, <2>2, SameMemory
<1> QED BY <1>3, <1>4, <1>5 DEF Receive, Refuse

LEMMA FinishLoadKeeps ==
  ASSUME SecretsInv, NEW i \in DOMAIN ops, FinishLoad(i)
  PROVE  Good(handles', ops', Memory')
<1> DEFINE c == ops[i].cred
           old == handles[c]
           new == [id |-> i, buf |-> ops[i].buf, version |-> old.version + 1, faulted |-> FALSE]
<1>1. Good(handles, ops, Memory) BY DEF SecretsInv
<1>2. /\ ops[i] \in Calls /\ c \in Creds /\ i \in 1..Len(ops) /\ ops \in Seq(Calls)
      /\ CallTyped(ops[i], i, Len(bytes)) /\ ops[i].buf \in Nat
      /\ handles \in [Creds -> Handles(Len(ops), Len(bytes))]
      /\ old.buf \in 0..Len(bytes) /\ {old.buf} \ {0} \subseteq 1..Len(Memory.bytes)
      /\ old = NoHandle <=> old.buf = 0
  <2>1. /\ ops[i] \in Calls /\ i \in 1..Len(ops) /\ ops \in Seq(Calls)
        /\ CallTyped(ops[i], i, Len(bytes))
        /\ handles \in [Creds -> Handles(Len(ops), Len(bytes))]
    BY <1>1, StateIs, MemoryIs
  <2>2. c \in Creds /\ ops[i].buf \in Nat BY <2>1 DEF Calls
  <2>3. old.buf \in 0..Len(bytes) /\ (old = NoHandle <=> old.buf = 0) /\ Len(bytes) \in Nat
    BY <1>1, <2>2, StateIs, MemoryIs
  <2>4. {old.buf} \ {0} \subseteq 1..Len(Memory.bytes) BY <2>3, MemoryIs
  <2> QED BY <2>1, <2>2, <2>3, <2>4
<1>3. ops[i].kind = "load" /\ ops[i].kind \notin Rotations BY DEF FinishLoad, Rotations
<1>4. ASSUME NEW m, Good(handles, ops, m), Len(m.bytes) = Len(bytes), ops[i].stage = "owned",
             To(i, "failed"), NEW w \in Wipe(m, {ops[i].buf})
      PROVE  Good(handles, ops', w)
  <2>1. {ops[i].buf} \subseteq 1..Len(m.bytes) BY <1>2, <1>4, StateIs, MemoryIs DEF CallTyped
  <2>2. Good(handles, ops, w) /\ Covered(w, ops[i].buf) BY <1>4, <2>1, WipeGood
  <2>3. MayBe(handles, w, i, "failed") BY <1>3, <2>2 DEF Stages, MayBe
  <2> QED BY <1>4, <2>2, <2>3, StageKeeps
<1>5. CASE ops[i].stage = "broken" /\ To(i, "failed") /\ UNCHANGED <<handles, bytes, pending>>
  <2>1. MayBe(handles, Memory, i, "failed") BY <1>3, <1>5 DEF Stages, MayBe
  <2>2. Good(handles, ops', Memory) BY <1>1, <1>5, <2>1, StageKeeps
  <2>3. Memory'.bytes = Memory.bytes /\ Memory'.pending = Memory.pending BY <1>5 DEF Memory
  <2> QED BY <1>5, <2>2, <2>3, SameMemory
<1>6. CASE /\ ops[i].stage = "owned" /\ To(i, "failed")
           /\ (\E w \in Wipe(Memory, {ops[i].buf}) : Become(w)) /\ UNCHANGED handles
  <2>1. PICK w \in Wipe(Memory, {ops[i].buf}) : Become(w) BY <1>6
  <2>2. Good(handles, ops', w) BY <1>1, <1>4, <1>6, <2>1, MemoryIs
  <2>3. Memory'.bytes = w.bytes /\ Memory'.pending = w.pending BY <2>1 DEF Become, Memory
  <2> QED BY <1>6, <2>2, <2>3, SameMemory
<1>7. ASSUME ops[i].stage = "owned", NEW m \in Wipe(Memory, {old.buf} \ {0}),
             old.buf \notin m.pending, Become(m), To(i, "done"),
             handles' = [handles EXCEPT ![c] = new]
      PROVE  Good(handles', ops', Memory')
  <2>1. {old.buf} \ {0} \subseteq 1..Len(Memory.bytes) BY <1>2
  <2>2. Good(handles, ops, m) /\ Len(m.bytes) = Len(bytes) /\ Covered(m, old.buf)
    BY <1>1, <1>7, <2>1, WipeGood, MemoryIs DEF Covered
  <2>3. new \in Handles(Len(ops), Len(m.bytes)) /\ new.buf = ops[i].buf
    <3>1. old.version \in Nat
      <4>1. old \in Handles(Len(ops), Len(bytes)) BY <1>2
      <4> QED BY <4>1 DEF Handles, NoHandle
    <3>2. ops[i].buf \in 1..Len(m.bytes) BY <1>2, <1>7, <2>2, StateIs, MemoryIs DEF CallTyped
    <3> QED BY <1>2, <3>1, <3>2 DEF Handles
  <2> HIDE DEF new
  <2>4. Good([handles EXCEPT ![ops[i].cred] = new], ops', m)
    BY <1>7, <2>2, <2>3, MoveKeeps DEF Settled
  <2>5. Memory'.bytes = m.bytes /\ Memory'.pending = m.pending BY <1>7 DEF Become, Memory
  <2> QED BY <1>7, <2>4, <2>5, SameMemory
<1>8. ASSUME ops[i].stage = "owned", NEW m \in Wipe(Memory, {old.buf} \ {0}),
             old.buf \in m.pending, To(i, "failed"),
             NEW w \in Wipe(m, {ops[i].buf}), Become(w),
             handles' = [handles EXCEPT ![c].faulted = TRUE]
      PROVE  Good(handles', ops', Memory')
  <2>1. {old.buf} \ {0} \subseteq 1..Len(Memory.bytes) BY <1>2
  <2>2. Good(handles, ops, m) /\ Len(m.bytes) = Len(bytes) BY <1>1, <1>8, <2>1, WipeGood, MemoryIs
  <2>3. Good(handles, ops', w) BY <1>4, <1>8, <2>2
  <2>4. old.buf # 0 BY <1>8, <2>2, StateIs
  <2>5. /\ handles' \in [Creds -> Handles(Len(ops'), Len(w.bytes))]
        /\ \A d \in Creds :
             \/ handles'[d] = handles[d]
             \/ handles'[d].id = handles[d].id /\ handles'[d].buf = handles[d].buf
                /\ handles'[d].faulted = TRUE
    <3> DEFINE H == Handles(Len(ops'), Len(w.bytes))
               n == Len(ops')
               k == Len(w.bytes)
    <3>1. handles \in [Creds -> H] BY <2>3, StateIs
    <3>2. old \in [id : 1..n, buf : 1..k, version : Nat, faulted : BOOLEAN]
      <4>1. old \in Handles(n, k) BY <1>2, <3>1
      <4>2. old # NoHandle BY <1>2, <2>4
      <4> QED BY <4>1, <4>2 DEF Handles
    <3>3. [old EXCEPT !.faulted = TRUE] \in H
      <4> HIDE DEF n, k, old
      <4>1. [old EXCEPT !.faulted = TRUE] \in
              [id : 1..n, buf : 1..k, version : Nat, faulted : BOOLEAN]
        BY <3>2
      <4> QED BY <4>1 DEF Handles, n, k
    <3>4. handles' = [handles EXCEPT ![c] = [old EXCEPT !.faulted = TRUE]] BY <1>8
    <3> HIDE DEF H
    <3> QED BY <1>2, <3>1, <3>2, <3>3, <3>4 DEF H
  <2>6. Good(handles', ops', w) BY <2>3, <2>5, DropGood
  <2>7. Memory'.bytes = w.bytes /\ Memory'.pending = w.pending BY <1>8 DEF Become, Memory
  <2> QED BY <2>6, <2>7, SameMemory
<1> QED BY <1>5, <1>6, <1>7, <1>8 DEF FinishLoad

(* The fault policy takes the handle the rotation began with out of service,
   and touches no other. *)
LEMMA FaultKeeps ==
  ASSUME NEW hs, NEW os, NEW m, Good(hs, os, m), NEW i \in DOMAIN ops,
         ops[i].cred \in Creds, Fault(i, hs, m)
  PROVE  /\ Good(handles', os, Memory')
         /\ ~SameHandle(i) \/ hs[ops[i].cred] = NoHandle \/ ops[i].policy = "log"
              => handles' = hs /\ bytes' = m.bytes /\ pending' = m.pending
         /\ \/ ~SameHandle(i) \/ hs[ops[i].cred] = NoHandle \/ ops[i].policy = "log"
            \/ handles'[ops[i].cred] = NoHandle \/ handles'[ops[i].cred].faulted
<1> DEFINE c == ops[i].cred
<1>1. CASE ~SameHandle(i) \/ hs[c] = NoHandle \/ ops[i].policy = "log"
  <2>1. handles' = hs /\ bytes' = m.bytes /\ pending' = m.pending
    BY <1>1 DEF Fault, Become
  <2>2. Memory'.bytes = m.bytes /\ Memory'.pending = m.pending BY <2>1 DEF Memory
  <2>3. Good(hs, os, Memory') BY <2>2, SameMemory
  <2> QED BY <1>1, <2>1, <2>3
<1>2. CASE ~(~SameHandle(i) \/ hs[c] = NoHandle \/ ops[i].policy = "log")
  <2> DEFINE new == IF ops[i].policy = "halt" THEN NoHandle ELSE [hs[c] EXCEPT !.faulted = TRUE]
  <2>1. handles' = [hs EXCEPT ![c] = new] /\ \E w \in Wipe(m, {hs[c].buf}) : Become(w)
    BY <1>2 DEF Fault
  <2>2. PICK w \in Wipe(m, {hs[c].buf}) : Become(w) BY <2>1
  <2>3. hs[c].buf # 0 /\ {hs[c].buf} \subseteq 1..Len(m.bytes) BY <1>2, StateIs
  <2>4. Good(hs, os, w) /\ Covered(w, hs[c].buf) BY <2>3, WipeGood
  <2>5. hs \in [Creds -> Handles(Len(os), Len(w.bytes))] BY <2>4, StateIs
  <2>6. /\ new \in Handles(Len(os), Len(w.bytes))
        /\ \/ new = NoHandle
           \/ new.id = hs[c].id /\ new.buf = hs[c].buf /\ new.faulted = TRUE
    <3>1. hs[c] \in [id : 1..Len(os), buf : 1..Len(w.bytes), version : Nat, faulted : BOOLEAN]
      BY <1>2, <2>5 DEF Handles
    <3>2. CASE ops[i].policy = "halt" BY <3>2 DEF Handles
    <3>3. CASE ops[i].policy # "halt"
      <4>1. new = [hs[c] EXCEPT !.faulted = TRUE] BY <3>3
      <4>2. new \in [id : 1..Len(os), buf : 1..Len(w.bytes), version : Nat, faulted : BOOLEAN]
        BY <3>1, <4>1
      <4>3. new.id = hs[c].id /\ new.buf = hs[c].buf /\ new.faulted = TRUE BY <3>1, <4>1
      <4> QED BY <4>2, <4>3 DEF Handles
    <3> QED BY <3>2, <3>3
  <2> HIDE DEF new
  <2>7. /\ handles' \in [Creds -> Handles(Len(os), Len(w.bytes))] /\ handles'[c] = new
        /\ \A d \in Creds : d # c => handles'[d] = hs[d]
    BY <2>1, <2>5, <2>6
  <2>8. \A d \in Creds :
          \/ handles'[d] = hs[d]
          \/ handles'[d] = NoHandle /\ Covered(w, hs[d].buf)
          \/ handles'[d].id = hs[d].id /\ handles'[d].buf = hs[d].buf /\ handles'[d].faulted = TRUE
    BY <2>4, <2>6, <2>7
  <2>9. Good(handles', os, w) BY <2>4, <2>7, <2>8, DropGood
  <2>10. Memory'.bytes = w.bytes /\ Memory'.pending = w.pending BY <2>2 DEF Become, Memory
  <2>11. Good(handles', os, Memory') BY <2>9, <2>10, SameMemory
  <2>12. handles'[c] = NoHandle \/ handles'[c].faulted BY <2>6, <2>7
  <2> QED BY <1>2, <2>11, <2>12
<1> QED BY <1>1, <1>2

LEMMA OtherHandle ==
  ASSUME NEW m, Good(handles, ops, m), NEW i \in DOMAIN ops, ~SameHandle(i)
  PROVE  ops[i].startBuf # 0 => handles[ops[i].cred].buf # ops[i].startBuf
BY DEF Good, SameBuffer, SameHandle

LEMMA ReadFailedKeeps ==
  ASSUME SecretsInv, NEW i \in DOMAIN ops, ReadFailed(i)
  PROVE  Good(handles', ops', Memory')
<1> DEFINE c == ops[i].cred
<1>1. /\ Good(handles, ops, Memory) /\ ops[i].kind \in Rotations /\ ops[i].stage = "broken"
      /\ Settle(i, handles, Memory, FALSE)
  BY DEF SecretsInv, ReadFailed
<1>2. To(i, "failed") BY <1>1 DEF Settle
<1>3. c \in Creds BY <1>1, StateIs DEF Calls
<1>4. CASE ops[i].kind = "rotateOrFault"
  <2>1. Fault(i, handles, Memory) BY <1>1, <1>4 DEF Settle
  <2>2. /\ Good(handles', ops, Memory')
        /\ ~SameHandle(i) \/ handles[c] = NoHandle \/ ops[i].policy = "log" => handles' = handles
        /\ \/ ~SameHandle(i) \/ handles[c] = NoHandle \/ ops[i].policy = "log"
           \/ handles'[c] = NoHandle \/ handles'[c].faulted
    BY <1>1, <1>3, <2>1, FaultKeeps
  <2>3. ASSUME ops[i].policy # "log", ops[i].startBuf # 0, handles'[c].buf = ops[i].startBuf
        PROVE  handles'[c].faulted
    <3>1. NoHandle.buf = 0 BY DEF NoHandle
    <3>2. SameHandle(i) BY <1>1, <2>2, <2>3, OtherHandle
    <3> QED BY <2>2, <2>3, <3>1, <3>2
  <2>4. MayBe(handles', Memory', i, "failed") BY <1>1, <2>3 DEF MayBe, Stages
  <2> QED BY <1>2, <2>2, <2>4, StageKeeps
<1>5. CASE ops[i].kind # "rotateOrFault"
  <2>1. handles' = handles /\ Become(Memory) BY <1>1, <1>5 DEF Settle
  <2>2. Memory'.bytes = Memory.bytes /\ Memory'.pending = Memory.pending
    BY <2>1 DEF Become, Memory
  <2>3. MayBe(handles, Memory, i, "failed") BY <1>1, <1>5 DEF MayBe, Stages
  <2>4. Good(handles, ops', Memory) BY <1>1, <1>2, <2>3, StageKeeps
  <2> QED BY <2>1, <2>2, <2>4, SameMemory
<1> QED BY <1>4, <1>5

LEMMA SwappedIs ==
  ASSUME NEW n, NEW k,
         NEW h \in [id : 1..n, buf : 1..k, version : Nat, faulted : BOOLEAN], NEW b \in 1..k
  PROVE  LET swapped == [h EXCEPT !.buf = b, !.version = @ + 1]
             R == [id : 1..n, buf : 1..k, version : Nat, faulted : BOOLEAN] IN
         /\ swapped \in R /\ swapped.buf = b
         /\ \A f \in BOOLEAN : /\ [swapped EXCEPT !.faulted = f] \in R
                             /\ [swapped EXCEPT !.faulted = f].buf = b
<1> DEFINE R == [id : 1..n, buf : 1..k, version : Nat, faulted : BOOLEAN]
           held == [h EXCEPT !.buf = b]
           s == [held EXCEPT !.version = @ + 1]
<1>1. held \in R /\ held.buf = b OBVIOUS
<1>2. [h EXCEPT !.buf = b, !.version = @ + 1] = s OBVIOUS
<1> HIDE DEF held
<1>3. s \in R /\ s.buf = b BY <1>1
<1> HIDE DEF s
<1>4. \A f \in BOOLEAN : [s EXCEPT !.faulted = f] \in R /\ [s EXCEPT !.faulted = f].buf = b
  BY <1>3
<1> QED BY <1>2, <1>3, <1>4

(* The candidate is swapped in, or the handle it was meant for is gone. *)
LEMMA QuiescedKeeps ==
  ASSUME SecretsInv, NEW i \in DOMAIN ops, Quiesced(i)
  PROVE  Good(handles', ops', Memory')
<1> DEFINE c == ops[i].cred
           h == handles[c]
           swapped == [h EXCEPT !.buf = ops[i].buf, !.version = @ + 1]
<1>1. /\ Good(handles, ops, Memory) /\ ops[i].kind \in Rotations /\ ops[i].stage = "owned"
  BY DEF SecretsInv, Quiesced
<1>2. /\ c \in Creds /\ CallTyped(ops[i], i, Len(bytes)) /\ ops[i].buf \in 1..Len(bytes)
      /\ ops[i].start # 0
  <2>1. ops[i] \in Calls /\ CallTyped(ops[i], i, Len(bytes)) /\ Len(bytes) \in Nat
    BY <1>1, StateIs, MemoryIs
  <2>2. c \in Creds /\ ops[i].buf \in Nat BY <2>1 DEF Calls
  <2> QED BY <1>1, <2>1, <2>2 DEF CallTyped
<1>3. CASE ~SameHandle(i) /\ \E m \in Unswapped(i) : Settle(i, handles, m, FALSE)
  <2>1. PICK m \in Wipe(Memory, {ops[i].buf}) : Settle(i, handles, m, FALSE)
    BY <1>3 DEF Unswapped
  <2>2. Good(handles, ops, m) /\ Covered(m, ops[i].buf) BY <1>1, <1>2, WipeGood, MemoryIs
  <2>3. MayBe(handles, m, i, "failed")
    <3>1. ops[i].startBuf # 0 => handles[c].buf # ops[i].startBuf BY <1>3, <2>2, OtherHandle
    <3> QED BY <2>2, <3>1 DEF MayBe, Stages
  <2>4. To(i, "failed") BY <2>1 DEF Settle
  <2>5. Good(handles, ops', m) BY <2>2, <2>3, <2>4, StageKeeps
  <2>6. handles' = handles /\ bytes' = m.bytes /\ pending' = m.pending
    BY <1>3, <2>1 DEF Settle, Fault, Become
  <2>7. Memory'.bytes = m.bytes /\ Memory'.pending = m.pending BY <2>6 DEF Memory
  <2> QED BY <2>5, <2>6, <2>7, SameMemory
<1>4. ASSUME SameHandle(i), NEW m \in Wipe(Memory, {h.buf}), NEW ok \in BOOLEAN,
             ok <=> h.buf \notin m.pending,
             Settle(i, [handles EXCEPT ![c] =
                          IF ~ok THEN [swapped EXCEPT !.faulted = TRUE] ELSE swapped], m, ok)
      PROVE  Good(handles', ops', Memory')
  <2>1. h.buf \in 1..Len(bytes) /\ h # NoHandle
    <3>1. h.id # 0 BY <1>2, <1>4 DEF SameHandle
    <3> QED BY <1>1, <1>2, <3>1, StateIs, MemoryIs
  <2>2. /\ Good(handles, ops, m) /\ Covered(m, h.buf) /\ Len(m.bytes) = Len(bytes)
    BY <1>1, <2>1, WipeGood, MemoryIs
  <2>3. ASSUME NEW faulted \in BOOLEAN
        PROVE  /\ [swapped EXCEPT !.faulted = faulted] \in Handles(Len(ops), Len(m.bytes))
               /\ [swapped EXCEPT !.faulted = faulted].buf = ops[i].buf
               /\ swapped \in Handles(Len(ops), Len(m.bytes)) /\ swapped.buf = ops[i].buf
               /\ swapped # NoHandle /\ [swapped EXCEPT !.faulted = faulted] # NoHandle
    <3> DEFINE R == [id : 1..Len(ops), buf : 1..Len(m.bytes), version : Nat, faulted : BOOLEAN]
               b == ops[i].buf
    <3>1. h \in R BY <1>2, <2>1, <2>2, StateIs DEF Handles
    <3>2. b \in 1..Len(m.bytes) /\ b # 0 BY <1>2, <2>2
    <3>3. /\ swapped \in R /\ swapped.buf = b
          /\ [swapped EXCEPT !.faulted = faulted] \in R
          /\ [swapped EXCEPT !.faulted = faulted].buf = b
      <4> HIDE DEF h
      <4> QED BY <3>1, <3>2, SwappedIs
    <3> HIDE DEF R, swapped
    <3> QED BY <3>2, <3>3 DEF R, Handles, NoHandle
  <2>4. To(i, IF ok THEN "done" ELSE "failed") BY <1>4 DEF Settle
  <2>5. ASSUME NEW g \in Handles(Len(ops), Len(m.bytes)), g.buf = ops[i].buf
        PROVE  Good([handles EXCEPT ![c] = g], ops', m)
    <3>1. "done" \in Settled /\ "failed" \in Settled BY DEF Settled
    <3>2. CASE ok BY <1>1, <2>2, <2>4, <2>5, <3>1, <3>2, MoveKeeps
    <3>3. CASE ~ok BY <1>1, <2>2, <2>4, <2>5, <3>1, <3>3, MoveKeeps
    <3> QED BY <3>2, <3>3
  <2> DEFINE g == IF ~ok THEN [swapped EXCEPT !.faulted = TRUE] ELSE swapped
             hs == [handles EXCEPT ![c] = g]
  <2>6. Settle(i, hs, m, ok) BY <1>4
  <2>7. g \in Handles(Len(ops), Len(m.bytes)) /\ g.buf = ops[i].buf BY <2>3
  <2> HIDE DEF g
  <2>8. Good(hs, ops', m) BY <2>5, <2>7
  <2>9. CASE ops[i].kind = "rotateOrFault" /\ ~ok
    <3>1. Fault(i, hs, m) BY <2>6, <2>9 DEF Settle
    <3> HIDE DEF hs
    <3> QED BY <1>2, <2>8, <3>1, FaultKeeps
  <2>10. CASE ops[i].kind = "rotateOrFault" /\ ok
    <3>1. handles' = [hs EXCEPT ![c].faulted = FALSE] /\ Become(m)
      BY <2>6, <2>10 DEF Settle
    <3>2. g = swapped BY <2>10 DEF g
    <3>3. handles' = [handles EXCEPT ![c] = [swapped EXCEPT !.faulted = FALSE]]
      BY <1>1, <1>2, <3>1, <3>2, StateIs
    <3>4. Good(handles', ops', m) BY <2>3, <2>5, <3>3
    <3>5. Memory'.bytes = m.bytes /\ Memory'.pending = m.pending BY <3>1 DEF Become, Memory
    <3> QED BY <3>4, <3>5, SameMemory
  <2>11. CASE ops[i].kind # "rotateOrFault"
    <3>1. handles' = hs /\ Become(m) BY <2>6, <2>11 DEF Settle
    <3>2. Memory'.bytes = m.bytes /\ Memory'.pending = m.pending BY <3>1 DEF Become, Memory
    <3> QED BY <2>8, <3>1, <3>2, SameMemory
  <2> QED BY <2>9, <2>10, <2>11
<1>5. CASE /\ SameHandle(i)
           /\ \E m \in Wipe(Memory, {h.buf}) :
                LET failed == h.buf \in m.pending IN
                Settle(i, [handles EXCEPT ![c] =
                             IF failed THEN [swapped EXCEPT !.faulted = TRUE] ELSE swapped],
                       m, ~failed)
  <2>1. PICK m \in Wipe(Memory, {h.buf}) :
          LET failed == h.buf \in m.pending IN
          Settle(i, [handles EXCEPT ![c] =
                       IF failed THEN [swapped EXCEPT !.faulted = TRUE] ELSE swapped],
                 m, ~failed)
    BY <1>5
  <2>2. CASE h.buf \in m.pending
    <3>1. Settle(i, [handles EXCEPT ![c] =
                       IF ~FALSE THEN [swapped EXCEPT !.faulted = TRUE] ELSE swapped], m, FALSE)
      BY <2>1, <2>2
    <3> QED BY <1>4, <1>5, <2>2, <3>1
  <2>3. CASE h.buf \notin m.pending
    <3>1. Settle(i, [handles EXCEPT ![c] =
                       IF ~TRUE THEN [swapped EXCEPT !.faulted = TRUE] ELSE swapped], m, TRUE)
      BY <2>1, <2>3
    <3> QED BY <1>4, <1>5, <2>3, <3>1
  <2> QED BY <2>2, <2>3
<1> QED BY <1>3, <1>5 DEF Quiesced

-----------------------------------------------------------------------------
(* No continuation publishes in a disposed manager. *)
LEMMA StaysDisposed ==
  ASSUME SecretsInv, disposed, NEW i \in DOMAIN ops, Continue(i)
  PROVE  handles' = handles
<1>1. Good(handles, ops, Memory) /\ handles = [c \in Creds |-> NoHandle] BY DEF SecretsInv
<1>2. ops[i].cred \in Creds /\ CallTyped(ops[i], i, Len(Memory.bytes))
  BY <1>1, StateIs DEF Calls
<1>3. handles[ops[i].cred] = NoHandle /\ NoHandle.id = 0 /\ NoHandle.buf = 0
  BY <1>1, <1>2 DEF NoHandle
<1>4. CASE Receive(i) BY <1>4 DEF Receive
<1>5. CASE FinishLoad(i)
  <2>1. ~Publishable BY DEF Publishable
  <2> QED BY <1>5, <2>1 DEF FinishLoad
<1>6. CASE Quiesced(i)
  <2>1. ~SameHandle(i)
    <3>1. ops[i].start # 0 BY <1>2, <1>6 DEF Quiesced, CallTyped
    <3> QED BY <1>3, <3>1 DEF SameHandle
  <2>2. PICK m \in Unswapped(i) : Settle(i, handles, m, FALSE) BY <1>6, <2>1 DEF Quiesced
  <2> QED BY <2>1, <2>2 DEF Settle, Fault
<1>7. CASE ReadFailed(i)
  <2>1. Settle(i, handles, Memory, FALSE) BY <1>7 DEF ReadFailed
  <2> QED BY <1>3, <2>1 DEF Settle, Fault
<1> QED BY <1>4, <1>5, <1>6, <1>7 DEF Continue

LEMMA InitSecrets == Init => SecretsInv
<1> SUFFICES ASSUME Init PROVE SecretsInv OBVIOUS
<1>1. /\ handles = [c \in Creds |-> NoHandle] /\ ops = <<>> /\ bytes = <<>> /\ pending = {}
      /\ disposed = FALSE /\ gen = 1
  BY DEF Init
<1>2. Memory.bytes = <<>> /\ Memory.pending = {} BY <1>1 DEF Memory
<1>3. \A S : <<>> \in Seq(S) /\ Len(<<>>) = 0 BY EmptySeq
<1>4. Typed(handles, ops, Memory) BY <1>1, <1>2, <1>3 DEF Typed, Handles
<1>5. Kept(handles, ops, Memory) BY <1>2 DEF Kept
<1>6. Fresh(handles, ops) /\ SameBuffer(handles, ops) /\ Faulted(handles, ops)
  BY <1>1 DEF Fresh, SameBuffer, Faulted
<1> QED BY <1>1, <1>4, <1>5, <1>6 DEF SecretsInv, Good

LEMMA StepSecrets == SecretsInv /\ [Next]_vars => SecretsInv'
<1> SUFFICES ASSUME SecretsInv, [Next]_vars PROVE SecretsInv' OBVIOUS
<1>1. /\ Good(handles, ops, Memory) /\ gen \in Nat
      /\ disposed => handles = [c \in Creds |-> NoHandle]
  BY DEF SecretsInv
<1>2. ASSUME NEW c \in Creds, Load(c) PROVE SecretsInv'
  <2>1. Good(handles', ops', Memory') BY <1>2, LoadKeeps
  <2>2. handles' = handles /\ disposed' = disposed /\ gen' = gen BY <1>2 DEF Load
  <2> QED BY <1>1, <2>1, <2>2 DEF SecretsInv
<1>3. ASSUME NEW kind \in Rotations, NEW c \in Creds, NEW policy \in Policies \cup {"log"},
             Rotate(kind, c, policy)
      PROVE  SecretsInv'
  <2>1. Good(handles', ops', Memory') BY <1>3, RotateKeeps
  <2>2. handles' = handles /\ disposed' = disposed /\ gen' = gen BY <1>3 DEF Rotate
  <2> QED BY <1>1, <2>1, <2>2 DEF SecretsInv
<1>4. ASSUME NEW c \in Creds, RotateInvalidPolicy(c) PROVE SecretsInv'
  <2>1. Good(handles', ops', Memory') BY <1>4, InvalidPolicyKeeps
  <2>2. ~disposed /\ disposed' = disposed /\ gen' = gen BY <1>4 DEF RotateInvalidPolicy
  <2> QED BY <1>1, <2>1, <2>2 DEF SecretsInv
<1>5. ASSUME NEW c \in Creds, UseActiveCopyStays(c) PROVE SecretsInv'
  <2>1. Good(handles', ops', Memory') BY <1>5, CopyKeeps
  <2>2. handles' = handles /\ disposed' = disposed /\ gen' = gen BY <1>5 DEF UseActiveCopyStays
  <2> QED BY <1>1, <2>1, <2>2 DEF SecretsInv
<1>6. CASE Dispose
  <2>1. Good(handles', ops', Memory') BY <1>6, DisposeKeeps
  <2>2. handles' = [c \in Creds |-> NoHandle] /\ gen' = gen BY <1>6 DEF Dispose
  <2> QED BY <1>1, <2>1, <2>2 DEF SecretsInv
<1>7. CASE VaultRotates
  <2>1. handles' = handles /\ ops' = ops /\ disposed' = disposed /\ gen' = gen + 1
    BY <1>7 DEF VaultRotates
  <2>2. Memory'.bytes = Memory.bytes /\ Memory'.pending = Memory.pending
    BY <1>7 DEF VaultRotates, Memory
  <2>3. Good(handles', ops', Memory') BY <1>1, <2>1, <2>2, SameMemory
  <2> QED BY <1>1, <2>1, <2>3 DEF SecretsInv
<1>8. ASSUME NEW i \in DOMAIN ops, Answer(i) PROVE SecretsInv'
  <2>1. Good(handles', ops', Memory') BY <1>8, AnswerKeeps
  <2>2. handles' = handles /\ disposed' = disposed /\ gen' = gen BY <1>8 DEF Answer
  <2> QED BY <1>1, <2>1, <2>2 DEF SecretsInv
<1>9. ASSUME NEW i \in DOMAIN ops, Continue(i) PROVE SecretsInv'
  <2>1. Good(handles', ops', Memory')
    BY <1>9, ReceiveKeeps, FinishLoadKeeps, QuiescedKeeps, ReadFailedKeeps DEF Continue
  <2>2. disposed' = disposed /\ gen' = gen
    BY <1>9 DEF Continue, Receive, FinishLoad, Quiesced, ReadFailed
  <2>3. disposed => handles' = handles BY <1>9, StaysDisposed
  <2> QED BY <1>1, <2>1, <2>2, <2>3 DEF SecretsInv
<1>10. CASE UNCHANGED vars
  <2>1. /\ handles' = handles /\ ops' = ops /\ disposed' = disposed /\ gen' = gen
        /\ bytes' = bytes /\ pending' = pending
    BY <1>10 DEF vars
  <2>2. Memory'.bytes = Memory.bytes /\ Memory'.pending = Memory.pending BY <2>1 DEF Memory
  <2>3. Good(handles', ops', Memory') BY <1>1, <2>1, <2>2, SameMemory
  <2> QED BY <1>1, <2>1, <2>3 DEF SecretsInv
<1>11. "rotate" \in Rotations /\ "rotateOrFault" \in Rotations BY DEF Rotations
<1> QED BY <1>2, <1>3, <1>4, <1>5, <1>6, <1>7, <1>8, <1>9, <1>10, <1>11 DEF Next, Call

(* Handles, calls and buffers agree: every buffer that is not zero has an
   owner, and a candidate belongs to one call. *)
THEOREM SecretsInvariance == Spec => []SecretsInv
BY InitSecrets, StepSecrets, PTL DEF Spec

(* No secret is lost sight of, whatever is refused, replaced, evicted or
   disposed while calls are in progress. *)
THEOREM EveryBufferIsOwned == Spec => []NoOrphan
<1>1. SecretsInv => NoOrphan
  <2> SUFFICES ASSUME SecretsInv, NEW b \in DOMAIN bytes, bytes[b] # 0
               PROVE  \/ b \in pending
                      \/ \E c \in Creds : handles[c].buf = b
                      \/ \E i \in DOMAIN ops : ops[i].stage = "owned" /\ ops[i].buf = b
    BY DEF NoOrphan
  <2>1. Good(handles, ops, Memory) BY DEF SecretsInv
  <2>2. b # 0 BY <2>1, StateIs, MemoryIs
  <2>3. ~Covered(Memory, b) \/ b \in pending BY <2>2, MemoryIs DEF Covered
  <2> QED BY <2>1, <2>3, MemoryIs DEF Good, Kept
<1> QED BY <1>1, SecretsInvariance, PTL

(* A disposed manager holds no handle, and no call in progress gives it one. *)
THEOREM DisposedIsEmpty == Spec => []DisposedHoldsNothing
<1>1. SecretsInv => DisposedHoldsNothing
  <2> SUFFICES ASSUME SecretsInv, disposed, NEW b \in DOMAIN bytes, bytes[b] # 0
               PROVE  \/ b \in pending
                      \/ \E i \in DOMAIN ops : ops[i].stage = "owned" /\ ops[i].buf = b
    BY DEF DisposedHoldsNothing
  <2>1. Good(handles, ops, Memory) /\ handles = [c \in Creds |-> NoHandle] BY DEF SecretsInv
  <2>2. b # 0 BY <2>1, StateIs, MemoryIs
  <2>3. ~Covered(Memory, b) \/ b \in pending BY <2>2, MemoryIs DEF Covered
  <2>4. \A c \in Creds : handles[c].buf # b BY <2>1, <2>2 DEF NoHandle
  <2> QED BY <2>1, <2>3, <2>4, MemoryIs DEF Good, Kept
<1> QED BY <1>1, SecretsInvariance, PTL

(* The value a rotation was to replace is never served again once it failed
   under halt or quarantine. *)
THEOREM FailedValueStaysDown == Spec => []StaleNeverServed
<1>1. SecretsInv => StaleNeverServed
  <2> SUFFICES ASSUME SecretsInv, NEW i \in With({"rotateOrFault"}, {"failed"}), NEW c \in Creds,
                      ops[i].policy # "log", ops[i].cred = c, ops[i].startBuf # 0, Servable(c),
                      handles[c].buf = ops[i].startBuf
               PROVE  FALSE
    BY DEF StaleNeverServed
  <2>1. i \in DOMAIN ops /\ Condemned(ops[i]) BY DEF With, Condemned
  <2>2. handles[c].faulted BY <2>1 DEF SecretsInv, Good, Faulted
  <2> QED BY <2>2 DEF Servable
<1> QED BY <1>1, SecretsInvariance, PTL

-----------------------------------------------------------------------------
LEMMA ToIs ==
  ASSUME SecretsInv, NEW i \in DOMAIN ops, NEW j \in DOMAIN ops, NEW s, To(j, s)
  PROVE  ops'[i] = ops[i] \/ (i = j /\ ops'[i].stage = s)
<1>1. ops \in Seq(Calls) /\ ops[j] \in Calls BY StateIs DEF SecretsInv, Good
<1>2. ops' = [ops EXCEPT ![j].stage = s] BY DEF To
<1>3. CASE i # j BY <1>2, <1>3
<1>4. CASE i = j BY <1>1, <1>2, <1>4 DEF Calls
<1> QED BY <1>3, <1>4

(* A rotateOrFault in progress fails only in its own continuation. *)
LEMMA FailsBySettling ==
  ASSUME SecretsInv, [Next]_vars, NEW i \in DOMAIN ops, ops[i].stage \notin Settled,
         ops'[i].stage = "failed", ops[i].kind = "rotateOrFault"
  PROVE  Quiesced(i) \/ ReadFailed(i)
<1>1. ops \in Seq(Calls) /\ ops[i].stage # "failed" /\ ops'[i] # ops[i]
  <2>1. ops \in Seq(Calls) BY StateIs DEF SecretsInv
  <2>2. ops[i].stage # "failed" BY DEF Settled
  <2> QED BY <2>1, <2>2
<1>2. ASSUME NEW x PROVE ops' # ops /\ ops' # Append(ops, x)
  BY <1>1
<1>3. ASSUME Call \/ VaultRotates \/ UNCHANGED vars PROVE FALSE
  <2>1. ASSUME NEW c, Load(c) PROVE FALSE BY <1>2, <2>1 DEF Load
  <2>2. ASSUME NEW kind, NEW c, NEW policy, Rotate(kind, c, policy) PROVE FALSE
    BY <1>2, <2>2 DEF Rotate
  <2>3. ASSUME NEW c, RotateInvalidPolicy(c) \/ UseActiveCopyStays(c) PROVE FALSE
    BY <1>2, <2>3 DEF RotateInvalidPolicy, UseActiveCopyStays
  <2>4. ASSUME Dispose \/ VaultRotates \/ UNCHANGED vars PROVE FALSE
    BY <1>2, <2>4 DEF Dispose, VaultRotates, vars
  <2> QED BY <1>3, <2>1, <2>2, <2>3, <2>4 DEF Call
<1>4. ASSUME NEW j \in DOMAIN ops, Answer(j) PROVE FALSE
  <2>1. CASE ops' = [ops EXCEPT ![j].stage = "answered", ![j].value = gen]
    <3>1. i = j BY <1>1, <2>1
    <3>2. ops[i] \in Calls BY <1>1, ElementOfSeq, LenProperties
    <3>3. ops'[i].stage = "answered" BY <2>1, <3>1, <3>2 DEF Calls
    <3> QED BY <3>3
  <2>2. CASE To(j, "rejected") BY <1>1, <2>2, ToIs
  <2> QED BY <1>4, <2>1, <2>2 DEF Answer, To
<1>5. ASSUME NEW j \in DOMAIN ops, Receive(j) PROVE FALSE
  <2>1. CASE To(j, "broken") BY <1>1, <2>1, ToIs
  <2>2. CASE Own(j)
    <3>1. ops' = [ops EXCEPT ![j].stage = "owned", ![j].buf = Len(bytes')] BY <2>2 DEF Own
    <3>2. i = j BY <1>1, <3>1
    <3>3. ops[i] \in Calls BY <1>1, ElementOfSeq, LenProperties
    <3>4. ops'[i].stage = "owned" BY <3>1, <3>2, <3>3 DEF Calls
    <3> QED BY <3>4
  <2> QED BY <1>5, <2>1, <2>2 DEF Receive, OwnFails, Refuse
<1>6. ASSUME NEW j \in DOMAIN ops, FinishLoad(j) PROVE FALSE
  <2>1. To(j, "failed") \/ To(j, "done") BY <1>6 DEF FinishLoad
  <2>2. i = j BY <1>1, <2>1, ToIs
  <2> QED BY <1>6, <2>2 DEF FinishLoad
<1>7. ASSUME NEW j \in DOMAIN ops, Quiesced(j) \/ ReadFailed(j) PROVE j = i
  <2>1. To(j, "failed") \/ To(j, "done") BY <1>7 DEF Quiesced, ReadFailed, Settle
  <2> QED BY <1>1, <2>1, ToIs
<1> QED BY <1>3, <1>4, <1>5, <1>6, <1>7 DEF Next, Continue

(* The policy of a failed rotation leaves a handle published after it began,
   and the value of that handle, as they are. *)
THEOREM PolicyStaysWithItsHandle == Spec => PolicyKeepsToItsHandle
<1>1. ASSUME SecretsInv, [Next]_vars, NEW i \in DOMAIN ops,
             ops[i].stage \notin Settled, ops'[i].stage = "failed",
             ops[i].kind = "rotateOrFault", handles[ops[i].cred].id > i
      PROVE  /\ handles'[ops[i].cred] = handles[ops[i].cred]
             /\ bytes'[handles[ops[i].cred].buf] = bytes[handles[ops[i].cred].buf]
  <2>1. /\ Good(handles, ops, Memory) /\ ops[i].cred \in Creds
        /\ CallTyped(ops[i], i, Len(Memory.bytes)) /\ DOMAIN ops = 1..Len(ops)
    <3>1. Good(handles, ops, Memory) BY <1>1 DEF SecretsInv
    <3>2. ops[i] \in Calls /\ CallTyped(ops[i], i, Len(Memory.bytes)) /\ DOMAIN ops = 1..Len(ops)
      BY <3>1, StateIs
    <3> QED BY <3>1, <3>2 DEF Calls
  <2>2. ~SameHandle(i)
    <3>1. ops[i].start < i /\ ops[i].start \in Nat BY <2>1, StateIs DEF CallTyped, Calls
    <3> QED BY <1>1, <2>1, <3>1 DEF SameHandle
  <2>3. CASE Quiesced(i)
    <3>1. PICK m \in Wipe(Memory, {ops[i].buf}) : Settle(i, handles, m, FALSE)
      BY <2>2, <2>3 DEF Quiesced, Unswapped
    <3>2. handles' = handles /\ bytes' = m.bytes
      BY <2>2, <3>1, <1>1 DEF Settle, Fault, Become
    <3> DEFINE b == handles[ops[i].cred].buf
    <3>3. b # ops[i].buf BY <2>1, <2>3 DEF Quiesced, Good, Fresh
    <3>4. b \in DOMAIN bytes
      <4>1. b # 0 /\ b \in 0..Len(Memory.bytes)
        BY <1>1, <2>1, StateIs
      <4> QED BY <2>1, <4>1, StateIs, MemoryIs
    <3>5. m.bytes[b] = bytes[b]
      <4>1. Memory.bytes \in Seq(Nat) BY <2>1, StateIs
      <4>2. \A a \in DOMAIN Memory.bytes : a \notin {ops[i].buf} => m.bytes[a] = Memory.bytes[a]
        BY <3>1, <4>1, WipeIs
      <4> QED BY <3>3, <3>4, <4>2, MemoryIs
    <3> QED BY <3>2, <3>5
  <2>4. CASE ReadFailed(i)
    <3>1. Settle(i, handles, Memory, FALSE) BY <2>4 DEF ReadFailed
    <3> QED BY <1>1, <2>2, <3>1, MemoryIs DEF Settle, Fault, Become
  <2> QED BY <1>1, <2>3, <2>4, FailsBySettling
<1>2. SecretsInv /\ [Next]_vars =>
        [\A i \in DOMAIN ops :
           LET c == ops[i].cred IN
           /\ ops[i].stage \notin Settled /\ ops'[i].stage = "failed"
           /\ ops[i].kind = "rotateOrFault" /\ handles[c].id > i
           => handles'[c] = handles[c] /\ bytes'[handles[c].buf] = bytes[handles[c].buf]]_vars
  BY <1>1
<1> QED BY <1>2, SecretsInvariance, PTL DEF Spec, PolicyKeepsToItsHandle
=============================================================================
