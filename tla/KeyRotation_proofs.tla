------------------------ MODULE KeyRotation_proofs ------------------------
(***************************************************************************)
(* Safety of the key-rotation machine for every set of candidates, ticks   *)
(* and ballots.                                                            *)
(***************************************************************************)
EXTENDS KeyRotation, TLAPS

(* A ring as the type invariant knows it. *)
RingType(r) == r \in Seq(Epoch)

(* The fields of the epochs of a ring. *)
LEMMA EpochFields ==
  ASSUME NEW r, RingType(r), NEW i \in 1..Len(r)
  PROVE  /\ r[i] \in Epoch
         /\ r[i].key \in Candidates
         /\ r[i].created \in Ticks
         /\ r[i].created \in Nat
         /\ r[i].retired \in Ticks \cup {NoTick}
         /\ r[i].retired # NoTick => r[i].retired \in Nat
         /\ r[i].status \in Status
<1>1. r[i] \in Epoch
  BY DEF RingType
<1>2. /\ r[i].key \in Candidates
      /\ r[i].created \in Ticks
      /\ r[i].retired \in Ticks \cup {NoTick}
      /\ r[i].status \in Status
  BY <1>1 DEF Epoch
<1>3. Ticks \subseteq Nat
  BY TicksAssumption
<1> QED
  BY <1>1, <1>2, <1>3

(* A conjunction authorizes only if every clause does. *)
LEMMA AllOfAllow ==
  ASSUME NEW S, AllOf(S) = ALLOW \/ Authorized(AllOf(S)), NEW v \in S
  PROVE  v \in {DENY, NEUTRAL, UNKNOWN} => FALSE
BY DEF AllOf, Authorized, ALLOW, DENY, NEUTRAL, UNKNOWN

(* The two ring gates always answer with a verdict. *)
LEMMA GateVerdicts ==
  ASSUME NEW r, NEW cand, NEW roundTrip, NEW t, NEW clauses
  PROVE  /\ LockAVerdict(r, cand, roundTrip) \in {DENY, NEUTRAL, UNKNOWN, ALLOW}
         /\ LockBVerdict(r, t, clauses) \in {DENY, NEUTRAL, UNKNOWN, ALLOW}
<1>1. ASSUME NEW S PROVE AllOf(S) \in {DENY, NEUTRAL, UNKNOWN, ALLOW}
  BY DEF AllOf
<1> QED
  BY <1>1 DEF LockAVerdict, LockBVerdict

(* What RingVerifies says of statuses: one signer, known by ActiveEpoch, and
   at most one candidate. *)
LEMMA ActiveEpochUnique ==
  ASSUME NEW r, RingVerifies(r)
  PROVE  /\ ActiveEpoch(r) \in 1..Len(r)
         /\ r[ActiveEpoch(r)].status = "active"
         /\ \A i \in 1..Len(r) : r[i].status = "active" => i = ActiveEpoch(r)
<1>1. PICK a \in 1..Len(r) : WithStatus(r, "active") = {a}
  BY DEF RingVerifies, OneActive
<1>2. \A i \in 1..Len(r) : r[i].status = "active" <=> i = a
  BY <1>1 DEF WithStatus
<1>3. ActiveEpoch(r) \in 1..Len(r) /\ r[ActiveEpoch(r)].status = "active"
  BY <1>2 DEF ActiveEpoch
<1> QED
  BY <1>2, <1>3

(* Conversely, the epoch that alone is active is the one ActiveEpoch picks. *)
LEMMA ActiveEpochIs ==
  ASSUME NEW r, NEW a \in 1..Len(r), r[a].status = "active",
         \A i \in 1..Len(r) : r[i].status = "active" => i = a
  PROVE  OneActive(r) /\ ActiveEpoch(r) = a
<1>1. WithStatus(r, "active") = {a}
  BY DEF WithStatus
<1>2. OneActive(r)
  BY <1>1 DEF OneActive
<1>3. ActiveEpoch(r) = a
  BY DEF ActiveEpoch
<1> QED
  BY <1>2, <1>3

(* Staging appends one staged epoch and leaves the signer alone. *)
LEMMA StageEpochVerifies ==
  ASSUME NEW r, RingType(r), NEW key \in Candidates, NEW tick \in Ticks,
         CanStageEpoch(r, key, tick)
  PROVE  LET s == StageEpoch(r, key, tick) IN
         /\ RingType(s)
         /\ Len(s) = Len(r) + 1
         /\ \A i \in 1..Len(r) : s[i] = r[i]
         /\ RingVerifies(s)
         /\ ActiveEpoch(s) = ActiveEpoch(r)
         /\ WithStatus(s, "staged") = {Len(s)}
<1> DEFINE s == StageEpoch(r, key, tick)
           e == NewEpoch(key, tick, "staged")
<1>0. r \in Seq(Epoch) /\ Len(r) \in Nat /\ RingVerifies(r)
  BY DEF RingType, CanStageEpoch
<1>1. e \in Epoch /\ e.key = key /\ e.created = tick /\ e.retired = NoTick
      /\ e.status = "staged"
  BY DEF NewEpoch, Epoch, Status
<1>2. s \in Seq(Epoch) /\ Len(s) = Len(r) + 1 /\ s[Len(r) + 1] = e
      /\ \A i \in 1..Len(r) : s[i] = r[i]
  BY <1>0, <1>1 DEF StageEpoch
<1>3. ActiveEpoch(r) \in 1..Len(r) /\ r[ActiveEpoch(r)].status = "active"
      /\ \A i \in 1..Len(r) : r[i].status = "active" => i = ActiveEpoch(r)
  BY <1>0, ActiveEpochUnique
<1>4. \A i \in 1..Len(s) : i \in 1..Len(r) \/ i = Len(r) + 1
  BY <1>0, <1>2
<1>5. OneActive(s) /\ ActiveEpoch(s) = ActiveEpoch(r)
  <2>1. ActiveEpoch(r) \in 1..Len(s) /\ s[ActiveEpoch(r)].status = "active"
    BY <1>0, <1>2, <1>3
  <2>2. \A i \in 1..Len(s) : s[i].status = "active" => i = ActiveEpoch(r)
    BY <1>1, <1>2, <1>3, <1>4
  <2> QED
    BY <2>1, <2>2, ActiveEpochIs
<1>6. WithStatus(s, "staged") = {Len(r) + 1}
  <2>1. \A i \in 1..Len(r) : r[i].status # "staged"
    BY DEF CanStageEpoch, WithStatus
  <2> QED
    BY <2>1, <1>0, <1>1, <1>2, <1>4 DEF WithStatus
<1>7. AtMostOneStaged(s)
  BY <1>6 DEF AtMostOneStaged, WithStatus
<1>8. TicksConsistent(s)
  BY <1>0, <1>1, <1>2, <1>4 DEF TicksConsistent, RingVerifies
<1>9. EpochsDistinct(s)
  <2> SUFFICES ASSUME NEW i \in 1..Len(s), NEW j \in 1..Len(s), i < j
               PROVE  s[i].created < s[j].created /\ ~Clash(s[i].key, s[j].key)
    BY DEF EpochsDistinct
  <2>1. i \in 1..Len(r)
    BY <1>0, <1>2
  <2>2. CASE j \in 1..Len(r)
    BY <2>1, <2>2, <1>0, <1>2 DEF EpochsDistinct, RingVerifies
  <2>3. CASE j = Len(r) + 1
    <3>1. Len(r) \in 1..Len(r)
      BY <2>1, <1>0
    <3>2. r[i].created \in Nat /\ r[Len(r)].created \in Nat /\ tick \in Nat
      BY <2>1, <3>1, EpochFields, TicksAssumption
    <3>5. r[i].created <= r[Len(r)].created
      <4>1. CASE i = Len(r)
        BY <4>1, <3>2
      <4>2. CASE i < Len(r)
        BY <4>2, <3>1, <3>2, <2>1, <1>0 DEF EpochsDistinct, RingVerifies
      <4> QED
        BY <4>1, <4>2, <2>1, <1>0
    <3>3. r[i].created < tick
      BY <3>5, <3>2 DEF CanStageEpoch
    <3>4. ~Clash(r[i].key, key)
      BY <2>1 DEF CanStageEpoch
    <3> QED
      BY <3>3, <3>4, <2>1, <2>3, <1>1, <1>2
  <2> QED
    BY <2>2, <2>3, <1>4
<1>10. s # <<>>
  BY <1>0, <1>2
<1> QED
  BY <1>2, <1>5, <1>6, <1>7, <1>8, <1>9, <1>10 DEF RingVerifies, RingType

(* The switch turns the candidate into the signer and the signer into the
   retired epoch that keeps verifying. *)
LEMMA SwitchActiveVerifies ==
  ASSUME NEW r, RingType(r), NEW tick \in Ticks, CanSwitchActive(r, tick),
         NEW c, WithStatus(r, "staged") = {c}
  PROVE  LET s == SwitchActive(r, tick)
             a == ActiveEpoch(r)
         IN  /\ RingType(s)
             /\ Len(s) = Len(r)
             /\ \A i \in 1..Len(r) : /\ s[i].key = r[i].key
                                     /\ s[i].created = r[i].created
                                     /\ i \notin {a, c} => s[i] = r[i]
             /\ s[a].status = "retired"
             /\ RingVerifies(s)
             /\ ActiveEpoch(s) = c
             /\ WithStatus(s, "staged") = {}
<1> DEFINE s == SwitchActive(r, tick)
           a == ActiveEpoch(r)
<1>0. RingVerifies(r) /\ Len(r) \in Nat /\ tick \in Nat
  BY TicksAssumption DEF RingType, CanSwitchActive
<1>1. /\ a \in 1..Len(r) /\ r[a].status = "active"
      /\ \A i \in 1..Len(r) : r[i].status = "active" => i = a
  BY <1>0, ActiveEpochUnique
<1>2. /\ c \in 1..Len(r) /\ r[c].status = "staged"
      /\ \A i \in 1..Len(r) : r[i].status = "staged" => i = c
  BY DEF WithStatus
<1>3. a # c
  BY <1>1, <1>2
<1>4. /\ DOMAIN s = 1..Len(r)
      /\ s[a] = [r[a] EXCEPT !.status = "retired", !.retired = tick]
      /\ s[c] = [r[c] EXCEPT !.status = "active"]
      /\ \A i \in 1..Len(r) : i \notin {a, c} => s[i] = r[i]
  BY <1>1, <1>2 DEF SwitchActive
<1>5. \A i \in 1..Len(r) : r[i] \in Epoch
  BY EpochFields
<1>6. /\ s[a] \in Epoch /\ s[a].key = r[a].key /\ s[a].created = r[a].created
      /\ s[a].status = "retired" /\ s[a].retired = tick
  BY <1>1, <1>4, <1>5 DEF Epoch, Status
<1>7. /\ s[c] \in Epoch /\ s[c].key = r[c].key /\ s[c].created = r[c].created
      /\ s[c].status = "active" /\ s[c].retired = r[c].retired
  BY <1>2, <1>4, <1>5 DEF Epoch, Status
<1>8. \A i \in 1..Len(r) : s[i] \in Epoch /\ s[i].key = r[i].key
                            /\ s[i].created = r[i].created
  BY <1>4, <1>5, <1>6, <1>7
<1>9. s \in Seq(Epoch) /\ Len(s) = Len(r)
  <2>1. s = [i \in 1..Len(r) |-> s[i]]
    BY <1>4 DEF SwitchActive
  <2> QED
    BY <2>1, <1>0, <1>4, <1>8
<1>10. OneActive(s) /\ ActiveEpoch(s) = c
  <2>1. \A i \in 1..Len(s) : s[i].status = "active" => i = c
    BY <1>1, <1>4, <1>6, <1>9
  <2> QED
    BY <2>1, <1>2, <1>7, <1>9, ActiveEpochIs
<1>11. WithStatus(s, "staged") = {}
  <2>1. ASSUME NEW i \in 1..Len(r) PROVE s[i].status # "staged"
    <3>1. CASE i = a
      BY <3>1, <1>6
    <3>2. CASE i = c
      BY <3>2, <1>7
    <3>3. CASE i \notin {a, c}
      BY <3>3, <1>2, <1>4
    <3> QED
      BY <3>1, <3>2, <3>3
  <2> QED
    BY <2>1, <1>9 DEF WithStatus
<1>12. AtMostOneStaged(s)
  BY <1>11 DEF AtMostOneStaged, WithStatus
<1>13. EpochsDistinct(s)
  BY <1>0, <1>8, <1>9 DEF EpochsDistinct, RingVerifies
<1>14. TicksConsistent(s)
  <2> SUFFICES ASSUME NEW i \in 1..Len(r)
               PROVE  IF s[i].status \in {"retired", "revoked"}
                      THEN s[i].retired # NoTick /\ s[i].retired >= s[i].created
                      ELSE s[i].retired = NoTick
    BY <1>9 DEF TicksConsistent
  <2>1. CASE i = a
    BY <2>1, <1>1, <1>6, TicksAssumption DEF CanSwitchActive, WithStatus
  <2>2. CASE i = c
    <3>1. r[c].retired = NoTick
      BY <1>0, <1>2 DEF RingVerifies, TicksConsistent
    <3> QED
      BY <3>1, <2>2, <1>7
  <2>3. CASE i \notin {a, c}
    BY <2>3, <1>0, <1>4 DEF RingVerifies, TicksConsistent
  <2> QED
    BY <2>1, <2>2, <2>3
<1>15. s # <<>>
  BY <1>0, <1>2, <1>9
<1> QED
  BY <1>4, <1>6, <1>8, <1>9, <1>10, <1>11, <1>12, <1>13, <1>14, <1>15
     DEF RingVerifies, RingType

(* The fallback revokes the signer and gives signing back to its retired
   predecessor. *)
LEMMA FallbackSwitchVerifies ==
  ASSUME NEW r, RingType(r), NEW tick \in Ticks, CanFallbackSwitch(r, tick),
         WithStatus(r, "staged") = {}
  PROVE  LET s == FallbackSwitch(r, tick)
             a == ActiveEpoch(r)
         IN  /\ RingType(s)
             /\ Len(s) = Len(r)
             /\ \A i \in 1..Len(r) : /\ s[i].key = r[i].key
                                     /\ s[i].created = r[i].created
                                     /\ i \notin {a - 1, a} => s[i] = r[i]
             /\ s[a].status = "revoked"
             /\ RingVerifies(s)
             /\ ActiveEpoch(s) = a - 1
             /\ WithStatus(s, "staged") = {}
<1> DEFINE s == FallbackSwitch(r, tick)
           a == ActiveEpoch(r)
<1>0. RingVerifies(r) /\ Len(r) \in Nat /\ tick \in Nat
  BY TicksAssumption DEF RingType, CanFallbackSwitch
<1>1. /\ a \in 1..Len(r) /\ r[a].status = "active"
      /\ \A i \in 1..Len(r) : r[i].status = "active" => i = a
  BY <1>0, ActiveEpochUnique
<1>2. a - 1 \in 1..Len(r) /\ r[a - 1].status = "retired" /\ a - 1 # a
  BY <1>1 DEF CanFallbackSwitch, WithStatus
<1>3. \A i \in 1..Len(r) : r[i] \in Epoch
  BY EpochFields
<1>4. /\ DOMAIN s = DOMAIN r /\ DOMAIN r = 1..Len(r)
      /\ s[a] = [r[a] EXCEPT !.status = "revoked", !.retired = tick]
      /\ s[a - 1] = [r[a - 1] EXCEPT !.status = "active", !.retired = NoTick]
      /\ \A i \in 1..Len(r) : i \notin {a - 1, a} => s[i] = r[i]
  <2>1. r = [i \in 1..Len(r) |-> r[i]] /\ DOMAIN r = 1..Len(r)
    BY DEF RingType
  <2> QED
    BY <2>1, <1>1, <1>2 DEF FallbackSwitch
<1>5. /\ s[a] \in Epoch /\ s[a].key = r[a].key /\ s[a].created = r[a].created
      /\ s[a].status = "revoked" /\ s[a].retired = tick
  BY <1>1, <1>3, <1>4 DEF Epoch, Status
<1>6. /\ s[a - 1] \in Epoch /\ s[a - 1].key = r[a - 1].key
      /\ s[a - 1].created = r[a - 1].created
      /\ s[a - 1].status = "active" /\ s[a - 1].retired = NoTick
  BY <1>2, <1>3, <1>4 DEF Epoch, Status
<1>7. \A i \in 1..Len(r) : s[i] \in Epoch /\ s[i].key = r[i].key
                            /\ s[i].created = r[i].created
  BY <1>3, <1>4, <1>5, <1>6
<1>8. s \in Seq(Epoch) /\ Len(s) = Len(r)
  <2>1. s = [i \in 1..Len(r) |-> s[i]]
    BY <1>4 DEF FallbackSwitch
  <2> QED
    BY <2>1, <1>0, <1>4, <1>7
<1>9. OneActive(s) /\ ActiveEpoch(s) = a - 1
  <2>1. \A i \in 1..Len(s) : s[i].status = "active" => i = a - 1
    BY <1>1, <1>4, <1>5, <1>8
  <2> QED
    BY <2>1, <1>2, <1>6, <1>8, ActiveEpochIs
<1>10. WithStatus(s, "staged") = {}
  <2>1. \A i \in 1..Len(r) : r[i].status # "staged"
    BY DEF WithStatus
  <2> QED
    BY <2>1, <1>4, <1>5, <1>6, <1>8 DEF WithStatus
<1>11. AtMostOneStaged(s)
  BY <1>10 DEF AtMostOneStaged, WithStatus
<1>12. EpochsDistinct(s)
  BY <1>0, <1>7, <1>8 DEF EpochsDistinct, RingVerifies
<1>13. TicksConsistent(s)
  <2> SUFFICES ASSUME NEW i \in 1..Len(r)
               PROVE  IF s[i].status \in {"retired", "revoked"}
                      THEN s[i].retired # NoTick /\ s[i].retired >= s[i].created
                      ELSE s[i].retired = NoTick
    BY <1>8 DEF TicksConsistent
  <2>1. CASE i = a
    BY <2>1, <1>5, TicksAssumption DEF CanFallbackSwitch
  <2>2. CASE i = a - 1
    BY <2>2, <1>6
  <2>3. CASE i \notin {a - 1, a}
    BY <2>3, <1>0, <1>4 DEF RingVerifies, TicksConsistent
  <2> QED
    BY <2>1, <2>2, <2>3
<1>14. s # <<>>
  BY <1>0, <1>1, <1>8
<1> QED
  BY <1>4, <1>5, <1>7, <1>8, <1>9, <1>10, <1>11, <1>12, <1>13, <1>14
     DEF RingVerifies, RingType

(* Archiving revokes one retired epoch and touches nothing else. *)
LEMMA MarkRevokedVerifies ==
  ASSUME NEW r, RingType(r), NEW tick \in Ticks, NEW e,
         CanMarkRevoked(r, e, tick)
  PROVE  LET s == MarkRevoked(r, e)
         IN  /\ RingType(s)
             /\ Len(s) = Len(r)
             /\ e \in 1..Len(r) /\ r[e].status = "retired"
             /\ \A i \in 1..Len(r) : /\ s[i].key = r[i].key
                                     /\ s[i].created = r[i].created
                                     /\ i # e => s[i] = r[i]
             /\ s[e].status = "revoked"
             /\ RingVerifies(s)
             /\ ActiveEpoch(s) = ActiveEpoch(r)
             /\ WithStatus(s, "staged") = WithStatus(r, "staged")
<1> DEFINE s == MarkRevoked(r, e)
<1>0. RingVerifies(r) /\ Len(r) \in Nat
  BY DEF RingType, CanMarkRevoked
<1>1. e \in 1..Len(r) /\ r[e].status = "retired"
  BY DEF CanMarkRevoked, WithStatus
<1>2. \A i \in 1..Len(r) : r[i] \in Epoch
  BY EpochFields
<1>3. /\ DOMAIN s = 1..Len(r)
      /\ s[e] = [r[e] EXCEPT !.status = "revoked"]
      /\ \A i \in 1..Len(r) : i # e => s[i] = r[i]
  <2>1. r = [i \in 1..Len(r) |-> r[i]] /\ DOMAIN r = 1..Len(r)
    BY DEF RingType
  <2> QED
    BY <2>1, <1>1 DEF MarkRevoked
<1>4. /\ s[e] \in Epoch /\ s[e].key = r[e].key /\ s[e].created = r[e].created
      /\ s[e].status = "revoked" /\ s[e].retired = r[e].retired
  BY <1>1, <1>2, <1>3 DEF Epoch, Status
<1>5. \A i \in 1..Len(r) : s[i] \in Epoch /\ s[i].key = r[i].key
                            /\ s[i].created = r[i].created
  BY <1>2, <1>3, <1>4
<1>6. s \in Seq(Epoch) /\ Len(s) = Len(r)
  <2>1. s = [i \in 1..Len(r) |-> s[i]]
    BY <1>3 DEF MarkRevoked
  <2> QED
    BY <2>1, <1>0, <1>3, <1>5
<1>7. /\ ActiveEpoch(r) \in 1..Len(r) /\ r[ActiveEpoch(r)].status = "active"
      /\ \A i \in 1..Len(r) : r[i].status = "active" => i = ActiveEpoch(r)
  BY <1>0, ActiveEpochUnique
<1>8. OneActive(s) /\ ActiveEpoch(s) = ActiveEpoch(r)
  <2>1. \A i \in 1..Len(s) : s[i].status = "active" => i = ActiveEpoch(r)
    BY <1>3, <1>4, <1>6, <1>7
  <2>2. ActiveEpoch(r) \in 1..Len(s) /\ s[ActiveEpoch(r)].status = "active"
    BY <1>1, <1>3, <1>6, <1>7
  <2> QED
    BY <2>1, <2>2, ActiveEpochIs
<1>9. WithStatus(s, "staged") = WithStatus(r, "staged")
  BY <1>1, <1>3, <1>4, <1>6 DEF WithStatus
<1>10. AtMostOneStaged(s)
  <2>1. \A i \in 1..Len(r) : s[i].status = "staged" => r[i].status = "staged"
    BY <1>3, <1>4
  <2> QED
    BY <2>1, <1>0, <1>6 DEF AtMostOneStaged, RingVerifies
<1>11. EpochsDistinct(s)
  BY <1>0, <1>5, <1>6 DEF EpochsDistinct, RingVerifies
<1>12. TicksConsistent(s)
  <2> SUFFICES ASSUME NEW i \in 1..Len(r)
               PROVE  IF s[i].status \in {"retired", "revoked"}
                      THEN s[i].retired # NoTick /\ s[i].retired >= s[i].created
                      ELSE s[i].retired = NoTick
    BY <1>6 DEF TicksConsistent
  <2>1. IF r[i].status \in {"retired", "revoked"}
        THEN r[i].retired # NoTick /\ r[i].retired >= r[i].created
        ELSE r[i].retired = NoTick
    BY <1>0 DEF RingVerifies, TicksConsistent
  <2>2. CASE i = e
    BY <2>1, <2>2, <1>1, <1>4
  <2>3. CASE i # e
    BY <2>1, <2>3, <1>3
  <2> QED
    BY <2>2, <2>3
<1>13. s # <<>>
  BY <1>0, <1>1, <1>6
<1> QED
  BY <1>1, <1>3, <1>4, <1>5, <1>6, <1>8, <1>9, <1>10, <1>11, <1>12, <1>13
     DEF RingVerifies, RingType

-----------------------------------------------------------------------------
(* The inductive invariant.  RingVerifies alone is not inductive in the      *)
(* phases: that a switch finds a candidate to activate, and a fallback a     *)
(* retired predecessor, rests on the agreement of phase and ring.            *)

IInv == TypeOK /\ RingAlwaysVerifies /\ PhaseMatchesRing /\ OldEpochRetained

LEMMA InitEstablishes == Init => IInv
<1> SUFFICES ASSUME Init PROVE IInv
  OBVIOUS
<1>1. PICK key \in Candidates, tick \in Ticks :
        ring = <<NewEpoch(key, tick, "active")>>
  BY DEF Init
<1>2. /\ ring[1] \in Epoch /\ ring[1].retired = NoTick
      /\ ring[1].status = "active" /\ Len(ring) = 1 /\ ring \in Seq(Epoch)
  BY <1>1 DEF NewEpoch, Epoch, Status
<1>3. OneActive(ring) /\ ActiveEpoch(ring) = 1
  <2>1. 1 \in 1..Len(ring) /\ \A i \in 1..Len(ring) : i = 1
    BY <1>2
  <2> QED
    BY <2>1, <1>2, ActiveEpochIs
<1>4. WithStatus(ring, "staged") = {}
  BY <1>2 DEF WithStatus
<1>5. RingVerifies(ring)
  BY <1>2, <1>3
     DEF RingVerifies, EpochsDistinct, TicksConsistent, AtMostOneStaged
<1> QED
  BY <1>2, <1>4, <1>5
     DEF Init, IInv, TypeOK, RingAlwaysVerifies, PhaseMatchesRing,
         OldEpochRetained, Phases

(* Steps that change no epoch preserve what is said of the ring. *)
LEMMA NextPreserves == IInv /\ [Next]_vars => IInv'
<1> SUFFICES ASSUME IInv, [Next]_vars PROVE IInv'
  OBVIOUS
<1> DEFINE act == ActiveEpoch(ring)
<1>0. /\ ring \in Seq(Epoch) /\ RingType(ring) /\ RingVerifies(ring)
      /\ Len(ring) \in Nat /\ phase \in Phases
      /\ act \in 1..Len(ring) /\ ring[act].status = "active"
  BY ActiveEpochUnique DEF IInv, TypeOK, RingAlwaysVerifies, RingType
<1> USE DEF ClosePhase
<1>1. ASSUME NEW clauses \in Answers, CheckReadiness(clauses) PROVE IInv'
  BY <1>1 DEF CheckReadiness, IInv, TypeOK, RingAlwaysVerifies,
              PhaseMatchesRing, OldEpochRetained, Phases
<1>2. ASSUME NEW key \in Candidates, NEW tick \in Ticks,
             StageCandidate(key, tick)
      PROVE  IInv'
  <2>1. /\ CanStageEpoch(ring, key, tick) /\ phase' = "staged"
        /\ ring' = StageEpoch(ring, key, tick) /\ transition' = NoTransition
    BY <1>2 DEF StageCandidate, IInv, PhaseMatchesRing
  <2>2. /\ RingType(ring') /\ RingVerifies(ring')
        /\ WithStatus(ring', "staged") # {}
    BY <2>1, <1>0, StageEpochVerifies
  <2> QED
    BY <2>1, <2>2 DEF IInv, TypeOK, RingAlwaysVerifies, PhaseMatchesRing,
                      OldEpochRetained, Phases, RingType
<1>3. ASSUME NEW t \in Handovers, NEW roundTrip, NEW clauses, NEW votes,
             CommitTripleLock(t, roundTrip, clauses, votes)
      PROVE  IInv'
  <2>1. PICK cand \in WithStatus(ring, "staged") :
          Authorized(AllOf({LockAVerdict(ring, cand, roundTrip),
                            LockBVerdict(ring, t, clauses),
                            LockCVerdict(votes, Quorum)}))
    BY <1>3 DEF CommitTripleLock
  <2>2. LockAVerdict(ring, cand, roundTrip) = ALLOW
        /\ LockBVerdict(ring, t, clauses) = ALLOW
    BY <2>1, AllOfAllow, GateVerdicts
  <2>3. cand = act + 1
    BY <2>1, <2>2, <1>0, AllOfAllow DEF LockAVerdict, Clause, ALLOW, DENY
  <2>4. t = [from |-> act, to |-> act + 1]
    BY <2>2, <1>0, AllOfAllow DEF LockBVerdict, Clause, ALLOW, DENY
  <2>5. WithStatus(ring, "staged") = {act + 1}
    BY <2>1, <2>3, <1>0 DEF RingVerifies, AtMostOneStaged, WithStatus
  <2>6. transition' = t /\ phase' = "locked" /\ ring' = ring
        /\ t \in [from : Nat, to : Nat]
    BY <1>3, <1>0, <2>4 DEF CommitTripleLock
  <2> QED
    BY <2>4, <2>5, <2>6, <1>0, TransitionAssumption
       DEF IInv, TypeOK, RingAlwaysVerifies, PhaseMatchesRing,
           OldEpochRetained, Phases
<1>4. ASSUME NEW tick \in Ticks, SwitchEpoch(tick) PROVE IInv'
  <2>1. /\ CanSwitchActive(ring, tick) /\ phase = "locked" /\ phase' = "switched"
        /\ ring' = SwitchActive(ring, tick) /\ transition' = transition
    BY <1>4 DEF SwitchEpoch
  <2>2. /\ transition = [from |-> act, to |-> act + 1]
        /\ WithStatus(ring, "staged") = {act + 1}
    BY <2>1 DEF IInv, PhaseMatchesRing
  <2>3. /\ RingType(ring') /\ RingVerifies(ring') /\ Len(ring') = Len(ring)
        /\ ActiveEpoch(ring') = act + 1 /\ ring'[act].status = "retired"
        /\ WithStatus(ring', "staged") = {}
    <3>1. RingType(ring) /\ CanSwitchActive(ring, tick)
      BY <2>1, <1>0
    <3> DEFINE c == act + 1
    <3>2. WithStatus(ring, "staged") = {c}
      BY <2>2
    <3> HIDE DEF act, c
    <3>3. LET s == SwitchActive(ring, tick)
              a == ActiveEpoch(ring)
          IN  /\ RingType(s)
              /\ Len(s) = Len(ring)
              /\ \A i \in 1..Len(ring) : /\ s[i].key = ring[i].key
                                         /\ s[i].created = ring[i].created
                                         /\ i \notin {a, c} => s[i] = ring[i]
              /\ s[a].status = "retired"
              /\ RingVerifies(s)
              /\ ActiveEpoch(s) = c
              /\ WithStatus(s, "staged") = {}
      BY <3>1, <3>2, SwitchActiveVerifies
    <3> QED
      BY <3>3, <2>1 DEF act, c
  <2>4. act \in WithStatus(ring', "retired") /\ act + 1 - 1 = act
    BY <2>3, <1>0 DEF WithStatus
  <2> QED
    BY <2>1, <2>2, <2>3, <2>4, TransitionAssumption
       DEF IInv, TypeOK, RingAlwaysVerifies, PhaseMatchesRing,
           OldEpochRetained, Phases, RingType
<1>5. ASSUME NEW clauses, ConfirmTripleVerify(clauses) PROVE IInv'
  BY <1>5 DEF ConfirmTripleVerify, IInv, TypeOK, RingAlwaysVerifies,
              PhaseMatchesRing, OldEpochRetained, Phases
<1>6. ASSUME NEW tick \in Ticks, FallbackToOldEpoch(tick) PROVE IInv'
  <2>1. /\ CanFallbackSwitch(ring, tick) /\ phase = "switched" /\ phase' = "idle"
        /\ ring' = FallbackSwitch(ring, tick) /\ transition' = NoTransition
    BY <1>6 DEF FallbackToOldEpoch
  <2>2. WithStatus(ring, "staged") = {}
    BY <2>1 DEF IInv, PhaseMatchesRing
  <2>3. /\ RingType(ring') /\ RingVerifies(ring') /\ Len(ring') = Len(ring)
        /\ ActiveEpoch(ring') = act - 1 /\ ring'[act].status = "revoked"
        /\ WithStatus(ring', "staged") = {}
    BY <2>1, <2>2, <1>0, FallbackSwitchVerifies
  <2> QED
    BY <2>1, <2>3 DEF IInv, TypeOK, RingAlwaysVerifies, PhaseMatchesRing,
                      OldEpochRetained, Phases, RingType
<1>7. ASSUME NEW clauses, NEW votes, ConfirmDrain(clauses, votes) PROVE IInv'
  BY <1>7 DEF ConfirmDrain, IInv, TypeOK, RingAlwaysVerifies,
              PhaseMatchesRing, OldEpochRetained, Phases
<1>8. ASSUME NEW mode \in RetireModes, NEW recorded \in BOOLEAN,
             NEW tick \in Ticks, RetireOldEpoch(mode, recorded, tick)
      PROVE  IInv'
  <2>1. phase = "drained" /\ phase' = "retired" /\ transition' = transition
    BY <1>8 DEF RetireOldEpoch
  <2>2. /\ transition = [from |-> act - 1, to |-> act]
        /\ WithStatus(ring, "staged") = {}
        /\ act - 1 \in WithStatus(ring, "retired")
    BY <2>1 DEF IInv, PhaseMatchesRing, OldEpochRetained
  <2>3. CASE ring' = ring
    BY <2>1, <2>2, <2>3, <1>0, TransitionAssumption
       DEF IInv, TypeOK, RingAlwaysVerifies, PhaseMatchesRing,
           OldEpochRetained, Phases
  <2>4. CASE CanMarkRevoked(ring, act - 1, tick)
             /\ ring' = MarkRevoked(ring, act - 1)
    <3>1. /\ RingType(ring') /\ RingVerifies(ring') /\ Len(ring') = Len(ring)
          /\ ActiveEpoch(ring') = act /\ ring'[act - 1].status = "revoked"
          /\ act - 1 \in 1..Len(ring) /\ WithStatus(ring', "staged") = {}
      BY <2>2, <2>4, <1>0, MarkRevokedVerifies
    <3>2. act - 1 \in WithStatus(ring', "revoked")
      BY <3>1 DEF WithStatus
    <3> QED
      BY <2>1, <2>2, <3>1, <3>2, TransitionAssumption
         DEF IInv, TypeOK, RingAlwaysVerifies, PhaseMatchesRing,
             OldEpochRetained, Phases, RingType
  <2> QED
    BY <1>8, <2>3, <2>4 DEF RetireOldEpoch
<1>9. ASSUME BeginRotation PROVE IInv'
  BY <1>9 DEF BeginRotation, IInv, TypeOK, RingAlwaysVerifies,
              PhaseMatchesRing, OldEpochRetained, Phases
<1>10. CASE UNCHANGED vars
  BY <1>10 DEF vars, IInv, TypeOK, RingAlwaysVerifies, PhaseMatchesRing,
               OldEpochRetained
<1> QED
  BY <1>1, <1>2, <1>3, <1>4, <1>5, <1>6, <1>7, <1>8, <1>9, <1>10 DEF Next

LEMMA InductiveInvariant == Spec => []IInv
<1> QED
  BY InitEstablishes, NextPreserves, PTL DEF Spec

(* Every variable keeps its type (RotationProcess and KeyRing). *)
THEOREM TypeCorrect == Spec => []TypeOK
<1>1. IInv => TypeOK
  BY DEF IInv
<1> QED
  BY <1>1, InductiveInvariant, PTL

(* No sequence of handler calls produces a ring verifyRing would refuse. *)
THEOREM RingNeverBroken == Spec => []RingAlwaysVerifies
<1>1. IInv => RingAlwaysVerifies
  BY DEF IInv
<1> QED
  BY <1>1, InductiveInvariant, PTL

(* The phase, the ring and the recorded handover always agree, so a state of
   the machine can always be sealed into a checkpoint. *)
THEOREM PhaseAgreesWithRing == Spec => [](PhaseMatchesRing /\ OldEpochRetained)
<1>1. IInv => PhaseMatchesRing /\ OldEpochRetained
  BY DEF IInv
<1> QED
  BY <1>1, InductiveInvariant, PTL

-----------------------------------------------------------------------------
(* What one step may do to the ring: the five ways it changes, each with the *)
(* phase it belongs to.                                                      *)

StagesCandidate ==
  \E key \in Candidates, tick \in Ticks :
    CanStageEpoch(ring, key, tick) /\ ring' = StageEpoch(ring, key, tick)

SwitchesSigner ==
  /\ phase = "locked"
  /\ transition = [from |-> ActiveEpoch(ring), to |-> ActiveEpoch(ring) + 1]
  /\ WithStatus(ring, "staged") = {ActiveEpoch(ring) + 1}
  /\ \E tick \in Ticks :
       CanSwitchActive(ring, tick) /\ ring' = SwitchActive(ring, tick)

FallsBack ==
  /\ phase = "switched"
  /\ transition = [from |-> ActiveEpoch(ring) - 1, to |-> ActiveEpoch(ring)]
  /\ WithStatus(ring, "staged") = {}
  /\ \E tick \in Ticks :
       CanFallbackSwitch(ring, tick) /\ ring' = FallbackSwitch(ring, tick)

Archives ==
  /\ phase = "drained"
  /\ ring[ActiveEpoch(ring) - 1].key.keyKind = "asymmetric"
  /\ \E tick \in Ticks :
       /\ CanMarkRevoked(ring, ActiveEpoch(ring) - 1, tick)
       /\ ring' = MarkRevoked(ring, ActiveEpoch(ring) - 1)

LEMMA RingSteps ==
  IInv /\ [Next]_vars =>
    ring' = ring \/ StagesCandidate \/ SwitchesSigner \/ FallsBack \/ Archives
<1> SUFFICES ASSUME IInv, [Next]_vars
             PROVE  \/ ring' = ring \/ StagesCandidate \/ SwitchesSigner
                    \/ FallsBack \/ Archives
  OBVIOUS
<1> USE DEF ClosePhase
<1>1. CASE \E clauses \in Answers : CheckReadiness(clauses)
  BY <1>1 DEF CheckReadiness
<1>2. CASE \E key \in Candidates, tick \in Ticks : StageCandidate(key, tick)
  BY <1>2 DEF StageCandidate, StagesCandidate
<1>3. CASE \E t \in Handovers, roundTrip \in Answer, clauses \in Answers,
              votes \in Ballots : CommitTripleLock(t, roundTrip, clauses, votes)
  BY <1>3 DEF CommitTripleLock
<1>4. CASE \E tick \in Ticks : SwitchEpoch(tick)
  BY <1>4 DEF SwitchEpoch, SwitchesSigner, IInv, PhaseMatchesRing
<1>5. CASE \E clauses \in Answers : ConfirmTripleVerify(clauses)
  BY <1>5 DEF ConfirmTripleVerify
<1>6. CASE \E tick \in Ticks : FallbackToOldEpoch(tick)
  BY <1>6 DEF FallbackToOldEpoch, FallsBack, IInv, PhaseMatchesRing
<1>7. CASE \E clauses \in Answers, votes \in Ballots : ConfirmDrain(clauses, votes)
  BY <1>7 DEF ConfirmDrain
<1>8. ASSUME NEW mode \in RetireModes, NEW recorded \in BOOLEAN,
             NEW tick \in Ticks, RetireOldEpoch(mode, recorded, tick),
             ring' # ring
      PROVE  Archives
  <2> DEFINE old == ActiveEpoch(ring) - 1
  <2>1. /\ phase = "drained" /\ mode = "revoke-then-archive"
        /\ CanMarkRevoked(ring, old, tick) /\ ring' = MarkRevoked(ring, old)
        /\ Authorized(RetireVerdict(ring, old, mode, recorded))
    BY <1>8 DEF RetireOldEpoch
  <2>2. ring[old].key.keyKind = "asymmetric"
    <3>1. RingVerifies(ring) /\ old \in 1..Len(ring)
      BY <2>1 DEF CanMarkRevoked, WithStatus
    <3>2. Clause(\/ mode = "cold-retain"
                 \/ /\ ring[old].key.keyKind = "asymmetric"
                    /\ mode = "revoke-then-archive" => recorded) # DENY
      BY <2>1, <3>1, AllOfAllow DEF RetireVerdict
    <3> QED
      BY <3>2, <2>1 DEF Clause
  <2> QED
    BY <2>1, <2>2 DEF Archives
<1>9. CASE BeginRotation
  BY <1>9 DEF BeginRotation
<1>10. CASE UNCHANGED vars
  BY <1>10 DEF vars
<1> QED
  BY <1>1, <1>2, <1>3, <1>4, <1>5, <1>6, <1>7, <1>8, <1>9, <1>10 DEF Next

(* What each of the five does, epoch by epoch. *)
LEMMA RingStepEffects ==
  ASSUME IInv, [Next]_vars
  PROVE  /\ Len(ring') \in {Len(ring), Len(ring) + 1}
         /\ \A i \in 1..Len(ring) :
              /\ ring'[i].key = ring[i].key
              /\ ring'[i].created = ring[i].created
              /\ ring'[i].status # ring[i].status =>
                   \/ SwitchesSigner /\ ring'[i].status # "revoked"
                   \/ FallsBack /\ i = ActiveEpoch(ring)
                   \/ FallsBack /\ ring'[i].status = "active"
                   \/ Archives /\ i = ActiveEpoch(ring) - 1
              /\ ring[i].status = "revoked" => ring'[i] = ring[i]
         /\ ActiveEpoch(ring') # ActiveEpoch(ring) =>
              \/ SwitchesSigner /\ ActiveEpoch(ring') = ActiveEpoch(ring) + 1
              \/ FallsBack /\ ActiveEpoch(ring') = ActiveEpoch(ring) - 1
<1> DEFINE act == ActiveEpoch(ring)
           Goal ==
             /\ Len(ring') \in {Len(ring), Len(ring) + 1}
             /\ \A i \in 1..Len(ring) :
                  /\ ring'[i].key = ring[i].key
                  /\ ring'[i].created = ring[i].created
                  /\ ring'[i].status # ring[i].status =>
                       \/ SwitchesSigner /\ ring'[i].status # "revoked"
                       \/ FallsBack /\ i = act
                       \/ FallsBack /\ ring'[i].status = "active"
                       \/ Archives /\ i = act - 1
                  /\ ring[i].status = "revoked" => ring'[i] = ring[i]
             /\ ActiveEpoch(ring') # act =>
                  \/ SwitchesSigner /\ ActiveEpoch(ring') = act + 1
                  \/ FallsBack /\ ActiveEpoch(ring') = act - 1
<1> SUFFICES Goal
  OBVIOUS
<1>0. /\ RingType(ring) /\ RingVerifies(ring) /\ Len(ring) \in Nat
      /\ act \in 1..Len(ring) /\ ring[act].status = "active"
  BY ActiveEpochUnique DEF IInv, TypeOK, RingAlwaysVerifies, RingType
<1>1. CASE ring' = ring
  BY <1>1
<1>2. CASE StagesCandidate
  <2>1. PICK key \in Candidates, tick \in Ticks :
          CanStageEpoch(ring, key, tick) /\ ring' = StageEpoch(ring, key, tick)
    BY <1>2 DEF StagesCandidate
  <2>2. /\ Len(ring') = Len(ring) + 1 /\ ActiveEpoch(ring') = act
        /\ \A i \in 1..Len(ring) : ring'[i] = ring[i]
    BY <2>1, <1>0, StageEpochVerifies
  <2> QED
    BY <2>2
<1>3. CASE SwitchesSigner
  <2>1. PICK tick \in Ticks :
          CanSwitchActive(ring, tick) /\ ring' = SwitchActive(ring, tick)
    BY <1>3 DEF SwitchesSigner
  <2>2. WithStatus(ring, "staged") = {act + 1}
    BY <1>3 DEF SwitchesSigner
  <2>3. /\ Len(ring') = Len(ring) /\ ActiveEpoch(ring') = act + 1
        /\ \A i \in 1..Len(ring) : /\ ring'[i].key = ring[i].key
                                   /\ ring'[i].created = ring[i].created
                                   /\ i \notin {act, act + 1} => ring'[i] = ring[i]
        /\ ring'[act].status = "retired" /\ RingVerifies(ring')
    <3>1. RingType(ring) /\ CanSwitchActive(ring, tick)
      BY <2>1, <1>0
    <3> HIDE DEF act, Goal
    <3> DEFINE c == act + 1
    <3>2. WithStatus(ring, "staged") = {c}
      BY <2>2
    <3> HIDE DEF c
    <3>3. LET s == SwitchActive(ring, tick)
              a == ActiveEpoch(ring)
          IN  /\ RingType(s)
              /\ Len(s) = Len(ring)
              /\ \A i \in 1..Len(ring) : /\ s[i].key = ring[i].key
                                         /\ s[i].created = ring[i].created
                                         /\ i \notin {a, c} => s[i] = ring[i]
              /\ s[a].status = "retired"
              /\ RingVerifies(s)
              /\ ActiveEpoch(s) = c
              /\ WithStatus(s, "staged") = {}
      BY <3>1, <3>2, SwitchActiveVerifies
    <3> QED
      BY <3>3, <2>1 DEF act, c
  <2>4. ring'[act + 1].status = "active" /\ act + 1 \in 1..Len(ring)
    BY <2>3, ActiveEpochUnique
  <2>5. ring[act + 1].status = "staged"
    BY <2>2 DEF WithStatus
  <2> QED
    BY <2>3, <2>4, <2>5, <1>0, <1>3
<1>4. CASE FallsBack
  <2>1. PICK tick \in Ticks :
          CanFallbackSwitch(ring, tick) /\ ring' = FallbackSwitch(ring, tick)
    BY <1>4 DEF FallsBack
  <2>2. WithStatus(ring, "staged") = {}
    BY <1>4 DEF FallsBack
  <2>3. /\ Len(ring') = Len(ring) /\ ActiveEpoch(ring') = act - 1
        /\ \A i \in 1..Len(ring) : /\ ring'[i].key = ring[i].key
                                   /\ ring'[i].created = ring[i].created
                                   /\ i \notin {act - 1, act} => ring'[i] = ring[i]
        /\ RingVerifies(ring')
    <3>1. RingType(ring) /\ CanFallbackSwitch(ring, tick)
      BY <2>1, <1>0
    <3> HIDE DEF act, Goal
    <3>2. LET s == FallbackSwitch(ring, tick)
              a == ActiveEpoch(ring)
          IN  /\ Len(s) = Len(ring) /\ ActiveEpoch(s) = a - 1
              /\ \A i \in 1..Len(ring) : /\ s[i].key = ring[i].key
                                         /\ s[i].created = ring[i].created
                                         /\ i \notin {a - 1, a} => s[i] = ring[i]
              /\ RingVerifies(s)
      BY <3>1, <2>2, FallbackSwitchVerifies
    <3> QED
      BY <3>2, <2>1 DEF act
  <2>4. ring'[act - 1].status = "active" /\ act - 1 \in 1..Len(ring)
    BY <2>3, ActiveEpochUnique
  <2>5. ring[act - 1].status = "retired"
    BY <2>1 DEF CanFallbackSwitch, WithStatus
  <2> QED
    BY <2>3, <2>4, <2>5, <1>0, <1>4
<1>5. CASE Archives
  <2>1. PICK tick \in Ticks : /\ CanMarkRevoked(ring, act - 1, tick)
                              /\ ring' = MarkRevoked(ring, act - 1)
    BY <1>5 DEF Archives
  <2>2. /\ Len(ring') = Len(ring) /\ ActiveEpoch(ring') = act
        /\ ring[act - 1].status = "retired"
        /\ \A i \in 1..Len(ring) : /\ ring'[i].key = ring[i].key
                                   /\ ring'[i].created = ring[i].created
                                   /\ i # act - 1 => ring'[i] = ring[i]
    <3> HIDE DEF Goal
    <3> QED
      BY <2>1, <1>0, MarkRevokedVerifies
  <2> QED
    BY <2>2, <1>5
<1> QED
  BY <1>1, <1>2, <1>3, <1>4, <1>5, RingSteps

(* Rotation appends and never replaces, for every ring and every caller. *)
THEOREM HistoryAppendOnly == Spec => AppendOnly
<1>1. IInv /\ [Next]_vars =>
        [/\ Len(ring') \in {Len(ring), Len(ring) + 1}
         /\ \A i \in 1..Len(ring) :
              /\ ring'[i].key = ring[i].key
              /\ ring'[i].created = ring[i].created
              /\ ring[i].status = "revoked" => ring'[i] = ring[i]]_vars
  BY RingStepEffects
<1> QED
  BY <1>1, InductiveInvariant, PTL DEF Spec, AppendOnly

(* The signer changes only along the handover the triple lock admitted, or
   back along it. *)
THEOREM SignerFollowsHandover == Spec => SignerHandover
<1>1. IInv /\ [Next]_vars =>
        [ActiveEpoch(ring') # ActiveEpoch(ring) =>
           \/ /\ phase = "locked"
              /\ transition = [from |-> ActiveEpoch(ring), to |-> ActiveEpoch(ring')]
           \/ /\ phase = "switched"
              /\ transition = [from |-> ActiveEpoch(ring'), to |-> ActiveEpoch(ring)]
              ]_vars
  BY RingStepEffects DEF SwitchesSigner, FallsBack
<1> QED
  BY <1>1, InductiveInvariant, PTL DEF Spec, SignerHandover

(* A batch loses its verifier only to a fallback or to the archiving of an
   asymmetric epoch after a complete drain. *)
THEOREM VerificationRetained == Spec => VerifyPowerKept
<1>1. IInv /\ [Next]_vars =>
        [\A i \in 1..Len(ring) :
           Verifiable(ring, i) /\ ~Verifiable(ring', i) =>
             \/ phase = "switched" /\ i = ActiveEpoch(ring)
             \/ /\ phase = "drained"
                /\ i = ActiveEpoch(ring) - 1
                /\ ring[i].key.keyKind = "asymmetric"]_vars
  <2> SUFFICES ASSUME IInv, [Next]_vars, NEW i \in 1..Len(ring),
                      Verifiable(ring, i), ~Verifiable(ring', i)
               PROVE  \/ phase = "switched" /\ i = ActiveEpoch(ring)
                      \/ /\ phase = "drained"
                         /\ i = ActiveEpoch(ring) - 1
                         /\ ring[i].key.keyKind = "asymmetric"
    OBVIOUS
  <2>1. Len(ring) \in Nat /\ Len(ring') \in {Len(ring), Len(ring) + 1}
    BY RingStepEffects DEF IInv, TypeOK
  <2>2. ring'[i].status = "revoked" /\ ring[i].status # "revoked"
    BY <2>1 DEF Verifiable
  <2> QED
    BY <2>2, RingStepEffects DEF FallsBack, Archives
<1> QED
  BY <1>1, InductiveInvariant, PTL DEF Spec, VerifyPowerKept

-----------------------------------------------------------------------------
(* The epochs no fallback of this process can make sign again: those before  *)
(* the active one, but for the predecessor of an epoch still in its canary.  *)

Superseded(r, p) ==
  {i \in 1..Len(r) : i < ActiveEpoch(r) /\ (p = "switched" => i < ActiveEpoch(r) - 1)}

(* How a rotation enters and leaves its canary window. *)
LEMMA PhaseSteps ==
  ASSUME IInv, [Next]_vars
  PROVE  /\ phase' = "switched" =>
              phase = "switched" \/ (phase = "locked" /\ transition' = transition)
         /\ phase = "switched" =>
              \/ phase' \in {"switched", "verified"}
              \/ phase' = "idle" /\ \E tick \in Ticks : FallbackToOldEpoch(tick)
         /\ phase = "switched" /\ phase' = "switched" => ring' = ring
         /\ phase = "locked" /\ ring' # ring => phase' = "switched"
         /\ phase = "switched" /\ phase' = "verified" => ring' = ring
<1> USE DEF ClosePhase
<1>1. CASE \E clauses \in Answers : CheckReadiness(clauses)
  BY <1>1 DEF CheckReadiness
<1>2. CASE \E key \in Candidates, tick \in Ticks : StageCandidate(key, tick)
  BY <1>2 DEF StageCandidate
<1>3. CASE \E t \in Handovers, roundTrip \in Answer, clauses \in Answers,
              votes \in Ballots : CommitTripleLock(t, roundTrip, clauses, votes)
  BY <1>3 DEF CommitTripleLock
<1>4. CASE \E tick \in Ticks : SwitchEpoch(tick)
  BY <1>4 DEF SwitchEpoch
<1>5. CASE \E clauses \in Answers : ConfirmTripleVerify(clauses)
  BY <1>5 DEF ConfirmTripleVerify
<1>6. CASE \E tick \in Ticks : FallbackToOldEpoch(tick)
  BY <1>6 DEF FallbackToOldEpoch
<1>7. CASE \E clauses \in Answers, votes \in Ballots : ConfirmDrain(clauses, votes)
  BY <1>7 DEF ConfirmDrain
<1>8. CASE \E mode \in RetireModes, recorded \in BOOLEAN, tick \in Ticks :
             RetireOldEpoch(mode, recorded, tick)
  BY <1>8 DEF RetireOldEpoch
<1>9. CASE BeginRotation
  BY <1>9 DEF BeginRotation
<1>10. CASE UNCHANGED vars
  BY <1>10 DEF vars
<1> QED
  BY <1>1, <1>2, <1>3, <1>4, <1>5, <1>6, <1>7, <1>8, <1>9, <1>10 DEF Next

(* They stay superseded, and only the end of a canary adds to them. *)
LEMMA SupersededGrow ==
  ASSUME IInv, [Next]_vars
  PROVE  /\ Superseded(ring, phase) \subseteq Superseded(ring', phase')
         /\ \/ phase = "switched" /\ phase' = "verified"
            \/ Superseded(ring', phase') = Superseded(ring, phase)
<1> DEFINE act == ActiveEpoch(ring)
           new == ActiveEpoch(ring')
<1>1. /\ IInv' /\ act \in 1..Len(ring) /\ new \in 1..Len(ring') /\ Len(ring) \in Nat
      /\ Len(ring') \in {Len(ring), Len(ring) + 1}
  BY NextPreserves, ActiveEpochUnique, RingStepEffects DEF IInv, RingAlwaysVerifies, TypeOK
<1>2. \/ new = act
      \/ SwitchesSigner /\ new = act + 1
      \/ FallsBack /\ new = act - 1
  BY RingStepEffects
<1>3. CASE new = act
  <2>1. phase' = "switched" => phase = "switched"
    <3>1. ASSUME phase' = "switched", phase = "locked", transition' = transition PROVE FALSE
      <4>1. transition' = [from |-> new - 1, to |-> new]
        BY <1>1, <3>1 DEF IInv, PhaseMatchesRing
      <4>2. transition = [from |-> act, to |-> act + 1]
        BY <3>1 DEF IInv, PhaseMatchesRing
      <4>3. transition'.to = new /\ transition.to = act + 1
        BY <4>1, <4>2
      <4> QED BY <1>1, <1>3, <3>1, <4>3
    <3> QED BY <3>1, PhaseSteps
  <2>2. phase = "switched" => phase' \in {"switched", "verified"}
    <3>1. ASSUME phase = "switched", phase' = "idle", NEW tick \in Ticks,
                 FallbackToOldEpoch(tick)
          PROVE FALSE
      <4>1. WithStatus(ring, "staged") = {} BY <3>1 DEF IInv, PhaseMatchesRing
      <4>2. CanFallbackSwitch(ring, tick) /\ ring' = FallbackSwitch(ring, tick)
        BY <3>1 DEF FallbackToOldEpoch
      <4>3. new = act - 1
        BY <4>1, <4>2, FallbackSwitchVerifies DEF IInv, TypeOK, RingType
      <4> QED BY <1>1, <1>3, <4>3
    <3> QED BY <3>1, PhaseSteps
  <2> QED BY <1>1, <1>3, <2>1, <2>2 DEF Superseded
<1>4. CASE SwitchesSigner /\ new = act + 1
  <2>1. phase' = "switched"
    <3>1. phase = "locked" BY <1>4 DEF SwitchesSigner
    <3>2. ring' # ring BY <1>1, <1>4
    <3> QED BY <3>1, <3>2, PhaseSteps
  <2> QED BY <1>1, <1>4, <2>1 DEF Superseded, SwitchesSigner
<1>5. CASE FallsBack /\ new = act - 1
  <2>1. phase = "switched" BY <1>5 DEF FallsBack
  <2>2. phase' # "switched" BY <1>1, <1>5, <2>1, PhaseSteps
  <2>3. phase' # "verified"
    BY <1>1, <1>5, <2>1, PhaseSteps
  <2> QED BY <1>1, <1>5, <2>1, <2>2, <2>3 DEF Superseded
<1> QED BY <1>2, <1>3, <1>4, <1>5
=============================================================================
