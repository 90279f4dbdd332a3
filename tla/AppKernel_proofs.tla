-------------------------- MODULE AppKernel_proofs --------------------------
(***************************************************************************)
(* The request pipeline of the app kernel, for any number of requests,     *)
(* keys and routes.  The invariant has a part for each resource a request  *)
(* holds on its way: the slot (Phases, SlotsBounded), the claim on its key *)
(* (ClaimsHold, ClaimsDiffer), the room in the audit sink (AuditAccounts)  *)
(* and the lease of its secret (LeasesFollow).  A step of a request is     *)
(* first shown to leave alone what it does not touch (Inside, Quiet); what *)
(* remains to prove of it is its own part.                                 *)
(***************************************************************************)
EXTENDS AppKernel, FiniteSetTheorems, SequenceTheorems, TLAPS

(* The lemmas about the release authority speak of the set of its leases:
   their order matters only to which one is evicted. *)
Lease == [op : Requests, epoch : Nat, state : LeaseStates]
Authority == [leases : Seq(Lease), retired : Seq(Requests)]
LeasesIn(a) == {a.leases[i] : i \in DOMAIN a.leases}

LEMMA MinIn == ASSUME NEW I \in SUBSET Nat, I # {} PROVE Min(I) \in I
<1>1. PICK m \in I : \A n \in I : <<n, m>> \notin OpToRel(<, Nat)
  BY WFMin, NatLessThanWellFounded, Zenon
<1>2. \A n \in I : ~(n < m) BY <1>1 DEF OpToRel
<1>3. \A n \in I : m <= n BY <1>2
<1> QED BY <1>3 DEF Min

LEMMA LeaseFound ==
  ASSUME NEW a \in Authority, NEW op
  PROVE  /\ LeaseOf(a, op) # 0 =>
              /\ LeaseOf(a, op) \in DOMAIN a.leases
              /\ a.leases[LeaseOf(a, op)].op = op
         /\ LeaseOf(a, op) = 0 => \A l \in LeasesIn(a) : l.op # op
<1> DEFINE I == {i \in 1..Len(a.leases) : a.leases[i].op = op}
<1>1. LeaseOf(a, op) = IF I # {} THEN Min(I) ELSE 0 BY DEF LeaseOf, SelectInSeq
<1>2. I \in SUBSET Nat OBVIOUS
<1>3. I # {} => Min(I) \in I
  <2> HIDE DEF I
  <2> QED BY <1>2, MinIn
<1>4. DOMAIN a.leases = 1..Len(a.leases) BY DEF Authority
<1> QED BY <1>1, <1>3, <1>4 DEF LeasesIn

LEMMA VictimFound ==
  ASSUME NEW a \in Authority
  PROVE  SelectInSeq(a.leases, LAMBDA l : l.state # "unused") \in 0..Len(a.leases)
<1> DEFINE I == {i \in 1..Len(a.leases) : a.leases[i].state # "unused"}
<1>1. SelectInSeq(a.leases, LAMBDA l : l.state # "unused")
        = IF I # {} THEN Min(I) ELSE 0 BY DEF SelectInSeq
<1>2. I \in SUBSET Nat OBVIOUS
<1>3. I # {} => Min(I) \in I
  <2> HIDE DEF I
  <2> QED BY <1>2, MinIn
<1> QED BY <1>1, <1>3 DEF Authority

LEMMA Removed ==
  ASSUME NEW S, NEW s \in Seq(S), NEW i \in 1..Len(s)
  PROVE  /\ RemoveAt(s, i) \in Seq(S)
         /\ \A j \in DOMAIN RemoveAt(s, i) : \E k \in DOMAIN s \ {i} : RemoveAt(s, i)[j] = s[k]
<1> DEFINE front == SubSeq(s, 1, i-1)
           back  == SubSeq(s, i+1, Len(s))
<1>1. front \in Seq(S) /\ Len(front) = i - 1 /\ \A j \in 1..(i-1) : front[j] = s[j]
  OBVIOUS
<1>2. /\ back \in Seq(S) /\ Len(back) = Len(s) - i
      /\ \A j \in 1..(Len(s) - i) : back[j] = s[j + i]
  OBVIOUS
<1>3. RemoveAt(s, i) = front \o back BY DEF RemoveAt
<1>4. Len(s) \in Nat OBVIOUS
<1> HIDE DEF front, back
<1>5. RemoveAt(s, i) \in Seq(S) /\ Len(RemoveAt(s, i)) = Len(s) - 1
  BY <1>1, <1>2, <1>3, <1>4, ConcatProperties
<1>6. DOMAIN RemoveAt(s, i) = 1..(Len(s) - 1) /\ DOMAIN s = 1..Len(s) BY <1>5
<1>7. ASSUME NEW j \in 1..(Len(s) - 1)
      PROVE  \E k \in 1..Len(s) \ {i} : RemoveAt(s, i)[j] = s[k]
  <2>1. (front \o back)[j] = IF j <= i - 1 THEN front[j] ELSE back[j - (i - 1)]
    BY <1>1, <1>2, <1>4, ConcatProperties
  <2>2. CASE j <= i - 1
    <3>1. RemoveAt(s, i)[j] = s[j] /\ j \in 1..Len(s) \ {i}
      BY <2>1, <2>2, <1>1, <1>3, <1>4
    <3> QED BY <3>1
  <2>3. CASE ~(j <= i - 1)
    <3> DEFINE k == j - (i - 1)
    <3>1. k \in 1..(Len(s) - i) /\ k + i = j + 1 BY <2>3, <1>4
    <3>2. back[k] = s[k + i] BY <1>2, <3>1
    <3>3. RemoveAt(s, i)[j] = back[k] BY <2>1, <2>3, <1>3
    <3>4. j + 1 \in 1..Len(s) \ {i} BY <2>3, <1>4
    <3> HIDE DEF k
    <3> QED BY <3>1, <3>2, <3>3, <3>4
  <2> QED BY <2>2, <2>3
<1> QED BY <1>5, <1>6, <1>7

LEMMA Evicted ==
  ASSUME NEW a \in Authority
  PROVE  /\ EvictOldestTerminal(a) \in Authority
         /\ LeasesIn(EvictOldestTerminal(a)) \subseteq LeasesIn(a)
<1> DEFINE victim == SelectInSeq(a.leases, LAMBDA l : l.state # "unused")
           kept == IF Len(a.retired) >= RetiredCap THEN Tail(a.retired) ELSE a.retired
           room == [leases |-> RemoveAt(a.leases, victim),
                    retired |-> Append(kept, a.leases[victim].op)]
<1>1. a.leases \in Seq(Lease) /\ a.retired \in Seq(Requests) BY DEF Authority
<1>2. EvictOldestTerminal(a) =
        IF Len(a.leases) < LeaseCap \/ victim = 0 THEN a ELSE room
  BY DEF EvictOldestTerminal
<1>3. victim \in 0..Len(a.leases) BY VictimFound
<1> HIDE DEF victim
<1>4. ASSUME victim # 0 PROVE room \in Authority /\ LeasesIn(room) \subseteq LeasesIn(a)
  <2>1. victim \in 1..Len(a.leases) BY <1>1, <1>3, <1>4
  <2>2. a.leases[victim].op \in Requests
    <3>1. a.leases[victim] \in Lease BY <1>1, <2>1
    <3> QED BY <3>1 DEF Lease
  <2>3. kept \in Seq(Requests) BY <1>1, CapAssumption
  <2> HIDE DEF kept
  <2>4. Append(kept, a.leases[victim].op) \in Seq(Requests) BY <2>2, <2>3
  <2>5. /\ RemoveAt(a.leases, victim) \in Seq(Lease)
        /\ \A j \in DOMAIN RemoveAt(a.leases, victim) :
             \E k \in DOMAIN a.leases \ {victim} : RemoveAt(a.leases, victim)[j] = a.leases[k]
    BY <1>1, <2>1, Removed
  <2> QED BY <2>4, <2>5 DEF Authority, LeasesIn
<1> HIDE DEF room
<1> QED BY <1>2, <1>4

(* A minted lease is the only one of its operation. *)
LEMMA Minted ==
  ASSUME NEW a \in Authority, NEW op \in Requests, NEW epoch \in Nat, ~MintRefused(a, op)
  PROVE  LET m == Mint(a, op, epoch)
             n == [op |-> op, epoch |-> epoch, state |-> "unused"] IN
         /\ m \in Authority
         /\ LeaseOf(m, op) \in DOMAIN m.leases /\ m.leases[LeaseOf(m, op)] = n
         /\ \A i \in DOMAIN m.leases \ {LeaseOf(m, op)} :
              m.leases[i] \in LeasesIn(a) /\ m.leases[i].op # op
<1> DEFINE room == EvictOldestTerminal(a)
           n == [op |-> op, epoch |-> epoch, state |-> "unused"]
           m == [room EXCEPT !.leases = Append(@, n)]
<1>1. room \in Authority /\ LeasesIn(room) \subseteq LeasesIn(a) BY Evicted
<1>2. \A l \in LeasesIn(a) : l.op # op BY LeaseFound DEF MintRefused
<1> HIDE DEF room
<1>3. n \in Lease BY DEF Lease, LeaseStates
<1>4. room.leases \in Seq(Lease) BY <1>1 DEF Authority
<1> HIDE DEF n
<1>5. m.leases = Append(room.leases, n) /\ m \in Authority
  <2>1. Append(room.leases, n) \in Seq(Lease) BY <1>3, <1>4, AppendProperties
  <2> QED BY <1>1, <2>1 DEF Authority
<1>6. /\ DOMAIN m.leases = 1..(Len(room.leases) + 1)
      /\ m.leases[Len(room.leases) + 1] = n
      /\ \A i \in 1..Len(room.leases) : m.leases[i] = room.leases[i]
  BY <1>3, <1>4, <1>5, AppendProperties
<1>7. \A i \in 1..Len(room.leases) : m.leases[i] \in LeasesIn(a) /\ m.leases[i].op # op
  <2>1. \A i \in 1..Len(room.leases) : room.leases[i] \in LeasesIn(room)
    BY <1>4 DEF LeasesIn
  <2> QED BY <1>1, <1>2, <1>6, <2>1
<1>8. n \in LeasesIn(m) /\ n.op = op BY <1>4, <1>6 DEF LeasesIn, n
<1> HIDE DEF m
<1>9. LeaseOf(m, op) = Len(room.leases) + 1
  <2>1. LeaseOf(m, op) # 0 BY <1>5, <1>8, LeaseFound
  <2>2. LeaseOf(m, op) \in DOMAIN m.leases /\ m.leases[LeaseOf(m, op)].op = op
    BY <1>5, <2>1, LeaseFound
  <2> QED BY <1>4, <1>6, <1>7, <2>2
<1>10. Mint(a, op, epoch) = m BY DEF Mint, m, n, room
<1>11. \A i \in DOMAIN m.leases \ {LeaseOf(m, op)} :
         m.leases[i] \in LeasesIn(a) /\ m.leases[i].op # op
  BY <1>4, <1>6, <1>7, <1>9
<1>12. LeaseOf(m, op) \in DOMAIN m.leases /\ m.leases[LeaseOf(m, op)] = n
  BY <1>4, <1>6, <1>9
<1> QED BY <1>5, <1>10, <1>11, <1>12 DEF n

(* Moving the leases of one operation from one state to another. *)
LEMMA Moved ==
  ASSUME NEW a \in Authority, NEW op, NEW from, NEW to \in LeaseStates
  PROVE  /\ Move(a, op, from, to) \in Authority
         /\ DOMAIN Move(a, op, from, to).leases = DOMAIN a.leases
         /\ \A i \in DOMAIN a.leases :
              Move(a, op, from, to).leases[i] =
                IF a.leases[i].op = op /\ a.leases[i].state = from
                THEN [a.leases[i] EXCEPT !.state = to] ELSE a.leases[i]
<1> DEFINE ls == [i \in DOMAIN a.leases |->
                   IF a.leases[i].op = op /\ a.leases[i].state = from
                   THEN [a.leases[i] EXCEPT !.state = to] ELSE a.leases[i]]
<1>1. /\ a.leases \in Seq(Lease) /\ DOMAIN a.leases = 1..Len(a.leases)
      /\ Len(a.leases) \in Nat
  BY DEF Authority
<1>2. \A i \in DOMAIN a.leases : a.leases[i] \in Lease BY <1>1
<1>3. \A i \in DOMAIN a.leases : ls[i] \in Lease BY <1>2 DEF Lease
<1>4. ls \in Seq(Lease) /\ DOMAIN ls = DOMAIN a.leases
  <2>1. ls \in [1..Len(a.leases) -> Lease] BY <1>1, <1>3
  <2> HIDE DEF ls
  <2> QED BY <1>1, <2>1
<1>5. Move(a, op, from, to) = [a EXCEPT !.leases = ls] BY DEF Move
<1> HIDE DEF ls
<1>6. Move(a, op, from, to) \in Authority /\ Move(a, op, from, to).leases = ls
  BY <1>4, <1>5 DEF Authority
<1> QED BY <1>4, <1>6 DEF ls

LEMMA MarkedUnknown ==
  ASSUME NEW a \in Authority, NEW op
  PROVE  /\ MarkUnknown(a, op) \in Authority
         /\ \A l \in LeasesIn(MarkUnknown(a, op)) :
              \/ l \in LeasesIn(a) /\ ~(l.op = op /\ l.state = "released")
              \/ /\ l.op = op /\ l.state = "delivery-unknown"
                 /\ \E k \in LeasesIn(a) : k.op = op /\ k.state = "released"
<1>1. a.leases \in Seq(Lease) /\ DOMAIN a.leases = 1..Len(a.leases) BY DEF Authority
<1>2. \A i \in DOMAIN a.leases : a.leases[i] \in Lease BY <1>1
<1>3. \A i \in DOMAIN a.leases :
        /\ [a.leases[i] EXCEPT !.state = "delivery-unknown"].op = a.leases[i].op
        /\ [a.leases[i] EXCEPT !.state = "delivery-unknown"].state = "delivery-unknown"
  BY <1>2 DEF Lease
<1> DEFINE u == MarkUnknown(a, op)
<1>4. "delivery-unknown" \in LeaseStates BY DEF LeaseStates
<1>5. /\ u \in Authority /\ DOMAIN u.leases = DOMAIN a.leases
      /\ \A i \in DOMAIN a.leases :
           u.leases[i] = IF a.leases[i].op = op /\ a.leases[i].state = "released"
                         THEN [a.leases[i] EXCEPT !.state = "delivery-unknown"] ELSE a.leases[i]
  BY <1>4, Moved DEF MarkUnknown
<1> HIDE DEF u
<1>6. ASSUME NEW i \in DOMAIN a.leases
      PROVE  \/ u.leases[i] \in LeasesIn(a)
                /\ ~(u.leases[i].op = op /\ u.leases[i].state = "released")
             \/ /\ u.leases[i].op = op /\ u.leases[i].state = "delivery-unknown"
                /\ \E k \in LeasesIn(a) : k.op = op /\ k.state = "released"
  <2>1. a.leases[i] \in LeasesIn(a) BY DEF LeasesIn
  <2> QED BY <1>3, <1>5, <2>1
<1>7. LeasesIn(u) = {u.leases[i] : i \in DOMAIN a.leases} BY <1>5 DEF LeasesIn
<1> HIDE DEF LeasesIn
<1> QED BY <1>5, <1>6, <1>7 DEF u

(* The one lease of a release that was not refused is consumed: released if
   the epoch has not moved, fenced if it has. *)
LEMMA Consumed ==
  ASSUME NEW a \in Authority, NEW op \in Requests, NEW epoch \in Nat, NEW observed \in Nat,
         ~MintRefused(a, op)
  PROVE  LET c == Consume(Mint(a, op, epoch), op, observed)
             end == IF observed = epoch THEN "released" ELSE "fenced"
         IN  /\ c \in Authority
             /\ StateOf(c, op) = end
             /\ \A l \in LeasesIn(c) :
                  \/ l \in LeasesIn(a) /\ l.op # op
                  \/ l.op = op /\ l.state = end
<1> DEFINE m == Mint(a, op, epoch)
           n == [op |-> op, epoch |-> epoch, state |-> "unused"]
           end == IF observed = epoch THEN "released" ELSE "fenced"
           c == Consume(m, op, observed)
           i == LeaseOf(m, op)
<1>1. /\ m \in Authority /\ i \in DOMAIN m.leases /\ m.leases[i] = n
      /\ \A j \in DOMAIN m.leases \ {i} : m.leases[j] \in LeasesIn(a) /\ m.leases[j].op # op
  BY Minted
<1>2. c = Move(m, op, "unused", end) BY <1>1 DEF Consume
<1> HIDE DEF m, i, c
<1>3. end \in LeaseStates BY DEF LeaseStates
<1> HIDE DEF end
<1>4. /\ c \in Authority /\ DOMAIN c.leases = DOMAIN m.leases
      /\ \A j \in DOMAIN m.leases :
           c.leases[j] = IF m.leases[j].op = op /\ m.leases[j].state = "unused"
                         THEN [m.leases[j] EXCEPT !.state = end] ELSE m.leases[j]
  BY <1>1, <1>2, <1>3, Moved
<1>5. /\ c.leases[i].op = op /\ c.leases[i].state = end
      /\ \A j \in DOMAIN m.leases \ {i} : c.leases[j] = m.leases[j]
  <2>1. c.leases[i] = [n EXCEPT !.state = end] BY <1>1, <1>4
  <2> QED BY <2>1, <1>1, <1>4
<1>6. \A l \in LeasesIn(c) : (l \in LeasesIn(a) /\ l.op # op) \/ (l.op = op /\ l.state = end)
  BY <1>1, <1>4, <1>5 DEF LeasesIn
<1>7. c.leases[i] \in LeasesIn(c) BY <1>1, <1>4 DEF LeasesIn
<1>8. LeaseOf(c, op) # 0 BY <1>4, <1>5, <1>7, LeaseFound
<1>9. LeaseOf(c, op) \in DOMAIN c.leases /\ c.leases[LeaseOf(c, op)].op = op
  BY <1>4, <1>8, LeaseFound
<1>10. c.leases[LeaseOf(c, op)] \in LeasesIn(c) BY <1>9 DEF LeasesIn
<1>11. StateOf(c, op) = end BY <1>6, <1>8, <1>9, <1>10 DEF StateOf
<1> QED BY <1>4, <1>6, <1>11 DEF c, m, end

(* A lease that is fenced instead ends as if the epoch had moved. *)
LEMMA Fenced ==
  ASSUME NEW a \in Authority, NEW op \in Requests, NEW epoch \in Nat, ~MintRefused(a, op)
  PROVE  LET f == Fence(Mint(a, op, epoch), op)
         IN  /\ f \in Authority
             /\ \A l \in LeasesIn(f) :
                  \/ l \in LeasesIn(a) /\ l.op # op
                  \/ l.op = op /\ l.state = "fenced"
<1> DEFINE m == Mint(a, op, epoch)
<1>1. m.leases[LeaseOf(m, op)] = [op |-> op, epoch |-> epoch, state |-> "unused"] BY Minted
<1> HIDE DEF m
<1>2. epoch + 1 \in Nat /\ epoch + 1 # epoch OBVIOUS
<1>3. Consume(m, op, epoch + 1) = Fence(m, op) BY <1>1, <1>2 DEF Consume, Fence
<1> QED BY <1>2, <1>3, Consumed DEF m

(* A release whose secret is not supplied leaves no lease. *)
LEMMA Dropped ==
  ASSUME NEW a \in Authority, NEW op \in Requests, NEW epoch \in Nat, ~MintRefused(a, op)
  PROVE  LET d == DropIfUnused(Mint(a, op, epoch), op)
         IN  d \in Authority /\ \A l \in LeasesIn(d) : l \in LeasesIn(a) /\ l.op # op
<1> DEFINE m == Mint(a, op, epoch)
           n == [op |-> op, epoch |-> epoch, state |-> "unused"]
           i == LeaseOf(m, op)
           ls == RemoveAt(m.leases, i)
           d == [m EXCEPT !.leases = ls]
<1>1. /\ m \in Authority /\ i \in DOMAIN m.leases /\ m.leases[i] = n
      /\ \A j \in DOMAIN m.leases \ {i} : m.leases[j] \in LeasesIn(a) /\ m.leases[j].op # op
  BY Minted
<1>2. /\ m.leases \in Seq(Lease) /\ DOMAIN m.leases = 1..Len(m.leases)
      /\ Len(m.leases) \in Nat
  BY <1>1 DEF Authority
<1> HIDE DEF m
<1>3. DropIfUnused(m, op) = d
  <2>1. i # 0 /\ m.leases[i].state = "unused" BY <1>1, <1>2
  <2> QED BY <2>1 DEF DropIfUnused
<1> HIDE DEF i
<1>4. ls \in Seq(Lease) /\ \A j \in DOMAIN ls : \E k \in DOMAIN m.leases \ {i} : ls[j] = m.leases[k]
  <2>1. i \in 1..Len(m.leases) BY <1>1, <1>2
  <2>2. m.leases \in Seq(Lease) BY <1>2
  <2> QED BY <2>1, <2>2, Removed
<1> HIDE DEF ls
<1>5. ls \in Seq(Lease) BY <1>4
<1>6. d \in Authority /\ d.leases = ls BY <1>1, <1>5 DEF Authority
<1> HIDE DEF d
<1>7. \A l \in LeasesIn(d) : l \in LeasesIn(a) /\ l.op # op
  <2>1. \A l \in LeasesIn(d) : \E k \in DOMAIN m.leases \ {i} : l = m.leases[k]
    BY <1>4, <1>6 DEF LeasesIn
  <2> QED BY <1>1, <2>1
<1> QED BY <1>3, <1>6, <1>7 DEF m

-----------------------------------------------------------------------------

Stages   == {"new", "claiming", "claimed", "unclaimed", "running", "encoded", "answered"}
Handlers == {"none", "running", "returned", "threw", "threw_refusal", "over"}

Request ==
  [stage : Stages, key : Keys \cup {NoKey}, claimTerm : Nat, epoch : Nat, observed : Nat,
   spent : BOOLEAN, delivered : BOOLEAN, failed : BOOLEAN,
   refusal : BOOLEAN, unreadable : BOOLEAN,
   handler : Handlers, late : BOOLEAN, slot : BOOLEAN, response : Responses]

TypeOK ==
  /\ limits \in LimitSets
  /\ req \in [Requests -> Request]
  /\ reserved \in SUBSET Requests
  /\ seen \in SUBSET Keys
  /\ term \in [Keys -> Nat]
  /\ arena \in [entry : {"live", "gone"}, epoch : Nat]
  /\ authority \in Authority

Unstarted == {"new", "claiming", "claimed", "unclaimed"}

(* What the stage of a request says of its handler, its slot and its secret. *)
Phases ==
  \A q \in Requests :
    /\ req[q].stage # "new" => req[q].key \in Keys
    /\ req[q].stage \in Unstarted =>
         req[q].handler = "none" /\ ~req[q].spent /\ ~req[q].delivered
    /\ req[q].stage = "running" /\ req[q].delivered => req[q].spent
    /\ req[q].stage \in {"claiming", "claimed", "unclaimed"} => req[q].slot
    /\ req[q].handler = "running" => req[q].slot
    /\ req[q].stage = "encoded" /\ req[q].response = "success" => req[q].handler = "returned"
    /\ req[q].stage = "encoded" => req[q].response # "audit_unavailable"

(* The gate counts the slots, those of handlers that were given up included. *)
SlotsBounded == IsFiniteSet(InFlight) /\ Cardinality(InFlight) <= limits.maxConcurrent

Holders == {q \in Requests : req[q].stage = "claimed" \/ req[q].handler # "none"}

(* A claim of the current term still holds its key, so nobody can claim it
   again under that term. *)
ClaimsHold ==
  \A q \in Holders :
    /\ req[q].claimTerm <= term[req[q].key]
    /\ req[q].claimTerm = term[req[q].key] => req[q].key \in seen

ClaimsDiffer ==
  \A p, q \in Holders :
    p # q /\ req[p].key = req[q].key => req[p].claimTerm # req[q].claimTerm

AuditFinite == IsFiniteSet(retained) /\ IsFiniteSet(reserved)

(* No lease is left unused; a released one belongs to a request that has yet
   to run its finalizer; and what was handed over was not fenced. *)
LeasesFollow ==
  \A l \in LeasesIn(authority) :
    /\ l.state # "unused"
    /\ l.state = "released" =>
         /\ req[l.op].spent
         /\ \/ req[l.op].stage = "running"
            \/ req[l.op].stage = "encoded" /\ Rechecked(req[l.op].response)
    /\ req[l.op].delivered => l.state # "fenced"

IInv ==
  /\ TypeOK /\ Phases /\ SlotsBounded /\ ClaimsHold /\ ClaimsDiffer
  /\ AuditFinite /\ AuditAccounts /\ LeasesFollow

(* What a first use of the accessor makes of its request: the rest of it and
   the other leases stay, and a copy is handed over only under a lease that
   was not fenced, taken at the epoch of the admission, of a secret that is
   still there. *)
Used(q, r) ==
  /\ r \in Request
  /\ r.stage = "running" /\ r.spent
  /\ r.key = req[q].key /\ r.claimTerm = req[q].claimTerm
  /\ r.handler = req[q].handler /\ r.slot = req[q].slot
  /\ authority' \in Authority
  /\ \A l \in LeasesIn(authority') :
       \/ l \in LeasesIn(authority) /\ (l.op = q => ~r.delivered)
       \/ l.op = q /\ l.state # "unused" /\ (r.delivered => l.state # "fenced")
  /\ r.delivered => r.observed = req[q].epoch /\ arena'.entry = "live" /\ ~r.late

LEMMA FirstUse ==
  ASSUME NEW q \in Requests, TypeOK, Phases, GetSecret(q)
  PROVE  /\ req[q].stage = "running" /\ ~req[q].spent /\ ~req[q].delivered
         /\ arena' \in [entry : {"live", "gone"}, epoch : Nat]
         /\ \E r \in Request : req' = [req EXCEPT ![q] = r] /\ Used(q, r)
<1>1. PICK provider \in Providers, strike \in Strikes, slow \in BOOLEAN,
           callback \in {"returns", "throws", "reenters"} :
        Release(q, provider, strike, slow, callback)
  BY DEF GetSecret
<1> DEFINE at(i) == IF i >= strike.at THEN Revoked(arena, strike.entry) ELSE arena
           r == [req[q] EXCEPT !.spent = TRUE]
           failed == [r EXCEPT !.failed = TRUE]
           refused == [failed EXCEPT !.refusal = TRUE]
           unreadable == [failed EXCEPT !.unreadable = TRUE]
           late == [r EXCEPT !.late = TRUE]
           delivered == [r EXCEPT !.delivered = TRUE, !.observed = at(2).epoch,
                                  !.failed = callback # "returns"]
           moved == arena.epoch # r.epoch \/ at(1).epoch # r.epoch
           minted == Mint(authority, q, at(1).epoch)
           consumed == Consume(minted, q, at(2).epoch)
           fenced == Fence(minted, q)
           unknown == MarkUnknown(consumed, q)
           dropped == DropIfUnused(minted, q)
           becomes(r2, leases) == req' = [req EXCEPT ![q] = r2] /\ authority' = leases
<1>2. /\ req[q] \in Request /\ req[q].stage = "running"
      /\ ~req[q].spent /\ ~req[q].late /\ ~req[q].failed
      /\ arena \in [entry : {"live", "gone"}, epoch : Nat] /\ authority \in Authority
  BY DEF TypeOK, GetSecret, Live
<1>3. ~req[q].delivered BY <1>2 DEF Phases
<1>4. strike.at \in 1..4 /\ strike.entry \in {"live", "gone"} BY DEF Strikes, NoStrike
<1>5. \A i \in 1..3 : at(i) \in [entry : {"live", "gone"}, epoch : Nat]
  BY <1>2, <1>4 DEF Revoked
<1>6. arena' = at(3) /\ at(3) \in [entry : {"live", "gone"}, epoch : Nat]
  BY <1>1, <1>5 DEF Release
<1> SUFFICES \E r2 \in Request : req' = [req EXCEPT ![q] = r2] /\ Used(q, r2)
  BY <1>2, <1>3, <1>6
<1>7. at(2).epoch \in Nat BY <1>5
<1> HIDE DEF at
<1> DEFINE Kept(r2) ==
             /\ r2 \in Request /\ r2.stage = "running" /\ r2.spent
             /\ r2.key = req[q].key /\ r2.claimTerm = req[q].claimTerm
             /\ r2.handler = req[q].handler /\ r2.slot = req[q].slot
<1>8. ASSUME NEW r2 \in {failed, refused, unreadable, late} PROVE Kept(r2) /\ ~r2.delivered
  <2>1. Kept(failed) /\ ~failed.delivered BY <1>2, <1>3 DEF Request
  <2>2. Kept(refused) /\ ~refused.delivered BY <1>2, <1>3 DEF Request
  <2>3. Kept(unreadable) /\ ~unreadable.delivered BY <1>2, <1>3 DEF Request
  <2>4. Kept(late) /\ ~late.delivered BY <1>2, <1>3 DEF Request
  <2> QED BY <1>8, <2>1, <2>2, <2>3, <2>4
<1>9. Kept(delivered) /\ ~delivered.late /\ delivered.observed = at(2).epoch
  BY <1>2, <1>7 DEF Request
<1>10. r.epoch = req[q].epoch BY <1>2 DEF Request
<1> DEFINE Outcomes == {failed, refused, unreadable, late}
<1>11. ASSUME NEW r2 \in Outcomes, NEW leases \in Authority, becomes(r2, leases),
              \A l \in LeasesIn(leases) :
                \/ l \in LeasesIn(authority)
                \/ l.op = q /\ l.state # "unused"
       PROVE  \E r3 \in Request : req' = [req EXCEPT ![q] = r3] /\ Used(q, r3)
  <2>1. Kept(r2) /\ ~r2.delivered BY <1>8, <1>11
  <2> HIDE DEF Outcomes
  <2>2. Used(q, r2) BY <1>11, <2>1 DEF Used
  <2> QED BY <1>11, <2>1, <2>2
<1> HIDE DEF failed, refused, unreadable, late, delivered, r
<1>12. ASSUME NEW r2 \in Outcomes, becomes(r2, authority)
       PROVE  \E r3 \in Request : req' = [req EXCEPT ![q] = r3] /\ Used(q, r3)
  <2>1. \A l \in LeasesIn(authority) : l \in LeasesIn(authority) OBVIOUS
  <2> HIDE DEF Outcomes
  <2> QED BY <1>2, <1>11, <1>12, <2>1
<1>13. CASE ~moved /\ ~MintRefused(authority, q)
  <2> DEFINE end == IF at(2).epoch = at(1).epoch THEN "released" ELSE "fenced"
  <2>1. dropped \in Authority /\ \A l \in LeasesIn(dropped) : l \in LeasesIn(authority) /\ l.op # q
    BY <1>2, <1>5, <1>13, Dropped
  <2>2. /\ fenced \in Authority
        /\ \A l \in LeasesIn(fenced) :
             (l \in LeasesIn(authority) /\ l.op # q) \/ (l.op = q /\ l.state = "fenced")
    BY <1>2, <1>5, <1>13, Fenced
  <2>3. /\ consumed \in Authority /\ StateOf(consumed, q) = end
        /\ \A l \in LeasesIn(consumed) :
             (l \in LeasesIn(authority) /\ l.op # q) \/ (l.op = q /\ l.state = end)
    BY <1>2, <1>5, <1>13, Consumed
  <2> HIDE DEF minted, consumed
  <2>4. /\ unknown \in Authority
        /\ \A l \in LeasesIn(unknown) :
             \/ l \in LeasesIn(authority) /\ l.op # q
             \/ l.op = q /\ (l.state = "delivery-unknown" \/ (l.state = end /\ end = "fenced"))
    <3>1. /\ unknown \in Authority
          /\ \A l \in LeasesIn(unknown) :
               \/ l \in LeasesIn(consumed) /\ ~(l.op = q /\ l.state = "released")
               \/ l.op = q /\ l.state = "delivery-unknown"
      BY <2>3, MarkedUnknown
    <3>2. end \in {"released", "fenced"} OBVIOUS
    <3> HIDE DEF unknown, end
    <3> QED BY <2>3, <3>1, <3>2
  <2> HIDE DEF unknown, dropped, fenced
  <2>5. ASSUME NEW r2 \in Outcomes, NEW leases \in {dropped, fenced, consumed, unknown},
               becomes(r2, leases)
        PROVE  \E r3 \in Request : req' = [req EXCEPT ![q] = r3] /\ Used(q, r3)
    <3>1. \A l \in LeasesIn(leases) :
             l \in LeasesIn(authority) \/ (l.op = q /\ l.state # "unused")
      <4>1. end # "unused" OBVIOUS
      <4> HIDE DEF end
      <4> QED BY <2>1, <2>2, <2>3, <2>4, <2>5, <4>1
    <3>2. leases \in Authority BY <2>1, <2>2, <2>3, <2>4
    <3> HIDE DEF Outcomes
    <3> QED BY <1>11, <2>5, <3>1, <3>2
  <2>6. ASSUME StateOf(consumed, q) = "released", at(3).entry = "live",
               NEW leases \in {consumed, unknown}, becomes(delivered, leases)
        PROVE  \E r3 \in Request : req' = [req EXCEPT ![q] = r3] /\ Used(q, r3)
    <3>1. end = "released" /\ at(2).epoch = at(1).epoch BY <2>3, <2>6
    <3>2. delivered.observed = req[q].epoch /\ arena'.entry = "live" /\ ~delivered.late
      BY <1>6, <1>9, <1>10, <1>13, <2>6, <3>1
    <3>3. \A l \in LeasesIn(leases) :
             \/ l \in LeasesIn(authority) /\ l.op # q
             \/ l.op = q /\ l.state # "unused" /\ l.state # "fenced"
      BY <2>3, <2>4, <3>1
    <3>4. leases \in Authority BY <2>3, <2>4
    <3>5. Used(q, delivered) BY <1>9, <2>6, <3>2, <3>3, <3>4 DEF Used
    <3> QED BY <1>9, <2>6, <3>5
  <2>7. \/ \E r2 \in Outcomes, leases \in {dropped, fenced, consumed, unknown, authority} :
             becomes(r2, leases)
        \/ /\ StateOf(consumed, q) = "released" /\ at(3).entry = "live"
           /\ \E leases \in {consumed, unknown} : becomes(delivered, leases)
    <3>1. /\ failed \in Outcomes /\ refused \in Outcomes
          /\ unreadable \in Outcomes /\ late \in Outcomes
      OBVIOUS
    <3> HIDE DEF Outcomes
    <3> QED BY <1>1, <3>1
      DEF Release, at, r, minted, consumed, fenced, unknown, dropped,
          failed, refused, unreadable, late, delivered
  <2> HIDE DEF Outcomes
  <2> QED BY <1>12, <2>5, <2>6, <2>7
<1>14. CASE moved \/ MintRefused(authority, q)
  <2>1. becomes(refused, authority) \/ becomes(unreadable, authority)
    BY <1>1, <1>14 DEF Release, at, r, failed, refused, unreadable
  <2> QED BY <1>12, <2>1
<1> QED BY <1>13, <1>14

LEMMA LeasesTyped == ASSUME NEW a \in Authority PROVE LeasesIn(a) \subseteq Lease
<1>1. a.leases \in Seq(Lease) BY DEF Authority
<1> QED BY <1>1 DEF LeasesIn

(* After the finalizer no lease of the request is released: one that was is
   now delivery-unknown, and a request that never used its secret has none. *)
LEMMA Noted ==
  ASSUME NEW q \in Requests, TypeOK, LeasesFollow
  PROVE  /\ NoteUnknown(q) \in Authority
         /\ \A l \in LeasesIn(NoteUnknown(q)) :
              \/ l \in LeasesIn(authority) /\ ~(l.op = q /\ l.state = "released")
              \/ l.op = q /\ l.state = "delivery-unknown"
<1>1. authority \in Authority BY DEF TypeOK
<1>2. CASE req[q].spent
  <2>1. NoteUnknown(q) = MarkUnknown(authority, q) BY <1>2 DEF NoteUnknown
  <2> QED BY <1>1, <2>1, MarkedUnknown
<1>3. CASE ~req[q].spent
  <2>1. NoteUnknown(q) = authority BY <1>3 DEF NoteUnknown
  <2> QED BY <1>1, <1>3, <2>1 DEF LeasesFollow
<1> QED BY <1>2, <1>3

(* What is encoded keeps what the request has come to, and forgets of its
   handler all but whether it runs, unless it succeeded. *)
LEMMA EncodedIs ==
  ASSUME NEW r \in Request, NEW response \in Responses
  PROVE  LET s == Encoded(r, response) IN
         /\ s \in Request /\ s.stage = "encoded" /\ s.response = response
         /\ s.key = r.key /\ s.claimTerm = r.claimTerm /\ s.slot = r.slot
         /\ s.spent = r.spent /\ s.delivered = r.delivered
         /\ s.handler = "none" <=> r.handler = "none"
         /\ s.handler = "running" <=> r.handler = "running"
         /\ response = "success" => s.handler = r.handler
<1> DEFINE handler == IF response = "success" THEN r.handler ELSE Over(r.handler)
           s == [r EXCEPT !.stage = "encoded", !.response = response, !.handler = handler,
                          !.refusal = FALSE, !.unreadable = FALSE,
                          !.epoch = 0, !.observed = 0]
<1>1. /\ handler \in Handlers /\ (response = "success" => handler = r.handler)
      /\ handler = "none" <=> r.handler = "none"
      /\ handler = "running" <=> r.handler = "running"
  BY DEF Request, Handlers, Over
<1>2. Encoded(r, response) = s BY DEF Encoded, Request
<1> HIDE DEF handler
<1>3. /\ s \in Request /\ s.stage = "encoded" /\ s.response = response
      /\ s.key = r.key /\ s.claimTerm = r.claimTerm /\ s.slot = r.slot
      /\ s.spent = r.spent /\ s.delivered = r.delivered /\ s.handler = handler
  BY <1>1 DEF Request, Stages
<1> HIDE DEF s
<1> QED BY <1>1, <1>2, <1>3

(* A step that takes no slot and answers nobody ... *)
Inside(q, r) ==
  /\ r \in Request /\ req' = [req EXCEPT ![q] = r]
  /\ UNCHANGED <<limits, reserved, retained, custody>>
  /\ r.slot => req[q].slot
  /\ r.stage = "answered" <=> req[q].stage = "answered"
  /\ r.stage = "new" <=> req[q].stage = "new"
  /\ r.stage = "answered" => r.response = req[q].response

(* ... and claims nothing. *)
Quiet(q, r) ==
  /\ Inside(q, r) /\ UNCHANGED <<seen, term>>
  /\ r.key = req[q].key /\ r.claimTerm = req[q].claimTerm
  /\ r.stage = "claimed" \/ r.handler # "none" => q \in Holders

Recorded ==
  {[request |-> q, status |-> req[q].response] :
     q \in {p \in Answered : req[p].response # "audit_unavailable"}}

LEMMA InsideStep ==
  ASSUME NEW q \in Requests, NEW r, IInv, Inside(q, r)
  PROVE  SlotsBounded' /\ AuditFinite' /\ AuditAccounts'
<1>1. req \in [Requests -> Request] /\ req'[q] = r /\ req' \in [Requests -> Request]
      /\ \A p \in Requests \ {q} : req'[p] = req[p]
  BY DEF IInv, TypeOK, Inside
<1>2. SlotsBounded'
  <2>1. InFlight' \in SUBSET InFlight BY <1>1 DEF InFlight, Inside
  <2>2. IsFiniteSet(InFlight) /\ Cardinality(InFlight) <= limits.maxConcurrent
    BY DEF IInv, SlotsBounded
  <2>3. limits.maxConcurrent \in Nat BY LimitAssumption DEF IInv, TypeOK
  <2>4. IsFiniteSet(InFlight') /\ Cardinality(InFlight') <= Cardinality(InFlight)
    BY <2>1, <2>2, FS_Subset
  <2>5. Cardinality(InFlight) \in Nat /\ Cardinality(InFlight') \in Nat
    BY <2>2, <2>4, FS_CardinalityType
  <2>6. limits' = limits BY DEF Inside
  <2> HIDE DEF InFlight
  <2> QED BY <2>2, <2>3, <2>4, <2>5, <2>6 DEF SlotsBounded
<1>3. /\ \A p \in Requests : req'[p].stage = "answered" <=> req[p].stage = "answered"
      /\ \A p \in Requests : req'[p].stage = "new" <=> req[p].stage = "new"
      /\ \A p \in Requests : req[p].stage = "answered" => req'[p].response = req[p].response
  BY <1>1 DEF Inside
<1>4. Recorded' = Recorded BY <1>3 DEF Recorded, Answered
<1>5. retained' = retained /\ custody' = custody /\ reserved' = reserved /\ limits' = limits
  BY DEF Inside
<1>6. {p \in Requests : req'[p].stage \notin {"new", "answered"}}
        = {p \in Requests : req[p].stage \notin {"new", "answered"}}
  BY <1>3
<1>7. AuditFinite' /\ AuditAccounts'
  BY <1>4, <1>5, <1>6 DEF IInv, AuditFinite, AuditAccounts, Recorded
<1> QED BY <1>2, <1>7

LEMMA QuietStep ==
  ASSUME NEW q \in Requests, NEW r, IInv, Quiet(q, r)
  PROVE  SlotsBounded' /\ ClaimsHold' /\ ClaimsDiffer' /\ AuditFinite' /\ AuditAccounts'
<1>1. req'[q] = r /\ \A p \in Requests \ {q} : req'[p] = req[p]
  BY DEF IInv, TypeOK, Quiet, Inside
<1>2. /\ Holders' \subseteq Holders
      /\ \A p \in Requests : req'[p].key = req[p].key /\ req'[p].claimTerm = req[p].claimTerm
  BY <1>1 DEF Holders, Quiet
<1>3. term' = term /\ seen' = seen BY DEF Quiet
<1>4. ClaimsHold' /\ ClaimsDiffer'
  BY <1>2, <1>3 DEF IInv, ClaimsHold, ClaimsDiffer, Holders
<1> QED BY <1>4, InsideStep DEF Quiet

(* A step that leaves the leases alone keeps what they say of its request,
   if its use of the secret and its way to the finalizer stay. *)
LEMMA LeasesKept ==
  ASSUME NEW q \in Requests, NEW r \in Request, TypeOK, LeasesFollow,
         req' = [req EXCEPT ![q] = r], authority' = authority,
         req[q].spent => r.spent, r.delivered => req[q].delivered,
         req[q].stage = "running" => r.stage = "running"
           \/ (r.stage = "encoded" /\ Rechecked(r.response)),
         req[q].stage = "encoded" => r.stage = "encoded" /\ r.response = req[q].response
  PROVE  LeasesFollow'
<1>1. /\ req'[q] = r /\ \A p \in Requests \ {q} : req'[p] = req[p]
      /\ LeasesIn(authority') = LeasesIn(authority)
  BY DEF TypeOK
<1>2. \A l \in LeasesIn(authority) : l.op \in Requests BY LeasesTyped DEF TypeOK, Lease
<1> QED BY <1>1, <1>2 DEF LeasesFollow

(* The same for a step with which the finalizer runs. *)
LEMMA LeasesFinalized ==
  ASSUME NEW q \in Requests, NEW r \in Request, TypeOK, LeasesFollow,
         req' = [req EXCEPT ![q] = r], authority' = NoteUnknown(q),
         r.delivered => req[q].delivered
  PROVE  LeasesFollow'
<1>1. req'[q] = r /\ \A p \in Requests \ {q} : req'[p] = req[p] BY DEF TypeOK
<1>2. \A l \in LeasesIn(authority') :
        \/ l \in LeasesIn(authority) /\ ~(l.op = q /\ l.state = "released")
        \/ l.op = q /\ l.state = "delivery-unknown"
  BY Noted
<1>3. \A l \in LeasesIn(authority') : l.op \in Requests BY Noted, LeasesTyped DEF Lease
<1> QED BY <1>1, <1>2, <1>3 DEF LeasesFollow

LEMMA ResumeStep == ASSUME NEW q \in Requests, IInv, Resume(q) PROVE IInv'
<1> DEFINE r == req[q]
           released == [r EXCEPT !.slot = FALSE]
           s == CASE r.stage = "unclaimed" -> Encoded(released, "refused")
                  [] r.stage = "claimed" /\ arena.entry # "live" ->
                       Encoded(released, "secret_unavailable")
                  [] OTHER -> [r EXCEPT !.stage = "running", !.handler = "running",
                                        !.epoch = arena.epoch]
<1>1. /\ r \in Request /\ r.stage \in {"claimed", "unclaimed"}
      /\ arena.epoch \in Nat
      /\ req' = [req EXCEPT ![q] = s]
      /\ UNCHANGED <<limits, reserved, retained, custody, seen, term, arena, authority>>
  BY DEF Resume, IInv, TypeOK
<1>2. /\ s \in Request
      /\ s.key = r.key /\ s.claimTerm = r.claimTerm /\ s.spent = r.spent /\ s.delivered = r.delivered
      /\ \/ s.stage = "encoded" /\ s.response \in Refusals /\ ~s.slot
            /\ (s.handler = "none" <=> r.handler = "none")
            /\ (s.handler = "running" <=> r.handler = "running")
         \/ r.stage = "claimed" /\ s.stage = "running" /\ s.handler = "running" /\ s.slot = r.slot
  <2>1. released \in Request /\ released.handler = r.handler /\ ~released.slot
        /\ released.key = r.key /\ released.claimTerm = r.claimTerm
        /\ released.spent = r.spent /\ released.delivered = r.delivered
    BY <1>1 DEF Request
  <2> HIDE DEF released
  <2>2. CASE r.stage = "unclaimed"
    <3>1. s = Encoded(released, "refused") BY <2>2
    <3> HIDE DEF s
    <3> QED BY <2>1, <3>1, EncodedIs DEF Responses, Refusals
  <2>3. CASE r.stage = "claimed" /\ arena.entry # "live"
    <3>1. s = Encoded(released, "secret_unavailable") BY <2>3
    <3> HIDE DEF s
    <3> QED BY <2>1, <3>1, EncodedIs DEF Responses, Refusals
  <2>4. CASE r.stage = "claimed" /\ arena.entry = "live"
    <3>1. s = [r EXCEPT !.stage = "running", !.handler = "running", !.epoch = arena.epoch]
      BY <2>4
    <3> QED BY <1>1, <2>4, <3>1 DEF Request, Stages, Handlers
  <2> QED BY <1>1, <2>2, <2>3, <2>4
<1> HIDE DEF s
<1>3. Quiet(q, s) BY <1>1, <1>2 DEF Quiet, Inside, Holders
<1>4. TypeOK' BY <1>1, <1>2 DEF IInv, TypeOK
<1>5. Phases' BY <1>1, <1>2 DEF IInv, TypeOK, Phases, Unstarted, Refusals
<1>6. LeasesFollow' BY <1>1, <1>2, LeasesKept DEF IInv
<1> QED BY <1>3, <1>4, <1>5, <1>6, QuietStep DEF IInv

LEMMA GetSecretStep == ASSUME NEW q \in Requests, IInv, GetSecret(q) PROVE IInv'
<1>1. /\ req[q].stage = "running" /\ ~req[q].spent /\ ~req[q].delivered
      /\ arena' \in [entry : {"live", "gone"}, epoch : Nat]
      /\ \E r \in Request : req' = [req EXCEPT ![q] = r] /\ Used(q, r)
  BY FirstUse DEF IInv
<1>2. PICK r \in Request : req' = [req EXCEPT ![q] = r] /\ Used(q, r) BY <1>1
<1>3. UNCHANGED <<limits, reserved, retained, custody, seen, term>> BY DEF GetSecret
<1>4. /\ r.stage = "running" /\ r.spent /\ r.key = req[q].key /\ r.claimTerm = req[q].claimTerm
      /\ r.handler = req[q].handler /\ r.slot = req[q].slot
      /\ authority' \in Authority
  BY <1>2 DEF Used
<1>5. Quiet(q, r) BY <1>1, <1>2, <1>3, <1>4 DEF Quiet, Inside, Holders
<1>6. TypeOK' BY <1>1, <1>2, <1>3, <1>4 DEF IInv, TypeOK
<1>7. Phases' BY <1>1, <1>2, <1>4 DEF IInv, TypeOK, Phases, Unstarted
<1>8. LeasesFollow'
  <2>1. req'[q] = r /\ \A p \in Requests \ {q} : req'[p] = req[p] BY <1>2 DEF IInv, TypeOK
  <2>2. \A l \in LeasesIn(authority') :
           \/ l \in LeasesIn(authority) /\ (l.op = q => ~r.delivered)
           \/ l.op = q /\ l.state # "unused" /\ (r.delivered => l.state # "fenced")
    BY <1>2 DEF Used
  <2>3. \A l \in LeasesIn(authority') : l.op \in Requests BY <1>4, LeasesTyped DEF Lease
  <2> QED BY <1>4, <2>1, <2>2, <2>3 DEF IInv, LeasesFollow
<1> QED BY <1>5, <1>6, <1>7, <1>8, QuietStep DEF IInv

(* The steps of the handler, of the slot and of the deadline. *)
LEMMA HandlerStep ==
  ASSUME NEW q \in Requests, IInv,
         GetSecretAgain(q) \/ LateCallback(q) \/ HandlerSettles(q) \/ ReleaseSlot(q)
           \/ DeadlinePasses(q)
  PROVE  IInv'
<1>1. req[q] \in Request BY DEF IInv, TypeOK
<1> DEFINE Local(r) ==
        /\ r.stage = req[q].stage /\ r.key = req[q].key /\ r.claimTerm = req[q].claimTerm
        /\ r.spent = req[q].spent /\ r.delivered = req[q].delivered
        /\ r.response = req[q].response
        /\ \/ r.handler = req[q].handler /\ r.slot = req[q].slot
           \/ r.handler = req[q].handler /\ ~r.slot /\ r.stage \in {"encoded", "answered"}
                /\ r.handler # "running"
           \/ r.slot = req[q].slot /\ req[q].handler = "running" /\ r.handler \notin {"none", "running"}
<1>2. PICK r \in Request : req' = [req EXCEPT ![q] = r] /\ Local(r)
  <2>1. CASE GetSecretAgain(q) \/ LateCallback(q)
    <3> DEFINE r == [req[q] EXCEPT !.failed = TRUE]
    <3>1. req' = [req EXCEPT ![q] = r] BY <2>1 DEF GetSecretAgain, LateCallback
    <3>2. r \in Request /\ Local(r) BY <1>1, <3>1 DEF Request
    <3> QED BY <3>1, <3>2
  <2>2. CASE HandlerSettles(q)
    <3>1. PICK end \in {"returned", "threw", "threw_refusal", "over"} :
            req' = [req EXCEPT ![q].handler = end]
      BY <2>2 DEF HandlerSettles
    <3> DEFINE r == [req[q] EXCEPT !.handler = end]
    <3>2. req' = [req EXCEPT ![q] = r] /\ req[q].handler = "running" BY <2>2, <3>1 DEF HandlerSettles
    <3>3. r \in Request /\ Local(r) BY <1>1, <3>2 DEF Request, Handlers
    <3> QED BY <3>2, <3>3
  <2>3. CASE ReleaseSlot(q)
    <3> DEFINE r == [req[q] EXCEPT !.slot = FALSE]
    <3>1. /\ req' = [req EXCEPT ![q] = r] /\ req[q].stage \in {"encoded", "answered"}
          /\ req[q].handler # "running"
      BY <2>3 DEF ReleaseSlot
    <3>2. r \in Request /\ Local(r) BY <1>1, <3>1 DEF Request
    <3> QED BY <3>1, <3>2
  <2>4. CASE DeadlinePasses(q)
    <3> DEFINE r == [req[q] EXCEPT !.late = TRUE]
    <3>1. req' = [req EXCEPT ![q] = r] BY <2>4 DEF DeadlinePasses
    <3>2. r \in Request /\ Local(r) BY <1>1, <3>1 DEF Request
    <3> QED BY <3>1, <3>2
  <2> QED BY <2>1, <2>2, <2>3, <2>4
<1>3. UNCHANGED <<limits, reserved, retained, custody, seen, term, arena, authority>>
  BY DEF GetSecretAgain, LateCallback, HandlerSettles, ReleaseSlot, DeadlinePasses
<1>4. Quiet(q, r) BY <1>2, <1>3 DEF Quiet, Inside, Holders
<1>5. TypeOK' BY <1>2, <1>3 DEF IInv, TypeOK
<1>6. Phases' BY <1>2 DEF IInv, TypeOK, Phases, Unstarted
<1>7. LeasesFollow' BY <1>2, <1>3, LeasesKept DEF IInv
<1> QED BY <1>4, <1>5, <1>6, <1>7, QuietStep DEF IInv

(* What the kernel makes of a request when it stops waiting for its handler. *)
Concluded(q, r) ==
  /\ r.stage = "encoded" /\ r.key = req[q].key /\ r.claimTerm = req[q].claimTerm
  /\ r.spent = req[q].spent /\ r.delivered = req[q].delivered
  /\ r.handler = "none" <=> req[q].handler = "none"
  /\ r.handler = "running" <=> req[q].handler = "running"
  /\ r.slot => req[q].slot
  /\ req[q].handler = "running" => r.slot = req[q].slot
  /\ r.response = "success" => r.handler = "returned"
  /\ r.response # "audit_unavailable"

LEMMA Conclusion ==
  ASSUME NEW q \in Requests, IInv, Conclude(q)
  PROVE  \E r \in Request :
           /\ req' = [req EXCEPT ![q] = r] /\ Concluded(q, r)
           /\ authority' = NoteUnknown(q) \/ (authority' = authority /\ r.response = "success")
<1> DEFINE released == [req[q] EXCEPT !.slot = FALSE]
           late == Encoded(req[q], "deadline_exceeded")
           refused == Encoded(released, "secret_unavailable")
           failed == Encoded(released, "internal_error")
           success == Encoded(released, "success")
           slowed == [released EXCEPT !.late = TRUE]
           slow == Encoded(slowed, "deadline_exceeded")
<1>1. req[q] \in Request /\ req[q].stage = "running" BY DEF IInv, TypeOK, Conclude
<1> USE DEF Concluded
<1>0. /\ released \in Request /\ slowed \in Request
      /\ \A r \in {released, slowed} :
           /\ r.key = req[q].key /\ r.claimTerm = req[q].claimTerm
           /\ r.spent = req[q].spent /\ r.delivered = req[q].delivered
           /\ r.handler = req[q].handler /\ ~r.slot
  BY <1>1 DEF Request
<1> HIDE DEF released, slowed
<1>2. late \in Request /\ Concluded(q, late)
  BY <1>1, EncodedIs DEF Responses, Refusals
<1>3. ASSUME req[q].handler # "running" PROVE refused \in Request /\ Concluded(q, refused)
  BY <1>0, <1>1, <1>3, EncodedIs DEF Responses, Refusals
<1>4. ASSUME req[q].handler # "running" PROVE failed \in Request /\ Concluded(q, failed)
  BY <1>0, <1>1, <1>4, EncodedIs DEF Responses, Refusals
<1>5. ASSUME req[q].handler = "returned"
      PROVE  success \in Request /\ Concluded(q, success) /\ success.response = "success"
  BY <1>0, <1>1, <1>5, EncodedIs DEF Responses, Refusals
<1>6. ASSUME req[q].handler # "running" PROVE slow \in Request /\ Concluded(q, slow)
  BY <1>0, <1>1, <1>6, EncodedIs DEF Responses, Refusals
<1>7. \/ req' = [req EXCEPT ![q] = late] /\ authority' = NoteUnknown(q)
      \/ /\ req[q].handler # "running" /\ authority' = NoteUnknown(q)
         /\ \/ req' = [req EXCEPT ![q] = refused] \/ req' = [req EXCEPT ![q] = failed]
            \/ req' = [req EXCEPT ![q] = slow]
      \/ /\ req[q].handler = "returned" /\ req' = [req EXCEPT ![q] = success]
         /\ authority' = authority
  BY DEF Conclude, released, slowed
<1> HIDE DEF late, refused, failed, success, slow, Concluded
<1> QED BY <1>2, <1>3, <1>4, <1>5, <1>6, <1>7

LEMMA ConcludeStep == ASSUME NEW q \in Requests, IInv, Conclude(q) PROVE IInv'
<1> USE DEF Concluded
<1>1. req[q] \in Request /\ req[q].stage = "running" BY DEF IInv, TypeOK, Conclude
<1>2. PICK r \in Request :
        /\ req' = [req EXCEPT ![q] = r] /\ Concluded(q, r)
        /\ authority' = NoteUnknown(q) \/ (authority' = authority /\ r.response = "success")
  BY Conclusion
<1>3. UNCHANGED <<limits, reserved, retained, custody, seen, term, arena>> BY DEF Conclude
<1>4. Quiet(q, r) BY <1>1, <1>2, <1>3 DEF Quiet, Inside, Holders
<1>5. TypeOK' BY <1>2, <1>3, Noted DEF IInv, TypeOK
<1>6. Phases' BY <1>1, <1>2 DEF IInv, TypeOK, Phases, Unstarted
<1>7. LeasesFollow'
  <2>1. CASE authority' = NoteUnknown(q) BY <1>2, <2>1, LeasesFinalized DEF IInv
  <2>2. CASE authority' = authority /\ r.response = "success"
    BY <1>1, <1>2, <2>2, LeasesKept DEF IInv, Rechecked
  <2> QED BY <1>2, <2>1, <2>2
<1> QED BY <1>4, <1>5, <1>6, <1>7, QuietStep DEF IInv

(* A claim finds its key free, so no holder has its term. *)
LEMMA ClaimStep == ASSUME NEW q \in Requests, IInv, Claim(q) PROVE IInv'
<1> DEFINE key == req[q].key
<1>1. /\ req[q] \in Request /\ req[q].stage = "claiming" /\ key \in Keys /\ req[q].slot
      /\ req[q].handler = "none" /\ ~req[q].spent /\ ~req[q].delivered
      /\ q \notin Holders
  BY DEF IInv, TypeOK, Claim, Phases, Unstarted, Holders
<1>2. UNCHANGED <<limits, reserved, retained, custody, term, arena, authority>> BY DEF Claim
<1> DEFINE claimed == [req[q] EXCEPT !.stage = "claimed", !.claimTerm = term[key]]
           unclaimed == [req[q] EXCEPT !.stage = "unclaimed"]
<1>3. \/ key \notin seen /\ req' = [req EXCEPT ![q] = claimed] /\ seen' = seen \cup {key}
      \/ req' = [req EXCEPT ![q] = unclaimed] /\ seen' \in {seen, seen \cup {key}}
  BY DEF Claim
<1>4. term[key] \in Nat BY <1>1 DEF IInv, TypeOK
<1>5. /\ claimed \in Request /\ claimed.stage = "claimed" /\ claimed.claimTerm = term[key]
      /\ claimed.key = key /\ claimed.handler = "none" /\ claimed.slot
      /\ ~claimed.spent /\ ~claimed.delivered
  BY <1>1, <1>4 DEF Request, Stages
<1>6. /\ unclaimed \in Request /\ unclaimed.stage = "unclaimed"
      /\ unclaimed.key = key /\ unclaimed.claimTerm = req[q].claimTerm
      /\ unclaimed.handler = "none" /\ unclaimed.slot
      /\ ~unclaimed.spent /\ ~unclaimed.delivered
  BY <1>1 DEF Request, Stages
<1> HIDE DEF claimed, unclaimed
<1>7. ASSUME NEW r \in {claimed, unclaimed}, req' = [req EXCEPT ![q] = r],
             seen' \in {seen, seen \cup {key}}
      PROVE  /\ Inside(q, r) /\ TypeOK' /\ Phases' /\ LeasesFollow'
             /\ req'[q] = r /\ \A p \in Requests \ {q} : req'[p] = req[p]
  <2>1. /\ r \in Request /\ r.stage \in {"claimed", "unclaimed"} /\ r.key = key
        /\ r.handler = "none" /\ r.slot /\ ~r.spent /\ ~r.delivered
    BY <1>5, <1>6, <1>7
  <2>2. Inside(q, r) BY <1>1, <1>2, <1>7, <2>1 DEF Inside
  <2>3. TypeOK' BY <1>1, <1>2, <1>7, <2>1 DEF IInv, TypeOK
  <2>4. req'[q] = r /\ \A p \in Requests \ {q} : req'[p] = req[p]
    BY <1>7 DEF IInv, TypeOK
  <2>5. Phases' BY <1>1, <2>1, <2>4 DEF IInv, Phases, Unstarted
  <2>6. LeasesFollow' BY <1>1, <1>2, <1>7, <2>1, LeasesKept DEF IInv
  <2> QED BY <2>2, <2>3, <2>4, <2>5, <2>6
<1>8. CASE key \notin seen /\ req' = [req EXCEPT ![q] = claimed] /\ seen' = seen \cup {key}
  <2>1. /\ Inside(q, claimed) /\ TypeOK' /\ Phases' /\ LeasesFollow'
        /\ req'[q] = claimed /\ \A p \in Requests \ {q} : req'[p] = req[p]
    BY <1>7, <1>8
  <2>2. \A p \in Holders : req[p].key = key => req[p].claimTerm < term[key]
    <3>1. \A p \in Holders : req[p].claimTerm \in Nat BY DEF IInv, TypeOK, Request, Holders
    <3> QED BY <1>4, <1>8, <3>1 DEF IInv, ClaimsHold
  <2>3. Holders' = Holders \cup {q} BY <1>5, <2>1 DEF Holders
  <2>4. ClaimsHold' BY <1>1, <1>2, <1>4, <1>5, <1>8, <2>1, <2>3 DEF IInv, ClaimsHold, Holders
  <2>5. ClaimsDiffer' BY <1>1, <1>4, <1>5, <2>1, <2>2, <2>3 DEF IInv, ClaimsDiffer, Holders
  <2> QED BY <2>1, <2>4, <2>5, InsideStep DEF IInv
<1>9. CASE req' = [req EXCEPT ![q] = unclaimed] /\ seen' \in {seen, seen \cup {key}}
  <2>1. /\ Inside(q, unclaimed) /\ TypeOK' /\ Phases' /\ LeasesFollow'
        /\ req'[q] = unclaimed /\ \A p \in Requests \ {q} : req'[p] = req[p]
    BY <1>7, <1>9
  <2>2. Holders' = Holders BY <1>1, <1>6, <2>1 DEF Holders
  <2>3. ClaimsHold' /\ ClaimsDiffer'
    BY <1>1, <1>2, <1>9, <2>1, <2>2 DEF IInv, ClaimsHold, ClaimsDiffer, Holders
  <2> QED BY <2>1, <2>3, InsideStep DEF IInv
<1> QED BY <1>3, <1>8, <1>9

LEMMA OneMore ==
  ASSUME NEW S, NEW x, IsFiniteSet(S)
  PROVE  /\ IsFiniteSet(S \cup {x}) /\ Cardinality(S \cup {x}) \in Nat
         /\ Cardinality(S \cup {x}) <= Cardinality(S) + 1
<1>1. IsFiniteSet(S \cup {x}) /\ Cardinality(S \cup {x})
        = IF x \in S THEN Cardinality(S) ELSE Cardinality(S) + 1
  BY FS_AddElement
<1>2. Cardinality(S) \in Nat BY FS_CardinalityType
<1> QED BY <1>1, <1>2

LEMMA ArriveStep ==
  ASSUME NEW q \in Requests, NEW key \in Keys, IInv, Arrive(q, key) PROVE IInv'
<1>1. /\ req[q] \in Request /\ req[q].stage = "new" /\ req[q].handler = "none"
      /\ ~req[q].spent /\ ~req[q].delivered
      /\ limits.maxConcurrent \in Nat /\ limits.auditCapacity \in Nat
  BY LimitAssumption DEF IInv, TypeOK, Arrive, Phases, Unstarted
<1>2. UNCHANGED <<limits, retained, custody, seen, term, arena, authority>> BY DEF Arrive
<1> DEFINE r == [req[q] EXCEPT !.key = key]
           turned == [r EXCEPT !.stage = "answered", !.response = "audit_unavailable"]
           refused == Encoded(r, "refused")
           claiming == [r EXCEPT !.stage = "claiming", !.slot = TRUE]
           New(s) == /\ s \in Request /\ s.key = key /\ s.handler = "none"
                     /\ ~s.spent /\ ~s.delivered
<1>3. /\ New(turned) /\ turned.stage = "answered" /\ turned.response = "audit_unavailable"
      /\ turned.slot = req[q].slot
  BY <1>1 DEF Request, Stages, Responses
<1>4. New(refused) /\ refused.stage = "encoded" /\ refused.response = "refused"
      /\ refused.slot = req[q].slot
  <2>1. r \in Request /\ r.key = key /\ r.handler = "none" /\ ~r.spent /\ ~r.delivered
        /\ r.slot = req[q].slot
    BY <1>1 DEF Request
  <2> HIDE DEF r
  <2> QED BY <2>1, EncodedIs DEF Responses, Refusals
<1>5. New(claiming) /\ claiming.stage = "claiming" /\ claiming.slot
  BY <1>1 DEF Request, Stages
<1>6. \/ ~HasRoom /\ reserved' = reserved /\ req' = [req EXCEPT ![q] = turned]
      \/ /\ HasRoom /\ reserved' = reserved \cup {q}
         /\ \/ req' = [req EXCEPT ![q] = refused]
            \/ /\ Cardinality(InFlight) < limits.maxConcurrent
               /\ req' = [req EXCEPT ![q] = claiming]
  BY DEF Arrive
<1> HIDE DEF turned, refused, claiming
<1>7. PICK s \in {turned, refused, claiming} : req' = [req EXCEPT ![q] = s] BY <1>6
<1>8. req'[q] = s /\ \A p \in Requests \ {q} : req'[p] = req[p] BY <1>7 DEF IInv, TypeOK
<1>9. New(s) /\ s.stage \in {"answered", "encoded", "claiming"} BY <1>3, <1>4, <1>5
<1>10. TypeOK' BY <1>2, <1>6, <1>7, <1>9 DEF IInv, TypeOK
<1>11. Phases'
  <2>1. /\ s.stage = "claiming" => s.slot
        /\ s.stage = "encoded" => s.response = "refused"
    BY <1>3, <1>4, <1>5
  <2> QED BY <1>8, <1>9, <2>1 DEF IInv, Phases, Unstarted
<1>12. ClaimsHold' /\ ClaimsDiffer'
  <2>1. Holders' = Holders BY <1>1, <1>8, <1>9 DEF Holders
  <2> QED BY <1>1, <1>2, <1>8, <2>1 DEF IInv, ClaimsHold, ClaimsDiffer, Holders
<1>13. LeasesFollow' BY <1>1, <1>2, <1>7, <1>9, LeasesKept DEF IInv
<1>14. SlotsBounded'
  <2>1. IsFiniteSet(InFlight) /\ Cardinality(InFlight) <= limits.maxConcurrent
        /\ Cardinality(InFlight) \in Nat
    BY FS_CardinalityType DEF IInv, SlotsBounded
  <2>2. CASE s.slot = req[q].slot
    <3>1. InFlight' = InFlight BY <1>8, <2>2 DEF InFlight
    <3> QED BY <1>2, <2>1, <3>1 DEF SlotsBounded
  <2>3. CASE Cardinality(InFlight) < limits.maxConcurrent /\ s = claiming
    <3>1. InFlight' = InFlight \cup {q} BY <1>5, <1>8, <2>3 DEF InFlight
    <3>2. /\ IsFiniteSet(InFlight \cup {q}) /\ Cardinality(InFlight \cup {q}) \in Nat
          /\ Cardinality(InFlight \cup {q}) <= Cardinality(InFlight) + 1
      BY <2>1, OneMore
    <3> QED BY <1>1, <1>2, <2>1, <2>3, <3>1, <3>2 DEF SlotsBounded
  <2> QED BY <1>3, <1>4, <1>6, <1>7, <1>8, <2>2, <2>3 DEF IInv, TypeOK
<1>15. AuditFinite' /\ AuditAccounts'
  <2>1. /\ IsFiniteSet(retained) /\ IsFiniteSet(reserved)
        /\ Cardinality(retained) \in Nat /\ Cardinality(reserved) \in Nat
    BY FS_CardinalityType DEF IInv, AuditFinite
  <2>2. Recorded' = Recorded
    <3>1. \A p \in Requests : req'[p].stage = "answered" /\ req'[p].response # "audit_unavailable"
            <=> req[p].stage = "answered" /\ req[p].response # "audit_unavailable"
      BY <1>1, <1>3, <1>4, <1>5, <1>8
    <3>2. \A p \in Requests : req[p].stage = "answered" => req'[p] = req[p] BY <1>1, <1>8
    <3> QED BY <3>1, <3>2 DEF Recorded, Answered
  <2>3. reserved' = {p \in Requests : req'[p].stage \notin {"new", "answered"}}
    <3>1. reserved = {p \in Requests : req[p].stage \notin {"new", "answered"}}
      BY DEF IInv, AuditAccounts
    <3>2. CASE req' = [req EXCEPT ![q] = turned] /\ reserved' = reserved
      <4>1. req'[q].stage = "answered" BY <1>3, <3>2 DEF IInv, TypeOK
      <4> QED BY <1>1, <1>8, <3>1, <3>2, <4>1
    <3>3. CASE reserved' = reserved \cup {q} /\ req'[q].stage \in {"encoded", "claiming"}
      BY <1>1, <1>8, <3>1, <3>3
    <3> QED BY <1>4, <1>5, <1>6, <3>2, <3>3 DEF IInv, TypeOK
  <2>4. IsFiniteSet(reserved') /\ Cardinality(retained) + Cardinality(reserved') <= limits.auditCapacity
    <3>1. CASE reserved' = reserved BY <2>1, <3>1 DEF IInv, AuditAccounts
    <3>2. CASE HasRoom /\ reserved' = reserved \cup {q}
      <4>1. /\ IsFiniteSet(reserved \cup {q}) /\ Cardinality(reserved \cup {q}) \in Nat
            /\ Cardinality(reserved \cup {q}) <= Cardinality(reserved) + 1
        BY <2>1, OneMore
      <4> QED BY <1>1, <2>1, <3>2, <4>1 DEF HasRoom
    <3> QED BY <1>6, <3>1, <3>2
  <2> QED BY <1>2, <2>1, <2>2, <2>3, <2>4 DEF IInv, AuditFinite, AuditAccounts, Recorded
<1> QED BY <1>10, <1>11, <1>12, <1>13, <1>14, <1>15 DEF IInv

(* The audit event of an answer takes the place of its reservation. *)
LEMMA PublishStep == ASSUME NEW q \in Requests, IInv, Publish(q) PROVE IInv'
<1> DEFINE r == req[q]
           response == CASE Rechecked(r.response) /\ r.failed -> "internal_error"
                         [] Rechecked(r.response) /\ ~r.failed /\ r.late -> "deadline_exceeded"
                         [] OTHER -> r.response
           s == [NewRequest EXCEPT !.stage = "answered", !.response = response,
                   !.key = r.key, !.claimTerm = r.claimTerm, !.delivered = r.delivered,
                   !.handler = Over(r.handler), !.slot = r.slot]
           event == [request |-> q, status |-> response]
<1>1. /\ r \in Request /\ r.stage = "encoded" /\ r.response # "audit_unavailable"
      /\ r.key \in Keys /\ (r.handler = "running" => r.slot)
  BY DEF IInv, TypeOK, Publish, Phases
<1>2. /\ req' = [req EXCEPT ![q] = s]
      /\ reserved' = reserved \ {q} /\ retained' = retained \cup {event}
      /\ authority' = IF Rechecked(r.response) THEN NoteUnknown(q) ELSE authority
      /\ UNCHANGED <<limits, custody, seen, term, arena>>
  BY DEF Publish
<1>3. response \in Responses /\ response # "audit_unavailable"
  <2>1. response \in {"internal_error", "deadline_exceeded", r.response} OBVIOUS
  <2> QED BY <1>1, <2>1 DEF Request, Responses, Refusals
<1> HIDE DEF response
<1>4. /\ s \in Request /\ s.stage = "answered" /\ s.response = response
      /\ s.key = r.key /\ s.claimTerm = r.claimTerm /\ s.delivered = r.delivered
      /\ (s.handler = "none" <=> r.handler = "none")
      /\ (s.handler = "running" <=> r.handler = "running") /\ s.slot = r.slot
  <2> DEFINE handler == Over(r.handler)
  <2>1. /\ handler \in Handlers
        /\ handler = "none" <=> r.handler = "none"
        /\ handler = "running" <=> r.handler = "running"
    BY <1>1 DEF Request, Handlers, Over
  <2>2. s = [NewRequest EXCEPT !.stage = "answered", !.response = response,
               !.key = r.key, !.claimTerm = r.claimTerm, !.delivered = r.delivered,
               !.handler = handler, !.slot = r.slot]
    OBVIOUS
  <2> HIDE DEF handler, s
  <2>3. /\ s.stage = "answered" /\ s.response = response /\ s.key = r.key
        /\ s.claimTerm = r.claimTerm /\ s.delivered = r.delivered
        /\ s.handler = handler /\ s.slot = r.slot
    BY <2>2 DEF NewRequest
  <2>4. s \in Request BY <1>1, <1>3, <2>1, <2>2 DEF Request, NewRequest, Stages
  <2> QED BY <2>1, <2>3, <2>4
<1> HIDE DEF s
<1>5. req'[q] = s /\ \A p \in Requests \ {q} : req'[p] = req[p] BY <1>2 DEF IInv, TypeOK
<1>6. TypeOK' BY <1>2, <1>4, Noted DEF IInv, TypeOK
<1>7. Phases' BY <1>1, <1>4, <1>5 DEF IInv, Phases, Unstarted
<1>8. ClaimsHold' /\ ClaimsDiffer'
  <2>1. Holders' = Holders BY <1>1, <1>4, <1>5 DEF Holders
  <2> QED BY <1>2, <1>4, <1>5, <2>1 DEF IInv, ClaimsHold, ClaimsDiffer, Holders
<1>9. SlotsBounded'
  <2>1. InFlight' = InFlight BY <1>4, <1>5 DEF InFlight
  <2> QED BY <1>2, <2>1 DEF IInv, SlotsBounded
<1>10. LeasesFollow'
  <2>1. CASE Rechecked(r.response) BY <1>2, <1>4, <2>1, LeasesFinalized DEF IInv
  <2>2. CASE ~Rechecked(r.response)
    <3>1. authority' = authority /\ LeasesIn(authority') = LeasesIn(authority) BY <1>2, <2>2
    <3>2. \A l \in LeasesIn(authority) : l.op \in Requests BY LeasesTyped DEF IInv, TypeOK, Lease
    <3> QED BY <1>1, <1>4, <1>5, <2>2, <3>1, <3>2 DEF IInv, LeasesFollow
  <2> QED BY <2>1, <2>2
<1>11. AuditFinite' /\ AuditAccounts'
  <2>1. /\ IsFiniteSet(retained) /\ IsFiniteSet(reserved)
        /\ Cardinality(retained) \in Nat /\ Cardinality(reserved) \in Nat
        /\ limits.auditCapacity \in Nat
    BY FS_CardinalityType, LimitAssumption DEF IInv, TypeOK, AuditFinite
  <2>2. /\ retained \cap custody = {} /\ retained \cup custody = Recorded
        /\ reserved = {p \in Requests : req[p].stage \notin {"new", "answered"}}
        /\ Cardinality(retained) + Cardinality(reserved) <= limits.auditCapacity
    BY DEF IInv, AuditAccounts, Recorded
  <2>3. Recorded' = Recorded \cup {event}
    <3>1. Answered' = Answered \cup {q} BY <1>4, <1>5 DEF Answered
    <3>2. q \notin Answered BY <1>1 DEF Answered
    <3>3. \A p \in Answered : req'[p] = req[p] BY <1>5, <3>2 DEF Answered
    <3> QED BY <1>3, <1>4, <1>5, <3>1, <3>2, <3>3 DEF Recorded
  <2>4. event \notin custody
    <3>1. \A e \in Recorded : e.request \in Answered BY DEF Recorded
    <3>2. q \notin Answered BY <1>1 DEF Answered
    <3> QED BY <2>2, <3>1, <3>2
  <2>5. reserved' = {p \in Requests : req'[p].stage \notin {"new", "answered"}}
    BY <1>2, <1>4, <1>5, <2>2
  <2>6. /\ IsFiniteSet(retained') /\ Cardinality(retained') \in Nat
        /\ Cardinality(retained') <= Cardinality(retained) + 1
    BY <1>2, <2>1, OneMore
  <2>7. IsFiniteSet(reserved') /\ Cardinality(reserved') = Cardinality(reserved) - 1
    <3>1. q \in reserved BY <1>1, <2>2
    <3> QED BY <1>2, <2>1, <3>1, FS_RemoveElement
  <2> HIDE DEF event
  <2>8. Cardinality(retained') + Cardinality(reserved') <= limits'.auditCapacity
    BY <1>2, <2>1, <2>2, <2>6, <2>7
  <2>9. retained' \cap custody' = {} /\ retained' \cup custody' = Recorded'
    BY <1>2, <2>2, <2>3, <2>4
  <2> QED BY <2>5, <2>6, <2>7, <2>8, <2>9 DEF AuditFinite, AuditAccounts, Recorded
<1> QED BY <1>6, <1>7, <1>8, <1>9, <1>10, <1>11 DEF IInv

LEMMA OutsideStep ==
  ASSUME IInv, (\E key \in Keys : KeyExpires(key)) \/ Revoke \/ Put \/ TakeDrained
  PROVE  IInv'
<1>1. UNCHANGED <<limits, req, reserved, authority>>
  BY DEF KeyExpires, Revoke, Put, TakeDrained
<1>2. ASSUME NEW key \in Keys, KeyExpires(key)
      PROVE  /\ seen' = seen \ {key} /\ term' = [term EXCEPT ![key] = @ + 1]
             /\ UNCHANGED <<retained, custody, arena>>
  BY <1>2, Zenon DEF KeyExpires
<1>3. TypeOK'
  <2>1. CASE \E key \in Keys : KeyExpires(key) BY <1>1, <1>2, <2>1 DEF IInv, TypeOK
  <2>2. CASE Revoke \/ Put \/ TakeDrained
    BY <1>1, <2>2 DEF IInv, TypeOK, Revoke, Revoked, Put, TakeDrained
  <2> QED BY <2>1, <2>2
<1>4. Phases' /\ SlotsBounded' /\ LeasesFollow'
  BY <1>1 DEF IInv, Phases, SlotsBounded, InFlight, LeasesFollow, LeasesIn
<1>5. ClaimsHold' /\ ClaimsDiffer'
  <2>1. \A p \in Holders : req[p].key \in Keys /\ req[p].claimTerm \in Nat
    BY DEF IInv, TypeOK, Phases, Request, Holders, Unstarted
  <2>2. Holders' = Holders BY <1>1 DEF Holders
  <2>3. ASSUME NEW key \in Keys, KeyExpires(key) PROVE ClaimsHold'
    <3>1. /\ term \in [Keys -> Nat] /\ term' = [term EXCEPT ![key] = @ + 1]
          /\ seen' = seen \ {key}
      BY <1>2, <2>3 DEF IInv, TypeOK
    <3> QED BY <1>1, <2>1, <2>2, <3>1 DEF IInv, ClaimsHold
  <2>4. ASSUME UNCHANGED <<seen, term>> PROVE ClaimsHold'
    BY <1>1, <2>2, <2>4 DEF IInv, ClaimsHold
  <2>5. (Revoke \/ Put \/ TakeDrained) => UNCHANGED <<seen, term>> BY DEF Revoke, Put, TakeDrained
  <2>6. ClaimsDiffer' BY <1>1, <2>2 DEF IInv, ClaimsDiffer
  <2> QED BY <2>3, <2>4, <2>5, <2>6
<1>6. AuditFinite' /\ AuditAccounts'
  <2>1. Recorded' = Recorded BY <1>1 DEF Recorded, Answered
  <2>2. CASE UNCHANGED <<retained, custody>>
    BY <1>1, <2>1, <2>2 DEF IInv, AuditFinite, AuditAccounts, Recorded
  <2>3. CASE TakeDrained
    <3>1. /\ retained' \subseteq retained /\ retained' \cup custody' = retained \cup custody
          /\ retained' \cap custody' \subseteq retained \cap custody
      BY <2>3 DEF TakeDrained
    <3>2. /\ IsFiniteSet(retained) /\ IsFiniteSet(reserved)
          /\ Cardinality(retained) \in Nat /\ Cardinality(reserved) \in Nat
          /\ limits.auditCapacity \in Nat
      BY FS_CardinalityType, LimitAssumption DEF IInv, TypeOK, AuditFinite
    <3>3. IsFiniteSet(retained') /\ Cardinality(retained') <= Cardinality(retained)
      BY <3>1, <3>2, FS_Subset
    <3>4. Cardinality(retained') \in Nat BY <3>3, FS_CardinalityType
    <3> QED BY <1>1, <2>1, <3>1, <3>2, <3>3, <3>4 DEF IInv, AuditFinite, AuditAccounts, Recorded
  <2> QED BY <1>2, <2>2, <2>3 DEF Revoke, Put
<1> QED BY <1>3, <1>4, <1>5, <1>6 DEF IInv

LEMMA InitIInv == Init => IInv
<1> SUFFICES ASSUME Init PROVE IInv OBVIOUS
<1>1. NewRequest \in Request
  BY DEF NewRequest, Request, Stages, Handlers, Responses
<1>2. authority = [leases |-> <<>>, retired |-> <<>>] BY DEF Init, NoLeases
<1>3. authority \in Authority /\ LeasesIn(authority) = {} BY <1>2 DEF Authority, LeasesIn
<1>4. TypeOK BY <1>1, <1>3 DEF Init, TypeOK
<1>5. \A q \in Requests : req[q] = NewRequest BY DEF Init
<1>6. Phases BY <1>5 DEF Phases, NewRequest, Unstarted
<1>7. InFlight = {} /\ Holders = {} /\ Answered = {}
  BY <1>5 DEF InFlight, Holders, Answered, NewRequest
<1>8. limits.maxConcurrent \in Nat /\ limits.auditCapacity \in Nat
  BY <1>4, LimitAssumption DEF TypeOK
<1>9. SlotsBounded BY <1>7, <1>8, FS_EmptySet DEF SlotsBounded
<1>10. ClaimsHold /\ ClaimsDiffer BY <1>7 DEF ClaimsHold, ClaimsDiffer
<1>11. AuditFinite BY FS_EmptySet DEF Init, AuditFinite
<1>12. AuditAccounts
  <2>1. Cardinality(retained) + Cardinality(reserved) <= limits.auditCapacity
    BY <1>8, FS_EmptySet DEF Init
  <2>2. reserved = {q \in Requests : req[q].stage \notin {"new", "answered"}}
    BY <1>5 DEF Init, NewRequest
  <2> QED BY <1>7, <2>1, <2>2 DEF Init, AuditAccounts
<1>13. LeasesFollow BY <1>3 DEF LeasesFollow
<1> QED BY <1>4, <1>6, <1>9, <1>10, <1>11, <1>12, <1>13 DEF IInv

LEMMA StepIInv == ASSUME IInv, [Next]_vars PROVE IInv'
<1>1. ASSUME NEW q \in Requests, Step(q) PROVE IInv'
  BY <1>1, ArriveStep, ClaimStep, ResumeStep, GetSecretStep, HandlerStep, ConcludeStep, PublishStep
  DEF Step
<1>2. CASE (\E key \in Keys : KeyExpires(key)) \/ Revoke \/ Put \/ TakeDrained
  BY <1>2, OutsideStep
<1>3. CASE UNCHANGED vars
  BY <1>3 DEF vars, IInv, TypeOK, Phases, SlotsBounded, InFlight, ClaimsHold, ClaimsDiffer, Holders,
              AuditFinite, AuditAccounts, Answered, LeasesFollow, LeasesIn
<1> QED BY <1>1, <1>2, <1>3 DEF Next

(* The invariant holds in every state of the kernel. *)
THEOREM Invariance == Spec => []IInv
BY InitIInv, StepIInv, PTL DEF Spec

(* However many requests arrive and however long their handlers outlive the
   deadline, no more handlers run than the route's limit (the concurrency
   gate, and the permit a timed-out handler keeps). *)
THEOREM BoundedHandlers == Spec => []HandlersBounded
<1>1. ASSUME IInv PROVE HandlersBounded
  <2> DEFINE running == {q \in Requests : req[q].handler = "running"}
  <2>1. running \in SUBSET InFlight BY <1>1 DEF IInv, Phases, InFlight
  <2>2. /\ IsFiniteSet(InFlight) /\ Cardinality(InFlight) <= limits.maxConcurrent
        /\ limits.maxConcurrent \in Nat
    BY <1>1, LimitAssumption DEF IInv, TypeOK, SlotsBounded
  <2>3. IsFiniteSet(running) /\ Cardinality(running) <= Cardinality(InFlight)
    BY <2>1, <2>2, FS_Subset
  <2>4. Cardinality(running) \in Nat /\ Cardinality(InFlight) \in Nat
    BY <2>2, <2>3, FS_CardinalityType
  <2> QED BY <2>2, <2>3, <2>4 DEF HandlersBounded
<1> QED BY <1>1, Invariance, PTL

(* Under one term of an idempotency key at most one handler is ever called,
   whatever the interleaving of the duplicates (reserveOrReject). *)
THEOREM OneDispatchPerClaim == Spec => []DispatchedOncePerClaim
<1>1. IInv => DispatchedOncePerClaim
  BY DEF IInv, ClaimsDiffer, Holders, DispatchedOncePerClaim, Dispatched
<1> QED BY <1>1, Invariance, PTL

(* Every answer is recorded exactly once, with the status that was returned,
   and within the capacity of the sink (the mandatory audit reservation). *)
THEOREM ExactAudit == Spec => []AuditAccounts
<1>1. IInv => AuditAccounts BY DEF IInv
<1> QED BY <1>1, Invariance, PTL

(* When a request is answered every lease it was given has ended, and a secret
   was handed over only under a lease that was released (the release commit
   point and the finalizer of the lease). *)
THEOREM SettledLeases == Spec => []LeasesSettle
<1>1. ASSUME IInv PROVE LeasesSettle
  <2>1. authority \in Authority /\ \A i \in DOMAIN authority.leases : authority.leases[i] \in LeasesIn(authority)
    BY <1>1 DEF IInv, TypeOK, LeasesIn
  <2>2. \A l \in LeasesIn(authority) : l.state \in LeaseStates
    BY <2>1, LeasesTyped DEF Lease
  <2>3. ASSUME NEW i \in DOMAIN authority.leases, authority.leases[i].op \in Answered
        PROVE  authority.leases[i].state \in {"fenced", "delivery-unknown"}
    BY <1>1, <2>1, <2>2, <2>3 DEF IInv, LeasesFollow, LeaseStates, Answered
  <2>4. ASSUME NEW q \in Requests, req[q].delivered
        PROVE  StateOf(authority, q) \in {"released", "delivery-unknown", "missing"}
    <3> DEFINE i == LeaseOf(authority, q)
    <3>1. CASE i = 0 BY <3>1 DEF StateOf
    <3>2. CASE i # 0
      <4>1. i \in DOMAIN authority.leases /\ authority.leases[i].op = q
        BY <2>1, <3>2, LeaseFound
      <4>2. StateOf(authority, q) = authority.leases[i].state BY <3>2 DEF StateOf
      <4> HIDE DEF i
      <4> QED BY <1>1, <2>1, <2>2, <2>4, <4>1, <4>2 DEF IInv, LeasesFollow, LeaseStates
    <3> QED BY <3>1, <3>2
  <2> QED BY <2>3, <2>4 DEF LeasesSettle
<1> QED BY <1>1, Invariance, PTL

(* Only a publication answers with a success, and only a first use of the
   accessor hands a secret over. *)
LEMMA OnlyThen ==
  ASSUME IInv, [Next]_vars, NEW p \in Requests
  PROVE  /\ /\ req[p].stage # "answered" /\ req'[p].stage = "answered"
            /\ req'[p].response = "success"
            => Publish(p)
         /\ ~req[p].delivered /\ req'[p].delivered => GetSecret(p)
<1> DEFINE Silent(q) == /\ req'[q].stage = "answered" =>
                             req[q].stage = "answered" \/ req'[q].response # "success"
                        /\ req'[q].delivered => req[q].delivered
<1>1. req \in [Requests -> Request] BY DEF IInv, TypeOK
<1>2. ASSUME NEW q \in Requests, NEW key \in Keys, Arrive(q, key) PROVE Silent(p)
  <2>1. req[q] \in Request BY DEF IInv, TypeOK
  <2>2. PICK r \in Request :
          /\ req' = [req EXCEPT ![q] = r] /\ r.delivered = req[q].delivered
          /\ r.stage = "answered" => r.response = "audit_unavailable"
    <3> DEFINE turned == [req[q] EXCEPT !.key = key, !.stage = "answered",
                                        !.response = "audit_unavailable"]
               refused == Encoded([req[q] EXCEPT !.key = key], "refused")
               claiming == [req[q] EXCEPT !.key = key, !.stage = "claiming", !.slot = TRUE]
    <3>1. req' \in {[req EXCEPT ![q] = turned], [req EXCEPT ![q] = refused],
                    [req EXCEPT ![q] = claiming]}
      BY <1>2 DEF Arrive
    <3>2. turned \in Request /\ turned.delivered = req[q].delivered
          /\ turned.response = "audit_unavailable"
      BY <2>1 DEF Request, Stages, Responses
    <3>3. refused \in Request /\ refused.delivered = req[q].delivered /\ refused.stage = "encoded"
      <4> DEFINE keyed == [req[q] EXCEPT !.key = key]
      <4>1. keyed \in Request /\ keyed.delivered = req[q].delivered BY <2>1 DEF Request
      <4>2. refused = Encoded(keyed, "refused") OBVIOUS
      <4> HIDE DEF keyed, refused
      <4> QED BY <4>1, <4>2, EncodedIs DEF Responses, Refusals
    <3>4. claiming \in Request /\ claiming.delivered = req[q].delivered /\ claiming.stage = "claiming"
      BY <2>1 DEF Request, Stages
    <3> HIDE DEF turned, refused, claiming
    <3> QED BY <3>1, <3>2, <3>3, <3>4
  <2> QED BY <1>1, <2>2
<1>3. ASSUME NEW q \in Requests, Claim(q) PROVE Silent(p) BY <1>1, <1>3 DEF Claim, Request
<1>4. ASSUME NEW q \in Requests, Resume(q) PROVE Silent(p)
  BY <1>1, <1>4 DEF Resume, Request, Encoded
<1>5. ASSUME NEW q \in Requests, GetSecret(q) PROVE p = q \/ Silent(p)
  BY <1>1, <1>5, FirstUse DEF IInv
<1>6. ASSUME NEW q \in Requests, GetSecret(q) PROVE req'[q].stage = "running"
  BY <1>1, <1>6, FirstUse DEF IInv, Used
<1>7. ASSUME NEW q \in Requests,
             GetSecretAgain(q) \/ LateCallback(q) \/ HandlerSettles(q) \/ ReleaseSlot(q)
               \/ DeadlinePasses(q)
      PROVE  Silent(p)
  BY <1>1, <1>7 DEF GetSecretAgain, LateCallback, HandlerSettles, ReleaseSlot, DeadlinePasses, Request
<1>8. ASSUME NEW q \in Requests, Conclude(q) PROVE Silent(p)
  BY <1>1, <1>8, Conclusion DEF Concluded
<1>9. ASSUME NEW q \in Requests, Publish(q)
      PROVE  (p = q \/ Silent(p)) /\ (req'[q].delivered => req[q].delivered)
  <2>1. PICK s : /\ s = [NewRequest EXCEPT !.stage = "answered", !.response = s.response,
                           !.key = req[q].key, !.claimTerm = req[q].claimTerm,
                           !.delivered = req[q].delivered,
                           !.handler = Over(req[q].handler), !.slot = req[q].slot]
                 /\ req' = [req EXCEPT ![q] = s]
    BY <1>9 DEF Publish, NewRequest
  <2> QED BY <1>1, <2>1 DEF NewRequest
<1>10. CASE (\E key \in Keys : KeyExpires(key)) \/ Revoke \/ Put \/ TakeDrained
  BY <1>10 DEF KeyExpires, Revoke, Put, TakeDrained
<1>11. CASE UNCHANGED vars BY <1>11 DEF vars
<1>12. ASSUME NEW q \in Requests, Step(q) PROVE Silent(p) \/ GetSecret(p) \/ Publish(p)
  BY <1>2, <1>3, <1>4, <1>5, <1>7, <1>8, <1>9, <1>12 DEF Step
<1> QED BY <1>6, <1>9, <1>10, <1>11, <1>12 DEF Next

(* A success is published only for a handler that returned in time and never
   failed to get a secret (finalizeLease, its recheck of the outcome). *)
THEOREM HonestSuccess == Spec => SuccessIsHonest
<1> DEFINE Honest == \A q \in Requests :
       req[q].stage # "answered" /\ req'[q].stage = "answered" /\ req'[q].response = "success" =>
         req[q].handler = "returned" /\ ~req[q].failed /\ ~req[q].late
<1>1. ASSUME IInv, [Next]_vars PROVE Honest
  <2> SUFFICES ASSUME NEW q \in Requests, req[q].stage # "answered",
                      req'[q].stage = "answered", req'[q].response = "success"
               PROVE  req[q].handler = "returned" /\ ~req[q].failed /\ ~req[q].late
    OBVIOUS
  <2>1. Publish(q) BY <1>1, OnlyThen
  <2>2. req[q].response = "success" /\ ~req[q].failed /\ ~req[q].late
    BY <2>1 DEF Publish, Rechecked, NewRequest
  <2> QED BY <1>1, <2>1, <2>2 DEF IInv, Phases, Publish
<1>2. IInv /\ [Next]_vars => [Honest]_vars BY <1>1
<1>3. [][Honest]_vars => SuccessIsHonest BY DEF SuccessIsHonest
<1> QED BY <1>2, <1>3, Invariance, PTL DEF Spec

(* The copy of a secret that is handed over was taken at the epoch its request
   was admitted at, and it is handed over neither when the secret is gone nor
   after the deadline (getSecret and the release commit point).  A revocation
   after the lease was consumed that replaces the secret in the same call of
   the provider is not noticed. *)
THEOREM CurrentSecret == Spec => SecretIsCurrent
<1> DEFINE Current == \A q \in Requests :
       ~req[q].delivered /\ req'[q].delivered =>
         /\ req'[q].observed = req[q].epoch
         /\ arena'.entry = "live" /\ ~req'[q].late
<1>1. ASSUME IInv, [Next]_vars PROVE Current
  <2> SUFFICES ASSUME NEW q \in Requests, ~req[q].delivered, req'[q].delivered
               PROVE  /\ req'[q].observed = req[q].epoch
                      /\ arena'.entry = "live" /\ ~req'[q].late
    OBVIOUS
  <2>1. GetSecret(q) BY <1>1, OnlyThen
  <2>2. PICK r \in Request : req' = [req EXCEPT ![q] = r] /\ Used(q, r)
    BY <1>1, <2>1, FirstUse DEF IInv
  <2>3. req'[q] = r BY <1>1, <2>2 DEF IInv, TypeOK
  <2> QED BY <2>2, <2>3 DEF Used
<1>2. IInv /\ [Next]_vars => [Current]_vars BY <1>1
<1>3. [][Current]_vars => SecretIsCurrent BY DEF SecretIsCurrent
<1> QED BY <1>2, <1>3, Invariance, PTL DEF Spec
=============================================================================
