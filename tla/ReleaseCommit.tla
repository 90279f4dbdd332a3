--------------------------- MODULE ReleaseCommit ---------------------------
(***************************************************************************)
(* The release authority: one lease per operation, consumed once, which is *)
(* the moment a secret is released.  Leases are kept up to a cap; then the *)
(* oldest one that is not unused is retired.  Tokens, which only tell a    *)
(* lease from a forged one, and the log of transitions are left out.       *)
(***************************************************************************)
EXTENDS Integers, SequencesExt

CONSTANTS LeaseCap, RetiredCap

ASSUME CapAssumption == LeaseCap \in Nat \ {0} /\ RetiredCap \in Nat \ {0}

LeaseStates == {"unused", "released", "fenced", "delivery-unknown"}

NoLeases == [leases |-> <<>>, retired |-> <<>>]

LeaseOf(authority, op) == SelectInSeq(authority.leases, LAMBDA l : l.op = op)

StateOf(authority, op) ==
  LET i == LeaseOf(authority, op) IN
  IF i = 0 THEN "missing" ELSE authority.leases[i].state

(* At the cap the oldest lease that is not unused makes room; the oldest
   tombstone makes room for its own. *)
EvictOldestTerminal(authority) ==
  LET victim == SelectInSeq(authority.leases, LAMBDA l : l.state # "unused")
      kept == IF Len(authority.retired) >= RetiredCap
              THEN Tail(authority.retired) ELSE authority.retired
  IN  IF Len(authority.leases) < LeaseCap \/ victim = 0 THEN authority
      ELSE [leases  |-> RemoveAt(authority.leases, victim),
            retired |-> Append(kept, authority.leases[victim].op)]

MintRefused(authority, op) ==
  \/ op \in {authority.retired[i] : i \in DOMAIN authority.retired}
  \/ LeaseOf(authority, op) # 0
  \/ Len(EvictOldestTerminal(authority).leases) >= LeaseCap

Mint(authority, op, epoch) ==
  LET room == EvictOldestTerminal(authority) IN
  [room EXCEPT !.leases = Append(@, [op |-> op, epoch |-> epoch, state |-> "unused"])]

Move(authority, op, from, to) ==
  [authority EXCEPT !.leases =
     [i \in DOMAIN @ |-> IF @[i].op = op /\ @[i].state = from
                         THEN [@[i] EXCEPT !.state = to] ELSE @[i]]]

(* Mutant: the epoch is not compared. *)
Consume_Blind(authority, op, observed) == Move(authority, op, "unused", "released")

(* Released if the epoch is still the one the lease was minted at. *)
Consume(authority, op, observed) ==
  LET i == LeaseOf(authority, op) IN
  Move(authority, op, "unused",
       IF observed = authority.leases[i].epoch THEN "released" ELSE "fenced")

Fence(authority, op) == Move(authority, op, "unused", "fenced")

MarkUnknown(authority, op) == Move(authority, op, "released", "delivery-unknown")

(* Mutant: the lease of a secret that was not supplied is forgotten. *)
DropIfUnused_Skipped(authority, op) == authority

DropIfUnused(authority, op) ==
  LET i == LeaseOf(authority, op) IN
  IF i # 0 /\ authority.leases[i].state = "unused"
  THEN [authority EXCEPT !.leases = RemoveAt(@, i)] ELSE authority
=============================================================================
