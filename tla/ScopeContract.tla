--------------------------- MODULE ScopeContract ---------------------------
(***************************************************************************)
(* What a task scope promises to the code that opened it: work starts only *)
(* while the outcome is open, never more of it at once than the limit; the *)
(* outcome is chosen once; and the scope is closed, with that outcome,     *)
(* only when none of its work is in progress any more.                     *)
(***************************************************************************)
EXTENDS Integers, FiniteSets

CONSTANTS Work, Undecided

VARIABLES
  limit,      \* how much work may be in progress at once
  asked,      \* the work asked for so far
  begun,      \* the work that has been begun
  live,       \* the work in progress
  outcome,    \* the outcome, once chosen
  closed      \* the outcome has been published

vars == <<limit, asked, begun, live, outcome, closed>>

Init ==
  /\ limit \in 1..Cardinality(Work)
  /\ asked \subseteq Work /\ begun = {} /\ live = {}
  /\ outcome = Undecided /\ closed = FALSE

Ask ==
  /\ outcome = Undecided
  /\ asked' \in SUBSET Work /\ asked \subseteq asked'
  /\ UNCHANGED <<limit, begun, live, outcome, closed>>

(* Work begins once, and not at all if it fails to. *)
Begin ==
  \E w \in asked \ begun :
    /\ outcome = Undecided
    /\ begun' = begun \cup {w}
    /\ live' \in {live, live \cup {w}}
    /\ Cardinality(live') <= limit
    /\ UNCHANGED <<limit, asked, outcome, closed>>

End ==
  \E w \in live :
    /\ live' = live \ {w}
    /\ UNCHANGED <<limit, asked, begun, outcome, closed>>

(* With nothing in progress the choice may be published at once. *)
Decide ==
  /\ outcome = Undecided /\ outcome' # Undecided
  /\ closed' \in BOOLEAN /\ (closed' => live = {})
  /\ UNCHANGED <<limit, asked, begun, live>>

Close ==
  /\ outcome # Undecided /\ ~closed /\ live = {}
  /\ closed' = TRUE
  /\ UNCHANGED <<limit, asked, begun, live, outcome>>

Next == Ask \/ Begin \/ End \/ Decide \/ Close

Spec == Init /\ [][Next]_vars
=============================================================================
