----------------------------- MODULE MCColdBoot -----------------------------
(***************************************************************************)
(* Two names, two ticks, two sealing epochs, three calls and one file that *)
(* is put back, removed or damaged; the host boots the orchestrator with   *)
(* no floor of its own or with tick 2.                                     *)
(***************************************************************************)
EXTENDS ColdBoot, TLC

MCFiles == Names \cup {Floor}
MCTicks == {1, 2}
MCBootFloors == {0, 2}
MCEpochs == {1, 2}
MCSymmetry == Permutations(Names)

(* What the rest of a history can depend on.  A .tmp is read only by the sync
   and the rename that follow its writing, and older copies only by Tamper. *)
MCView ==
  <<live, stable, minTick, call, active, revoked, best, recent, kept, budget,
    IF call.step \in {"sync", "rename"} THEN tmp[call.file] ELSE Absent,
    IF tampers < MaxTampers THEN copies ELSE <<>> >>
=============================================================================
