---------------------------- MODULE MCAwaitScope ----------------------------
(***************************************************************************)
(* Two tasks, one at a time or both at once, under each completion policy; *)
(* the scope times out at 2, where the clock stops, so that reports come   *)
(* before a tick, after one and after the timeout.                         *)
(***************************************************************************)
EXTENDS AwaitScope
=============================================================================
