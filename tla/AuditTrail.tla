----------------------------- MODULE AuditTrail -----------------------------
(***************************************************************************)
(* What an audit sink owes its callers, whatever its batching: records are *)
(* accepted in the order they are offered and each once, a record may be   *)
(* refused only while the whole backlog is occupied, what is durable is a  *)
(* prefix of what was accepted and never shrinks, and a crash costs the    *)
(* backlog and nothing else.                                               *)
(***************************************************************************)
EXTENDS Integers, Sequences

CONSTANT Capacities   \* backlog sizes a sink may be opened with

VARIABLES offered,    \* how many records callers have offered so far
          log,        \* the accepted records, named by the order of offering
          durable,    \* how many of them are on disk
          capacity    \* backlog the open sink has

vars == <<offered, log, durable, capacity>>

Init ==
  /\ offered = 0 /\ log = <<>> /\ durable = 0
  /\ capacity \in Capacities

Accept ==
  /\ offered' = offered + 1
  /\ log' = Append(log, offered')
  /\ durable' \in {durable, Len(log), Len(log')}
  /\ Len(log') - durable' <= capacity
  /\ UNCHANGED capacity

Refuse ==
  /\ Len(log) - durable = capacity
  /\ offered' = offered + 1
  /\ UNCHANGED <<log, durable, capacity>>

Flush ==
  /\ durable' = Len(log)
  /\ UNCHANGED <<offered, log, capacity>>

Reopen ==
  /\ log' = SubSeq(log, 1, durable)
  /\ capacity' \in Capacities
  /\ UNCHANGED <<offered, durable>>

Next == Accept \/ Refuse \/ Flush \/ Reopen

Spec == Init /\ [][Next]_vars
=============================================================================
