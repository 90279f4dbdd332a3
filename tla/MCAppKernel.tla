---------------------------- MODULE MCAppKernel ----------------------------
EXTENDS AppKernel

Limit(handlers, events) == [maxConcurrent |-> handlers, auditCapacity |-> events]

MCLimitSets == {Limit(1, 1), Limit(2, 2)}
=============================================================================
