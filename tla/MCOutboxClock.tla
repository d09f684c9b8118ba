----------------------------- MODULE MCOutboxClock -----------------------------
(* A small instance of OutboxClock for TLC. *)
EXTENDS OutboxClock

CONSTANTS a1, a2

\* Odd rows belong to one aggregate, even rows to another.
MCAggregateOf == [i \in 1 .. MaxRows |-> IF i % 2 = 1 THEN a1 ELSE a2]
=============================================================================
