---------------------------- MODULE MCOutboxSystem ----------------------------
(* A small instance of OutboxSystem for TLC. *)
EXTENDS OutboxSystem

CONSTANTS r1, r2, q1, q2, q3, e1, e2

\* A user has one event: every row is an aggregate of its own.
MCAggregateOf == [i \in 1 .. MaxRows |-> i]

\* Two requests ask for one address, a third for another.
MCEmailOf == [q \in Requests |-> IF q = q3 THEN e2 ELSE e1]
=============================================================================
