----------------------------- MODULE MCOutboxRelay -----------------------------
(* Small instances of OutboxRelay for TLC. *)
EXTENDS OutboxRelay, TLC

CONSTANTS r1, r2, a1, a2

\* Rows 1 and 3 belong to one aggregate, row 2 to another.
MCAggregateOf == [i \in 1 .. MaxRows |-> IF i = 2 THEN a2 ELSE a1]

\* The relays are interchangeable; used where no liveness is checked.
Symmetry == Permutations(Relays)
=============================================================================
