------------------------------ MODULE MCWritePath ------------------------------
(* Small instances of WritePath for TLC. *)
EXTENDS WritePath

CONSTANTS q1, q2, q3, q4, e1, e2

\* Three requests race for one address, a fourth asks for another.
MCEmailOf == [r \in Requests |-> IF r = q4 THEN e2 ELSE e1]
=============================================================================
