-------------------------------- MODULE MCPurger --------------------------------
(* Small instances of Purger for TLC. *)
EXTENDS Purger

CONSTANTS p1, p2
=============================================================================
