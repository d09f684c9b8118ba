------------------------------ MODULE AtLeastOnce ------------------------------
(***************************************************************************)
(* What the outbox promises, with no relay, transaction or lock in sight:  *)
(* an accepted event is owed to the broker until it is settled, which only *)
(* a delivered event can be, or parked for a human.  Deliveries of one     *)
(* event may repeat, and an event nobody accepted is never delivered.      *)
(***************************************************************************)
EXTENDS Naturals

CONSTANT Events

VARIABLES fate, delivered

Fate == {"none", "owed", "settled", "parked"}

Init ==
    /\ fate = [e \in Events |-> "none"]
    /\ delivered = {}

\* The business transaction that carries the event commits.
Accept(e) ==
    /\ fate[e] = "none"
    /\ fate' = [fate EXCEPT ![e] = "owed"]
    /\ UNCHANGED delivered

\* The broker has the event; again and again, and at any time once accepted.
Deliver(e) ==
    /\ fate[e] # "none"
    /\ delivered' = delivered \cup {e}
    /\ UNCHANGED fate

\* A pass decides some of the events owed, in one step: settled ones have been
\* delivered.
Decide(settled, parked) ==
    /\ settled \cap parked = {}
    /\ \A e \in settled \cup parked : fate[e] = "owed"
    /\ settled \subseteq delivered
    /\ fate' = [e \in Events |-> IF e \in settled THEN "settled"
                                 ELSE IF e \in parked THEN "parked" ELSE fate[e]]
    /\ UNCHANGED delivered

\* A human puts a parked event back.
Readmit(e) ==
    /\ fate[e] = "parked"
    /\ fate' = [fate EXCEPT ![e] = "owed"]
    /\ UNCHANGED delivered

Next ==
    \/ \E e \in Events : Accept(e) \/ Deliver(e) \/ Readmit(e)
    \/ \E settled, parked \in SUBSET Events : Decide(settled, parked)

Spec == Init /\ [][Next]_<<fate, delivered>>
=============================================================================
