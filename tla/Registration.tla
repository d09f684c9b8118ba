----------------------------- MODULE Registration -----------------------------
(***************************************************************************)
(* What the write path promises of a registration: a user and the event    *)
(* that announces it come into being in one step, an e-mail address is     *)
(* registered once, and nobody is told of an event that does not exist.    *)
(***************************************************************************)
CONSTANTS
    Users,      \* the identities minted for registrations
    Email       \* the e-mail address each of them asks for

VARIABLES
    registered, \* the users of accounts.users
    announced,  \* the users whose event is in accounts.outbox
    told        \* the users whose relay wakeup was sent

Init == registered = {} /\ announced = {} /\ told = {}

Register(u) ==
    /\ \A v \in registered : Email[v] # Email[u]
    /\ registered' = registered \cup {u}
    /\ announced' = announced \cup {u}
    /\ UNCHANGED told

Tell(u) ==
    /\ u \in announced
    /\ told' = told \cup {u}
    /\ UNCHANGED <<registered, announced>>

Next == \E u \in Users : Register(u) \/ Tell(u)

Spec == Init /\ [][Next]_<<registered, announced, told>>

=============================================================================
