------------------------------- MODULE MCProcess -------------------------------
(* A small instance of Process for TLC. *)
EXTENDS Process

CONSTANTS j1, j2

MCReleaseOf == [j \in Jobs |-> IF j = j1 THEN 1 ELSE 2]

\* The second release adds a migration to accounts, as 0002 did.
MCLatest == [r \in Releases |-> [c \in Contexts |-> IF c = "accounts" THEN r ELSE 1]]

Fine == [v \in Variables |-> IF v = "ACCOUNTS_DATABASE_URL" THEN 1 ELSE Unset]

\* One variable wrong, the two comparisons in every combination, and many at once.
OneWrong ==
    {[Fine EXCEPT ![v] = Garbage] : v \in Parsed \cup {"KAFKA_BROKERS", "ACCOUNTS_DATABASE_URL"}}
      \cup {[Fine EXCEPT ![v] = 0] : v \in MustBePositive}
Around == {Garbage, -1, 1, 500000}
Pairs == {[Fine EXCEPT ![p[1]] = x, ![p[2]] = y] :
            p \in {<<"RELAY_IDLE_MIN", "RELAY_IDLE_MAX">>, <<"RELAY_BACKOFF_BASE", "RELAY_BACKOFF_CAP">>},
            x \in Around, y \in Around}
Many == {[v \in Variables |-> IF v \in {"KAFKA_BROKERS", "LOG_LEVEL"} THEN Garbage
                              ELSE IF v \in {"PURGE_BATCH", "RELAY_IDLE_MIN"} THEN 0 ELSE Unset]}
MCEnvs == {Fine, [Fine EXCEPT !["ACCOUNTS_DATABASE_URL"] = Unset]} \cup OneWrong \cup Pairs \cup Many

MCPlanOf == [j \in Jobs |-> IF j = j1 THEN <<"accounts", "notifications">> ELSE <<"accounts">>]

MCRepair == {1, 500000}
=============================================================================
