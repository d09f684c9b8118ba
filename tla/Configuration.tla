------------------------------ MODULE Configuration ------------------------------
(***************************************************************************)
(* What the processes make of their environment: LoadRelay, which collects *)
(* every problem, and LoadAPI, which returns the first.                    *)
(*                                                                         *)
(* A variable holds nothing but blanks (Unset), something its parser       *)
(* refuses (Garbage: for the broker list, separators only), or a number.   *)
(* Durations are milliseconds; any number stands for a text that is set.   *)
(***************************************************************************)
EXTENDS Integers

CONSTANTS Unset, Garbage

ASSUME ValueAssumption == Unset \notin Int /\ Garbage \notin Int /\ Unset # Garbage

Default == [
    RELAY_BATCH_SIZE   |-> 100,   RELAY_MAX_ATTEMPTS |-> 10,
    PURGE_BATCH        |-> 1000,  RELAY_IDLE_MIN     |-> 50,
    RELAY_IDLE_MAX     |-> 2000,  RELAY_BACKOFF_BASE |-> 1000,
    RELAY_BACKOFF_CAP  |-> 300000, RELAY_DRAIN_GRACE |-> 15000,
    PURGE_INTERVAL     |-> 60000, OUTBOX_RETENTION   |-> 86400000]

Numbers        == DOMAIN Default
MustBePositive == Numbers \ {"RELAY_IDLE_MAX", "RELAY_BACKOFF_CAP"}
Parsed         == Numbers \cup {"LOG_LEVEL", "RELAY_USE_NOTIFY"}
Variables      == Parsed \cup {"ACCOUNTS_DATABASE_URL", "KAFKA_BROKERS", "KAFKA_TOPIC"}

Values == Int \cup {Unset, Garbage}
Environments == [Variables -> Values]

\* value and parsed: the fallback when unset, zero when it does not parse.
Read(e, v) == CASE e[v] = Unset   -> Default[v]
                [] e[v] = Garbage -> 0
                [] OTHER          -> e[v]

Unparsed(e)    == {v \in Parsed : e[v] = Garbage}

\* list drops the empty elements, and nothing may be left of the brokers.
Missing(e)     == {v \in {"ACCOUNTS_DATABASE_URL"} : e[v] = Unset}
                    \cup {v \in {"KAFKA_BROKERS"} : e[v] = Garbage}

NotPositive(e) == {v \in MustBePositive : Read(e, v) <= 0}

\* The two comparisons, each made only when both of its sides are positive.
Below(e, lo, hi) ==
    {v \in {lo, hi} : Read(e, lo) > 0 /\ Read(e, hi) > 0 /\ Read(e, hi) < Read(e, lo)}
Reversed(e) == Below(e, "RELAY_IDLE_MIN", "RELAY_IDLE_MAX")
                 \cup Below(e, "RELAY_BACKOFF_BASE", "RELAY_BACKOFF_CAP")

\* Mutant: an early return before the comparisons and the signs are looked at.
LoadRelay_Early(e) ==
    IF Unparsed(e) \cup Missing(e) # {}
    THEN Unparsed(e) \cup Missing(e)
    ELSE NotPositive(e) \cup Reversed(e)

\* The variables a refusal names; none means accepted.
LoadRelay(e) == Unparsed(e) \cup Missing(e) \cup NotPositive(e) \cup Reversed(e)

\* The first problem ends it.
LoadAPI(e) ==
    IF e["LOG_LEVEL"] = Garbage THEN {"LOG_LEVEL"}
    ELSE {v \in {"ACCOUNTS_DATABASE_URL"} : e[v] = Unset}

Load(kind, e) == IF kind = "relay" THEN LoadRelay(e) ELSE LoadAPI(e)

-----------------------------------------------------------------------------
(* What the loaded values are good for.                                    *)

\* What OutboxRelay, RelayLoop, Backoff and Purger assume of theirs.
Usable(e) ==
    /\ \A v \in MustBePositive : Read(e, v) \in Nat \ {0}
    /\ Read(e, "RELAY_IDLE_MAX") > 0 =>
           Read(e, "RELAY_IDLE_MIN") <= Read(e, "RELAY_IDLE_MAX")
    /\ Read(e, "RELAY_BACKOFF_CAP") > 0 =>
           Read(e, "RELAY_BACKOFF_BASE") <= Read(e, "RELAY_BACKOFF_CAP")

\* Setting the variables of the report, and no other, can make e acceptable.
Repairable(e, report, values) ==
    \E fix \in [report -> values] :
        LoadRelay([v \in Variables |-> IF v \in report THEN fix[v] ELSE e[v]]) = {}

=============================================================================
