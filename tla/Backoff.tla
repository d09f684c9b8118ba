--------------------------------- MODULE Backoff ---------------------------------
(***************************************************************************)
(* How long a row waits after each of its transient failures: the loop of  *)
(* backoff.Exponential.After over an integer of bounded width, the jitter, *)
(* and the attempt that Reschedule adds to the row, under any base and cap *)
(* that LoadRelay lets through.  One row, failing again and again.         *)
(***************************************************************************)
EXTENDS Integers

CONSTANTS
    MaxInt,         \* the largest Duration; 2^63 - 1 in the program
    MaxAttempts     \* bound: failures of the row

ASSUME WidthAssumption   == MaxInt \in Nat \ {0}
ASSUME AttemptAssumption == MaxAttempts \in Nat

\* Arithmetic the proofs use, as the provers know nothing of exponents.
Power(n) == 2 ^ n
ASSUME PowerAssumption ==
    /\ Power(0) = 1
    /\ \A n \in 0 .. MaxAttempts : Power(n) \in Nat /\ Power(n + 1) = 2 * Power(n)
    /\ \A m, n \in 0 .. MaxAttempts : m <= n => Power(m) <= Power(n)

VARIABLES
    base, cap,  \* RELAY_BACKOFF_BASE, RELAY_BACKOFF_CAP
    attempts,   \* the row's column
    pc,         \* "row": between failures; "loop": inside After
    left,       \* iterations of the range that are left
    delay,      \* After's local
    ladder,     \* the last wait before jitter
    wait        \* and after it, as added to available_at

vars == <<base, cap, attempts, pc, left, delay, ladder, wait>>

MinInt == -MaxInt - 1
Width  == 2 * MaxInt + 2

\* int64 arithmetic: a product wraps, a division truncates toward zero.
Wrap(x) == ((x - MinInt) % Width) + MinInt
Half(x) == IF x >= 0 THEN x \div 2 ELSE -((-x) \div 2)
Smaller(a, b) == IF a <= b THEN a ELSE b

\* LoadRelay asks that the base be positive, and compares the cap with it only
\* when the cap is positive too.
Accepted(b, c) == b > 0 /\ (c > 0 => b <= c)

Init ==
    /\ base \in 1 .. MaxInt /\ cap \in MinInt .. MaxInt /\ Accepted(base, cap)
    /\ attempts = 0 /\ pc = "row" /\ left = 0
    /\ delay = 0 /\ ladder = 0 /\ wait = 0

\* Mutant: n counts the failure at hand as well.
Fail_PostIncrement ==
    /\ pc = "row" /\ attempts < MaxAttempts
    /\ pc' = "loop"
    /\ left' = attempts + 1
    /\ delay' = Smaller(base, cap)
    /\ UNCHANGED <<base, cap, attempts, ladder, wait>>

\* A transient failure: After is called with the attempts before it.
Fail ==
    /\ pc = "row" /\ attempts < MaxAttempts
    /\ pc' = "loop"
    /\ left' = attempts
    /\ delay' = Smaller(base, cap)
    /\ UNCHANGED <<base, cap, attempts, ladder, wait>>

\* Mutant: a doubling clamped too late.
Room_BelowCap == delay < cap

\* Saturating before the multiply: is there room for a doubling?
Room == delay < Half(cap)

Double ==
    /\ pc = "loop" /\ left > 0 /\ Room
    /\ delay' = Wrap(2 * delay)
    /\ left' = left - 1
    /\ UNCHANGED <<base, cap, attempts, pc, ladder, wait>>

Saturate ==
    /\ pc = "loop" /\ left > 0 /\ ~Room
    /\ delay' = cap
    /\ left' = 0
    /\ UNCHANGED <<base, cap, attempts, pc, ladder, wait>>

\* random(0.5, 1.5), in quarters; the upper end is open.
Quarters == 2 .. 5

\* The product as a Duration.  A float beyond the width converts to whatever the
\* architecture makes of it: the least integer on amd64, the greatest on arm64.
Jittered(d, q) ==
    LET product == IF d >= 0 THEN (d * q) \div 4 ELSE -(((-d) * q) \div 4)
    IN  IF product \in MinInt .. MaxInt THEN {product} ELSE {MinInt, MaxInt}

\* After returns; Reschedule sets available_at and charges the attempt.
Reschedule ==
    /\ pc = "loop" /\ left = 0
    /\ \E q \in Quarters : wait' \in Jittered(delay, q)
    /\ ladder' = delay
    /\ attempts' = attempts + 1
    /\ pc' = "row"
    /\ UNCHANGED <<base, cap, left, delay>>

Next ==
    \/ Fail \/ Double \/ Saturate \/ Reschedule
    \/ pc = "row" /\ attempts = MaxAttempts /\ UNCHANGED vars

Spec == Init /\ [][Next]_vars

-----------------------------------------------------------------------------
(* Properties.                                                             *)

\* After: with a positive cap the doubling never wraps and never passes the cap,
\* up to the largest cap a Duration can hold: "provable for any Cap".
NeverWraps == cap > 0 => delay \in 0 .. cap /\ ladder \in 0 .. cap

Formula(n) == Smaller(cap, base * Power(n))

\* After and Reschedule: the wait of the n-th failure is min(cap, base * 2^n), n
\* counted before it and one unit more where an odd cap makes Cap/2 round down,
\* with a jitter between half and one and a half of it.  The product needs room
\* of its own: a cap within two thirds of the width.
FollowsFormula ==
    cap > 0 /\ pc = "row" /\ attempts > 0 =>
        /\ ladder - Formula(attempts - 1) \in 0 .. (cap % 2)
        /\ 3 * cap <= 2 * MaxInt => ladder - 1 <= 2 * wait /\ 2 * wait <= 3 * ladder

=============================================================================
