------------------------------ MODULE Backoff_proofs ------------------------------
(***************************************************************************)
(* That After's doubling stays within a positive cap, and so within the    *)
(* width, and that the waits are those of the formula it is documented by, *)
(* whatever that width, the base, the cap and the attempts.                *)
(***************************************************************************)
EXTENDS Backoff, TLAPS

\* What is needed of the types: the numbers are integers, and what LoadRelay
\* has accepted does not change.
Numbers ==
    /\ MaxInt \in Nat
    /\ base \in Int /\ cap \in Int /\ delay \in Int /\ ladder \in Int
    /\ cap <= MaxInt
    /\ base > 0

\* The two together are preserved by every step.
BackoffInv == Numbers /\ NeverWraps

\* Wrap: a number that fits the width is left as it is.
LEMMA WrapFits ==
    ASSUME NEW x \in 0 .. MaxInt, MaxInt \in Nat
    PROVE  Wrap(x) = x
<1>1. x - MinInt \in 0 .. Width - 1
    BY DEF MinInt, Width
<1>2. Width \in Nat \ {0}
    BY DEF Width
<1>3. (x - MinInt) % Width = x - MinInt
    BY <1>1, <1>2
<1> QED
    BY <1>3 DEF Wrap, MinInt

\* After: a delay with room to double is no more than half of a positive cap, so
\* twice the delay is still below it.
LEMMA RoomToDouble ==
    ASSUME Numbers, cap > 0, delay \in 0 .. cap, Room
    PROVE  2 * delay \in 0 .. cap
<1>1. Half(cap) = cap \div 2
    BY DEF Half, Numbers
<1>2. 2 * (cap \div 2) <= cap /\ cap \div 2 \in Int
    BY DEF Numbers
<1> QED
    BY <1>1, <1>2 DEF Room, Numbers

\* After: a doubling with room for it is exact and stays within the cap.
LEMMA DoubleStays ==
    ASSUME BackoffInv, Double, cap > 0
    PROVE  delay' \in 0 .. cap
<1>1. 2 * delay \in 0 .. cap
    BY RoomToDouble DEF BackoffInv, NeverWraps, Double
<1>2. 2 * delay \in 0 .. MaxInt /\ MaxInt \in Nat
    BY <1>1 DEF BackoffInv, Numbers
<1>3. Wrap(2 * delay) = 2 * delay
    BY <1>2, WrapFits
<1> QED
    BY <1>1, <1>3 DEF Double

\* Wrap: the result is an integer, whatever wrapped.
LEMMA WrapInt ==
    ASSUME NEW x \in Int, MaxInt \in Nat
    PROVE  Wrap(x) \in Int
<1>1. Width \in Nat \ {0} /\ x - MinInt \in Int
    BY DEF Width, MinInt
<1>2. (x - MinInt) % Width \in Int
    BY <1>1
<1> QED
    BY <1>2 DEF Wrap, MinInt

\* LoadRelay, After: the configuration accepted starts within bounds.
LEMMA BackoffInit == Init => BackoffInv
<1> USE WidthAssumption
<1> QED
    BY DEF Init, BackoffInv, Numbers, NeverWraps, Accepted, MinInt

\* Every step of the loop keeps the invariant.
LEMMA BackoffStep == BackoffInv /\ [Next]_vars => BackoffInv'
<1> SUFFICES ASSUME BackoffInv, [Next]_vars PROVE BackoffInv'
    OBVIOUS
<1>1. CASE Fail
    BY <1>1 DEF Fail, Smaller, BackoffInv, Numbers, NeverWraps
<1>2. CASE Double
    <2>1. Numbers'
        BY <1>2, WrapInt DEF Double, BackoffInv, Numbers
    <2>2. NeverWraps'
        BY <1>2, DoubleStays DEF Double, BackoffInv, NeverWraps
    <2> QED
        BY <2>1, <2>2 DEF BackoffInv
<1>3. CASE Saturate
    BY <1>3 DEF Saturate, BackoffInv, Numbers, NeverWraps
<1>4. CASE Reschedule
    BY <1>4 DEF Reschedule, BackoffInv, Numbers, NeverWraps
<1>5. CASE UNCHANGED vars
    BY <1>5 DEF vars, BackoffInv, Numbers, NeverWraps
<1> QED
    BY <1>1, <1>2, <1>3, <1>4, <1>5 DEF Next

\* After: with a positive cap no doubling wraps or passes the cap, for every
\* width, every accepted base and cap and any number of attempts.
THEOREM NeverWrapsForAnyCap == Spec => []NeverWraps
<1>1. BackoffInv => NeverWraps
    BY DEF BackoffInv
<1> QED
    BY <1>1, BackoffInit, BackoffStep, PTL DEF Spec

-----------------------------------------------------------------------------
(* The loop against the formula.                                           *)

\* Inside the loop the delay is the base doubled once for each iteration done, or
\* the cap, when the base doubled attempts times is there but for the unit an odd
\* cap loses.
Doubled   == delay = base * Power(attempts - left) /\ delay <= cap
Saturated == left = 0 /\ delay = cap /\ base * Power(attempts) >= cap - (cap % 2)

LoopInv ==
    /\ attempts \in 0 .. MaxAttempts /\ pc \in {"row", "loop"}
    /\ cap > 0 => base <= cap
    /\ pc = "loop" =>
        /\ attempts < MaxAttempts /\ left \in 0 .. attempts
        /\ cap > 0 => Doubled \/ Saturated

FormulaInv == BackoffInv /\ LoopInv /\ FollowsFormula

LEMMA Powers ==
    ASSUME NEW n \in 0 .. MaxAttempts
    PROVE  Power(n) \in Nat /\ Power(0) = 1 /\ Power(n + 1) = 2 * Power(n)
           /\ \A m \in 0 .. n : Power(m) <= Power(n)
<1>1. 0 .. n \subseteq 0 .. MaxAttempts
    BY AttemptAssumption
<1> QED
    BY <1>1, PowerAssumption

\* After's doubling is one factor of two more.
LEMMA DoubleFollows ==
    ASSUME BackoffInv, LoopInv, Double, cap > 0
    PROVE  Doubled'
<1>1. 2 * delay \in 0 .. cap /\ 2 * delay \in 0 .. MaxInt /\ MaxInt \in Nat
    BY RoomToDouble DEF BackoffInv, NeverWraps, Double, Numbers
<1>2. delay' = 2 * delay /\ delay' <= cap
    BY <1>1, WrapFits DEF Double, BackoffInv, Numbers
<1>3. delay = base * Power(attempts - left)
    BY DEF LoopInv, Double, Doubled, Saturated
<1>4. /\ attempts - left \in 0 .. MaxAttempts
      /\ attempts' - left' = (attempts - left) + 1
    BY AttemptAssumption DEF LoopInv, Double
<1>5. PICK m \in Nat : m = Power(attempts - left) /\ Power(attempts' - left') = 2 * m
    BY <1>4, Powers
<1>6. base \in Int /\ base' = base /\ cap' = cap
    BY DEF BackoffInv, Numbers, Double
<1>7. 2 * (base * m) = base * (2 * m)
    BY <1>5, <1>6
<1> QED
    BY <1>2, <1>3, <1>5, <1>6, <1>7 DEF Doubled

\* After stops doubling at half the cap, which one more doubling would pass.
LEMMA SaturateFollows ==
    ASSUME BackoffInv, LoopInv, Saturate, cap > 0
    PROVE  Saturated'
<1>1. delay = base * Power(attempts - left) /\ delay >= cap \div 2
    BY DEF LoopInv, Saturate, Doubled, Saturated, Room, Half, BackoffInv, Numbers
<1>2. /\ attempts - left \in 0 .. MaxAttempts /\ attempts \in 0 .. MaxAttempts
      /\ (attempts - left) + 1 \in 0 .. attempts
    BY AttemptAssumption DEF LoopInv, Saturate
<1>3. PICK m \in Nat, k \in Nat :
         /\ m = Power(attempts - left) /\ k = Power(attempts)
         /\ Power((attempts - left) + 1) = 2 * m /\ 2 * m <= k
    BY <1>2, Powers
<1>4. base \in Nat /\ cap \in Nat /\ delay \in Int
    BY DEF BackoffInv, Numbers
<1>5. base * (2 * m) <= base * k /\ base * (2 * m) = 2 * (base * m)
    BY <1>3, <1>4
<1>6. 2 * (cap \div 2) = cap - (cap % 2)
    BY <1>4
<1>7. base * k >= cap - (cap % 2)
    BY <1>1, <1>3, <1>4, <1>5, <1>6
<1> QED
    BY <1>3, <1>7 DEF Saturated, Saturate

\* Any of the jitter's quarters leaves at least half of the delay, and less than one
\* and a half of it, where the product has room.
LEMMA JitterBounds ==
    ASSUME NEW d \in Nat, NEW q \in Quarters, NEW w \in Jittered(d, q),
           MaxInt \in Nat, 3 * d <= 2 * MaxInt
    PROVE  d - 1 <= 2 * w /\ 2 * w <= 3 * d
<1>1. /\ (d * q) \div 4 \in Int
      /\ d - 1 <= 2 * ((d * q) \div 4) /\ 2 * ((d * q) \div 4) <= 3 * d
      /\ 0 <= (d * q) \div 4 /\ (d * q) \div 4 <= MaxInt
  <2>1. CASE q = 2
    BY <2>1
  <2>2. CASE q = 3
    BY <2>2
  <2>3. CASE q = 4
    BY <2>3
  <2>4. CASE q = 5
    BY <2>4
  <2> QED
    BY <2>1, <2>2, <2>3, <2>4 DEF Quarters
<1>2. (d * q) \div 4 \in MinInt .. MaxInt
    BY <1>1 DEF MinInt
<1>3. w = (d * q) \div 4
    BY <1>2 DEF Jittered
<1> QED
    BY <1>1, <1>3

LEMMA RescheduleFollows ==
    ASSUME BackoffInv, LoopInv, Reschedule, cap > 0
    PROVE  FollowsFormula'
<1>1. /\ attempts' - 1 = attempts /\ ladder' = delay /\ delay \in 0 .. cap
      /\ cap' = cap /\ base' = base /\ cap \in Nat /\ base \in Nat /\ MaxInt \in Nat
    BY DEF BackoffInv, NeverWraps, Numbers, LoopInv, Reschedule
<1>2. PICK k \in Nat : k = Power(attempts)
    BY Powers DEF LoopInv
<1>3. base * k \in Nat
    BY <1>1, <1>2
<1>4. (delay = base * k /\ delay <= cap) \/ (delay = cap /\ base * k >= cap - (cap % 2))
    BY <1>2 DEF LoopInv, Reschedule, Doubled, Saturated
<1>5. cap % 2 \in 0 .. 1
    BY <1>1
<1>6. delay - Smaller(cap, base * k) \in 0 .. (cap % 2)
    BY <1>1, <1>3, <1>4, <1>5 DEF Smaller
<1>7. ladder' - Formula(attempts - 1)' \in 0 .. (cap' % 2)
    BY <1>1, <1>2, <1>6 DEF Formula
<1>8. 3 * cap <= 2 * MaxInt => ladder' - 1 <= 2 * wait' /\ 2 * wait' <= 3 * ladder'
  <2> SUFFICES ASSUME 3 * cap <= 2 * MaxInt
               PROVE  delay - 1 <= 2 * wait' /\ 2 * wait' <= 3 * delay
    BY <1>1
  <2>1. delay \in Nat /\ 3 * delay <= 2 * MaxInt
    BY <1>1
  <2> QED
    BY <1>1, <2>1, JitterBounds DEF Reschedule
<1> QED
    BY <1>1, <1>7, <1>8 DEF FollowsFormula

LEMMA FormulaStep == FormulaInv /\ [Next]_vars => FormulaInv'
<1> SUFFICES ASSUME FormulaInv, [Next]_vars
             PROVE  FormulaInv'
    OBVIOUS
<1>0. BackoffInv /\ LoopInv /\ FollowsFormula /\ BackoffInv'
    BY BackoffStep DEF FormulaInv
<1>1. CASE Fail
  <2>1. cap > 0 => Doubled'
    <3> SUFFICES ASSUME cap > 0
                 PROVE  Doubled'
        OBVIOUS
    <3>1. /\ delay' = base /\ base <= cap /\ base \in Nat
          /\ attempts' - left' = 0 /\ cap' = cap /\ base' = base
        BY <1>0, <1>1 DEF Fail, Smaller, BackoffInv, Numbers, LoopInv
    <3>2. base * 1 = base /\ Power(0) = 1
        BY <3>1, PowerAssumption
    <3> QED
        BY <3>1, <3>2 DEF Doubled
  <2> QED
    BY <1>0, <1>1, <2>1 DEF Fail, FormulaInv, LoopInv, FollowsFormula
<1>2. CASE Double
  <2>1. cap > 0 => Doubled'
    BY <1>0, <1>2, DoubleFollows
  <2> QED
    BY <1>0, <1>2, <2>1 DEF Double, FormulaInv, LoopInv, FollowsFormula
<1>3. CASE Saturate
  <2>1. cap > 0 => Saturated'
    BY <1>0, <1>3, SaturateFollows
  <2> QED
    BY <1>0, <1>3, <2>1 DEF Saturate, FormulaInv, LoopInv, FollowsFormula
<1>4. CASE Reschedule
  <2>1. FollowsFormula'
    BY <1>0, <1>4, RescheduleFollows DEF Reschedule, FollowsFormula
  <2> QED
    BY <1>0, <1>4, <2>1, AttemptAssumption DEF Reschedule, FormulaInv, LoopInv
<1>5. CASE UNCHANGED vars
    BY <1>0, <1>5 DEF vars, FormulaInv, LoopInv, Doubled, Saturated, FollowsFormula, Formula
<1> QED
    BY <1>1, <1>2, <1>3, <1>4, <1>5 DEF Next

\* After and Reschedule: the n-th wait is min(cap, base * 2^n), a unit more where an
\* odd cap makes Cap/2 round down, with its jitter, for every width, every accepted
\* base and cap and any number of attempts.
THEOREM WaitsFollowFormula == Spec => []FollowsFormula
<1>1. Init => LoopInv /\ FollowsFormula
    BY AttemptAssumption DEF Init, LoopInv, Accepted, FollowsFormula
<1>2. Init => FormulaInv
    BY <1>1, BackoffInit DEF FormulaInv
<1>3. FormulaInv => FollowsFormula
    BY DEF FormulaInv
<1> QED
    BY <1>2, <1>3, FormulaStep, PTL DEF Spec

===============================================================================
