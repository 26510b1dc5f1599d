------------------------------- MODULE Metering -------------------------------
(***************************************************************************)
(* The arithmetic of src/auth.rs `report_usage`, shared by both account    *)
(* back ends: what a number of relayed bytes costs, and what a debit does  *)
(* to a balance.                                                           *)
(*                                                                         *)
(* A cost per byte is a fraction [num, den] (an f64 in the code; chunks    *)
(* are at most 8192 bytes, so the product is exact to well below the half  *)
(* unit that rounding looks at).  A balance is an integer, or `Unlimited`  *)
(* for an account whose `bandwidth_limit` is None / NULL.                  *)
(***************************************************************************)
EXTENDS Integers

CONSTANTS
    Unlimited,   \* the balance of an account without a limit
    MaxDebit     \* largest single debit: i64::MAX in the code

ASSUME MeteringAssumption == /\ Unlimited \notin Int
                             /\ MaxDebit \in Nat

Balances == Int \cup {Unlimited}
Costs    == [num : Int, den : Nat \ {0}]

\* What a debit can be: nothing negative, nothing above the largest i64.
Debits == 0 .. MaxDebit

\* Mutation of AtLeastZero: the floor is missing.
NoFloor(x) == x

\* GREATEST(x, 0) and max(0).
AtLeastZero(x) == IF x < 0 THEN 0 ELSE x

\* `f64::round` of bytes * cost: to the nearest integer, halves upwards.  (Rust
\* rounds negative halves downwards, which Debit does not tell apart.)
Rounded(bytes, cost) ==
    (2 * bytes * cost.num + cost.den) \div (2 * cost.den)

\* The debit for `bytes` relayed bytes: nothing unless positive, saturated at
\* the largest i64.
Debit(bytes, cost) ==
    LET exact == Rounded(bytes, cost)
    IN  IF exact <= 0 THEN 0 ELSE IF exact > MaxDebit THEN MaxDebit ELSE exact

\* The balance after a debit: floored at zero, and an unlimited balance is
\* never turned into a number.
Charged(balance, debit) ==
    IF balance = Unlimited THEN Unlimited ELSE AtLeastZero(balance - debit)

\* Mutation of Exhausted: `r < 0`.
Overdrawn(balance) == balance # Unlimited /\ balance < 0

\* `matches!(remaining, Some(r) if r <= 0)`: the test that cuts a relay off and
\* the one that refuses a login.
Exhausted(balance) == balance # Unlimited /\ balance <= 0
===============================================================================
