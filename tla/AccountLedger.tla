----------------------------- MODULE AccountLedger -----------------------------
(***************************************************************************)
(* What an account promises, whoever stores it: debits are applied one at  *)
(* a time, none is lost, none is applied twice, and the balance a debit    *)
(* returns is the one it left behind.  StaticAuth (the in-memory back end, *)
(* a compare-exchange loop) and Relay (connections metering their chunks   *)
(* against either back end) are both checked to implement this module.     *)
(***************************************************************************)
EXTENDS Allowances

VARIABLES
    remaining,   \* the balance of each account
    spent,       \* the sum of the debits applied to it
    granted      \* the sum of the debits that left a balance above zero

ledgerVars == <<remaining, spent, granted>>

Init ==
    /\ remaining = Limit
    /\ spent = [a \in Accounts |-> 0]
    /\ granted = [a \in Accounts |-> 0]

\* One debit, as one indivisible step.
Apply(a, debit) ==
    LET left == Charged(remaining[a], debit)
    IN  /\ remaining' = [remaining EXCEPT ![a] = left]
        /\ spent' = [spent EXCEPT ![a] = @ + debit]
        /\ granted' = IF Exhausted(left) THEN granted
                      ELSE [granted EXCEPT ![a] = @ + debit]

Next == \E a \in Accounts, debit \in Debits : Apply(a, debit)

Spec == Init /\ [][Next]_ledgerVars

-------------------------------------------------------------------------------

TypeOK ==
    /\ remaining \in [Accounts -> Balances]
    /\ spent \in [Accounts -> Nat]
    /\ granted \in [Accounts -> Nat]

\* A limited account has exactly its limit minus everything debited, floored at
\* zero; an unlimited one stays unlimited (src/auth.rs:248-253).  Flooring each
\* debit separately (src/auth.rs:265 GREATEST, :393 max(0)) must not let the
\* balance drift from the total.
LedgerExact ==
    \A a \in Accounts :
        IF Limit[a] = Unlimited THEN remaining[a] = Unlimited
        ELSE /\ remaining[a] # Unlimited
             /\ AtLeastZero(remaining[a]) = AtLeastZero(Limit[a] - spent[a])

\* The debits that were answered with a positive balance never add up to the
\* limit: whatever is relayed on the strength of such answers fits in the
\* allowance, however many callers there are.
GrantedWithinLimit ==
    \A a \in Accounts :
        Limit[a] # Unlimited => granted[a] = 0 \/ granted[a] < Limit[a]
===============================================================================
