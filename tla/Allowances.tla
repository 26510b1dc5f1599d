------------------------------- MODULE Allowances -------------------------------
(***************************************************************************)
(* The accounts and the balance each starts with: users of config.toml, or *)
(* rows of the users table (src/auth.rs).                                  *)
(***************************************************************************)
EXTENDS Metering

CONSTANTS
    Accounts,    \* account ids
    Limit        \* the balance each account starts with

ASSUME LedgerAssumption == Limit \in [Accounts -> Balances]
===============================================================================
