------------------------------ MODULE StaticAuth ------------------------------
(***************************************************************************)
(* src/auth.rs, StaticAuthBackend: users of config.toml whose allowance is *)
(* one AtomicI64 each, debited by tasks that run on several threads.  All  *)
(* accesses are Ordering::Relaxed, so an atomic is its modification order  *)
(* (`history`): a read-modify-write acts on the newest value, a plain load *)
(* (and the load a failed exchange does) may return any value not older    *)
(* than the last one its caller has observed.                              *)
(*                                                                         *)
(* Abstracted: passwords, allowed networks and the linear search for the   *)
(* user are the choice of a user by Authenticate.                          *)
(***************************************************************************)
EXTENDS Metering, Sequences

CONSTANTS
    Users,        \* the configured users; a report may also name no user
    NoUser,       \* an id no configured user has
    Allowance,    \* bandwidth_limit of each user, Unlimited for None
    Callers,      \* connection tasks
    Chunks,       \* numbers of bytes a report may carry
    Cost,         \* cost_per_byte
    MaxCalls      \* bound: calls made by one caller

ASSUME StaticAuthAssumption ==
    /\ NoUser \notin Users
    /\ Allowance \in [Users -> Balances]
    /\ Chunks \subseteq Nat
    /\ Cost \in Costs
    /\ MaxCalls \in Nat

VARIABLES
    history,      \* modification order of each user's AtomicI64
    seen,         \* seen[c][u]: position in history[u] that c has observed
    task,         \* what each caller is doing
    calls,        \* number of calls each caller has made
    spent,        \* history variable: debits applied to each user
    granted       \* history variable: debits answered with a positive balance

vars == <<history, seen, task, calls, spent, granted>>

Idle == [pc |-> "idle"]

Limited   == {u \in Users : Allowance[u] # Unlimited}
Newest(u) == history[u][Len(history[u])]

Init ==
    /\ history = [u \in Limited |-> <<Allowance[u]>>]
    /\ seen = [c \in Callers |-> [u \in Limited |-> 1]]
    /\ task = [c \in Callers |-> Idle]
    /\ calls = [c \in Callers |-> 0]
    /\ spent = [u \in Users |-> 0]
    /\ granted = [u \in Users |-> 0]

\* c may take position i of u's modification order as the result of a load.
Observes(c, u, i) ==
    /\ i \in seen[c][u] .. Len(history[u])
    /\ seen' = [seen EXCEPT ![c][u] = i]

MayCall(c) ==
    /\ task[c].pc \in {"idle", "authenticated"}
    /\ calls[c] < MaxCalls
    /\ calls' = [calls EXCEPT ![c] = @ + 1]

-------------------------------------------------------------------------------

\* `authenticate` / `authenticate_by_ip`: the account returned carries a
\* snapshot of the balance, which check_bandwidth will look at.
Authenticate(c, u) ==
    /\ MayCall(c)
    /\ IF u \in Limited
       THEN \E i \in 1 .. Len(history[u]) :
               /\ Observes(c, u, i)
               /\ task' = [task EXCEPT ![c] = [pc |-> "authenticated", user |-> u,
                                               limit |-> history[u][i]]]
       ELSE /\ task' = [task EXCEPT ![c] = [pc |-> "authenticated", user |-> u,
                                            limit |-> Unlimited]]
            /\ UNCHANGED seen
    /\ UNCHANGED <<history, spent, granted>>

\* `report_usage` up to the loop: an unknown id or an unlimited user has
\* nothing to debit and is answered None at once.
Report(c, id, bytes) ==
    /\ MayCall(c)
    /\ task' = [task EXCEPT ![c] =
                  IF id \in Limited
                  THEN [pc |-> "load", user |-> id, debit |-> Debit(bytes, Cost)]
                  ELSE Idle]
    /\ IF id \in Users \ Limited
       THEN /\ spent' = [spent EXCEPT ![id] = @ + Debit(bytes, Cost)]
            /\ granted' = [granted EXCEPT ![id] = @ + Debit(bytes, Cost)]
       ELSE UNCHANGED <<spent, granted>>
    /\ UNCHANGED <<history, seen>>

\* `let mut cur = rem.load(Relaxed)`
Load(c) ==
    /\ task[c].pc = "load"
    /\ LET u == task[c].user
       IN  \E i \in 1 .. Len(history[u]) :
              /\ Observes(c, u, i)
              /\ task' = [task EXCEPT ![c] = [pc |-> "swap", user |-> u,
                                              debit |-> @.debit, cur |-> history[u][i]]]
    /\ UNCHANGED <<history, calls, spent, granted>>

\* Mutation of Swap: a plain store, whatever the value is by now.
StoresBlindly(c) ==
    /\ task[c].pc = "swap"
    /\ LET u    == task[c].user
           next == AtLeastZero(task[c].cur - task[c].debit)
       IN  /\ history' = [history EXCEPT ![u] = Append(@, next)]
           /\ seen' = [seen EXCEPT ![c][u] = Len(history[u]) + 1]
    /\ task' = [task EXCEPT ![c] = Idle]
    /\ UNCHANGED <<calls, spent, granted>>

\* Mutation of Swap: the answer is the balance before the debit.
AnswersWithTheOldValue(c) ==
    /\ task[c].pc = "swap"
    /\ LET u    == task[c].user
           next == AtLeastZero(task[c].cur - task[c].debit)
       IN  /\ task[c].cur = Newest(u)
           /\ history' = [history EXCEPT ![u] = Append(@, next)]
           /\ seen' = [seen EXCEPT ![c][u] = Len(history[u]) + 1]
           /\ spent' = [spent EXCEPT ![u] = @ + task[c].debit]
           /\ granted' = IF Exhausted(task[c].cur) THEN granted
                         ELSE [granted EXCEPT ![u] = @ + task[c].debit]
    /\ task' = [task EXCEPT ![c] = Idle]
    /\ UNCHANGED calls

\* compare_exchange_weak finds the value it expects and installs the next one,
\* which is also the answer of report_usage.
Swap(c) ==
    /\ task[c].pc = "swap"
    /\ LET u    == task[c].user
           next == AtLeastZero(task[c].cur - task[c].debit)
       IN  /\ task[c].cur = Newest(u)
           /\ history' = [history EXCEPT ![u] = Append(@, next)]
           /\ seen' = [seen EXCEPT ![c][u] = Len(history[u]) + 1]
           /\ spent' = [spent EXCEPT ![u] = @ + task[c].debit]
           /\ granted' = IF Exhausted(next) THEN granted
                         ELSE [granted EXCEPT ![u] = @ + task[c].debit]
    /\ task' = [task EXCEPT ![c] = Idle]
    /\ UNCHANGED calls

\* Mutation of FailsWith: the observed value is not taken over.
FailsAndForgets(c, i) ==
    LET u == task[c].user
    IN  /\ Observes(c, u, i)
        /\ UNCHANGED <<history, task, calls, spent, granted>>

\* compare_exchange_weak fails and hands back the value at position i, which is
\* tried next.
FailsWith(c, i) ==
    LET u == task[c].user
    IN  /\ Observes(c, u, i)
        /\ task' = [task EXCEPT ![c].cur = history[u][i]]
        /\ UNCHANGED <<history, calls, spent, granted>>

\* The exchange may fail because the value has moved on, or spuriously.
SwapFails(c) ==
    /\ task[c].pc = "swap"
    /\ \E i \in 1 .. Len(history[task[c].user]) : FailsWith(c, i)

\* The failure that shows its newest value to a caller that expects another.
SwapFailsAfresh(c) ==
    /\ task[c].pc = "swap"
    /\ task[c].cur # Newest(task[c].user)
    /\ FailsWith(c, Len(history[task[c].user]))

Next ==
    \E c \in Callers :
        \/ \E u \in Users : Authenticate(c, u)
        \/ \E id \in Users \cup {NoUser}, bytes \in Chunks : Report(c, id, bytes)
        \/ Load(c)
        \/ Swap(c)
        \/ SwapFails(c)

\* A thread in the loop keeps running; a weak exchange does not fail for ever
\* on the value it expects; a store becomes visible to every thread.
Fairness ==
    \A c \in Callers :
        /\ WF_vars(Load(c))
        /\ SF_vars(Swap(c))
        /\ WF_vars(SwapFailsAfresh(c))

Spec == Init /\ [][Next]_vars /\ Fairness

-------------------------------------------------------------------------------

Tasks ==
    [pc : {"idle"}]
    \cup [pc : {"authenticated"}, user : Users, limit : Balances]
    \cup [pc : {"load"}, user : Limited, debit : Debits]
    \cup [pc : {"swap"}, user : Limited, debit : Debits, cur : Int]

TypeOK ==
    /\ history \in [Limited -> Seq(Int)]
    /\ \A u \in Limited : history[u] # <<>> /\ Tail(history[u]) \in Seq(Nat)
    /\ seen \in [Callers -> [Limited -> Nat \ {0}]]
    /\ \A c \in Callers, u \in Limited : seen[c][u] <= Len(history[u])
    /\ task \in [Callers -> Tasks]
    /\ calls \in [Callers -> 0 .. MaxCalls]
    /\ spent \in [Users -> Nat]
    /\ granted \in [Users -> Nat]

Ledger == INSTANCE AccountLedger WITH
    Accounts  <- Users,
    Limit     <- Allowance,
    remaining <- [u \in Users |-> IF u \in Limited THEN Newest(u) ELSE Unlimited]

\* Interleaved loops of several tasks implement the ledger: every debit takes
\* effect exactly once and the answer is the balance it left
\* (src/auth.rs:391-401).
LedgerSpec == Ledger!Spec

\* The snapshot a login is judged by may be out of date, but only in the
\* user's favour: a login is never refused for lack of bandwidth while the
\* balance is positive (src/auth.rs:320, src/protocols/proxy.rs:1051).
NeverRefusedWhileFunded ==
    \A c \in Callers :
        task[c].pc = "authenticated" /\ Exhausted(task[c].limit)
            => Exhausted(Newest(task[c].user))

\* The loop ends for every caller: a report is answered, so a relay is not
\* held up by the other connections of its account (src/auth.rs:392-401).
EveryReportIsAnswered ==
    \A c \in Callers : (task[c].pc \in {"load", "swap"}) ~> (task[c].pc = "idle")
===============================================================================
