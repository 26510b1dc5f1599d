---------------------------- MODULE StaticAuthProofs ----------------------------
(***************************************************************************)
(* The in-memory back end, for any number of tasks, users, allowances and  *)
(* calls: its loop implements the ledger, and a login is not refused on an *)
(* old balance while the newest one is positive.                           *)
(*                                                                         *)
(* The invariant adds two facts to the types.  A balance that was once     *)
(* exhausted is so for ever (Declines); and the balance a login is judged  *)
(* by is one the account has had (Remembers).                              *)
(***************************************************************************)
EXTENDS StaticAuth, SequenceTheorems, TLAPS

\* A debit is a natural number no larger than the largest i64
\* (src/auth.rs:240-247).
LEMMA DebitType ==
    ASSUME NEW bytes \in Nat, NEW cost \in Costs
    PROVE  Debit(bytes, cost) \in Debits /\ Debit(bytes, cost) \in Nat
  <1> DEFINE exact == Rounded(bytes, cost)
  <1>1. cost.num \in Int /\ cost.den \in Nat \ {0}
    BY DEF Costs
  <1>2. exact \in Int
    BY <1>1 DEF Rounded
  <1> HIDE DEF exact
  <1>3. Debit(bytes, cost) = IF exact <= 0 THEN 0
                             ELSE IF exact > MaxDebit THEN MaxDebit ELSE exact
    BY DEF exact, Debit
  <1> QED
    BY <1>2, <1>3, MeteringAssumption DEF Debits

Declines(h) ==
    \A i, j \in 1 .. Len(h) : i <= j /\ Exhausted(h[i]) => Exhausted(h[j])

\* One atomic's modification order.
Order(h) == h \in Seq(Int) /\ h # <<>> /\ Tail(h) \in Seq(Nat) /\ Declines(h)

\* What task t does, seen against the modification orders hs.
Remembers(t, hs) ==
    t.pc = "authenticated" =>
        IF t.user \in Limited THEN \E i \in 1 .. Len(hs[t.user]) : t.limit = hs[t.user][i]
        ELSE t.limit = Unlimited

IInv ==
    /\ TypeOK
    /\ \A u \in Limited : Declines(history[u])
    /\ \A c \in Callers : Remembers(task[c], history)

-------------------------------------------------------------------------------

\* The parts of what a task is doing.
LEMMA TaskParts ==
    ASSUME NEW t \in Tasks
    PROVE  /\ t.pc \in {"idle", "authenticated", "load", "swap"}
           /\ t.pc = "authenticated" => t.user \in Users /\ t.limit \in Balances
           /\ t.pc \in {"load", "swap"} => t.user \in Limited /\ t.debit \in Debits
           /\ t.pc = "swap" => /\ t.cur \in Int
                               /\ t = [pc |-> "swap", user |-> t.user, debit |-> t.debit,
                                       cur |-> t.cur]
  BY DEF Tasks

\* What a task can go on to.
LEMMA TasksMade ==
    /\ Idle \in Tasks /\ Idle.pc = "idle"
    /\ \A u \in Users, limit \in Balances :
          [pc |-> "authenticated", user |-> u, limit |-> limit] \in Tasks
    /\ \A u \in Limited, debit \in Debits :
          [pc |-> "load", user |-> u, debit |-> debit] \in Tasks
    /\ \A u \in Limited, debit \in Debits, cur \in Int :
          [pc |-> "swap", user |-> u, debit |-> debit, cur |-> cur] \in Tasks
  BY DEF Idle, Tasks

\* The newest value exists and is a number.
LEMMA NewestType ==
    ASSUME NEW h, Order(h)
    PROVE  Len(h) \in 1 .. Len(h) /\ h[Len(h)] \in Int /\ \A i \in 1 .. Len(h) : h[i] \in Int
  <1>1. Len(h) \in Nat /\ Len(h) # 0
    BY EmptySeq DEF Order
  <1> QED
    BY <1>1, ElementOfSeq DEF Order

\* A debit is added to the order: a balance at or below zero is followed by zero
\* (src/auth.rs:393).
LEMMA OrderGrows ==
    ASSUME NEW h, Order(h), NEW d \in Nat, NEW next, next = AtLeastZero(h[Len(h)] - d)
    PROVE  /\ Order(Append(h, next))
           /\ next \in Nat
           /\ Len(Append(h, next)) = Len(h) + 1
           /\ Append(h, next)[Len(h) + 1] = next
           /\ \A i \in 1 .. Len(h) : Append(h, next)[i] = h[i]
  <1> DEFINE g == Append(h, next)
  <1>1. h \in Seq(Int) /\ h # <<>> /\ Tail(h) \in Seq(Nat) /\ Declines(h) /\ Len(h) \in Nat
    BY DEF Order
  <1>2. h[Len(h)] \in Int /\ Len(h) \in 1 .. Len(h) /\ \A i \in 1 .. Len(h) : h[i] \in Int
    BY NewestType
  <1>3. next \in Nat /\ next \in Int
    BY <1>2 DEF AtLeastZero
  <1>4. Exhausted(h[Len(h)]) => Exhausted(next)
    BY <1>2, <1>3, MeteringAssumption DEF Exhausted, AtLeastZero
  <1>5. /\ g \in Seq(Int) /\ g # <<>> /\ Len(g) = Len(h) + 1
        /\ \A i \in 1 .. Len(h) : g[i] = h[i]
        /\ g[Len(h) + 1] = next
    BY <1>1, <1>3, AppendProperties
  <1>6. Tail(g) \in Seq(Nat)
    <2>1. Tail(g) = Append(Tail(h), next)
      BY <1>1, <1>3, HeadTailAppend
    <2> QED
      BY <1>1, <1>3, <2>1, AppendProperties
  <1> HIDE DEF g
  <1>7. Declines(g)
    <2> SUFFICES ASSUME NEW i \in 1 .. Len(g), NEW j \in 1 .. Len(g), i <= j, Exhausted(g[i])
                 PROVE  Exhausted(g[j])
      BY DEF Declines
    <2>1. CASE j <= Len(h)
      <3>1. i \in 1 .. Len(h) /\ j \in 1 .. Len(h)
        BY <1>1, <1>5, <2>1
      <3>2. g[i] = h[i] /\ g[j] = h[j]
        BY <1>5, <3>1
      <3> QED
        BY <1>1, <3>1, <3>2 DEF Declines
    <2>2. CASE j = Len(h) + 1 /\ i <= Len(h)
      BY <1>1, <1>2, <1>4, <1>5, <2>2 DEF Declines
    <2>3. CASE i = Len(h) + 1
      BY <1>1, <1>5, <2>3
    <2> QED
      BY <1>1, <1>5, <2>1, <2>2, <2>3
  <1>8. Order(g)
    BY <1>5, <1>6, <1>7 DEF Order
  <1> QED
    BY <1>3, <1>5, <1>8, Zenon DEF g

\* The orders of a state that keeps the invariant.
LEMMA Orders ==
    ASSUME IInv, NEW u \in Limited
    PROVE  Order(history[u])
  BY DEF IInv, TypeOK, Order

\* The types of everything but the orders and the task.
Observed ==
    /\ seen \in [Callers -> [Limited -> Nat \ {0}]]
    /\ \A c \in Callers, u \in Limited : seen[c][u] <= Len(history[u])
    /\ calls \in [Callers -> 0 .. MaxCalls]
    /\ spent \in [Users -> Nat]
    /\ granted \in [Users -> Nat]

LEMMA IInvParts ==
    ASSUME IInv
    PROVE  /\ Observed
           /\ history = [u \in Limited |-> history[u]]
           /\ task \in [Callers -> Tasks]
           /\ \A u \in Limited : Len(history[u]) \in 1 .. Len(history[u])
  BY Orders, NewestType DEF IInv, TypeOK, Observed

\* What c has observed moves on.
LEMMA ObservesKeepsTypes ==
    ASSUME IInv, NEW c \in Callers, NEW u \in Limited, NEW i, Observes(c, u, i),
           UNCHANGED <<history, spent, granted>>, calls' \in [Callers -> 0 .. MaxCalls]
    PROVE  Observed'
  <1>1. /\ seen \in [Callers -> [Limited -> Nat \ {0}]]
        /\ \A b \in Callers, v \in Limited : seen[b][v] <= Len(history[v])
        /\ Len(history[u]) \in Nat
    BY IInvParts DEF Observed
  <1>2. i \in Nat \ {0} /\ i <= Len(history[u])
    BY <1>1 DEF Observes
  <1>3. seen' \in [Callers -> [Limited -> Nat \ {0}]]
    BY <1>1, <1>2 DEF Observes
  <1>4. \A b \in Callers, v \in Limited : seen'[b][v] = IF b = c /\ v = u THEN i ELSE seen[b][v]
    BY <1>1 DEF Observes
  <1>5. \A b \in Callers, v \in Limited : seen'[b][v] <= Len(history'[v])
    BY <1>1, <1>2, <1>4
  <1> QED
    BY <1>3, <1>5, IInvParts DEF Observed

\* One task goes on, and no atomic is stored to.
LEMMA OneTaskMoves ==
    ASSUME IInv, NEW c \in Callers, NEW t \in Tasks, task' = [task EXCEPT ![c] = t],
           Remembers(t, history), UNCHANGED history, Observed'
    PROVE  IInv'
  <1>1. task' \in [Callers -> Tasks]
    BY IInvParts
  <1>2. TypeOK'
    BY <1>1 DEF IInv, TypeOK, Observed
  <1>3. \A b \in Callers : task'[b] = IF b = c THEN t ELSE task[b]
    BY IInvParts
  <1>4. \A b \in Callers : Remembers(task[b], history)'
    BY <1>3 DEF IInv, Remembers
  <1> QED
    BY <1>2, <1>4 DEF IInv, Declines

\* A login takes the balance it finds (src/auth.rs:314-322).
LEMMA AuthenticateKeepsIInv ==
    ASSUME IInv, NEW c \in Callers, NEW u \in Users, Authenticate(c, u)
    PROVE  IInv'
  <1>1. /\ calls' \in [Callers -> 0 .. MaxCalls]
        /\ UNCHANGED <<history, spent, granted>>
    BY IInvParts, StaticAuthAssumption DEF Authenticate, MayCall, Observed
  <1>2. CASE u \in Limited
    <2>1. PICK i \in 1 .. Len(history[u]) :
             /\ Observes(c, u, i)
             /\ task' = [task EXCEPT ![c] = [pc |-> "authenticated", user |-> u,
                                             limit |-> history[u][i]]]
      BY <1>2 DEF Authenticate
    <2>2. history[u][i] \in Balances
      BY <1>2, Orders, NewestType DEF Balances
    <2> DEFINE t == [pc |-> "authenticated", user |-> u, limit |-> history[u][i]]
    <2>3. t \in Tasks
      BY <2>2, TasksMade
    <2>4. Remembers(t, history)
      BY <1>2 DEF Remembers
    <2>5. task' = [task EXCEPT ![c] = t]
      BY <2>1
    <2> HIDE DEF t
    <2> QED
      BY <1>1, <1>2, <2>1, <2>3, <2>4, <2>5, ObservesKeepsTypes, OneTaskMoves
  <1>3. CASE u \notin Limited
    <2> DEFINE t == [pc |-> "authenticated", user |-> u, limit |-> Unlimited]
    <2>1. task' = [task EXCEPT ![c] = t] /\ UNCHANGED seen
      BY <1>3 DEF Authenticate
    <2>2. t \in Tasks
      BY TasksMade DEF Balances
    <2>3. Remembers(t, history)
      BY <1>3 DEF Remembers
    <2>4. Observed'
      BY <1>1, <2>1, IInvParts DEF Observed
    <2> HIDE DEF t
    <2> QED
      BY <1>1, <2>1, <2>2, <2>3, <2>4, OneTaskMoves
  <1> QED
    BY <1>2, <1>3

\* A report of an unlimited user is answered at once (src/auth.rs:374-390).
LEMMA ReportKeepsIInv ==
    ASSUME IInv, NEW c \in Callers, NEW id \in Users \cup {NoUser}, NEW bytes \in Chunks,
           Report(c, id, bytes)
    PROVE  IInv'
  <1> DEFINE t == IF id \in Limited THEN [pc |-> "load", user |-> id, debit |-> Debit(bytes, Cost)]
                  ELSE Idle
  <1>1. Debit(bytes, Cost) \in Debits /\ Debit(bytes, Cost) \in Nat
    BY DebitType, StaticAuthAssumption
  <1>2. t \in Tasks /\ t.pc # "authenticated"
    <2>1. CASE id \in Limited
      BY <1>1, <2>1, TasksMade
    <2>2. CASE id \notin Limited
      BY <2>2, TasksMade
    <2> QED
      BY <2>1, <2>2
  <1>3. /\ task' = [task EXCEPT ![c] = t]
        /\ UNCHANGED <<history, seen>>
        /\ calls' \in [Callers -> 0 .. MaxCalls]
    BY IInvParts, StaticAuthAssumption DEF Report, MayCall, Observed
  <1>4. spent' \in [Users -> Nat] /\ granted' \in [Users -> Nat]
    <2>1. spent \in [Users -> Nat] /\ granted \in [Users -> Nat]
      BY IInvParts DEF Observed
    <2>2. CASE id \in Users \ Limited
      <3>1. spent[id] + Debit(bytes, Cost) \in Nat /\ granted[id] + Debit(bytes, Cost) \in Nat
        BY <1>1, <2>1, <2>2
      <3> QED
        BY <2>1, <2>2, <3>1 DEF Report
    <2>3. CASE id \notin Users \ Limited
      BY <2>1, <2>3 DEF Report
    <2> QED
      BY <2>2, <2>3
  <1>5. Observed'
    BY <1>3, <1>4, IInvParts DEF Observed
  <1> HIDE DEF t
  <1> QED
    BY <1>2, <1>3, <1>5, OneTaskMoves DEF Remembers

\* The loop loads, or is handed another value to try with (src/auth.rs:391-400).
LEMMA LoopKeepsIInv ==
    ASSUME IInv, NEW c \in Callers, Load(c) \/ SwapFails(c)
    PROVE  IInv'
  <1> DEFINE u == task[c].user
  <1>1. /\ u \in Limited /\ task[c].debit \in Debits
        /\ task[c].pc = "swap" => task[c] = [pc |-> "swap", user |-> u, debit |-> task[c].debit,
                                             cur |-> task[c].cur]
    BY IInvParts, TaskParts DEF Load, SwapFails
  <1>2. PICK i \in 1 .. Len(history[u]) :
           /\ Observes(c, u, i)
           /\ task' = [task EXCEPT ![c] = [pc |-> "swap", user |-> u, debit |-> task[c].debit,
                                           cur |-> history[u][i]]]
    <2>1. CASE Load(c)
      BY <2>1 DEF Load
    <2>2. CASE SwapFails(c)
      <3>1. PICK i \in 1 .. Len(history[u]) : FailsWith(c, i)
        BY <2>2 DEF SwapFails
      <3>2. [task[c] EXCEPT !.cur = history[u][i]]
               = [pc |-> "swap", user |-> u, debit |-> task[c].debit, cur |-> history[u][i]]
        BY <1>1, <2>2 DEF SwapFails
      <3> QED
        BY <3>1, <3>2 DEF FailsWith
    <2> QED
      BY <2>1, <2>2
  <1>3. UNCHANGED <<history, calls, spent, granted>>
    BY DEF Load, SwapFails, FailsWith
  <1>4. history[u][i] \in Int
    BY <1>1, Orders, NewestType
  <1> DEFINE t == [pc |-> "swap", user |-> u, debit |-> task[c].debit, cur |-> history[u][i]]
  <1>5. t \in Tasks /\ t.pc = "swap" /\ task' = [task EXCEPT ![c] = t]
    BY <1>1, <1>2, <1>4, TasksMade
  <1>6. Observed'
    BY <1>1, <1>2, <1>3, IInvParts, ObservesKeepsTypes DEF Observed
  <1> HIDE DEF t, u
  <1> QED
    BY <1>3, <1>5, <1>6, OneTaskMoves DEF Remembers

-------------------------------------------------------------------------------

\* A successful exchange, spelt out: the value that was expected is the newest,
\* and the next one is appended to it (src/auth.rs:393-397).
LEMMA SwapParts ==
    ASSUME IInv, NEW c \in Callers, Swap(c)
    PROVE  \E u \in Limited, debit \in Debits, next \in Nat :
              /\ next = AtLeastZero(Newest(u) - debit)
              /\ history' = [history EXCEPT ![u] = Append(history[u], next)]
              /\ seen' = [seen EXCEPT ![c][u] = Len(history[u]) + 1]
              /\ spent' = [spent EXCEPT ![u] = @ + debit]
              /\ granted' = IF Exhausted(next) THEN granted ELSE [granted EXCEPT ![u] = @ + debit]
              /\ task' = [task EXCEPT ![c] = Idle]
              /\ calls' = calls
  <1> DEFINE u == task[c].user
             debit == task[c].debit
             next == AtLeastZero(task[c].cur - debit)
  <1>1. u \in Limited /\ debit \in Debits /\ debit \in Nat
    BY IInvParts, TaskParts, MeteringAssumption DEF Swap, Debits
  <1>2. task[c].cur = Newest(u)
    BY DEF Swap
  <1>3. next = AtLeastZero(Newest(u) - debit)
    BY <1>2
  <1>4. next \in Nat
    BY <1>1, <1>3, Orders, OrderGrows DEF Newest
  <1>5. /\ history' = [history EXCEPT ![u] = Append(history[u], next)]
        /\ seen' = [seen EXCEPT ![c][u] = Len(history[u]) + 1]
        /\ spent' = [spent EXCEPT ![u] = @ + debit]
        /\ granted' = IF Exhausted(next) THEN granted ELSE [granted EXCEPT ![u] = @ + debit]
        /\ task' = [task EXCEPT ![c] = Idle]
        /\ calls' = calls
    BY DEF Swap
  <1> HIDE DEF u, debit, next
  <1> QED
    BY <1>1, <1>3, <1>4, <1>5

LEMMA SwapKeepsIInv ==
    ASSUME IInv, NEW c \in Callers, Swap(c)
    PROVE  IInv'
  <1>1. PICK u \in Limited, debit \in Debits, next \in Nat :
              /\ next = AtLeastZero(Newest(u) - debit)
              /\ history' = [history EXCEPT ![u] = Append(history[u], next)]
              /\ seen' = [seen EXCEPT ![c][u] = Len(history[u]) + 1]
              /\ spent' = [spent EXCEPT ![u] = @ + debit]
              /\ granted' = IF Exhausted(next) THEN granted ELSE [granted EXCEPT ![u] = @ + debit]
              /\ task' = [task EXCEPT ![c] = Idle]
              /\ calls' = calls
    BY SwapParts
  <1>2. debit \in Nat /\ u \in Users
    BY MeteringAssumption DEF Debits, Limited
  <1>3. /\ Order(Append(history[u], next))
        /\ Len(Append(history[u], next)) = Len(history[u]) + 1
        /\ \A i \in 1 .. Len(history[u]) : Append(history[u], next)[i] = history[u][i]
    <2> DEFINE h == history[u]
    <2>1. Order(h) /\ next = AtLeastZero(h[Len(h)] - debit)
      BY <1>1, Orders DEF Newest
    <2> HIDE DEF h
    <2>2. /\ Order(Append(h, next))
          /\ Len(Append(h, next)) = Len(h) + 1
          /\ \A i \in 1 .. Len(h) : Append(h, next)[i] = h[i]
      BY <1>2, <2>1, OrderGrows, SMTT(60)
    <2> QED
      BY <2>2, Zenon DEF h
  <1>4. history' = [v \in Limited |-> IF v = u THEN Append(history[u], next) ELSE history[v]]
    BY <1>1, IInvParts
  <1>5. \A v \in Limited :
           /\ Order(history'[v])
           /\ Len(history[v]) \in Nat /\ Len(history'[v]) \in Nat
           /\ Len(history'[v]) = IF v = u THEN Len(history[v]) + 1 ELSE Len(history[v])
           /\ \A i \in 1 .. Len(history[v]) : history'[v][i] = history[v][i]
    BY <1>3, <1>4, Orders, IInvParts
  <1>6. Observed'
    <2>1. /\ seen \in [Callers -> [Limited -> Nat \ {0}]]
          /\ \A b \in Callers, v \in Limited : seen[b][v] <= Len(history[v])
          /\ spent \in [Users -> Nat] /\ granted \in [Users -> Nat]
          /\ calls \in [Callers -> 0 .. MaxCalls]
      BY IInvParts DEF Observed
    <2>2. Len(history[u]) + 1 \in Nat \ {0}
      BY <1>5
    <2>3. seen' \in [Callers -> [Limited -> Nat \ {0}]]
      BY <1>1, <2>1, <2>2
    <2>4. \A b \in Callers, v \in Limited :
             seen'[b][v] = IF b = c /\ v = u THEN Len(history[u]) + 1 ELSE seen[b][v]
      BY <1>1, <2>1
    <2>5. \A b \in Callers, v \in Limited : seen'[b][v] <= Len(history'[v])
      <3> SUFFICES ASSUME NEW b \in Callers, NEW v \in Limited
                   PROVE  seen'[b][v] <= Len(history'[v])
        OBVIOUS
      <3>1. seen[b][v] \in Nat /\ seen[b][v] <= Len(history[v])
        BY <2>1
      <3>2. /\ Len(history[v]) \in Nat
            /\ Len(history'[v]) = IF v = u THEN Len(history[v]) + 1 ELSE Len(history[v])
        BY <1>5
      <3>3. seen'[b][v] = IF b = c /\ v = u THEN Len(history[u]) + 1 ELSE seen[b][v]
        BY <2>4
      <3> QED
        BY <3>1, <3>2, <3>3
    <2>6. spent' \in [Users -> Nat] /\ granted' \in [Users -> Nat]
      <3>1. spent[u] + debit \in Nat /\ granted[u] + debit \in Nat
        BY <1>2, <2>1
      <3> QED
        BY <1>1, <1>2, <2>1, <3>1
    <2> QED
      BY <1>1, <2>1, <2>3, <2>5, <2>6 DEF Observed
  <1>7. task' \in [Callers -> Tasks] /\ \A b \in Callers : task'[b] = IF b = c THEN Idle ELSE task[b]
    BY <1>1, IInvParts, TasksMade
  <1>8. \A b \in Callers : Remembers(task'[b], history')
    <2> SUFFICES ASSUME NEW b \in Callers, b # c
                 PROVE  Remembers(task[b], history')
      BY <1>7, TasksMade DEF Remembers
    <2>1. Remembers(task[b], history)
      BY DEF IInv
    <2>2. CASE task[b].pc = "authenticated" /\ task[b].user \in Limited
      <3>1. PICK i \in 1 .. Len(history[task[b].user]) : task[b].limit = history[task[b].user][i]
        BY <2>1, <2>2 DEF Remembers
      <3>2. i \in 1 .. Len(history'[task[b].user]) /\ task[b].limit = history'[task[b].user][i]
        BY <1>5, <2>2, <3>1
      <3> QED
        BY <2>2, <3>2 DEF Remembers
    <2>3. CASE ~(task[b].pc = "authenticated" /\ task[b].user \in Limited)
      BY <2>1, <2>3 DEF Remembers
    <2> QED
      BY <2>2, <2>3
  <1>9. TypeOK'
    <2>1. history' \in [Limited -> Seq(Int)]
      BY <1>4, <1>5 DEF Order
    <2> QED
      BY <1>5, <1>6, <1>7, <2>1 DEF TypeOK, Observed, Order
  <1>10. \A v \in Limited : Declines(history'[v])
    BY <1>5 DEF Order
  <1> QED
    BY <1>8, <1>9, <1>10 DEF IInv, Remembers, Declines

-------------------------------------------------------------------------------

LEMMA InitIInv ==
    ASSUME Init
    PROVE  IInv
  <1>1. \A u \in Limited : u \in Users /\ Allowance[u] \in Int
    BY StaticAuthAssumption DEF Limited, Balances
  <1>2. \A u \in Limited : history[u] = <<Allowance[u]>>
    BY DEF Init
  <1>3. ASSUME NEW u \in Limited
        PROVE  /\ history[u] \in Seq(Int) /\ history[u] # <<>>
               /\ Len(history[u]) = 1 /\ Tail(history[u]) = <<>>
    <2> DEFINE x == Allowance[u]
    <2>1. x \in Int /\ history[u] = <<x>>
      BY <1>1, <1>2
    <2> HIDE DEF x
    <2>2. <<x>> \in Seq(Int) /\ Len(<<x>>) = 1 /\ <<x>> # <<>>
      BY <2>1
    <2>3. Tail(<<x>>) = <<>>
      <3>1. Len(Tail(<<x>>)) = 0 /\ Tail(<<x>>) \in Seq(Int)
        BY <2>1, <2>2, HeadTailProperties
      <3> QED
        BY <3>1, EmptySeq
    <2> QED
      BY <2>1, <2>2, <2>3
  <1>4. \A u \in Limited : Tail(history[u]) \in Seq(Nat)
    <2>1. <<>> \in Seq(Nat)
      BY EmptySeq
    <2> QED
      BY <1>3, <2>1
  <1>5. \A u \in Limited : Declines(history[u])
    BY <1>3 DEF Declines
  <1>6. history \in [Limited -> Seq(Int)]
    BY <1>1 DEF Init
  <1>7. task \in [Callers -> Tasks] /\ \A c \in Callers : task[c].pc = "idle"
    BY TasksMade DEF Init
  <1>8. Observed
    BY <1>3, StaticAuthAssumption DEF Init, Observed
  <1> QED
    BY <1>3, <1>4, <1>5, <1>6, <1>7, <1>8 DEF IInv, TypeOK, Observed, Remembers

LEMMA StepIInv ==
    ASSUME IInv, [Next]_vars
    PROVE  IInv'
  <1>1. CASE UNCHANGED vars
    BY <1>1 DEF IInv, TypeOK, Declines, Remembers, vars
  <1>2. ASSUME NEW c \in Callers, NEW u \in Users, Authenticate(c, u)
        PROVE  IInv'
    BY <1>2, AuthenticateKeepsIInv
  <1>3. ASSUME NEW c \in Callers, NEW id \in Users \cup {NoUser}, NEW bytes \in Chunks,
               Report(c, id, bytes)
        PROVE  IInv'
    BY <1>3, ReportKeepsIInv
  <1>4. ASSUME NEW c \in Callers, Load(c) \/ SwapFails(c)
        PROVE  IInv'
    BY <1>4, LoopKeepsIInv
  <1>5. ASSUME NEW c \in Callers, Swap(c)
        PROVE  IInv'
    BY <1>5, SwapKeepsIInv
  <1> QED
    BY <1>1, <1>2, <1>3, <1>4, <1>5 DEF Next

THEOREM StaticAuthInvariant == Spec => []IInv
  BY InitIInv, StepIInv, PTL DEF Spec

\* Every variable keeps its type: but for an allowance that was configured below
\* zero, no balance ever is (src/auth.rs:393).
THEOREM StaticAuthTypeOK == Spec => []TypeOK
  <1>1. IInv => TypeOK
    BY DEF IInv
  <1> QED
    BY <1>1, StaticAuthInvariant, PTL

\* A login judged by an old balance is refused only if the newest one is
\* exhausted too (src/auth.rs:320, src/protocols/proxy.rs:1051).
THEOREM StaleLoginsAreFair == Spec => []NeverRefusedWhileFunded
  <1>1. ASSUME IInv, NEW c \in Callers, task[c].pc = "authenticated", Exhausted(task[c].limit)
        PROVE  Exhausted(Newest(task[c].user))
    <2>1. Remembers(task[c], history)
      BY <1>1 DEF IInv
    <2>2. task[c].user \in Limited
      BY <1>1, <2>1 DEF Remembers, Exhausted
    <2>3. PICK i \in 1 .. Len(history[task[c].user]) : task[c].limit = history[task[c].user][i]
      BY <1>1, <2>1, <2>2 DEF Remembers
    <2> DEFINE h == history[task[c].user]
    <2>4. Declines(h) /\ Len(h) \in 1 .. Len(h) /\ i \in 1 .. Len(h) /\ Exhausted(h[i])
      BY <1>1, <2>2, <2>3, IInvParts DEF IInv
    <2>5. i <= Len(h)
      BY <2>4
    <2> HIDE DEF h
    <2>6. Exhausted(h[Len(h)])
      BY <2>4, <2>5 DEF Declines
    <2> QED
      BY <2>6 DEF h, Newest
  <1>2. IInv => NeverRefusedWhileFunded
    BY <1>1 DEF NeverRefusedWhileFunded
  <1> QED
    BY <1>2, StaticAuthInvariant, PTL

-------------------------------------------------------------------------------

\* The balances of the ledger, as StaticAuth maps them.
BalanceOf == [u \in Users |-> IF u \in Limited THEN Newest(u) ELSE Unlimited]

\* A successful exchange is one debit of the ledger (src/auth.rs:393-397).
LEMMA SwapApplies ==
    ASSUME IInv, NEW c \in Callers, Swap(c)
    PROVE  Ledger!Next
  <1>1. PICK u \in Limited, debit \in Debits, next \in Nat :
              /\ next = AtLeastZero(Newest(u) - debit)
              /\ history' = [history EXCEPT ![u] = Append(history[u], next)]
              /\ spent' = [spent EXCEPT ![u] = @ + debit]
              /\ granted' = IF Exhausted(next) THEN granted ELSE [granted EXCEPT ![u] = @ + debit]
    BY SwapParts
  <1>2. u \in Users /\ debit \in Nat
    BY MeteringAssumption DEF Debits, Limited
  <1>3. Newest(u) \in Int /\ Newest(u) # Unlimited
    BY Orders, NewestType, MeteringAssumption DEF Newest
  <1>4. \A v \in Limited : Newest(v)' = IF v = u THEN next ELSE Newest(v)
    <2>1. history' = [v \in Limited |-> IF v = u THEN Append(history[u], next) ELSE history[v]]
      BY <1>1, IInvParts
    <2> DEFINE h == history[u]
    <2>2. Order(h) /\ next = AtLeastZero(h[Len(h)] - debit)
      BY <1>1, Orders DEF Newest
    <2> HIDE DEF h
    <2>3. Len(Append(h, next)) = Len(h) + 1 /\ Append(h, next)[Len(h) + 1] = next
      BY <1>2, <2>2, OrderGrows, SMTT(60)
    <2>4. Append(history[u], next)[Len(Append(history[u], next))] = next
      BY <2>3, Zenon DEF h
    <2> QED
      BY <2>1, <2>4 DEF Newest
  <1>5. BalanceOf' = [BalanceOf EXCEPT ![u] = next]
    BY <1>4 DEF BalanceOf
  <1>6. BalanceOf[u] = Newest(u)
    BY <1>2 DEF BalanceOf
  <1>7. next = Ledger!Charged(BalanceOf[u], debit)
    BY <1>1, <1>3, <1>6 DEF Ledger!Charged, Ledger!AtLeastZero, AtLeastZero
  <1>8. Exhausted(next) <=> Ledger!Exhausted(next)
    BY DEF Exhausted, Ledger!Exhausted
  <1>9. Ledger!Apply(u, debit)
    BY <1>1, <1>5, <1>7, <1>8 DEF Ledger!Apply, BalanceOf
  <1> QED
    BY <1>1, <1>2, <1>9 DEF Ledger!Next, Ledger!Debits, Debits

\* A report of an unlimited user is one debit, of a balance that stays unlimited
\* (src/auth.rs:387-390).
LEMMA UnlimitedReportApplies ==
    ASSUME IInv, NEW c \in Callers, NEW id \in Users \ Limited, NEW bytes \in Chunks,
           Report(c, id, bytes)
    PROVE  Ledger!Next
  <1>1. Debit(bytes, Cost) \in Debits
    BY DebitType, StaticAuthAssumption
  <1>2. /\ UNCHANGED history
        /\ spent' = [spent EXCEPT ![id] = @ + Debit(bytes, Cost)]
        /\ granted' = [granted EXCEPT ![id] = @ + Debit(bytes, Cost)]
    BY DEF Report
  <1> DEFINE debit == Debit(bytes, Cost)
  <1>3. BalanceOf' = BalanceOf /\ BalanceOf[id] = Unlimited
    BY <1>2 DEF BalanceOf, Newest
  <1>4. BalanceOf' = [BalanceOf EXCEPT ![id] = Unlimited]
    BY <1>3 DEF BalanceOf
  <1>5. Ledger!Charged(BalanceOf[id], debit) = Unlimited /\ ~Ledger!Exhausted(Unlimited)
    BY <1>3 DEF Ledger!Charged, Ledger!Exhausted
  <1> HIDE DEF debit
  <1>6. Ledger!Apply(id, debit)
    BY <1>2, <1>4, <1>5 DEF Ledger!Apply, BalanceOf, debit
  <1> QED
    BY <1>1, <1>6 DEF Ledger!Next, Ledger!Debits, Debits, debit

\* Every other step leaves the ledger alone.
LEMMA LedgerStep ==
    ASSUME IInv, [Next]_vars
    PROVE  [Ledger!Next]_(Ledger!ledgerVars)
  <1>1. ASSUME NEW c \in Callers, Swap(c)
        PROVE  Ledger!Next
    BY <1>1, SwapApplies
  <1>2. ASSUME NEW c \in Callers, NEW id \in Users \ Limited, NEW bytes \in Chunks,
               Report(c, id, bytes)
        PROVE  Ledger!Next
    BY <1>2, UnlimitedReportApplies
  <1>3. \/ \E c \in Callers : Swap(c)
        \/ \E c \in Callers, id \in Users \ Limited, bytes \in Chunks : Report(c, id, bytes)
        \/ UNCHANGED <<history, spent, granted>>
    <2>1. ASSUME NEW c \in Callers, NEW id \in Users \cup {NoUser}, NEW bytes \in Chunks,
                 Report(c, id, bytes)
          PROVE  id \in Users \ Limited \/ UNCHANGED <<history, spent, granted>>
      BY <2>1 DEF Report
    <2> QED
      BY <2>1 DEF Next, Authenticate, Load, SwapFails, FailsWith, vars
  <1>4. CASE UNCHANGED <<history, spent, granted>>
    BY <1>4 DEF Ledger!ledgerVars, Newest
  <1> QED
    BY <1>1, <1>2, <1>3, <1>4

\* Interleaved loops of any number of tasks implement the ledger: every debit
\* takes effect once, and its answer is the balance it left (src/auth.rs:391-401).
THEOREM StaticAuthImplementsLedger == Spec => LedgerSpec
  <1>1. Init => Ledger!Init
    <2> SUFFICES ASSUME Init PROVE Ledger!Init
      OBVIOUS
    <2>1. ASSUME NEW u \in Limited
          PROVE  Newest(u) = Allowance[u]
      <3> DEFINE x == Allowance[u]
      <3>1. history[u] = <<x>>
        BY <2>1 DEF Init
      <3> HIDE DEF x
      <3>2. <<x>>[Len(<<x>>)] = x
        OBVIOUS
      <3> QED
        BY <3>1, <3>2 DEF Newest, x
    <2>2. BalanceOf = Allowance
      BY <2>1, StaticAuthAssumption DEF BalanceOf, Limited
    <2> QED
      BY <2>2 DEF Init, Ledger!Init, BalanceOf
  <1> QED
    BY <1>1, StaticAuthInvariant, LedgerStep, PTL DEF Spec, Ledger!Spec, LedgerSpec
===============================================================================
