--------------------------------- MODULE Relay ---------------------------------
(***************************************************************************)
(* src/protocols/proxy.rs, proxy_data: the two pumps of each relayed       *)
(* connection, metered chunk by chunk against the balance of the account   *)
(* the connection was authenticated for.  A pump reads a chunk, reports it *)
(* (the debit is committed, then answered with the balance it left), and   *)
(* only then writes it on; select! ends the relay as soon as one pump      *)
(* ends, and drops the other wherever it is.                               *)
(*                                                                         *)
(* With the "static" back end report_usage never awaits: from the read to  *)
(* the start of the write one pump has its task to itself, although tasks  *)
(* of other connections run in between.  With "postgres" the report is a   *)
(* query in flight: the sibling pump may end the relay meanwhile, and the  *)
(* statement may still commit afterwards, fail, or commit and lose its     *)
(* answer.                                                                 *)
(*                                                                         *)
(* A debit is one step: StaticAuth shows the in-memory loop to be one, and *)
(* in the database it is one statement (src/auth.rs:248-253).  The         *)
(* connection counters that end-of-relay updates are in Lifecycle.  The    *)
(* handshake between check_bandwidth and the first read is left out: a     *)
(* relay that has been admitted and has not read yet is in the same        *)
(* situation.                                                              *)
(***************************************************************************)
EXTENDS Allowances, FiniteSets

CONSTANTS
    Conns,        \* connections
    NoAccount,    \* owner of a connection relayed without authentication
    Owner,        \* the account each connection authenticates as
    Cost,         \* cost_per_byte of the first hop of each connection
    Chunks,       \* sizes of the chunks a read may return
    MaxBytes      \* bound: bytes counted in each direction

ASSUME RelayAssumption ==
    /\ NoAccount \notin Accounts
    /\ Owner \in [Conns -> Accounts \cup {NoAccount}]
    /\ Cost \in [Conns -> Costs]
    /\ Chunks \subseteq Nat \ {0}
    /\ MaxBytes \in Nat

VARIABLES
    backend,      \* "static" or "postgres": the one the router was started with
    status,       \* where each connection is, or how its relay ended
    pump,         \* the pump of each connection and direction
    counted,      \* total_bytes_in / total_bytes_out of the statistics
    remaining,    \* the balance of each account
    spent,        \* history variable: debits applied to each account
    granted,      \* history variable: those that left a positive balance
    paid,         \* history variable: debits applied for each pump
    passed,       \* history variable: the part whose chunks went to write_all
    written       \* history variable: the part whose write_all came to its end

ledger == <<remaining, spent, granted>>
vars   == <<backend, status, pump, counted, ledger, paid, passed, written>>

\* "out" carries client to upstream, "in" carries upstream to client.
Dirs    == {"in", "out"}
Endings == {"eof", "exhausted", "io", "backend"}

Metered(c) == Owner[c] # NoAccount
Price(c, bytes) == Debit(bytes, Cost[c])

\* The balance that debiting the chunk of pump (c, d) leaves.
Balance(c, d) == Charged(remaining[Owner[c]], Price(c, pump[c][d].bytes))

Reading == [pc |-> "read"]
Stopped == [pc |-> "stopped"]

Init ==
    /\ backend \in {"static", "postgres"}
    /\ status = [c \in Conns |-> "accepted"]
    /\ pump = [c \in Conns |-> [d \in Dirs |-> Stopped]]
    /\ counted = [d \in Dirs |-> 0]
    /\ remaining = Limit
    /\ spent = [a \in Accounts |-> 0]
    /\ granted = [a \in Accounts |-> 0]
    /\ paid = [c \in Conns |-> [d \in Dirs |-> 0]]
    /\ passed = [c \in Conns |-> [d \in Dirs |-> 0]]
    /\ written = [c \in Conns |-> [d \in Dirs |-> 0]]

\* Mutation of TaskIsFree: report_usage of the static back end awaits.
TaskIsAlwaysFree(c) == TRUE

\* The static back end answers within one poll, during which the sibling pump
\* of the same task is not polled.
TaskIsFree(c) ==
    backend = "static" => \A d \in Dirs : pump[c][d].pc \notin {"report", "answer"}

At(c, d, pc) == status[c] = "relaying" /\ pump[c][d].pc = pc

\* The relay ends: both pumps are dropped.  A query already sent is not
\* recalled; whether it commits is up to the database.
Close(c, why) ==
    /\ status' = [status EXCEPT ![c] = why]
    /\ pump' = [pump EXCEPT ![c] = [d \in Dirs |->
                  IF @[d].pc = "report" THEN [pc |-> "orphan", bytes |-> @[d].bytes]
                  ELSE Stopped]]

-------------------------------------------------------------------------------

\* check_bandwidth after authentication: the balance is looked at once.
Admit(c) ==
    /\ status[c] = "accepted"
    /\ Metered(c) => ~Exhausted(remaining[Owner[c]])
    /\ status' = [status EXCEPT ![c] = "relaying"]
    /\ pump' = [pump EXCEPT ![c] = [d \in Dirs |-> Reading]]
    /\ UNCHANGED <<backend, counted, ledger, paid, passed, written>>

Refuse(c) ==
    /\ status[c] = "accepted"
    /\ Metered(c)
    /\ Exhausted(remaining[Owner[c]])
    /\ status' = [status EXCEPT ![c] = "refused"]
    /\ UNCHANGED <<backend, pump, counted, ledger, paid, passed, written>>

\* A read returns a chunk; it is counted, and reported if the connection has an
\* account.
Read(c, d, bytes) ==
    /\ At(c, d, "read")
    /\ TaskIsFree(c)
    /\ counted[d] + bytes <= MaxBytes
    /\ counted' = [counted EXCEPT ![d] = @ + bytes]
    /\ pump' = [pump EXCEPT ![c][d] =
                  [pc |-> IF Metered(c) THEN "report" ELSE "write", bytes |-> bytes]]
    /\ UNCHANGED <<backend, status, ledger, paid, passed, written>>

\* Mutation of Debited: the answer is computed but the balance not stored.
DebitedInVain(c, d) ==
    LET price == Price(c, pump[c][d].bytes)
    IN  /\ spent' = [spent EXCEPT ![Owner[c]] = @ + price]
        /\ granted' = IF Exhausted(Balance(c, d)) THEN granted
                      ELSE [granted EXCEPT ![Owner[c]] = @ + price]
        /\ paid' = [paid EXCEPT ![c][d] = @ + price]
        /\ UNCHANGED remaining

\* The statement commits: the price of the chunk is debited.
Debited(c, d) ==
    LET price == Price(c, pump[c][d].bytes)
    IN  /\ remaining' = [remaining EXCEPT ![Owner[c]] = Balance(c, d)]
        /\ spent' = [spent EXCEPT ![Owner[c]] = @ + price]
        /\ granted' = IF Exhausted(Balance(c, d)) THEN granted
                      ELSE [granted EXCEPT ![Owner[c]] = @ + price]
        /\ paid' = [paid EXCEPT ![c][d] = @ + price]

\* The debit takes effect for a pump that waits for the answer, ...
Commit(c, d) ==
    /\ At(c, d, "report")
    /\ Debited(c, d)
    /\ pump' = [pump EXCEPT ![c][d] = [pc |-> "answer", bytes |-> @.bytes,
                                       left |-> Balance(c, d)]]
    /\ UNCHANGED <<backend, status, counted, passed, written>>

\* Mutation of CommitLate: the statement is run again and again.
CommitLateRepeats(c, d) ==
    /\ pump[c][d].pc = "orphan"
    /\ Debited(c, d)
    /\ UNCHANGED <<backend, status, pump, counted, passed, written>>

\* ... or for one that has been dropped in the meantime.
CommitLate(c, d) ==
    /\ pump[c][d].pc = "orphan"
    /\ Debited(c, d)
    /\ pump' = [pump EXCEPT ![c][d] = Stopped]
    /\ UNCHANGED <<backend, status, counted, passed, written>>

\* Mutation of Granted: the chunk is written before the answer is looked at.
WritesFirst(c, d) ==
    /\ At(c, d, "answer")
    /\ pump' = [pump EXCEPT ![c][d] = [pc |-> "write", bytes |-> @.bytes]]
    /\ passed' = [passed EXCEPT ![c][d] = @ + Price(c, pump[c][d].bytes)]
    /\ UNCHANGED <<backend, status, counted, ledger, paid, written>>

\* The balance comes back: the chunk is handed to write_all ...
Granted(c, d) ==
    /\ At(c, d, "answer")
    /\ ~Exhausted(pump[c][d].left)
    /\ pump' = [pump EXCEPT ![c][d] = [pc |-> "write", bytes |-> @.bytes]]
    /\ passed' = [passed EXCEPT ![c][d] = @ + Price(c, pump[c][d].bytes)]
    /\ UNCHANGED <<backend, status, counted, ledger, paid, written>>

\* Mutation of CutOff: the chunk is skipped but the pump goes on.
SkipsTheChunk(c, d) ==
    /\ At(c, d, "answer")
    /\ Exhausted(pump[c][d].left)
    /\ pump' = [pump EXCEPT ![c][d] = Reading]
    /\ UNCHANGED <<backend, status, counted, ledger, paid, passed, written>>

\* ... or the allowance is spent, and the relay ends without writing it.
CutOff(c, d) ==
    /\ At(c, d, "answer")
    /\ Exhausted(pump[c][d].left)
    /\ Close(c, "exhausted")
    /\ UNCHANGED <<backend, counted, ledger, paid, passed, written>>

\* write_all and flush come to their end.  Until then they wait for the peer, and
\* the write may fail (IoFails) or be dropped with its pump (Close).
Written(c, d) ==
    /\ At(c, d, "write")
    /\ TaskIsFree(c)
    /\ pump' = [pump EXCEPT ![c][d] = Reading]
    /\ written' = IF Metered(c)
                  THEN [written EXCEPT ![c][d] = @ + Price(c, pump[c][d].bytes)]
                  ELSE written
    /\ UNCHANGED <<backend, status, counted, ledger, paid, passed>>

Eof(c, d) ==
    /\ At(c, d, "read")
    /\ TaskIsFree(c)
    /\ Close(c, "eof")
    /\ UNCHANGED <<backend, counted, ledger, paid, passed, written>>

IoFails(c, d) ==
    /\ At(c, d, "read") \/ At(c, d, "write")
    /\ TaskIsFree(c)
    /\ Close(c, "io")
    /\ UNCHANGED <<backend, counted, ledger, paid, passed, written>>

\* report_usage returns an error: the statement did not commit, may yet commit,
\* or did commit and its answer is lost.
QueryFails(c, d) ==
    /\ backend = "postgres"
    /\ At(c, d, "report") \/ At(c, d, "answer")
    /\ Close(c, "backend")
    /\ UNCHANGED <<backend, counted, ledger, paid, passed, written>>

\* A query whose pump is gone never commits.
OrphanIsLost(c, d) ==
    /\ pump[c][d].pc = "orphan"
    /\ pump' = [pump EXCEPT ![c][d] = Stopped]
    /\ UNCHANGED <<backend, status, counted, ledger, paid, passed, written>>

Next ==
    \E c \in Conns :
        \/ Admit(c)
        \/ Refuse(c)
        \/ \E d \in Dirs :
              \/ \E bytes \in Chunks : Read(c, d, bytes)
              \/ Commit(c, d)
              \/ CommitLate(c, d)
              \/ Granted(c, d)
              \/ CutOff(c, d)
              \/ Written(c, d)
              \/ Eof(c, d)
              \/ IoFails(c, d)
              \/ QueryFails(c, d)
              \/ OrphanIsLost(c, d)

\* The back end answers a report and the pump is polled again; nothing is
\* assumed of the peers.
Fairness ==
    \A c \in Conns, d \in Dirs : WF_vars(Commit(c, d)) /\ WF_vars(CutOff(c, d))

Spec == Init /\ [][Next]_vars /\ Fairness

-------------------------------------------------------------------------------

Pumps ==
    [pc : {"read", "stopped"}]
    \cup [pc : {"report", "orphan", "write"}, bytes : Chunks]
    \cup [pc : {"answer"}, bytes : Chunks, left : Nat \cup {Unlimited}]

TypeOK ==
    /\ backend \in {"static", "postgres"}
    /\ status \in [Conns -> {"accepted", "refused", "relaying"} \cup Endings]
    /\ pump \in [Conns -> [Dirs -> Pumps]]
    /\ counted \in [Dirs -> 0 .. MaxBytes]
    /\ remaining \in [Accounts -> Balances]
    /\ spent \in [Accounts -> Nat]
    /\ granted \in [Accounts -> Nat]
    /\ paid \in [Conns -> [Dirs -> Nat]]
    /\ passed \in [Conns -> [Dirs -> Nat]]
    /\ written \in [Conns -> [Dirs -> Nat]]

\* Only a metered connection reports, and a pump is alive exactly while its
\* connection relays.
PumpsMatchStatus ==
    \A c \in Conns, d \in Dirs :
        /\ pump[c][d].pc \in {"report", "answer", "orphan"} => Metered(c)
        /\ status[c] = "relaying" <=> pump[c][d].pc \notin {"stopped", "orphan"}

Ledger == INSTANCE AccountLedger

\* Connections, queries that outlive them and failures implement the ledger:
\* every debit that takes effect does so once and in one step
\* (src/protocols/proxy.rs:930-940, :981-991).
LedgerSpec == Ledger!Spec

\* Whatever connections, queries and failures do to it, a balance is its limit
\* less everything debited, floored at zero, and what was answered with a positive
\* balance never adds up to the limit (src/auth.rs:248-271, :391-401).
BalancesHold == Ledger!LedgerExact /\ Ledger!GrantedWithinLimit

\* What all connections of one account together hand to write_all stays below its
\* limit, however their reports interleave and whichever of them fail
\* (src/protocols/proxy.rs:935-939: the cut-off comes before the write).
HandedOnWithinLimit ==
    \A a \in Accounts :
        LET handedOn == UNION {{<<c, d>>} \X (1 .. passed[c][d]) :
                                  c \in {b \in Conns : Owner[b] = a}, d \in Dirs}
        IN  Limit[a] # Unlimited =>
                Cardinality(handedOn) = 0 \/ Cardinality(handedOn) < Limit[a]

\* A pump never owes more than the chunk in its hand: whatever it was debited for
\* and has not written is the price of one chunk, from the debit to the end of the
\* write, and nothing is owing while it reads or waits for the debit
\* (src/protocols/proxy.rs:935-936, "bounding overage to the chunk already in
\* flight").
OneChunkAtRisk ==
    \A c \in Conns, d \in Dirs :
        LET owing == paid[c][d] - written[c][d]
        IN  /\ pump[c][d].pc \in {"read", "report", "orphan"} => owing = 0
            /\ pump[c][d].pc = "answer" => owing = Price(c, pump[c][d].bytes)
            /\ pump[c][d].pc = "write" /\ Metered(c) => owing = Price(c, pump[c][d].bytes)
            /\ pump[c][d].pc = "stopped" =>
                  owing = 0 \/ \E bytes \in Chunks : owing = Price(c, bytes)

\* There are two places where a chunk that was charged is lost.  Between debit and
\* write it is withheld: over the in-memory back end, which does not await there
\* (src/auth.rs:374-403), only by the cut-off, and only for one of the two pumps.
\* In its write it is cut short, by an error (src/protocols/proxy.rs:941, :992)
\* or by select!, which drops the sibling (:1024): of a relay that ends with an
\* end of file or the cut-off, only for the pump that did not end it.
OnlyCutOffOrWriteLosesAChunk ==
    \A c \in Conns :
        LET stopped  == {d \in Dirs : pump[c][d].pc = "stopped"}
            withheld == {d \in stopped : paid[c][d] # passed[c][d]}
            cutShort == {d \in stopped : passed[c][d] # written[c][d]}
        IN  /\ backend = "static" /\ withheld # {} =>
                  status[c] = "exhausted" /\ Cardinality(withheld) = 1
            /\ status[c] \in {"eof", "exhausted"} => Cardinality(cutShort) <= 1
            /\ withheld \cap cutShort = {}

\* A relay that has read a chunk on a spent account ends: the account's other
\* connections cannot keep it going (src/protocols/proxy.rs:937-939, :988-990).
SpentRelayEnds ==
    \A c \in Conns, d \in Dirs :
        (At(c, d, "report") /\ Exhausted(remaining[Owner[c]])) ~> (status[c] # "relaying")
===============================================================================
