------------------------------- MODULE StatsFlush -------------------------------
(***************************************************************************)
(* The totals of src/stats/global.rs across restarts: counted in memory by *)
(* every task, loaded from the table global when the process starts, and   *)
(* written back to it by the loop of src/stats/display.rs, whole, never as *)
(* an increment.                                                           *)
(*                                                                         *)
(* Of the five totals two are kept, in the order get_stats reads them: the *)
(* loop is not alone, and a snapshot may mix an old value of one with a    *)
(* new value of the other.  Logs, rates and the redrawing of the screen    *)
(* are left out, except that a terminal which cannot be written to ends    *)
(* the loop, and with it the writing back.  The connection to the database *)
(* is opened when the process starts and never again: once it is lost the  *)
(* loop goes on and every write fails.                                     *)
(***************************************************************************)
EXTENDS Naturals

CONSTANTS
    FlushTicks,   \* DB_UPDATE_INTERVAL_TICKS
    MaxEvents     \* bound: events of each kind

ASSUME StatsFlushAssumption == FlushTicks \in Nat \ {0} /\ MaxEvents \in Nat

VARIABLES
    process,      \* "down", "booting" or "up"
    connected,    \* its connection to the database is alive
    mem,          \* the totals in memory
    loop,         \* the display loop: where it is, what it has read and last wrote
    db,           \* the row of the table global
    orphan,       \* an UPDATE whose process died, or lost its connection, before it
                  \* was answered
    happened,     \* history variable: events that ever were
    tainted       \* history variable: a process has not loaded the row, or has
                  \* loaded it while an earlier one was still writing it

vars == <<process, connected, mem, loop, db, orphan, happened, tainted>>

Totals == {"bytes", "connections"}
Zero   == [t \in Totals |-> 0]
Never  == [t \in {} |-> 0]    \* no snapshot yet

Fresh == [pc |-> "waiting", ticks |-> 0, snap |-> Never, last |-> Never]

Init ==
    /\ process = "down"
    /\ connected = FALSE
    /\ mem = Zero
    /\ loop = Fresh
    /\ db = Zero
    /\ orphan = Never
    /\ happened = Zero
    /\ tainted = FALSE

-------------------------------------------------------------------------------

\* The connection is opened; without it the process does not start.
Boot ==
    /\ process = "down"
    /\ process' = "booting"
    /\ connected' = TRUE
    /\ mem' = Zero
    /\ loop' = Fresh
    /\ UNCHANGED <<db, orphan, happened, tainted>>

\* Mutation of Load: the row is not read.
LoadsNothing ==
    /\ process = "booting"
    /\ connected
    /\ process' = "up"
    /\ UNCHANGED <<connected, mem, loop, db, orphan, happened, tainted>>

\* load_from_db; connections are accepted afterwards.
Load ==
    /\ process = "booting"
    /\ connected
    /\ process' = "up"
    /\ mem' = db
    /\ tainted' = (tainted \/ orphan # Never)
    /\ UNCHANGED <<connected, loop, db, orphan, happened>>

\* Its failure is reported and passed over.
LoadFails ==
    /\ process = "booting"
    /\ process' = "up"
    /\ tainted' = (tainted \/ db # Zero \/ orphan # Never)
    /\ UNCHANGED <<connected, mem, loop, db, orphan, happened>>

Count(t) ==
    /\ process = "up"
    /\ happened[t] < MaxEvents
    /\ mem' = [mem EXCEPT ![t] = @ + 1]
    /\ happened' = [happened EXCEPT ![t] = @ + 1]
    /\ UNCHANGED <<process, connected, loop, db, orphan, tainted>>

\* Mutation of Tick: the tick is not counted.
TickUncounted ==
    /\ process = "up"
    /\ loop.pc = "waiting"
    /\ loop' = [loop EXCEPT !.pc = "reading", !.snap = [bytes |-> mem["bytes"]]]
    /\ UNCHANGED <<process, connected, mem, db, orphan, happened, tainted>>

\* The interval fires, and get_stats begins with the bytes ...
Tick ==
    /\ process = "up"
    /\ loop.pc = "waiting"
    /\ loop' = [loop EXCEPT !.pc = "reading", !.ticks = @ + 1,
                            !.snap = [bytes |-> mem["bytes"]]]
    /\ UNCHANGED <<process, connected, mem, db, orphan, happened, tainted>>

\* The row is written when the totals differ from those it was last asked to
\* hold, and every FlushTicks ticks.
Due(snap) == snap # loop.last \/ loop.ticks >= FlushTicks

\* ... and ends with the connections.
Snapshot ==
    /\ process = "up"
    /\ loop.pc = "reading"
    /\ LET snap == [bytes |-> loop.snap.bytes, connections |-> mem["connections"]]
       IN  loop' = [loop EXCEPT !.pc = IF Due(snap) THEN "writing" ELSE "waiting",
                                !.snap = snap]
    /\ UNCHANGED <<process, connected, mem, db, orphan, happened, tainted>>

\* A redraw fails.
TerminalFails ==
    /\ process = "up"
    /\ loop.pc = "reading"
    /\ loop' = [loop EXCEPT !.pc = "ended"]
    /\ UNCHANGED <<process, connected, mem, db, orphan, happened, tainted>>

\* Mutation of Written: the ticks go on counting.
WrittenStillCounting == [loop EXCEPT !.pc = "waiting", !.last = loop.snap]

\* Whatever became of the UPDATE, the snapshot counts as written.
Written == [loop EXCEPT !.pc = "waiting", !.last = loop.snap, !.ticks = 0]

\* Mutation of Stored: the snapshot is added.
StoredOnTop(snap) == [t \in Totals |-> db[t] + snap[t]]

Stored(snap) == snap

Commit ==
    /\ process = "up"
    /\ connected
    /\ loop.pc = "writing"
    /\ db' = Stored(loop.snap)
    /\ loop' = Written
    /\ UNCHANGED <<process, connected, mem, orphan, happened, tainted>>

\* The database refuses it, or the connection is gone.
WriteFails ==
    /\ process = "up"
    /\ loop.pc = "writing"
    /\ loop' = Written
    /\ UNCHANGED <<process, connected, mem, db, orphan, happened, tainted>>

\* The UPDATE under way on the connection, if there is one, is left to the
\* database, which may still be working for it.  Bound: of several such writes
\* only the last is kept.
Abandoned ==
    IF process = "up" /\ connected /\ loop.pc = "writing" THEN loop.snap ELSE orphan

\* The connection ends; its task reports that and nobody opens another.
ConnectionIsLost ==
    /\ connected
    /\ connected' = FALSE
    /\ orphan' = Abandoned
    /\ UNCHANGED <<process, mem, loop, db, happened, tainted>>

\* The process dies, and its connection with it.
Crash ==
    /\ process # "down"
    /\ process' = "down"
    /\ connected' = FALSE
    /\ orphan' = Abandoned
    /\ UNCHANGED <<mem, loop, db, happened, tainted>>

OrphanCommits ==
    /\ orphan # Never
    /\ db' = Stored(orphan)
    /\ orphan' = Never
    /\ UNCHANGED <<process, connected, mem, loop, happened, tainted>>

OrphanIsLost ==
    /\ orphan # Never
    /\ orphan' = Never
    /\ UNCHANGED <<process, connected, mem, loop, db, happened, tainted>>

Next ==
    \/ Boot
    \/ Load
    \/ LoadFails
    \/ \E t \in Totals : Count(t)
    \/ Tick
    \/ Snapshot
    \/ TerminalFails
    \/ Commit
    \/ WriteFails
    \/ ConnectionIsLost
    \/ Crash
    \/ OrphanCommits
    \/ OrphanIsLost

\* The interval keeps firing and the loop is polled.  A database that is asked
\* again and again over a live connection commits again and again; over a lost
\* one Commit is never enabled, and nothing is asked of it.
Fairness == WF_vars(Tick) /\ WF_vars(Snapshot) /\ SF_vars(Commit)

Spec == Init /\ [][Next]_vars /\ Fairness

-------------------------------------------------------------------------------

Row == [Totals -> 0 .. MaxEvents]

AtMost(a, b) == \A t \in Totals : a[t] <= b[t]

TypeOK ==
    /\ process \in {"down", "booting", "up"}
    /\ connected \in BOOLEAN
    /\ mem \in Row /\ db \in Row /\ happened \in Row
    /\ orphan \in Row \cup {Never}
    /\ loop.pc \in {"waiting", "reading", "writing", "ended"}
    /\ loop.ticks \in 0 .. FlushTicks
    /\ loop.last \in Row \cup {Never}
    /\ tainted \in BOOLEAN

\* No restart, failed load, repeated or late write makes the totals count an
\* event twice (src/stats/global.rs:149-170, src/stats/display.rs:323-353).
NeverAheadOfEvents == AtMost(mem, happened) /\ AtMost(db, happened)

\* The row shrinks only after a load that failed, or that found the last write
\* of an earlier process still under way (src/main.rs:66-68, src/stats/display.rs:323-336).
StoredTotalsGrow == [][~tainted' => AtMost(db, db')]_vars

\* While a process, its loop and its one connection to the database live, what
\* they have counted is stored in the end, although a write that failed is taken
\* for written (src/stats/display.rs:313-319).  Without the connection, which is
\* not opened again (src/main.rs:57-63), nothing is promised: what is counted
\* from then on is in memory only.
EventuallyStored ==
    <>[](process = "up" /\ connected /\ loop.pc # "ended") => <>[](db = mem)
===============================================================================
