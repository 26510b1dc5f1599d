---------------------------- MODULE StatsFlushProofs ----------------------------
(***************************************************************************)
(* The stored totals never count an event twice and shrink only after a    *)
(* load that failed or came too early, for every number of events and of   *)
(* ticks, and however often the process dies.                              *)
(*                                                                         *)
(* A total passes through five places: it happens, is counted in memory,   *)
(* is read into a snapshot, is written to the row, or is left in a write   *)
(* whose process died or lost its connection.  Trailing says that none of  *)
(* the others is ahead of what has happened.  While no load has gone       *)
(* wrong, the row is also behind all that may be written to it (Growing):  *)
(* that is the memory and the snapshot of a process that is connected, and *)
(* the write left behind.                                                  *)
(***************************************************************************)
EXTENDS StatsFlush, TLAPS

\* A snapshot begun has the bytes, and one finished has both totals.
Begun    == process = "up" /\ loop.pc = "reading"
Finished == process = "up" /\ loop.pc = "writing"

Snapshots == [{"bytes"} -> 0 .. MaxEvents]

Shape ==
    /\ loop \in [pc    : {"waiting", "reading", "writing", "ended"},
                 ticks : 0 .. FlushTicks,
                 snap  : Row \cup Snapshots \cup {Never},
                 last  : Row \cup {Never}]
    /\ loop.pc = "waiting" => loop.ticks < FlushTicks
    /\ loop.pc = "reading" => loop.snap \in Snapshots
    /\ loop.pc = "writing" => loop.snap \in Row

Trailing ==
    /\ AtMost(mem, happened)
    /\ AtMost(db, happened)
    /\ orphan # Never => AtMost(orphan, happened)
    /\ Begun => loop.snap["bytes"] <= happened["bytes"]
    /\ Finished => AtMost(loop.snap, happened)

Growing ==
    /\ process = "booting" => mem = Zero /\ loop = Fresh
    /\ ~tainted => /\ process = "up" /\ connected => AtMost(db, mem) /\ orphan = Never
                   /\ orphan # Never => AtMost(db, orphan)
                   /\ Begun /\ connected => /\ db["bytes"] <= loop.snap["bytes"]
                                            /\ loop.snap["bytes"] <= mem["bytes"]
                   /\ Finished /\ connected => AtMost(db, loop.snap) /\ AtMost(loop.snap, mem)

IInv == TypeOK /\ Shape /\ Trailing /\ Growing

-------------------------------------------------------------------------------

\* Both totals, one by one.
LEMMA Pointwise ==
    ASSUME NEW a, NEW b
    PROVE  AtMost(a, b) <=> /\ a["bytes"] <= b["bytes"]
                            /\ a["connections"] <= b["connections"]
  BY DEF AtMost, Totals

LEMMA Ordered ==
    ASSUME NEW a \in Row, NEW b \in Row, NEW c \in Row
    PROVE  /\ AtMost(a, a)
           /\ AtMost(a, b) /\ AtMost(b, c) => AtMost(a, c)
  <1>1. \A r \in Row, t \in Totals : r[t] \in Nat
    BY DEF Row
  <1> QED
    BY <1>1 DEF AtMost

LEMMA InitIInv == Init => IInv
  <1> SUFFICES ASSUME Init PROVE IInv
    OBVIOUS
  <1> USE StatsFlushAssumption
  <1>1. Zero \in Row
    BY DEF Zero, Row, Totals
  <1>a. FlushTicks \in Nat /\ 0 < FlushTicks /\ 0 \in 0 .. FlushTicks
    BY DEF StatsFlushAssumption
  <1>b. Fresh \in [pc : {"waiting", "reading", "writing", "ended"}, ticks : 0 .. FlushTicks,
                   snap : Row \cup Snapshots \cup {Never}, last : Row \cup {Never}]
    BY <1>a DEF Fresh
  <1>2. TypeOK /\ Shape
    <2>1. TypeOK
      BY <1>1, <1>b DEF Init, TypeOK, Fresh
    <2>2. Shape
      BY <1>a, <1>b DEF Init, Shape, Fresh
    <2> QED
      BY <2>1, <2>2
  <1>3. AtMost(Zero, Zero)
    BY DEF AtMost, Zero
  <1>4. Trailing
    BY <1>3, Zenon DEF Init, Trailing, Begun, Finished
  <1>5. Growing
    BY <1>3 DEF Init, Growing, Begun, Finished
  <1> QED
    BY <1>2, <1>4, <1>5 DEF IInv

\* The process: its start, its end, the load in between, and the loss of its
\* connection (src/main.rs:34-68, :153-156).
LEMMA ProcessSteps ==
    ASSUME IInv, Boot \/ Load \/ LoadFails \/ ConnectionIsLost \/ Crash
    PROVE  IInv' /\ (~tainted' => AtMost(db, db'))
  <1> USE StatsFlushAssumption
  <1>0. /\ Zero \in Row /\ Zero["bytes"] = 0 /\ Zero["connections"] = 0
        /\ \A r \in Row : r["bytes"] \in Nat /\ r["connections"] \in Nat
    BY DEF Zero, Row, Totals
  <1>t. TypeOK /\ Shape
    BY DEF IInv
  <1>d. db' = db
    BY DEF Boot, Load, LoadFails, ConnectionIsLost, Crash
  <1>1. CASE Boot
    <2>1. TypeOK' /\ Shape'
      BY <1>0, <1>1, <1>t DEF Boot, TypeOK, Shape, Fresh
    <2>2. Trailing' /\ Growing'
      BY <1>0, <1>1, Pointwise DEF Boot, IInv, TypeOK, Trailing, Growing, Fresh, Begun, Finished
    <2> QED
      BY <1>0, <1>d, <1>t, <2>1, <2>2, Pointwise DEF IInv, TypeOK
  <1>2. CASE Load \/ LoadFails
    <2>1. TypeOK' /\ Shape'
      BY <1>0, <1>2, <1>t DEF Load, LoadFails, TypeOK, Shape
    <2>2. loop = Fresh /\ ~Begun' /\ ~Finished'
      BY <1>2 DEF Load, LoadFails, IInv, Growing, Fresh, Begun, Finished
    <2>3. Trailing'
      BY <1>0, <1>2, <2>2 DEF Load, LoadFails, IInv, Trailing
    <2>4. ASSUME ~tainted'
          PROVE  AtMost(db', mem') /\ orphan' = Never
      <3>1. CASE Load
        <4>1. orphan' = Never
          BY <2>4, <3>1, Zenon DEF Load
        <4>2. AtMost(db, db)
          BY <1>0, <1>t, Pointwise DEF TypeOK
        <4> QED
          BY <3>1, <4>1, <4>2 DEF Load
      <3>2. CASE LoadFails
        <4>1. orphan' = Never /\ db = Zero /\ mem = Zero
          BY <2>4, <3>2, Zenon DEF LoadFails, IInv, Growing
        <4>2. AtMost(Zero, Zero)
          BY <1>0, Pointwise
        <4> QED
          BY <3>2, <4>1, <4>2 DEF LoadFails
      <3> QED
        BY <1>2, <3>1, <3>2
    <2>5. Growing'
      BY <1>2, <2>2, <2>4 DEF Load, LoadFails, Growing
    <2> QED
      BY <1>0, <1>d, <1>t, <2>1, <2>3, <2>5, Pointwise DEF IInv, TypeOK
  <1>3. CASE ConnectionIsLost \/ Crash
    <2>1. /\ UNCHANGED <<mem, loop, db, happened, tainted>>
          /\ connected' = FALSE /\ orphan' = Abandoned
          /\ process' = process \/ process' = "down"
      BY <1>3 DEF ConnectionIsLost, Crash
    <2>2. Abandoned = IF Finished /\ connected THEN loop.snap ELSE orphan
      BY DEF Abandoned, Finished
    <2>3. Abandoned \in Row \cup {Never}
      BY <1>t, <2>2 DEF TypeOK, Shape, Finished
    <2>4. TypeOK' /\ Shape'
      <3>1. process' \in {"down", "booting", "up"}
        BY <1>t, <2>1 DEF TypeOK
      <3> QED
        BY <1>t, <2>1, <2>3, <3>1 DEF TypeOK, Shape
    <2>5. /\ Abandoned # Never => AtMost(Abandoned, happened)
          /\ ~tainted /\ Abandoned # Never => AtMost(db, Abandoned)
      BY <2>2 DEF IInv, Trailing, Growing
    <2>6. (Begun' => Begun) /\ (Finished' => Finished)
      BY <2>1 DEF Begun, Finished
    <2>7. Trailing'
      BY <2>1, <2>5, <2>6 DEF IInv, Trailing
    <2>8. Growing'
      BY <2>1, <2>5 DEF IInv, Growing
    <2> QED
      BY <1>0, <1>d, <1>t, <2>4, <2>7, <2>8, Pointwise DEF IInv, TypeOK
  <1> QED
    BY <1>1, <1>2, <1>3

\* An event is counted while a snapshot may be half read.
LEMMA CountSteps ==
    ASSUME IInv, NEW t \in Totals, Count(t)
    PROVE  IInv' /\ (~tainted' => AtMost(db, db'))
  <1>1. TypeOK /\ Shape /\ Trailing /\ Growing
    BY DEF IInv
  <1>2. /\ mem' = [mem EXCEPT ![t] = @ + 1]
        /\ happened' = [happened EXCEPT ![t] = @ + 1]
        /\ happened[t] < MaxEvents
        /\ UNCHANGED <<process, connected, loop, db, orphan, tainted>>
        /\ process = "up"
    BY DEF Count
  <1>3. /\ mem \in Row /\ happened \in Row /\ db \in Row
        /\ orphan # Never => orphan \in Row
    BY <1>1 DEF TypeOK
  <1>4. \A u \in Totals : /\ mem[u] \in 0 .. MaxEvents /\ happened[u] \in 0 .. MaxEvents
                          /\ mem[u] <= happened[u]
                          /\ mem'[u] = IF u = t THEN mem[u] + 1 ELSE mem[u]
                          /\ happened'[u] = IF u = t THEN happened[u] + 1 ELSE happened[u]
    BY <1>1, <1>2, <1>3 DEF Row, Trailing, AtMost
  <1>5. \A u \in Totals : mem'[u] \in 0 .. MaxEvents /\ happened'[u] \in 0 .. MaxEvents
    BY <1>2, <1>4, StatsFlushAssumption
  <1>6. mem' \in Row /\ happened' \in Row
    BY <1>2, <1>3, <1>5 DEF Row
  <1>7. AtMost(mem, mem') /\ AtMost(happened, happened') /\ AtMost(mem', happened')
    BY <1>4 DEF AtMost
  <1>8. TypeOK' /\ Shape'
    BY <1>1, <1>2, <1>6 DEF TypeOK, Shape
  <1>9. /\ Begun' = Begun /\ Finished' = Finished
        /\ Finished => loop.snap \in Row
        /\ Begun => loop.snap["bytes"] \in 0 .. MaxEvents
    BY <1>1, <1>2 DEF Begun, Finished, Shape, Snapshots
  <1>10. /\ AtMost(db, happened')
         /\ orphan # Never => AtMost(orphan, happened')
         /\ Finished => AtMost(loop.snap, happened')
    BY <1>1, <1>3, <1>6, <1>7, <1>9, Ordered DEF Trailing
  <1>11. /\ mem["bytes"] \in Nat /\ mem'["bytes"] \in Nat /\ mem["bytes"] <= mem'["bytes"]
         /\ happened["bytes"] \in Nat /\ happened'["bytes"] \in Nat
         /\ happened["bytes"] <= happened'["bytes"]
    BY <1>4, <1>5, <1>7, Pointwise DEF Totals
  <1>12. Trailing'
    BY <1>1, <1>2, <1>7, <1>9, <1>10, <1>11 DEF Trailing
  <1>13. ~tainted /\ connected => /\ AtMost(db, mem')
                                  /\ Finished => AtMost(loop.snap, mem')
                                  /\ Begun => loop.snap["bytes"] <= mem'["bytes"]
    BY <1>1, <1>2, <1>3, <1>6, <1>7, <1>9, <1>11, Ordered DEF Growing
  <1>14. Growing'
    BY <1>1, <1>2, <1>9, <1>13 DEF Growing
  <1> QED
    BY <1>2, <1>3, <1>8, <1>12, <1>14, Ordered DEF IInv

\* The display loop takes a snapshot and writes it, or does not
\* (src/stats/display.rs:257-319).
LEMMA LoopSteps ==
    ASSUME IInv, Tick \/ Snapshot \/ TerminalFails \/ Commit \/ WriteFails
    PROVE  IInv' /\ (~tainted' => AtMost(db, db'))
  <1> USE StatsFlushAssumption
  <1>1. TypeOK /\ Shape /\ Trailing /\ Growing
    BY DEF IInv
  <1>2. /\ mem \in Row /\ happened \in Row /\ db \in Row
        /\ mem["bytes"] \in 0 .. MaxEvents /\ mem["connections"] \in 0 .. MaxEvents
    BY <1>1 DEF TypeOK, Row, Totals
  <1>3. UNCHANGED <<process, connected, mem, orphan, happened, tainted>> /\ process = "up"
    BY DEF Tick, Snapshot, TerminalFails, Commit, WriteFails
  <1>4. CASE Tick
    <2>1. loop' = [loop EXCEPT !.pc = "reading", !.ticks = @ + 1,
                               !.snap = [bytes |-> mem["bytes"]]]
          /\ db' = db /\ loop.pc = "waiting"
      BY <1>4 DEF Tick
    <2>2. [bytes |-> mem["bytes"]] \in Snapshots /\ loop.ticks + 1 \in 0 .. FlushTicks
      BY <1>1, <1>2, <2>1 DEF Shape, Snapshots
    <2>3. /\ loop'.pc = "reading" /\ loop'.snap = [bytes |-> mem["bytes"]]
          /\ loop'.ticks = loop.ticks + 1 /\ loop'.last = loop.last
          /\ loop'.snap["bytes"] = mem["bytes"]
      BY <1>1, <2>1 DEF Shape
    <2>4. TypeOK' /\ Shape'
      BY <1>1, <1>3, <2>1, <2>2, <2>3 DEF TypeOK, Shape
    <2>5. Begun' /\ ~Finished'
      BY <1>3, <2>3 DEF Begun, Finished
    <2>6. mem["bytes"] <= happened["bytes"] /\ (~tainted /\ connected => db["bytes"] <= mem["bytes"])
      BY <1>1, <1>3, Pointwise DEF Trailing, Growing
    <2>7. Trailing' /\ Growing'
      BY <1>1, <1>2, <1>3, <2>1, <2>3, <2>5, <2>6 DEF Trailing, Growing
    <2> QED
      BY <1>2, <2>1, <2>4, <2>7, Ordered DEF IInv
  <1>5. CASE Snapshot
    <2> DEFINE snap == [bytes |-> loop.snap["bytes"], connections |-> mem["connections"]]
    <2>1. /\ loop' = [loop EXCEPT !.pc = IF Due(snap) THEN "writing" ELSE "waiting", !.snap = snap]
          /\ db' = db /\ loop.pc = "reading"
      BY <1>5 DEF Snapshot
    <2>2. Begun /\ loop.snap["bytes"] \in 0 .. MaxEvents
      BY <1>1, <1>3, <2>1 DEF Begun, Shape, Snapshots
    <2>3. snap \in Row /\ snap["bytes"] = loop.snap["bytes"]
          /\ snap["connections"] = mem["connections"]
      BY <1>2, <2>2 DEF Row, Totals
    <2>4. /\ loop'.pc \in {"writing", "waiting"} /\ loop'.snap = snap
          /\ loop'.pc = "waiting" => loop.ticks < FlushTicks
          /\ loop'.ticks = loop.ticks /\ loop'.last = loop.last
      <3>1. loop.ticks \in 0 .. FlushTicks
        BY <1>1 DEF Shape
      <3>2. ~Due(snap) => loop.ticks < FlushTicks
        BY <3>1 DEF Due
      <3> HIDE DEF snap
      <3> QED
        BY <1>1, <2>1, <3>2 DEF Shape
    <2> HIDE DEF snap
    <2>5. TypeOK' /\ Shape'
      BY <1>1, <1>3, <2>1, <2>3, <2>4 DEF TypeOK, Shape
    <2>6. ~Begun' /\ (Finished' => loop'.snap = snap)
      BY <1>3, <2>4 DEF Begun
    <2>7. /\ AtMost(snap, happened)
          /\ ~tainted /\ connected => AtMost(db, snap) /\ AtMost(snap, mem)
      <3>1. mem["connections"] <= happened["connections"]
        BY <1>1, Pointwise DEF Trailing
      <3>2. ~tainted /\ connected => db["connections"] <= mem["connections"]
        BY <1>1, <1>3, Pointwise DEF Growing
      <3> QED
        BY <1>1, <1>2, <2>2, <2>3, <3>1, <3>2, Pointwise DEF Trailing, Growing
    <2>8. Trailing' /\ Growing'
      BY <1>1, <1>3, <2>1, <2>6, <2>7 DEF Trailing, Growing
    <2> QED
      BY <1>2, <2>1, <2>5, <2>8, Ordered DEF IInv
  <1>6. CASE TerminalFails
    <2>1. /\ loop' = [loop EXCEPT !.pc = "ended"] /\ db' = db
          /\ loop'.pc = "ended" /\ loop'.ticks = loop.ticks /\ loop'.last = loop.last
      BY <1>1, <1>6 DEF TerminalFails, Shape
    <2>2. TypeOK' /\ Shape'
      BY <1>1, <1>3, <2>1 DEF TypeOK, Shape
    <2>3. ~Begun' /\ ~Finished'
      BY <2>1 DEF Begun, Finished
    <2>4. Trailing' /\ Growing'
      BY <1>1, <1>3, <2>1, <2>3 DEF Trailing, Growing
    <2> QED
      BY <1>2, <2>1, <2>2, <2>4, Ordered DEF IInv
  <1>7. CASE Commit \/ WriteFails
    <2>1. /\ loop' = [loop EXCEPT !.pc = "waiting", !.last = loop.snap, !.ticks = 0]
          /\ db' = db \/ (connected /\ db' = loop.snap)
          /\ loop.pc = "writing"
      BY <1>7 DEF Commit, WriteFails, Written, Stored
    <2>2. Finished /\ loop.snap \in Row
      BY <1>1, <1>3, <2>1 DEF Finished, Shape
    <2>3. /\ loop'.pc = "waiting" /\ loop'.last = loop.snap /\ loop'.ticks = 0
          /\ loop'.snap = loop.snap
      BY <1>1, <2>1 DEF Shape
    <2>4. TypeOK' /\ Shape'
      <3>1. db' \in Row /\ 0 \in 0 .. FlushTicks /\ 0 < FlushTicks
        BY <1>2, <2>1, <2>2
      <3>2. TypeOK'
        BY <1>1, <1>3, <2>2, <2>3, <3>1 DEF TypeOK
      <3>3. Shape'
        BY <1>1, <2>1, <2>2, <2>3, <3>1 DEF Shape
      <3> QED
        BY <3>2, <3>3
    <2>5. ~Begun' /\ ~Finished'
      BY <2>3 DEF Begun, Finished
    <2>6. CASE db' = db
      <3>1. Trailing' /\ Growing'
        BY <1>1, <1>3, <2>5, <2>6 DEF Trailing, Growing
      <3> QED
        BY <1>2, <2>4, <2>6, <3>1, Ordered DEF IInv
    <2>7. CASE connected /\ db' = loop.snap
      <3>1. /\ AtMost(db', happened)
            /\ ~tainted => AtMost(db, db') /\ AtMost(db', mem) /\ orphan = Never
        BY <1>1, <1>3, <2>2, <2>7 DEF Trailing, Growing
      <3>2. Trailing' /\ Growing'
        BY <1>1, <1>3, <2>5, <3>1 DEF Trailing, Growing
      <3> QED
        BY <1>3, <2>4, <3>1, <3>2 DEF IInv
    <2> QED
      BY <2>1, <2>6, <2>7
  <1> QED
    BY <1>4, <1>5, <1>6, <1>7

\* What becomes of a write whose process has died, or lost its connection.
LEMMA OrphanSteps ==
    ASSUME IInv, OrphanCommits \/ OrphanIsLost
    PROVE  IInv' /\ (~tainted' => AtMost(db, db'))
  <1>1. TypeOK /\ Shape /\ Trailing /\ Growing
    BY DEF IInv
  <1>2. /\ UNCHANGED <<process, connected, mem, loop, happened, tainted>>
        /\ orphan # Never /\ orphan' = Never
        /\ db' = db \/ db' = orphan
    BY DEF OrphanCommits, OrphanIsLost, Stored
  <1>3. db \in Row /\ orphan \in Row /\ db' \in Row
    BY <1>1, <1>2 DEF TypeOK
  <1>4. TypeOK' /\ Shape'
    BY <1>1, <1>2, <1>3 DEF TypeOK, Shape
  <1>5. AtMost(db', happened) /\ (~tainted => AtMost(db, db') /\ ~(process = "up" /\ connected))
    BY <1>1, <1>2, <1>3, Ordered DEF Trailing, Growing
  <1>6. Begun' = Begun /\ Finished' = Finished
    BY <1>2 DEF Begun, Finished
  <1>7. Trailing' /\ Growing'
    <2>1. Trailing'
      BY <1>1, <1>2, <1>5, <1>6 DEF Trailing
    <2>2. tainted => Growing'
      BY <1>1, <1>2 DEF Growing
    <2>3. ~tainted => Growing'
      BY <1>1, <1>2, <1>5 DEF Growing, Begun, Finished
    <2> QED
      BY <2>1, <2>2, <2>3
  <1> QED
    BY <1>2, <1>4, <1>5, <1>7 DEF IInv

LEMMA NextIInv ==
    ASSUME IInv, [Next]_vars
    PROVE  IInv' /\ (~tainted' => AtMost(db, db'))
  <1>1. CASE UNCHANGED vars
    <2>1. IInv'
      BY <1>1 DEF vars, IInv, TypeOK, Shape, Trailing, Growing, Begun, Finished
    <2>2. db' = db /\ db \in Row
      BY <1>1 DEF vars, IInv, TypeOK
    <2> QED
      BY <2>1, <2>2, Ordered
  <1> QED
    BY <1>1, ProcessSteps, CountSteps, LoopSteps, OrphanSteps DEF Next

-------------------------------------------------------------------------------

\* The tick counter never passes the flush interval, and a snapshot is whole
\* before it is written (src/stats/display.rs:257-319).
THEOREM StatsTypeCorrect == Spec => []TypeOK
  <1>1. IInv => TypeOK
    BY DEF IInv
  <1> QED
    BY <1>1, InitIInv, NextIInv, PTL DEF Spec

\* No crash, failed load, repeated or late write makes the totals count an event
\* twice (src/stats/global.rs:149-170, src/stats/display.rs:323-353).
THEOREM StatsNeverAhead == Spec => []NeverAheadOfEvents
  <1>1. IInv => NeverAheadOfEvents
    BY DEF IInv, Trailing, NeverAheadOfEvents
  <1> QED
    BY <1>1, InitIInv, NextIInv, PTL DEF Spec

\* The row shrinks only after a load that failed, or that found the last write of
\* a dead process still under way (src/main.rs:66-68, src/stats/display.rs:323-336).
THEOREM StatsOnlyGrow == Spec => StoredTotalsGrow
  <1>1. IInv /\ [Next]_vars => [~tainted' => AtMost(db, db')]_vars
    BY NextIInv
  <1> QED
    BY <1>1, InitIInv, NextIInv, PTL DEF Spec, StoredTotalsGrow
===============================================================================
