----------------------------- MODULE LifecycleProofs -----------------------------
(***************************************************************************)
(* What connections leave in the counters, for any finite number of them.  *)
(*                                                                         *)
(* The counters are compared with the sizes of sets of connections, and    *)
(* each step adds one connection to such a set, or takes one out.  Which   *)
(* sets it enters depends on its phase and on how its relay has ended;     *)
(* that these two agree is the part of the invariant that the properties   *)
(* do not state (Coherent).                                                *)
(***************************************************************************)
EXTENDS Lifecycle, FiniteSetTheorems, TLAPS

\* A relay ends with the phase it leaves; who is killed is killed with everybody.
Coherent ==
    \A c \in Conns :
        /\ relayEnd[c] # "none" => phase[c] \in {"failed", "closed", "killed"}
        /\ relayEnd[c] = "eof" => phase[c] = "closed"
        /\ running => phase[c] # "killed"

Served   == {c \in Conns : phase[c] = "relaying" \/ relayEnd[c] # "none"}
Settled  == {c \in Conns : phase[c] = "closed" /\ relayEnd[c] # "eof"}
IoBroken == {c \in Conns : relayEnd[c] = "io"}

Counters ==
    running => /\ stats.active = Cardinality(Open) - Cardinality(Broken)
               /\ stats.succeeded = Cardinality(Served)
               /\ stats.failed = Cardinality(Settled) + Cardinality(IoBroken)

IInv == TypeOK /\ Coherent /\ Counters

-------------------------------------------------------------------------------

LEMMA Finite ==
    /\ IsFiniteSet(Open) /\ IsFiniteSet(Broken)
    /\ IsFiniteSet(Served) /\ IsFiniteSet(Settled) /\ IsFiniteSet(IoBroken)
  BY LifecycleAssumption, FS_Subset
  DEF Open, Alive, Broken, Served, Settled, IoBroken

\* One connection more, or one less.
LEMMA OneMore ==
    ASSUME NEW S, NEW T, NEW c, IsFiniteSet(S), c \notin S, T = S \cup {c}
    PROVE  Cardinality(T) = Cardinality(S) + 1
  BY FS_AddElement

LEMMA OneLess ==
    ASSUME NEW S, NEW T, NEW c, IsFiniteSet(S), c \in S, T = S \ {c}
    PROVE  Cardinality(T) = Cardinality(S) - 1
  BY FS_RemoveElement

LEMMA Sizes ==
    /\ Cardinality(Open) \in Nat /\ Cardinality(Broken) \in Nat
    /\ Cardinality(Served) \in Nat /\ Cardinality(Settled) \in Nat
    /\ Cardinality(IoBroken) \in Nat
  BY Finite, FS_CardinalityType

LEMMA InitIInv == Init => IInv
  <1> SUFFICES ASSUME Init PROVE IInv
    OBVIOUS
  <1>1. TypeOK /\ Coherent
    BY DEF Init, TypeOK, Coherent
  <1>2. Open = {} /\ Broken = {} /\ Served = {} /\ Settled = {} /\ IoBroken = {}
    BY DEF Init, Open, Alive, Early, Broken, Served, Settled, IoBroken
  <1>3. Counters
    BY <1>2, FS_EmptySet DEF Init, Counters
  <1> QED
    BY <1>1, <1>3 DEF IInv

\* A connection that goes from one early phase to the next leaves no trace.
LEMMA QuietSteps ==
    ASSUME IInv, NEW c \in Conns, NEW from \in Early, NEW to \in Early \cup {"failed"},
           Moves(c, from, to), UNCHANGED <<stats, relayEnd>>, proto' \in [Conns -> Protocols \cup {"unknown"}]
    PROVE  IInv'
  <1>1. TypeOK'
    BY DEF IInv, TypeOK, Moves
  <1>2. Coherent'
    BY DEF IInv, TypeOK, Coherent, Moves, Early
  <1>3. /\ Open' = Open /\ Broken' = Broken /\ Served' = Served
        /\ Settled' = Settled /\ IoBroken' = IoBroken
    BY DEF IInv, TypeOK, Coherent, Moves, Early, Open, Alive, Broken, Served, Settled, IoBroken
  <1>4. Counters'
    BY <1>3 DEF IInv, Counters, Moves
  <1> QED
    BY <1>1, <1>2, <1>4 DEF IInv
LEMMA AcceptSteps ==
    ASSUME IInv, NEW c \in Conns, Accept(c)
    PROVE  IInv'
  <1>0. stats' \in [active : Int, total : Nat, succeeded : Nat, failed : Nat]
    <2>1. stats \in [active : Int, total : Nat, succeeded : Nat, failed : Nat]
      BY DEF IInv, TypeOK
    <2>2. stats' = [active |-> stats.active + 1, total |-> stats.total + 1,
                  succeeded |-> stats.succeeded, failed |-> stats.failed]
      BY <2>1 DEF Accept, Incremented
    <2> QED
      BY <2>1, <2>2
  <1>1. TypeOK'
    BY <1>0 DEF IInv, TypeOK, Accept, Moves, Early, Incremented
  <1>2. Coherent'
    BY DEF IInv, TypeOK, Coherent, Accept, Moves, Incremented
  <1>3. c \notin Open /\ Open' = Open \cup {c}
    BY DEF IInv, TypeOK, Coherent, Accept, Moves, Early, Open, Alive, Incremented
  <1>4. /\ Broken' = Broken /\ Served' = Served
        /\ Settled' = Settled /\ IoBroken' = IoBroken
    BY DEF IInv, TypeOK, Accept, Moves, Broken, Served, Settled, IoBroken, Incremented
  <1>5. Cardinality(Open') = Cardinality(Open) + 1
    BY <1>3, Finite, OneMore
  <1>6. /\ stats'.active = stats.active + 1
        /\ stats'.succeeded = stats.succeeded /\ stats'.failed = stats.failed
    BY DEF IInv, TypeOK, Accept, Incremented
  <1>7. Counters'
    BY <1>4, <1>5, <1>6, Sizes DEF IInv, TypeOK, Counters, Accept, Moves, Incremented
  <1> QED
    BY <1>1, <1>2, <1>7 DEF IInv

LEMMA ConnectedSteps ==
    ASSUME IInv, NEW c \in Conns, Connected(c)
    PROVE  IInv'
  <1>1. TypeOK'
    BY DEF IInv, TypeOK, Connected, Moves, Early, Recorded
  <1>2. Coherent'
    BY DEF IInv, TypeOK, Coherent, Connected, Moves, Recorded
  <1>3. c \notin Served /\ Served' = Served \cup {c}
    BY DEF IInv, TypeOK, Coherent, Connected, Moves, Served, Recorded
  <1>4. /\ Open' = Open /\ Broken' = Broken
        /\ Settled' = Settled /\ IoBroken' = IoBroken
    BY DEF IInv, TypeOK, Connected, Moves, Early, Open, Alive, Broken, Settled, IoBroken, Recorded
  <1>5. Cardinality(Served') = Cardinality(Served) + 1
    BY <1>3, Finite, OneMore
  <1>6. /\ stats'.active = stats.active
        /\ stats'.succeeded = stats.succeeded + 1 /\ stats'.failed = stats.failed
    BY DEF IInv, TypeOK, Connected, Recorded
  <1>7. Counters'
    BY <1>4, <1>5, <1>6, Sizes DEF IInv, TypeOK, Counters, Connected, Moves, Recorded
  <1> QED
    BY <1>1, <1>2, <1>7 DEF IInv

\* A relay that ends well leaves the gauge right.
LEMMA RelayEndSteps ==
    ASSUME IInv, NEW c \in Conns, RelayEnds(c)
    PROVE  IInv'
  <1>1. TypeOK'
    BY DEF IInv, TypeOK, RelayEnds, Moves, Early, Decremented
  <1>2. Coherent'
    BY DEF IInv, TypeOK, Coherent, RelayEnds, Moves, Decremented
  <1>3. c \in Open /\ Open' = Open \ {c}
    BY DEF IInv, TypeOK, Coherent, RelayEnds, Moves, Early, Open, Alive, Decremented
  <1>4. /\ Broken' = Broken /\ Served' = Served
        /\ Settled' = Settled /\ IoBroken' = IoBroken
    BY
    DEF IInv, TypeOK, Coherent, RelayEnds, Moves, Broken, Served, Settled, IoBroken, Decremented
  <1>5. Cardinality(Open') = Cardinality(Open) - 1
    BY <1>3, Finite, OneLess
  <1>6. /\ stats'.active = stats.active - 1
        /\ stats'.succeeded = stats.succeeded /\ stats'.failed = stats.failed
    BY DEF IInv, TypeOK, RelayEnds, Decremented
  <1>7. Counters'
    BY <1>4, <1>5, <1>6, Sizes DEF IInv, TypeOK, Counters, RelayEnds, Moves, Decremented
  <1> QED
    BY <1>1, <1>2, <1>7 DEF IInv

\* A relay that ends badly is counted off the gauge as well.
LEMMA RelayErrorSteps ==
    ASSUME IInv, NEW c \in Conns, RelayIsCut(c) \/ RelayBreaks(c)
    PROVE  IInv'
  <1>0. /\ stats' \in [active : Int, total : Nat, succeeded : Nat, failed : Nat]
        /\ stats'.active = stats.active - 1 /\ stats'.succeeded = stats.succeeded
    <2>1. CASE RelayIsCut(c)
      BY <2>1 DEF IInv, TypeOK, RelayIsCut, Decremented
    <2>2. CASE RelayBreaks(c)
      <3>1. stats \in [active : Int, total : Nat, succeeded : Nat, failed : Nat]
        BY DEF IInv, TypeOK
      <3>2. stats' = [active |-> stats.active - 1, total |-> stats.total,
                    succeeded |-> stats.succeeded, failed |-> stats.failed + 1]
        BY <2>2, <3>1 DEF RelayBreaks, Decremented, Recorded
      <3> QED
        BY <3>1, <3>2
    <2> QED
      BY <2>1, <2>2
  <1>1. TypeOK'
    <2>1. /\ Moves(c, "relaying", "failed") /\ proto' = proto
          /\ relayEnd' \in [Conns -> {"none", "eof", "cut", "io"}]
      BY DEF RelayIsCut, RelayBreaks, IInv, TypeOK, Decremented, Recorded
    <2> QED
      BY <1>0, <2>1 DEF IInv, TypeOK, Moves
  <1>2. Coherent'
    BY DEF IInv, TypeOK, Coherent, RelayIsCut, RelayBreaks, Moves, Decremented, Recorded
  <1>3. c \in Open /\ Open' = Open \ {c}
    BY
    DEF IInv, TypeOK, Coherent, RelayIsCut, RelayBreaks, Moves, Early, Open, Alive, Decremented, Recorded
  <1>4. Broken' = Broken /\ Served' = Served /\ Settled' = Settled
    BY
    DEF IInv, TypeOK, Coherent, RelayIsCut, RelayBreaks, Moves, Broken, Served, Settled, Decremented, Recorded
  <1>5. Cardinality(Open') = Cardinality(Open) - 1
    BY <1>3, Finite, OneLess
  <1>6. Cardinality(IoBroken') = Cardinality(IoBroken) + (stats'.failed - stats.failed)
    <2>1. CASE RelayIsCut(c)
      <3>1. IoBroken' = IoBroken /\ stats'.failed = stats.failed
        BY <2>1 DEF IInv, TypeOK, Coherent, RelayIsCut, Moves, IoBroken, Decremented
      <3> QED
        BY <3>1, Sizes DEF IInv, TypeOK
    <2>2. CASE RelayBreaks(c)
      <3>1. c \notin IoBroken /\ IoBroken' = IoBroken \cup {c} /\ stats'.failed = stats.failed + 1
        BY <2>2 DEF IInv, TypeOK, Coherent, RelayBreaks, Moves, IoBroken, Decremented, Recorded
      <3>2. Cardinality(IoBroken') = Cardinality(IoBroken) + 1
        BY <3>1, Finite, OneMore
      <3> QED
        BY <3>1, <3>2, Sizes DEF IInv, TypeOK
    <2> QED
      BY <2>1, <2>2
  <1>7. running
    BY DEF RelayIsCut, RelayBreaks, Moves, Decremented, Recorded
  <1>8. stats.failed \in Nat /\ stats'.failed \in Nat
    BY <1>0 DEF IInv, TypeOK
  <1>9. stats'.failed = Cardinality(Settled') + Cardinality(IoBroken')
    BY <1>4, <1>6, <1>7, <1>8, Sizes DEF IInv, Counters
  <1>10. Counters'
    BY <1>0, <1>4, <1>5, <1>7, <1>9, Sizes DEF IInv, TypeOK, Counters
  <1> QED
    BY <1>1, <1>2, <1>10 DEF IInv

\* The outer task counts a failure, and the gauge down, whatever the relay has
\* counted before: a connection that was open is so no longer, and one whose relay
\* has counted it already is counted again.
LEMMA SettleSteps ==
    ASSUME IInv, NEW c \in Conns, Settle(c)
    PROVE  IInv'
  <1>0. stats' \in [active : Int, total : Nat, succeeded : Nat, failed : Nat]
    <2>1. stats \in [active : Int, total : Nat, succeeded : Nat, failed : Nat]
      BY DEF IInv, TypeOK
    <2>2. stats' = [active |-> stats.active - 1, total |-> stats.total,
                  succeeded |-> stats.succeeded, failed |-> stats.failed + 1]
      BY <2>1 DEF Settle, Decremented, Recorded
    <2> QED
      BY <2>1, <2>2
  <1>1. TypeOK'
    BY <1>0 DEF IInv, TypeOK, Settle, Moves, Early, Decremented, Recorded
  <1>2. Coherent'
    BY DEF IInv, TypeOK, Coherent, Settle, Moves, Decremented, Recorded
  <1>3. /\ phase[c] = "failed" /\ relayEnd[c] \in {"none", "cut", "io"}
        /\ phase' = [phase EXCEPT ![c] = "closed"] /\ relayEnd' = relayEnd
    BY DEF IInv, TypeOK, Coherent, Settle, Moves
  <1>4. /\ Served' = Served /\ IoBroken' = IoBroken
        /\ c \notin Settled /\ Settled' = Settled \cup {c}
    BY <1>3 DEF IInv, TypeOK, Served, Settled, IoBroken
  <1>5. /\ Cardinality(Open') - Cardinality(Broken') =
              Cardinality(Open) - Cardinality(Broken) - 1
        /\ Cardinality(Settled') = Cardinality(Settled) + 1
    <2>1. Cardinality(Settled') = Cardinality(Settled) + 1
      BY <1>4, Finite, OneMore
    <2>2. CASE relayEnd[c] = "none"
      <3>1. c \in Open /\ Open' = Open \ {c} /\ Broken' = Broken
        BY <1>3, <2>2 DEF IInv, TypeOK, Early, Open, Alive, Broken
      <3>2. Cardinality(Open') = Cardinality(Open) - 1
        BY <3>1, Finite, OneLess
      <3> QED
        BY <2>1, <3>1, <3>2, Sizes
    <2>3. CASE relayEnd[c] # "none"
      <3>1. c \notin Broken /\ Broken' = Broken \cup {c} /\ Open' = Open
        BY <1>3, <2>3 DEF IInv, TypeOK, Early, Open, Alive, Broken
      <3>2. Cardinality(Broken') = Cardinality(Broken) + 1
        BY <3>1, Finite, OneMore
      <3> QED
        BY <2>1, <3>1, <3>2, Sizes
    <2> QED
      BY <2>2, <2>3
  <1>6. /\ stats'.active = stats.active - 1
        /\ stats'.succeeded = stats.succeeded /\ stats'.failed = stats.failed + 1
    BY DEF IInv, TypeOK, Settle, Decremented, Recorded
  <1>7. Counters'
    BY <1>4, <1>5, <1>6, Sizes DEF IInv, TypeOK, Counters, Settle, Moves, Decremented, Recorded
  <1> QED
    BY <1>1, <1>2, <1>7 DEF IInv

LEMMA NextIInv ==
    ASSUME IInv, [Next]_vars
    PROVE  IInv'
  <1>1. CASE AcceptFails
    <2>1. TypeOK' /\ ~running'
      BY <1>1 DEF AcceptFails, IInv, TypeOK
    <2>2. Coherent'
      BY <1>1, <2>1 DEF AcceptFails, IInv, TypeOK, Coherent, Alive, Early
    <2> QED
      BY <2>1, <2>2 DEF IInv, Counters
  <1>2. ASSUME NEW c \in Conns,
               \/ \E p \in Protocols : FirstRead(c, p)
               \/ FirstReadTimesOut(c) \/ Route(c) \/ Credentials(c)
               \/ Authenticated(c) \/ Request(c) \/ FailsEarly(c)
        PROVE  IInv'
    <2>1. \E from \in Early, to \in Early \cup {"failed"} : Moves(c, from, to)
      BY <1>2 DEF FirstRead, FirstReadTimesOut, Route, Credentials, Authenticated, Request,
                  FailsEarly, Early
    <2>2. /\ UNCHANGED <<stats, relayEnd>>
          /\ proto' \in [Conns -> Protocols \cup {"unknown"}]
      BY <1>2 DEF FirstRead, FirstReadTimesOut, Route, Credentials, Authenticated, Request,
                  FailsEarly, IInv, TypeOK
    <2> QED
      BY <2>1, <2>2, QuietSteps
  <1>3. CASE UNCHANGED vars
    BY <1>3 DEF vars, IInv, TypeOK, Coherent, Counters, Open, Alive, Broken, Served, Settled, IoBroken
  <1> QED
    BY <1>1, <1>2, <1>3, AcceptSteps, ConnectedSteps, RelayEndSteps, RelayErrorSteps, SettleSteps
    DEF Next

-------------------------------------------------------------------------------

\* Counters of successes and failures never go below zero; the gauge may
\* (src/stats/global.rs:54-101).
THEOREM LifecycleTypeCorrect == Spec => []TypeOK
  <1>1. IInv => TypeOK
    BY DEF IInv
  <1> QED
    BY <1>1, InitIInv, NextIInv, PTL DEF Spec

\* No path leaks a connection, and the gauge is off by one, for ever, for every
\* relay that returned an error, once its task is settled
\* (src/protocols/proxy.rs:536, :553, :1032).
THEOREM LifecycleGaugeDrift == Spec => []GaugeDrift
  <1>1. IInv => GaugeDrift
    BY DEF IInv, Counters, GaugeDrift
  <1> QED
    BY <1>1, InitIInv, NextIInv, PTL DEF Spec

\* At every moment successes and failures have been counted as often as the phases
\* and the relays of the connections say (src/protocols/proxy.rs:385-389, :547, :942-959).
THEOREM LifecycleTalliesExact == Spec => []TalliesExact
  <1>1. IInv => TalliesExact
    BY DEF IInv, Counters, TalliesExact, Served, Settled, IoBroken
  <1> QED
    BY <1>1, InitIInv, NextIInv, PTL DEF Spec
===============================================================================
