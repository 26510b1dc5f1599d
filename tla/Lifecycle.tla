------------------------------- MODULE Lifecycle -------------------------------
(***************************************************************************)
(* The life of a connection in src/protocols/proxy.rs: `run` accepts it    *)
(* and counts it, `handle_connection` runs an inner task that reads,       *)
(* detects the protocol, routes, authenticates, connects and relays, and   *)
(* the outer task joins it and settles the counters if it failed.          *)
(*                                                                         *)
(* Abstracted: what is read and written (Routing, later modules), and the  *)
(* relay itself, which is one step per way to end (Relay has its inside).  *)
(* A panic of the inner task, such as the indexing of an empty chain, is a *)
(* JoinError and takes the same path as an error.                          *)
(***************************************************************************)
EXTENDS Integers, FiniteSets

CONSTANTS
    Conns,        \* connections clients may open
    AuthEnabled   \* router.auth

ASSUME LifecycleAssumption == AuthEnabled \in BOOLEAN /\ IsFiniteSet(Conns)

VARIABLES
    running,      \* the accept loop, and with it the process, is alive
    phase,        \* how far each connection is
    proto,        \* the protocol detected
    stats,        \* the connection counters of src/stats/global.rs
    relayEnd      \* history variable: how the relay of a connection ended

vars == <<running, phase, proto, stats, relayEnd>>

Protocols == {"socks5", "socks4", "http", "https"}

\* Phases of the inner task before the relay; in reading, subnegotiating and
\* requesting it waits for the client.
Early == {"reading", "routing", "subnegotiating", "authenticating", "requesting", "connecting"}

\* Connections that have a task, in a handler or waiting for it.
Alive == {c \in Conns : phase[c] \in Early \cup {"relaying", "failed"}}

\* Connections accepted whose end has not been counted: a relay counts its own,
\* whatever the outer task does afterwards.
Open == {c \in Alive : relayEnd[c] = "none"}

Init ==
    /\ running = TRUE
    /\ phase = [c \in Conns |-> "backlog"]
    /\ proto = [c \in Conns |-> "unknown"]
    /\ stats = [active |-> 0, total |-> 0, succeeded |-> 0, failed |-> 0]
    /\ relayEnd = [c \in Conns |-> "none"]

\* increment_active_connections
Incremented(s) == [s EXCEPT !.active = @ + 1, !.total = @ + 1]

\* decrement_active_connections
Decremented(s) == [s EXCEPT !.active = @ - 1]

\* record_connection_result, of which the log line is left out.
Recorded(s, success) ==
    IF success THEN [s EXCEPT !.succeeded = @ + 1] ELSE [s EXCEPT !.failed = @ + 1]

Moves(c, from, to) ==
    /\ running
    /\ phase[c] = from
    /\ phase' = [phase EXCEPT ![c] = to]
    /\ UNCHANGED running

-------------------------------------------------------------------------------

Accept(c) ==
    /\ Moves(c, "backlog", "reading")
    /\ stats' = Incremented(stats)
    /\ UNCHANGED <<proto, relayEnd>>

\* `listener.accept().await?`: an error leaves run, main returns it, and the
\* runtime drops every task.
AcceptFails ==
    /\ running
    /\ running' = FALSE
    /\ phase' = [c \in Conns |-> IF c \in Alive THEN "killed" ELSE phase[c]]
    /\ UNCHANGED <<proto, stats, relayEnd>>

\* The first read returns bytes of a known protocol.
FirstRead(c, p) ==
    /\ Moves(c, "reading", "routing")
    /\ proto' = [proto EXCEPT ![c] = p]
    /\ UNCHANGED <<stats, relayEnd>>

\* Mutation of FirstReadTimesOut: the read is tried again.
FirstReadIsRetried(c) ==
    /\ Moves(c, "reading", "reading")
    /\ UNCHANGED <<proto, stats, relayEnd>>

FirstReadTimesOut(c) ==
    /\ Moves(c, "reading", "failed")
    /\ UNCHANGED <<proto, stats, relayEnd>>

\* Selection and resolution succeed; a SOCKS5 client is answered a method and
\* sends its credentials or its request in a later read.
Route(c) ==
    /\ Moves(c, "routing",
             IF proto[c] # "socks5" THEN "authenticating"
             ELSE IF AuthEnabled THEN "subnegotiating" ELSE "requesting")
    /\ UNCHANGED <<proto, stats, relayEnd>>

Credentials(c) ==
    /\ Moves(c, "subnegotiating", "authenticating")
    /\ UNCHANGED <<proto, stats, relayEnd>>

Authenticated(c) ==
    /\ Moves(c, "authenticating",
             IF proto[c] = "socks5" THEN "requesting" ELSE "connecting")
    /\ UNCHANGED <<proto, stats, relayEnd>>

Request(c) ==
    /\ Moves(c, "requesting", "connecting")
    /\ UNCHANGED <<proto, stats, relayEnd>>

\* Mutation of Connected: the success is not recorded.
ConnectedUnrecorded(c) ==
    /\ Moves(c, "connecting", "relaying")
    /\ UNCHANGED <<proto, stats, relayEnd>>

\* The upstream is connected and the client has its reply.
Connected(c) ==
    /\ Moves(c, "connecting", "relaying")
    /\ stats' = Recorded(stats, TRUE)
    /\ UNCHANGED <<proto, relayEnd>>

\* Any early phase may end in an error: closed by the client, malformed,
\* unroutable, refused, unreachable.
FailsEarly(c) ==
    /\ phase[c] \in Early
    /\ Moves(c, phase[c], "failed")
    /\ UNCHANGED <<proto, stats, relayEnd>>

\* Mutation of RelayEnds: the end of a relay leaves the gauge to the outer task.
RelayEndsUncounted(c) ==
    /\ Moves(c, "relaying", "closed")
    /\ relayEnd' = [relayEnd EXCEPT ![c] = "eof"]
    /\ UNCHANGED <<proto, stats>>

\* One peer closes: proxy_data decrements the gauge and returns Ok.
RelayEnds(c) ==
    /\ Moves(c, "relaying", "closed")
    /\ stats' = Decremented(stats)
    /\ relayEnd' = [relayEnd EXCEPT ![c] = "eof"]
    /\ UNCHANGED proto

\* The allowance is spent or the back end fails: proxy_data decrements the
\* gauge and returns an error.
RelayIsCut(c) ==
    /\ Moves(c, "relaying", "failed")
    /\ stats' = Decremented(stats)
    /\ relayEnd' = [relayEnd EXCEPT ![c] = "cut"]
    /\ UNCHANGED proto

\* A read or a write fails: the pump records a failure of its own.
RelayBreaks(c) ==
    /\ Moves(c, "relaying", "failed")
    /\ stats' = Decremented(Recorded(stats, FALSE))
    /\ relayEnd' = [relayEnd EXCEPT ![c] = "io"]
    /\ UNCHANGED proto

\* Mutation of Settle: the JoinHandle is dropped instead of awaited.
SettlesNever(c) == FALSE

\* Mutation of Settle: the counters change in the wrong direction.
SettlesBackwards(c) ==
    /\ Moves(c, "failed", "closed")
    /\ stats' = [stats EXCEPT !.failed = @ - 1, !.active = @ + 1]
    /\ UNCHANGED <<proto, relayEnd>>

\* The outer task has joined the inner one and got an error from it.
Settle(c) ==
    /\ Moves(c, "failed", "closed")
    /\ stats' = Decremented(Recorded(stats, FALSE))
    /\ UNCHANGED <<proto, relayEnd>>

Next ==
    \/ AcceptFails
    \/ \E c \in Conns :
          \/ Accept(c)
          \/ \E p \in Protocols : FirstRead(c, p)
          \/ FirstReadTimesOut(c)
          \/ Route(c)
          \/ Credentials(c)
          \/ Authenticated(c)
          \/ Request(c)
          \/ Connected(c)
          \/ FailsEarly(c)
          \/ RelayEnds(c)
          \/ RelayIsCut(c)
          \/ RelayBreaks(c)
          \/ Settle(c)

\* The runtime polls a task that waits for nobody, its timer fires, and the
\* account back end answers; clients and upstreams owe nothing.
Fairness ==
    \A c \in Conns :
        /\ WF_vars(FirstReadTimesOut(c))
        /\ WF_vars(Route(c))
        /\ WF_vars(Authenticated(c))
        /\ WF_vars(Settle(c))

Spec == Init /\ [][Next]_vars /\ Fairness

-------------------------------------------------------------------------------

TypeOK ==
    /\ running \in BOOLEAN
    /\ phase \in [Conns -> Early \cup {"backlog", "relaying", "failed", "closed", "killed"}]
    /\ proto \in [Conns -> Protocols \cup {"unknown"}]
    /\ stats \in [active : Int, total : Nat, succeeded : Nat, failed : Nat]
    /\ relayEnd \in [Conns -> {"none", "eof", "cut", "io"}]

\* Connections settled after their relay returned an error.
Broken == {c \in Conns : phase[c] = "closed" /\ relayEnd[c] \in {"cut", "io"}}

\* No path through the handlers leaks a connection, the end of every relay is
\* counted once by proxy_data, and the gauge is off by exactly one, for ever, for
\* every relay that returned an error, from when its task is settled
\* (src/protocols/proxy.rs:536, :553, :1032).
GaugeDrift == running => stats.active = Cardinality(Open) - Cardinality(Broken)

\* A connection that ended was recorded as a success when it reached the relay,
\* and as a failure once when its task failed and once more when a pump met an
\* I/O error (src/protocols/proxy.rs:385-389, :547, :942-959).
TalliesExact ==
    LET closed == {c \in Conns : phase[c] = "closed"}
    IN  running => /\ stats.succeeded = Cardinality({c \in Conns :
                          phase[c] = "relaying" \/ relayEnd[c] # "none"})
                   /\ stats.failed = Cardinality({c \in closed : relayEnd[c] # "eof"})
                                     + Cardinality({c \in Conns : relayEnd[c] = "io"})

\* The gauge shows the connections whose end has not been counted ("Always
\* decrement active connections when connection ends",
\* src/protocols/proxy.rs:1031; "Ensure we decrement on error", :552).
GaugeIsExact == running => stats.active = Cardinality(Open)

\* A client that says nothing after it has connected does not keep its task
\* (src/protocols/proxy.rs:571-576).  No such bound exists for the later reads.
FirstReadIsBounded ==
    \A c \in Conns : (phase[c] = "reading") ~> (phase[c] # "reading")

\* Once a handler has failed, the connection is settled and closed, whatever
\* its peers do (src/protocols/proxy.rs:545-555, :774-778).
FailuresAreSettled ==
    \A c \in Conns : (phase[c] = "failed") ~> (phase[c] \in {"closed", "killed"})
===============================================================================
