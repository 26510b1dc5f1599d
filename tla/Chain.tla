--------------------------------- MODULE Chain ---------------------------------
(***************************************************************************)
(* src/protocols/chain.rs: the stream to the first hop of a chain is       *)
(* extended hop by hop, each speaking SOCKS5, SOCKS4a or HTTP CONNECT      *)
(* (module Hops), until its far end is the target.                         *)
(***************************************************************************)
EXTENDS Hops

CONSTANTS
    Chains,          \* chains a connection may be routed by
    TargetLengths    \* lengths of the target's host name, in bytes

ASSUME ChainAssumption ==
    /\ Chains \subseteq Seq(Hop)
    /\ TargetLengths \subseteq Nat
    /\ MaxSaid \in Nat
    /\ Nobody \notin [ask : {"greeting", "credentials"}]
    /\ Nobody \notin [ask : {"connect"}, to : Nat]

VARIABLES
    chain,           \* the chain
    target,          \* length of the target's host name
    hop              \* position of the hop being asked

fixed == <<chain, target>>
vars == <<chain, target, hop, wait, request, wire, at, closed, said>>

\* Positions the stream may reach (at): the hops, one past them the target, and
\* two past them anything else.
Target    == Len(chain) + 1
Elsewhere == Len(chain) + 2

Init ==
    /\ chain \in Chains
    /\ target \in TargetLengths
    /\ hop = 0
    /\ wait = "dial"
    /\ request = Nobody
    /\ wire = <<>>
    /\ at = 0
    /\ closed = FALSE
    /\ said = 0

\* What hop i is asked to connect to, as it will read it: SOCKS5 sends the
\* length of a host name in one byte.
Named(i) ==
    IF i < Len(chain) THEN i + 1
    ELSE IF chain[i].kind = "socks5" /\ target % 256 # target THEN Elsewhere
    ELSE Target

\* The stream to the first hop is open.
Dial ==
    /\ wait = "dial"
    /\ chain # <<>>
    /\ at' = 1
    /\ wait' = "next"
    /\ UNCHANGED <<fixed, hop, request, wire, closed, said>>

\* The chain is empty, or its first hop does not answer.
DialFails ==
    /\ wait = "dial"
    /\ wait' = "failed"
    /\ UNCHANGED <<fixed, hop, request, wire, at, closed, said>>

\* The loop of connect_chain goes on to the next hop and asks it, unless the
\* address of the one after cannot be parsed.
NextHop ==
    /\ wait = "next"
    /\ hop < Len(chain)
    /\ hop' = hop + 1
    /\ IF hop' < Len(chain) /\ ~chain[hop' + 1].parses THEN Goes("failed", Nobody)
       ELSE Asks(chain[hop'], Named(hop'))
    /\ UNCHANGED <<fixed, wire, at, closed, said>>

\* The loop ends, and the stream is handed out.
HandOut ==
    /\ wait = "next"
    /\ hop = Len(chain)
    /\ wait' = "open"
    /\ UNCHANGED <<fixed, hop, request, wire, at, closed, said>>

\* Mutation of HeaderTimesOut: the reply is waited for again.
HeaderIsAwaitedAgain == wait = "header" /\ UNCHANGED vars

\* Of all reads only this one has a timeout.
HeaderTimesOut ==
    /\ wait = "header"
    /\ wait' = "failed"
    /\ UNCHANGED <<fixed, hop, request, wire, at, closed, said>>

HopBreaks == Breaks /\ UNCHANGED <<fixed, hop>>

Router ==
    \/ NextHop \/ HandOut
    \/ Reads(chain[hop], Named(hop)) /\ UNCHANGED <<fixed, hop>>

\* Hops and the target.
Others ==
    /\ UNCHANGED <<fixed, hop>>
    /\ \/ FarEnd(chain[hop])
       \/ Speaks(Target)
       \/ at > 0 /\ Closes

Next ==
    \/ Dial \/ DialFails
    \/ Router
    \/ HeaderTimesOut
    \/ HopBreaks
    \/ Others

\* The task is polled when something has arrived, the timer fires, and a closed
\* stream shows; hops may fall silent.
Fairness == WF_vars(Router) /\ WF_vars(HeaderTimesOut) /\ WF_vars(HopBreaks)

Spec == Init /\ [][Next]_vars /\ Fairness

-------------------------------------------------------------------------------

Requests == {Greeting, Login} \cup {Connect(i) : i \in 1 .. Elsewhere}

TypeOK ==
    /\ chain \in Chains /\ target \in TargetLengths
    /\ hop \in 0 .. Len(chain)
    /\ wait \in {"dial", "next"} \cup Replies \cup Outcomes
    /\ request # Nobody => /\ request \in Requests
                           /\ wait \in Awaited(request.ask) \cup {"failed"}
    /\ at \in 0 .. Elsewhere
    /\ closed \in BOOLEAN
    /\ said \in 0 .. MaxSaid

Abstract == INSTANCE Tunnel WITH
    hops    <- Len(chain),
    outcome <- IF wait \in Outcomes THEN wait ELSE "connecting"

\* However the replies are cut into reads, and whatever the hops answer, a stream
\* that is handed out ends at the target and goes through every hop in order
\* (src/protocols/chain.rs:36-57).
TunnelSpec == Abstract!Spec

\* If the last hop speaks SOCKS, what can be read from a stream handed out is
\* what the target has said, from the first byte, and nothing that an HTTP hop
\* before it has left over (src/protocols/chain.rs:167-189, :217-224 read no
\* byte too many and no byte too few).
WholeAfterSocks ==
    wait = "open" /\ chain[Len(chain)].kind # "http"
        => wire = [k \in 1 .. said |-> "data"]

\* A SOCKS5 hop that never answers the request does not keep the connection
\* (src/protocols/chain.rs:144-158).
HeaderIsBounded == (wait = "header") ~> (wait # "header")

\* A hop that goes away ends the attempt, whatever is waited for
\* (src/protocols/chain.rs:103, :120, :145-185, :219, :259-265).
EndsAreNoticed == closed ~> (wait \in Outcomes)
===============================================================================
