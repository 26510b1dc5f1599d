--------------------------------- MODULE Tunnel ---------------------------------
(***************************************************************************)
(* What ChainConnector::connect_chain (src/protocols/chain.rs:16-24)       *)
(* promises its callers: a stream that has been extended from hop to hop   *)
(* in the order of the chain, and that is handed out only when its far end *)
(* is the target.  Chain is checked to implement this module.              *)
(***************************************************************************)
EXTENDS Naturals

VARIABLES
    hops,        \* length of the chain
    at,          \* hops the stream has reached; one more is the target
    outcome      \* "connecting", "open" or "failed"

vars == <<hops, at, outcome>>

Init ==
    /\ hops \in Nat
    /\ at = 0
    /\ outcome = "connecting"

\* A hop connects to the next one.  It may do so after the attempt was given up.
Extend ==
    /\ outcome # "open"
    /\ at <= hops
    /\ at' = at + 1
    /\ UNCHANGED <<hops, outcome>>

Open ==
    /\ outcome = "connecting"
    /\ hops > 0 /\ at = hops + 1
    /\ outcome' = "open"
    /\ UNCHANGED <<hops, at>>

Fail ==
    /\ outcome = "connecting"
    /\ outcome' = "failed"
    /\ UNCHANGED <<hops, at>>

Next == Extend \/ Open \/ Fail

Spec == Init /\ [][Next]_vars
===============================================================================
