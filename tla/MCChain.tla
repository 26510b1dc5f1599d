-------------------------------- MODULE MCChain --------------------------------
(***************************************************************************)
(* Every chain of up to three hops, with one unparsable address and one    *)
(* hop with credentials to choose from.  255 bytes is the longest name one *)
(* byte can announce.                                                      *)
(***************************************************************************)
EXTENDS Chain

Plain(k) == [kind |-> k, auth |-> FALSE, parses |-> TRUE]

MCHops == {Plain("socks5"), Plain("socks4"), Plain("http"),
           [kind |-> "socks5", auth |-> TRUE, parses |-> TRUE],
           [kind |-> "http", auth |-> TRUE, parses |-> FALSE]}

MCChains == UNION {[1 .. n -> MCHops] : n \in 0 .. 3}
===============================================================================
