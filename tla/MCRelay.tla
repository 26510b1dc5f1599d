-------------------------------- MODULE MCRelay --------------------------------
(***************************************************************************)
(* Two connections of one account, which leave through upstreams of        *)
(* different cost, next to a third that is not authenticated.  Two bytes   *)
(* in each direction cost more than the account has.                       *)
(***************************************************************************)
EXTENDS Relay, TLC

CONSTANTS limited, c1, c2, c3

MCAccounts == {limited}
MCLimit    == limited :> 3
MCOwner    == c1 :> limited @@ c2 :> limited @@ c3 :> NoAccount
MCCost     == c1 :> [num |-> 1, den |-> 1] @@ c2 :> [num |-> 1, den |-> 2]
              @@ c3 :> [num |-> 1, den |-> 1]
===============================================================================
