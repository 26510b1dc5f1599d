----------------------------- MODULE MCStaticAuth -----------------------------
(***************************************************************************)
(* Three callers that race for the same small allowance, next to an        *)
(* unlimited user and an id nobody has.  At 3/2 a byte a chunk of two      *)
(* costs 3: of the allowance 4 the first debit leaves 1, and the second is *)
(* floored at zero.                                                        *)
(***************************************************************************)
EXTENDS StaticAuth, TLC

CONSTANTS alice, bob, nobody, c1, c2, c3

MCUsers     == {alice, bob}
MCAllowance == alice :> 4 @@ bob :> Unlimited
MCCost      == [num |-> 3, den |-> 2]
===============================================================================
