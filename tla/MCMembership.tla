---------------------------- MODULE MCMembership ----------------------------
(* A member and another holder of vouchers; a tier of a fixed price and one *)
(* that the admin may make dear or close; a registry with two wagers.       *)
EXTENDS Membership, TLC

CONSTANTS a, b, bronze, silver, r, w1, w2

Cheap == [price |-> 1, days |-> 1, active |-> TRUE, monthly |-> 1, concurrent |-> 0]
Dear == [price |-> 2, days |-> 2, active |-> TRUE, monthly |-> 0, concurrent |-> 1]
Closed == [price |-> 1, days |-> 1, active |-> FALSE, monthly |-> 2, concurrent |-> 2]

MCConfigs == (bronze :> {Cheap} @@ silver :> {Dear, Closed})
MCRegistryOf == [w \in Slots |-> r]
MCUserOf == [w \in Slots |-> a]

=============================================================================
