--------------------------- MODULE MCRelayGateway ---------------------------
(* Small instances of RelayGateway: two requests carry the same marker, a   *)
(* third one another.                                                       *)
EXTENDS RelayGateway, TLC

CONSTANTS r1, r2, r3, m1, m2

MCMarkerOf == [r \in Requests |-> IF r = r3 THEN m2 ELSE m1]

\* The two requests with the same marker may be exchanged.
MCSymmetry == Permutations({r1, r2})

=============================================================================
