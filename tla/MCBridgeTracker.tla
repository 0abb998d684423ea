-------------------------- MODULE MCBridgeTracker --------------------------
(* Two devices with one poll each: the polls of the same transfer overlap. *)
EXTENDS BridgeTracker, TLC

CONSTANTS d1, d2, p1, p2

MCOnePollEach == (p1 :> d1 @@ p2 :> d2)

=============================================================================
