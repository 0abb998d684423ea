--------------------------- MODULE MCRelayClient ---------------------------
(* Small instances of RelayClient: calls of one hook.                       *)
EXTENDS RelayClient

CONSTANTS a, b
=============================================================================
