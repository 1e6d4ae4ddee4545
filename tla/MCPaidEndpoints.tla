--------------------------- MODULE MCPaidEndpoints --------------------------
(* A small instance of PaidEndpoints for TLC. *)
EXTENDS PaidEndpoints
=============================================================================
