----------------------------- MODULE MCRelayCtl -----------------------------
(* Small instances of RelayCtl for TLC. *)
EXTENDS RelayNegotiation
=============================================================================
