----------------------------- MODULE MCReconnect ----------------------------
(* An instance of Reconnect for TLC. *)
EXTENDS Reconnect

=============================================================================
