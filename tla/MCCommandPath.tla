---------------------------- MODULE MCCommandPath ---------------------------
(* An instance of CommandPath for TLC. *)
EXTENDS CommandPath

MCIps == {"ip1", "ip2"}
MCPorts == {20000, 20001}

\* The second attempt tests another port of the first one's address, or another address.
MCClouds ==
  LET first == [ip |-> "ip1", port |-> 20000]
  IN  {<<first, [first EXCEPT !.port = 20001]>>, <<first, [first EXCEPT !.ip = "ip2"]>>}

=============================================================================
