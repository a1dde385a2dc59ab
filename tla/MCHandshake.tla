---------------------------- MODULE MCHandshake ----------------------------
(* Handshake with up to three clients, two of which share an address.      *)
EXTENDS Handshake

CONSTANTS c1, c2, c3

MCIp == [c \in Clients |-> IF c = c3 THEN 2 ELSE 1]

=============================================================================
