----------------------------- MODULE MCRestarts -----------------------------
(* Restarts with three clients, two of which share an address.             *)
EXTENDS Restarts, TLC

CONSTANTS c1, c2, c3

MCIp == [c \in Clients |-> IF c = c3 THEN 2 ELSE 1]

Symmetry == Permutations(Servers)

=============================================================================
