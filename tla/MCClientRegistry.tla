-------------------------- MODULE MCClientRegistry --------------------------
(* ClientRegistry on small sets.  Addresses and pids are interchangeable:  *)
(* the specification only compares them.                                   *)
EXTENDS ClientRegistry, TLC

Symmetry == Permutations(Ips) \cup Permutations(Pids)

=============================================================================
