------------------------------ MODULE MCWatch ------------------------------
(* Instances of Watch for TLC. *)
EXTENDS Watch, TLC

CONSTANTS c1, c2, c3, r1

ClientSymmetry == Permutations(Clients)
=============================================================================
