------------------------------ MODULE MCServer ------------------------------
(***************************************************************************)
(* Server for TLC: workers are interchangeable, so states that differ only *)
(* by a permutation of their names need to be visited once.  Only runs     *)
(* that check no liveness may use it.                                      *)
(***************************************************************************)
EXTENDS Server, TLC

Symmetry == Permutations(Threads)

=============================================================================
