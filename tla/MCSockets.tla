----------------------------- MODULE MCSockets ------------------------------
(***************************************************************************)
(* Sockets for TLC, with interchangeable workers and connections.  Only    *)
(* runs that check no liveness may use the symmetry.                       *)
(***************************************************************************)
EXTENDS Sockets, TLC

Symmetry == Permutations(Workers) \cup Permutations(Hello)
              \cup Permutations(Control) \cup Permutations(Pipe)

=============================================================================
