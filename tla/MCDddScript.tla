---------------------------- MODULE MCDddScript ----------------------------
(* A small instance of DddScript for TLC. *)
EXTENDS DddScript, TLC

Symmetry == Permutations(Launches) \cup Permutations(Dirs)

=============================================================================
