--------------------------- MODULE MCRiscvTarget ---------------------------
(* A small instance of RiscvTarget for TLC. *)
EXTENDS RiscvTarget, TLC

RunSymmetry == Permutations(Runs)

=============================================================================
