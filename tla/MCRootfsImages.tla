--------------------------- MODULE MCRootfsImages ---------------------------
(* A small instance of RootfsImages for TLC. *)
EXTENDS RootfsImages, TLC

BuilderSymmetry == Permutations(Builders)

=============================================================================
