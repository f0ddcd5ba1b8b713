--------------------------- MODULE MCLightboxHost ---------------------------
(* Small instances of LightboxHost for TLC. *)
EXTENDS LightboxHost, TLC

LaunchSymmetry == Permutations(Launches)

=============================================================================
