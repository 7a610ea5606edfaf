-------------------------- MODULE MCStreamPreview --------------------------
(* The preview manager for TLC. Liveness is checked: no symmetry. *)
EXTENDS StreamPreview

=============================================================================
