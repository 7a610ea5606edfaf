----------------------------- MODULE MCUpdater -----------------------------
(* The update transaction for TLC. *)
EXTENDS Updater, TLC

\* Handlers are interchangeable.
Symmetry == Permutations(Handlers)

=============================================================================
