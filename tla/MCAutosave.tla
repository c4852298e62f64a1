------------------------------- MODULE MCAutosave -------------------------------
(* Model values and symmetry for the runs of Autosave. *)
EXTENDS Autosave, TLC

CONSTANTS ann, bob

Symmetry == Permutations(Tabs)

=============================================================================
