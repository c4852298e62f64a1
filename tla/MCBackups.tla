------------------------------- MODULE MCBackups -------------------------------
(* Small instances of Backups for TLC. *)
EXTENDS Backups, TLC

Entered == {[enabled |-> TRUE, destination |-> "cloud", retention |-> [value |-> 2, unit |-> "months"]]}

(* Two whole years, and one day more than one. *)
Lengths == {366, 730}

Symmetry == Permutations(Files) \cup Permutations(Runs) \cup Permutations(Storages)

=============================================================================
