---------------------------- MODULE MCReportWorker ----------------------------
(* Small instances of ReportWorker for TLC. *)
EXTENDS ReportWorker, TLC

Symmetry == Permutations(Workers) \cup Permutations(Analysts) \cup Permutations(Reports)

=============================================================================
