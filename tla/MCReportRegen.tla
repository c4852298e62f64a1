----------------------------- MODULE MCReportRegen -----------------------------
(* Small instances of ReportRegen for TLC. *)
EXTENDS ReportRegen, TLC

Symmetry == Permutations(Clients) \cup Permutations(Workers)

=============================================================================
