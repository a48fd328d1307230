--------------------------- MODULE MCReportStatus ---------------------------
(* Instances of ReportStatus for TLC.                                        *)
EXTENDS ReportStatus, TLC

CONSTANTS r1, r2, q1, q2, k1, k2, j1, j2, j3, j4

Symmetry == Permutations({q1, q2}) \cup Permutations({j1, j2})
=============================================================================
