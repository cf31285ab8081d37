------------------------ MODULE MCReporterAccessSync ------------------------
(* Small instances of ReporterAccessSync for TLC.                          *)
EXTENDS ReporterAccessSync, TLC

\* Administrators' requests are interchangeable, and so are sessions.
Symmetry == Permutations(Admins) \cup Permutations(Sessions)
=============================================================================
