------------------------ MODULE MCReporterOnboarding ------------------------
(* ReporterOnboarding for TLC: the requests, orders and references are     *)
(* named in the configurations.                                            *)
EXTENDS ReporterOnboarding
=============================================================================
