-------------------------- MODULE MCReporterRefund --------------------------
(* ReporterRefund for TLC: the workers are named in ReporterRefund.cfg.    *)
EXTENDS ReporterRefund
=============================================================================
