-------------------------- MODULE MCRecordingRetention --------------------------
\* RecordingRetention for TLC: the recordings and runs are named in RecordingRetention.cfg.
EXTENDS RecordingRetention
================================================================================
