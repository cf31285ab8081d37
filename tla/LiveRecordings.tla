----------------------------- MODULE LiveRecordings -----------------------------
(***************************************************************************)
(* What the modules about recordings call by one name: the recordings of a *)
(* live request (live_recordings) and the statuses a row passes through    *)
(* (recording_status).                                                     *)
(***************************************************************************)
CONSTANTS Recordings, None

Open  == {"pending", "recording"}
Ended == {"completed", "failed"}
=================================================================================
