---------------------------- MODULE RecordingOutcome ----------------------------
(***************************************************************************)
(* What becomes of a live request's recordings, as the newsroom may rely   *)
(* on it.  A recording is open until it completes or fails, and stays what *)
(* it became; one is open at a time.  It completes only if LiveKit         *)
(* recorded the broadcast from end to end, and what LiveKit recorded so    *)
(* never fails.  LiveSession implements this; RecordingRetention builds    *)
(* upon it.                                                                *)
(***************************************************************************)
EXTENDS LiveRecordings

VARIABLES
    status,  \* recording_status; "none" before the row exists
    whole    \* the recordings whose object is a whole broadcast, and its only one

outcomeVars == <<status, whole>>

Becomes(r, new) == status' = [status EXCEPT ![r] = new]

OutcomeInit ==
    /\ status = [r \in Recordings |-> "none"]
    /\ whole = {}

Opens(r) ==
    /\ status[r] = "none" /\ \A other \in Recordings : status[other] \notin Open
    /\ Becomes(r, "pending")
    /\ UNCHANGED whole

Starts(r) ==
    /\ status[r] = "pending"
    /\ Becomes(r, "recording")
    /\ UNCHANGED whole

\* The last of the broadcast is stored, before anybody hears of it.
IsStored(r) ==
    /\ status[r] \in Open /\ r \notin whole
    /\ whole' = whole \cup {r}
    /\ UNCHANGED status

Ends(r) ==
    /\ status[r] \in Open
    /\ Becomes(r, IF r \in whole THEN "completed" ELSE "failed")
    /\ UNCHANGED whole

OutcomeNext == \E r \in Recordings : Opens(r) \/ Starts(r) \/ IsStored(r) \/ Ends(r)

OutcomeSpec == OutcomeInit /\ [][OutcomeNext]_outcomeVars
================================================================================
