--------------------------- MODULE RecordingRetention ---------------------------
(***************************************************************************)
(* Review and retention of a request's recordings                          *)
(* (reporter/.../lifecycle.service.ts deleteRecording, the review          *)
(* functions of the recordings and the trigger                             *)
(* prevent_live_recording_deletion_race).                                  *)
(*                                                                         *)
(* Ninety days after a recording has ended, or after it was rejected, the  *)
(* daily job deletes its object, unless it is published or held.  The job  *)
(* claims the row under a lease, asks the store, and books the answer.     *)
(* Editors publish, reject and hold meanwhile.                             *)
(*                                                                         *)
(* A run is the job's work on one item of a page it claimed; its token is  *)
(* identified with it.  How a recording comes about is RecordingOutcome's. *)
(***************************************************************************)
EXTENDS RecordingOutcome

CONSTANTS Runs,
          MayLoseCredentials   \* the store may be unconfigured again

ASSUME NoneIsNoRun == None \notin Runs \cup Recordings

VARIABLES
    kept,        \* the review and retention columns of live_recordings
    gone,        \* the store: recordings whose object was deleted
    run,         \* where each run is
    configured   \* the deployment has the store's credentials

retentionVars == <<kept, gone, run, configured>>
recordingVars == <<outcomeVars, retentionVars>>

\* "ready": deletion_retry_ready_at is null or past; "failure": deletion_failure_detail.
Kept == [replay : {"private", "published", "rejected"}, hold : BOOLEAN, due : BOOLEAN,
         deleted : BOOLEAN, lease : Runs \cup {None}, leased : BOOLEAN,
         failure : {"none", "unconfigured", "failed"}, ready : BOOLEAN]
Run  == [at : {"idle", "claimed", "deleted", "failed", "unconfigured"},
         recording : Recordings \cup {None}]

Waits == [at |-> "idle", recording |-> None]
RunAt(u, where) == run[u].at = where
Work(u)         == run[u].recording
Rests(u)        == run' = [run EXCEPT ![u] = Waits]
Turns(u, where) == run' = [run EXCEPT ![u] = [@ EXCEPT !.at = where]]
HasEnded(r)     == status[r] \in Ended

Unleased(k) == [k EXCEPT !.lease = None, !.leased = FALSE, !.failure = "none", !.ready = TRUE]

RetentionInit ==
    /\ kept = [r \in Recordings |->
                [replay |-> "private", hold |-> FALSE, due |-> FALSE, deleted |-> FALSE,
                 lease |-> None, leased |-> FALSE, failure |-> "none", ready |-> TRUE]]
    /\ gone = {}
    /\ run = [u \in Runs |-> Waits]
    /\ configured \in BOOLEAN

(* -------------------------- the daily job ------------------------------ *)

Deletable(r) ==
    /\ status[r] = "completed" /\ kept[r].due
    /\ kept[r].replay # "published" /\ ~kept[r].hold

\* Mutant: an abandoned claim is never taken over.
FreeToClaim(r) == kept[r].lease = None
\* claim_reporter_lifecycle takes what nobody has claimed in the last five minutes.
Claimable(r) == kept[r].lease = None \/ ~kept[r].leased

ClaimDeletion(u, r) ==
    /\ RunAt(u, "idle")
    /\ Deletable(r) /\ kept[r].ready /\ ~kept[r].deleted /\ Claimable(r)
    /\ kept' = [kept EXCEPT ![r] =
                    [Unleased(kept[r]) EXCEPT !.lease = u, !.leased = TRUE]]
    /\ run' = [run EXCEPT ![u] =
                    [at |-> IF configured THEN "claimed" ELSE "unconfigured", recording |-> r]]
    /\ UNCHANGED <<gone, configured>>

\* deleteObject: deleted or not found; failed; or deleted, and the answer is lost.
DeleteObject(u) ==
    /\ RunAt(u, "claimed")
    /\ \/ gone' = gone \cup {Work(u)} /\ (Turns(u, "deleted") \/ Turns(u, "failed"))
       \/ UNCHANGED gone /\ Turns(u, "failed")
    /\ UNCHANGED <<kept, configured>>

Fenced(u) == kept[Work(u)].lease = u /\ Deletable(Work(u))

\* complete_reporter_recording_deletion.
CompleteDeletion(u) ==
    LET r == Work(u) IN
    /\ RunAt(u, "deleted")
    /\ kept' = IF ~kept[r].deleted /\ Fenced(u)
               THEN [kept EXCEPT ![r] = [Unleased(kept[r]) EXCEPT !.deleted = TRUE]]
               ELSE kept
    /\ Rests(u)
    /\ UNCHANGED <<gone, configured>>

\* fail_reporter_recording_deletion: the claim stays, and with it the ban on a review.
FailDeletion(u) ==
    LET r == Work(u) IN
    /\ run[u].at \in {"failed", "unconfigured"}
    /\ kept' = IF Fenced(u) /\ kept[r].failure # run[u].at
               THEN [kept EXCEPT ![r] = [@ EXCEPT !.failure = run[u].at, !.ready = FALSE]]
               ELSE kept
    /\ Rests(u)
    /\ UNCHANGED <<gone, configured>>

\* The invocation ends, or leaves the item to a later one ("deferred").
RunStops(u) ==
    /\ ~RunAt(u, "idle")
    /\ Rests(u)
    /\ UNCHANGED <<kept, gone, configured>>

(* ----------------------- the newsroom's review ------------------------- *)

\* Mutant: a claim that has failed bars nobody.
OpenAfterFailure(r) ==
    ~kept[r].deleted /\ (kept[r].lease = None \/ kept[r].failure # "none")
\* prevent_live_recording_deletion_race: a claim bars every change of the replay and of the
\* hold, unless it came to nothing for want of credentials.
OpenToReview(r) ==
    ~kept[r].deleted /\ (kept[r].lease = None \/ kept[r].failure = "unconfigured")

\* Mutant: a review does not mind the claims of the job.
ReviewedAnyway(r, k) ==
    /\ kept' = [kept EXCEPT ![r] = k]
    /\ UNCHANGED <<gone, run, configured>>

Reviewed(r, k) ==
    /\ OpenToReview(r)
    /\ kept' = [kept EXCEPT ![r] = IF kept[r].lease = None THEN k ELSE Unleased(k)]
    /\ UNCHANGED <<gone, run, configured>>

\* publish_live_recording; retention_delete_at becomes null.
Publish(r) ==
    /\ status[r] = "completed" /\ kept[r].replay = "private"
    /\ Reviewed(r, [kept[r] EXCEPT !.replay = "published", !.due = FALSE])

\* reject_live_recording; ninety days start anew.
Reject(r) ==
    /\ HasEnded(r) /\ kept[r].replay = "private"
    /\ Reviewed(r, [kept[r] EXCEPT !.replay = "rejected", !.due = FALSE])

\* set_live_recording_legal_hold.
SetLegalHold(r) ==
    /\ HasEnded(r)
    /\ Reviewed(r, [kept[r] EXCEPT !.hold = ~@])

(* --------------------------- time, deployment -------------------------- *)

RetentionEnds(r) ==
    /\ HasEnded(r) /\ kept[r].replay # "published" /\ ~kept[r].due
    /\ kept' = [kept EXCEPT ![r] = [@ EXCEPT !.due = TRUE]]
    /\ UNCHANGED <<gone, run, configured>>

RetryFallsDue(r) ==
    /\ ~kept[r].ready
    /\ kept' = [kept EXCEPT ![r] = [@ EXCEPT !.ready = TRUE]]
    /\ UNCHANGED <<gone, run, configured>>

DeletionLeaseLapses(r) ==
    /\ kept[r].leased
    /\ kept' = [kept EXCEPT ![r] = [@ EXCEPT !.leased = FALSE]]
    /\ UNCHANGED <<gone, run, configured>>

CredentialsChange ==
    /\ configured => MayLoseCredentials
    /\ configured' = ~configured
    /\ UNCHANGED <<kept, gone, run>>

RunStep(u) ==
    \/ \E r \in Recordings : ClaimDeletion(u, r)
    \/ DeleteObject(u) \/ CompleteDeletion(u) \/ FailDeletion(u) \/ RunStops(u)

RetentionNext ==
    \/ \E u \in Runs : RunStep(u)
    \/ \E r \in Recordings :
        \/ Publish(r) \/ Reject(r) \/ SetLegalHold(r)
        \/ RetentionEnds(r) \/ RetryFallsDue(r) \/ DeletionLeaseLapses(r)
    \/ CredentialsChange

RecordingInit == OutcomeInit /\ RetentionInit

RecordingNext ==
    \/ OutcomeNext /\ UNCHANGED retentionVars
    \/ RetentionNext /\ UNCHANGED outcomeVars

RecordingSpec == RecordingInit /\ [][RecordingNext]_recordingVars

\* The daily job gets the credentials and, now and then, through its work while it holds the
\* claim (the route may run a minute, the lease is five).  Nothing is assumed of editors.
Alone(action) == action /\ UNCHANGED outcomeVars
InTime(u) == Work(u) # None /\ kept[Work(u)].lease = u

Fairness ==
    /\ WF_recordingVars(Alone(~configured /\ CredentialsChange))
    /\ \A r \in Recordings :
        /\ WF_recordingVars(Alone(RetryFallsDue(r))) /\ WF_recordingVars(Alone(DeletionLeaseLapses(r)))
        /\ SF_recordingVars(Alone(\E u \in Runs : ClaimDeletion(u, r)))
    /\ \A u \in Runs :
        /\ SF_recordingVars(Alone(InTime(u) /\ DeleteObject(u) /\ Turns(u, "deleted")))
        /\ SF_recordingVars(Alone(InTime(u) /\ CompleteDeletion(u)))
        /\ WF_recordingVars(Alone(RunStops(u)))

FairSpec == RecordingSpec /\ Fairness

(* ----------------------------- properties ------------------------------ *)

RecordingTypeOK ==
    /\ status \in [Recordings -> {"none"} \cup Open \cup Ended]
    /\ whole \subseteq Recordings
    /\ kept \in [Recordings -> Kept]
    /\ gone \subseteq Recordings
    /\ run \in [Runs -> Run]
    /\ configured \in BOOLEAN

\* What is published is a whole broadcast whose object still exists, and so does the object
\* of what is held, however many runs claimed it before and whatever they heard of the store
\* (prevent_live_recording_deletion_race, publish_live_recording).
PublishedIsKept ==
    \A r \in Recordings :
        /\ kept[r].replay = "published" => r \in whole \ gone
        /\ kept[r].hold => r \notin gone

\* An object is deleted only while its recording is due, unpublished and not held: the
\* decision of the claim still stands when the store is asked, though nobody looks again
\* (claim_reporter_lifecycle, deleteRecording).
DeletedWhileDue == [][\A r \in gone' \ gone : Deletable(r)]_recordingVars

\* A recording whose retention is over is deleted, or held, published or rejected after all,
\* whatever runs stop on the way (the leases and retries of claim_reporter_lifecycle).
Overdue(r) == Deletable(r) /\ ~kept[r].deleted
DueIsDeleted == \A r \in Recordings : Overdue(r) ~> ~Overdue(r)
================================================================================
