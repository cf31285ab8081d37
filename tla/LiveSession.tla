------------------------------ MODULE LiveSession ------------------------------
(***************************************************************************)
(* The recordings of one approved live request                             *)
(* (reporter/.../live-session.service.ts, livekit-webhook.service.ts).     *)
(*                                                                         *)
(* A session is a reporter's HTTP request for a publisher token.  Before   *)
(* it gets one, it reserves a recording under a lease of five minutes,     *)
(* makes the room, starts an egress (LiveKit's recorder) and stores its    *)
(* id.  The egress may have started although the session heard nothing;    *)
(* whoever takes the reservation over asks LiveKit first.  Webhooks tell   *)
(* what became of an egress, in any order, again and again until they are  *)
(* taken, or never.                                                        *)
(*                                                                         *)
(* A session's claim token is identified with the session.  An answer that *)
(* is lost is a session that stops after the step.  A webhook's claim and  *)
(* completion are one action: the completion rechecks the row it read, and *)
(* a webhook that is refused only stays deliverable.  Rows of before the   *)
(* reconciliation migration (marker 'unknown') are left out.               *)
(***************************************************************************)
EXTENDS LiveRecordings

CONSTANTS Sessions, Egresses

ASSUME NoneIsNobody == None \notin Sessions \cup Recordings \cup Egresses

VARIABLES
    granted,   \* the request is approved, its window open, the reporter entitled to it
    row,       \* live_recordings of the request
    egress,    \* LiveKit: its egresses in the room, active and historical
    session

vars == <<granted, row, egress, session>>

Row     == [status : {"none"} \cup Open \cup Ended,
            claim : Sessions \cup {None}, leased : BOOLEAN, egress : Egresses \cup {None},
            marker : Ended \cup {"none"}, cause : {"none", "room", "start", "provider"}]
Egress  == [of : Recordings \cup {None}, status : {"none", "active"} \cup Ended]
Session == [at : {"idle", "listing", "creating", "starting", "started", "ended",
                  "roomFailed", "startFailed", "authorizing", "joined"},
            recording : Recordings \cup {None}, egress : Egresses \cup {None}]

NoRow   == [status |-> "none", claim |-> None, leased |-> FALSE, egress |-> None,
            marker |-> "none", cause |-> "none"]
Idle    == [at |-> "idle", recording |-> None, egress |-> None]
At(s, where)  == session[s].at = where
Mine(s)       == session[s].recording
Moves(s, where) == session' = [session EXCEPT ![s] = [@ EXCEPT !.at = where]]
Stops(s)        == session' = [session EXCEPT ![s] = Idle]
Settled(r)      == row[r].status \in Ended
Listed          == {e \in Egresses : egress[e].status # "none"}
EgressesOf(r)   == {e \in Egresses : egress[e].of = r}

Init ==
    /\ granted = TRUE
    /\ row = [r \in Recordings |-> NoRow]
    /\ egress = [e \in Egresses |-> [of |-> None, status |-> "none"]]
    /\ session = [s \in Sessions |-> Idle]

(* ----------------------------- the session ----------------------------- *)

IsOpen(r) == row[r].status \in Open

Claimed(s, r) ==
    row' = [row EXCEPT ![r] =
                [@ EXCEPT !.status = "pending", !.claim = s, !.leased = TRUE]]
Goes(s, r, where) ==
    session' = [session EXCEPT ![s] = [at |-> where, recording |-> r, egress |-> None]]

\* reserve_reporter_live_recording: a new recording, the one that runs, or one whose lease
\* has lapsed.  A marked one is busy.
Reserve(s, r) ==
    /\ At(s, "idle") /\ granted
    /\ \/ /\ row[r].status = "none" /\ \A other \in Recordings : ~IsOpen(other)
          /\ Claimed(s, r) /\ Goes(s, r, "creating")
       \/ /\ row[r].status = "recording" /\ row[r].marker = "none"
          /\ UNCHANGED row /\ Goes(s, r, "authorizing")
       \/ /\ row[r].status = "pending" /\ row[r].marker = "none" /\ ~row[r].leased
          /\ Claimed(s, r) /\ Goes(s, r, "listing")
    /\ UNCHANGED <<granted, egress>>

\* Mutant: what LiveKit lists is not looked at.
StartAgain(s) ==
    /\ At(s, "listing")
    /\ Moves(s, "creating")
    /\ UNCHANGED <<granted, row, egress>>

\* Mutant: the room's only egress is taken for this recording's.
ListWhateverIsThere(s) ==
    /\ At(s, "listing")
    /\ \/ Listed = {} /\ Moves(s, "creating")
       \/ \E e \in Egresses :
            /\ Listed = {e}
            /\ session' = [session EXCEPT ![s] = [@ EXCEPT !.egress = e,
                   !.at = IF egress[e].status = "active" THEN "started" ELSE "ended"]]
    /\ UNCHANGED <<granted, row, egress>>

\* listRoomRecordings: the room's only egress, if it is this recording's; none; or stop.
ListRecordings(s) ==
    /\ At(s, "listing")
    /\ \/ Listed = {} /\ Moves(s, "creating")
       \/ \E e \in Egresses :
            /\ Listed = {e} /\ egress[e].of = Mine(s)
            /\ session' = [session EXCEPT ![s] = [@ EXCEPT !.egress = e,
                   !.at = IF egress[e].status = "active" THEN "started" ELSE "ended"]]
       \/ Listed # {} /\ (\A e \in Egresses : Listed = {e} => egress[e].of # Mine(s)) /\ Stops(s)
    /\ UNCHANGED <<granted, row, egress>>

CreateRoom(s) ==
    /\ At(s, "creating")
    /\ Moves(s, "starting") \/ Moves(s, "roomFailed")
    /\ UNCHANGED <<granted, row, egress>>

\* Mutant: any error of the start is final, though the egress may run.
AnyErrorIsFinal(s) ==
    /\ At(s, "starting")
    /\ \E e \in Egresses :
        /\ egress[e].status = "none"
        /\ egress' = [egress EXCEPT ![e] = [of |-> Mine(s), status |-> "active"]]
        /\ Moves(s, "startFailed")
           \/ session' = [session EXCEPT ![s] = [@ EXCEPT !.at = "started", !.egress = e]]
    /\ UNCHANGED <<granted, row>>

\* startRecording: it starts, or is refused for good (isDefinitiveStartFailure).
StartRecording(s) ==
    /\ At(s, "starting")
    /\ \/ \E e \in Egresses :
            /\ egress[e].status = "none"
            /\ egress' = [egress EXCEPT ![e] = [of |-> Mine(s), status |-> "active"]]
            /\ session' = [session EXCEPT ![s] = [@ EXCEPT !.at = "started", !.egress = e]]
       \/ Moves(s, "startFailed") /\ UNCHANGED egress
    /\ UNCHANGED <<granted, row>>

Holds(s) ==
    /\ row[Mine(s)].status = "pending" /\ row[Mine(s)].claim = s /\ row[Mine(s)].marker = "none"

Released(s, r) == [row[r] EXCEPT !.claim = None, !.leased = FALSE]

\* complete_reporter_live_recording_start.
CompleteStart(s) ==
    LET r == Mine(s) e == session[s].egress IN
    /\ At(s, "started")
    /\ IF Holds(s) /\ row[r].egress \in {None, e}
       THEN /\ row' = [row EXCEPT ![r] =
                    [Released(s, r) EXCEPT !.status = "recording", !.egress = e]]
            /\ Moves(s, "authorizing")
       ELSE UNCHANGED row /\ Stops(s)
    /\ UNCHANGED <<granted, egress>>

Fails(s, cause) ==
    row' = [row EXCEPT ![Mine(s)] =
                [Released(s, Mine(s)) EXCEPT !.status = "failed", !.cause = cause]]

\* Mutant: whoever failed books it, whoever holds the claim.
FailUnfenced(s) ==
    /\ \/ At(s, "roomFailed") /\ Stops(s) /\ Fails(s, "room")
       \/ At(s, "startFailed") /\ Moves(s, "authorizing") /\ Fails(s, "start")
    /\ UNCHANGED <<granted, egress>>

\* fail_reporter_live_recording_start: the administrators are told.  A broadcast may go on
\* without a recording, but not without a room.
FailStart(s) ==
    /\ \/ At(s, "roomFailed") /\ Stops(s)
          /\ IF Holds(s) THEN Fails(s, "room") ELSE UNCHANGED row
       \/ At(s, "startFailed")
          /\ IF Holds(s) THEN Fails(s, "start") /\ Moves(s, "authorizing")
             ELSE UNCHANGED row /\ Stops(s)
    /\ UNCHANGED <<granted, egress>>

\* report_reporter_live_recording_reconciliation: the egress is bound and how it ended is
\* marked; the row stays pending until the webhook.
ReportEnded(s) ==
    LET r == Mine(s) e == session[s].egress IN
    /\ At(s, "ended")
    /\ IF /\ row[r].status = "pending" /\ row[r].claim = s /\ row[r].egress \in {None, e}
          /\ row[r].marker \in {"none", egress[e].status}
       THEN row' = [row EXCEPT ![r] = [@ EXCEPT !.egress = e, !.marker = egress[e].status]]
       ELSE UNCHANGED row
    /\ Stops(s)
    /\ UNCHANGED <<granted, egress>>

\* What authorize_reporter_live_session asks of the recording.
MayBroadcast(r) ==
    /\ row[r].marker = "none"
    /\ row[r].status = "recording" \/ (row[r].status = "failed" /\ row[r].cause = "start")

\* authorize_reporter_live_session and the token.
Authorize(s) ==
    /\ At(s, "authorizing")
    /\ IF granted /\ MayBroadcast(Mine(s)) THEN Moves(s, "joined") ELSE Stops(s)
    /\ UNCHANGED <<granted, row, egress>>

\* A step fails, its answer is lost, the reporter leaves: the session is over.
SessionStops(s) ==
    /\ ~At(s, "idle")
    /\ Stops(s)
    /\ UNCHANGED <<granted, row, egress>>

(* -------------------- LiveKit, its webhooks, time ---------------------- *)

EgressEnds(e) ==
    /\ egress[e].status = "active"
    /\ \E how \in Ended : egress' = [egress EXCEPT ![e] = [@ EXCEPT !.status = how]]
    /\ UNCHANGED <<granted, row, session>>

\* An egress_started webhook is late when it meets a marked or settled row.
Stale(r, kind) == Settled(r) \/ (row[r].marker # "none" /\ kind = "started")

\* complete_livekit_webhook_event, for the recording the egress is bound to.
ProcessWebhook(e, kind) ==
    /\ egress[e].status \in (IF kind = "ended" THEN Ended ELSE Ended \cup {"active"})
    /\ \E r \in Recordings :
        /\ row[r].egress = e
        /\ kind = "ended" => row[r].marker \in {"none", egress[e].status}
        /\ row' = IF Stale(r, kind) THEN row
                  ELSE [row EXCEPT ![r] =
                    IF kind = "started"
                    THEN [@ EXCEPT !.status = "recording", !.claim = None, !.leased = FALSE]
                    ELSE [@ EXCEPT !.status = egress[e].status, !.claim = None, !.leased = FALSE,
                             !.cause = IF egress[e].status = "failed" THEN "provider" ELSE "none"]]
    /\ UNCHANGED <<granted, egress, session>>

\* Five minutes are over.  LiveKit has decided about whatever was asked under the claim.
LeaseLapses(r) ==
    /\ row[r].leased
    /\ session[row[r].claim].at \notin {"listing", "creating", "starting"}
    /\ row' = [row EXCEPT ![r] = [@ EXCEPT !.leased = FALSE]]
    /\ UNCHANGED <<granted, egress, session>>

\* The request is terminated, its window ends, the reporter is suspended or expires.
Revoke ==
    /\ granted
    /\ granted' = FALSE
    /\ UNCHANGED <<row, egress, session>>

SessionStep(s) ==
    \/ \E r \in Recordings : Reserve(s, r)
    \/ ListRecordings(s) \/ CreateRoom(s) \/ StartRecording(s) \/ CompleteStart(s)
    \/ FailStart(s) \/ ReportEnded(s) \/ Authorize(s) \/ SessionStops(s)

Next ==
    \/ \E s \in Sessions : SessionStep(s)
    \/ \E e \in Egresses : EgressEnds(e) \/ \E kind \in {"started", "ended"} : ProcessWebhook(e, kind)
    \/ \E r \in Recordings : LeaseLapses(r)
    \/ Revoke

Spec == Init /\ [][Next]_vars

(* ----------------------------- properties ------------------------------ *)

TypeOK ==
    /\ granted \in BOOLEAN
    /\ row \in [Recordings -> Row]
    /\ egress \in [Egresses -> Egress]
    /\ session \in [Sessions -> Session]

\* However many sessions start, stop and take over a reservation whose start nobody heard
\* of, LiveKit records a broadcast once: a second egress would write over the first one's
\* object (listRoomRecordings before a restart, the lease).
OneEgressPerRecording ==
    \A e, f \in Egresses : egress[e].of # None /\ egress[e].of = egress[f].of => e = f

\* A row says of an egress what LiveKit knows of it, whatever the order of the webhooks and
\* the reports: no recording ends that goes on, none that failed is complete
\* (complete_livekit_webhook_event, report_reporter_live_recording_reconciliation).
RecordsAreTrue ==
    \A r \in Recordings :
        /\ row[r].egress # None => egress[row[r].egress].of = r
        /\ row[r].marker # "none" => egress[row[r].egress].status = row[r].marker
        /\ row[r].status = "recording" => row[r].egress # None
        /\ row[r].status = "completed" => egress[row[r].egress].status = "completed"
        /\ row[r].cause = "provider" => egress[row[r].egress].status = "failed"

\* No recording is given up: an egress is bound to its row, or the row is still pending and
\* the next session can find it.  In particular a start that is recorded as failed has left
\* no egress behind (fail_reporter_live_recording_start, isDefinitiveStartFailure).
NoEgressIsForgotten ==
    \A e \in Egresses : egress[e].of # None =>
        LET r == egress[e].of IN
        row[r].egress = e \/ (row[r].egress = None /\ row[r].status = "pending")

\* The rows keep RecordingOutcome's promise: one is open at a time, what has ended is final,
\* and a recording is completed if and only if its one egress completed, although nobody is
\* told in order and a start may go unheard.
Promise == INSTANCE RecordingOutcome WITH
    status <- [r \in Recordings |-> row[r].status],
    whole  <- {r \in Recordings : \E e \in Egresses :
                    EgressesOf(r) = {e} /\ egress[e].status = "completed"}
KeepsThePromise == Promise!OutcomeSpec
================================================================================
