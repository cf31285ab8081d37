------------------------------ MODULE RecordingLife ------------------------------
(***************************************************************************)
(* A live request's recordings from the first session to the deletion of   *)
(* their objects: LiveSession and RecordingRetention on the same rows of   *)
(* live_recordings.                                                        *)
(*                                                                         *)
(* RecordingRetention was written over any recordings that keep the        *)
(* promise of RecordingOutcome.  Here its status is the column the         *)
(* sessions and webhooks write, and its whole recordings are those whose   *)
(* one egress LiveKit completed.  Every function of either module is one   *)
(* transaction on the row, so their steps interleave.                      *)
(***************************************************************************)
EXTENDS LiveSession, RecordingRetention

lifeVars == <<vars, recordingVars>>

\* What the sessions and webhooks have made of the rows, and LiveKit of the broadcasts.
RowStatuses     == [r \in Recordings |-> row[r].status]
WholeBroadcasts == {r \in Recordings : \E e \in Egresses :
                        EgressesOf(r) = {e} /\ egress[e].status = "completed"}

\* The columns of one row: what the review reads is what the sessions wrote.
SameRows == status = RowStatuses /\ whole = WholeBroadcasts

LifeInit == Init /\ RetentionInit /\ SameRows

LifeNext ==
    /\ \/ Next /\ UNCHANGED retentionVars
       \/ RetentionNext /\ UNCHANGED vars
    /\ status' = RowStatuses' /\ whole' = WholeBroadcasts'

LifeSpec == LifeInit /\ [][LifeNext]_lifeVars

(* ----------------------------- properties ------------------------------ *)

\* The sessions' half is a behaviour of LiveSession, the review's of RecordingRetention: what
\* each was shown to keep by itself, the rows keep under both.
EachByItself == Spec /\ RecordingSpec

\* A replay that is public, or held, is the whole broadcast: the one egress LiveKit started
\* for the recording has completed, and the object it wrote still exists, whatever sessions
\* were lost, webhooks came out of order, and daily runs stopped on the way.
PublicReplayIsWhole ==
    \A r \in Recordings :
        /\ kept[r].replay = "published" => r \in WholeBroadcasts
        /\ kept[r].replay = "published" \/ kept[r].hold => r \notin gone
=================================================================================
