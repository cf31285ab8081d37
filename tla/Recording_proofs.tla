---------------------------- MODULE Recording_proofs ----------------------------
(***************************************************************************)
(* Proofs about LiveSession and RecordingRetention, for any number of      *)
(* sessions, recordings, egresses and runs, and about the two on the same  *)
(* rows (RecordingLife).                                                   *)
(*                                                                         *)
(* LiveSession: a session may ask LiveKit for an egress only while it      *)
(* holds the claim of a recording that has none (HeldInv): it made the     *)
(* row, or has listed the room, and nobody else can have come between,     *)
(* because the lease outlasts the calls.  From there on the one egress is  *)
(* bound to its row, or the row is pending and the next session finds it.  *)
(*                                                                         *)
(* RecordingRetention: the danger is a run that has asked the store and is *)
(* never heard of.  Once a run with credentials has claimed a recording    *)
(* (Touched), the row stays barred until the deletion is booked: no later  *)
(* claim can be abandoned for want of credentials, and no other failure    *)
(* opens the row.  This needs that credentials, once there, stay.          *)
(*                                                                         *)
(* The promise of RecordingOutcome, which the first implements and the     *)
(* second builds upon, joins them.                                         *)
(***************************************************************************)
EXTENDS RecordingLife, TLAPS

-----------------------------------------------------------------------------
(* The sessions: the inductive invariant.                                   *)

Unrecorded(r) == \A e \in Egresses : egress[e].of # r

\* What a session knows of its recording and of an egress.
SessionInv ==
    \A s \in Sessions : session[s].at # "idle" =>
        /\ Mine(s) \in Recordings
        /\ session[s].at \in {"started", "ended"} =>
            /\ session[s].egress \in Egresses
            /\ egress[session[s].egress].of = Mine(s)
        /\ session[s].at = "ended" => egress[session[s].egress].status \in Ended

\* Who asks LiveKit holds the claim under its lease; who may start an egress is the first.
HeldInv ==
    \A s \in Sessions :
        /\ session[s].at \in {"listing", "creating", "starting"} =>
            Holds(s) /\ row[Mine(s)].leased
        /\ session[s].at \in {"creating", "starting", "roomFailed", "startFailed"} /\ Holds(s) =>
            Unrecorded(Mine(s))

\* How the columns of a row depend on each other.
RowInv ==
    \A r \in Recordings :
        /\ row[r].status = "none" => row[r] = NoRow /\ Unrecorded(r)
        /\ row[r].status = "pending" /\ row[r].marker = "none" => row[r].egress = None
        /\ row[r].marker # "none" \/ row[r].status = "completed" \/ row[r].cause = "provider" =>
            row[r].egress # None
        /\ row[r].cause # "none" <=> row[r].status = "failed"
        /\ row[r].cause \in {"room", "start"} => row[r].egress = None

EgressInv == \A e \in Egresses : egress[e].of = None <=> egress[e].status = "none"

IInv ==
    /\ TypeOK /\ SessionInv /\ HeldInv /\ RowInv /\ EgressInv
    /\ OneEgressPerRecording /\ RecordsAreTrue /\ NoEgressIsForgotten

-----------------------------------------------------------------------------
(* It holds initially.                                                      *)

LEMMA Initially == Init => IInv
<1> SUFFICES ASSUME Init PROVE IInv
  OBVIOUS
<1> USE NoneIsNobody DEF Init
<1>1. TypeOK
  BY DEF TypeOK, Row, Egress, Session, NoRow, Idle, Ended
<1>2. SessionInv /\ HeldInv
  BY DEF SessionInv, HeldInv, Idle
<1>3. RowInv
  BY DEF RowInv, NoRow, Unrecorded
<1>4. EgressInv /\ OneEgressPerRecording /\ RecordsAreTrue /\ NoEgressIsForgotten
  BY DEF EgressInv, OneEgressPerRecording, RecordsAreTrue, NoEgressIsForgotten, NoRow
<1> QED
  BY <1>1, <1>2, <1>3, <1>4 DEF IInv

-----------------------------------------------------------------------------
(* Steps of a session that write no row and start no egress.                *)

\* Wherever a session goes without claiming anything, it may go, if it knows of its recording
\* and egress what it has to.
LEMMA SessionMoves ==
    ASSUME IInv, NEW s \in Sessions, NEW w \in Session,
           session' = [session EXCEPT ![s] = w], UNCHANGED <<granted, row, egress>>,
           w.at # "idle" => w.recording \in Recordings,
           w.at \in {"started", "ended"} =>
               w.egress \in Egresses /\ egress[w.egress].of = w.recording,
           w.at = "ended" => egress[w.egress].status \in Ended,
           w.at \in {"listing", "creating", "starting", "roomFailed", "startFailed"} =>
               Holds(s) /\ row[Mine(s)].leased /\ w.recording = Mine(s),
           w.at \in {"creating", "starting", "roomFailed", "startFailed"} => Unrecorded(w.recording)
    PROVE  IInv'
<1> USE DEF IInv
<1>1. session'[s] = w /\ \A t \in Sessions \ {s} : session'[t] = session[t]
  BY DEF TypeOK
<1>2. TypeOK'
  BY DEF TypeOK
<1>3. SessionInv'
  BY <1>1 DEF SessionInv, Mine
<1>4. HeldInv'
  BY <1>1 DEF HeldInv, Holds, Mine, Unrecorded
<1>5. (RowInv /\ EgressInv /\ OneEgressPerRecording /\ RecordsAreTrue /\ NoEgressIsForgotten)'
  BY DEF RowInv, EgressInv, OneEgressPerRecording, RecordsAreTrue, NoEgressIsForgotten,
         Unrecorded
<1> QED
  BY <1>2, <1>3, <1>4, <1>5

\* A session that stops, lists the room, makes it or is let in.
LEMMA QuietSteps ==
    ASSUME IInv, NEW s \in Sessions,
           ListRecordings(s) \/ CreateRoom(s) \/ Authorize(s) \/ SessionStops(s)
    PROVE  IInv'
<1> DEFINE Moved(where) == [session[s] EXCEPT !.at = where]
           Seen(e) == [session[s] EXCEPT !.egress = e,
                         !.at = IF egress[e].status = "active" THEN "started" ELSE "ended"]
<1>1. Idle \in Session /\ Idle.at = "idle"
  BY DEF Idle, Session
<1>2. \A where \in {"creating", "starting", "roomFailed", "joined"} :
        /\ Moved(where) \in Session /\ Moved(where).at = where
        /\ Moved(where).recording = session[s].recording
  BY DEF IInv, TypeOK, Session
<1>3. \A e \in Egresses :
        /\ Seen(e) \in Session /\ Seen(e).egress = e
        /\ Seen(e).recording = session[s].recording
        /\ Seen(e).at = IF egress[e].status = "active" THEN "started" ELSE "ended"
  BY DEF IInv, TypeOK, Session
<1> HIDE DEF Moved, Seen
<1>4. ASSUME Stops(s), UNCHANGED <<granted, row, egress>> PROVE IInv'
  BY <1>1, <1>4, SessionMoves DEF Stops
<1>5. CASE ListRecordings(s)
  <2>1. At(s, "listing") /\ UNCHANGED <<granted, row, egress>>
    BY <1>5 DEF ListRecordings
  <2>2. Mine(s) \in Recordings /\ Holds(s) /\ row[Mine(s)].leased
    BY <2>1 DEF IInv, SessionInv, HeldInv, At
  <2>3. ASSUME Listed = {}, session' = [session EXCEPT ![s] = Moved("creating")]
        PROVE  IInv'
    <3>1. Unrecorded(Mine(s))
      BY <2>2, <2>3, NoneIsNobody DEF IInv, EgressInv, Listed, Unrecorded
    <3> QED
      BY <1>2, <2>1, <2>2, <2>3, <3>1, SessionMoves DEF Mine
  <2>4. ASSUME NEW e \in Egresses, Listed = {e}, egress[e].of = Mine(s),
               session' = [session EXCEPT ![s] = Seen(e)]
        PROVE  IInv'
    <3>1. egress[e].status = "active" \/ egress[e].status \in Ended
      BY <2>4 DEF IInv, TypeOK, Egress, Listed
    <3> QED
      BY <1>3, <2>1, <2>2, <2>4, <3>1, SessionMoves DEF Mine
  <2> QED
    BY <1>4, <1>5, <2>1, <2>3, <2>4 DEF ListRecordings, Moves, Moved, Seen
<1>6. CASE CreateRoom(s)
  <2>1. At(s, "creating") /\ UNCHANGED <<granted, row, egress>>
    BY <1>6 DEF CreateRoom
  <2>2. Mine(s) \in Recordings /\ Holds(s) /\ row[Mine(s)].leased /\ Unrecorded(Mine(s))
    BY <2>1 DEF IInv, SessionInv, HeldInv, At
  <2>3. PICK where \in {"starting", "roomFailed"} :
          session' = [session EXCEPT ![s] = Moved(where)]
    BY <1>6 DEF CreateRoom, Moves, Moved
  <2> QED
    BY <1>2, <2>1, <2>2, <2>3, SessionMoves DEF Mine
<1>7. CASE Authorize(s)
  <2>1. At(s, "authorizing") /\ UNCHANGED <<granted, row, egress>>
    BY <1>7 DEF Authorize
  <2>2. Mine(s) \in Recordings
    BY <2>1 DEF IInv, SessionInv, At
  <2>3. ASSUME session' = [session EXCEPT ![s] = Moved("joined")] PROVE IInv'
    BY <1>2, <2>1, <2>2, <2>3, SessionMoves DEF Mine
  <2> QED
    BY <1>4, <1>7, <2>1, <2>3 DEF Authorize, Moves, Moved
<1>8. CASE SessionStops(s)
  BY <1>4, <1>8 DEF SessionStops
<1> QED
  BY <1>5, <1>6, <1>7, <1>8

-----------------------------------------------------------------------------
(* Steps that write a row.                                                  *)

\* What a row may become while LiveKit's egresses stay what they are.
Sound(r, c) ==
    /\ c.status # "none"
    /\ c.status = "pending" /\ c.marker = "none" => c.egress = None
    /\ c.marker # "none" \/ c.status \in {"recording", "completed"} \/ c.cause = "provider" =>
        c.egress # None
    /\ c.cause # "none" <=> c.status = "failed"
    /\ c.cause \in {"room", "start"} => c.egress = None
    /\ c.egress # None => egress[c.egress].of = r
    /\ c.marker # "none" => egress[c.egress].status = c.marker
    /\ c.status = "completed" => egress[c.egress].status = "completed"
    /\ c.cause = "provider" => egress[c.egress].status = "failed"
    /\ \A e \in Egresses : egress[e].of = r =>
        c.egress = e \/ (c.egress = None /\ c.status = "pending")

LEMMA RowChanges ==
    ASSUME IInv, NEW r \in Recordings, NEW c \in Row, row' = [row EXCEPT ![r] = c],
           egress' = egress, Sound(r, c)
    PROVE  (RowInv /\ EgressInv /\ OneEgressPerRecording /\ RecordsAreTrue
                /\ NoEgressIsForgotten)'
<1> USE DEF IInv
<1>1. row'[r] = c /\ \A q \in Recordings \ {r} : row'[q] = row[q]
  BY DEF TypeOK
<1>2. RowInv'
  BY <1>1 DEF RowInv, Sound, Unrecorded
<1>3. (EgressInv /\ OneEgressPerRecording)'
  BY DEF EgressInv, OneEgressPerRecording
<1>4. RecordsAreTrue'
  BY <1>1 DEF RecordsAreTrue, Sound
<1>5. NoEgressIsForgotten'
  <2> SUFFICES ASSUME NEW e \in Egresses, egress[e].of # None
               PROVE  row'[egress[e].of].egress = e
                      \/ (row'[egress[e].of].egress = None /\ row'[egress[e].of].status = "pending")
    BY DEF NoEgressIsForgotten
  <2> egress[e].of \in Recordings
    BY DEF TypeOK, Egress
  <2> QED
    BY <1>1 DEF NoEgressIsForgotten, Sound
<1> QED
  BY <1>2, <1>3, <1>4, <1>5

\* A reservation.
LEMMA ReserveStep ==
    ASSUME IInv, NEW s \in Sessions, NEW r \in Recordings, Reserve(s, r)
    PROVE  IInv'
<1> DEFINE c == [row[r] EXCEPT !.status = "pending", !.claim = s, !.leased = TRUE]
           w(where) == [at |-> where, recording |-> r, egress |-> None]
<1>1. row[r] \in Row
  BY DEF IInv, TypeOK
<1>2. /\ c \in Row /\ c.status = "pending" /\ c.claim = s /\ c.leased /\ c.egress = row[r].egress
      /\ c.marker = row[r].marker /\ c.cause = row[r].cause
  BY <1>1 DEF Row, Open
<1>3. \A where \in {"creating", "listing", "authorizing"} :
        /\ w(where) \in Session /\ w(where).at = where /\ w(where).recording = r
  BY DEF Session
<1>4. At(s, "idle") /\ UNCHANGED <<granted, egress>>
  BY DEF Reserve
<1> HIDE DEF c, w
<1>5. CASE row' = row /\ session' = [session EXCEPT ![s] = w("authorizing")]
  BY <1>3, <1>4, <1>5, SessionMoves
<1>6. ASSUME NEW where \in {"creating", "listing"}, session' = [session EXCEPT ![s] = w(where)],
             row' = [row EXCEPT ![r] = c], row[r].marker = "none",
             \/ row[r].status = "none" /\ where = "creating"
             \/ row[r].status = "pending" /\ ~row[r].leased /\ where = "listing"
      PROVE  IInv'
  <2> USE DEF IInv
  <2>1. session'[s] = w(where) /\ \A t \in Sessions \ {s} : session'[t] = session[t]
    BY <1>6 DEF TypeOK
  <2>2. row'[r] = c /\ \A q \in Recordings \ {r} : row'[q] = row[q]
    BY <1>6 DEF TypeOK
  <2>3. TypeOK'
    BY <1>2, <1>3, <1>4, <1>6 DEF TypeOK
  <2>4. SessionInv'
    BY <1>3, <1>4, <2>1 DEF SessionInv, Mine
  <2>5. row[r].egress = None /\ row[r].cause = "none"
    BY <1>6 DEF RowInv, NoRow
  <2>6. \A e \in Egresses : egress[e].of = r => row[r].status = "pending"
    BY <1>6, NoneIsNobody DEF NoEgressIsForgotten, RowInv, Unrecorded
  <2>7. Sound(r, c)
    BY <1>2, <1>6, <2>5, <2>6 DEF Sound
  <2>8. HeldInv'
    <3>1. ASSUME NEW t \in Sessions \ {s}, Holds(t)', session[t].at # "idle"
          PROVE  Holds(t)
      BY <1>2, <2>1, <2>2, <3>1 DEF Holds, Mine, SessionInv
    <3>2. ASSUME NEW t \in Sessions \ {s},
                 session[t].at \in {"listing", "creating", "starting"}
          PROVE  (Holds(t) /\ row[Mine(t)].leased)'
      BY <1>6, <2>1, <2>2, <3>2 DEF HeldInv, Holds, Mine, SessionInv
    <3>3. Holds(s)' /\ row[Mine(s)]'.leased
      BY <1>2, <1>3, <1>6, <2>1, <2>2 DEF Holds, Mine
    <3>4. where = "creating" => Unrecorded(Mine(s))'
      BY <1>3, <1>4, <1>6, <2>1 DEF RowInv, Unrecorded, Mine
    <3> QED
      BY <1>3, <1>4, <2>1, <3>1, <3>2, <3>3, <3>4 DEF HeldInv, Unrecorded, Mine
  <2> QED
    BY <1>2, <1>4, <1>6, <2>3, <2>4, <2>7, <2>8, RowChanges
<1>7. row[r].status = "none" => row[r].marker = "none"
  BY DEF IInv, RowInv, NoRow
<1> QED
  BY <1>5, <1>6, <1>7 DEF Reserve, Claimed, Goes, c, w

\* The one egress of a recording is started.
LEMMA StartRecordingStep ==
    ASSUME IInv, NEW s \in Sessions, StartRecording(s)
    PROVE  IInv'
<1> USE DEF IInv
<1> DEFINE r == Mine(s)
<1>1. /\ session[s].at = "starting" /\ UNCHANGED <<granted, row>> /\ r \in Recordings
      /\ Holds(s) /\ row[r].leased /\ Unrecorded(r)
  BY DEF StartRecording, At, SessionInv, HeldInv
<1>2. CASE Moves(s, "startFailed") /\ UNCHANGED egress
  <2> DEFINE w == [session[s] EXCEPT !.at = "startFailed"]
  <2>1. w \in Session /\ w.at = "startFailed" /\ w.recording = r
    BY DEF TypeOK, Session, Mine
  <2>2. session' = [session EXCEPT ![s] = w]
    BY <1>2 DEF Moves
  <2> HIDE DEF w
  <2> QED
    BY <1>1, <1>2, <2>1, <2>2, SessionMoves
<1>3. ASSUME NEW e \in Egresses, egress[e].status = "none",
             egress' = [egress EXCEPT ![e] = [of |-> r, status |-> "active"]],
             session' = [session EXCEPT ![s] = [@ EXCEPT !.at = "started", !.egress = e]]
      PROVE  IInv'
  <2> DEFINE w == [session[s] EXCEPT !.at = "started", !.egress = e]
             n == [of |-> r, status |-> "active"]
  <2>1. w \in Session /\ w.at = "started" /\ w.recording = r /\ w.egress = e
    BY DEF TypeOK, Session, Mine
  <2>2. n \in Egress /\ n.of = r /\ n.status = "active"
    BY <1>1 DEF Egress
  <2> HIDE DEF w, n
  <2>3. session'[s] = w /\ \A t \in Sessions \ {s} : session'[t] = session[t]
    BY <1>3 DEF TypeOK, w
  <2>4. egress'[e] = n /\ \A f \in Egresses \ {e} : egress'[f] = egress[f]
    BY <1>3 DEF TypeOK, n
  <2>5. egress[e].of = None
    BY <1>3 DEF EgressInv
  <2>6. TypeOK'
    BY <1>1, <1>3, <2>1, <2>2 DEF TypeOK, w, n
  <2>7. SessionInv'
    BY <1>1, <2>1, <2>2, <2>3, <2>4, <2>5, NoneIsNobody DEF SessionInv, Mine
  <2> HIDE DEF r
  <2>8. HeldInv'
    <3>1. ASSUME NEW t \in Sessions \ {s}, session[t].at # "idle"
          PROVE  /\ Holds(t)' <=> Holds(t)
                 /\ Mine(t)' = Mine(t)
                 /\ Holds(t) /\ Unrecorded(Mine(t)) => Unrecorded(Mine(t))'
      BY <1>1, <2>2, <2>3, <2>4, <3>1, NoneIsNobody DEF Holds, Mine, Unrecorded, SessionInv, r
    <3> QED
      BY <1>1, <2>1, <2>3, <3>1 DEF HeldInv
  <2>9. RowInv'
    BY <1>1, <2>2, <2>4 DEF RowInv, Unrecorded, Holds, r
  <2>10. EgressInv'
    BY <1>1, <2>2, <2>4, NoneIsNobody DEF EgressInv
  <2>11. OneEgressPerRecording'
    BY <1>1, <2>2, <2>4 DEF OneEgressPerRecording, Unrecorded
  <2>12. RecordsAreTrue'
    <3>1. ASSUME NEW q \in Recordings, row[q].egress # None
          PROVE  egress'[row[q].egress] = egress[row[q].egress]
      BY <2>4, <2>5, <3>1, NoneIsNobody DEF RecordsAreTrue, TypeOK, Row
    <3> QED
      BY <1>1, <3>1 DEF RecordsAreTrue, RowInv
  <2>13. NoEgressIsForgotten'
    BY <1>1, <2>2, <2>4 DEF NoEgressIsForgotten, RowInv, Holds, r
  <2> QED
    BY <2>6, <2>7, <2>8, <2>9, <2>10, <2>11, <2>12, <2>13
<1> QED
  BY <1>2, <1>3 DEF StartRecording

\* The holder of a claim writes its row and goes on without asking LiveKit anything.
LEMMA HolderWrites ==
    ASSUME IInv, NEW s \in Sessions, NEW c \in Row, NEW w \in Session,
           Mine(s) \in Recordings, row[Mine(s)].claim = s, c.claim \in {s, None},
           Sound(Mine(s), c), row' = [row EXCEPT ![Mine(s)] = c],
           session' = [session EXCEPT ![s] = w], UNCHANGED <<granted, egress>>,
           w.at \in {"idle", "authorizing"}, w.at # "idle" => w.recording \in Recordings
    PROVE  IInv'
<1> DEFINE r == Mine(s)
<1> HIDE DEF r
<1>1. /\ session'[s] = w /\ (\A t \in Sessions \ {s} : session'[t] = session[t])
      /\ row'[r] = c /\ (\A q \in Recordings \ {r} : row'[q] = row[q])
  BY DEF IInv, TypeOK, r
<1>2. TypeOK'
  BY DEF IInv, TypeOK
<1>3. SessionInv'
  BY <1>1 DEF IInv, SessionInv, Mine
<1>4. ASSUME NEW t \in Sessions \ {s}, session[t].at # "idle"
      PROVE  /\ Mine(t)' = Mine(t)
             /\ Holds(t)' => Holds(t)
             /\ Holds(t) => Holds(t)' /\ row'[Mine(t)] = row[Mine(t)]
  BY <1>1, <1>4, NoneIsNobody DEF IInv, SessionInv, Holds, Mine, r
<1>5. HeldInv'
  BY <1>1, <1>4 DEF IInv, HeldInv, Unrecorded
<1> QED
  BY <1>2, <1>3, <1>5, RowChanges DEF IInv

\* The start of the recording is booked, with its egress.
LEMMA CompleteStartStep ==
    ASSUME IInv, NEW s \in Sessions, CompleteStart(s)
    PROVE  IInv'
<1> DEFINE r == Mine(s)
           e == session[s].egress
           c == [Released(s, r) EXCEPT !.status = "recording", !.egress = e]
           w == [session[s] EXCEPT !.at = "authorizing"]
<1>1. /\ session[s].at = "started" /\ r \in Recordings /\ e \in Egresses /\ egress[e].of = r
      /\ UNCHANGED <<granted, egress>> /\ row[r] \in Row /\ session[s] \in Session
  BY DEF CompleteStart, At, IInv, TypeOK, SessionInv
<1>2. Idle \in Session /\ Idle.at = "idle"
  BY DEF Idle, Session
<1>3. w \in Session /\ w.at = "authorizing" /\ w.recording = r
  BY <1>1 DEF Session, Mine
<1>4. /\ c \in Row /\ c.claim = None /\ c.status = "recording" /\ c.egress = e
      /\ c.marker = row[r].marker /\ c.cause = row[r].cause
  BY <1>1 DEF Released, Row, Open
<1> HIDE DEF c, w
<1>5. CASE Stops(s) /\ row' = row
  BY <1>1, <1>2, <1>5, SessionMoves DEF Stops
<1>6. CASE Holds(s) /\ row' = [row EXCEPT ![r] = c] /\ session' = [session EXCEPT ![s] = w]
  <2>1. \A f \in Egresses : egress[f].of = r => f = e
    BY <1>1, NoneIsNobody DEF IInv, OneEgressPerRecording
  <2>2. row[r].marker = "none" /\ row[r].cause = "none" /\ row[r].claim = s
    BY <1>1, <1>6 DEF Holds, IInv, RowInv
  <2>3. Sound(r, c)
    BY <1>1, <1>4, <2>1, <2>2, NoneIsNobody DEF Sound
  <2> HIDE DEF e
  <2> QED
    BY <1>1, <1>3, <1>4, <1>6, <2>2, <2>3, HolderWrites
<1> QED
  BY <1>5, <1>6 DEF CompleteStart, Moves, c, w

\* A start that failed for good is booked: it has left no egress.
LEMMA FailStartStep ==
    ASSUME IInv, NEW s \in Sessions, FailStart(s)
    PROVE  IInv'
<1> DEFINE r == Mine(s)
           c(cause) == [Released(s, r) EXCEPT !.status = "failed", !.cause = cause]
           w == [session[s] EXCEPT !.at = "authorizing"]
<1>1. /\ session[s].at \in {"roomFailed", "startFailed"} /\ r \in Recordings
      /\ UNCHANGED <<granted, egress>> /\ row[r] \in Row /\ session[s] \in Session
  BY DEF FailStart, At, IInv, TypeOK, SessionInv
<1>2. Idle \in Session /\ Idle.at = "idle"
  BY DEF Idle, Session
<1>3. w \in Session /\ w.at = "authorizing" /\ w.recording = r
  BY <1>1 DEF Session, Mine
<1>4. ASSUME NEW cause \in {"room", "start"}
      PROVE  /\ c(cause) \in Row /\ c(cause).claim = None /\ c(cause).status = "failed"
             /\ c(cause).egress = row[r].egress /\ c(cause).marker = row[r].marker
             /\ c(cause).cause = cause
  <2> DEFINE free == Released(s, r)
  <2>1. /\ free \in Row /\ free.claim = None /\ free.egress = row[r].egress
        /\ free.marker = row[r].marker
    BY <1>1 DEF Released, Row
  <2> HIDE DEF free
  <2>2. [free EXCEPT !.status = "failed", !.cause = cause] \in Row
    BY <2>1 DEF Row, Ended
  <2> QED
    BY <2>1, <2>2 DEF Row, free, c
<1> HIDE DEF c, w
<1>5. CASE Stops(s) /\ row' = row
  BY <1>1, <1>2, <1>5, SessionMoves DEF Stops
<1>6. ASSUME Holds(s), NEW cause \in {"room", "start"}, row' = [row EXCEPT ![r] = c(cause)],
             session' = [session EXCEPT ![s] = w] \/ session' = [session EXCEPT ![s] = Idle]
      PROVE  IInv'
  <2>1. Unrecorded(r) /\ row[r].claim = s /\ row[r].egress = None /\ row[r].marker = "none"
    BY <1>1, <1>6 DEF IInv, HeldInv, Holds, RowInv
  <2>2. Sound(r, c(cause))
    BY <1>4, <2>1 DEF Sound, Unrecorded
  <2> QED
    BY <1>1, <1>2, <1>3, <1>4, <1>6, <2>1, <2>2, HolderWrites
<1> QED
  BY <1>5, <1>6 DEF FailStart, Fails, Moves, Stops, c, w

\* What became of the egress is marked.
LEMMA ReportEndedStep ==
    ASSUME IInv, NEW s \in Sessions, ReportEnded(s)
    PROVE  IInv'
<1> DEFINE r == Mine(s)
           e == session[s].egress
           c == [row[r] EXCEPT !.egress = e, !.marker = egress[e].status]
<1>1. /\ session[s].at = "ended" /\ r \in Recordings /\ e \in Egresses /\ egress[e].of = r
      /\ egress[e].status \in Ended /\ UNCHANGED <<granted, egress>> /\ row[r] \in Row
      /\ session' = [session EXCEPT ![s] = Idle]
  BY DEF ReportEnded, At, Stops, IInv, TypeOK, SessionInv
<1>2. Idle \in Session /\ Idle.at = "idle"
  BY DEF Idle, Session
<1>3. /\ c \in Row /\ c.claim = row[r].claim /\ c.status = row[r].status /\ c.egress = e
      /\ c.marker = egress[e].status /\ c.cause = row[r].cause
  BY <1>1 DEF Row, Ended
<1> HIDE DEF c
<1>4. CASE row' = row
  BY <1>1, <1>2, <1>4, SessionMoves
<1>5. CASE row' = [row EXCEPT ![r] = c] /\ row[r].status = "pending" /\ row[r].claim = s
  <2>1. \A f \in Egresses : egress[f].of = r => f = e
    BY <1>1, NoneIsNobody DEF IInv, OneEgressPerRecording
  <2>2. row[r].cause = "none"
    BY <1>1, <1>5 DEF IInv, RowInv
  <2>3. Sound(r, c)
    BY <1>1, <1>3, <1>5, <2>1, <2>2, NoneIsNobody DEF Sound, Ended
  <2> HIDE DEF e
  <2> QED
    BY <1>1, <1>2, <1>3, <1>5, <2>3, HolderWrites
<1> QED
  BY <1>1, <1>4, <1>5 DEF ReportEnded, c

-----------------------------------------------------------------------------
(* LiveKit, its webhooks, time.                                             *)

\* What a webhook writes: its egress runs or ended, and the claim is over.
LEMMA WebhookWrites ==
    ASSUME IInv, NEW e \in Egresses, NEW kind \in {"started", "ended"}, ProcessWebhook(e, kind)
    PROVE  /\ UNCHANGED <<granted, egress, session>>
           /\ \/ row' = row
              \/ \E r \in Recordings, c \in Row :
                    /\ row' = [row EXCEPT ![r] = c] /\ row[r].egress = e
                    /\ egress[e].of = r /\ row[r].status \in {"pending", "recording"}
                    /\ c.claim = None /\ c.egress = e /\ c.marker = row[r].marker
                    /\ \/ c.status = "recording" /\ c.cause = row[r].cause
                          /\ row[r].marker = "none" /\ row[r].status = "recording"
                       \/ c.status \in Ended /\ c.status = egress[e].status
                          /\ c.cause = IF c.status = "failed" THEN "provider" ELSE "none"
<1>1. UNCHANGED <<granted, egress, session>>
  BY ZenonT(40) DEF ProcessWebhook
<1> DEFINE Running(r) == [row[r] EXCEPT !.status = "recording", !.claim = None, !.leased = FALSE]
           Ending(r) == [row[r] EXCEPT !.status = egress[e].status, !.claim = None,
                         !.leased = FALSE,
                         !.cause = IF egress[e].status = "failed" THEN "provider" ELSE "none"]
<1>2. PICK r \in Recordings :
        /\ row[r].egress = e
        /\ \/ row' = row
           \/ ~Stale(r, kind) /\ kind = "started" /\ row' = [row EXCEPT ![r] = Running(r)]
           \/ ~Stale(r, kind) /\ kind = "ended" /\ egress[e].status \in Ended
              /\ row' = [row EXCEPT ![r] = Ending(r)]
  <2>1. CASE kind = "started"
    BY <2>1, ZenonT(40) DEF ProcessWebhook
  <2>2. CASE kind = "ended"
    BY <2>2, ZenonT(40) DEF ProcessWebhook
  <2> QED
    BY <2>1, <2>2, ZenonT(40)
<1>3. row[r] \in Row /\ egress[e].of = r /\ e # None /\ egress[e].status \in {"none", "active"} \cup Ended
  BY <1>2, NoneIsNobody DEF IInv, TypeOK, RecordsAreTrue, Egress
<1>4. ASSUME ~Stale(r, kind)
      PROVE  /\ row[r].status \in {"pending", "recording"}
             /\ kind = "started" => row[r].marker = "none" /\ row[r].status = "recording"
  <2>1. row[r].status # "none"
    BY <1>2, <1>3 DEF IInv, RowInv, NoRow
  <2> QED
    BY <1>2, <1>3, <1>4, <2>1 DEF Stale, Settled, IInv, RowInv, Row, Open
<1>5. /\ Running(r) \in Row /\ Running(r).claim = None /\ Running(r).egress = row[r].egress
      /\ Running(r).marker = row[r].marker /\ Running(r).status = "recording"
      /\ Running(r).cause = row[r].cause
  BY <1>3 DEF Row, Open
<1>6. egress[e].status \in Ended =>
        /\ Ending(r) \in Row /\ Ending(r).claim = None /\ Ending(r).egress = row[r].egress
        /\ Ending(r).marker = row[r].marker /\ Ending(r).status = egress[e].status
        /\ Ending(r).cause = IF egress[e].status = "failed" THEN "provider" ELSE "none"
  <2> DEFINE End(how, why) ==
               [row[r] EXCEPT !.status = how, !.claim = None, !.leased = FALSE, !.cause = why]
  <2>1. ASSUME NEW how \in Ended, NEW why \in {"none", "provider"}
        PROVE  /\ End(how, why) \in Row /\ End(how, why).claim = None
               /\ End(how, why).egress = row[r].egress
               /\ End(how, why).marker = row[r].marker
               /\ End(how, why).status = how /\ End(how, why).cause = why
    BY <1>3 DEF Row
  <2>2. Ending(r) = End(egress[e].status, IF egress[e].status = "failed" THEN "provider" ELSE "none")
    OBVIOUS
  <2> HIDE DEF End, Ending
  <2> QED
    BY <2>1, <2>2
<1> HIDE DEF Running, Ending
<1> QED
  BY <1>1, <1>2, <1>3, <1>4, <1>5, <1>6

LEMMA WebhookStep ==
    ASSUME IInv, NEW e \in Egresses, NEW kind \in {"started", "ended"}, ProcessWebhook(e, kind)
    PROVE  IInv'
<1>1. UNCHANGED <<granted, egress, session>>
  BY WebhookWrites
<1>2. CASE row' = row
  BY <1>1, <1>2 DEF IInv, TypeOK, SessionInv, HeldInv, RowInv, EgressInv, OneEgressPerRecording,
                    RecordsAreTrue, NoEgressIsForgotten, Holds, Mine, Unrecorded
<1>3. ASSUME NEW r \in Recordings, NEW c \in Row,
             row' = [row EXCEPT ![r] = c], row[r].egress = e, egress[e].of = r,
             row[r].status \in {"pending", "recording"},
             c.claim = None, c.egress = e, c.marker = row[r].marker,
             \/ c.status = "recording" /\ c.cause = row[r].cause /\ row[r].marker = "none"
                /\ row[r].status = "recording"
             \/ c.status \in Ended /\ c.status = egress[e].status
                /\ c.cause = IF c.status = "failed" THEN "provider" ELSE "none"
      PROVE  IInv'
  <2>1. row'[r] = c /\ \A q \in Recordings \ {r} : row'[q] = row[q]
    BY <1>3 DEF IInv, TypeOK
  <2>2. TypeOK' /\ SessionInv'
    BY <1>1, <1>3 DEF IInv, TypeOK, SessionInv, Mine
  <2>3. \A f \in Egresses : egress[f].of = r => f = e
    BY <1>3, NoneIsNobody DEF IInv, OneEgressPerRecording
  <2>4. row[r].cause = "none"
    BY <1>3 DEF IInv, RowInv
  <2>5. Sound(r, c)
    BY <1>3, <2>3, <2>4, NoneIsNobody DEF Sound, Ended, IInv, RecordsAreTrue
  <2>6. HeldInv'
    <3>1. ASSUME NEW t \in Sessions, Holds(t), session[t].at # "idle"
          PROVE  Mine(t) # r
      BY <1>3, <3>1, NoneIsNobody DEF Holds, IInv, RowInv
    <3>2. ASSUME NEW t \in Sessions, session[t].at # "idle"
          PROVE  /\ Mine(t)' = Mine(t)
                 /\ Holds(t)' => Holds(t)
                 /\ Holds(t) => Holds(t)' /\ row'[Mine(t)] = row[Mine(t)]
      BY <1>1, <1>3, <2>1, <3>1, <3>2, NoneIsNobody DEF IInv, SessionInv, Holds, Mine
    <3> QED
      BY <1>1, <3>2 DEF IInv, HeldInv, Unrecorded
  <2> QED
    BY <1>1, <1>3, <2>2, <2>5, <2>6, RowChanges DEF IInv
<1> QED
  BY <1>2, <1>3, WebhookWrites

LEMMA EgressEndsStep ==
    ASSUME IInv, NEW e \in Egresses, EgressEnds(e)
    PROVE  IInv'
<1>1. PICK how \in Ended : egress' = [egress EXCEPT ![e] = [egress[e] EXCEPT !.status = how]]
  BY DEF EgressEnds
<1>2. egress[e].status = "active" /\ UNCHANGED <<granted, row, session>>
  BY DEF EgressEnds
<1> DEFINE n == [egress[e] EXCEPT !.status = how]
<1>3. n \in Egress /\ n.of = egress[e].of /\ n.status = how
  BY DEF IInv, TypeOK, Egress
<1> HIDE DEF n
<1>4. egress'[e] = n /\ \A f \in Egresses \ {e} : egress'[f] = egress[f]
  BY <1>1 DEF IInv, TypeOK, n
<1>5. \A f \in Egresses : egress'[f].of = egress[f].of
  BY <1>3, <1>4
<1>6. TypeOK'
  BY <1>1, <1>2, <1>3 DEF IInv, TypeOK, n
<1>7. (HeldInv /\ RowInv /\ OneEgressPerRecording /\ NoEgressIsForgotten)'
  BY <1>2, <1>5 DEF IInv, HeldInv, RowInv, OneEgressPerRecording, NoEgressIsForgotten,
                    Holds, Mine, Unrecorded
<1>8. (SessionInv /\ EgressInv)'
  BY <1>2, <1>3, <1>4, <1>5 DEF IInv, SessionInv, EgressInv, Mine, Ended
<1>9. RecordsAreTrue'
  <2> SUFFICES ASSUME NEW r \in Recordings, row[r].egress # None
               PROVE  /\ egress'[row[r].egress].of = r
                      /\ row[r].marker # "none" => egress'[row[r].egress].status = row[r].marker
                      /\ row[r].status = "completed" =>
                            egress'[row[r].egress].status = "completed"
                      /\ row[r].cause = "provider" => egress'[row[r].egress].status = "failed"
    BY <1>2 DEF IInv, RecordsAreTrue, RowInv
  <2>1. row[r].egress \in Egresses /\ row[r].marker \in Ended \cup {"none"}
    BY DEF IInv, TypeOK, Row
  <2> QED
    BY <1>2, <1>4, <1>5, <2>1 DEF IInv, RecordsAreTrue, Ended
<1> QED
  BY <1>6, <1>7, <1>8, <1>9 DEF IInv

LEMMA LeaseLapsesStep ==
    ASSUME IInv, NEW r \in Recordings, LeaseLapses(r)
    PROVE  IInv'
<1> DEFINE c == [row[r] EXCEPT !.leased = FALSE]
<1>1. row[r] \in Row
  BY DEF IInv, TypeOK
<1>2. /\ c \in Row /\ c.claim = row[r].claim /\ c.status = row[r].status
      /\ c.egress = row[r].egress /\ c.marker = row[r].marker /\ c.cause = row[r].cause
  BY <1>1 DEF Row
<1>3. /\ row' = [row EXCEPT ![r] = c] /\ UNCHANGED <<granted, egress, session>> /\ row[r].leased
      /\ session[row[r].claim].at \notin {"listing", "creating", "starting"}
  BY DEF LeaseLapses
<1> HIDE DEF c
<1>4. row'[r] = c /\ \A q \in Recordings \ {r} : row'[q] = row[q]
  BY <1>3 DEF IInv, TypeOK
<1>5. TypeOK' /\ SessionInv'
  BY <1>2, <1>3 DEF IInv, TypeOK, SessionInv, Mine
<1>6. row[r].status # "none"
  BY <1>3 DEF IInv, RowInv, NoRow
<1>7. \A e \in Egresses : egress[e].of = r =>
        row[r].egress = e \/ (row[r].egress = None /\ row[r].status = "pending")
  BY NoneIsNobody DEF IInv, NoEgressIsForgotten
<1>8. Sound(r, c)
  BY <1>2, <1>6, <1>7 DEF Sound, IInv, RowInv, RecordsAreTrue
<1>9. HeldInv'
  BY <1>2, <1>3, <1>4 DEF IInv, HeldInv, Holds, Mine, Unrecorded
<1> QED
  BY <1>2, <1>3, <1>5, <1>8, <1>9, RowChanges DEF IInv

LEMMA Step == IInv /\ [Next]_vars => IInv'
<1> SUFFICES ASSUME IInv, [Next]_vars PROVE IInv'
  OBVIOUS
<1>1. ASSUME NEW s \in Sessions, SessionStep(s) PROVE IInv'
  BY <1>1, ReserveStep, QuietSteps, StartRecordingStep, CompleteStartStep, FailStartStep,
     ReportEndedStep DEF SessionStep
<1>2. ASSUME NEW e \in Egresses, EgressEnds(e) \/ \E kind \in {"started", "ended"} : ProcessWebhook(e, kind)
      PROVE  IInv'
  BY <1>2, EgressEndsStep, WebhookStep
<1>3. ASSUME NEW r \in Recordings, LeaseLapses(r) PROVE IInv'
  BY <1>3, LeaseLapsesStep
<1>4. CASE Revoke \/ UNCHANGED vars
  <2>1. /\ row' = row /\ egress' = egress /\ session' = session
        /\ granted' \in BOOLEAN
    BY <1>4 DEF Revoke, vars, IInv, TypeOK
  <2>2. (TypeOK /\ SessionInv /\ HeldInv)'
    BY <2>1 DEF IInv, TypeOK, SessionInv, HeldInv, Holds, Mine, Unrecorded
  <2>3. (RowInv /\ EgressInv /\ OneEgressPerRecording)'
    BY <2>1 DEF IInv, RowInv, EgressInv, OneEgressPerRecording, Unrecorded
  <2>4. (RecordsAreTrue /\ NoEgressIsForgotten)'
    BY <2>1 DEF IInv, RecordsAreTrue, NoEgressIsForgotten
  <2> QED
    BY <2>2, <2>3, <2>4 DEF IInv
<1> QED
  BY <1>1, <1>2, <1>3, <1>4 DEF Next

-----------------------------------------------------------------------------
(* The rows keep RecordingOutcome's promise.                                *)

\* What RecordingOutcome sees.
Statuses == [r \in Recordings |-> row[r].status]
Wholes   == {r \in Recordings : \E e \in Egresses :
                egress[e].of = r /\ egress[e].status = "completed"}

PromiseVars == <<Statuses, Wholes>>

\* A recording's only egress is the one that is its own.
LEMMA WholesAre ==
    OneEgressPerRecording =>
        {r \in Recordings : \E e \in Egresses :
            EgressesOf(r) = {e} /\ egress[e].status = "completed"} = Wholes
<1> HAVE OneEgressPerRecording
<1>1. ASSUME NEW r \in Recordings, NEW e \in Egresses, egress[e].status = "completed"
      PROVE  EgressesOf(r) = {e} <=> egress[e].of = r
  <2>1. r # None
    BY NoneIsNobody
  <2> QED
    BY <2>1 DEF EgressesOf, OneEgressPerRecording
<1> QED
  BY <1>1 DEF Wholes

\* What becomes of RecordingOutcome's variables when one row is written.
LEMMA RowWritten ==
    ASSUME IInv, NEW r \in Recordings, NEW c \in Row, row' = [row EXCEPT ![r] = c],
           egress' = egress
    PROVE  Statuses' = [Statuses EXCEPT ![r] = c.status] /\ Wholes' = Wholes
<1>1. row'[r] = c /\ \A q \in Recordings \ {r} : row'[q] = row[q]
  BY DEF IInv, TypeOK
<1>2. \A q \in Recordings :
        row'[q].status = IF q = r THEN c.status ELSE row[q].status
  BY <1>1
<1>3. Statuses' = [Statuses EXCEPT ![r] = c.status]
  BY <1>2 DEF Statuses
<1> QED
  BY <1>3 DEF Wholes

\* A step of LiveSession is a step of RecordingOutcome or none.
Promised(r) ==
    \/ UNCHANGED PromiseVars
    \/ /\ Statuses[r] = "none" /\ \A q \in Recordings : Statuses[q] \notin {"pending", "recording"}
       /\ Statuses' = [Statuses EXCEPT ![r] = "pending"] /\ Wholes' = Wholes
    \/ /\ Statuses[r] = "pending"
       /\ Statuses' = [Statuses EXCEPT ![r] = "recording"] /\ Wholes' = Wholes
    \/ /\ Statuses[r] \in {"pending", "recording"} /\ r \notin Wholes
       /\ Statuses' = Statuses /\ Wholes' = Wholes \cup {r}
    \/ /\ Statuses[r] \in {"pending", "recording"} /\ Wholes' = Wholes
       /\ Statuses' =
            [Statuses EXCEPT ![r] = IF r \in Wholes THEN "completed" ELSE "failed"]

LEMMA PromisedStart ==
    ASSUME IInv, NEW s \in Sessions, StartRecording(s)
    PROVE  UNCHANGED PromiseVars
<1>1. row' = row /\ (Unrecorded(Mine(s)))
  BY DEF StartRecording, IInv, HeldInv, At
<1>2. Statuses' = Statuses
  BY <1>1 DEF Statuses
<1>3. CASE egress' = egress
  BY <1>2, <1>3 DEF Wholes, PromiseVars
<1>4. ASSUME NEW e \in Egresses, egress[e].status = "none",
             egress' = [egress EXCEPT ![e] = [of |-> Mine(s), status |-> "active"]]
      PROVE  Wholes' = Wholes
  <2>1. egress'[e].status = "active" /\ \A f \in Egresses \ {e} : egress'[f] = egress[f]
    BY <1>4 DEF IInv, TypeOK
  <2> QED
    BY <1>4, <2>1 DEF Wholes
<1> QED
  BY <1>2, <1>3, <1>4 DEF StartRecording, PromiseVars

LEMMA PromisedEnd ==
    ASSUME IInv, NEW e \in Egresses, EgressEnds(e)
    PROVE  \E r \in Recordings : Promised(r)
<1> DEFINE r == egress[e].of
<1>1. egress[e].status = "active" /\ row' = row
  BY DEF EgressEnds
<1>2. r \in Recordings /\ r # None
  BY <1>1, NoneIsNobody DEF IInv, TypeOK, Egress, EgressInv
<1>3. PICK how \in Ended : egress' = [egress EXCEPT ![e] = [egress[e] EXCEPT !.status = how]]
  BY DEF EgressEnds
<1>4. /\ egress'[e].of = r /\ egress'[e].status = how
      /\ \A f \in Egresses \ {e} : egress'[f] = egress[f]
  BY <1>3 DEF IInv, TypeOK, Egress
<1>5. \A f \in Egresses : egress[f].of = r => f = e
  BY <1>2 DEF IInv, OneEgressPerRecording
<1>6. r \notin Wholes
  BY <1>1, <1>5 DEF Wholes
<1>7. Wholes' = IF how = "completed" THEN Wholes \cup {r} ELSE Wholes
  BY <1>1, <1>2, <1>4, <1>5 DEF Wholes, Ended
<1>8. row[r].status \in {"pending", "recording"}
  <2>1. row[r].egress = e \/ (row[r].egress = None /\ row[r].status = "pending")
    BY <1>2 DEF IInv, NoEgressIsForgotten
  <2>2. row[r].status # "none"
    BY <1>2 DEF IInv, RowInv, Unrecorded
  <2>3. row[r].status # "completed" /\ row[r].status # "failed"
    BY <1>1, <1>2, <2>1, NoneIsNobody DEF IInv, RowInv, RecordsAreTrue, TypeOK, Row
  <2> QED
    BY <1>2, <2>2, <2>3 DEF IInv, TypeOK, Row, Open, Ended
<1>9. Statuses' = Statuses /\ Statuses[r] = row[r].status
  BY <1>1, <1>2 DEF Statuses
<1> HIDE DEF r
<1> QED
  BY <1>2, <1>6, <1>7, <1>8, <1>9 DEF Promised, PromiseVars

LEMMA PromisedRows ==
    ASSUME IInv, NEW r \in Recordings, NEW c \in Row, row' = [row EXCEPT ![r] = c],
           egress' = egress,
           \/ c.status = row[r].status
           \/ row[r].status = "none" /\ c.status = "pending"
              /\ \A q \in Recordings : ~IsOpen(q)
           \/ row[r].status = "pending" /\ c.status = "recording"
           \/ /\ row[r].status \in {"pending", "recording"} /\ c.status \in Ended
              /\ c.status = "completed" <=> r \in Wholes
    PROVE  Promised(r)
<1>1. Statuses' = [Statuses EXCEPT ![r] = c.status] /\ Wholes' = Wholes
  BY RowWritten
<1>2. \A q \in Recordings : Statuses[q] = row[q].status
  BY DEF Statuses
<1>3. CASE c.status = row[r].status
  <2>1. Statuses' = Statuses
    BY <1>1, <1>2, <1>3 DEF Statuses
  <2> QED
    BY <1>1, <2>1 DEF Promised, PromiseVars
<1>4. CASE row[r].status = "none" /\ c.status = "pending" /\ \A q \in Recordings : ~IsOpen(q)
  BY <1>1, <1>2, <1>4 DEF Promised, IsOpen, Open
<1>5. CASE row[r].status = "pending" /\ c.status = "recording"
  BY <1>1, <1>2, <1>5 DEF Promised
<1>6. CASE /\ row[r].status \in {"pending", "recording"} /\ c.status \in Ended
           /\ c.status = "completed" <=> r \in Wholes
  <2>1. c.status = IF r \in Wholes THEN "completed" ELSE "failed"
    BY <1>6 DEF Ended
  <2> QED
    BY <1>1, <1>2, <1>6, <2>1 DEF Promised
<1> QED
  BY <1>3, <1>4, <1>5, <1>6

LEMMA PromisedSessionStep ==
    ASSUME IInv, NEW s \in Sessions, SessionStep(s)
    PROVE  UNCHANGED PromiseVars \/ \E r \in Recordings : Promised(r)
<1>1. CASE UNCHANGED <<row, egress>>
  BY <1>1 DEF PromiseVars, Statuses, Wholes
<1>2. ASSUME NEW r \in Recordings, Reserve(s, r)
      PROVE  UNCHANGED <<row, egress>> \/ Promised(r)
  <2> DEFINE c == [row[r] EXCEPT !.status = "pending", !.claim = s, !.leased = TRUE]
  <2>1. c \in Row /\ c.status = "pending"
    BY DEF IInv, TypeOK, Row, Open
  <2> HIDE DEF c
  <2>2. /\ egress' = egress
        /\ \/ row' = row
           \/ /\ row' = [row EXCEPT ![r] = c]
              /\ \/ row[r].status = "none" /\ \A q \in Recordings : ~IsOpen(q)
                 \/ row[r].status = "pending"
    BY <1>2 DEF Reserve, Claimed, c
  <2> QED
    BY <2>1, <2>2, PromisedRows
<1>3. CASE StartRecording(s)
  BY <1>3, PromisedStart
<1>4. CASE CompleteStart(s)
  <2> DEFINE r == Mine(s)
             c == [Released(s, r) EXCEPT !.status = "recording", !.egress = session[s].egress]
  <2>1. r \in Recordings /\ session[s].egress \in Egresses
    BY <1>4 DEF CompleteStart, At, IInv, SessionInv
  <2>2. c \in Row /\ c.status = "recording"
    BY <2>1 DEF Released, IInv, TypeOK, Row, Open
  <2> HIDE DEF c
  <2>3. /\ egress' = egress
        /\ row' = row \/ (row' = [row EXCEPT ![r] = c] /\ row[r].status = "pending")
    BY <1>4 DEF CompleteStart, Holds, c
  <2> HIDE DEF r
  <2> QED
    BY <1>1, <2>1, <2>2, <2>3, PromisedRows
<1>5. CASE FailStart(s)
  <2> DEFINE r == Mine(s)
             c(cause) == [Released(s, r) EXCEPT !.status = "failed", !.cause = cause]
  <2>1. r \in Recordings /\ session[s].at \in {"roomFailed", "startFailed"}
    BY <1>5 DEF FailStart, At, IInv, SessionInv
  <2>2. ASSUME NEW cause \in {"room", "start"}
        PROVE  c(cause) \in Row /\ c(cause).status = "failed"
    <3> DEFINE free == Released(s, r)
    <3>1. free \in Row
      BY <2>1 DEF Released, IInv, TypeOK, Row
    <3> HIDE DEF free
    <3>2. [free EXCEPT !.status = "failed", !.cause = cause] \in Row
      BY <3>1 DEF Row, Ended
    <3> QED
      BY <3>1, <3>2 DEF Row, free, c
  <2> HIDE DEF c
  <2>3. /\ egress' = egress
        /\ \/ row' = row
           \/ Holds(s) /\ \E cause \in {"room", "start"} : row' = [row EXCEPT ![r] = c(cause)]
    BY <1>5 DEF FailStart, Fails, c
  <2>4. Holds(s) => row[r].status = "pending" /\ r \notin Wholes
    BY <2>1 DEF IInv, HeldInv, Holds, Unrecorded, Wholes
  <2> HIDE DEF r
  <2> QED
    BY <1>1, <2>1, <2>2, <2>3, <2>4, PromisedRows DEF Ended
<1>6. CASE ReportEnded(s)
  <2> DEFINE r == Mine(s)
             e == session[s].egress
             c == [row[r] EXCEPT !.egress = e, !.marker = egress[e].status]
  <2>1. r \in Recordings /\ e \in Egresses /\ egress[e].status \in Ended
    BY <1>6 DEF ReportEnded, At, IInv, SessionInv
  <2>2. c \in Row /\ c.status = row[r].status
    BY <2>1 DEF IInv, TypeOK, Row, Ended
  <2> HIDE DEF c
  <2>3. egress' = egress /\ (row' = row \/ row' = [row EXCEPT ![r] = c])
    BY <1>6 DEF ReportEnded, c
  <2> HIDE DEF r, e
  <2> QED
    BY <1>1, <2>1, <2>2, <2>3, PromisedRows
<1>7. CASE ListRecordings(s) \/ CreateRoom(s) \/ Authorize(s) \/ SessionStops(s)
  <2>1. UNCHANGED <<row, egress>>
    BY <1>7 DEF ListRecordings, CreateRoom, Authorize, SessionStops
  <2> QED
    BY <1>1, <2>1
<1> QED
  BY <1>1, <1>2, <1>3, <1>4, <1>5, <1>6, <1>7 DEF SessionStep

LEMMA PromisedStep ==
    ASSUME IInv, [Next]_vars
    PROVE  UNCHANGED PromiseVars \/ \E r \in Recordings : Promised(r)
<1>1. ASSUME NEW e \in Egresses, NEW kind \in {"started", "ended"}, ProcessWebhook(e, kind)
      PROVE  UNCHANGED PromiseVars \/ \E r \in Recordings : Promised(r)
  <2>1. egress' = egress
    BY <1>1, WebhookWrites
  <2>2. CASE row' = row
    BY <2>1, <2>2 DEF PromiseVars, Statuses, Wholes
  <2>3. ASSUME NEW r \in Recordings, NEW c \in Row, row' = [row EXCEPT ![r] = c],
               egress[e].of = r, row[r].status \in {"pending", "recording"},
               \/ c.status = row[r].status
               \/ c.status \in Ended /\ c.status = egress[e].status
        PROVE  Promised(r)
    <3>1. r \in Wholes <=> egress[e].status = "completed"
      BY <2>3, NoneIsNobody DEF Wholes, IInv, OneEgressPerRecording
    <3> QED
      BY <2>1, <2>3, <3>1, PromisedRows
  <2> QED
    BY <1>1, <2>2, <2>3, WebhookWrites
<1>2. ASSUME NEW r \in Recordings, LeaseLapses(r)
      PROVE  Promised(r)
  <2> DEFINE c == [row[r] EXCEPT !.leased = FALSE]
  <2>1. c \in Row /\ c.status = row[r].status
    BY DEF IInv, TypeOK, Row
  <2>2. row' = [row EXCEPT ![r] = c] /\ egress' = egress
    BY <1>2 DEF LeaseLapses
  <2> HIDE DEF c
  <2> QED
    BY <2>1, <2>2, PromisedRows
<1>3. CASE Revoke \/ UNCHANGED vars
  BY <1>3 DEF Revoke, vars, PromiseVars, Statuses, Wholes
<1> QED
  BY <1>1, <1>2, <1>3, PromisedSessionStep, PromisedEnd DEF Next

LEMMA PromisedAction ==
    ASSUME IInv, IInv', [Next]_vars
    PROVE  [Promise!OutcomeNext]_(Promise!outcomeVars)
<1> DEFINE wholes == {r \in Recordings : \E e \in Egresses :
                        EgressesOf(r) = {e} /\ egress[e].status = "completed"}
<1>1. wholes = Wholes /\ wholes' = Wholes'
  <2>1. OneEgressPerRecording => wholes = Wholes
    BY WholesAre
  <2>2. (OneEgressPerRecording => wholes = Wholes)'
    BY WholesAre, PTL
  <2> QED
    BY <2>1, <2>2 DEF IInv
<1> HIDE DEF wholes
<1>2. CASE UNCHANGED PromiseVars
  <2>1. Promise!outcomeVars' = Promise!outcomeVars
    BY <1>1, <1>2 DEF Promise!outcomeVars, PromiseVars, Statuses, wholes
  <2> QED
    BY <2>1
<1>3. ASSUME NEW r \in Recordings, Promised(r)
      PROVE  [Promise!OutcomeNext]_(Promise!outcomeVars)
  <2>1. \/ UNCHANGED PromiseVars
        \/ Promise!Opens(r) \/ Promise!Starts(r) \/ Promise!IsStored(r) \/ Promise!Ends(r)
    BY <1>1, <1>3 DEF Promised, Statuses, Promise!Opens, Promise!Starts, Promise!IsStored,
                      Promise!Ends, Promise!Becomes, Promise!Open, wholes
  <2> QED
    BY <1>2, <2>1 DEF Promise!OutcomeNext
<1> QED
  BY <1>2, <1>3, PromisedStep

-----------------------------------------------------------------------------
(* The theorems about the sessions.                                         *)

\* The rows, LiveKit's egresses and the sessions keep their types.
THEOREM TypeCorrect == Spec => []TypeOK
<1>1. Init => IInv
  BY Initially
<1>2. IInv /\ [Next]_vars => IInv'
  BY Step
<1> QED
  BY <1>1, <1>2, PTL DEF Spec, IInv

\* LiveKit records a broadcast once, however many sessions start, stop and take over its
\* reservation (listRoomRecordings, startRecording).
THEOREM RecordsOnce == Spec => []OneEgressPerRecording
<1>1. Init => IInv
  BY Initially
<1>2. IInv /\ [Next]_vars => IInv'
  BY Step
<1> QED
  BY <1>1, <1>2, PTL DEF Spec, IInv

\* A row says of an egress what LiveKit knows of it, whatever the order of the webhooks
\* (complete_livekit_webhook_event).
THEOREM RowsAreTrue == Spec => []RecordsAreTrue
<1>1. Init => IInv
  BY Initially
<1>2. IInv /\ [Next]_vars => IInv'
  BY Step
<1> QED
  BY <1>1, <1>2, PTL DEF Spec, IInv

\* No egress is given up: it is bound to its row, or the next session finds it
\* (fail_reporter_live_recording_start, isDefinitiveStartFailure).
THEOREM NothingIsForgotten == Spec => []NoEgressIsForgotten
<1>1. Init => IInv
  BY Initially
<1>2. IInv /\ [Next]_vars => IInv'
  BY Step
<1> QED
  BY <1>1, <1>2, PTL DEF Spec, IInv

\* The rows keep the promise RecordingRetention builds upon: what has ended is final, and a
\* recording is completed if and only if its one egress was (live_recordings).
THEOREM PromiseIsKept == Spec => KeepsThePromise
<1>1. Init => IInv
  BY Initially
<1>2. IInv /\ [Next]_vars => IInv'
  BY Step
<1>3. Init => Promise!OutcomeInit
  BY NoneIsNobody DEF Init, Promise!OutcomeInit, NoRow, EgressesOf
<1>4. IInv /\ IInv' /\ [Next]_vars => [Promise!OutcomeNext]_(Promise!outcomeVars)
  BY PromisedAction
<1> QED
  BY <1>1, <1>2, <1>3, <1>4, PTL DEF Spec, KeepsThePromise, Promise!OutcomeSpec


-----------------------------------------------------------------------------
(* Review and retention: the inductive invariant.                           *)

\* A run that is not idle works on a recording; an object is gone before that is booked.
RunsInv ==
    /\ \A u \in Runs : run[u].at # "idle" => run[u].recording \in Recordings
    /\ \A u \in Runs : run[u].at = "deleted" => run[u].recording \in gone
    /\ \A r \in Recordings : kept[r].deleted => r \in gone

\* What is completed is whole; only what has ended is reviewed.
ReviewInv ==
    \A r \in Recordings :
        /\ status[r] = "completed" => r \in whole
        /\ kept[r].replay = "published" => status[r] = "completed"

\* The store has been asked for the recording, or may be any moment.
Touched(r) ==
    \/ r \in gone
    \/ \E u \in Runs : run[u].at \in {"claimed", "deleted", "failed"} /\ run[u].recording = r

\* The claim on a touched recording bars every review, and no run can say otherwise.
Barred(r) ==
    /\ kept[r].lease \in Runs
    /\ kept[r].due
    /\ kept[r].failure # "unconfigured"
    /\ ~(run[kept[r].lease].at = "unconfigured" /\ run[kept[r].lease].recording = r)

TouchedInv ==
    \A r \in Recordings : Touched(r) =>
        /\ configured
        /\ status[r] = "completed" /\ kept[r].replay # "published" /\ ~kept[r].hold
        /\ kept[r].deleted \/ Barred(r)

RecordingInv == RecordingTypeOK /\ RunsInv /\ ReviewInv /\ TouchedInv

-----------------------------------------------------------------------------
(* It holds initially.                                                      *)

LEMMA RecordingInitially == RecordingInit => RecordingInv
<1> SUFFICES ASSUME RecordingInit PROVE RecordingInv
  OBVIOUS
<1> USE DEF RecordingInit, OutcomeInit, RetentionInit, Waits
<1>1. RecordingTypeOK
  BY DEF RecordingTypeOK, Kept, Run
<1>2. RunsInv /\ ReviewInv
  BY DEF RunsInv, ReviewInv
<1>3. TouchedInv
  BY DEF TouchedInv, Touched
<1> QED
  BY <1>1, <1>2, <1>3 DEF RecordingInv

-----------------------------------------------------------------------------
(* The rows the actions write.                                              *)

\* A claim and a deletion start from the row without its former claim.
LEMMA Rows ==
    ASSUME NEW k \in Kept, NEW u \in Runs
    PROVE  LET free    == Unleased(k)
               claimed == [free EXCEPT !.lease = u, !.leased = TRUE]
               deleted == [free EXCEPT !.deleted = TRUE]
           IN
           /\ free \in Kept /\ claimed \in Kept /\ deleted \in Kept
           /\ free.replay = k.replay /\ free.deleted = k.deleted /\ free.failure = "none"
           /\ claimed.replay = k.replay /\ claimed.hold = k.hold /\ claimed.due = k.due
           /\ claimed.deleted = k.deleted /\ claimed.lease = u /\ claimed.failure = "none"
           /\ deleted.replay = k.replay /\ deleted.hold = k.hold /\ deleted.deleted
<1> DEFINE free == Unleased(k)
<1>1. /\ free \in Kept /\ free.replay = k.replay /\ free.hold = k.hold /\ free.due = k.due
      /\ free.deleted = k.deleted /\ free.failure = "none"
  BY DEF Unleased, Kept
<1> HIDE DEF free
<1> DEFINE claimed == [free EXCEPT !.lease = u, !.leased = TRUE]
           deleted == [free EXCEPT !.deleted = TRUE]
<1>2. /\ claimed \in Kept /\ claimed.replay = k.replay /\ claimed.hold = k.hold
      /\ claimed.due = k.due /\ claimed.deleted = k.deleted /\ claimed.lease = u
      /\ claimed.failure = "none"
  BY <1>1 DEF Kept
<1>3. deleted \in Kept /\ deleted.replay = k.replay /\ deleted.hold = k.hold /\ deleted.deleted
  BY <1>1 DEF Kept
<1> QED
  BY <1>1, <1>2, <1>3 DEF free

\* A review changes a row that is open to it, and no other.
LEMMA Reviews ==
    ASSUME RecordingTypeOK, NEW r \in Recordings, Publish(r) \/ Reject(r) \/ SetLegalHold(r)
    PROVE  /\ OpenToReview(r) /\ UNCHANGED <<gone, run, configured>>
           /\ kept' \in [Recordings -> Kept]
           /\ \A q \in Recordings \ {r} : kept'[q] = kept[q]
           /\ kept'[r].deleted = kept[r].deleted
           /\ kept'[r].replay = "published" =>
                kept[r].replay = "published" \/ status[r] = "completed"
<1> DEFINE After(k) == [kept EXCEPT ![r] = IF kept[r].lease = None THEN k ELSE Unleased(k)]
<1>1. kept[r] \in Kept
  BY DEF RecordingTypeOK
<1>2. ASSUME NEW k \in Kept, kept' = After(k)
      PROVE  /\ kept' \in [Recordings -> Kept]
             /\ \A q \in Recordings \ {r} : kept'[q] = kept[q]
             /\ kept'[r].deleted = k.deleted /\ kept'[r].replay = k.replay
  <2>1. Unleased(k) \in Kept /\ Unleased(k).deleted = k.deleted /\ Unleased(k).replay = k.replay
    BY DEF Unleased, Kept
  <2> QED
    BY <1>2, <2>1 DEF RecordingTypeOK
<1>3. CASE Publish(r)
  <2> DEFINE k == [kept[r] EXCEPT !.replay = "published", !.due = FALSE]
  <2>1. k \in Kept /\ k.deleted = kept[r].deleted
    BY <1>1 DEF Kept
  <2>2. kept' = After(k) /\ status[r] = "completed" /\ OpenToReview(r)
        /\ UNCHANGED <<gone, run, configured>>
    BY <1>3 DEF Publish, Reviewed
  <2> HIDE DEF k, After
  <2> QED
    BY <1>2, <2>1, <2>2
<1>4. CASE Reject(r)
  <2> DEFINE k == [kept[r] EXCEPT !.replay = "rejected", !.due = FALSE]
  <2>1. k \in Kept /\ k.deleted = kept[r].deleted /\ k.replay # "published"
    BY <1>1 DEF Kept
  <2>2. kept' = After(k) /\ OpenToReview(r) /\ UNCHANGED <<gone, run, configured>>
    BY <1>4 DEF Reject, Reviewed
  <2> HIDE DEF k, After
  <2> QED
    BY <1>2, <2>1, <2>2
<1>5. CASE SetLegalHold(r)
  <2> DEFINE k == [kept[r] EXCEPT !.hold = ~@]
  <2>1. k \in Kept /\ k.deleted = kept[r].deleted /\ k.replay = kept[r].replay
    BY <1>1 DEF Kept
  <2>2. kept' = After(k) /\ OpenToReview(r) /\ UNCHANGED <<gone, run, configured>>
    BY <1>5 DEF SetLegalHold, Reviewed
  <2> HIDE DEF k, After
  <2> QED
    BY <1>2, <2>1, <2>2
<1> QED
  BY <1>3, <1>4, <1>5

\* Time changes a row's clocks and nothing a review or a claim decides.
LEMMA Clocks ==
    ASSUME RecordingTypeOK, NEW r \in Recordings,
           RetentionEnds(r) \/ RetryFallsDue(r) \/ DeletionLeaseLapses(r)
    PROVE  /\ UNCHANGED <<gone, run, configured>>
           /\ kept' \in [Recordings -> Kept]
           /\ \A q \in Recordings :
                /\ kept'[q].replay = kept[q].replay /\ kept'[q].hold = kept[q].hold
                /\ kept'[q].deleted = kept[q].deleted /\ kept'[q].lease = kept[q].lease
                /\ kept'[q].failure = kept[q].failure
                /\ kept[q].due => kept'[q].due
<1>1. kept[r] \in Kept
  BY DEF RecordingTypeOK
<1>2. ASSUME NEW k \in Kept, kept' = [kept EXCEPT ![r] = k],
             k.replay = kept[r].replay, k.hold = kept[r].hold, k.deleted = kept[r].deleted,
             k.lease = kept[r].lease, k.failure = kept[r].failure, kept[r].due => k.due
      PROVE  /\ kept' \in [Recordings -> Kept]
             /\ \A q \in Recordings :
                  /\ kept'[q].replay = kept[q].replay /\ kept'[q].hold = kept[q].hold
                  /\ kept'[q].deleted = kept[q].deleted /\ kept'[q].lease = kept[q].lease
                  /\ kept'[q].failure = kept[q].failure
                  /\ kept[q].due => kept'[q].due
  BY <1>2 DEF RecordingTypeOK
<1>3. CASE RetentionEnds(r)
  <2> DEFINE k == [kept[r] EXCEPT !.due = TRUE]
  <2>1. /\ k \in Kept /\ k.replay = kept[r].replay /\ k.hold = kept[r].hold
        /\ k.deleted = kept[r].deleted /\ k.lease = kept[r].lease
        /\ k.failure = kept[r].failure /\ (kept[r].due => k.due)
    BY <1>1 DEF Kept
  <2>2. kept' = [kept EXCEPT ![r] = k] /\ UNCHANGED <<gone, run, configured>>
    BY <1>3 DEF RetentionEnds
  <2> HIDE DEF k
  <2> QED
    BY <1>2, <2>1, <2>2
<1>4. CASE RetryFallsDue(r)
  <2> DEFINE k == [kept[r] EXCEPT !.ready = TRUE]
  <2>1. /\ k \in Kept /\ k.replay = kept[r].replay /\ k.hold = kept[r].hold
        /\ k.deleted = kept[r].deleted /\ k.lease = kept[r].lease
        /\ k.failure = kept[r].failure /\ (kept[r].due => k.due)
    BY <1>1 DEF Kept
  <2>2. kept' = [kept EXCEPT ![r] = k] /\ UNCHANGED <<gone, run, configured>>
    BY <1>4 DEF RetryFallsDue
  <2> HIDE DEF k
  <2> QED
    BY <1>2, <2>1, <2>2
<1>5. CASE DeletionLeaseLapses(r)
  <2> DEFINE k == [kept[r] EXCEPT !.leased = FALSE]
  <2>1. /\ k \in Kept /\ k.replay = kept[r].replay /\ k.hold = kept[r].hold
        /\ k.deleted = kept[r].deleted /\ k.lease = kept[r].lease
        /\ k.failure = kept[r].failure /\ (kept[r].due => k.due)
    BY <1>1 DEF Kept
  <2>2. kept' = [kept EXCEPT ![r] = k] /\ UNCHANGED <<gone, run, configured>>
    BY <1>5 DEF DeletionLeaseLapses
  <2> HIDE DEF k
  <2> QED
    BY <1>2, <2>1, <2>2
<1> QED
  BY <1>3, <1>4, <1>5

\* A step of RecordingOutcome ends an open recording truly and leaves what has ended.
LEMMA Outcomes ==
    ASSUME RecordingTypeOK, OutcomeNext
    PROVE  /\ status' \in [Recordings -> {"none"} \cup Open \cup Ended]
           /\ whole \subseteq whole' /\ whole' \subseteq Recordings
           /\ \A q \in Recordings :
                /\ status[q] = "completed" => status'[q] = "completed"
                /\ status'[q] = "completed" => status[q] = "completed" \/ q \in whole
<1>1. PICK r \in Recordings : Opens(r) \/ Starts(r) \/ IsStored(r) \/ Ends(r)
  BY DEF OutcomeNext
<1> QED
  BY <1>1 DEF RecordingTypeOK, Opens, Starts, IsStored, Ends, Becomes, Open, Ended

-----------------------------------------------------------------------------
(* The types are kept.                                                      *)

LEMMA TypeStep ==
    ASSUME RecordingTypeOK, RunsInv, RecordingNext
    PROVE  RecordingTypeOK'
<1> USE DEF RecordingTypeOK
<1>1. CASE OutcomeNext /\ UNCHANGED retentionVars
  BY <1>1, Outcomes DEF retentionVars
<1>2. CASE RetentionNext /\ UNCHANGED outcomeVars
  <2> USE <1>2 DEF outcomeVars
  <2>1. ASSUME NEW u \in Runs, RunStep(u)
        PROVE  RecordingTypeOK'
    <3> run[u].at # "idle" => Work(u) \in Recordings
      BY DEF RunsInv, Work
    <3>1. ASSUME NEW r \in Recordings, ClaimDeletion(u, r)
          PROVE  RecordingTypeOK'
      <4>1. [Unleased(kept[r]) EXCEPT !.lease = u, !.leased = TRUE] \in Kept
        BY Rows
      <4>2. [at |-> IF configured THEN "claimed" ELSE "unconfigured", recording |-> r] \in Run
        BY DEF Run
      <4> QED
        BY <3>1, <4>1, <4>2 DEF ClaimDeletion
    <3>2. CASE DeleteObject(u)
      <4>1. \A where \in {"deleted", "failed"} : [run[u] EXCEPT !.at = where] \in Run
        BY DEF Run
      <4>2. run' \in [Runs -> Run]
        BY <3>2, <4>1 DEF DeleteObject, Turns
      <4> QED
        BY <3>2, <4>2 DEF DeleteObject, RunAt
    <3>3. CASE CompleteDeletion(u)
      <4>1. \A r \in Recordings : [Unleased(kept[r]) EXCEPT !.deleted = TRUE] \in Kept
        BY Rows
      <4>2. Waits \in Run
        BY DEF Waits, Run
      <4> QED
        BY <3>3, <4>1, <4>2 DEF CompleteDeletion, Rests, RunAt
    <3>4. CASE FailDeletion(u)
      <4>1. Work(u) \in Recordings /\ run[u].at \in {"failed", "unconfigured"}
        BY <3>4 DEF FailDeletion
      <4>2. [kept[Work(u)] EXCEPT !.failure = run[u].at, !.ready = FALSE] \in Kept
        BY <4>1 DEF Kept
      <4>3. Waits \in Run
        BY DEF Waits, Run
      <4> QED
        BY <3>4, <4>1, <4>2, <4>3 DEF FailDeletion, Rests
    <3>5. CASE RunStops(u)
      BY <3>5 DEF RunStops, Rests, Waits, Run
    <3> QED
      BY <2>1, <3>1, <3>2, <3>3, <3>4, <3>5 DEF RunStep
  <2>2. ASSUME NEW r \in Recordings, Publish(r) \/ Reject(r) \/ SetLegalHold(r)
        PROVE  RecordingTypeOK'
    BY <2>2, Reviews
  <2>3. ASSUME NEW r \in Recordings,
               RetentionEnds(r) \/ RetryFallsDue(r) \/ DeletionLeaseLapses(r)
        PROVE  RecordingTypeOK'
    BY <2>3, Clocks
  <2>4. CASE CredentialsChange
    BY <2>4 DEF CredentialsChange
  <2> QED
    BY <2>1, <2>2, <2>3, <2>4 DEF RetentionNext
<1> QED
  BY <1>1, <1>2 DEF RecordingNext

-----------------------------------------------------------------------------
(* A touched recording stays barred.                                        *)

\* What the review reads of a row is written by the review alone.
LEMMA StepOfARun ==
    ASSUME RecordingTypeOK, RunsInv, ReviewInv, TouchedInv, NEW u \in Runs, RunStep(u),
           UNCHANGED outcomeVars
    PROVE  (RunsInv /\ ReviewInv /\ TouchedInv)'
<1> USE DEF outcomeVars
<1> run[u] \in Run /\ kept \in [Recordings -> Kept]
  BY DEF RecordingTypeOK
<1>1. ASSUME NEW r \in Recordings, ClaimDeletion(u, r)
      PROVE  (RunsInv /\ ReviewInv /\ TouchedInv)'
  <2> DEFINE c == [Unleased(kept[r]) EXCEPT !.lease = u, !.leased = TRUE]
             w == [at |-> IF configured THEN "claimed" ELSE "unconfigured", recording |-> r]
  <2>1. /\ c.replay = kept[r].replay /\ c.hold = kept[r].hold /\ c.due = kept[r].due
        /\ c.deleted = kept[r].deleted /\ c.lease = u /\ c.failure = "none"
    BY Rows
  <2>2. /\ kept' = [kept EXCEPT ![r] = c] /\ run' = [run EXCEPT ![u] = w]
        /\ UNCHANGED <<gone, configured, status, whole>>
        /\ run[u].at = "idle" /\ Deletable(r) /\ ~kept[r].deleted
    BY <1>1 DEF ClaimDeletion, RunAt
  <2>3. /\ w.recording = r /\ w.at = IF configured THEN "claimed" ELSE "unconfigured"
    OBVIOUS
  <2> HIDE DEF c, w
  <2>4. /\ kept'[r] = c /\ (\A q \in Recordings \ {r} : kept'[q] = kept[q])
        /\ run'[u] = w /\ (\A v \in Runs \ {u} : run'[v] = run[v])
    BY <2>2 DEF RecordingTypeOK
  <2>5. (RunsInv /\ ReviewInv)'
    BY <2>1, <2>2, <2>3, <2>4 DEF RunsInv, ReviewInv
  <2>6. ASSUME NEW q \in Recordings, Touched(q)'
        PROVE  /\ configured'
               /\ (status[q] = "completed" /\ kept[q].replay # "published" /\ ~kept[q].hold)'
               /\ (kept[q].deleted \/ Barred(q))'
    <3>1. CASE q = r
      <4>1. configured
        BY <2>2, <2>3, <2>4, <2>6, <3>1 DEF Touched, TouchedInv
      <4> QED
        BY <2>1, <2>2, <2>3, <2>4, <3>1, <4>1 DEF Deletable, Barred
    <3>2. CASE q # r
      <4>1. Touched(q)
        BY <2>2, <2>3, <2>4, <2>6, <3>2 DEF Touched
      <4> QED
        BY <2>2, <2>3, <2>4, <3>2, <4>1 DEF TouchedInv, Barred
    <3> QED
      BY <3>1, <3>2
  <2> QED
    BY <2>5, <2>6 DEF TouchedInv
<1>2. CASE DeleteObject(u)
  <2>1. PICK where \in {"deleted", "failed"} :
          /\ run' = [run EXCEPT ![u] = [run[u] EXCEPT !.at = where]]
          /\ where = "deleted" => gone' = gone \cup {Work(u)}
    BY <1>2 DEF DeleteObject, Turns
  <2>2. /\ run[u].at = "claimed" /\ UNCHANGED <<kept, configured, status, whole>>
        /\ gone \subseteq gone' /\ gone' \subseteq gone \cup {Work(u)}
    BY <1>2 DEF DeleteObject, RunAt
  <2>3. /\ run'[u].at = where /\ run'[u].recording = run[u].recording
        /\ \A v \in Runs \ {u} : run'[v] = run[v]
    BY <2>1 DEF RecordingTypeOK, Run
  <2>4. (RunsInv /\ ReviewInv)'
    BY <2>1, <2>2, <2>3 DEF RunsInv, ReviewInv, Work
  <2>5. ASSUME NEW q \in Recordings, Touched(q)'
        PROVE  Touched(q)
    BY <2>2, <2>3, <2>5 DEF Touched, Work
  <2>6. ASSUME NEW q \in Recordings, Barred(q)
        PROVE  Barred(q)'
    BY <2>2, <2>3, <2>6 DEF Barred
  <2> QED
    BY <2>2, <2>4, <2>5, <2>6 DEF TouchedInv
<1>3. ASSUME run' = [run EXCEPT ![u] = Waits], UNCHANGED <<gone, configured, status, whole>>
      PROVE  /\ run'[u].at = "idle" /\ \A v \in Runs \ {u} : run'[v] = run[v]
             /\ \A q \in Recordings : Touched(q)' => Touched(q)
  BY <1>3 DEF RecordingTypeOK, Waits, Touched
<1>4. CASE CompleteDeletion(u)
  <2> DEFINE r == Work(u)
             d == [Unleased(kept[r]) EXCEPT !.deleted = TRUE]
  <2>1. /\ run[u].at = "deleted" /\ r \in Recordings /\ r \in gone
        /\ run' = [run EXCEPT ![u] = Waits] /\ UNCHANGED <<gone, configured, status, whole>>
        /\ kept' = [kept EXCEPT ![r] = d] \/ kept' = kept
    BY <1>4 DEF CompleteDeletion, RunAt, Rests, RunsInv, Work
  <2>2. d.replay = kept[r].replay /\ d.hold = kept[r].hold /\ d.deleted
    BY <2>1, Rows
  <2> HIDE DEF d
  <2>3. \A q \in Recordings :
          \/ kept'[q] = kept[q]
          \/ q = r /\ kept'[q].replay = kept[q].replay /\ kept'[q].hold = kept[q].hold
             /\ kept'[q].deleted
    BY <2>1, <2>2
  <2> HIDE DEF r
  <2>4. (RunsInv /\ ReviewInv)'
    BY <1>3, <2>1, <2>3 DEF RunsInv, ReviewInv
  <2>5. TouchedInv'
    BY <1>3, <2>1, <2>3 DEF TouchedInv, Barred
  <2> QED
    BY <2>4, <2>5
<1>5. CASE FailDeletion(u)
  <2> DEFINE r == Work(u)
             f == [kept[r] EXCEPT !.failure = run[u].at, !.ready = FALSE]
  <2>1. /\ run[u].at \in {"failed", "unconfigured"} /\ r = run[u].recording
        /\ r \in Recordings
        /\ run' = [run EXCEPT ![u] = Waits] /\ UNCHANGED <<gone, configured, status, whole>>
        /\ kept' = kept \/ (kept' = [kept EXCEPT ![r] = f] /\ kept[r].lease = u)
    BY <1>5 DEF FailDeletion, Rests, RunsInv, Work, Fenced
  <2>2. /\ f.replay = kept[r].replay /\ f.hold = kept[r].hold /\ f.deleted = kept[r].deleted
        /\ f.due = kept[r].due /\ f.lease = kept[r].lease /\ f.failure = run[u].at
    BY <2>1 DEF Kept
  <2> HIDE DEF f
  <2>3. \A q \in Recordings :
          \/ kept'[q] = kept[q]
          \/ /\ q = r /\ kept'[q].replay = kept[q].replay /\ kept'[q].hold = kept[q].hold
             /\ kept'[q].deleted = kept[q].deleted /\ kept'[q].due = kept[q].due
             /\ kept'[q].lease = u /\ kept[q].lease = u /\ kept'[q].failure = run[u].at
    BY <2>1, <2>2
  <2> HIDE DEF r
  <2>4. (RunsInv /\ ReviewInv)'
    BY <1>3, <2>1, <2>3 DEF RunsInv, ReviewInv
  <2>5. ASSUME NEW q \in Recordings, Barred(q)
        PROVE  Barred(q)'
    BY <1>3, <2>1, <2>3, <2>5 DEF Barred
  <2> QED
    BY <1>3, <2>1, <2>3, <2>4, <2>5 DEF TouchedInv
<1>6. CASE RunStops(u)
  <2>1. run' = [run EXCEPT ![u] = Waits] /\ UNCHANGED <<kept, gone, configured, status, whole>>
    BY <1>6 DEF RunStops, Rests
  <2>2. (RunsInv /\ ReviewInv)'
    BY <1>3, <2>1 DEF RunsInv, ReviewInv
  <2>3. TouchedInv'
    BY <1>3, <2>1 DEF TouchedInv, Barred
  <2> QED
    BY <2>2, <2>3
<1> QED
  BY <1>1, <1>2, <1>4, <1>5, <1>6 DEF RunStep

LEMMA RecordingStep ==
    ASSUME MayLoseCredentials = FALSE, RecordingInv, [RecordingNext]_recordingVars
    PROVE  RecordingInv'
<1> USE DEF RecordingInv
<1>1. CASE RecordingNext
  <2>1. RecordingTypeOK'
    BY <1>1, TypeStep
  <2>2. CASE OutcomeNext /\ UNCHANGED retentionVars
    BY <2>1, <2>2, Outcomes
       DEF retentionVars, RunsInv, ReviewInv, TouchedInv, Touched, Barred
  <2>3. CASE RetentionNext /\ UNCHANGED outcomeVars
    <3>1. ASSUME NEW u \in Runs, RunStep(u)
          PROVE  (RunsInv /\ ReviewInv /\ TouchedInv)'
      BY <2>3, <3>1, StepOfARun
    <3>2. ASSUME NEW r \in Recordings, Publish(r) \/ Reject(r) \/ SetLegalHold(r)
          PROVE  (RunsInv /\ ReviewInv /\ TouchedInv)'
      <4>1. ~Touched(r)
        BY <3>2, Reviews, NoneIsNoRun DEF OpenToReview, TouchedInv, Barred
      <4> QED
        BY <2>3, <3>2, <4>1, Reviews
           DEF outcomeVars, RunsInv, ReviewInv, TouchedInv, Touched, Barred
    <3>3. ASSUME NEW r \in Recordings,
                 RetentionEnds(r) \/ RetryFallsDue(r) \/ DeletionLeaseLapses(r)
          PROVE  (RunsInv /\ ReviewInv /\ TouchedInv)'
      BY <2>3, <3>3, Clocks
         DEF outcomeVars, RunsInv, ReviewInv, TouchedInv, Touched, Barred
    <3>4. CASE CredentialsChange
      <4>1. /\ ~configured
            /\ kept' = kept /\ gone' = gone /\ run' = run
            /\ status' = status /\ whole' = whole
        BY <2>3, <3>4 DEF CredentialsChange, outcomeVars
      <4>2. \A q \in Recordings : ~Touched(q)
        BY <4>1 DEF TouchedInv
      <4>3. TouchedInv'
        BY <4>1, <4>2 DEF TouchedInv, Touched
      <4> QED
        BY <2>1, <4>1, <4>3 DEF RunsInv, ReviewInv
    <3> QED
      BY <2>1, <2>3, <3>1, <3>2, <3>3, <3>4 DEF RetentionNext
  <2> QED
    BY <1>1, <2>2, <2>3, <2>1 DEF RecordingNext
<1>2. CASE UNCHANGED recordingVars
  BY <1>2 DEF recordingVars, outcomeVars, retentionVars, RecordingTypeOK, RunsInv, ReviewInv, TouchedInv,
              Touched, Barred
<1> QED
  BY <1>1, <1>2

-----------------------------------------------------------------------------
(* The theorems about review and retention.                                 *)

\* The columns of live_recordings, the store and the job's runs keep their types.
THEOREM RecordingTypeCorrect == ASSUME MayLoseCredentials = FALSE PROVE RecordingSpec => []RecordingTypeOK
<1>1. RecordingInit => RecordingInv
  BY RecordingInitially
<1>2. RecordingInv /\ [RecordingNext]_recordingVars => RecordingInv'
  BY RecordingStep
<1> QED
  BY <1>1, <1>2, PTL DEF RecordingSpec, RecordingInv

\* A published or held recording keeps its object, whatever runs claimed it before and
\* whatever they heard of the store, as long as the deployment keeps the store's credentials
\* (prevent_live_recording_deletion_race, publish_live_recording).
THEOREM PublishedKeepsItsObject ==
    ASSUME MayLoseCredentials = FALSE PROVE RecordingSpec => []PublishedIsKept
<1>1. RecordingInit => RecordingInv
  BY RecordingInitially
<1>2. RecordingInv /\ [RecordingNext]_recordingVars => RecordingInv'
  BY RecordingStep
<1>3. RecordingInv => PublishedIsKept
  BY DEF RecordingInv, ReviewInv, TouchedInv, Touched, PublishedIsKept
<1> QED
  BY <1>1, <1>2, <1>3, PTL DEF RecordingSpec

\* When the store deletes an object, its recording is still due, unpublished and not held
\* (claim_reporter_lifecycle, deleteRecording).
THEOREM DeletesOnlyWhatIsDue ==
    ASSUME MayLoseCredentials = FALSE PROVE RecordingSpec => DeletedWhileDue
<1>1. RecordingInit => RecordingInv
  BY RecordingInitially
<1>2. RecordingInv /\ [RecordingNext]_recordingVars => RecordingInv'
  BY RecordingStep
<1>3. ASSUME RecordingInv, [RecordingNext]_recordingVars
      PROVE  [\A r \in gone' \ gone : Deletable(r)]_recordingVars
  <2> SUFFICES ASSUME NEW r \in gone' \ gone PROVE Deletable(r)
    OBVIOUS
  <2>1. PICK u \in Runs : DeleteObject(u)
    BY <1>3, Reviews, Clocks
       DEF RecordingInv, recordingVars, outcomeVars, retentionVars, RecordingNext, RetentionNext, RunStep,
           ClaimDeletion, CompleteDeletion, FailDeletion, RunStops, CredentialsChange
  <2>2. run[u].at = "claimed" /\ r = run[u].recording /\ r \in Recordings
    BY <1>3, <2>1 DEF DeleteObject, RunAt, Work, RecordingInv, RunsInv
  <2> QED
    BY <1>3, <2>2 DEF RecordingInv, TouchedInv, Touched, RunsInv, Barred, Deletable
<1> QED
  BY <1>1, <1>2, <1>3, PTL DEF RecordingSpec, DeletedWhileDue

-----------------------------------------------------------------------------
(* The two on the same rows.                                                *)

\* RecordingOutcome reads the same in both, where the rows are the same.
LEMMA SameOutcome ==
    ASSUME SameRows, SameRows', [Promise!OutcomeNext]_(Promise!outcomeVars)
    PROVE  [OutcomeNext]_outcomeVars
<1> DEFINE rows   == [r \in Recordings |-> row[r].status]
           wholes == {r \in Recordings : \E e \in Egresses :
                          EgressesOf(r) = {e} /\ egress[e].status = "completed"}
<1>1. status = rows /\ whole = wholes /\ status' = rows' /\ whole' = wholes'
  BY DEF SameRows, RowStatuses, WholeBroadcasts
<1>2. CASE Promise!OutcomeNext
  <2>1. PICK r \in Recordings :
          Promise!Opens(r) \/ Promise!Starts(r) \/ Promise!IsStored(r) \/ Promise!Ends(r)
    BY <1>2 DEF Promise!OutcomeNext
  <2>2. Promise!Opens(r) => Opens(r)
    BY <1>1 DEF Promise!Opens, Opens, Promise!Becomes, Becomes, Promise!Open, Open
  <2>3. Promise!Starts(r) => Starts(r)
    BY <1>1 DEF Promise!Starts, Starts, Promise!Becomes, Becomes
  <2>4. Promise!IsStored(r) => IsStored(r)
    BY <1>1 DEF Promise!IsStored, IsStored, Promise!Open, Open
  <2>5. Promise!Ends(r) => Ends(r)
    BY <1>1 DEF Promise!Ends, Ends, Promise!Becomes, Becomes, Promise!Open, Open
  <2> QED
    BY <2>1, <2>2, <2>3, <2>4, <2>5 DEF OutcomeNext
<1>3. CASE UNCHANGED Promise!outcomeVars
  BY <1>1, <1>3 DEF Promise!outcomeVars, outcomeVars
<1> QED
  BY <1>2, <1>3

\* The rows stay the same rows, and no step disturbs the other half.
LEMMA LifeSteps ==
    ASSUME SameRows, [LifeNext]_lifeVars
    PROVE  /\ SameRows' /\ [Next]_vars
           /\ IInv /\ IInv' => [RecordingNext]_recordingVars
<1>1. CASE LifeNext
  <2>1. SameRows'
    BY <1>1 DEF LifeNext, SameRows
  <2>2. CASE Next /\ UNCHANGED retentionVars
    <3>1. IInv /\ IInv' => [OutcomeNext]_outcomeVars
      BY <2>1, <2>2, PromisedAction, SameOutcome
    <3> QED
      BY <2>1, <2>2, <3>1 DEF RecordingNext, recordingVars
  <2>3. CASE RetentionNext /\ UNCHANGED vars
    <3>1. row' = row /\ egress' = egress
      BY <2>3 DEF vars
    <3>2. UNCHANGED outcomeVars
      BY <2>1, <3>1 DEF SameRows, RowStatuses, WholeBroadcasts, EgressesOf, outcomeVars
    <3> QED
      BY <2>1, <2>3, <3>2 DEF RecordingNext
  <2> QED
    BY <1>1, <2>2, <2>3 DEF LifeNext
<1>2. CASE UNCHANGED lifeVars
  <2>1. UNCHANGED vars /\ UNCHANGED recordingVars
    BY <1>2 DEF lifeVars
  <2>2. row' = row /\ egress' = egress /\ status' = status /\ whole' = whole
    BY <2>1 DEF vars, recordingVars, outcomeVars
  <2> QED
    BY <2>1, <2>2 DEF SameRows, RowStatuses, WholeBroadcasts, EgressesOf
<1> QED
  BY <1>1, <1>2

\* On the same rows, the sessions and webhooks on one side and the review and the daily job
\* on the other are still what each was taken for by itself (live_recordings).
THEOREM HalvesOfALife == LifeSpec => EachByItself
<1>1. LifeInit => Init /\ RecordingInit /\ SameRows
  <2> SUFFICES ASSUME LifeInit PROVE OutcomeInit
    BY DEF LifeInit, RecordingInit
  <2> QED
    BY NoneIsNobody DEF LifeInit, Init, SameRows, RowStatuses, WholeBroadcasts, OutcomeInit, NoRow,
                         EgressesOf
<1>2. Init => IInv
  BY Initially
<1>3. IInv /\ [Next]_vars => IInv'
  BY Step
<1>4. SameRows /\ [LifeNext]_lifeVars =>
        /\ SameRows' /\ [Next]_vars
        /\ IInv /\ IInv' => [RecordingNext]_recordingVars
  BY LifeSteps
<1> QED
  BY <1>1, <1>2, <1>3, <1>4, PTL DEF LifeSpec, EachByItself, Spec, RecordingSpec

\* What the public may watch again is a whole broadcast, recorded once, whose object exists:
\* no lost session, late webhook or abandoned deletion can make it otherwise, as long as the
\* deployment keeps the store's credentials (publish_live_recording).
THEOREM PublicReplaysAreWhole ==
    ASSUME MayLoseCredentials = FALSE PROVE LifeSpec => []PublicReplayIsWhole
<1>1. LifeInit => SameRows
  BY DEF LifeInit
<1>2. SameRows /\ [LifeNext]_lifeVars => SameRows'
  BY LifeSteps
<1>3. SameRows /\ PublishedIsKept => PublicReplayIsWhole
  BY DEF SameRows, PublishedIsKept, PublicReplayIsWhole
<1>4. LifeSpec => RecordingSpec
  BY HalvesOfALife DEF EachByItself
<1>5. RecordingSpec => []PublishedIsKept
  BY PublishedKeepsItsObject
<1> QED
  BY <1>1, <1>2, <1>3, <1>4, <1>5, PTL DEF LifeSpec
=================================================================================
