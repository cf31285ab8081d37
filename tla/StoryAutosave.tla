----------------------------- MODULE StoryAutosave -----------------------------
(***************************************************************************)
(* A reporter's story editor and its autosave (reporter/.../submissions).  *)
(*                                                                         *)
(* One page at a time has the story open.  Every edit restarts two timers: *)
(* one saves the draft on the server, the other keeps a recovery copy in   *)
(* the browser.  Saves, the upload of a media item, the submission and the *)
(* withdrawal take turns: each waits for the one before it, and a save     *)
(* reads the draft only when its turn has come.  Answers may be lost, the  *)
(* page may crash, and a request nobody waits for any more may still be    *)
(* carried out: the server compares no version.                            *)
(*                                                                         *)
(* A text is the number of the edit that wrote it; the same count stands   *)
(* for the time.  At most one media item is attached.  Location, locality, *)
(* membership and full browser storage are left out; a page is left by     *)
(* unloading it, so that what waits for its turn ends with it.             *)
(***************************************************************************)
EXTENDS Naturals, Sequences

CONSTANTS None,
          Incomplete,   \* texts that lack a required detail
          MaxEdits,     \* bound: edits, restored drafts and finished uploads
          MaxUpsets     \* bound: crashes, reloads, lost answers, retries, decisions

ASSUME BlankIsIncomplete == 0 \in Incomplete
ASSUME BoundsAreCounts == {MaxEdits, MaxUpsets} \subseteq Nat

VARIABLES
    server,   \* the story's row and its media
    late,     \* history: a request nobody waited for changed the row since the last save
    storage,  \* the recovery copy in the browser
    page,     \* the editor
    shown,    \* history: the draft on the page when the transition was pressed
    orphans,  \* requests nobody waits for, still on their way
    edits,    \* edits so far: the clock
    upsets

vars == <<server, late, storage, page, shown, orphans, edits, upsets>>

Ops         == {"save", "upload", "submit", "withdraw"}
Transitions == {"submit", "withdraw"}
Draft    == [text : 0..MaxEdits, media : BOOLEAN]
Copy     == [draft : Draft, stamp : 0..MaxEdits]
Row      == [status : {"absent", "draft", "submitted", "withdrawn"}, draft : Draft,
             stamp : 0..MaxEdits]
Request  == [op : Ops, draft : Draft, generation : Nat]
Call     == [request : Request, reply : {"sent", "success", "error"}]
ASSUME NoneIsNoRecord == None \notin Call \cup Copy

Page     == [open : BOOLEAN, draft : Draft, generation : Nat, savedGeneration : Nat,
             status : {"idle", "pending", "saving", "saved", "error"},
             dirty : BOOLEAN, persisted : BOOLEAN, stopped : BOOLEAN, timer : BOOLEAN,
             queue : Seq(Ops), call : Call \cup {None},
             unwritten : Copy \cup {None}, restore : Draft \cup {None},
             discarded : BOOLEAN,
             upload : {"none", "waiting", "queued", "failed"}]

Blank == [text |-> 0, media |-> FALSE]
CanSave(draft) == draft.text \notin Incomplete

\* A page just loaded over a row, and no page.
Fresh(row, offered) ==
    [open |-> TRUE, draft |-> row.draft, generation |-> 0, savedGeneration |-> 0,
     status |-> IF row.status = "draft" THEN "saved" ELSE "idle",
     dirty |-> FALSE, persisted |-> row.status = "draft", stopped |-> FALSE, timer |-> FALSE,
     queue |-> <<>>, call |-> None, unwritten |-> None, restore |-> offered,
     discarded |-> FALSE, upload |-> "none"]
Closed == [Fresh([status |-> "absent", draft |-> Blank], None) EXCEPT !.open = FALSE]

InTransition == \E i \in DOMAIN page.queue : page.queue[i] \in Transitions
Queued(p, op) == [p EXCEPT !.queue = Append(@, op)]
\* flush: the save takes its place in the queue.
Flushed(p) == Queued([p EXCEPT !.timer = FALSE], "save")
Upset == upsets < MaxUpsets /\ upsets' = upsets + 1

(* ------------------------------- editing ------------------------------- *)

Init ==
    /\ server = [status |-> "absent", draft |-> Blank, stamp |-> 0]
    /\ late = FALSE
    /\ storage = None
    /\ page = Closed
    /\ shown = Blank
    /\ orphans = {}
    /\ edits = 0 /\ upsets = 0

\* Mutant: the whole record is offered, not its fields.
OfferedRecord ==
    IF storage # None /\ (server.status = "absent" \/ storage.stamp > server.stamp)
    THEN storage ELSE None

\* shouldOfferLocalDraft: any copy of a story without a row, else only a newer one.
Offered ==
    IF storage # None /\ (server.status = "absent" \/ storage.stamp > server.stamp)
    THEN storage.draft ELSE None

\* The page mounts the editor only while the story is the reporter's to change.
Open ==
    /\ ~page.open /\ server.status \in {"absent", "draft"}
    /\ page' = Fresh(server, Offered)
    /\ late' = FALSE
    /\ UNCHANGED <<server, storage, shown, orphans, edits, upsets>>

\* Mutant: no new timer while a save is under way.
EditedWithoutTimer(p, draft) ==
    [p EXCEPT !.draft = draft, !.generation = @ + 1, !.dirty = TRUE, !.discarded = FALSE,
              !.status = IF @ = "saving" THEN @ ELSE "pending", !.timer = page.call = None,
              !.unwritten = [draft |-> draft, stamp |-> edits + 1]]

\* updateFields: autosave.edit and persistence.schedule.
Edited(p, draft) ==
    [p EXCEPT !.draft = draft, !.generation = @ + 1, !.dirty = TRUE, !.discarded = FALSE,
              !.status = IF @ = "saving" THEN @ ELSE "pending", !.timer = TRUE,
              !.unwritten = [draft |-> draft, stamp |-> edits + 1]]

\* A chosen file keeps one of the bounded edits for itself.
MayEdit == /\ page.open /\ ~page.stopped /\ ~InTransition
           /\ edits + (IF page.upload = "none" THEN 0 ELSE 1) < MaxEdits

Edit ==
    /\ MayEdit
    /\ edits' = edits + 1
    /\ page' = Edited(page, [page.draft EXCEPT !.text = edits + 1])
    /\ UNCHANGED <<server, late, storage, shown, orphans, upsets>>

RestoreDraft ==
    /\ MayEdit /\ page.restore # None
    /\ edits' = edits + 1
    /\ page' = Edited([page EXCEPT !.restore = None], page.restore)
    /\ UNCHANGED <<server, late, storage, shown, orphans, upsets>>

\* discardDraft clears the copy, and the write that is due, whatever they hold by now.
DiscardDraft ==
    /\ page.open /\ page.restore # None
    /\ storage' = None
    /\ page' = [page EXCEPT !.restore = None, !.unwritten = None, !.discarded = TRUE]
    /\ UNCHANGED <<server, late, shown, orphans, edits, upsets>>

\* The recovery timer, or the focus leaves a field.
WriteRecovery ==
    /\ page.open /\ page.unwritten # None
    /\ storage' = page.unwritten
    /\ page' = [page EXCEPT !.unwritten = None]
    /\ UNCHANGED <<server, late, shown, orphans, edits, upsets>>

TimerFires ==
    /\ page.open /\ page.timer
    /\ page' = Flushed(page)
    /\ UNCHANGED <<server, late, storage, shown, orphans, edits, upsets>>

Retry ==
    /\ page.open /\ page.status = "error" /\ ~InTransition
    /\ Upset
    /\ page' = Flushed(page)
    /\ UNCHANGED <<server, late, storage, shown, orphans, edits>>

(* ------------------------------- uploads ------------------------------- *)

ChooseFile ==
    /\ page.open /\ ~page.stopped /\ ~InTransition
    /\ page.upload = "none" /\ ~page.draft.media /\ edits < MaxEdits
    /\ page' = [page EXCEPT !.upload = "waiting"]
    /\ UNCHANGED <<server, late, storage, shown, orphans, edits, upsets>>

\* uploadOne: of itself once the draft has a row, and again by the Retry button.
StartUpload ==
    /\ page.open /\ page.persisted
    /\ \/ page.upload = "waiting" /\ UNCHANGED upsets
       \/ page.upload = "failed" /\ ~InTransition /\ Upset
    /\ page' = Queued([page EXCEPT !.upload = "queued"], "upload")
    /\ UNCHANGED <<server, late, storage, shown, orphans, edits>>

RemoveUpload ==
    /\ page.open /\ page.upload \in {"waiting", "failed"}
    /\ page' = [page EXCEPT !.upload = "none"]
    /\ UNCHANGED <<server, late, storage, shown, orphans, edits, upsets>>

(* ----------------------------- transitions ----------------------------- *)

\* Mutant: an unsaved draft may be submitted.
ReadyWhenSavedOnce(op) ==
    page.persisted /\ page.upload = "none"
    /\ (op = "submit" => page.restore = None /\ CanSave(page.draft))

\* What the editor asks of its own state before it sends a transition.
Ready(op) ==
    IF op = "withdraw" THEN page.persisted /\ page.upload = "none"
    ELSE /\ page.persisted /\ ~page.dirty /\ page.status = "saved" /\ page.upload = "none"
         /\ page.restore = None /\ CanSave(page.draft)

Press(op) ==
    /\ page.open /\ ~page.stopped /\ ~InTransition
    /\ Ready(op)
    /\ page' = Queued(page, op)
    /\ shown' = page.draft
    /\ UNCHANGED <<server, late, storage, orphans, edits, upsets>>

(* ------------------------------ the queue ------------------------------ *)

\* What a turn that does nothing leaves behind: a transition is over, an upload failed.
Skipped(op) ==
    [page EXCEPT !.queue = Tail(@), !.upload = IF op = "upload" THEN "failed" ELSE @]

Send(op) ==
    [page EXCEPT !.status = IF op = "save" THEN "saving" ELSE @,
                 !.call = [request |-> [op |-> op, draft |-> page.draft,
                                        generation |-> page.generation],
                           reply |-> "sent"]]

MustSave == ~page.stopped /\ page.generation # page.savedGeneration /\ CanSave(page.draft)

TakeTurn ==
    /\ page.open /\ page.queue # <<>> /\ page.call = None
    /\ LET op == Head(page.queue) IN
       page' = IF IF op = "save" THEN MustSave ELSE ~page.stopped /\ page.persisted
               THEN Send(op) ELSE Skipped(op)
    /\ UNCHANGED <<server, late, storage, shown, orphans, edits, upsets>>

(* ------------------------------ the server ----------------------------- *)

\* save_reporter_story_draft, complete_reporter_media_upload, submit and withdraw.
Takes(op, status) ==
    CASE op = "save" -> status \in {"absent", "draft"}
      [] op = "withdraw" -> status \in {"draft", "submitted"}
      [] OTHER -> status = "draft"

Carried(request) ==
    CASE request.op = "save" ->
            [status |-> "draft", draft |-> request.draft, stamp |-> edits]
      [] request.op = "upload" -> [server EXCEPT !.draft.media = TRUE]
      [] request.op = "submit" -> [server EXCEPT !.status = "submitted", !.stamp = edits]
      [] OTHER -> [server EXCEPT !.status = "withdrawn", !.stamp = edits]

Outstanding == page.open /\ page.call # None /\ page.call.reply = "sent"
Answer(reply) == page' = [page EXCEPT !.call.reply = reply]

ServerActs ==
    LET request == page.call.request IN
    /\ Outstanding
    /\ IF Takes(request.op, server.status)
       THEN /\ server' = Carried(request) /\ Answer("success")
            /\ late' = (late /\ request.op # "save")
       ELSE Answer("error") /\ UNCHANGED <<server, late>>
    /\ UNCHANGED <<storage, shown, orphans, edits, upsets>>

\* The page hears of a failure; the request may be carried out all the same, even later.
AnswerIsLost ==
    /\ Outstanding /\ Upset
    /\ Answer("error")
    /\ orphans' = orphans \cup {page.call.request}
    /\ UNCHANGED <<server, late, storage, shown, edits>>

OrphanEnds(request) ==
    /\ request \in orphans
    /\ orphans' = orphans \ {request}
    /\ \/ /\ Takes(request.op, server.status)
          /\ server' = Carried(request) /\ late' = TRUE
       \/ UNCHANGED <<server, late>>
    /\ UNCHANGED <<storage, page, shown, edits, upsets>>

\* The newsroom asks for changes: the story is the reporter's again.
SendBack ==
    /\ server.status = "submitted" /\ ~page.open
    /\ Upset
    /\ server' = [server EXCEPT !.status = "draft", !.stamp = edits]
    /\ UNCHANGED <<late, storage, page, shown, orphans, edits>>

(* ------------------------------- answers ------------------------------- *)

Heard(op, reply) ==
    page.open /\ page.call # None /\ page.call.request.op = op /\ page.call.reply = reply
Done == [page EXCEPT !.queue = Tail(@), !.call = None]

\* Mutant: the generation at the answer is taken for the one that was sent.
SaveSucceedsForAll ==
    /\ Heard("save", "success")
    /\ page' = [Done EXCEPT !.savedGeneration = page.generation, !.status = "saved",
                            !.persisted = TRUE, !.dirty = FALSE, !.unwritten = None]
    /\ storage' = None
    /\ UNCHANGED <<server, late, shown, orphans, edits, upsets>>

\* Mutant: every save that succeeds clears the recovery copy.
SaveSucceedsAndClears ==
    LET current == page.generation = page.call.request.generation IN
    /\ Heard("save", "success")
    /\ page' = [Done EXCEPT !.savedGeneration = page.call.request.generation,
                            !.status = IF current THEN "saved" ELSE "pending",
                            !.persisted = TRUE, !.dirty = ~current, !.unwritten = None]
    /\ storage' = None
    /\ UNCHANGED <<server, late, shown, orphans, edits, upsets>>

\* The recovery copy is cleared only when the draft that was saved is still the draft.
SaveSucceeds ==
    LET current == page.generation = page.call.request.generation IN
    /\ Heard("save", "success")
    /\ page' = [Done EXCEPT !.savedGeneration = page.call.request.generation,
                            !.status = IF current THEN "saved" ELSE "pending",
                            !.persisted = TRUE, !.dirty = ~current,
                            !.unwritten = IF current THEN None ELSE @]
    /\ storage' = IF current THEN None ELSE storage
    /\ UNCHANGED <<server, late, shown, orphans, edits, upsets>>

SaveFails ==
    /\ Heard("save", "error")
    /\ page' = [Done EXCEPT !.status = "error", !.dirty = TRUE]
    /\ UNCHANGED <<server, late, storage, shown, orphans, edits, upsets>>

\* onUploaded is an edit, made while the upload still has its turn.
UploadSucceeds ==
    /\ Heard("upload", "success")
    /\ edits' = edits + 1
    /\ page' = Edited([Done EXCEPT !.upload = "none"], [page.draft EXCEPT !.media = TRUE])
    /\ UNCHANGED <<server, late, storage, shown, orphans, upsets>>

UploadFails ==
    /\ Heard("upload", "error")
    /\ page' = [Done EXCEPT !.upload = "failed"]
    /\ UNCHANGED <<server, late, storage, shown, orphans, edits, upsets>>

TransitionSucceeds ==
    /\ \E op \in Transitions : Heard(op, "success")
    /\ page' = [Done EXCEPT !.stopped = TRUE, !.timer = FALSE, !.unwritten = None]
    /\ storage' = None
    /\ UNCHANGED <<server, late, shown, orphans, edits, upsets>>

TransitionFails ==
    /\ \E op \in Transitions : Heard(op, "error")
    /\ page' = Done
    /\ UNCHANGED <<server, late, storage, shown, orphans, edits, upsets>>

Hear == SaveSucceeds \/ SaveFails \/ UploadSucceeds \/ UploadFails
        \/ TransitionSucceeds \/ TransitionFails

(* -------------------------- leaving the page --------------------------- *)

Gone == orphans' = orphans \cup (IF Outstanding THEN {page.call.request} ELSE {})

\* router.refresh after a transition: the read-only view takes the editor's place.
Refresh ==
    /\ page.open /\ page.stopped /\ page.queue = <<>>
    /\ page' = Closed
    /\ UNCHANGED <<server, late, storage, shown, orphans, edits, upsets>>

\* beforeunload writes the recovery copy that is due ...
Leave ==
    /\ page.open /\ Upset /\ Gone
    /\ storage' = IF page.unwritten = None THEN storage ELSE page.unwritten
    /\ page' = Closed
    /\ UNCHANGED <<server, late, shown, edits>>

\* ... a crash does not.
Crash ==
    /\ page.open /\ Upset /\ Gone
    /\ page' = Closed
    /\ UNCHANGED <<server, late, storage, shown, edits>>

Next ==
    \/ Open \/ Edit \/ RestoreDraft \/ DiscardDraft \/ WriteRecovery \/ TimerFires \/ Retry
    \/ ChooseFile \/ StartUpload \/ RemoveUpload
    \/ \E op \in Transitions : Press(op)
    \/ TakeTurn \/ ServerActs \/ AnswerIsLost \/ SendBack \/ Hear
    \/ \E request \in orphans : OrphanEnds(request)
    \/ Refresh \/ Leave \/ Crash

Spec == Init /\ [][Next]_vars

\* Timers fire, turns are taken, requests are carried out and answers are received.
Fairness == WF_vars(TimerFires) /\ WF_vars(TakeTurn) /\ WF_vars(ServerActs) /\ WF_vars(Hear)

FairSpec == Spec /\ Fairness

(* ------------------------------ properties ----------------------------- *)

TypeOK ==
    /\ server \in Row
    /\ late \in BOOLEAN
    /\ storage \in Copy \cup {None}
    /\ page \in Page
    /\ shown \in Draft
    /\ orphans \subseteq Request
    /\ edits \in 0..MaxEdits /\ upsets \in 0..MaxUpsets

\* "Saved automatically" is true: while the page says so and nothing is unsaved, the server
\* holds the very draft the page shows, media included, unless an upload is under way or a
\* request nobody waited for came in between (story-autosave.ts flush, withDraft).
SavedIsStored ==
    page.open /\ page.status = "saved" /\ ~page.dirty /\ ~late /\ page.upload # "queued" =>
        server.draft = page.draft

\* The newsroom is given the draft that stood on the page when the reporter pressed the
\* button, whatever was saving, uploading or failing then (story-editor.tsx transition).
SubmittedAsShown ==
    server.status = "submitted" /\ ~late => server.draft = shown

\* Typing survives a crash of the page: once the recovery timer has run, the copy in the
\* browser is the unsaved draft, until it is discarded by hand or the story has left the
\* reporter's hands; no answer to an older save removes it (story-editor.tsx subscribeSaved).
RecoveryKept ==
    page.open /\ page.dirty /\ ~page.stopped /\ ~page.discarded /\ page.unwritten = None =>
        storage # None /\ storage.draft = page.draft

\* Again and again (edits are bounded) no page is left waiting: what can be saved is saved,
\* or the reporter is told that it could not be, and every turn ends.
Settled ==
    page.open => \/ ~page.dirty \/ ~CanSave(page.draft) \/ page.stopped
                 \/ page.status = "error"
EveryTextIsSettled == []<>(Settled /\ page.queue = <<>>)
=============================================================================
