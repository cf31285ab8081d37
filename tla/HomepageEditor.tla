---------------------------- MODULE HomepageEditor ----------------------------
(***************************************************************************)
(* Autosave of the homepage builder (cms/.../homepage-builder).            *)
(*                                                                         *)
(* Several editors have the builder open.  A page keeps a draft of every   *)
(* section, counts the revisions of the draft and saves it one second      *)
(* after the last edit: a timer per section, one request in flight per     *)
(* section, the version of the row the draft is based on sent along.  The  *)
(* database takes an update only over that version (updated_at).  A fixed  *)
(* slot of the template that has no row yet is a local placeholder; its    *)
(* first save creates the row.                                             *)
(*                                                                         *)
(* What a section says is the set of edits it contains, so that an edit    *)
(* which is overwritten by somebody who never saw it can be seen to vanish.*)
(* A row is the sequence of its contents; its version is the length.       *)
(* Moving, duplicating and deleting sections is not offered by the         *)
(* workspace any more (fixed template) and is left out.                    *)
(***************************************************************************)
EXTENDS Naturals, Sequences, FiniteSets

CONSTANTS Editors,       \* open pages of the builder
          Rows,          \* identities of persisted sections
          Existing,      \* the rows there are at the start
          Placeholders,  \* template slots without a row ("fixed:...")
          NoSlot,        \* a row that was not created from a slot
          None,          \* no timer, no request
          MaxEdits,      \* bound: edits and retries of all pages
          MaxUpsets      \* bound: reloads, failed or unheard saves

ASSUME RowsAndSlots ==
    /\ Existing \subseteq Rows
    /\ Rows \cap Placeholders = {}
    /\ NoSlot \notin Placeholders
ASSUME BoundsAreNumbers == {MaxEdits, MaxUpsets} \subseteq Nat

VARIABLES
    table,     \* homepage_sections: the contents of every row, version by version
    slot,      \* the template slot a row was created from
    page,      \* what each page holds of each section
    rendered,  \* the page's effect has run for its current state
    orphans,   \* requests whose page is gone, still on their way to the server
    edits,     \* edits and retries so far; an edit is named by its number
    upsets     \* reloads and failures so far

vars == <<table, slot, page, rendered, orphans, edits, upsets>>

Sections == Rows \cup Placeholders
Text     == SUBSET (1..MaxEdits)
Statuses == {"idle", "dirty", "saving", "saved", "error", "conflict"}

\* An autosave task: what the closure made by the effect sends.
Task  == [revision : Nat, base : Nat, text : Text]
\* A request of a section: on its way, or answered by the server.
Reply == [outcome : {"sent", "saved", "failed", "conflict"}, section : Sections, version : Nat]
Call  == [task : Task, reply : Reply]
ASSUME NoneIsNoRequest == None \notin Task \cup Call

View  == [shown : BOOLEAN, text : Text, base : Nat, revision : Nat, dirty : BOOLEAN,
          status : Statuses, valid : BOOLEAN, pending : Task \cup {None},
          attempted : Nat, call : Call \cup {None}]

(* ------------------------------- helpers ------------------------------- *)

Last(seq)   == seq[Len(seq)]
Persisted   == {r \in Rows : table[r] # <<>>}
Sent(s)     == [outcome |-> "sent", section |-> s, version |-> 0]

\* A section as a freshly loaded page shows it, and one it does not show.
Fresh(text, base, status) ==
    [shown |-> TRUE, text |-> text, base |-> base, revision |-> 0, dirty |-> FALSE,
     status |-> status, valid |-> TRUE, pending |-> None, attempted |-> 0, call |-> None]
Hidden == [Fresh({}, 0, "idle") EXCEPT !.shown = FALSE]

\* createHomepageEditorState: the rows, and a draft for every slot none of them fills.
Loaded(rows, filled) ==
    [s \in Sections |->
        IF s \in Rows
        THEN IF rows[s] # <<>> THEN Fresh(Last(rows[s]), Len(rows[s]), "idle") ELSE Hidden
        ELSE IF \E r \in Rows : filled[r] = s THEN Hidden ELSE Fresh({}, 0, "idle")]

\* Mutant: the version the draft is based on is not sent along.
TaskWithoutBase(v) == [revision |-> v.revision, text |-> v.text]

TaskOf(v) == [revision |-> v.revision, base |-> v.base, text |-> v.text]

\* schedule: replace the task of this revision, do nothing if it was tried, else set a timer.
Schedule(v) ==
    IF v.pending # None /\ v.pending.revision = v.revision
    THEN [v EXCEPT !.pending = TaskOf(v)]
    ELSE IF v.attempted = v.revision THEN v
    ELSE [v EXCEPT !.pending = TaskOf(v), !.attempted = v.revision]

CancelPending(v) ==
    IF v.pending = None THEN v
    ELSE [v EXCEPT !.pending = None,
                   !.attempted = IF v.attempted = v.pending.revision THEN 0 ELSE v.attempted]

\* What the effect of useHomepageAutosave does to one section.
AfterEffect(v) == IF v.dirty /\ v.valid THEN Schedule(v) ELSE CancelPending(v)

Upset == upsets < MaxUpsets /\ upsets' = upsets + 1

(* ------------------------------- actions ------------------------------- *)

Init ==
    /\ table = [r \in Rows |-> IF r \in Existing THEN <<{}>> ELSE <<>>]
    /\ slot = [r \in Rows |-> NoSlot]
    /\ page = [e \in Editors |-> Loaded(table, slot)]
    /\ rendered = [e \in Editors |-> TRUE]
    /\ orphans = {}
    /\ edits = 0 /\ upsets = 0

\* updateDraft: edit-field and validation-set, one render.
EditField(e, s, valid) ==
    LET v == page[e][s] IN
    /\ v.shown /\ edits < MaxEdits
    /\ edits' = edits + 1
    /\ page' = [page EXCEPT ![e][s] =
            [v EXCEPT !.text = @ \cup {edits + 1}, !.revision = @ + 1,
                      !.dirty = TRUE, !.status = "dirty", !.valid = valid]]
    /\ rendered' = [rendered EXCEPT ![e] = FALSE]
    /\ UNCHANGED <<table, slot, orphans, upsets>>

\* The effect runs after the state changed (it also runs when only the selection did).
RunEffect(e) ==
    /\ page' = [page EXCEPT ![e] = [s \in Sections |-> AfterEffect(page[e][s])]]
    /\ rendered' = [rendered EXCEPT ![e] = TRUE]
    /\ UNCHANGED <<table, slot, orphans, edits, upsets>>

\* The Retry button, shown only after an error: forget the attempt and schedule again.
Retry(e, s) ==
    LET v == page[e][s] IN
    /\ rendered[e] /\ v.shown /\ v.status = "error" /\ v.dirty /\ v.valid
    /\ page' = [page EXCEPT ![e][s] = Schedule([v EXCEPT !.attempted = 0])]
    /\ edits < MaxEdits /\ edits' = edits + 1
    /\ UNCHANGED <<table, slot, rendered, orphans, upsets>>

\* Mutant: the attempt stays noted, so that the effect never schedules this revision again.
TimerIsSpentInFlight(e, s) ==
    /\ page[e][s].pending # None /\ page[e][s].call # None
    /\ page' = [page EXCEPT ![e][s].pending = None]
    /\ UNCHANGED <<table, slot, rendered, orphans, edits, upsets>>

\* The timer is due while a request is out: the effect will schedule once more.
TimerFiresInFlight(e, s) ==
    /\ page[e][s].pending # None /\ page[e][s].call # None
    /\ page' = [page EXCEPT ![e][s] = [@ EXCEPT !.pending = None, !.attempted = 0]]
    /\ UNCHANGED <<table, slot, rendered, orphans, edits, upsets>>

\* The timer is due: save-started, and the task captured by the effect goes out.
TimerFires(e, s) ==
    LET v == page[e][s] IN
    /\ v.pending # None /\ v.call = None
    /\ page' = [page EXCEPT ![e][s] =
            [v EXCEPT !.pending = None, !.status = "saving",
                      !.call = [task |-> v.pending, reply |-> Sent(s)]]]
    /\ rendered' = [rendered EXCEPT ![e] = FALSE]
    /\ UNCHANGED <<table, slot, orphans, edits, upsets>>

\* Mutant: an update without the comparison of versions.
AcceptsAnyVersion(s, task) == s \in Persisted

\* updateIfCurrent: the row is written only over the version that was sent.
Accepts(s, task) == s \in Persisted /\ Len(table[s]) = task.base

\* The server's part of a save of an existing row.
Update(s, task) ==
    /\ s \in Rows /\ Accepts(s, task)
    /\ table' = [table EXCEPT ![s] = Append(@, task.text)]
    /\ UNCHANGED slot

\* The server's part of the first save of a slot: a new row, whatever else was created.
Create(r, s, task) ==
    /\ s \in Placeholders /\ r \in Rows \ Persisted
    /\ table' = [table EXCEPT ![r] = <<task.text>>]
    /\ slot' = [slot EXCEPT ![r] = s]

Answer(e, s, outcome, r, version) ==
    page' = [page EXCEPT ![e][s].call.reply =
                [outcome |-> outcome, section |-> r, version |-> version]]

Outstanding(e, s) == page[e][s].call # None /\ page[e][s].call.reply.outcome = "sent"

\* The save is made and the answer says so ...
ServerSaves(e, s) ==
    /\ Outstanding(e, s)
    /\ LET task == page[e][s].call.task IN
        \/ Update(s, task) /\ Answer(e, s, "saved", s, task.base + 1)
        \/ \E r \in Rows : Create(r, s, task) /\ Answer(e, s, "saved", r, 1)
    /\ UNCHANGED <<rendered, orphans, edits, upsets>>

\* ... or it is made, but the revalidation after it or the connection fails ...
ServerSavesButFails(e, s) ==
    /\ Outstanding(e, s)
    /\ LET task == page[e][s].call.task IN
        Update(s, task) \/ \E r \in Rows : Create(r, s, task)
    /\ Answer(e, s, "failed", s, 0)
    /\ Upset
    /\ UNCHANGED <<rendered, orphans, edits>>

\* ... or it never reaches the row, or a referenced story is gone (a create also fails
\* when the bounded table is full) ...
SaveFails(e, s) ==
    /\ Outstanding(e, s)
    /\ \/ Upset
       \/ s \in Placeholders /\ Persisted = Rows /\ UNCHANGED upsets
    /\ Answer(e, s, "failed", s, 0)
    /\ UNCHANGED <<table, slot, rendered, orphans, edits>>

\* ... or the row has moved on: "Changed elsewhere".
ServerRefuses(e, s) ==
    /\ Outstanding(e, s) /\ s \in Rows /\ ~Accepts(s, page[e][s].call.task)
    /\ Answer(e, s, "conflict", s, 0)
    /\ UNCHANGED <<table, slot, rendered, orphans, edits, upsets>>

\* A request outlives its page: it is made or lost, nobody hears of it.
OrphanArrives(o) ==
    /\ o \in orphans
    /\ orphans' = orphans \ {o}
    /\ \/ Update(o.section, o.task)
       \/ \E r \in Rows : Create(r, o.section, o.task)
       \/ UNCHANGED <<table, slot>>
    /\ UNCHANGED <<page, rendered, edits, upsets>>

\* Mutant: every answer is taken to be about the draft as it is now.
AlwaysAcknowledged(v) == TRUE

\* save-succeeded, save-failed: the view after the reply to its request.
Acknowledged(v) == v.revision = v.call.task.revision

ReceiveFailure(e, s) ==
    LET v == page[e][s] IN
    /\ v.call # None /\ v.call.reply.outcome \in {"failed", "conflict"}
    /\ page' = [page EXCEPT ![e][s] =
            [v EXCEPT !.call = None,
                      !.status = IF v.call.reply.outcome = "conflict" THEN "conflict" ELSE "error"]]
    /\ rendered' = [rendered EXCEPT ![e] = FALSE]
    /\ UNCHANGED <<table, slot, orphans, edits, upsets>>

\* Mutant: the saved row's version is not taken over.
ReceiveSavedRowOnly(e, s) ==
    LET v == page[e][s]
        full == Acknowledged(v) IN
    /\ s \in Rows /\ v.call # None /\ v.call.reply.outcome = "saved"
    /\ page' = [page EXCEPT ![e][s] =
            [v EXCEPT !.call = None, !.text = IF full THEN v.call.task.text ELSE @,
                      !.dirty = ~full, !.valid = full \/ @,
                      !.status = IF full THEN "saved" ELSE "dirty"]]
    /\ rendered' = [rendered EXCEPT ![e] = FALSE]
    /\ UNCHANGED <<table, slot, orphans, edits, upsets>>

ReceiveSavedRow(e, s) ==
    LET v == page[e][s]
        full == Acknowledged(v) IN
    /\ s \in Rows /\ v.call # None /\ v.call.reply.outcome = "saved"
    /\ page' = [page EXCEPT ![e][s] =
            [v EXCEPT !.call = None, !.base = v.call.reply.version,
                      !.text = IF full THEN v.call.task.text ELSE @,
                      !.dirty = ~full, !.valid = full \/ @,
                      !.status = IF full THEN "saved" ELSE "dirty"]]
    /\ rendered' = [rendered EXCEPT ![e] = FALSE]
    /\ UNCHANGED <<table, slot, orphans, edits, upsets>>

\* The row of a slot was created.  The local draft gives way to it only if nothing was
\* typed meanwhile; else it stays under the slot's own identity.
ReceiveCreatedRow(e, s) ==
    LET v == page[e][s]
        reply == v.call.reply
        full == Acknowledged(v) IN
    /\ s \in Placeholders /\ v.call # None /\ reply.outcome = "saved"
    /\ page' = IF full
               THEN [page EXCEPT ![e] = [@ EXCEPT ![s] = Hidden,
                        ![reply.section] = Fresh(v.call.task.text, reply.version, "saved")]]
               ELSE [page EXCEPT ![e][s] = [v EXCEPT !.call = None, !.status = "dirty"]]
    /\ rendered' = [rendered EXCEPT ![e] = FALSE]
    /\ UNCHANGED <<table, slot, orphans, edits, upsets>>

\* The page is left or reloaded (the guard asks, the editor may say yes): timers are
\* cancelled, requests that are out go on without it.
Reload(e) ==
    /\ Upset
    /\ orphans' = orphans \cup
            {[section |-> s, task |-> page[e][s].call.task] : s \in {x \in Sections : Outstanding(e, x)}}
    /\ page' = [page EXCEPT ![e] = Loaded(table, slot)]
    /\ rendered' = [rendered EXCEPT ![e] = TRUE]
    /\ UNCHANGED <<table, slot, edits>>

Timer(e, s)   == TimerFires(e, s) \/ TimerFiresInFlight(e, s)
Serve(e, s)   == ServerSaves(e, s) \/ ServerSavesButFails(e, s) \/ SaveFails(e, s) \/ ServerRefuses(e, s)
Receive(e, s) == ReceiveFailure(e, s) \/ ReceiveSavedRow(e, s) \/ ReceiveCreatedRow(e, s)

Next ==
    \/ \E e \in Editors :
        \/ RunEffect(e) \/ Reload(e)
        \/ \E s \in Sections :
            \/ \E valid \in BOOLEAN : EditField(e, s, valid)
            \/ Retry(e, s) \/ Timer(e, s) \/ Serve(e, s) \/ Receive(e, s)
    \/ \E o \in orphans : OrphanArrives(o)

Spec == Init /\ [][Next]_vars

\* Somewhere an effect that is due runs, a timer fires, a request is answered and a reply
\* is received.
Fairness ==
    /\ WF_vars(\E e \in Editors : RunEffect(e))
    /\ WF_vars(\E e \in Editors, s \in Sections : Timer(e, s))
    /\ WF_vars(\E e \in Editors, s \in Sections : Serve(e, s))
    /\ WF_vars(\E e \in Editors, s \in Sections : Receive(e, s))

FairSpec == Spec /\ Fairness

(* ------------------------------ properties ----------------------------- *)

TypeOK ==
    /\ table \in [Rows -> Seq(Text)]
    /\ slot \in [Rows -> Placeholders \cup {NoSlot}]
    /\ page \in [Editors -> [Sections -> View]]
    /\ rendered \in [Editors -> BOOLEAN]
    /\ orphans \subseteq [section : Sections, task : Task]
    /\ edits \in 0..MaxEdits /\ upsets \in 0..MaxUpsets

\* An edit that was saved is in every later version of its section: no page overwrites
\* work it has not seen, whatever is reloaded, retried or answered late
\* (homepage-builder.operations.ts updateIfCurrent with the editor's base version).
NothingSavedIsLost ==
    \A r \in Rows : \A k \in 1..Len(table[r]) - 1 : table[r][k] \subseteq table[r][k + 1]

SavedMeansPersisted ==
    \A e \in Editors : \A r \in Rows :
        page[e][r].shown /\ page[e][r].status = "saved" =>
            page[e][r].base \in 1..Len(table[r]) /\ page[e][r].text = table[r][page[e][r].base]

OnItsWay(v) == v.pending # None \/ v.call # None
UnsavedWorkIsOnItsWay ==
    \A e \in Editors : \A s \in Sections :
        LET v == page[e][s] IN
        rendered[e] /\ v.dirty /\ v.valid /\ v.status \notin {"error", "conflict"} => OnItsWay(v)

\* The status line tells the truth.  "Saved" means that the page shows what the server
\* holds as the version the next save will be based on; and once the effect has run, a
\* valid unsaved section that reports no failure has a timer or a request out: what the
\* scheduler remembers to have tried never swallows a newer draft
\* (homepage-editor.reducer.ts save-succeeded, use-homepage-autosave.ts attemptedRevision).
StatusIsTrue == SavedMeansPersisted /\ UnsavedWorkIsOnItsWay

\* Short of a reload nothing an editor typed disappears from the page, even when an older
\* draft's save is acknowledged after it or a slot's draft gives way to its row.
TypingIsNeverUndone ==
    [][\A e \in Editors : \A s \in Sections :
          \/ page'[e] = Loaded(table, slot)
          \/ \E t \in Sections : page[e][s].shown =>
                page'[e][t].shown /\ page[e][s].text \subseteq page'[e][t].text]_vars

\* Again and again (typing is bounded) no page is left with work that is neither saved nor
\* reported: every valid unsaved section is saved or its editor is told otherwise.
Settled(v) == ~v.dirty \/ ~v.valid \/ v.status \in {"error", "conflict"}
EveryEditIsSettled == []<>(\A e \in Editors : \A s \in Sections : Settled(page[e][s]))

\* The first autosave of a slot replaces its local draft with the persisted section, so a
\* page creates one row for it (homepage-editor.reducer.test.mjs:85).
OneRowPerSlot ==
    \A p \in Placeholders : Cardinality({r \in Rows : slot[r] = p}) <= 1
=============================================================================
