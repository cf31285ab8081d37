------------------------------- MODULE Newsroom -------------------------------
(***************************************************************************)
(* The editorial workflow of stories (cms/.../admin/stories,               *)
(* reporter/.../submissions, transition_story and its siblings).           *)
(*                                                                         *)
(* Writers, editors and admins open stories in the CMS and act on the page *)
(* they have open: the service reads the story, checks that the command is *)
(* allowed, and then calls the database, which locks the row, compares     *)
(* updated_at with the version it is given and checks its own rules.       *)
(* Between the two, and while the page is open, everybody else goes on.    *)
(* Batches read all their stories first and then change one after the      *)
(* other.  Reporters save, submit, publish and withdraw their own stories; *)
(* what they submit is kept as a numbered revision whose outcome follows   *)
(* the story.                                                              *)
(*                                                                         *)
(* A text is the set of the edits it contains; updated_at is a clock that  *)
(* ticks with every write.  A reporter's save carries the whole text of    *)
(* the page it comes from and no version, so it may drop what was written  *)
(* since that page was loaded.  Nothing in the repository publishes a      *)
(* scheduled story when it is due; slugs, media, membership and trust are  *)
(* left out (a refused call changes nothing).                              *)
(***************************************************************************)
EXTENDS Naturals, Sequences

CONSTANTS Writers, Editors, Admins,   \* CMS users by role
          Articles,                   \* staff articles that may be created
          Imports,                    \* external articles waiting as drafts
          Reports,                    \* reporter stories that may be written
          None,
          MaxClock,                   \* bound: writes of stories
          MaxEdits,                   \* bound: pieces of text written
          MaxCommands                 \* bound: commands sent by CMS users

Staff   == Writers \cup Editors \cup Admins
Stories == Articles \cup Imports \cup Reports

ASSUME EachHasOneRole ==
    /\ Writers \cap Editors = {} /\ Writers \cap Admins = {} /\ Editors \cap Admins = {}
    /\ None \notin Staff
ASSUME EachIsOneKind ==
    Articles \cap Imports = {} /\ Articles \cap Reports = {} /\ Imports \cap Reports = {}
ASSUME BoundsAreNatural == {MaxClock, MaxEdits, MaxCommands} \subseteq Nat

VARIABLES
    story,      \* public.stories
    revisions,  \* story_revisions of a reporter story, by revision_number
    corrected,  \* reporter_story_correction_states: the last correction of a story
    tabs,       \* the texts on a reporter's pages, and in saves on their way
    page,       \* the story each CMS user has open
    job,        \* the command each CMS user has under way in the service
    vetted,     \* history: the text the last decision for publication was taken on
    clock,      \* updated_at of the latest write
    edits,      \* edits written so far
    sent        \* commands sent so far

vars == <<story, revisions, corrected, tabs, page, job, vetted, clock, edits, sent>>

Statuses == {"absent", "draft", "pending_review", "approved", "scheduled", "published",
             "rejected", "archived"}
Outcomes == {"pending_review", "changes_requested", "approved", "scheduled", "published",
             "direct_published", "rejected", "withdrawn"}
Target == [submit |-> "pending_review", approve |-> "approved", reject |-> "rejected",
           send_back |-> "draft", publish |-> "published", schedule |-> "scheduled",
           cancel_schedule |-> "approved", unpublish |-> "approved", archive |-> "archived"]
Transitions == DOMAIN Target
Commands    == Transitions \cup {"save", "delete", "request_changes", "correct"}

Text     == SUBSET (1..MaxEdits)
Row      == [status : Statuses, text : Text, version : 0..MaxClock, owner : Staff \cup {None}]
\* "shown" is history: the revision on the page of the editor who gave the outcome.
Revision == [text : Text, outcome : Outcomes, shown : Nat]
Page     == [story : Stories, row : Row, revision : Nat]
Job      == [kind : {"form", "review", "batch"}, command : Commands,
             unread : SUBSET Stories, todo : SUBSET Stories,
             versions : [Stories -> 0..MaxClock], texts : [Stories -> Text],
             revision : Nat, edit : 0..MaxEdits]

Absent == [status |-> "absent", text |-> {}, version |-> 0, owner |-> None]
UnderEditorialControl == {"pending_review", "approved", "scheduled", "published"}

(* ------------------------- what a user may do -------------------------- *)

ReviewCommands(status) ==
    CASE status = "pending_review" -> {"request_changes", "approve", "reject", "publish", "schedule"}
      [] status = "approved" -> {"publish", "schedule", "archive"}
      [] status = "scheduled" -> {"publish", "archive"}
      [] status \in {"published", "rejected"} -> {"archive"}
      [] OTHER -> {}

EditorCommands(s, status) ==
    CASE status = "pending_review" \/ (s \in Imports /\ status = "draft") ->
            {"save", "approve", "reject"}
      [] status = "approved" -> {"publish", "schedule", "archive"}
      [] status = "scheduled" -> {"publish", "schedule", "cancel_schedule", "archive"}
      [] status = "published" -> {"unpublish", "archive"}
      [] status = "rejected" -> {"send_back"}
      [] OTHER -> {}

AdminCommands(status) ==
    CASE status = "archived" -> {"delete"}
      [] status = "draft" -> {"save", "submit", "approve", "reject", "publish", "schedule", "delete"}
      [] status = "pending_review" -> {"save", "approve", "reject", "publish", "schedule", "delete"}
      [] status = "approved" -> {"save", "publish", "schedule", "archive", "delete"}
      [] status = "scheduled" ->
            {"save", "publish", "schedule", "cancel_schedule", "archive", "delete"}
      [] status = "published" -> {"save", "unpublish", "archive", "delete"}
      [] OTHER -> {"save", "send_back", "delete"}

\* getAllowedStoryCommands: what the pages offer and the service lets pass.
Allowed(p, s, row) ==
    IF p \in Writers
    THEN IF s \notin Reports /\ row.status = "draft" /\ row.owner = p
         THEN {"save", "submit"} ELSE {}
    ELSE IF s \in Reports THEN ReviewCommands(row.status)
    ELSE IF p \in Editors THEN EditorCommands(s, row.status)
    ELSE AdminCommands(row.status)

\* transition_story: the commands the database takes, whatever kind of story it is.
Permitted(p, s, row) ==
    CASE p \in Writers -> IF row.status = "draft" /\ row.owner = p THEN {"submit"} ELSE {}
      [] p \in Editors -> EditorCommands(s, row.status) \ {"save"}
      [] OTHER -> AdminCommands(row.status) \ {"save", "delete"}

(* ------------------------------ helpers -------------------------------- *)

Latest(s)  == Len(revisions[s])
Outcome(s) == revisions[s][Latest(s)].outcome
Tick       == clock < MaxClock /\ clock' = clock + 1
NewEdit    == edits < MaxEdits /\ edits' = edits + 1
NewCommand == sent < MaxCommands /\ sent' = sent + 1

Written(s, status, text) ==
    story' = [story EXCEPT ![s] =
                 [@ EXCEPT !.status = status, !.text = text, !.version = clock + 1]]

Submitted(s, outcome) ==
    revisions' = [revisions EXCEPT ![s] = Append(@,
        [text |-> story[s].text, outcome |-> outcome, shown |-> Latest(s) + 1])]

\* The latest revision gets an outcome from an editor who looked at revision "shown".
Reviewed(s, outcome, shown) ==
    revisions' = [revisions EXCEPT ![s][Latest(s)] =
                      [@ EXCEPT !.outcome = outcome, !.shown = shown]]

(* ------------------------------ reporters ------------------------------ *)

Init ==
    /\ story = [s \in Stories |-> IF s \in Imports THEN [Absent EXCEPT !.status = "draft"] ELSE Absent]
    /\ revisions = [s \in Reports |-> <<>>]
    /\ corrected = [s \in Reports |-> [revision |-> 0, text |-> {}]]
    /\ tabs = [s \in Reports |-> {{}}]
    /\ page = [p \in Staff |-> None]
    /\ job = [p \in Staff |-> None]
    /\ vetted = [s \in Stories |-> {}]
    /\ clock = 0 /\ edits = 0 /\ sent = 0

\* The editor is loaded over a draft; any number of pages may stay open, also while the
\* story is with the newsroom.  The page of a new story starts empty.
ReporterOpens(s) ==
    /\ s \in Reports /\ story[s].status = "draft"
    /\ tabs' = [tabs EXCEPT ![s] = @ \cup {story[s].text}]
    /\ UNCHANGED <<story, revisions, corrected, page, job, vetted, clock, edits, sent>>

\* save_reporter_story_draft: the text of any page, typed on or as a save that was long under
\* way carries it, takes the place of the row's; the first save creates the row.
ReporterSaves(s) ==
    /\ s \in Reports /\ story[s].status \in {"absent", "draft"}
    /\ Tick
    /\ \E text \in tabs[s] :
        \/ /\ text # {} /\ Written(s, "draft", text)
           /\ UNCHANGED <<tabs, edits>>
        \/ /\ NewEdit /\ Written(s, "draft", text \cup {edits + 1})
           /\ tabs' = [tabs EXCEPT ![s] = @ \cup {text \cup {edits + 1}}]
    /\ UNCHANGED <<revisions, corrected, page, job, vetted, sent>>

ReporterSubmits(s) ==
    /\ s \in Reports /\ story[s].status = "draft"
    /\ Tick
    /\ Submitted(s, "pending_review")
    /\ Written(s, "pending_review", story[s].text)
    /\ UNCHANGED <<corrected, tabs, page, job, vetted, edits, sent>>

\* direct_publish_reporter_story, for a reporter trusted with it.
ReporterPublishes(s) ==
    /\ s \in Reports /\ story[s].status = "draft"
    /\ Tick
    /\ Submitted(s, "direct_published")
    /\ Written(s, "published", story[s].text)
    /\ vetted' = [vetted EXCEPT ![s] = story[s].text]
    /\ UNCHANGED <<corrected, tabs, page, job, edits, sent>>

ReporterWithdraws(s) ==
    /\ s \in Reports
    /\ \/ story[s].status = "draft" /\ Submitted(s, "withdrawn")
       \/ story[s].status = "pending_review" /\ Reviewed(s, "withdrawn", Latest(s))
    /\ Tick
    /\ Written(s, "rejected", story[s].text)
    /\ UNCHANGED <<corrected, tabs, page, job, vetted, edits, sent>>

(* ------------------------------- the CMS ------------------------------- *)

CreateStory(p, s) ==
    /\ s \in Articles /\ story[s] = Absent
    /\ NewEdit /\ Tick
    /\ story' = [story EXCEPT ![s] = [status |-> "draft", text |-> {edits + 1},
                                      version |-> clock + 1, owner |-> p]]
    /\ UNCHANGED <<revisions, corrected, tabs, page, job, vetted, sent>>

\* A page that offers nothing is left out: it changes nothing.
OpenStory(p, s) ==
    /\ job[p] = None /\ story[s].status # "absent" /\ Allowed(p, s, story[s]) # {}
    /\ page' = [page EXCEPT ![p] =
            [story |-> s, row |-> story[s],
             revision |-> IF s \in Reports THEN Latest(s) ELSE 0]]
    /\ UNCHANGED <<story, revisions, corrected, tabs, job, vetted, clock, edits, sent>>

\* A command from the open page, which gives way to the answer.  The forms of CMS stories,
\* and of a correction, carry updated_at of the page; a review action carries the revision,
\* and no version.
NewJob(p, kind, command, edit) ==
    LET s == page[p].story IN
    /\ NewCommand
    /\ page' = [page EXCEPT ![p] = None]
    /\ job' = [job EXCEPT ![p] =
          [kind |-> kind, command |-> command, todo |-> {s},
           unread |-> IF command = "correct" THEN {} ELSE {s},
           versions |-> [x \in Stories |-> IF kind = "form" /\ x = s THEN page[p].row.version ELSE 0],
           texts |-> [x \in Stories |-> IF kind = "form" /\ x = s THEN page[p].row.text ELSE {}],
           revision |-> page[p].revision, edit |-> edit]]

SendSave(p) ==
    /\ job[p] = None /\ page[p] # None
    /\ \/ "save" \in Allowed(p, page[p].story, page[p].row) /\ NewJob(p, "form", "save", edits + 1)
       \/ /\ page[p].story \in Reports /\ page[p].row.status \in UnderEditorialControl
          /\ NewJob(p, "form", "correct", edits + 1)
    /\ NewEdit
    /\ UNCHANGED <<story, revisions, corrected, tabs, vetted, clock>>

SendCommand(p) ==
    /\ job[p] = None /\ page[p] # None
    /\ \E c \in Allowed(p, page[p].story, page[p].row) \ {"save"} :
           NewJob(p, IF page[p].story \in Reports THEN "review" ELSE "form", c, 0)
    /\ UNCHANGED <<story, revisions, corrected, tabs, vetted, clock, edits>>

\* bulkStoryAction, from the list of stories (a writer's batch is refused at its first story).
SendBatch(p, chosen, command) ==
    /\ p \notin Writers /\ job[p] = None /\ chosen # {}
    /\ NewCommand
    /\ page' = [page EXCEPT ![p] = None]
    /\ job' = [job EXCEPT ![p] =
            [kind |-> "batch", command |-> command, todo |-> chosen, unread |-> chosen,
             versions |-> [x \in Stories |-> 0], texts |-> [x \in Stories |-> {}],
             revision |-> 0, edit |-> 0]]
    /\ UNCHANGED <<story, revisions, corrected, tabs, vetted, clock, edits>>

\* Mutant: a form goes on with the version read here, too.
ReadStoryAfresh(p, s) ==
    /\ job[p] # None /\ s \in job[p].unread
    /\ job' = [job EXCEPT ![p] =
            IF job[p].command \notin Allowed(p, s, story[s]) THEN None
            ELSE [job[p] EXCEPT !.unread = @ \ {s}, !.versions[s] = story[s].version]]
    /\ UNCHANGED <<story, revisions, corrected, tabs, page, vetted, clock, edits, sent>>

\* getCmsStoryById and the check.  A form keeps the version of its page; a review action and
\* a batch go on with the version read here.
ReadStory(p, s) ==
    /\ job[p] # None /\ s \in job[p].unread
    /\ job' = [job EXCEPT ![p] =
            IF job[p].command \notin Allowed(p, s, story[s]) THEN None
            ELSE IF job[p].kind = "form" THEN [job[p] EXCEPT !.unread = @ \ {s}]
            ELSE [job[p] EXCEPT !.unread = @ \ {s}, !.versions[s] = story[s].version,
                                !.texts[s] = story[s].text]]
    /\ UNCHANGED <<story, revisions, corrected, tabs, page, vetted, clock, edits, sent>>

(* ----------------------- the database's decision ----------------------- *)

\* Mutant: the version is not compared.
Exists(s, j) == story[s].status # "absent"

\* The row is still the one the command is about.
Current(s, j) == story[s].status # "absent" /\ story[s].version = j.versions[s]

\* request_reporter_changes, correct_reporter_story: the revision is still the latest.
RevisionCurrent(s, j) == s \in Reports /\ j.revision = Latest(s)

Accepts(p, s, j) ==
    CASE j.command = "delete" -> TRUE
      [] j.command = "save" -> Current(s, j)
      [] j.command = "correct" ->
            Current(s, j) /\ story[s].status \in UnderEditorialControl /\ RevisionCurrent(s, j)
      [] j.command = "request_changes" ->
            /\ story[s].status = "pending_review" /\ RevisionCurrent(s, j)
            /\ Outcome(s) = "pending_review"
      [] OTHER -> Current(s, j) /\ j.command \in Permitted(p, s, story[s])

\* Mutant: archiving a story rejects its revision, a published one too.
OutcomeAfterArchive(s, status) == IF status = "archived" THEN "rejected" ELSE status

\* synchronize_reporter_story_evidence: the outcome of the latest revision after a transition.
OutcomeAfter(s, status) ==
    IF status # "archived" THEN status
    ELSE IF Outcome(s) \in {"direct_published", "published", "rejected", "withdrawn"} THEN Outcome(s)
    ELSE "rejected"

Transition(s, j) ==
    LET status == Target[j.command] IN
    /\ Written(s, status, story[s].text)
    /\ vetted' = IF j.command \in {"approve", "publish", "schedule"}
                 THEN [vetted EXCEPT ![s] = j.texts[s]] ELSE vetted
    /\ IF s \in Reports
       THEN Reviewed(s, OutcomeAfter(s, status), IF j.kind = "batch" THEN Latest(s) ELSE j.revision)
       ELSE UNCHANGED revisions
    /\ UNCHANGED corrected

\* Mutant: a correction leaves no record of itself.
SaveUnrecorded(s, j) ==
    LET text == j.texts[s] \cup {j.edit} IN
    /\ Written(s, story[s].status, text)
    /\ vetted' = [vetted EXCEPT ![s] = text]
    /\ UNCHANGED <<corrected, revisions>>

Save(s, j) ==
    LET text == j.texts[s] \cup {j.edit} IN
    /\ Written(s, story[s].status, text)
    /\ vetted' = [vetted EXCEPT ![s] = text]
    /\ corrected' = IF j.command = "correct"
                    THEN [corrected EXCEPT ![s] = [revision |-> j.revision, text |-> text]]
                    ELSE corrected
    /\ UNCHANGED revisions

RequestChanges(s, j) ==
    /\ Written(s, "draft", story[s].text)
    /\ Reviewed(s, "changes_requested", j.revision)
    /\ UNCHANGED <<corrected, vetted>>

Delete(s) ==
    /\ story' = [story EXCEPT ![s] = Absent]
    /\ UNCHANGED <<revisions, corrected, vetted>>

\* One story of the job is changed; a batch goes on with the next.
Commit(p, s) ==
    LET j == job[p] IN
    /\ j # None /\ j.unread = {} /\ s \in j.todo
    /\ Accepts(p, s, j)
    /\ Tick
    /\ CASE j.command = "delete" -> Delete(s)
         [] j.command \in {"save", "correct"} -> Save(s, j)
         [] j.command = "request_changes" -> RequestChanges(s, j)
         [] OTHER -> Transition(s, j)
    /\ job' = [job EXCEPT ![p] = IF j.todo = {s} THEN None ELSE [j EXCEPT !.todo = @ \ {s}]]
    /\ UNCHANGED <<tabs, page, edits, sent>>

\* CONFLICT or INVALID_TRANSITION, and a call that fails: the job stops where it is.
GiveUp(p) ==
    /\ job[p] # None
    /\ job' = [job EXCEPT ![p] = None]
    /\ UNCHANGED <<story, revisions, corrected, tabs, page, vetted, clock, edits, sent>>

Next ==
    \/ \E s \in Stories :
        \/ ReporterOpens(s) \/ ReporterSaves(s) \/ ReporterSubmits(s)
        \/ ReporterPublishes(s) \/ ReporterWithdraws(s)
        \/ \E p \in Staff : CreateStory(p, s) \/ OpenStory(p, s) \/ ReadStory(p, s) \/ Commit(p, s)
    \/ \E p \in Staff :
        \/ SendSave(p) \/ SendCommand(p) \/ GiveUp(p)
        \/ \E chosen \in SUBSET Stories, c \in {"publish", "archive", "delete"} :
               SendBatch(p, chosen, c)

Spec == Init /\ [][Next]_vars

(* ------------------------------ properties ----------------------------- *)

TypeOK ==
    /\ story \in [Stories -> Row]
    /\ revisions \in [Reports -> Seq(Revision)]
    /\ corrected \in [Reports -> [revision : Nat, text : Text]]
    /\ tabs \in [Reports -> SUBSET Text]
    /\ page \in [Staff -> Page \cup {None}]
    /\ job \in [Staff -> Job \cup {None}]
    /\ vetted \in [Stories -> Text]
    /\ clock \in 0..MaxClock /\ edits \in 0..MaxEdits /\ sent \in 0..MaxCommands

OutcomesOf(status) ==
    CASE status \in {"pending_review", "approved", "scheduled"} -> {status}
      [] status = "draft" -> {"changes_requested"}
      [] status = "published" -> {"published", "direct_published"}
      [] status = "rejected" -> {"rejected", "withdrawn"}
      [] OTHER -> {"published", "direct_published", "rejected"}

StandingText(s) ==
    IF corrected[s].revision = Latest(s) THEN corrected[s].text ELSE revisions[s][Latest(s)].text

\* The newsroom's evidence and the story agree: only the latest revision of a reporter story
\* is open or decided, with an outcome that fits the story's status, all before it were sent
\* back for changes; and once the story has left the reporter's hands its text is the
\* submitted revision or a correction recorded for that very revision, never one of an
\* earlier revision (synchronize_reporter_story_evidence, correct_reporter_story).
EvidenceAgrees ==
    \A s \in Reports :
        LET n == Latest(s) IN
        /\ n = 0 => story[s].status \in {"absent", "draft"}
        /\ n > 0 => Outcome(s) \in OutcomesOf(story[s].status)
        /\ \A k \in 1..n - 1 : revisions[s][k].outcome = "changes_requested"
        /\ n > 0 /\ story[s].status # "draft" => story[s].text = StandingText(s)

\* What is approved, scheduled or public is exactly the text that stood on the page, or was
\* read by the service, when the last decision for publication (or save, or correction) was
\* taken: nobody's edit slips in between an editor's reading and the decision.
DecidedAsRead ==
    \A s \in Stories :
        story[s].status \in {"approved", "scheduled", "published"} => story[s].text = vetted[s]

\* A reporter's own draft: the only text that is written without comparing versions.
WithReporter(s) == s \in Reports /\ story[s].status \in {"absent", "draft"}

\* An edit that is in a story stays in it until the story is deleted, whoever saves, corrects,
\* submits, sends back or decides: no form of the CMS overwrites work its author has not seen
\* (updateCmsStoryIfCurrent, p_expected_updated_at), and no page of the reporter, however
\* old, reaches a story the newsroom has.  Only while a story is and stays the reporter's
\* draft may a save drop edits, an editor's correction among them
\* (save_reporter_story_draft compares no version).
NoWorkIsLost ==
    [][\A s \in Stories : \/ story'[s] = Absent
                          \/ story[s].text \subseteq story'[s].text
                          \/ WithReporter(s) /\ WithReporter(s)']_vars

Follows(before, after) ==
    \/ after = before \/ before = "pending_review"
    \/ before = "approved" /\ after \in {"scheduled", "published", "rejected"}
    \/ before = "scheduled" /\ after \in {"published", "rejected"}

\* A submitted revision is never rewritten, renumbered or removed, and its outcome only moves
\* forward: what was published, rejected, withdrawn or sent back stays that
\* (protect_story_revision_immutability; archiving keeps the outcome of a published story).
EvidenceIsImmutable ==
    [][\A s \in Reports :
          /\ Latest(s) <= Len(revisions'[s])
          /\ \A k \in 1..Latest(s) :
                /\ revisions'[s][k].text = revisions[s][k].text
                /\ Follows(revisions[s][k].outcome, revisions'[s][k].outcome)]_vars

\* "Actions apply to revision #n" (reporter-revision-panel.tsx:227): the revision that gets an
\* outcome is the one on the page of the editor who gave it.
ActionsApplyToTheRevisionShown ==
    \A s \in Reports : \A k \in 1..Latest(s) : revisions[s][k].shown = k
=============================================================================
