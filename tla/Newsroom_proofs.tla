---------------------------- MODULE Newsroom_proofs ----------------------------
(***************************************************************************)
(* Proofs about Newsroom, for any staff, stories and number of steps.      *)
(*                                                                         *)
(* Versions name texts: whoever holds a version that is still the story's  *)
(* holds the story's text (Knows), since every write takes a version that  *)
(* nobody can hold yet.  So what is compared with the version is compared  *)
(* with the text, and a decision is about what was read.  For a reporter's *)
(* story the version also vouches for the status the decision was allowed  *)
(* in (OfReports), which is what keeps revisions and story in agreement.   *)
(***************************************************************************)
EXTENDS Newsroom, TLAPS

-----------------------------------------------------------------------------
(* Types.                                                                   *)

LEMMA Bounds == MaxClock \in Nat /\ MaxEdits \in Nat /\ MaxCommands \in Nat
  BY BoundsAreNatural

LEMMA AbsentType == Absent \in Row /\ Absent.version = 0 /\ Absent.text = {} /\ Absent.status = "absent"
  BY Bounds DEF Absent, Row, Statuses, Text

\* A write replaces one row, under the next version.
LEMMA WrittenRow ==
    ASSUME story \in [Stories -> Row], NEW s \in Stories, NEW status \in Statuses, NEW text \in Text,
           clock \in 0..MaxClock, Tick, Written(s, status, text)
    PROVE  /\ story' \in [Stories -> Row]
           /\ clock' = clock + 1 /\ clock' \in 0..MaxClock
           /\ story'[s].status = status /\ story'[s].text = text /\ story'[s].version = clock + 1
           /\ \A x \in Stories \ {s} : story'[x] = story[x]
<1>1. clock + 1 \in 0..MaxClock /\ clock' = clock + 1
  BY Bounds DEF Tick
<1> DEFINE row == [story[s] EXCEPT !.status = status, !.text = text, !.version = clock + 1]
<1>2. row \in Row /\ row.status = status /\ row.text = text /\ row.version = clock + 1
  BY <1>1 DEF Row
<1>3. story' = [story EXCEPT ![s] = row]
  BY DEF Written
<1> HIDE DEF row
<1>4. story' \in [Stories -> Row] /\ story'[s] = row /\ \A x \in Stories \ {s} : story'[x] = story[x]
  BY <1>2, <1>3
<1> QED
  BY <1>1, <1>2, <1>4

\* A revision is added behind the others.
LEMMA SubmittedRow ==
    ASSUME revisions \in [Reports -> Seq(Revision)], NEW s \in Reports, story[s].text \in Text,
           NEW outcome \in Outcomes, Submitted(s, outcome)
    PROVE  /\ revisions' \in [Reports -> Seq(Revision)]
           /\ Len(revisions'[s]) = Latest(s) + 1
           /\ revisions'[s][Latest(s) + 1].outcome = outcome
           /\ revisions'[s][Latest(s) + 1].text = story[s].text
           /\ \A k \in 1..Latest(s) : revisions'[s][k] = revisions[s][k]
           /\ \A x \in Reports \ {s} : revisions'[x] = revisions[x]
<1> DEFINE row == [text |-> story[s].text, outcome |-> outcome, shown |-> Latest(s) + 1]
<1>1. revisions[s] \in Seq(Revision) /\ Latest(s) \in Nat
  BY DEF Latest
<1>2. row \in Revision /\ row.outcome = outcome /\ row.text = story[s].text
  BY <1>1 DEF Revision
<1>3. revisions' = [revisions EXCEPT ![s] = Append(revisions[s], row)]
  BY DEF Submitted
<1> HIDE DEF row
<1>4. /\ revisions'[s] = Append(revisions[s], row) /\ revisions' \in [Reports -> Seq(Revision)]
      /\ \A x \in Reports \ {s} : revisions'[x] = revisions[x]
  BY <1>1, <1>2, <1>3
<1> QED
  BY <1>1, <1>2, <1>4 DEF Latest

\* The latest revision gets an outcome; its text and the others stay.
LEMMA ReviewedRow ==
    ASSUME revisions \in [Reports -> Seq(Revision)], NEW s \in Reports, Latest(s) > 0,
           NEW outcome \in Outcomes, NEW shown \in Nat, Reviewed(s, outcome, shown)
    PROVE  /\ revisions' \in [Reports -> Seq(Revision)]
           /\ Len(revisions'[s]) = Latest(s)
           /\ revisions'[s][Latest(s)].outcome = outcome
           /\ revisions'[s][Latest(s)].text = revisions[s][Latest(s)].text
           /\ \A k \in 1..Latest(s) - 1 : revisions'[s][k] = revisions[s][k]
           /\ \A x \in Reports \ {s} : revisions'[x] = revisions[x]
<1> DEFINE n == Latest(s)
           old == revisions[s][n]
           row == [old EXCEPT !.outcome = outcome, !.shown = shown]
<1>1. revisions[s] \in Seq(Revision) /\ n \in DOMAIN revisions[s] /\ n \in Nat
  BY DEF Latest
<1>2. old \in Revision
  BY <1>1
<1>3. row \in Revision /\ row.outcome = outcome /\ row.text = old.text
  BY <1>2 DEF Revision
<1>4. revisions' = [revisions EXCEPT ![s] = [revisions[s] EXCEPT ![n] = row]]
  BY DEF Reviewed
<1> HIDE DEF row, old, n
<1>5. [revisions[s] EXCEPT ![n] = row] \in Seq(Revision)
  BY <1>1, <1>3
<1>6. /\ revisions'[s] = [revisions[s] EXCEPT ![n] = row] /\ revisions' \in [Reports -> Seq(Revision)]
      /\ \A x \in Reports \ {s} : revisions'[x] = revisions[x]
  BY <1>4, <1>5
<1>7. Len(revisions'[s]) = Len(revisions[s]) /\ revisions'[s][n] = row
      /\ \A k \in 1..n - 1 : revisions'[s][k] = revisions[s][k]
  BY <1>1, <1>6
<1> QED
  BY <1>3, <1>6, <1>7 DEF n, old, Latest

\* The statuses transitions lead to.
LEMMA Targets ==
    /\ Transitions = {"submit", "approve", "reject", "send_back", "publish", "schedule",
                      "cancel_schedule", "unpublish", "archive"}
    /\ \A c \in Transitions : Target[c] \in Statuses
    /\ Target["approve"] = "approved" /\ Target["reject"] = "rejected"
    /\ Target["publish"] = "published" /\ Target["schedule"] = "scheduled"
    /\ Target["cancel_schedule"] = "approved" /\ Target["unpublish"] = "approved"
    /\ Target["archive"] = "archived" /\ Target["send_back"] = "draft"
    /\ Target["submit"] = "pending_review"
  BY DEF Transitions, Target, Statuses

\* What the pages offer are commands, and for a reporter's story only the newsroom's.
Reviewing == {"request_changes", "approve", "reject", "publish", "schedule", "archive"}

LEMMA AllowedCommands ==
    ASSUME NEW p, NEW s, NEW row
    PROVE  /\ Allowed(p, s, row) \subseteq Commands \ {"correct"}
           /\ ReviewCommands(row.status) \subseteq Reviewing
           /\ s \in Reports => Allowed(p, s, row) \subseteq ReviewCommands(row.status)
<1>1. Commands = {"submit", "approve", "reject", "send_back", "publish", "schedule",
                  "cancel_schedule", "unpublish", "archive", "save", "delete",
                  "request_changes", "correct"}
  BY Targets DEF Commands
<1>2. ReviewCommands(row.status) \subseteq Reviewing
  BY DEF ReviewCommands, Reviewing
<1>3. EditorCommands(s, row.status) \subseteq Commands \ {"correct"}
  BY <1>1 DEF EditorCommands
<1>4. AdminCommands(row.status) \subseteq Commands \ {"correct"}
  BY <1>1 DEF AdminCommands
<1>5. CASE p \in Writers
  BY <1>1, <1>2, <1>5 DEF Allowed
<1>6. CASE p \notin Writers /\ s \in Reports
  BY <1>1, <1>2, <1>6 DEF Allowed, Reviewing
<1>7. CASE p \notin Writers /\ s \notin Reports
  <2>1. Allowed(p, s, row) \in {EditorCommands(s, row.status), AdminCommands(row.status)}
    BY <1>7 DEF Allowed
  <2> QED
    BY <1>2, <1>3, <1>4, <1>7, <2>1
<1> QED
  BY <1>5, <1>6, <1>7

-----------------------------------------------------------------------------
(* What the pages and the jobs know.                                        *)

\* Whoever holds version v and text t of a story knows the story as long as v is current.
Knows(v, t, s) ==
    /\ v <= clock
    /\ v = 0 => t = {}
    /\ v = story[s].version => t = story[s].text

Rows  == \A s \in Stories : Knows(story[s].version, story[s].text, s)
Pages == \A p \in Staff : page[p] # None => Knows(page[p].row.version, page[p].row.text, page[p].story)
JobsKnow ==
    \A p \in Staff : job[p] # None =>
        \A s \in Stories : Knows(job[p].versions[s], job[p].texts[s], s)

\* A text is written by an edit, and what is done to a reporter's story was allowed for it.
JobsAllowed ==
    \A p \in Staff : job[p] # None =>
        /\ job[p].command \in {"save", "correct"} => job[p].edit \in 1..MaxEdits
        /\ job[p].kind = "form" /\ job[p].command # "correct" => job[p].todo \cap Reports = {}
        /\ \A s \in Reports : s \in job[p].todo \ job[p].unread => job[p].command \in Reviewing \cup {"correct"}

\* The version a review goes on with vouches for the status it was allowed in.
OfReports ==
    \A p \in Staff : job[p] # None =>
        \A s \in Reports : s \in job[p].todo \ job[p].unread /\ job[p].command # "correct" =>
            (job[p].versions[s] = story[s].version => job[p].command \in ReviewCommands(story[s].status))

Knowledge == Rows /\ Pages /\ JobsKnow
NewsInv == TypeOK /\ Knowledge /\ JobsAllowed /\ OfReports

\* How one step may change a story.
Moved(s) ==
    \/ story'[s] = story[s]
    \/ story'[s] = Absent
    \/ story'[s].version = clock + 1

\* Knowledge survives the change: a written story has a version nobody holds yet.
LEMMA KnowsStays ==
    ASSUME NEW s \in Stories, NEW v \in Nat, NEW t, clock \in Nat, clock' \in {clock, clock + 1},
           Moved(s), Knows(v, t, s)
    PROVE  v <= clock' /\ (v = 0 => t = {}) /\ (v = story'[s].version => t = story'[s].text)
<1>1. v <= clock /\ (v = 0 => t = {}) /\ (v = story[s].version => t = story[s].text)
  BY DEF Knows
<1>2. v <= clock' /\ v # clock + 1
  BY <1>1
<1>3. CASE story'[s] = Absent
  BY <1>1, <1>2, <1>3, AbsentType
<1> QED
  BY <1>1, <1>2, <1>3 DEF Moved

\* One text, many edits.
LEMMA TextGrows ==
    ASSUME NEW text \in Text, NEW edit \in 1..MaxEdits
    PROVE  text \cup {edit} \in Text
  BY DEF Text

LEMMA HolderTypes ==
    ASSUME TypeOK
    PROVE  /\ clock \in Nat
           /\ \A s \in Stories : story[s] \in Row /\ story[s].version \in Nat
           /\ \A p \in Staff : page[p] # None =>
                 /\ page[p] \in Page /\ page[p].row \in Row /\ page[p].row.version \in Nat
                 /\ page[p].story \in Stories /\ page[p].row.text \in Text
                 /\ page[p].row.version \in 0..MaxClock
           /\ \A p \in Staff : job[p] # None =>
                 /\ job[p] \in Job
                 /\ \A s \in Stories : job[p].versions[s] \in Nat /\ job[p].texts[s] \in Text
<1>1. clock \in Nat /\ \A v \in 0..MaxClock : v \in Nat
  BY Bounds DEF TypeOK
<1>2. \A s \in Stories : story[s] \in Row /\ story[s].version \in Nat
  BY <1>1 DEF TypeOK, Row
<1>3. ASSUME NEW p \in Staff, page[p] # None
      PROVE  /\ page[p] \in Page /\ page[p].row \in Row /\ page[p].row.version \in Nat
             /\ page[p].story \in Stories /\ page[p].row.text \in Text
             /\ page[p].row.version \in 0..MaxClock
  <2>1. page[p] \in Page
    BY <1>3 DEF TypeOK
  <2>2. page[p].row \in Row /\ page[p].story \in Stories
    BY <2>1 DEF Page
  <2> QED
    BY <1>1, <2>1, <2>2 DEF Row
<1>4. ASSUME NEW p \in Staff, job[p] # None
      PROVE  /\ job[p] \in Job
             /\ \A s \in Stories : job[p].versions[s] \in Nat /\ job[p].texts[s] \in Text
  <2>1. job[p] \in Job
    BY <1>4 DEF TypeOK
  <2> QED
    BY <1>1, <2>1 DEF Job
<1> QED
  BY <1>1, <1>2, <1>3, <1>4

\* A step that only writes stories leaves pages and jobs with what they know.
LEMMA KnowledgeStays ==
    ASSUME NewsInv, TypeOK', clock' \in {clock, clock + 1}, \A s \in Stories : Moved(s),
           \A p \in Staff : page'[p] \in {page[p], None},
           \A p \in Staff : job'[p] # None => /\ job[p] # None
                                              /\ job'[p].versions = job[p].versions
                                              /\ job'[p].texts = job[p].texts,
           \A s \in Stories : Knows(story[s].version, story[s].text, s)'
    PROVE  Knowledge'
<1>1. clock \in Nat /\ Knowledge
  BY HolderTypes DEF NewsInv
<1>2. Rows'
  BY DEF Rows
<1>3. ASSUME NEW p \in Staff, page'[p] # None
      PROVE  Knows(page[p].row.version, page[p].row.text, page[p].story)'
  <2>1. /\ page'[p] = page[p] /\ page[p].row.version \in Nat /\ page[p].story \in Stories
        /\ Knows(page[p].row.version, page[p].row.text, page[p].story)
    BY <1>1, <1>3, HolderTypes DEF NewsInv, Knowledge, Pages
  <2> DEFINE v == page[p].row.version
             t == page[p].row.text
             s == page[p].story
  <2> HIDE DEF v, t, s
  <2>2. v <= clock' /\ (v = 0 => t = {}) /\ (v = story'[s].version => t = story'[s].text)
    BY <1>1, <2>1, KnowsStays DEF v, t, s
  <2> QED
    BY <2>1, <2>2 DEF Knows, v, t, s
<1>4. ASSUME NEW p \in Staff, job'[p] # None, NEW s \in Stories
      PROVE  Knows(job[p].versions[s], job[p].texts[s], s)'
  <2>1. /\ job'[p].versions[s] = job[p].versions[s] /\ job'[p].texts[s] = job[p].texts[s]
        /\ job[p].versions[s] \in Nat /\ Knows(job[p].versions[s], job[p].texts[s], s)
    BY <1>1, <1>4, HolderTypes DEF NewsInv, Knowledge, JobsKnow
  <2> DEFINE v == job[p].versions[s]
             t == job[p].texts[s]
  <2> HIDE DEF v, t
  <2>2. v <= clock' /\ (v = 0 => t = {}) /\ (v = story'[s].version => t = story'[s].text)
    BY <1>1, <2>1, KnowsStays DEF v, t
  <2> QED
    BY <2>1, <2>2 DEF Knows, v, t
<1> QED
  BY <1>2, <1>3, <1>4 DEF Knowledge, Pages, JobsKnow

-----------------------------------------------------------------------------
(* Writing a story.                                                         *)

\* A story's evidence, with what makes it inductive: a correction belongs to a revision
\* there is, and a story without a row has no revisions.
Agrees(s) ==
    LET n == Latest(s) IN
    /\ n = 0 => story[s].status \in {"absent", "draft"}
    /\ n > 0 => Outcome(s) \in OutcomesOf(story[s].status) /\ story[s].status # "absent"
    /\ \A k \in 1..n - 1 : revisions[s][k].outcome = "changes_requested"
    /\ n > 0 /\ story[s].status # "draft" => story[s].text = StandingText(s)
    /\ corrected[s].revision <= n

Evidence == \A s \in Reports : Agrees(s)

\* All that a write needs to know, and all that it keeps but for the evidence of its story.
RowWritten(s) ==
    /\ story' \in [Stories -> Row] /\ clock' \in 0..MaxClock
    /\ clock' = clock + 1
    /\ \A x \in Stories \ {s} : story'[x] = story[x]
    /\ story'[s].version = clock + 1 \/ (s \notin Reports /\ story'[s] = Absent)

\* Jobs are left alone, ended or shortened.
JobsShrink ==
    /\ job' \in [Staff -> Job \cup {None}]
    /\ \A p \in Staff : job'[p] # None =>
          /\ job[p] # None
          /\ job'[p].versions = job[p].versions /\ job'[p].texts = job[p].texts
          /\ job'[p].command = job[p].command /\ job'[p].kind = job[p].kind
          /\ job'[p].edit = job[p].edit /\ job'[p].unread = job[p].unread
          /\ job'[p].todo \subseteq job[p].todo

LEMMA WriteKeeps ==
    ASSUME NewsInv, TypeOK', NEW s \in Stories, RowWritten(s), JobsShrink, UNCHANGED page
    PROVE  NewsInv'
<1>1. \A x \in Stories : Moved(x)
  BY DEF RowWritten, Moved
<1>2. clock \in Nat /\ clock' = clock + 1 /\ \A x \in Stories : story[x].version \in Nat
  BY HolderTypes DEF NewsInv, RowWritten
<1>3. ASSUME NEW x \in Stories
      PROVE  Knows(story[x].version, story[x].text, x)'
  <2>1. Knows(story[x].version, story[x].text, x)
    BY DEF NewsInv, Knowledge, Rows
  <2>2. story'[x] = story[x] \/ story'[x].version = clock + 1 \/ story'[x] = Absent
    BY <1>1 DEF Moved
  <2>3. story'[x].version <= clock' /\ (story'[x].version = 0 => story'[x].text = {})
    BY <1>2, <2>1, <2>2, AbsentType DEF Knows
  <2> QED
    BY <2>3 DEF Knows
<1>4. Knowledge'
  <2>1. \A p \in Staff : page'[p] \in {page[p], None}
    OBVIOUS
  <2> QED
    BY <1>1, <1>2, <1>3, <2>1, KnowledgeStays DEF JobsShrink
<1>5. JobsAllowed'
  BY DEF JobsShrink, NewsInv, JobsAllowed
<1>6. OfReports'
  <2> SUFFICES ASSUME NEW p \in Staff, job'[p] # None, NEW x \in Reports,
                      x \in job'[p].todo \ job'[p].unread, job'[p].command # "correct",
                      job'[p].versions[x] = story'[x].version
               PROVE  job'[p].command \in ReviewCommands(story'[x].status)
    BY DEF OfReports
  <2>1. /\ job[p] # None /\ x \in job[p].todo \ job[p].unread /\ job[p].command # "correct"
        /\ job'[p].command = job[p].command /\ job'[p].versions[x] = job[p].versions[x]
    BY DEF JobsShrink
  <2>2. x \in Stories /\ job[p].versions[x] \in Nat /\ job[p].versions[x] <= clock
    BY <2>1, HolderTypes DEF NewsInv, Knowledge, JobsKnow, Knows, Stories
  <2>3. story'[x].version # clock + 1
    BY <1>2, <2>1, <2>2
  <2>4. x # s
    BY <2>3 DEF RowWritten
  <2>5. story'[x] = story[x]
    BY <2>2, <2>4 DEF RowWritten
  <2> QED
    BY <2>1, <2>5 DEF NewsInv, OfReports
<1> QED
  BY <1>4, <1>5, <1>6 DEF NewsInv

\* Nothing changes for a story whose row, revisions and correction stay.
LEMMA AgreesStays ==
    ASSUME NEW s \in Reports, Agrees(s), story'[s] = story[s], revisions'[s] = revisions[s],
           corrected'[s] = corrected[s]
    PROVE  Agrees(s)'
  BY DEF Agrees, Latest, Outcome, StandingText, OutcomesOf

\* What every step promises about the work and the evidence of the newsroom.
KeepsText(s) ==
    \/ story'[s] = Absent
    \/ story[s].text \subseteq story'[s].text
    \/ WithReporter(s) /\ WithReporter(s)'
WorkKept == \A s \in Stories : KeepsText(s)
EvidenceKept ==
    \A s \in Reports :
        /\ Latest(s) <= Len(revisions'[s])
        /\ \A k \in 1..Latest(s) :
              /\ revisions'[s][k].text = revisions[s][k].text
              /\ Follows(revisions[s][k].outcome, revisions'[s][k].outcome)

Full == NewsInv /\ Evidence /\ DecidedAsRead
Good == Full' /\ WorkKept /\ EvidenceKept

\* A story's evidence when its text and revisions stay.
RevisionsKept(s) ==
    /\ Latest(s) <= Len(revisions'[s])
    /\ \A k \in 1..Latest(s) :
          /\ revisions'[s][k].text = revisions[s][k].text
          /\ Follows(revisions[s][k].outcome, revisions'[s][k].outcome)

LEMMA WriteIsGood ==
    ASSUME Full, TypeOK', NEW s \in Stories, RowWritten(s), JobsShrink, UNCHANGED page,
           s \in Reports => Agrees(s)' /\ RevisionsKept(s),
           \A x \in Reports \ {s} : revisions'[x] = revisions[x] /\ corrected'[x] = corrected[x],
           \A x \in Stories \ {s} : vetted'[x] = vetted[x],
           KeepsText(s),
           story'[s].status \in {"approved", "scheduled", "published"} => story'[s].text = vetted'[s]
    PROVE  Good
<1>1. NewsInv'
  BY WriteKeeps DEF Full
<1>2. \A x \in Stories \ {s} : story'[x] = story[x]
  BY DEF RowWritten
<1>3. Evidence'
  BY <1>2, AgreesStays DEF Full, Evidence, Stories
<1>4. DecidedAsRead'
  BY <1>2 DEF Full, DecidedAsRead
<1>5. WorkKept
  BY <1>2 DEF WorkKept, KeepsText
<1>6. EvidenceKept
  <2>1. \A x \in Reports \ {s} : RevisionsKept(x)
    <3>1. \A x \in Reports : revisions[x] \in Seq(Revision)
      BY DEF Full, NewsInv, TypeOK
    <3>2. \A x \in Reports : Latest(x) \in Nat /\ Latest(x) = Len(revisions[x])
      BY <3>1 DEF Latest
    <3> QED
      BY <3>2 DEF RevisionsKept, Follows
  <2> QED
    BY <2>1 DEF EvidenceKept, RevisionsKept
<1> QED
  BY <1>1, <1>3, <1>4, <1>5, <1>6 DEF Good, Full

-----------------------------------------------------------------------------
(* The reporter's steps.                                                    *)

\* What Full says, by part.
LEMMA FullParts ==
    ASSUME Full
    PROVE  /\ TypeOK /\ NewsInv /\ Evidence /\ DecidedAsRead
           /\ clock \in 0..MaxClock /\ story \in [Stories -> Row]
           /\ revisions \in [Reports -> Seq(Revision)]
           /\ \A s \in Stories : story[s].text \in Text /\ story[s].status \in Statuses
           /\ \A s \in Reports : /\ s \in Stories /\ Agrees(s) /\ Latest(s) \in Nat
                                 /\ revisions[s] \in Seq(Revision)
                                 /\ corrected[s].revision \in Nat
<1>1. TypeOK /\ NewsInv /\ Evidence /\ DecidedAsRead
  BY DEF Full, NewsInv
<1>2. \A s \in Stories : story[s] \in Row
  BY <1>1 DEF TypeOK
<1>3. \A s \in Reports : revisions[s] \in Seq(Revision) /\ Latest(s) \in Nat
  BY <1>1 DEF TypeOK, Latest
<1>4. \A s \in Reports : s \in Stories /\ corrected[s].revision \in Nat
  BY <1>1 DEF TypeOK, Stories
<1> QED
  BY <1>1, <1>2, <1>3, <1>4 DEF TypeOK, Row, Evidence

\* A write by somebody who has no job.
LEMMA JobsStay ==
    ASSUME TypeOK, UNCHANGED job
    PROVE  JobsShrink
  BY DEF TypeOK, JobsShrink

\* The page the text of a draft comes from may be old: only the text of a draft is replaced.
LEMMA DraftReplaced ==
    ASSUME Full, NEW s \in Reports, story[s].status \in {"absent", "draft"}, NEW text \in Text,
           Tick, Written(s, "draft", text), edits' \in 0..MaxEdits,
           tabs' \in [Reports -> SUBSET Text],
           UNCHANGED <<revisions, corrected, page, job, vetted, sent>>
    PROVE  Good
<1>1. s \in Stories /\ TypeOK
  BY FullParts
<1>2. /\ story' \in [Stories -> Row] /\ clock' = clock + 1 /\ clock' \in 0..MaxClock
      /\ story'[s].status = "draft" /\ story'[s].text = text /\ story'[s].version = clock + 1
      /\ \A x \in Stories \ {s} : story'[x] = story[x]
  <2>1. "draft" \in Statuses
    BY DEF Statuses
  <2> QED
    BY <1>1, <2>1, WrittenRow, FullParts
<1>3. TypeOK'
  BY <1>1, <1>2 DEF TypeOK
<1>4. RowWritten(s)
  BY <1>2 DEF RowWritten
<1>5. Agrees(s)'
  <2>1. Agrees(s) /\ revisions'[s] = revisions[s] /\ corrected'[s] = corrected[s]
    BY FullParts
  <2>2. Latest(s) > 0 => Outcome(s) \in OutcomesOf("draft")
    BY <2>1 DEF Agrees, OutcomesOf
  <2> QED
    BY <1>2, <2>1, <2>2 DEF Agrees, Latest, Outcome
<1>6. RevisionsKept(s)
  BY FullParts DEF RevisionsKept, Follows, Latest
<1>7. JobsShrink
  BY <1>1, JobsStay
<1>8. KeepsText(s)
  BY <1>2 DEF KeepsText, WithReporter
<1> QED
  BY <1>1, <1>2, <1>3, <1>4, <1>5, <1>6, <1>7, <1>8, WriteIsGood

LEMMA ReporterSavesGood ==
    ASSUME Full, NEW s \in Stories, ReporterSaves(s)
    PROVE  Good
<1>1. /\ s \in Reports /\ story[s].status \in {"absent", "draft"} /\ Tick
      /\ UNCHANGED <<revisions, corrected, page, job, vetted, sent>>
  BY DEF ReporterSaves
<1>2. PICK text \in tabs[s] :
        \/ Written(s, "draft", text) /\ UNCHANGED <<tabs, edits>>
        \/ /\ NewEdit /\ Written(s, "draft", text \cup {edits + 1})
           /\ tabs' = [tabs EXCEPT ![s] = @ \cup {text \cup {edits + 1}}]
  BY DEF ReporterSaves
<1>3. tabs \in [Reports -> SUBSET Text] /\ edits \in 0..MaxEdits
  BY FullParts DEF TypeOK
<1>4. text \in Text
  BY <1>1, <1>2, <1>3
<1>5. CASE Written(s, "draft", text) /\ UNCHANGED <<tabs, edits>>
  BY <1>1, <1>3, <1>4, <1>5, DraftReplaced
<1>6. CASE /\ NewEdit /\ Written(s, "draft", text \cup {edits + 1})
           /\ tabs' = [tabs EXCEPT ![s] = @ \cup {text \cup {edits + 1}}]
  <2>1. edits + 1 \in 1..MaxEdits /\ edits' \in 0..MaxEdits
    BY <1>3, <1>6, Bounds DEF NewEdit
  <2>2. text \cup {edits + 1} \in Text
    BY <1>4, <2>1, TextGrows
  <2>3. tabs' \in [Reports -> SUBSET Text]
    BY <1>1, <1>3, <1>6, <2>2
  <2> QED
    BY <1>1, <1>6, <2>1, <2>2, <2>3, DraftReplaced
<1> QED
  BY <1>2, <1>5, <1>6

\* A revision is added to a draft: the evidence agrees when its outcome fits the new status.
LEMMA SubmittedAgrees ==
    ASSUME Full, NEW s \in Reports, story[s].status = "draft", NEW outcome \in Outcomes,
           Submitted(s, outcome), outcome \in OutcomesOf(story'[s].status),
           story'[s].text = story[s].text, story'[s].status \notin {"absent", "draft"},
           UNCHANGED corrected
    PROVE  /\ revisions' \in [Reports -> Seq(Revision)]
           /\ \A x \in Reports \ {s} : revisions'[x] = revisions[x]
           /\ Agrees(s)' /\ RevisionsKept(s)
<1> DEFINE n == Latest(s)
<1>1. /\ Agrees(s) /\ n \in Nat /\ corrected[s].revision \in Nat
      /\ revisions \in [Reports -> Seq(Revision)] /\ story[s].text \in Text
  BY FullParts
<1>2. /\ revisions' \in [Reports -> Seq(Revision)]
      /\ Len(revisions'[s]) = n + 1
      /\ revisions'[s][n + 1].outcome = outcome
      /\ revisions'[s][n + 1].text = story[s].text
      /\ \A k \in 1..n : revisions'[s][k] = revisions[s][k]
      /\ \A x \in Reports \ {s} : revisions'[x] = revisions[x]
  BY <1>1, SubmittedRow
<1>3. \A k \in 1..n : revisions[s][k].outcome = "changes_requested"
  BY <1>1 DEF Agrees, Outcome, OutcomesOf
<1>4. corrected'[s].revision <= n /\ corrected'[s].revision \in Nat /\ n \in Nat
  BY <1>1 DEF Agrees
<1>5. Latest(s)' = n + 1
  BY <1>2 DEF Latest
<1> HIDE DEF n
<1>6. Agrees(s)'
  <2>1. (n + 1) - 1 = n /\ n + 1 > 0 /\ n + 1 # 0 /\ corrected'[s].revision <= n + 1
        /\ corrected'[s].revision # n + 1
    BY <1>4
  <2>2. Outcome(s)' = outcome
    BY <1>2, <1>5 DEF Outcome
  <2>3. StandingText(s)' = story[s].text
    BY <1>2, <1>5, <2>1 DEF StandingText
  <2>4. \A k \in 1..(n + 1) - 1 : revisions'[s][k].outcome = "changes_requested"
    BY <1>2, <1>3, <2>1
  <2> QED
    BY <1>5, <2>1, <2>2, <2>3, <2>4 DEF Agrees
<1>7. RevisionsKept(s)
  <2>1. n <= n + 1
    BY <1>1 DEF n
  <2> QED
    BY <1>2, <2>1 DEF RevisionsKept, Follows, n
<1> QED
  BY <1>2, <1>6, <1>7

\* The latest revision of a decided story gets an outcome that fits the new status.
LEMMA ReviewedAgrees ==
    ASSUME Full, NEW s \in Reports, Latest(s) > 0, NEW outcome \in Outcomes, NEW shown \in Nat,
           Reviewed(s, outcome, shown), outcome \in OutcomesOf(story'[s].status),
           Follows(Outcome(s), outcome),
           story[s].status # "draft", story'[s].text = story[s].text, story'[s].status # "absent",
           UNCHANGED corrected
    PROVE  /\ revisions' \in [Reports -> Seq(Revision)]
           /\ \A x \in Reports \ {s} : revisions'[x] = revisions[x]
           /\ Agrees(s)' /\ RevisionsKept(s)
<1> DEFINE n == Latest(s)
<1>1. /\ Agrees(s) /\ n \in Nat /\ n > 0 /\ n # 0 /\ corrected[s].revision \in Nat
      /\ revisions \in [Reports -> Seq(Revision)]
  BY FullParts
<1>2. /\ revisions' \in [Reports -> Seq(Revision)]
      /\ Len(revisions'[s]) = n
      /\ revisions'[s][n].outcome = outcome
      /\ revisions'[s][n].text = revisions[s][n].text
      /\ \A k \in 1..n - 1 : revisions'[s][k] = revisions[s][k]
      /\ \A x \in Reports \ {s} : revisions'[x] = revisions[x]
  BY <1>1, ReviewedRow
<1>3. Latest(s)' = n
  BY <1>2 DEF Latest
<1>4. Outcome(s)' = outcome
  BY <1>2, <1>3 DEF Outcome
<1>5. StandingText(s)' = StandingText(s)
  BY <1>2, <1>3 DEF StandingText
<1>6. story[s].text = StandingText(s) /\ corrected'[s].revision <= n
      /\ \A k \in 1..n - 1 : revisions[s][k].outcome = "changes_requested"
  BY <1>1 DEF Agrees
<1> HIDE DEF n
<1>7. Agrees(s)'
  BY <1>1, <1>2, <1>3, <1>4, <1>5, <1>6 DEF Agrees
<1>8. RevisionsKept(s)
  <2> SUFFICES ASSUME NEW k \in 1..n
               PROVE  /\ revisions'[s][k].text = revisions[s][k].text
                      /\ Follows(revisions[s][k].outcome, revisions'[s][k].outcome)
    BY <1>1, <1>2 DEF RevisionsKept, n
  <2>1. CASE k = n
    BY <1>2, <2>1 DEF Outcome, n
  <2>2. CASE k # n
    <3>1. k \in 1..n - 1
      BY <1>1, <2>2
    <3> QED
      BY <1>2, <3>1 DEF Follows
  <2> QED
    BY <2>1, <2>2
<1> QED
  BY <1>2, <1>7, <1>8

\* The new status of a reporter's own step, its text unchanged.
LEMMA OwnStepGood ==
    ASSUME Full, NEW s \in Reports, NEW status \in Statuses, Tick,
           Written(s, status, story[s].text), UNCHANGED <<corrected, tabs, page, job, edits, sent>>,
           revisions' \in [Reports -> Seq(Revision)], Agrees(s)', RevisionsKept(s),
           \A x \in Reports \ {s} : revisions'[x] = revisions[x],
           \/ vetted' = vetted /\ status \notin {"approved", "scheduled", "published"}
           \/ vetted' = [vetted EXCEPT ![s] = story[s].text]
    PROVE  Good
<1>1. /\ s \in Stories /\ story[s].text \in Text /\ TypeOK /\ vetted \in [Stories -> Text]
      /\ story \in [Stories -> Row] /\ clock \in 0..MaxClock
  BY FullParts DEF TypeOK
<1>2. /\ story' \in [Stories -> Row] /\ clock' = clock + 1 /\ clock' \in 0..MaxClock
      /\ story'[s].status = status /\ story'[s].text = story[s].text
      /\ story'[s].version = clock + 1
      /\ \A x \in Stories \ {s} : story'[x] = story[x]
  BY <1>1, WrittenRow
<1>3. /\ vetted' \in [Stories -> Text] /\ \A x \in Stories \ {s} : vetted'[x] = vetted[x]
      /\ status \in {"approved", "scheduled", "published"} => vetted'[s] = story[s].text
  BY <1>1
<1>4. TypeOK'
  BY <1>1, <1>2, <1>3 DEF TypeOK
<1>5. RowWritten(s)
  BY <1>2 DEF RowWritten
<1>6. JobsShrink
  BY <1>1, JobsStay
<1>7. KeepsText(s)
  BY <1>2 DEF KeepsText
<1>8. story'[s].status \in {"approved", "scheduled", "published"} => story'[s].text = vetted'[s]
  BY <1>2, <1>3
<1>9. corrected' = corrected /\ UNCHANGED page
  OBVIOUS
<1> QED
  BY <1>1, <1>3, <1>4, <1>5, <1>6, <1>7, <1>8, <1>9, WriteIsGood

\* The status a write leaves.
LEMMA StatusWritten ==
    ASSUME Full, NEW s \in Reports, NEW status \in Statuses, Tick, Written(s, status, story[s].text)
    PROVE  s \in Stories /\ story'[s].status = status /\ story'[s].text = story[s].text
<1>1. /\ s \in Stories /\ story[s].text \in Text
      /\ story \in [Stories -> Row] /\ clock \in 0..MaxClock
  BY FullParts
<1> QED
  BY <1>1, WrittenRow

LEMMA ReporterSubmitsGood ==
    ASSUME Full, NEW s \in Stories, ReporterSubmits(s)
    PROVE  Good
<1>1. /\ s \in Reports /\ story[s].status = "draft" /\ Tick
      /\ Submitted(s, "pending_review") /\ Written(s, "pending_review", story[s].text)
      /\ UNCHANGED <<corrected, tabs, page, job, vetted, edits, sent>>
  BY DEF ReporterSubmits
<1>2. "pending_review" \in Statuses /\ "pending_review" \in Outcomes
      /\ "pending_review" \in OutcomesOf("pending_review")
  BY DEF Statuses, Outcomes, OutcomesOf
<1>3. story'[s].status = "pending_review" /\ story'[s].text = story[s].text
  BY <1>1, <1>2, StatusWritten
<1>4. /\ revisions' \in [Reports -> Seq(Revision)] /\ Agrees(s)' /\ RevisionsKept(s)
      /\ \A x \in Reports \ {s} : revisions'[x] = revisions[x]
  BY <1>1, <1>2, <1>3, SubmittedAgrees
<1> QED
  BY <1>1, <1>2, <1>4, OwnStepGood

LEMMA ReporterPublishesGood ==
    ASSUME Full, NEW s \in Stories, ReporterPublishes(s)
    PROVE  Good
<1>1. /\ s \in Reports /\ story[s].status = "draft" /\ Tick
      /\ Submitted(s, "direct_published") /\ Written(s, "published", story[s].text)
      /\ vetted' = [vetted EXCEPT ![s] = story[s].text]
      /\ UNCHANGED <<corrected, tabs, page, job, edits, sent>>
  BY DEF ReporterPublishes
<1>2. "published" \in Statuses /\ "direct_published" \in Outcomes
      /\ "direct_published" \in OutcomesOf("published")
  BY DEF Statuses, Outcomes, OutcomesOf
<1>3. story'[s].status = "published" /\ story'[s].text = story[s].text
  BY <1>1, <1>2, StatusWritten
<1>4. /\ revisions' \in [Reports -> Seq(Revision)] /\ Agrees(s)' /\ RevisionsKept(s)
      /\ \A x \in Reports \ {s} : revisions'[x] = revisions[x]
  BY <1>1, <1>2, <1>3, SubmittedAgrees
<1> QED
  BY <1>1, <1>2, <1>4, OwnStepGood

LEMMA ReporterWithdrawsGood ==
    ASSUME Full, NEW s \in Stories, ReporterWithdraws(s)
    PROVE  Good
<1>1. /\ s \in Reports /\ Tick /\ Written(s, "rejected", story[s].text)
      /\ \/ story[s].status = "draft" /\ Submitted(s, "withdrawn")
         \/ story[s].status = "pending_review" /\ Reviewed(s, "withdrawn", Latest(s))
      /\ UNCHANGED <<corrected, tabs, page, job, vetted, edits, sent>>
  BY DEF ReporterWithdraws
<1>2. "rejected" \in Statuses /\ "withdrawn" \in Outcomes /\ "withdrawn" \in OutcomesOf("rejected")
  BY DEF Statuses, Outcomes, OutcomesOf
<1>3. story'[s].status = "rejected" /\ story'[s].text = story[s].text
  BY <1>1, <1>2, StatusWritten
<1>4. /\ revisions' \in [Reports -> Seq(Revision)] /\ Agrees(s)' /\ RevisionsKept(s)
      /\ \A x \in Reports \ {s} : revisions'[x] = revisions[x]
  <2>1. CASE story[s].status = "draft" /\ Submitted(s, "withdrawn")
    BY <1>1, <1>2, <1>3, <2>1, SubmittedAgrees
  <2>2. CASE story[s].status = "pending_review" /\ Reviewed(s, "withdrawn", Latest(s))
    <3>1. Agrees(s) /\ Latest(s) \in Nat
      BY <1>1, FullParts
    <3>2. Latest(s) > 0
      BY <2>2, <3>1 DEF Agrees
    <3>3. Outcome(s) = "pending_review"
      BY <2>2, <3>1, <3>2 DEF Agrees, OutcomesOf
    <3>4. Follows(Outcome(s), "withdrawn")
      BY <3>3 DEF Follows
    <3> QED
      BY <1>1, <1>2, <1>3, <2>2, <3>1, <3>2, <3>4, ReviewedAgrees
  <2> QED
    BY <1>1, <2>1, <2>2
<1> QED
  BY <1>1, <1>2, <1>4, OwnStepGood

-----------------------------------------------------------------------------
(* The CMS up to the database.                                              *)

LEMMA CreateStoryGood ==
    ASSUME Full, NEW p \in Staff, NEW s \in Stories, CreateStory(p, s)
    PROVE  Good
<1> DEFINE row == [status |-> "draft", text |-> {edits + 1}, version |-> clock + 1, owner |-> p]
<1>1. /\ s \in Articles /\ story[s] = Absent /\ NewEdit /\ Tick
      /\ story' = [story EXCEPT ![s] = row]
      /\ UNCHANGED <<revisions, corrected, tabs, page, job, vetted, sent>>
  BY DEF CreateStory
<1>2. TypeOK /\ story \in [Stories -> Row] /\ s \notin Reports
  BY <1>1, FullParts, EachIsOneKind
<1>3. /\ edits + 1 \in 1..MaxEdits /\ edits' \in 0..MaxEdits
      /\ clock' = clock + 1 /\ clock' \in 0..MaxClock
  BY <1>1, <1>2, Bounds DEF NewEdit, Tick, TypeOK
<1>4. row \in Row /\ row.version = clock + 1 /\ row.status = "draft"
  <2>1. {edits + 1} \in Text /\ "draft" \in Statuses /\ clock + 1 \in 0..MaxClock
    BY <1>3 DEF Text, Statuses
  <2> QED
    BY <2>1 DEF Row
<1> HIDE DEF row
<1>5. story' \in [Stories -> Row] /\ story'[s] = row /\ \A x \in Stories \ {s} : story'[x] = story[x]
  BY <1>1, <1>2, <1>4
<1>6. TypeOK'
  BY <1>1, <1>2, <1>3, <1>5 DEF TypeOK
<1>7. RowWritten(s)
  BY <1>3, <1>4, <1>5 DEF RowWritten
<1>8. JobsShrink
  BY <1>1, <1>2, JobsStay
<1>9. KeepsText(s) /\ story'[s].status = "draft"
  BY <1>1, <1>4, <1>5, AbsentType DEF KeepsText
<1> QED
  BY <1>1, <1>2, <1>6, <1>7, <1>8, <1>9, WriteIsGood

\* Steps that leave stories and evidence alone keep what is said of them.
LEMMA StoriesStay ==
    ASSUME Full, UNCHANGED <<story, revisions, corrected, vetted>>, NewsInv'
    PROVE  Good
<1>1. Evidence'
  BY AgreesStays DEF Full, Evidence
<1>2. DecidedAsRead'
  BY DEF Full, DecidedAsRead
<1>3. WorkKept
  BY DEF WorkKept, KeepsText
<1>4. EvidenceKept
  BY FullParts DEF EvidenceKept, Follows, Latest
<1> QED
  BY <1>1, <1>2, <1>3, <1>4 DEF Good, Full

LEMMA ReporterOpensGood ==
    ASSUME Full, NEW s \in Stories, ReporterOpens(s)
    PROVE  Good
<1>1. /\ s \in Reports /\ tabs' = [tabs EXCEPT ![s] = @ \cup {story[s].text}]
      /\ UNCHANGED <<story, revisions, corrected, page, job, vetted, clock, edits, sent>>
  BY DEF ReporterOpens
<1>2. TypeOK /\ NewsInv /\ tabs \in [Reports -> SUBSET Text] /\ story[s].text \in Text
  BY FullParts DEF TypeOK
<1>3. tabs' \in [Reports -> SUBSET Text]
  BY <1>1, <1>2
<1>4. TypeOK'
  BY <1>1, <1>2, <1>3 DEF TypeOK
<1>5. NewsInv'
  BY <1>1, <1>2, <1>4 DEF NewsInv, Knowledge, Rows, Pages, JobsKnow, Knows, JobsAllowed, OfReports
<1> QED
  BY <1>1, <1>5, StoriesStay

LEMMA OpenStoryGood ==
    ASSUME Full, NEW p \in Staff, NEW s \in Stories, OpenStory(p, s)
    PROVE  Good
<1> DEFINE opened == [story |-> s, row |-> story[s], revision |-> IF s \in Reports THEN Latest(s) ELSE 0]
<1>1. /\ page' = [page EXCEPT ![p] = opened]
      /\ UNCHANGED <<story, revisions, corrected, tabs, job, vetted, clock, edits, sent>>
  BY DEF OpenStory
<1>2. TypeOK /\ NewsInv /\ story[s] \in Row /\ page \in [Staff -> Page \cup {None}]
  BY FullParts DEF TypeOK
<1>3. opened \in Page /\ opened.row = story[s] /\ opened.story = s
  BY <1>2, FullParts DEF Page
<1> HIDE DEF opened
<1>4. /\ page' \in [Staff -> Page \cup {None}] /\ page'[p] = opened
      /\ \A q \in Staff \ {p} : page'[q] = page[q]
  BY <1>1, <1>2, <1>3
<1>5. TypeOK'
  BY <1>1, <1>2, <1>4 DEF TypeOK
<1>6. Pages'
  <2> SUFFICES ASSUME NEW q \in Staff, page'[q] # None
               PROVE  Knows(page[q].row.version, page[q].row.text, page[q].story)'
    BY DEF Pages
  <2>1. CASE q = p
    BY <1>1, <1>2, <1>3, <1>4, <2>1 DEF Knows, NewsInv, Knowledge, Rows
  <2>2. CASE q # p
    BY <1>1, <1>2, <1>4, <2>2 DEF Knows, NewsInv, Knowledge, Pages
  <2> QED
    BY <2>1, <2>2
<1>7. NewsInv'
  BY <1>1, <1>2, <1>5, <1>6 DEF NewsInv, Knowledge, Rows, JobsKnow, Knows, JobsAllowed, OfReports
<1> QED
  BY <1>1, <1>7, StoriesStay

\* A user's job is replaced by one that knows its stories and is allowed for its reports.
Fitting(j) ==
    /\ j \in Job
    /\ \A s \in Stories : Knows(j.versions[s], j.texts[s], s)
    /\ j.command \in {"save", "correct"} => j.edit \in 1..MaxEdits
    /\ j.kind = "form" /\ j.command # "correct" => j.todo \cap Reports = {}
    /\ \A s \in Reports : s \in j.todo \ j.unread => j.command \in Reviewing \cup {"correct"}
    /\ \A s \in Reports : s \in j.todo \ j.unread /\ j.command # "correct" =>
          (j.versions[s] = story[s].version => j.command \in ReviewCommands(story[s].status))

LEMMA JobReplaced ==
    ASSUME Full, NEW p \in Staff, NEW j, j = None \/ Fitting(j), job' = [job EXCEPT ![p] = j],
           page' = page \/ page' = [page EXCEPT ![p] = None],
           UNCHANGED <<story, revisions, corrected, tabs, vetted, clock>>,
           edits' \in 0..MaxEdits, sent' \in 0..MaxCommands
    PROVE  Good
<1>1. TypeOK /\ NewsInv
  BY FullParts
<1>2. /\ job' \in [Staff -> Job \cup {None}] /\ job'[p] = j
      /\ \A q \in Staff \ {p} : job'[q] = job[q]
  BY <1>1 DEF TypeOK, Fitting
<1>3. page' \in [Staff -> Page \cup {None}] /\ \A q \in Staff : page'[q] \in {page[q], None}
  BY <1>1 DEF TypeOK
<1>4. TypeOK'
  BY <1>1, <1>2, <1>3 DEF TypeOK
<1>5. ASSUME NEW q \in Staff, job'[q] # None
      PROVE  Fitting(job'[q])
  <2>1. CASE q = p
    BY <1>2, <1>5, <2>1
  <2>2. CASE q # p
    <3>1. job'[q] = job[q] /\ job[q] # None /\ job[q] \in Job
      BY <1>1, <1>2, <1>5, <2>2 DEF TypeOK
    <3> QED
      BY <1>1, <3>1 DEF Fitting, NewsInv, Knowledge, JobsKnow, JobsAllowed, OfReports
  <2> QED
    BY <2>1, <2>2
<1>6. JobsKnow' /\ JobsAllowed' /\ OfReports'
  BY <1>5 DEF Fitting, JobsKnow, JobsAllowed, OfReports, Knows
<1>7. Rows' /\ Pages'
  BY <1>1, <1>3 DEF NewsInv, Knowledge, Rows, Pages, Knows
<1> QED
  BY <1>4, <1>6, <1>7, StoriesStay DEF NewsInv, Knowledge

LEMMA GiveUpGood ==
    ASSUME Full, NEW p \in Staff, GiveUp(p)
    PROVE  Good
<1>1. TypeOK
  BY FullParts
<1> QED
  BY <1>1, JobReplaced DEF GiveUp, TypeOK

LEMMA KnowsNothing ==
    ASSUME Full, NEW s \in Stories
    PROVE  Knows(0, {}, s)
<1>1. clock \in Nat /\ Knows(story[s].version, story[s].text, s)
  BY FullParts, HolderTypes DEF NewsInv, Knowledge, Rows
<1> QED
  BY <1>1 DEF Knows

LEMMA SendBatchGood ==
    ASSUME Full, NEW p \in Staff, NEW chosen \in SUBSET Stories,
           NEW command \in {"publish", "archive", "delete"}, SendBatch(p, chosen, command)
    PROVE  Good
<1> DEFINE j == [kind |-> "batch", command |-> command, todo |-> chosen, unread |-> chosen,
                 versions |-> [x \in Stories |-> 0], texts |-> [x \in Stories |-> {}],
                 revision |-> 0, edit |-> 0]
<1>1. /\ NewCommand /\ page' = [page EXCEPT ![p] = None] /\ job' = [job EXCEPT ![p] = j]
      /\ UNCHANGED <<story, revisions, corrected, tabs, vetted, clock, edits>>
  BY DEF SendBatch
<1>2. TypeOK
  BY FullParts
<1>3. edits' \in 0..MaxEdits /\ sent' \in 0..MaxCommands
  BY <1>1, <1>2, Bounds DEF NewCommand, TypeOK
<1>4. j \in Job
  <2>1. command \in Commands
    BY Targets DEF Commands
  <2>2. 0 \in 0..MaxClock /\ 0 \in 0..MaxEdits /\ {} \in Text
    BY Bounds DEF Text
  <2> QED
    BY <2>1, <2>2 DEF Job
<1>5. \A s \in Stories : Knows(j.versions[s], j.texts[s], s)
  BY KnowsNothing
<1>6. j.command \notin {"save", "correct"} /\ j.kind # "form" /\ j.todo = j.unread
  OBVIOUS
<1> HIDE DEF j
<1>7. Fitting(j)
  BY <1>4, <1>5, <1>6 DEF Fitting
<1> QED
  BY <1>1, <1>3, <1>7, JobReplaced

LEMMA NewJobGood ==
    ASSUME Full, NEW p \in Staff, page[p] # None, NEW kind \in {"form", "review"},
           NEW command \in Commands, NEW edit \in 0..MaxEdits, NewJob(p, kind, command, edit),
           command \in {"save", "correct"} => edit \in 1..MaxEdits,
           kind = "form" /\ command # "correct" => page[p].story \notin Reports,
           UNCHANGED <<story, revisions, corrected, tabs, vetted, clock>>, edits' \in 0..MaxEdits
    PROVE  Good
<1> DEFINE s == page[p].story
           versions == [x \in Stories |-> IF kind = "form" /\ x = s THEN page[p].row.version ELSE 0]
           texts == [x \in Stories |-> IF kind = "form" /\ x = s THEN page[p].row.text ELSE {}]
           unread == IF command = "correct" THEN {} ELSE {s}
           j == [kind |-> kind, command |-> command, todo |-> {s}, unread |-> unread,
                 versions |-> versions, texts |-> texts,
                 revision |-> page[p].revision, edit |-> edit]
<1>1. NewCommand /\ page' = [page EXCEPT ![p] = None] /\ job' = [job EXCEPT ![p] = j]
  BY DEF NewJob
<1>2. TypeOK /\ NewsInv
  BY FullParts
<1>3. sent' \in 0..MaxCommands
  BY <1>1, <1>2, Bounds DEF NewCommand, TypeOK
<1>4. /\ page[p] \in Page /\ s \in Stories /\ page[p].row.text \in Text
      /\ page[p].row.version \in 0..MaxClock /\ page[p].revision \in Nat
      /\ Knows(page[p].row.version, page[p].row.text, s)
  <2>1. page[p] \in Page
    BY <1>2, HolderTypes
  <2> QED
    BY <1>2, <2>1, HolderTypes DEF Page, NewsInv, Knowledge, Pages
<1>5. versions \in [Stories -> 0..MaxClock] /\ texts \in [Stories -> Text]
      /\ unread \in SUBSET Stories
  BY <1>4, Bounds DEF Text
<1>6. \A x \in Stories : Knows(versions[x], texts[x], x)
  BY <1>4, KnowsNothing
<1> HIDE DEF s, versions, texts
<1>7. j \in Job
  BY <1>4, <1>5 DEF Job
<1>8. Fitting(j)
  <2>1. j.command = command /\ j.kind = kind /\ j.edit = edit /\ j.todo = {s} /\ j.unread = unread
        /\ j.versions = versions /\ j.texts = texts
    OBVIOUS
  <2>2. kind = "form" /\ command # "correct" => {s} \cap Reports = {}
    BY DEF s
  <2>3. command # "correct" => {s} \ unread = {}
    OBVIOUS
  <2> HIDE DEF j
  <2> QED
    BY <1>6, <1>7, <2>1, <2>2, <2>3 DEF Fitting
<1> HIDE DEF j
<1> QED
  BY <1>1, <1>3, <1>8, JobReplaced

LEMMA SendSaveGood ==
    ASSUME Full, NEW p \in Staff, SendSave(p)
    PROVE  Good
<1>1. /\ page[p] # None /\ NewEdit /\ UNCHANGED <<story, revisions, corrected, tabs, vetted, clock>>
      /\ \/ "save" \in Allowed(p, page[p].story, page[p].row) /\ NewJob(p, "form", "save", edits + 1)
         \/ page[p].story \in Reports /\ NewJob(p, "form", "correct", edits + 1)
  BY DEF SendSave
<1>2. edits + 1 \in 1..MaxEdits /\ edits + 1 \in 0..MaxEdits /\ edits' \in 0..MaxEdits
  BY <1>1, FullParts, Bounds DEF NewEdit, TypeOK
<1>3. "save" \in Commands /\ "correct" \in Commands
  BY DEF Commands
<1>4. CASE "save" \in Allowed(p, page[p].story, page[p].row) /\ NewJob(p, "form", "save", edits + 1)
  <2>1. page[p].story \notin Reports
    BY <1>4, AllowedCommands DEF Reviewing
  <2> QED
    BY <1>1, <1>2, <1>3, <1>4, <2>1, NewJobGood
<1>5. CASE page[p].story \in Reports /\ NewJob(p, "form", "correct", edits + 1)
  BY <1>1, <1>2, <1>3, <1>5, NewJobGood
<1> QED
  BY <1>1, <1>4, <1>5

LEMMA SendCommandGood ==
    ASSUME Full, NEW p \in Staff, SendCommand(p)
    PROVE  Good
<1>1. /\ page[p] # None /\ UNCHANGED <<story, revisions, corrected, tabs, vetted, clock, edits>>
      /\ \E c \in Allowed(p, page[p].story, page[p].row) \ {"save"} :
             NewJob(p, IF page[p].story \in Reports THEN "review" ELSE "form", c, 0)
  BY DEF SendCommand
<1>2. PICK c \in Allowed(p, page[p].story, page[p].row) \ {"save"} :
             NewJob(p, IF page[p].story \in Reports THEN "review" ELSE "form", c, 0)
  BY <1>1
<1>3. c \in Commands /\ c \notin {"save", "correct"}
  BY AllowedCommands
<1>4. 0 \in 0..MaxEdits /\ edits' \in 0..MaxEdits
  BY <1>1, FullParts, Bounds DEF TypeOK
<1>5. CASE page[p].story \in Reports
  <2>1. NewJob(p, "review", c, 0)
    BY <1>2, <1>5
  <2> QED
    BY <1>1, <1>3, <1>4, <2>1, NewJobGood
<1>6. CASE page[p].story \notin Reports
  <2>1. NewJob(p, "form", c, 0)
    BY <1>2, <1>6
  <2> QED
    BY <1>1, <1>3, <1>4, <1>6, <2>1, NewJobGood
<1> QED
  BY <1>5, <1>6

LEMMA ReadStoryGood ==
    ASSUME Full, NEW p \in Staff, NEW s \in Stories, ReadStory(p, s)
    PROVE  Good
<1> DEFINE j == job[p]
           kept == [j EXCEPT !.unread = @ \ {s}]
           read == [j EXCEPT !.unread = @ \ {s}, !.versions[s] = story[s].version,
                             !.texts[s] = story[s].text]
<1>1. /\ j # None /\ s \in j.unread
      /\ job' = [job EXCEPT ![p] = IF j.command \notin Allowed(p, s, story[s]) THEN None
                                   ELSE IF j.kind = "form" THEN kept ELSE read]
      /\ UNCHANGED <<story, revisions, corrected, tabs, page, vetted, clock, edits, sent>>
  BY DEF ReadStory
<1>2. TypeOK /\ NewsInv /\ edits' \in 0..MaxEdits /\ sent' \in 0..MaxCommands
  BY <1>1, FullParts DEF TypeOK
<1>3. /\ j \in Job /\ story[s].version \in 0..MaxClock /\ story[s].text \in Text
      /\ Knows(story[s].version, story[s].text, s) /\ Fitting(j)
  <2>1. j \in Job
    BY <1>1, <1>2, HolderTypes
  <2>2. story[s].version \in 0..MaxClock /\ story[s].text \in Text
    BY <1>2 DEF TypeOK, Row
  <2> QED
    BY <1>1, <1>2, <2>1, <2>2
    DEF Fitting, NewsInv, Knowledge, Rows, JobsKnow, JobsAllowed, OfReports
<1>4. ASSUME j.command \in Allowed(p, s, story[s])
      PROVE  /\ j.command # "correct"
             /\ s \in Reports => j.command \in Reviewing /\ j.command \in ReviewCommands(story[s].status)
  BY <1>4, AllowedCommands
<1>5. /\ kept \in Job /\ kept.unread = j.unread \ {s} /\ kept.todo = j.todo /\ kept.kind = j.kind
      /\ kept.versions = j.versions /\ kept.texts = j.texts
      /\ kept.command = j.command /\ kept.edit = j.edit
  BY <1>3 DEF Job
<1>6. /\ read \in Job /\ read.unread = j.unread \ {s} /\ read.todo = j.todo /\ read.kind = j.kind
      /\ read.versions = [j.versions EXCEPT ![s] = story[s].version]
      /\ read.texts = [j.texts EXCEPT ![s] = story[s].text]
      /\ read.command = j.command /\ read.edit = j.edit
  BY <1>3 DEF Job
<1>7. j.versions \in [Stories -> 0..MaxClock] /\ j.texts \in [Stories -> Text]
  BY <1>3 DEF Job
<1> HIDE DEF j, kept, read
<1>8. ASSUME j.command \in Allowed(p, s, story[s]), j.kind = "form"
      PROVE  Fitting(kept)
  <2>1. \A x \in Reports : x \notin j.todo
    BY <1>3, <1>4, <1>8 DEF Fitting
  <2> QED
    BY <1>3, <1>5, <2>1 DEF Fitting
<1>9. ASSUME j.command \in Allowed(p, s, story[s]), j.kind # "form"
      PROVE  Fitting(read)
  <2>1. \A x \in Stories : Knows(read.versions[x], read.texts[x], x)
    BY <1>3, <1>6, <1>7 DEF Fitting
  <2>2. ASSUME NEW x \in Reports, x \in read.todo \ read.unread
        PROVE  /\ read.command \in Reviewing \cup {"correct"}
               /\ read.command # "correct" =>
                    (read.versions[x] = story[x].version => read.command \in ReviewCommands(story[x].status))
    <3>1. CASE x = s
      BY <1>4, <1>6, <1>9, <2>2, <3>1
    <3>2. CASE x # s
      <4>1. x \in j.todo \ j.unread /\ read.command = j.command
        BY <1>6, <2>2, <3>2
      <4>2. x \in Stories
        BY DEF Stories
      <4>3. read.versions[x] = j.versions[x]
        BY <1>6, <1>7, <3>2, <4>2
      <4> QED
        BY <1>3, <4>1, <4>3 DEF Fitting
    <3> QED
      BY <3>1, <3>2
  <2>3. read.command \in {"save", "correct"} => read.edit \in 1..MaxEdits
    BY <1>3, <1>6 DEF Fitting
  <2>4. read.kind # "form" /\ read \in Job
    BY <1>6, <1>9
  <2> QED
    BY <2>1, <2>2, <2>3, <2>4 DEF Fitting
<1> DEFINE next == IF j.command \notin Allowed(p, s, story[s]) THEN None
                   ELSE IF j.kind = "form" THEN kept ELSE read
<1>10. next = None \/ Fitting(next)
  BY <1>8, <1>9
<1>11. job' = [job EXCEPT ![p] = next]
  BY <1>1
<1> HIDE DEF next
<1> QED
  BY <1>1, <1>2, <1>10, <1>11, JobReplaced

-----------------------------------------------------------------------------
(* The database's decision.                                                 *)

\* What is known of the command that is carried out.
LEMMA Committing ==
    ASSUME Full, NEW p \in Staff, NEW s \in Stories, Commit(p, s)
    PROVE  /\ job[p] \in Job /\ JobsShrink /\ job' \in [Staff -> Job \cup {None}]
           /\ job[p].texts[s] \in Text /\ job[p].revision \in Nat /\ job[p].command \in Commands
           /\ Current(s, job[p]) => job[p].texts[s] = story[s].text
           /\ job[p].command \in {"save", "correct"} => job[p].edit \in 1..MaxEdits
           /\ s \in Reports => job[p].command \in Reviewing \cup {"correct"}
           /\ s \in Reports /\ Current(s, job[p]) /\ job[p].command # "correct" =>
                 job[p].command \in ReviewCommands(story[s].status)
<1> DEFINE j == job[p]
<1>1. /\ j # None /\ j.unread = {} /\ s \in j.todo
      /\ job' = [job EXCEPT ![p] = IF j.todo = {s} THEN None ELSE [j EXCEPT !.todo = @ \ {s}]]
  BY DEF Commit
<1>2. TypeOK /\ NewsInv
  BY FullParts
<1>3. j \in Job /\ j.texts[s] \in Text
  BY <1>1, <1>2, HolderTypes
<1>4. j.revision \in Nat /\ j.command \in Commands
  BY <1>3 DEF Job
<1>5. Current(s, j) => j.texts[s] = story[s].text
  BY <1>1, <1>2 DEF Current, NewsInv, Knowledge, JobsKnow, Knows
<1>6. /\ j.command \in {"save", "correct"} => j.edit \in 1..MaxEdits
      /\ s \in Reports => j.command \in Reviewing \cup {"correct"}
  BY <1>1, <1>2 DEF NewsInv, JobsAllowed
<1>7. s \in Reports /\ Current(s, j) /\ j.command # "correct" =>
          j.command \in ReviewCommands(story[s].status)
  BY <1>1, <1>2 DEF Current, NewsInv, OfReports
<1> DEFINE rest == [j EXCEPT !.todo = @ \ {s}]
<1>8. /\ rest \in Job /\ rest.versions = j.versions /\ rest.texts = j.texts
      /\ rest.command = j.command /\ rest.kind = j.kind /\ rest.edit = j.edit
      /\ rest.unread = j.unread /\ rest.todo \subseteq j.todo
  BY <1>3 DEF Job
<1>9. JobsShrink /\ job' \in [Staff -> Job \cup {None}]
  <2>1. job' = [job EXCEPT ![p] = IF j.todo = {s} THEN None ELSE rest]
    BY <1>1
  <2> HIDE DEF rest
  <2>2. job \in [Staff -> Job \cup {None}]
    BY <1>2 DEF TypeOK
  <2>3. job' \in [Staff -> Job \cup {None}] /\ (job'[p] = None \/ job'[p] = rest)
        /\ \A q \in Staff \ {p} : job'[q] = job[q]
    BY <1>8, <2>1, <2>2
  <2>4. ASSUME NEW q \in Staff, job'[q] # None
        PROVE  /\ job[q] # None
               /\ job'[q].versions = job[q].versions /\ job'[q].texts = job[q].texts
               /\ job'[q].command = job[q].command /\ job'[q].kind = job[q].kind
               /\ job'[q].edit = job[q].edit /\ job'[q].unread = job[q].unread
               /\ job'[q].todo \subseteq job[q].todo
    <3>1. CASE q = p
      BY <1>1, <1>8, <2>3, <2>4, <3>1
    <3>2. CASE q # p
      BY <2>3, <2>4, <3>2
    <3> QED
      BY <3>1, <3>2
  <2> QED
    BY <2>3, <2>4 DEF JobsShrink
<1> QED
  BY <1>3, <1>4, <1>5, <1>6, <1>7, <1>9

\* A decision that leaves or grows the text of a story.
LEMMA DecisionGood ==
    ASSUME Full, NEW p \in Staff, NEW s \in Stories, Commit(p, s),
           NEW status \in Statuses, NEW text \in Text, Written(s, status, text),
           story[s].text \subseteq text,
           vetted' \in [Stories -> Text], \A x \in Stories \ {s} : vetted'[x] = vetted[x],
           status \in {"approved", "scheduled", "published"} => vetted'[s] = text,
           corrected' \in [Reports -> [revision : Nat, text : Text]],
           revisions' \in [Reports -> Seq(Revision)],
           \A x \in Reports \ {s} : revisions'[x] = revisions[x] /\ corrected'[x] = corrected[x],
           s \in Reports => Agrees(s)' /\ RevisionsKept(s)
    PROVE  Good
<1>1. Tick /\ UNCHANGED <<tabs, page, edits, sent>>
  BY DEF Commit
<1>2. /\ TypeOK /\ story \in [Stories -> Row] /\ clock \in 0..MaxClock
      /\ JobsShrink /\ job' \in [Staff -> Job \cup {None}]
  BY FullParts, Committing
<1>3. /\ story' \in [Stories -> Row] /\ clock' = clock + 1 /\ clock' \in 0..MaxClock
      /\ story'[s].status = status /\ story'[s].text = text /\ story'[s].version = clock + 1
      /\ \A x \in Stories \ {s} : story'[x] = story[x]
  BY <1>1, <1>2, WrittenRow
<1>4. TypeOK'
  BY <1>1, <1>2, <1>3 DEF TypeOK
<1>5. RowWritten(s)
  BY <1>3 DEF RowWritten
<1>6. KeepsText(s)
  BY <1>3 DEF KeepsText
<1>7. story'[s].status \in {"approved", "scheduled", "published"} => story'[s].text = vetted'[s]
  BY <1>3
<1> QED
  BY <1>1, <1>2, <1>4, <1>5, <1>6, <1>7, WriteIsGood

LEMMA DecisionWritten ==
    ASSUME Full, NEW s \in Stories, NEW status \in Statuses, NEW text \in Text,
           Written(s, status, text), Tick
    PROVE  story'[s].status = status /\ story'[s].text = text
<1>1. story \in [Stories -> Row] /\ clock \in 0..MaxClock
  BY FullParts
<1> QED
  BY <1>1, WrittenRow

LEMMA DeleteGood ==
    ASSUME Full, NEW p \in Staff, NEW s \in Stories, Commit(p, s), job[p].command = "delete"
    PROVE  Good
<1>1. Delete(s) /\ Tick /\ UNCHANGED <<tabs, page, edits, sent>>
  BY DEF Commit
<1>2. s \notin Reports /\ JobsShrink /\ job' \in [Staff -> Job \cup {None}]
  BY Committing DEF Reviewing
<1>3. /\ TypeOK /\ clock' = clock + 1 /\ clock' \in 0..MaxClock
  BY <1>1, FullParts, Bounds DEF Tick, TypeOK
<1>4. /\ story' \in [Stories -> Row] /\ story'[s] = Absent /\ \A x \in Stories \ {s} : story'[x] = story[x]
      /\ UNCHANGED <<revisions, corrected, vetted>>
  BY <1>1, FullParts, AbsentType DEF Delete
<1>5. TypeOK'
  BY <1>1, <1>2, <1>3, <1>4 DEF TypeOK
<1>6. RowWritten(s)
  BY <1>2, <1>3, <1>4 DEF RowWritten
<1>7. story'[s].status = "absent" /\ KeepsText(s)
  BY <1>4, AbsentType DEF KeepsText
<1> QED
  BY <1>1, <1>2, <1>4, <1>5, <1>6, <1>7, WriteIsGood

LEMMA SaveGood ==
    ASSUME Full, NEW p \in Staff, NEW s \in Stories, Commit(p, s),
           job[p].command \in {"save", "correct"}
    PROVE  Good
<1> DEFINE j == job[p]
           text == j.texts[s] \cup {j.edit}
           fix == [revision |-> j.revision, text |-> text]
<1>1. Save(s, j) /\ Accepts(p, s, j) /\ Tick
  BY DEF Commit
<1>2. /\ Current(s, j)
      /\ j.command = "correct" => /\ s \in Reports /\ j.revision = Latest(s)
                                  /\ story[s].status \in UnderEditorialControl
  BY <1>1 DEF Accepts, RevisionCurrent
<1>3. /\ j.texts[s] = story[s].text /\ j.texts[s] \in Text /\ j.edit \in 1..MaxEdits
      /\ j.revision \in Nat /\ (j.command = "save" => s \notin Reports)
  BY <1>2, Committing DEF Reviewing
<1>4. text \in Text /\ story[s].text \subseteq text
  BY <1>3, TextGrows
<1>5. fix \in [revision : Nat, text : Text] /\ fix.revision = j.revision /\ fix.text = text
  BY <1>3, <1>4
<1>6. /\ Written(s, story[s].status, text) /\ vetted' = [vetted EXCEPT ![s] = text]
      /\ corrected' = IF j.command = "correct" THEN [corrected EXCEPT ![s] = fix] ELSE corrected
      /\ UNCHANGED revisions
  BY <1>1 DEF Save
<1>7. /\ TypeOK /\ vetted \in [Stories -> Text] /\ story[s].status \in Statuses
      /\ corrected \in [Reports -> [revision : Nat, text : Text]]
      /\ revisions' \in [Reports -> Seq(Revision)]
  BY <1>6, FullParts DEF TypeOK
<1> HIDE DEF text, fix, j
<1>8. /\ vetted' \in [Stories -> Text] /\ vetted'[s] = text
      /\ \A x \in Stories \ {s} : vetted'[x] = vetted[x]
  BY <1>4, <1>6, <1>7
<1>9. /\ corrected' \in [Reports -> [revision : Nat, text : Text]]
      /\ \A x \in Reports \ {s} : corrected'[x] = corrected[x]
      /\ s \in Reports => corrected'[s] = fix
  <2>1. CASE j.command = "correct"
    BY <1>2, <1>5, <1>6, <1>7, <2>1
  <2>2. CASE j.command # "correct"
    BY <1>3, <1>6, <1>7, <2>2 DEF j
  <2> QED
    BY <2>1, <2>2
<1>10. ASSUME s \in Reports
       PROVE  Agrees(s)' /\ RevisionsKept(s)
  <2>1. j.revision = Latest(s) /\ story[s].status \in UnderEditorialControl
    BY <1>2, <1>3, <1>10 DEF j
  <2>2. Agrees(s) /\ Latest(s) \in Nat /\ revisions'[s] = revisions[s]
    BY <1>6, <1>10, FullParts
  <2>3. story'[s].status = story[s].status /\ story'[s].text = text
    BY <1>1, <1>4, <1>6, <1>7, DecisionWritten
  <2>4. Latest(s)' = Latest(s) /\ Outcome(s)' = Outcome(s)
    BY <2>2 DEF Latest, Outcome
  <2>5. StandingText(s)' = text /\ corrected'[s].revision = Latest(s)
    BY <1>5, <1>9, <1>10, <2>1, <2>4 DEF StandingText
  <2>6. Agrees(s)'
    BY <2>2, <2>3, <2>4, <2>5 DEF Agrees
  <2>7. RevisionsKept(s)
    BY <2>2 DEF RevisionsKept, Follows, Latest
  <2> QED
    BY <2>6, <2>7
<1> QED
  BY <1>4, <1>6, <1>7, <1>8, <1>9, <1>10, DecisionGood

LEMMA RequestChangesGood ==
    ASSUME Full, NEW p \in Staff, NEW s \in Stories, Commit(p, s),
           job[p].command = "request_changes"
    PROVE  Good
<1> DEFINE j == job[p]
<1>1. RequestChanges(s, j) /\ Accepts(p, s, j) /\ Tick
  BY DEF Commit
<1>2. /\ s \in Reports /\ story[s].status = "pending_review" /\ Outcome(s) = "pending_review"
  BY <1>1 DEF Accepts, RevisionCurrent
<1>3. /\ Written(s, "draft", story[s].text) /\ Reviewed(s, "changes_requested", j.revision)
      /\ UNCHANGED <<corrected, vetted>>
  BY <1>1 DEF RequestChanges
<1>4. /\ TypeOK /\ vetted \in [Stories -> Text] /\ story[s].text \in Text /\ j.revision \in Nat
      /\ corrected \in [Reports -> [revision : Nat, text : Text]]
      /\ Agrees(s) /\ Latest(s) \in Nat
  BY <1>2, FullParts, Committing DEF TypeOK
<1>5. "draft" \in Statuses /\ "changes_requested" \in Outcomes
      /\ "changes_requested" \in OutcomesOf("draft")
  BY DEF Statuses, Outcomes, OutcomesOf
<1>6. story'[s].status = "draft" /\ story'[s].text = story[s].text
  BY <1>1, <1>3, <1>4, <1>5, DecisionWritten
<1>7. Latest(s) > 0 /\ Follows(Outcome(s), "changes_requested")
  BY <1>2, <1>4 DEF Agrees, Follows
<1> HIDE DEF j
<1>8. /\ revisions' \in [Reports -> Seq(Revision)] /\ Agrees(s)' /\ RevisionsKept(s)
      /\ \A x \in Reports \ {s} : revisions'[x] = revisions[x]
  BY <1>2, <1>3, <1>4, <1>5, <1>6, <1>7, ReviewedAgrees
<1> QED
  BY <1>3, <1>4, <1>5, <1>8, DecisionGood

\* The outcomes a review leads to, by the status it was allowed in; a rejected story may be
\* offered for the archive, but the database does not take it.
LEMMA ReviewOutcomes ==
    ASSUME Full, NEW p \in Staff, NEW s \in Reports, NEW c,
           c \in ReviewCommands(story[s].status), c \in Permitted(p, s, story[s]), c # "request_changes"
    PROVE  /\ Latest(s) > 0 /\ story[s].status # "draft" /\ Target[c] # "absent"
           /\ OutcomeAfter(s, Target[c]) \in Outcomes
           /\ OutcomeAfter(s, Target[c]) \in OutcomesOf(Target[c])
           /\ Follows(Outcome(s), OutcomeAfter(s, Target[c]))
<1> DEFINE status == story[s].status
           before == Outcome(s)
           after == OutcomeAfter(s, Target[c])
<1>1. Agrees(s) /\ Latest(s) \in Nat /\ status \in Statuses
  BY FullParts
<1>2. status \in {"pending_review", "approved", "scheduled", "published"}
  <2>1. ASSUME status = "rejected"
        PROVE  FALSE
    <3>1. c = "archive"
      BY <2>1 DEF ReviewCommands
    <3>2. "archive" \notin EditorCommands(s, "rejected") /\ "archive" \notin AdminCommands("rejected")
      BY DEF EditorCommands, AdminCommands
    <3> QED
      BY <2>1, <3>1, <3>2 DEF Permitted
  <2> QED
    BY <1>1, <2>1 DEF ReviewCommands, Statuses
<1>3. Latest(s) > 0 /\ before \in OutcomesOf(status)
  BY <1>1, <1>2 DEF Agrees
<1>4. \/ status = "pending_review" /\ before = "pending_review"
         /\ c \in {"approve", "reject", "publish", "schedule"}
      \/ status = "approved" /\ before = "approved" /\ c \in {"publish", "schedule", "archive"}
      \/ status = "scheduled" /\ before = "scheduled" /\ c \in {"publish", "archive"}
      \/ status = "published" /\ before \in {"published", "direct_published"} /\ c = "archive"
  <2>1. CASE status = "pending_review"
    BY <1>3, <2>1 DEF ReviewCommands, OutcomesOf
  <2>2. CASE status = "approved"
    BY <1>3, <2>2 DEF ReviewCommands, OutcomesOf
  <2>3. CASE status = "scheduled"
    BY <1>3, <2>3 DEF ReviewCommands, OutcomesOf
  <2>4. CASE status = "published"
    BY <1>3, <2>4 DEF ReviewCommands, OutcomesOf
  <2> QED
    BY <1>2, <2>1, <2>2, <2>3, <2>4
<1> HIDE DEF before, status
<1>5. /\ after = IF c = "archive" THEN IF before \in {"published", "direct_published"} THEN before
                                                                               ELSE "rejected"
                 ELSE Target[c]
      /\ Target[c] # "absent"
  BY <1>4, Targets DEF OutcomeAfter, before
<1>6. after \in Outcomes
  BY <1>4, <1>5, Targets DEF Outcomes
<1>7. after \in OutcomesOf(Target[c])
  <2>1. CASE c = "archive"
    BY <1>4, <1>5, <2>1, Targets DEF OutcomesOf
  <2>2. CASE c # "archive"
    BY <1>4, <1>5, <2>2, Targets DEF OutcomesOf
  <2> QED
    BY <2>1, <2>2
<1>8. Follows(before, after)
  BY <1>4, <1>5, Targets DEF Follows
<1> QED
  BY <1>2, <1>3, <1>5, <1>6, <1>7, <1>8 DEF before, status

LEMMA TransitionGood ==
    ASSUME Full, NEW p \in Staff, NEW s \in Stories, Commit(p, s),
           job[p].command \notin {"delete", "save", "correct", "request_changes"}
    PROVE  Good
<1> DEFINE j == job[p]
           status == Target[j.command]
           shown == IF j.kind = "batch" THEN Latest(s) ELSE j.revision
<1>1. Transition(s, j) /\ Accepts(p, s, j) /\ Tick
  BY DEF Commit
<1>2. Current(s, j) /\ j.command \in Permitted(p, s, story[s])
  BY <1>1 DEF Accepts
<1>3. /\ Written(s, status, story[s].text)
      /\ vetted' = IF j.command \in {"approve", "publish", "schedule"}
                   THEN [vetted EXCEPT ![s] = j.texts[s]] ELSE vetted
      /\ s \in Reports => Reviewed(s, OutcomeAfter(s, status), shown)
      /\ s \notin Reports => UNCHANGED revisions
      /\ UNCHANGED corrected
  BY <1>1 DEF Transition
<1>4. /\ j.command \in Transitions /\ j.texts[s] = story[s].text /\ j.revision \in Nat
      /\ s \in Reports => j.command \in ReviewCommands(story[s].status)
  BY <1>2, Committing DEF Commands
<1>5. status \in Statuses
  BY <1>4, Targets
<1>6. /\ TypeOK /\ vetted \in [Stories -> Text] /\ story[s].text \in Text /\ DecidedAsRead
      /\ corrected \in [Reports -> [revision : Nat, text : Text]]
      /\ revisions \in [Reports -> Seq(Revision)]
  BY FullParts DEF TypeOK
<1> HIDE DEF j
<1>7. /\ vetted' \in [Stories -> Text] /\ \A x \in Stories \ {s} : vetted'[x] = vetted[x]
      /\ vetted'[s] = IF j.command \in {"approve", "publish", "schedule"} THEN story[s].text ELSE vetted[s]
  BY <1>3, <1>4, <1>6
<1>8. ASSUME status \in {"approved", "scheduled", "published"}
      PROVE  vetted'[s] = story[s].text
  <2>1. CASE j.command \in {"approve", "publish", "schedule"}
    BY <1>7, <2>1
  <2>2. CASE j.command \in {"cancel_schedule", "unpublish"}
    <3>1. /\ "cancel_schedule" \in EditorCommands(s, story[s].status) => story[s].status = "scheduled"
          /\ "unpublish" \in EditorCommands(s, story[s].status) => story[s].status = "published"
      BY DEF EditorCommands
    <3>2. /\ "cancel_schedule" \in AdminCommands(story[s].status) => story[s].status = "scheduled"
          /\ "unpublish" \in AdminCommands(story[s].status) => story[s].status = "published"
      BY DEF AdminCommands
    <3>3. story[s].status \in {"scheduled", "published"}
      BY <1>2, <2>2, <3>1, <3>2 DEF Permitted
    <3> QED
      BY <1>6, <1>7, <2>2, <3>3 DEF DecidedAsRead
  <2>3. j.command \in {"approve", "publish", "schedule", "cancel_schedule", "unpublish"}
    BY <1>4, <1>8, Targets
  <2> QED
    BY <2>1, <2>2, <2>3
<1>9. story'[s].status = status /\ story'[s].text = story[s].text
  BY <1>1, <1>3, <1>5, <1>6, DecisionWritten
<1> HIDE DEF status, shown
<1>10. /\ revisions' \in [Reports -> Seq(Revision)]
       /\ \A x \in Reports \ {s} : revisions'[x] = revisions[x]
       /\ s \in Reports => Agrees(s)' /\ RevisionsKept(s)
  <2>1. CASE s \in Reports
    <3>1. shown \in Nat
      BY <1>4, <2>1, FullParts DEF shown
    <3>2. j.command # "request_changes"
      BY DEF j
    <3>3. /\ Latest(s) > 0 /\ story[s].status # "draft" /\ status # "absent"
          /\ OutcomeAfter(s, status) \in Outcomes
          /\ OutcomeAfter(s, status) \in OutcomesOf(status)
          /\ Follows(Outcome(s), OutcomeAfter(s, status))
      BY <1>2, <1>4, <2>1, <3>2, ReviewOutcomes DEF status
    <3> QED
      BY <1>3, <1>9, <2>1, <3>1, <3>3, ReviewedAgrees
  <2>2. CASE s \notin Reports
    BY <1>3, <1>6, <2>2
  <2> QED
    BY <2>1, <2>2
<1> QED
  BY <1>3, <1>5, <1>6, <1>7, <1>8, <1>10, DecisionGood

-----------------------------------------------------------------------------
(* The invariant and the theorems.                                          *)

LEMMA NextGood ==
    ASSUME Full, Next
    PROVE  Good
<1>1. ASSUME NEW s \in Stories, NEW p \in Staff, Commit(p, s)
      PROVE  Good
  BY <1>1, DeleteGood, SaveGood, RequestChangesGood, TransitionGood
<1>2. ASSUME NEW s \in Stories,
             \/ ReporterOpens(s) \/ ReporterSaves(s) \/ ReporterSubmits(s)
             \/ ReporterPublishes(s) \/ ReporterWithdraws(s)
             \/ \E p \in Staff : CreateStory(p, s) \/ OpenStory(p, s) \/ ReadStory(p, s) \/ Commit(p, s)
      PROVE  Good
  BY <1>1, <1>2, ReporterOpensGood, ReporterSavesGood, ReporterSubmitsGood, ReporterPublishesGood,
     ReporterWithdrawsGood, CreateStoryGood, OpenStoryGood, ReadStoryGood
<1>3. ASSUME NEW p \in Staff,
             \/ SendSave(p) \/ SendCommand(p) \/ GiveUp(p)
             \/ \E chosen \in SUBSET Stories, c \in {"publish", "archive", "delete"} :
                    SendBatch(p, chosen, c)
      PROVE  Good
  BY <1>3, SendSaveGood, SendCommandGood, GiveUpGood, SendBatchGood
<1> QED
  BY <1>2, <1>3 DEF Next

LEMMA StutterGood ==
    ASSUME Full, UNCHANGED vars
    PROVE  Good
<1>1. NewsInv'
  BY DEF Full, vars, NewsInv, TypeOK, Knowledge, Rows, Pages, JobsKnow, Knows, JobsAllowed, OfReports
<1> QED
  BY <1>1, StoriesStay DEF vars

LEMMA InitFull == Init => Full
<1> SUFFICES ASSUME Init PROVE Full
  OBVIOUS
<1> DEFINE imported == [Absent EXCEPT !.status = "draft"]
<1>1. imported \in Row /\ imported.text = {} /\ imported.version = 0 /\ imported.status = "draft"
  BY AbsentType DEF Row, Statuses
<1>2. story = [s \in Stories |-> IF s \in Imports THEN imported ELSE Absent]
  BY DEF Init
<1> HIDE DEF imported
<1>3. \A s \in Stories : /\ story[s] \in Row /\ story[s].text = {} /\ story[s].version = 0
                         /\ story[s].status \in {"absent", "draft"}
  BY <1>1, <1>2, AbsentType
<1>4. story \in [Stories -> Row]
  BY <1>2, <1>3
<1>5. \A s \in Reports : story[s].status = "absent"
  BY <1>2, AbsentType, EachIsOneKind DEF Stories
<1>6. TypeOK
  BY <1>4, Bounds DEF Init, TypeOK, Text
<1>7. Knowledge /\ JobsAllowed /\ OfReports
  BY <1>3 DEF Init, Knowledge, Rows, Pages, JobsKnow, Knows, JobsAllowed, OfReports
<1>8. Evidence
  <2> SUFFICES ASSUME NEW s \in Reports PROVE Agrees(s)
    BY DEF Evidence
  <2>1. revisions[s] = <<>> /\ corrected[s].revision = 0
    BY DEF Init
  <2>2. Latest(s) = 0
    BY <2>1 DEF Latest
  <2> QED
    BY <1>5, <2>1, <2>2 DEF Agrees
<1>9. DecidedAsRead
  BY <1>3 DEF DecidedAsRead
<1> QED
  BY <1>6, <1>7, <1>8, <1>9 DEF Full, NewsInv

\* The invariant holds, and every step keeps the work and the evidence.
THEOREM NewsroomInvariant == Spec => []Full
<1>1. Full /\ [Next]_vars => Full'
  BY NextGood, StutterGood DEF Good
<1> QED
  BY InitFull, <1>1, PTL DEF Spec

\* Every row, revision, page and job keeps its type.
THEOREM TypeCorrect == Spec => []TypeOK
<1>1. Full => TypeOK
  BY DEF Full, NewsInv
<1> QED
  BY <1>1, NewsroomInvariant, PTL

\* The newsroom's evidence and the story agree, however the users' steps interleave.
THEOREM EvidenceAgreesAlways == Spec => []EvidenceAgrees
<1>1. Full => EvidenceAgrees
  BY DEF Full, Evidence, Agrees, EvidenceAgrees
<1> QED
  BY <1>1, NewsroomInvariant, PTL

\* What is approved, scheduled or public is the text the last decision was taken on.
THEOREM DecidedAsReadAlways == Spec => []DecidedAsRead
<1>1. Full => DecidedAsRead
  BY DEF Full
<1> QED
  BY <1>1, NewsroomInvariant, PTL

\* No save or correction of the CMS, no submission, withdrawal or decision drops an edit from a
\* story, and no page of a reporter reaches it once it is submitted: edits are dropped only
\* by a reporter's saves of a draft, which compare no version.
THEOREM NoWorkIsLostEver == Spec => NoWorkIsLost
<1>1. Full /\ [Next]_vars =>
        [\A s \in Stories : \/ story'[s] = Absent
                            \/ story[s].text \subseteq story'[s].text
                            \/ WithReporter(s) /\ WithReporter(s)']_vars
  BY NextGood DEF Good, WorkKept, KeepsText
<1> QED
  BY <1>1, NewsroomInvariant, PTL DEF Spec, NoWorkIsLost

\* Submitted revisions stay, and their outcomes only move forward.
THEOREM EvidenceIsImmutableEver == Spec => EvidenceIsImmutable
<1>1. Full /\ [Next]_vars =>
        [\A s \in Reports :
          /\ Latest(s) <= Len(revisions'[s])
          /\ \A k \in 1..Latest(s) :
                /\ revisions'[s][k].text = revisions[s][k].text
                /\ Follows(revisions[s][k].outcome, revisions'[s][k].outcome)]_vars
  BY NextGood DEF Good, EvidenceKept
<1> QED
  BY <1>1, NewsroomInvariant, PTL DEF Spec, EvidenceIsImmutable
=============================================================================
