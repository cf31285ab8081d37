------------------------- MODULE HomepageEditor_proofs -------------------------
(***************************************************************************)
(* Proofs about HomepageEditor, for every number of editors, rows, slots,  *)
(* edits and upsets.                                                       *)
(*                                                                         *)
(* Its safety rests on what a timer's task and a request have to do with   *)
(* the draft they were taken from (Captured) and with the version of the   *)
(* row they are based on (Based): the draft only grows, the row only       *)
(* grows, and a request that is answered "saved" names the version it      *)
(* made.                                                                   *)
(***************************************************************************)
EXTENDS HomepageEditor, TLAPS

-----------------------------------------------------------------------------
(* The inductive invariant of the homepage builder.                         *)

\* What a task has to do with the draft it was taken from: it is not newer, the draft still
\* contains it, and it is the draft unless the draft was edited since.
Captured(v, task) ==
    /\ task.revision <= v.revision
    /\ task.text \subseteq v.text
    /\ task.revision = v.revision => task.text = v.text

\* The scheduler.  The last conjunct: what counts as tried and waits for no timer is the
\* request that is out, or has failed, or needs no save.
SchedulerInv(v) ==
    /\ ~v.shown => ~v.dirty /\ v.pending = None /\ v.call = None
    /\ v.dirty => v.revision > 0
    /\ v.attempted <= v.revision
    /\ v.pending # None => Captured(v, v.pending) /\ v.attempted \in {0, v.pending.revision}
    /\ v.call # None => Captured(v, v.call.task)
    /\ v.pending = None /\ v.attempted = v.revision =>
        IF v.call # None THEN v.call.task.revision = v.revision
        ELSE v.dirty => v.status \in {"error", "conflict"}

\* A text that was written over a version of a row, and contains what that version said.
Based(T, r, base, text) == base \in 1..Len(T[r]) /\ T[r][base] \subseteq text
\* A version of a row that says exactly this.
Holds(T, r, version, text) == version \in 1..Len(T[r]) /\ T[r][version] = text

\* Section r is a row of table T.
RowInv(T, r, v) ==
    /\ v.shown => Based(T, r, v.base, v.text)
    /\ v.shown /\ v.status = "saved" => Holds(T, r, v.base, v.text)
    /\ v.pending # None => Based(T, r, v.pending.base, v.pending.text)
    /\ v.call # None =>
        /\ Based(T, r, v.call.task.base, v.call.task.text)
        /\ v.call.reply.outcome = "saved" =>
            Holds(T, r, v.call.reply.version, v.call.task.text)

\* Section p is a template slot: the row its save is said to have made is its own.
SlotInv(T, S, p, v) ==
    v.call # None /\ v.call.reply.outcome = "saved" =>
        LET r == v.call.reply.section IN
        r \in Rows /\ S[r] = p /\ Holds(T, r, v.call.reply.version, v.call.task.text)

SectionInv(T, S, s, v) ==
    /\ SchedulerInv(v)
    /\ s \in Rows => RowInv(T, s, v)
    /\ s \in Placeholders => SlotInv(T, S, s, v)

SectionsInv == \A e \in Editors : \A s \in Sections : SectionInv(table, slot, s, page[e][s])

\* The row a page is about to be told of is not on the page yet.
NewsInv ==
    \A e \in Editors : \A p \in Placeholders :
        page[e][p].call # None /\ page[e][p].call.reply.outcome = "saved" =>
            ~page[e][page[e][p].call.reply.section].shown

OrphansInv ==
    \A o \in orphans : o.section \in Rows => Based(table, o.section, o.task.base, o.task.text)

IInv == /\ TypeOK /\ SectionsInv /\ NewsInv /\ OrphansInv
        /\ NothingSavedIsLost /\ UnsavedWorkIsOnItsWay

\* What UnsavedWorkIsOnItsWay asks of one section.
Watched(v) == v.dirty /\ v.valid /\ v.status \notin {"error", "conflict"} => OnItsWay(v)

-----------------------------------------------------------------------------
(* What the operations do to one section of a page.                         *)

\* The operations on one section, as EditField, TimerFires and their like write them.
AfterEdit(v, n, valid) ==
    [v EXCEPT !.text = @ \cup {n}, !.revision = @ + 1, !.dirty = TRUE,
              !.status = "dirty", !.valid = valid]
AfterRetry(v) == Schedule([v EXCEPT !.attempted = 0])
AfterTimer(v, s) ==
    IF v.call # None THEN [v EXCEPT !.pending = None, !.attempted = 0]
    ELSE [v EXCEPT !.pending = None, !.status = "saving",
                   !.call = [task |-> v.pending, reply |-> Sent(s)]]
AfterAnswer(v, reply) == [v EXCEPT !.call.reply = reply]
AfterFailure(v, status) == [v EXCEPT !.call = None, !.status = status]
AfterSave(v, full) ==
    [v EXCEPT !.call = None, !.base = v.call.reply.version,
              !.text = IF full THEN v.call.task.text ELSE @,
              !.dirty = ~full, !.valid = full \/ @,
              !.status = IF full THEN "saved" ELSE "dirty"]
AfterCreation(v) == [v EXCEPT !.call = None, !.status = "dirty"]

\* A fresh task.
LEMMA TaskOfView ==
    ASSUME NEW v \in View
    PROVE  /\ TaskOf(v) \in Task /\ TaskOf(v) # None /\ TaskOf(v).revision = v.revision
           /\ TaskOf(v).base = v.base /\ TaskOf(v).text = v.text
  BY NoneIsNoRequest DEF TaskOf, Task, View

\* The scheduler, asked to save a section.
LEMMA Scheduled ==
    ASSUME NEW T, NEW S, NEW s \in Sections, NEW v \in View, SectionInv(T, S, s, v),
           v.dirty, NEW w, w = Schedule(v)
    PROVE  /\ w \in View /\ SectionInv(T, S, s, w) /\ Watched(w)
           /\ w.shown = v.shown /\ w.text = v.text /\ w.call = v.call /\ w.status = v.status
<1> USE TaskOfView
<1>0. v.shown
  BY DEF SectionInv, SchedulerInv
<1>1. CASE v.pending # None /\ v.pending.revision = v.revision
  <2>1. w = [v EXCEPT !.pending = TaskOf(v)]
    BY <1>1 DEF Schedule
  <2>2. w \in View /\ w.pending = TaskOf(v) /\ w.shown = v.shown /\ w.text = v.text
        /\ w.call = v.call /\ w.status = v.status /\ w.revision = v.revision
        /\ w.base = v.base /\ w.attempted = v.attempted /\ w.dirty = v.dirty
    BY <2>1 DEF View
  <2>3. SchedulerInv(w)
    BY <1>0, <1>1, <2>2 DEF SectionInv, SchedulerInv, Captured, View
  <2>4. s \in Rows => RowInv(T, s, w)
    BY <1>0, <2>2 DEF SectionInv, RowInv
  <2>5. s \in Placeholders => SlotInv(T, S, s, w)
    BY <2>2 DEF SectionInv, SlotInv
  <2> QED
    BY <2>2, <2>3, <2>4, <2>5 DEF SectionInv, Watched, OnItsWay
<1>2. CASE /\ ~(v.pending # None /\ v.pending.revision = v.revision)
           /\ v.attempted = v.revision
  <2>1. w = v
    BY <1>2 DEF Schedule
  <2>2. Watched(v)
    BY <1>2 DEF SectionInv, SchedulerInv, Watched, OnItsWay
  <2> QED
    BY <2>1, <2>2
<1>3. CASE /\ ~(v.pending # None /\ v.pending.revision = v.revision)
           /\ v.attempted # v.revision
  <2>1. w = [v EXCEPT !.pending = TaskOf(v), !.attempted = v.revision]
    BY <1>3 DEF Schedule
  <2>2. w \in View /\ w.pending = TaskOf(v) /\ w.shown = v.shown /\ w.text = v.text
        /\ w.call = v.call /\ w.status = v.status /\ w.revision = v.revision
        /\ w.base = v.base /\ w.attempted = v.revision /\ w.dirty = v.dirty
    BY <2>1 DEF View
  <2>3. SchedulerInv(w)
    BY <1>0, <2>2 DEF SectionInv, SchedulerInv, Captured, View
  <2>4. s \in Rows => RowInv(T, s, w)
    BY <1>0, <2>2 DEF SectionInv, RowInv
  <2>5. s \in Placeholders => SlotInv(T, S, s, w)
    BY <2>2 DEF SectionInv, SlotInv
  <2> QED
    BY <2>2, <2>3, <2>4, <2>5 DEF SectionInv, Watched, OnItsWay
<1> QED
  BY <1>1, <1>2, <1>3

\* The effect, on one section.
LEMMA Effect ==
    ASSUME NEW T, NEW S, NEW s \in Sections, NEW v \in View, SectionInv(T, S, s, v),
           NEW w, w = AfterEffect(v)
    PROVE  /\ w \in View /\ SectionInv(T, S, s, w) /\ Watched(w)
           /\ w.shown = v.shown /\ w.text = v.text /\ w.call = v.call
<1>1. CASE v.dirty /\ v.valid
  BY <1>1, Scheduled DEF AfterEffect
<1>2. CASE ~(v.dirty /\ v.valid) /\ v.pending = None
  BY <1>2 DEF AfterEffect, CancelPending, Watched
<1>3. CASE ~(v.dirty /\ v.valid) /\ v.pending # None
  <2>1. w = [v EXCEPT !.pending = None,
                      !.attempted = IF v.attempted = v.pending.revision THEN 0 ELSE v.attempted]
    BY <1>3 DEF AfterEffect, CancelPending
  <2>2. v.attempted \in {0, v.pending.revision} /\ v.shown
    BY <1>3 DEF SectionInv, SchedulerInv
  <2>8. w = [v EXCEPT !.pending = None, !.attempted = 0]
    BY <2>1, <2>2
  <2>9. w \in View
    <3>1. [v EXCEPT !.pending = None, !.attempted = 0] \in View
      BY DEF View
    <3> QED
      BY <2>8, <3>1
  <2>3. /\ w.pending = None /\ w.shown = v.shown /\ w.text = v.text
        /\ w.call = v.call /\ w.status = v.status /\ w.revision = v.revision
        /\ w.base = v.base /\ w.attempted = 0 /\ w.dirty = v.dirty /\ w.valid = v.valid
    BY <2>8 DEF View
  <2>4. v.call # None => v.call.task.revision \in Nat
    BY DEF View, Call, Task
  <2>5. SchedulerInv(w)
    BY <1>3, <2>2, <2>3, <2>4 DEF SectionInv, SchedulerInv, Captured, View
  <2>6. s \in Rows => RowInv(T, s, w)
    BY <2>3 DEF SectionInv, RowInv
  <2>7. s \in Placeholders => SlotInv(T, S, s, w)
    BY <2>3 DEF SectionInv, SlotInv
  <2> QED
    BY <1>3, <2>3, <2>5, <2>6, <2>7, <2>9 DEF SectionInv, Watched
<1> QED
  BY <1>1, <1>2, <1>3

\* An edit.
LEMMA Typed ==
    ASSUME NEW T, NEW S, NEW s \in Sections, NEW v \in View, SectionInv(T, S, s, v), v.shown,
           NEW n \in 1..MaxEdits, NEW valid \in BOOLEAN,
           NEW w, w = AfterEdit(v, n, valid)
    PROVE  /\ w \in View /\ SectionInv(T, S, s, w)
           /\ w.shown = v.shown /\ v.text \subseteq w.text /\ w.call = v.call
<1>1. /\ w.text = v.text \cup {n} /\ w.revision = v.revision + 1 /\ w.dirty /\ w.status = "dirty"
      /\ w.shown = v.shown /\ w.base = v.base /\ w.pending = v.pending
      /\ w.attempted = v.attempted /\ w.call = v.call
  BY DEF View, AfterEdit
<1>2. w \in View
  <2>1. v.text \cup {n} \in Text
    BY DEF View, Text
  <2>2. v.revision + 1 \in Nat
    BY DEF View
  <2> QED
    BY <2>1, <2>2 DEF View, Statuses, AfterEdit
<1>3. v.revision \in Nat /\ v.attempted \in Nat
      /\ (v.pending # None => v.pending.revision \in Nat)
      /\ (v.call # None => v.call.task.revision \in Nat)
  BY DEF View, Call, Task
<1>4. SchedulerInv(w)
  BY <1>1, <1>3 DEF SectionInv, SchedulerInv, Captured
<1>5. s \in Rows => RowInv(T, s, w)
  BY <1>1 DEF SectionInv, RowInv, Based
<1>6. s \in Placeholders => SlotInv(T, S, s, w)
  BY <1>1 DEF SectionInv, SlotInv
<1> QED
  BY <1>1, <1>2, <1>4, <1>5, <1>6 DEF SectionInv

\* The Retry button.
LEMMA Retried ==
    ASSUME NEW T, NEW S, NEW s \in Sections, NEW v \in View, SectionInv(T, S, s, v),
           v.dirty, v.status = "error",
           NEW w, w = AfterRetry(v)
    PROVE  /\ w \in View /\ SectionInv(T, S, s, w) /\ Watched(w)
           /\ w.shown = v.shown /\ w.text = v.text /\ w.call = v.call
<1> DEFINE u == [v EXCEPT !.attempted = 0]
<1>1. /\ u \in View /\ u.attempted = 0 /\ u.text = v.text /\ u.revision = v.revision
      /\ u.dirty /\ u.status = "error" /\ u.shown = v.shown /\ u.base = v.base
      /\ u.pending = v.pending /\ u.call = v.call
  BY DEF View
<1>2. v.revision \in Nat /\ v.revision > 0
  BY DEF SectionInv, SchedulerInv, View
<1>3. SchedulerInv(u)
  BY <1>1, <1>2 DEF SectionInv, SchedulerInv, Captured
<1>4. (s \in Rows => RowInv(T, s, u)) /\ (s \in Placeholders => SlotInv(T, S, s, u))
  BY <1>1 DEF SectionInv, RowInv, SlotInv
<1> HIDE DEF u
<1> QED
  <2>1. SectionInv(T, S, s, u)
    BY <1>3, <1>4 DEF SectionInv
  <2>2. w = Schedule(u)
    BY DEF u, AfterRetry
  <2> QED
    BY <1>1, <2>1, <2>2, Scheduled

\* The timer, with a request out and with none.
LEMMA Fired ==
    ASSUME NEW T, NEW S, NEW s \in Sections, NEW v \in View, SectionInv(T, S, s, v),
           v.pending # None, NEW w, w = AfterTimer(v, s)
    PROVE  /\ w \in View /\ SectionInv(T, S, s, w) /\ Watched(w)
           /\ w.shown = v.shown /\ w.text = v.text
           /\ w.call = v.call \/ w.call.reply.outcome = "sent"
<1>0. v.shown /\ v.revision \in Nat /\ v.pending \in Task /\ v.pending.revision \in Nat
      /\ (v.call # None => v.call.task.revision \in Nat)
  BY DEF SectionInv, SchedulerInv, View, Task, Call
<1>1. CASE v.call # None
  <2>0. w = [v EXCEPT !.pending = None, !.attempted = 0]
    BY <1>1 DEF AfterTimer
  <2>1. /\ w \in View /\ w.pending = None /\ w.attempted = 0 /\ w.text = v.text
        /\ w.revision = v.revision /\ w.dirty = v.dirty /\ w.status = v.status
        /\ w.shown = v.shown /\ w.base = v.base /\ w.call = v.call
    <3>1. [v EXCEPT !.pending = None, !.attempted = 0] \in View
      BY DEF View
    <3> QED
      BY <2>0, <3>1 DEF View
  <2>2. SchedulerInv(w)
    BY <1>0, <1>1, <2>1 DEF SectionInv, SchedulerInv, Captured
  <2>3. (s \in Rows => RowInv(T, s, w)) /\ (s \in Placeholders => SlotInv(T, S, s, w))
    BY <2>1 DEF SectionInv, RowInv, SlotInv
  <2> QED
    BY <1>1, <2>1, <2>2, <2>3 DEF SectionInv, Watched, OnItsWay
<1>2. CASE v.call = None
  <2> DEFINE call == [task |-> v.pending, reply |-> Sent(s)]
  <2>1. call \in Call /\ call.task = v.pending /\ call.reply.outcome = "sent"
    BY <1>0 DEF Call, Reply, Sent
  <2>2. call # None
    BY <2>1, NoneIsNoRequest
  <2>3. w = [v EXCEPT !.pending = None, !.status = "saving", !.call = call]
    BY <1>2 DEF AfterTimer
  <2> HIDE DEF call
  <2>4. /\ w \in View /\ w.pending = None /\ w.attempted = v.attempted /\ w.text = v.text
        /\ w.revision = v.revision /\ w.dirty = v.dirty /\ w.status = "saving"
        /\ w.shown = v.shown /\ w.base = v.base /\ w.call = call
    BY <2>1, <2>3 DEF View, Statuses
  <2>5. SchedulerInv(w)
    BY <1>0, <2>1, <2>2, <2>4 DEF SectionInv, SchedulerInv, Captured
  <2>6. s \in Rows => RowInv(T, s, w)
    BY <2>1, <2>4 DEF SectionInv, RowInv
  <2>7. s \in Placeholders => SlotInv(T, S, s, w)
    BY <2>1, <2>4 DEF SlotInv
  <2> QED
    BY <2>1, <2>2, <2>4, <2>5, <2>6, <2>7 DEF SectionInv, Watched, OnItsWay
<1> QED
  BY <1>1, <1>2

\* If section s hears that this text is saved, then it is, in the row it is told.
Truthful(T, S, s, reply, text) ==
    reply.outcome = "saved" =>
        /\ Holds(T, reply.section, reply.version, text)
        /\ s \in Rows => reply.section = s
        /\ s \in Placeholders => reply.section \in Rows /\ S[reply.section] = s

\* View w is view v, its request answered.
OnlyAnswered(v, w, reply) ==
    /\ w.shown = v.shown /\ w.text = v.text
    /\ w.call # None /\ w.call.reply = reply /\ w.call.task = v.call.task

\* The server's answer, seen from the page.
LEMMA Answered ==
    ASSUME NEW T, NEW S, NEW s \in Sections, NEW v \in View, SectionInv(T, S, s, v),
           v.call # None, NEW reply \in Reply,
           Truthful(T, S, s, reply, v.call.task.text),
           NEW w, w = AfterAnswer(v, reply)
    PROVE  /\ w \in View /\ SectionInv(T, S, s, w) /\ Watched(w)
           /\ OnlyAnswered(v, w, reply)
<1> DEFINE call == [v.call EXCEPT !.reply = reply]
<1>1. call \in Call /\ call.task = v.call.task /\ call.reply = reply
  BY DEF Call, View
<1>2. call # None
  BY <1>1, NoneIsNoRequest
<1>3. w = [v EXCEPT !.call = call]
  BY DEF AfterAnswer
<1> HIDE DEF call
<1>4. /\ w \in View /\ w.pending = v.pending /\ w.attempted = v.attempted /\ w.text = v.text
      /\ w.revision = v.revision /\ w.dirty = v.dirty /\ w.status = v.status
      /\ w.shown = v.shown /\ w.base = v.base /\ w.call = call
  BY <1>1, <1>3 DEF View
<1>5. SchedulerInv(w)
  BY <1>1, <1>2, <1>4 DEF SectionInv, SchedulerInv, Captured
<1>6. s \in Rows => RowInv(T, s, w)
  BY <1>1, <1>4 DEF SectionInv, RowInv, Truthful
<1>7. s \in Placeholders => SlotInv(T, S, s, w)
  BY <1>1, <1>4 DEF SlotInv, Truthful
<1> QED
  BY <1>1, <1>2, <1>4, <1>5, <1>6, <1>7 DEF SectionInv, Watched, OnItsWay, OnlyAnswered

\* The page hears that a save has failed or met a newer version.
LEMMA Refused ==
    ASSUME NEW T, NEW S, NEW s \in Sections, NEW v \in View, SectionInv(T, S, s, v),
           NEW status \in {"error", "conflict"},
           NEW w, w = AfterFailure(v, status)
    PROVE  /\ w \in View /\ SectionInv(T, S, s, w)
           /\ w.shown = v.shown /\ w.text = v.text /\ w.call = None
<1>1. /\ w \in View /\ w.pending = v.pending /\ w.attempted = v.attempted /\ w.text = v.text
      /\ w.revision = v.revision /\ w.dirty = v.dirty /\ w.status = status
      /\ w.shown = v.shown /\ w.base = v.base /\ w.call = None
  BY DEF View, Statuses, AfterFailure
<1>2. SchedulerInv(w)
  BY <1>1 DEF SectionInv, SchedulerInv, Captured
<1>3. (s \in Rows => RowInv(T, s, w)) /\ (s \in Placeholders => SlotInv(T, S, s, w))
  BY <1>1 DEF SectionInv, RowInv, SlotInv
<1> QED
  BY <1>1, <1>2, <1>3 DEF SectionInv

\* The page hears that its row is saved.
LEMMA Saved ==
    ASSUME NEW T, NEW S, NEW s \in Rows, NEW v \in View, SectionInv(T, S, s, v),
           v.call # None, v.call.reply.outcome = "saved",
           NEW full, full = Acknowledged(v),
           NEW w, w = AfterSave(v, full)
    PROVE  /\ w \in View /\ SectionInv(T, S, s, w)
           /\ w.shown = v.shown /\ w.text = v.text /\ w.call = None
<1>1. /\ v.shown /\ Captured(v, v.call.task) /\ v.revision \in Nat
      /\ v.call.task \in Task /\ v.call.task.revision \in Nat /\ v.call.reply.version \in Nat
      /\ Holds(T, s, v.call.reply.version, v.call.task.text)
  BY DEF SectionInv, SchedulerInv, RowInv, View, Call, Task, Reply
<1>2. full = (v.revision = v.call.task.revision)
  BY DEF Acknowledged
<1>3. (IF full THEN v.call.task.text ELSE v.text) = v.text
  BY <1>1, <1>2 DEF Captured
<1>4. full \in BOOLEAN /\ (full \/ v.valid) \in BOOLEAN
  BY <1>2 DEF View
<1>5. w = [v EXCEPT !.call = None, !.base = v.call.reply.version, !.text = v.text,
                    !.dirty = ~full, !.valid = full \/ v.valid,
                    !.status = IF full THEN "saved" ELSE "dirty"]
  BY <1>3 DEF AfterSave
<1>6. /\ w \in View /\ w.pending = v.pending /\ w.attempted = v.attempted /\ w.text = v.text
      /\ w.revision = v.revision /\ w.dirty = ~full
      /\ w.status = (IF full THEN "saved" ELSE "dirty")
      /\ w.shown = v.shown /\ w.base = v.call.reply.version /\ w.call = None
  <2>1. PICK dirty \in BOOLEAN, valid \in BOOLEAN, status \in Statuses :
            /\ dirty = ~full /\ valid = (full \/ v.valid)
            /\ status = IF full THEN "saved" ELSE "dirty"
    BY <1>4 DEF Statuses
  <2>2. w = [v EXCEPT !.call = None, !.base = v.call.reply.version, !.text = v.text,
                      !.dirty = dirty, !.valid = valid, !.status = status]
    BY <1>5, <2>1
  <2>3. w \in View
    BY <1>1, <2>2 DEF View
  <2>4. /\ w.pending = v.pending /\ w.attempted = v.attempted /\ w.text = v.text
        /\ w.revision = v.revision /\ w.dirty = dirty /\ w.status = status
        /\ w.shown = v.shown /\ w.base = v.call.reply.version /\ w.call = None
    BY <2>2 DEF View
  <2> QED
    BY <2>1, <2>3, <2>4
<1>7. SchedulerInv(w)
  <2>1. ~full => v.revision > 0 /\ ~(v.pending = None /\ v.attempted = v.revision)
    <3>1. ~full => v.revision # v.call.task.revision
      BY <1>2
    <3> QED
      BY <1>1, <3>1 DEF SectionInv, SchedulerInv, Captured
  <2>2. CASE full = TRUE
    <3>1. ~w.dirty /\ w.shown
      BY <1>1, <1>6, <2>2
    <3> QED
      BY <1>1, <1>6, <3>1 DEF SectionInv, SchedulerInv, Captured
  <2>3. CASE full = FALSE
    <3>1. ~full /\ w.dirty = TRUE
      BY <1>6, <2>3
    <3> QED
      BY <1>1, <1>6, <2>1, <3>1 DEF SectionInv, SchedulerInv, Captured
  <2> QED
    BY <1>4, <2>2, <2>3
<1>8. RowInv(T, s, w)
  <2>1. v.call.task.text \subseteq v.text
        /\ (full => v.call.task.text = v.text)
        /\ (v.pending # None => Based(T, s, v.pending.base, v.pending.text))
    BY <1>1, <1>2 DEF SectionInv, RowInv, Captured
  <2>2. Based(T, s, w.base, w.text) /\ (full => Holds(T, s, w.base, w.text))
    BY <1>1, <1>6, <2>1 DEF Based, Holds
  <2>3. w.status = "saved" => full
    BY <1>6
  <2> QED
    BY <1>6, <2>1, <2>2, <2>3 DEF RowInv
<1>9. s \notin Placeholders
  BY RowsAndSlots
<1> QED
  BY <1>6, <1>7, <1>8, <1>9 DEF SectionInv

\* The page hears that a slot has got a row, and has been edited meanwhile.
LEMMA KeptAsSlot ==
    ASSUME NEW T, NEW S, NEW s \in Placeholders, NEW v \in View, SectionInv(T, S, s, v),
           v.call # None, ~Acknowledged(v),
           NEW w, w = AfterCreation(v)
    PROVE  /\ w \in View /\ SectionInv(T, S, s, w)
           /\ w.shown = v.shown /\ w.text = v.text /\ w.call = None
<1>1. /\ w \in View /\ w.pending = v.pending /\ w.attempted = v.attempted /\ w.text = v.text
      /\ w.revision = v.revision /\ w.dirty = v.dirty /\ w.status = "dirty"
      /\ w.shown = v.shown /\ w.base = v.base /\ w.call = None
  BY DEF View, Statuses, AfterCreation
<1>0. v.call.task.revision # v.revision
  BY DEF Acknowledged
<1>4. ~(v.pending = None /\ v.attempted = v.revision) /\ v.shown
  BY <1>0 DEF SectionInv, SchedulerInv
<1>2. SchedulerInv(w)
  BY <1>1, <1>4 DEF SectionInv, SchedulerInv, Captured
<1>3. SlotInv(T, S, s, w) /\ s \notin Rows
  BY <1>1, RowsAndSlots DEF SlotInv
<1> QED
  BY <1>1, <1>2, <1>3 DEF SectionInv

\* Sections as they are loaded, and those that are not shown.
LEMMA Loading ==
    ASSUME NEW T, NEW S, NEW s \in Sections, NEW text \in Text, NEW base \in Nat,
           NEW status \in {"idle", "saved"},
           s \in Rows => Holds(T, s, base, text)
    PROVE  LET v == Fresh(text, base, status) IN
           /\ v \in View /\ SectionInv(T, S, s, v)
           /\ v.shown /\ v.call = None /\ v.text = text /\ ~v.dirty
<1> DEFINE v == Fresh(text, base, status)
<1>1. v \in View
  BY DEF Fresh, View, Statuses
<1>2. /\ v.shown /\ v.text = text /\ v.base = base /\ v.revision = 0 /\ ~v.dirty
      /\ v.pending = None /\ v.attempted = 0 /\ v.call = None
  BY DEF Fresh
<1> HIDE DEF v
<1>3. SchedulerInv(v)
  BY <1>2 DEF SchedulerInv
<1>4. s \in Rows => RowInv(T, s, v)
  BY <1>2 DEF RowInv, Holds, Based
<1>5. SlotInv(T, S, s, v)
  BY <1>2 DEF SlotInv
<1> QED
  BY <1>1, <1>2, <1>3, <1>4, <1>5 DEF SectionInv, v

LEMMA Hiding ==
    ASSUME NEW T, NEW S, NEW s
    PROVE  /\ Hidden \in View /\ SectionInv(T, S, s, Hidden)
           /\ ~Hidden.shown /\ Hidden.call = None /\ ~Hidden.dirty
<1>2. Hidden \in View
  <2>1. {} \in Text
    BY DEF Text
  <2> QED
    BY <2>1 DEF Hidden, Fresh, View, Statuses
<1>3. /\ ~Hidden.shown /\ ~Hidden.dirty /\ Hidden.revision = 0 /\ Hidden.attempted = 0
      /\ Hidden.pending = None /\ Hidden.call = None
  BY DEF Hidden, Fresh
<1>4. SectionInv(T, S, s, Hidden)
  BY <1>3 DEF SectionInv, SchedulerInv, RowInv, SlotInv
<1> QED
  BY <1>2, <1>3, <1>4

LEMMA LoadedPage ==
    ASSUME NEW T \in [Rows -> Seq(Text)], NEW S, NEW s \in Sections
    PROVE  LET v == Loaded(T, S)[s] IN
           v \in View /\ SectionInv(T, S, s, v) /\ v.call = None /\ ~v.dirty
<1> DEFINE v == Loaded(T, S)[s]
<1>1. CASE s \in Rows /\ T[s] # <<>>
  <2>1. v = Fresh(Last(T[s]), Len(T[s]), "idle")
    BY <1>1 DEF Loaded
  <2>0. T[s] \in Seq(Text)
    BY <1>1
  <2>2. T[s] \in Seq(Text) /\ Len(T[s]) \in Nat /\ Len(T[s]) \in 1..Len(T[s])
    <3>1. \A seq \in Seq(Text) : seq # <<>> => Len(seq) \in Nat /\ Len(seq) # 0
      OBVIOUS
    <3> QED
      BY <1>1, <2>0, <3>1
  <2>3. Last(T[s]) \in Text /\ Holds(T, s, Len(T[s]), Last(T[s]))
    BY <2>2 DEF Last, Holds
  <2> DEFINE u == Fresh(Last(T[s]), Len(T[s]), "idle")
  <2>4. u \in View /\ SectionInv(T, S, s, u) /\ u.call = None /\ ~u.dirty
    BY <2>2, <2>3, Loading
  <2> QED
    BY <2>1, <2>4
<1>2. CASE s \in Rows /\ T[s] = <<>>
  BY <1>2, Hiding DEF Loaded
<1>3. CASE s \notin Rows
  <2>1. v = Hidden \/ v = Fresh({}, 0, "idle")
    BY <1>3 DEF Loaded
  <2>2. {} \in Text /\ 0 \in Nat
    BY DEF Text
  <2> QED
    BY <1>3, <2>1, <2>2, Loading, Hiding
<1> QED
  BY <1>1, <1>2, <1>3

-----------------------------------------------------------------------------
(* What a save does to the table.                                           *)

\* Versions are only added, and a row that has versions keeps its slot.
Extended(T, S, T2, S2) ==
    \A r \in Rows : \A k \in 1..Len(T[r]) :
        k \in 1..Len(T2[r]) /\ T2[r][k] = T[r][k] /\ S2[r] = S[r]

LEMMA Grown ==
    ASSUME NEW T, NEW S, NEW T2, NEW S2, Extended(T, S, T2, S2),
           NEW s, NEW v, SectionInv(T, S, s, v)
    PROVE  SectionInv(T2, S2, s, v)
<1>1. s \in Rows => RowInv(T2, s, v)
  BY DEF Extended, SectionInv, RowInv, Based, Holds
<1>2. s \in Placeholders => SlotInv(T2, S2, s, v)
  BY DEF Extended, SectionInv, SlotInv, Holds
<1> QED
  BY <1>1, <1>2 DEF SectionInv

LEMMA Updated ==
    ASSUME TypeOK, NothingSavedIsLost, NEW s \in Sections, NEW task \in Task, Update(s, task),
           s \in Rows => Based(table, s, task.base, task.text)
    PROVE  /\ s \in Rows
           /\ table' \in [Rows -> Seq(Text)] /\ slot' \in [Rows -> Placeholders \cup {NoSlot}]
           /\ NothingSavedIsLost' /\ Extended(table, slot, table', slot')
           /\ Holds(table', s, task.base + 1, task.text)
<1>1. s \in Rows /\ Len(table[s]) = task.base /\ task.text \in Text /\ task.base \in Nat
      /\ table' = [table EXCEPT ![s] = Append(table[s], task.text)] /\ slot' = slot
  BY DEF Update, Accepts, Task
<1>2. table[s] \in Seq(Text) /\ table \in [Rows -> Seq(Text)]
  BY <1>1 DEF TypeOK
<1>3. /\ table'[s] = Append(table[s], task.text) /\ table'[s] \in Seq(Text)
      /\ Len(table'[s]) = task.base + 1 /\ table'[s][task.base + 1] = task.text
      /\ \A k \in 1..Len(table[s]) : table'[s][k] = table[s][k]
  BY <1>1, <1>2
<1>4. \A r \in Rows \ {s} : table'[r] = table[r]
  BY <1>1, <1>2
<1>5. NothingSavedIsLost'
  <2> SUFFICES ASSUME NEW r \in Rows, NEW k \in 1..Len(table'[r]) - 1
               PROVE  table'[r][k] \subseteq table'[r][k + 1]
    BY DEF NothingSavedIsLost
  <2>1. CASE r # s
    BY <1>4, <2>1 DEF NothingSavedIsLost
  <2>2. CASE r = s /\ k = task.base
    BY <1>1, <1>3, <2>2 DEF Based
  <2>3. CASE r = s /\ k # task.base
    <3>1. k \in 1..Len(table[s]) - 1 /\ k \in 1..Len(table[s]) /\ k + 1 \in 1..Len(table[s])
      BY <1>1, <1>3, <2>3
    <3>2. table[s][k] \subseteq table[s][k + 1]
      BY <1>1, <3>1 DEF NothingSavedIsLost
    <3> QED
      BY <1>3, <2>3, <3>1, <3>2
  <2> QED
    BY <2>1, <2>2, <2>3
<1>6. Extended(table, slot, table', slot')
  BY <1>1, <1>3, <1>4 DEF Extended
<1>7. table' \in [Rows -> Seq(Text)] /\ slot' \in [Rows -> Placeholders \cup {NoSlot}]
  BY <1>1, <1>2, <1>3 DEF TypeOK
<1>8. Holds(table', s, task.base + 1, task.text)
  BY <1>1, <1>3 DEF Holds
<1> QED
  BY <1>1, <1>5, <1>6, <1>7, <1>8

LEMMA Created ==
    ASSUME TypeOK, NothingSavedIsLost, NEW s \in Sections, NEW task \in Task,
           NEW r \in Rows, Create(r, s, task)
    PROVE  /\ s \in Placeholders /\ table[r] = <<>>
           /\ table' \in [Rows -> Seq(Text)] /\ slot' \in [Rows -> Placeholders \cup {NoSlot}]
           /\ NothingSavedIsLost' /\ Extended(table, slot, table', slot')
           /\ Holds(table', r, 1, task.text) /\ slot'[r] = s
<1>1. s \in Placeholders /\ table[r] = <<>> /\ task.text \in Text
      /\ table' = [table EXCEPT ![r] = <<task.text>>] /\ slot' = [slot EXCEPT ![r] = s]
  BY DEF Create, Persisted, Task
<1>2. table \in [Rows -> Seq(Text)] /\ slot \in [Rows -> Placeholders \cup {NoSlot}]
  BY DEF TypeOK
<1>3. table'[r] = <<task.text>> /\ slot'[r] = s
      /\ \A q \in Rows \ {r} : table'[q] = table[q] /\ slot'[q] = slot[q]
  BY <1>1, <1>2
<1>4. Len(table'[r]) = 1 /\ table'[r][1] = task.text /\ table'[r] \in Seq(Text)
  BY <1>1, <1>3
<1>5. NothingSavedIsLost'
  BY <1>3, <1>4 DEF NothingSavedIsLost
<1>6. Extended(table, slot, table', slot')
  <2>1. 1..Len(table[r]) = {}
    BY <1>1
  <2> QED
    BY <1>3, <2>1 DEF Extended
<1>7. table' \in [Rows -> Seq(Text)] /\ slot' \in [Rows -> Placeholders \cup {NoSlot}]
  BY <1>1, <1>2, <1>4
<1>8. Holds(table', r, 1, task.text)
  BY <1>4 DEF Holds
<1> QED
  BY <1>1, <1>3, <1>5, <1>6, <1>7, <1>8

-----------------------------------------------------------------------------
(* The invariant holds initially.                                           *)

LEMMA HomepageInitially == Init => IInv
<1> SUFFICES ASSUME Init PROVE IInv
  OBVIOUS
<1>1. table \in [Rows -> Seq(Text)] /\ \A r \in Rows : Len(table[r]) \in {0, 1}
  <2>1. {} \in Text
    BY DEF Text
  <2> QED
    BY <2>1 DEF Init
<1>2. \A e \in Editors : \A s \in Sections :
        /\ page[e][s] \in View /\ SectionInv(table, slot, s, page[e][s])
        /\ page[e][s].call = None /\ ~page[e][s].dirty
  BY <1>1, LoadedPage DEF Init
<1>3. page \in [Editors -> [Sections -> View]]
  <2>1. Loaded(table, slot) \in [Sections -> View]
    <3>1. \A s \in Sections : Loaded(table, slot)[s] \in View
      BY <1>1, LoadedPage
    <3> QED
      BY <3>1 DEF Loaded
  <2> QED
    BY <2>1 DEF Init
<1>4. TypeOK
  BY <1>1, <1>3, BoundsAreNumbers DEF Init, TypeOK
<1>5. SectionsInv /\ NewsInv /\ OrphansInv
  <2>1. Placeholders \subseteq Sections /\ orphans = {}
    BY DEF Init, Sections
  <2> QED
    BY <1>2, <2>1 DEF SectionsInv, NewsInv, OrphansInv
<1>6. NothingSavedIsLost
  BY <1>1 DEF NothingSavedIsLost
<1>7. UnsavedWorkIsOnItsWay
  BY <1>2 DEF UnsavedWorkIsOnItsWay
<1> QED
  BY <1>4, <1>5, <1>6, <1>7 DEF IInv

-----------------------------------------------------------------------------
(* Every step preserves it, and lets no typing vanish.                      *)

\* Nothing that was shown disappears.
Stays == \A e \in Editors : \A s \in Sections :
            page[e][s].shown => page'[e][s].shown /\ page[e][s].text \subseteq page'[e][s].text

\* What TypingIsNeverUndone asks of a step.
NothingUndone ==
    \A e \in Editors : \A s \in Sections :
        \/ page'[e] = Loaded(table, slot)
        \/ \E t \in Sections : page[e][s].shown =>
              page'[e][t].shown /\ page[e][s].text \subseteq page'[e][t].text

\* A step of one section of one page; no row is written.
LEMMA OneSection ==
    ASSUME IInv, NEW e \in Editors, NEW s \in Sections, NEW w \in View,
           page' = [page EXCEPT ![e][s] = w],
           SectionInv(table, slot, s, w),
           w.shown = page[e][s].shown, page[e][s].text \subseteq w.text,
           w.call # None =>
                w.call = page[e][s].call \/ w.call.reply.outcome # "saved",
           \/ UNCHANGED rendered /\ Watched(w)
           \/ rendered' = [rendered EXCEPT ![e] = FALSE],
           UNCHANGED <<table, slot, orphans>>,
           edits' \in 0..MaxEdits, upsets' \in 0..MaxUpsets
    PROVE  IInv' /\ Stays
<1>1. page \in [Editors -> [Sections -> View]] /\ rendered \in [Editors -> BOOLEAN]
  BY DEF IInv, TypeOK
<1>2. /\ page' \in [Editors -> [Sections -> View]] /\ page'[e][s] = w
      /\ \A f \in Editors, t \in Sections : f # e \/ t # s => page'[f][t] = page[f][t]
  BY <1>1
<1>3. rendered' \in [Editors -> BOOLEAN]
      /\ \A f \in Editors : rendered'[f] => rendered[f] /\ (f = e => Watched(w))
  BY <1>1
<1>4. TypeOK'
  BY <1>2, <1>3 DEF IInv, TypeOK
<1>5. SectionsInv'
  BY <1>2 DEF IInv, SectionsInv
<1>6. \A f \in Editors, t \in Sections : page'[f][t].shown = page[f][t].shown
  BY <1>2
<1>7. NewsInv'
  <2> SUFFICES ASSUME NEW f \in Editors, NEW p \in Placeholders,
                      page'[f][p].call # None, page'[f][p].call.reply.outcome = "saved"
               PROVE  ~page'[f][page'[f][p].call.reply.section].shown
    BY DEF NewsInv
  <2>1. p \in Sections
    BY DEF Sections
  <2>2. page'[f][p].call = page[f][p].call
    BY <1>2, <2>1
  <2>3. PICK q \in Sections : q = page[f][p].call.reply.section
    BY <1>1, <2>1, <2>2 DEF View, Call, Reply
  <2>4. ~page[f][q].shown
    BY <2>2, <2>3 DEF IInv, NewsInv
  <2>5. ~page'[f][q].shown
    BY <1>6, <2>4
  <2> QED
    BY <2>2, <2>3, <2>5
<1>8. OrphansInv' /\ NothingSavedIsLost'
  BY DEF IInv, OrphansInv, NothingSavedIsLost
<1>9. UnsavedWorkIsOnItsWay'
  BY <1>2, <1>3 DEF IInv, UnsavedWorkIsOnItsWay, Watched
<1>10. Stays
  BY <1>2 DEF Stays
<1> QED
  BY <1>4, <1>5, <1>7, <1>8, <1>9, <1>10 DEF IInv

\* The server answers a request of a page, having written the table or not.
LEMMA OneAnswer ==
    ASSUME IInv, NEW e \in Editors, NEW s \in Sections, NEW reply \in Reply,
           NEW w \in View, SectionInv(table', slot', s, w), Watched(w),
           w.shown = page[e][s].shown, w.text = page[e][s].text,
           w.call # None, w.call.reply = reply,
           page' = [page EXCEPT ![e][s] = w],
           table' \in [Rows -> Seq(Text)], slot' \in [Rows -> Placeholders \cup {NoSlot}],
           NothingSavedIsLost', Extended(table, slot, table', slot'),
           Truthful(table', slot', s, reply, w.call.task.text),
           reply.outcome = "saved" /\ s \in Placeholders => table[reply.section] = <<>>,
           UNCHANGED <<rendered, orphans, edits>>, upsets' \in 0..MaxUpsets
    PROVE  IInv' /\ Stays
<1>1. page \in [Editors -> [Sections -> View]]
  BY DEF IInv, TypeOK
<1>5. /\ page' \in [Editors -> [Sections -> View]] /\ page'[e][s] = w
      /\ \A f \in Editors, t \in Sections : f # e \/ t # s => page'[f][t] = page[f][t]
  BY <1>1
<1>6. TypeOK'
  BY <1>5 DEF IInv, TypeOK
<1>7. SectionsInv'
  <2> SUFFICES ASSUME NEW f \in Editors, NEW t \in Sections
               PROVE  SectionInv(table', slot', t, page'[f][t])
    BY DEF SectionsInv
  <2>1. SectionInv(table', slot', t, page[f][t])
    BY Grown DEF IInv, SectionsInv
  <2> QED
    BY <1>5, <2>1
<1>8. \A f \in Editors, t \in Sections :
        page'[f][t].shown = page[f][t].shown /\ page'[f][t].text = page[f][t].text
  BY <1>5, Zenon
<1>9. NewsInv'
  <2> SUFFICES ASSUME NEW f \in Editors, NEW p \in Placeholders,
                      page'[f][p].call # None, page'[f][p].call.reply.outcome = "saved"
               PROVE  ~page'[f][page'[f][p].call.reply.section].shown
    BY DEF NewsInv
  <2>1. p \in Sections
    BY DEF Sections
  <2>2. CASE f = e /\ p = s
    <3>1. page'[f][p].call.reply = reply
      BY <1>5, <2>2
    <3>2. reply.section \in Rows /\ reply.section \in Sections
          /\ table[reply.section] = <<>>
      BY <2>2, <3>1 DEF Sections, Truthful
    <3>3. ~page[f][reply.section].shown
      <4>1. 1..Len(table[reply.section]) = {}
        BY <3>2
      <4> QED
        BY <3>2, <4>1 DEF IInv, SectionsInv, SectionInv, RowInv, Based
    <3>4. \A q \in Sections : ~page[f][q].shown => ~page'[f][q].shown
      BY <1>8
    <3> QED
      BY <3>1, <3>2, <3>3, <3>4, Zenon
  <2>3. CASE ~(f = e /\ p = s)
    <3>1. page'[f][p].call = page[f][p].call
      BY <1>5, <2>1, <2>3
    <3>2. page[f][p].call.reply.section \in Sections
      BY <1>1, <2>1, <3>1 DEF View, Call, Reply
    <3>3. ~page[f][page[f][p].call.reply.section].shown
      BY <3>1 DEF IInv, NewsInv
    <3>4. \A q \in Sections : ~page[f][q].shown => ~page'[f][q].shown
      BY <1>8
    <3> QED
      BY <3>1, <3>2, <3>3, <3>4
  <2> QED
    BY <2>2, <2>3, Zenon
<1>10. OrphansInv'
  <2>1. \A r \in Rows : \A base, text : Based(table, r, base, text) => Based(table', r, base, text)
    BY DEF Extended, Based
  <2> QED
    BY <2>1 DEF IInv, OrphansInv
<1>11. UnsavedWorkIsOnItsWay'
  BY <1>5 DEF IInv, UnsavedWorkIsOnItsWay, Watched
<1>12. Stays
  BY <1>8 DEF Stays
<1> QED
  BY <1>6, <1>7, <1>9, <1>10, <1>11, <1>12 DEF IInv

\* What is known of a section of a page.
LEMMA Known ==
    ASSUME IInv, NEW e \in Editors, NEW s \in Sections
    PROVE  \E v \in View : v = page[e][s] /\ SectionInv(table, slot, s, v)
<1>1. page[e][s] \in View
  BY DEF IInv, TypeOK
<1> QED
  BY <1>1 DEF IInv, SectionsInv

LEMMA EditFieldStep ==
    ASSUME IInv, NEW e \in Editors, NEW s \in Sections, NEW valid \in BOOLEAN,
           EditField(e, s, valid)
    PROVE  IInv' /\ Stays
<1>1. PICK v \in View : v = page[e][s] /\ SectionInv(table, slot, s, v)
  BY Known
<1>v. SectionInv(table, slot, s, v)
  BY <1>1
<1>7. PICK n : n = edits + 1
  OBVIOUS
<1>2. PICK w : w = AfterEdit(v, n, valid)
  OBVIOUS
<1>3. v.shown /\ n \in 1..MaxEdits
  BY <1>1, <1>7, BoundsAreNumbers DEF EditField, IInv, TypeOK
<1>6. edits' \in 0..MaxEdits /\ upsets' \in 0..MaxUpsets
  BY BoundsAreNumbers DEF EditField, IInv, TypeOK
<1>4. w \in View /\ SectionInv(table, slot, s, w)
  BY <1>v, <1>2, <1>3, Typed
<1>8. w.shown = v.shown
  BY <1>v, <1>2, <1>3, Typed
<1>9. v.text \subseteq w.text /\ w.call = v.call
  BY <1>v, <1>2, <1>3, Typed
<1>5. /\ page' = [page EXCEPT ![e][s] = w]
      /\ rendered' = [rendered EXCEPT ![e] = FALSE] /\ UNCHANGED <<table, slot, orphans>>
  BY <1>1, <1>2, <1>7 DEF EditField, AfterEdit
<1> QED
  BY <1>1, <1>4, <1>5, <1>6, <1>8, <1>9, OneSection

LEMMA RetryStep ==
    ASSUME IInv, NEW e \in Editors, NEW s \in Sections, Retry(e, s)
    PROVE  IInv' /\ Stays
<1>1. PICK v \in View : v = page[e][s] /\ SectionInv(table, slot, s, v)
  BY Known
<1>v. SectionInv(table, slot, s, v)
  BY <1>1
<1>2. PICK w : w = AfterRetry(v)
  OBVIOUS
<1>3. v.dirty /\ v.status = "error" /\ edits' \in 0..MaxEdits /\ upsets' \in 0..MaxUpsets
  BY <1>1, BoundsAreNumbers DEF Retry, IInv, TypeOK
<1>4. /\ w \in View /\ SectionInv(table, slot, s, w) /\ Watched(w)
      /\ w.shown = v.shown /\ w.text = v.text /\ w.call = v.call
  BY <1>v, <1>2, <1>3, Retried
<1>5. /\ page' = [page EXCEPT ![e][s] = w]
      /\ UNCHANGED rendered /\ UNCHANGED <<table, slot, orphans>>
  BY <1>1, <1>2 DEF Retry, AfterRetry
<1> QED
  BY <1>1, <1>3, <1>4, <1>5, OneSection

LEMMA TimerStep ==
    ASSUME IInv, NEW e \in Editors, NEW s \in Sections, Timer(e, s)
    PROVE  IInv' /\ Stays
<1>1. PICK v \in View : v = page[e][s] /\ SectionInv(table, slot, s, v)
  BY Known
<1>v. SectionInv(table, slot, s, v)
  BY <1>1
<1>2. edits' \in 0..MaxEdits /\ upsets' \in 0..MaxUpsets
      /\ UNCHANGED <<table, slot, orphans>>
  BY DEF Timer, TimerFires, TimerFiresInFlight, IInv, TypeOK
<1>5. v.pending # None
  BY <1>1 DEF Timer, TimerFires, TimerFiresInFlight
<1>3. PICK w : w = AfterTimer(v, s)
  OBVIOUS
<1>4. /\ w \in View /\ SectionInv(table, slot, s, w) /\ Watched(w)
      /\ w.shown = v.shown /\ w.text = v.text
      /\ w.call = v.call \/ w.call.reply.outcome = "sent"
  BY <1>v, <1>3, <1>5, Fired
<1>6. /\ page' = [page EXCEPT ![e][s] = w]
      /\ UNCHANGED rendered \/ rendered' = [rendered EXCEPT ![e] = FALSE]
  <2>1. CASE TimerFires(e, s)
    BY <1>1, <1>3, <2>1 DEF TimerFires, AfterTimer
  <2>2. CASE TimerFiresInFlight(e, s)
    BY <1>1, <1>3, <2>2 DEF TimerFiresInFlight, AfterTimer
  <2> QED
    BY <2>1, <2>2 DEF Timer
<1> QED
  BY <1>1, <1>2, <1>4, <1>6, OneSection

LEMMA ReceiveFailureStep ==
    ASSUME IInv, NEW e \in Editors, NEW s \in Sections, ReceiveFailure(e, s)
    PROVE  IInv' /\ Stays
<1>1. PICK v \in View : v = page[e][s] /\ SectionInv(table, slot, s, v)
  BY Known
<1>v. SectionInv(table, slot, s, v)
  BY <1>1
<1>2. PICK status : status = IF v.call.reply.outcome = "conflict" THEN "conflict" ELSE "error"
  OBVIOUS
<1>3. PICK w : w = AfterFailure(v, status)
  OBVIOUS
<1>4. status \in {"error", "conflict"}
  BY <1>2
<1>5. /\ w \in View /\ SectionInv(table, slot, s, w)
      /\ w.shown = v.shown /\ w.text = v.text /\ w.call = None
  BY <1>v, <1>3, <1>4, Refused
<1>6. /\ page' = [page EXCEPT ![e][s] = w]
      /\ rendered' = [rendered EXCEPT ![e] = FALSE] /\ UNCHANGED <<table, slot, orphans>>
      /\ edits' \in 0..MaxEdits /\ upsets' \in 0..MaxUpsets
  BY <1>1, <1>2, <1>3 DEF ReceiveFailure, AfterFailure, IInv, TypeOK
<1> QED
  BY <1>1, <1>5, <1>6, OneSection

LEMMA ReceiveSavedRowStep ==
    ASSUME IInv, NEW e \in Editors, NEW s \in Sections, ReceiveSavedRow(e, s)
    PROVE  IInv' /\ Stays
<1>1. PICK v \in View : v = page[e][s] /\ SectionInv(table, slot, s, v)
  BY Known
<1>v. SectionInv(table, slot, s, v)
  BY <1>1
<1>2. PICK full : full = Acknowledged(v)
  OBVIOUS
<1>3. PICK w : w = AfterSave(v, full)
  OBVIOUS
<1>4. s \in Rows /\ v.call # None /\ v.call.reply.outcome = "saved"
  BY <1>1 DEF ReceiveSavedRow
<1>5. /\ w \in View /\ SectionInv(table, slot, s, w)
      /\ w.shown = v.shown /\ w.text = v.text /\ w.call = None
  BY <1>v, <1>2, <1>3, <1>4, Saved
<1>6. /\ page' = [page EXCEPT ![e][s] = w]
      /\ rendered' = [rendered EXCEPT ![e] = FALSE] /\ UNCHANGED <<table, slot, orphans>>
      /\ edits' \in 0..MaxEdits /\ upsets' \in 0..MaxUpsets
  BY <1>1, <1>2, <1>3 DEF ReceiveSavedRow, AfterSave, IInv, TypeOK
<1> QED
  BY <1>1, <1>5, <1>6, OneSection

\* The effect goes over all sections of a page.
LEMMA RunEffectStep ==
    ASSUME IInv, NEW e \in Editors, RunEffect(e)
    PROVE  IInv' /\ Stays
<1>1. page \in [Editors -> [Sections -> View]] /\ rendered \in [Editors -> BOOLEAN]
  BY DEF IInv, TypeOK
<1>2. page' = [page EXCEPT ![e] = [s \in Sections |-> AfterEffect(page[e][s])]]
  BY DEF RunEffect
<1>3. \A s \in Sections : page'[e][s] = AfterEffect(page[e][s])
  BY <1>1, <1>2
<1>4. \A f \in Editors : f # e => page'[f] = page[f]
  BY <1>1, <1>2
<1>5. ASSUME NEW s \in Sections
      PROVE  LET w == page'[e][s] IN
             /\ w \in View /\ SectionInv(table, slot, s, w) /\ Watched(w)
             /\ w.shown = page[e][s].shown /\ w.text = page[e][s].text
             /\ w.call = page[e][s].call
  <2>1. PICK v \in View : v = page[e][s] /\ SectionInv(table, slot, s, v)
    BY <1>5, Known
  <2>v. SectionInv(table, slot, s, v)
    BY <2>1
  <2>2. PICK w : w = AfterEffect(v)
    OBVIOUS
  <2>3. /\ w \in View /\ SectionInv(table, slot, s, w) /\ Watched(w)
        /\ w.shown = v.shown /\ w.text = v.text /\ w.call = v.call
    BY <1>5, <2>v, <2>2, Effect
  <2>4. w = page'[e][s]
    BY <1>3, <2>1, <2>2
  <2> QED
    BY <2>1, <2>3, <2>4
<1>6. page' \in [Editors -> [Sections -> View]]
  BY <1>1, <1>2, <1>3, <1>5
<1>7. UNCHANGED <<table, slot, orphans, edits, upsets>>
      /\ rendered' = [rendered EXCEPT ![e] = TRUE]
  BY DEF RunEffect
<1>8. TypeOK'
  BY <1>1, <1>6, <1>7 DEF IInv, TypeOK
<1>9. SectionsInv'
  BY <1>4, <1>5, <1>7 DEF IInv, SectionsInv
<1>10. \A f \in Editors, s \in Sections :
        /\ page'[f][s].shown = page[f][s].shown /\ page'[f][s].text = page[f][s].text
        /\ page'[f][s].call = page[f][s].call
  BY <1>4, <1>5
<1>11. NewsInv'
  <2> SUFFICES ASSUME NEW f \in Editors, NEW p \in Placeholders,
                      page'[f][p].call # None, page'[f][p].call.reply.outcome = "saved"
               PROVE  ~page'[f][page'[f][p].call.reply.section].shown
    BY DEF NewsInv
  <2>1. p \in Sections
    BY DEF Sections
  <2>2. page'[f][p].call = page[f][p].call
    BY <1>10, <2>1
  <2>3. page[f][p].call.reply.section \in Sections
    BY <1>1, <2>1, <2>2 DEF View, Call, Reply
  <2> QED
    BY <1>10, <2>2, <2>3 DEF IInv, NewsInv
<1>12. OrphansInv' /\ NothingSavedIsLost'
  BY <1>7 DEF IInv, OrphansInv, NothingSavedIsLost
<1>13. UnsavedWorkIsOnItsWay'
  <2>1. \A f \in Editors : f # e => rendered'[f] = rendered[f]
    BY <1>1, <1>7
  <2> QED
    BY <1>4, <1>5, <2>1 DEF IInv, UnsavedWorkIsOnItsWay, Watched
<1>14. Stays
  BY <1>10 DEF Stays
<1> QED
  BY <1>8, <1>9, <1>11, <1>12, <1>13, <1>14 DEF IInv

\* The server answers a request; the table is as it was, or holds what was saved.
LEMMA AnswerStep ==
    ASSUME IInv, NEW e \in Editors, NEW s \in Sections, Outstanding(e, s),
           NEW outcome \in {"saved", "failed", "conflict"}, NEW r \in Sections,
           NEW version \in Nat,
           Answer(e, s, outcome, r, version),
           table' \in [Rows -> Seq(Text)], slot' \in [Rows -> Placeholders \cup {NoSlot}],
           NothingSavedIsLost', Extended(table, slot, table', slot'),
           outcome = "saved" =>
                /\ Holds(table', r, version, page[e][s].call.task.text)
                /\ s \in Rows => r = s
                /\ s \in Placeholders => r \in Rows /\ slot'[r] = s /\ table[r] = <<>>,
           UNCHANGED <<rendered, orphans, edits>>, upsets' \in 0..MaxUpsets
    PROVE  IInv' /\ Stays
<1>1. PICK v \in View : v = page[e][s] /\ SectionInv(table, slot, s, v)
  BY Known
<1>2. PICK reply : reply = [outcome |-> outcome, section |-> r, version |-> version]
  OBVIOUS
<1>3. reply \in Reply /\ reply.outcome = outcome /\ reply.section = r /\ reply.version = version
  BY <1>2 DEF Reply
<1>4. PICK w : w = AfterAnswer(v, reply)
  OBVIOUS
<1>5. v.call # None
  BY <1>1 DEF Outstanding
<1>S. PICK S : S = slot'
  OBVIOUS
<1>T. PICK T : T = table'
  OBVIOUS
<1>6. SectionInv(T, S, s, v)
  BY <1>1, <1>S, <1>T, Grown
<1>7. Truthful(T, S, s, reply, v.call.task.text)
  BY <1>1, <1>3, <1>S, <1>T DEF Truthful
<1>r. reply \in Reply
  BY <1>3
<1>8. w \in View /\ SectionInv(T, S, s, w) /\ Watched(w) /\ OnlyAnswered(v, w, reply)
  BY <1>r, <1>4, <1>5, <1>6, <1>7, Answered
<1>11. /\ w.shown = v.shown /\ w.text = v.text
       /\ w.call # None /\ w.call.reply = reply /\ w.call.task = v.call.task
  BY <1>8 DEF OnlyAnswered
<1>9. SectionInv(table', slot', s, w) /\ Truthful(table', slot', s, reply, w.call.task.text)
  BY <1>7, <1>8, <1>11, <1>S, <1>T
<1>10. page' = [page EXCEPT ![e][s] = w]
  BY <1>1, <1>2, <1>4 DEF Answer, AfterAnswer
<1>12. reply.outcome = "saved" /\ s \in Placeholders => table[reply.section] = <<>>
  BY <1>3
<1> QED
  BY <1>1, <1>3, <1>8, <1>9, <1>10, <1>11, <1>12, OneAnswer

\* A request that is out: what it carries.
LEMMA Carried ==
    ASSUME IInv, NEW e \in Editors, NEW s \in Sections, Outstanding(e, s)
    PROVE  LET task == page[e][s].call.task IN
           task \in Task /\ (s \in Rows => Based(table, s, task.base, task.text))
<1>1. PICK v \in View : v = page[e][s] /\ SectionInv(table, slot, s, v)
  BY Known
<1>2. v.call # None
  BY <1>1 DEF Outstanding
<1>3. v.call.task \in Task
  BY <1>2 DEF View, Call
<1>4. s \in Rows => Based(table, s, v.call.task.base, v.call.task.text)
  BY <1>1, <1>2 DEF SectionInv, RowInv
<1> QED
  BY <1>1, <1>3, <1>4

\* A step that does not touch the table.
LEMMA Untouched ==
    ASSUME IInv, UNCHANGED <<table, slot>>
    PROVE  /\ table' \in [Rows -> Seq(Text)] /\ slot' \in [Rows -> Placeholders \cup {NoSlot}]
           /\ NothingSavedIsLost' /\ Extended(table, slot, table', slot')
  BY DEF IInv, TypeOK, NothingSavedIsLost, Extended

LEMMA ServerSavesStep ==
    ASSUME IInv, NEW e \in Editors, NEW s \in Sections, ServerSaves(e, s)
    PROVE  IInv' /\ Stays
<1>0. Outstanding(e, s) /\ UNCHANGED <<rendered, orphans, edits>> /\ upsets' \in 0..MaxUpsets
      /\ TypeOK /\ NothingSavedIsLost
  BY DEF ServerSaves, IInv, TypeOK
<1>1. PICK task : task = page[e][s].call.task
  OBVIOUS
<1>2. task \in Task /\ (s \in Rows => Based(table, s, task.base, task.text))
  BY <1>0, <1>1, Carried
<1>3. CASE Update(s, task) /\ Answer(e, s, "saved", s, task.base + 1)
  <2>1. /\ s \in Rows
        /\ table' \in [Rows -> Seq(Text)] /\ slot' \in [Rows -> Placeholders \cup {NoSlot}]
        /\ NothingSavedIsLost' /\ Extended(table, slot, table', slot')
        /\ Holds(table', s, task.base + 1, task.text)
    BY <1>0, <1>2, <1>3, Updated
  <2>2. PICK version \in Nat : version = task.base + 1
    BY <1>2 DEF Task
  <2>3. s \notin Placeholders /\ Answer(e, s, "saved", s, version)
        /\ Holds(table', s, version, page[e][s].call.task.text)
    BY <1>1, <1>3, <2>1, <2>2, RowsAndSlots
  <2> QED
    BY <1>0, <2>1, <2>3, AnswerStep
<1>4. CASE \E r \in Rows : Create(r, s, task) /\ Answer(e, s, "saved", r, 1)
  <2>0. PICK r \in Rows : Create(r, s, task) /\ Answer(e, s, "saved", r, 1)
    BY <1>4
  <2>1. /\ s \in Placeholders /\ table[r] = <<>>
        /\ table' \in [Rows -> Seq(Text)] /\ slot' \in [Rows -> Placeholders \cup {NoSlot}]
        /\ NothingSavedIsLost' /\ Extended(table, slot, table', slot')
        /\ Holds(table', r, 1, task.text) /\ slot'[r] = s
    BY <1>0, <1>2, <2>0, Created
  <2>2. r \in Sections /\ s \notin Rows
    BY <2>1, RowsAndSlots DEF Sections
  <2>3. Holds(table', r, 1, page[e][s].call.task.text)
    BY <1>1, <2>1
  <2> QED
    BY <1>0, <2>0, <2>1, <2>2, <2>3, AnswerStep
<1> QED
  BY <1>1, <1>3, <1>4 DEF ServerSaves

LEMMA ServerSavesButFailsStep ==
    ASSUME IInv, NEW e \in Editors, NEW s \in Sections, ServerSavesButFails(e, s)
    PROVE  IInv' /\ Stays
<1>0. Outstanding(e, s) /\ UNCHANGED <<rendered, orphans, edits>> /\ upsets' \in 0..MaxUpsets
      /\ Answer(e, s, "failed", s, 0) /\ TypeOK /\ NothingSavedIsLost
  BY BoundsAreNumbers DEF ServerSavesButFails, Upset, IInv, TypeOK
<1>1. PICK task : task = page[e][s].call.task
  OBVIOUS
<1>2. task \in Task /\ (s \in Rows => Based(table, s, task.base, task.text))
  BY <1>0, <1>1, Carried
<1>3. Update(s, task) \/ \E r \in Rows : Create(r, s, task)
  BY <1>1 DEF ServerSavesButFails
<1>4. /\ table' \in [Rows -> Seq(Text)] /\ slot' \in [Rows -> Placeholders \cup {NoSlot}]
      /\ NothingSavedIsLost' /\ Extended(table, slot, table', slot')
  BY <1>0, <1>2, <1>3, Updated, Created
<1> QED
  BY <1>0, <1>4, AnswerStep

LEMMA SaveFailsStep ==
    ASSUME IInv, NEW e \in Editors, NEW s \in Sections, SaveFails(e, s)
    PROVE  IInv' /\ Stays
<1>0. Outstanding(e, s) /\ UNCHANGED <<table, slot>> /\ UNCHANGED <<rendered, orphans, edits>>
      /\ Answer(e, s, "failed", s, 0)
  BY DEF SaveFails
<1>1. upsets' \in 0..MaxUpsets
  BY BoundsAreNumbers DEF SaveFails, Upset, IInv, TypeOK
<1> QED
  BY <1>0, <1>1, Untouched, AnswerStep

LEMMA ServerRefusesStep ==
    ASSUME IInv, NEW e \in Editors, NEW s \in Sections, ServerRefuses(e, s)
    PROVE  IInv' /\ Stays
<1>0. Outstanding(e, s) /\ UNCHANGED <<table, slot>> /\ UNCHANGED <<rendered, orphans, edits>>
      /\ Answer(e, s, "conflict", s, 0) /\ upsets' \in 0..MaxUpsets
  BY DEF ServerRefuses, IInv, TypeOK
<1> QED
  BY <1>0, Untouched, AnswerStep

\* A request without a page arrives, or is lost.
LEMMA OrphanArrivesStep ==
    ASSUME IInv, NEW o \in orphans, OrphanArrives(o)
    PROVE  IInv' /\ Stays
<1>0. /\ orphans' = orphans \ {o} /\ UNCHANGED <<page, rendered, edits, upsets>>
      /\ TypeOK /\ NothingSavedIsLost /\ o \in [section : Sections, task : Task]
  BY DEF OrphanArrives, IInv, TypeOK
<1>1. o.section \in Sections /\ o.task \in Task
      /\ (o.section \in Rows => Based(table, o.section, o.task.base, o.task.text))
  BY <1>0 DEF IInv, OrphansInv
<1>2. /\ table' \in [Rows -> Seq(Text)] /\ slot' \in [Rows -> Placeholders \cup {NoSlot}]
      /\ NothingSavedIsLost' /\ Extended(table, slot, table', slot')
  <2>1. CASE Update(o.section, o.task)
    BY <1>0, <1>1, <2>1, Updated
  <2>2. CASE \E r \in Rows : Create(r, o.section, o.task)
    BY <1>0, <1>1, <2>2, Created
  <2>3. CASE UNCHANGED <<table, slot>>
    BY <2>3, Untouched
  <2> QED
    BY <2>1, <2>2, <2>3 DEF OrphanArrives
<1>3. TypeOK'
  BY <1>0, <1>2 DEF TypeOK
<1>4. SectionsInv'
  BY <1>0, <1>2, Grown DEF IInv, SectionsInv
<1>5. OrphansInv'
  <2>1. \A r \in Rows : \A base, text : Based(table, r, base, text) => Based(table', r, base, text)
    BY <1>2 DEF Extended, Based
  <2> QED
    BY <1>0, <2>1 DEF IInv, OrphansInv
<1>6. NewsInv' /\ UnsavedWorkIsOnItsWay' /\ Stays
  BY <1>0 DEF IInv, NewsInv, UnsavedWorkIsOnItsWay, Stays
<1> QED
  BY <1>2, <1>3, <1>4, <1>5, <1>6 DEF IInv

\* The row of a slot is created and the draft was not edited meanwhile: the row takes the
\* slot's place, with everything the slot said.
LEMMA SlotGivesWay ==
    ASSUME IInv, NEW e \in Editors, NEW s \in Sections, ReceiveCreatedRow(e, s),
           Acknowledged(page[e][s])
    PROVE  IInv' /\ NothingUndone
<1>1. PICK v \in View : v = page[e][s] /\ SectionInv(table, slot, s, v)
  BY Known
<1>2. PICK r : r = v.call.reply.section
  OBVIOUS
<1>3. PICK u : u = Fresh(v.call.task.text, v.call.reply.version, "saved")
  OBVIOUS
<1>4. s \in Placeholders /\ s \notin Rows /\ v.call # None /\ v.call.reply.outcome = "saved"
  BY <1>1, RowsAndSlots DEF ReceiveCreatedRow
<1>5. /\ r \in Rows /\ r \in Sections /\ slot[r] = s
      /\ Holds(table, r, v.call.reply.version, v.call.task.text)
  BY <1>1, <1>2, <1>4 DEF SectionInv, SlotInv, Sections
<1>6. v.call.task.text \in Text /\ v.call.reply.version \in Nat
  BY <1>4 DEF View, Call, Task, Reply
<1>7. v.shown /\ v.call.task.text = v.text
  BY <1>1, <1>4 DEF Acknowledged, SectionInv, SchedulerInv, Captured
<1>8. u \in View /\ SectionInv(table, slot, r, u)
      /\ u.shown /\ u.call = None /\ u.text = v.text /\ ~u.dirty
  <2>1. PICK text \in Text, version \in Nat :
            text = v.call.task.text /\ version = v.call.reply.version
    BY <1>6
  <2>2. r \in Sections /\ Holds(table, r, version, text)
    BY <1>5, <2>1
  <2>3. Fresh(text, version, "saved") \in View
        /\ SectionInv(table, slot, r, Fresh(text, version, "saved"))
    BY <2>2, Loading
  <2>4. u = Fresh(text, version, "saved")
    BY <1>3, <2>1
  <2>5. u.shown /\ u.call = None /\ u.text = text /\ ~u.dirty
    BY <2>4 DEF Fresh
  <2> QED
    BY <1>7, <2>1, <2>3, <2>4, <2>5
<1>9. UNCHANGED <<table, slot, orphans, edits, upsets>>
      /\ rendered' = [rendered EXCEPT ![e] = FALSE]
  BY DEF ReceiveCreatedRow
<1>10. page \in [Editors -> [Sections -> View]] /\ rendered \in [Editors -> BOOLEAN]
  BY DEF IInv, TypeOK
<1>11. page' = [page EXCEPT ![e] = [page[e] EXCEPT ![s] = Hidden, ![r] = u]]
  BY <1>1, <1>2, <1>3 DEF ReceiveCreatedRow
<1>12. /\ page'[e][s] = Hidden /\ page'[e][r] = u
       /\ \A t \in Sections \ {r, s} : page'[e][t] = page[e][t]
       /\ \A f \in Editors \ {e} : page'[f] = page[f]
  BY <1>4, <1>5, <1>10, <1>11
<1>13. Hidden \in View /\ SectionInv(table, slot, s, Hidden)
       /\ ~Hidden.shown /\ Hidden.call = None /\ ~Hidden.dirty
  BY Hiding
<1>14. TypeOK'
  <2>1. page' \in [Editors -> [Sections -> View]]
    BY <1>5, <1>8, <1>10, <1>11, <1>13
  <2> QED
    BY <1>9, <1>10, <2>1 DEF IInv, TypeOK
<1>15. SectionsInv'
  BY <1>8, <1>9, <1>12, <1>13 DEF IInv, SectionsInv
<1>16. NewsInv'
  <2> SUFFICES ASSUME NEW f \in Editors, NEW p \in Placeholders,
                      page'[f][p].call # None, page'[f][p].call.reply.outcome = "saved"
               PROVE  ~page'[f][page'[f][p].call.reply.section].shown
    BY DEF NewsInv
  <2>0. p \in Sections /\ p # r
    BY <1>5, RowsAndSlots DEF Sections
  <2>1. page'[f][p] = page[f][p] /\ ~(f = e /\ p = s)
    BY <1>12, <1>13, <2>0
  <2>2. PICK q : q = page[f][p].call.reply.section
    OBVIOUS
  <2>3. q \in Rows /\ q \in Sections /\ slot[q] = p /\ ~page[f][q].shown
    BY <2>0, <2>1, <2>2 DEF IInv, NewsInv, SectionsInv, SectionInv, SlotInv, Sections
  <2>4. f = e => q # r /\ q # s
    BY <1>4, <1>5, <2>1, <2>3
  <2>5. page'[f][q] = page[f][q]
    BY <1>12, <2>3, <2>4
  <2> QED
    BY <2>1, <2>2, <2>3, <2>5
<1>17. OrphansInv' /\ NothingSavedIsLost'
  BY <1>9 DEF IInv, OrphansInv, NothingSavedIsLost
<1>18. UnsavedWorkIsOnItsWay'
  <2>1. ~rendered'[e] /\ \A f \in Editors \ {e} : rendered'[f] = rendered[f]
    BY <1>9, <1>10
  <2> QED
    BY <1>12, <2>1 DEF IInv, UnsavedWorkIsOnItsWay
<1>19. NothingUndone
  <2> SUFFICES ASSUME NEW f \in Editors, NEW q \in Sections
               PROVE  \E t \in Sections : page[f][q].shown =>
                        page'[f][t].shown /\ page[f][q].text \subseteq page'[f][t].text
    BY DEF NothingUndone
  <2>1. CASE f = e /\ q = s
    <3>1. page'[f][r].shown /\ page[f][q].text \subseteq page'[f][r].text
      BY <1>1, <1>8, <1>12, <2>1
    <3> QED
      BY <1>5, <3>1
  <2>2. CASE f = e /\ q = r
    <3>1. ~page[e][r].shown
      BY <1>1, <1>2, <1>4 DEF IInv, NewsInv
    <3> QED
      BY <2>2, <3>1
  <2>3. CASE f # e \/ q \notin {r, s}
    BY <1>12, <2>3
  <2> QED
    BY <2>1, <2>2, <2>3
<1> QED
  BY <1>14, <1>15, <1>16, <1>17, <1>18, <1>19 DEF IInv

\* It was edited meanwhile, and stays a slot.
LEMMA SlotStays ==
    ASSUME IInv, NEW e \in Editors, NEW s \in Sections, ReceiveCreatedRow(e, s),
           ~Acknowledged(page[e][s])
    PROVE  IInv' /\ Stays
<1>1. PICK v \in View : v = page[e][s] /\ SectionInv(table, slot, s, v)
  BY Known
<1>v. SectionInv(table, slot, s, v)
  BY <1>1
<1>3. PICK w : w = AfterCreation(v)
  OBVIOUS
<1>4. s \in Placeholders /\ v.call # None /\ ~Acknowledged(v)
  BY <1>1 DEF ReceiveCreatedRow
<1>5. /\ w \in View /\ SectionInv(table, slot, s, w)
      /\ w.shown = v.shown /\ w.text = v.text /\ w.call = None
  BY <1>v, <1>3, <1>4, KeptAsSlot
<1>6. /\ page' = [page EXCEPT ![e][s] = w]
      /\ rendered' = [rendered EXCEPT ![e] = FALSE] /\ UNCHANGED <<table, slot, orphans>>
      /\ edits' \in 0..MaxEdits /\ upsets' \in 0..MaxUpsets
  BY <1>1, <1>3, <1>4 DEF ReceiveCreatedRow, AfterCreation, IInv, TypeOK
<1> QED
  BY <1>1, <1>5, <1>6, OneSection

LEMMA ReloadStep ==
    ASSUME IInv, NEW e \in Editors, Reload(e)
    PROVE  IInv' /\ NothingUndone
<1>1. page \in [Editors -> [Sections -> View]] /\ rendered \in [Editors -> BOOLEAN]
      /\ table \in [Rows -> Seq(Text)]
  BY DEF IInv, TypeOK
<1>2. /\ page' = [page EXCEPT ![e] = Loaded(table, slot)]
      /\ rendered' = [rendered EXCEPT ![e] = TRUE]
      /\ UNCHANGED <<table, slot, edits>> /\ upsets' \in 0..MaxUpsets
  BY BoundsAreNumbers DEF Reload, Upset, IInv, TypeOK
<1>3. /\ page'[e] = Loaded(table, slot)
      /\ \A f \in Editors \ {e} : page'[f] = page[f] /\ rendered'[f] = rendered[f]
  BY <1>1, <1>2
<1>4. \A s \in Sections :
        /\ page'[e][s] \in View /\ SectionInv(table, slot, s, page'[e][s])
        /\ page'[e][s].call = None /\ ~page'[e][s].dirty
  BY <1>1, <1>3, LoadedPage
<1>5. \A o \in orphans' : \/ o \in orphans
                          \/ \E s \in Sections : /\ Outstanding(e, s)
                                /\ o = [section |-> s, task |-> page[e][s].call.task]
  BY DEF Reload
<1>6. \A o \in orphans' :
        /\ o \in [section : Sections, task : Task]
        /\ o.section \in Rows => Based(table, o.section, o.task.base, o.task.text)
  <2> SUFFICES ASSUME NEW o \in orphans', o \notin orphans
               PROVE  /\ o \in [section : Sections, task : Task]
                      /\ o.section \in Rows => Based(table, o.section, o.task.base, o.task.text)
    BY DEF IInv, TypeOK, OrphansInv
  <2>1. PICK s \in Sections :
            Outstanding(e, s) /\ o = [section |-> s, task |-> page[e][s].call.task]
    BY <1>5
  <2>2. PICK task : task = page[e][s].call.task
    OBVIOUS
  <2>3. task \in Task /\ (s \in Rows => Based(table, s, task.base, task.text))
    BY <2>1, <2>2, Carried
  <2> QED
    BY <2>1, <2>2, <2>3
<1>7. TypeOK'
  <2>1. Loaded(table, slot) \in [Sections -> View]
    BY <1>3, <1>4 DEF Loaded
  <2>2. page' \in [Editors -> [Sections -> View]]
    BY <1>1, <1>2, <2>1
  <2>3. orphans' \subseteq [section : Sections, task : Task]
    BY <1>6
  <2> QED
    BY <1>1, <1>2, <2>2, <2>3 DEF IInv, TypeOK
<1>8. SectionsInv'
  BY <1>2, <1>3, <1>4 DEF IInv, SectionsInv
<1>9. NewsInv'
  <2>1. Placeholders \subseteq Sections
    BY DEF Sections
  <2> QED
    BY <1>3, <1>4, <2>1 DEF IInv, NewsInv
<1>10. OrphansInv' /\ NothingSavedIsLost'
  BY <1>2, <1>6 DEF IInv, OrphansInv, NothingSavedIsLost
<1>11. UnsavedWorkIsOnItsWay'
  BY <1>3, <1>4 DEF IInv, UnsavedWorkIsOnItsWay
<1>12. NothingUndone
  BY <1>3 DEF NothingUndone
<1> QED
  BY <1>7, <1>8, <1>9, <1>10, <1>11, <1>12 DEF IInv

\* Every step.
LEMMA Step == IInv /\ [Next]_vars => IInv' /\ NothingUndone
<1> SUFFICES ASSUME IInv, [Next]_vars PROVE IInv' /\ NothingUndone
  OBVIOUS
<1>1. Stays => NothingUndone
  BY DEF Stays, NothingUndone
<1>2. ASSUME NEW e \in Editors, RunEffect(e) PROVE IInv' /\ NothingUndone
  BY <1>1, <1>2, RunEffectStep
<1>3. ASSUME NEW e \in Editors, Reload(e) PROVE IInv' /\ NothingUndone
  BY <1>3, ReloadStep
<1>4. ASSUME NEW e \in Editors, NEW s \in Sections, NEW valid \in BOOLEAN, EditField(e, s, valid)
      PROVE  IInv' /\ NothingUndone
  BY <1>1, <1>4, EditFieldStep
<1>5. ASSUME NEW e \in Editors, NEW s \in Sections, Retry(e, s) \/ Timer(e, s)
      PROVE  IInv' /\ NothingUndone
  BY <1>1, <1>5, RetryStep, TimerStep
<1>6. ASSUME NEW e \in Editors, NEW s \in Sections, Serve(e, s) PROVE IInv' /\ NothingUndone
  BY <1>1, <1>6, ServerSavesStep, ServerSavesButFailsStep, SaveFailsStep, ServerRefusesStep
  DEF Serve
<1>7. ASSUME NEW e \in Editors, NEW s \in Sections, Receive(e, s)
      PROVE  IInv' /\ NothingUndone
  BY <1>1, <1>7, ReceiveFailureStep, ReceiveSavedRowStep, SlotGivesWay, SlotStays DEF Receive
<1>8. ASSUME NEW o \in orphans, OrphanArrives(o) PROVE IInv' /\ NothingUndone
  BY <1>1, <1>8, OrphanArrivesStep
<1>9. CASE UNCHANGED vars
  <2>1. IInv'
    BY <1>9 DEF vars, IInv, TypeOK, SectionsInv, NewsInv, OrphansInv, NothingSavedIsLost,
                UnsavedWorkIsOnItsWay
  <2>2. Stays
    BY <1>9 DEF vars, Stays
  <2> QED
    BY <1>1, <2>1, <2>2
<1> QED
  BY <1>2, <1>3, <1>4, <1>5, <1>6, <1>7, <1>8, <1>9 DEF Next

-----------------------------------------------------------------------------
(* The theorems about the homepage builder.                                 *)

\* In every reachable state, for every set of editors, rows and slots, the inductive
\* invariant of the homepage builder holds: what is pending or out was taken from the draft,
\* and what is saved is in the row it says.
THEOREM Invariance == Spec => []IInv
<1>1. Init => IInv
  BY HomepageInitially
<1>2. IInv /\ [Next]_vars => IInv'
  BY Step
<1> QED
  BY <1>1, <1>2, PTL DEF Spec

\* The variables of the homepage builder keep their types.
THEOREM TypeCorrect == Spec => []TypeOK
<1>1. IInv => TypeOK
  BY DEF IInv
<1> QED
  BY <1>1, Invariance, PTL

\* No page overwrites work it has not seen: every version of a row contains the version
\* before it, whoever saves, reloads, retries or is answered late (updateIfCurrent).
THEOREM SavedEditsStay == Spec => []NothingSavedIsLost
<1>1. IInv => NothingSavedIsLost
  BY DEF IInv
<1> QED
  BY <1>1, Invariance, PTL

\* The status line of the builder tells the truth: "saved" shows what the server holds, and
\* unsaved work that reports no failure has a timer or a request (homepage-editor.reducer.ts,
\* use-homepage-autosave.ts).
THEOREM StatusLineIsTrue == Spec => []StatusIsTrue
<1>1. ASSUME IInv, NEW e \in Editors, NEW r \in Rows, page[e][r].shown,
             page[e][r].status = "saved"
      PROVE  page[e][r].base \in 1..Len(table[r]) /\ page[e][r].text = table[r][page[e][r].base]
  <2>1. RowInv(table, r, page[e][r])
    BY <1>1 DEF IInv, SectionsInv, SectionInv, Sections
  <2> QED
    BY <1>1, <2>1 DEF RowInv, Holds
<1>2. IInv => SavedMeansPersisted
  BY <1>1 DEF SavedMeansPersisted
<1>3. IInv => StatusIsTrue
  BY <1>2 DEF IInv, StatusIsTrue
<1> QED
  BY <1>3, Invariance, PTL

\* Short of a reload no step takes away what an editor typed, not even the answer to an
\* older draft's save or the row that replaces a slot (save-succeeded of the reducer).
THEOREM TypingStays == Spec => TypingIsNeverUndone
<1>1. IInv /\ [Next]_vars => [NothingUndone]_vars
  BY Step
<1>2. TypingIsNeverUndone <=> [][NothingUndone]_vars
  BY DEF TypingIsNeverUndone, NothingUndone
<1> QED
  BY <1>1, <1>2, Invariance, PTL DEF Spec
================================================================================
