-------------------------- MODULE StoryAutosave_proofs --------------------------
(***************************************************************************)
(* Proofs about StoryAutosave, for every number of edits and upsets.       *)
(*                                                                         *)
(* Its safety rests on the queue: who has the turn is at its head, a       *)
(* submission that waits keeps the page as it was shown, and what is not   *)
(* dirty is what was saved.                                                *)
(***************************************************************************)
EXTENDS StoryAutosave, TLAPS

-----------------------------------------------------------------------------
(* The queue.                                                               *)

Waits(queue, op) == \E i \in DOMAIN queue : queue[i] = op
OneUpload(queue) ==
    \A i, j \in DOMAIN queue : queue[i] = "upload" /\ queue[j] = "upload" => i = j

\* Something takes its place at the end of the queue.
LEMMA Joined ==
    ASSUME NEW q \in Seq(Ops), NEW op \in Ops
    PROVE  LET q2 == Append(q, op) IN
           /\ q2 \in Seq(Ops) /\ q2 # <<>>
           /\ q # <<>> => Head(q2) = Head(q)
           /\ \A x : Waits(q2, x) <=> Waits(q, x) \/ x = op
           /\ OneUpload(q) /\ (op = "upload" => ~Waits(q, "upload")) => OneUpload(q2)
<1> DEFINE q2 == Append(q, op)
<1>1. q2 \in Seq(Ops) /\ Len(q2) = Len(q) + 1 /\ q2[Len(q) + 1] = op
      /\ \A i \in 1..Len(q) : q2[i] = q[i]
  OBVIOUS
<1>2. Len(q) \in Nat /\ DOMAIN q = 1..Len(q) /\ DOMAIN q2 = 1..Len(q) + 1
  BY <1>1
<1>3. q2 # <<>> /\ (q # <<>> => Head(q2) = Head(q))
  BY <1>1, <1>2
<1> HIDE DEF q2
<1>4. ASSUME NEW x PROVE Waits(q2, x) <=> Waits(q, x) \/ x = op
  <2>1. ASSUME Waits(q2, x) PROVE Waits(q, x) \/ x = op
    BY <1>1, <1>2, <2>1 DEF Waits
  <2>2. ASSUME Waits(q, x) PROVE Waits(q2, x)
    BY <1>1, <1>2, <2>2 DEF Waits
  <2>3. Waits(q2, op)
    BY <1>1, <1>2 DEF Waits
  <2> QED
    BY <2>1, <2>2, <2>3
<1>5. ASSUME OneUpload(q), op = "upload" => ~Waits(q, "upload") PROVE OneUpload(q2)
  BY <1>1, <1>2, <1>5 DEF OneUpload, Waits
<1> QED
  BY <1>1, <1>3, <1>4, <1>5 DEF q2

\* The first of the queue leaves it.
LEMMA Left ==
    ASSUME NEW q \in Seq(Ops), q # <<>>
    PROVE  /\ Head(q) \in Ops /\ Waits(q, Head(q)) /\ Tail(q) \in Seq(Ops)
           /\ \A x : Waits(Tail(q), x) => Waits(q, x)
           /\ OneUpload(q) => OneUpload(Tail(q))
           /\ OneUpload(q) /\ Head(q) = "upload" => ~Waits(Tail(q), "upload")
<1>1. Len(q) \in Nat /\ Len(q) > 0 /\ DOMAIN q = 1..Len(q) /\ Head(q) = q[1]
      /\ Head(q) \in Ops
  OBVIOUS
<1>2. Tail(q) \in Seq(Ops) /\ DOMAIN Tail(q) = 1..Len(q) - 1
      /\ \A i \in 1..Len(q) - 1 : Tail(q)[i] = q[i + 1]
  OBVIOUS
<1>3. \A i \in DOMAIN Tail(q) : i + 1 \in DOMAIN q /\ i + 1 # 1 /\ Tail(q)[i] = q[i + 1]
  BY <1>1, <1>2
<1>4. 1 \in DOMAIN q
  BY <1>1
<1>5. Waits(q, Head(q))
  BY <1>1, <1>4 DEF Waits
<1>6. \A x : Waits(Tail(q), x) => Waits(q, x)
  BY <1>3 DEF Waits
<1>7. ASSUME OneUpload(q) PROVE OneUpload(Tail(q))
  <2> SUFFICES ASSUME NEW i \in DOMAIN Tail(q), NEW j \in DOMAIN Tail(q),
                      Tail(q)[i] = "upload", Tail(q)[j] = "upload"
               PROVE  i = j
    BY DEF OneUpload
  <2>1. i + 1 = j + 1
    BY <1>3, <1>7 DEF OneUpload
  <2>2. i \in Nat /\ j \in Nat
    BY <1>1, <1>2
  <2> QED
    BY <2>1, <2>2
<1>8. ASSUME OneUpload(q), Head(q) = "upload" PROVE ~Waits(Tail(q), "upload")
  BY <1>1, <1>3, <1>4, <1>8 DEF OneUpload, Waits
<1> QED
  BY <1>1, <1>2, <1>5, <1>6, <1>7, <1>8

-----------------------------------------------------------------------------
(* The inductive invariant.                                                 *)

Calling(op) == page.call # None /\ page.call.request.op = op

\* The queue: the request that is out has the turn, and at most one upload waits for one.
TurnsInv ==
    /\ page.call # None => page.queue # <<>> /\ page.call.request.op = Head(page.queue)
    /\ page.stopped => page.call = None
    /\ Waits(page.queue, "upload") => page.upload = "queued"
    /\ OneUpload(page.queue)
    /\ page.upload # "none" => edits < MaxEdits

\* The draft: what was sent is the draft unless it was edited since, and what is not
\* dirty was saved.
DraftInv ==
    /\ ~page.dirty => page.generation = page.savedGeneration
    /\ page.call # None =>
        /\ page.call.request.generation <= page.generation
        /\ page.call.request.generation = page.generation =>
            page.call.request.draft = page.draft
    /\ Calling("save") => page.status = "saving" /\ page.dirty
    /\ page.unwritten # None => page.unwritten.draft = page.draft

\* The row: it holds the draft whose save was answered, and the draft that is called saved,
\* until an upload has added its item.
StoredInv ==
    /\ page.open /\ ~late /\ Calling("save") /\ page.call.reply = "success" =>
        server.draft = page.call.request.draft
    /\ page.open /\ ~late /\ ~page.dirty /\ page.status = "saved"
       /\ ~(Calling("upload") /\ page.call.reply = "success") =>
        server.draft = page.draft

\* The submission: while it waits for its turn or is out, the page stays as it was shown.
SubmissionInv ==
    /\ page.open /\ ~page.stopped /\ Waits(page.queue, "submit") =>
        ~page.dirty /\ page.status = "saved" /\ page.upload = "none" /\ shown = page.draft
    /\ server.status = "submitted" /\ ~late =>
        /\ server.draft = shown
        /\ page.open => page.stopped \/ (Calling("submit") /\ page.call.reply = "success")

IInv == TypeOK /\ TurnsInv /\ DraftInv /\ StoredInv /\ SubmissionInv
            /\ RecoveryKept

-----------------------------------------------------------------------------
(* It holds initially, and every step preserves it.                         *)

\* A field of the page is set to something of its type.
LEMMA PageFields ==
    ASSUME NEW p \in Page
    PROVE  /\ \A x \in Seq(Ops) : [p EXCEPT !.queue = x] \in Page
           /\ \A x \in {"idle", "pending", "saving", "saved", "error"} :
                [p EXCEPT !.status = x] \in Page
           /\ \A x \in {"none", "waiting", "queued", "failed"} :
                [p EXCEPT !.upload = x] \in Page
           /\ \A x \in BOOLEAN :
                /\ [p EXCEPT !.dirty = x] \in Page
                /\ [p EXCEPT !.timer = x] \in Page
                /\ [p EXCEPT !.persisted = x] \in Page
                /\ [p EXCEPT !.stopped = x] \in Page
                /\ [p EXCEPT !.discarded = x] \in Page
           /\ \A x \in Nat : /\ [p EXCEPT !.generation = x] \in Page
                             /\ [p EXCEPT !.savedGeneration = x] \in Page
           /\ \A x \in Draft : [p EXCEPT !.draft = x] \in Page
           /\ \A x \in Draft \cup {None} : [p EXCEPT !.restore = x] \in Page
           /\ \A x \in Call \cup {None} : [p EXCEPT !.call = x] \in Page
           /\ \A x \in Copy \cup {None} : [p EXCEPT !.unwritten = x] \in Page
<1>1. \A x \in Seq(Ops) : [p EXCEPT !.queue = x] \in Page
  BY DEF Page
<1>2. \A x \in {"idle", "pending", "saving", "saved", "error"} :
        [p EXCEPT !.status = x] \in Page
  BY DEF Page
<1>3. \A x \in {"none", "waiting", "queued", "failed"} : [p EXCEPT !.upload = x] \in Page
  BY DEF Page
<1>4. \A x \in BOOLEAN : [p EXCEPT !.dirty = x] \in Page
  BY DEF Page
<1>5. \A x \in BOOLEAN : [p EXCEPT !.timer = x] \in Page
  BY DEF Page
<1>6. \A x \in BOOLEAN : [p EXCEPT !.persisted = x] \in Page
  BY DEF Page
<1>7. \A x \in BOOLEAN : [p EXCEPT !.stopped = x] \in Page
  BY DEF Page
<1>8. \A x \in BOOLEAN : [p EXCEPT !.discarded = x] \in Page
  BY DEF Page
<1>9. \A x \in Nat : [p EXCEPT !.generation = x] \in Page
  BY DEF Page
<1>10. \A x \in Nat : [p EXCEPT !.savedGeneration = x] \in Page
  BY DEF Page
<1>11. \A x \in Draft : [p EXCEPT !.draft = x] \in Page
  BY DEF Page
<1>12. \A x \in Draft \cup {None} : [p EXCEPT !.restore = x] \in Page
  BY DEF Page
<1>13. \A x \in Call \cup {None} : [p EXCEPT !.call = x] \in Page
  BY DEF Page
<1>14. \A x \in Copy \cup {None} : [p EXCEPT !.unwritten = x] \in Page
  BY DEF Page
<1> QED
  BY <1>1, <1>2, <1>3, <1>4, <1>5, <1>6, <1>7, <1>8, <1>9, <1>10, <1>11, <1>12, <1>13, <1>14

\* A page just loaded, and no page.
LEMMA FreshPage ==
    ASSUME NEW row, row.draft \in Draft, NEW offered \in Draft \cup {None}
    PROVE  LET p == Fresh(row, offered) IN
           /\ p \in Page /\ p.queue = <<>> /\ p.call = None /\ ~p.stopped
           /\ p.upload = "none" /\ ~p.dirty /\ p.generation = p.savedGeneration
           /\ p.unwritten = None /\ p.draft = row.draft
<1> DEFINE p == Fresh(row, offered)
<1>1. PICK saved \in BOOLEAN : saved = (row.status = "draft")
  OBVIOUS
<1>2. PICK status \in {"saved", "idle"} : status = IF row.status = "draft" THEN "saved" ELSE "idle"
  OBVIOUS
<1>3. p = [open |-> TRUE, draft |-> row.draft, generation |-> 0, savedGeneration |-> 0,
           status |-> status, dirty |-> FALSE, persisted |-> saved, stopped |-> FALSE,
           timer |-> FALSE, queue |-> <<>>, call |-> None, unwritten |-> None,
           restore |-> offered, discarded |-> FALSE, upload |-> "none"]
  BY <1>1, <1>2 DEF Fresh
<1>4. <<>> \in Seq(Ops)
  OBVIOUS
<1>5. p \in Page
  BY <1>3, <1>4 DEF Page
<1> QED
  BY <1>3, <1>5

LEMMA ClosedPage ==
    LET p == Closed IN
    /\ p \in Page /\ ~p.open /\ p.queue = <<>> /\ p.call = None /\ ~p.stopped
    /\ p.upload = "none" /\ ~p.dirty /\ p.generation = p.savedGeneration
    /\ p.unwritten = None
<1>1. PICK row : row = [status |-> "absent", draft |-> Blank]
  OBVIOUS
<1>2. row.draft \in Draft
  BY <1>1, BoundsAreCounts DEF Blank, Draft
<1>3. PICK p : p = Fresh(row, None)
  OBVIOUS
<1>4. /\ p \in Page /\ p.queue = <<>> /\ p.call = None /\ ~p.stopped
      /\ p.upload = "none" /\ ~p.dirty /\ p.generation = p.savedGeneration
      /\ p.unwritten = None
  BY <1>2, <1>3, FreshPage
<1>5. Closed = [p EXCEPT !.open = FALSE]
  BY <1>1, <1>3 DEF Closed
<1> QED
  BY <1>4, <1>5 DEF Page

LEMMA Initially ==
    ASSUME Init PROVE IInv
<1>1. 0 \in 0..MaxEdits /\ 0 \in 0..MaxUpsets
  BY BoundsAreCounts
<1>2. Blank \in Draft
  BY <1>1 DEF Blank, Draft
<1>3. /\ page \in Page /\ ~page.open /\ page.queue = <<>> /\ page.call = None
      /\ ~page.stopped /\ page.upload = "none" /\ ~page.dirty
      /\ page.generation = page.savedGeneration /\ page.unwritten = None
  BY ClosedPage DEF Init
<1>4. TypeOK
  BY <1>1, <1>2, <1>3 DEF TypeOK, Init, Row
<1>5. ~Waits(<<>>, "upload") /\ ~Waits(<<>>, "submit") /\ OneUpload(<<>>)
  BY DEF Waits, OneUpload
<1>6. server.status = "absent"
  BY DEF Init
<1> QED
  BY <1>3, <1>4, <1>5, <1>6
  DEF IInv, TurnsInv, DraftInv, StoredInv, SubmissionInv, RecoveryKept, Calling

\* An edit, a restored draft and a finished upload.
LEMMA EditedPage ==
    ASSUME NEW p \in Page, NEW draft \in Draft, edits + 1 \in 0..MaxEdits,
           NEW q, q = Edited(p, draft)
    PROVE  /\ q \in Page
           /\ q.draft = draft /\ q.generation = p.generation + 1 /\ q.dirty
           /\ q.status = (IF p.status = "saving" THEN "saving" ELSE "pending")
           /\ q.unwritten # None /\ q.unwritten.draft = draft
           /\ q.queue = p.queue /\ q.call = p.call /\ q.upload = p.upload
           /\ q.stopped = p.stopped /\ q.open = p.open
<1>1. PICK copy : copy = [draft |-> draft, stamp |-> edits + 1]
  OBVIOUS
<1>2. copy \in Copy /\ copy # None /\ copy.draft = draft
  BY <1>1, NoneIsNoRecord DEF Copy
<1>3. PICK status : status = IF p.status = "saving" THEN p.status ELSE "pending"
  OBVIOUS
<1>4. p.generation + 1 \in Nat /\ status \in {"idle", "pending", "saving", "saved", "error"}
  BY <1>3 DEF Page
<1>5. q = [p EXCEPT !.draft = draft, !.generation = p.generation + 1, !.dirty = TRUE,
                    !.discarded = FALSE, !.status = status, !.timer = TRUE,
                    !.unwritten = copy]
  BY <1>1, <1>3 DEF Edited
<1>6. q \in Page
  <2>1. PICK p1 \in Page :
            p1 = [p EXCEPT !.draft = draft, !.generation = p.generation + 1, !.dirty = TRUE]
    BY <1>4, PageFields
  <2>2. PICK p2 \in Page : p2 = [p1 EXCEPT !.discarded = FALSE, !.status = status]
    BY <1>4, PageFields
  <2>3. PICK p3 \in Page : p3 = [p2 EXCEPT !.timer = TRUE, !.unwritten = copy]
    BY <1>2, PageFields
  <2>4. q = p3
    BY <1>5, <2>1, <2>2, <2>3
  <2> QED
    BY <2>4
<1> QED
  BY <1>2, <1>3, <1>5, <1>6 DEF Page

LEMMA EditSteps ==
    ASSUME IInv, Edit \/ RestoreDraft
    PROVE  IInv'
<1>0. page \in Page /\ edits \in Nat /\ MaxEdits \in Nat /\ edits \in 0..MaxEdits
  BY BoundsAreCounts DEF IInv, TypeOK
<1>1. /\ MayEdit /\ edits' = edits + 1 /\ edits + 1 \in 0..MaxEdits
      /\ UNCHANGED <<server, late, storage, shown, orphans, upsets>>
      /\ page.upload # "none" => edits + 1 < MaxEdits
  BY <1>0 DEF Edit, RestoreDraft, MayEdit
<1>2. PICK p \in Page, draft \in Draft :
        /\ page' = Edited(p, draft)
        /\ p.queue = page.queue /\ p.call = page.call /\ p.upload = page.upload
        /\ p.stopped = page.stopped /\ p.open = page.open /\ p.status = page.status
        /\ p.generation = page.generation
  <2>1. CASE Edit
    <3>1. [page.draft EXCEPT !.text = edits + 1] \in Draft
      BY <1>0, <1>1 DEF Page, Draft
    <3> QED
      BY <1>0, <2>1, <3>1 DEF Edit
  <2>2. CASE RestoreDraft
    <3>1. page.restore \in Draft
      BY <1>0, <2>2 DEF RestoreDraft, Page
    <3>2. [page EXCEPT !.restore = None] \in Page
      BY <1>0 DEF Page
    <3> QED
      BY <1>0, <2>2, <3>1, <3>2 DEF RestoreDraft, Page
  <2> QED
    BY <2>1, <2>2
<1>3. /\ page' \in Page
      /\ page'.draft = draft /\ page'.generation = page.generation + 1 /\ page'.dirty
      /\ page'.status = (IF page.status = "saving" THEN "saving" ELSE "pending")
      /\ page'.unwritten # None /\ page'.unwritten.draft = draft
      /\ page'.queue = page.queue /\ page'.call = page.call /\ page'.upload = page.upload
      /\ page'.stopped = page.stopped /\ page'.open = page.open
  <2>1. PICK q : q = page'
    OBVIOUS
  <2>2. q = Edited(p, draft)
    BY <1>2, <2>1
  <2>3. /\ q \in Page
        /\ q.draft = draft /\ q.generation = p.generation + 1 /\ q.dirty
        /\ q.status = (IF p.status = "saving" THEN "saving" ELSE "pending")
        /\ q.unwritten # None /\ q.unwritten.draft = draft
        /\ q.queue = p.queue /\ q.call = p.call /\ q.upload = p.upload
        /\ q.stopped = p.stopped /\ q.open = p.open
    BY <1>1, <2>2, EditedPage
  <2> QED
    BY <1>2, <2>1, <2>3
<1>4. ~Waits(page.queue, "submit")
  BY <1>1 DEF MayEdit, InTransition, Transitions, Waits
<1>5. TypeOK'
  BY <1>0, <1>1, <1>3 DEF IInv, TypeOK
<1>6. TurnsInv'
  BY <1>1, <1>3 DEF IInv, TurnsInv
<1>7. page.call # None => page.call.request.generation < page.generation + 1
  BY <1>0 DEF IInv, DraftInv, Page, Call, Request
<1>8. DraftInv'
  BY <1>0, <1>3, <1>7 DEF IInv, DraftInv, Calling, Page, Call, Request
<1>9. StoredInv'
  BY <1>1, <1>3 DEF IInv, StoredInv, Calling
<1>10. SubmissionInv'
  BY <1>1, <1>3, <1>4 DEF IInv, SubmissionInv, Calling
<1>11. RecoveryKept'
  BY <1>3 DEF RecoveryKept
<1> QED
  BY <1>5, <1>6, <1>8, <1>9, <1>10, <1>11 DEF IInv

\* What the properties see of the page, and a step leaves as it is.
Kept == /\ page'.open = page.open /\ page'.draft = page.draft /\ page'.dirty = page.dirty
        /\ page'.generation = page.generation
        /\ page'.savedGeneration = page.savedGeneration
        /\ page'.stopped = page.stopped /\ page'.unwritten = page.unwritten
        /\ page'.discarded = page.discarded

\* Something joins the queue.
LEMMA JoinSteps ==
    ASSUME IInv, page' \in Page, Kept, page'.call = page.call,
           page'.status = page.status,
           NEW op \in Ops, page'.queue = Append(page.queue, op),
           op = "upload" => ~Waits(page.queue, "upload") /\ page'.upload = "queued"
                            /\ edits < MaxEdits,
           op # "upload" => page'.upload = page.upload,
           page.open /\ ~page.stopped /\ (Waits(page.queue, "submit") \/ op = "submit") =>
                ~page.dirty /\ page.status = "saved" /\ page'.upload = "none"
                /\ shown' = page.draft,
           shown' \in Draft,
           server.status = "submitted" /\ ~late => shown' = shown,
           UNCHANGED <<server, late, storage, orphans, edits>>, upsets' \in 0..MaxUpsets
    PROVE  IInv'
<1>0. page \in Page /\ page.queue \in Seq(Ops)
  BY DEF IInv, TypeOK, Page
<1>1. PICK q \in Seq(Ops) : q = page.queue
  BY <1>0
<1>2. PICK q2 : q2 = Append(q, op)
  OBVIOUS
<1>3. /\ q2 # <<>> /\ (q # <<>> => Head(q2) = Head(q))
      /\ \A x : Waits(q2, x) <=> Waits(q, x) \/ x = op
  BY <1>2, Joined
<1>4. OneUpload(q2)
  <2>1. OneUpload(q) /\ (op = "upload" => ~Waits(q, "upload"))
    BY <1>1 DEF IInv, TurnsInv
  <2> QED
    BY <1>2, <2>1, Joined
<1>5. page'.queue = q2
  BY <1>1, <1>2
<1>6. TurnsInv'
  BY <1>1, <1>3, <1>4, <1>5 DEF IInv, TurnsInv, Kept
<1>7. Waits(page'.queue, "submit") => Waits(page.queue, "submit") \/ op = "submit"
  BY <1>1, <1>3, <1>5
<1>8. SubmissionInv'
  BY <1>7 DEF IInv, SubmissionInv, Kept, Calling
<1>9. DraftInv' /\ StoredInv' /\ RecoveryKept'
  BY DEF IInv, DraftInv, StoredInv, RecoveryKept, Kept, Calling
<1>10. TypeOK'
  BY DEF IInv, TypeOK
<1> QED
  BY <1>6, <1>8, <1>9, <1>10 DEF IInv

\* A page with one more in its queue.
LEMMA QueuedPage ==
    ASSUME NEW p \in Page, NEW op \in Ops, NEW q, q = Queued(p, op)
    PROVE  /\ q \in Page /\ q = [p EXCEPT !.queue = Append(p.queue, op)]
<1>1. PICK queue : queue = Append(p.queue, op)
  OBVIOUS
<1>2. queue \in Seq(Ops)
  BY <1>1 DEF Page
<1>3. q = [p EXCEPT !.queue = queue]
  BY <1>1 DEF Queued
<1> QED
  BY <1>1, <1>2, <1>3 DEF Page

LEMMA FlushSteps ==
    ASSUME IInv, TimerFires \/ Retry
    PROVE  IInv'
<1>0. page \in Page /\ upsets \in 0..MaxUpsets /\ shown \in Draft
  BY DEF IInv, TypeOK
<1>1. /\ page' = Flushed(page) /\ UNCHANGED <<server, late, storage, shown, orphans, edits>>
      /\ upsets' \in 0..MaxUpsets
  BY <1>0, BoundsAreCounts DEF TimerFires, Retry, Upset
<1>2. PICK p \in Page : p = [page EXCEPT !.timer = FALSE]
  BY <1>0 DEF Page
<1>3. "save" \in Ops
  BY DEF Ops
<1>4. PICK q : q = page'
  OBVIOUS
<1>5. q = Queued(p, "save")
  BY <1>1, <1>2, <1>4 DEF Flushed
<1>6. q \in Page /\ q = [p EXCEPT !.queue = Append(p.queue, "save")]
  BY <1>3, <1>5, QueuedPage
<1>7. /\ page' \in Page /\ Kept /\ page'.call = page.call /\ page'.status = page.status
      /\ page'.queue = Append(page.queue, "save") /\ page'.upload = page.upload
  BY <1>0, <1>2, <1>4, <1>6 DEF Kept, Page
<1>8. page.open /\ ~page.stopped /\ Waits(page.queue, "submit") =>
        ~page.dirty /\ page.status = "saved" /\ page.upload = "none" /\ shown = page.draft
  BY DEF IInv, SubmissionInv
<1> QED
  BY <1>0, <1>1, <1>3, <1>7, <1>8, JoinSteps

LEMMA StartUploadStep ==
    ASSUME IInv, StartUpload PROVE IInv'
<1>0. page \in Page /\ upsets \in 0..MaxUpsets /\ shown \in Draft
  BY DEF IInv, TypeOK
<1>1. /\ page' = Queued([page EXCEPT !.upload = "queued"], "upload")
      /\ UNCHANGED <<server, late, storage, shown, orphans, edits>>
      /\ upsets' \in 0..MaxUpsets /\ page.upload \in {"waiting", "failed"} /\ page.open
  BY <1>0, BoundsAreCounts DEF StartUpload, Upset
<1>2. PICK p \in Page : p = [page EXCEPT !.upload = "queued"]
  BY <1>0 DEF Page
<1>3. "upload" \in Ops
  BY DEF Ops
<1>4. PICK q : q = page'
  OBVIOUS
<1>5. q = Queued(p, "upload")
  BY <1>1, <1>2, <1>4
<1>6. q \in Page /\ q = [p EXCEPT !.queue = Append(p.queue, "upload")]
  BY <1>3, <1>5, QueuedPage
<1>7. /\ page' \in Page /\ Kept /\ page'.call = page.call /\ page'.status = page.status
      /\ page'.queue = Append(page.queue, "upload") /\ page'.upload = "queued"
  BY <1>0, <1>2, <1>4, <1>6 DEF Kept, Page
<1>8. ~Waits(page.queue, "upload") /\ edits < MaxEdits
  BY <1>1 DEF IInv, TurnsInv
<1>9. ~(page.open /\ ~page.stopped /\ Waits(page.queue, "submit"))
  BY <1>1 DEF IInv, SubmissionInv
<1> QED
  BY <1>0, <1>1, <1>3, <1>7, <1>8, <1>9, JoinSteps

LEMMA PressStep ==
    ASSUME IInv, NEW op \in Transitions, Press(op) PROVE IInv'
<1>0. page \in Page /\ upsets \in 0..MaxUpsets /\ page.draft \in Draft
  BY DEF IInv, TypeOK, Page
<1>1. /\ page' = Queued(page, op) /\ shown' = page.draft
      /\ page.open /\ ~page.stopped /\ ~InTransition /\ Ready(op)
      /\ UNCHANGED <<server, late, storage, orphans, edits, upsets>>
  BY DEF Press
<1>3. op \in Ops /\ op \in {"submit", "withdraw"}
  BY DEF Ops, Transitions
<1>4. PICK q : q = page'
  OBVIOUS
<1>6. q \in Page /\ q = [page EXCEPT !.queue = Append(page.queue, op)]
  BY <1>0, <1>1, <1>3, <1>4, QueuedPage
<1>7. /\ page' \in Page /\ Kept /\ page'.call = page.call /\ page'.status = page.status
      /\ page'.queue = Append(page.queue, op) /\ page'.upload = page.upload
  BY <1>0, <1>4, <1>6 DEF Kept, Page
<1>8. ~Waits(page.queue, "submit")
  BY <1>1 DEF InTransition, Transitions, Waits
<1>9. op = "submit" => ~page.dirty /\ page.status = "saved" /\ page.upload = "none"
  BY <1>1 DEF Ready
<1>10. ~(server.status = "submitted" /\ ~late)
  <2>1. Calling("submit") => page.queue # <<>> /\ Head(page.queue) = "submit"
    BY DEF IInv, TurnsInv, Calling
  <2>2. page.queue # <<>> => Waits(page.queue, Head(page.queue))
    BY <1>0, Left DEF Page
  <2> QED
    BY <1>1, <1>8, <2>1, <2>2 DEF IInv, SubmissionInv
<1>11. page.open /\ ~page.stopped /\ (Waits(page.queue, "submit") \/ op = "submit") =>
            ~page.dirty /\ page.status = "saved" /\ page'.upload = "none" /\ shown' = page.draft
  BY <1>1, <1>7, <1>8, <1>9
<1>12. op # "upload" /\ upsets' \in 0..MaxUpsets /\ shown' \in Draft
  BY <1>0, <1>1, <1>3
<1> QED
  BY <1>1, <1>3, <1>7, <1>10, <1>11, <1>12, JoinSteps

\* The page is opened or left.
LEMMA OpenStep ==
    ASSUME IInv, Open PROVE IInv'
<1>0. server \in Row /\ storage \in Copy \cup {None} /\ late \in BOOLEAN
      /\ UNCHANGED <<server, storage, shown, orphans, edits, upsets>> /\ late' = FALSE
      /\ server.status \in {"absent", "draft"}
  BY DEF IInv, TypeOK, Open
<1>1. PICK offered : offered = Offered
  OBVIOUS
<1>2. offered \in Draft \cup {None} /\ server.draft \in Draft
  BY <1>0, <1>1 DEF Offered, Copy, Row
<1>3. PICK p : p = Fresh(server, offered)
  OBVIOUS
<1>4. /\ p \in Page /\ p.queue = <<>> /\ p.call = None /\ ~p.stopped
      /\ p.upload = "none" /\ ~p.dirty /\ p.generation = p.savedGeneration
      /\ p.unwritten = None /\ p.draft = server.draft
  BY <1>2, <1>3, FreshPage
<1>5. page' = p
  BY <1>1, <1>3 DEF Open
<1>6. TypeOK'
  BY <1>0, <1>4, <1>5 DEF IInv, TypeOK
<1>7. ~Waits(<<>>, "upload") /\ ~Waits(<<>>, "submit") /\ OneUpload(<<>>)
  BY DEF Waits, OneUpload
<1>8. TurnsInv' /\ DraftInv' /\ StoredInv' /\ SubmissionInv' /\ RecoveryKept'
  BY <1>0, <1>4, <1>5, <1>7
  DEF TurnsInv, DraftInv, StoredInv, SubmissionInv, RecoveryKept, Calling
<1> QED
  BY <1>6, <1>8 DEF IInv

LEMMA CloseSteps ==
    ASSUME IInv, Refresh \/ Leave \/ Crash PROVE IInv'
<1>0. /\ page' = Closed /\ UNCHANGED <<server, late, shown, edits>>
      /\ storage' \in {storage, page.unwritten}
      /\ page.unwritten = None => storage' = storage
      /\ orphans' \subseteq orphans \cup {page.call.request}
      /\ page.call = None => orphans' \subseteq orphans
      /\ upsets' \in 0..MaxUpsets
  BY BoundsAreCounts
  DEF Refresh, Leave, Crash, Gone, Outstanding, Upset,
      IInv, TypeOK
<1>1. PICK p : p = Closed
  OBVIOUS
<1>2. /\ p \in Page /\ ~p.open /\ p.queue = <<>> /\ p.call = None /\ ~p.stopped
      /\ p.upload = "none" /\ ~p.dirty /\ p.generation = p.savedGeneration
      /\ p.unwritten = None
  BY <1>1, ClosedPage
<1>3. page' = p
  BY <1>0, <1>1
<1>4. orphans' \subseteq Request /\ storage' \in Copy \cup {None}
  BY <1>0 DEF IInv, TypeOK, Page, Call
<1>5. TypeOK'
  BY <1>0, <1>2, <1>3, <1>4 DEF IInv, TypeOK
<1>7. ~Waits(<<>>, "upload") /\ ~Waits(<<>>, "submit") /\ OneUpload(<<>>)
  BY DEF Waits, OneUpload
<1>8. TurnsInv' /\ DraftInv' /\ StoredInv' /\ RecoveryKept'
  BY <1>2, <1>3, <1>7 DEF TurnsInv, DraftInv, StoredInv, RecoveryKept, Calling
<1>9. SubmissionInv'
  BY <1>0, <1>2, <1>3, <1>7 DEF IInv, SubmissionInv
<1> QED
  BY <1>5, <1>8, <1>9 DEF IInv

\* The recovery copy is written or discarded; a file is chosen or taken back.
LEMMA RecoverySteps ==
    ASSUME IInv, DiscardDraft \/ WriteRecovery PROVE IInv'
<1>0. page \in Page
  BY DEF IInv, TypeOK
<1>1. /\ UNCHANGED <<server, late, shown, orphans, edits, upsets>>
      /\ page' \in Page
      /\ page'.open = page.open /\ page'.draft = page.draft /\ page'.dirty = page.dirty
      /\ page'.generation = page.generation /\ page'.savedGeneration = page.savedGeneration
      /\ page'.stopped = page.stopped /\ page'.unwritten = None
      /\ page'.call = page.call /\ page'.queue = page.queue /\ page'.status = page.status
      /\ page'.upload = page.upload
      /\ storage' \in Copy \cup {None}
      /\ page'.discarded \/ (page.unwritten # None /\ storage' = page.unwritten)
  <2>1. CASE DiscardDraft
    <3>1. page' = [page EXCEPT !.restore = None, !.unwritten = None, !.discarded = TRUE]
          /\ storage' = None /\ UNCHANGED <<server, late, shown, orphans, edits, upsets>>
      BY <2>1 DEF DiscardDraft
    <3>2. page' \in Page
      BY <1>0, <3>1, PageFields
    <3> QED
      BY <1>0, <3>1, <3>2 DEF Page
  <2>2. CASE WriteRecovery
    <3>1. page' = [page EXCEPT !.unwritten = None] /\ page.unwritten # None
          /\ storage' = page.unwritten /\ UNCHANGED <<server, late, shown, orphans, edits, upsets>>
      BY <2>2 DEF WriteRecovery
    <3>2. page' \in Page
      BY <1>0, <3>1, PageFields
    <3> QED
      BY <1>0, <3>1, <3>2 DEF Page
  <2> QED
    BY <2>1, <2>2
<1>2. TypeOK'
  BY <1>1 DEF IInv, TypeOK
<1>3. TurnsInv' /\ StoredInv' /\ SubmissionInv'
  BY <1>1 DEF IInv, TurnsInv, StoredInv, SubmissionInv, Calling
<1>4. DraftInv'
  BY <1>1 DEF IInv, DraftInv, Calling
<1>5. RecoveryKept'
  <2>1. page.unwritten # None => page.unwritten.draft = page.draft
    BY DEF IInv, DraftInv
  <2> QED
    BY <1>1, <2>1 DEF RecoveryKept
<1> QED
  BY <1>2, <1>3, <1>4, <1>5 DEF IInv

LEMMA FileSteps ==
    ASSUME IInv, ChooseFile \/ RemoveUpload PROVE IInv'
<1>0. page \in Page
  BY DEF IInv, TypeOK
<1>1. /\ UNCHANGED <<server, late, storage, shown, orphans, edits, upsets>>
      /\ page' \in Page /\ Kept
      /\ page'.call = page.call /\ page'.queue = page.queue /\ page'.status = page.status
      /\ page.upload # "queued"
      /\ \/ page'.upload = "none"
         \/ ~Waits(page.queue, "submit") /\ edits < MaxEdits
  BY <1>0
  DEF ChooseFile, RemoveUpload, Page, InTransition, Transitions,
      Kept, Waits
<1>2. TypeOK'
  BY <1>1 DEF IInv, TypeOK
<1>3. TurnsInv' /\ SubmissionInv'
  BY <1>1 DEF IInv, TurnsInv, SubmissionInv, Kept, Calling
<1>4. DraftInv' /\ StoredInv' /\ RecoveryKept'
  BY <1>1 DEF IInv, DraftInv, StoredInv, RecoveryKept, Kept, Calling
<1> QED
  BY <1>2, <1>3, <1>4 DEF IInv

\* The queue after the turn of its first.
LEMMA TurnOver ==
    ASSUME IInv, page.queue # <<>>
    PROVE  LET q == Tail(page.queue) IN
           /\ q \in Seq(Ops) /\ OneUpload(q)
           /\ Head(page.queue) \in Ops /\ Waits(page.queue, Head(page.queue))
           /\ \A x : Waits(q, x) => Waits(page.queue, x)
           /\ Head(page.queue) = "upload" => ~Waits(q, "upload")
  BY Left DEF IInv, TurnsInv, TypeOK, Page

LEMMA SendStep ==
    ASSUME IInv, page.open, page.queue # <<>>, page.call = None,
           NEW op, op = Head(page.queue), page' = Send(op), ~page.stopped,
           op = "save" => page.generation # page.savedGeneration,
           UNCHANGED <<server, late, storage, shown, orphans, edits, upsets>>
    PROVE  IInv'
<1>0. page \in Page /\ op \in Ops
  BY TurnOver DEF IInv, TypeOK
<1>1. PICK request : request = [op |-> op, draft |-> page.draft, generation |-> page.generation]
  OBVIOUS
<1>2. PICK call : call = [request |-> request, reply |-> "sent"]
  OBVIOUS
<1>3. PICK status : status = IF op = "save" THEN "saving" ELSE page.status
  OBVIOUS
<1>4. /\ call \in Call /\ call.request.op = op /\ call.request.draft = page.draft
      /\ call.request.generation = page.generation /\ call.reply = "sent"
  BY <1>0, <1>1, <1>2 DEF Call, Request, Page
<1>5. call # None
  BY <1>4, NoneIsNoRecord
<1>6. status \in {"idle", "pending", "saving", "saved", "error"}
  BY <1>0, <1>3 DEF Page
<1>7. page' = [page EXCEPT !.status = status, !.call = call]
  BY <1>1, <1>2, <1>3 DEF Send
<1>8. /\ page' \in Page /\ Kept /\ page'.queue = page.queue /\ page'.upload = page.upload
      /\ page'.call = call /\ page'.status = status
  <2>1. [page EXCEPT !.status = status, !.call = call] \in Page
    BY <1>0, <1>4, <1>6, PageFields
  <2>2. /\ Kept /\ page'.queue = page.queue /\ page'.upload = page.upload
        /\ page'.call = call /\ page'.status = status
    BY <1>0, <1>7 DEF Page, Kept
  <2> QED
    BY <1>7, <2>1, <2>2
<1>9. op = "save" => page.dirty
  BY DEF IInv, DraftInv
<1>10. TypeOK'
  BY <1>8 DEF IInv, TypeOK
<1>11. TurnsInv'
  BY <1>4, <1>5, <1>8 DEF IInv, TurnsInv, Kept
<1>12. page.generation \in Nat
  BY <1>0 DEF Page
<1>13. DraftInv'
  BY <1>3, <1>4, <1>8, <1>9, <1>12 DEF IInv, DraftInv, Calling, Kept
<1>14. StoredInv'
  BY <1>3, <1>4, <1>8 DEF IInv, StoredInv, Calling, Kept
<1>15. SubmissionInv'
  BY <1>3, <1>4, <1>8, <1>9 DEF IInv, SubmissionInv, Calling, Kept
<1>16. RecoveryKept'
  BY <1>8 DEF IInv, RecoveryKept, Kept
<1> QED
  BY <1>10, <1>11, <1>13, <1>14, <1>15, <1>16 DEF IInv

LEMMA SkipStep ==
    ASSUME IInv, page.open, page.queue # <<>>, page.call = None,
           NEW op, op = Head(page.queue), page' = Skipped(op),
           UNCHANGED <<server, late, storage, shown, orphans, edits, upsets>>
    PROVE  IInv'
<1>0. page \in Page
  BY DEF IInv, TypeOK
<1>1. PICK q : q = Tail(page.queue)
  OBVIOUS
<1>2. /\ q \in Seq(Ops) /\ OneUpload(q) /\ Waits(page.queue, op)
      /\ \A x : Waits(q, x) => Waits(page.queue, x)
      /\ op = "upload" => ~Waits(q, "upload")
  BY <1>1, TurnOver
<1>3. PICK upload : upload = IF op = "upload" THEN "failed" ELSE page.upload
  OBVIOUS
<1>4. upload \in {"none", "waiting", "queued", "failed"}
  BY <1>0, <1>3 DEF Page
<1>5. page' = [page EXCEPT !.queue = q, !.upload = upload]
  BY <1>1, <1>3 DEF Skipped
<1>6. /\ page' \in Page /\ Kept /\ page'.queue = q /\ page'.upload = upload
      /\ page'.call = None /\ page'.status = page.status
  <2>1. q \in Seq(Ops)
    BY <1>2
  <2>2. page' \in Page
    <3>1. PICK p \in Page : p = [page EXCEPT !.queue = q]
      BY <1>0, <2>1, PageFields
    <3>2. page' = [p EXCEPT !.upload = upload]
      BY <1>5, <3>1
    <3>3. [p EXCEPT !.upload = upload] \in Page
      BY <1>4, PageFields
    <3> QED
      BY <3>2, <3>3
  <2>3. Kept
    BY <1>0, <1>5 DEF Page, Kept
  <2>4. page'.queue = q /\ page'.upload = upload /\ page'.call = page.call
        /\ page'.status = page.status
    BY <1>0, <1>5 DEF Page
  <2> QED
    BY <2>2, <2>3, <2>4
<1>7. op = "upload" => page.upload = "queued" /\ edits < MaxEdits
  BY <1>2 DEF IInv, TurnsInv
<1>8. TypeOK'
  BY <1>6 DEF IInv, TypeOK
<1>9. TurnsInv'
  BY <1>2, <1>3, <1>6, <1>7 DEF IInv, TurnsInv, Kept
<1>10. SubmissionInv'
  BY <1>2, <1>3, <1>6, <1>7 DEF IInv, SubmissionInv, Kept, Calling
<1>11. DraftInv' /\ StoredInv' /\ RecoveryKept'
  BY <1>6 DEF IInv, DraftInv, StoredInv, RecoveryKept, Kept, Calling
<1> QED
  BY <1>8, <1>9, <1>10, <1>11 DEF IInv

LEMMA TakeTurnStep ==
    ASSUME IInv, TakeTurn PROVE IInv'
<1>1. PICK op : op = Head(page.queue)
  OBVIOUS
<1>2. /\ page.open /\ page.queue # <<>> /\ page.call = None
      /\ UNCHANGED <<server, late, storage, shown, orphans, edits, upsets>>
  BY DEF TakeTurn
<1>3. \/ /\ page' = Send(op) /\ ~page.stopped
         /\ op = "save" => page.generation # page.savedGeneration
      \/ page' = Skipped(op)
  BY <1>1 DEF TakeTurn, MustSave
<1> QED
  BY <1>1, <1>2, <1>3, SendStep, SkipStep

\* A request is carried out: types.
LEMMA CarriedRow ==
    ASSUME IInv, NEW request \in Request
    PROVE  LET row == Carried(request) IN
           /\ row \in Row
           /\ request.op = "save" => row.status = "draft" /\ row.draft = request.draft
           /\ request.op \in Transitions => row.draft = server.draft
           /\ request.op = "submit" => row.status = "submitted"
           /\ request.op = "withdraw" => row.status = "withdrawn"
           /\ request.op = "upload" => row.status = server.status
<1>1. server \in Row /\ edits \in 0..MaxEdits /\ server.draft \in Draft
  BY DEF IInv, TypeOK, Row
<1>2. request.op \in {"save", "upload", "submit", "withdraw"} /\ request.draft \in Draft
  BY DEF Request, Ops
<1>3. CASE request.op = "save"
  BY <1>1, <1>2, <1>3 DEF Carried, Row, Transitions
<1>4. CASE request.op = "upload"
  <2>1. [server.draft EXCEPT !.media = TRUE] \in Draft
    BY <1>1 DEF Draft
  <2>2. Carried(request) = [server EXCEPT !.draft = [server.draft EXCEPT !.media = TRUE]]
    BY <1>4 DEF Carried
  <2> QED
    BY <1>1, <1>4, <2>1, <2>2 DEF Row, Transitions
<1>5. CASE request.op = "submit"
  BY <1>1, <1>5 DEF Carried, Row
<1>6. CASE request.op = "withdraw"
  BY <1>1, <1>6 DEF Carried, Row
<1> QED
  BY <1>2, <1>3, <1>4, <1>5, <1>6

\* The server carries out a request of the page, or refuses it.
LEMMA ServerActsStep ==
    ASSUME IInv, ServerActs PROVE IInv'
<1>0. page \in Page /\ page.open /\ page.call # None /\ page.call.reply = "sent"
      /\ server \in Row /\ late \in BOOLEAN
  BY DEF IInv, TypeOK, ServerActs, Outstanding
<1>1. PICK call \in Call : call = page.call
  BY <1>0 DEF Page
<1>2. PICK request \in Request : request = call.request
  BY DEF Call
<1>3. UNCHANGED <<storage, shown, orphans, edits, upsets>>
  BY DEF ServerActs
<1>4. ASSUME NEW reply \in {"success", "error"}, Answer(reply)
      PROVE  /\ page' \in Page /\ Kept /\ page'.queue = page.queue
             /\ page'.upload = page.upload /\ page'.status = page.status
             /\ page'.call # None /\ page'.call.request = request /\ page'.call.reply = reply
  <2>1. PICK c : c = [call EXCEPT !.reply = reply]
    OBVIOUS
  <2>2. c \in Call /\ c.request = request /\ c.reply = reply
    BY <1>2, <1>4, <2>1 DEF Call
  <2>3. page' = [page EXCEPT !.call = c]
    BY <1>1, <1>4, <2>1 DEF Answer
  <2>4. c # None
    BY <2>2, NoneIsNoRecord
  <2> QED
    <3>1. page' \in Page
      BY <1>0, <2>2, <2>3, PageFields
    <3> QED
      BY <1>0, <2>2, <2>3, <2>4, <3>1 DEF Page, Kept
<1>5. DraftInv /\ TurnsInv /\ page.call.request = request
  BY <1>1, <1>2 DEF IInv
<1>6. CASE Takes(request.op, server.status)
  <2>1. /\ server' = Carried(request) /\ Answer("success")
        /\ late' = (late /\ request.op # "save")
    BY <1>1, <1>2, <1>6 DEF ServerActs
  <2>2. /\ page' \in Page /\ Kept /\ page'.queue = page.queue
        /\ page'.upload = page.upload /\ page'.status = page.status
        /\ page'.call # None /\ page'.call.request = request /\ page'.call.reply = "success"
    BY <1>4, <2>1
  <2>3. late' \in BOOLEAN /\ (~late' => ~late \/ request.op = "save")
    BY <1>0, <2>1
  <2>4. PICK row : row = Carried(request)
    OBVIOUS
  <2>5. /\ row \in Row
        /\ request.op = "save" => row.status = "draft" /\ row.draft = request.draft
        /\ request.op \in Transitions => row.draft = server.draft
        /\ request.op = "submit" => row.status = "submitted"
        /\ request.op = "withdraw" => row.status = "withdrawn"
        /\ request.op = "upload" => row.status = server.status
    BY <2>4, CarriedRow
  <2>6. server' = row
    BY <2>1, <2>4
  <2>7. TypeOK'
    BY <1>3, <2>2, <2>3, <2>5, <2>6 DEF IInv, TypeOK
  <2>8. TurnsInv' /\ RecoveryKept'
    BY <1>0, <1>3, <1>5, <2>2 DEF IInv, TurnsInv, RecoveryKept, Kept
  <2>9. DraftInv'
    BY <1>0, <1>5, <2>2 DEF DraftInv, Calling, Kept
  <2>10. request.op \in {"save", "upload", "submit", "withdraw"}
    BY DEF Request, Ops
  <2>11. StoredInv'
    <3>1. Calling(request.op) /\ page.call.reply = "sent"
      BY <1>0, <1>5 DEF Calling
    <3>2. request.op = "save" => page.status = "saving"
      BY <1>0, <1>5 DEF DraftInv, Calling
    <3> QED
      BY <1>0, <1>5, <2>2, <2>3, <2>5, <2>6, <2>10, <3>2
      DEF IInv, StoredInv, Calling, Kept, Transitions
  <2>12. SubmissionInv'
    <3>1. ~page.stopped
      BY <1>0, <1>5 DEF TurnsInv
    <3>2. request.op = "submit" => Waits(page.queue, "submit")
      BY <1>0, <1>5, TurnOver DEF TurnsInv
    <3>3. request.op = "submit" /\ ~late => server.draft = shown
      BY <1>0, <1>5, <3>1, <3>2 DEF IInv, SubmissionInv, StoredInv, Calling
    <3>4. ~(server.status = "submitted" /\ ~late)
      BY <1>0, <3>1 DEF IInv, SubmissionInv
    <3>5. server'.status = "submitted" /\ ~late' => request.op = "submit" /\ ~late
      BY <2>3, <2>5, <2>6, <2>10, <3>4
    <3> QED
      BY <1>3, <2>2, <2>5, <2>6, <3>3, <3>5
      DEF IInv, SubmissionInv, Calling, Kept, Transitions
  <2> QED
    BY <2>7, <2>8, <2>9, <2>11, <2>12 DEF IInv
<1>7. CASE ~Takes(request.op, server.status)
  <2>1. Answer("error") /\ UNCHANGED <<server, late>>
    BY <1>1, <1>2, <1>7 DEF ServerActs
  <2>2. /\ page' \in Page /\ Kept /\ page'.queue = page.queue
        /\ page'.upload = page.upload /\ page'.status = page.status
        /\ page'.call # None /\ page'.call.request = request /\ page'.call.reply = "error"
    BY <1>4, <2>1
  <2>3. TypeOK'
    BY <1>3, <2>1, <2>2 DEF IInv, TypeOK
  <2> QED
    BY <1>0, <1>3, <1>5, <2>1, <2>2, <2>3
    DEF IInv, TurnsInv, DraftInv, StoredInv, SubmissionInv, RecoveryKept,
        Calling, Kept
<1> QED
  BY <1>6, <1>7

\* The page hears of a failure, whatever becomes of the request.
LEMMA AnswerIsLostStep ==
    ASSUME IInv, AnswerIsLost PROVE IInv'
<1>0. /\ page \in Page /\ page.open /\ page.call # None /\ page.call.reply = "sent"
      /\ page' = [page EXCEPT !.call.reply = "error"]
      /\ orphans' = orphans \cup {page.call.request}
      /\ UNCHANGED <<server, late, storage, shown, edits>> /\ upsets' \in 0..MaxUpsets
  BY BoundsAreCounts
  DEF IInv, TypeOK, AnswerIsLost, Outstanding, Upset, Answer
<1>1. PICK call \in Call : call = page.call
  BY <1>0 DEF Page
<1>2. PICK c : c = [call EXCEPT !.reply = "error"]
  OBVIOUS
<1>3. c \in Call /\ c.request = call.request /\ c.reply = "error"
      /\ call.request \in Request
  BY <1>2 DEF Call
<1>4. c # None
  BY <1>3, NoneIsNoRecord
<1>5. page' = [page EXCEPT !.call = c]
  BY <1>0, <1>1, <1>2
<1>6. /\ page' \in Page /\ Kept /\ page'.queue = page.queue
      /\ page'.upload = page.upload /\ page'.status = page.status
      /\ page'.call # None /\ page'.call.request = page.call.request
      /\ page'.call.reply = "error"
  <2>0. page \in Page /\ c \in Call \cup {None}
    BY <1>0, <1>3
  <2>1. page' \in Page
    BY <1>5, <2>0, PageFields
  <2>2. Kept
    BY <1>5, <2>0 DEF Page, Kept
  <2>3. page'.queue = page.queue /\ page'.upload = page.upload /\ page'.call = c
        /\ page'.status = page.status
    BY <1>5, <2>0 DEF Page
  <2> QED
    BY <1>1, <1>3, <1>4, <2>1, <2>2, <2>3
<1>7. TypeOK'
  BY <1>0, <1>1, <1>3, <1>6 DEF IInv, TypeOK
<1> QED
  BY <1>0, <1>6, <1>7
  DEF IInv, TurnsInv, DraftInv, StoredInv, SubmissionInv, RecoveryKept, Calling, Kept

\* A request nobody waits for is carried out or lost; the newsroom sends a story back.
LEMMA OrphanSteps ==
    ASSUME IInv, \E request \in orphans : OrphanEnds(request) PROVE IInv'
<1>1. PICK request \in orphans : OrphanEnds(request)
  OBVIOUS
<1>2. /\ request \in Request /\ orphans' \subseteq orphans
      /\ UNCHANGED <<storage, page, shown, edits, upsets>>
      /\ \/ server' = Carried(request) /\ late' = TRUE
         \/ UNCHANGED <<server, late>>
  BY <1>1 DEF IInv, TypeOK, OrphanEnds
<1>3. Carried(request) \in Row
  BY <1>2, CarriedRow
<1>4. TypeOK'
  BY <1>2, <1>3 DEF IInv, TypeOK
<1>5. TurnsInv' /\ DraftInv' /\ RecoveryKept'
  BY <1>2 DEF IInv, TurnsInv, DraftInv, RecoveryKept, Calling
<1>6. StoredInv' /\ SubmissionInv'
  BY <1>2 DEF IInv, StoredInv, SubmissionInv, Calling
<1> QED
  BY <1>4, <1>5, <1>6 DEF IInv

LEMMA SendBackStep ==
    ASSUME IInv, SendBack PROVE IInv'
<1>1. /\ server \in Row /\ server' = [server EXCEPT !.status = "draft", !.stamp = edits]
      /\ UNCHANGED <<late, storage, page, shown, orphans, edits>> /\ ~page.open
      /\ upsets' \in 0..MaxUpsets /\ edits \in 0..MaxEdits
  BY BoundsAreCounts DEF IInv, TypeOK, SendBack, Upset
<1>2. server' \in Row /\ server'.status = "draft"
  BY <1>1 DEF Row
<1>3. TypeOK'
  BY <1>1, <1>2 DEF IInv, TypeOK
<1>4. TurnsInv' /\ DraftInv' /\ RecoveryKept'
  BY <1>1 DEF IInv, TurnsInv, DraftInv, RecoveryKept, Calling
<1>5. StoredInv' /\ SubmissionInv'
  BY <1>1, <1>2 DEF IInv, StoredInv, SubmissionInv, Calling
<1> QED
  BY <1>3, <1>4, <1>5 DEF IInv

-----------------------------------------------------------------------------
(* The page hears of its requests.                                          *)

\* Every answer ends a turn.
LEMMA TurnAnswered ==
    ASSUME IInv, NEW op, NEW reply, Heard(op, reply)
    PROVE  /\ page.open /\ page.call # None /\ Calling(op) /\ page.call.reply = reply
           /\ ~page.stopped /\ page.queue # <<>> /\ Head(page.queue) = op
           /\ Waits(page.queue, op)
           /\ Done \in Page
           /\ Done = [page EXCEPT !.queue = Tail(page.queue), !.call = None]
<1>1. page.open /\ page.call # None /\ page.call.request.op = op /\ page.call.reply = reply
  BY DEF Heard
<1>2. ~page.stopped /\ page.queue # <<>> /\ Head(page.queue) = op
  BY <1>1 DEF IInv, TurnsInv
<1>3. PICK q : q = Tail(page.queue)
  OBVIOUS
<1>4. q \in Seq(Ops) /\ Waits(page.queue, op)
  BY <1>2, <1>3, TurnOver
<1>5. Done = [page EXCEPT !.queue = q, !.call = None]
  BY <1>3 DEF Done
<1>6. Done \in Page
  BY <1>4, <1>5 DEF IInv, TypeOK, Page
<1> QED
  BY <1>1, <1>2, <1>3, <1>4, <1>5, <1>6 DEF Calling

LEMMA SaveSucceedsStep ==
    ASSUME IInv, SaveSucceeds PROVE IInv'
<1>0. page \in Page /\ Heard("save", "success")
  BY DEF IInv, TypeOK, SaveSucceeds
<1>1. /\ page.open /\ page.call # None /\ Calling("save") /\ page.call.reply = "success"
      /\ ~page.stopped /\ page.queue # <<>> /\ Waits(page.queue, "save")
  BY <1>0, TurnAnswered
<1>2. PICK d \in Page : d = Done
  BY <1>0, TurnAnswered
<1>3. PICK q : q = Tail(page.queue)
  OBVIOUS
<1>4. d = [page EXCEPT !.queue = q, !.call = None]
  BY <1>2, <1>3 DEF Done
<1>5. /\ q \in Seq(Ops) /\ OneUpload(q)
      /\ \A x : Waits(q, x) => Waits(page.queue, x)
  BY <1>1, <1>3, TurnOver
<1>6. PICK current \in BOOLEAN : current = (page.generation = page.call.request.generation)
  OBVIOUS
<1>7. PICK status \in {"saved", "pending"} : status = IF current THEN "saved" ELSE "pending"
  OBVIOUS
<1>8. PICK unwritten \in Copy \cup {None} :
          unwritten = IF current THEN None ELSE page.unwritten
  BY <1>0 DEF Page
<1>9. PICK generation \in Nat : generation = page.call.request.generation
  BY <1>0, <1>1 DEF Page, Call, Request
<1>10. PICK dirty \in BOOLEAN : dirty = ~current
  OBVIOUS
<1>11. page' = [d EXCEPT !.savedGeneration = generation, !.status = status, !.persisted = TRUE,
                         !.dirty = dirty, !.unwritten = unwritten]
  BY <1>2, <1>4, <1>6, <1>7, <1>8, <1>9, <1>10 DEF SaveSucceeds
<1>12. /\ page' \in Page /\ page'.open /\ page'.draft = page.draft
       /\ page'.generation = page.generation /\ page'.savedGeneration = generation
       /\ page'.status = status /\ page'.dirty = dirty /\ page'.unwritten = unwritten
       /\ page'.queue = q /\ page'.call = None /\ page'.upload = page.upload
       /\ page'.stopped = page.stopped /\ page'.discarded = page.discarded
  <2>1. page' \in Page
    BY <1>11, PageFields
  <2> QED
    BY <1>0, <1>1, <1>4, <1>11, <2>1 DEF Page
<1>13. /\ storage' = (IF current THEN None ELSE storage)
       /\ UNCHANGED <<server, late, shown, orphans, edits, upsets>>
  BY <1>6 DEF SaveSucceeds
<1>14. TypeOK'
  BY <1>12, <1>13 DEF IInv, TypeOK
<1>15. TurnsInv'
  BY <1>5, <1>12, <1>13 DEF IInv, TurnsInv
<1>16. DraftInv'
  BY <1>6, <1>8, <1>9, <1>10, <1>12 DEF IInv, DraftInv, Calling
<1>17. StoredInv'
  <2>1. page.status = "saving" /\ (current => page.call.request.draft = page.draft)
    BY <1>1, <1>6 DEF IInv, DraftInv
  <2> QED
    BY <1>1, <1>7, <1>10, <1>12, <1>13, <2>1 DEF IInv, StoredInv, Calling
<1>18. page.status = "saving" /\ page.dirty
  BY <1>1 DEF IInv, DraftInv
<1>19. SubmissionInv'
  BY <1>1, <1>5, <1>12, <1>13, <1>18 DEF IInv, SubmissionInv, Calling
<1>20. RecoveryKept'
  BY <1>1, <1>8, <1>10, <1>12, <1>13, <1>18 DEF IInv, RecoveryKept
<1> QED
  BY <1>14, <1>15, <1>16, <1>17, <1>19, <1>20 DEF IInv

\* A save, an upload or a transition has failed: the draft stays as it is.
LEMMA FailureSteps ==
    ASSUME IInv, SaveFails \/ UploadFails \/ TransitionFails
    PROVE  IInv'
<1>0. page \in Page
  BY DEF IInv, TypeOK
<1>1. PICK op \in Ops : Heard(op, "error")
  BY DEF SaveFails, UploadFails, TransitionFails, Transitions, Ops
<1>2. /\ page.open /\ page.call # None /\ Calling(op)
      /\ ~page.stopped /\ page.queue # <<>> /\ Head(page.queue) = op /\ Waits(page.queue, op)
  BY <1>1, TurnAnswered
<1>3. PICK q : q = Tail(page.queue)
  OBVIOUS
<1>4. /\ q \in Seq(Ops) /\ OneUpload(q)
      /\ \A x : Waits(q, x) => Waits(page.queue, x)
      /\ op = "upload" => ~Waits(q, "upload")
  BY <1>2, <1>3, TurnOver
<1>5. PICK d : d = Done
  OBVIOUS
<1>6. d \in Page /\ d = [page EXCEPT !.queue = q, !.call = None]
  BY <1>1, <1>3, <1>5, TurnAnswered
<1>7. /\ d.open = page.open /\ d.draft = page.draft /\ d.generation = page.generation
      /\ d.savedGeneration = page.savedGeneration /\ d.stopped = page.stopped
      /\ d.unwritten = page.unwritten /\ d.discarded = page.discarded /\ d.queue = q
      /\ d.call = None /\ d.dirty = page.dirty /\ d.status = page.status
      /\ d.upload = page.upload
  BY <1>0, <1>6 DEF Page
<1>8. UNCHANGED <<server, late, storage, shown, orphans, edits, upsets>>
  BY DEF SaveFails, UploadFails, TransitionFails
<1>9. page.upload = "queued" => edits < MaxEdits
  BY DEF IInv, TurnsInv
<1>10. CASE SaveFails
  <2>1. page' = [d EXCEPT !.status = "error", !.dirty = TRUE] /\ op = "save"
    BY <1>2, <1>5, <1>10 DEF SaveFails, Heard, Calling
  <2>2. page.dirty
    BY <1>2, <2>1 DEF IInv, DraftInv
  <2>3. /\ page' \in Page /\ Kept /\ page'.queue = q /\ page'.call = None
        /\ page'.status = "error" /\ page'.upload = page.upload
    <3>1. page' \in Page
      BY <1>6, <2>1, PageFields
    <3>2. page.dirty = TRUE
      BY <1>0, <2>2 DEF Page
    <3>3. page'.dirty = TRUE
      BY <1>6, <2>1 DEF Page
    <3>4. /\ page'.open = d.open /\ page'.draft = d.draft /\ page'.generation = d.generation
          /\ page'.savedGeneration = d.savedGeneration /\ page'.stopped = d.stopped
          /\ page'.unwritten = d.unwritten /\ page'.discarded = d.discarded
          /\ page'.queue = d.queue /\ page'.call = d.call /\ page'.status = "error"
          /\ page'.upload = d.upload
      BY <1>6, <2>1 DEF Page
    <3>5. Kept
      BY <1>7, <3>2, <3>3, <3>4 DEF Kept
    <3> QED
      BY <1>7, <3>1, <3>4, <3>5
  <2>4. TypeOK'
    BY <1>8, <2>3 DEF IInv, TypeOK
  <2> QED
    BY <1>2, <1>4, <1>8, <2>2, <2>3, <2>4
    DEF IInv, TurnsInv, DraftInv, StoredInv, SubmissionInv, RecoveryKept, Calling, Kept
<1>11. CASE UploadFails
  <2>1. page' = [d EXCEPT !.upload = "failed"] /\ op = "upload"
    BY <1>2, <1>5, <1>11 DEF UploadFails, Heard, Calling
  <2>2. page.upload = "queued"
    BY <1>2, <2>1 DEF IInv, TurnsInv
  <2>3. /\ page' \in Page /\ Kept /\ page'.queue = q /\ page'.call = None
        /\ page'.status = page.status /\ page'.upload = "failed"
    <3>1. page' \in Page
      BY <1>6, <2>1, PageFields
    <3> QED
      BY <1>6, <1>7, <2>1, <3>1 DEF Kept, Page
  <2>4. TypeOK'
    BY <1>8, <2>3 DEF IInv, TypeOK
  <2>5. page.call.reply = "error"
    BY <1>1 DEF Heard
  <2> QED
    BY <1>2, <1>4, <1>8, <1>9, <2>1, <2>2, <2>3, <2>4, <2>5
    DEF IInv, TurnsInv, DraftInv, StoredInv, SubmissionInv, RecoveryKept, Calling, Kept
<1>12. CASE TransitionFails
  <2>1. page' = d /\ op \in Transitions
    BY <1>2, <1>5, <1>12 DEF TransitionFails, Heard, Calling
  <2>2. op # "upload" /\ op # "save"
    BY <2>1 DEF Transitions
  <2>3. page' \in Page /\ Kept /\ page'.queue = q /\ page'.call = None
        /\ page'.status = page.status /\ page'.upload = page.upload
    BY <1>6, <1>7, <2>1 DEF Kept
  <2>4. TypeOK'
    BY <1>8, <2>3 DEF IInv, TypeOK
  <2>5. page.call.reply = "error"
    BY <1>1 DEF Heard
  <2> QED
    BY <1>2, <1>4, <1>8, <2>2, <2>3, <2>4, <2>5
    DEF IInv, TurnsInv, DraftInv, StoredInv, SubmissionInv, RecoveryKept, Calling, Kept
<1> QED
  BY <1>10, <1>11, <1>12

LEMMA UploadSucceedsStep ==
    ASSUME IInv, UploadSucceeds PROVE IInv'
<1>0. page \in Page /\ Heard("upload", "success") /\ edits \in 0..MaxEdits
  BY DEF IInv, TypeOK, UploadSucceeds
<1>1. /\ page.open /\ page.call # None /\ Calling("upload")
      /\ ~page.stopped /\ page.queue # <<>> /\ Head(page.queue) = "upload"
      /\ Waits(page.queue, "upload")
  BY <1>0, TurnAnswered
<1>2. PICK q : q = Tail(page.queue)
  OBVIOUS
<1>3. /\ q \in Seq(Ops) /\ OneUpload(q) /\ ~Waits(q, "upload")
      /\ \A x : Waits(q, x) => Waits(page.queue, x)
  BY <1>1, <1>2, TurnOver
<1>4. page.upload = "queued" /\ edits < MaxEdits /\ edits + 1 \in 0..MaxEdits
  BY <1>0, <1>1, BoundsAreCounts DEF IInv, TurnsInv
<1>5. PICK p \in Page : p = [Done EXCEPT !.upload = "none"]
  BY <1>0, TurnAnswered DEF Page
<1>6. PICK draft \in Draft : draft = [page.draft EXCEPT !.media = TRUE]
  BY <1>0 DEF Page, Draft
<1>7. /\ p.generation = page.generation /\ p.queue = q /\ p.call = None
      /\ p.upload = "none" /\ p.stopped = page.stopped /\ p.open = page.open
  BY <1>0, <1>2, <1>5 DEF Done, Page
<1>8. PICK r : r = page'
  OBVIOUS
<1>9. r = Edited(p, draft)
  BY <1>5, <1>6, <1>8 DEF UploadSucceeds
<1>10. /\ r \in Page
       /\ r.draft = draft /\ r.generation = p.generation + 1 /\ r.dirty
       /\ r.unwritten # None /\ r.unwritten.draft = draft
       /\ r.queue = p.queue /\ r.call = p.call /\ r.upload = p.upload
       /\ r.stopped = p.stopped /\ r.open = p.open
  BY <1>4, <1>9, EditedPage
<1>11. edits' = edits + 1 /\ UNCHANGED <<server, late, storage, shown, orphans, upsets>>
  BY DEF UploadSucceeds
<1>12. TypeOK'
  BY <1>4, <1>8, <1>10, <1>11 DEF IInv, TypeOK
<1>13. ~Waits(page.queue, "submit")
  BY <1>1, <1>4 DEF IInv, SubmissionInv
<1>14. TurnsInv' /\ DraftInv' /\ StoredInv' /\ RecoveryKept'
  BY <1>3, <1>7, <1>8, <1>10 DEF TurnsInv, DraftInv, StoredInv, RecoveryKept, Calling
<1>15. SubmissionInv'
  BY <1>1, <1>3, <1>7, <1>8, <1>10, <1>11, <1>13 DEF IInv, SubmissionInv, Calling
<1> QED
  BY <1>12, <1>14, <1>15 DEF IInv

LEMMA TransitionSucceedsStep ==
    ASSUME IInv, TransitionSucceeds PROVE IInv'
<1>0. page \in Page
  BY DEF IInv, TypeOK
<1>1. PICK op \in Transitions : Heard(op, "success")
  BY DEF TransitionSucceeds
<1>2. page.queue # <<>> /\ Head(page.queue) = op /\ op # "upload" /\ page.open
  BY <1>1, TurnAnswered DEF Transitions
<1>3. PICK q : q = Tail(page.queue)
  OBVIOUS
<1>4. /\ q \in Seq(Ops) /\ OneUpload(q)
      /\ \A x : Waits(q, x) => Waits(page.queue, x)
  BY <1>2, <1>3, TurnOver
<1>5. PICK d \in Page : d = Done /\ d = [page EXCEPT !.queue = q, !.call = None]
  BY <1>1, <1>3, TurnAnswered
<1>6. page' = [d EXCEPT !.stopped = TRUE, !.timer = FALSE, !.unwritten = None]
      /\ storage' = None /\ UNCHANGED <<server, late, shown, orphans, edits, upsets>>
  BY <1>5 DEF TransitionSucceeds
<1>7. /\ page' \in Page /\ page'.open = page.open /\ page'.draft = page.draft
      /\ page'.dirty = page.dirty /\ page'.generation = page.generation
      /\ page'.savedGeneration = page.savedGeneration /\ page'.stopped
      /\ page'.unwritten = None /\ page'.queue = q /\ page'.call = None
      /\ page'.status = page.status /\ page'.upload = page.upload
  <2>1. page' \in Page
    BY <1>5, <1>6, PageFields
  <2> QED
    BY <1>0, <1>5, <1>6, <2>1 DEF Page
<1>8. TypeOK'
  BY <1>6, <1>7 DEF IInv, TypeOK
<1>9. TurnsInv' /\ DraftInv' /\ RecoveryKept'
  BY <1>4, <1>6, <1>7 DEF IInv, TurnsInv, DraftInv, RecoveryKept, Calling
<1>10. StoredInv'
  <2>1. ~(Calling("upload") /\ page.call.reply = "success")
    BY <1>1, <1>2 DEF Heard, Calling
  <2> QED
    BY <1>6, <1>7, <2>1 DEF IInv, StoredInv, Calling
<1>11. SubmissionInv'
  BY <1>6, <1>7 DEF IInv, SubmissionInv
<1> QED
  BY <1>8, <1>9, <1>10, <1>11 DEF IInv

\* Every step.
LEMMA Step ==
    ASSUME IInv, [Next]_vars PROVE IInv'
<1>1. CASE Next
  <2>1. \/ Edit \/ RestoreDraft \/ TimerFires \/ Retry
        \/ DiscardDraft \/ WriteRecovery \/ ChooseFile \/ RemoveUpload
        => IInv'
    BY EditSteps, FlushSteps, RecoverySteps, FileSteps
  <2>2. \/ StartUpload \/ (\E op \in Transitions : Press(op))
        \/ TakeTurn \/ ServerActs \/ AnswerIsLost \/ SendBack
        \/ (\E request \in orphans : OrphanEnds(request))
        => IInv'
    BY StartUploadStep, PressStep, TakeTurnStep, ServerActsStep, AnswerIsLostStep,
       SendBackStep, OrphanSteps
  <2>3. Hear => IInv'
    BY SaveSucceedsStep, FailureSteps, UploadSucceedsStep, TransitionSucceedsStep DEF Hear
  <2>4. Open \/ Refresh \/ Leave \/ Crash => IInv'
    BY OpenStep, CloseSteps
  <2> QED
    BY <1>1, <2>1, <2>2, <2>3, <2>4 DEF Next
<1>2. CASE UNCHANGED vars
  BY <1>2
  DEF vars, IInv, TypeOK, TurnsInv, DraftInv, StoredInv, SubmissionInv,
      RecoveryKept, Calling
<1> QED
  BY <1>1, <1>2

-----------------------------------------------------------------------------
(* The theorems.                                                            *)

\* In every reachable state, for all bounds and incomplete texts, the inductive invariant of
\* the story editor holds: the queue, the draft, the row and the submission agree.
THEOREM Invariance == Spec => []IInv
<1>1. Init => IInv
  BY Initially
<1>2. IInv /\ [Next]_vars => IInv'
  BY Step
<1> QED
  BY <1>1, <1>2, PTL DEF Spec

\* The variables of the story editor keep their types.
THEOREM TypeCorrect == Spec => []TypeOK
<1>1. IInv => TypeOK
  BY DEF IInv
<1> QED
  BY <1>1, Invariance, PTL

\* "Saved automatically" is true: the row holds the draft on the page, unless an upload is
\* under way or a request nobody waited for came in between (story-autosave.ts flush).
THEOREM SavedDraftIsStored == Spec => []SavedIsStored
<1>1. ASSUME IInv PROVE SavedIsStored
  <2>1. Calling("upload") => page.upload = "queued"
    <3>1. page.queue # <<>> => Waits(page.queue, Head(page.queue))
      BY <1>1, TurnOver
    <3> QED
      BY <1>1, <3>1 DEF IInv, TurnsInv, Calling
  <2> QED
    BY <1>1, <2>1 DEF IInv, StoredInv, SavedIsStored
<1> QED
  BY <1>1, Invariance, PTL

\* The newsroom gets the draft that stood on the page when the button was pressed, whatever
\* was saving, uploading or failing then (story-editor.tsx transition).
THEOREM SubmissionIsAsShown == Spec => []SubmittedAsShown
<1>1. IInv => SubmittedAsShown
  BY DEF IInv, SubmissionInv, SubmittedAsShown
<1> QED
  BY <1>1, Invariance, PTL

\* Once the recovery timer has run, the copy in the browser is the unsaved draft, until it is
\* discarded or the story has been handed on: no answer to an older save removes it
\* (story-editor.tsx subscribeSaved).
THEOREM RecoveryCopyIsKept == Spec => []RecoveryKept
<1>1. IInv => RecoveryKept
  BY DEF IInv
<1> QED
  BY <1>1, Invariance, PTL
=============================================================================
