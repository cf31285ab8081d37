------------------------------- MODULE Ingestion -------------------------------
(***************************************************************************)
(* Automated and manual import of external articles (cms/.../imports).     *)
(*                                                                         *)
(* The cron route, the "run now" button and the import button of a source  *)
(* run as function invocations of their own (workers).  The scheduler's    *)
(* ledger is the only lock between batches: a running batch row whose lock *)
(* has not lapsed.  A batch imports its sources one after the other, with  *)
(* a time limit and retries; an attempt that has run out of time is not    *)
(* stopped, it goes on beside the retry until the invocation ends.  An     *)
(* invocation may die at any step, and the platform ends it when its time  *)
(* is up.  What two imports decide from their own reading of the stories,  *)
(* the unique keys of the database decide again.                           *)
(*                                                                         *)
(* Articles are their providers' ids; a slug is the title, with a suffix   *)
(* when the title is taken.  All sources have one language.  Fetching,     *)
(* parsing, images, quotas and wrong-language articles are left out.       *)
(***************************************************************************)
EXTENDS Naturals, Sequences, FiniteSets

CONSTANTS Crons,         \* invocations of the cron route
          Buttons,       \* invocations of a button of the CMS
          Sources, Articles, Titles,
          Feed,          \* the articles a source offers, in order
          TitleOf,       \* the title it carries
          Order,         \* the ready sources by priority
          None,
          RetryCount,    \* AUTO_IMPORT_RETRY_COUNT
          Interval,      \* AUTO_IMPORT_INTERVAL_MINUTES
          MaxDuration,   \* how long the platform lets an invocation run
          LockSpan,      \* Math.max(timeout * queue * (retries + 1), 300 s)
          MaxNow,        \* bound: time
          MaxUpsets      \* bound: invocations that die, calls that fail, pauses

Workers == Crons \cup Buttons

ASSUME ArticlesAreOffered ==
    Feed \in [Sources -> Seq(Articles)] /\ TitleOf \in [Articles -> Titles] /\ Order \in Seq(Sources)
ASSUME TimesAreNatural ==
    {RetryCount, Interval, LockSpan, MaxNow, MaxUpsets} \subseteq Nat /\ MaxDuration \in Nat \ {0}
\* cron/auto-import/route.ts: maxDuration = 300; scheduler.service.ts: at least 300 s.
ASSUME LockCoversInvocation == MaxDuration <= LockSpan
ASSUME NoneIsNoArticle == None \notin Articles

VARIABLES
    now,
    ledger,   \* ingest_runs: the scheduler's batches, in the order they were claimed
    enabled,  \* the latest scheduler_control row
    worker,   \* the invocations
    imports,  \* every import operation of an invocation; its row in ingest_runs
    drafts,   \* the stories: external drafts, and the newsroom's own
    upsets    \* deaths, failed calls and switches so far

vars == <<now, ledger, enabled, worker, imports, drafts, upsets>>

Slugs    == [title : Titles, suffix : Articles \cup {None}, copy : 1..2]
Stories  == [article : Articles \cup {None}, slug : Slugs]
Batch    == [status : {"running", "completed", "partial", "failed"},
             startedAt : 0..MaxNow, lock : Nat, imported : Nat, by : Workers]
Outcomes == {"imported", "duplicate", "failed"}
Import   == [source : Sources,
             phase : {"importing", "completed", "partial", "failed",
                      "lost"},
             seen : SUBSET Articles, done : Seq(Outcomes), slug : Slugs \cup {None}]
Worker   == [phase : {"idle", "reading", "claiming", "working", "ended", "dead"},
             kind : {"cron", "forced", "manual"}, started : 0..MaxNow, startedAt : 0..MaxNow,
             batch : Nat, todo : Seq(Sources), attempt : Nat, tries : Nat, imported : Nat,
             failures : Nat]

Ended   == {"completed", "partial", "failed"}
Fresh(phase) ==
    [phase |-> phase, kind |-> "cron", started |-> 0, startedAt |-> 0, batch |-> 0,
     todo |-> <<>>, attempt |-> 0, tries |-> 0, imported |-> 0, failures |-> 0]
Alive(w) == worker[w].phase \in {"reading", "claiming", "working"}
Offered(s) == {Feed[s][k] : k \in DOMAIN Feed[s]}
Imported   == {d.article : d \in drafts}
Taken      == {d.slug : d \in drafts}

Upset == upsets < MaxUpsets /\ upsets' = upsets + 1

CountOf(i, outcome) == Cardinality({k \in DOMAIN i.done : i.done[k] = outcome})

(* ---------------------------- the scheduler ---------------------------- *)

Init ==
    /\ now = 0 /\ ledger = <<>> /\ enabled = TRUE /\ drafts = {} /\ upsets = 0
    /\ worker = [w \in Workers |-> Fresh("idle")]
    /\ imports = [w \in Workers |-> <<>>]

\* GET or POST of the route; runSchedulerNowAction.
Invoke(w) ==
    /\ worker[w].phase = "idle"
    /\ worker' = [worker EXCEPT ![w] =
            [@ EXCEPT !.phase = "reading", !.started = now,
                      !.kind = IF w \in Crons THEN "cron" ELSE "forced"]]
    /\ UNCHANGED <<now, ledger, enabled, imports, drafts, upsets>>

NotDue == ledger # <<>> /\ ledger[Len(ledger)].startedAt + Interval > now

\* enqueueAutomatedImports: the clock is read once, the ledger says whether it is time.
ReadLedger(w) ==
    /\ worker[w].phase = "reading"
    /\ worker' = [worker EXCEPT ![w] =
            IF worker[w].kind = "cron" /\ NotDue THEN Fresh("ended")
            ELSE [@ EXCEPT !.phase = "claiming", !.startedAt = now]]
    /\ UNCHANGED <<now, ledger, enabled, imports, drafts, upsets>>

\* Mutant: the lock is taken to lapse when the batch started.
LockedSinceStart(time) ==
    \E b \in DOMAIN ledger : ledger[b].status = "running" /\ ledger[b].startedAt > time

Locked(time) == \E b \in DOMAIN ledger : ledger[b].status = "running" /\ ledger[b].lock > time

\* claim_auto_import_batch, under its advisory lock.  The rows it writes for a claim that is
\* refused are left out: nothing reads them.
Claim(w) ==
    LET startedAt == worker[w].startedAt IN
    /\ worker[w].phase = "claiming"
    /\ IF Locked(startedAt) \/ (~enabled /\ worker[w].kind = "cron")
       THEN worker' = [worker EXCEPT ![w] = Fresh("ended")] /\ UNCHANGED ledger
       ELSE /\ ledger' = Append(ledger,
                    [status |-> "running", startedAt |-> startedAt,
                     lock |-> startedAt + LockSpan, imported |-> 0, by |-> w])
            /\ worker' = [worker EXCEPT ![w] =
                    [@ EXCEPT !.phase = "working", !.batch = Len(ledger) + 1, !.todo = Order]]
    /\ UNCHANGED <<now, enabled, imports, drafts, upsets>>

SetEnabled ==
    /\ Upset
    /\ enabled' = ~enabled
    /\ UNCHANGED <<now, ledger, worker, imports, drafts>>

\* runManualSourceImport: one attempt at one source, without a batch.
ImportManually(w, s) ==
    /\ w \in Buttons /\ worker[w].phase = "idle"
    /\ worker' = [worker EXCEPT ![w] =
            [@ EXCEPT !.phase = "working", !.kind = "manual", !.started = now, !.todo = <<s>>]]
    /\ UNCHANGED <<now, ledger, enabled, imports, drafts, upsets>>

(* --------------------------- runImportQueue ---------------------------- *)

\* importAutomatedSource: the run's row, the feed and, once, getExistingIdentities.  That an
\* import waits for its provider shows as an attempt that stops at its first article.
BeginAttempt(w) ==
    /\ worker[w].phase = "working" /\ worker[w].attempt = 0 /\ worker[w].todo # <<>>
    /\ imports' = [imports EXCEPT ![w] = Append(@,
            [source |-> Head(worker[w].todo), phase |-> "importing",
             seen |-> Imported \cap Offered(Head(worker[w].todo)),
             done |-> <<>>, slug |-> None])]
    /\ worker' = [worker EXCEPT ![w].attempt = Len(imports[w]) + 1]
    /\ UNCHANGED <<now, ledger, enabled, drafts, upsets>>

AttemptSucceeds(w) ==
    LET i == imports[w][worker[w].attempt] IN
    /\ worker[w].phase = "working" /\ worker[w].attempt # 0
    /\ i.phase \in {"completed", "partial"}
    /\ worker' = [worker EXCEPT ![w] =
            [worker[w] EXCEPT !.attempt = 0, !.tries = 0, !.todo = Tail(@),
                              !.imported = @ + CountOf(i, "imported")]]
    /\ UNCHANGED <<now, ledger, enabled, imports, drafts, upsets>>

\* The attempt is given up: another one, unless the retries are used up.
GivenUp(w) ==
    IF worker[w].kind # "manual" /\ worker[w].tries < RetryCount
    THEN [worker[w] EXCEPT !.attempt = 0, !.tries = @ + 1]
    ELSE [worker[w] EXCEPT !.attempt = 0, !.tries = 0, !.todo = Tail(@), !.failures = @ + 1]

\* The import failed, or touchSource after it did.
AttemptFails(w) ==
    /\ worker[w].phase = "working" /\ worker[w].attempt # 0
    /\ LET phase == imports[w][worker[w].attempt].phase IN
       \/ phase = "failed" /\ UNCHANGED upsets
       \/ phase \in {"completed", "partial"} /\ Upset
    /\ worker' = [worker EXCEPT ![w] = GivenUp(w)]
    /\ UNCHANGED <<now, ledger, enabled, imports, drafts>>

\* Mutant: the time limit is not set again for the retry.
AttemptTimesOutOnce(w) ==
    /\ worker[w].phase = "working" /\ worker[w].attempt # 0 /\ worker[w].kind # "manual"
    /\ imports[w][worker[w].attempt].phase \notin Ended /\ worker[w].tries = 0
    /\ worker' = [worker EXCEPT ![w] = GivenUp(w)]
    /\ UNCHANGED <<now, ledger, enabled, imports, drafts, upsets>>

\* withTimeout: the race is lost, the import goes on.
AttemptTimesOut(w) ==
    /\ worker[w].phase = "working" /\ worker[w].attempt # 0 /\ worker[w].kind # "manual"
    /\ imports[w][worker[w].attempt].phase \notin Ended
    /\ worker' = [worker EXCEPT ![w] = GivenUp(w)]
    /\ UNCHANGED <<now, ledger, enabled, imports, drafts, upsets>>

StatusOf(w) ==
    IF worker[w].failures = 0 THEN "completed"
    ELSE IF worker[w].imported > 0 THEN "partial" ELSE "failed"

Finished(w, status, imported) ==
    ledger' = [ledger EXCEPT ![worker[w].batch] =
                   [@ EXCEPT !.status = status, !.imported = imported]]

\* completeAutomatedBatch; when that fails the batch is completed as failed, and when that
\* fails too its row stays as it is.
CompleteBatch(w) ==
    /\ worker[w].phase = "working" /\ worker[w].todo = <<>> /\ worker[w].kind # "manual"
    /\ \/ Finished(w, StatusOf(w), worker[w].imported) /\ UNCHANGED upsets
       \/ (Finished(w, "failed", 0) \/ UNCHANGED ledger) /\ Upset
    /\ worker' = [worker EXCEPT ![w] = Fresh("ended")]
    /\ UNCHANGED <<now, enabled, imports, drafts>>

EndManual(w) ==
    /\ worker[w].phase = "working" /\ worker[w].todo = <<>> /\ worker[w].kind = "manual"
    /\ worker' = [worker EXCEPT ![w] = Fresh("ended")]
    /\ UNCHANGED <<now, ledger, enabled, imports, drafts, upsets>>

(* ------------------ runExternalArticleImportOperation ------------------ *)

Going(w, n) == n \in DOMAIN imports[w] /\ imports[w][n].phase = "importing"
Put(w, n, i) == imports' = [imports EXCEPT ![w][n] = i]
\* An operation that is over keeps its row and its report.
Over(i, phase) == [i EXCEPT !.phase = phase, !.seen = {}, !.slug = None]

\* failRun: the provider, the stories or the slugs could not be read (or the run's row not
\* be completed).
FailRun(w, n) ==
    /\ Going(w, n) /\ imports[w][n].slug = None /\ Upset
    /\ Put(w, n, Over(imports[w][n], "failed"))
    /\ UNCHANGED <<now, ledger, enabled, worker, drafts>>

\* The articles are taken in the order of the feed.
More(i)    == Len(i.done) < Len(Feed[i.source])
Article(i) == Feed[i.source][Len(i.done) + 1]
\* By its provider's id, its address or the fingerprint of its title.
Known(i)   == \E a \in i.seen : TitleOf[a] = TitleOf[Article(i)]

SkipDuplicate(w, n) ==
    LET i == imports[w][n] IN
    /\ Going(w, n) /\ More(i) /\ i.slug = None /\ Known(i)
    /\ Put(w, n, [i EXCEPT !.done = Append(@, "duplicate")])
    /\ UNCHANGED <<now, ledger, enabled, worker, drafts, upsets>>

\* uniqueSlug: the first candidate that is free now.  That its own name is taken means the
\* article is imported, so a second copy is never inserted and no third one is needed.
Free(a) ==
    LET base == [title |-> TitleOf[a], suffix |-> None, copy |-> 1]
        own  == [base EXCEPT !.suffix = a] IN
    IF base \notin Taken THEN base
    ELSE IF own \notin Taken THEN own ELSE [own EXCEPT !.copy = 2]

ChooseSlug(w, n) ==
    LET i == imports[w][n] IN
    /\ Going(w, n) /\ More(i) /\ i.slug = None /\ ~Known(i)
    /\ Put(w, n, [i EXCEPT !.slug = Free(Article(i))])
    /\ UNCHANGED <<now, ledger, enabled, worker, drafts, upsets>>

\* Mutant: no unique key on the article of a source.
SlugConflicts(i) == i.slug \in Taken

\* The unique keys: the article of its source, the slug of its language.
Conflicts(i) == Article(i) \in Imported \/ i.slug \in Taken

\* Mutant: whatever is not inserted is reported as a duplicate.
SettleQuietly(w, n, outcome) ==
    LET i == imports[w][n] IN
    Put(w, n, [i EXCEPT !.done = Append(@, IF outcome = "failed" THEN "duplicate" ELSE outcome),
                        !.slug = None])

Settle(w, n, outcome) ==
    LET i == imports[w][n] IN
    Put(w, n, [i EXCEPT !.done = Append(@, outcome), !.slug = None,
                        !.seen = IF outcome = "imported" THEN @ \cup {Article(i)} ELSE @])

Insert(i) == drafts' = drafts \cup {[article |-> Article(i), slug |-> i.slug]}

\* insertDraft: 23505 is taken for a duplicate; an error may hide an insert that was made.
InsertDraft(w, n) ==
    LET i == imports[w][n] IN
    /\ Going(w, n) /\ i.slug # None
    /\ \/ ~Conflicts(i) /\ Insert(i) /\ Settle(w, n, "imported") /\ UNCHANGED upsets
       \/ Conflicts(i) /\ UNCHANGED drafts /\ Settle(w, n, "duplicate") /\ UNCHANGED upsets
       \/ ~Conflicts(i) /\ Insert(i) /\ Settle(w, n, "failed") /\ Upset
       \/ UNCHANGED drafts /\ Settle(w, n, "failed") /\ Upset
    /\ UNCHANGED <<now, ledger, enabled, worker>>

CompleteRun(w, n) ==
    LET i == imports[w][n] IN
    /\ Going(w, n) /\ ~More(i)
    /\ Put(w, n, Over(i, IF CountOf(i, "failed") > 0 THEN "partial" ELSE "completed"))
    /\ UNCHANGED <<now, ledger, enabled, worker, drafts, upsets>>

RunImport(w, n) ==
    \/ FailRun(w, n) \/ SkipDuplicate(w, n) \/ ChooseSlug(w, n)
    \/ InsertDraft(w, n) \/ CompleteRun(w, n)

\* A story of the newsroom under the same title (insertCmsStory).
WriteStory(title) ==
    LET slug == [title |-> title, suffix |-> None, copy |-> 1] IN
    /\ slug \notin Taken /\ Upset
    /\ drafts' = drafts \cup {[article |-> None, slug |-> slug]}
    /\ UNCHANGED <<now, ledger, enabled, worker, imports>>

(* ------------------------------ platform ------------------------------- *)

\* What an invocation holds in memory ends with it; the rows it wrote stay.
Lost(runs) ==
    [n \in DOMAIN runs |-> IF runs[n].phase \in Ended THEN runs[n] ELSE Over(runs[n], "lost")]

Killed(dying) ==
    /\ worker' = [w \in Workers |-> IF w \in dying THEN Fresh("dead") ELSE worker[w]]
    /\ imports' = [w \in Workers |-> IF w \in dying THEN Lost(imports[w]) ELSE imports[w]]

Die(w) ==
    /\ Alive(w) /\ Upset
    /\ Killed({w})
    /\ UNCHANGED <<now, ledger, enabled, drafts>>

\* Time passes; an invocation that has used its time is ended.
Tick ==
    /\ now < MaxNow
    /\ now' = now + 1
    /\ Killed({w \in Workers : Alive(w) /\ worker[w].started + MaxDuration <= now + 1})
    /\ UNCHANGED <<ledger, enabled, drafts, upsets>>

\* What a live invocation does of itself, whatever its imports do.
Work(w) ==
    \/ ReadLedger(w) \/ Claim(w) \/ BeginAttempt(w) \/ AttemptSucceeds(w) \/ AttemptFails(w)
    \/ AttemptTimesOut(w) \/ CompleteBatch(w) \/ EndManual(w)

Next ==
    \/ \E w \in Workers :
        \/ Invoke(w)
        \/ \E s \in Sources : ImportManually(w, s)
        \/ Work(w) \/ Die(w)
        \/ \E n \in DOMAIN imports[w] : RunImport(w, n)
    \/ \E title \in Titles : WriteStory(title)
    \/ SetEnabled \/ Tick

Spec == Init /\ [][Next]_vars

\* The invocations' own steps and timers go on; a provider may never answer.
FairSpec == Spec /\ WF_vars(\E w \in Workers : Work(w))

(* ------------------------------ properties ----------------------------- *)

TypeOK ==
    /\ now \in 0..MaxNow
    /\ ledger \in Seq(Batch)
    /\ enabled \in BOOLEAN
    /\ worker \in [Workers -> Worker]
    /\ imports \in [Workers -> Seq(Import)]
    /\ drafts \subseteq Stories
    /\ upsets \in 0..MaxUpsets

\* No two batches work at the same time, whatever the button and the cron do and whoever
\* died before: the lock a dead invocation leaves behind lapses only after the platform has
\* ended every invocation that could hold it (claim_auto_import_batch, LockSpan).
OneBatchAtATime ==
    \A v, w \in Workers :
        /\ v # w /\ Alive(v) /\ Alive(w)
        => worker[v].batch = 0 \/ worker[w].batch = 0

\* The articles a run reports as imported.
Reports(i) == {Feed[i.source][k] : k \in {j \in DOMAIN i.done : i.done[j] = "imported"}}
ReportedBy(w) == UNION {Reports(imports[w][n]) : n \in DOMAIN imports[w]}

\* What the dashboard counts as imported are drafts of that very batch, and no draft is
\* counted twice, although attempts that ran out of time, their retries and manual imports
\* of the same source insert side by side (runImportQueue, insertDraft).
CountsAreReal ==
    /\ \A b \in DOMAIN ledger :
          ledger[b].imported <= Cardinality(ReportedBy(ledger[b].by) \cap Imported)
    /\ \A v, w \in Workers : \A m \in DOMAIN imports[v] : \A n \in DOMAIN imports[w] :
          <<v, m>> # <<w, n>> => Reports(imports[v][m]) \cap Reports(imports[w][n]) = {}

\* A run that reports no failure has left none of its source's articles behind: each is a
\* draft now, or lost its slug to another story meanwhile (insertDraft, 23505).
NothingIsDropped ==
    \A w \in Workers : \A n \in DOMAIN imports[w] :
        imports[w][n].phase = "completed" =>
            \A a \in Offered(imports[w][n].source) :
                a \in Imported \/ \E d \in drafts : d.article # a /\ d.slug.title = TitleOf[a]

\* Every batch ends, or its invocation dies, even when a provider never answers: the time
\* limit and the retries lead through the whole queue (withTimeout, runImportQueue).
EveryBatchEnds ==
    []<>(\A w \in Workers : worker[w].phase = "working" => worker[w].kind = "manual")
=============================================================================
