--------------------------- MODULE Ingestion_proofs ---------------------------
(***************************************************************************)
(* Proofs about Ingestion, for any number of invocations, sources,         *)
(* articles and retries.                                                   *)
(*                                                                         *)
(* The lock: an invocation that holds a batch is younger than MaxDuration, *)
(* its batch is running and locked for at least as long as that            *)
(* (HoldsLock), so that whoever claims at a time it read no later than now *)
(* finds it.                                                               *)
(*                                                                         *)
(* The reports: stories are only added, so what an import says of its feed *)
(* stays true once it is (Genuine); what is newly reported as imported was *)
(* not there before, so no two imports report it and counts add up.        *)
(***************************************************************************)
EXTENDS Ingestion, FiniteSetTheorems, TLAPS

-----------------------------------------------------------------------------
(* Types.                                                                   *)

\* The next article of an import is an article.
LEMMA ArticleType ==
    ASSUME NEW i \in Import, More(i)
    PROVE  Len(i.done) + 1 \in DOMAIN Feed[i.source] /\ Article(i) \in Articles
<1>1. Feed[i.source] \in Seq(Articles) /\ i.done \in Seq(Outcomes)
  BY ArticlesAreOffered DEF Import
<1> QED
  BY <1>1 DEF More, Article

\* uniqueSlug yields a slug.
LEMMA FreeType ==
    ASSUME NEW a \in Articles
    PROVE  Free(a) \in Slugs /\ Free(a).title = TitleOf[a]
<1> DEFINE base == [title |-> TitleOf[a], suffix |-> None, copy |-> 1]
           own  == [title |-> TitleOf[a], suffix |-> a, copy |-> 1]
           copy == [title |-> TitleOf[a], suffix |-> a, copy |-> 2]
<1>1. /\ base \in Slugs /\ own \in Slugs /\ copy \in Slugs
      /\ base.title = TitleOf[a] /\ own.title = TitleOf[a] /\ copy.title = TitleOf[a]
  BY ArticlesAreOffered DEF Slugs
<1>2. Free(a) = IF base \notin Taken THEN base ELSE IF own \notin Taken THEN own ELSE copy
  <2>1. own = [base EXCEPT !.suffix = a] /\ copy = [own EXCEPT !.copy = 2]
    OBVIOUS
  <2> QED
    BY <2>1 DEF Free
<1> HIDE DEF base, own, copy
<1> QED
  BY <1>1, <1>2

\* What a source offers are articles.
LEMMA OfferedType ==
    ASSUME NEW s \in Sources
    PROVE  Offered(s) \subseteq Articles
  BY ArticlesAreOffered DEF Offered

\* A count is a number.
LEMMA CountType ==
    ASSUME NEW i \in Import, NEW outcome
    PROVE  /\ IsFiniteSet({k \in DOMAIN i.done : i.done[k] = outcome})
           /\ CountOf(i, outcome) \in Nat
<1>1. i.done \in Seq(Outcomes)
  BY DEF Import
<1>2. IsFiniteSet(1..Len(i.done))
  BY <1>1, FS_Interval
<1>3. DOMAIN i.done = 1..Len(i.done)
  BY <1>1
<1>4. IsFiniteSet({k \in DOMAIN i.done : i.done[k] = outcome})
  BY <1>2, <1>3, FS_Subset
<1> QED
  BY <1>4, FS_CardinalityType DEF CountOf

\* Replacing one import of an invocation.
LEMMA PutType ==
    ASSUME TypeOK, NEW w \in Workers, NEW n \in DOMAIN imports[w], NEW i \in Import,
           Put(w, n, i)
    PROVE  imports' \in [Workers -> Seq(Import)]
<1>1. imports[w] \in Seq(Import)
  BY DEF TypeOK
<1>2. [imports[w] EXCEPT ![n] = i] \in Seq(Import)
  BY <1>1
<1>3. imports' = [imports EXCEPT ![w] = [imports[w] EXCEPT ![n] = i]]
  BY DEF Put
<1> QED
  BY <1>2, <1>3 DEF TypeOK

\* An import that is over.
LEMMA OverType ==
    ASSUME NEW i \in Import, NEW phase \in Ended \cup {"lost"}
    PROVE  /\ Over(i, phase) \in Import
           /\ Over(i, phase).phase = phase
           /\ Over(i, phase).done = i.done /\ Over(i, phase).source = i.source
           /\ Over(i, phase).slug = None /\ Over(i, phase).seen = {}
  BY DEF Over, Import, Ended

\* Settling one article.
LEMMA SettledType ==
    ASSUME NEW i \in Import, More(i), NEW outcome \in Outcomes, NEW seen \in SUBSET Articles
    PROVE  [i EXCEPT !.done = Append(i.done, outcome), !.slug = None, !.seen = seen] \in Import
<1>1. Append(i.done, outcome) \in Seq(Outcomes)
  BY DEF Import
<1> QED
  BY <1>1 DEF Import

\* Numbers and times.
LEMMA Numbers ==
    /\ RetryCount \in Nat /\ Interval \in Nat /\ LockSpan \in Nat /\ MaxNow \in Nat
    /\ MaxUpsets \in Nat /\ MaxDuration \in Nat /\ MaxDuration > 0
  BY TimesAreNatural

LEMMA FreshType ==
    ASSUME NEW phase \in {"idle", "ended", "dead"}
    PROVE  Fresh(phase) \in Worker /\ Fresh(phase).phase = phase /\ Fresh(phase).batch = 0
  BY Numbers DEF Fresh, Worker

\* Giving an attempt up leaves an invocation as it was, but for its queue.
LEMMA GivenUpType ==
    ASSUME TypeOK, NEW w \in Workers, worker[w].todo # <<>>
    PROVE  /\ GivenUp(w) \in Worker
           /\ GivenUp(w).phase = worker[w].phase /\ GivenUp(w).kind = worker[w].kind
           /\ GivenUp(w).started = worker[w].started
           /\ GivenUp(w).startedAt = worker[w].startedAt
           /\ GivenUp(w).batch = worker[w].batch /\ GivenUp(w).attempt = 0
<1> DEFINE v == worker[w]
<1>1. v \in Worker
  BY DEF TypeOK
<1>2. v.todo \in Seq(Sources) /\ v.tries \in Nat /\ v.failures \in Nat
  BY <1>1 DEF Worker
<1>3. Tail(v.todo) \in Seq(Sources) /\ v.tries + 1 \in Nat /\ v.failures + 1 \in Nat
  BY <1>2
<1>4. \/ GivenUp(w) = [v EXCEPT !.attempt = 0, !.tries = v.tries + 1]
      \/ GivenUp(w) = [v EXCEPT !.attempt = 0, !.tries = 0, !.todo = Tail(v.todo),
                                !.failures = v.failures + 1]
  BY DEF GivenUp
<1> HIDE DEF v
<1>5. \A t \in Nat : [v EXCEPT !.attempt = 0, !.tries = t] \in Worker
  BY <1>1 DEF Worker
<1>6. \A f \in Nat : \A q \in Seq(Sources) :
         [v EXCEPT !.attempt = 0, !.tries = 0, !.todo = q, !.failures = f] \in Worker
  BY <1>1 DEF Worker
<1>7. GivenUp(w) \in Worker
  BY <1>3, <1>4, <1>5, <1>6
<1>8. CASE GivenUp(w) = [v EXCEPT !.attempt = 0, !.tries = v.tries + 1]
  <2>1. ASSUME NEW u \in Worker, NEW t \in Nat, u = [v EXCEPT !.attempt = 0, !.tries = t]
        PROVE  /\ u.phase = v.phase /\ u.kind = v.kind /\ u.started = v.started
               /\ u.startedAt = v.startedAt /\ u.batch = v.batch /\ u.attempt = 0
    BY <1>1, <2>1 DEF Worker
  <2> QED
    BY <1>3, <1>7, <1>8, <2>1 DEF v
<1>9. CASE GivenUp(w) = [v EXCEPT !.attempt = 0, !.tries = 0, !.todo = Tail(v.todo),
                                  !.failures = v.failures + 1]
  <2>1. ASSUME NEW u \in Worker, NEW q \in Seq(Sources), NEW f \in Nat,
               u = [v EXCEPT !.attempt = 0, !.tries = 0, !.todo = q, !.failures = f]
        PROVE  /\ u.phase = v.phase /\ u.kind = v.kind /\ u.started = v.started
               /\ u.startedAt = v.startedAt /\ u.batch = v.batch /\ u.attempt = 0
    BY <1>1, <2>1 DEF Worker
  <2> QED
    BY <1>3, <1>7, <1>9, <2>1 DEF v
<1> QED
  BY <1>4, <1>8, <1>9

\* The scheduler's own steps.
LEMMA SchedulerType ==
    ASSUME TypeOK, NEW w \in Workers,
           \/ Invoke(w) \/ ReadLedger(w) \/ Claim(w) \/ CompleteBatch(w) \/ EndManual(w)
           \/ \E s \in Sources : ImportManually(w, s)
    PROVE  TypeOK'
<1>1. worker[w] \in Worker /\ now \in 0..MaxNow
  BY DEF TypeOK, Worker
<1>2. CASE Invoke(w)
  BY <1>1, <1>2 DEF Invoke, TypeOK, Worker
<1>3. CASE ReadLedger(w)
  BY <1>1, <1>3, FreshType DEF ReadLedger, TypeOK, Worker
<1>4. CASE Claim(w)
  <2> DEFINE batch == [status |-> "running", startedAt |-> worker[w].startedAt,
                       lock |-> worker[w].startedAt + LockSpan, imported |-> 0, by |-> w]
  <2>1. batch \in Batch
    BY <1>1, Numbers DEF Batch, Worker
  <2>2. Append(ledger, batch) \in Seq(Batch) /\ Len(ledger) + 1 \in Nat
    BY <2>1 DEF TypeOK
  <2>3. [worker[w] EXCEPT !.phase = "working", !.batch = Len(ledger) + 1, !.todo = Order] \in Worker
    BY <1>1, <2>2, ArticlesAreOffered DEF Worker
  <2> QED
    BY <1>4, <2>2, <2>3, FreshType DEF Claim, TypeOK
<1>5. CASE CompleteBatch(w)
  <2>1. StatusOf(w) \in {"completed", "partial", "failed"}
    BY DEF StatusOf
  <2>2. ASSUME NEW status \in {"completed", "partial", "failed"}, NEW imported \in Nat,
               Finished(w, status, imported)
        PROVE  ledger' \in Seq(Batch)
    <3> DEFINE done(b) == [ledger[b] EXCEPT !.status = status, !.imported = imported]
               k == worker[w].batch
    <3>1. ledger \in Seq(Batch)
      BY DEF TypeOK
    <3>2. \A b \in DOMAIN ledger : ledger[b] \in Batch
      BY <3>1
    <3>3. \A b \in DOMAIN ledger : done(b) \in Batch
      BY <3>2 DEF Batch
    <3>4. ledger' = [ledger EXCEPT ![k] = done(k)]
      BY <2>2 DEF Finished
    <3> HIDE DEF done, k
    <3>5. CASE k \in DOMAIN ledger
      BY <3>1, <3>3, <3>4, <3>5
    <3>6. CASE k \notin DOMAIN ledger
      <4>1. ledger' = ledger
        BY <3>1, <3>4, <3>6
      <4> QED
        BY <3>1, <4>1
    <3> QED
      BY <3>5, <3>6
  <2>3. worker[w].imported \in Nat
    BY <1>1 DEF Worker
  <2>4. ledger' \in Seq(Batch)
    BY <1>5, <2>1, <2>2, <2>3 DEF CompleteBatch, TypeOK
  <2> QED
    BY <1>5, <2>4, FreshType, Numbers DEF CompleteBatch, TypeOK, Upset
<1>6. CASE EndManual(w)
  BY <1>6, FreshType DEF EndManual, TypeOK
<1>7. ASSUME NEW s \in Sources, ImportManually(w, s)
      PROVE  TypeOK'
  <2>1. <<s>> \in Seq(Sources)
    OBVIOUS
  <2>2. [worker[w] EXCEPT !.phase = "working", !.kind = "manual", !.started = now, !.todo = <<s>>] \in Worker
    BY <1>1, <2>1 DEF Worker
  <2> QED
    BY <1>7, <2>2 DEF ImportManually, TypeOK
<1> QED
  BY <1>2, <1>3, <1>4, <1>5, <1>6, <1>7

\* The attempts of a queue.
LEMMA AttemptType ==
    ASSUME TypeOK, NEW w \in Workers, worker[w].attempt = 0 \/ worker[w].attempt \in DOMAIN imports[w],
           worker[w].attempt # 0 => worker[w].todo # <<>>,
           BeginAttempt(w) \/ AttemptSucceeds(w) \/ AttemptFails(w) \/ AttemptTimesOut(w)
    PROVE  TypeOK'
<1>1. worker[w] \in Worker /\ imports[w] \in Seq(Import)
  BY DEF TypeOK
<1>2. CASE BeginAttempt(w)
  <2> DEFINE s == Head(worker[w].todo)
             i == [source |-> s, phase |-> "importing", seen |-> Imported \cap Offered(s),
                   done |-> <<>>, slug |-> None]
  <2>1. s \in Sources
    BY <1>1, <1>2 DEF BeginAttempt, Worker
  <2>2. i \in Import
    BY <2>1, OfferedType DEF Import
  <2>3. Append(imports[w], i) \in Seq(Import) /\ Len(imports[w]) + 1 \in Nat
    BY <1>1, <2>2
  <2> HIDE DEF i
  <2>4. [worker[w] EXCEPT !.attempt = Len(imports[w]) + 1] \in Worker
    BY <1>1, <2>3 DEF Worker
  <2> QED
    BY <1>2, <2>3, <2>4 DEF BeginAttempt, TypeOK, i
<1>3. CASE AttemptSucceeds(w)
  <2>1. imports[w][worker[w].attempt] \in Import
    BY <1>1, <1>3 DEF AttemptSucceeds
  <2>2. CountOf(imports[w][worker[w].attempt], "imported") \in Nat
    BY <2>1, CountType
  <2> DEFINE count == CountOf(imports[w][worker[w].attempt], "imported")
  <2>3. worker[w].todo \in Seq(Sources) /\ worker[w].imported \in Nat
    BY <1>1 DEF Worker
  <2>4. Tail(worker[w].todo) \in Seq(Sources) /\ worker[w].imported + count \in Nat
    BY <1>3, <2>2, <2>3 DEF AttemptSucceeds
  <2>5. [worker[w] EXCEPT !.attempt = 0, !.tries = 0, !.todo = Tail(worker[w].todo),
             !.imported = worker[w].imported + count] \in Worker
    BY <1>1, <2>4 DEF Worker
  <2>6. worker' = [worker EXCEPT ![w] =
             [worker[w] EXCEPT !.attempt = 0, !.tries = 0, !.todo = Tail(worker[w].todo),
                               !.imported = worker[w].imported + count]]
    BY <1>3 DEF AttemptSucceeds
  <2> HIDE DEF count
  <2> QED
    BY <1>3, <2>5, <2>6 DEF AttemptSucceeds, TypeOK
<1>4. CASE AttemptFails(w) \/ AttemptTimesOut(w)
  <2>1. worker' = [worker EXCEPT ![w] = GivenUp(w)] /\ worker[w].todo # <<>>
    BY <1>4 DEF AttemptFails, AttemptTimesOut
  <2>2. UNCHANGED <<now, ledger, enabled, imports, drafts>> /\ upsets' \in 0..MaxUpsets
    BY <1>4, Numbers DEF AttemptFails, AttemptTimesOut, TypeOK, Upset
  <2> QED
    BY <2>1, <2>2, GivenUpType DEF TypeOK
<1> QED
  BY <1>2, <1>3, <1>4

\* The steps of an import.
LEMMA ImportType ==
    ASSUME TypeOK, NEW w \in Workers, NEW n \in DOMAIN imports[w], RunImport(w, n),
           imports[w][n].slug # None => More(imports[w][n])
    PROVE  TypeOK'
<1> DEFINE i == imports[w][n]
<1>1. i \in Import
  BY DEF TypeOK
<1>2. UNCHANGED <<now, ledger, enabled, worker>> /\ upsets' \in 0..MaxUpsets
  BY SMTT(30), Numbers DEF RunImport, FailRun, SkipDuplicate, ChooseSlug, InsertDraft, CompleteRun, Upset, TypeOK
<1>3. CASE FailRun(w, n)
  BY <1>1, <1>2, <1>3, OverType, PutType DEF FailRun, TypeOK, Ended
<1>4. CASE SkipDuplicate(w, n)
  <2>1. Append(i.done, "duplicate") \in Seq(Outcomes)
    BY <1>1 DEF Import, Outcomes
  <2>2. [i EXCEPT !.done = Append(i.done, "duplicate")] \in Import
    BY <1>1, <2>1 DEF Import
  <2> QED
    BY <1>2, <1>4, <2>2, PutType DEF SkipDuplicate, TypeOK
<1>5. CASE ChooseSlug(w, n)
  <2>1. Free(Article(i)) \in Slugs
    BY <1>1, <1>5, ArticleType, FreeType DEF ChooseSlug
  <2>2. [i EXCEPT !.slug = Free(Article(i))] \in Import
    BY <1>1, <2>1 DEF Import
  <2> QED
    BY <1>2, <1>5, <2>2, PutType DEF ChooseSlug, TypeOK
<1>6. CASE InsertDraft(w, n)
  <2>1. More(i) /\ i.slug \in Slugs
    BY <1>1, <1>6 DEF InsertDraft, Import
  <2>2. Article(i) \in Articles
    BY <1>1, <2>1, ArticleType
  <2>3. drafts' \subseteq Stories
    BY <1>6, <2>1, <2>2 DEF InsertDraft, Insert, Stories, TypeOK
  <2>4. PICK outcome \in Outcomes : Settle(w, n, outcome)
    BY <1>6 DEF InsertDraft, Outcomes
  <2>5. \A seen \in SUBSET Articles :
           [i EXCEPT !.done = Append(@, outcome), !.slug = None, !.seen = seen] \in Import
    BY <1>1, <2>1, SettledType
  <2>6. (IF outcome = "imported" THEN i.seen \cup {Article(i)} ELSE i.seen) \in SUBSET Articles
    BY <1>1, <2>2 DEF Import
  <2>7. [i EXCEPT !.done = Append(@, outcome), !.slug = None,
             !.seen = IF outcome = "imported" THEN @ \cup {Article(i)} ELSE @] \in Import
    BY <2>5, <2>6
  <2>8. imports' \in [Workers -> Seq(Import)]
    BY <2>4, <2>7, PutType DEF Settle
  <2> QED
    BY <1>2, <1>6, <2>3, <2>8 DEF InsertDraft, TypeOK
<1>7. CASE CompleteRun(w, n)
  BY <1>1, <1>2, <1>7, OverType, PutType DEF CompleteRun, TypeOK, Ended
<1> QED
  BY <1>3, <1>4, <1>5, <1>6, <1>7 DEF RunImport

\* The platform ends invocations: what they hold in memory is gone.
LEMMA KilledType ==
    ASSUME TypeOK, NEW dying \in SUBSET Workers, Killed(dying)
    PROVE  worker' \in [Workers -> Worker] /\ imports' \in [Workers -> Seq(Import)]
<1>1. worker' \in [Workers -> Worker]
  BY FreshType DEF Killed, TypeOK
<1>2. ASSUME NEW w \in Workers
      PROVE  Lost(imports[w]) \in Seq(Import)
  <2>1. imports[w] \in Seq(Import)
    BY DEF TypeOK
  <2>2. \A n \in DOMAIN imports[w] : Over(imports[w][n], "lost") \in Import
    BY <2>1, OverType
  <2>3. \A n \in DOMAIN imports[w] : imports[w][n] \in Import
    BY <2>1
  <2> QED
    BY <2>1, <2>2, <2>3 DEF Lost
<1> QED
  BY <1>1, <1>2 DEF Killed, TypeOK

LEMMA PlatformType ==
    ASSUME TypeOK,
           \/ \E w \in Workers : Die(w)
           \/ \E title \in Titles : WriteStory(title)
           \/ SetEnabled \/ Tick
    PROVE  TypeOK'
<1>1. ASSUME NEW w \in Workers, Die(w)
      PROVE  TypeOK'
  BY <1>1, KilledType, Numbers DEF Die, TypeOK, Upset
<1>2. ASSUME NEW title \in Titles, WriteStory(title)
      PROVE  TypeOK'
  BY <1>2, Numbers DEF WriteStory, TypeOK, Upset, Stories, Slugs
<1>3. CASE SetEnabled
  BY <1>3, Numbers DEF SetEnabled, TypeOK, Upset
<1>4. CASE Tick
  <2> DEFINE dying == {w \in Workers : Alive(w) /\ worker[w].started + MaxDuration <= now + 1}
  <2>1. Killed(dying) /\ dying \in SUBSET Workers
    BY <1>4 DEF Tick
  <2>2. now' \in 0..MaxNow /\ UNCHANGED <<ledger, enabled, drafts, upsets>>
    BY <1>4, Numbers DEF Tick, TypeOK
  <2> QED
    BY <2>1, <2>2, KilledType DEF TypeOK
<1> QED
  BY <1>1, <1>2, <1>3, <1>4

-----------------------------------------------------------------------------
(* What an invocation remembers.                                            *)

\* The attempt an invocation waits for is the last import it began, and its source is still
\* in the queue.
Attempts ==
    \A w \in Workers : worker[w].attempt # 0 =>
        /\ worker[w].phase = "working" /\ worker[w].todo # <<>>
        /\ imports[w] # <<>> /\ worker[w].attempt = Len(imports[w])

\* An import holds a slug only for the article it is at, and one of that article's title.
Choices ==
    \A w \in Workers : \A n \in DOMAIN imports[w] : imports[w][n].slug # None =>
        /\ imports[w][n].phase = "importing" /\ More(imports[w][n])
        /\ imports[w][n].slug.title = TitleOf[Article(imports[w][n])]

LEMMA TypeStep ==
    ASSUME TypeOK, Attempts, Choices, [Next]_vars
    PROVE  TypeOK'
<1>1. ASSUME NEW w \in Workers, Work(w)
      PROVE  TypeOK'
  BY <1>1, SchedulerType, AttemptType DEF Work, Attempts, TypeOK
<1>2. ASSUME NEW w \in Workers, NEW n \in DOMAIN imports[w], RunImport(w, n)
      PROVE  TypeOK'
  BY <1>2, ImportType DEF Choices
<1>3. CASE UNCHANGED vars
  BY <1>3 DEF vars, TypeOK
<1> QED
  BY <1>1, <1>2, <1>3, SchedulerType, PlatformType DEF Next

LEMMA AttemptsStep ==
    ASSUME TypeOK, Attempts, [Next]_vars
    PROVE  Attempts'
<1> USE DEF TypeOK
<1>0. \A w \in Workers : worker[w] \in Worker /\ imports[w] \in Seq(Import)
  OBVIOUS
<1>a. ASSUME NEW w \in Workers, NEW u, worker' = [worker EXCEPT ![w] = u], u.attempt = 0,
             UNCHANGED imports
      PROVE  Attempts'
  BY <1>a DEF Attempts
<1>1. ASSUME NEW w \in Workers, \/ Invoke(w) \/ ReadLedger(w) \/ Claim(w)
                                \/ CompleteBatch(w) \/ EndManual(w)
                                \/ \E s \in Sources : ImportManually(w, s)
      PROVE  Attempts'
  <2>1. worker[w].attempt = 0 \/ CompleteBatch(w) \/ EndManual(w)
    BY <1>1 DEF Attempts, Invoke, ReadLedger, Claim, ImportManually
  <2>2. \A phase : Fresh(phase).attempt = 0
    BY DEF Fresh
  <2>3. UNCHANGED imports
    BY <1>1 DEF Invoke, ReadLedger, Claim, CompleteBatch, EndManual, ImportManually
  <2>4. CASE CompleteBatch(w) \/ EndManual(w)
    BY <1>a, <2>2, <2>3, <2>4 DEF CompleteBatch, EndManual
  <2>5. CASE Invoke(w)
    <3>1. [worker[w] EXCEPT !.phase = "reading", !.started = now,
                            !.kind = IF w \in Crons THEN "cron" ELSE "forced"].attempt = 0
      BY <1>0, <2>1, <2>5 DEF Worker, Attempts, Invoke
    <3> QED
      BY <1>a, <2>3, <2>5, <3>1 DEF Invoke
  <2>6. CASE ReadLedger(w)
    <3>1. [worker[w] EXCEPT !.phase = "claiming", !.startedAt = now].attempt = 0
      BY <1>0, <2>6 DEF Worker, Attempts, ReadLedger
    <3> QED
      BY <1>a, <2>2, <2>3, <2>6, <3>1 DEF ReadLedger
  <2>7. CASE Claim(w)
    <3>1. [worker[w] EXCEPT !.phase = "working", !.batch = Len(ledger) + 1, !.todo = Order].attempt = 0
      BY <1>0, <2>7 DEF Worker, Attempts, Claim
    <3> QED
      BY <1>a, <2>2, <2>3, <2>7, <3>1 DEF Claim
  <2>8. ASSUME NEW s \in Sources, ImportManually(w, s)
        PROVE  Attempts'
    <3>1. [worker[w] EXCEPT !.phase = "working", !.kind = "manual", !.started = now,
                            !.todo = <<s>>].attempt = 0
      BY <1>0, <2>8 DEF Worker, Attempts, ImportManually
    <3> QED
      BY <1>a, <2>3, <2>8, <3>1 DEF ImportManually
  <2> QED
    BY <1>1, <2>4, <2>5, <2>6, <2>7, <2>8
<1>2. ASSUME NEW w \in Workers, BeginAttempt(w)
      PROVE  Attempts'
  <2>1. PICK i : imports' = [imports EXCEPT ![w] = Append(imports[w], i)]
    BY <1>2 DEF BeginAttempt
  <2>2. /\ imports'[w] = Append(imports[w], i) /\ imports'[w] # <<>>
        /\ Len(imports'[w]) = Len(imports[w]) + 1
        /\ \A v \in Workers \ {w} : imports'[v] = imports[v]
    <3>1. Append(imports[w], i) # <<>> /\ Len(Append(imports[w], i)) = Len(imports[w]) + 1
      BY SMTT(30), <1>0
    <3> QED
      BY <2>1, <3>1
  <2>3. /\ worker'[w].attempt = Len(imports[w]) + 1 /\ worker'[w].phase = "working"
        /\ worker'[w].todo # <<>>
        /\ \A v \in Workers \ {w} : worker'[v] = worker[v]
    BY <1>0, <1>2 DEF BeginAttempt, Worker
  <2> QED
    BY <2>2, <2>3 DEF Attempts
<1>3. ASSUME NEW w \in Workers, AttemptSucceeds(w)
      PROVE  Attempts'
  <2>1. \A q, n : [worker[w] EXCEPT !.attempt = 0, !.tries = 0, !.todo = q, !.imported = n].attempt = 0
    BY <1>0 DEF Worker
  <2> QED
    BY <1>a, <1>3, <2>1 DEF AttemptSucceeds
<1>4. ASSUME NEW w \in Workers, AttemptFails(w) \/ AttemptTimesOut(w)
      PROVE  Attempts'
  <2>1. worker' = [worker EXCEPT ![w] = GivenUp(w)] /\ UNCHANGED imports /\ worker[w].attempt # 0
    BY <1>4 DEF AttemptFails, AttemptTimesOut
  <2>2. GivenUp(w).attempt = 0
    BY <2>1, GivenUpType DEF Attempts
  <2> QED
    BY <2>1, <2>2 DEF Attempts
<1>5. ASSUME NEW w \in Workers, NEW n \in DOMAIN imports[w], RunImport(w, n)
      PROVE  Attempts'
  <2>1. UNCHANGED worker /\ \E i : Put(w, n, i)
    BY <1>5 DEF RunImport, FailRun, SkipDuplicate, ChooseSlug, InsertDraft, CompleteRun, Settle
  <2>2. PICK i : Put(w, n, i)
    BY <2>1
  <2>3. /\ Len(imports'[w]) = Len(imports[w]) /\ imports'[w] # <<>>
        /\ \A v \in Workers \ {w} : imports'[v] = imports[v]
    BY <2>2 DEF Put
  <2> QED
    BY <2>1, <2>3 DEF Attempts
<1>6. ASSUME NEW dying \in SUBSET Workers, Killed(dying)
      PROVE  Attempts'
  BY <1>6 DEF Killed, Attempts, Fresh
<1>7. ASSUME UNCHANGED <<worker, imports>>
      PROVE  Attempts'
  BY <1>7 DEF Attempts
<1>8. ASSUME Tick
      PROVE  \E dying \in SUBSET Workers : Killed(dying)
  <2> DEFINE dying == {w \in Workers : Alive(w) /\ worker[w].started + MaxDuration <= now + 1}
  <2>1. Killed(dying) /\ dying \in SUBSET Workers
    BY SMTT(30), <1>8 DEF Tick
  <2> QED
    BY <2>1
<1> QED
  BY <1>1, <1>2, <1>3, <1>4, <1>5, <1>6, <1>7, <1>8
  DEF Next, Work, Die, WriteStory, SetEnabled, vars

\* What an import does to its row, told apart by what it does to the story it is at.
LEMMA ChoicesStep ==
    ASSUME TypeOK, Choices, [Next]_vars
    PROVE  Choices'
<1> DEFINE Chosen(i) == i.slug # None => /\ i.phase = "importing" /\ More(i)
                                         /\ i.slug.title = TitleOf[Article(i)]
<1>0. \A w \in Workers : imports[w] \in Seq(Import)
  BY DEF TypeOK
<1>1. ASSUME NEW w \in Workers, NEW i, NEW n \in DOMAIN imports[w], Chosen(i), Put(w, n, i)
      PROVE  Choices'
  BY ZenonT(40), <1>0, <1>1 DEF Put, Choices, TypeOK, More, Article
<1>2. ASSUME NEW w \in Workers, NEW n \in DOMAIN imports[w], RunImport(w, n)
      PROVE  Choices'
  <2> DEFINE i == imports[w][n]
  <2>1. i \in Import
    BY <1>0
  <2>2. CASE FailRun(w, n) \/ CompleteRun(w, n)
    BY <1>1, <2>1, <2>2, OverType DEF FailRun, CompleteRun, Ended
  <2>3. CASE SkipDuplicate(w, n)
    <3>1. [i EXCEPT !.done = Append(i.done, "duplicate")].slug = None
      BY <2>1, <2>3 DEF SkipDuplicate, Import
    <3> QED
      BY <1>1, <2>3, <3>1 DEF SkipDuplicate
  <2>4. CASE ChooseSlug(w, n)
    <3>1. Free(Article(i)).title = TitleOf[Article(i)]
      BY <2>1, <2>4, ArticleType, FreeType DEF ChooseSlug
    <3>2. Chosen([i EXCEPT !.slug = Free(Article(i))])
      BY <2>1, <2>4, <3>1 DEF ChooseSlug, Going, Import, More, Article
    <3> QED
      BY <1>1, <2>4, <3>2 DEF ChooseSlug
  <2>5. CASE InsertDraft(w, n)
    <3>1. PICK outcome : Settle(w, n, outcome)
      BY <2>5 DEF InsertDraft
    <3> DEFINE j == [i EXCEPT !.done = Append(@, outcome), !.slug = None,
                              !.seen = IF outcome = "imported" THEN @ \cup {Article(i)} ELSE @]
    <3>2. j.slug = None
      BY <2>1 DEF Import
    <3>3. Put(w, n, j)
      BY <3>1 DEF Settle
    <3> HIDE DEF j
    <3> QED
      BY <1>1, <3>2, <3>3
  <2> QED
    BY <1>2, <2>2, <2>3, <2>4, <2>5 DEF RunImport
<1>3. ASSUME NEW w \in Workers, BeginAttempt(w)
      PROVE  Choices'
  <2> DEFINE i == [source |-> Head(worker[w].todo), phase |-> "importing",
                   seen |-> Imported \cap Offered(Head(worker[w].todo)),
                   done |-> <<>>, slug |-> None]
  <2>1. imports' = [imports EXCEPT ![w] = Append(@, i)] /\ i.slug = None
    BY <1>3 DEF BeginAttempt
  <2> HIDE DEF i
  <2>2. imports[w] \in Seq(Import) /\ DOMAIN imports = Workers
    BY <1>0 DEF TypeOK
  <2>3. ASSUME NEW v \in Workers, NEW n \in DOMAIN imports'[v], imports'[v][n].slug # None
        PROVE  n \in DOMAIN imports[v] /\ imports'[v][n] = imports[v][n]
    BY <2>1, <2>2, <2>3
  <2>4. ASSUME NEW v \in Workers, NEW n \in DOMAIN imports'[v], imports'[v][n].slug # None
        PROVE  /\ imports'[v][n].phase = "importing" /\ More(imports'[v][n])
               /\ imports'[v][n].slug.title = TitleOf[Article(imports'[v][n])]
    BY <2>3, <2>4 DEF Choices
  <2> QED
    BY <2>4 DEF Choices, More, Article
<1>4. ASSUME NEW dying \in SUBSET Workers, Killed(dying)
      PROVE  Choices'
  <2>1. \A w \in Workers : \A n \in DOMAIN imports[w] : Over(imports[w][n], "lost").slug = None
    BY <1>0, OverType
  <2>2. ASSUME NEW w \in Workers, NEW n \in DOMAIN imports'[w]
        PROVE  n \in DOMAIN imports[w] /\ imports'[w][n] \in {imports[w][n], Over(imports[w][n], "lost")}
    BY <1>4 DEF Killed, Lost
  <2>3. ASSUME NEW w \in Workers, NEW n \in DOMAIN imports'[w], imports'[w][n].slug # None
        PROVE  n \in DOMAIN imports[w] /\ imports'[w][n] = imports[w][n]
    BY <2>1, <2>2, <2>3
  <2>4. ASSUME NEW w \in Workers, NEW n \in DOMAIN imports'[w], imports'[w][n].slug # None
        PROVE  /\ imports'[w][n].phase = "importing" /\ More(imports'[w][n])
               /\ imports'[w][n].slug.title = TitleOf[Article(imports'[w][n])]
    BY <2>3, <2>4 DEF Choices
  <2> QED
    BY <2>4 DEF Choices, More, Article
<1>5. ASSUME UNCHANGED imports
      PROVE  Choices'
  BY <1>5 DEF Choices, More, Article
<1>6. ASSUME Tick
      PROVE  \E dying \in SUBSET Workers : Killed(dying)
  <2> DEFINE dying == {w \in Workers : Alive(w) /\ worker[w].started + MaxDuration <= now + 1}
  <2>1. Killed(dying) /\ dying \in SUBSET Workers
    BY <1>6 DEF Tick
  <2> QED
    BY <2>1
<1> QED
  BY ZenonT(40), <1>2, <1>3, <1>4, <1>5, <1>6
  DEF Next, Work, Invoke, ReadLedger, Claim, ImportManually, AttemptSucceeds, AttemptFails,
      AttemptTimesOut, CompleteBatch, EndManual, Die, WriteStory, SetEnabled, vars

-----------------------------------------------------------------------------
(* The lock.                                                                *)

\* A live invocation is within its time.
LivesOnTime(w) ==
    Alive(w) => worker[w].started <= now /\ now < worker[w].started + MaxDuration

\* The time it claims at is one it read, no later than now.
ReadsTheClock(w) ==
    worker[w].phase = "claiming" =>
        worker[w].started <= worker[w].startedAt /\ worker[w].startedAt <= now

\* The batch it holds is running, and locked until its own time is up.
HoldsLock(w) ==
    worker[w].batch # 0 =>
        /\ worker[w].phase = "working" /\ worker[w].batch \in DOMAIN ledger
        /\ ledger[worker[w].batch].status = "running"
        /\ ledger[worker[w].batch].by = w
        /\ worker[w].started + MaxDuration <= ledger[worker[w].batch].lock

Scheduled(w) == LivesOnTime(w) /\ ReadsTheClock(w) /\ HoldsLock(w)
OneHolder == \A v, w \in Workers : v # w => worker[v].batch = 0 \/ worker[w].batch = 0
Locks == OneHolder /\ \A w \in Workers : Scheduled(w)

\* Where nothing of an invocation and of its batch's row changes, nothing of its schedule does.
LEMMA ScheduledStays ==
    ASSUME NEW w \in Workers, Scheduled(w), worker'[w] = worker[w], now' = now,
           worker[w].batch \in DOMAIN ledger =>
               /\ worker[w].batch \in DOMAIN ledger'
               /\ ledger'[worker[w].batch] = ledger[worker[w].batch]
    PROVE  Scheduled(w)'
  BY DEF Scheduled, LivesOnTime, ReadsTheClock, HoldsLock, Alive

\* Whoever holds a batch is seen by every claim.
LEMMA HolderIsSeen ==
    ASSUME TypeOK, NEW v \in Workers, NEW w \in Workers, Scheduled(v), Scheduled(w),
           worker[v].batch # 0, worker[w].phase = "claiming"
    PROVE  Locked(worker[w].startedAt)
<1> DEFINE b == worker[v].batch
<1>1. /\ worker[v] \in Worker /\ worker[w] \in Worker /\ now \in Nat /\ ledger \in Seq(Batch)
  BY DEF TypeOK
<1>2. worker[v].started \in Nat /\ worker[w].startedAt \in Nat
  BY SMTT(30), <1>1 DEF Worker
<1>3. now < worker[v].started + MaxDuration
  BY DEF Scheduled, LivesOnTime, HoldsLock, Alive
<1>4. /\ b \in DOMAIN ledger /\ ledger[b].status = "running"
      /\ worker[v].started + MaxDuration <= ledger[b].lock
  BY DEF Scheduled, HoldsLock
<1>5. worker[w].startedAt <= now
  BY DEF Scheduled, ReadsTheClock
<1>6. worker[w].startedAt < worker[v].started + MaxDuration
  BY <1>1, <1>2, <1>3, <1>5, Numbers
<1> HIDE DEF b
<1>7. ledger[b] \in Batch
  BY <1>1, <1>4
<1>8. ledger[b].lock \in Nat
  BY <1>7 DEF Batch
<1>9. ledger[b].lock > worker[w].startedAt
  BY <1>2, <1>4, <1>6, <1>8, Numbers
<1> QED
  BY <1>4, <1>9 DEF Locked

\* Claiming a batch.
LEMMA ClaimLocks ==
    ASSUME TypeOK, Locks, NEW w \in Workers, Claim(w)
    PROVE  Locks'
<1> DEFINE startedAt == worker[w].startedAt
           batch == [status |-> "running", startedAt |-> startedAt,
                     lock |-> startedAt + LockSpan, imported |-> 0, by |-> w]
           won == [worker[w] EXCEPT !.phase = "working", !.batch = Len(ledger) + 1, !.todo = Order]
<1>1. worker[w] \in Worker /\ ledger \in Seq(Batch) /\ worker \in [Workers -> Worker] /\ now' = now
  BY DEF TypeOK, Claim
<1>2. Scheduled(w) /\ worker[w].phase = "claiming"
  BY DEF Locks, Claim
<1>3. CASE worker' = [worker EXCEPT ![w] = Fresh("ended")] /\ UNCHANGED ledger
  <2>1. worker'[w].batch = 0 /\ worker'[w].phase = "ended"
    BY <1>1, <1>3, FreshType
  <2>2. \A v \in Workers \ {w} : worker'[v] = worker[v]
    BY <1>1, <1>3
  <2>3. Scheduled(w)'
    BY <2>1 DEF Scheduled, LivesOnTime, ReadsTheClock, HoldsLock, Alive
  <2>4. \A v \in Workers \ {w} : Scheduled(v)'
    BY <1>1, <1>3, <2>2, ScheduledStays DEF Locks
  <2> QED
    BY <2>1, <2>2, <2>3, <2>4 DEF Locks, OneHolder
<1>4. CASE ledger' = Append(ledger, batch) /\ worker' = [worker EXCEPT ![w] = won]
           /\ ~Locked(startedAt)
  <2>1. /\ \A b \in DOMAIN ledger : b \in DOMAIN ledger' /\ ledger'[b] = ledger[b]
        /\ Len(ledger) + 1 \in DOMAIN ledger' /\ ledger'[Len(ledger) + 1] = batch
    <3> HIDE DEF batch
    <3> QED
      BY <1>1, <1>4
  <2>2. \A v \in Workers : worker[v].batch = 0
    BY <1>2, <1>4, HolderIsSeen DEF Locks
  <2>3. \A v \in Workers \ {w} : worker'[v] = worker[v]
    BY <1>1, <1>4
  <2>4. \A v \in Workers \ {w} : Scheduled(v)'
    BY <1>1, <2>1, <2>3, ScheduledStays DEF Locks
  <2>5. /\ worker'[w].phase = "working" /\ worker'[w].started = worker[w].started
        /\ worker'[w].batch = Len(ledger) + 1
    BY <1>1, <1>4 DEF Worker
  <2>6. /\ worker[w].started <= startedAt /\ startedAt <= now
        /\ worker[w].started <= now /\ now < worker[w].started + MaxDuration
    BY <1>2 DEF Scheduled, LivesOnTime, ReadsTheClock, Alive
  <2>7. worker[w].started \in Nat /\ startedAt \in Nat
    BY <1>1 DEF Worker
  <2>8. worker[w].started + MaxDuration <= startedAt + LockSpan
    BY <2>6, <2>7, Numbers, LockCoversInvocation
  <2>9. Scheduled(w)'
    BY <1>1, <2>1, <2>5, <2>6, <2>8 DEF Scheduled, LivesOnTime, ReadsTheClock, HoldsLock, Alive
  <2> QED
    BY <2>2, <2>3, <2>4, <2>9 DEF Locks, OneHolder
<1> QED
  BY <1>3, <1>4 DEF Claim

\* Every other step of an invocation keeps its time and its batch, or lets the batch go.
LEMMA KeptOrLeft ==
    ASSUME TypeOK, Locks, NEW w \in Workers, UNCHANGED now, NEW u \in Worker,
           worker' = [worker EXCEPT ![w] = u],
           \A v \in Workers \ {w} : worker[v].batch \in DOMAIN ledger =>
               /\ worker[v].batch \in DOMAIN ledger'
               /\ ledger'[worker[v].batch] = ledger[worker[v].batch],
           \/ u.batch = 0 /\ u.phase \in {"idle", "ended", "dead"}
           \/ u.batch = 0 /\ u.phase \in {"reading", "working"} /\ u.started = now
           \/ u.batch = 0 /\ u.phase = "claiming" /\ u.started = worker[w].started /\ Alive(w) /\ u.startedAt = now
           \/ /\ u.batch = worker[w].batch /\ u.phase = worker[w].phase
              /\ u.started = worker[w].started /\ u.startedAt = worker[w].startedAt
              /\ UNCHANGED ledger
    PROVE  Locks'
<1>1. /\ worker'[w] = u /\ \A v \in Workers \ {w} : worker'[v] = worker[v]
  BY DEF TypeOK
<1>2. \A v \in Workers \ {w} : Scheduled(v)'
  BY <1>1, ScheduledStays DEF Locks
<1>3. now \in Nat
  BY DEF TypeOK
<1>4. Scheduled(w)'
  BY <1>1, <1>3, Numbers DEF Scheduled, LivesOnTime, ReadsTheClock, HoldsLock, Alive, Locks
<1>5. u.batch = 0 \/ u.batch = worker[w].batch
  OBVIOUS
<1> QED
  BY <1>1, <1>2, <1>4, <1>5 DEF Locks, OneHolder

\* Every step keeps the locks: for each, the invocation's new record and why it fits.
LEMMA LocksStep ==
    ASSUME TypeOK, TypeOK', Attempts, Locks, [Next]_vars
    PROVE  Locks'
<1>0. \A w \in Workers : worker[w] \in Worker /\ worker'[w] \in Worker
  BY DEF TypeOK
<1>1. ASSUME NEW w \in Workers, Invoke(w) \/ \E s \in Sources : ImportManually(w, s)
      PROVE  Locks'
  <2>1. PICK u : worker' = [worker EXCEPT ![w] = u]
    BY <1>1 DEF Invoke, ImportManually
  <2>2. u = worker'[w] /\ u \in Worker
    BY <1>0, <2>1 DEF TypeOK
  <2>3. worker[w].phase = "idle" /\ worker[w].batch = 0 /\ UNCHANGED <<now, ledger>>
    BY <1>1 DEF Invoke, ImportManually, Locks, Scheduled, HoldsLock
  <2>4. u.batch = 0 /\ u.phase \in {"reading", "working"} /\ u.started = now
    <3>1. CASE Invoke(w)
      <4>1. u = [worker[w] EXCEPT !.phase = "reading", !.started = now,
                                  !.kind = IF w \in Crons THEN "cron" ELSE "forced"]
        BY <2>2, <3>1 DEF Invoke, TypeOK
      <4> QED
        BY <1>0, <2>3, <4>1 DEF Worker
    <3>2. CASE \E s \in Sources : ImportManually(w, s)
      <4>1. PICK q : u = [worker[w] EXCEPT !.phase = "working", !.kind = "manual",
                                           !.started = now, !.todo = q]
        BY <2>2, <3>2 DEF ImportManually, TypeOK
      <4> QED
        BY <1>0, <2>3, <4>1 DEF Worker
    <3> QED
      BY <1>1, <3>1, <3>2
  <2> QED
    BY <2>1, <2>2, <2>3, <2>4, KeptOrLeft
<1>2. ASSUME NEW w \in Workers, ReadLedger(w)
      PROVE  Locks'
  <2>1. PICK u : worker' = [worker EXCEPT ![w] = u]
    BY <1>2 DEF ReadLedger
  <2>2. u = worker'[w] /\ u \in Worker
    BY <1>0, <2>1 DEF TypeOK
  <2>3. worker[w].phase = "reading" /\ worker[w].batch = 0 /\ UNCHANGED <<now, ledger>> /\ Alive(w)
    BY <1>2 DEF ReadLedger, Locks, Scheduled, HoldsLock, Alive
  <2>4. \/ u = Fresh("ended")
        \/ u = [worker[w] EXCEPT !.phase = "claiming", !.startedAt = now]
    BY <1>0, <1>2, <2>2 DEF ReadLedger, TypeOK
  <2>5. \/ u.batch = 0 /\ u.phase = "ended"
        \/ u.batch = 0 /\ u.phase = "claiming" /\ u.started = worker[w].started /\ u.startedAt = now
    BY <1>0, <2>3, <2>4, FreshType DEF Worker
  <2> QED
    BY <2>1, <2>2, <2>3, <2>5, KeptOrLeft
<1>3. ASSUME NEW w \in Workers, Claim(w)
      PROVE  Locks'
  BY <1>3, ClaimLocks
<1>4. ASSUME NEW w \in Workers, BeginAttempt(w) \/ AttemptSucceeds(w) \/ AttemptFails(w) \/ AttemptTimesOut(w)
      PROVE  Locks'
  <2>1. PICK u : worker' = [worker EXCEPT ![w] = u]
    BY <1>4 DEF BeginAttempt, AttemptSucceeds, AttemptFails, AttemptTimesOut
  <2>2. u = worker'[w] /\ u \in Worker
    BY <1>0, <2>1 DEF TypeOK
  <2>3. UNCHANGED <<now, ledger>>
    BY <1>4 DEF BeginAttempt, AttemptSucceeds, AttemptFails, AttemptTimesOut
  <2>4. /\ u.batch = worker[w].batch /\ u.phase = worker[w].phase
        /\ u.started = worker[w].started /\ u.startedAt = worker[w].startedAt
    <3>1. CASE BeginAttempt(w)
      BY <1>0, <2>2, <3>1 DEF BeginAttempt, Worker, TypeOK
    <3>2. CASE AttemptSucceeds(w)
      <4>1. PICK q, n : u = [worker[w] EXCEPT !.attempt = 0, !.tries = 0, !.todo = q, !.imported = n]
        BY <2>2, <3>2 DEF AttemptSucceeds, TypeOK
      <4> QED
        BY <1>0, <4>1 DEF Worker
    <3>3. CASE AttemptFails(w) \/ AttemptTimesOut(w)
      <4>1. u = GivenUp(w) /\ worker[w].todo # <<>>
        BY <2>2, <3>3 DEF AttemptFails, AttemptTimesOut, TypeOK, Attempts
      <4> QED
        BY <4>1, GivenUpType
    <3> QED
      BY <1>4, <3>1, <3>2, <3>3
  <2> QED
    BY <2>1, <2>2, <2>3, <2>4, KeptOrLeft
<1>5. ASSUME NEW w \in Workers, CompleteBatch(w) \/ EndManual(w)
      PROVE  Locks'
  <2>1. worker' = [worker EXCEPT ![w] = Fresh("ended")] /\ UNCHANGED now
    BY <1>5 DEF CompleteBatch, EndManual
  <2>2. \E row : ledger' = ledger \/ ledger' = [ledger EXCEPT ![worker[w].batch] = row]
    BY <1>5 DEF CompleteBatch, EndManual, Finished
  <2>3. PICK row : ledger' = ledger \/ ledger' = [ledger EXCEPT ![worker[w].batch] = row]
    BY <2>2
  <2>4. ASSUME NEW x \in Workers \ {w}, worker[x].batch \in DOMAIN ledger
        PROVE  /\ worker[x].batch \in DOMAIN ledger'
               /\ ledger'[worker[x].batch] = ledger[worker[x].batch]
    <3>1. ledger \in Seq(Batch) /\ worker[x].batch # 0
      BY <2>4 DEF TypeOK
    <3>2. worker[w].batch # worker[x].batch
      BY <3>1 DEF Locks, OneHolder
    <3> QED
      BY <2>3, <2>4, <3>1, <3>2
  <2> QED
    BY <2>1, <2>4, FreshType, KeptOrLeft
<1>6. ASSUME NEW w \in Workers, Die(w)
      PROVE  Locks'
  <2>1. worker' = [worker EXCEPT ![w] = Fresh("dead")] /\ UNCHANGED <<now, ledger>>
    BY <1>6 DEF Die, Killed, TypeOK
  <2> QED
    BY <2>1, FreshType, KeptOrLeft
<1>7. CASE Tick
  <2>1. ASSUME NEW w \in Workers
        PROVE  \/ worker'[w] = Fresh("dead")
               \/ worker'[w] = worker[w] /\ (Alive(w) => ~(worker[w].started + MaxDuration <= now + 1))
    BY <1>7 DEF Tick, Killed
  <2>2. now' = now + 1 /\ UNCHANGED ledger /\ now \in Nat
    BY <1>7 DEF Tick, TypeOK
  <2>3. \A w \in Workers : worker'[w].batch = 0 \/ worker'[w].batch = worker[w].batch
    BY <2>1, FreshType
  <2>4. OneHolder'
    BY <2>3 DEF Locks, OneHolder
  <2>5. ASSUME NEW w \in Workers, worker'[w] = Fresh("dead")
        PROVE  Scheduled(w)'
    <3>1. worker'[w].batch = 0 /\ worker'[w].phase = "dead"
      BY <2>5, FreshType
    <3> QED
      BY <3>1 DEF Scheduled, LivesOnTime, ReadsTheClock, HoldsLock, Alive
  <2>6. ASSUME NEW w \in Workers, worker'[w] = worker[w],
               Alive(w) => ~(worker[w].started + MaxDuration <= now + 1)
        PROVE  Scheduled(w)'
    <3>1. worker[w].started \in Nat /\ worker[w].startedAt \in Nat
      BY <1>0 DEF Worker
    <3>2. LivesOnTime(w)' /\ ReadsTheClock(w)'
      BY <2>2, <2>6, <3>1, Numbers DEF Locks, Scheduled, LivesOnTime, ReadsTheClock, Alive
    <3>3. HoldsLock(w)'
      BY <2>2, <2>6 DEF Locks, Scheduled, HoldsLock
    <3> QED
      BY <3>2, <3>3 DEF Scheduled
  <2> QED
    BY <2>1, <2>4, <2>5, <2>6 DEF Locks
<1>8. ASSUME UNCHANGED <<now, ledger, worker>>
      PROVE  Locks'
  BY <1>8 DEF Locks, OneHolder, Scheduled, LivesOnTime, ReadsTheClock, HoldsLock, Alive
<1>9. ASSUME NEW w \in Workers, NEW n \in DOMAIN imports[w], RunImport(w, n)
      PROVE  UNCHANGED <<now, ledger, worker>>
  BY <1>9 DEF RunImport, FailRun, SkipDuplicate, ChooseSlug, InsertDraft, CompleteRun
<1> QED
  BY <1>1, <1>2, <1>3, <1>4, <1>5, <1>6, <1>7, <1>8, <1>9
  DEF Next, Work, WriteStory, SetEnabled, vars

-----------------------------------------------------------------------------
(* The theorems.                                                            *)

SchedulerInv == TypeOK /\ Attempts /\ Choices /\ Locks

LEMMA SchedulerInvInit == Init => SchedulerInv
<1> SUFFICES ASSUME Init PROVE SchedulerInv
  OBVIOUS
<1>1. /\ now \in 0..MaxNow /\ ledger = <<>> /\ enabled \in BOOLEAN /\ upsets \in 0..MaxUpsets
      /\ drafts \subseteq Stories
  BY Numbers DEF Init
<1>2. \A w \in Workers : /\ worker[w] = Fresh("idle") /\ worker[w].phase = "idle"
                         /\ worker[w].batch = 0 /\ worker[w].attempt = 0
                         /\ imports[w] = <<>>
  BY DEF Init, Fresh
<1>3. TypeOK
  BY <1>1, <1>2, FreshType DEF Init, TypeOK
<1>4. Attempts /\ Choices
  BY <1>2 DEF Attempts, Choices
<1>5. Locks
  BY <1>2 DEF Locks, OneHolder, Scheduled, LivesOnTime, ReadsTheClock, HoldsLock, Alive
<1> QED
  BY <1>3, <1>4, <1>5 DEF SchedulerInv

LEMMA SchedulerInvStep == SchedulerInv /\ [Next]_vars => SchedulerInv'
  BY TypeStep, AttemptsStep, ChoicesStep, LocksStep DEF SchedulerInv

\* Every state has its type, however many invocations run, die and are retried.
THEOREM TypeCorrect == Spec => []TypeOK
<1>1. SchedulerInv => TypeOK
  BY DEF SchedulerInv
<1> QED
  BY <1>1, SchedulerInvInit, SchedulerInvStep, PTL DEF Spec

\* No two batches ever work at the same time (claim_auto_import_batch): the lock outlives
\* every invocation that can hold it, and whoever claims reads it.
THEOREM OneBatch == Spec => []OneBatchAtATime
<1>1. SchedulerInv => OneBatchAtATime
  BY DEF SchedulerInv, Locks, OneHolder, OneBatchAtATime
<1> QED
  BY <1>1, SchedulerInvInit, SchedulerInvStep, PTL DEF Spec

-----------------------------------------------------------------------------
(* What imports report.                                                     *)

ArticlesOf(stories) == {d.article : d \in stories}

\* An article is there, or its title is taken.
Held(a, stories) == \E d \in stories : d.article = a \/ d.slug.title = TitleOf[a]

\* An import's report is true of the stories: what it saw is there, what it reports as
\* imported is there, and once only, what it does not report as failed is held, and it is
\* completed only with its whole feed taken.
Genuine(i, stories) ==
    /\ i.seen \subseteq ArticlesOf(stories)
    /\ \A k \in DOMAIN i.done :
          /\ k \in DOMAIN Feed[i.source]
          /\ i.done[k] # "failed" => Held(Feed[i.source][k], stories)
          /\ i.done[k] = "imported" => Feed[i.source][k] \in ArticlesOf(stories)
    /\ \A j, k \in DOMAIN i.done :
          i.done[j] = "imported" /\ i.done[k] = "imported" /\ j # k =>
              Feed[i.source][j] # Feed[i.source][k]
    /\ i.phase = "completed" =>
          \A k \in DOMAIN Feed[i.source] : k \in DOMAIN i.done /\ i.done[k] # "failed"

\* An external draft carries its article's title.
Titled == \A d \in drafts : d.article # None => d.slug.title = TitleOf[d.article]

AllGenuine == \A w \in Workers : \A n \in DOMAIN imports[w] : Genuine(imports[w][n], drafts)

\* No article is reported as imported by two imports.
ReportedOnce ==
    \A v, w \in Workers : \A m \in DOMAIN imports[v] : \A n \in DOMAIN imports[w] :
        <<v, m>> # <<w, n>> => Reports(imports[v][m]) \cap Reports(imports[w][n]) = {}

Truth == Titled /\ AllGenuine /\ ReportedOnce

\* Stories are only added, so a true report stays true.
LEMMA GenuineStays ==
    ASSUME NEW i, NEW before, NEW after, before \subseteq after, Genuine(i, before)
    PROVE  Genuine(i, after)
  BY DEF Genuine, ArticlesOf, Held

\* A report does not depend on what is held in memory.
LEMMA GenuineAlike ==
    ASSUME NEW i, NEW j, NEW stories, Genuine(i, stories),
           j.source = i.source, j.done = i.done, j.seen \subseteq i.seen,
           j.phase = "completed" =>
               \A k \in DOMAIN Feed[i.source] : k \in DOMAIN i.done /\ i.done[k] # "failed"
    PROVE  Genuine(j, stories)
  BY DEF Genuine

\* One more article of the feed.
LEMMA GenuineGrows ==
    ASSUME NEW i \in Import, NEW j \in Import, NEW before, NEW after, before \subseteq after,
           Genuine(i, before), More(i), NEW outcome \in Outcomes,
           j.source = i.source, j.done = Append(i.done, outcome), j.phase # "completed",
           j.seen \subseteq ArticlesOf(after),
           outcome # "failed" => Held(Article(i), after),
           outcome = "imported" => Article(i) \in ArticlesOf(after) /\ Article(i) \notin ArticlesOf(before)
    PROVE  Genuine(j, after)
<1> DEFINE n == Len(i.done) + 1
           feed == Feed[i.source]
<1>1. i.done \in Seq(Outcomes) /\ n \in DOMAIN feed /\ Article(i) = feed[n]
  BY ArticleType DEF Import, Article
<1>2. /\ DOMAIN j.done = DOMAIN i.done \cup {n} /\ n \notin DOMAIN i.done
      /\ j.done[n] = outcome /\ \A k \in DOMAIN i.done : j.done[k] = i.done[k]
  BY <1>1
<1>3. Genuine(i, after)
  BY GenuineStays
<1> HIDE DEF n, feed
<1>4. \A k \in DOMAIN i.done : /\ k \in DOMAIN feed
                               /\ i.done[k] # "failed" => Held(feed[k], after)
                               /\ i.done[k] = "imported" => feed[k] \in ArticlesOf(after)
  BY <1>3 DEF Genuine, feed
<1>5. \A k \in DOMAIN i.done : i.done[k] = "imported" => feed[k] \in ArticlesOf(before)
  BY DEF Genuine, feed
<1>6. \A k \in DOMAIN i.done : i.done[k] = "imported" /\ outcome = "imported" => feed[k] # feed[n]
  BY <1>1, <1>5
<1>7. \A k \in DOMAIN j.done : /\ k \in DOMAIN feed
                               /\ j.done[k] # "failed" => Held(feed[k], after)
                               /\ j.done[k] = "imported" => feed[k] \in ArticlesOf(after)
  BY <1>1, <1>2, <1>4
<1>8. \A l, k \in DOMAIN i.done :
          i.done[l] = "imported" /\ i.done[k] = "imported" /\ l # k => feed[l] # feed[k]
  BY <1>3 DEF Genuine, feed
<1>9. \A l, k \in DOMAIN j.done :
          j.done[l] = "imported" /\ j.done[k] = "imported" /\ l # k => feed[l] # feed[k]
  BY <1>2, <1>6, <1>8
<1> QED
  BY <1>7, <1>9 DEF Genuine, feed

\* No failure is counted only where there is none.
LEMMA NoFailure ==
    ASSUME NEW i \in Import, ~(CountOf(i, "failed") > 0)
    PROVE  \A k \in DOMAIN i.done : i.done[k] # "failed"
<1> DEFINE failed == {k \in DOMAIN i.done : i.done[k] = "failed"}
<1>1. IsFiniteSet(failed) /\ Cardinality(failed) \in Nat /\ ~(Cardinality(failed) > 0)
  BY CountType DEF CountOf
<1>2. failed = {}
  BY <1>1, FS_EmptySet
<1> QED
  BY <1>2

\* What a step of an import does to its report and to the stories: nothing, but for an end
\* it has earned, or one more article with an outcome that is true.
Unreported(i, j) ==
    /\ j.done = i.done /\ j.seen \subseteq i.seen
    /\ j.phase = "completed" =>
          \A k \in DOMAIN Feed[i.source] : k \in DOMAIN i.done /\ i.done[k] # "failed"
Reported(i, j, outcome) ==
    /\ More(i) /\ j.done = Append(i.done, outcome) /\ j.phase # "completed"
    /\ j.seen \subseteq ArticlesOf(drafts')
    /\ outcome # "failed" => Held(Article(i), drafts')
    /\ outcome = "imported" =>
          Article(i) \in ArticlesOf(drafts') /\ Article(i) \notin ArticlesOf(drafts)
Advanced(w, n, i, j) ==
    /\ Put(w, n, j) /\ drafts \subseteq drafts' /\ Titled'
    /\ j.source = i.source
    /\ Unreported(i, j) \/ \E outcome \in Outcomes : Reported(i, j, outcome)

LEMMA ImportAdvances ==
    ASSUME TypeOK, Choices, Truth, NEW w \in Workers, NEW n \in DOMAIN imports[w],
           RunImport(w, n), NEW i, i = imports[w][n]
    PROVE  \E j \in Import : Advanced(w, n, i, j)
<1>1. i \in Import /\ Genuine(i, drafts)
  BY DEF TypeOK, Truth, AllGenuine
<1>2. i.done \in Seq(Outcomes) /\ i.seen \subseteq ArticlesOf(drafts) /\ i.seen \subseteq Articles
  BY <1>1 DEF Import, Genuine
<1>3. CASE FailRun(w, n)
  <2>1. Put(w, n, Over(i, "failed")) /\ UNCHANGED drafts
    BY <1>3 DEF FailRun
  <2> QED
    BY <1>1, <2>1, OverType DEF Truth, Titled, Ended, Advanced, Unreported
<1>4. CASE CompleteRun(w, n)
  <2>1. PICK phase \in {"partial", "completed"} :
           /\ Put(w, n, Over(i, phase)) /\ UNCHANGED drafts
           /\ phase = "completed" => ~(CountOf(i, "failed") > 0)
    BY <1>4 DEF CompleteRun
  <2>2. ~More(i) /\ Feed[i.source] \in Seq(Articles)
    BY <1>1, <1>4, ArticlesAreOffered DEF CompleteRun, Import
  <2>3. DOMAIN Feed[i.source] \subseteq DOMAIN i.done
    BY <1>2, <2>2 DEF More
  <2>4. phase = "completed" =>
           \A k \in DOMAIN Feed[i.source] : k \in DOMAIN i.done /\ i.done[k] # "failed"
    BY <1>1, <2>1, <2>3, NoFailure
  <2> QED
    BY <1>1, <2>1, <2>4, OverType DEF Truth, Titled, Ended, Advanced, Unreported
<1>5. CASE ChooseSlug(w, n)
  <2> DEFINE j == [i EXCEPT !.slug = Free(Article(i))]
  <2>1. Put(w, n, j) /\ UNCHANGED drafts /\ i.phase = "importing"
    BY <1>5 DEF ChooseSlug, Going
  <2>2. Free(Article(i)) \in Slugs
    BY <1>1, <1>5, ArticleType, FreeType DEF ChooseSlug
  <2>3. /\ j \in Import /\ j.done = i.done /\ j.seen = i.seen /\ j.source = i.source
        /\ j.phase = "importing"
    BY <1>1, <2>1, <2>2 DEF Import
  <2> HIDE DEF j
  <2> QED
    BY <2>1, <2>3 DEF Truth, Titled, Advanced, Unreported
<1>6. CASE SkipDuplicate(w, n)
  <2> DEFINE j == [i EXCEPT !.done = Append(i.done, "duplicate")]
  <2>1. Put(w, n, j) /\ UNCHANGED drafts /\ i.phase = "importing" /\ More(i) /\ Known(i)
    BY <1>6 DEF SkipDuplicate, Going
  <2>2. Append(i.done, "duplicate") \in Seq(Outcomes)
    BY <1>2 DEF Outcomes
  <2>3. /\ j \in Import /\ j.done = Append(i.done, "duplicate") /\ j.seen = i.seen
        /\ j.source = i.source /\ j.phase = "importing"
    BY <1>1, <2>1, <2>2 DEF Import
  <2>4. PICK a \in i.seen : TitleOf[a] = TitleOf[Article(i)]
    BY <2>1 DEF Known
  <2>5. PICK d \in drafts : d.article = a
    BY <1>2 DEF ArticlesOf
  <2>6. d.slug.title = TitleOf[a]
    BY <1>2, <2>5, NoneIsNoArticle DEF Truth, Titled
  <2>7. Held(Article(i), drafts')
    BY <2>1, <2>4, <2>5, <2>6 DEF Held
  <2> HIDE DEF j
  <2> QED
    BY <1>2, <2>1, <2>3, <2>7 DEF Truth, Titled, Outcomes, Advanced, Reported
<1>7. CASE InsertDraft(w, n)
  <2>1. /\ i.slug # None /\ i.phase = "importing" /\ More(i)
        /\ i.slug.title = TitleOf[Article(i)] /\ Article(i) \in Articles
    BY <1>1, <1>7, ArticleType DEF InsertDraft, Going, Choices
  <2> DEFINE new == [article |-> Article(i), slug |-> i.slug]
             j(outcome) == [i EXCEPT !.done = Append(i.done, outcome), !.slug = None,
                                !.seen = IF outcome = "imported" THEN i.seen \cup {Article(i)} ELSE i.seen]
  <2>2. ASSUME NEW outcome \in Outcomes
        PROVE  /\ j(outcome) \in Import /\ j(outcome).done = Append(i.done, outcome)
               /\ j(outcome).source = i.source /\ j(outcome).phase = "importing"
               /\ j(outcome).seen = IF outcome = "imported" THEN i.seen \cup {Article(i)} ELSE i.seen
    <3> DEFINE done_now == Append(i.done, outcome)
               seen_now == IF outcome = "imported" THEN i.seen \cup {Article(i)} ELSE i.seen
    <3>0. j(outcome) = [i EXCEPT !.done = done_now, !.slug = None, !.seen = seen_now]
      OBVIOUS
    <3>1. done_now \in Seq(Outcomes)
      BY <1>2
    <3>2. seen_now \in SUBSET Articles
      BY <1>2, <2>1
    <3> DEFINE r == j(outcome)
    <3>3. r = [i EXCEPT !.done = done_now, !.slug = None, !.seen = seen_now]
      BY <3>0
    <3> HIDE DEF done_now, seen_now, j, r
    <3>4. /\ r \in Import /\ r.done = done_now /\ r.seen = seen_now
          /\ r.source = i.source /\ r.phase = i.phase
      BY <1>1, <3>1, <3>2, <3>3 DEF Import
    <3> QED
      BY <2>1, <3>4 DEF done_now, seen_now, r
  <2>3. drafts' = drafts \/ drafts' = drafts \cup {new}
    BY <1>7 DEF InsertDraft, Insert
  <2>4. drafts \subseteq drafts' /\ Titled'
    <3>1. new.article = Article(i) /\ new.slug.title = TitleOf[Article(i)]
      BY <2>1
    <3> HIDE DEF new
    <3> QED
      BY <2>3, <3>1 DEF Truth, Titled
  <2>5. \E outcome \in Outcomes :
           /\ Put(w, n, j(outcome))
           /\ outcome = "imported" => drafts' = drafts \cup {new} /\ ~Conflicts(i)
           /\ outcome = "duplicate" => Conflicts(i)
    BY <1>7 DEF InsertDraft, Settle, Insert, Outcomes
  <2>6. PICK outcome \in Outcomes :
           /\ Put(w, n, j(outcome))
           /\ outcome = "imported" => drafts' = drafts \cup {new} /\ ~Conflicts(i)
           /\ outcome = "duplicate" => Conflicts(i)
    BY <2>5
  <2>7. outcome = "imported" =>
           Article(i) \in ArticlesOf(drafts') /\ Article(i) \notin ArticlesOf(drafts)
    BY <2>6 DEF Conflicts, Imported, ArticlesOf
  <2>8. outcome = "duplicate" => Held(Article(i), drafts)
    BY <2>1, <2>6 DEF Conflicts, Imported, Taken, Held
  <2>9. outcome # "failed" => Held(Article(i), drafts')
    BY <2>4, <2>7, <2>8 DEF Held, ArticlesOf, Outcomes
  <2>a. ArticlesOf(drafts) \subseteq ArticlesOf(drafts')
    BY <2>4 DEF ArticlesOf
  <2> HIDE DEF j
  <2>b. j(outcome).seen = IF outcome = "imported" THEN i.seen \cup {Article(i)} ELSE i.seen
    BY <2>2
  <2>10. j(outcome).seen \subseteq ArticlesOf(drafts')
    BY <1>2, <2>7, <2>a, <2>b
  <2> DEFINE r == j(outcome)
  <2>11. /\ r \in Import /\ r.done = Append(i.done, outcome)
         /\ r.source = i.source /\ r.phase # "completed"
         /\ r.seen \subseteq ArticlesOf(drafts') /\ Put(w, n, r)
    BY <2>2, <2>6, <2>10
  <2> HIDE DEF r
  <2>12. Reported(i, r, outcome)
    BY <2>1, <2>7, <2>9, <2>11 DEF Reported
  <2>13. Advanced(w, n, i, r)
    BY <2>4, <2>11, <2>12 DEF Advanced
  <2> QED
    BY <2>11, <2>13
<1> QED
  BY <1>3, <1>4, <1>5, <1>6, <1>7 DEF RunImport

\* The articles reported as imported, by what happens to a report.
LEMMA ReportsAlike ==
    ASSUME NEW i, NEW j, j.source = i.source, j.done = i.done
    PROVE  Reports(j) = Reports(i)
  BY DEF Reports

LEMMA ReportsReal ==
    ASSUME NEW i, NEW stories, Genuine(i, stories)
    PROVE  Reports(i) \subseteq ArticlesOf(stories)
  BY DEF Reports, Genuine

LEMMA ReportsGrow ==
    ASSUME NEW i \in Import, NEW j \in Import, j.source = i.source, NEW outcome \in Outcomes,
           Reported(i, j, outcome)
    PROVE  /\ Reports(i) \subseteq Reports(j)
           /\ Reports(j) \subseteq Reports(i) \cup {Article(i)}
           /\ outcome # "imported" => Reports(j) = Reports(i)
<1> DEFINE n == Len(i.done) + 1
<1>1. i.done \in Seq(Outcomes) /\ j.done = Append(i.done, outcome)
  BY DEF Import, Reported
<1>2. /\ DOMAIN j.done = DOMAIN i.done \cup {n} /\ j.done[n] = outcome
      /\ \A k \in DOMAIN i.done : j.done[k] = i.done[k] /\ k # n
  BY <1>1
<1>3. Article(i) = Feed[i.source][n]
  BY DEF Article
<1> HIDE DEF n
<1> QED
  BY <1>2, <1>3 DEF Reports

\* A new report of what is not yet imported is nobody's so far.
LEMMA TruthOfImport ==
    ASSUME TypeOK, Choices, Truth, NEW w \in Workers, NEW n \in DOMAIN imports[w], RunImport(w, n)
    PROVE  Truth'
<1> DEFINE i == imports[w][n]
<1>1. PICK j \in Import : Advanced(w, n, i, j)
  BY ImportAdvances
<1>2. /\ i \in Import /\ Genuine(i, drafts) /\ imports \in [Workers -> Seq(Import)]
  BY DEF TypeOK, Truth, AllGenuine
<1>3. /\ DOMAIN imports'[w] = DOMAIN imports[w] /\ imports'[w][n] = j
      /\ \A m \in DOMAIN imports[w] \ {n} : imports'[w][m] = imports[w][m]
      /\ \A v \in Workers \ {w} : imports'[v] = imports[v]
  BY <1>1, <1>2 DEF Advanced, Put
<1>4. drafts \subseteq drafts' /\ Titled' /\ j.source = i.source
  BY <1>1 DEF Advanced
<1>5. \A v \in Workers : \A m \in DOMAIN imports[v] : Genuine(imports[v][m], drafts')
  BY <1>4, GenuineStays DEF Truth, AllGenuine
<1>6. \A v \in Workers : \A m \in DOMAIN imports[v] : Reports(imports[v][m]) \subseteq ArticlesOf(drafts)
  BY ReportsReal DEF Truth, AllGenuine
<1>7. CASE Unreported(i, j)
  <2>1. Genuine(j, drafts')
    BY <1>4, <1>5, <1>7, GenuineAlike DEF Unreported
  <2>2. Reports(j) = Reports(i)
    BY <1>4, <1>7, ReportsAlike DEF Unreported
  <2>3. AllGenuine'
    BY <1>3, <1>5, <2>1 DEF AllGenuine
  <2>4. ReportedOnce'
    BY <1>3, <2>2 DEF Truth, ReportedOnce
  <2> QED
    BY <1>4, <2>3, <2>4 DEF Truth
<1>8. CASE \E outcome \in Outcomes : Reported(i, j, outcome)
  <2>1. PICK outcome \in Outcomes : Reported(i, j, outcome)
    BY <1>8
  <2> HIDE DEF i
  <2>2. Genuine(j, drafts')
    BY <1>2, <1>4, <2>1, GenuineGrows DEF Reported
  <2>3. /\ Reports(i) \subseteq Reports(j) /\ Reports(j) \subseteq Reports(i) \cup {Article(i)}
        /\ outcome # "imported" => Reports(j) = Reports(i)
    BY <1>2, <1>4, <2>1, ReportsGrow
  <2>4. Reports(j) \ Reports(i) # {} => Article(i) \notin ArticlesOf(drafts)
    BY <2>1, <2>3 DEF Reported
  <2>5. \A v \in Workers : \A m \in DOMAIN imports[v] :
           <<v, m>> # <<w, n>> => Reports(imports[v][m]) \cap Reports(j) = {}
    <3>1. \A v \in Workers : \A m \in DOMAIN imports[v] :
             <<v, m>> # <<w, n>> => Reports(imports[v][m]) \cap Reports(i) = {}
      BY DEF Truth, ReportedOnce, i
    <3> QED
      BY <1>6, <2>3, <2>4, <3>1
  <2>6. AllGenuine'
    BY <1>3, <1>5, <2>2 DEF AllGenuine
  <2>7. ReportedOnce'
    <3> SUFFICES ASSUME NEW u \in Workers, NEW v \in Workers, NEW l \in DOMAIN imports'[u],
                        NEW m \in DOMAIN imports'[v], <<u, l>> # <<v, m>>
                 PROVE  Reports(imports'[u][l]) \cap Reports(imports'[v][m]) = {}
      BY DEF ReportedOnce, Reports
    <3>1. l \in DOMAIN imports[u] /\ m \in DOMAIN imports[v]
      BY <1>3
    <3>2. CASE <<u, l>> # <<w, n>> /\ <<v, m>> # <<w, n>>
      BY SMTT(30), <1>3, <3>1, <3>2 DEF Truth, ReportedOnce
    <3>3. CASE <<u, l>> = <<w, n>>
      BY <1>3, <2>5, <3>1, <3>3
    <3>4. CASE <<v, m>> = <<w, n>>
      BY <1>3, <2>5, <3>1, <3>4
    <3> QED
      BY <3>2, <3>3, <3>4
  <2> QED
    BY <1>4, <2>6, <2>7 DEF Truth
<1> QED
  BY <1>1, <1>7, <1>8 DEF Advanced

LEMMA TruthStep ==
    ASSUME TypeOK, Choices, Truth, [Next]_vars
    PROVE  Truth'
<1>0. imports \in [Workers -> Seq(Import)]
  BY DEF TypeOK
<1>1. ASSUME NEW w \in Workers, NEW n \in DOMAIN imports[w], RunImport(w, n)
      PROVE  Truth'
  BY <1>1, TruthOfImport
<1>2. ASSUME NEW w \in Workers, BeginAttempt(w)
      PROVE  Truth'
  <2> DEFINE i == [source |-> Head(worker[w].todo), phase |-> "importing",
                   seen |-> Imported \cap Offered(Head(worker[w].todo)),
                   done |-> <<>>, slug |-> None]
  <2>1. imports' = [imports EXCEPT ![w] = Append(@, i)] /\ UNCHANGED drafts
    BY <1>2 DEF BeginAttempt
  <2>2. Genuine(i, drafts) /\ Reports(i) = {}
    BY DEF Genuine, Imported, ArticlesOf, Reports
  <2> HIDE DEF i
  <2>3. \A v \in Workers : \A m \in DOMAIN imports'[v] :
           \/ m \in DOMAIN imports[v] /\ imports'[v][m] = imports[v][m]
           \/ v = w /\ m = Len(imports[w]) + 1 /\ imports'[v][m] = i
    BY <1>0, <2>1
  <2>4. AllGenuine'
    BY <2>1, <2>2, <2>3 DEF AllGenuine, Truth
  <2>5. ReportedOnce'
    BY <2>2, <2>3 DEF ReportedOnce, Truth
  <2> QED
    BY <2>1, <2>4, <2>5 DEF Truth, Titled
<1>3. ASSUME NEW dying \in SUBSET Workers, Killed(dying), UNCHANGED drafts
      PROVE  Truth'
  <2>1. ASSUME NEW v \in Workers, NEW m \in DOMAIN imports'[v]
        PROVE  m \in DOMAIN imports[v] /\ imports'[v][m] \in {imports[v][m], Over(imports[v][m], "lost")}
    BY <1>3 DEF Killed, Lost
  <2>2. \A v \in Workers : \A m \in DOMAIN imports[v] :
           LET i == Over(imports[v][m], "lost") IN
           /\ i.source = imports[v][m].source /\ i.done = imports[v][m].done
           /\ i.seen = {} /\ i.phase # "completed"
    BY <1>0, OverType
  <2>3. \A v \in Workers : \A m \in DOMAIN imports[v] :
           Genuine(Over(imports[v][m], "lost"), drafts)
    BY <2>2, GenuineAlike DEF Truth, AllGenuine
  <2>4. \A v \in Workers : \A m \in DOMAIN imports[v] :
           Reports(Over(imports[v][m], "lost")) = Reports(imports[v][m])
    BY <2>2, ReportsAlike
  <2>5. AllGenuine'
    BY <1>3, <2>1, <2>3 DEF AllGenuine, Truth
  <2>6. \A v \in Workers : \A m \in DOMAIN imports'[v] :
           m \in DOMAIN imports[v] /\ Reports(imports'[v][m]) = Reports(imports[v][m])
    BY <2>1, <2>4
  <2>7. ReportedOnce'
    BY <2>6 DEF ReportedOnce, Truth
  <2> QED
    BY <1>3, <2>5, <2>7 DEF Truth, Titled
<1>4. ASSUME NEW title \in Titles, WriteStory(title)
      PROVE  Truth'
  <2>1. UNCHANGED imports /\ drafts \subseteq drafts'
        /\ \A d \in drafts' : d \in drafts \/ d.article = None
    BY <1>4 DEF WriteStory
  <2>2. AllGenuine'
    BY <2>1, GenuineStays DEF AllGenuine, Truth
  <2> QED
    BY <2>1, <2>2 DEF Truth, Titled, ReportedOnce
<1>5. ASSUME UNCHANGED <<imports, drafts>>
      PROVE  Truth'
  BY <1>5 DEF Truth, Titled, AllGenuine, ReportedOnce
<1>6. ASSUME Tick
      PROVE  UNCHANGED drafts /\ \E dying \in SUBSET Workers : Killed(dying)
  <2> DEFINE dying == {w \in Workers : Alive(w) /\ worker[w].started + MaxDuration <= now + 1}
  <2>1. Killed(dying) /\ dying \in SUBSET Workers /\ UNCHANGED drafts
    BY <1>6 DEF Tick
  <2> QED
    BY <2>1
<1> QED
  BY ZenonT(40), <1>1, <1>2, <1>3, <1>4, <1>5, <1>6
  DEF Next, Work, Invoke, ReadLedger, Claim, ImportManually, AttemptSucceeds, AttemptFails,
      AttemptTimesOut, CompleteBatch, EndManual, Die, SetEnabled, vars

ImportInv == TypeOK /\ Attempts /\ Choices /\ Truth

LEMMA ImportInvInvariant == Spec => []ImportInv
<1>1. Init => ImportInv
  <2>1. Init => Truth
    BY DEF Init, Truth, Titled, AllGenuine, ReportedOnce
  <2> QED
    BY <2>1, SchedulerInvInit DEF ImportInv, SchedulerInv
<1>2. ImportInv /\ [Next]_vars => ImportInv'
  BY TypeStep, AttemptsStep, ChoicesStep, TruthStep DEF ImportInv
<1> QED
  BY <1>1, <1>2, PTL DEF Spec

\* A run that reports no failure has left none of its source's articles behind
\* (runExternalArticleImportOperation): what it counts as a duplicate is there, or its title is.
THEOREM NoneDropped == Spec => []NothingIsDropped
<1>1. ImportInv => NothingIsDropped
  <2> SUFFICES ASSUME ImportInv, NEW w \in Workers, NEW n \in DOMAIN imports[w],
                      imports[w][n].phase = "completed", NEW a \in Offered(imports[w][n].source)
               PROVE  a \in Imported \/ \E d \in drafts : d.article # a /\ d.slug.title = TitleOf[a]
    BY DEF NothingIsDropped
  <2>1. Genuine(imports[w][n], drafts)
    BY DEF ImportInv, Truth, AllGenuine
  <2>2. Held(a, drafts)
    BY <2>1 DEF Offered, Genuine
  <2> QED
    BY <2>2 DEF Held, Imported
<1> QED
  BY <1>1, ImportInvInvariant, PTL

-----------------------------------------------------------------------------
(* What the dashboard counts.                                               *)

\* The imports whose attempts are over, and what they report.
Done(w)   == {n \in DOMAIN imports[w] : n # worker[w].attempt}
Counted(w) == UNION {Reports(imports[w][n]) : n \in Done(w)}

\* An invocation counts no more than what its finished attempts report ...
CountsItsOwn ==
    \A w \in Workers : worker[w].imported <= Cardinality(Counted(w))

\* ... and a batch no more than what its invocation's attempts do.
LedgerCounts ==
    \A b \in DOMAIN ledger : ledger[b].imported <= Cardinality(ReportedBy(ledger[b].by))

Counts == CountsItsOwn /\ LedgerCounts

\* A count is the number of the articles counted.
LEMMA ReportsCount ==
    ASSUME NEW i \in Import, NEW stories, Genuine(i, stories)
    PROVE  /\ IsFiniteSet(Reports(i))
           /\ Cardinality(Reports(i)) = CountOf(i, "imported")
<1> DEFINE S == {k \in DOMAIN i.done : i.done[k] = "imported"}
           f == [k \in S |-> Feed[i.source][k]]
<1>1. IsFiniteSet(S)
  BY CountType
<1>2. f \in Surjection(S, Reports(i))
  BY DEF Surjection, Reports
<1>3. f \in Injection(S, Reports(i))
  BY DEF Injection, IsInjective, Reports, Genuine
<1> HIDE DEF f, S
<1>4. IsFiniteSet(Reports(i)) /\ Cardinality(Reports(i)) = Cardinality(S)
  BY <1>1, <1>2, <1>3, FS_Surjection
<1> QED
  BY <1>4 DEF CountOf, S

\* The sets counted are finite, and more attempts report no less.
LEMMA CountedFinite ==
    ASSUME NEW runs \in Seq(Import), NEW stories,
           \A n \in DOMAIN runs : Genuine(runs[n], stories), NEW N \in SUBSET DOMAIN runs
    PROVE  IsFiniteSet(UNION {Reports(runs[n]) : n \in N})
<1> DEFINE sets == {Reports(runs[n]) : n \in N}
           f == [n \in N |-> Reports(runs[n])]
<1>1. IsFiniteSet(1..Len(runs)) /\ DOMAIN runs = 1..Len(runs)
  BY FS_Interval
<1>2. IsFiniteSet(N)
  BY <1>1, FS_Subset
<1>3. f \in Surjection(N, sets)
  BY DEF Surjection
<1>4. \A n \in N : IsFiniteSet(Reports(runs[n]))
  BY ReportsCount
<1>5. \A T \in sets : IsFiniteSet(T)
  BY <1>4
<1> HIDE DEF f, sets
<1>6. IsFiniteSet(sets)
  BY <1>2, <1>3, FS_Surjection
<1>7. IsFiniteSet(UNION sets)
  BY <1>5, <1>6, FS_UNION
<1> QED
  BY <1>7 DEF sets

LEMMA CountedMore ==
    ASSUME NEW S, NEW T, IsFiniteSet(T), S \subseteq T, NEW n \in Nat, n <= Cardinality(S)
    PROVE  n <= Cardinality(T)
<1>1. IsFiniteSet(S) /\ Cardinality(S) <= Cardinality(T)
  BY FS_Subset
<1>2. Cardinality(S) \in Nat /\ Cardinality(T) \in Nat
  BY SMTT(30), <1>1, FS_CardinalityType
<1> QED
  BY <1>1, <1>2

\* Reports only grow, and imports keep their places.
LEMMA ReportsKept ==
    ASSUME TypeOK, Choices, Truth, [Next]_vars, NEW w \in Workers, NEW n \in DOMAIN imports[w]
    PROVE  n \in DOMAIN imports'[w] /\ Reports(imports[w][n]) \subseteq Reports(imports'[w][n])
<1>0. imports \in [Workers -> Seq(Import)]
  BY DEF TypeOK
<1>1. ASSUME NEW v \in Workers, NEW m \in DOMAIN imports[v], RunImport(v, m)
      PROVE  n \in DOMAIN imports'[w] /\ Reports(imports[w][n]) \subseteq Reports(imports'[w][n])
  <2>1. PICK j \in Import : Advanced(v, m, imports[v][m], j)
    BY <1>1, ImportAdvances
  <2>2. /\ DOMAIN imports'[w] = DOMAIN imports[w]
        /\ imports'[w][n] = imports[w][n] \/ (v = w /\ m = n /\ imports'[w][n] = j)
    BY <1>0, <2>1 DEF Advanced, Put
  <2>3. Reports(imports[v][m]) \subseteq Reports(j)
    <3>1. imports[v][m] \in Import /\ j.source = imports[v][m].source
      BY <1>0, <2>1 DEF Advanced
    <3>2. CASE Unreported(imports[v][m], j)
      BY <3>1, <3>2, ReportsAlike DEF Unreported
    <3>3. CASE \E outcome \in Outcomes : Reported(imports[v][m], j, outcome)
      BY <3>1, <3>3, ReportsGrow
    <3> QED
      BY <2>1, <3>2, <3>3 DEF Advanced
  <2> QED
    BY <2>2, <2>3
<1>2. ASSUME NEW v \in Workers, BeginAttempt(v)
      PROVE  n \in DOMAIN imports'[w] /\ imports'[w][n] = imports[w][n]
  <2>1. PICK i : imports' = [imports EXCEPT ![v] = Append(imports[v], i)]
    BY <1>2 DEF BeginAttempt
  <2> QED
    BY <1>0, <2>1
<1>3. ASSUME NEW dying \in SUBSET Workers, Killed(dying)
      PROVE  n \in DOMAIN imports'[w] /\ Reports(imports[w][n]) = Reports(imports'[w][n])
  <2>1. n \in DOMAIN imports'[w] /\ imports'[w][n] \in {imports[w][n], Over(imports[w][n], "lost")}
    BY <1>3 DEF Killed, Lost
  <2>2. Reports(Over(imports[w][n], "lost")) = Reports(imports[w][n])
    BY <1>0, OverType, ReportsAlike
  <2> QED
    BY <2>1, <2>2
<1>4. ASSUME Tick
      PROVE  \E dying \in SUBSET Workers : Killed(dying)
  <2> DEFINE dying == {v \in Workers : Alive(v) /\ worker[v].started + MaxDuration <= now + 1}
  <2>1. Killed(dying) /\ dying \in SUBSET Workers
    BY <1>4 DEF Tick
  <2> QED
    BY <2>1
<1> QED
  BY ZenonT(40), <1>1, <1>2, <1>3, <1>4
  DEF Next, Work, Invoke, ReadLedger, Claim, ImportManually, AttemptSucceeds, AttemptFails,
      AttemptTimesOut, CompleteBatch, EndManual, WriteStory, Die, SetEnabled, vars

\* What a step does to an invocation's count.
LEMMA WorkerCounts ==
    ASSUME TypeOK, Attempts, [Next]_vars, NEW w \in Workers
    PROVE  \/ worker'[w].imported = 0
           \/ /\ worker'[w].imported = worker[w].imported
              /\ \/ worker'[w].attempt \in {0, worker[w].attempt}
                 \/ worker'[w].attempt = Len(imports[w]) + 1
           \/ AttemptSucceeds(w)
<1>0. worker \in [Workers -> Worker] /\ worker[w] \in Worker /\ \A phase : Fresh(phase).imported = 0
  BY DEF TypeOK, Fresh
<1> DEFINE Kept == worker'[w].imported = worker[w].imported /\ worker'[w].attempt \in {0, worker[w].attempt}
<1>1. ASSUME NEW v \in Workers, v # w, NEW u, worker' = [worker EXCEPT ![v] = u]
      PROVE  Kept
  BY <1>0, <1>1
<1>2. CASE UNCHANGED worker
  BY <1>2
<1>3. CASE Invoke(w) \/ \E s \in Sources : ImportManually(w, s)
  <2>1. CASE Invoke(w)
    BY <1>0, <2>1 DEF Invoke, Worker
  <2>2. CASE \E s \in Sources : ImportManually(w, s)
    <3>1. PICK q : worker'[w] = [worker[w] EXCEPT !.phase = "working", !.kind = "manual",
                                                  !.started = now, !.todo = q]
      BY <1>0, <2>2 DEF ImportManually
    <3> QED
      BY <1>0, <3>1 DEF Worker
  <2> QED
    BY <1>3, <2>1, <2>2
<1>4. CASE ReadLedger(w)
  <2>1. \/ worker'[w] = Fresh("ended")
        \/ worker'[w] = [worker[w] EXCEPT !.phase = "claiming", !.startedAt = now]
    BY <1>0, <1>4 DEF ReadLedger
  <2> QED
    BY <1>0, <2>1 DEF Worker
<1>5. CASE Claim(w)
  <2>1. \/ worker'[w] = Fresh("ended")
        \/ worker'[w] = [worker[w] EXCEPT !.phase = "working", !.batch = Len(ledger) + 1, !.todo = Order]
    BY <1>0, <1>5 DEF Claim
  <2> QED
    BY <1>0, <2>1 DEF Worker
<1>6. CASE BeginAttempt(w)
  BY <1>0, <1>6 DEF BeginAttempt, Worker
<1>7. CASE AttemptFails(w) \/ AttemptTimesOut(w)
  <2>1. worker'[w] = GivenUp(w) /\ worker[w].attempt # 0 /\ worker[w].todo # <<>>
    BY <1>0, <1>7 DEF AttemptFails, AttemptTimesOut, Attempts
  <2>2. GivenUp(w).attempt = 0
    BY <2>1, GivenUpType
  <2>3. GivenUp(w).imported = worker[w].imported
    <3>1. PICK t, q, f : \/ GivenUp(w) = [worker[w] EXCEPT !.attempt = 0, !.tries = t]
                         \/ GivenUp(w) = [worker[w] EXCEPT !.attempt = 0, !.tries = 0, !.todo = q,
                                                           !.failures = f]
      BY DEF GivenUp
    <3> QED
      BY <1>0, <3>1 DEF Worker
  <2> QED
    BY <2>1, <2>2, <2>3
<1>8. CASE CompleteBatch(w) \/ EndManual(w)
  BY <1>0, <1>8 DEF CompleteBatch, EndManual
<1>9. ASSUME NEW dying \in SUBSET Workers, Killed(dying)
      PROVE  worker'[w].imported = 0 \/ worker'[w] = worker[w]
  BY <1>0, <1>9 DEF Killed
<1>10. ASSUME Tick
       PROVE  \E dying \in SUBSET Workers : Killed(dying)
  <2> DEFINE dying == {v \in Workers : Alive(v) /\ worker[v].started + MaxDuration <= now + 1}
  <2>1. Killed(dying) /\ dying \in SUBSET Workers
    BY <1>10 DEF Tick
  <2> QED
    BY <2>1
<1>11. ASSUME NEW v \in Workers, v # w,
              Work(v) \/ Invoke(v) \/ \E s \in Sources : ImportManually(v, s)
       PROVE  Kept
  <2>1. \E u : worker' = [worker EXCEPT ![v] = u]
    BY <1>11 DEF Work, Invoke, ReadLedger, Claim, ImportManually, BeginAttempt, AttemptSucceeds,
                 AttemptFails, AttemptTimesOut, CompleteBatch, EndManual
  <2> QED
    BY SMTT(30), <1>1, <1>11, <2>1
<1>12. ASSUME NEW v \in Workers, NEW n \in DOMAIN imports[v], RunImport(v, n)
       PROVE  UNCHANGED worker
  BY <1>12 DEF RunImport, FailRun, SkipDuplicate, ChooseSlug, InsertDraft, CompleteRun
<1> HIDE DEF Kept
<1>13. CASE \E v \in Workers : Work(v) \/ Invoke(v) \/ \E s \in Sources : ImportManually(v, s)
  BY SMTT(30), <1>3, <1>4, <1>5, <1>6, <1>7, <1>8, <1>11, <1>13 DEF Work, Kept
<1> QED
  BY <1>2, <1>9, <1>10, <1>12, <1>13 DEF Next, Die, WriteStory, SetEnabled, vars

\* What a step does to a batch's count.
LEMMA LedgerStep ==
    ASSUME TypeOK, Locks, [Next]_vars, NEW b \in DOMAIN ledger'
    PROVE  \/ b \in DOMAIN ledger /\ ledger'[b] = ledger[b]
           \/ ledger'[b].imported = 0
           \/ /\ ledger'[b].by \in Workers
              /\ ledger'[b].imported = worker[ledger'[b].by].imported
<1>0. ledger \in Seq(Batch)
  BY DEF TypeOK
<1>1. ASSUME NEW w \in Workers, Claim(w)
      PROVE  (b \in DOMAIN ledger /\ ledger'[b] = ledger[b]) \/ ledger'[b].imported = 0
  <2>1. PICK row : (ledger' = ledger \/ ledger' = Append(ledger, row)) /\ row.imported = 0
    BY <1>1 DEF Claim
  <2> QED
    BY <1>0, <2>1
<1>2. ASSUME NEW w \in Workers, CompleteBatch(w)
      PROVE  \/ b \in DOMAIN ledger /\ ledger'[b] = ledger[b]
             \/ ledger'[b].imported = 0
             \/ ledger'[b].by = w /\ ledger'[b].imported = worker[w].imported
  <2> DEFINE k == worker[w].batch
  <2>1. CASE ledger' = ledger
    BY <1>0, <2>1
  <2>2. ASSUME NEW status, NEW imported \in {0, worker[w].imported}, Finished(w, status, imported)
        PROVE  \/ b \in DOMAIN ledger /\ ledger'[b] = ledger[b]
               \/ ledger'[b].imported = 0
               \/ ledger'[b].by = w /\ ledger'[b].imported = worker[w].imported
    <3> DEFINE row == [ledger[k] EXCEPT !.status = status, !.imported = imported]
    <3>1. ledger' = [ledger EXCEPT ![k] = row]
      BY <2>2 DEF Finished
    <3>2. CASE b = k
      <4>1. b \in DOMAIN ledger /\ k # 0
        BY <1>0, <3>1, <3>2
      <4>2. ledger[k].by = w /\ ledger[k] \in Batch
        BY <1>0, <3>2, <4>1 DEF Locks, Scheduled, HoldsLock
      <4>3. row.by = w /\ row.imported = imported
        BY <4>2 DEF Batch
      <4>4. ledger'[b] = row
        BY <1>0, <3>1, <3>2, <4>1
      <4> QED
        BY <2>2, <4>3, <4>4
    <3>3. CASE b # k
      BY <1>0, <3>1, <3>3
    <3> QED
      BY <3>2, <3>3
  <2> QED
    BY <1>2, <2>1, <2>2 DEF CompleteBatch
<1>3. ASSUME UNCHANGED ledger
      PROVE  b \in DOMAIN ledger /\ ledger'[b] = ledger[b]
  BY <1>3
<1>4. ASSUME NEW w \in Workers, NEW n \in DOMAIN imports[w], RunImport(w, n)
      PROVE  UNCHANGED ledger
  BY <1>4 DEF RunImport, FailRun, SkipDuplicate, ChooseSlug, InsertDraft, CompleteRun
<1> QED
  BY ZenonT(40), <1>1, <1>2, <1>3, <1>4
  DEF Next, Work, Invoke, ReadLedger, ImportManually, BeginAttempt, AttemptSucceeds, AttemptFails,
      AttemptTimesOut, EndManual, WriteStory, Die, SetEnabled, Tick, vars

LEMMA CountsStep ==
    ASSUME TypeOK, TypeOK', Attempts, Choices, Locks, Truth, Truth', Counts, [Next]_vars
    PROVE  Counts'
<1>1. \A w \in Workers :
         /\ imports[w] \in Seq(Import) /\ imports'[w] \in Seq(Import)
         /\ worker[w] \in Worker /\ worker'[w] \in Worker
         /\ worker[w].imported \in Nat /\ worker'[w].imported \in Nat
  BY DEF TypeOK, Worker
<1>2. ASSUME NEW w \in Workers, NEW N \in SUBSET DOMAIN imports[w]
      PROVE  IsFiniteSet(UNION {Reports(imports[w][n]) : n \in N})
  BY <1>1, CountedFinite DEF Truth, AllGenuine
<1>3. ASSUME NEW w \in Workers, NEW N \in SUBSET DOMAIN imports'[w]
      PROVE  IsFiniteSet(UNION {Reports(imports'[w][n]) : n \in N})
  BY <1>1, CountedFinite DEF Truth, AllGenuine
<1>4. ASSUME NEW w \in Workers
      PROVE  /\ IsFiniteSet(Counted(w)) /\ IsFiniteSet(Counted(w)') /\ IsFiniteSet(ReportedBy(w)')
             /\ IsFiniteSet(ReportedBy(w)) /\ Counted(w) \subseteq ReportedBy(w)
             /\ ReportedBy(w) \subseteq ReportedBy(w)'
  <2>1. Done(w) \in SUBSET DOMAIN imports[w] /\ Done(w)' \in SUBSET DOMAIN imports'[w]
    BY DEF Done
  <2>2. ReportedBy(w) \subseteq ReportedBy(w)' /\ Counted(w) \subseteq ReportedBy(w)
    BY <2>1, ReportsKept DEF ReportedBy, Counted
  <2> QED
    BY <1>2, <1>3, <2>1, <2>2 DEF Counted, ReportedBy, Reports
<1>5. ASSUME NEW w \in Workers
      PROVE  worker'[w].imported <= Cardinality(Counted(w)')
  <2>1. Cardinality(Counted(w)') \in Nat
    BY <1>4, FS_CardinalityType
  <2>2. CASE worker'[w].imported = 0
    BY <2>1, <2>2
  <2>3. CASE /\ worker'[w].imported = worker[w].imported
             /\ \/ worker'[w].attempt \in {0, worker[w].attempt}
                \/ worker'[w].attempt = Len(imports[w]) + 1
    <3>1. \A n \in Done(w) : n \in Done(w)' /\ Reports(imports[w][n]) \subseteq Reports(imports'[w][n])
      <4>1. \A n \in DOMAIN imports[w] : n # 0 /\ n # Len(imports[w]) + 1
        BY <1>1
      <4> QED
        BY <2>3, <4>1, ReportsKept DEF Done
    <3>2. Counted(w) \subseteq Counted(w)'
      <4> SUFFICES ASSUME NEW a \in Counted(w) PROVE a \in Counted(w)'
        OBVIOUS
      <4>1. PICK n \in Done(w) : a \in Reports(imports[w][n])
        BY DEF Counted
      <4>2. n \in Done(w)' /\ a \in Reports(imports'[w][n])
        BY <3>1, <4>1
      <4> QED
        BY <4>2 DEF Counted
    <3> QED
      BY <1>1, <1>4, <2>3, <3>2, CountedMore DEF Counts, CountsItsOwn
  <2>4. CASE AttemptSucceeds(w)
    <3> DEFINE k == worker[w].attempt
               i == imports[w][k]
    <3>1. k \in DOMAIN imports[w] /\ i \in Import /\ Genuine(i, drafts)
      BY <1>1, <2>4 DEF AttemptSucceeds, Attempts, Truth, AllGenuine
    <3>2. /\ worker'[w].imported = worker[w].imported + CountOf(i, "imported")
          /\ worker'[w].attempt = 0 /\ UNCHANGED imports
      <4>1. worker'[w] = [worker[w] EXCEPT !.attempt = 0, !.tries = 0, !.todo = Tail(worker[w].todo),
                              !.imported = worker[w].imported + CountOf(i, "imported")]
        BY <2>4 DEF AttemptSucceeds, TypeOK
      <4> HIDE DEF i
      <4>2. UNCHANGED imports
        BY <2>4 DEF AttemptSucceeds
      <4> QED
        BY <1>1, <4>1, <4>2 DEF Worker
    <3>3. IsFiniteSet(Reports(i)) /\ Cardinality(Reports(i)) = CountOf(i, "imported")
      BY <3>1, ReportsCount
    <3>4. \A n \in Done(w) : Reports(imports[w][n]) \cap Reports(i) = {}
      BY <3>1 DEF Truth, ReportedOnce, Done
    <3>5. Counted(w) \cap Reports(i) = {}
      BY <3>4 DEF Counted
    <3>6. Done(w)' = DOMAIN imports[w]
      BY <1>1, <3>2 DEF Done
    <3>7. Counted(w) \cup Reports(i) \subseteq Counted(w)'
      <4>1. ASSUME NEW a \in Counted(w) \cup Reports(i)
            PROVE  \E n \in DOMAIN imports[w] : a \in Reports(imports[w][n])
        BY <3>1, <4>1 DEF Counted, Done
      <4>2. \A n \in DOMAIN imports[w] : Reports(imports[w][n])' = Reports(imports[w][n])
        BY <3>2 DEF Reports
      <4> QED
        BY <3>2, <3>6, <4>1, <4>2 DEF Counted
    <3> HIDE DEF i, k
    <3>8. /\ IsFiniteSet(Counted(w) \cup Reports(i))
          /\ Cardinality(Counted(w) \cup Reports(i)) = Cardinality(Counted(w)) + Cardinality(Reports(i))
      <4>1. IsFiniteSet(Counted(w)) /\ Cardinality({}) = 0
        BY <1>4, FS_EmptySet
      <4>2. Cardinality(Counted(w)) \in Nat /\ Cardinality(Reports(i)) \in Nat
        BY <3>3, <4>1, FS_CardinalityType
      <4>3. /\ IsFiniteSet(Counted(w) \cup Reports(i))
            /\ Cardinality(Counted(w) \cup Reports(i)) =
                  Cardinality(Counted(w)) + Cardinality(Reports(i)) - Cardinality(Counted(w) \cap Reports(i))
        BY <3>3, <4>1, FS_Union
      <4>4. Cardinality(Counted(w) \cap Reports(i)) = 0
        BY <3>5, <4>1
      <4> QED
        BY <4>2, <4>3, <4>4
    <3>9. worker[w].imported <= Cardinality(Counted(w)) /\ Cardinality(Counted(w)) \in Nat
      BY <1>4, FS_CardinalityType DEF Counts, CountsItsOwn
    <3>10. worker'[w].imported <= Cardinality(Counted(w) \cup Reports(i))
      <4>1. Cardinality(Reports(i)) \in Nat
        BY <3>3, FS_CardinalityType
      <4> QED
        BY <1>1, <3>2, <3>3, <3>8, <3>9, <4>1
    <3> QED
      BY <1>1, <1>4, <3>7, <3>10, CountedMore
  <2> QED
    BY <2>2, <2>3, <2>4, WorkerCounts
<1>6. ASSUME NEW b \in DOMAIN ledger'
      PROVE  ledger'[b] \in Batch /\ ledger'[b].by \in Workers /\ ledger'[b].imported \in Nat
  <2>1. ledger'[b] \in Batch
    BY DEF TypeOK
  <2> QED
    BY <2>1 DEF Batch
<1>7. ASSUME NEW b \in DOMAIN ledger', NEW w \in Workers, w = ledger'[b].by
      PROVE  ledger'[b].imported <= Cardinality(ReportedBy(w)')
  <2>1. Cardinality(ReportedBy(w)') \in Nat
    BY <1>4, FS_CardinalityType
  <2>2. CASE b \in DOMAIN ledger /\ ledger'[b] = ledger[b]
    <3>1. ledger'[b].imported <= Cardinality(ReportedBy(w))
      BY <1>7, <2>2 DEF Counts, LedgerCounts
    <3> QED
      BY <1>4, <1>6, <3>1, CountedMore
  <2>3. CASE ledger'[b].imported = 0
    BY <2>1, <2>3
  <2>4. CASE ledger'[b].imported = worker[w].imported
    <3>1. ledger'[b].imported <= Cardinality(Counted(w))
      BY <2>4 DEF Counts, CountsItsOwn
    <3>2. Counted(w) \subseteq ReportedBy(w)'
      BY <1>4
    <3> QED
      BY <1>4, <1>6, <3>1, <3>2, CountedMore
  <2> QED
    BY <1>7, <2>2, <2>3, <2>4, LedgerStep
<1>8. CountsItsOwn'
  BY <1>5 DEF CountsItsOwn
<1>9. LedgerCounts'
  <2> SUFFICES ASSUME NEW b \in DOMAIN ledger'
               PROVE  (ledger[b].imported <= Cardinality(ReportedBy(ledger[b].by)))'
    BY DEF LedgerCounts
  <2>1. PICK w \in Workers : w = ledger'[b].by
    BY <1>6
  <2>2. ledger'[b].imported <= Cardinality(ReportedBy(w)')
    BY <1>7, <2>1
  <2> QED
    BY <2>1, <2>2 DEF ReportedBy
<1> QED
  BY <1>8, <1>9 DEF Counts

IngestionInv == TypeOK /\ Attempts /\ Choices /\ Locks /\ Truth /\ Counts

\* What the dashboard counts are drafts of that batch, each counted once (runImportQueue).
THEOREM RealCounts == Spec => []CountsAreReal
<1>1. Init => IngestionInv
  <2>1. Init => Truth
    BY DEF Init, Truth, Titled, AllGenuine, ReportedOnce
  <2>2. Init => Counts
    <3> SUFFICES ASSUME Init PROVE Counts
      OBVIOUS
    <3>1. \A w \in Workers : worker[w].imported = 0 /\ Counted(w) = {}
      BY DEF Init, Fresh, Counted, Done
    <3>2. Cardinality({}) = 0
      BY FS_EmptySet
    <3>3. \A w \in Workers : worker[w].imported <= Cardinality(Counted(w))
      BY <3>1, <3>2
    <3> QED
      BY <3>3 DEF Counts, CountsItsOwn, LedgerCounts, Init
  <2> QED
    BY <2>1, <2>2, SchedulerInvInit DEF IngestionInv, SchedulerInv
<1>2. IngestionInv /\ [Next]_vars => IngestionInv'
  BY TypeStep, AttemptsStep, ChoicesStep, LocksStep, TruthStep, CountsStep DEF IngestionInv
<1>3. IngestionInv => CountsAreReal
  <2> SUFFICES ASSUME IngestionInv PROVE CountsAreReal
    OBVIOUS
  <2>1. \A w \in Workers : ReportedBy(w) \cap Imported = ReportedBy(w)
    BY ReportsReal DEF IngestionInv, Truth, AllGenuine, ReportedBy, Imported, ArticlesOf
  <2>2. ASSUME NEW b \in DOMAIN ledger
        PROVE  ledger[b].by \in Workers
    <3>1. ledger[b] \in Batch
      BY DEF IngestionInv, TypeOK
    <3> QED
      BY <3>1 DEF Batch
  <2>3. \A b \in DOMAIN ledger : ledger[b].imported <= Cardinality(ReportedBy(ledger[b].by) \cap Imported)
    BY <2>1, <2>2 DEF IngestionInv, Counts, LedgerCounts
  <2> QED
    BY <2>3 DEF IngestionInv, Truth, ReportedOnce, CountsAreReal
<1> QED
  BY <1>1, <1>2, <1>3, PTL DEF Spec
=============================================================================
