# Formal verification of the newsroom and its reporter portal

This directory holds TLA+ specifications of the parts of this repository in
which several programs, people and outside services change the same records:
what happens to an applicant's fee, how a reporter's access is decided and
signed, how stories, homepage sections and drafts are edited by several pages at
once, how articles are imported, and how a live broadcast is recorded, reviewed
and deleted. TLC checks small instances of them; TLAPS proves the safety
properties for every number of workers, editors, sessions, recordings and
attempts.

    tlc  -workers 2 -config ReporterRefund.cfg MCReporterRefund.tla
    tlapm ReporterRefund_proofs.tla

Paths below are relative to the repository; `<time>_*.sql` is a file of
`supabase/migrations`. Many functions are replaced by later migrations: a model
follows the latest definition of each.

## 1. The system

Four programs share one Postgres database (Supabase): `website` (public pages),
`cms` (newsroom administration), `reporter` (the reporters' portal, its cron
routes and webhooks) and the database's own functions, triggers and row
policies, which hold most of the logic. Outside are Razorpay (payments), an
identity provider (KYC), Supabase Auth (accounts and signed tokens), LiveKit
(live video), an object store (recordings) and Cloudinary (pictures).

The pattern is the same everywhere. A TypeScript service calls a database
function that locks a row, checks it, and *reserves* it with a fresh token and a
five-minute lease; the service then calls a provider, which may fail, answer
late, or do the work and lose the answer; a second function completes or
releases the reservation, if the token still holds. Webhooks of the provider
arrive in any order and any number of times and touch the same row. A daily or
minute-by-minute job takes over what was left. No transaction spans two systems.

| Component | State | Operations | What is hard | What makes it correct |
|---|---|---|---|---|
| Application fee refund: `cms/.../reporter-refund.service.ts`, `reporter/.../lifecycle.service.ts`, `payment.service.ts` | refund columns of `reporter_payments`, `webhook_events`, refunds at Razorpay | queue, reserve, find/create/fetch at the provider, record, reconcile, postpone, webhook claim/complete/fail | lost replies, lapsed leases, webhooks of older attempts, dead workers | never two refunds; the record is the provider's truth; the fee comes back |
| Access sync: `cms/.../reporter.service.ts`, `temporary-onboarding.service.ts` | `reporter_profiles.access_sync_*`, Auth metadata, issued tokens | suspend, reinstate, claim, write to Auth, complete | two stores with no transaction, late writes, stale tokens | a suspended reporter is never let in; success only when both stores agree |
| Application onboarding: `reporter/.../payment.service.ts`, `application.service.ts` | `reporter_applications`, `reporter_payments`, orders, identity sessions | order, capture, identity start/result, approve, reject, cancel | racing requests, results of older sessions, the deadline | money is booked, fee follows the decision, decisions are final |
| Membership and renewals | membership dates, `public_status`, renewal payments | reminder, grace, expiry, renewal credit | a renewal racing the expiry job or a suspension | a paid period is credited once |
| Live sessions: `live-session.service.ts`, `egress.server.ts`, `livekit-webhook.service.ts` | `reporter_live_requests`, `live_recordings`, rooms and egresses at LiveKit | reserve, list, create, start, complete, fail, reconcile, authorise, webhook, terminate | unknown outcome of a start, reordered and lost webhooks, late failures | one egress per recording; none is forgotten; a recording becomes what its egress became |
| Recording review and retention: `recording.service.ts`, `lifecycle.service.ts` | `live_recordings`, replays, objects | publish, reject, hold, claim, delete, book, fail | deletion racing publication, dead runs | what is published or held keeps its object; what is due is deleted |
| Story submission and trust: `reporter/.../submissions` | `stories`, `story_revisions` | save, submit, publish, withdraw, change requests, corrections | old pages, new revisions | evidence is immutable and agrees with the story |
| Story autosave: `story-autosave.ts`, `story-editor.tsx`, `local-draft.ts`, `media-uploader.tsx` | the page, its queue, the recovery copy, the row | edit, save, upload, transition, restore, discard | a save in flight while typing goes on, lost answers, crashes | "saved" is true; what is submitted is what was shown; typing that no save took up is in the recovery copy |
| Editorial workflow: `cms/.../admin/stories` | `stories.status`, open pages, forms | save, transition, review, correct, delete, batch | two editors with one version | no form overwrites unseen work; what is public is what was decided on |
| Uploads and media | `media_assets`, references | sign, complete, retire, restore | retire racing a story that features the asset | a published story's picture exists |
| Ingestion: `cms/.../admin/imports` | `ingest_runs`, scheduler ledger, imported stories | claim batch, import, retry, complete | a batch outliving its claim, attempts beside their retries | one batch at a time; counts are true; nothing is dropped silently |
| Homepage builder: `cms/.../homepage-builder` | `homepage_sections`, drafts of open pages | edit, autosave, retry, reload | saves in flight, conflicts, placeholders | no lost edit; the status line is true |
| Alerts, live TV, broadcast studio, authorisation, website | rows of one editor; a browser's connection state; none | | little or no concurrency | |

They interact through rows: onboarding queues a refund by writing `refund_status =
'refund_pending'` (the refund component takes over from there; `ApplicationFee`
joins the two), and approval creates the `reporter_profiles` row with generation 1
(where the access sync starts). Access sync decides whether the row policies let
the portal's other parts act at all. A recording that has completed in a live
session is what review and retention start from: `RecordingOutcome` is the seam
between the two, and `RecordingLife` joins them on the same rows. Reporter's
editor and newsroom meet in the story's row. PROJECT.json lists every component
with its files, and under `hazards` what a test would hardly reach, line by line.

## 2. The modules

| Module | Models |
|---|---|
| `ReporterRefund` | one captured fee, from the moment its refund is queued |
| `ReporterAccessSync` | one reporter's signed role, from the approval on |
| `AccessGate` | what the row policies promise about a session (abstract) |
| `ReporterOnboarding` | one application with its fee and its identity check |
| `FeePromise` | what becomes of an applicant's fee (abstract) |
| `ApplicationFee` | onboarding and refund on the same row of `reporter_payments` |
| `HomepageEditor` | open pages of the homepage builder and its table |
| `Newsroom` | staff articles, imported drafts and reporter stories, with everybody who acts on them |
| `StoryAutosave` | one reporter's story editor, browser storage, server |
| `Ingestion` | import invocations, the batch lock, runs and drafts |
| `LiveRecordings` | the constants and statuses that the modules about recordings share |
| `RecordingOutcome` | what becomes of a request's recordings (abstract) |
| `LiveSession` | the recordings of one live request: sessions, LiveKit, webhooks; implements `RecordingOutcome` |
| `RecordingRetention` | review and deletion; extends `RecordingOutcome` |
| `RecordingLife` | both on the same rows of `live_recordings` |
| `MC...` | the instances for TLC; each `.cfg` gives the constants |
| `..._proofs` | inductive invariants and theorems |

Three rules hold in all of them. A database function is one action, since it
runs in one transaction under a row lock (`for update`) and rechecks everything
it relies on; a provider call is one action; what a service does between two of
them is a program counter, so every interleaving is explored. A worker, request
or page may stop at any step. Time is abstract (only `Ingestion` counts it): a
lease is live or has lapsed, a deadline is ahead or has passed, and the clock is
an action that may happen whenever it is not yet so. A reservation's token is
identified with the worker that drew it: a worker holds at most one at a time,
and one it lost is forgotten with its stack. Where people write, a text is the
set (or number) of the edits it contains, so that a lost edit can be seen.

### ReporterRefund

Variables are the columns `refund_status`, `razorpay_refund_id`,
`refund_request_token`, `refund_attempt_count` and `refund_retry_ready`
(`refund_retry_ready_at`: null, in the future, or due), whether the lease is
live, the provider's refunds, the webhook receipts, and where each worker is.

`QueueRefund` is the effect of a rejection or cancellation. `ReserveRefund`
(administrator) and `ClaimRefund` (lifecycle job) take the reservation and
choose the attempt; the attempt is the receipt and the idempotency key the
refund is made under. `FindRefund`, `CreateRefund`, `FetchRefund` are the
provider calls, with `ProviderCallFails` and `CreateReplyLost` (the refund was
made, the answer is lost) as their failures. `RecordRefundRequest`,
`ReconcileRefund` and `PostponeRefund` store what was learnt.
`ClaimEvent`, `CompleteEvent`, `EventRefused`, `FailEvent`, `HandlerStops` are
`processRazorpayEvent`. `WorkerStops`, `LeaseLapses`, `RetryFallsDue`,
`EventLeaseLapses` are crashes and the clock.

The provider is not trusted to refuse a second full refund: `NoDoubleRefund`
must hold by the protocol alone. It is trusted to list every refund it made for
a payment, and to return the same refund for the same idempotency key.

Left out: the texts of failure details, `refund_requested_at` and `refunded_at`,
audit events and the notification trigger. The paths that record a *definite*
refusal (`fail_reporter_refund_request`) cannot be reached: only a local
validation of amounts the database already checked raises one.

### ReporterAccessSync and AccessGate

The row counts changes of mind in `generation`; `metadata` is what Auth holds
for the account; `writes` are writes that timed out at the caller and may still
land, in any order; `jwt` is each session's token, which stays what it was when
it was issued. A round of a sync is `ClaimAccess`, `WriteAccepted` or
`WriteFails`, and `CompleteAccess`; an administrator's request makes up to
`SyncRounds` of them. The temporary onboarding has its own claim and completion
(`ClaimTemporary`, `CompleteTemporary`). `Fence` is the trigger on `auth.users`
that refuses a write for another generation or role. `Admitted` is the row
policies' condition.

`AccessGate` knows no generations, stores or claims: an administrator's decision
makes every token stale, a token can be renewed, the gate may open for fresh
tokens while the reporter is not suspended, and is closed by any decision.
`KeepsTheGate` says that the protocol implements it.

Auth is assumed to replace the metadata it is given. If it merged keys instead,
the suspension's write would be refused by the trigger; the model allows every
write to fail, so the safety properties hold then too, but a suspension's sync
would never succeed. Each completion is sent once; the attempts table beyond
its pending rows and `access_sync_completed_token` only serve repeated ones. Two
branches of the code, the drift repair in the claim and the failed verification
in the completion, are proved dead (`SuccessIsAgreed`, `VerifiedWriteHolds`)
as long as nobody else writes to the Auth metadata.

Nothing retries a sync but an administrator's button, so no liveness is claimed;
a late success of an abandoned claim (`Repair`) may shut out a confirmed
reporter until then, which is what the code does.

### ReporterOnboarding and FeePromise

`application` and `payment` are the two rows; `made`, `shown` and `paid` are the
orders at Razorpay and what the applicant saw and paid; `sessions`, `sent`,
`results` and `processed` the identity checks. `checkout` and `start` are the
requests under way. An applicant pays only an order shown to him, and an order
once; the provider signs results only for sessions the applicant was sent to.

A webhook's claim and completion are one action here, since the completion
rechecks all it relies on; delivery may happen again and again until the event
is processed. The paths to `payment_status = 'failed'` (`fail_reporter_order`)
are reached only by a local validation that cannot fail, and are left out, as is
`fail_kyc_webhook_event`, which only makes a delivery repeatable.
Consents, profile data and times are abstracted: an action that needs them may
always have them. In the runtime wiring no identity provider is configured;
the code is modelled as it runs when one is.

`FeePromise` has four stages, unpaid, held, earned and returning;
`KeepsTheFeePromise` says that a fee is earned only by an approval, returned
only when it was held, and never both.

### ApplicationFee

The composition of the two: the transaction that rejects or cancels the application
is the one that queues the refund (`RefuseAndQueue`), and what the onboarding sees
of the refund is whether one was queued (`SameFee`). Every other step is one half's
alone. `EachFeeByItself` and `OnlyUnearnedFeesGoBack` are proved; no run has this
module, as its halves have one each.

### HomepageEditor

`page[e][s]` is what `homepageEditorReducer` and the autosave scheduler hold of
one section: draft, base version, revision, dirty flag and status line, the
pending timer, the attempted revision and the request out. `table` keeps every
version of a row, `slot` the template slot it was created from.
`EditField` is typing; `RunEffect` the React effect that hands tasks to the
scheduler (`AfterEffect`, `Schedule`, `CancelPending`); `TimerFires` and
`TimerFiresInFlight` its timer with no request out, or one; `ServerSaves`,
`ServerRefuses`, `SaveFails`, `ServerSavesButFails` (the row is written and the
revalidation of the website fails) the action on the server;
`ReceiveSavedRow`, `ReceiveCreatedRow`, `ReceiveFailure` the reducer's
acknowledgement; `Retry` and `Reload` what the editor does. A page that is
reloaded leaves its requests behind (`OrphanArrives`).

Left out: preview, validation messages, and moving, duplicating and deleting
sections, which the fixed template's workspace does not offer.

### Newsroom

A CMS user has at most one page open and one request under way (`job`). The
services read a story, decide whether the command is allowed (`Allowed`, from
`getAllowedStoryCommands`) and only then call the database (`Commit`), which
compares versions and checks its own rules (`Permitted`); between `ReadStory` and
`Commit` everybody else acts. Batches read all first. `Save`, `Transition`,
`RequestChanges`, `Delete` are the writes; `Reviewed` and `OutcomeAfter` the
trigger that keeps `story_revisions` in step. Reporters act through
`ReporterOpens`, `ReporterSaves`, `ReporterSubmits`, `ReporterPublishes`,
`ReporterWithdraws`. `tabs` holds the texts on the pages a reporter has open and in
saves that are still under way: any of them may be typed on and saved at any time,
and takes the place of the row's text, since `save_reporter_story_draft` compares no
version. So `NoWorkIsLost` speaks of every step but one: while a story is and stays
its reporter's draft, a save may drop edits, also those of an editor's correction
that came before a change request. TLC finds both when that exception is left out.
From the submission on no page of the reporter can change the text.
`vetted` and `shown` are history variables: the text a decision was taken on,
and the revision on the page of whoever gave an outcome.

Left out: slugs, categories, media, location evidence and the trust level (a
refused call changes nothing). Deleting a story compares no version in the code;
here too, and `NoWorkIsLost` excepts deletion.

### StoryAutosave

`page.queue` is the promise chain of `exclusive`: saves, the upload, submission
and withdrawal take turns (`TakeTurn`), and a save reads the draft when its turn
has come. `Edited` restarts the two timers (`TimerFires`, `WriteRecovery`);
`ServerActs` and `AnswerIsLost` are the server's side; `SaveSucceeds` to
`TransitionFails` what the page does with an answer. `Crash`, `Leave`, `Refresh`
and `Open` end and begin a page, `Offered` decides about the recovery copy, and
`RestoreDraft`, `DiscardDraft` are the reporter's choice. The server compares no
version, so a request whose page is gone may land late (`OrphanEnds`); the
history variable `late` records that it did, and the two properties about the
row except it. One page at a time: several tabs of a story are in `Newsroom`.

### Ingestion

A worker is one function invocation: `Invoke`, `NotDue`, `ReadLedger`, `Claim`
(which compares the lock with the time it was given, `Locked`), then for each
source `BeginAttempt`, `AttemptSucceeds`, `AttemptFails` or `AttemptTimesOut`,
and `CompleteBatch`. Every attempt is an import of its own in `imports`, and goes
on beside its retry until the invocation ends: `SkipDuplicate`, `ChooseSlug`,
`InsertDraft`, `CompleteRun`, `FailRun`. `Conflicts` are the unique keys.
`ImportManually` is the button of one source, `WriteStory` the rest of the CMS,
which may take a slug. `Die` ends an invocation anywhere and `Tick` moves time on
no further than the platform lets an invocation run.

### LiveSession and RecordingOutcome

A session is one HTTP request for a publisher token. `Reserve` makes or takes
over the recording's row; a session that took it over lists the room's egresses
first (`ListRecordings`), one that made it goes on to `CreateRoom` and
`StartRecording`; `CompleteStart`, `FailStart`, `ReportEnded` write what was
learnt, `Authorize` issues the token, and `SessionStops` is every other end: a
call that failed, an answer that was lost (a start whose egress runs although the
session stops), a reporter who left. `EgressEnds` is LiveKit, `ProcessWebhook`
one of its messages, in any order and again and again; `LeaseLapses` and
`Revoke` are time and the newsroom. The webhook's claim and completion are one
action: the completion rechecks the row, and a refused delivery can be repeated.

Assumed of the outside: LiveKit lists all egresses of a room; an error that
`isDefinitiveStartFailure` calls definitive has left none; and the five minutes
of a lease outlast the calls made under it, so `LeaseLapses` waits while the
claim's holder is listing, creating or starting. It may come at any later step,
and stale claims are what the fences of the four functions are checked against.
Rows of before the reconciliation migration (marker `unknown`, with
`resolve_quarantined_live_recording`) are left out.

`RecordingOutcome` knows only a status per recording and which of them LiveKit
recorded from end to end; `KeepsThePromise` says that the protocol implements it:
one is open at a time, what has ended is final, and a recording completes if and
only if it is whole.

### RecordingRetention

`kept` are the review and retention columns, `gone` the objects that no longer
exist, `run` where each run of the daily job is. `ClaimDeletion`, `DeleteObject`
(deleted, failed, or deleted with the answer lost), `CompleteDeletion` and
`FailDeletion` are the job, `RunStops` its death or its deadline; `Publish`,
`Reject`, `SetLegalHold` are the newsroom, each through the trigger
`prevent_live_recording_deletion_race` (`Reviewed`). The ninety days, the retry's
delay and the lease are three clocks.

A store that is not configured opens the row to a review
(`provider-not-configured`). `MayLoseCredentials` says whether a deployment may
go back to that: with TRUE an unheard deletion followed by a claim without
credentials lets an editor publish what is gone, and `PublishedIsKept` fails; the
run and the proofs take FALSE. Titles, categories and thumbnails are left out.

### RecordingLife

The composition: `LiveSession` writes the rows, and the `status` and `whole` of
`RecordingRetention` are what it has made of them (`SameRows`). A step is one of
the sessions, webhooks and LiveKit, or one of review and retention; each is one
transaction on a row, so they interleave. `EachByItself` says that both halves are
behaviours of their own modules, and `PublicReplayIsWhole` what the public may rely
on. Both are proved; no run has this module, as its halves have one each.

## 3. The runs

| Run | Instance | What it shows |
|---|---|---|
| `refund` | 1 administrator, 1 job run, 1 webhook handler, 2 refund ids, 2 attempts | `NoDoubleRefund`, `OutcomeIsTheProviders`, `RecordedRefundIsThisAttempts`, `AttemptIsNeverDropped`, `FeeComesBack` |
| `access_sync` | 2 administrators, 1 temporary request, 1 session, 3 generations, 2 rounds | `SuccessIsAgreed`, `VerifiedWriteHolds`, `SuccessIsMonotonic`, `TemporaryNeverOverrules`, `KeepsTheGate` |
| `onboarding` | 2 order requests, 2 identity starts, 2 orders, 2 references | `PaidOrderCanBeBooked`, `FeeFollowsTheDecision`, `VerifiedInTheRecordedSession`, `KeepsTheFeePromise`, `PayingApplicantIsServed` |
| `onboarding_preview` | 1 request of each kind | finding 1 |
| `homepage_editor` | 2 pages, 1 row, 1 slot without a row, 3 edits or retries, 1 reload or failure | `TypeOK`, `NothingSavedIsLost`, `StatusIsTrue`, `TypingIsNeverUndone`, `EveryEditIsSettled` |
| `homepage_slot` | 1 page, 1 slot, 2 edits, no failure | finding 2 |
| `newsroom` | 1 writer, 1 editor, 1 admin, 1 article, 1 report, 5 writes, 3 edits, 2 commands | `EvidenceAgrees`, `DecidedAsRead`, `NoWorkIsLost`, `EvidenceIsImmutable` |
| `newsroom_revision` | 1 editor, 1 admin, 1 report | finding 3 |
| `story_autosave` | 3 edits, two of the texts incomplete, 2 upsets | `TypeOK`, `SavedIsStored`, `SubmittedAsShown`, `RecoveryKept`, `EveryTextIsSettled` |
| `ingestion` | 1 cron, 1 button, 1 source, 1 article, 1 retry, 1 upset, lock and invocation equally long | `OneBatchAtATime`, `CountsAreReal`, `NothingIsDropped`, `EveryBatchEnds` |
| `live_session` | 3 sessions, 2 recordings, 3 egresses | `OneEgressPerRecording`, `RecordsAreTrue`, `NoEgressIsForgotten`, `KeepsThePromise` |
| `recording_retention` | 1 recording, 3 runs, credentials that arrive and stay | `PublishedIsKept`, `DeletedWhileDue`, `DueIsDeleted` |

A comment above each property says it in words and names the code it is about.
`TypeOK` of the other modules is proved.

**Bounds.** Two attempts are the least in which an older attempt's webhook or
worker meets a newer one; the provider is kept from failing the last attempt, so
that the bound never blocks the protocol. Three generations are approval,
suspension and reinstatement, with a repair in place of any of them; two rounds
(four in the code) show both going round again and giving up. Two orders, two
requests, two starts and two references are the races of the application.
Three edits on two homepage pages are one that is saved, one typed while the save
is out and one of the other page; one upset makes a save that is committed,
reported as failed and retried into a conflict. Five writes and two commands in
the newsroom are a submission, a correction, a change request and the save of a page
that was open all the time, or a new submission and a decision of an old page. Two upsets of the autosave are a lost answer followed by a crash.
In ingestion an upset is a death, a failed call or a pause; a timeout is none, so
an attempt runs beside its retry and beside the other invocation; a lock that is
exactly as long as an invocation is the tightest the assumption allows. Three
sessions are a start nobody heard of, its takeover and a late step of the first;
the second recording follows one that failed; the third egress is there to be
started wrongly. Three runs of the retention job are two that stop and one that
takes over. The proofs depend on none of these numbers.

**Fairness.** `refund`: the lifecycle job is scheduled again and again and,
holding its lease, gets through its steps often enough (its route is limited to
60 s and its own deadline to 50 s, its lease is five minutes); the provider
settles what it accepted; leases lapse and retries fall due. Nothing is assumed
of webhooks (all may be lost) or administrators. `onboarding`: Razorpay repeats
the webhook of a capture until it is taken, thirty days pass, and the daily job
runs; nothing is assumed of applicants, administrators or the identity provider.
`homepage_editor`: the effect runs after a render, timers fire, requests are
served or fail, and answers are received. `story_autosave`: timers fire, turns
are taken, the server acts and the page hears of it or of its failure.
`ingestion`: an invocation's own steps and its timers; a provider may never
answer, which is what the time limit is for. `recording_retention`: the job comes
again and again and, now and then, finishes while its lease is its own; leases
lapse, retries fall due, credentials arrive. `live_session` claims no liveness:
the row of an egress that ended unheard waits for a webhook, and the code rests on
LiveKit's redelivery.

**Deadlock** is checked for `refund` and `access_sync`. Elsewhere work may rest: a
decided application, a saved page, bounds of edits that are used up, a published
recording.

### Findings

1. `onboarding_preview` violates `RefundsAreOfRealPayments`. The preview's dummy
   payment marks the row `captured` with provider `temporary`. If the applicant
   does not go on, the daily job cancels the application after thirty days and
   queues the refund: `mark_overdue_reporter_application`
   (`20260822166000_*.sql`:264-268) does not look at the provider, and neither
   does the refund claim (802-830, 1083-1101). The job then asks Razorpay, day
   after day, for a refund of `temporary_payment_...`. The design
   (`docs/superpowers/specs/2026-08-24-temporary-reporter-onboarding-design.md`:39)
   says that dummy identifiers "cannot be mistaken for Razorpay" ones.
2. `homepage_slot` violates `OneRowPerSlot`. If the editor types on while a slot's
   first save is out, `homepage-editor.reducer.ts`:194 keeps the placeholder
   instead of the row, and the next autosave creates the slot's row a second time.
   The test (`homepage-editor.reducer.test.mjs`:85) says that the first autosave
   replaces the local draft with the persisted identity.
3. `newsroom_revision` violates `ActionsApplyToTheRevisionShown`. A review action
   reads the story again and goes on with the version it has just read
   (`story.service.ts`:432-445); the revision of the form is not compared. An old
   page approves or rejects a revision it never showed, though the page says
   "Actions apply to revision #n" (`reporter-revision-panel.tsx`:227).

## 4. The proofs

The theorems hold for all values of the constants under the named assumptions
(`WorkersDiffer`, `MaxAttemptsIsPositive`, `SyncersDiffer`, `IdsDiffer`,
`EachHasOneRole`, `NoneIsNobody` and their like), which say that null differs from
every id or record (`NoneIsNoRequest`, `NoneIsNoRecord`), that kinds of workers
and stories are apart, and that bounds are numbers. Two say more.
`LockCoversInvocation` (Ingestion) says that a batch's lock lasts at least as long
as an invocation: the cron route has `maxDuration = 300` and the scheduler takes
300 s as the least lock; the "run now" action of the CMS sets no limit of its own
and is taken to have the same. And the theorems about retention assume
`MayLoseCredentials = FALSE`. TLC evaluates the assumptions in every run.

Each `_proofs` module has an inductive invariant (`IInv`; `RecordingInv` for
retention), proved by one step per action; that it always holds is `Invariance` or
the first steps of each theorem.

- `ReporterRefund_proofs`. `NoDoubleRefund` is not inductive: what forbids a
  second refund is what everybody on the way to the provider may still know. The
  invariant says that each refund belongs to an attempt that was started and an
  attempt has at most one (`ProviderInv`); that every attempt before the current
  one made a refund that failed (`PastAttemptsFailed`), so a worker that is late
  with an old attempt can only find that refund again; that a worker who still
  holds the reservation works on the current attempt, and that the refund it
  carries is that attempt's, settled as it believes (`WorkersInv`); that a
  webhook is about a settled refund (`HandlersInv`); and what the row's outcome
  means at the provider (`RowInv`). `RecordedRefundIsThisAttempts` and
  `AttemptIsNeverDropped` are conjuncts of it. From these follow
  `FeeGivenBackOnce` and `OutcomeIsTrue`, and as action properties
  `AttemptsFollowFailures` and `ConfirmationIsFinal`.
  The module ends with `ApplicationFee`: `HalvesOfAFee` says that the composition is a
  behaviour of both modules, so that the theorems of both hold of it, and
  `UnearnedFeesGoBack` needs both: a refund at Razorpay belongs to an attempt, so one
  was queued, so the application was rejected or cancelled and its fee was booked.
  The onboarding's half is taken from `ReporterOnboarding_proofs`, whose assumption
  `IdsDiffer` is the hypothesis `OnboardingIdsDiffer`.
- `ReporterAccessSync_proofs`. The invariant relates the places a generation
  lives in: Auth, a syncer's target and a token never name a later one than the
  row, and where Auth or a target names the row's own, it has the row's own role
  (`MetadataInv`, `SyncersInv`). So whatever passes the fence is what the row
  wants (`StoresAgree`, `WritesAreFoundAgain`). For `ImplementsGate` tokens
  carry a history variable, the number of decisions when they were issued: a
  token older than the latest decision is behind the row's generation
  (`TokensInv`), so the policies' condition fails for it. `DecisionInv` ties the
  role to the suspension and the operation to the decisions made, which is what
  `DecisionsStand` needs; `ClaimInv` gives `SuccessStands`.
- `ReporterOnboarding_proofs`. `RowsAgree` ties the status of the application to
  that of its payment; `RequestsInv` says what a request under way is about to
  store; `OrdersInv` says that an order shown or paid is the row's own, and what
  a captured payment was captured for; `VerifiedInTheRecordedSession` is a
  conjunct. `ImplementsPromise` maps each action to a step of `FeePromise` or to
  stuttering.

- `Newsroom_proofs`. Versions name texts: every write takes a version nobody can
  hold yet, so whoever holds the story's current version, on a page or in a
  request, holds its text (`Knows`, `Knowledge`). What the database compares is
  the version; what follows is about texts. A command that was allowed for the
  status it read is allowed for the status it meets if the version is the same
  (`JobsAllowed`, `OfReports`), which keeps revisions and story in agreement
  (`Evidence`). A reporter's save needs none of this: it takes a new version, and
  replaces only the text of a draft, about which the evidence says nothing
  (`DraftReplaced`). Theorems: `EvidenceAgreesAlways`, `DecidedAsReadAlways`,
  `NoWorkIsLostEver`, `EvidenceIsImmutableEver`.
- `Ingestion_proofs`. An invocation that holds a batch is younger than the lock it
  took (`HoldsLock`), and whoever claims compares with a time it read no later than
  now, so it finds the lock (`OneBatch`). Stories are only added; an import's
  report about its feed therefore stays true (`Genuine`), and what is newly
  reported as imported was not there before, which makes the counts add up
  (`RealCounts`) and nothing fall between (`NoneDropped`).
- `Recording_proofs`, on `LiveSession`. `OneEgressPerRecording` rests on who may ask LiveKit:
  a session that is about to create a room or to start an egress and still holds
  its claim works on a recording that has no egress (`HeldInv`), since it made the
  row or has listed the room, and its lease has outlasted its calls. `SessionInv`
  says what a session carries, `RowInv` how a row's columns depend on each other,
  `EgressInv` which egresses exist. For `PromiseIsKept` the whole recordings
  change only with an egress that ends (`WholesAre`), and every action is a step of
  `RecordingOutcome` or stutters (`PromisedAction`, one lemma per kind of step).
- `Recording_proofs`, on `RecordingRetention`. The danger is a run that asked the store and is
  never heard of. Once a run with credentials has claimed a recording (`Touched`),
  the row stays barred to every review until the deletion is booked (`Barred`): a
  later claim has credentials too, so no failure can open the row.
  `TouchedInv` says so, with `RunsInv` and `ReviewInv`; `PublishedKeepsItsObject`
  and `DeletesOnlyWhatIsDue` follow.
- `Recording_proofs`, on `RecordingLife`. A step of a session or a webhook is a
  step of `RecordingOutcome` (`PromisedAction`), which on the same rows is the
  `OutcomeNext` of `RecordingRetention` (`SameOutcome`); a review leaves those rows
  alone. So `HalvesOfALife`: the composition is a behaviour of both modules, and all
  theorems about either hold of it. `PublicReplaysAreWhole` is what neither says
  alone: a public replay is the broadcast of the one egress LiveKit completed, and
  its object exists.
- `HomepageEditor_proofs`. The run's properties are not inductive: they speak of
  the page and the row, and what breaks them is a task that waits or a request that is out. `Captured` says what
  those have to do with the draft (it contains them, and is equal to them unless
  it was edited since) and `Based` what they have to do with the row (what they
  were typed on is contained in them), so that a save that meets the version it
  names drops nothing. `Holds` says what an answer on its way is worth: one that
  says "saved" names the version it made and holds the text of its task.
  `SchedulerInv` is the automaton of one section (which of the draft's revisions
  was tried, waits or is out); its last conjunct, with `UnsavedWorkIsOnItsWay`,
  says that no unsaved draft is forgotten. `SlotInv` says that the row which a
  slot's save reports is that slot's own, `NewsInv` that such a row is not yet on
  the page that is about to hear of it, so putting it there overwrites no typing;
  `OrphansInv` speaks of the requests of pages that were reloaded. From these
  follow `SavedEditsStay`, `StatusLineIsTrue` and the action property
  `TypingStays`. That a slot may get two rows (finding 2) is no exception: no text
  is lost by it.
- `StoryAutosave_proofs`. `TurnsInv` says that the request which is out belongs to
  the head of the queue, so between a save's reading of the draft and its answer
  only the reporter can change the draft, and the generation tells: `DraftInv`
  relates the request to the draft, `StoredInv` the row to both. `SubmissionInv`
  says that from the moment a submission waits for its turn the page is saved, has
  no upload and stays as it was shown, and that a submitted row holds just that.
  The theorems are `SavedDraftIsStored`, `SubmissionIsAsShown` and
  `RecoveryCopyIsKept`.

Action properties proved but checked by no run, since they hold wherever the
invariants do: `NewAttemptOnlyAfterFailure`, `RefundedIsFinal`, `DecisionIsFinal`.

Only model-checked: every liveness property, since fairness is out of the prover's
reach. No proof assumes that a constant is finite. Every invariant and action
property of a passing run is proved; those of the runs that end in a finding are
false.

## 5. What is not modelled, and the plan

Next, in this order:

1. **`Membership`**: reminder, grace and expiry against renewal credit and
   suspension. Properties: a captured renewal is credited exactly once; a
   membership never ends before the time paid for. Theorem: credit once.
2. **Termination of a broadcast**: `Revoke` joined by the closing of the room
   (`live-termination.service.ts`) and by participants with a token, against
   `Authorize`; the approval of live requests with their windows.
3. **Media retirement** against stories that feature an asset; the resumable
   upload behind `StoryAutosave`'s upload.
4. **Composition** of `ReporterOnboarding` and `ReporterAccessSync`: the approval
   writes the access row the sync starts from. The other seams are joined by
   `ApplicationFee` and `RecordingLife`.

Not planned: the public website and renderer (read only), alerts and live TV
(writes of one editor to one row), authorisation functions (pure, one request),
and the broadcast studio's browser code.

Exposed here and covered by no property, with the reason (more in PROJECT.json):

- An egress that ended unheard leaves a row busy until a webhook comes; after a lost
  webhook of a running one, tokens are issued for a broadcast nobody records
  (`live-session.service.ts`:230). The liveness would only restate LiveKit's.
- A room that keeps an earlier recording's egress never satisfies `length === 1`
  (`live-session.service.ts`:224): a second recording whose start went unheard
  stays in STARTING.
- A failed egress may leave an object behind that no row names and nobody deletes.
- A late success of an abandoned access claim shuts out a reporter who was
  confirmed until somebody presses retry (`Repair`): on the safe side.
- A recovery copy written while a save was out is older than the row and is not
  offered after a crash (`local-draft.ts`:144), and discarding one may remove a
  newer copy: the code promises neither.
- `getAllowedStoryCommands` offers commands that `transition_story` refuses, and
  the unique key of slugs is reported as a concurrent import: the caller is told,
  nothing changes.
- Two tabs of one reporter overwrite each other, and an old one an editor's
  correction after a change request: the server compares no version
  (`20260822151000_*.sql`:196-205). The model does so too (`ReporterSaves`).
- Nothing in the repository publishes a scheduled story.
