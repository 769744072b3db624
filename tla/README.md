# TurtleType: TLA+ models, checks and proofs

TurtleType takes a text, charges credits for it, and types it into a Google Doc the way a person
would, over minutes or hours. The server is an Express process with an in-memory job queue and
Postgres; Stripe sells the credits; the browser follows a job over server-sent events. These
modules model the parts of it where order, concurrency and failure decide whether somebody is
charged for nothing, paid twice, or left with a job that never ends.

Paths below are relative to the repository root; `server/` stands for `server/src/`.

## Inventory

| Component | State it keeps | Operations | What is hard | What makes it correct |
|---|---|---|---|---|
| Credit accounting, `server/billing/credits.ts`, `server/db/pool.ts`, `server/db/schema.sql` | `users.credits`, `credit_ledger`, `jobs.credits_spent` | grant, charge with the job row, refund, settle, reconcile | concurrent transactions, row locks, rollback, repeated calls | the balance is what the ledger adds up to; no reference is applied twice; jobs and charges appear together |
| Stripe webhooks, `server/billing/webhook.ts`, `server/routes/billing.ts` | `stripe_events`, `users.stripe_customer_id`, `users.subscription_status` | one handler per event type | at-least-once, unordered, concurrent delivery; a handler cut off in the middle | credit only for payments, to who paid, once, eventually |
| Job queue, `server/jobs/queue.ts` | `active`, `waiting` | enqueue, start, drain, pause, resume, cancel, shutdown | a cancel racing a start; slots given back on every path | never more runners than slots, nobody waits beside a free slot, no job lost |
| Job runner, `server/jobs/runner.ts`, `server/jobs/buffer.ts` | `planIndex`, flags `paused` and `cancelled`, the abort signal, the op buffer, characters written | replay, flush loop, repair, checkpoint gaps, pause, resume, cancel, failure path | two loops and a signal; flags written from requests; unawaited database writes | every run ends in one outcome; the page is a draft of the plan at every moment |
| Job outcome, `server/db/jobs.ts` | `jobs.status`, `chars_written`, `completed_at` | markJobRunning, updateJobProgress, updateJobStatus, finishJob, failOrphanedJobs | crash between the UPDATE and the settlement; late writes | an outcome is final; failed jobs are paid back, done ones never |
| Finish notifications, `server/notify/` | `jobs.notified_at` | claim, send | several paths finish one job | announced once, as what it is |
| Document writer, `server/docs/documents.ts`, `rateLimiter.ts`, `backoff.ts` | cursor, chain of calls, token bucket | flush, repair, retry | retry of a write whose answer was lost; a repair beside a flush; an abort in any sleep | the cursor is the document's end, what was there before stays, no more requests than the quota |
| Revision watcher, `server/docs/revisions.ts` | page token and count to resume from, errors in a row, `disabled` | observe, waitForChange | a slow or failing Drive API, paging | a listing reads as changed exactly when there is a new revision; a gap lasts its floor, and always ends |
| Humanizer, `server/jobs/humanize.ts` | the mistake not repaired yet, the burst, the time spent | humanize, applyTargetDuration | a mistake that waits through several rests; stretching with floors | the plan replays to the text, each mistake is on the page long enough, the plan lasts what was promised |
| Job events, `server/jobs/events.ts`, `GET /jobs/:id/stream` | channel, replay buffer, clients | emit, subscribe, dispose | reconnects, late subscribers, channel expiry, the row read before the subscription | no batch twice or out of order; a tab shows the job's status |
| Credit arithmetic, `server/billing/amount.ts`, `catalog.ts` | none | credits for characters and back | exact multiples | no under- or overcharge, the two directions agree |
| Sign-in and Google tokens, `server/auth/`, `server/db/users.ts` | tokens of a user | upsert, refresh, clear | concurrent refreshes, an unawaited update, a new consent meanwhile | tokens of one pair stay together; nothing but an answer of Google's loses a refresh token |
| Paywall, configuration, launch checks: `server/middleware/isAuthenticated.ts`, `server/config.ts`, `server/launchChecks.ts`, `server/preflight.ts` | the environment at boot | preflight, hasCredits, checkout | one environment read by two rules | what boots in production can bill, and does not turn everybody away |
| Browser store, `client/src/store/useJobStore.ts`, `AppPage.tsx`, `Controls.tsx` | job, preview, preferences, estimate | startJob, attachStream, pause, resume, setNotificationPrefs, estimate | answers out of order, rollbacks, reloads | the preview has no holes, the price shown is of the text shown, a click on one switch reverts no other |
| Document picker, `client/src/lib/googlePicker.ts` | script loads, token requests, `driveGranted` | preload, click, token callbacks, timeout | an answer late, twice or never; a grant withdrawn | the button comes back; a refusal is asked again |
| Migration, security headers, mail rendering, pages | – | – | – | not modelled: read once, or pure formatting |

How they interact: `POST /jobs` charges through credit accounting, then enqueues. The queue starts
a runner; the runner replays the humanizer's plan into the op buffer while its flush loop drains it
through the document writer and the rate limiter, rests in gaps the revision watcher may cut short,
tells the event channel what it typed, and ends in `finishJob`, which settles credits and asks for
the announcement. A webhook grants or claws back credit. At boot `failOrphanedJobs` fails, settles and
announces what the previous process left behind, before the server listens. The browser's store
follows the channel, prices a text before it is submitted, and picks the document.

## Modules

    CreditRows                     the rows and their vocabulary
      CreditAccount                abstract: the account, indivisible movements
        CreditAccountProofs        ... keeps its books (TLAPS)
        CreditLedger               credits.ts as concurrent transactions
          CreditLedgerProofs       ... implements the account (TLAPS)
          MCCreditLedger           instance for TLC
        StripeWebhook              webhook.ts, statement by statement
          StripeWebhookProofs      ... grants what was paid, implements the account (TLAPS)
          MCStripeWebhook
        JobLifecycle               routes/jobs.ts, queue.ts, runner.ts, db/jobs.ts, index.ts
          JobLifecycleProofs       ... keeps its queue and its outcomes, implements the account (TLAPS)
          MCJobLifecycle

    TypedDocument                  abstract: the page of a typing job
    DocRequests                    buffer.ts, planRequests and Google's batchUpdate, as operators
      TypingWindow                 ... a window of keys against its batch
      JobTyping                    runner.ts, DocWriter and backoff; implements TypedDocument
        TypingProofs               ... both of them (TLAPS), from FoldSteps, lemmas about folds
        MCJobTyping
    JobStream                      events.ts, the stream route, the store's stream
      StreamProofs                 ... what a tab is told is so (TLAPS)
      MCJobStream
    RateLimiter                    rateLimiter.ts
    CheckpointGap                  checkpointPause and revisions.ts
    Composer                       text, estimate and start button
    Preferences                    the notification switches
    Picker                         googlePicker.ts
    GoogleTokens                   passport.ts, googleClient.ts, users.ts
    CreditAmounts                  amount.ts, catalog.ts
    Deployment                     config.ts, launchChecks.ts, paywall
    HumanPlan                      humanize.ts
      ComponentProofs              ... these nine (TLAPS), the planner from FoldSteps too
    MCComponents                   the twelve from TypingWindow and JobTyping to Deployment, for TLC

`CreditAccount` is the abstract specification. Its variables are the committed tables (`credits`,
`ledger`, `jobs`), so the three modules that extend it share them with it, the refinement mapping
is the identity, and "implements the account" is the property `AccountSpec` itself.
`StripeWebhook` and `JobLifecycle` use its movements (`Move`, `Reserve`, `Refund`) as single steps
where the code calls `credits.ts`; `CreditLedgerProofs` is what entitles them to.

Amounts are integers, whole hundredths of a credit: the domain in which `billing/amount.ts` adds.

### CreditLedger

A slot of `Calls` is a pooled connection running one transaction. `Script` lists the statements of
each operation; `at` is the statement it executes next. Nothing a transaction writes is visible
until `Commit`; `wrote` remembers which statements had an effect (an `INSERT ... ON CONFLICT DO
NOTHING` may have none).

| Code | Model |
|---|---|
| `withTransaction` (pool.ts:55) | `Begin`, `Commit`, `Rollback`, `End` |
| `lockUserCredits`, FOR UPDATE and the foreign key's KEY SHARE | `CanLock`, `CanShare`, `held`; `Lock` keeps the balance in `read` |
| the check `cost > current` | `Affordable`, `LockRefused` |
| `INSERT INTO jobs`, and the early return for a free job | `InsertJob` |
| `applyDeltaLocked` | `InsertLedger` (skips to COMMIT on a conflict), `UpdateUser` |
| a throw, a failed statement, a lost connection, a crash | `Rollback`, at any statement |

The job id of a reserve is chosen when it begins, fresh among the rows and the calls in progress,
as `gen_random_uuid()` makes it. The unique index is consulted against committed rows; the row lock
serialises the only calls that could race for one reference (`SameReferenceSameUser` proves that
two calls with one reference are calls for one account).

### StripeWebhook

Stripe is the environment: `customer` is the customer of each Checkout session, `emitted` every
event it has created. An event stays deliverable for ever, to any free slot, in any order, so
redelivery, reordering and concurrency need no actions of their own. A delivery executes one SQL
statement per step; `Fail` cuts it off before any of them (a 500 or the death of the process), at
most `MaxFailures` times. `Spend` lets the accounts buy and be refunded jobs meanwhile. The type of
a subscription event is reduced to the status it carries; catalogue lookups to `SkuCredits`, and to
`Unlisted`: what only some builds list, so that after a deploy was rolled back the handler records it
and grants nothing (webhook.ts:98-100, 129). `StartOutside` is a session that Stripe made for no account
of ours, no `client_reference_id`: recorded and otherwise ignored (webhook.ts:76). A pack's own
invoice, which the handler ignores, is not emitted.

### JobLifecycle

The process is `mode`: up, stopping (SIGTERM), down, sweeping (boot). `waiting` and `active` are the
fields of `JobQueue`; `step` is the next piece of code, up to its next `await`, of the request or
runner that has the job. What dies with the process is reset by `Die`; the tables survive. The
text is two halves: the first ends within the tenth that a cancellation refunds, the second beyond it.

| Code | Model |
|---|---|
| `POST /jobs` | `ReserveJob`, then `Enqueue` |
| `JobRunner.run` | `MarkRunning`, `SetUp`, `Gate` (waitWhilePaused), `Work`, `Drain` (await flushTask), `Persist`, `FinishRow`, `Settle` |
| `handleFailure` | `Thrown` decides the outcome, then `Persist`, `FinishRow`, `Settle` |
| `finishJob` throwing, and who catches it | `FinishError`, step `lastChance` for the queue's catch |
| `pause`, `resume` with their unawaited `updateJobStatus` | `Pause`, `Resumed`; `writes` and `Land` |
| `recordFailure` of the flush loop | `Break` |
| `JobQueue.cancel` | `CancelActive`, `CancelWaiting` |
| start's `finally`, `drain` | `Release`, part of the step that ends the runner |
| `notifyJobFinished`, unawaited | `claiming`, `Claim` |
| `shutdown`, exit, kill | `Shutdown`, `Exit`, `Crash` |
| `failOrphanedJobs` | `Boot` (one UPDATE), `SweepOne`, `Listen` |

`aborted` is the abort signal: set by a cancel (`cancelled`) or by a failed flush (`broken`). When
`replay` throws, `run` does not wait for the flush loop: its batch may be in flight still (`adrift`),
and be answered before the last progress is saved, while the job is settled or long after
(`LateFlush`), when `chars_written` is saved once more.

### TypedDocument, DocRequests, TypingWindow and JobTyping

`TypedDocument` is what a job promises about the document, in terms of its plan alone: the page is a
`Draft`, the page after some of the plan's events; it moves on to later drafts (`GoOn`), and a job
that ends may once put the mistake still on the page right (`Tidy`). `JobTyping` implements it by the
mapping `Abs` (`page` is `SeenPage`: what stands after the text that was there before). Three things the
code does are outside that promise (`BeyondPromise`) and map to the page `Spoilt`: a batch applied twice because its answer was
lost, text typed after ops an aborted batch took with it, and a repair sent again by a cancel.

`DocRequests` holds the pure part, `TypingBuffer.push` (`Pushed`), `planRequests` (`PlanRequests`) and
what Google does with the requests (`ApplyRequests`, external). `TypingWindow` checks it alone:
for every sequence of keys up to the bound, the batch leaves what the keys would have (`BatchIsExact`).

| Code | Model |
|---|---|
| `replay`'s loop over the plan | `TakeEvent`, `Type`, `RestOver`, `StartRepair` (drain and wait), `SleepAborted`, `Join` (await flushTask) |
| `flushLoop`, `recordFailure` | `LoopWakes`, `LoopAborted`, `RecordFailure` |
| `cancel`, `finalFlushBestEffort` and the last correction | `Cancel`, `FinalFlush`, `TidyUp` |
| `DocWriter.chain` | `chain`: tasks by the loop, the replay, or the ending; the head is being made |
| acquire, `batchUpdate`, `withBackoff` | `phase`; `GetPermit`, `Answered`, `Refused` (429 or 5xx, then `TryAgain`), `AnswerLost`, `Denied`, `OutOfRange`, `CallAborted` |
| the ops of a progress event, as the browser applies them | `preview` |

Time is left out: a sleep may end whenever it is not aborted.

### RateLimiter

`acquire()` for one caller at a time, which is what the writers' chains make of it: `Ask`, `Permit` or
`Sleep`, `Wake`, `AbortAsk`. Tokens are counted in units such that one unit comes back per tick and a
permit costs `PermitCost` of them, so the arithmetic of the refill is exact. A timer may be late.

### CheckpointGap

A gap of `checkpointPause`: the floor is slept out (`SleepFloor`), then `waitForChange` polls with a
sleep between (`SleepStep`), or without a usable watcher the whole gap is slept (`SleepBlind`). A poll
walks the pages from where the last one stood (`OnPage`, `TurnPage`), keeps its token and count
(`Keep`, `TakeBaseline`, `SeeNoChange`, `SeeChange`) or fails (`PollFails`, `CountError`, which
disables the watcher after `ErrorsInARow`). `NewRevision` is Google, at any moment, within a poll too.

### HumanPlan

One action per branch of `humanize`: the tokens loop takes a word (`TypeWord`, `FumbleWord`), a mark or a
space (`TypeMark`, `TypeClause`, `EndSentence`, `EndShortSentence`) or a run of line breaks (`EndParagraph`,
`BreakLine`), and ends with `LastLook`, `Trim` and `Stretch` (`applyTargetDuration`). `Appended` is
`emitRest` with the repair it may bring. Every draw of the random generator is a choice, so all plans
of a text are generated, not samples; a hesitation inside a word is not.

### GoogleTokens

`Consent` and `Upsert` are a sign-in; `ReadUser`, `UseStored`, `AskGoogle`, `Refreshed`, `SaveTokens`,
`RefreshFails`, `GrantRefused` and `ClearTokens` are `authorizeUser` for each of `Callers`, one
statement or call per step; `EventSaved` is the update that the 'tokens' event fires and nobody awaits.
`Coalesce` is SQL's. `Revoke` and the passing of hours are the world. `GrantRefused` is an error that
googleClient.ts:77 takes for a dead grant: `invalid_grant`, or an `invalid_request` or `unauthorized`
that may come while Google still takes the refresh token. Any other error is `RefreshFails`.

### JobStream

`TypeBatch`, `Pause`, `Resume`, `FinishJob`, `AnnounceOutcome` emit (`Emit` keeps the last
`ReplayBuffer` events and writes to the open response); `RowCatchesUp` is the unawaited UPDATE;
`ReapChannel` the channel's expiry. The route reads the row (`FindRow`) and only later subscribes
(`Subscribe`: the replay, the snapshot, or the stored outcome). `wire` carries frames, in order.
`Deliver` is the store's handlers; `Attach`, `ReloadPage`, `CheckJob`, `Reconnect` and the clicks are the
tab. `DropConnection`, `ReloadPage` and `RestartServer` happen at any point.

### Preferences, Composer, Picker

`Preferences`: a `Flip` of one switch, or `EnableBrowser` of two, is shown at once and sent; `Patch`
is the route's UPDATE, `PatchAnswered` and `PatchFails` the store's two continuations; `FlipElsewhere` is
another tab. Requests may be out together and land and be answered in any order. `Composer`: `SetText`
arms the timer, `TimerFires` sends an estimate under a new id, `Estimated`, `EstimateFails` and
`EmptyAnswer` (the body is cut off, and lib/api.ts:27 takes it for `{}`) are answers in
any order, `StartJob` takes what the button showed when last rendered. `Picker`: the two script tags
and their shared promises (`ScriptLoads`, `ScriptFails`), the token request with the three ways it
settles (`TokenGranted`, `TokenRefused`, `PopupBlocked`, `TimesOut`) and an answer after that
(`LateAnswer`), and `OpenPicker` once both halves of a click are there.

### CreditAmounts, Deployment

`CreditAmounts` has `creditsForChars` and `charsForCredits` at every rate and length of the instance;
the latter is a set of two where a double may round either way. `Deployment` boots with any combination
of variables unset, blank and set (`Preflight`), then `SubmitJob` and `BuyPack` meet the gate.

### MCComponents

The twelve components above share no variable, so a behaviour of all of them is an interleaving in
which each one's own steps are a behaviour of it alone, and every property of the run is about one of
them. `focus` says which one moves; the others rest in an initial state. The reachable states are
then the sum of the components' and not their product, and nothing of any component is left out.

## Runs that pass

| Run | Instance | What it shows |
|---|---|---|
| `credit_ledger` | 2 connections, 2 accounts, 2 jobs, prices 0..2, grants of 2 | `HolderIsCurrent` (no lost update), `BalanceExplained` (balance = ledger), `OncePerReference`, `ChargesMatchJobs`, refinement `ImplementsAccount`, and `EveryCallReturns`: no lock-upgrade deadlock |
| `stripe_payments` | a pack and a plan of two accounts, one invoice, 2 deliveries, 1 failure | `GrantsArePaidFor` (credit comes from payments, links lead to who paid), `ProcessedIsCredited` (of an account's pack of a known SKU), `ImplementsAccount` |
| `stripe_refunds` | one pack, one charge refunded, one job, 2 deliveries, 1 failure | `OncePerReference` with the untransacted claw-back in play, and `PaidPackIsCredited`: a pack of a known SKU that an account paid is credited in the end |
| `job_lifecycle` | 2 jobs, 1 slot, 1 restart, 1 refused statement | `QueueOK`, `TerminalIsFinal`, `SettledByPolicy` (who was paid back, and who is), `NoStrandedJob`, and the liveness of `EveryJobEnds` and `RefundedUnlessKilled` |
| `job_pausing` | 2 jobs, 1 slot, one of them pausable, 1 restart, 1 refused statement | `AnnouncedOnce`, `BlockedIsPaused` |
| `components` | below | the twelve components, 21 properties |

What `components` checks, and at which bounds (`Components.cfg`):

| Component | Instance | Properties |
|---|---|---|
| JobTyping | plans with a doubled letter, with a mistake and its repair, with gaps; 2 retries, 3 faults, 1 lost answer | refinement `ImplementsDraft`; `DocumentAsBelieved` (what was there stays, the cursor is the end, the preview is the page), `DoneIsText`, and that every run ends (in `NothingHangs`) |
| TypingWindow | every sequence of up to 5 keys: two letters, backspaces of 1, 2 and 4 that reach past the job's own text | `BatchIsExact` |
| RateLimiter | burst 2, 3 units a permit, 9 ticks | `PermitsBounded` |
| CheckpointGap | 2 gaps of 8 with floor 3, polls every 2, pages of 2, 4 revisions, 3 failing polls of which 3 in a row disable | `RevisionsAreSeen`, `CountdownExact`, every gap ends (in `NothingHangs`) |
| HumanPlan | texts with doubled letters, marks, sentences and paragraphs; stretched to 0 (not), 30, 45 | `PageIsDraft` (the plan types the text with at most one mistake in it, and its repairs are in turn, as JobTyping assumes), `MistakesAreSeen`, `PlanEndsOnTime` |
| GoogleTokens | 2 requests, 2 consents, 3 hours | `ExpiryIsOfAccess`, `RefreshSurvives` |
| JobStream | 2 batches, a replay buffer of 1, one pause, drop, reload, restart | `PreviewHasNoHoles`, `TabAgrees` |
| Preferences | 3 switches, two of them the browser's, 2 clicks, another tab | `NoSilentRevert` |
| Composer | 3 edits, 2 starts | `PriceIsOfText` |
| Picker | 2 clicks, 2 failures | `RefusedIsAskedAgain`, the button is released (in `NothingHangs`) |
| CreditAmounts | rates 30, 250, 700, up to 60 characters | `PricesAgree` |
| Deployment | 2 packs, each key and price unset, blank or set, free mode set in four ways | `CustomersCanPay` |
| all | | `ComponentsTypeOK` |

Why the bounds are enough. Every interference in the code is between two actors (two transactions of
an account, two deliveries, a request and a runner, a runner and a sweep, the replay and the flush
loop, two requests for a token, two clicks), so two of each meet in every order. Two jobs for one slot
make a full queue, a waiting job and a hand-over. One restart, one drop, one reload and one lost answer,
before, during and after each step, cover every place such a thing can cut; three refused calls exhaust
the two retries of a batch. Amounts of 1 and 2 distinguish an affordable
from an unaffordable job. A replay buffer shorter than the job is one that overflows. Pages of two
revisions and four revisions make a poll that turns a page and one that resumes on the last. A window
of five keys holds every merge and trim that two operations on either side of a third can take.

Where a property is weaker than one would like, it is because the code fails there.
`TerminalIsFinal`, `SettledByPolicy` and `NoStrandedJob` speak of the jobs nobody may pause, since the
unawaited writes of a pause reopen a job that has ended (`job_done_refunded`), and `job_lifecycle` has no
other jobs. `NoStrandedJob`, `EveryJobEnds` and `RefundedUnlessKilled` make
an exception for a refused statement, because `finishJob`'s errors are swallowed (runner.ts:340,
queue.ts:47) and its row then stays live until the next restart; `RefundedUnlessKilled` also for a
process that dies between the UPDATE that fails a job and its settlement, which nothing settles later
although README.md:447 says failed jobs are always refunded. `stripe_payments` has no card refund, whose
claw-back is no movement of the account (`stripe_refund_drift`). `DocumentAsBelieved` and `DoneIsText`
except a lost answer, after which Google has applied a batch the writer sends again.
`TabAgrees` excepts a tab whose stream was opened on a row already out of date (`misled`),
and `PreviewHasNoHoles` a replay whose events had left the buffer (`skipped`). `ProcessedIsCredited`,
`PaidPackIsCredited` and `PaidInvoiceIsCredited` speak of what an account paid for and every build
lists (`Creditable`): a paid session without `client_reference_id` or of a SKU the running build does not know
is acknowledged, recorded and never credited (webhook.ts:76, 98-100, 129; webhook.test.ts:139-153 has it so).
`SettledByPolicy` asks for the refund of a cancelled job where the row still reads as within the
tenth, since a late batch may have raised it after the settlement; and excepts a refused statement and a
process told to stop. `RevisionsAreSeen` claims nothing about why a gap ends early (below).
`RefreshSurvives` says which request a lost refresh token is lost to, not that the token was dead.
`PriceIsOfText` allows no price after a cut-off answer and an old one after a failure. `NoSilentRevert` is about
the row: what a tab shows when its requests overlap is whatever came last, and need not be the row.

## Runs that find a violation

Each states what the repository says of itself, and TLC finds the code doing otherwise.

| Run | What the code does | Where it is said otherwise |
|---|---|---|
| `stripe_refund_drift` | the claw-back's three statements are not a transaction: a job charged between them, a crash, or the same refund handled again leaves a balance no row explains | credits.ts:6-9, webhook.ts:10 |
| `stripe_renewal_lost` | `invoice.paid` before the customer is linked is recorded as processed and never credited | webhook.ts:111-112 |
| `job_cancel_stuck` | a paused job whose flush fails cannot be cancelled, and keeps its slot | runner.ts:126-127 |
| `job_done_refunded` | a late 'paused' reopens a done job; the next boot fails and refunds it | credits.ts:256 |
| `job_tidy_twice` | a job cancelled between its last repair and its end sends that repair again, over text it had put right | runner.ts:470-473 |
| `late_subscriber` | a tab that first subscribes after the end, while the channel is kept, is told no outcome | events.ts:48 |

Smaller disagreements met while modelling, which the models show but no run is spent on:

- The event of a webhook is recorded after its effect, in a statement of its own; schema.sql:100-102
  says first and in the same transaction. The ledger's unique index is what makes this harmless.
- The subscription status is that of the event handled last, so a cancelled plan can stay 'active'.
- Two checkouts opened before the first completes make two Stripe customers for one account;
  routes/billing.ts:106 means to keep one.
- A graceful restart settles running jobs as cancelled, so one past a tenth of its text keeps its
  charge; credits.ts:250-252 counts a restart among the failures nobody is billed for.
- A watcher that gives up in the middle of a gap cuts the gap short with no new revision
  (`waitForChange` returns at revisions.ts:201, and the gap is over). revisions.ts:24-25 says "there is
  no state in which a gap is cut short on anything other than an observed revision", and runner.ts:166-168
  that the plan then runs as before. The model has it (`SleepStep`), so no property claims otherwise.
- An `invalid_request` or `unauthorized` from Google clears the tokens too (googleClient.ts:77), though the
  comment above it and users.ts:70 speak of a revoked or expired grant; and what is cleared is the
  row as it is by then, which may hold the tokens of a sign-in since.
- An estimate aborted while its body is read resolves with `{}` (lib/api.ts:27) and is stored, since only the
  timer makes a new request id: the floor and the price become undefined, also in a composer emptied
  meanwhile, and a duration chosen by hand becomes NaN until it is chosen again (useJobStore.ts:403-404). useJobStore.ts:371-373
  says typing quickly cannot leave a stale floor.
- Two clicks on switches that overlap, of which the first fails: its rollback shows the second as it was
  before, though that one was saved (useJobStore.ts:315-334).
- A batch in flight at a cancel may be answered after the job was settled, so a job that was paid back as
  within the tenth may read as past it (runner.ts:442-443).
- `ALLOW_FREE_MODE` beside Stripe keys still charges; launchChecks.ts:107 reads as if it did not.
- A rejected load of the Picker API stays cached, so every later click fails until the page is
  reloaded (googlePicker.ts:146, 163), although failed scripts are loaded again.
- The correction a cancel makes is not announced (runner.ts:487), so the preview keeps the mistake that
  the document no longer has.

## Fairness

- `CreditLedger`: weak fairness of the statements after the lock, because Postgres executes what it
  is sent; strong fairness of the lock, because Postgres serves the waiters of a row in turn. Beginning
  a call and rolling back are not fair.
- `StripeWebhook`: weak fairness of the handlers; strong fairness of delivering an event that is not
  recorded yet, which is Stripe's retry until a 2xx. Buying and failing are not fair, and
  failures are bounded: the trouble ends.
- `JobLifecycle`: weak fairness of every runner's next step, of the writes and claims under way, of the
  sweep, and of the platform restarting a stopped process. Owners need not resume or cancel anything,
  which is why `EveryJobEnds` is checked on jobs nobody pauses.
- `JobTyping`: weak fairness of `Running`, the steps of the two loops and of the call under way, because
  timers fire and promises settle. Google refuses and loses only so often; nobody need cancel.
- `CheckpointGap`: weak fairness of `GapStep`: timers fire and Drive answers or fails. Revisions need not come.
- `Picker`: weak fairness of `PickBrowser`: scripts load or fail and timers fire. Google owes no answer to a
  token request, which is what the timeout is for.

`CHECK_DEADLOCK FALSE` in the runs of `JobLifecycle`, `JobTyping`, `JobStream` and the components: the instance
has finitely many jobs, events, hours and clicks, and with nothing left to do it may rest.

## What is proved

All proofs are for every value of the constants, under the assumptions named in the modules:
`RowsAssumption`, `CallsAssumption`, `LifecycleAssumption`, `LimiterAssumption`, `GapAssumption`,
`StreamAssumption`, `PrefAssumption`, `ComposerAssumption`, `TokenAssumption`, `RateAssumption`, `BeforeAssumption`,
`PlanAssumption`, `TextsAssumption`, `WindowAssumption` and `TypingAssumption` say what the constants are: counts are naturals, sizes are not 0, a row of
no job is no row, a document is a sequence of characters, a plan of events, and a repair takes something away.
`MistakesAssumption` says of the plans what `runner.ts:470-473` relies on: a repair is of text that is there, all of it
typed after the repair before (`OneOutstanding`). That the humanizer makes such plans is proved (`PlansAreFit`, below). It
also says that `Spoilt` is no text.
`TextsAssumption` says what `tokenize` gives: pieces of a text are not empty, and a mark is one character.
`WebhookAssumption` says what Stripe's objects are: a session has a buyer, an invoice a plan, a charge
the payment it paid, each of them the account it belongs to; and a session sells a pack or a plan and never
both, as `catalog.ts` gives a SKU one `kind` and the route opens the session in the mode of it. The
picker's and the deploy's proofs assume nothing.

- `AccountBooks` (CreditAccountProofs): the abstract account keeps `AccountInv`. The argument is by
  movement: each appends one row to one ledger (`MoveAppends`), continuing its balance
  (`MoveExplained`), under a new reference (`MoveOnce`), for a job it agrees with (`MoveMatchesJobs`,
  `MoveCharges`). The two halves about jobs need each other: a refund is preceded by the charge that
  `JobsAreCharged` supplies, and a fresh job has no charge because `ChargesMatchJobs` gives every
  charge a job.
- `LedgerHolds` (CreditLedgerProofs): `LedgerInv` is inductive. It strengthens the properties with,
  for each call, `Args` (its arguments still describe the tables: a refund's amount is what the job's row
  says, a reserve's job does not exist and nobody else is creating it) and `Progress` (which lock, which
  balance and which rows it has at its statement). The proof separates the call that steps from the
  bystanders (`BystanderOK`): a bystander depends only on its own job, on the balance of the account it
  has locked and on the reference of the row it wrote; a COMMIT is confined to its own
  (`CommitConfined`), and calls with one reference share one lock (`SameReferenceSameUser`). From it:
  `LedgerTyped`, `LockedBalanceIsCurrent`, `LedgerExplainsBalance`, `LedgerOncePerReference`,
  `LedgerChargesJobs`, and `LedgerImplementsAccount`: every step is a movement of the account or leaves
  its tables alone (`StepMoves`).
- StripeWebhookProofs: `GrantsAreForPayments`, `NoPaidPackIsSkipped` and `DeliveredOftenGrantedOnce`, all
  from `WebhookInv`. A delivery reads in one statement and acts in a later one, so `HandlerOK` says what it
  has established at each: whom it found by customer or by reference, and that a handler that grants a
  pack carries a payment of it. What keeps that true is that other deliveries only add: payments stay paid,
  rows stay booked, and a customer, once linked, is one of the account it is looked up for
  (`LinksAreTheirs`, `CustomersAreTheirs`). `NoPaidPackIsSkipped` needs `HandlerOK` at the last statement: if
  the pack is worth credit (`Creditable`) its row is booked before the event is recorded. `WebhookImplementsAccount` assumes `Charges = {}`, no card
  refund; with one it is false, which is the run `stripe_refund_drift`.
- JobLifecycleProofs, the queue: `LifecycleImplementsAccount`, and from the inductive `LifeInv` the theorems
  `QueueKeepsShape`, `OneAnnouncement` and `NobodySleepsUnpaused`. `QueueOK` alone is not inductive: to see
  that a job in the line is touched by nobody one needs `Untouched` (no runner, no request, no write
  under way, still pending), and to see that a fresh job is not in the line already, `JobOK`, which ties
  a job's row to where it is. `Release` is the hard step: `LineShortened` counts who leaves the line, so
  that the slots are full again whenever somebody still waits. Pausable jobs and late writes are
  included: these three properties survive them.
- JobLifecycleProofs, the outcomes: `OutcomeIsFinal`, `PaidBackByPolicy` and `NobodyIsStranded`, from `CourseInv`,
  which says how a job's row goes with the step of whoever has it (`Course`): until it settles a job
  that somebody has is live, one that is settled has ended as what it is settled as, and one that is
  swept has failed. `PaidBackRightly` says that who was paid back has a job that failed or was cancelled,
  `PaidBackInTime` that a refund still owed to a cancelled job has its settlement before it, and `Attended` that a
  live job is at somebody's step or in the line; a process told to stop is counted as a crash from then on
  (`ToldToStop`). `OutcomeIsFinal` follows from the step of whoever would end the job: no step that writes the
  row finds it ended. A batch answered late only raises `chars_written`, and so owes nobody anything.
- FoldSteps: what `FoldLeft` computes, for any operator: nothing is added by no element, one more element is
  one more step, and folding a sequence and then another is folding both (`FoldEmpty`, `FoldAppend`,
  `FoldConcat`). The fold is defined by a recursive function on the sets of positions; that it
  exists is proved by giving one for the first n positions for each n (`SegmentsExist`). The least element of a
  set of naturals stands in for the induction theorems, whose operator parameter no prover here can fill.
- TypingProofs, the window: `BatchesAreExact`, for every document, every set of keys and every window. The
  requests planned so far always leave the document the ops mean with the cursor at its end (`Aims`); since the
  last insert may yet be trimmed, they also do so without it (`Fits`). `PlanOpFits` is the step, `BatchFits`
  the batch; `PushedMeans` says that coalescing keys does not change what they mean.
- TypingProofs, the job: `JobInvariant` and `DocumentIsAsBelieved`. `Queued` says of the chain that it holds one call of
  the replay and one of the flush loop at most, that whoever made each stands waiting for it, and that each
  repair aims at text the writer had written by then; a flush only adds text, and a repair is never behind
  another. So each call Google accepts makes the page that the writer's cursor was computed for (`Applied`), and
  `Believed` is kept. That `Shown` announces what was applied, and not a repair of a cancel, gives the preview.
- TypingProofs, the end of a job: `DoneTypesTheText`, from `DoneInv`. The page alone says nothing of what is still on its
  way, so `InTurn` says that page, call of the loop, call of the job's own and buffer are consecutive stretches of
  the plan (`Via`), the last of them ending where the replay stands; `Settled` and `Finished` say that whoever has
  stopped waiting has left nothing behind. When all are empty the page is the draft of the whole plan.
- TypingProofs, the promise: `JobsImplementDrafts`, the refinement of `TypedDocument`. While nothing is dropped or
  corrected early, `DoneInv` says which draft the page is. After an aborted batch is dropped the page lacks its text
  (`LackingFrom`); what may still reach it are the correction of a cancel and a repair already in the chain
  (`MendedAt`), and no later repair can, as it is of text the page lacks (`LaterOutOfReach`): that is `Short`. Each step
  of a job is then a `GoOn`, a `Tidy`, a `Spoil` or a stutter (`StepPromised`, by `GoesOn` and `Corrects`).
- ComponentProofs, the limiter: `LimiterTyped`, `LimiterBounds` and `OneSleepSuffices`. `LimInv` says of every
  permit that what was granted since, and is left in the bucket, is within the burst and what was refilled
  since (`WithinBudget`); and that a timer is set for the moment the bucket has a permit (`TimerIsRight`).
- ComponentProofs, the gap: `RevisionsStaySeen` and `CountdownStaysExact`. `GapInv` says that a token and
  count to resume from are those of whole pages, so a mark is the number of revisions there are,
  whichever page the poll began at.
- StreamProofs, the preview: `NoHolesInPreview`. That the preview has no holes says nothing of the frames to
  come, so it is not inductive. `PreviewInv` counts: while the channel is the one the job typed into there is
  a function giving, for each event id, how many batches were typed up to it (`Counted`); it steps at
  exactly the frames of a batch, the history holds the steps since its first event, the wire carries on
  from what the tab has acknowledged (`WireSteady`), and the preview ends at the count of its last id, unless
  events were skipped (`PreviewFresh`). After a restart or an expiry no such function is left, but then
  the job is over (`Over`).
- StreamProofs, the status: `ToldTabAgrees`, from `StatusInv`. The last thing a list of frames says of the status
  (`Says`), for the history and for the wire, is how the job stands; a snapshot is true when it is
  written; the end of a job that is over is still on the wire to a tab that has not seen it (`EndOnWire`); and
  the tab's phase follows what it was told, but for a click of its own not answered yet (`PhaseFollows`).
  `StreamWellTyped` is the type invariant.
- ComponentProofs, the composer: `PriceFollowsText` and `OneJobAtATime`. An estimate that was not called off
  is the latest, of the text as it is (`AskedLast`); so the price is right, or undefined, or to come, or failed (`PriceComes`).
- ComponentProofs, the switches: `SwitchesTyped` and `OthersStayPut`. Of a tab's steps only the UPDATE of a request
  writes the row, and it names what the click named, whatever copy the click was made on.
- ComponentProofs, the picker: `RefusalsAreAskedAgain`. The grant on record and what Google last said move together.
- ComponentProofs, types: `GapTyped` (the errors in a row stop at the limit that disables the watcher), `PickTyped`,
  `TokensTyped` (every refresh token, wherever it is on its way to, is one of a consent's) and `DeployTyped`.
- ComponentProofs, the tokens: `ExpiryStaysWithAccess` and `ConsentIsKept`. `TokenInv` says the same of every row
  on its way to the account, whoever carries it, and `Asked` that a request that clears the tokens asked Google with a
  refresh token it had read; no UPDATE leaves none where there was one.
- ComponentProofs, launch and prices: `BootedDeploysSell` (a variable that passes the boot check, which trims, passes the check
  of `config.billing.enabled`, which does not) and `PricesAlwaysAgree` (the price is the least number of
  hundredths that covers the text, `RatioCovers`, `Order`; and what those buy is affordable and two
  characters more are not, `Affordable`, `Unaffordable`).

- ComponentProofs, the planner: `PlanTypesTheText`, `PlanShowsItsMistakes` and `PlanEnds`, for any texts, any sets of
  rests, stalls and targets, and every draw, from `PlanInv`. None of the three is inductive: the page says
  nothing of the words to come. `LeftOf` says that what is left is the end of the text, so that a step says one more
  piece of it (`OneTaken`, `RunTaken`). `DraftOf` says of the plan so far that its page is as long as `written`, that the
  outstanding mistake, put right, makes it the text so far, and that no repair already made reaches behind
  that mistake (`Reach`), which is what puts the next repair in turn. `SeenOf` says that the time since the wrong
  keys is on the plan; `TopUpIsEnough` is the arithmetic of the rest that fixes a mistake. `RestKeeps` is the hard
  step, a rest with the repair it may bring (`FixKeeps`); every other step adds keys and pauses (`QuietKeeps`).
  A plan is read one event at a time (pages, lengths and times are folds, by FoldSteps) and `SpliceBefore`
  and `SpliceAfter` say that a repair and the keys after it can be exchanged. The trim takes pauses away
  (`TrimSplits`); the stretch keeps keys and repairs and only lengthens gaps (`LengthenedKeeps`). That it lasts the target
  is an argument about rounding: a share is off by half a unit at most (`ShareIsClose`), and only a rest's is off
  at all, so the whole is off by half their number (`StretchedLasts`, by counting the rests up to each event).
- ComponentProofs, what a job is handed: `PlansAreFit`. The planner's reading of a plan and the job's
  (`TypedDocument`'s `Draft`) are two folds over two kinds of events that agree on every prefix (`PrefixesAgree`), as
  long as the repairs are in range, which `PageIsDraft` says. So a finished plan of a text that is not empty,
  as handed over, is one that `TypingAssumption` and `MistakesAssumption` describe, and its last draft is the text:
  with `DoneTypesTheText`, a job that is done and lost no answer has typed the text it was submitted with.

Only model-checked, and why:

- `ComponentsTypeOK` as a whole, which belongs to the instance `MCComponents`; the type invariant of each of its
  components is proved of that component's own specification (JobTyping's is in `JobInv`, which `JobInvariant` keeps).
- Liveness: `EveryCallReturns`, `PaidPackIsCredited`, `EveryJobEnds`, `RefundedUnlessKilled`, `NothingHangs`.

## Not modelled, and what could come next

- Two processes during a rolling deploy: the sweep of the new one fails jobs the old one still types.
  `JobLifecycle` has one process at a time.
- Which preference silences which mail, mail delivery and rendering; `Preferences` stops at the row.
- The store's loading of the user, polling of the balance, browser notifications and signing out.
- In the humanizer, hesitations inside a word and the speed of ligatures, which change no page; in the
  writer, surrogate pairs and the sanitising of the text; formatting and parsing of amounts.
- Schema migration, security headers, mail rendering and the pages: run once, or rendering.

Every other safety property the passing runs check is a theorem. A second process beside the one of `JobLifecycle` is
where the next proofs would begin.

## Running

    tlc -workers 2 -config CreditLedger.cfg MCCreditLedger
    tlc -workers 2 -config StripePayments.cfg MCStripeWebhook
    tlc -workers 2 -config JobLifecycle.cfg MCJobLifecycle
    tlc -workers 2 -config Components.cfg MCComponents
    tlapm CreditAccountProofs.tla
    tlapm CreditLedgerProofs.tla
    tlapm StripeWebhookProofs.tla
    tlapm JobLifecycleProofs.tla
    tlapm StreamProofs.tla
    tlapm FoldSteps.tla
    tlapm TypingProofs.tla
    tlapm ComponentProofs.tla
