# ChatbotX: its concurrent core, specified and verified

ChatbotX is an omnichannel chatbot and marketing platform: a TypeScript
monorepo over Postgres (Drizzle), Redis and BullMQ. This directory holds TLA+
models of the parts whose correctness hangs on the order in which crons, queue
workers, webhooks and users write the same few columns: one-off **broadcasts**,
**recurring broadcasts**, **sequences**, **smart delays** and the **payment of
orders**. Nothing serializes these actors except conditional updates,
deterministic job ids, epoch counters and, in two of the parts, a row lock.

Paths below are relative to the repository (`B` is
`packages/business/src/broadcast`, `S` is `apps/worker/src/schedule/handlers`,
`I` is `apps/worker/src/integration/handlers`).

## 1. Inventory

| Part | State it keeps | Operations | Models |
|---|---|---|---|
| Broadcast preparation (`B/service.ts`, `S/enqueue-broadcast.ts`, `S/prepare-broadcast.ts`, `S/purge-draft-broadcast-recipients.ts`) | `Broadcast.status`, `resumeCount`, `contactCount`; `ContactOnBroadcast` rows; prepare and cleanup jobs | schedule, move to draft, enqueue tick, prepare, cleanup | `BroadcastPrepare`, partly |
| Broadcast dispatch (`S/process-broadcast-contacts.ts`, `S/reconcile-broadcasts.ts`, `S/finalize-broadcasts.ts`, the send guard) | `handoffCompletedAt`, `sent`, `failedAt`, `deliveredAt`; the driver job; a send job per contact and epoch; a Redis lease | reconcile, hand off, send or refuse, finalize, stop, resume | `BroadcastDispatch` |
| Broadcast purge (`S/purge-broadcasts.ts`, `repositories/broadcast-purge.ts`) | `deletedAt`, the rows left | drain, probe, erase | `BroadcastPurge` |
| Recurring broadcasts (`B/recurrence.service.ts`, `recurrence-ledger.ts`, the enqueue tick, the materialize job) | the series with its armed slot and cursor, the ledger, the runs | arm, pause, resume, edit, skip, materialize, catch up | `BroadcastRecurrence`, partly |
| Sequences (`packages/sequence-scheduler`, `apps/worker/src/sequence-scheduler`, `packages/business/src/contact-sequence` and its neighbours) | enrollments, dispatch rows, a Redis sorted set, scheduler jobs and send jobs | enroll, unsubscribe, produce, consume, send, advance, reconcile, edit steps | `SequenceDispatch`, partly |
| Smart delay (`packages/business/src/smart-delay/service.ts`, `S/scan-smart-delay.ts`, `I/smart-delay.ts` and the three resume handlers) | `ContactOnSmartDelay` rows, resume jobs | arm, scan, sweep, claim, resume, hand back, cancel | `SmartDelay`, partly |
| Orders and payments (`packages/business/src/order`, `order-payment`, `repositories/ecommerce-payment`) | orders, payment attempts, pages at Stripe and PayPal | check out, webhook, expire, sweep, accept, cancel, refund, delete | `OrderPayment`, partly |
| Channel send handlers, flow engine | messages | render, call the provider | only their effect on a recipient |
| Broadcast statistics, Redis primitives, workspace lifecycle | outcome columns, leases, workspaces | bulk updates, `SET NX`, teardown | where the parts above use them |
| Broadcast plan policy, quotas | slots and counters | reserve, enforce | not modelled |
| Builder, realtime gateway, CLI, MCP server, JavaScript executor; channel integrations, AI, flow configuration; inbox; appointments, minigames, leaderboards, webhooks | CRUD, external accounts, little of their own | UI, I/O | not modelled |

The parts meet in few places. A recurring broadcast makes one-off runs, which
then go through preparation, dispatch and purge. A broadcast, a sequence step
and a smart delay all end in a BullMQ job that runs a flow. The schedule worker
runs all the crons, and the workspace teardown cancels what is in flight. The
three broadcast components are composed in `Broadcast`; the others share no row
with each other and are specified by themselves.

What makes each part correct, in a sentence. *Preparation*: what is promoted is
exactly the audience last scheduled, counted right, whatever stale runs and
cleanups were under way. *Dispatch*: nobody is passed over, a second
message of an epoch has an attempt cut short behind it, a verdict of `failed` is
honest. *Purge*: erased in the
end. *Recurrence*: each slot settled once, in order, with a run exactly where
the ledger says so. *Sequences*: one step at a time, in order, to the end.
*Smart delay*: each arming resumes its flow, not early, in the end, and again
only after it failed half way.
*Payments*: an order keeps the money of one page while it is kept, and none
after. `PROJECT.json` lists every hazard at its line with the properties that
cover it.

## 2. Modules

| Module | Holds |
|---|---|
| `BroadcastRow` | the `Broadcast` row, the recipient rows, the driver job's slot; soft deletion, workspace cancellation, blocking |
| `BroadcastPrepare`, `BroadcastDispatch`, `BroadcastPurge` | the three components over that row |
| `BroadcastLifecycle` | abstract: how status, epoch, deletion and the fixing of the audience may move |
| `Broadcast` | the three components composed (`INSTANCE`), with the refinement of `BroadcastLifecycle` |
| `RecurrenceLedger` | abstract: an append-only ledger, settled in order |
| `BroadcastRecurrence` | one series, with the refinement of `RecurrenceLedger` |
| `SequenceDispatch` | one contact in one sequence |
| `SmartDelay` | one delayed step of one contact |
| `OrderPayment` | one order paid online |
| `…Proof` | the proofs about `BroadcastPrepare`, `BroadcastDispatch`, `Broadcast`, `BroadcastRecurrence`, `SequenceDispatch`, `OrderPayment`, `SmartDelay` |
| `MC…` | small instances for TLC |

Throughout, one SQL statement, or one transaction under a row lock, is one
step, a queue or Redis call is one step, and everything between two awaits may
be interleaved with other actors. A handler that awaits is a program counter
with the locals it has read. Reads that a later conditional write repeats are
merged with it. A job with a fixed id is a slot: adding to a taken slot changes
nothing, as in BullMQ. A *history* variable records what happened so that a
property can say what it excludes; no action reads one.

### Broadcasts

- `status`, `epoch`, `contactCount`, `handoff` are the columns `status`,
  `resumeCount`, `contactCount`, `handoffCompletedAt`; `deletion` is `deletedAt`
  and, for `"hard"`, the absence of the row. The **epoch** pins a prepare to its
  schedule and names the send jobs; `moveToDraft` and `resumeSending` bump it.
- `recipient[c]`: `absent`, `pending` (`sent = false`), `sent`, `failed`
  (`failedAt`).
- `purgeJobs[r]` is the cleanup job of a draft that requester `r` asks for. One
  that has deleted for the last time is `"ending"` and still keeps its id, so a
  request folds into it.
- `prep` is `prepareBroadcast` with what it read; `check[u]` a user's request
  inside `draftActivationScope`; `driver` is `processBroadcastContacts`, whose
  batch is handed off concurrently (`driver.todo[c]` goes from `add` to `mark`
  to `no`); `finalizer` is one broadcast's turn in `finalizeBroadcasts`;
  `purger` is `purgeOne`. A send job keeps its id after it finished.
- A send job tells the channel and ends in two steps (`"told"`): marking the
  conversation read or emitting the event may throw, or the worker die, after the
  message has gone out, and the job is tried again from its guard on.
  `outcome[c]` counts the messages (`sends`) and the attempts cut short after one
  (`cut`, a history).
- `resumedOver` (history) says what of a stopped run was not over when it was
  resumed: the driver in a batch, or send jobs still to run.
- `StaleUsers` are the users whose request may read the row while it is not a
  draft; only `stale_activation` has any.
- By itself `BroadcastPrepare` sees the purge through its effects (`RowsDrained`,
  `RowErased`); the composition replaces them with `BroadcastPurge`.

### Recurring broadcasts

- `nextRunAt`, `accountedThroughAt`, `occurrenceCount`, `paused` are the series
  row, `status` and `deleted` the template's, `ledger[s]` the occurrence row of a
  slot, `runs[s]` the broadcast made for it, `jobs` the materialize jobs.
- Slots are the points of a clock of `Horizon` ticks; a rule is the set of slots
  it yields, the dates excluded and the limit on runs. `computeNextOccurrence`
  is the least slot after a cursor.
- Every operation takes the series lock, so it is one action; pre-checks made
  without it are repeated under it. `MaxLag` is how long a transaction may
  have waited for the lock, since `selectDbNow` returns the start of the
  transaction and not the present; a wait past a tick counts as a fault.
- `owed` (history) are the slots that came due while the series was armed. A
  series taken off as of the start of a transaction owes nothing that came due
  while it waited. `rewound` (history) is true once a transaction that waited has
  written a cursor before the one another transaction had written meanwhile.
- The catch-up writes one ledger row per slot, where the code sums up beyond 500;
  skip reasons are one outcome; an end date is a rule without further slots.

### Sequences

- `enrollment` is the `ContactsOnSequence` row (its `id` counts enrolments);
  `dispatch[d]` the row of a step of an enrolment, named by what its idempotency
  key is made of; `schedule` the Redis sorted set, `queue` the scheduler jobs,
  `worker[d]` where the consumer, the send job or `advanceEnrollment` stands for
  that row, `plan[d]` what `advanceEnrollment` has read.
- Times are left out: a row may come due at any moment. What the key needs of
  them is the version of the delays, since every run-at is computed from the
  enrolment, or from the moment the step before went out (`AfterSend`).
- A send job reads its row (`"fetched"`), then the step (`"sending"`), and does
  not look at the row again before the flow. A flow is a message followed by whatever
  may still throw, another message, the job that continues it, another inbox:
  from the first message on the row is `"sent"`, until it is marked.
- `editor` is an edit of a step whose effect on contacts is being computed. A
  reactivation is three steps: the completed enrollment is read, made active by
  its id, and only then given a dispatch.
- `detours` (history) holds pairs of an enrolment and what kept it from its plain
  course: an edit that cut it short, a step deleted under it, a dispatch that was
  never created, an attempt cut short after a message (`"sent"`), a message after
  it was over (`"late"`). The *strands* are those that leave it active with
  nothing under way.
- A sequence may begin without its last step, which is then created under
  waiting and completed contacts.

### Smart delay

- An *arming* is one run of `scheduleSmartDelayResume`, numbered; the number
  stands for its `triggerAt`, `createdAt` and job id (`buildJobId`). `owner[g]`
  is its row and `row[r]` that row's status with the arming it waits for, so a
  follow-up armed again moves its row, while a wait gets a new one.
- `armer[g]` is where `scheduleSmartDelayResume` stands, `scan` the scan with its
  batch, `worker[g]` the resume handler with the arming it read, `job[g]` the
  job's slot, and `tries[g]` its failed attempts. The three resume handlers differ in
  what they check (`Verdicts`) and in what they do when the flow fails.
- Resuming a flow is two steps: it begins (`ran[g]`), and it ends or throws with a
  part of it done (`broke[g]`, a history). A wait and a quick reply run it
  within the job and hand their row back when it throws; a follow-up only
  queues it.
- `age[g]` is `ahead`, `due`, or `stuck`, that is longer past than the sweep's
  grace of ten minutes. The enqueue window is left open: a row may be
  enqueued at once or left to the scan, and the scan may claim any pending row.
- `scenario` is fixed by `Init`: the type of step and how many armings, failures
  and interruptions there are, so that one run covers all three types.
- `revived` (history) are rows that were over when they were marked
  scheduled, `overtaken` armings claimed by a job that had read an earlier one,
  `lost` armings that were claimed and will not be resumed, or not to the end.

### Orders

- `order` is the `Order` row, `row[a]` the `OrderPayment` row of the a-th page,
  `page[a]` and `refunded` what the provider knows, `age[a]` how far the page is
  from its end: `"short"` and `"ending"` pages are no longer offered again
  (`REUSE_MARGIN_MS`), before the deadline it was opened under and after. `scan`
  is `expireOrder`, `sweeping` `settleStaleAttempt`, `refunding[w]` the refunds a
  worker makes after its commit.
- A transaction under the order's row lock is one step together with the provider
  calls it makes: while it runs only the customer moves at the provider, and
  that commutes with a call made earlier or later. The refund after a commit, the
  reads that begin a scan and the mark that ends a sweep are steps of their own.
- `givenBack` counts how often stock and discount code were given back. `torn`
  (history): a cancel failed after it had refunded.

## 3. Runs

Every run is exhaustive within its bounds. Deadlock is not checked: all these
parts really come to rest. Faults are calls that fail or throw and workers that
die, at any of the steps that can.

| Run | Instance | Shows |
|---|---|---|
| `prepare` | 2 contacts, 1 user, epochs 0 and 1, 2 faults, 2 attempts, blocking | a prepared broadcast holds and counts exactly its audience (`SendsToTheAudience`); a stale prepare's rows have a cleanup ahead of them (`StaleRowsHaveACleanup`); a due broadcast is prepared (`DueIsPrepared`) |
| `dispatch` | 2 contacts, one undeliverable, epochs 0 and 1, batch 1 and then 2, 1 fault, the lease failing open | one message per epoch and attempt cut short (`OncePerEpoch`), honest failure (`FailedMeansAllFailed`), and, with the resumes named in them, `QuietHandoffLeavesNonePending`, `SettledNoRecipientLost`, `EveryRecipientHandedOff` |
| `pipeline_safety` | 1 contact, 1 user, epochs 0 and 1, 1 fault, all three components | `SendsOnlyToTheAudience`; the pipeline implements `BroadcastLifecycle` |
| `pipeline_liveness` | 1 contact, 1 user, epoch 0, 1 fault | `DeletedIsErased`, `DueReachesTheEnd` |
| `recurrence` | 4 ticks, 3 rules, 1 fault, `MaxLag` 1 | ledger, runs, series and template agree (`RunsMatchLedger`, `ArmedWhileRecurring`); no owed slot is forgotten; the limit holds over edits and catch-ups; only the latest slot is sent; a due slot settles; `RecurrenceLedger` is implemented; where it says so, until the cursor is set back |
| `sequence` | 2 steps, 1 enrolment, 2 attempts, 1 edit, 1 fault | an active enrollment is driven (`ActiveIsDriven`), has one open dispatch, is sent in order and once, after an unsubscribe the step in hand at most (`OneStepAfterLeaving`), is taken up and completes, each unless a named detour happened |
| `smart_delay` | each type armed once with 1 or 2 faults and 2 interruptions; a follow-up armed twice | an arming resumes once, and once more for each time its flow broke off (`RunsOnce`), not early (`RunsOnTime`); a completed row was resumed or its claim lost in a named way; a due row settles (`DueSettles`) |
| `orders` | 2 pages, 1 fault, both providers | a kept paid order holds the money of one page; only a cancel refunds it; a closed order keeps none; an overdue order settles; extra money goes back |
| `draft_leftovers`, `stale_activation`, `sequence_step_edit`, `order_expiry` | as small as the trace allows | see *Findings* |

**Bounds.** Two contacts let a batch or a chunk cover part of an audience and a
stale audience differ from the new one by addition, removal and replacement.
Two epochs are a stop and a resume, or a move to draft and a new schedule, with
work of the old one in flight. `BatchSize` 1 makes every batch full, 2, after a
resume, makes short, full and empty ones. In the composed runs one contact is enough
for races about the row; the races between recipients are in the
component runs. `pipeline_liveness` keeps epoch 0: a bounded supply of moves to
draft and resumes adds states and no behaviour, and an unbounded one lets the
user postpone both properties. Four ticks are enough for an outage that leaves
two slots due at once, a pause over one, an edit and a catch-up behind it; the rules
differ in whether they end, exclude or limit. Two steps are a first and a last
one, and the smallest sequence in which a contact can be completed early, sent
back or driven twice. Two pages are a duplicate payment. Two faults exhaust a
job's attempts where that matters (`prepare`, a wait). A quick-reply follow-up
moves its row as a follow-up does, so only the latter is armed twice, without
faults. A second arming's time does not come before the first's.

**Symmetry and view.** In `stale_activation` contacts are interchangeable.
`pipeline_safety` leaves out of the fingerprint (`VIEW WhatCounts`) what no later
step and none of its properties can tell: `resumedOver`, how often a contact was
told, how a job that is over ended, a draft's audience before it is scheduled, and
the columns that only a broadcast that is sending has read. `MCBroadcast` says for
each why. The view keeps apart any two states that allow different steps, so
nothing is missed.

**Fairness.** Crons fire every minute (the scan every five, the sequence
reconcile every hour), queue workers keep taking jobs, and time passes, so cron
steps, the steps of a handler that has begun, due jobs and the passing of
deadlines and leases are weakly fair. Users, customers and failures owe nothing;
a provider does settle what it has captured and calls back about money it has
taken. Beyond that:

- a purge chunk is strongly fair: rows are locked for a statement, so a chunk
  that keeps meeting them meets them unlocked in the end;
- a smart-delay job's read of a row that is to be resumed, and its claim, are
  strongly fair: otherwise a sweep could take the job away, or reset the row
  between read and claim, at every tick for ever. Five minutes pass between
  scans, and a job needs no such time.

Faults are bounded, so they do not recur for ever.

## 4. Findings

Four runs end in a counterexample to what the repository says of itself.

1. **`stale_activation`** — `draftActivationScope` (`B/service.ts:1316`) returns
   an unpinned scope when the row is not a draft at the time of the read. A
   request from a page that still shows the draft reads the row while it is
   scheduled; the broadcast is moved to draft with a prepare under way; the
   request's write then matches, on top of the recipients already written. Its
   comment (1292) says the draft is refused then.
2. **`sequence_step_edit`** — `currentStep` is the step a contact waits for
   (`contact-schedule.ts:314`), yet the recalculation after an edit looks for a
   step *after* it (223): saving the last step, even unchanged, completes every
   contact that waits for it, with the dispatch still pending, and a later
   reactivation gives it a second one.
3. **`order_expiry`** — `settlePaymentsForCancel` looks at `keepLatePayment` only
   for a page that is still open of an unpaid order (`settle.ts:178`). A webhook
   that marks the order paid between the expiry scan's reads and its cancel
   leaves a paid attempt, and the cancel refunds it. The comment at
   `settle.ts:107` and `docs/ecommerce.md:230` say a payment in time keeps the
   order.
4. **`draft_leftovers`** — `moveToDraft` (`B/service.ts:1253`) asks for no cleanup.
   A prepare that finds itself stale does, but one that failed for good or died is
   not there to: its rows stay until somebody schedules the draft and is refused.
   `docs/broadcasts.md:41` says what was already written is cleared in the background,
   and `queues/schedule/index.ts:105` names `moveToDraft` among those who ask for it.

### Other behaviours the models reach

No run is spent on these; the models contain them, and the properties say what
they except.

*Broadcasts.*
- `markContactSentIfSending` (`B/service.ts:1738`) asks whether the broadcast is
  sending and not for which epoch: a hand-off suspended over a stop and a resume
  marks its row as sent after the refused job reset it. The contact gets nothing
  and no resume targets it. Excepted by `"driver" \notin resumedOver`.
- A send job refused while stopped resets its row (1708) after the resumed run has
  closed its hand-off; the broadcast is finalized over it (comment at 817).
  Excepted by `resumedOver = {}`.
- A stale prepare has a cleanup id of its own, so that its request never folds into
  one that is just finishing (`queues/schedule/index.ts:111`). Moved back twice,
  the second stale prepare folds into the cleanup of the first, and its rows stay.
  Excepted by `epoch <= 1`.
- A send job that throws or dies after the channel has taken the message sends
  another (`send-whatsapp-template.ts:345`, then 383, 406 and 465). Counted by
  `cut`.
- An enqueue tick that listed a row before it was re-scheduled for later adds
  its prepare, which goes out early. A stop between adding a job and marking its row
  leaves the contact a second message under the next epoch. A send job that
  waits longer than the outcome grace is refused by a broadcast already
  `sent`, its row reset for a resume that cannot come.

*Recurrence.* `selectDbNow` (`recurrence-repository.ts:61`) is the start of the
transaction. A resume that waited for the lock works with a time before that of
the transaction it waited for, and writes it as the cursor
(`recurrence.service.ts:323`): what lies between is accounted for, or sent, a
second time. From then on `RunsMatchLedger`, `DueSlotsAccounted`, the count of
`WithinTheLimit` and the ledger are not kept; the properties except exactly this
(`InOrder`).

*Sequences.* When `advanceEnrollment` throws, or the worker dies, after
`markDispatchCompleted` (`I/sequence-flow.ts:119`), the job runs again, but
`fetchDispatch` (75-78) asks for a running row, finds none and returns: the
enrollment stays active with nothing to come. The branch for a row that has
`completedAt` is never reached, though `sequence-flow.test.ts:202` tests it as
"idempotent re-delivery". It is the strand `"settled"`. The consumer
dying between claiming a row and adding its job (`"abandoned"`), and an edit that
deletes or disables the step a contact waits for, are others, and so is
a reactivation whose process dies after `contact-schedule.ts:421` has made the
enrollment active and before 439 creates its dispatch, or a bulk enrolment between
the two (`"no dispatch"`). A flow that throws after its first message is sent again
by the next attempt, as `flow.ts:590` says of a continuation. A contact that leaves
after `fetchDispatch` still gets that step. A contact
with a second inbox violates the unique key of its dispatch, which names no
inbox (`dispatch-manager.ts:44`).

*Smart delay.*
- `markStatus` (`smart-delay/service.ts:492`) is unconditional: a row cancelled
  between its insert and `markScheduled` is scheduled again and runs, against the
  comment at 106-109 that "a canceled row can never run"; one the scan's job
  already completed in between runs a second time once swept. The set `revived`.
- `claimForRun` looks at the status only: a follow-up armed again between a
  job's read and its claim is resumed at the earlier arming's time. The set
  `overtaken`.
- A follow-up is lost if `queue.add` fails after the claim (`follow-up.ts:116`),
  any of them if the worker dies after it or the hand-back fails. The set `lost`.
- A wait whose flow fails every time is swept and tried again for ever, and a flow
  that failed half-way starts again from its node, with the messages it had
  sent. Counted by `broke`.

*Orders.* A PayPal attempt the sweep marked expired and that is captured later is
not looked at by a cancel or delete, which ask for open rows. A
concluded order may be deleted while a duplicate's refund is pending. A crash
between a provider's refund and its record, or before `afterPaid`, is
not repaired by itself.

## 5. Proofs

TLAPS proves the following for every value of the constants, under the
assumptions the modules name (bounds are naturals, contacts are finite). The
models and the runs use the same definitions. Every invariant, action property
and refinement that a passing run checks is proved; the rest is liveness.

**`BroadcastPrepareProof`.** `TypeCorrect`, and, for `StaleUsers = {}` (finding 1
is the counterexample otherwise), `SendsToTheAudienceCorrect` and
`NoLeftoversScheduledCorrect`, from the invariant `AudienceInv`. That a
promotion is right depends on what the prepare has done, and that on which
schedule it belongs to, so the invariant says: a prepare in flight carries
the current epoch exactly when the row is still scheduled for it (`EpochInv`);
what an activation found still holds as long as its epoch pin does (`CheckInv`);
on a schedule, rows written and contacts left make up the audience
(`WalkInv`); and once the count is set nobody writes rows (`CountInv`).
`CountedCorrect` holds whatever requests are stale: a prepared broadcast that is
not deleted carries the number of its rows, since only the prepare that belongs to
the schedule promotes. So does `StaleRowsHaveACleanupCorrect`, from `CleanupInv`:
before the first move to draft there are no rows without a prepare that wrote them,
after it the only request of a stale prepare finds its own id free.

**`BroadcastDispatchProof`.** `TypeCorrect`, `OncePerEpochCorrect`,
`FailedMeansAllFailedCorrect`, `SettledNoRecipientLostCorrect` and
`QuietHandoffLeavesNonePendingCorrect`, for any contacts, batch size, epochs and
faults. Messages are counted by the jobs that have told the channel and the
attempts cut short after that, and jobs exist only for epochs that have begun
(`JobInv`); the broadcast's count covers its rows and a failure is final, so what
the finalizer counted still holds when it writes (`VerdictInv`). A driver that no
resume overtook works for the present epoch and has added a job for whoever it is
about to mark (`DriverInv`), so a marked row is accounted for (`LostInv`). If
every resume waited, older jobs have ended and the guard refuses none, so nobody
becomes pending again, and a batch that is not full holds everyone who is
(`QuietInv`).

**`BroadcastProof`.** The composition. The lemmas about each component are taken
over through `INSTANCE`, and what is new is that no step of one disturbs
the invariant of another. Before the promotion no driver, finalizer or send job
exists, so the dispatch begins where its own proof does, with the rows and
the count the prepare has left, whatever they are (`CountedInv`); after it nobody
writes rows, and the purge takes them only from what is deleted, which the dispatch
no longer touches or counts (`PipelineInv`, for any stale requests). Hence
`ImplementsLifecycleCorrect`, the refinement of `BroadcastLifecycle`, and the four
results of the dispatch, now of the pipeline; and an erased broadcast leaves no
rows (`ErasedLeavesNoRowsCorrect`). For `StaleUsers = {}`,
`SendsOnlyToTheAudienceCorrect` and `SendsToTheAudienceCorrect`: the dispatch
reaches only contacts with a row, and those are the audience.

**`BroadcastRecurrenceProof`.** All of it for any `MaxLag`. `TypeCorrect`,
`ArmedWhileRecurring`, `DeletedStartsNothing`, and `OnlyTheLatestIsSent`, which
says a run starts for the last slot that is due, but for slots that came due while
its transaction waited. The latter rest on `ArmedInv`: an armed series has runs
left, so what a catch-up looks for it finds. The other invariants,
`SentRunsNotSkippable` and `ImplementsLedger` hold until the cursor is set back
(`InOrder`): a wait that does not do that leaves them be. `SeriesInv` adds to the
properties that the ledger ends at the cursor, that the armed slot is the first
after it, that jobs are for slots that have come, and that an owed slot lies
between the cursor and now. With these, each catch-up settles slots after every
settled one and sends the last at most, which is what the ledger's step asks.

**`SequenceDispatchProof`.** `TypeCorrect`, `OneOpenDispatchCorrect`,
`UncutCompletedHasNothingOpenCorrect`, `InOrderAndOnceCorrect`,
`OneStepAfterLeavingCorrect`, `ActiveIsDrivenCorrect`, for any number of steps,
enrolments, edits, attempts and faults. The invariant comes in layers: which rows
and plans can exist at all (`StateInv`), what each phase of a worker implies about
its row (`WorkInv`), and, for an enrolment nobody cut short, that one dispatch at
most is open or driven, that nothing open lies behind the last step sent, and that
everything sent does (`LiveInv`). That a contact who has left gets one step more
at most rests on that one dispatch: once a message of it went out late, no other
send is under way and no row is left to begin one (`LateInv`). `ActiveIsDriven`
needs two more: rows and the last step counted lie behind what is under way, and a
completed enrolment stands past all its rows (`PastInv`), so a worker never finds
its enrolment advanced already and a reactivation finds its row's key free; and
each step hands on what drives the enrolment or records a strand (`DrivenInv`).

**`OrderPaymentProof`.** `TypeCorrect`, `PaidOrderHoldsItsMoneyCorrect`,
`CancelledOrderIsOverCorrect`, `OnlyACancelRefundsTheOrderCorrect`,
`ClosedOrderKeepsNoMoneyCorrect`. The invariant ties the payment status, the
order's status, the attempt rows and the refunds together: what pays an order
is one paid row whose page is paid, and rows other than it are never `paid`.

**`SmartDelayProof`.** `TypeCorrect`, `RunsOnceCorrect`,
`CompletedHasRunCorrect`, `RunsOnTimeCorrect`, for every scenario. The
invariant follows each arming: a resume job works on an arming of its own row,
whose time had come when it was read (`WorkerInv`); one that has claimed has its
row to itself, completed at an arming whose earlier flows all broke off (`ClaimInv`);
and an arming whose flow went through is the last of its row, which stays
completed (`RanInv`).

*Only model-checked:* the liveness properties, `DueIsPrepared`,
`EveryRecipientHandedOff`, `DeletedIsErased`, `DueReachesTheEnd`,
`DueSlotSettles`, `PendingIsTakenUp`, `UnstrandedCompletes`, `OverdueSettles`,
`ExtraMoneyGoesBack` and `DueSettles`: liveness under fairness is out of the
prover's reach.

## 6. Not modelled

- *Broadcasts.* Content, rates, rendering, the provider's side of a send; `resend`
  and the validation of `create` and `updateDraft`; overlapping runs of one handler
  (a stalled prepare beside its successor, a cron lock that expired); the hour after
  which a finished send job's id is forgotten; contacts deleted under way; plan
  limits, except that any activation may be refused.
- *Recurrence.* The arithmetic from a rule to instants (calendar, time zone,
  daylight saving); the cap on ledger rows; a template turned into a one-off; the
  skip of a tick when the queue is long.
- *Sequences.* Times, delays and send windows; more than one inbox; the
  cancellation of a blocked workspace's dispatches; retention; a second stall of a job
  (`maxStalledCount` 1), a stalled job beside its rerun; the retry set, which
  nothing fills. The gap between the reconcile's read and its add, and between a
  claim and its publish, are merged.
- *Smart delay.* Rows without a node, which the scan completes itself; several
  scans at once; batch caps; other nodes' rows; the drop of a blocked
  workspace's job; a second stall; retention.
- *Orders.* Announcements; cash on delivery; orders that cost nothing or are mirrored
  from Shopify; the reservation of stock and codes at placing; ratings and edits
  of the delivery.
- *Plan policy, quotas.* Counting under an advisory lock; their only effect
  on the parts above, a refusal or a dropped job, is allowed at any time.
- *The rest of the repository*, which is most of its lines: the web application,
  the channel adapters, AI and flow configuration, and CRUD services. They are
  sequential code over data or calls to others, and what they do to the parts
  above is done by the users, customers and providers of the models.

## 7. Plan

Done: the broadcast pipeline, recurrence, sequences, smart delays, payments, and
the proofs of section 5. Left, most important first:

1. Overlapping runs: two prepares, two scans.
2. The placing of an order: stock and discount codes reserved by several
   customers, with the counts given back by cancels.
3. The active-slot cap of the plan policy under its advisory lock.
4. Received messages: the challenge of a quick reply and the hand-over of a
   conversation, which cancel smart delays.
