# Blockwise: specifications, model checks and proofs

Blockwise sells rendered property ads to estate agents and publishes them to
Meta. The program is a Next.js application, a durable worker and a Postgres
database. What is hard about it is where a job, a request or a webhook does
something in another system and then writes down that it did: publishing a plan
to Meta and activating it, which spends a customer's money; the packs an ad is
paid from; Stripe's events; the leads that come back. This directory models those
with the job queue and the worker under them, checks them with TLC and proves the
main results with TLAPS.

Paths in this file are relative to the repository. `mig/` stands for
`supabase/migrations/`. An RPC is often replaced by a later migration; a module
follows the *last* definition.

Contents: [inventory](#inventory), [modules](#modules), [runs](#runs),
[fairness](#fairness), [proofs](#proofs), [findings](#findings),
[what is left out](#what-is-left-out), [plan](#plan).

## Inventory

### Job queue (modelled: `JobQueue`, `JobContract`)

- *State.* Table `job_queue`: status, kind, dedupe key, `attempts`,
  `max_attempts`, `run_after`, `lease_token`, `lease_expires_at`. A job of kind
  `publish.meta.execute` also moves `meta_publish_plans.status`.
- *Operations.* `enqueue_job_v2`, `cancel_job_v2`, `claim_job_v2`,
  `heartbeat_job`, `complete_job_v2`, `fail_job_v2`, `reap_stale_jobs`
  (`mig/20260802122856_job_queue_workspace_leases.sql`,
  `mig/20260803160000_prelaunch_tenant_and_queue_hardening.sql`,
  `mig/20260915130000_mautic_sync_durability.sql`).
- *Used by* every API route that starts asynchronous work, the worker, and
  scheduled maintenance.
- *Hard.* Reaper, heartbeat and settlement of one row race; a settlement may
  arrive after the row has been claimed again; three places compare `attempts`
  with `max_attempts`; a key may be enqueued in every phase of its row.
- *Correct when* only the latest claim can settle a row; a key has one live row,
  and a `mautic_sync` key one row for ever; the retry budget is spent exactly; a
  settled row is never touched again; each job is finished, withdrawn, or buried
  with its budget spent.

### Durable worker (modelled: `JobWorker`)

- *State.* Per process: the claimed job and token, the believed lease deadline,
  the heartbeat in flight, the outcome of the race, the shutdown flag
  (`worker/index.ts`).
- *Operations.* The claim loop, `runOnce` with handler, heartbeat, execution
  timeout and shutdown signal, the drain of a handler that lost its race,
  settlement, exit for restart.
- *Interacts* with the queue's RPCs only, each of which may fail, be answered
  late, be executed late, or lose its answer.
- *Hard.* The deadline is counted from a reply and the lease from its execution;
  the handler can outlive its lease; the process can die anywhere.
- *Correct when* a worker runs one handler; a live lease is not taken away; a
  job is completed only because the handler of its latest claim resolved; every
  job settles.

### Meta activation (partly modelled: `Activation`)

- *State.* `meta_publish_plan_mutations` (one row per client key: status, outcome,
  objects left unconfirmed), the execution lease on `meta_publish_plans`, the
  objects recorded on the plan, and what Meta holds.
- *Operations.* `activateApprovedAdBuilderPlan`
  (`src/lib/providers/adbuilder-activation.ts`), `executeMetaMutationById`
  (`meta-mutation-worker.ts`), the provider requests and the compensation
  (`meta-mutations.ts`), the RPCs `claim_`, `renew_` and
  `release_meta_publish_execution`, `ensure_meta_activation_mutation` and
  `finalize_meta_publish_plan_mutation`
  (`mig/202609030002_meta_publish_execution_leases.sql`), and the job
  `publish.meta.mutate`.
- *Callers.* The activate route, the publish job after a plan is paused_live, and
  the approvals route, which queues the job.
- *Hard.* Rows are read before the lease is claimed and used after it; a write
  that Meta applied may never be answered; the process may die between an ACTIVE
  write and the row that records it; the job takes no lease.
- *Correct when* one call executes at a time; a campaign that can deliver is
  always visible in some row; an activation that is over is not replayed;
  "activated" and "confirmed paused" are only said when true; every client is
  answered.

### Meta publishing (modelled: `MetaPublish`)

- *State.* The row of `meta_publish_plans` (status, provider objects recorded,
  logs, `updated_at`), the plan's `publish.meta.execute` job, the objects and the
  campaign's status at Meta.
- *Operations.* `executeMetaPublishPlanById` and the steps of
  `executeMetaPublishPlan` (`src/lib/providers/meta-publish-worker.ts`), the
  creation loop `publishWithMarketingApi` with its look-up by name and its
  checkpoint after every object (`meta-execution.ts`), the queueing and the watchdog
  `recoverStuckMetaPublishPlans` (`meta-publish-queue.ts`), the publish route's
  direct execution and its resume branch
  (`src/app/api/adbuilder/ads/[id]/publish/route.ts`), and what `fail_job_v2` and
  the reaper write to the plan.
- *Interacts* with the queue (one job per plan, modelled as `JobContract` states),
  with the free-live claims, and with activation (which here succeeds or throws).
- *Hard.* The executor may die between a creation and its checkpoint; a POST may
  have created something and not be answered; every write of the row is of the
  whole row, without a condition; a person can resume at any moment; an approval
  whose enqueue was lost has only the watchdog.
- *Correct when* no object is created twice, a row says "approved" only while Meta
  holds nothing of it, success is complete, and an approval is answered.

### Free-live claim registry (modelled: `FreeLiveClaims`)

- *State.* One claim per Meta account and the answers stored under mutation keys.
- *Operations.* reserve, consume and release
  (`mig/20260727023000_meta_free_live_claim_registry.sql`), called by the publish executor and by
  plans of other workspaces.
- *Hard.* A stored answer is given again after its claim was released.
- *Correct when* a claim is spent only on a campaign that went live.

### Credit ledger (modelled: `CreditLedger`)

- *State.* `workspace_credit_wallets` (one per entitlement period),
  `workspace_credit_ledger` (append-only, one row per mutation key),
  `workspaces.billing_access_state`.
- *Operations.* `grant_`, `reserve_`, `settle_`, `refund_` and
  `adjust_workspace_credits`
  (`mig/20260728090302_qualify_workspace_credit_wallet_updates.sql`), each under
  the workspace's advisory lock.
- *Hard.* Any call may be repeated or come late; settlement and refund of one
  reservation race; a new period supersedes a wallet on which reservations may
  still be open; corrections take credits away beside reservations.
- *Correct when* balances are those of the ledger; no wallet is overdrawn; a
  superseded wallet is closed.

### Ad pack entitlement (partly modelled: `AdPacks`)

- *Operations.* `POST /api/adbuilder/ads` (`src/app/api/adbuilder/ads/route.ts`,
  `src/lib/credits/ad-pack-entitlement.ts`, `create-customer-ad.ts`): reserve a
  pack, insert the ad, settle, or refund when the insert throws. Grants by the
  trial bootstrap, the first delivery, a paid Stripe invoice; corrections by an
  operator.
- *Hard.* Three round trips that may each fail before or after they commit, a
  retry or double click under the same Idempotency-Key, and a server that stops.
- *Correct when* an ad that exists is paid for, a pack is consumed only for an ad
  that exists, and a failed creation gives its pack back.

### Stripe billing and its announcements (modelled: `LeasedInbox`, `Billing`)

- *State.* A receipt per event (`stripe_webhook_events`: status, attempt, lease);
  the billing columns of `workspaces` (status, access, risk latch, period,
  `billing_event_created`); the credits granted per invoice; one `mautic_sync` job
  per stage of a subscription.
- *Operations.* The webhook route and `applyStripeBillingEvent` with a handler per
  kind of event (`src/lib/billing/billing-domain.ts`), the administrator's
  reconciliation (`src/app/api/settings/billing/reconcile/route.ts`), the claim and
  finish RPCs, the risk trigger and the grant of a paid period
  (`mig/20260727026000_billing_event_security_hardening.sql`), and the guard that decides whether
  a stage is still true when its mail is due (`src/lib/mautic/flows.ts`).
- *Hard.* Events come out of order, repeatedly, and again while an attempt is
  unfinished; an attempt outlives its lease; a handler makes several calls of which
  any may fail; the mail's job is queued before the row is written, and its guard reads
  the row before it sends; the ledger refuses a grant while a reservation is open.
- *Correct when* an event takes effect once and in the end, an older state does not
  replace a newer one, a dispute is not hidden by a recovery, a period is credited
  once, and a stage is announced only if the row came to show it.

### Lead sync and CRM delivery (partly modelled: `LeadFlow`)

- *State.* `leads`, `meta_leads` with the batch key and the marker of the
  announcement, `lead_crm_delivery_jobs`, the commands the CRM has executed, and the
  jobs `sync.meta.leads`, `deliver.lead.crm` and `mautic_sync`.
- *Operations.* `syncMetaLeadsForPlanById` and `upsertLead`
  (`src/lib/providers/meta-leads-worker.ts`), the leads page's own sync
  (`src/app/api/leads/sync/route.ts`), the announcement of pending batches,
  registration and delivery (`src/lib/crm/delivery.ts`, `delivery-worker.ts`), the
  schedule (`scheduled-maintenance.ts`).
- *Interacts* with the queue (`JobContract` states), Meta's forms and the CRM.
- *Hard.* The inserts of a lead are not one transaction and some of their errors are
  not read; effects precede the writes that record them; the page syncs beside the
  job; delivery states are written without a condition.
- *Correct when* a lead is captured once, is announced once and in the end, and a
  failed delivery is tried again.

### Not modelled

| Component | State and operations | Why not |
|---|---|---|
| Booking webhooks (`src/app/api/booking`) | A leased inbox like Stripe's and an upsert of bookings | `LeasedInbox` is written for both; the second user is next in the plan |
| Transactional e-mail outbox (`mig/20260903010000`) | Batch claim, five minute lease, mark sent | Planned: a sender slower than its lease sends twice |
| Lead delivery (`lead-delivery-worker.ts`) | A POST, then a status write | A relative of CRM delivery without its derived command; see [findings](#findings) |
| Ad revisions, invitations and seats, image uploads | One locked RPC per operation | Planned, small: the stale writer is refused; seats are not exceeded |
| Scheduled maintenance | Calls the reaper and the watchdog, enqueues the rest | Its reaper is in `JobQueue`, its watchdog in `MetaPublish`, its lead sync in `LeadFlow` |
| Video fulfilment, milestones, trial state, rate limiting, provider cost accounting | Single-row records and upserts | Little beyond the queue: a model would restate one statement |
| Reporting, provider connections, data deletion, owner CRM, research, ad content, AI model control, user interface, infrastructure | Reads, mapping, presentation, configuration, calls to other services | No state machine of the program's own |

`PROJECT.json` lists every component with its sources and, under `hazards`, each
hard place at its line with the properties that would catch it going wrong.

## Modules

```
JobContract        what the queue promises about one job
   ^ refined by
JobQueue           the table and its RPCs, any caller     <- JobQueueProofs
   ^ extends                                              <- MCJobQueue
JobWorker          the worker processes as its caller     <- JobWorkerProofs
                                                          <- MCJobWorker

FreeLiveClaims     the claim registry, any caller
   ^ extends
MetaPublish        plan, executor, route, watchdog, Meta  <- MetaPublishProofs
                   (its job is a JobContract)             <- MCMetaPublish

Activation         calls, mutation rows, lease, Meta      <- ActivationProofs
                                                          <- MCActivation

CreditLedger       the ledger's RPCs, any caller          <- CreditLedgerProofs
   ^ extends, refines
AdPacks            the route, webhooks, operator          <- AdPacksProofs
                                                          <- MCAdPacks

LeasedInbox        receipts of webhook events
   ^ extends
Billing            events, row, credits, announcements    <- BillingProofs
                                                          <- MCBilling

LeadFlow           syncs, announcements, CRM deliveries   <- LeadFlowProofs
                   (its jobs are JobContracts)            <- MCLeadFlow
```

The queue and the ledger are each specified twice: once under any caller, which
is where their own guarantees are checked and proved, and once under the callers
the program has. The job of a plan and the jobs of a lead are not modelled again:
`MetaPublish` and `LeadFlow` move them by the actions of `JobContract`, which
`JobQueue` is proved to implement. Some definitions are preceded by one whose
comment begins with "Slip": a plausible mistake in the definition that follows,
kept to show which property the mistake would break. Slips are used by no
specification.

A step is one transaction or one round trip. RPCs lock the rows they read
(`for update`, or the workspace's advisory lock), so an RPC is one action; a
TypeScript function is as many actions as it awaits calls that touch shared
state, since anything can happen in between.

### JobQueue

| Variable | Code |
|---|---|
| `jobs[j]` | a row of `job_queue`: `status`, `kind`, `key` (`dedupe_key` with the workspace), `attempts`, `max` (`max_attempts`), `delay` (`run_after - now()`), `lease` (`lease_token`), `ttl` (`lease_expires_at - now()`) |
| `plans[p]` | `meta_publish_plans.status` of the plan a publish job names |

| Action | RPC |
|---|---|
| `Enqueue` | `enqueue_job_v2`; its conflict target is `Conflicts` |
| `Cancel` | `cancel_job_v2` |
| `Claim` | `claim_job_v2`, with the kind priority and `SKIP LOCKED` |
| `Heartbeat`, `Complete`, `Fail` | `heartbeat_job`, `complete_job_v2`, `fail_job_v2`, all behind the row lease check `Owns` |
| `Reap(S)` | `reap_stale_jobs` over the rows it can lock |
| `PlanWritten`, `Tick` | every other writer of a plan's status; the clock |

Abstractions. Time is in ticks, and a lease or a delay is the time left of it. The
uuid of a lease is the attempt number of its claim, which identifies the same
claim. Among eligible rows of equal priority the code takes the oldest and the
model any. `fail_job_v2` fails an approved plan with its job and leaves a
publishing one alone, while the reaper fails both; the model keeps that
difference.

### JobWorker

`wk[w]` is what a process knows, `handlers` the handler calls that still run
(one can outlive its claim), `late` the requests whose caller gave up on them and
which the database may still execute, `succeeded` a history of the claims whose
handler resolved. The steps of `runOnce` are `ClaimJob`, `ClaimReply`,
`HeartbeatSend` to `HeartbeatError`, `HandlerEnds`, `Timeout`,
`HeartbeatStopped`, `Drained`, `DrainTimeout`, `SettleExecute`, `SettleError`;
`Shutdown`, `Crash` and `Restart` are the process. A claim and a heartbeat are
executed and answered in two steps, because the believed deadline starts at the
answer; for a settlement only its execution matters.

### Activation

`rows`, `latest` and `lease` are the database, `shown` the plan's recorded
objects, `meta` the configured status Meta holds for each object, `pc` and `ctx`
the program counter and the local variables of each call. One action per awaited
statement: `Start` and `ReadExisting` are the reads before the claim, `Claim` and
`ClaimUnanswered` the lease, `Quarantine` and `Canonical` the handling of a row
left applying, `Ensure`, `Renew` and `MarkApplying` the way into the executor,
`Preflight` to `VerifyActive` the provider requests, `CompensatePause` and
`VerifyPaused` the compensation, `Finish`, `MarkUnconfirmed`, `AssertOwned`,
`WritePlan` and `Release` the end. A provider write (`Post`) may be refused,
applied and answered, or applied and not answered.

A constant states timing the code relies on and does not enforce. `OnTime`: a call
that has claimed the lease does not outlive it. The lease is 600 seconds and renewed
around every provider request; a request times out after 30 and the compensation after
90. Both runs assume it.

The code reads its rows before it claims the lease and does not read them again
(`adbuilder-activation.ts:47-97` and `:135`), so a whole execution can fit in between.
The model lets it, and the history variable `overtaken` records that a call has claimed
the lease having seen no row that had begun while one has. This is a hole in the code,
and four properties except it explicitly: what they say is that nothing else leads to a
silent spend, a replay or a false reply. TLC refutes each of the four without the
exception.

### MetaPublish and FreeLiveClaims

| Variable | Code |
|---|---|
| `row[p]` | the row of `meta_publish_plans`: its status, how many objects it records, and whether its logs speak of a POST that may have created something |
| `job[p]` | the latest `publish.meta.execute` job of the plan, a `JobContract` row |
| `pc`, `seen`, `have`, `may` | the executor: where it is, the row it loaded, what it has recorded and logged since |
| `claim`, `consumed`, `key`, `used`, `current` | the registry, the answers stored under the mutation keys the row's `updated_at` leads to, and whether the row has been written since it was loaded |
| `made`, `campaign` | how often Meta created each object; whether the campaign delivers |
| `asked` | the failed row a publish request has read and not yet acted on |

The executor is `Take`, `Reserve`, `Proceed` or `Refused`, `Begin`, then per object
`Locate` (adopt what is recorded or found by name, else post), `Post` (refused,
created and answered, or created and not answered) and `Checkpoint`, then
`AllThere`, `Verified`, and by the outcome `RecordObjects`, `RecordFailure`,
`Quarantine`, `Release` and `Retry`, or `Activate`, `Consume`, `Complete` and
`Finish`. Every write of the row may be lost. `Abort` is the job's signal, `Gated`
an execution with provider writes disabled, `Crash` the process, `JobDone`,
`JobFails` and `Reap` the queue. `Ask`, `Reopen` and `Resume` are the route's resume
branch in the three round trips it takes, `Direct` to `DirectEnds` its own
execution. `Approved` is the queueing of an approval by the request or the watchdog.
Objects are numbered in the loop's order, so what is recorded is a number.

### Billing and LeasedInbox

`receipt`, `owner` and `leased` are the receipts, `ws` the billing columns, `credits`
and `wallet` the paid periods, `held` whether a reservation is outstanding on the
active wallet, `mail` the job of each stage, `cleared` the stages an execution of the
job has cleared and not yet sent, `told` those Mautic has been told of, `shown` a
history of the stages the row has shown since they were asked for, `at` the handlers,
`written` a history of the events whose patch reached the row, `hushed` the
events answered 200 as duplicates of an attempt that was not over. `Deliver` claims
an event, `Duplicate` is turned away; a handler goes on with `ReadContact` and
`AskStage` (the announcement, which is queued before the row is written), `Update`
(the patch behind the high-water mark, through the risk trigger), `Grant`, and
`Finish` or `Fail`. `StepFails`, `Crash` and `Expire` are its faults. `Fetch` and
`Stamp` are the reconciliation, which reads Stripe first and takes its time after.
`Grant` credits a paid period, keeps quiet when it already has or is too late, and
raises when the wallet it would supersede has a reservation outstanding (`held`, moved
by `Reserve` and `Release`); a grant that raises fails the event, and does so on every
retry while the reservation stays. The announcement's job is `Judge` (the guard's read
of the row), then `Announce` or `Unsent`, a step of its own: in between the row may
change, the answer of a send may be lost, and the job is then judged and sent again;
`GiveUp` is its last attempt. A `deleted` event is a kind apart from other snapshots,
because `setSubscriptionStage` asks for the event's type: a reconciliation of a canceled
subscription is typed `customer.subscription.updated` and does not announce
`cancelled` on that account.

An event's content is one of a few kinds with the fields its handler reads. The
webhook's scripts are given by `Scripts`; within a script any order, overlap and
repetition is explored.

### LeadFlow

`form` is what Meta lists, `rows` and `linked` the two tables, `batch` and `marked`
the columns of `meta_leads`, `announced` the permanent receipts of the announcements
that are queued, `crm` the delivery rows and `enquiries` the commands the CRM has
executed. A sync is `SyncJob` (the job) or `Refresh` (the page), then per lead `Look`,
`Insert`, `Link`, `Register` and `EnqueueCrm`, and at the end `Pending`, and per batch
`Fire` and `Mark`; a delivery is `Load`, `Capture` and `Record`. `CallFails` and
`DeliveryFails` are errors before or after the call took effect, `Crash` a death,
`Stumble` a handler that claims a job and whose first read fails, so that the attempt
ends in an error (it counts as a failed call). `Submit`, `Age` and `Schedule` are the form, the seven days a
scheduled sync asks for, and maintenance.

### CreditLedger and AdPacks

A wallet is its period; `status`, `granted`, `reserved`, `consumed`, `expired`
are its columns. `ledger[k]` is the row under mutation key `k`, and a reservation
is its key. `over` are the periods that have ended and `billing` the workspace's
billing state, seven values as three. A call whose key is in the ledger replays
or raises, and a call that raises is rolled back, so an action is a call that
changes something. Every reservation is of one pack (`CREDITS_PER_AD_PACK`) and
is closed whole, as its one caller does it.

`AdPacks` adds `pc[r]` of each `POST`, the ads that exist by their creation key,
and whether the first delivery has happened. Each request reserves (`AskPack`,
`AskLost`), creates (`CreateAd`, `CreateFails`: the insert may have committed),
settles (`SettlePack`) or refunds (`RefundPack`, `RefundLost`), and may stop
anywhere (`Crash`). `RefundKey` is the key the route refunds with.

## Runs

A passing run explores every reachable state of its instance; each property also
has a mutant, a plausible mistake in a definition (a "Slip" above) under which the
same run finds it violated.

| Run | Instance | Checks | Distinct states |
|---|---|---|---|
| `queue` | 2 rows, 1 key, kinds `publish.meta.execute` and `mautic_sync`, budgets 1 and 2, delays 0 and 1, leases 1 and 2 ticks, backoff capped at 3 | `TypeOK` `LatestClaimOwns` `DedupeHolds` `BudgetSpentExactly` `SettledForGood` `ImplementsContract` | 10 thousand, up to symmetry |
| `worker` | 2 replicas, 1 job of 2 attempts, lease 2, request timeout 1, 1 late request | `OneHandlerPerWorker` `LiveLeaseIsNotStolen` `CompletedOnlyBySuccess` | 700 thousand, up to symmetry |
| `worker_live` | 1 worker, 2 jobs of 2 attempts | `EveryJobSettles` | 218 thousand |
| `publish` | 1 plan of 2 objects, approved or not, free or not, 2 attempts, 2 publish requests, 1 gated execution, 1 rival for the claim | `TypeOK` `QueuedObjectsOnce` `ApprovedIsClean` `SuccessIsComplete` `SpentOnLiveCampaign` `ApprovalIsAnswered` | 313 thousand |
| `activation` | 2 calls with keys of their own, a campaign and a child object, 2 faults, 2 crashes | `TypeOK` `OneExecutor` `NoSilentSpend` `NoReplay` `ActivatedIsTrue` `ConfirmedMeansPaused` | 2.8 million, up to symmetry |
| `activation_live` | a call and a mutate job, a campaign the plan does not own, 1 fault, 1 crash | `ClientIsAnswered` | 190 thousand |
| `ad_packs` | a request, its retry under the same key, another request; a trial of one pack and a paid period of two; one correction | `BooksBalance` `NeverOverdrawn` `SupersededIsClosed` `AdsArePaid` `ChargedOnlyForAds` | 383 thousand, up to symmetry |
| `billing` | 10 scripts of 2 or 3 events, 2 handlers, 3 times, 1 fault | `RiskAnswered` `NewestSnapshotShown` `SettledHasEffect` `CreditedOnce` `ToldWasShown` `EventTakesEffect` | 321 thousand |
| `leads` | 2 leads, 2 handlers, 2 attempts, 1 disturbance, of 4 kinds | `MarkedIsQueued` `AnnouncedOnce` `CapturedOnce` `RowsExplained` `EveryLeadAnnounced` `FailedIsRetried` | 455 thousand |
| `publish_direct`, `ad_packs_refund`, `billing_refund` | see [findings](#findings) | one property each, which does not hold | |

Why the bounds are enough for the cases that matter:

- *queue.* Two rows are what a key needs to conflict with itself, and what a
  priority needs to order; with a budget of 2 a row is retried and then buried,
  with a budget of 1 buried at once. The token of a stale caller is any of the 25
  attempt numbers `max_attempts` can reach, whether minted or not.
- *worker.* With one job of two attempts and two replicas the second attempt can
  run beside the orphaned first; a lease of 2 ticks and a timeout of 1 separate a
  heartbeat in time, one too late to retry, and a lease that is over. One late
  request is enough for a settlement or a heartbeat of the first attempt to reach
  the row of the second. The worker's jobs have no key: what a key does is
  `queue`'s subject.
- *worker_live.* Two jobs, so that a worker that is busy again and again with one
  might starve the other.
- *activation.* Two calls suffice for a call to overtake, to find what the other
  left and to lose its lease; two faults and two crashes let one call lose its
  outcome and the one that recovers it fail as well. One child and the campaign
  distinguish "a child is active and the campaign is not", the state the guard
  and the order of writes are for. Provider requests may fail at every step
  without a bound.
- *publish.* Two objects are what a death between a creation and its checkpoint
  needs: one that exists and one still to come. Two attempts make the second the
  one that reconciles, and spend the budget; two requests let one read the failed
  row and act after the other has. One rival takes the claim in between. Crashes,
  lost writes and unanswered POSTs are not bounded.
- *ad_packs.* Two requests of one key are a retry or double click; the third
  competes for the last pack. A trial of one pack and a paid wallet of two meet the
  boundary "exactly a pack left" from both sides, beside a correction. No refund ever
  succeeds in this run (the route's key is refused, see [findings](#findings)), so a
  settlement racing a refund is covered by the theorem `BooksAlwaysBalance`, not here.
- *billing.* A property about order needs two events, one about recovery three (a
  refund, a snapshot, a payment). The scripts pair each kind with what could hide
  or repeat it, with equal times and with a reconciliation; `Impatient` names the
  event that Stripe also sends again while an attempt is unfinished. One fault (a
  failed step, a crash or an outlived lease) together with two handlers is a
  takeover. Reservations open and close at any moment at which a payment can still
  meet them. A period is granted before it is over, and no script pays one period with
  two invoices.
- *leads.* Two leads make a batch that can grow; lead 1 can leave the schedule's
  window. Two handlers are a page beside the job, or a job beside its own outlived
  handler. `MaxFaults` bounds the sum of all kinds, so a behaviour has one disturbance:
  an insert that fails unnoticed, or a sync that begins beside another (no failure, but
  counted with them), or an outlived lease, or a failed call or death. What takes two
  of them, as a delivery's late error after an outlived lease does, is not reached;
  the theorems hold for any number.

Deadlock is checked in the queue, worker and ad pack runs. The others really end:
a call returns, a plan is published, every event and lead has been dealt with.

## Fairness

`worker_live` (`JobWorker!Fairness`) assumes that time passes, that the host
restarts a dead process, that every RPC ends in a reply or an error, that the
execution, drain and request timers fire, that an idle worker eventually polls
(strong fairness: `Shutdown` and other jobs may disable the claim in between), and
that each stale row is eventually reaped (every replica and scheduled maintenance
call the reaper on a timer). It assumes nothing of handlers, heartbeats or the
success of any request: a handler may hang for ever and the job still settles.
A crash and a lost claim may recur, but each costs an attempt, so they end.

`activation_live` (`Activation!Fairness`) assumes that a call runs to its end
unless its process dies, that a client told "activating" or given an error asks
again with the same key, as the code's reply tells it, and that the lease
expires. Faults and crashes are bounded in that run, so it says that a client is
answered once they stop.

`publish` (`MetaPublish!Fairness`) assumes that an approval is queued, by its request
or by the watchdog; that a waiting job is taken; that an executor goes on or dies;
and that a job is reaped when its executor is gone. Meta may refuse or not answer
every request and every write may be lost: the job's budget ends the attempts.

`billing` (`Billing!FairSpec`) assumes that a handler at work goes on, that a lease
passes, and that Stripe sends again what it has not had a 2xx for: strongly, because
the two handlers of the instance are busy again and again, which any number of web
requests is not. It does not assume that Stripe repeats an event it was answered 200
for, and nothing of reservations: one may stay open for ever, which is why
`EventTakesEffect` excepts a payment whose credits meet one.

`leads` (`LeadFlow!FairSpec`) assumes that maintenance comes round, that a waiting job
is taken (for each lead's own job strongly: the queue takes the oldest first, and a
handler busy with another job is free again and again), that a handler goes on, and
that the lease of a dead handler passes.

## Proofs

All by TLAPS, for every value of the constants.

**JobQueueProofs.** `IInv` is inductive: `RowInv` of every row, the type of
`plans`, and `DedupeHolds`. `RowInv` ties a row's status to its lease, attempts
and budget, and holds of one row alone, so the proof is in two halves: lemmas say
what each row operation (`Fresh`, `Taken`, `Settle`, `Retry`, ...) does to a row
that satisfies it, and each action only picks rows. `DedupeHolds` needs both that
an enqueue conflicts and that no other step makes a settled row live. From it:
`QueueTypeCorrect`, `LatestClaimOwnsAlways`, `DedupeAlways`,
`BudgetSpentExactlyAlways`, `SettledForGoodAlways`, and
`QueueImplementsContract`, the refinement of `JobContract`, in which every action
is a `Step` of the rows it changes and a stutter of the others.

**JobWorkerProofs.** `WorkerImplementsQueue`: `WSpec` implies `JobQueue!Spec`, so
the theorems above hold of the queue with its real caller. The one thing to show
is that a request, however late, carries a job and a token the RPC can be called
with. The worker's own safety rests on `WInv`, the queue's `IInv` and

- `ProcessesInv`: what one process knows agrees with where it is (it has a job
  when busy, a heartbeat only while running or stopping, a result only after the
  race);
- `HandlersInv`: a running handler is its process's current call, and that
  process is still before settlement; `OneHandlerAlways` follows at once, since a
  process has one current call;
- `SuccessInv`: a result `ok` and a late `complete` both name a claim whose
  handler resolved;
- `ClaimsInv`: no token is ahead of its row's attempts, two busy processes never
  hold the same claim, and no settlement of a claim is on its way while its
  process still works under it.

`ClaimsInv` is the heart: a token is new when it is claimed because attempts only
grow (`AttemptsGrow`, `ClaimIsNew`), and every other step of a process only keeps
or gives up the claim it has (`ClaimShapeHolds`). `RowLost` then says how a
processing row can leave its owner at all: the reaper when the lease is over, or a
settlement carrying its token. With `SuccessInv` that gives `CompletionIsEarned`,
with `ClaimsInv` `LiveLeaseIsKept`.

**ActivationProofs.** `OneExecutorAlways`: if calls end within their lease
(`OnTime`) and no mutate job runs (`Jobs = {}`), at most one call executes,
however many calls, rows, faults and crashes there are. `OneExecutor` is not
inductive: nothing in it says that the call inside has the lease the next claim
looks at. `LeaseHeld` does (a call between claim and release owns a live lease),
and is proved in `LeaseHeldAlways`.
`ActivationTypeCorrect` assumes no timing at all.

The other safety properties of the run are theorems under `OnTime` and
`Jobs = {}`, the assumptions it is checked with: `NeverSpendsInSilence`,
`NeverReplays`, `ConfirmedAreTrue` and `ActivatedIsTold`. None of them is inductive.
`SpendInv` is: at most one row has begun, the one written last (`Sole`); an object
delivers only under such a row (`Covered`) and all of them are active under an applied
one (`AppliedTrue`); the row of a call at work is the
applying one (`Tried`); and what a call has read back of Meta is still so, since with
`LeaseHeld` nobody else writes there (`SeenActive`, `SeenPaused`, `Concluded`).
All this holds until a call is overtaken (`UntilOvertaken` is `~overtaken => SpendInv`):
a claim that finds a row begun which its reader had not seen sets `overtaken`
(`ClaimsAreOvertaken`), nothing else does (`OnlyOvertaken`), and every other claim starts
from rows of which none has begun, or from the one it must quarantine. `NeverReplays`
then says what the code really gives: the only way to a replay is an overtaken call.

Neither the two assumptions nor the exception are for the proof's convenience. With any
one dropped TLC violates all four of these properties on the run's instance (and
`OneExecutor` without `OnTime` or with a mutate job): a call that outlives its lease, or
a mutate job beside it, writes where another has read.

**CreditLedgerProofs.** `LedgerInv` is inductive: the types, `Entries` (a closing
row names a reservation of its own wallet, and a reservation a wallet that
exists), `Untouched` (a wallet that was never granted is empty), `OneActive`,
`Closed`, `BooksBalance` and `NeverOverdrawn`. The balances are counted:
`BooksBalance` equates columns with cardinalities of sets of ledger rows, and the
lemmas `NeutralRow`, `ReservationRow` and `ClosingRow` say how one more row moves
those sets. `NeverOverdrawn` alone is not inductive, since a settlement takes
from `reserved` what only `BooksBalance` knows to be there. From it:
`LedgerTypeCorrect`, `BooksAlwaysBalance`, `WalletsNeverOverdrawn`,
`SupersededAlwaysClosed`.

**AdPacksProofs.** `CallersUseTheLedger`: the route, bootstrap, webhook and
operator implement `LedgerSpec`, so the four theorems above hold of the program
with its callers. `AdsAlwaysPaid`: no ad is free. Its invariant `PaidInv` contains
`NoRefunds`, because the route's refund key is one the ledger refuses (see
findings): ads are paid for partly because nothing is ever given back. If the key
is repaired, `NoRefunds` no longer holds and the proof has to show instead that a
refund cannot meet an ad that exists. The mutant that repairs the key alone
violates `AdsArePaid` (a failed request refunds the pack its retry has used), so
the repair needs more than a new key. `ChargedAlwaysForAds`: no pack is consumed
without its ad. `ChargedInv` says that a settlement in the ledger is that of an ad
that exists, under its reservation; the rest counts: settlements map into the ads
one to one, and `BooksBalance` turns the cardinalities into the column.

**MetaPublishProofs.** `PublishTypeCorrect` first, split by the part of the state.
`ApprovedPlansCreateOnce` and `ApprovedRowsAreClean` have one argument: Meta's
objects of an approved plan are exactly the first so many, each once; what is not
yet on the row is known to somebody, either an executor that has not written it
down or a row that says publishing, whose next attempt looks everything up. So a
row can say approved, and an attempt can post without looking, only while there is
nothing to find. `SuccessAlwaysComplete` and `ClaimSpentOnLive` follow the last
steps: a row is written paused_live only after the executor has found all objects,
and a claim is consumed only after its campaign was activated, which nothing undoes.

`ApprovalAlwaysKept` is the safety half of `ApprovalIsAnswered`: a row never says
approved once its job has settled, so an approval has a job, or none yet and the
watchdog makes one; and a job that is done has left its plan failed or paused_live,
unless a request came in between (a resume that finds the job about to end enqueues
nothing and leaves the plan publishing, see below). `Answering` says that an executor
at work owns the job (`Manned`), in which stages it may find its row approved
(`Opened`), and, while nobody has asked, that the row is what the executor loaded or
wrote (`Loaded`, `Told`).

**BillingProofs.** Two facts carry everything: only an event without a receipt can
still change its content (a reconciliation being fetched), and only a handler that
has claimed its event writes with it. So what the row was written from stays as it
was. `RowInv` (`Marked`, `Latched`, `PaidFor`, `NewestSnapshotShown`) relates the row
to the events in `written`: the high-water mark is the time of the last, a risk is
latched until a payment no older than it, and access follows. From it
`RiskIsAnswered` and `StatusIsNewest`; `CreditsOnce` from the mutation key;
`OnlyShownIsTold` from the guard and the history: a stage an execution has cleared was
shown by the row when the guard read it, and what has been shown stays so in `shown`
whatever the row becomes before the send (`Shows`). That the row still shows a stage when
Mautic is told is false, and is not claimed.

`SettledIsEffective`: an event that settled has had its effect. `SettledInv` adds that
the row shows a period some written event named (`PeriodShown`) and that a handler
past a stage has done what the stage does (`Behind`), and its proof needs that what is
done stays done, whatever is written later. That is true only of the right notion of
outdated: a reconciliation whose answer was fetched early and stamped late can set the
row's period back, so `Effective` says that a later period *has been* in the row or in
the wallet (`Outdated`), where the guard in the code asks what is there now
(`Superseded`). `SettledIsFinal` is the action property: settled stays settled, and
stays in effect. `OwnersAreAtWork`: the owner of a receipt is at work on that event,
and the receipt says so; one that nobody owns waits for its lease at most.

**LeadFlowProofs.** `LeadInv` adds to the types what a handler carries from step to
step: the batches it has listed are disjoint (`Apart`) and the one it is about to mark
is queued (`Ready`), for `MarkedIsQueuedAlways`; every command the CRM executed is the
lead's own (`Own`), a handler about to write "delivered" has made one (`Caught`), and a
row that says so too (`Shown`), for `CapturedOnceAlways`. Both hold for any number of
leads, handlers and faults.

`RowsExplainedAlways` counts. `RowsInv` adds to a lead's rows the handlers that have
looked it up, found nothing and may yet insert it; the sum grows only with a call or a
handler that leaves a row without its `meta_leads` row, or with a sync that begins beside
another, which takes no failure: the code stores a lead twice then. What the theorem
excludes is a row from any other source, repeated syncs, retries and outlived leases.

`AnnouncedOnceAlways`: batches are computed anew by every sync, so what has to be shown
is that they come out the same. `OnceInv` holds as long as no insert of a `meta_leads`
row failed unnoticed and no sync began beside another (`Undisturbed`). Syncs then
follow one another (`Alone`), and a batch is `Fixed` once each of its leads is linked or
has left the window for good; a sync has linked what it went through (`Past`), with all
that is recent of earlier batches (`Met`), so every batch is fixed when it is listed,
queued and marked (`ListedWhole`, `ToldWhole`, `MarkedWhole`), and two announcements of
one lead are the same batch. Both exceptions are needed: TLC finds a second announcement
with overlapping syncs alone, and with one unnoticed failure and one lost marker.

`FailedHasItsJob` is the safety half of `FailedIsRetried`: as long as no handler
outlives its lease (`InTime`), a delivery's job is done only when its lead was
delivered, and a failed delivery has a job that waits, is at work, or has used up its
attempts. `WorkInv` says that whoever is at work owns its job (`Holding`).

*Only model-checked:* liveness (`EveryJobSettles`, `ClientIsAnswered`,
`ApprovalIsAnswered`, `EventTakesEffect`, `EveryLeadAnnounced`, `FailedIsRetried`),
which TLAPS does not do here. Every safety property a passing run checks is a theorem.

*Only proved:* the type invariants `WorkerTypeOK`, `AdTypeOK`, `LeadTypeOK` and
`Billing`'s `TypeOK`, which no run checks any more since their theorems
(`WorkerTypeCorrect`, `AdTypeCorrect`, `LeadTypeCorrect`, `BillingTypeCorrect`) hold
of every instance; and the safety halves of liveness properties that the proof modules
state themselves (`ApprovalIsKept`, `NoDeliveryForgotten`, `Attended`), with
`SettledForGood`. TLC found no violation of these or of what their proofs rest on.

The assumptions on constants are in the named `ASSUME` of each module; TLC
evaluates them in every run.

## Findings

Three runs check what a comment or a test says and find that the code does
otherwise.

- `publish_direct`. `publish-adapter.ts:813-815` says publishing a frozen revision
  again "never duplicates objects". Only the queued executor looks objects up by
  name (`meta-publish-worker.ts:231`). A direct request that dies between a creation
  and its checkpoint is followed by one that adopts the row, looks nothing up and
  creates the object again.
- `ad_packs_refund`. `ad-pack-entitlement.ts:29-30`: a reservation is "refunded if
  the ad creation fails, so an abandoned request never consumes a pack".
  `ads/route.ts:66` passes the reservation's own mutation key to the refund RPC,
  which finds that key under a row of another type and raises; the error is
  logged and the pack stays reserved. While it does, the next paid invoice cannot
  be granted either, since a wallet with reservations outstanding is not
  superseded; `EventTakesEffect` excepts the payments this happens to.
- `billing_refund`. `tests/progressive-billing.test.ts:456`: "full refunds and disputes
  suspend new paid access". `updateWorkspace` (`billing-domain.ts:459`) drops an event
  older than the row whatever it says, and the event is then settled as ignored. A
  refund that is delivered after a newer subscription event is never latched.

Other disagreements met while modelling. They have no run of their own; some are
steps the models take, so that the passing properties hold in spite of them.

Worker and activation:
- `worker/index.ts:722` says replicas run "without double-processing". The lease is
  counted from a reply that arrives after it began, so two handlers of a job can be
  at work at once; the fence keeps the settlement right, and handlers have to be
  idempotent.
- `adbuilder-activation.ts:153-154` excludes "replaying ACTIVE writes", but the rows are
  read before the lease is claimed: a call overtaken by a whole execution writes ACTIVE
  again (`overtaken`).
- `publish-adapter.ts:1221-1222`: receipts "never claim a confirmed pause that could not
  be verified". A mutate job that died after its ACTIVE writes and fails early when
  it is run again records `confirmed_paused` (`meta-mutation-worker.ts:145`).
- A lost reply of `finalize_meta_publish_plan_mutation` makes the executor overwrite
  the outcome that was committed (`meta-mutation-worker.ts:172`); the mutate job
  executes without the lease; "paused" is answered from an old row of the caller's
  key while another key's execution delivers (`adbuilder-activation.ts:113`); a write
  Meta applies after the compensating pause was read back is never seen
  (`meta-mutations.ts:535`).

Publishing:
- `updateMetaPublishPlanExecution` (`meta-execution.ts:688`) writes the whole plan
  without a condition, so an executor that lost its lease overwrites its successor.
- The claim is released on a failure although an object that was created and not
  recorded may exist (`meta-publish-worker.ts:44-49`).
- The reserve's mutation key is built from `updated_at` (`meta-publish-worker.ts:447`):
  after two lost plan writes a reserve is answered from memory although its claim
  was released, and two campaigns can go live free.
- A resume while the old job settles finds it active and enqueues nothing.

Credits and billing:
- A refusal is stored with its mutation key and answered again after credits arrived
  (`mig/20260728090302:265`).
- A delivery repeated while the lease of a dead attempt stands is answered 200
  (`billing-domain.ts:44`), after which Stripe has no reason to send it again. These
  events are `hushed` in `EventTakesEffect`.
- A reconciliation reads Stripe first and takes its time after
  (`billing-domain.ts:82`), so an older snapshot can carry a newer time.
- A stage is sent after its guard has read the row (`flows.ts:137`, `:150`): a stage the
  row no longer shows can be announced. A send whose answer is lost is sent again, and
  writes its stage again when Mautic has set the field to "done" meanwhile
  (`contacts.ts:57-66`).
- A dispute that was won keeps its workspace "disputed" until an invoice is paid.
- A stage that was skipped, or announced in an earlier subscription, has used up
  its permanent receipt (`flows.ts:249`, `mig/20260915130000:34-40`).

Leads:
- An error or death between a lead's insert and its registration for the CRM loses
  the registration: the next sync finds the lead and stops there. The comment at
  `meta-leads-worker.ts:288-290` relies on a backfill, which no caller asks for. A
  registered row whose enqueue failed waits for ever.
- The page's sync and the queued one can both find a lead missing
  (`leads/sync/route.ts:71`) and insert and announce it twice, with no failure at all;
  no property forbids it: `AnnouncedOnce` excepts this case, and `RowsExplained` only
  bounds it by one row for each sync begun beside another.
- A late error of an outlived handler replaces "delivered"; the queue does not retry
  it, because the job it belongs to is done. `FailedIsRetried` excepts this case.
- A destination that answers with an error is not tried again, though
  `lead-delivery-worker.ts:5` says so; a POST whose status write was lost is repeated
  (`lead-delivery-worker.ts:86`).

## What is left out

Components without a module are in the inventory, with reasons in `PROJECT.json`.
Inside the modelled components:

- *queue:* the credit refund the reaper makes for `adbuilder.generate.template`, a
  kind nothing enqueues or handles any more; payloads beyond their key.
- *worker:* preflight, logging, and everything a handler does.
- *publish:* drafts and validation before the approval; a second executor of one plan
  beside the first (what `LiveLeaseIsNotStolen` and the execution lease exclude, as
  long as they are kept); reads of Meta that lag behind its writes; activation
  beyond success and failure, which is `Activation`'s subject.
- *activation:* the mutation actions other than `activate`; refusals that do not
  change during a call (dry run, readiness, ownership proof, fingerprint). Children
  are written in any order, where the code takes ad sets first. Meta applies a write
  when it receives it or never.
- *credits:* the `expiration` rows, which nothing reads; balance views; the one-off
  backfill of `mig/202607270002`; partial closings, which the RPCs allow and no
  caller makes; one key used by two members.
- *billing:* more than one workspace or subscription; events that cannot be linked
  (a failed step); the flags that decide nothing; invoice copies, offers and funnel
  events; the trial reminder, Mautic's other contact calls and what an announcement
  writes to a contact; of a wallet, all but its period and whether a reservation is
  outstanding on it.
- *leads:* attribution, events and duplicate marks of a lead; the site's mapping and
  credential; backfills; the per-plan sync endpoint that asks for all leads, which
  the product does not call.

## Plan

The order is by what can cost a customer money or work, and everything in the first
three lines of the inventory's list of hard places has a module. Next:

1. Booking webhooks as a second user of `LeasedInbox`, with the ordering of a
   booking's states; the e-mail outbox, whose batch claim has the same lease.
2. Lead delivery as a third kind of job in `LeadFlow`, with its unconditional status.
3. Small: ad revisions, seats, image uploads.
4. The safety halves of the other liveness properties, as `FailedHasItsJob` and
   `ApprovalAlwaysKept` are for `FailedIsRetried` and `ApprovalIsAnswered`.
