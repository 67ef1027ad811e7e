------------------------------ MODULE MetaPublish ------------------------------
(***************************************************************************)
(* Publication of plans: the row of a plan, the job that executes it, the  *)
(* objects Meta holds for it, and everyone who writes them - the queued    *)
(* executor (meta-publish-worker.ts), the creation loop of both routes to  *)
(* Meta (publishWithMarketingApi), the publish route with its resume       *)
(* branch, the watchdog, the settlement RPCs of the queue and, for a free  *)
(* first campaign, the claim registry.                                     *)
(*                                                                         *)
(* A plan that carries an activation approval is executed by a job; one    *)
(* without is executed by the publish route under the execution lease.     *)
(* The two never meet in one row: the approval is part of the plan's       *)
(* idempotency key.  One executor of a plan works at a time: JobWorker's   *)
(* LiveLeaseIsNotStolen and the lease see to it while both are kept.       *)
(*                                                                         *)
(* Abstractions.  The objects of a plan are numbered in the order in which *)
(* the loop takes them, so what is recorded is a number; Meta's reads are  *)
(* consistent with the writes it has answered; a POST takes effect at once *)
(* or never.  updated_at only serves as part of two claim keys, so instead *)
(* of times the model keeps the answers stored under the row's updated_at  *)
(* (key) and under the one the executor loaded (used).  The logs are kept  *)
(* as one bit: a POST that may have created something.  Activation of an   *)
(* approved plan is Activation's subject, and here succeeds or throws.     *)
(*                                                                         *)
(* A definition whose comment begins with "Slip" is not part of the model. *)
(***************************************************************************)
EXTENDS FreeLiveClaims

CONSTANTS
  Count,     \* objects of a plan: campaign, lead forms, ad sets, creatives, ads
  Budget,    \* max_attempts of a publish job
  MaxAsks,   \* bound on requests that resume or repeat a publication
  MaxGates   \* bound on executions with provider writes disabled

ASSUME PublishAssumption ==
  Count \in Nat \ {0} /\ Budget \in Nat \ {0} /\ MaxAsks \in Nat /\ MaxGates \in Nat

VARIABLES
  approval,   \* controls.activationApproval (never changes)
  free,       \* freeLiveMode of the plan's workspace (never changes)
  row,        \* status, recorded objects and logs of meta_publish_plans
  key,        \* the claim's answers under the row's updated_at
  job,        \* the plan's latest publish.meta.execute job
  pc,         \* where the plan's executor is
  seen,       \* the row it loaded
  used,       \* the claim's answers under the updated_at it loaded
  current,    \* the row still has that updated_at
  have, may,  \* reconciledObjects and the logs of the attempt
  asked,      \* the row a publish request has read and not yet acted upon
  made,       \* how often Meta created each object
  campaign,   \* the free campaign: paused, unsure, or live and recorded so
  asks, gates

vars == <<claim, consumed, approval, free, row, key, job, pc, seen, used, current,
          have, may, asked, made, campaign, asks, gates>>
frozen == <<approval, free>>
store == <<row, key>>
attempt == <<seen, used, have, may>>
meta == <<made, campaign>>
bounds == <<asks, gates>>

Object == 1 .. Count
RowStatus == {"approved", "publishing", "paused_live", "failed"}
Row == [status : RowStatus, shown : 0 .. Count, may : BOOLEAN]
NoRow == [status |-> "none", shown |-> 0, may |-> FALSE]

JobRow == [phase : {"absent", "waiting", "owned", "done", "dead"},
           takes : 0 .. Budget, budget : {0, Budget}]

Contract == INSTANCE JobContract WITH Job <- Plan, Budgets <- {Budget}, state <- job

Working == {"work", "post", "checkpoint", "verify"}
Settling == {"begin", "failed", "created", "quarantine", "withdraw", "forgo", "retry"}
Finishing == {"activate", "consume", "complete", "finish"}
Ended == {"idle", "returned", "threw"}

Stages == {"loaded", "refused"} \cup Working \cup Settling \cup Finishing \cup Ended

TypeOK ==
  /\ claim \in Claim /\ consumed \in [Claimant -> Stored]
  /\ approval \in [Plan -> BOOLEAN] /\ free \in [Plan -> BOOLEAN]
  /\ row \in [Plan -> Row]
  /\ key \in [Plan -> Key] /\ used \in [Plan -> Key]
  /\ job \in [Plan -> JobRow]
  /\ pc \in [Plan -> Stages]
  /\ seen \in [Plan -> Row \cup {NoRow}] /\ asked \in [Plan -> Row \cup {NoRow}]
  /\ current \in [Plan -> BOOLEAN] /\ may \in [Plan -> BOOLEAN]
  /\ have \in [Plan -> 0 .. Count]
  /\ made \in [Plan -> [Object -> Nat]]
  /\ campaign \in [Plan -> {"paused", "unsure", "live"}]
  /\ asks \in 0 .. MaxAsks /\ gates \in 0 .. MaxGates

NoJob == [phase |-> "absent", takes |-> 0, budget |-> 0]

\* The route has persisted the approval (or nothing yet, without an approval)
Init ==
  /\ RegistryInit
  /\ approval \in [Plan -> BOOLEAN] /\ free \in [Plan -> BOOLEAN]
  /\ row = [p \in Plan |-> [status |-> IF approval[p] THEN "approved" ELSE "publishing",
                            shown |-> 0, may |-> FALSE]]
  /\ key = [p \in Plan |-> NewKey] /\ used = [p \in Plan |-> NewKey]
  /\ job = [p \in Plan |-> NoJob]
  /\ pc = [p \in Plan |-> "idle"]
  /\ seen = [p \in Plan |-> NoRow] /\ asked = [p \in Plan |-> NoRow]
  /\ current = [p \in Plan |-> FALSE] /\ may = [p \in Plan |-> FALSE]
  /\ have = [p \in Plan |-> 0]
  /\ made = [p \in Plan |-> [o \in Object |-> 0]]
  /\ campaign = [p \in Plan |-> "paused"]
  /\ asks = 0 /\ gates = 0

-----------------------------------------------------------------------------
(* Helpers *)

Goto(p, s) == pc' = [pc EXCEPT ![p] = s]

\* updateMetaPublishPlanExecution: the whole row, under a new updated_at
Write(p, s, n, m) ==
  /\ row' = [row EXCEPT ![p] = [status |-> s, shown |-> n, may |-> m]]
  /\ key' = [key EXCEPT ![p] = NewKey]
  /\ current' = [current EXCEPT ![p] = FALSE]

NoWrite == UNCHANGED <<row, key, current>>

\* The write is answered and the executor goes on to s, or its failure is
\* reported, applied or not, and it goes on to f
WriteThen(p, st, n, m, s, f) ==
  \/ Write(p, st, n, m) /\ (Goto(p, s) \/ Goto(p, f))
  \/ NoWrite /\ Goto(p, f)

Outside == UNCHANGED <<registry, frozen, job, asked, bounds>>

-----------------------------------------------------------------------------
(* The job and its settlement *)

JobMoves(p, Step(_, _)) ==
  /\ job' \in { [job EXCEPT ![p] = t] : t \in JobRow }
  /\ Step(job[p], job'[p])

ActiveJob(p) == job[p].phase \in {"waiting", "owned"}

\* queueMetaPublishPlanExecution: a job with the dedupe key is adopted while
\* it is active; otherwise a new one is made
Enqueue(p) ==
  job' = IF ActiveJob(p) THEN job
         ELSE [job EXCEPT ![p] = [phase |-> "waiting", takes |-> 0, budget |-> Budget]]

\* The approving request, and the watchdog for an approval never queued
Approved(p) ==
  /\ approval[p] /\ row[p].status = "approved" /\ ~ActiveJob(p)
  /\ Enqueue(p)
  /\ UNCHANGED <<registry, frozen, store, pc, attempt, current, asked, meta, bounds>>

\* claim_job_v2, and executeMetaPublishPlanById loads the plan
Take(p) ==
  /\ pc[p] = "idle" /\ approval[p]
  /\ JobMoves(p, Contract!Take)
  /\ Goto(p, IF row[p].status = "failed" THEN "threw" ELSE "loaded")
  /\ seen' = [seen EXCEPT ![p] = row[p]]
  /\ used' = [used EXCEPT ![p] = key[p]]
  /\ current' = [current EXCEPT ![p] = TRUE]
  /\ have' = [have EXCEPT ![p] = row[p].shown]
  /\ may' = [may EXCEPT ![p] = row[p].may]
  /\ UNCHANGED <<registry, frozen, store, asked, meta, bounds>>

Quit(p) == Goto(p, "idle") /\ UNCHANGED <<attempt, current>>

\* complete_job_v2
JobDone(p) ==
  /\ pc[p] = "returned" /\ approval[p]
  /\ JobMoves(p, Contract!Finish) /\ Quit(p)
  /\ UNCHANGED <<registry, frozen, store, asked, meta, bounds>>

\* Slip: a job that is out of attempts leaves its plan alone
FailRowNever(p, S) == UNCHANGED store

\* What a job that is out of attempts makes of its plan
FailRow(p, S) ==
  /\ row' = [row EXCEPT ![p] = [status |-> IF row[p].status \in S THEN "failed" ELSE row[p].status,
                                shown |-> row[p].shown, may |-> row[p].may]]
  /\ key' = [key EXCEPT ![p] = NewKey]

\* fail_job_v2: a publishing plan is ambiguous and stays publishing
JobFails(p) ==
  /\ pc[p] = "threw" /\ approval[p]
  /\ \/ JobMoves(p, Contract!GiveBack) /\ UNCHANGED store
     \/ JobMoves(p, Contract!Bury) /\ FailRow(p, {"approved"})
  /\ Quit(p)
  /\ UNCHANGED <<registry, frozen, asked, meta, bounds>>

\* The executor dies, or its settlement is lost
Crash(p) ==
  /\ pc[p] # "idle"
  /\ Quit(p)
  /\ UNCHANGED <<registry, frozen, store, job, asked, meta, bounds>>

\* reap_stale_jobs, once the lease is over
Reap(p) ==
  /\ pc[p] = "idle"
  /\ \/ JobMoves(p, Contract!GiveBack) /\ UNCHANGED store
     \/ JobMoves(p, Contract!Bury) /\ FailRow(p, {"approved", "publishing"})
  /\ UNCHANGED <<registry, frozen, pc, attempt, current, asked, meta, bounds>>

-----------------------------------------------------------------------------
(* Before the first object *)

\* Provider writes are disabled for the workspace
Gated(p) ==
  /\ pc[p] = "loaded" /\ approval[p] /\ gates < MaxGates /\ gates' = gates + 1
  /\ WriteThen(p, "failed", seen[p].shown, seen[p].may, "returned", "threw")
  /\ UNCHANGED <<registry, frozen, job, asked, attempt, meta, asks>>

Unreserved(p) == Goto(p, IF seen[p].status = "approved" THEN "refused" ELSE "threw")

Prepared(p) == Goto(p, IF seen[p].status = "paused_live" THEN "activate" ELSE "begin")

\* prepareFreeLiveConversion: the claim is granted, refused, or not answered
Reserve(p) ==
  /\ pc[p] = "loaded" /\ approval[p] /\ free[p]
  /\ LET answer == Reserved(p, used[p]) IN
     \/ /\ ReserveClaim(p, used[p])
        /\ used' = [used EXCEPT ![p].reserve = answer]
        /\ key' = IF current[p] THEN [key EXCEPT ![p].reserve = answer] ELSE key
        /\ (answer = "yes" /\ Prepared(p)) \/ Unreserved(p)
     \/ Unreserved(p) /\ UNCHANGED <<registry, used, key>>
  /\ UNCHANGED <<frozen, row, current, seen, have, may, job, asked, meta, bounds>>

\* No free campaign is involved, or the connection is not active
Proceed(p) ==
  /\ pc[p] = "loaded"
  /\ (~free[p] /\ Prepared(p)) \/ Goto(p, "threw")
  /\ UNCHANGED <<store, current, attempt, meta>> /\ Outside

\* The approved row is written again with the reason, and the job is retried
Refused(p) ==
  /\ pc[p] = "refused"
  /\ WriteThen(p, "approved", seen[p].shown, seen[p].may, "threw", "threw")
  /\ UNCHANGED <<attempt, meta>> /\ Outside

\* Whatever fails after the write and before the first request to Meta is
\* handled as the failure of the write
Begin(p) ==
  /\ pc[p] = "begin"
  /\ WriteThen(p, "publishing", seen[p].shown, seen[p].may, "work", "withdraw")
  /\ UNCHANGED <<attempt, meta>> /\ Outside

-----------------------------------------------------------------------------
(* publishWithMarketingApi *)

Next1(p) == have[p] + 1

\* Slip: the loop runs once too often
MissingOneMore(p) == have[p] <= Count

Missing(p) == have[p] < Count

\* Slip: nothing is looked up before it is created
ReconcilesNever(p) == FALSE

\* reconcileMissingObjects: the executor's; the route never sets it
Reconciles(p) == approval[p] /\ seen[p].status = "publishing"

\* The next missing object: looked up by the name that carries the plan's
\* marker when the attempt reconciles, and adopted if Meta has it
Locate(p) ==
  /\ pc[p] = "work" /\ Missing(p)
  /\ IF Reconciles(p) /\ made[p][Next1(p)] > 0
     THEN have' = [have EXCEPT ![p] = have[p] + 1] /\ Goto(p, "checkpoint")
     ELSE UNCHANGED have /\ Goto(p, "post")
  /\ UNCHANGED <<store, current, seen, used, may, meta>> /\ Outside

\* A preflight or a look-up fails, or an object is not as the plan says
ReadFails(p) ==
  /\ pc[p] \in {"work", "verify"}
  /\ Goto(p, "failed")
  /\ UNCHANGED <<store, current, attempt, meta>> /\ Outside

Creates(p) == made' = [made EXCEPT ![p][Next1(p)] = made[p][Next1(p)] + 1]

\* Slip: a request without an answer is taken for one that did nothing
EvidenceAnswered(p, answered) == may[p] \/ answered

\* metaProviderMutationMayHaveOccurred: any POST not refused with a 4xx
Evidence(p, answered) == TRUE

\* postMetaObject: the id, a 4xx, or an outcome nobody knows
Post(p) ==
  /\ pc[p] = "post"
  /\ \/ /\ Creates(p) /\ Goto(p, "checkpoint")
        /\ have' = [have EXCEPT ![p] = have[p] + 1]
        /\ may' = [may EXCEPT ![p] = Evidence(p, TRUE)]
     \/ UNCHANGED <<made, have, may>> /\ Goto(p, "failed")
     \/ /\ Creates(p) \/ UNCHANGED made
        /\ Goto(p, "failed") /\ UNCHANGED have
        /\ may' = [may EXCEPT ![p] = Evidence(p, FALSE)]
  /\ UNCHANGED <<store, current, seen, used, campaign>> /\ Outside

Loop(p) == IF Missing(p) THEN "work" ELSE "verify"

Checkpoint(p) ==
  /\ pc[p] = "checkpoint"
  /\ WriteThen(p, "publishing", have[p], may[p], Loop(p), "failed")
  /\ UNCHANGED <<attempt, meta>> /\ Outside

\* Every object was recorded already
AllThere(p) ==
  /\ pc[p] = "work" /\ ~Missing(p)
  /\ Goto(p, "verify")
  /\ UNCHANGED <<store, current, attempt, meta>> /\ Outside

\* reconcileMetaObjects has read every status
Verified(p) ==
  /\ pc[p] = "verify"
  /\ Goto(p, "created")
  /\ UNCHANGED <<store, current, attempt, meta>> /\ Outside

-----------------------------------------------------------------------------
(* The executor settles the attempt *)

\* The catch block: ambiguous results are quarantined, others withdrawn
Caught(p) == IF may[p] THEN "quarantine" ELSE "withdraw"

\* The failure is written; then it is thrown when Meta may have created
\* something or when a retry may help, and final otherwise
RecordFailure(p) ==
  /\ pc[p] = "failed" /\ approval[p]
  /\ \/ /\ Write(p, "failed", have[p], may[p])
        /\ Goto(p, Caught(p)) \/ (~may[p] /\ Goto(p, "forgo"))
     \/ NoWrite /\ Goto(p, Caught(p))
  /\ UNCHANGED <<attempt, meta>> /\ Outside

\* Slip: the result's status is written as it is
CreatedStatusAsIs(p) == "paused_live"

\* durableProviderPlan: publishing until the rest is done
CreatedStatus(p) == "publishing"

Finalize(p) == IF free[p] THEN "activate" ELSE "complete"

RecordObjects(p) ==
  /\ pc[p] = "created" /\ approval[p]
  /\ WriteThen(p, CreatedStatus(p), have[p], may[p], Finalize(p), Caught(p))
  /\ UNCHANGED <<attempt, meta>> /\ Outside

\* reconciliationPlan; a failure to write it is only logged
Quarantine(p) ==
  /\ pc[p] = "quarantine"
  /\ WriteThen(p, "publishing", have[p], may[p], "threw", "threw")
  /\ UNCHANGED <<attempt, meta>> /\ Outside

\* releasePreparedFreeLiveClaim, whose failure is only logged
Release(p) ==
  /\ pc[p] \in {"withdraw", "forgo"} /\ approval[p]
  /\ \/ /\ free[p]
        /\ ReleaseClaim(p, used[p])
        /\ used' = [used EXCEPT ![p].release = TRUE]
        /\ key' = IF current[p] THEN [key EXCEPT ![p].release = TRUE] ELSE key
     \/ UNCHANGED <<registry, used, key>>
  /\ Goto(p, IF pc[p] = "withdraw" THEN "retry" ELSE "returned")
  /\ UNCHANGED <<frozen, row, current, seen, have, may, job, asked, meta, bounds>>

RetryStatus(p) == IF seen[p].status = "publishing" THEN "publishing" ELSE "approved"

\* retryablePlan: the row as it was loaded
Retry(p) ==
  /\ pc[p] = "retry"
  /\ WriteThen(p, RetryStatus(p), seen[p].shown, seen[p].may, "threw", "threw")
  /\ UNCHANGED <<attempt, meta>> /\ Outside

\* The signal is aborted: shutdown, a lost lease or the execution timeout
Abort(p) ==
  /\ pc[p] \in {"begin", "failed", "created", "activate", "complete"} /\ approval[p]
  /\ Goto(p, "threw")
  /\ UNCHANGED <<store, current, attempt, meta>> /\ Outside

-----------------------------------------------------------------------------
(* Finalization *)

\* Slip: the claim is consumed whatever became of the activation
AfterActivationAny(active) == "consume"

AfterActivation(active) == IF active THEN "consume" ELSE "threw"

\* activateFreeCampaign: once its mutation is applied it is not sent again;
\* a failure leaves the campaign paused, or nobody knows
Activate(p) ==
  /\ pc[p] = "activate"
  /\ IF ~free[p] THEN Goto(p, "finish") /\ UNCHANGED campaign
     ELSE \/ campaign' = [campaign EXCEPT ![p] = "live"] /\ Goto(p, AfterActivation(TRUE))
          \/ /\ campaign[p] # "live"
             /\ campaign' \in { [campaign EXCEPT ![p] = s] : s \in {"paused", "unsure"} }
             /\ Goto(p, AfterActivation(FALSE))
  /\ UNCHANGED <<store, current, attempt, made>> /\ Outside

Consume(p) ==
  /\ pc[p] = "consume"
  /\ \/ /\ ConsumeClaim(p)
        /\ (Consumed(p) = "yes" /\ Goto(p, IF seen[p].status = "paused_live"
                                           THEN "finish" ELSE "complete"))
           \/ Goto(p, "threw")
     \/ UNCHANGED registry /\ Goto(p, "threw")
  /\ UNCHANGED <<frozen, store, current, attempt, job, asked, meta, bounds>>

Complete(p) ==
  /\ pc[p] = "complete"
  /\ WriteThen(p, "paused_live", have[p], may[p], "finish", "threw")
  /\ UNCHANGED <<attempt, meta>> /\ Outside

\* finishApprovedAdBuilderPublish
Finish(p) ==
  /\ pc[p] = "finish"
  /\ Goto(p, "returned") \/ Goto(p, "threw")
  /\ UNCHANGED <<store, current, attempt, meta>> /\ Outside

-----------------------------------------------------------------------------
(* The publish route *)

\* A request reads the row: POST with resumePlanId, or POST without approval,
\* which adopts the row of its idempotency key
Ask(p) ==
  /\ asks < MaxAsks /\ asks' = asks + 1
  /\ asked[p] = NoRow
  /\ asked' = [asked EXCEPT ![p] = row[p]]
  /\ UNCHANGED <<registry, frozen, store, job, pc, attempt, current, meta, gates>>

Answered(p) == asked' = [asked EXCEPT ![p] = NoRow]

\* The resume branch sets a plan it read as failed publishing, from that read
Reopen(p) ==
  /\ approval[p] /\ asked[p].status = "failed"
  /\ \/ /\ Write(p, "publishing", asked[p].shown, asked[p].may)
        /\ asked' = [asked EXCEPT ![p].status = "publishing"] \/ Answered(p)
     \/ NoWrite /\ Answered(p)
  /\ UNCHANGED <<registry, frozen, job, pc, attempt, meta, bounds>>

\* It queues a plan it has reopened, or found otherwise; a request that repeats
\* the approval queues whatever it finds
Resume(p) ==
  /\ approval[p] /\ asked[p] # NoRow
  /\ Enqueue(p) /\ Answered(p)
  /\ UNCHANGED <<registry, frozen, store, pc, attempt, current, meta, bounds>>

\* A request without approval claims the execution lease and executes what it
\* read before it had the lease; a finished plan or a held lease only answers
Direct(p) ==
  /\ ~approval[p] /\ asked[p] # NoRow
  /\ Answered(p)
  /\ IF asked[p].status = "paused_live" \/ pc[p] # "idle"
     THEN UNCHANGED <<pc, attempt, current>>
     ELSE /\ Goto(p, "begin")
          /\ seen' = [seen EXCEPT ![p] = asked[p]]
          /\ used' = [used EXCEPT ![p] = NewKey]
          /\ current' = [current EXCEPT ![p] = FALSE]
          /\ have' = [have EXCEPT ![p] = asked[p].shown]
          /\ may' = [may EXCEPT ![p] = asked[p].may]
  /\ UNCHANGED <<registry, frozen, store, job, meta, bounds>>

\* The result is written as it is
DirectStatus(p) == IF pc[p] = "created" THEN "paused_live" ELSE "failed"

DirectRecord(p) ==
  /\ pc[p] \in {"failed", "created"} /\ ~approval[p]
  /\ WriteThen(p, DirectStatus(p), have[p], may[p], "returned", "withdraw")
  /\ UNCHANGED <<attempt, meta>> /\ Outside

\* The route's catch: a plan still publishing is failed, or not even that
DirectCatch(p) ==
  /\ pc[p] = "withdraw" /\ ~approval[p]
  /\ \/ row[p].status = "publishing" /\ Write(p, "failed", row[p].shown, row[p].may)
     \/ NoWrite
  /\ Goto(p, "threw")
  /\ UNCHANGED <<attempt, meta>> /\ Outside

\* The response is sent and the lease released
DirectEnds(p) ==
  /\ pc[p] \in {"returned", "threw"} /\ ~approval[p]
  /\ Quit(p)
  /\ UNCHANGED <<registry, frozen, store, job, asked, meta, bounds>>

-----------------------------------------------------------------------------
\* A plan of another workspace on the same account
RivalMoves(r) ==
  /\ ReserveClaim(r, NewKey) \/ ReleaseClaim(r, NewKey) \/ ConsumeClaim(r)
  /\ UNCHANGED <<frozen, store, job, pc, attempt, current, asked, meta, bounds>>

Executes(p) ==
  \/ Reserve(p) \/ Proceed(p) \/ Refused(p) \/ Begin(p) \/ Locate(p) \/ ReadFails(p)
  \/ Post(p) \/ Checkpoint(p) \/ AllThere(p) \/ Verified(p) \/ RecordFailure(p)
  \/ RecordObjects(p) \/ Quarantine(p) \/ Release(p) \/ Retry(p) \/ Activate(p)
  \/ Consume(p) \/ Complete(p) \/ Finish(p)
  \/ DirectRecord(p) \/ DirectCatch(p) \/ DirectEnds(p)

Settles(p) == JobDone(p) \/ JobFails(p)

Disturbs(p) == Crash(p) \/ Abort(p) \/ Gated(p) \/ Ask(p)

Route(p) == Reopen(p) \/ Resume(p) \/ Direct(p)

Next ==
  \/ \E p \in Plan :
       Approved(p) \/ Take(p) \/ Executes(p) \/ Settles(p) \/ Reap(p) \/ Disturbs(p) \/ Route(p)
  \/ \E r \in Rival : RivalMoves(r)

Spec == Init /\ [][Next]_vars

(***************************************************************************)
(* Fairness.  The approving request or the watchdog queues an approval; a  *)
(* worker takes a waiting job; an executor goes on or dies; a job is       *)
(* settled by its worker or, later, by the reaper.  Nothing is assumed of  *)
(* Meta, of a write's success, of requests or of rivals.                   *)
(***************************************************************************)
Fairness ==
  \A p \in Plan :
    /\ WF_vars(Approved(p))
    /\ WF_vars(Take(p))
    /\ WF_vars(Executes(p) \/ Settles(p) \/ Crash(p))
    /\ WF_vars(Reap(p))

FairSpec == Spec /\ Fairness

-----------------------------------------------------------------------------
(* Properties *)

Clean(p) == \A o \in Object : made[p][o] = 0

(* No object of an approved plan is created twice, however often its job is
   retried, its executor dies between a creation and its checkpoint, a write
   of the row is lost, or a person resumes it (the reconciliation by name of
   every attempt that finds the plan publishing). *)
QueuedObjectsOnce ==
  \A p \in Plan : approval[p] => \A o \in Object : made[p][o] <= 1

(* A row says approved only while Meta holds nothing of the plan: the next
   attempt then posts without looking anything up. *)
ApprovedIsClean ==
  \A p \in Plan : row[p].status = "approved" => Clean(p)

(* paused_live is only reported for a plan whose objects all exist and are
   recorded, and for a free campaign only once it is live and its workspace
   has consumed the claim - and nobody else ever has it then. *)
SuccessIsComplete ==
  \A p \in Plan : row[p].status = "paused_live" =>
    /\ row[p].shown = Count /\ \A o \in Object : made[p][o] > 0
    /\ approval[p] /\ free[p] => campaign[p] = "live" /\ ConsumedBy(p)

(* The claim is spent only on a campaign that went live: a failed activation
   leaves it to the retry. *)
SpentOnLiveCampaign ==
  \A p \in Plan : ConsumedBy(p) => campaign[p] = "live"

(* Every approval is answered: in the end its plan is no longer approved and
   its job has settled, with the worker, with the watchdog's help, or reaped. *)
ApprovalIsAnswered ==
  \A p \in Plan : row[p].status = "approved" ~>
    row[p].status # "approved" /\ job[p].phase \in {"done", "dead"}

(* What publish-adapter.ts promises: publishing a frozen revision again never
   duplicates objects. *)
PublishedOnce ==
  \A p \in Plan, o \in Object : made[p][o] <= 1
================================================================================
