------------------------------ MODULE Activation ------------------------------
(***************************************************************************)
(* Activation of one publish plan whose Meta objects exist and are paused: *)
(* activateApprovedAdBuilderPlan (adbuilder-activation.ts), called by the  *)
(* activate route and by the publish job, the executor it calls            *)
(* (meta-mutation-worker.ts, meta-mutations.ts), the RPCs of the execution *)
(* lease and of the activation mutations (202609030002), and the queued    *)
(* publish.meta.mutate job, which runs the same executor without a lease.  *)
(*                                                                         *)
(* A call is one run of that function (or of that job).  Every statement   *)
(* that reads or writes shared state is a step of its own, because any     *)
(* other call, a lost reply or the death of the process can come between.  *)
(*                                                                         *)
(* Abstractions.  The plan is paused_live, its ownership proof and its     *)
(* fingerprint are valid and provider writes are enabled: none of them     *)
(* changes here.  The payload of every mutation is the same server-derived *)
(* set of owned objects.  updated_at only serves to find the row written   *)
(* last.  Children are written in any order, where the code takes ad sets  *)
(* before ads.  The uuid of a lease is the call that claimed it: a call    *)
(* claims once at most.  Meta answers a read with what it holds, and a     *)
(* write it receives takes effect at once or never.                        *)
(*                                                                         *)
(* A definition whose comment begins with "Slip" is not part of the model: *)
(* it is a plausible mistake in the definition that follows it.            *)
(***************************************************************************)
EXTENDS Naturals, FiniteSets

CONSTANTS
  Call,          \* runs of activateApprovedAdBuilderPlan and of the mutate job
  Jobs,          \* those among them that are publish.meta.mutate jobs
  Mutation,      \* rows of meta_publish_plan_mutations, one per client key
  Own,           \* the row of each call: its client key, or its job's row
  NoCall, NoRow, \* SQL null
  Camp, Child,   \* the campaign; the ad sets and ads of this plan
  OwnsCampaign,  \* the plan created its campaign (new_campaign_new_adset)
  OnTime,        \* a running call never outlives its lease
  MaxFaults,     \* bound on failed or unanswered database calls
  MaxCrashes     \* bound on processes that die

ASSUME ActivationAssumption ==
  /\ Jobs \subseteq Call
  /\ Own \in [Call -> Mutation]
  /\ NoCall \notin Call /\ NoRow \notin Mutation
  /\ Camp \notin Child
  /\ {OwnsCampaign, OnTime} \subseteq BOOLEAN
  /\ MaxFaults \in Nat /\ MaxCrashes \in Nat

VARIABLES
  rows,      \* meta_publish_plan_mutations with action 'activate'
  latest,    \* the row written last (order by updated_at desc limit 1)
  lease,     \* execution_lease_token, and whether execution_lease_expires_at is ahead
  shown,     \* the plan's objects are recorded as active (markPlanObjectsActive)
  meta,      \* the configured status Meta holds for each object
  pc, ctx,   \* where each call is, and its local variables
  faults, crashes,
  overtaken  \* history: a call has claimed on reads that an execution had overtaken

vars == <<rows, latest, lease, shown, meta, pc, ctx, faults, crashes, overtaken>>
store == <<rows, latest, lease, shown>>

Object == {Camp} \cup Child
Targets == IF OwnsCampaign THEN Object ELSE Child
JobRows == { Own[j] : j \in Jobs }

MutationRow ==
  [status : {"absent", "approved", "applying", "applied", "failed"},
   outcome : {"none", "confirmed_paused", "unconfirmed"},
   unconfirmed : SUBSET Object]

NoMutation == [status |-> "absent", outcome |-> "none", unconfirmed |-> {}]

Reading == {"existing", "claim"}
Leased == {"quarantine", "canonical", "reconcile", "ensure", "renew", "apply",
           "preflight", "guard", "guarded", "children", "campaign", "verify",
           "pause", "paused", "finalize", "early", "unfinal", "assert", "write",
           "release"}
Executing == Leased \ {"quarantine", "canonical", "reconcile", "release"}
Ended == {"idle", "done", "crashed"}

Answers == {"none", "activated", "activating", "paused", "unknown", "error"}

Context ==
  [latest : Mutation \cup {NoRow}, seen : MutationRow, mine : MutationRow,
   row : Mutation, todo : SUBSET Object, left : SUBSET Object,
   applied : BOOLEAN, reply : Answers]

NewContext(c) ==
  [latest |-> NoRow, seen |-> NoMutation, mine |-> NoMutation, row |-> Own[c],
   todo |-> {}, left |-> {}, applied |-> FALSE, reply |-> "none"]

TypeOK ==
  /\ rows \in [Mutation -> MutationRow]
  /\ latest \in Mutation \cup {NoRow}
  /\ lease \in [owner : Call \cup {NoCall}, live : BOOLEAN]
  /\ shown \in BOOLEAN
  /\ meta \in [Object -> {"PAUSED", "ACTIVE"}]
  /\ pc \in [Call -> Reading \cup Leased \cup Ended]
  /\ ctx \in [Call -> Context]
  /\ faults \in 0 .. MaxFaults /\ crashes \in 0 .. MaxCrashes
  /\ overtaken \in BOOLEAN

Init ==
  /\ rows = [m \in Mutation |-> NoMutation]
  /\ latest = NoRow
  /\ lease = [owner |-> NoCall, live |-> FALSE]
  /\ shown = FALSE
  /\ meta = [o \in Object |-> "PAUSED"]
  /\ pc = [c \in Call |-> "idle"]
  /\ ctx = [c \in Call |-> NewContext(c)]
  /\ faults = 0 /\ crashes = 0 /\ overtaken = FALSE

-----------------------------------------------------------------------------
(* Helpers *)

Goto(c, p) == pc' = [pc EXCEPT ![c] = p]
Keep(c) == UNCHANGED ctx
Sure == UNCHANGED faults
Fault == faults < MaxFaults /\ faults' = faults + 1

\* The response object is built; the finally block still has a lease to release
\* when the call claimed one.
Answer(c, r) ==
  /\ ctx' = [ctx EXCEPT ![c].reply = r]
  /\ Goto(c, IF pc[c] \in Leased /\ c \notin Jobs THEN "release" ELSE "done")

NoWrite == UNCHANGED <<rows, latest>>

Write(m, r) == rows' = [rows EXCEPT ![m] = r] /\ latest' = m

\* updateMutation writes a status and the logs, and no outcome
WriteStatus(m, s) == Write(m, [rows[m] EXCEPT !.status = s])

\* Slip: every failure counts as a confirmed pause
OutcomeOptimistic(s, left) ==
  [status |-> s, outcome |-> IF s = "applied" THEN "none" ELSE "confirmed_paused",
   unconfirmed |-> left]

Outcome(s, left) ==
  [status |-> s,
   outcome |-> IF s = "applied" THEN "none"
               ELSE IF left = {} THEN "confirmed_paused" ELSE "unconfirmed",
   unconfirmed |-> left]

\* finalize_meta_publish_plan_mutation takes a first outcome or an exact retry
Accepts(m, r) == rows[m].status = "applying" \/ rows[m] = r

Finalize(m, r) == IF rows[m].status = "applying" THEN Write(m, r) ELSE NoWrite

\* Slip: the row's status is answered as it stands
ReportedRaw(r) == r.status

Reported(r) ==
  IF r.status = "applied" THEN "activated"
  ELSE IF r.outcome = "unconfirmed" THEN "unknown" ELSE "paused"

-----------------------------------------------------------------------------
(* The reads a call starts with, and its claim *)

\* Slip: a quarantined activation does not stop the next one
OverApplied(r) == r.status = "applied"

Over(r) == r.status = "applied" \/ r.outcome = "unconfirmed"

Start(c) ==
  /\ pc[c] = "idle" /\ c \notin Jobs
  /\ LET r == IF latest = NoRow THEN NoMutation ELSE rows[latest] IN
     IF Over(r)
     THEN Answer(c, Reported(r))
     ELSE /\ ctx' = [ctx EXCEPT ![c] =
                       [NewContext(c) EXCEPT !.latest = latest, !.seen = r]]
          /\ Goto(c, "existing")
  /\ UNCHANGED <<store, meta, faults, crashes, overtaken>>

ReadExisting(c) ==
  /\ pc[c] = "existing"
  /\ LET r == rows[Own[c]] IN
     IF r.status \in {"applied", "failed"}
     THEN Answer(c, Reported(r))
     ELSE ctx' = [ctx EXCEPT ![c].mine = r] /\ Goto(c, "claim")
  /\ UNCHANGED <<store, meta, faults, crashes, overtaken>>

\* Slip: a lease that is held does not keep the next call out
FreeAlways == TRUE

\* Slip: a lease is only given back, it never runs out
FreeReleased == lease.owner = NoCall

Free == lease.owner = NoCall \/ ~lease.live

Stale(c) == ctx[c].seen.status = "applying" \/ ctx[c].mine.status = "applying"

Claimed(c) ==
  /\ lease' = [owner |-> c, live |-> TRUE]
  /\ ctx' = [ctx EXCEPT ![c].row = IF ctx[c].seen.status = "applying"
                                   THEN ctx[c].latest ELSE Own[c]]

\* The rows are not read again after the claim: one of them has begun, or is
\* over, and what the call that claims has read had not
Begun(r) == r.status \in {"applying", "applied"} \/ r.outcome = "unconfirmed"
Overtaken(c) ==
  ~Stale(c) /\ ~Begun(ctx[c].seen) /\ \E m \in Mutation : Begun(rows[m])

Claim(c) ==
  /\ pc[c] = "claim"
  /\ \/ /\ Free /\ Claimed(c) /\ Sure
        /\ Goto(c, IF Stale(c) THEN "quarantine" ELSE "ensure")
        /\ overtaken' = (overtaken \/ Overtaken(c))
     \/ ~Free /\ Answer(c, "activating") /\ UNCHANGED <<lease, overtaken>> /\ Sure
     \/ Fault /\ Answer(c, "error") /\ UNCHANGED <<lease, overtaken>>
  /\ UNCHANGED <<rows, latest, shown, meta, crashes>>

\* The claim is made and its answer is lost: nobody will release this lease.
ClaimUnanswered(c) ==
  /\ pc[c] = "claim" /\ Free
  /\ lease' = [owner |-> c, live |-> TRUE]
  /\ Answer(c, "error")
  /\ Fault
  /\ UNCHANGED <<rows, latest, shown, meta, crashes, overtaken>>

-----------------------------------------------------------------------------
(* A row left applying by an executor that no longer holds the lease *)

Quarantined == Outcome("failed", Targets)

Quarantine(c) ==
  /\ pc[c] = "quarantine"
  /\ LET m == ctx[c].row IN
     \/ Accepts(m, Quarantined) /\ Finalize(m, Quarantined) /\ Answer(c, "unknown") /\ Sure
     \/ /\ ~Accepts(m, Quarantined) /\ NoWrite /\ Sure
        /\ IF rows[m].status = "approved" THEN Answer(c, "error")
           ELSE Goto(c, "canonical") /\ Keep(c)
     \/ Fault /\ (Finalize(m, Quarantined) \/ NoWrite) /\ Answer(c, "error")
  /\ UNCHANGED <<lease, shown, meta, crashes, overtaken>>

Canonical(c) ==
  /\ pc[c] = "canonical"
  /\ LET r == rows[ctx[c].row] IN
     \/ r.status = "applied" /\ Goto(c, "reconcile") /\ Keep(c) /\ Sure
     \/ r.status = "failed" /\ Answer(c, Reported(r)) /\ Sure
     \/ r.status \notin {"applied", "failed"} /\ Answer(c, "error") /\ Sure
     \/ Fault /\ Answer(c, "error")
  /\ UNCHANGED <<store, meta, crashes, overtaken>>

-----------------------------------------------------------------------------
(* The mutation *)

\* ensure_meta_activation_mutation: the row is found or made, and set approved
\* whatever its status was; its outcome is left alone
EnsureApproved(m) == WriteStatus(m, "approved")

Ensure(c) ==
  /\ pc[c] = "ensure"
  /\ LET m == IF ctx[c].seen.status = "approved" /\ ctx[c].latest \notin JobRows
              THEN ctx[c].latest ELSE Own[c] IN
     \/ /\ EnsureApproved(m) /\ Goto(c, "renew") /\ Sure
        /\ ctx' = [ctx EXCEPT ![c].row = m]
     \/ Fault /\ (EnsureApproved(m) \/ NoWrite) /\ Answer(c, "error")
  /\ UNCHANGED <<lease, shown, meta, crashes, overtaken>>

Holds(c) == lease.owner = c /\ lease.live

Renew(c) ==
  /\ pc[c] = "renew"
  /\ \/ Holds(c) /\ Goto(c, "apply") /\ Keep(c) /\ Sure
     \/ ~Holds(c) /\ Answer(c, "error") /\ Sure
     \/ Fault /\ Answer(c, "error")
  /\ UNCHANGED <<store, meta, crashes, overtaken>>

\* executeMetaMutationById: after its reads the row is set applying, unfenced.
\* A read that fails, or a write that does, ends the call.
MarkApplying(c) ==
  /\ pc[c] = "apply"
  /\ \/ /\ WriteStatus(ctx[c].row, "applying") /\ Keep(c)
        /\ \/ Sure /\ Goto(c, IF OwnsCampaign THEN "guard" ELSE "preflight")
           \/ Fault /\ Goto(c, "early")
     \/ Fault /\ (WriteStatus(ctx[c].row, "applying") \/ NoWrite) /\ Answer(c, "error")
  /\ UNCHANGED <<lease, shown, meta, crashes, overtaken>>

\* No token, or no approval, counted as a fault: nothing was sent to Meta. When
\* the outcome cannot be recorded, the status alone is written.
FinalizeEarly(c) ==
  /\ pc[c] = "early"
  /\ LET m == ctx[c].row  r == Outcome("failed", {}) IN
     \/ Accepts(m, r) /\ Finalize(m, r) /\ Sure
     \/ ~Accepts(m, r) /\ Sure /\ WriteStatus(m, "failed")
     \/ Fault /\ (Finalize(m, r) \/ NoWrite \/ WriteStatus(m, "failed"))
  /\ Answer(c, "error")
  /\ UNCHANGED <<lease, shown, meta, crashes, overtaken>>

-----------------------------------------------------------------------------
(* The requests to Meta *)

\* A request is bracketed by checkpoints that renew the lease; a job has none
Checked(c) == c \in Jobs \/ Holds(c)

Sent(o, s) == meta' = [meta EXCEPT ![o] = s]

Fails(c) ==
  /\ Goto(c, "pause")
  /\ ctx' = [ctx EXCEPT ![c].todo = Targets]

\* A write of status s to o: refused by the first checkpoint or by Meta, or
\* received and followed by an answer, by a refused checkpoint or by silence
Post(c, o, s, Next1) ==
  \/ Checked(c) /\ Sent(o, s) /\ Next1
  \/ Checked(c) /\ Sent(o, s) /\ Fails(c)
  \/ UNCHANGED meta /\ Fails(c)

Quiet == UNCHANGED <<store, faults, crashes, overtaken>>

Preflight(c) ==
  /\ pc[c] = "preflight"
  /\ \/ Checked(c) /\ Goto(c, "children") /\ ctx' = [ctx EXCEPT ![c].todo = Child]
     \/ Goto(c, "finalize") /\ Keep(c)
  /\ UNCHANGED meta /\ Quiet

Guard(c) ==
  /\ pc[c] = "guard"
  /\ Post(c, Camp, "PAUSED", Goto(c, "guarded") /\ Keep(c))
  /\ Quiet

Guarded(c) ==
  /\ pc[c] = "guarded"
  /\ \/ /\ Checked(c) /\ meta[Camp] = "PAUSED"
        /\ Goto(c, "children") /\ ctx' = [ctx EXCEPT ![c].todo = Child]
     \/ Fails(c)
  /\ UNCHANGED meta /\ Quiet

Done(c, o, p, S) ==
  LET todo == ctx[c].todo \ {o} IN
  IF todo = {} THEN Goto(c, p) /\ ctx' = [ctx EXCEPT ![c].todo = S]
  ELSE Goto(c, pc[c]) /\ ctx' = [ctx EXCEPT ![c].todo = todo]

ActivateChild(c, o) ==
  /\ pc[c] = "children" /\ o \in ctx[c].todo
  /\ Post(c, o, "ACTIVE", Done(c, o, IF OwnsCampaign THEN "campaign" ELSE "verify", Targets))
  /\ Quiet

ActivateCampaign(c) ==
  /\ pc[c] = "campaign"
  /\ Post(c, Camp, "ACTIVE", Goto(c, "verify") /\ Keep(c))
  /\ Quiet

Succeeded(c) ==
  Goto(c, "finalize") /\ ctx' = [ctx EXCEPT ![c].todo = {}, ![c].applied = TRUE]

VerifyActive(c, o) ==
  /\ pc[c] = "verify" /\ o \in ctx[c].todo
  /\ \/ /\ Checked(c) /\ meta[o] = "ACTIVE"
        /\ IF ctx[c].todo = {o} THEN Succeeded(c) ELSE Done(c, o, "verify", {})
     \/ Fails(c)
  /\ UNCHANGED meta /\ Quiet

\* compensateFailedActivation: pause every target, the campaign first, whatever
\* became of the lease, then read every target back
First(S) == IF Camp \in S THEN {Camp} ELSE S

CompensatePause(c, o) ==
  /\ pc[c] = "pause" /\ o \in First(ctx[c].todo)
  /\ Sent(o, "PAUSED") \/ UNCHANGED meta
  /\ Done(c, o, "paused", Targets)
  /\ Quiet

\* Slip: a pause that was not refused is taken for a pause
ConfirmsPausedUnread(o) == TRUE

ConfirmsPaused(o) == meta[o] = "PAUSED"

VerifyPaused(c, o) ==
  /\ pc[c] = "paused" /\ o \in First(ctx[c].todo)
  /\ \E ok \in {TRUE, FALSE} :
       LET left == ctx[c].left \cup (IF ok THEN {} ELSE {o})
           todo == ctx[c].todo \ {o} IN
       /\ ok => ConfirmsPaused(o)
       /\ ctx' = [ctx EXCEPT ![c].todo = todo, ![c].left = left]
       /\ Goto(c, IF todo = {} THEN "finalize" ELSE "paused")
  /\ UNCHANGED meta /\ Quiet

-----------------------------------------------------------------------------
(* The outcome *)

\* Slip: nothing left unconfirmed is taken for success
ResultByLeft(c) ==
  Outcome(IF ctx[c].left = {} THEN "applied" ELSE "failed", ctx[c].left)

Result(c) ==
  Outcome(IF ctx[c].applied THEN "applied" ELSE "failed", ctx[c].left)

Finish(c) ==
  /\ pc[c] = "finalize"
  /\ LET m == ctx[c].row  r == Result(c) IN
     \/ Accepts(m, r) /\ Finalize(m, r) /\ Goto(c, "assert") /\ Sure
     \/ ~Accepts(m, r) /\ NoWrite /\ Goto(c, "unfinal") /\ Sure
     \/ Fault /\ ((Accepts(m, r) /\ Finalize(m, r)) \/ NoWrite) /\ Goto(c, "unfinal")
  /\ Keep(c)
  /\ UNCHANGED <<lease, shown, meta, crashes, overtaken>>

\* markActivationFinalizationUnconfirmed: unconditional, and its own failure is
\* ignored
MarkUnconfirmed(c) ==
  /\ pc[c] = "unfinal"
  /\ \/ Write(ctx[c].row, Quarantined) /\ Sure
     \/ NoWrite /\ Fault
  /\ Answer(c, "error")
  /\ UNCHANGED <<lease, shown, meta, crashes, overtaken>>

\* assertOwned, then the reply; a job's handler just returns
AssertOwned(c) ==
  /\ pc[c] = "assert"
  /\ \/ /\ c \in Jobs /\ Answer(c, Reported(Result(c))) /\ Sure
     \/ /\ c \notin Jobs /\ Sure
        /\ IF ctx[c].applied THEN Goto(c, "write") /\ Keep(c)
           ELSE Answer(c, IF ctx[c].left = {} THEN "paused" ELSE "unknown")
     \/ c \notin Jobs /\ ~Holds(c) /\ Answer(c, "error") /\ Sure
     \/ c \notin Jobs /\ Fault /\ Answer(c, "error")
  /\ UNCHANGED <<store, meta, crashes, overtaken>>

WritePlan(c) ==
  /\ pc[c] \in {"write", "reconcile"}
  /\ \/ shown' = TRUE /\ Answer(c, "activated") /\ Sure
     \/ UNCHANGED shown /\ Answer(c, "error") /\ Fault
  /\ UNCHANGED <<rows, latest, lease, meta, crashes, overtaken>>

Released(c) == IF lease.owner = c THEN [owner |-> NoCall, live |-> FALSE] ELSE lease

Release(c) ==
  /\ pc[c] = "release"
  /\ \/ lease' = Released(c) /\ Sure
     \/ UNCHANGED lease /\ Fault
  /\ Goto(c, "done") /\ Keep(c)
  /\ UNCHANGED <<rows, latest, shown, meta, crashes, overtaken>>

-----------------------------------------------------------------------------
(* The job, the clients and the environment *)

\* The approvals route sets the row approved and queues the job, whose handler
\* goes straight to the executor.
StartJob(c) ==
  /\ pc[c] = "idle" /\ c \in Jobs
  /\ WriteStatus(Own[c], "approved")
  /\ Goto(c, "apply")
  /\ ctx' = [ctx EXCEPT ![c] = NewContext(c)]
  /\ UNCHANGED <<lease, shown, meta, faults, crashes, overtaken>>

\* The client or the publish job asks again with the same key; the queue runs
\* the mutate job again
Again(c) ==
  /\ pc[c] \in {"done", "crashed"}
  /\ ctx[c].reply \in {"none", "activating", "error"}
  /\ Goto(c, IF c \in Jobs THEN "apply" ELSE "idle")
  /\ ctx' = [ctx EXCEPT ![c] = NewContext(c)]
  /\ UNCHANGED <<store, meta, faults, crashes, overtaken>>

Crash(c) ==
  /\ pc[c] \notin Ended /\ crashes < MaxCrashes
  /\ crashes' = crashes + 1
  /\ Goto(c, "crashed") /\ ctx' = [ctx EXCEPT ![c].reply = "none"]
  /\ UNCHANGED <<store, meta, faults, overtaken>>

Expire ==
  /\ lease.live
  /\ OnTime => pc[lease.owner] \notin Leased
  /\ lease' = [lease EXCEPT !.live = FALSE]
  /\ UNCHANGED <<rows, latest, shown, meta, pc, ctx, faults, crashes, overtaken>>

Step(c) ==
  \/ Start(c) \/ ReadExisting(c) \/ Claim(c) \/ ClaimUnanswered(c)
  \/ Quarantine(c) \/ Canonical(c) \/ Ensure(c) \/ Renew(c) \/ MarkApplying(c)
  \/ FinalizeEarly(c) \/ Preflight(c) \/ Guard(c) \/ Guarded(c)
  \/ \E o \in Object : ActivateChild(c, o) \/ VerifyActive(c, o)
  \/ ActivateCampaign(c)
  \/ \E o \in Object : CompensatePause(c, o) \/ VerifyPaused(c, o)
  \/ Finish(c) \/ MarkUnconfirmed(c) \/ AssertOwned(c) \/ WritePlan(c)
  \/ Release(c) \/ StartJob(c)

Next == Expire \/ \E c \in Call : Step(c) \/ Again(c) \/ Crash(c)

Spec == Init /\ [][Next]_vars

\* Route handlers and jobs run to their end unless the process dies; a client
\* that got no final answer asks again; time passes, so a lease that is not
\* renewed expires.
Fairness == WF_vars(Expire) /\ \A c \in Call : WF_vars(Step(c)) /\ WF_vars(Again(c))

LiveSpec == Spec /\ Fairness

-----------------------------------------------------------------------------
(* Properties *)

(* The lease serialises provider execution: no two calls are between the claim
   and the recorded outcome at once. *)
OneExecutor ==
  \A c, d \in Call : pc[c] \in Executing /\ pc[d] \in Executing => c = d

MayDeliver ==
  /\ \E o \in Child : meta[o] = "ACTIVE"
  /\ OwnsCampaign => meta[Camp] = "ACTIVE"

(* The next four have an exception, which the code leaves open: a whole execution
   fits between a call's reads and its claim, and the call goes on without reading
   again ("overtaken").  While calls end within their lease and no mutate job runs,
   there is no other way to break them. *)

(* Nothing is spent in silence: unless a call was overtaken, while Meta may deliver
   either a call is still at work on the plan, or a row says so: applied, applying
   (the next call quarantines it) or unconfirmed. *)
NoSilentSpend ==
  MayDeliver =>
    \/ overtaken
    \/ \E c \in Call : pc[c] \in Executing
    \/ \E m \in Mutation : \/ rows[m].status \in {"applying", "applied"}
                          \/ rows[m].outcome = "unconfirmed"

Settled(r) == r.status = "applied" \/ (r.status = "failed" /\ r.outcome = "unconfirmed")

(* The only way to a replay is an overtaken call.  Without one, once a mutation of
   the plan is applied, or quarantined, no call writes ACTIVE to Meta again: not
   after a crash, a lost answer, or a lease that nobody gave back, and not when
   callers with keys of their own race for the plan. *)
NoReplay ==
  [][\A o \in Object : meta[o] = "PAUSED" /\ meta'[o] = "ACTIVE"
        => overtaken \/ \A m \in Mutation : ~Settled(rows[m])]_vars

(* "activated" is answered only while every object this plan owns is ACTIVE, unless
   a call was overtaken. *)
ActivatedIsTrue ==
  [][\A c \in Call : ctx'[c].reply = "activated" /\ ctx[c].reply # "activated"
        => overtaken \/ \A o \in Targets : meta[o] = "ACTIVE"]_vars

(* An outcome is recorded as confirmed_paused only while nothing can deliver, unless
   a call was overtaken ("so receipts never claim a confirmed pause that could not
   be verified"). *)
ConfirmedMeansPaused ==
  [][\A m \in Mutation :
       rows'[m].outcome = "confirmed_paused" /\ rows[m].outcome # "confirmed_paused"
        => overtaken \/ ~MayDeliver]_vars

(* Every client that asks, and asks again when told to, is told in the end
   whether the ads are active, paused or unconfirmed. *)
ClientIsAnswered ==
  \A c \in Call \ Jobs :
     pc[c] # "idle" ~> pc[c] = "done" /\ ctx[c].reply \in {"activated", "paused", "unknown"}

=============================================================================
