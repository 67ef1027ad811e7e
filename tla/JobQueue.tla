-------------------------------- MODULE JobQueue --------------------------------
(***************************************************************************)
(* The Postgres job queue: the table public.job_queue and the RPCs that    *)
(* write it (enqueue_job_v2, cancel_job_v2, claim_job_v2,                  *)
(* heartbeat_job, complete_job_v2, fail_job_v2, reap_stale_jobs), in the   *)
(* form the last migration that defines each of them leaves it in.         *)
(*                                                                         *)
(* Every RPC is one transaction over the rows it locks, so it is one       *)
(* action.  The callers are not modelled here: any caller may make any     *)
(* call with any lease token, which is the weakest assumption the queue    *)
(* can be asked to be correct under.  JobWorker adds the real caller.      *)
(*                                                                         *)
(* Abstractions.  A payload is represented by the dedupe key alone (and by *)
(* the plan it names, for a publish job); the workspace is part of the     *)
(* key.  The uuid minted by a claim is represented by the attempt number   *)
(* of that claim: attempts never decreases, so the two identify the same   *)
(* claim of the same row.  run_after and lease_expires_at are kept as the  *)
(* time left, in ticks.  Among the eligible rows of equal priority the     *)
(* oldest is taken by the code, any one here.  A row claimed without a     *)
(* token (the dropped legacy claim_job) does not occur, nor does a row of  *)
(* kind adbuilder.generate.template: nothing enqueues or handles that kind *)
(* any more, so the credit refund the reaper would make for it is left out.*)
(*                                                                         *)
(* A definition whose comment begins with "Slip" is not part of the model: *)
(* it is a plausible mistake in the definition that follows it, kept to    *)
(* show which property such a mistake would break.                         *)
(***************************************************************************)
EXTENDS Naturals, FiniteSets

CONSTANTS
  Job,          \* row identities
  Kind,         \* the kinds enqueued in this instance
  Key, NoKey,   \* dedupe keys (workspace and dedupe_key); NoKey is SQL null
  Budgets,      \* values of max_attempts
  StartDelays,  \* initial run_after - now(), in ticks
  Leases,       \* lease lengths after claim_job_v2's clamp, in ticks
  BackoffCap    \* the ten minutes a retry backoff is capped at, in ticks

MaxBudget == 25
Token == 1 .. MaxBudget
NoLease == 0
NoKind == "none"

ASSUME QueueAssumption ==
  /\ Job # {}
  /\ NoKey \notin Key
  /\ Kind \cap {NoKind, "adbuilder.generate.template"} = {}
  /\ Budgets \subseteq Token
  /\ StartDelays \subseteq Nat
  /\ Leases \subseteq Nat \ {0}
  /\ BackoffCap \in Nat

VARIABLES
  jobs,    \* public.job_queue
  plans    \* public.meta_publish_plans.status, by the key of its publish job

queueVars == <<jobs, plans>>

JobStatus == {"absent", "pending", "processing", "completed", "failed"}
Active == {"pending", "processing"}
Terminal == {"completed", "failed"}
PlanStatus == {"draft", "approved", "publishing", "paused_live", "failed"}

Row ==
  [status : JobStatus, kind : Kind \cup {NoKind}, key : Key \cup {NoKey},
   attempts : Nat, max : Nat, delay : Nat, lease : Nat, ttl : Nat]

NoRow ==
  [status |-> "absent", kind |-> NoKind, key |-> NoKey,
   attempts |-> 0, max |-> 0, delay |-> 0, lease |-> NoLease, ttl |-> 0]

Publish == "publish.meta.execute"
Receipt == "mautic_sync"

TypeOK ==
  /\ jobs \in [Job -> Row]
  /\ plans \in [Key -> PlanStatus]

QueueInit ==
  /\ jobs = [j \in Job |-> NoRow]
  /\ plans = [p \in Key |-> "draft"]

-----------------------------------------------------------------------------
(* Helpers *)

\* power(2, attempts) seconds, at most ten minutes
Backoff(n) == IF 2 ^ n \in 0 .. BackoffCap THEN 2 ^ n ELSE BackoffCap

Priority(k) ==
  CASE k \in {"publish.meta.execute", "publish.meta.mutate"} -> 0
    [] k = "adbuilder.generate.template"                      -> 1
    [] k = "deliver.lead"                                     -> 2
    [] k = "sync.meta.leads"                                  -> 3
    [] k = "reporting.refresh"                                -> 4
    [] OTHER                                                  -> 5

\* Slip: one attempt too many
ExhaustedLate(j) == jobs[j].attempts > jobs[j].max

Exhausted(j) == jobs[j].attempts >= jobs[j].max

\* Slip: any live lease will do, the caller's token is not compared
OwnsAnyLease(j, t) == jobs[j].status = "processing" /\ jobs[j].ttl > 0

\* The row lease check every fenced RPC starts with
Owns(j, t) ==
  /\ jobs[j].status = "processing"
  /\ jobs[j].lease = t
  /\ jobs[j].ttl > 0

Fresh(k, key, b, d) ==
  [NoRow EXCEPT !.status = "pending", !.kind = k, !.key = key, !.max = b, !.delay = d]

\* Slip: the attempt is not counted
TakenUncounted(r, n) == [r EXCEPT !.status = "processing", !.lease = r.attempts + 1, !.ttl = n]

Taken(r, n) ==
  [r EXCEPT !.status = "processing", !.attempts = r.attempts + 1,
            !.lease = r.attempts + 1, !.ttl = n]

\* Slip: a status the check constraint of job_queue does not allow
SettleDead(r, s) ==
  [r EXCEPT !.status = IF s = "failed" THEN "dead" ELSE s, !.delay = 0,
            !.lease = NoLease, !.ttl = 0]

Settle(r, s) == [r EXCEPT !.status = s, !.delay = 0, !.lease = NoLease, !.ttl = 0]

\* Slip: the lease of the failed attempt is left on the row
RetryKeepingLease(r) == [r EXCEPT !.status = "pending", !.delay = Backoff(r.attempts)]

Retry(r) ==
  [r EXCEPT !.status = "pending", !.delay = Backoff(r.attempts),
            !.lease = NoLease, !.ttl = 0]

-----------------------------------------------------------------------------
(* Producers *)

\* Slip: a row that is being processed does not block its key
ConflictsPending(k, key) ==
  { j \in Job : /\ jobs[j].kind = k
                /\ jobs[j].key = key /\ key # NoKey
                /\ k = Receipt \/ jobs[j].status = "pending" }

\* The rows the ON CONFLICT target of enqueue_job_v2 sees: mautic_sync keeps
\* one row for ever, every other kind one row at a time.
Conflicts(k, key) ==
  { j \in Job : /\ jobs[j].kind = k
                /\ jobs[j].key = key /\ key # NoKey
                /\ k = Receipt \/ jobs[j].status \in Active }

\* A new row; on a conflict the code returns the row that exists and changes
\* nothing this model keeps.  (enqueueVideoOptimise inserts its row itself and
\* takes a violation of the same unique index for the conflict.)
EnqueueAs(j, k, key, b, d) ==
  /\ k = Receipt => key # NoKey
  /\ Conflicts(k, key) = {}
  /\ jobs[j] = NoRow
  /\ jobs' = [jobs EXCEPT ![j] = Fresh(k, key, b, d)]
  /\ UNCHANGED plans

Enqueue(k, key, b, d) == \E j \in Job : EnqueueAs(j, k, key, b, d)

\* Slip: a row in any status is cancelled
CancelAny(j) ==
  /\ jobs[j].status # "absent"
  /\ jobs' = [jobs EXCEPT ![j] = Settle(@, "completed")]
  /\ UNCHANGED plans

Cancel(j) ==
  /\ jobs[j].status = "pending"
  /\ jobs' = [jobs EXCEPT ![j] = Settle(@, "completed")]
  /\ UNCHANGED plans

-----------------------------------------------------------------------------
(* Workers *)

Claimable(j) == jobs[j].status = "pending" /\ jobs[j].delay = 0 /\ ~Exhausted(j)

\* SKIP LOCKED passes over a better row only while another transaction holds
\* it; a pending row is held, and left pending, by an enqueue that conflicts
\* with it, so only a row with a key can be passed over.
Claim(j, n) ==
  /\ Claimable(j)
  /\ \A i \in Job :
        Claimable(i) /\ jobs[i].key = NoKey
          => Priority(jobs[j].kind) <= Priority(jobs[i].kind)
  /\ jobs' = [jobs EXCEPT ![j] = Taken(@, n)]
  /\ UNCHANGED plans

Heartbeat(j, t, n) ==
  /\ Owns(j, t)
  /\ jobs' = [jobs EXCEPT ![j].ttl = n]
  /\ UNCHANGED plans

Complete(j, t) ==
  /\ Owns(j, t)
  /\ jobs' = [jobs EXCEPT ![j] = Settle(@, "completed")]
  /\ UNCHANGED plans

\* The retry budget is spent: only an approved plan is failed with its job, a
\* publishing one keeps its status.
Fail(j, t) ==
  /\ Owns(j, t)
  /\ jobs' = [jobs EXCEPT ![j] = IF Exhausted(j) THEN Settle(@, "failed") ELSE Retry(@)]
  /\ plans' = [p \in Key |->
       IF /\ Exhausted(j) /\ jobs[j].kind = Publish /\ jobs[j].key = p
          /\ plans[p] = "approved"
       THEN "failed" ELSE plans[p]]

-----------------------------------------------------------------------------
(* The reaper *)

\* Slip: the lease's expiry is not compared with the clock
StaleAtOnce(j) ==
  \/ jobs[j].status = "pending" /\ Exhausted(j)
  \/ jobs[j].status = "processing"

\* Slip: only exhausted pending rows are reaped
StalePending(j) == jobs[j].status = "pending" /\ Exhausted(j)

Stale(j) ==
  \/ jobs[j].status = "pending" /\ Exhausted(j)
  \/ jobs[j].status = "processing" /\ jobs[j].ttl = 0

\* One transaction over every stale row that is not locked by another one;
\* here, unlike in Fail, a publishing plan is failed too.
Reap(S) ==
  /\ S # {}
  /\ \A j \in S : Stale(j)
  /\ jobs' = [j \in Job |->
       IF j \notin S THEN jobs[j]
       ELSE IF Exhausted(j) THEN Settle(jobs[j], "failed") ELSE Retry(jobs[j])]
  /\ plans' = [p \in Key |->
       IF /\ plans[p] \in {"approved", "publishing"}
          /\ \E j \in S : Exhausted(j) /\ jobs[j].kind = Publish /\ jobs[j].key = p
       THEN "failed" ELSE plans[p]]

-----------------------------------------------------------------------------
(* The environment: the publish routes and handlers write plan statuses, and
   time passes. *)

PlanWritten(p, s) == plans' = [plans EXCEPT ![p] = s] /\ UNCHANGED jobs

Less(n) == IF n = 0 THEN 0 ELSE n - 1

Aged(r) == [r EXCEPT !.delay = Less(r.delay), !.ttl = Less(r.ttl)]

Tick ==
  /\ jobs' = [j \in Job |-> Aged(jobs[j])]
  /\ UNCHANGED plans

Next ==
  \/ \E k \in Kind, key \in Key \cup {NoKey}, b \in Budgets, d \in StartDelays :
        Enqueue(k, key, b, d)
  \/ \E j \in Job : Cancel(j)
  \/ \E j \in Job, n \in Leases : Claim(j, n)
  \/ \E j \in Job, t \in Token, n \in Leases : Heartbeat(j, t, n)
  \/ \E j \in Job, t \in Token : Complete(j, t) \/ Fail(j, t)
  \/ \E S \in SUBSET Job : Reap(S)
  \/ \E p \in Key, s \in PlanStatus : PlanWritten(p, s)
  \/ Tick

Spec == QueueInit /\ [][Next]_queueVars

-----------------------------------------------------------------------------
(* Properties *)

(* A row carries a lease exactly while it is processing, and that lease is the
   one its latest claim minted: a token handed out by an earlier claim can
   never pass the fence again (heartbeat_job, complete_job_v2, fail_job_v2). *)
LatestClaimOwns ==
  \A j \in Job :
     /\ jobs[j].status = "processing" => jobs[j].lease = jobs[j].attempts
     /\ jobs[j].status # "processing" => jobs[j].lease = NoLease /\ jobs[j].ttl = 0

(* However enqueues, retries, reaps and settlements interleave, two live rows
   never carry the same kind and dedupe key, and a mautic_sync transition is
   never recorded twice, not even after its row settled. *)
DedupeHolds ==
  \A i, j \in Job :
     /\ i # j /\ jobs[i].kind = jobs[j].kind
     /\ jobs[i].key = jobs[j].key /\ jobs[i].key # NoKey
     => /\ ~(jobs[i].status \in Active /\ jobs[j].status \in Active)
        /\ jobs[i].kind # Receipt

(* The retry budget is neither exceeded nor given up early: a pending row can
   still be claimed (the pending half of the reaper's condition is never met),
   and a row fails only with its whole budget spent. *)
BudgetSpentExactly ==
  \A j \in Job :
     /\ jobs[j].attempts <= jobs[j].max
     /\ jobs[j].status = "pending" => jobs[j].attempts < jobs[j].max
     /\ jobs[j].status = "failed" => jobs[j].attempts = jobs[j].max

(* A settled row is never touched again: no late call of a worker that lost
   its lease, no reap and no re-enqueue under the same key revives it. *)
SettledForGood ==
  [][\A j \in Job : jobs[j].status \in Terminal => jobs'[j] = jobs[j]]_queueVars

\* What the queue promises about each job
Phase(s) ==
  CASE s = "absent" -> "absent"
    [] s = "pending" -> "waiting"
    [] s = "processing" -> "owned"
    [] s = "completed" -> "done"
    [] OTHER -> "dead"

Contract == INSTANCE JobContract WITH
  state <- [j \in Job |-> [phase |-> Phase(jobs[j].status),
                           takes |-> jobs[j].attempts, budget |-> jobs[j].max]]

(* The queue implements the contract of JobContract: one owner at a time, and
   every job finished, withdrawn or buried with its budget spent. *)
ImplementsContract == Contract!Spec

=============================================================================
