------------------------------ MODULE JobQueueProofs ------------------------------
(***************************************************************************)
(* What JobQueue guarantees for every set of rows, keys, kinds, budgets    *)
(* and lease lengths.  The invariants of single rows are collected in      *)
(* RowInv, which every row transformer preserves; DedupeHolds relates      *)
(* rows and is inductive beside it, because a row that is left behind      *)
(* never becomes active again.                                             *)
(***************************************************************************)
EXTENDS JobQueue, TLAPS

RowInv(r) ==
  /\ r \in Row
  /\ r.status = "processing" => r.lease = r.attempts /\ r.attempts > 0
  /\ r.status # "processing" => r.lease = NoLease /\ r.ttl = 0
  /\ r.max \in Budgets \cup {0}
  /\ r.attempts <= r.max
  /\ r.status = "absent" => r.attempts = 0
  /\ r.status = "pending" => r.attempts < r.max
  /\ r.status = "failed" => r.attempts = r.max
  /\ r.status \in Terminal => r.delay = 0

PlansTypeOK == plans \in [Key -> PlanStatus]

RowsInv == jobs \in [Job -> Row] /\ \A j \in Job : RowInv(jobs[j])

\* The inductive invariant
IInv == RowsInv /\ PlansTypeOK /\ DedupeHolds

-----------------------------------------------------------------------------
(* Rows *)

(* A backoff is a number of ticks: power(2, attempts), capped. *)
LEMMA BackoffType == \A n \in Nat : Backoff(n) \in Nat
BY QueueAssumption DEF Backoff

(* Settling a row - completed, or failed with its budget spent - keeps RowInv. *)
LEMMA SettleRow ==
  ASSUME NEW r, RowInv(r), NEW s \in Terminal, s = "failed" => r.attempts >= r.max
  PROVE  RowInv(Settle(r, s))
<1> DEFINE q == Settle(r, s)
<1>1. q \in Row /\ q.status = s /\ q.delay = 0 /\ q.lease = 0 /\ q.ttl = 0
      /\ q.attempts = r.attempts /\ q.max = r.max
  BY DEF RowInv, Row, Settle, Terminal, JobStatus, NoLease
<1>2. r.attempts \in Nat /\ r.max \in Nat /\ r.attempts <= r.max
  BY DEF RowInv, Row
<1> QED
  BY <1>1, <1>2 DEF RowInv, Terminal, NoLease

(* Giving a row back for a retry keeps RowInv while budget is left. *)
LEMMA RetryRow ==
  ASSUME NEW r, RowInv(r), r.attempts < r.max
  PROVE  RowInv(Retry(r))
<1>1. Backoff(r.attempts) \in Nat
  BY BackoffType DEF RowInv, Row
<1> QED
  BY <1>1 DEF RowInv, Row, Retry, JobStatus, NoLease, Terminal

(* A new row has its whole budget left. *)
LEMMA FreshRow ==
  ASSUME NEW k \in Kind, NEW key \in Key \cup {NoKey}, NEW b \in Budgets,
         NEW d \in StartDelays
  PROVE  RowInv(Fresh(k, key, b, d))
<1> DEFINE q == Fresh(k, key, b, d)
<1>1. b \in Nat /\ b > 0 /\ d \in Nat
  BY QueueAssumption DEF Token, MaxBudget
<1>2. q \in Row /\ q.status = "pending" /\ q.lease = 0 /\ q.ttl = 0
      /\ q.attempts = 0 /\ q.max = b
  BY <1>1 DEF Fresh, NoRow, Row, JobStatus, NoLease
<1> QED
  BY <1>1, <1>2 DEF RowInv, NoLease, Terminal

(* A claim of a row with budget left keeps RowInv. *)
LEMMA TakenRow ==
  ASSUME NEW r, RowInv(r), r.attempts < r.max, NEW n \in Leases
  PROVE  RowInv(Taken(r, n))
<1> DEFINE q == Taken(r, n)
<1>1. r \in Row /\ r.attempts \in Nat /\ r.max \in Nat /\ n \in Nat
      /\ r.attempts + 1 \in Nat
  BY QueueAssumption DEF RowInv, Row
<1>2. q \in Row
  BY <1>1 DEF Row, Taken, JobStatus
<1>3. q.status = "processing" /\ q.lease = r.attempts + 1
      /\ q.attempts = r.attempts + 1 /\ q.max = r.max
  BY <1>1 DEF Row, Taken
<1> QED
  BY <1>1, <1>2, <1>3 DEF RowInv, Terminal

(* The passing of time keeps RowInv. *)
LEMMA AgedRow ==
  ASSUME NEW r, RowInv(r)
  PROVE  RowInv(Aged(r))
<1> DEFINE q == Aged(r)
<1>1. Less(r.delay) \in Nat /\ Less(r.ttl) \in Nat /\ (r.ttl = 0 => Less(r.ttl) = 0)
      /\ (r.delay = 0 => Less(r.delay) = 0)
  BY DEF RowInv, Row, Less
<1>2. q \in Row /\ q.status = r.status /\ q.lease = r.lease /\ q.ttl = Less(r.ttl)
      /\ q.delay = Less(r.delay)
      /\ q.attempts = r.attempts /\ q.max = r.max
  BY <1>1 DEF RowInv, Row, Aged
<1> QED
  BY <1>1, <1>2 DEF RowInv

(* An empty slot satisfies RowInv. *)
LEMMA NoRowInv == RowInv(NoRow)
BY DEF RowInv, Row, NoRow, JobStatus, NoLease, Terminal

(* Every step of the queue leaves every row in order. *)
LEMMA RowsStep ==
  ASSUME RowsInv, [Next]_queueVars
  PROVE  RowsInv'
<1> SUFFICES ASSUME Next PROVE RowsInv'
  BY DEF queueVars, RowsInv
<1>1. ASSUME NEW i \in Job, NEW r, RowInv(r), jobs' = [jobs EXCEPT ![i] = r]
      PROVE  RowsInv'
  <2>1. r \in Row
    BY <1>1 DEF RowInv
  <2> QED
    BY <1>1, <2>1 DEF RowsInv
<1>2. ASSUME NEW k \in Kind, NEW key \in Key \cup {NoKey}, NEW b \in Budgets,
             NEW d \in StartDelays, Enqueue(k, key, b, d)
      PROVE  RowsInv'
  <2>1. PICK j \in Job : EnqueueAs(j, k, key, b, d)
    BY <1>2 DEF Enqueue
  <2> QED
    BY <1>1, <2>1, FreshRow DEF EnqueueAs
<1>3. ASSUME NEW j \in Job, Cancel(j) PROVE RowsInv'
  <2>1. RowInv(Settle(jobs[j], "completed"))
    BY SettleRow DEF RowsInv, Terminal
  <2> QED
    BY <1>1, <1>3, <2>1 DEF Cancel, RowsInv
<1>4. ASSUME NEW j \in Job, NEW n \in Leases, Claim(j, n) PROVE RowsInv'
  <2>1. RowInv(jobs[j]) /\ jobs[j].attempts < jobs[j].max
    BY <1>4 DEF Claim, Claimable, Exhausted, RowsInv, RowInv, Row
  <2>2. jobs' = [jobs EXCEPT ![j] = Taken(jobs[j], n)]
    BY <1>4 DEF Claim, RowsInv
  <2> QED
    BY <1>1, <2>1, <2>2, TakenRow
<1>5. ASSUME NEW j \in Job, NEW t \in Token, NEW n \in Leases, Heartbeat(j, t, n)
      PROVE  RowsInv'
  <2> DEFINE r == [jobs[j] EXCEPT !.ttl = n]
  <2>1. RowInv(jobs[j]) /\ n \in Nat /\ jobs[j].status = "processing"
    BY <1>5, QueueAssumption DEF Heartbeat, Owns, RowsInv
  <2>2. r \in Row /\ r.status = "processing" /\ r.lease = jobs[j].lease
        /\ r.delay = jobs[j].delay /\ r.attempts = jobs[j].attempts
        /\ r.max = jobs[j].max /\ r.kind = jobs[j].kind /\ r.key = jobs[j].key
    BY <2>1 DEF RowInv, Row
  <2>3. RowInv(r)
    BY <2>1, <2>2 DEF RowInv
  <2>4. jobs' = [jobs EXCEPT ![j] = r]
    BY <1>5 DEF Heartbeat, RowsInv
  <2> QED
    BY <1>1, <2>3, <2>4
<1>6. ASSUME NEW j \in Job, NEW t \in Token, Complete(j, t) PROVE RowsInv'
  <2>1. RowInv(Settle(jobs[j], "completed"))
    BY SettleRow DEF RowsInv, Terminal
  <2> QED
    BY <1>1, <1>6, <2>1 DEF Complete, RowsInv
<1>7. ASSUME NEW j \in Job, NEW t \in Token, Fail(j, t) PROVE RowsInv'
  <2> DEFINE r == IF Exhausted(j) THEN Settle(jobs[j], "failed") ELSE Retry(jobs[j])
  <2>1. RowInv(jobs[j]) /\ (~Exhausted(j) => jobs[j].attempts < jobs[j].max)
    BY DEF RowsInv, RowInv, Row, Exhausted
  <2>2. RowInv(r)
    BY <2>1, SettleRow, RetryRow DEF Exhausted, Terminal
  <2>3. jobs' = [jobs EXCEPT ![j] = r]
    BY <1>7 DEF Fail, RowsInv
  <2> QED
    BY <1>1, <2>2, <2>3
<1>8. ASSUME NEW S \in SUBSET Job, Reap(S) PROVE RowsInv'
  <2> DEFINE r(j) == IF j \notin S THEN jobs[j]
                     ELSE IF Exhausted(j) THEN Settle(jobs[j], "failed") ELSE Retry(jobs[j])
  <2>1. ASSUME NEW j \in Job PROVE RowInv(r(j)) /\ r(j) \in Row
    <3>1. RowInv(jobs[j]) /\ (~Exhausted(j) => jobs[j].attempts < jobs[j].max)
      BY DEF RowsInv, RowInv, Row, Exhausted
    <3>2. RowInv(r(j))
      BY <3>1, SettleRow, RetryRow DEF Exhausted, Terminal
    <3> QED
      BY <3>2 DEF RowInv
  <2>2. jobs' = [j \in Job |-> r(j)]
    BY <1>8 DEF Reap
  <2> HIDE DEF r
  <2> QED
    BY <2>1, <2>2 DEF RowsInv
<1>9. ASSUME NEW p \in Key, NEW s \in PlanStatus, PlanWritten(p, s) PROVE RowsInv'
  BY <1>9 DEF PlanWritten, RowsInv
<1>10. ASSUME Tick PROVE RowsInv'
  <2>1. ASSUME NEW j \in Job PROVE RowInv(Aged(jobs[j])) /\ Aged(jobs[j]) \in Row
    BY AgedRow DEF RowsInv, RowInv
  <2> QED
    BY <1>10, <2>1 DEF RowsInv, Tick
<1> QED
  BY <1>2, <1>3, <1>4, <1>5, <1>6, <1>7, <1>8, <1>9, <1>10 DEF Next

(* Plan statuses stay plan statuses. *)
LEMMA PlansStep ==
  ASSUME PlansTypeOK, [Next]_queueVars
  PROVE  PlansTypeOK'
<1>1. ASSUME NEW j \in Job, NEW t \in Token, Fail(j, t) PROVE PlansTypeOK'
  BY <1>1 DEF Fail, PlansTypeOK, PlanStatus
<1>2. ASSUME NEW S \in SUBSET Job, Reap(S) PROVE PlansTypeOK'
  BY <1>2 DEF Reap, PlansTypeOK, PlanStatus
<1>3. ASSUME NEW p \in Key, NEW s \in PlanStatus, PlanWritten(p, s) PROVE PlansTypeOK'
  BY <1>3 DEF PlanWritten, PlansTypeOK
<1>4. plans' = plans => PlansTypeOK'
  BY DEF PlansTypeOK
<1> QED
  BY <1>1, <1>2, <1>3, <1>4
     DEF Next, queueVars, Enqueue, EnqueueAs, Cancel, Claim, Heartbeat, Complete, Tick

-----------------------------------------------------------------------------
(* What one step of the queue may do to one row *)

\* The row keeps its identity and is not revived
SameJob(r, s) ==
  /\ s.kind = r.kind /\ s.key = r.key /\ s.max = r.max
  /\ s.status \in Active => r.status \in Active
  /\ r.status \in Terminal => s = r

\* Every row keeps its identity, or one empty slot receives a new row that no
\* row conflicts with.
StepShape ==
  \/ \A i \in Job : SameJob(jobs[i], jobs'[i])
  \/ \E j \in Job, k \in Kind, key \in Key \cup {NoKey}, b \in Budgets, d \in StartDelays :
        EnqueueAs(j, k, key, b, d)

(* Only an enqueue creates a row or changes its identity; no step revives one. *)
LEMMA StepShapeHolds ==
  ASSUME RowsInv, [Next]_queueVars
  PROVE  StepShape
<1> USE DEF RowsInv
<1>1. ASSUME NEW i \in Job, NEW r, SameJob(jobs[i], r), jobs' = [jobs EXCEPT ![i] = r]
      PROVE  \A j \in Job : SameJob(jobs[j], jobs'[j])
  BY <1>1 DEF SameJob
<1>2. ASSUME NEW r, RowInv(r), r.status \in Active, NEW s \in Terminal
      PROVE  SameJob(r, Settle(r, s))
  BY <1>2 DEF SameJob, Settle, RowInv, Row, Active, Terminal
<1>3. ASSUME NEW r, RowInv(r), r.status \in Active
      PROVE  SameJob(r, Retry(r))
  BY <1>3 DEF SameJob, Retry, RowInv, Row, Active, Terminal
<1>4. ASSUME NEW j \in Job, Cancel(j) PROVE StepShape
  BY <1>1, <1>2, <1>4 DEF Cancel, StepShape, Active, Terminal
<1>5. ASSUME NEW j \in Job, NEW n \in Leases, Claim(j, n) PROVE StepShape
  <2>1. SameJob(jobs[j], Taken(jobs[j], n))
    BY <1>5 DEF Claim, Claimable, SameJob, Taken, RowInv, Row, Active, Terminal
  <2> QED
    BY <1>1, <1>5, <2>1 DEF Claim, StepShape
<1>6. ASSUME NEW j \in Job, NEW t \in Token, NEW n \in Leases, Heartbeat(j, t, n)
      PROVE  StepShape
  <2>1. SameJob(jobs[j], [jobs[j] EXCEPT !.ttl = n])
    BY <1>6 DEF Heartbeat, Owns, SameJob, RowInv, Row, Active, Terminal
  <2>2. jobs' = [jobs EXCEPT ![j] = [jobs[j] EXCEPT !.ttl = n]]
    BY <1>6 DEF Heartbeat
  <2> QED
    BY <1>1, <2>1, <2>2 DEF StepShape
<1>7. ASSUME NEW j \in Job, NEW t \in Token, Complete(j, t) PROVE StepShape
  BY <1>1, <1>2, <1>7 DEF Complete, Owns, StepShape, Active, Terminal
<1>8. ASSUME NEW j \in Job, NEW t \in Token, Fail(j, t) PROVE StepShape
  <2> DEFINE r == IF Exhausted(j) THEN Settle(jobs[j], "failed") ELSE Retry(jobs[j])
  <2>1. SameJob(jobs[j], r)
    BY <1>2, <1>3, <1>8 DEF Fail, Owns, Active, Terminal
  <2>2. jobs' = [jobs EXCEPT ![j] = r]
    BY <1>8 DEF Fail
  <2> HIDE DEF r
  <2> QED
    BY <1>1, <2>1, <2>2 DEF StepShape
<1>9. ASSUME NEW S \in SUBSET Job, Reap(S) PROVE StepShape
  <2>1. ASSUME NEW i \in Job, i \in S PROVE SameJob(jobs[i], jobs'[i])
    <3>1. jobs[i].status \in Active /\ RowInv(jobs[i])
      BY <1>9, <2>1 DEF Reap, Stale, Active
    <3>2. jobs'[i] = IF Exhausted(i) THEN Settle(jobs[i], "failed") ELSE Retry(jobs[i])
      BY <1>9, <2>1 DEF Reap
    <3> QED
      BY <1>2, <1>3, <3>1, <3>2 DEF Terminal
  <2>2. ASSUME NEW i \in Job, i \notin S PROVE SameJob(jobs[i], jobs'[i])
    BY <1>9, <2>2 DEF Reap, SameJob
  <2> QED
    BY <2>1, <2>2 DEF StepShape
<1>10. ASSUME Tick PROVE StepShape
  <2>1. ASSUME NEW i \in Job PROVE SameJob(jobs[i], Aged(jobs[i]))
    <3>1. jobs[i] \in Row
      OBVIOUS
    <3>2. jobs[i].status \in Terminal => jobs[i].ttl = 0 /\ jobs[i].delay = 0
      BY DEF RowInv, Terminal
    <3> QED
      BY <3>1, <3>2 DEF SameJob, Aged, Less, Row
  <2> QED
    BY <1>10, <2>1 DEF Tick, StepShape
<1>11. jobs' = jobs => StepShape
  BY DEF StepShape, SameJob
<1> QED
  BY <1>4, <1>5, <1>6, <1>7, <1>8, <1>9, <1>10, <1>11
     DEF Next, queueVars, Enqueue, PlanWritten, StepShape

-----------------------------------------------------------------------------
(* Dedupe *)

(* DedupeHolds is preserved: a new row conflicts with none, and a row that was
   left behind never becomes active again. *)
LEMMA DedupeStep ==
  ASSUME RowsInv, DedupeHolds, [Next]_queueVars
  PROVE  DedupeHolds'
<1> SUFFICES ASSUME NEW a \in Job, NEW b \in Job, a # b,
                    jobs'[a].kind = jobs'[b].kind, jobs'[a].key = jobs'[b].key,
                    jobs'[a].key # NoKey
             PROVE  /\ ~(jobs'[a].status \in Active /\ jobs'[b].status \in Active)
                    /\ jobs'[a].kind # Receipt
  BY DEF DedupeHolds
<1>1. CASE \A i \in Job : SameJob(jobs[i], jobs'[i])
  BY <1>1 DEF SameJob, DedupeHolds
<1>2. ASSUME NEW j \in Job, NEW k \in Kind, NEW key \in Key \cup {NoKey},
             NEW m \in Budgets, NEW d \in StartDelays, EnqueueAs(j, k, key, m, d)
      PROVE  /\ ~(jobs'[a].status \in Active /\ jobs'[b].status \in Active)
             /\ jobs'[a].kind # Receipt
  <2>1. jobs'[j].kind = k /\ jobs'[j].key = key
    BY <1>2 DEF EnqueueAs, RowsInv, Fresh, NoRow
  <2>2. \A i \in Job : i # j => jobs'[i] = jobs[i]
    BY <1>2 DEF EnqueueAs, RowsInv
  <2>3. ASSUME NEW i \in Job, i # j, jobs[i].kind = k, jobs[i].key = key, key # NoKey
        PROVE  k # Receipt /\ jobs[i].status \notin Active
    BY <1>2, <2>3 DEF EnqueueAs, Conflicts
  <2>4. CASE a = j
    BY <2>1, <2>2, <2>3, <2>4
  <2>5. CASE b = j
    BY <2>1, <2>2, <2>3, <2>5
  <2>6. CASE a # j /\ b # j
    BY <2>2, <2>6 DEF DedupeHolds
  <2> QED
    BY <2>4, <2>5, <2>6
<1> QED
  BY <1>1, <1>2, StepShapeHolds DEF StepShape

-----------------------------------------------------------------------------
(* Theorems *)

(* The empty queue satisfies the inductive invariant. *)
LEMMA InitIInv == QueueInit => IInv
<1> SUFFICES ASSUME QueueInit PROVE IInv
  OBVIOUS
<1>1. RowsInv
  BY NoRowInv DEF QueueInit, RowsInv, RowInv
<1>2. PlansTypeOK
  BY DEF QueueInit, PlansTypeOK, PlanStatus
<1>3. DedupeHolds
  BY DEF QueueInit, DedupeHolds, NoRow
<1> QED
  BY <1>1, <1>2, <1>3 DEF IInv

(* Every RPC, every plan write and the clock preserve the inductive invariant. *)
LEMMA IInvStep == IInv /\ [Next]_queueVars => IInv'
BY RowsStep, PlansStep, DedupeStep DEF IInv

(* The inductive invariant holds in every reachable state of the queue. *)
THEOREM QueueInvariant == Spec => []IInv
BY InitIInv, IInvStep, PTL DEF Spec

(* Every row and plan has its type. *)
THEOREM QueueTypeCorrect == Spec => []TypeOK
<1>1. IInv => TypeOK
  BY DEF IInv, RowsInv, PlansTypeOK, TypeOK
<1> QED
  BY <1>1, QueueInvariant, PTL

(* A row is processing exactly under the lease of its latest claim: the tokens
   of earlier claims are fenced off. *)
THEOREM LatestClaimOwnsAlways == Spec => []LatestClaimOwns
<1>1. IInv => LatestClaimOwns
  BY DEF IInv, RowsInv, RowInv, LatestClaimOwns
<1> QED
  BY <1>1, QueueInvariant, PTL

(* No two live rows share a kind and a dedupe key, and no mautic_sync key is
   recorded twice. *)
THEOREM DedupeAlways == Spec => []DedupeHolds
<1>1. IInv => DedupeHolds
  BY DEF IInv
<1> QED
  BY <1>1, QueueInvariant, PTL

(* The retry budget is never exceeded and never given up early. *)
THEOREM BudgetSpentExactlyAlways == Spec => []BudgetSpentExactly
<1>1. IInv => BudgetSpentExactly
  BY DEF IInv, RowsInv, RowInv, BudgetSpentExactly
<1> QED
  BY <1>1, QueueInvariant, PTL

(* No call, however late, changes a settled row. *)
THEOREM SettledForGoodAlways == Spec => SettledForGood
<1>1. IInv /\ [Next]_queueVars
      => [\A j \in Job : jobs[j].status \in Terminal => jobs'[j] = jobs[j]]_queueVars
  <2> SUFFICES ASSUME IInv, [Next]_queueVars, NEW j \in Job, jobs[j].status \in Terminal
               PROVE  jobs'[j] = jobs[j]
    OBVIOUS
  <2>1. CASE \A i \in Job : SameJob(jobs[i], jobs'[i])
    BY <2>1 DEF SameJob
  <2>2. ASSUME NEW i \in Job, NEW k \in Kind, NEW key \in Key \cup {NoKey},
               NEW b \in Budgets, NEW d \in StartDelays, EnqueueAs(i, k, key, b, d)
        PROVE  jobs'[j] = jobs[j]
    <3>1. i # j
      BY <2>2 DEF EnqueueAs, NoRow, Terminal
    <3> QED
      BY <2>2, <3>1 DEF EnqueueAs, IInv, RowsInv
  <2> QED
    BY <2>1, <2>2, StepShapeHolds DEF StepShape, IInv
<1> QED
  BY <1>1, QueueInvariant, PTL DEF Spec, SettledForGood

-----------------------------------------------------------------------------
(* The queue implements the contract *)

Abs(r) == [phase |-> Phase(r.status), takes |-> r.attempts, budget |-> r.max]

(* Each of the row transformers is a step of the contract. *)
LEMMA AbsSettle ==
  ASSUME NEW r, RowInv(r), NEW s \in Terminal,
         \/ s = "completed" /\ r.status \in Active
         \/ s = "failed" /\ r.status = "processing" /\ r.attempts >= r.max
  PROVE  Contract!Step(Abs(r), Abs(Settle(r, s)))
<1>1. Settle(r, s).status = s /\ Settle(r, s).attempts = r.attempts
      /\ Settle(r, s).max = r.max
  BY DEF RowInv, Row, Settle
<1>2. r.attempts \in Nat /\ r.max \in Nat /\ r.attempts <= r.max
  BY DEF RowInv, Row
<1>3. CASE s = "completed" /\ r.status = "pending"
  BY <1>1, <1>3 DEF Contract!Step, Contract!Withdraw, Abs, Phase
<1>4. CASE s = "completed" /\ r.status = "processing"
  BY <1>1, <1>4 DEF Contract!Step, Contract!Finish, Abs, Phase
<1>5. CASE s = "failed" /\ r.status = "processing" /\ r.attempts >= r.max
  <2>1. r.attempts = r.max
    BY <1>2, <1>5
  <2> QED
    BY <1>1, <1>5, <2>1 DEF Contract!Step, Contract!Bury, Abs, Phase
<1> QED
  BY <1>3, <1>4, <1>5 DEF Active

(* A retry gives the job back to the waiting ones. *)
LEMMA AbsRetry ==
  ASSUME NEW r, RowInv(r), r.status = "processing", r.attempts < r.max
  PROVE  Contract!Step(Abs(r), Abs(Retry(r)))
<1>1. Retry(r).status = "pending" /\ Retry(r).attempts = r.attempts
      /\ Retry(r).max = r.max
  BY DEF RowInv, Row, Retry
<1> QED
  BY <1>1 DEF Contract!Step, Contract!GiveBack, Abs, Phase

(* A claim takes a waiting job and counts the take. *)
LEMMA AbsTaken ==
  ASSUME NEW r, RowInv(r), r.status = "pending", NEW n
  PROVE  Contract!Step(Abs(r), Abs(Taken(r, n)))
<1>1. Taken(r, n).status = "processing" /\ Taken(r, n).attempts = r.attempts + 1
      /\ Taken(r, n).max = r.max /\ r.attempts < r.max
  BY DEF RowInv, Row, Taken
<1>2. Abs(r) = [phase |-> "waiting", takes |-> r.attempts, budget |-> r.max]
  BY DEF Abs, Phase
<1>3. Abs(Taken(r, n)) = [phase |-> "owned", takes |-> r.attempts + 1, budget |-> r.max]
  BY <1>1 DEF Abs, Phase
<1>4. Contract!Take(Abs(r), Abs(Taken(r, n)))
  BY <1>1, <1>2, <1>3 DEF Contract!Take
<1> QED
  BY <1>4 DEF Contract!Step

(* An insert submits a new job with its budget. *)
LEMMA AbsFresh ==
  ASSUME NEW k, NEW key, NEW b \in Budgets, NEW d
  PROVE  Contract!Step(Abs(NoRow), Abs(Fresh(k, key, b, d)))
<1>1. Fresh(k, key, b, d).status = "pending" /\ Fresh(k, key, b, d).attempts = 0
      /\ Fresh(k, key, b, d).max = b
  BY DEF Fresh, NoRow
<1> QED
  BY <1>1 DEF Contract!Step, Contract!Submit, Abs, Phase, NoRow

(* Every step of the queue is, for every row, a step of the contract or none. *)
LEMMA ContractStep ==
  ASSUME IInv, [Next]_queueVars, NEW i \in Job
  PROVE  Abs(jobs'[i]) = Abs(jobs[i]) \/ Contract!Step(Abs(jobs[i]), Abs(jobs'[i]))
<1> DEFINE Goal == Abs(jobs'[i]) = Abs(jobs[i]) \/ Contract!Step(Abs(jobs[i]), Abs(jobs'[i]))
<1>0. RowInv(jobs[i]) /\ jobs \in [Job -> Row]
  BY DEF IInv, RowsInv
<1>1. ASSUME NEW k \in Kind, NEW key \in Key \cup {NoKey}, NEW b \in Budgets,
             NEW d \in StartDelays, NEW j \in Job, EnqueueAs(j, k, key, b, d)
      PROVE  Goal
  BY <1>0, <1>1, AbsFresh DEF EnqueueAs
<1>2. ASSUME NEW j \in Job, Cancel(j) PROVE Goal
  <2>1. CASE i = j
    BY <1>0, <1>2, <2>1, AbsSettle DEF Cancel, Active, Terminal
  <2> QED
    BY <1>0, <1>2, <2>1 DEF Cancel
<1>3. ASSUME NEW j \in Job, NEW n \in Leases, Claim(j, n) PROVE Goal
  <2>1. CASE i = j
    BY <1>0, <1>3, <2>1, AbsTaken DEF Claim, Claimable
  <2> QED
    BY <1>0, <1>3, <2>1 DEF Claim
<1>4. ASSUME NEW j \in Job, NEW t \in Token, NEW n \in Leases, Heartbeat(j, t, n)
      PROVE  Goal
  <2>1. [jobs[i] EXCEPT !.ttl = n].status = jobs[i].status
        /\ [jobs[i] EXCEPT !.ttl = n].attempts = jobs[i].attempts
        /\ [jobs[i] EXCEPT !.ttl = n].max = jobs[i].max
    BY <1>0 DEF Row
  <2>2. jobs'[i] = IF i = j THEN [jobs[i] EXCEPT !.ttl = n] ELSE jobs[i]
    BY <1>0, <1>4 DEF Heartbeat
  <2> QED
    BY <2>1, <2>2 DEF Abs
<1>5. ASSUME NEW j \in Job, NEW t \in Token, Complete(j, t) PROVE Goal
  <2>1. CASE i = j
    BY <1>0, <1>5, <2>1, AbsSettle DEF Complete, Owns, Active, Terminal
  <2> QED
    BY <1>0, <1>5, <2>1 DEF Complete
<1>6. ASSUME NEW j \in Job, NEW t \in Token, Fail(j, t) PROVE Goal
  <2>1. ~Exhausted(i) => jobs[i].attempts < jobs[i].max
    BY <1>0 DEF Exhausted, Row
  <2>2. CASE i = j
    <3>1. jobs[i].status = "processing"
          /\ jobs'[i] = IF Exhausted(i) THEN Settle(jobs[i], "failed") ELSE Retry(jobs[i])
      BY <1>0, <1>6, <2>2 DEF Fail, Owns
    <3> QED
      BY <1>0, <2>1, <3>1, AbsSettle, AbsRetry DEF Exhausted, Terminal
  <2> QED
    BY <1>0, <1>6, <2>2 DEF Fail
<1>7. ASSUME NEW S \in SUBSET Job, Reap(S) PROVE Goal
  <2>1. ~Exhausted(i) => jobs[i].attempts < jobs[i].max
    BY <1>0 DEF Exhausted, Row
  <2>2. CASE i \in S
    <3>1. jobs'[i] = IF Exhausted(i) THEN Settle(jobs[i], "failed") ELSE Retry(jobs[i])
      BY <1>7, <2>2 DEF Reap
    <3>2. jobs[i].status = "pending" => ~Exhausted(i)
      BY <1>0 DEF RowInv, Row, Exhausted
    <3>3. jobs[i].status = "processing"
      BY <1>7, <2>2, <3>2 DEF Reap, Stale
    <3> QED
      BY <1>0, <2>1, <3>1, <3>3, AbsSettle, AbsRetry DEF Exhausted, Terminal
  <2> QED
    BY <1>7, <2>2 DEF Reap
<1>8. ASSUME Tick PROVE Goal
  <2>1. Aged(jobs[i]).status = jobs[i].status /\ Aged(jobs[i]).attempts = jobs[i].attempts
        /\ Aged(jobs[i]).max = jobs[i].max
    BY <1>0 DEF Aged, Row
  <2> QED
    BY <1>8, <2>1 DEF Tick, Abs
<1>9. jobs' = jobs => Goal
  OBVIOUS
<1> QED
  BY <1>1, <1>2, <1>3, <1>4, <1>5, <1>6, <1>7, <1>8, <1>9
     DEF Next, queueVars, Enqueue, PlanWritten

(* The queue implements its contract: one owner at a time, and every job is
   withdrawn, finished, or buried with its whole budget spent. *)
THEOREM QueueImplementsContract == Spec => ImplementsContract
<1> DEFINE abs == [j \in Job |-> Abs(jobs[j])]
<1>1. QueueInit => Contract!Init
  BY DEF QueueInit, Contract!Init, NoRow, Phase
<1>2. ASSUME IInv, [Next]_queueVars PROVE Contract!Next
  BY <1>2, ContractStep DEF Contract!Next, Abs
<1> QED
  BY <1>1, <1>2, QueueInvariant, PTL DEF Spec, ImplementsContract, Contract!Spec
=============================================================================
