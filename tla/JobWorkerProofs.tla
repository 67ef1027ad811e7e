----------------------------- MODULE JobWorkerProofs -----------------------------
(***************************************************************************)
(* The worker implements the queue: everything its processes and their     *)
(* late requests do to the table is a step of JobQueue, so the theorems of *)
(* JobQueueProofs hold of the queue with its real caller.  And its own     *)
(* safety: one handler per process, no lease taken from a worker that      *)
(* holds it alive, no job completed but by its handler's success.          *)
(***************************************************************************)
EXTENDS JobWorker, JobQueueProofs

\* What one process knows is consistent with where it is
ProcessInv(r) ==
  /\ r.pc \notin {"idle", "down"} => r.job \in Job
  /\ r.hb # "none" => r.pc \in {"running", "stopping"}
  /\ r.pc \in {"idle", "down", "claimed", "running"} => r.result = "none" /\ ~r.lost
  /\ r.pc = "stopping" /\ ~r.lost => r.result # "none"
  /\ r.pc = "draining" => r.lost \/ r.result = "timeout"
  /\ r.pc = "settling" => r.result # "none"

ProcessesInv ==
  /\ wk \in [Worker -> WorkerState]
  /\ handlers \subseteq Call
  /\ late \subseteq Request
  /\ succeeded \subseteq [job : Job, lease : Nat]
  /\ \A w \in Worker : ProcessInv(wk[w])

\* A handler that runs is that of its process's current call, whose race it has
\* not won
HandlersInv ==
  \A h \in handlers :
    /\ h = CallOf(h.worker)
    /\ wk[h.worker].pc \in {"running", "stopping", "draining"}
    /\ wk[h.worker].result \notin {"ok", "error"}

ClaimOf(w) == [job |-> wk[w].job, lease |-> wk[w].lease]

\* Only a handler that resolved leads to a completion
SuccessInv ==
  /\ \A w \in Worker : wk[w].result = "ok" => ClaimOf(w) \in succeeded
  /\ \A q \in late :
       q.op = "complete" => [job |-> q.job, lease |-> q.lease] \in succeeded

Busy(w) == wk[w].pc \notin {"idle", "down"}
SameClaim(x, y) == x.job = y.job /\ x.lease = y.lease

\* Every claim is an earlier or the latest one of its row, is held by one
\* process, and is not settled while that process still works under it
ClaimsInv ==
  /\ \A w \in Worker : Busy(w) => wk[w].lease <= jobs[wk[w].job].attempts
  /\ \A q \in late : q.lease <= jobs[q.job].attempts
  /\ \A v, w \in Worker : Busy(v) /\ Busy(w) /\ v # w => ~SameClaim(wk[v], wk[w])
  /\ \A q \in late, w \in Worker :
       Working(w) /\ SameClaim(q, wk[w]) => q.op = "heartbeat"

\* The inductive invariant of the worker
WInv ==
  /\ IInv
  /\ ProcessesInv
  /\ HandlersInv
  /\ SuccessInv
  /\ ClaimsInv

-----------------------------------------------------------------------------
(* The steps of the worker are steps of the queue *)

(* The token of a row's owner is an attempt number. *)
LEMMA OwnerToken ==
  ASSUME RowsInv, NEW j \in Job, NEW t, Owns(j, t)
  PROVE  t \in Token
<1>1. RowInv(jobs[j]) /\ jobs[j].status = "processing" /\ jobs[j].lease = t
  BY DEF RowsInv, Owns
<1>2. t \in Nat /\ t > 0 /\ t <= jobs[j].max /\ jobs[j].max \in Token \cup {0}
  BY <1>1, QueueAssumption DEF RowInv, Row
<1> QED
  BY <1>2 DEF Token, MaxBudget

(* A request executed for a row is a step of the queue. *)
LEMMA ExecuteStep ==
  ASSUME RowsInv, NEW j \in Job, NEW t, NEW op,
         Execute(op, j, t) \/ UNCHANGED queueVars
  PROVE  [Next]_queueVars
<1> SUFFICES ASSUME Execute(op, j, t) PROVE Next
  OBVIOUS
<1>1. Owns(j, t) /\ t \in Token
  BY OwnerToken DEF Execute, Complete, Fail, Heartbeat
<1>2. Lease \in Leases
  BY WorkerAssumption
<1> QED
  BY <1>1, <1>2 DEF Execute, Next

(* Every step of the worker is a step of the queue, or leaves it alone. *)
LEMMA WorkerStep ==
  ASSUME RowsInv, ProcessesInv, [WNext]_vars
  PROVE  [Next]_queueVars
<1> USE DEF queueVars
<1>0. Lease \in Leases
  BY WorkerAssumption
<1>1. ASSUME NEW w \in Worker, ClaimJob(w) PROVE [Next]_queueVars
  BY <1>0, <1>1 DEF ClaimJob, Next
<1>2. CASE ClaimLate
  BY <1>0, <1>2 DEF ClaimLate, Next
<1>3. ASSUME NEW w \in Worker, HeartbeatExecute(w) PROVE [Next]_queueVars
  <2>1. wk[w].job \in Job
    BY <1>3 DEF HeartbeatExecute, ProcessesInv, ProcessInv
  <2>2. Execute("heartbeat", wk[w].job, wk[w].lease) \/ UNCHANGED queueVars
    BY <1>3 DEF HeartbeatExecute, Execute
  <2> QED
    BY <2>1, <2>2, ExecuteStep
<1>4. ASSUME NEW w \in Worker, SettleExecute(w) PROVE [Next]_queueVars
  <2>1. wk[w].job \in Job
    BY <1>4 DEF SettleExecute, ProcessesInv, ProcessInv
  <2>2. Execute(SettleOp(w), wk[w].job, wk[w].lease) \/ UNCHANGED queueVars
    BY <1>4 DEF SettleExecute
  <2> QED
    BY <2>1, <2>2, ExecuteStep
<1>5. ASSUME NEW q \in late, LateExecute(q) PROVE [Next]_queueVars
  <2>1. q.job \in Job
    BY <1>5 DEF ProcessesInv, Request
  <2>2. Execute(q.op, q.job, q.lease) \/ UNCHANGED queueVars
    BY <1>5 DEF LateExecute
  <2> QED
    BY <2>1, <2>2, ExecuteStep
<1>6. CASE Producer
  BY <1>6 DEF Producer, Next
<1>7. CASE Reaper
  BY <1>7 DEF Reaper, Next
<1>8. CASE TimePasses
  BY <1>8 DEF TimePasses, Next
<1>9. ASSUME NEW w \in Worker,
             \/ ClaimReply(w) \/ ClaimReplyLost(w) \/ Timeout(w) \/ HeartbeatStopped(w)
             \/ Drained(w) \/ DrainTimeout(w) \/ SettleError(w)
             \/ HeartbeatSend(w) \/ HeartbeatRenewed(w) \/ HeartbeatRefused(w)
             \/ HeartbeatError(w) \/ ProcessStep(w)
      PROVE  UNCHANGED queueVars
  BY <1>9 DEF ClaimReply, ClaimReplyLost, Timeout, HeartbeatStopped, Drained,
              DrainTimeout, SettleError, HeartbeatSend, HeartbeatRenewed,
              HeartbeatRefused, HeartbeatError, ProcessStep, Shutdown, Crash, Restart
<1>10. ASSUME NEW h \in handlers, NEW r, HandlerEnds(h, r) PROVE UNCHANGED queueVars
  BY <1>10 DEF HandlerEnds
<1>11. ASSUME NEW q \in late, LateLost(q) PROVE UNCHANGED queueVars
  BY <1>11 DEF LateLost
<1>12. CASE UNCHANGED vars
  BY <1>12 DEF vars
<1> QED
  BY <1>1, <1>2, <1>3, <1>4, <1>5, <1>6, <1>7, <1>8, <1>9, <1>10, <1>11, <1>12
  DEF WNext, RunStep, HeartbeatStep

-----------------------------------------------------------------------------
(* What a process knows stays consistent *)

LEMMA FreshProcesses ==
  /\ Idle \in WorkerState /\ ProcessInv(Idle)
  /\ Down \in WorkerState /\ ProcessInv(Down)
BY WorkerAssumption DEF Idle, Down, WorkerState, ProcessInv, NoLease

LEMMA LoopEnds == \A r : LoopEnd(r) \in {Idle, Down}
BY DEF LoopEnd

(* A change of one process that leaves it consistent leaves them all so. *)
LEMMA ProcessChange ==
  ASSUME wk \in [Worker -> WorkerState], \A v \in Worker : ProcessInv(wk[v]),
         NEW w \in Worker, NEW r \in WorkerState, ProcessInv(r), Becomes(w, r)
  PROVE  /\ wk' \in [Worker -> WorkerState]
         /\ \A v \in Worker : ProcessInv(wk'[v])
BY DEF Becomes

(* Giving up a lease leaves a process that is not settling consistent. *)
LEMMA LostProcess ==
  ASSUME NEW r \in WorkerState, ProcessInv(r), r.hb # "none"
  PROVE  LoseLease(r) \in WorkerState /\ ProcessInv(LoseLease(r))
<1>1. r.pc \in {"running", "stopping"}
  BY DEF ProcessInv
<1>2. LoseLease(r) \in WorkerState
  BY <1>1 DEF LoseLease, WorkerState
<1>3. /\ LoseLease(r).pc = "stopping" /\ LoseLease(r).hb = "none"
      /\ LoseLease(r).lost = TRUE /\ LoseLease(r).job = r.job
  BY <1>1 DEF LoseLease, WorkerState
<1> QED
  BY <1>1, <1>2, <1>3 DEF ProcessInv

(* The requests still travelling and the history stay in their types. *)
LEMMA GiveUpType ==
  ASSUME late \subseteq Request, NEW w \in Worker, wk[w].job \in Job, wk[w].lease \in Nat,
         NEW op \in {"heartbeat", "complete", "fail"}, GiveUp(op, w)
  PROVE  late' \subseteq Request
BY DEF GiveUp, Request

LEMMA ProcessesStep ==
  ASSUME RowsInv, ProcessesInv, [WNext]_vars
  PROVE  ProcessesInv'
<1> DEFINE Keep == UNCHANGED <<handlers, late, succeeded>>
<1> USE DEF ProcessesInv
<1>1. ASSUME NEW w \in Worker, NEW r \in WorkerState, ProcessInv(r), Becomes(w, r), Keep
      PROVE  ProcessesInv'
  BY <1>1, ProcessChange
<1>2. \A w \in Worker : wk[w] \in WorkerState /\ ProcessInv(wk[w])
  OBVIOUS
<1>3. ASSUME NEW w \in Worker, ClaimJob(w) PROVE ProcessesInv'
  <2>1. PICK j \in Job : Becomes(w, [wk[w] EXCEPT !.pc = "claimed", !.job = j,
                                                  !.lease = jobs[j].attempts + 1])
    BY <1>3 DEF ClaimJob
  <2> DEFINE r == [wk[w] EXCEPT !.pc = "claimed", !.job = j, !.lease = jobs[j].attempts + 1]
  <2>2. jobs[j].attempts + 1 \in Nat
    BY DEF RowsInv, Row
  <2>3. r \in WorkerState
    BY <1>2, <2>2 DEF WorkerState
  <2>4. ProcessInv(r)
    BY <1>2, <1>3 DEF ProcessInv, WorkerState, ClaimJob
  <2> QED
    BY <1>1, <1>3, <2>1, <2>3, <2>4 DEF ClaimJob
<1>4. ASSUME NEW w \in Worker, ClaimReply(w) PROVE ProcessesInv'
  <2> DEFINE r == [wk[w] EXCEPT !.pc = "running", !.deadline = Lease]
  <2>1. r \in WorkerState
    BY <1>2, WorkerAssumption, QueueAssumption DEF WorkerState
  <2>2. ProcessInv(r)
    BY <1>2, <1>4 DEF ProcessInv, WorkerState, ClaimReply
  <2>3. CallOf(w) \in Call
    BY <1>2, <1>4 DEF ClaimReply, CallOf, Call, ProcessInv, WorkerState
  <2> QED
    BY <1>4, <2>1, <2>2, <2>3, ProcessChange DEF ClaimReply
<1>5. ASSUME NEW w \in Worker, ClaimReplyLost(w) PROVE ProcessesInv'
  BY <1>1, <1>5, LoopEnds, FreshProcesses DEF ClaimReplyLost
<1>6. ASSUME NEW w \in Worker, HeartbeatSend(w) PROVE ProcessesInv'
  <2> DEFINE r == [wk[w] EXCEPT !.hb = "sent"]
  <2>1. r \in WorkerState /\ ProcessInv(r)
    BY <1>2, <1>6 DEF WorkerState, ProcessInv, HeartbeatSend
  <2> QED
    BY <1>1, <1>6, <2>1 DEF HeartbeatSend
<1>7. ASSUME NEW w \in Worker, HeartbeatExecute(w) PROVE ProcessesInv'
  <2>1. PICK x \in {"true", "false"} : Becomes(w, [wk[w] EXCEPT !.hb = x])
    BY <1>7 DEF HeartbeatExecute
  <2> DEFINE r == [wk[w] EXCEPT !.hb = x]
  <2>2. r \in WorkerState /\ ProcessInv(r)
    BY <1>2, <1>7 DEF WorkerState, ProcessInv, HeartbeatExecute
  <2> QED
    BY <1>1, <1>7, <2>1, <2>2 DEF HeartbeatExecute
<1>8. ASSUME NEW w \in Worker, HeartbeatRenewed(w) PROVE ProcessesInv'
  <2> DEFINE r == [wk[w] EXCEPT !.hb = "none", !.deadline = Lease]
  <2>1. r \in WorkerState /\ ProcessInv(r)
    BY <1>2, <1>8, WorkerAssumption, QueueAssumption DEF WorkerState, ProcessInv, HeartbeatRenewed
  <2> QED
    BY <1>1, <1>8, <2>1 DEF HeartbeatRenewed
<1>9. ASSUME NEW w \in Worker, HeartbeatRefused(w) PROVE ProcessesInv'
  BY <1>1, <1>2, <1>9, LostProcess DEF HeartbeatRefused
<1>10. ASSUME NEW w \in Worker, HeartbeatError(w) PROVE ProcessesInv'
  <2> DEFINE r == [wk[w] EXCEPT !.hb = "none"]
  <2>1. r \in WorkerState /\ ProcessInv(r)
    BY <1>2 DEF WorkerState, ProcessInv
  <2>2. LoseLease(wk[w]) \in WorkerState /\ ProcessInv(LoseLease(wk[w]))
    BY <1>2, <1>10, LostProcess DEF HeartbeatError
  <2>3. wk[w].job \in Job /\ wk[w].lease \in Nat
    BY <1>2, <1>10 DEF HeartbeatError, ProcessInv, WorkerState
  <2>4. late' \subseteq Request
    BY <1>10, <2>3, GiveUpType DEF HeartbeatError
  <2> QED
    BY <1>10, <2>1, <2>2, <2>4, ProcessChange DEF HeartbeatError
<1>11. ASSUME NEW h \in handlers, NEW x \in {"ok", "error"}, HandlerEnds(h, x)
       PROVE  ProcessesInv'
  <2> DEFINE w == h.worker
             r == [wk[w] EXCEPT !.pc = "stopping", !.result = x]
  <2>1. h \in Call /\ w \in Worker
    BY DEF Call
  <2>2. r \in WorkerState
    BY <1>2, <2>1 DEF WorkerState
  <2>3. wk[w].pc = "running" => ProcessInv(r)
    BY <1>2, <2>1 DEF WorkerState, ProcessInv
  <2>4. succeeded' \subseteq [job : Job, lease : Nat] /\ handlers' \subseteq Call
    BY <1>11, <2>1 DEF HandlerEnds, Call
  <2> QED
    BY <1>11, <2>1, <2>2, <2>3, <2>4, ProcessChange DEF HandlerEnds
<1>12. ASSUME NEW w \in Worker, Timeout(w) PROVE ProcessesInv'
  <2> DEFINE r == [wk[w] EXCEPT !.pc = "stopping", !.result = "timeout"]
  <2>1. r \in WorkerState /\ ProcessInv(r)
    BY <1>2, <1>12 DEF WorkerState, ProcessInv, Timeout
  <2> QED
    BY <1>1, <1>12, <2>1 DEF Timeout
<1>13. ASSUME NEW w \in Worker, HeartbeatStopped(w) PROVE ProcessesInv'
  <2> DEFINE p == IF wk[w].lost \/ wk[w].result = "timeout" THEN "draining" ELSE "settling"
             r == [wk[w] EXCEPT !.pc = p]
  <2>1. r \in WorkerState
    BY <1>2 DEF WorkerState
  <2>2. ProcessInv(r)
    BY <1>2, <1>13 DEF WorkerState, ProcessInv, HeartbeatStopped
  <2> QED
    BY <1>1, <1>13, <2>1, <2>2 DEF HeartbeatStopped
<1>14. ASSUME NEW w \in Worker, Drained(w) PROVE ProcessesInv'
  <2> DEFINE r == [wk[w] EXCEPT !.pc = "settling"]
  <2>1. r \in WorkerState /\ (~wk[w].lost => ProcessInv(r))
    BY <1>2, <1>14 DEF WorkerState, ProcessInv, Drained
  <2> QED
    BY <1>1, <1>14, <2>1, LoopEnds, FreshProcesses DEF Drained
<1>15. ASSUME NEW w \in Worker, DrainTimeout(w) \/ Crash(w) PROVE ProcessesInv'
  BY <1>15, ProcessChange, FreshProcesses DEF DrainTimeout, Crash
<1>16. ASSUME NEW w \in Worker, SettleExecute(w) PROVE ProcessesInv'
  BY <1>1, <1>16, LoopEnds, FreshProcesses DEF SettleExecute
<1>17. ASSUME NEW w \in Worker, SettleError(w) PROVE ProcessesInv'
  <2>1. wk[w].job \in Job /\ wk[w].lease \in Nat
    BY <1>2, <1>17 DEF SettleError, ProcessInv, WorkerState
  <2>2. late' \subseteq Request
    BY <1>17, <2>1, GiveUpType DEF SettleError, SettleOp
  <2> QED
    BY <1>17, <2>2, LoopEnds, FreshProcesses, ProcessChange DEF SettleError
<1>18. ASSUME NEW q \in late, LateExecute(q) \/ LateLost(q) PROVE ProcessesInv'
  BY <1>18 DEF LateExecute, LateLost
<1>19. ASSUME NEW w \in Worker, Shutdown(w) PROVE ProcessesInv'
  <2> DEFINE r == [wk[w] EXCEPT !.shutdown = TRUE]
  <2>1. r \in WorkerState /\ ProcessInv(r)
    BY <1>2 DEF WorkerState, ProcessInv
  <2> QED
    BY <1>1, <1>19, <2>1, FreshProcesses DEF Shutdown
<1>20. ASSUME NEW w \in Worker, Restart(w) PROVE ProcessesInv'
  BY <1>1, <1>20, FreshProcesses DEF Restart
<1>21. CASE ClaimLate \/ Producer \/ Reaper \/ UNCHANGED vars
  BY <1>21 DEF ClaimLate, Producer, Reaper, workerVars, vars
<1>22. CASE TimePasses
  <2>1. \A w \in Worker : Less(wk[w].deadline) \in Nat
    BY <1>2 DEF Less, WorkerState
  <2>2. \A w \in Worker : LET r == [wk[w] EXCEPT !.deadline = Less(wk[w].deadline)] IN
          r \in WorkerState /\ ProcessInv(r)
    BY <1>2, <2>1 DEF WorkerState, ProcessInv
  <2> QED
    BY <1>22, <2>2 DEF TimePasses
<1> QED
  BY <1>3, <1>4, <1>5, <1>6, <1>7, <1>8, <1>9, <1>10, <1>11, <1>12, <1>13, <1>14,
     <1>15, <1>16, <1>17, <1>18, <1>19, <1>20, <1>21, <1>22
  DEF WNext, RunStep, HeartbeatStep, ProcessStep

-----------------------------------------------------------------------------
(* Handlers *)

LEMMA NoHandler ==
  ASSUME HandlersInv, NEW w \in Worker,
         \/ wk[w].pc \notin {"running", "stopping", "draining"}
         \/ wk[w].result \in {"ok", "error"}
  PROVE  \A h \in handlers : h.worker # w
BY DEF HandlersInv

(* A process changes, and no handler is left behind by the change. *)
LEMMA HandlersKept ==
  ASSUME HandlersInv, ProcessesInv, NEW w \in Worker, NEW r, Becomes(w, r),
         handlers' \subseteq handlers,
         \A h \in handlers' : h.worker = w =>
            /\ r.job = wk[w].job /\ r.lease = wk[w].lease
            /\ r.pc \in {"running", "stopping", "draining"}
            /\ r.result \notin {"ok", "error"}
  PROVE  HandlersInv'
<1> SUFFICES ASSUME NEW h \in handlers'
             PROVE  /\ h = [worker |-> h.worker, job |-> wk'[h.worker].job,
                            lease |-> wk'[h.worker].lease]
                    /\ wk'[h.worker].pc \in {"running", "stopping", "draining"}
                    /\ wk'[h.worker].result \notin {"ok", "error"}
  BY DEF HandlersInv, CallOf
<1>1. h \in handlers /\ h.worker \in Worker /\ wk \in [Worker -> WorkerState]
  BY DEF ProcessesInv, Call
<1>2. /\ h = [worker |-> h.worker, job |-> wk[h.worker].job, lease |-> wk[h.worker].lease]
      /\ wk[h.worker].pc \in {"running", "stopping", "draining"}
      /\ wk[h.worker].result \notin {"ok", "error"}
  BY <1>1 DEF HandlersInv, CallOf
<1>3. CASE h.worker = w
  <2>1. wk'[w] = r
    BY <1>1 DEF Becomes
  <2>2. /\ r.job = wk[w].job /\ r.lease = wk[w].lease
        /\ r.pc \in {"running", "stopping", "draining"}
        /\ r.result \notin {"ok", "error"}
    BY <1>3
  <2> QED
    BY <1>2, <1>3, <2>1, <2>2
<1>4. CASE h.worker # w
  <2>1. wk'[h.worker] = wk[h.worker]
    BY <1>1, <1>4 DEF Becomes
  <2> QED
    BY <1>2, <2>1
<1> QED
  BY <1>3, <1>4

(* Every handler that still runs after a step belongs to the current, undecided
   call of its process. *)
LEMMA HandlersStep ==
  ASSUME ProcessesInv, HandlersInv, [WNext]_vars
  PROVE  HandlersInv'
<1>0. \A w \in Worker : wk[w] \in WorkerState /\ ProcessInv(wk[w])
  BY DEF ProcessesInv
<1>1. ASSUME NEW w \in Worker, \E r : Becomes(w, r), handlers' = handlers,
             \/ wk[w].pc \notin {"running", "stopping", "draining"}
             \/ wk[w].result \in {"ok", "error"}
      PROVE  HandlersInv'
  <2>1. PICK r : Becomes(w, r)
    BY <1>1
  <2> QED
    BY <1>1, <2>1, NoHandler, HandlersKept
<1>2. ASSUME NEW w \in Worker,
             \/ ClaimJob(w) \/ ClaimReplyLost(w) \/ SettleExecute(w) \/ SettleError(w)
             \/ Restart(w)
      PROVE  HandlersInv'
  BY <1>1, <1>2 DEF ClaimJob, ClaimReplyLost, SettleExecute, SettleError, Restart
<1>3. ASSUME NEW w \in Worker, ClaimReply(w) PROVE HandlersInv'
  <2> DEFINE r == [wk[w] EXCEPT !.pc = "running", !.deadline = Lease]
  <2>1. r.job = wk[w].job /\ r.lease = wk[w].lease /\ r.pc = "running" /\ r.result = "none"
    BY <1>0, <1>3 DEF WorkerState, ProcessInv, ClaimReply
  <2>2. wk' = [wk EXCEPT ![w] = r] /\ wk \in [Worker -> WorkerState] /\ wk'[w] = r
    BY <1>3 DEF ClaimReply, Becomes, ProcessesInv
  <2>3. \A h \in handlers : h.worker \in Worker /\ h.worker # w
    BY <1>3, NoHandler DEF ClaimReply, ProcessesInv, Call
  <2>4. \A h \in handlers : wk'[h.worker] = wk[h.worker]
    BY <2>2, <2>3
  <2>5. handlers' = handlers \cup {[worker |-> w, job |-> wk[w].job, lease |-> wk[w].lease]}
    BY <1>3 DEF ClaimReply, CallOf
  <2> QED
    BY <2>1, <2>2, <2>4, <2>5 DEF HandlersInv, CallOf
<1>4. ASSUME NEW w \in Worker,
             \/ HeartbeatSend(w) \/ HeartbeatExecute(w) \/ HeartbeatRenewed(w)
             \/ HeartbeatRefused(w) \/ HeartbeatError(w)
      PROVE  HandlersInv'
  <2>1. ASSUME NEW r, Becomes(w, r), handlers' = handlers,
               r.job = wk[w].job, r.lease = wk[w].lease, r.result = wk[w].result,
               r.pc \in {"running", "stopping", "draining"}
        PROVE  HandlersInv'
    BY <2>1, HandlersKept DEF HandlersInv
  <2>2. wk[w].pc \in {"running", "stopping"} /\ wk[w] \in WorkerState
    BY <1>0, <1>4 DEF HeartbeatSend, HeartbeatExecute, HeartbeatRenewed,
                      HeartbeatRefused, HeartbeatError, ProcessInv
  <2>3. ASSUME NEW x,
               \/ Becomes(w, [wk[w] EXCEPT !.hb = x])
               \/ Becomes(w, [wk[w] EXCEPT !.hb = x, !.deadline = Lease])
               \/ Becomes(w, LoseLease(wk[w])),
               handlers' = handlers
        PROVE  HandlersInv'
    <3>1. LET r == LoseLease(wk[w]) IN
            /\ r.job = wk[w].job /\ r.lease = wk[w].lease /\ r.result = wk[w].result
            /\ r.pc = "stopping"
      BY <2>2 DEF LoseLease, WorkerState
    <3>2. LET r == [wk[w] EXCEPT !.hb = x] IN
            /\ r.job = wk[w].job /\ r.lease = wk[w].lease /\ r.result = wk[w].result
            /\ r.pc = wk[w].pc
      BY <2>2 DEF WorkerState
    <3>3. LET r == [wk[w] EXCEPT !.hb = x, !.deadline = Lease] IN
            /\ r.job = wk[w].job /\ r.lease = wk[w].lease /\ r.result = wk[w].result
            /\ r.pc = wk[w].pc
      BY <2>2 DEF WorkerState
    <3> QED
      BY <2>1, <2>2, <2>3, <3>1, <3>2, <3>3
  <2> QED
    BY <1>4, <2>3 DEF HeartbeatSend, HeartbeatExecute, HeartbeatRenewed,
                      HeartbeatRefused, HeartbeatError
<1>5. ASSUME NEW h \in handlers, NEW x \in {"ok", "error"}, HandlerEnds(h, x)
      PROVE  HandlersInv'
  <2>1. h.worker \in Worker /\ handlers' = handlers \ {h}
    BY <1>5 DEF HandlerEnds, ProcessesInv, Call
  <2>2. \A g \in handlers' : g.worker # h.worker
    BY <2>1 DEF HandlersInv
  <2>3. CASE UNCHANGED wk
    BY <2>1, <2>3 DEF HandlersInv, CallOf
  <2>4. CASE \E r : Becomes(h.worker, r)
    BY <2>1, <2>2, <2>4, HandlersKept
  <2> QED
    BY <1>5, <2>3, <2>4 DEF HandlerEnds
<1>6. ASSUME NEW w \in Worker, Timeout(w) \/ HeartbeatStopped(w) PROVE HandlersInv'
  <2>1. CASE Timeout(w)
    <3> DEFINE r == [wk[w] EXCEPT !.pc = "stopping", !.result = "timeout"]
    <3>1. /\ r.job = wk[w].job /\ r.lease = wk[w].lease
          /\ r.pc = "stopping" /\ r.result \notin {"ok", "error"}
      BY <1>0 DEF WorkerState
    <3>2. Becomes(w, r) /\ handlers' = handlers
      BY <2>1 DEF Timeout
    <3> HIDE DEF r
    <3> QED
      BY <3>1, <3>2, HandlersKept
  <2>2. CASE HeartbeatStopped(w)
    <3> DEFINE p == IF wk[w].lost \/ wk[w].result = "timeout" THEN "draining" ELSE "settling"
               r == [wk[w] EXCEPT !.pc = p]
    <3>1. /\ r.job = wk[w].job /\ r.lease = wk[w].lease
          /\ r.pc = p /\ r.result = wk[w].result
      BY <1>0 DEF WorkerState
    <3>2. wk[w].result \in {"none", "ok", "error", "timeout"}
      BY <1>0 DEF WorkerState
    <3>3. p = "settling" => wk[w].result \in {"ok", "error"}
      BY <1>0, <2>2, <3>2 DEF HeartbeatStopped, ProcessInv
    <3>4. Becomes(w, r) /\ handlers' = handlers
      BY <2>2 DEF HeartbeatStopped
    <3>5. CASE wk[w].result \in {"ok", "error"}
      BY <1>1, <3>4, <3>5
    <3>6. CASE wk[w].result \notin {"ok", "error"}
      <4>1. p = "draining"
        BY <3>3, <3>6
      <4>2. /\ r.job = wk[w].job /\ r.lease = wk[w].lease
            /\ r.pc = "draining" /\ r.result \notin {"ok", "error"}
        BY <3>1, <3>6, <4>1
      <4> HIDE DEF r
      <4> QED
        BY <3>4, <4>2, HandlersKept
    <3> QED
      BY <3>5, <3>6
  <2> QED
    BY <1>6, <2>1, <2>2
<1>7. ASSUME NEW w \in Worker, Drained(w) PROVE HandlersInv'
  <2>1. \A h \in handlers : h.worker # w
    BY <1>7 DEF Drained, HandlersInv
  <2>2. \E r : Becomes(w, r)
    BY <1>7 DEF Drained
  <2> QED
    BY <1>7, <2>1, <2>2, HandlersKept DEF Drained
<1>8. ASSUME NEW w \in Worker, DrainTimeout(w) \/ Crash(w) PROVE HandlersInv'
  BY <1>8, HandlersKept DEF DrainTimeout, Crash
<1>9. ASSUME NEW w \in Worker, Shutdown(w) PROVE HandlersInv'
  <2> DEFINE r == [wk[w] EXCEPT !.shutdown = TRUE]
  <2>1. /\ r.job = wk[w].job /\ r.lease = wk[w].lease /\ r.result = wk[w].result
        /\ r.pc = wk[w].pc
    BY <1>0 DEF WorkerState
  <2>2. CASE wk[w].pc = "idle"
    BY <1>1, <1>9, <2>2 DEF Shutdown
  <2>3. CASE wk[w].pc # "idle"
    <3>1. Becomes(w, r) /\ handlers' = handlers
      BY <1>9, <2>3 DEF Shutdown
    <3>2. \A h \in handlers : h.worker = w =>
             r.pc \in {"running", "stopping", "draining"} /\ r.result \notin {"ok", "error"}
      BY <2>1 DEF HandlersInv
    <3> HIDE DEF r
    <3> QED
      BY <2>1, <3>1, <3>2, HandlersKept
  <2> QED
    BY <2>2, <2>3
<1>10. CASE ClaimLate \/ Producer \/ Reaper \/ UNCHANGED vars
            \/ \E q \in late : LateExecute(q) \/ LateLost(q)
  BY <1>10 DEF ClaimLate, Producer, Reaper, LateExecute, LateLost, workerVars, vars,
               HandlersInv, CallOf
<1>11. CASE TimePasses
  <2>1. \A w \in Worker : /\ wk'[w].job = wk[w].job /\ wk'[w].lease = wk[w].lease
                          /\ wk'[w].pc = wk[w].pc /\ wk'[w].result = wk[w].result
    BY <1>0, <1>11 DEF TimePasses, WorkerState
  <2>2. handlers' = handlers /\ \A h \in handlers : h.worker \in Worker
    BY <1>11 DEF TimePasses, ProcessesInv, Call
  <2> QED
    BY <2>1, <2>2 DEF HandlersInv, CallOf
<1> QED
  BY <1>2, <1>3, <1>4, <1>5, <1>6, <1>7, <1>8, <1>9, <1>10, <1>11
  DEF WNext, RunStep, HeartbeatStep, ProcessStep

-----------------------------------------------------------------------------
(* What a step may do to the claims of the processes *)

Gone(r) == r.pc \in {"idle", "down"} /\ r.result = "none"

\* From r to s a process stays under its claim
Follows(r, s) ==
  /\ s.job = r.job /\ s.lease = r.lease
  /\ r.pc \notin {"idle", "down"}
  /\ s.pc \in {"claimed", "running", "stopping", "draining"}
       => r.pc \in {"claimed", "running", "stopping", "draining"}
  /\ s.result = "ok" => r.result = "ok" \/ [job |-> r.job, lease |-> r.lease] \in succeeded'

\* A request that joins the late ones is a heartbeat, or the settlement of a
\* process that ends with it
Joins(q, w) ==
  /\ wk[w].pc \notin {"idle", "down"} /\ SameClaim(q, wk[w])
  /\ \/ q.op = "heartbeat"
     \/ /\ wk[w].pc = "settling" /\ Gone(wk'[w])
        /\ q.op = "complete" => wk[w].result = "ok"

ClaimShape ==
  /\ \A v \in Worker : Gone(wk'[v]) \/ Follows(wk[v], wk'[v])
  /\ succeeded \subseteq succeeded'
  /\ \A q \in late' \ late : \E w \in Worker : Joins(q, w)

(* One process changes, under its claim or ending it. *)
LEMMA OneMoves ==
  ASSUME ProcessesInv, NEW w \in Worker, NEW r, Becomes(w, r),
         Gone(r) \/ Follows(wk[w], r),
         succeeded \subseteq succeeded',
         \A q \in late' \ late : Joins(q, w)
  PROVE  ClaimShape
<1>1. wk' = [wk EXCEPT ![w] = r] /\ wk \in [Worker -> WorkerState]
  BY DEF Becomes, ProcessesInv
<1>2. ASSUME NEW v \in Worker, v # w PROVE Gone(wk'[v]) \/ Follows(wk[v], wk'[v])
  <2>1. wk'[v] = wk[v] /\ ProcessInv(wk[v])
    BY <1>1, <1>2 DEF ProcessesInv
  <2> QED
    BY <2>1 DEF Gone, Follows, ProcessInv
<1>3. wk'[w] = r
  BY <1>1
<1> QED
  BY <1>2, <1>3 DEF ClaimShape

(* The shape of every step but a claim. *)
LEMMA ClaimShapeHolds ==
  ASSUME ProcessesInv, [WNext]_vars, \A w \in Worker : ~ClaimJob(w)
  PROVE  ClaimShape
<1>0. \A w \in Worker : wk[w] \in WorkerState /\ ProcessInv(wk[w])
  BY DEF ProcessesInv
<1>1. ASSUME NEW w \in Worker, NEW r, Becomes(w, r), Gone(r) \/ Follows(wk[w], r),
             UNCHANGED <<late, succeeded>>
      PROVE  ClaimShape
  BY <1>1, OneMoves
<1>2. Gone(Idle) /\ Gone(Down) /\ \A r : Gone(LoopEnd(r))
  BY DEF Gone, Idle, Down, LoopEnd
<1>3. ASSUME NEW w \in Worker, NEW op, GiveUp(op, w), wk[w].pc \notin {"idle", "down"},
             \/ op = "heartbeat"
             \/ /\ wk[w].pc = "settling" /\ Gone(wk'[w])
                /\ op = "complete" => wk[w].result = "ok"
      PROVE  \A q \in late' \ late : Joins(q, w)
  BY <1>3 DEF GiveUp, Joins, SameClaim
<1>4. ASSUME NEW w \in Worker,
             \/ ClaimReplyLost(w) \/ SettleExecute(w)
             \/ DrainTimeout(w) \/ Crash(w) \/ Restart(w)
      PROVE  ClaimShape
  BY <1>1, <1>2, <1>4 DEF ClaimReplyLost, SettleExecute, DrainTimeout, Crash, Restart
<1>5. ASSUME NEW w \in Worker, SettleError(w) PROVE ClaimShape
  <2>1. Becomes(w, LoopEnd(wk[w])) /\ wk'[w] = LoopEnd(wk[w])
    BY <1>5 DEF SettleError, Becomes, ProcessesInv
  <2>2. SettleOp(w) = "complete" => wk[w].result = "ok"
    BY DEF SettleOp
  <2>3. \A q \in late' \ late : Joins(q, w)
    BY <1>2, <1>3, <1>5, <2>1, <2>2 DEF SettleError
  <2> QED
    BY <1>2, <1>5, <2>1, <2>3, OneMoves DEF SettleError
<1>6. ASSUME NEW w \in Worker, NEW r, wk[w].pc \in {"claimed", "running", "stopping"},
             r.job = wk[w].job, r.lease = wk[w].lease,
             r.result = wk[w].result \/ r.result = "timeout"
      PROVE  Follows(wk[w], r)
  BY <1>6 DEF Follows
<1>7. ASSUME NEW w \in Worker,
             \/ ClaimReply(w) \/ Timeout(w) \/ HeartbeatSend(w) \/ HeartbeatExecute(w)
             \/ HeartbeatRenewed(w) \/ HeartbeatRefused(w)
      PROVE  ClaimShape
  <2>1. wk[w].pc \in {"claimed", "running", "stopping"}
    BY <1>0, <1>7 DEF ClaimReply, Timeout, HeartbeatSend, HeartbeatExecute, HeartbeatRenewed,
                      HeartbeatRefused, ProcessInv
  <2>2. ASSUME NEW r, Becomes(w, r), r.job = wk[w].job, r.lease = wk[w].lease,
               r.result = wk[w].result \/ r.result = "timeout",
               UNCHANGED <<late, succeeded>>
        PROVE  ClaimShape
    BY <1>1, <1>6, <2>1, <2>2
  <2>3. ASSUME NEW x, Becomes(w, [wk[w] EXCEPT !.hb = x]), UNCHANGED <<late, succeeded>>
        PROVE  ClaimShape
    BY <1>0, <2>2, <2>3 DEF WorkerState
  <2>4. CASE ClaimReply(w)
    BY <1>0, <2>2, <2>4 DEF ClaimReply, WorkerState
  <2>5. CASE Timeout(w)
    BY <1>0, <2>2, <2>5 DEF Timeout, WorkerState
  <2>6. CASE HeartbeatSend(w) \/ HeartbeatExecute(w)
    BY <2>3, <2>6 DEF HeartbeatSend, HeartbeatExecute
  <2>7. CASE HeartbeatRenewed(w)
    BY <1>0, <2>2, <2>7 DEF HeartbeatRenewed, WorkerState
  <2>8. CASE HeartbeatRefused(w)
    BY <1>0, <2>2, <2>8 DEF HeartbeatRefused, LoseLease, WorkerState
  <2> QED
    BY <1>7, <2>4, <2>5, <2>6, <2>7, <2>8
<1>8. ASSUME NEW w \in Worker, HeartbeatError(w) PROVE ClaimShape
  <2>1. wk[w].pc \in {"claimed", "running", "stopping"}
    BY <1>0, <1>8 DEF HeartbeatError, ProcessInv
  <2>2. \A q \in late' \ late : Joins(q, w)
    BY <1>3, <1>8, <2>1 DEF HeartbeatError
  <2> DEFINE r == IF Margin >= wk[w].deadline
                  THEN LoseLease(wk[w]) ELSE [wk[w] EXCEPT !.hb = "none"]
  <2>3. Becomes(w, r)
    BY <1>8 DEF HeartbeatError
  <2>4. r.job = wk[w].job /\ r.lease = wk[w].lease /\ r.result = wk[w].result
    BY <1>0 DEF LoseLease, WorkerState
  <2>5. succeeded' = succeeded
    BY <1>8 DEF HeartbeatError
  <2> HIDE DEF r
  <2>6. Follows(wk[w], r)
    BY <1>6, <2>1, <2>4
  <2> QED
    BY <2>2, <2>3, <2>5, <2>6, OneMoves
<1>9. ASSUME NEW h \in handlers, NEW x \in {"ok", "error"}, HandlerEnds(h, x)
      PROVE  ClaimShape
  <2> DEFINE w == h.worker
             r == [wk[w] EXCEPT !.pc = "stopping", !.result = x]
  <2>1. w \in Worker /\ succeeded \subseteq succeeded' /\ late' = late
    BY <1>9 DEF HandlerEnds, ProcessesInv, Call
  <2>2. CASE UNCHANGED wk
    BY <1>0, <2>1, <2>2 DEF ClaimShape, Gone, Follows, ProcessInv
  <2>3. CASE wk[w].pc = "running" /\ CallOf(w) = h /\ Becomes(w, r)
    <3>1. x = "ok" => [job |-> wk[w].job, lease |-> wk[w].lease] \in succeeded'
      BY <1>9, <2>3 DEF HandlerEnds, CallOf
    <3>2. /\ r.job = wk[w].job /\ r.lease = wk[w].lease
          /\ r.pc = "stopping" /\ r.result = x
      BY <1>0, <2>1 DEF WorkerState
    <3>3. Follows(wk[w], r)
      BY <2>3, <3>1, <3>2 DEF Follows
    <3> HIDE DEF r
    <3> QED
      BY <2>1, <2>3, <3>3, OneMoves
  <2> QED
    BY <1>9, <2>2, <2>3 DEF HandlerEnds
<1>10. ASSUME NEW w \in Worker, HeartbeatStopped(w) PROVE ClaimShape
  <2> DEFINE p == IF wk[w].lost \/ wk[w].result = "timeout" THEN "draining" ELSE "settling"
             r == [wk[w] EXCEPT !.pc = p]
  <2>1. Follows(wk[w], r)
    BY <1>0, <1>10 DEF Follows, HeartbeatStopped, WorkerState
  <2> QED
    BY <1>1, <1>10, <2>1 DEF HeartbeatStopped
<1>11. ASSUME NEW w \in Worker, Drained(w) PROVE ClaimShape
  <2> DEFINE r == [wk[w] EXCEPT !.pc = "settling"]
  <2>1. Follows(wk[w], r)
    BY <1>0, <1>11 DEF Follows, Drained, WorkerState
  <2> QED
    BY <1>1, <1>2, <1>11, <2>1 DEF Drained
<1>12. ASSUME NEW w \in Worker, Shutdown(w) PROVE ClaimShape
  <2> DEFINE r == [wk[w] EXCEPT !.shutdown = TRUE]
  <2>1. wk[w].pc # "idle" => Follows(wk[w], r)
    BY <1>0, <1>12 DEF Follows, Shutdown, WorkerState
  <2> QED
    BY <1>1, <1>2, <1>12, <2>1 DEF Shutdown
<1>13. CASE ClaimLate \/ Producer \/ Reaper \/ UNCHANGED vars
            \/ \E q \in late : LateExecute(q) \/ LateLost(q)
  <2>1. UNCHANGED <<wk, succeeded>> /\ late' \subseteq late
    BY <1>13 DEF ClaimLate, Producer, Reaper, LateExecute, LateLost, workerVars, vars
  <2> QED
    BY <1>0, <2>1 DEF ClaimShape, Gone, Follows, ProcessInv
<1>14. CASE TimePasses
  <2>1. \A w \in Worker : /\ wk'[w].job = wk[w].job /\ wk'[w].lease = wk[w].lease
                          /\ wk'[w].pc = wk[w].pc /\ wk'[w].result = wk[w].result
    BY <1>0, <1>14 DEF TimePasses, WorkerState
  <2>2. UNCHANGED <<late, succeeded>>
    BY <1>14 DEF TimePasses
  <2> QED
    BY <1>0, <2>1, <2>2 DEF ClaimShape, Gone, Follows, ProcessInv
<1> QED
  BY <1>4, <1>5, <1>7, <1>8, <1>9, <1>10, <1>11, <1>12, <1>13, <1>14
  DEF WNext, RunStep, HeartbeatStep, ProcessStep

-----------------------------------------------------------------------------
(* Claims and completions *)

(* No step takes back an attempt of a row. *)
LEMMA AttemptsGrow ==
  ASSUME IInv, [Next]_queueVars, NEW j \in Job
  PROVE  /\ jobs[j].attempts \in Nat /\ jobs'[j].attempts \in Nat
         /\ jobs[j].attempts <= jobs'[j].attempts
<1>1. RowsInv /\ RowsInv'
  BY RowsStep DEF IInv
<1>2. /\ jobs[j].attempts \in Nat /\ jobs'[j].attempts \in Nat
      /\ jobs[j].status \in JobStatus
  BY <1>1 DEF RowsInv, Row
<1>3. Abs(jobs[j]).takes = jobs[j].attempts /\ Abs(jobs'[j]).takes = jobs'[j].attempts
  BY DEF Abs
<1>4. CASE Abs(jobs'[j]) = Abs(jobs[j])
  BY <1>2, <1>3, <1>4
<1>5. Abs(jobs[j]).phase = "absent" => jobs[j].attempts = 0
  BY <1>1, <1>2 DEF Abs, Phase, RowsInv, RowInv, JobStatus
<1>6. CASE Contract!Step(Abs(jobs[j]), Abs(jobs'[j]))
  <2> DEFINE s == Abs(jobs[j])
             t == Abs(jobs'[j])
  <2>1. CASE Contract!Submit(s, t)
    BY <1>2, <1>3, <1>5, <2>1 DEF Contract!Submit
  <2>2. CASE Contract!Take(s, t)
    BY <1>2, <1>3, <2>2 DEF Contract!Take
  <2>3. CASE \E x : t = [s EXCEPT !.phase = x]
    BY <1>2, <1>3, <2>3 DEF Abs
  <2> QED
    BY <1>6, <2>1, <2>2, <2>3 DEF Contract!Step, Contract!Withdraw, Contract!Finish,
                                  Contract!GiveBack, Contract!Bury
<1> QED
  BY <1>2, <1>4, <1>6, ContractStep

(* A claim is of a new attempt of its row. *)
LEMMA ClaimIsNew ==
  ASSUME IInv, ProcessesInv, NEW w \in Worker, ClaimJob(w)
  PROVE  \E j \in Job :
           /\ wk' = [wk EXCEPT ![w] = [wk[w] EXCEPT !.pc = "claimed", !.job = j,
                                                    !.lease = jobs[j].attempts + 1]]
           /\ wk'[w].job = j /\ wk'[w].lease = jobs[j].attempts + 1
           /\ wk'[w].pc = "claimed" /\ wk'[w].result = "none"
           /\ jobs'[j].attempts = jobs[j].attempts + 1
<1>1. PICK j \in Job :
        /\ Claim(j, Lease)
        /\ Becomes(w, [wk[w] EXCEPT !.pc = "claimed", !.job = j, !.lease = jobs[j].attempts + 1])
  BY DEF ClaimJob
<1>2. wk \in [Worker -> WorkerState] /\ ProcessInv(wk[w]) /\ wk[w].pc = "idle"
  BY DEF ProcessesInv, ClaimJob
<1> DEFINE r == [wk[w] EXCEPT !.pc = "claimed", !.job = j, !.lease = jobs[j].attempts + 1]
<1>3. wk' = [wk EXCEPT ![w] = r] /\ wk'[w] = r
  BY <1>1, <1>2 DEF Becomes
<1>4. /\ r.job = j /\ r.lease = jobs[j].attempts + 1
      /\ r.pc = "claimed" /\ r.result = "none"
  BY <1>2 DEF WorkerState, ProcessInv
<1>5. jobs'[j].attempts = jobs[j].attempts + 1
  BY <1>1 DEF Claim, Taken, IInv, RowsInv, Row
<1> QED
  BY <1>3, <1>4, <1>5

(* Nothing counts as resolved whose handler did not resolve. *)
LEMMA SuccessStep ==
  ASSUME IInv, ProcessesInv, SuccessInv, [WNext]_vars
  PROVE  SuccessInv'
<1>1. CASE ClaimShape
  <2>1. ASSUME NEW w \in Worker, wk'[w].result = "ok" PROVE ClaimOf(w)' \in succeeded'
    <3>1. Follows(wk[w], wk'[w])
      BY <1>1, <2>1 DEF ClaimShape, Gone
    <3>2. wk[w].result = "ok" => ClaimOf(w) \in succeeded'
      BY <1>1 DEF ClaimShape, SuccessInv
    <3> QED
      BY <2>1, <3>1, <3>2 DEF Follows, ClaimOf
  <2>2. ASSUME NEW q \in late', q.op = "complete"
        PROVE  [job |-> q.job, lease |-> q.lease] \in succeeded'
    <3>1. CASE q \in late
      BY <1>1, <2>2, <3>1 DEF ClaimShape, SuccessInv
    <3>2. CASE q \notin late
      <4>1. PICK w \in Worker : Joins(q, w)
        BY <1>1, <3>2 DEF ClaimShape
      <4>2. wk[w].result = "ok" /\ SameClaim(q, wk[w])
        BY <2>2, <4>1 DEF Joins
      <4> QED
        BY <1>1, <4>2 DEF ClaimShape, SuccessInv, ClaimOf, SameClaim
    <3> QED
      BY <3>1, <3>2
  <2> QED
    BY <2>1, <2>2 DEF SuccessInv
<1>2. ASSUME NEW w \in Worker, ClaimJob(w) PROVE SuccessInv'
  <2>1. wk \in [Worker -> WorkerState]
    BY DEF ProcessesInv
  <2>2. \A v \in Worker : v # w => wk'[v] = wk[v]
    BY <1>2, <2>1, ClaimIsNew
  <2>3. wk'[w].result = "none"
    BY <1>2, ClaimIsNew
  <2>4. UNCHANGED <<late, succeeded>>
    BY <1>2 DEF ClaimJob
  <2> QED
    BY <2>2, <2>3, <2>4 DEF SuccessInv, ClaimOf
<1> QED
  BY <1>1, <1>2, ClaimShapeHolds

(* Claims stay apart, and behind their rows. *)
LEMMA ClaimsStep ==
  ASSUME IInv, ProcessesInv, ClaimsInv, [WNext]_vars
  PROVE  ClaimsInv'
<1>0. /\ [Next]_queueVars
      /\ wk \in [Worker -> WorkerState] /\ late \subseteq Request
      /\ \A w \in Worker : ProcessInv(wk[w])
  BY WorkerStep DEF ProcessesInv, IInv
<1>1. \A w \in Worker : Busy(w) => wk[w].job \in Job /\ wk[w].lease \in Nat
  BY <1>0 DEF Busy, ProcessInv, WorkerState
<1>2. \A q \in late : q.job \in Job /\ q.lease \in Nat
  BY <1>0 DEF Request
<1>3. \A w \in Worker : Busy(w) => wk[w].lease <= jobs'[wk[w].job].attempts
  BY <1>0, <1>1, AttemptsGrow DEF ClaimsInv
<1>4. \A q \in late : q.lease <= jobs'[q.job].attempts
  BY <1>0, <1>2, AttemptsGrow DEF ClaimsInv
<1>5. CASE ClaimShape
  <2>1. ASSUME NEW w \in Worker, Busy(w)'
        PROVE  Busy(w) /\ SameClaim(wk'[w], wk[w]) /\ (Working(w)' => Working(w))
    BY <1>5, <2>1 DEF ClaimShape, Gone, Follows, Busy, Working, SameClaim
  <2>2. \A w \in Worker : Busy(w)' => wk'[w].lease <= jobs'[wk'[w].job].attempts
    BY <1>3, <2>1 DEF SameClaim
  <2>3. ASSUME NEW q \in late', q \notin late
        PROVE  \E w \in Worker : Busy(w) /\ Joins(q, w)
    BY <1>5, <2>3 DEF ClaimShape, Joins, Busy
  <2>4. \A q \in late' : q.lease <= jobs'[q.job].attempts
    BY <1>3, <1>4, <2>3 DEF Joins, SameClaim
  <2>5. ASSUME NEW v \in Worker, NEW w \in Worker, Busy(v)', Busy(w)', v # w
        PROVE  ~SameClaim(wk'[v], wk'[w])
    BY <2>1, <2>5 DEF ClaimsInv, SameClaim
  <2>6. ASSUME NEW q \in late', NEW w \in Worker, Working(w)', SameClaim(q, wk'[w])
        PROVE  q.op = "heartbeat"
    <3>1. Busy(w)'
      BY <2>6 DEF Busy, Working
    <3>2. Working(w) /\ Busy(w) /\ SameClaim(q, wk[w])
      BY <2>1, <2>6, <3>1 DEF SameClaim
    <3>3. CASE q \in late
      BY <3>2, <3>3 DEF ClaimsInv
    <3>4. CASE q \notin late
      <4>1. PICK v \in Worker : Busy(v) /\ Joins(q, v)
        BY <2>3, <3>4
      <4>2. v = w
        BY <3>2, <4>1 DEF ClaimsInv, Joins, SameClaim
      <4> QED
        BY <3>1, <4>1, <4>2 DEF Joins, Gone, Busy
    <3> QED
      BY <3>3, <3>4
  <2> QED
    BY <2>2, <2>4, <2>5, <2>6 DEF ClaimsInv
<1>6. ASSUME NEW w \in Worker, ClaimJob(w) PROVE ClaimsInv'
  <2>1. PICK j \in Job :
          /\ \A v \in Worker : v # w => wk'[v] = wk[v]
          /\ wk'[w].job = j /\ wk'[w].lease = jobs[j].attempts + 1
          /\ jobs'[j].attempts = jobs[j].attempts + 1
    BY <1>0, <1>6, ClaimIsNew
  <2>2. jobs[j].attempts \in Nat /\ late' = late
    BY <1>6 DEF IInv, RowsInv, Row, ClaimJob
  <2>3. \A v \in Worker : v # w /\ Busy(v) => ~SameClaim(wk[v], wk'[w])
    BY <1>1, <2>1, <2>2 DEF ClaimsInv, SameClaim
  <2>4. \A q \in late : ~SameClaim(q, wk'[w])
    BY <1>2, <2>1, <2>2 DEF ClaimsInv, SameClaim
  <2>5. \A v \in Worker : Busy(v)' => wk'[v].lease <= jobs'[wk'[v].job].attempts
    BY <1>3, <2>1, <2>2 DEF Busy
  <2>6. \A u, v \in Worker : Busy(u)' /\ Busy(v)' /\ u # v => ~SameClaim(wk'[u], wk'[v])
    BY <2>1, <2>3 DEF ClaimsInv, Busy, SameClaim
  <2>7. \A q \in late', v \in Worker :
           Working(v)' /\ SameClaim(q, wk'[v]) => q.op = "heartbeat"
    BY <2>1, <2>2, <2>4 DEF ClaimsInv, Working
  <2> QED
    BY <1>4, <2>2, <2>5, <2>6, <2>7 DEF ClaimsInv
<1> QED
  BY <1>5, <1>6, ClaimShapeHolds

(* The worker's invariant is inductive. *)
LEMMA WInvInit == Init => WInv
<1> SUFFICES ASSUME Init PROVE WInv
  OBVIOUS
<1>1. IInv
  BY InitIInv DEF Init
<1>2. ProcessesInv /\ HandlersInv
  BY FreshProcesses DEF Init, ProcessesInv, HandlersInv
<1>3. SuccessInv /\ ClaimsInv
  BY DEF Init, SuccessInv, ClaimsInv, Busy, Working, Idle
<1> QED
  BY <1>1, <1>2, <1>3 DEF WInv

LEMMA WInvStep == WInv /\ [WNext]_vars => WInv'
<1> SUFFICES ASSUME WInv, [WNext]_vars PROVE WInv'
  OBVIOUS
<1>1. IInv /\ RowsInv /\ ProcessesInv /\ HandlersInv /\ SuccessInv /\ ClaimsInv
  BY DEF WInv, IInv
<1>2. IInv'
  BY <1>1, WorkerStep, IInvStep
<1> QED
  BY <1>1, <1>2, ProcessesStep, HandlersStep, SuccessStep, ClaimsStep DEF WInv

LEMMA WorkerInvariant == WSpec => []WInv
BY WInvInit, WInvStep, PTL DEF WSpec

-----------------------------------------------------------------------------
(* How a row leaves its owner *)

\* The owner and the status of a processing row stay as they are
Stays(j) == jobs'[j].status = "processing" /\ jobs'[j].lease = jobs[j].lease

(* A request touches the row it names, and completes it only as a completion
   under the row's own lease. *)
LEMMA ExecuteOne ==
  ASSUME RowsInv, NEW i \in Job, NEW t, NEW op, Execute(op, i, t),
         NEW j \in Job, jobs[j].status = "processing", ~Stays(j)
  PROVE  /\ i = j /\ t = jobs[j].lease
         /\ op \in {"complete", "fail"}
         /\ jobs'[j].status = "completed" => op = "complete"
<1>1. jobs \in [Job -> Row]
  BY DEF RowsInv
<1>2. CASE op = "heartbeat" /\ Heartbeat(i, t, Lease)
  <2>1. jobs' = [jobs EXCEPT ![i] = [jobs[i] EXCEPT !.ttl = Lease]]
    BY <1>2 DEF Heartbeat
  <2> QED
    BY <1>1, <2>1 DEF Stays, Row
<1>3. CASE op = "complete" /\ Complete(i, t)
  BY <1>1, <1>3 DEF Complete, Owns, Stays
<1>4. CASE op = "fail" /\ Fail(i, t)
  <2>1. jobs[i].lease = t /\ (i # j => jobs'[j] = jobs[j])
    BY <1>1, <1>4 DEF Fail, Owns
  <2>2. i = j /\ t = jobs[j].lease
    BY <2>1 DEF Stays
  <2>3. jobs'[j] = IF Exhausted(j) THEN Settle(jobs[j], "failed") ELSE Retry(jobs[j])
    BY <1>1, <1>4, <2>2 DEF Fail
  <2>4. Settle(jobs[j], "failed").status = "failed" /\ Retry(jobs[j]).status = "pending"
    BY <1>1 DEF Settle, Retry, Row
  <2> QED
    BY <1>4, <2>2, <2>3, <2>4
<1> QED
  BY <1>2, <1>3, <1>4 DEF Execute

(* A process settles row j under its lease. *)
SettledBy(w, j) ==
  /\ wk[w].pc = "settling" /\ wk[w].job = j /\ wk[w].lease = jobs[j].lease
  /\ jobs'[j].status = "completed" => wk[w].result = "ok"

(* A late request does. *)
SettledLate(q, j) ==
  /\ q.op \in {"complete", "fail"} /\ q.job = j /\ q.lease = jobs[j].lease
  /\ jobs'[j].status = "completed" => q.op = "complete"

(* A processing row leaves its owner only by a settlement under its lease, or,
   when its lease is over, by the reaper, which completes nothing. *)
LEMMA RowLost ==
  ASSUME RowsInv, ProcessesInv, [WNext]_vars,
         NEW j \in Job, jobs[j].status = "processing", ~Stays(j)
  PROVE  \/ jobs[j].ttl = 0 /\ jobs'[j].status # "completed"
         \/ \E w \in Worker : SettledBy(w, j)
         \/ \E q \in late : SettledLate(q, j)
<1>0. jobs \in [Job -> Row] /\ jobs' # jobs
  BY DEF RowsInv, Stays
<1>1. ASSUME NEW i \in Job, Claim(i, Lease) PROVE FALSE
  BY <1>0, <1>1 DEF Claim, Claimable, Stays
<1>2. ASSUME NEW i \in Job, Cancel(i) PROVE FALSE
  BY <1>0, <1>2 DEF Cancel, Stays
<1>3. ASSUME NEW k, NEW key, NEW b, NEW d, Enqueue(k, key, b, d) PROVE FALSE
  <2>1. PICK i \in Job : EnqueueAs(i, k, key, b, d)
    BY <1>3 DEF Enqueue
  <2>2. i # j
    BY <2>1 DEF EnqueueAs, NoRow
  <2> QED
    BY <1>0, <2>1, <2>2 DEF EnqueueAs, Stays
<1>4. ASSUME NEW S \in SUBSET Job, Reap(S)
      PROVE  jobs[j].ttl = 0 /\ jobs'[j].status # "completed"
  <2>1. jobs'[j] = IF j \notin S THEN jobs[j]
                   ELSE IF Exhausted(j) THEN Settle(jobs[j], "failed") ELSE Retry(jobs[j])
    BY <1>4 DEF Reap
  <2>2. j \in S
    BY <2>1 DEF Stays
  <2>3. Settle(jobs[j], "failed").status = "failed" /\ Retry(jobs[j]).status = "pending"
    BY <1>0 DEF Settle, Retry, Row
  <2> QED
    BY <1>4, <2>1, <2>2, <2>3 DEF Reap, Stale
<1>5. ASSUME Tick PROVE FALSE
  <2>1. jobs'[j] = Aged(jobs[j])
    BY <1>5 DEF Tick
  <2>2. Aged(jobs[j]).status = jobs[j].status /\ Aged(jobs[j]).lease = jobs[j].lease
    BY <1>0 DEF Aged, Row
  <2> QED
    BY <2>1, <2>2 DEF Stays
<1>6. ASSUME NEW w \in Worker, HeartbeatExecute(w) PROVE FALSE
  <2>1. wk[w].job \in Job
    BY <1>6 DEF HeartbeatExecute, ProcessesInv, ProcessInv
  <2>2. Execute("heartbeat", wk[w].job, wk[w].lease)
    BY <1>0, <1>6 DEF HeartbeatExecute, Execute, queueVars
  <2> QED
    BY <2>1, <2>2, ExecuteOne
<1>7. ASSUME NEW w \in Worker, SettleExecute(w) PROVE SettledBy(w, j)
  <2>1. wk[w].job \in Job /\ wk[w].pc = "settling"
    BY <1>7 DEF SettleExecute, ProcessesInv, ProcessInv
  <2>2. Execute(SettleOp(w), wk[w].job, wk[w].lease)
    BY <1>0, <1>7 DEF SettleExecute, queueVars
  <2>3. /\ wk[w].job = j /\ wk[w].lease = jobs[j].lease
        /\ jobs'[j].status = "completed" => SettleOp(w) = "complete"
    BY <2>1, <2>2, ExecuteOne
  <2> QED
    BY <2>1, <2>3 DEF SettledBy, SettleOp
<1>8. ASSUME NEW q \in late, LateExecute(q) PROVE SettledLate(q, j)
  <2>1. q.job \in Job
    BY DEF ProcessesInv, Request
  <2>2. Execute(q.op, q.job, q.lease)
    BY <1>0, <1>8 DEF LateExecute, queueVars
  <2> QED
    BY <2>1, <2>2, ExecuteOne DEF SettledLate
<1>9. CASE Producer
  BY <1>2, <1>3, <1>9 DEF Producer
<1>10. CASE Reaper
  BY <1>4, <1>10 DEF Reaper
<1>11. CASE TimePasses \/ ClaimLate \/ \E w \in Worker : ClaimJob(w)
  BY <1>1, <1>5, <1>11 DEF TimePasses, ClaimLate, ClaimJob
<1>12. ASSUME NEW w \in Worker,
             \/ ClaimReply(w) \/ ClaimReplyLost(w) \/ Timeout(w) \/ HeartbeatStopped(w)
             \/ Drained(w) \/ DrainTimeout(w) \/ SettleError(w)
             \/ HeartbeatSend(w) \/ HeartbeatRenewed(w) \/ HeartbeatRefused(w)
             \/ HeartbeatError(w) \/ ProcessStep(w)
      PROVE  FALSE
  BY <1>0, <1>12 DEF ClaimReply, ClaimReplyLost, Timeout, HeartbeatStopped, Drained,
              DrainTimeout, SettleError, HeartbeatSend, HeartbeatRenewed,
              HeartbeatRefused, HeartbeatError, ProcessStep, Shutdown, Crash, Restart
<1>13. CASE UNCHANGED vars \/ \E h \in handlers, r \in {"ok", "error"} : HandlerEnds(h, r)
  BY <1>0, <1>13 DEF vars, HandlerEnds
<1>14. CASE \E w \in Worker : RunStep(w) \/ HeartbeatStep(w) \/ ProcessStep(w)
  <2>1. PICK w \in Worker : RunStep(w) \/ HeartbeatStep(w) \/ ProcessStep(w)
    BY <1>14
  <2>2. CASE SettleExecute(w)
    BY <1>7, <2>2
  <2>3. CASE HeartbeatExecute(w)
    BY <1>6, <2>3
  <2>4. CASE ClaimJob(w)
    BY <1>11, <2>4
  <2> QED
    BY <1>12, <2>1, <2>2, <2>3, <2>4 DEF RunStep, HeartbeatStep
<1>15. CASE \E q \in late : LateExecute(q) \/ LateLost(q)
  <2>1. PICK q \in late : LateExecute(q) \/ LateLost(q)
    BY <1>15
  <2>2. ~LateLost(q)
    BY <1>0 DEF LateLost
  <2> QED
    BY <1>8, <2>1, <2>2
<1>16. CASE ClaimLate \/ Producer \/ Reaper \/ TimePasses
  BY <1>9, <1>10, <1>11, <1>16
<1> QED
  BY <1>13, <1>14, <1>15, <1>16 DEF WNext

-----------------------------------------------------------------------------
(* The theorems *)

(* The worker, with its crashes, late requests and lost replies, makes no step
   the queue does not allow: the theorems of JobQueueProofs hold of it. *)
THEOREM WorkerImplementsQueue == WSpec => Spec
<1>1. Init => QueueInit
  BY DEF Init
<1>2. WInv /\ [WNext]_vars => [Next]_queueVars
  BY WorkerStep DEF WInv, IInv
<1> QED
  BY <1>1, <1>2, WorkerInvariant, PTL DEF WSpec, Spec

(* The queue, the processes, the handlers and the requests have their types. *)
THEOREM WorkerTypeCorrect == WSpec => []WorkerTypeOK
<1>1. WInv => WorkerTypeOK
  BY DEF WInv, IInv, RowsInv, PlansTypeOK, TypeOK, ProcessesInv, WorkerTypeOK
<1> QED
  BY <1>1, WorkerInvariant, PTL

(* No process ever runs two handlers: both drains of runOnce hold the loop until
   the handler it gave up on has ended, or the process ends with it. *)
THEOREM OneHandlerAlways == WSpec => []OneHandlerPerWorker
<1>1. HandlersInv => OneHandlerPerWorker
  BY DEF HandlersInv, OneHandlerPerWorker
<1> QED
  BY <1>1, WorkerInvariant, PTL DEF WInv

(* A job is completed only because the handler of its latest claim resolved. *)
THEOREM CompletionIsEarned == WSpec => CompletedOnlyBySuccess
<1>1. ASSUME WInv, [WNext]_vars, NEW j \in Job,
             jobs[j].status = "processing", jobs'[j].status = "completed"
      PROVE  [job |-> j, lease |-> jobs[j].lease] \in succeeded
  <2>1. RowsInv /\ ProcessesInv /\ SuccessInv /\ ~Stays(j)
    BY <1>1 DEF WInv, IInv, Stays
  <2>2. (\E w \in Worker : SettledBy(w, j)) \/ (\E q \in late : SettledLate(q, j))
    BY <1>1, <2>1, RowLost
  <2> QED
    BY <1>1, <2>1, <2>2 DEF SettledBy, SettledLate, SuccessInv, ClaimOf
<1>2. WInv /\ [WNext]_vars
      => [\A j \in Job :
            jobs[j].status = "processing" /\ jobs'[j].status = "completed"
              => [job |-> j, lease |-> jobs[j].lease] \in succeeded]_vars
  BY <1>1
<1> QED
  BY <1>2, WorkerInvariant, PTL DEF WSpec, CompletedOnlyBySuccess

(* While a worker works under a live lease, nothing but its own settlement takes
   the job from it. *)
THEOREM LiveLeaseIsKept == WSpec => LiveLeaseIsNotStolen
<1>1. ASSUME WInv, [WNext]_vars, NEW w \in Worker, Working(w), Owns(wk[w].job, wk[w].lease)
      PROVE  /\ jobs'[wk[w].job].status = "processing"
             /\ jobs'[wk[w].job].lease = wk[w].lease
  <2> DEFINE j == wk[w].job
  <2>1. RowsInv /\ ProcessesInv /\ ClaimsInv
    BY <1>1 DEF WInv, IInv
  <2>2. j \in Job /\ Busy(w)
    BY <1>1, <2>1 DEF ProcessesInv, ProcessInv, Working, Busy
  <2>3. jobs[j].status = "processing" /\ jobs[j].lease = wk[w].lease /\ jobs[j].ttl # 0
    BY <1>1, <2>1, <2>2 DEF Owns, RowsInv, Row
  <2>4. ASSUME NEW v \in Worker, SettledBy(v, j) PROVE FALSE
    <3>1. Busy(v) /\ v # w /\ SameClaim(wk[v], wk[w])
      BY <1>1, <2>3, <2>4 DEF SettledBy, Working, Busy, SameClaim
    <3> QED
      BY <2>1, <2>2, <3>1 DEF ClaimsInv
  <2>5. ASSUME NEW q \in late, SettledLate(q, j) PROVE FALSE
    <3>1. SameClaim(q, wk[w]) /\ q.op # "heartbeat"
      BY <2>3, <2>5 DEF SettledLate, SameClaim
    <3> QED
      BY <1>1, <2>1, <3>1 DEF ClaimsInv
  <2>6. Stays(j)
    BY <1>1, <2>1, <2>2, <2>3, <2>4, <2>5, RowLost
  <2> QED
    BY <2>3, <2>6 DEF Stays
<1>2. WInv /\ [WNext]_vars
      => [\A w \in Worker :
            Working(w) /\ Owns(wk[w].job, wk[w].lease)
              => /\ jobs'[wk[w].job].status = "processing"
                 /\ jobs'[wk[w].job].lease = wk[w].lease]_vars
  BY <1>1
<1> QED
  BY <1>2, WorkerInvariant, PTL DEF WSpec, LiveLeaseIsNotStolen

=============================================================================
