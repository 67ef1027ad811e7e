-------------------------------- MODULE JobWorker --------------------------------
(***************************************************************************)
(* The durable worker (worker/index.ts): replicas that claim one job at a  *)
(* time, run its handler under a heartbeat, an execution timeout and a     *)
(* shutdown signal, and settle it through the fenced RPCs of JobQueue.     *)
(*                                                                         *)
(* An RPC is a request that the database may execute at once, may execute  *)
(* after its caller has given up on it, or may never execute; its reply    *)
(* may be lost.  The claim's and the heartbeat's replies travel for a      *)
(* while, because the worker's idea of its lease starts when the reply     *)
(* arrives; for a settlement only the moment it executes matters.          *)
(* A process may crash at any point and is restarted.  A handler is not    *)
(* modelled beyond running and resolving or rejecting, at any time.        *)
(***************************************************************************)
EXTENDS JobQueue

CONSTANTS
  Worker,   \* worker processes
  NoJob,
  Lease,    \* WORKER_LEASE_SECONDS, in ticks
  Margin,   \* the heartbeat's request timeout, in ticks
  MaxLate   \* bound: requests given up on and still travelling

ASSUME WorkerAssumption ==
  /\ NoJob \notin Job
  /\ Lease \in Leases
  /\ Margin \in Nat
  /\ MaxLate \in Nat

VARIABLES
  wk,         \* what each worker process knows
  handlers,   \* handler calls that have not resolved, orphaned ones included
  late,       \* requests whose caller has given up on them
  succeeded   \* history: the claims whose handler resolved

workerVars == <<wk, handlers, late, succeeded>>
vars == <<jobs, plans, wk, handlers, late, succeeded>>

WorkerState ==
  [pc : {"idle", "claimed", "running", "stopping", "draining", "settling", "down"},
   job : Job \cup {NoJob}, lease : Nat, deadline : Nat,
   hb : {"none", "sent", "true", "false"},        \* the heartbeat in flight
   lost : BOOLEAN,                                \* heartbeat failure
   result : {"none", "ok", "error", "timeout"},   \* what ended the race
   shutdown : BOOLEAN]

Idle ==
  [pc |-> "idle", job |-> NoJob, lease |-> NoLease, deadline |-> 0, hb |-> "none",
   lost |-> FALSE, result |-> "none", shutdown |-> FALSE]

Down == [Idle EXCEPT !.pc = "down"]

Call == [worker : Worker, job : Job, lease : Nat]
Request == [op : {"heartbeat", "complete", "fail"}, job : Job, lease : Nat]

WorkerTypeOK ==
  /\ TypeOK
  /\ wk \in [Worker -> WorkerState]
  /\ handlers \subseteq Call
  /\ late \subseteq Request
  /\ succeeded \subseteq [job : Job, lease : Nat]

Init ==
  /\ QueueInit
  /\ wk = [w \in Worker |-> Idle]
  /\ handlers = {}
  /\ late = {}
  /\ succeeded = {}

\* Process w moves to state r, the others stay
Becomes(w, r) == wk' = [wk EXCEPT ![w] = r]

CallOf(w) == [worker |-> w, job |-> wk[w].job, lease |-> wk[w].lease]

\* The end of runOnce, returned or thrown: the loop polls again, or ends when a
\* shutdown was requested.
LoopEnd(r) == IF r.shutdown THEN Down ELSE Idle

\* A request the caller gave up on: never executed, or still on its way
GiveUp(op, w) ==
  \/ UNCHANGED late
  \/ /\ Cardinality(late) < MaxLate
     /\ late' = late \cup {[op |-> op, job |-> wk[w].job, lease |-> wk[w].lease]}

-----------------------------------------------------------------------------
(* Claiming *)

\* claim_job_v2 has executed, its reply is on the way
ClaimJob(w) ==
  /\ wk[w].pc = "idle"
  /\ \E j \in Job :
       /\ Claim(j, Lease)
       /\ Becomes(w, [wk[w] EXCEPT !.pc = "claimed", !.job = j, !.lease = jobs[j].attempts + 1])
  /\ UNCHANGED <<handlers, late, succeeded>>

\* The handler and the heartbeat start together; the lease is believed to start now
ClaimReply(w) ==
  /\ wk[w].pc = "claimed"
  /\ Becomes(w, [wk[w] EXCEPT !.pc = "running", !.deadline = Lease])
  /\ handlers' = handlers \cup {CallOf(w)}
  /\ UNCHANGED <<jobs, plans, late, succeeded>>

\* runOnce throws: nobody runs the claimed job
ClaimReplyLost(w) ==
  /\ wk[w].pc = "claimed"
  /\ Becomes(w, LoopEnd(wk[w]))
  /\ UNCHANGED <<jobs, plans, handlers, late, succeeded>>

\* A claim whose caller gave up before it was executed
ClaimLate ==
  /\ \E j \in Job : Claim(j, Lease)
  /\ UNCHANGED workerVars

-----------------------------------------------------------------------------
(* The heartbeat, running beside the handler until stop() *)

HeartbeatSend(w) ==
  /\ wk[w].pc = "running" /\ wk[w].hb = "none"
  /\ Becomes(w, [wk[w] EXCEPT !.hb = "sent"])
  /\ UNCHANGED <<jobs, plans, handlers, late, succeeded>>

HeartbeatExecute(w) ==
  /\ wk[w].hb = "sent"
  /\ \/ /\ Heartbeat(wk[w].job, wk[w].lease, Lease)
        /\ Becomes(w, [wk[w] EXCEPT !.hb = "true"])
     \/ /\ ~Owns(wk[w].job, wk[w].lease)
        /\ Becomes(w, [wk[w] EXCEPT !.hb = "false"])
        /\ UNCHANGED queueVars
  /\ UNCHANGED <<handlers, late, succeeded>>

HeartbeatRenewed(w) ==
  /\ wk[w].hb = "true"
  /\ Becomes(w, [wk[w] EXCEPT !.hb = "none", !.deadline = Lease])
  /\ UNCHANGED <<jobs, plans, handlers, late, succeeded>>

\* loseLease: the handler's signal aborts and the race ends
LoseLease(r) ==
  [r EXCEPT !.hb = "none", !.lost = TRUE,
            !.pc = IF r.pc = "running" THEN "stopping" ELSE r.pc]

HeartbeatRefused(w) ==
  /\ wk[w].hb = "false"
  /\ Becomes(w, LoseLease(wk[w]))
  /\ UNCHANGED <<jobs, plans, handlers, late, succeeded>>

\* A transport error or the request timeout, whether or not it was executed:
\* retried, unless the lease would be over by the time a retry times out.
HeartbeatError(w) ==
  /\ wk[w].hb # "none"
  /\ Becomes(w, IF Margin >= wk[w].deadline
                THEN LoseLease(wk[w]) ELSE [wk[w] EXCEPT !.hb = "none"])
  /\ IF wk[w].hb = "sent" THEN GiveUp("heartbeat", w) ELSE UNCHANGED late
  /\ UNCHANGED <<jobs, plans, handlers, succeeded>>

-----------------------------------------------------------------------------
(* The race of the handler, the heartbeat and the execution timeout *)

HandlerEnds(h, r) ==
  /\ h \in handlers
  /\ handlers' = handlers \ {h}
  /\ succeeded' = IF r = "ok" THEN succeeded \cup {[job |-> h.job, lease |-> h.lease]}
                  ELSE succeeded
  /\ IF wk[h.worker].pc = "running" /\ CallOf(h.worker) = h
     THEN Becomes(h.worker, [wk[h.worker] EXCEPT !.pc = "stopping", !.result = r])
     ELSE UNCHANGED wk
  /\ UNCHANGED <<jobs, plans, late>>

Timeout(w) ==
  /\ wk[w].pc = "running"
  /\ Becomes(w, [wk[w] EXCEPT !.pc = "stopping", !.result = "timeout"])
  /\ UNCHANGED <<jobs, plans, handlers, late, succeeded>>

\* heartbeat.stop() has awaited the heartbeat in flight
HeartbeatStopped(w) ==
  /\ wk[w].pc = "stopping" /\ wk[w].hb = "none"
  /\ Becomes(w, [wk[w] EXCEPT !.pc =
       IF wk[w].lost \/ wk[w].result = "timeout" THEN "draining" ELSE "settling"])
  /\ UNCHANGED <<jobs, plans, handlers, late, succeeded>>

\* Slip: the loop goes on while the handler still runs
DrainedAtOnce(w) ==
  /\ wk[w].pc = "draining"
  /\ Becomes(w, IF wk[w].lost THEN LoopEnd(wk[w]) ELSE [wk[w] EXCEPT !.pc = "settling"])
  /\ UNCHANGED <<jobs, plans, handlers, late, succeeded>>

\* A lost lease is never settled; a timed-out job is failed
Drained(w) ==
  /\ wk[w].pc = "draining"
  /\ CallOf(w) \notin handlers
  /\ Becomes(w, IF wk[w].lost THEN LoopEnd(wk[w]) ELSE [wk[w] EXCEPT !.pc = "settling"])
  /\ UNCHANGED <<jobs, plans, handlers, late, succeeded>>

\* WorkerRestartRequiredError: the process exits, and its handler with it
DrainTimeout(w) ==
  /\ wk[w].pc = "draining"
  /\ CallOf(w) \in handlers
  /\ Becomes(w, Down)
  /\ handlers' = {h \in handlers : h.worker # w}
  /\ UNCHANGED <<jobs, plans, late, succeeded>>

-----------------------------------------------------------------------------
(* Settling *)

SettleOp(w) == IF wk[w].result = "ok" THEN "complete" ELSE "fail"

Execute(op, j, t) ==
  \/ op = "complete" /\ Complete(j, t)
  \/ op = "fail" /\ Fail(j, t)
  \/ op = "heartbeat" /\ Heartbeat(j, t, Lease)

\* Executed, whether the reply says so, says the lease is lost, or is lost
SettleExecute(w) ==
  /\ wk[w].pc = "settling"
  /\ \/ Execute(SettleOp(w), wk[w].job, wk[w].lease)
     \/ ~Owns(wk[w].job, wk[w].lease) /\ UNCHANGED queueVars
  /\ Becomes(w, LoopEnd(wk[w]))
  /\ UNCHANGED <<handlers, late, succeeded>>

SettleError(w) ==
  /\ wk[w].pc = "settling"
  /\ GiveUp(SettleOp(w), w)
  /\ Becomes(w, LoopEnd(wk[w]))
  /\ UNCHANGED <<jobs, plans, handlers, succeeded>>

LateExecute(q) ==
  /\ q \in late
  /\ late' = late \ {q}
  /\ \/ Execute(q.op, q.job, q.lease)
     \/ ~Owns(q.job, q.lease) /\ UNCHANGED queueVars
  /\ UNCHANGED <<wk, handlers, succeeded>>

LateLost(q) ==
  /\ q \in late
  /\ late' = late \ {q}
  /\ UNCHANGED <<jobs, plans, wk, handlers, succeeded>>

-----------------------------------------------------------------------------
(* The process: signals, crashes, restarts *)

Shutdown(w) ==
  /\ wk[w].pc # "down" /\ ~wk[w].shutdown
  /\ Becomes(w, IF wk[w].pc = "idle" THEN Down ELSE [wk[w] EXCEPT !.shutdown = TRUE])
  /\ UNCHANGED <<jobs, plans, handlers, late, succeeded>>

Crash(w) ==
  /\ wk[w].pc # "down"
  /\ Becomes(w, Down)
  /\ handlers' = {h \in handlers : h.worker # w}
  /\ UNCHANGED <<jobs, plans, late, succeeded>>

Restart(w) ==
  /\ wk[w].pc = "down"
  /\ Becomes(w, Idle)
  /\ UNCHANGED <<jobs, plans, handlers, late, succeeded>>

-----------------------------------------------------------------------------
(* Everything else that reaches the queue *)

Producer ==
  /\ \/ \E k \in Kind, key \in Key \cup {NoKey}, b \in Budgets, d \in StartDelays :
          Enqueue(k, key, b, d)
     \/ \E j \in Job : Cancel(j)
  /\ UNCHANGED workerVars

\* The reaper of a replica, or the scheduled maintenance's
Reaper == (\E S \in SUBSET Job : Reap(S)) /\ UNCHANGED workerVars

\* Worker clocks and the database clock advance together
TimePasses ==
  /\ Tick
  /\ wk' = [w \in Worker |-> [wk[w] EXCEPT !.deadline = Less(@)]]
  /\ UNCHANGED <<handlers, late, succeeded>>

HeartbeatStep(w) ==
  HeartbeatSend(w) \/ HeartbeatExecute(w) \/ HeartbeatRenewed(w)
    \/ HeartbeatRefused(w) \/ HeartbeatError(w)

RunStep(w) ==
  ClaimJob(w) \/ ClaimReply(w) \/ ClaimReplyLost(w) \/ Timeout(w)
    \/ HeartbeatStopped(w) \/ Drained(w) \/ DrainTimeout(w)
    \/ SettleExecute(w) \/ SettleError(w)

ProcessStep(w) == Shutdown(w) \/ Crash(w) \/ Restart(w)

WNext ==
  \/ \E w \in Worker : RunStep(w) \/ HeartbeatStep(w) \/ ProcessStep(w)
  \/ \E h \in handlers, r \in {"ok", "error"} : HandlerEnds(h, r)
  \/ \E q \in late : LateExecute(q) \/ LateLost(q)
  \/ ClaimLate \/ Producer \/ Reaper \/ TimePasses

WSpec == Init /\ [][WNext]_vars

(***************************************************************************)
(* Fairness.  Time passes; the host restarts a dead process; timers fire   *)
(* (the execution timeout, the drain timeout, the heartbeat's request      *)
(* timeout); a reply or an error ends every RPC; a worker that is idle     *)
(* again and again eventually polls; the reaper of the replicas or of the  *)
(* scheduled maintenance eventually reaches every stale row.  Nothing is   *)
(* assumed of handlers, of heartbeats or of any request's success.         *)
(***************************************************************************)
Fairness ==
  /\ WF_vars(TimePasses)
  /\ \A j \in Job : WF_vars((\E S \in SUBSET Job : j \in S /\ Reap(S)) /\ UNCHANGED workerVars)
  /\ \A w \in Worker :
       /\ WF_vars(Restart(w))
       /\ SF_vars(ClaimJob(w))
       /\ WF_vars(ClaimReply(w) \/ ClaimReplyLost(w))
       /\ WF_vars(Timeout(w))
       /\ WF_vars(HeartbeatExecute(w) \/ HeartbeatError(w))
       /\ WF_vars(HeartbeatRenewed(w) \/ HeartbeatRefused(w) \/ HeartbeatError(w))
       /\ WF_vars(HeartbeatStopped(w))
       /\ WF_vars(Drained(w) \/ DrainTimeout(w))
       /\ WF_vars(SettleExecute(w) \/ SettleError(w))

FairWSpec == WSpec /\ Fairness

-----------------------------------------------------------------------------
(* Properties *)

\* The worker has not yet asked the database to settle its job
Working(w) == wk[w].pc \in {"claimed", "running", "stopping", "draining"}

(* No step of the reaper, of a producer, of another replica or of a request
   that arrives late takes a job away from the worker whose lease is live: only
   its own settlement, sent after its handler and heartbeat stopped, ends it. *)
LiveLeaseIsNotStolen ==
  [][\A w \in Worker :
       Working(w) /\ Owns(wk[w].job, wk[w].lease)
         => /\ jobs'[wk[w].job].status = "processing"
            /\ jobs'[wk[w].job].lease = wk[w].lease]_vars

(* A worker never runs two handlers: neither a lost lease nor an execution
   timeout lets it claim again while the old handler still executes (the two
   drains of runOnce, and the exit when they time out). *)
OneHandlerPerWorker ==
  \A g, h \in handlers : g.worker = h.worker => g = h

(* A processing job becomes completed only when the handler of its latest claim
   resolved: not by a failed, timed out or superseded attempt, whatever late
   request arrives. *)
CompletedOnlyBySuccess ==
  [][\A j \in Job :
       jobs[j].status = "processing" /\ jobs'[j].status = "completed"
         => [job |-> j, lease |-> jobs[j].lease] \in succeeded]_vars

(* Every job enqueued is completed or failed in the end, through crashes, lost
   requests and replies, hung handlers and drains that time out. *)
EveryJobSettles ==
  \A j \in Job : jobs[j].status = "pending" ~> jobs[j].status \in Terminal

=============================================================================
