------------------------------- MODULE LeadFlow -------------------------------
(***************************************************************************)
(* Leads of one plan on their way from Meta's forms to the workspace's CRM *)
(* and to the agent's "new leads" mail: the sync.meta.leads job, the       *)
(* deliver.lead.crm job of each lead, and the handlers that execute them.  *)
(* Every call may fail or lose its answer, a handler may die, and a job's  *)
(* lease may pass while its handler is still at work, so that a second one *)
(* executes the same job.                                                  *)
(*                                                                         *)
(* Leads are numbers in the order in which Meta lists them.  A sync batch  *)
(* is named by the set of leads it fetched (a hash of their identifiers),  *)
(* an announcement by the set of leads it tells of (its subject).          *)
(*                                                                         *)
(* Abstractions.  Provider reads of the plan, its connection and its token *)
(* succeed, the workspace has a billing address, CRM delivery is enabled.  *)
(* Attribution, events and duplicate marks of a lead and the delivery      *)
(* attempt recorded for a person's approval are not kept; that recording   *)
(* the attempt may fail is.                                                *)
(*                                                                         *)
(* A definition whose comment begins with "Slip" is not part of the model. *)
(***************************************************************************)
EXTENDS Integers, FiniteSets

CONSTANTS
  Lead,      \* submissions of the plan's forms
  Handler,   \* job slots of the workers
  Nobody,
  Leaving,   \* those that may leave the schedule's window
  Budget,    \* max_attempts of a job
  MaxFaults  \* bound on all that disturbs: the sum of the Kinds below

ASSUME LeadAssumption ==
  /\ Lead \subseteq Nat \ {0} /\ IsFiniteSet(Lead) /\ Leaving \subseteq Lead
  /\ Nobody \notin Handler
  /\ Budget \in Nat \ {0} /\ MaxFaults \in Nat

VARIABLES
  form,       \* what Meta has of each lead, and whether a scheduled sync asks for it
  rows,       \* how many leads rows each lead has
  linked,     \* leads with a meta_leads row
  batch,      \* mautic_batch_key of that row
  marked,     \* rows with mautic_new_leads_queued_at
  announced,  \* mautic_sync jobs of new leads (permanent receipts)
  crm,        \* state of the lead_crm_delivery_jobs row
  enquiries,  \* commands the CRM has executed
  job, owner, \* the queue's rows, and the handler that can settle each
  at,         \* where each handler is
  faults

meta == <<form, rows, linked, batch>>
mail == <<marked, announced>>
site == <<crm, enquiries>>
queue == <<job, owner>>
vars == <<meta, mail, site, queue, at, faults>>

Sync == 0
Page == -1     \* no job: the leads page syncs in its own request
Job == Lead \cup {Sync}

JobRow == [phase : {"absent", "waiting", "owned", "done", "dead"},
           takes : 0 .. Budget, budget : {0, Budget}]

Contract == INSTANCE JobContract WITH Budgets <- {Budget}, state <- job

SyncSteps == {"look", "insert", "link", "register", "enqueue", "pending", "fire", "mark"}
CrmSteps == {"capture", "record"}
Calls == SyncSteps \cup CrmSteps
Steps == {"idle", "done", "throw"} \cup Calls

\* A handler's job, the leads it has yet to go through, all it fetched, and
\* the batches it has yet to announce
At == [step : Steps, job : Job \cup {Page}, todo : SUBSET Lead, all : SUBSET Lead,
       left : SUBSET (SUBSET Lead)]

\* A meta_leads insert that fails unnoticed; a sync that begins while another is
\* under way, which is no failure; a lease outlived; any other call that fails or
\* handler that dies
Kinds == {"unnoticed", "beside", "lapse", "stop"}

LeadTypeOK ==
  /\ form \in [Lead -> {"unsent", "recent", "old"}]
  /\ rows \in [Lead -> Nat] /\ linked \subseteq Lead
  /\ batch \in [Lead -> SUBSET Lead]
  /\ marked \subseteq Lead /\ announced \subseteq SUBSET Lead
  /\ crm \in [Lead -> {"none", "pending", "delivered", "error"}]
  /\ enquiries \subseteq Lead \X (0 .. Budget)
  /\ job \in [Job -> JobRow] /\ owner \in [Job -> Handler \cup {Nobody}]
  /\ at \in [Handler -> At]
  /\ faults \in [Kinds -> 0 .. MaxFaults]

Idle == [step |-> "idle", job |-> Sync, todo |-> {}, all |-> {}, left |-> {}]

Init ==
  /\ form = [l \in Lead |-> "unsent"]
  /\ rows = [l \in Lead |-> 0] /\ linked = {}
  /\ batch = [l \in Lead |-> {}]
  /\ marked = {} /\ announced = {}
  /\ crm = [l \in Lead |-> "none"] /\ enquiries = {}
  /\ job = [j \in Job |-> [phase |-> "absent", takes |-> 0, budget |-> 0]]
  /\ owner = [j \in Job |-> Nobody]
  /\ at = [h \in Handler |-> Idle]
  /\ faults = [k \in Kinds |-> 0]

-----------------------------------------------------------------------------
(* Meta, and the queue *)

Submit(l) ==
  /\ form[l] = "unsent" /\ form' = [form EXCEPT ![l] = "recent"]
  /\ UNCHANGED <<rows, linked, batch, mail, site, queue, at, faults>>

\* Seven days pass: a scheduled sync does not ask for it any more
Age(l) ==
  /\ l \in Leaving
  /\ form[l] = "recent" /\ form' = [form EXCEPT ![l] = "old"]
  /\ UNCHANGED <<rows, linked, batch, mail, site, queue, at, faults>>

Active(j) == job[j].phase \in {"waiting", "owned"}

NewJob == [phase |-> "waiting", takes |-> 0, budget |-> Budget]

\* enqueueQueuedJob: an active job with the key is adopted
Enqueue(j) == job' = IF Active(j) THEN job ELSE [job EXCEPT ![j] = NewJob]

\* queueScheduledMetaLeadSyncs
Schedule ==
  /\ ~Active(Sync) /\ Enqueue(Sync)
  /\ UNCHANGED <<meta, mail, site, owner, at, faults>>

\* A job moves out of a phase as the queue's contract has it
Moves(j, from, to, Step(_, _)) ==
  /\ job[j].phase = from
  /\ \E n \in 0 .. Budget :
       /\ job' = [job EXCEPT ![j] = [phase |-> to, takes |-> n, budget |-> Budget]]
       /\ Step(job[j], job'[j])
Returns(j) == Moves(j, "owned", "waiting", Contract!GiveBack) \/ Moves(j, "owned", "dead", Contract!Bury)

Working(h, s) == at[h].step = s
Becomes(h, s, todo, all, left) ==
  at' = [at EXCEPT ![h] = [step |-> s, job |-> at[h].job, todo |-> todo, all |-> all,
                           left |-> left]]
Goto(h, s) == Becomes(h, s, at[h].todo, at[h].all, at[h].left)
Quit(h) == at' = [at EXCEPT ![h] = Idle]
Return(h, s) == IF at[h].job = Page THEN Quit(h) ELSE Becomes(h, s, {}, {}, {})

Disown(j) == owner' = [owner EXCEPT ![j] = Nobody]

\* complete_job_v2 and fail_job_v2: of a job that has another owner, nothing
Settle(h) ==
  LET j == at[h].job
  IN /\ at[h].step \in {"done", "throw"}
     /\ IF owner[j] # h THEN UNCHANGED queue
        ELSE /\ \/ Working(h, "done") /\ Moves(j, "owned", "done", Contract!Finish)
                \/ Working(h, "throw") /\ Returns(j)
             /\ Disown(j)
     /\ Quit(h)
     /\ UNCHANGED <<meta, mail, site, faults>>

Total == faults["unnoticed"] + faults["beside"] + faults["lapse"] + faults["stop"]
Fault(k) == Total < MaxFaults /\ faults' = [faults EXCEPT ![k] = faults[k] + 1]

Crash(h) ==
  /\ ~Working(h, "idle") /\ Quit(h)
  /\ owner' = [j \in Job |-> IF owner[j] = h THEN Nobody ELSE owner[j]]
  /\ Fault("stop")
  /\ UNCHANGED <<meta, mail, site, job>>

\* reap_stale_jobs: the lease of a dead handler passes, or of one at work
Reap(j) ==
  /\ Returns(j)
  /\ IF owner[j] = Nobody THEN UNCHANGED faults ELSE Fault("lapse")
  /\ Disown(j)
  /\ UNCHANGED <<meta, mail, site, at>>

-----------------------------------------------------------------------------
(* The handlers' calls *)

First(h, l) == l \in at[h].todo /\ \A k \in at[h].todo : l <= k

NextLead(h, l) ==
  Becomes(h, IF at[h].todo = {l} THEN "pending" ELSE "look", at[h].todo \ {l}, at[h].all,
          at[h].left)

\* A call's error.  That of the meta_leads lookup is read as "no such row" and
\* registerLeadCrmDelivery's are logged
Errs(h) ==
  /\ \/ at[h].step \in {"insert", "pending", "fire", "mark"} /\ Return(h, "throw")
     \/ Working(h, "look") /\ Goto(h, "insert")
     \/ /\ at[h].step \in {"register", "enqueue"}
        /\ \E l \in Lead : First(h, l) /\ NextLead(h, l)
  /\ Fault("stop")

\* That of the meta_leads insert is not looked at
LinkIsLost(h) == Working(h, "link") /\ Goto(h, "register") /\ Fault("unnoticed")

\* The call does not reach the database or Meta
CallFails(h) == (Errs(h) \/ LinkIsLost(h)) /\ UNCHANGED <<meta, mail, site, queue>>

\* It is answered, or its answer is lost
Proceed(h, s) == (Goto(h, s) /\ UNCHANGED faults) \/ Errs(h)

-----------------------------------------------------------------------------
(* sync.meta.leads: syncMetaLeads, upsertLead and ensureCrmDelivery *)

\* Both the schedule and the leads page ask for the last seven days
Window == { l \in Lead : form[l] = "recent" }

\* claim_job_v2
Claim(h, j) == Moves(j, "waiting", "owned", Contract!Take) /\ owner' = [owner EXCEPT ![j] = h]

\* The handler's first read follows, which may fail
Starts(h, j, s, todo) ==
  /\ Working(h, "idle")
  /\ at' = [at EXCEPT ![h] = [step |-> s, job |-> j, todo |-> todo, all |-> todo, left |-> {}]]
  /\ UNCHANGED <<meta, mail, site>>

Stumble(h, j) == Claim(h, j) /\ Starts(h, j, "throw", {}) /\ Fault("stop")

\* Nothing keeps the page's sync and the job's apart
Syncing == \E g \in Handler : at[g].step \in SyncSteps
Fetch(h, j) ==
  /\ Starts(h, j, IF Window = {} THEN "pending" ELSE "look", Window)
  /\ IF Syncing THEN Fault("beside") ELSE UNCHANGED faults

SyncJob(h) == Claim(h, Sync) /\ Fetch(h, Sync)
Refresh(h) == Fetch(h, Page) /\ UNCHANGED queue

\* Slip: the lead is not looked up
NewAlways(l) == TRUE

New(l) == l \notin linked

Look(h) ==
  /\ Working(h, "look")
  /\ \E l \in Lead : /\ First(h, l)
                    /\ IF New(l) THEN Goto(h, "insert") ELSE NextLead(h, l)
  /\ UNCHANGED <<meta, mail, site, queue, faults>>

Insert(h) ==
  /\ Working(h, "insert")
  /\ \E l \in Lead : First(h, l) /\ rows' = [rows EXCEPT ![l] = rows[l] + 1]
  /\ Proceed(h, "link")
  /\ UNCHANGED <<form, linked, batch, mail, site, queue>>

\* One meta_leads row per lead; a second insert fails unnoticed.  Recording the
\* delivery attempt for a person's approval follows, and may fail
Link(h) ==
  /\ Working(h, "link")
  /\ \E l \in Lead :
       /\ First(h, l)
       /\ IF l \in linked THEN UNCHANGED <<linked, batch>>
          ELSE linked' = linked \cup {l} /\ batch' = [batch EXCEPT ![l] = at[h].all]
  /\ \/ Goto(h, "register") /\ UNCHANGED faults
     \/ Return(h, "throw") /\ Fault("stop")
  /\ UNCHANGED <<form, rows, mail, site, queue>>

\* ensure_lead_crm_delivery_job: one row per submission
Register(h) ==
  /\ Working(h, "register")
  /\ \E l \in Lead :
       /\ First(h, l)
       /\ crm' = IF crm[l] = "none" THEN [crm EXCEPT ![l] = "pending"] ELSE crm
  /\ Proceed(h, "enqueue")
  /\ UNCHANGED <<meta, mail, enquiries, queue>>

EnqueueCrm(h) ==
  /\ Working(h, "enqueue")
  /\ \E l \in Lead :
       /\ First(h, l)
       /\ Enqueue(l)
       /\ \/ NextLead(h, l) /\ UNCHANGED faults
          \/ Errs(h)
  /\ UNCHANGED <<meta, mail, site, owner>>

-----------------------------------------------------------------------------
(* queuePendingNewLeadsEvent: one announcement per batch, then its marker *)

\* Slip: only the leads of the latest sync are announced
UnmarkedOfThis(h) == { l \in linked \ marked : batch[l] = at[h].all }

Unmarked(h) == linked \ marked

\* Slip: all that is pending is one batch
OneBatch(h) == {Unmarked(h)} \ {{}}

Batches(h) == { { l \in Unmarked(h) : batch[l] = batch[k] } : k \in Unmarked(h) }

\* Slip: a batch is marked without waiting for its announcement
MarkAlone == "mark"

\* A batch is announced, and then marked
Announcing == "fire"

Pending(h) ==
  /\ Working(h, "pending")
  /\ LET found == Batches(h)
     IN IF found = {} THEN Return(h, "done") ELSE Becomes(h, Announcing, {}, {}, found)
  /\ UNCHANGED <<meta, mail, site, queue, faults>>

\* The batch with the oldest lead
Oldest(h, b) == \E l \in b : \A c \in at[h].left : \A k \in c : l <= k

Fire(h) ==
  /\ Working(h, "fire")
  /\ \E b \in at[h].left : Oldest(h, b) /\ announced' = announced \cup {b}
  /\ Proceed(h, "mark")
  /\ UNCHANGED <<meta, marked, site, queue>>

Mark(h) ==
  /\ Working(h, "mark")
  /\ \E b \in at[h].left :
       /\ Oldest(h, b) /\ marked' = marked \cup b
       /\ \/ /\ UNCHANGED faults
             /\ IF at[h].left = {b} THEN Return(h, "done")
                ELSE Becomes(h, Announcing, {}, {}, at[h].left \ {b})
          \/ Errs(h)
  /\ UNCHANGED <<meta, announced, site, queue>>

-----------------------------------------------------------------------------
(* deliver.lead.crm: executeLeadCrmDeliveryJobById *)

\* A delivered lead is not captured again
Load(h, l) ==
  /\ Claim(h, l)
  /\ Starts(h, l, IF crm[l] = "delivered" THEN "done" ELSE "capture", {})
  /\ UNCHANGED faults

\* Slip: a command of its own for every attempt
CommandOfAttempt(h) == <<at[h].job, job[at[h].job].takes>>

\* crmCaptureCommandId
Command(h) == <<at[h].job, 0>>

Write(h, s) == crm' = [crm EXCEPT ![at[h].job] = s]

\* Slip: a failed delivery is written down and its job ends
EndAfterNote == "done"

\* The error is thrown again, for the queue to retry
AfterNote == "throw"

\* markLeadCrmDeliveryError; its own error is swallowed
Note(h) ==
  /\ Fault("stop")
  /\ Write(h, "error") \/ UNCHANGED crm
  /\ Return(h, AfterNote)

\* capture_enquiry: a command that was executed before is answered again
Capture(h) ==
  /\ Working(h, "capture")
  /\ enquiries' = enquiries \cup {Command(h)}
  /\ \/ Goto(h, "record") /\ UNCHANGED <<crm, faults>>
     \/ Note(h)
  /\ UNCHANGED <<meta, mail, queue>>

\* markLeadCrmDeliveryDelivered
Record(h) ==
  /\ Working(h, "record") /\ Write(h, "delivered")
  /\ Return(h, "done")
  /\ UNCHANGED <<meta, mail, enquiries, queue, faults>>

\* Either call fails, or the second one's answer is lost
DeliveryFails(h) ==
  /\ at[h].step \in {"capture", "record"}
  /\ Note(h)
  /\ UNCHANGED <<meta, mail, enquiries, queue>>

Take(h, j) == (j = Sync /\ SyncJob(h)) \/ (j # Sync /\ Load(h, j))

Step(h) ==
  \/ Look(h) \/ Insert(h) \/ Link(h) \/ Register(h) \/ EnqueueCrm(h)
  \/ Pending(h) \/ Fire(h) \/ Mark(h)
  \/ Capture(h) \/ Record(h)
  \/ Settle(h)

Next ==
  \/ \E l \in Lead : Submit(l) \/ Age(l)
  \/ Schedule
  \/ \E j \in Job : Reap(j) \/ \E h \in Handler : Take(h, j) \/ Stumble(h, j)
  \/ \E h \in Handler : Step(h) \/ CallFails(h) \/ DeliveryFails(h) \/ Refresh(h) \/ Crash(h)

Spec == Init /\ [][Next]_vars

\* Maintenance comes round, workers go on with what they hold and take what waits
\* (the oldest first, so that nothing is passed over for ever), and the lease of a
\* handler that died passes
FairSpec ==
  /\ Spec
  /\ WF_vars(Schedule)
  /\ \A j \in Lead : SF_vars(\E h \in Handler : Take(h, j))
  /\ WF_vars(\E h \in Handler : Take(h, Sync))
  /\ WF_vars(\E j \in Job : Reap(j) /\ owner[j] = Nobody)
  /\ \A h \in Handler : WF_vars(Step(h))

-----------------------------------------------------------------------------
(* Properties *)

\* A lead that is marked as announced is in an announcement that is queued,
\* whenever the sync died or a call failed (queuePendingNewLeadsEvent).
MarkedIsQueued == \A l \in marked : \E b \in announced : l \in b

\* No lead is in two announcements, over crashes, lost answers and failed
\* calls, new leads and repeated syncs (mautic_batch_key): except where a
\* failed meta_leads insert went unnoticed, or two syncs ran at once.
Undisturbed == faults["unnoticed"] = 0 /\ faults["beside"] = 0
AnnouncedOnce ==
  Undisturbed => \A a, b \in announced : a # b => a \cap b = {}

\* The CRM captures a lead once, however often its delivery is tried, and by
\* whom; and a lead shown as delivered has been captured (crmCaptureCommandId).
CapturedOnce ==
  \A l \in Lead :
    LET captures == { c \in enquiries : c[1] = l }
    IN Cardinality(captures) <= 1 /\ (crm[l] = "delivered" => captures # {})

\* Every leads row beyond a lead's first has a cause of its own: a call or a
\* handler that left a row without its meta_leads row, or a sync that began while
\* another was under way, which takes no failure.  Repeated syncs, retries and
\* leases that pass store nothing twice (upsertLead's look-up).
Causes == faults["unnoticed"] + faults["beside"] + faults["stop"]
RowsExplained == \A l \in Lead : rows[l] <= 1 + Causes

\* Again and again every lead Meta lists has been announced, also one that was
\* stored and left the window before its announcement (the pending rows of every
\* later sync).  Excepted is what left the window without a meta_leads row: not
\* stored by then, or stored and the insert of that row lost.
Told(l) == \E b \in announced : l \in b
EveryLeadAnnounced ==
  []<>(\A l \in Lead : form[l] = "recent" \/ l \in linked => Told(l))

\* Again and again no delivery is left failed with attempts to spare, except
\* where a handler outlived its lease: its late error can replace "delivered"
\* (markLeadCrmDeliveryError, and the retry of complete_job_v2 and fail_job_v2).
FailedIsRetried ==
  []<>(\A l \in Lead : crm[l] = "error" => job[l].phase = "dead" \/ faults["lapse"] > 0)
================================================================================
