---------------------------- MODULE LeadFlowProofs ----------------------------
(***************************************************************************)
(* What holds of LeadFlow for any leads, handlers, budgets and faults: its *)
(* types, the four invariants its runs check, and the safety core of its   *)
(* retries.                                                                *)
(*                                                                         *)
(* The announcements depend on two things a handler carries from step to   *)
(* step: the batches it has listed do not overlap, and the oldest of them  *)
(* is queued by the time it is to be marked.  The captures depend on every *)
(* command being the lead's own, and on a status write following one.  The *)
(* rows are counted together with the handlers that may yet insert one.    *)
(* That no lead is told of twice rests on batches being fixed when they    *)
(* are listed.  That no failed delivery is forgotten rests on a handler    *)
(* that is at work owning its job.                                         *)
(***************************************************************************)
EXTENDS LeadFlow, FiniteSetTheorems, TLAPS

MetaTyped ==
  /\ form \in [Lead -> {"unsent", "recent", "old"}]
  /\ rows \in [Lead -> Nat] /\ linked \subseteq Lead
  /\ batch \in [Lead -> SUBSET Lead]
MailTyped == marked \subseteq Lead /\ announced \subseteq SUBSET Lead
SiteTyped ==
  /\ crm \in [Lead -> {"none", "pending", "delivered", "error"}]
  /\ enquiries \subseteq Lead \X (0 .. Budget)
QueueTyped == job \in [Job -> JobRow] /\ owner \in [Job -> Handler \cup {Nobody}]
AtTyped == at \in [Handler -> At]
FaultsTyped == faults \in [Kinds -> 0 .. MaxFaults]

Typed == MetaTyped /\ MailTyped /\ SiteTyped /\ QueueTyped /\ AtTyped /\ FaultsTyped

\* A delivery is made for a lead
Placed == \A h \in Handler : at[h].step \in CrmSteps => at[h].job \in Lead

\* The batches a handler has yet to announce do not overlap
Apart ==
  \A h \in Handler : at[h].step \in {"fire", "mark"}
    => \A b, c \in at[h].left : b # c => b \cap c = {}

\* The batch that is about to be marked is queued
Ready ==
  \A h \in Handler : at[h].step = "mark"
    => \A b \in at[h].left : Oldest(h, b) => b \in announced

MailOK == Apart /\ Ready /\ MarkedIsQueued

Own == \A c \in enquiries : c = <<c[1], 0>>
Caught == \A h \in Handler : at[h].step = "record" => <<at[h].job, 0>> \in enquiries
Shown == \A l \in Lead : crm[l] = "delivered" => <<l, 0>> \in enquiries

SiteOK == Placed /\ Own /\ Caught /\ Shown

LeadInv == Typed /\ MailOK /\ SiteOK

\* A handler goes to a place none of whose steps is one of S
Moved(h, S) == \E r \in At : at' = [at EXCEPT ![h] = r] /\ r.step \notin S

Announces == {"fire", "mark"}

-----------------------------------------------------------------------------
(* Pieces of steps *)

LEMMA FaultTyped ==
  ASSUME FaultsTyped, NEW k \in Kinds, Fault(k)
  PROVE  FaultsTyped'
<1>1. /\ faults \in [Kinds -> 0 .. MaxFaults] /\ MaxFaults \in Nat
      /\ faults["unnoticed"] \in Nat /\ faults["beside"] \in Nat
      /\ faults["lapse"] \in Nat /\ faults["stop"] \in Nat
  BY LeadAssumption DEF FaultsTyped, Kinds
<1>2. faults["unnoticed"] + faults["beside"] + faults["lapse"] + faults["stop"] < MaxFaults
  BY DEF Fault, Total
<1>3. faults[k] \in Nat /\ faults[k] < MaxFaults
  BY <1>1, <1>2 DEF Kinds
<1>4. faults[k] + 1 \in 0 .. MaxFaults
  BY <1>1, <1>3
<1> QED BY <1>1, <1>4 DEF Fault, FaultsTyped

LEMMA KindsOf ==
  "unnoticed" \in Kinds /\ "beside" \in Kinds /\ "lapse" \in Kinds /\ "stop" \in Kinds
BY DEF Kinds

LEMMA IdleTyped == Idle \in At
BY DEF Idle, At, Steps, Job

LEMMA BecomesMoves ==
  ASSUME AtTyped, NEW h \in Handler, NEW s \in Steps, NEW todo \in SUBSET Lead,
         NEW all \in SUBSET Lead, NEW left \in SUBSET (SUBSET Lead),
         Becomes(h, s, todo, all, left), NEW S, s \notin S
  PROVE  Moved(h, S)
<1>1. at[h].job \in Job \cup {Page}
  BY DEF AtTyped, At
<1> DEFINE r == [step |-> s, job |-> at[h].job, todo |-> todo, all |-> all, left |-> left]
<1>2. r \in At
  BY <1>1 DEF At
<1> QED BY <1>2 DEF Becomes, Moved

LEMMA GotoMoves ==
  ASSUME AtTyped, NEW h \in Handler, NEW s \in Steps, Goto(h, s), NEW S, s \notin S
  PROVE  Moved(h, S)
<1>1. at[h] \in At
  BY DEF AtTyped
<1>2. /\ at[h].todo \in SUBSET Lead /\ at[h].all \in SUBSET Lead
      /\ at[h].left \in SUBSET (SUBSET Lead)
  BY <1>1 DEF At
<1> QED BY <1>2, BecomesMoves DEF Goto

LEMMA QuitMoves ==
  ASSUME NEW h \in Handler, Quit(h), NEW S, "idle" \notin S
  PROVE  Moved(h, S)
BY IdleTyped DEF Quit, Moved, Idle

LEMMA ReturnMoves ==
  ASSUME AtTyped, NEW h \in Handler, NEW s \in Steps, Return(h, s), NEW S,
         s \notin S, "idle" \notin S
  PROVE  Moved(h, S)
<1>1. CASE at[h].job = Page
  BY <1>1, QuitMoves DEF Return
<1>2. CASE at[h].job # Page
  BY <1>2, BecomesMoves DEF Return
<1> QED BY <1>1, <1>2

LEMMA NextLeadMoves ==
  ASSUME AtTyped, NEW h \in Handler, NEW l, NextLead(h, l), NEW S,
         "pending" \notin S, "look" \notin S
  PROVE  Moved(h, S)
<1>1. at[h] \in At
  BY DEF AtTyped
<1>2. /\ at[h].todo \ {l} \in SUBSET Lead /\ at[h].all \in SUBSET Lead
      /\ at[h].left \in SUBSET (SUBSET Lead)
  BY <1>1 DEF At
<1>3. CASE at[h].todo = {l}
  BY <1>2, <1>3, BecomesMoves DEF NextLead, Steps, Calls, SyncSteps
<1>4. CASE at[h].todo # {l}
  BY <1>2, <1>4, BecomesMoves DEF NextLead, Steps, Calls, SyncSteps
<1> QED BY <1>3, <1>4

\* Where a call's error leads to
Aside == Announces \cup CrmSteps

LEMMA ErrsMoves ==
  ASSUME AtTyped, FaultsTyped, NEW h \in Handler, Errs(h)
  PROVE  Moved(h, Aside) /\ FaultsTyped'
<1>0. /\ "throw" \in Steps /\ "insert" \in Steps
      /\ "throw" \notin Aside /\ "insert" \notin Aside /\ "idle" \notin Aside
      /\ "pending" \notin Aside /\ "look" \notin Aside
  BY DEF Aside, Announces, CrmSteps, Steps, Calls, SyncSteps
<1>1. FaultsTyped'
  BY FaultTyped, KindsOf DEF Errs
<1>2. CASE Return(h, "throw")
  BY <1>0, <1>1, <1>2, ReturnMoves
<1>3. CASE Goto(h, "insert")
  BY <1>0, <1>1, <1>3, GotoMoves
<1>4. CASE \E l \in Lead : NextLead(h, l)
  BY <1>0, <1>1, <1>4, NextLeadMoves
<1> QED BY <1>1, <1>2, <1>3, <1>4 DEF Errs

LEMMA MovedTyped ==
  ASSUME AtTyped, NEW h \in Handler, NEW S, Moved(h, S)
  PROVE  AtTyped'
BY DEF AtTyped, Moved

\* A step that takes no announcement back, and whose handler neither announces
\* nor marks next
LEMMA MailMoved ==
  ASSUME MailOK, AtTyped, (\E h \in Handler : Moved(h, Announces)) \/ UNCHANGED at,
         MarkedIsQueued', announced \subseteq announced'
  PROVE  MailOK'
<1>1. CASE UNCHANGED at
  BY <1>1 DEF MailOK, Apart, Ready, Oldest
<1>2. CASE \E h \in Handler : Moved(h, Announces)
  <2>1. PICK h \in Handler, r \in At : at' = [at EXCEPT ![h] = r] /\ r.step \notin Announces
    BY <1>2 DEF Moved
  <2>2. ASSUME NEW g \in Handler, at'[g].step \in Announces
        PROVE  at'[g] = at[g]
    BY <2>1, <2>2 DEF AtTyped
  <2>3. Apart'
    BY <2>2 DEF MailOK, Apart, Announces
  <2>4. Ready'
    <3> SUFFICES ASSUME NEW g \in Handler, at'[g].step = "mark",
                        NEW b \in at'[g].left, Oldest(g, b)'
                 PROVE  b \in announced'
      BY DEF Ready
    <3>1. at'[g] = at[g]
      BY <2>2 DEF Announces
    <3>2. Oldest(g, b)
      BY <3>1 DEF Oldest
    <3> QED BY <3>1, <3>2 DEF MailOK, Ready
  <2> QED BY <2>3, <2>4 DEF MailOK
<1> QED BY <1>1, <1>2

\* One that marks nothing either
LEMMA MailCalm ==
  ASSUME MailOK, AtTyped, (\E h \in Handler : Moved(h, Announces)) \/ UNCHANGED at,
         marked' = marked, announced \subseteq announced'
  PROVE  MailOK'
<1>1. MarkedIsQueued'
  BY DEF MailOK, MarkedIsQueued
<1> QED BY <1>1, MailMoved

\* A step that leaves the captures alone, except that one may be added, and
\* whose handler neither captures nor writes next
LEMMA SiteCalm ==
  ASSUME SiteOK, AtTyped, (\E h \in Handler : Moved(h, CrmSteps)) \/ UNCHANGED at,
         Own', Shown', enquiries \subseteq enquiries'
  PROVE  SiteOK'
<1>1. CASE UNCHANGED at
  BY <1>1 DEF SiteOK, Placed, Caught
<1>2. CASE \E h \in Handler : Moved(h, CrmSteps)
  <2>1. PICK h \in Handler, r \in At : at' = [at EXCEPT ![h] = r] /\ r.step \notin CrmSteps
    BY <1>2 DEF Moved
  <2>2. ASSUME NEW g \in Handler, at'[g].step \in CrmSteps
        PROVE  at'[g] = at[g]
    BY <2>1, <2>2 DEF AtTyped
  <2>3. Placed'
    BY <2>2 DEF SiteOK, Placed
  <2>4. Caught'
    BY <2>2 DEF SiteOK, Caught, CrmSteps
  <2> QED BY <2>3, <2>4 DEF SiteOK
<1> QED BY <1>1, <1>2

LEMMA SiteKept ==
  ASSUME SiteOK, AtTyped, (\E h \in Handler : Moved(h, CrmSteps)) \/ UNCHANGED at,
         UNCHANGED site
  PROVE  SiteOK'
<1>1. Own' /\ Shown' /\ enquiries \subseteq enquiries'
  BY DEF SiteOK, Own, Shown, site
<1> QED BY <1>1, SiteCalm

LEMMA EitherMoves ==
  ASSUME NEW h, Moved(h, Aside)
  PROVE  Moved(h, Announces) /\ Moved(h, CrmSteps)
BY DEF Moved, Aside

LEMMA Calm ==
  ASSUME LeadInv, (\E h \in Handler : Moved(h, Aside)) \/ UNCHANGED at,
         UNCHANGED <<mail, site>>, MetaTyped', QueueTyped', FaultsTyped'
  PROVE  LeadInv'
<1>1. /\ (\E h \in Handler : Moved(h, Announces)) \/ UNCHANGED at
      /\ (\E h \in Handler : Moved(h, CrmSteps)) \/ UNCHANGED at
  BY EitherMoves
<1>2. MailTyped' /\ SiteTyped'
  BY DEF LeadInv, Typed, MailTyped, SiteTyped, mail, site
<1>3. AtTyped'
  BY MovedTyped DEF LeadInv, Typed, AtTyped
<1>4. MailOK'
  BY <1>1, MailCalm DEF LeadInv, Typed, mail
<1>5. SiteOK'
  BY <1>1, SiteKept DEF LeadInv, Typed
<1> QED BY <1>2, <1>3, <1>4, <1>5 DEF LeadInv, Typed

-----------------------------------------------------------------------------
(* The queue *)

LEMMA MoveTyped ==
  ASSUME QueueTyped, NEW j \in Job, NEW p \in {"waiting", "owned", "done", "dead"},
         NEW n \in 0 .. Budget,
         job' = [job EXCEPT ![j] = [phase |-> p, takes |-> n, budget |-> Budget]]
  PROVE  job' \in [Job -> JobRow]
<1>1. [phase |-> p, takes |-> n, budget |-> Budget] \in JobRow
  BY DEF JobRow
<1> QED BY <1>1 DEF QueueTyped

LEMMA ReturnsTyped ==
  ASSUME QueueTyped, NEW j \in Job, Returns(j)
  PROVE  job' \in [Job -> JobRow]
BY MoveTyped DEF Returns, Moves

LEMMA DisownTyped ==
  ASSUME QueueTyped, NEW j \in Job, Disown(j)
  PROVE  owner' \in [Job -> Handler \cup {Nobody}]
BY DEF QueueTyped, Disown

LEMMA ClaimTyped ==
  ASSUME QueueTyped, NEW h \in Handler, NEW j \in Job, Claim(h, j)
  PROVE  QueueTyped'
<1>1. job' \in [Job -> JobRow]
  BY MoveTyped DEF Claim, Moves
<1>2. owner' \in [Job -> Handler \cup {Nobody}]
  BY DEF Claim, QueueTyped
<1> QED BY <1>1, <1>2 DEF QueueTyped

LEMMA EnqueueTyped ==
  ASSUME QueueTyped, NEW j \in Job, Enqueue(j)
  PROVE  job' \in [Job -> JobRow]
<1>1. NewJob \in JobRow
  BY LeadAssumption DEF NewJob, JobRow
<1> QED BY <1>1 DEF Enqueue, QueueTyped

LEMMA SyncIsJob == Sync \in Job /\ Lead \subseteq Job /\ Sync \notin Lead
BY LeadAssumption DEF Job, Sync

LEMMA StartsMoves ==
  ASSUME AtTyped, NEW h \in Handler, NEW j \in Job \cup {Page}, NEW s \in Steps,
         NEW todo \in SUBSET Lead, Starts(h, j, s, todo), NEW S, s \notin S
  PROVE  Moved(h, S)
<1> DEFINE r == [step |-> s, job |-> j, todo |-> todo, all |-> todo, left |-> {}]
<1>1. r \in At
  BY DEF At
<1> QED BY <1>1 DEF Starts, Moved

-----------------------------------------------------------------------------
(* Steps that neither announce nor capture *)

LEMMA CalmSteps ==
  /\ {"throw", "done", "insert", "link", "register", "enqueue", "pending", "look", "idle"}
       \subseteq Steps \ Aside
BY DEF Aside, Announces, CrmSteps, Steps, Calls, SyncSteps

LEMMA FormSteps ==
  ASSUME LeadInv, NEW l \in Lead, Submit(l) \/ Age(l)
  PROVE  LeadInv'
<1>1. UNCHANGED <<rows, linked, batch, mail, site, queue, at, faults>>
  BY DEF Submit, Age
<1>2. MetaTyped'
  BY <1>1 DEF LeadInv, Typed, MetaTyped, Submit, Age
<1>3. QueueTyped' /\ FaultsTyped'
  BY <1>1 DEF LeadInv, Typed, QueueTyped, FaultsTyped, queue
<1> QED BY <1>1, <1>2, <1>3, Calm

LEMMA ScheduleStep ==
  ASSUME LeadInv, Schedule
  PROVE  LeadInv'
<1>1. MetaTyped' /\ FaultsTyped'
  BY DEF LeadInv, Typed, MetaTyped, FaultsTyped, Schedule, meta
<1>2. QueueTyped'
  BY EnqueueTyped, SyncIsJob DEF LeadInv, Typed, QueueTyped, Schedule
<1> QED BY <1>1, <1>2, Calm DEF Schedule

LEMMA ReapStep ==
  ASSUME LeadInv, NEW j \in Job, Reap(j)
  PROVE  LeadInv'
<1>1. MetaTyped'
  BY DEF LeadInv, Typed, MetaTyped, Reap, meta
<1>2. QueueTyped'
  BY ReturnsTyped, DisownTyped DEF LeadInv, Typed, QueueTyped, Reap
<1>3. FaultsTyped'
  BY FaultTyped, KindsOf DEF LeadInv, Typed, FaultsTyped, Reap
<1> QED BY <1>1, <1>2, <1>3, Calm DEF Reap

LEMMA CrashStep ==
  ASSUME LeadInv, NEW h \in Handler, Crash(h)
  PROVE  LeadInv'
<1>1. MetaTyped'
  BY DEF LeadInv, Typed, MetaTyped, Crash, meta
<1>2. QueueTyped'
  BY DEF LeadInv, Typed, QueueTyped, Crash
<1>3. FaultsTyped'
  BY FaultTyped, KindsOf DEF LeadInv, Typed, Crash
<1>4. Moved(h, Aside)
  BY QuitMoves, CalmSteps DEF Crash
<1> QED BY <1>1, <1>2, <1>3, <1>4, Calm DEF Crash

LEMMA SettleStep ==
  ASSUME LeadInv, NEW h \in Handler, Settle(h)
  PROVE  LeadInv'
<1>1. MetaTyped' /\ FaultsTyped'
  BY DEF LeadInv, Typed, MetaTyped, FaultsTyped, Settle, meta
<1>2. QueueTyped'
  <2>1. CASE UNCHANGED queue
    BY <2>1 DEF LeadInv, Typed, QueueTyped, queue
  <2>2. CASE ~UNCHANGED queue
    <3> DEFINE j == at[h].job
    <3>1. owner[j] = h
      BY <2>2 DEF Settle
    <3>2. at[h] \in At
      BY DEF LeadInv, Typed, AtTyped
    <3>3. CASE j \in Job
      <4>1. job' \in [Job -> JobRow]
        BY <2>2, <3>3, ReturnsTyped, MoveTyped DEF Settle, LeadInv, Typed, Moves
      <4>2. owner' \in [Job -> Handler \cup {Nobody}]
        BY <2>2, <3>3, DisownTyped DEF Settle, LeadInv, Typed
      <4> QED BY <4>1, <4>2 DEF QueueTyped
    <3>4. CASE j \notin Job
      <4>1. owner' = owner
        BY <2>2, <3>4 DEF Settle, Disown, LeadInv, Typed, QueueTyped
      <4>2. job' = job
        <5>1. PICK q \in {"waiting", "dead", "done"}, n \in 0 .. Budget :
                job' = [job EXCEPT ![j] = [phase |-> q, takes |-> n, budget |-> Budget]]
          BY <2>2 DEF Settle, Returns, Moves
        <5> QED BY <5>1, <3>4 DEF LeadInv, Typed, QueueTyped
      <4> QED BY <4>1, <4>2 DEF LeadInv, Typed, QueueTyped
    <3> QED BY <3>3, <3>4
  <2> QED BY <2>1, <2>2
<1>3. Moved(h, Aside)
  BY QuitMoves, CalmSteps DEF Settle
<1> QED BY <1>1, <1>2, <1>3, Calm DEF Settle

LEMMA FetchStep ==
  ASSUME LeadInv, NEW h \in Handler, NEW j \in Job \cup {Page}, Fetch(h, j), QueueTyped'
  PROVE  LeadInv'
<1>1. MetaTyped'
  BY DEF LeadInv, Typed, MetaTyped, Fetch, Starts, meta
<1>2. FaultsTyped'
  BY FaultTyped, KindsOf DEF LeadInv, Typed, FaultsTyped, Fetch
<1>3. Moved(h, Aside)
  <2>1. Window \in SUBSET Lead
    BY DEF Window
  <2>2. CASE Window = {}
    BY <2>1, <2>2, StartsMoves, CalmSteps DEF Fetch, LeadInv, Typed
  <2>3. CASE Window # {}
    BY <2>1, <2>3, StartsMoves, CalmSteps DEF Fetch, LeadInv, Typed
  <2> QED BY <2>2, <2>3
<1> QED BY <1>1, <1>2, <1>3, Calm DEF Fetch, Starts

LEMMA StumbleStep ==
  ASSUME LeadInv, NEW h \in Handler, NEW j \in Job, Stumble(h, j)
  PROVE  LeadInv'
<1>1. MetaTyped'
  BY DEF LeadInv, Typed, MetaTyped, Stumble, Starts, meta
<1>2. QueueTyped' /\ FaultsTyped'
  BY ClaimTyped, FaultTyped, KindsOf DEF LeadInv, Typed, Stumble
<1>3. Moved(h, Aside)
  BY StartsMoves, CalmSteps DEF Stumble, LeadInv, Typed
<1> QED BY <1>1, <1>2, <1>3, Calm DEF Stumble, Starts

LEMMA CallFailsStep ==
  ASSUME LeadInv, NEW h \in Handler, CallFails(h)
  PROVE  LeadInv'
<1>1. MetaTyped' /\ QueueTyped'
  BY DEF LeadInv, Typed, MetaTyped, QueueTyped, CallFails, meta, queue
<1>2. CASE Errs(h)
  BY <1>1, <1>2, ErrsMoves, Calm DEF CallFails, LeadInv, Typed
<1>3. CASE LinkIsLost(h)
  <2>1. Moved(h, Aside) /\ FaultsTyped'
    BY <1>3, GotoMoves, CalmSteps, FaultTyped, KindsOf DEF LinkIsLost, LeadInv, Typed
  <2> QED BY <1>1, <2>1, Calm DEF CallFails
<1> QED BY <1>2, <1>3 DEF CallFails

LEMMA LookStep ==
  ASSUME LeadInv, NEW h \in Handler, Look(h)
  PROVE  LeadInv'
<1>1. MetaTyped' /\ QueueTyped' /\ FaultsTyped'
  BY DEF LeadInv, Typed, MetaTyped, QueueTyped, FaultsTyped, Look, meta, queue
<1>2. Moved(h, Aside)
  <2>1. PICK l \in Lead : IF New(l) THEN Goto(h, "insert") ELSE NextLead(h, l)
    BY DEF Look
  <2>2. CASE Goto(h, "insert")
    BY <2>2, GotoMoves, CalmSteps DEF LeadInv, Typed
  <2>3. CASE NextLead(h, l)
    BY <2>3, NextLeadMoves, CalmSteps DEF LeadInv, Typed
  <2> QED BY <2>1, <2>2, <2>3
<1> QED BY <1>1, <1>2, Calm DEF Look

\* A call that is answered, or fails after all
LEMMA ProceedMoves ==
  ASSUME LeadInv, NEW h \in Handler, NEW s \in Steps \ Aside, Proceed(h, s)
  PROVE  Moved(h, Aside) /\ FaultsTyped'
<1>1. CASE Goto(h, s) /\ UNCHANGED faults
  BY <1>1, GotoMoves DEF LeadInv, Typed, FaultsTyped
<1>2. CASE Errs(h)
  BY <1>2, ErrsMoves DEF LeadInv, Typed
<1> QED BY <1>1, <1>2 DEF Proceed

LEMMA InsertStep ==
  ASSUME LeadInv, NEW h \in Handler, Insert(h)
  PROVE  LeadInv'
<1>1. MetaTyped' /\ QueueTyped'
  BY DEF LeadInv, Typed, MetaTyped, QueueTyped, Insert, queue
<1>2. Moved(h, Aside) /\ FaultsTyped'
  BY ProceedMoves, CalmSteps DEF Insert
<1> QED BY <1>1, <1>2, Calm DEF Insert

LEMMA LinkStep ==
  ASSUME LeadInv, NEW h \in Handler, Link(h)
  PROVE  LeadInv'
<1>1. MetaTyped'
  <2>1. at[h].all \in SUBSET Lead
    BY DEF LeadInv, Typed, AtTyped, At
  <2> QED BY <2>1 DEF LeadInv, Typed, MetaTyped, Link
<1>2. QueueTyped'
  BY DEF LeadInv, Typed, QueueTyped, Link, queue
<1>3. CASE Goto(h, "register") /\ UNCHANGED faults
  <2>1. Moved(h, Aside) /\ FaultsTyped'
    BY <1>3, GotoMoves, CalmSteps DEF LeadInv, Typed, FaultsTyped
  <2> QED BY <1>1, <1>2, <2>1, Calm DEF Link
<1>4. CASE Return(h, "throw") /\ Fault("stop")
  <2>1. Moved(h, Aside) /\ FaultsTyped'
    BY <1>4, ReturnMoves, CalmSteps, FaultTyped, KindsOf DEF LeadInv, Typed
  <2> QED BY <1>1, <1>2, <2>1, Calm DEF Link
<1> QED BY <1>3, <1>4 DEF Link

LEMMA EnqueueCrmStep ==
  ASSUME LeadInv, NEW h \in Handler, EnqueueCrm(h)
  PROVE  LeadInv'
<1>1. MetaTyped'
  BY DEF LeadInv, Typed, MetaTyped, EnqueueCrm, meta
<1>2. PICK l \in Lead : Enqueue(l) /\ ((NextLead(h, l) /\ UNCHANGED faults) \/ Errs(h))
  BY DEF EnqueueCrm
<1>3. QueueTyped'
  BY <1>2, EnqueueTyped, SyncIsJob DEF LeadInv, Typed, QueueTyped, EnqueueCrm
<1>4. Moved(h, Aside) /\ FaultsTyped'
  <2>1. CASE NextLead(h, l) /\ UNCHANGED faults
    BY <2>1, NextLeadMoves, CalmSteps DEF LeadInv, Typed, FaultsTyped
  <2>2. CASE Errs(h)
    BY <2>2, ErrsMoves DEF LeadInv, Typed
  <2> QED BY <1>2, <2>1, <2>2
<1> QED BY <1>1, <1>3, <1>4, Calm DEF EnqueueCrm

-----------------------------------------------------------------------------
(* Steps on the CRM's side *)

\* What a step that leaves the announcements alone has to show
LEMMA SiteStep ==
  ASSUME LeadInv, NEW h \in Handler, Moved(h, Announces), UNCHANGED <<meta, mail>>,
         SiteTyped', QueueTyped', FaultsTyped', SiteOK'
  PROVE  LeadInv'
<1>1. MetaTyped' /\ MailTyped'
  BY DEF LeadInv, Typed, MetaTyped, MailTyped, meta, mail
<1>2. AtTyped'
  BY MovedTyped DEF LeadInv, Typed
<1>3. MailOK'
  BY MailCalm DEF LeadInv, Typed, mail
<1> QED BY <1>1, <1>2, <1>3 DEF LeadInv, Typed

LEMMA RegisterStep ==
  ASSUME LeadInv, NEW h \in Handler, Register(h)
  PROVE  LeadInv'
<1>1. Moved(h, Aside) /\ FaultsTyped'
  BY ProceedMoves, CalmSteps DEF Register
<1>2. PICK l \in Lead : crm' = IF crm[l] = "none" THEN [crm EXCEPT ![l] = "pending"] ELSE crm
  BY DEF Register
<1>3. enquiries' = enquiries /\ QueueTyped'
  BY DEF Register, LeadInv, Typed, QueueTyped, queue
<1>4. SiteTyped'
  BY <1>2, <1>3 DEF LeadInv, Typed, SiteTyped
<1>5. Own' /\ Shown'
  BY <1>2, <1>3 DEF LeadInv, Typed, SiteTyped, SiteOK, Own, Shown
<1>6. SiteOK'
  BY <1>1, <1>3, <1>5, EitherMoves, SiteCalm DEF LeadInv, Typed
<1> QED BY <1>1, <1>3, <1>4, <1>6, EitherMoves, SiteStep DEF Register

LEMMA LoadStep ==
  ASSUME LeadInv, NEW h \in Handler, NEW l \in Lead, Load(h, l)
  PROVE  LeadInv'
<1>1. QueueTyped'
  BY ClaimTyped, SyncIsJob DEF Load, LeadInv, Typed
<1>2. SiteTyped' /\ FaultsTyped' /\ Own' /\ Shown'
  BY DEF LeadInv, Typed, SiteTyped, FaultsTyped, SiteOK, Own, Shown, Load, Starts, site
<1>3. Moved(h, Announces)
  <2>1. {"done", "capture"} \subseteq Steps \ Announces
    BY DEF Steps, Calls, CrmSteps, Announces
  <2>2. CASE crm[l] = "delivered"
    BY <2>1, <2>2, StartsMoves, SyncIsJob DEF Load, LeadInv, Typed
  <2>3. CASE crm[l] # "delivered"
    BY <2>1, <2>3, StartsMoves, SyncIsJob DEF Load, LeadInv, Typed
  <2> QED BY <2>2, <2>3
<1>4. Placed' /\ Caught'
  <2>1. PICK s \in {"done", "capture"} :
          at' = [at EXCEPT ![h] = [step |-> s, job |-> l, todo |-> {}, all |-> {}, left |-> {}]]
    BY DEF Load, Starts
  <2>2. /\ at'[h].job = l /\ at'[h].step # "record"
        /\ \A g \in Handler : g # h => at'[g] = at[g]
    BY <2>1 DEF LeadInv, Typed, AtTyped
  <2> QED BY <2>2 DEF LeadInv, SiteOK, Placed, Caught, Load, Starts, site
<1> QED BY <1>1, <1>2, <1>3, <1>4, SiteStep DEF SiteOK, Load, Starts

LEMMA NoteMoves ==
  ASSUME LeadInv, NEW h \in Handler, Note(h)
  PROVE  /\ Moved(h, Aside) /\ FaultsTyped'
         /\ crm' \in [Lead -> {"none", "pending", "delivered", "error"}]
         /\ \A l \in Lead : crm'[l] = "delivered" => crm[l] = "delivered"
<1>1. FaultsTyped'
  BY FaultTyped, KindsOf DEF Note, LeadInv, Typed
<1>2. Moved(h, Aside)
  BY ReturnMoves, CalmSteps DEF Note, AfterNote, LeadInv, Typed
<1>3. crm' = [crm EXCEPT ![at[h].job] = "error"] \/ crm' = crm
  BY DEF Note, Write
<1>4. crm \in [Lead -> {"none", "pending", "delivered", "error"}]
  BY DEF LeadInv, Typed, SiteTyped
<1> QED BY <1>1, <1>2, <1>3, <1>4

LEMMA CaptureStep ==
  ASSUME LeadInv, NEW h \in Handler, Capture(h)
  PROVE  LeadInv'
<1> DEFINE k == at[h].job
<1>1. k \in Lead
  BY DEF Capture, Working, LeadInv, SiteOK, Placed, CrmSteps
<1>2. enquiries' = enquiries \cup {<<k, 0>>} /\ QueueTyped'
  BY DEF Capture, Command, LeadInv, Typed, QueueTyped, queue
<1>3. Own'
  BY <1>2 DEF LeadInv, SiteOK, Own
<1>4. ASSUME crm' \in [Lead -> {"none", "pending", "delivered", "error"}],
             \A l \in Lead : crm'[l] = "delivered" => crm[l] = "delivered"
      PROVE  SiteTyped' /\ Shown'
  <2>1. <<k, 0>> \in Lead \X (0 .. Budget)
    BY <1>1, LeadAssumption
  <2> QED BY <1>2, <1>4, <2>1 DEF LeadInv, Typed, SiteTyped, SiteOK, Shown
<1>5. CASE Goto(h, "record") /\ UNCHANGED <<crm, faults>>
  <2>1. Moved(h, Announces)
    BY <1>5, GotoMoves DEF LeadInv, Typed, Steps, Calls, CrmSteps, Announces
  <2>2. SiteTyped' /\ Shown' /\ FaultsTyped'
    BY <1>4, <1>5 DEF LeadInv, Typed, SiteTyped, FaultsTyped
  <2>3. /\ at'[h].job = k
        /\ \A g \in Handler : g # h => at'[g] = at[g]
    BY <1>5 DEF Goto, Becomes, LeadInv, Typed, AtTyped
  <2>4. Placed' /\ Caught'
    BY <1>1, <1>2, <2>3 DEF LeadInv, SiteOK, Placed, Caught
  <2> QED BY <1>2, <1>3, <2>1, <2>2, <2>4, SiteStep DEF SiteOK, Capture
<1>6. CASE Note(h)
  <2>1. Moved(h, Announces) /\ Moved(h, CrmSteps) /\ FaultsTyped' /\ SiteTyped' /\ Shown'
    BY <1>4, <1>6, NoteMoves, EitherMoves
  <2>2. SiteOK'
    BY <1>2, <1>3, <2>1, SiteCalm DEF LeadInv, Typed
  <2> QED BY <1>2, <2>1, <2>2, SiteStep DEF Capture
<1> QED BY <1>5, <1>6 DEF Capture

LEMMA DeliveryFailsStep ==
  ASSUME LeadInv, NEW h \in Handler, DeliveryFails(h)
  PROVE  LeadInv'
<1>1. enquiries' = enquiries /\ QueueTyped'
  BY DEF DeliveryFails, LeadInv, Typed, QueueTyped, queue
<1>2. Moved(h, Announces) /\ Moved(h, CrmSteps) /\ FaultsTyped'
  BY NoteMoves, EitherMoves DEF DeliveryFails
<1>3. SiteTyped' /\ Shown' /\ Own'
  BY <1>1, NoteMoves DEF DeliveryFails, LeadInv, Typed, SiteTyped, SiteOK, Shown, Own
<1>4. SiteOK'
  BY <1>1, <1>2, <1>3, SiteCalm DEF LeadInv, Typed
<1> QED BY <1>1, <1>2, <1>3, <1>4, SiteStep DEF DeliveryFails

LEMMA RecordStep ==
  ASSUME LeadInv, NEW h \in Handler, Record(h)
  PROVE  LeadInv'
<1> DEFINE k == at[h].job
<1>1. k \in Lead /\ <<k, 0>> \in enquiries
  BY DEF Record, Working, LeadInv, SiteOK, Placed, Caught, CrmSteps
<1>2. /\ crm' = [crm EXCEPT ![k] = "delivered"]
      /\ enquiries' = enquiries /\ QueueTyped' /\ FaultsTyped'
  BY DEF Record, Write, LeadInv, Typed, QueueTyped, FaultsTyped, queue
<1>3. SiteTyped' /\ Shown' /\ Own'
  BY <1>1, <1>2 DEF LeadInv, Typed, SiteTyped, SiteOK, Shown, Own
<1>4. Moved(h, Announces) /\ Moved(h, CrmSteps)
  BY ReturnMoves, CalmSteps, EitherMoves DEF Record, LeadInv, Typed
<1>5. SiteOK'
  BY <1>2, <1>3, <1>4, SiteCalm DEF LeadInv, Typed
<1> QED BY <1>2, <1>3, <1>4, <1>5, SiteStep DEF Record

-----------------------------------------------------------------------------
(* Announcing *)

\* What a step that leaves the CRM alone has to show
LEMMA MailStep ==
  ASSUME LeadInv, NEW h \in Handler, Moved(h, CrmSteps), UNCHANGED <<meta, site, queue>>,
         MailTyped', FaultsTyped', MailOK'
  PROVE  LeadInv'
<1>1. MetaTyped' /\ SiteTyped' /\ QueueTyped'
  BY DEF LeadInv, Typed, MetaTyped, SiteTyped, QueueTyped, meta, site, queue
<1>2. AtTyped'
  BY MovedTyped DEF LeadInv, Typed
<1>3. SiteOK'
  BY SiteKept DEF LeadInv, Typed
<1> QED BY <1>1, <1>2, <1>3 DEF LeadInv, Typed

LEMMA BatchesApart ==
  ASSUME NEW h \in Handler, NEW b \in Batches(h), NEW c \in Batches(h), b # c
  PROVE  b \cap c = {}
BY DEF Batches

\* The handler goes on to announce the batches of left, all of which are apart
LEMMA AnnounceNext ==
  ASSUME LeadInv, NEW h \in Handler, NEW left \in SUBSET (SUBSET Lead),
         Becomes(h, Announcing, {}, {}, left),
         \A b, c \in left : b # c => b \cap c = {},
         UNCHANGED announced, MarkedIsQueued'
  PROVE  MailOK' /\ Moved(h, CrmSteps)
<1>1. Moved(h, CrmSteps)
  BY BecomesMoves DEF LeadInv, Typed, Announcing, Steps, Calls, SyncSteps, CrmSteps
<1>2. /\ at'[h].step = "fire" /\ at'[h].left = left
      /\ \A g \in Handler : g # h => at'[g] = at[g]
  BY DEF Becomes, Announcing, LeadInv, Typed, AtTyped
<1>3. Apart'
  BY <1>2 DEF LeadInv, MailOK, Apart
<1>4. Ready'
  BY <1>2 DEF LeadInv, MailOK, Ready, Oldest
<1> QED BY <1>1, <1>3, <1>4 DEF MailOK

LEMMA PendingStep ==
  ASSUME LeadInv, NEW h \in Handler, Pending(h)
  PROVE  LeadInv'
<1>1. MailTyped' /\ FaultsTyped' /\ MarkedIsQueued'
  BY DEF Pending, LeadInv, Typed, MailTyped, FaultsTyped, MailOK, MarkedIsQueued, mail
<1>2. CASE Return(h, "done")
  <2>1. Moved(h, Aside) /\ QueueTyped' /\ MetaTyped'
    BY <1>2, ReturnMoves, CalmSteps DEF LeadInv, Typed, QueueTyped, MetaTyped, Pending, queue, meta
  <2> QED BY <1>1, <2>1, Calm DEF Pending
<1>3. CASE Becomes(h, Announcing, {}, {}, Batches(h))
  <2>1. Batches(h) \in SUBSET (SUBSET Lead)
    BY DEF Batches, Unmarked, LeadInv, Typed, MetaTyped
  <2>2. MailOK' /\ Moved(h, CrmSteps)
    BY <1>1, <1>3, <2>1, BatchesApart, AnnounceNext DEF Pending, mail
  <2> QED BY <1>1, <2>2, MailStep DEF Pending
<1> QED BY <1>2, <1>3 DEF Pending

\* Batches that do not overlap have one oldest among them
LEMMA OneOldest ==
  ASSUME LeadInv, NEW h \in Handler, at[h].step \in Announces,
         NEW b \in at[h].left, NEW c \in at[h].left, Oldest(h, b), Oldest(h, c)
  PROVE  b = c
<1>1. at[h].left \subseteq SUBSET Lead
  BY DEF LeadInv, Typed, AtTyped, At
<1>2. PICK k \in b : \A d \in at[h].left : \A m \in d : k <= m
  BY DEF Oldest
<1>3. PICK l \in c : \A d \in at[h].left : \A m \in d : l <= m
  BY DEF Oldest
<1>4. k \in Nat /\ l \in Nat /\ k <= l /\ l <= k
  BY <1>1, <1>2, <1>3, LeadAssumption
<1>5. k = l
  BY <1>4
<1> QED BY <1>2, <1>3, <1>5 DEF LeadInv, MailOK, Apart, Announces

LEMMA FireStep ==
  ASSUME LeadInv, NEW h \in Handler, Fire(h)
  PROVE  LeadInv'
<1>1. PICK b \in at[h].left : Oldest(h, b) /\ announced' = announced \cup {b}
  BY DEF Fire
<1>2. MailTyped'
  <2>1. b \in SUBSET Lead
    BY DEF LeadInv, Typed, AtTyped, At
  <2> QED BY <1>1, <2>1 DEF LeadInv, Typed, MailTyped, Fire
<1>3. marked' = marked /\ announced \subseteq announced'
  BY <1>1 DEF Fire
<1>4. CASE Goto(h, "mark") /\ UNCHANGED faults
  <2>1. Moved(h, CrmSteps) /\ FaultsTyped'
    BY <1>4, GotoMoves DEF LeadInv, Typed, FaultsTyped, Steps, Calls, SyncSteps, CrmSteps
  <2>2. /\ at'[h].left = at[h].left /\ at[h].step = "fire"
        /\ \A g \in Handler : g # h => at'[g] = at[g]
    BY <1>4 DEF Goto, Becomes, Fire, Working, LeadInv, Typed, AtTyped
  <2>3. Apart'
    BY <2>2 DEF LeadInv, MailOK, Apart
  <2>4. Ready'
    <3> SUFFICES ASSUME NEW g \in Handler, at'[g].step = "mark",
                        NEW c \in at'[g].left, Oldest(g, c)'
                 PROVE  c \in announced'
      BY DEF Ready
    <3>1. c \in at[g].left /\ Oldest(g, c)
      BY <2>2 DEF Oldest
    <3>2. CASE g = h
      BY <1>1, <2>2, <3>1, <3>2, OneOldest DEF Announces
    <3>3. CASE g # h
      BY <1>3, <2>2, <3>1, <3>3 DEF LeadInv, MailOK, Ready
    <3> QED BY <3>2, <3>3
  <2>5. MarkedIsQueued'
    BY <1>3 DEF LeadInv, MailOK, MarkedIsQueued
  <2> QED BY <1>2, <2>1, <2>3, <2>4, <2>5, MailStep DEF MailOK, Fire
<1>5. CASE Errs(h)
  <2>1. Moved(h, Announces) /\ Moved(h, CrmSteps) /\ FaultsTyped'
    BY <1>5, ErrsMoves, EitherMoves DEF LeadInv, Typed
  <2>2. MailOK'
    BY <1>3, <2>1, MailCalm DEF LeadInv, Typed
  <2> QED BY <1>2, <2>1, <2>2, MailStep DEF Fire
<1> QED BY <1>4, <1>5 DEF Fire, Proceed

LEMMA MarkStep ==
  ASSUME LeadInv, NEW h \in Handler, Mark(h)
  PROVE  LeadInv'
<1>1. PICK b \in at[h].left :
        /\ Oldest(h, b) /\ marked' = marked \cup b
        /\ \/ /\ UNCHANGED faults
              /\ IF at[h].left = {b} THEN Return(h, "done")
                 ELSE Becomes(h, Announcing, {}, {}, at[h].left \ {b})
           \/ Errs(h)
  BY DEF Mark
<1>2. at[h].step = "mark" /\ announced' = announced /\ at[h].left \in SUBSET (SUBSET Lead)
  BY DEF Mark, Working, LeadInv, Typed, AtTyped, At
<1>3. MailTyped'
  BY <1>1, <1>2 DEF LeadInv, Typed, MailTyped
<1>4. MarkedIsQueued'
  <2>1. b \in announced
    BY <1>1, <1>2 DEF LeadInv, MailOK, Ready
  <2> QED BY <1>1, <1>2, <2>1 DEF LeadInv, MailOK, MarkedIsQueued
<1>5. CASE Moved(h, Aside) /\ FaultsTyped'
  <2>1. Moved(h, Announces) /\ Moved(h, CrmSteps)
    BY <1>5, EitherMoves
  <2>2. MailOK'
    BY <1>2, <1>4, <2>1, MailMoved DEF LeadInv, Typed
  <2> QED BY <1>3, <1>5, <2>1, <2>2, MailStep DEF Mark
<1>6. CASE Errs(h)
  BY <1>5, <1>6, ErrsMoves DEF LeadInv, Typed
<1>7. CASE Return(h, "done") /\ UNCHANGED faults
  BY <1>5, <1>7, ReturnMoves, CalmSteps DEF LeadInv, Typed, FaultsTyped
<1>8. CASE Becomes(h, Announcing, {}, {}, at[h].left \ {b}) /\ UNCHANGED faults
  <2>1. \A c, d \in at[h].left \ {b} : c # d => c \cap d = {}
    BY <1>2 DEF LeadInv, MailOK, Apart
  <2>2. MailOK' /\ Moved(h, CrmSteps)
    BY <1>2, <1>4, <1>8, <2>1, AnnounceNext
  <2>3. FaultsTyped'
    BY <1>8 DEF LeadInv, Typed, FaultsTyped
  <2> QED BY <1>3, <2>2, <2>3, MailStep DEF Mark
<1> QED BY <1>1, <1>6, <1>7, <1>8

-----------------------------------------------------------------------------
(* The invariant, and what follows *)

LEMMA InitHolds == Init => LeadInv
<1> SUFFICES ASSUME Init PROVE LeadInv
  OBVIOUS
<1>1. MetaTyped /\ MailTyped /\ SiteTyped
  BY DEF Init, MetaTyped, MailTyped, SiteTyped
<1>2. QueueTyped
  BY LeadAssumption DEF Init, QueueTyped, JobRow
<1>3. AtTyped /\ FaultsTyped
  BY IdleTyped, LeadAssumption DEF Init, AtTyped, FaultsTyped
<1>4. MailOK
  BY DEF Init, Idle, MailOK, Apart, Ready, MarkedIsQueued
<1>5. SiteOK
  BY DEF Init, Idle, SiteOK, Placed, Own, Caught, Shown, CrmSteps
<1> QED BY <1>1, <1>2, <1>3, <1>4, <1>5 DEF LeadInv, Typed

LEMMA TakeStep ==
  ASSUME LeadInv, NEW h \in Handler, NEW j \in Job, Take(h, j)
  PROVE  LeadInv'
<1>1. CASE j = Sync /\ SyncJob(h)
  <2>1. QueueTyped'
    BY <1>1, ClaimTyped DEF SyncJob, LeadInv, Typed
  <2> QED BY <1>1, <2>1, FetchStep DEF SyncJob
<1>2. CASE j # Sync /\ Load(h, j)
  <2>1. j \in Lead
    BY <1>2 DEF Job
  <2> QED BY <1>2, <2>1, LoadStep
<1> QED BY <1>1, <1>2 DEF Take

LEMMA StepHolds ==
  ASSUME LeadInv, NEW h \in Handler, Step(h)
  PROVE  LeadInv'
BY LookStep, InsertStep, LinkStep, RegisterStep, EnqueueCrmStep, PendingStep, FireStep,
   MarkStep, CaptureStep, RecordStep, SettleStep DEF Step

LEMMA NextHolds == LeadInv /\ [Next]_vars => LeadInv'
<1> SUFFICES ASSUME LeadInv, [Next]_vars PROVE LeadInv'
  OBVIOUS
<1>1. ASSUME NEW l \in Lead, Submit(l) \/ Age(l) PROVE LeadInv'
  BY <1>1, FormSteps
<1>2. CASE Schedule
  BY <1>2, ScheduleStep
<1>3. ASSUME NEW j \in Job, Reap(j) PROVE LeadInv'
  BY <1>3, ReapStep
<1>4. ASSUME NEW j \in Job, NEW h \in Handler, Take(h, j) \/ Stumble(h, j) PROVE LeadInv'
  BY <1>4, TakeStep, StumbleStep
<1>5. ASSUME NEW h \in Handler, Refresh(h) PROVE LeadInv'
  <2>1. QueueTyped'
    BY <1>5 DEF Refresh, LeadInv, Typed, QueueTyped, queue
  <2> QED BY <1>5, <2>1, FetchStep DEF Refresh
<1>6. ASSUME NEW h \in Handler, Step(h) \/ CallFails(h) \/ DeliveryFails(h) \/ Crash(h)
      PROVE  LeadInv'
  BY <1>6, StepHolds, CallFailsStep, DeliveryFailsStep, CrashStep
<1>7. CASE UNCHANGED vars
  <2>1. UNCHANGED at /\ UNCHANGED <<mail, site>> /\ MetaTyped' /\ QueueTyped' /\ FaultsTyped'
    BY <1>7 DEF vars, meta, queue, LeadInv, Typed, MetaTyped, QueueTyped, FaultsTyped
  <2> QED BY <2>1, Calm
<1> QED BY <1>1, <1>2, <1>3, <1>4, <1>5, <1>6, <1>7 DEF Next

LEMMA AlwaysLeadInv == Spec => []LeadInv
BY InitHolds, NextHolds, PTL DEF Spec

(* Every variable keeps to its type, for any leads, handlers, budgets and
   faults. *)
THEOREM LeadTypeCorrect == Spec => []LeadTypeOK
<1>1. LeadInv => LeadTypeOK
  BY DEF LeadInv, Typed, MetaTyped, MailTyped, SiteTyped, QueueTyped, AtTyped,
         FaultsTyped, LeadTypeOK
<1> QED BY <1>1, AlwaysLeadInv, PTL

(* A lead that queuePendingNewLeadsEvent has marked is in a queued announcement,
   whatever call fails, whoever dies, and however many syncs run at once. *)
THEOREM MarkedIsQueuedAlways == Spec => []MarkedIsQueued
<1>1. LeadInv => MarkedIsQueued
  BY DEF LeadInv, MailOK
<1> QED BY <1>1, AlwaysLeadInv, PTL

(* The command of crmCaptureCommandId has the CRM capture a lead once, and
   executeLeadCrmDeliveryJobById shows as delivered only what it captured. *)
THEOREM CapturedOnceAlways == Spec => []CapturedOnce
<1>1. LeadInv => CapturedOnce
  <2> SUFFICES ASSUME LeadInv, NEW l \in Lead
               PROVE  LET captures == { c \in enquiries : c[1] = l }
                      IN Cardinality(captures) <= 1 /\ (crm[l] = "delivered" => captures # {})
    BY DEF CapturedOnce
  <2> DEFINE captures == { c \in enquiries : c[1] = l }
  <2>1. captures \subseteq {<<l, 0>>}
    BY DEF LeadInv, SiteOK, Own
  <2>2. Cardinality(captures) <= 1
    <3>1. IsFiniteSet({<<l, 0>>}) /\ Cardinality({<<l, 0>>}) = 1
      BY FS_Singleton
    <3>2. Cardinality(captures) \in Nat /\ Cardinality(captures) <= Cardinality({<<l, 0>>})
      BY <2>1, <3>1, FS_Subset, FS_CardinalityType
    <3> QED BY <3>1, <3>2
  <2>3. crm[l] = "delivered" => captures # {}
    <3> SUFFICES ASSUME crm[l] = "delivered" PROVE <<l, 0>> \in captures
      OBVIOUS
    <3>1. <<l, 0>> \in enquiries
      BY DEF LeadInv, SiteOK, Shown
    <3>2. <<l, 0>>[1] = l
      OBVIOUS
    <3> QED BY <3>1, <3>2
  <2> QED BY <2>2, <2>3
<1> QED BY <1>1, AlwaysLeadInv, PTL

-----------------------------------------------------------------------------
(* The leads rows.  A handler that has a lead before it may yet insert a row *)
(* of its own, until the lead has its meta_leads row.  As long as it has     *)
(* none, the rows that are there and those that may come are at most one for *)
(* each failure and one more, and where nobody is at it that one is still to *)
(* come; after that only the inserts under way count.                        *)

\* r's handler is at the lead, or still to come to it
AtLead(r, l) == l \in r.todo /\ \A k \in r.todo : l <= k

InsertsIt(r, l) == r.step = "insert" /\ AtLead(r, l)
LinksIt(r, l) == r.step = "link" /\ AtLead(r, l)
MayInsert(r, l) ==
  /\ l \in r.todo
  /\ \/ r.step \in {"look", "insert"}
     \/ r.step \in {"link", "register", "enqueue"} /\ ~AtLead(r, l)

Inserting(l) == { h \in Handler : InsertsIt(at[h], l) }
Linking(l) == { h \in Handler : LinksIt(at[h], l) }
Inserters(l) == { h \in Handler : MayInsert(at[h], l) }

ToCome(l) == IF Inserters(l) \cup Linking(l) = {} THEN 1 ELSE 0

RowsOf(l) ==
  /\ IsFiniteSet(Inserters(l))
  /\ IF l \in linked THEN rows[l] + Cardinality(Inserting(l)) <= Causes + 1
     ELSE rows[l] + Cardinality(Inserters(l)) + ToCome(l) <= Causes + 1

RowsInv == \A l \in Lead : RowsOf(l)

LEMMA CausesTyped ==
  ASSUME FaultsTyped
  PROVE  Causes \in Nat
<1>1. /\ faults["unnoticed"] \in 0 .. MaxFaults
      /\ faults["beside"] \in 0 .. MaxFaults
      /\ faults["stop"] \in 0 .. MaxFaults
  BY DEF FaultsTyped, Kinds
<1> QED BY <1>1, LeadAssumption DEF Causes

\* A lease outlived is no cause of a row
LEMMA FaultCounts ==
  ASSUME FaultsTyped, NEW k \in Kinds, Fault(k)
  PROVE  Causes' = IF k = "lapse" THEN Causes ELSE Causes + 1
<1>1. /\ faults["unnoticed"] \in Nat /\ faults["beside"] \in Nat
      /\ faults["lapse"] \in Nat /\ faults["stop"] \in Nat
  BY LeadAssumption DEF FaultsTyped, Kinds
<1>2. faults' = [faults EXCEPT ![k] = faults[k] + 1]
  BY DEF Fault
<1> QED BY <1>1, <1>2 DEF FaultsTyped, Kinds, Causes

\* One handler in a set of handlers more or less
LEMMA OneMoves ==
  ASSUME NEW S, NEW T, IsFiniteSet(S), NEW h, NEW B \in BOOLEAN,
         T = IF B THEN S \cup {h} ELSE S \ {h}
  PROVE  /\ IsFiniteSet(T) /\ Cardinality(T) \in Nat /\ Cardinality(S) \in Nat
         /\ Cardinality(T) <= Cardinality(S) + 1
         /\ ~B => Cardinality(T) <= Cardinality(S)
         /\ ~B /\ h \in S => Cardinality(T) = Cardinality(S) - 1
<1>1. /\ IsFiniteSet(S \cup {h}) /\ IsFiniteSet(S \ {h})
      /\ Cardinality(S) \in Nat
      /\ Cardinality(S \cup {h}) \in Nat /\ Cardinality(S \ {h}) \in Nat
  BY FS_AddElement, FS_RemoveElement, FS_CardinalityType
<1>2. /\ Cardinality(S \cup {h}) = IF h \in S THEN Cardinality(S) ELSE Cardinality(S) + 1
      /\ Cardinality(S \ {h}) = IF h \in S THEN Cardinality(S) - 1 ELSE Cardinality(S)
  BY FS_AddElement, FS_RemoveElement
<1>3. CASE B
  BY <1>1, <1>2, <1>3
<1>4. CASE ~B
  BY <1>1, <1>2, <1>4
<1> QED BY <1>3, <1>4

LEMMA OneLess ==
  ASSUME NEW S, NEW T, IsFiniteSet(S), NEW h, T = S \ {h}
  PROVE  /\ IsFiniteSet(T) /\ Cardinality(T) \in Nat /\ Cardinality(S) \in Nat
         /\ Cardinality(T) <= Cardinality(S)
         /\ h \in S => Cardinality(T) = Cardinality(S) - 1
BY FS_RemoveElement, FS_CardinalityType

LEMMA InsertingCounts ==
  ASSUME NEW l, IsFiniteSet(Inserters(l))
  PROVE  /\ IsFiniteSet(Inserting(l)) /\ Cardinality(Inserting(l)) \in Nat
         /\ Cardinality(Inserters(l)) \in Nat
         /\ Cardinality(Inserting(l)) <= Cardinality(Inserters(l))
<1>1. Inserting(l) \in SUBSET Inserters(l)
  BY DEF Inserting, Inserters, InsertsIt, MayInsert, AtLead
<1> QED BY <1>1, FS_Subset, FS_CardinalityType

\* What a handler's move does to who is at a lead
LEMMA MoveAtLead ==
  ASSUME AtTyped, NEW h \in Handler, NEW r, at' = [at EXCEPT ![h] = r], NEW l
  PROVE  /\ Inserters(l)' = IF MayInsert(r, l) THEN Inserters(l) \cup {h} ELSE Inserters(l) \ {h}
         /\ Inserting(l)' = IF InsertsIt(r, l) THEN Inserting(l) \cup {h} ELSE Inserting(l) \ {h}
         /\ Linking(l)' = IF LinksIt(r, l) THEN Linking(l) \cup {h} ELSE Linking(l) \ {h}
<1>1. at'[h] = r /\ \A g \in Handler : g # h => at'[g] = at[g]
  BY DEF AtTyped
<1>2. Inserters(l)' = IF MayInsert(r, l) THEN Inserters(l) \cup {h} ELSE Inserters(l) \ {h}
  BY <1>1 DEF Inserters, MayInsert, AtLead
<1>3. Inserting(l)' = IF InsertsIt(r, l) THEN Inserting(l) \cup {h} ELSE Inserting(l) \ {h}
  BY <1>1 DEF Inserting, InsertsIt, AtLead
<1>4. Linking(l)' = IF LinksIt(r, l) THEN Linking(l) \cup {h} ELSE Linking(l) \ {h}
  BY <1>1 DEF Linking, LinksIt, AtLead
<1> QED BY <1>2, <1>3, <1>4

\* The lead's rows stay, and a failure pays for whatever the handler does next
LEMMA RowsPaid ==
  ASSUME LeadInv, NEW l \in Lead, RowsOf(l), NEW h \in Handler, Moved(h, {}),
         rows'[l] = rows[l], l \in linked' <=> l \in linked, Causes' = Causes + 1
  PROVE  RowsOf(l)'
<1>1. PICK r \in At : at' = [at EXCEPT ![h] = r]
  BY DEF Moved
<1>2. /\ Inserters(l)' = IF MayInsert(r, l) THEN Inserters(l) \cup {h} ELSE Inserters(l) \ {h}
      /\ Inserting(l)' = IF InsertsIt(r, l) THEN Inserting(l) \cup {h} ELSE Inserting(l) \ {h}
  BY <1>1, MoveAtLead DEF LeadInv, Typed
<1>3. IsFiniteSet(Inserters(l)) /\ IsFiniteSet(Inserting(l))
  BY InsertingCounts DEF RowsOf
<1>4. /\ IsFiniteSet(Inserters(l)') /\ Cardinality(Inserters(l)') \in Nat
      /\ Cardinality(Inserters(l)) \in Nat
      /\ Cardinality(Inserters(l)') <= Cardinality(Inserters(l)) + 1
      /\ ~MayInsert(r, l) => Cardinality(Inserters(l)') <= Cardinality(Inserters(l))
      /\ MayInsert(r, l) => h \in Inserters(l)'
  BY <1>2, <1>3, OneMoves
<1>5. /\ Cardinality(Inserting(l)') \in Nat /\ Cardinality(Inserting(l)) \in Nat
      /\ Cardinality(Inserting(l)') <= Cardinality(Inserting(l)) + 1
  BY <1>2, <1>3, OneMoves
<1>6. rows[l] \in Nat /\ Causes \in Nat
  BY CausesTyped DEF LeadInv, Typed, MetaTyped
<1>7. CASE l \in linked
  BY <1>4, <1>5, <1>6, <1>7 DEF RowsOf
<1>8. CASE l \notin linked
  <2>1. MayInsert(r, l) => ToCome(l)' = 0
    BY <1>4 DEF ToCome
  <2>2. ToCome(l) \in {0, 1} /\ ToCome(l)' \in {0, 1}
    BY DEF ToCome
  <2>3. rows[l] + Cardinality(Inserters(l)) + ToCome(l) <= Causes + 1
    BY <1>8 DEF RowsOf
  <2>4. rows'[l] + Cardinality(Inserters(l)') + ToCome(l)' <= Causes' + 1
    BY <1>4, <1>6, <2>1, <2>2, <2>3
  <2> QED BY <1>4, <1>8, <2>4 DEF RowsOf
<1> QED BY <1>7, <1>8

\* They stay, and the handler is where it was with the lead
SameAt(h, l) ==
  IF l \in linked THEN InsertsIt(at'[h], l) => InsertsIt(at[h], l)
  ELSE /\ MayInsert(at'[h], l) <=> MayInsert(at[h], l)
       /\ LinksIt(at'[h], l) <=> LinksIt(at[h], l)

LEMMA RowsStay ==
  ASSUME LeadInv, NEW l \in Lead, RowsOf(l), NEW h \in Handler, Moved(h, {}), SameAt(h, l),
         rows'[l] = rows[l], l \in linked' <=> l \in linked, UNCHANGED faults
  PROVE  RowsOf(l)'
<1>1. PICK r \in At : at' = [at EXCEPT ![h] = r]
  BY DEF Moved
<1>2. /\ Inserters(l)' = IF MayInsert(r, l) THEN Inserters(l) \cup {h} ELSE Inserters(l) \ {h}
      /\ Inserting(l)' = IF InsertsIt(r, l) THEN Inserting(l) \cup {h} ELSE Inserting(l) \ {h}
      /\ Linking(l)' = IF LinksIt(r, l) THEN Linking(l) \cup {h} ELSE Linking(l) \ {h}
  BY <1>1, MoveAtLead DEF LeadInv, Typed
<1>3. at'[h] = r /\ Causes' = Causes
  BY <1>1 DEF LeadInv, Typed, AtTyped, Causes
<1>4. IsFiniteSet(Inserters(l)) /\ IsFiniteSet(Inserting(l))
  BY InsertingCounts DEF RowsOf
<1>5. CASE l \in linked
  <2>1. Inserting(l)' \subseteq Inserting(l)
    BY <1>2, <1>3, <1>5 DEF SameAt, Inserting
  <2>2. /\ Cardinality(Inserting(l)') <= Cardinality(Inserting(l))
        /\ Cardinality(Inserting(l)') \in Nat /\ Cardinality(Inserting(l)) \in Nat
    BY <1>4, <2>1, FS_Subset, FS_CardinalityType
  <2>3. IsFiniteSet(Inserters(l)')
    BY <1>2, <1>4, OneMoves DEF MayInsert
  <2>4. rows[l] \in Nat /\ Causes \in Nat
    BY CausesTyped DEF LeadInv, Typed, MetaTyped
  <2> QED BY <1>3, <1>5, <2>2, <2>3, <2>4 DEF RowsOf
<1>6. CASE l \notin linked
  <2>1. Inserters(l)' = Inserters(l) /\ Linking(l)' = Linking(l)
    BY <1>2, <1>3, <1>6 DEF SameAt, Inserters, Linking
  <2>2. ToCome(l)' = ToCome(l)
    BY <2>1 DEF ToCome
  <2> QED BY <1>3, <1>6, <2>1, <2>2 DEF RowsOf
<1> QED BY <1>5, <1>6

LEMMA RowsAlike ==
  ASSUME LeadInv, RowsInv, UNCHANGED <<rows, linked>>,
         \/ \E h \in Handler : /\ Moved(h, {})
                               /\ \/ Causes' = Causes + 1
                                  \/ UNCHANGED faults /\ \A l \in Lead : SameAt(h, l)
         \/ UNCHANGED at /\ (Causes' = Causes \/ Causes' = Causes + 1)
  PROVE  RowsInv'
<1> SUFFICES ASSUME NEW l \in Lead PROVE RowsOf(l)'
  BY DEF RowsInv
<1>1. RowsOf(l)
  BY DEF RowsInv
<1>2. CASE UNCHANGED at /\ (Causes' = Causes \/ Causes' = Causes + 1)
  <2>1. /\ Inserters(l)' = Inserters(l) /\ Inserting(l)' = Inserting(l)
        /\ ToCome(l)' = ToCome(l)
    BY <1>2 DEF Inserters, Inserting, Linking, ToCome
  <2>2. Causes \in Nat /\ rows[l] \in Nat /\ ToCome(l) \in {0, 1}
    BY CausesTyped DEF LeadInv, Typed, MetaTyped, ToCome
  <2>3. Cardinality(Inserters(l)) \in Nat /\ Cardinality(Inserting(l)) \in Nat
    BY <1>1, InsertingCounts DEF RowsOf
  <2> QED BY <1>1, <1>2, <2>1, <2>2, <2>3 DEF RowsOf
<1>3. CASE \E h \in Handler : Moved(h, {}) /\ Causes' = Causes + 1
  BY <1>1, <1>3, RowsPaid
<1>4. CASE \E h \in Handler : Moved(h, {}) /\ UNCHANGED faults /\ SameAt(h, l)
  BY <1>1, <1>4, RowsStay
<1> QED BY <1>2, <1>3, <1>4

\* Where a move takes its handler
LEMMA BecomesPlace ==
  ASSUME AtTyped, NEW h \in Handler, NEW s, NEW todo, NEW all, NEW left,
         Becomes(h, s, todo, all, left)
  PROVE  /\ at'[h].step = s /\ at'[h].todo = todo /\ at'[h].all = all /\ at'[h].left = left
         /\ \A g \in Handler : g # h => at'[g] = at[g]
BY DEF Becomes, AtTyped

LEMMA GotoPlace ==
  ASSUME AtTyped, NEW h \in Handler, NEW s, Goto(h, s)
  PROVE  /\ at'[h].step = s /\ at'[h].todo = at[h].todo /\ at'[h].all = at[h].all
         /\ at'[h].left = at[h].left
         /\ \A g \in Handler : g # h => at'[g] = at[g]
BY DEF Goto, Becomes, AtTyped

LEMMA QuitPlace ==
  ASSUME AtTyped, NEW h \in Handler, Quit(h)
  PROVE  /\ at'[h] = Idle
         /\ \A g \in Handler : g # h => at'[g] = at[g]
BY DEF Quit, AtTyped

LEMMA ReturnPlace ==
  ASSUME AtTyped, NEW h \in Handler, NEW s, Return(h, s)
  PROVE  /\ at'[h].step \in {s, "idle"}
         /\ at'[h].todo = {} /\ at'[h].all = {} /\ at'[h].left = {}
         /\ \A g \in Handler : g # h => at'[g] = at[g]
<1>1. CASE at[h].job = Page
  BY <1>1, QuitPlace DEF Return, Idle
<1>2. CASE at[h].job # Page
  BY <1>2, BecomesPlace DEF Return
<1> QED BY <1>1, <1>2

LEMMA NextLeadPlace ==
  ASSUME AtTyped, NEW h \in Handler, NEW l, NextLead(h, l)
  PROVE  /\ at'[h].step = IF at[h].todo = {l} THEN "pending" ELSE "look"
         /\ at'[h].todo = at[h].todo \ {l} /\ at'[h].all = at[h].all
         /\ at'[h].left = at[h].left
         /\ \A g \in Handler : g # h => at'[g] = at[g]
BY DEF NextLead, Becomes, AtTyped

LEMMA StartsPlace ==
  ASSUME AtTyped, NEW h \in Handler, NEW j, NEW s, NEW todo, Starts(h, j, s, todo)
  PROVE  /\ at[h].step = "idle"
         /\ at'[h].step = s /\ at'[h].todo = todo /\ at'[h].all = todo /\ at'[h].left = {}
         /\ \A g \in Handler : g # h => at'[g] = at[g]
BY DEF Starts, Working, AtTyped

LEMMA MovedAtAll ==
  ASSUME NEW h, NEW S, Moved(h, S)
  PROVE  Moved(h, {})
BY DEF Moved

LeadSteps == {"look", "insert", "link", "register", "enqueue"}

\* A handler that is at no lead, and goes to none
LEMMA AwayIsSame ==
  ASSUME NEW h \in Handler, at[h].step \notin LeadSteps, at'[h].step \notin LeadSteps, NEW l
  PROVE  SameAt(h, l)
BY DEF SameAt, LeadSteps, InsertsIt, LinksIt, MayInsert

LEMMA OneFirst ==
  ASSUME LeadInv, NEW h \in Handler, NEW l \in Lead, NEW k \in Lead, First(h, l), First(h, k)
  PROVE  k = l
<1>1. k <= l /\ l <= k /\ k \in Nat /\ l \in Nat
  BY LeadAssumption DEF First
<1> QED BY <1>1

LEMMA ErrsPays ==
  ASSUME LeadInv, NEW h \in Handler, Errs(h)
  PROVE  Moved(h, {}) /\ Causes' = Causes + 1
BY ErrsMoves, MovedAtAll, FaultCounts, KindsOf DEF Errs, LeadInv, Typed

\* Failures: the step pays for itself
LEMMA RowsFailures ==
  ASSUME LeadInv, RowsInv, NEW h \in Handler,
         CallFails(h) \/ DeliveryFails(h) \/ Crash(h) \/ \E j \in Job : Stumble(h, j)
  PROVE  RowsInv'
<1>1. CASE CallFails(h)
  <2>1. UNCHANGED <<rows, linked>>
    BY <1>1 DEF CallFails, meta
  <2>2. CASE Errs(h)
    BY <2>1, <2>2, ErrsPays, RowsAlike
  <2>3. CASE LinkIsLost(h)
    <3>1. Moved(h, {}) /\ Causes' = Causes + 1
      BY <2>3, GotoMoves, CalmSteps, FaultCounts, KindsOf DEF LinkIsLost, LeadInv, Typed
    <3> QED BY <2>1, <3>1, RowsAlike
  <2> QED BY <1>1, <2>2, <2>3 DEF CallFails
<1>2. CASE DeliveryFails(h)
  <2>1. UNCHANGED <<rows, linked>> /\ Moved(h, {}) /\ Causes' = Causes + 1
    BY <1>2, NoteMoves, MovedAtAll, FaultCounts, KindsOf
       DEF DeliveryFails, Note, meta, LeadInv, Typed
  <2> QED BY <2>1, RowsAlike
<1>3. CASE Crash(h)
  <2>1. UNCHANGED <<rows, linked>> /\ Moved(h, {}) /\ Causes' = Causes + 1
    BY <1>3, QuitMoves, FaultCounts, KindsOf DEF Crash, meta, LeadInv, Typed
  <2> QED BY <2>1, RowsAlike
<1>4. CASE \E j \in Job : Stumble(h, j)
  <2>1. PICK j \in Job : Stumble(h, j)
    BY <1>4
  <2>2. UNCHANGED <<rows, linked>> /\ Causes' = Causes + 1
    BY <2>1, FaultCounts, KindsOf DEF Stumble, Starts, meta, LeadInv, Typed
  <2>3. Moved(h, {})
    BY <2>1, StartsMoves, CalmSteps DEF Stumble, LeadInv, Typed
  <2> QED BY <2>2, <2>3, RowsAlike
<1> QED BY <1>1, <1>2, <1>3, <1>4

\* Meta's side, the schedule and the reaper
LEMMA RowsUnmoved ==
  ASSUME LeadInv, RowsInv,
         \/ \E l \in Lead : Submit(l) \/ Age(l)
         \/ Schedule
         \/ \E j \in Job : Reap(j)
  PROVE  RowsInv'
<1>1. UNCHANGED <<rows, linked, at>>
  BY DEF Submit, Age, Schedule, Reap, meta
<1>2. Causes' = Causes \/ Causes' = Causes + 1
  BY FaultCounts, KindsOf DEF Submit, Age, Schedule, Reap, LeadInv, Typed, Causes
<1> QED BY <1>1, <1>2, RowsAlike

\* Work that is not on a lead of a sync
LEMMA RowsAway ==
  ASSUME LeadInv, RowsInv, NEW h \in Handler,
         \/ Settle(h) \/ Pending(h) \/ Fire(h) \/ Mark(h) \/ Capture(h) \/ Record(h)
         \/ \E l \in Lead : Load(h, l)
  PROVE  RowsInv'
<1>0. /\ UNCHANGED <<rows, linked>>
      /\ LeadSteps \cap
           {"done", "throw", "idle", "fire", "mark", "pending", "capture", "record"} = {}
  BY DEF Settle, Pending, Fire, Mark, Capture, Record, Load, Starts, meta, LeadSteps
<1>1. ASSUME Moved(h, {}), at[h].step \notin LeadSteps, at'[h].step \notin LeadSteps,
             UNCHANGED faults
      PROVE  RowsInv'
  BY <1>0, <1>1, AwayIsSame, RowsAlike
<1>2. CASE Settle(h)
  <2>1. Moved(h, {}) /\ at'[h] = Idle /\ at[h].step \in {"done", "throw"} /\ UNCHANGED faults
    BY <1>2, QuitMoves, QuitPlace DEF Settle, LeadInv, Typed
  <2> QED BY <1>0, <1>1, <2>1 DEF Idle
<1>3. CASE Pending(h)
  <2>1. at[h].step = "pending" /\ UNCHANGED faults
    BY <1>3 DEF Pending, Working
  <2>2. CASE Return(h, "done")
    BY <1>0, <1>1, <2>1, <2>2, ReturnMoves, ReturnPlace, CalmSteps DEF LeadInv, Typed
  <2>3. CASE Becomes(h, Announcing, {}, {}, Batches(h))
    <3>1. Batches(h) \in SUBSET (SUBSET Lead)
      BY DEF Batches, Unmarked, LeadInv, Typed, MetaTyped
    <3>2. Moved(h, {})
      BY <2>3, <3>1, BecomesMoves DEF LeadInv, Typed, Announcing, Steps, Calls, SyncSteps
    <3>3. at'[h].step = "fire"
      BY <2>3, BecomesPlace DEF LeadInv, Typed, Announcing
    <3> QED BY <1>0, <1>1, <2>1, <3>2, <3>3
  <2> QED BY <1>3, <2>2, <2>3 DEF Pending
<1>4. CASE Fire(h)
  <2>1. at[h].step = "fire"
    BY <1>4 DEF Fire, Working
  <2>2. CASE Goto(h, "mark") /\ UNCHANGED faults
    BY <1>0, <1>1, <2>1, <2>2, GotoMoves, GotoPlace DEF LeadInv, Typed, Steps, Calls, SyncSteps
  <2>3. CASE Errs(h)
    BY <1>0, <2>3, ErrsPays, RowsAlike
  <2> QED BY <1>4, <2>2, <2>3 DEF Fire, Proceed
<1>5. CASE Mark(h)
  <2>1. at[h].step = "mark" /\ at[h].left \in SUBSET (SUBSET Lead)
    BY <1>5 DEF Mark, Working, LeadInv, Typed, AtTyped, At
  <2>2. CASE Return(h, "done") /\ UNCHANGED faults
    BY <1>0, <1>1, <2>1, <2>2, ReturnMoves, ReturnPlace, CalmSteps DEF LeadInv, Typed
  <2>3. CASE \E b \in at[h].left :
               Becomes(h, Announcing, {}, {}, at[h].left \ {b}) /\ UNCHANGED faults
    <3>1. Moved(h, {})
      BY <2>1, <2>3, BecomesMoves DEF LeadInv, Typed, Announcing, Steps, Calls, SyncSteps
    <3>2. at'[h].step = "fire"
      BY <2>3, BecomesPlace DEF LeadInv, Typed, Announcing
    <3> QED BY <1>0, <1>1, <2>1, <2>3, <3>1, <3>2
  <2>4. CASE Errs(h)
    BY <1>0, <2>4, ErrsPays, RowsAlike
  <2> QED BY <1>5, <2>2, <2>3, <2>4 DEF Mark
<1>6. CASE Capture(h)
  <2>1. at[h].step = "capture"
    BY <1>6 DEF Capture, Working
  <2>2. CASE Goto(h, "record") /\ UNCHANGED faults
    BY <1>0, <1>1, <2>1, <2>2, GotoMoves, GotoPlace
    DEF LeadInv, Typed, Steps, Calls, CrmSteps
  <2>3. CASE Note(h)
    BY <1>0, <2>3, NoteMoves, MovedAtAll, FaultCounts, KindsOf, RowsAlike DEF Note, LeadInv, Typed
  <2> QED BY <1>6, <2>2, <2>3 DEF Capture
<1>7. CASE Record(h)
  <2>1. at[h].step = "record" /\ Return(h, "done") /\ UNCHANGED faults
    BY <1>7 DEF Record, Working
  <2> QED BY <1>0, <1>1, <2>1, ReturnMoves, ReturnPlace, CalmSteps DEF LeadInv, Typed
<1>8. CASE \E l \in Lead : Load(h, l)
  <2>1. PICK l \in Lead : Load(h, l)
    BY <1>8
  <2>2. PICK s \in {"done", "capture"} : Starts(h, l, s, {})
    BY <2>1 DEF Load
  <2>3. Moved(h, {})
    BY <2>2, StartsMoves, SyncIsJob DEF LeadInv, Typed, Steps, Calls, CrmSteps
  <2>4. at[h].step = "idle" /\ at'[h].step = s /\ UNCHANGED faults
    BY <2>1, <2>2, StartsPlace DEF Load, LeadInv, Typed
  <2>5. at[h].step \notin LeadSteps /\ at'[h].step \notin LeadSteps
    BY <1>0, <2>4
  <2> QED BY <1>1, <2>3, <2>4, <2>5
<1> QED BY <1>2, <1>3, <1>4, <1>5, <1>6, <1>7, <1>8

LEMMA FirstIsAtLead ==
  ASSUME LeadInv, NEW h \in Handler, NEW l \in Lead, First(h, l)
  PROVE  \A k \in Lead : AtLead(at[h], k) <=> k = l
BY OneFirst DEF AtLead, First

\* A sync that begins alone takes up the row that is still to come
LEMMA RowsFetch ==
  ASSUME LeadInv, RowsInv, NEW h \in Handler, NEW j \in Job \cup {Page}, Fetch(h, j)
  PROVE  RowsInv'
<1>0. Window \in SUBSET Lead
  BY DEF Window
<1>1. PICK s \in {"pending", "look"} : Starts(h, j, s, Window)
  BY DEF Fetch
<1>2. Moved(h, {}) /\ UNCHANGED <<rows, linked>>
  <2>1. s \in Steps /\ s \notin {}
    BY CalmSteps
  <2>2. Moved(h, {})
    BY <1>0, <1>1, <2>1, StartsMoves DEF LeadInv, Typed
  <2> QED BY <1>1, <2>2 DEF Starts, meta
<1>3. CASE Syncing
  BY <1>2, <1>3, FaultCounts, KindsOf, RowsAlike DEF Fetch, LeadInv, Typed
<1>4. CASE ~Syncing
  <2> SUFFICES ASSUME NEW l \in Lead PROVE RowsOf(l)'
    BY DEF RowsInv
  <2>1. UNCHANGED faults /\ RowsOf(l)
    BY <1>4 DEF Fetch, RowsInv
  <2>2. /\ at[h].step = "idle"
        /\ at'[h].step = s /\ at'[h].todo = Window
    BY <1>1, StartsPlace DEF LeadInv, Typed
  <2>3. CASE l \in linked \/ l \notin Window
    <3>1. SameAt(h, l)
      BY <2>2, <2>3 DEF SameAt, InsertsIt, LinksIt, MayInsert, AtLead
    <3> QED BY <1>2, <2>1, <3>1, RowsStay
  <2>4. CASE l \notin linked /\ l \in Window
    <3>1. Inserters(l) = {} /\ Linking(l) = {}
      BY <1>4 DEF Syncing, SyncSteps, Inserters, Linking, MayInsert, LinksIt
    <3>2. ToCome(l) = 1 /\ Cardinality(Inserters(l)) = 0 /\ IsFiniteSet(Inserters(l))
      BY <3>1, FS_EmptySet DEF ToCome
    <3>3. rows[l] + 1 <= Causes + 1
      BY <2>1, <2>4, <3>2 DEF RowsOf, LeadInv, Typed, MetaTyped
    <3>4. PICK r \in At : at' = [at EXCEPT ![h] = r]
      BY <1>2 DEF Moved
    <3>5. \/ Inserters(l)' = Inserters(l) \cup {h}
          \/ Inserters(l)' = Inserters(l) \ {h}
      BY <3>4, MoveAtLead DEF LeadInv, Typed
    <3>6. s = "look"
      BY <1>0, <1>1, <2>2, <2>4 DEF Fetch, Starts, LeadInv, Typed, AtTyped
    <3>7. Inserters(l)' = {h}
      <4>1. h \in Inserters(l)'
        BY <2>2, <2>4, <3>6 DEF Inserters, MayInsert
      <4> QED BY <3>1, <3>5, <4>1
    <3>8. ToCome(l)' = 0 /\ IsFiniteSet(Inserters(l)') /\ Cardinality(Inserters(l)') = 1
      <4>1. IsFiniteSet({h}) /\ Cardinality({h}) = 1
        BY FS_Singleton
      <4> QED BY <3>7, <4>1 DEF ToCome
    <3>9. Causes' = Causes /\ Causes \in Nat /\ rows[l] \in Nat
      BY <2>1, CausesTyped DEF Causes, LeadInv, Typed, MetaTyped
    <3> QED BY <1>2, <2>4, <3>3, <3>8, <3>9 DEF RowsOf
  <2> QED BY <2>3, <2>4
<1> QED BY <1>3, <1>4

LEMMA RowsLook ==
  ASSUME LeadInv, RowsInv, NEW h \in Handler, Look(h)
  PROVE  RowsInv'
<1>1. PICK l \in Lead : First(h, l) /\ IF New(l) THEN Goto(h, "insert") ELSE NextLead(h, l)
  BY DEF Look
<1>2. at[h].step = "look" /\ UNCHANGED <<rows, linked, faults>>
  BY DEF Look, Working, meta
<1>3. \A k \in Lead : AtLead(at[h], k) <=> k = l
  BY <1>1, FirstIsAtLead
<1>4. Moved(h, {})
  BY <1>1, GotoMoves, NextLeadMoves, CalmSteps DEF LeadInv, Typed
<1>5. CASE New(l)
  <2>1. at'[h].step = "insert" /\ at'[h].todo = at[h].todo
    BY <1>1, <1>5, GotoPlace DEF LeadInv, Typed
  <2>2. \A k \in Lead : SameAt(h, k)
    BY <1>2, <1>3, <1>5, <2>1 DEF New, SameAt, InsertsIt, LinksIt, MayInsert, AtLead
  <2> QED BY <1>2, <1>4, <2>2, RowsAlike
<1>6. CASE ~New(l)
  <2>1. /\ at'[h].step = IF at[h].todo = {l} THEN "pending" ELSE "look"
        /\ at'[h].todo = at[h].todo \ {l}
    BY <1>1, <1>6, NextLeadPlace DEF LeadInv, Typed
  <2>2. \A k \in Lead : SameAt(h, k)
    BY <1>2, <1>6, <2>1 DEF New, SameAt, InsertsIt, LinksIt, MayInsert
  <2> QED BY <1>2, <1>4, <2>2, RowsAlike
<1> QED BY <1>5, <1>6

LEMMA RowsRegister ==
  ASSUME LeadInv, RowsInv, NEW h \in Handler, Register(h) \/ EnqueueCrm(h)
  PROVE  RowsInv'
<1>1. UNCHANGED <<rows, linked>> /\ at[h].step \in {"register", "enqueue"}
  BY DEF Register, EnqueueCrm, Working, meta
<1>2. CASE Errs(h)
  BY <1>1, <1>2, ErrsPays, RowsAlike
<1>3. CASE Goto(h, "enqueue") /\ UNCHANGED faults
  <2>1. at'[h].step = "enqueue" /\ at'[h].todo = at[h].todo
    BY <1>3, GotoPlace DEF LeadInv, Typed
  <2>2. \A k \in Lead : SameAt(h, k)
    BY <1>1, <2>1 DEF SameAt, InsertsIt, LinksIt, MayInsert, AtLead
  <2> QED BY <1>1, <1>3, <2>2, GotoMoves, CalmSteps, RowsAlike DEF LeadInv, Typed
<1>4. CASE \E l \in Lead : First(h, l) /\ NextLead(h, l) /\ UNCHANGED faults
  <2>1. PICK l \in Lead : First(h, l) /\ NextLead(h, l)
    BY <1>4
  <2>2. /\ at'[h].step = IF at[h].todo = {l} THEN "pending" ELSE "look"
        /\ at'[h].todo = at[h].todo \ {l}
    BY <2>1, NextLeadPlace DEF LeadInv, Typed
  <2>3. \A k \in Lead : AtLead(at[h], k) <=> k = l
    BY <2>1, FirstIsAtLead
  <2>4. \A k \in Lead : SameAt(h, k)
    BY <1>1, <2>2, <2>3 DEF SameAt, InsertsIt, LinksIt, MayInsert
  <2> QED BY <1>1, <1>4, <2>1, <2>4, NextLeadMoves, RowsAlike DEF LeadInv, Typed
<1> QED BY <1>2, <1>3, <1>4 DEF Register, EnqueueCrm, Proceed

\* The insert is the row that the handler might add
LEMMA RowsInsert ==
  ASSUME LeadInv, RowsInv, NEW h \in Handler, Insert(h)
  PROVE  RowsInv'
<1>1. PICK l \in Lead : First(h, l) /\ rows' = [rows EXCEPT ![l] = rows[l] + 1]
  BY DEF Insert
<1>2. at[h].step = "insert" /\ linked' = linked
  BY DEF Insert, Working
<1>3. \A k \in Lead : AtLead(at[h], k) <=> k = l
  BY <1>1, FirstIsAtLead
<1>4. \/ Goto(h, "link") /\ UNCHANGED faults /\ Causes' = Causes
      \/ Return(h, "throw") /\ Errs(h) /\ Causes' = Causes + 1
  BY <1>2, ErrsPays DEF Insert, Proceed, Errs, Working, Causes
<1>5. /\ Moved(h, {}) /\ at'[h].step \in {"link", "throw", "idle"}
      /\ at'[h].step = "link" => at'[h].todo = at[h].todo
      /\ Goto(h, "link") => at'[h].step = "link"
  BY <1>4, GotoMoves, GotoPlace, ReturnMoves, ReturnPlace, CalmSteps DEF LeadInv, Typed
<1> SUFFICES ASSUME NEW k \in Lead PROVE RowsOf(k)'
  BY DEF RowsInv
<1>6. RowsOf(k)
  BY DEF RowsInv
<1>7. CASE k # l
  <2>1. rows'[k] = rows[k]
    BY <1>1, <1>7 DEF LeadInv, Typed, MetaTyped
  <2>2. CASE Goto(h, "link") /\ UNCHANGED faults
    <3>1. SameAt(h, k)
      BY <1>2, <1>3, <1>5, <1>7, <2>2 DEF SameAt, InsertsIt, LinksIt, MayInsert, AtLead
    <3> QED BY <1>2, <1>5, <1>6, <2>1, <2>2, <3>1, RowsStay
  <2>3. CASE Causes' = Causes + 1
    BY <1>2, <1>5, <1>6, <2>1, <2>3, RowsPaid
  <2> QED BY <1>4, <2>2, <2>3
<1>8. CASE k = l
  <2>1. rows'[k] = rows[k] + 1 /\ rows[k] \in Nat /\ Causes \in Nat
    BY <1>1, <1>8, CausesTyped DEF LeadInv, Typed, MetaTyped
  <2>2. PICK r \in At : at' = [at EXCEPT ![h] = r]
    BY <1>5 DEF Moved
  <2>3. at'[h] = r
    BY <2>2 DEF LeadInv, Typed, AtTyped
  <2>4. AtLead(at[h], k) /\ h \in Inserters(k) /\ h \in Inserting(k)
    BY <1>2, <1>3, <1>8 DEF Inserters, Inserting, MayInsert, InsertsIt, AtLead
  <2>5. ~MayInsert(r, k) /\ ~InsertsIt(r, k)
    BY <1>5, <2>3, <2>4 DEF MayInsert, InsertsIt, AtLead
  <2>6. Inserters(k)' = Inserters(k) \ {h} /\ Inserting(k)' = Inserting(k) \ {h}
    BY <2>2, <2>5, MoveAtLead DEF LeadInv, Typed
  <2>7. IsFiniteSet(Inserters(k)) /\ IsFiniteSet(Inserting(k))
    BY <1>6, InsertingCounts DEF RowsOf
  <2>8. /\ IsFiniteSet(Inserters(k)') /\ Cardinality(Inserters(k)') \in Nat
        /\ Cardinality(Inserters(k)') = Cardinality(Inserters(k)) - 1
        /\ Cardinality(Inserting(k)') = Cardinality(Inserting(k)) - 1
        /\ Cardinality(Inserting(k)) \in Nat /\ Cardinality(Inserters(k)) \in Nat
    BY <2>4, <2>6, <2>7, OneLess
  <2>9. CASE k \in linked
    BY <1>2, <1>4, <1>6, <2>1, <2>8, <2>9 DEF RowsOf
  <2>10. CASE k \notin linked
    <3>1. ToCome(k) = 0
      BY <2>4 DEF ToCome
    <3>2. ToCome(k)' \in {0, 1} /\ (Goto(h, "link") => ToCome(k)' = 0)
      <4>1. Goto(h, "link") => h \in Linking(k)'
        BY <1>5, <2>4 DEF Linking, LinksIt, AtLead
      <4> QED BY <4>1 DEF ToCome
    <3>3. rows[k] + Cardinality(Inserters(k)) + ToCome(k) <= Causes + 1
      BY <1>6, <2>10 DEF RowsOf
    <3>4. rows'[k] + Cardinality(Inserters(k)') + ToCome(k)' <= Causes' + 1
      BY <1>4, <2>1, <2>8, <3>1, <3>2, <3>3
    <3> QED BY <1>2, <2>8, <2>10, <3>4 DEF RowsOf
  <2> QED BY <2>9, <2>10
<1> QED BY <1>7, <1>8

LEMMA RowsLink ==
  ASSUME LeadInv, RowsInv, NEW h \in Handler, Link(h)
  PROVE  RowsInv'
<1>1. PICK l \in Lead :
        /\ First(h, l)
        /\ IF l \in linked THEN UNCHANGED <<linked, batch>>
           ELSE linked' = linked \cup {l} /\ batch' = [batch EXCEPT ![l] = at[h].all]
  BY DEF Link
<1>2. at[h].step = "link" /\ rows' = rows
  BY DEF Link, Working
<1>3. \A k \in Lead : AtLead(at[h], k) <=> k = l
  BY <1>1, FirstIsAtLead
<1>4. \/ Goto(h, "register") /\ UNCHANGED faults /\ Causes' = Causes
      \/ Return(h, "throw") /\ Causes' = Causes + 1
  BY FaultCounts, KindsOf DEF Link, Causes, LeadInv, Typed
<1>5. /\ Moved(h, {}) /\ at'[h].step \in {"register", "throw", "idle"}
      /\ Goto(h, "register") => at'[h].step = "register" /\ at'[h].todo = at[h].todo
  BY <1>4, GotoMoves, GotoPlace, ReturnMoves, ReturnPlace, CalmSteps DEF LeadInv, Typed
<1> SUFFICES ASSUME NEW k \in Lead PROVE RowsOf(k)'
  BY DEF RowsInv
<1>6. RowsOf(k)
  BY DEF RowsInv
<1>7. CASE k # l \/ k \in linked
  <2>1. k \in linked' <=> k \in linked
    BY <1>1, <1>7
  <2>2. CASE Goto(h, "register") /\ UNCHANGED faults
    <3>1. SameAt(h, k)
      BY <1>2, <1>3, <1>5, <1>7, <2>2 DEF SameAt, InsertsIt, LinksIt, MayInsert, AtLead
    <3> QED BY <1>2, <1>5, <1>6, <2>1, <2>2, <3>1, RowsStay
  <2>3. CASE Causes' = Causes + 1
    BY <1>2, <1>5, <1>6, <2>1, <2>3, RowsPaid
  <2> QED BY <1>4, <2>2, <2>3
<1>8. CASE k = l /\ k \notin linked
  <2>1. k \in linked'
    BY <1>1, <1>8
  <2>2. PICK r \in At : at' = [at EXCEPT ![h] = r]
    BY <1>5 DEF Moved
  <2>3. at'[h] = r
    BY <2>2 DEF LeadInv, Typed, AtTyped
  <2>4. Inserting(k)' = Inserting(k) \ {h}
    BY <1>5, <2>2, <2>3, MoveAtLead DEF LeadInv, Typed, InsertsIt
  <2>5. IsFiniteSet(Inserters(k)) /\ IsFiniteSet(Inserting(k))
    BY <1>6, InsertingCounts DEF RowsOf
  <2>6. /\ Cardinality(Inserting(k)') \in Nat
        /\ Cardinality(Inserting(k)') <= Cardinality(Inserting(k))
        /\ Cardinality(Inserting(k)) <= Cardinality(Inserters(k))
        /\ Cardinality(Inserting(k)) \in Nat /\ Cardinality(Inserters(k)) \in Nat
    BY <2>4, <2>5, InsertingCounts, OneLess
  <2>7. IsFiniteSet(Inserters(k)')
    <3>1. Inserters(k)' = IF MayInsert(r, k) THEN Inserters(k) \cup {h} ELSE Inserters(k) \ {h}
      BY <2>2, MoveAtLead DEF LeadInv, Typed
    <3>2. MayInsert(r, k) \in BOOLEAN
      BY DEF MayInsert
    <3> QED BY <2>5, <3>1, <3>2, OneMoves
  <2>8. rows[k] \in Nat /\ Causes \in Nat /\ ToCome(k) \in {0, 1}
    BY CausesTyped DEF LeadInv, Typed, MetaTyped, ToCome
  <2>9. rows[k] + Cardinality(Inserters(k)) + ToCome(k) <= Causes + 1
    BY <1>6, <1>8 DEF RowsOf
  <2>10. rows'[k] + Cardinality(Inserting(k)') <= Causes' + 1
    BY <1>2, <1>4, <2>6, <2>8, <2>9
  <2> QED BY <2>1, <2>7, <2>10 DEF RowsOf
<1> QED BY <1>7, <1>8

LEMMA RowsHold == LeadInv /\ RowsInv /\ [Next]_vars => RowsInv'
<1> SUFFICES ASSUME LeadInv, RowsInv, [Next]_vars PROVE RowsInv'
  OBVIOUS
<1>1. CASE (\E l \in Lead : Submit(l) \/ Age(l)) \/ Schedule \/ \E j \in Job : Reap(j)
  BY <1>1, RowsUnmoved
<1>2. ASSUME NEW j \in Job, NEW h \in Handler, Take(h, j) \/ Stumble(h, j) PROVE RowsInv'
  <2>1. CASE Take(h, j) /\ j = Sync
    BY <2>1, RowsFetch DEF Take, SyncJob
  <2>2. CASE Take(h, j) /\ j # Sync
    BY <2>2, RowsAway DEF Take, Job
  <2> QED BY <1>2, <2>1, <2>2, RowsFailures
<1>3. ASSUME NEW h \in Handler, Refresh(h) PROVE RowsInv'
  BY <1>3, RowsFetch DEF Refresh
<1>4. ASSUME NEW h \in Handler, Step(h) PROVE RowsInv'
  BY <1>4, RowsLook, RowsInsert, RowsLink, RowsRegister, RowsAway DEF Step
<1>5. ASSUME NEW h \in Handler, CallFails(h) \/ DeliveryFails(h) \/ Crash(h) PROVE RowsInv'
  BY <1>5, RowsFailures
<1>6. CASE UNCHANGED vars
  BY <1>6, RowsAlike DEF vars, meta, Causes
<1> QED BY <1>1, <1>2, <1>3, <1>4, <1>5, <1>6 DEF Next

LEMMA RowsBegin == Init => RowsInv
<1> SUFFICES ASSUME Init, NEW l \in Lead PROVE RowsOf(l)
  BY DEF RowsInv
<1>1. Inserters(l) = {} /\ Linking(l) = {}
  BY DEF Init, Idle, Inserters, Linking, MayInsert, LinksIt
<1>2. IsFiniteSet(Inserters(l)) /\ Cardinality(Inserters(l)) = 0 /\ ToCome(l) = 1
  BY <1>1, FS_EmptySet DEF ToCome
<1>3. l \notin linked /\ rows[l] = 0 /\ Causes = 0
  BY DEF Init, Causes, Kinds
<1> QED BY <1>2, <1>3 DEF RowsOf

(* A leads row beyond a lead's first has a cause of its own: a call that failed
   or lost its answer, noticed or not, a handler's end, or a sync begun beside
   another.  A lease that passes is none: the handler it was taken from and the
   next one are two syncs, one begun beside the other, or they store nothing
   twice. *)
THEOREM RowsExplainedAlways == Spec => []RowsExplained
<1>1. Spec => [](LeadInv /\ RowsInv)
  BY AlwaysLeadInv, RowsBegin, RowsHold, PTL DEF Spec
<1>2. LeadInv /\ RowsInv => RowsExplained
  <2> SUFFICES ASSUME LeadInv, RowsInv, NEW l \in Lead PROVE rows[l] <= 1 + Causes
    BY DEF RowsExplained
  <2>1. RowsOf(l) /\ rows[l] \in Nat /\ Causes \in Nat
    BY CausesTyped DEF RowsInv, LeadInv, Typed, MetaTyped
  <2>2. Cardinality(Inserting(l)) \in Nat /\ Cardinality(Inserters(l)) \in Nat
    BY <2>1, InsertingCounts DEF RowsOf
  <2>3. ToCome(l) \in {0, 1}
    BY DEF ToCome
  <2> QED BY <2>1, <2>2, <2>3 DEF RowsOf
<1> QED BY <1>1, <1>2, PTL

-----------------------------------------------------------------------------
(* One announcement per lead, while nothing has gone unnoticed.  A batch is   *)
(* fixed once each of its leads has its meta_leads row or has left the        *)
(* schedule's window for good: then no sync gives its key to another lead.    *)
(* One sync at a time goes through its leads in order, with all that is       *)
(* recent of every earlier batch among them, so that each batch is fixed by   *)
(* the time it goes through its pending rows.                                 *)

\* Syncs follow one another
Alone ==
  \A g, h \in Handler : at[g].step \in SyncSteps /\ at[h].step \in SyncSteps => g = h

\* What a batch or a sync has to do with was submitted
Known ==
  /\ \A k \in linked : \A m \in batch[k] : form[m] # "unsent"
  /\ \A h \in Handler : \A m \in at[h].all : form[m] # "unsent"

Within ==
  \A h \in Handler : /\ at[h].todo \subseteq at[h].all
                     /\ at[h].step \notin LeadSteps => at[h].todo = {}

\* A sync has linked what it has gone through, and the lead it is about to register
Past ==
  \A h \in Handler :
    /\ at[h].step \in LeadSteps => at[h].all \ at[h].todo \subseteq linked
    /\ at[h].step \in {"register", "enqueue"} => \A l \in Lead : First(h, l) => l \in linked

\* Every lead of a batch is linked, out of the window, or still before the sync
Met ==
  \A h \in Handler : at[h].step \in LeadSteps \cup {"pending"} =>
    \A k \in linked : \A m \in batch[k] : m \in linked \/ form[m] = "old" \/ m \in at[h].todo

Fixed(K) ==
  \A m \in K : \/ m \in linked
               \/ form[m] = "old" /\ \A h \in Handler : m \notin at[h].todo
Linked(K) == { l \in linked : batch[l] = K }

\* A batch as it is for good
Whole(b) == \E k \in b : Fixed(batch[k]) /\ b = Linked(batch[k])

ToldWhole == \A b \in announced : Whole(b)
ListedWhole == \A h \in Handler : at[h].step \in Announces => \A b \in at[h].left : Whole(b)
MarkedWhole ==
  \A k \in marked : k \in linked /\ Fixed(batch[k]) /\ Linked(batch[k]) \subseteq marked

OnceInv == Alone /\ Known /\ Within /\ Past /\ Met /\ ToldWhole /\ ListedWhole /\ MarkedWhole

-----------------------------------------------------------------------------
(* What a step may do to all of this *)

Leaves(h) ==
  at'[h].step \notin SyncSteps /\ at'[h].todo = {} /\ at'[h].all \subseteq at[h].all
Begins(h) ==
  /\ ~Syncing
  /\ at'[h].step = IF Window = {} THEN "pending" ELSE "look"
  /\ at'[h].todo = Window /\ at'[h].all = Window
Stays(h) ==
  /\ at[h].step \in LeadSteps /\ at'[h].step \in LeadSteps
  /\ at'[h].todo = at[h].todo /\ at'[h].all = at[h].all
  /\ at'[h].step \in {"register", "enqueue"} => \A l \in Lead : First(h, l) => l \in linked'
Passes(h) ==
  \E l \in linked :
    /\ at[h].step \in LeadSteps
    /\ at'[h].step = IF at[h].todo = {l} THEN "pending" ELSE "look"
    /\ at'[h].todo = at[h].todo \ {l} /\ at'[h].all = at[h].all
Tells(h) ==
  /\ at[h].step \in Announces \cup {"pending"} /\ at'[h].step \in Announces
  /\ at'[h].todo \subseteq at[h].todo /\ at'[h].all \subseteq at[h].all
  /\ \A b \in at'[h].left : \/ at[h].step \in Announces /\ b \in at[h].left
                            \/ at[h].step = "pending" /\ b \in Batches(h)
Turns(h) == Leaves(h) \/ Begins(h) \/ Stays(h) \/ Passes(h) \/ Tells(h)
OneTurns ==
  \/ UNCHANGED at
  \/ \E h \in Handler : Turns(h) /\ \A g \in Handler : g # h => at'[g] = at[g]

FormsAge ==
  \A l \in Lead : /\ form'[l] = "unsent" => form[l] = "unsent"
                  /\ form[l] = "old" => form'[l] = "old"
OneLinked ==
  \/ UNCHANGED <<linked, batch>>
  \/ \E h \in Handler : \E l \in Lead \ linked :
       /\ at[h].step = "link" /\ First(h, l)
       /\ linked' = linked \cup {l} /\ batch' = [batch EXCEPT ![l] = at[h].all]
OneTold ==
  \/ announced' = announced
  \/ \E h \in Handler : at[h].step = "fire" /\ \E b \in at[h].left : announced' = announced \cup {b}
OneMarked ==
  \/ marked' = marked
  \/ \E h \in Handler : at[h].step = "mark" /\ \E b \in at[h].left : marked' = marked \cup b

Orderly == OneTurns /\ FormsAge /\ OneLinked /\ OneTold /\ OneMarked

-----------------------------------------------------------------------------
(* An orderly step keeps the invariant *)

LEMMA SyncStepsOf == LeadSteps \cup Announces \cup {"pending"} = SyncSteps
BY DEF LeadSteps, Announces, SyncSteps

LEMMA EachTurns ==
  ASSUME OneTurns, NEW h \in Handler
  PROVE  at'[h] = at[h] \/ Turns(h)
BY DEF OneTurns

LEMMA AloneKept ==
  ASSUME Alone, OneTurns
  PROVE  Alone'
<1> SUFFICES ASSUME NEW g \in Handler, NEW h \in Handler, g # h,
                    at'[g].step \in SyncSteps, at'[h].step \in SyncSteps
             PROVE  FALSE
  BY DEF Alone
<1>1. CASE UNCHANGED at
  BY <1>1 DEF Alone
<1>2. ASSUME NEW k \in Handler, Turns(k), \A f \in Handler : f # k => at'[f] = at[f],
             NEW f \in Handler, f # k, at'[f].step \in SyncSteps, at'[k].step \in SyncSteps
      PROVE  FALSE
  <2>1. at[f].step \in SyncSteps
    BY <1>2
  <2>2. ~Begins(k) /\ ~Leaves(k)
    BY <1>2, <2>1 DEF Begins, Leaves, Syncing
  <2>3. at[k].step \in SyncSteps
    BY <1>2, <2>2, SyncStepsOf DEF Turns, Stays, Passes, Tells
  <2> QED BY <1>2, <2>1, <2>3 DEF Alone
<1>3. CASE \E k \in Handler : Turns(k) /\ \A f \in Handler : f # k => at'[f] = at[f]
  <2>1. PICK k \in Handler : Turns(k) /\ \A f \in Handler : f # k => at'[f] = at[f]
    BY <1>3
  <2>2. CASE k = g
    BY <1>2, <2>1, <2>2
  <2>3. CASE k = h
    BY <1>2, <2>1, <2>3
  <2>4. CASE k # g /\ k # h
    BY <2>1, <2>4 DEF Alone
  <2> QED BY <2>2, <2>3, <2>4
<1> QED BY <1>1, <1>3 DEF OneTurns

\* What a sync has to do with afterwards it had before, or is in the window
LEMMA AllShrinks ==
  ASSUME OneTurns, Within, NEW h \in Handler
  PROVE  /\ at'[h].all \subseteq at[h].all \/ at'[h].all = Window
         /\ at'[h].todo \subseteq at[h].todo \/ at'[h].todo = Window
<1>1. at'[h] = at[h] \/ Turns(h)
  BY EachTurns
<1> QED BY <1>1 DEF Turns, Leaves, Begins, Stays, Passes, Tells

LEMMA KnownKept ==
  ASSUME LeadInv, Known, Within, Orderly
  PROVE  Known'
<1>0. /\ \A h \in Handler : at[h].all \subseteq Lead
      /\ \A k \in linked : batch[k] \subseteq Lead /\ k \in Lead
      /\ batch \in [Lead -> SUBSET Lead]
  BY DEF LeadInv, Typed, MetaTyped, AtTyped, At
<1>1. \A m \in Lead : form[m] # "unsent" => form'[m] # "unsent"
  BY DEF Orderly, FormsAge
<1>2. ASSUME NEW k \in linked', NEW m \in batch'[k] PROVE form'[m] # "unsent"
  <2>1. CASE UNCHANGED <<linked, batch>>
    BY <1>0, <1>1, <1>2, <2>1 DEF Known
  <2>2. ASSUME NEW h \in Handler, NEW l \in Lead \ linked,
               linked' = linked \cup {l}, batch' = [batch EXCEPT ![l] = at[h].all]
        PROVE  form'[m] # "unsent"
    <3>1. CASE k = l
      BY <1>0, <1>1, <1>2, <2>2, <3>1 DEF Known
    <3>2. CASE k # l
      BY <1>0, <1>1, <1>2, <2>2, <3>2 DEF Known
    <3> QED BY <3>1, <3>2
  <2> QED BY <2>1, <2>2 DEF Orderly, OneLinked
<1>3. ASSUME NEW h \in Handler, NEW m \in at'[h].all PROVE form'[m] # "unsent"
  <2>1. m \in at[h].all \/ m \in Window
    BY <1>3, AllShrinks DEF Orderly
  <2> QED BY <1>0, <1>1, <2>1 DEF Known, Window
<1> QED BY <1>2, <1>3 DEF Known

LEMMA WithinKept ==
  ASSUME Within, OneTurns
  PROVE  Within'
<1> SUFFICES ASSUME NEW h \in Handler
             PROVE  /\ at'[h].todo \subseteq at'[h].all
                    /\ at'[h].step \notin LeadSteps => at'[h].todo = {}
  BY DEF Within
<1>1. /\ at[h].todo \subseteq at[h].all
      /\ at[h].step \notin LeadSteps => at[h].todo = {}
      /\ Announces \cap LeadSteps = {} /\ "pending" \notin LeadSteps /\ "look" \in LeadSteps
  BY DEF Within, Announces, LeadSteps
<1>2. CASE at'[h] = at[h]
  BY <1>1, <1>2
<1>3. CASE Leaves(h)
  BY <1>3 DEF Leaves
<1>4. CASE Begins(h)
  BY <1>1, <1>4 DEF Begins
<1>5. CASE Stays(h)
  BY <1>1, <1>5 DEF Stays
<1>6. CASE Passes(h)
  BY <1>1, <1>6 DEF Passes
<1>7. CASE Tells(h)
  BY <1>1, <1>7 DEF Tells, Announces, LeadSteps
<1> QED BY <1>2, <1>3, <1>4, <1>5, <1>6, <1>7, EachTurns DEF Turns

LEMMA LinkedGrows ==
  ASSUME LeadInv, OneLinked
  PROVE  linked \subseteq linked' /\ \A k \in linked : batch'[k] = batch[k]
BY DEF OneLinked, LeadInv, Typed, MetaTyped

LEMMA PastKept ==
  ASSUME LeadInv, Past, Within, Orderly
  PROVE  Past'
<1> SUFFICES ASSUME NEW h \in Handler
             PROVE  /\ at'[h].step \in LeadSteps => at'[h].all \ at'[h].todo \subseteq linked'
                    /\ at'[h].step \in {"register", "enqueue"}
                         => \A l \in Lead : First(h, l)' => l \in linked'
  BY DEF Past
<1>0. linked \subseteq linked'
  BY LinkedGrows DEF Orderly
<1>1. CASE at'[h] = at[h]
  BY <1>0, <1>1 DEF Past, First
<1>2. CASE Leaves(h)
  BY <1>2, SyncStepsOf DEF Leaves, LeadSteps
<1>3. CASE Begins(h)
  BY <1>3 DEF Begins
<1>4. CASE Stays(h)
  BY <1>0, <1>4 DEF Stays, Past, First
<1>5. CASE Passes(h)
  BY <1>0, <1>5 DEF Passes, Past
<1>6. CASE Tells(h)
  BY <1>6 DEF Tells, Announces, LeadSteps
<1> QED BY <1>1, <1>2, <1>3, <1>4, <1>5, <1>6, EachTurns DEF Turns, Orderly

LEMMA MetKept ==
  ASSUME LeadInv, Alone, Known, Within, Past, Met, Orderly
  PROVE  Met'
<1> SUFFICES ASSUME NEW h \in Handler, at'[h].step \in LeadSteps \cup {"pending"},
                    NEW k \in linked', NEW m \in batch'[k]
             PROVE  m \in linked' \/ form'[m] = "old" \/ m \in at'[h].todo
  BY DEF Met
<1>0. /\ linked \subseteq linked' /\ \A n \in linked : batch'[n] = batch[n]
      /\ \A l \in Lead : form[l] = "old" => form'[l] = "old"
      /\ linked \subseteq Lead /\ batch \in [Lead -> SUBSET Lead]
      /\ form \in [Lead -> {"unsent", "recent", "old"}]
  BY LinkedGrows DEF Orderly, FormsAge, LeadInv, Typed, MetaTyped
\* A sync that is under way is the one that has linked the row, if one was
<1>1. ASSUME at[h].step \in LeadSteps \cup {"pending"}
      PROVE  m \in linked' \/ form'[m] = "old" \/ m \in at[h].todo
  <2>1. CASE k \in linked
    BY <1>0, <1>1, <2>1 DEF Met
  <2>2. CASE k \notin linked
    <3>1. PICK g \in Handler : at[g].step = "link" /\ batch'[k] = at[g].all
      BY <1>0, <2>2 DEF Orderly, OneLinked
    <3>2. g = h
      BY <1>1, <3>1, SyncStepsOf DEF Alone, LeadSteps
    <3>3. at[h].all \ at[h].todo \subseteq linked
      BY <3>1, <3>2 DEF Past, LeadSteps
    <3> QED BY <1>0, <3>1, <3>2, <3>3
  <2> QED BY <2>1, <2>2
<1>2. CASE at'[h] = at[h]
  BY <1>1, <1>2
<1>3. CASE Leaves(h)
  BY <1>3, SyncStepsOf DEF Leaves
<1>4. CASE Begins(h)
  <2>1. k \in linked
    BY <1>4, SyncStepsOf DEF Begins, Syncing, Orderly, OneLinked, LeadSteps
  <2>2. m \in Lead /\ form[m] # "unsent"
    BY <1>0, <2>1 DEF Known
  <2>3. form[m] = "old" \/ m \in Window
    BY <1>0, <2>2 DEF Window
  <2> QED BY <1>0, <1>4, <2>2, <2>3 DEF Begins
<1>5. CASE Stays(h)
  BY <1>1, <1>5 DEF Stays
<1>6. CASE Passes(h)
  BY <1>0, <1>1, <1>6 DEF Passes
<1>7. CASE Tells(h)
  BY <1>7 DEF Tells, Announces, LeadSteps
<1> QED BY <1>2, <1>3, <1>4, <1>5, <1>6, <1>7, EachTurns DEF Turns, Orderly

LEMMA FixedKept ==
  ASSUME LeadInv, Within, Orderly, NEW K \in SUBSET Lead, Fixed(K)
  PROVE  Fixed(K)' /\ Linked(K)' = Linked(K)
<1>0. /\ linked \subseteq linked' /\ \A n \in linked : batch'[n] = batch[n]
      /\ \A l \in Lead : form[l] = "old" => form'[l] = "old"
  BY LinkedGrows DEF Orderly, FormsAge
<1>1. Fixed(K)'
  <2> SUFFICES ASSUME NEW m \in K, m \notin linked
               PROVE  form'[m] = "old" /\ \A h \in Handler : m \notin at'[h].todo
    BY <1>0 DEF Fixed
  <2>1. form[m] = "old" /\ \A h \in Handler : m \notin at[h].todo
    BY DEF Fixed
  <2>2. m \notin Window
    BY <2>1 DEF Window
  <2> QED BY <1>0, <2>1, <2>2, AllShrinks DEF Orderly
<1>2. Linked(K)' = Linked(K)
  <2>1. Linked(K) \subseteq Linked(K)'
    BY <1>0 DEF Linked
  <2>2. ASSUME NEW l \in linked', l \notin linked PROVE batch'[l] # K
    <3>1. PICK h \in Handler : First(h, l) /\ batch'[l] = at[h].all
      BY <2>2 DEF Orderly, OneLinked, LeadInv, Typed, MetaTyped
    <3>2. l \in at[h].todo /\ l \in at[h].all
      BY <3>1 DEF First, Within
    <3> QED BY <2>2, <3>1, <3>2 DEF Fixed
  <2> QED BY <1>0, <2>1, <2>2 DEF Linked
<1> QED BY <1>1, <1>2

LEMMA WholeKept ==
  ASSUME LeadInv, Within, Orderly, NEW b, Whole(b)
  PROVE  Whole(b)'
<1>1. PICK k \in b : Fixed(batch[k]) /\ b = Linked(batch[k])
  BY DEF Whole
<1>2. k \in linked /\ batch[k] \in SUBSET Lead
  BY <1>1 DEF Linked, LeadInv, Typed, MetaTyped
<1>3. batch'[k] = batch[k]
  BY <1>2, LinkedGrows DEF Orderly
<1>4. PICK K \in SUBSET Lead : K = batch[k]
  BY <1>2
<1>5. Fixed(K)
  BY <1>1, <1>4
<1>6. Fixed(K)' /\ Linked(K)' = Linked(K)
  BY <1>5, FixedKept
<1>7. Fixed(batch[k])' /\ Linked(batch[k])' = b
  BY <1>1, <1>3, <1>4, <1>6 DEF Fixed, Linked
<1> QED BY <1>7 DEF Whole

LEMMA BatchesWhole ==
  ASSUME Alone, Within, Met, MarkedWhole, NEW h \in Handler, at[h].step = "pending",
         NEW b \in Batches(h)
  PROVE  Whole(b)
<1>1. PICK k \in linked \ marked : b = { l \in linked \ marked : batch[l] = batch[k] }
  BY DEF Batches, Unmarked
<1>2. k \in b
  BY <1>1
<1>3. b = Linked(batch[k])
  <2>1. ASSUME NEW l \in linked, batch[l] = batch[k] PROVE l \notin marked
    BY <1>1, <2>1 DEF MarkedWhole, Linked
  <2> QED BY <1>1, <2>1 DEF Linked
<1>4. Fixed(batch[k])
  <2> SUFFICES ASSUME NEW m \in batch[k], m \notin linked
               PROVE  form[m] = "old" /\ \A g \in Handler : m \notin at[g].todo
    BY DEF Fixed
  <2>1. at[h].todo = {}
    BY DEF Within, LeadSteps
  <2>2. form[m] = "old"
    BY <1>1, <2>1 DEF Met
  <2>3. ASSUME NEW g \in Handler PROVE at[g].todo = {}
    <3>1. CASE g = h
      BY <2>1, <3>1
    <3>2. CASE g # h
      BY <3>2, SyncStepsOf DEF Alone, Within
    <3> QED BY <3>1, <3>2
  <2> QED BY <2>2, <2>3
<1> QED BY <1>2, <1>3, <1>4 DEF Whole

LEMMA ToldKept ==
  ASSUME LeadInv, OnceInv, Orderly
  PROVE  ToldWhole' /\ ListedWhole'
<1>1. ToldWhole'
  <2> SUFFICES ASSUME NEW b \in announced' PROVE Whole(b)'
    BY DEF ToldWhole
  <2>1. Whole(b)
    BY DEF Orderly, OneTold, OnceInv, ToldWhole, ListedWhole, Announces
  <2> QED BY <2>1, WholeKept DEF OnceInv
<1>2. ListedWhole'
  <2> SUFFICES ASSUME NEW h \in Handler, at'[h].step \in Announces, NEW b \in at'[h].left
               PROVE  Whole(b)'
    BY DEF ListedWhole
  <2>1. CASE at'[h] = at[h]
    BY <2>1, WholeKept DEF OnceInv, ListedWhole
  <2>2. CASE at'[h] # at[h]
    <3>1. Tells(h)
      BY <2>2, EachTurns, SyncStepsOf
      DEF Orderly, Turns, Leaves, Begins, Stays, Passes, Announces, LeadSteps
    <3>2. Whole(b)
      BY <3>1, BatchesWhole DEF Tells, OnceInv, ListedWhole
    <3> QED BY <3>2, WholeKept DEF OnceInv
  <2> QED BY <2>1, <2>2
<1> QED BY <1>1, <1>2

LEMMA OverKept ==
  ASSUME LeadInv, OnceInv, Orderly
  PROVE  MarkedWhole'
<1> SUFFICES ASSUME NEW k \in marked'
             PROVE  k \in linked' /\ Fixed(batch[k])' /\ (Linked(batch[k]) \subseteq marked)'
  BY DEF MarkedWhole
<1>1. k \in linked /\ Fixed(batch[k]) /\ Linked(batch[k]) \subseteq marked'
  <2>1. CASE k \in marked
    <3>1. marked \subseteq marked'
      BY DEF Orderly, OneMarked
    <3> QED BY <2>1, <3>1 DEF OnceInv, MarkedWhole
  <2>2. CASE k \notin marked
    <3>0. PICK h \in Handler :
            at[h].step = "mark" /\ \E b \in at[h].left : marked' = marked \cup b
      BY <2>2 DEF Orderly, OneMarked
    <3>1. PICK b \in at[h].left : at[h].step = "mark" /\ marked' = marked \cup b
      BY <3>0
    <3>2. PICK n \in b : Fixed(batch[n]) /\ b = Linked(batch[n])
      BY <3>1 DEF OnceInv, ListedWhole, Announces, Whole
    <3>3. k \in linked /\ batch[k] = batch[n]
      BY <2>2, <3>1, <3>2 DEF Linked
    <3> QED BY <3>1, <3>2, <3>3
  <2> QED BY <2>1, <2>2
<1>2. PICK K \in SUBSET Lead : K = batch[k]
  BY <1>1 DEF LeadInv, Typed, MetaTyped
<1>3. Fixed(K)' /\ Linked(K)' = Linked(K)
  BY <1>1, <1>2, FixedKept DEF OnceInv
<1>4. k \in linked' /\ batch'[k] = K
  BY <1>1, <1>2, LinkedGrows DEF Orderly
<1>5. Fixed(batch[k])' /\ Linked(batch[k])' = Linked(K)
  BY <1>3, <1>4 DEF Fixed, Linked
<1> QED BY <1>1, <1>2, <1>4, <1>5

LEMMA OnceKept ==
  ASSUME LeadInv, OnceInv, Orderly
  PROVE  OnceInv'
<1>1. Alone' /\ Known' /\ Within'
  BY AloneKept, KnownKept, WithinKept DEF OnceInv, Orderly
<1>2. Past' /\ Met'
  BY PastKept, MetKept DEF OnceInv
<1> QED BY <1>1, <1>2, ToldKept, OverKept DEF OnceInv

-----------------------------------------------------------------------------
(* Every step that leaves the syncs undisturbed is orderly *)

LEMMA FaultNoticed ==
  ASSUME LeadInv, NEW k \in Kinds, Fault(k), Undisturbed'
  PROVE  Undisturbed /\ k \notin {"unnoticed", "beside"}
<1>1. faults \in [Kinds -> 0 .. MaxFaults] /\ MaxFaults \in Nat
  BY LeadAssumption DEF LeadInv, Typed, FaultsTyped
<1>2. faults' = [faults EXCEPT ![k] = faults[k] + 1]
  BY DEF Fault
<1>3. faults["unnoticed"] \in Nat /\ faults["beside"] \in Nat
  BY <1>1 DEF Kinds
<1>4. CASE k \in {"unnoticed", "beside"}
  BY <1>1, <1>2, <1>3, <1>4 DEF Undisturbed
<1>5. CASE k \notin {"unnoticed", "beside"}
  BY <1>1, <1>2, <1>5 DEF Undisturbed, Kinds
<1> QED BY <1>4, <1>5

LEMMA NextFaults ==
  ASSUME [Next]_vars
  PROVE  UNCHANGED faults \/ \E k \in Kinds : Fault(k)
<1>1. ASSUME NEW h \in Handler, Errs(h) PROVE \E k \in Kinds : Fault(k)
  BY <1>1, KindsOf DEF Errs
<1>2. ASSUME NEW h \in Handler, NEW j, Fetch(h, j)
      PROVE  UNCHANGED faults \/ \E k \in Kinds : Fault(k)
  BY <1>2, KindsOf DEF Fetch
<1>3. ASSUME NEW h \in Handler, Step(h)
      PROVE  UNCHANGED faults \/ \E k \in Kinds : Fault(k)
  BY <1>1, <1>3, KindsOf
  DEF Step, Look, Insert, Link, Register, EnqueueCrm, Pending, Fire, Mark, Capture, Record,
      Settle, Proceed, Note
<1>4. ASSUME NEW h \in Handler, CallFails(h) \/ DeliveryFails(h) \/ Crash(h) \/ Refresh(h)
      PROVE  UNCHANGED faults \/ \E k \in Kinds : Fault(k)
  BY <1>1, <1>2, <1>4, KindsOf DEF CallFails, LinkIsLost, DeliveryFails, Note, Crash, Refresh
<1>5. ASSUME NEW h \in Handler, NEW j \in Job, Take(h, j) \/ Stumble(h, j)
      PROVE  UNCHANGED faults \/ \E k \in Kinds : Fault(k)
  BY <1>2, <1>5, KindsOf DEF Take, SyncJob, Load, Stumble
<1>6. CASE \/ \E l \in Lead : Submit(l) \/ Age(l)
           \/ Schedule
           \/ \E j \in Job : Reap(j)
           \/ UNCHANGED vars
  BY <1>6, KindsOf DEF Submit, Age, Schedule, Reap, vars
<1> QED BY <1>3, <1>4, <1>5, <1>6 DEF Next

\* A step that has to do with the handlers alone
LEMMA Plain ==
  ASSUME OneTurns, UNCHANGED <<meta, mail>>
  PROVE  Orderly
BY DEF Orderly, FormsAge, OneLinked, OneTold, OneMarked, meta, mail

LEMMA QuitTurns ==
  ASSUME LeadInv, NEW h \in Handler, Quit(h)
  PROVE  OneTurns
<1>1. Leaves(h)
  BY QuitPlace DEF Leaves, Idle, SyncSteps, LeadInv, Typed
<1> QED BY <1>1, QuitPlace DEF OneTurns, Turns, LeadInv, Typed

LEMMA ReturnTurns ==
  ASSUME LeadInv, NEW h \in Handler, NEW s \in {"done", "throw"}, Return(h, s)
  PROVE  OneTurns
<1>1. Leaves(h)
  BY ReturnPlace DEF Leaves, SyncSteps, LeadInv, Typed
<1> QED BY <1>1, ReturnPlace DEF OneTurns, Turns, LeadInv, Typed

LEMMA NextLeadTurns ==
  ASSUME LeadInv, NEW h \in Handler, NEW l \in linked, at[h].step \in LeadSteps, NextLead(h, l)
  PROVE  OneTurns
<1>1. Passes(h)
  BY NextLeadPlace DEF Passes, LeadInv, Typed
<1> QED BY <1>1, NextLeadPlace DEF OneTurns, Turns, LeadInv, Typed

LEMMA GotoTurns ==
  ASSUME LeadInv, NEW h \in Handler, NEW s \in LeadSteps, at[h].step \in LeadSteps, Goto(h, s),
         s \in {"register", "enqueue"} => \A l \in Lead : First(h, l) => l \in linked'
  PROVE  OneTurns
<1>1. Stays(h)
  BY GotoPlace DEF Stays, LeadInv, Typed
<1> QED BY <1>1, GotoPlace DEF OneTurns, Turns, LeadInv, Typed

LEMMA ErrsTurns ==
  ASSUME LeadInv, OnceInv, NEW h \in Handler, Errs(h)
  PROVE  OneTurns
<1>1. CASE Return(h, "throw")
  BY <1>1, ReturnTurns
<1>2. CASE Working(h, "look") /\ Goto(h, "insert")
  BY <1>2, GotoTurns DEF Working, LeadSteps
<1>3. CASE at[h].step \in {"register", "enqueue"} /\ \E l \in Lead : First(h, l) /\ NextLead(h, l)
  BY <1>3, NextLeadTurns DEF OnceInv, Past, LeadSteps
<1> QED BY <1>1, <1>2, <1>3 DEF Errs

LEMMA FetchOrderly ==
  ASSUME LeadInv, NEW h \in Handler, NEW j, Fetch(h, j), Undisturbed'
  PROVE  Orderly
<1>1. ~Syncing
  BY FaultNoticed, KindsOf DEF Fetch
<1>2. Begins(h)
  BY <1>1, StartsPlace DEF Fetch, Begins, LeadInv, Typed
<1>3. OneTurns
  BY <1>2, StartsPlace DEF Fetch, OneTurns, Turns, LeadInv, Typed
<1> QED BY <1>3, Plain DEF Fetch, Starts

LEMMA FailureOrderly ==
  ASSUME LeadInv, OnceInv, NEW h \in Handler, Undisturbed',
         CallFails(h) \/ DeliveryFails(h) \/ Crash(h) \/ \E j \in Job : Stumble(h, j)
  PROVE  Orderly
<1>1. UNCHANGED <<meta, mail>>
  BY DEF CallFails, DeliveryFails, Crash, Stumble, Starts
<1>2. CASE CallFails(h)
  <2>1. CASE LinkIsLost(h)
    BY <2>1, FaultNoticed, KindsOf DEF LinkIsLost
  <2>2. CASE Errs(h)
    BY <1>1, <2>2, ErrsTurns, Plain
  <2> QED BY <1>2, <2>1, <2>2 DEF CallFails
<1>3. CASE DeliveryFails(h)
  BY <1>1, <1>3, ReturnTurns, Plain DEF DeliveryFails, Note, AfterNote
<1>4. CASE Crash(h)
  BY <1>1, <1>4, QuitTurns, Plain DEF Crash
<1>5. CASE \E j \in Job : Stumble(h, j)
  <2>1. PICK j \in Job : Starts(h, j, "throw", {})
    BY <1>5 DEF Stumble
  <2>2. Leaves(h) /\ \A g \in Handler : g # h => at'[g] = at[g]
    BY <2>1, StartsPlace DEF Leaves, SyncSteps, LeadInv, Typed
  <2>3. OneTurns
    BY <2>2 DEF OneTurns, Turns
  <2> QED BY <1>1, <2>3, Plain
<1> QED BY <1>2, <1>3, <1>4, <1>5

LEMMA UnmovedOrderly ==
  ASSUME LeadInv,
         \/ \E l \in Lead : Submit(l) \/ Age(l)
         \/ Schedule
         \/ \E j \in Job : Reap(j)
         \/ UNCHANGED vars
  PROVE  Orderly
<1>1. CASE \E l \in Lead : Submit(l) \/ Age(l)
  <2>1. PICK l \in Lead : Submit(l) \/ Age(l)
    BY <1>1
  <2>2. UNCHANGED <<rows, linked, batch, marked, announced, at>>
    BY <2>1 DEF Submit, Age, mail
  <2>3. FormsAge
    BY <2>1 DEF Submit, Age, FormsAge, LeadInv, Typed, MetaTyped
  <2> QED BY <2>2, <2>3 DEF Orderly, OneTurns, OneLinked, OneTold, OneMarked
<1>2. CASE ~ \E l \in Lead : Submit(l) \/ Age(l)
  <2>1. UNCHANGED <<meta, mail, at>>
    BY <1>2 DEF Schedule, Reap, vars
  <2>2. OneTurns
    BY <2>1 DEF OneTurns
  <2> QED BY <2>1, <2>2, Plain
<1> QED BY <1>1, <1>2

LEMMA LeadOrderly ==
  ASSUME LeadInv, OnceInv, NEW h \in Handler,
         Look(h) \/ Insert(h) \/ Register(h) \/ EnqueueCrm(h)
  PROVE  Orderly
<1>0. at[h].step \in LeadSteps /\ UNCHANGED <<form, linked, batch, mail>>
  BY DEF Look, Insert, Register, EnqueueCrm, Working, LeadSteps, meta
<1>1. CASE Errs(h)
  <2>1. OneTurns
    BY <1>1, ErrsTurns
  <2> QED BY <1>0, <2>1 DEF Orderly, FormsAge, OneLinked, OneTold, OneMarked, mail
<1>2. CASE ~Errs(h)
  <2>1. OneTurns
    <3>1. CASE Look(h)
      BY <1>0, <3>1, GotoTurns, NextLeadTurns DEF Look, New, LeadSteps
    <3>2. CASE Insert(h)
      BY <1>0, <1>2, <3>2, GotoTurns DEF Insert, Proceed, LeadSteps
    <3>3. CASE Register(h)
      BY <1>0, <1>2, <3>3, GotoTurns DEF Register, Proceed, LeadSteps, OnceInv, Past, Working
    <3>4. CASE EnqueueCrm(h)
      BY <1>0, <1>2, <3>4, NextLeadTurns DEF EnqueueCrm, OnceInv, Past, Working
    <3> QED BY <3>1, <3>2, <3>3, <3>4
  <2> QED BY <1>0, <2>1 DEF Orderly, FormsAge, OneLinked, OneTold, OneMarked, mail
<1> QED BY <1>1, <1>2

LEMMA LinkOrderly ==
  ASSUME LeadInv, NEW h \in Handler, Link(h)
  PROVE  Orderly
<1>1. PICK l \in Lead :
        /\ First(h, l)
        /\ IF l \in linked THEN UNCHANGED <<linked, batch>>
           ELSE linked' = linked \cup {l} /\ batch' = [batch EXCEPT ![l] = at[h].all]
  BY DEF Link
<1>2. at[h].step = "link" /\ UNCHANGED <<form, marked, announced>>
  BY DEF Link, Working, mail
<1>3. OneLinked
  BY <1>1, <1>2 DEF OneLinked
<1>4. OneTurns
  <2>1. CASE Goto(h, "register")
    <3>1. \A k \in Lead : First(h, k) => k \in linked'
      BY <1>1, OneFirst
    <3> QED BY <1>2, <2>1, <3>1, GotoTurns DEF LeadSteps
  <2>2. CASE Return(h, "throw")
    BY <2>2, ReturnTurns
  <2> QED BY <2>1, <2>2 DEF Link
<1> QED BY <1>2, <1>3, <1>4 DEF Orderly, FormsAge, OneTold, OneMarked

LEMMA MailOrderly ==
  ASSUME LeadInv, OnceInv, NEW h \in Handler, Pending(h) \/ Fire(h) \/ Mark(h)
  PROVE  Orderly
<1>1. UNCHANGED <<form, linked, batch>>
  BY DEF Pending, Fire, Mark, meta
<1>2. OneTold
  BY DEF Pending, Fire, Mark, OneTold, Working, mail
<1>3. OneMarked
  BY DEF Pending, Fire, Mark, OneMarked, Working, mail
<1>4. OneTurns
  <2>1. CASE Errs(h)
    BY <2>1, ErrsTurns
  <2>2. CASE Return(h, "done")
    BY <2>2, ReturnTurns
  <2>3. CASE Pending(h) /\ Becomes(h, Announcing, {}, {}, Batches(h))
    <3>1. Tells(h)
      BY <2>3, BecomesPlace DEF Pending, Working, Tells, Announcing, Announces, LeadInv, Typed
    <3> QED BY <2>3, <3>1, BecomesPlace DEF OneTurns, Turns, LeadInv, Typed
  <2>4. CASE Fire(h) /\ Goto(h, "mark")
    <3>1. Tells(h)
      BY <2>4, GotoPlace DEF Fire, Working, Tells, Announces, LeadInv, Typed
    <3> QED BY <2>4, <3>1, GotoPlace DEF OneTurns, Turns, LeadInv, Typed
  <2>5. CASE /\ Mark(h)
             /\ \E b \in at[h].left : Becomes(h, Announcing, {}, {}, at[h].left \ {b})
    <3>1. PICK b \in at[h].left : Becomes(h, Announcing, {}, {}, at[h].left \ {b})
      BY <2>5
    <3>2. Tells(h)
      BY <2>5, <3>1, BecomesPlace DEF Mark, Working, Tells, Announcing, Announces, LeadInv, Typed
    <3> QED BY <2>5, <3>1, <3>2, BecomesPlace DEF OneTurns, Turns, LeadInv, Typed
  <2>6. CASE Pending(h)
    BY <2>2, <2>3, <2>6 DEF Pending
  <2>7. CASE Fire(h)
    BY <2>1, <2>4, <2>7 DEF Fire, Proceed
  <2>8. CASE Mark(h)
    BY <2>1, <2>2, <2>5, <2>8 DEF Mark
  <2> QED BY <2>6, <2>7, <2>8
<1> QED BY <1>1, <1>2, <1>3, <1>4 DEF Orderly, FormsAge, OneLinked

LEMMA CrmOrderly ==
  ASSUME LeadInv, OnceInv, NEW h \in Handler,
         \/ Capture(h) \/ Record(h) \/ Settle(h)
         \/ \E l \in Lead : Load(h, l)
  PROVE  Orderly
<1>1. UNCHANGED <<meta, mail>>
  BY DEF Capture, Record, Settle, Load, Starts
<1>2. CASE Capture(h) /\ Note(h)
  BY <1>1, <1>2, ReturnTurns, Plain DEF Note, AfterNote
<1>3. CASE Capture(h) /\ Goto(h, "record")
  <2>1. at[h].todo = {}
    BY <1>3 DEF Capture, Working, OnceInv, Within, LeadSteps
  <2>2. Leaves(h) /\ \A g \in Handler : g # h => at'[g] = at[g]
    BY <1>3, <2>1, GotoPlace DEF Leaves, SyncSteps, LeadInv, Typed
  <2>3. OneTurns
    BY <2>2 DEF OneTurns, Turns
  <2> QED BY <1>1, <1>3, <2>3, Plain
<1>4. CASE Record(h)
  BY <1>1, <1>4, ReturnTurns, Plain DEF Record
<1>5. CASE Settle(h)
  BY <1>1, <1>5, QuitTurns, Plain DEF Settle
<1>6. CASE \E l \in Lead : Load(h, l)
  <2>1. PICK l \in Lead, s \in {"done", "capture"} : Starts(h, l, s, {})
    BY <1>6 DEF Load
  <2>2. Leaves(h) /\ \A g \in Handler : g # h => at'[g] = at[g]
    BY <2>1, StartsPlace DEF Leaves, SyncSteps, LeadInv, Typed
  <2>3. OneTurns
    BY <2>2 DEF OneTurns, Turns
  <2> QED BY <1>1, <2>1, <2>3, Plain
<1> QED BY <1>2, <1>3, <1>4, <1>5, <1>6 DEF Capture

OnceAsLong == Undisturbed => OnceInv

LEMMA OnceBegins == Init => OnceAsLong
<1> SUFFICES ASSUME Init PROVE OnceInv
  BY DEF OnceAsLong
<1>1. \A h \in Handler : at[h] = Idle
  BY DEF Init
<1>2. linked = {} /\ announced = {} /\ marked = {}
  BY DEF Init
<1>3. Alone /\ Known /\ Within /\ Past /\ Met
  BY <1>1, <1>2 DEF Alone, Known, Within, Past, Met, Idle, SyncSteps, LeadSteps
<1>4. ToldWhole /\ ListedWhole /\ MarkedWhole
  BY <1>1, <1>2 DEF ToldWhole, ListedWhole, MarkedWhole, Idle, Announces
<1> QED BY <1>3, <1>4 DEF OnceInv

LEMMA OnceHolds == LeadInv /\ OnceAsLong /\ [Next]_vars => OnceAsLong'
<1> SUFFICES ASSUME LeadInv, OnceAsLong, [Next]_vars, Undisturbed' PROVE OnceInv'
  BY DEF OnceAsLong
<1>1. Undisturbed
  BY NextFaults, FaultNoticed DEF Undisturbed
<1>2. OnceInv
  BY <1>1 DEF OnceAsLong
<1>3. Orderly
  <2>1. CASE \/ \E l \in Lead : Submit(l) \/ Age(l)
             \/ Schedule
             \/ \E j \in Job : Reap(j)
             \/ UNCHANGED vars
    BY <2>1, UnmovedOrderly
  <2>2. ASSUME NEW j \in Job, NEW h \in Handler, Take(h, j) \/ Stumble(h, j) PROVE Orderly
    <3>1. CASE Take(h, j) /\ j = Sync
      BY <3>1, FetchOrderly DEF Take, SyncJob
    <3>2. CASE Take(h, j) /\ j # Sync
      BY <1>2, <3>2, CrmOrderly DEF Take, Job
    <3> QED BY <1>2, <2>2, <3>1, <3>2, FailureOrderly
  <2>3. ASSUME NEW h \in Handler, Refresh(h) PROVE Orderly
    BY <2>3, FetchOrderly DEF Refresh
  <2>4. ASSUME NEW h \in Handler, Step(h) PROVE Orderly
    BY <1>2, <2>4, LeadOrderly, LinkOrderly, MailOrderly, CrmOrderly DEF Step
  <2>5. ASSUME NEW h \in Handler, CallFails(h) \/ DeliveryFails(h) \/ Crash(h) PROVE Orderly
    BY <1>2, <2>5, FailureOrderly
  <2> QED BY <2>1, <2>2, <2>3, <2>4, <2>5 DEF Next
<1> QED BY <1>2, <1>3, OnceKept

(* No lead is in two announcements: as long as no meta_leads insert has failed
   unnoticed and no sync has begun beside another, the batches that
   queuePendingNewLeadsEvent announces are fixed when it lists them. *)
THEOREM AnnouncedOnceAlways == Spec => []AnnouncedOnce
<1>1. Spec => [](LeadInv /\ OnceAsLong)
  BY AlwaysLeadInv, OnceBegins, OnceHolds, PTL DEF Spec
<1>2. OnceAsLong => AnnouncedOnce
  <2> SUFFICES ASSUME OnceInv, NEW a \in announced, NEW b \in announced, NEW l \in a \cap b
               PROVE  a = b
    BY DEF OnceAsLong, AnnouncedOnce
  <2>1. PICK k \in a : a = Linked(batch[k])
    BY DEF OnceInv, ToldWhole, Whole
  <2>2. PICK n \in b : b = Linked(batch[n])
    BY DEF OnceInv, ToldWhole, Whole
  <2>3. batch[l] = batch[k] /\ batch[l] = batch[n]
    BY <2>1, <2>2 DEF Linked
  <2> QED BY <2>1, <2>2, <2>3
<1> QED BY <1>1, <1>2, PTL

-----------------------------------------------------------------------------
(* Deliveries.  As long as no handler outlives its lease, one that is at     *)
(* work owns its job, so nobody else writes its lead's delivery: a job ends  *)
(* done only when its lead was delivered, and a delivery that failed has a   *)
(* job that waits, is at work, or has used up its attempts.                  *)

InTime == faults["lapse"] = 0

Busy(h) == at[h].step # "idle" /\ at[h].job # Page
Holding(h) == Busy(h) => owner[at[h].job] = h /\ job[at[h].job].phase = "owned"

\* A sync is at no lead's job; a delivery that is about to end done was made
Assigned == \A h \in Handler : at[h].step \in SyncSteps => at[h].job \notin Lead
Earned(h) == at[h].step = "done" /\ at[h].job \in Lead => crm[at[h].job] = "delivered"

Finished(l) == job[l].phase = "done" => crm[l] = "delivered"
Left(l) == crm[l] = "error" => job[l].phase \in {"waiting", "owned", "dead"}

Delivering ==
  /\ \A h \in Handler : Holding(h) /\ Earned(h)
  /\ \A l \in Lead : Finished(l) /\ Left(l)
WorkInv == Assigned /\ (InTime => Delivering)

LEMMA StillInTime ==
  ASSUME FaultsTyped, UNCHANGED faults \/ Fault("stop") \/ Fault("unnoticed") \/ Fault("beside"), InTime'
  PROVE  InTime
BY DEF FaultsTyped, Kinds, Fault, InTime

LEMMA LapseIsLate ==
  ASSUME FaultsTyped, Fault("lapse")
  PROVE  ~InTime'
<1>1. faults["lapse"] \in Nat /\ faults'["lapse"] = faults["lapse"] + 1
  BY LeadAssumption DEF FaultsTyped, Kinds, Fault
<1> QED BY <1>1 DEF InTime

\* The page's sync is no job
LEMMA PageIsNoJob == Page \notin Job /\ Lead \subseteq Job /\ Sync \in Job /\ Sync \notin Lead
BY LeadAssumption DEF Page, Job, Sync

\* The jobs are left alone, or one is put in the queue that was not there
Requeued ==
  /\ owner' = owner
  /\ \A j \in Job : job'[j] = job[j] \/ (~Active(j) /\ job'[j].phase = "waiting")

LEMMA EnqueueRequeues ==
  ASSUME QueueTyped, NEW j \in Job, Enqueue(j), UNCHANGED owner
  PROVE  Requeued
BY DEF QueueTyped, Enqueue, Requeued, NewJob

LEMMA QueueRequeues ==
  ASSUME UNCHANGED queue
  PROVE  Requeued
BY DEF Requeued, queue

\* Two handlers have two jobs
LEMMA OneEach ==
  ASSUME Delivering, NEW g \in Handler, NEW h \in Handler, g # h, Busy(g), Busy(h)
  PROVE  at[g].job # at[h].job
BY DEF Delivering, Holding

\* A handler goes on or stops; it writes its own lead's delivery and no other
LEMMA OnwardWork ==
  ASSUME LeadInv, WorkInv, NEW h \in Handler, at[h].step # "idle",
         \A g \in Handler : g # h => at'[g] = at[g],
         at'[h].step = "idle" \/ at'[h].job = at[h].job,
         at'[h].step \in SyncSteps => at[h].job \notin Lead,
         at'[h].step = "done" /\ at[h].job \in Lead => crm'[at[h].job] = "delivered",
         \A l \in Lead :
           l # at[h].job => crm'[l] = crm[l] \/ (crm[l] = "none" /\ crm'[l] = "pending"),
         Requeued, InTime' => InTime
  PROVE  WorkInv'
<1>1. Assigned'
  BY DEF WorkInv, Assigned, SyncSteps
<1>2. ASSUME InTime' PROVE Delivering'
  <2>1. Delivering
    BY <1>2 DEF WorkInv
  <2>2. ASSUME NEW g \in Handler PROVE Holding(g)'
    <3>1. SUFFICES ASSUME Busy(g)'
                   PROVE  owner'[at'[g].job] = g /\ job'[at'[g].job].phase = "owned"
      BY DEF Holding
    <3>2. Busy(g) /\ at'[g].job = at[g].job
      BY <3>1 DEF Busy
    <3>3. PICK j \in Job : j = at[g].job
      BY <3>2, PageIsNoJob DEF Busy, LeadInv, Typed, AtTyped, At
    <3>4. owner[j] = g /\ job[j].phase = "owned"
      BY <2>1, <3>2, <3>3 DEF Delivering, Holding
    <3> QED BY <3>2, <3>3, <3>4 DEF Requeued, Active
  <2>3. ASSUME NEW g \in Handler PROVE Earned(g)'
    <3>1. SUFFICES ASSUME at'[g].step = "done", at'[g].job \in Lead
                   PROVE  crm'[at'[g].job] = "delivered"
      BY DEF Earned
    <3>2. CASE g = h
      BY <3>1, <3>2
    <3>3. CASE g # h
      <4>1. at'[g] = at[g] /\ Busy(g) /\ crm[at[g].job] = "delivered"
        BY <2>1, <3>1, <3>3, PageIsNoJob DEF Delivering, Earned, Busy
      <4>2. at[g].job # at[h].job
        BY <2>1, <3>1, <3>3, <4>1, OneEach, PageIsNoJob DEF Busy
      <4> QED BY <3>1, <4>1, <4>2
    <3> QED BY <3>2, <3>3
  <2>4. ASSUME NEW l \in Lead PROVE Finished(l)' /\ Left(l)'
    <3>0. l \in Job /\ Finished(l) /\ Left(l)
      BY <2>1, PageIsNoJob DEF Delivering
    <3>1. CASE l = at[h].job
      <4>1. job[l].phase = "owned"
        BY <2>1, <3>1, PageIsNoJob DEF Delivering, Holding, Busy
      <4>2. job'[l].phase = "owned"
        BY <3>0, <4>1 DEF Requeued, Active
      <4> QED BY <4>2 DEF Finished, Left
    <3>2. CASE l # at[h].job
      <4>1. crm'[l] = crm[l] \/ (crm[l] = "none" /\ crm'[l] = "pending")
        BY <3>2
      <4>2. job'[l] = job[l] \/ job'[l].phase = "waiting"
        BY <3>0 DEF Requeued
      <4> QED BY <3>0, <4>1, <4>2 DEF Finished, Left
    <3> QED BY <3>1, <3>2
  <2> QED BY <2>2, <2>3, <2>4 DEF Delivering
<1> QED BY <1>1, <1>2 DEF WorkInv

\* Nobody moves
LEMMA StillWork ==
  ASSUME LeadInv, WorkInv, UNCHANGED <<at, crm>>, Requeued, InTime' => InTime
  PROVE  WorkInv'
<1>1. Assigned'
  BY DEF WorkInv, Assigned
<1>2. ASSUME InTime' PROVE Delivering'
  <2>1. Delivering
    BY <1>2 DEF WorkInv
  <2>2. ASSUME NEW g \in Handler PROVE Holding(g)' /\ Earned(g)'
    <3>1. Earned(g)'
      BY <2>1 DEF Delivering, Earned
    <3>2. ASSUME Busy(g)
          PROVE  owner'[at[g].job] = g /\ job'[at[g].job].phase = "owned"
      <4>1. PICK j \in Job : j = at[g].job
        BY <3>2, PageIsNoJob DEF Busy, LeadInv, Typed, AtTyped, At
      <4>2. owner[j] = g /\ job[j].phase = "owned"
        BY <2>1, <3>2, <4>1 DEF Delivering, Holding
      <4> QED BY <4>1, <4>2 DEF Requeued, Active
    <3> QED BY <3>1, <3>2 DEF Holding, Busy
  <2>3. ASSUME NEW l \in Lead PROVE Finished(l)' /\ Left(l)'
    <3>1. l \in Job /\ Finished(l) /\ Left(l)
      BY <2>1, PageIsNoJob DEF Delivering
    <3> QED BY <3>1 DEF Finished, Left, Requeued
  <2> QED BY <2>2, <2>3 DEF Delivering
<1> QED BY <1>1, <1>2 DEF WorkInv

\* A handler takes up a job of its own, or serves the page
LEMMA StartWork ==
  ASSUME LeadInv, WorkInv, NEW h \in Handler, NEW j \in Job \cup {Page}, NEW s \in Steps, NEW todo,
         Starts(h, j, s, todo), (j = Page /\ UNCHANGED queue) \/ (j \in Job /\ Claim(h, j)),
         s \in SyncSteps => j \notin Lead,
         s = "done" /\ j \in Lead => crm[j] = "delivered",
         InTime' => InTime
  PROVE  WorkInv'
<1>1. /\ at[h].step = "idle" /\ at'[h].step = s /\ at'[h].job = j
      /\ \A g \in Handler : g # h => at'[g] = at[g]
      /\ crm' = crm
  BY DEF Starts, Working, LeadInv, Typed, AtTyped, site
<1>2. Assigned'
  BY <1>1 DEF WorkInv, Assigned
<1>3. ASSUME InTime' PROVE Delivering'
  <2>1. Delivering
    BY <1>3 DEF WorkInv
  <2>2. /\ \A k \in Job : k # j => owner'[k] = owner[k] /\ job'[k] = job[k]
        /\ j \in Job => /\ job[j].phase = "waiting"
                        /\ owner'[j] = h /\ job'[j].phase = "owned"
    BY PageIsNoJob DEF Claim, Moves, LeadInv, Typed, QueueTyped, queue
  <2>3. ASSUME NEW g \in Handler PROVE Holding(g)'
    <3>1. CASE g = h
      BY <1>1, <2>2, <3>1 DEF Holding, Busy
    <3>2. CASE g # h
      <4>1. SUFFICES ASSUME Busy(g) PROVE owner'[at[g].job] = g /\ job'[at[g].job].phase = "owned"
        BY <1>1, <3>2 DEF Holding, Busy
      <4>2. PICK k \in Job : k = at[g].job
        BY <4>1, PageIsNoJob DEF Busy, LeadInv, Typed, AtTyped, At
      <4>3. owner[k] = g /\ job[k].phase = "owned"
        BY <2>1, <4>1, <4>2 DEF Delivering, Holding
      <4>4. k # j
        BY <2>2, <4>3
      <4> QED BY <2>2, <4>2, <4>3, <4>4
    <3> QED BY <3>1, <3>2
  <2>4. ASSUME NEW g \in Handler PROVE Earned(g)'
    BY <1>1, <2>1 DEF Delivering, Earned
  <2>5. ASSUME NEW l \in Lead PROVE Finished(l)' /\ Left(l)'
    <3>1. l \in Job /\ Finished(l) /\ Left(l)
      BY <2>1, PageIsNoJob DEF Delivering
    <3> QED BY <1>1, <2>2, <3>1 DEF Finished, Left
  <2> QED BY <2>3, <2>4, <2>5 DEF Delivering
<1> QED BY <1>2, <1>3 DEF WorkInv

-----------------------------------------------------------------------------
(* Every action *)

LEMMA BecomesJob ==
  ASSUME AtTyped, NEW h \in Handler, NEW s, NEW todo, NEW all, NEW left,
         Becomes(h, s, todo, all, left)
  PROVE  /\ at'[h].step = s /\ at'[h].job = at[h].job
         /\ \A g \in Handler : g # h => at'[g] = at[g]
BY DEF Becomes, AtTyped

LEMMA ReturnJob ==
  ASSUME AtTyped, NEW h \in Handler, NEW s, Return(h, s)
  PROVE  /\ at'[h].step = "idle" \/ (at'[h].step = s /\ at'[h].job = at[h].job)
         /\ \A g \in Handler : g # h => at'[g] = at[g]
<1>1. CASE at[h].job = Page
  BY <1>1, QuitPlace DEF Return, Idle
<1>2. CASE at[h].job # Page
  BY <1>2, BecomesJob DEF Return
<1> QED BY <1>1, <1>2

\* A sync's step leaves the deliveries that there are alone
SyncMoves(h) ==
  /\ \A g \in Handler : g # h => at'[g] = at[g]
  /\ at'[h].step = "idle" \/ at'[h].job = at[h].job
LEMMA SyncWork ==
  ASSUME LeadInv, WorkInv, NEW h \in Handler, at[h].step \in SyncSteps, SyncMoves(h),
         \A l \in Lead : crm'[l] = crm[l] \/ (crm[l] = "none" /\ crm'[l] = "pending"),
         Requeued, UNCHANGED faults \/ Fault("stop") \/ Fault("unnoticed")
  PROVE  WorkInv'
<1>1. at[h].step # "idle" /\ at[h].job \notin Lead
  BY DEF WorkInv, Assigned, SyncSteps
<1> QED BY <1>1, OnwardWork, StillInTime DEF SyncMoves, LeadInv, Typed

LEMMA ErrsJob ==
  ASSUME AtTyped, NEW h \in Handler, Errs(h)
  PROVE  SyncMoves(h) /\ at[h].step \in SyncSteps
<1>1. at[h].step \in SyncSteps
  BY DEF Errs, Working, SyncSteps
<1>2. CASE Return(h, "throw")
  BY <1>1, <1>2, ReturnJob DEF SyncMoves
<1>3. CASE Goto(h, "insert")
  BY <1>1, <1>3, BecomesJob DEF Goto, SyncMoves
<1>4. CASE \E l \in Lead : NextLead(h, l)
  BY <1>1, <1>4, BecomesJob DEF NextLead, SyncMoves
<1> QED BY <1>1, <1>2, <1>3, <1>4 DEF Errs

LEMMA SyncStepsWork ==
  ASSUME LeadInv, WorkInv, NEW h \in Handler,
         \/ Look(h) \/ Insert(h) \/ Link(h) \/ Pending(h) \/ Fire(h) \/ Mark(h)
         \/ CallFails(h)
  PROVE  WorkInv'
<1>1. crm' = crm /\ Requeued
  BY QueueRequeues DEF Look, Insert, Link, Pending, Fire, Mark, CallFails, site
<1>2. at[h].step \in SyncSteps
  BY ErrsJob DEF Look, Insert, Link, Pending, Fire, Mark, CallFails, Working, SyncSteps, LinkIsLost,
         LeadInv, Typed
<1>3. UNCHANGED faults \/ Fault("stop") \/ Fault("unnoticed")
  BY DEF Look, Insert, Link, Pending, Fire, Mark, CallFails, Proceed, Errs, LinkIsLost
<1>4. SyncMoves(h)
  <2>1. CASE \E s, todo, all, left : Becomes(h, s, todo, all, left)
    BY <2>1, BecomesJob DEF SyncMoves, LeadInv, Typed
  <2>2. CASE \E s : Return(h, s)
    BY <2>2, ReturnJob DEF SyncMoves, LeadInv, Typed
  <2>3. CASE Errs(h)
    BY <2>3, ErrsJob DEF LeadInv, Typed
  <2>4. CASE Look(h)
    BY <2>1, <2>4 DEF Look, Goto, NextLead
  <2>5. CASE Insert(h) \/ Fire(h)
    BY <2>1, <2>3, <2>5 DEF Insert, Fire, Proceed, Goto
  <2>6. CASE Link(h)
    BY <2>1, <2>2, <2>6 DEF Link, Goto
  <2>7. CASE Pending(h)
    BY <2>1, <2>2, <2>7 DEF Pending
  <2>8. CASE Mark(h)
    BY <2>1, <2>2, <2>3, <2>8 DEF Mark
  <2>9. CASE CallFails(h)
    BY <2>1, <2>3, <2>9 DEF CallFails, LinkIsLost, Goto
  <2> QED BY <2>4, <2>5, <2>6, <2>7, <2>8, <2>9
<1> QED BY <1>1, <1>2, <1>3, <1>4, SyncWork

LEMMA RegisterWork ==
  ASSUME LeadInv, WorkInv, NEW h \in Handler, Register(h) \/ EnqueueCrm(h)
  PROVE  WorkInv'
<1>1. at[h].step \in SyncSteps
  BY DEF Register, EnqueueCrm, Working, SyncSteps
<1>2. \A l \in Lead : crm'[l] = crm[l] \/ (crm[l] = "none" /\ crm'[l] = "pending")
  BY DEF Register, EnqueueCrm, site, LeadInv, Typed, SiteTyped
<1>3. Requeued
  BY QueueRequeues, EnqueueRequeues, PageIsNoJob DEF Register, EnqueueCrm, LeadInv, Typed
<1>4. UNCHANGED faults \/ Fault("stop")
  BY DEF Register, EnqueueCrm, Proceed, Errs
<1>5. SyncMoves(h)
  <2>1. CASE Errs(h)
    BY <2>1, ErrsJob DEF LeadInv, Typed
  <2>2. CASE Goto(h, "enqueue") \/ \E l \in Lead : NextLead(h, l)
    BY <2>2, BecomesJob DEF Goto, NextLead, SyncMoves, LeadInv, Typed
  <2> QED BY <2>1, <2>2 DEF Register, EnqueueCrm, Proceed
<1> QED BY <1>1, <1>2, <1>3, <1>4, <1>5, SyncWork

LEMMA DeliveryWork ==
  ASSUME LeadInv, WorkInv, NEW h \in Handler, Capture(h) \/ Record(h) \/ DeliveryFails(h)
  PROVE  WorkInv'
<1>1. PICK k \in Lead : k = at[h].job
  BY DEF Capture, Record, DeliveryFails, Working, LeadInv, SiteOK, Placed, CrmSteps
<1>2. /\ at[h].step # "idle" /\ Requeued
      /\ crm \in [Lead -> {"none", "pending", "delivered", "error"}]
  BY QueueRequeues DEF Capture, Record, DeliveryFails, Working, LeadInv, Typed, SiteTyped
<1>3. UNCHANGED faults \/ Fault("stop")
  BY DEF Capture, Record, DeliveryFails, Note
<1>4. \A l \in Lead : l # k => crm'[l] = crm[l]
  BY <1>1, <1>2 DEF Capture, Record, DeliveryFails, Note, Write
<1>5. /\ \A g \in Handler : g # h => at'[g] = at[g]
      /\ at'[h].step = "idle" \/ at'[h].job = k
      /\ at'[h].step \notin SyncSteps
      /\ at'[h].step = "done" => crm'[k] = "delivered"
  <2>1. CASE Note(h)
    BY <1>1, <2>1, ReturnJob DEF Note, AfterNote, SyncSteps, LeadInv, Typed
  <2>2. CASE Goto(h, "record")
    BY <1>1, <2>2, BecomesJob DEF Goto, SyncSteps, LeadInv, Typed
  <2>3. CASE Record(h)
    <3>1. crm'[k] = "delivered" /\ Return(h, "done")
      BY <1>1, <1>2, <2>3 DEF Record, Write
    <3> QED BY <1>1, <3>1, ReturnJob DEF SyncSteps, LeadInv, Typed
  <2> QED BY <2>1, <2>2, <2>3 DEF Capture, DeliveryFails
<1> QED BY <1>1, <1>2, <1>3, <1>4, <1>5, OnwardWork, StillInTime DEF LeadInv, Typed

LEMMA TakeWork ==
  ASSUME LeadInv, WorkInv, NEW h \in Handler,
         \/ \E j \in Job : Take(h, j) \/ Stumble(h, j)
         \/ Refresh(h)
  PROVE  WorkInv'
<1>0. /\ {"pending", "look"} \subseteq SyncSteps /\ SyncSteps \subseteq Steps
      /\ "throw" \notin SyncSteps
      /\ {"done", "capture"} \cap SyncSteps = {} /\ {"throw", "done", "capture"} \subseteq Steps
  BY DEF SyncSteps, Steps, Calls, CrmSteps
<1>1. CASE SyncJob(h) \/ Refresh(h)
  <2>1. PICK j \in {Sync, Page} :
          /\ (j = Page /\ UNCHANGED queue) \/ (j \in Job /\ Claim(h, j))
          /\ Fetch(h, j)
    BY <1>1, PageIsNoJob DEF SyncJob, Refresh
  <2>2. j \in Job \cup {Page} /\ j \notin Lead
    BY PageIsNoJob
  <2>3. InTime' => InTime
    BY <2>1, StillInTime DEF Fetch, LeadInv, Typed
  <2>4. PICK s \in {"pending", "look"} : Starts(h, j, s, Window)
    BY <2>1 DEF Fetch
  <2> QED BY <1>0, <2>1, <2>2, <2>3, <2>4, StartWork
<1>2. ASSUME NEW l \in Lead, Load(h, l) PROVE WorkInv'
  <2>1. PICK s \in {"done", "capture"} : /\ Starts(h, l, s, {})
                                        /\ s = "done" => crm[l] = "delivered"
    BY <1>2 DEF Load
  <2>2. InTime' => InTime
    BY <1>2, StillInTime DEF Load, LeadInv, Typed
  <2> QED BY <1>0, <1>2, <2>1, <2>2, StartWork, PageIsNoJob DEF Load
<1>3. ASSUME NEW j \in Job, Stumble(h, j) PROVE WorkInv'
  <2>1. InTime' => InTime
    BY <1>3, StillInTime DEF Stumble, LeadInv, Typed
  <2> QED BY <1>0, <1>3, <2>1, StartWork DEF Stumble
<1> QED BY <1>1, <1>2, <1>3 DEF Take, Job

\* Who ends gives back the job it holds, and no other
LEMMA EndWork ==
  ASSUME LeadInv, WorkInv, NEW h \in Handler, at'[h] = Idle,
         \A g \in Handler : g # h => at'[g] = at[g],
         crm' = crm,
         \A j \in Job : (owner'[j] = owner[j] /\ job'[j] = job[j]) \/ owner[j] = h,
         InTime' => InTime /\ \A l \in Lead : Finished(l)' /\ Left(l)'
  PROVE  WorkInv'
<1>1. Assigned'
  BY DEF WorkInv, Assigned, Idle, SyncSteps
<1>2. ASSUME InTime', NEW g \in Handler PROVE Holding(g)' /\ Earned(g)'
  <2>1. Delivering
    BY <1>2 DEF WorkInv
  <2>2. CASE g = h
    BY <2>2 DEF Holding, Earned, Busy, Idle
  <2>3. CASE g # h
    <3>1. at'[g] = at[g] /\ Earned(g)'
      BY <2>1, <2>3 DEF Delivering, Earned
    <3>2. ASSUME Busy(g) PROVE owner'[at[g].job] = g /\ job'[at[g].job].phase = "owned"
      <4>1. PICK j \in Job : j = at[g].job
        BY <3>2, PageIsNoJob DEF Busy, LeadInv, Typed, AtTyped, At
      <4>2. owner[j] = g /\ job[j].phase = "owned"
        BY <2>1, <3>2, <4>1 DEF Delivering, Holding
      <4> QED BY <2>3, <4>1, <4>2
    <3> QED BY <3>1, <3>2 DEF Holding, Busy
  <2> QED BY <2>2, <2>3
<1> QED BY <1>1, <1>2 DEF WorkInv, Delivering

LEMMA CrashWork ==
  ASSUME LeadInv, WorkInv, NEW h \in Handler, Crash(h)
  PROVE  WorkInv'
<1>1. /\ at'[h] = Idle /\ \A g \in Handler : g # h => at'[g] = at[g]
      /\ crm' = crm /\ job' = job
      /\ \A j \in Job : owner'[j] = owner[j] \/ owner[j] = h
  BY QuitPlace DEF Crash, site, LeadInv, Typed
<1>2. InTime' => InTime /\ \A l \in Lead : Finished(l)' /\ Left(l)'
  BY <1>1, StillInTime DEF Crash, WorkInv, Delivering, Finished, Left, LeadInv, Typed
<1> QED BY <1>1, <1>2, EndWork

LEMMA SettleWork ==
  ASSUME LeadInv, WorkInv, NEW h \in Handler, Settle(h)
  PROVE  WorkInv'
<1>1. /\ at'[h] = Idle /\ \A g \in Handler : g # h => at'[g] = at[g]
      /\ crm' = crm /\ faults' = faults /\ at[h].step \in {"done", "throw"}
  BY QuitPlace DEF Settle, site, LeadInv, Typed
<1>2. /\ job \in [Job -> JobRow] /\ owner \in [Job -> Handler \cup {Nobody}]
      /\ at[h].job \in Job \cup {Page}
  BY DEF LeadInv, Typed, QueueTyped, AtTyped, At
<1>3. CASE UNCHANGED queue
  <2>1. InTime' => InTime /\ \A l \in Lead : Finished(l)' /\ Left(l)'
    BY <1>1, <1>3 DEF queue, InTime, WorkInv, Delivering, Finished, Left
  <2> QED BY <1>1, <1>3, <2>1, EndWork DEF queue
<1>4. CASE ~UNCHANGED queue
  <2> DEFINE j == at[h].job
  <2>1. PICK p \in {"waiting", "dead", "done"}, n \in 0 .. Budget :
          /\ job' = [job EXCEPT ![j] = [phase |-> p, takes |-> n, budget |-> Budget]]
          /\ p = "done" => at[h].step = "done"
          /\ owner[j] = h /\ owner' = [owner EXCEPT ![j] = Nobody]
    BY <1>4 DEF Settle, Returns, Moves, Working, Disown
  <2>2. \A k \in Job : k # j => owner'[k] = owner[k] /\ job'[k] = job[k]
    BY <1>2, <2>1
  <2>3. ASSUME InTime', NEW l \in Lead PROVE Finished(l)' /\ Left(l)'
    <3>1. Delivering /\ l \in Job
      BY <1>1, <2>3, PageIsNoJob DEF InTime, WorkInv
    <3>2. CASE l = j
      <4>1. job'[l].phase = p
        BY <1>2, <2>1, <3>1, <3>2
      <4>2. p = "done" => crm[l] = "delivered"
        BY <2>1, <3>1, <3>2 DEF Delivering, Earned
      <4> QED BY <1>1, <4>1, <4>2 DEF Finished, Left
    <3>3. CASE l # j
      BY <1>1, <2>2, <3>1, <3>3 DEF Delivering, Finished, Left
    <3> QED BY <3>2, <3>3
  <2>4. InTime' => InTime
    BY <1>1 DEF InTime
  <2>5. \A k \in Job : (owner'[k] = owner[k] /\ job'[k] = job[k]) \/ owner[k] = h
    BY <2>1, <2>2
  <2> QED BY <1>1, <2>3, <2>4, <2>5, EndWork
<1> QED BY <1>3, <1>4

\* The lease of a job that nobody is at passes, or it is late
LEMMA ReapWork ==
  ASSUME LeadInv, WorkInv, NEW j \in Job, Reap(j)
  PROVE  WorkInv'
<1>1. at' = at /\ crm' = crm
  BY DEF Reap, site
<1>2. Assigned'
  BY <1>1 DEF WorkInv, Assigned
<1>3. ASSUME InTime' PROVE Delivering'
  <2>1. owner[j] = Nobody /\ InTime
    BY <1>3, LapseIsLate DEF Reap, InTime, LeadInv, Typed
  <2>2. Delivering
    BY <2>1 DEF WorkInv
  <2>3. /\ \A k \in Job : k # j => owner'[k] = owner[k] /\ job'[k] = job[k]
        /\ job'[j].phase \in {"waiting", "dead"}
    BY DEF Reap, Returns, Moves, Disown, LeadInv, Typed, QueueTyped
  <2>4. ASSUME NEW g \in Handler PROVE Holding(g)' /\ Earned(g)'
    <3>1. Earned(g)'
      BY <1>1, <2>2 DEF Delivering, Earned
    <3>2. ASSUME Busy(g) PROVE owner'[at[g].job] = g /\ job'[at[g].job].phase = "owned"
      <4>1. PICK k \in Job : k = at[g].job
        BY <3>2, PageIsNoJob DEF Busy, LeadInv, Typed, AtTyped, At
      <4>2. owner[k] = g /\ job[k].phase = "owned"
        BY <2>2, <3>2, <4>1 DEF Delivering, Holding
      <4> QED BY <2>1, <2>3, <4>1, <4>2, LeadAssumption
    <3> QED BY <1>1, <3>1, <3>2 DEF Holding, Busy
  <2>5. ASSUME NEW l \in Lead PROVE Finished(l)' /\ Left(l)'
    BY <1>1, <2>2, <2>3, PageIsNoJob DEF Delivering, Finished, Left
  <2> QED BY <2>4, <2>5 DEF Delivering
<1> QED BY <1>2, <1>3 DEF WorkInv

LEMMA OutsideWork ==
  ASSUME LeadInv, WorkInv,
         \/ \E l \in Lead : Submit(l) \/ Age(l)
         \/ Schedule
         \/ UNCHANGED vars
  PROVE  WorkInv'
<1>1. UNCHANGED <<at, crm, faults>>
  BY DEF Submit, Age, Schedule, vars, site
<1>2. Requeued
  BY QueueRequeues, EnqueueRequeues, PageIsNoJob DEF Submit, Age, Schedule, vars, LeadInv, Typed
<1> QED BY <1>1, <1>2, StillWork DEF InTime

LEMMA WorkHolds == LeadInv /\ WorkInv /\ [Next]_vars => WorkInv'
<1> SUFFICES ASSUME LeadInv, WorkInv, [Next]_vars PROVE WorkInv'
  OBVIOUS
<1>1. ASSUME NEW h \in Handler, Step(h) PROVE WorkInv'
  BY <1>1, SyncStepsWork, RegisterWork, DeliveryWork, SettleWork DEF Step
<1>2. ASSUME NEW h \in Handler, CallFails(h) \/ DeliveryFails(h) \/ Refresh(h) \/ Crash(h)
      PROVE  WorkInv'
  BY <1>2, SyncStepsWork, DeliveryWork, TakeWork, CrashWork
<1>3. ASSUME NEW j \in Job, Reap(j) \/ \E h \in Handler : Take(h, j) \/ Stumble(h, j)
      PROVE  WorkInv'
  BY <1>3, ReapWork, TakeWork
<1>4. CASE (\E l \in Lead : Submit(l) \/ Age(l)) \/ Schedule \/ UNCHANGED vars
  BY <1>4, OutsideWork
<1> QED BY <1>1, <1>2, <1>3, <1>4 DEF Next

LEMMA InitWork == Init => WorkInv
BY DEF Init, Idle, WorkInv, Assigned, SyncSteps, Delivering, Holding, Earned, Busy, Finished,
       Left, Job

\* As long as no handler outlives its lease, a delivery's job ends done only when
\* its lead was delivered, and a failed delivery has a job that will be taken up
\* or has used up its attempts (executeLeadCrmDeliveryJobById writes the error and
\* throws, complete_job_v2 and fail_job_v2 settle the job).
NoDeliveryForgotten ==
  InTime => \A l \in Lead :
              /\ job[l].phase = "done" => crm[l] = "delivered"
              /\ crm[l] = "error" => job[l].phase \in {"waiting", "owned", "dead"}

THEOREM FailedHasItsJob == Spec => []NoDeliveryForgotten
<1>1. Init => LeadInv /\ WorkInv
  BY InitHolds, InitWork
<1>2. (LeadInv /\ WorkInv) /\ [Next]_vars => (LeadInv /\ WorkInv)'
  BY NextHolds, WorkHolds
<1>3. WorkInv => NoDeliveryForgotten
  BY DEF WorkInv, Delivering, Finished, Left, NoDeliveryForgotten
<1> QED BY <1>1, <1>2, <1>3, PTL DEF Spec

================================================================================
