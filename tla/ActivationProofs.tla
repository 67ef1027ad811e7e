--------------------------- MODULE ActivationProofs ---------------------------
(***************************************************************************)
(* Proofs about Activation, for any calls, rows, objects and bounds on     *)
(* faults and crashes.                                                     *)
(*                                                                         *)
(* The lease.  LeaseHeld says that a call between its claim and its        *)
(* release owns a live lease; the lease has one owner, so there is one     *)
(* such call.  Only a claim brings a call there, and it succeeds only when *)
(* the lease is Free, that is, by LeaseHeld, when nobody is there.  Only a *)
(* release and the clock take a lease away: the first takes the lease of   *)
(* the call that leaves, and OnTime keeps the second from those that have  *)
(* not left.  Every other step leaves the lease alone and moves a call     *)
(* within its phase or out of it.                                          *)
(*                                                                         *)
(* The types.  Typed needs no timing: it adds to TypeOK that a call which  *)
(* saw a row knows which (SeenRow), because it may claim for that row.     *)
(*                                                                         *)
(* The money.  SpendInv relates the rows, Meta and what a call at work     *)
(* knows.  The rows: one at most has begun, it is the one written last, an *)
(* object can deliver only under such a row, and under an applied one all  *)
(* of them are active.  A call: when it enters with a row to set applying, *)
(* no row has begun, so that its own is the only one (Entered, Tried); and *)
(* what it has read back of Meta is still so, because nobody else writes   *)
(* there (SeenActive, SeenPaused).  A claim establishes the first of these *)
(* unless the call is overtaken, and no other step breaks any of them, so  *)
(* SpendInv holds until a call has been (UntilOvertaken).  The last four   *)
(* theorems read their property off it.                                    *)
(***************************************************************************)
EXTENDS Activation, TLAPS

Place == Reading \cup Leased \cup Ended

PcOK == pc \in [Call -> Place]

LeaseHeld ==
  \A c \in Call \ Jobs : pc[c] \in Leased => lease = [owner |-> c, live |-> TRUE]

IInv == PcOK /\ LeaseHeld

\* c goes somewhere, and enters the leased phase only if it is a job
Moves(c) ==
  \E p \in Place : Goto(c, p) /\ (p \in Leased => pc[c] \in Leased \/ c \in Jobs)

(* The phases of a call do not overlap. *)
LEMMA PhasesApart == Leased \cap (Reading \cup Ended) = {}
BY DEF Leased, Reading, Ended

(* A move that leaves the lease alone preserves the invariant. *)
LEMMA MovesKeep ==
  ASSUME IInv, NEW c \in Call, Moves(c), UNCHANGED lease
  PROVE  IInv'
<1>1. PICK p \in Place : Goto(c, p) /\ (p \in Leased => pc[c] \in Leased \/ c \in Jobs)
  BY DEF Moves
<1>2. pc \in [Call -> Place] /\ pc' = [pc EXCEPT ![c] = p]
  BY <1>1 DEF IInv, PcOK, Goto
<1>3. PcOK'
  BY <1>2 DEF PcOK
<1>4. ASSUME NEW d \in Call \ Jobs, pc'[d] \in Leased
      PROVE  lease' = [owner |-> d, live |-> TRUE]
  <2>1. pc[d] \in Leased
    BY <1>1, <1>2, <1>4
  <2> QED
    BY <2>1 DEF IInv, LeaseHeld
<1> QED
  BY <1>3, <1>4 DEF IInv, LeaseHeld

(* A call that answers ends, or goes to its release. *)
LEMMA AnswerMoves ==
  ASSUME NEW c \in Call, NEW r, Answer(c, r)
  PROVE  Moves(c)
BY DEF Answer, Moves, Place, Leased, Ended

(* A call at work goes wherever it goes within its phase, or ends. *)
LEMMA GotoMoves ==
  ASSUME NEW c \in Call, NEW p \in Place, Goto(c, p),
         pc[c] \in Leased \/ p \notin Leased
  PROVE  Moves(c)
BY DEF Moves

(* The compensation, and what is left of a list of objects, are such moves. *)
LEMMA WorkMoves ==
  ASSUME NEW c \in Call, pc[c] \in Leased
  PROVE  /\ Fails(c) => Moves(c)
         /\ \A o, S : \A p \in Leased : Done(c, o, p, S) => Moves(c)
<1>1. Fails(c) => Moves(c)
  BY GotoMoves DEF Fails, Place, Leased
<1>2. ASSUME NEW o, NEW S, NEW p \in Leased, Done(c, o, p, S)
      PROVE  Moves(c)
  <2>1. Goto(c, p) \/ Goto(c, pc[c])
    BY <1>2 DEF Done
  <2> QED
    BY <2>1, GotoMoves DEF Place
<1> QED
  BY <1>1, <1>2

(* The steps of a call that has no lease yet, or gets none. *)
LEMMA ReadingKeeps ==
  ASSUME IInv, NEW c \in Call, Start(c) \/ ReadExisting(c) \/ StartJob(c)
  PROVE  IInv'
<1>1. UNCHANGED lease
  BY DEF Start, ReadExisting, StartJob, store
<1>2. CASE Start(c)
  <2>1. (\E r : Answer(c, r)) \/ Goto(c, "existing")
    BY <1>2 DEF Start
  <2> QED
    BY <1>1, <2>1, AnswerMoves, GotoMoves, MovesKeep DEF Place, Reading, Leased
<1>3. CASE ReadExisting(c)
  <2>1. (\E r : Answer(c, r)) \/ Goto(c, "claim")
    BY <1>3 DEF ReadExisting
  <2> QED
    BY <1>1, <2>1, AnswerMoves, GotoMoves, MovesKeep DEF Place, Reading, Leased
<1>4. CASE StartJob(c)
  BY <1>1, <1>4, MovesKeep DEF StartJob, Moves, Place, Leased
<1> QED
  BY <1>2, <1>3, <1>4

(* A free lease is nobody's: no call is between its claim and its release. *)
LEMMA FreeMeansIdle ==
  ASSUME LeaseHeld, Free
  PROVE  \A d \in Call \ Jobs : pc[d] \notin Leased
BY ActivationAssumption DEF LeaseHeld, Free

(* A claim that succeeds makes its call the owner; one that does not changes
   nothing, and one whose answer is lost leaves a lease to nobody. *)
LEMMA ClaimKeeps ==
  ASSUME IInv, NEW c \in Call, Claim(c) \/ ClaimUnanswered(c)
  PROVE  IInv'
<1>1. CASE UNCHANGED lease /\ \E r : Answer(c, r)
  BY <1>1, AnswerMoves, MovesKeep
<1>2. CASE Free /\ lease' = [owner |-> c, live |-> TRUE]
           /\ \E p \in Place : Goto(c, p)
  <2>1. \A d \in Call \ Jobs : pc[d] \notin Leased
    BY <1>2, FreeMeansIdle DEF IInv
  <2>2. PICK p \in Place : pc' = [pc EXCEPT ![c] = p]
    BY <1>2 DEF Goto
  <2>3. \A d \in Call : d # c => pc'[d] = pc[d]
    BY <2>2 DEF IInv, PcOK
  <2>4. PcOK'
    BY <2>2 DEF IInv, PcOK
  <2>5. LeaseHeld'
    BY <1>2, <2>1, <2>3 DEF LeaseHeld
  <2> QED
    BY <2>4, <2>5 DEF IInv
<1>3. CASE Claim(c)
  <2>1. \/ UNCHANGED lease /\ \E r : Answer(c, r)
        \/ /\ Free /\ lease' = [owner |-> c, live |-> TRUE]
           /\ Goto(c, "quarantine") \/ Goto(c, "ensure")
    BY <1>3 DEF Claim, Claimed
  <2> QED
    BY <1>1, <1>2, <2>1 DEF Place, Leased
<1>4. CASE ClaimUnanswered(c)
  <2>1. Free /\ lease' = [owner |-> c, live |-> TRUE] /\ Answer(c, "error")
    BY <1>4 DEF ClaimUnanswered
  <2> QED
    BY <1>2, <2>1, AnswerMoves DEF Moves
<1> QED
  BY <1>3, <1>4

(* A call at work on the plan leaves the lease alone until its release. *)
LEMMA WorkKeeps ==
  ASSUME IInv, NEW c \in Call,
         \/ Quarantine(c) \/ Canonical(c) \/ Ensure(c) \/ Renew(c)
         \/ MarkApplying(c) \/ FinalizeEarly(c) \/ Finish(c)
         \/ MarkUnconfirmed(c) \/ AssertOwned(c) \/ WritePlan(c)
  PROVE  IInv'
<1>1. UNCHANGED lease
  BY DEF Quarantine, Canonical, Ensure, Renew, MarkApplying, FinalizeEarly, Finish,
         MarkUnconfirmed, AssertOwned, WritePlan, store
<1>2. pc[c] \in Leased
  BY DEF Quarantine, Canonical, Ensure, Renew, MarkApplying, FinalizeEarly, Finish,
         MarkUnconfirmed, AssertOwned, WritePlan, Leased
<1>3. (\E r : Answer(c, r)) \/ (\E p \in Leased : Goto(c, p))
  <2>1. CASE Quarantine(c)
    BY <2>1 DEF Quarantine, Leased
  <2>2. CASE Canonical(c)
    BY <2>2 DEF Canonical, Leased
  <2>3. CASE Ensure(c)
    BY <2>3 DEF Ensure, Leased
  <2>4. CASE Renew(c)
    BY <2>4 DEF Renew, Leased
  <2>5. CASE MarkApplying(c)
    BY <2>5 DEF MarkApplying, Leased
  <2>6. CASE FinalizeEarly(c)
    BY <2>6 DEF FinalizeEarly
  <2>7. CASE Finish(c)
    BY <2>7 DEF Finish, Leased
  <2>8. CASE MarkUnconfirmed(c) \/ AssertOwned(c) \/ WritePlan(c)
    BY <2>8 DEF MarkUnconfirmed, AssertOwned, WritePlan, Leased
  <2> QED
    BY <2>1, <2>2, <2>3, <2>4, <2>5, <2>6, <2>7, <2>8
<1> QED
  BY <1>1, <1>2, <1>3, AnswerMoves, GotoMoves, MovesKeep DEF Place

(* So does a call that talks to Meta. *)
LEMMA RequestKeeps ==
  ASSUME IInv, NEW c \in Call,
         \/ Preflight(c) \/ Guard(c) \/ Guarded(c) \/ ActivateCampaign(c)
         \/ \E o \in Object : \/ ActivateChild(c, o) \/ VerifyActive(c, o)
                             \/ CompensatePause(c, o) \/ VerifyPaused(c, o)
  PROVE  IInv'
<1>1. UNCHANGED lease
  BY DEF Preflight, Guard, Guarded, ActivateCampaign, ActivateChild, VerifyActive,
         CompensatePause, VerifyPaused, Quiet, store
<1>2. pc[c] \in Leased
  BY DEF Preflight, Guard, Guarded, ActivateCampaign, ActivateChild, VerifyActive,
         CompensatePause, VerifyPaused, Leased
<1>3. \/ \E p \in Leased : Goto(c, p)
      \/ \E o, S : \E p \in Leased : Done(c, o, p, S)
      \/ Fails(c)
  <2>1. CASE Preflight(c) \/ Guard(c) \/ Guarded(c) \/ ActivateCampaign(c)
    BY <2>1 DEF Preflight, Guard, Guarded, ActivateCampaign, Post, Leased
  <2>2. ASSUME NEW o \in Object, ActivateChild(c, o)
        PROVE  (\E x, S : \E p \in Leased : Done(c, x, p, S)) \/ Fails(c)
    <3> DEFINE p == IF OwnsCampaign THEN "campaign" ELSE "verify"
    <3>1. Done(c, o, p, Targets) \/ Fails(c)
      BY <2>2 DEF ActivateChild, Post
    <3>2. p \in Leased
      BY DEF Leased
    <3> HIDE DEF p
    <3> QED
      BY <3>1, <3>2
  <2>3. ASSUME NEW o \in Object, VerifyActive(c, o)
        PROVE  \/ \E p \in Leased : Goto(c, p)
               \/ \E x, S : \E p \in Leased : Done(c, x, p, S)
               \/ Fails(c)
    <3>1. Goto(c, "finalize") \/ Done(c, o, "verify", {}) \/ Fails(c)
      BY <2>3 DEF VerifyActive, Succeeded
    <3>2. "finalize" \in Leased /\ "verify" \in Leased
      BY DEF Leased
    <3> QED
      BY <3>1, <3>2
  <2>4. ASSUME NEW o \in Object, CompensatePause(c, o)
        PROVE  \E x, S : \E p \in Leased : Done(c, x, p, S)
    BY <2>4 DEF CompensatePause, Leased
  <2>5. ASSUME NEW o \in Object, VerifyPaused(c, o)
        PROVE  \E p \in Leased : Goto(c, p)
    BY <2>5 DEF VerifyPaused, Leased
  <2> QED
    BY <2>1, <2>2, <2>3, <2>4, <2>5
<1> QED
  BY <1>1, <1>2, <1>3, GotoMoves, WorkMoves, MovesKeep DEF Place

(* A call gives back its own lease and leaves. *)
LEMMA ReleaseKeeps ==
  ASSUME IInv, NEW c \in Call, Release(c)
  PROVE  IInv'
<1>1. pc' = [pc EXCEPT ![c] = "done"] /\ (lease' = Released(c) \/ UNCHANGED lease)
  BY DEF Release, Goto
<1>2. PcOK' /\ pc'[c] = "done" /\ \A d \in Call : d # c => pc'[d] = pc[d]
  BY <1>1 DEF IInv, PcOK, Place, Ended
<1>3. ASSUME NEW d \in Call \ Jobs, pc'[d] \in Leased
      PROVE  lease' = [owner |-> d, live |-> TRUE]
  <2>1. d # c
    BY <1>2, <1>3 DEF Leased
  <2>2. lease = [owner |-> d, live |-> TRUE]
    BY <1>2, <1>3, <2>1 DEF IInv, LeaseHeld
  <2> QED
    BY <1>1, <2>1, <2>2 DEF Released
<1> QED
  BY <1>2, <1>3 DEF IInv, LeaseHeld

(* The client, the queue and a dying process move a call to where it has no
   lease, or start a job. *)
LEMMA EndedKeeps ==
  ASSUME IInv, NEW c \in Call, Again(c) \/ Crash(c)
  PROVE  IInv'
<1>1. UNCHANGED lease
  BY DEF Again, Crash, store
<1>2. Moves(c)
  BY DEF Again, Crash, Moves, Place, Reading, Leased, Ended
<1> QED
  BY <1>1, <1>2, MovesKeep

(* A lease runs out only under a call that has left. *)
LEMMA ExpireKeeps ==
  ASSUME OnTime, IInv, Expire
  PROVE  IInv'
<1>1. UNCHANGED pc /\ pc[lease.owner] \notin Leased
  BY DEF Expire
<1>2. \A d \in Call \ Jobs : pc[d] \notin Leased
  BY <1>1 DEF IInv, LeaseHeld
<1> QED
  BY <1>1, <1>2 DEF IInv, PcOK, LeaseHeld

(* The invariant is inductive. *)
LEMMA IInvHolds == ASSUME OnTime PROVE Spec => []IInv
<1>1. Init => IInv
  BY DEF Init, IInv, PcOK, LeaseHeld, Place, Leased, Ended
<1>2. IInv /\ [Next]_vars => IInv'
  <2> SUFFICES ASSUME IInv, [Next]_vars PROVE IInv'
    OBVIOUS
  <2>1. CASE Expire
    BY <2>1, ExpireKeeps
  <2>2. ASSUME NEW c \in Call, Step(c) \/ Again(c) \/ Crash(c)
        PROVE  IInv'
    BY <2>2, ReadingKeeps, ClaimKeeps, WorkKeeps, RequestKeeps, ReleaseKeeps,
       EndedKeeps DEF Step
  <2>3. CASE UNCHANGED vars
    BY <2>3 DEF vars, IInv, PcOK, LeaseHeld
  <2> QED
    BY <2>1, <2>2, <2>3 DEF Next
<1> QED
  BY <1>1, <1>2, PTL DEF Spec

(* The lease serialises provider execution (claim_meta_publish_plan_execution):
   while every call ends within its lease and no mutate job runs beside them,
   no two calls are between the claim and the recorded outcome at once. *)
THEOREM OneExecutorAlways ==
  ASSUME OnTime, Jobs = {}
  PROVE  Spec => []OneExecutor
<1>1. IInv => OneExecutor
  <2> SUFFICES ASSUME IInv, NEW c \in Call, NEW d \in Call,
                      pc[c] \in Executing, pc[d] \in Executing
               PROVE  c = d
    BY DEF OneExecutor
  <2>1. pc[c] \in Leased /\ pc[d] \in Leased
    BY DEF Executing
  <2>2. lease = [owner |-> c, live |-> TRUE] /\ lease = [owner |-> d, live |-> TRUE]
    BY <2>1 DEF IInv, LeaseHeld
  <2> QED
    BY <2>2
<1> QED
  BY <1>1, IInvHolds, PTL

(* Whatever jobs run: a call of the route or of the publish job is at work only
   while the lease is its own and has not run out. *)
THEOREM LeaseHeldAlways ==
  ASSUME OnTime
  PROVE  Spec => []LeaseHeld
<1>1. IInv => LeaseHeld
  BY DEF IInv
<1> QED
  BY <1>1, IInvHolds, PTL
-----------------------------------------------------------------------------
(* Types.  A call that saw a row knows which: what it claims for is a row. *)

RowsTyped == rows \in [Mutation -> MutationRow] /\ latest \in Mutation \cup {NoRow}
LeaseTyped == lease \in [owner : Call \cup {NoCall}, live : BOOLEAN]
MetaTyped == meta \in [Object -> {"PAUSED", "ACTIVE"}]
SeenRow == \A c \in Call : ctx[c].seen.status # "absent" => ctx[c].latest \in Mutation
CtxTyped == ctx \in [Call -> Context] /\ SeenRow
Counted == faults \in 0 .. MaxFaults /\ crashes \in 0 .. MaxCrashes

Typed ==
  PcOK /\ RowsTyped /\ LeaseTyped /\ shown \in BOOLEAN /\ MetaTyped /\ CtxTyped /\ Counted

LEMMA TypedIsTypeOK == Typed /\ overtaken \in BOOLEAN => TypeOK
BY DEF Typed, TypeOK, PcOK, Place, RowsTyped, LeaseTyped, MetaTyped, CtxTyped, Counted

\* A call's variables change, but not what it read first
Works(c) ==
  \E x \in Context :
    ctx' = [ctx EXCEPT ![c] = x] /\ x.seen = ctx[c].seen /\ x.latest = ctx[c].latest

Went(c) == \E p \in Place : Goto(c, p)

LEMMA WentTyped == ASSUME PcOK, NEW c \in Call, Went(c) PROVE PcOK'
BY DEF PcOK, Went, Goto

LEMMA WorksTyped == ASSUME CtxTyped, NEW c \in Call, Works(c) PROVE CtxTyped'
<1>1. PICK x \in Context :
        ctx' = [ctx EXCEPT ![c] = x] /\ x.seen = ctx[c].seen /\ x.latest = ctx[c].latest
  BY DEF Works
<1>2. ctx' \in [Call -> Context] /\ ctx'[c] = x /\ \A d \in Call \ {c} : ctx'[d] = ctx[d]
  BY <1>1 DEF CtxTyped
<1>3. SeenRow'
  BY <1>1, <1>2 DEF CtxTyped, SeenRow
<1> QED BY <1>2, <1>3 DEF CtxTyped

LEMMA NewTyped ==
  ASSUME CtxTyped, NEW c \in Call, NEW m \in Mutation \cup {NoRow}, NEW r \in MutationRow,
         r.status # "absent" => m \in Mutation,
         ctx' = [ctx EXCEPT ![c] = [NewContext(c) EXCEPT !.latest = m, !.seen = r]]
  PROVE  CtxTyped'
<1> DEFINE x == [NewContext(c) EXCEPT !.latest = m, !.seen = r]
<1>1. x \in Context /\ x.seen = r /\ x.latest = m
  BY ActivationAssumption DEF NewContext, Context, NoMutation, MutationRow, Answers
<1>2. ctx' = [ctx EXCEPT ![c] = x] OBVIOUS
<1> HIDE DEF x
<1>3. ctx' \in [Call -> Context] /\ ctx'[c] = x /\ \A d \in Call \ {c} : ctx'[d] = ctx[d]
  BY <1>1, <1>2 DEF CtxTyped
<1> QED BY <1>1, <1>3 DEF CtxTyped, SeenRow

LEMMA RestartTyped ==
  ASSUME CtxTyped, NEW c \in Call, ctx' = [ctx EXCEPT ![c] = NewContext(c)]
  PROVE  CtxTyped'
<1> DEFINE x == NewContext(c)
<1>1. x \in Context /\ x.seen.status = "absent"
  BY ActivationAssumption DEF NewContext, Context, NoMutation, MutationRow, Answers
<1>2. ctx' = [ctx EXCEPT ![c] = x] OBVIOUS
<1> HIDE DEF x
<1>3. ctx' \in [Call -> Context] /\ ctx'[c] = x /\ \A d \in Call \ {c} : ctx'[d] = ctx[d]
  BY <1>1, <1>2 DEF CtxTyped
<1> QED BY <1>1, <1>3 DEF CtxTyped, SeenRow

LEMMA AnswerTyped ==
  ASSUME CtxTyped, PcOK, NEW c \in Call, NEW r \in Answers, Answer(c, r)
  PROVE  Works(c) /\ Went(c)
<1>1. Went(c) BY DEF Answer, Went, Place, Leased, Ended
<1> DEFINE x == [ctx[c] EXCEPT !.reply = r]
<1>2. x \in Context /\ x.seen = ctx[c].seen /\ x.latest = ctx[c].latest
  BY DEF CtxTyped, Context
<1>3. ctx' = [ctx EXCEPT ![c] = x] BY DEF Answer
<1> QED BY <1>1, <1>2, <1>3 DEF Works

LEMMA TodoTyped ==
  ASSUME CtxTyped, NEW c \in Call, NEW S \in SUBSET Object,
         ctx' = [ctx EXCEPT ![c].todo = S]
  PROVE  Works(c)
<1> DEFINE x == [ctx[c] EXCEPT !.todo = S]
<1>1. x \in Context /\ x.seen = ctx[c].seen /\ x.latest = ctx[c].latest
  BY DEF CtxTyped, Context
<1>2. ctx' = [ctx EXCEPT ![c] = x] OBVIOUS
<1> QED BY <1>1, <1>2 DEF Works

LEMMA RowTyped ==
  ASSUME CtxTyped, NEW c \in Call, NEW m \in Mutation, ctx' = [ctx EXCEPT ![c].row = m]
  PROVE  Works(c)
<1> DEFINE x == [ctx[c] EXCEPT !.row = m]
<1>1. x \in Context /\ x.seen = ctx[c].seen /\ x.latest = ctx[c].latest
  BY DEF CtxTyped, Context
<1>2. ctx' = [ctx EXCEPT ![c] = x] OBVIOUS
<1> QED BY <1>1, <1>2 DEF Works

LEMMA TargetsAreObjects == Targets \subseteq Object /\ Child \subseteq Object /\ Camp \in Object
BY DEF Targets, Object

LEMMA OutcomeTyped ==
  ASSUME NEW s \in {"applied", "failed"}, NEW S \in SUBSET Object
  PROVE  Outcome(s, S) \in MutationRow
BY DEF Outcome, MutationRow

LEMMA WriteTyped ==
  ASSUME RowsTyped, NEW m \in Mutation, NEW r \in MutationRow,
         Write(m, r) \/ NoWrite \/ Finalize(m, r)
  PROVE  RowsTyped'
BY DEF RowsTyped, Write, NoWrite, Finalize

LEMMA StatusTyped ==
  ASSUME RowsTyped, NEW m \in Mutation, NEW s \in {"approved", "applying", "failed"},
         WriteStatus(m, s)
  PROVE  RowsTyped'
<1>1. [rows[m] EXCEPT !.status = s] \in MutationRow BY DEF RowsTyped, MutationRow
<1> QED BY <1>1, WriteTyped DEF WriteStatus

LEMMA ReportedTyped == \A r : Reported(r) \in Answers
BY DEF Reported, Answers

LEMMA FaultTyped ==
  ASSUME Counted, Sure \/ Fault, UNCHANGED crashes
  PROVE  Counted'
BY ActivationAssumption DEF Counted, Sure, Fault

(* The reads, and what starts a call again. *)
LEMMA ReadingTyped ==
  ASSUME Typed, NEW c \in Call, Start(c) \/ ReadExisting(c) \/ StartJob(c) \/ Again(c)
  PROVE  Typed'
<1> USE DEF Typed
<1>1. CASE Start(c)
  <2> DEFINE r == IF latest = NoRow THEN NoMutation ELSE rows[latest]
  <2>1. r \in MutationRow /\ (r.status # "absent" => latest \in Mutation)
    BY DEF RowsTyped, NoMutation, MutationRow
  <2>2. latest \in Mutation \cup {NoRow} BY DEF RowsTyped
  <2>3. \/ \E a \in Answers : Answer(c, a)
        \/ /\ ctx' = [ctx EXCEPT ![c] = [NewContext(c) EXCEPT !.latest = latest, !.seen = r]]
           /\ Goto(c, "existing")
    BY <1>1, ReportedTyped DEF Start
  <2>4. CtxTyped'
    <3> HIDE DEF r
    <3> QED BY <2>1, <2>2, <2>3, AnswerTyped, WorksTyped, NewTyped
  <2>5. PcOK'
    <3>1. Goto(c, "existing") => Went(c) BY DEF Went, Place, Reading
    <3> QED BY <2>3, <3>1, AnswerTyped, WentTyped
  <2> QED BY <1>1, <2>4, <2>5 DEF Start, store, RowsTyped, LeaseTyped, MetaTyped, Counted
<1>2. CASE ReadExisting(c)
  <2> DEFINE r == rows[Own[c]]
  <2>1. r \in MutationRow BY ActivationAssumption DEF RowsTyped
  <2>2. \/ \E a \in Answers : Answer(c, a)
        \/ ctx' = [ctx EXCEPT ![c].mine = r] /\ Goto(c, "claim")
    BY <1>2, ReportedTyped DEF ReadExisting
  <2>3. ASSUME ctx' = [ctx EXCEPT ![c].mine = r] PROVE Works(c)
    <3> DEFINE x == [ctx[c] EXCEPT !.mine = r]
    <3>1. x \in Context /\ x.seen = ctx[c].seen /\ x.latest = ctx[c].latest
      BY <2>1 DEF CtxTyped, Context
    <3>2. ctx' = [ctx EXCEPT ![c] = x] BY <2>3
    <3> QED BY <3>1, <3>2 DEF Works
  <2>4. Goto(c, "claim") => Went(c) BY DEF Went, Place, Reading
  <2>5. CtxTyped' /\ PcOK' BY <2>2, <2>3, <2>4, AnswerTyped, WorksTyped, WentTyped
  <2> QED BY <1>2, <2>5 DEF ReadExisting, store, RowsTyped, LeaseTyped, MetaTyped, Counted
<1>3. CASE StartJob(c)
  <2>1. RowsTyped' BY <1>3, StatusTyped, ActivationAssumption DEF StartJob
  <2>2. CtxTyped' BY <1>3, RestartTyped DEF StartJob
  <2>3. Went(c) BY <1>3 DEF StartJob, Went, Place, Leased
  <2>4. PcOK' BY <2>3, WentTyped
  <2> QED BY <1>3, <2>1, <2>2, <2>4 DEF StartJob, LeaseTyped, MetaTyped, Counted
<1>4. CASE Again(c)
  <2>1. CtxTyped' BY <1>4, RestartTyped DEF Again
  <2>2. Went(c) BY <1>4 DEF Again, Went, Place, Leased, Ended
  <2>3. PcOK' BY <2>2, WentTyped
  <2> QED BY <1>4, <2>1, <2>3 DEF Again, store, RowsTyped, LeaseTyped, MetaTyped, Counted
<1> QED BY <1>1, <1>2, <1>3, <1>4

LEMMA ClaimTyped ==
  ASSUME Typed, NEW c \in Call, Claim(c) \/ ClaimUnanswered(c)
  PROVE  Typed'
<1> USE DEF Typed
<1>1. RowsTyped' /\ shown' \in BOOLEAN /\ MetaTyped'
  BY DEF Claim, ClaimUnanswered, RowsTyped, MetaTyped
<1>2. Counted' BY FaultTyped DEF Claim, ClaimUnanswered
<1>3. LeaseTyped'
  <2>1. UNCHANGED lease \/ lease' = [owner |-> c, live |-> TRUE]
    BY DEF Claim, Claimed, ClaimUnanswered
  <2>2. CASE UNCHANGED lease BY <2>2 DEF LeaseTyped
  <2>3. CASE lease' = [owner |-> c, live |-> TRUE] BY <2>3 DEF LeaseTyped
  <2> QED BY <2>1, <2>2, <2>3
<1>4. \/ \E a \in Answers : Answer(c, a)
      \/ Claimed(c) /\ (Goto(c, "quarantine") \/ Goto(c, "ensure"))
  BY DEF Claim, ClaimUnanswered, Answers
<1>5. ASSUME Claimed(c) PROVE Works(c)
  <2> DEFINE m == IF ctx[c].seen.status = "applying" THEN ctx[c].latest ELSE Own[c]
  <2>1. m \in Mutation BY ActivationAssumption DEF CtxTyped, SeenRow
  <2>2. ctx' = [ctx EXCEPT ![c].row = m] BY <1>5 DEF Claimed
  <2> HIDE DEF m
  <2> QED BY <2>1, <2>2, RowTyped
<1>6. Goto(c, "quarantine") \/ Goto(c, "ensure") => Went(c) BY DEF Went, Place, Leased
<1>7. CtxTyped' /\ PcOK' BY <1>4, <1>5, <1>6, AnswerTyped, WorksTyped, WentTyped
<1> QED BY <1>1, <1>2, <1>3, <1>7

(* Every step of a call at work either answers, or keeps its variables, or
   changes its list of objects or its row. *)
LEMMA WorkTyped ==
  ASSUME Typed, NEW c \in Call,
         \/ Quarantine(c) \/ Canonical(c) \/ Ensure(c) \/ Renew(c)
         \/ MarkApplying(c) \/ FinalizeEarly(c) \/ Finish(c)
         \/ MarkUnconfirmed(c) \/ AssertOwned(c) \/ WritePlan(c) \/ Release(c)
  PROVE  Typed'
<1> USE DEF Typed
<1> DEFINE m == ctx[c].row
<1>0. m \in Mutation /\ ctx[c] \in Context BY DEF CtxTyped, Context
<1>1. MetaTyped' /\ shown' \in BOOLEAN
  BY DEF Quarantine, Canonical, Ensure, Renew, MarkApplying, FinalizeEarly, Finish,
         MarkUnconfirmed, AssertOwned, WritePlan, Release, store, MetaTyped
<1>2. LeaseTyped'
  <2>1. UNCHANGED lease \/ lease' = [owner |-> NoCall, live |-> FALSE]
    BY DEF Quarantine, Canonical, Ensure, Renew, MarkApplying, FinalizeEarly, Finish,
           MarkUnconfirmed, AssertOwned, WritePlan, Release, Released, store
  <2>2. CASE UNCHANGED lease BY <2>2 DEF LeaseTyped
  <2>3. CASE lease' = [owner |-> NoCall, live |-> FALSE] BY <2>3 DEF LeaseTyped
  <2> QED BY <2>1, <2>2, <2>3
<1>3. Counted'
  <2>1. Sure \/ Fault
    BY DEF Quarantine, Canonical, Ensure, Renew, MarkApplying, FinalizeEarly, Finish,
           MarkUnconfirmed, AssertOwned, WritePlan, Release
  <2>2. UNCHANGED crashes
    BY DEF Quarantine, Canonical, Ensure, Renew, MarkApplying, FinalizeEarly, Finish,
           MarkUnconfirmed, AssertOwned, WritePlan, Release
  <2> QED BY <2>1, <2>2, FaultTyped
<1>4. RowsTyped'
  <2>1. Quarantined \in MutationRow BY OutcomeTyped, TargetsAreObjects DEF Quarantined
  <2>2. Outcome("failed", {}) \in MutationRow BY OutcomeTyped
  <2>3. Result(c) \in MutationRow
    <3>1. ctx[c].left \in SUBSET Object BY <1>0 DEF Context
    <3> QED BY <3>1, OutcomeTyped DEF Result
  <2>4. CASE Quarantine(c) BY <1>0, <2>1, <2>4, WriteTyped DEF Quarantine
  <2>5. CASE Canonical(c) \/ Renew(c) \/ AssertOwned(c) \/ WritePlan(c) \/ Release(c)
    BY <2>5 DEF Canonical, Renew, AssertOwned, WritePlan, Release, store, RowsTyped
  <2>6. CASE Ensure(c)
    <3> DEFINE n == IF ctx[c].seen.status = "approved" /\ ctx[c].latest \notin JobRows
                    THEN ctx[c].latest ELSE Own[c]
    <3>1. n \in Mutation BY ActivationAssumption DEF CtxTyped, SeenRow
    <3>2. WriteStatus(n, "approved") \/ NoWrite BY <2>6 DEF Ensure, EnsureApproved
    <3> HIDE DEF n
    <3> QED BY <3>1, <3>2, StatusTyped DEF NoWrite, RowsTyped
  <2>7. CASE MarkApplying(c)
    <3>1. WriteStatus(m, "applying") \/ NoWrite BY <2>7 DEF MarkApplying
    <3> QED BY <1>0, <3>1, StatusTyped DEF NoWrite, RowsTyped
  <2>8. CASE FinalizeEarly(c)
    <3>1. Finalize(m, Outcome("failed", {})) \/ NoWrite \/ WriteStatus(m, "failed")
      BY <2>8 DEF FinalizeEarly
    <3> QED BY <1>0, <2>2, <3>1, WriteTyped, StatusTyped
  <2>9. CASE Finish(c)
    <3>1. Finalize(m, Result(c)) \/ NoWrite BY <2>9 DEF Finish
    <3> QED BY <1>0, <2>3, <3>1, WriteTyped
  <2>10. CASE MarkUnconfirmed(c) BY <1>0, <2>1, <2>10, WriteTyped DEF MarkUnconfirmed
  <2> QED BY <2>4, <2>5, <2>6, <2>7, <2>8, <2>9, <2>10
<1>5. \/ \E a \in Answers : Answer(c, a)
      \/ /\ \E p \in Place : Goto(c, p)
         /\ Keep(c) \/ \E n \in Mutation : ctx' = [ctx EXCEPT ![c].row = n]
  <2>1. CASE Quarantine(c) BY <2>1 DEF Quarantine, Answers, Place, Leased
  <2>2. CASE Canonical(c)
    <3>1. Reported(rows[m]) \in Answers BY ReportedTyped
    <3> QED BY <2>2, <3>1 DEF Canonical, Answers, Place, Leased
  <2>3. CASE Ensure(c)
    <3> DEFINE n == IF ctx[c].seen.status = "approved" /\ ctx[c].latest \notin JobRows
                    THEN ctx[c].latest ELSE Own[c]
    <3>1. n \in Mutation BY ActivationAssumption DEF CtxTyped, SeenRow
    <3>2. \/ Answer(c, "error")
          \/ Goto(c, "renew") /\ ctx' = [ctx EXCEPT ![c].row = n]
      BY <2>3 DEF Ensure
    <3> HIDE DEF n
    <3> QED BY <3>1, <3>2 DEF Answers, Place, Leased
  <2>4. CASE Renew(c) \/ MarkApplying(c) \/ FinalizeEarly(c) \/ Finish(c)
    BY <2>4 DEF Renew, MarkApplying, FinalizeEarly, Finish, Answers, Place, Leased
  <2>5. CASE MarkUnconfirmed(c) \/ WritePlan(c) \/ Release(c)
    BY <2>5 DEF MarkUnconfirmed, WritePlan, Release, Answers, Place, Leased, Ended
  <2>6. CASE AssertOwned(c)
    <3>1. Reported(Result(c)) \in Answers BY ReportedTyped
    <3> QED BY <2>6, <3>1 DEF AssertOwned, Answers, Place, Leased
  <2> QED BY <2>1, <2>2, <2>3, <2>4, <2>5, <2>6
<1>6. CtxTyped' /\ PcOK'
  <2>1. CASE \E a \in Answers : Answer(c, a) BY <2>1, AnswerTyped, WorksTyped, WentTyped
  <2>2. CASE /\ \E p \in Place : Goto(c, p)
             /\ Keep(c) \/ \E n \in Mutation : ctx' = [ctx EXCEPT ![c].row = n]
    <3>1. PcOK' BY <2>2, WentTyped DEF Went
    <3>2. Keep(c) => CtxTyped' BY DEF Keep, CtxTyped, SeenRow
    <3> QED BY <2>2, <3>1, <3>2, RowTyped, WorksTyped
  <2> QED BY <1>5, <2>1, <2>2
<1> QED BY <1>1, <1>2, <1>3, <1>4, <1>6

LEMMA DoneTyped ==
  ASSUME CtxTyped, PcOK, NEW c \in Call, NEW o, NEW p \in Place, NEW S \in SUBSET Object,
         Done(c, o, p, S)
  PROVE  Works(c) /\ Went(c)
<1>1. ctx[c].todo \in SUBSET Object /\ pc[c] \in Place BY DEF CtxTyped, Context, PcOK
<1>2. Went(c) BY <1>1 DEF Done, Went
<1>3. \E T \in SUBSET Object : ctx' = [ctx EXCEPT ![c].todo = T] BY <1>1 DEF Done
<1> QED BY <1>2, <1>3, TodoTyped

LEMMA RequestTyped ==
  ASSUME Typed, NEW c \in Call,
         \/ Preflight(c) \/ Guard(c) \/ Guarded(c) \/ ActivateCampaign(c)
         \/ \E o \in Object : \/ ActivateChild(c, o) \/ VerifyActive(c, o)
                             \/ CompensatePause(c, o) \/ VerifyPaused(c, o)
  PROVE  Typed'
<1> USE DEF Typed
<1>1. UNCHANGED <<store, faults, crashes>>
  BY DEF Preflight, Guard, Guarded, ActivateCampaign, ActivateChild, VerifyActive,
         CompensatePause, VerifyPaused, Quiet
<1>2. MetaTyped'
  <2>1. UNCHANGED meta \/ \E o \in Object : Sent(o, "ACTIVE") \/ Sent(o, "PAUSED")
    BY TargetsAreObjects DEF Preflight, Guard, Guarded, ActivateCampaign, ActivateChild,
       VerifyActive, CompensatePause, VerifyPaused, Post
  <2> QED BY <2>1 DEF Sent, MetaTyped
<1>3. Fails(c) => Works(c) /\ Went(c)
  BY TodoTyped, TargetsAreObjects DEF Fails, Went, Place, Leased
<1>4. Keep(c) => CtxTyped' BY DEF Keep, CtxTyped, SeenRow
<1>5. CtxTyped' /\ PcOK'
  <2>1. CASE Preflight(c) \/ Guard(c) \/ Guarded(c) \/ ActivateCampaign(c)
    <3>1. \/ Fails(c)
          \/ /\ Goto(c, "children") \/ Goto(c, "finalize") \/ Goto(c, "guarded")
                \/ Goto(c, "verify")
             /\ Keep(c) \/ ctx' = [ctx EXCEPT ![c].todo = Child]
      BY <2>1 DEF Preflight, Guard, Guarded, ActivateCampaign, Post
    <3>2. Goto(c, "children") \/ Goto(c, "finalize") \/ Goto(c, "guarded") \/ Goto(c, "verify")
            => Went(c)
      BY DEF Went, Place, Leased
    <3> QED BY <1>3, <1>4, <3>1, <3>2, TodoTyped, TargetsAreObjects, WorksTyped, WentTyped
  <2>2. ASSUME NEW o \in Object, ActivateChild(c, o) \/ CompensatePause(c, o)
        PROVE  CtxTyped' /\ PcOK'
    <3>1. Fails(c) \/ \E p \in {"campaign", "verify", "paused"} : Done(c, o, p, Targets)
      BY <2>2 DEF ActivateChild, CompensatePause, Post
    <3>2. {"campaign", "verify", "paused"} \subseteq Place BY DEF Place, Leased
    <3> QED BY <1>3, <3>1, <3>2, DoneTyped, TargetsAreObjects, WorksTyped, WentTyped
  <2>3. ASSUME NEW o \in Object, VerifyActive(c, o)
        PROVE  CtxTyped' /\ PcOK'
    <3>1. Succeeded(c) \/ Done(c, o, "verify", {}) \/ Fails(c) BY <2>3 DEF VerifyActive
    <3>2. Succeeded(c) => Works(c) /\ Went(c)
      <4> DEFINE x == [ctx[c] EXCEPT !.todo = {}, !.applied = TRUE]
      <4>1. x \in Context /\ x.seen = ctx[c].seen /\ x.latest = ctx[c].latest
        BY DEF CtxTyped, Context
      <4>2. Succeeded(c) => ctx' = [ctx EXCEPT ![c] = x] BY DEF Succeeded
      <4>3. Succeeded(c) => Went(c) BY DEF Succeeded, Went, Place, Leased
      <4> QED BY <4>1, <4>2, <4>3 DEF Works
    <3>3. "verify" \in Place BY DEF Place, Leased
    <3> QED BY <1>3, <3>1, <3>2, <3>3, DoneTyped, WorksTyped, WentTyped
  <2>4. ASSUME NEW o \in Object, VerifyPaused(c, o)
        PROVE  CtxTyped' /\ PcOK'
    <3>1. Went(c) BY <2>4 DEF VerifyPaused, Went, Place, Leased
    <3> DEFINE T == ctx[c].todo \ {o}
    <3>2. PICK L \in SUBSET Object : ctx' = [ctx EXCEPT ![c].todo = T, ![c].left = L]
      <4>1. ctx[c].left \in SUBSET Object BY DEF CtxTyped, Context
      <4>2. PICK ok \in {TRUE, FALSE} :
              ctx' = [ctx EXCEPT ![c].todo = T,
                                 ![c].left = ctx[c].left \cup (IF ok THEN {} ELSE {o})]
        BY <2>4 DEF VerifyPaused
      <4>3. ctx[c].left \cup (IF ok THEN {} ELSE {o}) \in SUBSET Object BY <4>1
      <4> QED BY <4>2, <4>3
    <3> DEFINE x == [ctx[c] EXCEPT !.todo = T, !.left = L]
    <3>3. x \in Context /\ x.seen = ctx[c].seen /\ x.latest = ctx[c].latest
      BY <3>2 DEF CtxTyped, Context
    <3>4. ctx' = [ctx EXCEPT ![c] = x] BY <3>2
    <3>5. Works(c) BY <3>3, <3>4 DEF Works
    <3> QED BY <3>1, <3>5, WorksTyped, WentTyped
  <2> QED BY <2>1, <2>2, <2>3, <2>4
<1> QED BY <1>1, <1>2, <1>5 DEF store, RowsTyped, LeaseTyped, Counted

LEMMA EndTyped ==
  ASSUME Typed, Expire \/ \E c \in Call : Crash(c)
  PROVE  Typed'
<1> USE DEF Typed
<1>1. CASE Expire
  BY <1>1 DEF Expire, PcOK, RowsTyped, LeaseTyped, MetaTyped, CtxTyped, SeenRow, Counted
<1>2. ASSUME NEW c \in Call, Crash(c) PROVE Typed'
  <2> DEFINE x == [ctx[c] EXCEPT !.reply = "none"]
  <2>1. x \in Context /\ x.seen = ctx[c].seen /\ x.latest = ctx[c].latest
    BY DEF CtxTyped, Context, Answers
  <2>2. ctx' = [ctx EXCEPT ![c] = x] BY <1>2 DEF Crash
  <2>3. Works(c) BY <2>1, <2>2 DEF Works
  <2>4. Went(c) BY <1>2 DEF Crash, Went, Place, Ended
  <2>5. Counted' BY <1>2, ActivationAssumption DEF Crash, Counted
  <2> QED BY <1>2, <2>3, <2>4, <2>5, WorksTyped, WentTyped
          DEF Crash, store, RowsTyped, LeaseTyped, MetaTyped
<1> QED BY <1>1, <1>2

LEMMA AlwaysTyped == Spec => []Typed
<1>1. Init => Typed
  <2> SUFFICES ASSUME Init PROVE Typed OBVIOUS
  <2>1. \A c \in Call : NewContext(c) \in Context /\ NewContext(c).seen.status = "absent"
    BY ActivationAssumption DEF NewContext, Context, NoMutation, MutationRow, Answers
  <2>2. CtxTyped BY <2>1 DEF Init, CtxTyped, SeenRow
  <2>3. RowsTyped BY DEF Init, RowsTyped, NoMutation, MutationRow
  <2>4. PcOK /\ MetaTyped BY DEF Init, PcOK, Place, Ended, MetaTyped
  <2>5. LeaseTyped BY DEF Init, LeaseTyped
  <2>6. Counted BY ActivationAssumption DEF Init, Counted
  <2>7. shown \in BOOLEAN BY DEF Init
  <2> QED BY <2>2, <2>3, <2>4, <2>5, <2>6, <2>7 DEF Typed
<1>2. Typed /\ [Next]_vars => Typed'
  <2> SUFFICES ASSUME Typed, [Next]_vars PROVE Typed' OBVIOUS
  <2>1. CASE Expire BY <2>1, EndTyped
  <2>2. ASSUME NEW c \in Call, Step(c) \/ Again(c) \/ Crash(c) PROVE Typed'
    BY <2>2, ReadingTyped, ClaimTyped, WorkTyped, RequestTyped, EndTyped DEF Step
  <2>3. CASE UNCHANGED vars
    BY <2>3 DEF vars, Typed, PcOK, RowsTyped, LeaseTyped, MetaTyped, CtxTyped, SeenRow, Counted
  <2> QED BY <2>1, <2>2, <2>3 DEF Next
<1> QED BY <1>1, <1>2, PTL DEF Spec

\* Only a claim finds that its call was overtaken, and nothing takes that back
LEMMA ClaimsAreOvertaken ==
  ASSUME [Next]_vars
  PROVE  UNCHANGED overtaken \/ \E c \in Call : overtaken' = (overtaken \/ Overtaken(c))
<1>1. CASE Expire \/ UNCHANGED vars BY <1>1 DEF Expire, vars
<1>2. ASSUME NEW c \in Call, Again(c) \/ Crash(c) PROVE UNCHANGED overtaken
  BY <1>2 DEF Again, Crash
<1>3. ASSUME NEW c \in Call, Claim(c)
      PROVE  UNCHANGED overtaken \/ overtaken' = (overtaken \/ Overtaken(c))
  BY <1>3 DEF Claim
<1>4. ASSUME NEW c \in Call, Step(c), ~Claim(c) PROVE UNCHANGED overtaken
  <2>1. CASE Start(c) \/ ReadExisting(c) \/ ClaimUnanswered(c) \/ Quarantine(c) \/ Canonical(c)
    BY <2>1 DEF Start, ReadExisting, ClaimUnanswered, Quarantine, Canonical
  <2>2. CASE Ensure(c) \/ Renew(c) \/ MarkApplying(c) \/ FinalizeEarly(c)
    BY <2>2 DEF Ensure, Renew, MarkApplying, FinalizeEarly
  <2>3. CASE Preflight(c) \/ Guard(c) \/ Guarded(c) \/ ActivateCampaign(c)
    BY <2>3 DEF Preflight, Guard, Guarded, ActivateCampaign, Quiet
  <2>4. CASE \E o \in Object : \/ ActivateChild(c, o) \/ VerifyActive(c, o)
                              \/ CompensatePause(c, o) \/ VerifyPaused(c, o)
    BY <2>4 DEF ActivateChild, VerifyActive, CompensatePause, VerifyPaused, Quiet
  <2>5. CASE Finish(c) \/ MarkUnconfirmed(c) \/ AssertOwned(c) \/ WritePlan(c) \/ Release(c)
             \/ StartJob(c)
    BY <2>5 DEF Finish, MarkUnconfirmed, AssertOwned, WritePlan, Release, StartJob
  <2> QED BY <1>4, <2>1, <2>2, <2>3, <2>4, <2>5 DEF Step
<1> QED BY <1>1, <1>2, <1>3, <1>4 DEF Next

(* Every row, call and counter keeps its range, whatever fails, dies or is
   timed how. *)
THEOREM ActivationTypeCorrect == Spec => []TypeOK
<1>1. Init => overtaken \in BOOLEAN BY DEF Init
<1>2. overtaken \in BOOLEAN /\ [Next]_vars => (overtaken \in BOOLEAN)'
  BY ClaimsAreOvertaken
<1> QED BY <1>1, <1>2, AlwaysTyped, TypedIsTypeOK, PTL DEF Spec

-----------------------------------------------------------------------------
(* The rows and the money, while calls end within their lease (OnTime) and  *)
(* no mutate job runs, until a call claims on reads that an execution has   *)
(* overtaken.  At most one row has begun, the one written last; an object   *)
(* can deliver only under such a row; and a call that claims without having *)
(* seen one finds none.                                                     *)

NoneBegun == \A m \in Mutation : ~Begun(rows[m])
AllActive == \A o \in Targets : meta[o] = "ACTIVE"

Sole == \A m \in Mutation : Begun(rows[m]) => m = latest
Covered == MayDeliver => \E m \in Mutation : Begun(rows[m])
AppliedTrue == \A m \in Mutation : rows[m].status = "applied" => AllActive
RowsTrue == Sole /\ Covered /\ AppliedTrue


\* What a call knows of its row in each stage
Entering == {"ensure", "renew", "apply"}
Requesting == {"preflight", "guard", "guarded", "children", "campaign", "verify", "pause", "paused"}
Trying == Requesting \cup {"early", "finalize"}

Entered(c) == pc[c] \in Entering => NoneBegun
Tried(c) ==
  pc[c] \in Trying =>
    /\ latest = ctx[c].row /\ rows[latest].status = "applying"
    /\ rows[latest].outcome # "unconfirmed"
Owed(c) == pc[c] = "unfinal" => latest = ctx[c].row

\* What it knows of Meta
Untouched(c) == pc[c] \in {"early", "preflight"} => ~MayDeliver
Plain(c) ==
  /\ pc[c] \in Reading \cup Entering \cup (Requesting \ {"paused"}) => ctx[c].left = {}
  /\ pc[c] \in Reading \cup Entering \cup Requesting => ~ctx[c].applied
  /\ pc[c] \in Reading => ~Over(ctx[c].seen)
Listed(c) == pc[c] = "campaign" => ctx[c].todo = Targets
SeenActive(c) == pc[c] = "verify" => \A o \in Targets \ ctx[c].todo : meta[o] = "ACTIVE"
SeenPaused(c) ==
  pc[c] = "paused" =>
    \A o \in Targets : o \in ctx[c].todo \/ o \in ctx[c].left \/ meta[o] = "PAUSED"
Concluded(c) ==
  pc[c] = "finalize" =>
    IF ctx[c].applied THEN AllActive ELSE ctx[c].left = {} => ~MayDeliver
Successful(c) ==
  pc[c] \in {"write", "reconcile"} \/ (pc[c] = "assert" /\ ctx[c].applied) => AllActive

CallOK(c) ==
  /\ Entered(c) /\ Tried(c) /\ Owed(c) /\ Untouched(c) /\ Plain(c) /\ Listed(c)
  /\ SeenActive(c) /\ SeenPaused(c) /\ Concluded(c) /\ Successful(c)

SpendInv == RowsTrue /\ \A c \in Call : CallOK(c)

-----------------------------------------------------------------------------
(* Pieces of steps *)

\* The call's own variables and place change, nobody else's
Alone(c) == \A d \in Call \ {c} : ctx'[d] = ctx[d] /\ pc'[d] = pc[d]

LEMMA AloneIs ==
  ASSUME Typed, NEW c \in Call, Works(c) \/ Keep(c), Went(c)
  PROVE  Alone(c)
<1>1. \A d \in Call \ {c} : pc'[d] = pc[d] BY DEF Went, Goto, Typed, PcOK
<1>2. CASE Keep(c) BY <1>1, <1>2 DEF Keep, Alone
<1>3. CASE Works(c) BY <1>1, <1>3 DEF Works, Alone, Typed, CtxTyped
<1> QED BY <1>2, <1>3

\* One call is leased, and the lease is not free
LEMMA OneLeased ==
  ASSUME Typed, LeaseHeld, Jobs = {}, NEW c \in Call, pc[c] \in Leased
  PROVE  ~Free /\ \A d \in Call \ {c} : pc[d] \notin Leased
<1>1. lease = [owner |-> c, live |-> TRUE] BY DEF LeaseHeld
<1>2. ~Free BY <1>1, ActivationAssumption DEF Free
<1>3. ASSUME NEW d \in Call \ {c}, pc[d] \in Leased PROVE FALSE
  BY <1>1, <1>3 DEF LeaseHeld
<1> QED BY <1>2, <1>3

\* What is said of a call that is not at work is about its reads
LEMMA OutsideOK ==
  ASSUME NEW d \in Call, CallOK(d), UNCHANGED <<pc[d], ctx[d]>>, pc[d] \notin Leased
  PROVE  CallOK(d)'
<1>1. pc'[d] = pc[d] /\ ctx'[d] = ctx[d] OBVIOUS
<1>3. Entered(d)' /\ Tried(d)' /\ Owed(d)' /\ Untouched(d)' /\ Listed(d)' /\ SeenActive(d)'
      /\ SeenPaused(d)' /\ Concluded(d)' /\ Successful(d)'
  BY <1>1 DEF Leased, Entering, Requesting, Trying, Entered, Tried, Owed, Untouched, Listed,
     SeenActive, SeenPaused, Concluded, Successful
<1>4. Plain(d)' BY <1>1 DEF CallOK, Plain
<1> QED BY <1>3, <1>4 DEF CallOK

LEMMA ElsewhereOK ==
  ASSUME NEW d \in Call, pc'[d] \in {"idle", "done", "crashed", "release", "quarantine", "canonical"}
  PROVE  CallOK(d)'
BY DEF CallOK, Reading, Entering, Requesting, Trying, Entered, Tried, Owed, Untouched,
   Plain, Listed, SeenActive, SeenPaused, Concluded, Successful

\* A step of the call at work is about that call and the rows
LEMMA WorkStep ==
  ASSUME Typed, LeaseHeld, Jobs = {}, SpendInv, NEW c \in Call, pc[c] \in Leased,
         UNCHANGED lease, Alone(c), RowsTrue', CallOK(c)'
  PROVE  SpendInv'
<1>1. ASSUME NEW d \in Call \ {c} PROVE CallOK(d)'
  BY OneLeased, OutsideOK DEF SpendInv, Alone
<1> QED BY <1>1 DEF SpendInv

LEMMA AnswerOut ==
  ASSUME Typed, NEW c \in Call, NEW r, Answer(c, r)
  PROVE  CallOK(c)'
<1>1. pc'[c] = "release" \/ pc'[c] = "done" BY DEF Answer, Goto, Typed, PcOK
<1> QED BY <1>1, ElsewhereOK

LEMMA SameRows ==
  ASSUME RowsTrue, UNCHANGED <<rows, latest, meta>>
  PROVE  RowsTrue'
BY DEF RowsTrue, Sole, Covered, AppliedTrue, AllActive, MayDeliver

\* Whatever happens at Meta while a call tries
LEMMA TryingRows ==
  ASSUME Typed, RowsTrue, NEW c \in Call, Tried(c), pc[c] \in Trying, UNCHANGED <<rows, latest>>
  PROVE  RowsTrue'
<1>1. latest \in Mutation /\ rows[latest].status = "applying"
  BY DEF Tried, Typed, CtxTyped, Context
<1>2. Begun(rows[latest]) BY <1>1 DEF Begun
<1>3. Covered' BY <1>1, <1>2 DEF Covered
<1>4. \A m \in Mutation : rows[m].status # "applied"
  BY <1>1 DEF RowsTrue, Sole, Begun
<1>5. AppliedTrue' BY <1>4 DEF AppliedTrue
<1>6. Sole' BY DEF RowsTrue, Sole
<1> QED BY <1>3, <1>5, <1>6 DEF RowsTrue

\* A row is written while no other has begun
LEMMA WriteRows ==
  ASSUME Typed, RowsTrue, NEW m \in Mutation, NEW r \in MutationRow, Write(m, r), UNCHANGED meta,
         \A n \in Mutation \ {m} : ~Begun(rows[n]),
         MayDeliver => Begun(r), r.status = "applied" => AllActive
  PROVE  RowsTrue'
<1>1. rows'[m] = r /\ latest' = m /\ \A n \in Mutation \ {m} : rows'[n] = rows[n]
  BY DEF Write, Typed, RowsTyped
<1>2. Sole' BY <1>1 DEF Sole
<1>3. MayDeliver' = MayDeliver /\ AllActive' = AllActive BY DEF MayDeliver, AllActive
<1>4. Covered' BY <1>1, <1>3 DEF Covered
<1>5. AppliedTrue'
  <2> SUFFICES ASSUME NEW n \in Mutation, rows'[n].status = "applied" PROVE AllActive'
    BY DEF AppliedTrue
  <2>1. n = m \/ (n # m /\ Begun(rows[n])) BY <1>1 DEF Begun
  <2> QED BY <1>1, <1>3, <2>1
<1> QED BY <1>2, <1>4, <1>5 DEF RowsTrue

LEMMA OthersNotBegun ==
  ASSUME Sole, NEW m, latest = m \/ NoneBegun
  PROVE  \A n \in Mutation \ {m} : ~Begun(rows[n])
BY DEF Sole, NoneBegun

LEMMA StatusBegun ==
  ASSUME NEW r \in MutationRow, NEW s \in {"approved", "applying", "applied", "failed"}
  PROVE  LET q == [r EXCEPT !.status = s] IN
         q \in MutationRow /\ q.status = s /\ q.outcome = r.outcome
BY DEF MutationRow

LEMMA QuarantinedBegun ==
  Quarantined \in MutationRow /\ Quarantined.status = "failed" /\ (MayDeliver => Begun(Quarantined))
<1>1. Quarantined \in MutationRow BY OutcomeTyped, TargetsAreObjects DEF Quarantined
<1>2. Quarantined.status = "failed" BY DEF Quarantined, Outcome
<1>3. Targets # {} => Quarantined.outcome = "unconfirmed" BY DEF Quarantined, Outcome
<1>4. MayDeliver => Targets # {} BY DEF MayDeliver, Targets, Object
<1> QED BY <1>1, <1>2, <1>3, <1>4 DEF Begun

LEMMA PausedCannotDeliver ==
  ASSUME MetaTyped, \A o \in Targets : meta[o] = "PAUSED"
  PROVE  ~MayDeliver
BY DEF MayDeliver, Targets, Object

-----------------------------------------------------------------------------
(* Every step keeps it *)

LEMMA StartSpend ==
  ASSUME Typed, SpendInv, Jobs = {}, NEW c \in Call, Start(c) \/ ReadExisting(c)
  PROVE  SpendInv'
<1>1. UNCHANGED <<rows, latest, lease, meta>> BY DEF Start, ReadExisting, store
<1>2. RowsTrue' BY <1>1, SameRows DEF SpendInv
<1>3. NoneBegun' = NoneBegun BY <1>1 DEF NoneBegun
<1>4. pc[c] \notin Leased BY DEF Start, ReadExisting, Leased
<1>5. (\E a : Answer(c, a)) => Alone(c) /\ pc'[c] = "done"
  BY <1>4 DEF Answer, Goto, Alone, Typed, PcOK, CtxTyped
<1>6. Alone(c) /\ CallOK(c)'
  <2>1. CASE \E a : Answer(c, a)
    BY <1>5, <2>1, ElsewhereOK
  <2>2. CASE Start(c) /\ ~\E a : Answer(c, a)
    <3> DEFINE r == IF latest = NoRow THEN NoMutation ELSE rows[latest]
               x == [NewContext(c) EXCEPT !.latest = latest, !.seen = r]
    <3>1. ~Over(r) /\ ctx' = [ctx EXCEPT ![c] = x] /\ Goto(c, "existing")
      BY <2>2 DEF Start
    <3>2. x.seen = r /\ x.mine = NoMutation /\ x.left = {} /\ x.applied = FALSE
      BY DEF NewContext
    <3> HIDE DEF x
    <3>3. ctx'[c] = x /\ pc'[c] = "existing" /\ Alone(c)
      BY <3>1 DEF Goto, Alone, Typed, PcOK, CtxTyped
    <3>6. CallOK(c)'
      BY <3>1, <3>2, <3>3 DEF NoMutation, CallOK, Reading, Entering, Requesting, Trying, Entered,
         Tried, Owed, Untouched, Plain, Listed, SeenActive, SeenPaused, Concluded, Successful
    <3> QED BY <3>3, <3>6
  <2>3. CASE ReadExisting(c) /\ ~\E a : Answer(c, a)
    <3> DEFINE r == rows[Own[c]]
               x == [ctx[c] EXCEPT !.mine = r]
    <3>1. pc[c] = "existing" /\ ctx' = [ctx EXCEPT ![c] = x] /\ Goto(c, "claim")
      BY <2>3 DEF ReadExisting
    <3>2. x.seen = ctx[c].seen /\ x.mine = r /\ x.left = ctx[c].left /\ x.applied = ctx[c].applied
      BY DEF Typed, CtxTyped, Context
    <3> HIDE DEF x
    <3>3. ctx'[c] = x /\ pc'[c] = "claim" /\ Alone(c)
      BY <3>1 DEF Goto, Alone, Typed, PcOK, CtxTyped
    <3>6. ctx[c].left = {} /\ ~ctx[c].applied /\ ~Over(ctx[c].seen)
      BY <3>1 DEF SpendInv, CallOK, Plain, Reading
    <3>7. CallOK(c)'
      BY <3>2, <3>3, <3>6 DEF CallOK, Reading, Entering, Requesting, Trying, Entered,
         Tried, Owed, Untouched, Plain, Listed, SeenActive, SeenPaused, Concluded, Successful
    <3> QED BY <3>3, <3>7
  <2> QED BY <2>1, <2>2, <2>3
<1>7. ASSUME NEW d \in Call \ {c} PROVE CallOK(d)'
  <2>1. ctx'[d] = ctx[d] /\ pc'[d] = pc[d] BY <1>6 DEF Alone
  <2>3. CallOK(d)'
    <3>1. latest' = latest /\ rows' = rows /\ meta' = meta BY <1>1
    <3>2. MayDeliver' = MayDeliver /\ AllActive' = AllActive BY <3>1 DEF MayDeliver, AllActive
    <3>3. CallOK(d) BY DEF SpendInv
    <3> QED BY <1>3, <2>1, <3>1, <3>2, <3>3 DEF CallOK, Entered, Tried, Owed, Untouched,
         Plain, Listed, SeenActive, SeenPaused, Concluded, Successful
  <2> QED BY <2>3
<1> QED BY <1>2, <1>6, <1>7 DEF SpendInv

\* Nothing but one call's place and variables, and the lease, changes
LEMMA QuietStep ==
  ASSUME SpendInv, NEW c \in Call, Alone(c), UNCHANGED <<rows, latest, meta>>,
         pc'[c] \in {"idle", "done", "crashed"}
  PROVE  SpendInv'
<1>1. RowsTrue' BY SameRows DEF SpendInv
<1>2. CallOK(c)' BY ElsewhereOK
<1>3. ASSUME NEW d \in Call \ {c} PROVE CallOK(d)'
  <2>1. ctx'[d] = ctx[d] /\ pc'[d] = pc[d] BY DEF Alone
  <2>2. NoneBegun' = NoneBegun /\ MayDeliver' = MayDeliver /\ AllActive' = AllActive
    BY DEF NoneBegun, MayDeliver, AllActive
  <2>3. CallOK(d) BY DEF SpendInv
  <2> QED BY <2>1, <2>2, <2>3 DEF CallOK, Entered, Tried, Owed, Untouched,
       Plain, Listed, SeenActive, SeenPaused, Concluded, Successful
<1> QED BY <1>1, <1>2, <1>3 DEF SpendInv

LEMMA EndSpend ==
  ASSUME Typed, SpendInv, Jobs = {}, NEW c \in Call, Again(c) \/ Crash(c)
  PROVE  SpendInv'
<1>1. UNCHANGED <<rows, latest, lease, meta>> BY DEF Again, Crash, store
<1>2. pc'[c] \in {"idle", "crashed"} /\ Alone(c)
  BY DEF Again, Crash, Goto, Alone, Typed, PcOK, CtxTyped
<1> QED BY <1>1, <1>2, QuietStep

\* A claim that is not overtaken finds that no row has begun
LEMMA ClaimSpend ==
  ASSUME Typed, LeaseHeld, SpendInv, Jobs = {}, ~overtaken', NEW c \in Call,
         Claim(c) \/ ClaimUnanswered(c)
  PROVE  SpendInv'
<1>1. UNCHANGED <<rows, latest, meta>> /\ pc[c] = "claim" BY DEF Claim, ClaimUnanswered
<1>2. (\E a : Answer(c, a)) => Alone(c) /\ pc'[c] = "done"
  BY <1>1 DEF Answer, Goto, Alone, Typed, PcOK, CtxTyped, Leased
<1>3. CASE \E a : Answer(c, a) BY <1>1, <1>2, <1>3, QuietStep
<1>4. CASE /\ Free /\ Claimed(c) /\ ~Overtaken(c)
           /\ Goto(c, IF Stale(c) THEN "quarantine" ELSE "ensure")
  <2>1. RowsTrue' BY <1>1, SameRows DEF SpendInv
  <2>2. Alone(c) BY <1>4 DEF Claimed, Goto, Alone, Typed, PcOK, CtxTyped
  <2>3. CallOK(c)'
    <3>1. CASE Stale(c)
      <4>1. pc'[c] = "quarantine" BY <1>4, <3>1 DEF Goto, Typed, PcOK
      <4> QED BY <4>1, ElsewhereOK
    <3>2. CASE ~Stale(c)
      <4>1. pc'[c] = "ensure" BY <1>4, <3>2 DEF Goto, Typed, PcOK
      <4>2. NoneBegun
        <5>1. ~Begun(ctx[c].seen)
          BY <1>1, <3>2 DEF SpendInv, CallOK, Plain, Reading, Stale, Over, Begun
        <5> QED BY <1>4, <3>2, <5>1 DEF Overtaken, NoneBegun
      <4>3. NoneBegun' BY <1>1, <4>2 DEF NoneBegun
      <4>4. ctx[c].left = {} /\ ~ctx[c].applied BY <1>1 DEF SpendInv, CallOK, Plain, Reading
      <4>5. ctx'[c].left = {} /\ ~ctx'[c].applied
        BY <1>4, <4>4 DEF Claimed, Typed, CtxTyped, Context
      <4> QED BY <4>1, <4>3, <4>5 DEF CallOK, Reading, Entering, Requesting, Trying, Entered,
           Tried, Owed, Untouched, Plain, Listed, SeenActive, SeenPaused, Concluded, Successful
    <3> QED BY <3>1, <3>2
  <2>4. \A d \in Call : pc[d] \notin Leased BY <1>4, FreeMeansIdle
  <2>5. \A d \in Call \ {c} : CallOK(d)' BY <2>2, <2>4, OutsideOK DEF SpendInv, Alone
  <2> QED BY <2>1, <2>3, <2>5 DEF SpendInv
<1>5. \/ \E a : Answer(c, a)
      \/ /\ Free /\ Claimed(c) /\ ~Overtaken(c)
         /\ Goto(c, IF Stale(c) THEN "quarantine" ELSE "ensure")
  BY DEF Claim, ClaimUnanswered
<1> QED BY <1>3, <1>4, <1>5

LEMMA LeaseSpend ==
  ASSUME Typed, SpendInv, Jobs = {}, Expire \/ \E c \in Call : Release(c)
  PROVE  SpendInv'
<1>1. CASE Expire
  <2>1. UNCHANGED <<rows, latest, meta, pc, ctx>> BY <1>1 DEF Expire
  <2>2. RowsTrue' BY <2>1, SameRows DEF SpendInv
  <2>3. ASSUME NEW d \in Call PROVE CallOK(d)'
    <3>1. NoneBegun' = NoneBegun /\ MayDeliver' = MayDeliver /\ AllActive' = AllActive
      BY <2>1 DEF NoneBegun, MayDeliver, AllActive
    <3>2. CallOK(d) BY DEF SpendInv
    <3> QED BY <2>1, <3>1, <3>2 DEF CallOK, Entered, Tried, Owed, Untouched,
         Plain, Listed, SeenActive, SeenPaused, Concluded, Successful
  <2> QED BY <2>2, <2>3 DEF SpendInv
<1>2. ASSUME NEW c \in Call, Release(c) PROVE SpendInv'
  <2>1. UNCHANGED <<rows, latest, meta, ctx>> /\ pc' = [pc EXCEPT ![c] = "done"]
    BY <1>2 DEF Release, Keep, Goto
  <2>2. Alone(c) /\ pc'[c] = "done" BY <2>1 DEF Alone, Typed, PcOK
  <2> QED BY <2>1, <2>2, QuietStep
<1> QED BY <1>1, <1>2

\* A call that answers leaves the rest to the rows
LEMMA AnswerStep ==
  ASSUME Typed, LeaseHeld, Jobs = {}, SpendInv, NEW c \in Call, pc[c] \in Leased,
         UNCHANGED lease, NEW a, Answer(c, a), RowsTrue'
  PROVE  SpendInv'
<1>1. Alone(c) BY DEF Answer, Goto, Alone, Typed, PcOK, CtxTyped
<1> QED BY <1>1, AnswerOut, WorkStep

\* The call's row, once it is its to write
LEMMA Mine ==
  ASSUME Typed, SpendInv, NEW c \in Call
  PROVE  /\ ctx[c].row \in Mutation
         /\ pc[c] \in Trying \cup {"unfinal"} =>
              \A n \in Mutation \ {ctx[c].row} : ~Begun(rows[n])
         /\ pc[c] \in Entering => NoneBegun /\ ~MayDeliver
<1>1. ctx[c].row \in Mutation BY DEF Typed, CtxTyped, Context
<1>2. pc[c] \in Trying \cup {"unfinal"} => latest = ctx[c].row
  BY DEF SpendInv, CallOK, Tried, Owed
<1>3. pc[c] \in Entering => NoneBegun BY DEF SpendInv, CallOK, Entered
<1>4. NoneBegun => ~MayDeliver BY DEF SpendInv, RowsTrue, Covered, NoneBegun
<1> QED BY <1>1, <1>2, <1>3, <1>4, OthersNotBegun DEF SpendInv, RowsTrue

LEMMA QuarantineSpend ==
  ASSUME Typed, LeaseHeld, Jobs = {}, SpendInv, NEW c \in Call, Quarantine(c) \/ Canonical(c)
  PROVE  SpendInv'
<1> DEFINE m == ctx[c].row
<1>1. m \in Mutation BY Mine
<1>2. UNCHANGED <<lease, meta>> /\ pc[c] \in Leased
  BY DEF Quarantine, Canonical, store, Leased
<1>3. CASE Quarantine(c)
  <2>1. Finalize(m, Quarantined) \/ NoWrite BY <1>3 DEF Quarantine
  <2>2. RowsTrue'
    <3>1. CASE NoWrite BY <1>2, <3>1, SameRows DEF NoWrite, SpendInv
    <3>2. CASE Write(m, Quarantined) /\ rows[m].status = "applying"
      <4>1. latest = m BY <1>1, <3>2 DEF SpendInv, RowsTrue, Sole, Begun
      <4>2. RowsTrue BY DEF SpendInv
      <4>3. \A n \in Mutation \ {m} : ~Begun(rows[n])
        BY <4>1, <4>2, OthersNotBegun DEF RowsTrue
      <4> QED BY <1>1, <1>2, <3>2, <4>2, <4>3, QuarantinedBegun, WriteRows
    <3> QED BY <2>1, <3>1, <3>2 DEF Finalize
  <2>3. (\E a : Answer(c, a)) \/ (Goto(c, "canonical") /\ Keep(c)) BY <1>3 DEF Quarantine
  <2>4. CASE Goto(c, "canonical") /\ Keep(c)
    <3>1. Alone(c) /\ pc'[c] = "canonical" BY <2>4 DEF Goto, Keep, Alone, Typed, PcOK
    <3> QED BY <1>2, <2>2, <3>1, ElsewhereOK, WorkStep
  <2> QED BY <1>2, <2>2, <2>3, <2>4, AnswerStep
<1>4. CASE Canonical(c)
  <2>1. UNCHANGED <<rows, latest>> BY <1>4 DEF Canonical, store
  <2>2. RowsTrue' BY <1>2, <2>1, SameRows DEF SpendInv
  <2>3. \/ \E a : Answer(c, a)
        \/ rows[m].status = "applied" /\ Goto(c, "reconcile") /\ Keep(c)
    BY <1>4 DEF Canonical
  <2>4. CASE rows[m].status = "applied" /\ Goto(c, "reconcile") /\ Keep(c)
    <3>1. Alone(c) /\ pc'[c] = "reconcile" BY <2>4 DEF Goto, Keep, Alone, Typed, PcOK
    <3>2. AllActive BY <1>1, <2>4 DEF SpendInv, RowsTrue, AppliedTrue
    <3>3. AllActive' BY <1>2, <3>2 DEF AllActive
    <3>4. CallOK(c)'
      BY <3>1, <3>3 DEF CallOK, Reading, Entering, Requesting, Trying, Entered,
         Tried, Owed, Untouched, Plain, Listed, SeenActive, SeenPaused, Concluded, Successful
    <3> QED BY <1>2, <2>2, <3>1, <3>4, WorkStep
  <2> QED BY <1>2, <2>2, <2>3, <2>4, AnswerStep
<1> QED BY <1>3, <1>4

LEMMA EnterSpend ==
  ASSUME Typed, LeaseHeld, Jobs = {}, SpendInv, NEW c \in Call, Ensure(c) \/ Renew(c)
  PROVE  SpendInv'
<1>1. UNCHANGED <<lease, meta>> /\ pc[c] \in Leased /\ pc[c] \in Entering
  BY DEF Ensure, Renew, store, Leased, Entering
<1>2. NoneBegun /\ ~MayDeliver BY <1>1, Mine
<1>3. ctx[c].left = {} /\ ~ctx[c].applied BY <1>1 DEF SpendInv, CallOK, Plain
<1>4. RowsTrue' /\ NoneBegun'
  <2>1. CASE UNCHANGED <<rows, latest>>
    BY <1>1, <1>2, <2>1, SameRows DEF SpendInv, NoneBegun
  <2>2. CASE \E n \in Mutation : WriteStatus(n, "approved")
    <3>1. PICK n \in Mutation : WriteStatus(n, "approved") BY <2>2
    <3> DEFINE r == [rows[n] EXCEPT !.status = "approved"]
    <3>2. rows[n] \in MutationRow BY DEF Typed, RowsTyped
    <3>3. r \in MutationRow /\ r.status = "approved" /\ r.outcome = rows[n].outcome
      BY <3>2, StatusBegun
    <3>4. Write(n, r) BY <3>1 DEF WriteStatus
    <3>5. ~Begun(r) BY <1>2, <3>3 DEF NoneBegun, Begun
    <3> HIDE DEF r
    <3>6. RowsTrue'
      BY <1>1, <1>2, <3>3, <3>4, WriteRows DEF SpendInv, NoneBegun
    <3>7. NoneBegun' BY <1>2, <3>4, <3>5 DEF NoneBegun, Write, Typed, RowsTyped
    <3> QED BY <3>6, <3>7
  <2>3. CASE Ensure(c)
    <3> DEFINE n == IF ctx[c].seen.status = "approved" /\ ctx[c].latest \notin JobRows
                    THEN ctx[c].latest ELSE Own[c]
    <3>1. n \in Mutation BY ActivationAssumption DEF Typed, CtxTyped, SeenRow
    <3>2. WriteStatus(n, "approved") \/ NoWrite BY <2>3 DEF Ensure, EnsureApproved
    <3> HIDE DEF n
    <3> QED BY <2>1, <2>2, <3>1, <3>2 DEF NoWrite
  <2>4. CASE Renew(c) BY <2>1, <2>4 DEF Renew, store
  <2> QED BY <2>3, <2>4
<1>5. \/ \E a : Answer(c, a)
      \/ /\ Goto(c, "renew") \/ Goto(c, "apply")
         /\ Keep(c) \/ \E n : ctx' = [ctx EXCEPT ![c].row = n]
  BY DEF Ensure, Renew
<1>6. ASSUME Goto(c, "renew") \/ Goto(c, "apply"),
             Keep(c) \/ \E n : ctx' = [ctx EXCEPT ![c].row = n]
      PROVE  SpendInv'
  <2>1. Alone(c) /\ pc'[c] \in {"renew", "apply"}
    BY <1>6 DEF Goto, Keep, Alone, Typed, PcOK, CtxTyped
  <2>2. ctx'[c].left = {} /\ ~ctx'[c].applied
    BY <1>3, <1>6 DEF Keep, Typed, CtxTyped, Context
  <2>3. CallOK(c)'
    BY <1>4, <2>1, <2>2 DEF CallOK, Reading, Entering, Requesting, Trying, Entered,
       Tried, Owed, Untouched, Plain, Listed, SeenActive, SeenPaused, Concluded, Successful
  <2> QED BY <1>1, <1>4, <2>1, <2>3, WorkStep
<1> QED BY <1>1, <1>4, <1>5, <1>6, AnswerStep

LEMMA ApplySpend ==
  ASSUME Typed, LeaseHeld, Jobs = {}, SpendInv, NEW c \in Call, MarkApplying(c)
  PROVE  SpendInv'
<1> DEFINE m == ctx[c].row
           r == [rows[m] EXCEPT !.status = "applying"]
<1>1. UNCHANGED <<lease, meta>> /\ pc[c] = "apply" /\ pc[c] \in Leased /\ pc[c] \in Entering
  BY DEF MarkApplying, Leased, Entering
<1>2. NoneBegun /\ ~MayDeliver /\ m \in Mutation BY <1>1, Mine
<1>3. ctx[c].left = {} /\ ~ctx[c].applied BY <1>1 DEF SpendInv, CallOK, Plain
<1>4. rows[m] \in MutationRow BY <1>2 DEF Typed, RowsTyped
<1>5. r \in MutationRow /\ r.status = "applying" /\ r.outcome # "unconfirmed"
  <2>1. r \in MutationRow /\ r.status = "applying" /\ r.outcome = rows[m].outcome
    BY <1>4, StatusBegun
  <2>2. rows[m].outcome # "unconfirmed" BY <1>2 DEF NoneBegun, Begun
  <2> QED BY <2>1, <2>2
<1> HIDE DEF r
<1>6. Write(m, r) => RowsTrue'
  BY <1>1, <1>2, <1>5, WriteRows DEF SpendInv, NoneBegun
<1>7. NoWrite => RowsTrue' BY <1>1, SameRows DEF NoWrite, SpendInv
<1>8. \/ (Write(m, r) \/ NoWrite) /\ \E a : Answer(c, a)
      \/ /\ Write(m, r) /\ Keep(c)
         /\ Goto(c, "guard") \/ Goto(c, "preflight") \/ Goto(c, "early")
  BY DEF MarkApplying, WriteStatus, r
<1>9. ASSUME Write(m, r), Keep(c), Goto(c, "guard") \/ Goto(c, "preflight") \/ Goto(c, "early")
      PROVE  SpendInv'
  <2>1. Alone(c) /\ pc'[c] \in {"guard", "preflight", "early"} /\ ctx' = ctx
    BY <1>9 DEF Goto, Keep, Alone, Typed, PcOK
  <2>2. latest' = m /\ rows'[m] = r BY <1>2, <1>9 DEF Write, Typed, RowsTyped
  <2>3. ~MayDeliver' BY <1>1, <1>2 DEF MayDeliver
  <2>4. CallOK(c)'
    BY <1>3, <1>5, <2>1, <2>2, <2>3 DEF CallOK, Reading, Entering, Requesting, Trying, Entered,
       Tried, Owed, Untouched, Plain, Listed, SeenActive, SeenPaused, Concluded, Successful
  <2> QED BY <1>1, <1>6, <1>9, <2>1, <2>4, WorkStep
<1> QED BY <1>1, <1>6, <1>7, <1>8, <1>9, AnswerStep

LEMMA EarlySpend ==
  ASSUME Typed, LeaseHeld, Jobs = {}, SpendInv, NEW c \in Call, FinalizeEarly(c)
  PROVE  SpendInv'
<1> DEFINE m == ctx[c].row
           r == [rows[m] EXCEPT !.status = "failed"]
           q == Outcome("failed", {})
<1>1. UNCHANGED <<lease, meta>> /\ pc[c] = "early" /\ pc[c] \in Leased /\ pc[c] \in Trying
  BY DEF FinalizeEarly, Leased, Trying
<1>2. m \in Mutation /\ \A n \in Mutation \ {m} : ~Begun(rows[n]) BY <1>1, Mine
<1>3. latest = m /\ rows[m].status = "applying" /\ rows[m].outcome # "unconfirmed"
  BY <1>1 DEF SpendInv, CallOK, Tried
<1>4. ~MayDeliver BY <1>1 DEF SpendInv, CallOK, Untouched
<1>5. rows[m] \in MutationRow BY <1>2 DEF Typed, RowsTyped
<1>6. r \in MutationRow /\ r.status = "failed" BY <1>5, StatusBegun
<1>7. q \in MutationRow /\ q.status = "failed" BY OutcomeTyped DEF Outcome
<1>8. Write(m, r) \/ Write(m, q) \/ NoWrite
  BY <1>3 DEF FinalizeEarly, Finalize, Accepts, WriteStatus
<1>9. RowsTrue'
  <2> HIDE DEF m, r, q
  <2>1. RowsTrue BY DEF SpendInv
  <2>2. CASE Write(m, r) BY <1>1, <1>2, <1>4, <1>6, <2>1, <2>2, WriteRows
  <2>3. CASE Write(m, q) BY <1>1, <1>2, <1>4, <1>7, <2>1, <2>3, WriteRows
  <2>4. CASE NoWrite BY <1>1, <2>1, <2>4, SameRows DEF NoWrite
  <2> QED BY <1>8, <2>2, <2>3, <2>4
<1>10. Answer(c, "error") BY DEF FinalizeEarly
<1> QED BY <1>1, <1>9, <1>10, AnswerStep

LEMMA FinishSpend ==
  ASSUME Typed, LeaseHeld, Jobs = {}, SpendInv, NEW c \in Call, Finish(c)
  PROVE  SpendInv'
<1> DEFINE m == ctx[c].row
           r == Result(c)
<1>1. UNCHANGED <<lease, meta, ctx>> /\ pc[c] = "finalize" /\ pc[c] \in Leased /\ pc[c] \in Trying
  BY DEF Finish, Keep, Leased, Trying
<1>2. m \in Mutation /\ \A n \in Mutation \ {m} : ~Begun(rows[n]) BY <1>1, Mine
<1>3. latest = m /\ rows[m].status = "applying"
  BY <1>1 DEF SpendInv, CallOK, Tried
<1>4. IF ctx[c].applied THEN AllActive ELSE ctx[c].left = {} => ~MayDeliver
  BY <1>1 DEF SpendInv, CallOK, Concluded
<1>5. r \in MutationRow /\ (r.status = "applied" => AllActive) /\ (MayDeliver => Begun(r))
  <2>1. ctx[c].left \in SUBSET Object /\ ctx[c].applied \in BOOLEAN
    BY DEF Typed, CtxTyped, Context
  <2>2. r \in MutationRow BY <2>1, OutcomeTyped DEF Result
  <2>3. CASE ctx[c].applied
    BY <1>4, <2>2, <2>3 DEF Result, Outcome, Begun
  <2>4. CASE ~ctx[c].applied
    BY <1>4, <2>2, <2>4 DEF Result, Outcome, Begun
  <2> QED BY <2>1, <2>3, <2>4
<1> HIDE DEF r
<1>6. \/ Write(m, r) /\ (Goto(c, "assert") \/ Goto(c, "unfinal"))
      \/ NoWrite /\ Goto(c, "unfinal")
  BY <1>3 DEF Finish, Finalize, Accepts, r
<1>7. RowsTrue' /\ latest' = m
  <2>1. RowsTrue BY DEF SpendInv
  <2>2. CASE Write(m, r) BY <1>1, <1>2, <1>5, <2>1, <2>2, WriteRows DEF Write
  <2>3. CASE NoWrite BY <1>1, <1>3, <2>1, <2>3, SameRows DEF NoWrite
  <2> QED BY <1>6, <2>2, <2>3
<1>8. Alone(c) /\ pc'[c] \in {"assert", "unfinal"}
  BY <1>1, <1>6 DEF Goto, Alone, Typed, PcOK
<1>9. ctx[c].applied => AllActive' BY <1>1, <1>4 DEF AllActive
<1>10. CallOK(c)'
  BY <1>1, <1>7, <1>8, <1>9 DEF CallOK, Reading, Entering, Requesting, Trying, Entered,
     Tried, Owed, Untouched, Plain, Listed, SeenActive, SeenPaused, Concluded, Successful
<1> QED BY <1>1, <1>7, <1>8, <1>10, WorkStep

LEMMA ReplySpend ==
  ASSUME Typed, LeaseHeld, Jobs = {}, SpendInv, NEW c \in Call,
         MarkUnconfirmed(c) \/ AssertOwned(c) \/ WritePlan(c)
  PROVE  SpendInv'
<1> DEFINE m == ctx[c].row
<1>1. UNCHANGED <<lease, meta>> /\ pc[c] \in Leased
  BY DEF MarkUnconfirmed, AssertOwned, WritePlan, store, Leased
<1>2. RowsTrue BY DEF SpendInv
<1>3. CASE MarkUnconfirmed(c)
  <2>1. m \in Mutation /\ \A n \in Mutation \ {m} : ~Begun(rows[n])
    BY <1>3, Mine DEF MarkUnconfirmed
  <2>2. Write(m, Quarantined) \/ NoWrite BY <1>3 DEF MarkUnconfirmed
  <2>3. Write(m, Quarantined) => RowsTrue'
    BY <1>1, <1>2, <2>1, QuarantinedBegun, WriteRows
  <2>4. NoWrite => RowsTrue' BY <1>1, <1>2, SameRows DEF NoWrite
  <2>5. Answer(c, "error") BY <1>3 DEF MarkUnconfirmed
  <2> QED BY <1>1, <2>2, <2>3, <2>4, <2>5, AnswerStep
<1>4. CASE AssertOwned(c) \/ WritePlan(c)
  <2>1. UNCHANGED <<rows, latest>> BY <1>4 DEF AssertOwned, WritePlan, store
  <2>2. RowsTrue' BY <1>1, <1>2, <2>1, SameRows
  <2>3. \/ \E a : Answer(c, a)
        \/ pc[c] = "assert" /\ ctx[c].applied /\ Goto(c, "write") /\ Keep(c)
    BY <1>4 DEF AssertOwned, WritePlan
  <2>4. CASE pc[c] = "assert" /\ ctx[c].applied /\ Goto(c, "write") /\ Keep(c)
    <3>1. Alone(c) /\ pc'[c] = "write" BY <2>4 DEF Goto, Keep, Alone, Typed, PcOK
    <3>2. AllActive' BY <1>1, <2>4 DEF SpendInv, CallOK, Successful, AllActive
    <3>3. CallOK(c)'
      BY <3>1, <3>2 DEF CallOK, Reading, Entering, Requesting, Trying, Entered,
         Tried, Owed, Untouched, Plain, Listed, SeenActive, SeenPaused, Concluded, Successful
    <3> QED BY <1>1, <2>2, <3>1, <3>3, WorkStep
  <2> QED BY <1>1, <2>2, <2>3, <2>4, AnswerStep
<1> QED BY <1>3, <1>4

\* A request: the rows stay as they are, and what the call knows is enough
LEMMA RequestStep ==
  ASSUME Typed, LeaseHeld, Jobs = {}, SpendInv, NEW c \in Call, pc[c] \in Requesting,
         UNCHANGED <<rows, latest, lease>>, Alone(c),
         pc'[c] \in Requesting \cup {"finalize"}, ctx'[c].row = ctx[c].row,
         /\ Untouched(c)' /\ Plain(c)' /\ Listed(c)'
         /\ SeenActive(c)' /\ SeenPaused(c)' /\ Concluded(c)'
  PROVE  SpendInv'
<1>1. pc[c] \in Trying /\ pc[c] \in Leased BY DEF Trying, Requesting, Leased
<1>2. Tried(c) BY DEF SpendInv, CallOK
<1>3. RowsTrue' BY <1>1, <1>2, TryingRows DEF SpendInv
<1>4. Tried(c)' BY <1>1, <1>2 DEF Tried
<1>5. Entered(c)' /\ Owed(c)' /\ Successful(c)'
  BY DEF Requesting, Entering, Entered, Owed, Successful
<1>6. CallOK(c)' BY <1>4, <1>5 DEF CallOK
<1> QED BY <1>1, <1>3, <1>6, WorkStep

\* What a request that is not the last of its kind leaves of the call
LEMMA PlainNow ==
  ASSUME SpendInv, NEW c \in Call, pc[c] \in Requesting
  PROVE  ~ctx[c].applied /\ (pc[c] # "paused" => ctx[c].left = {})
BY DEF SpendInv, CallOK, Plain

\* A request that fails
LEMMA FailsSpend ==
  ASSUME Typed, LeaseHeld, Jobs = {}, SpendInv, NEW c \in Call, pc[c] \in Requesting \ {"paused"},
         UNCHANGED <<rows, latest, lease>>, Fails(c)
  PROVE  SpendInv'
<1>1. Alone(c) /\ pc'[c] = "pause" /\ ctx'[c].row = ctx[c].row /\ ctx'[c].left = ctx[c].left
      /\ ctx'[c].applied = ctx[c].applied
  BY DEF Fails, Goto, Alone, Typed, PcOK, CtxTyped, Context
<1>2. ~ctx[c].applied /\ ctx[c].left = {} BY PlainNow
<1>3. Untouched(c)' /\ Plain(c)' /\ Listed(c)' /\ SeenActive(c)' /\ SeenPaused(c)' /\ Concluded(c)'
  BY <1>1, <1>2 DEF Untouched, Plain, Listed, SeenActive, SeenPaused, Concluded, Reading
<1> QED BY <1>1, <1>3, RequestStep DEF Requesting

LEMMA GuardSpend ==
  ASSUME Typed, LeaseHeld, Jobs = {}, SpendInv, NEW c \in Call,
         Preflight(c) \/ Guard(c) \/ Guarded(c) \/ ActivateCampaign(c)
  PROVE  SpendInv'
<1>1. UNCHANGED <<rows, latest, lease>> /\ pc[c] \in Requesting \ {"paused"}
  BY DEF Preflight, Guard, Guarded, ActivateCampaign, Quiet, store, Requesting
<1>2. ~ctx[c].applied /\ ctx[c].left = {} BY <1>1, PlainNow
<1>3. CASE Fails(c) BY <1>1, <1>3, FailsSpend
<1>4. CASE Goto(c, "children") /\ ctx' = [ctx EXCEPT ![c].todo = Child]
  <2>1. Alone(c) /\ pc'[c] = "children" /\ ctx'[c].row = ctx[c].row /\ ctx'[c].left = ctx[c].left
        /\ ctx'[c].applied = ctx[c].applied
    BY <1>4 DEF Goto, Alone, Typed, PcOK, CtxTyped, Context
  <2>2. Untouched(c)' /\ Plain(c)' /\ Listed(c)' /\ SeenActive(c)' /\ SeenPaused(c)' /\ Concluded(c)'
    BY <1>2, <2>1 DEF Untouched, Plain, Listed, SeenActive, SeenPaused, Concluded, Reading
  <2> QED BY <1>1, <2>1, <2>2, RequestStep DEF Requesting
<1>5. CASE Preflight(c) /\ Goto(c, "finalize") /\ Keep(c)
  <2>1. Alone(c) /\ pc'[c] = "finalize" /\ ctx' = ctx
    BY <1>5 DEF Goto, Keep, Alone, Typed, PcOK
  <2>2. ~MayDeliver /\ UNCHANGED meta BY <1>5 DEF Preflight, SpendInv, CallOK, Untouched
  <2>3. ~MayDeliver' BY <2>2 DEF MayDeliver
  <2>4. Untouched(c)' /\ Plain(c)' /\ Listed(c)' /\ SeenActive(c)' /\ SeenPaused(c)' /\ Concluded(c)'
    BY <1>2, <2>1, <2>3 DEF Untouched, Plain, Listed, SeenActive, SeenPaused, Concluded,
       Reading, Entering, Requesting
  <2> QED BY <1>1, <2>1, <2>4, RequestStep
<1>6. CASE Goto(c, "guarded") /\ Keep(c)
  <2>1. Alone(c) /\ pc'[c] = "guarded" /\ ctx' = ctx
    BY <1>6 DEF Goto, Keep, Alone, Typed, PcOK
  <2>2. Untouched(c)' /\ Plain(c)' /\ Listed(c)' /\ SeenActive(c)' /\ SeenPaused(c)' /\ Concluded(c)'
    BY <1>2, <2>1 DEF Untouched, Plain, Listed, SeenActive, SeenPaused, Concluded, Reading
  <2> QED BY <1>1, <2>1, <2>2, RequestStep DEF Requesting
<1>7. CASE pc[c] = "campaign" /\ Goto(c, "verify") /\ Keep(c)
  <2>1. Alone(c) /\ pc'[c] = "verify" /\ ctx' = ctx
    BY <1>7 DEF Goto, Keep, Alone, Typed, PcOK
  <2>2. ctx[c].todo = Targets BY <1>7 DEF SpendInv, CallOK, Listed
  <2>3. Untouched(c)' /\ Plain(c)' /\ Listed(c)' /\ SeenActive(c)' /\ SeenPaused(c)' /\ Concluded(c)'
    BY <1>2, <2>1, <2>2 DEF Untouched, Plain, Listed, SeenActive, SeenPaused, Concluded, Reading
  <2> QED BY <1>1, <2>1, <2>3, RequestStep DEF Requesting
<1> QED BY <1>3, <1>4, <1>5, <1>6, <1>7 DEF Preflight, Guard, Guarded, ActivateCampaign, Post

LEMMA DoneIs ==
  ASSUME Typed, NEW c \in Call, NEW o, NEW p, NEW S, Done(c, o, p, S), pc[c] \in Place
  PROVE  /\ Alone(c)
         /\ ctx'[c].row = ctx[c].row /\ ctx'[c].left = ctx[c].left
         /\ ctx'[c].applied = ctx[c].applied
         /\ \/ pc'[c] = p /\ ctx'[c].todo = S
            \/ pc'[c] = pc[c] /\ ctx'[c].todo = ctx[c].todo \ {o}
BY DEF Done, Goto, Alone, Typed, PcOK, CtxTyped, Context

LEMMA ChildSpend ==
  ASSUME Typed, LeaseHeld, Jobs = {}, SpendInv, NEW c \in Call, NEW o \in Object,
         ActivateChild(c, o) \/ CompensatePause(c, o)
  PROVE  SpendInv'
<1>1. UNCHANGED <<rows, latest, lease>> /\ pc[c] \in {"children", "pause"}
  BY DEF ActivateChild, CompensatePause, Quiet, store
<1>2. ~ctx[c].applied /\ ctx[c].left = {} BY <1>1, PlainNow DEF Requesting
<1>3. CASE Fails(c) BY <1>1, <1>3, FailsSpend DEF Requesting
<1>4. ASSUME NEW p \in {"campaign", "verify", "paused"}, Done(c, o, p, Targets)
      PROVE  SpendInv'
  <2>1. pc[c] \in Place BY DEF Typed, PcOK
  <2>2. Alone(c) /\ ctx'[c].row = ctx[c].row /\ ~ctx'[c].applied /\ ctx'[c].left = {}
        /\ (pc'[c] \in {"children", "pause"} \/ (pc'[c] = p /\ ctx'[c].todo = Targets))
    BY <1>1, <1>2, <1>4, <2>1, DoneIs
  <2>3. Untouched(c)' /\ Plain(c)' /\ Listed(c)' /\ SeenActive(c)' /\ SeenPaused(c)' /\ Concluded(c)'
    BY <2>2 DEF Untouched, Plain, Listed, SeenActive, SeenPaused, Concluded, Reading
  <2>4. pc'[c] \in Requesting BY <2>2 DEF Requesting
  <2> QED BY <1>1, <2>2, <2>3, <2>4, RequestStep DEF Requesting
<1>5. Fails(c) \/ \E p \in {"campaign", "verify", "paused"} : Done(c, o, p, Targets)
  BY DEF ActivateChild, CompensatePause, Post
<1> QED BY <1>3, <1>4, <1>5

LEMMA VerifySpend ==
  ASSUME Typed, LeaseHeld, Jobs = {}, SpendInv, NEW c \in Call, NEW o \in Object,
         VerifyActive(c, o)
  PROVE  SpendInv'
<1>1. UNCHANGED <<rows, latest, lease, meta>> /\ pc[c] = "verify" /\ pc[c] \in Requesting
  BY DEF VerifyActive, Quiet, store, Requesting
<1>2. ~ctx[c].applied /\ ctx[c].left = {} BY <1>1, PlainNow
<1>3. CASE Fails(c) BY <1>1, <1>3, FailsSpend
<1>4. \A u \in Targets \ ctx[c].todo : meta[u] = "ACTIVE"
  BY <1>1 DEF SpendInv, CallOK, SeenActive
<1>5. CASE meta[o] = "ACTIVE" /\ ctx[c].todo = {o} /\ Succeeded(c)
  <2>1. Alone(c) /\ pc'[c] = "finalize" /\ ctx'[c].row = ctx[c].row /\ ctx'[c].applied
    BY <1>5 DEF Succeeded, Goto, Alone, Typed, PcOK, CtxTyped, Context
  <2>2. AllActive BY <1>4, <1>5 DEF AllActive
  <2>3. AllActive' BY <1>1, <2>2 DEF AllActive
  <2>4. Untouched(c)' /\ Plain(c)' /\ Listed(c)' /\ SeenActive(c)' /\ SeenPaused(c)' /\ Concluded(c)'
    BY <2>1, <2>3 DEF Untouched, Plain, Listed, SeenActive, SeenPaused, Concluded, Reading,
       Entering, Requesting
  <2> QED BY <1>1, <2>1, <2>4, RequestStep
<1>6. CASE meta[o] = "ACTIVE" /\ ctx[c].todo # {o} /\ Done(c, o, "verify", {})
  <2>1. pc[c] \in Place BY DEF Typed, PcOK
  <2>2. o \in ctx[c].todo BY DEF VerifyActive
  <2>3. ctx[c].todo \ {o} # {} BY <1>6, <2>2
  <2>4. Goto(c, pc[c]) /\ ctx' = [ctx EXCEPT ![c].todo = ctx[c].todo \ {o}]
    BY <1>6, <2>3 DEF Done
  <2>5. Alone(c) /\ pc'[c] = "verify" /\ ctx'[c].row = ctx[c].row /\ ctx'[c].left = ctx[c].left
        /\ ctx'[c].applied = ctx[c].applied /\ ctx'[c].todo = ctx[c].todo \ {o}
    BY <1>1, <2>4 DEF Goto, Alone, Typed, PcOK, CtxTyped, Context
  <2>6. \A u \in Targets \ ctx'[c].todo : meta'[u] = "ACTIVE" BY <1>1, <1>4, <1>6, <2>5
  <2>7. Untouched(c)' /\ Plain(c)' /\ Listed(c)' /\ SeenActive(c)' /\ SeenPaused(c)' /\ Concluded(c)'
    BY <1>2, <2>5, <2>6 DEF Untouched, Plain, Listed, SeenActive, SeenPaused, Concluded, Reading
  <2> QED BY <1>1, <2>5, <2>7, RequestStep
<1> QED BY <1>3, <1>5, <1>6 DEF VerifyActive

LEMMA PausedSpend ==
  ASSUME Typed, LeaseHeld, Jobs = {}, SpendInv, NEW c \in Call, NEW o \in Object,
         VerifyPaused(c, o)
  PROVE  SpendInv'
<1>1. UNCHANGED <<rows, latest, lease, meta>> /\ pc[c] = "paused" /\ pc[c] \in Requesting
  BY DEF VerifyPaused, Quiet, store, Requesting
<1>2. ~ctx[c].applied BY <1>1, PlainNow
<1>3. \A u \in Targets : u \in ctx[c].todo \/ u \in ctx[c].left \/ meta[u] = "PAUSED"
  BY <1>1 DEF SpendInv, CallOK, SeenPaused
<1> DEFINE T == ctx[c].todo \ {o}
<1>4. PICK L : /\ L = ctx[c].left \cup {o} \/ (L = ctx[c].left /\ meta[o] = "PAUSED")
               /\ ctx' = [ctx EXCEPT ![c].todo = T, ![c].left = L]
               /\ Goto(c, IF T = {} THEN "finalize" ELSE "paused")
  <2>1. PICK ok \in {TRUE, FALSE} :
          /\ ok => ConfirmsPaused(o)
          /\ ctx' = [ctx EXCEPT ![c].todo = T,
                                ![c].left = ctx[c].left \cup (IF ok THEN {} ELSE {o})]
          /\ Goto(c, IF T = {} THEN "finalize" ELSE "paused")
    BY DEF VerifyPaused
  <2>2. CASE ok
    <3>1. ctx[c].left \cup (IF ok THEN {} ELSE {o}) = ctx[c].left BY <2>2
    <3> QED BY <2>1, <2>2, <3>1 DEF ConfirmsPaused
  <2>3. CASE ~ok
    <3>1. ctx[c].left \cup (IF ok THEN {} ELSE {o}) = ctx[c].left \cup {o} BY <2>3
    <3> QED BY <2>1, <3>1
  <2> QED BY <2>2, <2>3
<1>5. Alone(c) /\ ctx'[c].row = ctx[c].row /\ ctx'[c].applied = ctx[c].applied
      /\ ctx'[c].todo = T /\ ctx'[c].left = L
      /\ pc'[c] = (IF T = {} THEN "finalize" ELSE "paused")
  BY <1>4 DEF Goto, Alone, Typed, PcOK, CtxTyped, Context
<1>6. \A u \in Targets : u \in T \/ u \in L \/ meta[u] = "PAUSED" BY <1>3, <1>4
<1>7. T = {} /\ L = {} => ~MayDeliver BY <1>6, PausedCannotDeliver DEF Typed
<1>8. MayDeliver' = MayDeliver BY <1>1 DEF MayDeliver
<1> HIDE DEF T
<1>9. Untouched(c)' /\ Plain(c)' /\ Listed(c)' /\ SeenActive(c)' /\ SeenPaused(c)' /\ Concluded(c)'
  BY <1>1, <1>2, <1>5, <1>6, <1>7, <1>8 DEF Untouched, Plain, Listed, SeenActive, SeenPaused,
     Concluded, Reading, Entering, Requesting
<1>10. pc'[c] \in Requesting \cup {"finalize"} BY <1>5 DEF Requesting
<1> QED BY <1>1, <1>5, <1>9, <1>10, RequestStep

-----------------------------------------------------------------------------
(* The theorems *)

UntilOvertaken == ~overtaken => SpendInv
FullInv == Typed /\ IInv /\ UntilOvertaken

\* Once a call has been overtaken, one has been
LEMMA OnlyOvertaken == [Next]_vars /\ ~overtaken' => ~overtaken
BY ClaimsAreOvertaken

LEMMA FullInvInit == Init => SpendInv
<1> SUFFICES ASSUME Init PROVE SpendInv OBVIOUS
<1>1. \A m \in Mutation : ~Begun(rows[m]) BY DEF Init, NoMutation, Begun
<1>2. \A m \in Mutation : rows[m].status # "applied" BY DEF Init, NoMutation
<1>3. ~MayDeliver BY DEF Init, MayDeliver, Object
<1>4. RowsTrue BY <1>1, <1>2, <1>3 DEF RowsTrue, Sole, Covered, AppliedTrue
<1>5. ASSUME NEW c \in Call PROVE CallOK(c)
  BY DEF Init, CallOK, Reading, Entering, Requesting, Trying, Entered,
     Tried, Owed, Untouched, Plain, Listed, SeenActive, SeenPaused, Concluded, Successful
<1> QED BY <1>4, <1>5 DEF SpendInv

LEMMA FullInvStep ==
  ASSUME OnTime, Jobs = {}, FullInv, [Next]_vars, ~overtaken'
  PROVE  SpendInv'
<1>0. ~overtaken BY OnlyOvertaken
<1>1. Typed /\ LeaseHeld /\ SpendInv BY <1>0 DEF FullInv, IInv, UntilOvertaken
<1>2. CASE Expire BY <1>1, <1>2, LeaseSpend
<1>3. ASSUME NEW c \in Call, Step(c) PROVE SpendInv'
  <2>1. CASE Start(c) \/ ReadExisting(c) BY <1>1, <2>1, StartSpend
  <2>2. CASE Claim(c) \/ ClaimUnanswered(c) BY <1>1, <2>2, ClaimSpend
  <2>3. CASE Quarantine(c) \/ Canonical(c) BY <1>1, <2>3, QuarantineSpend
  <2>4. CASE Ensure(c) \/ Renew(c) BY <1>1, <2>4, EnterSpend
  <2>5. CASE MarkApplying(c) BY <1>1, <2>5, ApplySpend
  <2>6. CASE FinalizeEarly(c) BY <1>1, <2>6, EarlySpend
  <2>7. CASE Preflight(c) \/ Guard(c) \/ Guarded(c) \/ ActivateCampaign(c)
    BY <1>1, <2>7, GuardSpend
  <2>8. CASE \E o \in Object : ActivateChild(c, o) \/ CompensatePause(c, o)
    BY <1>1, <2>8, ChildSpend
  <2>9. CASE \E o \in Object : VerifyActive(c, o) BY <1>1, <2>9, VerifySpend
  <2>10. CASE \E o \in Object : VerifyPaused(c, o) BY <1>1, <2>10, PausedSpend
  <2>11. CASE Finish(c) BY <1>1, <2>11, FinishSpend
  <2>12. CASE MarkUnconfirmed(c) \/ AssertOwned(c) \/ WritePlan(c) BY <1>1, <2>12, ReplySpend
  <2>13. CASE Release(c) BY <1>1, <2>13, LeaseSpend
  <2>14. ~StartJob(c) BY DEF StartJob
  <2> QED BY <1>3, <2>1, <2>2, <2>3, <2>4, <2>5, <2>6, <2>7, <2>8, <2>9, <2>10, <2>11, <2>12,
           <2>13, <2>14 DEF Step
<1>4. ASSUME NEW c \in Call, Again(c) \/ Crash(c) PROVE SpendInv' BY <1>1, <1>4, EndSpend
<1>5. CASE UNCHANGED vars
  <2>1. RowsTrue' BY <1>1, <1>5, SameRows DEF vars, SpendInv
  <2>2. NoneBegun' = NoneBegun /\ MayDeliver' = MayDeliver /\ AllActive' = AllActive
    BY <1>5 DEF vars, NoneBegun, MayDeliver, AllActive
  <2>3. ASSUME NEW c \in Call PROVE CallOK(c)'
    <3>1. CallOK(c) BY <1>1 DEF SpendInv
    <3> QED BY <1>5, <2>2, <3>1 DEF vars, CallOK, Entered, Tried, Owed, Untouched,
         Plain, Listed, SeenActive, SeenPaused, Concluded, Successful
  <2> QED BY <2>1, <2>3 DEF SpendInv
<1> QED BY <1>2, <1>3, <1>4, <1>5 DEF Next

LEMMA AlwaysFullInv == ASSUME OnTime, Jobs = {} PROVE Spec => []FullInv
<1>1. Spec => []Typed /\ []IInv BY AlwaysTyped, IInvHolds, PTL
<1>2. Typed /\ IInv /\ UntilOvertaken /\ [Next]_vars => UntilOvertaken'
  BY FullInvStep DEF FullInv, UntilOvertaken
<1>3. Init => UntilOvertaken BY FullInvInit DEF UntilOvertaken
<1>4. Spec => []UntilOvertaken BY <1>1, <1>2, <1>3, PTL DEF Spec
<1> QED BY <1>1, <1>4, PTL DEF FullInv

(* Nothing is spent in silence (the applying row, its quarantine and the
   compensation): until a call is overtaken, while Meta may deliver a call is
   at work or a row says so. *)
THEOREM NeverSpendsInSilence ==
  ASSUME OnTime, Jobs = {}
  PROVE  Spec => []NoSilentSpend
<1>1. FullInv => NoSilentSpend
  BY DEF FullInv, UntilOvertaken, SpendInv, RowsTrue, Covered, NoSilentSpend, Begun
<1> QED BY <1>1, AlwaysFullInv, PTL


(* The only way to a replay: once a mutation is applied or quarantined, no call
   writes ACTIVE again unless some call has claimed on reads that an execution
   had overtaken.  The only requests that write it are those of an executor, whose
   own row is applying, and no other row has begun.  Crashes, lost answers, leases
   nobody released and the race for the claim do not lead there. *)
THEOREM NeverReplays ==
  ASSUME OnTime, Jobs = {}
  PROVE  Spec => NoReplay
<1>1. ASSUME FullInv, ~overtaken, [Next]_vars, NEW o \in Object, meta[o] = "PAUSED", meta'[o] = "ACTIVE",
             NEW m \in Mutation
      PROVE  ~Settled(rows[m])
  <2>1. Typed /\ SpendInv BY <1>1 DEF FullInv, UntilOvertaken
  <2>2. PICK c \in Call : pc[c] \in {"children", "campaign"}
    <3>1. ~UNCHANGED meta BY <1>1
    <3>2. \A u \in Object : ~(meta' = [meta EXCEPT ![u] = "PAUSED"])
      BY <1>1, <2>1 DEF Typed, MetaTyped
    <3>3. Camp \in Object BY DEF Object
    <3>4. PICK c \in Call : Step(c) \/ Again(c) \/ Crash(c)
      BY <1>1, <3>1 DEF Next, Expire, vars
    <3>5. ActivateCampaign(c) \/ \E u \in Object : ActivateChild(c, u)
      BY <3>1, <3>2, <3>3, <3>4
         DEF Step, Again, Crash, store, Start, ReadExisting, Claim, ClaimUnanswered, Quarantine,
             Canonical, Ensure, Renew, MarkApplying, FinalizeEarly, Preflight, Guard, Guarded,
             VerifyActive, CompensatePause, VerifyPaused, Finish, MarkUnconfirmed, AssertOwned,
             WritePlan, Release, StartJob, Post, Sent
    <3> QED BY <3>5 DEF ActivateCampaign, ActivateChild
  <2>3. rows[latest].status = "applying" BY <2>1, <2>2 DEF SpendInv, CallOK, Tried, Trying, Requesting
  <2>4. Settled(rows[m]) => m = latest BY <2>1 DEF SpendInv, RowsTrue, Sole, Begun, Settled
  <2> QED BY <2>3, <2>4 DEF Settled
<1>2. FullInv /\ [Next]_vars =>
        [\A o \in Object : meta[o] = "PAUSED" /\ meta'[o] = "ACTIVE"
           => overtaken \/ \A m \in Mutation : ~Settled(rows[m])]_vars
  BY <1>1
<1> QED BY <1>2, AlwaysFullInv, PTL DEF Spec, NoReplay

\* No row of this step says confirmed_paused anew while an object can deliver
Confirms ==
  \A m \in Mutation :
    rows'[m].outcome = "confirmed_paused" /\ rows[m].outcome # "confirmed_paused" => ~MayDeliver

LEMMA WriteConfirms ==
  ASSUME Typed, NEW m \in Mutation, NEW r, Write(m, r) \/ NoWrite \/ Finalize(m, r),
         r.outcome = "confirmed_paused" => ~MayDeliver
  PROVE  Confirms
BY DEF Confirms, Write, NoWrite, Finalize, Typed, RowsTyped

LEMMA StatusConfirms ==
  ASSUME Typed, NEW m \in Mutation, NEW s, WriteStatus(m, s)
  PROVE  Confirms
<1> DEFINE r == [rows[m] EXCEPT !.status = s]
<1>1. r.outcome = rows[m].outcome BY DEF Typed, RowsTyped, MutationRow
<1>2. rows' = [rows EXCEPT ![m] = r] BY DEF WriteStatus, Write
<1> HIDE DEF r
<1>3. rows'[m] = r /\ \A n \in Mutation \ {m} : rows'[n] = rows[n]
  BY <1>2 DEF Typed, RowsTyped
<1> QED BY <1>1, <1>3 DEF Confirms

(* Until a call is overtaken, a receipt that says confirmed_paused is true when it
   is written: a call that sent nothing found no object delivering, and one that sent something read
   every object back. *)
THEOREM ConfirmedAreTrue ==
  ASSUME OnTime, Jobs = {}
  PROVE  Spec => ConfirmedMeansPaused
<1>1. ASSUME FullInv, ~overtaken, [Next]_vars PROVE Confirms
  <2>1. Typed /\ SpendInv BY <1>1 DEF FullInv, UntilOvertaken
  <2>2. CASE UNCHANGED rows BY <2>2 DEF Confirms
  <2>3. CASE ~UNCHANGED rows
    <3>1. PICK c \in Call : \/ Quarantine(c) \/ Ensure(c) \/ MarkApplying(c) \/ FinalizeEarly(c)
                            \/ Finish(c) \/ MarkUnconfirmed(c)
      BY <1>1, <2>3
         DEF Next, Expire, vars, Step, Again, Crash, store, Start, ReadExisting, Claim,
             ClaimUnanswered, Canonical, Renew, Preflight, Guard, Guarded, ActivateChild,
             ActivateCampaign, VerifyActive, CompensatePause, VerifyPaused, AssertOwned,
             WritePlan, Release, StartJob, Quiet
    <3> DEFINE m == ctx[c].row
    <3>2. m \in Mutation BY <2>1 DEF Typed, CtxTyped, Context
    <3>3. Quarantined.outcome = "confirmed_paused" => ~MayDeliver
      BY DEF Quarantined, Outcome, MayDeliver, Targets, Object
    <3>4. CASE Quarantine(c)
      <4>1. NoWrite \/ Finalize(m, Quarantined) BY <3>4 DEF Quarantine
      <4> HIDE DEF m
      <4> QED BY <2>1, <3>2, <3>3, <4>1, WriteConfirms
    <3>5. CASE MarkUnconfirmed(c)
      <4>1. NoWrite \/ Write(m, Quarantined) BY <3>5 DEF MarkUnconfirmed
      <4> HIDE DEF m
      <4> QED BY <2>1, <3>2, <3>3, <4>1, WriteConfirms
    <3>6. CASE Ensure(c)
      <4> DEFINE n == IF ctx[c].seen.status = "approved" /\ ctx[c].latest \notin JobRows
                      THEN ctx[c].latest ELSE Own[c]
      <4>1. n \in Mutation BY <2>1, ActivationAssumption DEF Typed, CtxTyped, SeenRow
      <4>2. WriteStatus(n, "approved") \/ NoWrite BY <3>6 DEF Ensure, EnsureApproved
      <4> HIDE DEF n
      <4> QED BY <2>1, <2>3, <4>1, <4>2, StatusConfirms DEF NoWrite
    <3>7. CASE MarkApplying(c)
      <4>1. WriteStatus(m, "applying") \/ NoWrite BY <3>7 DEF MarkApplying
      <4> HIDE DEF m
      <4> QED BY <2>1, <2>3, <3>2, <4>1, StatusConfirms DEF NoWrite
    <3>8. CASE FinalizeEarly(c)
      <4>1. ~MayDeliver BY <2>1, <3>8 DEF FinalizeEarly, SpendInv, CallOK, Untouched
      <4> QED BY <4>1 DEF Confirms
    <3>9. CASE Finish(c)
      <4>1. Concluded(c) /\ pc[c] = "finalize" BY <2>1, <3>9 DEF Finish, SpendInv, CallOK
      <4>2. Result(c).outcome = "confirmed_paused" => ~MayDeliver
        BY <4>1 DEF Result, Outcome, Concluded
      <4>3. NoWrite \/ Finalize(m, Result(c)) BY <3>9 DEF Finish
      <4> HIDE DEF m
      <4> QED BY <2>1, <3>2, <4>2, <4>3, WriteConfirms
    <3> QED BY <3>1, <3>4, <3>5, <3>6, <3>7, <3>8, <3>9
  <2> QED BY <2>2, <2>3
<1>2. FullInv /\ [Next]_vars =>
        [\A m \in Mutation :
           rows'[m].outcome = "confirmed_paused" /\ rows[m].outcome # "confirmed_paused"
             => overtaken \/ ~MayDeliver]_vars
  BY <1>1 DEF Confirms
<1> QED BY <1>2, AlwaysFullInv, PTL DEF Spec, ConfirmedMeansPaused

\* Nobody is told "activated" by this step unless every object is active
Told ==
  \A c \in Call : ctx'[c].reply = "activated" /\ ctx[c].reply # "activated" => AllActive

LEMMA AnswerTold ==
  ASSUME Typed, NEW c \in Call, NEW r, Answer(c, r), r = "activated" => AllActive
  PROVE  Told
BY DEF Told, Answer, Typed, CtxTyped, Context

LEMMA SilentTold ==
  ASSUME Typed, NEW c \in Call, NEW x, ctx' = [ctx EXCEPT ![c] = x],
         x.reply \in {ctx[c].reply, "none"}
  PROVE  Told
BY DEF Told, Typed, CtxTyped

LEMMA AppliedRow ==
  ASSUME SpendInv, NEW m \in Mutation, Reported(rows[m]) = "activated"
  PROVE  AllActive
BY DEF SpendInv, RowsTrue, AppliedTrue, Reported

LEMMA ReadingTold ==
  ASSUME Typed, SpendInv, Jobs = {}, NEW c \in Call,
         Start(c) \/ ReadExisting(c) \/ Claim(c) \/ ClaimUnanswered(c) \/ Again(c) \/ Crash(c)
  PROVE  Told
<1>1. CASE Start(c)
  <2> DEFINE r == IF latest = NoRow THEN NoMutation ELSE rows[latest]
             x == [NewContext(c) EXCEPT !.latest = latest, !.seen = r]
  <2>1. (Over(r) /\ Answer(c, Reported(r))) \/ ctx' = [ctx EXCEPT ![c] = x] BY <1>1 DEF Start
  <2>2. Over(r) => latest \in Mutation /\ r = rows[latest]
    BY DEF Over, NoMutation, Typed, RowsTyped
  <2>3. Over(r) /\ Reported(r) = "activated" => AllActive BY <2>2, AppliedRow
  <2>4. x.reply = "none" BY DEF NewContext
  <2> HIDE DEF r, x
  <2> QED BY <2>1, <2>3, <2>4, AnswerTold, SilentTold
<1>2. CASE ReadExisting(c)
  <2> DEFINE r == rows[Own[c]]
             x == [ctx[c] EXCEPT !.mine = r]
  <2>1. Answer(c, Reported(r)) \/ ctx' = [ctx EXCEPT ![c] = x] BY <1>2 DEF ReadExisting
  <2>2. Reported(r) = "activated" => AllActive BY AppliedRow, ActivationAssumption
  <2>3. x.reply = ctx[c].reply BY DEF Typed, CtxTyped, Context
  <2> HIDE DEF r, x
  <2> QED BY <2>1, <2>2, <2>3, AnswerTold, SilentTold
<1>3. CASE Claim(c) \/ ClaimUnanswered(c)
  <2> DEFINE x == [ctx[c] EXCEPT !.row = IF ctx[c].seen.status = "applying"
                                         THEN ctx[c].latest ELSE Own[c]]
  <2>1. Answer(c, "activating") \/ Answer(c, "error") \/ ctx' = [ctx EXCEPT ![c] = x]
    BY <1>3 DEF Claim, ClaimUnanswered, Claimed
  <2>2. x.reply = ctx[c].reply BY DEF Typed, CtxTyped, Context
  <2> HIDE DEF x
  <2> QED BY <2>1, <2>2, AnswerTold, SilentTold
<1>4. CASE Again(c)
  <2>1. NewContext(c).reply = "none" BY DEF NewContext
  <2> QED BY <1>4, <2>1, SilentTold DEF Again
<1>5. CASE Crash(c)
  <2> DEFINE x == [ctx[c] EXCEPT !.reply = "none"]
  <2>1. x.reply = "none" BY DEF Typed, CtxTyped, Context
  <2>2. ctx' = [ctx EXCEPT ![c] = x] BY <1>5 DEF Crash
  <2> HIDE DEF x
  <2> QED BY <2>1, <2>2, SilentTold
<1> QED BY <1>1, <1>2, <1>3, <1>4, <1>5

LEMMA WorkTold ==
  ASSUME Typed, SpendInv, Jobs = {}, NEW c \in Call,
         \/ Quarantine(c) \/ Canonical(c) \/ Ensure(c) \/ Renew(c) \/ MarkApplying(c)
         \/ FinalizeEarly(c) \/ Finish(c) \/ MarkUnconfirmed(c) \/ AssertOwned(c)
         \/ WritePlan(c) \/ Release(c)
  PROVE  Told
<1>1. CallOK(c) /\ ctx[c].row \in Mutation BY DEF SpendInv, Typed, CtxTyped, Context
<1>2. \A r \in {"unknown", "error", "paused"} : Answer(c, r) => Told
  BY AnswerTold
<1>3. Keep(c) => Told BY DEF Keep, Told
<1>4. CASE Canonical(c)
  <2>1. \/ Keep(c) \/ Answer(c, "error")
        \/ rows[ctx[c].row].status = "failed" /\ Answer(c, Reported(rows[ctx[c].row]))
    BY <1>4 DEF Canonical
  <2>2. rows[ctx[c].row].status = "failed" => Reported(rows[ctx[c].row]) # "activated"
    BY DEF Reported
  <2> QED BY <1>2, <1>3, <2>1, <2>2, AnswerTold
<1>5. CASE Ensure(c)
  <2> DEFINE n == IF ctx[c].seen.status = "approved" /\ ctx[c].latest \notin JobRows
                  THEN ctx[c].latest ELSE Own[c]
             x == [ctx[c] EXCEPT !.row = n]
  <2>1. Answer(c, "error") \/ ctx' = [ctx EXCEPT ![c] = x] BY <1>5 DEF Ensure
  <2>2. x.reply = ctx[c].reply BY DEF Typed, CtxTyped, Context
  <2> HIDE DEF x
  <2> QED BY <1>2, <2>1, <2>2, SilentTold
<1>6. CASE WritePlan(c)
  <2>1. AllActive BY <1>1, <1>6 DEF WritePlan, CallOK, Successful
  <2> QED BY <2>1 DEF Told
<1>7. CASE Quarantine(c) \/ Renew(c) \/ MarkApplying(c) \/ FinalizeEarly(c) \/ Finish(c)
           \/ MarkUnconfirmed(c) \/ Release(c)
  BY <1>2, <1>3, <1>7 DEF Quarantine, Renew, MarkApplying, FinalizeEarly, Finish,
     MarkUnconfirmed, Release
<1>8. CASE AssertOwned(c)
  BY <1>2, <1>3, <1>8 DEF AssertOwned
<1> QED BY <1>4, <1>5, <1>6, <1>7, <1>8

LEMMA RequestTold ==
  ASSUME Typed, NEW c \in Call,
         \/ Preflight(c) \/ Guard(c) \/ Guarded(c) \/ ActivateCampaign(c)
         \/ \E o \in Object : ActivateChild(c, o) \/ VerifyActive(c, o)
         \/ \E o \in Object : CompensatePause(c, o) \/ VerifyPaused(c, o)
  PROVE  Told
<1>1. ASSUME NEW S, ctx' = [ctx EXCEPT ![c].todo = S] PROVE Told
  BY <1>1 DEF Told, Typed, CtxTyped, Context
<1>2. ASSUME NEW S, NEW L, ctx' = [ctx EXCEPT ![c].todo = S, ![c].left = L] PROVE Told
  BY <1>2 DEF Told, Typed, CtxTyped, Context
<1>3. ASSUME NEW S, NEW b, ctx' = [ctx EXCEPT ![c].todo = S, ![c].applied = b] PROVE Told
  BY <1>3 DEF Told, Typed, CtxTyped, Context
<1>4. Keep(c) \/ Fails(c) \/ Succeeded(c) => Told
  BY <1>1, <1>3 DEF Keep, Told, Fails, Succeeded
<1>5. \A o, p, S : Done(c, o, p, S) => Told BY <1>1 DEF Done
<1>6. CASE Preflight(c) \/ Guard(c) \/ Guarded(c) \/ ActivateCampaign(c)
  BY <1>1, <1>4, <1>6 DEF Preflight, Guard, Guarded, ActivateCampaign, Post
<1>7. CASE \E o \in Object : ActivateChild(c, o) \/ VerifyActive(c, o) \/ CompensatePause(c, o)
  BY <1>4, <1>5, <1>7 DEF ActivateChild, VerifyActive, CompensatePause, Post
<1>8. CASE \E o \in Object : VerifyPaused(c, o)
  BY <1>2, <1>8 DEF VerifyPaused
<1> QED BY <1>6, <1>7, <1>8

(* Until a call is overtaken, "activated" is answered only while every object the
   plan owns is active: a call that answers it has read each of them back, or found
   an applied row, and nobody pauses an object under an applied row. *)
THEOREM ActivatedIsTold ==
  ASSUME OnTime, Jobs = {}
  PROVE  Spec => ActivatedIsTrue
<1>1. ASSUME FullInv, ~overtaken, [Next]_vars PROVE Told
  <2>1. Typed /\ SpendInv BY <1>1 DEF FullInv, UntilOvertaken
  <2>2. CASE UNCHANGED ctx BY <2>2 DEF Told
  <2>3. CASE ~UNCHANGED ctx
    <3>1. PICK c \in Call : Step(c) \/ Again(c) \/ Crash(c)
      BY <1>1, <2>3 DEF Next, Expire, vars
    <3>2. ~StartJob(c) BY DEF StartJob
    <3> QED BY <2>1, <3>1, <3>2, ReadingTold, WorkTold, RequestTold DEF Step
  <2> QED BY <2>2, <2>3
<1>2. FullInv /\ [Next]_vars =>
        [\A c \in Call : ctx'[c].reply = "activated" /\ ctx[c].reply # "activated"
           => overtaken \/ \A o \in Targets : meta[o] = "ACTIVE"]_vars
  BY <1>1 DEF Told, AllActive
<1> QED BY <1>2, AlwaysFullInv, PTL DEF Spec, ActivatedIsTrue

===============================================================================
