-------------------------------- MODULE Billing --------------------------------
(***************************************************************************)
(* Stripe events and the billing columns of one workspace: deliveries that *)
(* are repeated and out of order, handlers that claim an event, write the  *)
(* row behind a high-water mark and a trigger, grant the credits of a paid *)
(* period and settle the receipt; an administrator's reconciliation; the   *)
(* reservations that stand in a grant's way; and the Mautic jobs that      *)
(* announce a transition, whose guard is read before they send.            *)
(*                                                                         *)
(* Webhook events are numbers in the order in which Stripe made them;      *)
(* "at" is their created time, in which several may agree.  A              *)
(* reconciliation is an event of our own, "at" being when it is asked for: *)
(* its content is read from Stripe first, and then stamped with the time.  *)
(* An event of a time after MaxTime never happens.                         *)
(*                                                                         *)
(* Abstractions.  One workspace with one subscription, resolved by every   *)
(* event (an invoice that cannot be linked yet is a failed step) and with  *)
(* a billing address.  A wallet stays active until the next paid period    *)
(* supersedes it (a period is granted before it is over); whether a        *)
(* reservation is outstanding on it is all that is kept of its balance.    *)
(* What an announcement writes is left out: it is sent or not.             *)
(* billing_payment_recovery_required and billing_reconciliation_required   *)
(* decide nothing and are left out, as are offer acceptance, funnel events *)
(* and the copies of invoice details.                                      *)
(*                                                                         *)
(* A definition whose comment begins with "Slip" is not part of the model. *)
(***************************************************************************)
EXTENDS LeasedInbox, Naturals

CONSTANTS
  Webhook,     \* events Stripe sends
  Scripts,     \* the contents they may have
  Impatient,   \* events Stripe may repeat while an attempt is unfinished
  MaxTime,     \* bound on the clock
  MaxFaults    \* bound on failed steps, crashes and leases outlived

VARIABLES
  what,      \* the content of each event
  ws,        \* the workspace's billing columns
  credits,   \* grants made for an event's invoice
  wallet,    \* period_start of the active paid wallet
  held,      \* whether a reservation is outstanding on the active wallet
  mail,      \* the mautic_sync job of each stage
  cleared,   \* stages an execution of the job has cleared and not yet sent
  told,      \* stages Mautic has been told of
  shown,     \* stages the row has shown since they were asked for
  at,        \* where each handler is, its event and the contact it read
  hushed,    \* events acknowledged while an earlier attempt was unfinished
  written,   \* events whose patch reached the row
  now, faults

row == <<ws, written>>
grant == <<credits, wallet, held>>
sending == <<cleared, told>>
post == <<mail, shown, sending>>
clock == <<what, now>>
vars == <<inbox, row, grant, post, at, hushed, clock, faults>>

Kinds == {"checkout", "subscription", "deleted", "paid", "free", "failed", "refund",
          "partial", "dispute", "won", "other"}
Statuses == {"none", "trialing", "active", "past_due", "canceled"}
Access == {"unbilled", "trialing", "paid", "payment_recovery", "canceled",
           "refunded", "disputed"}
Risk == {"none", "refunded", "disputed"}
Stages == {"paid", "cancelled", "trial_ended", "payment_failed"}

\* What reserve_workspace_credits refuses
Suspended == {"payment_recovery", "refunded", "disputed"}

Content == [kind : Kinds, at : Nat, status : Statuses, cancel : BOOLEAN,
            period : Nat]

ASSUME BillingAssumption ==
  /\ MaxTime \in Nat /\ MaxFaults \in Nat
  /\ Webhook \subseteq Event /\ Impatient \subseteq Webhook
  /\ Event \subseteq Nat \ {0}
  /\ Scripts \subseteq [Event -> Content]
  /\ \A c \in Scripts : \A e \in Event :
       /\ c[e].kind = "subscription" => c[e].status # "none"
       /\ c[e].kind = "deleted" => c[e].status = "canceled"
  /\ Final = {"applied", "ignored"}

Reconciliation == Event \ Webhook

Row == [status : Statuses, cancel : BOOLEAN, access : Access, risk : Risk,
        period : Nat, high : Nat, by : Event \cup {0}]
Contact == [status : Statuses, cancel : BOOLEAN, high : Nat]
Mail == [state : {"none", "open", "closed"}, for : Event \cup {0}]
Steps == {"idle", "fetched", "read", "stage", "update", "grant", "applied", "ignored",
          "failing"}

Handler == [step : Steps, on : Event \cup {0}, seen : Contact]

TypeOK ==
  /\ InboxTypeOK
  /\ what \in [Event -> Content]
  /\ ws \in Row
  /\ credits \in [Event -> Nat] /\ wallet \in Nat /\ held \in BOOLEAN
  /\ mail \in [Stages -> Mail]
  /\ cleared \subseteq Stages /\ told \subseteq Stages /\ shown \subseteq Stages
  /\ at \in [Attempt -> Handler]
  /\ hushed \subseteq Event /\ written \subseteq Event
  /\ now \in 0 .. MaxTime /\ faults \in 0 .. MaxFaults

NoContact == [status |-> "none", cancel |-> FALSE, high |-> 0]

Idle == [step |-> "idle", on |-> 0, seen |-> NoContact]

Init ==
  /\ InboxInit
  /\ what \in Scripts
  /\ ws = [status |-> "none", cancel |-> FALSE, access |-> "unbilled", risk |-> "none",
           period |-> 0, high |-> 0, by |-> 0]
  /\ credits = [e \in Event |-> 0] /\ wallet = 0 /\ held = FALSE
  /\ mail = [s \in Stages |-> [state |-> "none", for |-> 0]]
  /\ cleared = {} /\ told = {} /\ shown = {}
  /\ at = [a \in Attempt |-> Idle]
  /\ hushed = {} /\ written = {}
  /\ now = 0 /\ faults = 0

-----------------------------------------------------------------------------
(* Handlers *)

Working(a, s) == at[a].step = s

Enter(a, e, s, c) == at' = [at EXCEPT ![a] = [step |-> s, on |-> e, seen |-> c]]
Goto(a, s) == Enter(a, at[a].on, s, NoContact)
End(a) == at' = [at EXCEPT ![a] = Idle]

Fault == faults < MaxFaults /\ faults' = faults + 1

\* The call is answered and the handler goes on, or its error is reported
Proceed(a, s, c) ==
  \/ Enter(a, at[a].on, s, c) /\ UNCHANGED faults
  \/ Goto(a, "failing") /\ Fault

Snapshot(e) == what[e].kind \in {"subscription", "deleted"}
Invoice(e) == what[e].kind \in {"paid", "free"}

FirstStep(e) ==
  CASE Snapshot(e) \/ what[e].kind = "failed" -> "read"
    [] what[e].kind = "other" -> "ignored"
    [] OTHER -> "update"

Sent(e) == e \in Webhook /\ what[e].at <= now

\* Stripe delivers an event, for the first time or again, and it is claimed
Deliver(a, e) ==
  /\ Working(a, "idle") /\ Sent(e)
  /\ ClaimReceipt(e, a)
  /\ Enter(a, e, FirstStep(e), NoContact)
  /\ UNCHANGED <<row, grant, post, hushed, clock, faults>>

\* Not claimed: a duplicate, answered 200, and so not sent again.  That of a
\* settled event changes nothing.
Duplicate(e) ==
  /\ e \in Impatient /\ Sent(e) /\ ~Claimable(e) /\ ~Settled(e)
  /\ hushed' = hushed \cup {e}
  /\ UNCHANGED <<inbox, row, grant, post, at, clock, faults>>

\* Stripe's own state of the subscription: its last snapshot so far
Issued == { e \in Webhook : Snapshot(e) /\ what[e].at <= now }
Latest(e) == e \in Issued /\ \A f \in Issued : f <= e

\* POST /reconcile: retrieveStripeSubscription ...
Fetch(a, e) ==
  /\ Working(a, "idle") /\ e \in Reconciliation /\ receipt[e] = "new"
  /\ what[e].at <= now
  /\ \A b \in Attempt : at[b].on # e
  /\ \E f \in Event : Latest(f) /\ what' = [what EXCEPT ![e] = what[f]]
  /\ Enter(a, e, "fetched", NoContact)
  /\ UNCHANGED <<inbox, row, grant, post, hushed, now, faults>>

\* ... then the clock is read and the event claimed
Stamp(a) ==
  LET e == at[a].on
  IN /\ Working(a, "fetched")
     /\ what' = [what EXCEPT ![e] = [kind |-> "subscription", at |-> now,
                   status |-> what[e].status, cancel |-> what[e].cancel,
                   period |-> what[e].period]]
     /\ ClaimReceipt(e, a)
     /\ Goto(a, "read")
     /\ UNCHANGED <<row, grant, post, hushed, now, faults>>

\* findBillingContacts
ReadContact(a) ==
  /\ Working(a, "read")
  /\ Proceed(a, "stage", [status |-> ws.status, cancel |-> ws.cancel, high |-> ws.high])
  /\ UNCHANGED <<inbox, row, grant, post, hushed, clock>>

\* The stages a handler's event announces to the contact it read
Announces(e, c) ==
  IF what[e].kind = "failed" THEN {"payment_failed"}
  ELSE IF (what[e].kind = "deleted" /\ c.status # "canceled" /\ ~c.cancel)
          \/ (what[e].cancel /\ ~c.cancel)
  THEN {"cancelled"}
  ELSE IF what[e].status = "active" /\ c.status \in {"none", "trialing"} THEN {"paid"}
  ELSE IF c.status = "trialing" /\ what[e].status # "trialing" THEN {"trial_ended"}
  ELSE {}

\* What the row shows (billingStageStillRelevant)
StillRelevant(s) ==
  CASE s = "paid" -> ws.status = "active"
    [] s = "cancelled" -> ws.cancel \/ ws.status = "canceled"
    [] s = "trial_ended" -> ws.status \notin {"none", "trialing"}
    [] s = "payment_failed" -> ws.access = "payment_recovery"

\* Only of a contact whose row is not ahead of the event.  The job's dedupe
\* key names the stage and the subscription, and is a permanent receipt.
AskStage(a) ==
  LET e == at[a].on
      c == at[a].seen
      stages == IF c.high <= what[e].at THEN Announces(e, c) ELSE {}
      new == { s \in stages : mail[s].state = "none" }
  IN /\ Working(a, "stage")
     /\ mail' = [s \in Stages |->
                   IF s \in new THEN [state |-> "open", for |-> e] ELSE mail[s]]
     /\ shown' = shown \cup { s \in new : StillRelevant(s) }
     /\ Proceed(a, "update", NoContact)
     /\ UNCHANGED <<inbox, row, grant, sending, hushed, clock>>

-----------------------------------------------------------------------------
(* The workspace row: updateWorkspace under enforce_billing_risk_precedence *)

AccessForStatus(s) ==
  CASE s = "trialing" -> "trialing"
    [] s = "active" -> "paid"
    [] s = "canceled" -> "canceled"
    [] s = "past_due" -> "payment_recovery"
    [] OTHER -> "unbilled"

\* Columns an event's patch does not name keep their value
TrialCheckout(e) == what[e].kind = "checkout" /\ what[e].status = "trialing"
StatusOf(e) == IF Snapshot(e) \/ TrialCheckout(e) THEN what[e].status ELSE ws.status
CancelOf(e) == IF Snapshot(e) THEN what[e].cancel ELSE ws.cancel
PeriodOf(e) == IF Snapshot(e) THEN what[e].period ELSE ws.period

AccessOf(e) ==
  CASE Snapshot(e) -> AccessForStatus(what[e].status)
    [] TrialCheckout(e) -> "trialing"
    [] what[e].kind = "paid" -> "paid"
    [] what[e].kind \in {"failed", "won"} -> "payment_recovery"
    [] what[e].kind = "refund" -> "refunded"
    [] what[e].kind = "dispute" -> "disputed"
    [] OTHER -> ws.access

RiskOf(e) ==
  CASE what[e].kind = "paid" -> "none"
    [] what[e].kind = "refund" -> "refunded"
    [] what[e].kind \in {"dispute", "won"} -> "disputed"
    [] OTHER -> ws.risk

\* Slip: without the trigger
UnguardedAccess(e) == AccessOf(e)

\* The trigger: a latched risk that the update does not change keeps access
GuardedAccess(e) ==
  IF /\ ws.risk # "none" /\ RiskOf(e) = ws.risk
     /\ AccessOf(e) \notin {"refunded", "disputed"}
  THEN ws.access ELSE AccessOf(e)

\* Slip: no high-water mark
UpToDateAlways(e) == TRUE

UpToDate(e) == ws.high <= what[e].at

UpdateRow(e) ==
  IF UpToDate(e)
  THEN /\ ws' = [status |-> StatusOf(e), cancel |-> CancelOf(e),
                 access |-> GuardedAccess(e), risk |-> RiskOf(e),
                 period |-> PeriodOf(e), high |-> what[e].at, by |-> e]
       /\ written' = written \cup {e}
  ELSE UNCHANGED row

\* Slip: a paid invoice that is no longer the newest event is ignored
AfterMatchedUpdate(e) ==
  IF ~UpToDate(e) THEN "ignored"
  ELSE IF what[e].kind = "paid" THEN "grant" ELSE "applied"

\* A paid invoice goes on to its credits whether or not the row was matched
AfterUpdate(e) ==
  IF what[e].kind = "paid" THEN "grant"
  ELSE IF what[e].kind = "free" \/ UpToDate(e) THEN "applied" ELSE "ignored"

Update(a) ==
  /\ Working(a, "update")
  /\ UpdateRow(at[a].on)
  /\ shown' = shown \cup { s \in Stages : mail[s].state # "none" /\ StillRelevant(s)' }
  /\ Proceed(a, AfterUpdate(at[a].on), NoContact)
  /\ UNCHANGED <<inbox, grant, mail, sending, hushed, clock>>

\* grant_stripe_invoice_period_credits: not twice, and not for a period that
\* the workspace or its wallet has left behind
Superseded(e) == ws.period > what[e].period \/ wallet > what[e].period

Refused(e) == credits[e] > 0 \/ Superseded(e)

\* Slip: an earlier grant is looked up neither by the invoice nor by the period
AnswerUnkeyed(e) ==
  IF Superseded(e) THEN "kept" ELSE IF held THEN "raises" ELSE "credited"

\* grant_workspace_credits raises if the wallet is of this very period, and
\* if the one to supersede has reservations outstanding
GrantAnswer(e) ==
  IF Refused(e) THEN "kept"
  ELSE IF wallet = what[e].period \/ held THEN "raises"
  ELSE "credited"

Grant(a) ==
  LET e == at[a].on
  IN /\ Working(a, "grant")
     /\ \/ /\ GrantAnswer(e) = "kept"
           /\ UNCHANGED grant /\ Proceed(a, "applied", NoContact)
        \/ /\ GrantAnswer(e) = "credited"
           /\ credits' = [credits EXCEPT ![e] = credits[e] + 1]
           /\ wallet' = what[e].period
           /\ Proceed(a, "applied", NoContact) /\ UNCHANGED held
        \/ /\ GrantAnswer(e) = "raises"
           /\ Goto(a, "failing") /\ UNCHANGED <<grant, faults>>
     /\ UNCHANGED <<inbox, row, post, hushed, clock>>

\* A creation of an ad pack reserves, from a trial's wallet before the first
\* paid period; it settles or refunds at any time after, or never.  Only a
\* grant meets a reservation: those that no payment can meet are left out.
Reserve ==
  /\ \E e \in Event : what[e].kind = "paid" /\ credits[e] = 0
  /\ ~held /\ ws.access \notin Suspended
  /\ wallet # 0 => ws.access \in {"paid", "canceled"}
  /\ held' = TRUE
  /\ UNCHANGED <<inbox, row, credits, wallet, post, at, hushed, clock, faults>>

Release ==
  /\ held /\ held' = FALSE
  /\ UNCHANGED <<inbox, row, credits, wallet, post, at, hushed, clock, faults>>

-----------------------------------------------------------------------------
(* Settling the receipt, and answering *)

\* finishEvent: 200, or an error although it committed
Finish(a) ==
  LET e == at[a].on
  IN /\ at[a].step \in Final
     /\ FinishReceipt(e, a, at[a].step)
     /\ \/ End(a) /\ UNCHANGED faults
        \/ Goto(a, "failing") /\ Fault
     /\ UNCHANGED <<row, grant, post, hushed, clock>>

\* The catch: the event fails, and Stripe is answered 500
Fail(a) ==
  /\ Working(a, "failing")
  /\ FinishReceipt(at[a].on, a, "failed")
  /\ End(a)
  /\ UNCHANGED <<row, grant, post, hushed, clock, faults>>

\* A call does not reach the database: the step's error without its effect
StepFails(a) ==
  /\ at[a].step \in {"read", "stage", "update", "grant"} \cup Final
  /\ Goto(a, "failing") /\ Fault
  /\ UNCHANGED <<inbox, row, grant, post, hushed, clock>>

\* The handler dies, or its last call fails: no answer, or 500
Crash(a) ==
  /\ ~Working(a, "idle")
  /\ Abandon(at[a].on, a)
  /\ End(a) /\ Fault
  /\ UNCHANGED <<row, grant, post, hushed, clock>>

-----------------------------------------------------------------------------
(* The announcements: executeMauticSync *)

\* Slip: the access state an event expects is not compared
ExpectedOfSnapshots(e) ==
  Snapshot(e) => ws.status = what[e].status /\ ws.cancel = what[e].cancel

Expected(e) ==
  IF Snapshot(e) THEN ws.status = what[e].status /\ ws.cancel = what[e].cancel
  ELSE ws.access = "payment_recovery"

\* "not committed yet": the job throws and is retried
Committed(e) == ws.high >= what[e].at

\* The guard: the row has moved past the event, or was last written by
\* another one, or is as the event left it
Passes(s) ==
  LET e == mail[s].for
  IN IF ws.high > what[e].at \/ ws.by # e THEN StillRelevant(s) ELSE Expected(e)

Closed(s) == mail' = [mail EXCEPT ![s] = [state |-> "closed", for |-> mail[s].for]]

\* evaluateMauticGuard reads the row: the execution goes on to send, or the
\* job completes without
Judge(s) ==
  /\ mail[s].state = "open" /\ Committed(mail[s].for)
  /\ IF Passes(s) THEN cleared' = cleared \cup {s} /\ UNCHANGED mail
     ELSE Closed(s) /\ UNCHANGED cleared
  /\ UNCHANGED <<inbox, row, grant, at, shown, told, hushed, clock, faults>>

\* upsertContact, whatever the row has become since: the job completes, or its
\* answer is lost and it will be judged again, or it is another execution's
Announce(s) ==
  /\ s \in cleared
  /\ cleared' = cleared \ {s} /\ told' = told \cup {s}
  /\ UNCHANGED mail \/ (mail[s].state = "open" /\ Closed(s))
  /\ UNCHANGED <<inbox, row, grant, at, shown, hushed, clock, faults>>

\* The contact is not reached, or the execution dies
Unsent(s) ==
  /\ s \in cleared
  /\ cleared' = cleared \ {s}
  /\ UNCHANGED <<inbox, row, grant, at, mail, shown, told, hushed, clock, faults>>

\* The job's 25 attempts are used up: not committed, not read or not sent
GiveUp(s) ==
  /\ mail[s].state = "open" /\ Closed(s)
  /\ UNCHANGED <<inbox, row, grant, at, shown, sending, hushed, clock, faults>>

Tick ==
  /\ now < MaxTime /\ now' = now + 1
  /\ UNCHANGED <<inbox, row, grant, post, at, hushed, what, faults>>

\* A lease passes: of a dead attempt sooner or later, of a slow one by a fault
Expire(e) ==
  /\ LeaseExpires(e)
  /\ IF owner[e] = NoAttempt THEN UNCHANGED faults ELSE Fault
  /\ UNCHANGED <<row, grant, post, at, hushed, clock>>

Step(a) ==
  \/ Stamp(a) \/ ReadContact(a) \/ AskStage(a) \/ Update(a) \/ Grant(a)
  \/ Finish(a) \/ Fail(a)

MailStep(s) == Judge(s) \/ Announce(s) \/ Unsent(s) \/ GiveUp(s)

Next ==
  \/ \E a \in Attempt :
       \/ Step(a) \/ StepFails(a) \/ Crash(a)
       \/ \E e \in Event : Deliver(a, e) \/ Fetch(a, e)
  \/ \E e \in Event : Duplicate(e) \/ Expire(e)
  \/ \E s \in Stages : MailStep(s)
  \/ Reserve \/ Release \/ Tick

Spec == Init /\ [][Next]_vars

\* A handler at work goes on, a lease passes, and Stripe repeats what it has
\* had no 2xx for (after one, the event is hushed, settled, or in effect):
\* strongly, as handlers are few here and any number of requests is served
Redeliver(e) == e \notin hushed /\ \E a \in Attempt : Deliver(a, e)

FairSpec ==
  /\ Spec
  /\ \A a \in Attempt : WF_vars(Step(a))
  /\ \A e \in Webhook : SF_vars(Redeliver(e)) /\ WF_vars(Expire(e))

-----------------------------------------------------------------------------
(* Properties *)

\* A full refund or a dispute whose event reached the row keeps the workspace
\* suspended until a payment made no earlier has reached it as well, whatever
\* snapshots, trials, reconciliations or repetitions come in between
\* (billing_risk_state, the trigger and the high-water mark together).
Suspending == {"refund", "dispute", "won"}
Restored(r) ==
  \E p \in written : what[p].kind = "paid" /\ what[p].at >= what[r].at
RiskAnswered ==
  \A r \in written :
    what[r].kind \in Suspending /\ ws.access \notin Suspended => Restored(r)

\* The subscription status shown is one that a snapshot really carried, and no
\* snapshot that reached the row was made later (billing_event_created).
Carries(e) == Snapshot(e) \/ TrialCheckout(e)
NewestSnapshotShown ==
  \A s \in written : Carries(s) =>
    \E t \in written : Carries(t) /\ what[t].status = ws.status /\ what[t].at >= what[s].at

\* An event has had its effect: its patch is in the row, or the row is ahead of
\* it; and a paid invoice has its credits, or its period was over: there has been
\* a later one in the row or in the wallet.
Outdated(e) ==
  \/ wallet > what[e].period
  \/ \E t \in written : Snapshot(t) /\ what[t].period > what[e].period
InRow(e) == e \in written \/ ws.high > what[e].at
Effective(e) ==
  CASE what[e].kind = "other" -> TRUE
    [] what[e].kind = "paid" -> InRow(e) /\ (credits[e] > 0 \/ Outdated(e))
    [] OTHER -> InRow(e)

\* An event is settled only after its effect, even when its handler outlived
\* its lease, another one took over, or calls failed in between
\* (applyStripeBillingEvent, finish_stripe_webhook_event).
SettledHasEffect == \A e \in Event : Settled(e) => Effective(e)

\* However often an invoice is delivered, it is credited once (mutation key of
\* grant_stripe_invoice_period_credits).
CreditedOnce == \A e \in Event : credits[e] <= 1

\* Mautic is told of a stage only if the row has shown it since it was asked
\* for, although the job is queued before the row is written, may run before or
\* after, and may be retried: an event that lost against the mark, a latched
\* risk or a later event is not announced (evaluateMauticGuard).  The row may
\* have moved on between the guard's read and the send.
ToldWasShown == told \subseteq shown

\* An event Stripe sent takes effect in the end, over failures, crashes and
\* lost answers (the lease, the failed status and the 500), with two
\* exceptions: it was acknowledged as a duplicate of an attempt that did not
\* finish; or it is a payment in the row whose credits the ledger refuses while
\* a reservation is outstanding.  Reservations that are closed for good in the
\* end, and no retry meets one, do not keep the credits away.
CreditsBarred(e) == what[e].kind = "paid" /\ InRow(e) /\ held
EventTakesEffect ==
  []<>(\A e \in Webhook : Sent(e) => Effective(e) \/ e \in hushed \/ CreditsBarred(e))

\* A full refund or dispute that has been dealt with suspends the workspace,
\* as long as no later payment restored it ("full refunds and disputes suspend
\* new paid access", progressive-billing.test.ts).
RefundSuspends ==
  \A r \in Webhook :
    Settled(r) /\ what[r].kind \in {"refund", "dispute"} /\ ~Restored(r)
      => ws.access \in Suspended
================================================================================
