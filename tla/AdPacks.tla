-------------------------------- MODULE AdPacks --------------------------------
(***************************************************************************)
(* The callers of the credit ledger: customers creating ads (POST          *)
(* /api/adbuilder/ads: reserve a pack, insert the ad, settle, or refund    *)
(* when the insert fails), the trial bootstrap and the first delivery, the *)
(* Stripe webhook granting paid periods, and an operator's corrections.    *)
(*                                                                         *)
(* Requests run concurrently and one action is one round trip: a double    *)
(* click or a retry is another request with the same Idempotency-Key.  A   *)
(* request without one is a request whose scope no other shares, as the    *)
(* random scope it is given is.  Any step may fail before it is executed   *)
(* or after, with its reply lost, and the server may stop between steps.   *)
(* Requests that share a key come from one member: from another, the       *)
(* replay raises and nothing happens.                                      *)
(***************************************************************************)
EXTENDS CreditLedger

CONSTANTS
  Request, Scope,
  ScopeOf,      \* the idempotency key of each request
  Trial,        \* the trial's period
  Start,        \* when each period starts
  Correction    \* operator mutations

ReserveKey(s) == <<"ad-pack-reserve", s>>
SettleKey(s) == <<"ad-pack-settle", s>>
TrialKey == <<"trial-grant", Trial>>
InvoiceKey(p) == <<"stripe-invoice", p>>
OperatorKey(c) == <<"operator", c>>

ASSUME AdPacksAssumption ==
  /\ ScopeOf \in [Request -> Scope]
  /\ Trial \in Period \ PaidPeriod
  /\ Start \in [Period -> Nat]
  /\ TrialKey \in MutationKey
  /\ \A s \in Scope : ReserveKey(s) \in MutationKey /\ SettleKey(s) \in MutationKey
  /\ \A p \in PaidPeriod : InvoiceKey(p) \in MutationKey
  /\ \A c \in Correction : OperatorKey(c) \in MutationKey

VARIABLES
  pc,         \* where each request is
  ads,        \* scopes whose ad exists (ad_customer_ads.creation_key)
  delivered   \* trial_state has left pending_delivery

adVars == <<status, granted, reserved, consumed, expired, ledger, over, billing,
            pc, ads, delivered>>

AdInit ==
  /\ LedgerInit
  /\ pc = [r \in Request |-> "idle"]
  /\ ads = {}
  /\ delivered = FALSE

Goto(r, l) == pc' = [pc EXCEPT ![r] = l]
LedgerUnchanged == UNCHANGED ledgerVars
Running(r) == pc[r] \in {"create", "settle", "refund"}

-----------------------------------------------------------------------------
(* One request *)

(* reserve_workspace_credits, answered: a key that was used before is answered
   as it was then, however the reservation has been closed since. *)
AskPack(r) ==
  LET k == ReserveKey(ScopeOf[r]) IN
  /\ pc[r] = "idle"
  /\ IF Unused(k) THEN Reserve(k) \/ Deny(k) ELSE LedgerUnchanged
  /\ Goto(r, IF ledger'[k].type = "reservation" THEN "create" ELSE "refused")
  /\ UNCHANGED <<ads, delivered>>

(* The reservation's reply is lost, or the call never arrives: the route answers
   500 and has no reservation to refund. *)
AskLost(r) ==
  LET k == ReserveKey(ScopeOf[r]) IN
  /\ pc[r] = "idle"
  /\ LedgerUnchanged \/ Reserve(k) \/ Deny(k)
  /\ Goto(r, "failed")
  /\ UNCHANGED <<ads, delivered>>

(* createCustomerAd inserts the ad or finds the one with its creation_key. *)
CreateAd(r) ==
  /\ pc[r] = "create"
  /\ ads' = ads \cup {ScopeOf[r]}
  /\ Goto(r, "settle")
  /\ LedgerUnchanged /\ UNCHANGED delivered

\* Slip: a failed insert is settled like a good one
AfterFailureSettle == "settle"

AfterFailure == "refund"

(* createCustomerAd throws, having inserted the ad or not. *)
CreateFails(r) ==
  /\ pc[r] = "create"
  /\ ads' \in {ads, ads \cup {ScopeOf[r]}}
  /\ Goto(r, AfterFailure)
  /\ LedgerUnchanged /\ UNCHANGED delivered

(* settleAdPackCredits: an error of the call is logged and the ad is kept. *)
SettlePack(r) ==
  LET s == ScopeOf[r] IN
  /\ pc[r] = "settle"
  /\ \/ LedgerUnchanged
     \/ Settle(SettleKey(s), ReserveKey(s))
  /\ Goto(r, "created")
  /\ UNCHANGED <<ads, delivered>>

\* Slip: the refund is keyed by the ad, as the settlement is
RefundKeyOfAd(s) == SettleKey(s)

RefundKey(s) == ReserveKey(s)

(* refundAdPackReservation: the ledger answers, with a refund or, when the key is
   taken or nothing is outstanding, an error that is logged. *)
RefundPack(r) ==
  LET s == ScopeOf[r] IN
  /\ pc[r] = "refund"
  /\ IF Outstanding(ReserveKey(s)) /\ Unused(RefundKey(s))
       THEN Refund(RefundKey(s), ReserveKey(s))
       ELSE LedgerUnchanged
  /\ Goto(r, "undone")
  /\ UNCHANGED <<ads, delivered>>

RefundLost(r) ==
  /\ pc[r] = "refund"
  /\ Goto(r, "failed")
  /\ LedgerUnchanged /\ UNCHANGED <<ads, delivered>>

Crash(r) ==
  /\ Running(r)
  /\ Goto(r, "gone")
  /\ LedgerUnchanged /\ UNCHANGED <<ads, delivered>>

-----------------------------------------------------------------------------
(* Entitlements *)

(* bootstrap_verified_trial_workspace *)
Bootstrap ==
  /\ Grant(TrialKey, Trial)
  /\ UNCHANGED <<pc, ads, delivered>>

Movable == status[Trial] = "active"

(* start_trial_on_first_delivery: the trial wallet now ends with the trial; a
   workspace that has none is granted one. *)
FirstDelivery ==
  /\ ~delivered
  /\ delivered' = TRUE
  /\ \/ /\ Movable
        /\ over' = over \ {Trial}
        /\ UNCHANGED <<walletVars, ledger, billing>>
     \/ /\ ~Movable
        /\ Trial \notin over
        /\ Grant(TrialKey, Trial)
  /\ UNCHANGED <<pc, ads>>

(* grant_stripe_invoice_period_credits: an invoice of an older period than the
   active wallet's is ignored; one whose grant raises fails its webhook event,
   and Stripe sends it again. *)
PaidInvoice(p) ==
  /\ \A q \in Active : Start[q] < Start[p]
  /\ Grant(InvoiceKey(p), p)
  /\ UNCHANGED <<pc, ads, delivered>>

(* runOperatorCustomerAction, action adjust_credits *)
Correct(c, d) ==
  /\ Adjust(OperatorKey(c), d)
  /\ UNCHANGED <<pc, ads, delivered>>

TimePasses(p) ==
  /\ PeriodEnds(p)
  /\ UNCHANGED <<pc, ads, delivered>>

(* Stripe's other events move the workspace's billing state. *)
Billed(s) ==
  /\ BillingChanges(s)
  /\ UNCHANGED <<pc, ads, delivered>>

RequestStep(r) ==
  \/ AskPack(r) \/ AskLost(r)
  \/ CreateAd(r) \/ CreateFails(r)
  \/ SettlePack(r)
  \/ RefundPack(r) \/ RefundLost(r)
  \/ Crash(r)

AdNext ==
  \/ \E r \in Request : RequestStep(r)
  \/ Bootstrap
  \/ FirstDelivery
  \/ \E p \in PaidPeriod : PaidInvoice(p)
  \/ \E c \in Correction, d \in Delta : Correct(c, d)
  \/ \E p \in Period : TimePasses(p)
  \/ \E s \in BillingState : Billed(s)

AdSpec == AdInit /\ [][AdNext]_adVars

-----------------------------------------------------------------------------
(* Properties *)

AdTypeOK ==
  /\ LedgerTypeOK
  /\ pc \in [Request -> {"idle", "create", "settle", "refund", "created",
                         "refused", "failed", "undone", "gone"}]
  /\ ads \subseteq Scope
  /\ delivered \in BOOLEAN

(* No ad is free: whatever fails between the reservation, the insert and the
   settlement, and however requests that share a key overlap, the pack of an ad
   that exists is held or consumed, never given back. *)
AdsArePaid ==
  \A s \in ads :
    /\ ledger[ReserveKey(s)].type = "reservation"
    /\ \A k \in MutationKey :
         Closes(k, ReserveKey(s)) => ledger[k].type = "settlement"

(* A pack is consumed only for an ad that exists, and once for each: a wallet
   has consumed no more than the ads charged to it. *)
ChargedOnlyForAds ==
  \A p \in Period :
    consumed[p] <= Pack * Cardinality({s \in ads : ledger[ReserveKey(s)].wallet = p})

(* The comment on reserveAdPackCredits: the reservation "is replay-safe per
   mutation key and refunded if the ad creation fails, so an abandoned request
   never consumes a pack".  When a creation failed, made no ad, its refund call
   was answered and nobody is retrying it, nothing should stay outstanding. *)
FailedPackIsReturned ==
  \A s \in Scope :
    (/\ s \notin ads
     /\ \A r \in Request : ScopeOf[r] = s => pc[r] \in {"idle", "undone"}
     /\ \E r \in Request : ScopeOf[r] = s /\ pc[r] = "undone")
    => ~Outstanding(ReserveKey(s))

=============================================================================
