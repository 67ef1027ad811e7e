------------------------------ MODULE CreditLedger ------------------------------
(***************************************************************************)
(* The render credits of one workspace: its wallets, one per entitlement   *)
(* period (workspace_credit_wallets), the append-only ledger               *)
(* (workspace_credit_ledger) and the RPCs that are their only writers:     *)
(* grant_, reserve_, settle_, refund_ and adjust_workspace_credits.  Each  *)
(* takes the workspace's advisory lock for its whole transaction, so each  *)
(* is one action.  Any caller may make any call with any mutation key;     *)
(* AdPacks adds the real callers.                                          *)
(*                                                                         *)
(* A call whose mutation key is already in the ledger either replays the   *)
(* stored reply or raises, and a call that raises is rolled back: neither  *)
(* changes the state, so an action is the call that does.                  *)
(*                                                                         *)
(* Abstractions.  A wallet is its period: (workspace, period_key) is       *)
(* unique.  A reservation is its mutation key, unique as its id is.  Every *)
(* reservation is for Pack credits and is closed whole, as its one caller  *)
(* does it, so a reservation has nothing outstanding once an entry closes  *)
(* it.  The expiration rows of the ledger, which nothing reads, are left   *)
(* out.  Seven billing states become the three the code tells apart.       *)
(*                                                                         *)
(* A definition whose comment begins with "Slip" is not part of the model: *)
(* it is a plausible mistake in the definition that follows it.            *)
(***************************************************************************)
EXTENDS Integers, FiniteSets

CONSTANTS
  Period,       \* entitlement periods: the trial and the paid ones
  PaidPeriod,   \* those with entitlement_type paid
  Credits,      \* credits granted for each period
  MutationKey,  \* the keys callers use
  Pack,         \* CREDITS_PER_AD_PACK
  Delta,        \* corrections an operator makes
  None

ASSUME LedgerAssumption ==
  /\ PaidPeriod \subseteq Period
  /\ Credits \in [Period -> Nat \ {0}]
  /\ Pack \in Nat \ {0}
  /\ Delta \subseteq Int
  /\ IsFiniteSet(MutationKey)
  /\ None \notin Period \cup MutationKey

VARIABLES
  status, granted, reserved, consumed, expired,  \* columns of the wallets
  ledger,    \* the ledger row under each mutation key
  over,      \* periods whose period_end <= now()
  billing    \* workspaces.billing_access_state

walletVars == <<status, granted, reserved, consumed, expired>>
ledgerVars == <<status, granted, reserved, consumed, expired, ledger, over, billing>>

EntryType == {"none", "grant", "reservation", "reservation_denied",
              "settlement", "refund", "operator_adjustment"}
Entry == [type: EntryType, wallet: Period \cup {None},
          reservation: MutationKey \cup {None}]
NoEntry == [type |-> "none", wallet |-> None, reservation |-> None]

\* unbilled and trialing; paid and canceled; payment_recovery, refunded and disputed
BillingState == {"unbilled", "paid", "blocked"}

LedgerInit ==
  /\ status = [p \in Period |-> "none"]
  /\ granted = [p \in Period |-> 0]
  /\ reserved = [p \in Period |-> 0]
  /\ consumed = [p \in Period |-> 0]
  /\ expired = [p \in Period |-> 0]
  /\ ledger = [k \in MutationKey |-> NoEntry]
  /\ over = {}
  /\ billing = "unbilled"

Active == {p \in Period : status[p] = "active"}
Remaining(p) == granted[p] - reserved[p] - consumed[p] - expired[p]

\* Slip: a key is not looked up
UnusedAlways(k) == TRUE

Unused(k) == ledger[k].type = "none"

\* The ledger with one more row
Booked(k, t, p, r) ==
  [ledger EXCEPT ![k] = [type |-> t, wallet |-> p, reservation |-> r]]

\* Slip: a wallet with reservations outstanding is superseded all the same
SupersedableAny(q) == TRUE

Supersedable(q) == reserved[q] = 0

(* A new period's wallet supersedes the active one, whose remainder expires.
   A period that is already over is granted and expired at once. *)
Grant(k, p) ==
  /\ Unused(k)
  /\ status[p] = "none"
  /\ \A q \in Active : Supersedable(q)
  /\ status' = [q \in Period |->
       IF q = p THEN IF p \in over THEN "expired" ELSE "active"
       ELSE IF q \in Active THEN "expired" ELSE status[q]]
  /\ granted' = [granted EXCEPT ![p] = Credits[p]]
  /\ expired' = [q \in Period |->
       IF q = p THEN IF p \in over THEN Credits[p] ELSE 0
       ELSE IF q \in Active THEN expired[q] + Remaining(q) ELSE expired[q]]
  /\ ledger' = Booked(k, "grant", p, None)
  /\ UNCHANGED <<reserved, consumed, over, billing>>

\* Slip: reserved credits still count as available
ShortOverbooked(p) == granted[p] - consumed[p] - expired[p] < Pack

Short(p) == Remaining(p) < Pack

\* The active wallet from which a pack may be reserved
Usable(p) ==
  /\ p \in Active
  /\ billing # "blocked"
  /\ p \in PaidPeriod => billing = "paid"
  /\ p \notin over
  /\ ~Short(p)

Reserve(k) ==
  /\ Unused(k)
  /\ \E p \in Period :
       /\ Usable(p)
       /\ reserved' = [reserved EXCEPT ![p] = reserved[p] + Pack]
       /\ ledger' = Booked(k, "reservation", p, None)
  /\ UNCHANGED <<status, granted, consumed, expired, over, billing>>

(* A refusal is booked too, and is replayed to whoever asks again with its key. *)
Deny(k) ==
  /\ Unused(k)
  /\ \A p \in Period : ~Usable(p)
  /\ \E p \in IF Active = {} THEN {None} ELSE Active :
       ledger' = Booked(k, "reservation_denied", p, None)
  /\ UNCHANGED <<status, granted, reserved, consumed, expired, over, billing>>

Closes(k, r) ==
  /\ ledger[k].type \in {"settlement", "refund"}
  /\ ledger[k].reservation = r

Outstanding(r) ==
  /\ ledger[r].type = "reservation"
  /\ \A k \in MutationKey : ~Closes(k, r)

Settle(k, r) ==
  /\ Outstanding(r)
  /\ Unused(k)
  /\ LET p == ledger[r].wallet IN
     /\ reserved' = [reserved EXCEPT ![p] = reserved[p] - Pack]
     /\ consumed' = [consumed EXCEPT ![p] = consumed[p] + Pack]
     /\ ledger' = Booked(k, "settlement", p, r)
  /\ UNCHANGED <<status, granted, expired, over, billing>>

Refund(k, r) ==
  /\ Outstanding(r)
  /\ Unused(k)
  /\ LET p == ledger[r].wallet IN
     /\ reserved' = [reserved EXCEPT ![p] = reserved[p] - Pack]
     /\ ledger' = Booked(k, "refund", p, r)
  /\ UNCHANGED <<status, granted, consumed, expired, over, billing>>

Correctable(p, d) == granted[p] + d >= reserved[p] + consumed[p] + expired[p]

Adjust(k, d) ==
  /\ Unused(k)
  /\ \E p \in Active :
       /\ Correctable(p, d)
       /\ granted' = [granted EXCEPT ![p] = granted[p] + d]
       /\ ledger' = Booked(k, "operator_adjustment", p, None)
  /\ UNCHANGED <<status, reserved, consumed, expired, over, billing>>

PeriodEnds(p) ==
  /\ p \notin over
  /\ over' = over \cup {p}
  /\ UNCHANGED <<status, granted, reserved, consumed, expired, ledger, billing>>

(* start_trial_on_first_delivery moves the end of an active trial wallet. *)
TrialMoved(p) ==
  /\ p \in Active \ PaidPeriod
  /\ over' = over \ {p}
  /\ UNCHANGED <<status, granted, reserved, consumed, expired, ledger, billing>>

BillingChanges(s) ==
  /\ billing' = s
  /\ UNCHANGED <<status, granted, reserved, consumed, expired, ledger, over>>

LedgerNext ==
  \/ \E k \in MutationKey :
       \/ \E p \in Period : Grant(k, p)
       \/ Reserve(k)
       \/ Deny(k)
       \/ \E r \in MutationKey : Settle(k, r) \/ Refund(k, r)
       \/ \E d \in Delta : Adjust(k, d)
  \/ \E p \in Period : PeriodEnds(p) \/ TrialMoved(p)
  \/ \E s \in BillingState : BillingChanges(s)

LedgerSpec == LedgerInit /\ [][LedgerNext]_ledgerVars

-----------------------------------------------------------------------------
(* Properties *)

LedgerTypeOK ==
  /\ status \in [Period -> {"none", "active", "expired"}]
  /\ granted \in [Period -> Nat]
  /\ reserved \in [Period -> Nat]
  /\ consumed \in [Period -> Nat]
  /\ expired \in [Period -> Nat]
  /\ ledger \in [MutationKey -> Entry]
  /\ over \subseteq Period
  /\ billing \in BillingState

\* Reservations still held on a wallet, and the packs it has paid for
Held(p) == {r \in MutationKey : Outstanding(r) /\ ledger[r].wallet = p}
Spent(p) == {k \in MutationKey : ledger[k].type = "settlement" /\ ledger[k].wallet = p}

(* The balances of every wallet are those of the ledger: what it has reserved
   is what its open reservations hold, what it has consumed is what settlements
   took, so no reservation is closed twice by a settlement, a refund or both. *)
BooksBalance ==
  \A p \in Period :
    /\ reserved[p] = Pack * Cardinality(Held(p))
    /\ consumed[p] = Pack * Cardinality(Spent(p))

(* However grants, reservations, closings and corrections interleave, no wallet
   owes more than it was granted: workspace_credit_wallets_balance_check is
   never what stops a call. *)
NeverOverdrawn ==
  \A p \in Period : reserved[p] + consumed[p] + expired[p] <= granted[p]

(* A wallet that has been superseded is closed: nothing is held on it any more,
   everything it was granted is accounted for, and at most one wallet is open,
   so a settlement or refund that comes after the next period's grant can
   neither spend nor revive the credits of the old one. *)
SupersededIsClosed ==
  /\ \A p \in Period : status[p] = "expired" =>
       /\ Held(p) = {}
       /\ consumed[p] + expired[p] = granted[p]
  /\ \A p, q \in Active : p = q

=============================================================================
