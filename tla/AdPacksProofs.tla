----------------------------- MODULE AdPacksProofs -----------------------------
(***************************************************************************)
(* The callers of the ledger do nothing the ledger's specification does    *)
(* not allow, so what CreditLedgerProofs shows holds of them; and no ad    *)
(* is free.  The second rests on NoRefunds: RefundPack gives the refund    *)
(* the reservation's own key, which the ledger refuses, so no reservation  *)
(* of an ad is ever given back.  It is the invariant that a repaired key   *)
(* would have to replace.                                                  *)
(***************************************************************************)
EXTENDS AdPacks, CreditLedgerProofs

(* Every step of a caller is a step of the ledger or leaves it alone. *)
LEMMA CallerStep ==
  ASSUME [AdNext]_adVars
  PROVE  [LedgerNext]_ledgerVars
  <1> USE AdPacksAssumption
  <1>1. ASSUME NEW r \in Request, AskPack(r) PROVE [LedgerNext]_ledgerVars
    BY <1>1 DEF AskPack, LedgerNext, LedgerUnchanged
  <1>2. ASSUME NEW r \in Request, AskLost(r) PROVE [LedgerNext]_ledgerVars
    BY <1>2 DEF AskLost, LedgerNext, LedgerUnchanged
  <1>3. ASSUME NEW r \in Request,
               CreateAd(r) \/ CreateFails(r) \/ RefundLost(r) \/ Crash(r)
        PROVE  [LedgerNext]_ledgerVars
    BY <1>3 DEF CreateAd, CreateFails, RefundLost, Crash, LedgerUnchanged
  <1>4. ASSUME NEW r \in Request, SettlePack(r) PROVE [LedgerNext]_ledgerVars
    BY <1>4 DEF SettlePack, LedgerNext, LedgerUnchanged
  <1>5. ASSUME NEW r \in Request, RefundPack(r) PROVE [LedgerNext]_ledgerVars
    <2>1. RefundKey(ScopeOf[r]) \in MutationKey
      BY DEF RefundKey
    <2> QED BY <1>5, <2>1 DEF RefundPack, LedgerNext, LedgerUnchanged
  <1>6. CASE Bootstrap
    BY <1>6 DEF Bootstrap, LedgerNext
  <1>7. CASE FirstDelivery
    <2>1. CASE Movable /\ over' = over \ {Trial} /\ UNCHANGED <<walletVars, ledger, billing>>
      <3>1. TrialMoved(Trial)
        BY <2>1 DEF TrialMoved, Movable, Active, walletVars
      <3> QED BY <3>1 DEF LedgerNext
    <2>2. CASE Grant(TrialKey, Trial)
      BY <2>2 DEF LedgerNext
    <2> QED BY <1>7, <2>1, <2>2 DEF FirstDelivery
  <1>8. ASSUME NEW p \in PaidPeriod, PaidInvoice(p) PROVE [LedgerNext]_ledgerVars
    BY <1>8, LedgerAssumption DEF PaidInvoice, LedgerNext
  <1>9. ASSUME NEW c \in Correction, NEW d \in Delta, Correct(c, d)
        PROVE  [LedgerNext]_ledgerVars
    BY <1>9 DEF Correct, LedgerNext
  <1>10. ASSUME NEW p \in Period, TimePasses(p) PROVE [LedgerNext]_ledgerVars
    BY <1>10 DEF TimePasses, LedgerNext
  <1>11. ASSUME NEW s \in BillingState, Billed(s) PROVE [LedgerNext]_ledgerVars
    BY <1>11 DEF Billed, LedgerNext
  <1>12. CASE UNCHANGED adVars
    BY <1>12 DEF adVars, ledgerVars
  <1> QED
    BY <1>1, <1>2, <1>3, <1>4, <1>5, <1>6, <1>7, <1>8, <1>9, <1>10, <1>11, <1>12
    DEF AdNext, RequestStep

(* The route, the bootstrap, the webhook and the operator implement the ledger's
   specification: none of them bypasses its lock, keys or balance guards. *)
THEOREM CallersUseTheLedger == AdSpec => LedgerSpec
  <1>1. AdInit => LedgerInit
    BY DEF AdInit
  <1> QED BY <1>1, CallerStep, PTL DEF AdSpec, LedgerSpec

-----------------------------------------------------------------------------
(* No ad is free *)

\* Nothing the callers do is ever booked as a refund
NoRefunds == \A k \in MutationKey : ledger[k].type # "refund"

\* A request past its reservation, and an ad, have a reservation behind them
Reserved ==
  /\ \A r \in Request : Running(r) => ledger[ReserveKey(ScopeOf[r])].type = "reservation"
  /\ \A s \in ads : ledger[ReserveKey(s)].type = "reservation"

PaidInv ==
  /\ ledger \in [MutationKey -> Entry]
  /\ pc \in [Request -> {"idle", "create", "settle", "refund", "created",
                         "refused", "failed", "undone", "gone"}]
  /\ ads \subseteq Scope
  /\ NoRefunds
  /\ Reserved

(* Rows are only added, and only a refund adds a refund. *)
LEMMA RowAdded ==
  ASSUME ledger \in [MutationKey -> Entry], NoRefunds, NEW k \in MutationKey,
         \/ \E p \in Period : Grant(k, p)
         \/ Reserve(k) \/ Deny(k)
         \/ \E r \in MutationKey : Settle(k, r)
         \/ \E d \in Delta : Adjust(k, d)
  PROVE  /\ ledger' \in [MutationKey -> Entry]
         /\ NoRefunds'
         /\ \A x \in MutationKey : ledger[x].type # "none" => ledger'[x] = ledger[x]
  <1>1. \E t \in EntryType \ {"refund"}, p \in Period \cup {None}, r \in MutationKey \cup {None} :
          Unused(k) /\ ledger' = Booked(k, t, p, r)
    <2>1. ASSUME NEW p \in Period, Grant(k, p)
          PROVE  Unused(k) /\ ledger' = Booked(k, "grant", p, None)
      BY <2>1 DEF Grant
    <2>2. ASSUME Reserve(k)
          PROVE  \E p \in Period : Unused(k) /\ ledger' = Booked(k, "reservation", p, None)
      BY <2>2 DEF Reserve
    <2>3. ASSUME Deny(k)
          PROVE  \E p \in Period \cup {None} :
                   Unused(k) /\ ledger' = Booked(k, "reservation_denied", p, None)
      BY <2>3 DEF Deny, Active
    <2>4. ASSUME NEW r \in MutationKey, Settle(k, r)
          PROVE  /\ Unused(k) /\ ledger' = Booked(k, "settlement", ledger[r].wallet, r)
                 /\ ledger[r].wallet \in Period \cup {None}
      BY <2>4 DEF Settle, Entry
    <2>5. ASSUME NEW d \in Delta, Adjust(k, d)
          PROVE  \E p \in Period : Unused(k) /\ ledger' = Booked(k, "operator_adjustment", p, None)
      BY <2>5 DEF Adjust, Active
    <2> QED BY <2>1, <2>2, <2>3, <2>4, <2>5 DEF EntryType
  <1>2. PICK t \in EntryType \ {"refund"}, p \in Period \cup {None}, r \in MutationKey \cup {None} :
          Unused(k) /\ ledger' = Booked(k, t, p, r)
    BY <1>1
  <1>3. /\ ledger' \in [MutationKey -> Entry]
        /\ ledger'[k] = [type |-> t, wallet |-> p, reservation |-> r]
        /\ \A x \in MutationKey \ {k} : ledger'[x] = ledger[x]
    BY <1>2, BookedEntry
  <1> QED BY <1>2, <1>3 DEF NoRefunds, Unused

LEMMA PaidInvInit == AdInit => PaidInv
  <1>1. NoEntry \in Entry
    BY DEF NoEntry, Entry, EntryType
  <1> QED BY <1>1, AdPacksAssumption
          DEF AdInit, LedgerInit, PaidInv, NoRefunds, Reserved, Running, NoEntry

LEMMA PaidInvStep == PaidInv /\ [AdNext]_adVars => PaidInv'
  <1> SUFFICES ASSUME PaidInv, [AdNext]_adVars PROVE PaidInv'
    OBVIOUS
  <1> USE AdPacksAssumption DEF PaidInv
  <1> DEFINE Kept == /\ ledger' \in [MutationKey -> Entry]
                     /\ NoRefunds'
                     /\ \A x \in MutationKey : ledger[x].type # "none" => ledger'[x] = ledger[x]
  <1>1. LedgerUnchanged \/ UNCHANGED ledger => Kept
    BY DEF LedgerUnchanged, ledgerVars, NoRefunds
  <1>2. Kept => \A s \in Scope : ledger[ReserveKey(s)].type = "reservation"
                                   => ledger'[ReserveKey(s)].type = "reservation"
    OBVIOUS
  <1>3. ASSUME NEW r \in Request, AskPack(r) PROVE PaidInv'
    <2>1. Kept
      BY <1>1, <1>3, RowAdded DEF AskPack
    <2>2. pc' = [pc EXCEPT ![r] = pc'[r]] /\ ads' = ads
      BY <1>3 DEF AskPack, Goto
    <2>3. pc'[r] = IF ledger'[ReserveKey(ScopeOf[r])].type = "reservation" THEN "create" ELSE "refused"
      BY <1>3 DEF AskPack, Goto
    <2> QED BY <1>2, <2>1, <2>2, <2>3 DEF Reserved, Running
  <1>4. ASSUME NEW r \in Request, AskLost(r) PROVE PaidInv'
    <2>1. Kept
      BY <1>1, <1>4, RowAdded DEF AskLost
    <2> QED BY <1>2, <1>4, <2>1 DEF AskLost, Goto, Reserved, Running
  <1>5. ASSUME NEW r \in Request, CreateAd(r) \/ CreateFails(r) PROVE PaidInv'
    <2>1. Kept
      BY <1>1, <1>5 DEF CreateAd, CreateFails
    <2>2. /\ pc[r] = "create"
          /\ ads' \in {ads, ads \cup {ScopeOf[r]}}
          /\ pc' = [pc EXCEPT ![r] = "settle"] \/ pc' = [pc EXCEPT ![r] = "refund"]
      BY <1>5 DEF CreateAd, CreateFails, Goto, AfterFailure
    <2> QED BY <1>2, <2>1, <2>2 DEF Reserved, Running
  <1>6. ASSUME NEW r \in Request, SettlePack(r) PROVE PaidInv'
    <2>1. Kept
      BY <1>1, <1>6, RowAdded DEF SettlePack
    <2> QED BY <1>2, <1>6, <2>1 DEF SettlePack, Goto, Reserved, Running
  <1>7. ASSUME NEW r \in Request, RefundPack(r) PROVE PaidInv'
    <2>1. LedgerUnchanged
      BY <1>7 DEF RefundPack, RefundKey, Outstanding, Unused
    <2> QED BY <1>1, <1>2, <1>7, <2>1 DEF RefundPack, Goto, Reserved, Running
  <1>8. ASSUME NEW r \in Request, RefundLost(r) \/ Crash(r) PROVE PaidInv'
    <2>1. LedgerUnchanged /\ ads' = ads
          /\ (pc' = [pc EXCEPT ![r] = "failed"] \/ pc' = [pc EXCEPT ![r] = "gone"])
      BY <1>8 DEF RefundLost, Crash, Goto
    <2> QED BY <1>1, <1>2, <2>1 DEF Reserved, Running
  <1>9. ASSUME UNCHANGED <<pc, ads>>, Kept PROVE PaidInv'
    BY <1>2, <1>9 DEF Reserved, Running
  <1>10. CASE Bootstrap
    <2>1. Kept
      BY <1>10, RowAdded DEF Bootstrap
    <2> QED BY <1>9, <1>10, <2>1 DEF Bootstrap
  <1>11. CASE FirstDelivery
    <2>1. Kept
      BY <1>1, <1>11, RowAdded DEF FirstDelivery
    <2> QED BY <1>9, <1>11, <2>1 DEF FirstDelivery
  <1>12. ASSUME NEW p \in PaidPeriod, PaidInvoice(p) PROVE PaidInv'
    <2>1. Kept
      BY <1>12, RowAdded, LedgerAssumption DEF PaidInvoice
    <2> QED BY <1>9, <1>12, <2>1 DEF PaidInvoice
  <1>13. ASSUME NEW c \in Correction, NEW d \in Delta, Correct(c, d) PROVE PaidInv'
    <2>1. Kept
      BY <1>13, RowAdded DEF Correct
    <2> QED BY <1>9, <1>13, <2>1 DEF Correct
  <1>14. ASSUME NEW p \in Period, TimePasses(p) PROVE PaidInv'
    BY <1>1, <1>9, <1>14 DEF TimePasses, PeriodEnds
  <1>15. ASSUME NEW s \in BillingState, Billed(s) PROVE PaidInv'
    BY <1>1, <1>9, <1>15 DEF Billed, BillingChanges
  <1>16. CASE UNCHANGED adVars
    BY <1>1, <1>9, <1>16 DEF adVars
  <1> QED
    BY <1>3, <1>4, <1>5, <1>6, <1>7, <1>8, <1>10, <1>11, <1>12, <1>13, <1>14, <1>15, <1>16
    DEF AdNext, RequestStep

(* However requests overlap, fail or stop, an ad that exists has its pack
   reserved or consumed (route.ts and settleAdPackCredits). *)
THEOREM AdsAlwaysPaid == AdSpec => []AdsArePaid
  <1>1. PaidInv => AdsArePaid
    BY DEF PaidInv, Reserved, NoRefunds, AdsArePaid, Closes
  <1> QED BY <1>1, PaidInvInit, PaidInvStep, PTL DEF AdSpec

-----------------------------------------------------------------------------
(* Types *)

LEMMA DeliveredStep == delivered \in BOOLEAN /\ [AdNext]_adVars => (delivered \in BOOLEAN)'
  <1> SUFFICES ASSUME delivered \in BOOLEAN, [AdNext]_adVars PROVE delivered' \in BOOLEAN
    OBVIOUS
  <1>1. CASE FirstDelivery
    BY <1>1 DEF FirstDelivery
  <1>2. CASE ~FirstDelivery
    BY <1>2 DEF AdNext, RequestStep, AskPack, AskLost, CreateAd, CreateFails, SettlePack,
       RefundPack, RefundLost, Crash, Bootstrap, PaidInvoice, Correct, TimePasses, Billed, adVars
  <1> QED BY <1>1, <1>2

(* Balances, requests and ads keep their ranges (the numeric columns are never
   negative, whatever the callers do). *)
THEOREM AdTypeCorrect == AdSpec => []AdTypeOK
  <1>1. AdInit => delivered \in BOOLEAN
    BY DEF AdInit
  <1>2. AdSpec => []LedgerTypeOK
    BY CallersUseTheLedger, LedgerTypeCorrect, PTL
  <1>3. PaidInv /\ LedgerTypeOK /\ delivered \in BOOLEAN => AdTypeOK
    BY DEF PaidInv, AdTypeOK
  <1> QED BY <1>1, <1>2, <1>3, PaidInvInit, PaidInvStep, DeliveredStep, PTL DEF AdSpec

-----------------------------------------------------------------------------
(* No pack is charged without its ad *)

\* Every settlement is that of an ad, under the ad's own key
ChargedInv ==
  /\ \A k \in MutationKey : ledger[k].type = "settlement" =>
       \E s \in ads : k = SettleKey(s) /\ ledger[k].reservation = ReserveKey(s)
  /\ \A r \in Request : pc[r] = "settle" => ScopeOf[r] \in ads

\* No step but a settlement adds one
NoneSettled == \A k \in MutationKey : ledger'[k].type = "settlement" => ledger'[k] = ledger[k]

LEMMA RowNotSettled ==
  ASSUME ledger \in [MutationKey -> Entry], NEW k \in MutationKey,
         (\E p \in Period : Grant(k, p)) \/ Reserve(k) \/ Deny(k) \/ \E d \in Delta : Adjust(k, d)
  PROVE  NoneSettled
  <1>1. ASSUME NEW t \in {"grant", "reservation", "reservation_denied", "operator_adjustment"},
               NEW p \in Period \cup {None}, ledger' = Booked(k, t, p, None)
        PROVE  NoneSettled
    <2>1. /\ ledger'[k] = [type |-> t, wallet |-> p, reservation |-> None]
          /\ \A x \in MutationKey \ {k} : ledger'[x] = ledger[x]
      BY <1>1, BookedEntry DEF EntryType
    <2> QED BY <2>1 DEF NoneSettled
  <1>2. ASSUME NEW p \in Period, Grant(k, p) PROVE NoneSettled
    BY <1>1, <1>2 DEF Grant
  <1>3. CASE Reserve(k)
    BY <1>1, <1>3 DEF Reserve
  <1>4. CASE Deny(k)
    BY <1>1, <1>4 DEF Deny, Active
  <1>5. ASSUME NEW d \in Delta, Adjust(k, d) PROVE NoneSettled
    BY <1>1, <1>5 DEF Adjust, Active
  <1> QED BY <1>2, <1>3, <1>4, <1>5

LEMMA ChargedInvInit == AdInit => ChargedInv
  BY DEF AdInit, LedgerInit, NoEntry, ChargedInv

LEMMA ChargedInvStep == (PaidInv /\ ChargedInv) /\ [AdNext]_adVars => ChargedInv'
  <1> SUFFICES ASSUME PaidInv, ChargedInv, [AdNext]_adVars PROVE ChargedInv'
    OBVIOUS
  <1> USE AdPacksAssumption DEF PaidInv
  <1>1. LedgerUnchanged \/ UNCHANGED ledger => NoneSettled
    BY DEF LedgerUnchanged, ledgerVars, NoneSettled
  <1>2. ASSUME NoneSettled, ads \subseteq ads',
               \A r \in Request : pc'[r] = "settle" => pc[r] = "settle" \/ ScopeOf[r] \in ads'
        PROVE  ChargedInv'
    BY <1>2 DEF NoneSettled, ChargedInv, SettleKey, ReserveKey
  <1>3. ASSUME NEW r \in Request, AskPack(r) \/ AskLost(r) PROVE ChargedInv'
    <2>1. NoneSettled
      BY <1>1, <1>3, RowNotSettled DEF AskPack, AskLost
    <2>2. ads' = ads /\ \E l \in {"create", "refused", "failed"} : pc' = [pc EXCEPT ![r] = l]
      BY <1>3 DEF AskPack, AskLost, Goto
    <2> QED BY <1>2, <2>1, <2>2
  <1>4. ASSUME NEW r \in Request, CreateAd(r) \/ CreateFails(r) PROVE ChargedInv'
    <2>1. NoneSettled
      BY <1>1, <1>4 DEF CreateAd, CreateFails
    <2>2. CASE CreateAd(r)
      <3>1. ads' = ads \cup {ScopeOf[r]} /\ pc' = [pc EXCEPT ![r] = "settle"]
        BY <2>2 DEF CreateAd, Goto
      <3> QED BY <1>2, <2>1, <3>1
    <2>3. CASE CreateFails(r)
      <3>1. ads \subseteq ads' /\ pc' = [pc EXCEPT ![r] = "refund"]
        BY <2>3 DEF CreateFails, Goto, AfterFailure
      <3> QED BY <1>2, <2>1, <3>1
    <2> QED BY <1>4, <2>2, <2>3
  <1>5. ASSUME NEW r \in Request, SettlePack(r) PROVE ChargedInv'
    <2>1. ads' = ads /\ pc' = [pc EXCEPT ![r] = "created"]
      BY <1>5 DEF SettlePack, Goto
    <2>2. CASE LedgerUnchanged
      BY <1>1, <1>2, <2>1, <2>2
    <2>3. CASE Settle(SettleKey(ScopeOf[r]), ReserveKey(ScopeOf[r]))
      <3> DEFINE k == SettleKey(ScopeOf[r])
                 p == ledger[ReserveKey(ScopeOf[r])].wallet
      <3>1. ScopeOf[r] \in ads /\ k \in MutationKey
        BY <1>5 DEF SettlePack, ChargedInv
      <3>2. ledger' = Booked(k, "settlement", p, ReserveKey(ScopeOf[r]))
        BY <2>3 DEF Settle
      <3>3. p \in Period \cup {None}
        BY DEF Entry
      <3>4. /\ ledger'[k].type = "settlement" /\ ledger'[k].reservation = ReserveKey(ScopeOf[r])
            /\ \A x \in MutationKey \ {k} : ledger'[x] = ledger[x]
        <4>1. ReserveKey(ScopeOf[r]) \in MutationKey \cup {None} /\ "settlement" \in EntryType
          BY DEF EntryType
        <4>2. /\ ledger'[k] = [type |-> "settlement", wallet |-> p, reservation |-> ReserveKey(ScopeOf[r])]
              /\ \A x \in MutationKey \ {k} : ledger'[x] = ledger[x]
          <5> HIDE DEF k, p
          <5> QED BY <3>1, <3>2, <3>3, <4>1, BookedEntry
        <4> QED BY <4>2
      <3>5. ASSUME NEW x \in MutationKey, ledger'[x].type = "settlement"
            PROVE  \E s \in ads' : x = SettleKey(s) /\ ledger'[x].reservation = ReserveKey(s)
        BY <2>1, <3>1, <3>4, <3>5 DEF ChargedInv
      <3>6. ASSUME NEW q \in Request, pc'[q] = "settle" PROVE ScopeOf[q] \in ads'
        BY <2>1, <3>6 DEF ChargedInv
      <3> HIDE DEF k, p
      <3> QED BY <3>5, <3>6, Zenon DEF ChargedInv
    <2> QED BY <1>5, <2>2, <2>3 DEF SettlePack
  <1>6. ASSUME NEW r \in Request, RefundPack(r) \/ RefundLost(r) \/ Crash(r) PROVE ChargedInv'
    <2>1. LedgerUnchanged
      BY <1>6 DEF RefundPack, RefundLost, Crash, RefundKey, Outstanding, Unused
    <2>2. ads' = ads /\ \E l \in {"undone", "failed", "gone"} : pc' = [pc EXCEPT ![r] = l]
      BY <1>6 DEF RefundPack, RefundLost, Crash, Goto
    <2> QED BY <1>1, <1>2, <2>1, <2>2
  <1>7. ASSUME UNCHANGED <<pc, ads>>, NoneSettled PROVE ChargedInv'
    BY <1>2, <1>7
  <1>8. CASE Bootstrap
    BY <1>7, <1>8, RowNotSettled DEF Bootstrap
  <1>9. CASE FirstDelivery
    BY <1>1, <1>7, <1>9, RowNotSettled DEF FirstDelivery
  <1>10. ASSUME NEW p \in PaidPeriod, PaidInvoice(p) PROVE ChargedInv'
    BY <1>7, <1>10, RowNotSettled, LedgerAssumption DEF PaidInvoice
  <1>11. ASSUME NEW c \in Correction, NEW d \in Delta, Correct(c, d) PROVE ChargedInv'
    BY <1>7, <1>11, RowNotSettled DEF Correct
  <1>12. ASSUME NEW p \in Period, TimePasses(p) PROVE ChargedInv'
    BY <1>1, <1>7, <1>12 DEF TimePasses, PeriodEnds
  <1>13. ASSUME NEW s \in BillingState, Billed(s) PROVE ChargedInv'
    BY <1>1, <1>7, <1>13 DEF Billed, BillingChanges
  <1>14. CASE UNCHANGED adVars
    BY <1>1, <1>7, <1>14 DEF adVars
  <1> QED
    BY <1>3, <1>4, <1>5, <1>6, <1>8, <1>9, <1>10, <1>11, <1>12, <1>13, <1>14
    DEF AdNext, RequestStep

(* The settlements of a wallet are at most the ads it paid for: each is under
   the settlement key of one of them. *)
LEMMA SpentOnAds ==
  ASSUME PaidInv, ChargedInv, Entries, NEW p \in Period
  PROVE  Cardinality(Spent(p)) <= Cardinality({s \in ads : ledger[ReserveKey(s)].wallet = p})
  <1> DEFINE Paid == {s \in ads : ledger[ReserveKey(s)].wallet = p}
             adOf == [k \in Spent(p) |-> CHOOSE s \in Paid : k = SettleKey(s)]
             keyOf == [s \in Paid |-> SettleKey(s)]
  <1> USE AdPacksAssumption
  <1>1. ASSUME NEW k \in Spent(p) PROVE \E s \in Paid : k = SettleKey(s)
    BY <1>1 DEF Spent, ChargedInv, Entries
  <1>2. adOf \in [Spent(p) -> Paid] /\ \A k \in Spent(p) : k = SettleKey(adOf[k])
    BY <1>1
  <1>3. adOf \in Injection(Spent(p), Paid)
    BY <1>2, Zenon DEF Injection, IsInjective
  <1>4. keyOf \in [Paid -> MutationKey]
    BY DEF PaidInv
  <1>5. keyOf \in Injection(Paid, MutationKey)
    BY <1>4 DEF Injection, IsInjective, SettleKey
  <1>6. IsFiniteSet(Paid)
    BY <1>5, LedgerAssumption, FS_Injection
  <1> QED BY <1>3, <1>6, FS_Injection

(* A wallet has consumed no more than the packs of the ads that exist, whatever
   fails between reservation, insert and settlement (route.ts, settleAdPackCredits). *)
THEOREM ChargedAlwaysForAds == AdSpec => []ChargedOnlyForAds
  <1>1. LedgerSpec => []LedgerInv
    BY LedgerInvInit, LedgerInvStep, PTL DEF LedgerSpec
  <1>2. PaidInv /\ ChargedInv /\ LedgerInv => ChargedOnlyForAds
    <2> SUFFICES ASSUME PaidInv, ChargedInv, LedgerInv, NEW p \in Period
                 PROVE  consumed[p] <= Pack * Cardinality({s \in ads : ledger[ReserveKey(s)].wallet = p})
      BY DEF ChargedOnlyForAds
    <2> DEFINE Paid == {s \in ads : ledger[ReserveKey(s)].wallet = p}
    <2>1. consumed[p] = Pack * Cardinality(Spent(p))
      BY DEF LedgerInv, BooksBalance
    <2>2. Cardinality(Spent(p)) <= Cardinality(Paid)
      BY SpentOnAds DEF LedgerInv
    <2>3. Cardinality(Spent(p)) \in Nat /\ Cardinality(Paid) \in Nat
      <3>1. IsFiniteSet(Spent(p))
        BY LedgerAssumption, FS_Subset DEF Spent
      <3>2. IsFiniteSet(Paid)
        <4> DEFINE keyOf == [s \in Paid |-> SettleKey(s)]
        <4>1. keyOf \in [Paid -> MutationKey]
          BY AdPacksAssumption DEF PaidInv
        <4>2. keyOf \in Injection(Paid, MutationKey)
          BY <4>1 DEF Injection, IsInjective, SettleKey
        <4> QED BY <4>2, LedgerAssumption, FS_Injection
      <3> QED BY <3>1, <3>2, FS_CardinalityType
    <2> QED BY <2>1, <2>2, <2>3, LedgerAssumption
  <1> QED BY <1>1, <1>2, CallersUseTheLedger, PaidInvInit, PaidInvStep, ChargedInvInit,
             ChargedInvStep, PTL DEF AdSpec

=============================================================================
