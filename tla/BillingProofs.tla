----------------------------- MODULE BillingProofs -----------------------------
(***************************************************************************)
(* Proofs about Billing for any events, contents, handlers and faults.     *)
(* Two facts carry everything: only an event without a receipt can still   *)
(* change its content (a reconciliation that is being fetched), and only a *)
(* handler that has claimed its event writes with it.  So what the row     *)
(* was written from stays as it was.  The row's mark, the set of events in *)
(* it and the grants only grow: so what an event has done stays done when  *)
(* other handlers go on, and the receipt may be settled on it.             *)
(***************************************************************************)
EXTENDS Billing, TLAPS

RowTyped == ws \in Row /\ written \subseteq Event
GrantTyped == credits \in [Event -> Nat] /\ wallet \in Nat /\ held \in BOOLEAN
MailTyped ==
  /\ mail \in [Stages -> Mail]
  /\ cleared \subseteq Stages /\ told \subseteq Stages /\ shown \subseteq Stages
WhatTyped ==
  /\ what \in [Event -> Content]
  /\ \A e \in Event :
       /\ Snapshot(e) => what[e].status # "none"
       /\ what[e].kind = "deleted" => what[e].status = "canceled"
Counted == hushed \subseteq Event /\ now \in 0 .. MaxTime /\ faults \in 0 .. MaxFaults

\* A handler that is fetching is the only one with its event, which has no
\* receipt; any other one at work has claimed its event
Fetching(a) ==
  at[a].step = "fetched" =>
    /\ at[a].on \in Reconciliation /\ receipt[at[a].on] = "new" /\ Snapshot(at[a].on)
    /\ \A b \in Attempt \ {a} : at[b].on # at[a].on
AtWork(a) == at[a].step \notin {"idle", "fetched"}
Claimed(a) == AtWork(a) => at[a].on \in Event /\ receipt[at[a].on] # "new"
Asks(e) == Snapshot(e) \/ what[e].kind = "failed"
Asking(a) == at[a].step \in {"read", "stage"} => Asks(at[a].on)
Handlers ==
  /\ at \in [Attempt -> Handler]
  /\ \A a \in Attempt : Fetching(a) /\ Claimed(a) /\ Asking(a)

Typed ==
  InboxTypeOK /\ WhatTyped /\ RowTyped /\ GrantTyped /\ MailTyped /\ Counted /\ Handlers

LEMMA TypedIsTypeOK == Typed => TypeOK
BY DEF Typed, TypeOK, WhatTyped, RowTyped, GrantTyped, MailTyped, Counted, Handlers

-----------------------------------------------------------------------------
(* The inbox *)

\* Receipts come into being only by a claim, and contents do not change
Calm == what' = what /\ \A e \in Event : receipt'[e] = "new" <=> receipt[e] = "new"

LEMMA ClaimTyped ==
  ASSUME InboxTypeOK, NEW e \in Event, NEW a \in Attempt, ClaimReceipt(e, a)
  PROVE  /\ InboxTypeOK'
         /\ receipt'[e] = "processing"
         /\ \A f \in Event \ {e} : receipt'[f] = receipt[f]
BY DEF InboxTypeOK, ClaimReceipt

LEMMA FinishTyped ==
  ASSUME InboxTypeOK, NEW e \in Event, NEW a \in Attempt, NEW s \in Final \cup {"failed"},
         FinishReceipt(e, a, s), UNCHANGED what
  PROVE  InboxTypeOK' /\ Calm
<1>1. s # "new" BY BillingAssumption
<1>2. CASE Holds(e, a) BY <1>1, <1>2 DEF InboxTypeOK, FinishReceipt, Holds, Calm
<1>3. CASE ~Holds(e, a) BY <1>3 DEF InboxTypeOK, FinishReceipt, inbox, Calm
<1> QED BY <1>2, <1>3

LEMMA AbandonTyped ==
  ASSUME InboxTypeOK, NEW e, NEW a \in Attempt, Abandon(e, a), UNCHANGED what
  PROVE  InboxTypeOK' /\ Calm
BY DEF InboxTypeOK, Abandon, Calm

LEMMA ExpiryTyped ==
  ASSUME InboxTypeOK, NEW e \in Event, LeaseExpires(e), UNCHANGED what
  PROVE  InboxTypeOK' /\ Calm
BY DEF InboxTypeOK, LeaseExpires, Calm

LEMMA InboxStays ==
  ASSUME InboxTypeOK, UNCHANGED inbox, UNCHANGED what
  PROVE  InboxTypeOK' /\ Calm
BY DEF InboxTypeOK, inbox, Calm

-----------------------------------------------------------------------------
(* The handlers *)

LEMMA HandlersStay ==
  ASSUME Handlers, Calm, UNCHANGED at
  PROVE  Handlers'
<1> SUFFICES ASSUME NEW a \in Attempt PROVE (Fetching(a) /\ Claimed(a) /\ Asking(a))'
  BY DEF Handlers
<1> USE DEF Handlers, Handler, Calm, Snapshot, Asks
<1>1. at[a] = at'[a] OBVIOUS
<1>2. Fetching(a)' BY DEF Fetching, Reconciliation
<1>3. Claimed(a)' BY DEF Claimed, AtWork
<1>4. Asking(a)' BY DEF Asking, Asks, Snapshot
<1> QED BY <1>2, <1>3, <1>4

LEMMA HandlerMoves ==
  ASSUME Handlers, Calm, NEW a \in Attempt, AtWork(a), NEW c \in Contact,
         NEW s \in Steps \ {"idle", "fetched"}, Enter(a, at[a].on, s, c),
         s \in {"read", "stage"} => Asks(at[a].on)
  PROVE  Handlers'
<1> USE DEF Handlers, Handler, Calm, Snapshot, Asks
<1>1. at[a].on \in Event /\ receipt[at[a].on] # "new" BY DEF Claimed
<1>2. /\ at' \in [Attempt -> Handler]
      /\ at'[a] = [step |-> s, on |-> at[a].on, seen |-> c]
      /\ \A b \in Attempt \ {a} : at'[b] = at[b]
  BY <1>1 DEF Enter
<1>3. \A b \in Attempt : at'[b].on = at[b].on BY <1>2
<1> SUFFICES ASSUME NEW b \in Attempt PROVE (Fetching(b) /\ Claimed(b) /\ Asking(b))'
  BY <1>2
<1>4. CASE b = a BY <1>1, <1>2, <1>4 DEF Fetching, Claimed, Asking, Asks, Snapshot, AtWork
<1>5. CASE b # a
  <2>1. at'[b] = at[b] BY <1>2, <1>5
  <2>2. Fetching(b)' BY <2>1, <1>3 DEF Fetching, Reconciliation
  <2>3. Claimed(b)' BY <2>1 DEF Claimed, AtWork
  <2>4. Asking(b)' BY <2>1 DEF Asking, Asks, Snapshot
  <2> QED BY <2>2, <2>3, <2>4
<1> QED BY <1>4, <1>5

LEMMA HandlerEnds ==
  ASSUME Handlers, Calm, NEW a \in Attempt, End(a)
  PROVE  Handlers'
<1> USE DEF Handlers, Handler, Calm, Snapshot, Asks
<1>1. Idle \in Handler /\ Idle.on = 0 /\ Idle.step = "idle"
  BY DEF Idle, NoContact, Contact, Steps, Statuses
<1>2. at' \in [Attempt -> Handler] /\ at'[a] = Idle /\ \A b \in Attempt \ {a} : at'[b] = at[b]
  BY <1>1 DEF End
<1> SUFFICES ASSUME NEW b \in Attempt PROVE (Fetching(b) /\ Claimed(b) /\ Asking(b))'
  BY <1>2
<1>3. CASE b = a BY <1>1, <1>2, <1>3 DEF Fetching, Claimed, Asking, Asks, Snapshot, AtWork
<1>4. CASE b # a
  <2>1. at'[b] = at[b] BY <1>2, <1>4
  <2>2. Fetching(b)'
    <3> SUFFICES ASSUME at[b].step = "fetched" PROVE Fetching(b)'
      BY <2>1 DEF Fetching
    <3>1. /\ at[b].on \in Reconciliation /\ receipt[at[b].on] = "new"
          /\ what[at[b].on].kind \in {"subscription", "deleted"}
          /\ \A d \in Attempt \ {b} : at[d].on # at[b].on
      BY DEF Fetching
    <3>2. at[b].on \in Event /\ at[b].on # 0
      BY <3>1, BillingAssumption DEF Reconciliation
    <3>3. ASSUME NEW d \in Attempt \ {b} PROVE at'[d].on # at[b].on
      BY <3>1, <3>2, <1>1, <1>2
    <3> QED BY <2>1, <3>1, <3>2, <3>3 DEF Fetching
  <2>3. Claimed(b)' BY <2>1 DEF Claimed, AtWork
  <2>4. Asking(b)' BY <2>1 DEF Asking, Asks, Snapshot
  <2> QED BY <2>2, <2>3, <2>4
<1> QED BY <1>3, <1>4

LEMMA NoContactTyped == NoContact \in Contact
BY DEF NoContact, Contact, Statuses

LEMMA HandlerFails ==
  ASSUME Handlers, Calm, NEW a \in Attempt, AtWork(a), Goto(a, "failing")
  PROVE  Handlers'
BY HandlerMoves, NoContactTyped DEF Goto, Steps

LEMMA HandlerProceeds ==
  ASSUME Handlers, Calm, Counted, UNCHANGED <<hushed, now>>,
         NEW a \in Attempt, AtWork(a), NEW c \in Contact,
         NEW s \in Steps \ {"idle", "fetched"}, Proceed(a, s, c),
         s \in {"read", "stage"} => Asks(at[a].on)
  PROVE  Handlers' /\ Counted'
<1>1. CASE Enter(a, at[a].on, s, c) /\ UNCHANGED faults
  BY <1>1, HandlerMoves DEF Counted
<1>2. CASE Goto(a, "failing") /\ Fault
  BY <1>2, HandlerFails, BillingAssumption DEF Counted, Fault
<1> QED BY <1>1, <1>2 DEF Proceed

-----------------------------------------------------------------------------
(* Every action keeps the types, and the content of an event that has a receipt *)

Kept == \A e \in Event : receipt[e] # "new" => receipt'[e] # "new" /\ what'[e] = what[e]

LEMMA CalmKeeps == Calm => Kept
BY DEF Calm, Kept

LEMMA DeliverTyped ==
  ASSUME Typed, NEW a \in Attempt, NEW e \in Event, Deliver(a, e)
  PROVE  Typed' /\ Kept
<1>1. InboxTypeOK' /\ receipt'[e] = "processing" /\ \A f \in Event \ {e} : receipt'[f] = receipt[f]
  BY ClaimTyped DEF Typed, Deliver
<1>2. FirstStep(e) \in {"read", "ignored", "update"}
      /\ (FirstStep(e) = "read" => Asks(e))
  BY DEF FirstStep, Asks
<1>3. /\ at' \in [Attempt -> Handler]
      /\ at'[a] = [step |-> FirstStep(e), on |-> e, seen |-> NoContact]
      /\ \A b \in Attempt \ {a} : at'[b] = at[b]
  BY <1>2, NoContactTyped DEF Typed, Handlers, Handler, Steps, Deliver, Enter
<1>4. what' = what BY DEF Deliver, clock
<1>5. Handlers'
  <2> SUFFICES ASSUME NEW b \in Attempt PROVE (Fetching(b) /\ Claimed(b) /\ Asking(b))'
    BY <1>3 DEF Handlers
  <2>1. CASE b = a
    BY <1>1, <1>2, <1>3, <1>4, <2>1 DEF Fetching, Claimed, Asking, Asks, Snapshot, AtWork
  <2>2. CASE b # a
    <3>1. at'[b] = at[b] /\ Fetching(b) /\ Claimed(b) /\ Asking(b)
      BY <1>3, <2>2 DEF Typed, Handlers
    <3>2. Fetching(b)'
      <4> SUFFICES ASSUME at[b].step = "fetched" PROVE Fetching(b)'
        BY <3>1 DEF Fetching
      <4>1. /\ at[b].on \in Reconciliation /\ receipt[at[b].on] = "new"
            /\ what[at[b].on].kind \in {"subscription", "deleted"}
            /\ \A d \in Attempt \ {b} : at[d].on # at[b].on
        BY <3>1 DEF Fetching, Snapshot
      <4>2. at[b].on \in Event /\ at[b].on # e
        BY <4>1 DEF Deliver, Sent, Reconciliation
      <4>3. ASSUME NEW d \in Attempt \ {b} PROVE at'[d].on # at[b].on
        BY <1>3, <4>1, <4>2
      <4> QED BY <1>1, <1>4, <3>1, <4>1, <4>2, <4>3 DEF Fetching, Snapshot, Reconciliation
    <3>3. Claimed(b)' BY <1>1, <3>1 DEF Claimed, AtWork
    <3>4. Asking(b)' BY <1>4, <3>1 DEF Asking, Asks, Snapshot
    <3> QED BY <3>2, <3>3, <3>4
  <2> QED BY <2>1, <2>2
<1>6. Kept BY <1>1, <1>4 DEF Kept
<1>7. WhatTyped' /\ RowTyped' /\ GrantTyped' /\ MailTyped' /\ Counted'
  BY <1>4 DEF Typed, WhatTyped, RowTyped, GrantTyped, MailTyped, Counted, Deliver, row,
     grant, clock, Snapshot, post, sending
<1> QED BY <1>1, <1>5, <1>6, <1>7 DEF Typed

LEMMA FetchTyped ==
  ASSUME Typed, NEW a \in Attempt, NEW e \in Event, Fetch(a, e)
  PROVE  Typed' /\ Kept
<1>1. PICK f \in Event : Latest(f) /\ what' = [what EXCEPT ![e] = what[f]]
  BY DEF Fetch
<1>2. what[f] \in Content /\ Snapshot(f) /\ what[f].status # "none"
  BY <1>1 DEF Typed, WhatTyped, Latest, Issued
<1>3. /\ what' \in [Event -> Content] /\ what'[e] = what[f]
      /\ \A g \in Event \ {e} : what'[g] = what[g]
  BY <1>1, <1>2 DEF Typed, WhatTyped
<1>4. WhatTyped' BY <1>2, <1>3 DEF Typed, WhatTyped, Snapshot
<1>5. InboxTypeOK' /\ receipt' = receipt BY DEF Typed, InboxTypeOK, Fetch, inbox
<1>6. /\ at' \in [Attempt -> Handler]
      /\ at'[a] = [step |-> "fetched", on |-> e, seen |-> NoContact]
      /\ \A b \in Attempt \ {a} : at'[b] = at[b]
  BY NoContactTyped DEF Typed, Handlers, Handler, Steps, Fetch, Enter
<1>7. \A b \in Attempt : at[b].on # e BY DEF Fetch
<1>8. Handlers'
  <2> SUFFICES ASSUME NEW b \in Attempt PROVE (Fetching(b) /\ Claimed(b) /\ Asking(b))'
    BY <1>6 DEF Handlers
  <2>1. CASE b = a
    <3>1. at'[a].on = e /\ at'[a].step = "fetched" BY <1>6
    <3>2. e \in Reconciliation /\ receipt'[e] = "new" BY <1>5 DEF Fetch
    <3>3. what'[e].kind \in {"subscription", "deleted"} BY <1>2, <1>3 DEF Snapshot
    <3>4. \A d \in Attempt \ {a} : at'[d].on # e BY <1>6, <1>7
    <3> QED BY <2>1, <3>1, <3>2, <3>3, <3>4 DEF Fetching, Claimed, Asking, Asks, Snapshot, AtWork,
            Reconciliation
  <2>2. CASE b # a
    <3>1. at'[b] = at[b] /\ Fetching(b) /\ Claimed(b) /\ Asking(b)
      BY <1>6, <2>2 DEF Typed, Handlers
    <3>2. Fetching(b)'
      <4> SUFFICES ASSUME at[b].step = "fetched" PROVE Fetching(b)'
        BY <3>1 DEF Fetching
      <4>1. /\ at[b].on \in Reconciliation /\ receipt[at[b].on] = "new"
            /\ what[at[b].on].kind \in {"subscription", "deleted"}
            /\ \A d \in Attempt \ {b} : at[d].on # at[b].on
        BY <3>1 DEF Fetching, Snapshot
      <4>2. at[b].on \in Event /\ at[b].on # e BY <1>7, <4>1 DEF Reconciliation
      <4>3. ASSUME NEW d \in Attempt \ {b} PROVE at'[d].on # at[b].on
        BY <1>6, <4>1, <4>2
      <4> QED BY <1>3, <1>5, <3>1, <4>1, <4>2, <4>3 DEF Fetching, Snapshot, Reconciliation
    <3>3. Claimed(b)' BY <1>5, <3>1 DEF Claimed, AtWork
    <3>4. Asking(b)'
      <4> SUFFICES ASSUME at[b].step \in {"read", "stage"} PROVE Asking(b)'
        BY <3>1 DEF Asking, Asks, Snapshot
      <4>1. at[b].on \in Event /\ at[b].on # e BY <1>7, <3>1 DEF Claimed, AtWork
      <4> QED BY <1>3, <3>1, <4>1 DEF Asking, Asks, Snapshot
    <3> QED BY <3>2, <3>3, <3>4
  <2> QED BY <2>1, <2>2
<1>9. Kept BY <1>3, <1>5 DEF Kept, Fetch
<1>10. RowTyped' /\ GrantTyped' /\ MailTyped' /\ Counted'
  BY DEF Typed, RowTyped, GrantTyped, MailTyped, Counted, Fetch, row, grant,
     post, sending
<1> QED BY <1>4, <1>5, <1>8, <1>9, <1>10 DEF Typed

LEMMA StampTyped ==
  ASSUME Typed, NEW a \in Attempt, Stamp(a)
  PROVE  Typed' /\ Kept
<1> DEFINE e == at[a].on
<1>1. /\ e \in Event /\ e \in Reconciliation /\ receipt[e] = "new" /\ Snapshot(e)
      /\ \A b \in Attempt \ {a} : at[b].on # e
  BY DEF Typed, Handlers, Fetching, Stamp, Working, Reconciliation
<1>2. what[e] \in Content /\ what[e].status # "none" /\ now \in Nat
  <2>1. now \in Nat BY BillingAssumption DEF Typed, Counted
  <2>2. what[e] \in Content /\ what[e].status # "none"
    BY <1>1 DEF Typed, WhatTyped, Snapshot
  <2> QED BY <2>1, <2>2
<1>3. PICK c \in Content : c.kind = "subscription" /\ c.status = what[e].status
                          /\ what' = [what EXCEPT ![e] = c]
  <2> DEFINE k == [kind |-> "subscription", at |-> now, status |-> what[e].status,
                   cancel |-> what[e].cancel, period |-> what[e].period]
  <2>1. k \in Content /\ k.kind = "subscription" /\ k.status = what[e].status
    BY <1>2 DEF Content, Kinds
  <2>2. what' = [what EXCEPT ![e] = k] BY DEF Stamp
  <2> HIDE DEF k
  <2> QED BY <2>1, <2>2
<1>4. InboxTypeOK' /\ receipt'[e] = "processing" /\ \A f \in Event \ {e} : receipt'[f] = receipt[f]
  <2>1. ClaimReceipt(e, a) BY DEF Stamp
  <2> HIDE DEF e
  <2> QED BY <1>1, <2>1, ClaimTyped DEF Typed
<1>5. /\ at' \in [Attempt -> Handler]
      /\ at'[a] = [step |-> "read", on |-> e, seen |-> NoContact]
      /\ \A b \in Attempt \ {a} : at'[b] = at[b]
  BY <1>1, NoContactTyped DEF Typed, Handlers, Handler, Steps, Stamp, Goto, Enter
<1> HIDE DEF e
<1>6. /\ what' \in [Event -> Content] /\ what'[e].kind = "subscription"
      /\ what'[e].status # "none"
      /\ \A g \in Event \ {e} : what'[g] = what[g]
  BY <1>1, <1>2, <1>3 DEF Typed, WhatTyped
<1>7. WhatTyped' BY <1>6 DEF Typed, WhatTyped, Snapshot
<1>8. Handlers'
  <2> SUFFICES ASSUME NEW b \in Attempt PROVE (Fetching(b) /\ Claimed(b) /\ Asking(b))'
    BY <1>5 DEF Handlers
  <2>1. CASE b = a
    BY <1>1, <1>4, <1>5, <1>6, <2>1 DEF Fetching, Claimed, Asking, Asks, Snapshot, AtWork
  <2>2. CASE b # a
    <3>1. at'[b] = at[b] /\ at[b].on # e /\ Fetching(b) /\ Claimed(b) /\ Asking(b)
      BY <1>1, <1>5, <2>2 DEF Typed, Handlers
    <3>2. Fetching(b)'
      <4> SUFFICES ASSUME at[b].step = "fetched" PROVE Fetching(b)'
        BY <3>1 DEF Fetching
      <4>1. /\ at[b].on \in Reconciliation /\ receipt[at[b].on] = "new"
            /\ what[at[b].on].kind \in {"subscription", "deleted"}
            /\ \A d \in Attempt \ {b} : at[d].on # at[b].on
        BY <3>1 DEF Fetching, Snapshot
      <4>2. at[b].on \in Event BY <4>1 DEF Reconciliation
      <4>3. ASSUME NEW d \in Attempt \ {b} PROVE at'[d].on # at[b].on
        BY <1>5, <3>1, <4>1
      <4> QED BY <1>4, <1>6, <3>1, <4>1, <4>2, <4>3 DEF Fetching, Snapshot, Reconciliation
    <3>3. Claimed(b)' BY <1>4, <3>1 DEF Claimed, AtWork
    <3>4. Asking(b)'
      <4> SUFFICES ASSUME at[b].step \in {"read", "stage"} PROVE Asking(b)'
        BY <3>1 DEF Asking, Asks, Snapshot
      <4>1. at[b].on \in Event BY <3>1 DEF Claimed, AtWork
      <4> QED BY <1>6, <3>1, <4>1 DEF Asking, Asks, Snapshot
    <3> QED BY <3>2, <3>3, <3>4
  <2> QED BY <2>1, <2>2
<1>9. Kept BY <1>1, <1>4, <1>6 DEF Kept
<1>10. RowTyped' /\ GrantTyped' /\ MailTyped' /\ Counted'
  BY DEF Typed, RowTyped, GrantTyped, MailTyped, Counted, Stamp, row, grant,
     post, sending
<1> QED BY <1>4, <1>7, <1>8, <1>9, <1>10 DEF Typed

\* The other actions are calm: what they leave alone stays typed
LEMMA CalmTyped ==
  ASSUME Typed, InboxTypeOK' /\ Calm, Handlers', Counted',
         RowTyped', GrantTyped', MailTyped'
  PROVE  Typed' /\ Kept
<1>1. WhatTyped' BY DEF Typed, WhatTyped, Calm, Snapshot
<1> QED BY <1>1, CalmKeeps DEF Typed

LEMMA RowStays == ASSUME Typed, UNCHANGED row PROVE RowTyped'
BY DEF Typed, RowTyped, row

LEMMA GrantStays == ASSUME Typed, UNCHANGED grant PROVE GrantTyped'
BY DEF Typed, GrantTyped, grant

LEMMA MailStays == ASSUME Typed, UNCHANGED post PROVE MailTyped'
BY DEF Typed, MailTyped, post, sending

LEMMA FaultCounted ==
  ASSUME Typed, UNCHANGED <<hushed, now>>, Fault \/ UNCHANGED faults
  PROVE  Counted'
BY BillingAssumption DEF Typed, Counted, Fault

LEMMA DuplicateTyped ==
  ASSUME Typed, NEW e \in Event, Duplicate(e)
  PROVE  Typed' /\ Kept
<1>1. InboxTypeOK' /\ Calm BY InboxStays DEF Typed, Duplicate, clock
<1>2. Handlers' BY <1>1, HandlersStay DEF Typed, Duplicate
<1>3. Counted' BY DEF Typed, Counted, Duplicate, clock
<1> QED BY <1>1, <1>2, <1>3, CalmTyped, RowStays, GrantStays, MailStays DEF Duplicate

LEMMA ReadContactTyped ==
  ASSUME Typed, NEW a \in Attempt, ReadContact(a)
  PROVE  Typed' /\ Kept
<1>1. InboxTypeOK' /\ Calm BY InboxStays DEF Typed, ReadContact, clock
<1> DEFINE c == [status |-> ws.status, cancel |-> ws.cancel, high |-> ws.high]
<1>2. c \in Contact BY DEF Typed, RowTyped, Row, Contact
<1>3. Proceed(a, "stage", c) BY DEF ReadContact
<1> HIDE DEF c
<1>4. AtWork(a) /\ Asks(at[a].on)
  BY DEF Typed, Handlers, Asking, AtWork, ReadContact, Working
<1>5. Handlers' /\ Counted'
  BY <1>1, <1>2, <1>3, <1>4, HandlerProceeds DEF Typed, ReadContact, clock, Steps
<1> QED BY <1>1, <1>5, CalmTyped, RowStays, GrantStays, MailStays DEF ReadContact

LEMMA AskStageTyped ==
  ASSUME Typed, NEW a \in Attempt, AskStage(a)
  PROVE  Typed' /\ Kept
<1>1. InboxTypeOK' /\ Calm BY InboxStays DEF Typed, AskStage, clock
<1>2. AtWork(a) /\ at[a].on \in Event
  BY DEF Typed, Handlers, Claimed, AtWork, AskStage, Working
<1>3. Handlers' /\ Counted'
  BY <1>1, <1>2, HandlerProceeds, NoContactTyped DEF Typed, AskStage, clock, Steps
<1>4. MailTyped'
  <2>1. [state |-> "open", for |-> at[a].on] \in Mail BY <1>2 DEF Mail
  <2>2. \A s \in Stages : mail[s] \in Mail BY DEF Typed, MailTyped
  <2>3. Announces(at[a].on, at[a].seen) \subseteq Stages BY DEF Announces, Stages
  <2>4. shown' \subseteq Stages BY <2>3 DEF Typed, MailTyped, AskStage
  <2>5. mail' \in [Stages -> Mail] BY <2>1, <2>2 DEF AskStage
  <2> QED BY <2>4, <2>5 DEF Typed, MailTyped, AskStage, sending
<1> QED BY <1>1, <1>3, <1>4, CalmTyped, RowStays, GrantStays DEF AskStage

\* The row: whatever an event's patch, its columns keep their types
LEMMA UpdateRowTyped ==
  ASSUME Typed, NEW e \in Event, UpdateRow(e)
  PROVE  RowTyped'
<1>1. what[e] \in Content /\ ws \in Row /\ written \subseteq Event
  BY DEF Typed, WhatTyped, RowTyped
<1>2. StatusOf(e) \in Statuses /\ CancelOf(e) \in BOOLEAN /\ PeriodOf(e) \in Nat
  BY <1>1 DEF StatusOf, CancelOf, PeriodOf, Content, Row
<1>3. AccessOf(e) \in Access
  BY <1>1 DEF AccessOf, AccessForStatus, Access, Row
<1>4. GuardedAccess(e) \in Access BY <1>1, <1>3 DEF GuardedAccess, Row
<1>5. RiskOf(e) \in Risk BY <1>1 DEF RiskOf, Risk, Row
<1>6. CASE ~UpToDate(e) BY <1>1, <1>6 DEF UpdateRow, row, RowTyped
<1>7. CASE UpToDate(e)
  <2>1. what[e].at \in Nat BY <1>1 DEF Content
  <2>2. ws' = [status |-> StatusOf(e), cancel |-> CancelOf(e),
                 access |-> GuardedAccess(e), risk |-> RiskOf(e),
                 period |-> PeriodOf(e), high |-> what[e].at, by |-> e]
    BY <1>7 DEF UpdateRow
  <2>3. ws' \in Row BY <1>2, <1>4, <1>5, <2>1, <2>2 DEF Row
  <2>4. written' \subseteq Event BY <1>1, <1>7 DEF UpdateRow
  <2> QED BY <2>3, <2>4 DEF RowTyped
<1> QED BY <1>6, <1>7

LEMMA UpdateTyped ==
  ASSUME Typed, NEW a \in Attempt, Update(a)
  PROVE  Typed' /\ Kept /\ at[a].on \in Event /\ receipt[at[a].on] # "new"
<1>1. InboxTypeOK' /\ Calm BY InboxStays DEF Typed, Update, clock
<1>2. AtWork(a) /\ at[a].on \in Event /\ receipt[at[a].on] # "new"
  BY DEF Typed, Handlers, Claimed, AtWork, Update, Working
<1>3. AfterUpdate(at[a].on) \in {"grant", "applied", "ignored"} BY DEF AfterUpdate
<1>4. Handlers' /\ Counted'
  BY <1>1, <1>2, <1>3, HandlerProceeds, NoContactTyped DEF Typed, Update, clock, Steps
<1>5. RowTyped' BY <1>2, UpdateRowTyped DEF Update
<1>6. MailTyped' BY DEF Typed, MailTyped, Update, sending
<1> QED BY <1>1, <1>2, <1>4, <1>5, <1>6, CalmTyped, GrantStays DEF Update

LEMMA GrantTypedNext ==
  ASSUME Typed, NEW a \in Attempt, Grant(a)
  PROVE  Typed' /\ Kept
<1>1. InboxTypeOK' /\ Calm BY InboxStays DEF Typed, Grant, clock
<1>2. AtWork(a) /\ at[a].on \in Event
  BY DEF Typed, Handlers, Claimed, AtWork, Grant, Working
<1>3. Handlers' /\ Counted'
  <2>1. CASE Proceed(a, "applied", NoContact)
    BY <1>1, <1>2, <2>1, HandlerProceeds, NoContactTyped DEF Typed, Grant, clock, Steps
  <2>2. CASE Goto(a, "failing") /\ UNCHANGED faults
    BY <1>1, <1>2, <2>2, HandlerFails, FaultCounted DEF Typed, Grant, clock
  <2> QED BY <2>1, <2>2 DEF Grant
<1>4. GrantTyped'
  <2>1. CASE UNCHANGED grant BY <2>1, GrantStays
  <2>2. CASE ~UNCHANGED grant
    <3>1. credits[at[a].on] \in Nat /\ what[at[a].on].period \in Nat
      BY <1>2 DEF Typed, GrantTyped, WhatTyped, Content
    <3> QED BY <1>2, <2>2, <3>1 DEF Typed, GrantTyped, Grant
  <2> QED BY <2>1, <2>2
<1> QED BY <1>1, <1>3, <1>4, CalmTyped, MailStays, RowStays DEF Grant

LEMMA FinishTypedNext ==
  ASSUME Typed, NEW a \in Attempt, Finish(a)
  PROVE  Typed' /\ Kept
<1>1. AtWork(a) /\ at[a].on \in Event /\ at[a].step \in Final
  BY BillingAssumption DEF Typed, Handlers, Claimed, AtWork, Finish
<1>2. InboxTypeOK' /\ Calm BY <1>1, FinishTyped DEF Typed, Finish, clock
<1>3. Handlers' BY <1>1, <1>2, HandlerEnds, HandlerFails DEF Typed, Finish
<1>4. Counted' BY FaultCounted DEF Finish, clock
<1> QED BY <1>2, <1>3, <1>4, CalmTyped, MailStays, RowStays, GrantStays DEF Finish

LEMMA FailTyped ==
  ASSUME Typed, NEW a \in Attempt, Fail(a)
  PROVE  Typed' /\ Kept
<1>1. at[a].on \in Event
  BY DEF Typed, Handlers, Claimed, AtWork, Fail, Working
<1>2. InboxTypeOK' /\ Calm BY <1>1, FinishTyped DEF Typed, Fail, clock
<1>3. Handlers' BY <1>2, HandlerEnds DEF Typed, Fail
<1>4. Counted' BY FaultCounted DEF Fail, clock
<1> QED BY <1>2, <1>3, <1>4, CalmTyped, MailStays, RowStays, GrantStays DEF Fail

LEMMA StepFailsTyped ==
  ASSUME Typed, NEW a \in Attempt, StepFails(a)
  PROVE  Typed' /\ Kept
<1>1. AtWork(a) BY BillingAssumption DEF AtWork, StepFails
<1>2. InboxTypeOK' /\ Calm BY InboxStays DEF Typed, StepFails, clock
<1>3. Handlers' BY <1>1, <1>2, HandlerFails DEF Typed, StepFails
<1>4. Counted' BY FaultCounted DEF StepFails, clock
<1> QED BY <1>2, <1>3, <1>4, CalmTyped, MailStays, RowStays, GrantStays DEF StepFails

LEMMA CrashTyped ==
  ASSUME Typed, NEW a \in Attempt, Crash(a)
  PROVE  Typed' /\ Kept
<1>1. InboxTypeOK' /\ Calm BY AbandonTyped DEF Typed, Crash, clock
<1>2. Handlers' BY <1>1, HandlerEnds DEF Typed, Crash
<1>3. Counted' BY FaultCounted DEF Crash, clock
<1> QED BY <1>1, <1>2, <1>3, CalmTyped, MailStays, RowStays, GrantStays DEF Crash

LEMMA JobTyped ==
  ASSUME Typed, NEW s \in Stages, MailStep(s)
  PROVE  Typed' /\ Kept
<1>1. InboxTypeOK' /\ Calm BY InboxStays DEF Typed, MailStep, Judge, Announce, Unsent, GiveUp, clock
<1>2. Handlers' BY <1>1, HandlersStay DEF Typed, MailStep, Judge, Announce, Unsent, GiveUp
<1>3. Counted' BY FaultCounted DEF MailStep, Judge, Announce, Unsent, GiveUp, clock
<1>4. MailTyped'
  <2>1. CASE UNCHANGED mail
    BY <2>1 DEF Typed, MailTyped, MailStep, Judge, Announce, Unsent, GiveUp, sending
  <2>2. CASE Closed(s)
    <3>1. mail' \in [Stages -> Mail] BY <2>2 DEF Typed, MailTyped, Mail, Closed
    <3> QED BY <3>1 DEF Typed, MailTyped, MailStep, Judge, Announce, Unsent, GiveUp, sending
  <2> QED BY <2>1, <2>2 DEF MailStep, Judge, Announce, Unsent, GiveUp
<1> QED BY <1>1, <1>2, <1>3, <1>4, CalmTyped, RowStays, GrantStays
        DEF MailStep, Judge, Announce, Unsent, GiveUp

LEMMA HoldTyped == ASSUME Typed, Reserve \/ Release PROVE Typed' /\ Kept
<1>1. InboxTypeOK' /\ Calm BY InboxStays DEF Typed, Reserve, Release, clock
<1>2. Handlers' BY <1>1, HandlersStay DEF Typed, Reserve, Release
<1>3. Counted' BY FaultCounted DEF Reserve, Release, clock
<1>4. GrantTyped' BY DEF Typed, GrantTyped, Reserve, Release
<1> QED BY <1>1, <1>2, <1>3, <1>4, CalmTyped, MailStays, RowStays DEF Reserve, Release

LEMMA TickTyped == ASSUME Typed, Tick PROVE Typed' /\ Kept
<1>1. InboxTypeOK' /\ Calm BY InboxStays DEF Typed, Tick
<1>2. Handlers' BY <1>1, HandlersStay DEF Typed, Tick
<1>3. Counted' BY BillingAssumption DEF Typed, Counted, Tick
<1> QED BY <1>1, <1>2, <1>3, CalmTyped, MailStays, RowStays, GrantStays DEF Tick

LEMMA ExpireTyped ==
  ASSUME Typed, NEW e \in Event, Expire(e)
  PROVE  Typed' /\ Kept
<1>1. InboxTypeOK' /\ Calm BY ExpiryTyped DEF Typed, Expire, clock
<1>2. Handlers' BY <1>1, HandlersStay DEF Typed, Expire
<1>3. Counted' BY FaultCounted DEF Expire, clock
<1> QED BY <1>1, <1>2, <1>3, CalmTyped, MailStays, RowStays, GrantStays DEF Expire

\* What a step may change: the row by an update, the grants by a grant, the
\* jobs by a handler that asks for a stage or by a worker
Moves ==
  /\ UNCHANGED row \/ \E a \in Attempt : Update(a)
  /\ UNCHANGED <<credits, wallet>> \/ \E a \in Attempt : Grant(a)
  /\ \/ UNCHANGED post
     \/ \E a \in Attempt : AskStage(a) \/ Update(a)
     \/ \E s \in Stages : MailStep(s)

LEMMA EveryStep == Typed /\ [Next]_vars => Typed' /\ Kept /\ Moves
<1> SUFFICES ASSUME Typed, [Next]_vars PROVE Typed' /\ Kept /\ Moves
  OBVIOUS
<1>1. ASSUME NEW a \in Attempt, NEW e \in Event, Deliver(a, e) PROVE Typed' /\ Kept /\ Moves
  BY <1>1, DeliverTyped DEF Deliver, Moves, grant
<1>2. ASSUME NEW a \in Attempt, NEW e \in Event, Fetch(a, e) PROVE Typed' /\ Kept /\ Moves
  BY <1>2, FetchTyped DEF Fetch, Moves, grant
<1>3. ASSUME NEW a \in Attempt, Stamp(a) PROVE Typed' /\ Kept /\ Moves
  BY <1>3, StampTyped DEF Stamp, Moves, grant
<1>4. ASSUME NEW a \in Attempt, ReadContact(a) PROVE Typed' /\ Kept /\ Moves
  BY <1>4, ReadContactTyped DEF ReadContact, Moves, grant
<1>5. ASSUME NEW a \in Attempt, AskStage(a) PROVE Typed' /\ Kept /\ Moves
  <2>1. Typed' /\ Kept BY <1>5, AskStageTyped
  <2>2. UNCHANGED row /\ UNCHANGED grant BY <1>5 DEF AskStage
  <2> QED BY <1>5, <2>1, <2>2 DEF Moves, grant
<1>6. ASSUME NEW a \in Attempt, Update(a) PROVE Typed' /\ Kept /\ Moves
  <2>1. Typed' /\ Kept BY <1>6, UpdateTyped
  <2>2. UNCHANGED grant BY <1>6 DEF Update
  <2> QED BY <1>6, <2>1, <2>2 DEF Moves, grant
<1>7. ASSUME NEW a \in Attempt, Grant(a) PROVE Typed' /\ Kept /\ Moves
  <2>1. Typed' /\ Kept BY <1>7, GrantTypedNext
  <2>2. UNCHANGED post /\ UNCHANGED row BY <1>7 DEF Grant
  <2> QED BY <1>7, <2>1, <2>2 DEF Moves
<1>8. ASSUME NEW a \in Attempt, Finish(a) PROVE Typed' /\ Kept /\ Moves
  BY <1>8, FinishTypedNext DEF Finish, Moves, grant
<1>9. ASSUME NEW a \in Attempt, Fail(a) PROVE Typed' /\ Kept /\ Moves
  BY <1>9, FailTyped DEF Fail, Moves, grant
<1>10. ASSUME NEW a \in Attempt, StepFails(a) PROVE Typed' /\ Kept /\ Moves
  BY <1>10, StepFailsTyped DEF StepFails, Moves, grant
<1>11. ASSUME NEW a \in Attempt, Crash(a) PROVE Typed' /\ Kept /\ Moves
  BY <1>11, CrashTyped DEF Crash, Moves, grant
<1>12. ASSUME NEW e \in Event, Duplicate(e) PROVE Typed' /\ Kept /\ Moves
  BY <1>12, DuplicateTyped DEF Duplicate, Moves, grant
<1>13. ASSUME NEW e \in Event, Expire(e) PROVE Typed' /\ Kept /\ Moves
  BY <1>13, ExpireTyped DEF Expire, Moves, grant
<1>14. ASSUME NEW s \in Stages, MailStep(s) PROVE Typed' /\ Kept /\ Moves
  <2>1. Typed' /\ Kept BY <1>14, JobTyped
  <2>2. UNCHANGED row /\ UNCHANGED grant BY <1>14 DEF MailStep, Judge, Announce, Unsent, GiveUp
  <2> QED BY <1>14, <2>1, <2>2 DEF Moves, grant
<1>15. CASE Tick BY <1>15, TickTyped DEF Tick, Moves, grant
<1>17. CASE Reserve \/ Release BY <1>17, HoldTyped DEF Reserve, Release, Moves
<1>16. CASE UNCHANGED vars
  <2>1. InboxTypeOK' /\ Calm BY <1>16, InboxStays DEF Typed, vars, clock
  <2>2. Handlers' BY <1>16, <2>1, HandlersStay DEF Typed, vars
  <2>3. Counted' BY <1>16, FaultCounted DEF vars, clock
  <2>4. UNCHANGED row /\ UNCHANGED grant /\ UNCHANGED post BY <1>16 DEF vars
  <2> QED BY <2>1, <2>2, <2>3, <2>4, CalmTyped, RowStays, GrantStays, MailStays DEF Moves, grant
<1> QED
  <2>1. CASE \E a \in Attempt : Step(a)
    BY <2>1, <1>3, <1>4, <1>5, <1>6, <1>7, <1>8, <1>9 DEF Step
  <2>2. CASE Next /\ ~\E a \in Attempt : Step(a)
    BY <2>2, <1>1, <1>2, <1>10, <1>11, <1>12, <1>13, <1>14, <1>15, <1>17 DEF Next
  <2> QED BY <2>1, <2>2, <1>16

LEMMA InitTyped == Init => Typed
<1> SUFFICES ASSUME Init PROVE Typed
  OBVIOUS
<1>1. InboxTypeOK BY DEF Init, InboxInit, InboxTypeOK
<1>2. WhatTyped BY BillingAssumption DEF Init, WhatTyped, Snapshot
<1>3. RowTyped BY DEF Init, RowTyped, Row, Statuses, Access, Risk
<1>4. GrantTyped BY DEF Init, GrantTyped
<1>5. MailTyped BY DEF Init, MailTyped, Mail
<1>6. Counted BY BillingAssumption DEF Init, Counted
<1>7. Handlers
  BY NoContactTyped DEF Init, Handlers, Handler, Idle, Steps, Fetching, Claimed, Asking, AtWork
<1> QED BY <1>1, <1>2, <1>3, <1>4, <1>5, <1>6, <1>7 DEF Typed

\* Type correctness of the whole component, for any events, contents,
\* handlers and faults (Billing).
THEOREM BillingTypeCorrect == Spec => []TypeOK
<1>1. Init => Typed BY InitTyped
<1>2. Typed /\ [Next]_vars => Typed' BY EveryStep
<1>3. Typed => TypeOK BY TypedIsTypeOK
<1> QED BY <1>1, <1>2, <1>3, PTL DEF Spec

-----------------------------------------------------------------------------
(* The row: what it was written from, and the risk it carries *)

Marked == \A e \in written : receipt[e] # "new" /\ what[e].at <= ws.high
Latched == ws.risk # "none" => ws.access \in Suspended
Paid(r) == what[r].kind \in Suspending => Restored(r)
PaidFor == ws.risk = "none" => \A r \in written : Paid(r)
RowInv == Marked /\ Latched /\ PaidFor /\ NewestSnapshotShown

\* What was written keeps its content, so a row that is not written keeps all
LEMMA RowKeeps == ASSUME Typed, RowInv, Kept, UNCHANGED row PROVE RowInv'
<1>1. /\ ws' = ws /\ written' = written /\ written \subseteq Event
      /\ \A e \in written : receipt'[e] # "new" /\ what'[e] = what[e]
  BY DEF Typed, RowTyped, RowInv, Marked, Kept, row
<1>2. Marked' BY <1>1 DEF RowInv, Marked
<1>3. Latched' BY <1>1 DEF RowInv, Latched
<1>4. PaidFor' BY <1>1 DEF RowInv, PaidFor, Paid, Restored
<1>5. NewestSnapshotShown'
  BY <1>1 DEF RowInv, NewestSnapshotShown, Carries, Snapshot, TrialCheckout
<1> QED BY <1>2, <1>3, <1>4, <1>5 DEF RowInv

\* A latched risk is kept by whatever does not answer it
LEMMA GuardLatches ==
  ASSUME Latched, NEW e \in Event, RiskOf(e) # "none"
  PROVE  GuardedAccess(e) \in Suspended
<1>1. what[e].kind # "paid" BY DEF RiskOf
<1>2. CASE ws.risk # "none" /\ RiskOf(e) = ws.risk
  <2>1. ws.access \in Suspended BY <1>2 DEF Latched
  <2> QED BY <1>2, <2>1 DEF GuardedAccess, Suspended
<1>3. CASE ~(ws.risk # "none" /\ RiskOf(e) = ws.risk)
  <2>1. what[e].kind \in {"refund", "dispute", "won"} BY <1>3 DEF RiskOf
  <2>2. AccessOf(e) \in Suspended
    BY <2>1 DEF AccessOf, Snapshot, TrialCheckout, Suspended
  <2>3. GuardedAccess(e) = AccessOf(e) BY <1>3 DEF GuardedAccess
  <2> QED BY <2>2, <2>3
<1> QED BY <1>2, <1>3

LEMMA RowUpdated ==
  ASSUME Typed, RowInv, NEW e \in Event, receipt[e] # "new", UpdateRow(e), UpToDate(e),
         Kept, UNCHANGED what
  PROVE  RowInv'
<1>1. /\ ws'.status = StatusOf(e) /\ ws'.access = GuardedAccess(e)
      /\ ws'.risk = RiskOf(e) /\ ws'.high = what[e].at
      /\ written' = written \cup {e}
  BY DEF UpdateRow
<1>2. /\ written \subseteq Event /\ what \in [Event -> Content] /\ ws.high \in Nat
      /\ ws.high <= what[e].at /\ what[e].at \in Nat
  BY DEF Typed, RowTyped, Row, WhatTyped, Content, UpToDate
<1>3. \A f \in written' : f \in Event /\ receipt[f] # "new" /\ what[f].at \in Nat
                         /\ what[f].at <= what[e].at
  BY <1>1, <1>2 DEF RowInv, Marked, Content
<1>4. Marked' BY <1>1, <1>3 DEF Marked, Kept
<1>5. Latched' BY <1>1, GuardLatches DEF RowInv, Latched
<1>6. PaidFor'
  <2> SUFFICES ASSUME RiskOf(e) = "none", NEW r \in written',
                      what[r].kind \in Suspending
               PROVE  Restored(r)'
    BY <1>1 DEF PaidFor, Paid
  <2>1. CASE what[e].kind = "paid"
    BY <2>1, <1>1, <1>3 DEF Restored
  <2>2. CASE what[e].kind # "paid"
    <3>1. ws.risk = "none" /\ what[e].kind \notin Suspending
      BY <2>2 DEF RiskOf, Suspending
    <3>2. r \in written BY <3>1, <1>1
    <3>3. Restored(r) BY <3>1, <3>2 DEF RowInv, PaidFor, Paid
    <3> QED BY <1>1, <3>3 DEF Restored
  <2> QED BY <2>1, <2>2
<1>7. NewestSnapshotShown'
  <2> SUFFICES ASSUME NEW s \in written', Carries(s)
               PROVE  \E t \in written' : /\ Carries(t) /\ what[t].status = ws'.status
                                          /\ what[t].at >= what[s].at
    BY DEF NewestSnapshotShown, Carries, Snapshot, TrialCheckout
  <2>1. CASE Carries(e)
    <3>1. StatusOf(e) = what[e].status BY <2>1 DEF StatusOf, Carries
    <3> QED BY <1>1, <1>3, <2>1, <3>1
  <2>2. CASE ~Carries(e)
    <3>1. ws'.status = ws.status BY <2>2, <1>1 DEF StatusOf, Carries
    <3>2. s \in written BY <2>2, <1>1
    <3>3. PICK t \in written : /\ Carries(t) /\ what[t].status = ws.status
                              /\ what[t].at >= what[s].at
      BY <3>2 DEF RowInv, NewestSnapshotShown
    <3> QED BY <1>1, <3>1, <3>3
  <2> QED BY <2>1, <2>2
<1> QED BY <1>4, <1>5, <1>6, <1>7 DEF RowInv

LEMMA RowStep == Typed /\ RowInv /\ [Next]_vars => RowInv'
<1> SUFFICES ASSUME Typed, RowInv, [Next]_vars PROVE RowInv'
  OBVIOUS
<1>1. Kept /\ Moves BY EveryStep
<1>2. CASE UNCHANGED row BY <1>1, <1>2, RowKeeps
<1>3. ASSUME NEW a \in Attempt, Update(a) PROVE RowInv'
  <2>1. at[a].on \in Event /\ receipt[at[a].on] # "new" BY <1>3, UpdateTyped
  <2>2. UpdateRow(at[a].on) /\ UNCHANGED what BY <1>3 DEF Update, clock
  <2>3. CASE UpToDate(at[a].on) BY <1>1, <2>1, <2>2, <2>3, RowUpdated
  <2>4. CASE ~UpToDate(at[a].on)
    <3>1. UNCHANGED row BY <2>2, <2>4 DEF UpdateRow
    <3> QED BY <1>1, <3>1, RowKeeps
  <2> QED BY <2>3, <2>4
<1> QED BY <1>1, <1>2, <1>3 DEF Moves

LEMMA InitRow == Init => RowInv
BY DEF Init, RowInv, Marked, Latched, PaidFor, NewestSnapshotShown

LEMMA RowAlways == Spec => [](Typed /\ RowInv)
<1>1. Init => Typed /\ RowInv BY InitTyped, InitRow
<1>2. (Typed /\ RowInv) /\ [Next]_vars => (Typed /\ RowInv)' BY EveryStep, RowStep
<1> QED BY <1>1, <1>2, PTL DEF Spec

\* A full refund or dispute in the row suspends the workspace until a payment
\* made no earlier reaches it (the trigger, the high-water mark).
THEOREM RiskIsAnswered == Spec => []RiskAnswered
<1>1. Typed /\ RowInv => RiskAnswered
  <2> SUFFICES ASSUME Typed, RowInv, NEW r \in written, what[r].kind \in Suspending,
                      ws.access \notin Suspended
               PROVE  Restored(r)
    BY DEF RiskAnswered
  <2>1. ws.risk = "none" BY DEF RowInv, Latched
  <2> QED BY <2>1 DEF RowInv, PaidFor, Paid
<1> QED BY <1>1, RowAlways, PTL

\* The status shown is that of a newest snapshot in the row (the high-water mark).
THEOREM StatusIsNewest == Spec => []NewestSnapshotShown
<1>1. Typed /\ RowInv => NewestSnapshotShown BY DEF RowInv
<1> QED BY <1>1, RowAlways, PTL

\* No delivery, repetition or second handler credits an invoice again
\* (grant_stripe_invoice_period_credits).
THEOREM CreditsOnce == Spec => []CreditedOnce
<1>1. Init => Typed /\ CreditedOnce BY InitTyped DEF Init, CreditedOnce
<1>2. (Typed /\ CreditedOnce) /\ [Next]_vars => (Typed /\ CreditedOnce)'
  <2> SUFFICES ASSUME Typed, CreditedOnce, [Next]_vars PROVE Typed' /\ CreditedOnce'
    OBVIOUS
  <2>1. Typed' /\ Moves BY EveryStep
  <2>2. ASSUME credits' = credits PROVE CreditedOnce' BY <2>2 DEF CreditedOnce
  <2>3. ASSUME NEW a \in Attempt, Grant(a) PROVE CreditedOnce'
    <3>1. credits \in [Event -> Nat] BY DEF Typed, GrantTyped
    <3>2. CASE credits' = credits BY <2>2, <3>2
    <3>3. CASE /\ ~(credits[at[a].on] > 0)
               /\ credits' = [credits EXCEPT ![at[a].on] = credits[at[a].on] + 1]
      <4>1. ASSUME NEW e \in Event PROVE credits'[e] <= 1
        <5>1. CASE e = at[a].on BY <3>1, <3>3, <5>1
        <5>2. CASE e # at[a].on BY <3>1, <3>3, <5>2 DEF CreditedOnce
        <5> QED BY <5>1, <5>2
      <4> QED BY <4>1 DEF CreditedOnce
    <3> QED BY <2>3, <3>2, <3>3 DEF Grant, grant, GrantAnswer, Refused
  <2> QED BY <2>1, <2>2, <2>3 DEF Moves
<1> QED BY <1>1, <1>2, PTL DEF Spec

-----------------------------------------------------------------------------
(* The announcements *)

\* A stage was asked for by an event that really is of it
Fits(s, e) ==
  CASE s = "payment_failed" -> ~Snapshot(e)
    [] s = "paid" -> Snapshot(e) /\ what[e].status = "active"
    [] s = "cancelled" -> Snapshot(e) /\ (what[e].status = "canceled" \/ what[e].cancel)
    [] s = "trial_ended" -> Snapshot(e) /\ what[e].status \notin {"none", "trialing"}
Asked(s) ==
  mail[s].state # "none" =>
    mail[s].for \in Event /\ receipt[mail[s].for] # "new" /\ Fits(s, mail[s].for)
AllAsked == \A s \in Stages : Asked(s)

LEMMA AskedKept ==
  ASSUME Kept, NEW s \in Stages, Asked(s), mail'[s].for = mail[s].for,
         mail'[s].state = "none" <=> mail[s].state = "none"
  PROVE  Asked(s)'
<1>1. CASE mail[s].state = "none" BY <1>1 DEF Asked
<1>2. CASE mail[s].state # "none"
  <2>1. PICK e \in Event : e = mail[s].for /\ receipt[e] # "new" /\ Fits(s, e)
    BY <1>2 DEF Asked
  <2>2. what'[e] = what[e] /\ receipt'[e] # "new" BY <2>1 DEF Kept
  <2>3. Fits(s, e)' BY <2>1, <2>2 DEF Fits, Snapshot
  <2> QED BY <2>1, <2>2, <2>3 DEF Asked
<1> QED BY <1>1, <1>2

LEMMA AnnouncedFits ==
  ASSUME Typed, NEW e \in Event, Asks(e),
         NEW c \in Contact, NEW s \in Announces(e, c)
  PROVE  Fits(s, e)
<1>1. CASE what[e].kind = "failed" BY <1>1 DEF Announces, Fits, Snapshot
<1>2. CASE Snapshot(e)
  <2>1. /\ Snapshot(e) /\ what[e].status # "none"
        /\ what[e].kind = "deleted" => what[e].status = "canceled"
    BY <1>2 DEF Typed, WhatTyped
  <2>2. what[e].kind # "failed" BY <1>2 DEF Snapshot
  <2>3. CASE s = "cancelled" BY <2>1, <2>2, <2>3 DEF Announces, Fits
  <2>4. CASE s = "paid" BY <2>1, <2>2, <2>4 DEF Announces, Fits
  <2>5. CASE s = "trial_ended" BY <2>1, <2>2, <2>5 DEF Announces, Fits
  <2>6. s \in {"cancelled", "paid", "trial_ended"} BY <2>2 DEF Announces
  <2> QED BY <2>3, <2>4, <2>5, <2>6
<1> QED BY <1>1, <1>2 DEF Asks

LEMMA AskedStep == Typed /\ AllAsked /\ [Next]_vars => AllAsked'
<1> SUFFICES ASSUME Typed, AllAsked, [Next]_vars, NEW s \in Stages PROVE Asked(s)'
  BY DEF AllAsked
<1>1. Kept /\ Moves BY EveryStep
<1>2. Asked(s) BY DEF AllAsked
<1>3. CASE mail' = mail BY <1>1, <1>2, <1>3, AskedKept
<1>4. ASSUME NEW r \in Stages, MailStep(r) PROVE Asked(s)'
  <2>1. CASE Closed(r) /\ mail[r].state = "open"
    <3>1. /\ mail'[r].state # "none" /\ mail'[r].for = mail[r].for
          /\ \A q \in Stages \ {r} : mail'[q] = mail[q]
      BY <2>1 DEF Typed, MailTyped, Closed
    <3> QED BY <1>1, <1>2, <2>1, <3>1, AskedKept
  <2> QED BY <1>3, <1>4, <2>1 DEF MailStep, Judge, Announce, Unsent, GiveUp
<1>5. ASSUME NEW a \in Attempt, AskStage(a) PROVE Asked(s)'
  <2> DEFINE e == at[a].on
             c == at[a].seen
             stages == IF c.high <= what[e].at THEN Announces(e, c) ELSE {}
             new == {r \in stages : mail[r].state = "none"}
  <2>1. /\ e \in Event /\ receipt[e] # "new" /\ c \in Contact
        /\ Asks(e)
    BY <1>5 DEF Typed, Handlers, Handler, Claimed, AtWork, Asking, AskStage, Working
  <2>2. mail'[s] = IF s \in stages /\ mail[s].state = "none"
                   THEN [state |-> "open", for |-> e] ELSE mail[s]
    <3>1. mail' = [r \in Stages |-> IF r \in new THEN [state |-> "open", for |-> e]
                                    ELSE mail[r]]
      BY <1>5 DEF AskStage
    <3>2. s \in new <=> s \in stages /\ mail[s].state = "none" OBVIOUS
    <3> HIDE DEF new, stages
    <3> QED BY <3>1, <3>2
  <2>3. receipt' = receipt /\ what' = what BY <1>5 DEF AskStage, inbox, clock
  <2>4. s \in stages => s \in Announces(e, c) OBVIOUS
  <2> HIDE DEF e, c, stages
  <2>5. CASE s \in stages /\ mail[s].state = "none"
    <3>1. Fits(s, e) BY <2>1, <2>4, <2>5, AnnouncedFits
    <3>2. mail'[s].for = e BY <2>2, <2>5
    <3> QED BY <2>1, <2>3, <3>1, <3>2 DEF Asked, Fits, Snapshot
  <2>6. CASE ~(s \in stages /\ mail[s].state = "none")
    BY <1>1, <1>2, <2>2, <2>6, AskedKept
  <2> QED BY <2>5, <2>6
<1>6. ASSUME NEW a \in Attempt, Update(a) PROVE Asked(s)' BY <1>3, <1>6 DEF Update
<1> QED BY <1>1, <1>3, <1>4, <1>5, <1>6 DEF Moves, post

\* What a stage that was asked for, cleared or told owes to the row: it is
\* remembered as shown as soon as, and only if, the row has shown it
Shows ==
  /\ \A s \in Stages : mail[s].state # "none" /\ StillRelevant(s) => s \in shown
  /\ cleared \subseteq shown /\ told \subseteq shown

\* The guard passes only what the row shows
LEMMA PassesIsShown ==
  ASSUME AllAsked, NEW s \in Stages, mail[s].state = "open", Passes(s)
  PROVE  StillRelevant(s)
<1>1. Fits(s, mail[s].for) BY DEF AllAsked, Asked
<1>2. Expected(mail[s].for) => StillRelevant(s)
  BY <1>1 DEF Expected, StillRelevant, Fits, Stages
<1> QED BY <1>2 DEF Passes

LEMMA ShowsStep == Typed /\ AllAsked /\ Shows /\ [Next]_vars => Shows'
<1> SUFFICES ASSUME Typed, AllAsked, Shows, [Next]_vars PROVE Shows'
  OBVIOUS
<1>1. Moves BY EveryStep
<1>2. ASSUME ws' = ws, NEW s \in Stages PROVE StillRelevant(s)' = StillRelevant(s)
  BY <1>2 DEF StillRelevant
<1>3. CASE UNCHANGED post /\ UNCHANGED row
  BY <1>2, <1>3 DEF Shows, post, sending, row
<1>4. ASSUME NEW a \in Attempt, Update(a) PROVE Shows'
  <2>1. /\ UNCHANGED <<mail, sending>>
        /\ shown' = shown \cup {s \in Stages : mail[s].state # "none" /\ StillRelevant(s)'}
    BY <1>4 DEF Update
  <2> QED BY <2>1 DEF Shows, sending
<1>5. ASSUME NEW a \in Attempt, AskStage(a) PROVE Shows'
  <2>1. PICK new \in SUBSET Stages :
          /\ mail' = [s \in Stages |-> IF s \in new THEN [state |-> "open", for |-> at[a].on]
                                       ELSE mail[s]]
          /\ shown' = shown \cup {s \in new : StillRelevant(s)}
          /\ UNCHANGED sending /\ UNCHANGED row
    <3> DEFINE stages == IF at[a].seen.high <= what[at[a].on].at
                         THEN Announces(at[a].on, at[a].seen) ELSE {}
               n == {s \in stages : mail[s].state = "none"}
    <3>1. stages \subseteq Stages BY DEF Announces, Stages
    <3>2. n \in SUBSET Stages BY <3>1
    <3> QED BY <1>5, <3>2 DEF AskStage
  <2>2. ASSUME NEW s \in Stages, mail'[s].state # "none", StillRelevant(s)'
        PROVE  s \in shown'
    <3>1. StillRelevant(s) BY <1>2, <2>1, <2>2 DEF row
    <3> QED BY <2>1, <2>2, <3>1 DEF Shows
  <2>3. cleared' \subseteq shown' /\ told' \subseteq shown' BY <2>1 DEF Shows, sending
  <2> QED BY <2>2, <2>3 DEF Shows
<1>6. ASSUME NEW r \in Stages, MailStep(r) PROVE Shows'
  <2>1. UNCHANGED <<row, shown>>
    BY <1>6 DEF MailStep, Judge, Announce, Unsent, GiveUp
  <2>2. \A s \in Stages : mail'[s].state # "none" => mail[s].state # "none"
    BY <1>6 DEF Typed, MailTyped, Closed, MailStep, Judge, Announce, Unsent, GiveUp
  <2>3. ASSUME Judge(r), cleared' = cleared \cup {r}, Passes(r) PROVE r \in shown
    <3>1. mail[r].state = "open" BY <2>3 DEF Judge
    <3> QED BY <2>3, <3>1, PassesIsShown DEF Shows
  <2>4. cleared' \subseteq shown /\ told' \subseteq shown
    BY <1>6, <2>3 DEF Shows, MailStep, Judge, Announce, Unsent, GiveUp, sending
  <2> QED BY <1>2, <2>1, <2>2, <2>4 DEF Shows, row
<1>7. UNCHANGED row \/ \E a \in Attempt : Update(a) BY <1>1 DEF Moves
<1> QED BY <1>1, <1>3, <1>4, <1>5, <1>6, <1>7 DEF Moves

\* Mautic is told of nothing that the row has not shown since it was asked for,
\* however late the job runs, however often it is retried and whatever was
\* written in between (evaluateMauticGuard).
THEOREM OnlyShownIsTold == Spec => []ToldWasShown
<1>1. Init => Typed /\ AllAsked /\ Shows
  BY InitTyped DEF Init, AllAsked, Asked, Shows
<1>2. (Typed /\ AllAsked /\ Shows) /\ [Next]_vars => (Typed /\ AllAsked /\ Shows)'
  BY EveryStep, AskedStep, ShowsStep
<1>3. Shows => ToldWasShown BY DEF Shows, ToldWasShown
<1> QED BY <1>1, <1>2, <1>3, PTL DEF Spec

-----------------------------------------------------------------------------
(* Settled events.  A handler carries the effect it has had to the receipt:  *)
(* one that is about to grant has its event in the row, and one that is      *)
(* about to settle has all of its effect behind it, which nothing takes back *)
(* even when another handler has taken the event over.                       *)

\* The period shown came with a snapshot, so a period behind it is outdated for good
PeriodShown ==
  ws.period # 0 => \E t \in written : Snapshot(t) /\ what[t].period = ws.period
Granting(a) == at[a].step = "grant" => what[at[a].on].kind = "paid" /\ InRow(at[a].on)
Settling(a) == at[a].step \in Final => Effective(at[a].on)
Behind == \A a \in Attempt : Granting(a) /\ Settling(a)
SettledInv == PeriodShown /\ Behind /\ SettledHasEffect

\* A row and grants that only move on
MovesOn ==
  /\ ws'.high >= ws.high /\ written \subseteq written'
  /\ wallet' >= wallet /\ \A e \in Event : credits'[e] >= credits[e]

LEMMA GoesOn ==
  ASSUME Typed, [Next]_vars
  PROVE  MovesOn
<1>1. Moves
  BY EveryStep
<1>2. /\ ws.high \in Nat /\ wallet \in Nat /\ credits \in [Event -> Nat]
      /\ \A a \in Attempt : AtWork(a) => what[at[a].on].at \in Nat /\ what[at[a].on].period \in Nat
  BY DEF Typed, RowTyped, Row, GrantTyped, WhatTyped, Content, Handlers, Claimed
<1>3. ws'.high >= ws.high /\ written \subseteq written'
  <2>1. CASE UNCHANGED row
    BY <1>2, <2>1 DEF row
  <2>2. ASSUME NEW a \in Attempt, Update(a)
        PROVE  ws'.high >= ws.high /\ written \subseteq written'
    <3>1. AtWork(a) /\ UpdateRow(at[a].on)
      BY <2>2 DEF Update, Working, AtWork
    <3> QED BY <1>2, <3>1 DEF UpdateRow, UpToDate, row
  <2> QED BY <1>1, <2>1, <2>2 DEF Moves
<1>4. wallet' >= wallet /\ \A e \in Event : credits'[e] >= credits[e]
  <2>1. CASE UNCHANGED <<credits, wallet>>
    BY <1>2, <2>1
  <2>2. ASSUME NEW a \in Attempt, Grant(a), ~UNCHANGED <<credits, wallet>>
        PROVE  wallet' >= wallet /\ \A e \in Event : credits'[e] >= credits[e]
    <3>1. /\ AtWork(a) /\ wallet' = what[at[a].on].period /\ ~Refused(at[a].on)
          /\ credits' = [credits EXCEPT ![at[a].on] = credits[at[a].on] + 1]
      BY <2>2 DEF Grant, GrantAnswer, grant, Working, AtWork
    <3> QED BY <1>2, <3>1 DEF Refused, Superseded
  <2> QED BY <1>1, <2>1, <2>2 DEF Moves
<1> QED BY <1>3, <1>4 DEF MovesOn

\* What an event has done stays done
LEMMA EffectStays ==
  ASSUME Typed, RowInv, Kept, MovesOn, Typed', NEW e \in Event, receipt[e] # "new"
  PROVE  /\ InRow(e) => InRow(e)'
         /\ Outdated(e) => Outdated(e)'
         /\ Effective(e) => Effective(e)'
<1>1. what'[e] = what[e] /\ what[e].at \in Nat /\ what[e].period \in Nat
  BY DEF Kept, Typed, WhatTyped, Content
<1>2. /\ ws.high \in Nat /\ ws'.high \in Nat /\ wallet \in Nat /\ wallet' \in Nat
      /\ credits[e] \in Nat /\ credits'[e] \in Nat
  BY DEF Typed, RowTyped, Row, GrantTyped
<1>3. InRow(e) => InRow(e)'
  BY <1>1, <1>2 DEF InRow, MovesOn
<1>4. Outdated(e) => Outdated(e)'
  <2>1. ASSUME NEW t \in written, Snapshot(t), what[t].period > what[e].period
        PROVE  Outdated(e)'
    <3>1. t \in written' /\ what'[t] = what[t]
      BY DEF MovesOn, Kept, RowInv, Marked, Typed, RowTyped
    <3> QED BY <1>1, <2>1, <3>1 DEF Outdated, Snapshot
  <2>2. CASE wallet > what[e].period
    BY <1>1, <1>2, <2>2 DEF Outdated, MovesOn
  <2> QED BY <2>1, <2>2 DEF Outdated
<1>5. credits[e] > 0 => credits'[e] > 0
  BY <1>2 DEF MovesOn
<1>6. Effective(e) => Effective(e)'
  <2>1. CASE what[e].kind = "other"
    BY <1>1, <2>1 DEF Effective
  <2>2. CASE what[e].kind = "paid"
    BY <1>1, <1>3, <1>4, <1>5, <2>2 DEF Effective
  <2>3. CASE what[e].kind \notin {"other", "paid"}
    BY <1>1, <1>3, <2>3 DEF Effective
  <2> QED BY <2>1, <2>2, <2>3
<1> QED BY <1>3, <1>4, <1>6

LEMMA PeriodStays ==
  ASSUME Typed, RowInv, PeriodShown, [Next]_vars
  PROVE  PeriodShown'
<1>1. Kept /\ Moves /\ MovesOn
  BY EveryStep, GoesOn
<1>2. ASSUME ws'.period = ws.period PROVE PeriodShown'
  <2> SUFFICES ASSUME ws.period # 0
               PROVE  \E t \in written' : Snapshot(t)' /\ what'[t].period = ws.period
    BY <1>2 DEF PeriodShown
  <2>1. PICK t \in written : Snapshot(t) /\ what[t].period = ws.period
    BY DEF PeriodShown
  <2>2. t \in written' /\ what'[t] = what[t]
    BY <1>1, <2>1 DEF MovesOn, Kept, RowInv, Marked, Typed, RowTyped
  <2> QED BY <2>1, <2>2 DEF Snapshot
<1>3. CASE UNCHANGED row
  BY <1>2, <1>3 DEF row
<1>4. ASSUME NEW a \in Attempt, Update(a) PROVE PeriodShown'
  <2>1. UpdateRow(at[a].on) /\ what' = what
    BY <1>4 DEF Update, clock
  <2>2. CASE UpToDate(at[a].on) /\ Snapshot(at[a].on)
    <3>1. at[a].on \in written' /\ ws'.period = what[at[a].on].period
      BY <2>1, <2>2 DEF UpdateRow, PeriodOf
    <3> QED BY <2>1, <2>2, <3>1 DEF PeriodShown, Snapshot
  <2>3. CASE ~(UpToDate(at[a].on) /\ Snapshot(at[a].on))
    <3>1. ws'.period = ws.period
      BY <2>1, <2>3 DEF UpdateRow, PeriodOf, row
    <3> QED BY <1>2, <3>1
  <2> QED BY <2>2, <2>3
<1> QED BY <1>1, <1>3, <1>4 DEF Moves

-----------------------------------------------------------------------------
(* Where handlers come from, and what settles an event *)

\* The other handlers stay where they are
OnlyOne(a) == \A b \in Attempt : b # a => at'[b] = at[b]

\* No handler comes to grant or to settle
NoneComes ==
  \A a \in Attempt : \/ at'[a] = at[a]
                     \/ at'[a].step \notin Final \cup {"grant"}
\* No event is settled
NoneSettles == \A e \in Event : Settled(e)' => Settled(e)

LEMMA HandlerKeeps ==
  ASSUME Typed, RowInv, Behind, [Next]_vars, NEW a \in Attempt, at'[a] = at[a]
  PROVE  Granting(a)' /\ Settling(a)'
<1>1. Typed' /\ Kept /\ MovesOn
  BY EveryStep, GoesOn
<1>2. CASE at[a].step \notin Final \cup {"grant"}
  BY <1>2 DEF Granting, Settling
<1>3. CASE at[a].step \in Final \cup {"grant"}
  <2>1. at[a].on \in Event /\ receipt[at[a].on] # "new"
    BY <1>3, BillingAssumption DEF Typed, Handlers, Claimed, AtWork
  <2>2. PICK e \in Event : e = at[a].on
    BY <2>1
  <2>3. what'[e] = what[e] /\ (InRow(e) => InRow(e)') /\ (Effective(e) => Effective(e)')
    BY <1>1, <2>1, <2>2, EffectStays DEF Kept
  <2>4. at'[a].on = e /\ Granting(a) /\ Settling(a)
    BY <2>2 DEF Behind
  <2>5. Granting(a)'
    BY <2>2, <2>3, <2>4 DEF Granting, InRow
  <2>6. Settling(a)'
    BY <2>2, <2>3, <2>4 DEF Settling, Effective, InRow, Outdated, Snapshot
  <2> QED BY <2>5, <2>6
<1> QED BY <1>2, <1>3

LEMMA SettledKeeps ==
  ASSUME Typed, RowInv, SettledHasEffect, [Next]_vars, NEW e \in Event, Settled(e)
  PROVE  Effective(e)'
<1>1. Typed' /\ Kept /\ MovesOn
  BY EveryStep, GoesOn
<1>2. receipt[e] # "new" /\ Effective(e)
  BY BillingAssumption DEF Settled, SettledHasEffect
<1> QED BY <1>1, <1>2, EffectStays

LEMMA QuietStep ==
  ASSUME Typed, RowInv, SettledInv, [Next]_vars, NoneComes, NoneSettles
  PROVE  SettledInv'
<1>1. PeriodShown'
  BY PeriodStays DEF SettledInv
<1>2. SettledHasEffect'
  BY SettledKeeps DEF SettledInv, SettledHasEffect, NoneSettles
<1>3. Behind'
  <2> SUFFICES ASSUME NEW a \in Attempt PROVE Granting(a)' /\ Settling(a)'
    BY DEF Behind
  <2>1. CASE at'[a].step \notin Final \cup {"grant"}
    BY <2>1 DEF Granting, Settling
  <2>2. CASE at'[a] = at[a]
    BY <2>2, HandlerKeeps DEF SettledInv
  <2> QED BY <2>1, <2>2 DEF NoneComes
<1> QED BY <1>1, <1>2, <1>3 DEF SettledInv

LEMMA EnterPlace ==
  ASSUME Typed, NEW a \in Attempt, NEW e, NEW s, NEW c, Enter(a, e, s, c)
  PROVE  at'[a].step = s /\ at'[a].on = e /\ OnlyOne(a)
BY DEF Typed, Handlers, Enter, OnlyOne

LEMMA EndPlace ==
  ASSUME Typed, NEW a \in Attempt, End(a)
  PROVE  at'[a].step = "idle" /\ OnlyOne(a)
BY DEF Typed, Handlers, End, Idle, OnlyOne

LEMMA InboxUnsettled ==
  ASSUME UNCHANGED inbox
  PROVE  NoneSettles
BY DEF NoneSettles, Settled, inbox

LEMMA ClaimUnsettled ==
  ASSUME Typed, NEW e \in Event, NEW a \in Attempt, ClaimReceipt(e, a)
  PROVE  NoneSettles
BY BillingAssumption DEF NoneSettles, Settled, ClaimReceipt, Typed, InboxTypeOK

\* A handler that moves on brings what it needs; nothing else changes
LEMMA ArrivalStep ==
  ASSUME Typed, RowInv, SettledInv, [Next]_vars, NoneSettles, NEW a \in Attempt, OnlyOne(a),
         Granting(a)', Settling(a)'
  PROVE  SettledInv'
<1>1. PeriodShown'
  BY PeriodStays DEF SettledInv
<1>2. SettledHasEffect'
  BY SettledKeeps DEF SettledInv, SettledHasEffect, NoneSettles
<1>3. Behind'
  BY HandlerKeeps DEF SettledInv, Behind, OnlyOne
<1> QED BY <1>1, <1>2, <1>3 DEF SettledInv

\* A handler that fails, ends or has more to do comes neither to grant nor to settle
LEMMA QuietPlace ==
  ASSUME NEW a \in Attempt, OnlyOne(a), at'[a].step \notin Final \cup {"grant"}
  PROVE  NoneComes
BY DEF NoneComes, OnlyOne

-----------------------------------------------------------------------------
(* Every action *)

LEMMA DeliverSettled ==
  ASSUME Typed, RowInv, SettledInv, [Next]_vars, NEW a \in Attempt, NEW e \in Event,
         Deliver(a, e)
  PROVE  SettledInv'
<1>1. NoneSettles
  BY ClaimUnsettled DEF Deliver
<1>2. at'[a].step = FirstStep(e) /\ at'[a].on = e /\ OnlyOne(a) /\ what' = what
  BY EnterPlace DEF Deliver, clock
<1>3. CASE what[e].kind = "other"
  <2>1. at'[a].step = "ignored" /\ what'[at'[a].on].kind = "other"
    BY <1>2, <1>3 DEF FirstStep
  <2>2. Granting(a)' /\ Settling(a)'
    BY <2>1 DEF Granting, Settling, Effective
  <2> QED BY <1>1, <1>2, <2>2, ArrivalStep
<1>4. CASE what[e].kind # "other"
  <2>1. at'[a].step \notin Final \cup {"grant"}
    BY <1>2, <1>4, BillingAssumption DEF FirstStep
  <2> QED BY <1>1, <1>2, <2>1, QuietPlace, QuietStep
<1> QED BY <1>3, <1>4

LEMMA FetchSettled ==
  ASSUME Typed, RowInv, SettledInv, [Next]_vars, NEW a \in Attempt,
         Stamp(a) \/ \E e \in Event : Fetch(a, e)
  PROVE  SettledInv'
<1>1. CASE Stamp(a)
  <2>1. PICK e \in Event : e = at[a].on
    BY <1>1 DEF Typed, Handlers, Fetching, Stamp, Working, Reconciliation
  <2>2. ClaimReceipt(e, a) /\ at'[a].step = "read" /\ OnlyOne(a)
    BY <1>1, <2>1, EnterPlace DEF Stamp, Goto
  <2> QED BY <2>2, ClaimUnsettled, QuietPlace, QuietStep, BillingAssumption
<1>2. ASSUME NEW e \in Event, Fetch(a, e) PROVE SettledInv'
  <2>1. NoneSettles /\ at'[a].step = "fetched" /\ OnlyOne(a)
    BY <1>2, InboxUnsettled, EnterPlace DEF Fetch
  <2> QED BY <2>1, QuietPlace, QuietStep, BillingAssumption
<1> QED BY <1>1, <1>2

\* A failed handler does nothing more but to give its event back
LEMMA ErrorPlace ==
  ASSUME Typed, NEW a \in Attempt, Goto(a, "failing")
  PROVE  OnlyOne(a) /\ at'[a].step \notin Final \cup {"grant"}
BY EnterPlace, BillingAssumption DEF Goto

LEMMA ContactSettled ==
  ASSUME Typed, RowInv, SettledInv, [Next]_vars, NEW a \in Attempt,
         ReadContact(a) \/ AskStage(a) \/ StepFails(a)
  PROVE  SettledInv'
<1>1. NoneSettles
  BY InboxUnsettled DEF ReadContact, AskStage, StepFails
<1>2. OnlyOne(a) /\ at'[a].step \notin Final \cup {"grant"}
  <2>1. CASE Goto(a, "failing")
    BY <2>1, ErrorPlace
  <2>2. ASSUME NEW s \in {"stage", "update"}, NEW c, Enter(a, at[a].on, s, c)
        PROVE  OnlyOne(a) /\ at'[a].step \notin Final \cup {"grant"}
    BY <2>2, EnterPlace, BillingAssumption
  <2> QED BY <2>1, <2>2 DEF ReadContact, AskStage, StepFails, Proceed
<1> QED BY <1>1, <1>2, QuietPlace, QuietStep

LEMMA LeaseSettled ==
  ASSUME Typed, RowInv, SettledInv, [Next]_vars,
         \/ UNCHANGED <<inbox, at>>
         \/ \E e \in Event : Expire(e)
         \/ \E a \in Attempt : Fail(a) \/ Crash(a)
  PROVE  SettledInv'
<1>1. CASE UNCHANGED <<inbox, at>>
  BY <1>1, InboxUnsettled, QuietStep DEF NoneComes
<1>2. ASSUME NEW e \in Event, Expire(e) PROVE SettledInv'
  BY <1>2, QuietStep DEF NoneComes, NoneSettles, Settled, Expire, LeaseExpires
<1>3. ASSUME NEW a \in Attempt, Fail(a) \/ Crash(a) PROVE SettledInv'
  <2>1. OnlyOne(a) /\ at'[a].step \notin Final \cup {"grant"}
    BY <1>3, EndPlace, BillingAssumption DEF Fail, Crash
  <2>2. NoneSettles
    <3>1. CASE Crash(a)
      BY <3>1 DEF NoneSettles, Settled, Crash, Abandon
    <3>2. CASE Fail(a)
      <4>1. receipt \in [Event -> {"new", "processing", "failed"} \cup Final]
        BY DEF Typed, InboxTypeOK
      <4> QED BY <3>2, <4>1, BillingAssumption
          DEF NoneSettles, Settled, Fail, FinishReceipt, inbox
    <3> QED BY <1>3, <3>1, <3>2
  <2> QED BY <2>1, <2>2, QuietPlace, QuietStep
<1> QED BY <1>1, <1>2, <1>3

\* A patch that is not in the row is behind it
LEMMA PatchInRow ==
  ASSUME Typed, NEW e \in Event, UpdateRow(e), UNCHANGED what
  PROVE  InRow(e)'
<1>1. ws.high \in Nat /\ what[e].at \in Nat
  BY DEF Typed, RowTyped, Row, WhatTyped, Content
<1> QED BY <1>1 DEF UpdateRow, UpToDate, row, InRow

LEMMA UpdateSettled ==
  ASSUME Typed, RowInv, SettledInv, [Next]_vars, NEW a \in Attempt, Update(a)
  PROVE  SettledInv'
<1>1. NoneSettles
  BY InboxUnsettled DEF Update
<1>2. CASE Goto(a, "failing")
  BY <1>1, <1>2, ErrorPlace, QuietPlace, QuietStep
<1>3. CASE Enter(a, at[a].on, AfterUpdate(at[a].on), NoContact)
  <2>1. PICK e \in Event : e = at[a].on
    BY DEF Typed, Handlers, Claimed, AtWork, Update, Working
  <2>2. InRow(e)' /\ what' = what
    BY <2>1, PatchInRow DEF Update, clock
  <2>3. at'[a].step = AfterUpdate(e) /\ at'[a].on = e /\ OnlyOne(a)
    BY <1>3, <2>1, EnterPlace
  <2>4. CASE what[e].kind = "paid"
    <3>1. at'[a].step = "grant" /\ "grant" \notin Final
      BY <2>3, <2>4, BillingAssumption DEF AfterUpdate
    <3>2. Granting(a)' /\ Settling(a)'
      BY <2>2, <2>3, <2>4, <3>1 DEF Granting, Settling, InRow
    <3> QED BY <1>1, <2>3, <3>2, ArrivalStep
  <2>5. CASE what[e].kind # "paid"
    <3>1. at'[a].step # "grant"
      BY <2>3, <2>5 DEF AfterUpdate
    <3>2. Effective(e)'
      BY <2>2, <2>5 DEF Effective
    <3>3. Granting(a)' /\ Settling(a)'
      BY <2>3, <3>1, <3>2 DEF Granting, Settling, Effective, InRow, Outdated, Snapshot
    <3> QED BY <1>1, <2>3, <3>3, ArrivalStep
  <2> QED BY <2>4, <2>5
<1> QED BY <1>2, <1>3 DEF Update, Proceed

\* Credits are refused only where there are some, or for a period that is over
LEMMA GrantSettled ==
  ASSUME Typed, RowInv, SettledInv, [Next]_vars, NEW a \in Attempt, Grant(a)
  PROVE  SettledInv'
<1>1. NoneSettles
  BY InboxUnsettled DEF Grant
<1>2. CASE Goto(a, "failing")
  BY <1>1, <1>2, ErrorPlace, QuietPlace, QuietStep
<1>3. CASE Enter(a, at[a].on, "applied", NoContact) /\ ~Goto(a, "failing")
  <2>1. PICK e \in Event : e = at[a].on
    BY DEF Typed, Handlers, Claimed, AtWork, Grant, Working
  <2>2. /\ what[e].kind = "paid" /\ InRow(e) /\ what' = what /\ UNCHANGED row
        /\ at'[a].step = "applied" /\ at'[a].on = e /\ OnlyOne(a)
    BY <1>3, <2>1, EnterPlace DEF SettledInv, Behind, Granting, Grant, Working, clock
  <2>3. /\ credits \in [Event -> Nat] /\ wallet \in Nat /\ ws.period \in Nat
        /\ what[e].period \in Nat
    BY DEF Typed, GrantTyped, RowTyped, Row, WhatTyped, Content
  <2>4. (credits[e] > 0 \/ Outdated(e))'
    <3>1. CASE credits' = [credits EXCEPT ![e] = credits[e] + 1]
      BY <2>3, <3>1
    <3>2. CASE GrantAnswer(e) = "kept" /\ UNCHANGED grant
      <4>1. UNCHANGED grant /\ Refused(e) BY <3>2 DEF GrantAnswer
      <4>2. credits[e] > 0 \/ Outdated(e)
        <5>1. CASE ws.period > what[e].period
          <6>1. ws.period # 0
            BY <2>3, <5>1
          <6> QED BY <5>1, <6>1 DEF SettledInv, PeriodShown, Outdated
        <5> QED BY <4>1, <5>1 DEF Refused, Superseded, Outdated
      <4> QED BY <2>2, <4>1, <4>2 DEF grant, row, Outdated, Snapshot
    <3> QED BY <1>3, <2>1, <3>1, <3>2 DEF Grant
  <2>5. Effective(e)'
    BY <2>2, <2>4 DEF Effective, InRow, row
  <2>6. Granting(a)' /\ Settling(a)'
    BY <2>2, <2>5 DEF Granting, Settling, Effective, InRow, Outdated, Snapshot
  <2> QED BY <1>1, <2>2, <2>6, ArrivalStep
<1> QED BY <1>2, <1>3 DEF Grant, Proceed

\* The receipt is settled by a handler that has all of the effect behind it
LEMMA FinishSettled ==
  ASSUME Typed, RowInv, SettledInv, [Next]_vars, NEW a \in Attempt, Finish(a)
  PROVE  SettledInv'
<1>1. PICK e \in Event : e = at[a].on
  BY BillingAssumption DEF Typed, Handlers, Claimed, AtWork, Finish
<1>2. /\ receipt[e] # "new" /\ Effective(e)
      /\ FinishReceipt(e, a, at[a].step)
  BY <1>1, BillingAssumption
     DEF Typed, Handlers, Claimed, AtWork, Finish, SettledInv, Behind, Settling
<1>3. Typed' /\ Kept /\ MovesOn
  BY EveryStep, GoesOn
<1>4. SettledHasEffect'
  <2> SUFFICES ASSUME NEW f \in Event, Settled(f)' PROVE Effective(f)'
    BY DEF SettledHasEffect
  <2>1. CASE f = e
    BY <1>2, <1>3, <2>1, EffectStays
  <2>2. CASE f # e
    <3>1. Settled(f)
      BY <1>2, <2>2 DEF Typed, InboxTypeOK, Settled, FinishReceipt, inbox
    <3> QED BY <3>1, SettledKeeps DEF SettledInv
  <2> QED BY <2>1, <2>2
<1>5. OnlyOne(a) /\ at'[a].step \notin Final \cup {"grant"}
  BY EndPlace, ErrorPlace, BillingAssumption DEF Finish
<1>6. Behind'
  BY <1>5, HandlerKeeps DEF SettledInv, Behind, OnlyOne, Granting, Settling
<1> QED BY <1>4, <1>6, PeriodStays DEF SettledInv

LEMMA SettledStep == Typed /\ RowInv /\ SettledInv /\ [Next]_vars => SettledInv'
<1> SUFFICES ASSUME Typed, RowInv, SettledInv, [Next]_vars PROVE SettledInv'
  OBVIOUS
<1>1. CASE UNCHANGED <<inbox, at>>
  BY <1>1, LeaseSettled
<1>2. ASSUME NEW a \in Attempt, Step(a) PROVE SettledInv'
  BY <1>2, FetchSettled, ContactSettled, UpdateSettled, GrantSettled, FinishSettled,
     LeaseSettled DEF Step
<1>3. ASSUME NEW a \in Attempt, StepFails(a) \/ Crash(a) PROVE SettledInv'
  BY <1>3, ContactSettled, LeaseSettled
<1>4. ASSUME NEW a \in Attempt, NEW e \in Event, Deliver(a, e) \/ Fetch(a, e) PROVE SettledInv'
  BY <1>4, DeliverSettled, FetchSettled
<1>5. ASSUME NEW e \in Event, Duplicate(e) \/ Expire(e) PROVE SettledInv'
  <2>1. CASE Duplicate(e)
    BY <1>1, <2>1 DEF Duplicate
  <2> QED BY <1>5, <2>1, LeaseSettled
<1>6. ASSUME NEW s \in Stages, MailStep(s) PROVE SettledInv'
  BY <1>1, <1>6 DEF MailStep, Judge, Announce, Unsent, GiveUp
<1>7. CASE Tick \/ Reserve \/ Release
  BY <1>1, <1>7 DEF Tick, Reserve, Release
<1>8. CASE UNCHANGED vars
  BY <1>1, <1>8 DEF vars
<1> QED BY <1>2, <1>3, <1>4, <1>5, <1>6, <1>7, <1>8 DEF Next

LEMMA InitSettled == Init => SettledInv
BY BillingAssumption
   DEF Init, InboxInit, Idle, SettledInv, PeriodShown, Behind, Granting, Settling,
       SettledHasEffect, Settled

\* An event is settled only after its effect, which stays: the row has its patch
\* or is ahead of it, and a paid invoice has its credits or its period is over,
\* whoever handled it (applyStripeBillingEvent, finish_stripe_webhook_event).
THEOREM SettledIsEffective == Spec => []SettledHasEffect
<1>1. Init => Typed /\ RowInv /\ SettledInv
  BY InitTyped, InitRow, InitSettled
<1>2. (Typed /\ RowInv /\ SettledInv) /\ [Next]_vars => (Typed /\ RowInv /\ SettledInv)'
  BY EveryStep, RowStep, SettledStep
<1>3. SettledInv => SettledHasEffect
  BY DEF SettledInv
<1> QED BY <1>1, <1>2, <1>3, PTL DEF Spec

-----------------------------------------------------------------------------
(* Receipts.  Who owns one is at work on its event, so an event whose      *)
(* handler is gone has no owner and only its lease to wait for; and a      *)
(* settled one is nobody's any more.                                       *)

\* The event e is in the hands of its owner
InHand(e) == AtWork(owner[e]) /\ at[owner[e]].on = e
Attended ==
  \A e \in Event : owner[e] # NoAttempt => receipt[e] = "processing" /\ InHand(e)

\* Settled events stay so
StaySettled == \A e \in Event : Settled(e) => Settled(e)'

\* The inbox is left alone, and so are handlers at work, or they go on with their event
LEMMA AttendedStays ==
  ASSUME Typed, Attended, NEW a \in Attempt, UNCHANGED inbox,
         \A b \in Attempt \ {a} : at'[b] = at[b],
         AtWork(a) => AtWork(a)' /\ at'[a].on = at[a].on
  PROVE  Attended' /\ StaySettled
<1>1. receipt' = receipt /\ owner' = owner
  BY DEF inbox
<1>2. ASSUME NEW e \in Event, owner[e] # NoAttempt PROVE receipt[e] = "processing" /\ InHand(e)'
  BY <1>1, <1>2 DEF Attended, InHand, AtWork, Typed, InboxTypeOK
<1>3. Attended'
  BY <1>1, <1>2 DEF Attended
<1> QED BY <1>1, <1>3 DEF StaySettled, Settled

LEMMA ClaimAttended ==
  ASSUME Typed, Attended, NEW a \in Attempt, ~AtWork(a), NEW e \in Event, ClaimReceipt(e, a),
         \A b \in Attempt \ {a} : at'[b] = at[b], AtWork(a)', at'[a].on = e
  PROVE  Attended' /\ StaySettled
<1>1. /\ receipt'[e] = "processing" /\ owner'[e] = a /\ receipt[e] \notin Final
      /\ \A f \in Event \ {e} : receipt'[f] = receipt[f] /\ owner'[f] = owner[f]
  BY BillingAssumption DEF ClaimReceipt, Claimable, Typed, InboxTypeOK
<1>2. ASSUME NEW f \in Event, owner'[f] # NoAttempt PROVE (receipt[f] = "processing" /\ InHand(f))'
  <2>1. CASE f = e
    BY <1>1, <2>1 DEF InHand
  <2>2. CASE f # e
    <3>1. /\ owner'[f] = owner[f] /\ owner[f] \in Attempt \ {a}
          /\ receipt'[f] = "processing" /\ InHand(f)
      BY <1>1, <1>2, <2>2 DEF Attended, InHand, Typed, InboxTypeOK
    <3> QED BY <3>1 DEF InHand, AtWork
  <2> QED BY <2>1, <2>2
<1> QED BY <1>1, <1>2 DEF Attended, StaySettled, Settled

\* A handler that ends or fails has given its event back, or lost it before
LEMMA EndAttended ==
  ASSUME Typed, Attended, NEW a \in Attempt, \A b \in Attempt \ {a} : at'[b] = at[b],
         \A f \in Event : \/ receipt'[f] = receipt[f] /\ owner'[f] = owner[f] /\ owner[f] # a
                          \/ owner'[f] = NoAttempt /\ receipt'[f] = receipt[f]
                          \/ owner'[f] = NoAttempt /\ receipt[f] = "processing"
  PROVE  Attended' /\ StaySettled
<1>1. ASSUME NEW f \in Event, owner'[f] # NoAttempt PROVE (receipt[f] = "processing" /\ InHand(f))'
  <2>1. /\ owner'[f] = owner[f] /\ owner[f] \in Attempt \ {a}
        /\ receipt'[f] = "processing" /\ InHand(f)
    BY <1>1 DEF Attended, InHand, Typed, InboxTypeOK
  <2> QED BY <2>1 DEF InHand, AtWork
<1>2. StaySettled
  BY BillingAssumption DEF Attended, StaySettled, Settled
<1> QED BY <1>1, <1>2 DEF Attended

LEMMA GivenBack ==
  ASSUME Typed, Attended, NEW a \in Attempt, NEW e \in Event, AtWork(a), at[a].on = e, NEW s,
         FinishReceipt(e, a, s)
  PROVE  \A f \in Event : \/ receipt'[f] = receipt[f] /\ owner'[f] = owner[f] /\ owner[f] # a
                          \/ owner'[f] = NoAttempt /\ receipt'[f] = receipt[f]
                          \/ owner'[f] = NoAttempt /\ receipt[f] = "processing"
<1>1. \A f \in Event : owner[f] = a => f = e /\ receipt[e] = "processing"
  BY InboxAssumption DEF Attended, InHand
<1> QED BY <1>1 DEF FinishReceipt, Holds, inbox, Typed, InboxTypeOK

LEMMA ReceiptStep == Typed /\ Attended /\ [Next]_vars => Attended' /\ StaySettled
<1> SUFFICES ASSUME Typed, Attended, [Next]_vars PROVE Attended' /\ StaySettled
  OBVIOUS
<1>1. ASSUME NEW a \in Attempt, NEW e \in Event, Deliver(a, e) PROVE Attended' /\ StaySettled
  <2>1. at'[a].step = FirstStep(e) /\ at'[a].on = e /\ \A b \in Attempt \ {a} : at'[b] = at[b]
    BY <1>1, EnterPlace DEF Deliver, OnlyOne
  <2>2. FirstStep(e) \notin {"idle", "fetched"}
    BY DEF FirstStep, Asks
  <2> QED BY <1>1, <2>1, <2>2, ClaimAttended DEF Deliver, Working, AtWork
<1>2. ASSUME NEW a \in Attempt, NEW e \in Event, Fetch(a, e) PROVE Attended' /\ StaySettled
  <2>1. UNCHANGED inbox /\ ~AtWork(a) /\ \A b \in Attempt \ {a} : at'[b] = at[b]
    BY <1>2, EnterPlace DEF Fetch, Working, AtWork, OnlyOne
  <2> QED BY <2>1, AttendedStays
<1>3. ASSUME NEW a \in Attempt, Stamp(a) PROVE Attended' /\ StaySettled
  <2>1. PICK e \in Event : e = at[a].on
    BY <1>3 DEF Typed, Handlers, Fetching, Stamp, Working, Reconciliation
  <2>2. /\ ClaimReceipt(e, a) /\ at'[a].step = "read" /\ at'[a].on = e
        /\ \A b \in Attempt \ {a} : at'[b] = at[b]
    BY <1>3, <2>1, EnterPlace DEF Stamp, Goto, OnlyOne
  <2> QED BY <1>3, <2>2, ClaimAttended DEF Stamp, Working, AtWork
<1>4. ASSUME NEW a \in Attempt,
             ReadContact(a) \/ AskStage(a) \/ Update(a) \/ Grant(a) \/ StepFails(a)
      PROVE  Attended' /\ StaySettled
  <2>1. UNCHANGED inbox
    BY <1>4 DEF ReadContact, AskStage, Update, Grant, StepFails
  <2>2. /\ \A b \in Attempt \ {a} : at'[b] = at[b]
        /\ AtWork(a)' /\ at'[a].on = at[a].on
    <3>1. ASSUME NEW s \in Steps \ {"idle", "fetched"}, NEW c, Enter(a, at[a].on, s, c)
          PROVE  /\ \A b \in Attempt \ {a} : at'[b] = at[b]
                 /\ AtWork(a)' /\ at'[a].on = at[a].on
      BY <3>1, EnterPlace DEF OnlyOne, AtWork
    <3>2. AfterUpdate(at[a].on) \in {"grant", "applied", "ignored"}
      BY DEF AfterUpdate
    <3> QED BY <1>4, <3>1, <3>2
        DEF ReadContact, AskStage, Update, Grant, StepFails, Proceed, Goto, Steps
  <2> QED BY <2>1, <2>2, AttendedStays
<1>5. ASSUME NEW a \in Attempt, Finish(a) \/ Fail(a) PROVE Attended' /\ StaySettled
  <2>1. PICK e \in Event : e = at[a].on /\ AtWork(a)
    BY <1>5, BillingAssumption DEF Typed, Handlers, Claimed, AtWork, Finish, Fail, Working
  <2>2. \A b \in Attempt \ {a} : at'[b] = at[b]
    BY <1>5, EndPlace, ErrorPlace DEF Finish, Fail, OnlyOne
  <2>3. \E s : FinishReceipt(e, a, s)
    BY <1>5, <2>1 DEF Finish, Fail
  <2> QED BY <2>1, <2>2, <2>3, GivenBack, EndAttended
<1>6. ASSUME NEW a \in Attempt, Crash(a) PROVE Attended' /\ StaySettled
  <2>1. \A b \in Attempt \ {a} : at'[b] = at[b]
    BY <1>6, EndPlace DEF Crash, OnlyOne
  <2>2. \A f \in Event : owner[f] = a => f = at[a].on
    BY InboxAssumption DEF Attended, InHand
  <2>3. \A f \in Event : /\ receipt'[f] = receipt[f]
                         /\ \/ owner'[f] = NoAttempt
                            \/ owner'[f] = owner[f] /\ owner[f] # a
    BY <1>6, <2>2 DEF Crash, Abandon, Typed, InboxTypeOK
  <2> QED BY <2>1, <2>3, EndAttended
<1>7. CASE UNCHANGED <<receipt, owner, at>>
  BY <1>7 DEF Attended, InHand, AtWork, StaySettled, Settled
<1>8. ASSUME NEW e \in Event, Duplicate(e) \/ Expire(e) PROVE Attended' /\ StaySettled
  BY <1>7, <1>8 DEF Duplicate, Expire, LeaseExpires, inbox
<1>9. ASSUME NEW s \in Stages, MailStep(s) PROVE Attended' /\ StaySettled
  BY <1>7, <1>9 DEF MailStep, Judge, Announce, Unsent, GiveUp, inbox
<1>10. CASE Tick \/ Reserve \/ Release \/ UNCHANGED vars
  BY <1>7, <1>10 DEF Tick, Reserve, Release, vars, inbox
<1> QED BY <1>1, <1>2, <1>3, <1>4, <1>5, <1>6, <1>8, <1>9, <1>10 DEF Next, Step

LEMMA InitAttended == Init => Attended
BY DEF Init, InboxInit, Attended

\* An event that is being processed is in the hands of the handler that claimed it
\* last, or of nobody: then its lease passes and a repeated delivery claims it
\* (claim_stripe_webhook_event, finish_stripe_webhook_event).
THEOREM OwnersAreAtWork == Spec => []Attended
<1>1. Init => Typed /\ Attended
  BY InitTyped, InitAttended
<1>2. (Typed /\ Attended) /\ [Next]_vars => (Typed /\ Attended)'
  BY EveryStep, ReceiptStep
<1> QED BY <1>1, <1>2, PTL DEF Spec

\* What is settled stays settled and in effect, also where an attempt that outlived
\* its lease goes on and ends later (finish_stripe_webhook_event's attempt).
SettledForGood == [][\A e \in Event : Settled(e) => Settled(e)' /\ Effective(e)']_vars

THEOREM SettledIsFinal == Spec => SettledForGood
<1> DEFINE Lasts == \A e \in Event : Settled(e) => Settled(e)' /\ Effective(e)'
<1>1. Init => Typed /\ RowInv /\ SettledInv /\ Attended
  BY InitTyped, InitRow, InitSettled, InitAttended
<1>2. /\ (Typed /\ RowInv /\ SettledInv /\ Attended) /\ [Next]_vars
         => (Typed /\ RowInv /\ SettledInv /\ Attended)'
  BY EveryStep, RowStep, SettledStep, ReceiptStep
<1>3. (Typed /\ RowInv /\ SettledInv /\ Attended) /\ [Next]_vars => [Lasts]_vars
  BY ReceiptStep, SettledKeeps DEF SettledInv, StaySettled
<1> QED BY <1>1, <1>2, <1>3, PTL DEF Spec, SettledForGood
================================================================================
