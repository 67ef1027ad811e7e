--------------------------- MODULE MetaPublishProofs ---------------------------
(***************************************************************************)
(* Proofs about MetaPublish for any plans, rivals, numbers of objects,     *)
(* attempts and requests: its type invariant, the safety properties its    *)
(* run checks, and the safety half of its liveness property.  Typed splits *)
(* the type invariant by the part of the state it is about; it carries the *)
(* one bound that types depend on: the loop posts only an object that is   *)
(* missing.                                                                *)
(***************************************************************************)
EXTENDS MetaPublish, TLAPS

Registries == claim \in Claim /\ consumed \in [Claimant -> Stored]
Constants == approval \in [Plan -> BOOLEAN] /\ free \in [Plan -> BOOLEAN]
Rows == row \in [Plan -> Row] /\ key \in [Plan -> Key] /\ current \in [Plan -> BOOLEAN]
Jobs == job \in [Plan -> JobRow]
Places == pc \in [Plan -> Stages] /\ \A p \in Plan : pc[p] = "post" => have[p] < Count
Attempts ==
  /\ seen \in [Plan -> Row \cup {NoRow}] /\ used \in [Plan -> Key]
  /\ have \in [Plan -> 0 .. Count] /\ may \in [Plan -> BOOLEAN]
Requests == asked \in [Plan -> Row \cup {NoRow}]
Objects == made \in [Plan -> [Object -> Nat]] /\ campaign \in [Plan -> {"paused", "unsure", "live"}]
Bounded == asks \in 0 .. MaxAsks /\ gates \in 0 .. MaxGates

Typed ==
  Registries /\ Constants /\ Rows /\ Jobs /\ Places /\ Attempts /\ Requests /\ Objects /\ Bounded

LEMMA TypedIsTypeOK == Typed => TypeOK
BY DEF Typed, TypeOK, Registries, Constants, Rows, Jobs, Places, Attempts, Requests, Objects,
     Bounded

-----------------------------------------------------------------------------
(* What the helpers do to the types *)

LEMMA TypedWrite ==
  ASSUME Rows, NEW p \in Plan, NEW s \in RowStatus, NEW n \in 0 .. Count, NEW m \in BOOLEAN,
         Write(p, s, n, m) \/ NoWrite
  PROVE  Rows'
<1>1. CASE NoWrite BY <1>1 DEF NoWrite, Rows
<1>2. CASE Write(p, s, n, m)
  <2>1. [status |-> s, shown |-> n, may |-> m] \in Row BY DEF Row
  <2>2. NewKey \in Key BY DEF NewKey, Key, Stored
  <2> QED BY <1>2, <2>1, <2>2 DEF Write, Rows
<1> QED BY <1>1, <1>2

LEMMA TypedMove ==
  ASSUME Places, NEW p \in Plan, NEW s \in Stages \ {"post"}, Goto(p, s),
         \A q \in Plan \ {p} : have'[q] = have[q]
  PROVE  Places'
<1>1. pc' \in [Plan -> Stages] BY DEF Places, Goto
<1>2. \A q \in Plan : pc'[q] = "post" => q # p /\ pc[q] = "post" BY DEF Places, Goto
<1> QED BY <1>1, <1>2 DEF Places

LEMMA TypedWriteThen ==
  ASSUME Rows, Places, UNCHANGED have, NEW p \in Plan, NEW st \in RowStatus, NEW n \in 0 .. Count,
         NEW m \in BOOLEAN, NEW s \in Stages \ {"post"}, NEW f \in Stages \ {"post"},
         WriteThen(p, st, n, m, s, f)
  PROVE  Rows' /\ Places'
<1>1. Write(p, st, n, m) \/ NoWrite BY DEF WriteThen
<1>2. Goto(p, s) \/ Goto(p, f) BY DEF WriteThen
<1>3. Rows' BY <1>1, TypedWrite
<1>4. Places' BY <1>2, TypedMove
<1> QED BY <1>3, <1>4

LEMMA TypedValues ==
  ASSUME Attempts, Rows, NEW p \in Plan
  PROVE  /\ seen[p].shown \in 0 .. Count /\ seen[p].may \in BOOLEAN
         /\ have[p] \in 0 .. Count /\ may[p] \in BOOLEAN
         /\ row[p].shown \in 0 .. Count /\ row[p].may \in BOOLEAN
<1>1. have[p] \in 0 .. Count /\ may[p] \in BOOLEAN /\ seen[p] \in Row \cup {NoRow} /\ row[p] \in Row
  BY DEF Attempts, Rows
<1>2. row[p].shown \in 0 .. Count /\ row[p].may \in BOOLEAN BY <1>1 DEF Row
<1>3. CASE seen[p] \in Row BY <1>1, <1>2, <1>3 DEF Row
<1>4. CASE seen[p] = NoRow BY <1>1, <1>2, <1>4, PublishAssumption DEF NoRow
<1> QED BY <1>1, <1>3, <1>4

LEMMA TypedFail ==
  ASSUME Rows, NEW p \in Plan, NEW S, FailRow(p, S), UNCHANGED current
  PROVE  Rows'
<1>1. [status |-> IF row[p].status \in S THEN "failed" ELSE row[p].status,
       shown |-> row[p].shown, may |-> row[p].may] \in Row
  BY DEF Rows, Row, RowStatus
<1>2. NewKey \in Key BY DEF NewKey, Key, Stored
<1> QED BY <1>1, <1>2 DEF FailRow, Rows

LEMMA TypedCreates ==
  ASSUME Objects, Attempts, NEW p \in Plan, have[p] < Count, Creates(p), UNCHANGED campaign
  PROVE  Objects'
<1> DEFINE m == made[p]
           i == Next1(p)
<1>1. m \in [Object -> Nat] BY DEF Objects
<1>2. i \in Object BY PublishAssumption DEF Attempts, Next1, Object
<1>3. [m EXCEPT ![i] = m[i] + 1] \in [Object -> Nat] BY <1>1, <1>2
<1>4. made' = [made EXCEPT ![p] = [m EXCEPT ![i] = m[i] + 1]] BY DEF Creates
<1> QED BY <1>3, <1>4 DEF Objects

LEMMA TypedRegistry ==
  ASSUME Registries, NEW c \in Claimant, NEW k,
         ReserveClaim(c, k) \/ ReleaseClaim(c, k) \/ ConsumeClaim(c)
  PROVE  Registries'
BY DEF ReserveClaim, ReleaseClaim, ConsumeClaim, Registries, Claim, Claimant, Stored, Consumed,
       ReservedBy, ConsumedBy

LEMMA TypedReserved == ASSUME NEW c, NEW k \in Key PROVE Reserved(c, k) \in {"yes", "no"}
BY DEF Reserved, Key, Stored

LEMMA TypedStages ==
  {"loaded", "refused", "begin", "work", "checkpoint", "verify", "failed", "created", "quarantine",
   "withdraw", "forgo", "retry", "activate", "consume", "complete", "finish", "idle", "returned",
   "threw"} \subseteq Stages \ {"post"}
BY DEF Stages, Working, Settling, Finishing, Ended

-----------------------------------------------------------------------------
(* The steps *)

LEMMA TypedInit == PublishAssumption /\ Init => Typed
<1> SUFFICES ASSUME PublishAssumption, Init PROVE Typed OBVIOUS
<1>1. Registries BY DEF Init, RegistryInit, Registries, Claim, Stored
<1>2. Rows BY DEF Init, Rows, Row, RowStatus, Key, NewKey, Stored, PublishAssumption
<1>3. Attempts BY DEF Init, Attempts, Key, NewKey, Stored, NoRow, PublishAssumption
<1>4. Jobs BY DEF Init, Jobs, JobRow, NoJob, PublishAssumption
<1>5. Objects BY DEF Init, Objects
<1>6. Places BY DEF Init, Places, Stages, Ended
<1>7. Bounded /\ Requests /\ Constants
  BY DEF Init, Bounded, Requests, NoRow, Constants, PublishAssumption
<1> QED BY <1>1, <1>2, <1>3, <1>4, <1>5, <1>6, <1>7 DEF Typed

LEMMA TypedBegin ==
  ASSUME Typed, NEW p \in Plan, Begin(p)
  PROVE  Typed'
<1>1. Rows' /\ Places'
  <2>1. Attempts /\ Rows /\ Places /\ UNCHANGED have BY DEF Begin, Typed, attempt
  <2>2. {"approved", "publishing", "paused_live", "failed"} \subseteq RowStatus BY DEF RowStatus
  <2>3. WriteThen(p, "publishing", seen[p].shown, seen[p].may, "work", "withdraw") BY DEF Begin
  <2>4. "publishing" \in RowStatus /\ "withdraw" \in Stages \ {"post"} /\ "work" \in Stages \ {"post"}
    BY <2>2, TypedStages
  <2> QED BY <2>1, <2>2, <2>3, <2>4, TypedValues, TypedWriteThen
<1>2. Registries' /\ Constants' /\ Jobs' /\ Attempts' /\ Requests' /\ Objects' /\ Bounded'
  BY DEF Begin, Typed, Registries, Constants, Jobs, Attempts, Requests, Objects, Bounded,
       Outside, registry, frozen, attempt, meta, bounds
<1> QED BY <1>1, <1>2 DEF Typed

LEMMA TypedRefused ==
  ASSUME Typed, NEW p \in Plan, Refused(p)
  PROVE  Typed'
<1>1. Rows' /\ Places'
  <2>1. Attempts /\ Rows /\ Places /\ UNCHANGED have BY DEF Refused, Typed, attempt
  <2>2. {"approved", "publishing", "paused_live", "failed"} \subseteq RowStatus BY DEF RowStatus
  <2>3. WriteThen(p, "approved", seen[p].shown, seen[p].may, "threw", "threw") BY DEF Refused
  <2>4. "approved" \in RowStatus /\ "threw" \in Stages \ {"post"}
    BY <2>2, TypedStages
  <2> QED BY <2>1, <2>2, <2>3, <2>4, TypedValues, TypedWriteThen
<1>2. Registries' /\ Constants' /\ Jobs' /\ Attempts' /\ Requests' /\ Objects' /\ Bounded'
  BY DEF Refused, Typed, Registries, Constants, Jobs, Attempts, Requests, Objects, Bounded,
       Outside, registry, frozen, attempt, meta, bounds
<1> QED BY <1>1, <1>2 DEF Typed

LEMMA TypedCheckpoint ==
  ASSUME Typed, NEW p \in Plan, Checkpoint(p)
  PROVE  Typed'
<1>1. Rows' /\ Places'
  <2>1. Attempts /\ Rows /\ Places /\ UNCHANGED have BY DEF Checkpoint, Typed, attempt
  <2>2. {"approved", "publishing", "paused_live", "failed"} \subseteq RowStatus BY DEF RowStatus
  <2>3. WriteThen(p, "publishing", have[p], may[p], Loop(p), "failed") BY DEF Checkpoint
  <2>4. "publishing" \in RowStatus /\ "failed" \in Stages \ {"post"} /\ Loop(p) \in Stages \ {"post"}
    BY <2>2, TypedStages DEF Loop
  <2> QED BY <2>1, <2>2, <2>3, <2>4, TypedValues, TypedWriteThen
<1>2. Registries' /\ Constants' /\ Jobs' /\ Attempts' /\ Requests' /\ Objects' /\ Bounded'
  BY DEF Checkpoint, Typed, Registries, Constants, Jobs, Attempts, Requests, Objects, Bounded,
       Outside, registry, frozen, attempt, meta, bounds
<1> QED BY <1>1, <1>2 DEF Typed

LEMMA TypedRecordObjects ==
  ASSUME Typed, NEW p \in Plan, RecordObjects(p)
  PROVE  Typed'
<1>1. Rows' /\ Places'
  <2>1. Attempts /\ Rows /\ Places /\ UNCHANGED have BY DEF RecordObjects, Typed, attempt
  <2>2. {"approved", "publishing", "paused_live", "failed"} \subseteq RowStatus BY DEF RowStatus
  <2>3. WriteThen(p, CreatedStatus(p), have[p], may[p], Finalize(p), Caught(p))
    BY DEF RecordObjects
  <2>4. CreatedStatus(p) \in RowStatus /\ Caught(p) \in Stages \ {"post"} /\ Finalize(p) \in Stages \ {"post"}
    BY <2>2, TypedStages DEF CreatedStatus, Caught, Finalize
  <2> QED BY <2>1, <2>2, <2>3, <2>4, TypedValues, TypedWriteThen
<1>2. Registries' /\ Constants' /\ Jobs' /\ Attempts' /\ Requests' /\ Objects' /\ Bounded'
  BY DEF RecordObjects, Typed, Registries, Constants, Jobs, Attempts, Requests, Objects,
       Bounded, Outside, registry, frozen, attempt, meta, bounds
<1> QED BY <1>1, <1>2 DEF Typed

LEMMA TypedQuarantine ==
  ASSUME Typed, NEW p \in Plan, Quarantine(p)
  PROVE  Typed'
<1>1. Rows' /\ Places'
  <2>1. Attempts /\ Rows /\ Places /\ UNCHANGED have BY DEF Quarantine, Typed, attempt
  <2>2. {"approved", "publishing", "paused_live", "failed"} \subseteq RowStatus BY DEF RowStatus
  <2>3. WriteThen(p, "publishing", have[p], may[p], "threw", "threw") BY DEF Quarantine
  <2>4. "publishing" \in RowStatus /\ "threw" \in Stages \ {"post"}
    BY <2>2, TypedStages
  <2> QED BY <2>1, <2>2, <2>3, <2>4, TypedValues, TypedWriteThen
<1>2. Registries' /\ Constants' /\ Jobs' /\ Attempts' /\ Requests' /\ Objects' /\ Bounded'
  BY DEF Quarantine, Typed, Registries, Constants, Jobs, Attempts, Requests, Objects, Bounded,
       Outside, registry, frozen, attempt, meta, bounds
<1> QED BY <1>1, <1>2 DEF Typed

LEMMA TypedRetry ==
  ASSUME Typed, NEW p \in Plan, Retry(p)
  PROVE  Typed'
<1>1. Rows' /\ Places'
  <2>1. Attempts /\ Rows /\ Places /\ UNCHANGED have BY DEF Retry, Typed, attempt
  <2>2. {"approved", "publishing", "paused_live", "failed"} \subseteq RowStatus BY DEF RowStatus
  <2>3. WriteThen(p, RetryStatus(p), seen[p].shown, seen[p].may, "threw", "threw") BY DEF Retry
  <2>4. RetryStatus(p) \in RowStatus /\ "threw" \in Stages \ {"post"}
    BY <2>2, TypedStages DEF RetryStatus
  <2> QED BY <2>1, <2>2, <2>3, <2>4, TypedValues, TypedWriteThen
<1>2. Registries' /\ Constants' /\ Jobs' /\ Attempts' /\ Requests' /\ Objects' /\ Bounded'
  BY DEF Retry, Typed, Registries, Constants, Jobs, Attempts, Requests, Objects, Bounded,
       Outside, registry, frozen, attempt, meta, bounds
<1> QED BY <1>1, <1>2 DEF Typed

LEMMA TypedComplete ==
  ASSUME Typed, NEW p \in Plan, Complete(p)
  PROVE  Typed'
<1>1. Rows' /\ Places'
  <2>1. Attempts /\ Rows /\ Places /\ UNCHANGED have BY DEF Complete, Typed, attempt
  <2>2. {"approved", "publishing", "paused_live", "failed"} \subseteq RowStatus BY DEF RowStatus
  <2>3. WriteThen(p, "paused_live", have[p], may[p], "finish", "threw") BY DEF Complete
  <2>4. "paused_live" \in RowStatus /\ "finish" \in Stages \ {"post"} /\ "threw" \in Stages \ {"post"}
    BY <2>2, TypedStages
  <2> QED BY <2>1, <2>2, <2>3, <2>4, TypedValues, TypedWriteThen
<1>2. Registries' /\ Constants' /\ Jobs' /\ Attempts' /\ Requests' /\ Objects' /\ Bounded'
  BY DEF Complete, Typed, Registries, Constants, Jobs, Attempts, Requests, Objects, Bounded,
       Outside, registry, frozen, attempt, meta, bounds
<1> QED BY <1>1, <1>2 DEF Typed

LEMMA TypedDirectRecord ==
  ASSUME Typed, NEW p \in Plan, DirectRecord(p)
  PROVE  Typed'
<1>1. Rows' /\ Places'
  <2>1. Attempts /\ Rows /\ Places /\ UNCHANGED have BY DEF DirectRecord, Typed, attempt
  <2>2. {"approved", "publishing", "paused_live", "failed"} \subseteq RowStatus BY DEF RowStatus
  <2>3. WriteThen(p, DirectStatus(p), have[p], may[p], "returned", "withdraw") BY DEF DirectRecord
  <2>4. DirectStatus(p) \in RowStatus /\ "returned" \in Stages \ {"post"} /\ "withdraw" \in Stages \ {"post"}
    BY <2>2, TypedStages DEF DirectStatus
  <2> QED BY <2>1, <2>2, <2>3, <2>4, TypedValues, TypedWriteThen
<1>2. Registries' /\ Constants' /\ Jobs' /\ Attempts' /\ Requests' /\ Objects' /\ Bounded'
  BY DEF DirectRecord, Typed, Registries, Constants, Jobs, Attempts, Requests, Objects, Bounded,
       Outside, registry, frozen, attempt, meta, bounds
<1> QED BY <1>1, <1>2 DEF Typed

LEMMA TypedProceed ==
  ASSUME Typed, NEW p \in Plan, Proceed(p)
  PROVE  Typed'
<1>1. Places'
  BY TypedMove, TypedStages DEF Proceed, Typed, Attempts, Outside, attempt, Prepared
<1>2. Registries' /\ Constants' /\ Rows' /\ Jobs' /\ Attempts' /\ Requests' /\ Objects' /\ Bounded'
  BY DEF Proceed, Typed, Registries, Constants, Rows, Jobs, Attempts, Requests, Objects,
       Bounded, Outside, registry, frozen, store, attempt, meta, bounds
<1> QED BY <1>1, <1>2 DEF Typed

LEMMA TypedReadFails ==
  ASSUME Typed, NEW p \in Plan, ReadFails(p)
  PROVE  Typed'
<1>1. Places'
  BY TypedMove, TypedStages DEF ReadFails, Typed, Attempts, Outside, attempt
<1>2. Registries' /\ Constants' /\ Rows' /\ Jobs' /\ Attempts' /\ Requests' /\ Objects' /\ Bounded'
  BY DEF ReadFails, Typed, Registries, Constants, Rows, Jobs, Attempts, Requests, Objects,
       Bounded, Outside, registry, frozen, store, attempt, meta, bounds
<1> QED BY <1>1, <1>2 DEF Typed

LEMMA TypedAllThere ==
  ASSUME Typed, NEW p \in Plan, AllThere(p)
  PROVE  Typed'
<1>1. Places'
  BY TypedMove, TypedStages DEF AllThere, Typed, Attempts, Outside, attempt
<1>2. Registries' /\ Constants' /\ Rows' /\ Jobs' /\ Attempts' /\ Requests' /\ Objects' /\ Bounded'
  BY DEF AllThere, Typed, Registries, Constants, Rows, Jobs, Attempts, Requests, Objects,
       Bounded, Outside, registry, frozen, store, attempt, meta, bounds
<1> QED BY <1>1, <1>2 DEF Typed

LEMMA TypedVerified ==
  ASSUME Typed, NEW p \in Plan, Verified(p)
  PROVE  Typed'
<1>1. Places'
  BY TypedMove, TypedStages DEF Verified, Typed, Attempts, Outside, attempt
<1>2. Registries' /\ Constants' /\ Rows' /\ Jobs' /\ Attempts' /\ Requests' /\ Objects' /\ Bounded'
  BY DEF Verified, Typed, Registries, Constants, Rows, Jobs, Attempts, Requests, Objects,
       Bounded, Outside, registry, frozen, store, attempt, meta, bounds
<1> QED BY <1>1, <1>2 DEF Typed

LEMMA TypedAbort ==
  ASSUME Typed, NEW p \in Plan, Abort(p)
  PROVE  Typed'
<1>1. Places'
  BY TypedMove, TypedStages DEF Abort, Typed, Attempts, Outside, attempt
<1>2. Registries' /\ Constants' /\ Rows' /\ Jobs' /\ Attempts' /\ Requests' /\ Objects' /\ Bounded'
  BY DEF Abort, Typed, Registries, Constants, Rows, Jobs, Attempts, Requests, Objects, Bounded,
       Outside, registry, frozen, store, attempt, meta, bounds
<1> QED BY <1>1, <1>2 DEF Typed

LEMMA TypedFinish ==
  ASSUME Typed, NEW p \in Plan, Finish(p)
  PROVE  Typed'
<1>1. Places'
  BY TypedMove, TypedStages DEF Finish, Typed, Attempts, Outside, attempt
<1>2. Registries' /\ Constants' /\ Rows' /\ Jobs' /\ Attempts' /\ Requests' /\ Objects' /\ Bounded'
  BY DEF Finish, Typed, Registries, Constants, Rows, Jobs, Attempts, Requests, Objects, Bounded,
       Outside, registry, frozen, store, attempt, meta, bounds
<1> QED BY <1>1, <1>2 DEF Typed

LEMMA TypedCrash ==
  ASSUME Typed, NEW p \in Plan, Crash(p)
  PROVE  Typed'
<1>1. Places'
  BY TypedMove, TypedStages DEF Crash, Typed, Attempts, attempt, Quit
<1>2. Registries' /\ Constants' /\ Rows' /\ Jobs' /\ Attempts' /\ Requests' /\ Objects' /\ Bounded'
  BY DEF Crash, Typed, Registries, Constants, Rows, Jobs, Attempts, Requests, Objects, Bounded,
       Quit, registry, frozen, store, attempt, meta, bounds
<1> QED BY <1>1, <1>2 DEF Typed

LEMMA TypedDirectEnds ==
  ASSUME Typed, NEW p \in Plan, DirectEnds(p)
  PROVE  Typed'
<1>1. Places'
  BY TypedMove, TypedStages DEF DirectEnds, Typed, Attempts, attempt, Quit
<1>2. Registries' /\ Constants' /\ Rows' /\ Jobs' /\ Attempts' /\ Requests' /\ Objects' /\ Bounded'
  BY DEF DirectEnds, Typed, Registries, Constants, Rows, Jobs, Attempts, Requests, Objects,
       Bounded, Quit, registry, frozen, store, attempt, meta, bounds
<1> QED BY <1>1, <1>2 DEF Typed

LEMMA TypedJobDone ==
  ASSUME Typed, NEW p \in Plan, JobDone(p)
  PROVE  Typed'
<1>1. Jobs'
  BY DEF JobDone, Typed, Jobs, JobMoves
<1>2. Places'
  BY TypedMove, TypedStages DEF JobDone, Typed, Attempts, attempt, Quit
<1>3. Registries' /\ Constants' /\ Rows' /\ Attempts' /\ Requests' /\ Objects' /\ Bounded'
  BY DEF JobDone, Typed, Registries, Constants, Rows, Attempts, Requests, Objects, Bounded,
       Quit, registry, frozen, store, attempt, meta, bounds
<1> QED BY <1>1, <1>2, <1>3 DEF Typed

LEMMA TypedJobFails ==
  ASSUME Typed, NEW p \in Plan, JobFails(p)
  PROVE  Typed'
<1>1. Jobs'
  BY DEF JobFails, Typed, Jobs, JobMoves
<1>2. Places'
  BY TypedMove, TypedStages DEF JobFails, Typed, Attempts, attempt, Quit
<1>3. Rows'
  <2>1. CASE UNCHANGED store BY <2>1 DEF JobFails, Typed, Rows, store, Quit
  <2>2. CASE \E S : FailRow(p, S) BY <2>2, TypedFail DEF JobFails, Typed, Quit
  <2> QED BY <2>1, <2>2 DEF JobFails
<1>4. Registries' /\ Constants' /\ Attempts' /\ Requests' /\ Objects' /\ Bounded'
  BY DEF JobFails, Typed, Registries, Constants, Attempts, Requests, Objects, Bounded, Quit,
       registry, frozen, store, attempt, meta, bounds
<1> QED BY <1>1, <1>2, <1>3, <1>4 DEF Typed

LEMMA TypedReap ==
  ASSUME Typed, NEW p \in Plan, Reap(p)
  PROVE  Typed'
<1>1. Jobs'
  BY DEF Reap, Typed, Jobs, JobMoves
<1>2. Rows'
  <2>1. CASE UNCHANGED store BY <2>1 DEF Reap, Typed, Rows, store, Quit
  <2>2. CASE \E S : FailRow(p, S) BY <2>2, TypedFail DEF Reap, Typed, Quit
  <2> QED BY <2>1, <2>2 DEF Reap
<1>3. Registries' /\ Constants' /\ Places' /\ Attempts' /\ Requests' /\ Objects' /\ Bounded'
  BY DEF Reap, Typed, Registries, Constants, Places, Attempts, Requests, Objects, Bounded,
       registry, frozen, store, attempt, meta, bounds
<1> QED BY <1>1, <1>2, <1>3 DEF Typed

LEMMA TypedApproved ==
  ASSUME Typed, NEW p \in Plan, Approved(p)
  PROVE  Typed'
<1>1. Jobs'
  BY PublishAssumption DEF Approved, Typed, Jobs, JobRow, Enqueue
<1>2. Registries' /\ Constants' /\ Rows' /\ Places' /\ Attempts' /\ Requests' /\ Objects' /\ Bounded'
  BY DEF Approved, Typed, Registries, Constants, Rows, Places, Attempts, Requests, Objects,
       Bounded, registry, frozen, store, attempt, meta, bounds
<1> QED BY <1>1, <1>2 DEF Typed

LEMMA TypedTake ==
  ASSUME Typed, NEW p \in Plan, Take(p)
  PROVE  Typed'
<1>1. Jobs'
  BY DEF Take, Typed, Jobs, JobMoves
<1>2. Places'
  <2>1. Goto(p, "threw") \/ Goto(p, "loaded") BY DEF Take
  <2>2. \A q \in Plan \ {p} : have'[q] = have[q] BY DEF Take, Typed, Attempts
  <2> QED BY <2>1, <2>2, TypedMove, TypedStages DEF Typed
<1>3. Rows' /\ Attempts'
  BY TypedValues DEF Take, Typed, Rows, Attempts, store
<1>4. Registries' /\ Constants' /\ Requests' /\ Objects' /\ Bounded'
  BY DEF Take, Typed, Registries, Constants, Requests, Objects, Bounded, registry, frozen,
       store, meta, bounds
<1> QED BY <1>1, <1>2, <1>3, <1>4 DEF Typed

LEMMA TypedGated ==
  ASSUME Typed, NEW p \in Plan, Gated(p)
  PROVE  Typed'
<1>1. Rows' /\ Places'
  <2>1. Attempts /\ Rows /\ Places /\ UNCHANGED have BY DEF Gated, Typed, attempt
  <2>2. WriteThen(p, "failed", seen[p].shown, seen[p].may, "returned", "threw") BY DEF Gated
  <2>3. "failed" \in RowStatus BY DEF RowStatus
  <2> QED BY <2>1, <2>2, <2>3, TypedValues, TypedWriteThen, TypedStages
<1>2. Bounded'
  BY PublishAssumption DEF Gated, Typed, Bounded
<1>3. Registries' /\ Constants' /\ Jobs' /\ Attempts' /\ Requests' /\ Objects'
  BY DEF Gated, Typed, Registries, Constants, Jobs, Attempts, Requests, Objects, registry,
       frozen, attempt, meta
<1> QED BY <1>1, <1>2, <1>3 DEF Typed

LEMMA TypedReserve ==
  ASSUME Typed, NEW p \in Plan, Reserve(p)
  PROVE  Typed'
<1>1. Registries'
  BY TypedRegistry DEF Reserve, Typed, Claimant, Registries, registry
<1>2. Attempts' /\ Rows'
  <2> DEFINE a == Reserved(p, used[p])
  <2>1. used[p] \in Key /\ key[p] \in Key BY DEF Typed, Attempts, Rows
  <2>2. a \in Stored BY <2>1, TypedReserved DEF Stored
  <2>3. [used[p] EXCEPT !.reserve = a] \in Key /\ [key[p] EXCEPT !.reserve = a] \in Key
    BY <2>1, <2>2 DEF Key
  <2> HIDE DEF a
  <2>4. /\ used' = used \/ used' = [used EXCEPT ![p] = [used[p] EXCEPT !.reserve = a]]
        /\ key' = key \/ key' = [key EXCEPT ![p] = [key[p] EXCEPT !.reserve = a]]
    BY DEF Reserve, a
  <2>5. UNCHANGED <<row, current, seen, have, may>> BY DEF Reserve
  <2> QED BY <2>3, <2>4, <2>5 DEF Typed, Attempts, Rows
<1>3. Places'
  BY TypedMove, TypedStages DEF Reserve, Typed, Attempts, attempt, Unreserved, Prepared
<1>4. Constants' /\ Jobs' /\ Requests' /\ Objects' /\ Bounded'
  BY DEF Reserve, Typed, Constants, Jobs, Requests, Objects, Bounded, registry, frozen, meta,
       bounds
<1> QED BY <1>1, <1>2, <1>3, <1>4 DEF Typed

LEMMA TypedRelease ==
  ASSUME Typed, NEW p \in Plan, Release(p)
  PROVE  Typed'
<1>1. Registries'
  BY TypedRegistry DEF Release, Typed, Claimant, Registries, registry
<1>2. Attempts' /\ Rows'
  <2>1. used[p] \in Key /\ key[p] \in Key BY DEF Typed, Attempts, Rows
  <2>2. [used[p] EXCEPT !.release = TRUE] \in Key /\ [key[p] EXCEPT !.release = TRUE] \in Key
    BY <2>1 DEF Key
  <2>3. /\ used' = used \/ used' = [used EXCEPT ![p] = [used[p] EXCEPT !.release = TRUE]]
        /\ key' = key \/ key' = [key EXCEPT ![p] = [key[p] EXCEPT !.release = TRUE]]
    BY DEF Release
  <2>4. UNCHANGED <<row, current, seen, have, may>> BY DEF Release
  <2> QED BY <2>2, <2>3, <2>4 DEF Typed, Attempts, Rows
<1>3. Places'
  BY TypedMove, TypedStages DEF Release, Typed, Attempts, attempt
<1>4. Constants' /\ Jobs' /\ Requests' /\ Objects' /\ Bounded'
  BY DEF Release, Typed, Constants, Jobs, Requests, Objects, Bounded, registry, frozen, meta,
       bounds
<1> QED BY <1>1, <1>2, <1>3, <1>4 DEF Typed

LEMMA TypedLocate ==
  ASSUME Typed, NEW p \in Plan, Locate(p)
  PROVE  Typed'
<1>1. Attempts'
  BY PublishAssumption DEF Locate, Typed, Attempts, Missing
<1>2. Places'
  BY TypedStages DEF Locate, Typed, Places, Attempts, Missing, Goto, Stages, Working
<1>3. Registries' /\ Constants' /\ Rows' /\ Jobs' /\ Requests' /\ Objects' /\ Bounded'
  BY DEF Locate, Typed, Registries, Constants, Rows, Jobs, Requests, Objects, Bounded, Outside,
       registry, frozen, store, meta, bounds
<1> QED BY <1>1, <1>2, <1>3 DEF Typed

LEMMA TypedPost ==
  ASSUME Typed, NEW p \in Plan, Post(p)
  PROVE  Typed'
<1>1. Attempts'
  <2>1. have[p] < Count BY DEF Post, Typed, Places
  <2>2. UNCHANGED have \/ have' = [have EXCEPT ![p] = have[p] + 1] BY DEF Post
  <2>3. have \in [Plan -> 0 .. Count] BY DEF Typed, Attempts
  <2>4. have' \in [Plan -> 0 .. Count] BY <2>2, <2>3, <2>1, PublishAssumption
  <2>5. may' \in [Plan -> BOOLEAN] BY DEF Post, Typed, Attempts, Evidence
  <2> QED BY <2>4, <2>5 DEF Post, Typed, Attempts
<1>2. Objects'
  <2>1. have[p] < Count BY DEF Post, Typed, Places
  <2> QED BY <2>1, TypedCreates DEF Post, Typed, Objects
<1>3. Places'
  <2>1. \A q \in Plan \ {p} : have'[q] = have[q] BY DEF Post, Typed, Attempts
  <2>2. Goto(p, "checkpoint") \/ Goto(p, "failed") BY DEF Post
  <2> QED BY <2>1, <2>2, TypedMove, TypedStages DEF Typed
<1>4. Registries' /\ Constants' /\ Rows' /\ Jobs' /\ Requests' /\ Bounded'
  BY DEF Post, Typed, Registries, Constants, Rows, Jobs, Requests, Bounded, Outside, registry,
       frozen, store, bounds
<1> QED BY <1>1, <1>2, <1>3, <1>4 DEF Typed

LEMMA TypedRecordFailure ==
  ASSUME Typed, NEW p \in Plan, RecordFailure(p)
  PROVE  Typed'
<1>1. Rows' /\ Places'
  <2>1. Write(p, "failed", have[p], may[p]) \/ NoWrite BY DEF RecordFailure
  <2>2. Goto(p, Caught(p)) \/ Goto(p, "forgo") BY DEF RecordFailure
  <2>3. Caught(p) \in Stages \ {"post"} BY TypedStages DEF Caught
  <2>4. Attempts /\ Rows /\ Places /\ UNCHANGED have BY DEF RecordFailure, Typed, attempt
  <2>5. "failed" \in RowStatus BY DEF RowStatus
  <2>6. Rows' BY <2>1, <2>4, <2>5, TypedWrite, TypedValues
  <2>7. Places' BY <2>2, <2>3, <2>4, TypedMove, TypedStages
  <2> QED BY <2>6, <2>7
<1>2. Registries' /\ Constants' /\ Jobs' /\ Attempts' /\ Requests' /\ Objects' /\ Bounded'
  BY DEF RecordFailure, Typed, Registries, Constants, Jobs, Attempts, Requests, Objects,
       Bounded, Outside, registry, frozen, attempt, meta, bounds
<1> QED BY <1>1, <1>2 DEF Typed

LEMMA TypedActivate ==
  ASSUME Typed, NEW p \in Plan, Activate(p)
  PROVE  Typed'
<1>1. Objects'
  BY DEF Activate, Typed, Objects
<1>2. Places'
  BY TypedMove, TypedStages DEF Activate, Typed, Attempts, attempt, AfterActivation
<1>3. Registries' /\ Constants' /\ Rows' /\ Jobs' /\ Attempts' /\ Requests' /\ Bounded'
  BY DEF Activate, Typed, Registries, Constants, Rows, Jobs, Attempts, Requests, Bounded,
       Outside, registry, frozen, store, attempt, bounds
<1> QED BY <1>1, <1>2, <1>3 DEF Typed

LEMMA TypedConsume ==
  ASSUME Typed, NEW p \in Plan, Consume(p)
  PROVE  Typed'
<1>1. Registries'
  <2>1. CASE ConsumeClaim(p) BY <2>1, TypedRegistry DEF Typed, Claimant
  <2>2. CASE UNCHANGED registry BY <2>2 DEF Typed, Registries, registry
  <2> QED BY <2>1, <2>2 DEF Consume
<1>2. Places'
  BY TypedMove, TypedStages DEF Consume, Typed, Attempts, attempt
<1>3. Constants' /\ Rows' /\ Jobs' /\ Attempts' /\ Requests' /\ Objects' /\ Bounded'
  BY DEF Consume, Typed, Constants, Rows, Jobs, Attempts, Requests, Objects, Bounded, registry,
       frozen, store, attempt, meta, bounds
<1> QED BY <1>1, <1>2, <1>3 DEF Typed

LEMMA TypedAsk ==
  ASSUME Typed, NEW p \in Plan, Ask(p)
  PROVE  Typed'
<1>1. Requests'
  BY DEF Ask, Typed, Requests, Rows
<1>2. Bounded'
  BY PublishAssumption DEF Ask, Typed, Bounded
<1>3. Registries' /\ Constants' /\ Rows' /\ Jobs' /\ Places' /\ Attempts' /\ Objects'
  BY DEF Ask, Typed, Registries, Constants, Rows, Jobs, Places, Attempts, Objects, registry,
       frozen, store, attempt, meta
<1> QED BY <1>1, <1>2, <1>3 DEF Typed

LEMMA TypedReopen ==
  ASSUME Typed, NEW p \in Plan, Reopen(p)
  PROVE  Typed'
<1>1. Requests'
  <2>1. asked[p] \in Row BY DEF Reopen, Typed, Requests, NoRow
  <2>2. [asked[p] EXCEPT !.status = "publishing"] \in Row BY <2>1 DEF Row, RowStatus
  <2> QED BY <2>2 DEF Reopen, Answered, Typed, Requests
<1>2. Rows'
  <2>1. asked[p] \in Row BY DEF Reopen, Typed, Requests, NoRow
  <2>2. asked[p].shown \in 0 .. Count /\ asked[p].may \in BOOLEAN /\ "publishing" \in RowStatus
    BY <2>1 DEF Row, RowStatus
  <2> QED BY <2>2, TypedWrite DEF Reopen, Typed
<1>3. Registries' /\ Constants' /\ Jobs' /\ Places' /\ Attempts' /\ Objects' /\ Bounded'
  BY DEF Reopen, Typed, Registries, Constants, Jobs, Places, Attempts, Objects, Bounded,
       Answered, registry, frozen, attempt, meta, bounds
<1> QED BY <1>1, <1>2, <1>3 DEF Typed

LEMMA TypedResume ==
  ASSUME Typed, NEW p \in Plan, Resume(p)
  PROVE  Typed'
<1>1. Jobs'
  BY PublishAssumption DEF Resume, Typed, Jobs, JobRow, Enqueue
<1>2. Requests'
  BY DEF Resume, Answered, Typed, Requests
<1>3. Registries' /\ Constants' /\ Rows' /\ Places' /\ Attempts' /\ Objects' /\ Bounded'
  BY DEF Resume, Typed, Registries, Constants, Rows, Places, Attempts, Objects, Bounded,
       Answered, registry, frozen, store, attempt, meta, bounds
<1> QED BY <1>1, <1>2, <1>3 DEF Typed

LEMMA TypedDirect ==
  ASSUME Typed, NEW p \in Plan, Direct(p)
  PROVE  Typed'
<1>1. Requests'
  BY DEF Direct, Answered, Typed, Requests
<1>2. Attempts' /\ Rows'
  <2>1. asked[p] \in Row BY DEF Direct, Typed, Requests
  <2>2. asked[p].shown \in 0 .. Count /\ asked[p].may \in BOOLEAN BY <2>1 DEF Row
  <2>3. NewKey \in Key BY DEF NewKey, Key, Stored
  <2> QED BY <2>1, <2>2, <2>3 DEF Direct, Typed, Attempts, Rows, store, attempt
<1>3. Places'
  <2>1. CASE UNCHANGED <<pc, attempt>> BY <2>1 DEF Typed, Places, attempt
  <2>2. CASE Goto(p, "begin") /\ have' = [have EXCEPT ![p] = asked[p].shown]
    BY <2>2, TypedMove, TypedStages DEF Typed, Attempts
  <2> QED BY <2>1, <2>2 DEF Direct
<1>4. Registries' /\ Constants' /\ Jobs' /\ Objects' /\ Bounded'
  BY DEF Direct, Typed, Registries, Constants, Jobs, Objects, Bounded, Answered, registry,
       frozen, store, attempt, meta, bounds
<1> QED BY <1>1, <1>2, <1>3, <1>4 DEF Typed

LEMMA TypedDirectCatch ==
  ASSUME Typed, NEW p \in Plan, DirectCatch(p)
  PROVE  Typed'
<1>1. Rows'
  <2>1. "failed" \in RowStatus BY DEF RowStatus
  <2> QED BY <2>1, TypedWrite, TypedValues DEF DirectCatch, Typed
<1>2. Places'
  BY TypedMove, TypedStages DEF DirectCatch, Typed, Attempts, attempt
<1>3. Registries' /\ Constants' /\ Jobs' /\ Attempts' /\ Requests' /\ Objects' /\ Bounded'
  BY DEF DirectCatch, Typed, Registries, Constants, Jobs, Attempts, Requests, Objects, Bounded,
       Outside, registry, frozen, attempt, meta, bounds
<1> QED BY <1>1, <1>2, <1>3 DEF Typed

LEMMA TypedRivalMoves ==
  ASSUME Typed, NEW r \in Rival, RivalMoves(r)
  PROVE  Typed'
<1>1. Registries'
  BY TypedRegistry DEF RivalMoves, Typed, Claimant
<1>2. Constants' /\ Rows' /\ Jobs' /\ Places' /\ Attempts' /\ Requests' /\ Objects' /\ Bounded'
  BY DEF RivalMoves, Typed, Constants, Rows, Jobs, Places, Attempts, Requests, Objects, Bounded,
       frozen, store, attempt, meta, bounds
<1> QED BY <1>1, <1>2 DEF Typed

-----------------------------------------------------------------------------
(* The type invariant *)

LEMMA TypedNext == Typed /\ [Next]_vars => Typed'
<1> SUFFICES ASSUME Typed, [Next]_vars PROVE Typed' OBVIOUS
<1>1. CASE UNCHANGED vars
  BY <1>1 DEF Typed, Registries, Constants, Rows, Jobs, Places, Attempts, Requests, Objects,
              Bounded, vars
<1>2. ASSUME NEW p \in Plan, Executes(p) PROVE Typed'
  BY <1>2, TypedReserve, TypedProceed, TypedRefused, TypedBegin, TypedLocate, TypedReadFails,
     TypedPost, TypedCheckpoint, TypedAllThere, TypedVerified, TypedRecordFailure,
     TypedRecordObjects, TypedQuarantine, TypedRelease, TypedRetry, TypedActivate, TypedConsume,
     TypedComplete, TypedFinish, TypedDirectRecord, TypedDirectCatch, TypedDirectEnds
  DEF Executes
<1>3. ASSUME NEW p \in Plan, Approved(p) \/ Take(p) \/ Settles(p) \/ Reap(p) PROVE Typed'
  BY <1>3, TypedApproved, TypedTake, TypedJobDone, TypedJobFails, TypedReap DEF Settles
<1>4. ASSUME NEW p \in Plan, Disturbs(p) \/ Route(p) PROVE Typed'
  BY <1>4, TypedCrash, TypedAbort, TypedGated, TypedAsk, TypedReopen, TypedResume, TypedDirect
  DEF Disturbs, Route
<1>5. ASSUME NEW r \in Rival, RivalMoves(r) PROVE Typed'
  BY <1>5, TypedRivalMoves
<1> QED BY <1>1, <1>2, <1>3, <1>4, <1>5 DEF Next

(* The row, the job and the executor of every plan stay well formed, for any
   number of plans, objects and attempts. *)
THEOREM PublishTypeCorrect == Spec => []TypeOK
<1>1. Init => Typed BY TypedInit, PublishAssumption
<1>2. Typed /\ [Next]_vars => Typed' BY TypedNext
<1>3. Typed => TypeOK BY TypedIsTypeOK
<1> QED BY <1>1, <1>2, <1>3, PTL DEF Spec

-----------------------------------------------------------------------------
(* What makes the creation safe, for one plan.  Whatever is recorded, in the *)
(* row, in the executor or in a request, exists.  An attempt that loaded an  *)
(* approved row starts from nothing and posts without looking; as long as it *)
(* has no evidence, it has created nothing, which is when it may write the   *)
(* row as approved again.  An attempt that reconciles posts what it has just *)
(* not found.                                                                *)

Recorded(n, m) == \A o \in Object : o <= n => m[o] > 0

Blind(p) ==
  /\ pc[p] \in {"loaded", "refused", "begin", "withdraw", "retry"} => Clean(p)
  /\ pc[p] \in {"work", "post", "checkpoint"} => \A o \in Object : o > have[p] => made[p][o] = 0
  /\ pc[p] \in Working \cup {"failed", "created"} /\ ~may[p] => Clean(p)

Creation(p) ==
  /\ \A o \in Object : made[p][o] <= 1
  /\ pc[p] = "post" => made[p][Next1(p)] = 0
  /\ pc[p] = "loaded" => seen[p].status \in {"approved", "publishing", "paused_live"}
  /\ pc[p] \in Working \cup Settling => seen[p].status \in {"approved", "publishing"}
  /\ seen[p].status = "approved" => Blind(p)

Safe(p) ==
  /\ Recorded(row[p].shown, made[p]) /\ Recorded(seen[p].shown, made[p])
  /\ Recorded(asked[p].shown, made[p]) /\ Recorded(have[p], made[p])
  /\ row[p].status = "approved" => approval[p] /\ Clean(p)
  /\ pc[p] \in {"refused", "retry", "forgo"} => approval[p]
  /\ pc[p] = "refused" => seen[p].status = "approved"
  /\ pc[p] \in Working => row[p].status # "approved"
  /\ approval[p] => Creation(p)

\* What makes success complete.
Finished(p) ==
  /\ row[p].status = "paused_live" =>
       row[p].shown = Count /\ (approval[p] /\ free[p] => campaign[p] = "live" /\ ConsumedBy(p))
  /\ pc[p] = "loaded" /\ seen[p].status = "paused_live" => have[p] = Count
  /\ pc[p] \in {"verify", "created", "activate", "consume", "complete"} => have[p] = Count
  /\ pc[p] = "consume" => campaign[p] = "live"
  /\ pc[p] = "complete" /\ approval[p] /\ free[p] => campaign[p] = "live" /\ ConsumedBy(p)
  /\ consumed[p] = "yes" => ConsumedBy(p)
  /\ ConsumedBy(p) => campaign[p] = "live"

Safety == \A p \in Plan : Safe(p) /\ Finished(p)

\* A step of one plan leaves the others alone
Same(q) ==
  UNCHANGED <<approval[q], free[q], row[q], pc[q], seen[q], have[q], may[q], asked[q], made[q],
              campaign[q]>>

ClaimKept(q) == consumed'[q] = consumed[q] /\ (ConsumedBy(q)' <=> ConsumedBy(q))

LEMMA SafeFrame ==
  ASSUME NEW q \in Plan, Safe(q), Finished(q), Same(q), ClaimKept(q)
  PROVE  Safe(q)' /\ Finished(q)'
<1>1. Safe(q)'
  BY DEF Safe, Creation, Blind, Clean, Next1, Recorded, Same
<1>2. Finished(q)'
  BY DEF Finished, Same, ClaimKept
<1> QED BY <1>1, <1>2

LEMMA ClaimFrame ==
  ASSUME Typed, NEW c \in Claimant, NEW k, NEW q \in Plan \ {c},
         ReserveClaim(c, k) \/ ReleaseClaim(c, k) \/ ConsumeClaim(c)
  PROVE  ClaimKept(q)
BY DEF Typed, Registries, ReserveClaim, ReleaseClaim, ConsumeClaim, ClaimKept, ConsumedBy,
       ReservedBy, Available, Claimant, Claim

LEMMA ClaimOwn ==
  ASSUME Typed, NEW c \in Plan, NEW k, ReserveClaim(c, k) \/ ReleaseClaim(c, k)
  PROVE  ClaimKept(c)
BY DEF Typed, Registries, ReserveClaim, ReleaseClaim, ClaimKept, ConsumedBy, ReservedBy,
       Available, Claimant, Claim

LEMMA SafeInit == PublishAssumption /\ Init => Safety
<1> SUFFICES ASSUME PublishAssumption, Init, NEW p \in Plan PROVE Safe(p) /\ Finished(p)
  BY DEF Safety
<1>1. /\ row[p].shown = 0 /\ row[p].status \in {"approved", "publishing"}
      /\ row[p].status = "approved" => approval[p]
      /\ seen[p] = NoRow /\ asked[p] = NoRow /\ have[p] = 0 /\ pc[p] = "idle"
      /\ \A o \in Object : made[p][o] = 0
  BY DEF Init
<1>2. Safe(p)
  BY <1>1, PublishAssumption DEF Safe, Recorded, Clean, Creation, Object, NoRow, Working, Settling
<1>3. Finished(p)
  BY <1>1 DEF Init, RegistryInit, Finished, ConsumedBy, Claimant
<1> QED BY <1>2, <1>3

LEMMA SafeBegin ==
  ASSUME Typed, Safety, NEW p \in Plan, Begin(p)
  PROVE  Safety'
<1>1. \A q \in Plan \ {p} : Same(q)
  BY DEF Begin, Outside, registry, frozen, attempt, meta, bounds, Typed, Constants, Rows,
       Places, Attempts, Requests, Objects, Same, WriteThen, Write, NoWrite, Goto
<1>2. \A q \in Plan : ClaimKept(q)
  BY DEF Begin, Outside, registry, frozen, attempt, meta, bounds, ClaimKept, ConsumedBy
<1>3. Safe(p) /\ Finished(p) BY DEF Safety
<1>4. Safe(p)'
  BY <1>3, PublishAssumption DEF Begin, Outside, registry, frozen, attempt, meta, bounds, Typed,
       Constants, Rows, Places, Attempts, Requests, Objects, Object, Safe, Creation, Blind,
       Recorded, Clean, Next1, Working, Settling, WriteThen, Write, NoWrite, Goto
<1>5. Finished(p)'
  BY <1>2, <1>3, PublishAssumption DEF Begin, Outside, registry, frozen, attempt, meta, bounds,
       Typed, Constants, Rows, Places, Attempts, Requests, Objects, Object, Finished, ClaimKept,
       WriteThen, Write, NoWrite, Goto
<1> QED
  <2> SUFFICES ASSUME NEW q \in Plan PROVE Safe(q)' /\ Finished(q)' BY DEF Safety
  <2>1. CASE q = p BY <2>1, <1>4, <1>5
  <2>2. CASE q # p BY <2>2, <1>1, <1>2, SafeFrame DEF Safety
  <2> QED BY <2>1, <2>2

LEMMA SafeRefused ==
  ASSUME Typed, Safety, NEW p \in Plan, Refused(p)
  PROVE  Safety'
<1>1. \A q \in Plan \ {p} : Same(q)
  BY DEF Refused, Outside, registry, frozen, attempt, meta, bounds, Typed, Constants, Rows,
       Places, Attempts, Requests, Objects, Same, WriteThen, Write, NoWrite, Goto
<1>2. \A q \in Plan : ClaimKept(q)
  BY DEF Refused, Outside, registry, frozen, attempt, meta, bounds, ClaimKept, ConsumedBy
<1>3. Safe(p) /\ Finished(p) BY DEF Safety
<1>4. Safe(p)'
  BY <1>3, PublishAssumption DEF Refused, Outside, registry, frozen, attempt, meta, bounds,
       Typed, Constants, Rows, Places, Attempts, Requests, Objects, Object, Safe, Creation,
       Blind, Recorded, Clean, Next1, Working, Settling, WriteThen, Write, NoWrite, Goto
<1>5. Finished(p)'
  BY <1>2, <1>3, PublishAssumption DEF Refused, Outside, registry, frozen, attempt, meta,
       bounds, Typed, Constants, Rows, Places, Attempts, Requests, Objects, Object, Finished,
       ClaimKept, WriteThen, Write, NoWrite, Goto
<1> QED
  <2> SUFFICES ASSUME NEW q \in Plan PROVE Safe(q)' /\ Finished(q)' BY DEF Safety
  <2>1. CASE q = p BY <2>1, <1>4, <1>5
  <2>2. CASE q # p BY <2>2, <1>1, <1>2, SafeFrame DEF Safety
  <2> QED BY <2>1, <2>2

LEMMA SafeCheckpoint ==
  ASSUME Typed, Safety, NEW p \in Plan, Checkpoint(p)
  PROVE  Safety'
<1>1. \A q \in Plan \ {p} : Same(q)
  BY DEF Checkpoint, Outside, registry, frozen, attempt, meta, bounds, Typed, Constants, Rows,
       Places, Attempts, Requests, Objects, Same, WriteThen, Write, NoWrite, Goto, Loop, Missing
<1>2. \A q \in Plan : ClaimKept(q)
  BY DEF Checkpoint, Outside, registry, frozen, attempt, meta, bounds, ClaimKept, ConsumedBy
<1>3. Safe(p) /\ Finished(p) BY DEF Safety
<1>4. Safe(p)'
  BY <1>3, PublishAssumption DEF Checkpoint, Outside, registry, frozen, attempt, meta, bounds,
       Typed, Constants, Rows, Places, Attempts, Requests, Objects, Object, Safe, Creation,
       Blind, Recorded, Clean, Next1, Working, Settling, WriteThen, Write, NoWrite, Goto, Loop,
       Missing
<1>5. Finished(p)'
  BY <1>2, <1>3, PublishAssumption DEF Checkpoint, Outside, registry, frozen, attempt, meta,
       bounds, Typed, Constants, Rows, Places, Attempts, Requests, Objects, Object, Finished,
       ClaimKept, WriteThen, Write, NoWrite, Goto, Loop, Missing
<1> QED
  <2> SUFFICES ASSUME NEW q \in Plan PROVE Safe(q)' /\ Finished(q)' BY DEF Safety
  <2>1. CASE q = p BY <2>1, <1>4, <1>5
  <2>2. CASE q # p BY <2>2, <1>1, <1>2, SafeFrame DEF Safety
  <2> QED BY <2>1, <2>2

LEMMA SafeRecordObjects ==
  ASSUME Typed, Safety, NEW p \in Plan, RecordObjects(p)
  PROVE  Safety'
<1>1. \A q \in Plan \ {p} : Same(q)
  BY DEF RecordObjects, Outside, registry, frozen, attempt, meta, bounds, Typed, Constants,
       Rows, Places, Attempts, Requests, Objects, Same, WriteThen, Write, NoWrite, Goto,
       CreatedStatus, Finalize, Caught
<1>2. \A q \in Plan : ClaimKept(q)
  BY DEF RecordObjects, Outside, registry, frozen, attempt, meta, bounds, ClaimKept, ConsumedBy
<1>3. Safe(p) /\ Finished(p) BY DEF Safety
<1>4. Safe(p)'
  BY <1>3, PublishAssumption DEF RecordObjects, Outside, registry, frozen, attempt, meta,
       bounds, Typed, Constants, Rows, Places, Attempts, Requests, Objects, Object, Safe,
       Creation, Blind, Recorded, Clean, Next1, Working, Settling, WriteThen, Write, NoWrite,
       Goto, CreatedStatus, Finalize, Caught
<1>5. Finished(p)'
  BY <1>2, <1>3, PublishAssumption DEF RecordObjects, Outside, registry, frozen, attempt, meta,
       bounds, Typed, Constants, Rows, Places, Attempts, Requests, Objects, Object, Finished,
       ClaimKept, WriteThen, Write, NoWrite, Goto, CreatedStatus, Finalize, Caught
<1> QED
  <2> SUFFICES ASSUME NEW q \in Plan PROVE Safe(q)' /\ Finished(q)' BY DEF Safety
  <2>1. CASE q = p BY <2>1, <1>4, <1>5
  <2>2. CASE q # p BY <2>2, <1>1, <1>2, SafeFrame DEF Safety
  <2> QED BY <2>1, <2>2

LEMMA SafeQuarantine ==
  ASSUME Typed, Safety, NEW p \in Plan, Quarantine(p)
  PROVE  Safety'
<1>1. \A q \in Plan \ {p} : Same(q)
  BY DEF Quarantine, Outside, registry, frozen, attempt, meta, bounds, Typed, Constants, Rows,
       Places, Attempts, Requests, Objects, Same, WriteThen, Write, NoWrite, Goto
<1>2. \A q \in Plan : ClaimKept(q)
  BY DEF Quarantine, Outside, registry, frozen, attempt, meta, bounds, ClaimKept, ConsumedBy
<1>3. Safe(p) /\ Finished(p) BY DEF Safety
<1>4. Safe(p)'
  BY <1>3, PublishAssumption DEF Quarantine, Outside, registry, frozen, attempt, meta, bounds,
       Typed, Constants, Rows, Places, Attempts, Requests, Objects, Object, Safe, Creation,
       Blind, Recorded, Clean, Next1, Working, Settling, WriteThen, Write, NoWrite, Goto
<1>5. Finished(p)'
  BY <1>2, <1>3, PublishAssumption DEF Quarantine, Outside, registry, frozen, attempt, meta,
       bounds, Typed, Constants, Rows, Places, Attempts, Requests, Objects, Object, Finished,
       ClaimKept, WriteThen, Write, NoWrite, Goto
<1> QED
  <2> SUFFICES ASSUME NEW q \in Plan PROVE Safe(q)' /\ Finished(q)' BY DEF Safety
  <2>1. CASE q = p BY <2>1, <1>4, <1>5
  <2>2. CASE q # p BY <2>2, <1>1, <1>2, SafeFrame DEF Safety
  <2> QED BY <2>1, <2>2

LEMMA SafeRetry ==
  ASSUME Typed, Safety, NEW p \in Plan, Retry(p)
  PROVE  Safety'
<1>1. \A q \in Plan \ {p} : Same(q)
  BY DEF Retry, Outside, registry, frozen, attempt, meta, bounds, Typed, Constants, Rows,
       Places, Attempts, Requests, Objects, Same, WriteThen, Write, NoWrite, Goto, RetryStatus
<1>2. \A q \in Plan : ClaimKept(q)
  BY DEF Retry, Outside, registry, frozen, attempt, meta, bounds, ClaimKept, ConsumedBy
<1>3. Safe(p) /\ Finished(p) BY DEF Safety
<1>4. Safe(p)'
  BY <1>3, PublishAssumption DEF Retry, Outside, registry, frozen, attempt, meta, bounds, Typed,
       Constants, Rows, Places, Attempts, Requests, Objects, Object, Safe, Creation, Blind,
       Recorded, Clean, Next1, Working, Settling, WriteThen, Write, NoWrite, Goto, RetryStatus
<1>5. Finished(p)'
  BY <1>2, <1>3, PublishAssumption DEF Retry, Outside, registry, frozen, attempt, meta, bounds,
       Typed, Constants, Rows, Places, Attempts, Requests, Objects, Object, Finished, ClaimKept,
       WriteThen, Write, NoWrite, Goto, RetryStatus
<1> QED
  <2> SUFFICES ASSUME NEW q \in Plan PROVE Safe(q)' /\ Finished(q)' BY DEF Safety
  <2>1. CASE q = p BY <2>1, <1>4, <1>5
  <2>2. CASE q # p BY <2>2, <1>1, <1>2, SafeFrame DEF Safety
  <2> QED BY <2>1, <2>2

LEMMA SafeComplete ==
  ASSUME Typed, Safety, NEW p \in Plan, Complete(p)
  PROVE  Safety'
<1>1. \A q \in Plan \ {p} : Same(q)
  BY DEF Complete, Outside, registry, frozen, attempt, meta, bounds, Typed, Constants, Rows,
       Places, Attempts, Requests, Objects, Same, WriteThen, Write, NoWrite, Goto
<1>2. \A q \in Plan : ClaimKept(q)
  BY DEF Complete, Outside, registry, frozen, attempt, meta, bounds, ClaimKept, ConsumedBy
<1>3. Safe(p) /\ Finished(p) BY DEF Safety
<1>4. Safe(p)'
  BY <1>3, PublishAssumption DEF Complete, Outside, registry, frozen, attempt, meta, bounds,
       Typed, Constants, Rows, Places, Attempts, Requests, Objects, Object, Safe, Creation,
       Blind, Recorded, Clean, Next1, Working, Settling, WriteThen, Write, NoWrite, Goto
<1>5. Finished(p)'
  BY <1>2, <1>3, PublishAssumption DEF Complete, Outside, registry, frozen, attempt, meta,
       bounds, Typed, Constants, Rows, Places, Attempts, Requests, Objects, Object, Finished,
       ClaimKept, WriteThen, Write, NoWrite, Goto
<1> QED
  <2> SUFFICES ASSUME NEW q \in Plan PROVE Safe(q)' /\ Finished(q)' BY DEF Safety
  <2>1. CASE q = p BY <2>1, <1>4, <1>5
  <2>2. CASE q # p BY <2>2, <1>1, <1>2, SafeFrame DEF Safety
  <2> QED BY <2>1, <2>2

LEMMA SafeDirectRecord ==
  ASSUME Typed, Safety, NEW p \in Plan, DirectRecord(p)
  PROVE  Safety'
<1>1. \A q \in Plan \ {p} : Same(q)
  BY DEF DirectRecord, Outside, registry, frozen, attempt, meta, bounds, Typed, Constants, Rows,
       Places, Attempts, Requests, Objects, Same, WriteThen, Write, NoWrite, Goto, DirectStatus
<1>2. \A q \in Plan : ClaimKept(q)
  BY DEF DirectRecord, Outside, registry, frozen, attempt, meta, bounds, ClaimKept, ConsumedBy
<1>3. Safe(p) /\ Finished(p) BY DEF Safety
<1>4. Safe(p)'
  BY <1>3, PublishAssumption DEF DirectRecord, Outside, registry, frozen, attempt, meta, bounds,
       Typed, Constants, Rows, Places, Attempts, Requests, Objects, Object, Safe, Creation,
       Blind, Recorded, Clean, Next1, Working, Settling, WriteThen, Write, NoWrite, Goto,
       DirectStatus
<1>5. Finished(p)'
  BY <1>2, <1>3, PublishAssumption DEF DirectRecord, Outside, registry, frozen, attempt, meta,
       bounds, Typed, Constants, Rows, Places, Attempts, Requests, Objects, Object, Finished,
       ClaimKept, WriteThen, Write, NoWrite, Goto, DirectStatus
<1> QED
  <2> SUFFICES ASSUME NEW q \in Plan PROVE Safe(q)' /\ Finished(q)' BY DEF Safety
  <2>1. CASE q = p BY <2>1, <1>4, <1>5
  <2>2. CASE q # p BY <2>2, <1>1, <1>2, SafeFrame DEF Safety
  <2> QED BY <2>1, <2>2

LEMMA SafeProceed ==
  ASSUME Typed, Safety, NEW p \in Plan, Proceed(p)
  PROVE  Safety'
<1>1. \A q \in Plan \ {p} : Same(q)
  BY DEF Proceed, Outside, registry, frozen, store, attempt, meta, bounds, Typed, Constants,
       Rows, Places, Attempts, Requests, Objects, Same, Goto, Prepared
<1>2. \A q \in Plan : ClaimKept(q)
  BY DEF Proceed, Outside, registry, frozen, store, attempt, meta, bounds, ClaimKept, ConsumedBy
<1>3. Safe(p) /\ Finished(p) BY DEF Safety
<1>4. Safe(p)'
  BY <1>3, PublishAssumption DEF Proceed, Outside, registry, frozen, store, attempt, meta,
       bounds, Typed, Constants, Rows, Places, Attempts, Requests, Objects, Object, Safe,
       Creation, Blind, Recorded, Clean, Next1, Working, Settling, Goto, Prepared
<1>5. Finished(p)'
  BY <1>2, <1>3, PublishAssumption DEF Proceed, Outside, registry, frozen, store, attempt, meta,
       bounds, Typed, Constants, Rows, Places, Attempts, Requests, Objects, Object, Finished,
       ClaimKept, Goto, Prepared
<1> QED
  <2> SUFFICES ASSUME NEW q \in Plan PROVE Safe(q)' /\ Finished(q)' BY DEF Safety
  <2>1. CASE q = p BY <2>1, <1>4, <1>5
  <2>2. CASE q # p BY <2>2, <1>1, <1>2, SafeFrame DEF Safety
  <2> QED BY <2>1, <2>2

LEMMA SafeReadFails ==
  ASSUME Typed, Safety, NEW p \in Plan, ReadFails(p)
  PROVE  Safety'
<1>1. \A q \in Plan \ {p} : Same(q)
  BY DEF ReadFails, Outside, registry, frozen, store, attempt, meta, bounds, Typed, Constants,
       Rows, Places, Attempts, Requests, Objects, Same, Goto
<1>2. \A q \in Plan : ClaimKept(q)
  BY DEF ReadFails, Outside, registry, frozen, store, attempt, meta, bounds, ClaimKept, ConsumedBy
<1>3. Safe(p) /\ Finished(p) BY DEF Safety
<1>4. Safe(p)'
  BY <1>3, PublishAssumption DEF ReadFails, Outside, registry, frozen, store, attempt, meta,
       bounds, Typed, Constants, Rows, Places, Attempts, Requests, Objects, Object, Safe,
       Creation, Blind, Recorded, Clean, Next1, Working, Settling, Goto
<1>5. Finished(p)'
  BY <1>2, <1>3, PublishAssumption DEF ReadFails, Outside, registry, frozen, store, attempt,
       meta, bounds, Typed, Constants, Rows, Places, Attempts, Requests, Objects, Object,
       Finished, ClaimKept, Goto
<1> QED
  <2> SUFFICES ASSUME NEW q \in Plan PROVE Safe(q)' /\ Finished(q)' BY DEF Safety
  <2>1. CASE q = p BY <2>1, <1>4, <1>5
  <2>2. CASE q # p BY <2>2, <1>1, <1>2, SafeFrame DEF Safety
  <2> QED BY <2>1, <2>2

LEMMA SafeAllThere ==
  ASSUME Typed, Safety, NEW p \in Plan, AllThere(p)
  PROVE  Safety'
<1>1. \A q \in Plan \ {p} : Same(q)
  BY DEF AllThere, Outside, registry, frozen, store, attempt, meta, bounds, Typed, Constants,
       Rows, Places, Attempts, Requests, Objects, Same, Goto, Missing
<1>2. \A q \in Plan : ClaimKept(q)
  BY DEF AllThere, Outside, registry, frozen, store, attempt, meta, bounds, ClaimKept, ConsumedBy
<1>3. Safe(p) /\ Finished(p) BY DEF Safety
<1>4. Safe(p)'
  BY <1>3, PublishAssumption DEF AllThere, Outside, registry, frozen, store, attempt, meta,
       bounds, Typed, Constants, Rows, Places, Attempts, Requests, Objects, Object, Safe,
       Creation, Blind, Recorded, Clean, Next1, Working, Settling, Goto, Missing
<1>5. Finished(p)'
  BY <1>2, <1>3, PublishAssumption DEF AllThere, Outside, registry, frozen, store, attempt,
       meta, bounds, Typed, Constants, Rows, Places, Attempts, Requests, Objects, Object,
       Finished, ClaimKept, Goto, Missing
<1> QED
  <2> SUFFICES ASSUME NEW q \in Plan PROVE Safe(q)' /\ Finished(q)' BY DEF Safety
  <2>1. CASE q = p BY <2>1, <1>4, <1>5
  <2>2. CASE q # p BY <2>2, <1>1, <1>2, SafeFrame DEF Safety
  <2> QED BY <2>1, <2>2

LEMMA SafeVerified ==
  ASSUME Typed, Safety, NEW p \in Plan, Verified(p)
  PROVE  Safety'
<1>1. \A q \in Plan \ {p} : Same(q)
  BY DEF Verified, Outside, registry, frozen, store, attempt, meta, bounds, Typed, Constants,
       Rows, Places, Attempts, Requests, Objects, Same, Goto
<1>2. \A q \in Plan : ClaimKept(q)
  BY DEF Verified, Outside, registry, frozen, store, attempt, meta, bounds, ClaimKept, ConsumedBy
<1>3. Safe(p) /\ Finished(p) BY DEF Safety
<1>4. Safe(p)'
  BY <1>3, PublishAssumption DEF Verified, Outside, registry, frozen, store, attempt, meta,
       bounds, Typed, Constants, Rows, Places, Attempts, Requests, Objects, Object, Safe,
       Creation, Blind, Recorded, Clean, Next1, Working, Settling, Goto
<1>5. Finished(p)'
  BY <1>2, <1>3, PublishAssumption DEF Verified, Outside, registry, frozen, store, attempt,
       meta, bounds, Typed, Constants, Rows, Places, Attempts, Requests, Objects, Object,
       Finished, ClaimKept, Goto
<1> QED
  <2> SUFFICES ASSUME NEW q \in Plan PROVE Safe(q)' /\ Finished(q)' BY DEF Safety
  <2>1. CASE q = p BY <2>1, <1>4, <1>5
  <2>2. CASE q # p BY <2>2, <1>1, <1>2, SafeFrame DEF Safety
  <2> QED BY <2>1, <2>2

LEMMA SafeAbort ==
  ASSUME Typed, Safety, NEW p \in Plan, Abort(p)
  PROVE  Safety'
<1>1. \A q \in Plan \ {p} : Same(q)
  BY DEF Abort, Outside, registry, frozen, store, attempt, meta, bounds, Typed, Constants, Rows,
       Places, Attempts, Requests, Objects, Same, Goto
<1>2. \A q \in Plan : ClaimKept(q)
  BY DEF Abort, Outside, registry, frozen, store, attempt, meta, bounds, ClaimKept, ConsumedBy
<1>3. Safe(p) /\ Finished(p) BY DEF Safety
<1>4. Safe(p)'
  BY <1>3, PublishAssumption DEF Abort, Outside, registry, frozen, store, attempt, meta, bounds,
       Typed, Constants, Rows, Places, Attempts, Requests, Objects, Object, Safe, Creation,
       Blind, Recorded, Clean, Next1, Working, Settling, Goto
<1>5. Finished(p)'
  BY <1>2, <1>3, PublishAssumption DEF Abort, Outside, registry, frozen, store, attempt, meta,
       bounds, Typed, Constants, Rows, Places, Attempts, Requests, Objects, Object, Finished,
       ClaimKept, Goto
<1> QED
  <2> SUFFICES ASSUME NEW q \in Plan PROVE Safe(q)' /\ Finished(q)' BY DEF Safety
  <2>1. CASE q = p BY <2>1, <1>4, <1>5
  <2>2. CASE q # p BY <2>2, <1>1, <1>2, SafeFrame DEF Safety
  <2> QED BY <2>1, <2>2

LEMMA SafeFinish ==
  ASSUME Typed, Safety, NEW p \in Plan, Finish(p)
  PROVE  Safety'
<1>1. \A q \in Plan \ {p} : Same(q)
  BY DEF Finish, Outside, registry, frozen, store, attempt, meta, bounds, Typed, Constants,
       Rows, Places, Attempts, Requests, Objects, Same, Goto
<1>2. \A q \in Plan : ClaimKept(q)
  BY DEF Finish, Outside, registry, frozen, store, attempt, meta, bounds, ClaimKept, ConsumedBy
<1>3. Safe(p) /\ Finished(p) BY DEF Safety
<1>4. Safe(p)'
  BY <1>3, PublishAssumption DEF Finish, Outside, registry, frozen, store, attempt, meta,
       bounds, Typed, Constants, Rows, Places, Attempts, Requests, Objects, Object, Safe,
       Creation, Blind, Recorded, Clean, Next1, Working, Settling, Goto
<1>5. Finished(p)'
  BY <1>2, <1>3, PublishAssumption DEF Finish, Outside, registry, frozen, store, attempt, meta,
       bounds, Typed, Constants, Rows, Places, Attempts, Requests, Objects, Object, Finished,
       ClaimKept, Goto
<1> QED
  <2> SUFFICES ASSUME NEW q \in Plan PROVE Safe(q)' /\ Finished(q)' BY DEF Safety
  <2>1. CASE q = p BY <2>1, <1>4, <1>5
  <2>2. CASE q # p BY <2>2, <1>1, <1>2, SafeFrame DEF Safety
  <2> QED BY <2>1, <2>2

LEMMA SafeCrash ==
  ASSUME Typed, Safety, NEW p \in Plan, Crash(p)
  PROVE  Safety'
<1>1. \A q \in Plan \ {p} : Same(q)
  BY DEF Crash, Quit, registry, frozen, store, attempt, meta, bounds, Typed, Constants, Rows,
       Places, Attempts, Requests, Objects, Same, Goto
<1>2. \A q \in Plan : ClaimKept(q)
  BY DEF Crash, Quit, registry, frozen, store, attempt, meta, bounds, ClaimKept, ConsumedBy
<1>3. Safe(p) /\ Finished(p) BY DEF Safety
<1>4. Safe(p)'
  BY <1>3, PublishAssumption DEF Crash, Quit, registry, frozen, store, attempt, meta, bounds,
       Typed, Constants, Rows, Places, Attempts, Requests, Objects, Object, Safe, Creation,
       Blind, Recorded, Clean, Next1, Working, Settling, Goto
<1>5. Finished(p)'
  BY <1>2, <1>3, PublishAssumption DEF Crash, Quit, registry, frozen, store, attempt, meta,
       bounds, Typed, Constants, Rows, Places, Attempts, Requests, Objects, Object, Finished,
       ClaimKept, Goto
<1> QED
  <2> SUFFICES ASSUME NEW q \in Plan PROVE Safe(q)' /\ Finished(q)' BY DEF Safety
  <2>1. CASE q = p BY <2>1, <1>4, <1>5
  <2>2. CASE q # p BY <2>2, <1>1, <1>2, SafeFrame DEF Safety
  <2> QED BY <2>1, <2>2

LEMMA SafeDirectEnds ==
  ASSUME Typed, Safety, NEW p \in Plan, DirectEnds(p)
  PROVE  Safety'
<1>1. \A q \in Plan \ {p} : Same(q)
  BY DEF DirectEnds, Quit, registry, frozen, store, attempt, meta, bounds, Typed, Constants,
       Rows, Places, Attempts, Requests, Objects, Same, Goto
<1>2. \A q \in Plan : ClaimKept(q)
  BY DEF DirectEnds, Quit, registry, frozen, store, attempt, meta, bounds, ClaimKept, ConsumedBy
<1>3. Safe(p) /\ Finished(p) BY DEF Safety
<1>4. Safe(p)'
  BY <1>3, PublishAssumption DEF DirectEnds, Quit, registry, frozen, store, attempt, meta,
       bounds, Typed, Constants, Rows, Places, Attempts, Requests, Objects, Object, Safe,
       Creation, Blind, Recorded, Clean, Next1, Working, Settling, Goto
<1>5. Finished(p)'
  BY <1>2, <1>3, PublishAssumption DEF DirectEnds, Quit, registry, frozen, store, attempt, meta,
       bounds, Typed, Constants, Rows, Places, Attempts, Requests, Objects, Object, Finished,
       ClaimKept, Goto
<1> QED
  <2> SUFFICES ASSUME NEW q \in Plan PROVE Safe(q)' /\ Finished(q)' BY DEF Safety
  <2>1. CASE q = p BY <2>1, <1>4, <1>5
  <2>2. CASE q # p BY <2>2, <1>1, <1>2, SafeFrame DEF Safety
  <2> QED BY <2>1, <2>2

LEMMA SafeJobDone ==
  ASSUME Typed, Safety, NEW p \in Plan, JobDone(p)
  PROVE  Safety'
<1>1. \A q \in Plan \ {p} : Same(q)
  BY DEF JobDone, Quit, registry, frozen, store, attempt, meta, bounds, Typed, Constants, Rows,
       Places, Attempts, Requests, Objects, Same, Goto
<1>2. \A q \in Plan : ClaimKept(q)
  BY DEF JobDone, Quit, registry, frozen, store, attempt, meta, bounds, ClaimKept, ConsumedBy
<1>3. Safe(p) /\ Finished(p) BY DEF Safety
<1>4. Safe(p)'
  BY <1>3, PublishAssumption DEF JobDone, Quit, registry, frozen, store, attempt, meta, bounds,
       Typed, Constants, Rows, Places, Attempts, Requests, Objects, Object, Safe, Creation,
       Blind, Recorded, Clean, Next1, Working, Settling, Goto
<1>5. Finished(p)'
  BY <1>2, <1>3, PublishAssumption DEF JobDone, Quit, registry, frozen, store, attempt, meta,
       bounds, Typed, Constants, Rows, Places, Attempts, Requests, Objects, Object, Finished,
       ClaimKept, Goto
<1> QED
  <2> SUFFICES ASSUME NEW q \in Plan PROVE Safe(q)' /\ Finished(q)' BY DEF Safety
  <2>1. CASE q = p BY <2>1, <1>4, <1>5
  <2>2. CASE q # p BY <2>2, <1>1, <1>2, SafeFrame DEF Safety
  <2> QED BY <2>1, <2>2

LEMMA SafeJobFails ==
  ASSUME Typed, Safety, NEW p \in Plan, JobFails(p)
  PROVE  Safety'
<1>1. \A q \in Plan \ {p} : Same(q)
  BY DEF JobFails, Quit, registry, frozen, store, attempt, meta, bounds, Typed, Constants, Rows,
       Places, Attempts, Requests, Objects, Same, Goto, FailRow
<1>2. \A q \in Plan : ClaimKept(q)
  BY DEF JobFails, Quit, registry, frozen, store, attempt, meta, bounds, ClaimKept, ConsumedBy
<1>3. Safe(p) /\ Finished(p) BY DEF Safety
<1>4. Safe(p)'
  BY <1>3, PublishAssumption DEF JobFails, Quit, registry, frozen, store, attempt, meta, bounds,
       Typed, Constants, Rows, Places, Attempts, Requests, Objects, Object, Safe, Creation,
       Blind, Recorded, Clean, Next1, Working, Settling, Goto, FailRow
<1>5. Finished(p)'
  BY <1>2, <1>3, PublishAssumption DEF JobFails, Quit, registry, frozen, store, attempt, meta,
       bounds, Typed, Constants, Rows, Places, Attempts, Requests, Objects, Object, Finished,
       ClaimKept, Goto, FailRow
<1> QED
  <2> SUFFICES ASSUME NEW q \in Plan PROVE Safe(q)' /\ Finished(q)' BY DEF Safety
  <2>1. CASE q = p BY <2>1, <1>4, <1>5
  <2>2. CASE q # p BY <2>2, <1>1, <1>2, SafeFrame DEF Safety
  <2> QED BY <2>1, <2>2

LEMMA SafeReap ==
  ASSUME Typed, Safety, NEW p \in Plan, Reap(p)
  PROVE  Safety'
<1>1. \A q \in Plan \ {p} : Same(q)
  BY DEF Reap, registry, frozen, store, attempt, meta, bounds, Typed, Constants, Rows, Places,
       Attempts, Requests, Objects, Same, FailRow
<1>2. \A q \in Plan : ClaimKept(q)
  BY DEF Reap, registry, frozen, store, attempt, meta, bounds, ClaimKept, ConsumedBy
<1>3. Safe(p) /\ Finished(p) BY DEF Safety
<1>4. Safe(p)'
  BY <1>3, PublishAssumption DEF Reap, registry, frozen, store, attempt, meta, bounds, Typed,
       Constants, Rows, Places, Attempts, Requests, Objects, Object, Safe, Creation, Blind,
       Recorded, Clean, Next1, Working, Settling, FailRow
<1>5. Finished(p)'
  BY <1>2, <1>3, PublishAssumption DEF Reap, registry, frozen, store, attempt, meta, bounds,
       Typed, Constants, Rows, Places, Attempts, Requests, Objects, Object, Finished, ClaimKept,
       FailRow
<1> QED
  <2> SUFFICES ASSUME NEW q \in Plan PROVE Safe(q)' /\ Finished(q)' BY DEF Safety
  <2>1. CASE q = p BY <2>1, <1>4, <1>5
  <2>2. CASE q # p BY <2>2, <1>1, <1>2, SafeFrame DEF Safety
  <2> QED BY <2>1, <2>2

LEMMA SafeApproved ==
  ASSUME Typed, Safety, NEW p \in Plan, Approved(p)
  PROVE  Safety'
<1>1. \A q \in Plan \ {p} : Same(q)
  BY DEF Approved, registry, frozen, store, attempt, meta, bounds, Typed, Constants, Rows,
       Places, Attempts, Requests, Objects, Same
<1>2. \A q \in Plan : ClaimKept(q)
  BY DEF Approved, registry, frozen, store, attempt, meta, bounds, ClaimKept, ConsumedBy
<1>3. Safe(p) /\ Finished(p) BY DEF Safety
<1>4. Safe(p)'
  BY <1>3, PublishAssumption DEF Approved, registry, frozen, store, attempt, meta, bounds,
       Typed, Constants, Rows, Places, Attempts, Requests, Objects, Object, Safe, Creation,
       Blind, Recorded, Clean, Next1, Working, Settling
<1>5. Finished(p)'
  BY <1>2, <1>3, PublishAssumption DEF Approved, registry, frozen, store, attempt, meta, bounds,
       Typed, Constants, Rows, Places, Attempts, Requests, Objects, Object, Finished, ClaimKept
<1> QED
  <2> SUFFICES ASSUME NEW q \in Plan PROVE Safe(q)' /\ Finished(q)' BY DEF Safety
  <2>1. CASE q = p BY <2>1, <1>4, <1>5
  <2>2. CASE q # p BY <2>2, <1>1, <1>2, SafeFrame DEF Safety
  <2> QED BY <2>1, <2>2

LEMMA SafeTake ==
  ASSUME Typed, Safety, NEW p \in Plan, Take(p)
  PROVE  Safety'
<1>1. \A q \in Plan \ {p} : Same(q)
  BY DEF Take, registry, frozen, store, meta, bounds, Typed, Constants, Rows, Places, Attempts,
       Requests, Objects, Same, Goto, Row, RowStatus
<1>2. \A q \in Plan : ClaimKept(q)
  BY DEF Take, registry, frozen, store, meta, bounds, ClaimKept, ConsumedBy
<1>3. Safe(p) /\ Finished(p) BY DEF Safety
<1>4. Safe(p)'
  BY <1>3, PublishAssumption DEF Take, registry, frozen, store, meta, bounds, Typed, Constants,
       Rows, Places, Attempts, Requests, Objects, Object, Safe, Creation, Blind, Recorded,
       Clean, Next1, Working, Settling, Goto, Row, RowStatus
<1>5. Finished(p)'
  BY <1>2, <1>3, PublishAssumption DEF Take, registry, frozen, store, meta, bounds, Typed,
       Constants, Rows, Places, Attempts, Requests, Objects, Object, Finished, ClaimKept, Goto,
       Row, RowStatus
<1> QED
  <2> SUFFICES ASSUME NEW q \in Plan PROVE Safe(q)' /\ Finished(q)' BY DEF Safety
  <2>1. CASE q = p BY <2>1, <1>4, <1>5
  <2>2. CASE q # p BY <2>2, <1>1, <1>2, SafeFrame DEF Safety
  <2> QED BY <2>1, <2>2

LEMMA SafeGated ==
  ASSUME Typed, Safety, NEW p \in Plan, Gated(p)
  PROVE  Safety'
<1>1. \A q \in Plan \ {p} : Same(q)
  BY DEF Gated, registry, frozen, attempt, meta, Typed, Constants, Rows, Places, Attempts,
       Requests, Objects, Same, WriteThen, Write, NoWrite, Goto
<1>2. \A q \in Plan : ClaimKept(q)
  BY DEF Gated, registry, frozen, attempt, meta, ClaimKept, ConsumedBy
<1>3. Safe(p) /\ Finished(p) BY DEF Safety
<1>4. Safe(p)'
  BY <1>3, PublishAssumption DEF Gated, registry, frozen, attempt, meta, Typed, Constants, Rows,
       Places, Attempts, Requests, Objects, Object, Safe, Creation, Blind, Recorded, Clean,
       Next1, Working, Settling, WriteThen, Write, NoWrite, Goto
<1>5. Finished(p)'
  BY <1>2, <1>3, PublishAssumption DEF Gated, registry, frozen, attempt, meta, Typed, Constants,
       Rows, Places, Attempts, Requests, Objects, Object, Finished, ClaimKept, WriteThen, Write,
       NoWrite, Goto
<1> QED
  <2> SUFFICES ASSUME NEW q \in Plan PROVE Safe(q)' /\ Finished(q)' BY DEF Safety
  <2>1. CASE q = p BY <2>1, <1>4, <1>5
  <2>2. CASE q # p BY <2>2, <1>1, <1>2, SafeFrame DEF Safety
  <2> QED BY <2>1, <2>2

LEMMA SafeLocate ==
  ASSUME Typed, Safety, NEW p \in Plan, Locate(p)
  PROVE  Safety'
<1>1. \A q \in Plan \ {p} : Same(q)
  BY DEF Locate, Outside, registry, frozen, store, meta, bounds, Typed, Constants, Rows, Places,
       Attempts, Requests, Objects, Same, Goto, Missing, Reconciles
<1>2. \A q \in Plan : ClaimKept(q)
  BY DEF Locate, Outside, registry, frozen, store, meta, bounds, ClaimKept, ConsumedBy
<1>3. Safe(p) /\ Finished(p) BY DEF Safety
<1>4. Safe(p)'
  BY <1>3, PublishAssumption DEF Locate, Outside, registry, frozen, store, meta, bounds, Typed,
       Constants, Rows, Places, Attempts, Requests, Objects, Object, Safe, Creation, Blind,
       Recorded, Clean, Next1, Working, Settling, Goto, Missing, Reconciles
<1>5. Finished(p)'
  BY <1>2, <1>3, PublishAssumption DEF Locate, Outside, registry, frozen, store, meta, bounds,
       Typed, Constants, Rows, Places, Attempts, Requests, Objects, Object, Finished, ClaimKept,
       Goto, Missing, Reconciles
<1> QED
  <2> SUFFICES ASSUME NEW q \in Plan PROVE Safe(q)' /\ Finished(q)' BY DEF Safety
  <2>1. CASE q = p BY <2>1, <1>4, <1>5
  <2>2. CASE q # p BY <2>2, <1>1, <1>2, SafeFrame DEF Safety
  <2> QED BY <2>1, <2>2

LEMMA SafeRecordFailure ==
  ASSUME Typed, Safety, NEW p \in Plan, RecordFailure(p)
  PROVE  Safety'
<1>1. \A q \in Plan \ {p} : Same(q)
  BY DEF RecordFailure, Outside, registry, frozen, attempt, meta, bounds, Typed, Constants,
       Rows, Places, Attempts, Requests, Objects, Same, WriteThen, Write, NoWrite, Goto, Caught
<1>2. \A q \in Plan : ClaimKept(q)
  BY DEF RecordFailure, Outside, registry, frozen, attempt, meta, bounds, ClaimKept, ConsumedBy
<1>3. Safe(p) /\ Finished(p) BY DEF Safety
<1>4. Safe(p)'
  BY <1>3, PublishAssumption DEF RecordFailure, Outside, registry, frozen, attempt, meta,
       bounds, Typed, Constants, Rows, Places, Attempts, Requests, Objects, Object, Safe,
       Creation, Blind, Recorded, Clean, Next1, Working, Settling, WriteThen, Write, NoWrite,
       Goto, Caught
<1>5. Finished(p)'
  BY <1>2, <1>3, PublishAssumption DEF RecordFailure, Outside, registry, frozen, attempt, meta,
       bounds, Typed, Constants, Rows, Places, Attempts, Requests, Objects, Object, Finished,
       ClaimKept, WriteThen, Write, NoWrite, Goto, Caught
<1> QED
  <2> SUFFICES ASSUME NEW q \in Plan PROVE Safe(q)' /\ Finished(q)' BY DEF Safety
  <2>1. CASE q = p BY <2>1, <1>4, <1>5
  <2>2. CASE q # p BY <2>2, <1>1, <1>2, SafeFrame DEF Safety
  <2> QED BY <2>1, <2>2

LEMMA SafeAsk ==
  ASSUME Typed, Safety, NEW p \in Plan, Ask(p)
  PROVE  Safety'
<1>1. \A q \in Plan \ {p} : Same(q)
  BY DEF Ask, registry, frozen, store, attempt, meta, Typed, Constants, Rows, Places, Attempts,
       Requests, Objects, Same
<1>2. \A q \in Plan : ClaimKept(q)
  BY DEF Ask, registry, frozen, store, attempt, meta, ClaimKept, ConsumedBy
<1>3. Safe(p) /\ Finished(p) BY DEF Safety
<1>4. Safe(p)'
  BY <1>3, PublishAssumption DEF Ask, registry, frozen, store, attempt, meta, Typed, Constants,
       Rows, Places, Attempts, Requests, Objects, Object, Safe, Creation, Blind, Recorded,
       Clean, Next1, Working, Settling
<1>5. Finished(p)'
  BY <1>2, <1>3, PublishAssumption DEF Ask, registry, frozen, store, attempt, meta, Typed,
       Constants, Rows, Places, Attempts, Requests, Objects, Object, Finished, ClaimKept
<1> QED
  <2> SUFFICES ASSUME NEW q \in Plan PROVE Safe(q)' /\ Finished(q)' BY DEF Safety
  <2>1. CASE q = p BY <2>1, <1>4, <1>5
  <2>2. CASE q # p BY <2>2, <1>1, <1>2, SafeFrame DEF Safety
  <2> QED BY <2>1, <2>2

LEMMA SafeResume ==
  ASSUME Typed, Safety, NEW p \in Plan, Resume(p)
  PROVE  Safety'
<1>1. \A q \in Plan \ {p} : Same(q)
  BY DEF Resume, Answered, registry, frozen, store, attempt, meta, bounds, Typed, Constants,
       Rows, Places, Attempts, Requests, Objects, Same, NoRow
<1>2. \A q \in Plan : ClaimKept(q)
  BY DEF Resume, Answered, registry, frozen, store, attempt, meta, bounds, ClaimKept, ConsumedBy
<1>3. Safe(p) /\ Finished(p) BY DEF Safety
<1>4. Safe(p)'
  BY <1>3, PublishAssumption DEF Resume, Answered, registry, frozen, store, attempt, meta,
       bounds, Typed, Constants, Rows, Places, Attempts, Requests, Objects, Object, Safe,
       Creation, Blind, Recorded, Clean, Next1, Working, Settling, NoRow
<1>5. Finished(p)'
  BY <1>2, <1>3, PublishAssumption DEF Resume, Answered, registry, frozen, store, attempt, meta,
       bounds, Typed, Constants, Rows, Places, Attempts, Requests, Objects, Object, Finished,
       ClaimKept, NoRow
<1> QED
  <2> SUFFICES ASSUME NEW q \in Plan PROVE Safe(q)' /\ Finished(q)' BY DEF Safety
  <2>1. CASE q = p BY <2>1, <1>4, <1>5
  <2>2. CASE q # p BY <2>2, <1>1, <1>2, SafeFrame DEF Safety
  <2> QED BY <2>1, <2>2

LEMMA SafeDirect ==
  ASSUME Typed, Safety, NEW p \in Plan, Direct(p)
  PROVE  Safety'
<1>1. \A q \in Plan \ {p} : Same(q)
  BY DEF Direct, Answered, registry, frozen, store, attempt, meta, bounds, Typed, Constants,
       Rows, Places, Attempts, Requests, Objects, Same, Goto, NoRow
<1>2. \A q \in Plan : ClaimKept(q)
  BY DEF Direct, Answered, registry, frozen, store, attempt, meta, bounds, ClaimKept, ConsumedBy
<1>3. Safe(p) /\ Finished(p) BY DEF Safety
<1>4. Safe(p)'
  BY <1>3, PublishAssumption DEF Direct, Answered, registry, frozen, store, attempt, meta,
       bounds, Typed, Constants, Rows, Places, Attempts, Requests, Objects, Object, Safe,
       Creation, Blind, Recorded, Clean, Next1, Working, Settling, Goto, NoRow
<1>5. Finished(p)'
  BY <1>2, <1>3, PublishAssumption DEF Direct, Answered, registry, frozen, store, attempt, meta,
       bounds, Typed, Constants, Rows, Places, Attempts, Requests, Objects, Object, Finished,
       ClaimKept, Goto, NoRow
<1> QED
  <2> SUFFICES ASSUME NEW q \in Plan PROVE Safe(q)' /\ Finished(q)' BY DEF Safety
  <2>1. CASE q = p BY <2>1, <1>4, <1>5
  <2>2. CASE q # p BY <2>2, <1>1, <1>2, SafeFrame DEF Safety
  <2> QED BY <2>1, <2>2

LEMMA SafeDirectCatch ==
  ASSUME Typed, Safety, NEW p \in Plan, DirectCatch(p)
  PROVE  Safety'
<1>1. \A q \in Plan \ {p} : Same(q)
  BY DEF DirectCatch, Outside, registry, frozen, attempt, meta, bounds, Typed, Constants, Rows,
       Places, Attempts, Requests, Objects, Same, WriteThen, Write, NoWrite, Goto
<1>2. \A q \in Plan : ClaimKept(q)
  BY DEF DirectCatch, Outside, registry, frozen, attempt, meta, bounds, ClaimKept, ConsumedBy
<1>3. Safe(p) /\ Finished(p) BY DEF Safety
<1>4. Safe(p)'
  BY <1>3, PublishAssumption DEF DirectCatch, Outside, registry, frozen, attempt, meta, bounds,
       Typed, Constants, Rows, Places, Attempts, Requests, Objects, Object, Safe, Creation,
       Blind, Recorded, Clean, Next1, Working, Settling, WriteThen, Write, NoWrite, Goto
<1>5. Finished(p)'
  BY <1>2, <1>3, PublishAssumption DEF DirectCatch, Outside, registry, frozen, attempt, meta,
       bounds, Typed, Constants, Rows, Places, Attempts, Requests, Objects, Object, Finished,
       ClaimKept, WriteThen, Write, NoWrite, Goto
<1> QED
  <2> SUFFICES ASSUME NEW q \in Plan PROVE Safe(q)' /\ Finished(q)' BY DEF Safety
  <2>1. CASE q = p BY <2>1, <1>4, <1>5
  <2>2. CASE q # p BY <2>2, <1>1, <1>2, SafeFrame DEF Safety
  <2> QED BY <2>1, <2>2

LEMMA SafeReserve ==
  ASSUME Typed, Safety, NEW p \in Plan, Reserve(p)
  PROVE  Safety'
<1>1. \A q \in Plan \ {p} : Same(q)
  BY DEF Reserve, registry, frozen, meta, bounds, Typed, Constants, Rows, Places, Attempts,
       Requests, Objects, Same, Goto, Unreserved, Prepared
<1>2. \A q \in Plan \ {p} : ClaimKept(q)
  <2>1. CASE UNCHANGED registry BY <2>1 DEF registry, ClaimKept, ConsumedBy
  <2>2. CASE \E k : ReserveClaim(p, k) \/ ReleaseClaim(p, k) \/ ConsumeClaim(p)
    BY <2>2, ClaimFrame DEF Claimant
  <2> QED BY <2>1, <2>2 DEF Reserve
<1>3. Safe(p) /\ Finished(p) BY DEF Safety
<1>4. Safe(p)'
  BY <1>3, PublishAssumption DEF Reserve, registry, frozen, meta, bounds, Typed, Constants,
       Rows, Places, Attempts, Requests, Objects, Object, Safe, Creation, Blind, Recorded,
       Clean, Next1, Working, Settling, Goto, Unreserved, Prepared
<1>5. Finished(p)'
  <2>1. ClaimKept(p)
    <3>1. CASE UNCHANGED registry BY <3>1 DEF registry, ClaimKept, ConsumedBy
    <3>2. CASE \E k : ReserveClaim(p, k) \/ ReleaseClaim(p, k) BY <3>2, ClaimOwn
    <3> QED BY <3>1, <3>2 DEF Reserve
  <2> QED BY <2>1, <1>3, PublishAssumption DEF Reserve, frozen, meta, Typed, Constants, Rows,
       Places, Attempts, Requests, Objects, Object, Finished, ClaimKept, Goto, Unreserved,
       Prepared
<1> QED
  <2> SUFFICES ASSUME NEW q \in Plan PROVE Safe(q)' /\ Finished(q)' BY DEF Safety
  <2>1. CASE q = p BY <2>1, <1>4, <1>5
  <2>2. CASE q # p BY <2>2, <1>1, <1>2, SafeFrame DEF Safety
  <2> QED BY <2>1, <2>2

LEMMA SafeRelease ==
  ASSUME Typed, Safety, NEW p \in Plan, Release(p)
  PROVE  Safety'
<1>1. \A q \in Plan \ {p} : Same(q)
  BY DEF Release, registry, frozen, meta, bounds, Typed, Constants, Rows, Places, Attempts,
       Requests, Objects, Same, Goto
<1>2. \A q \in Plan \ {p} : ClaimKept(q)
  <2>1. CASE UNCHANGED registry BY <2>1 DEF registry, ClaimKept, ConsumedBy
  <2>2. CASE \E k : ReserveClaim(p, k) \/ ReleaseClaim(p, k) \/ ConsumeClaim(p)
    BY <2>2, ClaimFrame DEF Claimant
  <2> QED BY <2>1, <2>2 DEF Release
<1>3. Safe(p) /\ Finished(p) BY DEF Safety
<1>4. Safe(p)'
  BY <1>3, PublishAssumption DEF Release, registry, frozen, meta, bounds, Typed, Constants,
       Rows, Places, Attempts, Requests, Objects, Object, Safe, Creation, Blind, Recorded,
       Clean, Next1, Working, Settling, Goto
<1>5. Finished(p)'
  <2>1. ClaimKept(p)
    <3>1. CASE UNCHANGED registry BY <3>1 DEF registry, ClaimKept, ConsumedBy
    <3>2. CASE \E k : ReserveClaim(p, k) \/ ReleaseClaim(p, k) BY <3>2, ClaimOwn
    <3> QED BY <3>1, <3>2 DEF Release
  <2> QED BY <2>1, <1>3, PublishAssumption DEF Release, frozen, meta, Typed, Constants, Rows,
       Places, Attempts, Requests, Objects, Object, Finished, ClaimKept, Goto
<1> QED
  <2> SUFFICES ASSUME NEW q \in Plan PROVE Safe(q)' /\ Finished(q)' BY DEF Safety
  <2>1. CASE q = p BY <2>1, <1>4, <1>5
  <2>2. CASE q # p BY <2>2, <1>1, <1>2, SafeFrame DEF Safety
  <2> QED BY <2>1, <2>2

LEMMA SafeActivate ==
  ASSUME Typed, Safety, NEW p \in Plan, Activate(p)
  PROVE  Safety'
<1>1. \A q \in Plan \ {p} : Same(q)
  BY DEF Activate, Outside, registry, frozen, store, attempt, bounds, Typed, Constants, Rows,
       Places, Attempts, Requests, Objects, Same, Goto, AfterActivation
<1>2. \A q \in Plan : ClaimKept(q)
  BY DEF Activate, Outside, registry, frozen, store, attempt, bounds, ClaimKept, ConsumedBy
<1>3. Safe(p) /\ Finished(p) BY DEF Safety
<1>4. Safe(p)'
  BY <1>3, PublishAssumption DEF Activate, Outside, registry, frozen, store, attempt, bounds,
       Typed, Constants, Rows, Places, Attempts, Requests, Objects, Object, Safe, Creation,
       Blind, Recorded, Clean, Next1, Working, Settling, Goto, AfterActivation
<1>5. Finished(p)'
  BY <1>2, <1>3, PublishAssumption DEF Activate, Outside, registry, frozen, store, attempt,
       bounds, Typed, Constants, Rows, Places, Attempts, Requests, Objects, Object, Finished,
       ClaimKept, Goto, AfterActivation
<1> QED
  <2> SUFFICES ASSUME NEW q \in Plan PROVE Safe(q)' /\ Finished(q)' BY DEF Safety
  <2>1. CASE q = p BY <2>1, <1>4, <1>5
  <2>2. CASE q # p BY <2>2, <1>1, <1>2, SafeFrame DEF Safety
  <2> QED BY <2>1, <2>2

LEMMA SafeConsume ==
  ASSUME Typed, Safety, NEW p \in Plan, Consume(p)
  PROVE  Safety'
<1>1. \A q \in Plan \ {p} : Same(q)
  BY DEF Consume, registry, frozen, store, attempt, meta, bounds, Typed, Constants, Rows,
       Places, Attempts, Requests, Objects, Same, Goto
<1>2. \A q \in Plan \ {p} : ClaimKept(q)
  <2>1. CASE UNCHANGED registry BY <2>1 DEF registry, ClaimKept, ConsumedBy
  <2>2. CASE \E k : ReserveClaim(p, k) \/ ReleaseClaim(p, k) \/ ConsumeClaim(p)
    BY <2>2, ClaimFrame DEF Claimant
  <2> QED BY <2>1, <2>2 DEF Consume
<1>3. Safe(p) /\ Finished(p) BY DEF Safety
<1>4. Safe(p)'
  BY <1>3, PublishAssumption DEF Consume, registry, frozen, store, attempt, meta, bounds, Typed,
       Constants, Rows, Places, Attempts, Requests, Objects, Object, Safe, Creation, Blind,
       Recorded, Clean, Next1, Working, Settling, Goto
<1>5. Finished(p)'
  <2>1. consumed'[p] = "yes" => ConsumedBy(p)'
    BY <1>3 DEF Consume, ConsumeClaim, Consumed, ConsumedBy, ReservedBy, registry, Typed,
         Registries, Claimant, Finished
  <2>2. ConsumedBy(p) => ConsumedBy(p)'
    BY DEF Consume, ConsumeClaim, ConsumedBy, ReservedBy, registry
  <2>3. pc'[p] \in {"complete", "finish"} => ConsumedBy(p)'
    BY <1>3 DEF Consume, ConsumeClaim, Consumed, ConsumedBy, ReservedBy, registry, Typed,
         Places, Finished, Goto
  <2> QED BY <2>1, <2>2, <2>3, <1>3 DEF Consume, frozen, store, attempt, meta, Typed, Constants,
       Rows, Places, Attempts, Requests, Objects, Object, Finished, Goto
<1> QED
  <2> SUFFICES ASSUME NEW q \in Plan PROVE Safe(q)' /\ Finished(q)' BY DEF Safety
  <2>1. CASE q = p BY <2>1, <1>4, <1>5
  <2>2. CASE q # p BY <2>2, <1>1, <1>2, SafeFrame DEF Safety
  <2> QED BY <2>1, <2>2

LEMMA SafeReopen ==
  ASSUME Typed, Safety, NEW p \in Plan, Reopen(p)
  PROVE  Safety'
<1>1. \A q \in Plan \ {p} : Same(q)
  BY DEF Reopen, Answered, registry, frozen, attempt, meta, bounds, Typed, Constants, Rows,
       Places, Attempts, Requests, Objects, Same, WriteThen, Write, NoWrite, Goto, NoRow
<1>2. \A q \in Plan : ClaimKept(q)
  BY DEF Reopen, Answered, registry, frozen, attempt, meta, bounds, ClaimKept, ConsumedBy
<1>3. Safe(p) /\ Finished(p) BY DEF Safety
<1>4. Safe(p)'
  <2>1. asked'[p].shown \in {0, asked[p].shown}
    <3> DEFINE e == [asked[p] EXCEPT !.status = "publishing"]
    <3>1. asked'[p] = NoRow \/ asked'[p] = e BY DEF Reopen, Answered, Typed, Requests
    <3>2. asked[p] \in Row BY DEF Reopen, Typed, Requests, NoRow
    <3>3. e.shown = asked[p].shown BY <3>2 DEF Row
    <3>4. NoRow.shown = 0 BY DEF NoRow
    <3> HIDE DEF e
    <3> QED BY <3>1, <3>3, <3>4
  <2>2. row'[p] = row[p] \/ row'[p] = [status |-> "publishing", shown |-> asked[p].shown, may |-> asked[p].may]
    BY DEF Reopen, Write, NoWrite, Typed, Rows
  <2>3. UNCHANGED <<approval, pc, seen, have, may, made>> BY DEF Reopen, frozen, attempt, meta
  <2>4. Recorded(0, made[p]) BY DEF Recorded, Object
  <2> QED BY <1>3, <2>1, <2>2, <2>3, <2>4 DEF Safe, Creation, Blind, Clean, Next1, Recorded
<1>5. Finished(p)'
  BY <1>2, <1>3, PublishAssumption DEF Reopen, Answered, registry, frozen, attempt, meta,
       bounds, Typed, Constants, Rows, Places, Attempts, Requests, Objects, Object, Finished,
       ClaimKept, WriteThen, Write, NoWrite, Goto, NoRow
<1> QED
  <2> SUFFICES ASSUME NEW q \in Plan PROVE Safe(q)' /\ Finished(q)' BY DEF Safety
  <2>1. CASE q = p BY <2>1, <1>4, <1>5
  <2>2. CASE q # p BY <2>2, <1>1, <1>2, SafeFrame DEF Safety
  <2> QED BY <2>1, <2>2

LEMMA SafePost ==
  ASSUME Typed, Safety, NEW p \in Plan, Post(p)
  PROVE  Safety'
<1>1. \A q \in Plan \ {p} : Same(q)
  BY DEF Post, Outside, registry, frozen, store, bounds, Typed, Constants, Rows, Places,
       Attempts, Requests, Objects, Same, Goto, Creates, Evidence
<1>2. \A q \in Plan : ClaimKept(q)
  BY DEF Post, Outside, registry, frozen, store, bounds, ClaimKept, ConsumedBy
<1>3. Safe(p) /\ Finished(p) BY DEF Safety
<1>4. Safe(p)'
  <2> DEFINE i == have[p] + 1
  <2>1. have[p] \in 0 .. Count /\ have[p] < Count /\ i \in Object
    BY PublishAssumption DEF Post, Typed, Attempts, Places, Object
  <2>2. made[p] \in [Object -> Nat] BY DEF Typed, Objects
  <2>3. made'[p] = made[p] \/ made'[p] = [made[p] EXCEPT ![i] = made[p][i] + 1]
    BY DEF Post, Creates, Next1, Typed, Objects
  <2>4. \A o \in Object : made'[p][o] = made[p][o] \/ (o = i /\ made'[p][o] = made[p][o] + 1)
    BY <2>1, <2>2, <2>3
  <2>5. UNCHANGED <<approval, row, seen, asked>> BY DEF Post, Outside, frozen, store
  <2>6. pc[p] = "post" BY DEF Post
  <2>7. ASSUME NEW n \in 0 .. Count, Recorded(n, made[p]) PROVE Recorded(n, made'[p])
    <3> SUFFICES ASSUME NEW o \in Object, o <= n PROVE made'[p][o] > 0 BY DEF Recorded
    <3>1. made[p][o] > 0 BY <2>7 DEF Recorded
    <3> QED BY <2>2, <2>4, <3>1
  <2>8. \/ /\ pc'[p] = "checkpoint" /\ have'[p] = i /\ may'[p] = TRUE
           /\ made'[p] = [made[p] EXCEPT ![i] = made[p][i] + 1]
        \/ pc'[p] = "failed" /\ have'[p] = have[p] /\ (may'[p] = TRUE \/ (made'[p] = made[p] /\ may'[p] = may[p]))
    BY DEF Post, Creates, Next1, Evidence, Goto, Typed, Places, Attempts, Objects
  <2>9. Recorded(have'[p], made'[p])
    <3>1. Recorded(have[p], made'[p]) BY <2>1, <2>7, <1>3 DEF Safe
    <3>2. CASE have'[p] = have[p] BY <3>1, <3>2
    <3>3. CASE have'[p] = i /\ made'[p] = [made[p] EXCEPT ![i] = made[p][i] + 1]
      <4>1. made'[p][i] > 0 BY <2>1, <2>2, <3>3
      <4>2. \A o \in Object : o <= i => o <= have[p] \/ o = i BY <2>1 DEF Object
      <4> QED BY <3>1, <3>3, <4>1, <4>2 DEF Recorded
    <3> QED BY <3>2, <3>3, <2>8
  <2>10. row[p].shown \in 0 .. Count /\ seen[p].shown \in 0 .. Count /\ asked[p].shown \in 0 .. Count
    <3>1. asked[p] \in Row \cup {NoRow} BY DEF Typed, Requests
    <3>2. asked[p].shown \in 0 .. Count BY <3>1, PublishAssumption DEF Row, NoRow
    <3> QED BY <3>2, TypedValues DEF Typed
  <2>11. \A o \in Object : o > i /\ made[p][o] = 0 => made'[p][o] = 0 BY <2>1, <2>4
  <2>12. approval[p] => Creation(p)'
    <3> SUFFICES ASSUME approval[p] PROVE Creation(p)' OBVIOUS
    <3>1. Creation(p) /\ made[p][i] = 0 BY <1>3, <2>6 DEF Safe, Creation, Next1
    <3>2. \A o \in Object : made'[p][o] <= 1 BY <3>1, <2>2, <2>4 DEF Creation
    <3>3. seen'[p].status = "approved" => Blind(p)'
      BY <2>1, <2>4, <2>5, <2>6, <2>8, <2>11, <3>1 DEF Creation, Blind, Clean, Working, Object
    <3>4. seen[p].status \in {"approved", "publishing"} BY <3>1, <2>6 DEF Creation, Working
    <3> QED BY <3>2, <3>3, <3>4, <2>5, <2>8 DEF Creation
  <2> QED BY <2>5, <2>6, <2>7, <2>8, <2>9, <2>10, <2>12, <1>3 DEF Safe, Working
<1>5. Finished(p)'
  BY <1>2, <1>3, PublishAssumption DEF Post, Outside, registry, frozen, store, bounds, Typed,
       Constants, Rows, Places, Attempts, Requests, Objects, Object, Finished, ClaimKept, Goto,
       Creates, Evidence
<1> QED
  <2> SUFFICES ASSUME NEW q \in Plan PROVE Safe(q)' /\ Finished(q)' BY DEF Safety
  <2>1. CASE q = p BY <2>1, <1>4, <1>5
  <2>2. CASE q # p BY <2>2, <1>1, <1>2, SafeFrame DEF Safety
  <2> QED BY <2>1, <2>2

LEMMA SafeRivalMoves ==
  ASSUME ClaimAssumption, Typed, Safety, NEW r \in Rival, RivalMoves(r)
  PROVE  Safety'
<1> SUFFICES ASSUME NEW q \in Plan PROVE Safe(q)' /\ Finished(q)' BY DEF Safety
<1>1. Same(q) BY DEF RivalMoves, frozen, store, attempt, meta, Same
<1>2. q \in Plan \ {r} /\ r \in Claimant BY ClaimAssumption DEF Claimant
<1>3. ClaimKept(q) BY <1>2, ClaimFrame DEF RivalMoves
<1> QED BY <1>1, <1>3, SafeFrame DEF Safety

LEMMA SafeNext == ClaimAssumption /\ Typed /\ Safety /\ [Next]_vars => Safety'
<1> SUFFICES ASSUME ClaimAssumption, Typed, Safety, [Next]_vars PROVE Safety' OBVIOUS
<1>1. CASE UNCHANGED vars
  <2> SUFFICES ASSUME NEW q \in Plan PROVE Safe(q)' /\ Finished(q)' BY DEF Safety
  <2>1. Same(q) /\ ClaimKept(q) BY <1>1 DEF vars, Same, ClaimKept, ConsumedBy
  <2> QED BY <2>1, SafeFrame DEF Safety
<1>2. ASSUME NEW p \in Plan, Executes(p) PROVE Safety'
  BY <1>2, SafeReserve, SafeProceed, SafeRefused, SafeBegin, SafeLocate, SafeReadFails, SafePost,
     SafeCheckpoint, SafeAllThere, SafeVerified, SafeRecordFailure, SafeRecordObjects,
     SafeQuarantine, SafeRelease, SafeRetry, SafeActivate, SafeConsume, SafeComplete, SafeFinish,
     SafeDirectRecord, SafeDirectCatch, SafeDirectEnds
  DEF Executes
<1>3. ASSUME NEW p \in Plan, Approved(p) \/ Take(p) \/ Settles(p) \/ Reap(p) PROVE Safety'
  BY <1>3, SafeApproved, SafeTake, SafeJobDone, SafeJobFails, SafeReap DEF Settles
<1>4. ASSUME NEW p \in Plan, Disturbs(p) \/ Route(p) PROVE Safety'
  BY <1>4, SafeCrash, SafeAbort, SafeGated, SafeAsk, SafeReopen, SafeResume, SafeDirect
  DEF Disturbs, Route
<1>5. ASSUME NEW r \in Rival, RivalMoves(r) PROVE Safety' BY <1>5, SafeRivalMoves
<1> QED BY <1>1, <1>2, <1>3, <1>4, <1>5 DEF Next

-----------------------------------------------------------------------------
(* The safety properties *)

(* Typed and Safety are inductive together. *)
LEMMA SafeAlways == Spec => [](Typed /\ Safety)
<1>1. Init => Typed /\ Safety BY TypedInit, SafeInit, PublishAssumption
<1>2. (Typed /\ Safety) /\ [Next]_vars => (Typed /\ Safety)'
  BY TypedNext, SafeNext, ClaimAssumption
<1> QED BY <1>1, <1>2, PTL DEF Spec

(* However an approved plan is retried, interrupted, reported wrong or resumed,
   none of its objects is created twice. *)
THEOREM ApprovedPlansCreateOnce == Spec => []QueuedObjectsOnce
<1>1. Safety => QueuedObjectsOnce BY DEF Safety, Safe, Creation, QueuedObjectsOnce
<1> QED BY <1>1, SafeAlways, PTL

(* An approved row belongs to a plan of which Meta holds nothing. *)
THEOREM ApprovedRowsAreClean == Spec => []ApprovedIsClean
<1>1. Safety => ApprovedIsClean BY DEF Safety, Safe, ApprovedIsClean
<1> QED BY <1>1, SafeAlways, PTL

(* A plan reported as paused_live has all its objects, and a free one is live
   and has spent the claim of its Meta account. *)
THEOREM SuccessAlwaysComplete == Spec => []SuccessIsComplete
<1>1. Safety => SuccessIsComplete
  BY PublishAssumption DEF Safety, Safe, Finished, Recorded, SuccessIsComplete, Object
<1> QED BY <1>1, SafeAlways, PTL

(* The once-only claim is spent by nobody but a plan whose campaign is live. *)
THEOREM ClaimSpentOnLive == Spec => []SpentOnLiveCampaign
<1>1. Safety => SpentOnLiveCampaign BY DEF Safety, Finished, SpentOnLiveCampaign
<1> QED BY <1>1, SafeAlways, PTL

-----------------------------------------------------------------------------
(* Answers.  The job of an approval is alive as long as its row says         *)
(* approved: whoever writes approved again owns the job, and whoever settles *)
(* the job has written something else before, or does so with it.  Unless a  *)
(* person resumed the plan meanwhile, what is written before a job is done   *)
(* is an answer.                                                             *)

Answer == {"failed", "paused_live"}

\* The stages in which the executor may find its row approved
Unwritten == {"idle", "loaded", "refused", "begin", "withdraw", "retry", "threw"}
Opened(p) ==
  row[p].status = "approved" =>
    pc[p] \in Unwritten /\ (pc[p] = "loaded" => seen[p].status = "approved")

Manned(p) == pc[p] # "idle" => job[p].phase = "owned"
Alive(p) == row[p].status = "approved" => job[p].phase \in {"absent", "waiting", "owned"}

\* Nobody but its executor writes the row of a plan that nobody has asked about
Loaded(p) ==
  /\ asked[p] = NoRow
  /\ pc[p] = "loaded" => row[p].status = seen[p].status
  /\ pc[p] \in {"activate", "consume"} /\ (seen[p].status = "paused_live" \/ ~free[p])
       => row[p].status = "paused_live"
Told(p) ==
  /\ pc[p] = "finish" => row[p].status = "paused_live"
  /\ pc[p] \in {"returned", "forgo"} => row[p].status \in Answer
  /\ job[p].phase = "done" => row[p].status \in Answer

Answering(p) ==
  approval[p] => Opened(p) /\ Manned(p) /\ Alive(p) /\ (asks = 0 => Loaded(p) /\ Told(p))

\* What an executor does concerns its row and its stage
LEMMA ByExecutor ==
  ASSUME NEW p \in Plan, approval[p], Answering(p), pc[p] # "idle",
         UNCHANGED <<frozen, job, asked, asks>>,
         Opened(p)', asks = 0 => (Loaded(p) /\ Told(p))'
  PROVE  Answering(p)'
BY DEF Answering, Manned, Alive, frozen

LEMMA AnswerFrame ==
  ASSUME NEW q \in Plan, Answering(q), Same(q), job'[q] = job[q], asks' = 0 => asks = 0
  PROVE  Answering(q)'
BY DEF Answering, Opened, Manned, Alive, Loaded, Told, Same

LEMMA InitAnswering == Init => \A p \in Plan : Answering(p)
BY DEF Init, NoJob, NoRow, Answering, Opened, Unwritten, Manned, Alive, Loaded, Told

\* A write of the row, or none, and the stage that follows
LEMMA WriteAnswers ==
  ASSUME Typed, NEW p \in Plan, NEW st, NEW n, NEW m, NEW s, NEW f,
         approval[p], Answering(p), pc[p] # "idle",
         UNCHANGED <<frozen, job, asked, asks, seen>>,
         WriteThen(p, st, n, m, s, f),
         st # "approved" \/ {s, f} \subseteq Unwritten \ {"loaded"},
         row[p].status = "approved" => f \in Unwritten \ {"loaded"},
         f \in {"failed", "withdraw", "quarantine", "threw"}, s \notin {"loaded", "forgo"},
         s = "activate" => free[p] /\ seen[p].status # "paused_live",
         s # "consume",
         s = "finish" => st = "paused_live", s = "returned" => st \in Answer
  PROVE  Answering(p)'
<1>1. \/ row'[p].status = st /\ pc'[p] \in {s, f}
      \/ row'[p] = row[p] /\ pc'[p] = f
  BY DEF Typed, Rows, Places, WriteThen, Write, NoWrite, Goto
<1>2. Opened(p)'
  BY <1>1 DEF Opened, Unwritten
<1>3. job[p].phase = "owned"
  BY DEF Answering, Manned
<1>4. asks = 0 => (Loaded(p) /\ Told(p))'
  BY <1>1, <1>3 DEF Answering, Loaded, Told, frozen
<1> QED BY <1>2, <1>4, ByExecutor

\* A stage that follows without a write
LEMMA StageAnswers ==
  ASSUME Typed, NEW p \in Plan, approval[p], Answering(p), pc[p] # "idle",
         UNCHANGED <<frozen, job, asked, asks, seen, row>>, NEW s, Goto(p, s),
         row[p].status = "approved" => s \in Unwritten \ {"loaded"},
         s # "loaded",
         asks = 0 =>
           /\ s \in {"activate", "consume"} /\ (seen[p].status = "paused_live" \/ ~free[p])
                => row[p].status = "paused_live"
           /\ s = "finish" => row[p].status = "paused_live"
           /\ s \in {"returned", "forgo"} => row[p].status \in Answer
  PROVE  Answering(p)'
<1>1. pc'[p] = s /\ row'[p] = row[p] /\ seen'[p] = seen[p]
  BY DEF Typed, Places, Goto
<1>2. Opened(p)'
  BY <1>1 DEF Opened, Unwritten
<1>3. job[p].phase = "owned"
  BY DEF Answering, Manned
<1>4. asks = 0 => (Loaded(p) /\ Told(p))'
  BY <1>1, <1>3 DEF Answering, Loaded, Told, frozen
<1> QED BY <1>2, <1>4, ByExecutor

-----------------------------------------------------------------------------
(* The executor's steps *)

LEMMA ExecutorWrites ==
  ASSUME Typed, Safety, NEW p \in Plan, approval[p], Answering(p),
         \/ Begin(p) \/ Refused(p) \/ Checkpoint(p) \/ RecordObjects(p) \/ Quarantine(p)
         \/ Retry(p) \/ Complete(p) \/ Gated(p)
  PROVE  Answering(p)'
<1>1. seen[p].status \in {"approved", "publishing"} \/ pc[p] \notin Settling \cup Working
  BY DEF Safety, Safe, Creation
<1>2. row[p].status = "approved" => pc[p] \in Unwritten
  BY DEF Answering, Opened
<1>3. CASE Begin(p)
  BY <1>3, WriteAnswers DEF Begin, Outside, attempt, bounds, Unwritten, Answer
<1>4. CASE Refused(p)
  BY <1>4, WriteAnswers DEF Refused, Outside, attempt, bounds, Unwritten, Answer
<1>5. CASE Checkpoint(p)
  BY <1>2, <1>5, WriteAnswers DEF Checkpoint, Loop, Outside, attempt, bounds, Unwritten, Answer
<1>6. CASE RecordObjects(p)
  BY <1>1, <1>2, <1>6, WriteAnswers
     DEF RecordObjects, CreatedStatus, Finalize, Caught, Outside, attempt, bounds, Unwritten,
         Answer, Settling
<1>7. CASE Quarantine(p)
  BY <1>2, <1>7, WriteAnswers DEF Quarantine, Outside, attempt, bounds, Unwritten, Answer
<1>8. CASE Retry(p)
  BY <1>8, WriteAnswers DEF Retry, RetryStatus, Outside, attempt, bounds, Unwritten, Answer
<1>9. CASE Complete(p)
  BY <1>2, <1>9, WriteAnswers DEF Complete, Outside, attempt, bounds, Unwritten, Answer
<1>10. CASE Gated(p)
  BY <1>10, WriteAnswers DEF Gated, attempt, Unwritten, Answer
<1> QED BY <1>3, <1>4, <1>5, <1>6, <1>7, <1>8, <1>9, <1>10

LEMMA ExecutorMoves ==
  ASSUME Typed, Safety, NEW p \in Plan, approval[p], Answering(p),
         \/ Proceed(p) \/ Locate(p) \/ ReadFails(p) \/ Post(p) \/ AllThere(p) \/ Verified(p)
         \/ Finish(p) \/ Abort(p) \/ Release(p) \/ Reserve(p) \/ Activate(p) \/ Consume(p)
  PROVE  Answering(p)'
<1>2. row[p].status = "approved" =>
        pc[p] \in Unwritten /\ (pc[p] = "loaded" => seen[p].status = "approved")
  BY DEF Answering, Opened
<1>3. asks = 0 =>
        /\ pc[p] = "loaded" => row[p].status = seen[p].status
        /\ pc[p] \in {"activate", "consume"} /\ (seen[p].status = "paused_live" \/ ~free[p])
             => row[p].status = "paused_live"
        /\ pc[p] = "finish" => row[p].status = "paused_live"
        /\ pc[p] \in {"returned", "forgo"} => row[p].status \in Answer
  BY DEF Answering, Loaded, Told
<1>4. CASE Proceed(p)
  BY <1>2, <1>3, <1>4, StageAnswers
     DEF Proceed, Prepared, Outside, store, attempt, bounds, Unwritten, Answer
<1>5. CASE Locate(p)
  BY <1>2, <1>5, StageAnswers DEF Locate, Outside, store, bounds, Unwritten, Answer
<1>6. CASE ReadFails(p)
  BY <1>2, <1>6, StageAnswers DEF ReadFails, Outside, store, attempt, bounds, Unwritten, Answer
<1>7. CASE Post(p)
  BY <1>2, <1>7, StageAnswers DEF Post, Outside, store, bounds, Unwritten, Answer
<1>8. CASE AllThere(p)
  BY <1>2, <1>8, StageAnswers DEF AllThere, Outside, store, attempt, bounds, Unwritten, Answer
<1>9. CASE Verified(p)
  BY <1>2, <1>9, StageAnswers DEF Verified, Outside, store, attempt, bounds, Unwritten, Answer
<1>10. CASE Finish(p)
  BY <1>2, <1>3, <1>10, StageAnswers
     DEF Finish, Outside, store, attempt, bounds, Unwritten, Answer
<1>11. CASE Abort(p)
  BY <1>2, <1>11, StageAnswers DEF Abort, Outside, store, attempt, bounds, Unwritten, Answer
<1>12. CASE Release(p)
  BY <1>2, <1>3, <1>12, StageAnswers DEF Release, bounds, Unwritten, Answer
<1>13. CASE Reserve(p)
  BY <1>2, <1>3, <1>13, StageAnswers
     DEF Reserve, Prepared, Unreserved, bounds, Unwritten, Answer
<1>14. CASE Activate(p)
  BY <1>2, <1>3, <1>14, StageAnswers
     DEF Activate, AfterActivation, Outside, store, attempt, bounds, Unwritten, Answer
<1>15. CASE Consume(p)
  BY <1>2, <1>3, <1>15, StageAnswers DEF Consume, store, attempt, bounds, Unwritten, Answer
<1> QED
  BY <1>4, <1>5, <1>6, <1>7, <1>8, <1>9, <1>10, <1>11, <1>12, <1>13, <1>14, <1>15

\* Of a failure, what is final is written as such
LEMMA RecordFailureAnswers ==
  ASSUME Typed, NEW p \in Plan, approval[p], Answering(p), RecordFailure(p)
  PROVE  Answering(p)'
<1>1. /\ pc[p] = "failed" /\ row[p].status # "approved" /\ job[p].phase = "owned"
      /\ asks = 0 => Loaded(p)
  BY DEF RecordFailure, Answering, Opened, Unwritten, Manned
<1>2. \/ row'[p].status = "failed" /\ pc'[p] \in {"quarantine", "withdraw", "forgo"}
      \/ row'[p] = row[p] /\ pc'[p] \in {"quarantine", "withdraw"}
  BY DEF RecordFailure, Caught, Write, NoWrite, Goto, Typed, Rows, Places
<1>3. UNCHANGED <<frozen, job, asked, asks, seen>>
  BY DEF RecordFailure, Outside, attempt, bounds
<1>4. Opened(p)'
  BY <1>1, <1>2 DEF Opened
<1>5. asks = 0 => (Loaded(p) /\ Told(p))'
  BY <1>1, <1>2, <1>3 DEF Loaded, Told, Answer, frozen
<1> QED BY <1>1, <1>3, <1>4, <1>5, ByExecutor

-----------------------------------------------------------------------------
(* The queue's steps *)

LEMMA QueueAnswers ==
  ASSUME Typed, NEW p \in Plan, approval[p], Answering(p),
         Approved(p) \/ Take(p) \/ JobDone(p) \/ JobFails(p) \/ Crash(p) \/ Reap(p)
  PROVE  Answering(p)'
<1>1. CASE Approved(p)
  BY <1>1 DEF Approved, Enqueue, ActiveJob, frozen, store, bounds, Typed, Jobs, Answering,
              Opened, Manned, Alive, Loaded, Told, attempt, JobRow, Answer
<1>2. CASE Take(p)
  <2>1. job[p].phase = "waiting" /\ job'[p].phase = "owned"
    BY <1>2 DEF Take, JobMoves, Contract!Take
  <2>2. /\ pc'[p] = IF row[p].status = "failed" THEN "threw" ELSE "loaded"
        /\ seen'[p] = row[p] /\ row' = row
        /\ UNCHANGED <<approval, free, asked, asks>>
    BY <1>2 DEF Take, Goto, Typed, Places, Attempts, store, frozen, bounds
  <2> QED
    BY <2>1, <2>2 DEF Answering, Opened, Unwritten, Manned, Alive, Loaded, Told
<1>3. CASE JobDone(p)
  <2>1. job'[p].phase = "done" /\ pc[p] = "returned" /\ pc'[p] = "idle"
    BY <1>3 DEF JobDone, JobMoves, Contract!Finish, Quit, Goto, Typed, Places, Jobs, JobRow
  <2>2. UNCHANGED <<row, approval, free, asked, asks>>
    BY <1>3 DEF JobDone, store, frozen, bounds
  <2> QED
    BY <2>1, <2>2 DEF Answering, Opened, Unwritten, Manned, Alive, Loaded, Told
<1>4. CASE JobFails(p) \/ Reap(p)
  <2>1. UNCHANGED <<approval, free, asked, asks>>
    BY <1>4 DEF JobFails, Reap, frozen, bounds
  <2>2. pc'[p] = "idle"
    BY <1>4 DEF JobFails, Reap, Quit, Goto, Typed, Places
  <2>3. \/ row'[p] = row[p] /\ job'[p].phase = "waiting"
        \/ job'[p].phase = "dead" /\ row'[p].status # "approved"
    BY <1>4 DEF JobFails, Reap, JobMoves, Contract!GiveBack, Contract!Bury, FailRow, store,
                Typed, Jobs, JobRow, Rows, Row
  <2> QED
    BY <2>1, <2>2, <2>3 DEF Answering, Opened, Unwritten, Manned, Alive, Loaded, Told
<1>5. CASE Crash(p)
  <2>1. pc'[p] = "idle" /\ UNCHANGED <<row, job, approval, free, asked, asks>>
    BY <1>5 DEF Crash, Quit, Goto, Typed, Places, store, frozen, bounds
  <2> QED
    BY <2>1 DEF Answering, Opened, Unwritten, Manned, Alive, Loaded, Told
<1> QED BY <1>1, <1>2, <1>3, <1>4, <1>5

-----------------------------------------------------------------------------
(* The route's steps, which are a person's doing *)

LEMMA RouteAnswers ==
  ASSUME Typed, NEW p \in Plan, approval[p], Answering(p),
         Ask(p) \/ Reopen(p) \/ Resume(p)
  PROVE  Answering(p)'
<1>1. asks' # 0
  <2>1. CASE Ask(p)
    BY <2>1 DEF Ask, Typed, Bounded
  <2>2. CASE asked[p] # NoRow /\ UNCHANGED asks
    BY <2>2 DEF Answering, Loaded
  <2>3. Reopen(p) => asked[p] # NoRow /\ UNCHANGED asks
    BY DEF Reopen, NoRow, bounds
  <2>4. Resume(p) => asked[p] # NoRow /\ UNCHANGED asks
    BY DEF Resume, bounds
  <2> QED BY <2>1, <2>2, <2>3, <2>4
<1>2. /\ UNCHANGED <<approval, pc, seen>>
      /\ row'[p] = row[p] \/ row'[p].status = "publishing"
  BY DEF Ask, Reopen, Resume, Write, NoWrite, frozen, store, attempt, Typed, Rows
<1>3. \/ job'[p] = job[p]
      \/ job[p].phase \notin {"waiting", "owned"} /\ job'[p].phase = "waiting"
  BY DEF Ask, Reopen, Resume, Enqueue, ActiveJob, Typed, Jobs
<1> QED
  BY <1>1, <1>2, <1>3 DEF Answering, Opened, Manned, Alive

-----------------------------------------------------------------------------
(* Every step, and what each plan keeps of another's *)

Apart(q) == Same(q) /\ job'[q] = job[q]

LEMMA ExecutorApart ==
  ASSUME Typed, NEW p \in Plan, Executes(p) \/ Abort(p) \/ Gated(p), NEW q \in Plan \ {p}
  PROVE  Apart(q) /\ UNCHANGED asks
<1>1. CASE Begin(p) \/ Refused(p) \/ Checkpoint(p) \/ RecordObjects(p) \/ Quarantine(p)
           \/ Retry(p) \/ Complete(p) \/ Gated(p) \/ DirectRecord(p) \/ DirectCatch(p)
           \/ RecordFailure(p)
  <2>1. /\ UNCHANGED <<frozen, seen, have, may, job, asked, made, campaign, asks>>
        /\ row'[q] = row[q] /\ pc'[q] = pc[q]
    BY <1>1 DEF Begin, Refused, Checkpoint, RecordObjects, Quarantine, Retry, Complete, Gated,
                DirectRecord, DirectCatch, RecordFailure, WriteThen, Write, NoWrite, Outside,
                attempt, meta, bounds, Typed, Rows, Places, Goto
  <2> QED BY <2>1 DEF Apart, Same, frozen
<1>2. CASE Proceed(p) \/ Locate(p) \/ ReadFails(p) \/ Post(p) \/ AllThere(p) \/ Verified(p)
           \/ Finish(p) \/ Abort(p) \/ Release(p) \/ Reserve(p) \/ Activate(p) \/ Consume(p)
           \/ DirectEnds(p)
  <2>1. /\ UNCHANGED <<frozen, seen, job, asked, asks, row>>
        /\ have'[q] = have[q] /\ may'[q] = may[q] /\ made'[q] = made[q]
        /\ campaign'[q] = campaign[q] /\ pc'[q] = pc[q]
    BY <1>2 DEF Proceed, Locate, ReadFails, Post, AllThere, Verified, Finish, Abort, Release,
                Reserve, Activate, Consume, DirectEnds, Quit, Goto, Creates, Prepared, Unreserved,
                Outside, store, attempt, meta, bounds, Typed, Places, Attempts, Objects
  <2> QED BY <2>1 DEF Apart, Same, frozen
<1> QED BY <1>1, <1>2 DEF Executes

LEMMA OthersApart ==
  ASSUME Typed, NEW p \in Plan, NEW q \in Plan \ {p},
         \/ Approved(p) \/ Take(p) \/ Settles(p) \/ Reap(p) \/ Crash(p) \/ Ask(p) \/ Route(p)
  PROVE  Apart(q) /\ (asks' = 0 => asks = 0)
<1>1. CASE Approved(p) \/ Take(p) \/ Settles(p) \/ Reap(p) \/ Crash(p)
  <2>1. job'[q] = job[q]
    BY <1>1 DEF Approved, Take, Settles, JobDone, JobFails, Reap, Crash, JobMoves, Enqueue, Typed,
                Jobs
  <2>2. /\ UNCHANGED <<frozen, asked, made, campaign, asks>>
        /\ row'[q] = row[q] /\ pc'[q] = pc[q] /\ seen'[q] = seen[q] /\ have'[q] = have[q]
        /\ may'[q] = may[q]
    BY <1>1 DEF Approved, Take, Settles, JobDone, JobFails, Reap, Crash, FailRow, Quit, Goto,
                store, attempt, meta, bounds, Typed, Rows, Places, Attempts
  <2> QED BY <2>1, <2>2 DEF Apart, Same, frozen
<1>2. CASE Ask(p) \/ Route(p)
  <2>1. job'[q] = job[q]
    BY <1>2 DEF Ask, Route, Reopen, Resume, Direct, Enqueue, Typed, Jobs
  <2>2. /\ UNCHANGED <<frozen, made, campaign>>
        /\ row'[q] = row[q] /\ pc'[q] = pc[q] /\ seen'[q] = seen[q] /\ have'[q] = have[q]
        /\ may'[q] = may[q] /\ asked'[q] = asked[q]
    BY <1>2 DEF Ask, Route, Reopen, Resume, Direct, Answered, Write, NoWrite, Goto, store, attempt,
                meta, Typed, Rows, Places, Attempts, Requests
  <2>3. asks' = asks \/ asks' = asks + 1
    BY <1>2 DEF Ask, Route, Reopen, Resume, Direct, bounds
  <2> QED BY <2>1, <2>2, <2>3 DEF Apart, Same, frozen, Typed, Bounded
<1> QED BY <1>1, <1>2

LEMMA AnswerNext ==
  ASSUME Typed, Safety, \A p \in Plan : Answering(p), [Next]_vars
  PROVE  \A p \in Plan : Answering(p)'
<1>1. ASSUME NEW p \in Plan,
             \/ Approved(p) \/ Take(p) \/ Executes(p) \/ Settles(p) \/ Reap(p) \/ Disturbs(p)
             \/ Route(p)
      PROVE  \A q \in Plan : Answering(q)'
  <2>1. ASSUME NEW q \in Plan \ {p} PROVE Answering(q)'
    <3>1. Apart(q) /\ (asks' = 0 => asks = 0)
      BY <1>1, ExecutorApart, OthersApart DEF Disturbs
    <3> QED BY <3>1, AnswerFrame DEF Apart
  <2>2. CASE approval[p]
    <3>1. ~Direct(p) /\ ~DirectRecord(p) /\ ~DirectCatch(p) /\ ~DirectEnds(p)
      BY <2>2 DEF Direct, DirectRecord, DirectCatch, DirectEnds
    <3>2. Answering(p)'
      BY <1>1, <2>2, <3>1, ExecutorWrites, ExecutorMoves, RecordFailureAnswers, QueueAnswers,
         RouteAnswers
         DEF Executes, Settles, Disturbs, Route
    <3> QED BY <2>1, <3>2
  <2>3. CASE ~approval[p]
    <3>1. approval' = approval
      BY <1>1 DEF Approved, Take, Executes, Settles, Reap, Disturbs, Route, Reserve, Proceed,
         Refused, Begin, Locate, ReadFails, Post, Checkpoint, AllThere, Verified, RecordFailure,
         RecordObjects, Quarantine, Release, Retry, Activate, Consume, Complete, Finish,
         DirectRecord, DirectCatch, DirectEnds, JobDone, JobFails, Crash, Abort, Gated, Ask, Reopen,
         Resume, Direct, Outside, frozen
    <3>2. Answering(p)'
      BY <2>3, <3>1 DEF Answering
    <3> QED BY <2>1, <3>2
  <2> QED BY <2>2, <2>3
<1>2. CASE UNCHANGED vars
  BY <1>2, AnswerFrame DEF vars, Same
<1>3. ASSUME NEW r \in Rival, RivalMoves(r) PROVE \A q \in Plan : Answering(q)'
  BY <1>3, AnswerFrame DEF RivalMoves, frozen, store, attempt, meta, bounds, Same
<1> QED BY <1>1, <1>2, <1>3 DEF Next

\* An approval is never left without a job to execute it: its row does not say
\* approved once its job has settled (executeMetaPublishPlanById, complete_job_v2,
\* fail_job_v2 and reap_stale_jobs).  Unless a request was made meanwhile, a job
\* that is done has left an answer.
ApprovalIsKept ==
  \A p \in Plan : approval[p] =>
    /\ row[p].status = "approved" => job[p].phase \notin {"done", "dead"}
    /\ asks = 0 /\ job[p].phase = "done" => row[p].status \in {"failed", "paused_live"}

THEOREM ApprovalAlwaysKept == Spec => []ApprovalIsKept
<1> DEFINE Inv == Typed /\ Safety /\ \A p \in Plan : Answering(p)
<1>1. Init => Inv
  BY TypedInit, SafeInit, InitAnswering, PublishAssumption
<1>2. Inv /\ [Next]_vars => Inv'
  BY TypedNext, SafeNext, AnswerNext, ClaimAssumption
<1>3. Inv => ApprovalIsKept
  BY DEF Answering, Alive, Told, Answer, ApprovalIsKept
<1> QED BY <1>1, <1>2, <1>3, PTL DEF Spec

================================================================================
