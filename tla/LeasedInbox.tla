------------------------------ MODULE LeasedInbox ------------------------------
(***************************************************************************)
(* The receipt of a provider's webhook event: one row per event, claimed   *)
(* by an attempt under a lease and settled by it.  Stripe's events         *)
(* (20260727026000) and the booking providers' (20260727024000) have such  *)
(* a table each, with the same rules: a new or failed event can be         *)
(* claimed, a processing one only after its lease, a settled one never;    *)
(* only the attempt named in the row can settle it.                        *)
(*                                                                         *)
(* An attempt is a fresh identifier in the code.  Here it is one of a few  *)
(* handlers, and a row names the handler only while it can still settle    *)
(* the row: the identifier of one that ended or died is compared with      *)
(* nothing again.                                                          *)
(*                                                                         *)
(* A definition whose comment begins with "Slip" is not part of the model. *)
(***************************************************************************)
CONSTANTS
  Event,     \* the provider's event identifiers
  Attempt,   \* handlers that can be at work at the same time
  NoAttempt,
  Final      \* statuses of an event that has been dealt with

ASSUME InboxAssumption == NoAttempt \notin Attempt

VARIABLES
  receipt,   \* processing_status, "new" while there is no row
  owner,     \* processing_attempt_id, while that attempt is at work
  leased     \* events whose lease has not expired

inbox == <<receipt, owner, leased>>

InboxTypeOK ==
  /\ receipt \in [Event -> {"new", "processing", "failed"} \cup Final]
  /\ owner \in [Event -> Attempt \cup {NoAttempt}]
  /\ leased \in SUBSET Event

InboxInit ==
  /\ receipt = [e \in Event |-> "new"]
  /\ owner = [e \in Event |-> NoAttempt]
  /\ leased = {}

Settled(e) == receipt[e] \in Final

\* Slip: a row left processing is never claimed again
ClaimableOnce(e) == receipt[e] \in {"new", "failed"}

Claimable(e) ==
  \/ receipt[e] \in {"new", "failed"}
  \/ receipt[e] = "processing" /\ e \notin leased

ClaimReceipt(e, a) ==
  /\ Claimable(e)
  /\ receipt' = [receipt EXCEPT ![e] = "processing"]
  /\ owner' = [owner EXCEPT ![e] = a]
  /\ leased' = leased \cup {e}

Holds(e, a) == receipt[e] = "processing" /\ owner[e] = a

\* An attempt that no longer holds the row changes nothing
FinishReceipt(e, a, s) ==
  IF Holds(e, a)
  THEN /\ receipt' = [receipt EXCEPT ![e] = s]
       /\ owner' = [owner EXCEPT ![e] = NoAttempt]
       /\ leased' = leased \ {e}
  ELSE UNCHANGED inbox

\* The attempt dies; its row stays as it is
Abandon(e, a) ==
  /\ owner' = IF owner[e] = a THEN [owner EXCEPT ![e] = NoAttempt] ELSE owner
  /\ UNCHANGED <<receipt, leased>>

\* The five minutes pass
LeaseExpires(e) ==
  /\ e \in leased
  /\ leased' = leased \ {e}
  /\ UNCHANGED <<receipt, owner>>
================================================================================
