---------------------------- MODULE FreeLiveClaims ----------------------------
(***************************************************************************)
(* The free-live claim of one Meta Business Portfolio and ad account: the  *)
(* registry's three RPCs (20260727023000), each of which answers a         *)
(* mutation key it has seen before with the answer it gave then.           *)
(*                                                                         *)
(* A plan's reservation key is its own, and its consume key never changes; *)
(* its reserve and release keys carry the updated_at its executor loaded.  *)
(* A key is therefore a record of the two answers stored under one such    *)
(* time.  Another plan of the same account, free or in trial, is a rival:  *)
(* it reaches the claim through the same RPCs.                             *)
(***************************************************************************)
EXTENDS Naturals

CONSTANTS
  Plan,    \* publish plans of this workspace
  Rival    \* publish plans of other workspaces on the same Meta account

ASSUME ClaimAssumption == Plan \cap Rival = {}

VARIABLES
  claim,      \* meta_free_live_claims
  consumed    \* the answer stored under each plan's consume key

registry == <<claim, consumed>>

Claimant == Plan \cup Rival
Claim == [status : {"available"}] \cup [status : {"reserved", "consumed"}, by : Claimant]

Stored == {"none", "yes", "no"}
Key == [reserve : Stored, release : BOOLEAN]
NewKey == [reserve |-> "none", release |-> FALSE]

Available == claim.status = "available"
ReservedBy(c) == claim = [status |-> "reserved", by |-> c]
ConsumedBy(c) == claim = [status |-> "consumed", by |-> c]

RegistryInit ==
  /\ claim = [status |-> "available"]
  /\ consumed = [c \in Claimant |-> "none"]

\* What the registry grants a plan whose key is new
Grants(c) == Available \/ ReservedBy(c) \/ ConsumedBy(c)

\* The answer to a reservation under key k
Reserved(c, k) ==
  IF k.reserve # "none" THEN k.reserve
  ELSE IF Grants(c) THEN "yes" ELSE "no"

ReserveClaim(c, k) ==
  /\ claim' = IF k.reserve = "none" /\ Available
              THEN [status |-> "reserved", by |-> c] ELSE claim
  /\ UNCHANGED consumed

ReleaseClaim(c, k) ==
  /\ claim' = IF ~k.release /\ ReservedBy(c) THEN [status |-> "available"] ELSE claim
  /\ UNCHANGED consumed

\* The answer of a consumption: the stored one, or whether the plan holds it
Consumed(c) ==
  IF consumed[c] # "none" THEN consumed[c]
  ELSE IF ReservedBy(c) \/ ConsumedBy(c) THEN "yes" ELSE "no"

ConsumeClaim(c) ==
  /\ claim' = IF consumed[c] = "none" /\ ReservedBy(c)
              THEN [status |-> "consumed", by |-> c] ELSE claim
  /\ consumed' = [consumed EXCEPT ![c] = Consumed(c)]
================================================================================
