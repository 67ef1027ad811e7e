------------------------------ MODULE MCLeadFlow ------------------------------
(* Instances of LeadFlow for TLC: two leads and two handlers. *)
EXTENDS LeadFlow, TLC

CONSTANTS h1, h2
MCLead == 1 .. 2
================================================================================
