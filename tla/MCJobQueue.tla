------------------------------- MODULE MCJobQueue -------------------------------
(* Two rows that compete for one key, one kind each with a plan and with the
   permanent receipt. *)
EXTENDS JobQueue, TLC

CONSTANTS j1, j2, k1

MCJob == {j1, j2}
MCKey == {k1}
MCKind == {"publish.meta.execute", "mautic_sync"}
MCBudgets == {1, 2}
MCStartDelays == {0, 1}
MCLeases == {1, 2}

Symmetry == Permutations(MCJob)
=============================================================================
