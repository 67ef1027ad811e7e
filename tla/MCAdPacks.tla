------------------------------- MODULE MCAdPacks -------------------------------
(* A request and its retry, a request of its own, a trial of one pack, a paid
   period of two and one correction, which takes a pack away or adds less than
   one. *)
EXTENDS AdPacks, TLC

CONSTANTS r1, r2, r3, s1, s2, trial, paid, c1

MCRequest == {r1, r2, r3}
MCScope == {s1, s2}
MCScopeOf == (r1 :> s1) @@ (r2 :> s1) @@ (r3 :> s2)
MCPeriod == {trial, paid}
MCPaidPeriod == {paid}
MCCredits == (trial :> 2) @@ (paid :> 4)
MCStart == (trial :> 0) @@ (paid :> 1)
MCCorrection == {c1}
MCDelta == {-2, 1}
MCMutationKey ==
  {ReserveKey(s) : s \in MCScope} \cup {SettleKey(s) : s \in MCScope}
  \cup {TrialKey, InvoiceKey(paid), OperatorKey(c1)}

Symmetry == Permutations({r1, r2})
=============================================================================
