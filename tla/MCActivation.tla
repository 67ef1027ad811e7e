----------------------------- MODULE MCActivation -----------------------------
(* Instances of Activation for TLC: c1 and c2 have the rows k1 and k2. *)
EXTENDS Activation, TLC

CONSTANTS c1, c2, k1, k2, child

MCOwn == c1 :> k1 @@ c2 :> k2

\* The two calls may change places, with their rows
MCAlike ==
  { p \in Permutations({c1, c2, k1, k2}) :
      {p[c1], p[c2]} = {c1, c2} /\ \A c \in {c1, c2} : p[MCOwn[c]] = MCOwn[p[c]] }
===============================================================================
