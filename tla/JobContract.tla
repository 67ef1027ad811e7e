------------------------------ MODULE JobContract ------------------------------
(***************************************************************************)
(* What the durable queue promises about one job, with no time, no lease   *)
(* and no token: a job waits, is taken by one owner at a time, and is      *)
(* finished, withdrawn before it is taken, or buried after as many takes   *)
(* as its budget allows - never earlier, and never taken up again.         *)
(***************************************************************************)
EXTENDS Naturals

CONSTANTS Job, Budgets

VARIABLE state

Phases == {"absent", "waiting", "owned", "done", "dead"}

Init == state = [j \in Job |-> [phase |-> "absent", takes |-> 0, budget |-> 0]]

(* The steps of one job, from the record s to the record t. *)

Submit(s, t) ==
  /\ s.phase = "absent"
  /\ \E b \in Budgets : t = [phase |-> "waiting", takes |-> 0, budget |-> b]

Withdraw(s, t) == s.phase = "waiting" /\ t = [s EXCEPT !.phase = "done"]

Take(s, t) ==
  /\ s.phase = "waiting"
  /\ s.takes < s.budget
  /\ t = [phase |-> "owned", takes |-> s.takes + 1, budget |-> s.budget]

Finish(s, t) == s.phase = "owned" /\ t = [s EXCEPT !.phase = "done"]

GiveBack(s, t) ==
  /\ s.phase = "owned"
  /\ s.takes < s.budget
  /\ t = [s EXCEPT !.phase = "waiting"]

Bury(s, t) ==
  /\ s.phase = "owned"
  /\ s.takes = s.budget
  /\ t = [s EXCEPT !.phase = "dead"]

Step(s, t) ==
  Submit(s, t) \/ Withdraw(s, t) \/ Take(s, t) \/ Finish(s, t) \/ GiveBack(s, t) \/ Bury(s, t)

(* Several jobs may move in one transaction: the reaper settles many rows. *)
Next ==
  /\ DOMAIN state' = Job
  /\ \A j \in Job : state'[j] = state[j] \/ Step(state[j], state'[j])

Spec == Init /\ [][Next]_state
================================================================================
