------------------------------- MODULE MCJobWorker -------------------------------
EXTENDS JobWorker, TLC

CONSTANTS j1, j2, w1, w2

MCJobs == {j1, j2}
MCOneJob == {j1}
MCWorkers == {w1, w2}
MCOneWorker == {w1}
MCKind == {"deliver.lead"}
MCNoKeys == {}
MCBudgets == {2}
MCStartDelays == {0}
MCLeases == {2}

MCSymmetry == Permutations(MCJobs) \cup Permutations(MCWorkers)
MCSymmetryWorkers == Permutations(MCWorkers)
=============================================================================
