--------------------------- MODULE MCIndexWorkers ---------------------------
(* Model values, sets of operations and symmetry for checking IndexWorkers with TLC. *)
EXTENDS IndexWorkers, TLC

CONSTANTS p1, p2, p3, t1, t2, r1, r2

TwoPaths == {p1, p2}
ThreePaths == {p1, p2, p3}
TwoThreads == {t1, t2}
OneResumer == {r1}
TwoResumers == {r1, r2}

OpsRestart == {"restart"}
OpsAll == AllOps \ {"restart"}

Sym == Permutations(Paths) \cup Permutations(Threads) \cup Permutations(Resumers)
=============================================================================
