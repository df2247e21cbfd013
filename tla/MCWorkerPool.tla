---------------------------- MODULE MCWorkerPool ----------------------------
(* Small instances of WorkerPool for TLC. *)
EXTENDS WorkerPool, TLC

CONSTANTS j1, j2, j3, j4

TwoJobs   == {j1, j2}
ThreeJobs == {j1, j2, j3}
FourJobs  == {j1, j2, j3, j4}

Symmetry == Permutations(Jobs)
=============================================================================
