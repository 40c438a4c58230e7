------------------------- MODULE MCLifecycleFencing -------------------------
(* One kind, two competing worker loops: leases, fencing, retries.         *)
EXTENDS LifecycleJobs, TLC

CONSTANTS j1, j2, w1, w2

MCJobs == {j1, j2}
MCWorkers == {w1, w2}
MCRepositoryOf == (j1 :> "r1") @@ (j2 :> "r2")
MCKindOf == [j \in MCJobs |-> "reclaim"]
MCWorkerKind == [w \in MCWorkers |-> "reclaim"]
Symmetry == Permutations(MCWorkers)
=============================================================================
