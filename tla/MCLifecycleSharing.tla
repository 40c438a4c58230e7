------------------------- MODULE MCLifecycleSharing -------------------------
(* One repository whose two jobs are of different kinds, each claimed by a *)
(* worker loop of its own.                                                 *)
EXTENDS LifecycleJobs, TLC

CONSTANTS j1, j2, w1, w2

MCJobs == {j1, j2}
MCWorkers == {w1, w2}
MCRepositoryOf == [j \in MCJobs |-> "r1"]
MCKindOf == (j1 :> "reclaim") @@ (j2 :> "promotion")
MCWorkerKind == (w1 :> "reclaim") @@ (w2 :> "promotion")
=============================================================================
