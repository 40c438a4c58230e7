------------------------------ MODULE MCServices ------------------------------
(***************************************************************************)
(* The gateway's services on small instances: the lifecycle queue, the     *)
(* e-mail queue, replication plans, webhooks and advisory locks.  They     *)
(* share no row, so a behaviour runs the one it chooses at the start and   *)
(* leaves the others in their initial state: the state spaces add up       *)
(* instead of multiplying.                                                 *)
(***************************************************************************)
EXTENDS LifecycleJobs, EmailDeliveries, ReplicationPlans, WebhookDeliveries, AdvisoryLocks

VARIABLE part

services == <<part, vars, mailVars, planVars, hookVars, lockVars>>

-----------------------------------------------------------------------------
(* Instances                                                               *)

\* One job, which a second worker loop of its kind may take over.
TheRepository == [j \in {"j1"} |-> "r1"]
TheKind == [j \in {"j1"} |-> "reclaim"]
SameKind == [w \in {"w1", "w2"} |-> "reclaim"]

MailBound(cap, workers, tests, evaluations, replays, targets, rules) ==
    [cap |-> cap, workers |-> workers, tests |-> tests, events |-> evaluations,
     replays |-> replays, targets |-> targets, rules |-> rules]
SomeMailBudgets ==
    {MailBound(2, 2, 1, 0, 1, 1, 0), MailBound(1, 1, 1, 1, 0, 0, 0),
     MailBound(2, 2, 0, 2, 0, 0, 0), MailBound(2, 1, 0, 2, 0, 0, 1),
     MailBound(2, 2, 0, 1, 0, 1, 1)}

SomeHookBudgets ==
    {[workers |-> 2, requests |-> 1, replays |-> 1, changes |-> 0],
     [workers |-> 1, requests |-> 2, replays |-> 0, changes |-> 1]}

\* Two operations share the one lock connection of node 1, and one of them may
\* make a call without its session's context; the third one locks the same keys
\* from node 2.  A nested call may lock a key again.
SomeNodes == [o \in {"o1", "o2", "o3", "scan"} |-> IF o = "o3" THEN "n2" ELSE "n1"]
SomeWithin == [o \in {"o1", "o2", "o3", "scan"} |-> IF o = "scan" THEN "o1" ELSE "none"]
SomeNestings ==
    [o \in {"o1", "o2", "o3", "scan"} |->
        CASE o = "o1" -> {<<{1}, {2}>>}
          [] o = "o2" -> {<<{1}, {2}>>, <<{2}, {1, 2}>>}
          [] o = "o3" -> {<<{2}, {1, 2}>>}
          [] o = "scan" -> {<<{3}>>}]

-----------------------------------------------------------------------------

ServicesInit ==
    /\ part \in {"jobs", "mail", "plans", "hooks", "locks"}
    /\ Init
    /\ MailInit
    /\ part # "mail" => mailBudget = CHOOSE b \in MailBudgets : TRUE
    /\ PlanInit
    /\ part # "plans" => \A p \in Plans : plan[p].format = CHOOSE f \in PlanFormats : TRUE
    /\ HookInit
    /\ part # "hooks" => /\ hook = [s \in Hooks |-> {}]
                         /\ hookBudget = CHOOSE b \in HookBudgets : TRUE
    /\ LockInit

OthersRest(mine) ==
    /\ UNCHANGED part
    /\ mine # "jobs" => UNCHANGED vars
    /\ mine # "mail" => UNCHANGED mailVars
    /\ mine # "plans" => UNCHANGED planVars
    /\ mine # "hooks" => UNCHANGED hookVars
    /\ mine # "locks" => UNCHANGED lockVars

ServicesNext ==
    \/ part = "jobs" /\ Next /\ OthersRest("jobs")
    \/ part = "mail" /\ MailNext /\ OthersRest("mail")
    \/ part = "plans" /\ PlanNext /\ OthersRest("plans")
    \/ part = "hooks" /\ HookNext /\ OthersRest("hooks")
    \/ part = "locks" /\ LockNext /\ OthersRest("locks")

ServicesSpec == ServicesInit /\ [][ServicesNext]_services

\* Every table row, claim, request and session of the services has its type.
ServicesTypeOK == TypeOK /\ MailTypeOK /\ PlanTypeOK /\ HookTypeOK /\ LockTypeOK
=============================================================================
