------------------------------ MODULE LeasedWork ------------------------------
(***************************************************************************)
(* What every durable queue of the gateway promises about its rows: work   *)
(* is handed out under leases, and only the holder of the current lease,   *)
(* or the passing of time, takes an item out of its hands.  The lifecycle  *)
(* jobs, the e-mail and webhook deliveries and the replication plans each  *)
(* implement this specification with tables, tokens and statements of      *)
(* their own.                                                              *)
(*                                                                         *)
(* A step may move several items, as one transaction does.                 *)
(***************************************************************************)
EXTENDS Naturals

CONSTANTS
    Items,      \* the work items
    Timely      \* do those who take over expired leases judge time alike?

VARIABLES
    phase,      \* where each item is
    lease,      \* number of the lease an item is held under
    live,       \* is that lease unexpired?
    hands       \* the leases workers believe they hold: <<item, number>>

Phases == {"absent", "open", "held", "done", "parked"}

Init ==
    /\ phase = [i \in Items |-> "absent"]
    /\ lease = [i \in Items |-> 0]
    /\ live = [i \in Items |-> FALSE]
    /\ hands = {}

\* The holder of i's current lease ends its work on it in this step.
Reports(i) == <<i, lease[i]>> \in hands \ hands'

\* Nobody has to be asked before i is taken away from its holder.
Forfeited(i) == ~live[i] \/ ~Timely

Same(i) == phase'[i] = phase[i] /\ lease'[i] = lease[i] /\ live'[i] = live[i]

Leaves(i, p) == phase'[i] = p /\ lease'[i] = 0 /\ ~live'[i]

\* A lease no worker has in its hands goes to one that gets it.
Take(i) ==
    /\ phase[i] = "open" \/ (phase[i] = "held" /\ Forfeited(i))
    /\ phase'[i] = "held"
    /\ live'[i]
    /\ <<i, lease'[i]>> \in hands' \ hands

\* A lease expires, or its holder renews it.
Age(i) ==
    /\ phase[i] = "held"
    /\ phase'[i] = "held"
    /\ lease'[i] = lease[i]
    /\ live'[i] => <<i, lease[i]>> \in hands

\* Work that is done is done by the holder of an unexpired lease.
Finish(i) == phase[i] = "held" /\ live[i] /\ Reports(i) /\ Leaves(i, "done")

\* Work is given back or given up by its holder, or taken from it.
Release(i) ==
    /\ phase[i] = "held"
    /\ Reports(i) \/ Forfeited(i)
    /\ Leaves(i, "open") \/ Leaves(i, "parked")

\* Submission, cancellation, an operator's retry: never of work in hand,
\* never of work done.
Arrange(i) ==
    /\ phase[i] \in {"absent", "open", "parked"}
    /\ Leaves(i, "open") \/ Leaves(i, "parked")

Move(i) == Same(i) \/ Take(i) \/ Age(i) \/ Finish(i) \/ Release(i) \/ Arrange(i)

Next ==
    /\ \A i \in Items : Move(i)
    /\ hands' \subseteq hands \union {<<i, lease'[i]>> : i \in Items}

vars == <<phase, lease, live, hands>>
Spec == Init /\ [][Next]_vars
=============================================================================
