--------------------------- MODULE AdvisoryLocks ---------------------------
(***************************************************************************)
(* The advisory-lock sessions publications, reclaims and lease fences run  *)
(* under: internal/repository/postgres_advisory_lock.go.  An operation (a  *)
(* request handler, a worker's job) takes its keys in ascending order on a *)
(* connection of the node's small lock pool.  A nested call whose context  *)
(* carries the session extends it on the same connection.  A session       *)
(* counts the calls it serves and gives its connection back with the last  *)
(* release; a failed acquisition or unlock discards the physical           *)
(* connection, and with it every lock it held.                             *)
(*                                                                         *)
(* A handler that has dropped the context of its session makes its nested  *)
(* calls as if it had none, with the request's own context: the Raw, npm,  *)
(* PyPI, Cargo, Go and OCI handlers schedule the scan of what they have    *)
(* published that way, holding its object lock.  Such a call is an         *)
(* operation of its own WITHIN the one that makes it and waits for it.     *)
(*                                                                         *)
(* PostgreSQL is external: session locks are counted per connection, and a *)
(* cycle of waiting sessions is broken by failing one of its members.      *)
(***************************************************************************)
EXTENDS Integers, Sequences, FiniteSetsExt

CONSTANTS
    LockNodes,    \* the gateway processes
    LockOps,      \* the logical operations that may run
    NodeOf,       \* the process each operation runs in
    Within,       \* the operation that waits for it, if it is a call without context
    NestingsOf,   \* what an operation may lock: sequences of sets of keys
    LockPoolSize, \* MaxOpenConns of the artifact-lock pool of a process
    LockFaults    \* bound: cancelled or failed statements in a behaviour

Nestings == UNION {NestingsOf[o] : o \in LockOps}
LockKeys == UNION {UNION {n[i] : i \in DOMAIN n} : n \in Nestings}

NoOp == "none"

\* One session has at most one lock call in hand, and an empty set of keys
\* returns before a session is looked up.  Keys are 64-bit integers; the calls
\* of the gateway nest to some depth only.
ASSUME LockAssumption ==
    /\ LockKeys \subseteq Int /\ IsFiniteSet(LockKeys)
    /\ Nestings \subseteq Seq((SUBSET Int) \ {{}})
    /\ Nestings # {} /\ IsFiniteSet({Len(n) : n \in Nestings}) /\ IsFiniteSet(LockOps)
    /\ NodeOf \in [LockOps -> LockNodes] /\ NoOp \notin LockOps
    /\ LockPoolSize \in Nat \ {0} /\ LockFaults \in Nat

\* A call runs in the process of its caller, and no call is within itself.
ASSUME WithinAssumption ==
    /\ Within \in [LockOps -> LockOps \cup {NoOp}]
    /\ \A o \in LockOps : Within[o] # NoOp => NodeOf[Within[o]] = NodeOf[o]
    /\ \A S \in SUBSET LockOps : S # {} => \E o \in S : \A p \in S : Within[p] # o

Conns == LockNodes \X (1 .. LockPoolSize)
NoConn == <<"none", 0>>

VARIABLES
    operation, \* operation -> [at, need, grants, todo, refs, conn]
    conns,     \* connection -> [user, locks]: the pool's slots
    faults

lockVars == <<operation, conns, faults>>

\* The last call granted is the first one released.
Last(calls) == calls[Len(calls)]
Front(calls) == SubSeq(calls, 1, Len(calls) - 1)

Depth == Max({Len(n) : n \in Nestings})
NoLocks == [k \in LockKeys |-> 0]
Idle == [at |-> "idle", need |-> <<>>, grants |-> <<>>, todo |-> {},
         refs |-> 0, conn |-> NoConn]

LockTypeOK ==
    /\ operation \in [LockOps ->
         [at : {"idle", "running", "opening", "locking", "unwinding", "unlocking", "done"},
          need : Nestings \cup {<<>>},
          grants : UNION {{SubSeq(n, 1, m) : m \in 0 .. Len(n)} : n \in Nestings},
          todo : SUBSET LockKeys, refs : 0 .. Depth, conn : Conns \cup {NoConn}]]
    /\ conns \in [Conns -> [user : LockOps \cup {NoOp}, locks : [LockKeys -> 0 .. Depth]]]
    /\ faults \in 0 .. LockFaults

LockInit ==
    /\ operation = [o \in LockOps |-> Idle]
    /\ conns = [c \in Conns |-> [user |-> NoOp, locks |-> NoLocks]]
    /\ faults = LockFaults

-----------------------------------------------------------------------------
(* Sessions.  A session lives from Conn to Close, and only the operation   *)
(* whose context carries it uses it: "closed" is conn = NoConn.            *)

SessionActive(o) == operation[o].conn # NoConn
UnderWay(o) == operation[o].at \notin {"idle", "done"}

\* The handler of o is inside a call it made without the session's context.
Calling(o) == \E p \in LockOps : Within[p] = o /\ UnderWay(p)

\* The keys are deduplicated and sorted: the next one is the least of the rest.
NextKey(o) == Min(operation[o].todo)

\* pg_advisory_lock waits while another session holds the key.
Blocks(p, o) ==
    /\ operation[o].at = "locking" /\ SessionActive(p)
    /\ operation[p].conn # operation[o].conn
    /\ conns[operation[p].conn].locks[NextKey(o)] > 0

\* PostgreSQL's deadlock check: o is on a cycle of waiting sessions.
Deadlocked(o) ==
    \E S \in SUBSET LockOps :
        /\ o \in S
        /\ \A x \in S : (\E y \in S : Blocks(y, x)) /\ (\E y \in S : Blocks(x, y))

\* The call that operation o makes next: its first request, or one nested in it.
Request(o) == operation[o].need[Len(operation[o].grants) + 1]

\* A caller that holds all it needs, or that got an error, runs its deferred
\* releases, the innermost first.
Unwind(op) ==
    IF op.grants = <<>> THEN [op EXCEPT !.at = "done", !.todo = {}]
    ELSE [op EXCEPT !.at = "unwinding", !.todo = {}]

\* discard: ErrBadConn drops the physical session, and all its locks.
Discard(o) == conns' = [conns EXCEPT ![operation[o].conn] = [user |-> NoOp, locks |-> NoLocks]]

\* A request or a job of its own, or a call inside the handler of another.
StartLockedOperation(o, need) ==
    /\ operation[o].at = "idle"
    /\ Within[o] # NoOp => operation[Within[o]].at = "running" /\ ~Calling(Within[o])
    /\ operation' = [operation EXCEPT ![o] = [Idle EXCEPT !.at = "running", !.need = need]]
    /\ UNCHANGED <<conns, faults>>

\* Mutant: a call opens a session of its own although its context carries one.
LockPostgresAlwaysOpens(o) ==
    /\ operation[o].at = "running" /\ ~Calling(o)
    /\ Len(operation[o].grants) < Len(operation[o].need)
    /\ operation' = [operation EXCEPT ![o].at = "opening", ![o].todo = Request(o)]
    /\ UNCHANGED <<conns, faults>>

\* The context of a call of o itself carries the session of o: found active, it
\* is extended; otherwise one is opened, as for a call made without the context.
\* (Only its operation closes a session, so the retry after
\* errPostgresAdvisoryLockSessionClosed is never taken.)
lockPostgresAdvisoryKeys(o) ==
    /\ operation[o].at = "running" /\ ~Calling(o)
    /\ Len(operation[o].grants) < Len(operation[o].need)
    /\ operation' = [operation EXCEPT
         ![o].at = IF SessionActive(o) THEN "locking" ELSE "opening", ![o].todo = Request(o)]
    /\ UNCHANGED <<conns, faults>>

\* lockDB.Conn: waits for a free slot of the node's pool.  Session, refs 0.
newPostgresAdvisoryLockSession(o) ==
    /\ operation[o].at = "opening"
    /\ \E c \in Conns :
        /\ c[1] = NodeOf[o] /\ conns[c].user = NoOp
        /\ conns' = [conns EXCEPT ![c].user = o]
        /\ operation' = [operation EXCEPT ![o].at = "locking", ![o].conn = c, ![o].refs = 0]
    /\ UNCHANGED faults

\* The context ends while the caller waits for a connection.
OpenFails(o) ==
    /\ operation[o].at = "opening" /\ faults > 0
    /\ operation' = [operation EXCEPT ![o] = Unwind(@)]
    /\ faults' = faults - 1
    /\ UNCHANGED conns

\* Mutant: the session counts keys instead of calls.
AcquiredPerKey(op, k) ==
    IF op.todo # {k} THEN [op EXCEPT !.todo = @ \ {k}, !.refs = @ + 1]
    ELSE [op EXCEPT !.at = "running", !.todo = {}, !.refs = @ + 1,
                    !.grants = Append(@, op.need[Len(@) + 1])]

\* One statement of acquire; after the last key the call holds a release.
Acquired(op, k) ==
    IF op.todo # {k} THEN [op EXCEPT !.todo = @ \ {k}]
    ELSE [op EXCEPT !.at = "running", !.todo = {}, !.refs = @ + 1,
                    !.grants = Append(@, op.need[Len(@) + 1])]

acquire(o) ==
    /\ operation[o].at = "locking" /\ ~ \E p \in LockOps : Blocks(p, o)
    /\ conns' = [conns EXCEPT ![operation[o].conn].locks[NextKey(o)] = @ + 1]
    /\ operation' = [operation EXCEPT ![o] = Acquired(@, NextKey(o))]
    /\ UNCHANGED faults

\* Mutant: no discard, the connection goes back as it is.
AcquireFailsKept(o) ==
    /\ operation[o].at = "locking"
    /\ \/ Deadlocked(o) /\ UNCHANGED faults
       \/ faults > 0 /\ faults' = faults - 1
    /\ operation' = [operation EXCEPT ![o] = Unwind([@ EXCEPT !.conn = NoConn])]
    /\ conns' = [conns EXCEPT ![operation[o].conn].user = NoOp]

\* A cancelled or failed statement, or PostgreSQL's deadlock error: the
\* session is discarded "including any outer locks", and the caller aborts.
AcquireFails(o) ==
    /\ operation[o].at = "locking"
    /\ \/ Deadlocked(o) /\ UNCHANGED faults
       \/ faults > 0 /\ faults' = faults - 1
    /\ operation' = [operation EXCEPT ![o] = Unwind([@ EXCEPT !.conn = NoConn])]
    /\ Discard(o)

-----------------------------------------------------------------------------
(* Releases.                                                               *)

\* The operation is over: its deferred releases run.
EndLockedOperation(o) ==
    /\ operation[o].at = "running" /\ ~Calling(o)
    /\ operation[o].grants = operation[o].need
    /\ operation' = [operation EXCEPT ![o] = Unwind(@)]
    /\ UNCHANGED <<conns, faults>>

\* release of the innermost call; a closed session has nothing to unlock.
release(o) ==
    /\ operation[o].at = "unwinding"
    /\ LET op == operation[o] IN
       operation' = [operation EXCEPT ![o] =
           IF SessionActive(o) THEN [op EXCEPT !.at = "unlocking", !.todo = Last(op.grants)]
           ELSE Unwind([op EXCEPT !.grants = Front(@)])]
    /\ UNCHANGED <<conns, faults>>

\* What release leaves when its last key is unlocked: the session closes with
\* the last reference, and its connection returns to the pool as it is.
ClosedAtZero(op) == op.refs = 1

unlock(o) ==
    /\ operation[o].at = "unlocking"
    /\ LET op == operation[o]
           k == Max(op.todo)
           closes == op.todo = {k} /\ ClosedAtZero(op)
       IN /\ conns' = [conns EXCEPT ![op.conn].locks[k] = @ - 1,
                                    ![op.conn].user = IF closes THEN NoOp ELSE @]
          /\ operation' = [operation EXCEPT ![o] =
               IF op.todo # {k} THEN [op EXCEPT !.todo = @ \ {k}]
               ELSE Unwind([op EXCEPT !.refs = @ - 1, !.grants = Front(@),
                                      !.conn = IF closes THEN NoConn ELSE @])]
    /\ UNCHANGED faults

\* A failed unlock discards the session: the outer calls lose their locks too.
UnlockFails(o) ==
    /\ operation[o].at = "unlocking" /\ faults > 0
    /\ operation' = [operation EXCEPT ![o] =
         Unwind([@ EXCEPT !.grants = Front(operation[o].grants), !.conn = NoConn])]
    /\ Discard(o)
    /\ faults' = faults - 1

LockSteps(o) ==
    \/ lockPostgresAdvisoryKeys(o)
    \/ newPostgresAdvisoryLockSession(o)
    \/ acquire(o)
    \/ EndLockedOperation(o)
    \/ release(o)
    \/ unlock(o)

LockNext ==
    \E o \in LockOps :
        \/ \E need \in NestingsOf[o] : StartLockedOperation(o, need)
        \/ LockSteps(o)
        \/ OpenFails(o)
        \/ AcquireFails(o)
        \/ UnlockFails(o)

LockSpec == LockInit /\ [][LockNext]_lockVars

-----------------------------------------------------------------------------
(* Properties.                                                             *)

\* Calls of o whose release has not run and whose session is still open.
LiveGrants(o) ==
    IF ~SessionActive(o) THEN {}
    ELSE DOMAIN operation[o].grants
           \ (IF operation[o].at = "unlocking" THEN {Len(operation[o].grants)} ELSE {})

\* Every key of a call that has not released yet is locked by the operation's
\* own connection, however calls nest and release the same key, and by no
\* other connection; and a connection that lies idle in the pool holds no
\* lock at all, so the next borrower inherits none (acquire, release,
\* discard and closeIfIdle of postgres_advisory_lock.go).
LocksProtect ==
    /\ \A o \in LockOps : \A i \in LiveGrants(o) : \A k \in operation[o].grants[i] :
         \A c \in Conns : (conns[c].locks[k] > 0) = (c = operation[o].conn)
    /\ \A c \in Conns : conns[c].user = NoOp => conns[c].locks = NoLocks

\* A step of LockSteps is open to operation o: nobody and nothing has to be
\* waited for.
CanGoOn(o) ==
    \/ /\ operation[o].at = "running" /\ ~Calling(o)
       /\ \/ Len(operation[o].grants) < Len(operation[o].need)
          \/ operation[o].grants = operation[o].need
    \/ /\ operation[o].at = "opening"
       /\ \E c \in Conns : c[1] = NodeOf[o] /\ conns[c].user = NoOp
    \/ operation[o].at = "locking" /\ ~ \E p \in LockOps : Blocks(p, o)
    \/ operation[o].at \in {"unwinding", "unlocking"}

\* Nested locking never gets stuck between the pool and PostgreSQL: as long as
\* an operation is under way, some operation can go on, or PostgreSQL sees a
\* deadlock and breaks it (what lockPostgresAdvisoryKeys is meant to ensure).
NobodyStuck ==
    (\E o \in LockOps : UnderWay(o)) => \E o \in LockOps : CanGoOn(o) \/ Deadlocked(o)

\* A handler keeps a connection while it waits for a call that cannot use it.
HoldsAndWaits(o) == SessionActive(o) /\ Calling(o)

\* Nobody is ever stuck between the pool and PostgreSQL unless some handler
\* holds a connection and waits for a call it made without the session's
\* context: an operation that waits for a connection holds no lock, and a
\* nested call that carries the session never waits for one
\* (lockPostgresAdvisoryKeys).
CarriedNeverStuck == (\A o \in LockOps : ~HoldsAndWaits(o)) => NobodyStuck

\* An operation goes on while the pool and PostgreSQL let it, and PostgreSQL's
\* deadlock check (deadlock_timeout) does run.  That a request is cancelled is
\* never assumed.
LockFairness ==
    WF_lockVars(\E o \in LockOps : LockSteps(o) \/ (Deadlocked(o) /\ AcquireFails(o)))

\* Operations that carry their session "work with a dedicated lock pool of
\* MaxOpenConns=1": with a pool of one connection per node, and as long as no
\* handler holds it while it waits for a call made without the context, every
\* operation that starts locking ends, whatever it nests and whatever order
\* others lock the same keys in; nobody waits for ever on the pool, on
\* PostgreSQL or on the two together.
EveryLockedOperationEnds ==
    LockFairness /\ [](\A o \in LockOps : ~HoldsAndWaits(o))
        => ((\E o \in LockOps : operation[o].at = "running")
                ~> (\A o \in LockOps : ~UnderWay(o)))
=============================================================================
