------------------------- MODULE AdvisoryLocks_proofs -------------------------
(***************************************************************************)
(* Safety of the advisory-lock sessions for any number of processes,       *)
(* operations, keys and connections, and for any nesting of calls: the     *)
(* keys of a call are locked until that call releases, by one connection,  *)
(* and no idle connection keeps a lock.  The argument counts: the lock     *)
(* count PostgreSQL keeps for a key is the number of calls holding it.     *)
(* While no handler holds a connection and waits for a call it made        *)
(* without its session, nobody is stuck between the connection pool and    *)
(* PostgreSQL: operations that wait for a connection hold no lock, and     *)
(* among finitely many that all wait for a lock there is a circle, a       *)
(* deadlock PostgreSQL breaks.                                             *)
(***************************************************************************)
EXTENDS AdvisoryLocks, FiniteSetTheorems, TLAPS

-----------------------------------------------------------------------------
(* Advisory locks: the inductive invariant                                 *)

Statuses == {"idle", "running", "opening", "locking", "unwinding", "unlocking", "done"}
KeySets == (SUBSET LockKeys) \ {{}}

\* The fields of an operation, whatever it does.
OpType == [at : Statuses, need : Seq(KeySets), grants : Seq(KeySets),
           todo : SUBSET LockKeys, refs : Nat, conn : Conns \cup {NoConn}]

\* The calls of op that hold key k on its connection: those granted, less the
\* one being released once it unlocked k, and the one in hand once it locked k.
Calls(op, k) ==
    {i \in 1 .. Len(op.grants) + 1 :
        \/ /\ i <= Len(op.grants) /\ k \in op.grants[i]
           /\ op.at = "unlocking" /\ i = Len(op.grants) => k \in op.todo
        \/ /\ i = Len(op.grants) + 1 /\ op.at = "locking"
           /\ k \in op.need[i] /\ k \notin op.todo}

\* Where an operation can be: the keys left are those of the call in hand or
\* of the release in hand, and an operation with a session counts its calls.
OpSteps(op) ==
    /\ op.at \in {"running", "opening", "locking"} =>
         /\ Len(op.grants) <= Len(op.need)
         /\ op.conn = NoConn => op.grants = <<>>
    /\ op.at \in {"opening", "locking"} =>
         /\ Len(op.grants) < Len(op.need) /\ op.todo # {}
         /\ op.todo \subseteq op.need[Len(op.grants) + 1]
    /\ op.at = "opening" => op.todo = op.need[Len(op.grants) + 1]
    /\ op.at \in {"unwinding", "unlocking"} => op.grants # <<>>
    /\ op.at = "unlocking" => op.todo # {} /\ op.todo \subseteq op.grants[Len(op.grants)]
    /\ op.at \in {"locking", "unlocking"} => op.conn # NoConn
    /\ op.at \in {"idle", "opening", "done"} => op.conn = NoConn
    /\ op.conn # NoConn => /\ op.refs = Len(op.grants)
                           /\ op.at = "running" => op.grants # <<>>

OpInv == operation \in [LockOps -> OpType] /\ \A o \in LockOps : OpSteps(operation[o])

\* A connection belongs to the operation that uses it, and its locks are the
\* calls of that operation; a key is locked by one connection at most.
ConnInv ==
    /\ conns \in [Conns -> [user : LockOps \cup {NoOp}, locks : [LockKeys -> Nat]]]
    /\ \A c \in Conns : conns[c].user = NoOp => conns[c].locks = NoLocks
    /\ \A c \in Conns : conns[c].user # NoOp => operation[conns[c].user].conn = c
    /\ \A o \in LockOps : SessionActive(o) => conns[operation[o].conn].user = o

LocksCounted ==
    \A o \in LockOps : SessionActive(o) =>
        \A k \in LockKeys : /\ IsFiniteSet(Calls(operation[o], k))
                            /\ conns[operation[o].conn].locks[k] = Cardinality(Calls(operation[o], k))

KeysExclude ==
    \A c, d \in Conns : \A k \in LockKeys :
        conns[c].locks[k] > 0 /\ conns[d].locks[k] > 0 => c = d

LInv == OpInv /\ ConnInv /\ LocksCounted /\ KeysExclude

-----------------------------------------------------------------------------
(* Least and greatest keys                                                 *)

\* A finite set of integers that is not empty has a least and a greatest one.
LEMMA Extremes ==
    ASSUME NEW S, IsFiniteSet(S), S \subseteq Int, S # {}
    PROVE  (\E x \in S : \A y \in S : x <= y) /\ (\E x \in S : \A y \in S : x >= y)
<1> DEFINE Lowest(T) == \E x \in T : \A y \in T : x <= y
           Highest(T) == \E x \in T : \A y \in T : x >= y
           Bad == {T \in SUBSET S : T # {} /\ ~(Lowest(T) /\ Highest(T))}
<1>1. SUFFICES Bad = {}
  BY Zenon, <1>1
<1>2. SUFFICES ASSUME Bad # {} PROVE FALSE
  BY Zenon
<1>3. IsWellFoundedOn(StrictSubsetOrdering(S), SUBSET S)
  BY Zenon, FS_StrictSubsetOrderingWellFounded, FS_FiniteSubsetsOfFinite
<1>4. Bad \subseteq SUBSET S
  BY Zenon
<1>5. PICK T \in Bad : \A U \in Bad : ~(<<U, T>> \in StrictSubsetOrdering(S))
  <2> HIDE DEF Bad
  <2> QED
    BY Zenon, <1>2, <1>3, <1>4, WFMin
<1>6. T \subseteq S /\ T # {} /\ ~(Lowest(T) /\ Highest(T)) /\ T \subseteq Int
  BY Zenon
<1>7. PICK x \in T : TRUE
  BY Zenon, <1>6
<1>8. PICK U : U = T \ {x}
  BY Zenon
<1>9. U \notin Bad
  <2>1. <<U, T>> \in StrictSubsetOrdering(S)
    <3>1. U \subseteq T /\ U # T /\ U \in SUBSET S /\ T \in SUBSET S
      BY Zenon, <1>6, <1>7, <1>8
    <3> QED
      BY Zenon, <3>1 DEF StrictSubsetOrdering
  <2> QED
    BY Zenon, <1>5, <2>1
<1>10. x \in Int /\ x <= x /\ x >= x
  BY <1>6
<1>11. CASE U = {}
  <2>1. \A y \in T : y = x
    BY Zenon, <1>8, <1>11
  <2> QED
    BY Zenon, <1>6, <1>7, <1>10, <2>1
<1>12. CASE U # {}
  <2>1. Lowest(U) /\ Highest(U)
    BY Zenon, <1>6, <1>8, <1>9, <1>12
  <2>2. PICK l \in U, h \in U : \A y \in U : l <= y /\ h >= y
    BY Zenon, <2>1
  <2>3. l \in Int /\ h \in Int /\ \A y \in T : y \in Int /\ (y \in U \/ y = x)
    BY Zenon, <1>6, <1>8, <2>2
  <2>4. Lowest(T)
    <3>1. CASE l <= x
      <4>1. \A y \in T : l <= y
        BY Zenon, <2>2, <2>3, <3>1
      <4> QED
        BY Zenon, <1>8, <2>2, <4>1
    <3>2. CASE x <= l
      <4>1. ASSUME NEW y \in T PROVE x <= y
        <5>1. y \in Int /\ (y = x \/ l <= y)
          BY Zenon, <2>2, <2>3
        <5> QED
          BY <1>10, <2>3, <3>2, <5>1
      <4> QED
        BY Zenon, <1>7, <4>1
    <3> QED
      BY <1>10, <2>3, <3>1, <3>2
  <2>5. Highest(T)
    <3>1. CASE h >= x
      <4>1. \A y \in T : h >= y
        BY Zenon, <2>2, <2>3, <3>1
      <4> QED
        BY Zenon, <1>8, <2>2, <4>1
    <3>2. CASE x >= h
      <4>1. ASSUME NEW y \in T PROVE x >= y
        <5>1. y \in Int /\ (y = x \/ h >= y)
          BY Zenon, <2>2, <2>3
        <5> QED
          BY <1>10, <2>3, <3>2, <5>1
      <4> QED
        BY Zenon, <1>7, <4>1
    <3> QED
      BY <1>10, <2>3, <3>1, <3>2
  <2> QED
    BY Zenon, <1>6, <2>4, <2>5
<1> QED
  BY Zenon, <1>11, <1>12

\* The next key to lock and the next key to unlock are keys left to do.
LEMMA NextIsLeft ==
    ASSUME NEW S \in SUBSET LockKeys, S # {}
    PROVE  Min(S) \in S /\ Max(S) \in S
<1>1. S \subseteq Int /\ IsFiniteSet(S)
  BY Zenon, LockAssumption, FS_Subset
<1>2. (\E x \in S : \A y \in S : x <= y) /\ (\E x \in S : \A y \in S : x >= y)
  BY Zenon, <1>1, Extremes
<1> QED
  BY Zenon, <1>2 DEF Min, Max

-----------------------------------------------------------------------------
(* One operation at a time                                                 *)

\* No connection is the one an operation without a session has.
LEMMA NoConnection == NoConn \notin Conns /\ NoOp \notin LockOps
<1>1. \A c \in Conns : c[2] \in 1 .. LockPoolSize
  BY Zenon DEF Conns
<1>2. 0 \notin 1 .. LockPoolSize /\ NoConn[2] = 0
  BY LockAssumption DEF NoConn
<1> QED
  BY Zenon, <1>1, <1>2, LockAssumption

\* A step of o that leaves its connection and what its calls hold.
LEMMA SameConnection ==
    ASSUME LInv, NEW o \in LockOps, NEW op \in OpType, OpSteps(op),
           op.conn = operation[o].conn, operation' = [operation EXCEPT ![o] = op],
           conns' = conns,
           op.conn # NoConn => \A k \in LockKeys : Calls(op, k) = Calls(operation[o], k)
    PROVE  LInv'
<1>1. operation \in [LockOps -> OpType]
  BY Zenon DEF LInv, OpInv
<1>2. operation'[o] = op /\ \A p \in LockOps : p # o => operation'[p] = operation[p]
  BY Zenon, <1>1
<1>3. OpInv'
  <2>1. operation' \in [LockOps -> OpType]
    BY Zenon, <1>1
  <2> QED
    BY Zenon, <1>2, <2>1 DEF LInv, OpInv
<1>4. \A p \in LockOps : operation'[p].conn = operation[p].conn
  BY Zenon, <1>2
<1>5. ConnInv'
  BY Zenon, <1>4 DEF LInv, ConnInv, SessionActive
<1>6. LocksCounted'
  <2> SUFFICES ASSUME NEW p \in LockOps, operation[p].conn # NoConn, NEW k \in LockKeys
               PROVE  /\ IsFiniteSet(Calls(operation'[p], k))
                      /\ conns[operation[p].conn].locks[k] = Cardinality(Calls(operation'[p], k))
    BY Zenon, <1>4 DEF LocksCounted, SessionActive
  <2>1. Calls(operation'[p], k) = Calls(operation[p], k)
    BY Zenon, <1>2
  <2> QED
    BY Zenon, <2>1 DEF LInv, LocksCounted, SessionActive
<1> QED
  BY Zenon, <1>3, <1>5, <1>6 DEF LInv, KeysExclude

\* A connection that op has given back, or that serves it.
Serves(op, o, c, user, locks) ==
    \/ op.conn = NoConn /\ user = NoOp /\ locks = NoLocks
    \/ /\ op.conn = c /\ user = o
       /\ \A k \in LockKeys : IsFiniteSet(Calls(op, k)) /\ locks[k] = Cardinality(Calls(op, k))

\* What is locked on connection c was so before, or by nobody else.
Grantable(c, locks) ==
    \A k \in LockKeys : locks[k] > 0 =>
        \/ conns[c].locks[k] > 0
        \/ \A d \in Conns : d # c => ~(conns[d].locks[k] > 0)

\* A step of o that takes, uses or gives back connection c.
LEMMA OneConnection ==
    ASSUME LInv, NEW o \in LockOps, NEW op \in OpType, OpSteps(op),
           operation' = [operation EXCEPT ![o] = op],
           NEW c \in Conns, NEW user, NEW locks \in [LockKeys -> Nat],
           conns' = [conns EXCEPT ![c] = [user |-> user, locks |-> locks]],
           conns[c].user \in {o, NoOp}, operation[o].conn \in {c, NoConn},
           Serves(op, o, c, user, locks), Grantable(c, locks)
    PROVE  LInv'
<1>0. /\ \/ op.conn = NoConn /\ user = NoOp /\ locks = NoLocks
         \/ /\ op.conn = c /\ user = o
            /\ \A k \in LockKeys : IsFiniteSet(Calls(op, k)) /\ locks[k] = Cardinality(Calls(op, k))
      /\ \A k \in LockKeys : locks[k] > 0 =>
            \/ conns[c].locks[k] > 0
            \/ \A d \in Conns : d # c => ~(conns[d].locks[k] > 0)
  BY Zenon DEF Serves, Grantable
<1>1. /\ operation \in [LockOps -> OpType]
      /\ conns \in [Conns -> [user : LockOps \cup {NoOp}, locks : [LockKeys -> Nat]]]
  BY Zenon DEF LInv, OpInv, ConnInv
<1>2. operation'[o] = op /\ \A p \in LockOps : p # o => operation'[p] = operation[p]
  BY Zenon, <1>1
<1>3. OpInv'
  <2>1. operation' \in [LockOps -> OpType]
    BY Zenon, <1>1
  <2> QED
    BY Zenon, <1>2, <2>1 DEF LInv, OpInv
<1>4. PICK row : row = [user |-> user, locks |-> locks]
  BY Zenon
<1>5. /\ row.user = user /\ row.locks = locks
      /\ row \in [user : LockOps \cup {NoOp}, locks : [LockKeys -> Nat]]
  BY Zenon, <1>0, <1>4
<1>6. /\ conns'[c] = row /\ \A d \in Conns : d # c => conns'[d] = conns[d]
      /\ conns' \in [Conns -> [user : LockOps \cup {NoOp}, locks : [LockKeys -> Nat]]]
  BY Zenon, <1>1, <1>4, <1>5
<1>7. \A p \in LockOps : p # o /\ operation[p].conn # NoConn =>
        operation[p].conn \in Conns /\ operation[p].conn # c
  <2> SUFFICES ASSUME NEW p \in LockOps, p # o, operation[p].conn # NoConn
               PROVE  operation[p].conn \in Conns /\ operation[p].conn # c
    BY Zenon
  <2>1. operation[p].conn \in Conns
    BY Zenon, <1>1 DEF OpType
  <2>2. conns[operation[p].conn].user = p
    BY Zenon DEF LInv, ConnInv, SessionActive
  <2> QED
    BY Zenon, <2>1, <2>2, NoConnection
<1>8. ConnInv'
  <2>1. \A d \in Conns : conns'[d].user = NoOp => conns'[d].locks = NoLocks
    BY Zenon, <1>0, <1>5, <1>6, NoConnection DEF LInv, ConnInv
  <2>2. ASSUME NEW d \in Conns, conns'[d].user # NoOp
        PROVE  operation'[conns'[d].user].conn = d
    <3>1. CASE d = c
      BY Zenon, <1>0, <1>2, <1>5, <1>6, <2>2, <3>1
    <3>2. CASE d # c
      <4>1. conns'[d] = conns[d] /\ conns[d].user \in LockOps
        BY Zenon, <1>1, <1>6, <2>2, <3>2
      <4>2. operation[conns[d].user].conn = d
        BY Zenon, <2>2, <4>1 DEF LInv, ConnInv
      <4>3. conns[d].user # o
        BY Zenon, <3>2, <4>2, NoConnection
      <4> QED
        BY Zenon, <1>2, <4>1, <4>2, <4>3
    <3> QED
      BY Zenon, <3>1, <3>2
  <2>3. ASSUME NEW p \in LockOps, operation'[p].conn # NoConn
        PROVE  conns'[operation'[p].conn].user = p
    <3>1. CASE p = o
      <4>1. operation'[p] = op
        BY Zenon, <1>2, <3>1
      <4>2. op.conn = c /\ user = o
        BY Zenon, <1>0, <2>3, <4>1
      <4> QED
        BY Zenon, <1>5, <1>6, <3>1, <4>1, <4>2
    <3>2. CASE p # o
      <4>1. operation'[p] = operation[p] /\ operation[p].conn # NoConn
        BY Zenon, <1>2, <2>3, <3>2
      <4>2. conns'[operation[p].conn] = conns[operation[p].conn]
        BY Zenon, <1>6, <1>7, <3>2, <4>1
      <4> QED
        BY Zenon, <4>1, <4>2 DEF LInv, ConnInv, SessionActive
    <3> QED
      BY Zenon, <3>1, <3>2
  <2> QED
    BY Zenon, <1>6, <2>1, <2>2, <2>3 DEF ConnInv, SessionActive
<1>9. LocksCounted'
  <2> SUFFICES ASSUME NEW p \in LockOps, operation'[p].conn # NoConn, NEW k \in LockKeys
               PROVE  /\ IsFiniteSet(Calls(operation'[p], k))
                      /\ conns'[operation'[p].conn].locks[k]
                           = Cardinality(Calls(operation'[p], k))
    BY Zenon DEF LocksCounted, SessionActive
  <2>1. CASE p = o
    <3>1. operation'[p] = op
      BY Zenon, <1>2, <2>1
    <3>2. op.conn = c /\ IsFiniteSet(Calls(op, k)) /\ locks[k] = Cardinality(Calls(op, k))
      BY Zenon, <1>0, <3>1
    <3> QED
      BY Zenon, <1>5, <1>6, <3>1, <3>2
  <2>2. CASE p # o
    <3>1. operation'[p] = operation[p] /\ operation[p].conn # NoConn
      BY Zenon, <1>2, <2>2
    <3>2. conns'[operation[p].conn] = conns[operation[p].conn]
      BY Zenon, <1>6, <1>7, <2>2, <3>1
    <3> QED
      BY Zenon, <3>1, <3>2 DEF LInv, LocksCounted, SessionActive
  <2> QED
    BY Zenon, <2>1, <2>2
<1>10. KeysExclude'
  <2> SUFFICES ASSUME NEW d \in Conns, NEW e \in Conns, NEW k \in LockKeys,
                      conns'[d].locks[k] > 0, conns'[e].locks[k] > 0, d # e
               PROVE  FALSE
    BY Zenon DEF KeysExclude
  <2>1. ASSUME NEW x \in Conns, x # c, conns'[x].locks[k] > 0, conns'[c].locks[k] > 0
        PROVE  FALSE
    <3>1. conns[x].locks[k] > 0 /\ locks[k] > 0
      BY Zenon, <1>5, <1>6, <2>1
    <3>2. conns[c].locks[k] > 0
      BY Zenon, <1>0, <2>1, <3>1
    <3> QED
      BY Zenon, <2>1, <3>1, <3>2 DEF LInv, KeysExclude
  <2>2. CASE d # c /\ e # c
    BY Zenon, <1>6, <2>2 DEF LInv, KeysExclude
  <2> QED
    BY Zenon, <2>1, <2>2
<1> QED
  BY Zenon, <1>3, <1>8, <1>9, <1>10 DEF LInv

-----------------------------------------------------------------------------
(* Operations                                                              *)

\* The fields of an operation.
LEMMA OpFields ==
    ASSUME NEW op \in OpType
    PROVE  /\ op.at \in Statuses /\ op.need \in Seq(KeySets) /\ op.grants \in Seq(KeySets)
           /\ op.todo \in SUBSET LockKeys /\ op.refs \in Nat /\ op.conn \in Conns \cup {NoConn}
           /\ Len(op.grants) \in Nat /\ Len(op.need) \in Nat
           /\ \A i \in 1 .. Len(op.grants) : op.grants[i] \in KeySets
           /\ \A i \in 1 .. Len(op.need) : op.need[i] \in KeySets
<1>1. /\ op.at \in Statuses /\ op.need \in Seq(KeySets) /\ op.grants \in Seq(KeySets)
      /\ op.todo \in SUBSET LockKeys /\ op.refs \in Nat /\ op.conn \in Conns \cup {NoConn}
  BY Zenon DEF OpType
<1>2. \A s \in Seq(KeySets) : Len(s) \in Nat /\ \A i \in 1 .. Len(s) : s[i] \in KeySets
  OBVIOUS
<1> QED
  BY Zenon, <1>1, <1>2

\* A sequence without its last element.
LEMMA FrontFields ==
    ASSUME NEW s \in Seq(KeySets), s # <<>>
    PROVE  /\ Front(s) \in Seq(KeySets) /\ Len(Front(s)) = Len(s) - 1 /\ Len(s) \in Nat \ {0}
           /\ \A i \in 1 .. Len(s) - 1 : Front(s)[i] = s[i]
           /\ Last(s) \in KeySets /\ Last(s) = s[Len(s)]
           /\ Front(s) = <<>> <=> Len(s) = 1
<1>1. Len(s) \in Nat \ {0} /\ Len(s) - 1 \in 0 .. Len(s)
  OBVIOUS
<1>2. /\ Front(s) \in Seq(KeySets) /\ Len(Front(s)) = Len(s) - 1
      /\ \A i \in 1 .. Len(s) - 1 : Front(s)[i] = s[i]
  <2>1. PICK m \in Nat : m = Len(s) - 1
    BY <1>1
  <2>2. Front(s) = SubSeq(s, 1, m)
    BY Zenon, <2>1 DEF Front
  <2>3. SubSeq(s, 1, m) = [i \in 1 .. m |-> s[i]]
    BY <1>1, <2>1
  <2>4. \A i \in 1 .. m : s[i] \in KeySets
    BY <1>1, <2>1
  <2> QED
    BY <2>1, <2>2, <2>3, <2>4
<1>3. Last(s) = s[Len(s)] /\ Last(s) \in KeySets
  BY <1>1 DEF Last
<1>4. Front(s) = <<>> <=> Len(s) = 1
  BY <1>1, <1>2
<1> QED
  BY Zenon, <1>1, <1>2, <1>3, <1>4

\* An operation that unwinds is over, or has releases to run.
LEMMA UnwindSteps ==
    ASSUME NEW q \in OpType, NEW op, op = Unwind(q),
           q.conn # NoConn => q.refs = Len(q.grants) /\ q.grants # <<>>
    PROVE  /\ op \in OpType /\ OpSteps(op) /\ op.conn = q.conn /\ op.grants = q.grants
           /\ op.at \in {"unwinding", "done"}
<1>1. "done" \in Statuses /\ "unwinding" \in Statuses /\ {} \in SUBSET LockKeys
  BY Zenon DEF Statuses
<1>2. PICK at \in {"unwinding", "done"} : /\ op = [q EXCEPT !.at = at, !.todo = {}]
                                          /\ at = "done" <=> q.grants = <<>>
  BY DEF Unwind
<1>3. /\ op \in OpType /\ op.conn = q.conn /\ op.grants = q.grants /\ op.at = at
      /\ op.refs = q.refs
  BY Zenon, <1>1, <1>2 DEF OpType
<1>4. OpSteps(op)
  BY Zenon, <1>2, <1>3 DEF OpSteps
<1> QED
  BY Zenon, <1>2, <1>3, <1>4

\* What the calls hold when none of them is under way.
LEMMA CallsAtRest ==
    ASSUME NEW op \in OpType, op.at \notin {"locking", "unlocking"}, NEW k
    PROVE  Calls(op, k) = {i \in 1 .. Len(op.grants) : k \in op.grants[i]}
<1>1. /\ \A i \in 1 .. Len(op.grants) : i \in 1 .. Len(op.grants) + 1 /\ i <= Len(op.grants)
      /\ \A i \in 1 .. Len(op.grants) + 1 : i <= Len(op.grants) => i \in 1 .. Len(op.grants)
  BY OpFields
<1> QED
  BY Zenon, <1>1 DEF Calls

\* The same, call by call.
LEMMA CallAtRest ==
    ASSUME NEW op \in OpType, op.at \notin {"locking", "unlocking"}
    PROVE  \A k, i : i \in Calls(op, k) <=> i \in 1 .. Len(op.grants) /\ k \in op.grants[i]
<1>1. \A k : Calls(op, k) = {i \in 1 .. Len(op.grants) : k \in op.grants[i]}
  BY Zenon, CallsAtRest
<1> QED
  BY Zenon, <1>1

\* A call that has just begun, and a release that has, holds what was held.
LEMMA CallsBegin ==
    ASSUME NEW old \in OpType, NEW op \in OpType, old.at \notin {"locking", "unlocking"},
           op.grants = old.grants,
           \/ op.at = "locking" /\ op.todo = op.need[Len(op.grants) + 1]
           \/ op.at = "unlocking" /\ op.todo = op.grants[Len(op.grants)],
           NEW k
    PROVE  Calls(op, k) = Calls(old, k)
<1>1. /\ \A i \in 1 .. Len(op.grants) : i \in 1 .. Len(op.grants) + 1 /\ i <= Len(op.grants)
      /\ \A i \in 1 .. Len(op.grants) + 1 : i <= Len(op.grants) => i \in 1 .. Len(op.grants)
  BY OpFields
<1>2. Calls(old, k) = {i \in 1 .. Len(op.grants) : k \in op.grants[i]}
  BY Zenon, CallsAtRest
<1>3. CASE op.at = "locking" /\ op.todo = op.need[Len(op.grants) + 1]
  BY Zenon, <1>1, <1>2, <1>3 DEF Calls
<1>4. CASE op.at = "unlocking" /\ op.todo = op.grants[Len(op.grants)]
  BY Zenon, <1>1, <1>2, <1>4 DEF Calls
<1> QED
  BY Zenon, <1>3, <1>4

\* acquire: one more call holds the key, and the other keys are as they were.
LEMMA AcquiredCalls ==
    ASSUME NEW old \in OpType, OpSteps(old), old.at = "locking", NEW key \in old.todo,
           NEW op, op = Acquired(old, key)
    PROVE  LET n == Len(old.grants) + 1 IN
           /\ op \in OpType /\ OpSteps(op) /\ op.conn = old.conn
           /\ n \notin Calls(old, key) /\ Calls(op, key) = Calls(old, key) \cup {n}
           /\ \A k \in LockKeys \ {key} : Calls(op, k) = Calls(old, k)
<1> DEFINE l == Len(old.grants)
           n == Len(old.grants) + 1
<1>0. /\ old.need \in Seq(KeySets) /\ old.grants \in Seq(KeySets)
      /\ old.todo \in SUBSET LockKeys /\ old.refs \in Nat /\ old.conn \in Conns \cup {NoConn}
      /\ l \in Nat /\ Len(old.need) \in Nat
      /\ \A i \in 1 .. Len(old.need) : old.need[i] \in KeySets
  BY Zenon, OpFields
<1>1. /\ l < Len(old.need) /\ old.todo # {} /\ old.todo \subseteq old.need[n]
      /\ old.conn # NoConn /\ old.refs = l
  BY Zenon DEF OpSteps
<1>2. /\ n \in 1 .. n /\ n = l + 1 /\ ~(n <= l) /\ n \in Nat /\ n \in 1 .. Len(old.need)
      /\ \A i \in 1 .. n : i \in 1 .. l \/ i = n
      /\ \A i \in 1 .. l : i \in 1 .. n /\ i <= l /\ i # n /\ i <= n
      /\ \A i \in 1 .. n + 1 : i \in 1 .. n \/ i = n + 1
      /\ \A i \in 1 .. n : i \in 1 .. n + 1 /\ i <= n
      /\ ~(n + 1 <= n)
  BY <1>0, <1>1
<1> SUFFICES /\ op \in OpType /\ OpSteps(op) /\ op.conn = old.conn
             /\ n \notin Calls(old, key) /\ Calls(op, key) = Calls(old, key) \cup {n}
             /\ \A k \in LockKeys \ {key} : Calls(op, k) = Calls(old, k)
  BY Zenon
<1> HIDE DEF l, n
<1>3. \A k, i : i \in Calls(old, k) <=>
        i \in 1 .. n /\ \/ i <= l /\ k \in old.grants[i]
                        \/ i = n /\ k \in old.need[n] /\ k \notin old.todo
  BY Zenon DEF Calls, l, n
<1>4. n \notin Calls(old, key)
  BY Zenon, <1>2, <1>3
<1>5. CASE old.todo # {key}
  <2>1. op = [old EXCEPT !.todo = old.todo \ {key}]
    BY Zenon, <1>5 DEF Acquired
  <2>2. /\ op \in OpType /\ op.conn = old.conn /\ op.at = "locking" /\ op.need = old.need
        /\ op.grants = old.grants /\ op.refs = old.refs /\ op.todo = old.todo \ {key}
    <3>1. old.todo \ {key} \in SUBSET LockKeys
      BY Zenon, <1>0
    <3> QED
      BY Zenon, <2>1, <3>1 DEF OpType
  <2>3. OpSteps(op)
    <3>1. op.todo # {} /\ op.todo \subseteq old.need[n]
      BY Zenon, <1>1, <1>5, <2>2
    <3>2. l <= Len(old.need)
      BY <1>0, <1>1
    <3> QED
      BY Zenon, <1>1, <2>2, <3>1, <3>2 DEF OpSteps, l, n
  <2>4. \A k, i : i \in Calls(op, k) <=>
          i \in 1 .. n /\ \/ i <= l /\ k \in old.grants[i]
                          \/ i = n /\ k \in old.need[n] /\ k \notin op.todo
    BY Zenon, <2>2 DEF Calls, l, n
  <2>5. Calls(op, key) = Calls(old, key) \cup {n}
    <3>1. \A i : i \in Calls(op, key) <=> i \in Calls(old, key) \/ i = n
      BY Zenon, <1>1, <1>2, <1>3, <2>2, <2>4
    <3> QED
      BY Zenon, <3>1
  <2>6. \A k \in LockKeys \ {key} : Calls(op, k) = Calls(old, k)
    <3>1. \A k \in LockKeys \ {key} : \A i : i \in Calls(op, k) <=> i \in Calls(old, k)
      BY Zenon, <1>3, <2>2, <2>4
    <3> QED
      BY Zenon, <3>1
  <2> QED
    BY Zenon, <1>4, <2>2, <2>3, <2>5, <2>6
<1>6. CASE old.todo = {key}
  <2>1. PICK g, r : g = Append(old.grants, old.need[n]) /\ r = old.refs + 1
    BY Zenon
  <2>2. op = [old EXCEPT !.at = "running", !.todo = {}, !.refs = r, !.grants = g]
    BY Zenon, <1>6, <2>1 DEF Acquired, l, n
  <2>3. /\ g \in Seq(KeySets) /\ Len(g) = n /\ g[n] = old.need[n] /\ g # <<>>
        /\ \A i \in 1 .. l : g[i] = old.grants[i]
    <3>1. old.need[n] \in KeySets
      BY Zenon, <1>0, <1>2
    <3> QED
      BY <1>0, <1>2, <2>1, <3>1 DEF l
  <2>4. r \in Nat /\ r = n /\ n <= Len(old.need)
    BY <1>0, <1>1, <1>2, <2>1
  <2>5. /\ op \in OpType /\ op.conn = old.conn /\ op.at = "running" /\ op.need = old.need
        /\ op.grants = g /\ op.refs = r
    <3>1. "running" \in Statuses /\ {} \in SUBSET LockKeys
      BY Zenon DEF Statuses
    <3> QED
      BY Zenon, <2>2, <2>3, <2>4, <3>1 DEF OpType
  <2>6. OpSteps(op)
    BY Zenon, <1>1, <2>3, <2>4, <2>5 DEF OpSteps, l, n
  <2>7. \A k, i : i \in Calls(op, k) <=> i \in 1 .. n /\ k \in g[i]
    <3>1. op.at \notin {"locking", "unlocking"}
      BY Zenon, <2>5
    <3>2. \A k, i : i \in Calls(op, k) <=> i \in 1 .. Len(op.grants) /\ k \in op.grants[i]
      BY Zenon, <2>5, <3>1, CallAtRest
    <3> QED
      BY Zenon, <2>3, <2>5, <3>2
  <2>8. Calls(op, key) = Calls(old, key) \cup {n}
    <3>1. \A i : i \in Calls(op, key) <=> i \in Calls(old, key) \/ i = n
      BY Zenon, <1>1, <1>2, <1>3, <1>6, <2>3, <2>7
    <3> QED
      BY Zenon, <3>1
  <2>9. \A k \in LockKeys \ {key} : Calls(op, k) = Calls(old, k)
    <3>1. \A k \in LockKeys \ {key} : \A i : i \in Calls(op, k) <=> i \in Calls(old, k)
      BY Zenon, <1>2, <1>3, <1>6, <2>3, <2>7
    <3> QED
      BY Zenon, <3>1
  <2> QED
    BY Zenon, <1>4, <2>5, <2>6, <2>8, <2>9
<1> QED
  BY Zenon, <1>5, <1>6

\* unlock, as it leaves the operation, and when it closes the session.
Closes(op, key) == op.todo = {key} /\ ClosedAtZero(op)
Unlocked(op, key) ==
    IF op.todo # {key} THEN [op EXCEPT !.todo = @ \ {key}]
    ELSE Unwind([op EXCEPT !.refs = @ - 1, !.grants = Front(@),
                           !.conn = IF Closes(op, key) THEN NoConn ELSE @])

\* unlock: one call less holds the key, and the other keys are as they were;
\* the last key ends the release, and the last release ends the session.
LEMMA UnlockedCalls ==
    ASSUME NEW old \in OpType, OpSteps(old), old.at = "unlocking", NEW key \in old.todo,
           NEW closes, closes = Closes(old, key), NEW op, op = Unlocked(old, key)
    PROVE  LET n == Len(old.grants) IN
           /\ op \in OpType /\ OpSteps(op) /\ op.conn = IF closes THEN NoConn ELSE old.conn
           /\ n \in Calls(old, key) /\ Calls(op, key) = Calls(old, key) \ {n}
           /\ \A k \in LockKeys \ {key} : Calls(op, k) = Calls(old, k)
           /\ closes => \A k \in LockKeys : Calls(op, k) = {}
<1> DEFINE n == Len(old.grants)
<1> SUFFICES /\ op \in OpType /\ OpSteps(op) /\ op.conn = IF closes THEN NoConn ELSE old.conn
             /\ n \in Calls(old, key) /\ Calls(op, key) = Calls(old, key) \ {n}
             /\ \A k \in LockKeys \ {key} : Calls(op, k) = Calls(old, k)
             /\ closes => \A k \in LockKeys : Calls(op, k) = {}
  BY Zenon
<1>0. /\ old.grants \in Seq(KeySets) /\ n \in Nat
      /\ old.todo \in SUBSET LockKeys /\ old.refs \in Nat /\ old.conn \in Conns \cup {NoConn}
      /\ \A i \in 1 .. n : old.grants[i] \in KeySets
  BY Zenon, OpFields
<1>1. /\ old.grants # <<>> /\ old.todo # {} /\ old.todo \subseteq old.grants[n]
      /\ old.conn # NoConn /\ old.refs = n
  BY Zenon DEF OpSteps
<1>2. /\ n # 0 /\ n \in 1 .. n /\ n <= n
      /\ \A i \in 1 .. n - 1 : i \in 1 .. n /\ i # n
      /\ \A i \in 1 .. n : i = n \/ i \in 1 .. n - 1
      /\ \A i \in 1 .. n : i <= n /\ i \in 1 .. n + 1
      /\ \A i \in 1 .. n + 1 : i <= n => i \in 1 .. n
  BY <1>0, <1>1
<1> HIDE DEF n
<1>3. \A k, i : i \in Calls(old, k) <=>
        i \in 1 .. n /\ k \in old.grants[i] /\ (i = n => k \in old.todo)
  BY Zenon, <1>2 DEF Calls, n
<1>4. n \in Calls(old, key)
  BY Zenon, <1>1, <1>2, <1>3
<1>5. CASE old.todo # {key}
  <2>1. op = [old EXCEPT !.todo = old.todo \ {key}] /\ ~closes
    BY Zenon, <1>5 DEF Unlocked, Closes
  <2>2. /\ op \in OpType /\ op.conn = old.conn /\ op.at = "unlocking" /\ op.need = old.need
        /\ op.grants = old.grants /\ op.refs = old.refs /\ op.todo = old.todo \ {key}
    <3>1. old.todo \ {key} \in SUBSET LockKeys
      BY Zenon, <1>0
    <3> QED
      BY Zenon, <2>1, <3>1 DEF OpType
  <2>3. OpSteps(op)
    <3>1. op.todo # {} /\ op.todo \subseteq old.grants[n]
      BY Zenon, <1>1, <1>5, <2>2
    <3> QED
      BY Zenon, <1>1, <2>2, <3>1 DEF OpSteps, n
  <2>4. \A k, i : i \in Calls(op, k) <=>
          i \in 1 .. n /\ k \in old.grants[i] /\ (i = n => k \in op.todo)
    BY Zenon, <1>2, <2>2 DEF Calls, n
  <2>5. Calls(op, key) = Calls(old, key) \ {n}
    <3>1. \A i : i \in Calls(op, key) <=> i \in Calls(old, key) /\ i # n
      BY Zenon, <1>3, <2>2, <2>4
    <3> QED
      BY Zenon, <3>1
  <2>6. \A k \in LockKeys \ {key} : Calls(op, k) = Calls(old, k)
    <3>1. \A k \in LockKeys \ {key} : \A i : i \in Calls(op, k) <=> i \in Calls(old, k)
      BY Zenon, <1>3, <2>2, <2>4
    <3> QED
      BY Zenon, <3>1
  <2> QED
    BY Zenon, <1>4, <2>1, <2>2, <2>3, <2>5, <2>6
<1>6. CASE old.todo = {key}
  <2>1. PICK g, r, c, q : /\ g = Front(old.grants) /\ r = old.refs - 1
                          /\ c = (IF closes THEN NoConn ELSE old.conn)
                          /\ q = [old EXCEPT !.refs = r, !.grants = g, !.conn = c]
    BY Zenon
  <2>2. op = Unwind(q)
    BY Zenon, <1>6, <2>1 DEF Unlocked
  <2>3. /\ g \in Seq(KeySets) /\ Len(g) = n - 1 /\ (g = <<>> <=> n = 1)
        /\ \A i \in 1 .. n - 1 : g[i] = old.grants[i]
    BY Zenon, <1>0, <1>1, <2>1, FrontFields DEF n
  <2>4. r \in Nat /\ r = n - 1
    BY <1>0, <1>1, <1>2, <2>1
  <2>5. closes <=> n = 1
    BY Zenon, <1>1, <1>6 DEF Closes, ClosedAtZero
  <2>6. q \in OpType /\ q.grants = g /\ q.refs = r /\ q.conn = c
    <3>1. c \in Conns \cup {NoConn}
      BY Zenon, <1>0, <2>1
    <3> QED
      BY Zenon, <2>1, <2>3, <2>4, <3>1 DEF OpType
  <2>7. q.conn # NoConn => q.refs = Len(q.grants) /\ q.grants # <<>>
    BY Zenon, <2>1, <2>3, <2>4, <2>5, <2>6
  <2>8. /\ op \in OpType /\ OpSteps(op) /\ op.conn = c /\ op.grants = g
        /\ op.at \notin {"locking", "unlocking"}
    <3>1. /\ op \in OpType /\ OpSteps(op) /\ op.conn = q.conn /\ op.grants = q.grants
          /\ op.at \in {"unwinding", "done"}
      BY Zenon, <2>2, <2>6, <2>7, UnwindSteps
    <3> QED
      BY Zenon, <2>6, <3>1
  <2>9. \A k, i : i \in Calls(op, k) <=> i \in 1 .. n - 1 /\ k \in old.grants[i]
    <3>2. Len(op.grants) = n - 1 /\ \A i \in 1 .. n - 1 : op.grants[i] = old.grants[i]
      BY Zenon, <2>3, <2>8
    <3>3. \A k, i : i \in Calls(op, k) <=> i \in 1 .. Len(op.grants) /\ k \in op.grants[i]
      BY Zenon, <2>8, CallAtRest
    <3> QED
      BY Zenon, <3>2, <3>3
  <2>10. Calls(op, key) = Calls(old, key) \ {n}
    <3>1. \A i : i \in Calls(op, key) <=> i \in Calls(old, key) /\ i # n
      BY Zenon, <1>2, <1>3, <2>9
    <3> QED
      BY Zenon, <3>1
  <2>11. \A k \in LockKeys \ {key} : Calls(op, k) = Calls(old, k)
    <3>1. \A k \in LockKeys \ {key} : \A i : i \in Calls(op, k) <=> i \in Calls(old, k)
      BY Zenon, <1>2, <1>3, <1>6, <2>9
    <3> QED
      BY Zenon, <3>1
  <2>12. closes => \A k \in LockKeys : Calls(op, k) = {}
    <3>1. n = 1 => 1 .. n - 1 = {}
      BY SMTT(20)
    <3> QED
      BY Zenon, <2>5, <2>9, <3>1
  <2> QED
    BY Zenon, <1>4, <2>1, <2>8, <2>10, <2>11, <2>12
<1> QED
  BY Zenon, <1>5, <1>6

-----------------------------------------------------------------------------
(* Steps                                                                   *)

\* What the invariant says of one operation.
LEMMA OperationFacts ==
    ASSUME LInv, NEW o \in LockOps
    PROVE  /\ operation[o] \in OpType /\ OpSteps(operation[o])
           /\ operation[o].conn # NoConn =>
                /\ operation[o].conn \in Conns /\ conns[operation[o].conn].user = o
                /\ conns[operation[o].conn].locks \in [LockKeys -> Nat]
                /\ \A k \in LockKeys :
                     /\ IsFiniteSet(Calls(operation[o], k))
                     /\ conns[operation[o].conn].locks[k] = Cardinality(Calls(operation[o], k))
<1>1. operation[o] \in OpType /\ OpSteps(operation[o])
  BY Zenon DEF LInv, OpInv
<1>2. operation[o].conn \in Conns \cup {NoConn}
  BY Zenon, <1>1, OpFields
<1>3. operation[o].conn # NoConn =>
        /\ conns[operation[o].conn].user = o
        /\ conns[operation[o].conn].locks \in [LockKeys -> Nat]
  BY Zenon, <1>2 DEF LInv, ConnInv, SessionActive
<1> QED
  BY Zenon, <1>1, <1>2, <1>3 DEF LInv, LocksCounted, SessionActive

\* A request or a job that starts has no session.
LEMMA StartStep ==
    ASSUME LInv, NEW o \in LockOps, NEW need \in Nestings, StartLockedOperation(o, need)
    PROVE  LInv'
<1>1. PICK op : op = [Idle EXCEPT !.at = "running", !.need = need]
  BY Zenon
<1>2. need \in Seq(KeySets)
  <2>1. need \in Seq((SUBSET Int) \ {{}})
    BY Zenon, LockAssumption
  <2>2. \A i \in 1 .. Len(need) : need[i] \in KeySets
    <3> SUFFICES ASSUME NEW i \in 1 .. Len(need) PROVE need[i] \in KeySets
      BY Zenon
    <3>1. i \in DOMAIN need /\ need[i] # {}
      BY <2>1
    <3>2. need[i] \subseteq LockKeys
      <4>1. need[i] \subseteq UNION {need[j] : j \in DOMAIN need}
        BY Zenon, <3>1
      <4>2. UNION {need[j] : j \in DOMAIN need} \subseteq LockKeys
        BY Zenon DEF LockKeys
      <4> QED
        BY Zenon, <4>1, <4>2
    <3> QED
      BY Zenon, <3>1, <3>2 DEF KeySets
  <2> QED
    BY <2>1, <2>2
<1>3. /\ op \in OpType /\ op.at = "running" /\ op.grants = <<>> /\ op.conn = NoConn
      /\ op.need = need
  <2>1. <<>> \in Seq(KeySets) /\ 0 \in Nat
    OBVIOUS
  <2> QED
    BY Zenon, <1>1, <1>2, <2>1 DEF Idle, OpType, Statuses
<1>4. OpSteps(op)
  <2>1. Len(<<>>) <= Len(need)
    BY <1>2
  <2> QED
    BY Zenon, <1>3, <2>1 DEF OpSteps
<1>5. operation[o].at = "idle" /\ conns' = conns /\ operation' = [operation EXCEPT ![o] = op]
  BY Zenon, <1>1 DEF StartLockedOperation
<1>6. operation[o].conn = NoConn
  BY Zenon, <1>5, OperationFacts DEF OpSteps
<1> QED
  BY Zenon, <1>3, <1>4, <1>5, <1>6, SameConnection

\* A call extends the session of its operation, or opens one.
LEMMA CallStep ==
    ASSUME LInv, NEW o \in LockOps, lockPostgresAdvisoryKeys(o)
    PROVE  LInv'
<1>1. PICK old, n : old = operation[o] /\ n = Len(old.grants) + 1
  BY Zenon
<1>2. PICK at : at = IF old.conn # NoConn THEN "locking" ELSE "opening"
  BY Zenon
<1>3. PICK op : op = [old EXCEPT !.at = at, !.todo = old.need[n]]
  BY Zenon
<1>4. /\ old.at = "running" /\ Len(old.grants) < Len(old.need) /\ conns' = conns
      /\ operation' = [operation EXCEPT ![o].at = at, ![o].todo = old.need[n]]
  BY Zenon, <1>1, <1>2 DEF lockPostgresAdvisoryKeys, SessionActive, Request
<1>5. /\ old \in OpType /\ OpSteps(old) /\ Len(old.grants) \in Nat /\ Len(old.need) \in Nat
      /\ \A i \in 1 .. Len(old.need) : old.need[i] \in KeySets
  BY Zenon, <1>1, OperationFacts, OpFields
<1>6. operation' = [operation EXCEPT ![o] = op]
  <2>1. operation \in [LockOps -> OpType]
    BY Zenon DEF LInv, OpInv
  <2>2. operation' = [operation EXCEPT ![o] =
                         [[operation[o] EXCEPT !.at = at] EXCEPT !.todo = old.need[n]]]
    BY Zenon, <1>4, <2>1
  <2> QED
    BY Zenon, <1>1, <1>3, <2>2
<1>7. n \in 1 .. Len(old.need) /\ Len(old.grants) <= Len(old.need)
  BY <1>1, <1>4, <1>5
<1>8. old.need[n] # {} /\ old.need[n] \in SUBSET LockKeys
  BY Zenon, <1>5, <1>7 DEF KeySets
<1>9. /\ op \in OpType /\ op.at = at /\ op.need = old.need /\ op.grants = old.grants
      /\ op.todo = old.need[n] /\ op.refs = old.refs /\ op.conn = old.conn
  <2>1. at \in Statuses
    BY Zenon, <1>2 DEF Statuses
  <2> QED
    BY Zenon, <1>3, <1>5, <1>8, <2>1 DEF OpType
<1>10. op.need[Len(op.grants) + 1] = old.need[n]
  BY Zenon, <1>1, <1>9
<1>11. OpSteps(op)
  <2>1. old.conn = NoConn => old.grants = <<>>
    BY Zenon, <1>4, <1>5 DEF OpSteps
  <2>2. old.conn # NoConn => old.refs = Len(old.grants) /\ old.grants # <<>>
    BY Zenon, <1>4, <1>5 DEF OpSteps
  <2> QED
    BY Zenon, <1>2, <1>4, <1>7, <1>8, <1>9, <1>10, <2>1, <2>2 DEF OpSteps
<1>12. op.conn # NoConn => \A k \in LockKeys : Calls(op, k) = Calls(old, k)
  <2> SUFFICES ASSUME op.conn # NoConn, NEW k \in LockKeys PROVE Calls(op, k) = Calls(old, k)
    BY Zenon
  <2>1. op.at = "locking" /\ op.todo = op.need[Len(op.grants) + 1] /\ op.grants = old.grants
    BY Zenon, <1>2, <1>9, <1>10
  <2>2. old.at \notin {"locking", "unlocking"}
    BY Zenon, <1>4
  <2> QED
    BY Zenon, <1>5, <1>9, <2>1, <2>2, CallsBegin
<1> QED
  BY Zenon, <1>1, <1>4, <1>6, <1>9, <1>11, <1>12, SameConnection

\* A step of o to the unwinding of q, without its connection's doing.
LEMMA UnwindStep ==
    ASSUME LInv, NEW o \in LockOps, NEW q \in OpType, q.conn = operation[o].conn,
           operation' = [operation EXCEPT ![o] = Unwind(q)], conns' = conns,
           q.conn # NoConn => /\ q.refs = Len(q.grants) /\ q.grants # <<>>
                              /\ q.grants = operation[o].grants
                              /\ operation[o].at \notin {"locking", "unlocking"}
    PROVE  LInv'
<1>1. PICK op : op = Unwind(q)
  BY Zenon
<1>2. /\ op \in OpType /\ OpSteps(op) /\ op.conn = q.conn /\ op.grants = q.grants
      /\ op.at \in {"unwinding", "done"}
  BY Zenon, <1>1, UnwindSteps
<1>3. op.conn # NoConn => \A k \in LockKeys : Calls(op, k) = Calls(operation[o], k)
  <2> SUFFICES ASSUME op.conn # NoConn, NEW k \in LockKeys
               PROVE  Calls(op, k) = Calls(operation[o], k)
    BY Zenon
  <2>1. op.at \notin {"locking", "unlocking"} /\ op.grants = operation[o].grants
    BY Zenon, <1>2
  <2>2. /\ Calls(op, k) = {i \in 1 .. Len(op.grants) : k \in op.grants[i]}
        /\ Calls(operation[o], k)
             = {i \in 1 .. Len(operation[o].grants) : k \in operation[o].grants[i]}
    BY Zenon, <1>2, <2>1, OperationFacts, CallsAtRest
  <2> QED
    BY Zenon, <2>1, <2>2
<1>4. operation' = [operation EXCEPT ![o] = op] /\ op.conn = operation[o].conn
  BY Zenon, <1>1, <1>2
<1> QED
  BY Zenon, <1>2, <1>3, <1>4, SameConnection

\* The pool hands out a connection that is idle, and so holds no lock.
LEMMA OpenStep ==
    ASSUME LInv, NEW o \in LockOps, newPostgresAdvisoryLockSession(o)
    PROVE  LInv'
<1>1. PICK c \in Conns : /\ conns[c].user = NoOp /\ conns' = [conns EXCEPT ![c].user = o]
                         /\ operation' = [operation EXCEPT ![o].at = "locking", ![o].conn = c,
                                                           ![o].refs = 0]
  BY Zenon DEF newPostgresAdvisoryLockSession
<1>2. PICK old : old = operation[o]
  BY Zenon
<1>3. PICK op : op = [old EXCEPT !.at = "locking", !.conn = c, !.refs = 0]
  BY Zenon
<1>4. old \in OpType /\ OpSteps(old) /\ old.at = "opening"
  BY Zenon, <1>2, OperationFacts DEF newPostgresAdvisoryLockSession
<1>5. /\ operation \in [LockOps -> OpType]
      /\ conns \in [Conns -> [user : LockOps \cup {NoOp}, locks : [LockKeys -> Nat]]]
  BY Zenon DEF LInv, OpInv, ConnInv
<1>6. operation' = [operation EXCEPT ![o] = op]
  <2>1. operation' = [operation EXCEPT ![o] =
                         [[[operation[o] EXCEPT !.at = "locking"] EXCEPT !.conn = c]
                            EXCEPT !.refs = 0]]
    BY Zenon, <1>1, <1>5
  <2> QED
    BY Zenon, <1>2, <1>3, <2>1
<1>7. /\ conns[c].locks = NoLocks /\ NoLocks \in [LockKeys -> Nat]
      /\ conns' = [conns EXCEPT ![c] = [user |-> o, locks |-> NoLocks]]
  <2>1. conns[c].locks = NoLocks /\ conns[c] \in [user : LockOps \cup {NoOp}, locks : [LockKeys -> Nat]]
    BY Zenon, <1>1, <1>5 DEF LInv, ConnInv
  <2>2. [conns[c] EXCEPT !.user = o] = [user |-> o, locks |-> NoLocks]
    BY <2>1
  <2>3. conns' = [conns EXCEPT ![c] = [conns[c] EXCEPT !.user = o]]
    BY Zenon, <1>1
  <2> QED
    BY Zenon, <2>1, <2>2, <2>3
<1>8. /\ op \in OpType /\ op.at = "locking" /\ op.conn = c /\ op.refs = 0
      /\ op.need = old.need /\ op.grants = old.grants /\ op.todo = old.todo
  <2>1. 0 \in Nat
    OBVIOUS
  <2> QED
    BY Zenon, <1>3, <1>4, <2>1 DEF OpType, Statuses
<1>9. /\ old.conn = NoConn /\ old.grants = <<>> /\ old.todo # {}
      /\ Len(old.grants) <= Len(old.need) /\ Len(old.grants) < Len(old.need)
      /\ old.todo = old.need[Len(old.grants) + 1]
  BY Zenon, <1>4 DEF OpSteps
<1>10. Len(old.grants) = 0
  BY <1>9
<1>11. OpSteps(op)
  BY Zenon, <1>8, <1>9, <1>10, NoConnection DEF OpSteps
<1>12. \A k \in LockKeys : IsFiniteSet(Calls(op, k)) /\ NoLocks[k] = Cardinality(Calls(op, k))
  <2> SUFFICES ASSUME NEW k \in LockKeys
               PROVE  IsFiniteSet(Calls(op, k)) /\ NoLocks[k] = Cardinality(Calls(op, k))
    BY Zenon
  <2>1. Calls(op, k) = Calls(old, k)
    BY Zenon, <1>4, <1>8, <1>9, CallsBegin
  <2>2. \A i : i \in Calls(old, k) <=> i \in 1 .. Len(old.grants) /\ k \in old.grants[i]
    BY Zenon, <1>4, CallAtRest
  <2>3. 1 .. Len(old.grants) = {}
    BY <1>10
  <2>4. Calls(op, k) = {}
    BY Zenon, <2>1, <2>2, <2>3
  <2> QED
    BY Zenon, <2>4, FS_EmptySet DEF NoLocks
<1>13. \A k \in LockKeys : ~(NoLocks[k] > 0)
  BY DEF NoLocks
<1>14. operation[o].conn \in {c, NoConn} /\ conns[c].user \in {o, NoOp}
  BY Zenon, <1>1, <1>2, <1>9
<1>15. Serves(op, o, c, o, NoLocks) /\ Grantable(c, NoLocks)
  BY Zenon, <1>8, <1>12, <1>13 DEF Serves, Grantable
<1> QED
  BY Zenon, <1>6, <1>7, <1>8, <1>11, <1>14, <1>15, OneConnection

\* acquire: nobody else holds the key.
LEMMA AcquireStep ==
    ASSUME LInv, NEW o \in LockOps, acquire(o)
    PROVE  LInv'
<1>1. PICK old, op, key, c : /\ old = operation[o] /\ key = NextKey(o)
                             /\ op = Acquired(old, key) /\ c = old.conn
  BY Zenon
<1>2. /\ old \in OpType /\ OpSteps(old) /\ old.at = "locking" /\ old.todo \in SUBSET LockKeys
  BY Zenon, <1>1, OperationFacts, OpFields DEF acquire
<1>3. old.todo # {} /\ c # NoConn
  BY Zenon, <1>1, <1>2 DEF OpSteps
<1>4. key \in old.todo /\ key \in LockKeys
  BY Zenon, <1>1, <1>2, <1>3, NextIsLeft DEF NextKey
<1>5. /\ c \in Conns /\ conns[c].user = o /\ conns[c].locks \in [LockKeys -> Nat]
      /\ \A k \in LockKeys : /\ IsFiniteSet(Calls(old, k))
                             /\ conns[c].locks[k] = Cardinality(Calls(old, k))
  BY Zenon, <1>1, <1>3, OperationFacts
<1>6. PICK n : n = Len(old.grants) + 1
  BY Zenon
<1>7. /\ op \in OpType /\ OpSteps(op) /\ op.conn = old.conn
      /\ n \notin Calls(old, key) /\ Calls(op, key) = Calls(old, key) \cup {n}
      /\ \A k \in LockKeys \ {key} : Calls(op, k) = Calls(old, k)
  <2>1. op = Acquired(old, key)
    BY Zenon, <1>1
  <2>2. LET m == Len(old.grants) + 1 IN
        /\ op \in OpType /\ OpSteps(op) /\ op.conn = old.conn
        /\ m \notin Calls(old, key) /\ Calls(op, key) = Calls(old, key) \cup {m}
        /\ \A k \in LockKeys \ {key} : Calls(op, k) = Calls(old, k)
    BY <1>2, <1>4, <2>1, AcquiredCalls
  <2> QED
    BY Zenon, <1>6, <2>2
<1>8. PICK more : more = conns[c].locks[key] + 1
  BY Zenon
<1>9. more \in Nat
  BY <1>4, <1>5, <1>8
<1>10. PICK locks : locks = [conns[c].locks EXCEPT ![key] = more]
  BY Zenon
<1>11. /\ locks \in [LockKeys -> Nat] /\ locks[key] = more
       /\ \A k \in LockKeys \ {key} : locks[k] = conns[c].locks[k]
  BY Zenon, <1>4, <1>5, <1>9, <1>10
<1>12. conns \in [Conns -> [user : LockOps \cup {NoOp}, locks : [LockKeys -> Nat]]]
  BY Zenon DEF LInv, ConnInv
<1>13. conns' = [conns EXCEPT ![c] = [user |-> o, locks |-> locks]]
  <2>1. conns' = [conns EXCEPT ![c].locks[key] = more]
    BY Zenon, <1>1, <1>8 DEF acquire
  <2>2. conns' = [conns EXCEPT ![c] = [conns[c] EXCEPT !.locks = locks]]
    BY Zenon, <1>10, <2>1
  <2>3. [conns[c] EXCEPT !.locks = locks] = [user |-> o, locks |-> locks]
    <3>1. conns[c] \in [user : LockOps \cup {NoOp}, locks : [LockKeys -> Nat]]
      BY Zenon, <1>5, <1>12
    <3>2. conns[c].user = o
      BY Zenon, <1>5
    <3> QED
      BY <3>1, <3>2
  <2> QED
    BY Zenon, <2>2, <2>3
<1>14. operation' = [operation EXCEPT ![o] = op]
  BY Zenon, <1>1 DEF acquire
<1>15. ASSUME NEW k \in LockKeys
       PROVE  IsFiniteSet(Calls(op, k)) /\ locks[k] = Cardinality(Calls(op, k))
  <2>1. CASE k = key
    <3>1. /\ IsFiniteSet(Calls(old, key) \cup {n})
          /\ Cardinality(Calls(old, key) \cup {n}) = Cardinality(Calls(old, key)) + 1
      BY Zenon, <1>4, <1>5, <1>7, FS_AddElement
    <3> QED
      BY Zenon, <1>4, <1>5, <1>7, <1>8, <1>11, <2>1, <3>1
  <2>2. CASE k # key
    BY Zenon, <1>5, <1>7, <1>11, <2>2
  <2> QED
    BY Zenon, <2>1, <2>2
<1>16. ASSUME NEW d \in Conns, d # c PROVE ~(conns[d].locks[key] > 0)
  <2>1. CASE conns[d].user = NoOp
    <3>1. conns[d].locks = NoLocks
      BY Zenon, <2>1 DEF LInv, ConnInv
    <3>2. ~(NoLocks[key] > 0)
      BY <1>4 DEF NoLocks
    <3> QED
      BY Zenon, <3>1, <3>2
  <2>2. CASE conns[d].user # NoOp
    <3>1. PICK p \in LockOps : p = conns[d].user
      BY Zenon, <1>12, <2>2
    <3>2. operation[p].conn = d
      BY Zenon, <2>2, <3>1 DEF LInv, ConnInv
    <3>3. d # NoConn
      BY Zenon, NoConnection
    <3>4. ~Blocks(p, o)
      BY Zenon, <3>1 DEF acquire
    <3> QED
      BY Zenon, <1>1, <1>2, <1>16, <3>2, <3>3, <3>4 DEF Blocks, SessionActive
  <2> QED
    BY Zenon, <2>1, <2>2
<1>17. Grantable(c, locks)
  BY Zenon, <1>11, <1>16 DEF Grantable
<1>18. operation[o].conn \in {c, NoConn} /\ conns[c].user \in {o, NoOp} /\ op.conn = c
  BY Zenon, <1>1, <1>5, <1>7
<1>19. Serves(op, o, c, o, locks)
  BY Zenon, <1>15, <1>18 DEF Serves
<1> QED
  BY Zenon, <1>5, <1>7, <1>11, <1>13, <1>14, <1>17, <1>18, <1>19, OneConnection

\* A discarded connection comes back without locks, and its operation unwinds.
LEMMA DiscardStep ==
    ASSUME LInv, NEW o \in LockOps, operation[o].conn # NoConn, NEW q \in OpType,
           q.conn = NoConn, operation' = [operation EXCEPT ![o] = Unwind(q)], Discard(o)
    PROVE  LInv'
<1>1. PICK op, c : op = Unwind(q) /\ c = operation[o].conn
  BY Zenon
<1>2. op \in OpType /\ OpSteps(op) /\ op.conn = NoConn
  BY Zenon, <1>1, UnwindSteps
<1>3. c \in Conns /\ conns[c].user = o
  BY Zenon, <1>1, OperationFacts
<1>4. NoLocks \in [LockKeys -> Nat] /\ \A k \in LockKeys : ~(NoLocks[k] > 0)
  BY DEF NoLocks
<1>5. Serves(op, o, c, NoOp, NoLocks) /\ Grantable(c, NoLocks)
  BY Zenon, <1>2, <1>4 DEF Serves, Grantable
<1>6. /\ conns' = [conns EXCEPT ![c] = [user |-> NoOp, locks |-> NoLocks]]
      /\ operation' = [operation EXCEPT ![o] = op]
      /\ operation[o].conn \in {c, NoConn} /\ conns[c].user \in {o, NoOp}
  BY Zenon, <1>1, <1>3 DEF Discard
<1> QED
  BY Zenon, <1>2, <1>3, <1>4, <1>5, <1>6, OneConnection

\* unlock: the connection goes back to the pool with its last lock.
LEMMA UnlockStep ==
    ASSUME LInv, NEW o \in LockOps, unlock(o)
    PROVE  LInv'
<1>1. PICK old, key, c, closes :
        /\ old = operation[o] /\ key = Max(old.todo) /\ c = old.conn
        /\ closes = Closes(old, key)
  BY Zenon
<1>2. PICK op : op = Unlocked(old, key)
  BY Zenon
<1>3. /\ old.at = "unlocking" /\ operation' = [operation EXCEPT ![o] = op]
      /\ conns' = [conns EXCEPT ![c].locks[key] = @ - 1,
                                ![c].user = IF closes THEN NoOp ELSE @]
  BY Zenon, <1>1, <1>2 DEF unlock, Unlocked, Closes
<1>4. old \in OpType /\ OpSteps(old) /\ old.todo \in SUBSET LockKeys
  BY Zenon, <1>1, OperationFacts, OpFields
<1>5. old.todo # {} /\ c # NoConn
  BY Zenon, <1>1, <1>3, <1>4 DEF OpSteps
<1>6. key \in old.todo /\ key \in LockKeys
  BY Zenon, <1>1, <1>4, <1>5, NextIsLeft
<1>7. /\ c \in Conns /\ conns[c].user = o /\ conns[c].locks \in [LockKeys -> Nat]
      /\ \A k \in LockKeys : /\ IsFiniteSet(Calls(old, k))
                             /\ conns[c].locks[k] = Cardinality(Calls(old, k))
  BY Zenon, <1>1, <1>5, OperationFacts
<1>8. PICK n : n = Len(old.grants)
  BY Zenon
<1>9. /\ op \in OpType /\ OpSteps(op) /\ op.conn = IF closes THEN NoConn ELSE c
      /\ n \in Calls(old, key) /\ Calls(op, key) = Calls(old, key) \ {n}
      /\ \A k \in LockKeys \ {key} : Calls(op, k) = Calls(old, k)
      /\ closes => \A k \in LockKeys : Calls(op, k) = {}
  <2>1. closes = Closes(old, key)
    BY Zenon, <1>1
  <2>2. LET m == Len(old.grants) IN
        /\ op \in OpType /\ OpSteps(op) /\ op.conn = IF closes THEN NoConn ELSE old.conn
        /\ m \in Calls(old, key) /\ Calls(op, key) = Calls(old, key) \ {m}
        /\ \A k \in LockKeys \ {key} : Calls(op, k) = Calls(old, k)
        /\ closes => \A k \in LockKeys : Calls(op, k) = {}
    BY <1>2, <1>3, <1>4, <1>6, <2>1, UnlockedCalls
  <2> QED
    BY Zenon, <1>1, <1>8, <2>2
<1>10. PICK less, user : less = conns[c].locks[key] - 1 /\ user = IF closes THEN NoOp ELSE o
  BY Zenon
<1>11. /\ IsFiniteSet(Calls(op, key)) /\ less = Cardinality(Calls(op, key)) /\ less \in Nat
       /\ conns[c].locks[key] > 0
  <2>1. /\ IsFiniteSet(Calls(old, key) \ {n})
        /\ Cardinality(Calls(old, key) \ {n}) = Cardinality(Calls(old, key)) - 1
    BY Zenon, <1>6, <1>7, <1>9, FS_RemoveElement
  <2>2. IsFiniteSet(Calls(op, key)) /\ less = Cardinality(Calls(op, key))
    BY Zenon, <1>6, <1>7, <1>9, <1>10, <2>1
  <2>3. less \in Nat /\ conns[c].locks[key] \in Nat
    BY Zenon, <1>6, <1>7, <2>2, FS_CardinalityType
  <2>4. conns[c].locks[key] > 0
    BY <1>10, <2>3
  <2> QED
    BY Zenon, <2>2, <2>3, <2>4
<1>12. PICK locks : locks = [conns[c].locks EXCEPT ![key] = less]
  BY Zenon
<1>13. /\ locks \in [LockKeys -> Nat] /\ locks[key] = less
       /\ \A k \in LockKeys \ {key} : locks[k] = conns[c].locks[k]
  BY Zenon, <1>6, <1>7, <1>11, <1>12
<1>14. conns' = [conns EXCEPT ![c] = [user |-> user, locks |-> locks]]
  <2>1. conns \in [Conns -> [user : LockOps \cup {NoOp}, locks : [LockKeys -> Nat]]]
    BY Zenon DEF LInv, ConnInv
  <2>2. conns[c] \in [user : LockOps \cup {NoOp}, locks : [LockKeys -> Nat]] /\ conns[c].user = o
    BY Zenon, <1>7, <2>1
  <2>3. PICK row : row = [conns[c] EXCEPT !.locks = locks]
    BY Zenon
  <2>4. PICK mid : mid = [conns EXCEPT ![c] = row]
    BY Zenon
  <2>5. mid[c] = row /\ row.user = o
    BY Zenon, <1>7, <2>1, <2>2, <2>3, <2>4
  <2>6. conns' = [mid EXCEPT ![c].user = IF closes THEN NoOp ELSE @]
    BY Zenon, <1>3, <1>10, <1>12, <2>3, <2>4
  <2>7. conns' = [mid EXCEPT ![c] = [row EXCEPT !.user = user]]
    BY Zenon, <1>10, <2>5, <2>6
  <2>8. [row EXCEPT !.user = user] = [user |-> user, locks |-> locks]
    <3>1. row = [user |-> o, locks |-> locks]
      BY <2>2, <2>3
    <3> QED
      BY <3>1
  <2>9. [mid EXCEPT ![c] = [user |-> user, locks |-> locks]]
          = [conns EXCEPT ![c] = [user |-> user, locks |-> locks]]
    BY Zenon, <2>1, <2>4
  <2> QED
    BY Zenon, <2>7, <2>8, <2>9
<1>15. ASSUME NEW k \in LockKeys
       PROVE  IsFiniteSet(Calls(op, k)) /\ locks[k] = Cardinality(Calls(op, k))
  BY Zenon, <1>7, <1>9, <1>11, <1>13
<1>16. Serves(op, o, c, user, locks)
  <2>1. CASE closes
    <3>1. \A k \in LockKeys : locks[k] = 0
      BY Zenon, <1>9, <1>15, <2>1, FS_EmptySet
    <3>2. locks = NoLocks
      BY Zenon, <1>13, <3>1 DEF NoLocks
    <3> QED
      BY Zenon, <1>9, <1>10, <2>1, <3>2 DEF Serves
  <2>2. CASE ~closes
    BY Zenon, <1>9, <1>10, <1>15, <2>2 DEF Serves
  <2> QED
    BY Zenon, <2>1, <2>2
<1>17. Grantable(c, locks)
  BY Zenon, <1>11, <1>13 DEF Grantable
<1>18. operation[o].conn \in {c, NoConn} /\ conns[c].user \in {o, NoOp}
  BY Zenon, <1>1, <1>7
<1> QED
  BY Zenon, <1>3, <1>7, <1>9, <1>13, <1>14, <1>16, <1>17, <1>18, OneConnection

\* The operation is over, or its call failed before it had a connection.
LEMMA EndStep ==
    ASSUME LInv, NEW o \in LockOps, OpenFails(o) \/ EndLockedOperation(o)
    PROVE  LInv'
<1>1. PICK old : old = operation[o]
  BY Zenon
<1>2. /\ old \in OpType /\ OpSteps(old) /\ old.at \in {"opening", "running"}
      /\ operation' = [operation EXCEPT ![o] = Unwind(old)] /\ conns' = conns
  BY Zenon, <1>1, OperationFacts DEF OpenFails, EndLockedOperation
<1>3. old.conn # NoConn => /\ old.refs = Len(old.grants) /\ old.grants # <<>>
                           /\ old.at \notin {"locking", "unlocking"}
  BY Zenon, <1>2 DEF OpSteps
<1> QED
  BY Zenon, <1>1, <1>2, <1>3, UnwindStep

\* A release begins, or is dropped with the closed session it belongs to.
LEMMA ReleaseStep ==
    ASSUME LInv, NEW o \in LockOps, release(o)
    PROVE  LInv'
<1>1. PICK old : old = operation[o]
  BY Zenon
<1>2. old \in OpType /\ OpSteps(old) /\ old.at = "unwinding" /\ conns' = conns
  BY Zenon, <1>1, OperationFacts DEF release
<1>3. old.grants # <<>> /\ old.grants \in Seq(KeySets)
  BY Zenon, <1>2, OpFields DEF OpSteps
<1>4. /\ Front(old.grants) \in Seq(KeySets) /\ Last(old.grants) \in KeySets
      /\ Last(old.grants) = old.grants[Len(old.grants)]
  BY Zenon, <1>3, FrontFields
<1>5. CASE old.conn # NoConn
  <2>1. PICK op : op = [old EXCEPT !.at = "unlocking", !.todo = Last(old.grants)]
    BY Zenon
  <2>2. operation' = [operation EXCEPT ![o] = op]
    BY Zenon, <1>1, <1>5, <2>1 DEF release, SessionActive
  <2>3. /\ op \in OpType /\ op.at = "unlocking" /\ op.todo = Last(old.grants)
        /\ op.need = old.need /\ op.grants = old.grants /\ op.refs = old.refs
        /\ op.conn = old.conn
    <3>1. "unlocking" \in Statuses /\ Last(old.grants) \in SUBSET LockKeys
      BY Zenon, <1>4 DEF Statuses, KeySets
    <3> QED
      BY Zenon, <1>2, <2>1, <3>1 DEF OpType
  <2>4. OpSteps(op)
    <3>1. Last(old.grants) # {}
      BY Zenon, <1>4 DEF KeySets
    <3>2. old.refs = Len(old.grants)
      BY Zenon, <1>2, <1>5 DEF OpSteps
    <3> QED
      BY Zenon, <1>3, <1>4, <1>5, <2>3, <3>1, <3>2 DEF OpSteps
  <2>5. ASSUME NEW k \in LockKeys PROVE Calls(op, k) = Calls(old, k)
    <3>1. old.at \notin {"locking", "unlocking"}
      BY Zenon, <1>2
    <3>2. op.at = "unlocking" /\ op.todo = op.grants[Len(op.grants)]
      BY Zenon, <1>4, <2>3
    <3> QED
      BY Zenon, <1>2, <2>3, <3>1, <3>2, CallsBegin
  <2> QED
    BY Zenon, <1>1, <1>2, <2>2, <2>3, <2>4, <2>5, SameConnection
<1>6. CASE old.conn = NoConn
  <2>1. PICK q : q = [old EXCEPT !.grants = Front(old.grants)]
    BY Zenon
  <2>2. operation' = [operation EXCEPT ![o] = Unwind(q)]
    BY Zenon, <1>1, <1>6, <2>1 DEF release, SessionActive
  <2>3. q \in OpType /\ q.conn = NoConn
    BY Zenon, <1>2, <1>4, <1>6, <2>1 DEF OpType
  <2> QED
    BY Zenon, <1>1, <1>2, <1>6, <2>2, <2>3, UnwindStep
<1> QED
  BY Zenon, <1>5, <1>6

\* A failed statement, or a deadlock, discards the session.
LEMMA FailedLockStep ==
    ASSUME LInv, NEW o \in LockOps, AcquireFails(o) \/ UnlockFails(o)
    PROVE  LInv'
<1>1. PICK old : old = operation[o]
  BY Zenon
<1>2. /\ old \in OpType /\ OpSteps(old) /\ old.grants \in Seq(KeySets)
  BY Zenon, <1>1, OperationFacts, OpFields
<1>3. NoConn \in Conns \cup {NoConn}
  BY Zenon
<1>4. CASE AcquireFails(o)
  <2>1. PICK q : q = [old EXCEPT !.conn = NoConn]
    BY Zenon
  <2>2. /\ operation' = [operation EXCEPT ![o] = Unwind(q)] /\ Discard(o)
        /\ old.at = "locking"
    BY Zenon, <1>1, <1>4, <2>1 DEF AcquireFails
  <2>3. q \in OpType /\ q.conn = NoConn
    BY Zenon, <1>2, <1>3, <2>1 DEF OpType
  <2>4. operation[o].conn # NoConn
    BY Zenon, <1>1, <1>2, <2>2 DEF OpSteps
  <2> QED
    BY Zenon, <2>2, <2>3, <2>4, DiscardStep
<1>5. CASE UnlockFails(o)
  <2>1. PICK q : q = [old EXCEPT !.grants = Front(old.grants), !.conn = NoConn]
    BY Zenon
  <2>2. /\ operation' = [operation EXCEPT ![o] = Unwind(q)] /\ Discard(o)
        /\ old.at = "unlocking"
    BY Zenon, <1>1, <1>5, <2>1 DEF UnlockFails
  <2>3. operation[o].conn # NoConn /\ old.grants # <<>>
    BY Zenon, <1>1, <1>2, <2>2 DEF OpSteps
  <2>4. Front(old.grants) \in Seq(KeySets)
    BY Zenon, <1>2, <2>3, FrontFields
  <2>5. q \in OpType /\ q.conn = NoConn
    BY Zenon, <1>2, <1>3, <2>1, <2>4 DEF OpType
  <2> QED
    BY Zenon, <2>2, <2>3, <2>5, DiscardStep
<1> QED
  BY Zenon, <1>4, <1>5

\* Every step preserves the invariant.
LEMMA LockNextStep == LInv /\ [LockNext]_lockVars => LInv'
<1> SUFFICES ASSUME LInv, [LockNext]_lockVars PROVE LInv'
  BY Zenon
<1>1. CASE UNCHANGED lockVars
  BY Zenon, <1>1 DEF lockVars, LInv, OpInv, ConnInv, LocksCounted, KeysExclude, SessionActive
<1>2. ASSUME NEW o \in LockOps, NEW need \in NestingsOf[o], StartLockedOperation(o, need)
      PROVE  LInv'
  BY Zenon, <1>2, StartStep DEF Nestings
<1>3. ASSUME NEW o \in LockOps, LockSteps(o) PROVE LInv'
  BY Zenon, <1>3, CallStep, OpenStep, AcquireStep, EndStep, ReleaseStep, UnlockStep DEF LockSteps
<1>4. ASSUME NEW o \in LockOps, OpenFails(o) \/ AcquireFails(o) \/ UnlockFails(o) PROVE LInv'
  BY Zenon, <1>4, EndStep, FailedLockStep
<1> QED
  BY Zenon, <1>1, <1>2, <1>3, <1>4 DEF LockNext

\* In the beginning no operation runs and no connection is used.
LEMMA LocksBegin == LockInit => LInv
<1> SUFFICES ASSUME LockInit PROVE LInv
  BY Zenon
<1>1. Idle \in OpType /\ Idle.at = "idle" /\ Idle.conn = NoConn
  <2>1. <<>> \in Seq(KeySets) /\ 0 \in Nat
    OBVIOUS
  <2> QED
    BY Zenon, <2>1 DEF Idle, OpType, Statuses
<1>2. OpSteps(Idle)
  BY Zenon, <1>1 DEF OpSteps
<1>3. operation \in [LockOps -> OpType] /\ \A o \in LockOps : operation[o] = Idle
  BY Zenon, <1>1 DEF LockInit
<1>4. NoLocks \in [LockKeys -> Nat] /\ \A k \in LockKeys : ~(NoLocks[k] > 0)
  BY DEF NoLocks
<1>5. PICK row : row = [user |-> NoOp, locks |-> NoLocks]
  BY Zenon
<1>6. /\ row \in [user : LockOps \cup {NoOp}, locks : [LockKeys -> Nat]]
      /\ row.user = NoOp /\ row.locks = NoLocks
  BY Zenon, <1>4, <1>5
<1>7. /\ conns \in [Conns -> [user : LockOps \cup {NoOp}, locks : [LockKeys -> Nat]]]
      /\ \A c \in Conns : conns[c] = row
  BY Zenon, <1>5, <1>6 DEF LockInit
<1>8. OpInv
  BY Zenon, <1>2, <1>3 DEF OpInv
<1>9. ConnInv
  BY Zenon, <1>1, <1>3, <1>6, <1>7 DEF ConnInv, SessionActive
<1>10. LocksCounted
  BY Zenon, <1>1, <1>3 DEF LocksCounted, SessionActive
<1>11. KeysExclude
  BY Zenon, <1>4, <1>6, <1>7 DEF KeysExclude
<1> QED
  BY Zenon, <1>8, <1>9, <1>10, <1>11 DEF LInv

\* The inductive invariant of the lock sessions.
THEOREM LockInvariant == LockSpec => []LInv
  BY LocksBegin, LockNextStep, PTL DEF LockSpec

\* The keys of a call that has not released are locked by the connection of
\* its operation and by no other, and an idle connection holds no lock: for
\* any number of processes, operations, keys, nestings and connections.
THEOREM LocksAreProtected == LockSpec => []LocksProtect
<1>1. LInv => LocksProtect
  <2> SUFFICES ASSUME LInv PROVE LocksProtect
    BY Zenon
  <2>1. ASSUME NEW o \in LockOps, NEW i \in LiveGrants(o), NEW k \in operation[o].grants[i],
               NEW c \in Conns
        PROVE  (conns[c].locks[k] > 0) = (c = operation[o].conn)
    <3>1. PICK op, d : op = operation[o] /\ d = op.conn
      BY Zenon
    <3>2. /\ d # NoConn /\ i \in DOMAIN op.grants
          /\ op.at = "unlocking" => i # Len(op.grants)
      BY Zenon, <2>1, <3>1 DEF LiveGrants, SessionActive
    <3>3. op \in OpType /\ op.grants \in Seq(KeySets) /\ Len(op.grants) \in Nat
      BY Zenon, <3>1, OperationFacts, OpFields
    <3>4. /\ i \in 1 .. Len(op.grants) /\ i <= Len(op.grants) /\ i \in 1 .. Len(op.grants) + 1
      BY <3>2, <3>3
    <3>5. k \in op.grants[i] /\ k \in LockKeys
      <4>1. op.grants[i] \in KeySets
        BY Zenon, <3>3, <3>4, OpFields
      <4> QED
        BY Zenon, <2>1, <3>1, <4>1 DEF KeySets
    <3>6. i \in Calls(op, k)
      BY Zenon, <3>2, <3>4, <3>5 DEF Calls
    <3>7. d \in Conns /\ IsFiniteSet(Calls(op, k)) /\ conns[d].locks[k] = Cardinality(Calls(op, k))
      BY Zenon, <3>1, <3>2, <3>5, OperationFacts
    <3>8. Cardinality(Calls(op, k)) \in Nat /\ Cardinality(Calls(op, k)) # 0
      BY Zenon, <3>6, <3>7, FS_CardinalityType, FS_EmptySet
    <3>9. conns[d].locks[k] > 0
      BY <3>7, <3>8
    <3>10. conns[c].locks[k] > 0 => c = d
      BY Zenon, <3>5, <3>7, <3>9 DEF LInv, KeysExclude
    <3> QED
      BY <3>1, <3>9, <3>10
  <2>2. \A c \in Conns : conns[c].user = NoOp => conns[c].locks = NoLocks
    BY Zenon DEF LInv, ConnInv
  <2> QED
    BY Zenon, <2>1, <2>2 DEF LocksProtect
<1> QED
  BY <1>1, LockInvariant, PTL
-----------------------------------------------------------------------------
(* Advisory locks: nobody is stuck                                         *)

\* What an operation has been granted is the beginning of what it needs, and
\* its session has never counted more calls than it makes.
OpPlan(op) ==
    /\ op.need \in Nestings \cup {<<>>} /\ op.refs <= Len(op.need)
    /\ Len(op.grants) <= Len(op.need)
    /\ \A i \in 1 .. Len(op.grants) : op.grants[i] = op.need[i]

PlanKept == (\A o \in LockOps : OpPlan(operation[o])) /\ faults \in 0 .. LockFaults

\* The steps of an operation that grant nothing, or take a grant back.
LEMMA PlanShrinks ==
    ASSUME NEW op \in OpType, OpPlan(op), NEW q \in OpType, q.need = op.need,
           q.refs <= op.refs, q.grants = op.grants \/ (op.grants # <<>> /\ q.grants = Front(op.grants))
    PROVE  OpPlan(q)
<1>1. /\ op.need \in Seq(KeySets) /\ op.grants \in Seq(KeySets) /\ q.refs \in Nat /\ op.refs \in Nat
      /\ Len(op.grants) \in Nat /\ Len(op.need) \in Nat
  BY Zenon, OpFields
<1>2. CASE q.grants = op.grants
  BY <1>1, <1>2 DEF OpPlan
<1>3. CASE op.grants # <<>> /\ q.grants = Front(op.grants)
  <2>1. /\ Len(q.grants) = Len(op.grants) - 1
        /\ \A i \in 1 .. Len(q.grants) : q.grants[i] = op.grants[i]
    BY Zenon, <1>1, <1>3, FrontFields
  <2>2. q.refs <= Len(op.need) /\ Len(q.grants) <= Len(op.need)
    BY <1>1, <2>1 DEF OpPlan
  <2>3. \A i \in 1 .. Len(q.grants) : i \in 1 .. Len(op.grants)
    BY <1>1, <2>1
  <2> QED
    BY Zenon, <2>1, <2>2, <2>3 DEF OpPlan
<1> QED
  BY Zenon, <1>2, <1>3

\* Unwinding changes neither the plan of an operation nor what it was granted.
LEMMA UnwindPlan ==
    ASSUME NEW q \in OpType, NEW op, op = Unwind(q)
    PROVE  op.need = q.need /\ op.refs = q.refs /\ op.grants = q.grants
<1>1. PICK at : op = [q EXCEPT !.at = at, !.todo = {}]
  BY Zenon DEF Unwind
<1> QED
  BY Zenon, <1>1 DEF OpType

\* A step of operation o that keeps its plan keeps them all.
LEMMA OnePlan ==
    ASSUME LInv, PlanKept, NEW o \in LockOps, NEW op, OpPlan(op),
           operation' = [operation EXCEPT ![o] = op], faults' \in {faults, faults - 1},
           faults' = faults \/ faults > 0
    PROVE  PlanKept'
<1>1. operation \in [LockOps -> OpType]
  BY Zenon DEF LInv, OpInv
<1>2. \A p \in LockOps : operation'[p] = IF p = o THEN op ELSE operation[p]
  BY Zenon, <1>1
<1>3. \A p \in LockOps : OpPlan(operation'[p])
  BY Zenon, <1>2 DEF PlanKept
<1>4. faults' \in 0 .. LockFaults
  BY LockAssumption DEF PlanKept
<1> QED
  BY Zenon, <1>3, <1>4 DEF PlanKept

\* An operation starts with one of the nestings.
LEMMA StartKeepsPlan ==
    ASSUME LInv, PlanKept, NEW o \in LockOps, NEW need \in Nestings, StartLockedOperation(o, need)
    PROVE  PlanKept'
<1>1. PICK op : op = [Idle EXCEPT !.at = "running", !.need = need]
  BY Zenon
<1>2. op.need = need /\ op.grants = <<>> /\ op.refs = 0
  BY Zenon, <1>1 DEF Idle
<1>3. Len(need) \in Nat
  BY LockAssumption
<1>4. OpPlan(op)
  BY <1>2, <1>3 DEF OpPlan
<1> QED
  BY Zenon, <1>1, <1>4, OnePlan DEF StartLockedOperation

\* A call that begins or opens a session, an operation that ends, a release that
\* begins, and an open that fails grant nothing.
LEMMA QuietPlan ==
    ASSUME LInv, PlanKept, NEW o \in LockOps,
           \/ lockPostgresAdvisoryKeys(o) \/ newPostgresAdvisoryLockSession(o)
           \/ EndLockedOperation(o) \/ OpenFails(o) \/ AcquireFails(o)
    PROVE  PlanKept'
<1>1. PICK old : old = operation[o]
  BY Zenon
<1>2. old \in OpType /\ old.refs \in Nat /\ OpPlan(old) /\ Len(old.need) \in Nat
  BY Zenon, <1>1, OperationFacts, OpFields DEF PlanKept
<1>3. operation \in [LockOps -> OpType]
  BY Zenon DEF LInv, OpInv
<1>4. 0 <= Len(old.need)
  BY <1>2
<1>5. PICK q : /\ q.need = old.need /\ q.grants = old.grants /\ q.refs \in {old.refs, 0}
               /\ operation' = [operation EXCEPT ![o] = q]
               /\ faults' \in {faults, faults - 1} /\ (faults' = faults \/ faults > 0)
  <2>1. CASE lockPostgresAdvisoryKeys(o)
    <3>1. PICK at, todo : operation' = [operation EXCEPT ![o].at = at, ![o].todo = todo]
      BY Zenon, <2>1 DEF lockPostgresAdvisoryKeys
    <3>2. PICK q : q = [[old EXCEPT !.at = at] EXCEPT !.todo = todo]
      BY Zenon
    <3>3. operation' = [operation EXCEPT ![o] = q]
      BY Zenon, <1>1, <1>3, <3>1, <3>2
    <3>4. q.need = old.need /\ q.grants = old.grants /\ q.refs = old.refs
      BY Zenon, <1>2, <3>2 DEF OpType
    <3> QED
      BY Zenon, <2>1, <3>3, <3>4 DEF lockPostgresAdvisoryKeys
  <2>2. CASE newPostgresAdvisoryLockSession(o)
    <3>1. PICK c : operation' = [operation EXCEPT ![o].at = "locking", ![o].conn = c, ![o].refs = 0]
      BY Zenon, <2>2 DEF newPostgresAdvisoryLockSession
    <3>2. PICK q : q = [[[old EXCEPT !.at = "locking"] EXCEPT !.conn = c] EXCEPT !.refs = 0]
      BY Zenon
    <3>3. operation' = [operation EXCEPT ![o] = q]
      BY Zenon, <1>1, <1>3, <3>1, <3>2
    <3>4. q.need = old.need /\ q.grants = old.grants /\ q.refs = 0
      BY Zenon, <1>2, <3>2 DEF OpType
    <3> QED
      BY Zenon, <2>2, <3>3, <3>4 DEF newPostgresAdvisoryLockSession
  <2>3. CASE EndLockedOperation(o) \/ OpenFails(o)
    <3>1. operation' = [operation EXCEPT ![o] = Unwind(old)]
      BY Zenon, <1>1, <2>3 DEF EndLockedOperation, OpenFails
    <3> QED
      BY Zenon, <1>2, <2>3, <3>1, UnwindPlan DEF EndLockedOperation, OpenFails
  <2>4. CASE AcquireFails(o)
    <3>1. PICK q : q = [old EXCEPT !.conn = NoConn]
      BY Zenon
    <3>2. operation' = [operation EXCEPT ![o] = Unwind(q)]
      BY Zenon, <1>1, <2>4, <3>1 DEF AcquireFails
    <3>3. q \in OpType /\ q.need = old.need /\ q.grants = old.grants /\ q.refs = old.refs
      BY Zenon, <1>2, <3>1 DEF OpType
    <3> QED
      BY Zenon, <2>4, <3>2, <3>3, UnwindPlan DEF AcquireFails
  <2> QED
    BY Zenon, <2>1, <2>2, <2>3, <2>4
<1>6. OpPlan(q)
  BY Zenon, <1>2, <1>4, <1>5 DEF OpPlan
<1> QED
  BY Zenon, <1>5, <1>6, OnePlan

\* acquire grants the call the operation has asked for, with its last key.
LEMMA AcquirePlan ==
    ASSUME LInv, PlanKept, NEW o \in LockOps, acquire(o)
    PROVE  PlanKept'
<1>1. PICK old, key, n : old = operation[o] /\ key = NextKey(o) /\ n = Len(old.grants) + 1
  BY Zenon
<1>2. /\ old \in OpType /\ OpSteps(old) /\ old.refs \in Nat /\ OpPlan(old)
      /\ Len(old.need) \in Nat /\ Len(old.grants) \in Nat /\ old.at = "locking"
      /\ old.grants \in Seq(KeySets)
  BY Zenon, <1>1, OperationFacts, OpFields DEF PlanKept, acquire
<1>3. operation' = [operation EXCEPT ![o] = Acquired(old, key)] /\ faults' = faults
  BY Zenon, <1>1 DEF acquire
<1>4. CASE old.todo # {key}
  <2>1. PICK q : q = [old EXCEPT !.todo = @ \ {key}]
    BY Zenon
  <2>2. q.need = old.need /\ q.grants = old.grants /\ q.refs = old.refs
    BY Zenon, <1>2, <2>1 DEF OpType
  <2>3. operation' = [operation EXCEPT ![o] = q]
    BY Zenon, <1>3, <1>4, <2>1 DEF Acquired
  <2>4. OpPlan(q)
    BY Zenon, <1>2, <2>2 DEF OpPlan
  <2> QED
    BY Zenon, <1>3, <2>3, <2>4, OnePlan
<1>5. CASE old.todo = {key}
  <2>1. PICK q : q = [old EXCEPT !.at = "running", !.todo = {}, !.refs = @ + 1,
                                 !.grants = Append(@, old.need[Len(@) + 1])]
    BY Zenon
  <2>2. /\ q.need = old.need /\ q.refs = old.refs + 1
        /\ q.grants = Append(old.grants, old.need[n])
    BY Zenon, <1>1, <1>2, <2>1 DEF OpType
  <2>3. operation' = [operation EXCEPT ![o] = q]
    BY Zenon, <1>3, <1>5, <2>1 DEF Acquired
  <2>4. old.refs = Len(old.grants) /\ Len(old.grants) < Len(old.need)
    BY Zenon, <1>2 DEF OpSteps
  <2>5. /\ Len(q.grants) = n
        /\ \A i \in 1 .. n : q.grants[i] = IF i = n THEN old.need[n] ELSE old.grants[i]
    BY <1>1, <1>2, <2>2
  <2>6. n <= Len(old.need) /\ q.refs <= Len(old.need)
    BY <1>1, <1>2, <2>2, <2>4
  <2>7. \A i \in 1 .. n : i = n \/ i \in 1 .. Len(old.grants)
    BY <1>1, <1>2
  <2>8. OpPlan(q)
    BY Zenon, <1>2, <2>2, <2>5, <2>6, <2>7 DEF OpPlan
  <2> QED
    BY Zenon, <1>3, <2>3, <2>8, OnePlan
<1> QED
  BY Zenon, <1>4, <1>5

\* Releases take grants back, the last one first.
LEMMA ReleasePlan ==
    ASSUME LInv, PlanKept, NEW o \in LockOps, release(o) \/ unlock(o) \/ UnlockFails(o)
    PROVE  PlanKept'
<1>1. PICK old : old = operation[o]
  BY Zenon
<1>2. /\ old \in OpType /\ OpSteps(old) /\ old.refs \in Nat /\ OpPlan(old)
      /\ old.grants \in Seq(KeySets) /\ old.grants # <<>> /\ old.refs <= old.refs
  <2>1. /\ old \in OpType /\ OpSteps(old) /\ old.refs \in Nat /\ OpPlan(old)
        /\ old.grants \in Seq(KeySets)
    BY Zenon, <1>1, OperationFacts, OpFields DEF PlanKept
  <2>2. old.grants # <<>>
    BY Zenon, <1>1, <2>1 DEF OpSteps, release, unlock, UnlockFails
  <2> QED
    BY <2>1, <2>2
<1>3. Front(old.grants) \in Seq(KeySets) /\ NoConn \in Conns \cup {NoConn}
  BY Zenon, <1>2, FrontFields
<1>4. CASE release(o)
  <2>1. CASE old.conn # NoConn
    <3>1. PICK q : q = [old EXCEPT !.at = "unlocking", !.todo = Last(old.grants)]
      BY Zenon
    <3>2. q.need = old.need /\ q.grants = old.grants /\ q.refs = old.refs
      BY Zenon, <1>2, <3>1 DEF OpType
    <3>3. operation' = [operation EXCEPT ![o] = q] /\ faults' = faults
      BY Zenon, <1>1, <1>4, <2>1, <3>1 DEF release, SessionActive
    <3>4. OpPlan(q)
      BY Zenon, <1>2, <3>2 DEF OpPlan
    <3> QED
      BY Zenon, <3>3, <3>4, OnePlan
  <2>2. CASE old.conn = NoConn
    <3>1. PICK q : q = [old EXCEPT !.grants = Front(@)]
      BY Zenon
    <3>2. /\ q \in OpType /\ q.need = old.need /\ q.grants = Front(old.grants)
          /\ q.refs = old.refs
      BY Zenon, <1>2, <1>3, <3>1 DEF OpType
    <3>3. operation' = [operation EXCEPT ![o] = Unwind(q)] /\ faults' = faults
      BY Zenon, <1>1, <1>4, <2>2, <3>1 DEF release, SessionActive
    <3>4. OpPlan(q)
      BY Zenon, <1>2, <3>2, PlanShrinks
    <3>5. OpPlan(Unwind(q))
      BY Zenon, <3>2, <3>4, UnwindPlan DEF OpPlan
    <3> QED
      BY Zenon, <3>3, <3>5, OnePlan
  <2> QED
    BY Zenon, <2>1, <2>2
<1>5. CASE unlock(o)
  <2>1. PICK key, closes : key = Max(old.todo) /\ closes = (old.todo = {key} /\ ClosedAtZero(old))
    BY Zenon
  <2>2. CASE old.todo # {key}
    <3>1. PICK q : q = [old EXCEPT !.todo = @ \ {key}]
      BY Zenon
    <3>2. q.need = old.need /\ q.grants = old.grants /\ q.refs = old.refs
      BY Zenon, <1>2, <3>1 DEF OpType
    <3>3. operation' = [operation EXCEPT ![o] = q] /\ faults' = faults
      BY Zenon, <1>1, <1>5, <2>1, <2>2, <3>1 DEF unlock
    <3>4. OpPlan(q)
      BY Zenon, <1>2, <3>2 DEF OpPlan
    <3> QED
      BY Zenon, <3>3, <3>4, OnePlan
  <2>3. CASE old.todo = {key}
    <3>1. PICK q : q = [old EXCEPT !.refs = @ - 1, !.grants = Front(@),
                                   !.conn = IF closes THEN NoConn ELSE @]
      BY Zenon
    <3>2. old.conn # NoConn /\ old.refs = Len(old.grants) /\ old.at = "unlocking"
      BY Zenon, <1>1, <1>2, <1>5 DEF OpSteps, unlock
    <3>3. old.refs - 1 \in Nat /\ old.refs - 1 <= old.refs
      BY <1>2, <3>2
    <3>4. /\ q \in OpType /\ q.need = old.need /\ q.grants = Front(old.grants)
          /\ q.refs = old.refs - 1
      BY Zenon, <1>2, <1>3, <3>1, <3>3 DEF OpType
    <3>5. operation' = [operation EXCEPT ![o] = Unwind(q)] /\ faults' = faults
      BY Zenon, <1>1, <1>5, <2>1, <2>3, <3>1 DEF unlock
    <3>6. OpPlan(q)
      BY Zenon, <1>2, <3>3, <3>4, PlanShrinks
    <3>7. OpPlan(Unwind(q))
      BY Zenon, <3>4, <3>6, UnwindPlan DEF OpPlan
    <3> QED
      BY Zenon, <3>5, <3>7, OnePlan
  <2> QED
    BY Zenon, <2>2, <2>3
<1>6. CASE UnlockFails(o)
  <2>1. PICK q : q = [old EXCEPT !.grants = Front(old.grants), !.conn = NoConn]
    BY Zenon
  <2>2. /\ q \in OpType /\ q.need = old.need /\ q.grants = Front(old.grants)
        /\ q.refs = old.refs
    BY Zenon, <1>2, <1>3, <2>1 DEF OpType
  <2>3. operation' = [operation EXCEPT ![o] = Unwind(q)] /\ faults > 0 /\ faults' = faults - 1
    BY Zenon, <1>1, <1>6, <2>1 DEF UnlockFails
  <2>4. OpPlan(q)
    BY Zenon, <1>2, <2>2, PlanShrinks
  <2>5. OpPlan(Unwind(q))
    BY Zenon, <2>2, <2>4, UnwindPlan DEF OpPlan
  <2> QED
    BY Zenon, <2>3, <2>5, OnePlan
<1> QED
  BY Zenon, <1>4, <1>5, <1>6

\* Every operation follows its plan.
LEMMA PlansFollowed == LockSpec => [](LInv /\ PlanKept)
<1>1. LockInit => PlanKept
  <2> SUFFICES ASSUME LockInit PROVE PlanKept
    BY Zenon
  <2>1. \A o \in LockOps : operation[o] = Idle
    BY Zenon DEF LockInit
  <2>2. OpPlan(Idle)
    BY DEF OpPlan, Idle
  <2>3. faults \in 0 .. LockFaults
    BY LockAssumption DEF LockInit
  <2> QED
    BY Zenon, <2>1, <2>2, <2>3 DEF PlanKept
<1>2. LInv /\ PlanKept /\ [LockNext]_lockVars => PlanKept'
  <2> SUFFICES ASSUME LInv, PlanKept, [LockNext]_lockVars PROVE PlanKept'
    BY Zenon
  <2>1. CASE UNCHANGED lockVars
    BY Zenon, <2>1 DEF lockVars, PlanKept
  <2>2. ASSUME NEW o \in LockOps, NEW need \in NestingsOf[o], StartLockedOperation(o, need)
        PROVE  PlanKept'
    BY Zenon, <2>2, StartKeepsPlan DEF Nestings
  <2>3. ASSUME NEW o \in LockOps,
               LockSteps(o) \/ OpenFails(o) \/ AcquireFails(o) \/ UnlockFails(o)
        PROVE  PlanKept'
    BY Zenon, <2>3, QuietPlan, AcquirePlan, ReleasePlan DEF LockSteps
  <2> QED
    BY Zenon, <2>1, <2>2, <2>3 DEF LockNext
<1> QED
  BY <1>1, <1>2, LocksBegin, LockNextStep, PTL DEF LockSpec

\* An operation that cannot go on, but not for a call inside it, waits for a key
\* on its connection, or for a connection.
LEMMA ConnectedWaits ==
    ASSUME LInv, PlanKept, NEW o \in LockOps, ~CanGoOn(o), UnderWay(o), ~Calling(o)
    PROVE  \/ operation[o].at = "locking" /\ SessionActive(o)
           \/ operation[o].at = "opening" /\ ~SessionActive(o)
<1>1. PICK op : op = operation[o]
  BY Zenon
<1>2. /\ op \in OpType /\ OpSteps(op) /\ OpPlan(op) /\ op.at \in Statuses
      /\ op.grants \in Seq(KeySets) /\ op.need \in Seq(KeySets)
      /\ Len(op.grants) \in Nat /\ Len(op.need) \in Nat
  BY Zenon, <1>1, OperationFacts, OpFields DEF PlanKept
<1>3. op.at # "running"
  <2> SUFFICES ASSUME op.at = "running" PROVE FALSE
    BY Zenon
  <2>1. ~(Len(op.grants) < Len(op.need)) /\ op.grants # op.need
    BY Zenon, <1>1 DEF CanGoOn
  <2>2. Len(op.grants) = Len(op.need)
    BY <1>2, <2>1 DEF OpPlan
  <2>3. \A i \in 1 .. Len(op.grants) : op.grants[i] = op.need[i]
    BY Zenon, <1>2 DEF OpPlan
  <2>4. op.grants = op.need
    BY <1>2, <2>2, <2>3
  <2> QED
    BY Zenon, <2>1, <2>4
<1>4. op.at \in {"locking", "opening"}
  BY Zenon, <1>1, <1>2, <1>3 DEF CanGoOn, UnderWay, Statuses
<1> QED
  BY Zenon, <1>1, <1>2, <1>4 DEF OpSteps, SessionActive

\* A set of operations that each wait for another one of the set contains a
\* cycle: a least such set has nobody in it for whom nobody waits.
LEMMA WaitingSetsHaveCycles ==
    ASSUME NEW B \in SUBSET LockOps, B # {}, \A x \in B : \E y \in B : Blocks(y, x)
    PROVE  \E o \in B : Deadlocked(o)
<1> DEFINE Closed == {T \in SUBSET LockOps : T # {} /\ T \subseteq B
                                             /\ \A x \in T : \E y \in T : Blocks(y, x)}
<1>1. Closed \subseteq SUBSET LockOps /\ B \in Closed
  BY Zenon
<1>2. IsWellFoundedOn(StrictSubsetOrdering(LockOps), SUBSET LockOps)
  BY Zenon, LockAssumption, FS_StrictSubsetOrderingWellFounded, FS_FiniteSubsetsOfFinite
<1>3. PICK T \in Closed : \A U \in Closed : ~(<<U, T>> \in StrictSubsetOrdering(LockOps))
  <2> HIDE DEF Closed
  <2> QED
    BY Zenon, <1>1, <1>2, WFMin
<1>4. T \in SUBSET LockOps /\ T # {} /\ T \subseteq B /\ \A x \in T : \E y \in T : Blocks(y, x)
  BY Zenon
<1>5. ASSUME NEW x \in T PROVE \E y \in T : Blocks(x, y)
  <2> SUFFICES ASSUME \A y \in T : ~Blocks(x, y) PROVE FALSE
    BY Zenon
  <2>1. PICK U : U = T \ {x}
    BY Zenon
  <2>2. U \subseteq T /\ U # T /\ U \in SUBSET LockOps
    BY Zenon, <1>4, <2>1
  <2>3. <<U, T>> \in StrictSubsetOrdering(LockOps)
    BY Zenon, <1>4, <2>2 DEF StrictSubsetOrdering
  <2>4. PICK z \in T : Blocks(z, x)
    BY Zenon, <1>4
  <2>5. z # x
    BY Zenon, <2>4
  <2>6. \A v \in U : \E y \in U : Blocks(y, v)
    BY Zenon, <1>4, <2>1
  <2>7. U \in Closed
    BY Zenon, <1>4, <2>1, <2>2, <2>4, <2>5, <2>6
  <2> QED
    BY Zenon, <1>3, <2>3, <2>7
<1>6. PICK o \in T : TRUE
  BY Zenon, <1>4
<1>7. Deadlocked(o)
  BY Zenon, <1>4, <1>5, <1>6 DEF Deadlocked
<1> QED
  BY Zenon, <1>4, <1>6, <1>7

\* As long as an operation is under way, some operation can go on or PostgreSQL
\* sees a deadlock, unless a handler holds a connection and waits for a call it
\* made without the session's context: otherwise waiting for the pool, for calls
\* and for keys never close a circle that PostgreSQL cannot see, for any size of
\* the pools, any nestings and any order in which the calls of an operation lock.
THEOREM LocksNeverStuck == LockSpec => []CarriedNeverStuck
<1>1. LInv /\ PlanKept => CarriedNeverStuck
  <2> SUFFICES ASSUME LInv, PlanKept, \A o \in LockOps : ~HoldsAndWaits(o),
                      \E o \in LockOps : UnderWay(o), \A o \in LockOps : ~CanGoOn(o)
               PROVE  \E o \in LockOps : Deadlocked(o)
    BY Zenon DEF CarriedNeverStuck, NobodyStuck
  <2>0. PICK a \in LockOps : UnderWay(a) /\ ~Calling(a)
    <3>1. PICK S : S = {o \in LockOps : UnderWay(o)}
      BY Zenon
    <3>2. S \in SUBSET LockOps /\ S # {}
      BY Zenon, <3>1
    <3>3. PICK o \in S : \A p \in S : Within[p] # o
      BY Zenon, <3>2, WithinAssumption
    <3> QED
      BY Zenon, <3>1, <3>3 DEF Calling
  <2> DEFINE B == {o \in LockOps : operation[o].at = "locking" /\ SessionActive(o)}
  <2>1. ASSUME NEW p \in LockOps, SessionActive(p) PROVE p \in B
    <3>1. UnderWay(p) /\ ~Calling(p)
      BY Zenon, <2>1, OperationFacts DEF OpSteps, SessionActive, UnderWay, HoldsAndWaits
    <3> QED
      BY Zenon, <2>1, <3>1, ConnectedWaits
  <2>2. B # {}
    <3>1. CASE operation[a].at = "locking" /\ SessionActive(a)
      BY Zenon, <3>1
    <3>2. CASE operation[a].at = "opening"
      <4>1. PICK n : n = NodeOf[a]
        BY Zenon
      <4>2. n \in LockNodes /\ 1 \in 1 .. LockPoolSize
        BY <4>1, LockAssumption
      <4>3. PICK c : c = <<n, 1>>
        BY Zenon
      <4>4. c \in Conns /\ c[1] = NodeOf[a]
        BY Zenon, <4>1, <4>2, <4>3 DEF Conns
      <4>5. conns[c].user # NoOp
        BY Zenon, <3>2, <4>4 DEF CanGoOn
      <4>6. conns[c].user \in LockOps /\ operation[conns[c].user].conn = c
        BY Zenon, <4>4, <4>5 DEF LInv, ConnInv
      <4> QED
        BY Zenon, <2>1, <4>4, <4>6, NoConnection DEF SessionActive
    <3> QED
      BY Zenon, <2>0, <3>1, <3>2, ConnectedWaits
  <2>3. \A x \in B : \E y \in B : Blocks(y, x)
    <3> SUFFICES ASSUME NEW x \in B PROVE \E y \in B : Blocks(y, x)
      BY Zenon
    <3>1. PICK p \in LockOps : Blocks(p, x)
      BY Zenon DEF CanGoOn
    <3>2. SessionActive(p)
      BY Zenon, <3>1 DEF Blocks
    <3> QED
      BY Zenon, <2>1, <3>1, <3>2
  <2>4. B \in SUBSET LockOps
    BY Zenon
  <2> HIDE DEF B
  <2> QED
    BY Zenon, <2>2, <2>3, <2>4, WaitingSetsHaveCycles
<1> QED
  BY <1>1, PlansFollowed, PTL

\* The depth of the nestings is that of the deepest one.
LEMMA DepthBounds == Depth \in Nat /\ \A n \in Nestings \cup {<<>>} : Len(n) \in 0 .. Depth
<1>1. PICK S : S = {Len(n) : n \in Nestings}
  BY Zenon
<1>2. \A n \in Nestings : Len(n) \in Nat /\ Len(n) \in S
  BY LockAssumption, <1>1
<1>3. S \subseteq Nat /\ S # {} /\ IsFiniteSet(S)
  BY Zenon, LockAssumption, <1>1, <1>2
<1>4. \E x \in S : \A y \in S : x >= y
  <2>1. S \subseteq Int
    BY <1>3
  <2> QED
    BY Zenon, <1>3, <2>1, Extremes
<1>5. Depth \in S /\ \A y \in S : Depth >= y
  BY Zenon, <1>1, <1>4 DEF Depth, Max
<1>6. Len(<<>>) = 0 /\ Depth \in Nat
  BY <1>3, <1>5
<1>7. \A n \in Nestings : Len(n) \in 0 .. Depth
  BY <1>2, <1>5, <1>6
<1> QED
  BY <1>6, <1>7

\* What an operation has been granted is one of the beginnings of its plan.
LEMMA GrantsBegin ==
    ASSUME NEW op \in OpType, OpPlan(op)
    PROVE  /\ op.grants \in UNION {{SubSeq(n, 1, m) : m \in 0 .. Len(n)} : n \in Nestings}
           /\ op.refs \in 0 .. Depth /\ Len(op.need) <= Depth
<1>1. /\ op.need \in Seq(KeySets) /\ op.grants \in Seq(KeySets) /\ op.refs \in Nat
      /\ Len(op.grants) \in Nat /\ Len(op.need) \in Nat
  BY Zenon, OpFields
<1>2. /\ op.need \in Nestings \cup {<<>>} /\ op.refs <= Len(op.need)
      /\ Len(op.grants) <= Len(op.need)
      /\ \A i \in 1 .. Len(op.grants) : op.grants[i] = op.need[i]
  BY Zenon DEF OpPlan
<1>3. Len(op.need) \in 0 .. Depth /\ Depth \in Nat
  BY Zenon, <1>2, DepthBounds
<1>4. op.refs \in 0 .. Depth /\ Len(op.need) <= Depth
  BY <1>1, <1>2, <1>3
<1>5. CASE op.need = <<>>
  <2>1. PICK n \in Nestings : n \in Seq((SUBSET Int) \ {{}})
    BY Zenon, LockAssumption
  <2>2. op.grants = SubSeq(n, 1, 0) /\ 0 \in 0 .. Len(n)
    BY <1>1, <1>2, <1>5, <2>1
  <2>3. PICK B : B = {SubSeq(n, 1, j) : j \in 0 .. Len(n)}
    BY Zenon
  <2>4. op.grants \in B /\ B \in {{SubSeq(x, 1, j) : j \in 0 .. Len(x)} : x \in Nestings}
    BY Zenon, <2>1, <2>2, <2>3
  <2>5. op.grants \in UNION {{SubSeq(x, 1, j) : j \in 0 .. Len(x)} : x \in Nestings}
    BY Zenon, <2>4
  <2> QED
    BY Zenon, <1>4, <2>5
<1>6. CASE op.need \in Nestings
  <2>1. PICK m : m = Len(op.grants)
    BY Zenon
  <2>2. m \in 0 .. Len(op.need)
    BY <1>1, <1>2, <2>1
  <2>3. SubSeq(op.need, 1, m) = op.grants
    <3>1. SubSeq(op.need, 1, m) = [i \in 1 .. m |-> op.need[i]]
      BY <1>1, <2>2
    <3>2. op.grants = [i \in 1 .. m |-> op.grants[i]]
      BY <1>1, <2>1
    <3> QED
      BY Zenon, <1>2, <2>1, <3>1, <3>2
  <2>4. PICK B : B = {SubSeq(op.need, 1, j) : j \in 0 .. Len(op.need)}
    BY Zenon
  <2>5. op.grants \in B
    BY Zenon, <2>2, <2>3, <2>4
  <2>6. B \in {{SubSeq(n, 1, j) : j \in 0 .. Len(n)} : n \in Nestings}
    BY Zenon, <1>6, <2>4
  <2>7. op.grants \in UNION {{SubSeq(n, 1, j) : j \in 0 .. Len(n)} : n \in Nestings}
    BY Zenon, <2>5, <2>6
  <2> QED
    BY Zenon, <1>4, <2>7
<1> QED
  BY Zenon, <1>2, <1>5, <1>6

\* PostgreSQL never counts a key more often than calls can nest.
LEMMA CountsBounded ==
    ASSUME NEW op \in OpType, OpPlan(op), OpSteps(op), NEW k \in LockKeys,
           IsFiniteSet(Calls(op, k))
    PROVE  Cardinality(Calls(op, k)) \in 0 .. Depth
<1>1. /\ op.need \in Seq(KeySets) /\ op.grants \in Seq(KeySets)
      /\ Len(op.grants) \in Nat /\ Len(op.need) \in Nat
  BY Zenon, OpFields
<1>2. Len(op.need) \in Nat /\ Depth \in Nat /\ Len(op.need) <= Depth
  BY Zenon, <1>1, GrantsBegin, DepthBounds
<1>3. Calls(op, k) \subseteq 1 .. Len(op.need)
  <2>1. Len(op.grants) <= Len(op.need) /\ (op.at = "locking" => Len(op.grants) < Len(op.need))
    BY Zenon DEF OpPlan, OpSteps
  <2>2. ASSUME NEW i \in Calls(op, k) PROVE i \in 1 .. Len(op.need)
    <3>1. /\ i \in 1 .. Len(op.grants) + 1
          /\ i <= Len(op.grants) \/ op.at = "locking"
      BY Zenon, <2>2 DEF Calls
    <3> QED
      BY <1>1, <2>1, <3>1
  <2> QED
    BY Zenon, <2>2
<1>4. IsFiniteSet(1 .. Len(op.need)) /\ Cardinality(1 .. Len(op.need)) = Len(op.need)
  <2>1. \A a, b \in Int : IsFiniteSet(a .. b) /\ Cardinality(a .. b) = IF a > b THEN 0 ELSE b - a + 1
    BY Zenon, FS_Interval
  <2>2. PICK l \in Nat : l = Len(op.need)
    BY Zenon, <1>1
  <2>3. 1 \in Int /\ l \in Int /\ (IF 1 > l THEN 0 ELSE l - 1 + 1) = l
    OBVIOUS
  <2> QED
    BY Zenon, <2>1, <2>2, <2>3
<1>5. Cardinality(Calls(op, k)) <= Len(op.need) /\ Cardinality(Calls(op, k)) \in Nat
  BY Zenon, <1>3, <1>4, FS_Subset, FS_CardinalityType
<1> QED
  BY <1>2, <1>5

\* Operations, sessions and the locks PostgreSQL counts have their types.
THEOREM LockTypes == LockSpec => []LockTypeOK
<1>1. LInv /\ PlanKept => LockTypeOK
  <2> SUFFICES ASSUME LInv, PlanKept PROVE LockTypeOK
    BY Zenon
  <2>1. PICK T : T = [at : {"idle", "running", "opening", "locking", "unwinding", "unlocking", "done"},
          need : Nestings \cup {<<>>},
          grants : UNION {{SubSeq(n, 1, m) : m \in 0 .. Len(n)} : n \in Nestings},
          todo : SUBSET LockKeys, refs : 0 .. Depth, conn : Conns \cup {NoConn}]
    BY Zenon
  <2>2. ASSUME NEW o \in LockOps PROVE operation[o] \in T
    <3>1. PICK op : op = operation[o]
      BY Zenon
    <3>2. op \in OpType /\ OpPlan(op) /\ op.at \in Statuses
          /\ op.todo \in SUBSET LockKeys /\ op.conn \in Conns \cup {NoConn}
      BY Zenon, <3>1, OperationFacts, OpFields DEF PlanKept
    <3>3. /\ op.grants \in UNION {{SubSeq(n, 1, m) : m \in 0 .. Len(n)} : n \in Nestings}
          /\ op.refs \in 0 .. Depth
      BY Zenon, <3>2, GrantsBegin
    <3>4. op.need \in Nestings \cup {<<>>}
      BY Zenon, <3>2 DEF OpPlan
    <3>5. op = [at |-> op.at, need |-> op.need, grants |-> op.grants, todo |-> op.todo,
                refs |-> op.refs, conn |-> op.conn]
      BY <3>2 DEF OpType
    <3> QED
      BY Zenon, <2>1, <3>1, <3>2, <3>3, <3>4, <3>5 DEF Statuses
  <2>3. operation \in [LockOps -> T]
    <3>1. operation \in [LockOps -> OpType]
      BY Zenon DEF LInv, OpInv
    <3> QED
      BY Zenon, <2>2, <3>1
  <2>4. ASSUME NEW c \in Conns, NEW k \in LockKeys PROVE conns[c].locks[k] \in 0 .. Depth
    <3>1. CASE conns[c].user = NoOp
      <4>1. conns[c].locks[k] = 0
        BY Zenon, <2>4, <3>1 DEF LInv, ConnInv, NoLocks
      <4> QED
        BY <4>1, DepthBounds
    <3>2. CASE conns[c].user # NoOp
      <4>1. PICK o \in LockOps : operation[o].conn = c
        BY Zenon, <2>4, <3>2 DEF LInv, ConnInv
      <4>2. /\ operation[o] \in OpType /\ OpSteps(operation[o]) /\ OpPlan(operation[o])
            /\ IsFiniteSet(Calls(operation[o], k))
            /\ conns[c].locks[k] = Cardinality(Calls(operation[o], k))
        BY Zenon, <2>4, <4>1, OperationFacts, NoConnection DEF PlanKept
      <4> QED
        BY Zenon, <2>4, <4>2, CountsBounded
    <3> QED
      BY Zenon, <3>1, <3>2
  <2>5. conns \in [Conns -> [user : LockOps \cup {NoOp}, locks : [LockKeys -> 0 .. Depth]]]
    <3>1. conns \in [Conns -> [user : LockOps \cup {NoOp}, locks : [LockKeys -> Nat]]]
      BY Zenon DEF LInv, ConnInv
    <3>2. ASSUME NEW c \in Conns
          PROVE  conns[c] \in [user : LockOps \cup {NoOp}, locks : [LockKeys -> 0 .. Depth]]
      <4>1. /\ conns[c] = [user |-> conns[c].user, locks |-> conns[c].locks]
            /\ conns[c].user \in LockOps \cup {NoOp} /\ conns[c].locks \in [LockKeys -> Nat]
        BY Zenon, <3>1, <3>2
      <4>2. conns[c].locks \in [LockKeys -> 0 .. Depth]
        BY Zenon, <2>4, <3>2, <4>1
      <4> QED
        BY Zenon, <4>1, <4>2
    <3> QED
      BY Zenon, <3>1, <3>2
  <2> QED
    BY Zenon, <2>1, <2>3, <2>5 DEF LockTypeOK, PlanKept
<1> QED
  BY <1>1, PlansFollowed, PTL
=============================================================================
