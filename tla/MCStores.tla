------------------------------- MODULE MCStores -------------------------------
(***************************************************************************)
(* What the gateway keeps, on small instances: quota alerts, Raw uploads,  *)
(* Go modules, the Raw proxy's cache, and the in-memory job store.  They   *)
(* share no row, so a behaviour runs the one it chooses at the start and   *)
(* leaves the others in their initial state: the state spaces add up       *)
(* instead of multiplying.                                                 *)
(***************************************************************************)
EXTENDS MCLifecycleSharing, QuotaAlerts, RawUploads, GoModules, RawCache

VARIABLE kept

stores == <<kept, vars, quotaVars, uploadVars, goVars, cacheVars>>

-----------------------------------------------------------------------------
(* Instances                                                               *)

QuotaBound(start, quotas, samples, failures, clearings) ==
    [start |-> start, quotas |-> quotas, samples |-> samples,
     failures |-> failures, clearings |-> clearings]
SomeQuotaBudgets ==
    {QuotaBound(s, 1, 4, 0, 0) : s \in Severities} \union
    {QuotaBound("normal", 1, 3, 1, 0), QuotaBound("warning", 1, 2, 1, 1),
     QuotaBound("normal", 2, 3, 0, 0)}

SomeContents == {<<"a">>, <<"b">>}
SomeConditions ==
    {Unconditional, [Unconditional EXCEPT !.requireAbsent = TRUE],
     [Unconditional EXCEPT !.match = {<<"a">>}]}
UploadBound(patch, append, complete, delete, reclaim, put, remove) ==
    [parallel |-> 2, patch |-> patch, append |-> append, complete |-> complete,
     delete |-> delete, reclaim |-> reclaim, put |-> put, remove |-> remove]
SomeUploadBudgets ==
    {UploadBound(2, 0, 1, 0, 1, 0, 0), UploadBound(1, 0, 1, 1, 1, 0, 0),
     UploadBound(0, 1, 0, 0, 0, 1, 0), UploadBound(1, 1, 0, 0, 1, 0, 0),
     UploadBound(0, 0, 0, 0, 0, 3, 0), UploadBound(0, 0, 0, 0, 0, 2, 1)}

\* Two repositories publish a common object, or one publishes something else.
GoBound(uploads, prom, tomb, rest, recl, list) ==
    [uploads |-> uploads,
     calls |-> [k \in GoKinds |->
                  CASE k = "promote" -> prom [] k = "tombstone" -> tomb
                    [] k = "restore" -> rest [] k = "reclaim" -> recl
                    [] k = "list" -> list [] OTHER -> 0]]
SomeGoBudgets ==
    LET first == <<1, {"info", "zip"}>>
        second == <<2, {"zip"}>>
        other == <<1, {"other"}>> IN
    {GoBound({first, second}, 0, 0, 0, 1, 0), GoBound({first, other}, 0, 1, 1, 0, 0),
     GoBound({first}, 1, 1, 1, 1, 1), GoBound({second}, 1, 1, 1, 2, 1)}

\* One body is a half of the quota, the other one all of it.
SomeSizes == [b \in {"half", "whole"} |-> IF b = "half" THEN 1 ELSE 2]
CacheBound(get, head, invalidate, collect, expire, break, error) ==
    [e \in CacheEvents |->
       CASE e = "get" -> get [] e = "head" -> head [] e = "invalidate" -> invalidate
         [] e = "collect" -> collect [] e = "expire" -> expire
         [] e = "break" -> break [] e = "error" -> error]
SomeCacheBudgets ==
    {CacheBound(3, 0, 0, 0, 1, 0, 0), CacheBound(2, 1, 0, 0, 0, 0, 0),
     CacheBound(2, 0, 0, 1, 1, 0, 0), CacheBound(2, 0, 0, 0, 0, 2, 0),
     CacheBound(1, 0, 1, 1, 0, 1, 0), CacheBound(2, 0, 0, 1, 0, 0, 1)}

-----------------------------------------------------------------------------

StoresInit ==
    /\ kept \in {"jobs", "quota", "uploads", "go", "cache"}
    /\ Init
    /\ QuotaInit
    /\ kept # "quota" => quotaBudget = CHOOSE b \in QuotaBudgets : TRUE
    /\ UploadInit
    /\ kept # "uploads" => uploadBudget = CHOOSE b \in UploadBudgets : TRUE
    /\ GoInit
    /\ kept # "go" => goBudget = CHOOSE b \in GoBudgets : TRUE
    /\ CacheInit
    /\ kept # "cache" => cacheBudget = CHOOSE b \in CacheBudgets : TRUE

OthersKeep(mine) ==
    /\ UNCHANGED kept
    /\ mine # "jobs" => UNCHANGED vars
    /\ mine # "quota" => UNCHANGED quotaVars
    /\ mine # "uploads" => UNCHANGED uploadVars
    /\ mine # "go" => UNCHANGED goVars
    /\ mine # "cache" => UNCHANGED cacheVars

StoresNext ==
    \/ kept = "jobs" /\ MemoryNext /\ OthersKeep("jobs")
    \/ kept = "quota" /\ QuotaNext /\ OthersKeep("quota")
    \/ kept = "uploads" /\ UploadNext /\ OthersKeep("uploads")
    \/ kept = "go" /\ GoNext /\ OthersKeep("go")
    \/ kept = "cache" /\ CacheNext /\ OthersKeep("cache")

StoresSpec == StoresInit /\ [][StoresNext]_stores

\* Every row, request, entry and intent of the stores has its type.
StoresTypeOK ==
    TypeOK /\ QuotaTypeOK /\ UploadTypeOK /\ GoTypeOK /\ CacheTypeOK
=============================================================================
