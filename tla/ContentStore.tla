----------------------------- MODULE ContentStore -----------------------------
(***************************************************************************)
(* What every part of the gateway that refers to content-addressed bytes   *)
(* promises its readers: bytes are stored before anybody is told of them,  *)
(* and only bytes nobody relies on are deleted.  Hosted Raw assets, Go     *)
(* modules and the Raw proxy cache each implement this specification with  *)
(* tables, locks, fences and collectors of their own.                      *)
(*                                                                         *)
(* A step may pledge, show and delete several objects.                     *)
(***************************************************************************)

VARIABLES
    stored,     \* objects whose bytes are in the object store
    pledged,    \* objects that somebody may make visible without looking
                \* at the object store again
    visible     \* objects that readers are referred to

Init == stored = {} /\ pledged = {} /\ visible = {}

\* Only what is stored is pledged.
Pledge == pledged' \subseteq stored'

\* Only what is pledged becomes visible.
Show == visible' \subseteq visible \union pledged

\* What is deleted is neither pledged nor visible.
Reclaim == (stored \ stored') \intersect (pledged \union visible) = {}

Next == Pledge /\ Show /\ Reclaim

vars == <<stored, pledged, visible>>
Spec == Init /\ [][Next]_vars
=============================================================================
