----------------------------- MODULE MCLockPool -----------------------------
(***************************************************************************)
(* Uploads to one process: each holds the lock of its object and schedules *)
(* the scan of what it has published with the request's own context (PyPI: *)
(* native_pypi.go:294-325, OCI manifests: native_oci.go:708-745).          *)
(***************************************************************************)
EXTENDS AdvisoryLocks

Uploads == {"upload1", "upload2"}
Scans == {"scan1", "scan2"}

InOneProcess == [o \in Uploads \cup Scans |-> "n1"]
ScansWithin == [o \in Uploads \cup Scans |->
    IF o = "scan1" THEN "upload1" ELSE IF o = "scan2" THEN "upload2" ELSE "none"]
UploadKeys == [o \in Uploads \cup Scans |->
    IF o \in Uploads THEN {<<{1}>>, <<{2}>>} ELSE {<<{3}>>}]
=============================================================================
