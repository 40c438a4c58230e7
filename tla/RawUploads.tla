----------------------------- MODULE RawUploads -------------------------------
(***************************************************************************)
(* A resumable Raw upload, its chunks in the object store, and the         *)
(* conditional writes that compete for the path it is published at.        *)
(* internal/format/raw/native.go (upload), internal/uploadspool/spool.go,  *)
(* internal/repository/postgres_raw.go, raw_condition.go,                  *)
(* internal/maintenance/raw/collector.go (uploads).                        *)
(*                                                                         *)
(* There is one upload and one path.  Every chunk has one byte, so the     *)
(* offset counts chunks.  Content is the sequence of its chunks, and its   *)
(* own digest.  The content-addressed objects behind the path are          *)
(* RawStorage's.  A request holds the upload's advisory lock, and rows of  *)
(* an open transaction, depending on where it is.                          *)
(***************************************************************************)
EXTENDS Naturals, Sequences, FiniteSets

CONSTANTS
    Chunks,             \* chunks clients send
    PutContents,        \* contents written to the path without an upload
    MaxUploadOffset,    \* bound: chunks of the upload
    UploadConditions,   \* conditions of writers
    UploadClockSkew,    \* may the collector's clock be ahead?
    UploadBudgets       \* bounds: requests at a time, and how many of a kind

\* "append" is a completion that brings a last chunk.
Kinds == {"patch", "append", "complete", "delete", "reclaim", "put"}
UploadBudget == [Kinds \union {"parallel", "remove"} -> Nat]

\* RawWriteCondition, with NoneMatchDigests and MatchDigests as sets.
Conditions(contents) ==
    [requireAbsent : BOOLEAN, requirePresent : BOOLEAN,
     match : SUBSET contents, noneMatch : SUBSET contents]
Unconditional == [requireAbsent |-> FALSE, requirePresent |-> FALSE,
                  match |-> {}, noneMatch |-> {}]

ASSUME UploadAssumption ==
    /\ Chunks # {} /\ MaxUploadOffset \in Nat /\ UploadClockSkew \in BOOLEAN
    /\ UploadBudgets \subseteq UploadBudget
    /\ PutContents \subseteq Seq(Chunks)
    /\ UploadConditions \subseteq Conditions(Seq(Chunks))
    /\ Unconditional \in UploadConditions

VARIABLES
    upload,         \* the native_raw_uploads row
    parts,          \* chunks stored, by their offset
    accepted,       \* chunks whose offset was recorded, in order
    path,           \* content the path refers to; none is "absent"
    calls,          \* requests and jobs in progress
    uploadBudget

uploadVars == <<upload, parts, accepted, path, calls, uploadBudget>>

Absent == <<"absent">>

Call == [id : Nat, kind : Kinds, chunk : Chunks, condition : UploadConditions,
         at : {"waiting", "loaded", "stored", "staged", "select", "write",
               "commit", "cleanup", "clean"},
         offset : Nat, content : Seq(Chunks), exists : BOOLEAN, tries : Nat]

UploadTypeOK ==
    /\ upload \in [state : {"absent", "open", "completed", "cancelled"},
                   offset : Nat, live : BOOLEAN, collected : BOOLEAN]
    /\ \A o \in DOMAIN parts : o \in Nat /\ parts[o] \in Chunks
    /\ accepted \in Seq(Chunks)
    /\ path = Absent \/ path \in Seq(Chunks)
    /\ calls \subseteq Call
    /\ uploadBudget \in UploadBudget

NoParts == [o \in {} |-> {}]

UploadInit ==
    /\ upload = [state |-> "absent", offset |-> 0, live |-> FALSE, collected |-> FALSE]
    /\ parts = NoParts /\ accepted = <<>> /\ path = Absent /\ calls = {}
    /\ uploadBudget \in UploadBudgets

-----------------------------------------------------------------------------

startUpload ==
    /\ upload.state = "absent"
    /\ upload' = [upload EXCEPT !.state = "open", !.live = TRUE]
    /\ UNCHANGED <<parts, accepted, path, calls, uploadBudget>>

\* A request arrives, or Schedule finds an upload to reclaim.  A direct PUT
\* has staged its bytes when it comes to the path.
Arrives(kind, chunk, condition, content) ==
    /\ uploadBudget[kind] > 0
    /\ Cardinality(calls) < uploadBudget.parallel
    /\ kind = "reclaim" => /\ upload.state \in {"completed", "cancelled"}
                           /\ ~upload.collected
    /\ uploadBudget' = [uploadBudget EXCEPT ![kind] = @ - 1]
    /\ calls' = calls \union
         {[id |-> uploadBudget[kind], kind |-> kind, chunk |-> chunk,
           condition |-> condition,
           at |-> IF kind = "put" THEN "staged" ELSE "waiting", offset |-> 0,
           content |-> content, exists |-> FALSE, tries |-> 0]}
    /\ UNCHANGED <<upload, parts, accepted, path>>

\* Call c moves on, or is answered (a crash included).
Moves(c, d) == calls' = (calls \ {c}) \union {d}
Ends(c) == calls' = calls \ {c}

HoldsUpload(c) == c.kind # "put" /\ c.at # "waiting"

\* Mutant: reclaim jobs do not wait for requests.
LockedForReclaim(c) == c.kind # "reclaim" /\ \E d \in calls : HoldsUpload(d)

\* Another request or job holds the upload's advisory lock.
UploadLocked(c) == \E d \in calls : HoldsUpload(d)

\* LockRawUpload, then the row decides whether there is anything to do.
LockRawUpload(c) ==
    /\ c.at = "waiting" /\ ~UploadLocked(c)
    /\ CASE c.kind = "reclaim" /\ upload.state # "open" /\ ~upload.collected
              -> Moves(c, [c EXCEPT !.at = "cleanup"])
         [] c.kind # "reclaim" /\ upload.state = "open" /\ upload.live
              -> Moves(c, [c EXCEPT !.at = "loaded", !.offset = upload.offset])
         [] OTHER -> Ends(c)
    /\ UNCHANGED <<upload, parts, accepted, path, uploadBudget>>

\* appendUpload stores the chunk under the offset it read, ...
StorePart(c) ==
    /\ c.kind \in {"patch", "append"} /\ c.at = "loaded"
    /\ c.offset < MaxUploadOffset
    /\ parts' = [o \in DOMAIN parts \union {c.offset} |->
                   IF o = c.offset THEN c.chunk ELSE parts[o]]
    /\ Moves(c, [c EXCEPT !.at = "stored"])
    /\ UNCHANGED <<upload, accepted, path, uploadBudget>>

\* ... and records the new offset if the upload is still open.
UpdateRawUpload(c) ==
    /\ c.at = "stored"
    /\ IF upload.state = "open" /\ upload.live
         THEN /\ upload' = [upload EXCEPT !.offset = c.offset + 1]
              /\ accepted' = Append(SubSeq(accepted, 1, c.offset), c.chunk)
              /\ IF c.kind = "append"
                   THEN Moves(c, [c EXCEPT !.kind = "complete", !.at = "loaded",
                                           !.offset = @ + 1])
                   ELSE Ends(c)
         ELSE Ends(c) /\ UNCHANGED <<upload, accepted>>
    /\ UNCHANGED <<parts, path, uploadBudget>>

\* Mutant: whatever is stored is assembled.
AssembledAnyway(offset) == DOMAIN parts = 0..(Cardinality(DOMAIN parts) - 1)

\* ReadUpload: the stored chunks are contiguous and as many as recorded.
Assembled(offset) == DOMAIN parts = 0..(offset - 1)

\* Assembled, compared with the client's digest, and staged.
ReadUpload(c) ==
    /\ c.kind = "complete" /\ c.at = "loaded"
    /\ IF Assembled(c.offset)
         THEN \/ Moves(c, [c EXCEPT !.at = "staged",
                    !.content = [i \in 1..Cardinality(DOMAIN parts) |-> parts[i - 1]]])
              \/ Ends(c)
         ELSE Ends(c)
    /\ UNCHANGED <<upload, parts, accepted, path, uploadBudget>>

CancelRawUpload(c) ==
    /\ c.kind = "delete" /\ c.at = "loaded"
    /\ IF upload.state = "open"
         THEN /\ upload' = [upload EXCEPT !.state = "cancelled"]
              /\ Moves(c, [c EXCEPT !.at = "cleanup"])
         ELSE Ends(c) /\ UNCHANGED upload
    /\ UNCHANGED <<parts, accepted, path, uploadBudget>>

\* DeleteUpload, by the request that ended the upload or by a job: every chunk
\* is tried, and only if none is left may the upload be marked.
DeleteUpload(c) ==
    /\ c.at = "cleanup"
    /\ \E left \in SUBSET DOMAIN parts :
         /\ parts' = [o \in left |-> parts[o]]
         /\ IF left = {} THEN Moves(c, [c EXCEPT !.at = "clean"]) ELSE Ends(c)
    /\ UNCHANGED <<upload, accepted, path, uploadBudget>>

MarkRawUploadCollected(c) ==
    /\ c.at = "clean"
    /\ upload' = [upload EXCEPT !.collected = upload.state \in {"completed", "cancelled"}]
    /\ Ends(c)
    /\ UNCHANGED <<parts, accepted, path, uploadBudget>>

\* The row of the upload is locked by the transaction that completes it.
RowLocked == \E c \in calls : c.kind = "complete" /\ c.at \in {"select", "write", "commit"}

\* ExpireRawUploads asks nobody for the advisory lock.
ExpireRawUploads ==
    /\ upload.state = "open" /\ (~upload.live \/ UploadClockSkew) /\ ~RowLocked
    /\ upload' = [upload EXCEPT !.state = "cancelled"]
    /\ UNCHANGED <<parts, accepted, path, calls, uploadBudget>>

UploadExpires ==
    /\ upload.state = "open" /\ upload.live
    /\ upload' = [upload EXCEPT !.live = FALSE]
    /\ UNCHANGED <<parts, accepted, path, calls, uploadBudget>>

-----------------------------------------------------------------------------
(* The path: PutRawAssetIf, CompleteRawUploadIf and replaceRawAssetIf      *)

Allows(condition, current) ==
    IF current = Absent
      THEN ~condition.requirePresent /\ condition.match = {}
      ELSE /\ ~condition.requireAbsent
           /\ condition.match # {} => current \in condition.match
           /\ current \notin condition.noneMatch

\* Another transaction holds the path's row, or has inserted it.
PathLocked(c) ==
    \E d \in calls \ {c} : d.at = "commit" \/ (d.at = "write" /\ d.exists)

\* The transaction begins; a completion needs the upload still open.
BeginWrite(c) ==
    /\ c.at = "staged"
    /\ IF c.kind = "complete" /\ ~(upload.state = "open" /\ upload.live)
         THEN Ends(c)
         ELSE Moves(c, [c EXCEPT !.at = IF c.condition = Unconditional
                                          THEN "write" ELSE "select"])
    /\ UNCHANGED <<upload, parts, accepted, path, uploadBudget>>

\* Mutant: the current reference is read without locking it.
SelectUnlocked(c) ==
    /\ c.at = "select"
    /\ IF Allows(c.condition, path)
         THEN Moves(c, [c EXCEPT !.at = IF path = Absent THEN "write" ELSE "commit",
                                 !.exists = path # Absent])
         ELSE Ends(c)
    /\ UNCHANGED <<upload, parts, accepted, path, uploadBudget>>

\* SELECT ... FOR UPDATE waits for the row's holder; it sees nothing of a row
\* that is not committed.
SelectCurrent(c) ==
    /\ c.at = "select" /\ (path = Absent \/ ~PathLocked(c))
    /\ IF Allows(c.condition, path)
         THEN Moves(c, [c EXCEPT !.at = "write", !.exists = path # Absent])
         ELSE Ends(c)
    /\ UNCHANGED <<upload, parts, accepted, path, uploadBudget>>

\* UPDATE of the locked row; else INSERT, which waits for a competing one and,
\* when that one committed, does nothing and looks again, three times at most.
WriteReference(c) ==
    /\ c.at = "write"
    /\ c.exists \/ ~PathLocked(c)
    /\ IF c.exists \/ path = Absent \/ c.condition = Unconditional
         THEN Moves(c, [c EXCEPT !.at = "commit"])
         ELSE IF c.tries < 2
           THEN Moves(c, [c EXCEPT !.at = "select", !.tries = @ + 1])
           ELSE Ends(c)
    /\ UNCHANGED <<upload, parts, accepted, path, uploadBudget>>

CommitWrite(c) ==
    /\ c.at = "commit"
    /\ path' = c.content
    /\ IF c.kind = "complete"
         THEN /\ upload' = [upload EXCEPT !.state = "completed"]
              /\ Moves(c, [c EXCEPT !.at = "cleanup"])
         ELSE Ends(c) /\ UNCHANGED upload
    /\ UNCHANGED <<parts, accepted, uploadBudget>>

DeleteRawAsset ==
    /\ uploadBudget.remove > 0
    /\ path # Absent
    /\ \A c \in calls : ~(c.at = "commit" \/ (c.at = "write" /\ c.exists))
    /\ path' = Absent
    /\ uploadBudget' = [uploadBudget EXCEPT !.remove = @ - 1]
    /\ UNCHANGED <<upload, parts, accepted, calls>>

\* An error or a crash ends the call; its locks go, its transaction is undone.
DropCall(c) ==
    /\ Ends(c)
    /\ UNCHANGED <<upload, parts, accepted, path, uploadBudget>>

-----------------------------------------------------------------------------

SomeChunk == CHOOSE chunk \in Chunks : TRUE

UploadNext ==
    \/ startUpload \/ ExpireRawUploads \/ UploadExpires \/ DeleteRawAsset
    \/ \E chunk \in Chunks : Arrives("patch", chunk, Unconditional, <<>>)
    \/ \E condition \in UploadConditions :
         \/ Arrives("complete", SomeChunk, condition, <<>>)
         \/ \E chunk \in Chunks : Arrives("append", chunk, condition, <<>>)
         \/ \E content \in PutContents : Arrives("put", SomeChunk, condition, content)
    \/ \E kind \in {"delete", "reclaim"} : Arrives(kind, SomeChunk, Unconditional, <<>>)
    \/ \E c \in calls :
         \/ LockRawUpload(c) \/ StorePart(c) \/ UpdateRawUpload(c) \/ ReadUpload(c)
         \/ CancelRawUpload(c) \/ DeleteUpload(c) \/ MarkRawUploadCollected(c)
         \/ BeginWrite(c) \/ SelectCurrent(c) \/ WriteReference(c) \/ CommitWrite(c)
         \/ DropCall(c)

UploadSpec == UploadInit /\ [][UploadNext]_uploadVars

-----------------------------------------------------------------------------
(* Properties                                                              *)

\* A write commits only over a path in the state its condition names, whoever
\* created, replaced or deleted it since the first check: two creations
\* cannot both find the path absent, nor two replacements the same content.
ConditionHoldsAtCommit ==
    \A c \in calls : c.at = "commit" => Allows(c.condition, path)

\* What a completion publishes is exactly the chunks whose offsets were
\* recorded, in order, whatever requests were interrupted between storing a
\* chunk and recording it, and it publishes an upload nobody has cancelled.
PublishesWhatWasAccepted ==
    \A c \in calls : c.kind = "complete" =>
        /\ c.at \in {"staged", "select", "write", "commit"} => c.content = accepted
        /\ c.at = "commit" => upload.state = "open"

\* An upload marked collected leaves no chunk behind, and never will: a
\* request that was storing one when the upload expired has been waited for.
CollectedLeavesNothing == upload.collected => parts = NoParts
=============================================================================
