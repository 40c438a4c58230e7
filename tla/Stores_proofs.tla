---------------------------- MODULE Stores_proofs -----------------------------
(***************************************************************************)
(* Safety of Raw uploads for any chunks, contents, conditions and requests *)
(* in parallel: a write commits over the state its condition names, a      *)
(* completion publishes what was accepted, and what is marked collected    *)
(* leaves nothing behind.                                                  *)
(*                                                                         *)
(* Safety of quota alerts for any holding times, intervals and quotas and  *)
(* any failed reads: the severity a rule keeps is the documented one for   *)
(* the whole timeline of samples, and each scenario of an episode is       *)
(* announced once.  The invariant finds, for every time the rule keeps as  *)
(* evidence, the stretch of the timeline that shows it; the rule's version *)
(* fences the reset of a read that failed earlier.                         *)
(***************************************************************************)
EXTENDS RawUploads, QuotaAlerts, FiniteSetTheorems, TLAPS

Writing == {"staged", "select", "write", "commit"}
Terminal == {"completed", "cancelled"}

\* The path's row is locked or inserted by the transaction of c.
HoldsPath(c) == c.at = "commit" \/ (c.at = "write" /\ c.exists)

\* The recorded chunks are stored until the upload is over, and collected
\* uploads have ended.
PartsRecorded ==
    /\ parts \in [DOMAIN parts -> Chunks]
    /\ Len(accepted) = upload.offset
    /\ \A o \in DOMAIN parts : o < upload.offset => parts[o] = accepted[o + 1]
    /\ upload.collected => upload.state \in Terminal /\ parts = NoParts

\* What a call knows of the upload.
CallSteps(c) ==
    /\ c.kind = "put" => c.at \in Writing
    /\ c.at \in Writing => c.kind \in {"put", "complete"}
    /\ c.at = "loaded" => c.kind \in {"patch", "append", "complete", "delete"}
    /\ c.at = "stored" => c.kind \in {"patch", "append"}
KnowsUpload(c) ==
    /\ c.kind = "reclaim" \/ c.at \in {"cleanup", "clean"} => upload.state \in Terminal
    /\ HoldsUpload(c) /\ c.at \notin {"cleanup", "clean"} =>
          c.offset = upload.offset /\ ~upload.collected
    /\ c.at = "stored" => c.offset \in DOMAIN parts /\ parts[c.offset] = c.chunk
    /\ c.kind = "complete" /\ c.at \in Writing => c.content = accepted
    /\ c.kind = "complete" /\ c.at \in {"select", "write", "commit"} => upload.state = "open"
    /\ c.at = "clean" => parts = NoParts

\* What a call knows of the path.
KnowsPath(c) ==
    /\ c.at \in {"waiting", "loaded", "stored", "staged"} => ~c.exists
    /\ HoldsPath(c) => Allows(c.condition, path)
    /\ c.at = "write" /\ ~c.exists => Allows(c.condition, Absent)

OneHolder ==
    /\ \A c, d \in calls : HoldsUpload(c) /\ HoldsUpload(d) => c = d
    /\ \A c, d \in calls : HoldsPath(c) /\ HoldsPath(d) => c = d

UInv == /\ UploadTypeOK /\ PartsRecorded /\ OneHolder
        /\ \A c \in calls : CallSteps(c) /\ KnowsUpload(c) /\ KnowsPath(c)

-----------------------------------------------------------------------------
(* Calls                                                                   *)

CallAts == {"waiting", "loaded", "stored", "staged", "select", "write",
            "commit", "cleanup", "clean"}
SameRequest(c, d) == /\ d \in Call /\ d.condition = c.condition /\ d.chunk = c.chunk
                     /\ d.kind = c.kind

\* A call that moves on is the same request.
LEMMA CallMoved ==
    ASSUME NEW c \in Call, NEW at \in CallAts
    PROVE  /\ SameRequest(c, [c EXCEPT !.at = at])
           /\ [c EXCEPT !.at = at].at = at
           /\ [c EXCEPT !.at = at].offset = c.offset
           /\ [c EXCEPT !.at = at].content = c.content
           /\ [c EXCEPT !.at = at].exists = c.exists
  BY Zenon DEF SameRequest, Call, CallAts

\* The upload's part of a call whose steps and knowledge of the row stay.
UploadKept == UNCHANGED <<upload, parts, accepted>>

\* What a call knows lasts while the upload is left alone.
LEMMA UploadUntouched ==
    ASSUME NEW c, KnowsUpload(c), UploadKept
    PROVE  KnowsUpload(c)'
  BY Zenon DEF KnowsUpload, UploadKept, HoldsUpload

\* A call without the upload's lock knows only whether the upload has ended.
LEMMA UploadOfOthers ==
    ASSUME NEW c, CallSteps(c), KnowsUpload(c), ~HoldsUpload(c),
           upload.state \in Terminal => upload'.state \in Terminal
    PROVE  KnowsUpload(c)'
<1>1. CASE c.kind = "put"
  <2>1. c.at \in Writing
    BY Zenon, <1>1 DEF CallSteps
  <2>2. /\ c.at \notin {"cleanup", "clean", "stored"} /\ c.kind # "complete"
        /\ c.kind # "reclaim"
    BY <1>1, <2>1 DEF Writing
  <2> QED
    BY Zenon, <2>2 DEF KnowsUpload, HoldsUpload
<1>2. CASE c.at = "waiting"
  <2>1. c.at \notin {"cleanup", "clean", "stored"} /\ c.at \notin Writing
        /\ c.at \notin {"select", "write", "commit"}
    BY <1>2 DEF Writing
  <2> QED
    BY Zenon, <2>1 DEF KnowsUpload, HoldsUpload
<1> QED
  BY Zenon, <1>1, <1>2 DEF HoldsUpload

\* What a call knows of the path lasts while the path is left alone.
LEMMA PathUntouched ==
    ASSUME NEW c, KnowsPath(c), path' = path
    PROVE  KnowsPath(c)'
  BY Zenon DEF KnowsPath, HoldsPath

\* A call that holds neither row nor insert knows nothing of the path.
LEMMA PathOfOthers ==
    ASSUME NEW c, KnowsPath(c), ~HoldsPath(c)
    PROVE  KnowsPath(c)'
  BY Zenon DEF KnowsPath, HoldsPath

\* The state beside the calls.
ShelfTyped ==
    /\ upload \in [state : {"absent", "open", "completed", "cancelled"},
                   offset : Nat, live : BOOLEAN, collected : BOOLEAN]
    /\ \A o \in DOMAIN parts : o \in Nat /\ parts[o] \in Chunks
    /\ accepted \in Seq(Chunks)
    /\ path = Absent \/ path \in Seq(Chunks)
    /\ uploadBudget \in UploadBudget
ShelfInv == ShelfTyped /\ PartsRecorded

\* The invariant has a part for the calls and one for the rest.
LEMMA UploadParts ==
    UInv <=> /\ ShelfInv /\ calls \subseteq Call /\ OneHolder
             /\ \A c \in calls : CallSteps(c) /\ KnowsUpload(c) /\ KnowsPath(c)
  BY Zenon DEF UInv, ShelfInv, ShelfTyped, UploadTypeOK

\* The same, after a step.
LEMMA UploadPartsAfter ==
    UInv' <=> /\ ShelfInv' /\ calls' \subseteq Call /\ OneHolder'
              /\ \A c \in calls' : CallSteps(c) /\ KnowsUpload(c)' /\ KnowsPath(c)'
<1>1. (\A c \in calls : CallSteps(c) /\ KnowsUpload(c) /\ KnowsPath(c))'
        <=> \A c \in calls' : CallSteps(c) /\ KnowsUpload(c)' /\ KnowsPath(c)'
  BY Zenon DEF CallSteps
<1>2. UInv' <=> /\ ShelfInv' /\ (calls \subseteq Call)' /\ OneHolder'
                /\ (\A c \in calls : CallSteps(c) /\ KnowsUpload(c) /\ KnowsPath(c))'
  BY UploadParts, PTL
<1> QED
  BY Zenon, <1>1, <1>2 DEF Call

\* A call that ends leaves the others as they are.
LEMMA CallEnds ==
    ASSUME UInv, NEW c \in calls, Ends(c), ShelfInv',
           \A e \in calls : e # c => KnowsUpload(e)' /\ KnowsPath(e)'
    PROVE  UInv'
<1>1. calls' \subseteq calls /\ \A e \in calls' : e \in calls /\ e # c
  BY Zenon DEF Ends
<1>2. OneHolder'
  BY Zenon, <1>1, UploadParts DEF OneHolder, HoldsUpload, HoldsPath
<1>3. \A e \in calls' : CallSteps(e) /\ KnowsUpload(e)' /\ KnowsPath(e)'
  BY Zenon, <1>1, UploadParts
<1> QED
  BY Zenon, <1>1, <1>2, <1>3, UploadParts, UploadPartsAfter

\* A call that moves on keeps the locks to itself.
LEMMA CallMoves ==
    ASSUME UInv, NEW c \in calls, NEW d \in Call, Moves(c, d), ShelfInv',
           \A e \in calls : e # c => KnowsUpload(e)' /\ KnowsPath(e)',
           CallSteps(d), KnowsUpload(d)', KnowsPath(d)',
           HoldsUpload(d) => \A e \in calls : HoldsUpload(e) => e = c,
           HoldsPath(d) => \A e \in calls : HoldsPath(e) => e = c
    PROVE  UInv'
<1>1. \A e \in calls' : (e \in calls /\ e # c) \/ e = d
  BY Zenon DEF Moves
<1>2. calls' \subseteq Call
  BY Zenon, <1>1, UploadParts
<1>3. OneHolder'
  <2>1. \A e, f \in calls' : HoldsUpload(e) /\ HoldsUpload(f) => e = f
    BY Zenon, <1>1, UploadParts DEF OneHolder
  <2>2. \A e, f \in calls' : HoldsPath(e) /\ HoldsPath(f) => e = f
    BY Zenon, <1>1, UploadParts DEF OneHolder
  <2> QED
    BY Zenon, <2>1, <2>2 DEF OneHolder, HoldsUpload, HoldsPath
<1>4. \A e \in calls' : CallSteps(e) /\ KnowsUpload(e)' /\ KnowsPath(e)'
  BY Zenon, <1>1, UploadParts
<1> QED
  BY Zenon, <1>2, <1>3, <1>4, UploadPartsAfter

\* Who does not hold a lock that c holds.
LEMMA SoleHolder ==
    ASSUME UInv, NEW c \in calls
    PROVE  /\ HoldsUpload(c) => \A e \in calls : HoldsUpload(e) => e = c
           /\ HoldsPath(c) => \A e \in calls : HoldsPath(e) => e = c
  BY Zenon, UploadParts DEF OneHolder

\* A step of c leaves the knowledge of the others alone: it holds the lock of
\* what it changes.
LEMMA OthersKnow ==
    ASSUME UInv, NEW c \in calls,
           UploadKept \/ HoldsUpload(c), path' = path \/ HoldsPath(c),
           upload.state \in Terminal => upload'.state \in Terminal
    PROVE  \A e \in calls : e # c => KnowsUpload(e)' /\ KnowsPath(e)'
<1> SUFFICES ASSUME NEW e \in calls, e # c PROVE KnowsUpload(e)' /\ KnowsPath(e)'
  BY Zenon
<1>0. CallSteps(e) /\ KnowsUpload(e) /\ KnowsPath(e)
  BY Zenon, UploadParts
<1>1. KnowsUpload(e)'
  BY Zenon, <1>0, SoleHolder, UploadUntouched, UploadOfOthers
<1>2. KnowsPath(e)'
  BY Zenon, <1>0, SoleHolder, PathUntouched, PathOfOthers
<1> QED
  BY Zenon, <1>1, <1>2

\* A step that changes calls only leaves the shelf as it is.
LEMMA ShelfRests ==
    ASSUME UInv, UNCHANGED <<upload, parts, accepted, path, uploadBudget>>
    PROVE  ShelfInv'
  BY Zenon, UploadParts DEF ShelfInv, ShelfTyped, PartsRecorded

\* Any call may be dropped.
LEMMA DropStep ==
    ASSUME UInv, NEW c \in calls, Ends(c),
           UNCHANGED <<upload, parts, accepted, path, uploadBudget>>
    PROVE  UInv'
<1>1. UploadKept
  BY Zenon DEF UploadKept
<1>2. \A e \in calls : e # c => KnowsUpload(e)' /\ KnowsPath(e)'
  BY Zenon, <1>1, OthersKnow
<1> QED
  BY Zenon, <1>2, ShelfRests, CallEnds

-----------------------------------------------------------------------------
(* Steps under the upload's lock                                           *)

\* What is known of a call and of the upload.
LEMMA CallFacts ==
    ASSUME UInv, NEW c \in calls
    PROVE  /\ c \in Call /\ c.kind \in Kinds /\ c.at \in CallAts /\ c.offset \in Nat
           /\ c.exists \in BOOLEAN /\ c.tries \in Nat /\ c.chunk \in Chunks
           /\ c.content \in Seq(Chunks)
           /\ CallSteps(c) /\ KnowsUpload(c) /\ KnowsPath(c)
  BY Zenon, UploadParts DEF Call, CallAts

\* The advisory lock is free when it is taken, and the row is read under it.
LEMMA LockUploadStep ==
    ASSUME UInv, NEW c \in calls, LockRawUpload(c)
    PROVE  UInv'
<1>0. /\ UNCHANGED <<upload, parts, accepted, path, uploadBudget>> /\ UploadKept
      /\ c.at = "waiting" /\ \A e \in calls : ~HoldsUpload(e)
  BY Zenon DEF LockRawUpload, UploadLocked, UploadKept
<1>1. ShelfInv' /\ \A e \in calls : e # c => KnowsUpload(e)' /\ KnowsPath(e)'
  BY Zenon, <1>0, ShelfRests, OthersKnow
<1>2. c \in Call /\ c.kind \in Kinds /\ CallSteps(c) /\ KnowsUpload(c) /\ KnowsPath(c)
  BY Zenon, CallFacts
<1>3. c.kind # "put"
  BY <1>0, <1>2 DEF CallSteps, Writing
<1>4. CASE c.kind = "reclaim" /\ Moves(c, [c EXCEPT !.at = "cleanup"])
  <2> DEFINE d == [c EXCEPT !.at = "cleanup"]
  <2>1. /\ SameRequest(c, d) /\ d.at = "cleanup"
    <3>1. "cleanup" \in CallAts
      BY DEF CallAts
    <3> QED
      BY Zenon, <1>2, <3>1, CallMoved
  <2> HIDE DEF d
  <2>2. /\ CallSteps(d) /\ d.at \notin Writing /\ d.at \notin {"select", "write", "commit"}
        /\ d.at \notin {"stored", "clean", "write", "commit", "waiting", "loaded", "staged"}
        /\ d.kind = "reclaim"
    BY <1>4, <2>1 DEF CallSteps, SameRequest, Writing
  <2>3. KnowsUpload(d)'
    <3>1. upload.state \in Terminal
      BY Zenon, <1>2, <1>4 DEF KnowsUpload
    <3> QED
      BY Zenon, <1>0, <2>1, <2>2, <3>1 DEF KnowsUpload
  <2>4. KnowsPath(d)' /\ ~HoldsPath(d)
    BY Zenon, <2>2 DEF KnowsPath, HoldsPath
  <2>5. Moves(c, d) /\ d \in Call
    BY Zenon, <1>4, <2>1 DEF d, SameRequest
  <2> QED
    BY Zenon, <1>0, <1>1, <2>2, <2>3, <2>4, <2>5, CallMoves
<1>5. CASE /\ c.kind # "reclaim" /\ upload.state = "open"
           /\ Moves(c, [c EXCEPT !.at = "loaded", !.offset = upload.offset])
  <2>7. PICK d : d = [c EXCEPT !.at = "loaded", !.offset = upload.offset]
    BY Zenon
  <2>0. upload.offset \in Nat /\ ~upload.collected
    <3>1. upload.state \notin Terminal
      BY <1>5 DEF Terminal
    <3> QED
      BY Zenon, <3>1, UploadParts DEF ShelfInv, ShelfTyped, PartsRecorded
  <2>1. /\ d \in Call /\ d.kind = c.kind /\ d.at = "loaded" /\ d.offset = upload.offset
        /\ d.exists = c.exists
    <3>1. "loaded" \in CallAts
      BY DEF CallAts
    <3> QED
      BY Zenon, <1>2, <2>0, <2>7, <3>1 DEF Call, CallAts
  <2>2. /\ CallSteps(d) /\ d.at \notin Writing /\ d.at \notin {"select", "write", "commit"}
        /\ d.at \notin {"stored", "clean", "cleanup", "write", "commit"}
        /\ d.kind # "reclaim"
    BY <1>2, <1>3, <1>5, <2>1 DEF CallSteps, Kinds, Writing
  <2>3. KnowsUpload(d)'
    BY Zenon, <1>0, <2>0, <2>1, <2>2 DEF KnowsUpload
  <2>4. ~c.exists
    BY <1>0, <1>2 DEF KnowsPath
  <2>5. KnowsPath(d)' /\ ~HoldsPath(d)
    BY Zenon, <2>1, <2>2, <2>4 DEF KnowsPath, HoldsPath
  <2>6. Moves(c, d)
    BY Zenon, <1>5, <2>7
  <2> QED
    BY Zenon, <1>0, <1>1, <2>1, <2>2, <2>3, <2>5, <2>6, CallMoves
<1>6. CASE Ends(c)
  BY Zenon, <1>0, <1>6, DropStep
<1> QED
  BY Zenon, <1>4, <1>5, <1>6 DEF LockRawUpload

\* A chunk is stored beyond what is recorded.
LEMMA StoreStep ==
    ASSUME UInv, NEW c \in calls, StorePart(c)
    PROVE  UInv'
<1> DEFINE d == [c EXCEPT !.at = "stored"]
<1>0. /\ UNCHANGED <<upload, accepted, path, uploadBudget>> /\ c.at = "loaded"
      /\ c.kind \in {"patch", "append"} /\ Moves(c, d)
      /\ parts' = [o \in DOMAIN parts \union {c.offset} |->
                     IF o = c.offset THEN c.chunk ELSE parts[o]]
  BY Zenon DEF StorePart
<1>1. /\ c \in Call /\ c.offset \in Nat /\ c.chunk \in Chunks
      /\ KnowsUpload(c) /\ KnowsPath(c)
  BY Zenon, CallFacts
<1>2. HoldsUpload(c) /\ c.at \notin {"cleanup", "clean"}
  BY <1>0 DEF HoldsUpload
<1>3. c.offset = upload.offset /\ ~upload.collected
  BY Zenon, <1>1, <1>2 DEF KnowsUpload
<1>4. /\ SameRequest(c, d) /\ d.at = "stored" /\ d.offset = c.offset /\ d.exists = c.exists
  <2>1. "stored" \in CallAts
    BY DEF CallAts
  <2> QED
    BY Zenon, <1>1, <2>1, CallMoved
<1> HIDE DEF d
<1>5. /\ DOMAIN parts' = DOMAIN parts \union {c.offset} /\ parts'[c.offset] = c.chunk
      /\ \A o \in DOMAIN parts : o # c.offset => parts'[o] = parts[o]
      /\ parts' \in [DOMAIN parts' -> Chunks]
  <2>1. \A o \in DOMAIN parts : parts[o] \in Chunks
    BY Zenon, UploadParts DEF ShelfInv, ShelfTyped
  <2> QED
    BY Zenon, <1>0, <1>1, <2>1
<1>6. ShelfInv'
  <2>1. ShelfTyped /\ PartsRecorded
    BY Zenon, UploadParts DEF ShelfInv
  <2>2. ShelfTyped'
    BY Zenon, <1>0, <1>1, <1>5, <2>1 DEF ShelfTyped
  <2>3. ASSUME NEW o \in DOMAIN parts', o < upload.offset
        PROVE  parts'[o] = accepted[o + 1]
    <3>1. o # c.offset
      BY <1>3, <1>1, <2>3
    <3> QED
      BY Zenon, <1>5, <2>1, <2>3, <3>1 DEF PartsRecorded
  <2> QED
    BY Zenon, <1>0, <1>3, <1>5, <2>1, <2>2, <2>3 DEF ShelfInv, PartsRecorded
<1>7. \A e \in calls : e # c => KnowsUpload(e)' /\ KnowsPath(e)'
  BY Zenon, <1>0, <1>2, OthersKnow
<1>8. /\ CallSteps(d) /\ d.at \notin Writing /\ d.at \notin {"select", "write", "commit"}
      /\ d.at \notin {"cleanup", "clean", "write", "commit"} /\ d.kind # "reclaim"
  BY <1>0, <1>4 DEF CallSteps, SameRequest, Writing
<1>9. KnowsUpload(d)'
  BY Zenon, <1>0, <1>3, <1>4, <1>5, <1>8 DEF KnowsUpload, SameRequest
<1>10. ~c.exists
  BY <1>0, <1>1 DEF KnowsPath
<1>11. KnowsPath(d)' /\ ~HoldsPath(d)
  BY Zenon, <1>4, <1>8, <1>10 DEF KnowsPath, HoldsPath
<1> QED
  BY Zenon, <1>0, <1>2, <1>4, <1>6, <1>7, <1>8, <1>9, <1>11, SoleHolder, CallMoves DEF SameRequest

\* Appending at the recorded offset extends what is accepted.
LEMMA AppendedAt ==
    ASSUME NEW s \in Seq(Chunks), NEW x \in Chunks
    PROVE  LET t == Append(SubSeq(s, 1, Len(s)), x) IN
           /\ t \in Seq(Chunks) /\ Len(t) = Len(s) + 1 /\ t[Len(s) + 1] = x
           /\ \A i \in 1..Len(s) : t[i] = s[i]
<1>1. SubSeq(s, 1, Len(s)) \in Seq(Chunks) /\ Len(SubSeq(s, 1, Len(s))) = Len(s)
      /\ \A i \in 1..Len(s) : SubSeq(s, 1, Len(s))[i] = s[i]
  OBVIOUS
<1> QED
  BY <1>1

\* The offset is recorded with the chunk stored under it, if the upload is
\* still open.
LEMMA RecordStep ==
    ASSUME UInv, NEW c \in calls, UpdateRawUpload(c)
    PROVE  UInv'
<1>0. UNCHANGED <<parts, path, uploadBudget>> /\ c.at = "stored"
  BY Zenon DEF UpdateRawUpload
<1>1. /\ c \in Call /\ c.offset \in Nat /\ c.chunk \in Chunks
      /\ CallSteps(c) /\ KnowsUpload(c) /\ KnowsPath(c)
  BY Zenon, CallFacts
<1>2. HoldsUpload(c) /\ c.at \notin {"cleanup", "clean"} /\ c.kind \in {"patch", "append"}
  BY <1>0, <1>1 DEF HoldsUpload, CallSteps
<1>3. /\ c.offset = upload.offset /\ ~upload.collected
      /\ c.offset \in DOMAIN parts /\ parts[c.offset] = c.chunk
  BY Zenon, <1>0, <1>1, <1>2 DEF KnowsUpload
<1>4. CASE ~(upload.state = "open" /\ upload.live)
  BY Zenon, <1>0, <1>4, DropStep DEF UpdateRawUpload
<1>5. CASE upload.state = "open" /\ upload.live
  <2>1. /\ upload' = [upload EXCEPT !.offset = c.offset + 1]
        /\ accepted' = Append(SubSeq(accepted, 1, c.offset), c.chunk)
    BY Zenon, <1>5 DEF UpdateRawUpload
  <2>2. ShelfTyped /\ PartsRecorded
    BY Zenon, UploadParts DEF ShelfInv
  <2>3. accepted \in Seq(Chunks) /\ Len(accepted) = c.offset
    BY Zenon, <1>3, <2>2 DEF ShelfTyped, PartsRecorded
  <2>4. /\ accepted' \in Seq(Chunks) /\ Len(accepted') = c.offset + 1
        /\ accepted'[c.offset + 1] = c.chunk
        /\ \A i \in 1..c.offset : accepted'[i] = accepted[i]
    <3>1. accepted' = Append(SubSeq(accepted, 1, Len(accepted)), c.chunk)
      BY Zenon, <2>1, <2>3
    <3>2. /\ accepted' \in Seq(Chunks) /\ Len(accepted') = Len(accepted) + 1
          /\ accepted'[Len(accepted) + 1] = c.chunk
          /\ \A i \in 1..Len(accepted) : accepted'[i] = accepted[i]
      BY Zenon, <1>1, <2>3, <3>1, AppendedAt
    <3> QED
      BY Zenon, <2>3, <3>2
  <2>5. c.offset + 1 \in Nat
    BY <1>1
  <2>6. /\ upload' \in [state : {"absent", "open", "completed", "cancelled"},
                        offset : Nat, live : BOOLEAN, collected : BOOLEAN]
        /\ upload'.offset = c.offset + 1 /\ upload'.state = upload.state
        /\ upload'.collected = upload.collected
    BY Zenon, <2>1, <2>2, <2>5 DEF ShelfTyped
  <2>7. ASSUME NEW o \in DOMAIN parts, o < c.offset + 1
        PROVE  parts[o] = accepted'[o + 1]
    <3>1. o \in Nat
      BY Zenon, <2>2 DEF ShelfTyped
    <3>2. CASE o = c.offset
      BY Zenon, <1>3, <2>4, <3>2
    <3>3. CASE o < c.offset
      <4>1. o + 1 \in 1..c.offset
        BY <1>1, <3>1, <3>3
      <4> QED
        BY Zenon, <1>3, <2>2, <2>4, <3>3, <4>1 DEF PartsRecorded
    <3> QED
      BY <1>1, <2>7, <3>1, <3>2, <3>3
  <2>8. ShelfTyped'
    BY Zenon, <1>0, <2>2, <2>4, <2>6 DEF ShelfTyped
  <2>9. PartsRecorded'
    BY Zenon, <1>0, <1>3, <2>2, <2>4, <2>6, <2>7 DEF PartsRecorded
  <2>10. ShelfInv'
    BY Zenon, <2>8, <2>9 DEF ShelfInv
  <2>11. \A e \in calls : e # c => KnowsUpload(e)' /\ KnowsPath(e)'
    BY Zenon, <1>0, <1>2, <2>6, OthersKnow
  <2>12. CASE c.kind # "append"
    BY Zenon, <1>5, <2>10, <2>11, <2>12, CallEnds DEF UpdateRawUpload
  <2>13. CASE c.kind = "append"
    <3> DEFINE d == [c EXCEPT !.kind = "complete", !.at = "loaded", !.offset = @ + 1]
    <3>1. Moves(c, d)
      BY Zenon, <1>5, <2>13 DEF UpdateRawUpload
    <3>2. /\ d \in Call /\ d.kind = "complete" /\ d.at = "loaded"
          /\ d.offset = c.offset + 1 /\ d.exists = c.exists
      <4>1. "complete" \in Kinds /\ "loaded" \in CallAts
        BY DEF Kinds, CallAts
      <4> QED
        BY Zenon, <1>1, <2>5, <4>1 DEF Call, CallAts
    <3> HIDE DEF d
    <3>3. /\ CallSteps(d) /\ d.at \notin Writing /\ d.at \notin {"select", "write", "commit"}
          /\ d.at \notin {"stored", "clean", "cleanup", "write", "commit"} /\ d.kind # "reclaim"
      BY <3>2 DEF CallSteps, Writing
    <3>4. KnowsUpload(d)'
      BY Zenon, <1>3, <2>6, <3>2, <3>3 DEF KnowsUpload
    <3>5. ~c.exists
      BY <1>0, <1>1 DEF KnowsPath
    <3>6. KnowsPath(d)' /\ ~HoldsPath(d)
      BY Zenon, <3>2, <3>3, <3>5 DEF KnowsPath, HoldsPath
    <3> QED
      BY Zenon, <1>2, <2>10, <2>11, <3>1, <3>2, <3>3, <3>4, <3>6, SoleHolder, CallMoves
  <2> QED
    BY Zenon, <2>12, <2>13
<1> QED
  BY Zenon, <1>4, <1>5

\* What a completion assembles from contiguous chunks is what was accepted.
LEMMA AssembledIsAccepted ==
    ASSUME UInv, Assembled(upload.offset)
    PROVE  [i \in 1..Cardinality(DOMAIN parts) |-> parts[i - 1]] = accepted
<1> DEFINE n == upload.offset
<1>0. ShelfTyped /\ PartsRecorded
  BY Zenon, UploadParts DEF ShelfInv
<1>1. n \in Nat /\ accepted \in Seq(Chunks) /\ Len(accepted) = n
  BY Zenon, <1>0 DEF ShelfTyped, PartsRecorded
<1>2. DOMAIN parts = 0..(n - 1)
  BY Zenon DEF Assembled
<1>3. \A o \in 0..(n - 1) : o < n => parts[o] = accepted[o + 1]
  BY Zenon, <1>0, <1>2 DEF PartsRecorded
<1> HIDE DEF n
<1>4. Cardinality(DOMAIN parts) = n
  <2>1. 0 \in Int /\ n - 1 \in Int
    BY <1>1
  <2>2. Cardinality(0..(n - 1)) = IF 0 > n - 1 THEN 0 ELSE (n - 1) - 0 + 1
    BY <2>1, FS_Interval
  <2> QED
    BY <1>1, <1>2, <2>2
<1>5. ASSUME NEW i \in 1..n PROVE parts[i - 1] = accepted[i]
  <2>1. i - 1 \in 0..(n - 1) /\ i - 1 < n /\ (i - 1) + 1 = i
    BY <1>1
  <2> QED
    BY Zenon, <1>3, <2>1
<1>6. accepted = [i \in 1..n |-> accepted[i]]
  BY <1>1
<1>7. [i \in 1..n |-> parts[i - 1]] = [i \in 1..n |-> accepted[i]]
  BY Zenon, <1>5
<1> QED
  BY Zenon, <1>4, <1>6, <1>7

\* A completion stages what was accepted, or fails.
LEMMA ReadUploadStep ==
    ASSUME UInv, NEW c \in calls, ReadUpload(c)
    PROVE  UInv'
<1>0. /\ UNCHANGED <<upload, parts, accepted, path, uploadBudget>> /\ UploadKept
      /\ c.at = "loaded" /\ c.kind = "complete"
  BY Zenon DEF ReadUpload, UploadKept
<1>1. c \in Call /\ CallSteps(c) /\ KnowsUpload(c) /\ KnowsPath(c)
  BY Zenon, CallFacts
<1>2. HoldsUpload(c) /\ c.at \notin {"cleanup", "clean"}
  BY <1>0 DEF HoldsUpload
<1>3. c.offset = upload.offset /\ ~upload.collected
  BY Zenon, <1>1, <1>2 DEF KnowsUpload
<1>4. CASE Ends(c)
  BY Zenon, <1>0, <1>4, DropStep
<1>5. CASE ~Ends(c)
  <2>1. PICK d : /\ Moves(c, d) /\ Assembled(c.offset)
                 /\ d = [c EXCEPT !.at = "staged",
                           !.content = [i \in 1..Cardinality(DOMAIN parts) |-> parts[i - 1]]]
    BY Zenon, <1>5 DEF ReadUpload
  <2>2. d = [c EXCEPT !.at = "staged", !.content = accepted]
    BY Zenon, <1>3, <2>1, AssembledIsAccepted
  <2>3. accepted \in Seq(Chunks)
    BY Zenon, UploadParts DEF ShelfInv, ShelfTyped
  <2>4. /\ d \in Call /\ d.kind = c.kind /\ d.at = "staged" /\ d.offset = c.offset
        /\ d.exists = c.exists /\ d.content = accepted
    <3>1. "staged" \in CallAts
      BY DEF CallAts
    <3> QED
      BY Zenon, <1>1, <2>2, <2>3, <3>1 DEF Call, CallAts
  <2>5. /\ CallSteps(d) /\ d.at \notin {"select", "write", "commit"}
        /\ d.at \notin {"stored", "clean", "cleanup", "write", "commit"} /\ d.kind # "reclaim"
    BY <1>0, <2>4 DEF CallSteps, Writing
  <2>6. KnowsUpload(d)'
    BY Zenon, <1>0, <1>3, <2>4, <2>5 DEF KnowsUpload
  <2>7. ~c.exists
    BY <1>0, <1>1 DEF KnowsPath
  <2>8. KnowsPath(d)' /\ ~HoldsPath(d)
    BY Zenon, <2>4, <2>5, <2>7 DEF KnowsPath, HoldsPath
  <2>9. ShelfInv' /\ \A e \in calls : e # c => KnowsUpload(e)' /\ KnowsPath(e)'
    BY Zenon, <1>0, ShelfRests, OthersKnow
  <2> QED
    BY Zenon, <1>2, <2>1, <2>4, <2>5, <2>6, <2>8, <2>9, SoleHolder, CallMoves
<1> QED
  BY Zenon, <1>4, <1>5

\* The client gives the upload up.
LEMMA CancelUploadStep ==
    ASSUME UInv, NEW c \in calls, CancelRawUpload(c)
    PROVE  UInv'
<1> DEFINE d == [c EXCEPT !.at = "cleanup"]
<1>0. UNCHANGED <<parts, accepted, path, uploadBudget>> /\ c.at = "loaded" /\ c.kind = "delete"
  BY Zenon DEF CancelRawUpload
<1>1. CASE upload.state # "open"
  BY Zenon, <1>0, <1>1, DropStep DEF CancelRawUpload
<1>2. CASE upload.state = "open"
  <2>1. upload' = [upload EXCEPT !.state = "cancelled"] /\ Moves(c, d)
    BY Zenon, <1>2 DEF CancelRawUpload
  <2>2. c \in Call
    BY Zenon, CallFacts
  <2>3. SameRequest(c, d) /\ d.at = "cleanup"
    <3>1. "cleanup" \in CallAts
      BY DEF CallAts
    <3> QED
      BY Zenon, <2>2, <3>1, CallMoved
  <2> HIDE DEF d
  <2>4. /\ CallSteps(d) /\ d.at \notin Writing /\ d.at \notin {"select", "write", "commit"}
        /\ d.at \notin {"stored", "clean", "write", "commit", "waiting", "loaded", "staged"}
        /\ d.kind = "delete" /\ d.kind # "complete" /\ HoldsUpload(c)
        /\ "cancelled" \in Terminal
    BY <1>0, <2>3 DEF CallSteps, SameRequest, Writing, HoldsUpload, Terminal
  <2>5. ShelfTyped /\ PartsRecorded
    BY Zenon, UploadParts DEF ShelfInv
  <2>6. /\ upload' \in [state : {"absent", "open", "completed", "cancelled"},
                        offset : Nat, live : BOOLEAN, collected : BOOLEAN]
        /\ upload'.offset = upload.offset /\ upload'.state = "cancelled"
        /\ upload'.collected = upload.collected
    BY Zenon, <2>1, <2>5 DEF ShelfTyped
  <2>7. ShelfInv'
    BY Zenon, <1>0, <2>4, <2>5, <2>6 DEF ShelfInv, ShelfTyped, PartsRecorded
  <2>8. \A e \in calls : e # c => KnowsUpload(e)' /\ KnowsPath(e)'
    BY Zenon, <1>0, <2>4, <2>6, OthersKnow
  <2>9. KnowsUpload(d)'
    BY Zenon, <2>3, <2>4, <2>6 DEF KnowsUpload
  <2>10. KnowsPath(d)' /\ ~HoldsPath(d)
    BY Zenon, <2>4 DEF KnowsPath, HoldsPath
  <2> QED
    BY Zenon, <2>1, <2>3, <2>4, <2>7, <2>8, <2>9, <2>10, SoleHolder, CallMoves DEF SameRequest
<1> QED
  BY Zenon, <1>1, <1>2

\* Chunks are deleted by a call that holds the lock of an ended upload.
LEMMA DeleteUploadStep ==
    ASSUME UInv, NEW c \in calls, DeleteUpload(c)
    PROVE  UInv'
<1> DEFINE d == [c EXCEPT !.at = "clean"]
<1>0. UNCHANGED <<upload, accepted, path, uploadBudget>> /\ c.at = "cleanup"
  BY Zenon DEF DeleteUpload
<1>1. PICK left \in SUBSET DOMAIN parts :
        /\ parts' = [o \in left |-> parts[o]]
        /\ IF left = {} THEN Moves(c, d) ELSE Ends(c)
  BY Zenon DEF DeleteUpload
<1>2. c \in Call /\ c.kind \in Kinds /\ CallSteps(c) /\ KnowsUpload(c)
  BY Zenon, CallFacts
<1>3. HoldsUpload(c) /\ c.kind # "put"
  BY <1>0, <1>2 DEF CallSteps, HoldsUpload, Writing
<1>4. upload.state \in Terminal
  BY <1>0, <1>2 DEF KnowsUpload
<1>5. ShelfTyped /\ PartsRecorded
  BY Zenon, UploadParts DEF ShelfInv
<1>6. /\ DOMAIN parts' = left /\ \A o \in left : parts'[o] = parts[o] /\ o \in DOMAIN parts
      /\ parts' \in [DOMAIN parts' -> Chunks]
  BY Zenon, <1>1, <1>5 DEF ShelfTyped
<1>7. left = {} => parts' = NoParts
  BY Zenon, <1>1 DEF NoParts
<1>8. upload.collected => left = {}
  <2>1. DOMAIN NoParts = {}
    BY Zenon DEF NoParts
  <2> QED
    BY Zenon, <1>5, <2>1 DEF PartsRecorded
<1>9. ShelfInv'
  BY Zenon, <1>0, <1>4, <1>5, <1>6, <1>7, <1>8 DEF ShelfInv, ShelfTyped, PartsRecorded
<1>10. \A e \in calls : e # c => KnowsUpload(e)' /\ KnowsPath(e)'
  BY Zenon, <1>0, <1>3, OthersKnow
<1>11. CASE left # {}
  BY Zenon, <1>1, <1>9, <1>10, <1>11, CallEnds
<1>12. CASE left = {}
  <2>1. Moves(c, d)
    BY Zenon, <1>1, <1>12
  <2>2. SameRequest(c, d) /\ d.at = "clean"
    <3>1. "clean" \in CallAts
      BY DEF CallAts
    <3> QED
      BY Zenon, <1>2, <3>1, CallMoved
  <2> HIDE DEF d
  <2>3. /\ CallSteps(d) /\ d.at \notin Writing /\ d.at \notin {"select", "write", "commit"}
        /\ d.at \notin {"stored", "write", "commit", "waiting", "loaded", "staged"}
    BY <1>3, <2>2 DEF CallSteps, SameRequest, Writing
  <2>4. KnowsUpload(d)'
    BY Zenon, <1>0, <1>4, <1>7, <1>12, <2>2, <2>3 DEF KnowsUpload
  <2>5. KnowsPath(d)' /\ ~HoldsPath(d)
    BY Zenon, <2>3 DEF KnowsPath, HoldsPath
  <2> QED
    BY Zenon, <1>3, <1>9, <1>10, <2>1, <2>2, <2>3, <2>4, <2>5, SoleHolder, CallMoves DEF SameRequest
<1> QED
  BY Zenon, <1>11, <1>12

\* The upload is marked by a call that has left no chunk.
LEMMA MarkStep ==
    ASSUME UInv, NEW c \in calls, MarkRawUploadCollected(c)
    PROVE  UInv'
<1>0. /\ UNCHANGED <<parts, accepted, path, uploadBudget>> /\ c.at = "clean" /\ Ends(c)
      /\ upload' = [upload EXCEPT !.collected = upload.state \in {"completed", "cancelled"}]
  BY Zenon DEF MarkRawUploadCollected
<1>1. c.kind \in Kinds /\ CallSteps(c) /\ KnowsUpload(c)
  BY Zenon, CallFacts
<1>2. HoldsUpload(c) /\ c.kind # "put"
  BY <1>0, <1>1 DEF CallSteps, HoldsUpload, Writing
<1>3. upload.state \in Terminal /\ parts = NoParts
  BY <1>0, <1>1 DEF KnowsUpload
<1>4. ShelfTyped /\ PartsRecorded
  BY Zenon, UploadParts DEF ShelfInv
<1>5. upload' = [upload EXCEPT !.collected = TRUE]
  BY Zenon, <1>0, <1>3 DEF Terminal
<1>6. /\ upload' \in [state : {"absent", "open", "completed", "cancelled"},
                      offset : Nat, live : BOOLEAN, collected : BOOLEAN]
      /\ upload'.offset = upload.offset /\ upload'.state = upload.state
  BY Zenon, <1>4, <1>5 DEF ShelfTyped
<1>7. ShelfInv'
  BY Zenon, <1>0, <1>3, <1>4, <1>6 DEF ShelfInv, ShelfTyped, PartsRecorded
<1>8. \A e \in calls : e # c => KnowsUpload(e)' /\ KnowsPath(e)'
  BY Zenon, <1>0, <1>2, <1>6, OthersKnow
<1> QED
  BY Zenon, <1>0, <1>7, <1>8, CallEnds

\* Steps of the row alone: it is created, runs out, or is cancelled while no
\* transaction completes it.
LEMMA UploadRowStep ==
    ASSUME UInv, UNCHANGED <<parts, accepted, path, calls, uploadBudget>>,
           upload' \in [state : {"absent", "open", "completed", "cancelled"},
                        offset : Nat, live : BOOLEAN, collected : BOOLEAN],
           upload'.offset = upload.offset, upload'.collected = upload.collected,
           upload.state \in Terminal => upload'.state \in Terminal,
           \/ upload'.state = upload.state \/ upload.state # "open" \/ ~RowLocked
    PROVE  UInv'
<1>0. ShelfTyped /\ PartsRecorded /\ OneHolder /\ calls \subseteq Call
  BY Zenon, UploadParts DEF ShelfInv
<1>1. ShelfInv'
  BY Zenon, <1>0 DEF ShelfInv, ShelfTyped, PartsRecorded
<1>2. ASSUME NEW e \in calls
      PROVE  CallSteps(e) /\ KnowsUpload(e)' /\ KnowsPath(e)'
  <2>1. CallSteps(e) /\ KnowsUpload(e) /\ KnowsPath(e)
    BY Zenon, UploadParts
  <2>2. KnowsPath(e)'
    BY Zenon, <2>1, PathUntouched
  <2>3. e.kind = "complete" /\ e.at \in {"select", "write", "commit"} =>
          upload'.state = "open"
    BY Zenon, <2>1 DEF KnowsUpload, RowLocked
  <2> QED
    BY Zenon, <2>1, <2>2, <2>3 DEF KnowsUpload, HoldsUpload
<1>3. OneHolder'
  BY Zenon, <1>0 DEF OneHolder, HoldsUpload, HoldsPath
<1> QED
  BY Zenon, <1>0, <1>1, <1>2, <1>3, UploadPartsAfter

-----------------------------------------------------------------------------
(* Arrivals                                                                *)

\* Requests arrive with no lock.
LEMMA ArrivalStep ==
    ASSUME UInv, NEW kind \in Kinds, NEW chunk \in Chunks,
           NEW condition \in UploadConditions, NEW content \in Seq(Chunks),
           Arrives(kind, chunk, condition, content)
    PROVE  UInv'
<1>1. PICK d :
        d = [id |-> uploadBudget[kind], kind |-> kind, chunk |-> chunk,
             condition |-> condition,
             at |-> IF kind = "put" THEN "staged" ELSE "waiting", offset |-> 0,
             content |-> content, exists |-> FALSE, tries |-> 0]
  BY Zenon
<1>2. /\ calls' = calls \union {d} /\ UNCHANGED <<upload, parts, accepted, path>>
      /\ uploadBudget' = [uploadBudget EXCEPT ![kind] = @ - 1] /\ uploadBudget[kind] > 0
      /\ kind = "reclaim" => upload.state \in {"completed", "cancelled"}
  BY Zenon, <1>1 DEF Arrives
<1>3. ShelfTyped /\ PartsRecorded /\ OneHolder /\ calls \subseteq Call
  BY Zenon, UploadParts DEF ShelfInv
<1>4. uploadBudget[kind] \in Nat
  BY Zenon, <1>3 DEF ShelfTyped, UploadBudget
<1>5. uploadBudget[kind] - 1 \in Nat
  BY <1>2, <1>4
<1>6. uploadBudget' \in UploadBudget
  BY Zenon, <1>2, <1>3, <1>5 DEF ShelfTyped, UploadBudget
<1>7. /\ d \in Call /\ d.kind = kind /\ d.exists = FALSE
      /\ d.at = IF kind = "put" THEN "staged" ELSE "waiting"
  <2>1. 0 \in Nat /\ FALSE \in BOOLEAN /\ (IF kind = "put" THEN "staged" ELSE "waiting") \in CallAts
    BY DEF CallAts
  <2> QED
    BY Zenon, <1>1, <1>4, <2>1 DEF Call, CallAts
<1>8. /\ CallSteps(d) /\ ~HoldsUpload(d) /\ d.at \in {"staged", "waiting"}
      /\ d.kind = "complete" => d.at \notin Writing /\ d.at \notin {"select", "write", "commit"}
      /\ d.at \notin {"cleanup", "clean", "stored", "write", "commit"}
  BY <1>7 DEF CallSteps, HoldsUpload, Writing
<1>9. KnowsUpload(d)'
  BY Zenon, <1>2, <1>7, <1>8 DEF KnowsUpload, Terminal
<1>10. KnowsPath(d)' /\ ~HoldsPath(d)
  BY Zenon, <1>7, <1>8 DEF KnowsPath, HoldsPath
<1>11. ShelfInv'
  BY Zenon, <1>2, <1>3, <1>6 DEF ShelfInv, ShelfTyped, PartsRecorded
<1>12. \A e \in calls : KnowsUpload(e)' /\ KnowsPath(e)'
  BY Zenon, <1>2, UploadParts, UploadUntouched, PathUntouched DEF UploadKept
<1>13. OneHolder'
  <2>1. \A e, f \in calls' : HoldsUpload(e) /\ HoldsUpload(f) => e = f
    BY Zenon, <1>2, <1>3, <1>8 DEF OneHolder
  <2>2. \A e, f \in calls' : HoldsPath(e) /\ HoldsPath(f) => e = f
    BY Zenon, <1>2, <1>3, <1>10 DEF OneHolder
  <2> QED
    BY Zenon, <2>1, <2>2 DEF OneHolder, HoldsUpload, HoldsPath
<1>14. \A e \in calls' : e \in Call /\ CallSteps(e) /\ KnowsUpload(e)' /\ KnowsPath(e)'
  BY Zenon, <1>2, <1>7, <1>8, <1>9, <1>10, <1>12, UploadParts
<1> QED
  BY Zenon, <1>11, <1>13, <1>14, UploadPartsAfter

-----------------------------------------------------------------------------
(* Steps of the transactions on the path                                   *)

\* A transaction moves on: its request stays, and a completion has the row of
\* an open upload locked.
LEMMA TransactionStep ==
    ASSUME UInv, NEW c \in calls, NEW d, Moves(c, d), SameRequest(c, d),
           c.at \in Writing, d.at \in {"select", "write", "commit"},
           d.offset = c.offset, d.content = c.content,
           UNCHANGED <<upload, parts, accepted, path, uploadBudget>>,
           c.kind = "complete" => upload.state = "open",
           KnowsPath(d)', HoldsPath(d) => \A e \in calls : HoldsPath(e) => e = c
    PROVE  UInv'
<1>1. CallSteps(c) /\ KnowsUpload(c)
  BY Zenon, CallFacts
<1>2. /\ CallSteps(d) /\ d.at \notin {"cleanup", "clean", "stored"} /\ d.kind # "reclaim"
      /\ d.at \in Writing /\ (HoldsUpload(d) => HoldsUpload(c))
      /\ c.at \notin {"cleanup", "clean"}
  BY <1>1 DEF CallSteps, SameRequest, Writing, HoldsUpload
<1>3. KnowsUpload(d)'
  BY Zenon, <1>1, <1>2 DEF KnowsUpload, SameRequest
<1>4. ShelfInv' /\ \A e \in calls : e # c => KnowsUpload(e)' /\ KnowsPath(e)'
  BY Zenon, ShelfRests, OthersKnow DEF UploadKept
<1> QED
  BY Zenon, <1>2, <1>3, <1>4, SoleHolder, CallMoves DEF SameRequest

\* No condition, no refusal.
LEMMA UnconditionalAllows ==
    ASSUME NEW current
    PROVE  Allows(Unconditional, current)
  BY DEF Allows, Unconditional

\* The transaction begins with the upload open and its row locked.
LEMMA BeginStep ==
    ASSUME UInv, NEW c \in calls, BeginWrite(c)
    PROVE  UInv'
<1> DEFINE at == IF c.condition = Unconditional THEN "write" ELSE "select"
           d == [c EXCEPT !.at = at]
<1>0. UNCHANGED <<upload, parts, accepted, path, uploadBudget>> /\ c.at = "staged"
  BY Zenon DEF BeginWrite
<1>1. CASE Ends(c)
  BY Zenon, <1>0, <1>1, DropStep
<1>2. CASE ~Ends(c)
  <2>1. Moves(c, d) /\ (c.kind = "complete" => upload.state = "open")
    BY Zenon, <1>2 DEF BeginWrite
  <2>2. c \in Call /\ KnowsPath(c)
    BY Zenon, CallFacts
  <2>3. at \in CallAts
    BY DEF CallAts
  <2>4. /\ SameRequest(c, d) /\ d.at = at /\ d.offset = c.offset /\ d.content = c.content
        /\ d.exists = c.exists
    <3> HIDE DEF at
    <3> QED
      BY Zenon, <2>2, <2>3, CallMoved
  <2> HIDE DEF d
  <2>5. ~c.exists /\ c.at \in Writing /\ d.at \in {"select", "write", "commit"}
    BY <1>0, <2>2, <2>4 DEF KnowsPath, Writing
  <2>6. ~HoldsPath(d) /\ d.at \notin {"waiting", "loaded", "stored", "staged"}
    BY <2>4, <2>5 DEF HoldsPath
  <2>7. d.at = "write" => d.condition = Unconditional
    BY <2>4 DEF SameRequest
  <2>8. KnowsPath(d)'
    BY Zenon, <2>6, <2>7, UnconditionalAllows DEF KnowsPath, HoldsPath
  <2> QED
    BY Zenon, <1>0, <2>1, <2>4, <2>5, <2>6, <2>8, TransactionStep
<1> QED
  BY Zenon, <1>1, <1>2

\* The row found is locked; a row not found is not.
LEMMA SelectStep ==
    ASSUME UInv, NEW c \in calls, SelectCurrent(c)
    PROVE  UInv'
<1>0. /\ UNCHANGED <<upload, parts, accepted, path, uploadBudget>> /\ c.at = "select"
      /\ path = Absent \/ ~PathLocked(c)
  BY Zenon DEF SelectCurrent
<1>1. CASE Ends(c)
  BY Zenon, <1>0, <1>1, DropStep
<1>2. CASE ~Ends(c)
  <2>0. PICK found \in BOOLEAN : found = (path # Absent)
    BY Zenon
  <2>1. PICK d : d = [c EXCEPT !.at = "write", !.exists = found]
    BY Zenon
  <2>2. Moves(c, d) /\ Allows(c.condition, path)
    BY Zenon, <1>2, <2>0, <2>1 DEF SelectCurrent
  <2>3. c \in Call /\ CallSteps(c) /\ KnowsUpload(c)
    BY Zenon, CallFacts
  <2>4. /\ SameRequest(c, d) /\ d.at = "write" /\ d.offset = c.offset /\ d.content = c.content
        /\ d.exists = found
    <3>1. "write" \in CallAts
      BY DEF CallAts
    <3> QED
      BY Zenon, <2>1, <2>3, <3>1 DEF SameRequest, Call, CallAts
  <2>5. /\ c.at \in Writing /\ d.at \in {"select", "write", "commit"}
        /\ d.at \notin {"waiting", "loaded", "stored", "staged"}
        /\ c.kind = "complete" => upload.state = "open"
    BY <1>0, <2>3, <2>4 DEF Writing, KnowsUpload
  <2>6. KnowsPath(d)'
    BY Zenon, <1>0, <2>0, <2>2, <2>4, <2>5 DEF KnowsPath, SameRequest
  <2>7. HoldsPath(d) => \A e \in calls : HoldsPath(e) => e = c
    <3>1. HoldsPath(d) => path # Absent
      BY Zenon, <2>0, <2>4 DEF HoldsPath
    <3> QED
      BY Zenon, <1>0, <3>1 DEF HoldsPath, PathLocked
  <2> QED
    BY Zenon, <1>0, <2>2, <2>4, <2>5, <2>6, <2>7, TransactionStep
<1> QED
  BY Zenon, <1>1, <1>2

\* The reference is written by the holder of its row, or over none.
LEMMA WriteStep ==
    ASSUME UInv, NEW c \in calls, WriteReference(c)
    PROVE  UInv'
<1>0. /\ UNCHANGED <<upload, parts, accepted, path, uploadBudget>> /\ c.at = "write"
      /\ c.exists \/ ~PathLocked(c)
  BY Zenon DEF WriteReference
<1>1. c \in Call /\ KnowsUpload(c) /\ KnowsPath(c) /\ c.exists \in BOOLEAN /\ c.tries \in Nat
  BY Zenon, CallFacts
<1>2. /\ c.at \in Writing /\ (c.kind = "complete" => upload.state = "open")
      /\ (c.exists => HoldsPath(c))
  BY <1>0, <1>1 DEF Writing, KnowsUpload, HoldsPath
<1>3. CASE Ends(c)
  BY Zenon, <1>0, <1>3, DropStep
<1>4. CASE /\ c.exists \/ path = Absent \/ c.condition = Unconditional
           /\ Moves(c, [c EXCEPT !.at = "commit"])
  <2> DEFINE d == [c EXCEPT !.at = "commit"]
  <2>1. /\ SameRequest(c, d) /\ d.at = "commit" /\ d.offset = c.offset
        /\ d.content = c.content
    <3>1. "commit" \in CallAts
      BY DEF CallAts
    <3> QED
      BY Zenon, <1>1, <3>1, CallMoved
  <2> HIDE DEF d
  <2>2. /\ d.at \in {"select", "write", "commit"} /\ d.at # "write"
        /\ d.at \notin {"waiting", "loaded", "stored", "staged"}
    BY <2>1
  <2>3. Allows(c.condition, path)
    BY Zenon, <1>0, <1>1, <1>2, <1>4, UnconditionalAllows DEF KnowsPath
  <2>4. KnowsPath(d)'
    BY Zenon, <1>0, <2>1, <2>2, <2>3 DEF KnowsPath, SameRequest
  <2>5. \A e \in calls : HoldsPath(e) => e = c
    BY Zenon, <1>0, <1>2, SoleHolder DEF HoldsPath, PathLocked
  <2>6. Moves(c, d)
    BY Zenon, <1>4 DEF d
  <2> QED
    BY Zenon, <1>0, <1>2, <2>1, <2>2, <2>4, <2>5, <2>6, TransactionStep
<1>5. CASE Moves(c, [c EXCEPT !.at = "select", !.tries = @ + 1])
  <2> DEFINE d == [c EXCEPT !.at = "select", !.tries = @ + 1]
  <2>1. /\ SameRequest(c, d) /\ d.at = "select" /\ d.offset = c.offset
        /\ d.content = c.content
    <3>1. "select" \in CallAts /\ c.tries + 1 \in Nat
      BY <1>1 DEF CallAts
    <3> QED
      BY Zenon, <1>1, <3>1 DEF SameRequest, Call, CallAts
  <2> HIDE DEF d
  <2>2. /\ d.at \in {"select", "write", "commit"} /\ d.at # "write" /\ d.at # "commit"
        /\ d.at \notin {"waiting", "loaded", "stored", "staged"}
    BY <2>1
  <2>3. KnowsPath(d)' /\ ~HoldsPath(d)
    BY Zenon, <2>2 DEF KnowsPath, HoldsPath
  <2>4. Moves(c, d)
    BY Zenon, <1>5 DEF d
  <2> QED
    BY Zenon, <1>0, <1>2, <2>1, <2>2, <2>3, <2>4, TransactionStep
<1> QED
  BY Zenon, <1>3, <1>4, <1>5 DEF WriteReference

\* A committed write replaces the content, and ends the upload it completes.
LEMMA CommitStep ==
    ASSUME UInv, NEW c \in calls, CommitWrite(c)
    PROVE  UInv'
<1>0. UNCHANGED <<parts, accepted, uploadBudget>> /\ c.at = "commit" /\ path' = c.content
  BY Zenon DEF CommitWrite
<1>1. c \in Call /\ CallSteps(c) /\ KnowsUpload(c) /\ c.content \in Seq(Chunks)
  BY Zenon, CallFacts
<1>2. HoldsPath(c)
  BY Zenon, <1>0 DEF HoldsPath
<1>3. ShelfTyped /\ PartsRecorded
  BY Zenon, UploadParts DEF ShelfInv
<1>4. CASE c.kind # "complete"
  <2>1. Ends(c) /\ UNCHANGED upload
    BY Zenon, <1>4 DEF CommitWrite
  <2>2. ShelfInv'
    BY Zenon, <1>0, <1>1, <1>3, <2>1 DEF ShelfInv, ShelfTyped, PartsRecorded
  <2>3. \A e \in calls : e # c => KnowsUpload(e)' /\ KnowsPath(e)'
    BY Zenon, <1>0, <1>2, <2>1, OthersKnow DEF UploadKept
  <2> QED
    BY Zenon, <2>1, <2>2, <2>3, CallEnds
<1>5. CASE c.kind = "complete"
  <2> DEFINE d == [c EXCEPT !.at = "cleanup"]
  <2>1. upload' = [upload EXCEPT !.state = "completed"] /\ Moves(c, d)
    BY Zenon, <1>5 DEF CommitWrite
  <2>2. SameRequest(c, d) /\ d.at = "cleanup"
    <3>1. "cleanup" \in CallAts
      BY DEF CallAts
    <3> QED
      BY Zenon, <1>1, <3>1, CallMoved
  <2> HIDE DEF d
  <2>3. /\ CallSteps(d) /\ d.at \notin Writing /\ d.at \notin {"select", "write", "commit"}
        /\ d.at \notin {"stored", "clean", "write", "commit", "waiting", "loaded", "staged"}
        /\ HoldsUpload(c) /\ "completed" \in Terminal
    BY <1>0, <1>5, <2>2 DEF CallSteps, SameRequest, Writing, HoldsUpload, Terminal
  <2>4. /\ upload' \in [state : {"absent", "open", "completed", "cancelled"},
                        offset : Nat, live : BOOLEAN, collected : BOOLEAN]
        /\ upload'.offset = upload.offset /\ upload'.state = "completed"
        /\ upload'.collected = upload.collected
    BY Zenon, <1>3, <2>1 DEF ShelfTyped
  <2>5. ShelfInv'
    BY Zenon, <1>0, <1>1, <1>3, <2>3, <2>4 DEF ShelfInv, ShelfTyped, PartsRecorded
  <2>6. \A e \in calls : e # c => KnowsUpload(e)' /\ KnowsPath(e)'
    <3>1. upload.state \in Terminal => upload'.state \in Terminal
      BY Zenon, <2>3, <2>4
    <3> QED
      BY Zenon, <1>2, <2>3, <3>1, OthersKnow
  <2>7. KnowsUpload(d)'
    BY Zenon, <2>2, <2>3, <2>4 DEF KnowsUpload
  <2>8. KnowsPath(d)' /\ ~HoldsPath(d)
    BY Zenon, <2>3 DEF KnowsPath, HoldsPath
  <2> QED
    BY Zenon, <2>1, <2>2, <2>3, <2>5, <2>6, <2>7, <2>8, SoleHolder, CallMoves DEF SameRequest
<1> QED
  BY Zenon, <1>4, <1>5

\* The asset is deleted while no transaction has its row.
LEMMA DeleteAssetStep ==
    ASSUME UInv, DeleteRawAsset
    PROVE  UInv'
<1>0. /\ uploadBudget.remove > 0 /\ path' = Absent
      /\ uploadBudget' = [uploadBudget EXCEPT !.remove = @ - 1]
      /\ UNCHANGED <<upload, parts, accepted, calls>> /\ UploadKept
      /\ \A c \in calls : ~HoldsPath(c)
  BY Zenon DEF DeleteRawAsset, HoldsPath, UploadKept
<1>1. ShelfTyped /\ PartsRecorded /\ OneHolder /\ calls \subseteq Call
  BY Zenon, UploadParts DEF ShelfInv
<1>2. uploadBudget.remove \in Nat /\ "remove" \in Kinds \union {"parallel", "remove"}
  BY Zenon, <1>1 DEF ShelfTyped, UploadBudget
<1>3. uploadBudget.remove - 1 \in Nat
  BY <1>0, <1>2
<1>4. uploadBudget' \in UploadBudget
  BY Zenon, <1>0, <1>1, <1>2, <1>3 DEF ShelfTyped, UploadBudget
<1>5. ShelfInv'
  BY Zenon, <1>0, <1>1, <1>4 DEF ShelfInv, ShelfTyped, PartsRecorded
<1>6. \A e \in calls : CallSteps(e) /\ KnowsUpload(e)' /\ KnowsPath(e)'
  BY Zenon, <1>0, UploadParts, UploadUntouched, PathOfOthers
<1>7. OneHolder'
  BY Zenon, <1>0, <1>1 DEF OneHolder, HoldsUpload, HoldsPath
<1> QED
  BY Zenon, <1>0, <1>1, <1>5, <1>6, <1>7, UploadPartsAfter

-----------------------------------------------------------------------------
(* Theorems: Raw uploads                                                   *)

\* Nothing is uploaded, nothing is stored and nobody asks.
LEMMA UploadInitInv == UploadInit => UInv
<1> SUFFICES ASSUME UploadInit PROVE UInv
  OBVIOUS
<1>1. /\ upload = [state |-> "absent", offset |-> 0, live |-> FALSE, collected |-> FALSE]
      /\ parts = NoParts /\ accepted = <<>> /\ path = Absent /\ calls = {}
      /\ uploadBudget \in UploadBudget
  BY Zenon, UploadAssumption DEF UploadInit
<1>2. /\ upload \in [state : {"absent", "open", "completed", "cancelled"},
                     offset : Nat, live : BOOLEAN, collected : BOOLEAN]
      /\ upload.offset = 0 /\ upload.collected = FALSE
      /\ accepted \in Seq(Chunks) /\ Len(accepted) = 0
  BY <1>1
<1>3. DOMAIN parts = {} /\ parts \in [DOMAIN parts -> Chunks]
  BY Zenon, <1>1 DEF NoParts
<1>4. ShelfInv
  BY Zenon, <1>1, <1>2, <1>3 DEF ShelfInv, ShelfTyped, PartsRecorded
<1> QED
  BY Zenon, <1>1, <1>4, UploadParts DEF OneHolder

\* The row of the upload begins, runs out, and is cancelled.
LEMMA RowSteps ==
    ASSUME UInv, startUpload \/ ExpireRawUploads \/ UploadExpires
    PROVE  UInv'
<1>0. upload \in [state : {"absent", "open", "completed", "cancelled"},
                  offset : Nat, live : BOOLEAN, collected : BOOLEAN]
  BY Zenon, UploadParts DEF ShelfInv, ShelfTyped
<1>1. "cancelled" \in Terminal /\ "absent" \notin Terminal /\ "open" \notin Terminal
      /\ "absent" # "open"
  BY DEF Terminal
<1>2. CASE startUpload
  <2>1. /\ upload.state = "absent" /\ upload' = [upload EXCEPT !.state = "open", !.live = TRUE]
        /\ UNCHANGED <<parts, accepted, path, calls, uploadBudget>>
    BY Zenon, <1>2 DEF startUpload
  <2>2. /\ upload' \in [state : {"absent", "open", "completed", "cancelled"},
                        offset : Nat, live : BOOLEAN, collected : BOOLEAN]
        /\ upload'.offset = upload.offset /\ upload'.collected = upload.collected
    BY Zenon, <1>0, <2>1
  <2> QED
    BY Zenon, <1>1, <2>1, <2>2, UploadRowStep
<1>3. CASE ExpireRawUploads
  <2>1. /\ upload.state = "open" /\ upload' = [upload EXCEPT !.state = "cancelled"]
        /\ UNCHANGED <<parts, accepted, path, calls, uploadBudget>> /\ ~RowLocked
    BY Zenon, <1>3 DEF ExpireRawUploads
  <2>2. /\ upload' \in [state : {"absent", "open", "completed", "cancelled"},
                        offset : Nat, live : BOOLEAN, collected : BOOLEAN]
        /\ upload'.offset = upload.offset /\ upload'.collected = upload.collected
    BY Zenon, <1>0, <2>1
  <2> QED
    BY Zenon, <1>1, <2>1, <2>2, UploadRowStep
<1>4. CASE UploadExpires
  <2>1. /\ upload' = [upload EXCEPT !.live = FALSE]
        /\ UNCHANGED <<parts, accepted, path, calls, uploadBudget>>
    BY Zenon, <1>4 DEF UploadExpires
  <2>2. /\ upload' \in [state : {"absent", "open", "completed", "cancelled"},
                        offset : Nat, live : BOOLEAN, collected : BOOLEAN]
        /\ upload'.offset = upload.offset /\ upload'.collected = upload.collected
        /\ upload'.state = upload.state
    BY Zenon, <1>0, <2>1
  <2> QED
    BY Zenon, <2>1, <2>2, UploadRowStep
<1> QED
  BY Zenon, <1>2, <1>3, <1>4

\* Every step keeps the invariant.
LEMMA UploadStep ==
    ASSUME UInv, [UploadNext]_uploadVars
    PROVE  UInv'
<1>1. CASE UNCHANGED uploadVars
  <2>1. UNCHANGED <<upload, parts, accepted, path, calls, uploadBudget>>
    BY Zenon, <1>1 DEF uploadVars
  <2>2. upload \in [state : {"absent", "open", "completed", "cancelled"},
                    offset : Nat, live : BOOLEAN, collected : BOOLEAN]
    BY Zenon, UploadParts DEF ShelfInv, ShelfTyped
  <2> QED
    BY Zenon, <2>1, <2>2, UploadRowStep
<1>2. ASSUME NEW kind, NEW chunk, NEW condition, NEW content,
             Arrives(kind, chunk, condition, content),
             kind \in Kinds, chunk \in Chunks, condition \in UploadConditions,
             content \in Seq(Chunks)
      PROVE  UInv'
  BY Zenon, <1>2, ArrivalStep
<1>3. /\ SomeChunk \in Chunks /\ <<>> \in Seq(Chunks) /\ PutContents \subseteq Seq(Chunks)
      /\ Unconditional \in UploadConditions
      /\ {"patch", "complete", "append", "put", "delete", "reclaim"} \subseteq Kinds
  <2>1. SomeChunk \in Chunks
    BY Zenon, UploadAssumption DEF SomeChunk
  <2>2. <<>> \in Seq(Chunks)
    OBVIOUS
  <2> QED
    BY Zenon, <2>1, <2>2, UploadAssumption DEF Kinds
<1>4. CASE \/ \E chunk \in Chunks : Arrives("patch", chunk, Unconditional, <<>>)
           \/ \E condition \in UploadConditions :
                \/ Arrives("complete", SomeChunk, condition, <<>>)
                \/ \E chunk \in Chunks : Arrives("append", chunk, condition, <<>>)
                \/ \E content \in PutContents : Arrives("put", SomeChunk, condition, content)
           \/ \E kind \in {"delete", "reclaim"} : Arrives(kind, SomeChunk, Unconditional, <<>>)
  BY Zenon, <1>2, <1>3, <1>4
<1>5. ASSUME NEW c \in calls, DropCall(c) PROVE UInv'
  BY Zenon, <1>5, DropStep DEF DropCall
<1>6. CASE UploadNext
  BY Zenon, <1>4, <1>5, <1>6, RowSteps, DeleteAssetStep, LockUploadStep, StoreStep, RecordStep,
     ReadUploadStep, CancelUploadStep, DeleteUploadStep, MarkStep, BeginStep, SelectStep,
     WriteStep, CommitStep DEF UploadNext
<1> QED
  BY Zenon, <1>1, <1>6

\* Uploads never leave their invariant.
LEMMA UploadInvariant == UploadSpec => []UInv
<1>1. UInv /\ [UploadNext]_uploadVars => UInv'
  BY Zenon, UploadStep
<1> QED
  BY <1>1, UploadInitInv, PTL DEF UploadSpec

\* The upload, its chunks and the calls on it keep their types.
THEOREM UploadTypes == UploadSpec => []UploadTypeOK
<1>1. UInv => UploadTypeOK
  BY Zenon DEF UInv
<1> QED
  BY <1>1, UploadInvariant, PTL

\* A conditional write commits over a path in the state its condition names,
\* for any number of writers, deletions and conditions: the row that SELECT
\* FOR UPDATE found stays locked, and the INSERT over none is retried from the
\* check when another one wins.
THEOREM ConditionalWrites == UploadSpec => []ConditionHoldsAtCommit
<1>1. UInv => ConditionHoldsAtCommit
  BY Zenon DEF UInv, KnowsPath, HoldsPath, ConditionHoldsAtCommit
<1> QED
  BY <1>1, UploadInvariant, PTL

\* A completion publishes the accepted chunks of an upload that is open,
\* whatever requests stopped half-way, for any number of chunks and clients.
THEOREM CompletionPublishesAccepted == UploadSpec => []PublishesWhatWasAccepted
<1>1. UInv => PublishesWhatWasAccepted
  <2>1. "commit" \in {"select", "write", "commit"}
    OBVIOUS
  <2> QED
    BY Zenon, <2>1 DEF UInv, KnowsUpload, PublishesWhatWasAccepted, Writing
<1> QED
  BY <1>1, UploadInvariant, PTL

\* A collected upload has no chunk and gets none, even from a request that
\* was storing one when the upload expired.
THEOREM CollectedUploadsEmpty == UploadSpec => []CollectedLeavesNothing
<1>1. UInv => CollectedLeavesNothing
  BY Zenon DEF UInv, PartsRecorded, CollectedLeavesNothing
<1> QED
  BY <1>1, UploadInvariant, PTL

-----------------------------------------------------------------------------
(* Quota alerts: the invariant                                             *)

\* Observation m of t does not continue evidence of these bands.
StretchBegins(t, bands, m) ==
    \/ m = 1 \/ t[m - 1] = Break \/ t[m - 1].band \notin bands
    \/ ~(t[m].at - t[m - 1].at <= MaxGap) \/ t[m].quota # t[m - 1].quota

\* since is the time of the observation where the usage in these bands at the
\* end of t began; there is none when t does not end with such usage.
Shows(t, bands, since) ==
    IF since = None
      THEN Len(t) = 0 \/ t[Len(t)] = Break \/ t[Len(t)].band \notin bands
      ELSE \E m \in 1..Len(t) : /\ t[m].at = since /\ Continuous(t, bands, m, Len(t))
                                /\ StretchBegins(t, bands, m)

\* Time passes from sample to sample, up to the last one.
Ordered(t, last) ==
    /\ \A i \in 1..Len(t) : t[i] # Break => t[i].at > 0 /\ t[i].at <= last
    /\ \A i, j \in 1..Len(t) : i <= j /\ t[i] # Break /\ t[j] # Break => t[i].at <= t[j].at

\* The last sample of a timeline, as the rule remembers it.
Remembers(t, last, quota) ==
    Len(t) > 0 /\ t[Len(t)] # Break =>
        last = t[Len(t)].at /\ quota = t[Len(t)].quota /\ quota # 0

\* The evidence s is the one that the timeline t shows.
Shown(t, s) ==
    /\ Ordered(t, s.last) /\ Remembers(t, s.last, s.quota)
    /\ Shows(t, {3}, s.critical) /\ Shows(t, {2, 3}, s.warning)
    /\ s.severity # "normal" => Shows(t, {0}, s.recovery)

EvidenceShown == Shown(timeline, rule.state)

\* A failed read that still knows the version still knows the state.
ReadsFenced == \A f \in failedReads :
    f.version <= rule.version /\ (f.version = rule.version => f.state = rule.state)

\* The episode that runs has had the alerts of its severity at most.
Episodes(a, active, episode, severity) == \A i \in DOMAIN a :
    /\ a[i].episode <= episode
    /\ active /\ a[i].episode = episode =>
         a[i].scenario # "resolved" /\ (severity = "warning" => a[i].scenario = "warning")

EpisodeInv == Episodes(alerts, rule.active, rule.episode, rule.state.severity)

QInv == /\ QuotaTypeOK /\ EvidenceShown /\ ReadsFenced /\ EpisodeInv
        /\ SeverityIsDocumented /\ OncePerEpisode

-----------------------------------------------------------------------------
(* Timelines                                                               *)

\* One more observation leaves the earlier ones.
LEMMA OneMore ==
    ASSUME NEW t \in Seq(Observation), NEW o \in Observation, NEW u, u = Append(t, o)
    PROVE  /\ u \in Seq(Observation) /\ Len(t) \in Nat /\ Len(u) = Len(t) + 1
           /\ u[Len(u)] = o /\ u[Len(t) + 1] = o /\ \A i \in 1..Len(t) : u[i] = t[i]
  OBVIOUS

\* An observation of a timeline.
LEMMA Observed ==
    ASSUME NEW t \in Seq(Observation), NEW i \in 1..Len(t)
    PROVE  t[i] \in Observation /\ t[i].at \in Nat /\ t[i].quota \in Nat
<1>1. t[i] \in Observation
  OBVIOUS
<1> QED
  BY Zenon, <1>1 DEF Observation

\* What the past shows does not change.
LEMMA PastContinuous ==
    ASSUME NEW t, NEW u, NEW l \in Nat, \A i \in 1..l : u[i] = t[i],
           NEW bands, NEW n \in 1..l, NEW m \in 1..n
    PROVE  Continuous(u, bands, m, n) <=> Continuous(t, bands, m, n)
<1>1. \A k \in m..n : k \in 1..l
  OBVIOUS
<1>2. \A k \in m..(n - 1) : k \in 1..l /\ k + 1 \in 1..l
  OBVIOUS
<1>3. \A k \in m..n : u[k] = t[k]
  BY Zenon, <1>1
<1>4. \A k \in m..(n - 1) : u[k] = t[k] /\ u[k + 1] = t[k + 1]
  BY Zenon, <1>2
<1> QED
  BY Zenon, <1>3, <1>4 DEF Continuous

\* What was sustained stays so, and nothing else becomes so.
LEMMA PastSustained ==
    ASSUME NEW t, NEW u, NEW l \in Nat, \A i \in 1..l : u[i] = t[i], NEW n \in 1..l
    PROVE  /\ \A bands, hold : Sustained(u, bands, hold, n) <=> Sustained(t, bands, hold, n)
           /\ \A before : Documented(u, before, n) = Documented(t, before, n)
<1>1. n \in 1..n /\ \A m \in 1..n : m \in 1..l
  OBVIOUS
<1>2. \A m \in 1..n : u[m] = t[m]
  BY Zenon, <1>1
<1>3. ASSUME NEW bands, NEW hold
      PROVE  Sustained(u, bands, hold, n) <=> Sustained(t, bands, hold, n)
  <2>1. \A m \in 1..n : Continuous(u, bands, m, n) <=> Continuous(t, bands, m, n)
    BY Zenon, PastContinuous
  <2> QED
    BY Zenon, <1>1, <1>2, <2>1 DEF Sustained
<1>4. ASSUME NEW before PROVE Documented(u, before, n) = Documented(t, before, n)
  <2>1. /\ Sustained(u, {3}, CriticalFor, n) <=> Sustained(t, {3}, CriticalFor, n)
        /\ Sustained(u, {2, 3}, WarningFor, n) <=> Sustained(t, {2, 3}, WarningFor, n)
        /\ Sustained(u, {0}, RecoveryFor, n) <=> Sustained(t, {0}, RecoveryFor, n)
    BY Zenon, <1>3
  <2> QED
    BY <2>1 DEF Documented
<1> QED
  BY Zenon, <1>3, <1>4

\* Time at the end of evidence is not before its beginning.
LEMMA InOrder ==
    ASSUME NEW t \in Seq(Observation), NEW last, Ordered(t, last), NEW bands,
           NEW m \in 1..Len(t), Continuous(t, bands, m, Len(t))
    PROVE  \A k \in m..Len(t) : t[m].at <= t[k].at
<1>0. Len(t) \in Nat
  OBVIOUS
<1>1. \A k \in m..Len(t) : k \in 1..Len(t) /\ m <= k /\ m \in m..Len(t)
  BY <1>0
<1>2. \A k \in m..Len(t) : t[k] # Break
  BY Zenon DEF Continuous
<1> QED
  BY Zenon, <1>1, <1>2 DEF Ordered

\* Evidence that holds on at the end began nowhere inside.
LEMMA NoLaterBegin ==
    ASSUME NEW t \in Seq(Observation), NEW bands, NEW m \in 1..Len(t), NEW k \in 1..Len(t),
           Continuous(t, bands, k, Len(t)), StretchBegins(t, bands, m), k < m
    PROVE  FALSE
<1>0. Len(t) \in Nat
  OBVIOUS
<1>1. /\ m # 1 /\ m - 1 \in k..Len(t) /\ m \in k..Len(t) /\ m - 1 \in k..(Len(t) - 1)
      /\ (m - 1) + 1 = m
  BY <1>0
<1>2. t[m - 1] # Break /\ t[m - 1].band \in bands
  BY Zenon, <1>1 DEF Continuous
<1>3. t[(m - 1) + 1].at - t[m - 1].at <= MaxGap /\ t[(m - 1) + 1].quota = t[m - 1].quota
  BY Zenon, <1>1 DEF Continuous
<1>4. t[m].at - t[m - 1].at <= MaxGap /\ t[m].quota = t[m - 1].quota
  BY Zenon, <1>1, <1>3
<1> QED
  BY Zenon, <1>1, <1>2, <1>4 DEF StretchBegins

\* The time kept decides what the timeline shows: the evidence has matured
\* exactly when the usage has been sustained.
LEMMA Matured ==
    ASSUME NEW t \in Seq(Observation), NEW last, Ordered(t, last), Len(t) > 0,
           NEW bands, NEW since \in Nat, Shows(t, bands, since), NEW hold \in Nat \ {0}
    PROVE  Sustained(t, bands, hold, Len(t)) <=> matured(since, t[Len(t)].at, hold)
<1> DEFINE n == Len(t)
<1>0. n \in Nat /\ n \in 1..n
  OBVIOUS
<1> HIDE DEF n
<1>1. CASE since = None
  <2>1. t[n] = Break \/ t[n].band \notin bands
    BY <1>0, <1>1 DEF Shows, n
  <2>2. \A m \in 1..n : n \in m..n
    BY <1>0
  <2>3. \A m \in 1..n : ~Continuous(t, bands, m, n)
    BY Zenon, <2>1, <2>2 DEF Continuous
  <2> QED
    BY Zenon, <1>1, <2>3 DEF Sustained, matured, n
<1>2. CASE since # None
  <2>1. PICK m \in 1..n : /\ t[m].at = since /\ Continuous(t, bands, m, n)
                          /\ StretchBegins(t, bands, m)
    BY Zenon, <1>2 DEF Shows, n
  <2>2. ASSUME NEW k \in 1..n, Continuous(t, bands, k, n), t[n].at - t[k].at >= hold
        PROVE  t[n].at - t[m].at >= hold
    <3>1. ~(k < m)
      BY Zenon, <2>1, <2>2, NoLaterBegin DEF n
    <3>2. k \in m..n
      BY <1>0, <3>1
    <3>3. t[m].at <= t[k].at
      BY Zenon, <2>1, <3>2, InOrder DEF n
    <3>4. t[m].at \in Nat /\ t[k].at \in Nat /\ t[n].at \in Nat
      BY Zenon, <1>0, Observed DEF n
    <3>5. \A a, b, c \in Nat : c - b >= hold /\ a <= b => c - a >= hold
      OBVIOUS
    <3> QED
      BY Zenon, <2>2, <3>3, <3>4, <3>5
  <2> QED
    BY Zenon, <1>2, <2>1, <2>2 DEF Sustained, matured, n
<1> QED
  BY Zenon, <1>1, <1>2

\* The evidence is dropped by a gap and by a change of the quota.
Stale(last, quota, o) ==
    \/ last # None /\ o.at - last > MaxGap
    \/ quota # 0 /\ quota # o.quota

\* A sample prolongs the evidence, begins it or ends it, as the timeline does.
LEMMA EvidenceFollows ==
    ASSUME NEW t \in Seq(Observation), NEW o \in Observation, NEW u, u = Append(t, o),
           o # Break, o.at > 0, NEW bands, NEW cond, cond <=> o.band \in bands,
           NEW last \in Nat, NEW quota \in Nat, Ordered(t, last), Remembers(t, last, quota),
           NEW since \in Nat, Shows(t, bands, since),
           NEW kept, kept = IF Stale(last, quota, o) THEN None ELSE since
    PROVE  Shows(u, bands, continuousSince(kept, cond, o.at))
<1> DEFINE n == Len(t)
<1>0. /\ n \in Nat /\ Len(u) = n + 1 /\ u[n + 1] = o /\ n + 1 \in 1..(n + 1)
      /\ \A i \in 1..n : u[i] = t[i]
  BY OneMore
<1>1. o.at \in Nat /\ o.at # None /\ o.quota \in Nat
  BY DEF Observation, None
<1> HIDE DEF n
<1>2. n # 0 => n \in 1..n /\ n > 0
  BY <1>0
<1>3. n # 0 /\ t[n] # Break =>
        /\ last = t[n].at /\ quota = t[n].quota /\ quota # 0
        /\ last # None /\ t[n].at \in Nat
  <2> SUFFICES ASSUME n # 0, t[n] # Break
               PROVE  /\ last = t[n].at /\ quota = t[n].quota /\ quota # 0
                      /\ last # None /\ t[n].at \in Nat
    BY Zenon
  <2>1. last = t[n].at /\ quota = t[n].quota /\ quota # 0
    BY Zenon, <1>2 DEF Remembers, n
  <2>2. t[n].at > 0 /\ t[n].at \in Nat
    BY Zenon, <1>2, Observed DEF Ordered, n
  <2> QED
    BY <2>1, <2>2 DEF None
<1>4. CASE ~cond
  <2>1. continuousSince(kept, cond, o.at) = None
    BY Zenon, <1>4 DEF continuousSince
  <2> QED
    BY Zenon, <1>0, <1>4, <2>1 DEF Shows
<1>5. CASE cond /\ kept = None
  <2>1. continuousSince(kept, cond, o.at) = o.at
    BY Zenon, <1>5 DEF continuousSince
  <2>2. Continuous(u, bands, n + 1, n + 1)
    <3>1. \A k \in (n + 1)..(n + 1) : k = n + 1
      BY <1>0
    <3>2. \A k \in (n + 1)..((n + 1) - 1) : FALSE
      BY <1>0
    <3> QED
      BY Zenon, <1>0, <1>5, <3>1, <3>2 DEF Continuous
  <2>3. StretchBegins(u, bands, n + 1)
    <3>0. n \in Nat /\ (n + 1) - 1 = n
      BY <1>0
    <3>1. CASE n = 0
      BY <3>1 DEF StretchBegins
    <3>2. CASE n # 0 /\ (t[n] = Break \/ t[n].band \notin bands)
      BY Zenon, <1>0, <1>2, <3>0, <3>2 DEF StretchBegins
    <3>3. CASE n # 0 /\ t[n] # Break /\ t[n].band \in bands
      <4>1. since # None
        BY <1>2, <3>3 DEF Shows, n
      <4>2. Stale(last, quota, o)
        BY Zenon, <1>5, <4>1
      <4>3. o.at - last > MaxGap \/ quota # o.quota
        BY Zenon, <4>2 DEF Stale
      <4>4. ~(o.at - last <= MaxGap) \/ o.quota # quota
        BY <1>1, <4>3 DEF MaxGap
      <4>5. u[n] = t[n]
        BY Zenon, <1>0, <1>2, <3>3
      <4> QED
        BY Zenon, <1>0, <1>3, <3>0, <3>3, <4>4, <4>5 DEF StretchBegins
    <3> QED
      BY Zenon, <3>1, <3>2, <3>3
  <2> QED
    BY Zenon, <1>0, <1>1, <2>1, <2>2, <2>3 DEF Shows
<1>6. CASE cond /\ kept # None
  <2>1. continuousSince(kept, cond, o.at) = since /\ since # None /\ ~Stale(last, quota, o)
    BY Zenon, <1>6 DEF continuousSince
  <2>2. PICK m \in 1..n : /\ t[m].at = since /\ Continuous(t, bands, m, n)
                          /\ StretchBegins(t, bands, m)
    BY Zenon, <2>1 DEF Shows, n
  <2>3. /\ m \in 1..(n + 1) /\ n \in m..n /\ n # 0 /\ n \in 1..n
        /\ (m # 1 => m - 1 \in 1..n)
    BY <1>0
  <2>4. t[n] # Break
    BY Zenon, <2>2, <2>3 DEF Continuous
  <2>5. o.at - last <= MaxGap /\ o.quota = quota
    <3>1. last # None /\ quota # 0
      BY Zenon, <1>3, <2>3, <2>4
    <3>2. ~(o.at - last > MaxGap) /\ o.quota = quota
      BY Zenon, <2>1, <3>1 DEF Stale
    <3>3. \A a, b \in Nat : ~(a - b > MaxGap) => a - b <= MaxGap
      BY DEF MaxGap
    <3> QED
      BY Zenon, <1>1, <3>2, <3>3
  <2>6. Continuous(u, bands, m, n)
    BY Zenon, <1>0, <2>2, <2>3, PastContinuous
  <2>7. Continuous(u, bands, m, n + 1)
    <3>1. \A k \in m..(n + 1) : k \in m..n \/ k = n + 1
      BY <1>0
    <3>2. \A k \in m..((n + 1) - 1) : k \in m..(n - 1) \/ k = n
      BY <1>0
    <3>3. u[n + 1].at - u[n].at <= MaxGap /\ u[n + 1].quota = u[n].quota
      BY Zenon, <1>0, <1>3, <2>3, <2>4, <2>5
    <3>4. \A k \in m..(n + 1) : u[k] # Break /\ u[k].band \in bands
      BY Zenon, <1>0, <1>6, <2>6, <3>1 DEF Continuous
    <3>5. \A k \in m..((n + 1) - 1) :
            u[k + 1].at - u[k].at <= MaxGap /\ u[k + 1].quota = u[k].quota
      BY Zenon, <2>6, <3>2, <3>3 DEF Continuous
    <3> QED
      BY Zenon, <3>4, <3>5 DEF Continuous
  <2>8. u[m] = t[m] /\ StretchBegins(u, bands, m)
    BY Zenon, <1>0, <2>2, <2>3 DEF StretchBegins
  <2> QED
    BY Zenon, <1>0, <2>1, <2>2, <2>3, <2>7, <2>8 DEF Shows
<1> QED
  BY Zenon, <1>4, <1>5, <1>6

\* A sample comes after the others.
LEMMA SampleOrdered ==
    ASSUME NEW t \in Seq(Observation), NEW o \in Observation, NEW u, u = Append(t, o),
           NEW last \in Nat, Ordered(t, last), o.at > last
    PROVE  Ordered(u, o.at)
<1>0. /\ Len(t) \in Nat /\ Len(u) = Len(t) + 1 /\ u[Len(t) + 1] = o
      /\ \A i \in 1..Len(t) : u[i] = t[i]
  BY OneMore
<1>1. o.at \in Nat
  BY DEF Observation
<1>2. \A i \in 1..Len(u) : i \in 1..Len(t) \/ i = Len(t) + 1
  BY <1>0
<1>3. \A i \in 1..Len(t) : t[i] # Break => t[i].at > 0 /\ t[i].at <= o.at
  <2>1. \A i \in 1..Len(t) : t[i].at \in Nat
    BY Zenon, Observed
  <2>2. \A i \in 1..Len(t) : t[i] # Break => t[i].at > 0 /\ t[i].at <= last
    BY Zenon DEF Ordered
  <2> QED
    BY <1>1, <2>1, <2>2
<1>4. o.at > 0 /\ o.at <= o.at
  BY <1>1
<1>5. \A i \in 1..Len(u) : u[i] # Break => u[i].at > 0 /\ u[i].at <= o.at
  BY Zenon, <1>0, <1>2, <1>3, <1>4
<1>6. ASSUME NEW i \in 1..Len(u), NEW j \in 1..Len(u), i <= j, u[i] # Break, u[j] # Break
      PROVE  u[i].at <= u[j].at
  <2>1. CASE j = Len(t) + 1
    BY Zenon, <1>0, <1>5, <1>6, <2>1
  <2>2. CASE j \in 1..Len(t)
    <3>1. i \in 1..Len(t)
      BY <1>0, <1>6, <2>2
    <3> QED
      BY Zenon, <1>0, <1>6, <2>2, <3>1 DEF Ordered
  <2> QED
    BY Zenon, <1>2, <2>1, <2>2
<1> QED
  BY Zenon, <1>5, <1>6 DEF Ordered

\* A break shows nothing and says nothing of time.
LEMMA BreakShows ==
    ASSUME NEW t \in Seq(Observation), NEW u, u = Append(t, Break),
           NEW last \in Nat, Ordered(t, last)
    PROVE  /\ u \in Seq(Observation) /\ Ordered(u, last) /\ u[Len(u)] = Break
           /\ \A bands : Shows(u, bands, None)
           /\ \A before : Documented(u, before, Len(u)) = before
<1>0. Break \in Observation
  BY DEF Break, Observation, Bands, None
<1>1. /\ u \in Seq(Observation) /\ Len(t) \in Nat /\ Len(u) = Len(t) + 1
      /\ u[Len(t) + 1] = Break /\ u[Len(u)] = Break /\ \A i \in 1..Len(t) : u[i] = t[i]
  BY <1>0
<1>2. \A i \in 1..Len(u) : i \in 1..Len(t) \/ i = Len(t) + 1
  BY <1>1
<1>3. \A i \in 1..Len(u) : u[i] # Break => i \in 1..Len(t) /\ u[i] = t[i]
  BY Zenon, <1>1, <1>2
<1>4. Ordered(u, last)
  BY Zenon, <1>3 DEF Ordered
<1>5. \A bands : Shows(u, bands, None)
  BY Zenon, <1>1 DEF Shows
<1>6. \A bands, hold : ~Sustained(u, bands, hold, Len(u))
  <2>1. \A m \in 1..Len(u) : Len(u) \in m..Len(u)
    BY <1>1
  <2> QED
    BY Zenon, <1>1, <2>1 DEF Sustained, Continuous
<1>7. \A before : Documented(u, before, Len(u)) = before
  <2>1. /\ ~Sustained(u, {3}, CriticalFor, Len(u)) /\ ~Sustained(u, {2, 3}, WarningFor, Len(u))
        /\ ~Sustained(u, {0}, RecoveryFor, Len(u))
    BY Zenon, <1>6
  <2> QED
    BY <2>1 DEF Documented
<1> QED
  BY Zenon, <1>1, <1>4, <1>5, <1>7

-----------------------------------------------------------------------------
(* Quota alerts: steps                                                     *)

\* The documentation leads from severity start through the timeline t to last.
LeadsTo(t, start, last) ==
    \E severity \in [0..Len(t) -> Severities] :
        /\ severity[0] = start /\ severity[Len(t)] = last
        /\ \A n \in 1..Len(t) : severity[n] = Documented(t, severity[n - 1], n)

\* The severity after one more observation.
LEMMA DocumentedExtends ==
    ASSUME NEW t, NEW u, Len(t) \in Nat, Len(u) = Len(t) + 1,
           \A i \in 1..Len(t) : u[i] = t[i], NEW start, NEW before \in Severities, NEW after \in Severities,
           LeadsTo(t, start, before), after = Documented(u, before, Len(u))
    PROVE  LeadsTo(u, start, after)
<1>0. Len(t) \in Nat /\ Len(u) = Len(t) + 1
  BY Zenon
<1>1. PICK sev \in [0..Len(t) -> Severities] :
        /\ sev[0] = start /\ sev[Len(t)] = before
        /\ \A n \in 1..Len(t) : sev[n] = Documented(t, sev[n - 1], n)
  BY Zenon DEF LeadsTo
<1> DEFINE ext == [n \in 0..Len(u) |-> IF n = Len(u) THEN after ELSE sev[n]]
<1>2. /\ 0 \in 0..Len(u) /\ 0 # Len(u) /\ Len(u) \in 0..Len(u)
      /\ \A n \in 0..Len(u) : n # Len(u) => n \in 0..Len(t)
  BY <1>0
<1>3. ext \in [0..Len(u) -> Severities]
  BY Zenon, <1>1, <1>2
<1>4. ext[0] = start /\ ext[Len(u)] = after
  BY Zenon, <1>1, <1>2
<1>5. ASSUME NEW n \in 1..Len(u) PROVE ext[n] = Documented(u, ext[n - 1], n)
  <2>1. CASE n = Len(u)
    <3>1. n - 1 = Len(t) /\ Len(t) \in 0..Len(u) /\ Len(t) # Len(u)
      BY <1>0, <2>1
    <3>2. ext[n - 1] = before
      BY Zenon, <1>1, <3>1
    <3> QED
      BY Zenon, <1>4, <2>1, <3>2
  <2>2. CASE n # Len(u)
    <3>1. /\ n \in 1..Len(t) /\ n \in 0..Len(u) /\ n - 1 \in 0..Len(u)
          /\ n - 1 # Len(u)
      BY <1>0, <2>2
    <3>2. ext[n] = sev[n] /\ ext[n - 1] = sev[n - 1]
      BY Zenon, <2>2, <3>1
    <3>3. \A b : Documented(u, b, n) = Documented(t, b, n)
      BY Zenon, <3>1, PastSustained
    <3> QED
      BY Zenon, <1>1, <3>1, <3>2, <3>3
  <2> QED
    BY Zenon, <2>1, <2>2
<1> HIDE DEF ext
<1> QED
  BY Zenon, <1>3, <1>4, <1>5 DEF LeadsTo

\* Clearing the evidence keeps the severity, the quota and the time.
LEMMA ResetFields ==
    ASSUME NEW s \in Evidence
    PROVE  LET e == ResetState(s) IN
           /\ e \in Evidence /\ e.severity = s.severity /\ e.quota = s.quota
           /\ e.last = s.last /\ e.warning = None /\ e.critical = None /\ e.recovery = None
<1>1. None \in Nat
  BY DEF None
<1> QED
  BY Zenon, <1>1 DEF ResetState, Evidence

\* What is left of a piece of evidence when sample o comes.
Kept(s, since, o) == IF Stale(s.last, s.quota, o) THEN None ELSE since

\* The evidence after a sample, field by field.
LEMMA SampledFields ==
    ASSUME NEW s \in Evidence, NEW o \in Observation, NEW e, e = Sampled(s, o)
    PROVE  /\ e \in Evidence /\ e.severity = s.severity /\ e.quota = o.quota /\ e.last = o.at
           /\ e.warning = continuousSince(Kept(s, s.warning, o), o.band >= 2, o.at)
           /\ e.critical = continuousSince(Kept(s, s.critical, o), o.band = 3, o.at)
           /\ e.recovery = continuousSince(Kept(s, s.recovery, o),
                                           s.severity # "normal" /\ o.band = 0, o.at)
<1> DEFINE stale == Stale(s.last, s.quota, o)
           f == Fresh(s, o)
           w == continuousSince(f.warning, o.band >= 2, o.at)
           c == continuousSince(f.critical, o.band = 3, o.at)
           r == continuousSince(f.recovery, f.severity # "normal" /\ o.band = 0, o.at)
<1>0. o.at \in Nat /\ o.quota \in Nat
  BY Zenon DEF Observation
<1>1. f = IF stale THEN ResetState(s) ELSE s
  BY Zenon DEF Fresh, Stale
<1>2. /\ f \in Evidence /\ f.severity = s.severity
      /\ f.warning = IF stale THEN None ELSE s.warning
      /\ f.critical = IF stale THEN None ELSE s.critical
      /\ f.recovery = IF stale THEN None ELSE s.recovery
  <2> HIDE DEF f, stale
  <2> QED
    BY Zenon, <1>1, ResetFields
<1>3. e = [f EXCEPT !.quota = o.quota, !.last = o.at, !.warning = w, !.critical = c,
                    !.recovery = r]
  BY Zenon DEF Sampled
<1> HIDE DEF f, stale
<1>4. f.warning \in Nat /\ f.critical \in Nat /\ f.recovery \in Nat
  BY Zenon, <1>2 DEF Evidence
<1>5. \A since \in Nat : \A b : continuousSince(since, b, o.at) \in Nat
  BY <1>0 DEF continuousSince, None
<1>6. w \in Nat /\ c \in Nat /\ r \in Nat
  BY Zenon, <1>4, <1>5
<1> HIDE DEF w, c, r
<1>7. /\ e \in Evidence /\ e.severity = f.severity /\ e.quota = o.quota /\ e.last = o.at
      /\ e.warning = w /\ e.critical = c /\ e.recovery = r
  BY Zenon, <1>0, <1>2, <1>3, <1>6 DEF Evidence
<1> QED
  BY Zenon, <1>2, <1>7 DEF w, c, r, stale, Kept

\* What was sampled last shows where the kept evidence can be.
LEMMA SampledBands ==
    ASSUME NEW s \in Evidence, NEW o \in Observation, NEW e, e = Sampled(s, o)
    PROVE  /\ e.critical # None => o.band = 3
           /\ e.warning # None => o.band >= 2
           /\ e.recovery # None => o.band = 0 /\ s.severity # "normal"
<1>1. /\ e.warning = continuousSince(Kept(s, s.warning, o), o.band >= 2, o.at)
      /\ e.critical = continuousSince(Kept(s, s.critical, o), o.band = 3, o.at)
      /\ e.recovery = continuousSince(Kept(s, s.recovery, o),
                                      s.severity # "normal" /\ o.band = 0, o.at)
  BY Zenon, SampledFields
<1> QED
  BY Zenon, <1>1 DEF continuousSince

\* The evidence after a sample is what the longer timeline shows.
LEMMA SampledShown ==
    ASSUME NEW t \in Seq(Observation), NEW s \in Evidence, Shown(t, s),
           NEW o \in Observation, o.at > s.last, o.quota # 0, NEW u, u = Append(t, o),
           NEW e, e = Sampled(s, o)
    PROVE  /\ u[Len(u)] = o /\ Len(u) > 0 /\ o # Break
           /\ Ordered(u, o.at) /\ Remembers(u, o.at, o.quota)
           /\ Shows(u, {3}, e.critical) /\ Shows(u, {2, 3}, e.warning)
           /\ s.severity # "normal" => Shows(u, {0}, e.recovery)
<1>0. /\ s.last \in Nat /\ s.quota \in Nat /\ s.warning \in Nat /\ s.critical \in Nat
      /\ s.recovery \in Nat /\ o.at \in Nat /\ o.band \in Bands
  BY Zenon DEF Evidence, Observation
<1>1. o.at > 0 /\ o # Break
  <2>1. Break.quota = 0
    BY Zenon DEF Break
  <2> QED
    BY <1>0, <2>1
<1>2. u[Len(u)] = o /\ Len(u) > 0
  BY OneMore
<1>3. Ordered(u, o.at)
  BY Zenon, <1>0, SampleOrdered DEF Shown
<1>4. Remembers(u, o.at, o.quota)
  BY Zenon, <1>2 DEF Remembers
<1>5. /\ o.band = 3 <=> o.band \in {3}
      /\ o.band >= 2 <=> o.band \in {2, 3}
      /\ (s.severity # "normal" /\ o.band = 0) <=> (s.severity # "normal" /\ o.band \in {0})
  BY <1>0 DEF Bands
<1>6. /\ e.warning = continuousSince(Kept(s, s.warning, o), o.band >= 2, o.at)
      /\ e.critical = continuousSince(Kept(s, s.critical, o), o.band = 3, o.at)
      /\ e.recovery = continuousSince(Kept(s, s.recovery, o),
                                      s.severity # "normal" /\ o.band = 0, o.at)
  BY Zenon, SampledFields
<1>7. ASSUME NEW bands, NEW since \in Nat, Shows(t, bands, since), NEW cond,
             cond <=> o.band \in bands
      PROVE  Shows(u, bands, continuousSince(Kept(s, since, o), cond, o.at))
  <2>1. PICK kept : kept = Kept(s, since, o)
    BY Zenon
  <2>2. kept = IF Stale(s.last, s.quota, o) THEN None ELSE since
    BY Zenon, <2>1 DEF Kept
  <2>3. Ordered(t, s.last) /\ Remembers(t, s.last, s.quota)
    BY Zenon DEF Shown
  <2>4. Shows(u, bands, continuousSince(kept, cond, o.at))
    BY Zenon, <1>0, <1>1, <1>7, <2>2, <2>3, EvidenceFollows
  <2> QED
    BY Zenon, <2>1, <2>4
<1>8. Shows(u, {3}, e.critical)
  BY Zenon, <1>0, <1>5, <1>6, <1>7 DEF Shown
<1>9. Shows(u, {2, 3}, e.warning)
  BY Zenon, <1>0, <1>5, <1>6, <1>7 DEF Shown
<1>10. s.severity # "normal" => Shows(u, {0}, e.recovery)
  BY Zenon, <1>0, <1>5, <1>6, <1>7 DEF Shown
<1> QED
  BY Zenon, <1>1, <1>2, <1>3, <1>4, <1>8, <1>9, <1>10

\* The scenario of a sample, case by case: no two of them apply.
LEMMA ScenarioCases ==
    ASSUME NEW e \in Evidence, NEW o, NEW c, NEW w, NEW r,
           c <=> matured(e.critical, o.at, CriticalFor),
           w <=> matured(e.warning, o.at, WarningFor),
           r <=> matured(e.recovery, o.at, RecoveryFor), ~(c /\ r)
    PROVE  Scenario(e, o) = IF e.severity # "critical" /\ c THEN "critical"
                            ELSE IF e.severity = "normal" /\ w THEN "warning"
                            ELSE IF e.severity # "normal" /\ r THEN "resolved" ELSE "none"
<1>1. CASE e.severity # "critical" /\ c
  BY Zenon, <1>1 DEF Scenario
<1>2. CASE ~(e.severity # "critical" /\ c) /\ e.severity = "normal" /\ w
  BY Zenon, <1>2 DEF Scenario
<1>3. CASE /\ ~(e.severity # "critical" /\ c) /\ ~(e.severity = "normal" /\ w)
           /\ e.severity # "normal" /\ r
  BY Zenon, <1>3 DEF Scenario
<1>4. CASE /\ ~(e.severity # "critical" /\ c) /\ ~(e.severity = "normal" /\ w)
           /\ ~(e.severity # "normal" /\ r)
  BY Zenon, <1>4 DEF Scenario
<1> QED
  BY Zenon, <1>1, <1>2, <1>3, <1>4

\* The severity of the documentation, case by case.
LEMMA DocumentedCases ==
    ASSUME NEW u, NEW before \in Severities, NEW n, NEW c, NEW w, NEW r,
           c <=> Sustained(u, {3}, CriticalFor, n), w <=> Sustained(u, {2, 3}, WarningFor, n),
           before # "normal" => (r <=> Sustained(u, {0}, RecoveryFor, n)), ~(c /\ r)
    PROVE  Documented(u, before, n) = IF before # "critical" /\ c THEN "critical"
                                      ELSE IF before = "normal" /\ w THEN "warning"
                                      ELSE IF before # "normal" /\ r THEN "normal" ELSE before
<1>1. CASE before # "critical" /\ c
  BY Zenon, <1>1 DEF Documented
<1>2. CASE ~(before # "critical" /\ c) /\ before = "normal" /\ w
  BY Zenon, <1>2 DEF Documented
<1>3. CASE /\ ~(before # "critical" /\ c) /\ ~(before = "normal" /\ w)
           /\ before # "normal" /\ r
  BY Zenon, <1>3 DEF Documented
<1>4. CASE /\ ~(before # "critical" /\ c) /\ ~(before = "normal" /\ w)
           /\ ~(before # "normal" /\ r)
  BY Zenon, <1>4 DEF Documented
<1> QED
  BY Zenon, <1>1, <1>2, <1>3, <1>4

\* A transition takes the severity of its scenario and keeps the evidence; a
\* resolved alert has none.
LEMMA AdvanceFields ==
    ASSUME NEW s \in Evidence, NEW o \in Observation, NEW e, e = Sampled(s, o),
           NEW sc \in {"none", "warning", "critical", "resolved"}, sc = Scenario(e, o),
           NEW a, a = Advance(s, o)
    PROVE  /\ a \in Evidence /\ a.last = o.at /\ a.quota = o.quota
           /\ a.severity = IF sc = "none" THEN s.severity
                           ELSE IF sc = "resolved" THEN "normal" ELSE sc
           /\ IF sc = "resolved"
                THEN a.warning = None /\ a.critical = None /\ a.recovery = None
                ELSE a.warning = e.warning /\ a.critical = e.critical /\ a.recovery = e.recovery
<1>1. e \in Evidence /\ e.severity = s.severity /\ e.quota = o.quota /\ e.last = o.at
  BY Zenon, SampledFields
<1>2. a = CASE sc = "none" -> e
            [] sc = "resolved" -> ResetState([e EXCEPT !.severity = "normal"])
            [] OTHER -> [e EXCEPT !.severity = sc]
  BY Zenon DEF Advance
<1>3. CASE sc = "none"
  <2>1. a = e
    BY Zenon, <1>2, <1>3
  <2> QED
    BY Zenon, <1>1, <1>3, <2>1
<1>4. CASE sc = "resolved"
  <2>1. PICK d : d = [e EXCEPT !.severity = "normal"]
    BY Zenon
  <2>2. d \in Evidence /\ d.severity = "normal" /\ d.last = e.last /\ d.quota = e.quota
    BY Zenon, <1>1, <2>1 DEF Evidence, Severities
  <2>3. a = ResetState(d)
    BY Zenon, <1>2, <1>4, <2>1
  <2>4. /\ a \in Evidence /\ a.severity = d.severity /\ a.quota = d.quota /\ a.last = d.last
        /\ a.warning = None /\ a.critical = None /\ a.recovery = None
    BY Zenon, <2>2, <2>3, ResetFields
  <2> QED
    BY Zenon, <1>1, <1>4, <2>2, <2>4
<1>5. CASE sc \in {"warning", "critical"}
  <2>1. a = [e EXCEPT !.severity = sc]
    BY Zenon, <1>2, <1>5
  <2>2. sc \in Severities /\ sc # "none" /\ sc # "resolved"
    BY Zenon, <1>5 DEF Severities
  <2>3. /\ a \in Evidence /\ a.severity = sc /\ a.last = e.last /\ a.quota = e.quota
        /\ a.warning = e.warning /\ a.critical = e.critical /\ a.recovery = e.recovery
    BY Zenon, <1>1, <2>1, <2>2 DEF Evidence
  <2> QED
    BY Zenon, <1>1, <2>2, <2>3
<1> QED
  BY Zenon, <1>3, <1>4, <1>5

\* The evidence a after scenario sc of evidence s, at the end of timeline u.
Advanced(u, s, sc, a) ==
    /\ a \in Evidence /\ Shown(u, a)
    /\ a.severity = Documented(u, s.severity, Len(u))
    /\ sc \in {"none", "warning", "critical", "resolved"}
    /\ a.severity = IF sc = "none" THEN s.severity
                    ELSE IF sc = "resolved" THEN "normal" ELSE sc
    /\ sc = "warning" => s.severity = "normal"
    /\ sc = "critical" => s.severity # "critical"
    /\ sc = "resolved" => s.severity # "normal"

\* quotaalert.Advance: the severity is the one documented for the longer
\* timeline, the evidence is what that timeline shows, and each scenario is a
\* change of the severity.
LEMMA AdvanceDocumented ==
    ASSUME NEW t \in Seq(Observation), NEW s \in Evidence, Shown(t, s),
           NEW o \in Observation, o.at > s.last, o.quota # 0
    PROVE  Advanced(Append(t, o), s, Scenario(Sampled(s, o), o), Advance(s, o))
<1> SUFFICES ASSUME NEW u, u = Append(t, o), NEW sc, sc = Scenario(Sampled(s, o), o),
                    NEW a, a = Advance(s, o)
             PROVE  Advanced(u, s, sc, a)
  BY Zenon
<1>1. PICK e : e = Sampled(s, o)
  BY Zenon
<1>2. /\ e \in Evidence /\ e.severity = s.severity /\ s.severity \in Severities
      /\ e.critical \in Nat /\ e.warning \in Nat /\ e.recovery \in Nat
  <2>1. e \in Evidence /\ e.severity = s.severity
    BY Zenon, <1>1, SampledFields
  <2> QED
    BY Zenon, <2>1 DEF Evidence
<1>3. /\ e.critical # None => o.band = 3
      /\ e.warning # None => o.band >= 2
      /\ e.recovery # None => o.band = 0 /\ s.severity # "normal"
  BY Zenon, <1>1, SampledBands
<1>4. /\ u[Len(u)] = o /\ Len(u) > 0 /\ o # Break
      /\ Ordered(u, o.at) /\ Remembers(u, o.at, o.quota)
      /\ Shows(u, {3}, e.critical) /\ Shows(u, {2, 3}, e.warning)
      /\ s.severity # "normal" => Shows(u, {0}, e.recovery)
  BY Zenon, <1>1, SampledShown
<1>5. u \in Seq(Observation)
  BY Zenon, OneMore
<1>6. /\ WarningFor \in Nat \ {0} /\ CriticalFor \in Nat \ {0} /\ RecoveryFor \in Nat \ {0}
  BY Zenon, QuotaAssumption
<1>7. PICK c, w, r : /\ c = matured(e.critical, o.at, CriticalFor)
                     /\ w = matured(e.warning, o.at, WarningFor)
                     /\ r = matured(e.recovery, o.at, RecoveryFor)
  BY Zenon
<1>8. /\ c <=> Sustained(u, {3}, CriticalFor, Len(u))
      /\ w <=> Sustained(u, {2, 3}, WarningFor, Len(u))
      /\ s.severity # "normal" => (r <=> Sustained(u, {0}, RecoveryFor, Len(u)))
  <2>1. c <=> Sustained(u, {3}, CriticalFor, Len(u))
    BY Zenon, <1>2, <1>4, <1>5, <1>6, <1>7, Matured
  <2>2. w <=> Sustained(u, {2, 3}, WarningFor, Len(u))
    BY Zenon, <1>2, <1>4, <1>5, <1>6, <1>7, Matured
  <2>3. s.severity # "normal" => (r <=> Sustained(u, {0}, RecoveryFor, Len(u)))
    BY Zenon, <1>2, <1>4, <1>5, <1>6, <1>7, Matured
  <2> QED
    BY Zenon, <2>1, <2>2, <2>3
<1>9. /\ c => e.critical # None
      /\ w => e.warning # None
      /\ r => e.recovery # None
  BY Zenon, <1>7 DEF matured
<1>10. /\ ~(c /\ r) /\ (c \/ w => o.band # 0) /\ (r => o.band = 0)
  <2>1. o.band \in Nat
    BY DEF Observation, Bands
  <2> QED
    BY <1>3, <1>9, <2>1
<1>11. sc = IF s.severity # "critical" /\ c THEN "critical"
            ELSE IF s.severity = "normal" /\ w THEN "warning"
            ELSE IF s.severity # "normal" /\ r THEN "resolved" ELSE "none"
  <2>1. sc = Scenario(e, o)
    BY Zenon, <1>1
  <2>2. Scenario(e, o) = IF e.severity # "critical" /\ c THEN "critical"
                         ELSE IF e.severity = "normal" /\ w THEN "warning"
                         ELSE IF e.severity # "normal" /\ r THEN "resolved" ELSE "none"
    BY Zenon, <1>2, <1>7, <1>10, ScenarioCases
  <2> QED
    BY Zenon, <1>2, <2>1, <2>2
<1>12. Documented(u, s.severity, Len(u)) =
         IF s.severity # "critical" /\ c THEN "critical"
         ELSE IF s.severity = "normal" /\ w THEN "warning"
         ELSE IF s.severity # "normal" /\ r THEN "normal" ELSE s.severity
  <2>1. PICK v \in Severities : v = s.severity
    BY Zenon, <1>2
  <2>2. Documented(u, v, Len(u)) = IF v # "critical" /\ c THEN "critical"
                              ELSE IF v = "normal" /\ w THEN "warning"
                              ELSE IF v # "normal" /\ r THEN "normal" ELSE v
    BY <1>8, <1>10, <2>1, DocumentedCases
  <2> QED
    BY Zenon, <2>1, <2>2
<1>13. /\ sc \in {"none", "warning", "critical", "resolved"}
       /\ sc = "warning" => s.severity = "normal"
       /\ sc = "critical" => s.severity # "critical"
       /\ sc = "resolved" => s.severity # "normal"
  BY Zenon, <1>11
<1>14. /\ a \in Evidence /\ a.last = o.at /\ a.quota = o.quota
       /\ a.severity = IF sc = "none" THEN s.severity
                       ELSE IF sc = "resolved" THEN "normal" ELSE sc
       /\ IF sc = "resolved"
            THEN a.warning = None /\ a.critical = None /\ a.recovery = None
            ELSE a.warning = e.warning /\ a.critical = e.critical /\ a.recovery = e.recovery
  <2>1. sc = Scenario(e, o)
    BY Zenon, <1>1
  <2> QED
    BY <1>1, <1>13, <2>1, AdvanceFields
<1>15. a.severity = Documented(u, s.severity, Len(u))
  BY Zenon, <1>11, <1>12, <1>14
<1>16. Shown(u, a)
  <2>1. CASE sc = "resolved"
    <3>1. o.band = 0
      BY Zenon, <1>10, <1>11, <2>1
    <3>2. o.band \notin {3} /\ o.band \notin {2, 3}
      BY <3>1
    <3>3. Shows(u, {3}, None) /\ Shows(u, {2, 3}, None)
      BY Zenon, <1>4, <3>2 DEF Shows
    <3>4. a.severity = "normal"
      BY Zenon, <1>14, <2>1
    <3> QED
      BY Zenon, <1>4, <1>14, <2>1, <3>3, <3>4 DEF Shown
  <2>2. CASE sc # "resolved" /\ s.severity # "normal"
    BY Zenon, <1>4, <1>14, <2>2 DEF Shown
  <2>3. CASE sc # "resolved" /\ s.severity = "normal" /\ sc = "none"
    BY Zenon, <1>4, <1>14, <2>3 DEF Shown
  <2>4. CASE sc # "resolved" /\ s.severity = "normal" /\ sc # "none"
    <3>1. o.band \notin {0}
      BY Zenon, <1>10, <1>11, <2>4
    <3>2. Shows(u, {0}, None)
      BY Zenon, <1>4, <3>1 DEF Shows
    <3>3. e.recovery = None
      BY Zenon, <1>3, <2>4
    <3> QED
      BY Zenon, <1>4, <1>14, <2>4, <3>2, <3>3 DEF Shown
  <2> QED
    BY Zenon, <2>1, <2>2, <2>3, <2>4
<1> QED
  BY Zenon, <1>13, <1>14, <1>15, <1>16 DEF Advanced

\* Clearing the evidence is what a break of the timeline shows.
LEMMA ClearedShown ==
    ASSUME NEW t \in Seq(Observation), NEW s \in Evidence, Shown(t, s),
           NEW u, u = Append(t, Break), NEW a, a = ResetState(s)
    PROVE  /\ a \in Evidence /\ Shown(u, a) /\ a.severity = s.severity
           /\ a.severity = Documented(u, s.severity, Len(u))
<1>1. /\ a \in Evidence /\ a.severity = s.severity /\ a.quota = s.quota
      /\ a.last = s.last /\ a.warning = None /\ a.critical = None /\ a.recovery = None
  BY Zenon, ResetFields
<1>2. s.last \in Nat /\ Ordered(t, s.last)
  BY Zenon DEF Evidence, Shown
<1>3. /\ Ordered(u, s.last) /\ u[Len(u)] = Break
      /\ \A bands : Shows(u, bands, None)
      /\ \A before : Documented(u, before, Len(u)) = before
  BY Zenon, <1>2, BreakShows
<1>4. Remembers(u, s.last, s.quota)
  BY Zenon, <1>3 DEF Remembers
<1>5. Shown(u, a)
  BY Zenon, <1>1, <1>3, <1>4 DEF Shown
<1> QED
  BY Zenon, <1>1, <1>3, <1>5

\* An alert event, and OncePerEpisode of any of them.
Alert == [scenario : {"warning", "critical", "resolved"}, episode : Nat]

Once(a, active, episode, severity) ==
    /\ \A i, j \in DOMAIN a : a[i] = a[j] => i = j
    /\ active <=> severity # "normal"
    /\ active => a # <<>> /\ a[Len(a)] = [scenario |-> severity, episode |-> episode]

\* The events b after scenario sc of episode ep.
Alerted(b, sc, ep) ==
    LET after == IF sc = "resolved" THEN "normal" ELSE sc IN
    /\ b \in Seq(Alert) /\ ep \in Nat
    /\ Episodes(b, sc # "resolved", ep, after) /\ Once(b, sc # "resolved", ep, after)

\* A transition adds one event, to the episode that runs or to a new one, and
\* it is an event that episode has not had.
LEMMA EpisodeStep ==
    ASSUME NEW a \in Seq(Alert), NEW active \in BOOLEAN, NEW episode \in Nat,
           NEW severity \in Severities,
           Episodes(a, active, episode, severity), Once(a, active, episode, severity),
           NEW sc \in {"warning", "critical", "resolved"},
           sc = "warning" => severity = "normal", sc = "critical" => severity # "critical",
           sc = "resolved" => severity # "normal",
           NEW ep, ep = IF active THEN episode ELSE episode + 1
    PROVE  Alerted(Append(a, [scenario |-> sc, episode |-> ep]), sc, ep)
<1> SUFFICES ASSUME NEW x, x = [scenario |-> sc, episode |-> ep], NEW b, b = Append(a, x),
                    NEW after, after = IF sc = "resolved" THEN "normal" ELSE sc,
                    NEW next, next = (sc # "resolved")
             PROVE  /\ b \in Seq(Alert) /\ ep \in Nat
                    /\ Episodes(b, next, ep, after) /\ Once(b, next, ep, after)
  BY Zenon DEF Alerted
<1>0. ep \in Nat /\ episode <= ep /\ ep <= ep /\ (~active => ~(ep <= episode))
  OBVIOUS
<1>1. x \in Alert /\ x.scenario = sc /\ x.episode = ep
  BY Zenon, <1>0 DEF Alert
<1>2. /\ Len(a) \in Nat /\ Len(b) = Len(a) + 1 /\ b[Len(b)] = x /\ b[Len(a) + 1] = x
      /\ DOMAIN a = 1..Len(a) /\ DOMAIN b = 1..Len(b) /\ b # <<>>
      /\ \A i \in 1..Len(a) : b[i] = a[i]
  BY <1>1
<1>3. b \in Seq(Alert)
  BY <1>1
<1>4. \A i \in 1..Len(b) : i \in 1..Len(a) \/ i = Len(a) + 1
  BY <1>2
<1>5. \A i \in 1..Len(a) : a[i] \in Alert /\ a[i].episode \in Nat
  <2>1. \A i \in 1..Len(a) : a[i] \in Alert
    BY <1>2
  <2> QED
    BY Zenon, <2>1 DEF Alert
<1>6. \A i \in 1..Len(a) : /\ a[i].episode <= episode
                           /\ active /\ a[i].episode = episode =>
                                /\ a[i].scenario # "resolved"
                                /\ severity = "warning" => a[i].scenario = "warning"
  BY Zenon, <1>2 DEF Episodes
<1>7. \A i \in 1..Len(a) : a[i].episode <= ep /\ (~active => a[i].episode # ep)
  BY <1>0, <1>5, <1>6
<1>8. active => ep = episode /\ severity # "normal"
  BY Zenon DEF Once
<1>9. sc = "critical" /\ active => severity = "warning"
  BY Zenon, <1>8 DEF Severities
<1>10. \A i \in 1..Len(a) : a[i] # x
  <2> SUFFICES ASSUME NEW i \in 1..Len(a), a[i] = x PROVE FALSE
    BY Zenon
  <2>1. active /\ a[i].episode = episode /\ a[i].scenario = sc
    BY Zenon, <1>1, <1>7, <1>8
  <2>2. sc # "resolved" /\ sc # "warning" /\ sc = "critical"
    BY Zenon, <1>6, <1>8, <2>1
  <2> QED
    BY Zenon, <1>6, <1>9, <2>1, <2>2
<1>11. \A i, j \in DOMAIN b : b[i] = b[j] => i = j
  <2> SUFFICES ASSUME NEW i \in DOMAIN b, NEW j \in DOMAIN b, b[i] = b[j] PROVE i = j
    BY Zenon
  <2>1. CASE i \in 1..Len(a) /\ j \in 1..Len(a)
    BY Zenon, <1>2, <2>1 DEF Once
  <2>2. CASE i = Len(a) + 1 /\ j \in 1..Len(a)
    BY Zenon, <1>2, <1>10, <2>2
  <2>3. CASE i \in 1..Len(a) /\ j = Len(a) + 1
    BY Zenon, <1>2, <1>10, <2>3
  <2> QED
    BY Zenon, <1>2, <1>4, <2>1, <2>2, <2>3
<1>12. (sc # "resolved" <=> after # "normal") /\ (sc # "resolved" => after = sc)
  BY Zenon
<1>13. Once(b, next, ep, after)
  <2>1. sc # "resolved" => b[Len(b)] = [scenario |-> after, episode |-> ep]
    BY Zenon, <1>2, <1>12
  <2> QED
    BY Zenon, <1>2, <1>11, <1>12, <2>1 DEF Once
<1>14. ASSUME NEW i \in 1..Len(b)
       PROVE  /\ b[i].episode <= ep
              /\ sc # "resolved" /\ b[i].episode = ep =>
                   b[i].scenario # "resolved" /\ (after = "warning" => b[i].scenario = "warning")
  <2>1. CASE i = Len(a) + 1
    BY Zenon, <1>0, <1>1, <1>2, <1>12, <2>1
  <2>2. CASE i \in 1..Len(a)
    <3>1. b[i] = a[i]
      BY Zenon, <1>2, <2>2
    <3>2. b[i].episode <= ep
      BY Zenon, <1>7, <2>2, <3>1
    <3>3. sc # "resolved" /\ b[i].episode = ep =>
            active /\ a[i].episode = episode /\ a[i].scenario # "resolved"
      BY Zenon, <1>6, <1>7, <1>8, <2>2, <3>1
    <3>4. active /\ sc # "resolved" => after # "warning"
      BY Zenon, <1>8, <1>12
    <3> QED
      BY Zenon, <3>1, <3>2, <3>3, <3>4
  <2> QED
    BY Zenon, <1>4, <2>1, <2>2
<1>15. Episodes(b, next, ep, after)
  BY Zenon, <1>2, <1>14 DEF Episodes
<1> QED
  BY Zenon, <1>0, <1>3, <1>13, <1>15

\* One more observation and the severity documented for it.
LEMMA SeverityFollows ==
    ASSUME SeverityIsDocumented, timeline \in Seq(Observation), rule.state.severity \in Severities,
           rule'.state.severity \in Severities, NEW o \in Observation,
           timeline' = Append(timeline, o), quotaBudget'.start = quotaBudget.start,
           rule'.state.severity = Documented(timeline', rule.state.severity, Len(timeline'))
    PROVE  SeverityIsDocumented'
<1>1. PICK t, u, before, after, start :
        /\ t = timeline /\ u = timeline' /\ before = rule.state.severity
        /\ after = rule'.state.severity /\ start = quotaBudget.start
  BY Zenon
<1>2. Len(t) \in Nat /\ Len(u) = Len(t) + 1 /\ \A i \in 1..Len(t) : u[i] = t[i]
  BY <1>1, OneMore
<1>3. LeadsTo(t, start, before)
  BY Zenon, <1>1 DEF SeverityIsDocumented, LeadsTo
<1>4. before \in Severities /\ after \in Severities /\ after = Documented(u, before, Len(u))
  BY Zenon, <1>1
<1>5. LeadsTo(u, start, after)
  BY Zenon, <1>2, <1>3, <1>4, DocumentedExtends
<1> QED
  BY Zenon, <1>1, <1>5 DEF SeverityIsDocumented, LeadsTo

\* What is spent leaves the budget a budget, with the same start.
LEMMA QuotaSpent ==
    ASSUME quotaBudget \in QuotaBudget, NEW what \in {"samples", "failures", "clearings"},
           SpendQuota(what)
    PROVE  quotaBudget' \in QuotaBudget /\ quotaBudget'.start = quotaBudget.start
<1>1. PICK left : left = quotaBudget[what] - 1
  BY Zenon
<1>2. quotaBudget[what] \in Nat /\ quotaBudget[what] > 0
  BY Zenon DEF SpendQuota, QuotaBudget
<1>3. left \in Nat
  BY <1>1, <1>2
<1>4. quotaBudget' = [quotaBudget EXCEPT ![what] = left]
  BY Zenon, <1>1 DEF SpendQuota
<1>5. quotaBudget' \in QuotaBudget
  BY Zenon, <1>3, <1>4 DEF QuotaBudget
<1> QED
  BY Zenon, <1>4, <1>5 DEF QuotaBudget

\* The fields of the state, and the parameterised forms of the invariant.
LEMMA QuotaFields ==
    ASSUME QInv
    PROVE  /\ rule.state \in Evidence /\ rule.version \in Nat /\ rule.episode \in Nat
           /\ rule.active \in BOOLEAN /\ rule.state.severity \in Severities
           /\ rule.state.last \in Nat
           /\ alerts \in Seq(Alert) /\ timeline \in Seq(Observation)
           /\ quotaBudget \in QuotaBudget /\ quotaBudget.quotas \in Nat
           /\ Shown(timeline, rule.state)
           /\ Episodes(alerts, rule.active, rule.episode, rule.state.severity)
           /\ Once(alerts, rule.active, rule.episode, rule.state.severity)
<1>1. rule.state \in Evidence /\ quotaBudget \in QuotaBudget
  BY Zenon DEF QInv, QuotaTypeOK
<1>2. rule.state.severity \in Severities /\ rule.state.last \in Nat /\ quotaBudget.quotas \in Nat
  BY Zenon, <1>1 DEF Evidence, QuotaBudget
<1> QED
  BY Zenon, <1>1, <1>2
     DEF QInv, QuotaTypeOK, Alert, EvidenceShown, EpisodeInv, OncePerEpisode, Once

\* The invariant of the next state, from the parameterised forms.
LEMMA QuotaAgain ==
    ASSUME NEW state \in Evidence, NEW version \in Nat, NEW episode \in Nat, NEW active \in BOOLEAN,
           rule' = [state |-> state, version |-> version, episode |-> episode, active |-> active],
           failedReads' \subseteq [state : Evidence, version : Nat],
           alerts' \in Seq(Alert), timeline' \in Seq(Observation), quotaBudget' \in QuotaBudget,
           Shown(timeline', state), ReadsFenced', SeverityIsDocumented',
           Episodes(alerts', active, episode, state.severity),
           Once(alerts', active, episode, state.severity)
    PROVE  QInv'
<1>1. /\ rule'.state = state /\ rule'.version = version /\ rule'.episode = episode
      /\ rule'.active = active
      /\ rule' \in [state : Evidence, version : Nat, episode : Nat, active : BOOLEAN]
  BY Zenon
<1>2. QuotaTypeOK'
  BY Zenon, <1>1 DEF QuotaTypeOK, Alert
<1>3. EvidenceShown' /\ EpisodeInv' /\ OncePerEpisode'
  BY Zenon, <1>1 DEF EvidenceShown, EpisodeInv, OncePerEpisode, Once
<1> QED
  BY Zenon, <1>2, <1>3 DEF QInv

\* A transaction that raises the version outdates every failed read.
LEMMA ReadsOutdated ==
    ASSUME QInv, rule'.version = rule.version + 1, failedReads' \subseteq failedReads
    PROVE  ReadsFenced' /\ failedReads' \subseteq [state : Evidence, version : Nat]
<1>1. failedReads' \subseteq [state : Evidence, version : Nat] /\ rule.version \in Nat
  BY Zenon, QuotaFields DEF QInv, QuotaTypeOK
<1>2. \A f \in failedReads' : f.version \in Nat /\ f.version <= rule.version
  BY Zenon, <1>1 DEF QInv, ReadsFenced
<1>3. \A f \in failedReads' : f.version <= rule'.version /\ f.version # rule'.version
  BY <1>1, <1>2
<1> QED
  BY Zenon, <1>1, <1>3 DEF ReadsFenced

\* EvaluateNextRepositoryQuotaAlert preserves the invariant.
LEMMA SampleStep ==
    ASSUME QInv, NEW band \in Bands, NEW interval \in Intervals,
           NEW quota \in 1..quotaBudget.quotas,
           EvaluateNextRepositoryQuotaAlert(band, interval, quota)
    PROVE  QInv'
<1>0. /\ rule.state \in Evidence /\ rule.version \in Nat /\ rule.episode \in Nat
      /\ rule.active \in BOOLEAN /\ rule.state.severity \in Severities
      /\ rule.state.last \in Nat
      /\ alerts \in Seq(Alert) /\ timeline \in Seq(Observation)
      /\ quotaBudget \in QuotaBudget /\ quotaBudget.quotas \in Nat
      /\ Shown(timeline, rule.state)
      /\ Episodes(alerts, rule.active, rule.episode, rule.state.severity)
      /\ Once(alerts, rule.active, rule.episode, rule.state.severity)
  BY Zenon, QuotaFields
<1>1. PICK s, t, o, u, a, sc :
        /\ s = rule.state /\ t = timeline
        /\ o = [at |-> rule.state.last + interval, band |-> band, quota |-> quota]
        /\ u = Append(t, o) /\ a = Advance(s, o) /\ sc = Scenario(Sampled(s, o), o)
  BY Zenon
<1>2. PICK ep : ep = IF rule.active THEN rule.episode ELSE rule.episode + 1
  BY Zenon
<1>3. /\ SpendQuota("samples") /\ timeline' = u /\ failedReads' = failedReads
      /\ rule' = [state |-> a, version |-> rule.version + 1,
                  episode |-> IF sc = "none" THEN rule.episode ELSE ep,
                  active |-> CASE sc = "none" -> rule.active [] OTHER -> sc # "resolved"]
      /\ alerts' = IF sc = "none" THEN alerts
                     ELSE Append(alerts, [scenario |-> sc, episode |-> ep])
  BY Zenon, <1>1, <1>2 DEF EvaluateNextRepositoryQuotaAlert
<1>4. o \in Observation /\ o.at > s.last /\ o.quota # 0
  <2>1. interval \in Nat \ {0} /\ quota \in Nat /\ quota # 0
    BY <1>0, QuotaAssumption
  <2>2. rule.state.last + interval \in Nat /\ rule.state.last + interval > rule.state.last
    BY <1>0, <2>1
  <2>3. o.at = rule.state.last + interval /\ o.quota = quota /\ o \in Observation
    BY Zenon, <1>1, <2>1, <2>2 DEF Observation
  <2> QED
    BY Zenon, <1>1, <2>1, <2>2, <2>3
<1>5. /\ a \in Evidence /\ Shown(u, a)
      /\ a.severity = Documented(u, s.severity, Len(u))
      /\ sc \in {"none", "warning", "critical", "resolved"}
      /\ a.severity = IF sc = "none" THEN s.severity
                      ELSE IF sc = "resolved" THEN "normal" ELSE sc
      /\ sc = "warning" => s.severity = "normal"
      /\ sc = "critical" => s.severity # "critical"
      /\ sc = "resolved" => s.severity # "normal"
  <2>1. t \in Seq(Observation) /\ s \in Evidence /\ Shown(t, s)
    BY Zenon, <1>0, <1>1
  <2>2. Advanced(Append(t, o), s, Scenario(Sampled(s, o), o), Advance(s, o))
    BY Zenon, <1>4, <2>1, AdvanceDocumented
  <2>3. Advanced(u, s, sc, a)
    BY Zenon, <1>1, <2>2
  <2> QED
    BY Zenon, <2>3 DEF Advanced
<1>6. rule'.state = a /\ rule'.version = rule.version + 1 /\ rule.version + 1 \in Nat
  BY <1>0, <1>3
<1>7. ReadsFenced' /\ failedReads' \subseteq [state : Evidence, version : Nat]
  BY Zenon, <1>3, <1>6, ReadsOutdated
<1>8. quotaBudget' \in QuotaBudget /\ quotaBudget'.start = quotaBudget.start
  BY Zenon, <1>0, <1>3, QuotaSpent
<1>9. timeline' \in Seq(Observation)
  BY <1>0, <1>1, <1>3, <1>4, OneMore
<1>10. SeverityIsDocumented'
  <2>1. a.severity \in Severities
    BY Zenon, <1>5 DEF Evidence
  <2>2. timeline' = Append(timeline, o)
    BY Zenon, <1>1, <1>3
  <2> QED
    BY Zenon, <1>0, <1>1, <1>3, <1>4, <1>5, <1>6, <1>8, <2>1, <2>2, SeverityFollows DEF QInv
<1>11. CASE sc = "none"
  <2>1. /\ rule' = [state |-> a, version |-> rule.version + 1, episode |-> rule.episode,
                    active |-> rule.active]
        /\ alerts' = alerts /\ a.severity = rule.state.severity
    BY Zenon, <1>1, <1>3, <1>5, <1>11
  <2> QED
    BY Zenon, <1>0, <1>3, <1>5, <1>6, <1>7, <1>8, <1>9, <1>10, <2>1, QuotaAgain
<1>12. CASE sc \in {"warning", "critical", "resolved"}
  <2>1. PICK x, b, after, active :
          /\ x = [scenario |-> sc, episode |-> ep] /\ b = Append(alerts, x)
          /\ after = IF sc = "resolved" THEN "normal" ELSE sc
          /\ active = (sc # "resolved") /\ active \in BOOLEAN
    BY Zenon
  <2>2. /\ rule' = [state |-> a, version |-> rule.version + 1, episode |-> ep, active |-> active]
        /\ alerts' = b /\ a.severity = after
    BY Zenon, <1>3, <1>5, <1>12, <2>1
  <2>3. /\ b \in Seq(Alert) /\ ep \in Nat
        /\ Episodes(b, active, ep, after) /\ Once(b, active, ep, after)
    <3>1. /\ sc = "warning" => rule.state.severity = "normal"
          /\ sc = "critical" => rule.state.severity # "critical"
          /\ sc = "resolved" => rule.state.severity # "normal"
      BY Zenon, <1>1, <1>5
    <3>2. Alerted(Append(alerts, [scenario |-> sc, episode |-> ep]), sc, ep)
      BY Zenon, <1>0, <1>2, <1>12, <3>1, EpisodeStep
    <3> QED
      BY Zenon, <2>1, <3>2 DEF Alerted
  <2>4. /\ alerts' \in Seq(Alert) /\ Shown(timeline', a)
        /\ Episodes(alerts', active, ep, a.severity) /\ Once(alerts', active, ep, a.severity)
    BY Zenon, <1>3, <1>5, <2>2, <2>3
  <2>5. active \in BOOLEAN
    BY Zenon, <2>1
  <2> QED
    BY Zenon, <1>5, <1>6, <1>7, <1>8, <1>9, <1>10, <2>2, <2>3, <2>4, <2>5, QuotaAgain
<1> QED
  BY Zenon, <1>5, <1>11, <1>12

\* Clearing the evidence of the rule as it is preserves the invariant: an
\* outcome without a sample, a change of the configuration, a failed read.
LEMMA ClearStep ==
    ASSUME QInv, failedReads' \subseteq failedReads, alerts' = alerts,
           quotaBudget' \in QuotaBudget, quotaBudget'.start = quotaBudget.start,
           timeline' = Append(timeline, Break),
           rule' = [rule EXCEPT !.state = ResetState(rule.state), !.version = @ + 1]
    PROVE  QInv'
<1>0. /\ rule.state \in Evidence /\ rule.version \in Nat /\ rule.episode \in Nat
      /\ rule.active \in BOOLEAN /\ rule.state.severity \in Severities
      /\ alerts \in Seq(Alert) /\ timeline \in Seq(Observation)
      /\ Shown(timeline, rule.state)
      /\ Episodes(alerts, rule.active, rule.episode, rule.state.severity)
      /\ Once(alerts, rule.active, rule.episode, rule.state.severity)
  BY Zenon, QuotaFields
<1>1. PICK s, t, u, a : /\ s = rule.state /\ t = timeline /\ u = timeline'
                        /\ a = ResetState(rule.state)
  BY Zenon
<1>2. /\ a \in Evidence /\ Shown(u, a) /\ a.severity = s.severity
      /\ a.severity = Documented(u, s.severity, Len(u))
  <2>1. /\ t \in Seq(Observation) /\ s \in Evidence /\ Shown(t, s)
        /\ u = Append(t, Break) /\ a = ResetState(s)
    BY Zenon, <1>0, <1>1
  <2> QED
    BY Zenon, <2>1, ClearedShown
<1>3. PICK v \in Nat : v = rule.version + 1
  BY <1>0
<1>4. rule' = [state |-> a, version |-> v, episode |-> rule.episode, active |-> rule.active]
  <2>1. rule \in [state : Evidence, version : Nat, episode : Nat, active : BOOLEAN]
    BY Zenon DEF QInv, QuotaTypeOK
  <2>2. rule' = [rule EXCEPT !.state = a, !.version = v]
    BY Zenon, <1>1, <1>3
  <2> QED
    BY Zenon, <2>1, <2>2
<1>5. rule'.state = a /\ rule'.version = rule.version + 1
  <2>1. PICK q : q = [state |-> a, version |-> v, episode |-> rule.episode,
                      active |-> rule.active]
    BY Zenon
  <2>2. q.state = a /\ q.version = v
    BY Zenon, <2>1
  <2>3. rule' = q
    BY Zenon, <1>4, <2>1
  <2> QED
    BY Zenon, <1>3, <2>2, <2>3
<1>6. ReadsFenced' /\ failedReads' \subseteq [state : Evidence, version : Nat]
  BY Zenon, <1>5, ReadsOutdated
<1>7. Break \in Observation
  BY DEF Break, Observation, Bands, None
<1>8. timeline' \in Seq(Observation)
  BY <1>0, <1>7
<1>9. SeverityIsDocumented'
  BY Zenon, <1>0, <1>1, <1>2, <1>5, <1>7, SeverityFollows DEF QInv
<1>10. /\ alerts' \in Seq(Alert) /\ Shown(timeline', a)
       /\ Episodes(alerts', rule.active, rule.episode, a.severity)
       /\ Once(alerts', rule.active, rule.episode, a.severity)
  BY Zenon, <1>0, <1>1, <1>2
<1> QED
  BY Zenon, <1>0, <1>2, <1>3, <1>4, <1>6, <1>8, <1>9, <1>10, QuotaAgain

\* A failed read writes only if the state it read is the one the rule has.
LEMMA WriteUnknownStep ==
    ASSUME QInv, NEW f \in failedReads, WriteUnknown(f)
    PROVE  QInv'
<1>1. CASE rule.version = f.version
  <2>1. f.state = rule.state
    BY Zenon, <1>1 DEF QInv, ReadsFenced
  <2>2. /\ failedReads' \subseteq failedReads /\ alerts' = alerts /\ quotaBudget' = quotaBudget
        /\ timeline' = Append(timeline, Break)
        /\ rule' = [rule EXCEPT !.state = ResetState(rule.state), !.version = @ + 1]
    BY Zenon, <1>1, <2>1 DEF WriteUnknown
  <2>3. quotaBudget' \in QuotaBudget
    BY Zenon, <2>2, QuotaFields
  <2> QED
    BY Zenon, <2>2, <2>3, ClearStep
<1>2. CASE rule.version # f.version
  <2>1. /\ failedReads' \subseteq failedReads
        /\ UNCHANGED <<rule, timeline, alerts, quotaBudget>>
    BY Zenon, <1>2 DEF WriteUnknown
  <2> QED
    BY Zenon, <2>1 DEF QInv, QuotaTypeOK, EvidenceShown, ReadsFenced, EpisodeInv,
                       SeverityIsDocumented, OncePerEpisode
<1> QED
  BY Zenon, <1>1, <1>2

\* A read that fails remembers the rule as it is.
LEMMA ReadFailsStep ==
    ASSUME QInv, ReadFails
    PROVE  QInv'
<1>0. rule.state \in Evidence /\ rule.version \in Nat /\ quotaBudget \in QuotaBudget
  BY Zenon, QuotaFields
<1>1. quotaBudget' \in QuotaBudget /\ quotaBudget'.start = quotaBudget.start
  BY Zenon, <1>0, QuotaSpent DEF ReadFails
<1>2. PICK f : f = [state |-> rule.state, version |-> rule.version]
  BY Zenon
<1>3. /\ failedReads' = failedReads \union {f} /\ UNCHANGED <<rule, alerts, timeline>>
  BY Zenon, <1>2 DEF ReadFails
<1>4. f.state = rule.state /\ f.version = rule.version /\ f.version <= rule.version
  BY <1>0, <1>2
<1>5. ReadsFenced'
  BY Zenon, <1>3, <1>4 DEF QInv, ReadsFenced
<1>6. QuotaTypeOK'
  <2>1. f \in [state : Evidence, version : Nat]
    BY Zenon, <1>0, <1>2
  <2>2. failedReads' \subseteq [state : Evidence, version : Nat]
    BY Zenon, <1>3, <2>1 DEF QInv, QuotaTypeOK
  <2> QED
    BY Zenon, <1>1, <1>3, <2>2 DEF QInv, QuotaTypeOK
<1>7. SeverityIsDocumented'
  BY Zenon, <1>1, <1>3 DEF QInv, SeverityIsDocumented
<1> QED
  BY Zenon, <1>3, <1>5, <1>6, <1>7 DEF QInv, EvidenceShown, EpisodeInv, OncePerEpisode

\* Every step preserves the invariant.
LEMMA QuotaStep == QInv /\ [QuotaNext]_quotaVars => QInv'
<1> SUFFICES ASSUME QInv, [QuotaNext]_quotaVars PROVE QInv'
  BY Zenon
<1>1. CASE UNCHANGED quotaVars
  BY Zenon, <1>1 DEF quotaVars, QInv, QuotaTypeOK, EvidenceShown, ReadsFenced, EpisodeInv,
                     SeverityIsDocumented, OncePerEpisode
<1>2. ASSUME NEW band \in Bands, NEW interval \in Intervals, NEW quota \in 1..quotaBudget.quotas,
             EvaluateNextRepositoryQuotaAlert(band, interval, quota)
      PROVE  QInv'
  BY Zenon, <1>2, SampleStep
<1>3. CASE ClearEvidence
  <2>1. quotaBudget' \in QuotaBudget /\ quotaBudget'.start = quotaBudget.start
    BY Zenon, <1>3, QuotaFields, QuotaSpent DEF ClearEvidence
  <2>2. /\ failedReads' \subseteq failedReads /\ alerts' = alerts
        /\ timeline' = Append(timeline, Break)
        /\ rule' = [rule EXCEPT !.state = ResetState(rule.state), !.version = @ + 1]
    BY Zenon, <1>3 DEF ClearEvidence
  <2> QED
    BY Zenon, <2>1, <2>2, ClearStep
<1>4. CASE ReadFails
  BY Zenon, <1>4, ReadFailsStep
<1>5. ASSUME NEW f \in failedReads, WriteUnknown(f) PROVE QInv'
  BY Zenon, <1>5, WriteUnknownStep
<1> QED
  BY Zenon, <1>1, <1>2, <1>3, <1>4, <1>5 DEF QuotaNext

\* A rule that is new, or was firing when its evidence was cleared, is right.
LEMMA QuotaBegins == QuotaInit => QInv
<1> SUFFICES ASSUME QuotaInit PROVE QInv
  BY Zenon
<1>1. PICK start, firing, s : /\ start = quotaBudget.start /\ firing = (start # "normal")
                              /\ s = rule.state
  BY Zenon
<1>2. quotaBudget \in QuotaBudget /\ start \in Severities /\ firing \in BOOLEAN
  <2>1. quotaBudget \in QuotaBudget
    BY Zenon, QuotaAssumption DEF QuotaInit
  <2> QED
    BY Zenon, <1>1, <2>1 DEF QuotaBudget
<1>3. PICK ep, x : /\ ep = (IF firing THEN 1 ELSE 0) /\ ep \in Nat /\ ep <= ep
                   /\ x = [scenario |-> start, episode |-> ep]
  <2>1. 0 \in Nat /\ 1 \in Nat /\ 0 <= 0 /\ 1 <= 1
    OBVIOUS
  <2> QED
    BY Zenon, <1>2, <2>1
<1>4. /\ s = [severity |-> start, quota |-> 0, last |-> None, warning |-> None,
              critical |-> None, recovery |-> None]
      /\ rule = [state |-> s, version |-> 1, episode |-> ep, active |-> firing]
      /\ alerts = (IF firing THEN <<x>> ELSE <<>>)
      /\ failedReads = {} /\ timeline = <<>>
  <2>1. ~firing \/ ep = 1
    BY Zenon, <1>2, <1>3
  <2>2. alerts = IF firing THEN <<[scenario |-> start, episode |-> 1]>> ELSE <<>>
    BY Zenon, <1>1 DEF QuotaInit
  <2>3. alerts = IF firing THEN <<x>> ELSE <<>>
    BY Zenon, <1>2, <1>3, <2>1, <2>2
  <2> QED
    BY Zenon, <1>1, <1>3, <2>3 DEF QuotaInit
<1>5. s \in Evidence /\ s.severity = start /\ s.warning = None /\ s.critical = None /\ s.recovery = None
  <2>1. None \in Nat /\ 0 \in Nat
    BY DEF None
  <2> QED
    BY Zenon, <1>2, <1>4, <2>1 DEF Evidence
<1>6. timeline \in Seq(Observation) /\ Len(timeline) = 0 /\ 1..Len(timeline) = {}
  BY <1>4
<1>7. Shown(timeline, s)
  <2>1. ~(Len(timeline) > 0)
    BY <1>6
  <2> QED
    BY Zenon, <1>5, <1>6, <2>1 DEF Shown, Ordered, Remembers, Shows
<1>8. alerts \in Seq(Alert)
  <2>1. CASE firing
    <3>1. start \in {"warning", "critical", "resolved"}
      BY Zenon, <1>1, <1>2, <2>1 DEF Severities
    <3>2. x \in Alert
      BY Zenon, <1>3, <3>1 DEF Alert
    <3> QED
      BY <1>4, <2>1, <3>2
  <2>2. CASE ~firing
    BY <1>4, <2>2
  <2> QED
    BY Zenon, <1>2, <2>1, <2>2
<1>9. firing => alerts # <<>> /\ DOMAIN alerts = {1} /\ Len(alerts) = 1 /\ alerts[1] = x
  BY <1>4
<1>10. ~firing => DOMAIN alerts = {}
  BY <1>4
<1>11. x.episode = ep /\ x.scenario = start
  BY Zenon, <1>3
<1>12. Once(alerts, firing, ep, start)
  BY Zenon, <1>1, <1>2, <1>3, <1>9, <1>10 DEF Once
<1>13. Episodes(alerts, firing, ep, start)
  <2>1. start # "resolved"
    BY Zenon, <1>2 DEF Severities
  <2> QED
    BY Zenon, <1>2, <1>3, <1>9, <1>10, <1>11, <2>1 DEF Episodes
<1>14. SeverityIsDocumented
  <2> DEFINE sev == [n \in 0..Len(timeline) |-> start]
  <2>1. sev \in [0..Len(timeline) -> Severities]
    BY Zenon, <1>2
  <2>2. 0 \in 0..Len(timeline) /\ Len(timeline) \in 0..Len(timeline)
    BY <1>6
  <2>3. sev[0] = start /\ sev[Len(timeline)] = start /\ rule.state.severity = start
    BY Zenon, <1>1, <1>5, <2>2
  <2> HIDE DEF sev
  <2> QED
    BY Zenon, <1>1, <1>6, <2>1, <2>3 DEF SeverityIsDocumented
<1>15. /\ rule.state = s /\ rule.episode = ep /\ rule.active = firing
       /\ rule \in [state : Evidence, version : Nat, episode : Nat, active : BOOLEAN]
  <2>1. 1 \in Nat
    OBVIOUS
  <2> QED
    BY Zenon, <1>2, <1>3, <1>4, <1>5, <2>1
<1>16. QuotaTypeOK
  BY Zenon, <1>2, <1>4, <1>6, <1>8, <1>15 DEF QuotaTypeOK, Alert
<1>17. ReadsFenced
  BY Zenon, <1>4 DEF ReadsFenced
<1> QED
  BY Zenon, <1>5, <1>7, <1>12, <1>13, <1>14, <1>15, <1>16, <1>17
     DEF QInv, EvidenceShown, EpisodeInv, OncePerEpisode, Once

\* The inductive invariant of the quota alerts.
THEOREM QuotaInvariant == QuotaSpec => []QInv
  BY QuotaBegins, QuotaStep, PTL DEF QuotaSpec

\* The rule, its events and the observed timeline keep their types.
THEOREM QuotaTypes == QuotaSpec => []QuotaTypeOK
<1>1. QInv => QuotaTypeOK
  BY Zenon DEF QInv
<1> QED
  BY <1>1, QuotaInvariant, PTL

\* quotaalert.Advance keeps three times and a severity, and no history.  For
\* any policy and any intervals, whatever samples, gaps, changes of the quota,
\* failed reads and clearings came, the severity is the one that the whole
\* history calls for.
THEOREM SeverityDocumented == QuotaSpec => []SeverityIsDocumented
<1>1. QInv => SeverityIsDocumented
  BY Zenon DEF QInv
<1> QED
  BY <1>1, QuotaInvariant, PTL

\* No scenario is alerted twice in an episode of a rule, and an episode is
\* active exactly while the severity is not normal.
THEOREM AlertsOncePerEpisode == QuotaSpec => []OncePerEpisode
<1>1. QInv => OncePerEpisode
  BY Zenon DEF QInv
<1> QED
  BY <1>1, QuotaInvariant, PTL

=============================================================================
