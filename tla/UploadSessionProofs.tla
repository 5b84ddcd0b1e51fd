------------------------ MODULE UploadSessionProofs ------------------------
(***************************************************************************)
(* Theorems about UploadSession for any number of requests and chunks.     *)
(* First what holds with lost WATCHes and lost locks, too: type            *)
(* correctness, that the record never claims a chunk the .part file lacks, *)
(* and that an answered finish left the whole file.  Then what the         *)
(* compare-and-set of the store buys a session, for the case that the      *)
(* WATCH stands (~WatchLost), while the lock may be lost at any time, up   *)
(* to the contract of a session.  Last, what the lock buys it without the  *)
(* compare-and-set, for the case that work under the lock ends within the  *)
(* lock's TTL (~SlowWork), while any WATCH may be lost.                    *)
(***************************************************************************)
EXTENDS UploadSession, TLAPS

Patches == [state : UploadState \cup {"keep"}, received : SUBSET Chunks]

LEMMA MergeType ==
  ASSUME NEW b \in Record, NEW p \in Patches
  PROVE  Merge(b, p) \in Record
BY DEF Merge, Record, Patches

\* Which requests can be where.
WriterLabels == {"begin", "check", "write", "commit"}
FinisherLabels ==
  {"ready", "prepare", "mark", "put", "error", "errClean", "discard", "uploaded",
   "persist", "rollback", "flag", "drop"}

PlacedAt(r, l) ==
  /\ l \in WriterLabels => r \in Writers
  /\ l \in FinisherLabels => r \in Finishers
  /\ l \in {"load", "sniff", "mime"} => r \in Lockers
  /\ l \in {"rm", "del"} => r \in Lockers \cup Aborters
  /\ l \in {"sniff", "mime", "rm", "del", "write", "commit"} /\ r \in Writers
       => ChunkOf[r] \in Chunks

Placed(r) == PlacedAt(r, pc[r])

TInv == TypeOK /\ \A r \in Requests : Placed(r)

LEMMA TInit == Init => TInv
<1>1. NoSnap \in Record
  BY DEF NoSnap, Record, UploadState
<1>2. ASSUME Init PROVE TypeOK
  <2>1. NoFile \in FileContent /\ {} \subseteq Chunks
    BY DEF FileContent
  <2>2. "start" \in Labels /\ "none" \in Codes /\ "none" \in Verdicts
    BY DEF Labels, Codes, Verdicts
  <2> QED
    BY <1>1, <1>2, <2>1, <2>2 DEF Init, TypeOK
<1>3. Init => \A r \in Requests : Placed(r)
  BY DEF Init, Placed, PlacedAt, WriterLabels, FinisherLabels
<1> QED
  BY <1>2, <1>3 DEF TInv

\* A patch leaves the types alone, whichever way it goes.
LEMMA PatchType ==
  ASSUME TypeOK, NEW r \in Requests, NEW p \in Patches,
         NEW yes, NEW no, yes[1] \in Labels, yes[2] \in Codes, no[1] \in Labels, no[2] \in Codes,
         PatchAndSync(r, p, yes, no)
  PROVE  /\ TypeOK'
         /\ \E label \in {pc[r], yes[1], no[1]} : pc' = [pc EXCEPT ![r] = label]
<1> USE DEF TypeOK, files
<1>1. CASE Conflict(r, no)
  BY <1>1 DEF PatchAndSync, Conflict, Goto
<1>2. ASSUME NEW b \in Record, Commit(r, b, p, yes)
      PROVE  TypeOK' /\ pc' = [pc EXCEPT ![r] = yes[1]]
  <2>1. Merge(b, p) \in Record /\ Merge(snap[r], p) \in Record
    BY MergeType
  <2> QED
    BY <1>2, <2>1 DEF PatchAndSync, Commit, Goto
<1>3. CASE rec # Absent /\ pend' = [pend EXCEPT ![r] = rec] /\ UNCHANGED <<rec, snap, pc, result>>
  <2>1. pc' = [pc EXCEPT ![r] = pc[r]]
    BY <1>3
  <2> QED
    BY <1>3, <2>1 DEF PatchAndSync
<1> QED
  BY <1>1, <1>2, <1>3 DEF PatchAndSync, Matches

LEMMA Move ==
  ASSUME TInv, NEW r \in Requests, NEW l \in Labels, PlacedAt(r, l),
         pc' = [pc EXCEPT ![r] = l]
  PROVE  pc' \in [Requests -> Labels] /\ \A d \in Requests : Placed(d)'
BY DEF TInv, TypeOK, Placed, PlacedAt

LEMMA GotoType ==
  ASSUME TInv, NEW r \in Requests, NEW at, at[1] \in Labels, at[2] \in Codes,
         PlacedAt(r, at[1]), Goto(r, at)
  PROVE  /\ pc' \in [Requests -> Labels] /\ result' \in [Requests -> Codes]
         /\ \A d \in Requests : Placed(d)'
<1>1. pc' \in [Requests -> Labels] /\ \A d \in Requests : Placed(d)'
  BY Move DEF Goto
<1>2. result' \in [Requests -> Codes]
  BY DEF Goto, TInv, TypeOK
<1> QED
  BY <1>1, <1>2

\* Where every request may be.
LEMMA Anywhere ==
  ASSUME NEW r, NEW l \in {"start", "create", "done", "crashed", "relGet", "relDel"}
  PROVE  PlacedAt(r, l)
BY DEF PlacedAt, WriterLabels, FinisherLabels

\* A request that reads, decides and goes on.
LEMMA JustType ==
  ASSUME TInv, NEW r \in Requests, NEW at, at[1] \in Labels, at[2] \in Codes,
         PlacedAt(r, at[1]), Just(r, at)
  PROVE  TInv'
<1>1. /\ pc' \in [Requests -> Labels] /\ result' \in [Requests -> Codes]
      /\ \A d \in Requests : Placed(d)'
  BY GotoType DEF Just
<1> QED
  BY <1>1 DEF Just, TInv, TypeOK, store, files, locals

LEMMA PatchKeepsT ==
  ASSUME TInv, NEW r \in Requests, NEW p \in Patches,
         NEW yes, NEW no, yes[1] \in Labels, yes[2] \in Codes, no[1] \in Labels, no[2] \in Codes,
         PlacedAt(r, yes[1]), PlacedAt(r, no[1]),
         PatchAndSync(r, p, yes, no)
  PROVE  TInv'
<1>1. TypeOK'
  BY PatchType DEF TInv
<1>2. PICK label \in {pc[r], yes[1], no[1]} : pc' = [pc EXCEPT ![r] = label]
  BY PatchType DEF TInv
<1>3. PlacedAt(r, label) /\ label \in Labels
  BY <1>2 DEF TInv, Placed, TypeOK
<1> QED
  BY <1>1, <1>2, <1>3, Move DEF TInv


\* The steps outside the requests: init, the environment, crashes.
LEMMA TEnv ==
  ASSUME TInv, InitTemp \/ InitRecord \/ GoneTemp \/ GoneRecord \/ Expire \/ Evict
               \/ LockExpire \/ Sweep
  PROVE  TInv'
<1> USE DEF Then, Labels, Codes
<1>1. CASE InitTemp
  <2>1. /\ pc' \in [Requests -> Labels] /\ result' \in [Requests -> Codes]
        /\ \A d \in Requests : Placed(d)'
    BY <1>1, GotoType, Anywhere DEF InitTemp, Requests
  <2> QED
    BY <1>1, <2>1 DEF InitTemp, TInv, TypeOK, FileContent, store, locals
<1>2. CASE InitRecord
  <2>1. /\ pc' \in [Requests -> Labels] /\ result' \in [Requests -> Codes]
        /\ \A d \in Requests : Placed(d)'
    <3>1. Opener \in Requests /\ Goto(Opener, <<"done", "ok">>)
      BY <1>2 DEF InitRecord, Requests
    <3> QED
      BY <3>1, GotoType, Anywhere
  <2>2. [state |-> "init", received |-> {}, version |-> 1] \in Record
    BY DEF Record, UploadState
  <2>3. rec' \in Record \cup {Absent} /\ UNCHANGED <<files, locals>>
    BY <1>2, <2>2 DEF InitRecord
  <2> QED
    BY <1>2, <2>1, <2>3 DEF InitRecord, TInv, TypeOK, files, locals
<1>3. CASE GoneTemp \/ Sweep
  BY <1>3 DEF GoneTemp, Sweep, TInv, TypeOK, FileContent, Placed, store, locals
<1>4. CASE GoneRecord \/ Expire \/ Evict \/ LockExpire
  BY <1>4 DEF GoneRecord, Expire, Evict, LockExpire, TInv, TypeOK, Placed, files, locals
<1> QED
  BY <1>1, <1>2, <1>3, <1>4

LEMMA TCrash ==
  ASSUME TInv, NEW r \in Requests, Crash(r)
  PROVE  TInv'
<1>1. pc' \in [Requests -> Labels] /\ \A d \in Requests : Placed(d)'
  BY Move, Anywhere DEF Crash, Labels
<1>2. NoSnap \in Record
  BY DEF NoSnap, Record, UploadState
<1> QED
  BY <1>1, <1>2 DEF Crash, TInv, TypeOK, store, files

LEMMA TLock ==
  ASSUME TInv, NEW r \in Requests, LockStep(r) \/ LoadInactive(r) \/ AbortLoad(r)
  PROVE  TInv'
<1> USE DEF Then, Answer, Labels, Codes
<1>1. CASE Acquire(r)
  <2>1. PlacedAt(r, "load")
    BY <1>1 DEF Acquire, PlacedAt, WriterLabels, FinisherLabels
  <2>2. /\ pc' \in [Requests -> Labels] /\ result' \in [Requests -> Codes]
        /\ \A d \in Requests : Placed(d)'
    BY <1>1, <2>1, GotoType DEF Acquire
  <2> QED
    BY <1>1, <2>2 DEF Acquire, TInv, TypeOK, files, locals
<1>2. CASE LockTimeout(r)
  BY <1>2, JustType, Anywhere DEF LockTimeout
<1>3. CASE LoadInactive(r)
  BY <1>3, JustType, Anywhere DEF LoadInactive
<1>4. CASE AbortLoad(r)
  <2>1. PlacedAt(r, "rm")
    BY <1>4, Constants DEF AbortLoad, PlacedAt, WriterLabels, FinisherLabels, Lockers
  <2>2. CASE rec = Absent
    BY <1>4, <2>2, JustType, Anywhere DEF AbortLoad
  <2>3. CASE rec # Absent
    BY <1>4, <2>1, <2>3, JustType DEF AbortLoad
  <2> QED
    BY <2>2, <2>3
<1>5. CASE ReleaseGet(r)
  <2>1. pc' \in [Requests -> Labels] /\ \A d \in Requests : Placed(d)'
    BY <1>5, Move, Anywhere DEF ReleaseGet
  <2>2. NoSnap \in Record
    BY DEF NoSnap, Record, UploadState
  <2> QED
    BY <1>5, <2>1, <2>2 DEF ReleaseGet, TInv, TypeOK, store, files
<1>6. CASE ReleaseDel(r)
  <2>1. pc' \in [Requests -> Labels] /\ \A d \in Requests : Placed(d)'
    BY <1>6, Move, Anywhere DEF ReleaseDel
  <2> QED
    BY <1>6, <2>1 DEF ReleaseDel, TInv, TypeOK, files, locals
<1> QED
  BY <1>1, <1>2, <1>3, <1>4, <1>5, <1>6 DEF LockStep


\* Every patch the service makes is a patch.
LEMMA PatchesMade ==
  /\ \A x \in UploadState : SetState(x) \in Patches
  /\ \A S \in SUBSET Chunks : SetReceived(S) \in Patches
  /\ SetMime \in Patches
BY DEF SetState, SetReceived, SetMime, Patches

\* Where a request that sniffs, writes or finishes may go next.
LEMMA NextPlaces ==
  ASSUME NEW r \in Requests
  PROVE  /\ r \in Writers /\ ChunkOf[r] \in Chunks
              => \A l \in WriterLabels \cup {"sniff", "mime", "rm", "del"} : PlacedAt(r, l)
         /\ r \in Writers => PlacedAt(r, "begin") /\ PlacedAt(r, "check")
         /\ r \in Finishers
              => \A l \in FinisherLabels \cup {"sniff", "mime", "rm", "del"} : PlacedAt(r, l)
BY Constants DEF PlacedAt, WriterLabels, FinisherLabels, Lockers

LEMMA TSniff ==
  ASSUME TInv, NEW r \in Requests, SniffStep(r)
  PROVE  TInv'
<1> USE DEF Then, Answer, Labels, Codes
<1>1. ASSUME pc[r] \in {"sniff", "mime", "del"}, r \in Lockers
      PROVE  PlacedAt(r, AfterSniff(r)) /\ AfterSniff(r) \in {"write", "ready"}
  BY <1>1, NextPlaces
     DEF AfterSniff, TInv, Placed, PlacedAt, Lockers, WriterLabels, FinisherLabels
<1>2. CASE Sniff(r)
  <2>1. PICK verdict \in {"same", "other", "refused"} :
          /\ sniff' = [sniff EXCEPT ![r] = verdict]
          /\ Goto(r, Then(CASE verdict = "refused" -> "rm"
                            [] verdict = "other" -> "mime"
                            [] verdict = "same" -> AfterSniff(r)))
    BY <1>2 DEF Sniff
  <2>2. r \in Lockers /\ PlacedAt(r, "rm") /\ PlacedAt(r, "mime")
    BY <1>2 DEF Sniff, TInv, Placed, PlacedAt, WriterLabels, FinisherLabels
  <2>3. PICK l \in {"rm", "mime", AfterSniff(r)} : Goto(r, Then(l))
    BY <2>1
  <2>4. PlacedAt(r, l) /\ l \in Labels
    BY <1>1, <1>2, <2>2, <2>3 DEF Sniff
  <2>5. /\ pc' \in [Requests -> Labels] /\ result' \in [Requests -> Codes]
        /\ \A d \in Requests : Placed(d)'
    BY <2>3, <2>4, GotoType
  <2> QED
    BY <1>2, <2>1, <2>5 DEF Sniff, TInv, TypeOK, Verdicts, store, files
<1>3. CASE SniffPatch(r)
  <2>1. r \in Lockers
    BY <1>3 DEF SniffPatch, TInv, Placed, PlacedAt
  <2>2. PlacedAt(r, AfterSniff(r)) /\ AfterSniff(r) \in {"write", "ready"}
    BY <1>1, <1>3, <2>1 DEF SniffPatch
  <2>3. CASE r \in Writers
    BY <1>3, <2>2, <2>3, PatchKeepsT, PatchesMade DEF SniffPatch, AfterSniff
  <2>4. CASE r \notin Writers
    BY <1>3, <2>2, <2>4, PatchKeepsT, PatchesMade, Anywhere DEF SniffPatch, AfterSniff
  <2> QED
    BY <2>3, <2>4
<1>4. CASE RemoveTemp(r)
  <2>1. PlacedAt(r, "del")
    BY <1>4 DEF RemoveTemp, TInv, Placed, PlacedAt, WriterLabels, FinisherLabels
  <2>2. /\ pc' \in [Requests -> Labels] /\ result' \in [Requests -> Codes]
        /\ \A d \in Requests : Placed(d)'
    BY <1>4, <2>1, GotoType DEF RemoveTemp
  <2> QED
    BY <1>4, <2>2 DEF RemoveTemp, SafeRemoveTemp, TInv, TypeOK, FileContent, store, locals
<1>5. CASE RemoveRecord(r)
  <2>1. /\ pc' \in [Requests -> Labels] /\ result' \in [Requests -> Codes]
        /\ \A d \in Requests : Placed(d)'
    <3>1. CASE r \in Aborters
      BY <1>5, <3>1, GotoType, Anywhere DEF RemoveRecord
    <3>2. CASE r \notin Aborters
      <4>1. r \in Lockers
        BY <1>5, <3>2 DEF RemoveRecord, TInv, Placed, PlacedAt
      <4> QED
        BY <1>1, <1>5, <3>2, <4>1, GotoType DEF RemoveRecord
    <3> QED
      BY <3>1, <3>2
  <2> QED
    BY <1>5, <2>1 DEF RemoveRecord, TInv, TypeOK, files, locals
<1> QED
  BY <1>2, <1>3, <1>4, <1>5 DEF SniffStep

LEMMA TWrite ==
  ASSUME TInv, NEW w \in Requests, WriteStep(w)
  PROVE  TInv'
<1> USE DEF Then, Answer, Labels, Codes
<1>1. CASE WriterLoad(w)
  <2>1. /\ pc' \in [Requests -> Labels] /\ result' \in [Requests -> Codes]
        /\ \A d \in Requests : Placed(d)'
    <3>1. PICK at \in {Answer("409"), Then("begin"), Then("check")} : Goto(w, at)
      BY <1>1 DEF WriterLoad
    <3> QED
      BY <1>1, <3>1, GotoType, Anywhere, NextPlaces DEF WriterLoad
  <2>2. rec \in Record
    BY <1>1 DEF WriterLoad, Active, TInv, TypeOK
  <2> QED
    BY <1>1, <2>1, <2>2 DEF WriterLoad, TInv, TypeOK, store, files
<1>2. CASE WriterBegin(w)
  BY <1>2, PatchKeepsT, PatchesMade, Anywhere, NextPlaces
     DEF WriterBegin, UploadState, TInv, Placed, PlacedAt, WriterLabels
<1>3. CASE WriterCheck(w)
  <2>1. w \in Writers
    BY <1>3 DEF WriterCheck, TInv, Placed, PlacedAt, WriterLabels
  <2>2. CASE ChunkOf[w] >= NumChunks
    BY <1>3, <2>2, JustType, Anywhere DEF WriterCheck
  <2>3. CASE ~(ChunkOf[w] >= NumChunks)
    <3>1. ChunkOf[w] \in Chunks
      BY <2>1, <2>3, Constants DEF Chunks
    <3>2. PICK at \in {Answer("422"), Then("sniff"), Then("write")} : Just(w, at)
      BY <1>3, <2>3 DEF WriterCheck
    <3> QED
      BY <2>1, <3>1, <3>2, JustType, Anywhere, NextPlaces DEF WriterLabels
  <2> QED
    BY <2>2, <2>3
<1>4. CASE WriterWrite(w)
  <2>1. w \in Writers /\ ChunkOf[w] \in Chunks
    BY <1>4 DEF WriterWrite, TInv, Placed, PlacedAt, WriterLabels
  <2>2. PICK at \in {Then("commit"), Answer("500")} : Goto(w, at)
    BY <1>4 DEF WriterWrite
  <2>3. /\ pc' \in [Requests -> Labels] /\ result' \in [Requests -> Codes]
        /\ \A d \in Requests : Placed(d)'
    BY <2>1, <2>2, GotoType, Anywhere, NextPlaces DEF WriterLabels
  <2>4. temp' \in FileContent /\ written' \in SUBSET Chunks
    BY <1>4, <2>1 DEF WriterWrite, TInv, TypeOK, FileContent
  <2> QED
    BY <1>4, <2>3, <2>4 DEF WriterWrite, TInv, TypeOK, store, locals
<1>5. CASE WriterCommit(w)
  <2>1. w \in Writers /\ ChunkOf[w] \in Chunks
    BY <1>5 DEF WriterCommit, TInv, Placed, PlacedAt, WriterLabels
  <2>2. snap[w].received \cup {ChunkOf[w]} \in SUBSET Chunks
    BY <2>1 DEF TInv, TypeOK, Record
  <2> QED
    BY <1>5, <2>2, PatchKeepsT, PatchesMade, Anywhere DEF WriterCommit
<1> QED
  BY <1>1, <1>2, <1>3, <1>4, <1>5 DEF WriteStep


LEMMA TFinish ==
  ASSUME TInv, NEW f \in Requests, FinishStep(f)
  PROVE  TInv'
<1> USE DEF Then, Answer, Labels, Codes
<1>1. CASE FinisherLoad(f)
  <2>1. /\ pc' \in [Requests -> Labels] /\ result' \in [Requests -> Codes]
        /\ \A d \in Requests : Placed(d)'
    <3>1. PICK at \in {Answer("400"), Answer("409"), Then("sniff")} : Goto(f, at)
      BY <1>1 DEF FinisherLoad
    <3> QED
      BY <1>1, <3>1, GotoType, Anywhere, NextPlaces DEF FinisherLoad
  <2>2. rec \in Record
    BY <1>1 DEF FinisherLoad, Active, TInv, TypeOK
  <2> QED
    BY <1>1, <2>1, <2>2 DEF FinisherLoad, TInv, TypeOK, store, files
<1>2. ASSUME pc[f] \in FinisherLabels
      PROVE  f \in Finishers /\ \A l \in FinisherLabels : PlacedAt(f, l)
  BY <1>2, NextPlaces DEF TInv, Placed, PlacedAt
<1>3. CASE MarkReady(f) \/ MarkUploading(f) \/ MarkError(f) \/ MarkUploaded(f) \/ FlagError(f)
  BY <1>2, <1>3, PatchKeepsT, PatchesMade, Anywhere
     DEF MarkReady, MarkUploading, MarkError, MarkUploaded, FlagError, FinisherLabels,
         UploadState
<1>4. CASE Prepare(f)
  BY <1>2, <1>4, JustType DEF Prepare, FinisherLabels
<1>5. CASE PutDone(f)
  <2>1. f \in Finishers /\ PlacedAt(f, "discard")
    BY <1>2, <1>5 DEF PutDone, FinisherLabels
  <2>2. /\ pc' \in [Requests -> Labels] /\ result' \in [Requests -> Codes]
        /\ \A d \in Requests : Placed(d)'
    BY <1>5, <2>1, GotoType DEF PutDone
  <2> QED
    BY <1>5, <2>2 DEF PutDone, TInv, TypeOK, store, locals
<1>6. CASE PutFailed(f)
  <2>1. f \in Finishers /\ PlacedAt(f, "put") /\ PlacedAt(f, "error")
    BY <1>2, <1>6 DEF PutFailed, FinisherLabels
  <2>2. PICK l \in {"put", "error"} : Goto(f, Then(l))
    BY <1>6 DEF PutFailed
  <2>3. /\ pc' \in [Requests -> Labels] /\ result' \in [Requests -> Codes]
        /\ \A d \in Requests : Placed(d)'
    BY <2>1, <2>2, GotoType
  <2>4. remote' \in [Finishers -> FileContent] /\ tries' \in [Requests -> Nat]
    BY <1>6, <2>1 DEF PutFailed, TInv, TypeOK, FileContent
  <2> QED
    BY <1>6, <2>3, <2>4 DEF PutFailed, TInv, TypeOK, store
<1>7. CASE ErrorClean(f) \/ Drop(f)
  <2>1. pc' \in [Requests -> Labels] /\ \A d \in Requests : Placed(d)'
    BY <1>7, Move, Anywhere DEF ErrorClean, SafeRemoveTemp, Drop
  <2>2. temp' \in FileContent /\ rec' \in {Absent} \cup Record
    BY <1>7 DEF ErrorClean, SafeRemoveTemp, Drop, TInv, TypeOK, FileContent, store, files
  <2> QED
    BY <1>7, <2>1, <2>2 DEF ErrorClean, Drop, TInv, TypeOK, store, locals, files
<1>8. CASE Discard(f)
  <2>1. PlacedAt(f, "uploaded")
    BY <1>2, <1>8 DEF Discard, FinisherLabels
  <2>2. /\ pc' \in [Requests -> Labels] /\ result' \in [Requests -> Codes]
        /\ \A d \in Requests : Placed(d)'
    BY <1>8, <2>1, GotoType DEF Discard
  <2> QED
    BY <1>8, <2>2 DEF Discard, SafeRemoveTemp, TInv, TypeOK, FileContent, store, locals
<1>9. CASE Persist(f)
  <2>1. f \in Finishers /\ PlacedAt(f, "drop") /\ PlacedAt(f, "rollback")
    BY <1>2, <1>9 DEF Persist, FinisherLabels
  <2>2. PICK at \in {<<"drop", "ok">>, Then("rollback")} : Goto(f, at)
    BY <1>9 DEF Persist
  <2>3. /\ pc' \in [Requests -> Labels] /\ result' \in [Requests -> Codes]
        /\ \A d \in Requests : Placed(d)'
    BY <2>1, <2>2, GotoType
  <2> QED
    BY <1>9, <2>1, <2>3 DEF Persist, TInv, TypeOK, store, locals
<1>10. CASE Rollback(f)
  <2>1. f \in Finishers /\ PlacedAt(f, "flag")
    BY <1>2, <1>10 DEF Rollback, FinisherLabels
  <2>2. /\ pc' \in [Requests -> Labels] /\ result' \in [Requests -> Codes]
        /\ \A d \in Requests : Placed(d)'
    BY <1>10, <2>1, GotoType DEF Rollback
  <2> QED
    BY <1>10, <2>1, <2>2 DEF Rollback, TInv, TypeOK, FileContent, store, locals
<1> QED
  BY <1>1, <1>3, <1>4, <1>5, <1>6, <1>7, <1>8, <1>9, <1>10 DEF FinishStep

LEMMA TNext == TInv /\ [Next]_vars => TInv'
<1> SUFFICES ASSUME TInv, [Next]_vars PROVE TInv'
  OBVIOUS
<1>1. ASSUME NEW r \in Requests, RequestStep(r) \/ Crash(r) PROVE TInv'
  BY <1>1, TLock, TSniff, TWrite, TFinish, TCrash DEF RequestStep
<1>2. CASE UNCHANGED vars
  BY <1>2 DEF vars, store, files, locals, TInv, TypeOK, Placed
<1> QED
  BY <1>1, <1>2, TEnv DEF Next

\* Every variable keeps its type, whatever fails, expires or overlaps.
THEOREM TypeCorrect == Spec => []TypeOK
<1>1. TInv => TypeOK
  BY DEF TInv
<1> QED
  BY TInit, TNext, <1>1, PTL DEF Spec


---------------------------------------------------------------------------
(***************************************************************************)
(* The file and what is claimed of it.  Nothing but a write adds to the    *)
(* file, nothing but its removal takes away, so that it is either gone or  *)
(* holds all that was ever written; and every list of received chunks, in  *)
(* the record or in a stale snapshot, only names written chunks.           *)
(***************************************************************************)
Backed(r) ==
  /\ snap[r].received \subseteq written
  /\ pend[r] # Absent => pend[r].received \subseteq written
  /\ pc[r] = "commit" => ChunkOf[r] \in written

FileOK ==
  /\ pc[Opener] = "start" => temp = NoFile /\ written = {}
  /\ temp \in {NoFile, written}
  /\ rec # Absent => rec.received \subseteq written

DInv == TInv /\ FileOK /\ \A r \in Requests : Backed(r)

LEMMA DInit == Init => DInv
BY TInit DEF Init, DInv, FileOK, Backed, NoSnap, Requests

\* A patch that only claims written chunks.
LEMMA PatchBacked ==
  ASSUME DInv, NEW r \in Requests, NEW p, p.received \subseteq written, NEW yes, NEW no,
         yes[1] # "commit", no[1] # "commit", yes[1] # "start", no[1] # "start",
         PatchAndSync(r, p, yes, no)
  PROVE  FileOK' /\ \A d \in Requests : Backed(d)'
<1> USE DEF DInv, FileOK, Backed, TInv, TypeOK, files
<1>1. CASE Conflict(r, no)
  BY <1>1 DEF PatchAndSync, Conflict, Goto
<1>2. ASSUME NEW b, b.received \subseteq written, Commit(r, b, p, yes)
      PROVE  FileOK' /\ \A d \in Requests : Backed(d)'
  BY <1>2 DEF PatchAndSync, Commit, Merge, Goto
<1>3. CASE rec # Absent /\ pend' = [pend EXCEPT ![r] = rec] /\ UNCHANGED <<rec, snap, pc, result>>
  BY <1>3 DEF PatchAndSync
<1> QED
  BY <1>1, <1>2, <1>3 DEF PatchAndSync, Matches

\* The patches that name no chunk.
LEMMA EmptyPatches == (\A x : SetState(x).received = {}) /\ SetMime.received = {}
BY DEF SetState, SetMime

LEMMA DStep ==
  ASSUME DInv, NEW r \in Requests, RequestStep(r)
  PROVE  FileOK' /\ \A d \in Requests : Backed(d)'
<1> USE DEF Then, Answer
<1>1. CASE WriterLoad(r) \/ FinisherLoad(r)
  <2>1. rec.received \subseteq written /\ snap' = [snap EXCEPT ![r] = rec]
    BY <1>1 DEF WriterLoad, FinisherLoad, Active, DInv, FileOK
  <2>2. PICK at : Goto(r, at) /\ at[1] \in {"relGet", "begin", "check", "sniff"}
    BY <1>1 DEF WriterLoad, FinisherLoad
  <2> QED
    BY <1>1, <2>1, <2>2
       DEF WriterLoad, FinisherLoad, Goto, store, files, DInv, FileOK, Backed, TInv, TypeOK
<1>2. CASE WriterWrite(r)
  <2>1. CASE ChunkOf[r] \in snap[r].received
    <3>1. pc' = [pc EXCEPT ![r] = "commit"] /\ pc[r] = "write"
      BY <1>2, <2>1 DEF WriterWrite, Goto
    <3>2. UNCHANGED <<temp, written, rec, snap, pend>>
      BY <1>2, <2>1 DEF WriterWrite, store, locals
    <3> QED
      BY <2>1, <3>1, <3>2 DEF DInv, FileOK, Backed, TInv, TypeOK
  <2>2. CASE /\ temp # NoFile
             /\ temp' = temp \cup {ChunkOf[r]} /\ written' = written \cup {ChunkOf[r]}
    <3>1. temp = written /\ temp' = written' /\ pc[Opener] # "start"
      BY <2>2 DEF DInv, FileOK
    <3>2. ChunkOf[r] \in written' /\ written \subseteq written'
      BY <2>2
    <3>3. PICK l \in {"commit", "relGet"} : pc' = [pc EXCEPT ![r] = l]
      BY <1>2 DEF WriterWrite, Goto
    <3>4. pc[r] = "write" /\ UNCHANGED <<rec, snap, pend>>
      BY <1>2 DEF WriterWrite, store, locals
    <3>5. \A d \in Requests : Backed(d)'
      BY <3>2, <3>3, <3>4 DEF DInv, Backed, TInv, TypeOK
    <3>6. FileOK'
      BY <3>1, <3>2, <3>3, <3>4 DEF DInv, FileOK, TInv, TypeOK
    <3> QED
      BY <3>5, <3>6
  <2>3. CASE Goto(r, Answer("500")) /\ UNCHANGED <<temp, written>>
    BY <1>2, <2>3
       DEF WriterWrite, Goto, store, locals, DInv, FileOK, Backed, TInv, TypeOK
  <2> QED
    BY <1>2, <2>1, <2>2, <2>3 DEF WriterWrite
<1>3. CASE WriterCommit(r)
  <2>1. SetReceived(snap[r].received \cup {ChunkOf[r]}).received \subseteq written
    BY <1>3 DEF WriterCommit, SetReceived, DInv, Backed
  <2> QED
    BY <1>3, <2>1, PatchBacked DEF WriterCommit
<1>4. CASE \/ WriterBegin(r) \/ SniffPatch(r) \/ MarkReady(r) \/ MarkUploading(r)
           \/ MarkError(r) \/ MarkUploaded(r) \/ FlagError(r)
  <2>1. CASE WriterBegin(r)
    BY <2>1, PatchBacked, EmptyPatches DEF WriterBegin
  <2>2. CASE SniffPatch(r)
    BY <2>2, PatchBacked, EmptyPatches DEF SniffPatch, AfterSniff
  <2>3. CASE MarkReady(r)
    BY <2>3, PatchBacked, EmptyPatches DEF MarkReady
  <2>4. CASE MarkUploading(r)
    BY <2>4, PatchBacked, EmptyPatches DEF MarkUploading
  <2>5. CASE MarkError(r) \/ MarkUploaded(r) \/ FlagError(r)
    BY <2>5, PatchBacked, EmptyPatches DEF MarkError, MarkUploaded, FlagError
  <2> QED
    BY <1>4, <2>1, <2>2, <2>3, <2>4, <2>5
<1>5. CASE \/ RemoveTemp(r) \/ Discard(r) \/ ErrorClean(r)
  <2>1. temp' \in {temp, NoFile} /\ UNCHANGED <<rec, written, snap, pend>>
    BY <1>5 DEF RemoveTemp, SafeRemoveTemp, Discard, ErrorClean, store, locals
  <2>2. PICK l \in {"del", "uploaded", "relGet"} : pc' = [pc EXCEPT ![r] = l]
    BY <1>5 DEF RemoveTemp, Discard, ErrorClean, Goto
  <2> QED
    BY <2>1, <2>2 DEF DInv, FileOK, Backed, TInv, TypeOK
<1>6. CASE \/ RemoveRecord(r) \/ Drop(r)
  <2>1. rec' = Absent /\ UNCHANGED <<temp, written, snap, pend>>
    BY <1>6 DEF RemoveRecord, Drop, files, locals
  <2>2. PICK l \in {"done", "write", "ready", "relGet"} : pc' = [pc EXCEPT ![r] = l]
    BY <1>6 DEF RemoveRecord, Drop, Goto, AfterSniff
  <2> QED
    BY <2>1, <2>2 DEF DInv, FileOK, Backed, TInv, TypeOK
<1>7. CASE ReleaseGet(r)
  BY <1>7 DEF ReleaseGet, NoSnap, store, files, DInv, FileOK, Backed, TInv, TypeOK
<1>8. CASE \/ Acquire(r) \/ LockTimeout(r) \/ ReleaseDel(r) \/ LoadInactive(r) \/ AbortLoad(r)
           \/ Sniff(r) \/ WriterCheck(r) \/ Prepare(r) \/ PutDone(r) \/ PutFailed(r)
           \/ Persist(r) \/ Rollback(r)
  <2>1. UNCHANGED <<rec, temp, written, snap, pend>>
    BY <1>8 DEF Acquire, LockTimeout, ReleaseDel, LoadInactive, AbortLoad, Sniff, WriterCheck,
         Prepare, PutDone, PutFailed, Persist, Rollback, Just, store, files, locals
  <2>2. PICK l : pc' = [pc EXCEPT ![r] = l] /\ l # "commit" /\ l # "start"
    BY <1>8 DEF Acquire, LockTimeout, ReleaseDel, LoadInactive, AbortLoad, Sniff, WriterCheck,
         Prepare, PutDone, PutFailed, Persist, Rollback, Just, Goto, AfterSniff
  <2> QED
    BY <2>1, <2>2 DEF DInv, FileOK, Backed, TInv, TypeOK
<1> QED
  BY <1>1, <1>2, <1>3, <1>4, <1>5, <1>6, <1>7, <1>8
     DEF RequestStep, LockStep, SniffStep, WriteStep, FinishStep

\* What the environment does takes away, and a crash forgets.
LEMMA DRest ==
  ASSUME DInv,
         \/ InitTemp \/ InitRecord \/ GoneTemp \/ GoneRecord
         \/ Expire \/ Evict \/ LockExpire \/ Sweep \/ UNCHANGED vars
         \/ \E r \in Requests : Crash(r)
  PROVE  FileOK' /\ \A d \in Requests : Backed(d)'
<1> USE DEF DInv, FileOK, Backed, TInv, TypeOK
<1>1. CASE InitTemp
  <2>1. PICK l \in {"create", "done"} : pc' = [pc EXCEPT ![Opener] = l]
    BY <1>1 DEF InitTemp, Goto, Then
  <2>2. temp' \in {NoFile, {}} /\ written = {} /\ UNCHANGED <<rec, written, snap, pend>>
    BY <1>1 DEF InitTemp, store, locals
  <2> QED
    BY <2>1, <2>2 DEF Requests
<1>2. CASE InitRecord
  <2>1. pc' = [pc EXCEPT ![Opener] = "done"] /\ rec'.received = {}
    BY <1>2 DEF InitRecord, Goto
  <2>2. UNCHANGED <<temp, written, snap, pend>>
    BY <1>2 DEF InitRecord, files, locals
  <2> QED
    BY <2>1, <2>2 DEF Requests
<1>3. CASE \/ GoneTemp \/ GoneRecord \/ Expire \/ Evict \/ LockExpire \/ Sweep \/ UNCHANGED vars
  <2>1. UNCHANGED <<written, snap, pend, pc>>
    BY <1>3 DEF GoneTemp, GoneRecord, Expire, Evict, LockExpire, Sweep, vars, files, locals
  <2>2. temp' \in {temp, NoFile} /\ rec' \in {rec, Absent}
    BY <1>3 DEF GoneTemp, GoneRecord, Expire, Evict, LockExpire, Sweep, vars, store, files
  <2> QED
    BY <2>1, <2>2
<1>4. ASSUME NEW r \in Requests, Crash(r)
      PROVE  FileOK' /\ \A d \in Requests : Backed(d)'
  <2>1. /\ pc' = [pc EXCEPT ![r] = "crashed"] /\ pend' = [pend EXCEPT ![r] = Absent]
        /\ snap' = [snap EXCEPT ![r] = NoSnap]
    BY <1>4 DEF Crash
  <2>2. UNCHANGED <<rec, temp, written>>
    BY <1>4 DEF Crash, store, files
  <2>3. NoSnap.received = {}
    BY DEF NoSnap
  <2> QED
    BY <2>1, <2>2, <2>3
<1> QED
  BY <1>1, <1>2, <1>3, <1>4

LEMMA DNext == DInv /\ [Next]_vars => DInv'
<1> SUFFICES ASSUME DInv, [Next]_vars PROVE DInv'
  OBVIOUS
<1>1. TInv'
  BY TNext DEF DInv
<1>2. FileOK' /\ \A d \in Requests : Backed(d)'
  BY DStep, DRest DEF Next
<1> QED
  BY <1>1, <1>2 DEF DInv

\* As long as the .part file is there, it holds every chunk the record lists:
\* writeChunk writes the file before it patches, and no patch, even from a
\* snapshot that another holder of the lock has made stale, claims more.
THEOREM ProgressBacked == Spec => []ReceivedOnDisk
<1>1. DInv => ReceivedOnDisk
  BY DEF DInv, FileOK, ReceivedOnDisk, TInv, TypeOK, FileContent
<1> QED
  BY DInit, DNext, <1>1, PTL DEF Spec

---------------------------------------------------------------------------
(***************************************************************************)
(* What a finish request knows.  Once it found every chunk received, its   *)
(* snapshot lists them all; since the file then holds what was written,    *)
(* a put that succeeds copies every chunk; and only the request itself     *)
(* touches its remote path afterwards.                                     *)
(***************************************************************************)
Checked ==
  {"sniff", "mime", "rm", "del", "ready", "prepare", "mark", "put", "discard", "uploaded"}

StoredAs(f, label, answer) ==
  /\ label \in Checked => snap[f].received = Chunks
  /\ label \in {"discard", "uploaded", "persist"} => remote[f] = Chunks
  /\ answer = "ok" => /\ label \in {"drop", "relGet", "relDel", "done", "crashed"}
                     /\ f \in media /\ remote[f] = Chunks

Stored(f) == StoredAs(f, pc[f], result[f])

FInv == DInv /\ \A f \in Finishers : Stored(f)

LEMMA FInit == Init => FInv
BY DInit DEF Init, FInv, Stored, StoredAs, Checked, Requests, Lockers

\* A step of one request leaves alone what belongs to another.
LEMMA OthersStay ==
  ASSUME TypeOK, NEW r \in Requests, RequestStep(r) \/ Crash(r), NEW d \in Requests, d # r
  PROVE  /\ pc'[d] = pc[d] /\ result'[d] = result[d] /\ snap'[d] = snap[d]
         /\ sniff'[d] = sniff[d] /\ pend'[d] = pend[d]
         /\ d \in Finishers => remote'[d] = remote[d]
         /\ d \in media <=> d \in media'
<1> USE DEF TypeOK, Goto, Just, store, files, locals
<1>1. ASSUME NEW p, NEW yes, NEW no, PatchAndSync(r, p, yes, no)
      PROVE  /\ pc'[d] = pc[d] /\ result'[d] = result[d] /\ snap'[d] = snap[d]
             /\ pend'[d] = pend[d] /\ UNCHANGED <<remote, media, sniff>>
  BY <1>1 DEF PatchAndSync, Commit, Conflict
<1>2. CASE LockStep(r) \/ LoadInactive(r) \/ AbortLoad(r) \/ Crash(r)
  BY <1>2 DEF LockStep, Acquire, LockTimeout, ReleaseGet, ReleaseDel, LoadInactive,
       AbortLoad, Crash
<1>3. CASE SniffStep(r)
  BY <1>1, <1>3 DEF SniffStep, Sniff, SniffPatch, RemoveTemp, RemoveRecord
<1>4. CASE WriteStep(r)
  BY <1>1, <1>4
     DEF WriteStep, WriterLoad, WriterBegin, WriterCheck, WriterWrite, WriterCommit
<1>5. CASE \/ MarkReady(r) \/ MarkUploading(r) \/ MarkError(r) \/ MarkUploaded(r) \/ FlagError(r)
  BY <1>1, <1>5 DEF MarkReady, MarkUploading, MarkError, MarkUploaded, FlagError
<1>6. CASE \/ FinisherLoad(r) \/ Prepare(r) \/ ErrorClean(r) \/ Discard(r) \/ Drop(r)
  BY <1>6 DEF FinisherLoad, Prepare, ErrorClean, Discard, Drop
<1>7. CASE \/ PutDone(r) \/ PutFailed(r) \/ Persist(r) \/ Rollback(r)
  BY <1>7 DEF PutDone, PutFailed, Persist, Rollback
<1> QED
  BY <1>2, <1>3, <1>4, <1>5, <1>6, <1>7 DEF RequestStep, FinishStep

\* A patch without chunks leaves a finish request's knowledge alone.
LEMMA PatchStored ==
  ASSUME TypeOK, NEW f \in Finishers, NEW p, p.received = {}, NEW yes, NEW no,
         PatchAndSync(f, p, yes, no)
  PROVE  /\ remote' = remote /\ media' = media
         /\ snap'[f].received = snap[f].received
         /\ <<pc'[f], result'[f]>> \in
              {<<pc[f], result[f]>>, <<yes[1], yes[2]>>, <<no[1], no[2]>>}
<1> f \in Requests
  BY DEF Requests, Lockers
<1> USE DEF TypeOK, Goto, files
<1>1. ASSUME NEW b, Commit(f, b, p, yes)
      PROVE  /\ snap'[f].received = snap[f].received
             /\ pc'[f] = yes[1] /\ result'[f] = yes[2]
  BY <1>1 DEF Commit, Merge
<1>2. ASSUME Conflict(f, no)
      PROVE  snap' = snap /\ pc'[f] = no[1] /\ result'[f] = no[2]
  BY <1>2 DEF Conflict
<1>3. remote' = remote /\ media' = media
  BY DEF PatchAndSync
<1>4. CASE UNCHANGED <<snap, pc, result>>
  BY <1>3, <1>4
<1> QED
  BY <1>1, <1>2, <1>3, <1>4 DEF PatchAndSync

\* One step of the finish request itself.
LEMMA FOwn ==
  ASSUME FInv, NEW f \in Finishers, RequestStep(f)
  PROVE  Stored(f)'
<1> f \in Requests /\ f \notin Writers /\ f \notin Aborters
  BY Constants DEF Requests, Lockers
<1> USE DEF Stored, StoredAs, Checked, Then, Answer
<1>1. TypeOK /\ DInv /\ Stored(f) /\ Placed(f)
  BY DEF FInv, DInv, TInv
<1>2. CASE LockStep(f) \/ LoadInactive(f) \/ AbortLoad(f)
  BY <1>1, <1>2 DEF LockStep, Acquire, LockTimeout, ReleaseGet, ReleaseDel, LoadInactive,
       AbortLoad, Goto, Just, TypeOK, store, files, locals
<1>3. CASE Sniff(f) \/ RemoveTemp(f) \/ RemoveRecord(f)
  BY <1>1, <1>3 DEF Sniff, RemoveTemp, RemoveRecord, AfterSniff, Goto, TypeOK, files, locals
<1>4. CASE SniffPatch(f)
  <2>1. /\ remote' = remote /\ media' = media /\ snap'[f].received = snap[f].received
        /\ <<pc'[f], result'[f]>> \in
             {<<pc[f], result[f]>>, <<"ready", "none">>, <<"relGet", "409">>}
    BY <1>1, <1>4, EmptyPatches, PatchStored DEF SniffPatch, AfterSniff
  <2> QED
    BY <1>1, <1>4, <2>1 DEF SniffPatch
<1>5. CASE MarkReady(f) \/ MarkUploading(f)
  <2>1. /\ remote' = remote /\ media' = media /\ snap'[f].received = snap[f].received
        /\ <<pc'[f], result'[f]>> \in
             {<<pc[f], result[f]>>, <<"prepare", "none">>, <<"put", "none">>,
              <<"error", "none">>, <<"relGet", "409">>}
    BY <1>1, <1>5, EmptyPatches, PatchStored DEF MarkReady, MarkUploading
  <2> QED
    BY <1>1, <1>5, <2>1 DEF MarkReady, MarkUploading
<1>6. CASE MarkError(f) \/ FlagError(f)
  <2>1. /\ remote' = remote /\ media' = media /\ snap'[f].received = snap[f].received
        /\ <<pc'[f], result'[f]>> \in
             {<<pc[f], result[f]>>, <<"errClean", "500">>, <<"errClean", "409">>,
              <<"drop", "500">>, <<"drop", "409">>}
    BY <1>1, <1>6, EmptyPatches, PatchStored DEF MarkError, FlagError
  <2> QED
    BY <1>1, <1>6, <2>1 DEF MarkError, FlagError
<1>7. CASE MarkUploaded(f)
  <2>1. /\ remote' = remote /\ media' = media /\ snap'[f].received = snap[f].received
        /\ <<pc'[f], result'[f]>> \in
             {<<pc[f], result[f]>>, <<"persist", "none">>, <<"relGet", "409">>}
    BY <1>1, <1>7, EmptyPatches, PatchStored DEF MarkUploaded
  <2> QED
    BY <1>1, <1>7, <2>1 DEF MarkUploaded
<1>8. CASE WriteStep(f)
  <2>1. PlacedAt(f, pc[f])
    BY <1>1 DEF Placed
  <2> QED
    BY <1>8, <2>1 DEF WriteStep, WriterLoad, WriterBegin, WriterCheck, WriterWrite,
         WriterCommit, PlacedAt, WriterLabels
<1>9. CASE PutDone(f)
  <2>1. temp = written /\ snap[f].received = Chunks /\ snap[f].received \subseteq written
    BY <1>1, <1>9 DEF PutDone, DInv, FileOK, Backed
  <2>2. temp = Chunks
    BY <1>1, <2>1 DEF TypeOK
  <2> QED
    BY <1>1, <1>9, <2>2 DEF PutDone, Goto, TypeOK, locals
<1>10. CASE Persist(f)
  BY <1>1, <1>10 DEF Persist, Goto, TypeOK, locals
<1>11. CASE \/ FinisherLoad(f) \/ Prepare(f) \/ ErrorClean(f) \/ Discard(f) \/ Drop(f)
  BY <1>1, <1>11 DEF FinisherLoad, Prepare, ErrorClean, Discard, Drop, Complete, Goto, Just,
       TypeOK, files, locals
<1>12. CASE PutFailed(f) \/ Rollback(f)
  BY <1>1, <1>12 DEF PutFailed, Rollback, Goto, TypeOK, locals
<1> QED
  BY <1>2, <1>3, <1>4, <1>5, <1>6, <1>7, <1>8, <1>9, <1>10, <1>11, <1>12
     DEF RequestStep, SniffStep, FinishStep

LEMMA FNext == FInv /\ [Next]_vars => FInv'
<1> SUFFICES ASSUME FInv, [Next]_vars PROVE FInv'
  OBVIOUS
<1>1. DInv' /\ TypeOK
  BY DNext DEF FInv, DInv, TInv
<1> SUFFICES ASSUME NEW f \in Finishers PROVE Stored(f)'
  BY <1>1 DEF FInv
<1>2. Stored(f) /\ f \in Requests /\ f # Opener
  BY Constants DEF FInv, Requests, Lockers
<1>3. ASSUME NEW r \in Requests, RequestStep(r) \/ Crash(r), r # f
      PROVE  Stored(f)'
  <2>1. /\ pc'[f] = pc[f] /\ result'[f] = result[f] /\ snap'[f] = snap[f]
        /\ remote'[f] = remote[f] /\ (f \in media => f \in media')
    BY <1>1, <1>2, <1>3, OthersStay
  <2> QED
    BY <1>2, <2>1 DEF Stored, StoredAs
<1>4. CASE Crash(f)
  BY <1>1, <1>2, <1>4 DEF Crash, Stored, StoredAs, Checked, TypeOK, files
<1>5. CASE InitTemp \/ InitRecord
  BY <1>1, <1>2, <1>5
     DEF InitTemp, InitRecord, Goto, Stored, StoredAs, TypeOK, files, locals, Requests
<1>6. CASE \/ GoneTemp \/ GoneRecord \/ Expire \/ Evict \/ LockExpire \/ Sweep \/ UNCHANGED vars
  <2>1. UNCHANGED <<pc, result, snap, remote, media>>
    BY <1>6 DEF GoneTemp, GoneRecord, Expire, Evict, LockExpire, Sweep, vars, files, locals
  <2> QED
    BY <1>2, <2>1 DEF Stored, StoredAs
<1> QED
  BY <1>3, <1>4, <1>5, <1>6, FOwn DEF Next

\* A finish answered with success left its row, and the row's remote file has
\* every chunk of the session: whatever overlapped, expired, crashed or was
\* swept on the way, and for good.
THEOREM FinishStored == Spec => []FinishedIsStored
<1>1. FInv => FinishedIsStored
  BY DEF FInv, Stored, StoredAs, FinishedIsStored
<1> QED
  BY FInit, FNext, <1>1, PTL DEF Spec

-----------------------------------------------------------------------------
(* While the WATCH stands *)

\* With the WATCH intact, a patch compares and writes in one step.
LEMMA PatchCases ==
  ASSUME ~WatchLost, NEW r \in Requests, pend[r] = Absent, NEW p, NEW yes, NEW no,
         PatchAndSync(r, p, yes, no)
  PROVE  /\ \/ /\ rec # Absent /\ rec.version = snap[r].version
               /\ rec' = Merge(rec, p) /\ snap' = [snap EXCEPT ![r] = Merge(@, p)]
               /\ Goto(r, yes)
            \/ rec' = rec /\ snap' = snap /\ Goto(r, no)
         /\ pend' = [pend EXCEPT ![r] = Absent]
         /\ UNCHANGED <<expired, lock, temp, remote, media, written, sniff, tries>>
BY DEF PatchAndSync, Commit, Conflict, Matches, files

(***************************************************************************)
(* The record is created once: no other request starts before init is      *)
(* done, and none holds a record it could write back blindly.              *)
(***************************************************************************)
OpenerFirst ==
  /\ pc[Opener] \in {"start", "create", "done", "crashed"}
  /\ pc[Opener] # "done" => \A r \in Requests \ {Opener} : pc[r] = "start"

NoPending == \A r \in Requests : pend[r] = Absent

KInv == TInv /\ OpenerFirst /\ NoPending

LEMMA KInit == Init => KInv
BY TInit DEF Init, KInv, OpenerFirst, NoPending, Requests

\* The init request has no step besides its two.
LEMMA OpenerIdle ==
  ASSUME OpenerFirst
  PROVE  ~RequestStep(Opener)
<1>1. Opener \notin Lockers /\ Opener \notin Aborters
  BY Constants
<1> QED
  BY <1>1 DEF OpenerFirst, RequestStep, LockStep, Acquire, LockTimeout, ReleaseGet,
     ReleaseDel, LoadInactive, AbortLoad, SniffStep, Sniff, SniffPatch, RemoveTemp,
     RemoveRecord, WriteStep, WriterLoad, WriterBegin, WriterCheck, WriterWrite,
     WriterCommit, FinishStep, FinisherLoad, MarkReady, Prepare, MarkUploading, PutDone,
     PutFailed, MarkError, ErrorClean, Discard, MarkUploaded, Persist, Rollback, FlagError,
     Drop, Lockers

\* A request runs only after init is done.
LEMMA RunsLater ==
  ASSUME OpenerFirst, NEW r \in Requests, RequestStep(r)
  PROVE  r # Opener /\ pc[Opener] = "done"
<1>1. r # Opener
  BY OpenerIdle
<1>2. pc[r] = "start" => pc[Opener] = "done"
  BY DEF RequestStep, LockStep, Acquire, LockTimeout, ReleaseGet,
     ReleaseDel, LoadInactive, AbortLoad, SniffStep, Sniff, SniffPatch, RemoveTemp,
     RemoveRecord, WriteStep, WriterLoad, WriterBegin, WriterCheck, WriterWrite,
     WriterCommit, FinishStep, FinisherLoad, MarkReady, Prepare, MarkUploading, PutDone,
     PutFailed, MarkError, ErrorClean, Discard, MarkUploaded, Persist, Rollback, FlagError,
     Drop
<1> QED
  BY <1>1, <1>2 DEF OpenerFirst

LEMMA RunsAfterInit ==
  ASSUME KInv, NEW r \in Requests, RequestStep(r)
  PROVE  r # Opener /\ pc[Opener] = "done"
BY RunsLater DEF KInv

\* What a step may do to the record.
LEMMA RecordStep ==
  ASSUME ~WatchLost, KInv, NEW r \in Requests, RequestStep(r)
  PROVE  /\ rec' \in {rec, Absent} \/ (rec # Absent /\ \E p \in Patches : rec' = Merge(rec, p))
         /\ pend'[r] = Absent
<1>1. pend[r] = Absent /\ TypeOK
  BY DEF KInv, NoPending, TInv
<1>2. ASSUME NEW p, p \in Patches, NEW yes, NEW no, PatchAndSync(r, p, yes, no)
      PROVE  /\ rec' = rec \/ (rec # Absent /\ \E q \in Patches : rec' = Merge(rec, q))
             /\ pend'[r] = Absent
  <2>1. pend' = [pend EXCEPT ![r] = Absent]
    BY <1>1, <1>2, PatchCases
  <2>2. rec' = rec \/ (rec # Absent /\ rec' = Merge(rec, p))
    BY <1>1, <1>2, PatchCases
  <2> QED
    BY <1>1, <1>2, <2>1, <2>2 DEF TypeOK
<1>3. CASE SniffPatch(r)
  BY <1>2, <1>3, PatchesMade DEF SniffPatch
<1>4. CASE WriterCommit(r)
  <2>1. SetReceived(snap[r].received \cup {ChunkOf[r]}) \in Patches
    BY <1>1, <1>4 DEF WriterCommit, SetReceived, Patches, KInv, TInv, TypeOK, Placed, PlacedAt,
       WriterLabels, Record
  <2> QED
    BY <1>2, <1>4, <2>1 DEF WriterCommit
<1>5. CASE \/ WriterBegin(r) \/ MarkReady(r) \/ MarkUploading(r) \/ MarkError(r)
           \/ MarkUploaded(r) \/ FlagError(r)
  <2>1. \A x \in {"receiving", "ready-to-upload", "uploading", "error", "uploaded"} :
          SetState(x) \in Patches
    BY PatchesMade DEF UploadState
  <2> QED
    BY <1>2, <1>5, <2>1
       DEF WriterBegin, MarkReady, MarkUploading, MarkError, MarkUploaded, FlagError
<1>6. CASE RemoveRecord(r) \/ Drop(r)
  BY <1>1, <1>6 DEF RemoveRecord, Drop, locals
<1>7. CASE \/ LockStep(r) \/ LoadInactive(r) \/ AbortLoad(r) \/ Sniff(r) \/ RemoveTemp(r)
           \/ WriterLoad(r) \/ WriterCheck(r) \/ WriterWrite(r) \/ FinisherLoad(r)
           \/ Prepare(r) \/ PutDone(r) \/ PutFailed(r) \/ ErrorClean(r) \/ Discard(r)
           \/ Persist(r) \/ Rollback(r)
  <2>1. rec' = rec /\ pend' = pend
    BY <1>7 DEF LockStep, Acquire, LockTimeout, ReleaseGet, ReleaseDel, LoadInactive, AbortLoad,
       Sniff, RemoveTemp, WriterLoad, WriterCheck, WriterWrite, FinisherLoad, Prepare, PutDone,
       PutFailed, ErrorClean, Discard, Persist, Rollback, Just, store, locals
  <2> QED
    BY <1>1, <2>1
<1> QED
  BY <1>3, <1>4, <1>5, <1>6, <1>7 DEF RequestStep, SniffStep, WriteStep, FinishStep

LEMMA KNext == ~WatchLost /\ KInv /\ [Next]_vars => KInv'
<1> SUFFICES ASSUME ~WatchLost, KInv, [Next]_vars PROVE KInv'
  OBVIOUS
<1>1. TInv' /\ TypeOK
  BY TNext DEF KInv, TInv
<1>2. ASSUME NEW r \in Requests, RequestStep(r)
      PROVE  OpenerFirst' /\ NoPending'
  <2>1. r # Opener /\ pc[Opener] = "done" /\ pc'[Opener] = "done"
    BY <1>1, <1>2, RunsAfterInit, OthersStay DEF Requests
  <2>2. pend'[r] = Absent
    BY <1>2, RecordStep
  <2>3. \A d \in Requests \ {r} : pend'[d] = Absent
    BY <1>1, <1>2, OthersStay DEF KInv, NoPending
  <2> QED
    BY <2>1, <2>2, <2>3 DEF OpenerFirst, NoPending
<1>3. ASSUME NEW r \in Requests, Crash(r)
      PROVE  OpenerFirst' /\ NoPending'
  BY <1>1, <1>3 DEF Crash, KInv, OpenerFirst, NoPending, TypeOK, Requests
<1>4. CASE InitTemp \/ InitRecord
  BY <1>1, <1>4 DEF InitTemp, InitRecord, Goto, Then, KInv, OpenerFirst, NoPending, TypeOK,
     Requests, locals
<1>5. CASE \/ GoneTemp \/ GoneRecord \/ Expire \/ Evict \/ LockExpire \/ Sweep \/ UNCHANGED vars
  <2>1. UNCHANGED <<pc, pend>>
    BY <1>5 DEF GoneTemp, GoneRecord, Expire, Evict, LockExpire, Sweep, vars, files, locals
  <2> QED
    BY <1>1, <2>1 DEF KInv, OpenerFirst, NoPending
<1> QED
  BY <1>1, <1>2, <1>3, <1>4, <1>5 DEF Next, KInv

\* A key that abort, finish, expiry or eviction removed is not re-created by a
\* late patch: the version a patch expects is compared with the record that is
\* there, and there is none.
THEOREM StaysRemoved == ASSUME ~WatchLost PROVE Spec => NoResurrection
<1>1. KInv /\ [Next]_vars => [pc[Opener] = "done" /\ rec = Absent => rec' = Absent]_rec
  <2> SUFFICES ASSUME KInv, [Next]_vars, pc[Opener] = "done", rec = Absent PROVE rec' = Absent
    OBVIOUS
  <2>1. ASSUME NEW r \in Requests, RequestStep(r) PROVE rec' = Absent
    BY <2>1, RecordStep
  <2>2. CASE ~\E r \in Requests : RequestStep(r)
    BY <2>2 DEF Next, InitTemp, InitRecord, Crash, GoneTemp, GoneRecord, Expire, Evict,
       LockExpire, Sweep, vars, store
  <2> QED
    BY <2>1, <2>2
<1> QED
  BY KInit, KNext, <1>1, PTL DEF Spec, NoResurrection

---------------------------------------------------------------------------
(***************************************************************************)
(* Abort.  An abort that has answered has removed the record, which does   *)
(* not come back; the patch that lets a finish write its row needs it.     *)
(***************************************************************************)
AbortGone ==
  \A a \in Aborters : result[a] = "ok" => rec = Absent /\ pc[a] = "done" /\ pc[Opener] = "done"

AInv == KInv /\ AbortGone

LEMMA AInit == Init => AInv
BY KInit DEF Init, AInv, AbortGone, Requests

\* A removed record stays away while the requests run.
LEMMA AbsentStays ==
  ASSUME ~WatchLost, KInv, [Next]_vars, rec = Absent, pc[Opener] = "done"
  PROVE  rec' = Absent /\ pc'[Opener] = "done"
<1>1. TypeOK
  BY DEF KInv, TInv
<1>2. ASSUME NEW r \in Requests, RequestStep(r)
      PROVE  rec' = Absent /\ pc'[Opener] = "done"
  <2>1. rec' = Absent
    BY <1>2, RecordStep
  <2>2. pc'[Opener] = pc[Opener]
    BY <1>1, <1>2, RunsAfterInit, OthersStay DEF Requests
  <2> QED
    BY <2>1, <2>2
<1>3. ASSUME NEW r \in Requests, Crash(r)
      PROVE  rec' = Absent /\ pc'[Opener] = "done"
  BY <1>1, <1>3 DEF Crash, TypeOK, store
<1>4. CASE ~\E r \in Requests : RequestStep(r) \/ Crash(r)
  BY <1>4 DEF Next, InitTemp, InitRecord, GoneTemp, GoneRecord, Expire, Evict,
     LockExpire, Sweep, vars, store
<1> QED
  BY <1>2, <1>3, <1>4

\* Only its removal of the record makes an abort succeed.
LEMMA AbortOwn ==
  ASSUME KInv, NEW a \in Aborters, RequestStep(a), result[a] = "ok" => pc[a] = "done"
  PROVE  result'[a] = "ok" => rec' = Absent /\ pc'[a] = "done"
<1> a \in Requests /\ a \notin Lockers /\ a \notin Writers /\ a \notin Finishers
  BY Constants DEF Requests, Lockers
<1>1. TypeOK /\ PlacedAt(a, pc[a])
  BY DEF KInv, TInv, Placed
<1> USE DEF Just, Goto, TypeOK, Then, Answer
<1>2. CASE LockStep(a) \/ LoadInactive(a) \/ AbortLoad(a)
  BY <1>1, <1>2 DEF LockStep, Acquire, LockTimeout, ReleaseGet, ReleaseDel, LoadInactive,
     AbortLoad
<1>3. CASE SniffStep(a)
  BY <1>1, <1>3 DEF SniffStep, Sniff, SniffPatch, RemoveTemp, RemoveRecord, PlacedAt
<1>4. CASE WriteStep(a)
  BY <1>1, <1>4 DEF WriteStep, WriterLoad, WriterBegin, WriterCheck, WriterWrite,
     WriterCommit, PlacedAt, WriterLabels
<1>5. CASE FinishStep(a)
  BY <1>1, <1>5 DEF FinishStep, FinisherLoad, MarkReady, Prepare, MarkUploading, PutDone,
     PutFailed, MarkError, ErrorClean, Discard, MarkUploaded, Persist, Rollback, FlagError,
     Drop, PlacedAt, FinisherLabels
<1> QED
  BY <1>2, <1>3, <1>4, <1>5 DEF RequestStep

LEMMA ANext == ~WatchLost /\ AInv /\ [Next]_vars => AInv'
<1> SUFFICES ASSUME ~WatchLost, AInv, [Next]_vars PROVE AInv'
  OBVIOUS
<1>1. KInv' /\ KInv /\ TypeOK
  BY KNext DEF AInv, KInv, TInv
<1> SUFFICES ASSUME NEW a \in Aborters, result'[a] = "ok"
             PROVE  rec' = Absent /\ pc'[a] = "done" /\ pc'[Opener] = "done"
  BY <1>1 DEF AInv, AbortGone
<1>2. a \in Requests /\ a # Opener
  BY Constants DEF Requests, Lockers
<1>3. CASE RequestStep(a)
  <2>1. rec' = Absent /\ pc'[a] = "done"
    BY <1>1, <1>3, AbortOwn DEF AInv, AbortGone
  <2>2. pc[Opener] = "done" /\ pc'[Opener] = pc[Opener]
    BY <1>1, <1>2, <1>3, RunsAfterInit, OthersStay DEF Requests
  <2> QED
    BY <2>1, <2>2
<1>4. CASE ~RequestStep(a)
  <2>1. result[a] = "ok"
    <3>1. ASSUME NEW r \in Requests, RequestStep(r) \/ Crash(r), r # a PROVE result'[a] = result[a]
      BY <1>1, <1>2, <3>1, OthersStay
    <3>2. CASE Crash(a)
      BY <3>2 DEF Crash
    <3>3. CASE ~\E r \in Requests : RequestStep(r) \/ Crash(r)
      BY <1>1, <1>2, <3>3 DEF Next, InitTemp, InitRecord, Goto, TypeOK, GoneTemp, GoneRecord,
         Expire, Evict, LockExpire, Sweep, vars, Requests
    <3> QED
      BY <1>4, <3>1, <3>2, <3>3
  <2>2. pc[a] = "done" /\ rec = Absent /\ pc[Opener] = "done"
    BY <2>1 DEF AInv, AbortGone
  <2>3. pc'[a] = "done"
    <3>1. ASSUME NEW r \in Requests, RequestStep(r) \/ Crash(r), r # a PROVE pc'[a] = pc[a]
      BY <1>1, <1>2, <3>1, OthersStay
    <3>2. CASE Crash(a)
      BY <2>2, <3>2 DEF Crash
    <3>3. CASE ~\E r \in Requests : RequestStep(r) \/ Crash(r)
      BY <2>2, <3>3 DEF Next, InitTemp, InitRecord, GoneTemp, GoneRecord, Expire, Evict,
         LockExpire, Sweep, vars
    <3> QED
      BY <1>4, <2>2, <3>1, <3>2, <3>3
  <2> QED
    BY <1>1, <2>2, <2>3, AbsentStays
<1> QED
  BY <1>3, <1>4

\* A finish reaches the row only through a patch of a live record.
LEMMA PersistNeedsRecord ==
  ASSUME ~WatchLost, KInv, NEW f \in Finishers, [Next]_vars, pc[f] # "persist", pc'[f] = "persist"
  PROVE  rec # Absent
<1>1. TypeOK /\ f \in Requests /\ f # Opener /\ f \notin Writers /\ pend[f] = Absent
  BY Constants DEF KInv, NoPending, TInv, Requests, Lockers
<1>2. ASSUME NEW r \in Requests, RequestStep(r) \/ Crash(r), r # f PROVE FALSE
  BY <1>1, <1>2, OthersStay
<1>3. ~Crash(f)
  BY <1>1 DEF Crash, TypeOK
<1>4. CASE ~\E r \in Requests : RequestStep(r) \/ Crash(r)
  BY <1>1, <1>4 DEF Next, InitTemp, InitRecord, Goto, TypeOK, GoneTemp, GoneRecord,
     Expire, Evict, LockExpire, Sweep, vars, Requests, files, locals, Then
<1>5. CASE RequestStep(f)
  <2> USE DEF Goto, Just, TypeOK, Then, Answer
  <2>1. ASSUME NEW p, NEW yes, NEW no, PatchAndSync(f, p, yes, no), yes[1] # "persist",
               no[1] # "persist"
        PROVE  FALSE
    <3>1. pc' = [pc EXCEPT ![f] = yes[1]] \/ pc' = [pc EXCEPT ![f] = no[1]]
      BY <1>1, <2>1, PatchCases
    <3> QED
      BY <1>1, <2>1, <3>1
  <2>2. CASE MarkUploaded(f)
    <3>1. rec # Absent \/ Goto(f, Answer("409"))
      BY <1>1, <2>2, PatchCases DEF MarkUploaded
    <3> QED
      BY <1>1, <3>1
  <2>3. CASE LockStep(f) \/ LoadInactive(f) \/ AbortLoad(f)
    BY <1>1, <2>3 DEF LockStep, Acquire, LockTimeout, ReleaseGet, ReleaseDel, LoadInactive,
       AbortLoad
  <2>4. CASE SniffStep(f)
    BY <1>1, <2>1, <2>4
       DEF SniffStep, Sniff, SniffPatch, RemoveTemp, RemoveRecord, AfterSniff
  <2>5. CASE WriteStep(f)
    BY <1>1, <2>1, <2>5 DEF WriteStep, WriterLoad, WriterBegin, WriterCheck, WriterWrite, WriterCommit
  <2>6. CASE MarkReady(f) \/ MarkUploading(f) \/ MarkError(f) \/ FlagError(f)
    BY <2>1, <2>6 DEF MarkReady, MarkUploading, MarkError, FlagError
  <2>7. CASE \/ FinisherLoad(f) \/ Prepare(f) \/ PutDone(f) \/ PutFailed(f)
             \/ ErrorClean(f) \/ Discard(f) \/ Persist(f) \/ Rollback(f) \/ Drop(f)
    BY <1>1, <2>7 DEF FinisherLoad, Prepare, PutDone, PutFailed, ErrorClean, Discard, Persist,
       Rollback, Drop
  <2> QED
    BY <1>5, <2>2, <2>3, <2>4, <2>5, <2>6, <2>7 DEF RequestStep, FinishStep
<1> QED
  BY <1>2, <1>3, <1>4, <1>5

\* Once an abort was answered, no finish gets to write a row: the abort took no
\* lock, but the version check of the last patch finds the record gone.
THEOREM AbortFinal == ASSUME ~WatchLost PROVE Spec => AbortIsFinal
<1>1. AInv /\ [Next]_vars =>
        [\A f \in Finishers : pc[f] # "persist" /\ pc'[f] = "persist"
           => \A a \in Aborters : result[a] # "ok"]_pc
  BY PersistNeedsRecord DEF AInv, AbortGone
<1> QED
  BY AInit, ANext, <1>1, PTL DEF Spec, AbortIsFinal

---------------------------------------------------------------------------
(***************************************************************************)
(* A refused content.  The request that refused it has removed the record  *)
(* before it carries on, so that its next patch fails.                     *)
(***************************************************************************)
Early == {"start", "load", "begin", "check", "sniff"}

Unpublished(r) == r \in Finishers => remote[r] = NoFile /\ r \notin media

RefusedAs(r, label, answer) ==
  /\ label \in Early => sniff[r] = "none" /\ answer = "none" /\ Unpublished(r)
  /\ sniff[r] = "refused" =>
       /\ label \in {"rm", "del", "write", "commit", "ready", "relGet", "relDel", "done", "crashed"}
       /\ label \in {"write", "commit", "ready"} => rec = Absent
       /\ answer # "ok" /\ Unpublished(r)

Refused(r) == RefusedAs(r, pc[r], result[r])

RInv == KInv /\ \A r \in Lockers : Refused(r)

LEMMA RInit == Init => RInv
BY KInit DEF Init, RInv, Refused, RefusedAs, Unpublished, Requests

\* What a patch changes, in every mode.
LEMMA PatchAny ==
  ASSUME TypeOK, NEW r \in Requests, NEW p, NEW yes, NEW no, PatchAndSync(r, p, yes, no)
  PROVE  /\ UNCHANGED <<expired, lock, temp, remote, media, written, sniff, tries>>
         /\ \/ pc'[r] = pc[r] /\ result'[r] = result[r] /\ rec # Absent
            \/ pc'[r] = yes[1] /\ result'[r] = yes[2] /\ (rec # Absent \/ pend[r] # Absent)
            \/ pc'[r] = no[1] /\ result'[r] = no[2] /\ rec' = rec
BY DEF PatchAndSync, Commit, Conflict, Goto, Matches, TypeOK, files

\* What a patch changes for its own request.
LEMMA PatchOwn ==
  ASSUME ~WatchLost, KInv, NEW r \in Requests, NEW p, NEW yes, NEW no, PatchAndSync(r, p, yes, no)
  PROVE  /\ UNCHANGED <<remote, media, sniff>>
         /\ \/ pc'[r] = yes[1] /\ result'[r] = yes[2] /\ rec # Absent
            \/ pc'[r] = no[1] /\ result'[r] = no[2] /\ rec' = rec
<1>1. TypeOK /\ pend[r] = Absent
  BY DEF KInv, NoPending, TInv
<1> QED
  BY <1>1, PatchCases DEF Goto, TypeOK

\* A request that refused the content has no patch under way.
Unpatched(r) == sniff[r] = "refused" /\ pc[r] \in {"write", "commit", "ready"} => pend[r] = Absent

LEMMA ROwn ==
  ASSUME TInv, NEW r \in Lockers, Refused(r), Unpatched(r), RequestStep(r)
  PROVE  Refused(r)'
<1> r \in Requests /\ r \notin Aborters /\ (r \in Writers <=> r \notin Finishers)
  BY Constants DEF Requests, Lockers
<1> USE DEF Refused, RefusedAs, Unpatched, Early, Then, Answer
<1>1. TypeOK /\ PlacedAt(r, pc[r])
  BY DEF TInv, Placed
<1>2. CASE LockStep(r) \/ LoadInactive(r) \/ AbortLoad(r)
  <2>1. UNCHANGED <<remote, media, sniff>> /\ rec' = rec
    BY <1>2 DEF LockStep, Acquire, LockTimeout, ReleaseGet, ReleaseDel, LoadInactive,
       AbortLoad, Just, store, files, locals
  <2> QED
    BY <1>1, <1>2, <2>1 DEF LockStep, Acquire, LockTimeout, ReleaseGet, ReleaseDel,
       LoadInactive, AbortLoad, Goto, Just, TypeOK, Unpublished
<1>3. CASE Sniff(r)
  <2>1. PICK verdict \in {"same", "other", "refused"} :
          /\ sniff'[r] = verdict
          /\ result'[r] = "none"
          /\ verdict = "refused" => pc'[r] = "rm"
          /\ verdict # "refused" => pc'[r] \in {"mime", "write", "ready"}
    BY <1>1, <1>3 DEF Sniff, AfterSniff, Goto, TypeOK
  <2>2. UNCHANGED <<rec, remote, media>> /\ pc[r] = "sniff"
    BY <1>3 DEF Sniff, store, files
  <2> QED
    BY <2>1, <2>2 DEF Unpublished
<1>4. CASE RemoveTemp(r) \/ RemoveRecord(r)
  BY <1>1, <1>4 DEF RemoveTemp, RemoveRecord, AfterSniff, Goto, TypeOK, Unpublished, store,
     files, locals
<1>5. CASE SniffPatch(r)
  BY <1>1, <1>5, PatchAny DEF SniffPatch, AfterSniff, Unpublished
<1>6. CASE WriterBegin(r) \/ WriterCommit(r)
  BY <1>1, <1>6, PatchAny DEF WriterBegin, WriterCommit, PlacedAt, WriterLabels, Unpublished
<1>7. CASE \/ WriterLoad(r) \/ WriterCheck(r) \/ WriterWrite(r)
  BY <1>1, <1>7 DEF WriterLoad, WriterCheck, WriterWrite, PlacedAt, WriterLabels, Goto, Just, TypeOK,
     Unpublished, store, files, locals
<1>8. CASE \/ MarkReady(r) \/ MarkUploading(r) \/ MarkError(r) \/ MarkUploaded(r) \/ FlagError(r)
  BY <1>1, <1>8, PatchAny DEF MarkReady, MarkUploading, MarkError, MarkUploaded, FlagError, Unpublished
<1>9. CASE FinisherLoad(r)
  BY <1>1, <1>9 DEF FinisherLoad, Goto, TypeOK, Unpublished, files
<1>10. CASE \/ Prepare(r) \/ PutDone(r) \/ PutFailed(r) \/ ErrorClean(r) \/ Discard(r)
            \/ Persist(r) \/ Rollback(r) \/ Drop(r)
  <2>1. /\ pc[r] \in {"prepare", "put", "errClean", "discard", "persist", "rollback", "drop"}
        /\ pc'[r] \notin Early /\ sniff' = sniff
    BY <1>1, <1>10 DEF Prepare, PutDone, PutFailed, ErrorClean, Discard, Persist, Rollback,
       Drop, Goto, Just, TypeOK, locals
  <2> QED
    BY <2>1
<1> QED
  BY <1>2, <1>3, <1>4, <1>5, <1>6, <1>7, <1>8, <1>9, <1>10
     DEF RequestStep, SniffStep, WriteStep, FinishStep

\* What is none of the requests' steps leaves their own state alone.
LEMMA EnvStays ==
  ASSUME TypeOK, [Next]_vars, ~\E r \in Requests : RequestStep(r) \/ Crash(r),
         NEW d \in Requests, d # Opener
  PROVE  /\ pc'[d] = pc[d] /\ result'[d] = result[d]
         /\ UNCHANGED <<snap, pend, sniff, remote, media>>
<1>1. CASE InitTemp \/ InitRecord
  BY <1>1 DEF InitTemp, InitRecord, Goto, TypeOK, Requests, files, locals
<1>2. CASE \/ GoneTemp \/ GoneRecord \/ Expire \/ Evict \/ LockExpire \/ Sweep \/ UNCHANGED vars
  BY <1>2 DEF GoneTemp, GoneRecord, Expire, Evict, LockExpire, Sweep, vars, files, locals
<1> QED
  BY <1>1, <1>2 DEF Next

LEMMA RNext == ~WatchLost /\ RInv /\ [Next]_vars => RInv'
<1> SUFFICES ASSUME ~WatchLost, RInv, [Next]_vars PROVE RInv'
  OBVIOUS
<1>1. KInv' /\ KInv /\ TypeOK
  BY KNext DEF RInv, KInv, TInv
<1> SUFFICES ASSUME NEW d \in Lockers PROVE Refused(d)'
  BY <1>1 DEF RInv
<1>2. d \in Requests /\ d # Opener /\ Refused(d)
  BY Constants DEF Requests, Lockers, RInv
<1>3. CASE RequestStep(d)
  BY <1>1, <1>2, <1>3, ROwn DEF KInv, NoPending, Unpatched
<1>4. CASE Crash(d)
  BY <1>1, <1>2, <1>4 DEF Crash, Refused, RefusedAs, Early, Unpublished, TypeOK, store, files
<1>5. CASE /\ pc'[d] = pc[d] /\ result'[d] = result[d] /\ sniff'[d] = sniff[d]
           /\ d \in Finishers => remote'[d] = remote[d]
           /\ d \in media <=> d \in media'
  <2>1. pc[d] \in {"write", "commit", "ready"} /\ rec = Absent => rec' = Absent
    BY <1>1, <1>2, AbsentStays DEF KInv, OpenerFirst
  <2> QED
    BY <1>2, <1>5, <2>1 DEF Refused, RefusedAs, Unpublished
<1> QED
  BY <1>1, <1>2, <1>3, <1>4, <1>5, OthersStay, EnvStays

\* What the sniff of chunk 0 or of the whole file refused is neither
\* acknowledged nor put on the FTP server nor entered in the File table, although
\* the exception that should end the request is swallowed.
THEOREM RefusedIsLost == ASSUME ~WatchLost PROVE Spec => []RefusedNeverPublished
<1>1. RInv => RefusedNeverPublished
  BY DEF RInv, Refused, RefusedAs, Unpublished, RefusedNeverPublished
<1> QED
  BY RInit, RNext, <1>1, PTL DEF Spec

---------------------------------------------------------------------------
(***************************************************************************)
(* The life of the record.  Versions only grow, so that a snapshot with    *)
(* the record's version has the record's state; and the place a request    *)
(* has reached tells the state of its snapshot.  A patch that commits      *)
(* therefore moves the record from the state its request believed it in.   *)
(***************************************************************************)
Fresh ==
  /\ pc[Opener] # "done" => rec = Absent /\ media = {} /\ \A r \in Requests : snap[r] = NoSnap
  /\ rec # Absent => rec.version > 0

Coherent(r) ==
  rec # Absent => /\ snap[r].version <= rec.version
                  /\ snap[r].version = rec.version => snap[r].state = rec.state

KnowsAs(r, label) ==
  /\ label = "begin" => snap[r].state = "init"
  /\ label \in {"check", "sniff", "mime", "rm", "del", "write", "commit"} /\ r \in Writers
       => snap[r].state = "receiving"
  /\ label \in {"sniff", "mime", "rm", "del", "ready"} /\ r \in Finishers
       => Finishable(snap[r].state)
  /\ label \in {"prepare", "mark"} => snap[r].state = "ready-to-upload"
  /\ label \in {"put", "discard", "uploaded"} => snap[r].state = "uploading"
  /\ label = "error" => snap[r].state \in {"ready-to-upload", "uploading"}
  /\ label \in {"persist", "rollback", "flag"} => snap[r].state = "uploaded"

Knows(r) == KnowsAs(r, pc[r])

VInv == KInv /\ Fresh /\ \A r \in Requests : Coherent(r) /\ Knows(r)

LEMMA VInit == Init => VInv
BY KInit DEF Init, VInv, Fresh, Coherent, Knows, KnowsAs, Requests, Lockers

\* A patch, with what it does to the versions and states.
LEMMA PatchLife ==
  ASSUME ~WatchLost, KInv, NEW r \in Requests, NEW p \in Patches, NEW yes, NEW no,
         PatchAndSync(r, p, yes, no), Coherent(r)
  PROVE  /\ media' = media
         /\ \/ /\ rec # Absent /\ snap[r].state = rec.state /\ snap[r].version = rec.version
               /\ rec'.version = rec.version + 1 /\ snap'[r].version = rec'.version
               /\ rec'.state = IF p.state = "keep" THEN rec.state ELSE p.state
               /\ snap'[r].state = rec'.state /\ pc'[r] = yes[1] /\ rec' # Absent
            \/ rec' = rec /\ snap'[r] = snap[r] /\ pc'[r] = no[1]
<1>1. TypeOK /\ pend[r] = Absent
  BY DEF KInv, NoPending, TInv
<1>2. media' = media
  BY <1>1, PatchCases
<1>3. CASE rec' = rec /\ snap' = snap /\ Goto(r, no)
  BY <1>1, <1>2, <1>3 DEF Goto, TypeOK
<1>4. CASE /\ rec # Absent /\ rec.version = snap[r].version
           /\ rec' = Merge(rec, p) /\ snap' = [snap EXCEPT ![r] = Merge(@, p)]
           /\ Goto(r, yes)
  <2>1. rec' \in Record /\ rec' # Absent
    BY <1>1, <1>4, MergeType, Constants DEF TypeOK
  <2>2. snap'[r] = Merge(snap[r], p) /\ pc'[r] = yes[1]
    BY <1>1, <1>4 DEF Goto, TypeOK
  <2> QED
    BY <1>2, <1>4, <2>1, <2>2 DEF Merge, Coherent
<1> QED
  BY <1>1, <1>3, <1>4, PatchCases

\* What one request's step does to the record and to its own snapshot.
Kept(r) == rec' = rec /\ (snap'[r] \in {snap[r], NoSnap} \/ (rec # Absent /\ snap'[r] = rec))
Gone(r) == rec' = Absent /\ snap'[r] = snap[r]
Moved(r) ==
  /\ rec # Absent /\ rec' # Absent /\ rec'.version = rec.version + 1
  /\ snap'[r].version = rec'.version /\ snap'[r].state = rec'.state
  /\ rec'.state = rec.state \/ LifecycleStep(rec.state, rec'.state)

LEMMA LifeStep ==
  ASSUME ~WatchLost, KInv, NEW r \in Requests, Coherent(r), Knows(r), RequestStep(r)
  PROVE  (Kept(r) \/ Gone(r) \/ Moved(r)) /\ Knows(r)'
<1> USE DEF Knows, KnowsAs, Then, Answer
<1>1. TypeOK /\ PlacedAt(r, pc[r])
  BY DEF KInv, TInv, Placed
<1>made. \A x \in UploadState : SetState(x) \in Patches /\ SetState(x).state = x
  BY PatchesMade DEF SetState
<1>2. CASE WriterBegin(r)
  <2>1. SetState("receiving") \in Patches /\ SetState("receiving").state = "receiving"
    BY <1>made DEF UploadState
  <2> QED
    BY <1>2, <2>1, PatchLife DEF WriterBegin, Kept, Moved, LifecycleStep
<1>3. CASE MarkReady(r)
  <2>1. SetState("ready-to-upload") \in Patches /\ SetState("ready-to-upload").state = "ready-to-upload"
    BY <1>made DEF UploadState
  <2>2. r \in Finishers
    BY <1>1, <1>3 DEF MarkReady, PlacedAt, FinisherLabels
  <2> QED
    BY <1>3, <2>1, <2>2, PatchLife DEF MarkReady, Kept, Moved, LifecycleStep, Finishable
<1>4. CASE MarkUploading(r)
  <2>1. SetState("uploading") \in Patches /\ SetState("uploading").state = "uploading"
    BY <1>made DEF UploadState
  <2> QED
    BY <1>4, <2>1, PatchLife DEF MarkUploading, Kept, Moved, LifecycleStep
<1>5. CASE MarkError(r) \/ FlagError(r)
  <2>1. SetState("error") \in Patches /\ SetState("error").state = "error"
    BY <1>made DEF UploadState
  <2> QED
    BY <1>5, <2>1, PatchLife DEF MarkError, FlagError, Kept, Moved, LifecycleStep
<1>6. CASE MarkUploaded(r)
  <2>1. SetState("uploaded") \in Patches /\ SetState("uploaded").state = "uploaded"
    BY <1>made DEF UploadState
  <2> QED
    BY <1>6, <2>1, PatchLife DEF MarkUploaded, Kept, Moved, LifecycleStep
<1>7. CASE SniffPatch(r)
  <2>1. SetMime \in Patches /\ SetMime.state = "keep"
    BY PatchesMade DEF SetMime
  <2> QED
    BY <1>7, <2>1, PatchLife DEF SniffPatch, AfterSniff, Kept, Moved
<1>8. CASE WriterCommit(r)
  <2> DEFINE p == SetReceived(snap[r].received \cup {ChunkOf[r]})
  <2>1. p \in Patches /\ p.state = "keep"
    BY <1>1, <1>8 DEF WriterCommit, SetReceived, Patches, TypeOK, PlacedAt, WriterLabels, Record
  <2>2. PatchAndSync(r, p, Answer("ok"), Answer("409"))
    BY <1>8 DEF WriterCommit
  <2> QED
    BY <2>1, <2>2, PatchLife DEF Kept, Moved
<1>9. CASE WriterLoad(r)
  BY <1>1, <1>9, Constants DEF WriterLoad, Writable, Active, Goto, TypeOK, Kept, store, Lockers
<1>10. CASE FinisherLoad(r)
  BY <1>1, <1>10, Constants DEF FinisherLoad, Active, Goto, TypeOK, Kept, store
<1>11. CASE ReleaseGet(r)
  BY <1>1, <1>11 DEF ReleaseGet, TypeOK, Kept, store
<1>12. CASE RemoveRecord(r) \/ Drop(r)
  BY <1>1, <1>12, Constants DEF RemoveRecord, Drop, AfterSniff, Goto, TypeOK, Gone, locals
<1>13. CASE Sniff(r)
  <2>1. UNCHANGED <<rec, snap>> /\ pc[r] = "sniff" /\ pc'[r] \in {"rm", "mime", AfterSniff(r)}
    BY <1>1, <1>13 DEF Sniff, Goto, TypeOK, store
  <2> QED
    BY <2>1 DEF Kept, AfterSniff
<1>14. CASE \/ Acquire(r) \/ LockTimeout(r) \/ ReleaseDel(r) \/ LoadInactive(r)
            \/ RemoveTemp(r) \/ WriterCheck(r) \/ WriterWrite(r)
  <2>1. UNCHANGED <<rec, snap>>
    BY <1>14 DEF Acquire, LockTimeout, ReleaseDel, LoadInactive, RemoveTemp,
       WriterCheck, WriterWrite, Just, store, locals
  <2>2. WriterCheck(r) => r \notin Finishers
    BY <1>1, Constants DEF WriterCheck, PlacedAt, WriterLabels
  <2> QED
    BY <1>1, <1>14, <2>1, <2>2 DEF Acquire, LockTimeout, ReleaseDel, LoadInactive,
       RemoveTemp, WriterCheck, WriterWrite, Just, Goto, TypeOK, Kept
<1>15. CASE AbortLoad(r)
  <2>1. r \notin Finishers /\ r \notin Writers
    BY <1>15, Constants DEF AbortLoad, Lockers
  <2> QED
    BY <1>1, <1>15, <2>1 DEF AbortLoad, Just, Goto, TypeOK, Kept, store, locals
<1>16. CASE \/ Prepare(r) \/ PutDone(r) \/ PutFailed(r) \/ ErrorClean(r) \/ Discard(r)
            \/ Persist(r) \/ Rollback(r)
  <2>1. UNCHANGED <<rec, snap>>
    BY <1>16 DEF Prepare, PutDone, PutFailed, ErrorClean, Discard, Persist, Rollback, Just,
       store, locals
  <2> QED
    BY <1>1, <1>16, <2>1 DEF Prepare, PutDone, PutFailed, ErrorClean, Discard, Persist,
       Rollback, Just, Goto, TypeOK, Kept
<1> QED
  BY <1>2, <1>3, <1>4, <1>5, <1>6, <1>7, <1>8, <1>9, <1>10, <1>11, <1>12, <1>13, <1>14,
     <1>15, <1>16 DEF RequestStep, LockStep, SniffStep, WriteStep, FinishStep

\* Crashes, init and the environment never write over a record.
LEMMA OtherLife ==
  ASSUME VInv, [Next]_vars, ~\E r \in Requests : RequestStep(r)
  PROVE  /\ \/ rec' \in {rec, Absent}
            \/ rec = Absent /\ rec'.version = 1 /\ pc[Opener] = "create" /\ pc'[Opener] = "done"
         /\ media' = media /\ \A r \in Requests : snap'[r] \in {snap[r], NoSnap}
         /\ \A r \in Requests : Knows(r)'
<1>1. TypeOK /\ (pc[Opener] = "create" => rec = Absent) /\ \A r \in Requests : Knows(r)
  BY DEF VInv, Fresh, KInv, TInv
<1>2. ASSUME NEW r \in Requests, Crash(r)
      PROVE  /\ rec' = rec /\ media' = media
             /\ \A d \in Requests : snap'[d] \in {snap[d], NoSnap} /\ Knows(d)'
  BY <1>1, <1>2 DEF Crash, TypeOK, Knows, KnowsAs, store, files
<1>3. CASE InitTemp
  BY <1>1, <1>3 DEF InitTemp, Goto, Then, TypeOK, Knows, KnowsAs, store, locals, Requests
<1>4. CASE InitRecord
  BY <1>1, <1>4 DEF InitRecord, Goto, TypeOK, Knows, KnowsAs, files, locals, Requests
<1>5. CASE \/ GoneTemp \/ GoneRecord \/ Expire \/ Evict \/ LockExpire \/ Sweep \/ UNCHANGED vars
  BY <1>1, <1>5 DEF GoneTemp, GoneRecord, Expire, Evict, LockExpire, Sweep, vars, store, files,
     locals, Knows, KnowsAs
<1> QED
  BY <1>2, <1>3, <1>4, <1>5 DEF Next

LEMMA VNext == ~WatchLost /\ VInv /\ [Next]_vars => VInv'
<1> SUFFICES ASSUME ~WatchLost, VInv, [Next]_vars PROVE VInv'
  OBVIOUS
<1>1. KInv' /\ KInv /\ TypeOK /\ NoSnap.version = 0 /\ TypeOK'
  BY KNext DEF VInv, KInv, TInv, NoSnap
<1>2. ASSUME NEW r \in Requests, RequestStep(r)
      PROVE  Fresh' /\ \A d \in Requests : Coherent(d)' /\ Knows(d)'
  <2>1. (Kept(r) \/ Gone(r) \/ Moved(r)) /\ Knows(r)'
    BY <1>1, <1>2, LifeStep DEF VInv
  <2>2. pc[Opener] = "done" /\ pc'[Opener] = "done"
    BY <1>1, <1>2, RunsAfterInit, OthersStay DEF Requests
  <2>3. \A d \in Requests \ {r} : pc'[d] = pc[d] /\ snap'[d] = snap[d]
    BY <1>1, <1>2, OthersStay
  <2>4. rec # Absent => rec.version \in Nat /\ rec.version > 0
    BY <1>1 DEF VInv, Fresh, TypeOK, Record
  <2>5. \A d \in Requests : snap[d].version \in Nat /\ Coherent(d)
    BY <1>1 DEF VInv, TypeOK, Record
  <2>6. Fresh'
    BY <2>1, <2>2, <2>4 DEF Fresh, Kept, Gone, Moved
  <2>7. \A d \in Requests : Coherent(d)'
    BY <1>1, <2>1, <2>3, <2>4, <2>5 DEF Coherent, Kept, Gone, Moved
  <2>8. \A d \in Requests : Knows(d)'
    BY <2>1, <2>3 DEF VInv, Knows, KnowsAs
  <2> QED
    BY <2>6, <2>7, <2>8
<1>3. CASE ~\E r \in Requests : RequestStep(r)
  <2>1. /\ \/ rec' \in {rec, Absent}
           \/ rec = Absent /\ rec'.version = 1 /\ pc[Opener] = "create" /\ pc'[Opener] = "done"
        /\ media' = media /\ \A r \in Requests : snap'[r] \in {snap[r], NoSnap}
        /\ \A r \in Requests : Knows(r)'
    BY <1>3, OtherLife
  <2>2. pc'[Opener] # "done" => pc[Opener] # "done"
    BY <1>1, <1>3, <2>1 DEF Next, InitTemp, InitRecord, Goto, Crash, TypeOK, Requests, GoneTemp,
       GoneRecord, Expire, Evict, LockExpire, Sweep, vars, files, locals
  <2>3. rec # Absent => rec.version \in Nat /\ rec.version > 0
    BY <1>1 DEF VInv, Fresh, TypeOK, Record
  <2>4. \A d \in Requests : snap[d].version \in Nat /\ Coherent(d)
    BY <1>1 DEF VInv, TypeOK, Record
  <2>5. CASE rec' \in {rec, Absent}
    BY <1>1, <2>1, <2>2, <2>3, <2>4, <2>5 DEF VInv, Fresh, Coherent
  <2>6. CASE rec = Absent /\ rec'.version = 1 /\ pc[Opener] = "create" /\ pc'[Opener] = "done"
    <3>1. \A d \in Requests : snap'[d] = NoSnap
      BY <2>1, <2>6 DEF VInv, Fresh
    <3>2. \A d \in Requests : snap'[d].version = 0
      BY <1>1, <3>1
    <3>3. \A d \in Requests : Coherent(d)'
      BY <2>6, <3>2 DEF Coherent
    <3>4. Fresh'
      BY <2>6 DEF Fresh
    <3> QED
      BY <1>1, <2>1, <3>3, <3>4 DEF VInv
  <2> QED
    BY <2>1, <2>5, <2>6
<1> QED
  BY <1>1, <1>2, <1>3 DEF VInv

\* The record's state moves along the session's life only, though patches come
\* from snapshots and two requests may believe they hold the lock.
THEOREM LifeOrdered == ASSUME ~WatchLost PROVE Spec => Lifecycle
<1>1. VInv /\ [Next]_vars =>
        [rec # Absent /\ rec' # Absent /\ rec'.state # rec.state
           => LifecycleStep(rec.state, rec'.state)]_rec
  <2> SUFFICES ASSUME VInv, [Next]_vars, rec # Absent, rec' # Absent, rec'.state # rec.state
               PROVE  LifecycleStep(rec.state, rec'.state)
    OBVIOUS
  <2>1. \E r \in Requests : RequestStep(r)
    BY OtherLife
  <2>2. PICK r \in Requests : RequestStep(r)
    BY <2>1
  <2>3. Kept(r) \/ Gone(r) \/ Moved(r)
    BY <2>2, LifeStep DEF VInv
  <2> QED
    BY <2>3 DEF Kept, Gone, Moved
<1> QED
  BY VInit, VNext, <1>1, PTL DEF Spec, Lifecycle

---------------------------------------------------------------------------
(***************************************************************************)
(* At most one row.  A finish is past its last patch once it may write its *)
(* row; from then on the record is uploaded or failed, if it is there, and *)
(* no other finish can have a snapshot of the present version in which the *)
(* session is still uploading.                                             *)
(***************************************************************************)
Past(f) == pc[f] = "persist" \/ f \in media

OnePast ==
  /\ \A f, g \in Finishers : Past(f) /\ Past(g) => f = g
  /\ \A f \in Finishers : Past(f) /\ rec # Absent => rec.state \in {"uploaded", "error"}

OInv == VInv /\ OnePast

LEMMA OInit == Init => OInv
BY VInit DEF Init, OInv, OnePast, Past, Requests, Lockers

\* Only its last patch takes a finish past it, in every mode.
LEMMA PastBy ==
  ASSUME TInv, NEW f \in Finishers, RequestStep(f), ~Past(f), Past(f)'
  PROVE  MarkUploaded(f) /\ pc'[f] = "persist"
<1>1. TypeOK /\ f \in Requests /\ f \notin Writers /\ f \notin Aborters /\ PlacedAt(f, pc[f])
  BY Constants DEF TInv, Placed, Requests, Lockers
<1>. USE DEF Past, Then, Answer
<1>2. CASE MarkUploaded(f)
  BY <1>1, <1>2, PatchAny DEF MarkUploaded
<1>3. ASSUME NEW p, NEW yes, NEW no, PatchAndSync(f, p, yes, no), yes[1] # "persist",
             no[1] # "persist"
      PROVE  FALSE
  BY <1>1, <1>3, PatchAny
<1>4. CASE LockStep(f) \/ LoadInactive(f)
  BY <1>1, <1>4 DEF LockStep, Acquire, LockTimeout, ReleaseGet, ReleaseDel, LoadInactive,
     Goto, Just, TypeOK, files
<1>5. CASE SniffStep(f)
  BY <1>1, <1>3, <1>5 DEF SniffStep, Sniff, SniffPatch, RemoveTemp, RemoveRecord, AfterSniff,
     Goto, TypeOK, files
<1>6. CASE WriteStep(f)
  BY <1>1, <1>6 DEF WriteStep, WriterLoad, WriterBegin, WriterCheck, WriterWrite,
     WriterCommit, PlacedAt, WriterLabels
<1>7. CASE MarkReady(f) \/ MarkUploading(f) \/ MarkError(f) \/ FlagError(f)
  BY <1>3, <1>7 DEF MarkReady, MarkUploading, MarkError, FlagError
<1>8. CASE \/ FinisherLoad(f) \/ Prepare(f) \/ PutDone(f) \/ PutFailed(f)
           \/ ErrorClean(f) \/ Discard(f) \/ Rollback(f) \/ Drop(f)
  BY <1>1, <1>8 DEF FinisherLoad, Prepare, PutDone, PutFailed, ErrorClean, Discard, Rollback,
     Drop, Goto, Just, TypeOK, files
<1>9. CASE Persist(f)
  BY <1>1, <1>9 DEF Persist
<1>10. CASE AbortLoad(f)
  BY <1>1, <1>10 DEF AbortLoad
<1>. QED
  BY <1>2, <1>4, <1>5, <1>6, <1>7, <1>8, <1>9, <1>10 DEF RequestStep, FinishStep

\* The step that takes a finish past its last patch.
LEMMA PastStep ==
  ASSUME ~WatchLost, VInv, NEW f \in Finishers, RequestStep(f), ~Past(f), Past(f)'
  PROVE  /\ rec # Absent /\ rec.state = "uploading"
         /\ rec' # Absent /\ rec'.state = "uploaded"
<1>1. KInv /\ TInv /\ f \in Requests /\ Coherent(f) /\ Knows(f)
  BY DEF VInv, KInv, Requests, Lockers
<1>2. MarkUploaded(f) /\ pc'[f] = "persist"
  BY <1>1, PastBy
<1>3. SetState("uploaded") \in Patches /\ SetState("uploaded").state = "uploaded"
  BY PatchesMade DEF SetState, UploadState
<1>. QED
  BY <1>1, <1>2, <1>3, PatchLife DEF MarkUploaded, Knows, KnowsAs, Then, Answer

LEMMA ONext == ~WatchLost /\ OInv /\ [Next]_vars => OInv'
<1> SUFFICES ASSUME ~WatchLost, OInv, [Next]_vars PROVE OInv'
  OBVIOUS
<1>1. VInv' /\ VInv /\ KInv /\ TypeOK /\ OnePast
  BY VNext DEF OInv, VInv, KInv, TInv
<1> SUFFICES OnePast'
  BY <1>1 DEF OInv
<1>2. \A f \in Finishers : f \in Requests /\ f # Opener
  BY Constants DEF Requests, Lockers
<1>3. ASSUME NEW r \in Requests, RequestStep(r)
      PROVE  OnePast'
  <2>1. \A f \in Finishers \ {r} : Past(f)' => Past(f)
    BY <1>1, <1>2, <1>3, OthersStay DEF Past
  <2>2. Kept(r) \/ Gone(r) \/ Moved(r)
    BY <1>1, <1>3, LifeStep DEF VInv
  <2>3. rec # Absent /\ rec.state \in {"uploaded", "error"} /\ rec' # Absent
          => rec'.state \in {"uploaded", "error"}
    BY <2>2 DEF Kept, Gone, Moved, LifecycleStep
  <2>4. rec = Absent => rec' = Absent
    BY <2>2 DEF Kept, Gone, Moved
  <2>5. CASE r \in Finishers /\ ~Past(r) /\ Past(r)'
    <3>1. /\ rec # Absent /\ rec.state = "uploading"
          /\ rec' # Absent /\ rec'.state = "uploaded"
      BY <1>1, <1>3, <2>5, PastStep
    <3>2. \A f \in Finishers : ~Past(f)
      BY <1>1, <3>1 DEF OnePast
    <3>3. \A f \in Finishers : Past(f)' => f = r
      BY <2>1, <3>2
    <3> QED
      BY <3>1, <3>3 DEF OnePast
  <2>6. CASE r \in Finishers /\ Past(r)' => Past(r)
    <3>1. \A f \in Finishers : Past(f)' => Past(f)
      BY <2>1, <2>6
    <3> QED
      BY <1>1, <2>3, <2>4, <3>1 DEF OnePast
  <2> QED
    BY <2>5, <2>6
<1>4. CASE ~\E r \in Requests : RequestStep(r)
  <2>1. /\ \/ rec' \in {rec, Absent}
           \/ rec = Absent /\ rec'.version = 1 /\ pc[Opener] = "create" /\ pc'[Opener] = "done"
        /\ media' = media
    BY <1>1, <1>4, OtherLife
  <2>2. \A f \in Finishers : pc'[f] = "persist" => pc[f] = "persist"
    <3> SUFFICES ASSUME NEW f \in Finishers, pc'[f] = "persist" PROVE pc[f] = "persist"
      OBVIOUS
    <3>1. CASE \E r \in Requests : Crash(r)
      BY <1>1, <1>2, <3>1 DEF Crash, TypeOK
    <3>2. CASE ~\E r \in Requests : Crash(r)
      BY <1>1, <1>2, <1>4, <3>2, EnvStays
    <3> QED
      BY <3>1, <3>2
  <2>3. \A f \in Finishers : Past(f)' => Past(f)
    BY <2>1, <2>2 DEF Past
  <2>4. CASE rec' \in {rec, Absent}
    BY <1>1, <2>3, <2>4 DEF OnePast
  <2>5. CASE pc[Opener] = "create"
    <3>1. \A f \in Finishers : ~Past(f)
      BY <1>1, <1>2, <2>5 DEF VInv, Fresh, KInv, OpenerFirst, Past
    <3> QED
      BY <2>3, <3>1 DEF OnePast
  <2> QED
    BY <2>1, <2>4, <2>5
<1> QED
  BY <1>3, <1>4

\* A session is published at most once, however many finish requests run at the
\* same time after the lock's TTL: the loser's last patch finds another version.
THEOREM PublishedOnce == ASSUME ~WatchLost PROVE Spec => []AtMostOneRow
<1>1. OInv => AtMostOneRow
  BY DEF OInv, OnePast, Past, AtMostOneRow, VInv, KInv, TInv, TypeOK
<1> QED
  BY OInit, ONext, <1>1, PTL DEF Spec

---------------------------------------------------------------------------
(***************************************************************************)
(* Acknowledged chunks.  Patches only add to the received chunks, and the  *)
(* patch that makes a writeChunk succeed adds its own.                     *)
(***************************************************************************)
WInv ==
  /\ KInv /\ AcknowledgedStays
  /\ pc[Opener] # "done" => \A w \in Writers : result[w] # "ok"

LEMMA WInit == Init => WInv
BY KInit DEF Init, WInv, AcknowledgedStays, Requests, Lockers

\* Only the patch of a chunk answers a writeChunk with success, in every mode.
LEMMA OkBy ==
  ASSUME TInv, NEW w \in Writers, RequestStep(w), result'[w] = "ok", result[w] # "ok"
  PROVE  WriterCommit(w)
<1>1. TypeOK /\ w \in Requests /\ w \notin Finishers /\ w \notin Aborters /\ PlacedAt(w, pc[w])
  BY Constants DEF TInv, Placed, Requests, Lockers
<1>. USE DEF Then, Answer
<1>2. ASSUME NEW p, NEW yes, NEW no, PatchAndSync(w, p, yes, no), yes[2] # "ok", no[2] # "ok"
      PROVE  FALSE
  BY <1>1, <1>2, PatchAny
<1>3. CASE LockStep(w) \/ LoadInactive(w) \/ AbortLoad(w)
  BY <1>1, <1>3 DEF LockStep, Acquire, LockTimeout, ReleaseGet, ReleaseDel, LoadInactive,
     AbortLoad, Goto, Just, TypeOK
<1>4. CASE SniffStep(w)
  BY <1>1, <1>2, <1>4 DEF SniffStep, Sniff, SniffPatch, RemoveTemp, RemoveRecord, AfterSniff,
     Goto, TypeOK
<1>5. CASE WriterLoad(w) \/ WriterBegin(w) \/ WriterCheck(w) \/ WriterWrite(w)
  BY <1>1, <1>2, <1>5 DEF WriterLoad, WriterBegin, WriterCheck, WriterWrite, Goto, Just, TypeOK
<1>6. CASE FinishStep(w)
  BY <1>1, <1>6 DEF FinishStep, FinisherLoad, MarkReady, Prepare, MarkUploading, PutDone,
     PutFailed, MarkError, ErrorClean, Discard, MarkUploaded, Persist, Rollback, FlagError,
     Drop, PlacedAt, FinisherLabels
<1>. QED
  BY <1>3, <1>4, <1>5, <1>6 DEF RequestStep, WriteStep

LEMMA WOwn ==
  ASSUME ~WatchLost, KInv, NEW w \in Writers, RequestStep(w), result'[w] = "ok"
  PROVE  result[w] = "ok" \/ ChunkOf[w] \in rec'.received
<1>1. TypeOK /\ TInv /\ w \in Requests /\ pend[w] = Absent
  BY DEF KInv, NoPending, TInv, Requests, Lockers
<1>2. CASE WriterCommit(w)
  <2>. DEFINE p == SetReceived(snap[w].received \cup {ChunkOf[w]})
  <2>1. p.received = snap[w].received \cup {ChunkOf[w]}
    BY DEF SetReceived
  <2>2. PatchAndSync(w, p, <<"relGet", "ok">>, <<"relGet", "409">>)
    BY <1>2 DEF WriterCommit, Answer
  <2>. HIDE DEF p
  <2>3. rec' = Merge(rec, p) \/ result'[w] = "409"
    BY <1>1, <2>2, PatchCases DEF Goto, TypeOK
  <2>. QED
    BY <2>1, <2>3 DEF Merge
<1>. QED  BY <1>1, <1>2, OkBy

LEMMA WNext == ~WatchLost /\ WInv /\ [Next]_vars => WInv'
<1> SUFFICES ASSUME ~WatchLost, WInv, [Next]_vars PROVE WInv'
  OBVIOUS
<1>1. KInv' /\ KInv /\ TypeOK
  BY KNext DEF WInv, KInv, TInv
<1>2. \A w \in Writers : w \in Requests /\ w # Opener
  BY Constants DEF Requests, Lockers
<1>3. ASSUME NEW r \in Requests, RequestStep(r)
      PROVE  WInv'
  <2>1. pc[Opener] = "done" /\ pc'[Opener] = "done"
    BY <1>1, <1>3, RunsAfterInit, OthersStay DEF Requests
  <2>2. \A w \in Writers : result'[w] = "ok" => result[w] = "ok" \/ ChunkOf[w] \in rec'.received
    BY <1>1, <1>2, <1>3, WOwn, OthersStay
  <2>3. rec' = rec \/ rec' = Absent \/ (rec # Absent /\ rec.received \subseteq rec'.received)
    BY <1>1, <1>3, RecordStep DEF Merge
  <2> QED
    BY <1>1, <2>1, <2>2, <2>3 DEF WInv, AcknowledgedStays
<1>4. CASE ~\E r \in Requests : RequestStep(r)
  <2>1. \A w \in Writers : result'[w] = result[w]
    <3>1. CASE \E r \in Requests : Crash(r)
      BY <3>1 DEF Crash
    <3>2. CASE ~\E r \in Requests : Crash(r)
      BY <1>1, <1>2, <1>4, <3>2, EnvStays
    <3> QED
      BY <3>1, <3>2
  <2>2. rec' \in {rec, Absent} \/ pc[Opener] = "create"
    BY <1>4 DEF Next, InitTemp, InitRecord, Crash, GoneTemp, GoneRecord, Expire, Evict,
       LockExpire, Sweep, vars, store
  <2>3. pc'[Opener] # "done" => pc[Opener] # "done"
    BY <1>1, <1>4 DEF Next, InitTemp, InitRecord, Goto, Crash, TypeOK, Requests, GoneTemp,
       GoneRecord, Expire, Evict, LockExpire, Sweep, vars, files, locals
  <2> QED
    BY <1>1, <2>1, <2>2, <2>3 DEF WInv, AcknowledgedStays
<1> QED
  BY <1>3, <1>4

\* A chunk whose writeChunk was answered with success stays in the record while
\* the record lives: no concurrent patch loses it.
THEOREM ChunksKept == ASSUME ~WatchLost PROVE Spec => []AcknowledgedStays
<1>1. WInv => AcknowledgedStays
  BY DEF WInv
<1> QED
  BY WInit, WNext, <1>1, PTL DEF Spec
---------------------------------------------------------------------------
(***************************************************************************)
(* The contract.  Answers are final (Answered), so that what the clients   *)
(* were told only grows; a finish is at `persist` as the winner, and only  *)
(* the patch to `uploaded` brings it there; every other step leaves what   *)
(* the contract sees alone, or ends the session.                           *)
(***************************************************************************)
Over == {"errClean", "drop", "relGet", "relDel", "done", "crashed"}
Answered(r) == result[r] # "none" => pc[r] \in Over

\* What the clients of the contract see of a request.
Quiet(r) ==
  /\ result'[r] = "ok" <=> result[r] = "ok"
  /\ pc'[r] = "persist" <=> pc[r] = "persist"
  /\ media' = media /\ written' = written

\* A patch that does not make its request succeed, nor a finish the winner.
LEMMA PatchQuiet ==
  ASSUME ~WatchLost, KInv, NEW r \in Requests, NEW p, NEW yes, NEW no, PatchAndSync(r, p, yes, no),
         yes[1] # "persist", no[1] # "persist", yes[2] # "ok", no[2] # "ok",
         result[r] = "none", pc[r] # "persist",
         yes[2] # "none" => yes[1] \in Over, no[2] # "none" => no[1] \in Over
  PROVE  Quiet(r) /\ Answered(r)'
<1>1. TypeOK /\ pend[r] = Absent
  BY DEF KInv, NoPending, TInv
<1>2. media' = media /\ written' = written
  BY <1>1, PatchCases
<1>3. \/ pc'[r] = yes[1] /\ result'[r] = yes[2]
      \/ pc'[r] = no[1] /\ result'[r] = no[2]
  BY PatchOwn
<1>. QED  BY <1>2, <1>3 DEF Quiet, Answered

\* The steps that a client of the contract can tell from others.
Seen(r) ==
  \/ MarkUploaded(r) \/ Persist(r) \/ WriterWrite(r) \/ WriterCommit(r)
  \/ r \in Aborters /\ RemoveRecord(r)

LEMMA OwnQuiet ==
  ASSUME ~WatchLost, KInv, NEW r \in Requests, RequestStep(r), Answered(r), ~Seen(r)
  PROVE  Quiet(r) /\ Answered(r)'
<1>1. TypeOK /\ PlacedAt(r, pc[r])
  BY DEF KInv, TInv, Placed
<1>. USE DEF Then, Answer
<1>2. CASE WriterBegin(r) \/ MarkReady(r) \/ MarkUploading(r)
  BY <1>2, PatchQuiet DEF WriterBegin, MarkReady, MarkUploading, Answered, Over
<1>3. CASE SniffPatch(r)
  BY <1>3, PatchQuiet DEF SniffPatch, AfterSniff, Answered, Over
<1>4. CASE MarkError(r) \/ FlagError(r)
  BY <1>4, PatchQuiet DEF MarkError, FlagError, Answered, Over
<1>5. CASE LockStep(r)
  BY <1>1, <1>5 DEF LockStep, Acquire, LockTimeout, ReleaseGet, ReleaseDel, Just, Goto, TypeOK,
     files, Quiet, Answered, Over
<1>6. CASE LoadInactive(r) \/ AbortLoad(r)
  BY <1>1, <1>6 DEF LoadInactive, AbortLoad, Just, Goto, TypeOK, files, Quiet, Answered, Over
<1>7. CASE Sniff(r)
  <2>1. /\ pc[r] = "sniff" /\ pc'[r] \in {"rm", "mime", AfterSniff(r)} /\ result'[r] = "none"
        /\ media' = media /\ written' = written
    BY <1>1, <1>7 DEF Sniff, Goto, TypeOK, files
  <2>. QED  BY <2>1 DEF AfterSniff, Quiet, Answered, Over
<1>8. CASE RemoveTemp(r)
  BY <1>1, <1>8 DEF RemoveTemp, Goto, TypeOK, Quiet, Answered, Over
<1>9. CASE RemoveRecord(r)
  <2>1. r \notin Aborters
    BY <1>9 DEF Seen
  <2>2. /\ pc[r] = "del" /\ pc'[r] = AfterSniff(r) /\ result'[r] = "none"
        /\ media' = media /\ written' = written
    BY <1>1, <1>9, <2>1 DEF RemoveRecord, Goto, TypeOK, files
  <2>. QED  BY <2>2 DEF AfterSniff, Quiet, Answered, Over
<1>10. CASE WriterLoad(r) \/ WriterCheck(r)
  BY <1>1, <1>10 DEF WriterLoad, WriterCheck, Just, Goto, TypeOK, files, Quiet, Answered, Over
<1>11. CASE FinisherLoad(r) \/ Prepare(r)
  BY <1>1, <1>11 DEF FinisherLoad, Prepare, Just, Goto, TypeOK, files, Quiet, Answered, Over
<1>12. CASE PutDone(r) \/ PutFailed(r) \/ Discard(r) \/ Rollback(r)
  BY <1>1, <1>12 DEF PutDone, PutFailed, Discard, Rollback, Goto, TypeOK, Quiet, Answered, Over
<1>13. CASE ErrorClean(r) \/ Drop(r)
  BY <1>1, <1>13 DEF ErrorClean, Drop, TypeOK, files, Quiet, Answered, Over
<1>. QED
  BY <1>2, <1>3, <1>4, <1>5, <1>6, <1>7, <1>8, <1>9, <1>10, <1>11, <1>12, <1>13
     DEF RequestStep, SniffStep, WriteStep, FinishStep, Seen

\* The others: what they tell the client, and where the request then is.
LEMMA OwnSeen ==
  ASSUME ~WatchLost, KInv, NEW r \in Requests, Answered(r), Seen(r)
  PROVE  Answered(r)'
<1>1. TypeOK /\ pend[r] = Absent
  BY DEF KInv, NoPending, TInv
<1>. USE DEF Then, Answer
<1>2. CASE MarkUploaded(r)
  BY <1>1, <1>2, PatchCases DEF MarkUploaded, Goto, TypeOK, Answered, Over
<1>3. CASE WriterCommit(r)
  BY <1>1, <1>3, PatchCases DEF WriterCommit, Goto, TypeOK, Answered, Over
<1>4. CASE Persist(r) \/ WriterWrite(r)
  BY <1>1, <1>4 DEF Persist, WriterWrite, Goto, TypeOK, Answered, Over
<1>5. CASE r \in Aborters /\ RemoveRecord(r)
  BY <1>1, <1>5 DEF RemoveRecord, Goto, TypeOK, Answered, Over
<1>. QED  BY <1>2, <1>3, <1>4, <1>5 DEF Seen

CInv == OInv /\ FInv /\ \A r \in Requests : Answered(r)

LEMMA CInit == Init => CInv
BY OInit, FInit DEF Init, CInv, Answered

LEMMA CNext == ~WatchLost /\ CInv /\ [Next]_vars => CInv'
<1>. SUFFICES ASSUME ~WatchLost, CInv, [Next]_vars
              PROVE  \A d \in Requests : Answered(d)'
  BY ONext, FNext DEF CInv
<1>1. KInv /\ TypeOK
  BY DEF CInv, OInv, VInv, KInv, TInv
<1>. TAKE d \in Requests
<1>2. Answered(d)
  BY DEF CInv
<1>3. CASE RequestStep(d)
  BY <1>1, <1>2, <1>3, OwnQuiet, OwnSeen
<1>4. CASE Crash(d)
  BY <1>1, <1>2, <1>4 DEF Crash, TypeOK, Answered, Over
<1>5. CASE pc'[d] = pc[d] /\ result'[d] = result[d]
  BY <1>2, <1>5 DEF Answered
<1>6. CASE d = Opener /\ (InitTemp \/ InitRecord)
  BY <1>1, <1>2, <1>6 DEF InitTemp, InitRecord, Goto, Then, TypeOK, Answered, Over
<1>7. CASE ~\E r \in Requests : RequestStep(r) \/ Crash(r)
  <2>1. CASE d # Opener
    BY <1>1, <1>5, <1>7, <2>1, EnvStays
  <2>2. CASE d = Opener /\ ~(InitTemp \/ InitRecord)
    <3>1. pc' = pc /\ result' = result
      BY <1>7, <2>2 DEF Next, GoneTemp, GoneRecord, Expire, Evict, LockExpire, Sweep, vars
    <3>. QED  BY <1>5, <3>1
  <2>. QED  BY <1>6, <2>1, <2>2
<1>. QED  BY <1>1, <1>3, <1>4, <1>5, <1>7, OthersStay

\* Only the last patch of a finish makes a record `uploaded`.
LEMMA OneWayToUploaded ==
  ASSUME ~WatchLost, VInv, NEW r \in Requests, RequestStep(r), ~MarkUploaded(r),
         rec # Absent, rec' # Absent, rec'.state = "uploaded"
  PROVE  rec.state = "uploaded"
<1>1. TypeOK /\ KInv /\ PlacedAt(r, pc[r]) /\ Coherent(r)
  BY DEF VInv, KInv, TInv, Placed
<1>2. ASSUME NEW p \in Patches, NEW yes, NEW no, PatchAndSync(r, p, yes, no), p.state # "uploaded"
      PROVE  rec.state = "uploaded"
  BY <1>1, <1>2, PatchLife
<1>3. CASE \/ WriterBegin(r) \/ MarkReady(r) \/ MarkUploading(r) \/ MarkError(r) \/ FlagError(r)
  <2>1. \A x \in {"receiving", "ready-to-upload", "uploading", "error"} :
          SetState(x) \in Patches /\ SetState(x).state = x
    BY PatchesMade DEF UploadState, SetState
  <2>2. \A x \in {"receiving", "ready-to-upload", "uploading", "error"} :
          SetState(x) \in Patches /\ SetState(x).state # "uploaded"
    BY <2>1
  <2>. QED  BY <1>2, <1>3, <2>2 DEF WriterBegin, MarkReady, MarkUploading, MarkError, FlagError
<1>4. CASE SniffPatch(r)
  <2>1. SetMime \in Patches /\ SetMime.state # "uploaded"
    BY PatchesMade DEF SetMime
  <2>. QED  BY <1>2, <1>4, <2>1 DEF SniffPatch
<1>5. CASE WriterCommit(r)
  <2>. DEFINE p == SetReceived(snap[r].received \cup {ChunkOf[r]})
  <2>1. p \in Patches /\ p.state # "uploaded"
    BY <1>1, <1>5 DEF WriterCommit, SetReceived, Patches, TypeOK, PlacedAt, WriterLabels, Record
  <2>2. PatchAndSync(r, p, Answer("ok"), Answer("409"))
    BY <1>5 DEF WriterCommit
  <2>. QED  BY <1>2, <2>1, <2>2
<1>6. CASE RemoveRecord(r) \/ Drop(r)
  BY <1>6 DEF RemoveRecord, Drop
<1>7. CASE \/ LockStep(r) \/ LoadInactive(r) \/ AbortLoad(r) \/ Sniff(r) \/ RemoveTemp(r)
           \/ WriterLoad(r) \/ WriterCheck(r) \/ WriterWrite(r) \/ FinisherLoad(r)
           \/ Prepare(r) \/ PutDone(r) \/ PutFailed(r) \/ ErrorClean(r) \/ Discard(r)
           \/ Persist(r) \/ Rollback(r)
  <2>1. rec' = rec
    BY <1>7 DEF LockStep, Acquire, LockTimeout, ReleaseGet, ReleaseDel, LoadInactive, AbortLoad,
       Sniff, RemoveTemp, WriterLoad, WriterCheck, WriterWrite, FinisherLoad, Prepare, PutDone,
       PutFailed, ErrorClean, Discard, Persist, Rollback, Just, store
  <2>. QED  BY <2>1
<1>. QED  BY <1>3, <1>4, <1>5, <1>6, <1>7 DEF RequestStep, SniffStep, WriteStep, FinishStep

\* Any other step leaves the phase of the session, or ends it.
LEMMA PhaseStep ==
  ASSUME ~WatchLost, VInv, NEW r \in Requests, RequestStep(r), ~MarkUploaded(r)
  PROVE  Phase' = Phase \/ Phase' = "over"
<1>1. TypeOK /\ KInv /\ Coherent(r) /\ Knows(r)
  BY DEF VInv, KInv, TInv
<1>2. pc[Opener] = "done" /\ pc'[Opener] = "done"
  BY <1>1, RunsAfterInit, OthersStay DEF Requests
<1>3. Kept(r) \/ Gone(r) \/ Moved(r)
  BY <1>1, LifeStep
<1>4. rec # Absent /\ rec' # Absent /\ rec'.state = "uploaded" => rec.state = "uploaded"
  BY OneWayToUploaded
<1>5. CASE Kept(r)
  BY <1>2, <1>5 DEF Kept, Phase
<1>6. CASE Gone(r)
  BY <1>2, <1>6 DEF Gone, Phase
<1>7. CASE Moved(r)
  <2>1. CASE rec'.state = rec.state
    BY <1>7, <2>1 DEF Moved, Phase
  <2>2. CASE LifecycleStep(rec.state, rec'.state)
    BY <1>4, <1>7, <2>2 DEF Moved, Phase, LifecycleStep
  <2>. QED  BY <1>7, <2>1, <2>2 DEF Moved
<1>. QED  BY <1>3, <1>5, <1>6, <1>7

Winning == {f \in Finishers : pc[f] = "persist"}

\* The sorts of requests a client can tell apart.
LEMMA Sorts ==
  /\ Writers \in SUBSET Requests /\ Finishers \in SUBSET Requests /\ Aborters \in SUBSET Requests
  /\ Writers \cap Finishers = {} /\ Writers \cap Aborters = {} /\ Finishers \cap Aborters = {}
  /\ Opener \notin Writers \cup Finishers \cup Aborters
BY Constants DEF Requests, Lockers

\* What one request's step changes of what the clients were told, and of who won.
LEMMA ToldStays ==
  ASSUME TypeOK, NEW r \in Requests, RequestStep(r) \/ Crash(r), NEW S \in SUBSET Requests,
         r \in S => (result'[r] = "ok" <=> result[r] = "ok")
  PROVE  Told(S)' = Told(S)
BY OthersStay DEF Told

LEMMA ToldGrows ==
  ASSUME TypeOK, NEW r \in Requests, RequestStep(r), NEW S \in SUBSET Requests, r \in S,
         result'[r] = "ok"
  PROVE  Told(S)' = Told(S) \cup {r}
BY OthersStay DEF Told

LEMMA WinningStays ==
  ASSUME TypeOK, NEW r \in Requests, RequestStep(r) \/ Crash(r), pc'[r] = "persist" <=> pc[r] = "persist"
  PROVE  Winning' = Winning
BY OthersStay, Sorts DEF Winning

LEMMA Stutters ==
  ASSUME Phase' \in {Phase, "over"}, written' = written, media' = media,
         Told(Writers)' = Told(Writers), Told(Finishers)' = Told(Finishers),
         Told(Aborters)' = Told(Aborters), Winning' = Winning
  PROVE  [Contract!Next]_(Contract!vars)
<1>1. CASE Phase' = Phase
  BY <1>1 DEF Contract!vars, Winning
<1>2. CASE Phase' = "over"
  BY <1>2 DEF Contract!Next, Contract!Close, Winning
<1>. QED  BY <1>1, <1>2

\* The steps of one request, first those a client cannot tell from no step.
LEMMA QuietRefines ==
  ASSUME ~WatchLost, CInv, NEW r \in Requests, RequestStep(r), ~Seen(r)
  PROVE  [Contract!Next]_(Contract!vars)
<1>1. TypeOK /\ KInv /\ VInv /\ Answered(r)
  BY DEF CInv, OInv, VInv, KInv, TInv
<1>2. Quiet(r)
  BY <1>1, OwnQuiet
<1>3. Phase' \in {Phase, "over"}
  BY <1>1, PhaseStep DEF Seen
<1>4. /\ Told(Writers)' = Told(Writers) /\ Told(Finishers)' = Told(Finishers)
      /\ Told(Aborters)' = Told(Aborters) /\ Winning' = Winning
  BY <1>1, <1>2, Sorts, ToldStays, WinningStays DEF Quiet
<1>. QED  BY <1>2, <1>3, <1>4, Stutters DEF Quiet

\* A write of a chunk.
LEMMA WriteRefines ==
  ASSUME ~WatchLost, CInv, NEW r \in Requests, WriterWrite(r)
  PROVE  [Contract!Next]_(Contract!vars)
<1>1. /\ TypeOK /\ KInv /\ pc[r] = "write" /\ result[r] = "none" /\ RequestStep(r)
      /\ r \in Writers /\ ChunkOf[r] \in Chunks
  BY DEF CInv, OInv, VInv, KInv, TInv, WriterWrite, Answered, Over, Placed, PlacedAt, WriterLabels,
     RequestStep, WriteStep
<1>2. pc[Opener] = "done" /\ pc'[Opener] = "done" /\ rec' = rec /\ media' = media
  BY <1>1, RunsAfterInit, OthersStay DEF Requests, WriterWrite, store
<1>3. Phase' = Phase /\ Phase # "new"
  BY <1>2 DEF Phase
<1>4. pc'[r] \in {"commit", "relGet"} /\ result'[r] \in {"none", "500"}
  BY <1>1 DEF WriterWrite, Goto, Then, Answer, TypeOK
<1>5. /\ Told(Writers)' = Told(Writers) /\ Told(Finishers)' = Told(Finishers)
      /\ Told(Aborters)' = Told(Aborters) /\ Winning' = Winning
  BY <1>1, <1>4, Sorts, ToldStays, WinningStays
<1>6. CASE written' = written
  BY <1>2, <1>3, <1>5, <1>6, Stutters
<1>7. CASE written' = written \cup {ChunkOf[r]}
  <2>1. Contract!Store(ChunkOf[r])
    BY <1>2, <1>3, <1>5, <1>7 DEF Contract!Store, Winning
  <2>. QED  BY <1>1, <2>1 DEF Contract!Next
<1>. QED  BY <1>6, <1>7 DEF WriterWrite

\* The answer that a chunk was received.
LEMMA CommitRefines ==
  ASSUME ~WatchLost, CInv, NEW r \in Requests, WriterCommit(r)
  PROVE  [Contract!Next]_(Contract!vars)
<1>1. /\ TypeOK /\ KInv /\ pc[r] = "commit" /\ result[r] = "none" /\ RequestStep(r)
      /\ r \in Writers /\ ChunkOf[r] \in Chunks
  BY DEF CInv, OInv, VInv, KInv, TInv, WriterCommit, Answered, Over, Placed, PlacedAt, WriterLabels,
     RequestStep, WriteStep
<1>2. Coherent(r) /\ Knows(r) /\ ChunkOf[r] \in written /\ pend[r] = Absent
  BY <1>1 DEF CInv, OInv, VInv, FInv, DInv, Backed, KInv, NoPending
<1>. DEFINE p == SetReceived(snap[r].received \cup {ChunkOf[r]})
<1>3. p \in Patches /\ p.state = "keep"
  BY <1>1 DEF SetReceived, Patches, TypeOK, Record
<1>4. PatchAndSync(r, p, <<"relGet", "ok">>, <<"relGet", "409">>)
  BY DEF WriterCommit, Answer
<1>. HIDE DEF p
<1>5. /\ media' = media /\ written' = written
      /\ \/ Goto(r, <<"relGet", "ok">>) /\ rec # Absent /\ rec.version = snap[r].version
         \/ Goto(r, <<"relGet", "409">>)
  BY <1>2, <1>4, PatchCases
<1>6. pc[Opener] = "done" /\ pc'[Opener] = "done"
  BY <1>1, RunsAfterInit, OthersStay DEF Requests
<1>7. pc'[r] = "relGet" /\ result'[r] \in {"ok", "409"}
  BY <1>1, <1>5 DEF Goto, TypeOK
<1>8. /\ Told(Finishers)' = Told(Finishers) /\ Told(Aborters)' = Told(Aborters)
      /\ Winning' = Winning
  BY <1>1, <1>7, Sorts, ToldStays, WinningStays
<1>9. CASE result'[r] = "409"
  <2>1. Told(Writers)' = Told(Writers)
    BY <1>1, <1>9, Sorts, ToldStays
  <2>2. Phase' \in {Phase, "over"}
    BY <1>1, PhaseStep DEF CInv, OInv, WriterCommit, MarkUploaded
  <2>. QED  BY <1>5, <1>8, <2>1, <2>2, Stutters
<1>10. CASE result'[r] = "ok"
  <2>1. rec # Absent /\ rec.version = snap[r].version
    BY <1>1, <1>5, <1>10 DEF Goto, TypeOK
  <2>2. rec.state = "receiving"
    BY <1>1, <1>2, <2>1 DEF Coherent, Knows, KnowsAs
  <2>3. \/ rec' # Absent /\ rec'.state = rec.state
        \/ rec' = rec
    BY <1>1, <1>2, <1>3, <1>4, PatchLife
  <2>4. Phase = "open" /\ Phase' = "open"
    BY <1>6, <2>1, <2>2, <2>3 DEF Phase
  <2>5. Told(Writers)' = Told(Writers) \cup {r}
    BY <1>1, <1>10, Sorts, ToldGrows
  <2>6. {ChunkOf[w] : w \in Told(Writers)}' = {ChunkOf[w] : w \in Told(Writers)} \cup {ChunkOf[r]}
    BY <2>5
  <2>7. Contract!Accept(ChunkOf[r])
    BY <1>2, <1>5, <1>8, <2>4, <2>6 DEF Contract!Accept, Winning
  <2>. QED  BY <1>1, <2>7 DEF Contract!Next
<1>. QED  BY <1>7, <1>9, <1>10

\* The last patch of a finish: it wins a session that is still open, and every
\* chunk is stored by then.
LEMMA WinRefines ==
  ASSUME ~WatchLost, CInv, NEW r \in Requests, MarkUploaded(r)
  PROVE  [Contract!Next]_(Contract!vars)
<1>1. /\ TypeOK /\ KInv /\ pc[r] = "uploaded" /\ result[r] = "none" /\ RequestStep(r)
      /\ r \in Finishers
  BY DEF CInv, OInv, VInv, KInv, TInv, MarkUploaded, Answered, Over, Placed, PlacedAt, FinisherLabels,
     RequestStep, FinishStep
<1>2. /\ Coherent(r) /\ Knows(r) /\ pend[r] = Absent
      /\ snap[r].received = Chunks /\ snap[r].received \subseteq written
  BY <1>1 DEF CInv, OInv, VInv, FInv, DInv, Backed, KInv, NoPending, Stored, StoredAs, Checked
<1>3. SetState("uploaded") \in Patches /\ SetState("uploaded").state = "uploaded"
  BY PatchesMade DEF SetState, UploadState
<1>4. written = Chunks /\ written' = written /\ media' = media
  BY <1>1, <1>2, PatchCases DEF MarkUploaded, TypeOK
<1>5. \/ /\ rec # Absent /\ rec.state = "uploading" /\ rec' # Absent /\ rec'.state = "uploaded"
         /\ pc'[r] = "persist"
      \/ rec' = rec /\ pc'[r] = "relGet"
  BY <1>1, <1>2, <1>3, PatchLife DEF MarkUploaded, Then, Answer, Knows, KnowsAs
<1>6. result'[r] # "ok"
  BY <1>1, PatchOwn DEF MarkUploaded, Then, Answer
<1>7. /\ Told(Writers)' = Told(Writers) /\ Told(Finishers)' = Told(Finishers)
      /\ Told(Aborters)' = Told(Aborters)
  BY <1>1, <1>6, Sorts, ToldStays
<1>8. pc[Opener] = "done" /\ pc'[Opener] = "done"
  BY <1>1, RunsAfterInit, OthersStay DEF Requests
<1>9. CASE rec' = rec /\ pc'[r] = "relGet"
  <2>1. Phase' = Phase
    BY <1>8, <1>9 DEF Phase
  <2>2. Winning' = Winning
    BY <1>1, <1>9, WinningStays
  <2>. QED  BY <1>4, <1>7, <2>1, <2>2, Stutters
<1>10. CASE /\ rec # Absent /\ rec.state = "uploading" /\ rec' # Absent /\ rec'.state = "uploaded"
            /\ pc'[r] = "persist"
  <2>1. Phase = "open" /\ Phase' = "uploaded"
    BY <1>10 DEF Phase
  <2>2. \A f \in Finishers : pc[f] # "persist"
    BY <1>10 DEF CInv, OInv, OnePast, Past
  <2>3. \A f \in Finishers : pc'[f] = "persist" <=> f = r
    BY <1>1, <1>10, <2>2, Sorts, OthersStay
  <2>4. Winning' = {r}
    BY <1>1, <2>3 DEF Winning
  <2>5. Contract!Win(r)
    BY <1>4, <1>7, <2>1, <2>4 DEF Contract!Win, Winning
  <2>. QED  BY <1>1, <2>5 DEF Contract!Next
<1>. QED  BY <1>5, <1>9, <1>10

\* The row: of the winner, who is the only one past its last patch.
LEMMA PersistRefines ==
  ASSUME ~WatchLost, CInv, NEW r \in Requests, Persist(r)
  PROVE  [Contract!Next]_(Contract!vars)
<1>1. /\ TypeOK /\ KInv /\ pc[r] = "persist" /\ result[r] = "none" /\ RequestStep(r)
      /\ r \in Finishers
  BY DEF CInv, OInv, VInv, KInv, TInv, Persist, Answered, Over, Placed, PlacedAt, FinisherLabels,
     RequestStep, FinishStep
<1>2. \A f \in Finishers : Past(f) => f = r
  BY <1>1 DEF CInv, OInv, OnePast, Past
<1>3. Winning = {r} /\ media \subseteq {r}
  BY <1>1, <1>2 DEF Past, Winning, TypeOK
<1>4. Told(Finishers) = {}
  <2>1. \A f \in Finishers : result[f] = "ok" => f \in media
    BY DEF CInv, FInv, Stored, StoredAs
  <2>. QED  BY <1>1, <1>2, <2>1 DEF Told, Past
<1>5. pc'[r] \in {"drop", "rollback"} /\ rec' = rec /\ written' = written
  BY <1>1 DEF Persist, Goto, Then, TypeOK, store
<1>6. pc[Opener] = "done" /\ pc'[Opener] = "done"
  BY <1>1, RunsAfterInit, OthersStay DEF Requests
<1>7. Phase' = Phase
  BY <1>5, <1>6 DEF Phase
<1>8. Winning' = {}
  <2>1. \A f \in Finishers : pc'[f] # "persist"
    BY <1>1, <1>2, <1>5, Sorts, OthersStay DEF Past
  <2>. QED  BY <2>1 DEF Winning
<1>9. Told(Writers)' = Told(Writers) /\ Told(Aborters)' = Told(Aborters)
  BY <1>1, Sorts, ToldStays
<1>10. CASE media' = media \cup {r}
  <2>1. media' = {r}
    BY <1>3, <1>10
  <2>2. Told(Finishers)' \in {Told(Finishers), {r}}
    BY <1>1, <1>4, Sorts, ToldStays, ToldGrows
  <2>3. Contract!Publish(r)
    BY <1>3, <1>5, <1>7, <1>8, <1>9, <2>1, <2>2 DEF Contract!Publish, Winning
  <2>. QED  BY <1>1, <2>3 DEF Contract!Next
<1>11. CASE media' = media /\ result'[r] = "none"
  <2>1. Told(Finishers)' = Told(Finishers)
    BY <1>1, <1>11, Sorts, ToldStays
  <2>2. Contract!GiveUp
    BY <1>5, <1>7, <1>8, <1>9, <1>11, <2>1 DEF Contract!GiveUp, Winning
  <2>. QED  BY <2>2 DEF Contract!Next
<1>12. \/ media' = media \cup {r}
       \/ media' = media /\ result'[r] = "none"
  BY <1>1 DEF Persist, Goto, Then, TypeOK
<1>. QED  BY <1>10, <1>11, <1>12

\* The removal of the record by an abort.
LEMMA AbortRefines ==
  ASSUME ~WatchLost, CInv, NEW r \in Aborters, r \in Requests, RemoveRecord(r)
  PROVE  [Contract!Next]_(Contract!vars)
<1>1. TypeOK /\ KInv /\ RequestStep(r) /\ pc[r] = "del"
  BY DEF CInv, OInv, VInv, KInv, TInv, RequestStep, SniffStep, RemoveRecord
<1>2. /\ rec' = Absent /\ media' = media /\ written' = written
      /\ pc'[r] = "done" /\ result'[r] = "ok"
  BY <1>1 DEF RemoveRecord, Goto, TypeOK, files
<1>3. pc[Opener] = "done" /\ pc'[Opener] = "done"
  BY <1>1, RunsAfterInit, OthersStay DEF Requests
<1>4. Phase # "new" /\ Phase' = "over"
  BY <1>2, <1>3 DEF Phase
<1>5. /\ Told(Writers)' = Told(Writers) /\ Told(Finishers)' = Told(Finishers)
      /\ Winning' = Winning
  BY <1>1, <1>2, Sorts, ToldStays, WinningStays
<1>6. Told(Aborters)' = Told(Aborters) \cup {r}
  BY <1>1, <1>2, Sorts, ToldGrows
<1>7. (Told(Aborters) # {})' = TRUE
  BY <1>6
<1>8. Contract!Abort
  BY <1>2, <1>4, <1>5, <1>7 DEF Contract!Abort, Winning
<1>. QED  BY <1>8 DEF Contract!Next

LEMMA RequestRefines ==
  ASSUME ~WatchLost, CInv, NEW r \in Requests, RequestStep(r)
  PROVE  [Contract!Next]_(Contract!vars)
BY QuietRefines, WriteRefines, CommitRefines, WinRefines, PersistRefines, AbortRefines DEF Seen

\* A crash of the winner leaves the session without a row.
LEMMA CrashRefines ==
  ASSUME CInv, NEW r \in Requests, Crash(r)
  PROVE  [Contract!Next]_(Contract!vars)
<1>1. TypeOK
  BY DEF CInv, OInv, VInv, KInv, TInv
<1>2. /\ rec' = rec /\ media' = media /\ written' = written /\ result' = result
      /\ pc' = [pc EXCEPT ![r] = "crashed"] /\ pc[r] # "done"
  BY DEF Crash, store, files
<1>3. pc'[Opener] = "done" <=> pc[Opener] = "done"
  BY <1>1, <1>2 DEF TypeOK, Requests
<1>4. Phase' = Phase
  BY <1>2, <1>3 DEF Phase
<1>5. /\ Told(Writers)' = Told(Writers) /\ Told(Finishers)' = Told(Finishers)
      /\ Told(Aborters)' = Told(Aborters)
  BY <1>2 DEF Told
<1>6. CASE r \in Finishers /\ pc[r] = "persist"
  <2>1. \A f \in Finishers : pc[f] = "persist" => f = r
    BY <1>6 DEF CInv, OInv, OnePast, Past
  <2>2. \A f \in Finishers : pc'[f] # "persist"
    BY <1>1, <1>2, <2>1, Sorts DEF TypeOK
  <2>3. Winning' = {}
    BY <2>2 DEF Winning
  <2>4. Contract!GiveUp
    BY <1>2, <1>4, <1>5, <2>3 DEF Contract!GiveUp, Winning
  <2>. QED  BY <2>4 DEF Contract!Next
<1>7. CASE ~(r \in Finishers /\ pc[r] = "persist")
  <2>1. \A f \in Finishers : pc'[f] = "persist" <=> pc[f] = "persist"
    BY <1>1, <1>2, <1>7, Sorts DEF TypeOK
  <2>2. Winning' = Winning
    BY <2>1 DEF Winning
  <2>. QED  BY <1>2, <1>4, <1>5, <2>2, Stutters
<1>. QED  BY <1>6, <1>7

\* init opens the session or fails for good; what ends a session besides its
\* requests is its expiry.
LEMMA RestRefines ==
  ASSUME CInv, [Next]_vars, ~\E r \in Requests : RequestStep(r) \/ Crash(r)
  PROVE  [Contract!Next]_(Contract!vars)
<1>1. TypeOK /\ Fresh
  BY DEF CInv, OInv, VInv, KInv, TInv
<1>2. \A d \in Requests : d # Opener => pc'[d] = pc[d] /\ result'[d] = result[d]
  BY <1>1, EnvStays
<1>3. /\ Told(Writers)' = Told(Writers) /\ Told(Finishers)' = Told(Finishers)
      /\ Told(Aborters)' = Told(Aborters) /\ Winning' = Winning
  BY <1>2, Sorts DEF Told, Winning
<1>4. media' = media /\ written' = written
  BY DEF Next, InitTemp, InitRecord, GoneTemp, GoneRecord, Expire, Evict, LockExpire, Sweep,
     vars, files
<1>5. CASE InitRecord
  <2>1. [state |-> "init", received |-> {}, version |-> 1] \in Record
    BY DEF Record, UploadState
  <2>2. rec = Absent /\ pc[Opener] # "done" /\ rec' # Absent /\ rec'.state = "init"
    BY <1>1, <1>5, <2>1, Constants DEF InitRecord, Fresh
  <2>3. Phase = "new" /\ Phase' = "open"
    BY <2>2 DEF Phase
  <2>4. Contract!Open
    BY <1>3, <1>4, <2>3 DEF Contract!Open, Winning
  <2>. QED  BY <2>4 DEF Contract!Next
<1>6. CASE InitTemp
  <2>1. rec = Absent /\ rec' = Absent /\ pc[Opener] # "done"
    BY <1>1, <1>6 DEF InitTemp, Fresh, store
  <2>2. Phase' \in {Phase, "over"}
    BY <2>1 DEF Phase
  <2>. QED  BY <1>3, <1>4, <2>2, Stutters
<1>7. CASE \/ GoneTemp \/ GoneRecord \/ Expire \/ Evict \/ LockExpire \/ Sweep \/ UNCHANGED vars
  <2>1. pc' = pc /\ rec' \in {rec, Absent}
    BY <1>7 DEF GoneTemp, GoneRecord, Expire, Evict, LockExpire, Sweep, vars, store
  <2>2. rec # Absent => pc[Opener] = "done"
    BY <1>1 DEF Fresh
  <2>3. Phase' \in {Phase, "over"}
    BY <2>1, <2>2 DEF Phase
  <2>. QED  BY <1>3, <1>4, <2>3, Stutters
<1>. QED  BY <1>5, <1>6, <1>7 DEF Next

LEMMA StartRefines == Init => Contract!Init
<1>. SUFFICES ASSUME Init PROVE Contract!Init
  OBVIOUS
<1>1. pc[Opener] # "done" /\ \A r \in Requests : pc[r] = "start" /\ result[r] = "none"
  BY DEF Init, Requests
<1>2. Phase = "new"
  BY <1>1 DEF Init, Phase
<1>3. Told(Writers) = {} /\ Told(Finishers) = {} /\ Told(Aborters) = {} /\ Winning = {}
  BY <1>1, Sorts DEF Told, Winning
<1>4. written = {} /\ media = {}
  BY DEF Init
<1>5. (Told(Aborters) # {}) = FALSE
  BY <1>3
<1>6. {ChunkOf[w] : w \in Told(Writers)} = {}
  BY <1>3
<1>. QED  BY <1>2, <1>3, <1>4, <1>5, <1>6 DEF Contract!Init, Winning

\* Whatever requests overlap, fail, crash or outlive the lock, clients see a
\* session that is opened once, accepts only stored chunks and only while it is
\* open, is won by one finish that has every chunk, and is over for good.
THEOREM ContractKept == ASSUME ~WatchLost PROVE Spec => KeepsContract
<1>1. CInv /\ [Next]_vars => [Contract!Next]_(Contract!vars)
  BY RequestRefines, CrashRefines, RestRefines
<1>. QED  BY CInit, CNext, StartRefines, <1>1, PTL DEF Spec, KeepsContract, Contract!Spec

LEMMA PromiseFirst == Contract!Init => Contract!Promise
BY DEF Contract!Init, Contract!Promise

LEMMA PromiseStays ==
  Contract!Promise /\ [Contract!Next]_(Contract!vars) => Contract!Promise'
BY DEF Contract!Promise, Contract!Next, Contract!vars, Contract!Open, Contract!Store,
   Contract!Accept, Contract!Win, Contract!Publish, Contract!GiveUp, Contract!Close, Contract!Abort

\* So whoever was told that a chunk is accepted or a file published can rely on
\* it, and nobody publishes a file that lacks a chunk, or after an abort is over.
THEOREM PromiseKept == ASSUME ~WatchLost PROVE Spec => []Contract!Promise
BY ContractKept, PromiseFirst, PromiseStays, PTL DEF KeepsContract, Contract!Spec

---------------------------------------------------------------------------
(***************************************************************************)
(* The lock instead of the WATCH.  When the WATCH may be lost, as on the   *)
(* connection that all sessions share, but work under the lock ends within *)
(* its TTL (~SlowWork), the one request inside the lock has a snapshot and *)
(* a pending patch that mirror the record, unless somebody without the     *)
(* lock removes it: an abort, the expiry, Redis.  A patch may bring such a *)
(* record back (NoResurrection is false here), but as it was.              *)
(***************************************************************************)
Held == WriterLabels \cup FinisherLabels \cup {"sniff", "mime", "rm", "del"}
Inside == Held \cup {"load", "relGet", "relDel"}
Patching == {"begin", "commit", "mime", "ready", "mark", "error", "uploaded", "flag"}

LEMMA PatchingIsHeld == Patching \subseteq Held
BY DEF Patching, Held, WriterLabels, FinisherLabels

Guards(r) == pc[r] \in Inside => lock = r \/ (r \in Aborters /\ pc[r] \in {"rm", "del"})

Mirrors(r) ==
  /\ r \in Lockers /\ pc[r] \in Held
       => rec \in {Absent, snap[r]} /\ pend[r] \in {Absent, snap[r]}
  /\ pend[r] # Absent => r \in Lockers /\ pc[r] \in Patching

NothingYet == pc[Opener] # "done" => rec = Absent /\ media = {} /\ \A w \in Writers : result[w] # "ok"

LInv ==
  /\ TInv /\ OpenerFirst /\ NothingYet
  /\ \A r \in Requests : Guards(r) /\ Mirrors(r) /\ Knows(r)

LEMMA LInit == Init => LInv
BY TInit DEF Init, LInv, OpenerFirst, NothingYet, Lockers, Guards, Mirrors, Knows, KnowsAs, Held, Inside, WriterLabels,
   FinisherLabels, Requests

\* Whoever is inside is alone there.
LEMMA Alone ==
  ASSUME LInv, NEW r \in Lockers, pc[r] \in Inside, NEW d \in Lockers, d # r
  PROVE  pc[d] \notin Inside
<1>1. r \in Requests /\ d \in Requests /\ r \notin Aborters /\ d \notin Aborters
  BY Constants DEF Requests
<1>. QED  BY <1>1 DEF LInv, Guards

\* A patch of the request inside: it starts from its snapshot.
LEMMA LockedPatch ==
  ASSUME LInv, NEW r \in Lockers, pc[r] \in Patching, NEW p \in Patches, NEW yes, NEW no,
         PatchAndSync(r, p, yes, no)
  PROVE  /\ lock' = lock
         /\ \/ /\ snap[r] \in {rec, pend[r]} /\ rec' = Merge(snap[r], p) /\ snap'[r] = rec'
               /\ pend'[r] = Absent /\ pc'[r] = yes[1] /\ result'[r] = yes[2]
            \/ /\ rec' = rec /\ snap'[r] = snap[r] /\ pend'[r] = Absent
               /\ pc'[r] = no[1] /\ result'[r] = no[2]
            \/ /\ rec' = rec /\ snap'[r] = snap[r] /\ pend'[r] = snap[r]
               /\ rec = snap[r] /\ pc'[r] = pc[r] /\ result'[r] = result[r]
<1>1. r \in Requests /\ TypeOK /\ rec \in {Absent, snap[r]} /\ pend[r] \in {Absent, snap[r]}
  BY PatchingIsHeld DEF LInv, TInv, Mirrors, Requests
<1>2. lock' = lock
  BY DEF PatchAndSync
<1>3. ASSUME NEW b, b = snap[r], b \in {rec, pend[r]}, Commit(r, b, p, yes)
      PROVE  /\ snap[r] \in {rec, pend[r]} /\ rec' = Merge(snap[r], p) /\ snap'[r] = rec'
             /\ pend'[r] = Absent /\ pc'[r] = yes[1] /\ result'[r] = yes[2]
  BY <1>1, <1>3 DEF Commit, Goto, TypeOK
<1>4. ASSUME Conflict(r, no)
      PROVE  /\ rec' = rec /\ snap'[r] = snap[r] /\ pend'[r] = Absent
             /\ pc'[r] = no[1] /\ result'[r] = no[2]
  BY <1>1, <1>4 DEF Conflict, Goto, TypeOK
<1>5. CASE /\ rec # Absent /\ pend' = [pend EXCEPT ![r] = rec]
           /\ UNCHANGED <<rec, snap, pc, result>>
  BY <1>1, <1>2, <1>5 DEF TypeOK
<1>. QED  BY <1>1, <1>2, <1>3, <1>4, <1>5 DEF PatchAndSync, Matches

\* What the request inside may do.
Stays(r) ==
  /\ rec' = rec
  /\ pc'[r] \in Held => pc[r] \in Held /\ snap'[r] = snap[r]
  /\ \/ pend'[r] = Absent
     \/ /\ pend'[r] = snap[r] /\ rec = snap[r] /\ snap'[r] = snap[r]
        /\ pc'[r] = pc[r] /\ pc[r] \in Patching
Loads(r) == pc[r] = "load" /\ rec # Absent /\ rec' = rec /\ snap'[r] = rec /\ pend'[r] = Absent
Erases(r) == pc[r] \in Held /\ rec' = Absent /\ snap'[r] = snap[r] /\ pend'[r] = Absent
Patched(r) ==
  /\ pc[r] \in Patching /\ snap[r] \in {rec, pend[r]} /\ snap[r] # Absent
  /\ \E p \in Patches : /\ rec' = Merge(snap[r], p)
                        /\ p.state = "keep" \/ LifecycleStep(snap[r].state, p.state)
  /\ snap'[r] = rec' /\ pend'[r] = Absent

LEMMA HolderStep ==
  ASSUME LInv, NEW r \in Lockers, RequestStep(r)
  PROVE  (Stays(r) \/ Loads(r) \/ Erases(r) \/ Patched(r)) /\ Knows(r)'
<1>. USE DEF Knows, KnowsAs, Then, Answer
<1>1. /\ TypeOK /\ PlacedAt(r, pc[r]) /\ r \in Requests /\ Knows(r) /\ Mirrors(r)
      /\ r \notin Aborters /\ (r \in Writers <=> r \notin Finishers)
  BY Constants DEF LInv, TInv, Placed, Requests, Lockers
<1>2. ASSUME NEW p \in Patches, NEW yes, NEW no, PatchAndSync(r, p, yes, no), pc[r] \in Patching,
             p.state = "keep" \/ LifecycleStep(snap[r].state, p.state)
      PROVE  \/ Stays(r) /\ pc'[r] \in {pc[r], no[1]} /\ snap'[r] = snap[r]
             \/ /\ Patched(r) /\ pc'[r] = yes[1]
                /\ snap'[r].state = IF p.state = "keep" THEN snap[r].state ELSE p.state
  <2>1. snap[r] # Absent
    BY <1>1, Constants DEF TypeOK
  <2>2. CASE /\ snap[r] \in {rec, pend[r]} /\ rec' = Merge(snap[r], p) /\ snap'[r] = rec'
             /\ pend'[r] = Absent /\ pc'[r] = yes[1]
    <3>1. Patched(r)
      BY <1>2, <2>1, <2>2 DEF Patched
    <3>2. snap'[r].state = IF p.state = "keep" THEN snap[r].state ELSE p.state
      BY <2>2 DEF Merge
    <3>. QED  BY <2>2, <3>1, <3>2
  <2>3. CASE rec' = rec /\ snap'[r] = snap[r] /\ pend'[r] = Absent /\ pc'[r] = no[1]
    BY <1>2, <2>3, PatchingIsHeld DEF Stays
  <2>4. CASE /\ rec' = rec /\ rec = snap[r] /\ snap'[r] = snap[r] /\ pend'[r] = snap[r]
             /\ pc'[r] = pc[r]
    BY <1>2, <2>4, PatchingIsHeld DEF Stays
  <2>. QED  BY <1>2, <2>2, <2>3, <2>4, LockedPatch
<1>made. \A x \in UploadState : SetState(x) \in Patches /\ SetState(x).state = x
  BY PatchesMade DEF SetState
<1>3. CASE WriterBegin(r)
  <2>1. SetState("receiving") \in Patches /\ SetState("receiving").state = "receiving"
    BY <1>made DEF UploadState
  <2>2. pc[r] \in Patching /\ LifecycleStep(snap[r].state, "receiving")
    BY <1>1, <1>3 DEF WriterBegin, Patching, LifecycleStep
  <2>. QED  BY <1>1, <1>2, <1>3, <2>1, <2>2 DEF WriterBegin
<1>4. CASE MarkReady(r)
  <2>1. SetState("ready-to-upload") \in Patches /\ SetState("ready-to-upload").state = "ready-to-upload"
    BY <1>made DEF UploadState
  <2>2. pc[r] \in Patching /\ r \in Finishers
    BY <1>1, <1>4 DEF MarkReady, Patching, PlacedAt, FinisherLabels
  <2>3. LifecycleStep(snap[r].state, "ready-to-upload")
    BY <1>1, <1>4, <2>2 DEF MarkReady, LifecycleStep, Finishable
  <2>. QED  BY <1>1, <1>2, <1>4, <2>1, <2>2, <2>3 DEF MarkReady
<1>5. CASE MarkUploading(r)
  <2>1. SetState("uploading") \in Patches /\ SetState("uploading").state = "uploading"
    BY <1>made DEF UploadState
  <2>2. pc[r] \in Patching /\ LifecycleStep(snap[r].state, "uploading")
    BY <1>1, <1>5 DEF MarkUploading, Patching, LifecycleStep
  <2>. QED  BY <1>1, <1>2, <1>5, <2>1, <2>2 DEF MarkUploading
<1>6. CASE MarkError(r) \/ FlagError(r)
  <2>1. SetState("error") \in Patches /\ SetState("error").state = "error"
    BY <1>made DEF UploadState
  <2>2. pc[r] \in Patching /\ LifecycleStep(snap[r].state, "error")
    BY <1>1, <1>6 DEF MarkError, FlagError, Patching, LifecycleStep
  <2>. QED  BY <1>1, <1>2, <1>6, <2>1, <2>2 DEF MarkError, FlagError
<1>7. CASE MarkUploaded(r)
  <2>1. SetState("uploaded") \in Patches /\ SetState("uploaded").state = "uploaded"
    BY <1>made DEF UploadState
  <2>2. pc[r] \in Patching /\ LifecycleStep(snap[r].state, "uploaded")
    BY <1>1, <1>7 DEF MarkUploaded, Patching, LifecycleStep
  <2>. QED  BY <1>1, <1>2, <1>7, <2>1, <2>2 DEF MarkUploaded
<1>8. CASE SniffPatch(r)
  <2>1. SetMime \in Patches /\ SetMime.state = "keep" /\ pc[r] \in Patching
    BY <1>8, PatchesMade DEF SetMime, SniffPatch, Patching
  <2>. QED  BY <1>1, <1>2, <1>8, <2>1 DEF SniffPatch, AfterSniff
<1>9. CASE WriterCommit(r)
  <2>. DEFINE p == SetReceived(snap[r].received \cup {ChunkOf[r]})
  <2>1. p \in Patches /\ p.state = "keep" /\ pc[r] \in Patching
    BY <1>1, <1>9 DEF WriterCommit, SetReceived, Patches, TypeOK, PlacedAt, WriterLabels, Record, Patching
  <2>2. PatchAndSync(r, p, Answer("ok"), Answer("409"))
    BY <1>9 DEF WriterCommit
  <2>. HIDE DEF p
  <2>3. (Stays(r) \/ Patched(r)) /\ pc'[r] \in {pc[r], "relGet"} /\ (pc'[r] = pc[r] => snap'[r] = snap[r])
    BY <1>2, <1>9, <2>1, <2>2 DEF WriterCommit
  <2>. QED  BY <1>1, <1>9, <2>3 DEF WriterCommit
<1>10. CASE WriterLoad(r) \/ FinisherLoad(r)
  <2>1. Loads(r) /\ pend[r] = Absent
    BY <1>1, <1>10 DEF WriterLoad, FinisherLoad, Active, TypeOK, Mirrors, Patching,
       Loads, store, locals
  <2>. QED  BY <1>1, <1>10, <2>1 DEF WriterLoad, FinisherLoad, Writable, Goto, TypeOK
<1>11. CASE LockStep(r) \/ LoadInactive(r)
  <2>1. rec' = rec /\ pend' = pend /\ pc[r] \notin Patching /\ pc'[r] \in {"load", "relDel", "done", "relGet"}
    BY <1>1, <1>11 DEF LockStep, Acquire, LockTimeout, ReleaseGet, ReleaseDel, LoadInactive, Just, Goto,
       TypeOK, Patching, store, locals
  <2>. QED  BY <1>1, <2>1 DEF Stays, Mirrors, Held, WriterLabels, FinisherLabels
<1>12. CASE RemoveRecord(r) \/ Drop(r)
  <2>1. /\ rec' = Absent /\ snap' = snap /\ pend' = pend
        /\ \/ pc[r] = "del" /\ pc'[r] \in {"write", "ready"} /\ (pc'[r] = "write" <=> r \in Writers)
           \/ pc[r] = "drop" /\ pc'[r] = "relGet"
    BY <1>1, <1>12 DEF RemoveRecord, Drop, Goto, TypeOK, locals, AfterSniff
  <2>2. pend[r] = Absent
    BY <1>1, <2>1 DEF Mirrors, Patching
  <2>. QED  BY <1>1, <2>1, <2>2 DEF Erases, Held, FinisherLabels
<1>13. ASSUME pc[r] \in Held \ Patching, pend' = pend, rec' = rec, snap' = snap PROVE Stays(r)
  BY <1>1, <1>13 DEF Stays, Mirrors
<1>14. CASE Sniff(r)
  <2>1. UNCHANGED <<rec, snap, pend>> /\ pc[r] = "sniff" /\ pc'[r] \in {"rm", "mime", AfterSniff(r)}
    BY <1>1, <1>14 DEF Sniff, Goto, TypeOK, store
  <2>2. Stays(r)
    BY <1>13, <2>1 DEF Held, Patching
  <2>. QED  BY <1>1, <2>1, <2>2 DEF AfterSniff
<1>15. CASE RemoveTemp(r) \/ WriterCheck(r) \/ WriterWrite(r)
  <2>1. UNCHANGED <<rec, snap, pend>> /\ pc[r] \in {"rm", "check", "write"}
    BY <1>15 DEF RemoveTemp, WriterCheck, WriterWrite, Just, store, locals
  <2>2. Stays(r)
    BY <1>13, <2>1 DEF Held, WriterLabels, Patching
  <2>3. \/ pc'[r] = "del" /\ pc[r] = "rm"
        \/ /\ r \in Writers /\ pc[r] \in {"check", "write"}
           /\ pc'[r] \in {"relGet", "sniff", "write", "commit"}
    BY <1>1, <1>15 DEF RemoveTemp, WriterCheck, WriterWrite, Just, Goto, TypeOK, PlacedAt, WriterLabels
  <2>. QED  BY <1>1, <2>1, <2>2, <2>3
<1>16. CASE \/ Prepare(r) \/ PutDone(r) \/ PutFailed(r) \/ ErrorClean(r) \/ Discard(r)
            \/ Persist(r) \/ Rollback(r)
  <2>1. /\ UNCHANGED <<rec, snap, pend>>
        /\ pc[r] \in {"prepare", "put", "errClean", "discard", "persist", "rollback"}
    BY <1>16 DEF Prepare, PutDone, PutFailed, ErrorClean, Discard, Persist, Rollback, Just,
       store, locals
  <2>2. Stays(r)
    BY <1>13, <2>1 DEF Held, FinisherLabels, Patching
  <2>. QED
    BY <1>1, <1>16, <2>1, <2>2 DEF Prepare, PutDone, PutFailed, ErrorClean, Discard, Persist,
       Rollback, Just, Goto, TypeOK
<1>17. CASE AbortLoad(r)
  BY <1>1, <1>17 DEF AbortLoad
<1>. QED
  BY <1>3, <1>4, <1>5, <1>6, <1>7, <1>8, <1>9, <1>10, <1>11, <1>12, <1>14, <1>15, <1>16, <1>17
     DEF RequestStep, SniffStep, WriteStep, FinishStep

\* Who does not take the lock only removes.
LEMMA FreeStep ==
  ASSUME LInv, NEW r \in Requests \ Lockers, RequestStep(r)
  PROVE  /\ rec' \in {rec, Absent} /\ media' = media /\ UNCHANGED <<lock, snap, pend, sniff>>
         /\ r \in Aborters /\ pc'[r] \in {"rm", "del", "done"}
<1>1. TypeOK /\ lock # r /\ Guards(r) /\ PlacedAt(r, pc[r]) /\ r # Opener
  BY RunsLater, Constants DEF LInv, TInv, TypeOK, Placed
<1>2. r \in Aborters /\ r \notin Writers /\ r \notin Finishers
  BY <1>1 DEF Requests, Lockers
<1>3. pc[r] \notin {"relGet", "relDel"}
  BY <1>1 DEF Guards, Inside
<1>4. AbortLoad(r) \/ RemoveTemp(r) \/ RemoveRecord(r)
  BY <1>1, <1>2, <1>3 DEF RequestStep, LockStep, Acquire, LockTimeout, LoadInactive, ReleaseGet, ReleaseDel,
     SniffStep, Sniff, SniffPatch, WriteStep, WriterLoad, WriterBegin, WriterCheck, WriterWrite,
     WriterCommit, FinishStep, FinisherLoad, MarkReady, Prepare, MarkUploading, PutDone, PutFailed,
     MarkError, ErrorClean, Discard, MarkUploaded, Persist, Rollback, FlagError, Drop, PlacedAt,
     WriterLabels, FinisherLabels
<1>. QED
  BY <1>1, <1>2, <1>4 DEF AbortLoad, RemoveTemp, RemoveRecord, Just, Goto, Then, TypeOK, store, files, locals

\* The lock changes hands only through Free.
Passes(r) == lock = Free /\ lock' = r /\ pc[r] = "start"
Frees(r) == pc[r] = "relDel" /\ lock' = Free /\ pc'[r] = "done"
Keeps(r) == lock' = lock /\ (pc'[r] \in Inside => pc[r] \in Inside)

LEMMA LockMoves ==
  ASSUME LInv, NEW r \in Lockers, RequestStep(r)
  PROVE  Passes(r) \/ Frees(r) \/ Keeps(r)
<1>1. TypeOK /\ r \in Requests /\ r \notin Aborters
  BY Constants DEF LInv, TInv, Requests, Lockers
<1>2. CASE Acquire(r) \/ ReleaseDel(r)
  BY <1>1, <1>2 DEF Acquire, ReleaseDel, Goto, TypeOK, Passes, Frees
<1>3. CASE LockTimeout(r) \/ LoadInactive(r) \/ ReleaseGet(r)
  <2>1. lock' = lock /\ pc'[r] \in Inside => pc[r] \in Inside
    BY <1>1, <1>3 DEF LockTimeout, LoadInactive, ReleaseGet, Just, Goto, TypeOK, Inside, Held, store, Answer,
       WriterLabels, FinisherLabels
  <2>2. lock' = lock
    BY <1>3 DEF LockTimeout, LoadInactive, ReleaseGet, Just, store
  <2>. QED  BY <2>1, <2>2 DEF Keeps
<1>4. ASSUME NEW p, NEW yes, NEW no, PatchAndSync(r, p, yes, no), pc[r] \in Inside PROVE Keeps(r)
  BY <1>1, <1>4, PatchAny DEF Keeps
<1>5. ASSUME pc[r] \in WriterLabels \cup FinisherLabels \cup {"sniff", "mime", "rm", "del", "load"}
      PROVE  pc[r] \in Inside
  BY <1>5 DEF Inside, Held
<1>. USE DEF WriterLabels, FinisherLabels
<1>6. CASE SniffPatch(r) \/ WriterBegin(r) \/ WriterCommit(r) \/ MarkReady(r) \/ MarkUploading(r)
  BY <1>4, <1>5, <1>6 DEF SniffPatch, WriterBegin, WriterCommit, MarkReady, MarkUploading
<1>7. CASE MarkError(r) \/ MarkUploaded(r) \/ FlagError(r)
  BY <1>4, <1>5, <1>7 DEF MarkError, MarkUploaded, FlagError
<1>8. CASE \/ Sniff(r) \/ RemoveTemp(r) \/ RemoveRecord(r)
           \/ WriterLoad(r) \/ WriterCheck(r) \/ WriterWrite(r)
  BY <1>5, <1>8 DEF Sniff, RemoveTemp, RemoveRecord, WriterLoad, WriterCheck, WriterWrite, Just, Keeps, store
<1>9. CASE \/ FinisherLoad(r) \/ Prepare(r) \/ PutDone(r) \/ PutFailed(r) \/ ErrorClean(r) \/ Discard(r)
           \/ Persist(r) \/ Rollback(r) \/ Drop(r)
  BY <1>5, <1>9 DEF FinisherLoad, Prepare, PutDone, PutFailed, ErrorClean, Discard, Persist, Rollback, Drop,
     Just, Keeps, store
<1>10. CASE AbortLoad(r)
  BY <1>1, <1>10 DEF AbortLoad
<1>. QED
  BY <1>2, <1>3, <1>6, <1>7, <1>8, <1>9, <1>10 DEF RequestStep, LockStep, SniffStep, WriteStep, FinishStep

\* One step of a request keeps what is so of all.
LEMMA LRequest ==
  ASSUME LInv, NEW r \in Requests, RequestStep(r)
  PROVE  \A d \in Requests : Guards(d)' /\ Mirrors(d)' /\ Knows(d)'
<1>1. /\ TypeOK /\ \A d \in Requests : Guards(d) /\ Mirrors(d) /\ Knows(d)
      /\ lock \in Lockers \cup {Free} /\ Lockers \subseteq Requests /\ Free \notin Requests
      /\ Aborters \cap Lockers = {}
  BY Constants DEF LInv, TInv, TypeOK, Requests
<1>2. \A d \in Requests \ {r} : pc'[d] = pc[d] /\ snap'[d] = snap[d] /\ pend'[d] = pend[d]
  BY <1>1, OthersStay
<1>3. \A d \in Requests \ {r} : Knows(d)'
  BY <1>1, <1>2 DEF Knows, KnowsAs
<1>4. CASE r \in Lockers
  <2>1. Knows(r)' /\ (Stays(r) \/ Loads(r) \/ Erases(r) \/ Patched(r))
    BY <1>4, HolderStep
  <2>2. Passes(r) \/ Frees(r) \/ Keeps(r)
    BY <1>4, LockMoves
  <2>3. \A d \in Lockers \ {r} : pc[r] \in Inside => pc[d] \notin Inside
    BY <1>4, Alone
  <2>4. Mirrors(r)'
    <3>1. CASE Stays(r)
      BY <1>1, <1>4, <3>1, PatchingIsHeld DEF Stays, Mirrors
    <3>2. CASE Loads(r) \/ Erases(r) \/ Patched(r)
      BY <1>1, <1>4, <3>2, PatchingIsHeld DEF Loads, Erases, Patched, Mirrors
    <3>. QED  BY <2>1, <3>1, <3>2
  <2>5. ASSUME NEW d \in Requests \ {r} PROVE Mirrors(d)'
    <3>1. rec' = rec \/ pc[r] \in Inside
      BY <2>1, PatchingIsHeld DEF Stays, Loads, Erases, Patched, Inside
    <3>2. CASE d \notin Lockers \/ pc[d] \notin Held
      BY <1>1, <1>2, <3>2, PatchingIsHeld DEF Mirrors
    <3>3. CASE d \in Lockers /\ pc[d] \in Held
      <4>1. rec' = rec
        BY <2>3, <3>1, <3>3 DEF Inside
      <4>. QED  BY <1>1, <1>2, <4>1 DEF Mirrors
    <3>. QED  BY <3>2, <3>3
  <2>6. \A d \in Requests : Guards(d)'
    <3>1. "done" \notin Inside /\ "relDel" \in Inside
      BY DEF Inside, Held, WriterLabels, FinisherLabels
    <3>2. CASE Passes(r)
      <4>1. ASSUME NEW d \in Requests \ {r}, pc'[d] \in Inside
            PROVE  d \in Aborters /\ pc'[d] \in {"rm", "del"}
        <5>1. pc[d] \in Inside /\ lock = Free /\ d # Free /\ Guards(d) /\ pc'[d] = pc[d]
          BY <1>1, <1>2, <3>2, <4>1 DEF Passes
        <5>. QED  BY <5>1 DEF Guards
      <4>. QED  BY <3>2, <4>1 DEF Guards, Passes
    <3>3. CASE Frees(r)
      <4>1. \A d \in Lockers \ {r} : pc'[d] \notin Inside
        BY <1>1, <1>2, <2>3, <3>1, <3>3 DEF Frees
      <4>2. \A d \in Requests \ Lockers : pc'[d] \in Inside => d \in Aborters /\ pc'[d] \in {"rm", "del"}
        BY <1>1, <1>2, <1>4 DEF Guards
      <4>. QED  BY <1>1, <1>4, <3>1, <3>3, <4>1, <4>2 DEF Guards, Frees
    <3>4. CASE Keeps(r)
      <4>1. ASSUME NEW d \in Requests \ {r} PROVE Guards(d)'
        <5>1. Guards(d) /\ pc'[d] = pc[d] /\ lock' = lock
          BY <1>1, <1>2, <3>4 DEF Keeps
        <5>. QED  BY <5>1 DEF Guards
      <4>2. Guards(r)'
        BY <1>1, <1>4, <3>4 DEF Guards, Keeps
      <4>. QED  BY <4>1, <4>2
    <3>. QED  BY <2>2, <3>2, <3>3, <3>4
  <2>. QED  BY <1>3, <2>1, <2>4, <2>5, <2>6
<1>5. CASE r \notin Lockers
  <2>1. /\ rec' \in {rec, Absent} /\ UNCHANGED <<lock, snap, pend>>
        /\ r \in Aborters /\ pc'[r] \in {"rm", "del", "done"}
    BY <1>5, FreeStep
  <2>2. \A d \in Requests : Mirrors(d)'
    BY <1>1, <1>2, <1>5, <2>1 DEF Mirrors
  <2>3. \A d \in Requests : Guards(d)'
    BY <1>1, <1>2, <2>1 DEF Guards, Inside, Held, WriterLabels, FinisherLabels
  <2>4. Knows(r)'
    BY <1>5, <2>1 DEF Knows, KnowsAs, Lockers
  <2>. QED  BY <1>3, <2>2, <2>3, <2>4
<1>. QED  BY <1>4, <1>5

\* Crashes, init and the environment only remove, but for the creation.
Unmoved(d) ==
  /\ snap'[d] = snap[d] /\ pend'[d] = pend[d] /\ pc'[d] = pc[d] /\ result'[d] = result[d]
  /\ sniff'[d] = sniff[d]
Died(d) ==
  /\ snap'[d] = NoSnap /\ pend'[d] = Absent /\ pc'[d] = "crashed" /\ result'[d] = result[d]
  /\ sniff'[d] = sniff[d]

LEMMA RestStep ==
  ASSUME LInv, [Next]_vars, ~\E r \in Requests : RequestStep(r)
  PROVE  /\ \/ rec' \in {rec, Absent}
            \/ /\ pc[Opener] = "create" /\ pc'[Opener] = "done"
               /\ rec'.received = {} /\ rec'.state = "init"
               /\ \A d \in Requests : pc'[d] # "crashed"
         /\ media' = media /\ remote' = remote
         /\ \A d \in Requests \ {Opener} : Unmoved(d) \/ Died(d)
         /\ snap'[Opener] \in {snap[Opener], NoSnap} /\ pend'[Opener] \in {pend[Opener], Absent}
         /\ pc[Opener] = "done" => pc'[Opener] = "done"
         /\ pc'[Opener] \in {pc[Opener], "create", "done", "crashed"}
<1>1. TypeOK /\ Opener \in Requests
  BY DEF LInv, TInv, Requests
<1>2. ASSUME NEW r \in Requests, Crash(r)
      PROVE  /\ UNCHANGED <<rec, media, remote, result, sniff>> /\ pc[r] # "done"
             /\ \A d \in Requests : (d # r /\ Unmoved(d)) \/ (d = r /\ Died(d))
  BY <1>1, <1>2 DEF Crash, TypeOK, Unmoved, Died, store, files
<1>3. CASE \E r \in Requests : Crash(r)
  BY <1>1, <1>2, <1>3 DEF Unmoved, Died
<1>4. CASE InitTemp
  <2>1. /\ UNCHANGED <<rec, media, remote, snap, pend, sniff>> /\ pc[Opener] # "done"
        /\ pc'[Opener] \in {"create", "done"}
        /\ \A d \in Requests \ {Opener} : pc'[d] = pc[d] /\ result'[d] = result[d]
    BY <1>1, <1>4 DEF InitTemp, Goto, Then, TypeOK, store, locals
  <2>. QED  BY <2>1 DEF Unmoved
<1>5. CASE InitRecord
  <2>1. /\ UNCHANGED <<media, remote, snap, pend, sniff>> /\ pc[Opener] = "create"
        /\ pc'[Opener] = "done" /\ rec'.received = {} /\ rec'.state = "init"
        /\ \A d \in Requests \ {Opener} : pc'[d] = pc[d] /\ result'[d] = result[d]
    BY <1>1, <1>5 DEF InitRecord, Goto, TypeOK, files, locals
  <2>2. \A d \in Requests : pc'[d] # "crashed"
    BY <1>1, <2>1 DEF LInv, OpenerFirst
  <2>. QED  BY <2>1, <2>2 DEF Unmoved
<1>6. CASE \/ GoneTemp \/ GoneRecord \/ Expire \/ Evict \/ LockExpire \/ Sweep \/ UNCHANGED vars
  <2>1. UNCHANGED <<pc, result, snap, pend, sniff, media, remote>> /\ rec' \in {rec, Absent}
    BY <1>6 DEF GoneTemp, GoneRecord, Expire, Evict, LockExpire, Sweep, vars, store, files, locals
  <2>. QED  BY <2>1 DEF Unmoved
<1>. QED  BY <1>3, <1>4, <1>5, <1>6 DEF Next

LEMMA LRest ==
  ASSUME ~SlowWork, LInv, [Next]_vars, ~\E r \in Requests : RequestStep(r)
  PROVE  \A d \in Requests : Guards(d)' /\ Mirrors(d)' /\ Knows(d)'
<1>1. /\ TypeOK /\ \A d \in Requests : Guards(d) /\ Mirrors(d) /\ Knows(d)
      /\ Lockers \subseteq Requests /\ Opener \notin Lockers /\ pend[Opener] = Absent
      /\ Opener \in Requests
  BY Constants DEF LInv, TInv, Requests, Mirrors
<1>2. {"start", "create", "done", "crashed"} \cap Inside = {}
  BY DEF Inside, Held, WriterLabels, FinisherLabels
<1>3. pc'[Opener] \notin Inside /\ pend'[Opener] = Absent /\ pc'[Opener] \in {"start", "create", "done", "crashed"}
  BY <1>1, <1>2, RestStep DEF LInv, OpenerFirst
<1>. SUFFICES ASSUME NEW d \in Requests \ {Opener} PROVE Guards(d)' /\ Mirrors(d)' /\ Knows(d)'
  BY <1>1, <1>2, <1>3 DEF Guards, Mirrors, Knows, KnowsAs, Inside
<1>4. CASE Died(d)
  BY <1>2, <1>4 DEF Died, Guards, Mirrors, Knows, KnowsAs, Inside
<1>5. CASE Unmoved(d)
  <2>1. Knows(d)'
    BY <1>1, <1>5 DEF Unmoved, Knows, KnowsAs
  <2>2. pc[d] \in Inside /\ lock = d => lock' = d
    <3>1. CASE LockExpire
      BY <1>2, <3>1 DEF LockExpire
    <3>2. CASE ~LockExpire
      <4>1. lock' = lock
        BY <3>2 DEF Next, InitTemp, InitRecord, GoneTemp, GoneRecord, Expire, Evict, Sweep, Crash, vars, store
      <4>. QED  BY <4>1
    <3>. QED  BY <3>1, <3>2
  <2>3. Guards(d)'
    BY <1>1, <1>5, <2>2 DEF Unmoved, Guards
  <2>4. CASE pc[d] \in Held
    <3>1. pc[Opener] # "create"
      BY <1>1, <1>2, <2>4 DEF LInv, OpenerFirst, Inside
    <3>2. rec' \in {rec, Absent}
      BY <3>1, RestStep
    <3>. QED  BY <1>1, <1>5, <2>1, <2>3, <3>2 DEF Unmoved, Mirrors
  <2>5. CASE pc[d] \notin Held
    BY <1>1, <1>5, <2>1, <2>3, <2>5 DEF Unmoved, Mirrors
  <2>. QED  BY <2>4, <2>5
<1>. QED  BY <1>4, <1>5, RestStep

LEMMA OpenerStep == LInv /\ [Next]_vars => OpenerFirst'
<1>. SUFFICES ASSUME LInv, [Next]_vars PROVE OpenerFirst'
  OBVIOUS
<1>1. TypeOK /\ OpenerFirst
  BY DEF LInv, TInv
<1>2. ASSUME NEW r \in Requests, RequestStep(r) PROVE OpenerFirst'
  <2>1. r # Opener /\ pc[Opener] = "done" /\ pc'[Opener] = "done"
    BY <1>1, <1>2, RunsLater, OthersStay DEF Requests
  <2>. QED  BY <2>1 DEF OpenerFirst
<1>3. ASSUME NEW r \in Requests, Crash(r) PROVE OpenerFirst'
  BY <1>1, <1>3 DEF Crash, OpenerFirst, TypeOK, Requests
<1>4. CASE InitTemp \/ InitRecord
  BY <1>1, <1>4 DEF InitTemp, InitRecord, Goto, Then, OpenerFirst, TypeOK, Requests
<1>5. CASE \/ GoneTemp \/ GoneRecord \/ Expire \/ Evict \/ LockExpire \/ Sweep \/ UNCHANGED vars
  BY <1>1, <1>5 DEF GoneTemp, GoneRecord, Expire, Evict, LockExpire, Sweep, vars, OpenerFirst
<1>. QED  BY <1>2, <1>3, <1>4, <1>5 DEF Next

LEMMA NothingStep == LInv /\ [Next]_vars => NothingYet'
<1>. SUFFICES ASSUME LInv, [Next]_vars PROVE NothingYet'
  OBVIOUS
<1>1. TypeOK /\ OpenerFirst /\ NothingYet /\ \A w \in Writers : w \in Requests \ {Opener}
  BY Constants DEF LInv, TInv, Requests, Lockers
<1>2. CASE \E r \in Requests : RequestStep(r)
  <2>1. pc'[Opener] = "done"
    BY <1>1, <1>2, RunsLater, OthersStay DEF Requests
  <2>. QED  BY <2>1 DEF NothingYet
<1>3. CASE ~\E r \in Requests : RequestStep(r)
  <2>1. /\ rec' \in {rec, Absent} \/ pc'[Opener] = "done"
        /\ media' = media /\ (pc[Opener] = "done" => pc'[Opener] = "done")
        /\ \A w \in Writers : result'[w] = result[w]
    BY <1>1, <1>3, RestStep DEF Unmoved, Died
  <2>. QED  BY <1>1, <2>1 DEF NothingYet
<1>. QED  BY <1>2, <1>3

LEMMA LNext == ~SlowWork /\ LInv /\ [Next]_vars => LInv'
<1>. SUFFICES ASSUME ~SlowWork, LInv, [Next]_vars PROVE LInv'
  OBVIOUS
<1>1. TInv' /\ OpenerFirst' /\ NothingYet'
  BY TNext, OpenerStep, NothingStep DEF LInv
<1>2. \A d \in Requests : Guards(d)' /\ Mirrors(d)' /\ Knows(d)'
  BY LRequest, LRest
<1>. QED  BY <1>1, <1>2 DEF LInv

\* The lifecycle: a patch inside the lock starts from the record, or brings
\* back the one that was removed.
THEOREM LockedLife == ASSUME ~SlowWork PROVE Spec => Lifecycle
<1>1. LInv /\ [Next]_vars =>
        [rec # Absent /\ rec' # Absent /\ rec'.state # rec.state
           => LifecycleStep(rec.state, rec'.state)]_rec
  <2>. SUFFICES ASSUME LInv, [Next]_vars, rec # Absent, rec' # Absent, rec'.state # rec.state
                PROVE  LifecycleStep(rec.state, rec'.state)
    OBVIOUS
  <2>1. ASSUME NEW r \in Lockers, RequestStep(r) PROVE LifecycleStep(rec.state, rec'.state)
    <3>1. Stays(r) \/ Loads(r) \/ Erases(r) \/ Patched(r)
      BY <2>1, HolderStep
    <3>2. Patched(r)
      BY <3>1 DEF Stays, Loads, Erases
    <3>3. rec = snap[r]
      BY <2>1, <3>2, PatchingIsHeld DEF Patched, LInv, Mirrors, Requests
    <3>. QED  BY <3>2, <3>3 DEF Patched, Merge
  <2>2. ASSUME NEW r \in Requests \ Lockers, RequestStep(r) PROVE FALSE
    BY <2>2, FreeStep
  <2>3. CASE ~\E r \in Requests : RequestStep(r)
    <3>1. rec' \in {rec, Absent} \/ pc[Opener] = "create"
      BY <2>3, RestStep
    <3>2. pc[Opener] = "done"
      BY DEF LInv, NothingYet
    <3>. QED  BY <3>1, <3>2
  <2>. QED  BY <2>1, <2>2, <2>3
<1>. QED  BY LInit, LNext, <1>1, PTL DEF Spec, Lifecycle

\* What is so of the record and of every snapshot inside the lock.
In(S) == (rec # Absent => rec \in S) /\ \A r \in Lockers : pc[r] \in Held => snap[r] \in S

Closed(S) ==
  \A b \in S, p \in Patches :
    p.state = "keep" \/ LifecycleStep(b.state, p.state) => Merge(b, p) \in S

LEMMA OpenerDone == ASSUME LInv, [Next]_vars, pc[Opener] = "done" PROVE pc'[Opener] = "done"
<1>1. TypeOK /\ OpenerFirst
  BY DEF LInv, TInv
<1>2. CASE \E r \in Requests : RequestStep(r)
  BY <1>1, <1>2, RunsLater, OthersStay DEF Requests
<1>3. CASE ~\E r \in Requests : RequestStep(r)
  BY <1>3, RestStep
<1>. QED  BY <1>2, <1>3

\* It stays so, if patches keep it.
LEMMA Carried ==
  ASSUME LInv, [Next]_vars, pc[Opener] = "done", NEW S, Closed(S), In(S)
  PROVE  In(S)'
<1>1. /\ TypeOK /\ Opener \notin Lockers /\ Lockers \subseteq Requests
      /\ "crashed" \notin Held
  BY Constants DEF LInv, TInv, Requests, Held, WriterLabels, FinisherLabels
<1>2. ASSUME NEW r \in Lockers, RequestStep(r) PROVE In(S)'
  <2>1. Stays(r) \/ Loads(r) \/ Erases(r) \/ Patched(r)
    BY <1>2, HolderStep
  <2>2. \A d \in Lockers \ {r} : pc'[d] = pc[d] /\ snap'[d] = snap[d]
    BY <1>1, <1>2, OthersStay
  <2>3. (rec' # Absent => rec' \in S) /\ (pc'[r] \in Held => snap'[r] \in S)
    <3>1. CASE Stays(r)
      BY <3>1 DEF Stays, In
    <3>2. CASE Loads(r) \/ Erases(r)
      BY <1>2, <3>2 DEF Loads, Erases, In
    <3>3. CASE Patched(r)
      BY <1>2, <3>3, PatchingIsHeld DEF Patched, In, Closed
    <3>. QED  BY <2>1, <3>1, <3>2, <3>3
  <2>. QED  BY <2>2, <2>3 DEF In
<1>3. ASSUME NEW r \in Requests \ Lockers, RequestStep(r) PROVE In(S)'
  <2>1. rec' \in {rec, Absent} /\ snap' = snap /\ \A d \in Lockers : pc'[d] = pc[d]
    BY <1>1, <1>3, FreeStep, OthersStay
  <2>. QED  BY <2>1 DEF In
<1>4. CASE ~\E r \in Requests : RequestStep(r)
  <2>1. rec' \in {rec, Absent} /\ \A d \in Lockers : Unmoved(d) \/ Died(d)
    BY <1>1, <1>4, RestStep
  <2>. QED  BY <1>1, <2>1 DEF In, Unmoved, Died
<1>. QED  BY <1>2, <1>3, <1>4

\* It becomes so by a patch: nobody else has a snapshot then.
LEMMA Entered ==
  ASSUME LInv, NEW r \in Lockers, RequestStep(r), pc[r] \in Held, snap'[r] = rec', NEW S, rec' \in S
  PROVE  In(S)'
<1>1. TypeOK /\ r \in Requests /\ Lockers \subseteq Requests
  BY DEF LInv, TInv, Requests
<1>2. \A d \in Lockers \ {r} : pc'[d] = pc[d] /\ pc[d] \notin Held
  BY <1>1, Alone, OthersStay DEF Inside
<1>. QED  BY <1>2 DEF In

Ended == {b \in Record : b.state \in {"uploaded", "error"}}
With(c) == {b \in Record : c \in b.received}

LEMMA EndedClosed == Closed(Ended)
BY MergeType DEF Closed, Ended, LifecycleStep, Merge

LEMMA WithClosed == \A c : Closed(With(c))
BY MergeType DEF Closed, With, Merge

\* A finish that may write its row is the only one, and the session has ended.
OneEnded ==
  /\ \A f, g \in Finishers : Past(f) /\ Past(g) => f = g
  /\ (\E f \in Finishers : Past(f)) => In(Ended) /\ pc[Opener] = "done"

LEMMA PastMarked ==
  ASSUME LInv, NEW f \in Finishers, RequestStep(f), ~Past(f), Past(f)'
  PROVE  pc[f] \in Held /\ snap[f].state = "uploading" /\ snap'[f] = rec' /\ rec' \in Ended
<1>1. /\ TypeOK /\ f \in Lockers /\ f \in Requests /\ TypeOK' /\ Knows(f)
  BY TNext DEF LInv, TInv, Requests, Lockers, Next
<1>2. MarkUploaded(f) /\ pc'[f] = "persist"
  BY <1>1, PastBy DEF LInv
<1>3. SetState("uploaded") \in Patches /\ SetState("uploaded").state = "uploaded"
  BY PatchesMade DEF SetState, UploadState
<1>4. pc[f] = "uploaded" /\ pc[f] \in Patching /\ snap[f].state = "uploading"
  BY <1>1, <1>2 DEF MarkUploaded, Patching, Knows, KnowsAs
<1>5. rec' = Merge(snap[f], SetState("uploaded")) /\ snap'[f] = rec'
  BY <1>1, <1>2, <1>3, <1>4, LockedPatch DEF MarkUploaded, Then, Answer
<1>6. rec' \in Ended
  BY <1>1, <1>3, <1>5, MergeType DEF Merge, Ended, TypeOK
<1>. QED  BY <1>4, <1>5, <1>6, PatchingIsHeld

LEMMA EndedNext == LInv /\ OneEnded /\ [Next]_vars => OneEnded'
<1>. SUFFICES ASSUME LInv, OneEnded, [Next]_vars PROVE OneEnded'
  OBVIOUS
<1>1. TypeOK /\ \A f \in Finishers : f \in Lockers /\ f \in Requests /\ f # Opener
  BY Constants DEF LInv, TInv, Requests, Lockers
<1>2. CASE \A f \in Finishers : Past(f)' => Past(f)
  BY <1>2, Carried, OpenerDone, EndedClosed DEF OneEnded
<1>3. CASE \E f \in Finishers : RequestStep(f) /\ ~Past(f) /\ Past(f)'
  <2>1. PICK f \in Finishers : RequestStep(f) /\ ~Past(f) /\ Past(f)'
    BY <1>3
  <2>2. pc[f] \in Held /\ snap[f].state = "uploading" /\ snap'[f] = rec' /\ rec' \in Ended
    BY <2>1, PastMarked
  <2>3. \A g \in Finishers : ~Past(g)
    BY <1>1, <2>2 DEF OneEnded, In, Ended
  <2>4. \A g \in Finishers \ {f} : ~Past(g)'
    BY <1>1, <2>1, <2>3, OthersStay DEF Past
  <2>5. In(Ended)'
    BY <1>1, <2>1, <2>2, Entered
  <2>6. pc'[Opener] = "done"
    BY <1>1, <2>1, RunsLater, OpenerDone DEF LInv
  <2>. QED  BY <2>4, <2>5, <2>6 DEF OneEnded
<1>4. ASSUME NEW f \in Finishers, ~Past(f), Past(f)' PROVE RequestStep(f)
  <2>1. CASE \E r \in Requests : RequestStep(r)
    BY <1>1, <1>4, <2>1, OthersStay DEF Past
  <2>2. CASE ~\E r \in Requests : RequestStep(r)
    BY <1>1, <1>4, <2>2, RestStep DEF Past, Unmoved, Died
  <2>. QED  BY <2>1, <2>2
<1>. QED  BY <1>2, <1>3, <1>4

\* At most one row, with the lock alone: the second finish to enter finds a
\* session that has ended, or none.
THEOREM LockedOnce == ASSUME ~SlowWork PROVE Spec => []AtMostOneRow
<1>1. Init => OneEnded
  BY DEF Init, OneEnded, Past, Requests, Lockers
<1>2. LInv /\ OneEnded => AtMostOneRow
  BY DEF LInv, TInv, TypeOK, OneEnded, Past, AtMostOneRow
<1>. QED  BY LInit, LNext, EndedNext, <1>1, <1>2, PTL DEF Spec

\* An acknowledged chunk is in the record and in whatever is inside the lock.
Acknowledged ==
  \A w \in Writers : result[w] = "ok" => In(With(ChunkOf[w])) /\ pc[Opener] = "done"

LEMMA OkCommitted ==
  ASSUME LInv, NEW w \in Writers, RequestStep(w), result[w] # "ok", result'[w] = "ok"
  PROVE  pc[w] \in Held /\ snap'[w] = rec' /\ rec' \in With(ChunkOf[w])
<1>1. /\ TypeOK /\ w \in Lockers /\ w \in Requests /\ PlacedAt(w, pc[w])
  BY DEF LInv, TInv, Placed, Requests, Lockers
<1>2. WriterCommit(w)
  BY OkBy DEF LInv
<1>. DEFINE p == SetReceived(snap[w].received \cup {ChunkOf[w]})
<1>3. p \in Patches /\ ChunkOf[w] \in p.received /\ pc[w] \in Patching
  BY <1>1, <1>2 DEF WriterCommit, SetReceived, Patches, TypeOK, PlacedAt, WriterLabels, Record, Patching
<1>4. PatchAndSync(w, p, <<"relGet", "ok">>, <<"relGet", "409">>)
  BY <1>2 DEF WriterCommit, Answer
<1>. HIDE DEF p
<1>5. rec' = Merge(snap[w], p) /\ snap'[w] = rec'
  BY <1>1, <1>3, <1>4, LockedPatch
<1>6. rec' \in With(ChunkOf[w])
  BY <1>1, <1>3, <1>5, MergeType DEF Merge, With, TypeOK
<1>. QED  BY <1>3, <1>5, <1>6, PatchingIsHeld

LEMMA AcknowledgedNext == LInv /\ Acknowledged /\ [Next]_vars => Acknowledged'
<1>. SUFFICES ASSUME LInv, Acknowledged, [Next]_vars, NEW w \in Writers, result'[w] = "ok"
              PROVE  In(With(ChunkOf[w]))' /\ pc'[Opener] = "done"
  BY DEF Acknowledged
<1>1. TypeOK /\ w \in Lockers /\ w \in Requests /\ w # Opener
  BY Constants DEF LInv, TInv, Requests, Lockers
<1>2. CASE result[w] = "ok"
  BY <1>2, Carried, OpenerDone, WithClosed DEF Acknowledged
<1>3. CASE result[w] # "ok"
  <2>1. RequestStep(w)
    <3>1. CASE \E r \in Requests : RequestStep(r)
      BY <1>1, <1>3, <3>1, OthersStay
    <3>2. CASE ~\E r \in Requests : RequestStep(r)
      BY <1>1, <1>3, <3>2, RestStep DEF Unmoved, Died
    <3>. QED  BY <3>1, <3>2
  <2>2. pc'[Opener] = "done"
    BY <1>1, <2>1, RunsLater, OpenerDone DEF LInv
  <2>. QED  BY <1>1, <1>3, <2>1, <2>2, OkCommitted, Entered
<1>. QED  BY <1>2, <1>3

\* An acknowledged chunk stays, with the lock alone.
THEOREM LockedChunks == ASSUME ~SlowWork PROVE Spec => []AcknowledgedStays
<1>1. Init => Acknowledged
  BY DEF Init, Acknowledged, Requests, Lockers
<1>2. Acknowledged => AcknowledgedStays
  BY DEF Acknowledged, In, With, AcknowledgedStays
<1>. QED  BY LInit, LNext, AcknowledgedNext, <1>1, <1>2, PTL DEF Spec

\* A refused content, with the lock alone: the request has removed the record
\* and has no patch under way that could bring it back; nobody else can.
LRefused == \A r \in Lockers : Refused(r) /\ Unpatched(r)

LEMMA RefusedNext == LInv /\ LRefused /\ [Next]_vars => LRefused'
<1>. SUFFICES ASSUME LInv, LRefused, [Next]_vars, NEW d \in Lockers
              PROVE  Refused(d)' /\ Unpatched(d)'
  BY DEF LRefused
<1>1. /\ TypeOK /\ TInv /\ d \in Requests /\ d # Opener /\ Refused(d) /\ Unpatched(d)
      /\ Mirrors(d)
  BY Constants DEF LInv, TInv, Requests, Lockers, LRefused
<1>2. CASE RequestStep(d)
  <2>1. Refused(d)'
    BY <1>1, <1>2, ROwn
  <2>2. ASSUME sniff'[d] = "refused", pc'[d] \in {"write", "commit", "ready"}, pend'[d] # Absent
        PROVE  FALSE
    <3>1. Stays(d) \/ Loads(d) \/ Erases(d) \/ Patched(d)
      BY <1>2, HolderStep
    <3>2. /\ pend'[d] = snap[d] /\ rec = snap[d] /\ pc'[d] = pc[d] /\ rec' = rec
          /\ pc[d] \in Patching
      BY <2>2, <3>1 DEF Stays, Loads, Erases, Patched
    <3>3. pc'[d] \in {"write", "commit", "ready"} => rec' = Absent
      BY <2>1, <2>2 DEF Refused, RefusedAs
    <3>. QED  BY <2>2, <3>2, <3>3
  <2>. QED  BY <2>1, <2>2 DEF Unpatched
<1>3. CASE Crash(d)
  BY <1>1, <1>3 DEF Crash, Refused, RefusedAs, Unpatched, Early, Unpublished, TypeOK, store, files
<1>4. CASE ~RequestStep(d) /\ ~Crash(d)
  <2>1. /\ pc'[d] = pc[d] /\ result'[d] = result[d] /\ sniff'[d] = sniff[d] /\ pend'[d] = pend[d]
        /\ d \in Finishers => remote'[d] = remote[d]
        /\ d \in media <=> d \in media'
    BY <1>1, <1>4, OthersStay, EnvStays
  <2>2. pc[d] \in {"write", "commit", "ready"} /\ rec = Absent => rec' = Absent
    <3>. SUFFICES ASSUME pc[d] \in {"write", "commit", "ready"}, rec = Absent PROVE rec' = Absent
      OBVIOUS
    <3>1. pc[d] \in Inside
      BY DEF Inside, Held, WriterLabels, FinisherLabels
    <3>2. ASSUME NEW r \in Lockers, RequestStep(r) PROVE rec' = Absent
      <4>1. pc[r] \notin Inside
        BY <1>4, <3>1, <3>2, Alone
      <4>. QED  BY <3>2, <4>1, HolderStep, PatchingIsHeld DEF Stays, Loads, Erases, Patched, Inside
    <3>3. ASSUME NEW r \in Requests \ Lockers, RequestStep(r) PROVE rec' = Absent
      BY <3>3, FreeStep
    <3>4. CASE ~\E r \in Requests : RequestStep(r)
      <4>1. pc[Opener] # "create"
        BY <1>1 DEF LInv, OpenerFirst
      <4>. QED  BY <3>4, <4>1, RestStep
    <3>. QED  BY <3>2, <3>3, <3>4
  <2>. QED  BY <1>1, <2>1, <2>2 DEF Refused, RefusedAs, Unpublished, Unpatched
<1>. QED  BY <1>2, <1>3, <1>4

\* What the sniff refused is neither acknowledged nor published, with the lock
\* alone.
THEOREM LockedRefused == ASSUME ~SlowWork PROVE Spec => []RefusedNeverPublished
<1>1. Init => LRefused
  BY DEF Init, LRefused, Refused, RefusedAs, Unpublished, Unpatched, Requests, Lockers
<1>2. LRefused => RefusedNeverPublished
  BY DEF LRefused, Refused, RefusedAs, Unpublished, RefusedNeverPublished
<1>. QED  BY LInit, LNext, RefusedNext, <1>1, <1>2, PTL DEF Spec

\* Whoever sends the DEL of a release owns the lock then: the GET before it is
\* not overtaken by the lock's TTL.
THEOREM LockedRelease == ASSUME ~SlowWork PROVE Spec => []OwnLockReleased
<1>1. ASSUME LInv, NEW r \in Lockers, pc[r] = "relDel" PROVE lock = r
  <2>1. r \in Requests /\ r \notin Aborters
    BY Constants DEF Requests
  <2>. QED  BY <1>1, <2>1 DEF LInv, Guards, Inside
<1>2. LInv => OwnLockReleased
  BY <1>1 DEF OwnLockReleased
<1>. QED  BY LInit, LNext, <1>2, PTL DEF Spec

=============================================================================
