--------------------------- MODULE UploadSession ---------------------------
(***************************************************************************)
(* One chunked upload session of the API (apps/api/src/core/upload): the   *)
(* requests init, writeChunk, finish, abort and status of UploadService,   *)
(* the sweeper UploadCleanup, and what they share:                         *)
(*   rec    the session record in Redis, `lock` the lock key next to it    *)
(*   temp   the .part file on local disk (the set of chunks written to it) *)
(*   remote the files on the FTP server, one path per finish request       *)
(*   media  the rows of the File table                                     *)
(* A request is a process; every await of its code ends a step.  A request *)
(* is used once: retries of a client are further requests.  The command    *)
(* level of patchCAS is module UploadStore.                                *)
(***************************************************************************)
EXTENDS Naturals, FiniteSets

CONSTANTS
  Opener,            \* the init request
  Writers,           \* writeChunk requests; w sends chunk ChunkOf[w]
  Finishers,         \* finish requests; each draws its own random remote path
  Aborters,          \* abort requests
  ChunkOf, NumChunks,
  MaxTries,          \* maxAttempts of uploadWithRetry
  KeepTempOnError,   \* the configuration flag of the same name
  SlowWork,          \* TRUE: work under the lock may outlast the lock's TTL
  WatchLost,         \* TRUE: a WATCH may be dropped by the connection's other users
  Mortal,            \* requests whose process may crash
  Absent, NoFile, Free

Chunks == 0 .. NumChunks - 1
Lockers == Writers \cup Finishers
Requests == {Opener} \cup Lockers \cup Aborters

UploadState ==
  {"init", "receiving", "ready-to-upload", "uploading", "uploaded", "error"}
Record == [state : UploadState, received : SUBSET Chunks, version : Nat]

ASSUME Constants ==
  /\ NumChunks \in Nat \ {0} /\ MaxTries \in Nat \ {0}
  /\ ChunkOf \in [Writers -> Nat]
  /\ {KeepTempOnError, SlowWork, WatchLost} \subseteq BOOLEAN
  /\ Mortal \subseteq Requests
  /\ Opener \notin Lockers \cup Aborters
  /\ Writers \cap Finishers = {} /\ Lockers \cap Aborters = {}
  /\ Absent \notin Record
  /\ \A S \in SUBSET Chunks : NoFile # S
  /\ Free \notin Requests

\* The snapshot of a request that has none.
NoSnap == [state |-> "init", received |-> {}, version |-> 0]

VARIABLES
  rec, expired,      \* the Redis record, and whether now > expiresAt
  lock,              \* the Redis lock key: its owner or Free
  temp, remote, media,
  pc, result,        \* per request: where it is, and the HTTP answer it gives
  snap,              \* per request: its in-memory snapshot of the record
  pend,              \* per request: the record patchCAS read, until it EXECs
  sniff,             \* per request: the verdict of the MIME sniff
  tries,             \* per request: failed attempts of uploadWithRetry
  written            \* history: every chunk ever written to the .part file

store == <<rec, expired, lock>>
files == <<temp, remote, media, written>>
locals == <<snap, pend, sniff, tries>>
vars == <<store, files, locals, pc, result>>

---------------------------------------------------------------------------
\* The store as the service sees it: patches and compare-and-set.

SetState(s) == [state |-> s, received |-> {}]
SetReceived(S) == [state |-> "keep", received |-> S]
SetMime == [state |-> "keep", received |-> {}]   \* only its version bump matters

\* Mutant of Merge: a field the patch leaves out is overwritten, too.
MergeSpreads(cur, p) ==
  [state |-> p.state, received |-> cur.received \cup p.received, version |-> cur.version + 1]

Merge(cur, p) ==
  [state    |-> IF p.state = "keep" THEN cur.state ELSE p.state,
   received |-> cur.received \cup p.received,
   version  |-> cur.version + 1]

\* Mutant of Matches: the version is not compared.
MatchesAnyVersion(v) == rec # Absent

Matches(v) == rec # Absent /\ rec.version = v

\* Request r continues at label at[1] and, when at[2] is an answer, has it.
Goto(r, at) == /\ pc' = [pc EXCEPT ![r] = at[1]]
               /\ result' = [result EXCEPT ![r] = at[2]]
Then(label) == <<label, "none">>
Answer(code) == <<"relGet", code>>
Just(r, at) == Goto(r, at) /\ UNCHANGED <<store, files, locals>>

Commit(r, base, p, yes) ==
  /\ rec' = Merge(base, p)
  /\ snap' = [snap EXCEPT ![r] = Merge(@, p)]
  /\ pend' = [pend EXCEPT ![r] = Absent]
  /\ Goto(r, yes)

Conflict(r, no) ==
  /\ pend' = [pend EXCEPT ![r] = Absent]
  /\ Goto(r, no)
  /\ UNCHANGED <<rec, snap>>

\* Mutant of PatchAndSync: SET of the merged snapshot, whatever the key holds.
PatchBlindly(r, p, yes, no) ==
  /\ Commit(r, snap[r], p, yes)
  /\ UNCHANGED <<expired, lock, files, sniff, tries>>

\* A writer that overlaps r has refreshed the key's TTL: WATCH counts EXPIRE
\* as a change, so that r's EXEC may fail although the record is the same.
Touched(r) == SlowWork /\ \E w \in Writers \ {r} : result[w] = "ok"

(***************************************************************************)
(* patchAndSync: continue at `yes` if the record still has the snapshot's  *)
(* version, else at `no`.  While the WATCH stands the compare and the      *)
(* write are one step.  When it may be lost, the GET and the EXEC are two, *)
(* and the EXEC may write over whatever happened in between.               *)
(***************************************************************************)
PatchAndSync(r, p, yes, no) ==
  /\ \/ /\ pend[r] = Absent /\ ~Matches(snap[r].version)
        /\ Conflict(r, no)
     \/ /\ ~WatchLost /\ Matches(snap[r].version)
        /\ Commit(r, rec, p, yes)
     \/ /\ pend[r] = Absent /\ Touched(r)
        /\ Conflict(r, no)
     \/ /\ WatchLost /\ pend[r] = Absent /\ Matches(snap[r].version)
        /\ pend' = [pend EXCEPT ![r] = rec]
        /\ UNCHANGED <<rec, snap, pc, result>>
     \/ /\ pend[r] # Absent
        /\ Commit(r, pend[r], p, yes)
     \/ /\ pend[r] # Absent /\ rec # pend[r]
        /\ Conflict(r, no)
  /\ UNCHANGED <<expired, lock, files, sniff, tries>>

---------------------------------------------------------------------------
\* A failing rm is swallowed, and the file is then left to the sweeper.
SafeRemoveTemp == temp' \in {temp, NoFile}

---------------------------------------------------------------------------
\* init: the sparse .part file first, then the record (SET NX).  open, truncate
\* or close may fail, and leave an empty file behind.

InitTemp ==
  /\ pc[Opener] = "start"
  /\ \/ temp' = {} /\ Goto(Opener, Then("create"))
     \/ temp' \in {NoFile, {}} /\ Goto(Opener, <<"done", "500">>)
  /\ UNCHANGED <<store, remote, media, written, locals>>

InitRecord ==
  /\ pc[Opener] = "create"
  /\ rec' = [state |-> "init", received |-> {}, version |-> 1]
  /\ Goto(Opener, <<"done", "ok">>)
  /\ UNCHANGED <<expired, lock, files, locals>>

---------------------------------------------------------------------------
\* withLock: acquire, or give up at the deadline; release in two commands.

Acquire(r) ==
  /\ r \in Lockers /\ pc[r] = "start" /\ pc[Opener] = "done"
  /\ lock = Free
  /\ lock' = r
  /\ Goto(r, Then("load"))
  /\ UNCHANGED <<rec, expired, files, locals>>

LockTimeout(r) ==
  /\ r \in Lockers /\ pc[r] = "start" /\ pc[Opener] = "done"
  /\ lock # Free
  /\ Just(r, <<"done", "500">>)

ReleaseGet(r) ==
  /\ pc[r] = "relGet"
  /\ pc' = [pc EXCEPT ![r] = IF lock = r THEN "relDel" ELSE "done"]
  /\ snap' = [snap EXCEPT ![r] = NoSnap]   \* the work's locals are dead
  /\ tries' = [tries EXCEPT ![r] = 0]
  /\ UNCHANGED <<store, files, pend, sniff, result>>

ReleaseDel(r) ==
  /\ pc[r] = "relDel"
  /\ lock' = Free
  /\ pc' = [pc EXCEPT ![r] = "done"]
  /\ UNCHANGED <<rec, expired, files, locals, result>>

---------------------------------------------------------------------------
\* mustGetActive: a missing record is a 400, an expired one a 410.  The 410
\* (of a status poll, too) starts removing file and record without waiting:
\* from expiry on, GoneTemp and GoneRecord may happen at any time.

Active == rec # Absent /\ ~expired

LoadInactive(r) ==
  /\ pc[r] = "load" /\ ~Active
  /\ Just(r, Answer(IF rec = Absent THEN "400" ELSE "410"))

GoneTemp ==
  /\ expired /\ temp # NoFile
  /\ temp' = NoFile
  /\ UNCHANGED <<store, remote, media, written, locals, pc, result>>

GoneRecord ==
  /\ expired /\ rec # Absent
  /\ rec' = Absent
  /\ UNCHANGED <<expired, lock, files, locals, pc, result>>

---------------------------------------------------------------------------
\* writeChunk

Writable(s) == s \in {"init", "receiving"}

WriterLoad(w) ==
  /\ w \in Writers /\ pc[w] = "load" /\ Active
  /\ snap' = [snap EXCEPT ![w] = rec]
  /\ Goto(w, IF ~Writable(rec.state) THEN Answer("409")
             ELSE IF rec.state = "init" THEN Then("begin") ELSE Then("check"))
  /\ UNCHANGED <<store, files, pend, sniff, tries>>

WriterBegin(w) ==
  /\ pc[w] = "begin"
  /\ PatchAndSync(w, SetState("receiving"), Then("check"), Answer("409"))

\* Index bound, then the exact length of the body (the sender may be wrong).
WriterCheck(w) ==
  /\ pc[w] = "check"
  /\ IF ChunkOf[w] >= NumChunks
     THEN Just(w, Answer("400"))
     ELSE \/ Just(w, Answer("422"))
          \/ Just(w, Then(IF ChunkOf[w] = 0 THEN "sniff" ELSE "write"))

\* Mutant of WriterWrite: an I/O error is swallowed and the chunk counted.
WriterWriteSwallows(w) ==
  /\ pc[w] = "write"
  /\ \/ temp' = temp /\ written' = written
     \/ /\ temp # NoFile
        /\ temp' = temp \cup {ChunkOf[w]}
        /\ written' = written \cup {ChunkOf[w]}
  /\ Goto(w, Then("commit"))
  /\ UNCHANGED <<store, remote, media, locals>>

\* The body may go to the disk whole, or not at all; 'r+' does not create.
WriterWrite(w) ==
  /\ pc[w] = "write"
  /\ \/ /\ ChunkOf[w] \in snap[w].received
        /\ Goto(w, Then("commit"))
        /\ UNCHANGED <<temp, written>>
     \/ /\ ChunkOf[w] \notin snap[w].received /\ temp # NoFile
        /\ temp' = temp \cup {ChunkOf[w]}
        /\ written' = written \cup {ChunkOf[w]}
        /\ Goto(w, Then("commit"))
     \/ /\ ChunkOf[w] \notin snap[w].received
        /\ Goto(w, Answer("500"))
        /\ UNCHANGED <<temp, written>>
  /\ UNCHANGED <<store, remote, media, locals>>

WriterCommit(w) ==
  /\ pc[w] = "commit"
  /\ PatchAndSync(w, SetReceived(snap[w].received \cup {ChunkOf[w]}),
                  Answer("ok"), Answer("409"))

---------------------------------------------------------------------------
\* The MIME sniff of chunk 0 (writeChunk) and of the whole file (finish):
\* the recorded type, or another allowed one to record, or a refused one.
\* The refusal is thrown inside a try whose catch is empty: both carry on.

AfterSniff(r) == IF r \in Writers THEN "write" ELSE "ready"

\* Mutant of Sniff: a refused content is only complained about.
SniffShrugs(r) ==
  /\ pc[r] = "sniff"
  /\ \E verdict \in {"same", "other", "refused"} :
       /\ sniff' = [sniff EXCEPT ![r] = verdict]
       /\ Goto(r, Then(IF verdict = "other" THEN "mime" ELSE AfterSniff(r)))
  /\ UNCHANGED <<store, files, snap, pend, tries>>

Sniff(r) ==
  /\ pc[r] = "sniff"
  /\ \E verdict \in {"same", "other", "refused"} :
       /\ r \in Finishers /\ temp = NoFile => verdict = "same"
       /\ sniff' = [sniff EXCEPT ![r] = verdict]
       /\ Goto(r, Then(CASE verdict = "refused" -> "rm"
                         [] verdict = "other" -> "mime"
                         [] verdict = "same" -> AfterSniff(r)))
  /\ UNCHANGED <<store, files, snap, pend, tries>>

SniffPatch(r) ==
  /\ pc[r] = "mime"
  /\ PatchAndSync(r, SetMime, Then(AfterSniff(r)),
                  IF r \in Writers THEN Then("write") ELSE Answer("409"))

---------------------------------------------------------------------------
\* finish

\* Mutant of Complete: the last chunk is not asked for.
CompleteButLast(received) == Chunks \ {NumChunks - 1} \subseteq received

Complete(received) == received = Chunks

\* Mutant of Finishable: a session being uploaded may be finished again.
FinishableAgain(s) == s \in {"receiving", "ready-to-upload", "uploading"}

Finishable(s) == s \in {"receiving", "ready-to-upload"}

FinisherLoad(f) ==
  /\ f \in Finishers /\ pc[f] = "load" /\ Active
  /\ snap' = [snap EXCEPT ![f] = rec]
  /\ Goto(f, IF ~Complete(rec.received) THEN Answer("400")
             ELSE IF ~Finishable(rec.state) THEN Answer("409") ELSE Then("sniff"))
  /\ UNCHANGED <<store, files, pend, sniff, tries>>

MarkReady(f) ==
  /\ pc[f] = "ready"
  /\ PatchAndSync(f, SetState("ready-to-upload"), Then("prepare"), Answer("409"))

\* assertTempReady and ensureRemoteDir, each of which may fail.
Prepare(f) ==
  /\ pc[f] = "prepare"
  /\ \/ temp # NoFile /\ Just(f, Then("mark"))
     \/ Just(f, Then("error"))

MarkUploading(f) ==
  /\ pc[f] = "mark"
  /\ PatchAndSync(f, SetState("uploading"), Then("put"), Then("error"))

\* A put that has the file open survives its removal; it is then the same as
\* one that ended just before.
PutDone(f) ==
  /\ pc[f] = "put" /\ temp # NoFile
  /\ remote' = [remote EXCEPT ![f] = temp]
  /\ Goto(f, Then("discard"))
  /\ UNCHANGED <<store, temp, media, written, locals>>

\* A failed attempt leaves the old file or a truncated one; only a transient
\* failure is retried, MaxTries attempts in all.
PutFailed(f) ==
  /\ pc[f] = "put"
  /\ \E left \in {remote[f], {}} : remote' = [remote EXCEPT ![f] = left]
  /\ tries' = [tries EXCEPT ![f] = @ + 1]
  /\ \/ tries'[f] < MaxTries /\ Goto(f, Then("put"))
     \/ Goto(f, Then("error"))
  /\ UNCHANGED <<store, temp, media, written, snap, pend, sniff>>

MarkError(f) ==
  /\ pc[f] = "error"
  /\ PatchAndSync(f, SetState("error"), <<"errClean", "500">>, <<"errClean", "409">>)

ErrorClean(f) ==
  /\ pc[f] = "errClean"
  /\ IF KeepTempOnError THEN temp' = temp ELSE SafeRemoveTemp
  /\ pc' = [pc EXCEPT ![f] = "relGet"]
  /\ UNCHANGED <<store, remote, media, written, locals, result>>

Discard(f) ==
  /\ pc[f] = "discard"
  /\ SafeRemoveTemp
  /\ Goto(f, Then("uploaded"))
  /\ UNCHANGED <<store, remote, media, written, locals>>

MarkUploaded(f) ==
  /\ pc[f] = "uploaded"
  /\ PatchAndSync(f, SetState("uploaded"), Then("persist"), Answer("409"))

\* createFile: the row is written or not, and the caller may not be told.
Persist(f) ==
  /\ pc[f] = "persist"
  /\ \/ media' = media \cup {f} /\ Goto(f, <<"drop", "ok">>)
     \/ media' \in {media, media \cup {f}} /\ Goto(f, Then("rollback"))
  /\ UNCHANGED <<store, temp, remote, written, locals>>

Rollback(f) ==
  /\ pc[f] = "rollback"
  /\ remote' \in {remote, [remote EXCEPT ![f] = NoFile]}
  /\ Goto(f, Then("flag"))
  /\ UNCHANGED <<store, temp, media, written, locals>>

FlagError(f) ==
  /\ pc[f] = "flag"
  /\ PatchAndSync(f, SetState("error"), <<"drop", "500">>, <<"drop", "409">>)

Drop(f) ==
  /\ pc[f] = "drop"
  /\ rec' = Absent
  /\ pc' = [pc EXCEPT ![f] = "relGet"]
  /\ UNCHANGED <<expired, lock, files, locals, result>>

---------------------------------------------------------------------------
\* abort takes no lock.  Its two removals, in the same order, are also those
\* of a refused sniff.

AbortLoad(a) ==
  /\ a \in Aborters /\ pc[a] = "start" /\ pc[Opener] = "done"
  /\ Just(a, IF rec = Absent THEN <<"done", "400">> ELSE Then("rm"))

RemoveTemp(r) ==
  /\ pc[r] = "rm"
  /\ SafeRemoveTemp
  /\ Goto(r, Then("del"))
  /\ UNCHANGED <<store, remote, media, written, locals>>

\* Mutant of RemoveRecord: the key survives.
RemoveRecordNot(r) ==
  /\ pc[r] = "del"
  /\ Just(r, IF r \in Aborters THEN <<"done", "ok">> ELSE Then(AfterSniff(r)))

RemoveRecord(r) ==
  /\ pc[r] = "del"
  /\ rec' = Absent
  /\ Goto(r, IF r \in Aborters THEN <<"done", "ok">> ELSE Then(AfterSniff(r)))
  /\ UNCHANGED <<expired, lock, files, locals>>

---------------------------------------------------------------------------
\* The environment: time, Redis, the sweeper, crashes.

Expire ==
  /\ pc[Opener] = "done" /\ ~expired
  /\ expired' = TRUE
  /\ UNCHANGED <<rec, lock, files, locals, pc, result>>

\* The key's own TTL runs out: patchCAS rounds it to seconds, touch renews it,
\* neither keeps it in step with expiresAt.
Evict ==
  /\ rec # Absent
  /\ rec' = Absent
  /\ UNCHANGED <<expired, lock, files, locals, pc, result>>

LockExpire ==
  /\ lock # Free
  /\ SlowWork \/ pc[lock] = "crashed"
  /\ lock' = Free
  /\ UNCHANGED <<rec, expired, files, locals, pc, result>>

\* Mutant of Sweep: only files of expired sessions, not those without one.
SweepExpiredOnly ==
  /\ temp # NoFile /\ expired
  /\ temp' = NoFile
  /\ UNCHANGED <<store, remote, media, written, locals, pc, result>>

\* UploadCleanup.clean: the age limit is at least the session TTL and an hour.
\* The age of a file whose init crashed passes it too.
Sweep ==
  /\ temp # NoFile
  /\ expired \/ pc[Opener] = "crashed"
  /\ temp' = NoFile
  /\ UNCHANGED <<store, remote, media, written, locals, pc, result>>

Crash(r) ==
  /\ r \in Mortal /\ pc[r] \notin {"start", "done", "crashed"}
  /\ pc' = [pc EXCEPT ![r] = "crashed"]
  /\ pend' = [pend EXCEPT ![r] = Absent]
  /\ snap' = [snap EXCEPT ![r] = NoSnap]
  /\ tries' = [tries EXCEPT ![r] = 0]
  /\ UNCHANGED <<store, files, sniff, result>>

---------------------------------------------------------------------------
Init ==
  /\ rec = Absent /\ expired = FALSE /\ lock = Free
  /\ temp = NoFile /\ remote = [f \in Finishers |-> NoFile] /\ media = {}
  /\ pc = [r \in Requests |-> "start"]
  /\ result = [r \in Requests |-> "none"]
  /\ snap = [r \in Requests |-> NoSnap]
  /\ pend = [r \in Requests |-> Absent]
  /\ sniff = [r \in Requests |-> "none"]
  /\ tries = [r \in Requests |-> 0]
  /\ written = {}

LockStep(r) == Acquire(r) \/ LockTimeout(r) \/ ReleaseGet(r) \/ ReleaseDel(r)
SniffStep(r) == Sniff(r) \/ SniffPatch(r) \/ RemoveTemp(r) \/ RemoveRecord(r)
WriteStep(w) ==
  WriterLoad(w) \/ WriterBegin(w) \/ WriterCheck(w) \/ WriterWrite(w) \/ WriterCommit(w)
FinishStep(f) ==
  \/ FinisherLoad(f) \/ MarkReady(f) \/ Prepare(f) \/ MarkUploading(f)
  \/ PutDone(f) \/ PutFailed(f) \/ MarkError(f) \/ ErrorClean(f) \/ Discard(f)
  \/ MarkUploaded(f) \/ Persist(f) \/ Rollback(f) \/ FlagError(f) \/ Drop(f)

RequestStep(r) ==
  LockStep(r) \/ LoadInactive(r) \/ SniffStep(r) \/ WriteStep(r) \/ FinishStep(r) \/ AbortLoad(r)

Next ==
  \/ InitTemp \/ InitRecord
  \/ \E r \in Requests : RequestStep(r) \/ Crash(r)
  \/ GoneTemp \/ GoneRecord
  \/ Expire \/ Evict \/ LockExpire \/ Sweep

Spec == Init /\ [][Next]_vars

\* A live process runs its requests; clocks advance; the sweeper's timer fires.
Fairness ==
  /\ WF_vars(InitTemp \/ InitRecord) /\ \A r \in Requests : WF_vars(RequestStep(r))
  /\ WF_vars(Expire) /\ WF_vars(Evict) /\ WF_vars(LockExpire) /\ WF_vars(Sweep)

FairSpec == Spec /\ Fairness

---------------------------------------------------------------------------
\* Properties

Labels ==
  {"start", "create", "load", "begin", "check", "sniff", "mime", "rm", "del",
   "write", "commit", "ready", "prepare", "mark", "put", "error", "errClean",
   "discard", "uploaded", "persist", "rollback", "flag", "drop",
   "relGet", "relDel", "done", "crashed"}
Codes == {"none", "ok", "400", "409", "410", "422", "500"}
Verdicts == {"none", "same", "other", "refused"}
FileContent == {NoFile} \cup SUBSET Chunks

\* Every variable stays in its type.
TypeOK ==
  /\ rec \in {Absent} \cup Record /\ expired \in BOOLEAN
  /\ lock \in Lockers \cup {Free}
  /\ temp \in FileContent /\ remote \in [Finishers -> FileContent]
  /\ media \subseteq Finishers /\ written \subseteq Chunks
  /\ pc \in [Requests -> Labels] /\ result \in [Requests -> Codes]
  /\ snap \in [Requests -> Record] /\ pend \in [Requests -> {Absent} \cup Record]
  /\ sniff \in [Requests -> Verdicts] /\ tries \in [Requests -> Nat]

\* Progress never runs ahead of the disk: as long as the .part file is there,
\* it holds every chunk the record lists as received (writeChunk writes the
\* file before it patches, and patches may come from a stale snapshot).
ReceivedOnDisk == rec # Absent /\ temp # NoFile => rec.received \subseteq temp

\* A chunk whose writeChunk was answered with success stays in the record for
\* as long as the record lives, whatever requests overlap (lost update).
AcknowledgedStays ==
  \A w \in Writers : result[w] = "ok" /\ rec # Absent => ChunkOf[w] \in rec.received

\* A session is published at most once: however many finish requests overlap
\* after the lock's TTL ran out, the File table gets at most one row.
AtMostOneRow == \A f, g \in media : f = g

\* A finish answered with success left a row whose remote file has every chunk,
\* and nothing later takes that file away or truncates it.
FinishedIsStored ==
  \A f \in Finishers : result[f] = "ok" => f \in media /\ remote[f] = Chunks

\* What the sniff refused is never acknowledged or published, although the
\* exception thrown for it is swallowed by the empty catch around it.
RefusedNeverPublished ==
  \A r \in Lockers : sniff[r] = "refused" =>
    /\ result[r] # "ok"
    /\ r \in Finishers => remote[r] = NoFile /\ r \notin media

\* The record's state only moves along the lifecycle of the session, even when
\* two requests believe they hold the lock.
LifecycleStep(s, t) ==
  \/ s = "init" /\ t = "receiving"
  \/ s = "receiving" /\ t = "ready-to-upload"
  \/ s = "ready-to-upload" /\ t \in {"ready-to-upload", "uploading", "error"}
  \/ s = "uploading" /\ t \in {"uploaded", "error"}
  \/ s = "uploaded" /\ t = "error"

Lifecycle ==
  [][rec # Absent /\ rec' # Absent /\ rec'.state # rec.state
       => LifecycleStep(rec.state, rec'.state)]_rec

\* A deleted or expired session does not come back: no late patch re-creates
\* the key that abort, finish or the TTL removed.
NoResurrection == [][pc[Opener] = "done" /\ rec = Absent => rec' = Absent]_rec

\* An answered abort is final: a finish that has not passed its last patch by
\* then never gets to write a row.
AbortIsFinal ==
  [][\A f \in Finishers : pc[f] # "persist" /\ pc'[f] = "persist"
       => \A a \in Aborters : result[a] # "ok"]_pc

\* What the spec file of the service expects of a first chunk whose content is
\* refused: the request is answered 400.
RefusedChunkIs400 ==
  \A w \in Writers : sniff[w] = "refused" /\ result[w] # "none" => result[w] = "400"

\* "release lock only if we still own it": when a request sends its DEL, the
\* lock is its own, or nobody's.
OwnLockReleased == \A r \in Lockers : pc[r] = "relDel" => lock \in {r, Free}

\* The session of the store as those who use it see it.
Phase ==
  IF rec = Absent THEN IF pc[Opener] = "done" THEN "over" ELSE "new"
  ELSE CASE rec.state = "uploaded" -> "uploaded" [] rec.state = "error" -> "over" [] OTHER -> "open"

Told(sort) == {r \in sort : result[r] = "ok"}

\* The session keeps its contract: whatever requests overlap, time out or are
\* answered late, each step of the service is one that a session which is opened
\* once, won once and over for good may take.
Contract == INSTANCE UploadContract
              WITH phase <- Phase, stored <- written,
                   accepted <- {ChunkOf[w] : w \in Told(Writers)},
                   winning <- {f \in Finishers : pc[f] = "persist"}, rows <- media,
                   told <- Told(Finishers), aborted <- Told(Aborters) # {}
KeepsContract == Contract!Spec

\* The disk is given back: the .part file is gone for good in the end, also
\* when the process that created it crashed before it wrote the record.
TempRemoved == <>[](temp = NoFile)
=============================================================================
