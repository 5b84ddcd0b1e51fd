# Verification of the Negare API

TLA+ models of the API server under `apps/api/src`, checked with TLC and proved about with TLAPS.
The server is a NestJS application: HTTP handlers run concurrently in one or more Node.js
processes, each `await` lets other requests run, and all state is in Redis, Postgres, the local disk
and an FTP server. What is hard about it is exactly what the models are about: two requests between
whose awaits a third one acts, a lock or key whose TTL ends too early, a command that fails after
its effect, a process that dies between two writes.

`PROJECT.json` is the machine-readable side: components, runs, mutants, the map from definitions to
source lines, hazards, findings and theorems.

## 1. Inventory

| Component | State it keeps | Operations | Model |
|---|---|---|---|
| Upload sessions (`core/upload/upload.service.ts`, `upload.controller.ts`, `upload.cleanup.ts`, `core/media`) | record in Redis, `.part` file on disk, file on the FTP server, `File` row | init, writeChunk, finish, abort, status; the sweeper | `UploadSession`, `UploadContract` |
| Upload state store (`upload.state.redis.ts`, `upload.types.ts`) | record with a version, lock key | create, get, patchCAS, delete, touch, withLock | `UploadStore`, `CasRegister` |
| FTP storage driver (`storage.ftp.ts`) | remote files | ensureDir, uploadFile, delete, retries | in `UploadSession` |
| Upload gateway (`upload.gateway.ts`) | socket rooms, join cooldown | join, leave, progress | - |
| Refresh tokens and sessions (`refresh.service.ts`, `session.service.ts`, `auth.controller.ts`) | allow-list, blacklist, session records, index set, recency set, tokens of a session | login, refresh, logout, revoke, revokeAll, touch, list | `AuthSession`, `TokenFamily` |
| Tokens (`token.service.ts`) | blacklist, one-time tokens | sign, verify, blacklist | blacklist in `AuthSession` |
| OTP (`otp.service.ts`, `otp-rate-limit.service.ts`) | hash of the active code, block key, buckets, tickets | request, resend, verify | `OtpTicket` |
| Password (`password.service.ts`) | ticket, user row, login throttle | setPassword, login, changePassword | `SignIn`; the ticket in `OtpTicket` |
| Likes, bookmarks, downloads, views (`catalog/likes`, `bookmarks`, `downloads`, `product`) | rows and denormalised counters | toggle, remove, start, registerDownload, incrementView; create, update, archive | `ProductCounts`; create, update and archive in `CatalogTree` |
| Counters (`catalog/counters`) | counters in Redis | bump, flushBatch | `ProductCounts` |
| Category tree, tags (`catalog/categories`, `tags`) | `parentId` of the categories, links to products | create, update, remove, breadcrumbs | `CatalogTree` |
| Products (`catalog/product`) | product, author and label rows | create, update, remove (archive), list | `CatalogTree`, `Listing` |
| Lists with a cursor (products, likes, bookmarks, downloads, users) | none; the client holds the cursor | one page per request | `Listing` |
| Users, profile, roles (`core/users`, `core/roles`) | user rows, user names, roles | create, update, rename | `SignIn`; roles - |
| Refresh rate limit (`refresh-rate-limit.service.ts`) | a counter with a window | consume | `SignIn` |
| Guards, `AuthService` | none | check a request | - (stateless; no controller uses `AuthService`) |
| Mail, SMS, notifications, health, configuration, Prisma and Redis modules, pipes, storage adapters | none of their own | send, read, convert | not modelled: I/O and wiring |

**Interactions.** `UploadController` calls `UploadService`, which reads a snapshot of the record,
works under `withLock`, and writes every change back with `patchCAS`; `finish` sends the `.part` file to
the FTP server and creates the row through `MediaService`; the sweeper removes `.part` files by age, on a
timer of its own, without the lock. `AuthController` composes `RefreshService`, `SessionService` and
`TokenService`; the three share keys of one session but no transaction. `OtpService` hands out a ticket
that `PasswordService.setPassword` consumes. `PasswordService`, `ProfileService` and `UsersService` write
the same user rows under two unique indexes. `ProductService`, `CategoriesService` and `TagsService`
meet in the link rows of a product, where one deletes what the other inserts. `DownloadsService` counts through `CountersService`.

**What makes each of them correct.**
- Uploads: one row per session; an acknowledged chunk is not lost; an acknowledged finish means a
  complete remote file; an aborted or expired session stays gone; temporary files go away.
- Store: a patch is applied only to the version it was made for; a deleted key stays deleted; a
  lock is released only by its owner.
- Sessions: a refresh token is used once; a session has one live token; nobody is signed out by
  his own concurrent requests; a live token can be found by whoever revokes the session; what has been replaced
  or taken away never lives again.
- OTP: a window admits no more than its limit; a code is not guessed more often than allowed; a used
  code or ticket stays used.
- Catalog: counters equal rows; answers of toggles alternate; no download is lost between Redis
  and Postgres; cycles of categories come from nowhere but two known places; a product gets no more
  authors than its limit, but for updates that overlap; "Load more" neither repeats nor skips a row.
- Users: a login is answered by what was true while it ran; a used ticket fails over nothing but a
  taken name; a window of a counter bounds what it lets through, and ends.

## 2. Plan

Done, in this order:
1. `UploadSession`, `UploadStore`, `CasRegister` and their proofs: the core, and the part of the system
   with the most hazards; then `UploadContract`, what a session promises its clients, which `UploadSession`
   implements, and what the lock alone gives a session whose WATCHes are lost.
2. `AuthSession` and the proofs of all its invariants; then `TokenFamily`, what the refresh tokens of a session promise,
   which `AuthSession` implements.
3. `OtpTicket` and its proofs.
4. `ProductCounts` and the proofs of likes, toggles and the ledger of downloads.
5. `CatalogTree`: categories, tags, and the authors and labels of products, in one model because the
   transactions of the three services wait for each other's rows; and its proofs.
6. `Listing`: the five lists that are read in pages; and its proofs.
7. `SignIn`: user rows, the login throttle, the refresh rate limit; and its proofs.

Left, in the order of use:
- a composition of `UploadStore` with `UploadSession`, in which the steps of the service are those of the
  command level (today the link is the constant `WatchLost`, see below);
- an abstract specification for one-time codes like those of uploads and sessions: a code that is guessed a bounded
  number of times, a ticket that is redeemed once;
- views and likes through the Redis counter, if they get callers, and roles, if they get a rule that
  takes two statements.

## 3. The models

Conventions: a request is a process and is used once (a client's retry is a further request); an
`await` ends a step; a MULTI, a pipeline or a Prisma `$transaction` is one step. `pc` names the await a
request is at, after the method or the call that follows. `result`, `answer` or a final value of `pc`
is what the client is told. Environment steps are actions of their own: expiry of keys, crashes,
failing commands, the sweeper. History variables are marked as such where they are declared and
guard nothing.

### UploadSession
One session with any set of chunk, finish and abort requests. `rec` is the record in Redis (state, received
chunks, version), `temp` the set of chunks in the `.part` file, `remote` one file per finish (the path
has a random part), `media` the rows. `snap` is the status object a method holds in memory:
the code merges each patch into it without re-reading, so it may be stale, and the model keeps it.
`PatchAndSync` is `patch`/`patchAndSync`: success moves on, a conflict becomes the answer 409 or the
error path of the method. `Sniff` .. `RemoveRecord` are the MIME check of the first chunk, whose exception the
empty catch at `upload.service.ts:248` swallows. Every removal of the `.part` file may fail unnoticed (`SafeRemoveTemp`). `Prepare` .. `Drop` follow `finish` line by line.
Abstractions: chunk contents are their numbers, the sniff's verdict is any of same, other or refused,
validation of sizes and names is left out (it has no state).

Constants select what may go wrong: `SlowWork` lets the lock's TTL (15 to 120 s) end while its
owner works; `WatchLost` splits compare and write of a patch into two steps and lets the second
overwrite what happened in between, which is what `UploadStore` shows of a shared connection;
`Mortal` are the requests whose process may die; `KeepTempOnError` is the configuration flag.

### UploadContract
The session as its clients see it, with none of the means: no lock, no version, no snapshot. It is opened once;
a chunk is accepted while the session is open and after it is stored; one finish wins, when every chunk
is stored, and that one may write the row; an error, an abort or the expiry ends the session for good, and an abort
cannot be undone by a finish that was already under way. `KeepsContract` in `UploadSession` is the mapping. The phase
comes from the record's state and from whether `init` is done; `accepted`, `told` and `aborted` are the answers of the
requests; a finish is the winner while it is at `persist`, the one place from which it writes the row; the rows are `media`.
Most steps of the service (locks, loads, sniffs, uploads, failing patches) are stutters of it. It is the contract of a
store whose WATCH stands: with `WatchLost` a patch may open a session again that was over.

### UploadStore and CasRegister
`UploadStore` is `RedisUploadStateStore` command by command (WATCH, GET and TTL, MULTI/SET/EXEC,
UNWATCH) on connections that clients may share; Redis keeps the watched keys per connection.
`CasRegister` is the interface in `upload.types.ts`: an atomic compare-and-set. `ImplementsCas` is the
refinement (a patch takes effect at its EXEC or at its failed compare).

### AuthSession
The sessions of one user, their refresh tokens and the requests that touch them. A session is named by
its login, a token by the request that minted it. `Consume` is the DEL of the allow-list whose result decides a
race of two refreshes. After it come the blacklist, the unlink, the user's roles, the new token and the
link, each a step that may fail with or without its effect. The reads of a pipeline fail one by one and unnoticed (`Losable`): `list` then takes a session
for a missing one and drops it from the index, and `revokeAll` a session's tokens for none. `ended`, `mishap` and `lapsed` are history: sessions
somebody began to end, sessions hit by a failure or an expiry, sessions whose record has expired.

### TokenFamily
The sessions as those who use them see them, with no allow-list, no blacklist and no GETDEL. The tokens of a session are a
family: the login brings the first (`Open`), a refresh replaces the one that holds the session by a new one (`Rotate`), which only
who was given the holder can do; a request that fails spoils its own token (`Spoil`) and no other; a session is left without a
holder only for a reason. `KeepsFamily` in `AuthSession` is the mapping: a token joins the
family when the fate of its request is decided (`Create`, `Consume`, or the step that refuses it), the holder is `Holders`,
the reasons are `mishap` and `ended`. `Rotate` is the step `Consume` that finds its token; storing the new one, blacklist,
unlink, touch and list are stutters, or excuses. `Promise` and `StaysOut` say what follows from the contract alone.

### OtpTicket
One identifier, channel and purpose. `active` is the Redis hash: the code, its attempts, whether `exp`
and `resendAt` are in the future. HINCRBY on an expired hash creates one with `attempts` alone and no TTL:
`NoHash` with a count. `Hit` and `ExpireHit` are INCR and EXPIRE of a bucket; the bucket of
the client address, shared with other identifiers, is a refusal at any time. `Redeem` is the
GETDEL of a ticket; whatever fails after it, the ticket is used. The two writes to the user's row follow
the read (`FindUser`) as the code's insert or update.

### ProductCounts
Likes, bookmarks, views and downloads of products, and the download counter in Redis. A toggle reads
first (`FindMark`) and then runs one of two transactions, which Postgres rolls back when the row to delete is
missing, the row to create exists, or the product does not: `Fail`. A download is bumped (`Bump`, in
Redis or, without `REDIS_URL`, in the row) before its row is created (`Create`). `ScanPage` .. `Deduct`
are `flushBatch`: pages of SCAN with an MGET each (SCAN may hand out a key twice), the transaction,
the DECRBYs. No scheduler calls `flushBatch` in this repository yet, so the model lets it run, overlap
and die at any time. The `likes` and `views` kinds of the counter are never bumped and left out.

### CatalogTree
Postgres at READ COMMITTED: what a transaction has written is invisible until it commits, and a row it
has changed makes other writers wait. So a transaction of several statements keeps what it has deleted or moved in
`mem` (`seen`, `kids`) and applies it at its last step (`Commit`, `Delete`); `Free`, `Movable` and
`Referenced` are the row locks and the foreign keys in between. A deadlock, which Postgres ends by an error,
and any other failure is `Fail`: everything is rolled back. `FindNode`, `Relink`, `Delete` are `remove` of
categories.service.ts (the parent is read before the transaction begins); `Walk` is one turn of the
loop of `breadcrumbs`; `StartUpdate` .. `Commit` are `update` of product.service.ts: check of the actor and of the number
of authors, `deleteMany` of the authors, of labels that are not wanted any more, the lookup of those
that are there, the inserts. Categories and tags of a product are replaced by the same code one after the
other; a request of the model replaces at most one of the two. `rows` carries which request wrote a row,
because two links that are equal are two rows in time. `late` is history: updates that committed over authors
they had not seen.

### Listing
One client reads a list in pages, and others change it. A page is any set of rows that `orderBy` and `take`
allow, so the model states the order (`Precedes`) and the filter of the cursor (`Follows`) apart, as the query does:
that the two agree is what is to be shown. Creation times and counters are `first`, `second` is the
likes by which *popular* is ordered after the downloads. The query of the users is another one: it has a search, no filter
of the cursor, and starts at the id of the cursor with one row skipped (`users.service.ts:46`), whichever row the search finds there
first (`Skipped`). A user enters and leaves the search by a change of name or email (`Insert`, `Remove`). Rows of every list but the downloads
may be taken away; creation times are those of the requests and not of their commits, so that a new row may
come to lie anywhere. `steady` is history: rows that have been in the list, with one key, since the first page; `left` is history: users
that left the search while the client's cursor was theirs.

### SignIn
User rows with name, contact and password hash, under the unique indexes, and all who write them: the upsert of
`setPassword` with its search for a free name and its handling of P2002, `changePassword`, the change of a user name, and the
administrator's create and update. `login` counts, finds the user, compares, and clears or counts again; its 429 is thrown
where a catch swallows it, so no step is refused. Whom it finds is decided by the shape of what it was given: `splitIdentifier`
is a constant function from names and contacts to the one contact or name that is looked for, and `idn` is what the logins of a behaviour are
made with. So a name that is read as a phone (`ali98` as `+98`), a phone that is read in another form than the one it is stored in, and a name that is
another user's contact when it is read are all among its values. The two counters in Redis are one window each. `right` is history: what the
comparison would have said at each moment of a request of the user it looks for. A password is the one thing its hash matches; without a user
or a hash `Dummy` is compared, which is no password that `LoginDto` lets through.

## 4. What TLC checks

| Run | Instance | Shows |
|---|---|---|
| `UploadPublish` | 1 chunk, 1 writer, 2 finishes, 1 abort; the lock may be lost | types; one row, the life of a session is ordered, removed records and answered aborts are final; every step is one of the contract or a stutter |
| `UploadChunks` | 2 chunks, 3 writers (two of the same chunk), 1 abort; the lock may be lost | the record never runs ahead of the disk; acknowledged chunks stay |
| `UploadReclaim` | 1 chunk, a writer of it and one out of range, 1 finish with a retry, 1 abort; WATCH may be lost, processes die; fair | acknowledged finishes are stored, refused content is not published, the latter by the lock alone; the `.part` file is removed in the end |
| `StoreOwnConn` | 3 patches of one session, a second session beside it, own connections | `patchCAS` implements the atomic compare-and-set; no lost update |
| `StoreSharedConn` | violation | with one connection per process, as in `upload.module.ts`, a patch re-creates a deleted session |
| `AuthRotate` | 1 login, 3 refreshes, 2 callers, failures | single use, one live token, nobody signed out by overlap, live tokens and their sessions findable, what is taken away stays away; every step is one of the token family or a stutter |
| `OtpCodes` | 2 requests, 2 verifications, 2 set-passwords, limits 1 | windows and when one has no end, guesses, codes and tickets |
| `CatalogCounts` | 2 users, 1 product and an unknown id, 3 requests, 2 flushes of up to 2 pages | counters equal rows, toggles alternate, downloads are conserved |
| `CatalogTree` | any forest of 2 or 3 categories, a tag, a product with up to one link, limit of 1 author; any 3 of: a removal, a change of the tree, a walk, two edits | types and references, where cycles come from, walks end in a tree, how far authors exceed their limit |
| `ProductList` | each list, up to 3 rows, pages of 1 or 2, counters 0 and 1; fair | a row that keeps its place is shown exactly once, but for one user at most each time the cursor's user leaves the search; the list ends |
| `SignIn` | up to 2 users, 2 names, 2 contacts, 2 passwords, limits 1; any 3 of: 2 logins, 2 set-passwords, a change of password, a rename, an administrator; or 3 refreshes; logins by a name, or by one that is read as the second user's phone; fair | logins answer, for the user they look for, as of a moment, a set-password fails only over a taken name, the window's bound, windows end |
| `LoginThrottled` | violation; 2 logins, limit 1 | the throttle of login refuses nothing |

**Why these bounds.** Every race found while reading is one of two requests of a kind plus one that ends
what they work on; the instances have at least those. A third request of the same kind is there where two
could be symmetric by accident (writers, refreshes, store clients). One chunk is enough where the
property is about states of the record; two where it is about the set of chunks. Attempts and
limits are 1 in `OtpCodes` so that the boundary is reached by the second request; the theorems cover all
values. In `CatalogTree` a cycle needs a moved and a removed category or two, and a third that lies between them;
an excess of authors needs two updates, and the rows of one of them need a removal to meet. Three rows in pages of one or two are
the least in which a tie lies at the end of a page, within it, and across it. In `SignIn` two set-passwords race for
one contact or for the first candidate of both contacts, with an administrator who takes the name; a change of password and a rename act under a login;
the name that is read as a phone belongs to one user and the phone to the other, whom a set-password makes.
`MaxMade` (three requests of those named) bounds both, and requests of one kind are made in order. `MaxCount` and `MaxLimit` bound
counters and pages in `ProductList`. Two flushes of two pages reach a negative Redis counter (a key read twice) that the other
flush then reads. `MaxPages` and `MaxTries` are the only bounds that cut behaviour, `version` and
the counters are bounded by the number of requests. `CHECK_DEADLOCK FALSE` is set because
requests end: a state in which all are answered is final.

The types of `UploadStore` and `Listing` are theorems and not checked by a run; all other modules' are both.

**Symmetry** is used only in runs of safety properties, over requests of one kind and users.

**Fairness.** In `UploadReclaim`: weak fairness of each request's next step: Node runs a pending
continuation, the wait for the lock and the FTP client have a timeout, and Redis is assumed to answer in the end
(`maxRetriesPerRequest` is null, so a command waits for it rather than fail). Of expiry: clocks advance, Redis removes expired keys. Of the sweeper: `onModuleInit`
sets an interval. None is assumed of crashed requests or of clients: nobody has to finish or abort.
In `CatalogTree`: a walk that has started reads on; nothing is assumed of those who move categories, and that
the walk ends is claimed only if the tree is a forest from some time on. In `ProductList`: a client that asks on, since the property is about such a
client. In `SignIn`: Redis ends a window whose TTL is set, and a login or refresh that has counted goes on to its next
command, unless the process dies, which remains possible.
`TempRemoved` needs the sweeper precisely when `init` failed or died between file and record, a removal failed, or `KeepTempOnError` is set.

**Mutants.** Each property has a plausible bug that breaks it (`MergeSpreads`, `DeductDel`, ...), placed
before the definition it mutates and used nowhere else.

## 5. What is proved

For every value of the constants (any number of requests, chunks, clients, connections, users, limits).
Assumptions are the named `ASSUME` of each module: sorts of requests are disjoint, sentinels are not
data, limits are positive, and (`ProductCounts`) users, calls and flushes are finite, as what a process has ever received is.

- `UploadStoreProofs`: types; and, with a connection per client, `GoneForGood`, `StoreImplementsCas`,
  `NothingLost`. The invariant says that while a client is between GET and EXEC and its connection
  is not dirty, the key still holds what it read; it needs that nobody else's EXEC or UNWATCH clears the mark, which
  is the connection of its own. `NothingLost` also holds on any connections if the lock excludes.
- `UploadSessionProofs`: types, `ProgressBacked`, `FinishStored`, in every mode, with lost WATCHes,
  lost locks and crashes. `ReceivedOnDisk` is not inductive: snapshots and pending patches are written
  back later, so `DInv` bounds them, like the record, by the chunks ever written, and says that a file
  that is there holds all of these. `FinishStored` follows a finish from its complete
  snapshot to its row.
  With `~WatchLost`: `KInv` (no pending write, the opener first) gives
  `StaysRemoved`; `AInv` (after an abort's DEL the record is gone) gives `AbortFinal`; `RInv` follows the
  verdict of the sniff and gives `RefusedIsLost`; `VInv` (a snapshot of the current version has the
  current state) gives `LifeOrdered`; `OInv` (of the finishes past their last patch there is one)
  gives `PublishedOnce`; `WInv` gives `ChunksKept`. That `AtMostOneRow` needs the version and not the lock
  is what the proofs add to the run: the lock may expire at any time in all of them.
  `ContractKept` is the refinement: with `CInv` (the above, and `Answered`: who has an answer takes no further step
  that the contract sees) each action is a step of the contract or a stutter. Five actions are steps
  (`Seen`); of all others `OwnQuiet` says that they change nothing the contract sees but the phase, and `PhaseStep`
  that they only end the session. `MarkUploaded` is the win, and that there is no second one is
  `OnePast`. `PromiseKept` proves `Promise` of the contract once and carries it over to the service.
- `UploadSessionProofs`, last part: with `~SlowWork`, whatever happens to the WATCHes. This is the case of the
  repository's own wiring (one connection, see section 6) when uploads are quick, and there the version
  protects nothing. `LInv` says who may be inside the lock (`Guards`: only its owner, and
  an abort, which takes none) and that the one inside has a snapshot, and a patch under way, equal to the record unless
  the record was removed (`Mirrors`). So a patch either starts from the record (`LockedPatch`), or brings a removed one back as it
  was. `LockedLife`, `LockedOnce`, `LockedChunks` and `LockedRefused` are the properties that survive this. One
  row and kept chunks rest on `Carried`: a set of records that is closed under patches (those that have ended, those with a
  given chunk) and holds the record and the snapshot inside holds them after every step, whoever removes or resurrects
  the record. A refusal rests on the refusing request having no patch under way that could bring back what it removed
  (`Unpatched`). `NoResurrection`,
  `AbortIsFinal` and the contract do not survive it. `LockedRelease`: the owner check of the release, two commands apart
  from its DEL, is sound as long as the TTL is not outlasted.
- `OtpTicketProofs`: types; `WindowHolds` (admitted requests never exceed the counter while the key
  lives, and by `DInv` a counter without a TTL is on the way to one, or `stuck` names it: a request died between INCR and EXPIRE); `GuessesHold` (guesses of a code are bounded by the attempts in its hash, and a code not yet issued has
  none); `SpentHolds` (a spent code is neither active nor yet to be issued, so a late verification never
  reads it); `TicketHolds` (whoever is past the GETDEL holds a ticket that is gone).
- `ProductCountsProofs`: types and `LikesHold` together, because `likesCount` stays a natural number only
  as long as it is the number of rows; `TogglesHold`, with the invariant that a call that has answered is over.
  `LedgerHolds`: the row and the counter in Redis together are the downloads, plus those that are counted before their row
  exists, plus what each flush has added to the row and not yet deducted in Redis. With the types it is inductive as it stands; the work is the sum over
  the flushes. It is an induction over finite sets, done without the library's induction theorem
  (whose operator parameter the provers cannot instantiate): the set of sizes for which the
  lemma fails would have a least element.
- `SignInProofs`: types, `LoginsAnswered`, `NameRace`, `RefreshesBounded` and `KeysExcused`, by one invariant `IInv`. What a request holds in memory depends
  on where it is (`Placed`), and all writers of rows write what the indexes allow (`Allowed`), so that `WriteKeeps`
  is proved once for all of them. `Decided`: the hash a login has read was the user's at a moment of the login, which
  every later write keeps on record. `Owned`: a `setPassword` that looks again after P2002, or gives up, has met an owner of the name.
  What `splitIdentifier` does is left open: a login is answered for whom it looks for, whoever that is. `ReadAsItIs` adds that
  what it leaves as it is finds the user who has it.
  `Counted`: the counter is at least the number of those let through in its window. `NoTtlExcused` is the safety part of `WindowsEnd`: a key
  without a TTL was left by a crash, a failed command or a late failure, or the request that sets it is under way.
- `AuthSessionProofs`: types, `SingleUse`, `OneHolder`, `SignedInStays`, `Findable`, for any number of sessions,
  requests and failures. A session is held by its live token or by the request about to store the next one
  (`Holders`); only `Consume` and `SetAllow` hand it on, and `HoldersKept` says what any other step must
  leave alone. The strengthening is where tokens come from: a token's session is fixed when its request starts
  (`Minted`), a token is given out only by a request that is over and lives only from its SET on (`Alive`), what a
  logout or a revoke is about to delete belongs to sessions that `ended` names (`Ending`), and the list of a session names only its own tokens (`Linked`).
  That `revokeAll` finds the session needs `Known`: a session without a reason has its record and its place in the index, and is
  in no list of those a `list` is about to drop, although that list was read a step before. `TakenIsOut` needs `Settled`: the request of a
  token that is linked, or that a caller has read, is over, so that no SET of it is to come.
  `FamilyKept` is the refinement: each action's lemma says what it does to the holders (`Opened`, `Handed`, `Shrinks`, or nothing), and a
  step that only shrinks them is an `End`, or a `Spoil` when it decides the fate of a token; `FamilyPromises` proves `Promise` and
  `StaysOut` of the contract once, and so of the sessions: a replaced token, whoever presents it and whatever fails, holds nothing again.
- `CatalogTreeProofs`: types and references; `CyclesComeFrom`, for trees of any size: a set of categories none of which
  has its parent outside (`Trapped`) after a step is, less the new category, or less what lies below the moved one, or with the
  removed one, such a set before it, unless the step is one of the two excepted. It needs `KidsStay`: the children
  a removal has locked are still the node's when it commits. `AuthorsBounded`: with a list that is
  checked when an update starts and kept in memory, each commit that finds authors it has not deleted adds at most
  `MaxAuthors` and is the one step that adds to `late`.
- `ListingProofs`: types and `SteadyListedOnce`. The invariant is that the client has seen no steady row that follows its cursor, and,
  in every list but the users', all that do not (`Place`); it needs that `Follows` orders steady rows as `Precedes` does (`Ordered`), which for *popular* is
  true only of rows whose download count no other row has. Of the users, the steady ones above the cursor that were not shown are at most as many
  as `left` has (`Paid`): the row that a page skips is the cursor's own unless that user has left. `EveryRowListed` is the full promise
  (`EveryRowFollows`) for all lists but the users'.

Only model-checked: the liveness properties (`TempRemoved`, `WalksEnd`, `ListingEnds`, `WindowsEnd`). Liveness under
fairness is out of the prover's reach. Every invariant and every action property of a passing run is a theorem.

## 6. What the code does otherwise than it says

Shown by a run (`findings` in `PROJECT.json`):
- `StoreSharedConn`: `upload.types.ts:109` promises a patch only at the expected version; all calls of a process share one
  connection, and another call's UNWATCH drops the WATCH.
- `LoginThrottled`: `AUTH_AUDIT.md:37` says login throttles; the exception is thrown in the try whose catch ignores
  every error (`password.service.ts:303`).

Stated in the modules beside the properties, and false of the model when all that may fail does:
- `RevokedIsOut` (`AuthSession`): `session.service.ts` says a revoke also deletes the allow-list; a token
  that is minted while the revoke runs stays live. `TakenStaysOut` is what holds instead: the tokens that the revoke has read are out for good.
- `LogoutEndsSession` (`AuthSession`): the root `README.md` says a logout tears down the session; it leaves the record.
- `OwnLockReleased` and `RefusedChunkIs400` (`UploadSession`): the release of a lock deletes whichever lock is there after a GET
  that saw its own, if the TTL ends in between (`LockedRelease` proves that nothing else does it); a refused first chunk is answered 500, because the catch at `upload.service.ts:248` swallows the 400 and the patch
  that follows finds no record.
- `AtMostMaxAuthors` (`CatalogTree`): "A product can have at most 3 authors" (`product.service.ts:91`, `:158`,
  `schema.prisma:441`); two updates that overlap leave the authors of both. `AuthorsBounded` is what holds instead.

- `EveryRowFollows` (`Listing`): `users.service.ts:29` says the record after the cursor is returned. With a search it need not be: users 1 and 2
  match, a page of one shows user 2, user 2 is renamed out of the search (`profile.service.ts:214`, `users.service.ts:116`), and the next page skips user 1 in the place
  of the cursor's user and ends the list. `SteadyListedOnce` is what holds instead: one user for each such change at most, and none twice.
- `NameIsFound` (`SignIn`): `auth.controller.ts:194` promises login by email, phone or user name. A name whose digits begin with 98 or are a mobile
  number (`ali98`, `user_9123456789`) is legal, but `password.service.ts:106` makes a phone of it, and only the phone is looked for: the right password is
  refused, always. `generateUsername` makes such names itself, of a phone's digits: the first is read as
  that very phone, one with a number appended as another. In the same way a contact that an administrator stores in
  another form than the one `splitIdentifier` gives is never found. `ReadAsItIs` proves that every other name and contact is found, and
  `AnsweredAtAMoment` is about whom a login looks for.

Read in the code while modelling:
- `categories.service.ts:42` sets any parent: the tree may get a cycle, and the breadcrumbs of its categories then never end (`CyclesComeFrom`,
  `WalksEnd` are stated so as to say when). `categories.service.ts:151` says children move to the node's own parent; it is
  the parent read before the transaction. Children that come after the relinking become roots by the foreign key.
  Removing a parent and its child at once may deadlock; Postgres ends one of them with a 500.
- The list *popular* is ordered by downloads, then likes, then id (`product.service.ts:325`), but its cursor carries downloads and id only (`:392`): rows
  with equally many downloads may be repeated or left out. `Steady` excludes these rows and no others.
- `password.service.ts:91` says the dummy hash is the hash of "dummy". If it is, a user without a password (`:355` asks for no hash) would be let in
  with it, but for `LoginDto`, whose passwords have eight characters at least: this is the assumption `DummyIsNoPassword` of `SignIn`.
  It is all that stands there; a `DUMMY_BCRYPT_HASH` of the configuration that is the hash of a longer word would open these users.
- `UsersService.create` stores a SHA-256 digest where login compares with bcrypt: such a user cannot log in until a
  password is set. In the model its hash is `Unusable`.
- `resendOtp` without an active code counts against the request bucket a second time, other than
  `dto/otp/otp-resend.dto.ts:16` says, and resends that overlap do not see each other's cooldown.
- A refresh does not touch the session (renew the TTL of its record), which `AUTH_AUDIT.md:27` says it does; `list` then
  drops the id of an expired record from the index, and `revokeAll` does not find its live token. Until the record expires
  it does (`Findable`).
- The failure of a login is counted a second time (`password.service.ts:365`); on a key whose window ended during the
  comparison the count has no TTL and stays. `WindowsEnd` names the key in `loose` then.

## 7. What is not modelled

- Redis commands that fail in the upload service other than by a crash, and commands that ioredis sends
  again after a reconnect (an INCRBY may then be applied twice): external.
- The clock of the lock and of the TTLs: they may end at any time (`SlowWork`), not in a given order.
- The gateway and its progress messages (best effort, read by nobody), content of codes, tokens, chunks and files,
  JWT signatures, cookies, origin checks, guards and role lists: no state, or no property depends on it.
- The reverse index from a token to its session, which only `AuthService` reads; roles, other fields of a profile and
  changes of a contact: single statements under unique indexes.
- Titles, slugs, prices and files of products, the price policy, and the order of a list by name. Creation times are
  compared at the resolution at which Prisma writes them (ms), so that a cursor names the row's own time.
- The letters of names, numbers and addresses: `splitIdentifier` is any function, and a contact is a value that is stored as it was
  given. Other writers' normalisation (`setPassword`, OTP) is not modelled.
- The pipelines of `SessionService`, each one step: their reads may fail one by one (`Losable`), their writes take effect together. No
  property tells the orders of the deletions of one `revoke` apart, since the token list was read before.
- In `update` of a product the read of the product and the check of the actor are one step: the first asks only whether the
  product exists, and products are archived and never deleted, so that the second decides.
- The tags of a product beside its categories in one update (the same statements once more), and transactions
  that Postgres would run again: it runs none at this isolation level.
- Mail, SMS, notifications, configuration, health and wiring: I/O without state.
