--------------------------- MODULE ProductCounts ---------------------------
(***************************************************************************)
(* The counts of a product (apps/api/src/catalog): likes, bookmarks, views *)
(* and downloads, their rows in Postgres, the denormalised counters beside *)
(* them, and the download counter that CountersService keeps in Redis and  *)
(* flushes into the product row.                                           *)
(*                                                                         *)
(* A Prisma $transaction is one step: Postgres locks the rows it writes,   *)
(* and all of it is rolled back when a row to delete is missing (P2025), a *)
(* row to create exists (P2002) or a referenced product does not (P2025).  *)
(* What a service read before the transaction may be stale inside it.      *)
(* Each call, and each run of flushBatch, happens once.                    *)
(***************************************************************************)
EXTENDS Integers, FiniteSets, Functions

CONSTANTS
  Users,      \* ids of signed-in users
  Products,   \* ids of the product rows (archived, never deleted)
  Ids,        \* ids a request may name
  Calls,      \* requests to the catalog
  Flushes,    \* runs of CountersService.flushBatch
  MaxPages,   \* bound: SCAN pages of one run
  None        \* no request made yet

VARIABLES
  marks,       \* marks["like"], marks["bookmark"]: rows <<user, product>>
  likesCount,  \* products.likesCount
  views,       \* number of product_views rows of a product
  viewsCount,
  downloads,   \* number of product_downloads rows of a product
  downloadsCount,
  redis,       \* whether REDIS_URL is configured
  cached,      \* cnt:product:{id}:downloads
  pc, op,      \* progress of a call, and what it asks for
  seen,        \* what the findUnique of a toggle found
  ans,         \* what a call did to its mark, as it answers it
  fpc, got,    \* progress of a flush, and the sum of the values it read
  scanned, pages

counts == <<marks, likesCount, views, viewsCount>>
stock == <<downloads, downloadsCount, cached>>
calls == <<pc, op, seen, ans>>
flushes == <<fpc, got, scanned, pages>>
vars == <<counts, stock, redis, calls, flushes>>

Kinds == {"like", "bookmark"}
Ops == [kind : Kinds \cup {"unmark", "view", "register", "start"}, user : Users, id : Ids]

ASSUME CountConstants ==
  /\ Products \subseteq Ids
  /\ IsFiniteSet(Users) /\ IsFiniteSet(Calls) /\ IsFiniteSet(Flushes)
  /\ MaxPages \in Nat
  /\ None \notin Ops

Row(c) == <<op[c].user, op[c].id>>
Zero == [p \in Products |-> 0]
Plus(f, p) == [f EXCEPT ![p] = @ + 1]

Init ==
  /\ marks = [k \in Kinds |-> {}]
  /\ likesCount = Zero /\ views = Zero /\ viewsCount = Zero
  /\ downloads = Zero /\ downloadsCount = Zero /\ cached = Zero
  /\ redis \in BOOLEAN
  /\ pc = [c \in Calls |-> "idle"] /\ op = [c \in Calls |-> None]
  /\ seen = [c \in Calls |-> FALSE] /\ ans = [c \in Calls |-> "none"]
  /\ fpc = [f \in Flushes |-> "idle"] /\ got = [f \in Flushes |-> Zero]
  /\ scanned = [f \in Flushes |-> {}] /\ pages = [f \in Flushes |-> 0]

(***************************************************************************)
(* Calls.                                                                  *)
(***************************************************************************)
Goto(c, l) == pc' = [pc EXCEPT ![c] = l]
Answer(c, a) == ans' = [ans EXCEPT ![c] = a]

\* Call c begins as o; the next thing it does is l.
Begin(c, o, l) == pc[c] = "idle" /\ op' = [op EXCEPT ![c] = o] /\ Goto(c, l)

\* toggle, toggleLike, toggleBookmark: findUnique the user's row. An unknown
\* product has none.
FindMark(c) ==
  \E o \in [kind : Kinds, user : Users, id : Ids] :
    /\ Begin(c, o, "toggle")
    /\ seen' = [seen EXCEPT ![c] = <<o.user, o.id>> \in marks[o.kind]]
    /\ UNCHANGED <<counts, stock, redis, ans, flushes>>

\* Mutant of DropMark: deleteMany instead of delete: a missing row does not stop the decrement.
DropMarkMissing(c) ==
  /\ pc[c] = "toggle" /\ seen[c]
  /\ marks' = [marks EXCEPT ![op[c].kind] = @ \ {Row(c)}]
  /\ likesCount' = IF op[c].kind = "like"
                     THEN [likesCount EXCEPT ![op[c].id] = @ - 1] ELSE likesCount
  /\ Answer(c, "off") /\ Goto(c, "done")
  /\ UNCHANGED <<views, viewsCount, stock, redis, op, seen, flushes>>

\* Its first branch: delete the row it saw and count the like down. The
\* transaction only commits when the row is still there.
DropMark(c) ==
  /\ pc[c] = "toggle" /\ seen[c]
  /\ Row(c) \in marks[op[c].kind]
  /\ marks' = [marks EXCEPT ![op[c].kind] = @ \ {Row(c)}]
  /\ likesCount' = IF op[c].kind = "like"
                     THEN [likesCount EXCEPT ![op[c].id] = @ - 1] ELSE likesCount
  /\ Answer(c, "off") /\ Goto(c, "done")
  /\ UNCHANGED <<views, viewsCount, stock, redis, op, seen, flushes>>

\* Mutant of AddMark: upsert instead of create: a row that exists does not stop the increment.
AddMarkUpsert(c) ==
  /\ pc[c] = "toggle" /\ ~seen[c] /\ op[c].id \in Products
  /\ marks' = [marks EXCEPT ![op[c].kind] = @ \cup {Row(c)}]
  /\ likesCount' = IF op[c].kind = "like" THEN Plus(likesCount, op[c].id) ELSE likesCount
  /\ Answer(c, "on") /\ Goto(c, "done")
  /\ UNCHANGED <<views, viewsCount, stock, redis, op, seen, flushes>>

\* Its second branch: create the row and count the like up. The primary key
\* (user, product) and the foreign key refuse a second row and an unknown product.
AddMark(c) ==
  /\ pc[c] = "toggle" /\ ~seen[c]
  /\ op[c].id \in Products /\ Row(c) \notin marks[op[c].kind]
  /\ marks' = [marks EXCEPT ![op[c].kind] = @ \cup {Row(c)}]
  /\ likesCount' = IF op[c].kind = "like" THEN Plus(likesCount, op[c].id) ELSE likesCount
  /\ Answer(c, "on") /\ Goto(c, "done")
  /\ UNCHANGED <<views, viewsCount, stock, redis, op, seen, flushes>>

\* BookmarksService.remove: deleteMany, which a missing row does not fail.
Unmark(c) ==
  \E o \in [kind : {"unmark"}, user : Users, id : Ids] :
    /\ Begin(c, o, "done")
    /\ Answer(c, IF <<o.user, o.id>> \in marks["bookmark"] THEN "off" ELSE "none")
    /\ marks' = [marks EXCEPT !["bookmark"] = @ \ {<<o.user, o.id>>}]
    /\ UNCHANGED <<likesCount, views, viewsCount, stock, redis, seen, flushes>>

\* incrementView: one transaction of the counter and the row.
View(c) ==
  \E o \in [kind : {"view"}, user : Users, id : Products] :
    /\ Begin(c, o, "done")
    /\ views' = Plus(views, o.id) /\ viewsCount' = Plus(viewsCount, o.id)
    /\ UNCHANGED <<marks, likesCount, stock, redis, seen, ans, flushes>>

\* registerDownload: one transaction of the counter and the row.
Register(c) ==
  \E o \in [kind : {"register"}, user : Users, id : Products] :
    /\ Begin(c, o, "done")
    /\ downloads' = Plus(downloads, o.id) /\ downloadsCount' = Plus(downloadsCount, o.id)
    /\ UNCHANGED <<counts, cached, redis, seen, ans, flushes>>

\* incrementView, registerDownload and start of an unknown product.
NotFound(c) ==
  \E o \in [kind : {"view", "register", "start"}, user : Users, id : Ids \ Products] :
    /\ Begin(c, o, "error")
    /\ UNCHANGED <<counts, stock, redis, seen, ans, flushes>>

\* DownloadsService.start: the product is found ...
Start(c) ==
  \E o \in [kind : {"start"}, user : Users, id : Products] :
    /\ Begin(c, o, "bump")
    /\ UNCHANGED <<counts, stock, redis, seen, ans, flushes>>

\* ... the download counted, in Redis or, without it, in the product row ...
Bump(c) ==
  /\ pc[c] = "bump" /\ Goto(c, "create")
  /\ IF redis THEN cached' = Plus(cached, op[c].id) /\ UNCHANGED downloadsCount
     ELSE downloadsCount' = Plus(downloadsCount, op[c].id) /\ UNCHANGED cached
  /\ UNCHANGED <<counts, downloads, redis, op, seen, ans, flushes>>

\* ... and its row created.
Create(c) ==
  /\ pc[c] = "create" /\ Goto(c, "done")
  /\ downloads' = Plus(downloads, op[c].id)
  /\ UNCHANGED <<counts, downloadsCount, cached, redis, op, seen, ans, flushes>>

\* A transaction is refused or fails, Redis or the process does: the answer is
\* an error. A download that was counted stays counted, without its row.
Fail(c) ==
  /\ pc[c] \in {"toggle", "bump", "create"}
  /\ Goto(c, IF pc[c] = "create" THEN "orphan" ELSE "error")
  /\ UNCHANGED <<counts, stock, redis, op, seen, ans, flushes>>

(***************************************************************************)
(* flushBatch. SCAN hands out the keys page by page, each at least once;   *)
(* a page is read with one MGET.                                           *)
(***************************************************************************)
GotoF(f, l) == fpc' = [fpc EXCEPT ![f] = l]

ScanPage(f) ==
  /\ redis /\ fpc[f] \in {"idle", "scan"} /\ pages[f] < MaxPages
  /\ \E S \in (SUBSET Products) \ {{}} :
       /\ got' = [got EXCEPT ![f] = [p \in Products |->
                    IF p \in S THEN @[p] + cached[p] ELSE @[p]]]
       /\ scanned' = [scanned EXCEPT ![f] = @ \cup S]
  /\ pages' = [pages EXCEPT ![f] = @ + 1]
  /\ GotoF(f, "scan")
  /\ UNCHANGED <<counts, stock, redis, calls>>

\* No Redis, or no counter that is not zero.
NothingToFlush(f) ==
  /\ IF redis THEN fpc[f] = "scan" /\ scanned[f] = Products /\ got[f] = Zero
     ELSE fpc[f] = "idle"
  /\ GotoF(f, "done")
  /\ UNCHANGED <<counts, stock, redis, calls, got, scanned, pages>>

\* applyDbIncrement: add what was read to the product rows, in one transaction.
Apply(f) ==
  /\ fpc[f] = "scan" /\ scanned[f] = Products /\ got[f] # Zero
  /\ downloadsCount' = [p \in Products |-> downloadsCount[p] + got[f][p]]
  /\ GotoF(f, "applied")
  /\ UNCHANGED <<counts, downloads, cached, redis, calls, got, scanned, pages>>

\* Mutant of Deduct: DEL instead of DECRBY.
DeductDel(f) ==
  /\ fpc[f] = "applied"
  /\ cached' = [p \in Products |-> IF got[f][p] = 0 THEN cached[p] ELSE 0]
  /\ GotoF(f, "done")
  /\ UNCHANGED <<counts, downloads, downloadsCount, redis, calls, got, scanned, pages>>

\* MULTI of one DECRBY per value read.
Deduct(f) ==
  /\ fpc[f] = "applied"
  /\ cached' = [p \in Products |-> cached[p] - got[f][p]]
  /\ GotoF(f, "done")
  /\ UNCHANGED <<counts, downloads, downloadsCount, redis, calls, got, scanned, pages>>

\* A flush fails, or its process dies: after the transaction, the values it
\* added are never deducted.
FlushFail(f) ==
  /\ fpc[f] \in {"scan", "applied"}
  /\ GotoF(f, IF fpc[f] = "applied" THEN "dead" ELSE "done")
  /\ UNCHANGED <<counts, stock, redis, calls, got, scanned, pages>>

CallStep(c) ==
  FindMark(c) \/ DropMark(c) \/ AddMark(c) \/ Unmark(c) \/ View(c) \/ Register(c)
    \/ NotFound(c) \/ Start(c) \/ Bump(c) \/ Create(c) \/ Fail(c)
FlushStep(f) == ScanPage(f) \/ NothingToFlush(f) \/ Apply(f) \/ Deduct(f) \/ FlushFail(f)

Next == (\E c \in Calls : CallStep(c)) \/ (\E f \in Flushes : FlushStep(f))
Spec == Init /\ [][Next]_vars

(***************************************************************************)
(* Properties.                                                             *)
(***************************************************************************)
\* The rows and counters have their types; no count of likes, views or rows is
\* ever negative (likesCount is decremented on a read that may be stale).
TypeOK ==
  /\ marks \in [Kinds -> SUBSET (Users \X Products)]
  /\ {likesCount, views, viewsCount, downloads} \subseteq [Products -> Nat]
  /\ {downloadsCount, cached} \subseteq [Products -> Int]
  /\ redis \in BOOLEAN
  /\ pc \in [Calls -> {"idle", "toggle", "bump", "create", "done", "error", "orphan"}]
  /\ op \in [Calls -> Ops \cup {None}] /\ \A c \in Calls : op[c] = None <=> pc[c] = "idle"
  /\ seen \in [Calls -> BOOLEAN] /\ ans \in [Calls -> {"none", "on", "off"}]
  /\ fpc \in [Flushes -> {"idle", "scan", "applied", "done", "dead"}]
  /\ got \in [Flushes -> [Products -> Int]]
  /\ scanned \in [Flushes -> SUBSET Products] /\ pages \in [Flushes -> 0..MaxPages]

\* However toggles overlap and fail, the count of likes of a product is the
\* number of users who like it (likes.service.ts:42, product.service.ts:433).
LikesCounted ==
  \A p \in Products : likesCount[p] = Cardinality({u \in Users : <<u, p>> \in marks["like"]})

\* The calls that put (u, i) into a table, and those that took it out.
Asks(c, k, u, i) ==
  op[c] \in {[kind |-> k, user |-> u, id |-> i]}
              \cup (IF k = "bookmark" THEN {[kind |-> "unmark", user |-> u, id |-> i]} ELSE {})
Said(a, k, u, i) == {c \in Calls : ans[c] = a /\ Asks(c, k, u, i)}

\* The answers of overlapping toggles alternate: two toggles that both saw no
\* row do not both answer liked (bookmarked), and the last answer tells whether
\* the row is there.
TogglesAlternate ==
  \A k \in Kinds, u \in Users, p \in Products :
    Cardinality(Said("on", k, u, p)) - Cardinality(Said("off", k, u, p)) =
      IF <<u, p>> \in marks[k] THEN 1 ELSE 0

\* Downloads of p that were counted and have no row, not yet or never.
Ahead(p) ==
  Cardinality({c \in Calls : op[c] # None /\ op[c].id = p /\ pc[c] \in {"create", "orphan"}})
\* What flushes added to p and did not deduct, not yet or never.
Undeducted(p) ==
  FoldFunction(+, 0, [f \in Flushes |-> IF fpc[f] \in {"applied", "dead"} THEN got[f][p] ELSE 0])

\* No download is lost or counted twice by flushes that overlap each other and
\* new downloads ("decrement instead of DEL, to prevent a race",
\* counters.service.ts:103): the counter of the row and the counter in Redis
\* together differ from the rows only by the calls and flushes that are on
\* their way or died between their two steps.
DownloadsLedger ==
  \A p \in Products : downloadsCount[p] + cached[p] = downloads[p] + Ahead(p) + Undeducted(p)

=============================================================================
