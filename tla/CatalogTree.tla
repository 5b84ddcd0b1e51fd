---------------------------- MODULE CatalogTree ----------------------------
(***************************************************************************)
(* Categories, tags, and the authors and labels of products:               *)
(* categories.service.ts, tags.service.ts, and create, update and remove   *)
(* of product.service.ts.  Transactions run at READ COMMITTED, Postgres's  *)
(* default: a statement sees what had committed when it began, a row that  *)
(* an open transaction changed makes other writers wait, and what a        *)
(* transaction wrote becomes visible when it commits.                      *)
(***************************************************************************)
EXTENDS Naturals, FiniteSets

CONSTANTS
  Categories, Tags,      \* ids, never used twice
  Users, Admins,         \* Admins may edit every product
  Products,              \* slugs
  MaxAuthors,            \* 3 in the code
  Edits,                 \* bodies of the requests that create or update a product
  Callers,               \* requests of one statement or one nested create
  Removers,              \* requests that remove a category
  Walkers,               \* requests for breadcrumbs
  Editors,               \* requests that update or archive a product
  Root, None             \* no parent; nothing

Labels == Categories \cup Tags
Requests == Callers \cup Removers \cup Walkers \cup Editors
Kinds == {{}, Categories, Tags}

\* The two kinds of labels are replaced by the same code, one after the other;
\* an edit of the model replaces at most one of them.
\* Authors that are not given are Keep, and not an empty list.
Keep == {None}
Bodies == [authors : (SUBSET Users) \cup {Keep}, given : Kinds, want : SUBSET Labels]

ASSUME SortsAreDisjoint ==
  /\ Labels \cap Users = {} /\ Categories \cap Tags = {}
  /\ Callers \cap (Removers \cup Walkers \cup Editors) = {}
  /\ Removers \cap (Walkers \cup Editors) = {} /\ Walkers \cap Editors = {}
  /\ Root \notin Labels /\ None \notin Requests /\ None \notin Users
ASSUME BodiesAreValid ==
  /\ Admins \subseteq Users /\ IsFiniteSet(Users)
  /\ Edits \subseteq {b \in Bodies : b.want \subseteq b.given}
ASSUME LimitsArePositive == MaxAuthors \in Nat \ {0}
ASSUME EditorsAreFinite == IsFiniteSet(Editors)

VARIABLES
  state,    \* of a label: unborn, live or gone
  parent,   \* parentId of a category
  shown,    \* of a product: absent, shown or archived
  rows,     \* author and label rows of the products, with the request that wrote them
  pc,       \* the await a request is at
  mem,      \* what a request has read; Nothing before and after
  late      \* history: editors that replaced authors other than those they saw

vars == <<state, parent, shown, rows, pc, mem, late>>
tree == <<state, parent>>

\* The parent a removal read, and the children it has moved and locked; where a
\* walk is; an edit, the rows its statements delete and the labels it found.
Removals == [node : Categories, at : Categories \cup {Root}, kids : SUBSET Categories]
Walks == [at : Categories]
Updates == [product : Products, body : Edits, seen : SUBSET [product : Products,
              of : Users \cup Labels, by : Requests \cup {None}], found : SUBSET Labels]
Archives == [product : Products]
Nothing == [none |-> None]

Live == {l \in Labels : state[l] = "live"}
LiveCategories == Live \cap Categories
Of(p, things) == {x \in rows : x.product = p /\ x.of \in things}
Authors(p) == {x.of : x \in Of(p, Users)}
Row(p, things, r) == [product : {p}, of : things, by : {r}]

\* What request r does between two awaits; it forgets what it read when it is over.
Step(r, from, to) == pc[r] = from /\ pc' = [pc EXCEPT ![r] = to]
Keeps(r, m) == mem' = [mem EXCEPT ![r] = m]
Finish(r, from) == Step(r, from, "over") /\ Keeps(r, Nothing)

\* Rows that a transaction has deleted and not yet committed, and categories it
\* has moved: whoever writes them waits.
Deleted(e) == CASE pc[e] = "find" -> {x \in mem[e].seen : x.of \in Users}
                [] pc[e] = "commit" -> mem[e].seen
                [] OTHER -> {}
Free(r, some) == \A e \in Editors \ {r} : Deleted(e) \cap some = {}
Moving(r) == IF pc[r] = "delete" THEN mem[r].kids ELSE {}
Movable(r, c) == \A o \in Removers \ {r} : c \notin Moving(o)
\* A row that an open transaction refers to cannot be deleted.
Referenced(r, c) == \E o \in Removers \ {r} : Moving(o) # {} /\ mem[o].at = c

-----------------------------------------------------------------------------
(* Categories and tags *)

CreateLabel(r) ==
  /\ Finish(r, "idle")
  /\ \E l \in Labels, p \in LiveCategories \cup {Root} :
       /\ state[l] = "unborn"
       /\ state' = [state EXCEPT ![l] = "live"]
       /\ parent' = IF l \in Categories THEN [parent EXCEPT ![l] = p] ELSE parent
  /\ UNCHANGED <<shown, rows, late>>

\* A parent is connected or disconnected; nothing asks whether it is below.
UpdateCategory(r) ==
  /\ Finish(r, "idle")
  /\ \E c \in LiveCategories, p \in LiveCategories \cup {Root} :
       /\ Movable(r, c)
       /\ parent' = [parent EXCEPT ![c] = p]
  /\ UNCHANGED <<state, shown, rows, late>>

RemoveTag(r) ==
  /\ Finish(r, "idle")
  /\ \E t \in Live \cap Tags :
       /\ Free(r, {x \in rows : x.of = t})
       /\ rows' = {x \in rows : x.of # t}
       /\ state' = [state EXCEPT ![t] = "gone"]
  /\ UNCHANGED <<parent, shown, late>>

FindNode(r) ==
  /\ Step(r, "idle", "relink")
  /\ \E c \in LiveCategories : Keeps(r, [node |-> c, at |-> parent[c], kids |-> {}])
  /\ UNCHANGED <<tree, shown, rows, late>>

\* Mutant: updateMany without its where.
ChildrenAll(c) == LiveCategories

Children(c) == {x \in LiveCategories : parent[x] = c}

Relink(r) ==
  /\ Step(r, "relink", "delete")
  /\ LET children == Children(mem[r].node) IN
       /\ \A x \in children : Movable(r, x)
       /\ children = {} \/ mem[r].at \in LiveCategories \cup {Root}
       /\ Keeps(r, [mem[r] EXCEPT !.kids = children])
  /\ UNCHANGED <<tree, shown, rows, late>>

\* Mutant: the links of the category are left.
DeleteKeepsLinks(r) ==
  /\ Finish(r, "delete")
  /\ LET c == mem[r].node IN
       /\ c \in Live /\ Movable(r, c) /\ ~Referenced(r, c)
       /\ Free(r, {x \in rows : x.of = c})
       /\ state' = [state EXCEPT ![c] = "gone"]
       /\ parent' = [x \in Categories |->
            LET above == IF x \in mem[r].kids THEN mem[r].at ELSE parent[x]
            IN  IF x = c \/ above = c THEN Root ELSE above]
  /\ UNCHANGED <<rows, shown, late>>

\* The rest of the transaction: links and node are deleted, and the foreign key
\* sets the parent of children that came after the relinking to null.
Delete(r) ==
  /\ Finish(r, "delete")
  /\ LET c == mem[r].node IN
       /\ c \in Live /\ Movable(r, c) /\ ~Referenced(r, c)
       /\ \A x \in Children(c) : Movable(r, x)
       /\ Free(r, {x \in rows : x.of = c})
       /\ rows' = {x \in rows : x.of # c}
       /\ state' = [state EXCEPT ![c] = "gone"]
       /\ parent' = [x \in Categories |->
            LET above == IF x \in mem[r].kids THEN mem[r].at ELSE parent[x]
            IN  IF x = c \/ above = c THEN Root ELSE above]
  /\ UNCHANGED <<shown, late>>

-----------------------------------------------------------------------------
(* Breadcrumbs: one read per category on the way up *)

StartWalk(r) ==
  /\ Step(r, "idle", "walk")
  /\ \E c \in Categories : Keeps(r, [at |-> c])
  /\ UNCHANGED <<tree, shown, rows, late>>

\* Mutant: the category is read again instead of its parent.
WalkInPlace(r) ==
  /\ pc[r] = "walk"
  /\ LET c == mem[r].at IN
       IF c \in Live /\ parent[c] # Root
       THEN Step(r, "walk", "walk") /\ Keeps(r, [at |-> c])
       ELSE Finish(r, "walk")
  /\ UNCHANGED <<tree, shown, rows, late>>

Walk(r) ==
  /\ pc[r] = "walk"
  /\ LET c == mem[r].at IN
       IF c \in Live /\ parent[c] # Root
       THEN Step(r, "walk", "walk") /\ Keeps(r, [at |-> parent[c]])
       ELSE Finish(r, "walk")
  /\ UNCHANGED <<tree, shown, rows, late>>

-----------------------------------------------------------------------------
(* Products *)

\* Mutant: the number of authors is not checked.
AllowedAny(authors) == TRUE

Allowed(authors) == authors = Keep \/ Cardinality(authors) <= MaxAuthors

CreateProduct(r) ==
  /\ Finish(r, "idle")
  /\ \E p \in Products, b \in Edits, actor \in Users :
       LET authors == IF b.authors \in {Keep, {}} THEN {actor} ELSE b.authors IN
       /\ Allowed(authors) /\ shown[p] = "absent" /\ b.want \subseteq Live
       /\ rows' = rows \cup Row(p, authors \cup b.want, r)
       /\ shown' = [shown EXCEPT ![p] = "shown"]
  /\ UNCHANGED <<tree, late>>

CanEdit(p, actor) == shown[p] # "absent" /\ (actor \in Admins \/ actor \in Authors(p))

StartUpdate(e) ==
  /\ Step(e, "idle", "authors")
  /\ \E p \in Products, b \in Edits, actor \in Users :
       /\ CanEdit(p, actor) /\ Allowed(b.authors)
       /\ Keeps(e, [product |-> p, body |-> b, seen |-> {}, found |-> {}])
  /\ UNCHANGED <<tree, shown, rows, late>>

StartArchive(e) ==
  /\ Step(e, "idle", "archive")
  /\ \E p \in Products, actor \in Users : CanEdit(p, actor) /\ Keeps(e, [product |-> p])
  /\ UNCHANGED <<tree, shown, rows, late>>

Archive(e) ==
  /\ Finish(e, "archive")
  /\ shown' = [shown EXCEPT ![mem[e].product] = "archived"]
  /\ UNCHANGED <<tree, rows, late>>

DeleteAuthors(e) ==
  /\ Step(e, "authors", "labels")
  /\ LET old == IF mem[e].body.authors = Keep THEN {} ELSE Of(mem[e].product, Users)
     IN  Keeps(e, [mem[e] EXCEPT !.seen = old])
  /\ UNCHANGED <<tree, shown, rows, late>>

\* The statement that deletes the authors has its locks by now.
DeleteLabels(e) ==
  /\ Step(e, "labels", "find")
  /\ Free(e, mem[e].seen)
  /\ LET b == mem[e].body
     IN  Keeps(e, [mem[e] EXCEPT !.seen = @ \cup Of(mem[e].product, b.given \ b.want)])
  /\ UNCHANGED <<tree, shown, rows, late>>

FindLabels(e) ==
  /\ Step(e, "find", "commit")
  /\ Free(e, mem[e].seen)
  /\ LET there == {x.of : x \in Of(mem[e].product, mem[e].body.want)}
     IN  Keeps(e, [mem[e] EXCEPT !.found = there])
  /\ UNCHANGED <<tree, shown, rows, late>>

\* Rows of an open transaction that are there already are skipped.
Commit(e) ==
  /\ Finish(e, "commit")
  /\ LET p == mem[e].product
         b == mem[e].body
         authors == IF b.authors = Keep THEN {} ELSE b.authors
         new == authors \cup (b.want \ mem[e].found)
         kept == rows \ mem[e].seen
     IN
       /\ new \cap Labels \subseteq Live
       /\ rows' = kept \cup Row(p, {x \in new : \A y \in kept : y.product = p => y.of # x}, e)
       /\ late' = IF b.authors # Keep /\ ~(Of(p, Users) \subseteq mem[e].seen)
                  THEN late \cup {e} ELSE late
       /\ \E s \in {shown[p], "shown", "archived"} : shown' = [shown EXCEPT ![p] = s]
  /\ UNCHANGED tree

-----------------------------------------------------------------------------

\* A request is refused, or Postgres, which also ends deadlocks, rolls it back.
Fail(r) ==
  /\ pc[r] \notin {"idle", "over"}
  /\ Finish(r, pc[r])
  /\ UNCHANGED <<tree, shown, rows, late>>

CallStep(r) == CreateLabel(r) \/ UpdateCategory(r) \/ RemoveTag(r) \/ CreateProduct(r)
RemoveStep(r) == FindNode(r) \/ Relink(r) \/ Delete(r)
WalkStep(r) == StartWalk(r) \/ Walk(r)
EditStep(e) ==
  \/ StartUpdate(e) \/ DeleteAuthors(e) \/ DeleteLabels(e) \/ FindLabels(e) \/ Commit(e)
  \/ StartArchive(e) \/ Archive(e)

\* There is a way up from every category: no set of categories has all its
\* parents in itself.
Forest == \A S \in SUBSET LiveCategories : S # {} => \E c \in S : parent[c] \notin S

\* A request that is over from the beginning is not made.
Init ==
  /\ state \in [Labels -> {"unborn", "live"}]
  /\ parent \in [Categories -> Categories \cup {Root}]
  /\ \A c \in Categories : IF c \in Live THEN parent[c] \in Live \cup {Root} ELSE parent[c] = Root
  /\ Forest
  /\ shown \in [Products -> {"absent", "shown"}]
  /\ rows \in SUBSET [product : {p \in Products : shown[p] = "shown"},
                      of : Users \cup Live, by : {None}]
  /\ \A p \in Products : Cardinality(Authors(p)) <= MaxAuthors
  /\ pc \in [Requests -> {"idle", "over"}]
  /\ mem = [r \in Requests |-> Nothing]
  /\ late = {}

Next ==
  \/ \E r \in Callers : CallStep(r)
  \/ \E r \in Removers : RemoveStep(r)
  \/ \E r \in Walkers : WalkStep(r)
  \/ \E e \in Editors : EditStep(e)
  \/ \E r \in Requests : Fail(r)

Spec == Init /\ [][Next]_vars

\* A walk that has started reads on: Node runs the continuation of each read.
FairSpec == Spec /\ \A r \in Walkers : WF_vars(Walk(r))

-----------------------------------------------------------------------------
(* Properties *)

\* Types, and the references of the schema: parents and labelled rows exist.
TypeOK ==
  /\ state \in [Labels -> {"unborn", "live", "gone"}]
  /\ parent \in [Categories -> Categories \cup {Root}]
  /\ \A c \in LiveCategories : parent[c] \in LiveCategories \cup {Root}
  /\ shown \in [Products -> {"absent", "shown", "archived"}]
  /\ rows \subseteq [product : Products, of : Users \cup Live, by : Requests \cup {None}]
  /\ pc \in [Requests -> {"idle", "relink", "delete", "walk", "authors", "labels", "find",
                          "commit", "archive", "over"}]
  /\ \A r \in Requests :
       CASE pc[r] \in {"idle", "over"} -> mem[r] = Nothing
         [] pc[r] \in {"relink", "delete"} -> r \in Removers /\ mem[r] \in Removals
         [] pc[r] = "walk" -> r \in Walkers /\ mem[r] \in Walks
         [] pc[r] = "archive" -> r \in Editors /\ mem[r] \in Archives
         [] OTHER -> r \in Editors /\ mem[r] \in Updates
  /\ late \subseteq Editors

\* The categories below c, itself included.
Under(c) ==
  {d \in LiveCategories :
     \A S \in SUBSET LiveCategories :
       c \in S /\ (\A x \in LiveCategories : parent[x] \in S => x \in S) => d \in S}

MovedUnderItself ==
  \E r \in Callers : /\ pc[r] = "idle" /\ pc'[r] = "over"
                     /\ \E c \in LiveCategories : parent'[c] # parent[c] /\ parent'[c] \in Under(c)

RemovedStale ==
  \E r \in Removers : pc[r] = "delete" /\ pc'[r] = "over" /\ mem[r].at # parent[mem[r].node]

\* The tree gets a cycle only by an update that puts a category below itself,
\* or by a removal whose parent changed after remove() read it.
CyclesComeFrom == [][Forest /\ ~Forest' => MovedUnderItself \/ RemovedStale]_vars

\* As long as the tree is one, breadcrumbs() comes to its root, whatever is
\* moved and removed on the way.
WalksEnd == (<>[]Forest) => \A r \in Walkers : pc[r] = "walk" ~> pc[r] # "walk"

\* The limit of authors is exceeded only by updates that overlap, each by at
\* most one list of authors.
AuthorsBounded ==
  \A p \in Products : Cardinality(Authors(p)) <= MaxAuthors * (1 + Cardinality(late))

\* A product has at most 3 authors, as create() and update() say.
AtMostMaxAuthors == \A p \in Products : Cardinality(Authors(p)) <= MaxAuthors

=============================================================================
