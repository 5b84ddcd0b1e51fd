------------------------- MODULE CatalogTreeProofs -------------------------
(***************************************************************************)
(* Proofs about CatalogTree, for any categories, products and requests.    *)
(*                                                                         *)
(* Where cycles come from is a property of single steps, but of steps from *)
(* states in which the children that a removal has moved and not committed *)
(* are still the node's own (KidsStay): the locks of their rows see to it. *)
(* The limit of authors needs that an editor which was late is over, and   *)
(* that a product which is absent has no rows (AInv).                    *)
(***************************************************************************)
EXTENDS CatalogTree, FiniteSetTheorems, TLAPS

Editing == {"authors", "labels", "find", "commit"}
Memory == Removals \cup Walks \cup Updates \cup Archives \cup {Nothing}

\* What request r may hold in memory at l.
Fits(r, l, m) ==
  CASE l \in {"idle", "over"} -> m = Nothing
    [] l \in {"relink", "delete"} -> r \in Removers /\ m \in Removals
    [] l = "walk" -> r \in Walkers /\ m \in Walks
    [] l = "archive" -> r \in Editors /\ m \in Archives
    [] OTHER -> r \in Editors /\ m \in Updates

\* The children of a removal, moved and locked.
KidsStay ==
  /\ \A r \in Removers : pc[r] = "delete" =>
       /\ \A x \in mem[r].kids : x \in LiveCategories /\ parent[x] = mem[r].node
       /\ mem[r].kids # {} => mem[r].at \in LiveCategories \cup {Root}
  /\ \A r, o \in Removers : r # o => Moving(r) \cap Moving(o) = {}

LEMMA TreeConstants ==
  /\ Labels = Categories \cup Tags /\ Labels \cap Users = {} /\ Categories \cap Tags = {}
  /\ \A r \in Callers : r \notin Removers /\ r \notin Walkers /\ r \notin Editors
  /\ \A r \in Removers : r \notin Walkers /\ r \notin Editors
  /\ \A r \in Walkers : r \notin Editors
  /\ Root \notin Labels /\ None \notin Users
  /\ \A b \in Edits : b \in Bodies /\ b.want \subseteq Labels
BY SortsAreDisjoint, BodiesAreValid DEF Labels, Bodies

LEMMA EditTypes ==
  \A b \in Edits : (b.authors = Keep \/ b.authors \subseteq Users) /\ b.want \subseteq Labels
<1>1. \A b \in Bodies : b.authors \in (SUBSET Users) \cup {Keep} /\ b.want \subseteq Labels
  BY DEF Bodies
<1> QED
  BY <1>1, TreeConstants

\* Types of the variables that are not a request's.
RowTypes ==
  /\ state \in [Labels -> {"unborn", "live", "gone"}]
  /\ parent \in [Categories -> Categories \cup {Root}]
  /\ \A c \in LiveCategories : parent[c] \in LiveCategories \cup {Root}
  /\ shown \in [Products -> {"absent", "shown", "archived"}]
  /\ rows \subseteq [product : Products, of : Users \cup Live, by : Requests \cup {None}]
  /\ late \subseteq Editors

\* Types of what a request is at and what it holds.
RequestTypes ==
  /\ pc \in [Requests -> {"idle", "relink", "delete", "walk", "archive", "over"} \cup Editing]
  /\ mem \in [Requests -> Memory]
  /\ \A r \in Requests : Fits(r, pc[r], mem[r])

TInv == RowTypes /\ RequestTypes /\ KidsStay

LEMMA Types == TInv => TypeOK
BY DEF TInv, TypeOK, RowTypes, RequestTypes, Fits, Editing

\* A step of one request keeps the types of requests.
LEMMA RequestStep ==
  ASSUME RequestTypes, NEW r \in Requests, NEW to \in {"relink", "delete", "walk", "archive", "over"} \cup Editing,
         NEW m \in Memory, Fits(r, to, m),
         pc' = [pc EXCEPT ![r] = to], mem' = [mem EXCEPT ![r] = m]
  PROVE  RequestTypes'
<1>1. ASSUME NEW q \in Requests PROVE Fits(q, pc[q], mem[q])'
  <2>1. Fits(q, pc'[q], mem'[q])
    BY DEF RequestTypes
  <2> QED
    BY <2>1 DEF Fits, Removals, Walks, Updates, Archives, Nothing
<1> QED
  BY <1>1 DEF RequestTypes

LEMMA FinishStep ==
  ASSUME RequestTypes, NEW r \in Requests,
         pc' = [pc EXCEPT ![r] = "over"], mem' = [mem EXCEPT ![r] = Nothing]
  PROVE  RequestTypes'
<1>1. Nothing \in Memory /\ Fits(r, "over", Nothing)
  BY DEF Memory, Fits
<1> QED
  BY <1>1, RequestStep

\* A step that leaves alone what the other removals have moved keeps KidsStay.
LEMMA KidsKept ==
  ASSUME KidsStay, RequestTypes, NEW q \in Requests, NEW to, to # "delete", NEW m,
         pc' = [pc EXCEPT ![q] = to], mem' = [mem EXCEPT ![q] = m],
         \A r \in Removers \ {q} : pc[r] = "delete" =>
           /\ \A x \in mem[r].kids : x \in LiveCategories' /\ parent'[x] = parent[x]
           /\ mem[r].kids # {} => mem[r].at \in LiveCategories' \cup {Root}
  PROVE  KidsStay'
<1>1. \A r \in Removers : r \in Requests
  BY DEF Requests
<1>2. \A r \in Removers : pc'[r] = "delete" => r # q /\ pc[r] = "delete" /\ mem'[r] = mem[r]
  BY <1>1 DEF RequestTypes
<1>3. \A r \in Removers : Moving(r)' \subseteq Moving(r)
  BY <1>2 DEF Moving
<1> QED
  BY <1>2, <1>3 DEF KidsStay

\* A step that leaves the tree alone.
LEMMA TreeKept ==
  ASSUME KidsStay, RequestTypes, NEW q \in Requests, NEW to, to # "delete", NEW m,
         pc' = [pc EXCEPT ![q] = to], mem' = [mem EXCEPT ![q] = m], UNCHANGED tree
  PROVE  KidsStay'
<1>1. LiveCategories' = LiveCategories /\ parent' = parent
  BY DEF tree, LiveCategories, Live
<1> QED
  BY <1>1, KidsKept DEF KidsStay

\* What a request holds at l.
LEMMA Holds ==
  ASSUME RequestTypes, NEW r \in Requests
  PROVE  /\ pc[r] \in {"relink", "delete"} => r \in Removers /\ mem[r] \in Removals
         /\ pc[r] = "walk" => r \in Walkers /\ mem[r] \in Walks
         /\ pc[r] = "archive" => r \in Editors /\ mem[r] \in Archives
         /\ pc[r] \in Editing => r \in Editors /\ mem[r] \in Updates
BY DEF RequestTypes, Fits, Editing

LEMMA TInvInit == Init => TInv
<1> SUFFICES ASSUME Init PROVE TInv
  OBVIOUS
<1>1. RowTypes
  BY DEF Init, RowTypes, Live, LiveCategories
<1>2. RequestTypes
  BY DEF Init, RequestTypes, Memory, Fits
<1>3. KidsStay
  BY DEF Init, KidsStay, Moving, Requests
<1> QED
  BY <1>1, <1>2, <1>3 DEF TInv

-----------------------------------------------------------------------------
(* Categories and tags *)

LEMMA CreateLabelTypes ==
  ASSUME TInv, NEW r \in Callers, CreateLabel(r)
  PROVE  TInv'
<1>1. RowTypes /\ RequestTypes /\ KidsStay /\ r \in Requests
  BY DEF TInv, Requests
<1>2. PICK l \in Labels, p \in LiveCategories \cup {Root} :
        /\ state[l] = "unborn" /\ state' = [state EXCEPT ![l] = "live"]
        /\ parent' = IF l \in Categories THEN [parent EXCEPT ![l] = p] ELSE parent
  BY DEF CreateLabel
<1>3. Live' = Live \cup {l} /\ l \notin Live
  BY <1>1, <1>2 DEF Live, RowTypes
<1>4. RowTypes'
  BY <1>1, <1>2, <1>3, TreeConstants DEF RowTypes, LiveCategories, CreateLabel
<1>5. RequestTypes'
  BY <1>1, FinishStep DEF CreateLabel, Finish, Step, Keeps
<1>6. KidsStay'
  <2>1. LiveCategories \subseteq LiveCategories' /\ \A x \in LiveCategories : parent'[x] = parent[x]
    BY <1>1, <1>2, <1>3 DEF RowTypes, LiveCategories
  <2> QED
    BY <1>1, <2>1, KidsKept DEF KidsStay, CreateLabel, Finish, Step, Keeps
<1> QED
  BY <1>4, <1>5, <1>6 DEF TInv

LEMMA UpdateCategoryTypes ==
  ASSUME TInv, NEW r \in Callers, UpdateCategory(r)
  PROVE  TInv'
<1>1. RowTypes /\ RequestTypes /\ KidsStay /\ r \in Requests /\ r \notin Removers
  BY TreeConstants DEF TInv, Requests
<1>2. PICK c \in LiveCategories, p \in LiveCategories \cup {Root} :
        Movable(r, c) /\ parent' = [parent EXCEPT ![c] = p]
  BY DEF UpdateCategory
<1>3. Live' = Live /\ LiveCategories' = LiveCategories
  BY DEF UpdateCategory, Live, LiveCategories
<1>4. RowTypes'
  BY <1>1, <1>2, <1>3 DEF RowTypes, UpdateCategory, LiveCategories
<1>5. RequestTypes'
  BY <1>1, FinishStep DEF UpdateCategory, Finish, Step, Keeps
<1>6. KidsStay'
  <2>1. \A o \in Removers : pc[o] = "delete" => \A x \in mem[o].kids : x \in LiveCategories /\ x # c
    BY <1>1, <1>2 DEF Movable, Moving, KidsStay
  <2>2. \A o \in Removers : pc[o] = "delete" => \A x \in mem[o].kids : parent'[x] = parent[x]
    BY <2>1, <1>1, <1>2 DEF RowTypes, LiveCategories
  <2>3. /\ pc' = [pc EXCEPT ![r] = "over"]
        /\ mem' = [mem EXCEPT ![r] = Nothing]
    BY DEF UpdateCategory, Finish, Step, Keeps
  <2> QED
    BY <1>1, <1>3, <2>1, <2>2, <2>3, KidsKept DEF KidsStay
<1> QED
  BY <1>4, <1>5, <1>6 DEF TInv

LEMMA RemoveTagTypes ==
  ASSUME TInv, NEW r \in Callers, RemoveTag(r)
  PROVE  TInv' /\ LiveCategories' = LiveCategories
<1>1. RowTypes /\ RequestTypes /\ KidsStay /\ r \in Requests
  BY DEF TInv, Requests
<1>2. PICK t \in Live \cap Tags :
        rows' = {x \in rows : x.of # t} /\ state' = [state EXCEPT ![t] = "gone"]
  BY DEF RemoveTag
<1>3. Live' = Live \ {t} /\ LiveCategories' = LiveCategories
  BY <1>1, <1>2, TreeConstants DEF Live, LiveCategories, RowTypes
<1>4. RowTypes'
  BY <1>1, <1>2, <1>3 DEF RowTypes, RemoveTag, Live
<1>5. RequestTypes'
  BY <1>1, FinishStep DEF RemoveTag, Finish, Step, Keeps
<1>6. KidsStay'
  BY <1>1, <1>3, KidsKept DEF KidsStay, RemoveTag, Finish, Step, Keeps
<1> QED
  BY <1>3, <1>4, <1>5, <1>6 DEF TInv

LEMMA FindNodeTypes ==
  ASSUME TInv, NEW r \in Removers, FindNode(r)
  PROVE  TInv'
<1>1. RowTypes /\ RequestTypes /\ KidsStay /\ r \in Requests
  BY DEF TInv, Requests
<1>2. PICK c \in LiveCategories : Keeps(r, [node |-> c, at |-> parent[c], kids |-> {}])
  BY DEF FindNode
<1>3. [node |-> c, at |-> parent[c], kids |-> {}] \in Removals
  BY <1>1 DEF Removals, RowTypes, LiveCategories
<1>4. RequestTypes'
  BY <1>1, <1>2, <1>3, RequestStep DEF FindNode, Step, Keeps, Memory, Fits
<1>5. RowTypes'
  BY <1>1 DEF FindNode, tree, RowTypes, Live, LiveCategories
<1>6. KidsStay'
  BY <1>1, <1>2, TreeKept DEF FindNode, Step, Keeps
<1> QED
  BY <1>4, <1>5, <1>6 DEF TInv

LEMMA RelinkTypes ==
  ASSUME TInv, NEW r \in Removers, Relink(r)
  PROVE  TInv'
<1>1. RowTypes /\ RequestTypes /\ KidsStay /\ r \in Requests
  BY DEF TInv, Requests
<1> DEFINE kids == Children(mem[r].node)
           m == [mem[r] EXCEPT !.kids = kids]
<1>2. mem[r] \in Removals /\ kids \subseteq LiveCategories
  BY <1>1, Holds DEF Relink, Step, Children
<1>3. /\ m \in Removals /\ m.kids = kids /\ m.node = mem[r].node /\ m.at = mem[r].at
      /\ pc' = [pc EXCEPT ![r] = "delete"] /\ mem' = [mem EXCEPT ![r] = m]
  BY <1>2 DEF Removals, LiveCategories, Relink, Step, Keeps
<1>4. RequestTypes'
  BY <1>1, <1>3, RequestStep DEF Memory, Fits
<1>5. RowTypes' /\ LiveCategories' = LiveCategories /\ parent' = parent
  BY <1>1 DEF Relink, tree, RowTypes, Live, LiveCategories
<1>6. KidsStay'
  <2> HIDE DEF kids, m
  <2>1. \A o \in Removers : o \in Requests
    BY DEF Requests
  <2>2. pc'[r] = "delete" /\ mem'[r] = m
        /\ \A o \in Removers \ {r} : pc'[o] = pc[o] /\ mem'[o] = mem[o]
    BY <1>1, <1>3, <2>1 DEF RequestTypes
  <2>3. /\ \A x \in kids : x \in LiveCategories /\ parent[x] = mem[r].node
        /\ \A x \in kids : Movable(r, x)
        /\ kids # {} => mem[r].at \in LiveCategories \cup {Root}
    BY DEF Relink, Children, kids
  <2>4. ASSUME NEW o \in Removers, pc'[o] = "delete"
        PROVE  /\ \A x \in mem'[o].kids : x \in LiveCategories /\ parent[x] = mem'[o].node
               /\ mem'[o].kids # {} => mem'[o].at \in LiveCategories \cup {Root}
    BY <1>1, <1>3, <2>2, <2>3, <2>4 DEF KidsStay
  <2>5. Moving(r)' = kids /\ \A o \in Removers \ {r} : Moving(o)' = Moving(o)
    BY <1>3, <2>2 DEF Moving
  <2>6. \A o \in Removers \ {r} : Moving(o) \cap kids = {}
    BY <2>3 DEF Movable
  <2>7. \A a, o \in Removers : a # o => Moving(a)' \cap Moving(o)' = {}
    BY <1>1, <2>5, <2>6 DEF KidsStay
  <2> QED
    BY <1>5, <2>4, <2>7 DEF KidsStay
<1> QED
  BY <1>4, <1>5, <1>6 DEF TInv

\* What the rest of the removal does to the tree.
LEMMA Deleted1 ==
  ASSUME TInv, NEW r \in Removers, Delete(r)
  PROVE  /\ r \in Requests /\ pc[r] = "delete" /\ pc'[r] = "over"
         /\ mem[r].node \in LiveCategories /\ LiveCategories' = LiveCategories \ {mem[r].node}
         /\ Live' = Live \ {mem[r].node}
         /\ \A x \in Categories : parent'[x] =
              LET above == IF x \in mem[r].kids THEN mem[r].at ELSE parent[x]
              IN  IF x = mem[r].node \/ above = mem[r].node THEN Root ELSE above
         /\ \A o \in Removers \ {r} : mem[r].node \notin Moving(o)
         /\ \A o \in Removers \ {r} : Moving(o) # {} => mem[o].at # mem[r].node
<1>1. RowTypes /\ RequestTypes /\ r \in Requests
  BY DEF TInv, Requests
<1>2. mem[r] \in Removals /\ mem[r].node \in Categories
  BY <1>1, Holds DEF Delete, Finish, Step, Removals
<1>3. Live' = Live \ {mem[r].node} /\ mem[r].node \in Live
  BY <1>1, <1>2, TreeConstants DEF Delete, Live, RowTypes
<1>4. pc[r] = "delete" /\ pc'[r] = "over"
  BY <1>1 DEF Delete, Finish, Step, RequestTypes
<1>5. \A x \in Categories : parent'[x] =
              LET above == IF x \in mem[r].kids THEN mem[r].at ELSE parent[x]
              IN  IF x = mem[r].node \/ above = mem[r].node THEN Root ELSE above
  BY DEF Delete
<1>6. /\ \A o \in Removers \ {r} : mem[r].node \notin Moving(o)
      /\ \A o \in Removers \ {r} : Moving(o) # {} => mem[o].at # mem[r].node
  BY DEF Delete, Movable, Referenced
<1> QED
  BY <1>1, <1>2, <1>3, <1>4, <1>5, <1>6 DEF LiveCategories

LEMMA DeleteTypes ==
  ASSUME TInv, NEW r \in Removers, Delete(r)
  PROVE  TInv'
<1>1. RowTypes /\ RequestTypes /\ KidsStay /\ r \in Requests
  BY DEF TInv, Requests
<1> DEFINE c == mem[r].node
<1>2. pc[r] = "delete" /\ c \in LiveCategories /\ LiveCategories' = LiveCategories \ {c} /\ Live' = Live \ {c}
  BY Deleted1
<1>3. RowTypes'
  <2>1. state' \in [Labels -> {"unborn", "live", "gone"}]
    BY <1>1 DEF Delete, RowTypes
  <2>2. \A x \in mem[r].kids : mem[r].at \in LiveCategories \cup {Root}
    BY <1>1, <1>2 DEF KidsStay
  <2>3. \A x \in Categories : parent'[x] \in Categories \cup {Root}
    BY <1>1, <2>2, Deleted1 DEF RowTypes, LiveCategories
  <2>4. parent' \in [Categories -> Categories \cup {Root}]
    BY <2>3 DEF Delete
  <2>5. \A x \in LiveCategories' : parent'[x] \in LiveCategories' \cup {Root}
    BY <1>1, <1>2, <2>2, Deleted1 DEF RowTypes, LiveCategories
  <2>6. rows' \subseteq [product : Products, of : Users \cup Live', by : Requests \cup {None}]
    BY <1>1, <1>2 DEF Delete, RowTypes
  <2>7. UNCHANGED <<shown, late>>
    BY DEF Delete
  <2> QED
    BY <1>1, <2>1, <2>4, <2>5, <2>6, <2>7 DEF RowTypes
<1>4. RequestTypes'
  BY <1>1, FinishStep DEF Delete, Finish, Step, Keeps
<1>5. KidsStay'
  <2>1. ASSUME NEW o \in Removers \ {r}, pc[o] = "delete"
        PROVE  /\ \A x \in mem[o].kids : x \in LiveCategories' /\ parent'[x] = parent[x]
               /\ mem[o].kids # {} => mem[o].at \in LiveCategories' \cup {Root}
    <3>1. Moving(o) = mem[o].kids /\ Moving(r) = mem[r].kids
      BY <1>2, <2>1 DEF Moving
    <3>2. \A x \in mem[o].kids : x \in LiveCategories /\ x # c /\ x \notin mem[r].kids
      BY <1>1, <2>1, <3>1, Deleted1 DEF KidsStay
    <3>3. \A x \in mem[o].kids : parent[x] # c
      BY <3>1, <3>2 DEF Delete, Children, Movable
    <3>4. \A x \in mem[o].kids : parent'[x] = parent[x]
      BY <3>2, <3>3, Deleted1 DEF LiveCategories
    <3>5. mem[o].kids # {} => mem[o].at \in LiveCategories' \cup {Root}
      BY <1>1, <1>2, <2>1, <3>1, Deleted1 DEF KidsStay
    <3> QED
      BY <1>2, <3>2, <3>4, <3>5
  <2> QED
    BY <1>1, <2>1, KidsKept DEF Delete, Finish, Step, Keeps
<1> QED
  BY <1>3, <1>4, <1>5 DEF TInv

-----------------------------------------------------------------------------
(* Walks and products: the tree stays as it is *)

\* A step that changes only what one request is at and holds.
LEMMA OnlyMemory ==
  ASSUME TInv, NEW r \in Requests,
         NEW to \in {"relink", "walk", "archive", "over"} \cup Editing,
         NEW m \in Memory, Fits(r, to, m),
         pc' = [pc EXCEPT ![r] = to], mem' = [mem EXCEPT ![r] = m],
         UNCHANGED <<tree, shown, rows, late>>
  PROVE  TInv'
<1>1. RowTypes'
  BY DEF TInv, RowTypes, tree, Live, LiveCategories
<1>2. to # "delete"
  BY DEF Editing
<1>3. KidsStay'
  BY <1>2, TreeKept DEF TInv
<1>4. RequestTypes'
  BY RequestStep DEF TInv
<1> QED
  BY <1>1, <1>3, <1>4 DEF TInv

LEMMA WalkTypes ==
  ASSUME TInv, NEW r \in Walkers, WalkStep(r)
  PROVE  TInv'
<1>1. RequestTypes /\ RowTypes /\ r \in Requests
  BY DEF TInv, Requests
<1>2. CASE StartWalk(r)
  <2>1. PICK c \in Categories : Keeps(r, [at |-> c])
    BY <1>2 DEF StartWalk
  <2>2. [at |-> c] \in Memory /\ Fits(r, "walk", [at |-> c])
    BY DEF Memory, Walks, Fits
  <2> QED
    BY <1>1, <1>2, <2>1, <2>2, OnlyMemory DEF StartWalk, Step, Keeps
<1>3. CASE Walk(r)
  <2> DEFINE c == mem[r].at
  <2>1. c \in Categories
    BY <1>1, <1>3, Holds DEF Walk, Walks
  <2>2. CASE c \in Live /\ parent[c] # Root
    <3>1. parent[c] \in Categories
      BY <1>1, <2>1, <2>2 DEF RowTypes
    <3>2. [at |-> parent[c]] \in Memory /\ Fits(r, "walk", [at |-> parent[c]])
      BY <3>1 DEF Memory, Walks, Fits
    <3> QED
      BY <1>1, <1>3, <2>2, <3>2, OnlyMemory DEF Walk, Step, Keeps
  <2>3. CASE ~(c \in Live /\ parent[c] # Root)
    <3>1. Nothing \in Memory /\ Fits(r, "over", Nothing)
      BY DEF Memory, Fits
    <3> QED
      BY <1>1, <1>3, <2>3, <3>1, OnlyMemory DEF Walk, Finish, Step, Keeps
  <2> QED
    BY <2>2, <2>3
<1> QED
  BY <1>2, <1>3 DEF WalkStep

LEMMA FailTypes ==
  ASSUME TInv, NEW r \in Requests, Fail(r)
  PROVE  TInv'
<1>1. Nothing \in Memory /\ Fits(r, "over", Nothing)
  BY DEF Memory, Fits
<1> QED
  BY <1>1, OnlyMemory DEF Fail, Finish, Step, Keeps

\* A step that finishes a request and leaves the tree alone.
LEMMA OnlyRows ==
  ASSUME TInv, NEW r \in Requests, NEW from, Finish(r, from), UNCHANGED tree,
         shown' \in [Products -> {"absent", "shown", "archived"}],
         rows' \subseteq [product : Products, of : Users \cup Live, by : Requests \cup {None}],
         late' \subseteq Editors
  PROVE  TInv'
<1>1. pc' = [pc EXCEPT ![r] = "over"] /\ mem' = [mem EXCEPT ![r] = Nothing]
  BY DEF Finish, Step, Keeps
<1>2. RowTypes'
  BY DEF TInv, RowTypes, tree, Live, LiveCategories
<1>3. RequestTypes' /\ KidsStay'
  BY <1>1, FinishStep, TreeKept DEF TInv
<1> QED
  BY <1>2, <1>3 DEF TInv

LEMMA CreateProductTypes ==
  ASSUME TInv, NEW r \in Callers, CreateProduct(r)
  PROVE  TInv'
<1>1. RequestTypes /\ RowTypes /\ r \in Requests
  BY DEF TInv, Requests
<1>2. PICK p \in Products, b \in Edits, actor \in Users :
       LET authors == IF b.authors \in {Keep, {}} THEN {actor} ELSE b.authors IN
       /\ Allowed(authors) /\ shown[p] = "absent" /\ b.want \subseteq Live
       /\ rows' = rows \cup Row(p, authors \cup b.want, r)
       /\ shown' = [shown EXCEPT ![p] = "shown"]
  BY DEF CreateProduct
<1> DEFINE authors == IF b.authors \in {Keep, {}} THEN {actor} ELSE b.authors
<1>3. authors \subseteq Users
  BY EditTypes
<1>4. Row(p, authors \cup b.want, r)
        \subseteq [product : Products, of : Users \cup Live, by : Requests \cup {None}]
  BY <1>1, <1>2, <1>3 DEF Row
<1>5. rows' \subseteq [product : Products, of : Users \cup Live, by : Requests \cup {None}]
  BY <1>1, <1>2, <1>4 DEF RowTypes
<1>6. shown' \in [Products -> {"absent", "shown", "archived"}]
  BY <1>1, <1>2 DEF RowTypes
<1> QED
  BY <1>1, <1>5, <1>6, OnlyRows DEF CreateProduct, RowTypes, tree

LEMMA ArchiveTypes ==
  ASSUME TInv, NEW e \in Editors, StartArchive(e) \/ Archive(e)
  PROVE  TInv'
<1>1. RequestTypes /\ RowTypes /\ e \in Requests
  BY DEF TInv, Requests
<1>2. CASE StartArchive(e)
  <2>1. PICK p \in Products : Keeps(e, [product |-> p])
    BY <1>2 DEF StartArchive
  <2>2. [product |-> p] \in Memory /\ Fits(e, "archive", [product |-> p])
    BY DEF Memory, Archives, Fits
  <2> QED
    BY <1>1, <1>2, <2>1, <2>2, OnlyMemory DEF StartArchive, Step, Keeps
<1>3. CASE Archive(e)
  <2>1. shown' \in [Products -> {"absent", "shown", "archived"}]
    BY <1>1, <1>3 DEF Archive, RowTypes
  <2> QED
    BY <1>1, <1>3, <2>1, OnlyRows DEF Archive, RowTypes
<1> QED
  BY <1>2, <1>3

LEMMA UpdateTypes ==
  ASSUME TInv, NEW e \in Editors,
         StartUpdate(e) \/ DeleteAuthors(e) \/ DeleteLabels(e) \/ FindLabels(e)
  PROVE  TInv'
<1>1. RequestTypes /\ RowTypes /\ e \in Requests
  BY DEF TInv, Requests
<1>2. \A p, things : Of(p, things) \subseteq rows
  BY DEF Of
<1>3. CASE StartUpdate(e)
  <2>1. PICK p \in Products, b \in Edits :
          Keeps(e, [product |-> p, body |-> b, seen |-> {}, found |-> {}])
    BY <1>3 DEF StartUpdate
  <2> DEFINE m == [product |-> p, body |-> b, seen |-> {}, found |-> {}]
  <2>2. m \in Updates
    BY DEF Updates
  <2>3. m \in Memory /\ Fits(e, "authors", m)
    BY <2>2 DEF Memory, Fits
  <2> QED
    BY <1>1, <1>3, <2>1, <2>3, OnlyMemory DEF StartUpdate, Step, Keeps, Editing
<1>4. CASE DeleteAuthors(e)
  <2> DEFINE old == IF mem[e].body.authors = Keep THEN {} ELSE Of(mem[e].product, Users)
             m == [mem[e] EXCEPT !.seen = old]
  <2>1. mem[e] \in Updates
    BY <1>1, <1>4, Holds DEF DeleteAuthors, Step, Editing
  <2>2. old \in SUBSET [product : Products, of : Users \cup Labels, by : Requests \cup {None}]
    BY <1>1, <1>2 DEF RowTypes, Live
  <2>3. m \in Updates
    BY <2>1, <2>2 DEF Updates
  <2>4. m \in Memory /\ Fits(e, "labels", m)
    BY <2>3 DEF Memory, Fits
  <2> QED
    BY <1>1, <1>4, <2>4, OnlyMemory DEF DeleteAuthors, Step, Keeps, Editing
<1>5. CASE DeleteLabels(e)
  <2> DEFINE b == mem[e].body
             old == mem[e].seen \cup Of(mem[e].product, b.given \ b.want)
             m == [mem[e] EXCEPT !.seen = old]
  <2>1. mem[e] \in Updates
    BY <1>1, <1>5, Holds DEF DeleteLabels, Step, Editing
  <2>2. old \in SUBSET [product : Products, of : Users \cup Labels, by : Requests \cup {None}]
    BY <1>1, <1>2, <2>1 DEF RowTypes, Live, Updates
  <2>3. m \in Updates
    BY <2>1, <2>2 DEF Updates
  <2>4. m \in Memory /\ Fits(e, "find", m)
    BY <2>3 DEF Memory, Fits
  <2> QED
    BY <1>1, <1>5, <2>4, OnlyMemory DEF DeleteLabels, Step, Keeps, Editing
<1>6. CASE FindLabels(e)
  <2> DEFINE there == {x.of : x \in Of(mem[e].product, mem[e].body.want)}
             m == [mem[e] EXCEPT !.found = there]
  <2>1. mem[e] \in Updates
    BY <1>1, <1>6, Holds DEF FindLabels, Step, Editing
  <2>2. mem[e].body \in Edits
    BY <2>1 DEF Updates
  <2>3. \A x \in Of(mem[e].product, mem[e].body.want) : x.of \in mem[e].body.want
    BY DEF Of
  <2>4. there \in SUBSET Labels
    BY <2>2, <2>3, TreeConstants
  <2>5. m \in Updates
    BY <2>1, <2>4 DEF Updates
  <2>6. m \in Memory /\ Fits(e, "commit", m)
    BY <2>5 DEF Memory, Fits
  <2> QED
    BY <1>1, <1>6, <2>6, OnlyMemory DEF FindLabels, Step, Keeps, Editing
<1> QED
  BY <1>3, <1>4, <1>5, <1>6

LEMMA CommitTypes ==
  ASSUME TInv, NEW e \in Editors, Commit(e)
  PROVE  TInv'
<1>1. RequestTypes /\ RowTypes /\ e \in Requests
  BY DEF TInv, Requests
<1> DEFINE p == mem[e].product
           b == mem[e].body
           authors == IF b.authors = Keep THEN {} ELSE b.authors
           new == authors \cup (b.want \ mem[e].found)
           kept == rows \ mem[e].seen
           added == {x \in new : \A y \in kept : y.product = p => y.of # x}
<1>2. /\ new \cap Labels \subseteq Live
      /\ rows' = kept \cup Row(p, added, e)
      /\ late' = IF b.authors # Keep /\ ~(Of(p, Users) \subseteq mem[e].seen)
                 THEN late \cup {e} ELSE late
      /\ \E s \in {shown[p], "shown", "archived"} : shown' = [shown EXCEPT ![p] = s]
      /\ UNCHANGED tree /\ Finish(e, "commit")
  BY DEF Commit
<1>3. p \in Products /\ b \in Edits
  BY <1>1, <1>2, Holds DEF Finish, Step, Editing, Updates
<1>4. authors \subseteq Users /\ b.want \subseteq Labels
  BY <1>3, EditTypes
<1>5. new \subseteq Users \cup Live
  BY <1>2, <1>4
<1>6. added \subseteq new
  OBVIOUS
<1>7. Row(p, added, e) \subseteq [product : Products, of : Users \cup Live, by : Requests \cup {None}]
  <2> HIDE DEF added, new, p
  <2> QED
    BY <1>1, <1>3, <1>5, <1>6 DEF Row
<1>8. rows' \subseteq [product : Products, of : Users \cup Live, by : Requests \cup {None}]
  <2> HIDE DEF added, p
  <2> QED
    BY <1>1, <1>2, <1>7 DEF RowTypes
<1>9. shown' \in [Products -> {"absent", "shown", "archived"}] /\ late' \subseteq Editors
  BY <1>1, <1>2, <1>3 DEF RowTypes
<1> QED
  BY <1>1, <1>2, <1>8, <1>9, OnlyRows

LEMMA TInvStep == TInv /\ [Next]_vars => TInv'
<1> SUFFICES ASSUME TInv, [Next]_vars PROVE TInv'
  OBVIOUS
<1>1. CASE \E r \in Callers : CallStep(r)
  BY <1>1, CreateLabelTypes, UpdateCategoryTypes, RemoveTagTypes, CreateProductTypes DEF CallStep
<1>2. CASE \E r \in Removers : RemoveStep(r)
  BY <1>2, FindNodeTypes, RelinkTypes, DeleteTypes DEF RemoveStep
<1>3. CASE \E r \in Walkers : WalkStep(r)
  BY <1>3, WalkTypes
<1>4. CASE \E e \in Editors : EditStep(e)
  BY <1>4, UpdateTypes, CommitTypes, ArchiveTypes DEF EditStep
<1>5. CASE \E r \in Requests : Fail(r)
  BY <1>5, FailTypes
<1>6. CASE UNCHANGED vars
  BY <1>6 DEF vars, TInv, RowTypes, RequestTypes, KidsStay, Moving, Live, LiveCategories, Fits
<1> QED
  BY <1>1, <1>2, <1>3, <1>4, <1>5, <1>6 DEF Next

LEMMA TInvAlways == Spec => []TInv
BY TInvInit, TInvStep, PTL DEF Spec

\* The types of the variables, and the references of the schema: the parent of
\* a category exists, and so does every label that a product carries, whatever
\* requests create, move, remove and replace at the same time.
THEOREM TypeCorrect == Spec => []TypeOK
BY TInvAlways, Types, PTL

-----------------------------------------------------------------------------
(* Where cycles come from *)

\* Categories none of which has its parent outside: there is a cycle in S.
Trapped(S) == S \in SUBSET LiveCategories /\ S # {} /\ \A c \in S : parent[c] \in S

LEMMA ForestIsFree == Forest <=> \A S : ~Trapped(S)
BY DEF Forest, Trapped

LEMMA ForestIsFreeNext == Forest' <=> \A S : ~Trapped(S)'
BY DEF Forest, Trapped

\* A new category is nobody's parent.
LEMMA CreatedLeaf ==
  ASSUME TInv, NEW r \in Callers, CreateLabel(r), NEW S, Trapped(S)'
  PROVE  \E T : Trapped(T)
<1>1. RowTypes
  BY DEF TInv
<1>2. PICK l \in Labels, p \in LiveCategories \cup {Root} :
        /\ state[l] = "unborn" /\ state' = [state EXCEPT ![l] = "live"]
        /\ parent' = IF l \in Categories THEN [parent EXCEPT ![l] = p] ELSE parent
  BY DEF CreateLabel
<1>3. Live' = Live \cup {l} /\ l \notin Live
  BY <1>1, <1>2 DEF Live, RowTypes
<1>4. S \subseteq LiveCategories \cup {l} /\ S # {} /\ S \subseteq Categories
      /\ \A x \in S : parent'[x] \in S
  BY <1>3 DEF Trapped, LiveCategories
<1>5. \A x \in S \ {l} : parent[x] \in S \ {l}
  <2> SUFFICES ASSUME NEW x \in S \ {l} PROVE parent[x] \in S \ {l}
    OBVIOUS
  <2>1. parent'[x] = parent[x]
    BY <1>1, <1>2, <1>4 DEF RowTypes
  <2>2. parent[x] \in LiveCategories \cup {Root}
    BY <1>1, <1>4 DEF RowTypes
  <2>3. parent[x] # l
    BY <1>2, <1>3, <2>2, TreeConstants DEF LiveCategories
  <2> QED
    BY <1>4, <2>1, <2>3
<1>6. S \ {l} # {}
  <2>1. CASE l \notin S
    BY <1>4, <2>1
  <2>2. CASE l \in S
    <3>1. parent'[l] = p
      BY <1>1, <1>2, <1>4, <2>2 DEF RowTypes
    <3>2. p \in S
      BY <1>4, <2>2, <3>1
    <3>3. p # l
      BY <1>2, <1>3, TreeConstants DEF LiveCategories
    <3> QED
      BY <3>2, <3>3
  <2> QED
    BY <2>1, <2>2
<1>7. Trapped(S \ {l})
  BY <1>4, <1>5, <1>6 DEF Trapped
<1> QED
  BY <1>7

\* If the parent is not below the category, what is trapped after the update and
\* not below it was trapped before.
LEMMA MovedBelow ==
  ASSUME TInv, Forest, NEW r \in Callers, UpdateCategory(r), NEW S, Trapped(S)'
  PROVE  MovedUnderItself
<1>1. RowTypes /\ RequestTypes /\ r \in Requests
  BY DEF TInv, Requests
<1>2. PICK c \in LiveCategories, p \in LiveCategories \cup {Root} :
        parent' = [parent EXCEPT ![c] = p]
  BY DEF UpdateCategory
<1>3. LiveCategories' = LiveCategories
  BY DEF UpdateCategory, Live, LiveCategories
<1>4. S \subseteq LiveCategories /\ S # {} /\ \A x \in S : parent'[x] \in S
  BY <1>3 DEF Trapped
<1>5. parent'[c] = p /\ \A x \in S \ {c} : parent'[x] = parent[x]
  BY <1>1, <1>2, <1>4 DEF RowTypes, LiveCategories
<1>6. c \in S /\ p \in S /\ p # parent[c]
  <2>1. ~Trapped(S)
    BY ForestIsFree
  <2>2. PICK x \in S : parent[x] \notin S
    BY <1>4, <2>1 DEF Trapped
  <2>3. x = c /\ parent'[c] \in S
    BY <1>4, <1>5, <2>2
  <2> QED
    BY <1>5, <2>2, <2>3
<1>7. p \in Under(c)
  <2> SUFFICES ASSUME NEW U \in SUBSET LiveCategories, c \in U, p \notin U,
                      \A x \in LiveCategories : parent[x] \in U => x \in U
               PROVE  FALSE
    BY <1>4, <1>6 DEF Under
  <2>1. \A x \in S \ U : parent[x] \in S \ U
    BY <1>4, <1>5
  <2>2. Trapped(S \ U)
    BY <1>4, <1>6, <2>1 DEF Trapped
  <2> QED
    BY <2>2, ForestIsFree
<1>8. pc[r] = "idle" /\ pc'[r] = "over"
  BY <1>1 DEF UpdateCategory, Finish, Step, RequestTypes
<1> QED
  BY <1>5, <1>6, <1>7, <1>8 DEF MovedUnderItself

\* Children that go to the parent which the category still has make no cycle.
LEMMA RemovedInPlace ==
  ASSUME TInv, NEW r \in Removers, Delete(r), mem[r].at = parent[mem[r].node],
         NEW S, Trapped(S)'
  PROVE  \E T : Trapped(T)
<1> DEFINE n == mem[r].node
<1>1. RowTypes /\ KidsStay
  BY DEF TInv
<1>2. n \in LiveCategories /\ LiveCategories' = LiveCategories \ {n} /\ pc[r] = "delete"
  BY Deleted1
<1>3. S \subseteq LiveCategories \ {n} /\ S # {} /\ \A x \in S : parent'[x] \in S
  BY <1>2 DEF Trapped
<1>4. \A x \in S : parent'[x] # Root
  BY <1>3, TreeConstants DEF LiveCategories
<1>5. \A x \in S : (IF x \in mem[r].kids THEN mem[r].at ELSE parent[x]) \in S
  BY <1>3, <1>4, Deleted1 DEF LiveCategories
<1>6. \A x \in mem[r].kids : parent[x] = n
  BY <1>1, <1>2 DEF KidsStay
<1>7. CASE S \cap mem[r].kids = {}
  <2>1. Trapped(S)
    BY <1>3, <1>5, <1>7 DEF Trapped
  <2> QED
    BY <2>1
<1>8. CASE S \cap mem[r].kids # {}
  <2>1. parent[n] \in S
    BY <1>5, <1>8
  <2>2. \A x \in S : parent[x] \in S \cup {n}
    BY <1>5, <1>6
  <2>3. Trapped(S \cup {n})
    BY <1>2, <1>3, <2>1, <2>2 DEF Trapped
  <2> QED
    BY <2>3
<1> QED
  BY <1>7, <1>8

LEMMA TreeAlone ==
  ASSUME LiveCategories' = LiveCategories, parent' = parent
  PROVE  Forest' = Forest
BY DEF Forest

LEMMA CycleStep ==
  ASSUME TInv, [Next]_vars, Forest, ~Forest'
  PROVE  MovedUnderItself \/ RemovedStale
<1>1. PICK S : Trapped(S)'
  BY ForestIsFreeNext
<1>2. \A T : ~Trapped(T)
  BY ForestIsFree
<1>3. ~(LiveCategories' = LiveCategories /\ parent' = parent)
  BY TreeAlone
<1>4. ~UNCHANGED tree
  BY <1>3 DEF tree, Live, LiveCategories
<1>5. ASSUME NEW r \in Callers, CallStep(r) PROVE MovedUnderItself
  <2>1. ~CreateLabel(r)
    BY <1>1, <1>2, CreatedLeaf
  <2>2. ~RemoveTag(r)
    BY <1>3, RemoveTagTypes DEF RemoveTag
  <2>3. ~CreateProduct(r)
    BY <1>4 DEF CreateProduct
  <2> QED
    BY <1>1, <1>5, <2>1, <2>2, <2>3, MovedBelow DEF CallStep
<1>6. ASSUME NEW r \in Removers, RemoveStep(r) PROVE RemovedStale
  <2>1. Delete(r)
    BY <1>4, <1>6 DEF RemoveStep, FindNode, Relink
  <2>2. mem[r].at # parent[mem[r].node]
    BY <1>1, <1>2, <2>1, RemovedInPlace
  <2> QED
    BY <2>1, <2>2, Deleted1 DEF RemovedStale
<1>7. ~\E r \in Walkers : WalkStep(r)
  BY <1>4 DEF WalkStep, StartWalk, Walk
<1>8. ~\E e \in Editors : EditStep(e)
  BY <1>4 DEF EditStep, StartUpdate, DeleteAuthors, DeleteLabels, FindLabels, Commit,
              StartArchive, Archive
<1>9. ~\E r \in Requests : Fail(r)
  BY <1>4 DEF Fail
<1>10. ~UNCHANGED vars
  BY <1>4 DEF vars, tree
<1> QED
  BY <1>5, <1>6, <1>7, <1>8, <1>9, <1>10 DEF Next

\* However many requests move and remove categories at the same time, the tree
\* gets a cycle only by an update() that puts a category below itself, or by a
\* remove() whose parentId was out of date when it deleted.
THEOREM CyclesOnlyFrom == Spec => CyclesComeFrom
<1>1. TInv /\ [Next]_vars => [Forest /\ ~Forest' => MovedUnderItself \/ RemovedStale]_vars
  BY CycleStep
<1> QED
  BY <1>1, TInvAlways, PTL DEF Spec, CyclesComeFrom

-----------------------------------------------------------------------------
(* How many authors a product can get *)

\* An update that goes on has a list that is allowed, of a product that exists.
ListsAllowed ==
  \A e \in Editors : pc[e] \in Editing =>
    Allowed(mem[e].body.authors) /\ shown[mem[e].product] # "absent"
AbsentBare == \A p \in Products : shown[p] = "absent" => \A x \in rows : x.product # p
LateOver == \A e \in late : pc[e] = "over"

AInv == ListsAllowed /\ AbsentBare /\ LateOver /\ AuthorsBounded

\* A list that is given is a set of users of at most MaxAuthors.
LEMMA AllowedLists ==
  ASSUME NEW authors, authors \subseteq Users, Allowed(authors)
  PROVE  IsFiniteSet(authors) /\ Cardinality(authors) \in Nat /\ Cardinality(authors) <= MaxAuthors
<1>1. authors # Keep
  BY TreeConstants DEF Keep
<1>2. IsFiniteSet(authors)
  BY BodiesAreValid, FS_Subset
<1> QED
  BY <1>1, <1>2, FS_CardinalityType DEF Allowed

LEMMA AuthorsFinite ==
  ASSUME TInv, NEW p
  PROVE  Authors(p) \subseteq Users /\ IsFiniteSet(Authors(p)) /\ Cardinality(Authors(p)) \in Nat
<1>1. Authors(p) \subseteq Users
  BY DEF Authors, Of
<1> QED
  BY <1>1, BodiesAreValid, FS_Subset, FS_CardinalityType

LEMMA LateFinite ==
  ASSUME TInv
  PROVE  IsFiniteSet(late) /\ Cardinality(late) \in Nat
<1>1. late \subseteq Editors
  BY DEF TInv, RowTypes
<1> QED
  BY <1>1, EditorsAreFinite, FS_Subset, FS_CardinalityType

LEMMA AuthorsShrink ==
  ASSUME TInv, AuthorsBounded, rows' \subseteq rows, late' = late
  PROVE  AuthorsBounded'
<1> SUFFICES ASSUME NEW p \in Products
             PROVE  Cardinality(Authors(p)') <= MaxAuthors * (1 + Cardinality(late))
  BY DEF AuthorsBounded
<1>1. Authors(p)' \subseteq Authors(p)
  BY DEF Authors, Of
<1>2. Cardinality(Authors(p)') \in Nat /\ Cardinality(Authors(p)') <= Cardinality(Authors(p))
  BY <1>1, AuthorsFinite, FS_Subset, FS_CardinalityType
<1>3. Cardinality(Authors(p)) <= MaxAuthors * (1 + Cardinality(late))
  BY DEF AuthorsBounded
<1>4. MaxAuthors * (1 + Cardinality(late)) \in Nat /\ Cardinality(Authors(p)) \in Nat
  BY LateFinite, LimitsArePositive, AuthorsFinite
<1> DEFINE a == Cardinality(Authors(p)')
           b == Cardinality(Authors(p))
           c == MaxAuthors * (1 + Cardinality(late))
<1>5. a \in Nat /\ b \in Nat /\ c \in Nat /\ a <= b /\ b <= c
  BY <1>2, <1>3, <1>4
<1> HIDE DEF a, b, c
<1>6. a <= c
  BY <1>5
<1> QED
  BY <1>6 DEF a, c

\* A step of r that no editor takes on with, and that adds no row.
LEMMA Quiet ==
  ASSUME TInv, AInv, NEW r \in Requests, pc[r] # "over", NEW to, to \notin Editing, NEW m,
         pc' = [pc EXCEPT ![r] = to], mem' = [mem EXCEPT ![r] = m],
         rows' \subseteq rows, late' = late,
         \A p \in Products : shown'[p] = "absent" <=> shown[p] = "absent"
  PROVE  AInv'
<1>1. AuthorsBounded'
  BY AuthorsShrink DEF AInv
<1>2. AbsentBare'
  BY DEF AInv, AbsentBare
<1>3. LateOver'
  BY DEF AInv, LateOver, TInv, RowTypes, RequestTypes, Requests
<1>4. ListsAllowed'
  <2> SUFFICES ASSUME NEW e \in Editors, pc'[e] \in Editing
               PROVE  Allowed(mem'[e].body.authors) /\ shown'[mem'[e].product] # "absent"
    BY DEF ListsAllowed, Allowed
  <2>1. e \in Requests /\ e # r /\ pc'[e] = pc[e] /\ mem'[e] = mem[e]
    BY DEF TInv, RequestTypes, Requests
  <2>2. mem[e].product \in Products
    BY <2>1, Holds DEF TInv, Updates
  <2> QED
    BY <2>1, <2>2 DEF AInv, ListsAllowed
<1> QED
  BY <1>1, <1>2, <1>3, <1>4 DEF AInv

LEMMA OtherSteps ==
  ASSUME TInv, AInv,
         \/ \E r \in Callers : CreateLabel(r) \/ UpdateCategory(r) \/ RemoveTag(r)
         \/ \E r \in Removers : RemoveStep(r)
         \/ \E r \in Walkers : WalkStep(r)
         \/ \E e \in Editors : StartArchive(e)
         \/ \E r \in Requests : Fail(r)
  PROVE  AInv'
<1> USE DEF Requests, Step, Keeps, Finish, Editing
<1>1. CASE \E r \in Callers : CreateLabel(r) \/ UpdateCategory(r) \/ RemoveTag(r)
  <2>1. PICK r \in Callers : CreateLabel(r) \/ UpdateCategory(r) \/ RemoveTag(r)
    BY <1>1
  <2>2. rows' \subseteq rows /\ late' = late /\ shown' = shown /\ Finish(r, "idle")
    BY <2>1 DEF CreateLabel, UpdateCategory, RemoveTag
  <2> QED
    BY <2>2, Quiet
<1>2. CASE \E r \in Removers : RemoveStep(r)
  <2>1. PICK r \in Removers : RemoveStep(r)
    BY <1>2
  <2>2. CASE FindNode(r)
    BY <2>2, Quiet DEF FindNode
  <2>3. CASE Relink(r)
    BY <2>3, Quiet DEF Relink
  <2>4. CASE Delete(r)
    <3>1. rows' \subseteq rows /\ late' = late /\ shown' = shown /\ Finish(r, "delete")
      BY <2>4 DEF Delete
    <3> QED
      BY <3>1, Quiet
  <2> QED
    BY <2>1, <2>2, <2>3, <2>4 DEF RemoveStep
<1>3. CASE \E r \in Walkers : WalkStep(r)
  <2>1. PICK r \in Walkers : StartWalk(r) \/ Walk(r)
    BY <1>3 DEF WalkStep
  <2>2. CASE StartWalk(r)
    BY <2>2, Quiet DEF StartWalk
  <2>3. CASE Walk(r)
    <3>1. PICK m : mem' = [mem EXCEPT ![r] = m]
      BY <2>3 DEF Walk
    <3> QED
      BY <2>3, <3>1, Quiet DEF Walk
  <2> QED
    BY <2>1, <2>2, <2>3
<1>4. CASE \E e \in Editors : StartArchive(e)
  BY <1>4, Quiet DEF StartArchive
<1>5. CASE \E r \in Requests : Fail(r)
  BY <1>5, Quiet DEF Fail
<1> QED
  BY <1>1, <1>2, <1>3, <1>4, <1>5

LEMMA ArchiveBound ==
  ASSUME TInv, AInv, NEW e \in Editors, Archive(e)
  PROVE  AInv'
<1>1. e \in Requests /\ pc[e] = "archive" /\ pc' = [pc EXCEPT ![e] = "over"]
      /\ mem' = [mem EXCEPT ![e] = Nothing]
  BY DEF Archive, Finish, Step, Keeps, Requests
<1>2. mem[e] \in Archives
  BY <1>1, Holds DEF TInv
<1>3. \A p \in Products : shown'[p] # "absent" \/ shown'[p] = shown[p]
  BY <1>2 DEF Archive, TInv, RowTypes
<1>4. \A p \in Products : shown[p] # "absent" => shown'[p] # "absent"
  BY <1>2 DEF Archive, TInv, RowTypes
<1>5. AuthorsBounded'
  BY AuthorsShrink DEF AInv, Archive
<1>6. AbsentBare'
  BY <1>3 DEF AInv, AbsentBare, Archive
<1>7. LateOver'
  BY <1>1 DEF AInv, LateOver, TInv, RowTypes, RequestTypes, Requests, Archive
<1>8. ListsAllowed'
  <2> SUFFICES ASSUME NEW o \in Editors, pc'[o] \in Editing
               PROVE  Allowed(mem'[o].body.authors) /\ shown'[mem'[o].product] # "absent"
    BY DEF ListsAllowed, Allowed
  <2>1. o \in Requests /\ o # e /\ pc'[o] = pc[o] /\ mem'[o] = mem[o]
    BY <1>1 DEF TInv, RequestTypes, Requests, Editing
  <2>2. mem[o].product \in Products
    BY <2>1, Holds DEF TInv, Updates
  <2> QED
    BY <1>4, <2>1, <2>2 DEF AInv, ListsAllowed
<1> QED
  BY <1>5, <1>6, <1>7, <1>8 DEF AInv

LEMMA UpdateBound ==
  ASSUME TInv, AInv, NEW e \in Editors,
         StartUpdate(e) \/ DeleteAuthors(e) \/ DeleteLabels(e) \/ FindLabels(e)
  PROVE  AInv'
<1> DEFINE old == IF mem[e].body.authors = Keep THEN {} ELSE Of(mem[e].product, Users)
           more == mem[e].seen \cup Of(mem[e].product, mem[e].body.given \ mem[e].body.want)
           there == {x.of : x \in Of(mem[e].product, mem[e].body.want)}
<1>1. UNCHANGED <<rows, late, shown>> /\ e \in Requests /\ pc[e] # "over"
      /\ \E to \in Editing : pc' = [pc EXCEPT ![e] = to]
  BY DEF StartUpdate, DeleteAuthors, DeleteLabels, FindLabels, Step, Requests, Editing
<1>2. Allowed(mem'[e].body.authors) /\ shown[mem'[e].product] # "absent"
      /\ \A o \in Editors \ {e} : mem'[o] = mem[o]
  <2>1. CASE StartUpdate(e)
    <3>1. PICK p \in Products, b \in Edits, actor \in Users :
            /\ CanEdit(p, actor) /\ Allowed(b.authors)
            /\ Keeps(e, [product |-> p, body |-> b, seen |-> {}, found |-> {}])
      BY <2>1 DEF StartUpdate
    <3>2. mem'[e].body = b /\ mem'[e].product = p
      BY <1>1, <3>1 DEF Keeps, TInv, RequestTypes
    <3> QED
      BY <3>1, <3>2 DEF CanEdit, Keeps, TInv, RequestTypes, Requests
  <2>2. CASE DeleteAuthors(e) \/ DeleteLabels(e) \/ FindLabels(e)
    <3>1. pc[e] \in Editing
      BY <2>2 DEF DeleteAuthors, DeleteLabels, FindLabels, Step, Editing
    <3>2. mem[e] \in Updates
      BY <1>1, <3>1, Holds DEF TInv
    <3>3. \/ mem' = [mem EXCEPT ![e] = [mem[e] EXCEPT !.seen = old]]
          \/ mem' = [mem EXCEPT ![e] = [mem[e] EXCEPT !.seen = more]]
          \/ mem' = [mem EXCEPT ![e] = [mem[e] EXCEPT !.found = there]]
      <4>1. CASE DeleteAuthors(e)
        BY <4>1 DEF DeleteAuthors, Keeps
      <4>2. CASE DeleteLabels(e)
        BY <3>2, <4>2 DEF DeleteLabels, Keeps, Updates
      <4>3. CASE FindLabels(e)
        BY <4>3 DEF FindLabels, Keeps
      <4> QED
        BY <2>2, <4>1, <4>2, <4>3
    <3> HIDE DEF old, more, there
    <3>4. mem'[e].body = mem[e].body /\ mem'[e].product = mem[e].product
      BY <1>1, <3>2, <3>3 DEF TInv, RequestTypes, Updates
    <3>5. \A o \in Editors \ {e} : mem'[o] = mem[o]
      BY <3>3 DEF TInv, RequestTypes, Requests
    <3> QED
      BY <3>1, <3>4, <3>5 DEF AInv, ListsAllowed
  <2> QED
    BY <2>1, <2>2
<1>3. ListsAllowed'
  <2> SUFFICES ASSUME NEW o \in Editors, pc'[o] \in Editing
               PROVE  Allowed(mem'[o].body.authors) /\ shown'[mem'[o].product] # "absent"
    BY DEF ListsAllowed, Allowed
  <2>1. CASE o = e
    BY <1>1, <1>2, <2>1
  <2>2. CASE o # e
    <3>1. o \in Requests /\ pc'[o] = pc[o] /\ mem'[o] = mem[o]
      BY <1>1, <1>2, <2>2 DEF TInv, RequestTypes, Requests
    <3> QED
      BY <1>1, <3>1 DEF AInv, ListsAllowed
  <2> QED
    BY <2>1, <2>2
<1>4. AuthorsBounded'
  BY <1>1, AuthorsShrink DEF AInv
<1>5. AbsentBare'
  BY <1>1 DEF AInv, AbsentBare
<1>6. LateOver'
  BY <1>1 DEF AInv, LateOver, TInv, RowTypes, RequestTypes, Requests
<1> QED
  BY <1>3, <1>4, <1>5, <1>6 DEF AInv

LEMMA CreateBound ==
  ASSUME TInv, AInv, NEW r \in Callers, CreateProduct(r)
  PROVE  AInv'
<1>1. PICK p \in Products, b \in Edits, actor \in Users :
       LET authors == IF b.authors \in {Keep, {}} THEN {actor} ELSE b.authors IN
       /\ Allowed(authors) /\ shown[p] = "absent" /\ b.want \subseteq Live
       /\ rows' = rows \cup Row(p, authors \cup b.want, r)
       /\ shown' = [shown EXCEPT ![p] = "shown"]
  BY DEF CreateProduct
<1> DEFINE authors == IF b.authors \in {Keep, {}} THEN {actor} ELSE b.authors
<1>2. authors \subseteq Users /\ b.want \subseteq Labels
  BY EditTypes
<1>3. Allowed(authors) /\ shown[p] = "absent" /\ rows' = rows \cup Row(p, authors \cup b.want, r)
      /\ shown' = [shown EXCEPT ![p] = "shown"] /\ late' = late /\ r \in Requests
      /\ pc[r] = "idle" /\ pc' = [pc EXCEPT ![r] = "over"] /\ mem' = [mem EXCEPT ![r] = Nothing]
  BY <1>1 DEF CreateProduct, Finish, Step, Keeps, Requests
<1> HIDE DEF authors
<1>4. \A q \in Products \ {p} : Authors(q)' = Authors(q)
  BY <1>3 DEF Authors, Of, Row
<1>5. Authors(p)' \subseteq authors
  <2>1. \A x \in rows : x.product # p
    BY <1>3 DEF AInv, AbsentBare
  <2> QED
    BY <1>2, <1>3, <2>1, TreeConstants DEF Authors, Of, Row
<1>6. AuthorsBounded'
  <2> SUFFICES ASSUME NEW q \in Products
               PROVE  Cardinality(Authors(q)') <= MaxAuthors * (1 + Cardinality(late))
    BY <1>3 DEF AuthorsBounded
  <2>1. CASE q # p
    BY <1>4, <2>1 DEF AInv, AuthorsBounded
  <2>2. CASE q = p
    <3> DEFINE a == Cardinality(Authors(p)')
               b1 == Cardinality(authors)
               n == Cardinality(late)
    <3>1. a \in Nat /\ a <= b1
      BY <1>2, <1>3, <1>5, AllowedLists, FS_Subset, FS_CardinalityType
    <3>2. b1 \in Nat /\ b1 <= MaxAuthors
      BY <1>2, <1>3, AllowedLists
    <3>3. n \in Nat /\ MaxAuthors \in Nat
      BY LateFinite, LimitsArePositive
    <3> HIDE DEF a, b1, n
    <3>4. a <= MaxAuthors
      BY <3>1, <3>2, <3>3
    <3>5. MaxAuthors <= MaxAuthors * (1 + n)
      BY <3>3
    <3>6. MaxAuthors * (1 + n) \in Nat
      BY <3>3
    <3>7. a <= MaxAuthors * (1 + n)
      BY <3>1, <3>3, <3>4, <3>5, <3>6
    <3> QED
      BY <2>2, <3>7 DEF a, n
  <2> QED
    BY <2>1, <2>2
<1>7. AbsentBare'
  BY <1>3 DEF AInv, AbsentBare, Row, TInv, RowTypes
<1>8. LateOver'
  BY <1>3 DEF AInv, LateOver, TInv, RowTypes, RequestTypes, Requests
<1>9. ListsAllowed'
  <2> SUFFICES ASSUME NEW o \in Editors, pc'[o] \in Editing
               PROVE  Allowed(mem'[o].body.authors) /\ shown'[mem'[o].product] # "absent"
    BY DEF ListsAllowed, Allowed
  <2>1. o \in Requests /\ o # r /\ pc'[o] = pc[o] /\ mem'[o] = mem[o]
    BY <1>3 DEF TInv, RequestTypes, Requests, Editing
  <2>2. shown[mem[o].product] # "absent" /\ Allowed(mem[o].body.authors)
    BY <2>1 DEF AInv, ListsAllowed
  <2>3. mem[o].product \in Products
    BY <2>1, Holds DEF TInv, Updates
  <2> QED
    BY <1>3, <2>1, <2>2, <2>3 DEF TInv, RowTypes
<1> QED
  BY <1>6, <1>7, <1>8, <1>9 DEF AInv

LEMMA CommitBound ==
  ASSUME TInv, AInv, NEW e \in Editors, Commit(e)
  PROVE  AInv'
<1>0. PICK p : p = mem[e].product
  OBVIOUS
<1> DEFINE b == mem[e].body
           authors == IF b.authors = Keep THEN {} ELSE b.authors
           new == authors \cup (b.want \ mem[e].found)
           kept == rows \ mem[e].seen
           added == {x \in new : \A y \in kept : y.product = p => y.of # x}
           isLate == b.authors # Keep /\ ~(Of(p, Users) \subseteq mem[e].seen)
<1>1. /\ rows' = kept \cup Row(p, added, e)
      /\ late' = IF isLate THEN late \cup {e} ELSE late
      /\ \E s \in {shown[p], "shown", "archived"} : shown' = [shown EXCEPT ![p] = s]
      /\ pc[e] = "commit" /\ pc' = [pc EXCEPT ![e] = "over"]
      /\ mem' = [mem EXCEPT ![e] = Nothing] /\ e \in Requests
  BY <1>0 DEF Commit, Finish, Step, Keeps, Requests
<1>2. p \in Products /\ b \in Edits
  BY <1>0, <1>1, Holds DEF TInv, Editing, Updates
<1>3. Allowed(b.authors) /\ shown[p] # "absent"
  BY <1>0, <1>1 DEF AInv, ListsAllowed, Editing
<1>4. authors \subseteq Users /\ b.want \subseteq Labels
  BY <1>2, EditTypes
<1>5. IsFiniteSet(authors) /\ Cardinality(authors) \in Nat /\ Cardinality(authors) <= MaxAuthors
  <2>1. CASE b.authors = Keep
    <3>1. authors = {}
      BY <2>1
    <3>2. IsFiniteSet({}) /\ Cardinality({}) = 0
      BY FS_EmptySet
    <3>3. MaxAuthors \in Nat /\ 0 <= MaxAuthors
      BY LimitsArePositive
    <3> HIDE DEF authors
    <3> QED
      BY <3>1, <3>2, <3>3
  <2>2. CASE b.authors # Keep
    <3>1. authors = b.authors
      BY <2>2
    <3> HIDE DEF authors
    <3> QED
      BY <1>3, <1>4, <3>1, AllowedLists
  <2> QED
    BY <2>1, <2>2
<1>6. added \cap Users \subseteq authors
  BY <1>4, TreeConstants
<1>7. \A q \in Products \ {p} : Authors(q)' \subseteq Authors(q)
  <2> HIDE DEF added
  <2> QED
    BY <1>1, <1>2 DEF Authors, Of, Row
<1>8. Authors(p)' \subseteq Authors(p) \cup authors
  <2> HIDE DEF added, authors
  <2> QED
    BY <1>1, <1>6 DEF Authors, Of, Row
<1>9. ~isLate => Authors(p)' \subseteq Authors(p) \/ Authors(p)' \subseteq authors
  <2>1. CASE b.authors = Keep
    BY <1>8, <2>1
  <2>2. CASE b.authors # Keep /\ Of(p, Users) \subseteq mem[e].seen
    <3>1. \A x \in kept : ~(x.product = p /\ x.of \in Users)
      BY <2>2 DEF Of
    <3> HIDE DEF added, authors, kept
    <3>2. Authors(p)' \subseteq authors
      BY <1>1, <1>6, <3>1 DEF Authors, Of, Row
    <3> QED
      BY <3>2
  <2> QED
    BY <2>1, <2>2
<1>10. e \notin late /\ LateOver'
  BY <1>1 DEF AInv, LateOver, TInv, RowTypes, RequestTypes, Requests
<1> HIDE DEF b, authors, new, kept, added, isLate
<1>11. AuthorsBounded'
  <2> DEFINE n == Cardinality(late)
             m == Cardinality(late')
  <2>1. n \in Nat /\ m = IF isLate THEN n + 1 ELSE n
    BY <1>1, <1>10, LateFinite, FS_AddElement
  <2>2. MaxAuthors \in Nat
    BY LimitsArePositive
  <2> SUFFICES ASSUME NEW q \in Products
               PROVE  Cardinality(Authors(q)') <= MaxAuthors * (1 + m)
    BY DEF AuthorsBounded
  <2> DEFINE a == Cardinality(Authors(q)')
             z == Cardinality(Authors(q))
             u == Cardinality(authors)
  <2>3. z \in Nat /\ z <= MaxAuthors * (1 + n)
    BY AuthorsFinite DEF AInv, AuthorsBounded
  <2>4. u \in Nat /\ u <= MaxAuthors
    BY <1>5
  <2>5. /\ Authors(q)' \subseteq Authors(q) \cup authors
        /\ ~isLate => Authors(q)' \subseteq Authors(q) \/ Authors(q)' \subseteq authors
    BY <1>7, <1>8, <1>9
  <2>6. a \in Nat /\ a <= z + u
    <3>1. IsFiniteSet(Authors(q) \cup authors)
          /\ Cardinality(Authors(q) \cup authors) \in Nat
          /\ Cardinality(Authors(q) \cup authors) <= z + u
      <4>1. IsFiniteSet(Authors(q)) /\ IsFiniteSet(authors) /\ z \in Nat /\ u \in Nat
        BY <1>5, AuthorsFinite
      <4>2. IsFiniteSet(Authors(q) \cup authors) /\ IsFiniteSet(Authors(q) \cap authors)
            /\ Cardinality(Authors(q) \cup authors) = z + u - Cardinality(Authors(q) \cap authors)
        BY <4>1, FS_Union, FS_Intersection
      <4>3. Cardinality(Authors(q) \cup authors) \in Nat /\ Cardinality(Authors(q) \cap authors) \in Nat
        BY <4>2, FS_CardinalityType
      <4> QED
        BY <4>1, <4>2, <4>3
    <3>2. a \in Nat /\ a <= Cardinality(Authors(q) \cup authors)
      BY <2>5, <3>1, FS_Subset, FS_CardinalityType
    <3> QED
      BY <2>3, <2>4, <3>1, <3>2
  <2>7. ~isLate => a <= z \/ a <= u
    BY <1>5, <2>5, AuthorsFinite, FS_Subset
  <2> HIDE DEF a, z, u, n, m
  <2>8. CASE isLate
    <3>1. MaxAuthors * (1 + m) = MaxAuthors * (1 + n) + MaxAuthors
      BY <2>1, <2>2, <2>8
    <3>2. MaxAuthors * (1 + n) \in Nat
      BY <2>1, <2>2
    <3> QED
      BY <2>2, <2>3, <2>4, <2>6, <3>1, <3>2 DEF a
  <2>9. CASE ~isLate
    <3>1. m = n /\ MaxAuthors * (1 + n) \in Nat /\ MaxAuthors <= MaxAuthors * (1 + n)
      BY <2>1, <2>2, <2>9
    <3>2. a <= MaxAuthors * (1 + n)
      BY <2>2, <2>3, <2>4, <2>6, <2>7, <2>9, <3>1
    <3> QED
      BY <3>1, <3>2 DEF a
  <2> QED
    BY <2>8, <2>9
<1>12. \A q \in Products : shown[q] # "absent" => shown'[q] # "absent"
  BY <1>1, <1>2, <1>3 DEF TInv, RowTypes
<1>13. AbsentBare'
  BY <1>1, <1>2, <1>3, <1>12 DEF AInv, AbsentBare, Row, kept, TInv, RowTypes
<1>14. ListsAllowed'
  <2> SUFFICES ASSUME NEW o \in Editors, pc'[o] \in Editing
               PROVE  Allowed(mem'[o].body.authors) /\ shown'[mem'[o].product] # "absent"
    BY DEF ListsAllowed, Allowed
  <2>1. o \in Requests /\ o # e /\ pc'[o] = pc[o] /\ mem'[o] = mem[o]
    BY <1>1 DEF TInv, RequestTypes, Requests, Editing
  <2>2. mem[o].product \in Products
    BY <2>1, Holds DEF TInv, Updates
  <2> QED
    BY <1>12, <2>1, <2>2 DEF AInv, ListsAllowed
<1> QED
  BY <1>10, <1>11, <1>13, <1>14 DEF AInv

LEMMA AInvInit == Init => AInv
<1> SUFFICES ASSUME Init PROVE AInv
  OBVIOUS
<1>1. late = {} /\ \A p \in Products : Cardinality(Authors(p)) <= MaxAuthors
  BY DEF Init
<1>2. AuthorsBounded
  <2>1. Cardinality(late) = 0
    BY <1>1, FS_EmptySet
  <2>2. MaxAuthors * (1 + 0) = MaxAuthors
    BY LimitsArePositive
  <2> QED
    BY <1>1, <2>1, <2>2 DEF AuthorsBounded
<1>3. ListsAllowed
  BY DEF Init, ListsAllowed, Editing, Requests
<1>4. AbsentBare
  BY DEF Init, AbsentBare
<1>5. LateOver
  BY <1>1 DEF LateOver
<1> QED
  BY <1>2, <1>3, <1>4, <1>5 DEF AInv

LEMMA AInvStep == TInv /\ AInv /\ [Next]_vars => AInv'
<1> SUFFICES ASSUME TInv, AInv, [Next]_vars PROVE AInv'
  OBVIOUS
<1>1. CASE \E r \in Callers : CallStep(r)
  BY <1>1, CreateBound, OtherSteps DEF CallStep
<1>2. CASE \E e \in Editors : EditStep(e)
  BY <1>2, UpdateBound, CommitBound, ArchiveBound, OtherSteps DEF EditStep
<1>3. CASE UNCHANGED vars
  BY <1>3 DEF vars, AInv, ListsAllowed, AbsentBare, LateOver, AuthorsBounded, Authors, Of, Allowed
<1> QED
  BY <1>1, <1>2, <1>3, OtherSteps DEF Next

\* A product has more authors than update() allows only after updates that did
\* not see each other's authors, and each of these adds at most one list.
THEOREM AuthorsOfOverlaps == Spec => []AuthorsBounded
<1>1. Init => TInv /\ AInv
  BY TInvInit, AInvInit
<1>2. TInv /\ AInv /\ [Next]_vars => (TInv /\ AInv)'
  BY TInvStep, AInvStep
<1>3. AInv => AuthorsBounded
  BY DEF AInv
<1> QED
  BY <1>1, <1>2, <1>3, PTL DEF Spec

=============================================================================
