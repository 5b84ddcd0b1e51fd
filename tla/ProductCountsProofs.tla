------------------------ MODULE ProductCountsProofs ------------------------
(***************************************************************************)
(* Proofs about ProductCounts, for any users, products, calls and flushes. *)
(*                                                                         *)
(* TypeOK and LikesCounted are inductive only together: likesCount stays a *)
(* natural number because the transaction that decrements it finds a row,  *)
(* and the count covers that row. TogglesAlternate needs that a call which *)
(* has answered is over (Over), so that no call answers twice.             *)
(***************************************************************************)
EXTENDS ProductCounts, FiniteSetTheorems, WellFoundedInduction, TLAPS

Fans(p) == {u \in Users : <<u, p>> \in marks["like"]}

\* A call has an answer only when it is over, and what toggles is a mark.
Over == \A c \in Calls : /\ ans[c] # "none" => pc[c] = "done"
                         /\ pc[c] = "toggle" => op[c].kind \in Kinds

Inv == TypeOK /\ LikesCounted /\ Over

\* The users who like a product are finitely many.
LEMMA FansFinite ==
  ASSUME NEW p
  PROVE  IsFiniteSet(Fans(p)) /\ Cardinality(Fans(p)) \in Nat
<1>1. Fans(p) \in SUBSET Users
  BY DEF Fans
<1>. QED  BY <1>1, CountConstants, FS_Subset, FS_CardinalityType

\* LikesCounted in terms of Fans.
LEMMA CountsFans == LikesCounted <=> \A p \in Products : likesCount[p] = Cardinality(Fans(p))
BY DEF LikesCounted, Fans

\* The initial state satisfies the invariant.
LEMMA InvInit == Init => Inv
<1>. SUFFICES ASSUME Init PROVE Inv
  OBVIOUS
<1>1. TypeOK
  BY CountConstants DEF Init, TypeOK, Zero, Kinds, Ops
<1>2. \A p \in Products : Fans(p) = {}
  BY DEF Init, Fans, Kinds
<1>3. LikesCounted
  BY <1>2, FS_EmptySet, CountsFans DEF Init, Zero
<1>4. Over
  BY DEF Init, Over
<1>. QED  BY <1>1, <1>3, <1>4 DEF Inv

\* A call that has a request has one of Ops.
LEMMA Requested ==
  ASSUME TypeOK, NEW c \in Calls, pc[c] # "idle"
  PROVE  /\ op[c] \in Ops
         /\ op[c].kind \in Kinds \cup {"unmark", "view", "register", "start"}
         /\ op[c].user \in Users /\ op[c].id \in Ids
         /\ op[c] = [kind |-> op[c].kind, user |-> op[c].user, id |-> op[c].id]
BY DEF TypeOK, Ops

\* The transaction that deletes a row keeps type and count.
LEMMA DropMarkInv ==
  ASSUME Inv, NEW c \in Calls, DropMark(c)
  PROVE  TypeOK' /\ LikesCounted'
<1>. USE DEF Inv
<1>1. PICK k \in Kinds, u \in Users, i \in Products :
        k = op[c].kind /\ u = op[c].user /\ i = op[c].id /\ <<u, i>> \in marks[k]
  <2>1. pc[c] = "toggle" /\ <<op[c].user, op[c].id>> \in marks[op[c].kind]
    BY DEF DropMark, Row
  <2>2. op[c].user \in Users /\ op[c].kind \in Kinds
    BY <2>1, Requested DEF Over
  <2>3. op[c].id \in Products
    BY <2>1, <2>2 DEF TypeOK
  <2>. QED  BY <2>1, <2>2, <2>3
<1>2. marks' = [marks EXCEPT ![k] = @ \ {<<u, i>>}]
  BY <1>1 DEF DropMark, Row
<1>. likesCount \in [Products -> Nat] /\ marks \in [Kinds -> SUBSET (Users \X Products)]
  BY DEF TypeOK
<1>3. CASE k = "like"
  <2>0. marks'["like"] = marks["like"] \ {<<u, i>>}
    BY <1>1, <1>2, <1>3
  <2>1. likesCount' = [likesCount EXCEPT ![i] = @ - 1]
    BY <1>1, <1>3 DEF DropMark
  <2>2. \A p \in Products \ {i} : Fans(p)' = Fans(p)
    BY <2>0 DEF Fans
  <2>3. Fans(i)' = Fans(i) \ {u} /\ u \in Fans(i)
    BY <2>0, <1>1, <1>3 DEF Fans
  <2>4. Cardinality(Fans(i)') = Cardinality(Fans(i)) - 1
    <3>1. IsFiniteSet(Fans(i))
      BY FansFinite
    <3>. QED  BY <3>1, <2>3, FS_RemoveElement
  <2>5. likesCount[i] - 1 \in Nat
    <3>1. Cardinality(Fans(i) \ {u}) \in Nat
      BY FansFinite, FS_RemoveElement, FS_CardinalityType
    <3>. QED  BY <3>1, <2>3, <2>4, <1>1, CountsFans
  <2>6. LikesCounted'
    <3>1. \A p \in Products : likesCount'[p] = Cardinality(Fans(p)')
      <4>1. likesCount[i] = Cardinality(Fans(i))
        BY <1>1, CountsFans
      <4>2. SUFFICES ASSUME NEW p \in Products PROVE likesCount'[p] = Cardinality(Fans(p)')
        OBVIOUS
      <4>3. CASE p = i
        BY <2>1, <2>4, <4>1, <4>3, <1>1
      <4>4. CASE p # i
        <5>1. likesCount'[p] = likesCount[p] /\ Fans(p)' = Fans(p)
          BY <2>1, <2>2, <4>4
        <5>. QED  BY <5>1, CountsFans
      <4>. QED  BY <4>3, <4>4
    <3>. QED  BY <3>1 DEF LikesCounted, Fans
  <2>7. TypeOK'
    <3>1. likesCount' \in [Products -> Nat]
      BY <2>1, <2>5, <1>1 DEF TypeOK
    <3>2. marks' \in [Kinds -> SUBSET (Users \X Products)]
      BY <1>2, <1>1 DEF TypeOK
    <3>. QED  BY <3>1, <3>2 DEF TypeOK, DropMark, Goto, Answer, stock, flushes
  <2>. QED  BY <2>6, <2>7
<1>4. CASE k # "like"
  <2>1. likesCount' = likesCount /\ marks'["like"] = marks["like"]
    BY <1>1, <1>2, <1>4 DEF DropMark, TypeOK, Kinds
  <2>2. marks' \in [Kinds -> SUBSET (Users \X Products)]
    BY <1>2, <1>1 DEF TypeOK
  <2>3. TypeOK'
    BY <2>1, <2>2 DEF TypeOK, DropMark, Goto, Answer, stock, flushes
  <2>. QED  BY <2>1, <2>3 DEF LikesCounted
<1>. QED  BY <1>3, <1>4

\* The transaction that creates a row keeps type and count.
LEMMA AddMarkInv ==
  ASSUME Inv, NEW c \in Calls, AddMark(c)
  PROVE  TypeOK' /\ LikesCounted'
<1>. USE DEF Inv
<1>0. pc[c] = "toggle" /\ op[c].id \in Products /\ Row(c) \notin marks[op[c].kind]
  BY DEF AddMark
<1>1. PICK k \in Kinds, u \in Users, i \in Products :
        k = op[c].kind /\ u = op[c].user /\ i = op[c].id /\ <<u, i>> \notin marks[k]
  BY <1>0, Requested DEF Over, Row
<1>2. marks' = [marks EXCEPT ![k] = @ \cup {<<u, i>>}]
  BY <1>1 DEF AddMark, Row
<1>. likesCount \in [Products -> Nat] /\ marks \in [Kinds -> SUBSET (Users \X Products)]
  BY DEF TypeOK
<1>3. marks' \in [Kinds -> SUBSET (Users \X Products)]
  <2>1. marks[k] \cup {<<u, i>>} \in SUBSET (Users \X Products)
    BY <1>1
  <2>. QED  BY <1>2, <2>1
<1>4. CASE k = "like"
  <2>0. marks'["like"] = marks["like"] \cup {<<u, i>>}
    BY <1>2, <1>4 DEF Kinds
  <2>1. likesCount' = [likesCount EXCEPT ![i] = @ + 1]
    BY <1>1, <1>4 DEF AddMark, Plus
  <2>2. \A p \in Products \ {i} : Fans(p)' = Fans(p)
    BY <2>0 DEF Fans
  <2>3. Fans(i)' = Fans(i) \cup {u} /\ u \notin Fans(i)
    BY <2>0, <1>1, <1>4 DEF Fans
  <2>4. Cardinality(Fans(i)') = Cardinality(Fans(i)) + 1
    BY <2>3, FansFinite, FS_AddElement
  <2>5. LikesCounted'
    <3>1. \A p \in Products : likesCount'[p] = Cardinality(Fans(p)')
      <4>1. likesCount[i] = Cardinality(Fans(i))
        BY <1>1, CountsFans
      <4>2. SUFFICES ASSUME NEW p \in Products PROVE likesCount'[p] = Cardinality(Fans(p)')
        OBVIOUS
      <4>3. CASE p = i
        BY <2>1, <2>4, <4>1, <4>3, <1>1
      <4>4. CASE p # i
        <5>1. likesCount'[p] = likesCount[p] /\ Fans(p)' = Fans(p)
          BY <2>1, <2>2, <4>4
        <5>. QED  BY <5>1, CountsFans
      <4>. QED  BY <4>3, <4>4
    <3>. QED  BY <3>1 DEF LikesCounted, Fans
  <2>6. likesCount' \in [Products -> Nat]
    BY <2>1, <1>1 DEF TypeOK
  <2>7. TypeOK'
    BY <1>3, <2>6 DEF TypeOK, AddMark, Goto, Answer, stock, flushes
  <2>. QED  BY <2>5, <2>7
<1>5. CASE k # "like"
  <2>1. likesCount' = likesCount /\ marks'["like"] = marks["like"]
    BY <1>1, <1>2, <1>5 DEF AddMark, TypeOK, Kinds
  <2>2. TypeOK'
    BY <1>3, <2>1 DEF TypeOK, AddMark, Goto, Answer, stock, flushes
  <2>. QED  BY <2>1, <2>2 DEF LikesCounted
<1>. QED  BY <1>4, <1>5

\* A step that leaves likes and their count alone keeps LikesCounted.
LEMMA LikesUntouched ==
  ASSUME LikesCounted, likesCount' = likesCount, marks'["like"] = marks["like"]
  PROVE  LikesCounted'
BY DEF LikesCounted
\* Every other step of a call keeps types, and leaves likes alone.
LEMMA CallInv ==
  ASSUME Inv, NEW c \in Calls, CallStep(c)
  PROVE  TypeOK' /\ LikesCounted'
<1>. USE DEF Inv
<1>. Zero \in [Products -> Nat]
  BY DEF Zero
<1>1. CASE FindMark(c)
  <2>1. TypeOK'
    BY <1>1, CountConstants
    DEF TypeOK, FindMark, Begin, Goto, Kinds, Ops, counts, stock, flushes
  <2>. QED  BY <1>1, <2>1, LikesUntouched DEF FindMark, counts
<1>2. CASE DropMark(c)
  BY <1>2, DropMarkInv
<1>3. CASE AddMark(c)
  BY <1>3, AddMarkInv
<1>4. CASE Unmark(c)
  <2>1. PICK o \in [kind : {"unmark"}, user : Users, id : Ids] :
          /\ Begin(c, o, "done")
          /\ Answer(c, IF <<o.user, o.id>> \in marks["bookmark"] THEN "off" ELSE "none")
          /\ marks' = [marks EXCEPT !["bookmark"] = @ \ {<<o.user, o.id>>}]
    BY <1>4 DEF Unmark
  <2>2. UNCHANGED <<likesCount, views, viewsCount, stock, redis, seen, flushes>>
    BY <1>4 DEF Unmark
  <2>3. marks'["like"] = marks["like"] /\ marks' \in [Kinds -> SUBSET (Users \X Products)]
    BY <2>1 DEF TypeOK, Kinds
  <2>4. o \in Ops /\ o # None
    BY CountConstants DEF Ops
  <2>5. TypeOK'
    BY <2>1, <2>2, <2>3, <2>4 DEF TypeOK, Begin, Goto, Answer, stock, flushes
  <2>. QED  BY <2>2, <2>3, <2>5, LikesUntouched
<1>5. CASE View(c)
  <2>1. PICK o \in [kind : {"view"}, user : Users, id : Products] :
          /\ Begin(c, o, "done")
          /\ views' = Plus(views, o.id) /\ viewsCount' = Plus(viewsCount, o.id)
    BY <1>5 DEF View
  <2>2. UNCHANGED <<marks, likesCount, stock, redis, seen, ans, flushes>>
    BY <1>5 DEF View
  <2>3. o \in Ops /\ o # None
    BY CountConstants DEF Ops
  <2>4. views' \in [Products -> Nat] /\ viewsCount' \in [Products -> Nat]
    BY <2>1 DEF TypeOK, Plus
  <2>5. TypeOK'
    BY <2>1, <2>2, <2>3, <2>4 DEF TypeOK, Begin, Goto, stock, flushes
  <2>. QED  BY <2>2, <2>5, LikesUntouched
<1>6. CASE Register(c)
  <2>1. PICK o \in [kind : {"register"}, user : Users, id : Products] :
          /\ Begin(c, o, "done")
          /\ downloads' = Plus(downloads, o.id) /\ downloadsCount' = Plus(downloadsCount, o.id)
    BY <1>6 DEF Register
  <2>2. UNCHANGED <<counts, cached, redis, seen, ans, flushes>>
    BY <1>6 DEF Register
  <2>3. o \in Ops /\ o # None
    BY CountConstants DEF Ops
  <2>4. downloads' \in [Products -> Nat] /\ downloadsCount' \in [Products -> Int]
    BY <2>1 DEF TypeOK, Plus
  <2>5. TypeOK'
    BY <2>1, <2>2, <2>3, <2>4 DEF TypeOK, Begin, Goto, counts, flushes
  <2>. QED  BY <2>2, <2>5, LikesUntouched DEF counts
<1>7. CASE NotFound(c)
  <2>1. TypeOK'
    BY <1>7, CountConstants DEF TypeOK, NotFound, Begin, Goto, Ops, counts, stock, flushes
  <2>. QED  BY <1>7, <2>1, LikesUntouched DEF NotFound, counts
<1>8. CASE Start(c)
  <2>1. TypeOK'
    BY <1>8, CountConstants DEF TypeOK, Start, Begin, Goto, Ops, counts, stock, flushes
  <2>. QED  BY <1>8, <2>1, LikesUntouched DEF Start, counts
<1>9. CASE Bump(c)
  <2>1. cached' \in [Products -> Int] /\ downloadsCount' \in [Products -> Int]
    BY <1>9 DEF TypeOK, Bump, Plus
  <2>2. TypeOK'
    BY <1>9, <2>1 DEF TypeOK, Bump, Goto, counts, flushes
  <2>. QED  BY <1>9, <2>2, LikesUntouched DEF Bump, counts
<1>10. CASE Create(c)
  <2>1. downloads' \in [Products -> Nat]
    <3>1. downloads \in [Products -> Nat]
      BY DEF TypeOK
    <3>2. downloads' = [downloads EXCEPT ![op[c].id] = @ + 1]
      BY <1>10 DEF Create, Plus
    <3>3. ASSUME NEW p \in Products
          PROVE  downloads'[p] = downloads[p] \/ downloads'[p] = downloads[p] + 1
      BY <3>1, <3>2
    <3>4. downloads' = [p \in Products |-> downloads'[p]]
      BY <3>1, <3>2
    <3>5. \A p \in Products : downloads'[p] \in Nat
      BY <3>1, <3>3
    <3>. QED  BY <3>4, <3>5
  <2>2. TypeOK'
    BY <1>10, <2>1 DEF TypeOK, Create, Goto, counts, flushes
  <2>. QED  BY <1>10, <2>2, LikesUntouched DEF Create, counts
<1>11. CASE Fail(c)
  <2>1. TypeOK'
    BY <1>11 DEF TypeOK, Fail, Goto, counts, stock, flushes
  <2>. QED  BY <1>11, <2>1, LikesUntouched DEF Fail, counts
<1>. QED
  BY <1>1, <1>2, <1>3, <1>4, <1>5, <1>6, <1>7, <1>8, <1>9, <1>10, <1>11 DEF CallStep

\* A flush keeps types, and leaves likes alone.
LEMMA FlushInv ==
  ASSUME Inv, NEW f \in Flushes, FlushStep(f)
  PROVE  TypeOK' /\ LikesCounted'
<1>. USE DEF Inv
<1>0. LikesCounted'
  BY LikesUntouched
  DEF FlushStep, ScanPage, NothingToFlush, Apply, Deduct, FlushFail, counts
<1>1. CASE ScanPage(f)
  <2>1. got' \in [Flushes -> [Products -> Int]]
    BY <1>1 DEF TypeOK, ScanPage
  <2>2. scanned' \in [Flushes -> SUBSET Products]
    BY <1>1 DEF TypeOK, ScanPage
  <2>3. pages' \in [Flushes -> 0..MaxPages]
    BY <1>1, CountConstants DEF TypeOK, ScanPage
  <2>. QED  BY <1>0, <1>1, <2>1, <2>2, <2>3
            DEF TypeOK, ScanPage, GotoF, counts, stock, calls
<1>2. CASE NothingToFlush(f)
  BY <1>0, <1>2 DEF TypeOK, NothingToFlush, GotoF, counts, stock, calls
<1>3. CASE Apply(f)
  <2>1. downloadsCount' \in [Products -> Int]
    BY <1>3 DEF TypeOK, Apply
  <2>. QED  BY <1>0, <1>3, <2>1 DEF TypeOK, Apply, GotoF, counts, calls
<1>4. CASE Deduct(f)
  <2>1. cached' \in [Products -> Int]
    BY <1>4 DEF TypeOK, Deduct
  <2>. QED  BY <1>0, <1>4, <2>1 DEF TypeOK, Deduct, GotoF, counts, calls
<1>5. CASE FlushFail(f)
  BY <1>0, <1>5 DEF TypeOK, FlushFail, GotoF, counts, stock, calls
<1>. QED  BY <1>1, <1>2, <1>3, <1>4, <1>5 DEF FlushStep

\* Calls answer when they are over, whatever step is taken.
LEMMA OverStep ==
  ASSUME TypeOK, Over, [Next]_vars
  PROVE  Over'
<1>1. CASE UNCHANGED vars
  BY <1>1 DEF Over, vars, calls
<1>2. ASSUME NEW f \in Flushes, FlushStep(f)
      PROVE  Over'
  BY <1>2 DEF Over, FlushStep, ScanPage, NothingToFlush, Apply, Deduct, FlushFail, calls
<1>3. ASSUME NEW c \in Calls, CallStep(c)
      PROVE  Over'
  <2>. SUFFICES ASSUME NEW d \in Calls
                PROVE  /\ ans'[d] # "none" => pc'[d] = "done"
                       /\ pc'[d] = "toggle" => op'[d].kind \in Kinds
    BY DEF Over
  <2>1. CASE FindMark(c)
    BY <2>1 DEF Over, TypeOK, FindMark, Begin, Goto
  <2>2. CASE DropMark(c) \/ AddMark(c)
    BY <2>2 DEF Over, TypeOK, DropMark, AddMark, Goto, Answer
  <2>3. CASE Unmark(c)
    BY <2>3 DEF Over, TypeOK, Unmark, Begin, Goto, Answer
  <2>5. CASE View(c) \/ Register(c) \/ NotFound(c) \/ Start(c)
    BY <2>5 DEF Over, TypeOK, View, Register, NotFound, Start, Begin, Goto
  <2>4. CASE Bump(c) \/ Create(c) \/ Fail(c)
    BY <2>4 DEF Over, TypeOK, Bump, Create, Fail, Goto
  <2>. QED  BY <1>3, <2>1, <2>2, <2>3, <2>4, <2>5 DEF CallStep
<1>. QED  BY <1>1, <1>2, <1>3 DEF Next

\* Every step keeps the invariant.
LEMMA InvStep == Inv /\ [Next]_vars => Inv'
<1>. SUFFICES ASSUME Inv, [Next]_vars PROVE Inv'
  OBVIOUS
<1>1. Over'
  BY OverStep DEF Inv
<1>2. CASE UNCHANGED vars
  BY <1>1, <1>2
  DEF Inv, TypeOK, LikesCounted, vars, counts, stock, calls, flushes
<1>3. CASE Next
  BY <1>1, <1>3, CallInv, FlushInv DEF Inv, Next
<1>. QED  BY <1>2, <1>3

\* The invariant holds throughout.
LEMMA Always == Spec => []Inv
BY InvInit, InvStep, PTL DEF Spec

\* Rows and counters have their types; no likes count ever becomes negative.
THEOREM TypeCorrect == Spec => []TypeOK
<1>1. Inv => TypeOK
  BY DEF Inv
<1>. QED  BY <1>1, Always, PTL

\* likesCount is the number of users who like the product, however many
\* toggles overlap (LikesService.toggle, ProductService.toggleLike).
THEOREM LikesHold == Spec => []LikesCounted
<1>1. Inv => LikesCounted
  BY DEF Inv
<1>. QED  BY <1>1, Always, PTL

(***************************************************************************)
(* The answers of toggles.                                                 *)
(***************************************************************************)
TogglesInv == Inv /\ TogglesAlternate

\* Finitely many calls have said anything.
LEMMA SaidFinite ==
  ASSUME NEW a, NEW k, NEW u, NEW p
  PROVE  IsFiniteSet(Said(a, k, u, p)) /\ Cardinality(Said(a, k, u, p)) \in Nat
<1>1. Said(a, k, u, p) \in SUBSET Calls
  BY DEF Said
<1>. QED  BY <1>1, CountConstants, FS_Subset, FS_CardinalityType

\* A step that gives no answer and changes no request that was answered says nothing.
LEMMA Silent ==
  ASSUME NEW a \in {"on", "off"}, NEW k \in Kinds, NEW u \in Users, NEW p \in Products,
         ans' = ans, \A d \in Calls : ans[d] # "none" => op'[d] = op[d]
  PROVE  Said(a, k, u, p)' = Said(a, k, u, p)
BY DEF Said, Asks

\* The equation of one mark.
Balanced(k, u, p) ==
  Cardinality(Said("on", k, u, p)) - Cardinality(Said("off", k, u, p)) =
    IF <<u, p>> \in marks[k] THEN 1 ELSE 0

\* A step that says nothing and leaves the marks alone keeps the equation.
LEMMA SilentStep ==
  ASSUME TogglesAlternate, ans' = ans, marks' = marks,
         \A d \in Calls : ans[d] # "none" => op'[d] = op[d]
  PROVE  TogglesAlternate'
<1>. SUFFICES ASSUME NEW k \in Kinds, NEW u \in Users, NEW p \in Products
              PROVE  Balanced(k, u, p)'
  BY DEF TogglesAlternate, Balanced
<1>1. Said("on", k, u, p)' = Said("on", k, u, p)
  BY Silent
<1>2. Said("off", k, u, p)' = Said("off", k, u, p)
  BY Silent
<1>. QED  BY <1>1, <1>2 DEF TogglesAlternate, Balanced

\* Deleting a row answers off once, of a row that was there.
LEMMA DropMarkToggles ==
  ASSUME TogglesInv, NEW c \in Calls, DropMark(c)
  PROVE  TogglesAlternate'
<1>. SUFFICES ASSUME NEW k \in Kinds, NEW u \in Users, NEW p \in Products
              PROVE  Balanced(k, u, p)'
  BY DEF TogglesAlternate, Balanced
<1>. TypeOK /\ Over
  BY DEF TogglesInv, Inv
<1>1. pc[c] = "toggle" /\ op[c].kind \in Kinds /\ op[c] \in Ops
  BY Requested DEF DropMark, Over
<1>2. ans[c] = "none" /\ ans' = [ans EXCEPT ![c] = "off"] /\ op' = op
  BY <1>1 DEF DropMark, Answer, Over
<1>3. /\ Row(c) \in marks[op[c].kind]
      /\ marks' = [marks EXCEPT ![op[c].kind] = @ \ {Row(c)}]
  BY DEF DropMark
<1>4. Asks(c, k, u, p) <=> op[c].kind = k /\ Row(c) = <<u, p>>
  BY <1>1 DEF Asks, Row, Ops, Kinds
<1>5. Asks(c, k, u, p)' <=> Asks(c, k, u, p)
  BY <1>2 DEF Asks
<1>. DEFINE S == Said("off", k, u, p)
<1>11. \A d \in Calls \ {c} : op'[d] = op[d]
  BY <1>2
<1>12. /\ c \notin S
       /\ Asks(c, k, u, p)' => S' = S \cup {c}
       /\ ~Asks(c, k, u, p)' => S' = S
       /\ Said("on", k, u, p)' = Said("on", k, u, p)
  <2>1. \A d \in Calls \ {c} : Asks(d, k, u, p)' <=> Asks(d, k, u, p)
    BY <1>11 DEF Asks
  <2>2. ans'[c] = "off" /\ \A d \in Calls \ {c} : ans'[d] = ans[d]
    BY <1>2 DEF TypeOK
  <2>. QED  BY <1>2, <2>1, <2>2 DEF Said
<1>6. Said("on", k, u, p)' = Said("on", k, u, p)
  BY <1>12
<1>7. Balanced(k, u, p)
  BY DEF TogglesInv, TogglesAlternate, Balanced
<1>8. marks \in [Kinds -> SUBSET (Users \X Products)]
  BY DEF TypeOK
<1>9. CASE Asks(c, k, u, p)
  <2>1. Said("off", k, u, p)' = Said("off", k, u, p) \cup {c} /\ c \notin Said("off", k, u, p)
    BY <1>2, <1>5, <1>9, <1>12
  <2>2. Cardinality(Said("off", k, u, p)') = Cardinality(Said("off", k, u, p)) + 1
    BY <2>1, SaidFinite, FS_AddElement
  <2>3. <<u, p>> \in marks[k] /\ <<u, p>> \notin marks'[k]
    BY <1>3, <1>4, <1>8, <1>9
  <2>. QED  BY <1>6, <1>7, <2>2, <2>3, SaidFinite DEF Balanced
<1>10. CASE ~Asks(c, k, u, p)
  <2>1. Said("off", k, u, p)' = Said("off", k, u, p)
    BY <1>2, <1>5, <1>10, <1>12
  <2>2. <<u, p>> \in marks'[k] <=> <<u, p>> \in marks[k]
    BY <1>3, <1>4, <1>8, <1>10
  <2>. QED  BY <1>6, <1>7, <2>1, <2>2 DEF Balanced
<1>. QED  BY <1>9, <1>10

\* Creating a row answers on once, of a row that was not there.
LEMMA AddMarkToggles ==
  ASSUME TogglesInv, NEW c \in Calls, AddMark(c)
  PROVE  TogglesAlternate'
<1>. SUFFICES ASSUME NEW k \in Kinds, NEW u \in Users, NEW p \in Products
              PROVE  Balanced(k, u, p)'
  BY DEF TogglesAlternate, Balanced
<1>. TypeOK /\ Over
  BY DEF TogglesInv, Inv
<1>1. pc[c] = "toggle" /\ op[c].kind \in Kinds /\ op[c] \in Ops
  BY Requested DEF AddMark, Over
<1>2. ans[c] = "none" /\ ans' = [ans EXCEPT ![c] = "on"] /\ op' = op
  BY <1>1 DEF AddMark, Answer, Over
<1>3. /\ Row(c) \notin marks[op[c].kind]
      /\ marks' = [marks EXCEPT ![op[c].kind] = @ \cup {Row(c)}]
  BY DEF AddMark
<1>4. Asks(c, k, u, p) <=> op[c].kind = k /\ Row(c) = <<u, p>>
  BY <1>1 DEF Asks, Row, Ops, Kinds
<1>5. Asks(c, k, u, p)' <=> Asks(c, k, u, p)
  BY <1>2 DEF Asks
<1>. DEFINE S == Said("on", k, u, p)
<1>11. \A d \in Calls \ {c} : op'[d] = op[d]
  BY <1>2
<1>12. /\ c \notin S
       /\ Asks(c, k, u, p)' => S' = S \cup {c}
       /\ ~Asks(c, k, u, p)' => S' = S
       /\ Said("off", k, u, p)' = Said("off", k, u, p)
  <2>1. \A d \in Calls \ {c} : Asks(d, k, u, p)' <=> Asks(d, k, u, p)
    BY <1>11 DEF Asks
  <2>2. ans'[c] = "on" /\ \A d \in Calls \ {c} : ans'[d] = ans[d]
    BY <1>2 DEF TypeOK
  <2>. QED  BY <1>2, <2>1, <2>2 DEF Said
<1>6. Said("off", k, u, p)' = Said("off", k, u, p)
  BY <1>12
<1>7. Balanced(k, u, p)
  BY DEF TogglesInv, TogglesAlternate, Balanced
<1>8. marks \in [Kinds -> SUBSET (Users \X Products)]
  BY DEF TypeOK
<1>9. CASE Asks(c, k, u, p)
  <2>1. Said("on", k, u, p)' = Said("on", k, u, p) \cup {c} /\ c \notin Said("on", k, u, p)
    BY <1>2, <1>5, <1>9, <1>12
  <2>2. Cardinality(Said("on", k, u, p)') = Cardinality(Said("on", k, u, p)) + 1
    BY <2>1, SaidFinite, FS_AddElement
  <2>3. <<u, p>> \notin marks[k] /\ <<u, p>> \in marks'[k]
    BY <1>3, <1>4, <1>8, <1>9
  <2>. QED  BY <1>6, <1>7, <2>2, <2>3, SaidFinite DEF Balanced
<1>10. CASE ~Asks(c, k, u, p)
  <2>1. Said("on", k, u, p)' = Said("on", k, u, p)
    BY <1>2, <1>5, <1>10, <1>12
  <2>2. <<u, p>> \in marks'[k] <=> <<u, p>> \in marks[k]
    BY <1>3, <1>4, <1>8, <1>10
  <2>. QED  BY <1>6, <1>7, <2>1, <2>2 DEF Balanced
<1>. QED  BY <1>9, <1>10

\* An explicit removal counts as taking the row out when the row was there.
LEMMA UnmarkToggles ==
  ASSUME TogglesInv, NEW c \in Calls, Unmark(c)
  PROVE  TogglesAlternate'
<1>. TypeOK /\ Over
  BY DEF TogglesInv, Inv
<1>1. PICK o \in [kind : {"unmark"}, user : Users, id : Ids] :
        /\ Begin(c, o, "done")
        /\ Answer(c, IF <<o.user, o.id>> \in marks["bookmark"] THEN "off" ELSE "none")
        /\ marks' = [marks EXCEPT !["bookmark"] = @ \ {<<o.user, o.id>>}]
  BY DEF Unmark
<1>2. ans[c] = "none" /\ op' = [op EXCEPT ![c] = o]
  BY <1>1 DEF Over, Begin, TypeOK
<1>3. marks \in [Kinds -> SUBSET (Users \X Products)]
  BY DEF TypeOK
<1>4. op'[c] = o /\ \A d \in Calls \ {c} : op'[d] = op[d]
  BY <1>2 DEF TypeOK
<1>5. CASE <<o.user, o.id>> \notin marks["bookmark"]
  <2>1. ans' = ans
    BY <1>1, <1>2, <1>5 DEF Answer, TypeOK
  <2>2. marks' = marks
    BY <1>1, <1>3, <1>5 DEF Kinds
  <2>3. \A d \in Calls : ans[d] # "none" => op'[d] = op[d]
    BY <1>2, <1>4
  <2>. QED  BY <2>1, <2>2, <2>3, SilentStep DEF TogglesInv
<1>6. CASE <<o.user, o.id>> \in marks["bookmark"]
  <2>. SUFFICES ASSUME NEW k \in Kinds, NEW u \in Users, NEW p \in Products
                PROVE  Balanced(k, u, p)'
    BY DEF TogglesAlternate, Balanced
  <2>1. ans' = [ans EXCEPT ![c] = "off"]
    BY <1>1, <1>6 DEF Answer
  <2>2. ans'[c] = "off" /\ \A d \in Calls \ {c} : ans'[d] = ans[d]
    BY <2>1 DEF TypeOK
  <2>3. \A d \in Calls \ {c} : Asks(d, k, u, p)' <=> Asks(d, k, u, p)
    BY <1>4 DEF Asks
  <2>4. Asks(c, k, u, p)' <=> k = "bookmark" /\ o.user = u /\ o.id = p
    BY <1>4 DEF Asks, Kinds
  <2>5. Said("on", k, u, p)' = Said("on", k, u, p)
    BY <1>2, <2>2, <2>3 DEF Said
  <2>6. Balanced(k, u, p)
    BY DEF TogglesInv, TogglesAlternate, Balanced
  <2>7. CASE Asks(c, k, u, p)'
    <3>1. Said("off", k, u, p)' = Said("off", k, u, p) \cup {c} /\ c \notin Said("off", k, u, p)
      BY <1>2, <2>2, <2>3, <2>7 DEF Said
    <3>2. Cardinality(Said("off", k, u, p)') = Cardinality(Said("off", k, u, p)) + 1
      BY <3>1, SaidFinite, FS_AddElement
    <3>3. <<u, p>> \in marks[k] /\ <<u, p>> \notin marks'[k]
      BY <1>1, <1>3, <1>6, <2>4, <2>7
    <3>. QED  BY <2>5, <2>6, <3>2, <3>3, SaidFinite DEF Balanced
  <2>8. CASE ~Asks(c, k, u, p)'
    <3>1. Said("off", k, u, p)' = Said("off", k, u, p)
      BY <1>2, <2>2, <2>3, <2>8 DEF Said
    <3>2. <<u, p>> \in marks'[k] <=> <<u, p>> \in marks[k]
      BY <1>1, <1>3, <2>4, <2>8 DEF Kinds
    <3>. QED  BY <2>5, <2>6, <3>1, <3>2 DEF Balanced
  <2>. QED  BY <2>7, <2>8
<1>. QED  BY <1>5, <1>6

\* Every step keeps the answers alternating.
LEMMA TogglesStep == TogglesInv /\ [Next]_vars => TogglesAlternate'
<1>. SUFFICES ASSUME TogglesInv, [Next]_vars PROVE TogglesAlternate'
  OBVIOUS
<1>. TogglesAlternate /\ TypeOK /\ Over
  BY DEF TogglesInv, Inv
<1>1. CASE UNCHANGED vars
  BY <1>1, SilentStep DEF vars, counts, calls
<1>2. ASSUME NEW f \in Flushes, FlushStep(f)
      PROVE  TogglesAlternate'
  <2>1. ans' = ans /\ marks' = marks /\ op' = op
    BY <1>2 DEF FlushStep, ScanPage, NothingToFlush, Apply, Deduct, FlushFail, counts, calls
  <2>. QED  BY <2>1, SilentStep
<1>3. ASSUME NEW c \in Calls, CallStep(c)
      PROVE  TogglesAlternate'
  <2>1. CASE DropMark(c) \/ AddMark(c) \/ Unmark(c)
    BY <2>1, DropMarkToggles, AddMarkToggles, UnmarkToggles
  <2>2. CASE FindMark(c) \/ View(c) \/ Register(c) \/ NotFound(c) \/ Start(c)
    <3>1. ans' = ans /\ marks' = marks
      BY <2>2 DEF FindMark, View, Register, NotFound, Start, counts
    <3>2. ans[c] = "none"
      BY <2>2 DEF FindMark, View, Register, NotFound, Start, Begin, Over
    <3>3. \A d \in Calls \ {c} : op'[d] = op[d]
      BY <2>2 DEF FindMark, View, Register, NotFound, Start, Begin, TypeOK
    <3>. QED  BY <3>1, <3>2, <3>3, SilentStep
  <2>3. CASE Bump(c) \/ Create(c) \/ Fail(c)
    <3>1. ans' = ans /\ marks' = marks /\ op' = op
      BY <2>3 DEF Bump, Create, Fail, counts
    <3>. QED  BY <3>1, SilentStep
  <2>. QED  BY <1>3, <2>1, <2>2, <2>3 DEF CallStep
<1>. QED  BY <1>1, <1>2, <1>3 DEF Next

\* The answers of a user's toggles of a product alternate, however they overlap
\* (LikesService.toggle, BookmarksService.toggle and remove, and their twins in
\* ProductService).
THEOREM TogglesHold == Spec => []TogglesAlternate
<1>1. Init => TogglesAlternate
  <2>. SUFFICES ASSUME Init PROVE TogglesAlternate
    OBVIOUS
  <2>1. \A a \in {"on", "off"}, k \in Kinds, u \in Users, p \in Products : Said(a, k, u, p) = {}
    BY DEF Init, Said
  <2>2. \A k \in Kinds : marks[k] = {}
    BY DEF Init
  <2>. SUFFICES ASSUME NEW k \in Kinds, NEW u \in Users, NEW p \in Products
                PROVE  Balanced(k, u, p)
    BY DEF TogglesAlternate, Balanced
  <2>3. Cardinality(Said("on", k, u, p)) = 0 /\ Cardinality(Said("off", k, u, p)) = 0
    BY <2>1, FS_EmptySet
  <2>. QED  BY <2>2, <2>3 DEF Balanced
<1>2. Inv /\ TogglesAlternate /\ [Next]_vars => TogglesAlternate'
  BY TogglesStep DEF TogglesInv
<1>. QED  BY <1>1, <1>2, Always, PTL DEF Spec

(***************************************************************************)
(* Induction and sums. A set of naturals that has 0 and all successors is  *)
(* Nat, because Nat is well-founded; the induction theorems of the library *)
(* take a predicate, which the provers do not instantiate.                 *)
(***************************************************************************)

\* Induction over Nat, for a set.
LEMMA NatSetInduction ==
  ASSUME NEW I \in SUBSET Nat, 0 \in I, \A n \in I : n + 1 \in I
  PROVE  I = Nat
<1>1. SUFFICES ASSUME Nat \ I # {} PROVE FALSE
  OBVIOUS
<1>2. PICK n \in Nat \ I : \A m \in Nat \ I : ~ (<<m, n>> \in OpToRel(<, Nat))
  BY <1>1, NatLessThanWellFounded, WFMin
<1>3. \A m \in Nat \ I : ~ (m < n)
  BY <1>2 DEF OpToRel
<1>4. n # 0 /\ n - 1 \in Nat /\ n - 1 < n
  OBVIOUS
<1>5. n - 1 \in I
  BY <1>3, <1>4
<1>6. (n - 1) + 1 \in I
  BY <1>5
<1>. QED  BY <1>6

\* The element a fold takes first out of s, and the rest.
First(s) == CHOOSE x \in s : TRUE
Rest(s) == s \ {First(s)}

\* The subsets of S with at most n elements.
UpTo(S, n) == {s \in SUBSET S : Cardinality(s) <= n}

\* The rest of a finite set is a smaller one.
LEMMA RestSmaller ==
  ASSUME NEW S, IsFiniteSet(S), NEW s \in SUBSET S
  PROVE  /\ IsFiniteSet(s) /\ Cardinality(s) \in Nat
         /\ Cardinality(s) = 0 <=> s = {}
         /\ s # {} => /\ First(s) \in S /\ First(s) \in s /\ Rest(s) \in SUBSET S
                      /\ Cardinality(Rest(s)) = Cardinality(s) - 1
<1>1. IsFiniteSet(s) /\ Cardinality(s) \in Nat
  BY FS_Subset, FS_CardinalityType
<1>2. Cardinality(s) = 0 <=> s = {}
  BY <1>1, FS_EmptySet
<1>3. ASSUME s # {}
      PROVE  First(s) \in s
  BY <1>3 DEF First
<1>4. ASSUME s # {}
      PROVE  Cardinality(Rest(s)) = Cardinality(s) - 1
  BY <1>1, <1>3, <1>4, FS_RemoveElement DEF Rest
<1>. QED  BY <1>1, <1>2, <1>3, <1>4 DEF Rest

\* Induction over the subsets of a finite set, in the order a fold takes them apart.
LEMMA SubsetInduction ==
  ASSUME NEW S, IsFiniteSet(S), NEW U, {} \in U,
         \A s \in SUBSET S : s # {} /\ Rest(s) \in U => s \in U
  PROVE  SUBSET S \subseteq U
<1>. DEFINE I == {n \in Nat : UpTo(S, n) \subseteq U}
<1>1. 0 \in I
  <2>1. ASSUME NEW s \in UpTo(S, 0)
        PROVE  s = {}
    BY RestSmaller DEF UpTo
  <2>. QED  BY <2>1
<1>2. ASSUME NEW n \in I
      PROVE  n + 1 \in I
  <2>1. ASSUME NEW s \in UpTo(S, n + 1), s # {}
        PROVE  s \in U
    <3>1. s \in SUBSET S /\ Cardinality(s) <= n + 1
      BY DEF UpTo
    <3>2. Rest(s) \in UpTo(S, n)
      BY <3>1, <2>1, RestSmaller DEF UpTo
    <3>. QED  BY <3>1, <3>2, <2>1
  <2>. QED  BY <2>1
<1>3. I = Nat
  <2>. HIDE DEF I
  <2>0. I \in SUBSET Nat
    BY DEF I
  <2>. QED  BY <2>0, <1>1, <1>2, NatSetInduction
<1>. QED  BY <1>3, RestSmaller DEF UpTo

\* g is the sum of f over each set of D, which has the rest of each of its sets.
IsSum(f, g, D) == g = [s \in D |-> IF s = {} THEN 0 ELSE f[First(s)] + g[Rest(s)]]

\* A sum over the subsets of a finite set exists.
LEMMA SumExists ==
  ASSUME NEW S, IsFiniteSet(S), NEW f \in [S -> Int]
  PROVE  \E g : IsSum(f, g, SUBSET S) /\ g \in [SUBSET S -> Int]
<1>. DEFINE Good(g, n) == g \in [UpTo(S, n) -> Int] /\ IsSum(f, g, UpTo(S, n))
            I == {n \in Nat : \E g : Good(g, n)}
<1>1. 0 \in I
  <2>. DEFINE g == [s \in UpTo(S, 0) |-> 0]
  <2>1. \A s \in UpTo(S, 0) : s = {}
    BY RestSmaller DEF UpTo
  <2>2. Good(g, 0)
    BY <2>1 DEF IsSum
  <2>. QED  BY <2>2
<1>2. ASSUME NEW n \in I
      PROVE  n + 1 \in I
  <2>1. PICK h : Good(h, n)
    OBVIOUS
  <2>. DEFINE g == [s \in UpTo(S, n + 1) |-> IF s = {} THEN 0 ELSE f[First(s)] + h[Rest(s)]]
  <2>2. ASSUME NEW s \in UpTo(S, n + 1), s # {}
        PROVE  Rest(s) \in UpTo(S, n) /\ First(s) \in S
    BY <2>2, RestSmaller DEF UpTo
  <2>3. g \in [UpTo(S, n + 1) -> Int]
    BY <2>1, <2>2
  <2>4. ASSUME NEW s \in UpTo(S, n)
        PROVE  s \in UpTo(S, n + 1) /\ g[s] = h[s]
    <3>1. s \in UpTo(S, n + 1)
      BY RestSmaller DEF UpTo
    <3>2. h[s] = IF s = {} THEN 0 ELSE f[First(s)] + h[Rest(s)]
      BY <2>1 DEF IsSum
    <3>. QED  BY <3>1, <3>2
  <2>5. \A s \in UpTo(S, n + 1) : g[s] = IF s = {} THEN 0 ELSE f[First(s)] + g[Rest(s)]
    BY <2>2, <2>4
  <2>6. IsSum(f, g, UpTo(S, n + 1))
    BY <2>3, <2>5 DEF IsSum
  <2>7. Good(g, n + 1)
    BY <2>3, <2>6
  <2>. QED  BY <2>7
<1>3. I = Nat
  <2>. HIDE DEF I
  <2>0. I \in SUBSET Nat
    BY DEF I
  <2>. QED  BY <2>0, <1>1, <1>2, NatSetInduction
<1>4. Cardinality(S) \in Nat /\ UpTo(S, Cardinality(S)) = SUBSET S
  BY FS_CardinalityType, FS_Subset DEF UpTo
<1>5. Cardinality(S) \in I
  BY <1>3, <1>4
<1>. QED  BY <1>4, <1>5

\* The sum that FoldFunction computes, with what it is over each subset.
Sum(f) == FoldFunction(+, 0, f)
Part(f, S) == CHOOSE g : IsSum(f, g, SUBSET S)

AddsUp(f, S) ==
  /\ Sum(f) = Part(f, S)[S]
  /\ \A s \in SUBSET S : Part(f, S)[s] \in Int
  /\ Part(f, S)[{}] = 0
  /\ \A s \in SUBSET S : s # {} => Part(f, S)[s] = f[First(s)] + Part(f, S)[Rest(s)]

LEMMA SumParts ==
  ASSUME NEW S, IsFiniteSet(S), NEW f \in [S -> Int]
  PROVE  AddsUp(f, S)
<1>1. DOMAIN f = S
  OBVIOUS
<1>2. Sum(f) = Part(f, S)[S]
  BY <1>1, Zenon DEF Sum, Part, FoldFunction, FoldFunctionOnSet, MapThenFoldSet, IsSum, First, Rest
<1>3. IsSum(f, Part(f, S), SUBSET S)
  BY SumExists DEF Part
<1>4. \A s \in SUBSET S : Part(f, S)[s] = IF s = {} THEN 0 ELSE f[First(s)] + Part(f, S)[Rest(s)]
  BY <1>3 DEF IsSum
<1>5. SUBSET S \subseteq {s \in SUBSET S : Part(f, S)[s] \in Int}
  <2>. DEFINE U == {s \in SUBSET S : Part(f, S)[s] \in Int}
  <2>1. {} \in U
    BY <1>4
  <2>2. \A s \in SUBSET S : s # {} /\ Rest(s) \in U => s \in U
    BY <1>4, RestSmaller
  <2>. HIDE DEF U
  <2>3. SUBSET S \subseteq U
    BY <2>1, <2>2, SubsetInduction
  <2>. QED  BY <2>3 DEF U
<1>. QED  BY <1>2, <1>4, <1>5 DEF AddsUp

\* Functions that differ at one argument have sums that differ as much.
LEMMA SumChanges ==
  ASSUME NEW S, IsFiniteSet(S), NEW f \in [S -> Int], NEW h \in [S -> Int],
         NEW a \in S, \A x \in S \ {a} : h[x] = f[x]
  PROVE  Sum(f) \in Int /\ Sum(h) = Sum(f) + h[a] - f[a]
<1>. AddsUp(f, S) /\ AddsUp(h, S)
  BY SumParts
<1>. USE DEF AddsUp
<1>. DEFINE U == {s \in SUBSET S :
                    Part(h, S)[s] = Part(f, S)[s] + (IF a \in s THEN h[a] - f[a] ELSE 0)}
<1>1. {} \in U
  OBVIOUS
<1>2. ASSUME NEW s \in SUBSET S, s # {}, Rest(s) \in U
      PROVE  s \in U
  <2>1. /\ Part(f, S)[s] = f[First(s)] + Part(f, S)[Rest(s)]
        /\ Part(h, S)[s] = h[First(s)] + Part(h, S)[Rest(s)]
    BY <1>2
  <2>2. First(s) \in S /\ First(s) \in s /\ Rest(s) \in SUBSET S
    BY <1>2, RestSmaller
  <2>3. Part(f, S)[Rest(s)] \in Int /\ Part(h, S)[Rest(s)] \in Int
    BY <2>2
  <2>4. f[First(s)] \in Int /\ h[First(s)] \in Int /\ f[a] \in Int /\ h[a] \in Int
    BY <2>2
  <2>5. CASE First(s) = a
    <3>1. a \in s /\ a \notin Rest(s)
      BY <2>2, <2>5 DEF Rest
    <3>. QED  BY <1>2, <2>1, <2>3, <2>4, <2>5, <3>1
  <2>6. CASE First(s) # a
    <3>1. a \in s <=> a \in Rest(s)
      BY <2>6 DEF Rest
    <3>2. h[First(s)] = f[First(s)]
      BY <2>2, <2>6
    <3>. QED  BY <1>2, <2>1, <2>3, <2>4, <3>1, <3>2
  <2>. QED  BY <2>5, <2>6
<1>3. SUBSET S \subseteq U
  <2>. HIDE DEF U
  <2>. QED  BY <1>1, <1>2, SubsetInduction
<1>4. S \in U /\ S \in SUBSET S
  BY <1>3
<1>5. Part(h, S)[S] = Part(f, S)[S] + h[a] - f[a]
  BY <1>4
<1>. QED  BY <1>4, <1>5

LEMMA FlushSumChanges ==
  ASSUME NEW f \in Flushes, NEW g \in [Flushes -> Int], NEW h \in [Flushes -> Int],
         \A x \in Flushes \ {f} : h[x] = g[x]
  PROVE  Sum(g) \in Int /\ Sum(h) = Sum(g) + h[f] - g[f]
<1>1. IsFiniteSet(Flushes)
  BY CountConstants
<1>2. QED
  BY <1>1, SumChanges

\* A sum of zeros is zero.
LEMMA SumOfZeros ==
  ASSUME NEW S, IsFiniteSet(S), NEW f \in [S -> Int], \A x \in S : f[x] = 0
  PROVE  Sum(f) = 0
<1>. AddsUp(f, S)
  BY SumParts
<1>. USE DEF AddsUp
<1>. DEFINE U == {s \in SUBSET S : Part(f, S)[s] = 0}
<1>1. {} \in U
  OBVIOUS
<1>2. ASSUME NEW s \in SUBSET S, s # {}, Rest(s) \in U
      PROVE  s \in U
  BY <1>2, RestSmaller
<1>3. SUBSET S \subseteq U
  <2>. HIDE DEF U
  <2>. QED  BY <1>1, <1>2, SubsetInduction
<1>. QED  BY <1>3

(***************************************************************************)
(* The ledger of downloads. Each step that moves a counter moves one other *)
(* term as much: the set of the calls that are ahead by one call, or the   *)
(* sum over the flushes by the values of one flush.                        *)
(***************************************************************************)

\* Whether call c is ahead for p, and what flush f has not deducted from it.
IsAhead(c, p) == op[c] # None /\ op[c].id = p /\ pc[c] \in {"create", "orphan"}
AheadSet(p) == {c \in Calls : IsAhead(c, p)}
Owes(f, p) == IF fpc[f] \in {"applied", "dead"} THEN got[f][p] ELSE 0
Owed(p) == [f \in Flushes |-> Owes(f, p)]

\* The ledger of one product.
Balance(p) == downloadsCount[p] + cached[p] = downloads[p] + Cardinality(AheadSet(p)) + Sum(Owed(p))

LEMMA LedgerIsBalance == DownloadsLedger <=> \A p \in Products : Balance(p)
BY DEF DownloadsLedger, Balance, Ahead, AheadSet, IsAhead, Undeducted, Sum, Owed, Owes

\* The terms of the ledger are integers.
LEMMA LedgerTypes ==
  ASSUME TypeOK, NEW p \in Products
  PROVE  /\ downloadsCount[p] \in Int /\ cached[p] \in Int /\ downloads[p] \in Int
         /\ IsFiniteSet(AheadSet(p)) /\ Cardinality(AheadSet(p)) \in Int
         /\ Owed(p) \in [Flushes -> Int]
<1>1. AheadSet(p) \in SUBSET Calls
  BY DEF AheadSet
<1>2. IsFiniteSet(AheadSet(p)) /\ Cardinality(AheadSet(p)) \in Nat
  BY <1>1, CountConstants, FS_Subset, FS_CardinalityType
<1>3. \A f \in Flushes : Owes(f, p) \in Int
  BY DEF TypeOK, Owes
<1>. QED  BY <1>2, <1>3 DEF TypeOK, Owed

\* A step of call c changes the calls that are ahead by c at most.
LEMMA AheadChanges ==
  ASSUME TypeOK, NEW p \in Products, NEW c \in Calls,
         \A d \in Calls \ {c} : IsAhead(d, p)' <=> IsAhead(d, p)
  PROVE  Cardinality(AheadSet(p)') =
           Cardinality(AheadSet(p)) + (IF IsAhead(c, p)' THEN 1 ELSE 0) - (IF IsAhead(c, p) THEN 1 ELSE 0)
<1>1. IsFiniteSet(AheadSet(p)) /\ Cardinality(AheadSet(p)) \in Int
  BY LedgerTypes
<1>2. CASE IsAhead(c, p)' <=> IsAhead(c, p)
  <2>1. AheadSet(p)' = AheadSet(p)
    BY <1>2 DEF AheadSet
  <2>. QED  BY <1>1, <1>2, <2>1
<1>3. CASE IsAhead(c, p)' /\ ~IsAhead(c, p)
  <2>1. AheadSet(p)' = AheadSet(p) \cup {c} /\ c \notin AheadSet(p)
    BY <1>3 DEF AheadSet
  <2>2. Cardinality(AheadSet(p)') = Cardinality(AheadSet(p)) + 1
    BY <1>1, <2>1, FS_AddElement
  <2>. QED  BY <1>1, <1>3, <2>2
<1>4. CASE ~IsAhead(c, p)' /\ IsAhead(c, p)
  <2>1. AheadSet(p)' = AheadSet(p) \ {c} /\ c \in AheadSet(p)
    BY <1>4 DEF AheadSet
  <2>2. Cardinality(AheadSet(p)') = Cardinality(AheadSet(p)) - 1
    BY <1>1, <2>1, FS_RemoveElement
  <2>. QED  BY <1>1, <1>4, <2>2
<1>. QED  BY <1>2, <1>3, <1>4

\* A call keeps the ledger.
LEMMA CallBalance ==
  ASSUME TypeOK, NEW p \in Products, Balance(p), NEW c \in Calls, CallStep(c)
  PROVE  Balance(p)'
<1>1. Sum(Owed(p)') = Sum(Owed(p)) /\ Sum(Owed(p)) \in Int
  <2>1. fpc' = fpc /\ got' = got
    BY DEF CallStep, FindMark, DropMark, AddMark, Unmark, View, Register, NotFound, Start,
           Bump, Create, Fail, flushes
  <2>2. Owed(p)' = Owed(p)
    BY <2>1 DEF Owed, Owes
  <2>3. AddsUp(Owed(p), Flushes) /\ Flushes \in SUBSET Flushes
    BY LedgerTypes, SumParts, CountConstants
  <2>. QED  BY <2>2, <2>3 DEF AddsUp
<1>2. \A d \in Calls \ {c} : pc'[d] = pc[d] /\ op'[d] = op[d]
  <2>. \A v \in {pc, op} : v = [d \in Calls |-> v[d]]
    BY DEF TypeOK
  <2>1. CASE FindMark(c) \/ Unmark(c)
    BY <2>1 DEF FindMark, Unmark, Begin, Goto
  <2>2. CASE DropMark(c) \/ AddMark(c)
    BY <2>2 DEF DropMark, AddMark, Goto
  <2>3. CASE View(c) \/ Register(c)
    BY <2>3 DEF View, Register, Begin, Goto
  <2>4. CASE NotFound(c) \/ Start(c)
    BY <2>4 DEF NotFound, Start, Begin, Goto
  <2>5. CASE Bump(c) \/ Create(c) \/ Fail(c)
    BY <2>5 DEF Bump, Create, Fail, Goto
  <2>. QED  BY <2>1, <2>2, <2>3, <2>4, <2>5 DEF CallStep
<1>3. \A d \in Calls \ {c} : IsAhead(d, p)' <=> IsAhead(d, p)
  BY <1>2 DEF IsAhead
<1>. DEFINE was == IF IsAhead(c, p) THEN 1 ELSE 0
            is == IF IsAhead(c, p)' THEN 1 ELSE 0
<1>4. Cardinality(AheadSet(p)') = Cardinality(AheadSet(p)) + is - was
  BY <1>3, AheadChanges
<1>. DEFINE stocked == downloadsCount[p] + cached[p]
<1>. downloadsCount[p] \in Int /\ cached[p] \in Int /\ downloads[p] \in Int
     /\ Cardinality(AheadSet(p)) \in Int
  BY LedgerTypes
<1>. /\ pc \in [Calls -> {"idle", "toggle", "bump", "create", "done", "error", "orphan"}]
     /\ downloads \in [Products -> Nat] /\ downloadsCount \in [Products -> Int]
     /\ cached \in [Products -> Int] /\ op \in [Calls -> Ops \cup {None}]
     /\ \A d \in Calls : op[d] = None <=> pc[d] = "idle"
  BY DEF TypeOK
<1>5. stocked' - stocked = (downloads'[p] - downloads[p]) + is - was /\ stocked' \in Int /\ downloads'[p] \in Int
  <2>1. CASE FindMark(c) \/ DropMark(c) \/ AddMark(c) \/ Unmark(c) \/ View(c) \/ NotFound(c) \/ Start(c)
    <3>1. UNCHANGED <<downloadsCount, cached, downloads>>
      BY <2>1 DEF FindMark, DropMark, AddMark, Unmark, View, NotFound, Start, stock
    <3>2. pc'[c] \notin {"create", "orphan"} /\ pc[c] \notin {"create", "orphan"}
      BY <2>1 DEF FindMark, DropMark, AddMark, Unmark, View, NotFound, Start, Begin, Goto
    <3>. QED  BY <3>1, <3>2 DEF IsAhead
  <2>2. CASE Register(c)
    <3>1. PICK i \in Products :
            /\ downloads' = Plus(downloads, i) /\ downloadsCount' = Plus(downloadsCount, i)
            /\ cached' = cached
      BY <2>2 DEF Register
    <3>2. pc'[c] = "done" /\ pc[c] = "idle"
      BY <2>2 DEF Register, Begin, Goto
    <3>. QED  BY <3>1, <3>2 DEF IsAhead, Plus
  <2>3. CASE Bump(c)
    <3>1. pc[c] = "bump" /\ pc'[c] = "create" /\ op' = op /\ op[c] # None
      BY <2>3 DEF Bump, Goto
    <3>2. downloads' = downloads /\ ~IsAhead(c, p) /\ (IsAhead(c, p)' <=> op[c].id = p)
      BY <2>3, <3>1 DEF Bump, IsAhead
    <3>3. stocked' = stocked + (IF op[c].id = p THEN 1 ELSE 0)
      BY <2>3 DEF Bump, Plus
    <3>. QED  BY <3>2, <3>3
  <2>4. CASE Create(c)
    <3>1. pc[c] = "create" /\ pc'[c] = "done" /\ op' = op /\ op[c] # None
      BY <2>4 DEF Create, Goto
    <3>2. (IsAhead(c, p) <=> op[c].id = p) /\ ~IsAhead(c, p)'
      BY <3>1 DEF IsAhead
    <3>3. stocked' = stocked /\ downloads'[p] = downloads[p] + (IF op[c].id = p THEN 1 ELSE 0)
      BY <2>4 DEF Create, Plus
    <3>. QED  BY <3>2, <3>3
  <2>5. CASE Fail(c)
    <3>1. UNCHANGED <<downloadsCount, cached, downloads, op>>
      BY <2>5 DEF Fail, stock
    <3>2. IsAhead(c, p)' <=> IsAhead(c, p)
      BY <2>5, <3>1 DEF Fail, Goto, IsAhead
    <3>. QED  BY <3>1, <3>2
  <2>. QED  BY <2>1, <2>2, <2>3, <2>4, <2>5 DEF CallStep
<1>6. downloadsCount[p] + cached[p] = downloads[p] + Cardinality(AheadSet(p)) + Sum(Owed(p))
  BY DEF Balance
<1>7. is \in Int /\ was \in Int
  OBVIOUS
<1>8. stocked' = downloads'[p] + Cardinality(AheadSet(p)') + Sum(Owed(p)')
  <2>. HIDE DEF is, was
  <2>. QED  BY <1>1, <1>4, <1>5, <1>6, <1>7
<1>. QED  BY <1>8 DEF Balance

\* A flush keeps the ledger: what it adds to the row and what it deducts in
\* Redis are the values it read, whatever was counted in between.
LEMMA FlushBalance ==
  ASSUME TypeOK, NEW p \in Products, Balance(p), NEW f \in Flushes, FlushStep(f)
  PROVE  Balance(p)'
<1>1. Cardinality(AheadSet(p)') = Cardinality(AheadSet(p)) /\ downloads' = downloads
  <2>1. pc' = pc /\ op' = op /\ downloads' = downloads
    BY DEF FlushStep, ScanPage, NothingToFlush, Apply, Deduct, FlushFail, calls, stock
  <2>2. AheadSet(p)' = AheadSet(p)
    BY <2>1 DEF AheadSet, IsAhead
  <2>. QED  BY <2>1, <2>2
<1>. /\ fpc \in [Flushes -> {"idle", "scan", "applied", "done", "dead"}]
     /\ got \in [Flushes -> [Products -> Int]]
     /\ downloadsCount \in [Products -> Int] /\ cached \in [Products -> Int]
  BY DEF TypeOK
<1>2. \A g \in Flushes \ {f} : fpc'[g] = fpc[g] /\ got'[g] = got[g]
  BY DEF FlushStep, ScanPage, NothingToFlush, Apply, Deduct, FlushFail, GotoF
<1>3. \A g \in Flushes \ {f} : Owed(p)'[g] = Owed(p)[g]
  BY <1>2 DEF Owed, Owes
<1>4. /\ downloadsCount'[p] + cached'[p] = downloadsCount[p] + cached[p] + Owes(f, p)' - Owes(f, p)
      /\ Owes(f, p) \in Int /\ Owes(f, p)' \in Int
  <2>1. CASE ScanPage(f) \/ NothingToFlush(f)
    BY <2>1 DEF ScanPage, NothingToFlush, GotoF, stock, Owes
  <2>2. CASE Apply(f)
    BY <2>2 DEF Apply, GotoF, Owes
  <2>3. CASE Deduct(f)
    BY <2>3 DEF Deduct, GotoF, Owes
  <2>4. CASE FlushFail(f)
    BY <2>4 DEF FlushFail, GotoF, stock, Owes
  <2>. QED  BY <2>1, <2>2, <2>3, <2>4 DEF FlushStep
<1>5. Owed(p) \in [Flushes -> Int] /\ Owed(p)' \in [Flushes -> Int]
  <2>1. \A g \in Flushes : Owed(p)'[g] \in Int
    BY <1>3, <1>4, LedgerTypes DEF Owed
  <2>2. Owed(p)' = [g \in Flushes |-> Owed(p)'[g]]
    BY DEF Owed
  <2>. QED  BY <2>1, <2>2, LedgerTypes
<1>6. Sum(Owed(p)) \in Int /\ Sum(Owed(p)') = Sum(Owed(p)) + Owed(p)'[f] - Owed(p)[f]
  <2>. DEFINE g == Owed(p)
              h == Owed(p)'
  <2>1. IsFiniteSet(Flushes) /\ g \in [Flushes -> Int] /\ h \in [Flushes -> Int]
    BY <1>5, CountConstants
  <2>2. \A x \in Flushes \ {f} : h[x] = g[x]
    BY <1>3
  <2>. HIDE DEF g, h
  <2>4. Sum(g) \in Int /\ Sum(h) = Sum(g) + h[f] - g[f]
    BY <2>1, <2>2, FlushSumChanges
  <2>. QED  BY <2>4 DEF g, h
<1>7. Owed(p)'[f] = Owes(f, p)' /\ Owed(p)[f] = Owes(f, p)
  BY DEF Owed
<1>8. /\ downloadsCount[p] + cached[p] = downloads[p] + Cardinality(AheadSet(p)) + Sum(Owed(p))
      /\ downloads[p] \in Int /\ Cardinality(AheadSet(p)) \in Int
  BY LedgerTypes DEF Balance
<1>. QED  BY <1>1, <1>4, <1>6, <1>7, <1>8 DEF Balance

\* No download is lost or counted twice by flushes that overlap each other and
\* new downloads: any number of them, over any products (CountersService.bump and
\* flushBatch, DownloadsService.start, ProductService.registerDownload).
THEOREM LedgerHolds == Spec => []DownloadsLedger
<1>1. Init => DownloadsLedger
  <2>. SUFFICES ASSUME Init, NEW p \in Products PROVE Balance(p)
    BY LedgerIsBalance
  <2>1. AheadSet(p) = {}
    BY DEF Init, AheadSet, IsAhead
  <2>2. Owed(p) \in [Flushes -> Int] /\ \A f \in Flushes : Owed(p)[f] = 0
    BY DEF Init, Owed, Owes
  <2>3. Sum(Owed(p)) = 0
    BY <2>2, SumOfZeros, CountConstants
  <2>. QED  BY <2>1, <2>3, FS_EmptySet DEF Init, Zero, Balance
<1>2. Inv /\ DownloadsLedger /\ [Next]_vars => DownloadsLedger'
  <2>0. (\A p \in Products : Balance(p)') => DownloadsLedger'
    BY DEF DownloadsLedger, Balance, Ahead, AheadSet, IsAhead, Undeducted, Sum, Owed, Owes
  <2>. SUFFICES ASSUME TypeOK, \A p \in Products : Balance(p), [Next]_vars, NEW p \in Products
                PROVE  Balance(p)'
    BY <2>0, LedgerIsBalance DEF Inv
  <2>1. CASE Next
    BY <2>1, CallBalance, FlushBalance DEF Next
  <2>2. CASE UNCHANGED vars
    <3>1. AheadSet(p)' = AheadSet(p) /\ Owed(p)' = Owed(p)
      BY <2>2 DEF vars, calls, flushes, AheadSet, IsAhead, Owed, Owes
    <3>. QED  BY <2>2, <3>1 DEF vars, stock, Balance
  <2>. QED  BY <2>1, <2>2
<1>. QED  BY <1>1, <1>2, Always, PTL DEF Spec

=============================================================================
