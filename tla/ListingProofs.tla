--------------------------- MODULE ListingProofs ---------------------------
(***************************************************************************)
(* Proofs about Listing, for any rows, page sizes and counters.            *)
(*                                                                         *)
(* SteadyListedOnce is not inductive: that a row is shown once at the end  *)
(* rests on where the rows are shown before it.  The invariant is that the *)
(* client has seen the steady rows at or before its cursor and none behind *)
(* it (Place), that first and id alone order steady rows among the others  *)
(* (Ordered), although the query orders popular by the likes, too, and     *)
(* that every row passed over is paid for by a user that left the search   *)
(* as a cursor, of which the present one counts only after the next page   *)
(* (Paid).                                                                 *)
(***************************************************************************)
EXTENDS Listing, FiniteSetTheorems, TLAPS

\* The client will not come to the row any more.
Passed(x) == ended \/ (cursor # NoCursor /\ ~Follows(x, cursor))

Place(x) == listed[x] <= 1 /\ (~Passed(x) => listed[x] = 0)

Ordered ==
  /\ sort # "popular" => \A x \in Ids : key[x].second = 0
  /\ sort = "users" => /\ \A x \in Ids : key[x].first = 0
                       /\ cursor # NoCursor => cursor.first = 0
  /\ sort = "popular" => \A x \in steady : Untied(x)

Missed == {x \in steady : Passed(x) /\ listed[x] = 0}

\* The users whose leaving may have cost a row by now.
Spent == IF ended \/ cursor = NoCursor THEN left ELSE left \ {cursor.id}

Paid ==
  /\ sort = "users" /\ cursor # NoCursor => cursor.id \in present \cup left
  /\ \A c \in left : cursor # NoCursor /\ cursor.id <= c
  /\ Cardinality(Missed) <= Cardinality(Spent)

Inv == TypeOK /\ Ordered /\ (\A x \in steady : Place(x)) /\ Paid

LEMMA ListConstants ==
  /\ Ids \subseteq Nat /\ MaxLimit \in Nat \ {0} /\ MaxCount \in Nat
  /\ NoCursor \notin Cursors /\ Counts \subseteq Nat
BY IdsAreFinite, BoundsAreNatural DEF Counts

\* The key of a row, and where a cursor is.
LEMMA Numbers ==
  ASSUME TypeOK
  PROVE  /\ \A x \in Ids : key[x].first \in Nat /\ key[x].second \in Nat /\ x \in Nat
         /\ cursor # NoCursor => cursor.first \in Nat /\ cursor.id \in Nat
BY ListConstants DEF TypeOK, Keys, Cursors

LEMMA Finite ==
  ASSUME TypeOK
  PROVE  IsFiniteSet(left) /\ IsFiniteSet(Missed) /\ IsFiniteSet(Spent)
<1>1. left \subseteq Ids /\ Missed \subseteq Ids /\ Spent \subseteq Ids
  BY DEF TypeOK, Missed, Spent
<1> QED
  BY <1>1, IdsAreFinite, FS_Subset

LEMMA InvInit == Init => Inv
<1> SUFFICES ASSUME Init PROVE Inv
  OBVIOUS
<1>1. TypeOK
  <2>1. steady \subseteq present
    BY DEF Init, Untied
  <2>2. listed \in [Ids -> 0 .. 2] /\ ended \in BOOLEAN
    <3>1. listed = [x \in Ids |-> 0] /\ ended = FALSE
      BY DEF Init
    <3>2. ended \in BOOLEAN
      BY <3>1
    <3>3. 0 \in 0 .. 2
      OBVIOUS
    <3> QED
      BY <3>1, <3>2, <3>3
  <2>3. /\ sort \in Sorts /\ present \subseteq Ids /\ key \in [Ids -> Keys]
        /\ cursor = NoCursor /\ left = {}
    BY DEF Init, Untied
  <2> QED
    BY <2>1, <2>2, <2>3 DEF TypeOK
<1>2. Ordered
  <2>1. \A x \in steady : sort = "popular" => Untied(x)
    BY DEF Init, Untied
  <2>2. \A x \in Ids : (sort # "popular" => key[x].second = 0) /\ (sort = "users" => key[x].first = 0)
    BY DEF Init
  <2>3. cursor = NoCursor
    BY DEF Init
  <2> QED
    BY <2>1, <2>2, <2>3 DEF Ordered
<1>3. ASSUME NEW x \in steady PROVE Place(x)
  <2>1. x \in Ids /\ listed = [z \in Ids |-> 0]
    BY <1>1 DEF TypeOK, Init
  <2> QED
    BY <2>1 DEF Place
<1>4. Paid
  <2>1. cursor = NoCursor /\ ended = FALSE /\ left = {}
    BY DEF Init
  <2>2. Missed = {} /\ Spent = {}
    BY <2>1 DEF Missed, Passed, Spent
  <2>3. Cardinality(Missed) <= Cardinality(Spent)
    BY <2>2, FS_EmptySet
  <2> QED
    BY <2>1, <2>3 DEF Paid
<1> QED
  BY <1>1, <1>2, <1>3, <1>4 DEF Inv

-----------------------------------------------------------------------------
(* A page *)

\* Where the query puts a steady row before or behind another row of the list,
\* the cursor's condition does, too.
LEMMA SteadyOrder ==
  ASSUME Inv, NEW x \in steady, NEW y \in present, x # y
  PROVE  /\ Precedes(x, y) => ~Follows(x, [first |-> key[y].first, id |-> y])
         /\ Precedes(y, x) => Follows(x, [first |-> key[y].first, id |-> y])
<1>1. x \in Ids /\ y \in Ids /\ x \in present
  BY DEF Inv, TypeOK
<1>2. key[x].first # key[y].first \/ key[x].second = key[y].second
  BY <1>1 DEF Inv, Ordered, Untied
<1> QED
  BY <1>1, <1>2, Numbers DEF Inv, Precedes, Follows

\* What precedes the old cursor precedes every row behind it.
LEMMA CursorOrder ==
  ASSUME TypeOK, cursor # NoCursor, NEW x \in Ids, NEW y \in Ids,
         Follows(y, cursor), Follows(x, [first |-> key[y].first, id |-> y])
  PROVE  Follows(x, cursor)
BY Numbers DEF Follows

\* Every row of the next page is behind the cursor.
LEMMA RestFollows ==
  ASSUME Inv, NEW y \in Rest
  PROVE  y \in present /\ y \in Ids /\ (cursor # NoCursor => Follows(y, cursor))
<1>1. y \in present /\ y \in Ids
  BY DEF Rest, Inv, TypeOK
<1>2. ASSUME cursor # NoCursor, sort = "users" PROVE Follows(y, cursor)
  <2>1. y <= cursor.id /\ y \notin Skipped
    BY <1>2 DEF Rest
  <2>2. y # cursor.id
    BY <2>1, <1>1, Numbers DEF Skipped, Inv
  <2> QED
    BY <2>1, <2>2, <1>1, <1>2, Numbers DEF Follows, Inv, Ordered
<1> QED
  BY <1>1, <1>2 DEF Rest

\* What skip: 1 drops besides the cursor's row.
Dropped == IF sort = "users" /\ cursor # NoCursor /\ cursor.id \in left THEN Skipped ELSE {}

\* A row that does not come any more has come or is dropped by this page.
LEMMA RestOfSteady ==
  ASSUME Inv, ~ended, NEW x \in steady
  PROVE  /\ x \in Rest => ~Passed(x)
         /\ x \notin Rest => Passed(x) \/ x \in Dropped
<1>1. x \in present /\ x \in Ids
  BY DEF Inv, TypeOK
<1>2. x \in Rest => ~Passed(x)
  BY RestFollows DEF Passed
<1>3. ASSUME x \notin Rest, ~Passed(x) PROVE x \in Dropped
  <2>1. cursor # NoCursor /\ Follows(x, cursor) /\ sort = "users"
    BY <1>1, <1>3 DEF Rest, Passed
  <2>2. x < cursor.id
    BY <2>1, <1>1, Numbers DEF Follows, Inv, Ordered
  <2>3. x \in Skipped
    BY <2>1, <2>2, <1>1, <1>3, Numbers DEF Rest, Inv
  <2>4. cursor.id \notin present
    BY <2>2, <2>3, <1>1, <2>1, Numbers DEF Skipped, Inv
  <2> QED
    BY <2>1, <2>3, <2>4 DEF Dropped, Inv, Paid
<1> QED
  BY <1>2, <1>3

LEMMA DroppedOne ==
  ASSUME Inv, NEW x \in Dropped, NEW y \in Dropped
  PROVE  x = y
<1>1. x \in Skipped /\ y \in Skipped /\ x \in Nat /\ y \in Nat
  BY Numbers DEF Dropped, Skipped, Inv, TypeOK
<1> QED
  BY <1>1 DEF Skipped

LEMMA PageTypes ==
  ASSUME TypeOK, NextPage
  PROVE  TypeOK'
<1>1. PICK limit \in 1 .. MaxLimit, P \in SUBSET Rest : Show(P, limit)
  BY DEF NextPage
<1>2. P \subseteq Ids /\ UNCHANGED <<sort, present, key, steady, left>>
  BY DEF Rest, TypeOK, NextPage
<1>3. listed' \in [Ids -> 0 .. 2]
  BY <1>1 DEF Show, TypeOK
<1>4. cursor' \in Cursors \cup {NoCursor} /\ ended' \in BOOLEAN
  <2>1. CASE Full(P, limit)
    <3>1. PICK x \in P : cursor' = [first |-> key[x].first, id |-> x] /\ ended' = ended
      BY <1>1, <2>1 DEF Show
    <3>2. x \in Ids /\ key[x].first \in Counts
      BY <1>2 DEF TypeOK, Keys
    <3> QED
      BY <3>1, <3>2 DEF Cursors, TypeOK
  <2>2. CASE ~Full(P, limit)
    BY <1>1, <2>2 DEF Show, TypeOK
  <2> QED
    BY <2>1, <2>2
<1> QED
  BY <1>2, <1>3, <1>4 DEF TypeOK

\* What a page does to a steady row, and where the cursor goes.
LEMMA PageRow ==
  ASSUME Inv, NextPage, NEW x \in steady
  PROVE  /\ Place(x)'
         /\ Passed(x)' /\ listed'[x] = 0 => (Passed(x) /\ listed[x] = 0) \/ x \in Dropped
<1>1. PICK limit \in 1 .. MaxLimit, P \in SUBSET Rest : Show(P, limit)
  BY DEF NextPage
<1>2. /\ UNCHANGED <<sort, present, key, steady, left>> /\ ~ended
      /\ x \in Ids /\ x \in present /\ P \subseteq present /\ present \subseteq Ids
      /\ listed[x] \in 0 .. 2
  BY RestFollows DEF Inv, TypeOK, NextPage
<1>3. listed'[x] = IF x \notin P THEN listed[x] ELSE IF listed[x] = 0 THEN 1 ELSE 2
  BY <1>1, <1>2 DEF Show
<1>4. /\ listed[x] <= 1
      /\ x \in Rest => ~Passed(x) /\ listed[x] = 0
      /\ x \notin Rest => Passed(x) \/ (x \in Dropped /\ ~Passed(x) /\ listed[x] = 0)
  BY <1>2, RestOfSteady DEF Inv, Place
<1>5. CASE ~Full(P, limit)
  <2>1. P = Rest /\ ended' = TRUE
    BY <1>1, <1>5 DEF Show, Page, Full
  <2>2. Passed(x)'
    BY <2>1 DEF Passed
  <2> QED
    BY <2>1, <2>2, <1>3, <1>4 DEF Place
<1>6. CASE Full(P, limit)
  <2>1. PICK y \in P : /\ \A z \in P \ {y} : Precedes(z, y)
                       /\ cursor' = [first |-> key[y].first, id |-> y] /\ ended' = ended
    BY <1>1, <1>6 DEF Show
  <2>2. y \in present /\ y \in Ids /\ (cursor # NoCursor => Follows(y, cursor))
    BY RestFollows
  <2>3. cursor' # NoCursor
    BY <2>1, <2>2, ListConstants DEF Inv, TypeOK, Keys, Cursors
  <2>4. Passed(x)' <=> ~Follows(x, cursor')
    BY <1>2, <2>1, <2>3 DEF Follows, Passed
  <2>5. CASE x \in P
    <3>1. ~Follows(x, cursor')
      <4>1. CASE x = y
        BY <4>1, <2>1, <1>2, Numbers DEF Follows, Inv
      <4>2. CASE x # y
        BY <4>2, <2>1, <2>2, <2>5, SteadyOrder
      <4> QED
        BY <4>1, <4>2
    <3> QED
      BY <3>1, <2>5, <2>4, <1>3, <1>4 DEF Place
  <2>6. CASE x \in Rest \ P
    <3>1. Precedes(y, x) /\ x # y
      BY <1>1, <2>6, <2>1 DEF Show, Page
    <3>2. Follows(x, cursor')
      BY <3>1, <2>1, <2>2, SteadyOrder
    <3> QED
      BY <3>2, <2>6, <2>4, <1>3, <1>4 DEF Place
  <2>7. CASE x \notin Rest
    <3>1. listed'[x] = listed[x]
      BY <2>7, <1>3
    <3>2. ASSUME Passed(x) PROVE Passed(x)'
      <4>1. cursor # NoCursor /\ ~Follows(x, cursor)
        BY <3>2, <1>2 DEF Passed
      <4>2. ~Follows(x, cursor')
        BY <4>1, <2>1, <2>2, <1>2, CursorOrder DEF Inv
      <4> QED
        BY <4>2, <2>4
    <3> QED
      BY <3>1, <3>2, <2>7, <1>4 DEF Place
  <2> QED
    BY <2>5, <2>6, <2>7
<1> QED
  BY <1>5, <1>6

\* The next cursor is one of the rows behind the cursor.
LEMMA PageCursor ==
  ASSUME Inv, NextPage
  PROVE  \/ ended' /\ cursor' = cursor
         \/ /\ cursor' # NoCursor
            /\ \E y \in Rest : cursor' = [first |-> key[y].first, id |-> y]
<1>1. PICK limit \in 1 .. MaxLimit, P \in SUBSET Rest : Show(P, limit)
  BY DEF NextPage
<1>2. CASE ~Full(P, limit)
  BY <1>1, <1>2 DEF Show
<1>3. CASE Full(P, limit)
  <2>1. PICK y \in P : cursor' = [first |-> key[y].first, id |-> y]
    BY <1>1, <1>3 DEF Show
  <2>2. y \in Rest /\ y \in Ids
    BY RestFollows
  <2>3. cursor' # NoCursor
    BY <2>1, <2>2, ListConstants DEF Inv, TypeOK, Keys, Cursors
  <2> QED
    BY <2>1, <2>2, <2>3
<1> QED
  BY <1>2, <1>3

\* The row that a page drops is paid for by the cursor's user, who has left.
LEMMA PagePaid ==
  ASSUME Inv, NextPage, TypeOK'
  PROVE  Paid'
<1>1. UNCHANGED <<sort, present, key, steady, left>> /\ ~ended
  BY DEF NextPage
<1> DEFINE Moved(y) == cursor' # NoCursor /\ cursor' = [first |-> key[y].first, id |-> y]
<1>2. (ended' /\ cursor' = cursor) \/ \E y \in Rest : Moved(y)
  BY PageCursor
<1>3. \A y \in Rest : y \in present /\ y \in Ids /\ y \in Nat
                      /\ (cursor # NoCursor => Follows(y, cursor))
  BY RestFollows, Numbers DEF Inv
<1>4. \A c \in left : c \in Nat /\ cursor # NoCursor /\ cursor.id <= c /\ sort = "users"
  BY Numbers DEF Inv, TypeOK, Paid
<1>5. \A y \in Rest, c \in left : y < c
  <2> SUFFICES ASSUME NEW y \in Rest, NEW c \in left PROVE y < c
    OBVIOUS
  <2>1. Follows(y, cursor) /\ key[y].first = 0 /\ cursor.first = 0
    BY <1>3, <1>4 DEF Inv, Ordered
  <2>2. y < cursor.id /\ cursor.id \in Nat
    BY <2>1, <1>4, Numbers DEF Follows, Inv
  <2> QED
    BY <2>2, <1>3, <1>4
<1>6. sort' = "users" /\ cursor' # NoCursor => cursor'.id \in present' \cup left'
  BY <1>1, <1>2, <1>3 DEF Inv, Paid
<1>7. \A c \in left' : cursor' # NoCursor /\ cursor'.id <= c
  BY <1>1, <1>2, <1>3, <1>4, <1>5
<1>8. Spent' = left
  BY <1>1, <1>2, <1>3, <1>5 DEF Spent
<1>9. Missed' \subseteq Missed \cup Dropped
  BY <1>1, PageRow DEF Missed
<1>10. /\ IsFiniteSet(left) /\ IsFiniteSet(Missed) /\ IsFiniteSet(Spent)
       /\ Cardinality(left) \in Nat /\ Cardinality(Missed) \in Nat /\ Cardinality(Spent) \in Nat
       /\ Cardinality(Missed) <= Cardinality(Spent)
  BY Finite, FS_CardinalityType DEF Inv, Paid
<1>11. IsFiniteSet(Missed') /\ Cardinality(Missed') \in Nat
  <2>1. Missed' \subseteq Ids
    BY <1>1 DEF Missed, Inv, TypeOK
  <2> QED
    BY <2>1, IdsAreFinite, FS_Subset, FS_CardinalityType
<1>12. CASE Dropped = {}
  <2>1. Cardinality(Missed') <= Cardinality(Missed)
    BY <1>9, <1>10, <1>12, FS_Subset
  <2>2. Spent \subseteq left
    BY DEF Spent
  <2>3. Cardinality(Spent) <= Cardinality(left)
    BY <2>2, <1>10, FS_Subset
  <2>4. Cardinality(Missed') <= Cardinality(Spent')
    BY <2>1, <2>3, <1>8, <1>10, <1>11
  <2> QED
    BY <2>4, <1>6, <1>7 DEF Paid
<1>13. CASE Dropped # {}
  <2>1. PICK d : d \in Dropped
    BY <1>13
  <2>2. Dropped = {d}
    BY <2>1, DroppedOne
  <2>3. IsFiniteSet(Missed \cup {d}) /\ Cardinality(Missed \cup {d}) <= Cardinality(Missed) + 1
        /\ Cardinality(Missed \cup {d}) \in Nat
    BY <1>10, FS_AddElement
  <2>4. Cardinality(Missed') <= Cardinality(Missed \cup {d})
    BY <1>9, <2>2, <2>3, FS_Subset
  <2>5. cursor # NoCursor /\ cursor.id \in left
    BY <2>1 DEF Dropped
  <2>6. Spent = left \ {cursor.id}
    BY <2>5, <1>1 DEF Spent
  <2>7. Cardinality(Spent) = Cardinality(left) - 1
    BY <2>5, <2>6, <1>10, FS_RemoveElement
  <2>8. Cardinality(Missed') <= Cardinality(Spent')
    BY <2>3, <2>4, <2>7, <1>8, <1>10, <1>11
  <2> QED
    BY <2>8, <1>6, <1>7 DEF Paid
<1> QED
  BY <1>12, <1>13

LEMMA PageInv ==
  ASSUME Inv, NextPage
  PROVE  Inv'
<1>1. TypeOK'
  BY PageTypes DEF Inv
<1>2. UNCHANGED <<sort, present, key, steady, left>>
  BY DEF NextPage
<1>3. Ordered'
  <2>1. ASSUME sort = "users", cursor' # NoCursor PROVE cursor'.first = 0
    BY <2>1, PageCursor, RestFollows DEF Inv, Ordered
  <2> QED
    BY <1>2, <2>1 DEF Inv, Ordered, Untied
<1>4. \A x \in steady' : Place(x)'
  BY <1>2, PageRow
<1> QED
  BY <1>1, <1>3, <1>4, PagePaid DEF Inv

-----------------------------------------------------------------------------
(* Changes of the list *)

\* A change keeps the place of the rows that it leaves steady.
LEMMA ChangeInv ==
  ASSUME Inv, UNCHANGED <<sort, cursor, ended, listed>>, steady' = Steady,
         present' \subseteq Ids, key' \in [Ids -> Keys],
         sort # "popular" => \A x \in Ids : key'[x].second = 0,
         sort = "users" => \A x \in Ids : key'[x].first = 0,
         sort = "users" /\ cursor # NoCursor => cursor.id \in present' \cup left',
         left' = left \/ (sort = "users" /\ cursor # NoCursor /\ left' = left \cup {cursor.id})
  PROVE  Inv'
<1>1. \A x \in steady' : x \in steady /\ x \in present' /\ key'[x] = key[x]
  BY DEF Steady
<1>2. TypeOK'
  BY <1>1 DEF Inv, TypeOK, Cursors
<1>3. Ordered'
  BY DEF Ordered, Untied, Steady, Inv
<1>4. \A x \in steady' : (Passed(x)' <=> Passed(x)) /\ (Place(x)' <=> Place(x))
  BY <1>1 DEF Passed, Place, Follows
<1>5. Paid'
  <2>1. Missed' \subseteq Missed
    BY <1>1, <1>4 DEF Missed
  <2>2. Spent \subseteq Spent'
    BY DEF Spent
  <2>3. /\ IsFiniteSet(Missed) /\ IsFiniteSet(Missed') /\ IsFiniteSet(Spent) /\ IsFiniteSet(Spent')
        /\ Cardinality(Missed) <= Cardinality(Spent)
    <3>1. Spent' \subseteq Ids
      BY <1>2 DEF Spent, TypeOK
    <3> QED
      BY <3>1, <2>1, Finite, IdsAreFinite, FS_Subset DEF Inv, Paid
  <2>4. Cardinality(Missed') <= Cardinality(Missed) /\ Cardinality(Spent) <= Cardinality(Spent')
    BY <2>1, <2>2, <2>3, FS_Subset
  <2>5. Cardinality(Missed') <= Cardinality(Spent')
    BY <2>3, <2>4, FS_CardinalityType
  <2>6. sort' = "users" /\ cursor' # NoCursor => cursor'.id \in present' \cup left'
    BY DEF Inv, Paid
  <2>7. \A c \in left' : cursor' # NoCursor /\ cursor'.id <= c
    BY Numbers DEF Inv, Paid
  <2> QED
    BY <2>5, <2>6, <2>7 DEF Paid
<1> QED
  BY <1>1, <1>2, <1>3, <1>4, <1>5 DEF Inv

LEMMA InsertInv ==
  ASSUME Inv, NEW x \in Ids, Insert(x)
  PROVE  Inv'
<1>1. PICK k \in Keys : /\ key' = [key EXCEPT ![x] = k]
                        /\ (sort # "popular" => k.second = 0) /\ (sort = "users" => k.first = 0)
  BY DEF Insert
<1>2. /\ key' \in [Ids -> Keys]
      /\ sort # "popular" => \A y \in Ids : key'[y].second = 0
      /\ sort = "users" => \A y \in Ids : key'[y].first = 0
  BY <1>1 DEF Inv, TypeOK, Ordered
<1>3. /\ UNCHANGED <<sort, cursor, ended, listed, left>> /\ steady' = Steady
      /\ present' \subseteq Ids
      /\ sort = "users" /\ cursor # NoCursor => cursor.id \in present' \cup left'
  BY DEF Insert, Inv, TypeOK, Paid
<1> QED
  BY <1>2, <1>3, ChangeInv

LEMMA RemoveInv ==
  ASSUME Inv, NEW x \in Ids, Remove(x)
  PROVE  Inv'
<1>1. /\ UNCHANGED <<sort, cursor, ended, listed, key>> /\ steady' = Steady
      /\ present' = present \ {x} /\ present' \subseteq Ids /\ key' \in [Ids -> Keys]
      /\ left' = IF sort = "users" /\ cursor # NoCursor /\ cursor.id = x THEN left \cup {x} ELSE left
  BY DEF Remove, Inv, TypeOK
<1>2. /\ sort # "popular" => \A y \in Ids : key'[y].second = 0
      /\ sort = "users" => \A y \in Ids : key'[y].first = 0
  BY <1>1 DEF Inv, Ordered
<1>3. sort = "users" /\ cursor # NoCursor => cursor.id \in present \cup left
  BY DEF Inv, Paid
<1>4. CASE sort # "users"
  BY <1>1, <1>2, <1>4, ChangeInv
<1>5. CASE sort = "users"
  BY <1>1, <1>2, <1>3, <1>5, ChangeInv
<1> QED
  BY <1>4, <1>5

LEMMA CountInv ==
  ASSUME Inv, NEW x \in Ids, Count(x)
  PROVE  Inv'
<1>1. PICK k \in Keys : key' = [key EXCEPT ![x] = k] /\ (sort # "popular" => k.second = 0)
  <2>1. key[x] \in Keys /\ key[x] = [first |-> key[x].first, second |-> key[x].second]
    BY DEF Inv, TypeOK, Keys
  <2>2. key[x].first \in Counts /\ key[x].second \in Counts
        /\ (sort # "popular" => key[x].second = 0)
    BY <2>1 DEF Keys, Inv, Ordered
  <2>3. CASE key[x].first < MaxCount /\ key' = [key EXCEPT ![x].first = @ + 1]
    <3>1. [first |-> key[x].first + 1, second |-> key[x].second] \in Keys
      BY <2>2, <2>3, ListConstants DEF Keys, Counts
    <3>2. [key[x] EXCEPT !.first = @ + 1] = [first |-> key[x].first + 1, second |-> key[x].second]
      BY <2>1
    <3>3. key' = [key EXCEPT ![x] = [first |-> key[x].first + 1, second |-> key[x].second]]
      BY <3>2, <2>3
    <3> QED
      BY <3>1, <3>3, <2>2
  <2>4. CASE key[x].first > 0 /\ key' = [key EXCEPT ![x].first = @ - 1]
    <3>1. [first |-> key[x].first - 1, second |-> key[x].second] \in Keys
      BY <2>2, <2>4, ListConstants DEF Keys, Counts
    <3>2. [key[x] EXCEPT !.first = @ - 1] = [first |-> key[x].first - 1, second |-> key[x].second]
      BY <2>1
    <3>3. key' = [key EXCEPT ![x] = [first |-> key[x].first - 1, second |-> key[x].second]]
      BY <3>2, <2>4
    <3> QED
      BY <3>1, <3>3, <2>2
  <2>5. CASE sort = "popular" /\ key[x].second < MaxCount /\ key' = [key EXCEPT ![x].second = @ + 1]
    <3>1. [first |-> key[x].first, second |-> key[x].second + 1] \in Keys
      BY <2>2, <2>5, ListConstants DEF Keys, Counts
    <3>2. [key[x] EXCEPT !.second = @ + 1] = [first |-> key[x].first, second |-> key[x].second + 1]
      BY <2>1
    <3>3. key' = [key EXCEPT ![x] = [first |-> key[x].first, second |-> key[x].second + 1]]
      BY <3>2, <2>5
    <3> QED
      BY <3>1, <3>3, <2>2, <2>5
  <2>6. CASE sort = "popular" /\ key[x].second > 0 /\ key' = [key EXCEPT ![x].second = @ - 1]
    <3>1. [first |-> key[x].first, second |-> key[x].second - 1] \in Keys
      BY <2>2, <2>6, ListConstants DEF Keys, Counts
    <3>2. [key[x] EXCEPT !.second = @ - 1] = [first |-> key[x].first, second |-> key[x].second - 1]
      BY <2>1
    <3>3. key' = [key EXCEPT ![x] = [first |-> key[x].first, second |-> key[x].second - 1]]
      BY <3>2, <2>6
    <3> QED
      BY <3>1, <3>3, <2>2, <2>6
  <2> QED
    BY <2>3, <2>4, <2>5, <2>6 DEF Count
<1>2. key' \in [Ids -> Keys] /\ (sort # "popular" => \A y \in Ids : key'[y].second = 0)
  BY <1>1 DEF Inv, TypeOK, Ordered
<1>3. /\ UNCHANGED <<sort, present, cursor, ended, listed, left>> /\ steady' = Steady
      /\ sort # "users" /\ present' \subseteq Ids
  BY DEF Count, ByCount, Inv, TypeOK
<1> QED
  BY <1>2, <1>3, ChangeInv

LEMMA InvStep == Inv /\ [Next]_vars => Inv'
<1> SUFFICES ASSUME Inv, [Next]_vars PROVE Inv'
  OBVIOUS
<1>1. CASE Lists
  BY <1>1, PageInv DEF Lists, ListProducts, ListLikes, ListBookmarks, ListDownloads, ListUsers
<1>2. CASE Changes
  BY <1>2, InsertInv, RemoveInv, CountInv DEF Changes
<1>3. CASE UNCHANGED vars
  BY <1>3 DEF vars, Inv, TypeOK, Ordered, Untied, Place, Passed, Follows, Paid, Missed, Spent
<1> QED
  BY <1>1, <1>2, <1>3 DEF Next

THEOREM Always == Spec => []Inv
BY InvInit, InvStep, PTL DEF Spec

\* Types hold for any rows and page sizes: no counter that the lists are ordered
\* by becomes negative (findAll of product.service.ts and the other lists).
THEOREM TypeCorrect == Spec => []TypeOK
<1>1. Inv => TypeOK
  BY DEF Inv
<1> QED
  BY <1>1, Always, PTL

\* "Load more" shows every row that keeps its place exactly once, for any number
\* of rows, page sizes and changes between the pages (findAll of
\* product.service.ts, listForUser); a searched list of users passes over no more
\* rows than users left the search as its cursor (findAll of users.service.ts).
THEOREM ListedOnce == Spec => []SteadyListedOnce
<1>1. ASSUME Inv PROVE SteadyListedOnce
  <2>1. ASSUME ended PROVE Cardinality({x \in steady : listed[x] = 0}) <= Cardinality(left)
    <3>1. {x \in steady : listed[x] = 0} = Missed /\ Spent = left
      BY <2>1 DEF Missed, Passed, Spent
    <3> QED
      BY <3>1, <1>1 DEF Inv, Paid
  <2> QED
    BY <2>1, <1>1 DEF Inv, Place, SteadyListedOnce
<1>2. Inv => SteadyListedOnce
  BY <1>1
<1> QED
  BY <1>2, Always, PTL

\* No row of any other list is passed over: users alone are listed by cursor and
\* skip (findAll of product.service.ts, listForUser).
COROLLARY EveryRowListed == Spec => [](sort # "users" => EveryRowFollows)
<1>1. ASSUME Inv, sort # "users", ended, NEW x \in steady PROVE listed[x] = 1
  <2>1. left = {} /\ Spent = left
    BY <1>1 DEF Inv, TypeOK, Spent
  <2>2. Cardinality(Missed) <= 0
    BY <1>1, <2>1, FS_EmptySet DEF Inv, Paid
  <2>3. Missed = {}
    BY <1>1, <2>2, Finite, FS_CardinalityType, FS_EmptySet DEF Inv
  <2>4. listed[x] # 0
    BY <1>1, <2>3 DEF Missed, Passed
  <2> QED
    BY <1>1, <2>4 DEF Inv, Place, TypeOK
<1>2. Inv => (sort # "users" => EveryRowFollows)
  BY <1>1 DEF EveryRowFollows
<1> QED
  BY <1>2, Always, PTL

=============================================================================
