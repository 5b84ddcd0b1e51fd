------------------------------ MODULE Listing ------------------------------
(***************************************************************************)
(* A client that pages through a list with "Load more" while the rows of   *)
(* the list come, go and change their counters: findAll of                 *)
(* product.service.ts and users.service.ts, and listForUser of likes,      *)
(* bookmarks and downloads.  A page is one query; the cursor is what the   *)
(* client brings back of the page before.                                  *)
(***************************************************************************)
EXTENDS Naturals, FiniteSets

CONSTANTS
  Ids,        \* of the rows that may be in the list, naturals
  MaxLimit,   \* rows of the largest page: 60 in the code, and there is a smallest one
  MaxCount,   \* bounds creation times and counters
  NoCursor

ByCount == {"popular", "viewed", "liked"}
Sorts == ByCount \cup {"latest", "likes", "bookmarks", "downloads", "users"}

Counts == 0 .. MaxCount
\* What a list is ordered by before the id: a creation time or a counter, and
\* for popular the likes besides.  Users are ordered by their id alone.
Keys == [first : Counts, second : Counts]
Cursors == [first : Counts, id : Ids]

ASSUME IdsAreFinite == Ids \subseteq Nat /\ IsFiniteSet(Ids)
ASSUME BoundsAreNatural == MaxLimit \in Nat \ {0} /\ MaxCount \in Nat /\ NoCursor \notin Cursors

VARIABLES
  sort,     \* the list the client reads, in every request
  present,  \* rows of the list
  key,      \* what they are ordered by
  cursor,   \* of the last page
  ended,    \* the last page came without a cursor
  listed,   \* how often the client was shown a row: 0, 1, or 2 for more than once
  steady,   \* history: rows in the list, with one key, since the first page
  left      \* history: users that left the search while the client's cursor was theirs

vars == <<sort, present, key, cursor, ended, listed, steady, left>>

\* Newest, most popular and highest first.
Precedes(x, y) ==
  \/ key[x].first > key[y].first
  \/ /\ key[x].first = key[y].first
     /\ \/ key[x].second > key[y].second
        \/ key[x].second = key[y].second /\ x > y

\* Mutant: only the creation time or the counter counts.
FollowsFirst(x, c) == key[x].first < c.first

\* Rows that follow the cursor; where a creation time or counter is equal the id decides.
Follows(x, c) == key[x].first < c.first \/ (key[x].first = c.first /\ x < c.id)

\* cursor and skip: 1 of the users' query: it starts at the cursor's id and skips
\* the first row it finds, which is the cursor's only while the search finds it.
Skipped == {x \in present : /\ x <= cursor.id
                            /\ \A y \in present : y <= cursor.id => y <= x}

Rest == IF cursor = NoCursor THEN present
        ELSE IF sort = "users" THEN {x \in present : x <= cursor.id} \ Skipped
        ELSE {x \in present : Follows(x, cursor)}

\* orderBy and take.
Page(P, limit) ==
  /\ \A x \in P, y \in Rest \ P : Precedes(x, y)
  /\ Cardinality(P) <= limit
  /\ P = Rest \/ Cardinality(P) = limit

\* Mutant: a last row is looked for in every page.
FullAlways(P, limit) == TRUE

Full(P, limit) == Cardinality(P) = limit

\* A full page brings the key of its last row; a shorter one is the last.
Show(P, limit) ==
  /\ Page(P, limit)
  /\ listed' = [x \in Ids |-> IF x \notin P THEN listed[x] ELSE IF listed[x] = 0 THEN 1 ELSE 2]
  /\ IF Full(P, limit)
     THEN \E x \in P : /\ \A y \in P \ {x} : Precedes(y, x)
                       /\ cursor' = [first |-> key[x].first, id |-> x]
                       /\ UNCHANGED ended
     ELSE ended' = TRUE /\ UNCHANGED cursor

\* The client may ask for another number of rows each time.
NextPage ==
  /\ ~ended
  /\ \E limit \in 1 .. MaxLimit, P \in SUBSET Rest : Show(P, limit)
  /\ UNCHANGED <<sort, present, key, steady, left>>

ListProducts == sort \in ByCount \cup {"latest"} /\ NextPage
ListLikes == sort = "likes" /\ NextPage
ListBookmarks == sort = "bookmarks" /\ NextPage
ListDownloads == sort = "downloads" /\ NextPage
ListUsers == sort = "users" /\ NextPage

-----------------------------------------------------------------------------
(* What other requests do to the list *)

\* Rows that keep their place.  The cursor of popular does not carry the likes:
\* rows with equally many downloads have no place in it.
Steady == {x \in steady :
             /\ x \in present' /\ key'[x] = key[x]
             /\ sort = "popular" => \A y \in present' \ {x} : key'[y].first # key'[x].first}

\* A product is created, published or given a label that the filter asks for; a
\* product is liked, bookmarked or downloaded; a user signs up, or takes a name or
\* an email that the search finds.
Insert(x) ==
  /\ x \notin present
  /\ \E k \in Keys :
       /\ sort # "popular" => k.second = 0
       /\ sort = "users" => k.first = 0
       /\ key' = [key EXCEPT ![x] = k]
  /\ present' = present \cup {x}
  /\ steady' = Steady
  /\ UNCHANGED <<sort, cursor, ended, listed, left>>

\* A product is archived or loses a label; a like or a bookmark is taken back; a
\* user takes a name or an email that the search does not find.
Remove(x) ==
  /\ sort # "downloads" /\ x \in present
  /\ present' = present \ {x}
  /\ key' = key
  /\ steady' = Steady
  /\ left' = IF sort = "users" /\ cursor # NoCursor /\ cursor.id = x THEN left \cup {x} ELSE left
  /\ UNCHANGED <<sort, cursor, ended, listed>>

\* A product is viewed or downloaded once more, or liked or not any more.
Count(x) ==
  /\ sort \in ByCount /\ x \in present
  /\ LET k == key[x] IN
       \/ /\ k.first < MaxCount
          /\ key' = [key EXCEPT ![x].first = @ + 1]
       \/ /\ sort = "liked" /\ k.first > 0
          /\ key' = [key EXCEPT ![x].first = @ - 1]
       \/ /\ sort = "popular" /\ k.second < MaxCount
          /\ key' = [key EXCEPT ![x].second = @ + 1]
       \/ /\ sort = "popular" /\ k.second > 0
          /\ key' = [key EXCEPT ![x].second = @ - 1]
  /\ present' = present
  /\ steady' = Steady
  /\ UNCHANGED <<sort, cursor, ended, listed, left>>

-----------------------------------------------------------------------------

Untied(x) == \A y \in present \ {x} : key[y].first # key[x].first

Init ==
  /\ sort \in Sorts
  /\ present \in SUBSET Ids
  /\ key \in [Ids -> Keys]
  /\ \A x \in Ids : /\ sort # "popular" => key[x].second = 0
                    /\ sort = "users" => key[x].first = 0
                    /\ x \notin present => key[x] = [first |-> 0, second |-> 0]
  /\ cursor = NoCursor
  /\ ended = FALSE
  /\ listed = [x \in Ids |-> 0]
  /\ steady = {x \in present : sort = "popular" => Untied(x)}
  /\ left = {}

Lists == ListProducts \/ ListLikes \/ ListBookmarks \/ ListDownloads \/ ListUsers
Changes == \E x \in Ids : Insert(x) \/ Remove(x) \/ Count(x)

Next == Lists \/ Changes

Spec == Init /\ [][Next]_vars

\* A client that asks for the next page as long as there is one.
FairSpec == Spec /\ WF_vars(Lists)

-----------------------------------------------------------------------------
(* Properties *)

\* Types; a row that keeps its place is in the list, and no counter is negative.
TypeOK ==
  /\ sort \in Sorts
  /\ present \subseteq Ids
  /\ key \in [Ids -> Keys]
  /\ cursor \in Cursors \cup {NoCursor}
  /\ ended \in BOOLEAN
  /\ listed \in [Ids -> 0 .. 2]
  /\ steady \subseteq present
  /\ left \subseteq Ids /\ (sort # "users" => left = {})

\* "Load more" shows every row that keeps its place exactly once, whatever is
\* inserted, removed and counted between the pages.  A searched list of users is
\* the exception: each time the user whose id is the cursor leaves the search,
\* one other may never be shown, but no more than one, and no user is shown twice.
SteadyListedOnce ==
  /\ \A x \in steady : listed[x] <= 1
  /\ ended => Cardinality({x \in steady : listed[x] = 0}) <= Cardinality(left)

\* What the comment of findAll says of its cursor, that the rows after it follow
\* (users.service.ts:29).  It is not so of a searched list whose cursor's user
\* was renamed: see README.
EveryRowFollows == ended => \A x \in steady : listed[x] = 1

\* A client that asks on comes to the end of the list, although rows it has
\* seen may come back in front of its cursor.
ListingEnds == <>ended

=============================================================================
