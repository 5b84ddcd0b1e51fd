---------------------------- MODULE SignInProofs ----------------------------
(***************************************************************************)
(* Theorems about SignIn for any users, contacts, names, passwords, limits *)
(* and requests.                                                           *)
(*                                                                         *)
(* Every writer of a row keeps the unique indexes, the contact of the row  *)
(* and the row itself (Allowed): TypeOK, what a request remembers of a row *)
(* (Placed), and that whoever had a name is known (Owned) follow from it.  *)
(* Decided ties what a login has read to what was true at that moment; it  *)
(* holds because each write tells every running request.  Counted and      *)
(* NoTtlExcused are about the two keys in Redis.                           *)
(***************************************************************************)
EXTENDS SignIn, FiniteSetTheorems, TLAPS

(***************************************************************************)
(* Where a request can be, and what it then holds in memory.               *)
(***************************************************************************)
LoginLabels == {"idle", "done", "expireLogin", "findUser", "compare", "clear", "recount",
                "in", "out", "dead"}
ChangerLabels == {"idle", "done", "change", "changed", "refused", "dead"}
SetterLabels == {"idle", "done", "tryName", "findContact", "insert", "findAgain", "update",
                 "set", "error", "dead"}
RenamerLabels == {"idle", "done", "rename", "renamed", "taken", "error", "dead"}
AdminLabels == {"idle", "done", "dead"}
RefresherLabels == {"idle", "done", "expireRefresh", "refused", "dead"}

\* A login until it has read the user's row, and from then on.
Asking == [password : Passwords, attempts : Nat]
Knowing == [password : Passwords, hash : Passwords \cup {Unusable, None},
            exists : BOOLEAN, failed : BOOLEAN]

LoginOK(r) ==
  /\ pc[r] \in LoginLabels
  /\ pc[r] \in {"expireLogin", "findUser"} => mem[r] \in Asking
  /\ pc[r] \in {"compare", "clear", "recount", "in", "out"} => mem[r] \in Knowing

ChangerOK(r) ==
  /\ pc[r] \in ChangerLabels
  /\ pc[r] \in {"change", "changed"} =>
       /\ mem[r] \in [user : Users, password : Passwords, new : Passwords]
       /\ row[mem[r].user] # Absent

Setting == [contact : Contacts, hash : Passwords, tried : Nat, name : Names \cup {None},
            user : Users \cup {None}]
SetterOK(r) ==
  /\ pc[r] \in SetterLabels
  /\ pc[r] \notin {"idle", "done", "dead"} =>
       /\ mem[r] \in Setting
       /\ mem[r].tried \in 1 .. Len(Candidates[mem[r].contact])
  /\ pc[r] \notin {"idle", "done", "dead", "tryName"} => mem[r].name \in Names
  /\ pc[r] = "update" => mem[r].user \in Users /\ row[mem[r].user] # Absent

RenamerOK(r) ==
  /\ pc[r] \in RenamerLabels
  /\ pc[r] = "rename" =>
       /\ mem[r] \in [user : Users, name : Names]
       /\ row[mem[r].user] # Absent

Placed ==
  /\ pc = [r \in Requests |-> pc[r]] /\ mem = [r \in Requests |-> mem[r]]
  /\ \A r \in Logins : LoginOK(r)
  /\ \A r \in Changers : ChangerOK(r)
  /\ \A r \in Setters : SetterOK(r)
  /\ \A r \in Renamers : RenamerOK(r)
  /\ \A r \in Admins : pc[r] \in AdminLabels
  /\ \A r \in Refreshers : pc[r] \in RefresherLabels

RightNow(r) == Matches(row, r, mem[r])

\* The condition of Compare.
Accepts(m) == m.exists /\ hashToCheck(m) = m.password

\* While a request runs, right has what its password is now; what it has
\* decided is in right.
Decided(r) ==
  /\ Open(r) => RightNow(r) \in right[r]
  /\ pc[r] = "compare" /\ Accepts(mem[r]) => TRUE \in right[r]
  /\ pc[r] = "compare" /\ ~Accepts(mem[r]) => FALSE \in right[r] \/ mem[r].failed
  /\ pc[r] \in {"clear", "in", "change", "changed"} => TRUE \in right[r]
  /\ pc[r] \in {"recount", "out"} => FALSE \in right[r] \/ mem[r].failed

AllDecided == \A s \in Logins \cup Changers : Decided(s)

\* Whoever has a row now is among the owners; what made setPassword look again
\* and then fail was an owner of the name.
NameLost(r) == \E x \in owned : x.name = mem[r].name /\ x.contact # mem[r].contact
Owned ==
  /\ \A u \in Users : row[u] # Absent => [name |-> row[u].name, contact |-> row[u].contact] \in owned
  /\ \A r \in Setters : /\ pc[r] = "findAgain" => Known(mem[r].contact) \/ NameLost(r)
                        /\ pc[r] = "error" => NameLost(r)

\* The key counts at least those that it let through.
Counted ==
  /\ IsFiniteSet(passed)
  /\ Cardinality(passed) <= count["refresh"] /\ Cardinality(passed) <= MaxHits

\* A key without a TTL is excused, or the request that gives it one is on its way.
Sorted(k) == IF k = "login" THEN {r \in Logins : pc[r] = "expireLogin"}
             ELSE {r \in Refreshers : pc[r] = "expireRefresh"}
NoTtlExcused ==
  \A k \in Keys : count[k] > 0 => ttl[k] \/ k \in loose \/ Sorted(k) # {}

IInv ==
  /\ TypeOK /\ Placed /\ Owned /\ Counted /\ NoTtlExcused
  /\ AllDecided

-----------------------------------------------------------------------------
(* Writers of rows *)

\* What the unique indexes allow to be written for u: x, with the contact that u has.
Allowed(u, x) ==
  /\ u \in Users /\ x \in Rows
  /\ \A v \in Users : row[v] # Absent /\ v # u =>
       /\ x.name = None \/ x.name # row[v].name
       /\ x.contact = None \/ x.contact # row[v].contact
  /\ row[u] # Absent => x.contact = row[u].contact

\* An allowed write: rows stay, with their contacts; indexes stay unique; the
\* history grows.
LEMMA WriteKeeps ==
  ASSUME TypeOK, NEW u, NEW x, Allowed(u, x), Write(u, x)
  PROVE  /\ row' \in [Users -> Rows \cup {Absent}]
         /\ \A v, w \in Users : row'[v] # Absent /\ row'[w] # Absent /\ v # w =>
              /\ row'[v].name = None \/ row'[v].name # row'[w].name
              /\ row'[v].contact = None \/ row'[v].contact # row'[w].contact
         /\ \A v \in Users : row[v] # Absent => row'[v] # Absent /\ row'[v].contact = row[v].contact
         /\ \A v \in Users : row'[v] # Absent =>
              row'[v] = row[v] \/ [name |-> row'[v].name, contact |-> row'[v].contact] \in owned'
         /\ owned \subseteq owned'
<1>1. row' = [row EXCEPT ![u] = x] /\ row \in [Users -> Rows \cup {Absent}]
  BY DEF Write, TypeOK
<1>2. u \in Users /\ x \in Rows /\ x # Absent
  BY SentinelsAreNotData DEF Allowed
<1>3. row'[u] = x /\ \A v \in Users \ {u} : row'[v] = row[v]
  BY <1>1, <1>2
<1>4. row' \in [Users -> Rows \cup {Absent}]
  BY <1>1, <1>2
<1>5. ASSUME NEW v \in Users, NEW w \in Users, row'[v] # Absent, row'[w] # Absent, v # w
      PROVE  /\ row'[v].name = None \/ row'[v].name # row'[w].name
             /\ row'[v].contact = None \/ row'[v].contact # row'[w].contact
  <2>1. CASE v # u /\ w # u
    BY <1>3, <1>5, <2>1 DEF TypeOK
  <2>2. CASE v = u
    BY <1>3, <1>5, <2>2 DEF Allowed
  <2>3. CASE w = u
    BY <1>3, <1>5, <2>3 DEF Allowed
  <2>. QED  BY <2>1, <2>2, <2>3
<1>6. \A v \in Users : row[v] # Absent => row'[v] # Absent /\ row'[v].contact = row[v].contact
  BY <1>2, <1>3 DEF Allowed
<1>7. owned \subseteq owned' /\ [name |-> x.name, contact |-> x.contact] \in owned'
  BY DEF Write
<1>. QED  BY <1>3, <1>4, <1>5, <1>6, <1>7

\* A new hash is always allowed.
LEMMA HashAllowed ==
  ASSUME TypeOK, NEW u \in Users, row[u] # Absent, NEW h \in Passwords \cup {Unusable, None}
  PROVE  Allowed(u, [row[u] EXCEPT !.hash = h])
<1>. DEFINE x == [row[u] EXCEPT !.hash = h]
<1>1. row[u] \in Rows
  BY DEF TypeOK
<1>2. x \in Rows /\ x.name = row[u].name /\ x.contact = row[u].contact
  BY <1>1 DEF Rows
<1>3. \A v \in Users : row[v] # Absent /\ v # u =>
        /\ row[u].name = None \/ row[u].name # row[v].name
        /\ row[u].contact = None \/ row[u].contact # row[v].contact
  BY DEF TypeOK
<1>. QED  BY <1>2, <1>3 DEF Allowed

\* A name nobody has is allowed.
LEMMA NameAllowed ==
  ASSUME TypeOK, NEW u \in Users, row[u] # Absent, NEW n \in Names,
         ~Taken(n) \/ row[u].name = n, NEW h \in Passwords \cup {Unusable, None}
  PROVE  Allowed(u, [row[u] EXCEPT !.name = n, !.hash = h])
<1>. DEFINE x == [row[u] EXCEPT !.name = n, !.hash = h]
<1>1. row[u] \in Rows
  BY DEF TypeOK
<1>2. x \in Rows /\ x.name = n /\ x.contact = row[u].contact
  BY <1>1 DEF Rows
<1>3. ASSUME NEW v \in Users, row[v] # Absent, v # u
      PROVE  n # row[v].name
  <2>1. CASE ~Taken(n)
    BY <1>3, <2>1 DEF Taken, HasName
  <2>2. CASE row[u].name = n
    <3>1. n # None
      BY SentinelsAreNotData
    <3>. QED  BY <1>3, <2>2, <3>1 DEF TypeOK
  <2>. QED  BY <2>1, <2>2
<1>4. \A v \in Users : row[v] # Absent /\ v # u =>
        row[u].contact = None \/ row[u].contact # row[v].contact
  BY DEF TypeOK
<1>. QED  BY <1>2, <1>3, <1>4 DEF Allowed

\* So is a new row with a name and a contact nobody has.
LEMMA RowAllowed ==
  ASSUME TypeOK, NEW u \in Users, row[u] = Absent, NEW n \in Names, ~Taken(n),
         NEW c \in Contacts \cup {None}, c = None \/ ~Known(c),
         NEW h \in Passwords \cup {Unusable, None}
  PROVE  Allowed(u, [name |-> n, contact |-> c, hash |-> h])
BY DEF Allowed, Rows, Taken, HasName, Known, HasContact

\* A step of the model writes a row as the indexes allow, or leaves the rows;
\* then right is left alone, or begins for the request that begins.
Begins ==
  \E r \in Logins \cup Changers :
    pc[r] = "idle" /\ right' = [right EXCEPT ![r] = {Matches(row, r, mem'[r])}]
Writes == \E u \in Users, x \in Rows : Allowed(u, x) /\ Write(u, x)

LEMMA StepWrites ==
  ASSUME TypeOK, Placed, Next
  PROVE  Writes \/ (row' = row /\ owned' = owned /\ (right' = right \/ Begins))
<1>. mem = [r \in Requests |-> mem[r]] /\ Logins \cup Changers \subseteq Requests
  BY DEF Placed, Requests
<1>1. ASSUME NEW r \in Changers, FindOwn(r) \/ Change(r)
      PROVE  Writes \/ (row' = row /\ owned' = owned /\ (right' = right \/ Begins))
  <2>1. CASE Change(r)
    <3>1. /\ mem[r] \in [user : Users, password : Passwords, new : Passwords]
          /\ row[mem[r].user] # Absent
      BY <2>1 DEF Placed, ChangerOK, Change, Step
    <3>2. Allowed(mem[r].user, [row[mem[r].user] EXCEPT !.hash = mem[r].new])
      BY <3>1, HashAllowed
    <3>. QED  BY <2>1, <3>1, <3>2 DEF Change, Writes, Allowed
  <2>2. CASE FindOwn(r)
    <3>1. PICK u \in Users, p \in Passwords, new \in Passwords :
            LET m == [user |-> u, password |-> p, new |-> new] IN
              /\ Keeps(r, m) /\ right' = [right EXCEPT ![r] = {Matches(row, r, m)}]
              /\ pc[r] = "idle"
      BY <2>2 DEF FindOwn, Step
    <3>2. mem'[r] = [user |-> u, password |-> p, new |-> new]
      BY <3>1 DEF Keeps
    <3>3. Begins
      BY <3>1, <3>2 DEF Begins
    <3>. QED  BY <2>2, <3>3 DEF FindOwn
  <2>. QED  BY <1>1, <2>1, <2>2
<1>2. ASSUME NEW r \in Setters, SetStep(r)
      PROVE  Writes \/ (row' = row /\ owned' = owned /\ (right' = right \/ Begins))
  <2>1. CASE Insert(r)
    <3>0. pc[r] = "insert" /\ mem[r] \in Setting /\ mem[r].name \in Names
      BY <2>1 DEF Placed, SetterOK, Insert
    <3>1. CASE ~(Known(mem[r].contact) \/ Taken(mem[r].name))
      <4>1. PICK u \in Users :
              /\ row[u] = Absent
              /\ Write(u, [name |-> mem[r].name, contact |-> mem[r].contact, hash |-> mem[r].hash])
        BY <2>1, <3>1 DEF Insert
      <4>2. Allowed(u, [name |-> mem[r].name, contact |-> mem[r].contact, hash |-> mem[r].hash])
        BY <3>0, <3>1, <4>1, RowAllowed DEF Setting
      <4>. QED  BY <4>1, <4>2 DEF Writes, Allowed
    <3>2. CASE Known(mem[r].contact) \/ Taken(mem[r].name)
      BY <2>1, <3>2 DEF Insert, history
    <3>. QED  BY <3>1, <3>2
  <2>2. CASE Update(r)
    <3>1. /\ mem[r] \in Setting /\ mem[r].user \in Users /\ row[mem[r].user] # Absent
      BY <2>2 DEF Placed, SetterOK, Update, Step
    <3>2. Allowed(mem[r].user, [row[mem[r].user] EXCEPT !.hash = mem[r].hash])
      BY <3>1, HashAllowed DEF Setting
    <3>. QED  BY <2>2, <3>1, <3>2 DEF Update, Writes, Allowed
  <2>3. CASE StartSet(r) \/ TryName(r) \/ FindContact(r) \/ FindAgain(r)
    BY <2>3 DEF StartSet, TryName, FindContact, FindAgain, history
  <2>. QED  BY <1>2, <2>1, <2>2, <2>3 DEF SetStep
<1>3. ASSUME NEW r \in Renamers, CheckName(r) \/ Rename(r)
      PROVE  Writes \/ (row' = row /\ owned' = owned /\ (right' = right \/ Begins))
  <2>1. CASE Rename(r) /\ ~Taken(mem[r].name)
    <3>1. /\ mem[r] \in [user : Users, name : Names] /\ row[mem[r].user] # Absent
      BY <2>1 DEF Placed, RenamerOK, Rename, Step
    <3>. DEFINE u == mem[r].user
    <3>2. row[u] \in Rows
      BY <3>1 DEF TypeOK
    <3>3. /\ row[u].hash \in Passwords \cup {Unusable, None}
          /\ [row[u] EXCEPT !.name = mem[r].name] =
             [row[u] EXCEPT !.name = mem[r].name, !.hash = row[u].hash]
      BY <3>2 DEF Rows
    <3>4. Allowed(u, [row[u] EXCEPT !.name = mem[r].name])
      BY <2>1, <3>1, <3>3, NameAllowed
    <3>. QED  BY <2>1, <3>1, <3>4 DEF Rename, Writes, Allowed
  <2>. QED  BY <1>3, <2>1 DEF CheckName, Rename, history
<1>4. ASSUME NEW r \in Admins, CreateUser(r) \/ UpdateUser(r)
      PROVE  Writes \/ (row' = row /\ owned' = owned /\ (right' = right \/ Begins))
  <2>1. CASE CreateUser(r)
    <3>1. PICK u \in Users, n \in Names, c \in Contacts \cup {None}, h \in {Unusable, None} :
            /\ row[u] = Absent /\ ~Taken(n) /\ (c = None \/ ~Known(c))
            /\ Write(u, [name |-> n, contact |-> c, hash |-> h])
      BY <2>1 DEF CreateUser
    <3>2. Allowed(u, [name |-> n, contact |-> c, hash |-> h])
      BY <3>1, RowAllowed
    <3>. QED  BY <3>1, <3>2 DEF Writes, Allowed
  <2>2. CASE UpdateUser(r)
    <3>0. PICK u \in Users, n \in Names :
            /\ row[u] # Absent /\ (~Taken(n) \/ row[u].name = n)
            /\ \E h \in {row[u].hash, Unusable} : Write(u, [row[u] EXCEPT !.name = n, !.hash = h])
      BY <2>2 DEF UpdateUser
    <3>1. PICK h \in {row[u].hash, Unusable} : Write(u, [row[u] EXCEPT !.name = n, !.hash = h])
      BY <3>0
    <3>2. row[u].hash \in Passwords \cup {Unusable, None}
      BY <3>0 DEF TypeOK, Rows
    <3>3. Allowed(u, [row[u] EXCEPT !.name = n, !.hash = h])
      BY <3>0, <3>1, <3>2, NameAllowed
    <3>. QED  BY <3>1, <3>3 DEF Writes, Allowed
  <2>. QED  BY <1>4, <2>1, <2>2
<1>5. ASSUME NEW r \in Logins, LoginStep(r)
      PROVE  row' = row /\ owned' = owned /\ (right' = right \/ Begins)
  <2>1. CASE CountLogin(r)
    <3>1. PICK p \in Passwords, counted \in BOOLEAN, answered \in BOOLEAN :
            LET attempts == IF answered THEN count["login"] + 1 ELSE 0
                m == [password |-> p, attempts |-> attempts]
            IN  /\ Keeps(r, m) /\ right' = [right EXCEPT ![r] = {Matches(row, r, m)}]
                /\ pc[r] = "idle"
      BY <2>1 DEF CountLogin, Step
    <3>2. right' = [right EXCEPT ![r] = {Matches(row, r, mem'[r])}]
      BY <3>1 DEF Keeps
    <3>3. Begins
      BY <3>1, <3>2 DEF Begins
    <3>. QED  BY <2>1, <3>3 DEF CountLogin
  <2>2. CASE ExpireLogin(r) \/ FindUser(r) \/ Compare(r) \/ Clear(r) \/ Recount(r)
    BY <2>2 DEF ExpireLogin, FindUser, Compare, Clear, Recount, history
  <2>. QED  BY <1>5, <2>1, <2>2 DEF LoginStep
<1>6. ASSUME NEW r \in Refreshers, RefreshStep(r)
      PROVE  row' = row /\ owned' = owned /\ right' = right
  BY <1>6 DEF RefreshStep, Hit, ExpireRefresh, history
<1>7. ASSUME NEW k \in Keys, KeyEnds(k)
      PROVE  row' = row /\ owned' = owned /\ right' = right
  BY <1>7 DEF KeyEnds, history
<1>8. ASSUME NEW r \in Requests, Die(r)
      PROVE  row' = row /\ owned' = owned /\ right' = right
  BY <1>8 DEF Die, history
<1>. QED  BY <1>1, <1>2, <1>3, <1>4, <1>5, <1>6, <1>7, <1>8 DEF Next

\* What the logins are made with does not change, and so primes reach the arguments.
LEMMA IdnStays == [Next]_vars => idn' = idn
BY DEF Next, vars, LoginStep, CountLogin, ExpireLogin, FindUser, Compare, Clear, Recount,
       FindOwn, Change, SetStep, StartSet, TryName, FindContact, Insert, FindAgain, Update,
       CheckName, Rename, CreateUser, UpdateUser, RefreshStep, Hit, ExpireRefresh, KeyEnds, Die

LEMMA MatchesLater ==
  ASSUME [Next]_vars, NEW s
  PROVE  RightNow(s)' = Matches(row', s, mem'[s])
BY IdnStays DEF RightNow, Matches, Sought

\* No row goes away, and none changes its contact.
RowsStay ==
  \A v \in Users : row[v] # Absent => row'[v] # Absent /\ row'[v].contact = row[v].contact

LEMMA StepKeepsRows ==
  ASSUME TypeOK, Placed, [Next]_vars
  PROVE  RowsStay /\ owned \subseteq owned' /\ row' \in [Users -> Rows \cup {Absent}]
<1>1. CASE UNCHANGED vars
  BY <1>1 DEF vars, RowsStay, TypeOK
<1>2. CASE Next
  <2>1. CASE row' = row /\ owned' = owned
    BY <2>1 DEF RowsStay, TypeOK
  <2>2. CASE Writes
    <3>1. PICK u \in Users, x \in Rows : Allowed(u, x) /\ Write(u, x)
      BY <2>2 DEF Writes
    <3>. QED  BY <3>1, WriteKeeps DEF RowsStay
  <2>. QED  BY <1>2, <2>1, <2>2, StepWrites
<1>. QED  BY <1>1, <1>2

-----------------------------------------------------------------------------
(* One request moves at a time *)

Same(s) == pc'[s] = pc[s] /\ mem'[s] = mem[s]
Only(r) ==
  /\ pc' = [s \in Requests |-> pc'[s]] /\ mem' = [s \in Requests |-> mem'[s]]
  /\ \A s \in Requests \ {r} : Same(s)

\* A login moves along its labels and remembers what it should.
LEMMA LoginMoves ==
  ASSUME TypeOK, Placed, NEW r \in Logins, LoginStep(r)
  PROVE  Only(r) /\ LoginOK(r)'
<1>. r \in Requests
  BY DEF Requests
<1>. /\ pc = [s \in Requests |-> pc[s]] /\ mem = [s \in Requests |-> mem[s]]
     /\ LoginOK(r)
  BY DEF Placed
<1>1. CASE CountLogin(r)
  <2>1. PICK p \in Passwords, counted \in BOOLEAN, answered \in BOOLEAN :
          LET attempts == IF answered THEN count["login"] + 1 ELSE 0
              m == [password |-> p, attempts |-> attempts]
          IN  Keeps(r, m) /\ Step(r, "idle", IF attempts = 1 THEN "expireLogin" ELSE "findUser")
    BY <1>1 DEF CountLogin
  <2>2. count["login"] + 1 \in Nat
    BY DEF TypeOK, Keys
  <2>. QED  BY <2>1, <2>2 DEF Only, Same, LoginOK, LoginLabels, Asking, Keeps, Step
<1>2. CASE ExpireLogin(r)
  BY <1>2 DEF Only, Same, LoginOK, LoginLabels, ExpireLogin, Step
<1>3. CASE FindUser(r)
  <2>1. Step(r, "findUser", "compare")
    BY <1>3 DEF FindUser
  <2>2. PICK h \in {row[u].hash : u \in {v \in Users : Sought(row[v])}} \cup {None},
             e \in BOOLEAN, f \in BOOLEAN :
          mem' = [mem EXCEPT ![r] =
                    [password |-> mem[r].password, hash |-> h, exists |-> e, failed |-> f]]
    BY <1>3 DEF FindUser, Keeps
  <2>3. h \in Passwords \cup {Unusable, None}
    BY DEF TypeOK, Rows, Sought
  <2>4. mem[r].password \in Passwords
    BY <2>1 DEF LoginOK, Asking, Step
  <2>. QED  BY <2>1, <2>2, <2>3, <2>4 DEF Only, Same, LoginOK, LoginLabels, Knowing, Step
<1>4. CASE Compare(r) \/ Clear(r) \/ Recount(r)
  BY <1>4 DEF Only, Same, LoginOK, LoginLabels, Compare, Clear, Recount, Step
<1>. QED  BY <1>1, <1>2, <1>3, <1>4 DEF LoginStep

LEMMA ChangerMoves ==
  ASSUME TypeOK, Placed, RowsStay, NEW r \in Changers, FindOwn(r) \/ Change(r)
  PROVE  Only(r) /\ ChangerOK(r)'
<1>. r \in Requests
  BY DEF Requests
<1>. /\ pc = [s \in Requests |-> pc[s]] /\ mem = [s \in Requests |-> mem[s]]
     /\ ChangerOK(r)
  BY DEF Placed
<1>1. CASE FindOwn(r)
  <2>1. PICK u \in Users, p \in Passwords, new \in Passwords :
          /\ row[u] # Absent
          /\ Keeps(r, [user |-> u, password |-> p, new |-> new])
          /\ Step(r, "idle", IF row[u].hash = p THEN "change" ELSE "refused")
    BY <1>1 DEF FindOwn
  <2>2. row'[u] # Absent
    BY <2>1 DEF RowsStay
  <2>. QED  BY <2>1, <2>2 DEF Only, Same, ChangerOK, ChangerLabels, Keeps, Step
<1>2. CASE Change(r)
  BY <1>2 DEF Only, Same, ChangerOK, ChangerLabels, Change, Step, RowsStay
<1>. QED  BY <1>1, <1>2

\* The candidates of a contact are names, and there is one.
LEMMA CandidateTypes ==
  ASSUME NEW c \in Contacts
  PROVE  /\ Len(Candidates[c]) \in Nat /\ Len(Candidates[c]) >= 1
         /\ \A i \in 1 .. Len(Candidates[c]) : Candidates[c][i] \in Names
<1>1. Candidates[c] \in Seq(Names) /\ Candidates[c] # <<>>
  BY CandidatesAreNames
<1>. QED  BY <1>1

LEMMA SetterMoves ==
  ASSUME TypeOK, Placed, RowsStay, NEW r \in Setters, SetStep(r)
  PROVE  Only(r) /\ SetterOK(r)'
<1>. r \in Requests
  BY DEF Requests
<1>. /\ pc = [s \in Requests |-> pc[s]] /\ mem = [s \in Requests |-> mem[s]]
     /\ SetterOK(r)
  BY DEF Placed
<1>1. CASE StartSet(r)
  <2>1. PICK c \in Contacts, p \in Passwords :
          Keeps(r, [contact |-> c, hash |-> p, tried |-> 1, name |-> None, user |-> None])
    BY <1>1 DEF StartSet
  <2>2. Step(r, "idle", "tryName") /\ 1 \in 1 .. Len(Candidates[c])
    BY <1>1, CandidateTypes DEF StartSet
  <2>. QED  BY <2>1, <2>2 DEF Only, Same, SetterOK, SetterLabels, Setting, Keeps, Step
<1>2. CASE TryName(r)
  <2>. DEFINE m == mem[r]
  <2>0. /\ pc[r] = "tryName" /\ m \in Setting
        /\ m.tried \in 1 .. Len(Candidates[m.contact]) /\ m.contact \in Contacts
    BY <1>2 DEF TryName, SetterOK, Setting
  <2>1. CASE \E n \in Names : Step(r, "tryName", "findContact") /\ Keeps(r, [m EXCEPT !.name = n])
    <3>1. PICK n \in Names : Step(r, "tryName", "findContact") /\ Keeps(r, [m EXCEPT !.name = n])
      BY <2>1
    <3>2. mem'[r] = [m EXCEPT !.name = n]
      BY <3>1 DEF Keeps
    <3>3. /\ mem'[r] \in Setting /\ mem'[r].name = n
          /\ mem'[r].tried = m.tried /\ mem'[r].contact = m.contact
      BY <2>0, <3>2 DEF Setting
    <3>. QED  BY <2>0, <3>1, <3>3 DEF Only, Same, SetterOK, SetterLabels, Keeps, Step
  <2>2. CASE /\ m.tried < Len(Candidates[m.contact])
             /\ Step(r, "tryName", "tryName") /\ Keeps(r, [m EXCEPT !.tried = @ + 1])
    <3>1. m.tried + 1 \in 1 .. Len(Candidates[m.contact]) /\ m.tried + 1 \in Nat
      BY <2>0, <2>2, CandidateTypes
    <3>2. mem'[r] = [m EXCEPT !.tried = m.tried + 1]
      BY <2>2 DEF Keeps
    <3>3. mem'[r] \in Setting /\ mem'[r].tried = m.tried + 1 /\ mem'[r].contact = m.contact
      BY <2>0, <3>1, <3>2 DEF Setting
    <3>. QED  BY <2>0, <2>2, <3>1, <3>3 DEF Only, Same, SetterOK, SetterLabels, Keeps, Step
  <2>3. Candidates[m.contact][m.tried] \in Names
    BY <2>0, CandidateTypes
  <2>. QED  BY <1>2, <2>1, <2>2, <2>3 DEF TryName
<1>3. CASE FindContact(r) \/ FindAgain(r)
  <2>0. pc[r] \in {"findContact", "findAgain"} /\ mem[r] \in Setting /\ mem[r].name \in Names
        /\ mem[r].tried \in 1 .. Len(Candidates[mem[r].contact])
    BY <1>3 DEF FindContact, FindAgain, SetterOK
  <2>1. CASE mem' = mem /\ \E l \in {"insert", "error"} : Step(r, pc[r], l)
    BY <2>0, <2>1 DEF Only, Same, SetterOK, SetterLabels, Step
  <2>2. CASE \E u \in Users : /\ HasContact(u, mem[r].contact) /\ Step(r, pc[r], "update")
                              /\ Keeps(r, [mem[r] EXCEPT !.user = u])
    <3>1. PICK u \in Users : /\ HasContact(u, mem[r].contact) /\ Step(r, pc[r], "update")
                             /\ Keeps(r, [mem[r] EXCEPT !.user = u])
      BY <2>2
    <3>2. row'[u] # Absent
      BY <3>1 DEF HasContact, RowsStay
    <3>3. /\ mem'[r] \in Setting /\ mem'[r].user = u /\ mem'[r].name = mem[r].name
          /\ mem'[r].tried = mem[r].tried /\ mem'[r].contact = mem[r].contact
      BY <2>0, <3>1 DEF Keeps, Setting
    <3>. QED  BY <2>0, <3>1, <3>2, <3>3 DEF Only, Same, SetterOK, SetterLabels, Keeps, Step
  <2>. QED  BY <1>3, <2>0, <2>1, <2>2 DEF FindContact, FindAgain
<1>4. CASE Insert(r) \/ Update(r)
  BY <1>4 DEF Insert, Update, Only, Same, SetterOK, SetterLabels, Step
<1>. QED  BY <1>1, <1>2, <1>3, <1>4 DEF SetStep

LEMMA RenamerMoves ==
  ASSUME TypeOK, Placed, RowsStay, NEW r \in Renamers, CheckName(r) \/ Rename(r)
  PROVE  Only(r) /\ RenamerOK(r)'
<1>. r \in Requests
  BY DEF Requests
<1>. /\ pc = [s \in Requests |-> pc[s]] /\ mem = [s \in Requests |-> mem[s]]
     /\ RenamerOK(r)
  BY DEF Placed
<1>1. CASE CheckName(r)
  <2>1. PICK u \in Users, n \in Names :
          /\ row[u] # Absent /\ Keeps(r, [user |-> u, name |-> n])
          /\ (Step(r, "idle", "taken") \/ Step(r, "idle", "rename"))
    BY <1>1 DEF CheckName
  <2>2. row'[u] # Absent
    BY <2>1 DEF RowsStay
  <2>. QED  BY <2>1, <2>2 DEF Only, Same, RenamerOK, RenamerLabels, Keeps, Step
<1>2. CASE Rename(r)
  BY <1>2 DEF Only, Same, RenamerOK, RenamerLabels, Rename, Step
<1>. QED  BY <1>1, <1>2

LEMMA AdminMoves ==
  ASSUME Placed, NEW r \in Admins, CreateUser(r) \/ UpdateUser(r)
  PROVE  Only(r) /\ pc'[r] \in AdminLabels
BY DEF Placed, Requests, Only, Same, AdminLabels, CreateUser, UpdateUser, Step

LEMMA RefresherMoves ==
  ASSUME Placed, NEW r \in Refreshers, RefreshStep(r)
  PROVE  Only(r) /\ pc'[r] \in RefresherLabels
BY DEF Placed, Requests, Only, Same, RefresherLabels, RefreshStep, Hit, ExpireRefresh, Step

LEMMA DieMoves ==
  ASSUME Placed, NEW r \in Requests, Die(r)
  PROVE  Only(r) /\ pc'[r] = "dead"
BY DEF Placed, Only, Same, Die

\* What each sort of request asks of where s is.
OK(s) ==
  /\ s \in Logins => LoginOK(s)
  /\ s \in Changers => ChangerOK(s)
  /\ s \in Setters => SetterOK(s)
  /\ s \in Renamers => RenamerOK(s)
  /\ s \in Admins => pc[s] \in AdminLabels
  /\ s \in Refreshers => pc[s] \in RefresherLabels

LEMMA PlacedIsOK ==
  Placed <=> /\ pc = [r \in Requests |-> pc[r]] /\ mem = [r \in Requests |-> mem[r]]
             /\ \A s \in Requests : OK(s)
BY DEF Placed, OK, Requests

\* A request that does not move stays where its sort allows.
LEMMA SameOK ==
  ASSUME RowsStay, NEW s, Same(s), OK(s)
  PROVE  OK(s)'
<1>1. LoginOK(s) => LoginOK(s)'
  BY DEF Same, LoginOK
<1>2. ChangerOK(s) => ChangerOK(s)'
  BY DEF Same, ChangerOK, RowsStay
<1>3. SetterOK(s) => SetterOK(s)'
  BY DEF Same, SetterOK, RowsStay
<1>4. RenamerOK(s) => RenamerOK(s)'
  BY DEF Same, RenamerOK, RowsStay
<1>. QED  BY <1>1, <1>2, <1>3, <1>4 DEF OK, Same

\* Every step is one request's, or nobody's.
LEMMA StepMoves ==
  ASSUME TypeOK, Placed, [Next]_vars
  PROVE  \/ pc' = pc /\ mem' = mem
         \/ \E r \in Requests : Only(r) /\ OK(r)'
<1>. RowsStay
  BY StepKeepsRows
<1>. USE SortsAreDisjoint
<1>1. ASSUME NEW r \in Logins, LoginStep(r)
      PROVE  r \in Requests /\ Only(r) /\ OK(r)'
  BY <1>1, LoginMoves DEF OK, Requests
<1>2. ASSUME NEW r \in Changers, FindOwn(r) \/ Change(r)
      PROVE  r \in Requests /\ Only(r) /\ OK(r)'
  BY <1>2, ChangerMoves DEF OK, Requests
<1>3. ASSUME NEW r \in Setters, SetStep(r)
      PROVE  r \in Requests /\ Only(r) /\ OK(r)'
  BY <1>3, SetterMoves DEF OK, Requests
<1>4. ASSUME NEW r \in Renamers, CheckName(r) \/ Rename(r)
      PROVE  r \in Requests /\ Only(r) /\ OK(r)'
  BY <1>4, RenamerMoves DEF OK, Requests
<1>5. ASSUME NEW r \in Admins, CreateUser(r) \/ UpdateUser(r)
      PROVE  r \in Requests /\ Only(r) /\ OK(r)'
  BY <1>5, AdminMoves DEF OK, Requests
<1>6. ASSUME NEW r \in Refreshers, RefreshStep(r)
      PROVE  r \in Requests /\ Only(r) /\ OK(r)'
  BY <1>6, RefresherMoves DEF OK, Requests
<1>7. ASSUME NEW r \in Requests, Die(r)
      PROVE  Only(r) /\ OK(r)'
  <2>1. Only(r) /\ pc'[r] = "dead"
    BY <1>7, DieMoves
  <2>. QED  BY <2>1 DEF OK, LoginOK, ChangerOK, SetterOK, RenamerOK, LoginLabels, ChangerLabels,
                        SetterLabels, RenamerLabels, AdminLabels, RefresherLabels
<1>8. CASE (\E k \in Keys : KeyEnds(k)) \/ UNCHANGED vars
  BY <1>8 DEF KeyEnds, vars
<1>. QED  BY <1>1, <1>2, <1>3, <1>4, <1>5, <1>6, <1>7, <1>8 DEF Next

\* Every step leaves the requests where they may be.
LEMMA PlacedStep ==
  ASSUME TypeOK, Placed, [Next]_vars
  PROVE  Placed'
<1>. RowsStay /\ pc = [s \in Requests |-> pc[s]] /\ mem = [s \in Requests |-> mem[s]]
  BY StepKeepsRows DEF Placed
<1>1. \A s \in Requests : OK(s)
  BY PlacedIsOK
<1>2. CASE pc' = pc /\ mem' = mem
  <2>1. \A s \in Requests : OK(s)'
    BY <1>1, <1>2, SameOK DEF Same
  <2>. QED  BY <1>2, <2>1 DEF Placed, OK, Requests
<1>3. ASSUME NEW r \in Requests, Only(r), OK(r)'
      PROVE  Placed'
  <2>1. \A s \in Requests : OK(s)'
    BY <1>1, <1>3, SameOK DEF Only
  <2>. QED  BY <1>3, <2>1 DEF Only, Placed, OK, Requests
<1>. QED  BY <1>2, <1>3, StepMoves

-----------------------------------------------------------------------------
(* Types *)

\* What is right about a request is a set of truth values.
LEMMA RightType ==
  ASSUME TypeOK, Placed, [Next]_vars
  PROVE  right' \in [Logins \cup Changers -> SUBSET BOOLEAN]
<1>0. \A rw, s, m : Matches(rw, s, m) \in BOOLEAN
  BY Zenon DEF Matches
<1>1. right \in [Logins \cup Changers -> SUBSET BOOLEAN]
  BY DEF TypeOK
<1>2. CASE Writes
  <2>1. right' = [r \in Logins \cup Changers |->
                    IF Open(r) THEN right[r] \cup {Matches(row', r, mem[r])} ELSE right[r]]
    BY <1>2 DEF Writes, Write
  <2>. QED  BY <1>0, <1>1, <2>1
<1>3. CASE Begins
  <2>1. PICK r \in Logins \cup Changers : right' = [right EXCEPT ![r] = {Matches(row, r, mem'[r])}]
    BY <1>3 DEF Begins
  <2>. QED  BY <1>0, <1>1, <2>1
<1>4. CASE right' = right
  BY <1>1, <1>4
<1>. QED  BY <1>2, <1>3, <1>4, StepWrites DEF vars

\* The two keys: a key with a TTL exists.
CountersOK ==
  /\ count \in [Keys -> Nat] /\ ttl \in [Keys -> BOOLEAN]
  /\ \A k \in Keys : ttl[k] => count[k] > 0
  /\ passed \subseteq Refreshers /\ loose \subseteq Keys

LEMMA CountersType ==
  ASSUME CountersOK, [Next]_vars
  PROVE  CountersOK'
<1>1. CASE UNCHANGED counters
  BY <1>1 DEF CountersOK, counters
<1>2. ASSUME NEW r \in Logins, LoginStep(r)
      PROVE  CountersOK'
  <2>1. CASE CountLogin(r)
    <3>1. \/ count' = count
          \/ count' = [count EXCEPT !["login"] = count["login"] + 1]
      BY <2>1 DEF CountLogin
    <3>2. count' \in [Keys -> Nat] /\ \A k \in Keys : count[k] > 0 => count'[k] > 0
      BY <3>1 DEF CountersOK
    <3>3. UNCHANGED <<ttl, passed>> /\ loose' \subseteq loose \cup {"login"}
      BY <2>1 DEF CountLogin
    <3>. QED  BY <3>2, <3>3 DEF CountersOK, Keys
  <2>2. CASE ExpireLogin(r)
    <3>1. count' = count /\ passed' = passed /\ loose' \subseteq Keys
      BY <2>2 DEF CountersOK, ExpireLogin, Keys
    <3>2. ttl' = [ttl EXCEPT !["login"] = count["login"] > 0] \/ ttl' = ttl
      BY <2>2 DEF ExpireLogin
    <3>3. ASSUME ttl' = [ttl EXCEPT !["login"] = count["login"] > 0]
          PROVE  ttl' \in [Keys -> BOOLEAN] /\ \A k \in Keys : ttl'[k] => count[k] > 0
      <4>1. (count["login"] > 0) \in BOOLEAN
        OBVIOUS
      <4>2. ttl' \in [Keys -> BOOLEAN]
        BY <3>3, <4>1 DEF CountersOK
      <4>3. ASSUME NEW k \in Keys, ttl'[k], k # "login"
            PROVE  count[k] > 0
        <5>1. ttl'[k] = ttl[k]
          BY <3>3, <4>3 DEF CountersOK
        <5>. QED  BY <4>3, <5>1 DEF CountersOK
      <4>4. ttl'["login"] = (count["login"] > 0)
        BY <3>3, Zenon DEF CountersOK, Keys
      <4>. QED  BY <4>2, <4>3, <4>4
    <3>4. ttl' \in [Keys -> BOOLEAN] /\ \A k \in Keys : ttl'[k] => count[k] > 0
      BY <3>2, <3>3 DEF CountersOK
    <3>. QED  BY <3>1, <3>4 DEF CountersOK
  <2>3. CASE FindUser(r) \/ Compare(r)
    BY <1>1, <2>3 DEF FindUser, Compare
  <2>4. CASE Clear(r)
    <3>1. CASE UNCHANGED <<count, ttl>>
      BY <2>4, <3>1 DEF CountersOK, Clear
    <3>2. CASE /\ count' = [count EXCEPT !["login"] = 0]
               /\ ttl' = [ttl EXCEPT !["login"] = FALSE]
      <4>1. count' \in [Keys -> Nat] /\ ttl' \in [Keys -> BOOLEAN]
        BY <3>2 DEF CountersOK
      <4>2. ASSUME NEW k \in Keys, ttl'[k]
            PROVE  count'[k] > 0
        BY <3>2, <4>2 DEF CountersOK
      <4>. QED  BY <2>4, <4>1, <4>2 DEF CountersOK, Clear
    <3>. QED  BY <2>4, <3>1, <3>2 DEF Clear
  <2>5. CASE Recount(r)
    <3>1. count' = count \/ count' = [count EXCEPT !["login"] = count["login"] + 1]
      BY <2>5 DEF Recount
    <3>2. count' \in [Keys -> Nat] /\ \A k \in Keys : count[k] > 0 => count'[k] > 0
      BY <3>1 DEF CountersOK
    <3>3. loose' \subseteq Keys
      BY <2>5 DEF CountersOK, Recount, Keys
    <3>. QED  BY <2>5, <3>2, <3>3 DEF CountersOK, Recount
  <2>. QED  BY <1>2, <2>1, <2>2, <2>3, <2>4, <2>5 DEF LoginStep
<1>3. ASSUME NEW r \in Refreshers, RefreshStep(r)
      PROVE  CountersOK'
  <2>1. CASE Hit(r)
    BY <2>1 DEF CountersOK, Hit, Keys
  <2>2. CASE ExpireRefresh(r)
    BY <2>2 DEF CountersOK, ExpireRefresh, Keys
  <2>. QED  BY <1>3, <2>1, <2>2 DEF RefreshStep
<1>4. ASSUME NEW k \in Keys, KeyEnds(k)
      PROVE  CountersOK'
  BY <1>4 DEF CountersOK, KeyEnds
<1>5. ASSUME NEW r \in Requests, Die(r)
      PROVE  CountersOK'
  BY <1>5 DEF CountersOK, Die, Keys
<1>6. ASSUME NEW r, \/ FindOwn(r) \/ Change(r) \/ SetStep(r) \/ CheckName(r) \/ Rename(r)
                    \/ CreateUser(r) \/ UpdateUser(r)
      PROVE  CountersOK'
  BY <1>1, <1>6 DEF FindOwn, Change, SetStep, StartSet, TryName, FindContact, Insert, FindAgain,
                    Update, CheckName, Rename, CreateUser, UpdateUser
<1>7. CASE UNCHANGED vars
  BY <1>1, <1>7 DEF vars, counters
<1>. QED  BY <1>2, <1>3, <1>4, <1>5, <1>6, <1>7 DEF Next

\* Every step keeps the types and the unique indexes.
LEMMA TypeStep ==
  ASSUME TypeOK, Placed, [Next]_vars
  PROVE  TypeOK'
<1>. DEFINE Indexes == \A u, v \in Users : row[u] # Absent /\ row[v] # Absent /\ u # v =>
                         /\ row[u].name = None \/ row[u].name # row[v].name
                         /\ row[u].contact = None \/ row[u].contact # row[v].contact
<1>1. row' \in [Users -> Rows \cup {Absent}]
  BY StepKeepsRows
<1>2. Indexes'
  <2>1. CASE Writes
    BY <2>1, WriteKeeps DEF Writes
  <2>2. CASE row' = row
    BY <2>2 DEF TypeOK
  <2>. QED  BY <2>1, <2>2, StepWrites DEF vars
<1>3. CountersOK'
  BY CountersType DEF CountersOK, TypeOK
<1>. QED  BY <1>1, <1>2, <1>3, RightType, IdnStays DEF CountersOK, TypeOK

-----------------------------------------------------------------------------
(* Answers of logins *)

\* At most one user has what logins look for.
LEMMA OneHasIt ==
  ASSUME TypeOK, NEW u \in Users, NEW v \in Users,
         Sought(row[u]), Sought(row[v])
  PROVE  u = v
<1>1. row[u] \in Rows /\ row[v] \in Rows
  BY DEF TypeOK, Sought
<1>2. /\ row[u].name \in Names \cup {None} /\ row[u].contact \in Contacts \cup {None}
      /\ row[v].name \in Names \cup {None} /\ row[v].contact \in Contacts \cup {None}
  BY <1>1 DEF Rows
<1>3. splitIdentifier[idn] # None
  BY SentinelsAreNotData, SplitGivesOne DEF TypeOK
<1>4. \/ row[u].name = row[v].name /\ row[u].name # None
      \/ row[u].contact = row[v].contact /\ row[u].contact # None
  BY <1>2, <1>3, SentinelsAreNotData DEF Sought
<1>. QED  BY <1>4 DEF TypeOK, Sought

\* What a login reads is the answer at that moment, or the failure of its read.
LEMMA FindUserReads ==
  ASSUME TypeOK, Placed, NEW r \in Logins, FindUser(r)
  PROVE  /\ pc[r] = "findUser" /\ pc'[r] = "compare" /\ row' = row /\ right' = right
         /\ mem'[r].password = mem[r].password
         /\ Accepts(mem'[r]) => Matches(row, r, mem[r])
         /\ ~Accepts(mem'[r]) => ~Matches(row, r, mem[r]) \/ mem'[r].failed
<1>. DEFINE found == {u \in Users : Sought(row[u])}
            Read(h, exists, failed) ==
              [password |-> mem[r].password, hash |-> h, exists |-> exists, failed |-> failed]
<1>0. r \in Requests /\ pc = [s \in Requests |-> pc[s]] /\ mem = [s \in Requests |-> mem[s]]
  BY DEF Placed, Requests
<1>1. pc[r] = "findUser" /\ pc'[r] = "compare" /\ row' = row /\ right' = right
  BY <1>0 DEF FindUser, Step, history
<1>2. mem[r].password \in Passwords /\ mem[r].password # None /\ mem[r].password # Dummy
  BY <1>1, SentinelsAreNotData, DummyIsNoPassword DEF Placed, LoginOK, Asking
<1>3. Matches(row, r, mem[r]) <=> \E u \in found : row[u].hash = mem[r].password
  BY SortsAreDisjoint DEF Matches, Sought
<1>. HIDE DEF found
<1>4. CASE mem' = [mem EXCEPT ![r] = Read(None, FALSE, TRUE)]
  <2>1. mem'[r] = Read(None, FALSE, TRUE)
    BY <1>0, <1>4
  <2>2. ~Accepts(mem'[r]) /\ mem'[r].failed /\ mem'[r].password = mem[r].password
    BY <2>1 DEF Accepts
  <2>. QED  BY <1>1, <2>2
<1>5. CASE found = {} /\ mem' = [mem EXCEPT ![r] = Read(None, FALSE, FALSE)]
  <2>1. mem'[r] = Read(None, FALSE, FALSE)
    BY <1>0, <1>5
  <2>2. ~Accepts(mem'[r]) /\ mem'[r].password = mem[r].password
    BY <2>1 DEF Accepts
  <2>3. ~Matches(row, r, mem[r])
    BY <1>3, <1>5
  <2>. QED  BY <1>1, <2>2, <2>3
<1>6. ASSUME NEW u \in found, mem' = [mem EXCEPT ![r] = Read(row[u].hash, TRUE, FALSE)]
      PROVE  /\ mem'[r].password = mem[r].password
             /\ Accepts(mem'[r]) <=> Matches(row, r, mem[r])
  <2>1. mem'[r] = Read(row[u].hash, TRUE, FALSE)
    BY <1>0, <1>6
  <2>2. Accepts(mem'[r]) <=> row[u].hash = mem[r].password
    BY <1>2, <2>1 DEF Accepts, hashToCheck
  <2>3. \A v \in found : v = u
    BY <1>6, OneHasIt DEF found
  <2>4. Matches(row, r, mem[r]) <=> row[u].hash = mem[r].password
    BY <1>3, <1>6, <2>3
  <2>. QED  BY <2>1, <2>2, <2>4
<1>7. \/ \E u \in found : mem' = [mem EXCEPT ![r] = Read(row[u].hash, TRUE, FALSE)]
      \/ found = {} /\ mem' = [mem EXCEPT ![r] = Read(None, FALSE, FALSE)]
      \/ mem' = [mem EXCEPT ![r] = Read(None, FALSE, TRUE)]
  BY DEF FindUser, Keeps, found
<1>. QED  BY <1>1, <1>4, <1>5, <1>6, <1>7

\* While a request runs, right only grows, and takes in what is right after the step.
LEMMA RightGrows ==
  ASSUME TypeOK, Placed, [Next]_vars, NEW s \in Logins \cup Changers, pc[s] # "idle", Decided(s)
  PROVE  /\ right[s] \subseteq right'[s]
         /\ Open(s) => Matches(row', s, mem[s]) \in right'[s]
<1>1. right \in [Logins \cup Changers -> SUBSET BOOLEAN]
  BY DEF TypeOK
<1>2. CASE Writes
  <2>1. right' = [r \in Logins \cup Changers |->
                    IF Open(r) THEN right[r] \cup {Matches(row', r, mem[r])} ELSE right[r]]
    BY <1>2 DEF Writes, Write
  <2>2. right'[s] = IF Open(s) THEN right[s] \cup {Matches(row', s, mem[s])} ELSE right[s]
    BY <2>1
  <2>. QED  BY <2>2
<1>3. CASE row' = row /\ (right' = right \/ Begins)
  <2>1. right'[s] = right[s]
    <3>1. CASE Begins
      <4>1. PICK r \in Logins \cup Changers :
              pc[r] = "idle" /\ right' = [right EXCEPT ![r] = {Matches(row, r, mem'[r])}]
        BY <3>1 DEF Begins
      <4>. QED  BY <1>1, <4>1
    <3>2. CASE right' = right
      BY <3>2
    <3>. QED  BY <1>3, <3>1, <3>2
  <2>. QED  BY <1>3, <2>1 DEF Decided, RightNow
<1>. QED  BY <1>2, <1>3, StepWrites DEF vars

\* A request that stays where it is remains decided.
LEMMA DecidedSame ==
  ASSUME TypeOK, Placed, [Next]_vars, NEW s \in Logins \cup Changers, Same(s), Decided(s)
  PROVE  Decided(s)'
<1>1. CASE pc[s] = "idle"
  BY <1>1 DEF Same, Decided, Open
<1>2. CASE pc[s] # "idle"
  <2>1. right[s] \subseteq right'[s] /\ (Open(s) => Matches(row', s, mem[s]) \in right'[s])
    BY <1>2, RightGrows
  <2>2. Open(s)' <=> Open(s)
    BY DEF Same, Open
  <2>3. RightNow(s)' = Matches(row', s, mem[s])
    BY MatchesLater DEF Same
  <2>. QED  BY <2>1, <2>2, <2>3 DEF Same, Decided
<1>. QED  BY <1>1, <1>2

\* A step of a login.
LEMMA DecidedLogin ==
  ASSUME TypeOK, Placed, NEW r \in Logins, LoginStep(r), Decided(r)
  PROVE  Decided(r)'
<1>0. Next
  BY DEF Next
<1>1. r \in Requests /\ pc = [s \in Requests |-> pc[s]] /\ mem = [s \in Requests |-> mem[s]]
  BY DEF Placed, Requests
<1>2. right \in [Logins \cup Changers -> SUBSET BOOLEAN]
  BY DEF TypeOK
<1>3. CASE CountLogin(r)
  <2>1. PICK p \in Passwords, counted \in BOOLEAN, answered \in BOOLEAN :
          LET attempts == IF answered THEN count["login"] + 1 ELSE 0
              m == [password |-> p, attempts |-> attempts]
          IN  /\ Keeps(r, m) /\ right' = [right EXCEPT ![r] = {Matches(row, r, m)}]
              /\ Step(r, "idle", IF attempts = 1 THEN "expireLogin" ELSE "findUser")
    BY <1>3 DEF CountLogin
  <2>2. right' = [right EXCEPT ![r] = {Matches(row, r, mem'[r])}] /\ row' = row
    BY <1>1, <1>3, <2>1 DEF CountLogin, Keeps
  <2>3. pc'[r] \in {"expireLogin", "findUser"}
    BY <1>1, <2>1 DEF Step
  <2>4. RightNow(r)' \in right'[r]
    <3>1. RightNow(r)' = Matches(row, r, mem'[r])
      BY <1>0, <2>2, MatchesLater
    <3>. QED  BY <1>2, <2>2, <3>1
  <2>. QED  BY <2>3, <2>4 DEF Decided
<1>4. ASSUME pc[r] # "idle"
      PROVE  right[r] \subseteq right'[r] /\ (Open(r) => Matches(row', r, mem[r]) \in right'[r])
  BY <1>0, <1>4, RightGrows
<1>5. CASE ExpireLogin(r)
  <2>1. pc[r] = "expireLogin" /\ pc'[r] = "findUser" /\ mem' = mem /\ row' = row
    BY <1>1, <1>5 DEF ExpireLogin, Step
  <2>2. RightNow(r)' \in right'[r]
    <3>1. RightNow(r)' = Matches(row', r, mem[r])
      BY <1>0, <2>1, MatchesLater
    <3>. QED  BY <1>4, <2>1, <3>1 DEF Open
  <2>. QED  BY <2>1, <2>2 DEF Decided
<1>6. CASE FindUser(r)
  <2>1. /\ pc[r] = "findUser" /\ pc'[r] = "compare" /\ row' = row /\ right' = right
        /\ mem'[r].password = mem[r].password
        /\ Accepts(mem'[r]) => Matches(row, r, mem[r])
        /\ ~Accepts(mem'[r]) => ~Matches(row, r, mem[r]) \/ mem'[r].failed
    BY <1>6, FindUserReads
  <2>2. RightNow(r)' = Matches(row, r, mem[r])
    <3>1. RightNow(r)' = Matches(row, r, mem'[r])
      BY <1>0, <2>1, MatchesLater
    <3>2. Matches(row, r, mem'[r]) = Matches(row, r, mem[r])
      BY <2>1, SortsAreDisjoint DEF Matches
    <3>. QED  BY <3>1, <3>2
  <2>3. Matches(row, r, mem[r]) \in right'[r]
    BY <2>1 DEF Decided, Open, RightNow
  <2>4. Matches(row, r, mem[r]) \in BOOLEAN
    BY Zenon DEF Matches
  <2>. HIDE DEF Matches
  <2>5. Matches(row, r, mem[r]) => TRUE \in right'[r]
    BY <2>3, <2>4
  <2>6. ~Matches(row, r, mem[r]) => FALSE \in right'[r]
    BY <2>3, <2>4
  <2>. QED  BY <2>1, <2>2, <2>3, <2>5, <2>6 DEF Decided
<1>7. CASE Compare(r) \/ Clear(r) \/ Recount(r)
  <2>1. mem' = mem /\ row' = row /\ right' = right
    BY <1>7 DEF Compare, Clear, Recount, history
  <2>2. \/ pc[r] = "compare" /\ Accepts(mem[r]) /\ pc'[r] = "clear"
        \/ pc[r] = "compare" /\ ~Accepts(mem[r]) /\ pc'[r] = "recount"
        \/ pc[r] = "clear" /\ pc'[r] = "in"
        \/ pc[r] = "recount" /\ pc'[r] = "out"
    BY <1>1, <1>7 DEF Compare, Clear, Recount, Step, Accepts
  <2>3. RightNow(r)' = Matches(row, r, mem[r])
    BY <1>0, <2>1, MatchesLater
  <2>4. Open(r)' => RightNow(r)' \in right'[r]
    BY <2>1, <2>2, <2>3 DEF Open, Decided, RightNow
  <2>. QED  BY <2>1, <2>2, <2>4 DEF Decided
<1>. QED  BY <1>3, <1>5, <1>6, <1>7 DEF LoginStep

\* A step of a change of password.
LEMMA DecidedChanger ==
  ASSUME TypeOK, Placed, NEW r \in Changers, FindOwn(r) \/ Change(r), Decided(r)
  PROVE  Decided(r)'
<1>0. Next
  BY DEF Next
<1>1. r \in Requests /\ pc = [s \in Requests |-> pc[s]] /\ mem = [s \in Requests |-> mem[s]]
  BY DEF Placed, Requests
<1>2. right \in [Logins \cup Changers -> SUBSET BOOLEAN]
  BY DEF TypeOK
<1>3. CASE FindOwn(r)
  <2>1. PICK u \in Users, p \in Passwords, new \in Passwords :
          LET m == [user |-> u, password |-> p, new |-> new] IN
            /\ row[u] # Absent
            /\ Keeps(r, m) /\ right' = [right EXCEPT ![r] = {Matches(row, r, m)}]
            /\ Step(r, "idle", IF row[u].hash = p THEN "change" ELSE "refused")
    BY <1>3 DEF FindOwn
  <2>2. mem'[r] = [user |-> u, password |-> p, new |-> new] /\ row' = row
    BY <1>1, <1>3, <2>1 DEF FindOwn, Keeps
  <2>3. right'[r] = {Matches(row, r, mem'[r])}
    BY <1>2, <2>1, <2>2
  <2>4. Matches(row, r, mem'[r]) <=> row[u].hash = p
    BY <2>1, <2>2 DEF Matches
  <2>5. Matches(row, r, mem'[r]) \in BOOLEAN
    BY Zenon DEF Matches
  <2>6. /\ pc'[r] \in {"change", "refused"}
        /\ pc'[r] = "change" => Matches(row, r, mem'[r])
    BY <1>1, <2>1, <2>4 DEF Step
  <2>7. RightNow(r)' = Matches(row, r, mem'[r])
    BY <1>0, <2>2, MatchesLater
  <2>. HIDE DEF Matches
  <2>8. pc'[r] = "change" => TRUE \in right'[r]
    BY <2>3, <2>5, <2>6
  <2>. QED  BY <2>3, <2>6, <2>7, <2>8 DEF Decided, Open
<1>4. CASE Change(r)
  <2>1. pc[r] = "change" /\ pc'[r] = "changed"
    BY <1>1, <1>4 DEF Change, Step
  <2>2. right[r] \subseteq right'[r]
    BY <1>0, <2>1, RightGrows
  <2>. QED  BY <2>1, <2>2 DEF Decided, Open
<1>. QED  BY <1>3, <1>4

\* Every step keeps what is decided.
LEMMA DecidedStep ==
  ASSUME TypeOK, Placed, AllDecided, [Next]_vars
  PROVE  AllDecided'
<1>. SUFFICES ASSUME NEW s \in Logins \cup Changers
              PROVE  Decided(s)'
  BY DEF AllDecided
<1>. Decided(s)
  BY DEF AllDecided
<1>1. CASE s \in Logins /\ LoginStep(s)
  BY <1>1, DecidedLogin
<1>2. CASE s \in Changers /\ (FindOwn(s) \/ Change(s))
  BY <1>2, DecidedChanger
<1>3. CASE s \in Requests /\ Die(s)
  <2>1. pc'[s] = "dead"
    BY <1>3, DieMoves
  <2>. QED  BY <2>1 DEF Decided, Open
<1>4. CASE Same(s)
  BY <1>4, DecidedSame
<1>5. ASSUME NEW r, Only(r), r # s
      PROVE  Same(s)
  BY <1>5 DEF Only, Requests
<1>6. ASSUME NEW r \in Logins, LoginStep(r), r # s
      PROVE  Same(s)
  BY <1>5, <1>6, LoginMoves
<1>7. ASSUME NEW r \in Changers, FindOwn(r) \/ Change(r), r # s
      PROVE  Same(s)
  BY <1>5, <1>7, ChangerMoves, StepKeepsRows
<1>8. ASSUME NEW r \in Setters, SetStep(r)
      PROVE  Same(s)
  BY <1>5, <1>8, SetterMoves, StepKeepsRows, SortsAreDisjoint
<1>9. ASSUME NEW r \in Renamers, CheckName(r) \/ Rename(r)
      PROVE  Same(s)
  BY <1>5, <1>9, RenamerMoves, StepKeepsRows, SortsAreDisjoint
<1>10. ASSUME NEW r \in Admins, CreateUser(r) \/ UpdateUser(r)
      PROVE  Same(s)
  BY <1>5, <1>10, AdminMoves, SortsAreDisjoint
<1>11. ASSUME NEW r \in Refreshers, RefreshStep(r)
      PROVE  Same(s)
  BY <1>5, <1>11, RefresherMoves, SortsAreDisjoint
<1>12. ASSUME NEW r \in Requests, Die(r), r # s
      PROVE  Same(s)
  BY <1>5, <1>12, DieMoves
<1>13. CASE (\E k \in Keys : KeyEnds(k)) \/ UNCHANGED vars
  <2>1. Same(s)
    BY <1>13 DEF KeyEnds, vars, Same
  <2>. QED  BY <1>4, <2>1
<1>. QED  BY <1>1, <1>2, <1>3, <1>4, <1>6, <1>7, <1>8, <1>9, <1>10, <1>11, <1>12, <1>13 DEF Next

-----------------------------------------------------------------------------
(* Lost names *)

\* A name that was lost stays lost, and a contact with a row keeps it.
LEMMA OwnersStay ==
  ASSUME TypeOK, Placed, [Next]_vars, NEW r \in Setters, mem'[r].name = mem[r].name,
         mem'[r].contact = mem[r].contact
  PROVE  /\ NameLost(r) => NameLost(r)'
         /\ Known(mem[r].contact) => Known(mem[r].contact)'
<1>1. RowsStay /\ owned \subseteq owned'
  BY StepKeepsRows
<1>2. NameLost(r) => NameLost(r)'
  BY <1>1 DEF NameLost
<1>3. Known(mem[r].contact) => Known(mem[r].contact)'
  BY <1>1 DEF RowsStay, Known, HasContact
<1>. QED  BY <1>2, <1>3

\* A request whose Step goes to another label of its own.
LEMMA StepTo ==
  ASSUME Placed, NEW r \in Requests, NEW from, NEW to, Step(r, from, to)
  PROVE  pc[r] = from /\ pc'[r] = to
BY DEF Placed, Step

\* setPassword looks again only after its insert met a row with its contact or
\* with its name, and gives up only where no row has its contact.
LEMMA SetterLoses ==
  ASSUME TypeOK, Placed, Owned, NEW r \in Setters, SetStep(r)
  PROVE  /\ pc'[r] = "findAgain" => Known(mem[r].contact)' \/ NameLost(r)'
         /\ pc'[r] = "error" => NameLost(r)'
<1>0. r \in Requests /\ SetterOK(r) /\ Next
  BY DEF Requests, Placed, Next
<1>1. CASE StartSet(r)
  BY <1>0, <1>1, StepTo DEF StartSet
<1>2. CASE TryName(r)
  <2>1. pc'[r] \in {"tryName", "findContact"}
    BY <1>0, <1>2, StepTo DEF TryName
  <2>. QED  BY <2>1
<1>3. CASE FindContact(r)
  <2>1. pc'[r] \in {"insert", "update"}
    BY <1>0, <1>3, StepTo DEF FindContact
  <2>. QED  BY <2>1
<1>4. CASE Insert(r)
  <2>1. CASE ~(Known(mem[r].contact) \/ Taken(mem[r].name))
    BY <1>0, <1>4, <2>1, StepTo DEF Insert
  <2>2. CASE Known(mem[r].contact) \/ Taken(mem[r].name)
    <3>1. /\ pc'[r] = "findAgain" /\ row' = row /\ owned' = owned /\ mem' = mem
      BY <1>0, <1>4, <2>2, StepTo DEF Insert, history
    <3>2. CASE Known(mem[r].contact)
      BY <3>1, <3>2 DEF Known, HasContact
    <3>3. CASE ~Known(mem[r].contact) /\ Taken(mem[r].name)
      <4>1. PICK u \in Users : row[u] # Absent /\ row[u].name = mem[r].name
        BY <3>3 DEF Taken, HasName
      <4>2. row[u].contact # mem[r].contact
        BY <3>3, <4>1 DEF Known, HasContact
      <4>3. [name |-> row[u].name, contact |-> row[u].contact] \in owned
        BY <4>1 DEF Owned
      <4>4. NameLost(r)
        BY <4>1, <4>2, <4>3 DEF NameLost
      <4>. QED  BY <3>1, <4>4 DEF NameLost
    <3>. QED  BY <2>2, <3>1, <3>2, <3>3
  <2>. QED  BY <2>1, <2>2
<1>5. CASE FindAgain(r)
  <2>1. CASE ~Known(mem[r].contact) /\ Step(r, "findAgain", "error") /\ UNCHANGED mem
    <3>1. NameLost(r) /\ pc'[r] = "error" /\ owned' = owned
      BY <1>0, <1>5, <2>1, StepTo DEF Owned, FindAgain, history
    <3>. QED  BY <2>1, <3>1 DEF NameLost
  <2>2. CASE Step(r, "findAgain", "update")
    BY <1>0, <2>2, StepTo
  <2>. QED  BY <1>5, <2>1, <2>2 DEF FindAgain
<1>6. CASE Update(r)
  BY <1>0, <1>6, StepTo DEF Update
<1>. QED  BY <1>1, <1>2, <1>3, <1>4, <1>5, <1>6 DEF SetStep

\* Only the steps of a request, and its death, move it.
LEMMA OthersStay ==
  ASSUME TypeOK, Placed, [Next]_vars, NEW s \in Setters, ~SetStep(s)
  PROVE  Same(s) \/ pc'[s] = "dead"
<1>. RowsStay /\ s \in Requests
  BY StepKeepsRows DEF Requests
<1>. USE SortsAreDisjoint
<1>1. ASSUME NEW r, Only(r), r # s
      PROVE  Same(s)
  BY <1>1 DEF Only
<1>2. ASSUME NEW r \in Logins, LoginStep(r)
      PROVE  Same(s)
  BY <1>1, <1>2, LoginMoves
<1>3. ASSUME NEW r \in Changers, FindOwn(r) \/ Change(r)
      PROVE  Same(s)
  BY <1>1, <1>3, ChangerMoves
<1>4. ASSUME NEW r \in Setters, SetStep(r)
      PROVE  Same(s)
  BY <1>1, <1>4, SetterMoves
<1>5. ASSUME NEW r \in Renamers, CheckName(r) \/ Rename(r)
      PROVE  Same(s)
  BY <1>1, <1>5, RenamerMoves
<1>6. ASSUME NEW r \in Admins, CreateUser(r) \/ UpdateUser(r)
      PROVE  Same(s)
  BY <1>1, <1>6, AdminMoves
<1>7. ASSUME NEW r \in Refreshers, RefreshStep(r)
      PROVE  Same(s)
  BY <1>1, <1>7, RefresherMoves
<1>8. ASSUME NEW r \in Requests, Die(r)
      PROVE  Same(s) \/ pc'[s] = "dead"
  BY <1>1, <1>8, DieMoves
<1>9. CASE (\E k \in Keys : KeyEnds(k)) \/ UNCHANGED vars
  BY <1>9 DEF KeyEnds, vars, Same
<1>. QED  BY <1>2, <1>3, <1>4, <1>5, <1>6, <1>7, <1>8, <1>9 DEF Next

\* Every step keeps what is known of lost names.
LEMMA OwnedStep ==
  ASSUME TypeOK, Placed, Owned, [Next]_vars
  PROVE  Owned'
<1>1. ASSUME NEW u \in Users, row'[u] # Absent
      PROVE  [name |-> row'[u].name, contact |-> row'[u].contact] \in owned'
  <2>1. CASE row' = row /\ owned' = owned
    BY <1>1, <2>1 DEF Owned
  <2>2. CASE Writes
    <3>1. /\ \/ row'[u] = row[u]
             \/ [name |-> row'[u].name, contact |-> row'[u].contact] \in owned'
          /\ owned \subseteq owned'
      BY <1>1, <2>2, WriteKeeps DEF Writes
    <3>. QED  BY <1>1, <3>1 DEF Owned
  <2>. QED  BY <2>1, <2>2, StepWrites DEF vars
<1>2. ASSUME NEW r \in Setters
      PROVE  /\ pc'[r] = "findAgain" => Known(mem[r].contact)' \/ NameLost(r)'
             /\ pc'[r] = "error" => NameLost(r)'
  <2>1. CASE SetStep(r)
    BY <2>1, SetterLoses
  <2>2. CASE Same(r)
    <3>1. /\ pc[r] = "findAgain" => Known(mem[r].contact) \/ NameLost(r)
          /\ pc[r] = "error" => NameLost(r)
      BY DEF Owned
    <3>2. /\ NameLost(r) => NameLost(r)'
          /\ Known(mem[r].contact) => Known(mem[r].contact)'
      BY <2>2, OwnersStay DEF Same
    <3>. QED  BY <2>2, <3>1, <3>2 DEF Same
  <2>. QED  BY <2>1, <2>2, OthersStay
<1>. QED  BY <1>1, <1>2 DEF Owned

-----------------------------------------------------------------------------
(* The two keys *)

\* The requests that are not about a key leave both alone.
LEMMA OthersCountNothing ==
  ASSUME NEW r, \/ FindOwn(r) \/ Change(r) \/ SetStep(r) \/ CheckName(r) \/ Rename(r)
                \/ CreateUser(r) \/ UpdateUser(r) \/ FindUser(r) \/ Compare(r)
  PROVE  UNCHANGED counters
BY DEF FindOwn, Change, SetStep, StartSet, TryName, FindContact, Insert, FindAgain,
       Update, CheckName, Rename, CreateUser, UpdateUser, FindUser, Compare

\* What a hit counts, it also limits: the refreshes of a window that were let
\* through are no more than its count, and than MaxHits.
LEMMA CountedStep ==
  ASSUME TypeOK, Placed, Counted, [Next]_vars
  PROVE  Counted'
<1>. count \in [Keys -> Nat] /\ "refresh" \in Keys /\ MaxHits \in Nat
  BY LimitsArePositive DEF TypeOK, Keys
<1>. IsFiniteSet(passed) /\ Cardinality(passed) \in Nat
  BY FS_CardinalityType DEF Counted
<1>1. ASSUME passed' = passed, count'["refresh"] = count["refresh"]
      PROVE  Counted'
  BY <1>1 DEF Counted
<1>2. CASE UNCHANGED counters
  BY <1>1, <1>2 DEF counters
<1>3. ASSUME NEW r \in Logins, LoginStep(r)
      PROVE  Counted'
  <2>1. CASE CountLogin(r) \/ ExpireLogin(r) \/ Clear(r) \/ Recount(r)
    <3>1. passed' = passed
      BY <2>1 DEF CountLogin, ExpireLogin, Clear, Recount
    <3>2. count' = count \/ \E n : count' = [count EXCEPT !["login"] = n]
      BY <2>1 DEF CountLogin, ExpireLogin, Clear, Recount
    <3>3. count'["refresh"] = count["refresh"]
      BY <3>2
    <3>. QED  BY <1>1, <3>1, <3>3
  <2>2. CASE FindUser(r) \/ Compare(r)
    BY <1>2, <2>2, OthersCountNothing
  <2>. QED  BY <1>3, <2>1, <2>2 DEF LoginStep
<1>4. ASSUME NEW r \in Refreshers, RefreshStep(r)
      PROVE  Counted'
  <2>1. CASE Hit(r)
    <3>1. count'["refresh"] = count["refresh"] + 1
      BY <2>1 DEF Hit
    <3>2. CASE count["refresh"] + 1 <= MaxHits
      <4>1. passed' = passed \cup {r}
        BY <2>1, <3>2 DEF Hit
      <4>2. IsFiniteSet(passed) /\ Cardinality(passed) \in Nat
        BY FS_CardinalityType DEF Counted
      <4>3. /\ IsFiniteSet(passed \cup {r})
            /\ Cardinality(passed \cup {r}) \in {Cardinality(passed), Cardinality(passed) + 1}
        BY <4>2, FS_AddElement
      <4>4. IsFiniteSet(passed') /\ Cardinality(passed') <= Cardinality(passed) + 1
        BY <4>1, <4>2, <4>3
      <4>5. Cardinality(passed') \in Nat
        BY <4>4, FS_CardinalityType
      <4>. QED  BY <3>1, <3>2, <4>2, <4>4, <4>5 DEF Counted
    <3>3. CASE ~(count["refresh"] + 1 <= MaxHits)
      <4>1. passed' = passed
        BY <2>1, <3>3 DEF Hit
      <4>. QED  BY <3>1, <4>1 DEF Counted
    <3>. QED  BY <3>2, <3>3
  <2>2. CASE ExpireRefresh(r)
    BY <1>1, <2>2 DEF ExpireRefresh
  <2>. QED  BY <1>4, <2>1, <2>2 DEF RefreshStep
<1>5. ASSUME NEW k \in Keys, KeyEnds(k)
      PROVE  Counted'
  <2>1. CASE k = "refresh"
    <3>1. passed' = {} /\ count'["refresh"] = 0
      BY <1>5, <2>1 DEF KeyEnds
    <3>. QED  BY <3>1, FS_EmptySet DEF Counted
  <2>2. CASE k # "refresh"
    BY <1>1, <1>5, <2>2 DEF KeyEnds
  <2>. QED  BY <2>1, <2>2
<1>6. ASSUME NEW r \in Requests, Die(r)
      PROVE  Counted'
  BY <1>1, <1>6 DEF Die
<1>7. CASE UNCHANGED vars
  BY <1>2, <1>7 DEF vars, counters
<1>. QED  BY <1>2, <1>3, <1>4, <1>5, <1>6, <1>7, OthersCountNothing DEF Next

\* A TTL goes only with its key, and a key that comes to exist is being given
\* one, or was counted by a failure (loose).
LEMMA KeyFacts ==
  ASSUME TypeOK, Placed, [Next]_vars, NEW k \in Keys
  PROVE  /\ loose \subseteq loose'
         /\ ttl[k] => ttl'[k] \/ count'[k] = 0
         /\ count[k] = 0 => count'[k] = 0 \/ k \in loose' \/ Sorted(k)' # {}
<1>. /\ count \in [Keys -> Nat] /\ ttl \in [Keys -> BOOLEAN]
     /\ ttl[k] => count[k] > 0
     /\ k = "login" \/ k = "refresh"
  BY DEF TypeOK, Keys
<1>1. CASE UNCHANGED counters
  BY <1>1 DEF counters
<1>2. ASSUME NEW r \in Logins, LoginStep(r)
      PROVE  /\ loose \subseteq loose'
             /\ ttl[k] => ttl'[k] \/ count'[k] = 0
             /\ count[k] = 0 => count'[k] = 0 \/ k \in loose' \/ Sorted(k)' # {}
  <2>0. r \in Requests
    BY DEF Requests
  <2>1. CASE CountLogin(r)
    <3>1. ttl' = ttl /\ loose \subseteq loose'
      BY <2>1 DEF CountLogin
    <3>2. PICK counted \in BOOLEAN, answered \in BOOLEAN :
            LET attempts == IF answered THEN count["login"] + 1 ELSE 0 IN
              /\ answered => counted
              /\ count' = IF counted THEN [count EXCEPT !["login"] = count["login"] + 1] ELSE count
              /\ loose' = IF counted /\ ~answered /\ count["login"] = 0
                          THEN loose \cup {"login"} ELSE loose
              /\ Step(r, "idle", IF attempts = 1 THEN "expireLogin" ELSE "findUser")
      BY <2>1 DEF CountLogin
    <3>3. CASE ~counted
      BY <3>1, <3>2, <3>3
    <3>4. CASE counted /\ k = "login" /\ count[k] = 0 /\ answered
      <4>1. Step(r, "idle", "expireLogin")
        BY <3>2, <3>4
      <4>2. r \in Sorted(k)'
        BY <2>0, <3>4, <4>1, StepTo DEF Sorted
      <4>. QED  BY <3>1, <3>4, <4>2
    <3>5. CASE k = "login" /\ count[k] = 0 /\ ~answered /\ counted
      BY <3>1, <3>2, <3>5
    <3>6. CASE k # "login" /\ count[k] = 0
      BY <3>1, <3>2, <3>6
    <3>7. CASE count[k] # 0
      BY <3>1, <3>7
    <3>. QED  BY <3>3, <3>4, <3>5, <3>6, <3>7
  <2>2. CASE ExpireLogin(r)
    <3>1. count' = count /\ loose \subseteq loose'
      BY <2>2 DEF ExpireLogin
    <3>2. ttl' = ttl \/ ttl' = [ttl EXCEPT !["login"] = count["login"] > 0]
      BY <2>2 DEF ExpireLogin
    <3>3. ASSUME ttl' = [ttl EXCEPT !["login"] = count["login"] > 0], ttl[k]
          PROVE  ttl'[k]
      <4>1. count["login"] > 0 <=> (count["login"] > 0) = TRUE
        OBVIOUS
      <4>2. CASE k = "login"
        <5>1. ttl'[k] = (count["login"] > 0)
          BY <3>3, <4>2, Zenon
        <5>. QED  BY <3>3, <4>2, <5>1
      <4>3. CASE k # "login"
        BY <3>3, <4>3
      <4>. QED  BY <4>2, <4>3
    <3>. QED  BY <3>1, <3>2, <3>3
  <2>3. CASE FindUser(r) \/ Compare(r)
    BY <1>1, <2>3, OthersCountNothing
  <2>4. CASE Clear(r)
    <3>1. loose' = loose
      BY <2>4 DEF Clear
    <3>2. CASE UNCHANGED <<count, ttl>>
      BY <3>1, <3>2
    <3>3. CASE /\ count' = [count EXCEPT !["login"] = 0]
               /\ ttl' = [ttl EXCEPT !["login"] = FALSE]
      BY <3>1, <3>3
    <3>. QED  BY <2>4, <3>2, <3>3 DEF Clear
  <2>5. CASE Recount(r)
    BY <2>5 DEF Recount
  <2>. QED  BY <1>2, <2>1, <2>2, <2>3, <2>4, <2>5 DEF LoginStep
<1>3. ASSUME NEW r \in Refreshers, RefreshStep(r)
      PROVE  /\ loose \subseteq loose'
             /\ ttl[k] => ttl'[k] \/ count'[k] = 0
             /\ count[k] = 0 => count'[k] = 0 \/ k \in loose' \/ Sorted(k)' # {}
  <2>0. r \in Requests
    BY DEF Requests
  <2>1. CASE Hit(r)
    <3>1. /\ ttl' = ttl /\ loose' = loose
          /\ count' = [count EXCEPT !["refresh"] = count["refresh"] + 1]
      BY <2>1 DEF Hit
    <3>2. CASE k = "refresh" /\ count[k] = 0
      <4>1. Step(r, "idle", "expireRefresh")
        BY <2>1, <3>2 DEF Hit
      <4>2. r \in Sorted(k)'
        BY <2>0, <3>2, <4>1, StepTo DEF Sorted
      <4>. QED  BY <3>1, <3>2, <4>2
    <3>3. CASE k # "refresh" \/ count[k] # 0
      BY <3>1, <3>3
    <3>. QED  BY <3>2, <3>3
  <2>2. CASE ExpireRefresh(r)
    <3>1. /\ count' = count /\ loose' = loose
          /\ ttl' = [ttl EXCEPT !["refresh"] = count["refresh"] > 0]
      BY <2>2 DEF ExpireRefresh
    <3>2. ASSUME ttl[k]
          PROVE  ttl'[k]
      <4>1. CASE k = "refresh"
        <5>1. ttl'[k] = (count["refresh"] > 0)
          BY <3>1, <4>1, Zenon
        <5>. QED  BY <3>2, <4>1, <5>1
      <4>2. CASE k # "refresh"
        BY <3>1, <3>2, <4>2
      <4>. QED  BY <4>1, <4>2
    <3>. QED  BY <3>1, <3>2
  <2>. QED  BY <1>3, <2>1, <2>2 DEF RefreshStep
<1>4. ASSUME NEW j \in Keys, KeyEnds(j)
      PROVE  /\ loose \subseteq loose'
             /\ ttl[k] => ttl'[k] \/ count'[k] = 0
             /\ count[k] = 0 => count'[k] = 0 \/ k \in loose' \/ Sorted(k)' # {}
  BY <1>4 DEF KeyEnds
<1>5. ASSUME NEW r \in Requests, Die(r)
      PROVE  /\ loose \subseteq loose'
             /\ ttl[k] => ttl'[k] \/ count'[k] = 0
             /\ count[k] = 0 => count'[k] = 0 \/ k \in loose' \/ Sorted(k)' # {}
  BY <1>5 DEF Die
<1>6. CASE UNCHANGED vars
  BY <1>1, <1>6 DEF vars, counters
<1>. QED  BY <1>1, <1>2, <1>3, <1>4, <1>5, <1>6, OthersCountNothing DEF Next

\* A request that is to give a key its TTL does so, or dies, or is still to.
LEMMA WaiterLeaves ==
  ASSUME TypeOK, Placed, [Next]_vars, NEW k \in Keys, NEW s \in Sorted(k), s \notin Sorted(k)'
  PROVE  \/ k = "login" /\ ExpireLogin(s)
         \/ k = "refresh" /\ ExpireRefresh(s)
         \/ Die(s)
<1>. RowsStay
  BY StepKeepsRows
<1>. USE SortsAreDisjoint
<1>0. /\ \/ k = "login" /\ s \in Logins /\ pc[s] = "expireLogin"
         \/ k = "refresh" /\ s \in Refreshers /\ pc[s] = "expireRefresh"
      /\ s \in Requests
  <2>1. s \in Sorted(k) /\ (k = "login" \/ k = "refresh")
    BY DEF Keys
  <2>2. ASSUME k = "login"
        PROVE  s \in Logins /\ pc[s] = "expireLogin"
    BY <2>1, <2>2 DEF Sorted
  <2>3. ASSUME k = "refresh"
        PROVE  s \in Refreshers /\ pc[s] = "expireRefresh"
    BY <2>1, <2>3 DEF Sorted
  <2>. QED  BY <2>1, <2>2, <2>3 DEF Requests
<1>1. ~Same(s)
  BY <1>0 DEF Same, Sorted
<1>2. ASSUME NEW r, Only(r)
      PROVE  r = s
  BY <1>0, <1>1, <1>2 DEF Only
<1>3. ASSUME NEW r \in Logins, LoginStep(r)
      PROVE  k = "login" /\ ExpireLogin(s)
  <2>1. r = s
    BY <1>2, <1>3, LoginMoves
  <2>2. pc[s] = "expireLogin" /\ k = "login"
    BY <1>0, <2>1
  <2>. QED  BY <1>3, <2>1, <2>2 DEF LoginStep, CountLogin, FindUser, Compare, Clear, Recount, Step
<1>4. ASSUME NEW r \in Refreshers, RefreshStep(r)
      PROVE  k = "refresh" /\ ExpireRefresh(s)
  <2>1. r = s
    BY <1>2, <1>4, RefresherMoves
  <2>2. pc[s] = "expireRefresh" /\ k = "refresh"
    BY <1>0, <2>1
  <2>. QED  BY <1>4, <2>1, <2>2 DEF RefreshStep, Hit, Step
<1>5. ASSUME NEW r \in Changers, FindOwn(r) \/ Change(r)
      PROVE  FALSE
  BY <1>0, <1>2, <1>5, ChangerMoves
<1>6. ASSUME NEW r \in Setters, SetStep(r)
      PROVE  FALSE
  BY <1>0, <1>2, <1>6, SetterMoves
<1>7. ASSUME NEW r \in Renamers, CheckName(r) \/ Rename(r)
      PROVE  FALSE
  BY <1>0, <1>2, <1>7, RenamerMoves
<1>8. ASSUME NEW r \in Admins, CreateUser(r) \/ UpdateUser(r)
      PROVE  FALSE
  BY <1>0, <1>2, <1>8, AdminMoves
<1>9. ASSUME NEW r \in Requests, Die(r)
      PROVE  Die(s)
  BY <1>2, <1>9, DieMoves
<1>10. ~((\E j \in Keys : KeyEnds(j)) \/ UNCHANGED vars)
  BY <1>1 DEF KeyEnds, vars, Same
<1>. QED  BY <1>3, <1>4, <1>5, <1>6, <1>7, <1>8, <1>9, <1>10 DEF Next

\* Every step keeps the excuse of a key without a TTL.
LEMMA NoTtlStep ==
  ASSUME TypeOK, Placed, NoTtlExcused, [Next]_vars
  PROVE  NoTtlExcused'
<1>. SUFFICES ASSUME NEW k \in Keys, count'[k] > 0
              PROVE  ttl'[k] \/ k \in loose' \/ Sorted(k)' # {}
  BY DEF NoTtlExcused
<1>0. count \in [Keys -> Nat] /\ (k = "login" \/ k = "refresh")
  BY DEF TypeOK, Keys
<1>1. ASSUME NEW s \in Sorted(k), s \notin Sorted(k)'
      PROVE  ttl'[k] \/ k \in loose'
  <2>1. CASE k = "login" /\ ExpireLogin(s)
    <3>1. count' = count
      BY <2>1 DEF ExpireLogin
    <3>2. ttl' = [ttl EXCEPT !["login"] = count["login"] > 0] \/ k \in loose'
      BY <2>1 DEF ExpireLogin
    <3>3. CASE ttl' = [ttl EXCEPT !["login"] = count["login"] > 0]
      <4>1. ttl'[k] = (count["login"] > 0)
        BY <2>1, <3>3, Zenon DEF TypeOK
      <4>. QED  BY <2>1, <3>1, <4>1
    <3>. QED  BY <3>2, <3>3
  <2>2. CASE k = "refresh" /\ ExpireRefresh(s)
    <3>1. count' = count /\ ttl' = [ttl EXCEPT !["refresh"] = count["refresh"] > 0]
      BY <2>2 DEF ExpireRefresh
    <3>2. ttl'[k] = (count["refresh"] > 0)
      BY <2>2, <3>1, Zenon DEF TypeOK
    <3>. QED  BY <2>2, <3>1, <3>2
  <2>3. CASE Die(s)
    <3>1. pc[s] = IF k = "login" THEN "expireLogin" ELSE "expireRefresh"
      BY <1>0 DEF Sorted
    <3>. QED  BY <1>0, <2>3, <3>1 DEF Die
  <2>. QED  BY <1>1, <2>1, <2>2, <2>3, WaiterLeaves
<1>2. CASE Sorted(k) # {} /\ Sorted(k) \subseteq Sorted(k)'
  BY <1>2
<1>3. CASE Sorted(k) = {}
  <2>1. CASE count[k] > 0
    <3>1. ttl[k] \/ k \in loose
      BY <1>3, <2>1 DEF NoTtlExcused
    <3>. QED  BY <3>1, KeyFacts
  <2>2. CASE count[k] = 0
    BY <2>2, KeyFacts
  <2>. QED  BY <1>0, <2>1, <2>2
<1>. QED  BY <1>1, <1>2, <1>3

-----------------------------------------------------------------------------
(* The theorems *)

\* The invariant holds at the beginning.
LEMMA InitIInv ==
  ASSUME Init
  PROVE  IInv
<1>0. /\ pc \in [Requests -> {"idle", "done"}] /\ mem = [r \in Requests |-> None]
      /\ count = [k \in Keys |-> 0] /\ ttl = [k \in Keys |-> FALSE]
      /\ right = [r \in Logins \cup Changers |-> {}] /\ passed = {} /\ loose = {}
  BY DEF Init
<1>1. \A r \in Requests : pc[r] \in {"idle", "done"}
  BY <1>0
<1>2. TypeOK
  BY <1>0 DEF Init, TypeOK
<1>3. Placed
  <2>1. \A s \in Requests : OK(s)
    BY <1>1 DEF OK, LoginOK, ChangerOK, SetterOK, RenamerOK, LoginLabels, ChangerLabels,
                SetterLabels, RenamerLabels, AdminLabels, RefresherLabels
  <2>. QED  BY <1>0, <2>1, PlacedIsOK
<1>4. Owned
  <2>1. \A u \in Users : row[u] # Absent => [name |-> row[u].name, contact |-> row[u].contact] \in owned
    BY DEF Init
  <2>2. \A r \in Setters : pc[r] \notin {"findAgain", "error"}
    BY <1>1 DEF Requests
  <2>. QED  BY <2>1, <2>2 DEF Owned
<1>5. Counted
  BY <1>0, FS_EmptySet, LimitsArePositive DEF Counted, Keys
<1>6. NoTtlExcused
  BY <1>0 DEF NoTtlExcused
<1>7. AllDecided
  <2>1. \A s \in Logins \cup Changers : pc[s] \in {"idle", "done"}
    BY <1>1 DEF Requests
  <2>. QED  BY <2>1 DEF AllDecided, Decided, Open
<1>. QED  BY <1>2, <1>3, <1>4, <1>5, <1>6, <1>7 DEF IInv

\* The invariant that all of it rests on holds of every reachable state.
THEOREM IInvHolds == Spec => []IInv
<1>1. Init => IInv
  BY InitIInv
<1>2. IInv /\ [Next]_vars => IInv'
  BY TypeStep, PlacedStep, OwnedStep, CountedStep, NoTtlStep, DecidedStep DEF IInv
<1>. QED  BY <1>1, <1>2, PTL DEF Spec

\* The rows keep the unique indexes on name and contact, whatever the writers
\* read before they write, and a key of Redis with a TTL exists.
THEOREM TypeCorrect == Spec => []TypeOK
<1>1. IInv => TypeOK
  BY DEF IInv
<1>. QED  BY <1>1, IInvHolds, PTL

\* A login that succeeds, and a change of password, had the right password at a
\* moment at which it ran; a login that fails had a wrong one, or its read of
\* the user failed, however rows change between its read and its answer.
THEOREM LoginsAnswered == Spec => []AnsweredAtAMoment
<1>1. IInv => AnsweredAtAMoment
  BY DEF IInv, AllDecided, Decided, AnsweredAtAMoment
<1>. QED  BY <1>1, IInvHolds, PTL

\* A login by name, email or phone finds the user who has it, whatever else runs, if
\* splitIdentifier leaves it as it is (login in password.service.ts).
THEOREM ReadAsItIs ==
  Spec => [][splitIdentifier[idn] = idn => \A r \in Logins, u \in Users : Finds(r, u)]_vars
<1>1. ASSUME TypeOK, Placed, splitIdentifier[idn] = idn, NEW r \in Logins, NEW u \in Users,
             FindUser(r), ~mem'[r].failed, row[u] # Absent, idn \in {row[u].name, row[u].contact}
      PROVE  mem'[r].exists /\ mem'[r].hash = row[u].hash
  <2>1. u \in Users /\ Sought(row[u])
    BY <1>1 DEF Sought
  <2>2. \A v \in Users : Sought(row[v]) => v = u
    BY <1>1, <2>1, OneHasIt
  <2>. DEFINE Read(h, exists, failed) ==
                [password |-> mem[r].password, hash |-> h, exists |-> exists, failed |-> failed]
  <2>3. r \in Requests /\ mem = [s \in Requests |-> mem[s]]
    BY <1>1 DEF Placed, Requests
  <2>4. \/ \E v \in Users : Sought(row[v]) /\ mem' = [mem EXCEPT ![r] = Read(row[v].hash, TRUE, FALSE)]
        \/ {v \in Users : Sought(row[v])} = {}
        \/ mem' = [mem EXCEPT ![r] = Read(None, FALSE, TRUE)]
    BY <1>1 DEF FindUser, Keeps
  <2>5. mem' # [mem EXCEPT ![r] = Read(None, FALSE, TRUE)]
    BY <1>1, <2>3
  <2>6. PICK v \in Users : Sought(row[v]) /\ mem' = [mem EXCEPT ![r] = Read(row[v].hash, TRUE, FALSE)]
    BY <2>1, <2>4, <2>5
  <2>7. mem'[r] = Read(row[v].hash, TRUE, FALSE)
    BY <2>3, <2>6
  <2>. QED  BY <2>2, <2>6, <2>7
<1>2. TypeOK /\ Placed /\ [Next]_vars
        => [splitIdentifier[idn] = idn => \A r \in Logins, u \in Users : Finds(r, u)]_vars
  BY <1>1 DEF Finds
<1>3. IInv => TypeOK /\ Placed
  BY DEF IInv
<1>. QED  BY <1>2, <1>3, IInvHolds, PTL DEF Spec

\* setPassword, whose ticket is consumed, answers an error only because
\* somebody else took the name that was generated for it: a user with the same
\* contact who appears between its read and its insert never makes it fail.
THEOREM NameRace == Spec => []NameRaceOnly
<1>1. IInv => NameRaceOnly
  BY DEF IInv, Owned, NameLost, NameRaceOnly
<1>. QED  BY <1>1, IInvHolds, PTL

\* However hits and the end of the window interleave, no window lets more than
\* MaxHits refreshes through.
THEOREM RefreshesBounded == Spec => []RefreshBound
<1>1. IInv => RefreshBound
  BY DEF IInv, Counted, RefreshBound
<1>. QED  BY <1>1, IInvHolds, PTL

\* A key that has no TTL is excused by a crash, a lost answer or a failed EXPIRE
\* (loose), or a
\* request that is still running is about to give it one: the safety part of
\* WindowsEnd.
THEOREM KeysExcused == Spec => []NoTtlExcused
<1>1. IInv => NoTtlExcused
  BY DEF IInv
<1>. QED  BY <1>1, IInvHolds, PTL
=============================================================================
