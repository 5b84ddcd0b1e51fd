------------------------------- MODULE SignIn -------------------------------
(***************************************************************************)
(* The rows of the users and who writes them: login, changePassword and    *)
(* the upsert of setPassword in password.service.ts, user names in         *)
(* profile.service.ts, users.service.ts; and the two counters in Redis     *)
(* that have a window, the login throttle and refresh-rate-limit.service.  *)
(* The indexes on name and contact are unique; a write that would break    *)
(* one is refused (P2002).                                                 *)
(***************************************************************************)
EXTENDS Naturals, Sequences, FiniteSets

CONSTANTS
  Users, Contacts, Names, Passwords,
  Candidates,    \* the names generateUsername tries for a contact, 1000 in the code
  splitIdentifier,  \* the contact or name that login looks for when it is given one
  Dummy,         \* what DUMMY_BCRYPT_HASH is a hash of
  LoginLimit, MaxHits,
  Setters, Logins, Changers, Renamers, Admins, Refreshers,   \* requests
  Absent, None, Unusable

Requests == Setters \cup Logins \cup Changers \cup Renamers \cup Admins \cup Refreshers
Keys == {"login", "refresh"}
\* users.service.ts stores a digest that no comparison of login accepts.
Rows == [name : Names \cup {None}, contact : Contacts \cup {None},
         hash : Passwords \cup {Unusable, None}]

ASSUME SentinelsAreNotData ==
  /\ Absent \notin Rows /\ None \notin Names \cup Contacts \cup Passwords
  /\ Unusable \notin Passwords \cup {None} /\ Names \cap Contacts = {}
\* An e-mail, a phone or a name by its shape alone: 0912.. is read as +98912.., a
\* name of 98 and digits, or with them among its letters, as a phone, too.
ASSUME SplitGivesOne == splitIdentifier \in [Names \cup Contacts -> Names \cup Contacts]
\* The comment has "dummy", which LoginDto finds too short.
ASSUME DummyIsNoPassword == Dummy \notin Passwords
ASSUME CandidatesAreNames == Candidates \in [Contacts -> Seq(Names) \ {<<>>}]
ASSUME LimitsArePositive == LoginLimit \in Nat \ {0} /\ MaxHits \in Nat \ {0}
ASSUME SortsAreDisjoint ==
  /\ Setters \cap (Logins \cup Changers \cup Renamers \cup Admins \cup Refreshers) = {}
  /\ Logins \cap (Changers \cup Renamers \cup Admins \cup Refreshers) = {}
  /\ Changers \cap (Renamers \cup Admins \cup Refreshers) = {}
  /\ Renamers \cap (Admins \cup Refreshers) = {} /\ Admins \cap Refreshers = {}

VARIABLES
  idn,      \* what the logins are made with: a contact or a name
  row,      \* of a user, or Absent
  count,    \* of a key in Redis; 0 is no key
  ttl,      \* the key has one
  pc,       \* the await a request is at, or its answer
  mem,      \* what a request was given and has read
  right,    \* history: what the password of a request was while it ran, right or wrong
  owned,    \* history: names and whose they were
  passed,   \* history: refreshes let through in this window
  loose     \* history: keys that came to have no TTL

vars == <<idn, row, count, ttl, pc, mem, right, owned, passed, loose>>
counters == <<count, ttl, passed, loose>>
history == <<right, owned>>

Open(r) == pc[r] \notin {"idle", "out", "in", "refused", "changed", "set", "error", "renamed",
                         "taken", "done", "dead"}
Step(r, from, to) == pc[r] = from /\ pc' = [pc EXCEPT ![r] = to]
Keeps(r, m) == mem' = [mem EXCEPT ![r] = m]

HasName(u, n) == row[u] # Absent /\ row[u].name = n
HasContact(u, c) == row[u] # Absent /\ row[u].contact = c
Taken(n) == \E u \in Users : HasName(u, n)
Known(c) == \E u \in Users : HasContact(u, c)

\* Whom login looks for: what it was given decides on one column of the three.
Sought(x) == x # Absent /\ splitIdentifier[idn] \in {x.name, x.contact}

\* Whether the password a request was given, m, is the right one in the rows rw.
Matches(rw, r, m) ==
  \E u \in Users :
    /\ rw[u] # Absent /\ rw[u].hash = m.password
    /\ IF r \in Changers THEN u = m.user ELSE Sought(rw[u])

\* Every write of a row: requests that are running see another moment.
Write(u, x) ==
  /\ row' = [row EXCEPT ![u] = x]
  /\ owned' = owned \cup {[name |-> x.name, contact |-> x.contact]}
  /\ right' = [r \in Logins \cup Changers |->
                 IF Open(r) THEN right[r] \cup {Matches(row', r, mem[r])} ELSE right[r]]

-----------------------------------------------------------------------------
(* login *)

\* Redis errors are ignored, whether INCR took effect or not.  So is the 429
\* beyond LoginLimit: it is thrown inside the try that ignores them.
CountLogin(r) ==
  /\ \E p \in Passwords, counted, answered \in BOOLEAN :
       LET attempts == IF answered THEN count["login"] + 1 ELSE 0
           m == [password |-> p, attempts |-> attempts]
       IN
         /\ answered => counted
         /\ Keeps(r, m) /\ right' = [right EXCEPT ![r] = {Matches(row, r, m)}]
         /\ count' = IF counted THEN [count EXCEPT !["login"] = @ + 1] ELSE count
         /\ loose' = IF counted /\ ~answered /\ count["login"] = 0 THEN loose \cup {"login"} ELSE loose
         /\ Step(r, "idle", IF attempts = 1 THEN "expireLogin" ELSE "findUser")
  /\ UNCHANGED <<idn, row, ttl, owned, passed>>

ExpireLogin(r) ==
  /\ Step(r, "expireLogin", "findUser")
  /\ \/ ttl' = [ttl EXCEPT !["login"] = count["login"] > 0] /\ UNCHANGED loose
     \/ UNCHANGED ttl /\ loose' = loose \cup {"login"}
  /\ UNCHANGED <<idn, row, count, mem, history, passed>>

\* An error of the database is as if there were no user.
FindUser(r) ==
  /\ Step(r, "findUser", "compare")
  /\ LET found == {u \in Users : Sought(row[u])}
         Read(h, exists, failed) ==
           [password |-> mem[r].password, hash |-> h, exists |-> exists, failed |-> failed]
     IN \/ \E u \in found : Keeps(r, Read(row[u].hash, TRUE, FALSE))
        \/ found = {} /\ Keeps(r, Read(None, FALSE, FALSE))
        \/ Keeps(r, Read(None, FALSE, TRUE))
  /\ UNCHANGED <<idn, row, history, counters>>

\* Without a user or a password of hers the dummy hash is compared.
hashToCheck(m) == IF m.hash = None THEN Dummy ELSE m.hash

\* Mutant: a user without a password is let in.
CompareNone(r) ==
  /\ Step(r, "compare", IF mem[r].exists /\ mem[r].hash \in {mem[r].password, None}
                        THEN "clear" ELSE "recount")
  /\ UNCHANGED <<idn, row, mem, history, counters>>

Compare(r) ==
  /\ Step(r, "compare", IF mem[r].exists /\ hashToCheck(mem[r]) = mem[r].password
                        THEN "clear" ELSE "recount")
  /\ UNCHANGED <<idn, row, mem, history, counters>>

Clear(r) ==
  /\ Step(r, "clear", "in")
  /\ \/ /\ count' = [count EXCEPT !["login"] = 0]
        /\ ttl' = [ttl EXCEPT !["login"] = FALSE]
     \/ UNCHANGED <<count, ttl>>
  /\ UNCHANGED <<idn, row, mem, history, passed, loose>>

\* The failure counts a second time; on a key whose window has ended meanwhile
\* it makes one that has no TTL.
Recount(r) ==
  /\ Step(r, "recount", "out")
  /\ \/ /\ count' = [count EXCEPT !["login"] = @ + 1]
        /\ loose' = IF count["login"] = 0 THEN loose \cup {"login"} ELSE loose
     \/ UNCHANGED <<count, loose>>
  /\ UNCHANGED <<idn, row, ttl, mem, history, passed>>

-----------------------------------------------------------------------------
(* changePassword *)

FindOwn(r) ==
  /\ \E u \in Users, p, new \in Passwords :
       LET m == [user |-> u, password |-> p, new |-> new] IN
       /\ row[u] # Absent
       /\ Keeps(r, m) /\ right' = [right EXCEPT ![r] = {Matches(row, r, m)}]
       /\ Step(r, "idle", IF row[u].hash = p THEN "change" ELSE "refused")
  /\ UNCHANGED <<idn, row, owned, counters>>

Change(r) ==
  /\ Step(r, "change", "changed")
  /\ Write(mem[r].user, [row[mem[r].user] EXCEPT !.hash = mem[r].new])
  /\ UNCHANGED <<idn, mem, counters>>

-----------------------------------------------------------------------------
(* setPassword, once its ticket is consumed and the password is long enough *)

StartSet(r) ==
  /\ Step(r, "idle", "tryName")
  /\ \E c \in Contacts, p \in Passwords :
       Keeps(r, [contact |-> c, hash |-> p, tried |-> 1, name |-> None, user |-> None])
  /\ UNCHANGED <<idn, row, history, counters>>

\* One candidate per await; after the last, one with a random number.
TryName(r) ==
  /\ pc[r] = "tryName"
  /\ LET m == mem[r]
         names == Candidates[m.contact]
     IN
       \/ /\ ~Taken(names[m.tried])
          /\ Step(r, "tryName", "findContact") /\ Keeps(r, [m EXCEPT !.name = names[m.tried]])
       \/ /\ Taken(names[m.tried]) /\ m.tried < Len(names)
          /\ Step(r, "tryName", "tryName") /\ Keeps(r, [m EXCEPT !.tried = @ + 1])
       \/ /\ Taken(names[m.tried]) /\ m.tried = Len(names)
          /\ Step(r, "tryName", "findContact")
          /\ \E n \in Names : Keeps(r, [m EXCEPT !.name = n])
  /\ UNCHANGED <<idn, row, history, counters>>

\* The upsert, as a read and the write that follows it.
FindContact(r) ==
  /\ pc[r] = "findContact"
  /\ \/ /\ ~Known(mem[r].contact)
        /\ Step(r, "findContact", "insert") /\ UNCHANGED mem
     \/ \E u \in Users :
          /\ HasContact(u, mem[r].contact)
          /\ Step(r, "findContact", "update") /\ Keeps(r, [mem[r] EXCEPT !.user = u])
  /\ UNCHANGED <<idn, row, history, counters>>

\* Mutant: the names have no unique index.
InsertAnyName(r) ==
  /\ pc[r] = "insert"
  /\ LET m == mem[r] IN
       IF Known(m.contact)
       THEN Step(r, "insert", "findAgain") /\ UNCHANGED <<row, history>>
       ELSE /\ Step(r, "insert", "set")
            /\ \E u \in Users :
                 /\ row[u] = Absent
                 /\ Write(u, [name |-> m.name, contact |-> m.contact, hash |-> m.hash])
  /\ UNCHANGED <<idn, mem, counters>>

Insert(r) ==
  /\ pc[r] = "insert"
  /\ LET m == mem[r] IN
       IF Known(m.contact) \/ Taken(m.name)
       THEN Step(r, "insert", "findAgain") /\ UNCHANGED <<row, history>>
       ELSE /\ Step(r, "insert", "set")
            /\ \E u \in Users :
                 /\ row[u] = Absent
                 /\ Write(u, [name |-> m.name, contact |-> m.contact, hash |-> m.hash])
  /\ UNCHANGED <<idn, mem, counters>>

\* Mutant: a P2002 is an error as any other.
FindAgainNot(r) ==
  /\ Step(r, "findAgain", "error")
  /\ UNCHANGED <<idn, row, mem, history, counters>>

\* After a P2002: the contact may have come in between, otherwise it was the name.
FindAgain(r) ==
  /\ pc[r] = "findAgain"
  /\ \/ ~Known(mem[r].contact) /\ Step(r, "findAgain", "error") /\ UNCHANGED mem
     \/ \E u \in Users :
          /\ HasContact(u, mem[r].contact)
          /\ Step(r, "findAgain", "update") /\ Keeps(r, [mem[r] EXCEPT !.user = u])
  /\ UNCHANGED <<idn, row, history, counters>>

Update(r) ==
  /\ Step(r, "update", "set")
  /\ Write(mem[r].user, [row[mem[r].user] EXCEPT !.hash = mem[r].hash])
  /\ UNCHANGED <<idn, mem, counters>>

-----------------------------------------------------------------------------
(* Names, and the administrators' requests *)

CheckName(r) ==
  /\ \E u \in Users, n \in Names :
       /\ row[u] # Absent
       /\ Keeps(r, [user |-> u, name |-> n])
       /\ IF Taken(n) THEN Step(r, "idle", "taken") ELSE Step(r, "idle", "rename")
  /\ UNCHANGED <<idn, row, history, counters>>

\* The index decides when the name was taken meanwhile: the answer is a 500.
Rename(r) ==
  /\ pc[r] = "rename"
  /\ IF Taken(mem[r].name)
     THEN Step(r, "rename", "error") /\ UNCHANGED <<row, history>>
     ELSE /\ Step(r, "rename", "renamed")
          /\ Write(mem[r].user, [row[mem[r].user] EXCEPT !.name = mem[r].name])
  /\ UNCHANGED <<idn, mem, counters>>

CreateUser(r) ==
  /\ Step(r, "idle", "done")
  /\ \E u \in Users, n \in Names, c \in Contacts \cup {None}, h \in {Unusable, None} :
       /\ row[u] = Absent /\ ~Taken(n) /\ (c = None \/ ~Known(c))
       /\ Write(u, [name |-> n, contact |-> c, hash |-> h])
  /\ UNCHANGED <<idn, mem, counters>>

\* Contacts keep their users in the model.
UpdateUser(r) ==
  /\ Step(r, "idle", "done")
  /\ \E u \in Users, n \in Names :
       /\ row[u] # Absent /\ (~Taken(n) \/ row[u].name = n)
       /\ \E h \in {row[u].hash, Unusable} : Write(u, [row[u] EXCEPT !.name = n, !.hash = h])
  /\ UNCHANGED <<idn, mem, counters>>

-----------------------------------------------------------------------------
(* The limit of refreshes *)

\* Mutant: the hit after the last is let through.
HitOneMore(r) ==
  /\ LET hits == count["refresh"] + 1
         through == hits <= MaxHits + 1 IN
       /\ count' = [count EXCEPT !["refresh"] = hits]
       /\ passed' = IF through THEN passed \cup {r} ELSE passed
       /\ Step(r, "idle", IF hits = 1 THEN "expireRefresh" ELSE IF through THEN "done" ELSE "refused")
  /\ UNCHANGED <<idn, row, ttl, mem, history, loose>>

\* Mutant: the window begins with the first hit that is refused.
HitLate(r) ==
  /\ LET hits == count["refresh"] + 1
         through == hits <= MaxHits IN
       /\ count' = [count EXCEPT !["refresh"] = hits]
       /\ passed' = IF through THEN passed \cup {r} ELSE passed
       /\ Step(r, "idle", IF hits = MaxHits + 1 THEN "expireRefresh" ELSE IF through THEN "done" ELSE "refused")
  /\ UNCHANGED <<idn, row, ttl, mem, history, loose>>

Hit(r) ==
  /\ LET hits == count["refresh"] + 1
         through == hits <= MaxHits IN
       /\ count' = [count EXCEPT !["refresh"] = hits]
       /\ passed' = IF through THEN passed \cup {r} ELSE passed
       /\ Step(r, "idle", IF hits = 1 THEN "expireRefresh" ELSE IF through THEN "done" ELSE "refused")
  /\ UNCHANGED <<idn, row, ttl, mem, history, loose>>

ExpireRefresh(r) ==
  /\ Step(r, "expireRefresh", "done")
  /\ ttl' = [ttl EXCEPT !["refresh"] = count["refresh"] > 0]
  /\ UNCHANGED <<idn, row, count, mem, history, passed, loose>>

-----------------------------------------------------------------------------

\* The window of a key ends.
KeyEnds(k) ==
  /\ ttl[k]
  /\ count' = [count EXCEPT ![k] = 0]
  /\ ttl' = [ttl EXCEPT ![k] = FALSE]
  /\ passed' = IF k = "refresh" THEN {} ELSE passed
  /\ UNCHANGED <<idn, row, pc, mem, history, loose>>

\* The process dies, or Postgres or Redis refuses where the code passes that on.
Die(r) ==
  /\ Open(r)
  /\ pc' = [pc EXCEPT ![r] = "dead"]
  /\ loose' = loose \cup (IF pc[r] = "expireLogin" THEN {"login"}
                          ELSE IF pc[r] = "expireRefresh" THEN {"refresh"} ELSE {})
  /\ UNCHANGED <<idn, row, count, ttl, mem, history, passed>>

LoginStep(r) ==
  CountLogin(r) \/ ExpireLogin(r) \/ FindUser(r) \/ Compare(r) \/ Clear(r) \/ Recount(r)
SetStep(r) ==
  StartSet(r) \/ TryName(r) \/ FindContact(r) \/ Insert(r) \/ FindAgain(r) \/ Update(r)
RefreshStep(r) == Hit(r) \/ ExpireRefresh(r)

\* A request that is over from the beginning is not made.
Init ==
  /\ idn \in Names \cup Contacts
  /\ row \in [Users -> Rows \cup {Absent}]
  /\ \A u, v \in Users : row[u] # Absent /\ row[v] # Absent /\ u # v =>
       /\ row[u].name = None \/ row[u].name # row[v].name
       /\ row[u].contact = None \/ row[u].contact # row[v].contact
  /\ count = [k \in Keys |-> 0]
  /\ ttl = [k \in Keys |-> FALSE]
  /\ pc \in [Requests -> {"idle", "done"}]
  /\ mem = [r \in Requests |-> None]
  /\ right = [r \in Logins \cup Changers |-> {}]
  /\ owned = {[name |-> row[u].name, contact |-> row[u].contact] : u \in {v \in Users : row[v] # Absent}}
  /\ passed = {} /\ loose = {}

Next ==
  \/ \E r \in Logins : LoginStep(r)
  \/ \E r \in Changers : FindOwn(r) \/ Change(r)
  \/ \E r \in Setters : SetStep(r)
  \/ \E r \in Renamers : CheckName(r) \/ Rename(r)
  \/ \E r \in Admins : CreateUser(r) \/ UpdateUser(r)
  \/ \E r \in Refreshers : RefreshStep(r)
  \/ \E k \in Keys : KeyEnds(k)
  \/ \E r \in Requests : Die(r)

Spec == Init /\ [][Next]_vars

\* Redis removes a key whose window is over; a request that runs goes on.
FairSpec ==
  /\ Spec
  /\ \A k \in Keys : WF_vars(KeyEnds(k))
  /\ \A r \in Logins : WF_vars(Open(r) /\ LoginStep(r))
  /\ \A r \in Refreshers : WF_vars(ExpireRefresh(r))

-----------------------------------------------------------------------------
(* Properties *)

\* Types; the unique indexes; a key with a TTL exists.
TypeOK ==
  /\ idn \in Names \cup Contacts
  /\ row \in [Users -> Rows \cup {Absent}]
  /\ \A u, v \in Users : row[u] # Absent /\ row[v] # Absent /\ u # v =>
       /\ row[u].name = None \/ row[u].name # row[v].name
       /\ row[u].contact = None \/ row[u].contact # row[v].contact
  /\ count \in [Keys -> Nat]
  /\ ttl \in [Keys -> BOOLEAN]
  /\ \A k \in Keys : ttl[k] => count[k] > 0
  /\ right \in [Logins \cup Changers -> SUBSET BOOLEAN]
  /\ passed \subseteq Refreshers /\ loose \subseteq Keys

\* A login is answered as of a moment at which it ran: it succeeds only if the
\* password was right then of the user it looked for, whoever was renamed or changed
\* passwords meanwhile, and fails only if it was wrong or the user could not be read;
\* a change of password presented the right one.
AnsweredAtAMoment ==
  /\ \A r \in Logins \cup Changers : pc[r] \in {"in", "changed"} => TRUE \in right[r]
  /\ \A r \in Logins : pc[r] = "out" => FALSE \in right[r] \/ mem[r].failed

\* The row that a login reads is that of u if u has the name or contact it was given.
Finds(r, u) ==
  FindUser(r) /\ ~mem'[r].failed /\ row[u] # Absent /\ idn \in {row[u].name, row[u].contact}
    => mem'[r].exists /\ mem'[r].hash = row[u].hash

\* What the controller says (auth.controller.ts:194): a login may be made with an
\* email, a phone or a user name.  It is not so of a name that splitIdentifier reads
\* as a phone: see README.
NameIsFound == [][\A r \in Logins, u \in Users : Finds(r, u)]_vars

\* setPassword, whose ticket is gone by then, fails only because another user
\* took the generated name; never because the user came to exist meanwhile.
NameRaceOnly ==
  \A r \in Setters : pc[r] = "error" =>
    \E x \in owned : x.name = mem[r].name /\ x.contact # mem[r].contact

\* A window of refreshes lets no more than MaxHits through.
RefreshBound == Cardinality(passed) <= MaxHits

\* A counter goes away, unless a process died, or the answer of INCR was lost or an
\* EXPIRE failed before it had a TTL, or the failure of a login was counted on a key that had just ended.
WindowsEnd == \A k \in Keys : count[k] > 0 ~> count[k] = 0 \/ k \in loose

\* The throttle of login refuses the tries that it counts beyond its limit.
LoginThrottled == \A r \in Logins : pc[r] = "findUser" => mem[r].attempts <= LoginLimit

=============================================================================
