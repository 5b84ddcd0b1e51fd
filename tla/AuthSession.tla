---------------------------- MODULE AuthSession ----------------------------
(***************************************************************************)
(* The sessions of one user and their refresh tokens                       *)
(* (apps/api/src/core/auth): RefreshService, SessionService and the        *)
(* blacklist of TokenService, as AuthController uses them for login,       *)
(* refresh and logout, with the other operations of SessionService called  *)
(* beside them.  All state is in Redis:                                    *)
(*   allow   the allow-list of refresh tokens, black the blacklist         *)
(*   record  the session records                                           *)
(*   index   the user's set of session ids, recent the sorted set of them  *)
(*   jtis    per session the tokens linked to it                           *)
(* A request is a process, an await ends a step, a MULTI or a pipeline is  *)
(* one step.  A login stands for the session it creates, a login or a      *)
(* refresh for the token it mints.                                         *)
(***************************************************************************)
EXTENDS FiniteSets

CONSTANTS
  Logins,      \* POST /auth/login requests that gave the right password
  Refreshers,  \* POST /auth/refresh requests
  Callers,     \* logouts and calls of SessionService, each does one of them
  Faults,      \* TRUE: a Redis or database call may fail, a process may die
  None

Tokens == Logins \cup Refreshers
Requests == Tokens \cup Callers

ASSUME AuthConstants ==
  /\ Logins \cap Refreshers = {} /\ Tokens \cap Callers = {}
  /\ Faults \in BOOLEAN /\ None \notin Tokens

VARIABLES
  allow, black, record, index, recent, jtis,
  issued,         \* the tokens the client has been given
  pc,
  token,          \* per request: the token it was called with
  sid,            \* per token: its session, in its payload and its allow record
  sids, seen,     \* per caller: the session ids and the tokens it has read
  mishap, ended,  \* history: sessions hit by a failure or an expiry; sessions
                  \* that a logout or a revoke has begun to end
  lapsed          \* history: sessions whose record has expired
keys == <<record, index, recent>>   \* of the sessions themselves
redis == <<allow, black, keys, jtis>>
locals == <<token, sid, sids, seen>>
history == <<mishap, ended, lapsed>>
vars == <<redis, locals, history, issued, pc>>

Goto(r, l) == pc' = [pc EXCEPT ![r] = l]

\* A command of session s was lost, with or without its effect.
Fault(s) == Faults /\ mishap' = mishap \cup {s}
Smooth == UNCHANGED mishap

\* The session of a request with a token.
SessionOf(r) == IF r \in Logins THEN r ELSE sid[token[r]]

---------------------------------------------------------------------------
\* login: the session, the user with the roles, then the pair of tokens.

Enter(l) ==
  /\ record' = record \cup {l}
  /\ index' = index \cup {l} /\ recent' = recent \cup {l}

Create(l) ==
  /\ l \in Logins /\ pc[l] = "start"
  /\ sid' = [sid EXCEPT ![l] = l]
  /\ \/ Smooth /\ Goto(l, "load") /\ Enter(l)
     \/ Fault(l) /\ Goto(l, "refused") /\ (Enter(l) \/ UNCHANGED keys)
  /\ UNCHANGED <<allow, black, jtis, token, sids, seen, ended, issued, lapsed>>

\* Mutant of Load: a refresh that fails here gives its old token back.
LoadRestores(r) ==
  /\ pc[r] = "load"
  /\ \/ Smooth /\ UNCHANGED allow /\ Goto(r, "set")
     \/ /\ Fault(SessionOf(r)) /\ Goto(r, "refused")
        /\ allow' = allow \cup ({token[r]} \ {None})
  /\ UNCHANGED <<black, keys, jtis, locals, ended, issued, lapsed>>

\* ensureActiveWithRoles
Load(r) ==
  /\ pc[r] = "load"
  /\ \/ Smooth /\ Goto(r, "set")
     \/ Fault(SessionOf(r)) /\ Goto(r, "refused")
  /\ UNCHANGED <<redis, locals, ended, issued, lapsed>>

\* buildPair: a failed SET is logged, a failed link ignored.
SetAllow(r) ==
  /\ pc[r] = "set"
  /\ \/ Smooth /\ allow' = allow \cup {r}
     \/ Fault(SessionOf(r)) /\ UNCHANGED allow
  /\ Goto(r, "link")
  /\ UNCHANGED <<black, keys, jtis, locals, ended, issued, lapsed>>

\* Mutant of Link: the old token is linked, not the new one.
LinkOld(r) ==
  /\ pc[r] = "link"
  /\ Smooth
  /\ jtis' = [jtis EXCEPT ![SessionOf(r)] = @ \cup {token[r]}]
  /\ issued' = issued \cup {r}
  /\ Goto(r, "ok")
  /\ UNCHANGED <<allow, black, keys, locals, ended, lapsed>>

Link(r) ==
  /\ pc[r] = "link"
  /\ \/ Smooth /\ jtis' = [jtis EXCEPT ![SessionOf(r)] = @ \cup {r}]
     \/ Fault(SessionOf(r)) /\ UNCHANGED jtis
  /\ issued' = issued \cup {r}
  /\ Goto(r, "ok")
  /\ UNCHANGED <<allow, black, keys, locals, ended, lapsed>>

---------------------------------------------------------------------------
\* refresh: any token the client ever had may be presented, also twice.

Verify(r) ==
  /\ r \in Refreshers /\ pc[r] = "start"
  /\ \E t \in issued :
       /\ token' = [token EXCEPT ![r] = t]
       /\ sid' = [sid EXCEPT ![r] = sid[t]]
       /\ Goto(r, IF t \in black THEN "refused" ELSE "consume")
  /\ UNCHANGED <<redis, sids, seen, history, issued>>

\* Mutant of Consume: the token is read, its deletion forgotten.
ConsumeKeeps(r) ==
  /\ pc[r] = "consume"
  /\ Smooth
  /\ Goto(r, IF token[r] \in allow THEN "blacklist" ELSE "refused")
  /\ UNCHANGED <<redis, locals, ended, issued, lapsed>>

\* Mutant of Consume: a miss counts as theft and drops the session's tokens.
ConsumeAccuses(r) ==
  /\ pc[r] = "consume"
  /\ Smooth
  /\ IF token[r] \in allow
     THEN allow' = allow \ {token[r]} /\ Goto(r, "blacklist")
     ELSE allow' = allow \ jtis[sid[r]] /\ Goto(r, "refused")
  /\ UNCHANGED <<black, keys, jtis, locals, ended, issued, lapsed>>

\* GETDEL
Consume(r) ==
  /\ pc[r] = "consume"
  /\ \/ /\ token[r] \in allow /\ Smooth
        /\ allow' = allow \ {token[r]} /\ Goto(r, "blacklist")
     \/ token[r] \notin allow /\ Smooth /\ UNCHANGED allow /\ Goto(r, "refused")
     \/ /\ Fault(SessionOf(r)) /\ allow' \in {allow, allow \ {token[r]}}
        /\ Goto(r, "refused")
  /\ UNCHANGED <<black, keys, jtis, locals, ended, issued, lapsed>>

\* safeBlacklist and unlinkRefreshJti, of refresh and of logout.
Blacklist(r) ==
  /\ pc[r] = "blacklist"
  /\ \/ Smooth /\ black' = black \cup {token[r]}
     \/ Fault(SessionOf(r)) /\ UNCHANGED black
  /\ Goto(r, "unlink")
  /\ UNCHANGED <<allow, keys, jtis, locals, ended, issued, lapsed>>

Unlink(r) ==
  /\ pc[r] = "unlink"
  /\ \/ Smooth /\ jtis' = [jtis EXCEPT ![SessionOf(r)] = @ \ {token[r]}]
     \/ Fault(SessionOf(r)) /\ UNCHANGED jtis
  /\ Goto(r, IF r \in Refreshers THEN "load" ELSE "left")
  /\ UNCHANGED <<allow, black, keys, locals, ended, issued, lapsed>>

---------------------------------------------------------------------------
\* logout: RefreshService.revoke of the token in the cookie or the body.

Logout(c) ==
  /\ c \in Callers /\ pc[c] = "start"
  /\ \E t \in issued :
       /\ token' = [token EXCEPT ![c] = t]
       /\ ended' = ended \cup {sid[t]}
       /\ \/ Smooth /\ allow' = allow \ {t}
          \/ Fault(sid[t]) /\ UNCHANGED allow
  /\ Goto(c, "blacklist")
  /\ UNCHANGED <<black, keys, jtis, sid, sids, seen, issued, lapsed>>

---------------------------------------------------------------------------
\* SessionService: revoke, revokeAll, touch, list and listPage.

\* The reads of a pipeline fail one by one, and nobody looks at their errors:
\* the jtis of a session then seem to be none, and a record not to be there.
Losable(S) == IF Faults THEN SUBSET S ELSE {{}}

RevokeRead(c) ==
  /\ c \in Callers /\ pc[c] = "start"
  /\ \E s \in record \cup {sid[t] : t \in issued} :
       /\ sids' = [sids EXCEPT ![c] = {s}]
       /\ seen' = [seen EXCEPT ![c] = jtis[s]]
       /\ ended' = ended \cup {s}
  /\ Goto(c, "revoke")
  /\ UNCHANGED <<redis, token, sid, mishap, issued, lapsed>>

RevokeAllIndex(c) ==
  /\ c \in Callers /\ pc[c] = "start"
  /\ index # {}
  /\ sids' = [sids EXCEPT ![c] = index]
  /\ ended' = ended \cup index
  /\ Goto(c, "readJtis")
  /\ UNCHANGED <<redis, token, sid, seen, mishap, issued, lapsed>>

RevokeAllJtis(c) ==
  /\ pc[c] = "readJtis"
  /\ \E lost \in Losable(sids[c]) :
       /\ seen' = [seen EXCEPT ![c] = UNION {jtis[s] : s \in sids[c] \ lost}]
       /\ mishap' = mishap \cup lost
  /\ Goto(c, "revoke")
  /\ UNCHANGED <<redis, token, sid, sids, ended, lapsed, issued>>

RevokeDelete(c) ==
  /\ pc[c] = "revoke"
  /\ allow' = allow \ seen[c]
  /\ jtis' = [s \in Logins |-> IF s \in sids[c] THEN {} ELSE jtis[s]]
  /\ record' = record \ sids[c]
  /\ index' = index \ sids[c] /\ recent' = recent \ sids[c]
  /\ Goto(c, "revoked")
  /\ UNCHANGED <<black, locals, history, issued>>

TouchRead(c) ==
  /\ c \in Callers /\ pc[c] = "start"
  /\ \E s \in record : sids' = [sids EXCEPT ![c] = {s}]
  /\ Goto(c, "touch")
  /\ UNCHANGED <<redis, token, sid, seen, history, issued>>

TouchWrite(c) ==
  /\ pc[c] = "touch"
  /\ record' = record \cup sids[c] /\ recent' = recent \cup sids[c]
  /\ Goto(c, "done")
  /\ UNCHANGED <<allow, black, index, jtis, locals, history, issued>>

\* list reads the set, listPage a page of the sorted set.
ListRead(c) ==
  /\ c \in Callers /\ pc[c] = "start"
  /\ \E page \in ({index} \cup SUBSET recent) \ {{}} : sids' = [sids EXCEPT ![c] = page]
  /\ Goto(c, "list")
  /\ UNCHANGED <<redis, token, sid, seen, history, issued>>

ListGet(c) ==
  /\ pc[c] = "list"
  /\ \E lost \in Losable(sids[c] \cap record) :
       /\ sids' = [sids EXCEPT ![c] = (@ \ record) \cup lost]
       /\ mishap' = mishap \cup lost
  /\ Goto(c, IF sids'[c] = {} THEN "done" ELSE "heal")
  /\ UNCHANGED <<redis, token, sid, seen, ended, lapsed, issued>>

ListHeal(c) ==
  /\ pc[c] = "heal"
  /\ index' = index \ sids[c] /\ recent' = recent \ sids[c]
  /\ Goto(c, "done")
  /\ UNCHANGED <<allow, black, record, jtis, locals, history, issued>>

---------------------------------------------------------------------------
\* Time and crashes.  A record's TTL (45 days) is only renewed by touch, the
\* tokens' (30 days) by every refresh; the index and jtis have none.

ExpireToken(t) ==
  /\ t \in allow
  /\ allow' = allow \ {t}
  /\ mishap' = mishap \cup {sid[t]}
  /\ UNCHANGED <<black, keys, jtis, locals, ended, issued, pc, lapsed>>

ExpireRecord(s) ==
  /\ s \in record
  /\ record' = record \ {s} /\ lapsed' = lapsed \cup {s}
  /\ UNCHANGED <<allow, black, index, recent, jtis, locals, mishap, ended, issued, pc>>

Final == {"ok", "refused", "left", "revoked", "done", "crashed"}

Crash(r) ==
  /\ r \in Tokens /\ pc[r] \notin Final \cup {"start"}
  /\ Fault(SessionOf(r))
  /\ Goto(r, "crashed")
  /\ UNCHANGED <<redis, locals, ended, issued, lapsed>>

Init ==
  /\ allow = {} /\ black = {} /\ record = {} /\ index = {} /\ recent = {} /\ issued = {}
  /\ jtis = [s \in Logins |-> {}]
  /\ pc = [r \in Requests |-> "start"]
  /\ token = [r \in Requests |-> None]
  /\ sid = [t \in Tokens |-> None]
  /\ sids = [c \in Callers |-> {}] /\ seen = [c \in Callers |-> {}]
  /\ mishap = {} /\ ended = {} /\ lapsed = {}

Mint(r) == Create(r) \/ Verify(r) \/ Consume(r) \/ Load(r) \/ SetAllow(r) \/ Link(r)
Retire(r) == Blacklist(r) \/ Unlink(r)
Call(c) ==
  \/ Logout(c) \/ RevokeRead(c) \/ RevokeAllIndex(c) \/ RevokeAllJtis(c) \/ RevokeDelete(c)
  \/ TouchRead(c) \/ TouchWrite(c) \/ ListRead(c) \/ ListGet(c) \/ ListHeal(c)

Next ==
  \/ \E r \in Requests : Mint(r) \/ Retire(r) \/ Call(r) \/ Crash(r)
  \/ \E t \in Tokens : ExpireToken(t)
  \/ \E s \in Logins : ExpireRecord(s)

Spec == Init /\ [][Next]_vars

---------------------------------------------------------------------------
\* Properties

\* Every variable stays in its type.
TypeOK ==
  /\ allow \subseteq Tokens /\ black \subseteq Tokens /\ issued \subseteq Tokens
  /\ record \subseteq Logins /\ index \subseteq Logins /\ recent \subseteq Logins
  /\ mishap \subseteq Logins /\ ended \subseteq Logins /\ lapsed \subseteq Logins
  /\ jtis \in [Logins -> SUBSET Tokens]
  /\ pc \in [Requests -> Final \cup
       {"start", "load", "set", "link", "consume", "blacklist", "unlink", "readJtis",
        "revoke", "touch", "list", "heal"}]
  /\ token \in [Requests -> Tokens \cup {None}] /\ sid \in [Tokens -> Logins \cup {None}]
  /\ sids \in [Callers -> SUBSET Logins] /\ seen \in [Callers -> SUBSET Tokens]

\* A refresh that has consumed its token and not yet stored the new one.
Carries(r) == pc[r] \in {"blacklist", "unlink", "load", "set"} /\ r \notin Callers

\* What a session is held by: its live tokens, and the requests about to
\* replace one.
Holders(s) ==
  {t \in allow : sid[t] = s} \cup {r \in Tokens : Carries(r) /\ SessionOf(r) = s}

\* "single-use refresh tokens": of the requests that present the same token,
\* however they overlap, at most one gets a new pair.
SingleUse ==
  \A q, r \in Refreshers : pc[q] = "ok" /\ pc[r] = "ok" /\ token[q] = token[r] => q = r

\* A session never has two live refresh tokens, even when requests fail, die
\* or present old tokens: rotation replaces, it does not add.
OneHolder == \A s \in Logins : \A p, q \in Holders(s) : p = q

\* Nobody is signed out by concurrent requests: unless a command failed or the
\* token expired, a session that nobody has begun to end keeps a live token,
\* or a request that is about to store one, from its login on.
SignedInStays ==
  \A s \in Logins : pc[s] = "ok" /\ s \notin mishap \cup ended => Holders(s) # {}

\* A live token can be found from its session, which is what a revoke will go
\* by, once its request has ended; and its session from the user, which is what
\* revokeAll will go by, until the session's record expires.
Findable ==
  \A t \in allow : sid[t] \notin mishap \cup ended /\ pc[t] = "ok" =>
    /\ t \in jtis[sid[t]]
    /\ sid[t] \notin lapsed => sid[t] \in index

\* The contract of the sessions: whatever overlaps, fails, dies or is presented
\* twice, each step is one that a family of tokens with one holder may take.
Untried(q) == pc[q] \in {"start", "consume"}
Family == INSTANCE TokenFamily
            WITH Sessions <- Logins,
                 family <- [q \in Tokens |-> IF Untried(q) THEN None ELSE sid[q]],
                 holder <- [s \in Logins |-> Holders(s)],
                 given <- issued, excused <- mishap \cup ended
KeepsFamily == Family!Spec

\* What a logout or a revoke takes away stays away: the tokens that a revoke has
\* seen, and the token of a logout whose DEL was not lost, never live again.
TakenStaysOut ==
  \A c \in Callers :
    /\ pc[c] = "revoked" => seen[c] \cap allow = {}
    /\ pc[c] \in {"blacklist", "unlink", "left"} /\ SessionOf(c) \notin mishap
         => token[c] \notin allow

\* revoke "also deletes the refresh allow-list": when a revoke or revokeAll of
\* a session is over and no request of it is under way, none of its tokens is live.
RevokedIsOut ==
  \A c \in Callers : \A s \in sids[c] :
    pc[c] = "revoked" /\ (\A r \in Tokens : pc[r] \in Final \cup {"start"})
      => \A t \in allow : sid[t] # s

\* A logout "tears down the Redis session" of its token.
LogoutEndsSession ==
  \A c \in Callers : pc[c] = "left" => SessionOf(c) \notin record
=============================================================================
