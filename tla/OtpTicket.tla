----------------------------- MODULE OtpTicket -----------------------------
(***************************************************************************)
(* One-time codes and the set-password tickets they are exchanged for      *)
(* (apps/api/src/core/auth/otp, password): requestOtp, resendOtp and       *)
(* verifyOtp of OtpService, the buckets of OtpRateLimitService, setPassword *)
(* of PasswordService, for one identifier, channel and purpose.            *)
(*   active   the Redis hash of the active code, block the block key       *)
(*   tickets  the tickets in Redis, count and timed the rate-limit buckets *)
(*   user     the user's row: who set its password                         *)
(* A request is a process, an await ends a step, a MULTI is one step.  A   *)
(* code is named by the request that made it, a ticket by its verification.*)
(***************************************************************************)
EXTENDS Naturals, FiniteSets

CONSTANTS
  Senders,     \* requests for a code: request or resend
  Verifiers,   \* requests that verify a code
  Setters,     \* requests that set the password with a ticket
  MaxAttempts, \* OTP_VERIFY_MAX, of a code
  MaxHits,     \* OTP_REQUEST_MAX and OTP_VERIFY_MAX, of a bucket
  None

Buckets == {"req", "ver"}

ASSUME OtpConstants ==
  /\ MaxAttempts \in Nat \ {0} /\ MaxHits \in [Buckets -> Nat \ {0}]
  /\ Senders \cap Verifiers = {} /\ (Senders \cup Verifiers) \cap Setters = {}
  /\ None \notin Senders \cup Verifiers

VARIABLES
  active, block, tickets, count, timed, user,
  pc,
  resend,      \* per sender: it still is a resend
  guess, snap, \* per verification: the code it was given, the hash it has read
  held,        \* per setter: the ticket it was given
  hits,        \* history: per bucket, the requests admitted in its window
  guesses,     \* history: per code, the comparisons with it while it is active
  spent, late, \* history: the codes used up; verifications that start with one
  stuck        \* history: the buckets a request died or failed in before EXPIRE
redis == <<active, block, tickets, count, timed>>
locals == <<resend, guess, snap, held>>
history == <<hits, guesses, spent, late, stuck>>
vars == <<redis, user, pc, locals, history>>

\* `live`: exp is in the future, `cooling`: resendAt is.
Hash ==
  [code : Senders \cup {None}, attempts : Nat, live : BOOLEAN, cooling : BOOLEAN]

\* No code; HINCRBY turns it into a hash of `attempts` alone, without a TTL.
NoHash == [code |-> None, attempts |-> 0, live |-> FALSE, cooling |-> FALSE]
Requests == Senders \cup Verifiers \cup Setters

\* Where requests of both kinds, of one kind, can be.
Common == {"start", "hit", "expire", "block", "read", "refused"}
Sending == {"issue", "send", "sent", "answered"}
Verifying == {"clear", "try", "kill", "grant", "ticket"}
Setting == {"password", "insert", "update", "set"}

Goto(r, l) == pc' = [pc EXCEPT ![r] = l]
Bucket(r) == IF r \in Senders THEN "req" ELSE "ver"

---------------------------------------------------------------------------
\* Rate limit: INCR, then EXPIRE on the first hit.  The bucket of the client's
\* address is shared with other identifiers and may refuse at any time.

\* The client has a code, also from a message whose request is still under way
\* or has failed, or a wrong one.
Begin(v) ==
  /\ pc[v] = "start"
  /\ \E g \in {None} \cup {s \in Senders : pc[s] \in {"send", "sent", "refused"}} :
       /\ guess' = [guess EXCEPT ![v] = g]
       /\ late' = IF g \in spent THEN late \cup {v} ELSE late
  /\ Goto(v, "hit")
  /\ UNCHANGED <<redis, user, resend, snap, held, hits, guesses, spent, stuck>>

BeginSend(r) ==
  /\ pc[r] = "start"
  /\ \E b \in BOOLEAN : resend' = [resend EXCEPT ![r] = b]
  /\ Goto(r, "hit")
  /\ UNCHANGED <<redis, user, guess, snap, held, history>>

Admitted(r) == IF r \in Senders /\ resend[r] THEN "read" ELSE "block"

\* Mutant of Hit: one request too many.
HitOneMore(r) ==
  LET b == Bucket(r) IN
  /\ pc[r] = "hit"
  /\ count' = [count EXCEPT ![b] = @ + 1]
  /\ \/ count[b] = 0 /\ Goto(r, "expire") /\ hits' = [hits EXCEPT ![b] = @ + 1]
     \/ count[b] \in 1 .. MaxHits[b] /\ Goto(r, Admitted(r)) /\ hits' = [hits EXCEPT ![b] = @ + 1]
     \/ count[b] > 0 /\ Goto(r, "refused") /\ UNCHANGED hits
  /\ UNCHANGED <<active, block, tickets, timed, user, locals, guesses, spent, late, stuck>>

Hit(r) ==
  LET b == Bucket(r) IN
  /\ pc[r] = "hit"
  /\ count' = [count EXCEPT ![b] = @ + 1]
  /\ \/ count[b] = 0 /\ Goto(r, "expire") /\ hits' = [hits EXCEPT ![b] = @ + 1]
     \/ count[b] \in 1 .. MaxHits[b] - 1 /\ Goto(r, Admitted(r)) /\ hits' = [hits EXCEPT ![b] = @ + 1]
     \/ count[b] > 0 /\ Goto(r, "refused") /\ UNCHANGED hits
  /\ UNCHANGED <<active, block, tickets, timed, user, locals, guesses, spent, late, stuck>>

ExpireHit(r) ==
  /\ pc[r] = "expire"
  /\ timed' = [timed EXCEPT ![Bucket(r)] = TRUE]
  /\ \/ Goto(r, Admitted(r))
     \/ Goto(r, "refused")
  /\ UNCHANGED <<active, block, tickets, count, user, locals, history>>

CheckBlock(r) ==
  /\ pc[r] = "block"
  /\ Goto(r, IF block THEN "refused" ELSE "read")
  /\ UNCHANGED <<redis, user, locals, history>>

---------------------------------------------------------------------------
\* requestOtp, resendOtp

ReadActive(r) ==
  /\ pc[r] = "read"
  /\ \/ active.cooling /\ Goto(r, "answered") /\ UNCHANGED resend
     \/ ~active.cooling /\ ~(resend[r] /\ active = NoHash) /\ Goto(r, "issue") /\ UNCHANGED resend
     \/ resend[r] /\ active = NoHash /\ resend' = [resend EXCEPT ![r] = FALSE] /\ Goto(r, "hit")
  /\ UNCHANGED <<redis, user, guess, snap, held, history>>

Issue(r) ==
  /\ pc[r] = "issue"
  /\ active' = [code |-> r, attempts |-> 0, live |-> TRUE, cooling |-> TRUE]
  /\ Goto(r, "send")
  /\ UNCHANGED <<block, tickets, count, timed, user, locals, history>>

Send(r) ==
  /\ pc[r] = "send"
  /\ Goto(r, "sent") \/ Goto(r, "refused")
  /\ UNCHANGED <<redis, user, locals, history>>

---------------------------------------------------------------------------
\* verifyOtp

ReadCode(v) ==
  /\ pc[v] = "read"
  /\ snap' = [snap EXCEPT ![v] = active]
  /\ Goto(v, IF active = NoHash THEN "refused" ELSE IF active.live THEN "try" ELSE "clear")
  /\ UNCHANGED <<redis, user, resend, guess, held, history>>

\* The deletion of an expired hash hits whatever is there by then.
Clear(v) ==
  /\ pc[v] = "clear"
  /\ active' = NoHash
  /\ Goto(v, "refused")
  /\ UNCHANGED <<block, tickets, count, timed, user, locals, history>>

\* A comparison with the code that is active at this moment is counted.
Compared(v) ==
  IF active.code # None /\ active.code = snap[v].code
  THEN guesses' = [guesses EXCEPT ![snap[v].code] = @ + 1] ELSE UNCHANGED guesses

\* Mutant of Try: the attempts that the hash had when it was read are counted on.
TryStale(v) ==
  /\ pc[v] = "try"
  /\ active' = [active EXCEPT !.attempts = snap[v].attempts + 1]
  /\ \/ snap[v].attempts >= MaxAttempts /\ Goto(v, "kill") /\ UNCHANGED guesses
     \/ /\ snap[v].attempts < MaxAttempts /\ Compared(v)
        /\ Goto(v, IF guess[v] = snap[v].code THEN "grant" ELSE "refused")
  /\ UNCHANGED <<block, tickets, count, timed, user, locals, hits, spent, late, stuck>>

\* HINCRBY, and the comparison of the hash that was read before.
Try(v) ==
  /\ pc[v] = "try"
  /\ active' = [active EXCEPT !.attempts = @ + 1]
  /\ \/ active.attempts >= MaxAttempts /\ Goto(v, "kill") /\ UNCHANGED guesses
     \/ /\ active.attempts < MaxAttempts /\ Compared(v)
        /\ Goto(v, IF guess[v] = snap[v].code THEN "grant" ELSE "refused")
  /\ UNCHANGED <<block, tickets, count, timed, user, locals, hits, spent, late, stuck>>

Kill(v) ==
  /\ pc[v] = "kill"
  /\ active' = NoHash /\ block' = TRUE
  /\ spent' = spent \cup ({active.code} \ {None})
  /\ Goto(v, "refused")
  /\ UNCHANGED <<tickets, count, timed, user, locals, hits, guesses, late, stuck>>

\* Mutant of Grant: the code stays.
GrantKeeps(v) ==
  /\ pc[v] = "grant"
  /\ tickets' = tickets \cup {v} /\ Goto(v, "ticket")
  /\ spent' = spent \cup ({snap[v].code, active.code} \ {None})
  /\ UNCHANGED <<active, block, count, timed, user, locals, hits, guesses, late, stuck>>

\* Mutant of Grant: the ticket is stored under the code, not under its own id.
GrantByCode(v) ==
  /\ pc[v] = "grant"
  /\ active' = NoHash /\ tickets' = tickets \cup {guess[v]}
  /\ spent' = spent \cup ({snap[v].code, active.code} \ {None})
  /\ Goto(v, "ticket")
  /\ UNCHANGED <<block, count, timed, user, locals, hits, guesses, late, stuck>>

Grant(v) ==
  /\ pc[v] = "grant"
  /\ active' = NoHash /\ tickets' = tickets \cup {v}
  /\ spent' = spent \cup ({snap[v].code, active.code} \ {None})
  /\ Goto(v, "ticket")
  /\ UNCHANGED <<block, count, timed, user, locals, hits, guesses, late, stuck>>

---------------------------------------------------------------------------
\* setPassword: the ticket is consumed before the password is looked at.

\* Mutant of Redeem: GET, with the DEL forgotten.
RedeemKeeps(s) ==
  /\ pc[s] = "start"
  /\ \E t \in {v \in Verifiers : pc[v] = "ticket"} :
       /\ held' = [held EXCEPT ![s] = t]
       /\ Goto(s, IF t \in tickets THEN "password" ELSE "refused")
  /\ UNCHANGED <<redis, user, resend, guess, snap, history>>

Redeem(s) ==
  /\ pc[s] = "start"
  /\ \E t \in {v \in Verifiers : pc[v] = "ticket"} :
       /\ held' = [held EXCEPT ![s] = t]
       /\ tickets' = tickets \ {t}
       /\ Goto(s, IF t \in tickets THEN "password" ELSE "refused")
  /\ UNCHANGED <<active, block, count, timed, user, resend, guess, snap, history>>

\* A weak password is refused; the upsert looks for the row first.
FindUser(s) ==
  /\ pc[s] = "password"
  /\ Goto(s, "refused") \/ Goto(s, IF user = None THEN "insert" ELSE "update")
  /\ UNCHANGED <<redis, user, locals, history>>

\* Of two inserts the unique index lets one through, the other updates.  The
\* name generated for the user may clash as well, and that is an error.
InsertUser(s) ==
  /\ pc[s] = "insert"
  /\ \/ user = None /\ user' = s /\ Goto(s, "set")
     \/ user # None /\ Goto(s, "update") /\ UNCHANGED user
     \/ Goto(s, "refused") /\ UNCHANGED user
  /\ UNCHANGED <<redis, locals, history>>

UpdateUser(s) ==
  /\ pc[s] = "update"
  /\ user' = s /\ Goto(s, "set")
  /\ UNCHANGED <<redis, locals, history>>

---------------------------------------------------------------------------
\* Time, failures and crashes.

\* `exp` passes before, or a little after, Redis drops the hash.
Age ==
  /\ active.live /\ active' = [active EXCEPT !.live = FALSE, !.cooling = FALSE]
  /\ UNCHANGED <<block, tickets, count, timed, user, pc, locals, history>>
Evict ==
  /\ active.code # None /\ active' = NoHash
  /\ UNCHANGED <<block, tickets, count, timed, user, pc, locals, history>>
CoolDown ==
  /\ active.cooling /\ active' = [active EXCEPT !.cooling = FALSE]
  /\ UNCHANGED <<block, tickets, count, timed, user, pc, locals, history>>
Unblock ==
  /\ block /\ block' = FALSE
  /\ UNCHANGED <<active, tickets, count, timed, user, pc, locals, history>>
ExpireTicket(t) ==
  /\ t \in tickets /\ tickets' = tickets \ {t}
  /\ UNCHANGED <<active, block, count, timed, user, pc, locals, history>>
ExpireBucket(b) ==
  /\ timed[b]
  /\ timed' = [timed EXCEPT ![b] = FALSE] /\ count' = [count EXCEPT ![b] = 0]
  /\ hits' = [hits EXCEPT ![b] = 0]
  /\ UNCHANGED <<active, block, tickets, user, pc, locals, guesses, spent, late, stuck>>

Final == {"refused", "answered", "sent", "ticket", "set"}

\* The process dies, or a command fails and the request answers an error.
Fail(r) ==
  /\ pc[r] \notin Final \cup {"start"}
  /\ Goto(r, "refused")
  /\ stuck' = IF pc[r] = "expire" THEN stuck \cup {Bucket(r)} ELSE stuck
  /\ UNCHANGED <<redis, user, locals, hits, guesses, spent, late>>

Init ==
  /\ active = NoHash /\ block = FALSE /\ tickets = {} /\ user = None
  /\ count = [b \in Buckets |-> 0] /\ timed = [b \in Buckets |-> FALSE]
  /\ pc = [r \in Requests |-> "start"] /\ resend = [r \in Senders |-> FALSE]
  /\ guess = [v \in Verifiers |-> None] /\ snap = [v \in Verifiers |-> NoHash]
  /\ held = [s \in Setters |-> None]
  /\ hits = [b \in Buckets |-> 0] /\ guesses = [c \in Senders |-> 0]
  /\ spent = {} /\ late = {} /\ stuck = {}

SendStep(r) == BeginSend(r) \/ ReadActive(r) \/ Issue(r) \/ Send(r)
VerifyStep(v) == Begin(v) \/ ReadCode(v) \/ Clear(v) \/ Try(v) \/ Kill(v) \/ Grant(v)
SetStep(s) == Redeem(s) \/ FindUser(s) \/ InsertUser(s) \/ UpdateUser(s)

Next ==
  \/ \E r \in Senders \cup Verifiers : Hit(r) \/ ExpireHit(r) \/ CheckBlock(r)
  \/ \E r \in Senders : SendStep(r)
  \/ \E v \in Verifiers : VerifyStep(v)
  \/ \E s \in Setters : SetStep(s)
  \/ \E r \in Requests : Fail(r)
  \/ Age \/ Evict \/ CoolDown \/ Unblock
  \/ \E t \in Verifiers : ExpireTicket(t)
  \/ \E b \in Buckets : ExpireBucket(b)

Spec == Init /\ [][Next]_vars

---------------------------------------------------------------------------
\* Properties

\* Every variable stays in its type.
TypeOK ==
  /\ active \in Hash /\ block \in BOOLEAN /\ tickets \subseteq Verifiers
  /\ count \in [Buckets -> Nat] /\ timed \in [Buckets -> BOOLEAN]
  /\ user \in Setters \cup {None}
  /\ pc \in [Requests -> Common \cup Sending \cup Verifying \cup Setting]
  /\ \A r \in Requests :
       /\ r \in Senders => pc[r] \in Common \cup Sending
       /\ r \in Verifiers => pc[r] \in Common \cup Verifying
       /\ r \in Setters => pc[r] \in {"start", "refused"} \cup Setting
  /\ resend \in [Senders -> BOOLEAN]
  /\ guess \in [Verifiers -> Senders \cup {None}] /\ snap \in [Verifiers -> Hash]
  /\ held \in [Setters -> Verifiers \cup {None}]
  /\ hits \in [Buckets -> Nat] /\ guesses \in [Senders -> Nat]
  /\ spent \subseteq Senders /\ late \subseteq Verifiers /\ stuck \subseteq Buckets

\* A fixed window admits no more requests than its limit, whatever overlaps,
\* fails between INCR and EXPIRE, or comes back for a second hit as a resend
\* without an active code does.  And the window will end: a bucket that counts
\* has a TTL, or gets one, unless a request died between INCR and EXPIRE.
WindowBound ==
  \A b \in Buckets :
    /\ hits[b] <= MaxHits[b]
    /\ count[b] > 0 /\ b \notin stuck =>
         timed[b] \/ \E r \in Senders \cup Verifiers : pc[r] = "expire" /\ Bucket(r) = b

\* OTP_VERIFY_MAX: an active code is compared with at most that many guesses,
\* however the verifications overlap and the hash is replaced.
GuessesBounded == \A c \in Senders : guesses[c] <= MaxAttempts

\* A code that gave a ticket, or fell to the block, gives none to a
\* verification that starts later, even when older ones are still under way.
SpentStaysSpent == \A v \in late : pc[v] # "ticket"

\* "One-time ticket": of the requests that hold the same ticket, at most one
\* gets past its consumption.
TicketOnce ==
  LET Past(s) == pc[s] \in {"password", "insert", "update", "set"} IN
  \A p, q \in Setters : Past(p) /\ Past(q) /\ held[p] = held[q] => p = q

=============================================================================
