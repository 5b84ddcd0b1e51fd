-------------------------- MODULE OtpTicketProofs --------------------------
(***************************************************************************)
(* Theorems about OtpTicket for any number of requests and any limits:     *)
(* type correctness, the bound of the rate-limit window, the bound of the  *)
(* guesses at a code, and that codes and tickets are used up for good.     *)
(***************************************************************************)
EXTENDS OtpTicket, TLAPS

Labels == Common \cup Sending \cup Verifying \cup Setting

\* Where a request may be, by its kind.
Fits(r, l) ==
  /\ l \in Labels
  /\ r \in Senders => l \in Common \cup Sending
  /\ r \in Verifiers => l \in Common \cup Verifying
  /\ r \in Setters => l \in {"start", "refused"} \cup Setting

LEMMA Move ==
  ASSUME TypeOK, NEW r \in Requests, NEW l, Fits(r, l), Goto(r, l)
  PROVE  /\ pc' \in [Requests -> Labels]
         /\ \A q \in Requests : Fits(q, pc'[q])
BY DEF TypeOK, Fits, Goto, Labels

\* TypeOK, in two halves: the program counters and the rest.
PcOK == pc \in [Requests -> Labels] /\ \A r \in Requests : Fits(r, pc[r])
DataOK ==
  /\ active \in Hash /\ block \in BOOLEAN /\ tickets \subseteq Verifiers
  /\ count \in [Buckets -> Nat] /\ timed \in [Buckets -> BOOLEAN]
  /\ user \in Setters \cup {None}
  /\ resend \in [Senders -> BOOLEAN]
  /\ guess \in [Verifiers -> Senders \cup {None}] /\ snap \in [Verifiers -> Hash]
  /\ held \in [Setters -> Verifiers \cup {None}]
  /\ hits \in [Buckets -> Nat] /\ guesses \in [Senders -> Nat]
  /\ spent \subseteq Senders /\ late \subseteq Verifiers /\ stuck \subseteq Buckets

LEMMA Halves == TypeOK <=> PcOK /\ DataOK
BY DEF TypeOK, PcOK, DataOK, Fits, Labels, Requests

LEMMA NoHashType == NoHash \in Hash
BY DEF NoHash, Hash

LEMMA TInit == Init => TypeOK
<1> SUFFICES ASSUME Init PROVE PcOK /\ DataOK
  BY Halves
<1>1. PcOK
  BY DEF Init, PcOK, Fits, Common, Labels
<1>2. DataOK
  BY NoHashType DEF Init, DataOK
<1> QED
  BY <1>1, <1>2

\* Where the program counter goes.
LEMMA PcStep == TypeOK /\ [Next]_vars => PcOK'
<1> SUFFICES ASSUME TypeOK, [Next]_vars PROVE PcOK'
  OBVIOUS
<1> USE Halves DEF PcOK, Requests
<1>1. CASE pc' = pc
  BY <1>1
<1>2. ASSUME NEW r \in Senders \cup Verifiers, Hit(r) \/ ExpireHit(r) \/ CheckBlock(r)
      PROVE  PcOK'
  <2>1. \E l \in {"expire", "read", "block", "refused"} : Goto(r, l)
    BY <1>2 DEF Hit, ExpireHit, CheckBlock, Admitted
  <2>2. \A l \in {"expire", "read", "block", "refused"} : Fits(r, l)
    BY OtpConstants DEF Fits, Common, Labels
  <2> QED
    BY <2>1, <2>2, Move
<1>3. ASSUME NEW r \in Senders, SendStep(r)
      PROVE  PcOK'
  <2>1. \E l \in {"hit", "answered", "issue", "send", "sent", "refused"} : Goto(r, l)
    BY <1>3 DEF SendStep, BeginSend, ReadActive, Issue, Send
  <2>2. \A l \in {"hit", "answered", "issue", "send", "sent", "refused"} : Fits(r, l)
    BY OtpConstants DEF Fits, Common, Sending, Labels
  <2> QED
    BY <2>1, <2>2, Move
<1>4. ASSUME NEW v \in Verifiers, VerifyStep(v)
      PROVE  PcOK'
  <2>1. \E l \in {"hit", "refused", "try", "clear", "kill", "grant", "ticket"} : Goto(v, l)
    BY <1>4 DEF VerifyStep, Begin, ReadCode, Clear, Try, Kill, Grant
  <2>2. \A l \in {"hit", "refused", "try", "clear", "kill", "grant", "ticket"} : Fits(v, l)
    BY OtpConstants DEF Fits, Common, Verifying, Labels
  <2> QED
    BY <2>1, <2>2, Move
<1>5. ASSUME NEW s \in Setters, SetStep(s)
      PROVE  PcOK'
  <2>1. \E l \in {"password", "refused", "insert", "update", "set"} : Goto(s, l)
    BY <1>5 DEF SetStep, Redeem, FindUser, InsertUser, UpdateUser
  <2>2. \A l \in {"password", "refused", "insert", "update", "set"} : Fits(s, l)
    BY OtpConstants DEF Fits, Common, Setting, Labels
  <2> QED
    BY <2>1, <2>2, Move
<1>6. ASSUME NEW r \in Requests, Fail(r)
      PROVE  PcOK'
  BY <1>6, Move DEF Fail, Fits, Common, Labels
<1> QED
  BY <1>1, <1>2, <1>3, <1>4, <1>5, <1>6
     DEF Next, vars, Age, Evict, CoolDown, Unblock, ExpireTicket, ExpireBucket

LEMMA DataStep == TypeOK /\ [Next]_vars => DataOK'
<1> SUFFICES ASSUME TypeOK, [Next]_vars PROVE DataOK'
  OBVIOUS
<1> USE Halves DEF DataOK, redis, locals, history
<1>1. CASE UNCHANGED vars
  BY <1>1 DEF vars
<1>2. ASSUME NEW r \in Senders \cup Verifiers, Hit(r) \/ ExpireHit(r) \/ CheckBlock(r)
      PROVE  DataOK'
  <2>1. Bucket(r) \in Buckets
    BY DEF Bucket, Buckets
  <2>2. CASE Hit(r)
    <3>1. count' \in [Buckets -> Nat] /\ hits' \in [Buckets -> Nat]
      BY <2>1, <2>2 DEF Hit
    <3> QED
      BY <2>2, <3>1 DEF Hit
  <2>3. CASE ExpireHit(r)
    BY <2>1, <2>3 DEF ExpireHit
  <2>4. CASE CheckBlock(r)
    BY <2>4 DEF CheckBlock
  <2> QED
    BY <1>2, <2>2, <2>3, <2>4
<1>3. ASSUME NEW r \in Senders, SendStep(r)
      PROVE  DataOK'
  <2>1. CASE BeginSend(r)
    BY <2>1 DEF BeginSend
  <2>2. CASE ReadActive(r)
    BY <2>2 DEF ReadActive
  <2>3. CASE Issue(r)
    <3>1. active' \in Hash
      BY <2>3 DEF Issue, Hash
    <3> QED
      BY <2>3, <3>1 DEF Issue
  <2>4. CASE Send(r)
    BY <2>4 DEF Send
  <2> QED
    BY <1>3, <2>1, <2>2, <2>3, <2>4 DEF SendStep
<1>4. ASSUME NEW v \in Verifiers, VerifyStep(v)
      PROVE  DataOK'
  <2>1. CASE Begin(v)
    BY <2>1 DEF Begin
  <2>2. CASE ReadCode(v)
    BY <2>2 DEF ReadCode
  <2>3. CASE Clear(v)
    BY <2>3, NoHashType DEF Clear
  <2>4. CASE Try(v)
    <3>1. active' \in Hash
      BY <2>4 DEF Try, Hash
    <3>2. guesses' \in [Senders -> Nat]
      BY <2>4 DEF Try, Compared, Hash
    <3> QED
      BY <2>4, <3>1, <3>2 DEF Try
  <2>5. CASE Kill(v)
    BY <2>5, NoHashType DEF Kill, Hash
  <2>6. CASE Grant(v)
    BY <2>6, NoHashType DEF Grant, Hash
  <2> QED
    BY <1>4, <2>1, <2>2, <2>3, <2>4, <2>5, <2>6 DEF VerifyStep
<1>5. ASSUME NEW s \in Setters, SetStep(s)
      PROVE  DataOK'
  BY <1>5 DEF SetStep, Redeem, FindUser, InsertUser, UpdateUser
<1>6. ASSUME NEW r \in Requests, Fail(r)
      PROVE  DataOK'
  BY <1>6 DEF Fail, Bucket, Buckets
<1>7. CASE Age \/ Evict \/ CoolDown \/ Unblock
  BY <1>7, NoHashType DEF Age, Evict, CoolDown, Unblock, Hash
<1>8. CASE \/ \E t \in Verifiers : ExpireTicket(t)
           \/ \E b \in Buckets : ExpireBucket(b)
  <2>1. ASSUME NEW t \in Verifiers, ExpireTicket(t) PROVE DataOK'
    BY <2>1 DEF ExpireTicket
  <2>2. ASSUME NEW b \in Buckets, ExpireBucket(b) PROVE DataOK'
    BY <2>2 DEF ExpireBucket
  <2> QED
    BY <1>8, <2>1, <2>2
<1> QED
  BY <1>1, <1>2, <1>3, <1>4, <1>5, <1>6, <1>7, <1>8 DEF Next

\* Every variable stays in its type.
THEOREM TypeCorrect == Spec => []TypeOK
<1>1. TypeOK /\ [Next]_vars => TypeOK'
  BY PcStep, DataStep, Halves DEF TypeOK, PcOK, DataOK, Fits, Labels, Requests
<1> QED
  BY <1>1, TInit, PTL DEF Spec

---------------------------------------------------------------------------
\* The window: what was admitted is in the count.
WInv == \A b \in Buckets : hits[b] <= MaxHits[b] /\ hits[b] <= count[b]

LEMMA WStep == TypeOK /\ WInv /\ [Next]_vars => WInv'
<1> SUFFICES ASSUME TypeOK, WInv, [Next]_vars PROVE WInv'
  OBVIOUS
<1>1. hits \in [Buckets -> Nat] /\ count \in [Buckets -> Nat] /\ MaxHits \in [Buckets -> Nat \ {0}]
  BY OtpConstants DEF TypeOK
<1>2. CASE UNCHANGED <<hits, count>>
  BY <1>2 DEF WInv
<1>3. ASSUME NEW r \in Senders \cup Verifiers, Hit(r) PROVE WInv'
  <2>1. Bucket(r) \in Buckets
    BY DEF Bucket, Buckets
  <2> QED
    BY <1>1, <1>3, <2>1 DEF Hit, WInv
<1>4. ASSUME NEW b \in Buckets, ExpireBucket(b) PROVE WInv'
  BY <1>1, <1>4 DEF ExpireBucket, WInv
<1> QED
  BY <1>2, <1>3, <1>4
     DEF Next, vars, redis, locals, history, ExpireHit, CheckBlock, SendStep, BeginSend,
         ReadActive, Issue, Send, VerifyStep, Begin, ReadCode, Clear, Try, Kill, Grant,
         SetStep, Redeem, FindUser, InsertUser, UpdateUser, Fail, Age, Evict, CoolDown,
         Unblock, ExpireTicket

\* The end of the window: who counts it first is on the way to give it a TTL.
Dated(b) ==
  count[b] > 0 /\ b \notin stuck =>
    timed[b] \/ \E r \in Senders \cup Verifiers : pc[r] = "expire" /\ Bucket(r) = b
DInv == \A b \in Buckets : Dated(b)

\* Nothing else touches a bucket, or who is about to date it.
LEMMA DatedKept ==
  ASSUME DInv, UNCHANGED <<count, timed, stuck>>,
         \A r \in Senders \cup Verifiers : pc[r] = "expire" => pc'[r] = "expire"
  PROVE  DInv'
BY DEF DInv, Dated, Bucket

LEMMA DStep == TypeOK /\ DInv /\ [Next]_vars => DInv'
<1> SUFFICES ASSUME TypeOK, DInv, [Next]_vars PROVE DInv'
  OBVIOUS
<1> USE DEF Goto, Requests
<1>0. /\ pc \in [Requests -> Common \cup Sending \cup Verifying \cup Setting]
      /\ count \in [Buckets -> Nat] /\ timed \in [Buckets -> BOOLEAN]
  BY DEF TypeOK
<1>1. CASE UNCHANGED <<count, timed, stuck, pc>>
  BY <1>1, DatedKept
<1>2. ASSUME NEW r \in Senders \cup Verifiers, Hit(r) PROVE DInv'
  <2>1. Bucket(r) \in Buckets /\ UNCHANGED <<timed, stuck>> /\ pc[r] = "hit"
    BY <1>2 DEF Bucket, Buckets, Hit
  <2>2. \A q \in Senders \cup Verifiers : pc[q] = "expire" => pc'[q] = "expire"
    BY <1>0, <1>2 DEF Hit
  <2>3. \A b \in Buckets \ {Bucket(r)} : count'[b] = count[b]
    BY <1>0, <1>2 DEF Hit
  <2>4. Dated(Bucket(r))'
    <3>1. CASE count[Bucket(r)] = 0
      <4>1. pc'[r] = "expire"
        BY <1>0, <1>2, <2>1, <3>1 DEF Hit
      <4> QED
        BY <4>1 DEF Dated, Bucket
    <3>2. CASE count[Bucket(r)] > 0
      BY <2>1, <2>2, <3>2 DEF DInv, Dated, Bucket
    <3> QED
      BY <1>0, <2>1, <3>1, <3>2
  <2>5. ASSUME NEW b \in Buckets \ {Bucket(r)} PROVE Dated(b)'
    BY <2>1, <2>2, <2>3 DEF DInv, Dated, Bucket
  <2> QED
    BY <2>4, <2>5 DEF DInv
<1>3. ASSUME NEW r \in Senders \cup Verifiers, ExpireHit(r) PROVE DInv'
  <2>1. Bucket(r) \in Buckets /\ UNCHANGED <<count, stuck>> /\ timed' = [timed EXCEPT ![Bucket(r)] = TRUE]
    BY <1>3 DEF Bucket, Buckets, ExpireHit, history
  <2>2. \A q \in Senders \cup Verifiers : q # r => pc'[q] = pc[q]
    BY <1>0, <1>3 DEF ExpireHit
  <2>3. ASSUME NEW b \in Buckets PROVE Dated(b)'
    BY <1>0, <2>1, <2>2 DEF DInv, Dated, Bucket
  <2> QED
    BY <2>3 DEF DInv
<1>4. ASSUME NEW r \in Requests, Fail(r) PROVE DInv'
  <2>1. UNCHANGED <<count, timed>> /\ stuck \subseteq stuck'
        /\ (pc[r] = "expire" => Bucket(r) \in stuck')
    BY <1>4 DEF Fail, redis
  <2>2. \A q \in Senders \cup Verifiers : q # r => pc'[q] = pc[q]
    BY <1>0, <1>4 DEF Fail
  <2>3. ASSUME NEW b \in Buckets PROVE Dated(b)'
    BY <2>1, <2>2 DEF DInv, Dated, Bucket
  <2> QED
    BY <2>3 DEF DInv
<1>5. ASSUME NEW b \in Buckets, ExpireBucket(b) PROVE DInv'
  <2>1. UNCHANGED <<stuck, pc>> /\ count' = [count EXCEPT ![b] = 0] /\ timed' = [timed EXCEPT ![b] = FALSE]
    BY <1>5 DEF ExpireBucket
  <2>2. ASSUME NEW c \in Buckets PROVE Dated(c)'
    BY <1>0, <2>1 DEF DInv, Dated, Bucket
  <2> QED
    BY <2>2 DEF DInv
<1>6. ASSUME NEW r \in Senders \cup Verifiers, CheckBlock(r) PROVE DInv'
  BY <1>0, <1>6, DatedKept DEF CheckBlock, redis, history
<1>7. ASSUME NEW r \in Senders, SendStep(r) PROVE DInv'
  BY <1>0, <1>7, DatedKept DEF SendStep, BeginSend, ReadActive, Issue, Send, redis, history
<1>8. ASSUME NEW v \in Verifiers, VerifyStep(v) PROVE DInv'
  BY <1>0, <1>8, DatedKept DEF VerifyStep, Begin, ReadCode, Clear, Try, Kill, Grant, redis, history
<1>9. ASSUME NEW s \in Setters, SetStep(s) PROVE DInv'
  BY <1>0, <1>9, DatedKept DEF SetStep, Redeem, FindUser, InsertUser, UpdateUser, redis, history
<1> QED
  BY <1>1, <1>2, <1>3, <1>4, <1>5, <1>6, <1>7, <1>8, <1>9
     DEF Next, vars, redis, history, Age, Evict, CoolDown, Unblock, ExpireTicket

\* A fixed window admits no more requests than its limit, whatever overlaps or
\* fails between INCR and EXPIRE; and it will end, unless a request died there.
THEOREM WindowHolds == Spec => []WindowBound
<1>1. Init => WInv /\ DInv
  BY OtpConstants DEF Init, WInv, DInv, Dated
<1>2. WInv /\ DInv => WindowBound
  BY DEF WInv, DInv, Dated, WindowBound
<1> QED
  BY <1>1, <1>2, WStep, DStep, TypeCorrect, PTL DEF Spec

---------------------------------------------------------------------------
\* The guesses: each is in the attempts of the hash of its code.
Unissued == {"start", "hit", "expire", "block", "read", "issue"}

GInv ==
  \A c \in Senders :
    /\ guesses[c] <= MaxAttempts
    /\ active.code = c => guesses[c] <= active.attempts
    /\ pc[c] \in Unissued => guesses[c] = 0 /\ active.code # c

\* Nobody who is past the issue of a code goes back.
LEMMA IssuedStays ==
  ASSUME TypeOK, [Next]_vars, NEW c \in Senders, pc'[c] \in Unissued
  PROVE  pc[c] \in Unissued /\ ~Issue(c)
<1> USE OtpConstants DEF Unissued, Requests, Goto
<1>0. pc \in [Requests -> Common \cup Sending \cup Verifying \cup Setting]
  BY DEF TypeOK
<1>1. CASE pc' = pc
  BY <1>0, <1>1 DEF Issue
<1>2. ASSUME NEW r \in Senders \cup Verifiers, Hit(r) \/ ExpireHit(r) \/ CheckBlock(r)
      PROVE  pc[c] \in Unissued /\ ~Issue(c)
  BY <1>0, <1>2 DEF Hit, ExpireHit, CheckBlock, Admitted, Issue
<1>3. ASSUME NEW r \in Senders, SendStep(r)
      PROVE  pc[c] \in Unissued /\ ~Issue(c)
  BY <1>0, <1>3 DEF SendStep, BeginSend, ReadActive, Issue, Send
<1>4. ASSUME NEW v \in Verifiers, VerifyStep(v)
      PROVE  pc[c] \in Unissued /\ ~Issue(c)
  BY <1>0, <1>4 DEF VerifyStep, Begin, ReadCode, Clear, Try, Kill, Grant, Issue
<1>5. ASSUME NEW s \in Setters, SetStep(s)
      PROVE  pc[c] \in Unissued /\ ~Issue(c)
  BY <1>0, <1>5 DEF SetStep, Redeem, FindUser, InsertUser, UpdateUser, Issue
<1>6. ASSUME NEW r \in Requests, Fail(r)
      PROVE  pc[c] \in Unissued /\ ~Issue(c)
  BY <1>0, <1>6 DEF Fail, Issue
<1> QED
  BY <1>1, <1>2, <1>3, <1>4, <1>5, <1>6
     DEF Next, vars, Age, Evict, CoolDown, Unblock, ExpireTicket, ExpireBucket

Drops == active' = NoHash
Ages == active'.code = active.code /\ active'.attempts = active.attempts

\* What a step does to the active code and to the codes used up.
LEMMA ActiveStep ==
  ASSUME TypeOK, [Next]_vars
  PROVE  \/ UNCHANGED <<active, guesses, spent>>
         \/ (Drops \/ Ages) /\ UNCHANGED <<guesses, spent>>
         \/ \E r \in Senders : Issue(r)
         \/ \E v \in Verifiers : Try(v)
         \/ (\E v \in Verifiers : Kill(v) \/ Grant(v)) /\ Drops /\ UNCHANGED guesses
<1> USE DEF redis, locals, history
<1>1. CASE UNCHANGED vars
  BY <1>1 DEF vars
<1>2. ASSUME NEW r \in Senders \cup Verifiers, Hit(r) \/ ExpireHit(r) \/ CheckBlock(r)
      PROVE  UNCHANGED <<active, guesses, spent>>
  BY <1>2 DEF Hit, ExpireHit, CheckBlock
<1>3. ASSUME NEW r \in Senders, SendStep(r)
      PROVE  UNCHANGED <<active, guesses, spent>> \/ Issue(r)
  BY <1>3 DEF SendStep, BeginSend, ReadActive, Send
<1>4. ASSUME NEW v \in Verifiers, VerifyStep(v)
      PROVE  \/ UNCHANGED <<active, guesses, spent>>
             \/ Drops /\ UNCHANGED <<guesses, spent>>
             \/ Try(v)
             \/ (Kill(v) \/ Grant(v)) /\ Drops /\ UNCHANGED guesses
  BY <1>4 DEF VerifyStep, Begin, ReadCode, Clear, Kill, Grant, Drops
<1>5. ASSUME NEW s \in Setters, SetStep(s)
      PROVE  UNCHANGED <<active, guesses, spent>>
  BY <1>5 DEF SetStep, Redeem, FindUser, InsertUser, UpdateUser
<1>6. ASSUME NEW r \in Requests, Fail(r)
      PROVE  UNCHANGED <<active, guesses, spent>>
  BY <1>6 DEF Fail
<1>7. CASE Age \/ CoolDown
  <2>1. active'.code = active.code /\ active'.attempts = active.attempts
    BY <1>7 DEF Age, CoolDown, TypeOK, Hash
  <2> QED
    BY <1>7, <2>1 DEF Age, CoolDown, Ages
<1>8. CASE \/ Evict \/ Unblock
           \/ \E t \in Verifiers : ExpireTicket(t)
           \/ \E b \in Buckets : ExpireBucket(b)
  BY <1>8 DEF Evict, Unblock, ExpireTicket, ExpireBucket, Drops
<1> QED
  BY <1>1, <1>2, <1>3, <1>4, <1>5, <1>6, <1>7, <1>8 DEF Next

LEMMA GStep == TypeOK /\ GInv /\ [Next]_vars => GInv'
<1> SUFFICES ASSUME TypeOK, GInv, [Next]_vars, NEW c \in Senders
             PROVE  /\ guesses'[c] <= MaxAttempts
                    /\ active'.code = c => guesses'[c] <= active'.attempts
                    /\ pc'[c] \in Unissued => guesses'[c] = 0 /\ active'.code # c
  BY DEF GInv
<1>0. /\ guesses \in [Senders -> Nat] /\ active \in Hash /\ MaxAttempts \in Nat
      /\ None \notin Senders
  BY OtpConstants DEF TypeOK
<1>1. pc'[c] \in Unissued => pc[c] \in Unissued /\ ~Issue(c)
  BY IssuedStays
<1>2. CASE UNCHANGED <<active, guesses, spent>>
  BY <1>1, <1>2 DEF GInv
<1>3. CASE (Drops \/ Ages) /\ UNCHANGED guesses
  BY <1>0, <1>1, <1>3 DEF GInv, Drops, Ages, NoHash
<1>4. ASSUME NEW r \in Senders, Issue(r)
      PROVE  /\ guesses'[c] <= MaxAttempts
             /\ active'.code = c => guesses'[c] <= active'.attempts
             /\ pc'[c] \in Unissued => guesses'[c] = 0 /\ active'.code # c
  <2>1. guesses' = guesses /\ active'.code = r /\ active'.attempts = 0 /\ pc[r] \in Unissued
    BY <1>4 DEF Issue, history, Unissued
  <2> QED
    BY <1>0, <1>1, <1>4, <2>1 DEF GInv
<1>5. ASSUME NEW v \in Verifiers, Try(v)
      PROVE  /\ guesses'[c] <= MaxAttempts
             /\ active'.code = c => guesses'[c] <= active'.attempts
             /\ pc'[c] \in Unissued => guesses'[c] = 0 /\ active'.code # c
  <2>1. active'.code = active.code /\ active'.attempts = active.attempts + 1 /\ active.attempts \in Nat
    BY <1>0, <1>5 DEF Try, Hash
  <2>2. CASE guesses' = guesses
    BY <1>0, <1>1, <2>1, <2>2 DEF GInv
  <2>3. CASE /\ active.attempts < MaxAttempts /\ active.code = snap[v].code /\ active.code # None
             /\ guesses' = [guesses EXCEPT ![snap[v].code] = @ + 1]
    BY <1>0, <1>1, <2>1, <2>3 DEF GInv
  <2> QED
    BY <1>5, <2>2, <2>3 DEF Try, Compared
<1> QED
  BY <1>2, <1>3, <1>4, <1>5, ActiveStep

\* An active code is compared with at most MaxAttempts guesses, however the
\* verifications overlap and the hash expires, is replaced and comes back.
THEOREM GuessesHold == Spec => []GuessesBounded
<1>1. Init => GInv
  BY OtpConstants DEF Init, GInv, NoHash
<1>2. GInv => GuessesBounded
  BY DEF GInv, GuessesBounded
<1> QED
  BY <1>1, <1>2, GStep, TypeCorrect, PTL DEF Spec

---------------------------------------------------------------------------
\* The codes used up: none is active, none comes back, and a verification
\* that began with one has not read it.
SInv ==
  /\ active.code \notin spent
  /\ \A c \in Senders : c \in spent \/ active.code = c => pc[c] \notin Unissued
  /\ \A v \in Verifiers : \A c \in Senders : snap[v].code = c => pc[c] \notin Unissued
  /\ \A v \in late :
       /\ guess[v] \in spent
       /\ pc[v] \notin {"start", "grant", "ticket"}
       /\ pc[v] = "try" => snap[v].code # guess[v]

\* The codes: the first three parts.
LEMMA CodesStep ==
  ASSUME TypeOK, SInv, [Next]_vars
  PROVE  /\ active'.code \notin spent' /\ spent \subseteq spent'
         /\ \A c \in Senders : c \in spent' \/ active'.code = c => pc'[c] \notin Unissued
<1>0. /\ active \in Hash /\ snap \in [Verifiers -> Hash] /\ None \notin Senders
      /\ spent \subseteq Senders /\ pc \in [Requests -> Common \cup Sending \cup Verifying \cup Setting]
  BY OtpConstants DEF TypeOK
<1>1. \A c \in Senders : pc'[c] \in Unissued => pc[c] \in Unissued /\ ~Issue(c)
  BY IssuedStays
<1>2. CASE UNCHANGED <<active, guesses, spent>>
  BY <1>1, <1>2 DEF SInv
<1>3. CASE (Drops \/ Ages) /\ UNCHANGED <<guesses, spent>>
  BY <1>0, <1>1, <1>3 DEF SInv, Drops, Ages, NoHash
<1>4. ASSUME NEW r \in Senders, Issue(r)
      PROVE  /\ active'.code \notin spent' /\ spent \subseteq spent'
             /\ \A c \in Senders : c \in spent' \/ active'.code = c => pc'[c] \notin Unissued
  <2>1. spent' = spent /\ active'.code = r /\ pc[r] \in Unissued
    BY <1>4 DEF Issue, history, Unissued
  <2> QED
    BY <1>0, <1>1, <1>4, <2>1 DEF SInv
<1>5. ASSUME NEW v \in Verifiers, Try(v)
      PROVE  /\ active'.code \notin spent' /\ spent \subseteq spent'
             /\ \A c \in Senders : c \in spent' \/ active'.code = c => pc'[c] \notin Unissued
  <2>1. spent' = spent /\ active'.code = active.code
    BY <1>0, <1>5 DEF Try, Hash
  <2> QED
    BY <1>1, <2>1 DEF SInv
<1>6. ASSUME NEW v \in Verifiers, Kill(v) \/ Grant(v)
      PROVE  /\ active'.code \notin spent' /\ spent \subseteq spent'
             /\ \A c \in Senders : c \in spent' \/ active'.code = c => pc'[c] \notin Unissued
  <2>1. /\ active'.code = None /\ None \notin spent' /\ spent \subseteq spent'
        /\ spent' \subseteq spent \cup {snap[v].code, active.code}
    BY <1>0, <1>6 DEF Kill, Grant, NoHash
  <2> QED
    BY <1>0, <1>1, <2>1 DEF SInv
<1> QED
  BY <1>2, <1>3, <1>4, <1>5, <1>6, ActiveStep
\* The verifications: what they have read was issued.
LEMMA SnapStep ==
  ASSUME TypeOK, SInv, [Next]_vars, NEW v \in Verifiers, NEW c \in Senders, snap'[v].code = c
  PROVE  pc'[c] \notin Unissued
<1>0. snap \in [Verifiers -> Hash]
  BY DEF TypeOK
<1>1. pc'[c] \in Unissued => pc[c] \in Unissued /\ ~Issue(c)
  BY IssuedStays
<1>2. CASE snap' = snap
  BY <1>1, <1>2 DEF SInv
<1>3. ASSUME NEW w \in Verifiers, ReadCode(w)
      PROVE  pc'[c] \notin Unissued
  <2>1. snap'[v] = snap[v] \/ snap'[v] = active
    BY <1>0, <1>3 DEF ReadCode
  <2> QED
    BY <1>1, <2>1 DEF SInv
<1> QED
  BY <1>2, <1>3
     DEF Next, vars, locals, Hit, ExpireHit, CheckBlock, SendStep, BeginSend, ReadActive,
         Issue, Send, VerifyStep, Begin, Clear, Try, Kill, Grant, SetStep, Redeem, FindUser,
         InsertUser, UpdateUser, Fail, Age, Evict, CoolDown, Unblock, ExpireTicket, ExpireBucket

Late(v) ==
  /\ guess[v] \in spent
  /\ pc[v] \notin {"start", "grant", "ticket"}
  /\ pc[v] = "try" => snap[v].code # guess[v]

\* A step of another request leaves a verification where it is.
LEMMA LateElsewhere ==
  ASSUME TypeOK, NEW v \in Verifiers, v \in late => Late(v), spent \subseteq spent',
         UNCHANGED <<guess, snap, late>>, pc'[v] \in {pc[v], "refused"}, v \in late'
  PROVE  Late(v)'
BY DEF Late

LEMMA LateStep ==
  ASSUME TypeOK, SInv, [Next]_vars, NEW v \in Verifiers, v \in late'
  PROVE  Late(v)'
<1> USE OtpConstants DEF Goto, Requests
<1>0. /\ pc \in [Requests -> Common \cup Sending \cup Verifying \cup Setting]
      /\ guess \in [Verifiers -> Senders \cup {None}] /\ snap \in [Verifiers -> Hash]
      /\ spent \subseteq Senders /\ late \subseteq Verifiers
  BY DEF TypeOK
<1>1. (v \in late => Late(v)) /\ spent \subseteq spent' /\ active.code \notin spent
  BY CodesStep DEF SInv, Late
<1>2. CASE UNCHANGED <<pc, guess, snap, late>>
  BY <1>1, <1>2, LateElsewhere
<1>3. ASSUME NEW r \in Senders \cup Verifiers, Hit(r) \/ ExpireHit(r) \/ CheckBlock(r)
      PROVE  Late(v)'
  <2>1. UNCHANGED <<guess, snap, late>> /\ pc'[v] \in {pc[v], "expire", "read", "block", "refused"}
    BY <1>0, <1>3 DEF Hit, ExpireHit, CheckBlock, Admitted, locals, history
  <2> QED
    BY <1>1, <2>1 DEF Late
<1>4. ASSUME NEW r \in Senders, SendStep(r)
      PROVE  Late(v)'
  <2>1. UNCHANGED <<guess, snap, late>> /\ pc'[v] = pc[v]
    BY <1>0, <1>4 DEF SendStep, BeginSend, ReadActive, Issue, Send, locals, history
  <2> QED
    BY <1>1, <2>1, LateElsewhere
<1>5. ASSUME NEW w \in Verifiers, w # v, VerifyStep(w)
      PROVE  Late(v)'
  <2>1. /\ guess'[v] = guess[v] /\ snap'[v] = snap[v] /\ pc'[v] = pc[v]
        /\ v \in late
    BY <1>0, <1>5 DEF VerifyStep, Begin, ReadCode, Clear, Try, Kill, Grant, locals, history
  <2> QED
    BY <1>1, <2>1 DEF Late
<1>6. CASE Begin(v)
  <2>1. /\ pc'[v] = "hit" /\ spent' = spent /\ v \notin late
        /\ guess'[v] \in spent
    BY <1>0, <1>1, <1>6 DEF Begin, Late
  <2> QED
    BY <2>1 DEF Late
<1>7. CASE ReadCode(v)
  <2>1. /\ snap'[v] = active /\ guess' = guess /\ spent' = spent /\ v \in late
        /\ pc'[v] \in {"refused", "try", "clear"}
    BY <1>0, <1>7 DEF ReadCode, history
  <2> QED
    BY <1>1, <2>1 DEF Late
<1>8. CASE Clear(v) \/ Try(v) \/ Kill(v) \/ Grant(v)
  <2>1. UNCHANGED <<guess, snap, late>>
    BY <1>8 DEF Clear, Try, Kill, Grant, locals, history
  <2>2. pc'[v] \in {"refused", "kill"}
    BY <1>0, <1>1, <1>8, <2>1 DEF Clear, Try, Kill, Grant, Late
  <2> QED
    BY <1>1, <2>1, <2>2 DEF Late
<1>9. ASSUME NEW s \in Setters, SetStep(s)
      PROVE  Late(v)'
  <2>1. UNCHANGED <<guess, snap, late>> /\ pc'[v] = pc[v]
    BY <1>0, <1>9 DEF SetStep, Redeem, FindUser, InsertUser, UpdateUser, locals, history
  <2> QED
    BY <1>1, <2>1, LateElsewhere
<1>10. ASSUME NEW r \in Requests, Fail(r)
      PROVE  Late(v)'
  <2>1. UNCHANGED <<guess, snap, late>> /\ pc'[v] \in {pc[v], "refused"}
    BY <1>0, <1>10 DEF Fail, locals, history
  <2> QED
    BY <1>1, <2>1, LateElsewhere
<1> QED
  BY <1>2, <1>3, <1>4, <1>5, <1>6, <1>7, <1>8, <1>9, <1>10
     DEF Next, vars, locals, history, VerifyStep, Age, Evict, CoolDown, Unblock,
         ExpireTicket, ExpireBucket

\* A code that gave a ticket, or fell to the block, gives none to a
\* verification that starts later.
THEOREM SpentHolds == Spec => []SpentStaysSpent
<1>1. Init => SInv
  BY OtpConstants DEF Init, SInv, NoHash
<1>2. TypeOK /\ SInv /\ [Next]_vars => SInv'
  <2> SUFFICES ASSUME TypeOK, SInv, [Next]_vars PROVE SInv'
    OBVIOUS
  <2>1. late' \subseteq Verifiers
    BY DataStep DEF DataOK
  <2> QED
    BY <2>1, CodesStep, SnapStep, LateStep DEF SInv, Late
<1>3. SInv => SpentStaysSpent
  BY DEF SInv, SpentStaysSpent
<1> QED
  BY <1>1, <1>2, <1>3, TypeCorrect, PTL DEF Spec

---------------------------------------------------------------------------
\* The tickets: who is past the consumption holds one that is gone.
Past(s) == pc[s] \in {"password", "insert", "update", "set"}

TkInv ==
  /\ TicketOnce
  /\ \A s \in Setters : Past(s) => pc[held[s]] = "ticket" /\ held[s] \in Verifiers \ tickets

LEMMA TkInit == Init => TkInv
BY DEF Init, TkInv, TicketOnce, Past, Requests

\* Steps other than the consumption: no setter gets past it, no ticket that
\* was given comes back.
LEMMA TkKeeps ==
  ASSUME TypeOK, TkInv, held' = held,
         \A s \in Setters : Past(s)' => Past(s),
         \A v \in Verifiers : pc[v] = "ticket" => pc'[v] = "ticket" /\ (v \in tickets' => v \in tickets)
  PROVE  TkInv'
BY DEF TkInv, TicketOnce, Past

LEMMA TkStep == TypeOK /\ TkInv /\ [Next]_vars => TkInv'
<1> SUFFICES ASSUME TypeOK, TkInv, [Next]_vars PROVE TkInv'
  OBVIOUS
<1> USE OtpConstants DEF Goto, Requests
<1>0. /\ pc \in [Requests -> Common \cup Sending \cup Verifying \cup Setting]
      /\ held \in [Setters -> Verifiers \cup {None}] /\ tickets \subseteq Verifiers
  BY DEF TypeOK
<1>1. CASE UNCHANGED <<pc, held>> /\ tickets' \subseteq tickets
  BY <1>1, TkKeeps DEF Past
<1>2. ASSUME NEW r \in Senders \cup Verifiers, Hit(r) \/ ExpireHit(r) \/ CheckBlock(r)
      PROVE  TkInv'
  BY <1>0, <1>2, TkKeeps DEF Hit, ExpireHit, CheckBlock, Past, locals, redis
<1>3. ASSUME NEW r \in Senders, SendStep(r)
      PROVE  TkInv'
  BY <1>0, <1>3, TkKeeps DEF SendStep, BeginSend, ReadActive, Issue, Send, Past, locals, redis
<1>4. ASSUME NEW w \in Verifiers, VerifyStep(w)
      PROVE  TkInv'
  <2>1. held' = held /\ pc[w] # "ticket" /\ tickets' \subseteq tickets \cup {w}
    BY <1>4 DEF VerifyStep, Begin, ReadCode, Clear, Try, Kill, Grant, locals, redis
  <2>2. \A s \in Setters : pc'[s] = pc[s]
    BY <1>0, <1>4 DEF VerifyStep, Begin, ReadCode, Clear, Try, Kill, Grant
  <2>3. \A v \in Verifiers : v # w => pc'[v] = pc[v]
    BY <1>0, <1>4 DEF VerifyStep, Begin, ReadCode, Clear, Try, Kill, Grant
  <2> QED
    BY <2>1, <2>2, <2>3, TkKeeps DEF Past
<1>5. ASSUME NEW s \in Setters, Redeem(s)
      PROVE  TkInv'
  <2>1. PICK t \in Verifiers : /\ pc[t] = "ticket" /\ held' = [held EXCEPT ![s] = t]
                               /\ tickets' = tickets \ {t}
                               /\ pc' = [pc EXCEPT ![s] = IF t \in tickets THEN "password" ELSE "refused"]
    BY <1>5 DEF Redeem
  <2>2. \A v \in Verifiers : pc'[v] = pc[v]
    BY <1>0, <2>1
  <2>3. \A q \in Setters : q # s => pc'[q] = pc[q] /\ held'[q] = held[q]
    BY <1>0, <2>1
  <2>4. Past(s)' => t \in tickets /\ held'[s] = t
    BY <1>0, <2>1 DEF Past
  <2>5. \A q \in Setters : q # s /\ Past(q)' => Past(q) /\ held'[q] = held[q]
    BY <2>3 DEF Past
  <2>6. \A q \in Setters : Past(q)' => pc'[held'[q]] = "ticket" /\ held'[q] \in Verifiers \ tickets'
    BY <2>1, <2>2, <2>4, <2>5 DEF TkInv
  <2>7. \A q \in Setters : q # s /\ Past(q)' => held'[q] \notin tickets
    BY <2>5 DEF TkInv
  <2>8. \A p, q \in Setters : Past(p)' /\ Past(q)' /\ held'[p] = held'[q] => p = q
    BY <2>4, <2>5, <2>7 DEF TkInv, TicketOnce, Past
  <2> QED
    BY <2>6, <2>8 DEF TkInv, TicketOnce, Past
<1>6. ASSUME NEW s \in Setters, FindUser(s) \/ InsertUser(s) \/ UpdateUser(s)
      PROVE  TkInv'
  <2>1. Past(s) /\ UNCHANGED <<held, tickets>>
    BY <1>6 DEF FindUser, InsertUser, UpdateUser, Past, locals, redis
  <2>2. \A r \in Requests : r # s => pc'[r] = pc[r]
    BY <1>0, <1>6 DEF FindUser, InsertUser, UpdateUser
  <2> QED
    BY <2>1, <2>2, TkKeeps DEF Past
<1>7. ASSUME NEW r \in Requests, Fail(r)
      PROVE  TkInv'
  BY <1>0, <1>7, TkKeeps DEF Fail, Past, Final, locals, redis
<1> QED
  BY <1>1, <1>2, <1>3, <1>4, <1>5, <1>6, <1>7
     DEF Next, vars, redis, locals, SetStep, Age, Evict, CoolDown, Unblock, ExpireTicket, ExpireBucket

\* Of the requests that hold the same ticket, at most one gets past its
\* consumption.
THEOREM TicketHolds == Spec => []TicketOnce
<1>1. TkInv => TicketOnce
  BY DEF TkInv
<1> QED
  BY <1>1, TkInit, TkStep, TypeCorrect, PTL DEF Spec
=============================================================================
