------------------------- MODULE AuthSessionProofs -------------------------
(***************************************************************************)
(* Proofs about AuthSession, for any logins, refreshes and callers.        *)
(*                                                                         *)
(* A session is held by the token that is live or by the request that is   *)
(* about to replace it.  Every step hands it on (Consume, SetAllow), lets  *)
(* it go for a reason that the history records, or leaves it alone; so all *)
(* of SingleUse, OneHolder, SignedInStays and Found are consequences of    *)
(* what happens to Holders, and of where tokens come from (Minted, Live).  *)
(***************************************************************************)
EXTENDS AuthSession, TLAPS

LoginPc == {"start", "load", "set", "link", "ok", "refused", "crashed"}
RefreshPc == LoginPc \cup {"consume", "blacklist", "unlink"}
CallerPc == {"start", "blacklist", "unlink", "left", "readJtis", "revoke", "revoked",
             "touch", "done", "list", "heal"}

Places ==
  /\ pc \in [Requests -> RefreshPc \cup CallerPc]
  /\ \A l \in Logins : pc[l] \in LoginPc
  /\ \A r \in Refreshers : pc[r] \in RefreshPc
  /\ \A c \in Callers : pc[c] \in CallerPc

Shapes ==
  /\ allow \subseteq Tokens /\ black \subseteq Tokens /\ issued \subseteq Tokens
  /\ record \subseteq Logins /\ index \subseteq Logins /\ recent \subseteq Logins
  /\ mishap \subseteq Logins /\ ended \subseteq Logins
  /\ jtis \in [Logins -> SUBSET Tokens]
  /\ token \in [Requests -> Tokens \cup {None}] /\ sid \in [Tokens -> Logins \cup {None}]
  /\ sids \in [Callers -> SUBSET Logins] /\ seen \in [Callers -> SUBSET Tokens]

\* Where the session of a token comes from.
Minted ==
  /\ \A l \in Logins : pc[l] # "start" => sid[l] = l
  /\ \A r \in Refreshers : pc[r] # "start" => token[r] \in issued /\ sid[r] = sid[token[r]]
  /\ \A t \in Tokens : pc[t] # "start" => sid[t] \in Logins /\ pc[sid[t]] # "start"
  /\ \A t \in Tokens : sid[t] \in Logins => pc[t] # "start"

\* Where the request of a token is by the time it is given out, or live.
Alive ==
  /\ \A t \in issued : pc[t] = "ok"
  /\ \A t \in allow : pc[t] \in {"link", "ok", "crashed"}

\* A logout or a revoke has begun to end what it is about to delete.
Ending ==
  \A c \in Callers :
    /\ pc[c] \in {"blacklist", "unlink", "left"} => token[c] \in issued /\ sid[token[c]] \in ended
    /\ pc[c] \in {"readJtis", "revoke"} => sids[c] \subseteq ended
    /\ pc[c] = "revoke" => \A t \in seen[c] : sid[t] \in sids[c]

Linked == \A s \in Logins : \A t \in jtis[s] : sid[t] = s

Base == Places /\ Shapes /\ Minted /\ Alive /\ Ending /\ Linked

\* Refreshes that have consumed their token.
Spent(r) == pc[r] \in {"blacklist", "unlink", "load", "set", "link", "ok"}
SpentOnce ==
  /\ \A r \in Refreshers : Spent(r) => token[r] \notin allow
  /\ \A q, r \in Refreshers : Spent(q) /\ Spent(r) /\ token[q] = token[r] => q = r

Held ==
  \A s \in Logins : pc[s] \in {"load", "set", "link", "ok"} /\ s \notin mishap \cup ended
                      => Holders(s) # {}

\* The first half of Findable.
Found ==
  \A t \in allow : sid[t] \notin mishap \cup ended /\ pc[t] = "ok" => t \in jtis[sid[t]]

IInv == Base /\ SpentOnce /\ OneHolder /\ Held /\ Found

LEMMA Sorts ==
  /\ Tokens = Logins \cup Refreshers /\ Requests = Tokens \cup Callers
  /\ \A t \in Tokens : t \notin Callers
  /\ \A c \in Callers : c \notin Tokens
  /\ \A l \in Logins : l \notin Refreshers
  /\ \A r \in Refreshers : r \notin Logins
  /\ None \notin Tokens /\ None \notin Logins
BY AuthConstants DEF Tokens, Requests

LEMMA InvFollow == IInv => SingleUse /\ OneHolder /\ SignedInStays /\ Found
<1> SUFFICES ASSUME IInv PROVE SingleUse /\ SignedInStays
  BY DEF IInv
<1>1. SingleUse
  BY DEF IInv, SpentOnce, Spent, SingleUse
<1>2. SignedInStays
  BY DEF IInv, Held, SignedInStays
<1> QED
  BY <1>1, <1>2

LEMMA InitInv == Init => IInv
<1> SUFFICES ASSUME Init PROVE IInv
  OBVIOUS
<1>1. Places /\ Shapes /\ Alive /\ Ending /\ Linked
  BY Sorts DEF Init, Places, Shapes, Alive, Ending, Linked, LoginPc, RefreshPc, CallerPc
<1>2. Minted
  BY Sorts DEF Init, Minted
<1>3. \A r \in Requests : pc[r] = "start"
  BY DEF Init
<1>4. SpentOnce /\ Held
  BY <1>3, Sorts DEF SpentOnce, Spent, Held
<1>5. OneHolder /\ Found
  BY <1>3, Sorts DEF Init, OneHolder, Found, Holders, Carries
<1> QED
  BY <1>1, <1>2, <1>4, <1>5 DEF IInv, Base

-----------------------------------------------------------------------------
(* What keeps the invariant *)

\* A token's session is its own, whether it came by a login or by a refresh.
LEMMA OwnSession ==
  ASSUME Base, NEW r \in Tokens, pc[r] # "start"
  PROVE  sid[r] = SessionOf(r) /\ SessionOf(r) \in Logins
BY Sorts DEF Base, Minted, SessionOf

LEMMA MintedKept ==
  ASSUME Base, sid' = sid, issued \subseteq issued',
         \A t \in Tokens : token'[t] = token[t] /\ (pc'[t] = "start" <=> pc[t] = "start")
  PROVE  Minted'
BY Sorts DEF Base, Minted, Shapes

\* The callers go on as they are while a token's request makes a step.
LEMMA EndingKept ==
  ASSUME Base, issued \subseteq issued', ended \subseteq ended', sids' = sids, seen' = seen,
         \A c \in Callers : pc'[c] = pc[c] /\ token'[c] = token[c],
         \A t \in Tokens : sid[t] \in Logins => sid'[t] = sid[t]
  PROVE  Ending'
<1> SUFFICES ASSUME NEW c \in Callers
    PROVE  /\ pc[c] \in {"blacklist", "unlink", "left"} => token[c] \in issued' /\ sid'[token[c]] \in ended'
           /\ pc[c] \in {"readJtis", "revoke"} => sids[c] \subseteq ended'
           /\ pc[c] = "revoke" => \A t \in seen[c] : sid'[t] \in sids[c]
  BY DEF Ending
<1>1. pc[c] \in {"blacklist", "unlink", "left"} => token[c] \in issued' /\ sid'[token[c]] \in ended'
  BY DEF Base, Ending, Shapes
<1>2. pc[c] = "revoke" => \A t \in seen[c] : sid'[t] \in sids[c]
  BY DEF Base, Ending, Shapes
<1> QED
  BY <1>1, <1>2 DEF Base, Ending

LEMMA LinkedKept ==
  ASSUME Base, \A s \in Logins : jtis'[s] \subseteq jtis[s],
         \A t \in Tokens : sid[t] \in Logins => sid'[t] = sid[t]
  PROVE  Linked'
<1> SUFFICES ASSUME NEW s \in Logins, NEW t \in jtis'[s] PROVE sid'[t] = s
  BY DEF Linked
<1>1. t \in jtis[s] /\ t \in Tokens /\ sid[t] = s
  BY DEF Base, Linked, Shapes
<1> QED
  BY <1>1

\* A step that hands no session on: it may lose its holder, for a reason.
Shrinks ==
  \A s \in Logins :
    /\ Holders(s)' \subseteq Holders(s)
    /\ s \notin mishap' \cup ended' => Holders(s)' = Holders(s)

\* A session that nobody ends keeps its holder, and no session gets one.
LEMMA HoldersKept ==
  ASSUME IInv,
         \A s \in Logins : Holders(s)' \subseteq Holders(s),
         \A s \in Logins : s \notin mishap' \cup ended' =>
           s \notin mishap \cup ended /\ Holders(s)' = Holders(s),
         \A s \in Logins : pc'[s] \in {"load", "set", "link", "ok"} =>
           pc[s] \in {"load", "set", "link", "ok"} \/ s \in mishap'
  PROVE  OneHolder' /\ Held'
<1>1. OneHolder'
  BY DEF IInv, OneHolder
<1>2. Held'
  BY DEF IInv, Held
<1> QED
  BY <1>1, <1>2

LEMMA SpentKept ==
  ASSUME SpentOnce,
         \A q \in Refreshers : Spent(q)' => Spent(q) /\ token'[q] = token[q] /\ token[q] \notin allow'
  PROVE  SpentOnce'
BY DEF SpentOnce

LEMMA FoundKept ==
  ASSUME Found, mishap \subseteq mishap', ended \subseteq ended',
         \A t \in allow' : pc'[t] = "ok" => t \in allow /\ pc[t] = "ok" /\ sid'[t] = sid[t],
         \A t \in allow' : sid[t] \notin mishap' \cup ended' /\ t \in jtis[sid[t]] => t \in jtis'[sid[t]]
  PROVE  Found'
BY DEF Found

\* A holder stays what it is as long as its request and its liveness do.
LEMMA HoldersSame ==
  ASSUME sid' = sid, \A t \in Tokens : token'[t] = token[t], allow' = allow,
         \A t \in Tokens : Carries(t)' <=> Carries(t)
  PROVE  \A s : Holders(s)' = Holders(s)
BY Sorts DEF Holders, SessionOf

-----------------------------------------------------------------------------
(* Logins and refreshes *)

\* A step to `to` of a request with a token.
TokenStep(r, to) == r \in Tokens /\ pc' = [pc EXCEPT ![r] = to]

LEMMA PlacesKept ==
  ASSUME Base, NEW r \in Tokens, NEW to \in RefreshPc, r \in Logins => to \in LoginPc,
         pc' = [pc EXCEPT ![r] = to]
  PROVE  /\ Places' /\ pc'[r] = to
         /\ \A q \in Requests \ {r} : pc'[q] = pc[q]
         /\ \A c \in Callers : pc'[c] = pc[c]
BY Sorts DEF Base, Places, RefreshPc, CallerPc

\* A login starts a family; one that fails starts an empty one, for a reason.
Opened(r) ==
  /\ \A s \in Logins \ {r} : Holders(s)' = Holders(s)
  /\ \/ pc'[r] = "load" /\ Holders(r)' = {r} /\ mishap' = mishap
     \/ pc'[r] = "refused" /\ Holders(r)' = {} /\ mishap' = mishap \cup {r}

LEMMA CreateInv ==
  ASSUME IInv, NEW r \in Requests, Create(r)
  PROVE  IInv' /\ Opened(r)
<1>1. Base /\ r \in Tokens /\ r \in Logins /\ pc[r] = "start" /\ sid' = [sid EXCEPT ![r] = r]
  BY Sorts DEF IInv, Create
<1>2. PICK to \in {"load", "refused"} :
        /\ pc' = [pc EXCEPT ![r] = to]
        /\ \/ to = "load" /\ UNCHANGED mishap
           \/ to = "refused" /\ mishap' = mishap \cup {r}
        /\ Enter(r) \/ UNCHANGED keys
  BY DEF Create, Goto, Smooth, Fault, SessionOf
<1>3. Places' /\ pc'[r] = to /\ \A q \in Requests \ {r} : pc'[q] = pc[q]
      /\ \A c \in Callers : pc'[c] = pc[c]
  BY <1>1, <1>2, PlacesKept DEF LoginPc, RefreshPc
<1>4. UNCHANGED <<allow, black, jtis, token, sids, seen, ended, issued>>
  BY DEF Create
<1>5. /\ sid'[r] = r /\ sid' \in [Tokens -> Logins \cup {None}]
      /\ \A t \in Tokens \ {r} : sid'[t] = sid[t]
      /\ \A t \in Tokens : sid[t] # r
      /\ r \notin issued /\ r \notin allow
  BY <1>1, Sorts DEF Base, Shapes, Minted, Alive
<1>6. Shapes'
  BY <1>1, <1>2, <1>4, <1>5 DEF Base, Shapes, Enter, keys
<1>7. Minted'
  <2>1. \A q \in Refreshers : pc'[q] # "start" => token[q] \in issued /\ sid'[q] = sid'[token[q]]
    BY <1>1, <1>3, <1>5, Sorts DEF Base, Minted, Shapes
  <2>2. \A t \in Tokens : pc'[t] # "start" => sid'[t] \in Logins /\ pc'[sid'[t]] # "start"
    <3>1. pc'[r] # "start" /\ sid'[r] = r
      BY <1>2, <1>3, <1>5
    <3>2. ASSUME NEW t \in Tokens \ {r}, pc'[t] # "start"
          PROVE  sid'[t] \in Logins /\ pc'[sid'[t]] # "start"
      BY <1>1, <1>3, <1>5, <3>2, Sorts DEF Base, Minted
    <3> QED
      BY <1>1, <3>1, <3>2
  <2>3. /\ \A l \in Logins : pc'[l] # "start" => sid'[l] = l
        /\ \A t \in Tokens : sid'[t] \in Logins => pc'[t] # "start"
    BY <1>1, <1>2, <1>3, <1>5, Sorts DEF Base, Minted
  <2> QED
    BY <1>4, <2>1, <2>2, <2>3 DEF Minted
<1>8. Alive'
  BY <1>1, <1>3, <1>4, <1>5, Sorts DEF Base, Alive, Shapes
<1>9. \A t \in Tokens : sid[t] \in Logins => sid'[t] = sid[t]
  BY <1>1, <1>5, Sorts DEF Base, Minted
<1>10. Ending' /\ Linked'
  BY <1>1, <1>3, <1>4, <1>9, EndingKept, LinkedKept, Sorts
<1>11. SpentOnce'
  BY <1>1, <1>3, <1>4, SpentKept, Sorts DEF IInv, SpentOnce, Spent
<1>12. \A t \in Tokens \ {r} : Carries(t)' = Carries(t)
  BY <1>3, Sorts DEF Carries
<1>13. \A q \in Refreshers : Carries(q) => SessionOf(q)' = SessionOf(q) /\ SessionOf(q) # r
  BY <1>1, <1>4, <1>5, Sorts DEF Base, Minted, Shapes, SessionOf, Carries
<1>14. \A s \in Logins \ {r} : Holders(s)' = Holders(s)
  <2> SUFFICES ASSUME NEW s \in Logins \ {r} PROVE Holders(s)' = Holders(s)
    OBVIOUS
  <2>1. {t \in allow' : sid'[t] = s} = {t \in allow : sid[t] = s}
    BY <1>1, <1>4, <1>5 DEF Base, Shapes
  <2>2. \A t \in Tokens : Carries(t)' /\ SessionOf(t)' = s <=> Carries(t) /\ SessionOf(t) = s
    BY <1>1, <1>12, <1>13, Sorts DEF SessionOf
  <2> QED
    BY <2>1, <2>2 DEF Holders
<1>15. Holders(r)' = IF to = "load" THEN {r} ELSE {}
  <2>1. \A t \in allow' : sid'[t] # r
    BY <1>1, <1>4, <1>5 DEF Base, Shapes
  <2>2. \A t \in Tokens \ {r} : ~(Carries(t)' /\ SessionOf(t)' = r)
    BY <1>1, <1>12, <1>13, Sorts DEF SessionOf
  <2>3. (to = "load" <=> Carries(r)') /\ SessionOf(r)' = r
    BY <1>1, <1>2, <1>3, Sorts DEF SessionOf, Carries
  <2> QED
    BY <1>1, <2>1, <2>2, <2>3 DEF Holders
<1>16. OneHolder'
  BY <1>14, <1>15 DEF IInv, OneHolder
<1>17. Held'
  <2>1. \A s \in Logins \ {r} : pc'[s] = pc[s]
    BY <1>3, Sorts
  <2>2. mishap \subseteq mishap'
    BY <1>2
  <2>3. pc'[r] \in {"load", "set", "link", "ok"} => to = "load"
    BY <1>2, <1>3
  <2> QED
    BY <1>4, <1>14, <1>15, <2>1, <2>2, <2>3 DEF IInv, Held
<1>18. Found'
  <2>1. mishap \subseteq mishap' /\ \A t \in allow : t # r /\ t \in Requests /\ t \in Tokens
    BY <1>1, <1>2, <1>5, Sorts DEF Base, Shapes
  <2> QED
    BY <1>3, <1>4, <1>5, <2>1, FoundKept DEF IInv
<1>19. Opened(r)
  BY <1>2, <1>3, <1>14, <1>15 DEF Opened
<1> QED
  BY <1>3, <1>6, <1>7, <1>8, <1>10, <1>11, <1>16, <1>17, <1>18, <1>19 DEF IInv, Base

\* A step of a token's request that has started: its tokens and sessions stay.
LEMMA BaseKept ==
  ASSUME Base, NEW r \in Tokens, pc[r] # "start", NEW to \in RefreshPc \ {"start"},
         r \in Logins => to \in LoginPc, pc' = [pc EXCEPT ![r] = to],
         UNCHANGED <<locals, ended, keys>>,
         allow' \subseteq Tokens, black' \subseteq Tokens, mishap' \subseteq Logins,
         issued \subseteq issued', issued' \subseteq Tokens,
         jtis' \in [Logins -> SUBSET Tokens], Linked',
         \A t \in allow' : pc'[t] \in {"link", "ok", "crashed"},
         \A t \in issued' : pc'[t] = "ok"
  PROVE  Base'
<1> USE DEF locals, keys
<1>1. Places' /\ pc'[r] = to /\ \A q \in Requests \ {r} : pc'[q] = pc[q]
      /\ \A c \in Callers : pc'[c] = pc[c]
  BY PlacesKept
<1>2. Shapes'
  BY DEF Base, Shapes
<1>3. Minted'
  BY <1>1, MintedKept, Sorts
<1>4. Ending'
  <2>1. /\ token' = token /\ sid' = sid /\ sids' = sids /\ seen' = seen
        /\ ended \subseteq ended' /\ issued \subseteq issued'
    OBVIOUS
  <2>2. \A c \in Callers : pc'[c] = pc[c] /\ token'[c] = token[c]
    BY <2>1, Sorts DEF Base, Places
  <2>3. \A t \in Tokens : sid[t] \in Logins => sid'[t] = sid[t]
    BY <2>1
  <2> QED
    BY <2>1, <2>2, <2>3, EndingKept
<1>5. Alive'
  BY DEF Alive
<1> QED
  BY <1>1, <1>2, <1>3, <1>4, <1>5 DEF Base

\* A step of a token's request that is not the one which hands a session on.
LEMMA StepKept ==
  ASSUME IInv, Base', NEW r \in Tokens, pc[r] # "start", NEW to, pc' = [pc EXCEPT ![r] = to],
         UNCHANGED <<locals, ended>>, allow' \subseteq allow, mishap \subseteq mishap',
         to \in {"blacklist", "unlink", "load", "set"} => Carries(r),
         to \in {"link", "ok"} => Spent(r) \/ r \in Logins,
         to \in {"load", "set", "link", "ok"} /\ r \in Logins => pc[r] \in {"load", "set", "link"},
         \/ allow' = allow /\ (Carries(r) => to \in {"blacklist", "unlink", "load", "set"})
         \/ mishap' = mishap \cup {SessionOf(r)}
            /\ \A t \in allow \ allow' : sid[t] = SessionOf(r),
         to = "ok" => pc[r] = "ok",
         \A s \in Logins : s \notin mishap' => jtis[s] \cap allow' \subseteq jtis'[s]
  PROVE  IInv' /\ Shrinks
<1> USE DEF locals
<1>1. Base /\ pc'[r] = to /\ \A q \in Requests \ {r} : pc'[q] = pc[q]
  BY Sorts DEF IInv, Base, Places
<1>2. SpentOnce'
  <2>1. ASSUME NEW q \in Refreshers, Spent(q)' PROVE Spent(q)
    <3>1. CASE q = r
      BY <1>1, <2>1, <3>1, Sorts DEF Spent, Carries
    <3>2. CASE q # r
      BY <1>1, <2>1, <3>2, Sorts DEF Spent
    <3> QED
      BY <3>1, <3>2
  <2> QED
    BY <2>1, SpentKept DEF IInv, SpentOnce
<1>3. \A t \in Tokens : SessionOf(t)' = SessionOf(t)
  BY DEF SessionOf
<1>4. \A t \in Tokens : Carries(t)' => Carries(t)
  BY <1>1, Sorts DEF Carries
<1>5. \A s \in Logins : Holders(s)' \subseteq Holders(s)
  BY <1>3, <1>4 DEF Holders
<1>6. \A s \in Logins : s \notin mishap' => Holders(s)' = Holders(s)
  <2>1. CASE allow' = allow /\ (Carries(r) => to \in {"blacklist", "unlink", "load", "set"})
    <3>1. \A t \in Tokens : Carries(t)' <=> Carries(t)
      BY <1>1, <1>4, <2>1, Sorts DEF Carries
    <3> QED
      BY <2>1, <3>1, HoldersSame
  <2>2. CASE mishap' = mishap \cup {SessionOf(r)} /\ \A t \in allow \ allow' : sid[t] = SessionOf(r)
    <3> SUFFICES ASSUME NEW s \in Logins, s # SessionOf(r) PROVE Holders(s) \subseteq Holders(s)'
      BY <1>5, <2>2
    <3>1. \A t \in allow : sid[t] = s => t \in allow'
      BY <2>2
    <3>2. \A t \in Tokens : Carries(t) /\ SessionOf(t) = s => Carries(t)' /\ SessionOf(t)' = s
      BY <1>1, <1>3, Sorts DEF Carries
    <3> QED
      BY <3>1, <3>2 DEF Holders
  <2> QED
    BY <2>1, <2>2
<1>7. OneHolder' /\ Held'
  <2>1. \A s \in Logins : pc'[s] \in {"load", "set", "link", "ok"} => pc[s] \in {"load", "set", "link", "ok"}
    BY <1>1, Sorts
  <2> QED
    BY <1>5, <1>6, <2>1, HoldersKept
<1>8. Found'
  <2>1. \A t \in allow' : t \in allow /\ t \in Requests /\ sid[t] \in Logins
    BY <1>1, Sorts DEF Base, Shapes, Alive, Minted
  <2> QED
    BY <1>1, <2>1, FoundKept DEF IInv
<1> QED
  BY <1>2, <1>5, <1>6, <1>7, <1>8 DEF IInv, Shrinks

LEMMA LoadInv ==
  ASSUME IInv, NEW r \in Tokens, Load(r)
  PROVE  IInv' /\ Shrinks
<1>1. Base /\ Linked /\ pc[r] = "load" /\ SessionOf(r) \in Logins
  BY OwnSession DEF IInv, Base, Load
<1>2. PICK to \in {"set", "refused"} :
        /\ pc' = [pc EXCEPT ![r] = to]
        /\ to = "set" \/ mishap' = mishap \cup {SessionOf(r)}
        /\ mishap' = mishap \/ mishap' = mishap \cup {SessionOf(r)}
  BY DEF Load, Goto, Smooth, Fault
<1>3. /\ allow' = allow /\ black' = black /\ keys' = keys /\ jtis' = jtis /\ locals' = locals
      /\ ended' = ended /\ issued' = issued /\ sid' = sid
  BY DEF Load, redis, locals
<1>4. Base'
  <2>1. Linked'
    BY <1>1, <1>3, LinkedKept
  <2>2. \A t \in allow \cup issued : t # r /\ pc'[t] = pc[t]
    BY <1>1, <1>2, Sorts DEF Base, Alive, Shapes, Places
  <2>3. /\ \A t \in allow' : pc'[t] \in {"link", "ok", "crashed"}
        /\ \A t \in issued' : pc'[t] = "ok"
    BY <1>1, <1>3, <2>2 DEF Base, Alive
  <2>4. to \in RefreshPc \ {"start"} /\ to \in LoginPc
    BY <1>2 DEF RefreshPc, LoginPc
  <2>5. allow' \subseteq Tokens /\ black' \subseteq Tokens /\ mishap' \subseteq Logins
        /\ issued' \subseteq Tokens /\ jtis' \in [Logins -> SUBSET Tokens]
    BY <1>1, <1>2, <1>3 DEF Base, Shapes
  <2> QED
    BY <1>1, <1>2, <1>3, <2>1, <2>3, <2>4, <2>5, BaseKept
<1>5. Carries(r) /\ Spent(r)
  BY <1>1, Sorts DEF Carries, Spent
<1> QED
  BY <1>1, <1>2, <1>3, <1>4, <1>5, StepKept

LEMMA BlacklistInv ==
  ASSUME IInv, NEW r \in Tokens, Blacklist(r)
  PROVE  IInv' /\ Shrinks
<1>1. Base /\ Linked /\ pc[r] = "blacklist" /\ SessionOf(r) \in Logins /\ r \notin Logins
      /\ token[r] \in Tokens
  <2>1. r \notin Logins
    BY DEF IInv, Base, Places, Blacklist, LoginPc
  <2> QED
    BY <2>1, OwnSession, Sorts DEF IInv, Base, Blacklist, Minted, Shapes
<1>2. /\ pc' = [pc EXCEPT ![r] = "unlink"]
      /\ mishap' = mishap \/ mishap' = mishap \cup {SessionOf(r)}
      /\ black' \subseteq black \cup {token[r]}
  BY DEF Blacklist, Goto, Smooth, Fault
<1>3. /\ allow' = allow /\ keys' = keys /\ jtis' = jtis /\ locals' = locals
      /\ ended' = ended /\ issued' = issued /\ sid' = sid
  BY DEF Blacklist, locals
<1>4. Base'
  <2>1. Linked'
    BY <1>1, <1>3, LinkedKept
  <2>2. \A t \in allow \cup issued : t # r /\ pc'[t] = pc[t]
    BY <1>1, <1>2, Sorts DEF Base, Alive, Shapes, Places
  <2>3. /\ \A t \in allow' : pc'[t] \in {"link", "ok", "crashed"}
        /\ \A t \in issued' : pc'[t] = "ok"
    BY <1>1, <1>3, <2>2 DEF Base, Alive
  <2>4. "unlink" \in RefreshPc \ {"start"}
    BY DEF RefreshPc
  <2>5. allow' \subseteq Tokens /\ black' \subseteq Tokens /\ mishap' \subseteq Logins
        /\ issued' \subseteq Tokens /\ jtis' \in [Logins -> SUBSET Tokens]
    BY <1>1, <1>2, <1>3 DEF Base, Shapes
  <2> QED
    BY <1>1, <1>2, <1>3, <2>1, <2>3, <2>4, <2>5, BaseKept
<1>5. Carries(r) /\ Spent(r)
  BY <1>1, Sorts DEF Carries, Spent
<1> QED
  BY <1>1, <1>2, <1>3, <1>4, <1>5, StepKept

LEMMA UnlinkInv ==
  ASSUME IInv, NEW r \in Tokens, Unlink(r)
  PROVE  IInv' /\ Shrinks
<1>1. Base /\ Linked /\ pc[r] = "unlink" /\ SessionOf(r) \in Logins /\ r \in Refreshers
      /\ Carries(r) /\ Spent(r) /\ token[r] \notin allow
  <2>1. r \notin Logins
    BY DEF IInv, Base, Places, Unlink, LoginPc
  <2> QED
    BY <2>1, OwnSession, Sorts DEF IInv, Base, Unlink, Carries, Spent, SpentOnce
<1>2. /\ pc' = [pc EXCEPT ![r] = "load"]
      /\ mishap' = mishap \/ mishap' = mishap \cup {SessionOf(r)}
      /\ jtis' = [jtis EXCEPT ![SessionOf(r)] = @ \ {token[r]}] \/ jtis' = jtis
  BY <1>1 DEF Unlink, Goto, Smooth, Fault
<1>3. /\ allow' = allow /\ black' = black /\ keys' = keys /\ locals' = locals
      /\ ended' = ended /\ issued' = issued /\ sid' = sid
  BY DEF Unlink, locals
<1>4. /\ jtis' \in [Logins -> SUBSET Tokens]
      /\ \A s \in Logins : jtis'[s] \subseteq jtis[s] /\ jtis[s] \ {token[r]} \subseteq jtis'[s]
  BY <1>1, <1>2 DEF Base, Shapes
<1>5. Base'
  <2>1. Linked'
    BY <1>1, <1>3, <1>4, LinkedKept
  <2>2. \A t \in allow \cup issued : t # r /\ pc'[t] = pc[t]
    BY <1>1, <1>2, Sorts DEF Base, Alive, Shapes, Places
  <2>3. /\ \A t \in allow' : pc'[t] \in {"link", "ok", "crashed"}
        /\ \A t \in issued' : pc'[t] = "ok"
    BY <1>1, <1>3, <2>2 DEF Base, Alive
  <2>4. "load" \in RefreshPc \ {"start"}
    BY DEF RefreshPc, LoginPc
  <2>5. allow' \subseteq Tokens /\ black' \subseteq Tokens /\ mishap' \subseteq Logins
        /\ issued' \subseteq Tokens
    BY <1>1, <1>2, <1>3 DEF Base, Shapes
  <2> QED
    BY <1>1, <1>2, <1>3, <1>4, <2>1, <2>3, <2>4, <2>5, Sorts, BaseKept
<1>6. \A s \in Logins : jtis[s] \cap allow' \subseteq jtis'[s]
  BY <1>1, <1>3, <1>4
<1> QED
  BY <1>1, <1>2, <1>3, <1>5, <1>6, Sorts, StepKept

LEMMA CrashInv ==
  ASSUME IInv, NEW r \in Requests, Crash(r)
  PROVE  IInv' /\ Shrinks
<1>1. Base /\ Linked /\ r \in Tokens /\ pc[r] # "start" /\ SessionOf(r) \in Logins
      /\ pc[r] \notin Final
  BY OwnSession DEF IInv, Base, Crash
<1>2. pc' = [pc EXCEPT ![r] = "crashed"] /\ mishap' = mishap \cup {SessionOf(r)}
  BY DEF Crash, Goto, Fault
<1>3. /\ allow' = allow /\ black' = black /\ keys' = keys /\ jtis' = jtis /\ locals' = locals
      /\ ended' = ended /\ issued' = issued /\ sid' = sid
  BY DEF Crash, redis, locals
<1>4. Base'
  <2>1. Linked'
    BY <1>1, <1>3, LinkedKept
  <2>2. \A t \in issued : t # r /\ pc'[t] = pc[t]
    BY <1>1, <1>2, Sorts DEF Base, Alive, Shapes, Places, Final
  <2>3. \A t \in allow : pc'[t] = pc[t] \/ pc'[t] = "crashed"
    BY <1>1, <1>2, Sorts DEF Base, Alive, Shapes, Places
  <2>4. /\ \A t \in allow' : pc'[t] \in {"link", "ok", "crashed"}
        /\ \A t \in issued' : pc'[t] = "ok"
    BY <1>1, <1>3, <2>2, <2>3 DEF Base, Alive
  <2>5. "crashed" \in RefreshPc \ {"start"} /\ "crashed" \in LoginPc
    BY DEF RefreshPc, LoginPc
  <2>6. allow' \subseteq Tokens /\ black' \subseteq Tokens /\ mishap' \subseteq Logins
        /\ issued' \subseteq Tokens /\ jtis' \in [Logins -> SUBSET Tokens]
    BY <1>1, <1>2, <1>3 DEF Base, Shapes
  <2> QED
    BY <1>1, <1>2, <1>3, <2>1, <2>4, <2>5, <2>6, BaseKept
<1> QED
  BY <1>1, <1>2, <1>3, <1>4, StepKept

\* A refresh replaces the holder of its session, or is refused.
Handed(r) ==
  \/ pc'[r] = "refused" /\ Shrinks
  \/ /\ pc'[r] = "blacklist" /\ mishap' = mishap
     /\ \E s \in Logins :
          /\ s = SessionOf(r) /\ Holders(s) = {token[r]} /\ Holders(s)' = {r}
          /\ \A z \in Logins \ {s} : Holders(z)' = Holders(z)

\* The old token goes, and its request holds the session from there on.
LEMMA ConsumeInv ==
  ASSUME IInv, NEW r \in Tokens, Consume(r)
  PROVE  IInv' /\ Handed(r)
<1>1. Base /\ Linked /\ pc[r] = "consume" /\ SessionOf(r) \in Logins /\ r \in Refreshers
      /\ ~Carries(r) /\ r \notin allow
  <2>1. r \notin Logins
    BY DEF IInv, Base, Places, Consume, LoginPc
  <2> QED
    BY <2>1, OwnSession, Sorts DEF IInv, Base, Consume, Carries, Alive
<1>2. PICK to \in {"blacklist", "refused"} :
        /\ pc' = [pc EXCEPT ![r] = to]
        /\ to = "blacklist" => token[r] \in allow /\ allow' = allow \ {token[r]} /\ mishap' = mishap
        /\ to = "refused" => \/ allow' = allow /\ mishap' = mishap
                             \/ /\ mishap' = mishap \cup {SessionOf(r)}
                                /\ allow' \in {allow, allow \ {token[r]}}
  BY DEF Consume, Goto, Smooth, Fault
<1>3. /\ black' = black /\ keys' = keys /\ jtis' = jtis /\ locals' = locals
      /\ ended' = ended /\ issued' = issued /\ sid' = sid /\ token' = token
  BY DEF Consume, locals
<1>4. allow' \subseteq allow /\ sid[token[r]] = SessionOf(r)
      /\ \A t \in allow \ allow' : t = token[r]
  BY <1>1, <1>2, Sorts DEF SessionOf
<1>5. Base'
  <2>1. Linked'
    BY <1>1, <1>3, LinkedKept
  <2>2. \A t \in allow \cup issued : t # r /\ pc'[t] = pc[t]
    BY <1>1, <1>2, Sorts DEF Base, Alive, Shapes, Places
  <2>3. /\ \A t \in allow' : pc'[t] \in {"link", "ok", "crashed"}
        /\ \A t \in issued' : pc'[t] = "ok"
    BY <1>1, <1>3, <1>4, <2>2 DEF Base, Alive
  <2>4. to \in RefreshPc \ {"start"}
    BY <1>2 DEF RefreshPc, LoginPc
  <2>5. allow' \subseteq Tokens /\ black' \subseteq Tokens /\ mishap' \subseteq Logins
        /\ issued' \subseteq Tokens /\ jtis' \in [Logins -> SUBSET Tokens]
    BY <1>1, <1>2, <1>3, <1>4 DEF Base, Shapes
  <2> QED
    BY <1>1, <1>2, <1>3, <2>1, <2>3, <2>4, <2>5, Sorts, BaseKept
<1>6. CASE to = "refused"
  <2>1. mishap \subseteq mishap'
        /\ \/ allow' = allow
           \/ mishap' = mishap \cup {SessionOf(r)} /\ \A t \in allow \ allow' : sid[t] = SessionOf(r)
    BY <1>2, <1>4, <1>6
  <2>2. IInv' /\ Shrinks
    BY <1>1, <1>2, <1>3, <1>4, <1>5, <1>6, <2>1, Sorts, StepKept
  <2>3. pc'[r] = "refused"
    BY <1>1, <1>2, <1>6, Sorts DEF Base, Places
  <2> QED
    BY <2>2, <2>3 DEF Handed
<1>7. CASE to = "blacklist"
  <2>1. pc'[r] = "blacklist" /\ \A q \in Requests \ {r} : pc'[q] = pc[q]
    BY <1>1, <1>2, <1>7, Sorts DEF Base, Places
  <2>2. SpentOnce'
    <3>1. \A q \in Refreshers \ {r} : Spent(q)' => Spent(q) /\ token[q] # token[r]
      BY <1>2, <1>7, <2>1, Sorts DEF IInv, SpentOnce, Spent
    <3> QED
      BY <1>2, <1>3, <1>4, <1>7, <3>1 DEF IInv, SpentOnce
  <2>3. \A t \in Tokens : SessionOf(t)' = SessionOf(t)
    BY <1>3 DEF SessionOf
  <2>4. \A t \in Tokens : Carries(t)' <=> Carries(t) \/ t = r
    BY <1>1, <2>1, Sorts DEF Carries
  <2>5. ~Carries(token[r])
    BY <1>1, <1>2, <1>7 DEF Base, Alive, Carries
  <2>6. \A s \in Logins \ {SessionOf(r)} : Holders(s)' = Holders(s)
    <3> SUFFICES ASSUME NEW s \in Logins, s # SessionOf(r) PROVE Holders(s)' = Holders(s)
      OBVIOUS
    <3>1. \A t : t \in allow' /\ sid'[t] = s <=> t \in allow /\ sid[t] = s
      BY <1>3, <1>4
    <3>2. \A t \in Tokens : Carries(t)' /\ SessionOf(t)' = s <=> Carries(t) /\ SessionOf(t) = s
      BY <2>3, <2>4
    <3> QED
      BY <3>1, <3>2 DEF Holders
  <2>7. Holders(SessionOf(r)) = {token[r]}
    <3>1. token[r] \in Holders(SessionOf(r))
      BY <1>2, <1>4, <1>7 DEF Holders
    <3> QED
      BY <1>1, <3>1 DEF IInv, OneHolder
  <2>8. PICK s : s = SessionOf(r)
    OBVIOUS
  <2>9. Holders(s)' = {r}
    <3>1. \A t \in allow' : sid'[t] # s
      BY <1>2, <1>3, <1>7, <2>7, <2>8 DEF Holders
    <3>2. \A t \in Tokens : Carries(t)' /\ SessionOf(t)' = s <=> t = r
      <4>1. \A t \in Tokens : ~(Carries(t) /\ SessionOf(t) = s)
        BY <2>5, <2>7, <2>8 DEF Holders
      <4> QED
        BY <2>3, <2>4, <2>8, <4>1
    <3> QED
      BY <3>1, <3>2 DEF Holders
  <2>10. OneHolder'
    BY <2>6, <2>8, <2>9 DEF IInv, OneHolder
  <2>11. Held'
    <3>1. \A l \in Logins : pc'[l] = pc[l]
      BY <1>1, <2>1, Sorts
    <3> QED
      BY <1>2, <1>3, <1>7, <2>6, <2>8, <2>9, <3>1 DEF IInv, Held
  <2>12. Found'
    <3>1. \A t \in allow' : pc'[t] = "ok" => t \in allow /\ pc[t] = "ok" /\ sid'[t] = sid[t]
      BY <1>1, <1>3, <1>4, <2>1, Sorts DEF Base, Shapes
    <3> QED
      BY <1>2, <1>3, <1>7, <3>1, FoundKept DEF IInv
  <2>13. Handed(r)
    BY <1>1, <1>2, <1>7, <2>1, <2>6, <2>7, <2>8, <2>9 DEF Handed
  <2> QED
    BY <1>5, <2>2, <2>10, <2>11, <2>12, <2>13 DEF IInv
<1> QED
  BY <1>2, <1>6, <1>7

LEMMA SetAllowInv ==
  ASSUME IInv, NEW r \in Tokens, SetAllow(r)
  PROVE  IInv' /\ Shrinks
<1>1. Base /\ Linked /\ pc[r] = "set" /\ SessionOf(r) \in Logins /\ sid[r] = SessionOf(r)
      /\ Carries(r) /\ Spent(r)
  BY OwnSession, Sorts DEF IInv, Base, SetAllow, Carries, Spent
<1>2. /\ pc' = [pc EXCEPT ![r] = "link"]
      /\ \/ allow' = allow \cup {r} /\ mishap' = mishap
         \/ allow' = allow /\ mishap' = mishap \cup {SessionOf(r)}
  BY DEF SetAllow, Goto, Smooth, Fault
<1>3. /\ black' = black /\ keys' = keys /\ jtis' = jtis /\ locals' = locals
      /\ ended' = ended /\ issued' = issued /\ sid' = sid /\ token' = token
  BY DEF SetAllow, locals
<1>4. pc'[r] = "link" /\ \A q \in Requests \ {r} : pc'[q] = pc[q]
  BY <1>1, <1>2, Sorts DEF Base, Places
<1>5. Base'
  <2>1. Linked'
    BY <1>1, <1>3, LinkedKept
  <2>2. \A t \in allow' : t = r \/ (t \in allow /\ pc'[t] = pc[t])
    <3>1. allow' \subseteq allow \cup {r} /\ \A t \in allow : t \in Requests
      BY <1>1, <1>2, Sorts DEF Base, Shapes
    <3> QED
      BY <1>4, <3>1
  <2>3. \A t \in issued : t # r /\ pc'[t] = pc[t]
    BY <1>1, <1>4, Sorts DEF Base, Alive, Shapes
  <2>4. /\ \A t \in allow' : pc'[t] \in {"link", "ok", "crashed"}
        /\ \A t \in issued' : pc'[t] = "ok"
    BY <1>1, <1>3, <1>4, <2>2, <2>3 DEF Base, Alive
  <2>5. "link" \in RefreshPc \ {"start"} /\ "link" \in LoginPc
    BY DEF RefreshPc, LoginPc
  <2>6. allow' \subseteq Tokens /\ black' \subseteq Tokens /\ mishap' \subseteq Logins
        /\ issued' \subseteq Tokens /\ jtis' \in [Logins -> SUBSET Tokens]
    BY <1>1, <1>2, <1>3 DEF Base, Shapes
  <2> QED
    BY <1>1, <1>2, <1>3, <2>1, <2>4, <2>5, <2>6, BaseKept
<1>6. CASE allow' = allow /\ mishap' = mishap \cup {SessionOf(r)}
  BY <1>1, <1>2, <1>3, <1>5, <1>6, StepKept
<1>7. CASE allow' = allow \cup {r} /\ mishap' = mishap
  <2>1. SpentOnce'
    <3>1. \A q \in Refreshers : Spent(q)' => Spent(q)
      BY <1>1, <1>4, Sorts DEF Spent
    <3>2. \A q \in Refreshers : Spent(q) => token[q] # r
      BY <1>1, Sorts DEF Base, Minted, Alive, Spent
    <3> QED
      BY <1>3, <1>7, <3>1, <3>2, SpentKept DEF IInv, SpentOnce
  <2>2. \A t \in Tokens : SessionOf(t)' = SessionOf(t)
    BY <1>3 DEF SessionOf
  <2>3. \A t \in Tokens : Carries(t)' <=> Carries(t) /\ t # r
    BY <1>1, <1>4, Sorts DEF Carries
  <2>4. \A s \in Logins : Holders(s)' = Holders(s)
    BY <1>1, <1>3, <1>7, <2>2, <2>3 DEF Holders
  <2>5. \A s \in Logins : pc'[s] \in {"load", "set", "link", "ok"} => pc[s] \in {"load", "set", "link", "ok"}
    BY <1>1, <1>4, Sorts
  <2>6. OneHolder' /\ Held'
    BY <1>3, <1>7, <2>4, <2>5, HoldersKept
  <2>7. Found'
    <3>1. \A t \in allow' : pc'[t] = "ok" => t \in allow /\ pc[t] = "ok"
      BY <1>1, <1>4, <1>7, Sorts DEF Base, Shapes
    <3> QED
      BY <1>3, <1>7, <3>1, FoundKept DEF IInv
  <2> QED
    BY <1>5, <2>1, <2>4, <2>6, <2>7 DEF IInv, Shrinks
<1> QED
  BY <1>2, <1>6, <1>7

LEMMA LinkInv ==
  ASSUME IInv, NEW r \in Tokens, Link(r)
  PROVE  IInv' /\ \A s \in Logins : Holders(s)' = Holders(s)
<1>1. Base /\ Linked /\ pc[r] = "link" /\ SessionOf(r) \in Logins /\ sid[r] = SessionOf(r)
      /\ ~Carries(r) /\ Spent(r)
  BY OwnSession, Sorts DEF IInv, Base, Link, Carries, Spent
<1>2. /\ pc' = [pc EXCEPT ![r] = "ok"] /\ issued' = issued \cup {r}
      /\ \/ jtis' = [jtis EXCEPT ![SessionOf(r)] = @ \cup {r}] /\ mishap' = mishap
         \/ jtis' = jtis /\ mishap' = mishap \cup {SessionOf(r)}
  BY DEF Link, Goto, Smooth, Fault
<1>3. /\ allow' = allow /\ black' = black /\ keys' = keys /\ locals' = locals
      /\ ended' = ended /\ sid' = sid /\ token' = token
  BY DEF Link, locals
<1>4. pc'[r] = "ok" /\ \A q \in Requests \ {r} : pc'[q] = pc[q]
  BY <1>1, <1>2, Sorts DEF Base, Places
<1>5. /\ jtis' \in [Logins -> SUBSET Tokens]
      /\ \A s \in Logins : jtis[s] \subseteq jtis'[s]
      /\ \A s \in Logins : \A t \in jtis'[s] : t \in jtis[s] \/ (t = r /\ s = SessionOf(r))
  BY <1>1, <1>2 DEF Base, Shapes
<1>6. Linked'
  <2> SUFFICES ASSUME NEW s \in Logins, NEW t \in jtis'[s] PROVE sid[t] = s
    BY <1>3 DEF Linked
  <2> QED
    BY <1>1, <1>5 DEF Linked
<1>7. Base'
  <2>1. \A t \in allow \cup issued : t = r \/ pc'[t] = pc[t]
    BY <1>1, <1>4, Sorts DEF Base, Shapes
  <2>2. /\ \A t \in allow' : pc'[t] \in {"link", "ok", "crashed"}
        /\ \A t \in issued' : pc'[t] = "ok"
    BY <1>1, <1>2, <1>3, <1>4, <2>1 DEF Base, Alive
  <2>3. "ok" \in RefreshPc \ {"start"} /\ "ok" \in LoginPc
    BY DEF RefreshPc, LoginPc
  <2>4. allow' \subseteq Tokens /\ black' \subseteq Tokens /\ mishap' \subseteq Logins
        /\ issued' \subseteq Tokens /\ issued \subseteq issued'
    BY <1>1, <1>2, <1>3 DEF Base, Shapes
  <2> QED
    BY <1>1, <1>2, <1>3, <1>5, <1>6, <2>2, <2>3, <2>4, BaseKept
<1>8. SpentOnce'
  <2>1. \A q \in Refreshers : Spent(q)' => Spent(q)
    BY <1>1, <1>4, Sorts DEF Spent
  <2> QED
    BY <1>3, <2>1, SpentKept DEF IInv, SpentOnce
<1>9. OneHolder' /\ Held' /\ \A s \in Logins : Holders(s)' = Holders(s)
  <2>1. \A t \in Tokens : Carries(t)' <=> Carries(t)
    BY <1>1, <1>4, Sorts DEF Carries
  <2>2. \A s \in Logins : Holders(s)' = Holders(s)
    BY <1>3, <2>1, HoldersSame
  <2>3. \A s \in Logins : pc'[s] \in {"load", "set", "link", "ok"} => pc[s] \in {"load", "set", "link", "ok"}
    BY <1>1, <1>4, Sorts
  <2> QED
    BY <1>2, <1>3, <2>2, <2>3, HoldersKept
<1>10. Found'
  <2> SUFFICES ASSUME NEW t \in allow, sid[t] \notin mishap' \cup ended, pc'[t] = "ok"
               PROVE  t \in jtis'[sid[t]]
    BY <1>3 DEF Found
  <2>1. CASE t = r
    BY <1>1, <1>2, <2>1 DEF Base, Shapes
  <2>2. CASE t # r
    <3>1. pc[t] = "ok" /\ sid[t] \in Logins
      BY <1>1, <1>4, <2>2, Sorts DEF Base, Shapes, Alive, Minted
    <3> QED
      BY <1>2, <1>5, <3>1 DEF IInv, Found
  <2> QED
    BY <2>1, <2>2
<1> QED
  BY <1>7, <1>8, <1>9, <1>10 DEF IInv

\* A refresh starts with a token that the client has; nothing is held by it yet.
LEMMA VerifyInv ==
  ASSUME IInv, NEW r \in Requests, Verify(r)
  PROVE  IInv' /\ Shrinks
<1>1. Base /\ r \in Refreshers /\ r \in Tokens /\ pc[r] = "start"
  BY Sorts DEF IInv, Verify
<1>2. PICK t \in issued, to \in {"refused", "consume"} :
        /\ token' = [token EXCEPT ![r] = t] /\ sid' = [sid EXCEPT ![r] = sid[t]]
        /\ pc' = [pc EXCEPT ![r] = to]
  BY DEF Verify, Goto
<1>3. UNCHANGED <<allow, black, record, index, recent, jtis, sids, seen, mishap, ended, issued>>
  BY DEF Verify, redis, keys, history
<1>4. Places' /\ pc'[r] = to /\ (\A q \in Requests \ {r} : pc'[q] = pc[q])
      /\ \A c \in Callers : pc'[c] = pc[c]
  BY <1>1, <1>2, PlacesKept, Sorts DEF RefreshPc, LoginPc
<1>5. /\ t \in Tokens /\ pc[t] = "ok" /\ sid[t] \in Logins /\ pc[sid[t]] # "start" /\ t # r
      /\ r \notin issued /\ r \notin allow /\ sid[r] \notin Logins
  BY <1>1 DEF Base, Shapes, Alive, Minted
<1>6. /\ token' \in [Requests -> Tokens \cup {None}] /\ sid' \in [Tokens -> Logins \cup {None}]
      /\ token'[r] = t /\ sid'[r] = sid[t]
      /\ \A q \in Requests \ {r} : token'[q] = token[q]
      /\ \A q \in Tokens \ {r} : sid'[q] = sid[q]
  BY <1>1, <1>2, <1>5, Sorts DEF Base, Shapes
<1>7. Shapes'
  BY <1>1, <1>3, <1>6 DEF Base, Shapes
<1>8. Minted'
  <2>1. \A q \in Refreshers : pc'[q] # "start" => token'[q] \in issued /\ sid'[q] = sid'[token'[q]]
    <3>1. token'[r] \in issued /\ sid'[r] = sid'[token'[r]]
      BY <1>5, <1>6
    <3>2. ASSUME NEW q \in Refreshers \ {r}, pc'[q] # "start"
          PROVE  token'[q] \in issued /\ sid'[q] = sid'[token'[q]]
      <4>1. pc[q] # "start" /\ token'[q] = token[q] /\ sid'[q] = sid[q]
        BY <1>4, <1>6, <3>2, Sorts
      <4>2. token[q] \in issued /\ sid[q] = sid[token[q]] /\ token[q] \in Tokens \ {r}
        BY <1>1, <1>5, <4>1 DEF Base, Minted, Shapes
      <4> QED
        BY <1>6, <4>1, <4>2
    <3> QED
      BY <3>1, <3>2
  <2>2. \A q \in Tokens : pc'[q] # "start" => sid'[q] \in Logins /\ pc'[sid'[q]] # "start"
    <3>1. \A l \in Logins : pc'[l] = pc[l]
      BY <1>1, <1>4, Sorts
    <3>2. ASSUME NEW q \in Tokens \ {r}, pc'[q] # "start"
          PROVE  sid'[q] \in Logins /\ pc'[sid'[q]] # "start"
      BY <1>1, <1>4, <1>6, <3>1, <3>2, Sorts DEF Base, Minted
    <3> QED
      BY <1>1, <1>5, <1>6, <3>1, <3>2
  <2>3. /\ \A l \in Logins : pc'[l] # "start" => sid'[l] = l
        /\ \A q \in Tokens : sid'[q] \in Logins => pc'[q] # "start"
    BY <1>1, <1>2, <1>4, <1>6, Sorts DEF Base, Minted
  <2> QED
    BY <1>3, <2>1, <2>2, <2>3 DEF Minted
<1>9. Alive'
  BY <1>1, <1>3, <1>4, <1>5, Sorts DEF Base, Alive, Shapes
<1>10. \A q \in Tokens : sid[q] \in Logins => sid'[q] = sid[q]
  BY <1>5, <1>6
<1>11. Ending' /\ Linked'
  <2>1. \A c \in Callers : token'[c] = token[c]
    BY <1>1, <1>6, Sorts
  <2> QED
    BY <1>1, <1>3, <1>4, <1>10, <2>1, EndingKept, LinkedKept
<1>12. SpentOnce'
  <2>1. \A q \in Refreshers : Spent(q)' => q # r /\ Spent(q) /\ token'[q] = token[q]
    BY <1>1, <1>2, <1>4, <1>6, Sorts DEF Spent
  <2> QED
    BY <1>3, <2>1, SpentKept DEF IInv, SpentOnce
<1>13. \A s \in Logins : Holders(s)' = Holders(s)
  <2> SUFFICES ASSUME NEW s \in Logins PROVE Holders(s)' = Holders(s)
    OBVIOUS
  <2>1. \A q : q \in allow' /\ sid'[q] = s <=> q \in allow /\ sid[q] = s
    BY <1>1, <1>3, <1>5, <1>6 DEF Base, Shapes
  <2>2. \A q \in Tokens : Carries(q)' <=> Carries(q) /\ q # r
    BY <1>1, <1>2, <1>4, Sorts DEF Carries
  <2>3. \A q \in Tokens : Carries(q) => q # r /\ SessionOf(q)' = SessionOf(q)
    <3> SUFFICES ASSUME NEW q \in Tokens, Carries(q) PROVE q # r /\ SessionOf(q)' = SessionOf(q)
      OBVIOUS
    <3>1. q # r /\ pc[q] # "start"
      BY <1>1 DEF Carries
    <3>2. CASE q \in Logins
      BY <3>1, <3>2 DEF SessionOf
    <3>3. CASE q \in Refreshers
      <4>1. token[q] \in issued /\ token[q] \in Tokens /\ token[q] # r
        BY <1>1, <1>5, <3>1, <3>3 DEF Base, Minted, Shapes
      <4>2. token'[q] = token[q] /\ sid'[token[q]] = sid[token[q]]
        BY <1>6, <3>1, <4>1, Sorts
      <4> QED
        BY <3>1, <3>3, <4>2, Sorts DEF SessionOf
    <3> QED
      BY <3>2, <3>3, Sorts
  <2> QED
    BY <2>1, <2>2, <2>3 DEF Holders
<1>14. OneHolder' /\ Held'
  <2>1. \A s \in Logins : pc'[s] = pc[s]
    BY <1>1, <1>4, Sorts
  <2> QED
    BY <1>3, <1>13, <2>1, HoldersKept
<1>15. Found'
  <2>1. \A q \in allow' : pc'[q] = "ok" => q \in allow /\ pc[q] = "ok" /\ sid'[q] = sid[q]
    BY <1>1, <1>3, <1>4, <1>5, <1>6, Sorts DEF Base, Shapes
  <2> QED
    BY <1>3, <2>1, FoundKept DEF IInv
<1>16. Shrinks
  BY <1>13 DEF Shrinks
<1> QED
  BY <1>4, <1>7, <1>8, <1>9, <1>11, <1>12, <1>14, <1>15, <1>16 DEF IInv, Base

-----------------------------------------------------------------------------
(* Logouts, the calls of SessionService, and time *)

\* A step that starts no token's request and takes live tokens away only from
\* sessions that are ended or had a mishap.
LEMMA OthersKept ==
  ASSUME IInv, Base', sid' = sid,
         \A t \in Tokens : token'[t] = token[t] /\ pc'[t] = pc[t],
         allow' \subseteq allow, mishap \subseteq mishap', ended \subseteq ended',
         \A t \in allow : t \notin allow' => sid[t] \in mishap' \cup ended',
         \A s \in Logins : s \notin ended' => jtis[s] \cap allow' \subseteq jtis'[s]
  PROVE  IInv' /\ Shrinks
<1>1. Base
  BY DEF IInv
<1>2. SpentOnce'
  <2>1. \A q \in Refreshers : Spent(q)' => Spent(q) /\ token'[q] = token[q]
    BY Sorts DEF Spent
  <2> QED
    BY <2>1, SpentKept DEF IInv, SpentOnce
<1>3. \A t \in Tokens : SessionOf(t)' = SessionOf(t) /\ (Carries(t)' <=> Carries(t))
  BY DEF SessionOf, Carries
<1>4. \A s \in Logins : Holders(s)' \subseteq Holders(s)
  BY <1>3 DEF Holders
<1>5. \A s \in Logins : s \notin mishap' \cup ended' => Holders(s)' = Holders(s)
  BY <1>3 DEF Holders
<1>6. OneHolder' /\ Held'
  <2>1. \A s \in Logins : pc'[s] = pc[s]
    BY Sorts
  <2> QED
    BY <1>4, <1>5, <2>1, HoldersKept
<1>7. Found'
  <2>1. \A t \in allow' : t \in Tokens /\ t \in allow /\ sid[t] \in Logins
    BY <1>1 DEF Base, Shapes, Alive, Minted
  <2> QED
    BY <2>1, FoundKept DEF IInv
<1> QED
  BY <1>2, <1>4, <1>5, <1>6, <1>7 DEF IInv, Shrinks

\* A step of caller c, of which only Ending has to be said.
LEMMA CallerBase ==
  ASSUME Base, NEW c \in Callers, NEW to \in CallerPc, pc' = [pc EXCEPT ![c] = to],
         sid' = sid, issued' = issued, Shapes', allow' \subseteq allow, ended \subseteq ended',
         \A s \in Logins : jtis'[s] \subseteq jtis[s],
         \A q \in Requests : q # c => token'[q] = token[q],
         \A d \in Callers : d # c => sids'[d] = sids[d] /\ seen'[d] = seen[d],
         to \in {"blacklist", "unlink", "left"} => token'[c] \in issued /\ sid[token'[c]] \in ended',
         to \in {"readJtis", "revoke"} => sids'[c] \subseteq ended',
         to = "revoke" => \A t \in seen'[c] : sid[t] \in sids'[c]
  PROVE  Base' /\ \A t \in Tokens : token'[t] = token[t] /\ pc'[t] = pc[t]
<1>1. pc'[c] = to /\ \A q \in Requests : q # c => pc'[q] = pc[q]
  BY Sorts DEF Base, Places
<1>2. Places'
  BY Sorts DEF Base, Places
<1>3. \A t \in Tokens : token'[t] = token[t] /\ pc'[t] = pc[t]
  BY <1>1, Sorts
<1>4. Minted'
  BY <1>3, MintedKept
<1>5. Alive'
  BY <1>3 DEF Base, Alive, Shapes
<1>6. Linked'
  BY LinkedKept
<1>7. Ending'
  <2> SUFFICES ASSUME NEW d \in Callers
      PROVE  /\ pc'[d] \in {"blacklist", "unlink", "left"} => token'[d] \in issued /\ sid[token'[d]] \in ended'
             /\ pc'[d] \in {"readJtis", "revoke"} => sids'[d] \subseteq ended'
             /\ pc'[d] = "revoke" => \A t \in seen'[d] : sid[t] \in sids'[d]
    BY DEF Ending
  <2>1. CASE d = c
    BY <1>1, <2>1
  <2>2. CASE d # c
    <3>1. pc'[d] = pc[d] /\ token'[d] = token[d] /\ sids'[d] = sids[d] /\ seen'[d] = seen[d]
      BY <1>1, <2>2, Sorts
    <3> QED
      BY <3>1 DEF Base, Ending
  <2> QED
    BY <2>1, <2>2
<1> QED
  BY <1>2, <1>3, <1>4, <1>5, <1>6, <1>7 DEF Base

\* What a pipeline's reads lose is some of what they were sent for.
LEMMA LostIsRead == \A S : \A lost \in Losable(S) : lost \subseteq S
BY DEF Losable

\* A caller's read of what to take away, or to heal, may be hit by failures.
LEMMA ReadInv ==
  ASSUME IInv, NEW c \in Callers, NEW to \in CallerPc, pc' = [pc EXCEPT ![c] = to],
         NEW S \in SUBSET Logins, NEW T \in SUBSET Tokens,
         sids' = [sids EXCEPT ![c] = S], seen' = [seen EXCEPT ![c] = T],
         ended \subseteq ended', ended' \subseteq Logins,
         mishap \subseteq mishap', mishap' \subseteq Logins,
         UNCHANGED <<redis, token, sid, issued>>,
         to \notin {"blacklist", "unlink", "left"},
         to \in {"readJtis", "revoke"} => S \subseteq ended',
         to = "revoke" => \A t \in T : sid[t] \in S
  PROVE  IInv' /\ Shrinks
<1> USE DEF redis, keys
<1>1. Base
  BY DEF IInv
<1>2. Shapes'
  BY <1>1 DEF Base, Shapes
<1>3. /\ sids'[c] = S /\ seen'[c] = T
      /\ \A d \in Callers : d # c => sids'[d] = sids[d] /\ seen'[d] = seen[d]
  BY <1>1 DEF Base, Shapes
<1>4. Base' /\ \A t \in Tokens : token'[t] = token[t] /\ pc'[t] = pc[t]
  BY <1>1, <1>2, <1>3, CallerBase
<1> QED
  BY <1>4, OthersKept

LEMMA RevokeReadInv ==
  ASSUME IInv, NEW c \in Callers, RevokeRead(c) \/ RevokeAllIndex(c) \/ RevokeAllJtis(c)
  PROVE  IInv' /\ Shrinks
<1>1. Base
  BY DEF IInv
<1>2. CASE RevokeRead(c)
  <2>1. PICK s \in record \cup {sid[t] : t \in issued} :
         /\ sids' = [sids EXCEPT ![c] = {s}]
         /\ seen' = [seen EXCEPT ![c] = jtis[s]]
         /\ ended' = ended \cup {s}
    BY <1>2 DEF RevokeRead
  <2>2. s \in Logins
    BY <1>1 DEF Base, Shapes, Alive, Minted
  <2>3. jtis[s] \in SUBSET Tokens /\ {s} \in SUBSET Logins /\ \A t \in jtis[s] : sid[t] \in {s}
    BY <1>1, <2>2 DEF Base, Shapes, Linked
  <2>4. "revoke" \in CallerPc /\ pc' = [pc EXCEPT ![c] = "revoke"]
    BY <1>2 DEF CallerPc, RevokeRead, Goto
  <2>5. /\ UNCHANGED <<redis, token, sid, mishap, issued>> /\ {s} \subseteq ended'
        /\ ended \subseteq ended' /\ ended' \subseteq Logins /\ mishap \subseteq Logins
    BY <1>1, <1>2, <2>1, <2>2 DEF RevokeRead, Base, Shapes
  <2> QED
    BY <2>1, <2>3, <2>4, <2>5, ReadInv
<1>3. CASE RevokeAllIndex(c)
  <2>1. index \in SUBSET Logins /\ "readJtis" \in CallerPc /\ pc' = [pc EXCEPT ![c] = "readJtis"]
    BY <1>1, <1>3 DEF CallerPc, RevokeAllIndex, Goto, Base, Shapes
  <2>2. seen' = [seen EXCEPT ![c] = seen[c]] /\ seen[c] \in SUBSET Tokens
    BY <1>1, <1>3 DEF RevokeAllIndex, Base, Shapes
  <2>3. /\ sids' = [sids EXCEPT ![c] = index] /\ ended \subseteq ended' /\ ended' \subseteq Logins
        /\ index \subseteq ended' /\ mishap \subseteq Logins
        /\ UNCHANGED <<redis, token, sid, mishap, issued>>
    BY <1>1, <1>3 DEF RevokeAllIndex, Base, Shapes
  <2> QED
    BY <2>1, <2>2, <2>3, ReadInv
<1>4. CASE RevokeAllJtis(c)
  <2>1. PICK lost \in Losable(sids[c]) :
          /\ seen' = [seen EXCEPT ![c] = UNION {jtis[s] : s \in sids[c] \ lost}]
          /\ mishap' = mishap \cup lost
    BY <1>4 DEF RevokeAllJtis
  <2> DEFINE T == UNION {jtis[s] : s \in sids[c] \ lost}
  <2>2. pc[c] = "readJtis" /\ "revoke" \in CallerPc /\ pc' = [pc EXCEPT ![c] = "revoke"]
    BY <1>4 DEF CallerPc, RevokeAllJtis, Goto
  <2>3. /\ sids' = [sids EXCEPT ![c] = sids[c]] /\ sids[c] \in SUBSET Logins
        /\ ended' = ended /\ ended' \subseteq Logins /\ sids[c] \subseteq ended'
    BY <1>1, <1>4, <2>2 DEF RevokeAllJtis, Base, Shapes, Ending
  <2>4. T \in SUBSET Tokens /\ \A t \in T : sid[t] \in sids[c]
    BY <1>1, <2>3 DEF Base, Shapes, Linked
  <2>5. mishap \subseteq mishap' /\ mishap' \subseteq Logins
    BY <1>1, <2>1, <2>3, LostIsRead DEF Base, Shapes
  <2>6. seen' = [seen EXCEPT ![c] = T] /\ UNCHANGED <<redis, token, sid, issued>>
    BY <1>4, <2>1 DEF RevokeAllJtis
  <2> HIDE DEF T
  <2> QED
    BY <2>2, <2>3, <2>4, <2>5, <2>6, ReadInv
<1> QED
  BY <1>2, <1>3, <1>4

LEMMA LookInv ==
  ASSUME IInv, NEW c \in Callers, TouchRead(c) \/ ListRead(c) \/ ListGet(c)
  PROVE  IInv' /\ Shrinks
<1>1. Base
  BY DEF IInv
<1>2. PICK S \in SUBSET Logins, to \in {"touch", "list", "done", "heal"} :
        sids' = [sids EXCEPT ![c] = S] /\ pc' = [pc EXCEPT ![c] = to]
  <2>1. CASE TouchRead(c)
    BY <1>1, <2>1 DEF TouchRead, Goto, Base, Shapes
  <2>2. CASE ListRead(c)
    BY <1>1, <2>2 DEF ListRead, Goto, Base, Shapes
  <2>3. CASE ListGet(c)
    <3>1. PICK lost \in Losable(sids[c] \cap record) :
            sids' = [sids EXCEPT ![c] = (sids[c] \ record) \cup lost]
      BY <2>3 DEF ListGet
    <3>2. (sids[c] \ record) \cup lost \in SUBSET Logins
      BY <1>1, LostIsRead DEF Base, Shapes
    <3> QED
      BY <2>3, <3>1, <3>2 DEF ListGet, Goto
  <2> QED
    BY <2>1, <2>2, <2>3
<1>3. /\ UNCHANGED <<redis, token, sid, issued>> /\ seen' = seen /\ ended' = ended
      /\ mishap \subseteq mishap' /\ mishap' \subseteq Logins
  <2>1. mishap \subseteq Logins /\ sids[c] \subseteq Logins
    BY <1>1 DEF Base, Shapes
  <2>2. CASE TouchRead(c) \/ ListRead(c)
    BY <2>1, <2>2 DEF TouchRead, ListRead, history
  <2>3. CASE ListGet(c)
    <3>1. PICK lost \in Losable(sids[c] \cap record) : mishap' = mishap \cup lost
      BY <2>3 DEF ListGet
    <3> QED
      BY <2>1, <2>3, <3>1, LostIsRead DEF ListGet
  <2> QED
    BY <2>2, <2>3
<1>4. seen' = [seen EXCEPT ![c] = seen[c]] /\ seen[c] \in SUBSET Tokens /\ ended' \subseteq Logins
  BY <1>1, <1>3 DEF Base, Shapes
<1>5. to \in CallerPc
  BY DEF CallerPc
<1> QED
  BY <1>2, <1>3, <1>4, <1>5, ReadInv

\* TouchWrite and ListHeal touch the records and the indexes alone.
LEMMA WriteInv ==
  ASSUME IInv, NEW c \in Callers, TouchWrite(c) \/ ListHeal(c)
  PROVE  IInv' /\ Shrinks
<1>1. Base
  BY DEF IInv
<1>2. /\ pc' = [pc EXCEPT ![c] = "done"] /\ "done" \in CallerPc
      /\ UNCHANGED <<allow, black, jtis, locals, history, issued>>
  BY DEF TouchWrite, ListHeal, Goto, CallerPc
<1>3. Shapes'
  BY <1>1, <1>2 DEF TouchWrite, ListHeal, Base, Shapes, locals, history
<1>4. Base' /\ \A t \in Tokens : token'[t] = token[t] /\ pc'[t] = pc[t]
  BY <1>1, <1>2, <1>3, CallerBase DEF locals, history
<1> QED
  BY <1>2, <1>4, OthersKept DEF locals, history

\* The tokens go that the revoke has seen, and the session with its tokens.
LEMMA RevokeDeleteInv ==
  ASSUME IInv, NEW c \in Callers, RevokeDelete(c)
  PROVE  IInv' /\ Shrinks
<1>1. Base /\ pc[c] = "revoke"
  BY DEF IInv, RevokeDelete
<1>2. /\ pc' = [pc EXCEPT ![c] = "revoked"] /\ "revoked" \in CallerPc
      /\ UNCHANGED <<black, locals, history, issued>> /\ allow' = allow \ seen[c]
      /\ jtis' = [s \in Logins |-> IF s \in sids[c] THEN {} ELSE jtis[s]]
  BY DEF RevokeDelete, Goto, CallerPc
<1>3. Shapes'
  BY <1>1, <1>2 DEF RevokeDelete, Base, Shapes, locals, history
<1>4. sids[c] \subseteq ended /\ \A t \in seen[c] : sid[t] \in ended
  BY <1>1 DEF Base, Ending
<1>5. /\ \A s \in Logins : jtis'[s] \subseteq jtis[s]
      /\ \A s \in Logins : s \notin ended => jtis'[s] = jtis[s]
  BY <1>2, <1>4
<1>6. Base' /\ \A t \in Tokens : token'[t] = token[t] /\ pc'[t] = pc[t]
  BY <1>1, <1>2, <1>3, <1>5, CallerBase DEF locals, history
<1> QED
  BY <1>2, <1>4, <1>5, <1>6, OthersKept DEF locals, history

LEMMA LogoutInv ==
  ASSUME IInv, NEW c \in Callers, Logout(c)
  PROVE  IInv' /\ Shrinks
<1>1. Base
  BY DEF IInv
<1>2. PICK t \in issued :
        /\ token' = [token EXCEPT ![c] = t] /\ ended' = ended \cup {sid[t]}
        /\ allow' \in {allow, allow \ {t}} /\ mishap' \in {mishap, mishap \cup {sid[t]}}
  BY DEF Logout, Smooth, Fault
<1>3. /\ pc' = [pc EXCEPT ![c] = "blacklist"] /\ "blacklist" \in CallerPc
      /\ UNCHANGED <<black, record, index, recent, jtis, sid, sids, seen, issued>>
  BY DEF Logout, Goto, CallerPc, keys
<1>4. t \in Tokens /\ sid[t] \in Logins
  BY <1>1 DEF Base, Shapes, Alive, Minted
<1>5. /\ token' \in [Requests -> Tokens \cup {None}] /\ token'[c] = t
      /\ \A q \in Requests : q # c => token'[q] = token[q]
  BY <1>1, <1>2, <1>4, Sorts DEF Base, Shapes
<1>6. allow' \subseteq allow /\ mishap \subseteq mishap' /\ mishap' \subseteq Logins
      /\ ended \subseteq ended' /\ ended' \subseteq Logins /\ sid[t] \in ended'
      /\ \A q \in allow : q \notin allow' => q = t
  BY <1>1, <1>2, <1>4 DEF Base, Shapes
<1>7. Shapes'
  BY <1>1, <1>3, <1>5, <1>6 DEF Base, Shapes
<1>8. Base' /\ \A q \in Tokens : token'[q] = token[q] /\ pc'[q] = pc[q]
  BY <1>1, <1>3, <1>5, <1>6, <1>7, CallerBase
<1> QED
  BY <1>3, <1>6, <1>8, OthersKept

\* safeBlacklist and unlinkRefreshJti of a logout.
LEMMA LeaveInv ==
  ASSUME IInv, NEW c \in Callers, Blacklist(c) \/ Unlink(c)
  PROVE  IInv' /\ Shrinks
<1>1. Base /\ pc[c] \in {"blacklist", "unlink"}
  BY DEF IInv, Blacklist, Unlink
<1>2. token[c] \in issued /\ sid[token[c]] \in ended /\ token[c] \in Tokens
      /\ SessionOf(c) = sid[token[c]] /\ SessionOf(c) \in Logins
  BY <1>1, Sorts DEF Base, Ending, Shapes, SessionOf, Tokens
<1>3. PICK to \in {"unlink", "left"} : pc' = [pc EXCEPT ![c] = to]
  BY Sorts DEF Blacklist, Unlink, Goto
<1>4. /\ UNCHANGED <<allow, record, index, recent, token, sid, sids, seen, ended, issued>>
      /\ mishap' \in {mishap, mishap \cup {SessionOf(c)}}
      /\ black' \in {black, black \cup {token[c]}}
      /\ jtis' = jtis \/ jtis' = [jtis EXCEPT ![SessionOf(c)] = @ \ {token[c]}]
  BY DEF Blacklist, Unlink, keys, locals, Smooth, Fault
<1>5. /\ jtis' \in [Logins -> SUBSET Tokens]
      /\ \A s \in Logins : jtis'[s] \subseteq jtis[s]
      /\ \A s \in Logins : s \notin ended => jtis'[s] = jtis[s]
  BY <1>1, <1>2, <1>4 DEF Base, Shapes
<1>6. mishap \subseteq mishap' /\ mishap' \subseteq Logins /\ black' \subseteq Tokens
  BY <1>1, <1>2, <1>4 DEF Base, Shapes
<1>7. Shapes' /\ to \in CallerPc
  BY <1>1, <1>4, <1>5, <1>6 DEF Base, Shapes, CallerPc
<1>8. Base' /\ \A q \in Tokens : token'[q] = token[q] /\ pc'[q] = pc[q]
  BY <1>1, <1>2, <1>3, <1>4, <1>5, <1>7, CallerBase
<1> QED
  BY <1>4, <1>5, <1>6, <1>8, OthersKept

LEMMA ExpireInv ==
  ASSUME IInv, (\E t \in Tokens : ExpireToken(t)) \/ \E s \in Logins : ExpireRecord(s)
  PROVE  IInv' /\ Shrinks
<1>1. Base /\ Linked
  BY DEF IInv, Base
<1>2. /\ UNCHANGED <<black, index, recent, jtis, token, sid, sids, seen, ended, issued, pc>>
      /\ record' \subseteq record
  BY DEF ExpireToken, ExpireRecord, keys, locals, history
<1>3. \/ allow' = allow /\ mishap' = mishap
      \/ \E t \in allow : allow' = allow \ {t} /\ mishap' = mishap \cup {sid[t]}
  BY DEF ExpireToken, ExpireRecord, history
<1>4. /\ allow' \subseteq allow /\ mishap \subseteq mishap' /\ mishap' \subseteq Logins
      /\ \A t \in allow : t \notin allow' => sid[t] \in mishap'
  BY <1>1, <1>3 DEF Base, Shapes, Alive, Minted
<1>5. Base'
  <2>1. Shapes'
    BY <1>1, <1>2, <1>4 DEF Base, Shapes
  <2>2. Places' /\ Minted' /\ Alive'
    BY <1>1, <1>2, <1>4 DEF Base, Places, Minted, Alive
  <2>3. Ending' /\ Linked'
    BY <1>1, <1>2 DEF Base, Ending, Linked
  <2> QED
    BY <2>1, <2>2, <2>3 DEF Base
<1> QED
  BY <1>2, <1>4, <1>5, OthersKept

\* Whose step it is: a token's request, a caller, or time.
LoginStep(r) ==
  \/ Verify(r) \/ Consume(r) \/ Load(r) \/ SetAllow(r) \/ Link(r)
  \/ Blacklist(r) \/ Unlink(r) \/ Crash(r)
CallerStep(c) == Blacklist(c) \/ Unlink(c) \/ Call(c)
TimeStep == (\E t \in Tokens : ExpireToken(t)) \/ \E s \in Logins : ExpireRecord(s)

LEMMA WhoSteps ==
  ASSUME IInv, [Next]_vars
  PROVE  \/ \E r \in Tokens : Create(r) \/ LoginStep(r)
         \/ \E c \in Callers : CallerStep(c)
         \/ TimeStep \/ UNCHANGED vars
<1>1. \A c \in Callers : ~(Create(c) \/ Verify(c) \/ Load(c) \/ SetAllow(c) \/ Link(c) \/ Consume(c) \/ Crash(c))
  BY Sorts DEF IInv, Base, Places, CallerPc, Create, Verify, Load, SetAllow, Link, Consume, Crash
<1>2. \A t \in Tokens : ~Call(t)
  BY Sorts DEF IInv, Base, Places, RefreshPc, LoginPc, Call, Logout, RevokeRead, RevokeAllIndex,
               TouchRead, ListRead, RevokeAllJtis, RevokeDelete, TouchWrite, ListGet, ListHeal
<1>3. ASSUME NEW r \in Requests, Mint(r) \/ Retire(r) \/ Call(r) \/ Crash(r)
      PROVE  \/ r \in Tokens /\ (Create(r) \/ LoginStep(r))
             \/ r \in Callers /\ CallerStep(r)
  BY <1>1, <1>2, <1>3, Sorts DEF Mint, Retire, LoginStep, CallerStep
<1> QED
  BY <1>3 DEF Next, TimeStep

LEMMA StepInv == IInv /\ [Next]_vars => IInv'
<1> SUFFICES ASSUME IInv, [Next]_vars PROVE IInv'
  OBVIOUS
<1>1. ASSUME NEW r \in Tokens, Create(r) \/ LoginStep(r) PROVE IInv'
  BY <1>1, CreateInv, VerifyInv, ConsumeInv, LoadInv, SetAllowInv, LinkInv, BlacklistInv,
     UnlinkInv, CrashInv, Sorts DEF LoginStep
<1>2. ASSUME NEW c \in Callers, CallerStep(c) PROVE IInv'
  BY <1>2, LogoutInv, RevokeReadInv, RevokeDeleteInv, LookInv, WriteInv, LeaveInv
     DEF CallerStep, Call
<1>3. CASE UNCHANGED vars
  BY <1>3 DEF vars, redis, keys, locals, history, IInv, Base, Places, Shapes, Minted, Alive,
              Ending, Linked, SpentOnce, Spent, OneHolder, Held, Holders, Carries, SessionOf, Found
<1> QED
  BY <1>1, <1>2, <1>3, ExpireInv, WhoSteps DEF TimeStep

LEMMA InvAlways == Spec => []IInv
BY InitInv, StepInv, PTL DEF Spec

-----------------------------------------------------------------------------
(* The records and indexes of the sessions *)

Started == {s \in Logins : pc[s] # "start"}

\* Only sessions that were created are ever read; and one that nobody ends and
\* whose record has not expired has its record, and is not about to be healed away.
Known ==
  /\ lapsed \subseteq Logins
  /\ record \cup index \cup recent \subseteq Started
  /\ \A c \in Callers : sids[c] \subseteq Started
  /\ \A s \in Started : s \notin mishap \cup ended \cup lapsed =>
       /\ s \in record /\ s \in index
       /\ \A c \in Callers : pc[c] = "heal" => s \notin sids[c]

LEMMA KnownFirst == Init => Known
BY Sorts DEF Init, Known, Started

LEMMA KnownKept ==
  ASSUME Known, Started \subseteq Started', lapsed' = lapsed,
         mishap \subseteq mishap', ended \subseteq ended',
         record' \cup index' \cup recent' \subseteq Started',
         \A c \in Callers : sids'[c] \subseteq Started',
         \A s \in Started' : s \notin mishap' \cup ended' \cup lapsed =>
           \/ s \notin Started /\ s \in record' /\ s \in index'
              /\ \A c \in Callers : pc'[c] = "heal" => s \notin sids'[c]
           \/ /\ s \in Started /\ (s \in record => s \in record') /\ (s \in index => s \in index')
              /\ \A c \in Callers : pc'[c] = "heal" /\ s \in sids'[c] =>
                   s \notin record \/ (pc[c] = "heal" /\ s \in sids[c])
  PROVE  Known'
BY DEF Known, Started

LEMMA LoginStepFacts ==
  ASSUME IInv, NEW r \in Tokens, LoginStep(r)
  PROVE  /\ UNCHANGED <<keys, sids, seen, lapsed, ended>> /\ mishap \subseteq mishap'
         /\ \A c \in Callers : pc'[c] = pc[c] /\ token'[c] = token[c]
         /\ Started' = Started
<1>1. UNCHANGED <<keys, sids, seen, lapsed, ended>> /\ mishap \subseteq mishap'
  BY DEF LoginStep, Verify, Consume, Load, SetAllow, Link, Blacklist, Unlink, Crash, redis, locals,
         history, Smooth, Fault
<1>2. /\ pc' \in {[pc EXCEPT ![r] = l] : l \in RefreshPc \ {"start"}}
      /\ r \in Logins => pc[r] # "start"
  <2>1. Base
    BY DEF IInv
  <2>2. CASE Verify(r)
    BY <2>2, Sorts DEF Verify, Goto, RefreshPc, LoginPc
  <2>3. CASE Consume(r) \/ Load(r) \/ SetAllow(r) \/ Link(r) \/ Crash(r)
    BY <2>3 DEF Consume, Load, SetAllow, Link, Crash, Goto, RefreshPc, LoginPc
  <2>4. CASE Blacklist(r) \/ Unlink(r)
    BY <2>1, <2>4, Sorts DEF Blacklist, Unlink, Goto, RefreshPc, LoginPc, Base, Places
  <2> QED
    BY <2>2, <2>3, <2>4 DEF LoginStep
<1>3. \A q \in Requests \ {r} : pc'[q] = pc[q]
  BY <1>2, Sorts DEF IInv, Base, Places
<1>4. pc'[r] # "start"
  BY <1>2, Sorts DEF IInv, Base, Places
<1>5. \A c \in Callers : token'[c] = token[c]
  BY Sorts DEF IInv, Base, Shapes, LoginStep, Verify, Consume, Load, SetAllow, Link, Blacklist,
               Unlink, Crash, locals
<1> QED
  BY <1>1, <1>2, <1>3, <1>4, <1>5, Sorts DEF Started

LEMMA KnownLogin ==
  ASSUME IInv, Known, NEW r \in Tokens, Create(r) \/ LoginStep(r)
  PROVE  Known'
<1>1. CASE LoginStep(r)
  <2>1. /\ UNCHANGED <<record, index, recent, sids, lapsed, ended>> /\ mishap \subseteq mishap'
        /\ (\A c \in Callers : pc'[c] = pc[c]) /\ Started' = Started
    BY <1>1, LoginStepFacts DEF keys
  <2> QED
    BY <2>1 DEF Known
<1>2. CASE Create(r)
  <2>1. /\ r \in Logins /\ pc[r] = "start" /\ UNCHANGED <<sids, lapsed, ended>>
        /\ Enter(r) \/ UNCHANGED keys
        /\ \/ mishap' = mishap \cup {r}
           \/ mishap' = mishap /\ Enter(r)
    BY <1>2 DEF Create, Smooth, Fault, SessionOf
  <2>2. PICK l \in {"load", "refused"} : pc' = [pc EXCEPT ![r] = l]
    BY <1>2 DEF Create, Goto
  <2>3. Started' = Started \cup {r} /\ r \notin Started /\ \A c \in Callers : pc'[c] = pc[c]
    BY <2>1, <2>2, Sorts DEF IInv, Base, Places, Started
  <2>4. /\ record' \in {record, record \cup {r}} /\ index' \in {index, index \cup {r}}
        /\ recent' \in {recent, recent \cup {r}}
        /\ r \notin mishap' => r \in record' /\ r \in index'
    BY <2>1 DEF Enter, keys
  <2>5. record' \cup index' \cup recent' \subseteq Started'
        /\ \A c \in Callers : sids'[c] \subseteq Started' /\ r \notin sids'[c]
    BY <2>1, <2>3, <2>4 DEF Known
  <2> QED
    BY <2>1, <2>3, <2>4, <2>5, KnownKept
<1> QED
  BY <1>1, <1>2

\* A step of a caller starts no login.
LEMMA CallerStepFacts ==
  ASSUME IInv, NEW c \in Callers, CallerStep(c)
  PROVE  /\ \A t \in Tokens : pc'[t] = pc[t] /\ token'[t] = token[t]
         /\ Started' = Started /\ lapsed' = lapsed /\ mishap \subseteq mishap' /\ ended \subseteq ended'
         /\ \A d \in Callers \ {c} : pc'[d] = pc[d] /\ token'[d] = token[d]
<1> USE DEF history, locals
<1>1. lapsed' = lapsed /\ mishap \subseteq mishap' /\ ended \subseteq ended'
  <2>1. CASE Blacklist(c) \/ Unlink(c)
    BY <2>1 DEF Blacklist, Unlink, Smooth, Fault
  <2>2. CASE Logout(c) \/ RevokeRead(c) \/ RevokeAllIndex(c) \/ RevokeAllJtis(c) \/ RevokeDelete(c)
    BY <2>2 DEF Logout, RevokeRead, RevokeAllIndex, RevokeAllJtis, RevokeDelete, Smooth, Fault
  <2>3. CASE TouchRead(c) \/ TouchWrite(c) \/ ListRead(c) \/ ListGet(c) \/ ListHeal(c)
    BY <2>3 DEF TouchRead, TouchWrite, ListRead, ListGet, ListHeal
  <2> QED
    BY <2>1, <2>2, <2>3 DEF CallerStep, Call
<1>2. \E l : pc' = [pc EXCEPT ![c] = l]
  BY DEF CallerStep, Call, Blacklist, Unlink, Logout, RevokeRead, RevokeAllIndex, RevokeAllJtis,
         RevokeDelete, TouchRead, TouchWrite, ListRead, ListGet, ListHeal, Goto
<1>3. token' = token \/ \E t : token' = [token EXCEPT ![c] = t]
  BY DEF CallerStep, Call, Blacklist, Unlink, Logout, RevokeRead, RevokeAllIndex, RevokeAllJtis,
         RevokeDelete, TouchRead, TouchWrite, ListRead, ListGet, ListHeal
<1>4. \A q \in Requests \ {c} : pc'[q] = pc[q] /\ token'[q] = token[q]
  BY <1>2, <1>3 DEF IInv, Base, Places, Shapes
<1>5. \A t \in Tokens : pc'[t] = pc[t] /\ token'[t] = token[t]
  BY <1>4, Sorts
<1>6. Started' = Started
  BY <1>5, Sorts DEF Started
<1> QED
  BY <1>1, <1>4, <1>5, <1>6, Sorts

\* What a caller reads is of sessions that exist; what it takes away is of
\* sessions that are ended, or that it has seen without a record.
LEMMA KnownCall ==
  ASSUME IInv, Known, NEW c \in Callers, CallerStep(c)
  PROVE  Known'
<1> USE DEF keys, redis, locals, history
<1>1. /\ Started' = Started /\ lapsed' = lapsed /\ mishap \subseteq mishap' /\ ended \subseteq ended'
      /\ \A d \in Callers \ {c} : pc'[d] = pc[d]
  BY CallerStepFacts
<1>2. Base /\ sids \in [Callers -> SUBSET Logins] /\ pc \in [Requests -> RefreshPc \cup CallerPc]
      /\ c \in Requests
  BY Sorts DEF IInv, Base, Shapes, Places
<1>3. CASE Blacklist(c) \/ Unlink(c) \/ Logout(c)
  <2>1. UNCHANGED <<keys, sids>>
    BY <1>3 DEF Blacklist, Unlink, Logout
  <2>2. pc'[c] # "heal"
    BY <1>2, <1>3 DEF Blacklist, Unlink, Logout, Goto
  <2> QED
    BY <1>1, <2>1, <2>2, KnownKept DEF Known
<1>4. CASE RevokeRead(c) \/ RevokeAllIndex(c) \/ TouchRead(c) \/ ListRead(c)
  <2>1. UNCHANGED keys
    BY <1>4 DEF RevokeRead, RevokeAllIndex, TouchRead, ListRead
  <2>2. PICK S \in SUBSET Started : sids' = [sids EXCEPT ![c] = S]
    <3>1. \A t \in issued : sid[t] \in Started
      BY <1>2 DEF Base, Shapes, Minted, Alive, Started
    <3>2. CASE RevokeRead(c)
      <4>1. PICK s \in record \cup {sid[t] : t \in issued} : sids' = [sids EXCEPT ![c] = {s}]
        BY <3>2 DEF RevokeRead
      <4>2. {s} \in SUBSET Started
        BY <3>1 DEF Known
      <4> QED
        BY <4>1, <4>2
    <3>3. CASE RevokeAllIndex(c) \/ TouchRead(c)
      BY <3>3 DEF RevokeAllIndex, TouchRead, Known
    <3>4. CASE ListRead(c)
      BY <3>4 DEF ListRead, Known
    <3> QED
      BY <1>4, <3>2, <3>3, <3>4
  <2>3. /\ sids'[c] \subseteq Started
        /\ \A d \in Callers \ {c} : sids'[d] = sids[d]
    BY <1>2, <2>2
  <2>4. pc'[c] # "heal"
    BY <1>2, <1>4 DEF RevokeRead, RevokeAllIndex, TouchRead, ListRead, Goto
  <2> QED
    BY <1>1, <2>1, <2>3, <2>4, KnownKept DEF Known
<1>5. CASE RevokeAllJtis(c)
  <2>1. UNCHANGED <<keys, sids>>
    BY <1>5 DEF RevokeAllJtis
  <2>2. pc'[c] # "heal"
    BY <1>2, <1>5 DEF RevokeAllJtis, Goto
  <2> QED
    BY <1>1, <2>1, <2>2, KnownKept DEF Known
<1>6. CASE RevokeDelete(c)
  <2>1. /\ record' = record \ sids[c] /\ index' = index \ sids[c] /\ recent' = recent \ sids[c]
        /\ sids' = sids /\ ended' = ended /\ sids[c] \subseteq ended
    BY <1>2, <1>6 DEF RevokeDelete, Base, Ending
  <2>2. pc'[c] # "heal"
    BY <1>2, <1>6 DEF RevokeDelete, Goto
  <2> QED
    BY <1>1, <2>1, <2>2, KnownKept DEF Known
<1>7. CASE TouchWrite(c)
  <2>1. /\ record' = record \cup sids[c] /\ index' = index /\ recent' = recent \cup sids[c]
        /\ sids' = sids
    BY <1>7 DEF TouchWrite
  <2>2. pc'[c] # "heal"
    BY <1>2, <1>7 DEF TouchWrite, Goto
  <2> QED
    BY <1>1, <2>1, <2>2, KnownKept DEF Known
<1>8. CASE ListGet(c)
  <2>1. PICK lost \in Losable(sids[c] \cap record) :
          /\ sids' = [sids EXCEPT ![c] = (sids[c] \ record) \cup lost]
          /\ mishap' = mishap \cup lost
    BY <1>8 DEF ListGet
  <2>2. UNCHANGED keys /\ lost \subseteq sids[c] \cap mishap'
    BY <1>8, <2>1, LostIsRead DEF ListGet
  <2>3. /\ sids'[c] \subseteq sids[c] /\ \A s \in sids'[c] : s \in mishap' \/ s \notin record
        /\ \A d \in Callers \ {c} : sids'[d] = sids[d]
    BY <1>2, <2>1, <2>2
  <2> QED
    BY <1>1, <2>2, <2>3, KnownKept DEF Known
<1>9. CASE ListHeal(c)
  <2>1. /\ index' = index \ sids[c] /\ recent' = recent \ sids[c] /\ record' = record
        /\ sids' = sids /\ pc[c] = "heal"
    BY <1>9 DEF ListHeal
  <2>2. pc'[c] # "heal"
    BY <1>2, <1>9 DEF ListHeal, Goto
  <2> QED
    BY <1>1, <2>1, <2>2, KnownKept DEF Known
<1> QED
  BY <1>3, <1>4, <1>5, <1>6, <1>7, <1>8, <1>9 DEF CallerStep, Call

LEMMA KnownNext == IInv /\ Known /\ [Next]_vars => Known'
<1> SUFFICES ASSUME IInv, Known, [Next]_vars PROVE Known'
  OBVIOUS
<1>1. CASE TimeStep
  <2>1. /\ UNCHANGED <<index, recent, sids, ended, pc>> /\ mishap \subseteq mishap'
        /\ \/ record' = record /\ lapsed' = lapsed
           \/ \E s \in Logins : record' = record \ {s} /\ lapsed' = lapsed \cup {s}
    BY <1>1 DEF TimeStep, ExpireToken, ExpireRecord, keys, locals, history
  <2>2. Started' = Started
    BY <2>1 DEF Started
  <2> QED
    BY <2>1, <2>2 DEF Known
<1>2. CASE UNCHANGED vars
  BY <1>2 DEF vars, redis, keys, locals, history, Known, Started
<1> QED
  BY <1>1, <1>2, WhoSteps, KnownLogin, KnownCall

LEMMA FindableFollows == IInv /\ Known => Findable
<1> SUFFICES ASSUME IInv, Known, NEW t \in allow, sid[t] \notin mishap \cup ended, pc[t] = "ok"
             PROVE  t \in jtis[sid[t]] /\ (sid[t] \notin lapsed => sid[t] \in index)
  BY DEF Findable
<1>1. t \in Tokens /\ sid[t] \in Started
  BY DEF IInv, Base, Shapes, Minted, Started
<1> QED
  BY <1>1 DEF IInv, Found, Known

-----------------------------------------------------------------------------
(* What is taken away stays away *)

\* The requests of tokens that are linked, or that a caller has read, are over;
\* and whose SET was not lost has a live token until it is given out.
Settled ==
  /\ \A s \in Logins : \A t \in jtis[s] : pc[t] = "ok"
  /\ \A c \in Callers : \A t \in seen[c] : pc[t] = "ok"
  /\ \A r \in Tokens : pc[r] = "link" /\ sid[r] \notin mishap \cup ended => r \in allow

TakenInv == Settled /\ TakenStaysOut

LEMMA TakenFirst == Init => TakenInv
BY Sorts DEF Init, TakenInv, Settled, TakenStaysOut

\* A request of a token makes no token live but its own, which is new.
LEMMA LoginTakes ==
  ASSUME IInv, NEW r \in Tokens, Create(r) \/ LoginStep(r)
  PROVE  /\ \A q \in Tokens \ {r} : pc'[q] = pc[q] /\ sid'[q] = sid[q]
         /\ pc[r] # "ok" /\ r \notin issued
         /\ allow' \subseteq allow \cup {r} /\ allow \ allow' \subseteq issued
         /\ \A s \in Logins : jtis'[s] \subseteq jtis[s] \cup {r} /\ (pc'[r] # "ok" => jtis'[s] \subseteq jtis[s])
         /\ pc'[r] = "link" /\ sid'[r] \notin mishap' => r \in allow'
         /\ UNCHANGED <<seen, ended>> /\ mishap \subseteq mishap'
         /\ \A c \in Callers : pc'[c] = pc[c] /\ token'[c] = token[c]
<1> USE DEF redis, locals, history
<1>1. Base /\ r \in Requests /\ pc \in [Requests -> RefreshPc \cup CallerPc]
      /\ sid \in [Tokens -> Logins \cup {None}] /\ jtis \in [Logins -> SUBSET Tokens]
  BY Sorts DEF IInv, Base, Shapes, Places
<1>2. pc[r] # "ok"
  BY DEF LoginStep, Create, Verify, Consume, Load, SetAllow, Link, Blacklist, Unlink, Crash, Final
<1>3. r \notin issued
  BY <1>1, <1>2 DEF Base, Alive
<1>4. \E l : pc' = [pc EXCEPT ![r] = l]
  BY DEF LoginStep, Create, Verify, Consume, Load, SetAllow, Link, Blacklist, Unlink, Crash, Goto
<1>5. sid' = sid \/ \E s : sid' = [sid EXCEPT ![r] = s]
  BY DEF LoginStep, Create, Verify, Consume, Load, SetAllow, Link, Blacklist, Unlink, Crash
<1>6. \A q \in Tokens \ {r} : pc'[q] = pc[q] /\ sid'[q] = sid[q]
  BY <1>1, <1>4, <1>5, Sorts
<1>7. UNCHANGED <<seen, ended>> /\ mishap \subseteq mishap'
      /\ \A c \in Callers : pc'[c] = pc[c] /\ token'[c] = token[c]
  <2>1. CASE LoginStep(r)
    BY <2>1, LoginStepFacts
  <2>2. CASE Create(r)
    BY <1>1, <1>4, <2>2, Sorts DEF Create, Smooth, Fault
  <2> QED
    BY <2>1, <2>2
<1>8. /\ allow' \subseteq allow \cup {r} /\ allow \ allow' \subseteq issued
      /\ pc'[r] = "link" /\ sid'[r] \notin mishap' => r \in allow'
  <2>1. CASE Create(r) \/ Verify(r) \/ Load(r) \/ Link(r) \/ Blacklist(r) \/ Unlink(r) \/ Crash(r)
    <3>1. allow' = allow
      BY <2>1 DEF Create, Verify, Load, Link, Blacklist, Unlink, Crash
    <3>2. pc'[r] # "link"
      BY <1>1, <2>1 DEF Create, Verify, Load, Link, Blacklist, Unlink, Crash, Goto
    <3> QED
      BY <3>1, <3>2
  <2>2. CASE Consume(r)
    <3>1. allow' \in {allow, allow \ {token[r]}} /\ pc[r] = "consume"
      BY <2>2 DEF Consume
    <3>2. token[r] \in issued
      BY <1>1, <3>1 DEF Base, Places, Minted, LoginPc, Tokens
    <3>3. pc'[r] # "link"
      BY <1>1, <2>2 DEF Consume, Goto
    <3> QED
      BY <3>1, <3>2, <3>3
  <2>3. CASE SetAllow(r)
    <3>1. SessionOf(r) = sid[r] /\ sid' = sid
      BY <1>1, <2>3, OwnSession DEF SetAllow
    <3> QED
      BY <2>3, <3>1 DEF SetAllow, Smooth, Fault
  <2> QED
    BY <2>1, <2>2, <2>3 DEF LoginStep
<1>9. \A s \in Logins : jtis'[s] \subseteq jtis[s] \cup {r} /\ (pc'[r] # "ok" => jtis'[s] \subseteq jtis[s])
  <2>1. CASE Create(r) \/ Verify(r) \/ Consume(r) \/ Load(r) \/ SetAllow(r) \/ Blacklist(r) \/ Crash(r)
    BY <2>1 DEF Create, Verify, Consume, Load, SetAllow, Blacklist, Crash
  <2>2. CASE Unlink(r)
    BY <1>1, <2>2 DEF Unlink
  <2>3. CASE Link(r)
    <3>1. pc'[r] = "ok" /\ (jtis' = jtis \/ jtis' = [jtis EXCEPT ![SessionOf(r)] = @ \cup {r}])
      BY <1>1, <2>3 DEF Link, Goto
    <3> QED
      BY <1>1, <3>1
  <2> QED
    BY <2>1, <2>2, <2>3 DEF LoginStep
<1> QED
  BY <1>2, <1>3, <1>6, <1>7, <1>8, <1>9

LEMMA TakenLogin ==
  ASSUME IInv, TakenInv, NEW r \in Tokens, Create(r) \/ LoginStep(r)
  PROVE  TakenInv'
<1>1. /\ \A q \in Tokens \ {r} : pc'[q] = pc[q] /\ sid'[q] = sid[q]
      /\ pc[r] # "ok" /\ r \notin issued
      /\ allow' \subseteq allow \cup {r} /\ allow \ allow' \subseteq issued
      /\ \A s \in Logins : jtis'[s] \subseteq jtis[s] \cup {r} /\ (pc'[r] # "ok" => jtis'[s] \subseteq jtis[s])
      /\ pc'[r] = "link" /\ sid'[r] \notin mishap' => r \in allow'
      /\ UNCHANGED <<seen, ended>> /\ mishap \subseteq mishap'
      /\ \A c \in Callers : pc'[c] = pc[c] /\ token'[c] = token[c]
  BY LoginTakes
<1>2. Base /\ issued \subseteq Tokens /\ \A t \in issued : pc[t] = "ok"
  BY DEF IInv, Base, Shapes, Alive
<1>3. \A s \in Logins : jtis[s] \subseteq Tokens
  BY <1>2 DEF Base, Shapes
<1>4. \A c \in Callers : seen[c] \subseteq Tokens
  BY <1>2 DEF Base, Shapes
<1>5. \A s \in Logins : \A t \in jtis'[s] : pc'[t] = "ok"
  <2> SUFFICES ASSUME NEW s \in Logins, NEW t \in jtis'[s] PROVE pc'[t] = "ok"
    OBVIOUS
  <2>1. CASE t = r
    BY <1>1, <2>1 DEF TakenInv, Settled
  <2>2. CASE t # r
    BY <1>1, <1>3, <2>2 DEF TakenInv, Settled
  <2> QED
    BY <2>1, <2>2
<1>6. \A c \in Callers : \A t \in seen'[c] : pc'[t] = "ok"
  BY <1>1, <1>4 DEF TakenInv, Settled
<1>7. \A q \in Tokens : pc'[q] = "link" /\ sid'[q] \notin mishap' \cup ended' => q \in allow'
  <2> SUFFICES ASSUME NEW q \in Tokens \ {r}, pc[q] = "link", sid[q] \notin mishap \cup ended
               PROVE  q \in allow'
    BY <1>1
  <2> QED
    BY <1>1, <1>2 DEF TakenInv, Settled
<1>8. TakenStaysOut'
  <2> SUFFICES ASSUME NEW c \in Callers
      PROVE  /\ pc[c] = "revoked" => seen[c] \cap allow' = {}
             /\ pc[c] \in {"blacklist", "unlink", "left"} /\ SessionOf(c)' \notin mishap'
                  => token[c] \notin allow'
    BY <1>1 DEF TakenStaysOut
  <2>1. pc[c] = "revoked" => seen[c] \cap allow' = {}
    BY <1>1 DEF TakenInv, Settled, TakenStaysOut
  <2>2. ASSUME pc[c] \in {"blacklist", "unlink", "left"}, SessionOf(c)' \notin mishap'
        PROVE  token[c] \notin allow'
    <3>1. token[c] \in issued /\ token[c] \in Tokens \ {r}
      BY <1>1, <1>2, <2>2 DEF Base, Ending
    <3>2. SessionOf(c)' = SessionOf(c)
      BY <1>1, <3>1, Sorts DEF SessionOf, Tokens
    <3> QED
      BY <1>1, <2>2, <3>1, <3>2 DEF TakenInv, TakenStaysOut
  <2> QED
    BY <2>1, <2>2
<1> QED
  BY <1>5, <1>6, <1>7, <1>8 DEF TakenInv, Settled

\* A caller makes no token live; it reads tokens that are linked.
LEMMA CallTakes ==
  ASSUME IInv, Settled, NEW c \in Callers, CallerStep(c)
  PROVE  /\ sid' = sid /\ allow' \subseteq allow /\ \A t \in allow \ allow' : pc[t] = "ok"
         /\ \A s \in Logins : jtis'[s] \subseteq jtis[s]
         /\ \A d \in Callers \ {c} : seen'[d] = seen[d]
         /\ \A t \in seen'[c] : pc[t] = "ok"
         /\ pc'[c] = "revoked" => seen'[c] \cap allow' = {}
         /\ pc'[c] \in {"blacklist", "unlink", "left"} =>
              \/ sid[token'[c]] \in mishap' \/ token'[c] \notin allow'
              \/ token'[c] = token[c] /\ pc[c] \in {"blacklist", "unlink"}
<1> USE DEF redis, locals, history
<1>1. Base /\ c \in Requests /\ pc \in [Requests -> RefreshPc \cup CallerPc]
      /\ token \in [Requests -> Tokens \cup {None}] /\ jtis \in [Logins -> SUBSET Tokens]
      /\ seen \in [Callers -> SUBSET Tokens] /\ sids \in [Callers -> SUBSET Logins]
      /\ index \subseteq Logins
  BY Sorts DEF IInv, Base, Shapes, Places
<1>2. CASE Blacklist(c) \/ Unlink(c)
  <2>1. /\ UNCHANGED <<sid, allow, seen, token>> /\ pc[c] \in {"blacklist", "unlink"}
        /\ jtis' = jtis \/ jtis' = [jtis EXCEPT ![SessionOf(c)] = @ \ {token[c]}]
    BY <1>2 DEF Blacklist, Unlink
  <2>2. pc'[c] \in {"unlink", "left"}
    BY <1>1, <1>2, Sorts DEF Blacklist, Unlink, Goto
  <2>3. \A s \in Logins : jtis'[s] \subseteq jtis[s]
    BY <1>1, <2>1
  <2> QED
    BY <2>1, <2>2, <2>3 DEF Settled
<1>3. CASE Logout(c)
  <2>1. PICK t \in issued :
          /\ token' = [token EXCEPT ![c] = t]
          /\ allow' = allow \ {t} \/ (allow' = allow /\ sid[t] \in mishap')
    BY <1>3 DEF Logout, Smooth, Fault
  <2>2. token'[c] = t /\ pc[t] = "ok" /\ pc'[c] = "blacklist" /\ UNCHANGED <<sid, jtis, seen>>
    BY <1>1, <1>3, <2>1 DEF Logout, Goto, Base, Alive
  <2> QED
    BY <2>1, <2>2 DEF Settled
<1>4. CASE RevokeRead(c)
  <2>1. PICK s \in Logins : seen' = [seen EXCEPT ![c] = jtis[s]]
    <3>1. \A t \in issued : sid[t] \in Logins
      BY <1>1 DEF Base, Shapes, Minted, Alive
    <3>2. record \subseteq Logins
      BY <1>1 DEF Base, Shapes
    <3>3. PICK s \in record \cup {sid[t] : t \in issued} : seen' = [seen EXCEPT ![c] = jtis[s]]
      BY <1>4 DEF RevokeRead
    <3> QED
      BY <3>1, <3>2, <3>3
  <2>2. pc'[c] = "revoke" /\ seen'[c] = jtis[s] /\ \A d \in Callers \ {c} : seen'[d] = seen[d]
    BY <1>1, <1>4, <2>1 DEF RevokeRead, Goto
  <2>3. UNCHANGED <<sid, allow, jtis>>
    BY <1>4 DEF RevokeRead
  <2> QED
    BY <2>2, <2>3 DEF Settled
<1>5. CASE RevokeAllJtis(c)
  <2>1. /\ UNCHANGED <<sid, allow, jtis>>
        /\ \E lost : seen' = [seen EXCEPT ![c] = UNION {jtis[s] : s \in sids[c] \ lost}]
    BY <1>5 DEF RevokeAllJtis
  <2>2. pc'[c] = "revoke"
    BY <1>1, <1>5 DEF RevokeAllJtis, Goto
  <2>3. /\ seen'[c] \subseteq UNION {jtis[s] : s \in sids[c]}
        /\ \A d \in Callers \ {c} : seen'[d] = seen[d]
    BY <1>1, <2>1
  <2>4. \A t \in seen'[c] : pc[t] = "ok"
    BY <1>1, <2>3 DEF Settled
  <2> QED
    BY <2>1, <2>2, <2>3, <2>4
<1>6. CASE RevokeDelete(c)
  <2>1. /\ allow' = allow \ seen[c] /\ UNCHANGED <<sid, seen>>
        /\ \A s \in Logins : jtis'[s] \subseteq jtis[s]
    BY <1>6 DEF RevokeDelete
  <2>2. pc'[c] = "revoked"
    BY <1>1, <1>6 DEF RevokeDelete, Goto
  <2> QED
    BY <2>1, <2>2 DEF Settled
<1>7. CASE RevokeAllIndex(c) \/ TouchRead(c) \/ TouchWrite(c) \/ ListRead(c) \/ ListGet(c) \/ ListHeal(c)
  <2>1. UNCHANGED <<sid, allow, jtis, seen>>
    BY <1>7 DEF RevokeAllIndex, TouchRead, TouchWrite, ListRead, ListGet, ListHeal
  <2>2. pc'[c] \in {"readJtis", "touch", "done", "list", "heal"}
    BY <1>1, <1>7 DEF RevokeAllIndex, TouchRead, TouchWrite, ListRead, ListGet, ListHeal, Goto
  <2> QED
    BY <2>1, <2>2 DEF Settled
<1> QED
  BY <1>2, <1>3, <1>4, <1>5, <1>6, <1>7 DEF CallerStep, Call

LEMMA TakenCall ==
  ASSUME IInv, IInv', TakenInv, NEW c \in Callers, CallerStep(c)
  PROVE  TakenInv'
<1>1. /\ sid' = sid /\ allow' \subseteq allow /\ \A t \in allow \ allow' : pc[t] = "ok"
      /\ \A s \in Logins : jtis'[s] \subseteq jtis[s]
      /\ \A d \in Callers \ {c} : seen'[d] = seen[d]
      /\ \A t \in seen'[c] : pc[t] = "ok"
      /\ pc'[c] = "revoked" => seen'[c] \cap allow' = {}
      /\ pc'[c] \in {"blacklist", "unlink", "left"} =>
           \/ sid[token'[c]] \in mishap' \/ token'[c] \notin allow'
           \/ token'[c] = token[c] /\ pc[c] \in {"blacklist", "unlink"}
  BY CallTakes DEF TakenInv
<1>2. /\ \A t \in Tokens : pc'[t] = pc[t]
      /\ mishap \subseteq mishap' /\ ended \subseteq ended'
      /\ \A d \in Callers \ {c} : pc'[d] = pc[d] /\ token'[d] = token[d]
  BY CallerStepFacts
<1>3. /\ \A s \in Logins : jtis[s] \subseteq Tokens
      /\ \A d \in Callers : seen'[d] \subseteq Tokens
  BY DEF IInv, Base, Shapes
<1>4. Settled'
  <2>1. \A s \in Logins : \A t \in jtis'[s] : pc'[t] = "ok"
    BY <1>1, <1>2, <1>3 DEF TakenInv, Settled
  <2>2. \A d \in Callers : \A t \in seen'[d] : pc'[t] = "ok"
    BY <1>1, <1>2, <1>3 DEF TakenInv, Settled
  <2>3. \A r \in Tokens : pc'[r] = "link" /\ sid'[r] \notin mishap' \cup ended' => r \in allow'
    BY <1>1, <1>2 DEF TakenInv, Settled
  <2> QED
    BY <2>1, <2>2, <2>3 DEF Settled
<1>5. TakenStaysOut'
  <2> SUFFICES ASSUME NEW d \in Callers
      PROVE  /\ pc'[d] = "revoked" => seen'[d] \cap allow' = {}
             /\ pc'[d] \in {"blacklist", "unlink", "left"} /\ sid[token'[d]] \notin mishap'
                  => token'[d] \notin allow'
    BY <1>1, Sorts DEF TakenStaysOut, SessionOf
  <2>1. \A e \in Callers : SessionOf(e) = sid[token[e]]
    BY Sorts DEF SessionOf
  <2>2. CASE d = c
    BY <1>1, <1>2, <2>1, <2>2 DEF TakenInv, TakenStaysOut
  <2>3. CASE d # c
    BY <1>1, <1>2, <2>1, <2>3 DEF TakenInv, TakenStaysOut
  <2> QED
    BY <2>2, <2>3
<1> QED
  BY <1>4, <1>5 DEF TakenInv

LEMMA TakenNext == IInv /\ IInv' /\ TakenInv /\ [Next]_vars => TakenInv'
<1> SUFFICES ASSUME IInv, IInv', TakenInv, [Next]_vars PROVE TakenInv'
  OBVIOUS
<1>1. CASE TimeStep
  <2>1. /\ UNCHANGED <<jtis, token, sid, seen, ended, pc>> /\ mishap \subseteq mishap'
        /\ allow' \subseteq allow /\ \A t \in allow \ allow' : sid[t] \in mishap'
    BY <1>1 DEF TimeStep, ExpireToken, ExpireRecord, locals, history
  <2>2. Settled'
    BY <2>1 DEF TakenInv, Settled
  <2>3. TakenStaysOut'
    BY <2>1 DEF TakenInv, TakenStaysOut, SessionOf
  <2> QED
    BY <2>2, <2>3 DEF TakenInv
<1>2. CASE UNCHANGED vars
  BY <1>2 DEF vars, redis, locals, history, TakenInv, Settled, TakenStaysOut, SessionOf
<1> QED
  BY <1>1, <1>2, WhoSteps, TakenLogin, TakenCall

LEMMA AllInv == Spec => [](IInv /\ Known /\ TakenInv)
<1>1. Init => IInv /\ Known /\ TakenInv
  BY InitInv, KnownFirst, TakenFirst
<1>2. IInv /\ Known /\ TakenInv /\ [Next]_vars => (IInv /\ Known /\ TakenInv)'
  BY StepInv, KnownNext, TakenNext
<1> QED
  BY <1>1, <1>2, PTL DEF Spec

-----------------------------------------------------------------------------
(* The sessions keep the contract of TokenFamily *)

\* The mapping, by token and by session.
SessionIf(q) == IF Untried(q) THEN None ELSE sid[q]

LEMMA Mapped ==
  /\ Family!Init <=>
       /\ [q \in Tokens |-> SessionIf(q)] = [q \in Tokens |-> None]
       /\ [s \in Logins |-> Holders(s)] = [s \in Logins |-> {}]
       /\ issued = {} /\ mishap \cup ended = {}
BY DEF Family!Init, SessionIf

\* A session that loses its holder has none left, because it had one.
LEMMA ShrinksLoses ==
  ASSUME IInv, Shrinks
  PROVE  Family!Lose
<1> SUFFICES ASSUME NEW s \in Logins
             PROVE  Holders(s)' = Holders(s) \/ (Holders(s)' = {} /\ s \in mishap' \cup ended')
  BY DEF Family!Lose
<1>1. CASE s \notin mishap' \cup ended'
  BY <1>1 DEF Shrinks
<1>2. CASE Holders(s)' # {} /\ Holders(s)' # Holders(s)
  BY <1>2 DEF Shrinks, IInv, OneHolder
<1> QED
  BY <1>1, <1>2

LEMMA Excuses ==
  ASSUME IInv', mishap \subseteq mishap', ended \subseteq ended'
  PROVE  Family!Excuse
BY DEF Family!Excuse, IInv, Base, Shapes

LEMMA EndRefines ==
  ASSUME IInv, IInv', Shrinks, mishap \subseteq mishap', ended \subseteq ended', issued' = issued,
         \A q \in Tokens : SessionIf(q)' = SessionIf(q)
  PROVE  Family!Next
<1>1. Family!Lose /\ Family!Excuse
  BY ShrinksLoses, Excuses
<1>2. [q \in Tokens |-> IF Untried(q) THEN None ELSE sid[q]]'
        = [q \in Tokens |-> IF Untried(q) THEN None ELSE sid[q]]
  BY DEF SessionIf
<1> QED
  BY <1>1, <1>2 DEF Family!Next, Family!End

LEMMA SpoilRefines ==
  ASSUME IInv, IInv', mishap \subseteq mishap', ended \subseteq ended', issued' = issued,
         Family!Lose, NEW q \in Tokens, NEW s \in Logins, SessionIf(q) = None, SessionIf(q)' = s,
         q \in Logins => q = s /\ s \in mishap',
         \A p \in Tokens \ {q} : SessionIf(p)' = SessionIf(p)
  PROVE  Family!Next
<1> DEFINE f == [p \in Tokens |-> IF Untried(p) THEN None ELSE sid[p]]
<1>1. f[q] = None
  BY DEF SessionIf
<1>2. f' = [f EXCEPT ![q] = s]
  BY DEF SessionIf
<1>3. Family!Excuse
  BY Excuses
<1> QED
  BY <1>1, <1>2, <1>3 DEF Family!Next, Family!Spoil

LEMMA CreateRefines ==
  ASSUME IInv, IInv', NEW r \in Tokens, Create(r)
  PROVE  Family!Next
<1>1. /\ r \in Logins /\ pc[r] = "start" /\ sid' = [sid EXCEPT ![r] = r]
      /\ issued' = issued /\ ended' = ended
  BY DEF Create
<1>2. Opened(r)
  BY CreateInv, Sorts
<1>3. pc'[r] \in {"load", "refused"}
  BY <1>2 DEF Opened
<1>4. SessionIf(r) = None /\ SessionIf(r)' = r
  BY <1>1, <1>3 DEF SessionIf, Untried, IInv, Base, Shapes
<1>5. \A q \in Tokens \ {r} : SessionIf(q)' = SessionIf(q)
  BY LoginTakes DEF SessionIf, Untried
<1>6. CASE pc'[r] = "load" /\ Holders(r)' = {r} /\ mishap' = mishap
  <2> DEFINE f == [p \in Tokens |-> IF Untried(p) THEN None ELSE sid[p]]
             h == [s \in Logins |-> Holders(s)]
  <2>1. f[r] = None /\ f' = [f EXCEPT ![r] = r]
    BY <1>4, <1>5 DEF SessionIf
  <2>2. h' = [h EXCEPT ![r] = {r}]
    BY <1>2, <1>6 DEF Opened
  <2> QED
    BY <1>1, <1>6, <2>1, <2>2 DEF Family!Next, Family!Open
<1>7. CASE Holders(r)' = {} /\ mishap' = mishap \cup {r}
  <2>1. Family!Lose
    BY <1>2, <1>7 DEF Family!Lose, Opened
  <2> QED
    BY <1>1, <1>4, <1>5, <1>7, <2>1, SpoilRefines
<1> QED
  BY <1>2, <1>6, <1>7 DEF Opened

\* Where a refresh is tried, and its token is new no more.
LEMMA RefreshRefines ==
  ASSUME IInv, IInv', NEW r \in Tokens, Verify(r) \/ Consume(r)
  PROVE  Family!Next
<1> USE DEF locals, history
<1>1. /\ r \in Refreshers /\ r \notin Logins /\ SessionIf(r) = None
      /\ issued' = issued /\ ended' = ended /\ mishap \subseteq mishap'
  BY Sorts DEF Verify, Consume, IInv, Base, Places, LoginPc, SessionIf, Untried, Smooth, Fault
<1>2. \A q \in Tokens \ {r} : SessionIf(q)' = SessionIf(q)
  BY LoginTakes DEF SessionIf, Untried, LoginStep
<1>3. r \in Requests /\ pc \in [Requests -> RefreshPc \cup CallerPc]
  BY Sorts DEF IInv, Base, Places
<1>4. pc'[r] \in {"consume", "refused", "blacklist"}
  BY <1>3 DEF Verify, Consume, Goto
<1>5. sid'[r] \in Logins
  BY <1>4 DEF IInv, Base, Minted
<1>6. CASE Shrinks /\ pc'[r] = "consume"
  BY <1>1, <1>2, <1>6, EndRefines DEF SessionIf, Untried
<1>7. CASE Shrinks /\ pc'[r] = "refused"
  BY <1>1, <1>2, <1>5, <1>7, ShrinksLoses, SpoilRefines DEF SessionIf, Untried
<1>8. ASSUME NEW s \in Logins, Consume(r), pc'[r] = "blacklist", mishap' = mishap,
             s = SessionOf(r), Holders(s) = {token[r]}, Holders(s)' = {r},
             \A z \in Logins \ {s} : Holders(z)' = Holders(z)
      PROVE  Family!Next
  <2>1. pc[r] = "consume" /\ sid' = sid
    BY <1>8 DEF Consume
  <2>2. sid[r] = s /\ token[r] \in issued
    BY <1>1, <1>8, <2>1, OwnSession DEF IInv, Base, Minted
  <2> DEFINE f == [p \in Tokens |-> IF Untried(p) THEN None ELSE sid[p]]
             h == [z \in Logins |-> Holders(z)]
  <2>3. f[r] = None /\ f' = [f EXCEPT ![r] = s]
    BY <1>1, <1>2, <1>8, <2>1, <2>2 DEF SessionIf, Untried
  <2>4. h' = [h EXCEPT ![s] = {r}] /\ h[s] \cap issued # {}
    BY <1>8, <2>2
  <2> QED
    BY <1>1, <1>8, <2>3, <2>4 DEF Family!Next, Family!Rotate
<1>9. CASE Verify(r)
  BY <1>3, <1>6, <1>7, <1>9, VerifyInv, Sorts DEF Verify, Goto
<1>10. CASE Consume(r)
  <2>1. Handed(r)
    BY <1>10, ConsumeInv
  <2> QED
    BY <1>7, <1>8, <1>10, <2>1 DEF Handed
<1> QED
  BY <1>9, <1>10

\* Where a request goes on that has its session.
LEMMA GoingRefines ==
  ASSUME IInv, IInv', NEW r \in Tokens, Load(r) \/ SetAllow(r) \/ Blacklist(r) \/ Unlink(r)
  PROVE  Family!Next
<1> USE DEF redis, locals, history
<1>1. /\ pc[r] \in {"load", "set", "blacklist", "unlink"}
      /\ UNCHANGED <<sid, issued, ended>> /\ mishap \subseteq mishap'
  BY DEF Load, SetAllow, Blacklist, Unlink, Smooth, Fault
<1>2. r \in Requests /\ pc \in [Requests -> RefreshPc \cup CallerPc]
  BY Sorts DEF IInv, Base, Places
<1>3. ~Untried(r) /\ ~Untried(r)'
  BY <1>1, <1>2 DEF Load, SetAllow, Blacklist, Unlink, Goto, Untried
<1>4. \A q \in Tokens : SessionIf(q)' = SessionIf(q)
  BY <1>1, <1>3, LoginTakes DEF SessionIf, Untried, LoginStep
<1>5. Shrinks
  BY LoadInv, SetAllowInv, BlacklistInv, UnlinkInv
<1> QED
  BY <1>1, <1>4, <1>5, EndRefines

LEMMA CrashRefines ==
  ASSUME IInv, IInv', NEW r \in Tokens, Crash(r)
  PROVE  Family!Next
<1>1. /\ r \in Requests /\ pc[r] \notin Final \cup {"start"} /\ pc' = [pc EXCEPT ![r] = "crashed"]
      /\ UNCHANGED <<sid, issued, ended>> /\ mishap' = mishap \cup {SessionOf(r)}
  BY Sorts DEF Crash, Goto, Fault, locals
<1>2. sid[r] = SessionOf(r) /\ SessionOf(r) \in Logins /\ Shrinks
  BY <1>1, OwnSession, CrashInv DEF IInv
<1>3. \A q \in Tokens \ {r} : SessionIf(q)' = SessionIf(q)
  BY LoginTakes DEF SessionIf, Untried, LoginStep
<1>4. SessionIf(r)' = sid[r]
  BY <1>1 DEF SessionIf, Untried, IInv, Base, Places
<1>5. CASE pc[r] = "consume"
  <2>1. r \notin Logins /\ SessionIf(r) = None
    BY <1>5 DEF IInv, Base, Places, LoginPc, SessionIf, Untried
  <2> QED
    BY <1>1, <1>2, <1>3, <1>4, <2>1, ShrinksLoses, SpoilRefines
<1>6. CASE pc[r] # "consume"
  <2>1. SessionIf(r)' = SessionIf(r)
    BY <1>1, <1>4, <1>6 DEF SessionIf, Untried
  <2> QED
    BY <1>1, <1>2, <1>3, <2>1, EndRefines
<1> QED
  BY <1>5, <1>6

\* The client is given a token that holds its session, or has lost it for a reason.
LEMMA LinkRefines ==
  ASSUME IInv, IInv', Settled, NEW r \in Tokens, Link(r)
  PROVE  Family!Next
<1>1. /\ pc[r] = "link" /\ pc' = [pc EXCEPT ![r] = "ok"] /\ issued' = issued \cup {r}
      /\ UNCHANGED <<sid, ended>> /\ mishap \subseteq mishap'
  BY DEF Link, Goto, Smooth, Fault, locals
<1>2. r \in Requests /\ pc \in [Requests -> RefreshPc \cup CallerPc]
      /\ sid[r] \in Logins /\ sid[r] # None
  BY <1>1, OwnSession, Sorts DEF IInv, Base, Places
<1>3. \A q \in Tokens : SessionIf(q)' = SessionIf(q)
  BY <1>1, <1>2 DEF SessionIf, Untried
<1>4. SessionIf(r) = sid[r]
  BY <1>1 DEF SessionIf, Untried
<1>5. \A s \in Logins : Holders(s)' = Holders(s)
  BY LinkInv
<1>6. r \in Holders(sid[r]) \/ sid[r] \in mishap \cup ended
  BY <1>1 DEF Settled, Holders
<1>7. Family!Excuse
  BY <1>1, Excuses
<1> DEFINE f == [p \in Tokens |-> IF Untried(p) THEN None ELSE sid[p]]
           h == [s \in Logins |-> Holders(s)]
<1>8. f' = f /\ f[r] = sid[r]
  BY <1>3, <1>4 DEF SessionIf
<1>9. h' = h /\ h[sid[r]] = Holders(sid[r])
  BY <1>2, <1>5
<1> QED
  BY <1>1, <1>2, <1>6, <1>7, <1>8, <1>9 DEF Family!Next, Family!Give

LEMMA OthersRefine ==
  ASSUME IInv, IInv', Settled, TimeStep \/ \E c \in Callers : CallerStep(c)
  PROVE  Family!Next
<1>1. CASE TimeStep
  <2>1. Shrinks
    BY <1>1, ExpireInv DEF TimeStep
  <2>2. UNCHANGED <<sid, pc, issued, ended>> /\ mishap \subseteq mishap'
    BY <1>1 DEF TimeStep, ExpireToken, ExpireRecord, locals, history
  <2> QED
    BY <2>1, <2>2, EndRefines DEF SessionIf, Untried
<1>2. ASSUME NEW c \in Callers, CallerStep(c) PROVE Family!Next
  <2>1. Shrinks
    BY <1>2, LogoutInv, RevokeReadInv, RevokeDeleteInv, LookInv, WriteInv, LeaveInv
       DEF CallerStep, Call
  <2>2. sid' = sid /\ \A q \in Tokens : SessionIf(q)' = SessionIf(q)
    BY <1>2, CallTakes, CallerStepFacts DEF SessionIf, Untried
  <2>3. issued' = issued
    BY <1>2, Sorts DEF CallerStep, Call, Blacklist, Unlink, Logout, RevokeRead, RevokeAllIndex,
         RevokeAllJtis, RevokeDelete, TouchRead, TouchWrite, ListRead, ListGet, ListHeal
  <2> QED
    BY <1>2, <2>1, <2>2, <2>3, CallerStepFacts, EndRefines
<1> QED
  BY <1>1, <1>2

LEMMA StepRefines ==
  ASSUME IInv, IInv', TakenInv, [Next]_vars
  PROVE  [Family!Next]_(Family!vars)
<1>1. CASE UNCHANGED vars
  BY <1>1 DEF vars, redis, locals, history, Family!vars, Untried, Holders, Carries, SessionOf
<1>2. ASSUME NEW r \in Tokens, Create(r) \/ LoginStep(r) PROVE Family!Next
  BY <1>2, CreateRefines, RefreshRefines, GoingRefines, CrashRefines, LinkRefines
     DEF LoginStep, TakenInv
<1> QED
  BY <1>1, <1>2, WhoSteps, OthersRefine DEF TakenInv

LEMMA InitRefines == Init => Family!Init
<1> SUFFICES ASSUME Init PROVE Family!Init
  OBVIOUS
<1>1. /\ \A r \in Requests : pc[r] = "start"
      /\ allow = {} /\ issued = {} /\ mishap \cup ended = {}
  BY DEF Init
<1>2. \A q \in Tokens : SessionIf(q) = None
  BY <1>1, Sorts DEF SessionIf, Untried
<1>3. \A s \in Logins : Holders(s) = {}
  BY <1>1, Sorts DEF Holders, Carries
<1> QED
  BY <1>1, <1>2, <1>3, Mapped

-----------------------------------------------------------------------------
(* What the contract promises *)

Contract == Family!Promise /\ Logins \subseteq Tokens /\ None \notin Logins

LEMMA PromiseFirst == Family!Init => Contract
<1> SUFFICES ASSUME Family!Init PROVE Contract
  OBVIOUS
<1> DEFINE f == [q \in Tokens |-> IF Untried(q) THEN None ELSE sid[q]]
           h == [s \in Logins |-> Holders(s)]
<1>1. f = [q \in Tokens |-> None] /\ h = [s \in Logins |-> {}] /\ issued = {}
  BY DEF Family!Init
<1>2. Family!Promise <=>
        /\ \A s \in Logins : \A p, q \in h[s] : p = q /\ p \in Tokens /\ f[p] = s
        /\ \A s \in Logins : IF f[s] = None THEN h[s] = {}
                             ELSE f[s] = s /\ (h[s] # {} \/ s \in mishap \cup ended)
        /\ \A q \in issued : q \in Tokens /\ f[q] # None
  BY DEF Family!Promise
<1> HIDE DEF f, h
<1> QED
  BY <1>1, <1>2, Sorts DEF Contract

LEMMA PromiseKept ==
  ASSUME Contract, [Family!Next]_(Family!vars)
  PROVE  Contract' /\ [Family!OutForGood]_(Family!vars)
<1> DEFINE f == [q \in Tokens |-> IF Untried(q) THEN None ELSE sid[q]]
           h == [s \in Logins |-> Holders(s)]
           x == mishap \cup ended
           Kept == /\ \A s \in Logins : \A p, q \in h'[s] : p = q /\ p \in Tokens /\ f'[p] = s
                   /\ \A s \in Logins : IF f'[s] = None THEN h'[s] = {}
                                        ELSE f'[s] = s /\ (h'[s] # {} \/ s \in x')
                   /\ \A q \in issued' : q \in Tokens /\ f'[q] # None
           Out == \A s \in Logins :
                    /\ \A q \in Tokens : f[q] # None /\ q \notin h[s] => q \notin h'[s]
                    /\ h'[s] # h[s] /\ s \notin x' => h[s] = {} \/ h[s] \cap issued # {}
<1>1. Kept => Family!Promise'
  BY DEF Family!Promise
<1>2. Out => Family!OutForGood
  BY DEF Family!OutForGood
<1>3. /\ \A s \in Logins : \A p, q \in h[s] : p = q /\ p \in Tokens /\ f[p] = s
      /\ \A s \in Logins : IF f[s] = None THEN h[s] = {}
                           ELSE f[s] = s /\ (h[s] # {} \/ s \in x)
      /\ \A q \in issued : q \in Tokens /\ f[q] # None
      /\ Logins \subseteq Tokens /\ None \notin Logins
  BY DEF Contract, Family!Promise
<1>4. DOMAIN f = Tokens /\ DOMAIN h = Logins
  OBVIOUS
<1>5. ASSUME NEW s \in Logins, Family!Open(s) PROVE Kept /\ Out
  <2>1. /\ f[s] = None /\ f' = [f EXCEPT ![s] = s] /\ h' = [h EXCEPT ![s] = {s}]
        /\ issued' = issued /\ x' = x
    BY <1>5 DEF Family!Open
  <2> HIDE DEF f, h, x
  <2> QED
    BY <1>3, <1>4, <2>1
<1>6. ASSUME NEW s \in Logins, NEW q \in Tokens, Family!Rotate(s, q) PROVE Kept /\ Out
  <2>1. /\ h[s] \cap issued # {} /\ f[q] = None /\ q \notin Logins
        /\ f' = [f EXCEPT ![q] = s] /\ h' = [h EXCEPT ![s] = {q}]
        /\ issued' = issued /\ x' = x
    BY <1>6 DEF Family!Rotate
  <2> HIDE DEF f, h, x
  <2> QED
    BY <1>3, <1>4, <2>1
<1>7. Family!Excuse => x \subseteq x'
  BY DEF Family!Excuse
<1>8. Family!Lose => \A s \in Logins : h'[s] = h[s] \/ (h'[s] = {} /\ s \in x')
  BY DEF Family!Lose
<1>9. ASSUME NEW s \in Logins, NEW q \in Tokens, Family!Spoil(s, q) PROVE Kept /\ Out
  <2>1. /\ f[q] = None /\ (q \in Logins => q = s /\ s \in x') /\ f' = [f EXCEPT ![q] = s]
        /\ Family!Excuse /\ Family!Lose /\ issued' = issued
    BY <1>9 DEF Family!Spoil
  <2> HIDE DEF f, h, x
  <2> QED
    BY <1>3, <1>4, <1>7, <1>8, <2>1
<1>10. ASSUME NEW q \in Tokens, Family!Give(q) PROVE Kept /\ Out
  <2>1. f[q] # None /\ issued' = issued \cup {q} /\ Family!Excuse /\ f' = f /\ h' = h
    BY <1>10 DEF Family!Give
  <2> HIDE DEF f, h, x
  <2> QED
    BY <1>3, <1>4, <1>7, <2>1
<1>11. ASSUME Family!End PROVE Kept /\ Out
  <2>1. f' = f /\ issued' = issued /\ Family!Excuse /\ Family!Lose
    BY <1>11 DEF Family!End
  <2> HIDE DEF f, h, x
  <2> QED
    BY <1>3, <1>4, <1>7, <1>8, <2>1
<1>12. ASSUME UNCHANGED Family!vars PROVE Kept /\ Out
  <2>1. f' = f /\ h' = h /\ issued' = issued /\ x' = x
    BY <1>12 DEF Family!vars
  <2> HIDE DEF f, h, x
  <2> QED
    BY <1>3, <2>1
<1>13. ASSUME Family!Next PROVE Kept /\ Out
  BY <1>5, <1>6, <1>9, <1>10, <1>11, <1>13 DEF Family!Next
<1> HIDE DEF Kept, Out
<1> QED
  BY <1>1, <1>2, <1>12, <1>13 DEF Contract

-----------------------------------------------------------------------------
(* Theorems *)

\* The variables keep their types.
THEOREM TypeCorrect == Spec => []TypeOK
<1>1. IInv /\ Known => TypeOK
  BY DEF IInv, Known, Base, Places, Shapes, TypeOK, LoginPc, RefreshPc, CallerPc, Final
<1> QED
  BY <1>1, AllInv, PTL

\* Of any number of requests that present the same refresh token, however they
\* overlap, fail or die, at most one gets a new pair: GETDEL decides.
THEOREM OnePairPerToken == Spec => []SingleUse
BY InvFollow, InvAlways, PTL

\* A session has at most one live refresh token or request about to store one.
THEOREM OneLiveToken == Spec => []OneHolder
BY InvFollow, InvAlways, PTL

\* A session that no one ends, and no failure or expiry hits, is never without.
THEOREM NobodySignedOut == Spec => []SignedInStays
BY InvFollow, InvAlways, PTL

\* The live token of such a session is among the jtis a revoke will delete, and
\* as long as its record has not expired revokeAll finds the session itself.
THEOREM RevokeFindsToken == Spec => []Findable
BY FindableFollows, AllInv, PTL

\* What a revoke has seen, and what a logout was called with, never lives again,
\* whatever refreshes are under way: the SET of a refresh is of a new token.
THEOREM TakenIsOut == Spec => []TakenStaysOut
BY AllInv, PTL DEF TakenInv

\* The sessions implement the contract of TokenFamily: a login opens a family, a
\* refresh replaces its holder by a new token, and the rest leaves the family as
\* it is or lets a session go for a reason.
THEOREM FamilyKept == Spec => KeepsFamily
<1>1. IInv /\ IInv' /\ TakenInv /\ [Next]_vars => [Family!Next]_(Family!vars)
  BY StepRefines
<1>2. [](IInv /\ TakenInv) /\ [][Next]_vars => [][Family!Next]_(Family!vars)
  BY <1>1, PTL
<1> QED
  BY <1>2, AllInv, InitRefines, PTL DEF Spec, KeepsFamily, Family!Spec

\* What a family promises: one holder at most, of its own family, none only for a
\* reason, and whatever ceased to hold the session is out for good.
THEOREM FamilyPromises == KeepsFamily => []Family!Promise /\ Family!StaysOut
<1>1. Contract /\ [Family!Next]_(Family!vars) => Contract' /\ [Family!OutForGood]_(Family!vars)
  BY PromiseKept
<1>2. Contract => Family!Promise
  BY DEF Contract
<1> QED
  BY <1>1, <1>2, PromiseFirst, PTL DEF KeepsFamily, Family!Spec, Family!StaysOut
=============================================================================
