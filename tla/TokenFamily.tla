---------------------------- MODULE TokenFamily ----------------------------
(***************************************************************************)
(* What the refresh tokens of a user's sessions promise those who use them *)
(* (the login, refresh and logout of auth.controller.ts), with none of the *)
(* means: no allow-list, no blacklist, no GETDEL.  The tokens of a session *)
(* are a family: the login brings the first, each refresh replaces the one *)
(* that holds the session by a new one, and what once ceased to hold it    *)
(* never does so again.  A session that has no holder had a reason.        *)
(***************************************************************************)

CONSTANTS Tokens, None,
          Sessions   \* a subset of Tokens: each has the name of its first one

VARIABLES
  family,    \* per token its session, from when it first may hold it
  holder,    \* per session the token that holds it: one, or none
  given,     \* the tokens that clients have been given
  excused    \* the sessions that somebody ends, or that a failure or expiry hit

vars == <<family, holder, given, excused>>

Init ==
  /\ family = [t \in Tokens |-> None] /\ holder = [s \in Sessions |-> {}]
  /\ given = {} /\ excused = {}

\* A reason stays, and only a session that has one may be left without a holder.
Excuse == excused \subseteq excused' /\ excused' \subseteq Sessions
Lose ==
  /\ holder' = [s \in Sessions |-> holder'[s]]
  /\ \A s \in Sessions : holder'[s] = holder[s] \/ (holder'[s] = {} /\ s \in excused')

Open(s) ==
  /\ family[s] = None
  /\ family' = [family EXCEPT ![s] = s] /\ holder' = [holder EXCEPT ![s] = {s}]
  /\ UNCHANGED <<given, excused>>

\* Only who was given the holder can replace it, and only by a new token.
Rotate(s, q) ==
  /\ holder[s] \cap given # {}
  /\ family[q] = None /\ q \notin Sessions
  /\ family' = [family EXCEPT ![q] = s] /\ holder' = [holder EXCEPT ![s] = {q}]
  /\ UNCHANGED <<given, excused>>

\* A login or a refresh that fails, or is refused, has spoilt its token.
Spoil(s, q) ==
  /\ family[q] = None /\ (q \in Sessions => q = s /\ s \in excused')
  /\ family' = [family EXCEPT ![q] = s]
  /\ Excuse /\ Lose
  /\ UNCHANGED given

Give(q) ==
  /\ family[q] # None
  /\ q \in holder[family[q]] \/ family[q] \in excused
  /\ given' = given \cup {q}
  /\ Excuse
  /\ UNCHANGED <<family, holder>>

End ==
  /\ Excuse /\ Lose
  /\ UNCHANGED <<family, given>>

Next ==
  \/ \E s \in Sessions : Open(s)
  \/ \E s \in Sessions, q \in Tokens : Rotate(s, q) \/ Spoil(s, q)
  \/ \E q \in Tokens : Give(q)
  \/ End

Spec == Init /\ [][Next]_vars

---------------------------------------------------------------------------
\* What follows: a session is held by one token at most, of its own family, and
\* by none only for a reason; and the client knows no token but of a family.
Promise ==
  /\ \A s \in Sessions : \A p, q \in holder[s] : p = q /\ p \in Tokens /\ family[p] = s
  /\ \A s \in Sessions :
       IF family[s] = None THEN holder[s] = {}
       ELSE family[s] = s /\ (holder[s] # {} \/ s \in excused)
  /\ \A q \in given : q \in Tokens /\ family[q] # None

\* A token that has been replaced, or lost its session, is out for good; and a
\* session without a reason goes from a token in a client's hands to a new one.
OutForGood ==
  \A s \in Sessions :
    /\ \A q \in Tokens : family[q] # None /\ q \notin holder[s] => q \notin holder'[s]
    /\ holder'[s] # holder[s] /\ s \notin excused' => holder[s] = {} \/ holder[s] \cap given # {}
StaysOut == [][OutForGood]_vars
=============================================================================
