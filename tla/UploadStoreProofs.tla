------------------------- MODULE UploadStoreProofs -------------------------
(***************************************************************************)
(* Theorems about UploadStore for any number of clients, sessions and      *)
(* connections.  TypeOK holds whatever the connections; the refinement of  *)
(* CasRegister needs every client to have a connection of its own.         *)
(***************************************************************************)
EXTENDS UploadStore, TLAPS

\* One snapshot per client is all a patch writes: records stay records.
LEMMA MergedType ==
  ASSUME NEW b \in Records, NEW c \in Clients
  PROVE  Merged(b, c) \in Records
BY DEF Merged, Records

LEMMA FreshType == [version |-> 1, by |-> {}] \in Records
BY DEF Records

\* GET leaves a record, not Absent, in the base of a client about to EXEC.
BaseOK == \A c \in Clients : pc[c] = "exec" => base[c] \in Records

TInv == TypeOK /\ BaseOK

LEMMA TInit == Init => TInv
BY StoreConstants DEF Init, TInv, TypeOK, BaseOK

LEMMA TNext == TInv /\ [Next]_vars => TInv'
<1> SUFFICES ASSUME TInv, [Next]_vars PROVE TInv'
  OBVIOUS
<1> USE StoreConstants, FreshType DEF TInv, TypeOK, BaseOK, Goto
<1>1. ASSUME NEW k \in Keys, Create(k) PROVE TInv'
  BY <1>1 DEF Create, Modified
<1>2. ASSUME NEW k \in Keys, Remove(k) PROVE TInv'
  BY <1>2 DEF Remove, Modified
<1>3. ASSUME NEW c \in Clients, Read(c) PROVE TInv'
  BY <1>3 DEF Read, conns, Records
<1>4. ASSUME NEW c \in Clients, Watch(c) PROVE TInv'
  BY <1>4 DEF Watch
<1>5. ASSUME NEW c \in Clients, Get(c) PROVE TInv'
  BY <1>5 DEF Get, Current, conns
<1>6. ASSUME NEW c \in Clients, Exec(c) PROVE TInv'
  <2>1. CASE ~dirty[ConnOf[c]] /\ Commit(c)
    BY <1>6, <2>1, MergedType DEF Exec, Commit
  <2>2. CASE dirty[ConnOf[c]] /\ Forget(ConnOf[c])
    BY <1>6, <2>2 DEF Exec, Forget, Commit
  <2> QED
    BY <1>6, <2>1, <2>2 DEF Exec
<1>7. ASSUME NEW c \in Clients, Unwatch(c) PROVE TInv'
  BY <1>7 DEF Unwatch, Forget
<1>8. ASSUME NEW c \in Clients, Touch(c) PROVE TInv'
  <2>1. dirty' \in [Conns -> BOOLEAN]
    BY <1>8 DEF Touch, Modified
  <2> QED
    BY <1>8, <2>1 DEF Touch
<1>9. CASE UNCHANGED vars
  BY <1>9 DEF vars, conns
<1> QED
  BY <1>1, <1>2, <1>3, <1>4, <1>5, <1>6, <1>7, <1>8, <1>9 DEF Next

\* Every variable keeps its type, on shared connections too.
THEOREM TypeCorrect == Spec => []TypeOK
<1>1. TInv => TypeOK
  BY DEF TInv
<1> QED
  BY TInit, TNext, <1>1, PTL DEF Spec

---------------------------------------------------------------------------
(***************************************************************************)
(* Between its GET and its EXEC a client whose connection is its own is    *)
(* either marked, and then EXEC answers null, or Redis still watches its   *)
(* key and the record is the one GET returned.  That is what makes EXEC a  *)
(* compare-and-set; CInv says it, and what else a step needs.              *)
(***************************************************************************)
Private == \A c, d \in Clients : ConnOf[c] = ConnOf[d] => c = d

Guarded(c) ==
  /\ pc[c] \in {"get", "exec"} /\ ~dirty[ConnOf[c]] => KeyOf[c] \in watched[ConnOf[c]]
  /\ pc[c] = "exec" /\ ~dirty[ConnOf[c]] => db[KeyOf[c]] = base[c]
  /\ pc[c] = "exec" => base[c].version = want[c]

Undecided(c) ==
  /\ pc[c] = "idle" <=> want[c] = 0
  /\ pc[c] \in {"idle", "watch", "get", "exec"} => answer[c] = "none"

LifeOK == \A k \in Keys : life[k] = "live" <=> db[k] # Absent

CInv == TInv /\ LifeOK /\ \A c \in Clients : Guarded(c) /\ Undecided(c)

LEMMA CInit == Init => CInv
BY TInit, StoreConstants DEF Init, CInv, LifeOK, Guarded, Undecided
LEMMA CNext == Private /\ CInv /\ [Next]_vars => CInv'
<1> SUFFICES ASSUME Private, CInv, [Next]_vars PROVE CInv'
  OBVIOUS
<1>1. TInv'
  BY TNext DEF CInv
<1>2. ASSUME NEW k \in Keys, Create(k)
      PROVE  LifeOK' /\ \A d \in Clients : Guarded(d)' /\ Undecided(d)'
  <2>1. LifeOK' /\ \A d \in Clients : Undecided(d)'
    BY <1>2, StoreConstants, FreshType
       DEF Create, CInv, LifeOK, Undecided, TInv, TypeOK
  <2>2. ASSUME NEW d \in Clients PROVE Guarded(d)'
    <3>1. /\ KeyOf[d] \in Keys /\ ConnOf[d] \in Conns /\ UNCHANGED <<pc, base, want, watched>>
          /\ dirty'[ConnOf[d]] <=> dirty[ConnOf[d]] \/ k \in watched[ConnOf[d]]
          /\ KeyOf[d] # k => db'[KeyOf[d]] = db[KeyOf[d]]
      BY <1>2, StoreConstants DEF Create, Modified, CInv, TInv, TypeOK
    <3> QED
      BY <3>1 DEF CInv, Guarded
  <2> QED
    BY <2>1, <2>2
<1>3. ASSUME NEW k \in Keys, Remove(k)
      PROVE  LifeOK' /\ \A d \in Clients : Guarded(d)' /\ Undecided(d)'
  <2>1. LifeOK' /\ \A d \in Clients : Undecided(d)'
    BY <1>3, StoreConstants
       DEF Remove, CInv, LifeOK, Undecided, TInv, TypeOK
  <2>2. ASSUME NEW d \in Clients PROVE Guarded(d)'
    <3>1. /\ KeyOf[d] \in Keys /\ ConnOf[d] \in Conns /\ UNCHANGED <<pc, base, want, watched>>
          /\ dirty'[ConnOf[d]] <=> dirty[ConnOf[d]] \/ k \in watched[ConnOf[d]]
          /\ KeyOf[d] # k => db'[KeyOf[d]] = db[KeyOf[d]]
      BY <1>3, StoreConstants DEF Remove, Modified, CInv, TInv, TypeOK
    <3> QED
      BY <3>1 DEF CInv, Guarded
  <2> QED
    BY <2>1, <2>2
<1>4. ASSUME NEW c \in Clients, Read(c)
      PROVE  LifeOK' /\ \A d \in Clients : Guarded(d)' /\ Undecided(d)'
  <2>1. db[KeyOf[c]] \in Records
    BY <1>4, StoreConstants DEF Read, CInv, TInv, TypeOK
  <2> QED
    BY <1>4, <2>1, StoreConstants
       DEF Read, Goto, conns, CInv, LifeOK, Guarded, Undecided, TInv, TypeOK, Records
<1>5. ASSUME NEW c \in Clients, Watch(c)
      PROVE  LifeOK' /\ \A d \in Clients : Guarded(d)' /\ Undecided(d)'
  BY <1>5, StoreConstants
     DEF Watch, Goto, CInv, LifeOK, Guarded, Undecided, TInv, TypeOK
<1>6. ASSUME NEW c \in Clients, Get(c)
      PROVE  LifeOK' /\ \A d \in Clients : Guarded(d)' /\ Undecided(d)'
  BY <1>6, StoreConstants
     DEF Get, Current, Goto, conns, CInv, LifeOK, Guarded, Undecided, TInv, TypeOK
<1>7. ASSUME NEW c \in Clients, Exec(c)
      PROVE  LifeOK' /\ \A d \in Clients : Guarded(d)' /\ Undecided(d)'
  <2>1. CASE ~dirty[ConnOf[c]] /\ Commit(c)
    <3>1. base[c] \in Records /\ Merged(base[c], c) \in Records
      BY <1>7, MergedType DEF Exec, CInv, TInv, BaseOK
    <3>2. LifeOK'
      BY <1>7, <2>1, <3>1, StoreConstants
         DEF Exec, Commit, CInv, LifeOK, Guarded, TInv, TypeOK
    <3>3. \A d \in Clients : Undecided(d)'
      BY <1>7, <2>1 DEF Exec, Commit, Goto, CInv, Undecided, TInv, TypeOK
    <3>4. ASSUME NEW d \in Clients \ {c} PROVE Guarded(d)'
      <4>1. /\ KeyOf[d] \in Keys /\ ConnOf[d] \in Conns /\ ConnOf[d] # ConnOf[c]
            /\ pc'[d] = pc[d] /\ UNCHANGED <<base, want>>
            /\ watched'[ConnOf[d]] = watched[ConnOf[d]]
        BY <1>7, <2>1, StoreConstants DEF Exec, Commit, Goto, CInv, Private, TInv, TypeOK
      <4>2. /\ dirty'[ConnOf[d]] <=> dirty[ConnOf[d]] \/ KeyOf[c] \in watched[ConnOf[d]]
            /\ KeyOf[d] # KeyOf[c] => db'[KeyOf[d]] = db[KeyOf[d]]
        BY <2>1, <4>1, StoreConstants DEF Commit, CInv, TInv, TypeOK
      <4> QED
        BY <4>1, <4>2 DEF CInv, Guarded
    <3>5. pc'[c] = "last"
      BY <1>7 DEF Exec, Goto, CInv, TInv, TypeOK
    <3> QED
      BY <3>2, <3>3, <3>4, <3>5 DEF Guarded
  <2>2. CASE dirty[ConnOf[c]] /\ Forget(ConnOf[c]) /\ db' = db
             /\ answer' = [answer EXCEPT ![c] = "false"]
    BY <1>7, <2>2, StoreConstants
       DEF Exec, Forget, Goto, CInv, LifeOK, Guarded, Undecided, Private, TInv, TypeOK
  <2> QED
    BY <1>7, <2>1, <2>2 DEF Exec
<1>8. ASSUME NEW c \in Clients, Unwatch(c)
      PROVE  LifeOK' /\ \A d \in Clients : Guarded(d)' /\ Undecided(d)'
  BY <1>8, StoreConstants
     DEF Unwatch, Forget, Goto, CInv, LifeOK, Guarded, Undecided, Private, TInv, TypeOK
<1>9. ASSUME NEW c \in Clients, Touch(c)
      PROVE  LifeOK' /\ \A d \in Clients : Guarded(d)' /\ Undecided(d)'
  <2>1. /\ pc' = [pc EXCEPT ![c] = "done"] /\ pc[c] = "touch"
        /\ UNCHANGED <<db, life, want, answer, base, watched>>
    BY <1>9 DEF Touch, Goto
  <2>2. LifeOK' /\ \A d \in Clients : Undecided(d)'
    BY <2>1 DEF CInv, LifeOK, Undecided, TInv, TypeOK
  <2>3. \A n \in Conns : ~dirty'[n] => ~dirty[n]
    BY <1>9 DEF Touch, Modified
  <2>4. ASSUME NEW d \in Clients PROVE Guarded(d)'
    <3>1. ConnOf[d] \in Conns
      BY StoreConstants
    <3>2. pc'[d] = pc[d] \/ pc'[d] = "done"
      BY <2>1 DEF CInv, TInv, TypeOK
    <3>3. ~dirty'[ConnOf[d]] => ~dirty[ConnOf[d]]
      BY <2>3, <3>1
    <3> QED
      BY <2>1, <3>2, <3>3 DEF CInv, Guarded
  <2> QED
    BY <2>2, <2>4
<1>10. ASSUME UNCHANGED vars
       PROVE  LifeOK' /\ \A d \in Clients : Guarded(d)' /\ Undecided(d)'
  BY <1>10 DEF vars, conns, CInv, LifeOK, Guarded, Undecided
<1> QED
  BY <1>1, <1>2, <1>3, <1>4, <1>5, <1>6, <1>7, <1>8, <1>9, <1>10 DEF CInv, Next

LEMMA CInvariant == Private /\ Spec => []CInv
<1>1. Private /\ CInv /\ [Next]_vars => CInv'
  BY CNext
<1>2. Init => CInv
  BY CInit
<1>3. CASE Private
  BY <1>1, <1>2, <1>3, PTL DEF Spec
<1>4. CASE ~Private
  BY <1>4
<1> QED
  BY <1>3, <1>4

\* No patch brings a deleted session back, if connections are not shared.
THEOREM GoneForGood == Private /\ Spec => []StaysGone
<1>1. CInv => StaysGone
  BY DEF CInv, LifeOK, StaysGone, TInv, TypeOK
<1> QED
  BY <1>1, CInvariant, PTL

---------------------------------------------------------------------------
\* The refinement: EXEC is Apply or Refuse, a failed GET is Refuse, WATCH,
\* UNWATCH and EXPIRE are stutters.

LEMMA InitRefines == Init => Cas!Init
BY DEF Init, Cas!Init

LEMMA StepRefines == CInv /\ [Next]_vars => [Cas!Next]_(Cas!vars)
<1> SUFFICES ASSUME CInv, [Next]_vars PROVE [Cas!Next]_(Cas!vars)
  OBVIOUS
<1> USE StoreConstants DEF Cas!Next, Cas!vars
<1>1. ASSUME NEW k \in Keys, Create(k) PROVE Cas!Create(k)
  BY <1>1 DEF Create, Cas!Create, Cas!Fresh
<1>2. ASSUME NEW k \in Keys, Remove(k) PROVE Cas!Remove(k)
  BY <1>2 DEF Remove, Cas!Remove
<1>3. ASSUME NEW c \in Clients, Read(c) PROVE Cas!Read(c)
  BY <1>3 DEF Read, Cas!Read, CInv, Undecided
<1>4. ASSUME NEW c \in Clients, Get(c) PROVE Cas!Refuse(c) \/ UNCHANGED Cas!vars
  BY <1>4 DEF Get, Cas!Refuse, CInv, Undecided
<1>5. ASSUME NEW c \in Clients, Exec(c) PROVE Cas!Apply(c) \/ Cas!Refuse(c)
  <2>1. answer[c] = "none" /\ base[c] \in Records /\ base[c].version = want[c]
    BY <1>5 DEF Exec, CInv, Undecided, Guarded, TInv, BaseOK
  <2>2. ASSUME ~dirty[ConnOf[c]], Commit(c) PROVE Cas!Apply(c)
    <3>1. db[KeyOf[c]] = base[c]
      BY <1>5, <2>2 DEF Exec, CInv, Guarded
    <3> QED
      BY <1>5, <2>1, <2>2, <3>1 DEF Exec, Commit, Merged, Cas!Apply
  <2>3. ASSUME answer' = [answer EXCEPT ![c] = "false"], db' = db PROVE Cas!Refuse(c)
    BY <1>5, <2>1, <2>3 DEF Exec, Cas!Refuse
  <2> QED
    BY <1>5, <2>2, <2>3 DEF Exec
<1>6. ASSUME NEW c \in Clients, Watch(c) \/ Unwatch(c) \/ Touch(c)
      PROVE  UNCHANGED Cas!vars
  BY <1>6 DEF Watch, Unwatch, Touch
<1>7. CASE UNCHANGED vars
  BY <1>7 DEF vars
<1> QED
  BY <1>1, <1>2, <1>3, <1>4, <1>5, <1>6, <1>7 DEF Next

\* patchCAS keeps the promise of the interface, if connections are not shared.
THEOREM StoreImplementsCas == Private /\ Spec => ImplementsCas
<1>1. CASE Private
  <2>1. Init => Cas!Init
    BY InitRefines
  <2>2. CInv /\ [Next]_vars => [Cas!Next]_(Cas!vars)
    BY StepRefines
  <2>3. Spec => []CInv
    BY <1>1, CInvariant
  <2> QED
    BY <2>1, <2>2, <2>3, PTL DEF Spec, ImplementsCas, Cas!Spec
<1> QED
  BY <1>1

---------------------------------------------------------------------------
(***************************************************************************)
(* Lost updates are excluded twice: by connections of their own, and, on   *)
(* any connections, by the session's lock as long as it excludes.          *)
(***************************************************************************)
Born(c) ==
  /\ pc[c] # "idle" => life[KeyOf[c]] # "new"
  /\ pc[c] = "idle" => answer[c] = "none"

Unborn == \A k \in Keys : life[k] = "new" => db[k] = Absent

BInv == TInv /\ Unborn /\ \A c \in Clients : Born(c)

LEMMA BInit == Init => BInv
BY TInit DEF Init, BInv, Born, Unborn

\* A key that a client has read is never created again.
LEMMA BNext == BInv /\ [Next]_vars => BInv'
<1> SUFFICES ASSUME BInv, [Next]_vars PROVE BInv'
  OBVIOUS
<1>1. TInv'
  BY TNext DEF BInv
<1>2. ASSUME NEW k \in Keys, Create(k) \/ Remove(k)
      PROVE  Unborn' /\ \A c \in Clients : Born(c)'
  BY <1>2, StoreConstants DEF Create, Remove, BInv, Born, Unborn, TInv, TypeOK
<1>3. ASSUME NEW d \in Clients, Read(d)
      PROVE  Unborn' /\ \A c \in Clients : Born(c)'
  <2>1. db[KeyOf[d]] # Absent /\ life[KeyOf[d]] # "new"
    BY <1>3, StoreConstants DEF Read, BInv, Unborn
  <2> QED
    BY <1>3, <2>1 DEF Read, Goto, BInv, Born, Unborn, TInv, TypeOK
<1>4. ASSUME NEW d \in Clients, Watch(d) \/ Get(d) \/ Unwatch(d) \/ Touch(d)
      PROVE  Unborn' /\ \A c \in Clients : Born(c)'
  BY <1>4 DEF Watch, Get, Unwatch, Touch, Goto, BInv, Born, Unborn, TInv, TypeOK
<1>5. ASSUME NEW d \in Clients, Exec(d)
      PROVE  Unborn' /\ \A c \in Clients : Born(c)'
  <2>1. life[KeyOf[d]] # "new"
    BY <1>5 DEF Exec, BInv, Born
  <2> QED
    BY <1>5, <2>1, StoreConstants
       DEF Exec, Commit, Goto, BInv, Born, Unborn, TInv, TypeOK
<1>6. CASE UNCHANGED vars
  BY <1>1, <1>6 DEF vars, BInv, Born, Unborn
<1> QED
  BY <1>1, <1>2, <1>3, <1>4, <1>5, <1>6 DEF Next, BInv

---------------------------------------------------------------------------
(***************************************************************************)
(* Lost updates are excluded twice: by connections of their own, and, on   *)
(* any connections, by the session's lock as long as it excludes.          *)
(***************************************************************************)

Applies(c) == ~dirty[ConnOf[c]] /\ Commit(c)

\* What any step but a successful EXEC leaves of NoLostUpdate.
LEMMA KeepsUpdates ==
  BInv /\ NoLostUpdate /\ [Next]_vars
    => NoLostUpdate' \/ \E c \in Clients : Exec(c) /\ Applies(c)
<1> SUFFICES ASSUME BInv, NoLostUpdate, [Next]_vars,
                    ~ \E c \in Clients : Exec(c) /\ Applies(c)
             PROVE  NoLostUpdate'
  OBVIOUS
<1> USE DEF NoLostUpdate, BInv, Born, TInv, TypeOK
<1>1. ASSUME NEW k \in Keys, Create(k) PROVE NoLostUpdate'
  BY <1>1, StoreConstants DEF Create
<1>2. ASSUME NEW k \in Keys, Remove(k) PROVE NoLostUpdate'
  BY <1>2, StoreConstants DEF Remove
<1>3. ASSUME NEW d \in Clients, Read(d) \/ Watch(d) \/ Get(d) \/ Unwatch(d) \/ Touch(d)
      PROVE  NoLostUpdate'
  BY <1>3 DEF Read, Watch, Get, Unwatch, Touch
<1>4. ASSUME NEW d \in Clients, Exec(d) PROVE NoLostUpdate'
  BY <1>4 DEF Exec, Applies
<1>5. CASE UNCHANGED vars
  BY <1>5 DEF vars
<1> QED
  BY <1>1, <1>2, <1>3, <1>4, <1>5 DEF Next

PInv == CInv /\ BInv /\ NoLostUpdate

LEMMA PNext == Private /\ PInv /\ [Next]_vars => PInv'
<1> SUFFICES ASSUME Private, PInv, [Next]_vars PROVE PInv'
  OBVIOUS
<1>1. CInv' /\ BInv'
  BY CNext, BNext DEF PInv
<1>2. ASSUME NEW c \in Clients, Exec(c), Applies(c) PROVE NoLostUpdate'
  <2>1. db[KeyOf[c]] = base[c] /\ base[c] \in Records
    BY <1>2 DEF Exec, Applies, PInv, CInv, Guarded, TInv, BaseOK
  <2>2. db' = [db EXCEPT ![KeyOf[c]] = Merged(base[c], c)]
        /\ answer' = [answer EXCEPT ![c] = "true"]
    BY <1>2 DEF Applies, Commit
  <2>3. db \in [Keys -> Records \cup {Absent}] /\ answer \in [Clients -> {"none", "true", "false"}]
    BY DEF PInv, BInv, TInv, TypeOK
  <2>4. db'[KeyOf[c]].by = db[KeyOf[c]].by \cup {c}
    BY <2>1, <2>2, <2>3, StoreConstants DEF Merged
  <2>5. ASSUME NEW d \in Clients, answer'[d] = "true", db'[KeyOf[d]] # Absent
        PROVE  d \in db'[KeyOf[d]].by
    <3>1. CASE KeyOf[d] = KeyOf[c]
      <4>1. d = c \/ d \in db[KeyOf[d]].by
        BY <2>1, <2>2, <2>3, <2>5, <3>1, StoreConstants DEF PInv, NoLostUpdate
      <4> QED
        BY <2>4, <3>1, <4>1
    <3>2. CASE KeyOf[d] # KeyOf[c]
      BY <2>2, <2>3, <2>5, <3>2, StoreConstants DEF PInv, NoLostUpdate
    <3> QED
      BY <3>1, <3>2
  <2> QED
    BY <2>5 DEF NoLostUpdate
<1> QED
  BY <1>1, <1>2, KeepsUpdates DEF PInv

Patching(c) == pc[c] \notin {"idle", "done"}

Alone == \A c, d \in Clients :
           c # d /\ KeyOf[c] = KeyOf[d] => ~Patching(c) \/ ~Patching(d)

Contained(c) ==
  pc[c] = "exec" =>
    \A d \in Clients : KeyOf[d] = KeyOf[c] /\ answer[d] = "true" => d \in base[c].by

SInv == BInv /\ NoLostUpdate /\ Alone /\ \A c \in Clients : Contained(c)

LEMMA SNext == Serial /\ SInv /\ [Next]_vars => SInv'
<1> SUFFICES ASSUME Serial, SInv, [Next]_vars PROVE SInv'
  OBVIOUS
<1> USE DEF SInv, BInv, TInv, TypeOK
<1>1. BInv'
  BY BNext
<1>2. ASSUME NEW k \in Keys, Create(k) \/ Remove(k)
      PROVE  Alone' /\ \A c \in Clients : Contained(c)'
  BY <1>2 DEF Create, Remove, Alone, Patching, Contained
<1>3. ASSUME NEW d \in Clients, Read(d)
      PROVE  Alone' /\ \A c \in Clients : Contained(c)'
  BY <1>3 DEF Read, Goto, Alone, Patching, Contained
<1>4. ASSUME NEW d \in Clients, Watch(d) \/ Unwatch(d) \/ Touch(d)
      PROVE  Alone' /\ \A c \in Clients : Contained(c)'
  BY <1>4 DEF Watch, Unwatch, Touch, Goto, Alone, Patching, Contained
<1>5. ASSUME NEW d \in Clients, Get(d)
      PROVE  Alone' /\ \A c \in Clients : Contained(c)'
  BY <1>5, StoreConstants
     DEF Get, Current, Goto, Alone, Patching, Contained, NoLostUpdate
<1>6. ASSUME NEW d \in Clients, Exec(d)
      PROVE  Alone' /\ \A c \in Clients : Contained(c)'
  <2>1. Alone'
    BY <1>6 DEF Exec, Goto, Alone, Patching
  <2>2. \A c \in Clients : Contained(c)'
    BY <1>6 DEF Exec, Commit, Goto, Alone, Patching, Contained
  <2> QED
    BY <2>1, <2>2
<1>7. ASSUME NEW c \in Clients, Exec(c), Applies(c) PROVE NoLostUpdate'
  BY <1>7, StoreConstants
     DEF Exec, Applies, Commit, Merged, NoLostUpdate, Contained, BaseOK, Records
<1>8. ASSUME UNCHANGED vars
      PROVE  Alone' /\ \A c \in Clients : Contained(c)'
  <2>1. pc' = pc /\ base' = base /\ answer' = answer
    BY <1>8 DEF vars
  <2> QED
    BY <2>1 DEF Alone, Patching, Contained
<1> QED
  BY <1>1, <1>2, <1>3, <1>4, <1>5, <1>6, <1>7, <1>8, KeepsUpdates DEF Next

\* No acknowledged patch is lost while every patcher has a connection of its
\* own, or while the session's lock keeps the patchers of a session apart.
THEOREM NothingLost == (Private \/ Serial) /\ Spec => []NoLostUpdate
<1>1. Init => PInv /\ SInv
  BY CInit, BInit
     DEF Init, PInv, SInv, NoLostUpdate, Alone, Patching, Contained
<1>2. CASE Private
  <2>1. PInv /\ [Next]_vars => PInv'
    BY <1>2, PNext
  <2>2. PInv => NoLostUpdate
    BY DEF PInv
  <2> QED
    BY <1>1, <2>1, <2>2, PTL DEF Spec
<1>3. CASE Serial
  <2>1. SInv /\ [Next]_vars => SInv'
    BY <1>3, SNext
  <2>2. SInv => NoLostUpdate
    BY DEF SInv
  <2> QED
    BY <1>1, <2>1, <2>2, PTL DEF Spec
<1> QED
  BY <1>2, <1>3

=============================================================================
