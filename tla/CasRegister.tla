---------------------------- MODULE CasRegister ----------------------------
(***************************************************************************)
(* What the upload state store promises (UploadStateStore in               *)
(* upload.types.ts): create fails if the key exists, delete is final, and  *)
(* patchCAS is one step that applies a patch only to the version its       *)
(* caller expected.                                                        *)
(***************************************************************************)
EXTENDS Naturals

CONSTANTS Clients, Keys, KeyOf, Absent

VARIABLES
  db,      \* per key: the record, or Absent
  life,    \* per key: "new", then "live", then "gone"
  want,    \* per client: the version it expects; 0 before it has read one
  answer   \* per client: what patchCAS returned

vars == <<db, life, want, answer>>

Fresh == [version |-> 1, by |-> {}]

Init ==
  /\ db = [k \in Keys |-> Absent] /\ life = [k \in Keys |-> "new"]
  /\ want = [c \in Clients |-> 0] /\ answer = [c \in Clients |-> "none"]

Create(k) ==
  /\ life[k] = "new" /\ db[k] = Absent
  /\ db' = [db EXCEPT ![k] = Fresh] /\ life' = [life EXCEPT ![k] = "live"]
  /\ UNCHANGED <<want, answer>>

Remove(k) ==
  /\ db[k] # Absent
  /\ db' = [db EXCEPT ![k] = Absent] /\ life' = [life EXCEPT ![k] = "gone"]
  /\ UNCHANGED <<want, answer>>

Read(c) ==
  /\ want[c] = 0 /\ db[KeyOf[c]] # Absent
  /\ want' = [want EXCEPT ![c] = db[KeyOf[c]].version]
  /\ UNCHANGED <<db, life, answer>>

\* The record remembers whose patches it contains.
Apply(c) ==
  LET cur == db[KeyOf[c]] IN
  /\ answer[c] = "none"
  /\ cur # Absent /\ cur.version = want[c]
  /\ db' = [db EXCEPT ![KeyOf[c]] =
              [version |-> cur.version + 1, by |-> cur.by \cup {c}]]
  /\ answer' = [answer EXCEPT ![c] = "true"]
  /\ UNCHANGED <<life, want>>

\* A refused patch has no effect.
Refuse(c) ==
  /\ answer[c] = "none"
  /\ answer' = [answer EXCEPT ![c] = "false"]
  /\ UNCHANGED <<db, life, want>>

Next ==
  \/ \E k \in Keys : Create(k) \/ Remove(k)
  \/ \E c \in Clients : Read(c) \/ Apply(c) \/ Refuse(c)

Spec == Init /\ [][Next]_vars
=============================================================================
