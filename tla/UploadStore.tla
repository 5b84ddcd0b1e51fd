---------------------------- MODULE UploadStore ----------------------------
(***************************************************************************)
(* RedisUploadStateStore (upload.state.redis.ts) command by command.       *)
(* patchCAS sends WATCH, GET, TTL, then MULTI/SET/EXEC as one pipeline,    *)
(* then UNWATCH, and awaits each; commands of other calls may come between *)
(* on the same connection.  Redis keeps the watched keys per CONNECTION:   *)
(* EXEC and UNWATCH drop all of them, whoever asked for them.              *)
(* TTL changes nothing and is part of the step after it.                   *)
(***************************************************************************)
EXTENDS Naturals

CONSTANTS
  Clients,     \* calls of patchCAS, each with the snapshot it was made from
  Conns,       \* connections to Redis; upload.module.ts opens one per process
  ConnOf,
  Keys, KeyOf, \* one key per upload session
  Serial,      \* TRUE: withLock keeps the patchers of one session apart
  Absent

Records == [version : Nat \ {0}, by : SUBSET Clients]

ASSUME StoreConstants ==
  /\ ConnOf \in [Clients -> Conns] /\ KeyOf \in [Clients -> Keys]
  /\ Serial \in BOOLEAN /\ Absent \notin Records

VARIABLES
  db, life, want, answer,   \* as in CasRegister; `by` stands for the payload
  pc,                       \* per client: the command it sends next
  base,                     \* per client: the record its GET returned
  watched, dirty            \* per connection, in Redis: WATCHed keys, and
                            \* whether one of them was modified since

conns == <<watched, dirty>>
vars == <<db, life, want, answer, pc, base, conns>>

---------------------------------------------------------------------------
\* Redis: a command that modifies key k marks every connection that watches it.
Modified(k) == dirty' = [n \in Conns |-> dirty[n] \/ k \in watched[n]]

\* EXEC and UNWATCH forget the connection's keys and its mark.
Forget(n) ==
  /\ watched' = [watched EXCEPT ![n] = {}]
  /\ dirty' = [dirty EXCEPT ![n] = FALSE]

Goto(c, label) == pc' = [pc EXCEPT ![c] = label]

Create(k) ==
  /\ life[k] = "new" /\ db[k] = Absent
  /\ db' = [db EXCEPT ![k] = [version |-> 1, by |-> {}]]
  /\ life' = [life EXCEPT ![k] = "live"]
  /\ Modified(k)
  /\ UNCHANGED <<want, answer, pc, base, watched>>

\* DEL of abort, finish and mustGetActive, or the key's TTL: none needs the lock.
Remove(k) ==
  /\ db[k] # Absent
  /\ db' = [db EXCEPT ![k] = Absent]
  /\ life' = [life EXCEPT ![k] = "gone"]
  /\ Modified(k)
  /\ UNCHANGED <<want, answer, pc, base, watched>>

---------------------------------------------------------------------------
\* get, at the beginning of the unit of work that will patch
Read(c) ==
  /\ pc[c] = "idle" /\ db[KeyOf[c]] # Absent
  /\ Serial => \A d \in Clients \ {c} :
                 KeyOf[d] = KeyOf[c] => pc[d] \in {"idle", "done"}
  /\ want' = [want EXCEPT ![c] = db[KeyOf[c]].version]
  /\ Goto(c, "watch")
  /\ UNCHANGED <<db, life, answer, base, conns>>

Watch(c) ==
  /\ pc[c] = "watch"
  /\ watched' = [watched EXCEPT ![ConnOf[c]] = @ \cup {KeyOf[c]}]
  /\ Goto(c, "get")
  /\ UNCHANGED <<db, life, want, answer, base, dirty>>

Current(c) == db[KeyOf[c]] # Absent /\ db[KeyOf[c]].version = want[c]

Get(c) ==
  /\ pc[c] = "get"
  /\ \/ /\ Current(c)
        /\ base' = [base EXCEPT ![c] = db[KeyOf[c]]]
        /\ Goto(c, "exec")
        /\ UNCHANGED answer
     \/ /\ ~Current(c)
        /\ answer' = [answer EXCEPT ![c] = "false"]
        /\ Goto(c, "unwatch")
        /\ UNCHANGED base
  /\ UNCHANGED <<db, life, want, conns>>

\* mergeStatus: what the GET returned, with the patch, one version later.
Merged(b, c) == [version |-> b.version + 1, by |-> b.by \cup {c}]

Commit(c) ==
  /\ db' = [db EXCEPT ![KeyOf[c]] = Merged(base[c], c)]
  /\ watched' = [watched EXCEPT ![ConnOf[c]] = {}]
  /\ dirty' = [n \in Conns |-> n # ConnOf[c] /\ (dirty[n] \/ KeyOf[c] \in watched[n])]
  /\ answer' = [answer EXCEPT ![c] = "true"]

\* Mutant of Exec: a SET without the transaction around it.
ExecUnguarded(c) ==
  /\ pc[c] = "exec"
  /\ Commit(c)
  /\ Goto(c, "last")
  /\ UNCHANGED <<life, want, base>>

Exec(c) ==
  /\ pc[c] = "exec"
  /\ \/ ~dirty[ConnOf[c]] /\ Commit(c)
     \/ /\ dirty[ConnOf[c]] /\ Forget(ConnOf[c])
        /\ answer' = [answer EXCEPT ![c] = "false"]
        /\ UNCHANGED db
  /\ Goto(c, "last")
  /\ UNCHANGED <<life, want, base>>

\* The explicit UNWATCH of the two refusals, then the one in `finally`.
Unwatch(c) ==
  /\ pc[c] = "unwatch" \/ pc[c] = "last"
  /\ Forget(ConnOf[c])
  /\ \/ pc[c] = "unwatch" /\ Goto(c, "last")
     \/ pc[c] = "last" /\ answer[c] = "true" /\ Goto(c, "touch")
     \/ pc[c] = "last" /\ Goto(c, "done")
  /\ UNCHANGED <<db, life, want, answer, base>>

\* writeChunk ends with touch: EXPIRE modifies the key, if it is still there.
Touch(c) ==
  /\ pc[c] = "touch"
  /\ \/ db[KeyOf[c]] # Absent /\ Modified(KeyOf[c])
     \/ db[KeyOf[c]] = Absent /\ UNCHANGED dirty
  /\ Goto(c, "done")
  /\ UNCHANGED <<db, life, want, answer, base, watched>>

---------------------------------------------------------------------------
Init ==
  /\ db = [k \in Keys |-> Absent] /\ life = [k \in Keys |-> "new"]
  /\ want = [c \in Clients |-> 0] /\ answer = [c \in Clients |-> "none"]
  /\ pc = [c \in Clients |-> "idle"] /\ base = [c \in Clients |-> Absent]
  /\ watched = [n \in Conns |-> {}] /\ dirty = [n \in Conns |-> FALSE]

Next ==
  \/ \E k \in Keys : Create(k) \/ Remove(k)
  \/ \E c \in Clients :
       Read(c) \/ Watch(c) \/ Get(c) \/ Exec(c) \/ Unwatch(c) \/ Touch(c)

Spec == Init /\ [][Next]_vars

---------------------------------------------------------------------------
\* Properties

\* Every variable stays in its type.
TypeOK ==
  /\ db \in [Keys -> Records \cup {Absent}]
  /\ life \in [Keys -> {"new", "live", "gone"}]
  /\ want \in [Clients -> Nat] /\ answer \in [Clients -> {"none", "true", "false"}]
  /\ pc \in [Clients -> {"idle", "watch", "get", "exec", "unwatch", "last", "touch", "done"}]
  /\ base \in [Clients -> Records \cup {Absent}]
  /\ watched \in [Conns -> SUBSET Keys] /\ dirty \in [Conns -> BOOLEAN]

\* A patch that was answered with true is in the record as long as the record
\* lives: no overlapping patchCAS writes an older copy over it.
NoLostUpdate ==
  \A c \in Clients : answer[c] = "true" /\ db[KeyOf[c]] # Absent
                       => c \in db[KeyOf[c]].by

\* A deleted session stays deleted: no patchCAS that read it before the DEL
\* brings the key back.
StaysGone == \A k \in Keys : life[k] = "gone" => db[k] = Absent

\* The commands implement the promise of the interface: the key in Redis is the
\* register, whatever connections watch and callers hold.
Cas == INSTANCE CasRegister
         WITH db <- db, life <- life, want <- want, answer <- answer
ImplementsCas == Cas!Spec
=============================================================================
