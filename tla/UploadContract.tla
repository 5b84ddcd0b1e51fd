--------------------------- MODULE UploadContract ---------------------------
(***************************************************************************)
(* What an upload session promises those who use it (the init, chunk,      *)
(* finish and abort of upload.controller.ts), whatever overlaps: it is     *)
(* opened once; a chunk is accepted while the session is open, and stored; *)
(* one finish wins it, when all chunks are stored; and once it is over, by *)
(* an abort, an error or its expiry, nobody wins it any more.              *)
(***************************************************************************)
EXTENDS FiniteSets

CONSTANTS Chunks, Finishers

VARIABLES
  phase,     \* "new", "open", "uploaded" or "over"
  stored,    \* the chunks on disk
  accepted,  \* the chunks whose senders were told so
  winning,   \* the finish that may write the row of the file, if there is one
  rows, told,   \* the finishes that wrote it, and that said so
  aborted

vars == <<phase, stored, accepted, winning, rows, told, aborted>>

Init ==
  /\ phase = "new" /\ stored = {} /\ accepted = {}
  /\ winning = {} /\ rows = {} /\ told = {} /\ aborted = FALSE

Open ==
  /\ phase = "new" /\ phase' = "open"
  /\ UNCHANGED <<stored, accepted, winning, rows, told, aborted>>

\* A chunk that comes late is still written.
Store(c) ==
  /\ phase # "new"
  /\ stored' = stored \cup {c}
  /\ UNCHANGED <<phase, accepted, winning, rows, told, aborted>>

Accept(c) ==
  /\ phase = "open" /\ c \in stored
  /\ accepted' = accepted \cup {c}
  /\ UNCHANGED <<phase, stored, winning, rows, told, aborted>>

Win(f) ==
  /\ phase = "open" /\ stored = Chunks
  /\ phase' = "uploaded" /\ winning' = {f}
  /\ UNCHANGED <<stored, accepted, rows, told, aborted>>

\* The caller may not be told, or the row may not be written after all.
Publish(f) ==
  /\ f \in winning /\ winning' = {}
  /\ rows' = {f}
  /\ told' \in {told, {f}}
  /\ UNCHANGED <<phase, stored, accepted, aborted>>

GiveUp ==
  /\ winning' = {}
  /\ UNCHANGED <<phase, stored, accepted, rows, told, aborted>>

Close ==
  /\ phase' = "over"
  /\ UNCHANGED <<stored, accepted, winning, rows, told, aborted>>

Abort ==
  /\ phase # "new" /\ phase' = "over" /\ aborted' = TRUE
  /\ UNCHANGED <<stored, accepted, winning, rows, told>>

Next ==
  \/ Open \/ Close \/ Abort \/ GiveUp
  \/ \E c \in Chunks : Store(c) \/ Accept(c)
  \/ \E f \in Finishers : Win(f) \/ Publish(f)

Spec == Init /\ [][Next]_vars

---------------------------------------------------------------------------
\* What follows for the clients: an accepted chunk is stored; a session has one
\* row at most, of the finish that won it, which had every chunk; who was told of
\* a row has written it; and an aborted session stays over.
Promise ==
  /\ accepted \subseteq stored /\ stored \subseteq Chunks
  /\ told \subseteq rows
  /\ \A f, g \in winning \cup rows : f = g
  /\ winning \cup rows # {} => stored = Chunks /\ phase \in {"uploaded", "over"}
  /\ aborted => phase = "over"
=============================================================================
