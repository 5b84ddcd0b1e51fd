--------------------------- MODULE MCUploadStore ---------------------------
\* Instances of UploadStore for TLC: c1 and c2 patch the session s, c3 patches
\* s or another session t.
EXTENDS UploadStore, TLC

CONSTANTS c1, c2, c3, s, t, n1, n2, n3

OneSession == [c \in Clients |-> s]
TwoSessions == [c \in Clients |-> IF c = c3 THEN t ELSE s]
OwnConn == [c \in Clients |-> CASE c = c1 -> n1 [] c = c2 -> n2 [] c = c3 -> n3]
SharedConn == [c \in Clients |-> n1]
=============================================================================
