-------------------------- MODULE MCUploadSession --------------------------
\* Instances of UploadSession for TLC: a file of one or two chunks.
EXTENDS UploadSession, TLC

CONSTANTS w0, w1, wx, w1b, f1, f2, a1

\* w0 and w1 send the two chunks, w1b sends the second again, wx sends one
\* that does not exist.
MCChunkOf == [w \in Writers |-> CASE w = w0 -> 0 [] w = wx -> NumChunks [] OTHER -> 1]

Finisher2 == Permutations({f1, f2})
=============================================================================
