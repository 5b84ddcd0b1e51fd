---------------------------- MODULE MCOtpTicket ----------------------------
(***************************************************************************)
(* Instances of OtpTicket for TLC.                                         *)
(***************************************************************************)
EXTENDS OtpTicket, TLC

CONSTANTS s1, s2, v1, v2, v3, p1, p2, ReqMax, VerMax

\* OTP_REQUEST_MAX and OTP_VERIFY_MAX.
Limits == [b \in Buckets |-> IF b = "req" THEN ReqMax ELSE VerMax]

\* Requests of a kind are interchangeable.
Symmetry == Permutations(Senders) \cup Permutations(Verifiers) \cup Permutations(Setters)
=============================================================================
