------------------------------ MODULE MCSignIn ------------------------------
\* Instances of SignIn for TLC: two users at most, two names, two contacts.
EXTENDS SignIn

CONSTANTS u1, u2, c1, c2, n1, n2, p1, p2, s1, s2, l1, l2

\* Both contacts lead to the same first candidate.
MCCandidates == [c \in Contacts |-> <<n1, n2>>]

\* n2 has the shape of a phone, of that of the second contact.
MCSplit == [x \in Names \cup Contacts |-> IF x = n2 THEN c2 ELSE x]

\* No user or one, with name, contact and password; three requests are made,
\* of requests of one sort the first ones, which differ in nothing.  Refreshes
\* share no state with the others and are made alone.  As long as there is no
\* user, only setPassword and an administrator change anything.  Logins are made with
\* a name that is read as a name; or with one that is read as a phone, if setPassword
\* may make a user who has that phone.  Two logins meet at their counter, which a
\* change of password leaves alone: it is made with one.
MaxMade == 3
MCInit ==
  /\ Init
  /\ idn \in {n1, n2} /\ (idn = n2 => pc[l1] = "idle" /\ pc[s1] = "idle")
  /\ row[u2] = Absent
  /\ row[u1] \in {Absent, [name |-> n2, contact |-> c1, hash |-> p1]}
  /\ Cardinality({r \in Requests : pc[r] = "idle"}) = MaxMade
  /\ {r \in Requests : pc[r] = "idle"} \cap Refreshers \in {{}, Refreshers}
  /\ row[u1] = Absent => {r \in Requests : pc[r] = "idle"} \in {Setters \cup Admins, Refreshers}
  /\ \A p \in {<<s1, s2>>, <<l1, l2>>} :
       pc[p[2]] = "idle" => pc[p[1]] = "idle"
  /\ pc[l2] = "idle" => \A r \in Changers : pc[r] = "done"

MCSpec ==
  /\ MCInit /\ [][Next]_vars
  /\ \A k \in Keys : WF_vars(KeyEnds(k))
  /\ \A r \in Logins : WF_vars(Open(r) /\ LoginStep(r))
  /\ \A r \in Refreshers : WF_vars(ExpireRefresh(r))
=============================================================================
