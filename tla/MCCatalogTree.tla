--------------------------- MODULE MCCatalogTree ---------------------------
\* Instances of CatalogTree for TLC.
EXTENDS CatalogTree

CONSTANTS c1, c2, c3, t1, u1, u2, e1, e2

MCEdits == { [authors |-> {u2}, given |-> Categories, want |-> {c1}],
             [authors |-> {u1}, given |-> {}, want |-> {}],
             [authors |-> {u1, u2}, given |-> {}, want |-> {}],
             [authors |-> Keep, given |-> Tags, want |-> Tags] }

\* Any forest of two or three categories; a product has an author and at most
\* one link; three requests are made, and the editors differ in nothing.
MaxMade == 3
MCInit ==
  /\ Init
  /\ {c1, c2, t1} \subseteq Live
  /\ \A x \in rows : x.of \in {u1, c1}
  /\ \A p \in Products : shown[p] # "absent" => Authors(p) # {}
  /\ Cardinality({r \in Requests : pc[r] = "idle"}) = MaxMade
  /\ pc[e2] = "idle" => pc[e1] = "idle"

MCSpec == MCInit /\ [][Next]_vars /\ \A r \in Walkers : WF_vars(Walk(r))
=============================================================================
