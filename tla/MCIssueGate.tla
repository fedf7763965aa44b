----------------------------- MODULE MCIssueGate -----------------------------
(***************************************************************************)
(* Small instances of IssueGate for TLC, in one run: two cartons and one   *)
(* request, or two requests about one carton and no tick.  A carton gets   *)
(* its price at the counter, and nobody ticks both gates open at once.     *)
(***************************************************************************)
EXTENDS IssueGate, TLC

Symmetry == Permutations(Cartons) \cup Permutations(Presses) \cup Permutations(Approvals)

Requested == {a \in Approvals : approval[a].status # "none" \/ \E x \in asks : x.of = a}

Away == {c \in Cartons : at[c] = "away"}

Small ==
  /\ \A h \in Presses : ~(press[h].debtOk /\ press[h].priceOk)
  /\ priced \cap Away = {}
  /\ Cardinality(Requested) = 2 =>
       /\ \A h \in Presses : ~press[h].debtOk /\ ~press[h].priceOk
       /\ \E c \in Away : /\ \A h \in Presses : c \notin press[h].boxes
                          /\ \A a \in Approvals : c \notin approval[a].boxes
                          /\ \A x \in asks : c \notin x.boxes
=============================================================================
