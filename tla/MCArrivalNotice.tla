--------------------------- MODULE MCArrivalNotice ---------------------------
(***************************************************************************)
(* Small instances of ArrivalNotice for TLC, in one run: two overlapping   *)
(* sweeps over one client's cartons k1 and k2 while they stay on the       *)
(* shelf, or one sweep over two clients' k1 and k3.                        *)
(***************************************************************************)
EXTENDS ArrivalNotice

CONSTANTS k1, k2, k3, c1, c2, w1, w2

MCOwner == [k \in Cartons |-> IF k = k3 THEN c2 ELSE c1]

\* The sweeps that ever start in a behaviour; fixed when it begins.
VARIABLE crew

MCInit ==
  /\ Init
  /\ crew \in {{w1}, {w1, w2}}

Small ==
  /\ crew' = crew
  /\ \A w \in Sweeps \ crew : sweep'[w] = sweep[w]
  /\ IF crew = {w1} THEN where'[k2] = "truck"
     ELSE where'[k3] = "truck" /\ \A k \in Cartons : where'[k] # "gone"

MCSpec ==
  /\ MCInit /\ [][Next /\ Small]_<<vars, crew>>
  /\ \A w \in Sweeps : WF_vars(w \in crew /\ Work(w))
  /\ \A c \in Clients : WF_vars(Due(c)) /\ WF_vars(Age(c))
=============================================================================
