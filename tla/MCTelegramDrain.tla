--------------------------- MODULE MCTelegramDrain ---------------------------
(***************************************************************************)
(* Small instances of TelegramDrain for TLC, in one run: two rows one      *)
(* drain sends, one row two drains may send while its task changes once,   *)
(* or one row one drain sends while its task changes twice.                *)
(***************************************************************************)
EXTENDS TelegramDrain

CONSTANTS w1, w2

\* The drains that ever start in a behaviour; fixed when it begins.
VARIABLE crew

MCInit ==
  /\ Init
  /\ crew \in {{w1}, {w1, w2}}

Written == {r \in Rows : row[r].status # "absent"}

Small ==
  /\ crew' = crew
  /\ \A w \in Drains \ crew : drain'[w] = drain[w]
  /\ crew = {w1, w2} => Written' \subseteq {1}
  /\ doors' >= 1 => Written' \subseteq {1}
  /\ doors' = 2 => crew = {w1}

MCSpec ==
  /\ MCInit /\ [][Next /\ Small]_<<vars, crew>>
  /\ \A w \in Drains : WF_vars(w \in crew /\ Work(w))
  /\ WF_vars(RetireWork) /\ WF_vars(Resume)
  /\ \A r \in Rows : WF_vars(Age(r))
=============================================================================
