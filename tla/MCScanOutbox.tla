---------------------------- MODULE MCScanOutbox ----------------------------
(* Small instances of ScanOutbox for TLC: a and c are good scans of two     *)
(* trucks, b is one the request schema refuses.                             *)
EXTENDS ScanOutbox

CONSTANTS a, b, c, d1, d2

MCKeyOrder == <<a, b, c>>
MCDoorOf == [s \in {a, b, c} |-> IF s = c THEN d2 ELSE d1]

\* The good scan of one truck and the malformed one are on the phone already.
QueuedSpec == Start({a, b}) /\ [][Next]_vars /\ Fairness
=============================================================================
