------------------------------ MODULE MCTruck ------------------------------
(***************************************************************************)
(* Small instances of Truck for TLC.  o is an origin warehouse abroad, d   *)
(* and e collection points in the country of destination.  A run joins two *)
(* families of initial states; what one of them has no use for is there    *)
(* spent: a scan already answered, a truck cancelled, a carton void.       *)
(***************************************************************************)
EXTENDS Truck, TLC

CONSTANTS o, d, e

\* The scans of which two deliveries may be at work at once; fixed when a behaviour begins.
VARIABLE twice

MCCountry == [w \in Warehouses |-> IF w = o THEN "china" ELSE "uzbekistan"]

Symmetry == Permutations(Cartons) \cup Permutations(Trucks) \cup Permutations(LoadScans)

\* Of the scans, only these are still to come.
UsingOnly(scans) ==
  /\ phone = [s \in Scans |-> [step |-> IF s \in scans THEN "idle" ELSE "done", scan |-> NoScan]]
  /\ jobs = {} /\ recorded = {} /\ applied = [s \in Scans |-> 0]
  /\ overtaken = {} /\ late = {}

NoHistory ==
  /\ readyBefore = [c \in Cartons |-> {}]
  /\ landedAt = [c \in Cartons |-> [t \in Trucks |-> {}]]
  /\ lostOff = [c \in Cartons |-> None]
  /\ missing = [c \in Cartons |-> FALSE]
  /\ hasPlan = [t \in Trucks |-> FALSE]
  /\ from = [t \in Trucks |-> o]

Steps == [][Next /\ twice' = twice]_<<vars, twice>>

\* A truck is loaded from the origin's shelf: loose cartons by two scans, or by one
\* that two flushes send, or a crate and its fellows by one.
BoardingInit ==
  /\ TruckInit /\ BoxInit
  /\ \A c \in Cartons : place[c] = o
  /\ \/ (\A c \in Cartons : crateOf[c] = None) /\ UsingOnly(LoadScans) /\ twice = {}
     \/ \E s \in LoadScans :
          /\ UsingOnly({s})
          /\ twice = IF \A c \in Cartons : crateOf[c] = None THEN {s} ELSE {}

BoardingSpec == BoardingInit /\ Steps

\* A truck is on the road with all the cargo, on its way from o to d.
OnTheRoad ==
  /\ \E t \in Trucks :
       /\ tstat = [x \in Trucks |-> IF x = t THEN "in_transit" ELSE "cancelled"]
       /\ to = [x \in Trucks |-> IF x = t THEN d ELSE o]
       /\ ride = [c \in Cartons |-> t]
  /\ status = [c \in Cartons |-> "in_transit"]
  /\ place = [c \in Cartons |-> None]
  /\ crateOf \in [Cartons -> Crates \cup {None}]
  /\ UsingOnly(UnloadScans)

Void(c) == status[c] = "void" /\ place[c] = e

\* One carton, handed in anywhere, may ride one truck after the other; its
\* fellow is void.
Onward ==
  /\ \E w \in {o, d}, s \in Plannable, dead \in Cartons :
       /\ s = "ready_for_pickup" => w \in Collection
       /\ status = [c \in Cartons |-> IF c = dead THEN "void" ELSE s]
       /\ place = [c \in Cartons |-> IF c = dead THEN e ELSE w]
  /\ ride = [c \in Cartons |-> None] /\ crateOf = ride
  /\ tstat = [t \in Trucks |-> "unborn"] /\ to = from
  /\ UsingOnly(LoadScans \cup UnloadScans)

ArrivalInit == NoHistory /\ twice = {} /\ (OnTheRoad \/ Onward)

ArrivalSpec == ArrivalInit /\ Steps

\* Two deliveries of a scan are at work at once only of these.
Overlapping == \A j \in jobs' : j.n = 1 \/ j.scan \in twice

\* Only cartons that are not void, and crates that hold any, are scanned.
LiveCodes ==
  \A s \in Scans : phone[s].step = "idle" /\ phone'[s].step = "queued" =>
    \E c \in Cartons : ~Void(c) /\ phone'[s].scan.code \in {c, crateOf[c]}

\* The onward journey is between o and d.
TwoEnds ==
  (\E c \in Cartons : Void(c)) =>
    /\ \A c \in Cartons : place[c] = e => Void(c)
    /\ \A t \in Trucks : e \notin {from[t], to[t]}
=============================================================================
