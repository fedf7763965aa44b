------------------------------- MODULE Cargo -------------------------------
(***************************************************************************)
(* The custody state of the warehouse system: cartons (boxes), the trucks  *)
(* (batches) they ride, the phones' queued scans and the server's handlers *)
(* that are half-way through one.  This module declares the state and the  *)
(* rules every door shares; Loading, Unloading and Desk hold the doors,    *)
(* and Truck composes them.                                                *)
(*                                                                         *)
(* A box row is split over functions of the carton: status, place (its     *)
(* current_warehouse_id), ride (its current_batch_id), crateOf (crate_id)  *)
(* and missing (flags contains missing_in_transit, the one flag any guard  *)
(* reads).  None is SQL NULL.                                              *)
(***************************************************************************)
EXTENDS Naturals, FiniteSets

CONSTANTS
  Cartons,        \* box rows
  Crates,         \* packed crates; a CR- code stands for all its members
  Trucks,         \* batches
  Warehouses,
  Collection,     \* the warehouses of type customs or distribution
  Country,        \* a truck is rerouted inside one country only
  LoadScans,      \* clientEventUuids of load scans
  UnloadScans,    \* clientEventUuids of unload scans
  MaxDeliveries,  \* bound: deliveries of one scan the server works on at once
  None

Scans == LoadScans \cup UnloadScans
Codes == Cartons \cup Crates

Plannable   == {"in_stock", "ready_for_pickup"}
Aboard      == {"planned", "loading", "in_transit"}
BoxStatuses == Plannable \cup Aboard \cup {"issued", "lost", "void"}

LoadingStates   == {"forming", "loading"}
UnloadingStates == {"in_transit", "arrived"}
TruckStatuses   == LoadingStates \cup UnloadingStates
                     \cup {"unborn", "unloaded", "closed", "cancelled"}

ASSUME CargoAssumption ==
  /\ None \notin Cartons \cup Crates \cup Trucks \cup Warehouses \cup Scans
  /\ Cartons \cap Crates = {}
  /\ LoadScans \cap UnloadScans = {}
  /\ Warehouses # {} /\ Collection \subseteq Warehouses
  /\ MaxDeliveries \in Nat \ {0}

VARIABLES
  status, place, ride, crateOf, missing,  \* the boxes table
  readyBefore,  \* box_movements: trucks whose newest taking of the carton was
                \* from a ready_for_pickup shelf
  landedAt,     \* box_movements: where each truck's landings put the carton
  lostOff,      \* box_movements: the truck of its newest lost_in_transit
  tstat, from, to, hasPlan,               \* the batches table, and load_plans
  phone,        \* the phones' outboxes, one slot per scan
  jobs,         \* handlers that have read the truck and not yet committed
  recorded,     \* scan_events: the uuids stored exactly as the phone sent them
  applied,      \* history: how many deliveries of a scan moved cargo (to 2)
  overtaken,    \* history: the deliveries at work while another of their scan
                \* moved cargo
  late          \* history: trucks a load scan was committed to after they left

boxVars   == <<status, place, ride, crateOf, missing>>
moveVars  == <<readyBefore, landedAt, lostOff>>
truckVars == <<tstat, from, to, hasPlan>>
scanVars  == <<phone, jobs, recorded, applied, overtaken, late>>
vars      == <<boxVars, moveVars, truckVars, scanVars>>

-----------------------------------------------------------------------------
(* Scans.  A queued scan names a code and a truck; a load scan may carry    *)
(* the confirmed added-on-spot flag, an unload scan the destination the     *)
(* screen showed (expect, None for a caller that sends none).               *)

Payload == [code: Codes, truck: Trucks, spot: BOOLEAN, expect: Warehouses \cup {None}]
NoScan  == [code |-> None, truck |-> None, spot |-> FALSE, expect |-> None]
Slot    == [step: {"queued"}, scan: Payload] \cup [step: {"idle", "done"}, scan: {NoScan}]

(* One delivery: the payload and what the handler read of the truck.        *)
JobOf(scans, states) == [scan: scans, n: 1..MaxDeliveries, body: Payload,
                         seen: states, seenDest: Warehouses]
Job == JobOf(LoadScans, LoadingStates) \cup JobOf(UnloadScans, UnloadingStates)

TypeOK ==
  /\ status \in [Cartons -> BoxStatuses]
  /\ place \in [Cartons -> Warehouses \cup {None}]
  /\ ride \in [Cartons -> Trucks \cup {None}]
  /\ crateOf \in [Cartons -> Crates \cup {None}]
  /\ missing \in [Cartons -> BOOLEAN]
  /\ readyBefore \in [Cartons -> SUBSET Trucks]
  /\ landedAt \in [Cartons -> [Trucks -> SUBSET Warehouses]]
  /\ lostOff \in [Cartons -> Trucks \cup {None}]
  /\ tstat \in [Trucks -> TruckStatuses]
  /\ from \in [Trucks -> Warehouses]
  /\ to \in [Trucks -> Warehouses]
  /\ hasPlan \in [Trucks -> BOOLEAN]
  /\ phone \in [Scans -> Slot]
  /\ jobs \subseteq Job
  /\ recorded \subseteq Scans
  /\ applied \in [Scans -> 0..2]
  /\ overtaken \subseteq Job
  /\ late \subseteq Trucks

-----------------------------------------------------------------------------
(* Rules the doors share.                                                   *)

\* The function f with every member of S given the value v.
Put(f, S, v) == [x \in DOMAIN f |-> IF x \in S THEN v ELSE f[x]]

LandedStatus(w) == IF w \in Collection THEN "ready_for_pickup" ELSE "in_stock"

\* A mistake: giving back without looking at the movement rows.
ShelfBeforeForgotten(c, t) == "in_stock"

\* The shelf status a carton goes back to when truck t gives it back.
ShelfBefore(c, t) == IF t \in readyBefore[c] THEN "ready_for_pickup" ELSE "in_stock"

GiveBack(S, t) ==
  status' = [c \in Cartons |-> IF c \in S THEN ShelfBefore(c, t) ELSE status[c]]

\* The movement rows of taking S for truck t: the newest taking from a shelf.
TookFrom(S, t) ==
  readyBefore' = [c \in Cartons |->
    IF c \in S /\ status[c] \in Plannable
      THEN IF status[c] = "ready_for_pickup" THEN readyBefore[c] \cup {t}
                                            ELSE readyBefore[c] \ {t}
      ELSE readyBefore[c]]

MembersOf(code) == IF code \in Crates THEN {c \in Cartons : crateOf[c] = code} ELSE {code}

(* The scan's life at the phone and at the server's door.                   *)

Queue(s, body) ==
  /\ phone[s].step = "idle"
  /\ phone' = [phone EXCEPT ![s] = [step |-> "queued", scan |-> body]]
  /\ UNCHANGED <<boxVars, moveVars, truckVars, jobs, recorded, applied, overtaken, late>>

\* The phone takes a scan off its outbox once it hears any verdict on it.
Heard(s) == phone' = [phone EXCEPT ![s] = [step |-> "done", scan |-> NoScan]]

\* A handler starts: it reads the truck, unlocked, and goes on to the boxes.
Start(s) ==
  /\ \E n \in 1..MaxDeliveries :
       /\ \A j \in jobs : j.scan = s => j.n # n
       /\ LET b == phone[s].scan
          IN jobs' = jobs \cup {[scan |-> s, n |-> n, body |-> b,
                                 seen |-> tstat[b.truck], seenDest |-> to[b.truck]]}
  /\ UNCHANGED <<boxVars, moveVars, truckVars, phone, recorded, applied, overtaken, late>>

Refuse(s) ==
  /\ Heard(s)
  /\ UNCHANGED <<boxVars, moveVars, truckVars, jobs, recorded, applied, overtaken, late>>

\* A handler commits and answers; the answer may be lost on the way back.
Answer(j) ==
  /\ jobs' = jobs \ {j}
  /\ Heard(j.scan) \/ UNCHANGED phone

MovedNothing(j) ==
  /\ overtaken' = overtaken \ {j}
  /\ UNCHANGED <<recorded, applied>>

\* It moved cargo; the deliveries of its scan still at work have looked for a
\* replay already, and do not look again.
Moved(j) ==
  /\ applied' = [applied EXCEPT ![j.scan] = IF @ = 2 THEN 2 ELSE @ + 1]
  /\ overtaken' = (overtaken \cup {k \in jobs : k.scan = j.scan}) \ {j}

\* A mistake: every row is stored under a derived uuid.
RecordDerived(j, rows) == Moved(j) /\ UNCHANGED recorded

\* The scan_events rows of a delivery that moved cargo: the uuid is stored as
\* sent only when a single row is written, else one uuid5 per box replaces it.
Record(j, rows) ==
  /\ recorded' = IF Cardinality(rows) = 1 THEN recorded \cup {j.scan} ELSE recorded
  /\ Moved(j)

RidersOf(t)  == {c \in Cartons : ride[c] = t}
OnTruck(c, t, S) == ride[c] = t /\ status[c] \in S
LooseAt(c, w)    == status[c] \in Plannable /\ place[c] = w
=============================================================================
