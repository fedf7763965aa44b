-------------------------------- MODULE Truck --------------------------------
(***************************************************************************)
(* Cargo custody: the loading, unloading and floor doors composed, every   *)
(* interleaving of them, and what must hold of a carton and of a truck     *)
(* whatever the order.                                                     *)
(***************************************************************************)
EXTENDS Loading, Unloading, Desk

TruckInit ==
  /\ tstat = [t \in Trucks |-> "unborn"]
  /\ from \in [Trucks -> {CHOOSE w \in Warehouses : TRUE}]
  /\ to = from
  /\ hasPlan = [t \in Trucks |-> FALSE]

\* Cartons stand on shelves: in_stock where the customer handed them in, a
\* collection warehouse included, or ready there since a truck of before brought
\* them.  A crate was packed from in_stock cartons of one warehouse.
BoxInit ==
  /\ place \in [Cartons -> Warehouses]
  /\ status \in [Cartons -> Plannable]
  /\ \A c \in Cartons : status[c] = "ready_for_pickup" => place[c] \in Collection
  /\ ride = [c \in Cartons |-> None]
  /\ crateOf \in [Cartons -> Crates \cup {None}]
  /\ \A c \in Cartons : crateOf[c] # None => status[c] = "in_stock"
  /\ \A c, d \in Cartons : crateOf[c] # None /\ crateOf[c] = crateOf[d] => place[c] = place[d]
  /\ missing = [c \in Cartons |-> FALSE]
  /\ readyBefore = [c \in Cartons |-> {}]
  /\ landedAt = [c \in Cartons |-> [t \in Trucks |-> {}]]
  /\ lostOff = [c \in Cartons |-> None]

ScanInit ==
  /\ phone = [s \in Scans |-> [step |-> "idle", scan |-> NoScan]]
  /\ jobs = {}
  /\ recorded = {}
  /\ applied = [s \in Scans |-> 0]
  /\ overtaken = {}
  /\ late = {}

Init == TruckInit /\ BoxInit /\ ScanInit

Next == LoadingNext \/ UnloadingNext \/ DeskNext

Spec == Init /\ [][Next]_vars

-----------------------------------------------------------------------------
(* Safety.                                                                  *)

\* The three pointers of a box row tell one story: aboard it rides a truck, and
\* until that truck leaves it still stands at the truck's origin; only on the
\* road, or lost on it, does it stand nowhere; and off a truck it points at
\* none, unless a stocktake wrote it off while planned.
CustodyConsistent ==
  \A c \in Cartons :
    /\ status[c] \in Aboard => ride[c] # None
    /\ status[c] \in {"planned", "loading"} => place[c] = from[ride[c]]
    /\ status[c] = "in_transit" => place[c] = None
    /\ place[c] = None => status[c] \in {"in_transit", "lost"}
    /\ ride[c] # None => status[c] \in Aboard \cup {"lost"}

\* A carton planned or loaded sits on a truck that is still being loaded, and
\* one in transit on a truck that has left, unless a load scan that had read
\* the truck before it left was committed after.
AboardTruckState ==
  \A c \in Cartons : ride[c] # None =>
    /\ status[c] = "planned" => tstat[ride[c]] \in LoadingStates
    /\ status[c] = "loading" => tstat[ride[c]] \in LoadingStates \/ ride[c] \in late
    /\ status[c] = "in_transit" =>
         tstat[ride[c]] \in UnloadingStates \cup {"unloaded", "closed"} \/ ride[c] \in late

\* No carton is forgotten on the road: once a truck's unload is finished, what
\* is still in transit on it has been declared missing.
NobodyForgotten ==
  \A c \in Cartons :
    status[c] = "in_transit" /\ tstat[ride[c]] \in {"unloaded", "closed"} => missing[c]

\* On a shelf of w a carton has the status w gives landed cargo; in_stock at a
\* collection warehouse is only what no truck ever landed there (a walk-in).
FitsShelf(c, s, w) ==
  \/ s = LandedStatus(w)
  \/ s = "in_stock" /\ \A t \in Trucks : w \notin landedAt[c][t]

\* Whatever gave it back, found or restored it, a carton on a shelf has a status
\* that fits: a landed carton never falls off the ready lists of its warehouse,
\* and nothing is ready where nobody collects.
ShelfMatchesWarehouse ==
  \A c \in Cartons : status[c] \in Plannable => FitsShelf(c, status[c], place[c])

\* Only a truck somebody opened carries cargo or has scans under way.
OnlyOpenTrucks ==
  /\ \A c \in Cartons : ride[c] # None => tstat[ride[c]] # "unborn"
  /\ \A j \in jobs : tstat[j.body.truck] # "unborn"

\* While a carton has a truck, the movement rows remember a status that fits the
\* shelf it left.
ShelfRemembered ==
  \A c \in Cartons : ride[c] # None =>
    FitsShelf(c, ShelfBefore(c, ride[c]), from[ride[c]])

\* A handler that read its truck arrived knows where it is: nothing reroutes it.
ArrivalSettled ==
  \A j \in jobs : j.seen = "arrived" /\ j.body.truck \notin late =>
    /\ tstat[j.body.truck] \in {"arrived", "unloaded", "closed"}
    /\ to[j.body.truck] = j.seenDest

\* The inductive invariant of the proofs.
CustodyInv ==
  /\ OnlyOpenTrucks
  /\ CustodyConsistent
  /\ AboardTruckState
  /\ NobodyForgotten
  /\ ShelfMatchesWarehouse
  /\ ShelfRemembered

-----------------------------------------------------------------------------
(* What a step may never do.                                                *)

Later(a, b) ==
  \/ a = b
  \/ a = "unborn" /\ b = "forming"
  \/ a = "forming" /\ b \in {"loading", "in_transit", "cancelled"}
  \/ a = "loading" /\ b \in {"in_transit", "cancelled"}
  \/ a = "in_transit" /\ b \in {"arrived", "unloaded"}
  \/ a = "arrived" /\ b = "unloaded"
  \/ a = "unloaded" /\ b = "closed"

\* A truck's status only moves forward, unless a late load scan rewrote it.
ForwardOnly == [][\A t \in Trucks \ late' : Later(tstat[t], tstat'[t])]_vars

\* Cargo is landed for a truck only at the warehouse the truck is bound for at
\* that moment, however its reroute interleaves with the scans of its arrival.
LandsAtDestination ==
  [][\A c \in Cartons, t \in Trucks \ late' :
       landedAt'[c][t] \subseteq landedAt[c][t] \cup {to[t]}]_vars

\* Once a scan of one carton has moved it, no delivery of that scan the server
\* takes up afterwards moves anything, however late and however often it comes.
\* Not held to that: a crate's scan, and a delivery that had looked for a replay
\* before the other committed.  Each may load again what the office took off
\* since (ScanAppliedOnce).
ReplayMovesNothing ==
  [][\A s \in Scans : applied[s] > 0 /\ applied'[s] # applied[s] =>
       \E j \in jobs \ jobs' : j.scan = s /\ (j.body.code \in Crates \/ j \in overtaken)]_vars

-----------------------------------------------------------------------------
(* The abstract custody, seen through the box rows.                         *)

Seen == [c \in Cartons |->
  CASE status[c] \in Plannable             -> [at |-> "shelf", of |-> place[c]]
    [] status[c] \in {"planned", "loading"} -> [at |-> "yard", of |-> ride[c]]
    [] status[c] = "in_transit"            -> [at |-> "road", of |-> ride[c]]
    [] OTHER                               -> [at |-> "gone", of |-> status[c]]]

CustodyView == INSTANCE Custody WITH where <- Seen

\* Every door, in every interleaving, keeps the promises of Custody.
RefinesCustody == CustodyView!Spec

-----------------------------------------------------------------------------
(* What the code's comments say, and the code does not keep.                *)

\* scanning/service.ts:91: ingest is idempotent by clientEventUuid.
ScanAppliedOnce == \A s \in Scans : applied[s] <= 1
=============================================================================
