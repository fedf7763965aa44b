-------------------------------- MODULE Desk --------------------------------
(***************************************************************************)
(* The warehouse floor and counter: the doors that move a carton's record  *)
(* without a truck.  Each is one transaction that locks the box rows it    *)
(* decides on, so each is one step.                                        *)
(***************************************************************************)
EXTENDS Cargo

Present == {"in_stock", "planned", "ready_for_pickup"}

\* A manager marks a carton on the shelf lost or void.
MarkBox(c, fate) ==
  /\ fate \in {"lost", "void"}
  /\ status[c] = "in_stock"
  /\ crateOf[c] = None
  /\ status' = [status EXCEPT ![c] = fate]
  /\ UNCHANGED <<place, ride, crateOf, missing, moveVars, truckVars, scanVars>>

\* A lost carton turns up: on the shelf of the warehouse it was recorded in, or
\* at w when it was lost on the road.  Found at the origin of that truck, it
\* never rode it.
RestoreLost(c, w) ==
  LET home  == IF place[c] = None THEN w ELSE place[c]
      never == place[c] = None /\ lostOff[c] # None /\ from[lostOff[c]] = home
  IN /\ status[c] = "lost"
     /\ home = w
     /\ status' = [status EXCEPT ![c] = LandedStatus(home)]
     /\ place' = [place EXCEPT ![c] = home]
     /\ ride' = [ride EXCEPT ![c] = None]
     /\ missing' = [missing EXCEPT ![c] = FALSE]
     /\ landedAt' = IF never THEN [landedAt EXCEPT ![c][lostOff[c]] = {}] ELSE landedAt
     /\ UNCHANGED <<crateOf, readyBefore, lostOff, truckVars, scanVars>>

\* The warehouse writes off a carton standing in front of it.
WriteOff(c) ==
  /\ status[c] \in Present
  /\ status' = [status EXCEPT ![c] = "lost"]
  /\ ride' = [ride EXCEPT ![c] = None]
  /\ crateOf' = [crateOf EXCEPT ![c] = None]
  /\ missing' = [missing EXCEPT ![c] = FALSE]
  /\ UNCHANGED <<place, moveVars, truckVars, scanVars>>

\* A stocktake of w: scanned cartons recorded elsewhere move here, unscanned
\* ones the manager ticks become lost.
Reconcile(w, found, ticked) ==
  LET moved == {c \in found : status[c] \in Present \cup {"in_transit"} /\ place[c] # w}
      lost  == {c \in ticked : status[c] \in Present /\ place[c] = w}
  IN /\ found \cap ticked = {}
     /\ moved \cup lost # {}
     /\ status' = Put(Put(status, moved, LandedStatus(w)), lost, "lost")
     /\ place' = Put(place, moved, w)
     /\ ride' = Put(ride, moved, None)
     /\ crateOf' = Put(crateOf, lost, None)
     /\ UNCHANGED <<missing, moveVars, truckVars, scanVars>>

\* One carton found on the floor of w while the record says it is elsewhere.
AcceptFound(c, w) ==
  /\ status[c] \in Present \cup {"in_transit"}
  /\ place[c] # w
  \* a truck bound for w has its own unload screen
  /\ ~ /\ status[c] = "in_transit" /\ ride[c] # None
       /\ to[ride[c]] = w /\ tstat[ride[c]] \in UnloadingStates
  /\ status' = [status EXCEPT ![c] = LandedStatus(w)]
  /\ place' = [place EXCEPT ![c] = w]
  /\ ride' = [ride EXCEPT ![c] = None]
  /\ missing' = [missing EXCEPT ![c] = FALSE]
  /\ UNCHANGED <<crateOf, moveVars, truckVars, scanVars>>

\* Cartons S of one client are handed over at w.
Issue(S, w) ==
  /\ S # {}
  /\ \A c \in S : LooseAt(c, w)
  /\ status' = Put(status, S, "issued")
  /\ crateOf' = Put(crateOf, S, None)
  /\ UNCHANGED <<place, ride, missing, moveVars, truckVars, scanVars>>

\* A crate on the shelf is taken apart; its row is read without a lock, its
\* members are locked and judged.
DissolveCrate(k) ==
  LET members == {c \in Cartons : crateOf[c] = k}
  IN /\ members # {}
     /\ \A c \in members : status[c] = "in_stock"
     /\ crateOf' = Put(crateOf, members, None)
     /\ UNCHANGED <<status, place, ride, missing, moveVars, truckVars, scanVars>>

\* A receipt of the cartons S was a mistake: what still stands on the shelf is
\* void, what is lost or void stays so, and one carton beyond refuses it all.
VoidReceipt(S) ==
  LET act == {c \in S : status[c] = "in_stock"}
  IN /\ act # {}
     /\ \A c \in S : status[c] \in {"in_stock", "lost", "void"}
     /\ status' = Put(status, act, "void")
     /\ ride' = Put(ride, act, None)
     /\ crateOf' = Put(crateOf, act, None)
     /\ missing' = Put(missing, act, FALSE)
     /\ UNCHANGED <<place, moveVars, truckVars, scanVars>>

DeskNext ==
  \/ \E c \in Cartons :
       \/ \E fate \in {"lost", "void"} : MarkBox(c, fate)
       \/ \E w \in Warehouses : RestoreLost(c, w) \/ AcceptFound(c, w)
       \/ WriteOff(c)
  \/ \E w \in Warehouses : \E S \in SUBSET Cartons :
       \/ Issue(S, w)
       \/ \E T \in SUBSET Cartons : Reconcile(w, S, T)
  \/ \E k \in Crates : DissolveCrate(k)
  \/ \E S \in SUBSET Cartons : VoidReceipt(S)
=============================================================================
