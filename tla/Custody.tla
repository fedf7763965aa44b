------------------------------- MODULE Custody -------------------------------
(***************************************************************************)
(* What the warehouse promises of every carton, seen from outside: it is   *)
(* in one place at a time, a truck takes its whole yard load when it       *)
(* leaves, nothing changes trucks without a shelf between, and what is     *)
(* handed over or voided left from a shelf and is gone for good.           *)
(* The service has no such state: it is what its box rows add up to.       *)
(***************************************************************************)
CONSTANTS Cartons, Trucks, Warehouses

VARIABLE where  \* one of the places below, per carton

Shelf(w) == [at |-> "shelf", of |-> w]
Yard(t)  == [at |-> "yard", of |-> t]    \* held for a truck still at its origin
Road(t)  == [at |-> "road", of |-> t]
Gone(f)  == [at |-> "gone", of |-> f]    \* issued, void or lost

\* Cargo of before stands on shelves, is on the road or is gone already.
Init == where \in [Cartons -> {Shelf(w) : w \in Warehouses} \cup {Road(t) : t \in Trucks}
                                \cup {Gone("issued"), Gone("void")}]

Places == {Shelf(w) : w \in Warehouses} \cup {Yard(t) : t \in Trucks} \cup {Road(t) : t \in Trucks}
            \cup {Gone(f) : f \in {"issued", "void", "lost"}}

\* The cartons a step moves.
Moved == {c \in Cartons : where'[c] # where[c]}

\* Cartons of one shelf join a truck.
Board(t) ==
  \E w \in Warehouses : \A c \in Moved : where[c] = Shelf(w) /\ where'[c] = Yard(t)

Leave(t) ==
  /\ Moved = {c \in Cartons : where[c] = Yard(t)}
  /\ \A c \in Moved : where'[c] = Road(t)

\* Cargo comes to a shelf: given back, landed, found or restored; a stocktake
\* writes off what it did not see in the same breath.
ToShelf(w) ==
  \A c \in Moved :
    \/ where'[c] = Shelf(w) /\ where[c] \notin {Gone("issued"), Gone("void")}
    \/ where'[c] = Gone("lost") /\ where[c].at \in {"shelf", "yard"}

HandOver(w) == \A c \in Moved : where[c] = Shelf(w) /\ where'[c] = Gone("issued")

WriteOff(c) ==
  /\ Moved = {c} /\ where'[c] = Gone("lost")
  /\ where[c].at \in {"shelf", "yard", "road"}

\* Only what stands on a shelf was never received.
Annul == \A c \in Moved : where[c].at = "shelf" /\ where'[c] = Gone("void")

Next ==
  /\ where' \in [Cartons -> Places]
  /\ \/ \E w \in Warehouses : HandOver(w) \/ ToShelf(w)
     \/ \E t \in Trucks : Leave(t) \/ Board(t)
     \/ \E c \in Cartons : WriteOff(c)
     \/ Annul

Spec == Init /\ [][Next]_where
=============================================================================
