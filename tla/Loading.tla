------------------------------ MODULE Loading ------------------------------
(***************************************************************************)
(* The loading side of a truck: how it is opened, loaded by phone scans,   *)
(* corrected, finished, cancelled and sent off.  The office doors take the *)
(* truck's advisory lock (lockTruckLoading), so each is one step; the      *)
(* phone's load scan takes no lock on the truck and is two: ReadForLoad    *)
(* reads the truck row, CommitLoad locks the boxes and writes.             *)
(***************************************************************************)
EXTENDS Cargo

-----------------------------------------------------------------------------
(* Opening a truck.                                                         *)

OpenQuickTruck(t, o, d) ==
  /\ tstat[t] = "unborn"
  /\ o # d
  /\ tstat' = [tstat EXCEPT ![t] = "forming"]
  /\ from' = [from EXCEPT ![t] = o]
  /\ to' = [to EXCEPT ![t] = d]
  /\ UNCHANGED <<hasPlan, boxVars, moveVars, scanVars>>

\* The agent approves a plan: a truck is born with the cartons S of its lines
\* reserved on it, whatever loose stock of those lots stands at the origin.
ApprovePlan(t, o, d, S) ==
  /\ tstat[t] = "unborn"
  /\ o # d
  /\ S # {}
  /\ \A c \in S : LooseAt(c, o)
  /\ tstat' = [tstat EXCEPT ![t] = "forming"]
  /\ from' = [from EXCEPT ![t] = o]
  /\ to' = [to EXCEPT ![t] = d]
  /\ hasPlan' = [hasPlan EXCEPT ![t] = TRUE]
  /\ status' = Put(status, S, "planned")
  /\ ride' = Put(ride, S, t)
  /\ TookFrom(S, t)
  /\ UNCHANGED <<place, crateOf, missing, landedAt, lostOff, scanVars>>

-----------------------------------------------------------------------------
(* The phone's load scan.                                                   *)

QueueLoad(s) ==
  \E code \in Codes, t \in Trucks, spot \in BOOLEAN :
    /\ tstat[t] \in LoadingStates
    /\ Queue(s, [code |-> code, truck |-> t, spot |-> spot, expect |-> None])

\* The truck is read and judged; a known uuid is answered as a replay.
ReadForLoad(s) ==
  /\ phone[s].step = "queued"
  /\ IF tstat[phone[s].scan.truck] \in LoadingStates /\ s \notin recorded
       THEN Start(s)
       ELSE Refuse(s)

\* What of the scanned code this truck holds already.
HeldFor(b) == {c \in MembersOf(b.code) : OnTruck(c, b.truck, {"planned", "loading"})}

\* A plan covers a crate by any of its cartons, a carton by itself.
OnPlan(b) == IF b.code \in Crates THEN HeldFor(b) # {} ELSE HeldFor(b) = MembersOf(b.code)

\* A crate holding strays beside its planned cartons loads only those.
Recording(b) ==
  IF hasPlan[b.truck] /\ b.code \in Crates /\ ~b.spot THEN HeldFor(b) ELSE MembersOf(b.code)

\* A mistake: the warehouse the carton stands in is not compared.
LoadableAnywhere(c, b) ==
  \/ c \in HeldFor(b)
  \/ (b.spot \/ ~hasPlan[b.truck]) /\ status[c] \in Plannable

Loadable(c, b) ==
  \/ c \in HeldFor(b)
  \/ (b.spot \/ ~hasPlan[b.truck]) /\ LooseAt(c, from[b.truck])

\* The boxes a load scan puts aboard, as the handler decides on the locked
\* rows; {} when it refuses the scan or finds it a duplicate.
ToLoad(b) ==
  {c \in Recording(b) :
    /\ status[c] # "loading"
    /\ hasPlan[b.truck] /\ ~b.spot => OnPlan(b)
    /\ \A x \in Recording(b) : Loadable(x, b)}

CommitLoad(j) ==
  LET t    == j.body.truck
      S    == ToLoad(j.body)
      spot == {c \in S : j.body.spot /\ c \notin HeldFor(j.body)}
  IN /\ j.scan \in LoadScans
     /\ Answer(j)
     /\ IF S = {}
          THEN MovedNothing(j) /\ UNCHANGED <<boxVars, moveVars, truckVars, late>>
          ELSE /\ status' = Put(status, S, "loading")
               /\ ride' = Put(ride, S, t)
               /\ missing' = Put(missing, spot, FALSE)
               /\ TookFrom(S, t)
               /\ Record(j, S)
               \* written on what was read, not on what the row now says
               /\ tstat' = IF j.seen = "forming"
                             THEN [tstat EXCEPT ![t] = "loading"] ELSE tstat
               /\ late' = IF tstat[t] \in LoadingStates THEN late ELSE late \cup {t}
               /\ UNCHANGED <<place, crateOf, landedAt, lostOff, from, to, hasPlan>>

-----------------------------------------------------------------------------
(* The office's doors, one at a time per truck.                             *)

\* A scanned box or crate comes back off; a carton taken out of a crate whose
\* siblings stay aboard leaves the crate.
RemoveLoaded(t, code) ==
  LET back == {c \in MembersOf(code) : OnTruck(c, t, {"loading"})}
  IN /\ tstat[t] \in LoadingStates
     /\ back # {}
     /\ GiveBack(back, t)
     /\ ride' = Put(ride, back, None)
     /\ missing' = Put(missing, back, FALSE)
     /\ crateOf' = IF code \in Crates THEN crateOf ELSE Put(crateOf, back, None)
     /\ UNCHANGED <<place, moveVars, truckVars, scanVars>>

\* What was planned and never scanned goes back to its shelf.
FinishLoading(t) ==
  LET short == {c \in Cartons : OnTruck(c, t, {"planned"})}
  IN /\ tstat[t] \in LoadingStates
     /\ short # {}
     /\ GiveBack(short, t)
     /\ ride' = Put(ride, short, None)
     /\ UNCHANGED <<place, crateOf, missing, moveVars, truckVars, scanVars>>

\* A mistake: the truck leaves with cartons still planned.
DepartUnfinished(t) ==
  LET loaded == {c \in Cartons : OnTruck(c, t, {"loading"})}
  IN /\ tstat[t] \in LoadingStates
     /\ loaded # {}
     /\ status' = Put(status, loaded, "in_transit")
     /\ place' = Put(place, loaded, None)
     /\ tstat' = [tstat EXCEPT ![t] = "in_transit"]
     /\ UNCHANGED <<ride, crateOf, missing, moveVars, from, to, hasPlan, scanVars>>

Depart(t) ==
  LET loaded == {c \in Cartons : OnTruck(c, t, {"loading"})}
  IN /\ tstat[t] \in LoadingStates
     /\ \A c \in RidersOf(t) : status[c] # "planned"
     /\ loaded # {}
     /\ status' = Put(status, loaded, "in_transit")
     /\ place' = Put(place, loaded, None)
     /\ tstat' = [tstat EXCEPT ![t] = "in_transit"]
     /\ UNCHANGED <<ride, crateOf, missing, moveVars, from, to, hasPlan, scanVars>>

\* A mistake: any truck not yet closed is cancelled.
CancelAnyTruck(t) ==
  LET members == RidersOf(t)
  IN /\ tstat[t] \notin {"unborn", "cancelled", "closed"}
     /\ \A c \in members : status[c] \in {"planned", "loading"}
     /\ GiveBack(members, t)
     /\ ride' = Put(ride, members, None)
     /\ missing' = Put(missing, members, FALSE)
     /\ tstat' = [tstat EXCEPT ![t] = "cancelled"]
     /\ UNCHANGED <<place, crateOf, moveVars, from, to, hasPlan, scanVars>>

CancelTruck(t) ==
  LET members == RidersOf(t)
  IN /\ tstat[t] \in LoadingStates
     /\ \A c \in members : status[c] \in {"planned", "loading"}
     /\ GiveBack(members, t)
     /\ ride' = Put(ride, members, None)
     /\ missing' = Put(missing, members, FALSE)
     /\ tstat' = [tstat EXCEPT ![t] = "cancelled"]
     /\ UNCHANGED <<place, crateOf, moveVars, from, to, hasPlan, scanVars>>

LoadingNext ==
  \/ \E t \in Trucks :
       \/ \E o, d \in Warehouses :
            \/ OpenQuickTruck(t, o, d)
            \/ \E S \in SUBSET Cartons : ApprovePlan(t, o, d, S)
       \/ \E code \in Codes : RemoveLoaded(t, code)
       \/ FinishLoading(t)
       \/ Depart(t)
       \/ CancelTruck(t)
  \/ \E s \in LoadScans : QueueLoad(s) \/ ReadForLoad(s)
  \/ \E j \in jobs : CommitLoad(j)
=============================================================================
