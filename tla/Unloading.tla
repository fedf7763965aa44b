----------------------------- MODULE Unloading -----------------------------
(***************************************************************************)
(* The other end of the road: rerouting a truck under way, the unload      *)
(* scans of phones and of the office's accept-everything press, finishing  *)
(* the unload and resolving what it declared missing.                      *)
(*                                                                         *)
(* An unload scan is two steps.  ReadForUnload reads the truck unlocked;   *)
(* CommitUnload locks the boxes and writes, and when the truck was read    *)
(* in_transit it first locks the truck row and judges it again.            *)
(***************************************************************************)
EXTENDS Cargo

\* A dispatcher sends a truck on the road somewhere else in the same country.
Reroute(t, d) ==
  /\ tstat[t] = "in_transit"
  /\ d \notin {from[t], to[t]}
  /\ Country[d] = Country[to[t]]
  /\ to' = [to EXCEPT ![t] = d]
  /\ UNCHANGED <<tstat, from, hasPlan, boxVars, moveVars, scanVars>>

-----------------------------------------------------------------------------
(* The unload scan.                                                         *)

QueueUnload(s) ==
  \E code \in Codes, t \in Trucks :
    /\ tstat[t] \in UnloadingStates
    /\ \E expect \in {None, to[t]} :
         Queue(s, [code |-> code, truck |-> t, spot |-> FALSE, expect |-> expect])

ReadForUnload(s) ==
  LET b == phone[s].scan
  IN /\ phone[s].step = "queued"
     /\ IF /\ tstat[b.truck] \in UnloadingStates
           /\ s \notin recorded
           /\ b.expect \in {None, to[b.truck]}
          THEN Start(s)
          ELSE Refuse(s)

\* A mistake: the locked row is judged by its status alone.
TruckStillOnRoad(j) ==
  j.seen = "in_transit" => tstat[j.body.truck] \in UnloadingStates

\* Read in_transit, the truck row is locked and judged again; read arrived,
\* nothing about it can change any more and it is not.
TruckStillThere(j) ==
  LET t == j.body.truck
  IN j.seen = "in_transit" => tstat[t] \in UnloadingStates /\ to[t] = j.seenDest

SettledAt(c, w) == status[c] = LandedStatus(w) /\ place[c] = w

\* Landed by this truck before, already standing at w, or already taken
\* onward by a truck leaving w: the scan has nothing left to do with it.
DoneAt(c, t, w) ==
  \/ SettledAt(c, w)
  \/ ~OnTruck(c, t, {"in_transit"}) /\ w \in landedAt[c][t]
  \/ /\ ride[c] \notin {None, t}
     /\ status[c] = "in_transit" \/ (status[c] \in {"planned", "loading"} /\ place[c] = w)
     /\ from[ride[c]] = w

\* The rows a scan is about: of a crate, only the members that came here.
UnloadMembers(b, w) ==
  {c \in MembersOf(b.code) : b.code \in Crates =>
                               OnTruck(c, b.truck, {"in_transit"}) \/ SettledAt(c, w)}

\* A mistake: what the office has already handed over is landed again.
ToLandBlind(b, w) == {c \in UnloadMembers(b, w) : ~DoneAt(c, b.truck, w)}

ToLand(b, w) ==
  LET members == UnloadMembers(b, w)
      left    == {c \in members : ~DoneAt(c, b.truck, w)}
  IN IF \E c \in members : status[c] \in {"issued", "void"} THEN {} ELSE left

\* A mistake: landed cartons keep the truck they came on.
LandKeepsTruck(S, t, w) ==
  LET rogue == {c \in S : ~OnTruck(c, t, {"in_transit"})}
  IN /\ status' = Put(status, S, LandedStatus(w))
     /\ place' = Put(place, S, w)
     /\ crateOf' = Put(crateOf, rogue, None)
     /\ missing' = Put(missing, S, FALSE)
     /\ TookFrom(rogue, t)
     /\ landedAt' = [c \in Cartons |->
                       IF c \in S THEN [landedAt[c] EXCEPT ![t] = @ \cup {w}]
                                  ELSE landedAt[c]]
     /\ UNCHANGED <<ride, lostOff>>

\* Cartons S come off truck t at w: the rogue ones, which its manifest does not
\* hold, lose the crate they were recorded in.
Land(S, t, w) ==
  LET rogue == {c \in S : ~OnTruck(c, t, {"in_transit"})}
  IN /\ status' = Put(status, S, LandedStatus(w))
     /\ place' = Put(place, S, w)
     /\ ride' = Put(ride, S, None)
     /\ crateOf' = Put(crateOf, rogue, None)
     /\ missing' = Put(missing, S, FALSE)
     /\ TookFrom(rogue, t)
     /\ landedAt' = [c \in Cartons |->
                       IF c \in S THEN [landedAt[c] EXCEPT ![t] = @ \cup {w}]
                                  ELSE landedAt[c]]
     /\ UNCHANGED lostOff

CommitUnload(j) ==
  LET t == j.body.truck
      S == IF TruckStillThere(j) THEN ToLand(j.body, j.seenDest) ELSE {}
  IN /\ j.scan \in UnloadScans
     /\ Answer(j)
     \* the first scan of an arrival marks it, whatever becomes of its carton
     /\ tstat' = IF j.seen = "in_transit" /\ TruckStillThere(j)
                   THEN [tstat EXCEPT ![t] = "arrived"] ELSE tstat
     /\ IF S = {}
          THEN MovedNothing(j) /\ UNCHANGED <<boxVars, moveVars>>
          ELSE /\ Land(S, t, j.seenDest)
               /\ Record(j, UnloadMembers(j.body, j.seenDest))
     /\ UNCHANGED <<from, to, hasPlan, late>>

-----------------------------------------------------------------------------
(* Closing the unload.                                                      *)

\* A mistake: the truck is finished and nobody asks what did not come.
FinishUnloadSilently(t) ==
  /\ tstat[t] \in UnloadingStates
  /\ tstat' = [tstat EXCEPT ![t] = "unloaded"]
  /\ UNCHANGED <<from, to, hasPlan, boxVars, moveVars, scanVars>>

\* Every carton of the truck nobody scanned off is declared missing; it stays
\* in_transit on the truck until somebody resolves it.
FinishUnload(t) ==
  LET left == {c \in Cartons : OnTruck(c, t, {"in_transit"})}
  IN /\ tstat[t] \in UnloadingStates
     /\ missing' = Put(missing, left, TRUE)
     /\ tstat' = [tstat EXCEPT ![t] = "unloaded"]
     /\ UNCHANGED <<status, place, ride, crateOf, moveVars, from, to, hasPlan, scanVars>>

ResolveLost(c) ==
  /\ missing[c] /\ ride[c] # None
  /\ status' = [status EXCEPT ![c] = "lost"]
  /\ place' = [place EXCEPT ![c] = None]
  /\ ride' = [ride EXCEPT ![c] = None]
  /\ crateOf' = [crateOf EXCEPT ![c] = None]
  /\ missing' = [missing EXCEPT ![c] = FALSE]
  /\ lostOff' = [lostOff EXCEPT ![c] = ride[c]]
  /\ UNCHANGED <<readyBefore, landedAt, truckVars, scanVars>>

ResolveFoundHere(c) ==
  LET t == ride[c]
  IN /\ missing[c] /\ t # None
     /\ status' = [status EXCEPT ![c] = LandedStatus(to[t])]
     /\ place' = [place EXCEPT ![c] = to[t]]
     /\ ride' = [ride EXCEPT ![c] = None]
     /\ missing' = [missing EXCEPT ![c] = FALSE]
     /\ landedAt' = [landedAt EXCEPT ![c][t] = @ \cup {to[t]}]
     /\ UNCHANGED <<crateOf, readyBefore, lostOff, truckVars, scanVars>>

\* It never left: back on the shelf it was taken from, and whatever landing the
\* truck had recorded for it no longer counts.
ResolveFoundAtOrigin(c) ==
  LET t == ride[c]
  IN /\ missing[c] /\ t # None
     /\ status' = [status EXCEPT ![c] = ShelfBefore(c, t)]
     /\ place' = [place EXCEPT ![c] = from[t]]
     /\ ride' = [ride EXCEPT ![c] = None]
     /\ missing' = [missing EXCEPT ![c] = FALSE]
     /\ landedAt' = [landedAt EXCEPT ![c][t] = {}]
     /\ UNCHANGED <<crateOf, readyBefore, lostOff, truckVars, scanVars>>

CloseTruck(t) ==
  /\ tstat[t] = "unloaded"
  /\ tstat' = [tstat EXCEPT ![t] = "closed"]
  /\ UNCHANGED <<from, to, hasPlan, boxVars, moveVars, scanVars>>

UnloadingNext ==
  \/ \E t \in Trucks :
       \/ \E d \in Warehouses : Reroute(t, d)
       \/ FinishUnload(t)
       \/ CloseTruck(t)
  \/ \E s \in UnloadScans : QueueUnload(s) \/ ReadForUnload(s)
  \/ \E j \in jobs : CommitUnload(j)
  \/ \E c \in Cartons : ResolveLost(c) \/ ResolveFoundHere(c) \/ ResolveFoundAtOrigin(c)
=============================================================================
