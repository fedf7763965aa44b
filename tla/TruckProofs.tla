----------------------------- MODULE TruckProofs -----------------------------
(***************************************************************************)
(* Cargo custody, for every value of the constants: the types, a carton's  *)
(* scan, the safety invariants, and that Truck implements Custody.         *)
(***************************************************************************)
EXTENDS Truck, FiniteSetTheorems, TLAPS

\* Every placement of cartons on shelves and in crates is a well-typed start.
THEOREM InitType == Init => TypeOK
<1> SUFFICES ASSUME Init PROVE TypeOK
  OBVIOUS
<1>1. /\ place \in [Cartons -> Warehouses \cup {None}]
      /\ status \in [Cartons -> BoxStatuses]
      /\ ride \in [Cartons -> Trucks \cup {None}]
      /\ crateOf \in [Cartons -> Crates \cup {None}]
      /\ missing \in [Cartons -> BOOLEAN]
  BY DEF Init, BoxInit, BoxStatuses, Plannable, LandedStatus
<1>2. /\ readyBefore \in [Cartons -> SUBSET Trucks]
      /\ landedAt \in [Cartons -> [Trucks -> SUBSET Warehouses]]
      /\ lostOff \in [Cartons -> Trucks \cup {None}]
  BY DEF Init, BoxInit
<1>3. /\ tstat \in [Trucks -> TruckStatuses]
      /\ from \in [Trucks -> Warehouses]
      /\ to \in [Trucks -> Warehouses]
      /\ hasPlan \in [Trucks -> BOOLEAN]
  BY CargoAssumption DEF Init, TruckInit, TruckStatuses
<1>4. /\ phone \in [Scans -> Slot]
      /\ jobs \subseteq Job
      /\ recorded \subseteq Scans
      /\ applied \in [Scans -> 0..2]
      /\ overtaken \subseteq Job
      /\ late \subseteq Trucks
  BY DEF Init, ScanInit, Slot, NoScan
<1> QED BY <1>1, <1>2, <1>3, <1>4 DEF TypeOK

\* A quick truck is opened well typed.
LEMMA OpenType ==
  ASSUME TypeOK, NEW t \in Trucks, NEW o \in Warehouses, NEW d \in Warehouses,
         OpenQuickTruck(t, o, d)
  PROVE  TypeOK'
  BY DEF TypeOK, OpenQuickTruck, boxVars, moveVars, scanVars, TruckStatuses, LoadingStates

\* So is a planned one, its cartons reserved on it.
LEMMA ApproveType ==
  ASSUME TypeOK, NEW t \in Trucks, NEW o \in Warehouses, NEW d \in Warehouses,
         NEW S \in SUBSET Cartons, ApprovePlan(t, o, d, S)
  PROVE  TypeOK'
  BY DEF TypeOK, ApprovePlan, scanVars, TruckStatuses, LoadingStates, Put, TookFrom,
         BoxStatuses, Aboard

\* A scan's code stands for cartons, whatever it names.
LEMMA MembersAreCartons ==
  ASSUME NEW code \in Codes
  PROVE  MembersOf(code) \subseteq Cartons
  BY DEF MembersOf, Codes

\* A load scan only ever puts aboard cartons its code stands for.
LEMMA ToLoadMembers ==
  ASSUME NEW b
  PROVE  ToLoad(b) \subseteq MembersOf(b.code)
<1>1. ToLoad(b) \subseteq Recording(b)
  BY DEF ToLoad
<1>2. HeldFor(b) \subseteq MembersOf(b.code)
  BY DEF HeldFor
<1> QED BY <1>1, <1>2 DEF Recording

\* Answering a delivery, the answer lost or not, leaves jobs and phones well formed.
LEMMA AnswerType ==
  ASSUME TypeOK, NEW j \in jobs, Answer(j)
  PROVE  jobs' \subseteq Job /\ phone' \in [Scans -> Slot]
<1>1. [step |-> "done", scan |-> NoScan] \in Slot
  BY DEF Slot
<1>2. phone' \in [Scans -> Slot]
  BY <1>1 DEF TypeOK, Answer, Heard
<1> QED BY <1>2 DEF TypeOK, Answer

\* The scan_events a delivery writes are of scans that exist.
LEMMA RecordType ==
  ASSUME TypeOK, NEW j \in jobs, NEW rows, Record(j, rows)
  PROVE  recorded' \subseteq Scans /\ applied' \in [Scans -> 0..2] /\ overtaken' \subseteq Job
<1>1. j.scan \in Scans
  BY DEF TypeOK, Job, JobOf, Scans
<1>2. recorded' \subseteq Scans
  BY <1>1 DEF TypeOK, Record
<1>3. applied' \in [Scans -> 0..2]
  <2>1. applied' = [applied EXCEPT ![j.scan] = IF @ = 2 THEN 2 ELSE @ + 1]
    BY DEF Record, Moved
  <2>2. applied \in [Scans -> 0..2]
    BY DEF TypeOK
  <2> QED BY <1>1, <2>1, <2>2
<1>4. overtaken' \subseteq Job
  BY DEF TypeOK, Record, Moved
<1> QED BY <1>2, <1>3, <1>4

\* The movement rows of a taking name trucks.
LEMMA TookFromType ==
  ASSUME TypeOK, NEW S, NEW t \in Trucks, TookFrom(S, t)
  PROVE  readyBefore' \in [Cartons -> SUBSET Trucks]
  BY DEF TypeOK, TookFrom

\* The commit of a load scan keeps the state well typed, whichever cartons it takes.
LEMMA CommitLoadType ==
  ASSUME TypeOK, NEW j \in jobs, CommitLoad(j)
  PROVE  TypeOK'
<1> DEFINE S == ToLoad(j.body)
           t == j.body.truck
<1>1. j \in Job /\ j.body \in Payload /\ j.body.code \in Codes /\ t \in Trucks
  BY DEF TypeOK, Job, JobOf, Payload
<1>2. jobs' \subseteq Job /\ phone' \in [Scans -> Slot]
  BY AnswerType DEF CommitLoad
<1>3. CASE S = {}
  BY <1>2, <1>3 DEF CommitLoad, MovedNothing, TypeOK, boxVars, moveVars, truckVars
<1>4. CASE S # {}
  <2>1. S \subseteq Cartons
    <3>1. S \subseteq MembersOf(j.body.code)
      BY ToLoadMembers
    <3> QED BY <1>1, <3>1, MembersAreCartons
  <2>2. recorded' \subseteq Scans /\ applied' \in [Scans -> 0..2] /\ overtaken' \subseteq Job
    BY <1>4, RecordType DEF CommitLoad
  <2>3. /\ status' \in [Cartons -> BoxStatuses]
        /\ ride' \in [Cartons -> Trucks \cup {None}]
        /\ missing' \in [Cartons -> BOOLEAN]
    BY <1>1, <1>4, <2>1 DEF CommitLoad, TypeOK, Put, BoxStatuses, Aboard
  <2>4. readyBefore' \in [Cartons -> SUBSET Trucks]
    BY <1>1, <1>4, TookFromType DEF CommitLoad
  <2>5. tstat' \in [Trucks -> TruckStatuses] /\ late' \subseteq Trucks
    BY <1>1, <1>4 DEF CommitLoad, TypeOK, TruckStatuses, LoadingStates
  <2> QED BY <1>2, <1>4, <2>2, <2>3, <2>4, <2>5 DEF CommitLoad, TypeOK
<1> QED BY <1>3, <1>4

\* A payload queued on a phone keeps the outbox well formed.
LEMMA QueueType ==
  ASSUME TypeOK, NEW s \in Scans, NEW body \in Payload, Queue(s, body)
  PROVE  TypeOK'
<1>1. [step |-> "queued", scan |-> body] \in Slot
  BY DEF Slot
<1>2. phone' \in [Scans -> Slot]
  BY <1>1 DEF TypeOK, Queue
<1> QED BY <1>2 DEF TypeOK, Queue, boxVars, moveVars, truckVars

\* A refused scan leaves the outbox and changes nothing else.
LEMMA RefuseType ==
  ASSUME TypeOK, NEW s \in Scans, Refuse(s)
  PROVE  TypeOK'
<1>1. [step |-> "done", scan |-> NoScan] \in Slot
  BY DEF Slot
<1>2. phone' \in [Scans -> Slot]
  BY <1>1 DEF TypeOK, Refuse, Heard
<1> QED BY <1>2 DEF TypeOK, Refuse, boxVars, moveVars, truckVars

\* What a handler carries from its unlocked read is a job of the declared shape.
LEMMA StartType ==
  ASSUME TypeOK, NEW s \in Scans, phone[s].step = "queued",
         \/ s \in LoadScans /\ tstat[phone[s].scan.truck] \in LoadingStates
         \/ s \in UnloadScans /\ tstat[phone[s].scan.truck] \in UnloadingStates,
         Start(s)
  PROVE  TypeOK'
<1> DEFINE b == phone[s].scan
<1>1. b \in Payload
  BY DEF TypeOK, Slot
<1>2. b.truck \in Trucks
  BY <1>1 DEF Payload
<1>3. to[b.truck] \in Warehouses
  BY <1>2 DEF TypeOK
<1>4. PICK n \in 1..MaxDeliveries :
         jobs' = jobs \cup {[scan |-> s, n |-> n, body |-> b,
                             seen |-> tstat[b.truck], seenDest |-> to[b.truck]]}
  BY DEF Start
<1>5. [scan |-> s, n |-> n, body |-> b, seen |-> tstat[b.truck], seenDest |-> to[b.truck]] \in Job
  BY <1>1, <1>3 DEF Job, JobOf
<1>6. jobs' \subseteq Job
  BY <1>4, <1>5 DEF TypeOK
<1> QED BY <1>6 DEF TypeOK, Start, boxVars, moveVars, truckVars

\* The statuses the shared rules put on a carton.
LEMMA ShelfStatuses ==
  /\ \A w : LandedStatus(w) \in BoxStatuses
  /\ \A c, t : ShelfBefore(c, t) \in BoxStatuses
  BY DEF LandedStatus, ShelfBefore, BoxStatuses, Plannable

\* Giving cartons back leaves every status a box status.
LEMMA GiveBackType ==
  ASSUME TypeOK, NEW S, NEW t, GiveBack(S, t)
  PROVE  status' \in [Cartons -> BoxStatuses]
  BY ShelfStatuses DEF TypeOK, GiveBack

\* Every step of the loading side keeps the state well typed.
LEMMA LoadingType ==
  ASSUME TypeOK, LoadingNext
  PROVE  TypeOK'
<1>1. CASE \E t \in Trucks, o, d \in Warehouses : OpenQuickTruck(t, o, d)
  BY <1>1, OpenType
<1>2. CASE \E t \in Trucks, o, d \in Warehouses, S \in SUBSET Cartons : ApprovePlan(t, o, d, S)
  BY <1>2, ApproveType
<1>3. CASE \E t \in Trucks, code \in Codes : RemoveLoaded(t, code)
  <2> PICK t \in Trucks, code \in Codes : RemoveLoaded(t, code)
    BY <1>3
  <2>1. status' \in [Cartons -> BoxStatuses]
    BY GiveBackType DEF RemoveLoaded
  <2> QED BY <2>1 DEF RemoveLoaded, TypeOK, Put, moveVars, truckVars, scanVars
<1>4. CASE \E t \in Trucks : FinishLoading(t)
  <2> PICK t \in Trucks : FinishLoading(t)
    BY <1>4
  <2>1. status' \in [Cartons -> BoxStatuses]
    BY GiveBackType DEF FinishLoading
  <2> QED BY <2>1 DEF FinishLoading, TypeOK, Put, moveVars, truckVars, scanVars
<1>5. CASE \E t \in Trucks : Depart(t)
  BY <1>5 DEF Depart, TypeOK, Put, BoxStatuses, Aboard, TruckStatuses, UnloadingStates,
              moveVars, scanVars
<1>6. CASE \E t \in Trucks : CancelTruck(t)
  <2> PICK t \in Trucks : CancelTruck(t)
    BY <1>6
  <2>1. status' \in [Cartons -> BoxStatuses]
    BY GiveBackType DEF CancelTruck
  <2> QED BY <2>1 DEF CancelTruck, TypeOK, Put, TruckStatuses, moveVars, scanVars
<1>7. CASE \E s \in LoadScans : QueueLoad(s)
  <2> PICK s \in LoadScans, code \in Codes, t \in Trucks, spot \in BOOLEAN :
         Queue(s, [code |-> code, truck |-> t, spot |-> spot, expect |-> None])
    BY <1>7 DEF QueueLoad
  <2> QED BY QueueType DEF Scans, Payload
<1>8. CASE \E s \in LoadScans : ReadForLoad(s)
  BY <1>8, StartType, RefuseType DEF ReadForLoad, Scans
<1>9. CASE \E j \in jobs : CommitLoad(j)
  BY <1>9, CommitLoadType
<1> QED BY <1>1, <1>2, <1>3, <1>4, <1>5, <1>6, <1>7, <1>8, <1>9 DEF LoadingNext

\* An unload scan lands only cartons its code stands for.
LEMMA ToLandCartons ==
  ASSUME NEW b, NEW w, MembersOf(b.code) \subseteq Cartons
  PROVE  ToLand(b, w) \subseteq Cartons
  BY DEF ToLand, UnloadMembers

\* Cartons that come off a truck keep well-typed rows and movements.
LEMMA LandType ==
  ASSUME TypeOK, NEW S \in SUBSET Cartons, NEW t \in Trucks, NEW w \in Warehouses,
         Land(S, t, w)
  PROVE  /\ status' \in [Cartons -> BoxStatuses]
         /\ place' \in [Cartons -> Warehouses \cup {None}]
         /\ ride' \in [Cartons -> Trucks \cup {None}]
         /\ crateOf' \in [Cartons -> Crates \cup {None}]
         /\ missing' \in [Cartons -> BOOLEAN]
         /\ readyBefore' \in [Cartons -> SUBSET Trucks]
         /\ landedAt' \in [Cartons -> [Trucks -> SUBSET Warehouses]]
         /\ lostOff' = lostOff
<1>1. readyBefore' \in [Cartons -> SUBSET Trucks]
  BY TookFromType DEF Land
<1>2. status' \in [Cartons -> BoxStatuses]
  BY ShelfStatuses DEF Land, TypeOK, Put
<1>3. landedAt' \in [Cartons -> [Trucks -> SUBSET Warehouses]]
  BY DEF Land, TypeOK
<1> QED BY <1>1, <1>2, <1>3 DEF Land, TypeOK, Put

\* So does the commit of an unload scan, landed or refused.
LEMMA CommitUnloadType ==
  ASSUME TypeOK, NEW j \in jobs, CommitUnload(j)
  PROVE  TypeOK'
<1> DEFINE t == j.body.truck
           S == IF TruckStillThere(j) THEN ToLand(j.body, j.seenDest) ELSE {}
<1>1. /\ j \in Job /\ j.body \in Payload /\ j.body.code \in Codes
      /\ t \in Trucks /\ j.seenDest \in Warehouses
  BY DEF TypeOK, Job, JobOf, Payload
<1>2. jobs' \subseteq Job /\ phone' \in [Scans -> Slot]
  BY AnswerType DEF CommitUnload
<1>3. tstat' \in [Trucks -> TruckStatuses]
  BY <1>1 DEF CommitUnload, TypeOK, TruckStatuses, UnloadingStates
<1>4. S \in SUBSET Cartons
  BY <1>1, MembersAreCartons, ToLandCartons
<1>5. CASE S = {}
  <2>1. UNCHANGED <<boxVars, moveVars, recorded, applied, from, to, hasPlan, late>>
        /\ overtaken' \subseteq overtaken
    BY <1>5 DEF CommitUnload, MovedNothing
  <2> QED BY <1>2, <1>3, <2>1 DEF TypeOK, boxVars, moveVars
<1>6. CASE S # {}
  <2>1. /\ Land(S, t, j.seenDest)
        /\ Record(j, UnloadMembers(j.body, j.seenDest))
        /\ UNCHANGED <<from, to, hasPlan, late>>
    BY <1>6 DEF CommitUnload
  <2>2. recorded' \subseteq Scans /\ applied' \in [Scans -> 0..2] /\ overtaken' \subseteq Job
    BY <2>1, RecordType
  <2> HIDE DEF S, t
  <2>3. /\ status' \in [Cartons -> BoxStatuses]
        /\ place' \in [Cartons -> Warehouses \cup {None}]
        /\ ride' \in [Cartons -> Trucks \cup {None}]
        /\ crateOf' \in [Cartons -> Crates \cup {None}]
        /\ missing' \in [Cartons -> BOOLEAN]
        /\ readyBefore' \in [Cartons -> SUBSET Trucks]
        /\ landedAt' \in [Cartons -> [Trucks -> SUBSET Warehouses]]
        /\ lostOff' = lostOff
    BY <1>1, <1>4, <2>1, LandType
  <2> QED BY <1>2, <1>3, <2>1, <2>2, <2>3 DEF TypeOK
<1> QED BY <1>5, <1>6

\* Every step of the unloading side keeps the state well typed.
LEMMA UnloadingType ==
  ASSUME TypeOK, UnloadingNext
  PROVE  TypeOK'
<1>1. CASE \E t \in Trucks, d \in Warehouses : Reroute(t, d)
  BY <1>1 DEF Reroute, TypeOK, boxVars, moveVars, scanVars
<1>2. CASE \E t \in Trucks : FinishUnload(t)
  BY <1>2 DEF FinishUnload, TypeOK, Put, TruckStatuses, moveVars, scanVars
<1>3. CASE \E t \in Trucks : CloseTruck(t)
  BY <1>3 DEF CloseTruck, TypeOK, TruckStatuses, boxVars, moveVars, scanVars
<1>4. CASE \E s \in UnloadScans : QueueUnload(s)
  <2> PICK s \in UnloadScans, code \in Codes, t \in Trucks : \E expect \in {None, to[t]} :
         Queue(s, [code |-> code, truck |-> t, spot |-> FALSE, expect |-> expect])
    BY <1>4 DEF QueueUnload
  <2>1. {None, to[t]} \subseteq Warehouses \cup {None}
    BY DEF TypeOK
  <2> QED BY <2>1, QueueType DEF Scans, Payload
<1>5. CASE \E s \in UnloadScans : ReadForUnload(s)
  BY <1>5, StartType, RefuseType DEF ReadForUnload, Scans
<1>6. CASE \E j \in jobs : CommitUnload(j)
  BY <1>6, CommitUnloadType
<1>7. CASE \E c \in Cartons : ResolveLost(c)
  BY <1>7 DEF ResolveLost, TypeOK, BoxStatuses, truckVars, scanVars
<1>8. CASE \E c \in Cartons : ResolveFoundHere(c)
  <2> PICK c \in Cartons : ResolveFoundHere(c)
    BY <1>8
  <2>1. ride[c] \in Trucks
    BY DEF ResolveFoundHere, TypeOK
  <2>2. to[ride[c]] \in Warehouses
    BY <2>1 DEF TypeOK
  <2> QED BY <2>1, <2>2, ShelfStatuses DEF ResolveFoundHere, TypeOK, truckVars, scanVars
<1>9. CASE \E c \in Cartons : ResolveFoundAtOrigin(c)
  <2> PICK c \in Cartons : ResolveFoundAtOrigin(c)
    BY <1>9
  <2>1. ride[c] \in Trucks
    BY DEF ResolveFoundAtOrigin, TypeOK
  <2>2. from[ride[c]] \in Warehouses
    BY <2>1 DEF TypeOK
  <2> QED BY <2>1, <2>2, ShelfStatuses DEF ResolveFoundAtOrigin, TypeOK, truckVars, scanVars
<1> QED BY <1>1, <1>2, <1>3, <1>4, <1>5, <1>6, <1>7, <1>8, <1>9 DEF UnloadingNext

\* Every step of the floor and the counter keeps the state well typed.
LEMMA DeskType ==
  ASSUME TypeOK, DeskNext
  PROVE  TypeOK'
<1>1. CASE \E c \in Cartons, fate \in {"lost", "void"} : MarkBox(c, fate)
  BY <1>1 DEF MarkBox, TypeOK, BoxStatuses, moveVars, truckVars, scanVars
<1>2. CASE \E c \in Cartons, w \in Warehouses : RestoreLost(c, w)
  <2> PICK c \in Cartons, w \in Warehouses : RestoreLost(c, w)
    BY <1>2
  <2>1. /\ status' = [status EXCEPT ![c] = LandedStatus(w)]
        /\ place' = [place EXCEPT ![c] = w]
        /\ \/ landedAt' = landedAt
           \/ lostOff[c] # None /\ landedAt' = [landedAt EXCEPT ![c][lostOff[c]] = {}]
    <3>1. CASE place[c] = None
      BY <3>1 DEF RestoreLost
    <3>2. CASE place[c] # None
      BY <3>2 DEF RestoreLost
    <3> QED BY <3>1, <3>2
  <2>2. landedAt' \in [Cartons -> [Trucks -> SUBSET Warehouses]]
    <3>1. [landedAt[c] EXCEPT ![lostOff[c]] = {}] \in [Trucks -> SUBSET Warehouses]
      BY DEF TypeOK
    <3> QED BY <2>1, <3>1 DEF TypeOK
  <2> QED BY <2>1, <2>2, ShelfStatuses DEF RestoreLost, TypeOK, truckVars, scanVars
<1>3. CASE \E c \in Cartons, w \in Warehouses : AcceptFound(c, w)
  BY <1>3, ShelfStatuses DEF AcceptFound, TypeOK, moveVars, truckVars, scanVars
<1>4. CASE \E c \in Cartons : WriteOff(c)
  BY <1>4 DEF WriteOff, TypeOK, BoxStatuses, moveVars, truckVars, scanVars
<1>5. CASE \E w \in Warehouses, S \in SUBSET Cartons : Issue(S, w)
  BY <1>5 DEF Issue, TypeOK, Put, BoxStatuses, moveVars, truckVars, scanVars
<1>6. CASE \E w \in Warehouses, S, T \in SUBSET Cartons : Reconcile(w, S, T)
  <2> PICK w \in Warehouses, S \in SUBSET Cartons, T \in SUBSET Cartons : Reconcile(w, S, T)
    BY <1>6
  <2>1. LandedStatus(w) \in BoxStatuses /\ "lost" \in BoxStatuses
    BY ShelfStatuses DEF BoxStatuses
  <2>2. status' \in [Cartons -> BoxStatuses]
    BY <2>1 DEF Reconcile, TypeOK, Put
  <2> QED BY <2>2 DEF Reconcile, TypeOK, Put, moveVars, truckVars, scanVars
<1>7. CASE \E k \in Crates : DissolveCrate(k)
  BY <1>7 DEF DissolveCrate, TypeOK, Put, moveVars, truckVars, scanVars
<1>8. CASE \E S \in SUBSET Cartons : VoidReceipt(S)
  <2> PICK S \in SUBSET Cartons : VoidReceipt(S)
    BY <1>8
  <2>1. /\ status' \in [Cartons -> BoxStatuses]
        /\ missing' \in [Cartons -> BOOLEAN]
    BY DEF VoidReceipt, TypeOK, Put, BoxStatuses
  <2>2. /\ ride' \in [Cartons -> Trucks \cup {None}]
        /\ crateOf' \in [Cartons -> Crates \cup {None}]
    BY DEF VoidReceipt, TypeOK, Put
  <2> QED BY <2>1, <2>2 DEF VoidReceipt, TypeOK, moveVars, truckVars, scanVars
<1> QED BY <1>1, <1>2, <1>3, <1>4, <1>5, <1>6, <1>7, <1>8 DEF DeskNext

\* The state of Truck stays well typed whatever the doors do in whatever order:
\* every status a handler writes is one the schema knows, every pointer names a
\* row, every half-done handler still carries a payload it can act on.
THEOREM TypeCorrect == Spec => []TypeOK
<1>1. TypeOK /\ [Next]_vars => TypeOK'
  <2> SUFFICES ASSUME TypeOK, [Next]_vars PROVE TypeOK'
    OBVIOUS
  <2>1. CASE UNCHANGED vars
    BY <2>1 DEF vars, boxVars, moveVars, truckVars, scanVars, TypeOK
  <2> QED BY <2>1, LoadingType, UnloadingType, DeskType DEF Next
<1> QED BY <1>1, InitType, PTL DEF Spec

-----------------------------------------------------------------------------
(* A replayed scan of a carton moves nothing.  A scan of one carton writes  *)
(* one row, so its uuid is stored, and a delivery taken up afterwards is    *)
(* told it is a replay; one still at work then is overtaken.                *)

\* What a delivery carries is what the phone queued, and the slot is never used for
\* a second scan.
JobsFit ==
  \A j \in jobs : /\ phone[j.scan].step # "idle"
                  /\ phone[j.scan].step = "queued" => phone[j.scan].scan = j.body

\* A scan that moved cargo is a crate's or is known to the server by its uuid, and
\* what is at work on it beside a crate's was at work before.
SpentKnown ==
  \A s \in Scans : applied[s] > 0 =>
    /\ phone[s].step # "idle"
    /\ phone[s].step = "queued" => s \in recorded \/ phone[s].scan.code \in Crates
    /\ \A j \in jobs : j.scan = s => j.body.code \in Crates \/ j \in overtaken

\* What a step may do to the scans: nothing; or the phone queues one, a handler starts
\* on one it does not know, one is refused, or a delivery commits.
Commits(j) ==
  /\ Answer(j)
  /\ \/ MovedNothing(j)
     \/ /\ Moved(j)
        /\ recorded \subseteq recorded'
        /\ j.body.code \in Crates \/ j.scan \in recorded'

Starts(s) == phone[s].step = "queued" /\ s \notin recorded /\ Start(s)

Hears(s) == phone[s].step = "queued" /\ Refuse(s)

ScanStep ==
  \/ UNCHANGED <<phone, jobs, recorded, applied, overtaken>>
  \/ \E s \in Scans : (\E b \in Payload : Queue(s, b)) \/ Starts(s) \/ Hears(s)
  \/ \E j \in jobs : Commits(j)

\* A delivery that moves cargo stores the uuid as sent unless the code is a crate's.
LEMMA RecordKnows ==
  ASSUME NEW j \in jobs, NEW rows, Record(j, rows),
         j.body.code \notin Crates => rows = {j.body.code}
  PROVE  /\ Moved(j)
         /\ recorded \subseteq recorded'
         /\ j.body.code \in Crates \/ j.scan \in recorded'
<1>1. \A x : Cardinality({x}) = 1
  BY FS_Singleton
<1> QED BY <1>1 DEF Record

\* Every door is one of these to the scans.
LEMMA DoorsAreScanSteps ==
  ASSUME TypeOK, [Next]_vars
  PROVE  ScanStep
<1>1. ASSUME NEW j \in jobs, CommitLoad(j) PROVE Commits(j)
  <2>1. CASE ToLoad(j.body) = {}
    BY <1>1, <2>1 DEF CommitLoad, Commits
  <2>2. CASE ToLoad(j.body) # {}
    <3>1. j.body.code \notin Crates => ToLoad(j.body) \subseteq {j.body.code}
      BY DEF ToLoad, Recording, MembersOf
    <3>2. Record(j, ToLoad(j.body)) /\ Answer(j)
      BY <1>1, <2>2 DEF CommitLoad
    <3> QED BY <2>2, <3>1, <3>2, RecordKnows DEF Commits
  <2> QED BY <2>1, <2>2
<1>2. ASSUME NEW j \in jobs, CommitUnload(j) PROVE Commits(j)
  <2> DEFINE S == IF TruckStillThere(j) THEN ToLand(j.body, j.seenDest) ELSE {}
  <2>1. CASE S = {}
    BY <1>2, <2>1 DEF CommitUnload, Commits
  <2>2. CASE S # {}
    <3>1. j.body.code \notin Crates => UnloadMembers(j.body, j.seenDest) = {j.body.code}
      BY <2>2 DEF ToLand, UnloadMembers, MembersOf
    <3>2. Record(j, UnloadMembers(j.body, j.seenDest)) /\ Answer(j)
      BY <1>2, <2>2 DEF CommitUnload
    <3> QED BY <3>1, <3>2, RecordKnows DEF Commits
  <2> QED BY <2>1, <2>2
<1>3. ASSUME NEW s \in Scans, ReadForLoad(s) \/ ReadForUnload(s) PROVE Starts(s) \/ Hears(s)
  BY <1>3 DEF ReadForLoad, ReadForUnload, Starts, Hears
<1>4. ASSUME NEW s \in LoadScans, QueueLoad(s) PROVE \E b \in Payload : Queue(s, b)
  <2>1. PICK code \in Codes, t \in Trucks, spot \in BOOLEAN :
          Queue(s, [code |-> code, truck |-> t, spot |-> spot, expect |-> None])
    BY <1>4 DEF QueueLoad
  <2> QED BY <2>1 DEF Payload
<1>5. ASSUME NEW s \in UnloadScans, QueueUnload(s) PROVE \E b \in Payload : Queue(s, b)
  <2>1. PICK code \in Codes, t \in Trucks, expect \in Warehouses \cup {None} :
          Queue(s, [code |-> code, truck |-> t, spot |-> FALSE, expect |-> expect])
    BY <1>5 DEF QueueUnload, TypeOK
  <2> QED BY <2>1 DEF Payload
<1>6. CASE LoadingNext
  <2>1. \/ UNCHANGED scanVars
        \/ \E s \in LoadScans : QueueLoad(s) \/ ReadForLoad(s)
        \/ \E j \in jobs : CommitLoad(j)
    BY <1>6 DEF LoadingNext, OpenQuickTruck, ApprovePlan, RemoveLoaded, FinishLoading, Depart, CancelTruck
  <2> QED BY <1>1, <1>3, <1>4, <2>1 DEF ScanStep, Scans, scanVars
<1>7. CASE UnloadingNext
  BY <1>2, <1>3, <1>5, <1>7
  DEF UnloadingNext, ScanStep, Scans, Reroute, FinishUnload, CloseTruck, ResolveLost, ResolveFoundHere,
      ResolveFoundAtOrigin, scanVars
<1>8. CASE DeskNext
  BY <1>8
  DEF DeskNext, ScanStep, MarkBox, RestoreLost, AcceptFound, WriteOff, Issue, Reconcile, DissolveCrate,
      VoidReceipt, scanVars
<1>9. CASE UNCHANGED vars
  BY <1>9 DEF vars, scanVars, ScanStep
<1> QED BY <1>6, <1>7, <1>8, <1>9 DEF Next

\* The scans stay in order.
LEMMA ScansStayFit ==
  ASSUME TypeOK, TypeOK', JobsFit, SpentKnown, ScanStep
  PROVE  JobsFit' /\ SpentKnown'
<1>1. \A j \in jobs : j.scan \in Scans
  BY DEF TypeOK, Job, JobOf, Scans
<1>2. CASE UNCHANGED <<phone, jobs, recorded, applied, overtaken>>
  BY <1>2 DEF JobsFit, SpentKnown
<1>3. ASSUME NEW s \in Scans, NEW b \in Payload, Queue(s, b) PROVE JobsFit' /\ SpentKnown'
  BY <1>1, <1>3 DEF Queue, JobsFit, SpentKnown, TypeOK
<1>4. ASSUME NEW s \in Scans, Starts(s) PROVE JobsFit' /\ SpentKnown'
  <2>1. PICK n \in 1..MaxDeliveries :
          jobs' = jobs \cup {[scan |-> s, n |-> n, body |-> phone[s].scan,
                              seen |-> tstat[phone[s].scan.truck],
                              seenDest |-> to[phone[s].scan.truck]]}
    BY <1>4 DEF Starts, Start
  <2>2. UNCHANGED <<phone, recorded, applied, overtaken>> /\ phone[s].step = "queued" /\ s \notin recorded
    BY <1>4 DEF Starts, Start
  <2>3. phone[s].scan.code \in Crates \/ applied[s] = 0
    <3>1. applied[s] \in 0..2
      BY DEF TypeOK
    <3>2. applied[s] > 0 \/ applied[s] = 0
      BY <3>1
    <3> QED BY <2>2, <3>2 DEF SpentKnown
  <2>4. JobsFit'
    BY <2>1, <2>2 DEF JobsFit
  <2>5. SpentKnown'
    BY <2>1, <2>2, <2>3 DEF SpentKnown
  <2> QED BY <2>4, <2>5
<1>5. ASSUME NEW s \in Scans, Hears(s) PROVE JobsFit' /\ SpentKnown'
  BY <1>1, <1>5 DEF Hears, Refuse, Heard, JobsFit, SpentKnown, TypeOK
<1>6. ASSUME NEW j \in jobs, Commits(j) PROVE JobsFit' /\ SpentKnown'
  <2>1. jobs' = jobs \ {j} /\ overtaken \ {j} \subseteq overtaken'
    BY <1>6 DEF Commits, Answer, Moved, MovedNothing
  <2>2. \/ UNCHANGED phone
        \/ phone' = [phone EXCEPT ![j.scan] = [step |-> "done", scan |-> NoScan]]
    BY <1>6 DEF Commits, Answer, Heard
  <2>3. JobsFit'
    <3>1. ASSUME NEW k \in jobs
          PROVE  phone'[k.scan] = phone[k.scan] \/ phone'[k.scan].step = "done"
      BY <1>1, <2>2 DEF TypeOK
    <3>2. jobs' \subseteq jobs
      BY <2>1
    <3> QED BY <3>1, <3>2 DEF JobsFit
  <2>4. ASSUME NEW s \in Scans, s # j.scan
        PROVE  phone'[s] = phone[s] /\ applied'[s] = applied[s] /\ (s \in recorded => s \in recorded')
    BY <1>1, <1>6, <2>2, <2>4 DEF Commits, Moved, MovedNothing, TypeOK
  <2>5. ASSUME applied'[j.scan] > 0
        PROVE  /\ phone'[j.scan].step # "idle"
               /\ phone'[j.scan].step = "queued" =>
                    j.scan \in recorded' \/ phone'[j.scan].scan.code \in Crates
               /\ \A k \in jobs' : k.scan = j.scan => k.body.code \in Crates \/ k \in overtaken'
    <3>1. phone'[j.scan].step # "idle"
          /\ (phone'[j.scan].step = "queued" => phone'[j.scan] = phone[j.scan] /\ phone[j.scan].scan = j.body)
      BY <1>1, <2>2 DEF JobsFit, TypeOK
    <3>2. CASE MovedNothing(j)
      BY <1>1, <2>1, <2>5, <3>1, <3>2 DEF MovedNothing, SpentKnown
    <3>3. CASE /\ Moved(j)
               /\ j.body.code \in Crates \/ j.scan \in recorded'
      BY <2>1, <3>1, <3>3 DEF Moved
    <3> QED BY <1>6, <3>2, <3>3 DEF Commits
  <2>6. SpentKnown'
    BY <2>1, <2>4, <2>5 DEF SpentKnown
  <2> QED BY <2>3, <2>6
<1> QED BY <1>2, <1>3, <1>4, <1>5, <1>6 DEF ScanStep

\* Once a scan of one carton has moved it, no delivery of it that starts afterwards moves
\* anything: however many are at work at once and whatever the office does in between.
THEOREM ReplaysMoveNothing == Spec => ReplayMovesNothing
<1>1. Init => JobsFit /\ SpentKnown
  BY DEF Init, ScanInit, JobsFit, SpentKnown
<1>2. TypeOK /\ TypeOK' /\ JobsFit /\ SpentKnown /\ [Next]_vars => JobsFit' /\ SpentKnown'
  BY DoorsAreScanSteps, ScansStayFit
<1>3. TypeOK /\ JobsFit /\ SpentKnown /\ [Next]_vars =>
        [\A s \in Scans : applied[s] > 0 /\ applied'[s] # applied[s] =>
           \E j \in jobs \ jobs' :
             j.scan = s /\ (j.body.code \in Crates \/ j \in overtaken)]_vars
  <2> SUFFICES ASSUME TypeOK, JobsFit, SpentKnown, [Next]_vars,
                      NEW s \in Scans, applied[s] > 0, applied'[s] # applied[s]
               PROVE  \E j \in jobs \ jobs' :
                        j.scan = s /\ (j.body.code \in Crates \/ j \in overtaken)
    OBVIOUS
  <2>1. PICK j \in jobs : Commits(j)
    BY DoorsAreScanSteps DEF ScanStep, Queue, Starts, Start, Hears, Refuse
  <2>2. j.scan = s /\ j \notin jobs'
    BY <2>1 DEF Commits, Answer, Moved, MovedNothing, TypeOK
  <2> QED BY <2>2 DEF SpentKnown
<1> QED BY <1>1, <1>2, <1>3, TypeCorrect, PTL DEF Spec, ReplayMovesNothing

-----------------------------------------------------------------------------
(* The safety invariants, proved together: CustodyInv is inductive, given  *)
(* type correctness.  One lemma per door that moves cargo or trucks.       *)

\* The state before and after a step of the proofs below is well typed.
Typed == TypeOK /\ TypeOK' /\ CustodyInv

\* At the start every carton stands on a shelf and every truck is unborn.
LEMMA InitCustody == Init => CustodyInv
<1> SUFFICES ASSUME Init PROVE CustodyInv
  OBVIOUS
<1>1. \A c \in Cartons : /\ status[c] \in Plannable
                         /\ status[c] = "ready_for_pickup" => place[c] \in Collection
                         /\ landedAt[c] = [t \in Trucks |-> {}]
                         /\ place[c] \in Warehouses /\ place[c] # None
                         /\ ride[c] = None
  BY CargoAssumption DEF Init, BoxInit, Plannable
<1>2. jobs = {}
  BY DEF Init, ScanInit
<1> QED BY <1>1, <1>2 DEF CustodyInv, OnlyOpenTrucks, CustodyConsistent, AboardTruckState,
      NobodyForgotten, ShelfMatchesWarehouse, ShelfRemembered, FitsShelf, LandedStatus,
      Aboard, Plannable

\* Opening a truck disturbs nobody: nothing rode it while it was unborn.
LEMMA OpenCustody ==
  ASSUME Typed, NEW t \in Trucks, NEW o \in Warehouses, NEW d \in Warehouses,
         OpenQuickTruck(t, o, d)
  PROVE  CustodyInv'
<1>1. \A c \in Cartons : ride[c] # t /\ (ride[c] # None => ride[c] \in Trucks)
  BY CargoAssumption DEF Typed, TypeOK, CustodyInv, OnlyOpenTrucks, OpenQuickTruck
<1>2. /\ \A x \in Trucks : x # t => tstat'[x] = tstat[x] /\ from'[x] = from[x]
      /\ tstat'[t] = "forming"
      /\ UNCHANGED <<status, place, ride, missing, readyBefore, landedAt, jobs, late>>
  BY DEF OpenQuickTruck, Typed, TypeOK, boxVars, moveVars, scanVars
<1>3. \A j \in jobs : j.body.truck \in Trucks
  BY DEF Typed, TypeOK, Job, JobOf, Payload
<1>4. OnlyOpenTrucks'
  BY <1>1, <1>2, <1>3 DEF Typed, CustodyInv, OnlyOpenTrucks
<1>5. CustodyConsistent'
  BY <1>1, <1>2 DEF Typed, CustodyInv, CustodyConsistent, Aboard
<1>6. AboardTruckState'
  BY <1>1, <1>2 DEF Typed, CustodyInv, AboardTruckState
<1>7. NobodyForgotten'
  BY <1>1, <1>2 DEF Typed, CustodyInv, NobodyForgotten, CustodyConsistent, Aboard
<1>8. ShelfMatchesWarehouse' /\ ShelfRemembered'
  BY <1>1, <1>2 DEF Typed, CustodyInv, ShelfMatchesWarehouse, ShelfRemembered, FitsShelf,
                    ShelfBefore, LandedStatus
<1> QED BY <1>4, <1>5, <1>6, <1>7, <1>8 DEF CustodyInv

\* A shelf status is a shelf status, whichever shelf.
LEMMA ShelvesArePlannable ==
  /\ \A w : LandedStatus(w) \in Plannable
  /\ \A c, t : ShelfBefore(c, t) \in Plannable
  BY DEF LandedStatus, ShelfBefore, Plannable

\* A plan reserves loose stock of the origin on a truck nothing rode before.
LEMMA ApproveCustody ==
  ASSUME Typed, NEW t \in Trucks, NEW o \in Warehouses, NEW d \in Warehouses,
         NEW S \in SUBSET Cartons, ApprovePlan(t, o, d, S)
  PROVE  CustodyInv'
<1>1. \A c \in Cartons : ride[c] # t /\ (ride[c] # None => ride[c] \in Trucks)
  BY CargoAssumption DEF Typed, TypeOK, CustodyInv, OnlyOpenTrucks, ApprovePlan
<1>2. /\ \A x \in Trucks : x # t => tstat'[x] = tstat[x] /\ from'[x] = from[x]
      /\ tstat'[t] = "forming" /\ from'[t] = o /\ t # None
      /\ \A c \in Cartons \ S : status'[c] = status[c] /\ ride'[c] = ride[c]
                                /\ readyBefore'[c] = readyBefore[c]
      /\ \A c \in S : /\ LooseAt(c, o) /\ status'[c] = "planned" /\ ride'[c] = t
                      /\ t \in readyBefore'[c] <=> status[c] = "ready_for_pickup"
      /\ UNCHANGED <<place, missing, landedAt, jobs, late>>
  BY CargoAssumption DEF ApprovePlan, Typed, TypeOK, scanVars, Put, TookFrom, LooseAt, Plannable
<1>3. \A j \in jobs : j.body.truck \in Trucks
  BY DEF Typed, TypeOK, Job, JobOf, Payload
<1>4. OnlyOpenTrucks'
  BY <1>1, <1>2, <1>3 DEF Typed, CustodyInv, OnlyOpenTrucks
<1>5. CustodyConsistent'
  BY <1>1, <1>2, CargoAssumption DEF Typed, CustodyInv, CustodyConsistent, Aboard, LooseAt
<1>6. AboardTruckState'
  BY <1>1, <1>2 DEF Typed, CustodyInv, AboardTruckState, LoadingStates
<1>7. NobodyForgotten'
  BY <1>1, <1>2 DEF Typed, CustodyInv, NobodyForgotten, CustodyConsistent, Aboard
<1>8. ShelfMatchesWarehouse'
  BY <1>2 DEF Typed, CustodyInv, ShelfMatchesWarehouse, FitsShelf, Plannable, LandedStatus
<1>9. ShelfRemembered'
  <2>1. \A c \in S : FitsShelf(c, status[c], o) /\ status[c] \in Plannable
    BY <1>2 DEF Typed, CustodyInv, ShelfMatchesWarehouse, LooseAt
  <2>2. \A c \in S : ShelfBefore(c, t)' = status[c]
    BY <1>2, <2>1 DEF ShelfBefore, Plannable
  <2>3. \A c \in S : ride'[c] # None => FitsShelf(c, ShelfBefore(c, ride[c]), from[ride[c]])'
    BY <1>2, <2>1, <2>2 DEF FitsShelf, LandedStatus
  <2>4. \A c \in Cartons \ S : ride'[c] # None => FitsShelf(c, ShelfBefore(c, ride[c]), from[ride[c]])'
    BY <1>1, <1>2 DEF Typed, CustodyInv, ShelfRemembered, FitsShelf, ShelfBefore, LandedStatus
  <2> QED BY <2>3, <2>4 DEF ShelfRemembered
<1> QED BY <1>4, <1>5, <1>6, <1>7, <1>8, <1>9 DEF CustodyInv

\* Steps of the phone and the unlocked reads move no cargo and no truck, and a
\* handler only starts on a truck somebody opened.
LEMMA PhoneCustody ==
  ASSUME Typed, UNCHANGED <<boxVars, moveVars, truckVars, late>>,
         \A j \in jobs' : j \in jobs \/ tstat[j.body.truck] # "unborn"
  PROVE  CustodyInv'
<1>1. OnlyOpenTrucks'
  BY DEF Typed, CustodyInv, OnlyOpenTrucks, boxVars, truckVars
<1>2. CustodyConsistent' /\ AboardTruckState' /\ NobodyForgotten'
  BY DEF Typed, CustodyInv, CustodyConsistent, AboardTruckState, NobodyForgotten,
         boxVars, truckVars
<1>3. ShelfMatchesWarehouse' /\ ShelfRemembered'
  BY DEF Typed, CustodyInv, ShelfMatchesWarehouse, ShelfRemembered, FitsShelf, ShelfBefore,
         LandedStatus, boxVars, moveVars, truckVars
<1> QED BY <1>1, <1>2, <1>3 DEF CustodyInv

\* What a load scan puts aboard stands at the truck's origin, and its movement
\* rows say which shelf it left.
LEMMA ToLoadStandsAtOrigin ==
  ASSUME Typed, NEW b, b.truck \in Trucks, NEW c \in ToLoad(b), c \in Cartons
  PROVE  /\ status[c] \in Plannable \cup {"planned"}
         /\ status[c] = "planned" => ride[c] = b.truck
         /\ place[c] = from[b.truck]
<1>1. Loadable(c, b) /\ status[c] # "loading"
  BY DEF ToLoad
<1>2. CASE c \in HeldFor(b)
  <2>1. ride[c] = b.truck /\ status[c] = "planned"
    BY <1>1, <1>2 DEF HeldFor, OnTruck
  <2> QED BY <2>1 DEF Typed, CustodyInv, CustodyConsistent
<1>3. CASE LooseAt(c, from[b.truck])
  BY <1>3 DEF LooseAt, Plannable
<1> QED BY <1>1, <1>2, <1>3 DEF Loadable

\* What a committed load scan does to the boxes S of its code and to its truck.
Boards(S, spot, t) ==
  /\ status' = Put(status, S, "loading") /\ ride' = Put(ride, S, t)
  /\ missing' = Put(missing, spot, FALSE) /\ TookFrom(S, t)
  /\ late' = IF tstat[t] \in LoadingStates THEN late ELSE late \cup {t}
  /\ \A x \in Trucks : tstat'[x] = tstat[x] \/ (x = t /\ tstat'[x] = "loading")
  /\ jobs' \subseteq jobs
  /\ UNCHANGED <<place, from, landedAt>>

\* Cartons that stand at the origin of an open truck go aboard it, and a truck
\* that has left by now is remembered as late.
LEMMA AboardCustody ==
  ASSUME Typed, NEW t \in Trucks, NEW S \in SUBSET Cartons, NEW spot \in SUBSET S,
         tstat[t] # "unborn", Boards(S, spot, t),
         \A c \in S : status[c] \in Plannable \cup {"planned"},
         \A c \in S : status[c] = "planned" => ride[c] = t,
         \A c \in S : place[c] = from[t]
  PROVE  CustodyInv'
<1>0. /\ place' = place /\ from' = from /\ landedAt' = landedAt
      /\ jobs' \subseteq jobs
      /\ late' = IF tstat[t] \in LoadingStates THEN late ELSE late \cup {t}
      /\ \A x \in Trucks : tstat'[x] = tstat[x] \/ (x = t /\ tstat'[x] = "loading")
  BY DEF Boards
<1>1. /\ t # None /\ from[t] # None
      /\ \A c \in Cartons : ride[c] # None => ride[c] \in Trucks
      /\ \A x \in jobs : x.body.truck \in Trucks
  BY CargoAssumption DEF Typed, TypeOK, Job, JobOf, Payload
<1>2. \A c \in Cartons \ S : /\ status'[c] = status[c] /\ ride'[c] = ride[c]
                             /\ missing'[c] = missing[c]
                             /\ readyBefore'[c] = readyBefore[c]
  BY DEF Boards, Put, TookFrom, Typed, TypeOK
<1>3. \A c \in S : status'[c] = "loading" /\ ride'[c] = t
  BY DEF Boards, Put, Typed, TypeOK
<1>4. \A c \in S : status[c] = "planned" => readyBefore'[c] = readyBefore[c]
  BY DEF Boards, TookFrom, Plannable
<1>5. \A c \in S : status[c] # "planned" =>
                   (t \in readyBefore'[c] <=> status[c] = "ready_for_pickup")
  BY DEF Boards, TookFrom, Plannable
<1>6. OnlyOpenTrucks'
  BY <1>0, <1>1, <1>2, <1>3 DEF Typed, CustodyInv, OnlyOpenTrucks
<1>7. CustodyConsistent'
  BY <1>0, <1>1, <1>2, <1>3 DEF Typed, CustodyInv, CustodyConsistent, Aboard
<1>8. AboardTruckState'
  BY <1>0, <1>1, <1>2, <1>3 DEF Typed, CustodyInv, AboardTruckState, LoadingStates, UnloadingStates
<1>9. NobodyForgotten'
  BY <1>0, <1>1, <1>2, <1>3 DEF Typed, CustodyInv, NobodyForgotten, CustodyConsistent, Aboard
<1>10. ShelfMatchesWarehouse'
  BY <1>0, <1>2, <1>3 DEF Typed, CustodyInv, ShelfMatchesWarehouse, FitsShelf, LandedStatus, Plannable
<1>11. ShelfRemembered'
  <2>1. \A c \in Cartons \ S : ride'[c] # None =>
                            FitsShelf(c, ShelfBefore(c, ride[c]), from[ride[c]])'
    BY <1>0, <1>2 DEF Typed, CustodyInv, ShelfRemembered, FitsShelf, ShelfBefore, LandedStatus
  <2>2. \A c \in S : status[c] = "planned" => FitsShelf(c, ShelfBefore(c, t), from[t])'
    BY <1>0, <1>1, <1>4 DEF Typed, CustodyInv, ShelfRemembered, FitsShelf, ShelfBefore, LandedStatus
  <2>3. \A c \in S : status[c] # "planned" => FitsShelf(c, ShelfBefore(c, t), from[t])'
    <3>1. \A c \in S : status[c] # "planned" => FitsShelf(c, status[c], from[t])
      BY DEF Typed, CustodyInv, ShelfMatchesWarehouse
    <3>2. \A c \in S : status[c] # "planned" => ShelfBefore(c, t)' = status[c]
      BY <1>5 DEF ShelfBefore, Plannable
    <3> QED BY <1>0, <3>1, <3>2 DEF FitsShelf, LandedStatus
  <2> QED BY <1>0, <1>3, <2>1, <2>2, <2>3 DEF ShelfRemembered
<1> QED BY <1>6, <1>7, <1>8, <1>9, <1>10, <1>11 DEF CustodyInv

\* A load scan commits whatever happened since the truck was read.
LEMMA CommitLoadCustody ==
  ASSUME Typed, NEW j \in jobs, CommitLoad(j)
  PROVE  CustodyInv'
<1> DEFINE S == ToLoad(j.body)
           t == j.body.truck
           spot == {c \in S : j.body.spot /\ c \notin HeldFor(j.body)}
<1>1. t \in Trucks /\ j.body.code \in Codes /\ tstat[t] # "unborn"
  BY DEF Typed, TypeOK, Job, JobOf, Payload, CustodyInv, OnlyOpenTrucks
<1>2. jobs' \subseteq jobs
  BY DEF CommitLoad, Answer
<1>3. CASE S = {}
  <2>1. UNCHANGED <<boxVars, moveVars, truckVars, late>>
    BY <1>3 DEF CommitLoad
  <2> QED BY <1>2, <2>1, PhoneCustody
<1>4. CASE S # {}
  <2>1. S \in SUBSET Cartons /\ spot \in SUBSET S
    <3>1. S \subseteq MembersOf(j.body.code)
      BY ToLoadMembers
    <3> QED BY <1>1, <3>1, MembersAreCartons
  <2>2. /\ \A c \in S : status[c] \in Plannable \cup {"planned"}
        /\ \A c \in S : status[c] = "planned" => ride[c] = t
        /\ \A c \in S : place[c] = from[t]
    BY <1>1, <2>1, ToLoadStandsAtOrigin
  <2>3. Boards(S, spot, t)
    BY <1>1, <1>2, <1>4 DEF CommitLoad, Boards, Typed, TypeOK
  <2> HIDE DEF S, t, spot
  <2> QED BY <1>1, <1>2, <2>1, <2>2, <2>3, AboardCustody
<1> QED BY <1>3, <1>4

\* Cartons that still stand at the origin go back to the shelf they left: the
\* common part of taking off, finishing short and cancelling.
LEMMA GiveBackCustody ==
  ASSUME Typed, NEW t \in Trucks, NEW S \in SUBSET Cartons,
         \A c \in S : OnTruck(c, t, {"planned", "loading"}),
         GiveBack(S, t), ride' = Put(ride, S, None),
         \A c \in Cartons \ S : missing'[c] = missing[c],
         \A x \in Trucks : tstat'[x] = tstat[x] \/ (x = t /\ tstat'[x] = "cancelled"),
         tstat' = tstat \/ S = RidersOf(t),
         UNCHANGED <<place, from, readyBefore, landedAt, jobs, late>>
  PROVE  CustodyInv'
<1>1. /\ \A c \in Cartons \ S : status'[c] = status[c] /\ ride'[c] = ride[c]
      /\ \A c \in S : status'[c] = ShelfBefore(c, t) /\ ride'[c] = None
      /\ \A c \in Cartons : ride[c] # None => ride[c] \in Trucks
      /\ t # None
  BY CargoAssumption DEF Typed, TypeOK, GiveBack, Put
<1>2. \A c \in S : status[c] \in Aboard /\ ride[c] = t /\ place[c] = from[t] /\ from[t] # None
  BY CargoAssumption DEF Typed, CustodyInv, CustodyConsistent, OnTruck, Aboard, TypeOK
<1>3. \A c \in Cartons : ride'[c] # None => c \notin S /\ tstat'[ride[c]] = tstat[ride[c]]
  BY <1>1 DEF RidersOf
<1>4. \A x \in jobs : x.body.truck \in Trucks
  BY DEF Typed, TypeOK, Job, JobOf, Payload
<1>5. OnlyOpenTrucks'
  BY <1>1, <1>3, <1>4 DEF Typed, CustodyInv, OnlyOpenTrucks
<1>6. CustodyConsistent'
  BY <1>1, <1>2, ShelvesArePlannable DEF Typed, CustodyInv, CustodyConsistent, Aboard, Plannable
<1>7. AboardTruckState'
  BY <1>1, <1>3 DEF Typed, CustodyInv, AboardTruckState
<1>8. NobodyForgotten'
  BY <1>1, <1>3, ShelvesArePlannable DEF Typed, CustodyInv, NobodyForgotten, CustodyConsistent,
                                        Aboard, Plannable
<1>9. ShelfMatchesWarehouse'
  <2>1. \A c \in S : FitsShelf(c, status'[c], place'[c])
    BY <1>1, <1>2 DEF Typed, CustodyInv, ShelfRemembered
  <2> QED BY <1>1, <2>1 DEF Typed, CustodyInv, ShelfMatchesWarehouse, FitsShelf, LandedStatus
<1>10. ShelfRemembered'
  BY <1>1 DEF Typed, CustodyInv, ShelfRemembered, FitsShelf, ShelfBefore, LandedStatus
<1> QED BY <1>5, <1>6, <1>7, <1>8, <1>9, <1>10 DEF CustodyInv

\* The three doors that give cargo back before departure.
LEMMA OfficeGivesBack ==
  ASSUME Typed, NEW t \in Trucks,
         \/ \E code \in Codes : RemoveLoaded(t, code)
         \/ FinishLoading(t)
         \/ CancelTruck(t)
  PROVE  CustodyInv'
<1>1. CASE \E code \in Codes : RemoveLoaded(t, code)
  <2> PICK code \in Codes : RemoveLoaded(t, code)
    BY <1>1
  <2> DEFINE back == {c \in MembersOf(code) : OnTruck(c, t, {"loading"})}
  <2>1. back \in SUBSET Cartons /\ \A c \in back : OnTruck(c, t, {"planned", "loading"})
    BY MembersAreCartons DEF OnTruck
  <2>2. /\ GiveBack(back, t) /\ ride' = Put(ride, back, None)
        /\ \A c \in Cartons \ back : missing'[c] = missing[c]
        /\ UNCHANGED <<place, from, readyBefore, landedAt, jobs, late, tstat>>
    BY DEF RemoveLoaded, Put, Typed, TypeOK, moveVars, truckVars, scanVars
  <2> QED BY <2>1, <2>2, GiveBackCustody
<1>2. CASE FinishLoading(t)
  <2> DEFINE short == {c \in Cartons : OnTruck(c, t, {"planned"})}
  <2>1. short \in SUBSET Cartons /\ \A c \in short : OnTruck(c, t, {"planned", "loading"})
    BY DEF OnTruck
  <2>2. /\ GiveBack(short, t) /\ ride' = Put(ride, short, None)
        /\ UNCHANGED <<place, from, readyBefore, landedAt, jobs, late, tstat, missing>>
    BY <1>2 DEF FinishLoading, moveVars, truckVars, scanVars
  <2> QED BY <2>1, <2>2, GiveBackCustody
<1>3. CASE CancelTruck(t)
  <2> DEFINE members == RidersOf(t)
  <2>1. members \in SUBSET Cartons /\ \A c \in members : OnTruck(c, t, {"planned", "loading"})
    BY <1>3 DEF CancelTruck, RidersOf, OnTruck
  <2>2. /\ GiveBack(members, t) /\ ride' = Put(ride, members, None)
        /\ \A c \in Cartons \ members : missing'[c] = missing[c]
        /\ \A x \in Trucks : tstat'[x] = tstat[x] \/ (x = t /\ tstat'[x] = "cancelled")
        /\ UNCHANGED <<place, from, readyBefore, landedAt, jobs, late>>
    BY <1>3 DEF CancelTruck, Put, Typed, TypeOK, moveVars, scanVars
  <2> QED BY <2>1, <2>2, GiveBackCustody
<1> QED BY <1>1, <1>2, <1>3

\* A truck leaves with everything that was loaded, nothing planned left on it.
LEMMA DepartCustody ==
  ASSUME Typed, NEW t \in Trucks, Depart(t)
  PROVE  CustodyInv'
<1> DEFINE loaded == {c \in Cartons : OnTruck(c, t, {"loading"})}
<1>1. /\ \A c \in Cartons : ride[c] # None => ride[c] \in Trucks
      /\ \A x \in jobs : x.body.truck \in Trucks
      /\ t # None
  BY CargoAssumption DEF Typed, TypeOK, Job, JobOf, Payload
<1>2. \A c \in Cartons : ride[c] = t => status[c] \in {"loading", "in_transit", "lost"}
  BY <1>1 DEF Depart, RidersOf, Typed, CustodyInv, CustodyConsistent, Aboard
<1>3. /\ \A c \in Cartons : c \notin loaded => status'[c] = status[c] /\ place'[c] = place[c]
      /\ \A c \in loaded : status'[c] = "in_transit" /\ place'[c] = None
      /\ \A c \in loaded : status[c] = "loading" /\ ride[c] = t
  BY DEF Depart, Put, Typed, TypeOK, OnTruck
<1>4. /\ UNCHANGED <<ride, missing, readyBefore, landedAt, from, jobs, late>>
      /\ tstat[t] \in LoadingStates /\ tstat'[t] = "in_transit"
      /\ \A x \in Trucks : x # t => tstat'[x] = tstat[x]
  BY DEF Depart, Typed, TypeOK, moveVars, scanVars
<1>5. \A c \in Cartons : c \notin loaded /\ ride[c] = t => status[c] \in {"in_transit", "lost"}
  BY <1>2 DEF OnTruck
<1> HIDE DEF loaded
<1>6. OnlyOpenTrucks'
  BY <1>1, <1>4 DEF Typed, CustodyInv, OnlyOpenTrucks
<1>7. CustodyConsistent'
  BY <1>1, <1>3, <1>4 DEF Typed, CustodyInv, CustodyConsistent, Aboard
<1>8. AboardTruckState'
  BY <1>1, <1>3, <1>4, <1>5 DEF Typed, CustodyInv, AboardTruckState, UnloadingStates
<1>9. NobodyForgotten'
  BY <1>1, <1>3, <1>4 DEF Typed, CustodyInv, NobodyForgotten, CustodyConsistent, Aboard
<1>10. ShelfMatchesWarehouse'
  BY <1>3, <1>4 DEF Typed, CustodyInv, ShelfMatchesWarehouse, FitsShelf, LandedStatus, Plannable
<1>11. ShelfRemembered'
  BY <1>4 DEF Typed, CustodyInv, ShelfRemembered, FitsShelf, ShelfBefore, LandedStatus
<1> QED BY <1>6, <1>7, <1>8, <1>9, <1>10, <1>11 DEF CustodyInv

\* A truck's own record changes under way: rerouted, unload finished (and what
\* is left on it declared missing), closed.
LEMMA TruckRecordCustody ==
  ASSUME Typed, NEW t \in Trucks,
         (\E d \in Warehouses : Reroute(t, d)) \/ FinishUnload(t) \/ CloseTruck(t)
  PROVE  CustodyInv'
<1>1. /\ \A c \in Cartons : ride[c] # None => ride[c] \in Trucks
      /\ \A x \in jobs : x.body.truck \in Trucks
      /\ t # None
  BY CargoAssumption DEF Typed, TypeOK, Job, JobOf, Payload
<1>2. /\ UNCHANGED <<status, place, ride, readyBefore, landedAt, from, jobs, late>>
      /\ \A x \in Trucks : x # t => tstat'[x] = tstat[x]
      /\ \/ tstat' = tstat
         \/ tstat[t] \in UnloadingStates \cup {"unloaded"} /\ tstat'[t] \in {"unloaded", "closed"}
  BY DEF Reroute, FinishUnload, CloseTruck, Typed, TypeOK, boxVars, moveVars, scanVars
<1>3. OnlyOpenTrucks'
  BY <1>1, <1>2 DEF Typed, CustodyInv, OnlyOpenTrucks
<1>4. CustodyConsistent'
  BY <1>2 DEF Typed, CustodyInv, CustodyConsistent
<1>5. AboardTruckState'
  BY <1>1, <1>2 DEF Typed, CustodyInv, AboardTruckState, LoadingStates, UnloadingStates
<1>6. NobodyForgotten'
  <2>1. CASE FinishUnload(t)
    <3>1. /\ \A c \in Cartons : status[c] = "in_transit" /\ ride[c] = t => missing'[c]
          /\ \A c \in Cartons : missing[c] => missing'[c]
      BY <2>1 DEF FinishUnload, Put, OnTruck, Typed, TypeOK
    <3> QED BY <1>1, <1>2, <3>1 DEF Typed, CustodyInv, NobodyForgotten, CustodyConsistent, Aboard
  <2>2. CASE \E d \in Warehouses : Reroute(t, d)
    BY <2>2 DEF Reroute, Typed, CustodyInv, NobodyForgotten, boxVars
  <2>3. CASE CloseTruck(t)
    <3>1. tstat[t] = "unloaded" /\ missing' = missing
      BY <2>3 DEF CloseTruck, boxVars
    <3> QED BY <1>1, <1>2, <3>1 DEF Typed, CustodyInv, NobodyForgotten, CustodyConsistent, Aboard
  <2> QED BY <2>1, <2>2, <2>3
<1>7. ShelfMatchesWarehouse' /\ ShelfRemembered'
  BY <1>2 DEF Typed, CustodyInv, ShelfMatchesWarehouse, ShelfRemembered, FitsShelf, ShelfBefore,
             LandedStatus
<1> QED BY <1>3, <1>4, <1>5, <1>6, <1>7 DEF CustodyInv

\* What every door that takes cargo off trucks or off shelves does to cartons S:
\* each comes to stand on a shelf of a warehouse, or is gone.
Ashore(S) ==
  /\ \A c \in Cartons \ S : /\ status'[c] = status[c] /\ place'[c] = place[c]
                            /\ ride'[c] = ride[c] /\ missing'[c] = missing[c]
                            /\ readyBefore'[c] = readyBefore[c] /\ landedAt'[c] = landedAt[c]
  /\ \A c \in S :
       \/ /\ status'[c] \in Plannable
          /\ FitsShelf(c, status[c], place[c])'
          /\ place'[c] \in Warehouses
          /\ ride'[c] = None
       \/ /\ status'[c] \in {"lost", "issued", "void"}
          /\ place'[c] = None => status'[c] = "lost"
          /\ \/ ride'[c] = None
             \/ /\ status'[c] = "lost"
                /\ ride'[c] = ride[c] /\ readyBefore'[c] = readyBefore[c]
                /\ landedAt'[c] = landedAt[c]
  /\ \A x \in Trucks : \/ tstat'[x] = tstat[x]
                       \/ tstat[x] \in UnloadingStates /\ tstat'[x] = "arrived"
  /\ jobs' \subseteq jobs
  /\ UNCHANGED <<from, late>>

\* Whichever door it is, bringing cargo ashore keeps the invariant.
LEMMA AshoreCustody ==
  ASSUME Typed, NEW S \in SUBSET Cartons, Ashore(S)
  PROVE  CustodyInv'
<1>1. /\ \A c \in Cartons : ride[c] # None => ride[c] \in Trucks
      /\ \A x \in jobs : x.body.truck \in Trucks
      /\ None \notin Warehouses
  BY CargoAssumption DEF Typed, TypeOK, Job, JobOf, Payload
<1>2. \A c \in S : /\ status'[c] \in Plannable \cup {"lost", "issued", "void"}
                   /\ ride'[c] \in {None, ride[c]}
  BY ShelvesArePlannable DEF Ashore
<1>3. OnlyOpenTrucks'
  BY <1>1, <1>2 DEF Ashore, Typed, CustodyInv, OnlyOpenTrucks, UnloadingStates
<1>4. CustodyConsistent'
  <2>1. \A c \in S : /\ status'[c] \notin Aboard
                     /\ place'[c] = None => status'[c] = "lost"
                     /\ ride'[c] # None => status'[c] = "lost"
    BY <1>1, <1>2 DEF Ashore, Plannable, Aboard
  <2>2. \A c \in Cartons \ S : /\ status'[c] = status[c] /\ place'[c] = place[c]
                               /\ ride'[c] = ride[c]
    BY DEF Ashore
  <2>3. from' = from
    BY DEF Ashore
  <2> QED BY <2>1, <2>2, <2>3 DEF Typed, CustodyInv, CustodyConsistent, Aboard
<1>5. AboardTruckState'
  BY <1>1, <1>2 DEF Ashore, Typed, CustodyInv, AboardTruckState, LoadingStates, UnloadingStates,
                    Plannable
<1>6. NobodyForgotten'
  BY <1>1, <1>2 DEF Ashore, Typed, CustodyInv, NobodyForgotten, CustodyConsistent, Aboard, Plannable
<1>7. ShelfMatchesWarehouse'
  <2>1. \A c \in S : status'[c] \in Plannable => FitsShelf(c, status[c], place[c])'
    BY DEF Ashore, Plannable
  <2>2. \A c \in Cartons \ S : status'[c] \in Plannable => FitsShelf(c, status[c], place[c])'
    BY DEF Ashore, Typed, CustodyInv, ShelfMatchesWarehouse, FitsShelf, LandedStatus
  <2> QED BY <2>1, <2>2 DEF ShelfMatchesWarehouse
<1>8. ShelfRemembered'
  <2>1. \A c \in Cartons : ride'[c] # None =>
          /\ ride'[c] = ride[c] /\ readyBefore'[c] = readyBefore[c]
          /\ landedAt'[c] = landedAt[c]
    BY DEF Ashore
  <2>2. from' = from
    BY DEF Ashore
  <2> QED BY <2>1, <2>2 DEF Typed, CustodyInv, ShelfRemembered, FitsShelf, ShelfBefore, LandedStatus
<1> QED BY <1>3, <1>4, <1>5, <1>6, <1>7, <1>8 DEF CustodyInv

\* A landing brings its cartons ashore at w.
LEMMA LandIsAshore ==
  ASSUME Typed, NEW S \in SUBSET Cartons, NEW t \in Trucks, NEW w \in Warehouses, Land(S, t, w),
         \A x \in Trucks : \/ tstat'[x] = tstat[x]
                           \/ tstat[x] \in UnloadingStates /\ tstat'[x] = "arrived",
         jobs' \subseteq jobs, UNCHANGED <<from, late>>
  PROVE  Ashore(S)
<1> DEFINE rogue == {c \in S : ~OnTruck(c, t, {"in_transit"})}
<1>1. \A c \in Cartons \ S : /\ status'[c] = status[c] /\ place'[c] = place[c]
                             /\ ride'[c] = ride[c] /\ missing'[c] = missing[c]
  BY DEF Land, Put, Typed, TypeOK
<1>2. \A c \in Cartons \ S : readyBefore'[c] = readyBefore[c] /\ landedAt'[c] = landedAt[c]
  BY DEF Land, TookFrom, Typed, TypeOK
<1>3. \A c \in S : status'[c] = LandedStatus(place'[c]) /\ place'[c] = w /\ ride'[c] = None
  BY DEF Land, Put, Typed, TypeOK
<1>4. \A c \in S : status'[c] \in Plannable /\ FitsShelf(c, status[c], place[c])'
  BY <1>3, ShelvesArePlannable DEF FitsShelf, LandedStatus
<1> QED BY <1>1, <1>2, <1>3, <1>4 DEF Ashore

\* An unload scan commits: it marks the arrival of a truck that is still there,
\* and lands what its code stands for.
LEMMA CommitUnloadCustody ==
  ASSUME Typed, NEW j \in jobs, CommitUnload(j)
  PROVE  CustodyInv'
<1> DEFINE t == j.body.truck
           S == IF TruckStillThere(j) THEN ToLand(j.body, j.seenDest) ELSE {}
<1>1. t \in Trucks /\ j.body.code \in Codes /\ j.seenDest \in Warehouses
  BY DEF Typed, TypeOK, Job, JobOf, Payload
<1>2. jobs' \subseteq jobs /\ UNCHANGED <<from, late>>
  BY DEF CommitUnload, Answer
<1>3. \A x \in Trucks : \/ tstat'[x] = tstat[x]
                        \/ tstat[x] \in UnloadingStates /\ tstat'[x] = "arrived"
  BY <1>1 DEF CommitUnload, TruckStillThere, Typed, TypeOK
<1>4. S \in SUBSET Cartons
  BY <1>1, MembersAreCartons, ToLandCartons
<1>5. CASE S = {}
  <2>1. UNCHANGED <<status, place, ride, missing, readyBefore, landedAt>>
    BY <1>5 DEF CommitUnload, boxVars, moveVars
  <2>2. Ashore({})
    BY <1>2, <1>3, <2>1 DEF Ashore
  <2> QED BY <2>2, AshoreCustody
<1>6. CASE S # {}
  <2>1. Land(S, t, j.seenDest)
    BY <1>6 DEF CommitUnload
  <2> HIDE DEF S, t
  <2>2. Ashore(S)
    BY <1>1, <1>2, <1>3, <1>4, <2>1, LandIsAshore
  <2> QED BY <1>4, <2>2, AshoreCustody
<1> QED BY <1>5, <1>6

\* Resolving a missing carton brings it ashore: lost, landed after all, or back
\* on the shelf its movement rows remember.
LEMMA ResolveCustody ==
  ASSUME Typed, NEW c \in Cartons,
         ResolveLost(c) \/ ResolveFoundHere(c) \/ ResolveFoundAtOrigin(c)
  PROVE  CustodyInv'
<1>1. ride[c] \in Trucks /\ UNCHANGED <<readyBefore, tstat, from, jobs, late>>
  BY DEF ResolveLost, ResolveFoundHere, ResolveFoundAtOrigin, Typed, TypeOK, truckVars, scanVars
<1>2. to[ride[c]] \in Warehouses /\ from[ride[c]] \in Warehouses
  BY <1>1 DEF Typed, TypeOK
<1>3. CASE ResolveLost(c)
  <2>1. Ashore({c})
    BY <1>1, <1>3 DEF ResolveLost, Ashore, Typed, TypeOK
  <2> QED BY <2>1, AshoreCustody
<1>4. CASE ResolveFoundHere(c)
  <2>1. status'[c] = LandedStatus(place'[c]) /\ place'[c] \in Warehouses
    BY <1>1, <1>2, <1>4 DEF ResolveFoundHere, Typed, TypeOK
  <2>2. status'[c] \in Plannable /\ FitsShelf(c, status[c], place[c])'
    BY <2>1, ShelvesArePlannable DEF FitsShelf, LandedStatus
  <2>3. Ashore({c})
    BY <1>1, <1>2, <1>4, <2>2 DEF ResolveFoundHere, Ashore, Typed, TypeOK
  <2> QED BY <2>3, AshoreCustody
<1>5. CASE ResolveFoundAtOrigin(c)
  <2>1. /\ status'[c] = ShelfBefore(c, ride[c]) /\ place'[c] = from[ride[c]]
        /\ \A t \in Trucks : landedAt'[c][t] \subseteq landedAt[c][t]
    BY <1>1, <1>5 DEF ResolveFoundAtOrigin, Typed, TypeOK
  <2>2. status'[c] \in Plannable /\ FitsShelf(c, status[c], place[c])'
    <3>1. FitsShelf(c, ShelfBefore(c, ride[c]), from[ride[c]])
      BY <1>5 DEF ResolveFoundAtOrigin, Typed, CustodyInv, ShelfRemembered
    <3> QED BY <2>1, <3>1, ShelvesArePlannable DEF FitsShelf, LandedStatus
  <2>3. Ashore({c})
    BY <1>1, <1>2, <1>5, <2>2 DEF ResolveFoundAtOrigin, Ashore, Typed, TypeOK
  <2> QED BY <2>3, AshoreCustody
<1> QED BY <1>3, <1>4, <1>5

\* The floor and the counter bring cartons ashore, one door at a time.
LEMMA DeskCustody ==
  ASSUME Typed, DeskNext
  PROVE  CustodyInv'
<1>1. CASE \E c \in Cartons, fate \in {"lost", "void"} : MarkBox(c, fate)
  <2> PICK c \in Cartons, fate \in {"lost", "void"} : MarkBox(c, fate)
    BY <1>1
  <2>1. ride[c] = None /\ place[c] # None
    BY DEF MarkBox, Typed, CustodyInv, CustodyConsistent, Aboard
  <2>2. Ashore({c})
    BY <2>1 DEF MarkBox, Ashore, Typed, TypeOK, moveVars, truckVars, scanVars
  <2> QED BY <2>2, AshoreCustody
<1>2. CASE \E c \in Cartons, w \in Warehouses : RestoreLost(c, w)
  <2> PICK c \in Cartons, w \in Warehouses : RestoreLost(c, w)
    BY <1>2
  <2>1. status'[c] = LandedStatus(place'[c]) /\ place'[c] \in Warehouses
    BY DEF RestoreLost, Typed, TypeOK
  <2>2. status'[c] \in Plannable /\ FitsShelf(c, status[c], place[c])'
    BY <2>1, ShelvesArePlannable DEF FitsShelf, LandedStatus
  <2>3. Ashore({c})
    BY <2>2 DEF RestoreLost, Ashore, Typed, TypeOK, truckVars, scanVars
  <2> QED BY <2>3, AshoreCustody
<1>3. CASE \E c \in Cartons, w \in Warehouses : AcceptFound(c, w)
  <2> PICK c \in Cartons, w \in Warehouses : AcceptFound(c, w)
    BY <1>3
  <2>1. status'[c] = LandedStatus(place'[c]) /\ place'[c] \in Warehouses
    BY DEF AcceptFound, Typed, TypeOK
  <2>2. status'[c] \in Plannable /\ FitsShelf(c, status[c], place[c])'
    BY <2>1, ShelvesArePlannable DEF FitsShelf, LandedStatus
  <2>3. Ashore({c})
    BY <2>2 DEF AcceptFound, Ashore, Typed, TypeOK, moveVars, truckVars, scanVars
  <2> QED BY <2>3, AshoreCustody
<1>4. CASE \E c \in Cartons : WriteOff(c)
  <2> PICK c \in Cartons : WriteOff(c)
    BY <1>4
  <2>1. Ashore({c})
    BY DEF WriteOff, Ashore, Typed, TypeOK, moveVars, truckVars, scanVars
  <2> QED BY <2>1, AshoreCustody
<1>5. CASE \E w \in Warehouses, S \in SUBSET Cartons : Issue(S, w)
  <2> PICK w \in Warehouses, S \in SUBSET Cartons : Issue(S, w)
    BY <1>5
  <2>1. \A c \in S : ride[c] = None /\ place[c] # None
    BY DEF Issue, LooseAt, Plannable, Typed, CustodyInv, CustodyConsistent, Aboard
  <2>2. Ashore(S)
    BY <2>1 DEF Issue, Ashore, Put, Typed, TypeOK, moveVars, truckVars, scanVars
  <2> QED BY <2>2, AshoreCustody
<1>6. CASE \E w \in Warehouses, S, T \in SUBSET Cartons : Reconcile(w, S, T)
  <2> PICK w \in Warehouses, S \in SUBSET Cartons, T \in SUBSET Cartons : Reconcile(w, S, T)
    BY <1>6
  <2> DEFINE moved == {c \in S : status[c] \in Present \cup {"in_transit"} /\ place[c] # w}
             lost  == {c \in T : status[c] \in Present /\ place[c] = w}
  <2>1. /\ status' = Put(Put(status, moved, LandedStatus(w)), lost, "lost")
        /\ place' = Put(place, moved, w)
        /\ ride' = Put(ride, moved, None)
        /\ UNCHANGED <<missing, readyBefore, landedAt, from, tstat, jobs, late>>
    BY DEF Reconcile, moveVars, truckVars, scanVars
  <2>2. moved \cap lost = {} /\ moved \in SUBSET Cartons /\ lost \in SUBSET Cartons
    OBVIOUS
  <2>3. \A c \in lost : place[c] = w /\ w # None
    BY CargoAssumption
  <2> HIDE DEF moved, lost
  <2>4. \A c \in moved : status'[c] = LandedStatus(w) /\ place'[c] = w /\ ride'[c] = None
    BY <2>1, <2>2 DEF Put, Typed, TypeOK
  <2>5. \A c \in lost : status'[c] = "lost" /\ place'[c] = w /\ ride'[c] = ride[c]
    BY <2>1, <2>2, <2>3 DEF Put, Typed, TypeOK
  <2>6. \A c \in Cartons \ (moved \cup lost) :
          status'[c] = status[c] /\ place'[c] = place[c] /\ ride'[c] = ride[c]
    BY <2>1 DEF Put, Typed, TypeOK
  <2>7. \A c \in moved : status'[c] \in Plannable /\ FitsShelf(c, status[c], place[c])'
    BY <2>4, ShelvesArePlannable DEF FitsShelf, LandedStatus
  <2>8. Ashore(moved \cup lost)
    BY <2>1, <2>2, <2>3, <2>4, <2>5, <2>6, <2>7 DEF Ashore
  <2> QED BY <2>2, <2>8, AshoreCustody
<1>7. CASE \E k \in Crates : DissolveCrate(k)
  <2> PICK k \in Crates : DissolveCrate(k)
    BY <1>7
  <2>1. Ashore({})
    BY DEF DissolveCrate, Ashore, moveVars, truckVars, scanVars
  <2> QED BY <2>1, AshoreCustody
<1>8. CASE \E S \in SUBSET Cartons : VoidReceipt(S)
  <2> PICK S \in SUBSET Cartons : VoidReceipt(S)
    BY <1>8
  <2> DEFINE act == {c \in S : status[c] = "in_stock"}
  <2>1. \A c \in act : place[c] # None
    BY DEF Typed, CustodyInv, CustodyConsistent, Aboard
  <2>2. Ashore(act)
    BY <2>1 DEF VoidReceipt, Ashore, Put, Typed, TypeOK, moveVars, truckVars, scanVars
  <2> QED BY <2>2, AshoreCustody
<1> QED BY <1>1, <1>2, <1>3, <1>4, <1>5, <1>6, <1>7, <1>8 DEF DeskNext

\* Every step of the loading side keeps the invariant.
LEMMA LoadingCustody ==
  ASSUME Typed, LoadingNext
  PROVE  CustodyInv'
<1>1. CASE \E s \in LoadScans : QueueLoad(s) \/ ReadForLoad(s)
  <2>1. UNCHANGED <<boxVars, moveVars, truckVars, late>>
    BY <1>1 DEF QueueLoad, Queue, ReadForLoad, Start, Refuse
  <2>2. \A j \in jobs' : j \in jobs \/ tstat[j.body.truck] # "unborn"
    BY <1>1 DEF QueueLoad, Queue, ReadForLoad, Start, Refuse, LoadingStates
  <2> QED BY <2>1, <2>2, PhoneCustody
<1> QED BY <1>1, OpenCustody, ApproveCustody, OfficeGivesBack, DepartCustody, CommitLoadCustody
        DEF LoadingNext

\* Every step of the unloading side keeps the invariant.
LEMMA UnloadingCustody ==
  ASSUME Typed, UnloadingNext
  PROVE  CustodyInv'
<1>1. CASE \E s \in UnloadScans : QueueUnload(s) \/ ReadForUnload(s)
  <2>1. UNCHANGED <<boxVars, moveVars, truckVars, late>>
    BY <1>1 DEF QueueUnload, Queue, ReadForUnload, Start, Refuse
  <2>2. \A j \in jobs' : j \in jobs \/ tstat[j.body.truck] # "unborn"
    BY <1>1 DEF QueueUnload, Queue, ReadForUnload, Start, Refuse, UnloadingStates
  <2> QED BY <2>1, <2>2, PhoneCustody
<1> QED BY <1>1, TruckRecordCustody, CommitUnloadCustody, ResolveCustody DEF UnloadingNext

\* The inductive invariant, from every initial state and through every step.
THEOREM CustodyInvariant == Spec => []CustodyInv
<1>1. Init => CustodyInv
  BY InitCustody
<1>2. TypeOK /\ TypeOK' /\ CustodyInv /\ [Next]_vars => CustodyInv'
  <2> SUFFICES ASSUME Typed, [Next]_vars PROVE CustodyInv'
    BY DEF Typed
  <2>1. CASE UNCHANGED vars
    BY <2>1, PhoneCustody DEF vars, scanVars
  <2> QED BY <2>1, LoadingCustody, UnloadingCustody, DeskCustody DEF Next
<1> QED BY <1>1, <1>2, TypeCorrect, PTL DEF Spec

\* A carton's status, place and truck tell one story in every reachable state.
THEOREM CustodyIsConsistent == Spec => []CustodyConsistent
<1>1. CustodyInv => CustodyConsistent
  BY DEF CustodyInv
<1> QED BY <1>1, CustodyInvariant, PTL

\* Cargo aboard sits on a truck in the matching stage, but for late load scans.
THEOREM AboardMatchesTruck == Spec => []AboardTruckState
<1>1. CustodyInv => AboardTruckState
  BY DEF CustodyInv
<1> QED BY <1>1, CustodyInvariant, PTL

\* After the unload is finished, what is still on the road is flagged missing.
THEOREM NobodyIsForgotten == Spec => []NobodyForgotten
<1>1. CustodyInv => NobodyForgotten
  BY DEF CustodyInv
<1> QED BY <1>1, CustodyInvariant, PTL

\* A carton on a shelf has a status that fits its warehouse, also after being given
\* back or found at the origin, which restores it from movement rows alone.
THEOREM ShelvesMatch == Spec => []ShelfMatchesWarehouse
<1>1. CustodyInv => ShelfMatchesWarehouse
  BY DEF CustodyInv
<1> QED BY <1>1, CustodyInvariant, PTL

\* A truck's status never moves back, except on a truck a late load scan rewrote.
THEOREM TrucksMoveForward == Spec => ForwardOnly
<1>1. TypeOK /\ [Next]_vars => [\A t \in Trucks \ late' : Later(tstat[t], tstat'[t])]_vars
  <2> SUFFICES ASSUME TypeOK, Next, NEW t \in Trucks \ late'
               PROVE  Later(tstat[t], tstat'[t])
    OBVIOUS
  <2>1. CASE LoadingNext
    <3>1. CASE \E j \in jobs : CommitLoad(j)
      <4> PICK j \in jobs : CommitLoad(j)
        BY <3>1
      <4>1. \/ tstat' = tstat
            \/ /\ tstat' = [tstat EXCEPT ![j.body.truck] = "loading"]
               /\ tstat[j.body.truck] \in LoadingStates \/ j.body.truck \in late'
        BY DEF CommitLoad, truckVars
      <4> QED BY <4>1 DEF Later, TypeOK, LoadingStates
    <3>2. CASE \E s \in LoadScans : QueueLoad(s) \/ ReadForLoad(s)
      BY <3>2 DEF QueueLoad, Queue, ReadForLoad, Start, Refuse, Later, truckVars
    <3>3. CASE \E x \in Trucks, o, d \in Warehouses : OpenQuickTruck(x, o, d)
      BY <3>3 DEF OpenQuickTruck, Later, TypeOK
    <3>4. CASE \E x \in Trucks, o, d \in Warehouses, S \in SUBSET Cartons : ApprovePlan(x, o, d, S)
      BY <3>4 DEF ApprovePlan, Later, TypeOK
    <3>5. CASE \E x \in Trucks : Depart(x) \/ CancelTruck(x)
      BY <3>5 DEF Depart, CancelTruck, Later, TypeOK, LoadingStates
    <3>6. CASE \E x \in Trucks : FinishLoading(x) \/ \E code \in Codes : RemoveLoaded(x, code)
      BY <3>6 DEF FinishLoading, RemoveLoaded, Later, truckVars
    <3> QED BY <2>1, <3>1, <3>2, <3>3, <3>4, <3>5, <3>6 DEF LoadingNext
  <2>2. CASE UnloadingNext
    BY <2>2 DEF UnloadingNext, Reroute, FinishUnload, CloseTruck, QueueUnload, Queue,
        ReadForUnload, Start, Refuse, CommitUnload, TruckStillThere, ResolveLost,
        ResolveFoundHere, ResolveFoundAtOrigin, Later, TypeOK, truckVars, UnloadingStates
  <2>3. CASE DeskNext
    BY <2>3 DEF DeskNext, MarkBox, RestoreLost, AcceptFound, WriteOff, Issue, Reconcile,
        DissolveCrate, VoidReceipt, Later, truckVars
  <2> QED BY <2>1, <2>2, <2>3 DEF Next
<1> QED BY <1>1, TypeCorrect, PTL DEF Spec, ForwardOnly

\* A truck read as arrived is not rerouted before the handler commits.
LEMMA ArrivalStaysSettled ==
  ASSUME TypeOK, ArrivalSettled, OnlyOpenTrucks, Next
  PROVE  ArrivalSettled'
<1>1. \A j \in jobs : j.body.truck \in Trucks /\ tstat[j.body.truck] # "unborn"
  BY DEF TypeOK, Job, JobOf, Payload, OnlyOpenTrucks
<1>2. CASE /\ jobs' \subseteq jobs
           /\ late \subseteq late'
           /\ \A t \in Trucks \ late' :
                /\ tstat[t] \in {"arrived", "unloaded", "closed"} =>
                     tstat'[t] \in {"arrived", "unloaded", "closed"} /\ to'[t] = to[t]
  BY <1>1, <1>2 DEF ArrivalSettled
<1>3. CASE UNCHANGED <<truckVars, late>> /\ \E s \in Scans : Start(s)
  <2> PICK s \in Scans : Start(s)
    BY <1>3
  <2> DEFINE b == phone[s].scan
  <2>1. \A j \in jobs' : j \in jobs \/ /\ j.seen = tstat[j.body.truck]
                                       /\ j.seenDest = to[j.body.truck]
    BY DEF Start
  <2> QED BY <1>3, <2>1 DEF ArrivalSettled, truckVars
<1>4. CASE LoadingNext
  <2>1. CASE \E j \in jobs : CommitLoad(j)
    <3> PICK j \in jobs : CommitLoad(j)
      BY <2>1
    <3>1. /\ jobs' \subseteq jobs /\ late \subseteq late' /\ to' = to
          /\ \/ tstat' = tstat
             \/ /\ tstat' = [tstat EXCEPT ![j.body.truck] = "loading"]
                /\ tstat[j.body.truck] \in LoadingStates \/ j.body.truck \in late'
      BY DEF CommitLoad, Answer, truckVars
    <3> QED BY <1>2, <3>1 DEF TypeOK, LoadingStates
  <2>2. CASE \E s \in LoadScans : QueueLoad(s) \/ ReadForLoad(s)
    BY <1>2, <1>3, <2>2 DEF QueueLoad, Queue, ReadForLoad, Refuse, Start, Scans, truckVars
  <2>3. CASE \E t \in Trucks, o, d \in Warehouses : OpenQuickTruck(t, o, d)
    BY <1>2, <2>3 DEF OpenQuickTruck, TypeOK, scanVars
  <2>4. CASE \E t \in Trucks, o, d \in Warehouses, S \in SUBSET Cartons : ApprovePlan(t, o, d, S)
    BY <1>2, <2>4 DEF ApprovePlan, TypeOK, scanVars
  <2>5. CASE \E t \in Trucks : Depart(t) \/ CancelTruck(t)
    BY <1>2, <2>5 DEF Depart, CancelTruck, TypeOK, LoadingStates, scanVars
  <2>6. CASE \E t \in Trucks : FinishLoading(t) \/ \E code \in Codes : RemoveLoaded(t, code)
    BY <1>2, <2>6 DEF FinishLoading, RemoveLoaded, truckVars, scanVars
  <2> QED BY <1>4, <2>1, <2>2, <2>3, <2>4, <2>5, <2>6 DEF LoadingNext
<1>5. CASE UnloadingNext
  <2>1. CASE \E j \in jobs : CommitUnload(j)
    BY <1>2, <2>1 DEF CommitUnload, Answer, TypeOK
  <2>2. CASE \E s \in UnloadScans : QueueUnload(s) \/ ReadForUnload(s)
    BY <1>2, <1>3, <2>2 DEF QueueUnload, Queue, ReadForUnload, Refuse, Start, Scans, truckVars
  <2>3. CASE \E t \in Trucks : FinishUnload(t) \/ CloseTruck(t) \/ \E d \in Warehouses : Reroute(t, d)
    BY <1>2, <2>3 DEF FinishUnload, CloseTruck, Reroute, TypeOK, UnloadingStates, scanVars
  <2>4. CASE \E c \in Cartons : ResolveLost(c) \/ ResolveFoundHere(c) \/ ResolveFoundAtOrigin(c)
    BY <1>2, <2>4 DEF ResolveLost, ResolveFoundHere, ResolveFoundAtOrigin, truckVars, scanVars
  <2> QED BY <1>5, <2>1, <2>2, <2>3, <2>4 DEF UnloadingNext
<1>6. CASE DeskNext
  BY <1>2, <1>6 DEF DeskNext, MarkBox, RestoreLost, AcceptFound, WriteOff, Issue, Reconcile,
      DissolveCrate, VoidReceipt, truckVars, scanVars
<1> QED BY <1>4, <1>5, <1>6 DEF Next

\* What a step lands, it lands where the truck is bound.
LEMMA LandingsFollowTruck ==
  ASSUME TypeOK, ArrivalSettled, Next, NEW c \in Cartons, NEW t \in Trucks \ late'
  PROVE  landedAt'[c][t] \subseteq landedAt[c][t] \cup {to[t]}
<1>1. CASE landedAt' = landedAt
  BY <1>1
<1>2. CASE \E j \in jobs : CommitUnload(j)
  <2> PICK j \in jobs : CommitUnload(j)
    BY <1>2
  <2> DEFINE u == j.body.truck
             S == IF TruckStillThere(j) THEN ToLand(j.body, j.seenDest) ELSE {}
  <2>1. j.seen \in {"in_transit", "arrived"}
    BY CargoAssumption DEF CommitUnload, TypeOK, Job, JobOf, UnloadingStates
  <2>2. CASE S = {}
    BY <1>1, <2>2 DEF CommitUnload, moveVars
  <2>3. CASE S # {}
    <3>1. landedAt' = [x \in Cartons |-> IF x \in S
                         THEN [landedAt[x] EXCEPT ![u] = @ \cup {j.seenDest}] ELSE landedAt[x]]
      BY <2>3 DEF CommitUnload, Land
    <3>2. u = t => to[t] = j.seenDest
      BY <2>1, <2>3 DEF TruckStillThere, ArrivalSettled, CommitUnload
    <3> HIDE DEF S, u
    <3>3. landedAt[c] \in [Trucks -> SUBSET Warehouses]
      BY DEF TypeOK
    <3> QED BY <3>1, <3>2, <3>3
  <2> QED BY <2>2, <2>3
<1>3. CASE \E x \in Cartons : ResolveFoundHere(x)
  BY <1>3 DEF ResolveFoundHere, TypeOK
<1>4. CASE \E x \in Cartons : ResolveFoundAtOrigin(x)
  BY <1>4 DEF ResolveFoundAtOrigin, TypeOK
<1>5. CASE \E x \in Cartons, w \in Warehouses : RestoreLost(x, w)
  <2> PICK x \in Cartons, w \in Warehouses : RestoreLost(x, w)
    BY <1>5
  <2>1. \/ landedAt' = landedAt
        \/ landedAt' = [landedAt EXCEPT ![x][lostOff[x]] = {}]
    BY DEF RestoreLost
  <2>2. \A y \in Cartons : landedAt'[y] \in {landedAt[y], [landedAt[y] EXCEPT ![lostOff[y]] = {}]}
    BY <2>1 DEF TypeOK
  <2>3. landedAt[c] \in [Trucks -> SUBSET Warehouses]
    BY DEF TypeOK
  <2> QED BY <2>2, <2>3
<1>6. CASE ~ \/ \E j \in jobs : CommitUnload(j)
             \/ \E x \in Cartons : ResolveFoundHere(x) \/ ResolveFoundAtOrigin(x)
             \/ \E x \in Cartons, w \in Warehouses : RestoreLost(x, w)
  <2>1. CASE LoadingNext
    BY <1>1, <2>1 DEF LoadingNext, OpenQuickTruck, ApprovePlan, RemoveLoaded, FinishLoading,
        Depart, CancelTruck, QueueLoad, Queue, ReadForLoad, Start, Refuse, CommitLoad, moveVars
  <2>2. CASE UnloadingNext
    BY <1>1, <1>6, <2>2 DEF UnloadingNext, Reroute, FinishUnload, CloseTruck, QueueUnload, Queue,
        ReadForUnload, Start, Refuse, ResolveLost, moveVars
  <2>3. CASE DeskNext
    BY <1>1, <1>6, <2>3 DEF DeskNext, MarkBox, AcceptFound, WriteOff, Issue, Reconcile,
        DissolveCrate, VoidReceipt, moveVars
  <2> QED BY <2>1, <2>2, <2>3 DEF Next
<1> QED BY <1>2, <1>3, <1>4, <1>5, <1>6

\* Nothing is landed anywhere but where its truck is bound for: the unlocked read
\* of the destination is safe, because a truck read in transit is locked and
\* judged again, and a truck read arrived can no longer be rerouted.
THEOREM LandingsAreAtDestination == Spec => LandsAtDestination
<1>1. Init => ArrivalSettled
  BY DEF Init, ScanInit, ArrivalSettled
<1>2. TypeOK /\ CustodyInv /\ ArrivalSettled /\ [Next]_vars => ArrivalSettled'
  <2> SUFFICES ASSUME TypeOK, CustodyInv, ArrivalSettled, [Next]_vars PROVE ArrivalSettled'
    OBVIOUS
  <2>1. CASE UNCHANGED vars
    BY <2>1 DEF vars, scanVars, truckVars, ArrivalSettled
  <2> QED BY <2>1, ArrivalStaysSettled DEF CustodyInv
<1>3. TypeOK /\ ArrivalSettled /\ [Next]_vars =>
        [\A c \in Cartons, t \in Trucks \ late' :
           landedAt'[c][t] \subseteq landedAt[c][t] \cup {to[t]}]_vars
  BY LandingsFollowTruck
<1> QED BY <1>1, <1>2, <1>3, TypeCorrect, CustodyInvariant, PTL DEF Spec, LandsAtDestination

-----------------------------------------------------------------------------
(* Truck implements Custody: every step, seen through the box rows, is one  *)
(* of Custody's or none.                                                    *)

OnShelf(w) == CustodyView!Shelf(w)
InYard(t)  == CustodyView!Yard(t)
OnRoad(t)  == CustodyView!Road(t)
Gone(f)    == CustodyView!Gone(f)
SeenMoved  == CustodyView!Moved

\* What the box row of a carton shows of it.
LEMMA SeenIs ==
  ASSUME NEW c \in Cartons
  PROVE  /\ status[c] \in Plannable => Seen[c] = OnShelf(place[c])
         /\ status[c] \in {"planned", "loading"} => Seen[c] = InYard(ride[c])
         /\ status[c] = "in_transit" => Seen[c] = OnRoad(ride[c])
         /\ status[c] \in {"issued", "lost", "void"} => Seen[c] = Gone(status[c])
  BY DEF Seen, Plannable, OnShelf, InYard, OnRoad, Gone, CustodyView!Shelf, CustodyView!Yard,
         CustodyView!Road, CustodyView!Gone

\* So it does after a step.
LEMMA SeenNext ==
  ASSUME NEW c \in Cartons
  PROVE  /\ status'[c] \in Plannable => Seen'[c] = OnShelf(place'[c])
         /\ status'[c] \in {"planned", "loading"} => Seen'[c] = InYard(ride'[c])
         /\ status'[c] = "in_transit" => Seen'[c] = OnRoad(ride'[c])
         /\ status'[c] \in {"issued", "lost", "void"} => Seen'[c] = Gone(status'[c])
  BY DEF Seen, Plannable, OnShelf, InYard, OnRoad, Gone, CustodyView!Shelf, CustodyView!Yard,
         CustodyView!Road, CustodyView!Gone

\* No place is another.
LEMMA PlacesDiffer ==
  /\ \A x : OnShelf(x).at = "shelf" /\ InYard(x).at = "yard" /\ OnRoad(x).at = "road" /\ Gone(x).at = "gone"
  /\ \A x : OnShelf(x).of = x /\ InYard(x).of = x /\ OnRoad(x).of = x /\ Gone(x).of = x
  BY DEF OnShelf, InYard, OnRoad, Gone, CustodyView!Shelf, CustodyView!Yard, CustodyView!Road,
         CustodyView!Gone

\* A carton whose row says the same is seen in the same place.
LEMMA SeenStays ==
  ASSUME NEW S, \A c \in Cartons \ S : /\ status'[c] = status[c] /\ place'[c] = place[c]
                                       /\ ride'[c] = ride[c]
  PROVE  SeenMoved \subseteq S
<1>1. \A c \in Cartons \ S : Seen'[c] = Seen[c]
  BY DEF Seen
<1> QED BY <1>1 DEF SeenMoved, CustodyView!Moved

\* A consistent row shows a carton in one of Custody's places.
LEMMA SeenInPlaces ==
  ASSUME TypeOK, CustodyConsistent
  PROVE  Seen \in [Cartons -> CustodyView!Places]
<1>1. ASSUME NEW c \in Cartons PROVE Seen[c] \in CustodyView!Places
  <2>1. status[c] \in Plannable => place[c] \in Warehouses
    BY DEF TypeOK, CustodyConsistent, Plannable
  <2>2. status[c] \in Aboard => ride[c] \in Trucks
    BY DEF TypeOK, CustodyConsistent
  <2>3. CASE status[c] \in Plannable
    BY <2>1, <2>3, SeenIs DEF CustodyView!Places, OnShelf
  <2>4. CASE status[c] \in {"planned", "loading"}
    BY <2>2, <2>4, SeenIs DEF CustodyView!Places, InYard, Aboard
  <2>5. CASE status[c] = "in_transit"
    BY <2>2, <2>5, SeenIs DEF CustodyView!Places, OnRoad, Aboard
  <2>6. CASE status[c] \in {"issued", "lost", "void"}
    BY <2>6, SeenIs DEF CustodyView!Places, Gone
  <2> QED BY <2>3, <2>4, <2>5, <2>6 DEF TypeOK, BoxStatuses, Aboard
<1>2. Seen = [c \in Cartons |-> Seen[c]]
  BY DEF Seen
<1> QED BY <1>1, <1>2

\* A step in which no carton is seen to move is none of Custody's.
LEMMA SeenStutter ==
  ASSUME UNCHANGED <<status, place, ride>>
  PROVE  UNCHANGED Seen
  BY DEF Seen

\* The rows outside S say what they said.
RowsStay(S) ==
  \A c \in Cartons \ S : status'[c] = status[c] /\ place'[c] = place[c] /\ ride'[c] = ride[c]

SeenPlaced == Seen \in [Cartons -> CustodyView!Places]

\* Cartons of one shelf, and perhaps some of truck t's own, are planned or loaded on t.
LEMMA RowsBoard ==
  ASSUME SeenPlaced', NEW t \in Trucks, NEW w \in Warehouses, NEW S \in SUBSET Cartons, RowsStay(S),
         \A c \in S : status'[c] \in {"planned", "loading"} /\ ride'[c] = t,
         \A c \in S : \/ LooseAt(c, w)
                      \/ OnTruck(c, t, {"planned", "loading"})
  PROVE  CustodyView!Next
<1>1. SeenMoved \subseteq S
  BY SeenStays DEF RowsStay
<1>2. \A c \in S : Seen'[c] = InYard(t)
  BY SeenNext
<1>3. \A c \in S : Seen[c] = OnShelf(w) \/ Seen[c] = InYard(t)
  BY SeenIs DEF LooseAt, OnTruck
<1>4. \A c \in SeenMoved : Seen[c] = OnShelf(w) /\ Seen'[c] = InYard(t)
  BY <1>1, <1>2, <1>3 DEF SeenMoved, CustodyView!Moved
<1>5. CustodyView!Board(t)
  BY <1>4 DEF CustodyView!Board, SeenMoved, OnShelf, InYard
<1> QED BY <1>5 DEF CustodyView!Next, SeenPlaced

\* Cartons come to the shelf of w, others are written off in the same breath.
LEMMA RowsToShelf ==
  ASSUME Typed, SeenPlaced', NEW w \in Warehouses, NEW S \in SUBSET Cartons, RowsStay(S),
         \A c \in S : \/ status'[c] \in Plannable /\ place'[c] = w /\ status[c] \notin {"issued", "void"}
                      \/ status'[c] = "lost" /\ status[c] \in Plannable \cup {"planned", "loading"}
  PROVE  CustodyView!Next
<1>1. SeenMoved \subseteq S
  BY SeenStays DEF RowsStay
<1>2. \A c \in Cartons : status[c] \in BoxStatuses
  BY DEF Typed, TypeOK
<1>3. ASSUME NEW c \in S, status'[c] \in Plannable, place'[c] = w, status[c] \notin {"issued", "void"}
      PROVE  Seen'[c] = OnShelf(w) /\ Seen[c] \notin {Gone("issued"), Gone("void")}
  BY <1>2, <1>3, SeenIs, SeenNext, PlacesDiffer DEF BoxStatuses, Aboard
<1>4. ASSUME NEW c \in S, status'[c] = "lost", status[c] \in Plannable \cup {"planned", "loading"}
      PROVE  Seen'[c] = Gone("lost") /\ Seen[c].at \in {"shelf", "yard"}
  BY <1>4, SeenIs, SeenNext, PlacesDiffer
<1>5. \A c \in SeenMoved :
        \/ Seen'[c] = OnShelf(w) /\ Seen[c] \notin {Gone("issued"), Gone("void")}
        \/ Seen'[c] = Gone("lost") /\ Seen[c].at \in {"shelf", "yard"}
  BY <1>1, <1>3, <1>4
<1>6. CustodyView!ToShelf(w)
  BY <1>5 DEF CustodyView!ToShelf, SeenMoved, OnShelf, Gone
<1> QED BY <1>6 DEF CustodyView!Next, SeenPlaced

\* Shelved cartons of w are issued.
LEMMA RowsHandOver ==
  ASSUME SeenPlaced', NEW w \in Warehouses, NEW S \in SUBSET Cartons, RowsStay(S),
         \A c \in S : LooseAt(c, w) /\ status'[c] = "issued"
  PROVE  CustodyView!Next
<1>1. SeenMoved \subseteq S
  BY SeenStays DEF RowsStay
<1>2. \A c \in SeenMoved : Seen[c] = OnShelf(w) /\ Seen'[c] = Gone("issued")
  BY <1>1, SeenIs, SeenNext DEF LooseAt
<1>3. CustodyView!HandOver(w)
  BY <1>2 DEF CustodyView!HandOver, SeenMoved, OnShelf, Gone
<1> QED BY <1>3 DEF CustodyView!Next, SeenPlaced

\* Shelved cartons are void.
LEMMA RowsAnnul ==
  ASSUME SeenPlaced', NEW S \in SUBSET Cartons, RowsStay(S),
         \A c \in S : status[c] \in Plannable /\ status'[c] = "void"
  PROVE  CustodyView!Next
<1>1. SeenMoved \subseteq S
  BY SeenStays DEF RowsStay
<1>2. \A c \in SeenMoved : Seen[c].at = "shelf" /\ Seen'[c] = Gone("void")
  BY <1>1, SeenIs, SeenNext, PlacesDiffer
<1>3. CustodyView!Annul
  BY <1>2 DEF CustodyView!Annul, SeenMoved, Gone
<1> QED BY <1>3 DEF CustodyView!Next, SeenPlaced

\* One carton is lost, or was lost already.
LEMMA RowLost ==
  ASSUME SeenPlaced', NEW c \in Cartons, RowsStay({c}),
         status'[c] = "lost", status[c] \in Plannable \cup Aboard \cup {"lost"}
  PROVE  CustodyView!Next \/ UNCHANGED Seen
<1>1. SeenMoved \subseteq {c}
  BY SeenStays DEF RowsStay
<1>2. Seen'[c] = Gone("lost")
  BY SeenNext
<1>3. CASE status[c] = "lost"
  <2>1. \A x \in Cartons : Seen'[x] = Seen[x]
    BY <1>1, <1>2, <1>3, SeenIs DEF SeenMoved, CustodyView!Moved
  <2> QED BY <2>1 DEF Seen
<1>4. CASE status[c] # "lost"
  <2>1. Seen[c].at \in {"shelf", "yard", "road"}
    BY <1>4, SeenIs, PlacesDiffer DEF Aboard
  <2>2. SeenMoved = {c}
    BY <1>1, <1>2, <2>1, PlacesDiffer DEF SeenMoved, CustodyView!Moved
  <2>3. CustodyView!WriteOff(c)
    BY <1>2, <2>1, <2>2 DEF CustodyView!WriteOff, SeenMoved, Gone
  <2> QED BY <2>3 DEF CustodyView!Next, SeenPlaced
<1> QED BY <1>3, <1>4

\* A carton given back before departure is on the shelf of the truck's origin again.
LEMMA RowsGivenBack ==
  ASSUME Typed, SeenPlaced', NEW t \in Trucks, NEW S \in SUBSET Cartons,
         \A c \in S : OnTruck(c, t, {"planned", "loading"}),
         GiveBack(S, t), ride' = Put(ride, S, None), UNCHANGED place
  PROVE  CustodyView!Next
<1>1. /\ RowsStay(S)
      /\ \A c \in S : status'[c] = ShelfBefore(c, t)
  BY DEF RowsStay, Typed, TypeOK, GiveBack, Put
<1>2. \A c \in S : /\ status'[c] \in Plannable /\ place'[c] = from[t]
                   /\ status[c] \notin {"issued", "void"}
  BY <1>1, ShelvesArePlannable, CargoAssumption
     DEF OnTruck, Typed, CustodyInv, CustodyConsistent
<1>3. from[t] \in Warehouses
  BY DEF Typed, TypeOK
<1> QED BY <1>1, <1>2, <1>3, RowsToShelf

\* Every step of the loading side is one of Custody's or moves nothing.
LEMMA LoadingSeen ==
  ASSUME Typed, SeenPlaced', LoadingNext
  PROVE  CustodyView!Next \/ UNCHANGED Seen
<1>1. CASE \E t \in Trucks, o, d \in Warehouses : OpenQuickTruck(t, o, d)
  BY <1>1, SeenStutter DEF OpenQuickTruck, boxVars
<1>2. CASE \E t \in Trucks, o, d \in Warehouses, S \in SUBSET Cartons : ApprovePlan(t, o, d, S)
  <2> PICK t \in Trucks, o \in Warehouses, d \in Warehouses, S \in SUBSET Cartons :
        ApprovePlan(t, o, d, S)
    BY <1>2
  <2>1. /\ RowsStay(S)
        /\ \A c \in S : LooseAt(c, o) /\ status'[c] = "planned" /\ ride'[c] = t
    BY DEF ApprovePlan, RowsStay, Put, Typed, TypeOK
  <2> QED BY <2>1, RowsBoard
<1>3. CASE \E t \in Trucks, code \in Codes : RemoveLoaded(t, code)
  <2> PICK t \in Trucks, code \in Codes : RemoveLoaded(t, code)
    BY <1>3
  <2> DEFINE back == {c \in MembersOf(code) : OnTruck(c, t, {"loading"})}
  <2>1. back \in SUBSET Cartons /\ \A c \in back : OnTruck(c, t, {"planned", "loading"})
    BY MembersAreCartons DEF OnTruck
  <2>2. GiveBack(back, t) /\ ride' = Put(ride, back, None) /\ UNCHANGED place
    BY DEF RemoveLoaded
  <2> QED BY <2>1, <2>2, RowsGivenBack
<1>4. CASE \E t \in Trucks : FinishLoading(t)
  <2> PICK t \in Trucks : FinishLoading(t)
    BY <1>4
  <2> DEFINE short == {c \in Cartons : OnTruck(c, t, {"planned"})}
  <2>1. short \in SUBSET Cartons /\ \A c \in short : OnTruck(c, t, {"planned", "loading"})
    BY DEF OnTruck
  <2>2. GiveBack(short, t) /\ ride' = Put(ride, short, None) /\ UNCHANGED place
    BY DEF FinishLoading
  <2> QED BY <2>1, <2>2, RowsGivenBack
<1>5. CASE \E t \in Trucks : CancelTruck(t)
  <2> PICK t \in Trucks : CancelTruck(t)
    BY <1>5
  <2> DEFINE members == RidersOf(t)
  <2>1. members \in SUBSET Cartons /\ \A c \in members : OnTruck(c, t, {"planned", "loading"})
    BY DEF CancelTruck, RidersOf, OnTruck
  <2>2. GiveBack(members, t) /\ ride' = Put(ride, members, None) /\ UNCHANGED place
    BY DEF CancelTruck
  <2> QED BY <2>1, <2>2, RowsGivenBack
<1>6. CASE \E t \in Trucks : Depart(t)
  <2> PICK t \in Trucks : Depart(t)
    BY <1>6
  <2> DEFINE loaded == {c \in Cartons : OnTruck(c, t, {"loading"})}
  <2>1. /\ RowsStay(loaded) /\ loaded \in SUBSET Cartons
        /\ \A c \in loaded : status'[c] = "in_transit" /\ ride'[c] = t /\ OnTruck(c, t, {"loading"})
    BY DEF Depart, Put, RowsStay, Typed, TypeOK, OnTruck
  <2>2. \A c \in Cartons \ loaded : Seen[c] # InYard(t)
    <3> SUFFICES ASSUME NEW c \in Cartons \ loaded PROVE Seen[c] # InYard(t)
      OBVIOUS
    <3>1. ~(status[c] \in {"planned", "loading"} /\ ride[c] = t)
      BY DEF Depart, RidersOf, OnTruck
    <3>2. status[c] \in BoxStatuses
      BY DEF Typed, TypeOK
    <3> QED BY <3>1, <3>2, SeenIs, PlacesDiffer DEF BoxStatuses, Aboard
  <2> HIDE DEF loaded
  <2>3. \A c \in loaded : Seen[c] = InYard(t) /\ Seen'[c] = OnRoad(t)
    BY <2>1, SeenIs, SeenNext DEF OnTruck
  <2>4. SeenMoved \subseteq loaded
    BY <2>1, SeenStays DEF RowsStay
  <2>5. /\ SeenMoved = loaded
        /\ loaded = {c \in Cartons : Seen[c] = InYard(t)}
    BY <2>1, <2>2, <2>3, <2>4, PlacesDiffer DEF SeenMoved, CustodyView!Moved
  <2>6. CustodyView!Leave(t)
    BY <2>3, <2>5 DEF CustodyView!Leave, SeenMoved, InYard, OnRoad
  <2> QED BY <2>6 DEF CustodyView!Next, SeenPlaced
<1>7. CASE \E s \in LoadScans : QueueLoad(s) \/ ReadForLoad(s)
  BY <1>7, SeenStutter DEF QueueLoad, Queue, ReadForLoad, Start, Refuse, boxVars
<1>8. CASE \E j \in jobs : CommitLoad(j)
  <2> PICK j \in jobs : CommitLoad(j)
    BY <1>8
  <2> DEFINE S == ToLoad(j.body)
             t == j.body.truck
  <2>1. t \in Trucks /\ j.body.code \in Codes /\ from[t] \in Warehouses
    BY DEF Typed, TypeOK, Job, JobOf, Payload
  <2>2. CASE S = {}
    BY <2>2, SeenStutter DEF CommitLoad, boxVars
  <2>3. CASE S # {}
    <3>1. S \in SUBSET Cartons
      <4>1. S \subseteq MembersOf(j.body.code)
        BY ToLoadMembers
      <4> QED BY <2>1, <4>1, MembersAreCartons
    <3>2. \A c \in S : /\ status[c] \in Plannable \cup {"planned"}
                       /\ status[c] = "planned" => ride[c] = t
                       /\ place[c] = from[t]
      BY <2>1, <3>1, ToLoadStandsAtOrigin
    <3>3. \A c \in S : LooseAt(c, from[t]) \/ OnTruck(c, t, {"planned", "loading"})
      BY <3>2 DEF LooseAt, OnTruck
    <3>4. /\ status' = Put(status, S, "loading") /\ ride' = Put(ride, S, t)
          /\ UNCHANGED place
      BY <2>3 DEF CommitLoad
    <3>5. RowsStay(S) /\ \A c \in S : status'[c] = "loading" /\ ride'[c] = t
      <4> HIDE DEF S, t
      <4> QED BY <3>1, <3>4 DEF RowsStay, Put, Typed, TypeOK
    <3> HIDE DEF S, t
    <3> QED BY <2>1, <3>1, <3>3, <3>5, RowsBoard
  <2> QED BY <2>2, <2>3
<1> QED BY <1>1, <1>2, <1>3, <1>4, <1>5, <1>6, <1>7, <1>8 DEF LoadingNext

\* Every step of the unloading side is one of Custody's or moves nothing.
LEMMA UnloadingSeen ==
  ASSUME Typed, SeenPlaced', UnloadingNext
  PROVE  CustodyView!Next \/ UNCHANGED Seen
<1>1. CASE \E t \in Trucks : FinishUnload(t) \/ CloseTruck(t) \/ \E d \in Warehouses : Reroute(t, d)
  BY <1>1, SeenStutter DEF FinishUnload, CloseTruck, Reroute, boxVars
<1>2. CASE \E s \in UnloadScans : QueueUnload(s) \/ ReadForUnload(s)
  BY <1>2, SeenStutter DEF QueueUnload, Queue, ReadForUnload, Start, Refuse, boxVars
<1>3. CASE \E j \in jobs : CommitUnload(j)
  <2> PICK j \in jobs : CommitUnload(j)
    BY <1>3
  <2> DEFINE t == j.body.truck
             w == j.seenDest
             S == IF TruckStillThere(j) THEN ToLand(j.body, w) ELSE {}
  <2>1. t \in Trucks /\ j.body.code \in Codes /\ w \in Warehouses
    BY DEF Typed, TypeOK, Job, JobOf, Payload
  <2>2. CASE S = {}
    BY <2>2, SeenStutter DEF CommitUnload, boxVars
  <2>3. CASE S # {}
    <3>1. S \in SUBSET Cartons
      BY <2>1, MembersAreCartons, ToLandCartons
    <3>2. \A c \in S : status[c] \notin {"issued", "void"}
      <4>1. \A c \in ToLand(j.body, w) : c \in UnloadMembers(j.body, w)
        BY DEF ToLand
      <4>2. \A c \in ToLand(j.body, w) : status[c] \notin {"issued", "void"}
        BY <4>1 DEF ToLand
      <4> QED BY <4>2
    <3>3. Land(S, t, w)
      BY <2>3 DEF CommitUnload
    <3> HIDE DEF S, t, w
    <3>4. RowsStay(S) /\ \A c \in S : status'[c] = LandedStatus(w) /\ place'[c] = w
      BY <3>1, <3>3 DEF Land, RowsStay, Put, Typed, TypeOK
    <3>5. \A c \in S : status'[c] \in Plannable
      BY <3>4, ShelvesArePlannable
    <3> QED BY <2>1, <3>1, <3>2, <3>4, <3>5, RowsToShelf
  <2> QED BY <2>2, <2>3
<1>4. CASE \E c \in Cartons : ResolveLost(c)
  <2> PICK c \in Cartons : ResolveLost(c)
    BY <1>4
  <2>1. RowsStay({c}) /\ status'[c] = "lost"
    BY DEF ResolveLost, RowsStay, Typed, TypeOK
  <2>2. status[c] \in Plannable \cup Aboard \cup {"lost"}
    BY DEF ResolveLost, Typed, CustodyInv, CustodyConsistent
  <2> QED BY <2>1, <2>2, RowLost
<1>5. CASE \E c \in Cartons : ResolveFoundHere(c) \/ ResolveFoundAtOrigin(c)
  <2> PICK c \in Cartons : ResolveFoundHere(c) \/ ResolveFoundAtOrigin(c)
    BY <1>5
  <2>1. ride[c] \in Trucks
    BY DEF ResolveFoundHere, ResolveFoundAtOrigin, Typed, TypeOK
  <2>2. /\ RowsStay({c}) /\ place'[c] \in {to[ride[c]], from[ride[c]]}
        /\ status'[c] \in {LandedStatus(to[ride[c]]), ShelfBefore(c, ride[c])}
    BY DEF ResolveFoundHere, ResolveFoundAtOrigin, RowsStay, Typed, TypeOK
  <2>3. place'[c] \in Warehouses
    BY <2>1, <2>2 DEF Typed, TypeOK
  <2>4. status'[c] \in Plannable
    BY <2>2, ShelvesArePlannable
  <2>5. status[c] \notin {"issued", "void"}
    BY <2>1, CargoAssumption DEF Typed, CustodyInv, CustodyConsistent, Aboard
  <2> QED BY <2>2, <2>3, <2>4, <2>5, RowsToShelf
<1> QED BY <1>1, <1>2, <1>3, <1>4, <1>5 DEF UnloadingNext

\* Every step of the floor and the counter is one of Custody's or moves nothing.
LEMMA DeskSeen ==
  ASSUME Typed, SeenPlaced', DeskNext
  PROVE  CustodyView!Next \/ UNCHANGED Seen
<1>1. CASE \E c \in Cartons, fate \in {"lost", "void"} : MarkBox(c, fate)
  <2> PICK c \in Cartons, fate \in {"lost", "void"} : MarkBox(c, fate)
    BY <1>1
  <2>1. RowsStay({c}) /\ status[c] \in Plannable /\ status'[c] = fate
    BY DEF MarkBox, RowsStay, Plannable, Typed, TypeOK
  <2> QED BY <2>1, RowLost, RowsAnnul
<1>2. CASE \E c \in Cartons, w \in Warehouses : RestoreLost(c, w) \/ AcceptFound(c, w)
  <2> PICK c \in Cartons, w \in Warehouses : RestoreLost(c, w) \/ AcceptFound(c, w)
    BY <1>2
  <2>1. /\ RowsStay({c}) /\ status'[c] = LandedStatus(w) /\ place'[c] = w
        /\ status[c] \notin {"issued", "void"}
    BY DEF RestoreLost, AcceptFound, Present, RowsStay, Typed, TypeOK
  <2> QED BY <2>1, ShelvesArePlannable, RowsToShelf
<1>3. CASE \E c \in Cartons : WriteOff(c)
  <2> PICK c \in Cartons : WriteOff(c)
    BY <1>3
  <2>1. RowsStay({c}) /\ status'[c] = "lost" /\ status[c] \in Plannable \cup Aboard
    BY DEF WriteOff, Present, Plannable, Aboard, RowsStay, Typed, TypeOK
  <2> QED BY <2>1, RowLost
<1>4. CASE \E w \in Warehouses, S \in SUBSET Cartons : Issue(S, w)
  <2> PICK w \in Warehouses, S \in SUBSET Cartons : Issue(S, w)
    BY <1>4
  <2>1. RowsStay(S) /\ \A c \in S : LooseAt(c, w) /\ status'[c] = "issued"
    BY DEF Issue, RowsStay, Put, Typed, TypeOK
  <2> QED BY <2>1, RowsHandOver
<1>5. CASE \E w \in Warehouses, S, T \in SUBSET Cartons : Reconcile(w, S, T)
  <2> PICK w \in Warehouses, S \in SUBSET Cartons, T \in SUBSET Cartons : Reconcile(w, S, T)
    BY <1>5
  <2> DEFINE moved == {c \in S : status[c] \in Present \cup {"in_transit"} /\ place[c] # w}
             lost  == {c \in T : status[c] \in Present /\ place[c] = w}
  <2>1. /\ status' = Put(Put(status, moved, LandedStatus(w)), lost, "lost")
        /\ place' = Put(place, moved, w)
        /\ ride' = Put(ride, moved, None)
    BY DEF Reconcile
  <2>2. moved \cap lost = {} /\ moved \in SUBSET Cartons /\ lost \in SUBSET Cartons
    OBVIOUS
  <2>3. /\ \A c \in moved : status[c] \notin {"issued", "void"}
        /\ \A c \in lost : status[c] \in Plannable \cup {"planned", "loading"}
    BY DEF Present, Plannable
  <2> HIDE DEF moved, lost
  <2>4. \A c \in moved : status'[c] \in Plannable /\ place'[c] = w
    BY <2>1, <2>2, ShelvesArePlannable DEF Put, Typed, TypeOK
  <2>5. \A c \in lost : status'[c] = "lost"
    BY <2>1, <2>2 DEF Put, Typed, TypeOK
  <2>6. RowsStay(moved \cup lost)
    BY <2>1, <2>2 DEF RowsStay, Put, Typed, TypeOK
  <2>7. moved \cup lost \in SUBSET Cartons
    BY <2>2
  <2> QED BY <2>3, <2>4, <2>5, <2>6, <2>7, RowsToShelf
<1>6. CASE \E k \in Crates : DissolveCrate(k)
  BY <1>6, SeenStutter DEF DissolveCrate
<1>7. CASE \E S \in SUBSET Cartons : VoidReceipt(S)
  <2> PICK S \in SUBSET Cartons : VoidReceipt(S)
    BY <1>7
  <2> DEFINE act == {c \in S : status[c] = "in_stock"}
  <2>1. /\ RowsStay(act) /\ act \in SUBSET Cartons
        /\ \A c \in act : status[c] \in Plannable /\ status'[c] = "void"
    BY DEF VoidReceipt, RowsStay, Put, Plannable, Typed, TypeOK, CustodyInv, CustodyConsistent
  <2> QED BY <2>1, RowsAnnul
<1> QED BY <1>1, <1>2, <1>3, <1>4, <1>5, <1>6, <1>7 DEF DeskNext

\* At the start every carton is on a shelf.
LEMMA InitSeen ==
  ASSUME Init
  PROVE  CustodyView!Init
<1>1. /\ place \in [Cartons -> Warehouses] /\ status \in [Cartons -> Plannable]
  BY DEF Init, BoxInit
<1>2. \A c \in Cartons : Seen[c] = OnShelf(place[c]) /\ place[c] \in Warehouses
  BY <1>1, SeenIs
<1>3. Seen = [c \in Cartons |-> Seen[c]]
  BY DEF Seen
<1> QED BY <1>2, <1>3 DEF CustodyView!Init, OnShelf

\* The doors of the service, in every interleaving and with every scan delivered
\* as often as it may be, keep what Custody promises of a carton: it changes
\* trucks only by a shelf, a truck leaves with its whole yard load, and what was
\* issued or annulled never comes back.
THEOREM TruckRefinesCustody == Spec => RefinesCustody
<1>1. Init => CustodyView!Init
  BY InitSeen
<1>2. TypeOK /\ CustodyInv => SeenPlaced
  BY SeenInPlaces DEF SeenPlaced, CustodyInv
<1>3. TypeOK /\ TypeOK' /\ CustodyInv /\ SeenPlaced' /\ [Next]_vars => [CustodyView!Next]_Seen
  <2> SUFFICES ASSUME Typed, SeenPlaced', [Next]_vars
               PROVE  CustodyView!Next \/ UNCHANGED Seen
    BY DEF Typed
  <2>1. CASE UNCHANGED vars
    BY <2>1, SeenStutter DEF vars, boxVars
  <2> QED BY <2>1, LoadingSeen, UnloadingSeen, DeskSeen DEF Next
<1> QED BY <1>1, <1>2, <1>3, TypeCorrect, CustodyInvariant, PTL
        DEF Spec, RefinesCustody, CustodyView!Spec
=============================================================================
