--------------------------- MODULE PlanRoadProofs ---------------------------
(***************************************************************************)
(* Plans, their trucks and what the trucks are owed from the road, for     *)
(* every number of plans, versions, cartons and doors at work at once.     *)
(***************************************************************************)
EXTENDS PlanRoad, FiniteSetTheorems, TLAPS

\* What a door read is what it may act on: the plan was waiting, and of the line
\* nothing but its verdict has changed.
DoorFits(d) ==
  /\ d.seen.status \in {"pending_agent", "changes_requested"}
  /\ d.door \in {"approve", "approving", "send_back"} =>
       d.n > 0 /\ line[d.of].n = d.n /\ line[d.of].part = d.part
  /\ d.door = "submit" => d.n > 0 /\ d.part <= d.n
  /\ d.door # "approving" => d.held = {}
  /\ d.door = "approving" =>
       /\ line[d.of].verdict = "none"
       /\ Cardinality(d.held) <= d.n /\ d.n - d.part <= Cardinality(d.held)
  /\ d.held \subseteq OnShelf
  /\ plan[d.of[1]].status # "absent"

DoorsFit == \A d \in doors : DoorFits(d)

\* Two approvals half-way are of two versions, and take different cartons.
DoorsApart ==
  \A d, e \in doors : d.door = "approving" /\ e.door = "approving" /\ d # e =>
    d.of # e.of /\ d.held \cap e.held = {}

\* An approval that will be owed something has taken what the shelf had.
ShelfTaken ==
  \A d \in doors : d.door = "approving" /\ Cardinality(d.held) < d.n =>
    \A c \in OnShelf \ (astray \cup Held) : ever[c] # {}

\* Nothing was ever reserved for a version that was not approved.
VersionFits(v) ==
  /\ line[v].n = 0 => line[v].verdict = "none"
  /\ line[v].verdict # "approved" =>
       line[v].owed = 0 /\ line[v].missed = 0 /\ \A c \in Cartons : v \notin ever[c]

VersionsFit == \A v \in Versions : VersionFits(v)

\* A plan points at its own versions and at a truck of its own, and if no doors
\* crossed it is the truck of the one version that was approved.
PlanFits(p) ==
  /\ plan[p].status = "absent" => plan[p].truck = None /\ \A v \in Versions : v[1] = p => line[v].n = 0
  /\ plan[p].status # "absent" => plan[p].no > 0 /\ line[<<p, plan[p].no>>].n > 0
  /\ plan[p].truck # None => plan[p].truck[1] = p /\ line[plan[p].truck].verdict = "approved"
  /\ p \notin crossed =>
       /\ plan[p].truck # None => plan[p].status \in {"approved", "loading", "completed", "cancelled"}
       /\ \A v \in Versions : v[1] = p /\ line[v].verdict = "approved" => plan[p].truck = v

PlansFit == \A p \in Plans : PlanFits(p)

\* A carton set aside or loaded rides a truck it was reserved for.
Reserved == \A c \in Cartons : at[c] \in {"planned", "loading"} => ride[c] \in ever[c]

\* The inductive invariant.
PlanInv ==
  /\ TypeOK /\ DoorsFit /\ DoorsApart /\ ShelfTaken /\ VersionsFit /\ PlansFit /\ Reserved
  /\ PlanFollowsTruck /\ PromiseAccounted /\ LandedIsClaimed

-----------------------------------------------------------------------------
(* Counting.                                                                *)

\* A set of cartons has a size, no larger than all of them.
LEMMA Sized ==
  ASSUME NEW S \in SUBSET Cartons
  PROVE  IsFiniteSet(S) /\ Cardinality(S) \in 0..Size /\ Size \in Nat
<1>1. IsFiniteSet(Cartons)
  BY PlanAssumption
<1>2. IsFiniteSet(S) /\ Cardinality(S) <= Cardinality(Cartons)
  BY <1>1, FS_Subset
<1>3. Cardinality(S) \in Nat /\ Cardinality(Cartons) \in Nat
  BY <1>1, <1>2, FS_CardinalityType
<1> QED BY <1>2, <1>3 DEF Size

\* Where a plan's truck is concerned, None is nobody's name.
LEMMA TrucksNamed == None \notin Trucks /\ Trucks = Versions /\ 1 \in 1..MaxVersions
  BY PlanAssumption DEF Trucks

-----------------------------------------------------------------------------
(* Cargo moves, and trucks: what such steps leave alone.                    *)

LinesKept ==
  \A v \in Versions :
    /\ line'[v].n = line[v].n /\ line'[v].part = line[v].part /\ line'[v].verdict = line[v].verdict
    /\ line'[v].owed <= line[v].owed
    /\ line[v].verdict # "approved" => line'[v] = line[v]

PlansKept ==
  \A p \in Plans :
    /\ plan'[p].no = plan[p].no /\ plan'[p].truck = plan[p].truck
    /\ \/ plan'[p].status = plan[p].status
       \/ plan[p].truck # None /\ plan'[p].status \in {"loading", "completed", "cancelled"}
    /\ plan'[p].status \in {"approved", "loading"} => plan[p].status \in {"approved", "loading"}

CargoStep ==
  /\ doors' = doors /\ crossed' = crossed
  /\ LinesKept /\ PlansKept
  /\ \A t \in Trucks : LoadingTruck(t)' => LoadingTruck(t)
  /\ Held \subseteq OnShelf'
  /\ \A c \in Cartons : ever[c] \subseteq ever'[c]
  /\ \A c \in Cartons : \A v \in ever'[c] \ ever[c] : line[v].verdict = "approved"

\* Such a step leaves the doors, the versions and the plans as they must be, and
\* nobody is owed who was not owed before.
LEMMA CargoFrame ==
  ASSUME PlanInv, TypeOK', CargoStep
  PROVE  /\ DoorsFit' /\ DoorsApart' /\ VersionsFit' /\ PlansFit'
         /\ Held' = Held
         /\ \A v \in Versions : Owes(v)' => Owes(v)
<1> USE DEF PlanInv
<1>1. Held' = Held
  BY DEF CargoStep, Held
<1>2. DoorsFit'
  <2> SUFFICES ASSUME NEW d \in doors PROVE DoorFits(d)'
    BY DEF CargoStep, DoorsFit
  <2>1. DoorFits(d) /\ d.of \in Versions /\ d.of[1] \in Plans
    BY DEF DoorsFit, TypeOK, Door, Versions
  <2>2. d.held \subseteq OnShelf'
    BY DEF CargoStep, Held
  <2>3. line'[d.of].n = line[d.of].n /\ line'[d.of].part = line[d.of].part
        /\ line'[d.of].verdict = line[d.of].verdict
    BY <2>1 DEF CargoStep, LinesKept
  <2>4. plan'[d.of[1]].status # "absent"
    BY <2>1 DEF CargoStep, PlansKept, DoorFits
  <2> QED BY <2>1, <2>2, <2>3, <2>4 DEF DoorFits
<1>3. DoorsApart'
  BY DEF CargoStep, DoorsApart
<1>4. VersionsFit'
  <2> SUFFICES ASSUME NEW v \in Versions PROVE VersionFits(v)'
    BY DEF VersionsFit
  <2> QED BY DEF CargoStep, LinesKept, VersionsFit, VersionFits
<1>5. PlansFit'
  <2> SUFFICES ASSUME NEW p \in Plans PROVE PlanFits(p)'
    BY DEF PlansFit
  <2>1. PlanFits(p) /\ plan[p] \in PlanRow
    BY DEF PlansFit, TypeOK
  <2>2. plan[p].status # "absent" => <<p, plan[p].no>> \in Versions
    BY <2>1 DEF PlanFits, PlanRow, Versions
  <2>3. plan[p].truck # None => plan[p].truck \in Versions
    BY <2>1 DEF PlanRow, Trucks
  <2> QED BY <2>1, <2>2, <2>3 DEF CargoStep, LinesKept, PlansKept, PlanFits
<1>6. ASSUME NEW v \in Versions, Owes(v)' PROVE Owes(v)
  <2>1. v[1] \in Plans /\ plan[v[1]] \in PlanRow /\ line[v] \in Line
    BY DEF TypeOK, Versions
  <2>2. line'[v].owed \in Nat
    BY DEF TypeOK, Line
  <2>3. line[v].owed > 0
    BY <1>6, <2>1, <2>2 DEF Owes, CargoStep, LinesKept, Line
  <2> QED BY <1>6, <2>1, <2>3 DEF Owes, CargoStep, LinesKept, PlansKept, PlanOf, Current, PlanRow
<1> QED BY <1>1, <1>2, <1>3, <1>4, <1>5, <1>6

\* If besides no carton comes free on the shelf that was never reserved, none is
\* passed by.
LEMMA ShelfFrame ==
  ASSUME PlanInv, TypeOK', CargoStep,
         \A c \in Cartons : at'[c] = "shelf" /\ ever'[c] = {} /\ c \notin astray' =>
           at[c] = "shelf" /\ c \notin astray
  PROVE  ShelfTaken' /\ LandedIsClaimed'
<1>1. Held' = Held /\ \A v \in Versions : Owes(v)' => Owes(v)
  BY CargoFrame
<1>2. ASSUME NEW c \in Cartons, c \in OnShelf' \ (astray' \cup Held'), ever'[c] = {}
      PROVE  c \in OnShelf \ (astray \cup Held) /\ ever[c] = {}
  BY <1>1, <1>2 DEF CargoStep, OnShelf
<1>3. ShelfTaken'
  <2> SUFFICES ASSUME NEW d \in doors, d.door = "approving", Cardinality(d.held) < d.n,
                      NEW c \in Cartons, c \in OnShelf' \ (astray' \cup Held'), ever'[c] = {}
               PROVE  FALSE
    BY DEF ShelfTaken, CargoStep, OnShelf
  <2> QED BY <1>2 DEF PlanInv, ShelfTaken
<1>4. LandedIsClaimed'
  <2> SUFFICES ASSUME NEW c \in Cartons, c \in OnShelf' \ (astray' \cup Held'), ever'[c] = {},
                      NEW v \in Versions, v[1] \notin crossed', Owes(v)'
               PROVE  FALSE
    BY DEF LandedIsClaimed, OnShelf
  <2> QED BY <1>1, <1>2 DEF PlanInv, LandedIsClaimed, CargoStep
<1> QED BY <1>3, <1>4

-----------------------------------------------------------------------------
(* Cartons landing, and lost.                                               *)

\* A step that moves one carton and reserves none.
LEMMA CartonMoves ==
  ASSUME PlanInv, NEW c \in Cartons, NEW place, c \notin Held,
         place \in {"road", "landing", "hooked", "shelf", "lost"},
         at' = [at EXCEPT ![c] = place], astray' \in SUBSET Cartons, astray \subseteq astray',
         UNCHANGED <<ride, ever, plan, line, truck, doors, crossed>>
  PROVE  /\ TypeOK' /\ CargoStep /\ DoorsFit' /\ DoorsApart' /\ VersionsFit' /\ PlansFit'
         /\ Reserved' /\ PlanFollowsTruck' /\ PromiseAccounted'
         /\ Held' = Held /\ OnShelf' \subseteq OnShelf \cup {c}
         /\ \A v \in Versions : Owes(v)' <=> Owes(v)
<1> USE DEF PlanInv
<1>1. TypeOK'
  BY DEF TypeOK
<1>2. Held \subseteq OnShelf'
  BY DEF DoorsFit, DoorFits, Held, OnShelf, TypeOK
<1>3. CargoStep
  BY <1>2 DEF CargoStep, LinesKept, PlansKept, LoadingTruck, TypeOK, Line
<1>4. Reserved'
  BY DEF Reserved, TypeOK
<1>5. PlanFollowsTruck'
  BY DEF PlanFollowsTruck, LoadingTruck
<1>6. PromiseAccounted'
  BY DEF PromiseAccounted
<1>7. \A v \in Versions : Owes(v)' <=> Owes(v)
  BY DEF Owes, PlanOf, Current, LoadingTruck
<1>8. Held' = Held /\ OnShelf' \subseteq OnShelf \cup {c}
  BY DEF Held, OnShelf, TypeOK
<1> QED BY <1>1, <1>3, <1>4, <1>5, <1>6, <1>7, <1>8, CargoFrame

\* A landing begins, or a carton never comes.
LEMMA StartsOrIsLost ==
  ASSUME PlanInv, NEW c \in Cartons, StartLanding(c) \/ LoseOnRoad(c)
  PROVE  PlanInv'
<1>1. c \notin Held
  BY DEF PlanInv, DoorsFit, DoorFits, Held, OnShelf, StartLanding, LoseOnRoad
<1>2. PICK place \in {"landing", "hooked", "lost"} :
        /\ at' = [at EXCEPT ![c] = place] /\ astray' \in SUBSET Cartons /\ astray \subseteq astray'
        /\ UNCHANGED <<ride, ever, plan, line, truck, doors, crossed>>
  BY DEF StartLanding, LoseOnRoad, PlanInv, TypeOK
<1>3. ShelfTaken' /\ LandedIsClaimed'
  <2>1. TypeOK' /\ CargoStep
    BY <1>1, <1>2, CartonMoves
  <2>2. \A x \in Cartons : at'[x] = "shelf" => at[x] = "shelf"
    BY <1>2 DEF PlanInv, TypeOK
  <2> QED BY <1>2, <2>1, <2>2, ShelfFrame
<1> QED BY <1>1, <1>2, <1>3, CartonMoves DEF PlanInv

\* An approval half-way that will be owed something holds the road.
LEMMA OwedHoldsRoad ==
  ASSUME PlanInv, ~RoadLocked, NEW d \in doors, d.door = "approving"
  PROVE  ~(Cardinality(d.held) < d.n)
<1>1. d \in Door /\ DoorFits(d)
  BY DEF PlanInv, TypeOK, DoorsFit
<1>2. d.n \in Nat /\ d.part \in Nat /\ Cardinality(d.held) \in Nat
  BY <1>1, Sized DEF Door
<1> QED BY <1>1, <1>2 DEF RoadLocked, DoorFits

\* Whoever owes has a road line that lives.
LEMMA OwingLineLives ==
  ASSUME PlanInv, NEW v \in Versions, Owes(v)
  PROVE  RoadLineLives
<1>1. line[v] \in Line /\ line[v].owed + line[v].missed <= line[v].part /\ Size \in Nat
  BY Sized DEF PlanInv, TypeOK
<1>2. line[v].part > 0
  BY <1>1 DEF Owes, Line
<1> QED BY <1>2 DEF Owes, RoadLineLives

\* A carton lands that nobody is told of.
LEMMA LandsUnhooked ==
  ASSUME PlanInv, NEW c \in Cartons, LandUnhooked(c)
  PROVE  PlanInv'
<1>1. c \notin Held
  BY DEF PlanInv, DoorsFit, DoorFits, Held, OnShelf, LandUnhooked
<1>2. /\ at' = [at EXCEPT ![c] = "shelf"] /\ astray' \in SUBSET Cartons /\ astray \subseteq astray'
      /\ UNCHANGED <<ride, ever, plan, line, truck, doors, crossed>>
  BY DEF LandUnhooked, PlanInv, TypeOK
<1>3. /\ TypeOK' /\ CargoStep /\ Held' = Held /\ OnShelf' \subseteq OnShelf \cup {c}
      /\ \A v \in Versions : Owes(v)' <=> Owes(v)
  BY <1>1, <1>2, CartonMoves
<1>4. ShelfTaken' /\ LandedIsClaimed'
  <2>1. CASE RoadLineLives \/ RoadLocked
    <3>1. \A x \in Cartons : at'[x] = "shelf" /\ x \notin astray' => at[x] = "shelf" /\ x \notin astray
      BY <1>2, <2>1 DEF LandUnhooked, PlanInv, TypeOK
    <3> QED BY <1>3, <3>1, ShelfFrame
  <2>2. CASE ~RoadLineLives /\ ~RoadLocked
    <3>1. LandedIsClaimed'
      BY <1>3, <2>2, OwingLineLives DEF LandedIsClaimed
    <3>2. ShelfTaken'
      BY <1>2, <2>2, OwedHoldsRoad DEF ShelfTaken
    <3> QED BY <3>1, <3>2
  <2> QED BY <2>1, <2>2
<1> QED BY <1>1, <1>2, <1>4, CartonMoves DEF PlanInv

-----------------------------------------------------------------------------
(* Cartons reserved.                                                        *)

\* One more carton is reserved for a truck: the count of its version grows by one.
LEMMA OneMoreReserved ==
  ASSUME PlanInv, NEW c \in Cartons, NEW t \in Trucks, t \notin ever[c],
         ever' = [ever EXCEPT ![c] = @ \cup {t}], NEW u \in Versions
  PROVE  /\ u # t => {x \in Cartons : u \in ever'[x]} = {x \in Cartons : u \in ever[x]}
         /\ u = t => Cardinality({x \in Cartons : u \in ever'[x]})
                       = Cardinality({x \in Cartons : u \in ever[x]}) + 1
<1> DEFINE S == {x \in Cartons : u \in ever[x]}
<1>1. ever \in [Cartons -> SUBSET Trucks]
  BY DEF PlanInv, TypeOK
<1>2. u # t => {x \in Cartons : u \in ever'[x]} = S
  BY <1>1
<1>3. u = t => c \notin S /\ {x \in Cartons : u \in ever'[x]} = S \cup {c}
  BY <1>1
<1>4. IsFiniteSet(S)
  BY Sized
<1>5. c \notin S => Cardinality(S \cup {c}) = Cardinality(S) + 1
  BY <1>4, FS_AddElement
<1> QED BY <1>2, <1>3, <1>5

\* The truck of whoever owes is a truck of that plan, and if no doors crossed it is
\* the truck of the very version that owes.
LEMMA OwesItsTruck ==
  ASSUME PlanInv, NEW v \in Versions, Owes(v)
  PROVE  /\ PlanOf(v).truck \in Trucks /\ PlanOf(v).truck[1] = v[1]
         /\ line[PlanOf(v).truck].verdict = "approved"
         /\ LoadingTruck(PlanOf(v).truck)
         /\ v[1] \notin crossed => PlanOf(v).truck = v
<1>1. v[1] \in Plans /\ plan[v[1]] \in PlanRow /\ PlanFits(v[1])
  BY DEF PlanInv, TypeOK, PlansFit, Versions
<1> QED BY <1>1 DEF Owes, PlanOf, PlanFits, PlanRow

\* A carton reserved for a version that owes keeps every account, whatever happens
\* to the truck and its plan meanwhile.
LEMMA ClaimKeeps ==
  ASSUME PlanInv, NEW c \in Cartons, NEW v \in Versions, NEW place \in {"planned", "loading"},
         c \notin Held, Claims(c, v), ClaimFor(c, v, place),
         PlansKept, \A t \in Trucks : LoadingTruck(t)' => LoadingTruck(t),
         plan' \in [Plans -> PlanRow],
         truck' \in [Trucks -> {"none", "forming", "loading", "left", "cancelled"}],
         PlanFollowsTruck', UNCHANGED <<doors, crossed, astray>>
  PROVE  PlanInv'
<1> DEFINE t == PlanOf(v).truck
<1> USE DEF PlanInv
<1>1. /\ t \in Trucks /\ t[1] = v[1] /\ line[t].verdict = "approved"
      /\ v[1] \notin crossed => t = v
      /\ t \notin ever[c] /\ line[v].owed > 0 /\ line[v].verdict = "approved"
  BY OwesItsTruck DEF Claims, Owes
<1>2. /\ at' = [at EXCEPT ![c] = place] /\ ride' = [ride EXCEPT ![c] = t]
      /\ ever' = [ever EXCEPT ![c] = @ \cup {t}] /\ line' = [line EXCEPT ![v].owed = @ - 1]
  BY DEF ClaimFor
<1> HIDE DEF t
<1>3. line[v] \in Line /\ Size \in Nat
  BY Sized DEF TypeOK
<1>4. [line[v] EXCEPT !.owed = @ - 1] \in Line
  BY <1>1, <1>3 DEF Line
<1>5. TypeOK'
  <2>1. line' \in [Versions -> Line]
    BY <1>2, <1>4 DEF TypeOK
  <2>2. \A w \in Versions : line'[w].owed + line'[w].missed <= line'[w].part /\ line'[w].part <= line'[w].n
    BY <1>2, <1>3 DEF TypeOK, Line
  <2>3. /\ at' \in [Cartons -> {"road", "landing", "hooked", "shelf", "planned", "loading", "left", "lost"}]
        /\ ride' \in [Cartons -> Trucks \cup {None}] /\ ever' \in [Cartons -> SUBSET Trucks]
    BY <1>1, <1>2 DEF TypeOK
  <2> QED BY <2>1, <2>2, <2>3 DEF TypeOK
<1>6. LinesKept
  BY <1>1, <1>2, <1>3 DEF LinesKept, TypeOK, Line
<1>7. CargoStep
  <2>1. Held \subseteq OnShelf'
    BY <1>2 DEF DoorsFit, DoorFits, Held, OnShelf, TypeOK
  <2>2. \A x \in Cartons : ever[x] \subseteq ever'[x] /\ \A w \in ever'[x] \ ever[x] : w = t
    BY <1>2 DEF TypeOK
  <2> QED BY <1>1, <1>6, <2>1, <2>2 DEF CargoStep
<1>8. Reserved'
  BY <1>2 DEF Reserved, TypeOK
<1>9. PromiseAccounted'
  <2> SUFFICES ASSUME NEW u \in Versions, u[1] \notin crossed, line'[u].verdict = "approved"
               PROVE  Cardinality({x \in Cartons : u \in ever'[x]}) + line'[u].owed + line'[u].missed
                        = line'[u].n
    BY DEF PromiseAccounted
  <2>1. Cardinality({x \in Cartons : u \in ever[x]}) + line[u].owed + line[u].missed = line[u].n
    BY <1>6 DEF LinesKept, PromiseAccounted
  <2>2. Cardinality({x \in Cartons : u \in ever[x]}) \in Nat /\ line[u] \in Line
    BY Sized DEF TypeOK
  <2>3. CASE u = t
    <3>1. u = v
      BY <1>1, <2>3
    <3>2. line'[u].owed = line[u].owed - 1 /\ line'[u].missed = line[u].missed /\ line'[u].n = line[u].n
      BY <1>2, <1>3, <3>1 DEF TypeOK, Line
    <3>3. Cardinality({x \in Cartons : u \in ever'[x]}) = Cardinality({x \in Cartons : u \in ever[x]}) + 1
      BY <1>1, <1>2, <2>3, OneMoreReserved
    <3> QED BY <1>3, <2>1, <2>2, <3>2, <3>3 DEF Line
  <2>4. CASE u # t
    <3>1. u # v
      BY <1>1, <2>4
    <3>2. {x \in Cartons : u \in ever'[x]} = {x \in Cartons : u \in ever[x]}
      BY <1>1, <1>2, <2>4, OneMoreReserved
    <3>3. line'[u] = line[u]
      BY <1>2, <3>1 DEF TypeOK
    <3> QED BY <2>1, <3>2, <3>3
  <2> QED BY <2>3, <2>4
<1>10. ShelfTaken' /\ LandedIsClaimed'
  <2>1. \A x \in Cartons : at'[x] = "shelf" => at[x] = "shelf"
    BY <1>2 DEF TypeOK
  <2> QED BY <1>5, <1>7, <2>1, ShelfFrame
<1>11. DoorsFit' /\ DoorsApart' /\ VersionsFit' /\ PlansFit'
  BY <1>5, <1>7, CargoFrame
<1> QED BY <1>5, <1>8, <1>9, <1>10, <1>11

\* A hooked carton lands: reserved for somebody who is owed it, or free because
\* nobody is.
LEMMA LandsHooked ==
  ASSUME PlanInv, NEW c \in Cartons, LandHooked(c)
  PROVE  PlanInv'
<1>1. c \notin Held
  BY DEF PlanInv, DoorsFit, DoorFits, Held, OnShelf, LandHooked
<1>2. CASE \E v \in Versions : Claims(c, v) /\ ClaimFor(c, v, "planned")
  <2>1. PICK v \in Versions : Claims(c, v) /\ ClaimFor(c, v, "planned")
    BY <1>2
  <2>2. UNCHANGED <<plan, truck, doors, crossed, astray>>
    BY DEF LandHooked
  <2>3. /\ PlansKept /\ \A t \in Trucks : LoadingTruck(t)' => LoadingTruck(t)
        /\ plan' \in [Plans -> PlanRow]
        /\ truck' \in [Trucks -> {"none", "forming", "loading", "left", "cancelled"}]
    BY <2>2 DEF PlansKept, LoadingTruck, PlanInv, TypeOK
  <2>4. PlanFollowsTruck'
    BY <2>2 DEF PlanInv, PlanFollowsTruck, LoadingTruck
  <2> QED BY <1>1, <2>1, <2>2, <2>3, <2>4, ClaimKeeps
<1>3. CASE ~\E v \in Versions : Claims(c, v) /\ ClaimFor(c, v, "planned")
  <2>1. /\ ~RoadLocked
        /\ \A v \in Versions : ~Claims(c, v)
        /\ at' = [at EXCEPT ![c] = "shelf"]
        /\ UNCHANGED <<ride, ever, plan, line, truck, doors, crossed, astray>>
    BY <1>3 DEF LandHooked
  <2>2. astray' \in SUBSET Cartons /\ astray \subseteq astray'
    BY <2>1 DEF PlanInv, TypeOK
  <2>3. /\ TypeOK' /\ Held' = Held /\ OnShelf' \subseteq OnShelf \cup {c}
        /\ \A v \in Versions : Owes(v)' <=> Owes(v)
    BY <1>1, <2>1, <2>2, CartonMoves
  <2>4. ever[c] = {} => \A v \in Versions : ~Owes(v)
    BY <2>1 DEF Claims
  <2>5. LandedIsClaimed'
    BY <2>1, <2>3, <2>4 DEF PlanInv, LandedIsClaimed
  <2>6. ShelfTaken'
    BY <2>1, OwedHoldsRoad DEF ShelfTaken
  <2> QED BY <1>1, <2>1, <2>2, <2>5, <2>6, CartonMoves DEF PlanInv
<1> QED BY <1>2, <1>3

-----------------------------------------------------------------------------
(* Trucks.                                                                  *)

\* A scan that loads a truck takes its plan along and changes no plan's truck.
LEMMA LoadedKeeps ==
  ASSUME PlanInv, NEW t \in Trucks, LoadingTruck(t), Loaded(t), UNCHANGED crossed
  PROVE  /\ PlansKept /\ \A x \in Trucks : LoadingTruck(x)' <=> LoadingTruck(x)
         /\ plan' \in [Plans -> PlanRow]
         /\ truck' \in [Trucks -> {"none", "forming", "loading", "left", "cancelled"}]
         /\ PlanFollowsTruck'
<1> USE DEF PlanInv
<1>1. \A x \in Trucks : LoadingTruck(x)' <=> LoadingTruck(x)
  <2>1. \A x \in Trucks : truck'[x] = IF x = t THEN "loading" ELSE truck[x]
    BY DEF Loaded, TypeOK
  <2> QED BY <2>1 DEF LoadingTruck
<1>2. \A p \in Plans :
        \/ plan'[p] = plan[p]
        \/ /\ plan[p].truck = t /\ plan[p].status = "approved"
           /\ plan'[p] = [plan[p] EXCEPT !.status = "loading"]
  BY DEF Loaded
<1>3. \A p \in Plans : plan[p] \in PlanRow
  BY DEF TypeOK
<1>4. \A p \in Plans : plan'[p] \in PlanRow
  BY <1>2, <1>3 DEF PlanRow
<1>5. plan' \in [Plans -> PlanRow]
  BY <1>4 DEF Loaded
<1>6. PlansKept
  BY <1>2, <1>3, TrucksNamed DEF PlansKept, PlanRow
<1>7. truck' \in [Trucks -> {"none", "forming", "loading", "left", "cancelled"}]
  BY DEF Loaded, TypeOK
<1>8. PlanFollowsTruck'
  <2> SUFFICES ASSUME NEW p \in Plans, p \notin crossed
               PROVE  {x \in Trucks : x[1] = p /\ LoadingTruck(x)'}
                        = IF plan'[p].status \in {"approved", "loading"} THEN {plan'[p].truck} ELSE {}
    BY DEF PlanFollowsTruck
  <2>1. {x \in Trucks : x[1] = p /\ LoadingTruck(x)}
          = IF plan[p].status \in {"approved", "loading"} THEN {plan[p].truck} ELSE {}
    BY DEF PlanFollowsTruck
  <2>2. /\ plan'[p].status \in {"approved", "loading"} <=> plan[p].status \in {"approved", "loading"}
        /\ plan'[p].truck = plan[p].truck
    BY <1>2, <1>3 DEF PlanRow
  <2> QED BY <1>1, <2>1, <2>2
<1> QED BY <1>1, <1>5, <1>6, <1>7, <1>8

\* A carton of the plan, or one free on the shelf, is loaded.
LEMMA Loads ==
  ASSUME PlanInv, NEW c \in Cartons, LoadPlanned(c) \/ \E v \in Versions : LoadFromShelf(c, v)
  PROVE  PlanInv'
<1> USE DEF PlanInv
<1>1. CASE \E v \in Versions : LoadFromShelf(c, v)
  <2>1. PICK v \in Versions : LoadFromShelf(c, v)
    BY <1>1
  <2>2. /\ c \notin Held /\ Claims(c, v) /\ ClaimFor(c, v, "loading") /\ Loaded(PlanOf(v).truck)
        /\ UNCHANGED <<doors, crossed, astray>>
    BY <2>1 DEF LoadFromShelf
  <2>3. PlanOf(v).truck \in Trucks /\ LoadingTruck(PlanOf(v).truck)
    BY <2>2, OwesItsTruck DEF Claims
  <2> QED BY <2>2, <2>3, LoadedKeeps, ClaimKeeps
<1>2. CASE LoadPlanned(c)
  <2>1. /\ at[c] = "planned" /\ LoadingTruck(ride[c]) /\ Loaded(ride[c])
        /\ at' = [at EXCEPT ![c] = "loading"]
        /\ UNCHANGED <<ride, ever, line, doors, crossed, astray>>
    BY <1>2 DEF LoadPlanned
  <2>2. ride[c] \in Trucks
    BY <2>1 DEF TypeOK, Reserved
  <2>3. /\ PlansKept /\ \A x \in Trucks : LoadingTruck(x)' <=> LoadingTruck(x)
        /\ plan' \in [Plans -> PlanRow] /\ PlanFollowsTruck'
        /\ truck' \in [Trucks -> {"none", "forming", "loading", "left", "cancelled"}]
    BY <2>1, <2>2, LoadedKeeps
  <2>4. TypeOK'
    BY <2>1, <2>3 DEF TypeOK
  <2>5. CargoStep
    <3>1. Held \subseteq OnShelf'
      BY <2>1 DEF DoorsFit, DoorFits, Held, OnShelf, TypeOK
    <3> QED BY <2>1, <2>3, <3>1 DEF CargoStep, LinesKept, TypeOK, Line
  <2>6. Reserved'
    BY <2>1 DEF Reserved, TypeOK
  <2>7. PromiseAccounted'
    BY <2>1 DEF PromiseAccounted
  <2>8. ShelfTaken' /\ LandedIsClaimed'
    <3>1. \A x \in Cartons : at'[x] = "shelf" => at[x] = "shelf"
      BY <2>1 DEF TypeOK
    <3> QED BY <2>1, <2>4, <2>5, <3>1, ShelfFrame
  <2>9. DoorsFit' /\ DoorsApart' /\ VersionsFit' /\ PlansFit'
    BY <2>4, <2>5, CargoFrame
  <2> QED BY <2>3, <2>4, <2>6, <2>7, <2>8, <2>9
<1> QED BY <1>1, <1>2

\* What a truck owed is missed, and every account still balances.
LEMMA OwedClosed ==
  ASSUME PlanInv, NEW t \in Trucks, CloseOwed(t), UNCHANGED <<ever, crossed>>
  PROVE  /\ line' \in [Versions -> Line]
         /\ \A v \in Versions :
              line'[v].owed + line'[v].missed <= line'[v].part /\ line'[v].part <= line'[v].n
         /\ LinesKept /\ PromiseAccounted'
<1>1. \A v \in Versions :
        \/ line'[v] = line[v]
        \/ /\ line[v].verdict = "approved"
           /\ line'[v] = [line[v] EXCEPT !.missed = line[v].missed + line[v].owed, !.owed = 0]
  BY DEF CloseOwed
<1>2. /\ Size \in Nat
      /\ \A v \in Versions : /\ line[v] \in Line
                             /\ line[v].owed + line[v].missed <= line[v].part
                             /\ line[v].part <= line[v].n
  BY Sized DEF PlanInv, TypeOK
<1>3. ASSUME NEW v \in Versions
      PROVE  /\ line'[v] \in Line
             /\ line'[v].owed + line'[v].missed = line[v].owed + line[v].missed
             /\ line'[v].owed <= line[v].owed
             /\ line'[v].n = line[v].n /\ line'[v].part = line[v].part /\ line'[v].verdict = line[v].verdict
             /\ line[v].verdict # "approved" => line'[v] = line[v]
  <2>1. CASE line'[v] = line[v]
    BY <1>2, <2>1 DEF Line
  <2>2. CASE /\ line[v].verdict = "approved"
             /\ line'[v] = [line[v] EXCEPT !.missed = line[v].missed + line[v].owed, !.owed = 0]
    <3> DEFINE sum == line[v].missed + line[v].owed
    <3>1. sum \in 0..Size /\ 0 \in 0..Size /\ line[v] \in Line
      BY <1>2 DEF Line
    <3>2. /\ line'[v].missed = line[v].missed + line[v].owed /\ line'[v].owed = 0
          /\ line'[v].n = line[v].n /\ line'[v].part = line[v].part /\ line'[v].verdict = line[v].verdict
      BY <1>2, <2>2 DEF Line
    <3>3. line'[v] = [line[v] EXCEPT !.missed = sum, !.owed = 0]
      BY <2>2
    <3> HIDE DEF sum
    <3>4. line'[v] \in Line
      BY <3>1, <3>3 DEF Line
    <3> QED BY <1>2, <2>2, <3>2, <3>4 DEF Line, sum
  <2> QED BY <1>1, <2>1, <2>2
<1>4. line' \in [Versions -> Line]
  BY <1>3 DEF CloseOwed
<1>5. \A v \in Versions :
        line'[v].owed + line'[v].missed <= line'[v].part /\ line'[v].part <= line'[v].n
  BY <1>2, <1>3
<1>6. LinesKept
  BY <1>3 DEF LinesKept
<1>7. PromiseAccounted'
  <2> SUFFICES ASSUME NEW v \in Versions, v[1] \notin crossed, line'[v].verdict = "approved"
               PROVE  Cardinality({x \in Cartons : v \in ever[x]}) + line'[v].owed + line'[v].missed
                        = line'[v].n
    BY DEF PromiseAccounted
  <2>1. Cardinality({x \in Cartons : v \in ever[x]}) + line[v].owed + line[v].missed = line[v].n
    BY <1>3 DEF PlanInv, PromiseAccounted
  <2>2. Cardinality({x \in Cartons : v \in ever[x]}) \in Nat /\ line[v] \in Line /\ line'[v] \in Line
    BY Sized, <1>2, <1>3
  <2> QED BY <1>2, <1>3, <2>1, <2>2 DEF Line
<1> QED BY <1>4, <1>5, <1>6, <1>7

\* A truck leaves or is cancelled, and the plans that point at it end with it.
LEMMA TruckEnds ==
  ASSUME PlanInv, NEW t \in Trucks, LoadingTruck(t), UNCHANGED crossed,
         NEW end \in {"left", "cancelled"}, NEW status \in {"completed", "cancelled"},
         truck' = [truck EXCEPT ![t] = end],
         plan' = [p \in Plans |->
           IF plan[p].truck = t THEN [plan[p] EXCEPT !.status = status] ELSE plan[p]]
  PROVE  /\ PlansKept /\ \A x \in Trucks : LoadingTruck(x)' => LoadingTruck(x)
         /\ plan' \in [Plans -> PlanRow]
         /\ truck' \in [Trucks -> {"none", "forming", "loading", "left", "cancelled"}]
         /\ PlanFollowsTruck'
<1> USE DEF PlanInv
<1>1. \A x \in Trucks : LoadingTruck(x)' <=> x # t /\ LoadingTruck(x)
  <2>1. \A x \in Trucks : truck'[x] = IF x = t THEN end ELSE truck[x]
    BY DEF TypeOK
  <2> QED BY <2>1 DEF LoadingTruck
<1>2. \A p \in Plans : plan'[p] = IF plan[p].truck = t THEN [plan[p] EXCEPT !.status = status] ELSE plan[p]
  OBVIOUS
<1>3. \A p \in Plans : plan[p] \in PlanRow
  BY DEF TypeOK
<1>4. \A p \in Plans : plan'[p] \in PlanRow
  BY <1>2, <1>3 DEF PlanRow
<1>5. plan' \in [Plans -> PlanRow]
  BY <1>4
<1>6. PlansKept
  BY <1>2, <1>3, TrucksNamed DEF PlansKept, PlanRow
<1>7. truck' \in [Trucks -> {"none", "forming", "loading", "left", "cancelled"}]
  BY DEF TypeOK
<1>8. PlanFollowsTruck'
  <2> SUFFICES ASSUME NEW p \in Plans, p \notin crossed
               PROVE  {x \in Trucks : x[1] = p /\ LoadingTruck(x)'}
                        = IF plan'[p].status \in {"approved", "loading"} THEN {plan'[p].truck} ELSE {}
    BY DEF PlanFollowsTruck
  <2>1. {x \in Trucks : x[1] = p /\ LoadingTruck(x)}
          = IF plan[p].status \in {"approved", "loading"} THEN {plan[p].truck} ELSE {}
    BY DEF PlanFollowsTruck
  <2>2. CASE plan[p].truck = t
    <3>1. plan'[p].status = status
      BY <1>2, <1>3, <2>2 DEF PlanRow
    <3>2. \A x \in Trucks : x[1] = p /\ LoadingTruck(x) => x = t
      BY <2>1, <2>2
    <3> QED BY <1>1, <3>1, <3>2
  <2>3. CASE plan[p].truck # t
    <3>1. plan'[p] = plan[p]
      BY <1>2, <2>3
    <3>2. ~(t[1] = p /\ LoadingTruck(t))
      BY <2>1, <2>3
    <3>3. {x \in Trucks : x[1] = p /\ LoadingTruck(x)'} = {x \in Trucks : x[1] = p /\ LoadingTruck(x)}
      BY <1>1, <3>2
    <3> QED BY <2>1, <3>1, <3>3
  <2> QED BY <2>2, <2>3
<1> QED BY <1>1, <1>5, <1>6, <1>7, <1>8

\* Cartons set aside or loaded go back to the shelf.
LEMMA GivenBack ==
  ASSUME PlanInv, NEW S \in SUBSET Cartons, \A c \in S : at[c] \in {"planned", "loading"},
         GiveBack(S), UNCHANGED ever
  PROVE  /\ at' \in [Cartons -> {"road", "landing", "hooked", "shelf", "planned", "loading", "left", "lost"}]
         /\ ride' \in [Cartons -> Trucks \cup {None}]
         /\ Reserved' /\ Held \subseteq OnShelf'
         /\ \A x \in Cartons : at'[x] = "shelf" /\ ever'[x] = {} => at[x] = "shelf"
<1> USE DEF PlanInv
<1>1. /\ at' \in [Cartons -> {"road", "landing", "hooked", "shelf", "planned", "loading", "left", "lost"}]
      /\ ride' \in [Cartons -> Trucks \cup {None}]
  BY DEF GiveBack, TypeOK
<1>2. \A x \in Cartons : /\ x \in S => at'[x] = "shelf"
                         /\ x \notin S => at'[x] = at[x] /\ ride'[x] = ride[x]
  BY DEF GiveBack
<1>3. Reserved'
  BY <1>2 DEF Reserved
<1>4. Held \subseteq OnShelf'
  BY <1>2 DEF DoorsFit, DoorFits, Held, OnShelf
<1>5. \A x \in Cartons : at'[x] = "shelf" /\ ever'[x] = {} => at[x] = "shelf"
  BY <1>2 DEF Reserved
<1> QED BY <1>1, <1>3, <1>4, <1>5

\* A scanned carton is taken off a truck, a loading is finished, a truck leaves or
\* is cancelled.
LEMMA TruckSteps ==
  ASSUME PlanInv,
         \/ \E c \in Cartons : RemoveLoaded(c)
         \/ \E t \in Trucks : FinishLoading(t) \/ Depart(t) \/ CancelTruck(t)
  PROVE  PlanInv'
<1> USE DEF PlanInv
<1> SUFFICES
      /\ TypeOK' /\ Reserved' /\ PlanFollowsTruck' /\ PromiseAccounted' /\ CargoStep
      /\ astray' = astray
      /\ \A x \in Cartons : at'[x] = "shelf" /\ ever'[x] = {} => at[x] = "shelf"
  BY CargoFrame, ShelfFrame
<1>1. CASE \E c \in Cartons : RemoveLoaded(c)
  <2>1. PICK c \in Cartons : RemoveLoaded(c)
    BY <1>1
  <2>2. /\ at[c] = "loading" /\ GiveBack({c})
        /\ UNCHANGED <<ever, plan, line, truck, doors, crossed, astray>>
    BY <2>1 DEF RemoveLoaded
  <2>3. /\ at' \in [Cartons -> {"road", "landing", "hooked", "shelf", "planned", "loading", "left", "lost"}]
        /\ ride' \in [Cartons -> Trucks \cup {None}]
        /\ Reserved' /\ Held \subseteq OnShelf'
        /\ \A x \in Cartons : at'[x] = "shelf" /\ ever'[x] = {} => at[x] = "shelf"
    BY <2>2, GivenBack
  <2>4. TypeOK'
    BY <2>2, <2>3 DEF TypeOK
  <2>5. CargoStep
    BY <2>2, <2>3 DEF CargoStep, LinesKept, PlansKept, LoadingTruck, TypeOK, Line
  <2>6. PlanFollowsTruck' /\ PromiseAccounted'
    BY <2>2 DEF PlanFollowsTruck, LoadingTruck, PromiseAccounted
  <2> QED BY <2>2, <2>3, <2>4, <2>5, <2>6
<1>2. CASE \E t \in Trucks : FinishLoading(t)
  <2>1. PICK t \in Trucks : FinishLoading(t)
    BY <1>2
  <2>2. /\ CloseOwed(t) /\ GiveBack(Riding(t, {"planned"}))
        /\ UNCHANGED <<ever, plan, truck, doors, crossed, astray>>
    BY <2>1 DEF FinishLoading
  <2>3. /\ at' \in [Cartons -> {"road", "landing", "hooked", "shelf", "planned", "loading", "left", "lost"}]
        /\ ride' \in [Cartons -> Trucks \cup {None}]
        /\ Reserved' /\ Held \subseteq OnShelf'
        /\ \A x \in Cartons : at'[x] = "shelf" /\ ever'[x] = {} => at[x] = "shelf"
    <3>1. /\ Riding(t, {"planned"}) \in SUBSET Cartons
          /\ \A c \in Riding(t, {"planned"}) : at[c] \in {"planned", "loading"}
      BY DEF Riding
    <3> QED BY <2>2, <3>1, GivenBack
  <2>4. /\ line' \in [Versions -> Line]
        /\ \A v \in Versions :
             line'[v].owed + line'[v].missed <= line'[v].part /\ line'[v].part <= line'[v].n
        /\ LinesKept /\ PromiseAccounted'
    BY <2>2, OwedClosed
  <2>5. TypeOK'
    BY <2>2, <2>3, <2>4 DEF TypeOK
  <2>6. CargoStep
    BY <2>2, <2>3, <2>4 DEF CargoStep, PlansKept, LoadingTruck
  <2>7. PlanFollowsTruck'
    BY <2>2 DEF PlanFollowsTruck, LoadingTruck
  <2> QED BY <2>2, <2>3, <2>4, <2>5, <2>6, <2>7
<1>3. CASE \E t \in Trucks : CancelTruck(t)
  <2>1. PICK t \in Trucks : CancelTruck(t)
    BY <1>3
  <2>2. /\ LoadingTruck(t) /\ CloseOwed(t) /\ GiveBack(Riding(t, {"planned", "loading"}))
        /\ truck' = [truck EXCEPT ![t] = "cancelled"]
        /\ plan' = [p \in Plans |->
             IF plan[p].truck = t THEN [plan[p] EXCEPT !.status = "cancelled"] ELSE plan[p]]
        /\ UNCHANGED <<ever, doors, crossed, astray>>
    BY <2>1 DEF CancelTruck
  <2>3. /\ at' \in [Cartons -> {"road", "landing", "hooked", "shelf", "planned", "loading", "left", "lost"}]
        /\ ride' \in [Cartons -> Trucks \cup {None}]
        /\ Reserved' /\ Held \subseteq OnShelf'
        /\ \A x \in Cartons : at'[x] = "shelf" /\ ever'[x] = {} => at[x] = "shelf"
    <3>1. /\ Riding(t, {"planned", "loading"}) \in SUBSET Cartons
          /\ \A c \in Riding(t, {"planned", "loading"}) : at[c] \in {"planned", "loading"}
      BY DEF Riding
    <3> QED BY <2>2, <3>1, GivenBack
  <2>4. /\ line' \in [Versions -> Line]
        /\ \A v \in Versions :
             line'[v].owed + line'[v].missed <= line'[v].part /\ line'[v].part <= line'[v].n
        /\ LinesKept /\ PromiseAccounted'
    BY <2>2, OwedClosed
  <2>5. /\ PlansKept /\ \A x \in Trucks : LoadingTruck(x)' => LoadingTruck(x)
        /\ plan' \in [Plans -> PlanRow]
        /\ truck' \in [Trucks -> {"none", "forming", "loading", "left", "cancelled"}]
        /\ PlanFollowsTruck'
    BY <2>2, TruckEnds
  <2>6. TypeOK'
    BY <2>2, <2>3, <2>4, <2>5 DEF TypeOK
  <2>7. CargoStep
    BY <2>2, <2>3, <2>4, <2>5 DEF CargoStep
  <2> QED BY <2>2, <2>3, <2>4, <2>5, <2>6, <2>7
<1>4. CASE \E t \in Trucks : Depart(t)
  <2>1. PICK t \in Trucks : Depart(t)
    BY <1>4
  <2>2. /\ LoadingTruck(t)
        /\ at' = [c \in Cartons |-> IF c \in Riding(t, {"loading"}) THEN "left" ELSE at[c]]
        /\ truck' = [truck EXCEPT ![t] = "left"]
        /\ plan' = [p \in Plans |->
             IF plan[p].truck = t THEN [plan[p] EXCEPT !.status = "completed"] ELSE plan[p]]
        /\ UNCHANGED <<ride, ever, line, doors, crossed, astray>>
    BY <2>1 DEF Depart
  <2>3. \A c \in Cartons : at'[c] = at[c] \/ (at[c] = "loading" /\ at'[c] = "left")
    BY <2>2 DEF Riding
  <2>4. /\ PlansKept /\ \A x \in Trucks : LoadingTruck(x)' => LoadingTruck(x)
        /\ plan' \in [Plans -> PlanRow]
        /\ truck' \in [Trucks -> {"none", "forming", "loading", "left", "cancelled"}]
        /\ PlanFollowsTruck'
    BY <2>2, TruckEnds
  <2>5. TypeOK'
    <3>1. at' \in [Cartons -> {"road", "landing", "hooked", "shelf", "planned", "loading", "left", "lost"}]
      BY <2>2 DEF TypeOK
    <3> QED BY <2>2, <2>4, <3>1 DEF TypeOK
  <2>6. CargoStep
    <3>1. Held \subseteq OnShelf'
      BY <2>3 DEF DoorsFit, DoorFits, Held, OnShelf
    <3> QED BY <2>2, <2>4, <3>1 DEF CargoStep, LinesKept, TypeOK, Line
  <2>7. Reserved' /\ PromiseAccounted'
    BY <2>2, <2>3 DEF Reserved, PromiseAccounted
  <2> QED BY <2>2, <2>3, <2>4, <2>5, <2>6, <2>7
<1> QED BY <1>1, <1>2, <1>3, <1>4

-----------------------------------------------------------------------------
(* Doors that read, and doors that find that they may not.                  *)

\* A step of the doors alone keeps whatever speaks of plans, lines and trucks.
LEMMA DoorsAlone ==
  ASSUME PlanInv, UNCHANGED <<cartonVars, plan, line, truck, crossed, astray>>,
         doors' \subseteq Door, DoorsFit', DoorsApart', ShelfTaken', Held \subseteq Held'
  PROVE  PlanInv'
<1> USE DEF PlanInv, cartonVars
<1>1. TypeOK'
  BY DEF TypeOK
<1>2. VersionsFit' /\ PlansFit' /\ Reserved'
  BY DEF VersionsFit, VersionFits, PlansFit, PlanFits, Reserved
<1>3. PlanFollowsTruck' /\ PromiseAccounted'
  BY DEF PlanFollowsTruck, LoadingTruck, PromiseAccounted
<1>4. LandedIsClaimed'
  <2>1. \A v \in Versions : Owes(v)' <=> Owes(v)
    BY DEF Owes, PlanOf, Current, LoadingTruck
  <2> QED BY <2>1 DEF LandedIsClaimed, OnShelf
<1> QED BY <1>1, <1>2, <1>3, <1>4

\* A door enters with what it read, or leaves with nothing in its hands.
LEMMA EntersOrLeaves ==
  ASSUME PlanInv, UNCHANGED <<cartonVars, plan, line, truck, crossed, astray>>,
         NEW d \in Door, d.door # "approving", DoorFits(d),
         doors' = doors \cup {d} \/ doors' = doors \ {d}
  PROVE  PlanInv'
<1> USE DEF PlanInv, cartonVars
<1>1. d.held = {} /\ \A e \in doors' : e = d \/ e \in doors
  BY DEF DoorFits
<1>2. doors' \subseteq Door
  BY <1>1 DEF TypeOK
<1>3. Held' = Held
  <2>1. \A x \in doors \cup doors' : x.held # {} => x \in doors /\ x \in doors'
    BY <1>1
  <2> QED BY <2>1 DEF Held
<1>4. DoorsFit'
  BY <1>1 DEF DoorsFit, DoorFits, OnShelf
<1>5. DoorsApart'
  BY <1>1 DEF DoorsApart
<1>6. ShelfTaken'
  BY <1>1, <1>3 DEF ShelfTaken, OnShelf
<1> QED BY <1>2, <1>3, <1>4, <1>5, <1>6, DoorsAlone

\* The doors that read.
LEMMA Reads ==
  ASSUME PlanInv,
         \/ \E p \in Plans : (\E n \in 1..Size : ReadToResubmit(p, n)) \/ ReadToCancel(p)
         \/ \E v \in Versions, say \in {"approve", "send_back"} : ReadForVerdict(v, say)
  PROVE  PlanInv'
<1> USE DEF PlanInv
<1>0. Size \in Nat /\ {} \in SUBSET Cartons /\ {} \subseteq OnShelf
  BY Sized
<1>1. CASE \E p \in Plans, n \in 1..Size : ReadToResubmit(p, n)
  <2>1. PICK p \in Plans, n \in 1..Size : ReadToResubmit(p, n)
    BY <1>1
  <2> DEFINE d == [door |-> "submit", of |-> <<p, plan[p].no + 1>>, seen |-> plan[p],
                   n |-> n, part |-> RoadPart(n), held |-> {}]
  <2>2. /\ plan[p] \in PlanRow /\ plan[p].no < MaxVersions /\ MaxVersions \in Nat
        /\ plan[p].status \in {"pending_agent", "changes_requested"}
    BY <2>1, PlanAssumption DEF ReadToResubmit, TypeOK
  <2>3. RoadPart(n) \in 0..Size /\ RoadPart(n) <= n
    <3>1. Cardinality(OnShelf) \in 0..Size
      BY Sized DEF OnShelf
    <3> QED BY <1>0, <3>1 DEF RoadPart
  <2>4. <<p, plan[p].no + 1>> \in Versions
    BY <2>2 DEF PlanRow, Versions
  <2>5. d \in Door
    BY <1>0, <2>2, <2>3, <2>4 DEF Door
  <2>6. DoorFits(d)
    BY <1>0, <2>2, <2>3 DEF DoorFits
  <2>7. /\ doors' = doors \cup {d} /\ d.door # "approving"
        /\ UNCHANGED <<cartonVars, plan, line, truck, crossed, astray>>
    BY <2>1 DEF ReadToResubmit, Enter
  <2> HIDE DEF d
  <2> QED BY <2>5, <2>6, <2>7, EntersOrLeaves
<1>2. CASE \E p \in Plans : ReadToCancel(p)
  <2>1. PICK p \in Plans : ReadToCancel(p)
    BY <1>2
  <2> DEFINE d == [door |-> "cancel", of |-> <<p, plan[p].no>>, seen |-> plan[p], n |-> 0, part |-> 0,
                   held |-> {}]
  <2>2. /\ plan[p] \in PlanRow /\ PlanFits(p)
        /\ plan[p].status \in {"pending_agent", "changes_requested"}
    BY <2>1 DEF ReadToCancel, TypeOK, PlansFit
  <2>3. <<p, plan[p].no>> \in Versions
    BY <2>2 DEF PlanRow, PlanFits, Versions
  <2>4. d \in Door
    BY <1>0, <2>2, <2>3 DEF Door
  <2>5. DoorFits(d)
    BY <1>0, <2>2 DEF DoorFits
  <2>6. /\ doors' = doors \cup {d} /\ d.door # "approving"
        /\ UNCHANGED <<cartonVars, plan, line, truck, crossed, astray>>
    BY <2>1 DEF ReadToCancel, Enter
  <2> HIDE DEF d
  <2> QED BY <2>4, <2>5, <2>6, EntersOrLeaves
<1>3. CASE \E v \in Versions, say \in {"approve", "send_back"} : ReadForVerdict(v, say)
  <2>1. PICK v \in Versions, say \in {"approve", "send_back"} : ReadForVerdict(v, say)
    BY <1>3
  <2> DEFINE d == [door |-> say, of |-> v, seen |-> PlanOf(v), n |-> line[v].n, part |-> line[v].part,
                   held |-> {}]
  <2>2. /\ v = <<v[1], v[2]>> /\ v[1] \in Plans
        /\ plan[v[1]].status = "pending_agent" /\ plan[v[1]].no = v[2]
    BY <2>1 DEF ReadForVerdict, PlanOf, Current, Versions
  <2>3. plan[v[1]] \in PlanRow /\ line[v] \in Line /\ PlanFits(v[1])
    BY <2>2 DEF TypeOK, PlansFit
  <2>4. line[v].n > 0
    BY <2>2, <2>3 DEF PlanFits
  <2>5. d \in Door
    BY <1>0, <2>3 DEF Door, PlanOf, Line
  <2>6. DoorFits(d)
    BY <1>0, <2>2, <2>4 DEF DoorFits, PlanOf
  <2>7. /\ doors' = doors \cup {d} /\ d.door # "approving"
        /\ UNCHANGED <<cartonVars, plan, line, truck, crossed, astray>>
    BY <2>1 DEF ReadForVerdict, Judging, Enter
  <2> HIDE DEF d
  <2> QED BY <2>5, <2>6, <2>7, EntersOrLeaves
<1> QED BY <1>1, <1>2, <1>3

\* A door that has nothing in its hands is turned away.
LEMMA Aborts ==
  ASSUME PlanInv, NEW d \in doors, d.door # "approving", Abort(d)
  PROVE  PlanInv'
<1>1. d \in Door /\ DoorFits(d)
  BY DEF PlanInv, TypeOK, DoorsFit
<1>2. doors' = doors \ {d} /\ UNCHANGED <<cartonVars, plan, line, truck, crossed, astray>>
  BY DEF Abort
<1> QED BY <1>1, <1>2, EntersOrLeaves

\* An approval reads the cartons and takes what it needs of the shelf.
LEMMA Approves ==
  ASSUME PlanInv, NEW d \in doors, NEW take \in SUBSET Cartons, Approve(d, take)
  PROVE  PlanInv'
<1> USE DEF PlanInv
<1> DEFINE enough == ShelfPart(d, take) /\ RoadHas(d, take)
           avail  == OnShelf \ Held
           e      == [d EXCEPT !.door = "approving", !.held = take]
<1>1. /\ d.door = "approve" /\ Claimable(d) /\ take \subseteq avail
      /\ Cardinality(take) = IF d.n < Cardinality(avail) THEN d.n ELSE Cardinality(avail)
      /\ IF enough THEN /\ doors' = (doors \ {d}) \cup {e}
                        /\ UNCHANGED <<cartonVars, plan, line, truck, crossed, astray>>
                   ELSE Abort(d)
  BY DEF Approve, Approving
<1>2. CASE ~enough
  BY <1>1, <1>2, Aborts
<1>3. CASE enough
  <2>1. d \in Door /\ DoorFits(d)
    BY DEF TypeOK, DoorsFit
  <2>2. /\ e \in Door /\ e.door = "approving" /\ e.held = take
        /\ e.of = d.of /\ e.seen = d.seen /\ e.n = d.n /\ e.part = d.part
    BY <2>1 DEF Door
  <2>3. /\ d.n \in 0..Size /\ Size \in Nat /\ d.part \in 0..Size
        /\ Cardinality(take) \in Nat /\ Cardinality(avail) \in Nat /\ avail \in SUBSET Cartons
    BY <2>1, Sized DEF Door, OnShelf
  <2>4. /\ doors' = (doors \ {d}) \cup {e}
        /\ UNCHANGED <<cartonVars, plan, line, truck, crossed, astray>>
        /\ ShelfPart(d, take)
    BY <1>1, <1>3
  <2> HIDE DEF e, enough
  <2>5. doors' \subseteq Door
    BY <2>2, <2>4 DEF TypeOK
  <2>6. DoorFits(e)
    <3>1. Cardinality(take) <= d.n /\ d.n - d.part <= Cardinality(take)
      BY <1>1, <2>3, <2>4 DEF ShelfPart
    <3>2. take \subseteq OnShelf
      BY <1>1
    <3>3. line[d.of].verdict = "none"
      BY <1>1 DEF Claimable
    <3> QED BY <1>1, <2>1, <2>2, <3>1, <3>2, <3>3 DEF DoorFits
  <2>7. DoorsFit'
    BY <2>4, <2>6 DEF DoorsFit, DoorFits, OnShelf, cartonVars
  <2>8. DoorsApart'
    <3>1. \A x \in doors : x.door = "approving" => x.of # d.of
      BY <1>1 DEF Claimable
    <3>2. \A x \in doors : take \cap x.held = {}
      BY <1>1 DEF Held
    <3> QED BY <2>2, <2>4, <3>1, <3>2 DEF DoorsApart
  <2>9. Held' = Held \cup take
    <3>1. d.held = {}
      BY <1>1, <2>1 DEF DoorFits
    <3> QED BY <2>2, <2>4, <3>1 DEF Held
  <2>10. Cardinality(take) < d.n => take = avail
    <3>1. Cardinality(take) < d.n => Cardinality(take) = Cardinality(avail)
      BY <1>1, <2>3
    <3>2. IsFiniteSet(avail) /\ take \in SUBSET avail
      BY <1>1, <2>3, Sized
    <3>3. Cardinality(avail) = Cardinality(take) => avail = take
      BY <3>2, FS_Subset
    <3> QED BY <3>1, <3>3
  <2>11. ShelfTaken'
    <3> SUFFICES ASSUME NEW x \in doors', x.door = "approving", Cardinality(x.held) < x.n,
                        NEW c \in OnShelf, c \notin astray, c \notin Held \cup take
                 PROVE  ever[c] # {}
      BY <2>4, <2>9 DEF ShelfTaken, OnShelf, cartonVars
    <3>1. CASE x = e
      BY <2>2, <2>10, <3>1
    <3>2. CASE x \in doors
      BY <3>2 DEF ShelfTaken
    <3> QED BY <2>4, <3>1, <3>2
  <2> QED BY <2>4, <2>5, <2>7, <2>8, <2>9, <2>11, DoorsAlone
<1> QED BY <1>2, <1>3

-----------------------------------------------------------------------------
(* Doors that write.                                                        *)

\* A plan that a door wrote, and no other wrote since it read, was waiting then:
\* it had no truck, and no truck of it was being loaded.
LEMMA WaitingStill ==
  ASSUME PlanInv, NEW d \in doors, Leave(d)
  PROVE  /\ d \in Door /\ DoorFits(d) /\ d.of \in Versions /\ d.of[1] \in Plans
         /\ doors' = doors \ {d} /\ crossed' \subseteq Plans
         /\ crossed \subseteq crossed' /\ crossed' \subseteq crossed \cup {d.of[1]}
         /\ d.of[1] \notin crossed' =>
              /\ plan[d.of[1]] = d.seen /\ plan[d.of[1]].truck = None
              /\ \A v \in Versions : v[1] = d.of[1] => line[v].verdict # "approved"
              /\ \A t \in Trucks : t[1] = d.of[1] => ~LoadingTruck(t)
<1> USE DEF PlanInv
<1>1. d \in Door /\ DoorFits(d) /\ d.of \in Versions /\ d.of[1] \in Plans
  BY DEF TypeOK, DoorsFit, Door, Versions
<1>2. /\ doors' = doors \ {d}
      /\ crossed' = IF plan[d.of[1]] = d.seen THEN crossed ELSE crossed \cup {d.of[1]}
  BY DEF Leave, PlanOf
<1>3. crossed' \subseteq Plans /\ crossed \subseteq crossed' /\ crossed' \subseteq crossed \cup {d.of[1]}
  BY <1>1, <1>2 DEF TypeOK
<1>4. ASSUME d.of[1] \notin crossed'
      PROVE  /\ plan[d.of[1]] = d.seen /\ plan[d.of[1]].truck = None
             /\ \A v \in Versions : v[1] = d.of[1] => line[v].verdict # "approved"
             /\ \A t \in Trucks : t[1] = d.of[1] => ~LoadingTruck(t)
  <2>1. plan[d.of[1]] = d.seen /\ d.of[1] \notin crossed
    BY <1>2, <1>4
  <2>2. PlanFits(d.of[1]) /\ d.seen.status \in {"pending_agent", "changes_requested"}
    BY <1>1 DEF PlansFit, DoorFits
  <2>3. plan[d.of[1]].truck = None
    BY <2>1, <2>2 DEF PlanFits
  <2>4. \A v \in Versions : v[1] = d.of[1] => line[v].verdict # "approved"
    BY <2>1, <2>2, <2>3, TrucksNamed DEF PlanFits
  <2>5. {t \in Trucks : t[1] = d.of[1] /\ LoadingTruck(t)} = {}
    BY <1>1, <2>1, <2>2 DEF PlanFollowsTruck
  <2> QED BY <2>1, <2>3, <2>4, <2>5
<1> QED BY <1>1, <1>2, <1>3, <1>4

\* What a door that takes no carton leaves as it must be: it writes one row of
\* the plans, and at most the line it is about, and no truck is given.
WaitingStep(d) ==
  /\ d.door # "approving"
  /\ Leave(d)
  /\ UNCHANGED <<at, ride, ever, truck, astray>>
  /\ plan' \in [Plans -> PlanRow] /\ line' \in [Versions -> Line]
  /\ \A p \in Plans : p # d.of[1] => plan'[p] = plan[p]
  /\ \A v \in Versions : v # d.of => line'[v] = line[v]
  /\ plan'[d.of[1]].status \in {"pending_agent", "changes_requested", "cancelled"}
  /\ plan'[d.of[1]].truck = plan[d.of[1]].truck
  /\ plan'[d.of[1]].no > 0 /\ line'[<<d.of[1], plan'[d.of[1]].no>>].n > 0
  /\ \/ line'[d.of] = line[d.of]
     \/ /\ line[d.of].verdict = "none" /\ line'[d.of].verdict # "approved"
        /\ line'[d.of].owed = 0 /\ line'[d.of].missed = 0
        /\ line'[d.of].n > 0 /\ line'[d.of].part <= line'[d.of].n
        /\ \A e \in doors' : e.of = d.of =>
             e.door # "approving" /\ (line[d.of].n > 0 =>
               line'[d.of].n = line[d.of].n /\ line'[d.of].part = line[d.of].part)

LEMMA WaitingKeeps ==
  ASSUME PlanInv, NEW d \in doors, WaitingStep(d)
  PROVE  PlanInv'
<1> DEFINE p == d.of[1]
           v == d.of
<1> USE DEF PlanInv
<1>1. /\ d \in Door /\ DoorFits(d) /\ v \in Versions /\ p \in Plans
      /\ doors' = doors \ {d} /\ crossed' \subseteq Plans
      /\ crossed \subseteq crossed' /\ crossed' \subseteq crossed \cup {p}
      /\ p \notin crossed' =>
           /\ plan[p] = d.seen /\ plan[p].truck = None
           /\ \A w \in Versions : w[1] = p => line[w].verdict # "approved"
           /\ \A t \in Trucks : t[1] = p => ~LoadingTruck(t)
  BY WaitingStill DEF WaitingStep
<1>2. d.held = {} /\ Held' = Held
  <2>1. d.held = {}
    BY <1>1 DEF DoorFits, WaitingStep
  <2> QED BY <1>1, <2>1 DEF Held
<1>3. TypeOK'
  <2>1. \A w \in Versions :
          line'[w].owed + line'[w].missed <= line'[w].part /\ line'[w].part <= line'[w].n
    <3> SUFFICES ASSUME NEW w \in Versions
                 PROVE  line'[w].owed + line'[w].missed <= line'[w].part /\ line'[w].part <= line'[w].n
      OBVIOUS
    <3>1. CASE line'[w] = line[w]
      BY <3>1 DEF TypeOK
    <3>2. CASE line'[w] # line[w]
      <4>1. w = v /\ line'[w].owed = 0 /\ line'[w].missed = 0 /\ line'[w].part <= line'[w].n
        BY <3>2 DEF WaitingStep
      <4>2. line'[w].part \in Nat
        BY Sized DEF WaitingStep, Line
      <4> QED BY <4>1, <4>2
    <3> QED BY <3>1, <3>2
  <2> QED BY <1>1, <2>1 DEF TypeOK, WaitingStep
<1>4. \A w \in Versions : line'[w].verdict = "approved" <=> line[w].verdict = "approved"
  BY DEF WaitingStep
<1>5. \A w \in Versions : line[w].verdict = "approved" => line'[w] = line[w]
  BY DEF WaitingStep
<1>6. DoorsFit'
  <2> SUFFICES ASSUME NEW e \in doors, e # d, e \in doors' PROVE DoorFits(e)'
    BY <1>1 DEF DoorsFit
  <2>1. DoorFits(e) /\ e.of \in Versions /\ e.of[1] \in Plans
    BY DEF DoorsFit, TypeOK, Door, Versions
  <2>2. plan'[e.of[1]].status # "absent"
    BY <1>1, <2>1 DEF WaitingStep, DoorFits
  <2>3. OnShelf' = OnShelf
    BY DEF OnShelf, WaitingStep
  <2>4. CASE line'[e.of] = line[e.of]
    BY <2>1, <2>2, <2>3, <2>4 DEF DoorFits
  <2>5. CASE line'[e.of] # line[e.of]
    <3>1. e.of = v /\ e.door # "approving"
      BY <2>1, <2>5 DEF WaitingStep
    <3>2. line[v].n > 0 => line'[v].n = line[v].n /\ line'[v].part = line[v].part
      BY <2>5, <3>1 DEF WaitingStep
    <3> QED BY <2>1, <2>2, <2>3, <3>1, <3>2 DEF DoorFits
  <2> QED BY <2>4, <2>5
<1>7. DoorsApart'
  BY <1>1 DEF DoorsApart
<1>8. VersionsFit'
  <2> SUFFICES ASSUME NEW w \in Versions PROVE VersionFits(w)'
    BY DEF VersionsFit
  <2>1. VersionFits(w)
    BY DEF VersionsFit
  <2>2. CASE line'[w] = line[w]
    BY <2>1, <2>2 DEF VersionFits, WaitingStep
  <2>3. CASE line'[w] # line[w]
    <3>1. /\ line[w].verdict = "none" /\ line'[w].owed = 0 /\ line'[w].missed = 0
          /\ line'[w].n > 0 /\ w = v
      BY <2>3 DEF WaitingStep
    <3>2. line'[w].n # 0
      BY <3>1
    <3> QED BY <2>1, <3>1, <3>2 DEF VersionFits, WaitingStep
  <2> QED BY <2>2, <2>3
<1>9. PlansFit'
  <2> SUFFICES ASSUME NEW q \in Plans PROVE PlanFits(q)'
    BY DEF PlansFit
  <2>1. PlanFits(q) /\ plan[q] \in PlanRow
    BY DEF PlansFit, TypeOK
  <2>2. plan[q].truck # None => plan[q].truck \in Versions
    BY <2>1 DEF PlanRow, Trucks
  <2>3. CASE q = p
    <3>1. plan'[q].status # "absent" /\ plan'[q].no > 0 /\ line'[<<q, plan'[q].no>>].n > 0
      BY <2>3 DEF WaitingStep
    <3>2. plan'[q].truck # None => plan'[q].truck[1] = q /\ line'[plan'[q].truck].verdict = "approved"
      BY <1>4, <2>1, <2>2, <2>3 DEF PlanFits, WaitingStep
    <3>3. q \notin crossed' => /\ plan'[q].truck = None
                               /\ \A w \in Versions : w[1] = q => line'[w].verdict # "approved"
      BY <1>1, <1>4, <2>3 DEF WaitingStep
    <3> QED BY <3>1, <3>2, <3>3 DEF PlanFits
  <2>4. CASE q # p
    <3>1. plan'[q] = plan[q] /\ (q \notin crossed' => q \notin crossed)
      BY <1>1, <2>4 DEF WaitingStep
    <3>2. \A w \in Versions : w[1] = q => line'[w] = line[w]
      BY <2>4 DEF WaitingStep
    <3>3. plan[q].status # "absent" => <<q, plan[q].no>> \in Versions
      BY <2>1 DEF PlanFits, PlanRow, Versions
    <3> QED BY <2>1, <2>2, <3>1, <3>2, <3>3 DEF PlanFits
  <2> QED BY <2>3, <2>4
<1>10. Reserved'
  BY DEF Reserved, WaitingStep
<1>11. PlanFollowsTruck'
  <2> SUFFICES ASSUME NEW q \in Plans, q \notin crossed'
               PROVE  {t \in Trucks : t[1] = q /\ LoadingTruck(t)}
                        = IF plan'[q].status \in {"approved", "loading"} THEN {plan'[q].truck} ELSE {}
    BY DEF PlanFollowsTruck, LoadingTruck, WaitingStep
  <2>1. CASE q = p
    BY <1>1, <2>1 DEF WaitingStep
  <2>2. CASE q # p
    BY <1>1, <2>2 DEF WaitingStep, PlanFollowsTruck
  <2> QED BY <2>1, <2>2
<1>12. PromiseAccounted'
  BY <1>1, <1>4, <1>5 DEF PromiseAccounted, WaitingStep
<1>13. \A w \in Versions : Owes(w)' => Owes(w)
  <2> SUFFICES ASSUME NEW w \in Versions, Owes(w)' PROVE Owes(w)
    OBVIOUS
  <2>1. /\ line'[w].owed > 0 /\ line'[w].verdict = "approved"
        /\ plan'[w[1]].no = w[2] /\ plan'[w[1]].status \in {"approved", "loading"}
        /\ plan'[w[1]].truck # None /\ truck'[plan'[w[1]].truck] \in {"forming", "loading"}
    BY DEF Owes, Current, PlanOf, LoadingTruck
  <2>2. w[1] # p /\ w[1] \in Plans
    BY <2>1 DEF WaitingStep, Versions
  <2>3. plan'[w[1]] = plan[w[1]] /\ line'[w] = line[w] /\ truck' = truck
    BY <1>5, <1>4, <2>1, <2>2 DEF WaitingStep
  <2> QED BY <2>1, <2>3 DEF Owes, Current, PlanOf, LoadingTruck
<1>14. LandedIsClaimed'
  BY <1>1, <1>2, <1>13 DEF LandedIsClaimed, OnShelf, WaitingStep
<1>15. ShelfTaken'
  BY <1>1, <1>2 DEF ShelfTaken, OnShelf, WaitingStep
<1> QED BY <1>3, <1>6, <1>7, <1>8, <1>9, <1>10, <1>11, <1>12, <1>14, <1>15

\* A version is sent in again, sent back, or its plan cancelled.
LEMMA Waits ==
  ASSUME PlanInv, NEW d \in doors, Resubmit(d) \/ SendBack(d) \/ CancelPlan(d)
  PROVE  PlanInv'
<1> DEFINE p == d.of[1]
<1> USE DEF PlanInv
<1>1. /\ d \in Door /\ DoorFits(d) /\ d.of \in Versions /\ p \in Plans
      /\ plan[p] \in PlanRow /\ PlanFits(p) /\ VersionFits(d.of)
      /\ line[d.of] \in Line /\ line[d.of].part <= line[d.of].n
  BY DEF TypeOK, DoorsFit, PlansFit, VersionsFit, Door, Versions
<1>2. plan[p].status # "absent" /\ plan[p].no > 0 /\ <<p, plan[p].no>> \in Versions
      /\ line[<<p, plan[p].no>>].n > 0
  BY <1>1 DEF DoorFits, PlanFits, PlanRow, Versions
<1>3. CASE Resubmit(d) /\ line[d.of].n > 0
  <2>1. d.door # "approving" /\ Abort(d)
    BY <1>3 DEF Resubmit
  <2> QED BY <2>1, Aborts
<1>4. CASE Resubmit(d) /\ ~(line[d.of].n > 0)
  <2>1. /\ d.door = "submit" /\ Leave(d) /\ UNCHANGED <<at, ride, ever, truck, astray>>
        /\ plan' = [plan EXCEPT ![p] = [@ EXCEPT !.status = "pending_agent", !.no = d.of[2]]]
        /\ line' = [line EXCEPT ![d.of] = NewLine(d.n, d.part)]
    BY <1>4 DEF Resubmit, cartonVars
  <2>2. line[d.of].n = 0
    BY <1>1, <1>4, Sized DEF Line
  <2>3. d.of[2] \in 1..MaxVersions /\ MaxVersions \in Nat /\ d.of = <<p, d.of[2]>>
    BY <1>1, PlanAssumption DEF Versions
  <2>4. d.n > 0 /\ d.part <= d.n /\ d.n \in 0..Size /\ d.part \in 0..Size /\ Size \in Nat
    BY <1>1, <2>1, Sized DEF DoorFits, Door
  <2> DEFINE row == [plan[p] EXCEPT !.status = "pending_agent", !.no = d.of[2]]
  <2> DEFINE k == d.of[2]
  <2>5. row \in PlanRow /\ row.status = "pending_agent" /\ row.no = d.of[2] /\ row.truck = plan[p].truck
    <3>1. k \in 0..MaxVersions /\ plan[p] \in PlanRow /\ row = [plan[p] EXCEPT !.status = "pending_agent", !.no = k]
      BY <1>1, <2>3
    <3> HIDE DEF k, row, p
    <3>2. row \in PlanRow /\ row.status = "pending_agent" /\ row.no = k /\ row.truck = plan[p].truck
      BY <3>1 DEF PlanRow
    <3> QED BY <3>2 DEF k
  <2>6. plan' = [plan EXCEPT ![p] = row]
    BY <2>1
  <2> HIDE DEF row
  <2>7. plan' \in [Plans -> PlanRow] /\ plan'[p] = row /\ \A q \in Plans : q # p => plan'[q] = plan[q]
    BY <1>1, <2>5, <2>6 DEF TypeOK
  <2> DEFINE l == NewLine(d.n, d.part)
  <2>8. l \in Line /\ l.n = d.n /\ l.part = d.part /\ l.owed = 0 /\ l.missed = 0 /\ l.verdict = "none"
    BY <2>4 DEF NewLine, Line
  <2>9. line' = [line EXCEPT ![d.of] = l]
    BY <2>1
  <2> HIDE DEF l
  <2>10. line' \in [Versions -> Line] /\ line'[d.of] = l /\ \A v \in Versions : v # d.of => line'[v] = line[v]
    BY <1>1, <2>8, <2>9 DEF TypeOK
  <2>11. plan'[p].no > 0 /\ line'[<<p, plan'[p].no>>].n > 0
    BY <2>3, <2>4, <2>5, <2>7, <2>8, <2>10
  <2>12. \A e \in doors : e.of = d.of => e.door # "approving"
    BY <2>2 DEF DoorsFit, DoorFits
  <2>13. doors' \subseteq doors
    BY <2>1 DEF Leave
  <2>14. line[d.of].verdict = "none"
    BY <1>1, <2>2 DEF VersionFits
  <2>15. WaitingStep(d)
    BY <1>4, <2>1, <2>2, <2>4, <2>5, <2>7, <2>8, <2>10, <2>11, <2>12, <2>13, <2>14 DEF WaitingStep
  <2> QED BY <2>15, WaitingKeeps
<1>5. CASE SendBack(d)
  <2>1. /\ d.door = "send_back" /\ Claimable(d) /\ Leave(d) /\ UNCHANGED <<at, ride, ever, truck, astray>>
        /\ plan' = [plan EXCEPT ![p] = [plan[p] EXCEPT !.status = "changes_requested"]]
        /\ line' = [line EXCEPT ![d.of] = [line[d.of] EXCEPT !.verdict = "changes_requested"]]
    BY <1>5 DEF SendBack, cartonVars
  <2> DEFINE row == [plan[p] EXCEPT !.status = "changes_requested"]
             l   == [line[d.of] EXCEPT !.verdict = "changes_requested"]
  <2>2. /\ row \in PlanRow /\ row.status = "changes_requested" /\ row.no = plan[p].no
        /\ row.truck = plan[p].truck
    BY <1>1 DEF PlanRow
  <2>3. /\ l \in Line /\ l.n = line[d.of].n /\ l.part = line[d.of].part /\ l.owed = line[d.of].owed
        /\ l.missed = line[d.of].missed /\ l.verdict = "changes_requested"
    BY <1>1 DEF Line
  <2>4. plan' = [plan EXCEPT ![p] = row] /\ line' = [line EXCEPT ![d.of] = l]
    BY <2>1
  <2> HIDE DEF row, l
  <2>5. /\ plan' \in [Plans -> PlanRow] /\ plan'[p] = row /\ \A q \in Plans : q # p => plan'[q] = plan[q]
        /\ line' \in [Versions -> Line] /\ line'[d.of] = l /\ \A v \in Versions : v # d.of => line'[v] = line[v]
    BY <1>1, <2>2, <2>3, <2>4 DEF TypeOK
  <2>6. line[d.of].verdict = "none" /\ line[d.of].owed = 0 /\ line[d.of].missed = 0
    BY <1>1, <2>1 DEF Claimable, VersionFits
  <2>7. line[d.of].n > 0
    BY <1>1, <2>1 DEF DoorFits
  <2>8. plan'[p].no > 0 /\ line'[<<p, plan'[p].no>>].n > 0
    BY <1>2, <2>2, <2>3, <2>5, <2>7
  <2>9. \A e \in doors' : e.of = d.of => e.door # "approving"
    BY <2>1 DEF Claimable, Leave
  <2>10. WaitingStep(d)
    BY <1>1, <2>1, <2>2, <2>3, <2>5, <2>6, <2>7, <2>8, <2>9 DEF WaitingStep
  <2> QED BY <2>10, WaitingKeeps
<1>6. CASE CancelPlan(d)
  <2>1. /\ d.door = "cancel" /\ Leave(d) /\ UNCHANGED <<at, ride, ever, line, truck, astray>>
        /\ plan' = [plan EXCEPT ![p] = [plan[p] EXCEPT !.status = "cancelled"]]
    BY <1>6 DEF CancelPlan, cartonVars
  <2> DEFINE row == [plan[p] EXCEPT !.status = "cancelled"]
  <2>2. row \in PlanRow /\ row.status = "cancelled" /\ row.no = plan[p].no /\ row.truck = plan[p].truck
    BY <1>1 DEF PlanRow
  <2>3. plan' = [plan EXCEPT ![p] = row]
    BY <2>1
  <2> HIDE DEF row
  <2>4. plan' \in [Plans -> PlanRow] /\ plan'[p] = row /\ \A q \in Plans : q # p => plan'[q] = plan[q]
    BY <1>1, <2>2, <2>3 DEF TypeOK
  <2>5. line' \in [Versions -> Line]
    BY <2>1 DEF TypeOK
  <2>6. WaitingStep(d)
    BY <1>2, <2>1, <2>2, <2>4, <2>5 DEF WaitingStep
  <2> QED BY <2>6, WaitingKeeps
<1> QED BY <1>3, <1>4, <1>5, <1>6

\* A plan is submitted for the first time: nobody knew of it.
LEMMA Submits ==
  ASSUME PlanInv, NEW p \in Plans, NEW n \in 1..Size, Submit(p, n)
  PROVE  PlanInv'
<1> DEFINE row == [status |-> "pending_agent", no |-> 1, truck |-> None]
           l   == NewLine(n, RoadPart(n))
           v   == <<p, 1>>
<1> USE DEF PlanInv
<1>1. /\ plan[p].status = "absent"
      /\ plan' = [plan EXCEPT ![p] = row] /\ line' = [line EXCEPT ![v] = l]
      /\ UNCHANGED <<at, ride, ever, truck, doors, crossed, astray>>
  BY DEF Submit, cartonVars
<1>2. /\ v \in Versions /\ v[1] = p /\ PlanFits(p) /\ VersionFits(v) /\ line[v].n = 0
      /\ \A w \in Versions : w[1] = p => line[w].verdict = "none"
      /\ plan[p].truck = None
  <2>1. v \in Versions /\ v[1] = p
    BY TrucksNamed DEF Versions
  <2>2. PlanFits(p) /\ \A w \in Versions : VersionFits(w)
    BY DEF PlansFit, VersionsFit
  <2>3. plan[p].truck = None /\ \A w \in Versions : w[1] = p => line[w].n = 0
    BY <1>1, <2>2 DEF PlanFits
  <2> QED BY <2>1, <2>2, <2>3 DEF VersionFits
<1>3. row \in PlanRow /\ row.status = "pending_agent" /\ row.no = 1 /\ row.truck = None
  BY TrucksNamed, PlanAssumption DEF PlanRow
<1>4. /\ l \in Line /\ l.n = n /\ l.part <= n /\ l.owed = 0 /\ l.missed = 0 /\ l.verdict = "none"
      /\ l.part \in Nat
  <2>1. Cardinality(OnShelf) \in 0..Size /\ Size \in Nat
    BY Sized DEF OnShelf
  <2> QED BY <2>1 DEF NewLine, RoadPart, Line
<1> HIDE DEF row, l
<1>5. /\ plan' \in [Plans -> PlanRow] /\ plan'[p] = row /\ \A q \in Plans : q # p => plan'[q] = plan[q]
      /\ line' \in [Versions -> Line] /\ line'[v] = l /\ \A w \in Versions : w # v => line'[w] = line[w]
  BY <1>1, <1>2, <1>3, <1>4 DEF TypeOK
<1> HIDE DEF v
<1>6. TypeOK'
  <2>1. \A w \in Versions :
          line'[w].owed + line'[w].missed <= line'[w].part /\ line'[w].part <= line'[w].n
    BY <1>4, <1>5 DEF TypeOK
  <2> QED BY <1>1, <1>5, <2>1 DEF TypeOK
<1>7. \A e \in doors : e.of \in Versions /\ e.of[1] \in Plans /\ e.of[1] # p /\ e.of # v
  BY <1>1, <1>2 DEF DoorsFit, DoorFits, TypeOK, Door, Versions
<1>8. DoorsFit' /\ DoorsApart' /\ ShelfTaken'
  BY <1>1, <1>5, <1>7 DEF DoorsFit, DoorFits, DoorsApart, ShelfTaken, OnShelf, Held
<1>9. VersionsFit'
  <2> SUFFICES ASSUME NEW w \in Versions PROVE VersionFits(w)'
    BY DEF VersionsFit
  <2>1. VersionFits(w)
    BY DEF VersionsFit
  <2>2. CASE w = v
    BY <1>1, <1>2, <1>4, <1>5, <2>1, <2>2 DEF VersionFits
  <2>3. CASE w # v
    BY <1>1, <1>5, <2>1, <2>3 DEF VersionFits
  <2> QED BY <2>2, <2>3
<1>10. PlansFit'
  <2> SUFFICES ASSUME NEW q \in Plans PROVE PlanFits(q)'
    BY DEF PlansFit
  <2>1. PlanFits(q) /\ plan[q] \in PlanRow
    BY DEF PlansFit, TypeOK
  <2>2. CASE q = p
    <3>1. plan'[q] = row /\ line'[<<q, row.no>>].n > 0
      BY <1>3, <1>4, <1>5, <2>2 DEF v
    <3>2. \A w \in Versions : w[1] = q => line'[w].verdict # "approved"
      BY <1>2, <1>4, <1>5, <2>2
    <3> QED BY <1>1, <1>3, <3>1, <3>2 DEF PlanFits
  <2>3. CASE q # p
    <3>1. plan'[q] = plan[q] /\ \A w \in Versions : w[1] = q => line'[w] = line[w]
      BY <1>2, <1>5, <2>3
    <3>2. plan[q].truck # None => plan[q].truck \in Versions
      BY <2>1 DEF PlanRow, Trucks
    <3>3. plan[q].status # "absent" => <<q, plan[q].no>> \in Versions
      BY <2>1 DEF PlanFits, PlanRow, Versions
    <3> QED BY <1>1, <2>1, <3>1, <3>2, <3>3 DEF PlanFits
  <2> QED BY <2>2, <2>3
<1>11. Reserved'
  BY <1>1 DEF Reserved
<1>12. PlanFollowsTruck'
  <2> SUFFICES ASSUME NEW q \in Plans, q \notin crossed
               PROVE  {t \in Trucks : t[1] = q /\ LoadingTruck(t)}
                        = IF plan'[q].status \in {"approved", "loading"} THEN {plan'[q].truck} ELSE {}
    BY <1>1 DEF PlanFollowsTruck, LoadingTruck
  <2>1. CASE q = p
    BY <1>1, <1>3, <1>5, <2>1 DEF PlanFollowsTruck
  <2>2. CASE q # p
    BY <1>5, <2>2 DEF PlanFollowsTruck
  <2> QED BY <2>1, <2>2
<1>13. PromiseAccounted'
  BY <1>1, <1>4, <1>5 DEF PromiseAccounted
<1>14. LandedIsClaimed'
  <2>1. \A w \in Versions : Owes(w)' => Owes(w)
    <3> SUFFICES ASSUME NEW w \in Versions, Owes(w)' PROVE Owes(w)
      OBVIOUS
    <3>1. /\ line'[w].owed > 0 /\ line'[w].verdict = "approved"
          /\ plan'[w[1]].no = w[2] /\ plan'[w[1]].status \in {"approved", "loading"}
          /\ plan'[w[1]].truck # None /\ truck'[plan'[w[1]].truck] \in {"forming", "loading"}
      BY DEF Owes, Current, PlanOf, LoadingTruck
    <3>2. w[1] # p /\ w[1] \in Plans /\ w # v
      BY <1>3, <1>4, <1>5, <3>1 DEF Versions
    <3>3. plan'[w[1]] = plan[w[1]] /\ line'[w] = line[w] /\ truck' = truck
      BY <1>1, <1>5, <3>2
    <3> QED BY <3>1, <3>3 DEF Owes, Current, PlanOf, LoadingTruck
  <2> QED BY <1>1, <2>1 DEF LandedIsClaimed, OnShelf, Held
<1> QED BY <1>6, <1>8, <1>9, <1>10, <1>11, <1>12, <1>13, <1>14

-----------------------------------------------------------------------------
(* The approval commits.                                                    *)

\* A truck is born with what its approval took, and is owed the rest.
LEMMA Commits ==
  ASSUME PlanInv, NEW d \in doors, CommitApproval(d)
  PROVE  PlanInv'
<1> DEFINE v   == d.of
           p   == d.of[1]
           k   == d.n - Cardinality(d.held)
           l   == [line[v] EXCEPT !.verdict = "approved", !.owed = k]
           row == [plan[p] EXCEPT !.status = "approved", !.truck = v]
<1> USE DEF PlanInv
<1>1. /\ d.door = "approving" /\ Leave(d) /\ astray' = astray
      /\ at' = [c \in Cartons |-> IF c \in d.held THEN "planned" ELSE at[c]]
      /\ ride' = [c \in Cartons |-> IF c \in d.held THEN v ELSE ride[c]]
      /\ ever' = [c \in Cartons |-> IF c \in d.held THEN ever[c] \cup {v} ELSE ever[c]]
      /\ line' = [line EXCEPT ![v] = l]
      /\ plan' = [plan EXCEPT ![p] = row]
      /\ truck' = [truck EXCEPT ![v] = "forming"]
  BY DEF CommitApproval
<1>2. /\ d \in Door /\ DoorFits(d) /\ v \in Versions /\ p \in Plans
      /\ doors' = doors \ {d} /\ crossed' \subseteq Plans
      /\ crossed \subseteq crossed' /\ crossed' \subseteq crossed \cup {p}
      /\ p \notin crossed' =>
           /\ \A w \in Versions : w[1] = p => line[w].verdict # "approved"
           /\ \A t \in Trucks : t[1] = p => ~LoadingTruck(t)
  BY <1>1, WaitingStill
<1>3. /\ line[v] \in Line /\ plan[p] \in PlanRow /\ VersionFits(v) /\ PlanFits(p)
      /\ line[v].part <= line[v].n
  BY <1>2 DEF TypeOK, VersionsFit, PlansFit
<1>4. /\ d.n > 0 /\ line[v].n = d.n /\ line[v].part = d.part /\ line[v].verdict = "none"
      /\ Cardinality(d.held) <= d.n /\ d.n - d.part <= Cardinality(d.held)
      /\ d.held \subseteq OnShelf /\ line[v].owed = 0 /\ line[v].missed = 0
      /\ \A c \in Cartons : v \notin ever[c]
      /\ plan[p].status # "absent"
  BY <1>1, <1>2, <1>3 DEF DoorFits, VersionFits
<1>5. /\ d.held \in SUBSET Cartons /\ Cardinality(d.held) \in 0..Size /\ Size \in Nat
      /\ d.n \in 0..Size /\ d.part \in 0..Size
  BY <1>2, Sized DEF Door
<1>6. k \in 0..Size /\ k <= d.part /\ Cardinality(d.held) + k = d.n
  BY <1>4, <1>5
<1>7. /\ l \in Line /\ l.n = d.n /\ l.part = d.part /\ l.owed = k /\ l.missed = 0
      /\ l.verdict = "approved"
  <2> HIDE DEF k, v
  <2>1. /\ l \in Line /\ l.n = line[v].n /\ l.part = line[v].part /\ l.owed = k
        /\ l.missed = line[v].missed /\ l.verdict = "approved"
    BY <1>3, <1>6 DEF Line
  <2> QED BY <1>4, <2>1
<1>8. /\ row \in PlanRow /\ row.status = "approved" /\ row.truck = v /\ row.no = plan[p].no
  <2>1. v \in Trucks
    BY <1>2 DEF Trucks
  <2> HIDE DEF v, p
  <2> QED BY <1>3, <2>1 DEF PlanRow
<1> HIDE DEF l, row, k
<1>9. /\ line' \in [Versions -> Line] /\ line'[v] = l /\ \A w \in Versions : w # v => line'[w] = line[w]
  BY <1>1, <1>2, <1>7 DEF TypeOK
<1>10. /\ plan' \in [Plans -> PlanRow] /\ plan'[p] = row /\ \A q \in Plans : q # p => plan'[q] = plan[q]
  BY <1>1, <1>2, <1>8 DEF TypeOK
<1>11. /\ truck' \in [Trucks -> {"none", "forming", "loading", "left", "cancelled"}]
       /\ truck'[v] = "forming" /\ \A t \in Trucks : t # v => truck'[t] = truck[t]
  BY <1>1, <1>2 DEF TypeOK, Trucks
<1>12. \A c \in Cartons :
         /\ c \in d.held => at'[c] = "planned" /\ ride'[c] = v /\ ever'[c] = ever[c] \cup {v}
         /\ c \notin d.held => at'[c] = at[c] /\ ride'[c] = ride[c] /\ ever'[c] = ever[c]
  BY <1>1
<1>13. TypeOK'
  <2>1. \A w \in Versions :
          line'[w].owed + line'[w].missed <= line'[w].part /\ line'[w].part <= line'[w].n
    <3> SUFFICES ASSUME NEW w \in Versions
                 PROVE  line'[w].owed + line'[w].missed <= line'[w].part /\ line'[w].part <= line'[w].n
      OBVIOUS
    <3>1. CASE w = v
      BY <1>3, <1>4, <1>5, <1>6, <1>7, <1>9, <3>1
    <3>2. CASE w # v
      BY <1>9, <3>2 DEF TypeOK
    <3> QED BY <3>1, <3>2
  <2>2. /\ at' \in [Cartons -> {"road", "landing", "hooked", "shelf", "planned", "loading", "left", "lost"}]
        /\ ride' \in [Cartons -> Trucks \cup {None}] /\ ever' \in [Cartons -> SUBSET Trucks]
    BY <1>1, <1>2 DEF TypeOK, Trucks
  <2>3. doors' \subseteq Door /\ astray' \subseteq Cartons
    BY <1>1, <1>2 DEF TypeOK
  <2> QED BY <1>2, <1>9, <1>10, <1>11, <2>1, <2>2, <2>3 DEF TypeOK
<1>14. \A e \in doors' : e \in doors /\ e # d /\ DoorFits(e) /\ e.of \in Versions /\ e.of[1] \in Plans
                         /\ e.held \cap d.held = {} /\ (e.door = "approving" => e.of # v)
  <2> SUFFICES ASSUME NEW e \in doors, e # d
               PROVE  DoorFits(e) /\ e.of \in Versions /\ e.of[1] \in Plans
                      /\ e.held \cap d.held = {} /\ (e.door = "approving" => e.of # v)
    BY <1>2
  <2>1. DoorFits(e) /\ e.of \in Versions /\ e.of[1] \in Plans
    BY DEF DoorsFit, TypeOK, Door, Versions
  <2>2. e.door = "approving" => e.of # v /\ e.held \cap d.held = {}
    BY <1>1 DEF DoorsApart
  <2>3. e.door # "approving" => e.held = {}
    BY <2>1 DEF DoorFits
  <2> QED BY <2>1, <2>2, <2>3
<1>15. DoorsFit'
  <2> SUFFICES ASSUME NEW e \in doors' PROVE DoorFits(e)'
    BY DEF DoorsFit
  <2>1. DoorFits(e) /\ e.held \cap d.held = {} /\ (e.door = "approving" => e.of # v)
        /\ e.of \in Versions /\ e.of[1] \in Plans
    BY <1>14
  <2>2. e.held \subseteq OnShelf'
    BY <1>12, <2>1 DEF DoorFits, OnShelf
  <2>3. plan'[e.of[1]].status # "absent"
    BY <1>8, <1>10, <2>1 DEF DoorFits
  <2>4. line'[e.of].n = line[e.of].n /\ line'[e.of].part = line[e.of].part
        /\ (e.of # v => line'[e.of].verdict = line[e.of].verdict)
    BY <1>4, <1>7, <1>9, <2>1
  <2> QED BY <2>1, <2>2, <2>3, <2>4 DEF DoorFits
<1>16. DoorsApart'
  BY <1>2 DEF DoorsApart
<1>17. \A c \in OnShelf' \ (astray' \cup Held') :
         c \in OnShelf \ (astray \cup Held) /\ ever'[c] = ever[c]
  <2> SUFFICES ASSUME NEW c \in Cartons, at'[c] = "shelf", c \notin astray, c \notin Held'
               PROVE  at[c] = "shelf" /\ c \notin Held /\ ever'[c] = ever[c]
    BY <1>1 DEF OnShelf
  <2>1. c \notin d.held
    BY <1>12
  <2>2. c \notin Held
    BY <1>2, <2>1 DEF Held
  <2> QED BY <1>12, <2>1, <2>2
<1>18. ShelfTaken'
  BY <1>14, <1>17 DEF ShelfTaken
<1>19. VersionsFit'
  <2> SUFFICES ASSUME NEW w \in Versions PROVE VersionFits(w)'
    BY DEF VersionsFit
  <2>1. VersionFits(w)
    BY DEF VersionsFit
  <2>2. CASE w = v
    BY <1>4, <1>7, <1>9, <2>2 DEF VersionFits
  <2>3. CASE w # v
    BY <1>9, <1>12, <2>1, <2>3 DEF VersionFits
  <2> QED BY <2>2, <2>3
<1>20. PlansFit'
  <2> SUFFICES ASSUME NEW q \in Plans PROVE PlanFits(q)'
    BY DEF PlansFit
  <2>1. PlanFits(q) /\ plan[q] \in PlanRow
    BY DEF PlansFit, TypeOK
  <2>2. plan[q].truck # None => plan[q].truck \in Versions
    BY <2>1 DEF PlanRow, Trucks
  <2>3. plan[q].status # "absent" => <<q, plan[q].no>> \in Versions
    BY <2>1 DEF PlanFits, PlanRow, Versions
  <2>4. \A w \in Versions : line'[w].n = line[w].n
    BY <1>4, <1>7, <1>9
  <2>5. CASE q = p
    <3>1. plan'[q] = row /\ row.status # "absent" /\ row.no > 0 /\ line'[<<q, row.no>>].n > 0
      BY <1>4, <1>8, <1>10, <2>1, <2>3, <2>4, <2>5 DEF PlanFits
    <3>2. row.truck[1] = q /\ line'[row.truck].verdict = "approved"
      BY <1>7, <1>8, <1>9, <2>5
    <3>3. q \notin crossed' => \A w \in Versions : w[1] = q /\ line'[w].verdict = "approved" => row.truck = w
      BY <1>2, <1>8, <1>9, <2>5
    <3> QED BY <1>8, <3>1, <3>2, <3>3 DEF PlanFits
  <2>6. CASE q # p
    <3>1. plan'[q] = plan[q] /\ \A w \in Versions : w[1] = q => line'[w] = line[w]
      BY <1>9, <1>10, <2>6
    <3>2. q \notin crossed' => q \notin crossed
      BY <1>2
    <3> QED BY <2>1, <2>2, <2>3, <3>1, <3>2 DEF PlanFits
  <2> QED BY <2>5, <2>6
<1>21. Reserved'
  BY <1>12 DEF Reserved
<1>22. PlanFollowsTruck'
  <2> SUFFICES ASSUME NEW q \in Plans, q \notin crossed'
               PROVE  {t \in Trucks : t[1] = q /\ LoadingTruck(t)'}
                        = IF plan'[q].status \in {"approved", "loading"} THEN {plan'[q].truck} ELSE {}
    BY DEF PlanFollowsTruck
  <2>1. v \in Trucks /\ v[1] = p /\ LoadingTruck(v)'
        /\ \A t \in Trucks : t # v => (LoadingTruck(t)' <=> LoadingTruck(t))
    BY <1>2, <1>11 DEF LoadingTruck, Trucks
  <2>2. CASE q = p
    BY <1>2, <1>8, <1>10, <2>1, <2>2
  <2>3. CASE q # p
    <3>1. {t \in Trucks : t[1] = q /\ LoadingTruck(t)'} = {t \in Trucks : t[1] = q /\ LoadingTruck(t)}
      BY <2>1, <2>3
    <3>2. plan'[q] = plan[q] /\ q \notin crossed
      BY <1>2, <1>10, <2>3
    <3> QED BY <3>1, <3>2 DEF PlanFollowsTruck
  <2> QED BY <2>2, <2>3
<1>23. PromiseAccounted'
  <2> SUFFICES ASSUME NEW u \in Versions, u[1] \notin crossed', line'[u].verdict = "approved"
               PROVE  Cardinality({x \in Cartons : u \in ever'[x]}) + line'[u].owed + line'[u].missed
                        = line'[u].n
    BY DEF PromiseAccounted
  <2>1. CASE u = v
    <3>1. {x \in Cartons : u \in ever'[x]} = d.held
      BY <1>4, <1>5, <1>12, <2>1
    <3>2. Cardinality({x \in Cartons : u \in ever'[x]}) = Cardinality(d.held)
      BY <3>1
    <3>3. line'[u].owed = k /\ line'[u].missed = 0 /\ line'[u].n = d.n
      BY <1>7, <1>9, <2>1
    <3> QED BY <1>5, <1>6, <3>2, <3>3
  <2>2. CASE u # v
    <3>1. {x \in Cartons : u \in ever'[x]} = {x \in Cartons : u \in ever[x]}
      BY <1>12, <2>2
    <3>2. line'[u] = line[u] /\ u[1] \notin crossed
      BY <1>2, <1>9, <2>2
    <3> QED BY <3>1, <3>2 DEF PromiseAccounted
  <2> QED BY <2>1, <2>2
<1>24. LandedIsClaimed'
  <2> SUFFICES ASSUME NEW c \in OnShelf' \ (astray' \cup Held'), ever'[c] = {},
                      NEW w \in Versions, w[1] \notin crossed', Owes(w)'
               PROVE  FALSE
    BY DEF LandedIsClaimed
  <2>1. c \in OnShelf \ (astray \cup Held) /\ ever[c] = {}
    BY <1>17
  <2>2. /\ line'[w].owed > 0 /\ line'[w].verdict = "approved"
        /\ plan'[w[1]].no = w[2] /\ plan'[w[1]].status \in {"approved", "loading"}
        /\ plan'[w[1]].truck # None /\ truck'[plan'[w[1]].truck] \in {"forming", "loading"}
    BY DEF Owes, Current, PlanOf, LoadingTruck
  <2>3. CASE w = v
    <3>1. Cardinality(d.held) < d.n
      BY <1>5, <1>6, <1>7, <1>9, <2>2, <2>3
    <3> QED BY <1>1, <2>1, <3>1 DEF ShelfTaken
  <2>4. CASE w # v
    <3>1. line'[w] = line[w] /\ w[1] # p /\ w[1] \in Plans
      BY <1>2, <1>9, <2>2, <2>4 DEF Versions
    <3>2. plan'[w[1]] = plan[w[1]] /\ plan[w[1]] \in PlanRow /\ PlanFits(w[1])
      BY <1>10, <3>1 DEF TypeOK, PlansFit
    <3>3. plan[w[1]].truck \in Trucks /\ plan[w[1]].truck # v
      BY <2>2, <3>1, <3>2 DEF PlanRow, PlanFits
    <3>4. Owes(w)
      BY <1>11, <2>2, <3>1, <3>2, <3>3 DEF Owes, Current, PlanOf, LoadingTruck
    <3>5. w[1] \notin crossed
      BY <1>2
    <3> QED BY <2>1, <3>4, <3>5 DEF LandedIsClaimed
  <2> QED BY <2>3, <2>4
<1> QED BY <1>13, <1>15, <1>16, <1>18, <1>19, <1>20, <1>21, <1>22, <1>23, <1>24

-----------------------------------------------------------------------------
(* The theorems.                                                            *)

\* Before any plan all of it holds.
LEMMA PlansStart == Init => PlanInv
<1> SUFFICES ASSUME Init PROVE PlanInv
  OBVIOUS
<1>1. Size \in Nat
  BY Sized
<1>2. TypeOK
  BY <1>1, PlanAssumption DEF Init, TypeOK, PlanRow, Line
<1>3. DoorsFit /\ DoorsApart /\ ShelfTaken /\ VersionsFit /\ PlansFit /\ Reserved
  BY TrucksNamed
  DEF Init, DoorsFit, DoorsApart, ShelfTaken, VersionsFit, VersionFits, PlansFit, PlanFits, Reserved
<1>4. PlanFollowsTruck
  BY DEF Init, PlanFollowsTruck, LoadingTruck
<1>5. PromiseAccounted /\ LandedIsClaimed
  BY DEF Init, PromiseAccounted, LandedIsClaimed, Owes
<1> QED BY <1>2, <1>3, <1>4, <1>5 DEF PlanInv

\* Every step of every door, carton and truck keeps the invariant.
LEMMA PlanStep == PlanInv /\ [Next]_vars => PlanInv'
<1> SUFFICES ASSUME PlanInv, [Next]_vars PROVE PlanInv'
  OBVIOUS
<1>1. CASE \E p \in Plans : \E n \in 1..Size : Submit(p, n)
  BY <1>1, Submits
<1>2. CASE \/ \E p \in Plans : (\E n \in 1..Size : ReadToResubmit(p, n)) \/ ReadToCancel(p)
           \/ \E v \in Versions, say \in {"approve", "send_back"} : ReadForVerdict(v, say)
  BY <1>2, Reads
<1>3. CASE \E d \in doors : Resubmit(d) \/ SendBack(d) \/ CancelPlan(d)
  BY <1>3, Waits
<1>4. CASE \E d \in doors : JudgedAlready(d)
  BY <1>4, Aborts DEF JudgedAlready
<1>5. CASE \E d \in doors : \E take \in SUBSET Cartons : Approve(d, take)
  BY <1>5, Approves
<1>6. CASE \E d \in doors : CommitApproval(d)
  BY <1>6, Commits
<1>7. CASE \E c \in Cartons : StartLanding(c) \/ LoseOnRoad(c)
  BY <1>7, StartsOrIsLost
<1>8. CASE \E c \in Cartons : LandHooked(c)
  BY <1>8, LandsHooked
<1>9. CASE \E c \in Cartons : LandUnhooked(c)
  BY <1>9, LandsUnhooked
<1>10. CASE \E c \in Cartons : LoadPlanned(c) \/ \E v \in Versions : LoadFromShelf(c, v)
  BY <1>10, Loads
<1>11. CASE \/ \E c \in Cartons : RemoveLoaded(c)
            \/ \E t \in Trucks : FinishLoading(t) \/ Depart(t) \/ CancelTruck(t)
  BY <1>11, TruckSteps
<1>12. CASE UNCHANGED vars
  <2>1. UNCHANGED <<cartonVars, plan, line, truck, doors, crossed, astray>>
    BY <1>12 DEF vars
  <2>2. doors' \subseteq Door /\ DoorsFit' /\ DoorsApart' /\ ShelfTaken' /\ Held \subseteq Held'
    BY <2>1 DEF PlanInv, TypeOK, DoorsFit, DoorFits, DoorsApart, ShelfTaken, OnShelf, Held, cartonVars
  <2> QED BY <2>1, <2>2, DoorsAlone
<1> QED
  BY <1>1, <1>2, <1>3, <1>4, <1>5, <1>6, <1>7, <1>8, <1>9, <1>10, <1>11, <1>12 DEF Next

\* Whatever the doors read and when they write, the invariant holds.
THEOREM PlansKeepFaith == Spec => []PlanInv
  BY PlansStart, PlanStep, PTL DEF Spec

\* The tables stay well-formed: nothing is owed and missed beyond the road part
\* of a line, the table's own check.
THEOREM PlansTyped == Spec => []TypeOK
<1>1. PlanInv => TypeOK
  BY DEF PlanInv
<1> QED BY <1>1, PlansKeepFaith, PTL

\* Of what a plan was approved for, every carton was reserved, is owed or was
\* missed, whatever lands, is loaded, given back or lost in between.
THEOREM EveryPromiseAccounted == Spec => []PromiseAccounted
<1>1. PlanInv => PromiseAccounted
  BY DEF PlanInv
<1> QED BY <1>1, PlansKeepFaith, PTL

\* An approval and a landing never miss each other: the road lock and the landing
\* hook leave no free carton beside a truck that is owed one.
THEOREM LandingsAreClaimed == Spec => []LandedIsClaimed
<1>1. PlanInv => LandedIsClaimed
  BY DEF PlanInv
<1> QED BY <1>1, PlansKeepFaith, PTL

\* A plan lives with its truck and ends with it.
THEOREM PlansFollowTrucks == Spec => []PlanFollowsTruck
<1>1. PlanInv => PlanFollowsTruck
  BY DEF PlanInv
<1> QED BY <1>1, PlansKeepFaith, PTL

-----------------------------------------------------------------------------
(* The road is not promised twice.                                          *)

\* What is still to land was never reserved.
Unlanded == \A c \in OnRoad : ever[c] = {}

\* One approval at a time has the road.
RoadHeldOnce ==
  \A d, e \in doors : d.door = "approving" /\ d.part > 0 /\ e.door = "approving" /\ e.part > 0 => d = e

\* The road, with what was lost to it, covers what is owed and, on top, what an
\* approval half-way is about to be owed.
Short(d) == d.n - Cardinality(d.held)
Coming   == OnRoad \cup astray

RoadCovers ==
  crossed = {} =>
    /\ IsFiniteSet(Owed)
    /\ TotalOwed <= Cardinality(Coming)
    /\ \A d \in doors : d.door = "approving" => TotalOwed + Short(d) <= Cardinality(Coming)

RoadInv == Unlanded /\ RoadHeldOnce /\ RoadCovers

\* What is about to be owed is a number, and nothing unless the road is held for it.
LEMMA ShortCounted ==
  ASSUME PlanInv, NEW d \in doors, d.door = "approving"
  PROVE  /\ Short(d) \in 0..Size /\ Size \in Nat
         /\ d.part = 0 => Short(d) = 0
         /\ ~RoadLocked => Short(d) = 0
<1>1. d \in Door /\ DoorFits(d)
  BY DEF PlanInv, TypeOK, DoorsFit
<1>2. Cardinality(d.held) \in Nat /\ Size \in Nat /\ d.n \in 0..Size /\ d.part \in 0..Size
  BY <1>1, Sized DEF Door
<1> QED BY <1>1, <1>2 DEF Short, DoorFits, RoadLocked

\* The cartons to come are finitely many.
LEMMA ComingCounted ==
  ASSUME TypeOK
  PROVE  IsFiniteSet(Coming) /\ Cardinality(Coming) \in Nat
<1>1. Coming \in SUBSET Cartons
  BY DEF TypeOK, Coming, OnRoad
<1> QED BY <1>1, Sized

\* Who owes nothing new and less of it adds nothing to the sum.
LEMMA LessOwed ==
  ASSUME PlanInv, TypeOK', \A v \in Versions : Owes(v)' => Owes(v) /\ line'[v].owed <= line[v].owed
  PROVE  Owed' \subseteq Owed
<1> SUFFICES ASSUME NEW v \in Versions, NEW k \in 1..Size, Owes(v)', k <= line'[v].owed
             PROVE  Owes(v) /\ k <= line[v].owed
  BY DEF Owed
<1>1. line[v] \in Line /\ line'[v] \in Line /\ Size \in Nat
  BY Sized DEF PlanInv, TypeOK
<1> QED BY <1>1 DEF Line

\* A step that adds nothing to the sum, takes nothing off the road and lets nobody hold it
\* keeps the road covered.
LEMMA RoadStands ==
  ASSUME PlanInv, TypeOK', RoadInv, Owed' \subseteq Owed, Coming \subseteq Coming', crossed \subseteq crossed',
         \A d \in doors' : d.door = "approving" => d \in doors,
         \A c \in OnRoad' : c \in OnRoad /\ ever'[c] = ever[c]
  PROVE  RoadInv'
<1>1. Unlanded' /\ RoadHeldOnce'
  BY DEF RoadInv, Unlanded, RoadHeldOnce
<1>2. ASSUME crossed' = {}
      PROVE  /\ IsFiniteSet(Owed') /\ TotalOwed' <= TotalOwed /\ TotalOwed \in Nat /\ TotalOwed' \in Nat
             /\ TotalOwed <= Cardinality(Coming)
             /\ \A d \in doors : d.door = "approving" => TotalOwed + Short(d) <= Cardinality(Coming)
  <2>1. crossed = {} /\ IsFiniteSet(Owed)
    BY <1>2 DEF RoadInv, RoadCovers
  <2>2. IsFiniteSet(Owed') /\ Cardinality(Owed') <= Cardinality(Owed)
    BY <2>1, FS_Subset
  <2>3. Cardinality(Owed) \in Nat /\ Cardinality(Owed') \in Nat
    BY <2>1, <2>2, FS_CardinalityType
  <2> QED BY <2>1, <2>2, <2>3 DEF TotalOwed, RoadInv, RoadCovers
<1>3. Cardinality(Coming) <= Cardinality(Coming') /\ Cardinality(Coming) \in Nat /\ Cardinality(Coming') \in Nat
  <2>1. IsFiniteSet(Coming') /\ Cardinality(Coming') \in Nat
    <3>1. Coming' \in SUBSET Cartons
      BY DEF TypeOK, Coming, OnRoad
    <3> QED BY <3>1, Sized
  <2> QED BY <2>1, FS_Subset, ComingCounted DEF PlanInv
<1>4. RoadCovers'
  <2> SUFFICES ASSUME crossed' = {}
               PROVE  /\ IsFiniteSet(Owed') /\ TotalOwed' <= Cardinality(Coming')
                      /\ \A d \in doors' : d.door = "approving" => TotalOwed' + Short(d)' <= Cardinality(Coming')
    BY DEF RoadCovers
  <2>1. ASSUME NEW d \in doors', d.door = "approving"
        PROVE  TotalOwed' + Short(d)' <= Cardinality(Coming')
    <3>1. d \in doors /\ Short(d) \in Nat /\ Short(d)' = Short(d)
      BY <2>1, ShortCounted DEF Short
    <3> QED BY <1>2, <1>3, <2>1, <3>1
  <2> QED BY <1>2, <1>3, <2>1
<1> QED BY <1>1, <1>4 DEF RoadInv

\* The doors that only look, and those that wait on, send back or cancel a plan.
LEMMA DoorsLeaveRoad ==
  ASSUME PlanInv, PlanInv', RoadInv,
         \/ UNCHANGED vars
         \/ \E p \in Plans : \/ \E n \in 1..Size : Submit(p, n) \/ ReadToResubmit(p, n)
                             \/ ReadToCancel(p)
         \/ \E v \in Versions, say \in {"approve", "send_back"} : ReadForVerdict(v, say)
         \/ \E d \in doors : Resubmit(d) \/ SendBack(d) \/ JudgedAlready(d) \/ CancelPlan(d)
  PROVE  RoadInv'
<1> USE DEF PlanInv
<1>1. CASE UNCHANGED <<cartonVars, plan, line, truck, crossed, astray>>
  <2>1. CASE \A d \in doors' : d.door = "approving" => d \in doors
    <3>1. Owed' = Owed /\ Coming' = Coming /\ OnRoad' = OnRoad
      BY <1>1 DEF Owed, Owes, PlanOf, Current, LoadingTruck, Coming, OnRoad, cartonVars
    <3> QED BY <1>1, <2>1, <3>1, RoadStands DEF cartonVars
  <2>2. \/ doors' \subseteq doors
        \/ \E e : e.door # "approving" /\ doors' = doors \cup {e}
    <3>1. CASE \/ UNCHANGED vars
               \/ \E p \in Plans : \E n \in 1..Size : Submit(p, n)
               \/ \E d \in doors : Resubmit(d) \/ SendBack(d) \/ JudgedAlready(d) \/ CancelPlan(d)
      BY <3>1 DEF vars, Submit, Resubmit, SendBack, JudgedAlready, CancelPlan, Leave, Abort
    <3>2. CASE \E p \in Plans : \E n \in 1..Size : ReadToResubmit(p, n)
      BY <3>2 DEF ReadToResubmit, Enter
    <3>3. CASE \E p \in Plans : ReadToCancel(p)
      BY <3>3 DEF ReadToCancel, Enter
    <3>4. CASE \E v \in Versions, say \in {"approve", "send_back"} : ReadForVerdict(v, say)
      BY <3>4 DEF ReadForVerdict, Judging, Enter
    <3> QED BY <3>1, <3>2, <3>3, <3>4
  <2> QED BY <2>1, <2>2
<1>2. CASE /\ UNCHANGED <<cartonVars, truck, astray>> /\ crossed \subseteq crossed' /\ doors' \subseteq doors
           /\ \E p \in Plans :
                /\ plan'[p].status \notin {"approved", "loading"}
                /\ \A q \in Plans : q # p => plan'[q] = plan[q]
                /\ \A v \in Versions : v[1] # p => line'[v] = line[v]
  <2>1. PICK p \in Plans : /\ plan'[p].status \notin {"approved", "loading"}
                           /\ \A q \in Plans : q # p => plan'[q] = plan[q]
                           /\ \A v \in Versions : v[1] # p => line'[v] = line[v]
    BY <1>2
  <2>2. ASSUME NEW v \in Versions, Owes(v)' PROVE Owes(v) /\ line'[v].owed <= line[v].owed
    <3>1. v[1] \in Plans /\ v[1] # p /\ line'[v] = line[v] /\ plan'[v[1]] = plan[v[1]]
      BY <2>1, <2>2 DEF Owes, PlanOf, Versions
    <3>2. line[v].owed \in Nat
      BY Sized DEF TypeOK, Line
    <3> QED BY <1>2, <2>2, <3>1, <3>2 DEF Owes, PlanOf, Current, LoadingTruck
  <2>3. Owed' \subseteq Owed
    BY <2>2, LessOwed
  <2>4. Coming' = Coming /\ OnRoad' = OnRoad
    BY <1>2 DEF Coming, OnRoad, cartonVars
  <2> QED BY <1>2, <2>3, <2>4, RoadStands DEF cartonVars
<1>3. ASSUME NEW p \in Plans, NEW n \in 1..Size, Submit(p, n)
      PROVE  /\ UNCHANGED <<cartonVars, truck, astray>> /\ crossed \subseteq crossed' /\ doors' \subseteq doors
             /\ \E q \in Plans :
                /\ plan'[q].status \notin {"approved", "loading"}
                /\ \A r \in Plans : r # q => plan'[r] = plan[r]
                /\ \A v \in Versions : v[1] # q => line'[v] = line[v]
  BY <1>3 DEF Submit, TypeOK
<1>4. ASSUME NEW d \in doors, Resubmit(d) \/ SendBack(d) \/ CancelPlan(d),
             ~UNCHANGED <<cartonVars, plan, line, truck, crossed, astray>>
      PROVE  /\ UNCHANGED <<cartonVars, truck, astray>> /\ crossed \subseteq crossed' /\ doors' \subseteq doors
             /\ \E q \in Plans :
                /\ plan'[q].status \notin {"approved", "loading"}
                /\ \A r \in Plans : r # q => plan'[r] = plan[r]
                /\ \A v \in Versions : v[1] # q => line'[v] = line[v]
  <2> DEFINE p == d.of[1]
  <2>1. d \in Door /\ d.of \in Versions /\ p \in Plans /\ plan[p] \in PlanRow
    BY DEF TypeOK, Door, Versions
  <2>2. /\ UNCHANGED <<cartonVars, truck, astray>> /\ crossed \subseteq crossed' /\ doors' \subseteq doors
        /\ \/ plan' = [plan EXCEPT ![p] = [@ EXCEPT !.status = "pending_agent", !.no = d.of[2]]]
           \/ plan' = [plan EXCEPT ![p].status = "changes_requested"]
           \/ plan' = [plan EXCEPT ![p].status = "cancelled"]
        /\ \/ line' = line
           \/ line' = [line EXCEPT ![d.of] = NewLine(d.n, d.part)]
           \/ line' = [line EXCEPT ![d.of].verdict = "changes_requested"]
    BY <1>4 DEF Resubmit, SendBack, CancelPlan, Leave, Abort
  <2>3. /\ plan'[p].status \notin {"approved", "loading"}
        /\ \A r \in Plans : r # p => plan'[r] = plan[r]
    <3>1. PICK row : plan' = [plan EXCEPT ![p] = row]
                     /\ row.status \in {"pending_agent", "changes_requested", "cancelled"}
      <4> HIDE DEF p
      <4> QED BY <2>1, <2>2 DEF PlanRow
    <3> HIDE DEF p
    <3> QED BY <2>1, <3>1 DEF TypeOK
  <2>4. \A v \in Versions : v # d.of => line'[v] = line[v]
    BY <2>1, <2>2 DEF TypeOK
  <2> QED BY <2>1, <2>2, <2>3, <2>4
<1>5. \/ UNCHANGED <<cartonVars, plan, line, truck, crossed, astray>>
      \/ \E p \in Plans : \E n \in 1..Size : Submit(p, n)
      \/ \E d \in doors : Resubmit(d) \/ SendBack(d) \/ CancelPlan(d)
  BY DEF vars, ReadToResubmit, ReadToCancel, ReadForVerdict, Judging, JudgedAlready, Abort
<1> QED BY <1>1, <1>2, <1>3, <1>4, <1>5

\* Nothing owes while nobody's road line lives, nor while a carton that was never
\* reserved finds no claim.
LEMMA NobodyOwed ==
  ASSUME \A v \in Versions : ~Owes(v)
  PROVE  Owed = {}
  BY DEF Owed

\* Cartons begin to land, get lost, or land past a plan.
LEMMA CartonsStillCome ==
  ASSUME PlanInv, PlanInv', RoadInv, NEW c \in Cartons, StartLanding(c) \/ LoseOnRoad(c) \/ LandUnhooked(c)
  PROVE  RoadInv'
<1> USE DEF PlanInv
<1>1. /\ UNCHANGED <<ride, ever, plan, line, truck, doors, crossed>>
      /\ \E place : at' = [at EXCEPT ![c] = place]
      /\ at[c] \in {"road", "landing"} /\ c \in OnRoad
  BY DEF StartLanding, LoseOnRoad, LandUnhooked, OnRoad
<1>2. Owed' = Owed
  BY <1>1 DEF Owed, Owes, PlanOf, Current, LoadingTruck
<1>3. \A k \in OnRoad' : k \in OnRoad
  BY <1>1 DEF OnRoad, TypeOK
<1>4. CASE Coming \subseteq Coming'
  BY <1>1, <1>2, <1>3, <1>4, RoadStands
<1>5. CASE StartLanding(c) \/ LoseOnRoad(c)
  <2>1. Coming \subseteq Coming'
    BY <1>5 DEF StartLanding, LoseOnRoad, Coming, OnRoad, TypeOK
  <2> QED BY <1>4, <2>1
<1>6. CASE LandUnhooked(c) /\ (RoadLineLives \/ RoadLocked)
  <2>1. Coming \subseteq Coming'
    BY <1>6 DEF LandUnhooked, Coming, OnRoad, TypeOK
  <2> QED BY <1>4, <2>1
<1>7. CASE ~RoadLineLives /\ ~RoadLocked
  <2>1. Owed' = {} /\ TotalOwed' = 0
    BY <1>2, <1>7, OwingLineLives, NobodyOwed, FS_EmptySet DEF TotalOwed
  <2>2. \A d \in doors' : d.door = "approving" => Short(d)' = 0
    BY <1>1, <1>7, ShortCounted DEF Short
  <2>3. IsFiniteSet(Coming') /\ Cardinality(Coming') \in Nat
    <3>1. Coming' \in SUBSET Cartons
      BY DEF TypeOK, Coming, OnRoad
    <3> QED BY <3>1, Sized
  <2>4. RoadCovers'
    BY <2>1, <2>2, <2>3, FS_EmptySet DEF RoadCovers
  <2> QED BY <1>1, <1>3, <2>4 DEF RoadInv, Unlanded, RoadHeldOnce
<1> QED BY <1>5, <1>6, <1>7

\* A carton landed for a version, by the road lock or from the shelf, is one the less
\* owed.
LEMMA OneLessOwed ==
  ASSUME PlanInv, NEW v \in Versions, Owes(v), line' = [line EXCEPT ![v].owed = @ - 1],
         \A u \in Versions : Owes(u)' => Owes(u)
  PROVE  /\ <<v, line[v].owed>> \in Owed
         /\ Owed' \subseteq Owed \ {<<v, line[v].owed>>}
<1>1. line \in [Versions -> Line] /\ line[v] \in Line /\ Size \in Nat /\ line[v].owed > 0
  BY Sized DEF PlanInv, TypeOK, Owes
<1>2. line[v].owed \in 1..Size
  BY <1>1 DEF Line
<1>3. <<v, line[v].owed>> \in Owed
  BY <1>2 DEF Owed
<1>4. ASSUME NEW u \in Versions, NEW k \in 1..Size, Owes(u)', k <= line'[u].owed
      PROVE  Owes(u) /\ k <= line[u].owed /\ <<u, k>> # <<v, line[v].owed>>
  <2>1. CASE u = v
    <3>1. line'[v].owed = line[v].owed - 1
      BY <1>1
    <3> QED BY <1>2, <1>4, <2>1, <3>1
  <2>2. CASE u # v
    BY <1>1, <1>4, <2>2
  <2> QED BY <2>1, <2>2
<1> QED BY <1>3, <1>4 DEF Owed

\* A hooked carton lands: it takes one off the road and off the sum, or nobody was owed.
LEMMA LandingCounted ==
  ASSUME PlanInv, PlanInv', RoadInv, NEW c \in Cartons, LandHooked(c)
  PROVE  RoadInv'
<1> USE DEF PlanInv
<1>1. /\ UNCHANGED <<plan, truck, doors, crossed, astray>> /\ ~RoadLocked
      /\ c \in OnRoad /\ OnRoad' = OnRoad \ {c}
      /\ \A k \in OnRoad' : ever'[k] = ever[k]
  BY DEF LandHooked, ClaimFor, OnRoad, TypeOK
<1>2. Unlanded' /\ RoadHeldOnce'
  BY <1>1 DEF RoadInv, Unlanded, RoadHeldOnce
<1>3. \A d \in doors' : d.door = "approving" => Short(d)' = 0
  BY <1>1, ShortCounted DEF Short
<1>4. /\ IsFiniteSet(Coming') /\ Cardinality(Coming') \in Nat /\ Cardinality(Coming) \in Nat
      /\ Cardinality(Coming) - 1 <= Cardinality(Coming')
  <2>1. IsFiniteSet(Coming)
    BY ComingCounted
  <2>2. Coming \ {c} \subseteq Coming' /\ Coming' \in SUBSET Cartons
    BY <1>1 DEF Coming, OnRoad, TypeOK
  <2>3. IsFiniteSet(Coming') /\ Cardinality(Coming') \in Nat
    BY <2>2, Sized
  <2>4. Cardinality(Coming \ {c}) <= Cardinality(Coming')
    BY <2>2, <2>3, FS_Subset
  <2>5. Cardinality(Coming \ {c}) \in {Cardinality(Coming) - 1, Cardinality(Coming)}
    BY <2>1, FS_RemoveElement
  <2> QED BY <2>3, <2>4, <2>5, ComingCounted
<1>5. CASE \E v \in Versions : Claims(c, v) /\ ClaimFor(c, v, "planned")
  <2>1. PICK v \in Versions : Claims(c, v) /\ ClaimFor(c, v, "planned")
    BY <1>5
  <2> DEFINE x == <<v, line[v].owed>>
  <2>2. \A u \in Versions : Owes(u)' => Owes(u)
    <3>1. line \in [Versions -> Line] /\ line[v] \in Line /\ line' = [line EXCEPT ![v].owed = @ - 1]
      BY <2>1 DEF TypeOK, ClaimFor
    <3>2. \A u \in Versions : line'[u].verdict = line[u].verdict /\ (line'[u].owed > 0 => line[u].owed > 0)
      BY <3>1, <2>1 DEF Claims, Owes, Line
    <3> QED BY <1>1, <3>2 DEF Owes, PlanOf, Current, LoadingTruck
  <2>3. x \in Owed /\ Owed' \subseteq Owed \ {x}
    BY <2>1, <2>2, OneLessOwed DEF Claims, ClaimFor
  <2> HIDE DEF x
  <2>4. ASSUME crossed = {}
        PROVE  IsFiniteSet(Owed') /\ TotalOwed' \in Nat /\ TotalOwed' <= TotalOwed - 1 /\ TotalOwed \in Nat
    <3>1. IsFiniteSet(Owed)
      BY <2>4 DEF RoadInv, RoadCovers
    <3>2. IsFiniteSet(Owed \ {x}) /\ Cardinality(Owed \ {x}) = Cardinality(Owed) - 1
      BY <2>3, <3>1, FS_RemoveElement
    <3>3. IsFiniteSet(Owed') /\ Cardinality(Owed') <= Cardinality(Owed \ {x})
      BY <2>3, <3>2, FS_Subset
    <3> QED BY <3>1, <3>2, <3>3, FS_CardinalityType DEF TotalOwed
  <2>5. RoadCovers'
    <3> SUFFICES ASSUME crossed = {}
                 PROVE  /\ IsFiniteSet(Owed') /\ TotalOwed' <= Cardinality(Coming')
                        /\ \A d \in doors' : d.door = "approving" => TotalOwed' + Short(d)' <= Cardinality(Coming')
      BY <1>1 DEF RoadCovers
    <3>1. TotalOwed <= Cardinality(Coming)
      BY DEF RoadInv, RoadCovers
    <3> QED BY <1>3, <1>4, <2>4, <3>1
  <2> QED BY <1>2, <2>5 DEF RoadInv
<1>6. CASE \A v \in Versions : ~Claims(c, v)
  <2>1. \A v \in Versions : ~Owes(v)
    BY <1>1, <1>6 DEF Claims, RoadInv, Unlanded
  <2>2. UNCHANGED line
    BY <1>6 DEF LandHooked
  <2>3. Owed' = {}
    BY <1>1, <2>1, <2>2 DEF Owed, Owes, PlanOf, Current, LoadingTruck
  <2>4. RoadCovers'
    BY <1>3, <1>4, <2>3, FS_EmptySet DEF RoadCovers, TotalOwed
  <2> QED BY <1>2, <2>4 DEF RoadInv
<1> QED BY <1>5, <1>6 DEF LandHooked

\* A step of a truck adds nothing to the sum.
LEMMA TruckOwesLess ==
  ASSUME PlanInv, TypeOK', LinesKept, PlansKept, \A t \in Trucks : LoadingTruck(t)' => LoadingTruck(t)
  PROVE  Owed' \subseteq Owed
<1> USE DEF PlanInv
<1>1. ASSUME NEW v \in Versions, Owes(v)' PROVE Owes(v) /\ line'[v].owed <= line[v].owed
  <2>1. v[1] \in Plans /\ plan[v[1]] \in PlanRow /\ line[v] \in Line /\ line'[v].owed \in Nat
    BY DEF TypeOK, Versions, Line
  <2>2. line'[v].owed <= line[v].owed /\ line[v].owed > 0 /\ line[v].verdict = "approved"
    BY <1>1, <2>1 DEF Owes, LinesKept, Line
  <2> QED BY <1>1, <2>1, <2>2 DEF Owes, PlansKept, PlanOf, Current, PlanRow
<1> QED BY <1>1, LessOwed

\* Loading, giving back, and a truck that is done.
LEMMA TrucksLeaveRoad ==
  ASSUME PlanInv, PlanInv', RoadInv,
         \/ \E c \in Cartons : LoadPlanned(c) \/ RemoveLoaded(c) \/ \E v \in Versions : LoadFromShelf(c, v)
         \/ \E t \in Trucks : FinishLoading(t) \/ Depart(t) \/ CancelTruck(t)
  PROVE  RoadInv'
<1> USE DEF PlanInv
<1>1. CASE \E c \in Cartons : LoadPlanned(c)
  <2>1. PICK c \in Cartons : LoadPlanned(c)
    BY <1>1
  <2>2. ride[c] \in Trucks
    BY <2>1, TrucksNamed DEF LoadPlanned, Reserved, TypeOK
  <2>3. PlansKept /\ \A t \in Trucks : LoadingTruck(t)' => LoadingTruck(t)
    BY <2>1, <2>2, LoadedKeeps DEF LoadPlanned
  <2>4. LinesKept
    BY <2>1 DEF LoadPlanned, LinesKept, TypeOK, Line
  <2>5. Owed' \subseteq Owed
    BY <2>3, <2>4, TruckOwesLess
  <2>6. OnRoad' = OnRoad /\ Coming' = Coming
    BY <2>1 DEF LoadPlanned, OnRoad, Coming, TypeOK
  <2> QED BY <2>1, <2>5, <2>6, RoadStands DEF LoadPlanned
<1>2. CASE \E c \in Cartons : RemoveLoaded(c)
  <2>1. PICK c \in Cartons : RemoveLoaded(c)
    BY <1>2
  <2>2. Owed' = Owed
    BY <2>1 DEF RemoveLoaded, Owed, Owes, PlanOf, Current, LoadingTruck
  <2>3. OnRoad' = OnRoad /\ Coming' = Coming
    BY <2>1 DEF RemoveLoaded, GiveBack, OnRoad, Coming, TypeOK
  <2> QED BY <2>1, <2>2, <2>3, RoadStands DEF RemoveLoaded
<1>3. CASE \E c \in Cartons : \E v \in Versions : LoadFromShelf(c, v)
  <2>1. PICK c \in Cartons, v \in Versions : LoadFromShelf(c, v)
    BY <1>3
  <2>2. Owes(v) /\ line' = [line EXCEPT ![v].owed = @ - 1] /\ at[c] = "shelf"
        /\ at' = [at EXCEPT ![c] = "loading"] /\ UNCHANGED <<doors, crossed, astray>>
        /\ Loaded(PlanOf(v).truck)
        /\ \A k \in Cartons : k # c => ever'[k] = ever[k]
    BY <2>1 DEF LoadFromShelf, Claims, ClaimFor, TypeOK
  <2>3. PlanOf(v).truck \in Trucks /\ LoadingTruck(PlanOf(v).truck)
    BY <2>2, OwesItsTruck
  <2>4. PlansKept /\ \A t \in Trucks : LoadingTruck(t)' => LoadingTruck(t)
    BY <2>2, <2>3, LoadedKeeps
  <2>5. LinesKept
    BY <2>2 DEF Owes, LinesKept, TypeOK, Line
  <2>6. Owed' \subseteq Owed
    BY <2>4, <2>5, TruckOwesLess
  <2>7. OnRoad' = OnRoad /\ Coming' = Coming /\ c \notin OnRoad
    BY <2>2 DEF OnRoad, Coming, TypeOK
  <2>8. \A k \in OnRoad' : k \in OnRoad /\ ever'[k] = ever[k]
    BY <2>2, <2>7 DEF OnRoad
  <2> QED BY <2>2, <2>6, <2>7, <2>8, RoadStands
<1>4. CASE \E t \in Trucks : FinishLoading(t) \/ CancelTruck(t)
  <2>1. PICK t \in Trucks : FinishLoading(t) \/ CancelTruck(t)
    BY <1>4
  <2>2. LoadingTruck(t) /\ CloseOwed(t) /\ UNCHANGED <<ever, doors, crossed, astray>>
        /\ \E S \in SUBSET Cartons : GiveBack(S) /\ \A c \in S : at[c] \in {"planned", "loading"}
    BY <2>1 DEF FinishLoading, CancelTruck, Riding
  <2>3. LinesKept
    BY <2>2, OwedClosed
  <2>4. PlansKept /\ \A x \in Trucks : LoadingTruck(x)' => LoadingTruck(x)
    <3>1. CASE FinishLoading(t)
      BY <3>1 DEF FinishLoading, PlansKept, LoadingTruck
    <3>2. CASE CancelTruck(t)
      BY <2>2, <3>2, TruckEnds DEF CancelTruck
    <3> QED BY <2>1, <3>1, <3>2
  <2>5. Owed' \subseteq Owed
    BY <2>3, <2>4, TruckOwesLess
  <2>6. OnRoad' = OnRoad /\ Coming' = Coming
    BY <2>2 DEF GiveBack, OnRoad, Coming, TypeOK
  <2> QED BY <2>2, <2>5, <2>6, RoadStands
<1>5. CASE \E t \in Trucks : Depart(t)
  <2>1. PICK t \in Trucks : Depart(t)
    BY <1>5
  <2>2. PlansKept /\ \A x \in Trucks : LoadingTruck(x)' => LoadingTruck(x)
    BY <2>1, TruckEnds DEF Depart
  <2>3. LinesKept
    BY <2>1 DEF Depart, LinesKept, TypeOK, Line
  <2>4. Owed' \subseteq Owed
    BY <2>2, <2>3, TruckOwesLess
  <2>5. OnRoad' = OnRoad /\ Coming' = Coming
    BY <2>1 DEF Depart, Riding, OnRoad, Coming, TypeOK
  <2> QED BY <2>1, <2>4, <2>5, RoadStands DEF Depart
<1> QED BY <1>1, <1>2, <1>3, <1>4, <1>5

\* An approval takes the road only if it has enough for it beside what is owed.
LEMMA ApprovalCovered ==
  ASSUME PlanInv, PlanInv', RoadInv, NEW d \in doors, NEW take \in SUBSET Cartons, Approve(d, take)
  PROVE  RoadInv'
<1> USE DEF PlanInv
<1> DEFINE e == [d EXCEPT !.door = "approving", !.held = take]
<1>1. UNCHANGED <<cartonVars, plan, line, truck, crossed, astray>> /\ d \in Door
  BY DEF Approve, Approving, Abort, TypeOK
<1>2. Owed' = Owed /\ Coming' = Coming /\ OnRoad' = OnRoad
  BY <1>1 DEF Owed, Owes, PlanOf, Current, LoadingTruck, Coming, OnRoad, cartonVars
<1>3. CASE doors' = doors \ {d}
  BY <1>1, <1>2, <1>3, RoadStands DEF cartonVars
<1>4. CASE /\ doors' = (doors \ {d}) \cup {e}
           /\ RoadHas(d, take) /\ (d.part > 0 => ~RoadLocked)
  <2>1. e.door = "approving" /\ e.held = take /\ e.n = d.n /\ e.part = d.part /\ d.n \in 0..Size /\ d.part \in Nat
    BY <1>1, Sized DEF Door
  <2> HIDE DEF e
  <2>2. Unlanded'
    BY <1>1, <1>2 DEF RoadInv, Unlanded, cartonVars
  <2>3. RoadHeldOnce'
    BY <1>4, <2>1 DEF RoadInv, RoadHeldOnce, RoadLocked
  <2>4. RoadCovers'
    <3> SUFFICES ASSUME crossed = {}
                 PROVE  /\ IsFiniteSet(Owed') /\ TotalOwed' <= Cardinality(Coming')
                        /\ \A x \in doors' : x.door = "approving" => TotalOwed' + Short(x)' <= Cardinality(Coming')
      BY <1>1 DEF RoadCovers
    <3>1. IsFiniteSet(Owed) /\ TotalOwed <= Cardinality(Coming) /\ TotalOwed \in Nat
      BY FS_CardinalityType DEF RoadInv, RoadCovers, TotalOwed
    <3>2. Cardinality(OnRoad) <= Cardinality(Coming) /\ Cardinality(OnRoad) \in Nat /\ Cardinality(Coming) \in Nat
      <4>1. OnRoad \in SUBSET Coming /\ OnRoad \in SUBSET Cartons
        BY DEF OnRoad, Coming
      <4> QED BY <4>1, ComingCounted, FS_Subset, Sized
    <3>3. Cardinality(take) \in Nat /\ Size \in Nat
      BY Sized
    <3>4. TotalOwed + Short(e) <= Cardinality(Coming)
      BY <1>4, <2>1, <3>1, <3>2, <3>3 DEF RoadHas, RoadFree, Short
    <3>5. \A x \in doors : x.door = "approving" => TotalOwed + Short(x) <= Cardinality(Coming)
      BY DEF RoadInv, RoadCovers
    <3> QED BY <1>2, <1>4, <3>1, <3>4, <3>5 DEF TotalOwed, Short
  <2> QED BY <2>2, <2>3, <2>4 DEF RoadInv
<1> QED BY <1>3, <1>4 DEF Approve, Approving, Abort

\* A commit owes what the approval was short of, for which the road was held.
LEMMA CommitCovered ==
  ASSUME PlanInv, PlanInv', RoadInv, NEW d \in doors, CommitApproval(d)
  PROVE  RoadInv'
<1> DEFINE v   == d.of
           new == {v} \X (1..Short(d))
<1> USE DEF PlanInv
<1>1. /\ d.door = "approving" /\ Leave(d) /\ astray' = astray
      /\ at' = [c \in Cartons |-> IF c \in d.held THEN "planned" ELSE at[c]]
      /\ ever' = [c \in Cartons |-> IF c \in d.held THEN ever[c] \cup {v} ELSE ever[c]]
      /\ line' = [line EXCEPT ![v] = [@ EXCEPT !.verdict = "approved", !.owed = Short(d)]]
      /\ plan' = [plan EXCEPT ![v[1]] = [@ EXCEPT !.status = "approved", !.truck = v]]
      /\ truck' = [truck EXCEPT ![v] = "forming"]
  BY DEF CommitApproval, Short
<1>2. /\ d \in Door /\ DoorFits(d) /\ v \in Versions /\ v[1] \in Plans
      /\ doors' = doors \ {d} /\ crossed \subseteq crossed'
      /\ v[1] \notin crossed' => \A w \in Versions : w[1] = v[1] => line[w].verdict # "approved"
  BY <1>1, WaitingStill
<1>3. OnRoad' = OnRoad /\ Coming' = Coming /\ \A c \in OnRoad : ever'[c] = ever[c]
  <2>1. d.held \subseteq OnShelf
    BY <1>2 DEF DoorFits
  <2> QED BY <1>1, <2>1 DEF OnRoad, OnShelf, Coming
<1>4. Unlanded' /\ RoadHeldOnce'
  BY <1>2, <1>3 DEF RoadInv, Unlanded, RoadHeldOnce
<1>5. ASSUME crossed' = {} PROVE Owed' \subseteq Owed \cup new
  <2> SUFFICES ASSUME NEW w \in Versions, NEW k \in 1..Size, Owes(w)', k <= line'[w].owed
               PROVE  \/ w = v /\ k \in 1..Short(d)
                      \/ Owes(w) /\ k <= line[w].owed
    BY DEF Owed
  <2> HIDE DEF v
  <2>1. CASE w = v
    <3>1. line'[v].owed = Short(d)
      BY <1>1, <1>2 DEF TypeOK, Line
    <3>2. Short(d) \in 0..Size /\ Size \in Nat
      BY <1>1, ShortCounted
    <3> QED BY <2>1, <3>1, <3>2
  <2>2. CASE w # v
    <3>1. line'[w] = line[w] /\ line[w].verdict = "approved"
      BY <1>1, <2>2 DEF Owes, TypeOK
    <3>2. w[1] # v[1] /\ w[1] \in Plans
      BY <1>2, <1>5, <3>1 DEF Versions
    <3>3. plan'[w[1]] = plan[w[1]] /\ plan[w[1]] \in PlanRow /\ PlanFits(w[1])
      BY <1>1, <3>2 DEF TypeOK, PlansFit
    <3>4. plan[w[1]].truck \in Trucks /\ plan[w[1]].truck # v
      BY <2>2, <3>2, <3>3 DEF Owes, PlanOf, PlanRow, PlanFits
    <3>5. truck'[plan[w[1]].truck] = truck[plan[w[1]].truck]
      BY <1>1, <3>4 DEF TypeOK
    <3> QED BY <2>2, <3>1, <3>3, <3>5 DEF Owes, PlanOf, Current, LoadingTruck
  <2> QED BY <2>1, <2>2
<1>6. /\ Short(d) \in 0..Size /\ Size \in Nat /\ (d.part = 0 => Short(d) = 0)
      /\ \A e \in doors : e.door = "approving" => Short(e) \in 0..Size /\ (e.part = 0 => Short(e) = 0)
  BY <1>1, ShortCounted
<1>7. IsFiniteSet(new) /\ Cardinality(new) = Short(d)
  <2>1. IsFiniteSet({v}) /\ Cardinality({v}) = 1
    BY FS_Singleton
  <2>2. IsFiniteSet(1..Short(d)) /\ Cardinality(1..Short(d)) = Short(d)
    BY <1>6, FS_Interval
  <2> HIDE DEF v
  <2> QED BY <1>6, <2>1, <2>2, FS_Product
<1> HIDE DEF new
<1>8. RoadCovers'
  <2> SUFFICES ASSUME crossed' = {}
               PROVE  /\ IsFiniteSet(Owed') /\ TotalOwed' <= Cardinality(Coming')
                      /\ \A e \in doors' : e.door = "approving" => TotalOwed' + Short(e)' <= Cardinality(Coming')
    BY DEF RoadCovers
  <2>1. /\ IsFiniteSet(Owed) /\ TotalOwed \in Nat
        /\ \A e \in doors : e.door = "approving" => TotalOwed + Short(e) <= Cardinality(Coming)
    BY <1>2, FS_CardinalityType DEF RoadInv, RoadCovers, TotalOwed
  <2>2. IsFiniteSet(Owed') /\ TotalOwed' \in Nat /\ TotalOwed' <= TotalOwed + Short(d)
    <3>1. /\ IsFiniteSet(Owed \cup new)
          /\ Cardinality(Owed \cup new) = Cardinality(Owed) + Cardinality(new) - Cardinality(Owed \cap new)
      BY <1>7, <2>1, FS_Union
    <3>2. IsFiniteSet(Owed \cap new) /\ Cardinality(Owed \cap new) \in Nat
      <4>1. Owed \cap new \in SUBSET Owed
        OBVIOUS
      <4> QED BY <2>1, <4>1, FS_Subset, FS_CardinalityType
    <3>3. IsFiniteSet(Owed') /\ Cardinality(Owed') <= Cardinality(Owed \cup new)
      BY <1>5, <3>1, FS_Subset
    <3> QED BY <1>6, <1>7, <2>1, <3>1, <3>2, <3>3, FS_CardinalityType DEF TotalOwed
  <2>3. Cardinality(Coming) \in Nat
    BY ComingCounted
  <2>4. ASSUME NEW e \in doors', e.door = "approving"
        PROVE  TotalOwed' + Short(e)' <= Cardinality(Coming')
    <3>1. e \in doors /\ e # d /\ Short(e)' = Short(e)
      BY <1>2 DEF Short
    <3>2. Short(d) = 0 \/ Short(e) = 0
      <4>1. e \in Door
        BY <3>1 DEF TypeOK
      <4>2. e.part \in Nat /\ d.part \in Nat
        BY <1>2, <1>6, <4>1 DEF Door
      <4> QED BY <1>1, <1>6, <2>4, <3>1, <4>2 DEF RoadInv, RoadHeldOnce
    <3>3. Short(e) \in Nat
      BY <1>6, <2>4, <3>1
    <3> QED BY <1>1, <1>3, <1>6, <2>1, <2>2, <2>3, <2>4, <3>1, <3>2, <3>3
  <2> QED BY <1>1, <1>3, <1>6, <2>1, <2>2, <2>3, <2>4
<1> QED BY <1>4, <1>8 DEF RoadInv

\* The trucks together are never owed more than is on the road or was lost to it.
THEOREM RoadPromisedOnce == Spec => []RoadNotOverpromised
<1>1. Init => RoadInv
  <2> SUFFICES ASSUME Init PROVE RoadInv
    OBVIOUS
  <2>1. TypeOK /\ \A v \in Versions : ~Owes(v)
    BY PlansStart DEF PlanInv, Init, Owes
  <2>2. Owed = {} /\ TotalOwed = 0 /\ IsFiniteSet(Owed)
    BY <2>1, NobodyOwed, FS_EmptySet DEF TotalOwed
  <2>3. Cardinality(Coming) \in Nat
    BY <2>1, ComingCounted
  <2> QED BY <2>2, <2>3 DEF Init, RoadInv, Unlanded, OnRoad, RoadHeldOnce, RoadCovers
<1>2. PlanInv /\ PlanInv' /\ RoadInv /\ [Next]_vars => RoadInv'
  BY DoorsLeaveRoad, CartonsStillCome, LandingCounted, TrucksLeaveRoad, ApprovalCovered, CommitCovered
  DEF Next
<1>3. RoadInv => RoadNotOverpromised
  BY DEF RoadInv, RoadCovers, RoadNotOverpromised, Coming
<1> QED BY <1>1, <1>2, <1>3, PlansKeepFaith, PTL DEF Spec
=============================================================================
