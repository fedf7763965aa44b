------------------------------ MODULE PlanRoad ------------------------------
(***************************************************************************)
(* Load plans of one origin warehouse and one lot: submitted and sent back *)
(* in versions, approved into a truck that reserves what stands on the     *)
(* shelf and is owed the rest from cartons still on the road, which are    *)
(* reserved for it as they land.                                           *)
(*                                                                         *)
(* The doors of a plan read its row unlocked and write it by key, so each  *)
(* is two steps.  An approval with a road part holds the origin's road     *)
(* lock from its reading of the cartons to its commit, and a landing takes *)
(* that lock before it looks who is owed.                                  *)
(***************************************************************************)
EXTENDS Naturals, FiniteSets

CONSTANTS
  Cartons,      \* the lot's loose cartons, on the origin's shelf or on the road to it
  Plans,
  MaxVersions,  \* bound: versions of one plan
  MaxDoors,     \* bound: doors at work on plans at once
  None

\* A version of a plan; its approval bears at most one truck, named by it.
Versions == Plans \X (1..MaxVersions)
Trucks   == Versions

ASSUME PlanAssumption ==
  /\ IsFiniteSet(Cartons)
  /\ None \notin Versions
  /\ MaxVersions \in Nat \ {0} /\ MaxDoors \in Nat \ {0}

VARIABLES
  at,      \* where each carton is
  ride,    \* its current_batch_id, of the trucks planned here
  ever,    \* box_movements: trucks a plan_approved reserved it for
  plan,    \* load_plans
  line,    \* load_plan_lines and plan_line_road of each version, with its verdict
  truck,   \* batches.status of the trucks born here
  doors,   \* submits, verdicts and cancellations that have read and not written
  crossed, \* history: plans written on a reading that had changed
  astray   \* history: cartons lost to the road, or landed past a plan just made

cartonVars == <<at, ride, ever>>
vars       == <<cartonVars, plan, line, truck, doors, crossed, astray>>

Size == Cardinality(Cartons)
PlanRow == [status: {"absent", "pending_agent", "changes_requested", "approved", "loading",
                     "completed", "cancelled"},
            no: 0..MaxVersions, truck: Trucks \cup {None}]
Line == [n: 0..Size, part: 0..Size, owed: 0..Size, missed: 0..Size,
         verdict: {"none", "approved", "changes_requested"}]

\* A door: the version it is about and the plan row it read; an approval that has
\* read the cartons holds those it takes.
Door == [door: {"submit", "approve", "approving", "send_back", "cancel"}, of: Versions,
         seen: PlanRow, n: 0..Size, part: 0..Size, held: SUBSET Cartons]

TypeOK ==
  /\ at \in [Cartons -> {"road", "landing", "hooked", "shelf", "planned", "loading", "left", "lost"}]
  /\ ride \in [Cartons -> Trucks \cup {None}]
  /\ ever \in [Cartons -> SUBSET Trucks]
  /\ plan \in [Plans -> PlanRow]
  /\ line \in [Versions -> Line]
  \* the table's own check
  /\ \A v \in Versions : line[v].owed + line[v].missed <= line[v].part /\ line[v].part <= line[v].n
  /\ truck \in [Trucks -> {"none", "forming", "loading", "left", "cancelled"}]
  /\ doors \subseteq Door
  /\ crossed \subseteq Plans
  /\ astray \subseteq Cartons

Init ==
  /\ at \in [Cartons -> {"road", "shelf"}]
  /\ ride = [c \in Cartons |-> None]
  /\ ever = [c \in Cartons |-> {}]
  /\ plan = [p \in Plans |-> [status |-> "absent", no |-> 0, truck |-> None]]
  /\ line = [v \in Versions |-> [n |-> 0, part |-> 0, owed |-> 0, missed |-> 0, verdict |-> "none"]]
  /\ truck = [t \in Trucks |-> "none"]
  /\ doors = {}
  /\ crossed = {}
  /\ astray = {}

-----------------------------------------------------------------------------
(* What the doors read.                                                     *)

PlanOf(v)  == plan[v[1]]
Current(v) == PlanOf(v).no = v[2]
Held       == UNION {d.held : d \in doors}
OnShelf    == {c \in Cartons : at[c] = "shelf"}

\* Uncommitted landings read as still on the road.
OnRoad == {c \in Cartons : at[c] \in {"road", "landing", "hooked"}}

LoadingTruck(t) == truck[t] \in {"forming", "loading"}

\* The line of v still owes: the approved, current version of a plan under way,
\* its truck being loaded.
Owes(v) ==
  /\ line[v].owed > 0 /\ line[v].verdict = "approved"
  /\ Current(v) /\ PlanOf(v).status \in {"approved", "loading"}
  /\ PlanOf(v).truck # None /\ LoadingTruck(PlanOf(v).truck)

\* The sum of what is owed, counted carton by carton.
Owed      == {x \in Versions \X (1..Size) : Owes(x[1]) /\ x[2] <= line[x[1]].owed}
TotalOwed == Cardinality(Owed)
RoadFree  == LET n == Cardinality(OnRoad)
             IN IF n > TotalOwed THEN n - TotalOwed ELSE 0

\* The landing hook's first question: a plan that lives has a road line.
RoadLineLives ==
  \E v \in Versions : /\ line[v].part > 0 /\ Current(v)
                      /\ PlanOf(v).status \in {"pending_agent", "approved", "loading"}

RoadLocked == \E d \in doors : d.door = "approving" /\ d.part > 0
-----------------------------------------------------------------------------
(* Submitting, and sending back.                                            *)

Enter(d) ==
  /\ Cardinality(doors) < MaxDoors
  /\ doors' = doors \cup {d}

\* The door of d writes the plan: somebody may have written it since it was read.
Leave(d) ==
  /\ doors' = doors \ {d}
  /\ crossed' = IF PlanOf(d.of) = d.seen THEN crossed ELSE crossed \cup {d.of[1]}

\* It finds that it may not, and its transaction is rolled back.
Abort(d) ==
  /\ doors' = doors \ {d}
  /\ UNCHANGED <<cartonVars, plan, line, truck, crossed, astray>>

\* Road cartons are asked for when the shelf does not hold n.
RoadPart(n) == IF n > Cardinality(OnShelf) THEN n - Cardinality(OnShelf) ELSE 0

NewLine(n, part) == [n |-> n, part |-> part, owed |-> 0, missed |-> 0, verdict |-> "none"]

Submit(p, n) ==
  /\ plan[p].status = "absent"
  /\ n \in 1..(Cardinality(OnShelf) + RoadFree)
  /\ plan' = [plan EXCEPT ![p] = [status |-> "pending_agent", no |-> 1, truck |-> None]]
  /\ line' = [line EXCEPT ![<<p, 1>>] = NewLine(n, RoadPart(n))]
  /\ UNCHANGED <<cartonVars, truck, doors, crossed, astray>>

ReadToResubmit(p, n) ==
  /\ plan[p].status \in {"pending_agent", "changes_requested"}
  /\ plan[p].no < MaxVersions
  /\ n \in 1..(Cardinality(OnShelf) + RoadFree)
  /\ Enter([door |-> "submit", of |-> <<p, plan[p].no + 1>>, seen |-> plan[p],
            n |-> n, part |-> RoadPart(n), held |-> {}])
  /\ UNCHANGED <<cartonVars, plan, line, truck, crossed, astray>>

\* Two submits of one version meet at its unique number.
Resubmit(d) ==
  /\ d.door = "submit"
  /\ IF line[d.of].n > 0 THEN Abort(d) ELSE
       /\ plan' = [plan EXCEPT ![d.of[1]] = [@ EXCEPT !.status = "pending_agent", !.no = d.of[2]]]
       /\ line' = [line EXCEPT ![d.of] = NewLine(d.n, d.part)]
       /\ Leave(d)
       /\ UNCHANGED <<cartonVars, truck, astray>>

Judging(say, v) ==
  Enter([door |-> say, of |-> v, seen |-> PlanOf(v), n |-> line[v].n, part |-> line[v].part,
         held |-> {}])

ReadForVerdict(v, say) ==
  /\ line[v].verdict = "none"
  /\ PlanOf(v).status = "pending_agent" /\ Current(v)
  /\ Judging(say, v)
  /\ UNCHANGED <<cartonVars, plan, line, truck, crossed, astray>>

\* The verdict is a claim on the version: an approval half-way holds it.
Claimable(d) ==
  /\ line[d.of].verdict = "none"
  /\ \A x \in doors : x.door = "approving" => x.of # d.of

SendBack(d) ==
  /\ d.door = "send_back"
  /\ Claimable(d)
  /\ line' = [line EXCEPT ![d.of].verdict = "changes_requested"]
  /\ plan' = [plan EXCEPT ![d.of[1]].status = "changes_requested"]
  /\ Leave(d)
  /\ UNCHANGED <<cartonVars, truck, astray>>

\* The version was judged by somebody else meanwhile.
JudgedAlready(d) ==
  /\ d.door \in {"approve", "send_back"}
  /\ line[d.of].verdict # "none"
  /\ Abort(d)

-----------------------------------------------------------------------------
(* The approval.                                                            *)

\* It takes what it needs of the shelf, with the origin's road lock if it needs
\* the road, which must still have the rest to give.
Approving(d, take, enough) ==
  LET avail == OnShelf \ Held
  IN /\ d.door = "approve"
     /\ Claimable(d)
     /\ take \subseteq avail
     /\ Cardinality(take) = IF d.n < Cardinality(avail) THEN d.n ELSE Cardinality(avail)
     /\ IF enough
          THEN /\ doors' = (doors \ {d}) \cup {[d EXCEPT !.door = "approving", !.held = take]}
               /\ UNCHANGED <<cartonVars, plan, line, truck, crossed, astray>>
          ELSE Abort(d)

ShelfPart(d, take) == Cardinality(take) >= d.n - d.part
RoadHas(d, take)   == d.n - Cardinality(take) <= RoadFree

\* Two mistakes: the shelf's part is not asked for; the road is promised to
\* everybody.
ApproveShort(d, take) ==
  (d.part > 0 => ~RoadLocked) /\ Approving(d, take, d.part > 0 => RoadHas(d, take))

ApproveRoadTwice(d, take) ==
  (d.part > 0 => ~RoadLocked) /\ Approving(d, take, ShelfPart(d, take))

Approve(d, take) ==
  /\ d.part > 0 => ~RoadLocked
  /\ Approving(d, take, ShelfPart(d, take) /\ RoadHas(d, take))

\* A truck is born with the cartons reserved on it, owed the rest.
CommitApproval(d) ==
  /\ d.door = "approving"
  /\ at' = [c \in Cartons |-> IF c \in d.held THEN "planned" ELSE at[c]]
  /\ ride' = [c \in Cartons |-> IF c \in d.held THEN d.of ELSE ride[c]]
  /\ ever' = [c \in Cartons |-> IF c \in d.held THEN ever[c] \cup {d.of} ELSE ever[c]]
  /\ line' = [line EXCEPT ![d.of] = [@ EXCEPT !.verdict = "approved",
                                             !.owed = d.n - Cardinality(d.held)]]
  /\ plan' = [plan EXCEPT ![d.of[1]] = [@ EXCEPT !.status = "approved", !.truck = d.of]]
  /\ truck' = [truck EXCEPT ![d.of] = "forming"]
  /\ Leave(d)
  /\ UNCHANGED astray

-----------------------------------------------------------------------------
(* Cancelling a plan that has no truck.                                     *)

ReadToCancel(p) ==
  /\ plan[p].truck = None
  /\ plan[p].status \in {"pending_agent", "changes_requested"}
  /\ Enter([door |-> "cancel", of |-> <<p, plan[p].no>>, seen |-> plan[p], n |-> 0, part |-> 0,
            held |-> {}])
  /\ UNCHANGED <<cartonVars, plan, line, truck, crossed, astray>>

CancelPlan(d) ==
  /\ d.door = "cancel"
  /\ plan' = [plan EXCEPT ![d.of[1]].status = "cancelled"]
  /\ Leave(d)
  /\ UNCHANGED <<cartonVars, line, truck, astray>>

-----------------------------------------------------------------------------
(* Cartons landing at the origin.                                           *)

\* A carton is reserved for version v, which is owed one less.
ClaimFor(c, v, place) ==
  /\ at' = [at EXCEPT ![c] = place]
  /\ ride' = [ride EXCEPT ![c] = PlanOf(v).truck]
  /\ ever' = [ever EXCEPT ![c] = @ \cup {PlanOf(v).truck}]
  /\ line' = [line EXCEPT ![v].owed = @ - 1]

\* Never one the truck's plan reserved before.
Claims(c, v) == Owes(v) /\ PlanOf(v).truck \notin ever[c]

\* A landing asks first, without a lock, whether any plan could be owed.
StartLanding(c) ==
  /\ at[c] = "road"
  /\ at' = [at EXCEPT ![c] = IF RoadLineLives THEN "hooked" ELSE "landing"]
  /\ UNCHANGED <<ride, ever, plan, line, truck, doors, crossed, astray>>

\* A mistake: the road lock is not waited for.
LandHookedUnlocked(c) ==
  /\ at[c] = "hooked"
  /\ \/ \E v \in Versions : Claims(c, v) /\ ClaimFor(c, v, "planned")
     \/ /\ \A v \in Versions : ~Claims(c, v)
        /\ at' = [at EXCEPT ![c] = "shelf"]
        /\ UNCHANGED <<ride, ever, line>>
  /\ UNCHANGED <<plan, truck, doors, crossed, astray>>

\* If one could, the carton is reserved under the road lock as it lands.
LandHooked(c) ==
  /\ at[c] = "hooked"
  /\ ~RoadLocked
  /\ \/ \E v \in Versions : Claims(c, v) /\ ClaimFor(c, v, "planned")
     \/ /\ \A v \in Versions : ~Claims(c, v)
        /\ at' = [at EXCEPT ![c] = "shelf"]
        /\ UNCHANGED <<ride, ever, line>>
  /\ UNCHANGED <<plan, truck, doors, crossed, astray>>

LandUnhooked(c) ==
  /\ at[c] = "landing"
  /\ at' = [at EXCEPT ![c] = "shelf"]
  /\ astray' = IF RoadLineLives \/ RoadLocked THEN astray \cup {c} ELSE astray
  /\ UNCHANGED <<ride, ever, plan, line, truck, doors, crossed>>

\* It never comes: resolved lost, or its truck rerouted elsewhere.
LoseOnRoad(c) ==
  /\ at[c] = "road"
  /\ at' = [at EXCEPT ![c] = "lost"]
  /\ astray' = astray \cup {c}
  /\ UNCHANGED <<ride, ever, plan, line, truck, doors, crossed>>

-----------------------------------------------------------------------------
(* The truck.                                                               *)

\* The truck's first scan takes its plan along.
Loaded(t) ==
  /\ truck' = [truck EXCEPT ![t] = "loading"]
  /\ plan' = [p \in Plans |->
       IF truck[t] = "forming" /\ plan[p].truck = t /\ plan[p].status = "approved"
         THEN [plan[p] EXCEPT !.status = "loading"] ELSE plan[p]]

LoadPlanned(c) ==
  /\ at[c] = "planned" /\ LoadingTruck(ride[c])
  /\ at' = [at EXCEPT ![c] = "loading"]
  /\ Loaded(ride[c])
  /\ UNCHANGED <<ride, ever, line, doors, crossed, astray>>

\* A mistake: the truck's own cargo, given back, is claimed again.
LoadFromShelfAgain(c, v) ==
  /\ at[c] = "shelf" /\ c \notin Held
  /\ Owes(v)
  /\ ClaimFor(c, v, "loading")
  /\ Loaded(PlanOf(v).truck)
  /\ UNCHANGED <<doors, crossed, astray>>

\* A carton free on the shelf is claimed by the scan that loads it.
LoadFromShelf(c, v) ==
  /\ at[c] = "shelf" /\ c \notin Held
  /\ Claims(c, v)
  /\ ClaimFor(c, v, "loading")
  /\ Loaded(PlanOf(v).truck)
  /\ UNCHANGED <<doors, crossed, astray>>

GiveBack(S) ==
  /\ at' = [c \in Cartons |-> IF c \in S THEN "shelf" ELSE at[c]]
  /\ ride' = [c \in Cartons |-> IF c \in S THEN None ELSE ride[c]]

RemoveLoaded(c) ==
  /\ at[c] = "loading"
  /\ GiveBack({c})
  /\ UNCHANGED <<ever, plan, line, truck, doors, crossed, astray>>

\* What is still owed when the loading ends was missed.
CloseOwed(t) ==
  line' = [v \in Versions |->
    IF PlanOf(v).truck = t /\ Current(v) /\ line[v].verdict = "approved"
      THEN [line[v] EXCEPT !.missed = @ + line[v].owed, !.owed = 0] ELSE line[v]]

Riding(t, S) == {c \in Cartons : ride[c] = t /\ at[c] \in S}

FinishLoading(t) ==
  /\ LoadingTruck(t)
  /\ CloseOwed(t)
  /\ GiveBack(Riding(t, {"planned"}))
  /\ UNCHANGED <<ever, plan, truck, doors, crossed, astray>>

Depart(t) ==
  /\ LoadingTruck(t)
  /\ \A v \in Versions : PlanOf(v).truck = t /\ Current(v) => line[v].owed = 0
  /\ Riding(t, {"planned"}) = {} /\ Riding(t, {"loading"}) # {}
  /\ at' = [c \in Cartons |-> IF c \in Riding(t, {"loading"}) THEN "left" ELSE at[c]]
  /\ truck' = [truck EXCEPT ![t] = "left"]
  /\ plan' = [p \in Plans |-> IF plan[p].truck = t THEN [plan[p] EXCEPT !.status = "completed"] ELSE plan[p]]
  /\ UNCHANGED <<ride, ever, line, doors, crossed, astray>>

\* A mistake: the truck is cancelled and its plan left standing.
CancelTruckAlone(t) ==
  /\ LoadingTruck(t)
  /\ CloseOwed(t)
  /\ GiveBack(Riding(t, {"planned", "loading"}))
  /\ truck' = [truck EXCEPT ![t] = "cancelled"]
  /\ UNCHANGED <<ever, plan, doors, crossed, astray>>

\* The truck's plan goes with it.
CancelTruck(t) ==
  /\ LoadingTruck(t)
  /\ CloseOwed(t)
  /\ GiveBack(Riding(t, {"planned", "loading"}))
  /\ truck' = [truck EXCEPT ![t] = "cancelled"]
  /\ plan' = [p \in Plans |-> IF plan[p].truck = t THEN [plan[p] EXCEPT !.status = "cancelled"] ELSE plan[p]]
  /\ UNCHANGED <<ever, doors, crossed, astray>>

Next ==
  \/ \E p \in Plans : \/ \E n \in 1..Size : Submit(p, n) \/ ReadToResubmit(p, n)
                      \/ ReadToCancel(p)
  \/ \E v \in Versions, say \in {"approve", "send_back"} : ReadForVerdict(v, say)
  \/ \E d \in doors : \/ Resubmit(d) \/ SendBack(d) \/ JudgedAlready(d) \/ CancelPlan(d)
                      \/ \E take \in SUBSET Cartons : Approve(d, take)
                      \/ CommitApproval(d)
  \/ \E c \in Cartons : \/ StartLanding(c) \/ LandHooked(c) \/ LandUnhooked(c) \/ LoseOnRoad(c)
                        \/ LoadPlanned(c) \/ RemoveLoaded(c)
                        \/ \E v \in Versions : LoadFromShelf(c, v)
  \/ \E t \in Trucks : FinishLoading(t) \/ Depart(t) \/ CancelTruck(t)

Spec == Init /\ [][Next]_vars

-----------------------------------------------------------------------------
\* Of what a plan was approved for, every carton was once reserved for its truck,
\* is still owed to it, or was missed: none is counted twice, none forgotten,
\* unless two doors of the plan crossed.
PromiseAccounted ==
  \A v \in Versions : v[1] \notin crossed /\ line[v].verdict = "approved" =>
    Cardinality({c \in Cartons : v \in ever[c]}) + line[v].owed + line[v].missed = line[v].n

\* What all trucks together are owed is on the road still, unless it got lost
\* there or landed past a plan being made, or two doors of a plan crossed.
RoadNotOverpromised == crossed = {} => TotalOwed <= Cardinality(OnRoad \cup astray)

\* No carton stands on the shelf, free and never yet reserved, while a truck is
\* owed one: an approval and a landing never miss each other, unless two doors of
\* the plan crossed.
LandedIsClaimed ==
  \A c \in OnShelf \ (astray \cup Held) : ever[c] = {} =>
    \A v \in Versions : v[1] \notin crossed => ~Owes(v)

\* A plan that lives after its approval has exactly its truck, and a plan that
\* was cancelled has none, unless two doors of the plan crossed.
PlanFollowsTruck ==
  \A p \in Plans \ crossed :
    LET alive == {t \in Trucks : t[1] = p /\ LoadingTruck(t)}
    IN alive = IF plan[p].status \in {"approved", "loading"} THEN {plan[p].truck} ELSE {}

-----------------------------------------------------------------------------
\* What planning/service.ts:533 says, and the code does not keep: a plan is
\* cancelled before its approval or with its truck, so no carton is left reserved
\* against a plan that no longer exists.
NothingReservedForCancelled ==
  \A c \in Cartons : at[c] \in {"planned", "loading"} => plan[ride[c][1]].status # "cancelled"
=============================================================================
