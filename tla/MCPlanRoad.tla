----------------------------- MODULE MCPlanRoad -----------------------------
(***************************************************************************)
(* Small instances of PlanRoad for TLC, in one run: one plan in two        *)
(* versions, or two plans of one version each.                             *)
(***************************************************************************)
EXTENDS PlanRoad, TLC

Symmetry == Permutations(Cartons) \cup Permutations(Plans)

Small == (\E v \in Versions : v[2] = 2 /\ line[v].n > 0) => \E p \in Plans : plan[p].status = "absent"
=============================================================================
