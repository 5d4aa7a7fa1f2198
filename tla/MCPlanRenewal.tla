---------------------------- MODULE MCPlanRenewal ----------------------------
(***************************************************************************)
(* PlanRenewal for TLC: handlers are interchangeable.                      *)
(***************************************************************************)
EXTENDS PlanRenewal, TLC

Interchangeable == Permutations(Handlers)
===============================================================================
