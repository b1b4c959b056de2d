-------------------------- MODULE MCPlannerWorker --------------------------
(***************************************************************************)
(* PlannerWorker for TLC.                                                  *)
(***************************************************************************)
EXTENDS PlannerWorker, TLC

WorkerSymmetry == Permutations(Runtimes) \cup Permutations(Requests)

=============================================================================
