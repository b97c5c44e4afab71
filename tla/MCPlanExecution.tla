-------------------------- MODULE MCPlanExecution --------------------------
(***************************************************************************)
(* TLC instances of PlanExecution: two steps per plan, every combination   *)
(* of flags, of declared and of assessed risks, and the four outcomes a    *)
(* job may have.                                                           *)
(***************************************************************************)
EXTENDS PlanExecution

MCJobStatus == {"Succeeded", "Failed", "RolledBack", "NeedsReboot"}

=============================================================================
