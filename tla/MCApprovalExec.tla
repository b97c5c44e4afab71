--------------------------- MODULE MCApprovalExec ---------------------------
(***************************************************************************)
(* TLC instances of ApprovalExec.  Request "plain" is an Observer action   *)
(* without a rollback; "upgrade" is a Developer action that needs a reboot *)
(* and has a rollback; "kargs" declares rollback_available without a       *)
(* rollback spec (GrubSetKargs, NetplanSet, ProAttach).                    *)
(***************************************************************************)
EXTENDS ApprovalExec, TLC

MCValid == Request \ {"bogus"}
MCMinRole == [r \in Request |-> IF r = "plain" THEN 0 ELSE 1]
MCRebootRequired == {"upgrade"} \intersect Request
MCRollbackAvailable == {"upgrade", "kargs"} \intersect Request
MCHasRollbackSpec == {"upgrade"} \intersect Request

Symmetry == Permutations(Conn) \union Permutations(Tx)

=============================================================================
