--------------------------- MODULE ApprovalPolicy ---------------------------
(***************************************************************************)
(* The pure decisions about risk: the CLI's approval policy (approval.rs)  *)
(* and the MCP server's ceiling (mcp_server.rs).                           *)
(***************************************************************************)
EXTENDS Integers

\* Low, Medium, High, as their ordinals; None where no --max-risk was given.
Low == 0
Medium == 1
High == 2
Risk == Low .. High
None == -1

HARDCODED_MAX_AUTO_APPROVE == Medium

\* MaxRisk::includes
includes(ceiling, risk) == risk <= ceiling

\* ApprovalPolicy: the flags --yes, --max-risk, --non-interactive, --dry-run.
Policy == [yes : BOOLEAN, max_risk : Risk \union {None},
           non_interactive : BOOLEAN, dry_run : BOOLEAN]

Decision == {"AutoApproved", "RequiresPrompt", "RequiresInteraction", "ExceedsCeiling"}

\* Mutant of effective_auto_ceiling: --max-risk high is taken at its word.
auto_ceiling_unclamped(p) ==
    IF ~ p.yes THEN None ELSE IF p.max_risk = None THEN Low ELSE p.max_risk

\* None without --yes; a bare --yes means Low; never above Medium.
effective_auto_ceiling(p) ==
    LET requested == IF p.max_risk = None THEN Low ELSE p.max_risk
    IN  IF ~ p.yes THEN None
        ELSE IF requested <= HARDCODED_MAX_AUTO_APPROVE THEN requested
        ELSE HARDCODED_MAX_AUTO_APPROVE

decide_step(p, risk) ==
    IF p.dry_run THEN "AutoApproved"
    ELSE IF p.max_risk # None /\ ~ includes(p.max_risk, risk) THEN "ExceedsCeiling"
    ELSE IF includes(effective_auto_ceiling(p), risk) THEN "AutoApproved"
    ELSE IF p.non_interactive THEN "RequiresInteraction"
    ELSE "RequiresPrompt"

\* The first step, in plan order, whose decision ends the plan; otherwise a
\* prompt if any step needs one.  plan is a function from 1..n to Risk.
decide_plan(p, plan) ==
    LET ends == {i \in DOMAIN plan :
                    decide_step(p, plan[i]) \in {"ExceedsCeiling", "RequiresInteraction"}}
        first == CHOOSE i \in ends : \A j \in ends : i <= j
    IN  IF ends # {} THEN decide_step(p, plan[first])
        ELSE IF \E i \in DOMAIN plan : decide_step(p, plan[i]) = "RequiresPrompt"
             THEN "RequiresPrompt" ELSE "AutoApproved"

\* parse_max_risk: None is Medium, High is refused.
mcp_ceiling(max_risk) == IF max_risk = None THEN Medium ELSE max_risk
mcp_accepts(max_risk) == mcp_ceiling(max_risk) < High

=============================================================================
