--------------------------- MODULE SecurityBaseline ----------------------------
(***************************************************************************)
(* SecurityBaseline of the child scheduler                                 *)
(* (crates/adk-runtime/src/subagent.rs): how a parent's baseline narrows a *)
(* child's, the check that lets a saved child go on under a newer          *)
(* baseline, and what the tool policy inside it decides about a call       *)
(* (crates/adk-core/src/policy.rs).  An Option is the set of its values:   *)
(* None is {}, Some(x) is {x}.                                             *)
(***************************************************************************)
EXTENDS Naturals

CONSTANTS ToolNames, GuardrailNames

(* AccessMode by access_rank: ReadOnly, WorkspaceWrite, FullAccess.        *)
AccessRanks == 0..2
Limits == {{}} \cup {{n} : n \in Nat}
Allowlists == {{}} \cup {{s} : s \in SUBSET ToolNames}

ToolPolicies ==
    [access : AccessRanks, allowed_tools : Allowlists, denied_tools : SUBSET ToolNames,
     allowed_mutating_tools : SUBSET ToolNames, approval : {"All", "RequiredByTool"},
     timeout : Limits]

Baselines ==
    [tools : ToolPolicies, input_guardrails : SUBSET GuardrailNames,
     output_guardrails : SUBSET GuardrailNames, untrusted_tool_outputs : BOOLEAN,
     max_output_bytes : Limits]

min_limit(a, b) == {m \in a \cup b : \A n \in a \cup b : m <= n}

narrower_limit(saved, current) == \A m \in saved : \E n \in current : n <= m

common_tools(a, b) ==
    IF a # {} /\ b # {} THEN {s \cap t : s \in a, t \in b} ELSE a \cup b

narrow_policy(a, b) ==
    [access |-> IF a.access <= b.access THEN a.access ELSE b.access,
     allowed_tools |-> common_tools(a.allowed_tools, b.allowed_tools),
     denied_tools |-> a.denied_tools \cup b.denied_tools,
     allowed_mutating_tools |-> a.allowed_mutating_tools \cap b.allowed_mutating_tools,
     approval |-> IF "All" \in {a.approval, b.approval} THEN "All" ELSE "RequiredByTool",
     timeout |-> min_limit(a.timeout, b.timeout)]

narrow(a, b) ==
    [tools |-> narrow_policy(a.tools, b.tools),
     input_guardrails |-> a.input_guardrails \cup b.input_guardrails,
     output_guardrails |-> a.output_guardrails \cup b.output_guardrails,
     untrusted_tool_outputs |-> a.untrusted_tool_outputs \/ b.untrusted_tool_outputs,
     max_output_bytes |-> min_limit(a.max_output_bytes, b.max_output_bytes)]

policy_allows(a, b) ==
    /\ b.access <= a.access
    /\ \A s \in a.allowed_tools : \E t \in b.allowed_tools : t \subseteq s
    /\ a.denied_tools \subseteq b.denied_tools
    /\ b.allowed_mutating_tools \subseteq a.allowed_mutating_tools
    /\ a.approval = "All" => b.approval = "All"
    /\ narrower_limit(a.timeout, b.timeout)

(* A child saved under a may resume under b.                               *)
allows_resume_under(a, b) ==
    /\ policy_allows(a.tools, b.tools)
    /\ a.input_guardrails \subseteq b.input_guardrails
    /\ a.output_guardrails \subseteq b.output_guardrails
    /\ a.untrusted_tool_outputs => b.untrusted_tool_outputs
    /\ narrower_limit(a.max_output_bytes, b.max_output_bytes)

--------------------------------------------------------------------------------
Tools == [name : ToolNames, read_only : BOOLEAN, requires_approval : BOOLEAN]

Denied(policy, tool) ==
    \/ tool.name \in policy.denied_tools
    \/ \E s \in policy.allowed_tools : tool.name \notin s
    \/ /\ policy.access = 0
       /\ ~tool.read_only
       /\ tool.name \notin policy.allowed_mutating_tools

(* ToolPolicy::decision.                                                   *)
decision(policy, tool) ==
    IF Denied(policy, tool) THEN "Deny"
    ELSE IF tool.requires_approval \/ policy.approval = "All" THEN "RequireApproval"
    ELSE "Allow"
================================================================================
