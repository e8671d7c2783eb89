--------------------------- MODULE RuntimePolicy ---------------------------
(***************************************************************************)
(* The pure decision that AgentRuntimeEngine.authorize takes before it     *)
(* touches the store: which reasons speak against a tool invocation, which *)
(* call for a human, and the verdict they give together.                   *)
(*                                                                         *)
(* A policy, an artifact and an invocation are records; tools, actions,    *)
(* permissions and workflow steps are opaque values.  None stands for the  *)
(* Python None / empty string.                                             *)
(*   policy   : allowedTools, deniedTools, allowedPerms, deniedPerms,      *)
(*              reviewTools, approvalActions : sets;                       *)
(*              requireDeclared, bindSteps, validateExternal : BOOLEAN;    *)
(*              limit : Int or NoLimit                                     *)
(*   artifact : tools, perms : sets; steps : [StepId -> step],             *)
(*              step : [tool, action, perms]                               *)
(*   payload  : tool, action, perms, step, untrusted, validated, approved  *)
(***************************************************************************)
EXTENDS Integers

CONSTANTS None,             \* absent value
          ExternalTools,    \* EXTERNAL_TOOLS
          ExternalAction    \* the action name "external_call"

Decisions == {"ALLOW", "REQUIRE_APPROVAL", "DENY"}

(* An empty allowlist restricts nothing: "if allowed_tools and ...".        *)
Outside(x, allowlist) == allowlist # {} /\ x \notin allowlist

(* _is_external: the tool is external, or the action says so, or the input *)
(* comes from an external, untrusted or user source.                       *)
IsExternal(p) ==
    \/ p.tool \in ExternalTools
    \/ p.action = ExternalAction
    \/ p.untrusted

ToolReasonsUnlessReviewed(policy, artifact, p) ==  \* mutant: a reviewed tool needs no allowlist
    {c \in {"denied_tool", "disallowed_tool", "undeclared_tool"} :
        \/ c = "denied_tool" /\ p.tool \in policy.deniedTools
        \/ c = "disallowed_tool" /\ Outside(p.tool, policy.allowedTools \cup policy.reviewTools)
        \/ c = "undeclared_tool" /\ policy.requireDeclared
                                 /\ p.tool \notin artifact.tools}

ToolReasons(policy, artifact, p) ==
    {c \in {"denied_tool", "disallowed_tool", "undeclared_tool"} :
        \/ c = "denied_tool" /\ p.tool \in policy.deniedTools
        \/ c = "disallowed_tool" /\ Outside(p.tool, policy.allowedTools)
        \/ c = "undeclared_tool" /\ policy.requireDeclared
                                 /\ p.tool \notin artifact.tools}

PermissionReasons(policy, artifact, p) ==
    {c \in {"denied_permission", "disallowed_permission", "undeclared_permission"} :
        \E perm \in p.perms :
            \/ c = "denied_permission" /\ perm \in policy.deniedPerms
            \/ c = "disallowed_permission" /\ Outside(perm, policy.allowedPerms)
            \/ c = "undeclared_permission" /\ perm \notin artifact.perms}

(* A step is bound when the request names one the artifact declares.       *)
Bound(artifact, p) == p.step # None /\ p.step \in DOMAIN artifact.steps

BindingReasons(policy, artifact, p) ==
    {c \in {"workflow_step_binding_required", "unknown_workflow_step"} :
        /\ policy.bindSteps
        /\ \/ c = "workflow_step_binding_required" /\ p.step = None
           \/ c = "unknown_workflow_step" /\ p.step # None /\ ~Bound(artifact, p)}

(* A bound step is enforced even when the policy does not require binding. *)
StepReasonsAnyPermission(artifact, p) ==     \* mutant: a step never limits permissions
    {c \in {"workflow_tool_mismatch", "workflow_action_mismatch"} :
        /\ Bound(artifact, p)
        /\ LET step == artifact.steps[p.step]
           IN \/ c = "workflow_tool_mismatch" /\ step.tool \notin {None, p.tool}
              \/ c = "workflow_action_mismatch" /\ step.action \notin {None, p.action}}

StepReasonsExact(artifact, p) ==     \* mutant: a step needs all its permissions
    {c \in {"workflow_permission_escalation"} :
        Bound(artifact, p) /\ p.perms # artifact.steps[p.step].perms}

StepReasons(artifact, p) ==
    {c \in {"workflow_tool_mismatch", "workflow_action_mismatch",
            "workflow_permission_escalation"} :
        /\ Bound(artifact, p)
        /\ LET step == artifact.steps[p.step]
           IN \/ c = "workflow_tool_mismatch" /\ step.tool \notin {None, p.tool}
              \/ c = "workflow_action_mismatch" /\ step.action \notin {None, p.action}
              \/ c = "workflow_permission_escalation" /\ ~(p.perms \subseteq step.perms)}

ValidationReasons(policy, p) ==
    {c \in {"external_input_validation_required"} :
        IsExternal(p) /\ policy.validateExternal /\ ~p.validated}

DenyReasonsOfStep(policy, artifact, p) ==  \* mutant: a step replaces the allowlists
    IF Bound(artifact, p) THEN StepReasons(artifact, p) \cup ValidationReasons(policy, p)
    ELSE UNION {ToolReasons(policy, artifact, p), PermissionReasons(policy, artifact, p),
                BindingReasons(policy, artifact, p), ValidationReasons(policy, p)}

DenyReasons(policy, artifact, p) ==
    UNION {ToolReasons(policy, artifact, p), PermissionReasons(policy, artifact, p),
           BindingReasons(policy, artifact, p), StepReasons(artifact, p),
           ValidationReasons(policy, p)}

ApprovalReasons(policy, p) ==
    {c \in {"tool_approval_required", "action_approval_required"} :
        \/ c = "tool_approval_required" /\ p.tool \in policy.reviewTools
        \/ c = "action_approval_required" /\ p.action \in policy.approvalActions}

VerdictApprovalFirst(policy, artifact, p) ==  \* mutant: an approval settles everything
    IF p.approved THEN "ALLOW"
    ELSE IF DenyReasons(policy, artifact, p) # {} THEN "DENY"
    ELSE IF ApprovalReasons(policy, p) # {} THEN "REQUIRE_APPROVAL"
    ELSE "ALLOW"

(* The verdict: any deny reason denies; an approval reason without both an *)
(* approval id and an approver asks for approval; otherwise allow.         *)
Verdict(policy, artifact, p) ==
    IF DenyReasons(policy, artifact, p) # {} THEN "DENY"
    ELSE IF ApprovalReasons(policy, p) # {} /\ ~p.approved THEN "REQUIRE_APPROVAL"
    ELSE "ALLOW"

(* The reasons that are recorded with it.                                  *)
Reasons(policy, artifact, p) ==
    IF DenyReasons(policy, artifact, p) # {} THEN DenyReasons(policy, artifact, p)
    ELSE IF p.approved THEN {} ELSE ApprovalReasons(policy, p)
=============================================================================
