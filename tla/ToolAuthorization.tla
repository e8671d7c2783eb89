------------------------- MODULE ToolAuthorization -------------------------
(***************************************************************************)
(* The verdicts over one request of one agent: the tool policies of        *)
(* core/tool_authorization.py, and the capabilities and operational        *)
(* constraints that core/egress_firewall.py looks at.                      *)
(*                                                                         *)
(* Labels of data sensitivity and of trust are their ranks, 0 for one that *)
(* the program does not know.  None stands for a constraint or a condition *)
(* that is not set.  A list of target patterns is the set of the targets   *)
(* that it matches.                                                        *)
(*   agent   : status, declared, blocked, capabilities, and constraints    *)
(*             sensitivity, approval, maxCalls, blockedTargets,            *)
(*             allowedTargets                                              *)
(*   policy  : rules : Seq([tool, sensitivity, consent, maxCalls, trust,   *)
(*             tags]), default                                             *)
(*   request : channel, target, needs (capabilities)                       *)
(*   context : sensitivity (0, or None when it is not sent), consent,      *)
(*             approved, calls, trust, tags                                *)
(***************************************************************************)
EXTENDS Integers, Sequences, FiniteSets

CONSTANT None

Verdicts == {"ALLOW", "CONDITIONAL", "DENY"}

(* _DATA_SENSITIVITY_RANK; a request without a label is of public data.    *)
PublicRank == 1
Sensitivity(context) == IF context.sensitivity = None THEN PublicRank ELSE context.sensitivity

UnmetKnownOnly(rule, context) ==  \* mutant: a request with an unknown trust label passes
    {c \in {"sensitivity", "consent", "maxCalls", "trust", "tags"} :
        \/ c = "sensitivity" /\ rule.sensitivity # None /\ Sensitivity(context) > rule.sensitivity
        \/ c = "consent" /\ rule.consent /\ ~context.consent
        \/ c = "maxCalls" /\ rule.maxCalls # None /\ context.calls >= rule.maxCalls
        \/ c = "trust" /\ rule.trust # None /\ context.trust \in 1..rule.trust - 1
        \/ c = "tags" /\ rule.tags # None /\ context.tags \cap rule.tags = {}}

(* The allow_if conditions of a rule that the context does not meet.       *)
Unmet(rule, context) ==
    {c \in {"sensitivity", "consent", "maxCalls", "trust", "tags"} :
        \/ c = "sensitivity" /\ rule.sensitivity # None /\ Sensitivity(context) > rule.sensitivity
        \/ c = "consent" /\ rule.consent /\ ~context.consent
        \/ c = "maxCalls" /\ rule.maxCalls # None /\ context.calls >= rule.maxCalls
        \/ c = "trust" /\ rule.trust # None /\ context.trust < rule.trust
        \/ c = "tags" /\ rule.tags # None /\ context.tags \cap rule.tags = {}}

(* The positions of the rules for a tool.                                  *)
RulesFor(policy, tool) == {i \in DOMAIN policy.rules : policy.rules[i].tool = tool}

(* What a stored policy says of a tool: its first rule for the tool, or    *)
(* the default.                                                            *)
PolicyVerdict(policy, tool, context) ==
    LET first == CHOOSE i \in RulesFor(policy, tool) : \A j \in RulesFor(policy, tool) : i <= j
    IN IF policy = None THEN "DENY"
       ELSE IF RulesFor(policy, tool) = {} THEN policy.default
       ELSE IF Unmet(policy.rules[first], context) = {} THEN "ALLOW" ELSE "CONDITIONAL"

(* The agent must be registered and active, have declared the tool, and    *)
(* not have it blocked.                                                    *)
MayUse(agent, tool) ==
    agent # None /\ agent.status = "active" /\ tool \in agent.declared \ agent.blocked

(* authorize                                                               *)
ToolVerdict(agent, policy, tool, context) ==
    IF MayUse(agent, tool) THEN PolicyVerdict(policy, tool, context) ELSE "DENY"

(* delete_policy keeps the row and denies everything.                      *)
DeletedPolicy == [rules |-> <<>>, default |-> "DENY"]
-----------------------------------------------------------------------------
Egress == {"network", "data"}

(* _constraint_decision: the reasons to deny, and the conditions.          *)
Breaches(agent, request) ==
    {b \in {"capabilities", "blockedTarget", "allowedTargets"} :
        \/ b = "capabilities" /\ ~(request.needs \subseteq agent.capabilities)
        \/ b = "blockedTarget" /\ request.channel \in Egress
                               /\ request.target \in agent.blockedTargets
        \/ b = "allowedTargets" /\ request.channel \in Egress /\ agent.allowedTargets # None
                                /\ request.target \notin agent.allowedTargets}

(* A label that is not sent exceeds nothing.                               *)
Pending(agent, request, context) ==
    {p \in {"sensitivity", "approval", "maxCalls"} :
        \/ p = "sensitivity" /\ agent.sensitivity # None /\ context.sensitivity # None
                             /\ context.sensitivity > agent.sensitivity
        \/ p = "approval" /\ request.channel \in Egress /\ agent.approval
                          /\ ~context.approved /\ ~context.consent
        \/ p = "maxCalls" /\ request.channel = "tool" /\ agent.maxCalls # None
                          /\ context.calls >= agent.maxCalls}

ConstraintConditionsFirst(agent, request, context) ==  \* mutant: a condition hides a breach
    IF Pending(agent, request, context) # {} THEN "CONDITIONAL"
    ELSE IF Breaches(agent, request) # {} THEN "DENY" ELSE "ALLOW"

ConstraintVerdict(agent, request, context) ==
    IF Breaches(agent, request) # {} THEN "DENY"
    ELSE IF Pending(agent, request, context) # {} THEN "CONDITIONAL" ELSE "ALLOW"

CombineLatest(verdicts) == \* mutant: a condition hides a denial
    IF "CONDITIONAL" \in verdicts THEN "CONDITIONAL"
    ELSE IF "DENY" \in verdicts THEN "DENY" ELSE "ALLOW"

(* _combine_verdicts                                                       *)
Combine(verdicts) ==
    IF "DENY" \in verdicts THEN "DENY"
    ELSE IF "CONDITIONAL" \in verdicts THEN "CONDITIONAL" ELSE "ALLOW"
=============================================================================
