------------------------------ MODULE ToolLaws ------------------------------
(***************************************************************************)
(* How the verdict over a request of an agent moves as the agent is        *)
(* contained or constrained, as its tool policy is tightened, and as the   *)
(* session becomes less trustworthy.  A state is one combination; a step   *)
(* is one such change, and there are at most MaxSteps of them.             *)
(***************************************************************************)
EXTENDS ToolAuthorization

CONSTANTS LooseAgent,   \* an agent that is active and may do everything
          LoosePolicy,  \* a policy whose one rule its session meets
          LooseContext, \* a session that meets every condition
          Needed,       \* requests to look at
          Tools, Capabilities, Destinations, Tags,
          MaxSteps

(* A limit or a list that is not set is None; calls are counted from 0.    *)
Limit == Nat \cup {None}
Agents == [status : {"active", "suspended"}, declared : SUBSET Tools, blocked : SUBSET Tools,
           capabilities : SUBSET Capabilities, sensitivity : Limit, approval : BOOLEAN,
           maxCalls : Limit, blockedTargets : SUBSET Destinations,
           allowedTargets : {None} \cup SUBSET Destinations]
Rules == [tool : Tools, sensitivity : Limit, consent : BOOLEAN, maxCalls : Limit, trust : Limit,
          tags : {None} \cup SUBSET Tags]
ToolPolicies == [rules : Seq(Rules), default : Verdicts]
Sessions == [sensitivity : Limit, consent : BOOLEAN, approved : BOOLEAN, calls : Nat, trust : Nat,
             tags : SUBSET Tags]

InputsTyped ==
    /\ None \notin Int /\ None # {} /\ None \notin Agents
    /\ LooseAgent \in Agents /\ LoosePolicy \in ToolPolicies /\ LooseContext \in Sessions
    /\ \A q \in Needed : q.target \in Destinations

VARIABLES agent, policy, request, context, steps
vars == <<agent, policy, request, context, steps>>

Init == /\ agent = LooseAgent /\ policy = LoosePolicy /\ context = LooseContext
        /\ request \in Needed /\ steps = 0

(* The smaller limits, where None is no limit; 0 is the rank of a label    *)
(* that the program does not know.                                         *)
Below(limit) == IF limit = None THEN 0..3 ELSE 0..limit - 1

(* set_agent_status, set_tool_block, and a registration that declares less *)
(* or sets one more operational constraint.                                *)
Constrain ==
    /\ agent' \in {[agent EXCEPT !.status = "suspended"], [agent EXCEPT !.approval = TRUE]}
           \cup {[agent EXCEPT !.blocked = @ \cup {t}] : t \in agent.declared}
           \cup {[agent EXCEPT !.declared = @ \ {t}] : t \in agent.declared}
           \cup {[agent EXCEPT !.capabilities = @ \ {c}] : c \in agent.capabilities}
           \cup {[agent EXCEPT !.sensitivity = s] : s \in Below(agent.sensitivity)}
           \cup {[agent EXCEPT !.maxCalls = n] : n \in Below(agent.maxCalls)}
           \cup {[agent EXCEPT !.blockedTargets = @ \cup {request.target}]}
           \cup {[agent EXCEPT !.allowedTargets = IF @ = None THEN {request.target} ELSE {}]}
    /\ UNCHANGED <<policy, context>>

(* create_policy with a stricter rule or default, and delete_policy.       *)
Tighten ==
    /\ \/ policy' \in {None, DeletedPolicy}
       \/ policy # None /\ policy' = [policy EXCEPT !.default = "DENY"]
       \/ /\ policy # None /\ policy.rules # <<>>
          /\ LET rule == Head(policy.rules)
             IN \E stricter \in {[rule EXCEPT !.consent = TRUE]}
                       \cup {[rule EXCEPT !.sensitivity = s] : s \in Below(rule.sensitivity)}
                       \cup {[rule EXCEPT !.maxCalls = n] : n \in Below(rule.maxCalls)}
                       \cup {[rule EXCEPT !.trust = r] :
                                r \in IF rule.trust = None THEN 0..3 ELSE rule.trust + 1..3}
                       \cup {[rule EXCEPT !.tags = IF @ = None THEN context.tags ELSE {}]} :
                    policy' = [policy EXCEPT !.rules[1] = stricter]
    /\ UNCHANGED <<agent, context>>

(* What the client says of its session: more sensitive data, one more      *)
(* call, less trust, a consent withdrawn.                                  *)
Escalate ==
    /\ context' \in {[context EXCEPT !.consent = FALSE], [context EXCEPT !.approved = FALSE],
                     [context EXCEPT !.calls = @ + 1]}
           \cup {[context EXCEPT !.tags = @ \ {t}] : t \in context.tags}
           \cup {[context EXCEPT !.trust = r] : r \in 0..context.trust - 1}
           \cup {[context EXCEPT !.sensitivity = s] : s \in Sensitivity(context) + 1..4}
    /\ UNCHANGED <<agent, policy>>

Next == /\ Constrain \/ Tighten \/ Escalate
        /\ steps < MaxSteps /\ steps' = steps + 1 /\ UNCHANGED request
Spec == Init /\ [][Next]_vars
-----------------------------------------------------------------------------
Leniency == [DENY |-> 0, CONDITIONAL |-> 1, ALLOW |-> 2]

(* The verdict of decide_egress over what the agent's own record and its   *)
(* tool policy say.                                                        *)
Now == Combine({ConstraintVerdict(agent, request, context)}
               \cup {ToolVerdict(agent, policy, request.target, context) : c \in {"tool"} \cap {request.channel}})

(* No restriction of an agent, of its policy or of the trust in its        *)
(* session makes the verdict more lenient; no condition that is newly      *)
(* unmet hides a denial, and a label that is not known counts as the       *)
(* strictest of limits and the least of trusts.                            *)
RestrictionsNeverGrant == [][Leniency[Now'] <= Leniency[Now]]_vars
=============================================================================
