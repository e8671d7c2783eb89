---------------------------- MODULE VerdictLaws ----------------------------
(***************************************************************************)
(* The verdicts that the program computes from what it was given, and how  *)
(* they move when one input changes: of authorize over a session (below),  *)
(* of the egress firewall over an agent's record and tool policy           *)
(* (ToolLaws), and of the adoption engine over the evidence of a model     *)
(* (AdoptionLaws).  And what is reported of a workflow, next to the runs   *)
(* of that workflow (WorkflowGraph).                                       *)
(*                                                                         *)
(* The first of them: a state is a policy, the artifact of an agent and a  *)
(* request; a step is one change that an operator or a client can make.    *)
(***************************************************************************)
EXTENDS RuntimePolicy, WorkflowGraph

CONSTANTS Policies, Artifacts, Payloads,  \* the combinations to start from
          Tools, Permissions, Actions, StepIds,
          LooseAgent, LoosePolicy, LooseContext, Needed, Capabilities, Destinations, Tags, MaxSteps,
          Absent, Contexts, Found, MaxChanged

VARIABLES policy, artifact, payload
vars == <<policy, artifact, payload>>

(* What policies, artifacts and requests are made of.                      *)
PolicyRecords ==
    [allowedTools : SUBSET Tools, deniedTools : SUBSET Tools, reviewTools : SUBSET Tools,
     allowedPerms : SUBSET Permissions, deniedPerms : SUBSET Permissions,
     approvalActions : SUBSET Actions,
     requireDeclared : BOOLEAN, bindSteps : BOOLEAN, validateExternal : BOOLEAN]
StepRecords == [tool : Tools \cup {None}, action : Actions \cup {None}, perms : SUBSET Permissions]
ArtifactRecords == [tools : SUBSET Tools, perms : SUBSET Permissions, steps : [StepIds -> StepRecords]]
PayloadRecords ==
    [tool : Tools, action : Actions, perms : SUBSET Permissions, step : StepIds \cup {None},
     untrusted : BOOLEAN, validated : BOOLEAN, approved : BOOLEAN]

Init == policy \in Policies /\ artifact \in Artifacts /\ payload \in Payloads

(* The client comes back with an approval id and an approver.              *)
Approve == /\ payload' = [payload EXCEPT !.approved = TRUE]
           /\ UNCHANGED <<policy, artifact>>

(* The client asks for one permission less.                                *)
Narrow == /\ \E perm \in payload.perms :
                payload' = [payload EXCEPT !.perms = @ \ {perm}]
          /\ UNCHANGED <<policy, artifact>>

(* The client names a workflow step it had left out.                       *)
BindStep == /\ payload.step = None
            /\ \E id \in DOMAIN artifact.steps : payload' = [payload EXCEPT !.step = id]
            /\ UNCHANGED <<policy, artifact>>

(* The operator denies or puts under review one more tool or permission,   *)
(* or shortens an allowlist.                                               *)
Tighten ==
    /\ \/ \E t \in {payload.tool} :
             policy' \in {[policy EXCEPT !.deniedTools = @ \cup {t}],
                          [policy EXCEPT !.reviewTools = @ \cup {t}]}
       \/ \E perm \in payload.perms :
             policy' = [policy EXCEPT !.deniedPerms = @ \cup {perm}]
       \/ \E t \in policy.allowedTools :
             /\ policy.allowedTools # {t}
             /\ policy' = [policy EXCEPT !.allowedTools = @ \ {t}]
       \/ policy' = [policy EXCEPT !.requireDeclared = TRUE, !.validateExternal = TRUE]
    /\ UNCHANGED <<artifact, payload>>

Next == Approve \/ Narrow \/ BindStep \/ Tighten

-----------------------------------------------------------------------------
Now == Verdict(policy, artifact, payload)
NoStricter(new, old) == old = "ALLOW" => new = "ALLOW"
DeniedStays(new, old) == old = "DENY" => new = "DENY"

(* An approval turns REQUIRE_APPROVAL into ALLOW and changes nothing else; *)
(* in particular no approval lifts a denial.                               *)
ApprovalOnlyAnswersApproval ==
    [][Approve => Now' = IF Now = "REQUIRE_APPROVAL" THEN "ALLOW" ELSE Now]_vars

(* Asking for less never costs a permission that asking for more had: no   *)
(* rule demands that a permission be requested.                            *)
LeastPrivilegeIsFree ==
    [][Narrow => NoStricter(Now', Now) /\ (Now = "REQUIRE_APPROVAL" => Now' # "DENY")]_vars

(* Workflow steps only restrict.  Naming one grants nothing, unless the    *)
(* policy demands one; and where it does, a call with no step, or one that *)
(* goes beyond the tool and permissions of its step, is denied whatever    *)
(* the allowlists say.                                                     *)
StepsOnlyRestrict ==
    /\ [][BindStep /\ ~policy.bindSteps => DeniedStays(Now', Now) /\ NoStricter(Now, Now')]_vars
    /\ [](policy.bindSteps /\ Now # "DENY" =>
            LET step == artifact.steps[payload.step]
            IN /\ Bound(artifact, payload)
               /\ payload.perms \subseteq step.perms
               /\ step.tool \in {None, payload.tool})

(* A stricter policy never grants more.                                    *)
TighteningNeverGrants ==
    [][Tighten => DeniedStays(Now', Now) /\ NoStricter(Now, Now')]_vars
-----------------------------------------------------------------------------
VARIABLES verdictOf,   \* which of the four this behaviour is about
          agent, toolPolicy, request, session, steps,
          evidence, use, adoption
toolVars == <<agent, toolPolicy, request, session, steps>>
adoptionVars == <<evidence, use, adoption>>

ToolsOf == INSTANCE ToolLaws WITH policy <- toolPolicy, context <- session
Adoption == INSTANCE AdoptionLaws WITH context <- use, verdict <- adoption

ASSUME LawsAssumption ==
    /\ Policies \subseteq PolicyRecords /\ Artifacts \subseteq ArtifactRecords
    /\ Payloads \subseteq PayloadRecords /\ None \notin StepIds
    /\ ToolsOf!InputsTyped /\ Adoption!InputsTyped
    /\ Policies # {} /\ Artifacts # {} /\ Payloads # {} /\ Needed # {} /\ Contexts # {} /\ Workflows # {}

(* Only the inputs of the verdict that a behaviour is about vary.          *)
SomePolicy == CHOOSE p \in Policies : TRUE
SomeArtifact == CHOOSE a \in Artifacts : TRUE
SomePayload == CHOOSE p \in Payloads : TRUE
SomeRequest == CHOOSE q \in Needed : TRUE
SomeContext == CHOOSE c \in Contexts : TRUE
SomeWorkflow == CHOOSE w \in Workflows : TRUE

LawsInit ==
    /\ verdictOf \in {"session", "tool", "adoption", "workflow"}
    /\ IF verdictOf = "session" THEN Init
       ELSE policy = SomePolicy /\ artifact = SomeArtifact /\ payload = SomePayload
    /\ ToolsOf!Init /\ (verdictOf # "tool" => request = SomeRequest)
    /\ Adoption!Init /\ (verdictOf # "adoption" => use = SomeContext)
    /\ workflow \in IF verdictOf = "workflow" THEN Workflows ELSE {SomeWorkflow}
    /\ WorkflowInit

LawsNext ==
    /\ UNCHANGED verdictOf
    /\ \/ verdictOf = "session" /\ Next /\ UNCHANGED <<toolVars, adoptionVars, workflowVars>>
       \/ verdictOf = "tool" /\ ToolsOf!Next /\ UNCHANGED <<vars, adoptionVars, workflowVars>>
       \/ verdictOf = "adoption" /\ Adoption!Next /\ UNCHANGED <<vars, toolVars, workflowVars>>
       \/ verdictOf = "workflow" /\ WorkflowNext /\ UNCHANGED <<vars, toolVars, adoptionVars>>

LawsSpec == LawsInit /\ [][LawsNext]_<<verdictOf, vars, toolVars, adoptionVars, workflowVars>>
-----------------------------------------------------------------------------
(* An approval answers REQUIRE_APPROVAL and nothing else, and to ask for   *)
(* less never costs what asking for more had.                              *)
RequestsAreJudgedFairly == ApprovalOnlyAnswersApproval /\ LeastPrivilegeIsFree

(* A stricter policy or a more restricted agent is never granted more, by  *)
(* authorize or by the egress firewall.                                    *)
RestrictionsNeverGrant == TighteningNeverGrants /\ ToolsOf!RestrictionsNeverGrant

(* Bad news and a more exposed use never make the adoption verdict of a    *)
(* model better.  An evaluation that says it failed leaves it at           *)
(* INSUFFICIENT_EVIDENCE or worse; so does a lost record that the use      *)
(* requires; and any failed or lost one never counts for more than one     *)
(* that found nothing.                                                     *)
AdoptionNeverLoosens == Adoption!AdoptionNeverLoosens

(* What is reported of a workflow covers its runs, where the report says   *)
(* that it is complete: a run that breaks a reported bound, comes          *)
(* unapproved to what needs an approval, or brings tainted data where it   *)
(* must not be, has its risk in the report.                                *)
ReportCoversRuns ==
    /\ [](report.assessment_complete => BoundsHold /\ SensitiveIsApproved /\ TaintIsReported)
    /\ EscalationsAreApproved
=============================================================================
