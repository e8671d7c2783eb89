---------------------------- MODULE WorkflowGraph ----------------------------
(***************************************************************************)
(* What analysis/workflow_graph.py reports of an agent's workflow, and the *)
(* runs of that workflow: an invariant relates the two.  A workflow is a   *)
(* graph of steps.  A step says who executes it, whether it is sensitive,  *)
(* asks for or gives an approval, which elevated permissions it has, which *)
(* taint comes in with its input, which taint it clears, into what a taint *)
(* must not flow there, and how often it may be iterated.  Steps have      *)
(* unique identifiers, in the order of the numbers.                        *)
(***************************************************************************)
EXTENDS Integers, FiniteSets

CONSTANTS Nodes, Entry,    \* the steps, a set of numbers, and the entrypoint
          Workflows,       \* the workflows that are analysed
          Unset,           \* no bound, no executor, no approver
          MaxVisits,       \* bound on the visits of a run to a step
          MaxNodes, MaxEdges, MaxRisks   \* _MAX_NODES, _MAX_EDGES, _MAX_RISKS

Taints == {"untrusted", "model output", "sensitive"}

(* Bounds are positive (_positive_int), edges between steps, and the       *)
(* entrypoint is one.  No more steps than are analysed: of what a workflow *)
(* does beyond its first _MAX_NODES steps nothing is said here.            *)
ASSUME WorkflowsAssumption ==
    /\ Entry \in Nodes /\ Nodes \subseteq Int /\ IsFiniteSet(Nodes) /\ Unset \notin Int
    /\ MaxVisits \in Nat \ {0}
    /\ MaxNodes \in Nat /\ MaxEdges \in Nat /\ MaxRisks \in Nat \ {0} /\ Cardinality(Nodes) <= MaxNodes
    /\ \A w \in Workflows :
          /\ w.edges \subseteq Nodes \X Nodes /\ DOMAIN w.steps = Nodes
          /\ w.bound \in (Nat \ {0}) \cup {Unset}
          /\ \A n \in Nodes : /\ w.steps[n].bound \in (Nat \ {0}) \cup {Unset}
                             /\ w.steps[n].taints \subseteq Taints

VARIABLES workflow,  \* [edges, steps, bound]: bound is the declared one of all cycles
          report,    \* what the analysis says of it
          at,        \* the step that the run is at
          visits,    \* [Nodes -> how often the run has been there]
          crossed,   \* the approval guards it has been at
          carried    \* the taints of its data, after the step
workflowVars == <<workflow, report, at, visits, crossed, carried>>
-----------------------------------------------------------------------------
(* The nodes that `found` leads to along the edges.                        *)
Closed(edges, S) == \A e \in edges : e[1] \in S => e[2] \in S
Closure(edges, found) ==
    {n \in Nodes : \A S \in SUBSET Nodes : found \subseteq S /\ Closed(edges, S) => n \in S}

(* _reachable, and _find_path is not None, around the blocked nodes.       *)
Reached(edges, start, blocked) ==
    IF start \in blocked THEN {} ELSE Closure({e \in edges : e[2] \notin blocked}, {start})
Reverse(edges) == {<<e[2], e[1]>> : e \in edges}

Targets(w, n) == {m \in Nodes : <<n, m>> \in w.edges}
Terminal(w) == {n \in Nodes : Targets(w, n) = {}}

(* The cycles: strongly connected components with an edge inside.          *)
Component(w, n) == Reached(w.edges, n, {}) \cap Reached(Reverse(w.edges), n, {})
Cycles(w) == {c \in {Component(w, n) : n \in Nodes} : \E a, b \in c : <<a, b>> \in w.edges}

(* _acyclic_without_controller: nodes that nothing leads to can be removed *)
(* one after the other, until none is left.                                *)
Peels(edges, rest) ==
    \A S \in SUBSET rest \ {{}} : \E n \in S : \A m \in S : <<m, n>> \notin edges

(* What a controller must be for its bound to hold for the whole cycle.    *)
ControlsUnreached(w, c, n) ==   \* mutant: any member of the cycle that breaks it will do
    /\ n \in Reached(w.edges, Entry, {})
    /\ Peels(w.edges, c \ {n})
ControlsEntries(w, c, n) ==     \* mutant: whoever every run meets first will do
    /\ n \in Reached(w.edges, Entry, {})
    /\ c \cap Reached(w.edges, Entry, {n}) \subseteq {n}
Controls(w, c, n) ==
    /\ n \in Reached(w.edges, Entry, {})
    /\ c \cap Reached(w.edges, Entry, {n}) \subseteq {n}
    /\ Peels(w.edges, c \ {n})

(* _component_cycle_bound                                                  *)
CycleBound(w, c) ==
    LET bound(n) == w.steps[n].bound
        controllers == {n \in c : bound(n) # Unset /\ Controls(w, c, n)}
    IN IF w.bound # Unset THEN w.bound
       ELSE IF \A n \in c : bound(n) # Unset
       THEN bound(CHOOSE n \in c : \A m \in c : bound(n) >= bound(m))
       ELSE IF controllers = {} THEN Unset
       ELSE bound(CHOOSE n \in controllers : \A m \in controllers : n <= m)
-----------------------------------------------------------------------------
Guards(w) == {n \in Nodes : w.steps[n].guard}

(* _approval_principal: who operates a guard                               *)
Approver(step) == IF step.approver = Unset THEN step.actor ELSE step.approver

(* The guards on the way to a step, and those of them its executor runs.   *)
Relevant(w, n) ==
    {g \in (Guards(w) \ {n}) \cap Reached(w.edges, Entry, {}) : n \in Reached(w.edges, g, {})}
SelfApproved(w, n) ==
    {g \in Relevant(w, n) : w.steps[n].actor # Unset /\ Approver(w.steps[g]) = w.steps[n].actor}

EffectiveForAll(w, n) ==        \* mutant: who operates a guard is not looked at
    Relevant(w, n)
(* _effective_approval_guards                                              *)
Effective(w, n) == Relevant(w, n) \ SelfApproved(w, n)

Unguarded(w, n) == n \in Reached(w.edges, Entry, Effective(w, n))

Escalates(w, a, b) == ~(w.steps[b].perms \subseteq w.steps[a].perms)

(* What a taint must not flow into, and which taints a step passes on.     *)
Sinks(step, taint) == step.sinks \cap
    (IF taint = "sensitive" THEN {"external"}
     ELSE {"tool", "routing"} \cup (IF taint = "model output" THEN {"code"} ELSE {}))
Carried(w, n, taints) == (taints \cup w.steps[n].taints) \ w.steps[n].clears

(* _taint_risks: the worklist of steps that a taint gets to, of which the  *)
(* ones that clear it are not gone on from.                                *)
TaintedUnlessControlled(w, taint) ==    \* mutant: any sanitizer clears every taint
    LET clears(n) == w.steps[n].clears # {}
        reachable == Reached(w.edges, Entry, {})
    IN Closure({e \in w.edges : ~clears(e[1]) /\ e[2] \in reachable},
               {n \in reachable : taint \in w.steps[n].taints}) \ {n \in Nodes : clears(n)}
Tainted(w, taint) ==
    LET clears(n) == taint \in w.steps[n].clears
        reachable == Reached(w.edges, Entry, {})
    IN Closure({e \in w.edges : ~clears(e[1]) /\ e[2] \in reachable},
               {n \in reachable : taint \in w.steps[n].taints}) \ {n \in Nodes : clears(n)}
-----------------------------------------------------------------------------
(* A risk is told from the others by what it is evidence of: the steps it  *)
(* is about and, for some, the step it comes from or the taint.            *)
RiskAt(risk, nodes, from, taint) == [risk |-> risk, nodes |-> nodes, from |-> from, taint |-> taint]
Risk(risk, nodes) == {RiskAt(risk, {n}, {}, "none") : n \in nodes}

(* _reverse_reachable: the steps with a path to a terminal one             *)
Ending(w) == Closure(Reverse(w.edges), Terminal(w))

FlowRisks(w) ==
    LET reachable == Reached(w.edges, Entry, {})
    IN Risk("unreachable_workflow_step", Nodes \ reachable)
       \cup Risk("missing_termination_path", IF Terminal(w) \cap reachable = {} THEN {Entry} ELSE {})
       \cup {RiskAt("nonterminating_workflow_region", region, {}, "none") :
                region \in {reachable \ Ending(w)} \ {{}}}

CycleRisks(w) ==
    LET unbounded == {c \in Cycles(w) : CycleBound(w, c) = Unset}
        kinds == [unbounded_workflow_cycle |-> unbounded,
                  cycle_without_exit_path |-> {c \in Cycles(w) : c \cap Ending(w) = {}},
                  repeatable_high_impact_action |-> {c \in unbounded : \E n \in c : w.steps[n].sensitive}]
    IN UNION {{RiskAt(risk, c, {}, "none") : c \in kinds[risk]} : risk \in DOMAIN kinds}

(* _approval_control_risks: a step that asks for an approval itself, or is *)
(* a guard, is not held to the cut.                                        *)
Sensitive(w) == {n \in Reached(w.edges, Entry, {}) : w.steps[n].sensitive}
Direct(w) == {n \in Sensitive(w) : w.steps[n].direct \/ w.steps[n].guard}
ApprovesItself(step) == step.actor # Unset /\ step.actor = step.approver

SelfApprovalRisks(w) ==
    Risk("self_approved_sensitive_action", {n \in Direct(w) : ApprovesItself(w.steps[n])})
    \cup UNION {{RiskAt("self_approved_sensitive_action", {n}, {g}, "none") : g \in SelfApproved(w, n)} :
                   n \in Sensitive(w) \ Direct(w)}

ApprovalRisks(w) ==
    SelfApprovalRisks(w)
    \cup Risk("sensitive_action_without_approval_guard", {n \in Sensitive(w) \ Direct(w) : Unguarded(w, n)})

RiskOf == [tool |-> "tainted_dataflow_to_sensitive_tool", code |-> "model_output_to_code_execution",
           external |-> "sensitive_dataflow_to_external_sink", routing |-> "untrusted_data_controls_workflow"]

(* Of a flow to a tool and of a routed one there is a risk for each taint. *)
TaintRisks(w) ==
    LET tainted == [t \in Taints |-> Tainted(w, t)]
        flows == {f \in Taints \X Nodes \X DOMAIN RiskOf :
                     f[2] \in tainted[f[1]] /\ f[3] \in Sinks(w.steps[f[2]], f[1])}
        named(f) == IF f[3] \in {"tool", "routing"} THEN f[1] ELSE "none"
    IN {RiskAt(RiskOf[f[3]], {f[2]}, {}, named(f)) : f \in flows}

EscalationRisks(w) ==
    LET reachable == Reached(w.edges, Entry, {})
        escalations == {e \in w.edges : /\ {e[1], e[2]} \subseteq reachable /\ Escalates(w, e[1], e[2])
                                        /\ ~w.steps[e[2]].direct /\ Unguarded(w, e[2])}
    IN {RiskAt("unapproved_privilege_escalation", {e[2]}, {e[1]}, "none") : e \in escalations}

AllRisks(w) == FlowRisks(w) \cup CycleRisks(w) \cup ApprovalRisks(w) \cup TaintRisks(w) \cup EscalationRisks(w)

(* The first n of a list, in whatever order it came.                       *)
FirstOf(n, S) == CHOOSE T \in SUBSET S : Cardinality(T) = n
Limited(risk) == RiskAt(risk, {}, {}, "none")

(* Of a workflow with too many transitions the first ones are analysed.    *)
TooManyEdges(w) == Cardinality(w.edges) > MaxEdges
Analyzed(w) == IF TooManyEdges(w) THEN [w EXCEPT !.edges = FirstOf(MaxEdges, w.edges)] ELSE w
Provided(w) == AllRisks(Analyzed(w)) \cup {limited \in {Limited("workflow_edge_limit_exceeded")} : TooManyEdges(w)}

ReportUnmarked(w) ==    \* mutant: the report does not say that it left out risks
    LET all == Provided(w)
        few == Cardinality(all) <= MaxRisks
    IN [risks |-> IF few THEN all ELSE FirstOf(MaxRisks - 1, all) \cup {Limited("workflow_risk_limit_reached")},
        cycle_bounds |-> {[nodes |-> c, most |-> CycleBound(Analyzed(w), c)] : c \in Cycles(Analyzed(w))},
        assessment_complete |-> ~TooManyEdges(w)]

(* analyze_workflow_graph, _result: the first risks, and a last one that   *)
(* says that there were more.                                              *)
Report(w) ==
    LET all == Provided(w)
        few == Cardinality(all) <= MaxRisks
    IN [risks |-> IF few THEN all ELSE FirstOf(MaxRisks - 1, all) \cup {Limited("workflow_risk_limit_reached")},
        cycle_bounds |-> {[nodes |-> c, most |-> CycleBound(Analyzed(w), c)] : c \in Cycles(Analyzed(w))},
        assessment_complete |-> few /\ ~TooManyEdges(w)]
-----------------------------------------------------------------------------
(* A run of the workflow, one step after the other.  Visits are counted    *)
(* where some step or the workflow has a bound, and a bounded step is not  *)
(* visited more often.                                                     *)
Limits(w, n) == {w.bound, w.steps[n].bound} \ {Unset}
MayVisit(n) == \A limit \in Limits(workflow, n) \cup {MaxVisits} : visits[n] < limit
Counts(w) == \E n \in Nodes : Limits(w, n) # {}

Seen(w, n) == Guards(w) \cap {n}

WorkflowInit ==
    /\ workflow \in Workflows /\ report = Report(workflow)
    /\ at = Entry
    /\ visits = [n \in Nodes |-> IF n = Entry /\ Counts(workflow) THEN 1 ELSE 0]
    /\ crossed = Seen(workflow, Entry)
    /\ carried = Carried(workflow, Entry, {})

Go(n) == /\ n \in Targets(workflow, at) /\ MayVisit(n)
         /\ at' = n
         /\ visits' = IF Counts(workflow) THEN [visits EXCEPT ![n] = @ + 1] ELSE visits
         /\ crossed' = crossed \cup Seen(workflow, n)
         /\ carried' = Carried(workflow, n, carried)
         /\ UNCHANGED <<workflow, report>>

WorkflowNext == \E n \in Nodes : Go(n)
-----------------------------------------------------------------------------
Reported(risk, n) == \E r \in report.risks : r.risk = risk /\ r.nodes = {n}
(* Somebody else than its executor has given the run an approval.          *)
Approved(n) ==
    LET actor == workflow.steps[n].actor
    IN \E g \in crossed \ {n} : (actor = Unset \/ Approver(workflow.steps[g]) # actor)

(* What follows is about reports that say they are complete.               *)
(* The number of iterations that is reported for a cycle is never exceeded *)
(* in it, whatever the way into it and through it.                         *)
BoundsHold ==
    \A cycle \in report.cycle_bounds :
        cycle.most # Unset => \A n \in cycle.nodes : visits[n] <= cycle.most

(* A run that comes to a sensitive step, or takes on elevated permissions, *)
(* has been approved by somebody else, or the step asks for an approval    *)
(* itself, or the report says that it is not held to one.                  *)
SensitiveIsApproved ==
    LET step == workflow.steps[at]
    IN step.sensitive =>
         step.direct \/ step.guard \/ Approved(at) \/ Reported("sensitive_action_without_approval_guard", at)
EscalationsAreApproved ==
    [][report.assessment_complete /\ Escalates(workflow, at, at') =>
         workflow.steps[at'].direct \/ Approved(at)' \/ Reported("unapproved_privilege_escalation", at')]_workflowVars

(* Data that is tainted on some run where it must not be is reported.      *)
TaintIsReported ==
    \A t \in carried : \A sink \in Sinks(workflow.steps[at], t) : Reported(RiskOf[sink], at)
=============================================================================
