--------------------------- MODULE MCVerdictLaws ---------------------------
(* Small instances of the four verdicts: of two tools and two permissions, *)
(* of an agent with one tool, of a model with up to two faults, and of     *)
(* workflows of three steps.                                               *)
EXTENDS VerdictLaws

CONSTANTS browser, shell, fetch, net, root, s1, ann, bob

PolicySet ==
    [allowedTools : {{}, {browser, shell}}, deniedTools : {{}},
     allowedPerms : {{}, {net}}, deniedPerms : {{}, {root}},
     reviewTools : {{}, {browser}}, approvalActions : {{}, {fetch}},
     requireDeclared : {FALSE}, bindSteps : BOOLEAN, validateExternal : {FALSE}]

SomeSteps == {[tool |-> browser, action |-> None, perms |-> {net}],
          [tool |-> None, action |-> fetch, perms |-> {}]}

ArtifactSet == [tools : {{browser}}, perms : {{net}}, steps : [{s1} -> SomeSteps]]

PayloadSet ==
    [tool : {browser, shell}, action : {fetch}, perms : SUBSET {net, root},
     step : {None, s1}, untrusted : {FALSE}, validated : {FALSE}, approved : {FALSE}]

(* Workflows of three steps that ann executes, with any edges: of guards   *)
(* and sensitive steps, of sources, sanitizers and sinks, or of bounds.    *)
StepNumbers == 1..3
Plain == [actor |-> ann, approver |-> Unset, guard |-> FALSE, sensitive |-> FALSE, direct |-> FALSE,
          perms |-> {}, taints |-> {}, clears |-> {}, sinks |-> {}, bound |-> Unset]
Guard(approver) == [Plain EXCEPT !.guard = TRUE, !.approver = approver]
Act(asks) == [Plain EXCEPT !.sensitive = TRUE, !.direct = asks, !.perms = {root}]
Source(found) == [Plain EXCEPT !.taints = found]
Validation == [Plain EXCEPT !.clears = {"untrusted", "model output"}]
Sink == [Plain EXCEPT !.sinks = {"tool", "code", "external"}]
AtMost(n) == [Plain EXCEPT !.bound = n]
Jumps == {e \in StepNumbers \X StepNumbers : e[1] # e[2]}
Edges == Jumps \cup {<<2, 2>>}           \* a step that repeats matters to bounds only
WorkflowsOf(edges, kinds) == [edges : SUBSET edges, steps : [StepNumbers -> kinds], bound : {Unset}]

WorkflowSet ==
    WorkflowsOf(Jumps, {Plain, Guard(Unset), Guard(bob), Act(FALSE)})
    \cup WorkflowsOf(Edges, {Plain, AtMost(1), AtMost(2)})
    \cup WorkflowsOf(Jumps, {Plain, Source({"untrusted", "sensitive"}), Source({"model output"}),
                            Validation, Sink})

FreeAgent == [status |-> "active", declared |-> {browser}, blocked |-> {}, capabilities |-> {net},
              sensitivity |-> None, approval |-> FALSE, maxCalls |-> None,
              blockedTargets |-> {}, allowedTargets |-> None]
OneRule == [rules |-> <<[tool |-> browser, sensitivity |-> None, consent |-> FALSE,
                         maxCalls |-> None, trust |-> 2, tags |-> None]>>,
            default |-> "ALLOW"]
MeetsAll == [sensitivity |-> None, consent |-> TRUE, approved |-> TRUE, calls |-> 0,
             trust |-> 3, tags |-> {s1}]
RequestSet == [channel : {"tool", "network"}, target : {browser}, needs : {{net}}]

Use(case, data, exposure, anonymous) ==
    [use |-> case, data |-> data, exposure |-> exposure, anonymous |-> anonymous]
ContextSet == {Use(0, 0, 0, FALSE), Use(0, 4, 0, FALSE), Use(3, 4, 0, FALSE), Use(3, 4, 2, FALSE),
               Use(0, 0, 2, FALSE), Use(0, 0, 2, TRUE)}
=============================================================================
