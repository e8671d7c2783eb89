--------------------------- MODULE MCAgentRuntime ---------------------------
(* AgentRuntime with the constants of tests/test_agent_runtime.py: an agent *)
(* with a browser (external) and a shell tool, a policy that reviews the    *)
(* shell, denies a permission, binds to one workflow step and allows one    *)
(* external call.                                                           *)
EXTENDS AgentRuntime

CONSTANTS w1, w2, s1, id1, id2, browser, shell, fetch, net, root, fetchStep

BasePolicy ==
    [allowedTools |-> {browser, shell}, deniedTools |-> {},
     allowedPerms |-> {}, deniedPerms |-> {root},
     reviewTools |-> {shell}, approvalActions |-> {},
     requireDeclared |-> TRUE, bindSteps |-> FALSE, validateExternal |-> TRUE,
     limit |-> 1]

BaseArtifact ==
    [tools |-> {browser, shell}, perms |-> {net, root},
     steps |-> [x \in {fetchStep} |-> [tool |-> browser, action |-> fetch, perms |-> {net}]]]

Ask == [tool |-> browser, action |-> fetch, perms |-> {net}, step |-> None,
        untrusted |-> FALSE, validated |-> TRUE, approved |-> FALSE]

Browse == Ask                                              \* external, allowed
BrowseAsRoot == [Ask EXCEPT !.perms = {root}]               \* external, denied

OnePolicy == [s \in {s1} |-> BasePolicy]
OneArtifact == [s \in {s1} |-> BaseArtifact]
OneId == [s \in {s1} |-> s1]

BudgetPayloads == {Browse, BrowseAsRoot}
=============================================================================
