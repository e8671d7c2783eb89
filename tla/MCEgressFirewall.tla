------------------------- MODULE MCEgressFirewall -------------------------
(* Two handlers, two policies, a network and a tool request; or one policy *)
(* that denies, among rows of other registries.                            *)
EXTENDS EgressFirewall, TLC

CONSTANTS w1, w2, p1, p2, host, mail, net, other, another

Connect == [channel |-> "network", target |-> host, needs |-> {net}]
Invoke == [channel |-> "tool", target |-> mail, needs |-> {}]
TwoRequests == {Connect, Invoke}

Policy(mode, denied, conditional, limit) ==
    [everyone |-> FALSE, mode |-> mode, denied |-> denied, allowed |-> Unlisted,
     conditional |-> conditional, limit |-> limit]
DenyPolicy == {[Policy("ENFORCE", {Invoke}, FALSE, 0) EXCEPT !.everyone = TRUE,
                                                             !.allowed = TwoRequests]}
PolicySet == DenyPolicy \cup
             {Policy("ENFORCE", {}, TRUE, 1), Policy("PASSTHROUGH", {}, FALSE, 0),
              [Policy("AUDIT", {}, FALSE, 0) EXCEPT !.everyone = TRUE]}
Symmetry == Permutations(Workers) \cup Permutations(Policies)

Agent == [status |-> "active", declared |-> {mail}, blocked |-> {}, capabilities |-> {net},
          sensitivity |-> None, approval |-> TRUE, maxCalls |-> None, blockedTargets |-> {},
          allowedTargets |-> None]
Rules == {[rules |-> <<[tool |-> mail, sensitivity |-> None, consent |-> TRUE, maxCalls |-> None,
                        trust |-> None, tags |-> None]>>, default |-> "DENY"]}
Context == {[sensitivity |-> None, consent |-> TRUE, approved |-> FALSE, calls |-> 0,
             trust |-> 0, tags |-> {}]}
ChangeSet == {[kind |-> "register"], [kind |-> "status", status |-> "suspended"],
              [kind |-> "block", tool |-> mail], [kind |-> "unblock", tool |-> mail]}

(* A decision meets operators who write policies, rows of others and       *)
(* callers who name policies, or another decision, or, where there is one  *)
(* policy, operators who change the agent.                                 *)
Decisions == {w \in Workers : job[w] # Idle /\ job[w].at # "saveAgent"}
Plain == /\ edits = 0 /\ other \notin {rows[i] : i \in 1..Len(rows)}
         /\ \A w \in Workers : call[w] # NoCall => call[w].all
AgentKept == changes = 0 /\ agent = Profile /\ toolPolicy = None
EitherPart == \/ AgentKept /\ (Plain \/ (now = 0 /\ Cardinality(Decisions) <= 1))
              \/ /\ Plain /\ now = 0 /\ Cardinality(Decisions) <= 1
                 /\ \E id \in Policies : policies[id] = Absent
=============================================================================
