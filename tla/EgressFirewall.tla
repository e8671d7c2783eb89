--------------------------- MODULE EgressFirewall ---------------------------
(***************************************************************************)
(* Decisions over what agents send out, core/egress_firewall.py, with the  *)
(* components it asks: the agent registry, the policy enforcement point    *)
(* (PolicyEnforcement), tool authorization (ToolAuthorization), and the    *)
(* action ledger, which is taken for the append-only log that ActionLedger *)
(* shows it to be when saves do not overlap.  Each step of a handler makes *)
(* one store call.                                                         *)
(*                                                                         *)
(* There is one agent.  Operators contain it while decisions are under way *)
(* and each of them reads the agent's whole row and then saves it.         *)
(***************************************************************************)
EXTENDS PolicyEnforcement, ToolAuthorization

CONSTANTS Profile,      \* what is registered: the agent's record, active and with nothing blocked
          ToolPolicies, \* what operators write as the agent's tool policy
          Contexts,     \* the session contexts that clients send
          Changes,      \* what operators do to the agent's row
          MaxChanges,   \* bound on what operators do to the agent
          MaxDecisions  \* bound on the ledger

Statuses == {"active", "suspended", "quarantined", "deregistered"}
Tools == Profile.declared
Targets == {q.target : q \in Requests}

ASSUME FirewallAssumption ==
    /\ Profile \in [status : {"active"}, declared : {Tools}, blocked : {{}},
                    capabilities : {Profile.capabilities}, sensitivity : {None} \cup Nat,
                    approval : BOOLEAN, maxCalls : {None} \cup Nat,
                    blockedTargets : SUBSET Targets, allowedTargets : {None} \cup SUBSET Targets]
    /\ \A status \in Statuses, blocked \in SUBSET Tools :
           [Profile EXCEPT !.status = status, !.blocked = blocked] # None
    /\ Changes \subseteq [kind : {"register"}] \cup [kind : {"status"}, status : Statuses]
                        \cup [kind : {"block", "unblock"}, tool : Tools]
    /\ MaxChanges \in Nat /\ MaxDecisions \in Nat

VARIABLES agent,      \* the registry's row, or None
          toolPolicy, \* the stored tool policy, or None
          job,        \* [Workers -> the handler in progress]
          ledger,     \* the entries of the session
          wanted,     \* history: the status and blocked tools that operators were promised
          overlapped, \* history: has a handler saved a row of the agent that it had not read?
          changes

firewallVars == <<agent, toolPolicy, job, ledger, wanted, overlapped, changes>>
vars == <<pepVars, firewallVars>>

Idle == [at |-> "idle"]
Decision == [request : Requests, verdict : Verdicts]

TypeOK ==
    /\ PepTypeOK
    /\ agent # None => agent.status \in Statuses /\ agent.blocked \subseteq Tools
    /\ toolPolicy \in ToolPolicies \cup {None, DeletedPolicy}
    /\ \A i \in 1..Len(ledger) : ledger[i] \in Decision

Init ==
    /\ PepInit
    /\ agent \in {None, Profile} /\ toolPolicy \in {None} \cup ToolPolicies
    /\ agent = None => toolPolicy = None
    /\ ledger = <<>>
    /\ job = [w \in Workers |-> Idle]
    /\ wanted = [status |-> IF agent = None THEN "none" ELSE "active", blocked |-> {}]
    /\ overlapped = FALSE /\ changes = 0
-----------------------------------------------------------------------------
At(w, at) == job[w].at = at
Goto(w, next) == job' = [job EXCEPT ![w] = next]
QuietPep == UNCHANGED pepVars
Contained == wanted.status \in Statuses \ {"active"}

(* decide_egress reads the agent; one that is missing or not active is     *)
(* denied, and nothing else is asked.                                      *)
Decide(w, q, context) ==
    /\ job[w] = Idle /\ Len(ledger) < MaxDecisions
    /\ LET active == agent # None /\ agent.status = "active"
       IN Goto(w, [at |-> IF active THEN "policies" ELSE "ledger", request |-> q,
                   context |-> context,
                   verdict |-> IF active THEN ConstraintVerdict(agent, q, context) ELSE "DENY",
                   contained |-> Contained, blocked |-> wanted.blocked, overlapped |-> overlapped])
    /\ QuietPep /\ UNCHANGED <<agent, toolPolicy, ledger, wanted, overlapped, changes>>

(* enforce_request is called even when the constraints deny already.       *)
AskPolicies(w) ==
    /\ At(w, "policies")
    /\ \E entries \in Lists : Enforce(w, job[w].request, entries)
    /\ Goto(w, [job[w] EXCEPT !.at = "judging"])
    /\ UNCHANGED <<agent, toolPolicy, ledger, wanted, overlapped, changes>>

TakePolicies(w) ==
    /\ At(w, "judging") /\ PepReturn(w)
    /\ Goto(w, [job[w] EXCEPT !.at = IF job[w].request.channel = "tool" THEN "tool" ELSE "ledger",
                               !.verdict = Combine({@, call[w].verdict})])
    /\ UNCHANGED <<agent, toolPolicy, ledger, wanted, overlapped, changes>>

(* authorize reads the agent again, and then its tool policy.              *)
Permitted(w) == MayUse(agent, job[w].request.target)

AskTool(w) ==
    /\ At(w, "tool")
    /\ IF Permitted(w) THEN Goto(w, [job[w] EXCEPT !.at = "rules"])
       ELSE Goto(w, [job[w] EXCEPT !.at = "ledger", !.verdict = "DENY"])
    /\ QuietPep /\ UNCHANGED <<agent, toolPolicy, ledger, wanted, overlapped, changes>>

AskRules(w) ==
    /\ At(w, "rules")
    /\ LET v == PolicyVerdict(toolPolicy, job[w].request.target, job[w].context)
       IN Goto(w, [job[w] EXCEPT !.at = "ledger", !.verdict = Combine({@, v})])
    /\ QuietPep /\ UNCHANGED <<agent, toolPolicy, ledger, wanted, overlapped, changes>>

(* append_entry, after which the client is answered.                       *)
Record(w) ==
    /\ At(w, "ledger")
    /\ ledger' = Append(ledger, [request |-> job[w].request, verdict |-> job[w].verdict])
    /\ Goto(w, Idle)
    /\ QuietPep /\ UNCHANGED <<agent, toolPolicy, wanted, overlapped, changes>>
-----------------------------------------------------------------------------
RegisteredAfresh(old) == Profile \* mutant: registering again lifts the blocks

(* register_agent makes the agent active and keeps what is blocked.        *)
Registered(old) == [Profile EXCEPT !.blocked = IF old = None THEN {} ELSE old.blocked]

(* What register_agent, set_agent_status, deregister_agent and             *)
(* set_tool_block save, given the row that they read.                      *)
Changed(change, old) ==
    CASE change.kind = "register" -> Registered(old)
      [] change.kind = "status" -> [old EXCEPT !.status = change.status]
      [] change.kind = "block" -> [old EXCEPT !.blocked = @ \cup {change.tool}]
      [] change.kind = "unblock" -> [old EXCEPT !.blocked = @ \ {change.tool}]

Promised(change) ==
    CASE change.kind = "register" -> [wanted EXCEPT !.status = "active"]
      [] change.kind = "status" -> [wanted EXCEPT !.status = change.status]
      [] change.kind = "block" -> [wanted EXCEPT !.blocked = @ \cup {change.tool}]
      [] change.kind = "unblock" -> [wanted EXCEPT !.blocked = @ \ {change.tool}]

(* All but register_agent refuse an agent that is not there.               *)
ReadAgent(w, change) ==
    /\ job[w] = Idle /\ changes < MaxChanges
    /\ change.kind = "register" \/ agent # None
    /\ Goto(w, [at |-> "saveAgent", change |-> change, read |-> agent])
    /\ QuietPep /\ UNCHANGED <<agent, toolPolicy, ledger, wanted, overlapped, changes>>

(* History: the tools that are blocked for as long as a decision is under  *)
(* way.                                                                    *)
StillBlocked(v) == IF job[v].at \in {"idle", "saveAgent"} THEN job[v]
                   ELSE [job[v] EXCEPT !.blocked = @ \cap wanted'.blocked]

SaveAgent(w) ==
    /\ At(w, "saveAgent") /\ changes' = changes + 1
    /\ agent' = Changed(job[w].change, job[w].read)
    /\ wanted' = Promised(job[w].change)
    /\ overlapped' = (overlapped \/ agent # job[w].read)
    /\ job' = [v \in Workers |-> IF v = w THEN Idle ELSE StillBlocked(v)]
    /\ QuietPep /\ UNCHANGED <<toolPolicy, ledger>>

(* create_policy and delete_policy of tool_authorization.                  *)
WriteToolPolicy(new) ==
    /\ changes < MaxChanges /\ changes' = changes + 1
    /\ toolPolicy' = new
    /\ QuietPep /\ UNCHANGED <<agent, job, ledger, wanted, overlapped>>

EditToolPolicy == \/ \E new \in ToolPolicies : WriteToolPolicy(new)
                  \/ toolPolicy # None /\ WriteToolPolicy(DeletedPolicy)

(* The steps that a decision under way takes by itself.                    *)
Proceed(w) == \/ AskPolicies(w)
              \/ PepStep(w) /\ UNCHANGED firewallVars
              \/ TakePolicies(w) \/ AskTool(w) \/ AskRules(w) \/ Record(w)

Next == \/ Operate /\ UNCHANGED firewallVars
        \/ EditToolPolicy
        \/ \E w \in Workers :
              \/ \E q \in Requests, context \in Contexts : Decide(w, q, context)
              \/ \E change \in Changes : ReadAgent(w, change)
              \/ SaveAgent(w) \/ Proceed(w)

Spec == Init /\ [][Next]_vars
-----------------------------------------------------------------------------
Deciding(w) == At(w, "ledger")

(* An agent that an operator has suspended, quarantined or deregistered,   *)
(* and a tool that was blocked and stays blocked, get nothing from a       *)
(* request that comes after it, whatever the policies say and whoever      *)
(* registers the agent again - unless two operators' changes overlapped,   *)
(* of which the later save forgets the earlier.                            *)
ContainmentHolds ==
    \A w \in Workers : Deciding(w) =>
        /\ job[w].contained /\ ~job[w].overlapped => job[w].verdict = "DENY"
        /\ job[w].request.channel = "tool" /\ job[w].request.target \in job[w].blocked /\ ~overlapped
              => job[w].verdict = "DENY"
=============================================================================
