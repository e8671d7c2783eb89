---------------------------- MODULE AgentRuntime ----------------------------
(***************************************************************************)
(* Runtime authorization sessions: AgentRuntimeEngine over DataStore.      *)
(*                                                                         *)
(* A worker is an operating-system process that owns its database          *)
(* connection (a uvicorn worker, the CLI, a second replica).  Every store  *)
(* call is then atomic: record_tool_invocation takes the write lock with   *)
(* BEGIN IMMEDIATE and holds it to its commit, and the other calls are     *)
(* single committed statements.  A handler is NOT atomic: between two      *)
(* store calls another worker may run, or this one may die.  Threads that  *)
(* share one connection are the subject of SharedConnection.               *)
(*                                                                         *)
(* A denial goes to the risk register, one risk for each of its reasons.   *)
(* A risk is looked up and then updated or inserted; an INSERT that meets  *)
(* the UNIQUE fingerprint raises and leaves the transaction open that it   *)
(* began, so that the worker holds the write lock until it writes again.   *)
(***************************************************************************)
EXTENDS RuntimePolicy, FiniteSets

CONSTANTS Workers,      \* processes serving the API
          Sessions,     \* session ids
          RequestIds,   \* request ids that clients choose
          Payloads,     \* what a client may ask: records as in RuntimePolicy
          Policy,       \* [Sessions -> policy]: effective_policy, fixed at creation
          Artifact,     \* [Sessions -> artifact]: the snapshot kept in the session
          ArtifactId,   \* [Sessions -> artifact id]
          NoLimit,      \* max_external_calls is None
          MaxCrashes    \* bound: how many times a worker dies

ASSUME ConstantsAssumption ==
    /\ IsFiniteSet(RequestIds) /\ IsFiniteSet(Payloads) /\ IsFiniteSet(Sessions)
    /\ NoLimit \notin Int
    /\ \A s \in Sessions : Policy[s].limit \in Int \cup {NoLimit}
    /\ MaxCrashes \in Nat

VARIABLES status,    \* [Sessions -> status]; "NONE": no such row
          used,      \* [Sessions -> Nat]: external_calls_used
          rows,      \* table tool_invocation_decisions
          reasons,   \* <<row, code>>: the reasons_json of the decisions
          register,  \* <<artifact id, code>>: the fingerprints of the risk register
          locked,    \* the workers whose connection is left in a transaction
          trail,     \* <<what, row>>: the writes of _record_decision that happened
          noted,     \* <<session, status>>: the status changes in the audit log
          job,       \* [Workers -> what the worker is in the middle of]
          answers,   \* history: the rows returned to clients
          cut,       \* history: the rows whose handler an exception ended
          crashes    \* history: worker deaths so far

vars == <<status, used, rows, reasons, register, locked, trail, noted, job, answers, cut, crashes>>

Row == [session : Sessions, id : RequestIds, payload : Payloads, decision : Decisions]
Stopped == {"REVOKED", "CLOSED"}
Logs == {"audit", "metric"}   \* in the order _record_decision makes them

(* The codes of the reasons: the engine's, and the store's.                *)
Codes == {"denied_tool", "disallowed_tool", "undeclared_tool", "denied_permission",
          "disallowed_permission", "undeclared_permission", "workflow_step_binding_required",
          "unknown_workflow_step", "workflow_tool_mismatch", "workflow_action_mismatch",
          "workflow_permission_escalation", "external_input_validation_required",
          "tool_approval_required", "action_approval_required",
          "session_not_active", "external_call_limit_exceeded"}

Idle == [at |-> "idle"]
Job == {Idle}
       \cup [at : {"record"}, session : Sessions, id : RequestIds, payload : Payloads]
       \cup [at : Logs \cup {"reply"}, row : Row]
       \cup [at : {"risk"}, row : Row, todo : SUBSET Codes]
       \cup [at : {"observe"}, row : Row, todo : SUBSET Codes, code : Codes, known : BOOLEAN]
       \cup [at : {"status"}, session : Sessions, target : Stopped]
       \cup [at : {"note"}, session : Sessions, status : {"ACTIVE"} \cup Stopped]

TypeOK ==
    /\ status \in [Sessions -> {"NONE", "ACTIVE"} \cup Stopped]
    /\ used \in [Sessions -> Nat]
    /\ rows \subseteq Row /\ IsFiniteSet(rows)
    /\ reasons \subseteq Row \X Codes
    /\ trail \subseteq (Logs \cup Codes) \X Row
    /\ locked \subseteq Workers /\ cut \subseteq Row
    /\ noted \subseteq Sessions \X ({"ACTIVE"} \cup Stopped)
    /\ job \in [Workers -> Job]
    /\ answers \subseteq Row
    /\ crashes \in 0..MaxCrashes
-----------------------------------------------------------------------------
(* The external-call budget of a session, "max(0, int(max_external_calls))" *)
HasLimit(s) == Policy[s].limit # NoLimit
Limit(s) == IF Policy[s].limit < 0 THEN 0 ELSE Policy[s].limit
ExhaustedLate(s) == HasLimit(s) /\ used[s] > Limit(s)     \* mutant: off by one
Exhausted(s) == HasLimit(s) /\ used[s] >= Limit(s)

EnforcedStale(s, p) ==       \* mutant: trusts the status read before the lock
    IF Verdict(Policy[s], Artifact[s], p) = "ALLOW" /\ IsExternal(p) /\ Exhausted(s)
    THEN "DENY"
    ELSE Verdict(Policy[s], Artifact[s], p)

(* What record_tool_invocation makes of the engine's verdict, from the     *)
(* session row it reads under the write lock.                              *)
Enforced(s, p) ==
    IF \/ status[s] # "ACTIVE"
       \/ /\ Verdict(Policy[s], Artifact[s], p) = "ALLOW"
          /\ IsExternal(p) /\ Exhausted(s)
    THEN "DENY"
    ELSE Verdict(Policy[s], Artifact[s], p)

(* The reasons that it records: the engine's, and its own.                 *)
EnforcedReasons(s, p) ==
    Reasons(Policy[s], Artifact[s], p) \cup
    {c \in {"session_not_active", "external_call_limit_exceeded"} :
        IF status[s] # "ACTIVE" THEN c = "session_not_active"
        ELSE /\ c = "external_call_limit_exceeded"
             /\ Verdict(Policy[s], Artifact[s], p) = "ALLOW" /\ IsExternal(p) /\ Exhausted(s)}

SameKey(r, s, id) == r.session = s /\ r.id = id
Recorded(s, id) == {r \in rows : SameKey(r, s, id)}

Init ==
    /\ status = [s \in Sessions |-> "NONE"]
    /\ used = [s \in Sessions |-> 0]
    /\ rows = {} /\ reasons = {} /\ register = {} /\ trail = {} /\ noted = {}
    /\ locked = {} /\ answers = {} /\ cut = {}
    /\ job = [w \in Workers |-> Idle]
    /\ crashes = 0

(* A write that is committed: no other worker holds the write lock, and    *)
(* this one no longer does.                                                *)
Commit(w) == locked \subseteq {w} /\ locked' = {}

Goto(w, next) == job' = [job EXCEPT ![w] = next]
Quiet == UNCHANGED <<used, rows, reasons, register, trail, answers, cut, crashes>>

RecreateSession(w, s) ==     \* mutant: INSERT OR REPLACE over an old session
    /\ job[w] = Idle /\ Commit(w)
    /\ status' = [status EXCEPT ![s] = "ACTIVE"]
    /\ Goto(w, [at |-> "note", session |-> s, status |-> "ACTIVE"])
    /\ Quiet /\ UNCHANGED noted

(* create_session, for an artifact its assessment accepts.                 *)
CreateSession(w, s) ==
    /\ job[w] = Idle /\ status[s] = "NONE" /\ Commit(w)
    /\ status' = [status EXCEPT ![s] = "ACTIVE"]
    /\ Goto(w, [at |-> "note", session |-> s, status |-> "ACTIVE"])
    /\ Quiet /\ UNCHANGED noted

(* authorize, up to the store call: the session must exist; its policy and *)
(* artifact never change, so the verdict can be taken at the next step.    *)
Authorize(w, s, id, p) ==
    /\ job[w] = Idle /\ status[s] # "NONE"
    /\ Goto(w, [at |-> "record", session |-> s, id |-> id, payload |-> p])
    /\ Quiet /\ UNCHANGED <<status, locked, noted>>

(* BEGIN IMMEDIATE.                                                        *)
Begun(w) == job[w].at = "record" /\ locked = {}

(* It raises in a connection that is in a transaction, which is rolled     *)
(* back.                                                                   *)
FailToBegin(w) ==
    /\ job[w].at = "record" /\ w \in locked
    /\ locked' = locked \ {w} /\ Goto(w, Idle)
    /\ Quiet /\ UNCHANGED <<status, noted>>

ReplayReevaluated(w) ==      \* mutant: a retry is decided afresh
    /\ Begun(w)
    /\ \E r \in Recorded(job[w].session, job[w].id) :
          /\ r.payload = job[w].payload
          /\ answers' = answers \cup {[r EXCEPT !.decision = Enforced(r.session, r.payload)]}
    /\ Goto(w, Idle)
    /\ UNCHANGED <<status, used, rows, reasons, register, locked, trail, noted, cut, crashes>>

(* record_tool_invocation, a request id seen before: the recorded decision *)
(* is returned for the same payload, and anything else is an error.        *)
Replay(w) ==
    /\ Begun(w)
    /\ \E r \in Recorded(job[w].session, job[w].id) :
          answers' = IF r.payload = job[w].payload THEN answers \cup {r} ELSE answers
    /\ Goto(w, Idle)
    /\ UNCHANGED <<status, used, rows, reasons, register, locked, trail, noted, cut, crashes>>

(* UPDATE agent_sessions SET external_calls_used = external_calls_used + 1  *)
Spending(s, row) ==
    IF IsExternal(row.payload) /\ row.decision = "ALLOW"
    THEN [used EXCEPT ![s] = @ + 1] ELSE used

(* record_tool_invocation, a fresh request id: one transaction that        *)
(* decides, counts an allowed external call and inserts the decision.      *)
Record(w) ==
    /\ Begun(w)
    /\ Recorded(job[w].session, job[w].id) = {}
    /\ LET s == job[w].session
           p == job[w].payload
           row == [session |-> s, id |-> job[w].id, payload |-> p,
                   decision |-> Enforced(s, p)]
       IN /\ rows' = rows \cup {row}
          /\ reasons' = reasons \cup {row} \X EnforcedReasons(s, p)
          /\ used' = Spending(s, row)
          /\ Goto(w, [at |-> "audit", row |-> row])
    /\ UNCHANGED <<status, register, locked, trail, noted, answers, cut, crashes>>

ReasonsOf(row) == {pair[2] : pair \in {q \in reasons : q[1] = row}}

(* The risks that are still to be observed, and then the reply.            *)
Remaining(row, todo) == IF todo = {} THEN [at |-> "reply", row |-> row]
                        ELSE [at |-> "risk", row |-> row, todo |-> todo]

AfterWithoutRegister(row, log) ==   \* mutant: denials are only logged
    IF log = "audit" THEN [at |-> "metric", row |-> row] ELSE Remaining(row, {})

(* What follows a log of _record_decision: each reason of a denial is      *)
(* observed in the risk register.                                          *)
After(row, log) ==
    IF log = "audit" THEN [at |-> "metric", row |-> row]
    ELSE Remaining(row, IF row.decision = "DENY" THEN ReasonsOf(row) ELSE {})

(* save_audit_log and save_metric.                                         *)
RecordDecision(w) ==
    /\ job[w].at \in Logs /\ Commit(w)
    /\ trail' = trail \cup {<<job[w].at, job[w].row>>}
    /\ Goto(w, After(job[w].row, job[w].at))
    /\ UNCHANGED <<status, used, rows, reasons, register, noted, answers, cut, crashes>>

Fingerprint(row, code) == <<ArtifactId[row.session], code>>

(* The SELECT of upsert_risk_observation, for the next reason ...          *)
LookUp(w) ==
    /\ job[w].at = "risk"
    /\ \E code \in job[w].todo :
          Goto(w, [at |-> "observe", row |-> job[w].row, todo |-> job[w].todo \ {code},
                   code |-> code, known |-> Fingerprint(job[w].row, code) \in register])
    /\ Quiet /\ UNCHANGED <<status, locked, noted>>

(* ... and its UPDATE or INSERT.                                           *)
Meets(w) == ~job[w].known /\ Fingerprint(job[w].row, job[w].code) \in register

ObserveRisk(w) ==
    /\ job[w].at = "observe" /\ ~Meets(w) /\ Commit(w)
    /\ register' = register \cup {Fingerprint(job[w].row, job[w].code)}
    /\ trail' = trail \cup {<<job[w].code, job[w].row>>}
    /\ Goto(w, Remaining(job[w].row, job[w].todo))
    /\ UNCHANGED <<status, used, rows, reasons, noted, answers, cut, crashes>>

(* An INSERT that meets the fingerprint raises: the reasons that are left  *)
(* are not observed, the client gets an error, nothing is rolled back.     *)
Clash(w) ==
    /\ job[w].at = "observe" /\ Meets(w) /\ locked \subseteq {w}
    /\ locked' = {w} /\ cut' = cut \cup {job[w].row} /\ Goto(w, Idle)
    /\ UNCHANGED <<status, used, rows, reasons, register, trail, noted, answers, crashes>>

(* The response leaves the process.                                        *)
Reply(w) ==
    /\ job[w].at = "reply"
    /\ answers' = answers \cup {job[w].row}
    /\ Goto(w, Idle)
    /\ UNCHANGED <<status, used, rows, reasons, register, locked, trail, noted, cut, crashes>>

(* update_session_status reads the session and lets only an ACTIVE one     *)
(* through ...                                                             *)
RequestStatus(w, s, target) ==
    /\ job[w] = Idle /\ status[s] = "ACTIVE"
    /\ Goto(w, [at |-> "status", session |-> s, target |-> target])
    /\ Quiet /\ UNCHANGED <<status, locked, noted>>

(* ... and then writes it with an UPDATE that no longer looks at the old   *)
(* status.                                                                 *)
WriteStatus(w) ==
    /\ job[w].at = "status" /\ Commit(w)
    /\ status' = [status EXCEPT ![job[w].session] = job[w].target]
    /\ Goto(w, [at |-> "note", session |-> job[w].session, status |-> job[w].target])
    /\ Quiet /\ UNCHANGED noted

(* The save_audit_log call that ends create_session and                    *)
(* update_session_status.                                                  *)
Note(w) ==
    /\ job[w].at = "note" /\ Commit(w)
    /\ noted' = noted \cup {<<job[w].session, job[w].status>>}
    /\ Goto(w, Idle)
    /\ Quiet /\ UNCHANGED status

(* "database is locked": a write that another worker's transaction keeps   *)
(* out for 30 seconds raises.                                              *)
TimeOut(w) ==
    /\ job[w].at \in {"record", "observe", "status", "note"} \cup Logs
    /\ locked \ {w} # {}
    /\ cut' = IF job[w].at \in {"observe"} \cup Logs THEN cut \cup {job[w].row} ELSE cut
    /\ Goto(w, Idle)
    /\ UNCHANGED <<status, used, rows, reasons, register, locked, trail, noted, answers, crashes>>

(* The worker dies in the middle of a handler; what it committed stays,    *)
(* and its transaction ends.                                               *)
Crash(w) ==
    /\ job[w] # Idle /\ crashes < MaxCrashes
    /\ Goto(w, Idle) /\ locked' = locked \ {w}
    /\ crashes' = crashes + 1
    /\ UNCHANGED <<status, used, rows, reasons, register, trail, noted, answers, cut>>

Step(w) == \/ FailToBegin(w) \/ Replay(w) \/ Record(w) \/ RecordDecision(w)
           \/ LookUp(w) \/ ObserveRisk(w) \/ Clash(w) \/ Reply(w)
           \/ WriteStatus(w) \/ Note(w) \/ TimeOut(w)

Next ==
    \E w \in Workers :
        \/ \E s \in Sessions : CreateSession(w, s)
        \/ \E s \in Sessions, id \in RequestIds, p \in Payloads : Authorize(w, s, id, p)
        \/ \E s \in Sessions, target \in Stopped : RequestStatus(w, s, target)
        \/ Step(w)
        \/ Crash(w)

Spec == Init /\ [][Next]_vars

(* A request that is being served is served, or ends in an error: the      *)
(* worker process keeps running.  Nothing makes a client send one.         *)
LiveSpec == Spec /\ \A w \in Workers : WF_vars(Step(w))
-----------------------------------------------------------------------------
Granted(s) == {r \in rows : /\ r.session = s /\ r.decision = "ALLOW"
                            /\ IsExternal(r.payload)}

(* The counter of record_tool_invocation counts exactly the external calls *)
(* the table says were allowed, whatever replays, refusals, crashes and    *)
(* concurrent requests happened on the way.                                *)
BudgetCounted == \A s \in Sessions : used[s] = Cardinality(Granted(s))

(* No session ever allows more external calls than its policy does.        *)
BudgetRespected ==
    \A s \in Sessions : HasLimit(s) => Cardinality(Granted(s)) <= Limit(s)

(* A request id is decided once: UNIQUE(session_id, request_id) never      *)
(* fires, so no client sees the IntegrityError.                            *)
DecidedOnce ==
    \A r1, r2 \in rows : r1.session = r2.session /\ r1.id = r2.id => r1 = r2

(* Retries of a request get the decision the first attempt recorded, even  *)
(* when the session was stopped or its budget spent in between, and a      *)
(* client is never told of a decision that is not recorded.                *)
AnswersAgree ==
    /\ answers \subseteq rows
    /\ \A a, b \in answers :
          a.session = b.session /\ a.id = b.id => a.decision = b.decision

(* After a session stops, no step records a new permission in it, although *)
(* handlers that started before the stop are still running.                *)
NoGrantAfterStop ==
    [][\A r \in rows' \ rows :
          status[r.session] \in Stopped => r.decision = "DENY"]_vars

(* A decision and a spent call are never taken back.                       *)
NothingUndone ==
    [][rows \subseteq rows' /\ \A s \in Sessions : used[s] <= used'[s]]_vars

(* A stopped session never runs again.                                     *)
StopIsFinal ==
    [][\A s \in Sessions : status[s] \in Stopped => status'[s] \in Stopped]_vars

(* The handlers implement the contract.  A second stop of a stopped        *)
(* session is invisible there.                                             *)
Phase == [s \in Sessions |-> IF status[s] = "NONE" THEN "unborn"
                             ELSE IF status[s] = "ACTIVE" THEN "open" ELSE "stopped"]
IsGrant(d) == d = "ALLOW"
Unbounded(s) == ~HasLimit(s)
Contract == INSTANCE AuthorizationContract
                WITH phase <- Phase, rulings <- rows, External <- IsExternal,
                     Granting <- IsGrant, Unlimited <- Unbounded, Budget <- Limit
ImplementsContract == Contract!Spec

(* Every denial is audited, and each of its reasons is observed in the     *)
(* managed-risk register - except those whose worker died on the way, one  *)
(* for a death, and those whose handler an exception ended, which takes    *)
(* two denials of an artifact with a reason in common.                     *)
Denials == {r \in rows : r.decision = "DENY"}
Observed(r) == /\ <<"audit", r>> \in trail
               /\ \A code \in ReasonsOf(r) : <<code, r>> \in trail
Fingerprints(r) == {Fingerprint(r, code) : code \in ReasonsOf(r)}

DenialsReachRegister ==
    /\ []<>(Cardinality({r \in Denials \ cut : ~Observed(r)}) <= crashes)
    /\ [](cut # {} => \E r, q \in Denials : r # q /\ Fingerprints(r) \cap Fingerprints(q) # {})
=============================================================================
