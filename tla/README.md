# A verification project for the AI Assurance Framework

The AI Assurance Framework (AIAF) is a FastAPI service and a command line that
keep assurance evidence about AI models and agents: it registers and assesses
models, decides whether they may be adopted, authorizes what agents do, keeps
evidence, incidents, risks and schedules, imports vulnerability advisories, and
logs what agents did. This directory holds TLA+ models of the parts of it that
keep state or decide, the TLC runs that check them on small instances, and TLAPS
proofs of what matters most for every instance.

Paths below are relative to `src/src/aiaf/`.

## 1. The system

### How it runs

Handlers of API requests run on a pool of threads of a process; several
processes (uvicorn workers, the monitoring worker, the command line, a second
replica) may share one database. `data/store.py` gives a process **one**
`DataStore` with **one** sqlite3 connection (`check_same_thread=False`), and
`data/postgres_store.py` the same contract over PostgreSQL, also with one
connection. Components do not send each other messages: they call each other and
meet in the store.

Two patterns decide what can go wrong.

* *Whole-record saves.* Most registries keep a record in the shared `models`
  table under a key such as `incident:x`, `ledger:x`, `agent:x`, `pep_policy:x`. A handler
  calls `get_model`, changes the dictionary and calls `save_model`, which
  replaces the row. Nothing checks that the row is still the one it read. The
  same table is the only index: who looks for records of a kind calls
  `list_models`, which returns the newest 100 rows of every kind.
* *One connection for all threads.* A transaction belongs to the connection. Some
  calls take `_conn_lock`, most do not, and almost all end in `commit()`.

What is hard here is therefore interleaving (reads used after somebody else
wrote), atomicity (a commit or rollback of another thread), partial failure (the
writes that follow a decision one by one), crashes between two saves, retries
by clients, limits (budgets, windows, list limits), and verdicts that combine many
inputs. There are no locks across store calls, except the row lock of
PostgreSQL, hence next to nothing to deadlock on.

### Components

| Component (code) | State it keeps | Operations | Hard behaviour | What makes it correct |
|---|---|---|---|---|
| Agent runtime (`core/agent_runtime_engine.py`) | sessions, spent calls, decisions | create, authorize, revoke/close | concurrent calls for the last unit of budget, retries, stop during a call, death between writes | budget never exceeded; one decision per request id; nothing granted after a stop; denials reach the risk register |
| Stores (`data/store.py`, `data/postgres_store.py`) | every table, one connection | 60 calls, `transaction()` | shared connection, nesting counter, row locks, aborted transactions | a transaction is all or nothing; what is acknowledged is stored |
| Evidence (`core/evidence_engine.py`, `core/governance_engine.py`) | control evidence, audit log | submit, review, evaluate | two reviewers, expiry between check and write, evaluation during reviews | independent, final review; only valid, approved evidence counts |
| Scheduler (`core/ops_scheduler.py`, `core/ops_executor.py`) | schedules with history | create, pause, resume, delete, mark, due, execute | lost updates, two pollers, a list limit, death of a poller | runs are recorded; due schedules are found and served |
| Cases (`core/incident_manager.py`, `core/remediation_tracker.py`) | incidents, remediations | create, move, note, link | lost updates, re-creation | the history is a legal life and only grows |
| Advisory intelligence (`core/vulnerability_engine.py`, `registry/advisory_feed*.py`) | snapshots, catalog, scans | signed and unsigned import, rescan | overlapping imports, replays, death before the rescan | the chain is linked; the catalog comes from it and never goes back |
| Action ledger (`core/agent_action_ledger.py`) | entries of a session | append, verify | overlapping appends, rescans of the table | append-only; complete; a receipt fixes the past |
| Telemetry (`core/inference_telemetry.py`, `core/guardrail_engine.py`) | window and summary of a session | ingest, check, delete | window limit, repeated batches, overlapping ingests | the window is the newest run of events; repeats are ignored |
| Risk register (`core/risk_register_engine.py`) | managed risks, their audit | observe, update | an update validated against an older record, two first observations | accepted and resolved risks have owner and rationale; recurring ones reopen; nothing uncounted |
| Monitoring (`core/monitoring_engine.py`) | schedules, runs | create, update, run_due | a batch of stale schedules, RUNNING left by a crash | a pause stands; an occurrence runs once; runs tell the truth about themselves |
| Registration (`api/models.py`) | jobs, models | register, job status | background failures, death | a job ends, and COMPLETED means stored and scanned |
| Policy enforcement (`core/policy_enforcement.py`) | policies, logs | write, delete, enforce | overlapping counters, listing order, the list limit, rate windows | a denial holds; the order of policies does not matter |
| Agent registry, tool authorization, egress (`registry/agent_registry.py`, `core/tool_authorization.py`, `core/egress_firewall.py`) | agents, tool policies, ledger entries | register, contain, block, decide | operators who overlap with decisions | what is contained gets nothing; restrictions never grant |
| Adoption and intake (`core/adoption_engine.py`, `core/org_policy_engine.py`, `api/intake.py`, `api/interop.py`) | the model's row | triage, red-team, attest, scheduled scans, decide | long handlers that save the row as they read it; evaluations that fail | a decision rests on stored evidence; bad news never improves it |
| Session monitors (`analysis/resource_monitor.py`, `analysis/human_oversight_monitor.py`, `analysis/memory_integrity.py`) | a summary of a session, its events or entries | budget, use, record, assess, close, write | two rows per call, overlapping saves of the summary | the summary says what was reported; what exceeds a budget or is anomalous shows |
| Workflow graphs (`analysis/workflow_graph.py`) | none | report of a workflow | cycles, bounds, cuts, taint along any path | the report covers every run |
| Identities (`registry/identity_registry.py`, `registry/nhi_registry.py`) | principals, delegations, machine accounts | register, grant, revoke, update, verify | chains read link by link while they change, deadlines, reads that save | an authority is answered as the delegations give it; a revocation stands |
| Analyzers, matchers, scoring, documents, portal, plugins, assistant | read-only or I/O | - | boundary values | - |

`PROJECT.json` lists every component with its status, the hazards of the code
at their lines, and the lines every definition stands for.

## 2. The modules

Each component has a module with its state as variables and one action per
handler step; a store call is one step unless the module says otherwise, and
between two store calls of a handler any other step may happen. `job[w]` (or
`call[w]`) is what handler `w` is in the middle of, local variables included;
`Crash`/`Abort`/`Die` drops it. Variables marked *history* record what clients
were told, and which saves replaced a record that the handler had not read
(`outdated`, `clobbered`, `overlapped`, `behind`, `lost`, `torn`), or which denials an
exception cut short (`cut`); no action's guard or
effect on the other variables depends on them. They let one model with all its
overlaps and deaths state what still holds *unless* a lost update happened, as
strictly as the code allows. Definitions that only exist to be put in the place of
another one, as a slip of the code would, say so in their comment.

*Authorization of agents*

* **RuntimePolicy** - the verdict of `authorize` as operators on records.
  **AgentRuntime** - the sessions over an atomic store.
  **AuthorizationContract** - what is promised: a session opens, rules on
  requests once and for good within its budget, and stops.
  The laws of its verdict are in VerdictLaws.
* **PolicyEnforcement** - policies in the shared table, `enforce_request`, its
  counters, logs and rate limits.
* **ToolAuthorization** - tool policies, capabilities and constraints as operators;
  **ToolLaws** - how their verdict moves. **EgressFirewall** - `decide_egress`, composed of
  PolicyEnforcement, ToolAuthorization, the agent's row and the ledger, with
  operators who contain the agent.
* **Identities** - principals, delegations, the walk of `verify_authority`, and the
  lifecycle of machine accounts.
* **SessionMonitors** - what agents use, say, call and remember, and the summaries kept
  of it.
* **ActionLedger** - appends and rescans of a session's ledger.
  **AppendOnlyLog** - what it promises.

*The store*

* **SharedConnection** - `record_tool_invocation` and the status update over SQLite,
  one SQL statement at a time. `conn` says which connection a thread uses and is chosen
  at the start from `Layouts`. **PostgresStore** - the same over PostgreSQL: the row
  lock, what a statement sees, aborted transactions. With a connection each, both
  keep AuthorizationContract, which justifies the atomic store of AgentRuntime.
* **SharedTransaction** - `transaction()` statement by statement with its nesting
  counter, as an import uses it. **AtomicCatalog** - what it and AdvisoryFeed promise:
  a feed and its records appear in one step, under a sequence of their own.

*Assurance of models*

* **AdvisoryFeed** - imports, replays and rescans; a transaction is one step.
* **RiskRegister** - observations and edits of managed risks. **Monitoring** - schedules
  and runs, whose findings the register observes. **RegistrationJobs** - background
  registration next to monitoring and edits, all three over one register.
* **AdoptionDecision** - the adoption verdict and the organisation policy as operators;
  **AdoptionLaws** - how it moves. **ModelIntake** - the handlers that fill the
  model's row and decide.
* **WorkflowGraph** - what is reported of a workflow, and the runs of that workflow.

*Operations*

* **GovernanceEvidence** - reviews and evaluations with a clock; `Stamp` models
  the string a time is written as, which is what the code compares.
* **OpsScheduler** - schedules, their rows in the shared table, pollers and clients.
* **SecurityCases** - incidents and remediations.
* **InferenceTelemetry** - ingests, guardrail checks and deletion of a session. Each turn
  of the loop over a batch is a step.

Three modules put components side by side that share a store or a question, and each
behaviour is about one of them, chosen at the start: **OverwrittenRows** (the
registries that read, change and save a row of `models`), **SharedStore** (what
handlers that share a store leave in it) and **VerdictLaws** (verdicts and reports).
`MC*` modules give constants their values, `*Proofs` modules hold the theorems.

How state maps to the code: `rows`, `status`, `used` are the tables
`tool_invocation_decisions` and `agent_sessions`; `evidence` is
`control_evidence`; `snapshots` and `catalog` are `advisory_feed_snapshots` and
`vulnerability_advisories`; `register` and `audits` are `risk_register` and its audit
events; `jobs`, `models`, `runs` are `jobs`, `models` and `monitoring_runs`; `table`, `ledger`,
`events`, `policies`, `agent`, `principals`, `delegations`, `accounts`, `summary`, `items` and the `row` of ModelIntake
are metadata of rows of `models`; `db`, `tx`, `depth`, `lock` are the committed database,
what an open transaction sees, `_tx_depth` and `_conn_lock`; `holder` is PostgreSQL's
lock of the session's row.

## 3. What the runs check

| Run | Question | Properties | Bounds |
|---|---|---|---|
| `verdict_laws` | how do verdicts move when one input changes, and does the workflow report cover every run? | RequestsAreJudgedFairly, StepsOnlyRestrict, RestrictionsNeverGrant, AdoptionNeverLoosens, ReportCoversRuns | 2 tools, 2 permissions, 1 step and every field of a policy; 2 restrictions of an agent or session; 6 contexts of use of a model with 2 inputs off; every workflow of 3 steps with any edges, iterated up to 3 times, of which a report analyses 5 transitions and lists 5 risks |
| `session_budget` | do counters, replays and stops stay right, do the handlers implement AuthorizationContract, do denials reach the risk register? | BudgetRespected, AnswersAgree, NoGrantAfterStop, ImplementsContract, DenialsReachRegister | 2 worker processes, 2 request ids, 2 payloads (one that is allowed and one that is denied for a single reason), a budget of 1, 1 death; weak fairness |
| `store_statements` | statement by statement: is what clients were told stored, and does a store between processes keep the contracts; does the ledger verify, do receipts fix the past, is it an append-only log? | AnswersAreStored, StatementsKeepContracts, Verifiable, ReceiptsCommit, LedgerKeepsPromise | SQLite and PostgreSQL with 2 threads, both layouts, 2 request ids, a budget of 1; 2 importers, 1 recorder, 3 envelopes with a fork, 2 records; ledgers of up to 3 entries, rescans, deaths |
| `evidence_review` | do reviews and evaluations stand, whoever races them and whenever evidence expires? | ReviewsStand, EvaluationsStand, ReviewedOnce | 2 handlers, 3 spellings of 2 people, 4 instants in 2 seconds; either 1 contested piece or 2 pieces that share a control (the constraint `EitherPart`) |
| `schedules_served` | is every due schedule served? | DueIsServed | a client, a poller that may die once, 2 schedules, 1 other row, a list of 2, 2 instants; weak fairness |
| `overwritten_rows` | what is left of a row that two handlers overwrite? | TrailIsLegal, LostOnlyToOverlap (cases); SchedulesCoherent; SessionsCoherent (telemetry, monitors); DecisionsStandOnEvidence (models); IdentitiesHold | 2 handlers; an incident and a remediation with 1 note and 5 saves; a schedule of any kind with a history of 2 and 3 instants; 4 events and a window of 2; a model with 3 saves; 2 principals that may delegate to each other and an account with 4 saves and 2 instants; for each monitor 3 saves, and 2 budgets, 3 uses, 2 turns or 2 memory keys |
| `feeds` | is the chain linked, the catalog backed by it and never taken back, are answers true and scans current? | ChainLinked, AnswersTrue, ScansAreCurrent, KeepsPromise, NeverRolledBack, GovernedCatalog | 2 handlers, 6 envelopes of both schemas with two forks, 2 records, a model, 3 answers, deaths |
| `assurance_work` | what do monitoring, registration and people leave in the register, and does their work end? | RegisterSound, ResolvedIsUnseen, NothingUncounted, SchedulesHold, WorkTellsTheTruth, WorkEnds | 2 workers, 1 schedule, 1 job that is downloaded or uploaded, 1 risk, 2 runs, 3 requests, 2 instants, 1 death; weak fairness |
| `egress` | do denials and containments hold, and does the order of policies not matter? | VerdictIsOrderless, DenialsHold, ContainmentHolds | 2 handlers, 2 policies of 4 kinds, 2 requests, a list of 3 rows of which a request asks 1 policy of the agent and 1 of everyone, 2 instants; decisions meet each other, or writers of policies, or operators with 3 changes of the agent, who contain it, release it and register it again (the constraint `EitherPart`) |
| `one_connection_budget` | the documented atomic limit, on one shared connection: violated | CountersAtomic | 2 threads, 1 connection (MCSharedStore's `OneProcessSpec`) |
| `policies_forgotten` | a policy that denies, with other rows saved after it: violated | DenialsEnforced | 1 policy, 2 other rows, a list of 2 |
| `silent_redteam` | a scheduled red-team run with failures opens an incident: violated | FailuresAlarm | 1 handler |

Each component's type invariant is part of the theorems of its `*Proofs` module, or,
where there is none, of its first invariant about a whole record.

The bounds are small because the failures need two actors and one shared record:
one piece of evidence, one budget unit, one window that is full, one rival
feed, one schedule that a batch still holds. Each bound is chosen so that the
limit in question is passed within the run (two requests for one call, two
policies of a kind where a request asks one, three
events for a window of two, more history than `_MAX_HISTORY`, more rows than the list
returns, one iteration more than the bound of a step). A chain of delegations of
two principals already has a cycle, and a workflow of three steps a cycle with a way
in and a way around. That two handlers and not three are enough is not an
assumption where a theorem exists: there it is proved for any number.

Deadlock is checked except where the clients may have nothing left to ask or a
bound stops them (`CHECK_DEADLOCK FALSE` in the configuration): a server that
nobody calls stands still. It is checked for the runs on SQLite's and PostgreSQL's
locks.

### Where the code and its documents differ

`one_connection_budget` shows that threads that share the connection end each
other's transactions, so that the limit check and the increment of
`record_tool_invocation` are not one step: the session's budget of one call is
granted twice, although `threat_model.md:72` has counters "enforced
atomically".

`policies_forgotten` shows that a policy that denies is not found, and the request
allowed, once the rows of other registries fill the list that `enforce_request`
searches, although `core/policy_enforcement.py:21` has an "explicit deny-list" and
`data/store.py:548` counts on "getting every row back".

`silent_redteam` shows that a scheduled red-team run never opens the incident that
`core/ops_executor.py:206` describes: it looks for `probe_failures`, and the engine
returns `total_failures`.

The other differences were met while modelling. Most are the exception that a
property above names - remove the exception and TLC returns the scenario.

*Stores.* A decision that was answered is rolled back when the connection is shared
(AnswersAreStored is about connections of their own). On a shared connection another
call's commit, or a second block, makes half a feed permanent (SharedTransaction's
properties are checked with a connection each). With PostgreSQL a statement that
fails aborts the transaction that others share, and the `commit()` that follows rolls
back in silence.

*Agents.* Two workers whose denials share a reason may both find no risk for it: the second
INSERT meets the UNIQUE fingerprint and raises, so that the denial stays decided, the
client gets an error, and the reasons after it are never observed (`cut` in
DenialsReachRegister). Nothing rolls back: that worker keeps the write lock until its
next write commits, or its next `BEGIN IMMEDIATE` raises, and the writes of other
workers fail after 30 s. Two stops both pass the ACTIVE check and the second rewrites the terminal
status (a stopped session only stays stopped). `register_agent` of an agent that was
contained makes it active again, and overlapping operators undo each other
(`overlapped` in ContainmentHolds). An empty `allowed_actions` allows nothing by the
comment `core/policy_enforcement.py:20`, everything by the code. A policy in
PASSTHROUGH mode lifts a DENY, that of a rate limit included; policies in AUDIT mode
still make a verdict CONDITIONAL; the rate limit counts only the logs that name the
policy evaluated first; a counter that a request saves brings back the policy as it
was listed (`clobbered` in DenialsHold). A request asks the newest 50 policies of its agent and the
newest 20 of everyone (`limit=` at `core/policy_enforcement.py:308` and 310), so that
the 21st and older ones of everyone are not asked even when the table is short
(`complete` in DenialsHold; in the model, OwnLimit and EveryoneLimit). An unknown sensitivity label has rank 0.

*Identities.* Any link of a chain of delegations grants its own scope: a delegate may
do whatever its delegator was delegated, although a delegation is to act "within scope
on behalf of delegator_id" (`registry/identity_registry.py:233`) - `HasAuthority` is what the
code grants. Granting a delegation id again reactivates a revoked one. A REVOKED account,
terminal by `registry/nhi_registry.py:65`, is PENDING after it is registered again, or active
after an overlapping `update_nhi`.

*Monitors.* Calls of tools are counted and never compared with
`max_tool_calls_per_session`, a use is judged by the budget read before it was replaced, the estimated cost is
recomputed by a use of tokens only (a new budget whose handler dies before it resets the
totals leaves the cost of the old rate to be judged by the new limit),
and an output or assessment that read an oversight session before it was closed opens
it again. A memory store that is COMPROMISED turns SUSPICIOUS with the next soft signal,
though the compromised entry is still there, and registering it again zeroes its counts
and leaves its entries; a turn that is recorded twice keeps the second text's signals
only (`lost` and `told` in the properties of SessionMonitors).

*Evidence, schedules, cases.* Evidence that expires on a whole second can be approved,
and counts, for the rest of that second, since `Z` sorts after `.` (IsExpired in
ReviewsStand is the program's order of strings, not that of time). A recorded run is
overwritten by a pause that read the schedule before it (`clobbered` in
SchedulesCoherent). A schedule that is created again reads the clock before the record it
replaces, and keeps that record's history: it may be due at or before a run that it
remembers (SchedulesCoherent has `next` after `last_run_at`, which such a schedule does
not have until it runs). A due schedule falls off the newest 100 rows (`Listed` in
DueIsServed). A saved transition of a case is overwritten or its id created again
(LostOnlyToOverlap), and its oldest notes are dropped.

*Advisories, ledger, telemetry.* A legacy feed that was verified against an older head
is stored last (NeverRolledBack), an unsigned import that began before the first
signed feed ends after it (GovernedCatalog), and a death after the import leaves
models unscanned for good (`behind` in ScansAreCurrent). An appended entry that was
handed out is gone and the chain still verifies (`overlapped` in
LedgerKeepsPromise); a rescan of the models table does the same. Accepted telemetry is
overwritten by an ingest that read the row before, and FLAG verdicts have an event
type that telemetry refuses (SessionsCoherent is about BLOCK only).

*Risks, monitoring, registration.* `run_due` enables a schedule that was paused while
the batch ran (the exception of SchedulesHold), and a run whose process died stays
RUNNING. An edit validated against a risk read before a new observation stores a state
nobody validated (`torn` in RegisterSound). The second INSERT of one finding is refused, and the
findings after it are not observed. A registration that fails early loses its own
error, and the job stays RUNNING (`abandoned` in WorkEnds).

*Adoption.* Triage saves the row as it read it: a red-team result or an attestation
stored meanwhile is erased, and so is the scan that triage has just made
(the exceptions of DecisionsStandOnEvidence) - which makes `README.md:356`, by which
findings are in the verdict, true only without overlap. Missing scans, probes, red-team
results and risk assessments only add gaps, although the docstring
`core/adoption_engine.py:112` has that this "conservatively lowers toward INSUFFICIENT_EVIDENCE". Hence
what a lost record had found no longer counts: the loss may lift DO_NOT_APPROVE as far as the
model's other evidence goes, unless the record is one that the verdict requires (provenance, and
in a strict use vulnerabilities, scan and probes). A rerun that fails replaces the findings of the one before
and may lift DO_NOT_APPROVE to INSUFFICIENT_EVIDENCE, no further. AdoptionNeverLoosens states
just these bounds, and that an evaluation which failed or is lost never counts for more
than one that found nothing. A PyRIT run whose prompts all end in an error is such a clean one
(COMPLETED and complete with no findings, `core/redteam_engine.py:603`); it is the step
SilentRerun, after which the verdict may be any that a clean run gives. A red-team
tool that is not installed caps the verdict there, although `README.md:389` and
`core/redteam_engine.py:31` say that it does not. Weights of which only the header was read cap
the verdict, and the backdoor heuristics
compare a status with values nothing returns.

*Workflows.* A workflow of more than 1000 steps or 5000 edges is analysed up to there, and
of more than 500 risks the first 499 are listed and that there were more; the report then says that its assessment
is not complete. ReportCoversRuns is about complete reports (MaxNodes, MaxEdges and
MaxRisks in the model): of a cut one the code promises nothing.

*Read, and not modelled.* Polls of schedules that are filtered by job type ask the same
list; a note of a case that two handlers overwrite is lost like a transition, and no
property counts notes. Registering an MCP server again, or an empty rescan of it, hides
a change of its tools; `feed_status` calls the snapshot that was imported last the
latest one.

### Fairness

Three runs check liveness. In `session_budget` each handler's own steps are weakly
fair: a thread that serves a request goes on. One that waits for the write lock which a
failed INSERT of another worker has left taken goes on as well: sqlite3 gives it up after
30 s (`TimeOut`). DenialsReachRegister counts what a death may lose, and sets apart the
denials whose handler an exception ended (`cut`); it says that there are none unless two
denials of an artifact share a reason. In `schedules_served`
the steps of handlers and the polling of a loop or cron job are weakly fair. In
`assurance_work` the own steps of handlers are weakly fair, calls of the register
included; WorkEnds leaves out the work of a handler that died or lost its error, and
says that the open work runs out once the bounded requests do (which implies that each
run and each job ends). No client action, no crash and no tick of the clock is fair.

## 4. What is proved

All theorems are about every value of the constants: any number of handlers,
sessions, pieces of evidence, feeds, risks, calls. Each proof follows one pattern: an
invariant, shown true initially and kept by every action, from which the
properties follow by temporal logic.

| Module | Theorems | Why the invariant needs more than the property |
|---|---|---|
| AgentRuntimeProofs | TypeCorrect, BudgetSafe, DecisionsIdempotent, StoppedSessionsGrantNothing, PersistentDecisions, StoppedForGood, Implementation (refines AuthorizationContract) | the guard speaks of the counter, the property of the table: BudgetCounted ties them; JobsHoldRows and JobsHaveSessions say what handlers in progress rely on. RowAtWork: the row that a handler is recording, observing or answering is stored, through each look-up, UPDATE, INSERT, clash and time-out; the steps that only touch the register or the locks change nothing that the contract speaks of (QuietStep) |
| GovernanceEvidenceProofs | TypeCorrect, ReviewsSound, EvaluationsRestOnReviews, ReviewIsFinal | JobsSound: what the checks of `review` established still holds at the write, because submissions never change |
| OverwrittenRowsProofs | TrailsStayLegal, OnlyOverlapUndoes, SchedulesCohere, SessionsStayCoherent, SummariesStay, DecisionsStand, IdentitiesStay (of the composition); TypeCorrect, TrailAlwaysLegal, OnlyOverlapLoses (SecurityCases); RecordsAlwaysCoherent, RunsAlwaysRecorded (OpsScheduler); AuthorityIsAlwaysTrue, DelegationsAlwaysStand, IdentitiesAlwaysStand (Identities); DecisionsAlwaysRest, EvidenceAlwaysStays (ModelIntake); UsageAlwaysJudged, OversightAlwaysStands, MemoryAlwaysStands (SessionMonitors) | records in flight will be saved, so they must be sound as well, and one that nobody has overtaken must extend the stored one (RowsSound and CallSound for identities). WalkSound: unless somebody was given something meanwhile, a walk has seen every delegation that those it visited still have, and what it could still confirm was there when it began (Potential). Rests: what triage knows is what it read, but for a first scan of its own. JobsInv: every record, stored or carried, is one the code computes (Kept: no recorded run is to come, where there is a last_run_at), and what a handler that nobody overtook will save counts on from what is stored (Follows). UsageSound and SessionSound: what will be saved is what was read, with the handler's own change. MemoryInv: while nobody has died or been overtaken, the counts are those of the entries without what its writer has yet to count (Fresh, Bad), and stores that follow each other only grow (Before), so that a save which changes the counts leaves every other writer overtaken. TelemetryInv: a list that a handler carries is a run of sequence numbers that goes on from the one it read (LoopSound), whose events were all accepted; what the window cuts off a run has as many later events as the window is long. RowsInv joins them: each registry's part holds while the behaviour is about it, since the others rest |
| AdvisoryFeedProofs | TypeCorrect, ChainAlwaysLinked, CatalogAlwaysBacked, AnswersAlwaysTrue, RollbackNeedsOverlap, GovernanceHolds, ScansAlwaysCurrent, FeedsKeepPromise (refines AtomicCatalog) | HasLatest (stored feeds have a highest sequence), ClaimsAreLinked (a verified successor is still one at its claim), PromisesAreTrue (what a handler will report), VerifiedAtHead and NoGaps (what a claim knows of the head it was verified against); Rescanned: a model whose scan is not of the catalog has a handler that has yet to scan it, or is in `behind`. |
| RegistrationJobsProofs | RegisterTypeCorrect, RegisterStaysSound, ResolvedStaysUnseen, NothingGoesUncounted (about RiskRegister alone), ImplementsRegister, WorkKeepsRegisterSound, WorkReopensResolved, WorkCountsEverything, SchedulesAlwaysHold, WorkAlwaysTellsTheTruth | ReadsStand (who has not been overtaken has read what is stored), EditsStand (what it will write is complete for that), Audited (each edit without an audit event has a handler that owes it, or had one that died), Occurred (the counter is the number of observations). Then the handlers of monitoring, registration and the API together take only steps of RiskRegister, so that its theorems hold of the composition. ScheduleInv: the occurrence that a stored schedule has next has not begun, and a copy that a handler carries and that is not outdated is what is stored. RunInv and JobInv: each run or job in progress has one handler or an orphan's mark, and what its run has found is in the register or still ahead of it |
| SharedStoreProofs | AnswersStayStored, StatementsAreSteps, BudgetsKept, ChainsVerify, ReceiptsTellThePast, LedgerIsALog (of the composition); DecidedAlwaysOnce, AnswersAlwaysPersisted, BudgetAlwaysKept, StoreKeepsContract (SharedConnection); PostgresDecidesOnce, PostgresAnswersPersisted, PostgresKeepsBudget, PostgresKeepsContract (PostgresStore); LedgerTypeCorrect, AlwaysVerifiable, ReceiptsAlwaysCommit, OnlyOverlapLoses, LedgerPromiseKept (ActionLedger); AcknowledgedStaysStored, BlockIsAtomic (SharedTransaction) | both stores refine AuthorizationContract statement by statement, when each thread has a connection of its own. SQLite: OneWriter (at most one connection has a writing transaction, and it goes on from all that is committed); Alone (what a thread knows of its transaction before each statement). PostgreSQL: PgDistinct (no two transactions hold rows of one request); PgAlone (whoever decides holds the lock of the session's row, and decides on the counter as committed). Kept, of both: the counter is the number of allowed rows and within the limit. The ledger: Built (chained, numbered, and every hash is the history up to its entry), for the stored list and for every copy a handler will save. Transactions: OneFeedWriter (one open transaction at most has written) and ThreadAlone (what a thread knows between two statements of its transaction, which nobody else can commit or abort). StoresInv joins them |
| EgressFirewallProofs | FirewallTypesAlwaysHold, VerdictsAlwaysOrderless, DenialsAlwaysHold, ContainmentAlwaysHolds | PepInv: the loop of `enforce_request` has said so far what the policies it has asked call for (SaidBy), a policy that no request saved back is as an operator wrote it (WrittenStands), and a request that saw the whole table, and no more policies of a kind than it asks for, listed all of that kind that was not written since (Covered). DecisionsSound: a decision about a contained agent was a denial from the start, and one for a tool that stays blocked has not passed the second look at the agent (AskTool); AsPromised ties the stored row to what operators were promised |
| VerdictLawsProofs | RequestsJudgedFairly, StepsRestrict, RestrictionsGrantNothing, AdoptionLoosensNothing, ReportsCoverRuns | the laws of verdicts are about one change of an input, and need of the state only that inputs are well formed; what takes the work is that a change never removes a reason for a denial (NoLooser: agents, tool policies, sessions), nor raises a cap of the adoption verdict (NoBetter, Lowered), which is the least of its caps. For failed and lost evaluations: a clean result in the place of any other never lowers the verdict (CleanInputsNeverLower), and where a record is required its absence is a cap (RequiredLossStep). The report, when it is complete and so nothing was cut (CompleteReports): RunInv says of a run what the report reads off the graph: there is a way to where it is around all the guards that it has not crossed (RouteIsUncut), the tainted data that it carries is among what the analysis finds at its step (TaintsAreTracked), and no step of a cycle has been visited more often than the one that controls the cycle (VisitsAreLimited, ControllersLead) |

They rest on the named assumptions of the modules (`ConstantsAssumption`,
`EvidenceAssumption`, `CasesAssumption`, `FeedAssumption`, `RegisterAssumption`,
`MonitoringAssumption`, `JobsAssumption`, `EnforcementAssumption`, `FirewallAssumption`,
`RowsAssumption`, `SharedStoreAssumption`, which join those of the modules they compose,
`LawsAssumption`, `WorkflowsAssumption`), which TLC evaluates on the instances, and on SHA-256 being injective (an envelope or digest
stands for its content). They say what kind of value a constant is: that a record of a
policy or an agent has its fields, that keys of rows of different registries differ (the
code gives each registry a prefix), that a list has a limit of at least one row.

Lists are handled by position (`Picked`, `Listed`): what a filter keeps and a limit cuts
off is proved by counting: the rank of a kept position among the kept ones is an
injection into as many numbers, hence onto them.

Every invariant and action property of a passing run is the statement of a theorem about
the run's specification, fairness aside. Only model-checked: liveness (WorkEnds,
DueIsServed, DenialsReachRegister), since fairness needs ENABLED.

## 5. The plan

Done, in this order: runtime authorization; the shared connection; evidence;
scheduling; cases; advisory intelligence with its transaction; the action
ledger; telemetry; PostgreSQL; risks, monitoring and registration; policies, tools
and egress; adoption and intake; workflow graphs; identities; session monitors.

No safety property is left without a theorem.

Next modules: advisory version ranges and fact reconciliation by origin, as pure
operators against reference definitions; the permission graph and the agent topology;
the registry of MCP servers with its rescans; the RAG taint gate.

## 6. Not modelled, and why

* Analyzers, scoring and risk engines (`analysis/*_risk_v2.py`, `analysis/supply_chain.py`,
  `core/risk_engine.py`, ...): patterns over text and weighted sums, without state; TLC would
  enumerate strings. What the adoption verdict reads of them is an input of AdoptionDecision.
* Advisory matching, fact reconciliation, lineage: pure functions of documents;
  what they return is an input of AdvisoryFeed and AdoptionDecision.
* Signatures, canonical JSON, BOM, provenance and attestation documents: inputs are
  what verifies.
* Inventories and provenance graphs (`analysis/adoption_velocity.py`, `registry/rag_inventory.py`,
  ...): they extend and save whole rows like the registries of OverwrittenRows, and
  compute scores from them; scan results and manifests are rows that never change.
* Report snapshots: inserted once under a new identifier and never updated.
* The MCP scanner, red-team and probe engines and the assistant drive external
  programs; what a run can end in is an input of ModelIntake.
* Reports, architecture and assurance documents, mappings, portal, exports,
  notifications, plugins, metrics, HTTP and roles: read-only aggregation, layout, or I/O.
* In modelled components: parsing and validation of requests, JSON columns and
  migrations, the rules that derive governance findings, confidence and the wording of
  reasons, the hygiene report of machine accounts, the anomaly, snapshot and telemetry
  jobs of the executor, the routes of `api/intake.py` for weights and unknown models,
  `feed_status`.
