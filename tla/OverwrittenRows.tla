-------------------------- MODULE OverwrittenRows --------------------------
(***************************************************************************)
(* The registries that read a row of the models table, change it and save  *)
(* it whole, the one or the other: an incident and a remediation           *)
(* (SecurityCases), a recurring job (OpsScheduler), the telemetry of a     *)
(* session (InferenceTelemetry), what is known of a model (ModelIntake),   *)
(* principals and their delegations, or a machine account (Identities),    *)
(* the monitors of a session (SessionMonitors), each with handlers that    *)
(* overlap.                                                                *)
(***************************************************************************)
EXTENDS SecurityCases

CONSTANTS
    Clients, Pollers, Schedules, Plans, Others, ListLimit, MaxHistory, Operations, MaxRuns, MaxTime,
    MaxCrashes, Never,
    Ids, Batches, Window, Guarded, Deletes, Failures, MaxSequence,
    Base, Context, Evaluations, ProbeRuns, Scans,
    Principals, Delegations, Accounts, Terms, Scopes, Requests, Keep,
    LastDay, RegistrySaves,   \* bounds on the clock and the saves of Identities
    Budgets, Uses, Items, Severities, Levels,
    RowSaves                  \* bound on the saves of a model's row, or of a summary

VARIABLES
    rows,       \* which registry this behaviour is about
    schedules, order, now, scheduleJob, marks, ran, behind, clobbered, crashes,
    events, summary, telemetryJob, accepted, verdicts,
    model, modelJob, incidents, alarms, lost, modelSaves,
    principals, delegations, accounts, authorityCall, written, lostRows, registrySaves,
    budget, sessionRow, items, monitorCall, told, lostSessions, monitorSaves
scheduleVars == <<schedules, order, now, scheduleJob, marks, ran, behind, clobbered, crashes>>
telemetryVars == <<events, summary, telemetryJob, accepted, verdicts>>
modelVars == <<model, modelJob, incidents, alarms, lost, modelSaves>>
identityVars == <<principals, delegations, accounts, authorityCall, written, lostRows, registrySaves>>
monitorVars == <<budget, sessionRow, items, monitorCall, told, lostSessions, monitorSaves>>
rowVars == <<rows, vars, scheduleVars, telemetryVars, modelVars, identityVars, monitorVars>>

Jobs == INSTANCE OpsScheduler WITH table <- schedules, job <- scheduleJob, outdated <- behind
Telemetry == INSTANCE InferenceTelemetry WITH Workers <- Handlers, job <- telemetryJob
Models == INSTANCE ModelIntake
    WITH MaxSaves <- RowSaves, row <- model, job <- modelJob, saves <- modelSaves
Trust == INSTANCE Identities
    WITH MaxTime <- LastDay, MaxSaves <- RegistrySaves,
         call <- authorityCall, lost <- lostRows, saves <- registrySaves
Monitors == INSTANCE SessionMonitors
    WITH MaxSaves <- RowSaves, summary <- sessionRow, call <- monitorCall, lost <- lostSessions,
         saves <- monitorSaves

ASSUME RowsAssumption ==
    /\ Jobs!Configured /\ Models!IntakeAssumption /\ Trust!IdentitiesAssumption
    /\ Monitors!MonitorsAssumption /\ Telemetry!TelemetryAssumption

RowsInit == /\ rows \in {"cases", "schedules", "telemetry", "models", "authority", "accounts",
                         "usage", "oversight", "memory"}
            /\ Init /\ Jobs!Init /\ Telemetry!Init /\ Models!Init /\ Trust!Init
            /\ CASE rows = "usage" -> Monitors!UsageInit [] rows = "memory" -> Monitors!MemoryInit
                 [] OTHER -> Monitors!OversightInit
            /\ rows # "models" => model = Models!Blank

RowsNext ==
    /\ UNCHANGED rows
    /\ \/ rows = "cases" /\ Next /\ UNCHANGED <<scheduleVars, telemetryVars, modelVars, identityVars, monitorVars>>
       \/ rows = "schedules" /\ Jobs!Next /\ UNCHANGED <<vars, telemetryVars, modelVars, identityVars, monitorVars>>
       \/ rows = "telemetry" /\ Telemetry!Next /\ UNCHANGED <<vars, scheduleVars, modelVars, identityVars, monitorVars>>
       \/ rows = "models" /\ Models!Next /\ UNCHANGED <<vars, scheduleVars, telemetryVars, identityVars, monitorVars>>
       \/ /\ rows = "authority" /\ Trust!AuthorityNext
          /\ UNCHANGED <<vars, schedules, order, scheduleJob, marks, ran, behind, clobbered, crashes,
                         telemetryVars, modelVars, monitorVars>>
       \/ /\ rows = "accounts" /\ Trust!AccountsNext
          /\ UNCHANGED <<vars, scheduleVars, telemetryVars, modelVars, monitorVars>>
       \/ /\ \/ rows = "usage" /\ Monitors!UsageNext
             \/ rows = "oversight" /\ Monitors!OversightNext
             \/ rows = "memory" /\ Monitors!MemoryNext
          /\ UNCHANGED <<vars, scheduleVars, telemetryVars, modelVars, identityVars>>

RowsSpec == RowsInit /\ [][RowsNext]_rowVars

(* Models alone, and schedules alone with the fairness of their handlers.  *)
ModelsInit == rows = "models" /\ RowsInit
ModelsSpec == ModelsInit /\ [][RowsNext]_rowVars
SchedulesInit == rows = "schedules" /\ RowsInit
SchedulesLiveSpec == SchedulesInit /\ [][RowsNext]_rowVars /\ Jobs!Fairness
-----------------------------------------------------------------------------
(* A schedule is a record that some handler computed; its runs are counted *)
(* and those that were recorded are over, unless an outdated record was    *)
(* saved over it.                                                          *)
SchedulesCoherent == rows = "schedules" => Jobs!RecordsCoherent /\ Jobs!RunsRecorded

(* What monitors say of a session is what was reported to them, unless a   *)
(* summary was saved over one that was not read.                           *)
SummariesStand ==
    /\ rows = "usage" => Monitors!UsageIsJudged
    /\ rows = "oversight" => Monitors!OversightStands
    /\ rows = "memory" => Monitors!MemoryStands

(* The window of a session is one run of events with its own summary, has  *)
(* every verdict that was posted, and keeps the latest events; and the     *)
(* summaries of its monitors stand.                                        *)
SessionsCoherent ==
    /\ [](/\ rows = "telemetry" => Telemetry!WindowIsARun /\ Telemetry!BlocksRecorded
          /\ SummariesStand)
    /\ Telemetry!LatestAreKept

(* A decision about a model and the evidence it rests on are stored        *)
(* together, evidence goes only when an outdated row is saved, and a       *)
(* scheduled scan that found grave matches opened an incident.             *)
DecisionsStandOnEvidence ==
    /\ Models!DecisionsRest /\ Models!EvidenceStays
    /\ []("scan" \in alarms => "scan" \in incidents)

(* An authority is confirmed only if it is there, what was revoked stays   *)
(* revoked, and of principals, delegations and accounts what was written   *)
(* last is stored unless an outdated row was saved.                        *)
IdentitiesHold ==
    rows \in {"authority", "accounts"} =>
        Trust!TypeOK /\ Trust!AuthorityIsTrue /\ Trust!DelegationsStand /\ Trust!IdentitiesStand

(* ops_executor.py:198-210: a scheduled red-team run that reported         *)
(* failures opened an incident.                                            *)
FailuresAlarm == Models!FailuresAlarm

(* No due schedule waits for ever, unless newer rows push it off the list. *)
DueIsServed == Jobs!DueIsServed
=============================================================================
