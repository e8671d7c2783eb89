---------------------------- MODULE ModelIntake ----------------------------
(***************************************************************************)
(* What is known of one registered model, and the decision to adopt it:    *)
(* triage (api/intake.py), background red-team runs and attestations       *)
(* (api/interop.py, api/models.py), and vulnerability scans and red-team   *)
(* runs of the operations scheduler (core/ops_executor.py).                *)
(*                                                                         *)
(* All of it is in the model's row, in the columns below; each handler     *)
(* reads the row and saves it whole.  Each step of a handler makes one     *)
(* store call; audit entries and metrics are left out.  A process may die  *)
(* between two steps.                                                      *)
(***************************************************************************)
EXTENDS AdoptionDecision

CONSTANTS Handlers,
          Base,           \* the evidence of the model that does not change here
          Context,        \* of its use
          Evaluations,    \* what a red-team run can end in
          ProbeRuns,      \* what the built-in probes can end in
          Scans,          \* what a vulnerability scan can find
          MaxSaves        \* bound on the saves of the row

VARIABLES row,        \* the columns of the model's row
          job,        \* [Handlers -> the handler in progress]
          incidents,  \* the kinds of job that opened an incident
          alarms,     \* history: the kinds of scheduled job that ended with grave findings
          lost,       \* history: has a row been saved over one that was not read?
          saves
vars == <<row, job, incidents, alarms, lost, saves>>

Idle == [at |-> "idle"]
Row == [redteam : Evaluations \cup {Absent}, probes : ProbeRuns \cup {Absent},
        vulns : Scans \cup {Absent}, attested : BOOLEAN, decision : Ranks \cup {Absent}]
Blank == [redteam |-> Absent, probes |-> Absent, vulns |-> Absent, attested |-> FALSE,
          decision |-> Absent]

(* What the proofs, and every instance, take the constants to be.          *)
IntakeAssumption == /\ Absent \notin Evaluations /\ Absent \notin ProbeRuns
                    /\ Absent \notin Scans /\ Absent \notin Ranks
                    /\ \E scan \in Scans : scan.found = {}

TypeOK == /\ row \in Row /\ lost \in BOOLEAN
          /\ incidents \subseteq {"scan", "redteam"} /\ alarms \subseteq {"scan", "redteam"}
          /\ \A h \in Handlers : job[h] # Idle => job[h].read \in Row

Init == /\ row \in {Blank, [Blank EXCEPT !.vulns = CHOOSE scan \in Scans : scan.found = {}]}
        /\ job = [h \in Handlers |-> Idle]
        /\ incidents = {} /\ alarms = {} /\ lost = FALSE /\ saves = 0
-----------------------------------------------------------------------------
At(h, at) == job[h].at = at
Goto(h, next) == job' = [job EXCEPT ![h] = next]
Quiet == UNCHANGED <<row, lost, saves>>
QuietAlarms == UNCHANGED <<incidents, alarms>>

(* save_model of a row that was changed since it was read loses a change.  *)
Save(read, new) == /\ row' = new
                   /\ lost' = (lost \/ row # read)
                   /\ saves' = saves + 1
SavedAlone(read, column, value) == [Blank EXCEPT ![column] = value] \* mutant: the other columns are not copied
Saved(read, column, value) == [read EXCEPT ![column] = value]
Begin(h) == job[h] = Idle /\ saves < MaxSaves /\ Quiet /\ QuietAlarms

(* The evidence that a row holds, as triage passes it to the adoption      *)
(* engine.                                                                 *)
EvidenceOf(known) ==
    [Base EXCEPT !.redteam = known.redteam, !.probes = known.probes, !.vulns = known.vulns,
                 !.identity.attested = known.attested]
DecisionOn(known) == Recommend(EvidenceOf(known), Context)

(* triage_model reads the row.  A model that was never scanned is scanned  *)
(* now.                                                                    *)
BeginTriage(h) ==
    /\ Begin(h)
    /\ \E probing, persist \in BOOLEAN :
        Goto(h, [at |-> IF row.vulns = Absent THEN "scan" ELSE "probe",
                 read |-> row, known |-> row, probing |-> probing, persist |-> persist])

(* scan_model, from triage, after an import of advisories or on schedule:  *)
(* it reads the row, and saves it with the result.                         *)
BeginScan(h) ==
    /\ Begin(h)
    /\ \E scheduled \in BOOLEAN :
        Goto(h, [at |-> "saveScan", read |-> row, triage |-> Absent, scheduled |-> scheduled])

TriageScans(h) ==
    /\ At(h, "scan")
    /\ Goto(h, [at |-> "saveScan", read |-> row, triage |-> job[h], scheduled |-> FALSE])
    /\ Quiet /\ QuietAlarms

SaveScan(h) ==
    /\ At(h, "saveScan")
    /\ \E scan \in Scans :
        /\ Save(job[h].read, Saved(job[h].read, "vulns", scan))
        /\ IF job[h].triage # Absent
           THEN Goto(h, [job[h].triage EXCEPT !.at = "probe", !.known.vulns = scan])
           ELSE IF job[h].scheduled
           THEN Goto(h, [at |-> "alarm", kind |-> "scan", read |-> row', result |-> scan])
           ELSE Goto(h, Idle)
    /\ QuietAlarms

(* With an endpoint the built-in probes are run, and saved in the row that *)
(* triage read at its start.                                               *)
Probe(h) ==
    /\ At(h, "probe")
    /\ IF job[h].probing
       THEN \E result \in ProbeRuns :
              LET new == Saved(job[h].read, "probes", result)
              IN /\ IF job[h].persist THEN Save(job[h].read, new) ELSE Quiet
                 /\ Goto(h, [job[h] EXCEPT !.at = "decide", !.known.probes = result,
                                           !.read = IF job[h].persist THEN new ELSE @])
       ELSE Quiet /\ Goto(h, [job[h] EXCEPT !.at = "decide"])
    /\ QuietAlarms

DecideFrom(known, now) == \* mutant: triage takes the red-team results from the row as it is by then
    DecisionOn([known EXCEPT !.redteam = now.redteam])

(* The recommendation, from what was known at the start and learnt since.  *)
Decided(known, now) == DecisionOn(known)

Decide(h) ==
    /\ At(h, "decide")
    /\ IF job[h].persist
       THEN Save(job[h].read, Saved(job[h].read, "decision", Decided(job[h].known, row)))
       ELSE Quiet
    /\ Goto(h, Idle) /\ QuietAlarms
-----------------------------------------------------------------------------
(* A red-team run reads the row when it is over, whether it was started by *)
(* a client or on schedule.                                                *)
BeginRedteam(h) ==
    /\ Begin(h)
    /\ \E result \in Evaluations, scheduled \in BOOLEAN :
        Goto(h, [at |-> "saveRedteam", read |-> row, result |-> result, scheduled |-> scheduled])

SaveRedteam(h) ==
    /\ At(h, "saveRedteam")
    /\ Save(job[h].read, Saved(job[h].read, "redteam", job[h].result))
    /\ Goto(h, IF job[h].scheduled
               THEN [at |-> "alarm", kind |-> "redteam", read |-> row', result |-> job[h].result]
               ELSE Idle)
    /\ QuietAlarms

(* The executor opens an incident for the grave matches of a scan, and for *)
(* the probe_failures of a red-team run.  run_redteam returns              *)
(* total_failures, and nothing of that name.                               *)
ProbeFailures(result) == {}
AlarmingOnCritical(kind, result) == \* mutant: no incident for a match of high severity
    kind = "scan" /\ "CRITICAL" \in result.found
Alarming(kind, result) ==
    IF kind = "scan" THEN result.found \cap Grave # {} ELSE ProbeFailures(result) # {}

Alarm(h) ==
    /\ At(h, "alarm")
    /\ incidents' = incidents \cup {kind \in {job[h].kind} : Alarming(kind, job[h].result)}
    /\ alarms' = alarms \cup {kind \in {job[h].kind} : job[h].result.found \cap Grave # {}}
    /\ Goto(h, Idle) /\ Quiet

(* create_model_attestation, and the Sigstore verification of a model.     *)
BeginAttest(h) == Begin(h) /\ Goto(h, [at |-> "saveAttested", read |-> row])

SaveAttested(h) ==
    /\ At(h, "saveAttested")
    /\ Save(job[h].read, Saved(job[h].read, "attested", TRUE))
    /\ Goto(h, Idle) /\ QuietAlarms

Crash(h) == job[h] # Idle /\ Goto(h, Idle) /\ Quiet /\ QuietAlarms

Next == \E h \in Handlers :
            \/ BeginTriage(h) \/ TriageScans(h) \/ Probe(h) \/ Decide(h)
            \/ BeginScan(h) \/ SaveScan(h)
            \/ BeginRedteam(h) \/ SaveRedteam(h) \/ Alarm(h)
            \/ BeginAttest(h) \/ SaveAttested(h)
            \/ Crash(h)
Spec == Init /\ [][Next]_vars
-----------------------------------------------------------------------------
Deciding(h) == At(h, "decide") /\ job[h].persist /\ saves' # saves /\ job'[h] = Idle

(* A decision is saved with the evidence that it rests on, whatever else   *)
(* happened to the row meanwhile, except that a scan which triage made     *)
(* itself may be missing from it.                                          *)
DecisionsRest ==
    [][\A h \in Handlers : Deciding(h) =>
         \E scan \in {row'.vulns} \cup {scan \in Scans : row'.vulns = Absent} :
            row'.decision = DecisionOn([row' EXCEPT !.vulns = scan])]_vars

(* What was found out about a model stays known, and what replaces it is   *)
(* of the same kind, until somebody saves a row that is not the one stored *)
(* then.  A triage that makes the first scan of a model is such a one.     *)
EvidenceStays ==
    [][lost' \/ \A column \in {"redteam", "probes", "vulns", "decision"} :
                    row'[column] = Absent => row[column] = Absent]_vars

(* ops_executor.py:198-210: a scheduled red-team run that reported         *)
(* failures opened an incident.                                            *)
FailuresAlarm == "redteam" \in alarms => "redteam" \in incidents
=============================================================================
