----------------------------- MODULE Monitoring -----------------------------
(***************************************************************************)
(* Scheduled assurance: core/monitoring_engine.py, whose runs feed their   *)
(* findings to the risk register.  A handler that runs what is due lists   *)
(* the due schedules once and then saves, runs and closes one after the    *)
(* other; clients create and patch schedules meanwhile.  Every save of a   *)
(* schedule writes the whole record.                                       *)
(***************************************************************************)
EXTENDS RiskRegister, Sequences

CONSTANTS Schedules,
          Interval,     \* interval_seconds
          MaxRuns,      \* bound on runs
          MaxTime       \* bound on the clock

ASSUME MonitoringAssumption ==
    Interval \in Nat \ {0} /\ MaxTime \in Nat /\ MaxRuns \in Nat /\ Keep \notin BOOLEAN

VARIABLES schedules,  \* [Schedules -> record or Absent]
          runs,       \* monitoring_runs, in the order of their insertion
          now,
          job,        \* [Workers -> the handler in progress]
          paused,     \* history: schedules that a client disabled last
          begun,      \* history: [Schedules -> due times for which a poll has begun a run]
          outdated,   \* history: <<handler, schedule>>: saved since the handler read it
          clobbered,  \* history: schedules saved by such a handler
          orphans     \* history: runs whose handler died

scheduleVars == <<schedules, paused, begun, outdated, clobbered>>
monitoringVars == <<scheduleVars, runs, now, job, orphans>>

Record == [enabled : BOOLEAN, next : Nat]
RunRecord == [schedule : Schedules, status : {"RUNNING", "COMPLETED", "FAILED"},
              persistence : {"COMPLETE", "DEGRADED"}, findings : SUBSET Risks]

Idle == [at |-> "idle"]
Entry == [id : Schedules, record : Record]  \* a schedule as it was listed
Batch == [at : {"batch"}, todo : SUBSET Entry, time : Nat, poll : BOOLEAN]
MonitoringJob ==
    {Idle} \cup Batch
    \cup [at : {"open"}, id : Schedules, rest : Batch \cup {Idle}]
    \cup [at : {"analyze", "observe"}, run : Nat, rest : Batch \cup {Idle}]
    \cup [at : {"patch"}, id : Schedules, record : Record, enabled : BOOLEAN \cup {Keep},
          restart : BOOLEAN]

MonitoringTypeOK ==
    /\ schedules \in [Schedules -> Record \cup {Absent}]
    /\ runs \in Seq(RunRecord) /\ Len(runs) <= MaxRuns
    /\ now \in 0..MaxTime
    /\ paused \subseteq Schedules
    /\ begun \in [Schedules -> SUBSET Nat]
    /\ outdated \subseteq Workers \X Schedules /\ clobbered \subseteq Schedules
    /\ orphans \subseteq 1..MaxRuns

(* Schedules may be there from an earlier life of the process.             *)
MonitoringInit ==
    /\ schedules \in [Schedules -> {Absent, [enabled |-> TRUE, next |-> 0]}]
    /\ runs = <<>> /\ now = 0
    /\ job = [w \in Workers |-> Idle]
    /\ paused = {} /\ begun = [id \in Schedules |-> {}]
    /\ outdated = {} /\ clobbered = {} /\ orphans = {}
-----------------------------------------------------------------------------
Goto(w, next) == job' = [job EXCEPT ![w] = next]
Free(w) == job[w] = Idle /\ call[w] = NoCall

Tick == /\ now < MaxTime /\ now' = now + 1
        /\ UNCHANGED <<scheduleVars, runs, job, orphans, registerVars>>

(* What w holds of schedule id and has yet to save.                        *)
Holds(w, id) ==
    \/ job[w].at = "patch" /\ job[w].id = id
    \/ job[w].at = "batch" /\ \E e \in job[w].todo : e.id = id
    \/ /\ job[w].at \in {"open", "analyze", "observe"} /\ job[w].rest # Idle
       /\ \E e \in job[w].rest.todo : e.id = id

(* save_monitoring_schedule(record): an upsert of the whole record         *)
SaveSchedule(w, id, record) ==
    /\ schedules' = [schedules EXCEPT ![id] = record]
    /\ outdated' = (outdated \ {<<w, id>>}) \cup
                     {<<v, id>> : v \in {v \in Workers \ {w} : Holds(v, id)}}

(* create_schedule: enabled or not, due at once or later                   *)
Create(w, id) ==
    /\ Free(w) /\ schedules[id] = Absent
    /\ \E enabled \in BOOLEAN :
          Goto(w, [at |-> "patch", id |-> id, record |-> [enabled |-> enabled, next |-> now],
                   enabled |-> enabled, restart |-> TRUE])
    /\ UNCHANGED <<schedules, paused, begun, outdated, clobbered, runs, now, orphans, registerVars>>

PatchIfTrue(w, id, enabled, restart) ==   \* mutant: "if enabled" for "if enabled is not None"
    /\ Free(w) /\ schedules[id] # Absent
    /\ enabled = Keep <=> restart
    /\ Goto(w, [at |-> "patch", id |-> id, enabled |-> enabled, restart |-> restart,
                record |-> [enabled |-> enabled = TRUE \/ schedules[id].enabled,
                            next |-> IF restart THEN now ELSE schedules[id].next]])
    /\ UNCHANGED <<schedules, paused, begun, outdated, clobbered, runs, now, orphans, registerVars>>

(* The read of update_schedule, which enables, disables or reschedules;    *)
(* as a bound, one of them at a time.                                      *)
Patch(w, id, enabled, restart) ==
    /\ Free(w) /\ schedules[id] # Absent
    /\ enabled = Keep <=> restart
    /\ Goto(w, [at |-> "patch", id |-> id, enabled |-> enabled, restart |-> restart,
                record |-> [enabled |-> IF enabled = Keep THEN schedules[id].enabled ELSE enabled,
                            next |-> IF restart THEN now ELSE schedules[id].next]])
    /\ UNCHANGED <<schedules, paused, begun, outdated, clobbered, runs, now, orphans, registerVars>>

(* The save of create_schedule or update_schedule.                         *)
SavePatch(w) ==
    /\ job[w].at = "patch"
    /\ LET id == job[w].id
           record == job[w].record
       IN /\ SaveSchedule(w, id, record)
          /\ paused' = CASE job[w].enabled = Keep -> paused
                         [] job[w].enabled = TRUE -> paused \ {id}
                         [] OTHER -> paused \cup {id}
          /\ begun' = IF job[w].restart THEN [begun EXCEPT ![id] = {}] ELSE begun
          /\ clobbered' = IF <<w, id>> \in outdated THEN clobbered \cup {id} ELSE clobbered
    /\ Goto(w, Idle)
    /\ UNCHANGED <<runs, now, orphans, registerVars>>

IsDue(id) == schedules[id] # Absent /\ schedules[id].enabled /\ schedules[id].next <= now

Listing(ids) == {[id |-> id, record |-> schedules[id]] : id \in ids}

(* run_due: the due schedules, or the first "limit" of them                *)
RunDue(w) ==
    /\ Free(w)
    /\ \E ids \in SUBSET {id \in Schedules : IsDue(id)} \ {{}} :
          /\ \A i \in ids, o \in {id \in Schedules : IsDue(id)} \ ids :
                schedules[i].next <= schedules[o].next
          /\ Goto(w, [at |-> "batch", todo |-> Listing(ids), time |-> now, poll |-> TRUE])
    /\ UNCHANGED <<scheduleVars, runs, now, orphans, registerVars>>

(* run_schedule: at once, whatever enabled and next_run_at say             *)
RunNow(w, id) ==
    /\ Free(w) /\ schedules[id] # Absent
    /\ Goto(w, [at |-> "batch", todo |-> Listing({id}), time |-> now, poll |-> FALSE])
    /\ UNCHANGED <<scheduleVars, runs, now, orphans, registerVars>>

AdvancedNot(record, time) ==    \* mutant: next_run_at is left as it was
    record

(* _execute sets last_run_at and next_run_at of the record it was given.   *)
Advanced(record, time) == [record EXCEPT !.next = time + Interval]

(* _execute saves the schedule as it was listed, before the run begins.    *)
BeginRun(w) ==
    /\ job[w].at = "batch"
    /\ Len(runs) + Cardinality({v \in Workers : job[v].at = "open"}) < MaxRuns
    /\ \E e \in job[w].todo :
          /\ \A o \in job[w].todo : e.record.next <= o.record.next
          /\ SaveSchedule(w, e.id, Advanced(e.record, job[w].time))
          /\ clobbered' = IF <<w, e.id>> \in outdated THEN clobbered \cup {e.id} ELSE clobbered
          /\ begun' = IF job[w].poll THEN [begun EXCEPT ![e.id] = @ \cup {e.record.next}]
                      ELSE begun
          /\ Goto(w, [at |-> "open", id |-> e.id,
                      rest |-> IF job[w].todo = {e} THEN Idle
                               ELSE [job[w] EXCEPT !.todo = @ \ {e}]])
    /\ UNCHANGED <<paused, runs, now, orphans, registerVars>>

(* save_monitoring_run with status RUNNING                                 *)
OpenRun(w) ==
    /\ job[w].at = "open"
    /\ runs' = Append(runs, [schedule |-> job[w].id, status |-> "RUNNING",
                             persistence |-> "COMPLETE", findings |-> {}])
    /\ Goto(w, [at |-> "analyze", run |-> Len(runs) + 1, rest |-> job[w].rest])
    /\ UNCHANGED <<scheduleVars, now, orphans, registerVars>>

(* RiskEngine.analyze: the findings go to the register.                    *)
Analyze(w) ==
    /\ job[w].at = "analyze"
    /\ \E findings \in SUBSET Risks :
          /\ runs' = [runs EXCEPT ![job[w].run].findings = findings]
          /\ Observe(w, findings)
    /\ Goto(w, [job[w] EXCEPT !.at = "observe"])
    /\ UNCHANGED <<scheduleVars, now, orphans>>

PersistenceAssumed(ok) ==   \* mutant: a failed observation is not reported
    "COMPLETE"
Persistence(ok) == IF ok THEN "COMPLETE" ELSE "DEGRADED"

CloseRunUnlessFailed(w) ==      \* mutant: a failed observation ends the handler's thread
    /\ job[w].at = "observe" /\ call[w].at = "done" /\ call[w].ok
    /\ runs' = [runs EXCEPT ![job[w].run].status = "COMPLETED"]
    /\ Goto(w, job[w].rest)
    /\ Return(w)
    /\ UNCHANGED <<scheduleVars, now, orphans>>

(* analyze returns, with what it could not persist; the governance         *)
(* evaluation follows, and the run is saved as COMPLETED.                  *)
CloseRun(w) ==
    /\ job[w].at = "observe" /\ call[w].at = "done"
    /\ runs' = [runs EXCEPT ![job[w].run].status = "COMPLETED",
                            ![job[w].run].persistence = Persistence(call[w].ok)]
    /\ Goto(w, job[w].rest)
    /\ Return(w)
    /\ UNCHANGED <<scheduleVars, now, orphans>>

(* The assessment raises: the run is saved as FAILED and the batch goes on.*)
FailRun(w) ==
    /\ job[w].at = "analyze"
    /\ runs' = [runs EXCEPT ![job[w].run].status = "FAILED"]
    /\ Goto(w, job[w].rest)
    /\ UNCHANGED <<scheduleVars, now, orphans, registerVars>>

(* The process dies, or a save of the handler itself raises.               *)
CrashRun(w) ==
    /\ job[w] # Idle
    /\ orphans' = IF job[w].at \in {"analyze", "observe"} THEN orphans \cup {job[w].run}
                  ELSE orphans
    /\ outdated' = {p \in outdated : p[1] # w}
    /\ Goto(w, Idle)
    /\ Die(w)
    /\ UNCHANGED <<schedules, paused, begun, clobbered, runs, now>>

MonitoringRequest(w) ==
    \/ \E id \in Schedules :
          \/ Create(w, id)
          \/ \E enabled \in BOOLEAN \cup {Keep}, restart \in BOOLEAN : Patch(w, id, enabled, restart)
          \/ RunNow(w, id)
    \/ RunDue(w)

MonitoringStep(w) == \/ SavePatch(w) \/ BeginRun(w) \/ OpenRun(w) \/ Analyze(w)
                     \/ CloseRun(w) \/ FailRun(w)
-----------------------------------------------------------------------------
(* A paused schedule stays paused although handlers that listed it earlier *)
(* save it whole, hours later perhaps, and is then not listed again -      *)
(* except when such a save did fall after the pause.                       *)
PausesStand ==
    \A id \in paused \ clobbered : schedules[id] # Absent => ~schedules[id].enabled

(* An occurrence that a poll has begun to run is not run by another poll,  *)
(* unless that one listed it before, or an outdated save brought it back:  *)
(* monitoring runs are at most once, and a death does not repeat them.     *)
BegunOnce ==
    \A w \in Workers : job[w].at = "batch" /\ job[w].poll =>
        \A e \in job[w].todo :
            e.record.next \in begun[e.id] => <<w, e.id>> \in outdated \/ e.id \in clobbered

(* Schedules hold although every handler saves them whole: pauses stand    *)
(* and what was begun is begun once.                                       *)
SchedulesHold == PausesStand /\ BegunOnce

Running(n) == n \in 1..Len(runs) /\ runs[n].status = "RUNNING"
Working(n) == \E w \in Workers : job[w].at \in {"analyze", "observe"} /\ job[w].run = n

(* A run that is RUNNING has exactly the handler that works on it, or that *)
(* handler has died; a completed run whose persistence is COMPLETE has all *)
(* its findings in the register.                                           *)
RunsTellTheTruth ==
    \A n \in 1..Len(runs) :
        /\ Running(n) <=> Working(n) \/ n \in orphans
        /\ runs[n].status = "COMPLETED" /\ runs[n].persistence = "COMPLETE" =>
              \A r \in runs[n].findings : register[r] # Absent
=============================================================================
