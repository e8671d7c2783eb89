-------------------------- MODULE RegistrationJobs --------------------------
(***************************************************************************)
(* Registration of models in the background (api/models.py), next to the   *)
(* monitoring runs and the people who edit risks: all three meet in the    *)
(* risk register.  A job saves the model, scans it, lets the register      *)
(* observe what the scan finds, saves the model again, and only then ends. *)
(***************************************************************************)
EXTENDS Monitoring

CONSTANTS Jobs,
          MaxRequests,    \* bound on requests, of all kinds together
          MaxDeaths       \* bound on deaths

ASSUME JobsAssumption ==
    /\ MaxRequests \in Nat /\ MaxDeaths \in Nat
    /\ Absent \notin {"PENDING", "RUNNING", "COMPLETED", "FAILED"}

VARIABLES jobs,     \* [Jobs -> status or Absent]
          models,   \* [Jobs -> "none", "saved" or "scanned": the row of the job's model]
          abandoned,\* history: jobs whose handler died, or lost its own error
          requests

jobVars == <<jobs, models, abandoned>>
vars == <<registerVars, monitoringVars, jobVars, requests>>

RegistrationJob == [at : {"download", "upload", "fetch", "scan", "observeScan", "saveScan", "end", "fail"}, reg : Jobs]

TypeOK ==
    /\ RegisterTypeOK /\ MonitoringTypeOK
    /\ \A w \in Workers : job[w] \in MonitoringJob \cup RegistrationJob
    /\ jobs \in [Jobs -> {"PENDING", "RUNNING", "COMPLETED", "FAILED", Absent}]
    /\ models \in [Jobs -> {"none", "saved", "scanned"}]
    /\ abandoned \subseteq Jobs /\ requests \in 0..MaxRequests

Init ==
    /\ RegisterInit /\ MonitoringInit
    /\ jobs = [j \in Jobs |-> Absent]
    /\ models = [j \in Jobs |-> "none"]
    /\ abandoned = {} /\ requests = 0
-----------------------------------------------------------------------------
reg(w) == job[w].reg
At(w, place) == job[w].at = place
Proceed(w, place) == Goto(w, [at |-> place, reg |-> reg(w)])
others == <<scheduleVars, runs, now, orphans>>
Status(w, status) == jobs' = [jobs EXCEPT ![reg(w)] = status]

(* POST /models/register: create_job, and the task that runs after the     *)
(* answer, on a repository to download or on a file that came with it.     *)
Register(w, j) ==
    /\ Free(w) /\ jobs[j] = Absent
    /\ jobs' = [jobs EXCEPT ![j] = "PENDING"]
    /\ \E task \in {"download", "upload"} : Goto(w, [at |-> task, reg |-> j])
    /\ UNCHANGED <<models, abandoned, others, registerVars>>

(* A download says that it is RUNNING, an upload does not.                 *)
Start(w) ==
    /\ At(w, "download")
    /\ Status(w, "RUNNING")
    /\ Proceed(w, "fetch")
    /\ UNCHANGED <<models, abandoned, others, registerVars>>

(* A download that fails before its token is known (no huggingface_hub, a  *)
(* URL without a repository) raises again while its error is redacted.     *)
LoseError(w) ==
    /\ At(w, "fetch")
    /\ abandoned' = abandoned \cup {reg(w)}
    /\ Goto(w, Idle)
    /\ UNCHANGED <<jobs, models, others, registerVars>>

(* Any other exception of the task.                                        *)
Raise(w) ==
    /\ job[w].at \in {"upload", "fetch", "scan", "saveScan", "end"}
    /\ Proceed(w, "fail")
    /\ UNCHANGED <<jobs, models, abandoned, others, registerVars>>

(* The snapshot or the file is there, hashed and assessed: save_model      *)
SaveModel(w) ==
    /\ job[w].at \in {"fetch", "upload"}
    /\ models' = [models EXCEPT ![reg(w)] = "saved"]
    /\ Proceed(w, "scan")
    /\ UNCHANGED <<jobs, abandoned, others, registerVars>>

(* scan_model: the register observes what matched, if anything did.        *)
Scan(w) ==
    /\ At(w, "scan")
    /\ \/ /\ \E findings \in SUBSET Risks \ {{}} : Observe(w, findings)
          /\ Proceed(w, "observeScan")
       \/ Proceed(w, "saveScan") /\ UNCHANGED registerVars
    /\ UNCHANGED <<jobVars, others>>

(* The observations are written, or one raised.                            *)
Observed(w) ==
    /\ At(w, "observeScan") /\ call[w].at = "done"
    /\ Proceed(w, IF call[w].ok THEN "saveScan" ELSE "fail")
    /\ Return(w)
    /\ UNCHANGED <<jobVars, others>>

SaveScan(w) ==
    /\ At(w, "saveScan")
    /\ models' = [models EXCEPT ![reg(w)] = "scanned"]
    /\ Proceed(w, "end")
    /\ UNCHANGED <<jobs, abandoned, others, registerVars>>

EndJobAnyway(w) ==              \* mutant: the job is completed in "finally"
    /\ job[w].at \in {"end", "fail"}
    /\ Status(w, "COMPLETED")
    /\ Goto(w, Idle)
    /\ UNCHANGED <<models, abandoned, others, registerVars>>

(* update_job(COMPLETED) after all of it, update_job(FAILED) from except   *)
EndJob(w) ==
    /\ job[w].at \in {"end", "fail"}
    /\ Status(w, IF At(w, "end") THEN "COMPLETED" ELSE "FAILED")
    /\ Goto(w, Idle)
    /\ UNCHANGED <<models, abandoned, others, registerVars>>

JobStep(w) == \/ Start(w) \/ LoseError(w) \/ Raise(w) \/ SaveModel(w)
              \/ Scan(w) \/ Observed(w) \/ SaveScan(w) \/ EndJob(w)

InJob(w) == "reg" \in DOMAIN job[w]

CrashJob(w) ==
    /\ InJob(w)
    /\ abandoned' = abandoned \cup {reg(w)}
    /\ Goto(w, Idle)
    /\ Die(w)
    /\ UNCHANGED <<jobs, models, others>>
-----------------------------------------------------------------------------
(* What a handler does by itself; only requests, polls, deaths and the     *)
(* clock come from outside.                                                *)
Work(w) ==
    \/ RegisterStep(w) /\ UNCHANGED <<monitoringVars, jobVars>>
    \/ MonitoringStep(w) /\ UNCHANGED jobVars
    \/ JobStep(w)

EditRisk(w, r, change) ==
    Free(w) /\ Edit(w, r, change) /\ UNCHANGED <<monitoringVars, jobVars>>

Request(w) ==
    /\ requests < MaxRequests /\ requests' = requests + 1
    /\ \/ MonitoringRequest(w) /\ UNCHANGED jobVars
       \/ \E r \in Risks, change \in Changes : EditRisk(w, r, change)
       \/ \E j \in Jobs : Register(w, j)

Crash(w) ==
    /\ deaths < MaxDeaths
    /\ \/ ~InJob(w) /\ CrashRun(w) /\ UNCHANGED jobVars
       \/ CrashJob(w)
       \/ job[w] = Idle /\ call[w] # NoCall /\ Die(w) /\ UNCHANGED <<monitoringVars, jobVars>>

Unasked(w) == Work(w) /\ UNCHANGED requests

Next == \/ Tick /\ UNCHANGED <<jobVars, requests>>
        \/ \E w \in Workers : \/ Request(w)
                              \/ Unasked(w)
                              \/ Crash(w) /\ UNCHANGED requests

Spec == Init /\ [][Next]_vars
LiveSpec == Spec /\ \A w \in Workers : WF_vars(Unasked(w))
-----------------------------------------------------------------------------
(* Runs tell the truth about themselves, and so do jobs: a job that is     *)
(* COMPLETED has a model that is stored and scanned, and one that has not  *)
(* ended has the handler that works on it, or none ever will.  The state   *)
(* of all three components is well typed.                                  *)
WorkTellsTheTruth ==
    /\ TypeOK /\ RunsTellTheTruth
    /\ \A j \in Jobs :
        /\ jobs[j] = "COMPLETED" => models[j] = "scanned"
        /\ jobs[j] \in {"PENDING", "RUNNING"} <=>
              j \in abandoned \/ \E w \in Workers : InJob(w) /\ reg(w) = j

(* Whatever handlers meet in the register and whichever of them die, when  *)
(* clients have asked for the last time (MaxRequests) there comes a moment *)
(* at which each run and each job has ended, unless its own handler died   *)
(* or lost its error: none waits for ever, and none goes round for ever.   *)
Unfinished == \/ \E n \in 1..MaxRuns : Running(n) /\ n \notin orphans
              \/ \E k \in Jobs : jobs[k] \in {"PENDING", "RUNNING"} /\ k \notin abandoned
WorkEnds == Unfinished ~> ~Unfinished
=============================================================================
