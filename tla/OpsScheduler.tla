---------------------------- MODULE OpsScheduler ----------------------------
(***************************************************************************)
(* Recurring security jobs: core/ops_scheduler.py keeps one record per     *)
(* schedule in the models table, core/ops_executor.py runs what is due.    *)
(*                                                                         *)
(* Every handler reads a whole record, changes some fields and saves the   *)
(* whole record; nothing locks between the two store calls.  Saving a row  *)
(* replaces it and gives it a new created_at, and list_models returns only *)
(* the rows with the newest created_at.                                    *)
(***************************************************************************)
EXTENDS Integers, Sequences, FiniteSets

CONSTANTS Clients,       \* handlers of API requests
          Pollers,       \* handlers that run what is due: a loop, a cron job
          Schedules,     \* schedule ids
          Plans,         \* [type, period, at]; of use to the type only
          Others,        \* rows of other registries in the same table
          ListLimit,     \* list_models(limit=100)
          MaxHistory,    \* _MAX_HISTORY
          Operations,    \* bound: what the clients of the API ask for
          MaxRuns,       \* bound: runs after which clients leave a schedule alone
          MaxTime,       \* bound on the clock
          MaxCrashes,    \* bound on worker deaths
          Absent, Never

VARIABLES table,    \* [Schedules -> record or Absent]
          order,    \* the rows of the models table, oldest created_at first
          now,
          job,      \* [Workers -> the handler in progress]
          marks,    \* history: [Schedules -> runs that were recorded]
          ran,      \* history: [Schedules -> due times that a poll ran and recorded]
          outdated, \* history: handlers about to save over a record they did not read
          clobbered,\* history: schedules that such a handler has saved
          crashes

Workers == Clients \cup Pollers

vars == <<table, order, now, job, marks, ran, outdated, clobbered, crashes>>

Status == {"ACTIVE", "PAUSED", "DELETED"}
Record == [status : Status, plan : Plans, next : Nat \cup {Never}, last : Nat \cup {Never},
           runs : Nat, history : Seq(Nat)]

(* What the proofs, and every instance, take the constants to be.          *)
Configured ==
    /\ ListLimit \in Nat \ {0} /\ MaxHistory \in Nat \ {0}
    /\ \A p \in Plans : /\ p.type \in {"ONE_SHOT", "INTERVAL", "CALENDAR"} /\ p.period \in Int
                        /\ p.type = "CALENDAR" => p.at \in 0..p.period - 1
    /\ MaxTime \in Nat /\ MaxRuns \in Nat /\ MaxCrashes \in Nat
    /\ Schedules \cap Others = {} /\ Never \notin Nat /\ Absent \notin Record

Idle == [at |-> "idle"]
Due == [id : Schedules, due : Nat]
Job == {Idle}
       \cup [at : {"save"}, id : Schedules, record : Record, todo : SUBSET Due,
             due : Nat \cup {Never}, kind : {"create", "status", "mark"}]
       \cup [at : {"create"}, id : Schedules, plan : Plans, asked : Nat]
       \cup [at : {"execute"}, id : Schedules]
       \cup [at : {"poll"}, todo : SUBSET Due]
       \cup [at : {"mark"}, id : Schedules, due : Nat \cup {Never}, todo : SUBSET Due]

TypeOK ==
    /\ \A id \in Schedules : table[id] \in {Absent} \cup Record
    /\ order \in Seq(Schedules \cup Others)
    /\ now \in 0..MaxTime
    /\ \A w \in Workers : job[w] \in Job
    /\ marks \in [Schedules -> Nat]
    /\ ran \in [Schedules -> SUBSET (Nat \cup {Never})]
    /\ outdated \subseteq Workers /\ clobbered \subseteq Schedules
    /\ crashes \in 0..MaxCrashes
-----------------------------------------------------------------------------
(* _compute_next_run.  DAILY and WEEKLY are one case: the next time that    *)
(* has a given place in its day or week.                                   *)
NextRunOrNow(plan, t) ==     \* mutant: "if candidate < after" in _next_daily
    IF plan.type = "ONE_SHOT" THEN Never
    ELSE IF plan.type = "INTERVAL" THEN t + (IF plan.period < 1 THEN 1 ELSE plan.period)
    ELSE CHOOSE u \in t..t + plan.period - 1 : u % plan.period = plan.at

NextRun(plan, t) ==
    IF plan.type = "ONE_SHOT" THEN Never
    ELSE IF plan.type = "INTERVAL" THEN t + (IF plan.period < 1 THEN 1 ELSE plan.period)
    ELSE CHOOSE u \in t + 1..t + plan.period : u % plan.period = plan.at

(* The first run of a new schedule; a one-shot is due at once.             *)
FirstRun(plan, t) == IF plan.type = "ONE_SHOT" THEN t ELSE NextRun(plan, t)

LastOf(s, n) == SubSeq(s, IF Len(s) > n THEN Len(s) - n + 1 ELSE 1, Len(s))

RememberOneMore(history, t) == \* mutant: cut before appending
    Append(LastOf(history, MaxHistory), t)
Remember(history, t) == LastOf(Append(history, t), MaxHistory)

NewRecordReset(old, plan, t) == \* mutant: a re-created schedule starts from zero
    [status |-> "ACTIVE", plan |-> plan, next |-> FirstRun(plan, t), last |-> Never,
     runs |-> 0, history |-> <<>>]

(* create_schedule keeps the run count and history of an earlier record,   *)
(* and forgets when that last ran.                                         *)
NewRecord(old, plan, t) ==
    [status |-> "ACTIVE", plan |-> plan, next |-> FirstRun(plan, t), last |-> Never,
     runs |-> IF old = Absent THEN 0 ELSE old.runs,
     history |-> IF old = Absent THEN <<>> ELSE old.history]

MarkedKeepingNext(record) ==   \* mutant: next_run_at is not advanced
    [record EXCEPT !.runs = @ + 1, !.last = now, !.history = Remember(@, now)]

(* What mark_job_run makes of the record it read, whatever the outcome.    *)
Marked(record) ==
    [record EXCEPT !.runs = @ + 1,
                   !.last = now,
                   !.history = Remember(@, now),
                   !.next = NextRun(record.plan, now)]

(* list_models()                                                           *)
Listed == LET rows == LastOf(order, ListLimit) IN {rows[i] : i \in 1..Len(rows)}

IsDue(id) == /\ table[id] # Absent /\ table[id].status = "ACTIVE"
             /\ table[id].next # Never /\ table[id].next <= now

DueBefore ==                   \* mutant: "next_run < now" in due_schedules
    {[id |-> id, due |-> table[id].next] :
        id \in {i \in Schedules \cap Listed : IsDue(i) /\ table[i].next < now}}

(* due_schedules                                                           *)
DueSchedules ==
    {[id |-> id, due |-> table[id].next] : id \in {i \in Schedules \cap Listed : IsDue(i)}}

Init ==
    /\ table = [id \in Schedules |-> Absent]
    /\ order = <<>> /\ now = 0 /\ crashes = 0
    /\ job = [w \in Workers |-> Idle]
    /\ marks = [id \in Schedules |-> 0]
    /\ ran = [id \in Schedules |-> {}]
    /\ outdated = {} /\ clobbered = {}

history == <<marks, ran, outdated, clobbered>>
Goto(w, next) == job' = [job EXCEPT ![w] = next]
Touch(key) ==
    order' = IF \E i \in 1..Len(order) : order[i] = key
             THEN LET i == CHOOSE i \in 1..Len(order) : order[i] = key
                  IN SubSeq(order, 1, i - 1) \o SubSeq(order, i + 1, Len(order)) \o <<key>>
             ELSE Append(order, key)

Tick == /\ now < MaxTime /\ now' = now + 1
        /\ UNCHANGED <<table, order, job, history, crashes>>

(* The bound: clients leave a schedule alone after so many runs.           *)
Wanted(op, id) == op \in Operations /\ marks[id] < MaxRuns

(* The read of a handler: what it will save is settled here.               *)
Prepare(w, id, record, due, todo, kind) ==
    /\ Goto(w, [at |-> "save", id |-> id, record |-> record, due |-> due, todo |-> todo,
                kind |-> kind])
    /\ UNCHANGED <<table, order, now, history, crashes>>

(* A request to create reads the clock, and then the record, which another *)
(* handler may have saved with a later run.                                *)
Create(w, id, plan) ==
    /\ job[w] = Idle /\ Wanted("create", id)
    /\ Goto(w, [at |-> "create", id |-> id, plan |-> plan, asked |-> now])
    /\ UNCHANGED <<table, order, now, history, crashes>>

ReadExisting(w) ==
    /\ job[w].at = "create"
    /\ Prepare(w, job[w].id, NewRecord(table[job[w].id], job[w].plan, job[w].asked), Never, {},
               "create")

(* pause_schedule, resume_schedule and delete_schedule look at no status.  *)
SetStatus(w, id, status) ==
    /\ job[w] = Idle /\ Wanted(status, id) /\ table[id] # Absent
    /\ Prepare(w, id, [table[id] EXCEPT !.status = status], Never, {}, "status")

(* POST mark-run: an external worker reports a run.                        *)
MarkRun(w, id) ==
    /\ job[w] = Idle /\ Wanted("mark", id) /\ table[id] # Absent
    /\ Prepare(w, id, Marked(table[id]), Never, {}, "mark")

(* store.save_model(record), and back to the rest of the due list.         *)
Save(w) ==
    /\ job[w].at = "save"
    /\ LET id == job[w].id
       IN /\ table' = [table EXCEPT ![id] = job[w].record]
          /\ Touch(id)
          /\ Goto(w, IF job[w].todo = {} THEN Idle ELSE [at |-> "poll", todo |-> job[w].todo])
          /\ marks' = [marks EXCEPT ![id] = IF job[w].kind = "mark" THEN @ + 1 ELSE @]
          /\ ran' = [ran EXCEPT ![id] = CASE job[w].kind = "create" -> {}
                                         [] job[w].kind = "mark" -> @ \cup {job[w].due}
                                         [] OTHER -> @]
          /\ outdated' = (outdated \ {w}) \cup
                {o \in Workers \ {w} : job[o].at = "save" /\ job[o].id = id}
          /\ clobbered' = IF w \in outdated THEN clobbered \cup {id} ELSE clobbered
    /\ UNCHANGED <<now, crashes>>

(* Another registry saves one of its rows.                                 *)
SaveOther(o) == /\ Touch(o)
                /\ UNCHANGED <<table, now, job, history, crashes>>

(* POST execute                                                            *)
Execute(w, id) ==
    /\ job[w] = Idle /\ Wanted("execute", id) /\ table[id] # Absent
    /\ Goto(w, [at |-> "execute", id |-> id])
    /\ UNCHANGED <<table, order, now, history, crashes>>

(* execute_due_schedules lists what is due once, earliest first, and takes *)
(* all of it or the first "limit".                                         *)
Poll(w) ==
    /\ job[w] = Idle
    /\ \E todo \in SUBSET DueSchedules \ {{}} :
          /\ \A e \in todo, o \in DueSchedules \ todo : e.due <= o.due
          /\ Goto(w, [at |-> "poll", todo |-> todo])
    /\ UNCHANGED <<table, order, now, history, crashes>>

(* execute_schedule: the job does its work; status and due time are not    *)
(* looked at again.                                                        *)
RunDirect(w) ==
    /\ job[w].at = "execute"
    /\ Goto(w, [at |-> "mark", id |-> job[w].id, due |-> Never, todo |-> {}])
    /\ UNCHANGED <<table, order, now, history, crashes>>

RunDue(w) ==
    /\ job[w].at = "poll"
    /\ \E e \in job[w].todo :
          /\ \A o \in job[w].todo : e.due <= o.due
          /\ Goto(w, [at |-> "mark", id |-> e.id, due |-> e.due, todo |-> job[w].todo \ {e}])
    /\ UNCHANGED <<table, order, now, history, crashes>>

(* mark_job_run after the job, with its outcome or as a FAILURE.           *)
Mark(w) ==
    /\ job[w].at = "mark"
    /\ Prepare(w, job[w].id, Marked(table[job[w].id]), job[w].due, job[w].todo, "mark")

Crash(w) == /\ job[w] # Idle /\ crashes < MaxCrashes
            /\ Goto(w, Idle) /\ crashes' = crashes + 1
            /\ outdated' = outdated \ {w}
            /\ UNCHANGED <<table, order, now, marks, ran, clobbered>>

Work(w) == ReadExisting(w) \/ Save(w) \/ RunDirect(w) \/ RunDue(w) \/ Mark(w)

Next ==
    \/ Tick
    \/ \E o \in Others : SaveOther(o)
    \/ \E w \in Workers :
          \/ \E id \in Schedules :
              /\ w \in Clients
              /\ \/ \E plan \in Plans : Create(w, id, plan)
                 \/ \E status \in Status : SetStatus(w, id, status)
                 \/ MarkRun(w, id)
                 \/ Execute(w, id)
          \/ w \in Pollers /\ Poll(w)
          \/ Work(w)
          \/ Crash(w)

Spec == Init /\ [][Next]_vars

(* A poller that is not also a client keeps coming back, as a loop or cron *)
(* job does, and requests in progress are served.                          *)
Fairness == /\ \A w \in Workers : WF_vars(Work(w))
            /\ \A w \in Pollers : WF_vars(Poll(w))
LiveSpec == Spec /\ Fairness
-----------------------------------------------------------------------------
(* However handlers overwrite each other, the state is well typed and a    *)
(* record is one that some handler computed: its history holds its last    *)
(* runs, oldest first, as many as run_count and _MAX_HISTORY allow; and    *)
(* with a last_run_at, which is then the end of its history, it is due     *)
(* after that run only, so that a poller cannot spin on it.  (A record     *)
(* that was created again has no last_run_at: its creator reads the clock  *)
(* first, and may make it due before a run that it keeps in the history.)  *)
RecordsCoherent ==
    /\ TypeOK
    /\ \A r \in {table[id] : id \in Schedules} \ {Absent} :
          LET n == Len(r.history)
          IN /\ n = IF r.runs < MaxHistory THEN r.runs ELSE MaxHistory
             /\ \A i, j \in 1..n : i < j => r.history[i] <= r.history[j]
             /\ r.last # Never => /\ n > 0 /\ r.last = r.history[n]
                                  /\ r.next # Never => r.last < r.next

(* run_count counts the recorded runs, across re-creation, pausing,        *)
(* deletion and the death of workers, unless a handler saved a schedule    *)
(* over a record that it had not read.                                     *)
RunsCounted ==
    \A id \in Schedules \ clobbered : table[id] # Absent => table[id].runs = marks[id]

(* And with the same exception an occurrence that a poll ran and recorded  *)
(* is not due again; a one-shot schedule therefore runs once.  (A death    *)
(* between the job and the record, and two polls that list the same        *)
(* occurrence, do run it twice.)                                           *)
RecordedIsNotDue ==
    \A e \in DueSchedules : e.due \in ran[e.id] => e.id \in clobbered

(* A run leaves its mark once: it is counted and it is over.               *)
RunsRecorded == RunsCounted /\ RecordedIsNotDue

(* No due schedule waits for ever, although others are due too and a poll  *)
(* takes only the first few, unless newer rows push it off the list.       *)
DueIsServed ==
    \A id \in Schedules, t \in 0..MaxTime :
        (IsDue(id) /\ table[id].next = t) ~> ~(IsDue(id) /\ table[id].next = t /\ id \in Listed)
=============================================================================
