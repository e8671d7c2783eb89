-------------------------- MODULE SessionMonitors --------------------------
(***************************************************************************)
(* What applications report of an agent's session, and what is concluded   *)
(* from it: the resources it used of a budget (analysis/                   *)
(* resource_monitor.py), what the agent said and called under human        *)
(* oversight (analysis/human_oversight_monitor.py), and what was written   *)
(* into its memory (analysis/memory_integrity.py).  Each keeps a summary   *)
(* in a row of the models table; the last two keep a row for each event or *)
(* memory key as well.  A handler reads the summary, saves the other row,  *)
(* and then the summary as it had read it, with its own change.            *)
(*                                                                         *)
(* Each step of a handler makes one store call, it may die between two,    *)
(* and the table has fewer rows than list_models returns.  The three are   *)
(* specifications of their own over the same variables.  A text counts for *)
(* the worst signal in it.                                                 *)
(***************************************************************************)
EXTENDS Integers, FiniteSets, FiniteSetsExt

CONSTANTS Handlers,
          Budgets,     \* [Resources \cup {"REQUEST", "RATE", "COST"} -> limit, or price]
          Uses,        \* what applications report: [resource, value]
          Items,       \* turns of the agent, or keys of its memory
          Severities,  \* of the signals in what the agent says, 0 for none
          Levels,      \* of memory texts: "CLEAN", "SUSPICIOUS", "COMPROMISED"
          Absent,
          MaxSaves     \* bound on saved summaries

VARIABLES budget,   \* limits, or Absent
          summary,  \* the summary's row, or Absent
          items,    \* [Items -> what was found in the event or entry, or Absent]
          call,     \* [Handlers -> the handler in progress]
          told,     \* history: what the summary is to say, by the saves there were
          lost,     \* history: was a summary saved over one that was not read?
          saves
vars == <<budget, summary, items, call, told, lost, saves>>

(* RESOURCE_TYPES                                                          *)
Resources == {"TOKENS", "TOOL_CALLS", "LOOP_ITERATIONS", "RETRIES", "PLANNING_DEPTH"}

Usage == [totals : [Resources -> Int], cost : Int, violations : SUBSET (Resources \cup {"REQUEST"})]
Store == [entry_count : Nat, anomaly_count : Nat, status : Levels \cup {"CLEAN", "SUSPICIOUS"}]

(* What the proofs, and every instance, take the constants to be.          *)
MonitorsAssumption ==
    /\ \A use \in Uses : use.resource \in Resources /\ use.value \in Int
    /\ \A limits \in Budgets : limits["RATE"] \in Int
    /\ IsFiniteSet(Items) /\ Absent \notin Levels \cup {"CLEAN", "SUSPICIOUS"}
    /\ Absent \notin Usage /\ Absent \notin Store

Idle == [at |-> "idle"]
At(w, place) == call[w].at = place
Go(w, state) == call' = [call EXCEPT ![w] = state]

WillSave(w, read, new, wrote) ==
    Go(w, [at |-> "save", read |-> read, new |-> new, wrote |-> wrote])

SaveSummary(w) ==
    /\ At(w, "save") /\ saves < MaxSaves /\ saves' = saves + 1
    /\ summary' = call[w].new
    /\ lost' = (lost \/ summary # call[w].read)
    /\ Go(w, Idle)
    /\ UNCHANGED <<budget, items>>

Die(w) == call[w] # Idle /\ Go(w, Idle) /\ UNCHANGED <<budget, summary, items, lost, saves>>

Start(first) ==
    /\ budget = Absent /\ summary = Absent /\ items = [i \in Items |-> Absent]
    /\ call = [w \in Handlers |-> Idle] /\ told = first /\ lost = FALSE /\ saves = 0
-----------------------------------------------------------------------------
NothingUsed == [totals |-> [r \in Resources |-> 0], cost |-> 0, violations |-> {}]

Added(totals, use) ==
    [totals EXCEPT ![use.resource] = IF use.resource = "PLANNING_DEPTH" THEN Max({@, use.value})
                                     ELSE @ + use.value]

(* estimated_cost_usd, before rounding: only a use of tokens computes it   *)
(* anew.                                                                   *)
CostOf(state, use, limits) ==
    IF use.resource = "TOKENS" THEN Added(state.totals, use)["TOKENS"] * limits["RATE"] ELSE state.cost

(* _detect_violations, of which none is about tool calls; tokens are too   *)
(* many for their own limit or for that of the cost                        *)
Exceeded(totals, cost, limits) ==
    {r \in Resources \ {"TOOL_CALLS"} : totals[r] > limits[r]}
    \cup {r \in {"TOKENS"} : cost > limits["COST"]}
Violations(use, totals, cost, limits) ==
    Exceeded(totals, cost, limits)
    \cup {v \in {"REQUEST"} : use.resource = "TOKENS" /\ use.value > limits.REQUEST}

(* create_budget saves the limits, and then an unused session.             *)
CreateBudget(w, limits) ==
    /\ call[w] = Idle
    /\ budget' = limits
    /\ Go(w, [at |-> "reset"])
    /\ UNCHANGED <<summary, items, told, lost, saves>>
ResetUsage(w) ==
    /\ At(w, "reset") /\ saves < MaxSaves /\ saves' = saves + 1
    /\ summary' = NothingUsed
    /\ told' = [usage |-> NothingUsed, limits |-> Absent] /\ lost' = FALSE
    /\ Go(w, Idle)
    /\ UNCHANGED <<budget, items>>

(* record_usage                                                            *)
RecordUsage(w, use) ==
    /\ call[w] = Idle /\ budget # Absent
    /\ Go(w, [at |-> "session", limits |-> budget, use |-> use])
    /\ UNCHANGED <<budget, summary, items, told, lost, saves>>
UsedAfresh(state, use, limits) ==      \* mutant: what was found before is forgotten
    LET totals == Added(state.totals, use)
        cost == CostOf(state, use, limits)
    IN [totals |-> totals, cost |-> cost, violations |-> Violations(use, totals, cost, limits)]
Used(state, use, limits) ==
    LET totals == Added(state.totals, use)
        cost == CostOf(state, use, limits)
    IN [totals |-> totals, cost |-> cost,
        violations |-> state.violations \cup Violations(use, totals, cost, limits)]
ReadUsage(w) ==
    /\ At(w, "session")
    /\ LET c == call[w]
           state == IF summary = Absent THEN NothingUsed ELSE summary
       IN WillSave(w, summary, Used(state, c.use, c.limits), c)
    /\ UNCHANGED <<budget, summary, items, told, lost, saves>>
SaveUsage(w) ==
    /\ SaveSummary(w)
    /\ LET c == call[w].wrote
       IN told' = [usage |-> [totals |-> Added(told.usage.totals, c.use),
                              cost |-> CostOf(told.usage, c.use, c.limits),
                              violations |-> told.usage.violations \cup call[w].new.violations],
                   limits |-> c.limits]

UsageNext ==
    \E w \in Handlers :
       \/ \E limits \in Budgets : CreateBudget(w, limits)
       \/ \E use \in Uses : RecordUsage(w, use)
       \/ ResetUsage(w) \/ ReadUsage(w) \/ SaveUsage(w)
       \/ Die(w) /\ UNCHANGED told
UsageInit == Start([usage |-> NothingUsed, limits |-> Absent])
UsageSpec == UsageInit /\ [][UsageNext]_vars
-----------------------------------------------------------------------------
Opened == [status |-> "ACTIVE", event_count |-> 0, risk_level |-> 0]

(* create_oversight_session                                                *)
OpenSession(w) ==
    /\ call[w] = Idle /\ summary = Absent
    /\ WillSave(w, Absent, Opened, "open")
    /\ UNCHANGED <<budget, summary, items, told, lost, saves>>

(* record_agent_output, under the turn that the caller names, and          *)
(* record_tool_call, under a new name                                      *)
RecordEventAnyway(w, turn, severity) ==     \* mutant: the status is not looked at
    /\ call[w] = Idle /\ summary # Absent
    /\ Go(w, [at |-> "event", turn |-> turn, severity |-> severity, read |-> summary,
              closed |-> told.status = "CLOSED"])
    /\ UNCHANGED <<budget, summary, items, told, lost, saves>>
RecordEvent(w, turn, severity) ==
    /\ call[w] = Idle /\ summary # Absent /\ summary.status # "CLOSED"
    /\ Go(w, [at |-> "event", turn |-> turn, severity |-> severity, read |-> summary,
              closed |-> told.status = "CLOSED"])
    /\ UNCHANGED <<budget, summary, items, told, lost, saves>>
SaveEvent(w) ==
    /\ At(w, "event")
    /\ items' = [items EXCEPT ![call[w].turn] = call[w].severity]
    /\ WillSave(w, call[w].read, [call[w].read EXCEPT !.event_count = @ + 1], "event")
    /\ UNCHANGED <<budget, summary, told, lost, saves>>

(* assess_session reads the session, lists its events, and saves the worst *)
(* signal as the session's risk.                                           *)
Assess(w) ==
    /\ call[w] = Idle /\ summary # Absent
    /\ Go(w, [at |-> "list", read |-> summary])
    /\ UNCHANGED <<budget, summary, items, told, lost, saves>>
RiskOf == LET found == {items[i] : i \in Items} \ {Absent} IN IF found = {} THEN 0 ELSE Max(found)
ListEvents(w) ==
    /\ At(w, "list")
    /\ WillSave(w, call[w].read, [call[w].read EXCEPT !.risk_level = RiskOf], "risk")
    /\ UNCHANGED <<budget, summary, items, told, lost, saves>>

CloseSession(w) ==
    /\ call[w] = Idle /\ summary # Absent
    /\ WillSave(w, summary, [summary EXCEPT !.status = "CLOSED"], "close")
    /\ UNCHANGED <<budget, summary, items, told, lost, saves>>

SaveSession(w) ==
    /\ SaveSummary(w)
    /\ told' = CASE call[w].wrote = "open" -> Opened
                 [] call[w].wrote = "event" -> [told EXCEPT !.event_count = @ + 1]
                 [] call[w].wrote = "risk" -> [told EXCEPT !.risk_level = call[w].new.risk_level]
                 [] call[w].wrote = "close" -> [told EXCEPT !.status = "CLOSED"]

OversightNext ==
    \E w \in Handlers :
       \/ OpenSession(w) \/ Assess(w) \/ CloseSession(w)
       \/ \E turn \in Items, severity \in Severities : RecordEvent(w, turn, severity)
       \/ SaveEvent(w) \/ ListEvents(w) \/ SaveSession(w)
       \/ Die(w) /\ UNCHANGED told
OversightInit == Start(Opened)
OversightSpec == OversightInit /\ [][OversightNext]_vars
-----------------------------------------------------------------------------
Registered == [entry_count |-> 0, anomaly_count |-> 0, status |-> "CLEAN"]

(* register_memory_store resets the counts and leaves the entries.         *)
RegisterStore(w) ==
    /\ call[w] = Idle
    /\ saves < MaxSaves /\ saves' = saves + 1
    /\ summary' = Registered
    /\ lost' = (lost \/ \E key \in Items : items[key] # Absent)
    /\ UNCHANGED <<budget, items, call, told>>

(* write_memory: text of the given level, which only when it is clean is   *)
(* judged by its origin, of low trust or not                               *)
WriteMemory(w, key, level, low) ==
    /\ low => level = "CLEAN"
    /\ call[w] = Idle /\ summary # Absent
    /\ Go(w, [at |-> "entry", key |-> key, level |-> level, low |-> low, read |-> summary])
    /\ UNCHANGED <<budget, summary, items, told, lost, saves>>
RecordedAtFirst(store, level, override) ==   \* mutant: what overwrites an entry is not counted
    IF override THEN store
    ELSE [entry_count |-> store.entry_count + 1,
          anomaly_count |-> store.anomaly_count + IF level = "CLEAN" THEN 0 ELSE 1,
          status |-> IF level = "CLEAN" THEN store.status ELSE level]
Recorded(store, level, override) ==
    [entry_count |-> store.entry_count + IF override THEN 0 ELSE 1,
     anomaly_count |-> store.anomaly_count + IF level = "CLEAN" THEN 0 ELSE 1,
     status |-> IF level = "CLEAN" THEN store.status ELSE level]
ReadEntry(w) ==
    /\ At(w, "entry")
    /\ LET c == call[w]
           override == items[c.key] # Absent
       IN Go(w, [at |-> "write", key |-> c.key, read |-> c.read, override |-> override,
                 level |-> IF c.level = "CLEAN" /\ c.low /\ override THEN "SUSPICIOUS" ELSE c.level])
    /\ UNCHANGED <<budget, summary, items, told, lost, saves>>
SaveEntry(w) ==
    /\ At(w, "write")
    /\ LET c == call[w]
       IN /\ items' = [items EXCEPT ![c.key] = c.level]
          /\ WillSave(w, c.read, Recorded(c.read, c.level, c.override), c.key)
    /\ UNCHANGED <<budget, summary, told, lost, saves>>
SaveStore(w) == SaveSummary(w) /\ UNCHANGED told

(* A writer that dies here leaves an entry of which the store says nothing. *)
DieWriting(w) ==
    /\ Die(w)
    /\ told' = told \cup {key \in Items : At(w, "save") /\ call[w].wrote = key}

MemoryNext ==
    \E w \in Handlers :
       \/ RegisterStore(w)
       \/ \E key \in Items, level \in Levels, low \in BOOLEAN : WriteMemory(w, key, level, low)
       \/ ReadEntry(w) \/ SaveEntry(w) \/ SaveStore(w) \/ DieWriting(w)
MemoryInit == Start({})
MemorySpec == MemoryInit /\ [][MemoryNext]_vars
-----------------------------------------------------------------------------
(* Unless a summary was saved over one that was not read (record_usage      *)
(* reads the session and saves it whole), every use is in the totals, a     *)
(* violation stays once it was found, and what exceeds the budget that the  *)
(* last use was judged by is a violation.  The cost in it is that of the    *)
(* tokens by the rate of the last use of tokens: between a new budget and   *)
(* the reset that follows it, or after a death there, uses of other kinds   *)
(* are judged with the cost by the old rate.                                *)
UsageIsJudged ==
    summary # Absent /\ ~lost =>
       /\ summary.totals = told.usage.totals /\ summary.cost = told.usage.cost
       /\ told.usage.violations \subseteq summary.violations
       /\ told.limits # Absent => Exceeded(summary.totals, summary.cost, told.limits) \subseteq summary.violations

(* Unless a session was saved over one that was not read, it is what was    *)
(* saved of it step by step, so that it stays closed, and no event is       *)
(* recorded by a handler that came after it was closed.                     *)
OversightStands ==
    ~lost => /\ summary # Absent => summary = told
             /\ \A w \in Handlers : At(w, "event") => ~call[w].closed

(* Unless a store was saved over one that was not read, or registered again *)
(* over its entries, an anomalous entry shows in its status as soon as the  *)
(* writer of the entry, who may die before, is done, and with no writer at  *)
(* work or dead its counts are those of the entries.                        *)
MemoryStands ==
    LET writing == told \cup {key \in Items : \E w \in Handlers : At(w, "save") /\ call[w].wrote = key}
        present == {key \in Items : items[key] # Absent}
        anomalous == {key \in present : items[key] # "CLEAN"}
    IN ~lost /\ summary # Absent =>
          /\ anomalous \ writing # {} => summary.status # "CLEAN"
          /\ writing = {} => /\ summary.entry_count = Cardinality(present)
                             /\ summary.anomaly_count >= Cardinality(anomalous)
=============================================================================
