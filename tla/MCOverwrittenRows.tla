------------------------- MODULE MCOverwrittenRows -------------------------
(* Two handlers that overlap, on each registry.                            *)
EXTENDS OverwrittenRows, TLC

CONSTANTS w1, w2, inc, rem, n1,
          s1, s2, sched, other, sched2,
          a, b, g, h,
          bot, lead, d1, d2, account

(* Of a clock of three ticks: a schedule that runs once, one that repeats  *)
(* every tick, which a negative interval also gives, and one of a calendar.*)
OneShot == [type |-> "ONE_SHOT", period |-> 0, at |-> 0]
Interval == [type |-> "INTERVAL", period |-> -1, at |-> 0]
Daily == [type |-> "CALENDAR", period |-> 2, at |-> 1]
EveryPlan == {OneShot, Interval, Daily}
OnePlan == {Interval}

(* Events a and b of clients, posted alone, in a pair, repeated in a batch *)
(* or after an event of an unknown type; g and h are of guardrail checks.  *)
Message(id) == [id |-> id, type |-> "user_message"]
PostedBatches == {<<Message(a)>>, <<Message(b), Message(a)>>,
                  <<Message(a), Message(b), Message(a)>>,
                  <<[id |-> a, type |-> "guardrail_flag"], Message(b)>>}

Done(found) == [status |-> "COMPLETED", found |-> found, complete |-> TRUE]
NotInstalled == [status |-> "TOOL_NOT_INSTALLED", found |-> {}, complete |-> FALSE]
EveryEvaluation == {Done({}), Done({"HIGH"}), NotInstalled}
MediumProbes == {Done({"MEDIUM"})}
TwoScans == {Done({}), Done({"HIGH"})}
Unassessed == [risk |-> Absent, vulns |-> Absent, scan |-> Absent, weights |-> Absent,
               lineage |-> Absent, facts |-> Absent, probes |-> Absent, redteam |-> Absent,
               mcp |-> Absent, backdoor |-> "CLEAN",
               provenance |-> [level |-> "LOW", unsigned |-> FALSE, complete |-> TRUE, confident |-> TRUE],
               identity |-> [attested |-> FALSE, weakest |-> 0], gaps |-> FALSE]
Internal == [use |-> 0, data |-> 0, exposure |-> 0, anonymous |-> FALSE]

(* Each of two principals may delegate something to the other.             *)
Delegation(from, to, scope, deadline) ==
    [delegator |-> from, delegate |-> to, scope |-> scope, expires_at |-> deadline]
MutualTerms == {Delegation(lead, bot, {<<"write", "*">>}, Never),
                Delegation(bot, lead, {<<"*", "data">>}, 1)}
NothingOrAll == {{}, {<<"*", "*">>}}
ReadData == {<<"read", "data">>}

(* A budget that what is used exceeds, and one of which it exceeds the     *)
(* cost alone; d1 and d2 are turns, or keys.                               *)
Kinds == {"TOKENS", "TOOL_CALLS", "LOOP_ITERATIONS", "RETRIES", "PLANNING_DEPTH", "REQUEST", "RATE", "COST"}
LowAndHigh == {[r \in Kinds |-> 1], [r \in Kinds |-> 9]}
SomeUses == {[resource |-> "TOKENS", value |-> 1]}
            \cup {[resource |-> r, value |-> 2] : r \in {"TOKENS", "PLANNING_DEPTH"}}

Symmetry == Permutations({w1, w2}) \cup Permutations({d1, d2})
=============================================================================
