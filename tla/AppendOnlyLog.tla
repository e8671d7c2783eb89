--------------------------- MODULE AppendOnlyLog ---------------------------
(***************************************************************************)
(* What the agent action ledger promises (agent_action_ledger.py:3):       *)
(* an append-only log of every invocation.  A caller is told the place of  *)
(* its entry once the entry is there.                                      *)
(***************************************************************************)
EXTENDS Sequences, Naturals

CONSTANT Calls

VARIABLES log, told

logVars == <<log, told>>

Init == log = <<>> /\ told = {}

Record(c) == log' = Append(log, c) /\ UNCHANGED told

Tell(i) == told' = told \cup {<<i, log[i]>>} /\ UNCHANGED log

Next == \/ \E c \in Calls : Record(c)
        \/ \E i \in DOMAIN log : Tell(i)

Spec == Init /\ [][Next]_logVars
=============================================================================
