----------------------- MODULE AuthorizationContract -----------------------
(***************************************************************************)
(* What the runtime guard promises of agent sessions, with no word of      *)
(* processes, statements or connections (threat_model.md, AIAF-T18:        *)
(* "decisions are idempotent and persisted; session state and              *)
(* external-call counters are enforced atomically").                       *)
(* A session opens, rules on requests one by one, and stops for good.  A   *)
(* ruling is final; only an open session grants, and never more external   *)
(* calls than its budget.                                                  *)
(***************************************************************************)
EXTENDS Integers, FiniteSets

CONSTANTS Sessions, RequestIds, Payloads, Decisions,
          External(_),    \* does the payload spend the budget?
          Granting(_),    \* does the decision let the call through?
          Unlimited(_), Budget(_)   \* of a session

VARIABLES phase,      \* [Sessions -> {"unborn", "open", "stopped"}]
          rulings     \* the rulings made so far

contractVars == <<phase, rulings>>

Ruling == [session : Sessions, id : RequestIds, payload : Payloads, decision : Decisions]

Spent(s) == {r \in rulings : r.session = s /\ Granting(r.decision) /\ External(r.payload)}

Init == phase = [s \in Sessions |-> "unborn"] /\ rulings = {}

Open(s) == /\ phase[s] = "unborn"
           /\ phase' = [phase EXCEPT ![s] = "open"]
           /\ UNCHANGED rulings

Stop(s) == /\ phase[s] = "open"
           /\ phase' = [phase EXCEPT ![s] = "stopped"]
           /\ UNCHANGED rulings

(* A request that has no ruling yet gets one.                              *)
Rule(r) ==
    /\ phase[r.session] # "unborn"
    /\ \A q \in rulings : ~(q.session = r.session /\ q.id = r.id)
    /\ Granting(r.decision) =>
          /\ phase[r.session] = "open"
          /\ External(r.payload) =>
                \/ Unlimited(r.session)
                \/ Cardinality(Spent(r.session)) < Budget(r.session)
    /\ rulings' = rulings \cup {r}
    /\ UNCHANGED phase

Next == \/ \E s \in Sessions : Open(s) \/ Stop(s)
        \/ \E r \in Ruling : Rule(r)

Spec == Init /\ [][Next]_contractVars
=============================================================================
