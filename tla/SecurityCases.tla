--------------------------- MODULE SecurityCases ---------------------------
(***************************************************************************)
(* Incidents (core/incident_manager.py) and the remediations that answer   *)
(* them (core/remediation_tracker.py).  Both are whole records of the      *)
(* models table that a handler reads, changes and saves back; handlers     *)
(* overlap, and nothing checks that the record is still the one read.      *)
(***************************************************************************)
EXTENDS Integers, Sequences

CONSTANTS Handlers, Incidents, Remediations, Notes,
          MaxNotes,       \* _MAX_NOTES
          Recreation,     \* bound: may a client create an id that exists?
          MaxSaves,       \* bound on saved records
          Absent

ASSUME CasesAssumption == MaxNotes \in Nat \ {0} /\ MaxSaves \in Nat /\ Recreation \in BOOLEAN

VARIABLES table,    \* [Incidents \cup Remediations -> record or Absent]
          job,      \* [Handlers -> the handler in progress]
          outdated, \* history: the handlers whose case was saved since they read it
          saves

vars == <<table, job, outdated, saves>>

Cases == Incidents \cup Remediations
IncidentStates == {"OPEN", "INVESTIGATING", "CONTAINED", "RESOLVED", "ACCEPTED"}
RemediationStates == {"PENDING", "IN_PROGRESS", "RESOLVED", "ACCEPTED_RISK", "WONT_FIX"}
States == IncidentStates \cup RemediationStates

Terminal == {"RESOLVED", "ACCEPTED", "ACCEPTED_RISK", "WONT_FIX"}

(* _ALLOWED_TRANSITIONS                                                    *)
Reachable(state) ==
    CASE state = "OPEN" -> {"INVESTIGATING", "CONTAINED", "RESOLVED", "ACCEPTED"}
      [] state = "INVESTIGATING" -> {"CONTAINED", "RESOLVED", "ACCEPTED"}
      [] state = "CONTAINED" -> {"RESOLVED", "ACCEPTED"}
      [] OTHER -> {}

First(id) == IF id \in Incidents THEN "OPEN" ELSE "PENDING"

(* An incident follows the table; a remediation may go anywhere, to where  *)
(* it is included, until it is terminal.                                   *)
MayFollow(id, old, new) ==
    IF id \in Incidents THEN new \in Reachable(old)
    ELSE old \notin Terminal /\ new \in RemediationStates

(* history is state_history; closed says that resolved_at is set; incident *)
(* is the incident a remediation is linked to.                             *)
Record == [state : States, history : Seq(States), closed : BOOLEAN, notes : Seq(Notes),
           incident : Incidents \cup {Absent}]

Idle == [at |-> "idle"]
Job == {Idle} \cup [at : {"save"}, id : Cases, record : Record]

TypeOK ==
    /\ table \in [Cases -> Record \cup {Absent}]
    /\ \A id \in Cases : table[id] # Absent => Len(table[id].notes) <= MaxNotes
    /\ job \in [Handlers -> Job]
    /\ outdated \subseteq Handlers
    /\ saves \in 0..MaxSaves

Init ==
    /\ table = [id \in Cases |-> Absent]
    /\ job = [w \in Handlers |-> Idle]
    /\ outdated = {} /\ saves = 0
-----------------------------------------------------------------------------
(* A handler has read what it needs and knows the record it will save.     *)
Prepare(w, id, record) ==
    /\ job[w] = Idle /\ saves < MaxSaves
    /\ job' = [job EXCEPT ![w] = [at |-> "save", id |-> id, record |-> record]]
    /\ outdated' = outdated \ {w}
    /\ UNCHANGED <<table, saves>>

(* create_incident and create_remediation begin a new record, and a new    *)
(* history, even when the id is taken; only created_at is kept.  Only a    *)
(* remediation names an incident, which need not exist.                    *)
Create(w, id, incident) ==
    /\ table[id] = Absent \/ Recreation
    /\ id \in Incidents <=> incident = Absent
    /\ Prepare(w, id, [state |-> First(id), history |-> <<First(id)>>, closed |-> FALSE,
                       notes |-> <<>>, incident |-> incident])

MovedReplacing(record, new) ==   \* mutant: the history holds the last change only
    [record EXCEPT !.state = new, !.history = <<new>>, !.closed = @ \/ new \in Terminal]

MovedKeepingOpen(record, new) == \* mutant: resolved_at is left alone
    [record EXCEPT !.state = new, !.history = Append(@, new)]

(* What a state change makes of a record.                                  *)
Moved(record, new) ==
    [record EXCEPT !.state = new, !.history = Append(@, new),
                   !.closed = @ \/ new \in Terminal]

(* update_incident_state, update_remediation_status                        *)
Move(w, id, new) ==
    /\ table[id] # Absent
    /\ MayFollow(id, table[id].state, new)
    /\ Prepare(w, id, Moved(table[id], new))

(* The newest notes are kept.                                              *)
WithNote(notes, note) ==
    LET all == Append(notes, note)
    IN IF Len(all) > MaxNotes THEN Tail(all) ELSE all

(* add_incident_note                                                       *)
AddNote(w, id, note) ==
    /\ id \in Incidents /\ table[id] # Absent
    /\ Prepare(w, id, [table[id] EXCEPT !.notes = WithNote(@, note)])

(* link_to_incident does not ask whether the incident exists.              *)
Link(w, id, incident) ==
    /\ id \in Remediations /\ table[id] # Absent
    /\ Prepare(w, id, [table[id] EXCEPT !.incident = incident])

(* The other handlers that read the case before this handler saves it.     *)
Overtaken(w) == {v \in Handlers \ {w} : job[v] # Idle /\ job[v].id = job[w].id}

(* store.save_model(record)                                                *)
Save(w) ==
    /\ job[w] # Idle /\ saves < MaxSaves
    /\ table' = [table EXCEPT ![job[w].id] = job[w].record]
    /\ job' = [job EXCEPT ![w] = Idle]
    /\ outdated' = (outdated \cup Overtaken(w)) \ {w}
    /\ saves' = saves + 1

(* The worker dies between its two store calls.                            *)
Crash(w) == /\ job[w] # Idle
            /\ job' = [job EXCEPT ![w] = Idle]
            /\ outdated' = outdated \ {w}
            /\ UNCHANGED <<table, saves>>

Next ==
    \E w \in Handlers :
        \/ \E id \in Cases :
              \/ \E incident \in Incidents \cup {Absent} : Create(w, id, incident)
              \/ \E new \in States : Move(w, id, new)
              \/ \E note \in Notes : AddNote(w, id, note)
              \/ \E incident \in Incidents : Link(w, id, incident)
        \/ Save(w)
        \/ Crash(w)

Spec == Init /\ [][Next]_vars
-----------------------------------------------------------------------------
LegalTrail(id, record) ==
    LET trail == record.history
    IN /\ Len(trail) > 0 /\ trail[1] = First(id)
       /\ \A i \in 1..Len(trail) - 1 : MayFollow(id, trail[i], trail[i + 1])
       /\ record.state = trail[Len(trail)]
       /\ record.closed <=> record.state \in Terminal

(* Whatever handlers overwrite each other, the record that remains tells a *)
(* legal life of the case: it starts at the first state, takes allowed     *)
(* steps, ends in the current state, and is closed exactly when that is    *)
(* terminal.                                                               *)
TrailIsLegal == \A id \in Cases : table[id] # Absent => LegalTrail(id, table[id])

Extends(longer, shorter) ==
    /\ Len(shorter) <= Len(longer)
    /\ \A i \in 1..Len(shorter) : longer[i] = shorter[i]

Continues(new, old) ==
    /\ Extends(new.history, old.history)
    /\ old.state \in Terminal => new.state = old.state

(* "state transitions are appended to an immutable audit trail": a saved   *)
(* transition is lost, and a closed case open again, only when a handler   *)
(* saves what it read before the transition was saved, or creates the case *)
(* anew.                                                                   *)
LostOnlyToOverlap ==
    [][\A id \in Cases : table[id] # Absent =>
          \/ Continues(table'[id], table[id])
          \/ table'[id].history = <<First(id)>>
          \/ \E w \in outdated : table'[id] = job[w].record]_vars
=============================================================================
