---------------------------- MODULE RiskRegister ----------------------------
(***************************************************************************)
(* The managed risk register: core/risk_register_engine.py over the        *)
(* risk_register table of data/store.py.  Analyses observe findings, one   *)
(* risk after the other; people edit the lifecycle of a risk.  Both read a *)
(* row and write it in a later statement, and nothing checks that the row  *)
(* is still the one that was read.                                         *)
(*                                                                         *)
(* A call of the register is made by a handler; call[w] is where it is and *)
(* what it has read.  Owner and resolution are present or not.             *)
(***************************************************************************)
EXTENDS Integers, FiniteSets

CONSTANTS Workers, Risks,      \* Risks: fingerprints
          Changes,             \* what clients ask an edit to change
          Absent, Keep

Statuses == {"OPEN", "IN_PROGRESS", "ACCEPTED", "RESOLVED"}
Settled == {"ACCEPTED", "RESOLVED"}

Change == [status : Statuses \cup {Keep}, owner : BOOLEAN \cup {Keep},
           resolution : BOOLEAN \cup {Keep}]

ASSUME RegisterAssumption ==
    /\ IsFiniteSet(Workers)
    /\ Changes \subseteq Change
    /\ Absent \notin [status : Statuses, owner : BOOLEAN, resolution : BOOLEAN, count : Nat]

VARIABLES register, \* [Risks -> row or Absent]
          audits,   \* [Risks -> number of risk_register_updated events]
          call,     \* [Workers -> the register call in progress]
          observed, \* history: [Risks -> observations written]
          edited,   \* history: [Risks -> edits written]
          unseen,   \* history: risks resolved after their last observation
          stale,    \* history: handlers whose risk was written since they read it
          torn,     \* history: risks written by a stale handler, since the last good edit
          deaths

registerVars == <<register, audits, call, observed, edited, unseen, stale, torn, deaths>>

Row == [status : Statuses, owner : BOOLEAN, resolution : BOOLEAN, count : Nat]

NoCall == [at |-> "none"]
Call == {NoCall}
        \cup [at : {"select"}, todo : SUBSET Risks]
        \cup [at : {"write"}, todo : SUBSET Risks, risk : Risks, read : Row \cup {Absent}]
        \cup [at : {"edit"}, risk : Risks, change : Change]
        \cup [at : {"audit"}, risk : Risks]
        \cup [at : {"done"}, ok : BOOLEAN]

RegisterTypeOK ==
    /\ register \in [Risks -> Row \cup {Absent}]
    /\ audits \in [Risks -> Nat]
    /\ call \in [Workers -> Call]
    /\ observed \in [Risks -> Nat] /\ edited \in [Risks -> Nat]
    /\ unseen \subseteq Risks /\ stale \subseteq Workers /\ torn \subseteq Risks
    /\ deaths \in Nat

RegisterInit ==
    /\ register = [r \in Risks |-> Absent]
    /\ audits = [r \in Risks |-> 0]
    /\ call = [w \in Workers |-> NoCall]
    /\ observed = [r \in Risks |-> 0] /\ edited = [r \in Risks |-> 0]
    /\ unseen = {} /\ stale = {} /\ torn = {} /\ deaths = 0
-----------------------------------------------------------------------------
ToCall(w, next) == call' = [call EXCEPT ![w] = next]

(* The handlers that have read the risk that w is about to write.          *)
Readers(w) == {v \in Workers \ {w} : call[v].at \in {"write", "edit"} /\ call[v].risk = call[w].risk}

Rest(todo) == IF todo = {} THEN [at |-> "done", ok |-> TRUE] ELSE [at |-> "select", todo |-> todo]

(* observe_findings(artifact, findings)                                    *)
Observe(w, findings) ==
    /\ call[w] = NoCall
    /\ ToCall(w, Rest(findings))
    /\ UNCHANGED <<register, audits, observed, edited, unseen, stale, torn, deaths>>

(* The SELECT of upsert_risk_observation, for the next finding.            *)
SelectRisk(w) ==
    /\ call[w].at = "select"
    /\ \E r \in call[w].todo :
          ToCall(w, [at |-> "write", todo |-> call[w].todo \ {r}, risk |-> r, read |-> register[r]])
    /\ UNCHANGED <<register, audits, observed, edited, unseen, stale, torn, deaths>>

NewRow == [status |-> "OPEN", owner |-> FALSE, resolution |-> FALSE, count |-> 1]

RecurringUnlessMoved(row, read) ==   \* mutant: the status is written only to reopen
    IF read.status = "RESOLVED"
    THEN [row EXCEPT !.status = "OPEN", !.resolution = FALSE, !.count = @ + 1]
    ELSE [row EXCEPT !.resolution = read.resolution, !.count = @ + 1]

RecurringCounted(row, read) ==       \* mutant: the count is computed from the row that was read
    [row EXCEPT !.status = IF read.status = "RESOLVED" THEN "OPEN" ELSE read.status,
                !.resolution = IF read.status = "RESOLVED" THEN FALSE ELSE read.resolution,
                !.count = read.count + 1]

(* The UPDATE of a recurring observation: status and resolution are those  *)
(* of the row that was read, the count is added to by the statement.       *)
Recurring(row, read) ==
    [row EXCEPT !.status = IF read.status = "RESOLVED" THEN "OPEN" ELSE read.status,
                !.resolution = IF read.status = "RESOLVED" THEN FALSE ELSE read.resolution,
                !.count = @ + 1]

Clash(w) == call[w].read = Absent /\ register[call[w].risk] # Absent

(* The UPDATE or the INSERT of upsert_risk_observation.                    *)
WriteRisk(w) ==
    /\ call[w].at = "write" /\ ~Clash(w)
    /\ LET r == call[w].risk
       IN /\ register' = [register EXCEPT ![r] =
                IF @ = Absent THEN NewRow ELSE Recurring(@, call[w].read)]
          /\ observed' = [observed EXCEPT ![r] = @ + 1]
          /\ unseen' = unseen \ {r}
          /\ torn' = IF w \in stale THEN torn \cup {r} ELSE torn
          /\ stale' = (stale \ {w}) \cup Readers(w)
          /\ ToCall(w, Rest(call[w].todo))
    /\ UNCHANGED <<audits, edited, deaths>>

(* The statement raises: the database is locked by another process, or a   *)
(* second INSERT meets the UNIQUE fingerprint.  The findings that are left *)
(* are not observed.                                                       *)
RefuseRisk(w) ==
    /\ call[w].at = "write"
    /\ ToCall(w, [at |-> "done", ok |-> FALSE])
    /\ stale' = stale \ {w}
    /\ UNCHANGED <<register, audits, observed, edited, unseen, torn, deaths>>

(* The fields a row has after a change.                                    *)
After(row, change, field) == IF change[field] = Keep THEN row[field] ELSE change[field]

AllowedByOwner(row, change) ==       \* mutant: an owner is asked for only by the status change
    /\ After(row, change, "status") \in Settled => After(row, change, "resolution")
    /\ change.status \notin {"OPEN", Keep} => After(row, change, "owner")

(* RiskRegisterEngine.update raises ValueError unless the risk as it would *)
(* be is complete.                                                         *)
Allowed(row, change) ==
    /\ After(row, change, "status") \in Settled => After(row, change, "resolution")
    /\ After(row, change, "status") # "OPEN" => After(row, change, "owner")

(* A settled risk that is opened again loses its resolution.               *)
Selected(row, change) ==
    IF After(row, change, "status") = "OPEN" /\ row.status \in Settled /\ change.resolution = Keep
    THEN [change EXCEPT !.resolution = FALSE] ELSE change

(* update: read and validate                                               *)
Edit(w, r, change) ==
    /\ call[w] = NoCall /\ register[r] # Absent
    /\ Allowed(register[r], change)
    /\ ToCall(w, [at |-> "edit", risk |-> r, change |-> Selected(register[r], change)])
    /\ UNCHANGED <<register, audits, observed, edited, unseen, stale, torn, deaths>>

(* update_risk: the selected columns only                                  *)
WriteEdit(w) ==
    /\ call[w].at = "edit"
    /\ LET r == call[w].risk
           c == call[w].change
       IN /\ register' = [register EXCEPT ![r] =
                [@ EXCEPT !.status = After(register[r], c, "status"),
                          !.owner = After(register[r], c, "owner"),
                          !.resolution = After(register[r], c, "resolution")]]
          /\ edited' = [edited EXCEPT ![r] = @ + 1]
          /\ unseen' = IF c.status = "RESOLVED" THEN unseen \cup {r} ELSE unseen
          /\ torn' = IF w \in stale THEN torn \cup {r} ELSE torn \ {r}
          /\ stale' = (stale \ {w}) \cup Readers(w)
          /\ ToCall(w, [at |-> "audit", risk |-> r])
    /\ UNCHANGED <<audits, observed, deaths>>

(* save_audit_log; the metric of open risks follows                        *)
AuditEdit(w) ==
    /\ call[w].at = "audit"
    /\ audits' = [audits EXCEPT ![call[w].risk] = @ + 1]
    /\ ToCall(w, NoCall)
    /\ UNCHANGED <<register, observed, edited, unseen, stale, torn, deaths>>

(* observe_findings returns to the handler that called it.                 *)
Return(w) ==
    /\ call[w].at = "done"
    /\ ToCall(w, NoCall)
    /\ UNCHANGED <<register, audits, observed, edited, unseen, stale, torn, deaths>>

(* The handler dies within a call, if it is in one.                        *)
Die(w) ==
    /\ ToCall(w, NoCall)
    /\ stale' = stale \ {w}
    /\ deaths' = deaths + 1
    /\ UNCHANGED <<register, audits, observed, edited, unseen, torn>>

RegisterStep(w) ==
    SelectRisk(w) \/ WriteRisk(w) \/ RefuseRisk(w) \/ WriteEdit(w) \/ AuditEdit(w)

RegisterNext ==
    \E w \in Workers :
        \/ \E findings \in SUBSET Risks : Observe(w, findings)
        \/ \E r \in Risks, change \in Changes : Edit(w, r, change)
        \/ RegisterStep(w) \/ Return(w) \/ Die(w)

RegisterSpec == RegisterInit /\ [][RegisterNext]_registerVars
-----------------------------------------------------------------------------
Complete(row) ==
    /\ row.status \in Settled => row.resolution
    /\ row.status # "OPEN" => row.owner

(* "accepted and resolved risks require rationale", and whatever is not    *)
(* open an owner: not only each edit, which is validated against a row     *)
(* read before, but each stored risk keeps this, unless a handler wrote a  *)
(* risk that changed since it read it; the next edit that nobody overtakes *)
(* repairs it.                                                             *)
RegisterSound == \A r \in Risks \ torn : register[r] # Absent => Complete(register[r])

(* "recurring resolved detections reopen", in every order of statements: a *)
(* risk that is resolved has not been observed since somebody resolved it. *)
ResolvedIsUnseen ==
    \A r \in Risks : register[r] # Absent /\ register[r].status = "RESOLVED" => r \in unseen

(* The occurrence count of a risk is the number of its observations, and   *)
(* every edit has its audit event unless a handler died before writing it. *)
NothingUncounted ==
    \A r \in Risks :
        /\ observed[r] = IF register[r] = Absent THEN 0 ELSE register[r].count
        /\ edited[r] - audits[r] \in
             0..deaths + Cardinality({w \in Workers : call[w].at = "audit"})
=============================================================================
