----------------------- MODULE RegistrationJobsProofs -----------------------
(* For any number of handlers, risks, schedules, jobs, runs and deaths:    *)
(* first, whatever edits people ask for, what the register holds is sound, *)
(* a resolved risk is unseen, and nothing goes uncounted; then, what       *)
(* monitoring runs, registration jobs and people who edit risks do with    *)
(* the register is what RiskRegister describes, one step after the other,  *)
(* and both keep what they promise.                                        *)
EXTENDS RegistrationJobs, FiniteSetTheorems, SequenceTheorems, TLAPS

(* The row as an edit leaves it.                                           *)
Edited(row, change) ==
    [row EXCEPT !.status = After(row, change, "status"),
                !.owner = After(row, change, "owner"),
                !.resolution = After(row, change, "resolution")]

(* A call that reads a risk and that nobody has overtaken writes what it   *)
(* would have written at once.                                             *)
ReadsStand ==
    \A w \in Workers : call[w].at = "write" /\ w \notin stale => call[w].read = register[call[w].risk]
EditsStand ==
    \A w \in Workers : call[w].at = "edit" =>
        /\ register[call[w].risk] # Absent
        /\ w \notin stale => Complete(Edited(register[call[w].risk], call[w].change))

(* Each edit that has no audit event yet has a handler that is about to    *)
(* write it, or had one that died.                                         *)
Auditing(r) == {w \in Workers : call[w].at = "audit" /\ call[w].risk = r}
Audited ==
    \A r \in Risks : edited[r] - audits[r] - Cardinality(Auditing(r)) \in 0..deaths
Occurred ==
    \A r \in Risks : observed[r] = IF register[r] = Absent THEN 0 ELSE register[r].count

RegisterInv ==
    /\ RegisterTypeOK
    /\ RegisterSound /\ ReadsStand /\ EditsStand
    /\ ResolvedIsUnseen
    /\ Occurred /\ Audited
-----------------------------------------------------------------------------
(* What a handler has in hand where it is.                                 *)
LEMMA CallFields ==
    ASSUME RegisterTypeOK, NEW w \in Workers
    PROVE  /\ call[w].at \in {"none", "select", "write", "edit", "audit", "done"}
           /\ call[w].at = "none" => call[w] = NoCall
           /\ call[w].at = "select" => call[w].todo \in SUBSET Risks
           /\ call[w].at = "write" => /\ call[w].todo \in SUBSET Risks /\ call[w].risk \in Risks
                                      /\ call[w].read \in Row \cup {Absent}
           /\ call[w].at = "edit" => call[w].risk \in Risks /\ call[w].change \in Change
           /\ call[w].at = "audit" => call[w].risk \in Risks
<1>1. call[w] \in Call
  BY DEF RegisterTypeOK
<1>2. CASE call[w] = NoCall
  BY <1>2 DEF NoCall
<1>3. CASE call[w] \in [at : {"select"}, todo : SUBSET Risks]
  BY <1>3
<1>4. CASE call[w] \in [at : {"write"}, todo : SUBSET Risks, risk : Risks, read : Row \cup {Absent}]
  BY <1>4
<1>5. CASE call[w] \in [at : {"edit"}, risk : Risks, change : Change]
  BY <1>5
<1>6. CASE call[w] \in [at : {"audit"}, risk : Risks]
  BY <1>6
<1>7. CASE call[w] \in [at : {"done"}, ok : BOOLEAN]
  BY <1>7
<1> QED
  BY <1>1, <1>2, <1>3, <1>4, <1>5, <1>6, <1>7 DEF Call

(* What remains of an observation is a call.                               *)
LEMMA RestIsCall ==
    ASSUME NEW todo \in SUBSET Risks
    PROVE  /\ Rest(todo) \in Call
           /\ Rest(todo).at \in {"select", "done"}
BY DEF Rest, Call

(* The rows that observations and edits write.                             *)
LEMMA RecurringRow ==
    ASSUME NEW row \in Row, NEW read \in Row
    PROVE  /\ Recurring(row, read) \in Row
           /\ Recurring(row, read).count = row.count + 1
           /\ Recurring(row, read).status # "RESOLVED"
           /\ row = read /\ Complete(row) => Complete(Recurring(row, read))
<1>1. read.status \in Statuses /\ row.count \in Nat /\ read.resolution \in BOOLEAN
  BY DEF Row
<1>2. (IF read.status = "RESOLVED" THEN "OPEN" ELSE read.status) \in Statuses
  BY <1>1 DEF Statuses
<1>3. (IF read.status = "RESOLVED" THEN FALSE ELSE read.resolution) \in BOOLEAN
  BY <1>1
<1>4. row.count + 1 \in Nat
  BY <1>1
<1>5. Recurring(row, read) \in Row
  <2>1. ASSUME NEW s \in Statuses, NEW v \in BOOLEAN, NEW n \in Nat
        PROVE  [row EXCEPT !.status = s, !.resolution = v, !.count = n] \in Row
    BY DEF Row
  <2> QED
    BY <1>2, <1>3, <1>4, <2>1 DEF Recurring
<1>6. /\ Recurring(row, read).count = row.count + 1
      /\ Recurring(row, read).status = IF read.status = "RESOLVED" THEN "OPEN" ELSE read.status
      /\ Recurring(row, read).owner = row.owner
      /\ Recurring(row, read).resolution = IF read.status = "RESOLVED" THEN FALSE ELSE read.resolution
  BY DEF Recurring, Row
<1> QED
  BY <1>1, <1>5, <1>6 DEF Complete, Settled

LEMMA EditedRow ==
    ASSUME NEW row \in Row, NEW change \in Change
    PROVE  /\ Edited(row, change) \in Row
           /\ Edited(row, change).count = row.count
           /\ Edited(row, change).status = After(row, change, "status")
           /\ Allowed(row, change) => Complete(Edited(row, Selected(row, change)))
<1>1. ASSUME NEW c \in Change
      PROVE  /\ Edited(row, c) \in Row /\ Edited(row, c).count = row.count
             /\ Edited(row, c).status = After(row, c, "status")
             /\ Edited(row, c).owner = After(row, c, "owner")
             /\ Edited(row, c).resolution = After(row, c, "resolution")
  <2>1. /\ After(row, c, "status") \in Statuses
        /\ After(row, c, "owner") \in BOOLEAN /\ After(row, c, "resolution") \in BOOLEAN
    BY DEF After, Change, Row
  <2> QED
    BY <2>1 DEF Edited, Row
<1>2. Selected(row, change) \in Change
  BY DEF Selected, Change
<1>3. ASSUME Allowed(row, change)
      PROVE  Complete(Edited(row, Selected(row, change)))
  <2>1. CASE Selected(row, change) = change
    BY <1>1, <1>3, <2>1 DEF Allowed, Complete
  <2>2. CASE Selected(row, change) # change
    <3>1. /\ After(row, change, "status") = "OPEN"
          /\ Selected(row, change) = [change EXCEPT !.resolution = FALSE]
      BY <2>2 DEF Selected
    <3>2. After(row, Selected(row, change), "status") = "OPEN"
      BY <3>1 DEF After, Change
    <3> QED
      BY <1>1, <1>2, <3>2 DEF Complete, Settled
  <2> QED
    BY <2>1, <2>2
<1> QED
  BY <1>1, <1>3
-----------------------------------------------------------------------------
(* A step of one handler changes its own entry among those that have yet   *)
(* to write an audit event.                                                *)
LEMMA AuditingCount ==
    ASSUME RegisterTypeOK, NEW w \in Workers, NEW next, ToCall(w, next), NEW r \in Risks
    PROVE  /\ Cardinality(Auditing(r)) \in Nat
           /\ Cardinality(Auditing(r)') =
                IF next.at = "audit" /\ next.risk = r
                THEN IF w \in Auditing(r) THEN Cardinality(Auditing(r)) ELSE Cardinality(Auditing(r)) + 1
                ELSE IF w \in Auditing(r) THEN Cardinality(Auditing(r)) - 1 ELSE Cardinality(Auditing(r))
<1>1. IsFiniteSet(Auditing(r))
  <2>1. Auditing(r) \in SUBSET Workers
    BY DEF Auditing
  <2> QED
    BY <2>1, FS_Subset, RegisterAssumption
<1>2. Cardinality(Auditing(r)) \in Nat
  BY <1>1, FS_CardinalityType
<1>3. \A v \in Workers : call'[v] = IF v = w THEN next ELSE call[v]
  BY DEF ToCall, RegisterTypeOK
<1>4. CASE next.at = "audit" /\ next.risk = r
  <2>1. Auditing(r)' = Auditing(r) \cup {w}
    BY <1>3, <1>4 DEF Auditing
  <2> QED
    BY <1>1, <1>2, <1>4, <2>1, FS_AddElement
<1>5. CASE ~(next.at = "audit" /\ next.risk = r)
  <2>1. Auditing(r)' = Auditing(r) \ {w}
    BY <1>3, <1>5 DEF Auditing
  <2> QED
    BY <1>1, <1>2, <1>5, <2>1, FS_RemoveElement
<1> QED
  BY <1>2, <1>4, <1>5

(* A step that writes no risk keeps what the register holds, provided that *)
(* the handler goes on with the row as it is.                              *)
LEMMA CallKeeps ==
    ASSUME RegisterInv, NEW w \in Workers, NEW next \in Call, ToCall(w, next),
           UNCHANGED <<register, observed, edited, unseen, torn>>,
           \/ stale' = stale
           \/ stale' = stale \ {w} /\ next.at \notin {"write", "edit"},
           audits' \in [Risks -> Nat], deaths' \in Nat,
           next.at = "write" => next.read = register[next.risk],
           next.at = "edit" => register[next.risk] # Absent,
           next.at = "edit" => Complete(Edited(register[next.risk], next.change)),
           Audited'
    PROVE  RegisterInv'
<1>1. \A v \in Workers : call'[v] = IF v = w THEN next ELSE call[v]
  BY DEF ToCall, RegisterInv, RegisterTypeOK
<1>2. RegisterTypeOK'
  BY DEF ToCall, RegisterInv, RegisterTypeOK
<1>3. RegisterSound' /\ ResolvedIsUnseen' /\ Occurred'
  BY DEF RegisterInv, RegisterSound, ResolvedIsUnseen, Occurred, Complete
<1>4. ReadsStand'
  BY <1>1 DEF RegisterInv, ReadsStand
<1>5. EditsStand'
  <2> SUFFICES ASSUME NEW v \in Workers, call'[v].at = "edit"
               PROVE  /\ register[call'[v].risk] # Absent
                      /\ v \notin stale' => Complete(Edited(register[call'[v].risk], call'[v].change))
    BY DEF EditsStand, Complete, Edited, After
  <2>1. CASE v = w
    BY <1>1, <2>1
  <2>2. CASE v # w
    BY <1>1, <2>2 DEF RegisterInv, EditsStand
  <2> QED
    BY <2>1, <2>2
<1> QED
  BY <1>2, <1>3, <1>4, <1>5 DEF RegisterInv

(* A handler that neither owes an audit event nor will owe one.            *)
LEMMA QuietKeeps ==
    ASSUME RegisterInv, NEW w \in Workers, NEW next \in Call, ToCall(w, next),
           call[w].at # "audit", next.at # "audit", UNCHANGED <<audits, edited, deaths>>
    PROVE  Audited'
<1> SUFFICES ASSUME NEW r \in Risks
             PROVE  (edited[r] - audits[r] - Cardinality(Auditing(r)) \in 0..deaths)'
  BY DEF Audited
<1>1. Cardinality(Auditing(r)') = Cardinality(Auditing(r))
  BY AuditingCount DEF Auditing, RegisterInv
<1> QED
  BY <1>1 DEF RegisterInv, Audited

LEMMA ObserveKeeps ==
    ASSUME RegisterInv, NEW w \in Workers, NEW findings \in SUBSET Risks, Observe(w, findings)
    PROVE  RegisterInv'
<1> DEFINE next == Rest(findings)
<1>1. next \in Call /\ next.at \in {"select", "done"}
  BY RestIsCall
<1>2. call[w].at # "audit"
  BY DEF Observe, NoCall
<1> HIDE DEF next
<1>3. ToCall(w, next) /\ UNCHANGED <<register, audits, observed, edited, unseen, stale, torn, deaths>>
  BY DEF Observe, next
<1>4. Audited'
  BY <1>1, <1>2, <1>3, QuietKeeps
<1> QED
  BY <1>1, <1>3, <1>4, CallKeeps DEF RegisterInv, RegisterTypeOK

LEMMA SelectKeeps ==
    ASSUME RegisterInv, NEW w \in Workers, SelectRisk(w)
    PROVE  RegisterInv'
<1>1. PICK r \in call[w].todo :
         ToCall(w, [at |-> "write", todo |-> call[w].todo \ {r}, risk |-> r, read |-> register[r]])
  BY DEF SelectRisk
<1>2. [at |-> "write", todo |-> call[w].todo \ {r}, risk |-> r, read |-> register[r]] \in Call
  <2>1. call[w].todo \in SUBSET Risks
    BY CallFields DEF SelectRisk, RegisterInv
  <2> QED
    BY <2>1 DEF Call, RegisterInv, RegisterTypeOK
<1>3. PICK next \in Call : /\ ToCall(w, next)
                           /\ next.at = "write" /\ next.read = register[next.risk]
  BY <1>1, <1>2
<1>4. UNCHANGED <<register, audits, observed, edited, unseen, stale, torn, deaths>>
  BY DEF SelectRisk
<1>5. Audited'
  BY <1>3, <1>4, QuietKeeps DEF SelectRisk
<1>6. audits' \in [Risks -> Nat] /\ deaths' \in Nat /\ stale' = stale
  BY <1>4 DEF RegisterInv, RegisterTypeOK
<1>7. next.at # "edit"
  BY <1>3
<1> QED
  BY <1>3, <1>4, <1>5, <1>6, <1>7, CallKeeps

LEMMA RefuseKeeps ==
    ASSUME RegisterInv, NEW w \in Workers, RefuseRisk(w)
    PROVE  RegisterInv'
<1> DEFINE next == [at |-> "done", ok |-> FALSE]
<1>1. next \in Call /\ next.at = "done"
  BY DEF Call
<1> HIDE DEF next
<1>2. /\ ToCall(w, next) /\ stale' = stale \ {w}
      /\ UNCHANGED <<register, audits, observed, edited, unseen, torn, deaths>>
  BY DEF RefuseRisk, next
<1>3. Audited'
  BY <1>1, <1>2, QuietKeeps DEF RefuseRisk
<1> QED
  BY <1>1, <1>2, <1>3, CallKeeps DEF RegisterInv, RegisterTypeOK

LEMMA EditKeeps ==
    ASSUME RegisterInv, NEW w \in Workers, NEW r \in Risks, NEW change \in Changes,
           Edit(w, r, change)
    PROVE  RegisterInv'
<1>1. change \in Change /\ register[r] \in Row /\ register[r] # Absent
  BY RegisterAssumption DEF Edit, RegisterInv, RegisterTypeOK
<1>2. Complete(Edited(register[r], Selected(register[r], change)))
  BY <1>1, EditedRow DEF Edit
<1>3. [at |-> "edit", risk |-> r, change |-> Selected(register[r], change)] \in Call
  BY <1>1 DEF Selected, Change, Call
<1>4. PICK next \in Call : /\ ToCall(w, next)
                           /\ next.at = "edit" /\ register[next.risk] # Absent
                           /\ Complete(Edited(register[next.risk], next.change))
  BY <1>1, <1>2, <1>3 DEF Edit
<1>5. call[w].at # "audit"
  BY DEF Edit, NoCall
<1>6. UNCHANGED <<register, audits, observed, edited, unseen, stale, torn, deaths>>
  BY DEF Edit
<1>7. Audited'
  BY <1>4, <1>5, <1>6, QuietKeeps
<1> QED
  BY <1>4, <1>6, <1>7, CallKeeps DEF RegisterInv, RegisterTypeOK

LEMMA ReturnKeeps ==
    ASSUME RegisterInv, NEW w \in Workers, Return(w)
    PROVE  RegisterInv'
<1>1. NoCall \in Call /\ NoCall.at = "none"
  BY DEF Call, NoCall
<1>2. Audited'
  BY <1>1, QuietKeeps DEF Return
<1> QED
  BY <1>1, <1>2, CallKeeps DEF Return, RegisterInv, RegisterTypeOK

LEMMA DieKeeps ==
    ASSUME RegisterInv, NEW w \in Workers, Die(w)
    PROVE  RegisterInv'
<1>1. NoCall \in Call /\ NoCall.at = "none"
  BY DEF Call, NoCall
<1>2. deaths' = deaths + 1 /\ deaths \in Nat
  BY DEF Die, RegisterInv, RegisterTypeOK
<1>3. Audited'
  <2> SUFFICES ASSUME NEW r \in Risks
               PROVE  (edited[r] - audits[r] - Cardinality(Auditing(r)) \in 0..deaths)'
    BY DEF Audited
  <2>1. /\ Cardinality(Auditing(r)) \in Nat
        /\ Cardinality(Auditing(r)') \in {Cardinality(Auditing(r)), Cardinality(Auditing(r)) - 1}
    BY <1>1, AuditingCount DEF Die, RegisterInv
  <2>2. edited[r] \in Nat /\ audits[r] \in Nat /\ edited' = edited /\ audits' = audits
    BY DEF Die, RegisterInv, RegisterTypeOK
  <2>3. edited[r] - audits[r] - Cardinality(Auditing(r)) \in 0..deaths
    BY DEF RegisterInv, Audited
  <2> QED
    BY <1>2, <2>1, <2>2, <2>3
<1> QED
  BY <1>1, <1>2, <1>3, CallKeeps DEF Die, RegisterInv, RegisterTypeOK

LEMMA AuditEditKeeps ==
    ASSUME RegisterInv, NEW w \in Workers, AuditEdit(w)
    PROVE  RegisterInv'
<1>1. NoCall \in Call /\ NoCall.at = "none"
  BY DEF Call, NoCall
<1>2. call[w].risk \in Risks
  BY CallFields DEF AuditEdit, RegisterInv
<1>3. audits' \in [Risks -> Nat]
  BY <1>2 DEF AuditEdit, RegisterInv, RegisterTypeOK
<1>4. Audited'
  <2> SUFFICES ASSUME NEW r \in Risks
               PROVE  (edited[r] - audits[r] - Cardinality(Auditing(r)) \in 0..deaths)'
    BY DEF Audited
  <2>1. /\ Cardinality(Auditing(r)) \in Nat
        /\ Cardinality(Auditing(r)') =
             IF w \in Auditing(r) THEN Cardinality(Auditing(r)) - 1 ELSE Cardinality(Auditing(r))
    BY <1>1, AuditingCount DEF AuditEdit, RegisterInv
  <2>2. w \in Auditing(r) <=> r = call[w].risk
    BY DEF AuditEdit, Auditing
  <2>3. audits'[r] = IF r = call[w].risk THEN audits[r] + 1 ELSE audits[r]
    BY <1>2 DEF AuditEdit, RegisterInv, RegisterTypeOK
  <2>4. edited[r] \in Nat /\ audits[r] \in Nat /\ edited' = edited /\ deaths' = deaths /\ deaths \in Nat
    BY DEF AuditEdit, RegisterInv, RegisterTypeOK
  <2>5. edited[r] - audits[r] - Cardinality(Auditing(r)) \in 0..deaths
    BY DEF RegisterInv, Audited
  <2> QED
    BY <2>1, <2>2, <2>3, <2>4, <2>5
<1> QED
  BY <1>1, <1>3, <1>4, CallKeeps DEF AuditEdit, RegisterInv, RegisterTypeOK

(* A handler that writes a risk overtakes those that have read it: whoever *)
(* is not stale after that has read another one.                           *)
LEMMA OvertakenAreStale ==
    ASSUME RegisterInv, NEW w \in Workers, NEW next,
           ToCall(w, next), next.at \notin {"write", "edit"},
           stale' = (stale \ {w}) \cup Readers(w), NEW v \in Workers,
           call'[v].at \in {"write", "edit"}
    PROVE  /\ v # w /\ call'[v] = call[v]
           /\ v \notin stale' => v \notin stale /\ call[v].risk # call[w].risk
<1>1. \A u \in Workers : call'[u] = IF u = w THEN next ELSE call[u]
  BY DEF ToCall, RegisterInv, RegisterTypeOK
<1> QED
  BY <1>1 DEF Readers

(* So those that are not keep what they have read, and the row they write  *)
(* may be incomplete only if the writer was stale.                         *)
LEMMA WriteKeeps ==
    ASSUME RegisterInv, NEW w \in Workers, NEW next \in Call, ToCall(w, next),
           next.at \notin {"write", "edit"}, call[w].risk \in Risks,
           NEW row \in Row, register' = [register EXCEPT ![call[w].risk] = row],
           stale' = (stale \ {w}) \cup Readers(w),
           torn' \subseteq Risks, torn \ {call[w].risk} \subseteq torn',
           call[w].risk \notin torn' => Complete(row)
    PROVE  RegisterSound' /\ ReadsStand' /\ EditsStand'
<1>1. \A r \in Risks : register'[r] = IF r = call[w].risk THEN row ELSE register[r]
  BY DEF RegisterInv, RegisterTypeOK
<1>2. row # Absent
  BY RegisterAssumption DEF Row
<1>3. RegisterSound'
  BY <1>1 DEF RegisterInv, RegisterSound, Complete
<1>4. ReadsStand'
  <2> SUFFICES ASSUME NEW v \in Workers, call'[v].at = "write", v \notin stale'
               PROVE  call'[v].read = register'[call'[v].risk]
    BY DEF ReadsStand
  <2>1. call'[v] = call[v] /\ v \notin stale /\ call[v].risk # call[w].risk
    BY OvertakenAreStale
  <2>2. call[v].risk \in Risks
    BY <2>1, CallFields DEF RegisterInv
  <2> QED
    BY <1>1, <2>1, <2>2 DEF RegisterInv, ReadsStand
<1>5. EditsStand'
  <2> SUFFICES ASSUME NEW v \in Workers, call'[v].at = "edit"
               PROVE  /\ register'[call'[v].risk] # Absent
                      /\ v \notin stale' => Complete(Edited(register'[call'[v].risk], call'[v].change))
    BY DEF EditsStand, Complete, Edited, After
  <2>1. /\ call'[v] = call[v]
        /\ v \notin stale' => v \notin stale /\ call[v].risk # call[w].risk
    BY OvertakenAreStale
  <2>2. call[v].risk \in Risks
    BY <2>1, CallFields DEF RegisterInv
  <2> QED
    BY <1>1, <1>2, <2>1, <2>2 DEF RegisterInv, EditsStand
<1> QED
  BY <1>3, <1>4, <1>5

LEMMA WriteRiskKeeps ==
    ASSUME RegisterInv, NEW w \in Workers, WriteRisk(w)
    PROVE  RegisterInv'
<1> DEFINE r == call[w].risk
           old == register[r]
           row == IF old = Absent THEN NewRow ELSE Recurring(old, call[w].read)
           next == Rest(call[w].todo)
<1>1. /\ r \in Risks /\ call[w].todo \in SUBSET Risks /\ call[w].read \in Row \cup {Absent}
      /\ old \in Row \cup {Absent}
  BY CallFields DEF WriteRisk, RegisterInv, RegisterTypeOK
<1>2. next \in Call /\ next.at \in {"select", "done"}
  BY <1>1, RestIsCall
<1>3. /\ register' = [register EXCEPT ![r] = row]
      /\ observed' = [observed EXCEPT ![r] = @ + 1] /\ unseen' = unseen \ {r}
      /\ torn' = IF w \in stale THEN torn \cup {r} ELSE torn
      /\ stale' = (stale \ {w}) \cup Readers(w)
      /\ ToCall(w, next) /\ UNCHANGED <<audits, edited, deaths>>
  BY DEF WriteRisk
<1>4. NewRow \in Row /\ NewRow.count = 1 /\ NewRow.status = "OPEN" /\ Complete(NewRow)
  BY DEF NewRow, Row, Statuses, Complete, Settled
<1>5. old # Absent => old \in Row /\ call[w].read \in Row
  BY <1>1 DEF WriteRisk, Clash
<1>6. /\ row \in Row /\ row.status # "RESOLVED"
      /\ row.count = IF old = Absent THEN 1 ELSE old.count + 1
  BY <1>4, <1>5, RecurringRow
<1>7. r \notin torn' => Complete(row)
  <2> SUFFICES ASSUME r \notin torn'
               PROVE  Complete(row)
    OBVIOUS
  <2>1. w \notin stale /\ r \notin torn
    BY <1>3
  <2>2. call[w].read = old
    BY <2>1 DEF WriteRisk, RegisterInv, ReadsStand
  <2>3. old # Absent => Complete(old)
    BY <1>1, <2>1 DEF RegisterInv, RegisterSound
  <2> QED
    BY <1>4, <1>5, <2>2, <2>3, RecurringRow
<1>8. Absent \notin Row
  BY RegisterAssumption DEF Row
<1> HIDE DEF next, row, r
<1>9. RegisterTypeOK'
  BY <1>1, <1>2, <1>3, <1>6 DEF ToCall, RegisterInv, RegisterTypeOK, Readers
<1>10. RegisterSound' /\ ReadsStand' /\ EditsStand'
  <2>1. torn' \subseteq Risks /\ torn \ {r} \subseteq torn'
    BY <1>1, <1>3 DEF RegisterInv, RegisterTypeOK
  <2> QED
    BY <1>1, <1>2, <1>3, <1>6, <1>7, <2>1, WriteKeeps DEF r
<1>11. ResolvedIsUnseen'
  BY <1>1, <1>3, <1>6 DEF RegisterInv, RegisterTypeOK, ResolvedIsUnseen
<1>12. Occurred'
  <2> SUFFICES ASSUME NEW q \in Risks
               PROVE  observed'[q] = IF register'[q] = Absent THEN 0 ELSE register'[q].count
    BY DEF Occurred
  <2>1. CASE q = r
    BY <1>1, <1>3, <1>6, <1>8, <2>1 DEF RegisterInv, RegisterTypeOK, Occurred
  <2>2. CASE q # r
    BY <1>3, <2>2 DEF RegisterInv, RegisterTypeOK, Occurred
  <2> QED
    BY <2>1, <2>2
<1>13. Audited'
  BY <1>2, <1>3, QuietKeeps DEF WriteRisk
<1> QED
  BY <1>9, <1>10, <1>11, <1>12, <1>13 DEF RegisterInv

LEMMA WriteEditKeeps ==
    ASSUME RegisterInv, NEW w \in Workers, WriteEdit(w)
    PROVE  RegisterInv'
<1> DEFINE r == call[w].risk
           c == call[w].change
           old == register[r]
           row == Edited(old, c)
           next == [at |-> "audit", risk |-> r]
<1>1. r \in Risks /\ c \in Change /\ old \in Row
  BY CallFields DEF WriteEdit, RegisterInv, RegisterTypeOK, EditsStand
<1>2. next \in Call /\ next.at = "audit" /\ next.risk = r
  BY <1>1 DEF Call
<1>3. /\ register' = [register EXCEPT ![r] = row]
      /\ edited' = [edited EXCEPT ![r] = @ + 1]
      /\ unseen' = IF c.status = "RESOLVED" THEN unseen \cup {r} ELSE unseen
      /\ torn' = IF w \in stale THEN torn \cup {r} ELSE torn \ {r}
      /\ stale' = (stale \ {w}) \cup Readers(w)
      /\ ToCall(w, next) /\ UNCHANGED <<audits, observed, deaths>>
  BY DEF WriteEdit, Edited
<1>4. row \in Row /\ row.count = old.count /\ row.status = After(old, c, "status")
  BY <1>1, EditedRow
<1>5. r \notin torn' => Complete(row)
  BY <1>3 DEF WriteEdit, RegisterInv, EditsStand
<1>6. Absent \notin Row
  BY RegisterAssumption DEF Row
<1> HIDE DEF next, row, r, c
<1>7. RegisterTypeOK'
  BY <1>1, <1>2, <1>3, <1>4 DEF ToCall, RegisterInv, RegisterTypeOK, Readers
<1>8. RegisterSound' /\ ReadsStand' /\ EditsStand'
  <2>1. torn' \subseteq Risks /\ torn \ {r} \subseteq torn'
    BY <1>1, <1>3 DEF RegisterInv, RegisterTypeOK
  <2> QED
    BY <1>1, <1>2, <1>3, <1>4, <1>5, <2>1, WriteKeeps DEF r
<1>9. ResolvedIsUnseen'
  BY <1>1, <1>3, <1>4, <1>6 DEF RegisterInv, RegisterTypeOK, ResolvedIsUnseen, After
<1>10. Occurred'
  <2> SUFFICES ASSUME NEW q \in Risks
               PROVE  observed'[q] = IF register'[q] = Absent THEN 0 ELSE register'[q].count
    BY DEF Occurred
  <2>1. CASE q = r
    BY <1>1, <1>3, <1>4, <1>6, <2>1 DEF RegisterInv, RegisterTypeOK, Occurred
  <2>2. CASE q # r
    BY <1>3, <2>2 DEF RegisterInv, RegisterTypeOK, Occurred
  <2> QED
    BY <2>1, <2>2
<1>11. Audited'
  <2> SUFFICES ASSUME NEW q \in Risks
               PROVE  (edited[q] - audits[q] - Cardinality(Auditing(q)) \in 0..deaths)'
    BY DEF Audited
  <2>1. w \notin Auditing(q)
    BY DEF WriteEdit, Auditing
  <2>2. /\ Cardinality(Auditing(q)) \in Nat
        /\ Cardinality(Auditing(q)') =
             IF q = r THEN Cardinality(Auditing(q)) + 1 ELSE Cardinality(Auditing(q))
    BY <1>2, <1>3, <2>1, AuditingCount DEF RegisterInv
  <2>3. edited'[q] = IF q = r THEN edited[q] + 1 ELSE edited[q]
    BY <1>1, <1>3 DEF RegisterInv, RegisterTypeOK
  <2>4. edited[q] \in Nat /\ audits[q] \in Nat /\ audits' = audits /\ deaths' = deaths /\ deaths \in Nat
    BY <1>3 DEF RegisterInv, RegisterTypeOK
  <2>5. edited[q] - audits[q] - Cardinality(Auditing(q)) \in 0..deaths
    BY DEF RegisterInv, Audited
  <2> QED
    BY <2>2, <2>3, <2>4, <2>5
<1> QED
  BY <1>7, <1>8, <1>9, <1>10, <1>11 DEF RegisterInv
-----------------------------------------------------------------------------
LEMMA RegisterInitInv == RegisterInit => RegisterInv
<1> SUFFICES ASSUME RegisterInit
             PROVE  RegisterInv
  OBVIOUS
<1>1. NoCall \in Call /\ NoCall.at = "none"
  BY DEF Call, NoCall
<1>2. RegisterTypeOK
  BY <1>1 DEF RegisterInit, RegisterTypeOK
<1>3. RegisterSound /\ ReadsStand /\ EditsStand /\ ResolvedIsUnseen /\ Occurred
  BY <1>1 DEF RegisterInit, RegisterSound, ReadsStand, EditsStand, ResolvedIsUnseen, Occurred
<1>4. Audited
  <2> SUFFICES ASSUME NEW r \in Risks
               PROVE  edited[r] - audits[r] - Cardinality(Auditing(r)) \in 0..deaths
    BY DEF Audited
  <2>1. Auditing(r) = {}
    BY <1>1 DEF RegisterInit, Auditing
  <2> QED
    BY <2>1, FS_EmptySet DEF RegisterInit
<1> QED
  BY <1>2, <1>3, <1>4 DEF RegisterInv

LEMMA RegisterNextInv == RegisterInv /\ [RegisterNext]_registerVars => RegisterInv'
<1> SUFFICES ASSUME RegisterInv, [RegisterNext]_registerVars
             PROVE  RegisterInv'
  OBVIOUS
<1>1. CASE RegisterNext
  <2> SUFFICES ASSUME NEW w \in Workers,
                      \/ \E findings \in SUBSET Risks : Observe(w, findings)
                      \/ \E r \in Risks, change \in Changes : Edit(w, r, change)
                      \/ RegisterStep(w) \/ Return(w) \/ Die(w)
               PROVE  RegisterInv'
    BY <1>1 DEF RegisterNext
  <2> QED
    BY ObserveKeeps, EditKeeps, SelectKeeps, WriteRiskKeeps, RefuseKeeps, WriteEditKeeps,
       AuditEditKeeps, ReturnKeeps, DieKeeps DEF RegisterStep
<1>2. CASE UNCHANGED registerVars
  BY <1>2 DEF registerVars, RegisterInv, RegisterTypeOK, RegisterSound, Complete, ReadsStand, EditsStand,
              Edited, After, ResolvedIsUnseen, Occurred, Audited, Auditing
<1> QED
  BY <1>1, <1>2

(* The parts of the invariant that say what nobody may see counted wrong.  *)
LEMMA InvCounts == RegisterInv => NothingUncounted
<1> SUFFICES ASSUME RegisterInv, NEW r \in Risks
             PROVE  /\ observed[r] = IF register[r] = Absent THEN 0 ELSE register[r].count
                    /\ edited[r] - audits[r] \in
                         0..deaths + Cardinality({w \in Workers : call[w].at = "audit"})
  BY DEF NothingUncounted
<1> DEFINE all == {w \in Workers : call[w].at = "audit"}
<1>1. IsFiniteSet(all)
  <2>1. all \in SUBSET Workers
    OBVIOUS
  <2> QED
    BY <2>1, FS_Subset, RegisterAssumption
<1>2. Auditing(r) \in SUBSET all
  BY DEF Auditing
<1>3. /\ Cardinality(all) \in Nat /\ Cardinality(Auditing(r)) \in Nat
      /\ Cardinality(Auditing(r)) <= Cardinality(all)
  BY <1>1, <1>2, FS_Subset, FS_CardinalityType
<1>4. edited[r] \in Nat /\ audits[r] \in Nat /\ deaths \in Nat
  BY DEF RegisterInv, RegisterTypeOK
<1>5. edited[r] - audits[r] - Cardinality(Auditing(r)) \in 0..deaths
  BY DEF RegisterInv, Audited
<1> HIDE DEF all
<1>6. edited[r] - audits[r] \in 0..deaths + Cardinality(all)
  BY <1>3, <1>4, <1>5
<1> QED
  BY <1>6 DEF RegisterInv, Occurred, all

LEMMA RegisterInvariant == RegisterSpec => []RegisterInv
<1>1. RegisterInit => RegisterInv
  BY RegisterInitInv
<1>2. RegisterInv /\ [RegisterNext]_registerVars => RegisterInv'
  BY RegisterNextInv
<1> QED
  BY <1>1, <1>2, PTL DEF RegisterSpec

(* The state of the register and of the calls in progress is well typed    *)
(* (the risk_register table, risk_register_engine.py).                     *)
THEOREM RegisterTypeCorrect == RegisterSpec => []RegisterTypeOK
<1>1. RegisterInv => RegisterTypeOK
  BY DEF RegisterInv
<1> QED
  BY <1>1, RegisterInvariant, PTL

(* Every stored risk that is not torn by a stale write has the owner and   *)
(* the rationale its status requires (update, upsert_risk_observation).    *)
THEOREM RegisterStaysSound == RegisterSpec => []RegisterSound
<1>1. RegisterInv => RegisterSound
  BY DEF RegisterInv
<1> QED
  BY <1>1, RegisterInvariant, PTL

(* Whatever the order of the statements, a risk that is observed after it  *)
(* was resolved is not RESOLVED (upsert_risk_observation).                 *)
THEOREM ResolvedStaysUnseen == RegisterSpec => []ResolvedIsUnseen
<1>1. RegisterInv => ResolvedIsUnseen
  BY DEF RegisterInv
<1> QED
  BY <1>1, RegisterInvariant, PTL

(* No observation and no edit goes uncounted: occurrences are added up by  *)
(* the UPDATE itself, and only a death costs an edit its audit event.      *)
THEOREM NothingGoesUncounted == RegisterSpec => []NothingUncounted
BY InvCounts, RegisterInvariant, PTL
-----------------------------------------------------------------------------
(* The batch that a handler is in the middle of, if it is.                 *)
Carried(j) == CASE j.at = "batch" -> {j}
                [] j.at \in {"open", "analyze", "observe"} -> {j.rest} \ {Idle}
                [] OTHER -> {}

(* An entry that was not saved since it was listed is what is stored, and  *)
(* what has begun of it was due by the time of the listing.                *)
BatchSound(w, b) ==
    /\ b.time <= now
    /\ \A e \in b.todo :
          /\ e.record # Absent
          /\ \A o \in b.todo : o.id = e.id => o = e
          /\ b.poll => e.record.next <= b.time
          /\ <<w, e.id>> \notin outdated =>
                /\ schedules[e.id] = e.record
                /\ \A due \in begun[e.id] : due <= b.time
BatchesSound == \A w \in Workers : \A b \in Carried(job[w]) : BatchSound(w, b)

(* A patch that nobody has overtaken changes what it was asked to change.  *)
PatchSound(w, p) ==
    /\ p.enabled # Keep => p.record.enabled = p.enabled
    /\ <<w, p.id>> \notin outdated =>
          /\ p.enabled = Keep => schedules[p.id] # Absent /\ p.record.enabled = schedules[p.id].enabled
          /\ ~p.restart => schedules[p.id] # Absent /\ p.record.next = schedules[p.id].next
PatchesSound == \A w \in Workers : job[w].at = "patch" => PatchSound(w, job[w])

NextNotBegun ==
    \A id \in Schedules \ clobbered : schedules[id] # Absent => schedules[id].next \notin begun[id]
BegunPast == \A id \in Schedules : \A due \in begun[id] : due <= now

JobsTyped == job \in [Workers -> MonitoringJob \cup RegistrationJob] /\ runs \in Seq(RunRecord)

ScheduleTypeOK ==
    /\ schedules \in [Schedules -> Record \cup {Absent}]
    /\ now \in 0..MaxTime
    /\ paused \subseteq Schedules
    /\ begun \in [Schedules -> SUBSET Nat]
    /\ outdated \subseteq Workers \X Schedules /\ clobbered \subseteq Schedules

ScheduleInv ==
    /\ JobsTyped /\ ScheduleTypeOK
    /\ BatchesSound /\ PatchesSound
    /\ PausesStand /\ NextNotBegun /\ BegunPast

(* Each run that is RUNNING has one handler, or had one that died, and     *)
(* there is room for the runs that were begun.                             *)
OnRun(w) == job[w].at \in {"analyze", "observe"}
Opening == {w \in Workers : job[w].at = "open"}
RunsOwned ==
    /\ \A w \in Workers : OnRun(w) =>
          /\ Running(job[w].run) /\ job[w].run \notin orphans
          /\ \A v \in Workers : OnRun(v) /\ job[v].run = job[w].run => v = w
    /\ \A n \in orphans : Running(n)
    /\ \A n \in 1..Len(runs) : Running(n) => Working(n) \/ n \in orphans

(* What a run has found is in the register, or about to be written, or the *)
(* call knows that it failed.                                              *)
Ahead(c, r) == \/ c.at \in {"select", "write"} /\ r \in c.todo
               \/ c.at = "write" /\ r = c.risk
FindingsWritten ==
    /\ \A w \in Workers : job[w].at = "observe" =>
          /\ call[w].at \in {"select", "write", "done"}
          /\ \/ call[w].at = "done" /\ ~call[w].ok
             \/ \A r \in runs[job[w].run].findings : register[r] # Absent \/ Ahead(call[w], r)
    /\ \A n \in 1..Len(runs) :
          runs[n].status = "COMPLETED" /\ runs[n].persistence = "COMPLETE" =>
              \A r \in runs[n].findings : register[r] # Absent

RunInv ==
    /\ JobsTyped
    /\ Len(runs) + Cardinality(Opening) <= MaxRuns
    /\ RunsOwned /\ FindingsWritten

(* Each job that has not ended has one handler, or had one that gave up.   *)
InTask(w) == job[w].at \in {"download", "upload", "fetch", "scan", "observeScan", "saveScan", "end", "fail"}
Open(j) == jobs[j] \in {"PENDING", "RUNNING"}
JobsOwned ==
    /\ \A w \in Workers : InTask(w) =>
          /\ Open(reg(w)) /\ reg(w) \notin abandoned
          /\ \A v \in Workers : InTask(v) /\ reg(v) = reg(w) => v = w
          /\ job[w].at = "end" => models[reg(w)] = "scanned"
    /\ \A j \in abandoned : Open(j)
    /\ \A j \in Jobs : Open(j) => j \in abandoned \/ \E w \in Workers : InTask(w) /\ reg(w) = j
    /\ \A j \in Jobs : jobs[j] = "COMPLETED" => models[j] = "scanned"

JobTypeOK ==
    /\ jobs \in [Jobs -> {"PENDING", "RUNNING", "COMPLETED", "FAILED", Absent}]
    /\ models \in [Jobs -> {"none", "saved", "scanned"}]
    /\ abandoned \subseteq Jobs

JobInv == JobsTyped /\ JobTypeOK /\ requests \in 0..MaxRequests /\ JobsOwned
-----------------------------------------------------------------------------
(* What a handler has in hand where it is.                                 *)
LEMMA JobFields ==
    ASSUME NEW j \in MonitoringJob \cup RegistrationJob
    PROVE  /\ j.at = "idle" <=> j = Idle
           /\ j.at = "batch" => j \in Batch
           /\ j.at = "open" => j.id \in Schedules /\ j.rest \in Batch \cup {Idle}
           /\ j.at \in {"analyze", "observe"} => j.run \in Nat /\ j.rest \in Batch \cup {Idle}
           /\ j.at = "patch" => /\ j.id \in Schedules /\ j.record \in Record
                                /\ j.enabled \in BOOLEAN \cup {Keep} /\ j.restart \in BOOLEAN
           /\ j.at \in {"download", "upload", "fetch", "scan", "observeScan", "saveScan", "end", "fail"} =>
                 j \in RegistrationJob /\ j.reg \in Jobs
           /\ j.at \in {"idle", "batch", "open", "analyze", "observe", "patch",
                        "download", "upload", "fetch", "scan", "observeScan", "saveScan", "end", "fail"}
           /\ "reg" \in DOMAIN j <=>
                 j.at \in {"download", "upload", "fetch", "scan", "observeScan", "saveScan", "end", "fail"}
<1>1. CASE j = Idle
  BY <1>1 DEF Idle
<1>2. CASE j \in Batch
  BY <1>2 DEF Batch, Idle
<1>3. CASE j \in [at : {"open"}, id : Schedules, rest : Batch \cup {Idle}]
  BY <1>3 DEF Idle
<1>4. CASE j \in [at : {"analyze", "observe"}, run : Nat, rest : Batch \cup {Idle}]
  BY <1>4 DEF Idle
<1>5. CASE j \in [at : {"patch"}, id : Schedules, record : Record, enabled : BOOLEAN \cup {Keep},
                  restart : BOOLEAN]
  BY <1>5 DEF Idle
<1>6. CASE j \in RegistrationJob
  BY <1>6 DEF RegistrationJob, Idle
<1> QED
  BY <1>1, <1>2, <1>3, <1>4, <1>5, <1>6 DEF MonitoringJob

LEMMA CarriedBatch ==
    ASSUME NEW j \in MonitoringJob \cup RegistrationJob
    PROVE  /\ Carried(j) \subseteq Batch
           /\ j.at = "batch" => Carried(j) = {j}
           /\ j.at \in {"open", "analyze", "observe"} => Carried(j) = {j.rest} \ {Idle}
           /\ j.at \notin {"batch", "open", "analyze", "observe"} => Carried(j) = {}
BY JobFields DEF Carried

(* What an assignment to one element of a sequence leaves.                 *)
LEMMA SeqPatched ==
    ASSUME NEW S, NEW s \in Seq(S), NEW n, NEW e, n \in 1..Len(s) => e \in S
    PROVE  /\ [s EXCEPT ![n] = e] \in Seq(S)
           /\ Len([s EXCEPT ![n] = e]) = Len(s)
           /\ \A i \in 1..Len(s) : [s EXCEPT ![n] = e][i] = IF i = n THEN e ELSE s[i]
<1>1. CASE n \in 1..Len(s)
  BY <1>1, ExceptSeq
<1>2. CASE n \notin 1..Len(s)
  <2>1. s = [i \in 1..Len(s) |-> s[i]]
    OBVIOUS
  <2>2. [s EXCEPT ![n] = e] = s
    BY <1>2, <2>1
  <2> QED
    BY <1>2, <2>2
<1> QED
  BY <1>1, <1>2

(* A run changes where it is, if it is there, and stays a run.             *)
Patched(s, n, t) ==
    t \in Seq(RunRecord) /\ Len(t) = Len(s) /\ \A i \in 1..Len(s) \ {n} : t[i] = s[i]

LEMMA RunsPatched ==
    ASSUME NEW s \in Seq(RunRecord), NEW n, NEW st \in {"RUNNING", "COMPLETED", "FAILED"}
    PROVE  /\ Patched(s, n, [s EXCEPT ![n].status = st])
           /\ \A p \in {"COMPLETE", "DEGRADED"} :
                 Patched(s, n, [s EXCEPT ![n].status = st, ![n].persistence = p])
           /\ \A F \in SUBSET Risks : Patched(s, n, [s EXCEPT ![n].findings = F])
<1>1. n \in 1..Len(s) => s[n] \in RunRecord
  OBVIOUS
<1>2. Patched(s, n, [s EXCEPT ![n].status = st])
  <2>1. n \in 1..Len(s) => [s[n] EXCEPT !.status = st] \in RunRecord
    BY <1>1 DEF RunRecord
  <2> QED
    BY <2>1, SeqPatched DEF Patched
<1>3. ASSUME NEW p \in {"COMPLETE", "DEGRADED"}
      PROVE  Patched(s, n, [s EXCEPT ![n].status = st, ![n].persistence = p])
  <2> DEFINE e == [s[n] EXCEPT !.status = st, !.persistence = p]
             t == [s EXCEPT ![n].status = st, ![n].persistence = p]
  <2>1. n \in 1..Len(s) => e \in RunRecord
    BY <1>1 DEF RunRecord
  <2>2. t = [s EXCEPT ![n] = e]
    OBVIOUS
  <2> HIDE DEF e
  <2>3. Patched(s, n, [s EXCEPT ![n] = e])
    BY <2>1, SeqPatched DEF Patched
  <2> QED
    BY <2>2, <2>3
<1>4. ASSUME NEW F \in SUBSET Risks
      PROVE  Patched(s, n, [s EXCEPT ![n].findings = F])
  <2>1. n \in 1..Len(s) => [s[n] EXCEPT !.findings = F] \in RunRecord
    BY <1>1 DEF RunRecord
  <2> QED
    BY <2>1, SeqPatched DEF Patched
<1> QED
  BY <1>2, <1>3, <1>4

(* A step that saves no schedule.                                          *)
LEMMA WorkerKeeps ==
    ASSUME ScheduleInv, NEW w \in Workers, NEW next \in MonitoringJob \cup RegistrationJob,
           Goto(w, next), UNCHANGED <<schedules, paused, begun, clobbered, now>>,
           runs' \in Seq(RunRecord),
           \/ outdated' = outdated
           \/ outdated' = {p \in outdated : p[1] # w} /\ next = Idle,
           \A b \in Carried(next) : BatchSound(w, b),
           next.at = "patch" => PatchSound(w, next)
    PROVE  ScheduleInv'
<1>1. job' \in [Workers -> MonitoringJob \cup RegistrationJob]
  BY DEF Goto, ScheduleInv, JobsTyped
<1>2. \A v \in Workers : job'[v] = IF v = w THEN next ELSE job[v]
  BY DEF Goto, ScheduleInv, JobsTyped
<1>3. \A v \in Workers, id \in Schedules :
         v # w \/ next # Idle => (<<v, id>> \in outdated' <=> <<v, id>> \in outdated)
  OBVIOUS
<1>4. Carried(Idle) = {} /\ Idle.at = "idle"
  BY DEF Carried, Idle
<1>5. ScheduleTypeOK'
  BY DEF ScheduleInv, ScheduleTypeOK
<1>6. PausesStand' /\ NextNotBegun' /\ BegunPast'
  BY DEF ScheduleInv, PausesStand, NextNotBegun, BegunPast
<1>7. BatchesSound'
  <2> SUFFICES ASSUME NEW v \in Workers, NEW b \in Carried(job'[v])
               PROVE  BatchSound(v, b)'
    BY DEF BatchesSound
  <2>1. b \in Carried(IF v = w THEN next ELSE job[v])
    BY <1>2
  <2>2. BatchSound(v, b) /\ (v # w \/ next # Idle)
    BY <1>4, <2>1 DEF ScheduleInv, BatchesSound
  <2>3. b \in Batch
    BY <1>1, <2>1, CarriedBatch DEF ScheduleInv, JobsTyped
  <2> QED
    BY <1>3, <2>2, <2>3 DEF BatchSound, Batch, Entry
<1>8. PatchesSound'
  <2> SUFFICES ASSUME NEW v \in Workers, job'[v].at = "patch"
               PROVE  PatchSound(v, job[v])'
    BY DEF PatchesSound
  <2>1. job'[v].id \in Schedules
    BY <1>1, JobFields
  <2>2. CASE v = w
    BY <1>2, <1>3, <1>4, <2>1, <2>2 DEF PatchSound
  <2>3. CASE v # w
    BY <1>2, <1>3, <2>1, <2>3 DEF PatchSound, ScheduleInv, PatchesSound
  <2> QED
    BY <2>2, <2>3
<1> QED
  BY <1>1, <1>5, <1>6, <1>7, <1>8 DEF ScheduleInv, JobsTyped

(* A step of the handler w that saves schedule id, of which it then holds  *)
(* nothing any more.                                                       *)
LEMMA SaveKeeps ==
    ASSUME ScheduleInv, NEW w \in Workers, NEW id \in Schedules, NEW record \in Record,
           NEW next \in MonitoringJob \cup RegistrationJob,
           SaveSchedule(w, id, record), Goto(w, next), UNCHANGED <<now, runs>>,
           next.at # "patch",
           \A b \in Carried(next) : BatchSound(w, b) /\ \A e \in b.todo : e.id # id,
           clobbered' = IF <<w, id>> \in outdated THEN clobbered \cup {id} ELSE clobbered,
           begun' \in [Schedules -> SUBSET Nat],
           \A o \in Schedules \ {id} : begun'[o] = begun[o],
           \A due \in begun'[id] : due <= now,
           paused' \subseteq Schedules,
           \A o \in Schedules \ {id} : o \in paused' <=> o \in paused,
           <<w, id>> \notin outdated /\ id \notin clobbered =>
              (id \in paused' => ~record.enabled) /\ record.next \notin begun'[id]
    PROVE  ScheduleInv'
<1>1. job' \in [Workers -> MonitoringJob \cup RegistrationJob]
  BY DEF Goto, ScheduleInv, JobsTyped
<1>2. \A v \in Workers : job'[v] = IF v = w THEN next ELSE job[v]
  BY DEF Goto, ScheduleInv, JobsTyped
<1>3. /\ schedules' \in [Schedules -> Record \cup {Absent}]
      /\ \A o \in Schedules : schedules'[o] = IF o = id THEN record ELSE schedules[o]
  BY DEF SaveSchedule, ScheduleInv, ScheduleTypeOK
<1>4. \A v \in Workers, o \in Schedules :
         o # id => (<<v, o>> \in outdated' <=> <<v, o>> \in outdated)
  BY DEF SaveSchedule
<1>5. \A v \in Workers \ {w} : Holds(v, id) => <<v, id>> \in outdated'
  BY DEF SaveSchedule
<1>6. ScheduleTypeOK'
  <2>1. outdated' \subseteq Workers \X Schedules
    BY DEF SaveSchedule, ScheduleInv, ScheduleTypeOK
  <2> QED
    BY <1>3, <2>1 DEF ScheduleInv, ScheduleTypeOK
<1>7. PausesStand' /\ NextNotBegun' /\ BegunPast'
  <2>1. PausesStand'
    BY <1>3 DEF ScheduleInv, PausesStand
  <2>2. NextNotBegun'
    BY <1>3 DEF ScheduleInv, NextNotBegun
  <2>3. BegunPast'
    BY DEF ScheduleInv, BegunPast
  <2> QED
    BY <2>1, <2>2, <2>3
<1>8. BatchesSound'
  <2> SUFFICES ASSUME NEW v \in Workers, NEW b \in Carried(job'[v])
               PROVE  BatchSound(v, b)'
    BY DEF BatchesSound
  <2>1. b \in Carried(IF v = w THEN next ELSE job[v])
    BY <1>2
  <2>2. BatchSound(v, b)
    BY <2>1 DEF ScheduleInv, BatchesSound
  <2>3. b \in Batch
    BY <1>1, <2>1, CarriedBatch DEF ScheduleInv, JobsTyped
  <2>4. \A e \in b.todo : e.id = id => <<v, id>> \in outdated'
    <3>1. CASE v = w
      BY <2>1, <3>1
    <3>2. CASE v # w
      <4>1. b \in Carried(job[v]) /\ job[v] \in MonitoringJob \cup RegistrationJob
        BY <2>1, <3>2 DEF ScheduleInv, JobsTyped
      <4>2. \/ job[v].at = "batch" /\ b = job[v]
            \/ job[v].at \in {"open", "analyze", "observe"} /\ job[v].rest # Idle /\ b = job[v].rest
        BY <4>1, CarriedBatch
      <4> QED
        BY <1>5, <3>2, <4>2 DEF Holds
    <3> QED
      BY <3>1, <3>2
  <2> QED
    BY <1>3, <1>4, <2>2, <2>3, <2>4 DEF BatchSound, Batch, Entry
<1>9. PatchesSound'
  <2> SUFFICES ASSUME NEW v \in Workers, job'[v].at = "patch"
               PROVE  PatchSound(v, job[v])'
    BY DEF PatchesSound
  <2>1. job'[v].id \in Schedules
    BY <1>1, JobFields
  <2>2. v # w /\ job'[v] = job[v]
    BY <1>2
  <2>3. PatchSound(v, job[v])
    BY <2>2 DEF ScheduleInv, PatchesSound
  <2>4. job[v].id = id => <<v, id>> \in outdated'
    BY <1>5, <2>2 DEF Holds
  <2> QED
    BY <1>3, <1>4, <2>1, <2>2, <2>3, <2>4 DEF PatchSound
<1> QED
  BY <1>1, <1>6, <1>7, <1>8, <1>9 DEF ScheduleInv, JobsTyped

LEMMA TickKeepsSchedules == ASSUME ScheduleInv, Tick PROVE ScheduleInv'
<1>1. now \in Nat /\ now' = now + 1 /\ now' \in 0..MaxTime
  BY MonitoringAssumption DEF Tick, ScheduleInv, ScheduleTypeOK
<1>2. JobsTyped' /\ ScheduleTypeOK' /\ PausesStand' /\ NextNotBegun'
  BY <1>1 DEF Tick, scheduleVars, ScheduleInv, JobsTyped, ScheduleTypeOK, PausesStand, NextNotBegun
<1>3. BegunPast'
  BY <1>1 DEF Tick, scheduleVars, ScheduleInv, ScheduleTypeOK, BegunPast
<1>4. BatchesSound'
  <2> SUFFICES ASSUME NEW v \in Workers, NEW b \in Carried(job[v])
               PROVE  BatchSound(v, b)'
    BY DEF BatchesSound, Tick
  <2>1. BatchSound(v, b) /\ b \in Batch
    BY CarriedBatch DEF ScheduleInv, BatchesSound, JobsTyped
  <2> QED
    BY <1>1, <2>1 DEF BatchSound, Batch, Tick, scheduleVars
<1>5. PatchesSound'
  BY DEF Tick, scheduleVars, ScheduleInv, PatchesSound, PatchSound
<1> QED
  BY <1>2, <1>3, <1>4, <1>5 DEF ScheduleInv

LEMMA RequestsKeepSchedules ==
    ASSUME ScheduleInv, NEW w \in Workers, MonitoringRequest(w)
    PROVE  ScheduleInv'
<1>1. /\ JobsTyped /\ runs \in Seq(RunRecord)
      /\ schedules \in [Schedules -> Record \cup {Absent}] /\ now \in Nat
  BY MonitoringAssumption DEF ScheduleInv, JobsTyped, ScheduleTypeOK
<1>2. UNCHANGED <<schedules, paused, begun, outdated, clobbered, now, runs>>
  BY DEF MonitoringRequest, Create, Patch, RunNow, RunDue, scheduleVars
<1>3. ASSUME NEW id \in Schedules, Create(w, id)
      PROVE  ScheduleInv'
  <2>1. PICK enabled \in BOOLEAN :
           Goto(w, [at |-> "patch", id |-> id, record |-> [enabled |-> enabled, next |-> now],
                    enabled |-> enabled, restart |-> TRUE])
    BY <1>3 DEF Create
  <2> DEFINE next == [at |-> "patch", id |-> id, record |-> [enabled |-> enabled, next |-> now],
                      enabled |-> enabled, restart |-> TRUE]
  <2>2. next \in MonitoringJob
    BY <1>1 DEF MonitoringJob, Record
  <2>3. PatchSound(w, next)
    BY MonitoringAssumption DEF PatchSound
  <2>4. next.at = "patch"
    OBVIOUS
  <2> HIDE DEF next
  <2> QED
    BY <1>1, <1>2, <2>1, <2>2, <2>3, <2>4, CarriedBatch, WorkerKeeps DEF next
<1>4. ASSUME NEW id \in Schedules, NEW enabled \in BOOLEAN \cup {Keep}, NEW restart \in BOOLEAN,
             Patch(w, id, enabled, restart)
      PROVE  ScheduleInv'
  <2> DEFINE next == [at |-> "patch", id |-> id, enabled |-> enabled, restart |-> restart,
                record |-> [enabled |-> IF enabled = Keep THEN schedules[id].enabled ELSE enabled,
                            next |-> IF restart THEN now ELSE schedules[id].next]]
  <2>1. schedules[id] # Absent /\ schedules[id] \in Record /\ Goto(w, next)
    BY <1>1, <1>4 DEF Patch
  <2>2. next \in MonitoringJob
    BY <1>1, <2>1 DEF MonitoringJob, Record
  <2>3. PatchSound(w, next)
    BY <2>1 DEF PatchSound
  <2>4. next.at = "patch"
    OBVIOUS
  <2> HIDE DEF next
  <2> QED
    BY <1>1, <1>2, <2>1, <2>2, <2>3, <2>4, CarriedBatch, WorkerKeeps
<1>5. ASSUME NEW ids \in SUBSET Schedules, \A id \in ids : schedules[id] # Absent,
             NEW poll \in BOOLEAN, poll => \A id \in ids : schedules[id].next <= now,
             Goto(w, [at |-> "batch", todo |-> Listing(ids), time |-> now, poll |-> poll])
      PROVE  ScheduleInv'
  <2> DEFINE next == [at |-> "batch", todo |-> Listing(ids), time |-> now, poll |-> poll]
  <2>1. \A e \in Listing(ids) : e.id \in ids /\ e.record = schedules[e.id] /\ e \in Entry
    BY <1>1, <1>5 DEF Listing, Entry
  <2>2. \A e, o \in Listing(ids) : o.id = e.id => o = e
    BY DEF Listing
  <2>3. next \in MonitoringJob
    BY <1>1, <2>1 DEF MonitoringJob, Batch
  <2>4. BatchSound(w, next)
    BY <1>1, <1>5, <2>1, <2>2 DEF BatchSound, ScheduleInv, BegunPast
  <2>5. Carried(next) = {next} /\ next.at = "batch"
    BY DEF Carried
  <2> HIDE DEF next
  <2> QED
    BY <1>1, <1>2, <1>5, <2>3, <2>4, <2>5, WorkerKeeps DEF next
<1>6. CASE RunDue(w)
  <2>1. PICK ids \in SUBSET {id \in Schedules : IsDue(id)} :
           Goto(w, [at |-> "batch", todo |-> Listing(ids), time |-> now, poll |-> TRUE])
    BY <1>6 DEF RunDue
  <2> QED
    BY <1>5, <2>1 DEF IsDue
<1>7. ASSUME NEW id \in Schedules, RunNow(w, id)
      PROVE  ScheduleInv'
  BY <1>5, <1>7 DEF RunNow
<1> QED
  BY <1>3, <1>4, <1>6, <1>7 DEF MonitoringRequest

LEMMA SavePatchKeepsSchedules ==
    ASSUME ScheduleInv, NEW w \in Workers, SavePatch(w)
    PROVE  ScheduleInv'
<1> DEFINE p == job[w]
<1>1. /\ p.id \in Schedules /\ p.record \in Record
      /\ p.enabled \in BOOLEAN \cup {Keep} /\ p.restart \in BOOLEAN
  BY JobFields DEF SavePatch, ScheduleInv, JobsTyped
<1>2. PatchSound(w, p)
  BY DEF SavePatch, ScheduleInv, PatchesSound
<1>3. /\ schedules \in [Schedules -> Record \cup {Absent}] /\ paused \subseteq Schedules
      /\ begun \in [Schedules -> SUBSET Nat] /\ BegunPast /\ PausesStand /\ NextNotBegun
  BY DEF ScheduleInv, ScheduleTypeOK
<1>4. /\ paused' \subseteq Schedules
      /\ \A o \in Schedules \ {p.id} : o \in paused' <=> o \in paused
      /\ p.enabled = Keep /\ p.id \in paused' => p.id \in paused
      /\ p.enabled # Keep /\ p.id \in paused' => p.enabled = FALSE
  <2>1. CASE p.enabled = Keep
    BY <1>3, <2>1, MonitoringAssumption DEF SavePatch
  <2>2. CASE p.enabled = TRUE
    BY <1>3, <2>2, MonitoringAssumption DEF SavePatch
  <2>3. CASE p.enabled = FALSE
    BY <1>1, <1>3, <2>3, MonitoringAssumption DEF SavePatch
  <2> QED
    BY <1>1, <2>1, <2>2, <2>3
<1>5. /\ begun' \in [Schedules -> SUBSET Nat]
      /\ \A o \in Schedules \ {p.id} : begun'[o] = begun[o]
      /\ begun'[p.id] = IF p.restart THEN {} ELSE begun[p.id]
  BY <1>1, <1>3 DEF SavePatch
<1>6. ASSUME <<w, p.id>> \notin outdated /\ p.id \notin clobbered
      PROVE  (p.id \in paused' => ~p.record.enabled) /\ p.record.next \notin begun'[p.id]
  <2>1. p.id \in paused' => ~p.record.enabled
    BY <1>1, <1>2, <1>3, <1>4, <1>6 DEF PatchSound, PausesStand
  <2>2. p.record.next \notin begun'[p.id]
    BY <1>1, <1>2, <1>3, <1>5, <1>6 DEF PatchSound, NextNotBegun
  <2> QED
    BY <2>1, <2>2
<1>7. Idle \in MonitoringJob /\ Idle.at # "patch" /\ Carried(Idle) = {}
  BY DEF MonitoringJob, Idle, Carried
<1>8. \A due \in begun'[p.id] : due <= now
  BY <1>1, <1>3, <1>5 DEF BegunPast
<1>9. /\ SaveSchedule(w, p.id, p.record) /\ Goto(w, Idle) /\ UNCHANGED <<now, runs>>
      /\ clobbered' = IF <<w, p.id>> \in outdated THEN clobbered \cup {p.id} ELSE clobbered
  BY DEF SavePatch
<1> HIDE DEF p
<1> QED
  BY <1>1, <1>4, <1>5, <1>6, <1>7, <1>8, <1>9, SaveKeeps

LEMMA BeginRunKeepsSchedules ==
    ASSUME ScheduleInv, NEW w \in Workers, BeginRun(w)
    PROVE  ScheduleInv'
<1> DEFINE b == job[w]
<1>1. b \in Batch /\ BatchSound(w, b)
  BY JobFields, CarriedBatch DEF BeginRun, ScheduleInv, JobsTyped, BatchesSound
<1> DEFINE left(e) == [b EXCEPT !.todo = @ \ {e}]
           next(e) == [at |-> "open", id |-> e.id, rest |-> IF b.todo = {e} THEN Idle ELSE left(e)]
<1>2. PICK e \in b.todo :
         /\ SaveSchedule(w, e.id, Advanced(e.record, b.time))
         /\ clobbered' = IF <<w, e.id>> \in outdated THEN clobbered \cup {e.id} ELSE clobbered
         /\ begun' = IF b.poll THEN [begun EXCEPT ![e.id] = @ \cup {e.record.next}] ELSE begun
         /\ Goto(w, next(e))
  BY Zenon DEF BeginRun
<1>3. /\ b.todo \subseteq Entry /\ b.time \in Nat /\ b.poll \in BOOLEAN
      /\ e.id \in Schedules /\ e.record \in Record /\ e.record.next \in Nat
  BY <1>1 DEF Batch, Entry, Record
<1> DEFINE record == Advanced(e.record, b.time)
<1>4. /\ record \in Record /\ record.next = b.time + Interval
      /\ record.enabled = e.record.enabled /\ record.next \in Nat
  BY <1>3, MonitoringAssumption DEF Advanced, Record
<1>5. /\ schedules \in [Schedules -> Record \cup {Absent}] /\ paused \subseteq Schedules
      /\ begun \in [Schedules -> SUBSET Nat] /\ BegunPast /\ PausesStand /\ now \in Nat
  BY MonitoringAssumption DEF ScheduleInv, ScheduleTypeOK
<1>6. /\ begun' \in [Schedules -> SUBSET Nat]
      /\ \A o \in Schedules \ {e.id} : begun'[o] = begun[o]
      /\ begun'[e.id] = IF b.poll THEN begun[e.id] \cup {e.record.next} ELSE begun[e.id]
  BY <1>2, <1>3, <1>5
<1>7. UNCHANGED <<paused, now, runs>>
  BY DEF BeginRun
<1>8. \A due \in begun'[e.id] : due <= now
  <2>1. \A due \in begun[e.id] : due <= now
    BY <1>3, <1>5 DEF BegunPast
  <2>2. b.poll => e.record.next <= b.time /\ b.time <= now
    BY <1>1 DEF BatchSound
  <2>3. b.poll => e.record.next <= now
    BY <1>3, <1>5, <2>2
  <2> QED
    BY <1>6, <2>1, <2>3
<1>9. ASSUME <<w, e.id>> \notin outdated /\ e.id \notin clobbered
      PROVE  (e.id \in paused' => ~record.enabled) /\ record.next \notin begun'[e.id]
  <2>1. schedules[e.id] = e.record /\ e.record # Absent /\ \A due \in begun[e.id] : due <= b.time
    BY <1>1, <1>9 DEF BatchSound
  <2>2. e.id \in paused' => ~record.enabled
    BY <1>3, <1>4, <1>5, <1>9, <1>7, <2>1 DEF PausesStand
  <2>3. \A due \in begun'[e.id] : due <= b.time /\ due \in Nat
    BY <1>1, <1>3, <1>5, <1>6, <2>1 DEF BatchSound
  <2>4. record.next \notin begun'[e.id]
    BY <1>3, <1>4, <2>3, MonitoringAssumption
  <2> QED
    BY <2>2, <2>4
<1>10. left(e) \in Batch /\ left(e).todo = b.todo \ {e} /\ left(e).time = b.time /\ left(e).poll = b.poll
  BY <1>1 DEF Batch
<1>11. /\ next(e) \in MonitoringJob /\ next(e).at = "open"
       /\ Carried(next(e)) \subseteq {left(e)}
  BY <1>3, <1>10 DEF MonitoringJob, Carried
<1>12. BatchSound(w, left(e)) /\ \A o \in left(e).todo : o.id # e.id
  BY <1>1, <1>10 DEF BatchSound
<1> HIDE DEF next, left, record
<1> QED
  BY <1>2, <1>3, <1>4, <1>5, <1>6, <1>7, <1>8, <1>9, <1>11, <1>12, SaveKeeps DEF record

(* A handler that goes on with the batch it carries, or ends it.           *)
LEMMA CarriesOn ==
    ASSUME ScheduleInv, NEW w \in Workers, NEW next \in MonitoringJob \cup RegistrationJob,
           Goto(w, next), UNCHANGED <<scheduleVars, now>>, runs' \in Seq(RunRecord),
           Carried(next) \subseteq Carried(job[w]), next.at # "patch"
    PROVE  ScheduleInv'
<1>1. \A b \in Carried(next) : BatchSound(w, b)
  BY DEF ScheduleInv, BatchesSound
<1>2. UNCHANGED <<schedules, paused, begun, outdated, clobbered, now>>
  BY DEF scheduleVars
<1> QED
  BY <1>1, <1>2, WorkerKeeps

LEMMA RunsKeepSchedules ==
    ASSUME ScheduleInv, NEW w \in Workers, OpenRun(w) \/ Analyze(w) \/ CloseRun(w) \/ FailRun(w)
    PROVE  ScheduleInv'
<1>1. job[w] \in MonitoringJob \cup RegistrationJob /\ runs \in Seq(RunRecord)
  BY DEF ScheduleInv, JobsTyped
<1>2. UNCHANGED <<scheduleVars, now>>
  BY DEF OpenRun, Analyze, CloseRun, FailRun
<1>3. CASE OpenRun(w)
  <2> DEFINE run == [schedule |-> job[w].id, status |-> "RUNNING",
                     persistence |-> "COMPLETE", findings |-> {}]
             next == [at |-> "analyze", run |-> Len(runs) + 1, rest |-> job[w].rest]
  <2>1. job[w].id \in Schedules /\ job[w].rest \in Batch \cup {Idle} /\ job[w].at = "open"
    BY <1>1, <1>3, JobFields DEF OpenRun
  <2>2. run \in RunRecord
    BY <2>1 DEF RunRecord
  <2>3. runs' \in Seq(RunRecord)
    BY <1>1, <1>3, <2>2 DEF OpenRun
  <2>4. next \in MonitoringJob /\ next.at = "analyze" /\ next.rest = job[w].rest
    BY <1>1, <2>1 DEF MonitoringJob
  <2>5. Carried(next) = Carried(job[w])
    BY <2>1, <2>4 DEF Carried
  <2>6. Goto(w, next)
    BY <1>3 DEF OpenRun
  <2> HIDE DEF next
  <2> QED
    BY <1>2, <2>3, <2>4, <2>5, <2>6, CarriesOn
<1>4. CASE Analyze(w)
  <2> DEFINE next == [job[w] EXCEPT !.at = "observe"]
  <2>1. /\ job[w].run \in Nat /\ job[w].rest \in Batch \cup {Idle} /\ job[w].at = "analyze"
        /\ job[w] \in [at : {"analyze", "observe"}, run : Nat, rest : Batch \cup {Idle}]
    BY <1>1, <1>4, JobFields DEF Analyze, MonitoringJob, RegistrationJob, Batch, Idle
  <2>2. next \in MonitoringJob /\ next.at = "observe" /\ next.rest = job[w].rest
    BY <2>1 DEF MonitoringJob
  <2>3. Carried(next) = Carried(job[w])
    BY <2>1, <2>2 DEF Carried
  <2>4. runs' \in Seq(RunRecord)
    <3>1. PICK findings \in SUBSET Risks : runs' = [runs EXCEPT ![job[w].run].findings = findings]
      BY <1>4 DEF Analyze
    <3> QED
      BY <1>1, <3>1, RunsPatched DEF Patched
  <2>5. Goto(w, next)
    BY <1>4 DEF Analyze
  <2> HIDE DEF next
  <2> QED
    BY <1>2, <2>2, <2>3, <2>4, <2>5, CarriesOn
<1>5. CASE CloseRun(w) \/ FailRun(w)
  <2>1. job[w].at \in {"analyze", "observe"} /\ Goto(w, job[w].rest)
    BY <1>5 DEF CloseRun, FailRun
  <2>2. job[w].rest \in Batch \cup {Idle}
    BY <1>1, <2>1, JobFields
  <2>3. job[w].rest \in MonitoringJob /\ job[w].rest.at \in {"batch", "idle"}
    BY <2>2 DEF MonitoringJob, Batch, Idle
  <2>4. Carried(job[w].rest) \subseteq Carried(job[w])
    BY <2>1, <2>2 DEF Carried, Batch, Idle
  <2>5. runs' \in Seq(RunRecord)
    <3>1. CASE CloseRun(w)
      <4>1. Persistence(call[w].ok) \in {"COMPLETE", "DEGRADED"}
        BY DEF Persistence
      <4>2. runs' = [runs EXCEPT ![job[w].run].status = "COMPLETED",
                                 ![job[w].run].persistence = Persistence(call[w].ok)]
        BY <3>1 DEF CloseRun
      <4> QED
        BY <1>1, <4>1, <4>2, RunsPatched DEF Patched
    <3>2. CASE FailRun(w)
      <4>1. runs' = [runs EXCEPT ![job[w].run].status = "FAILED"]
        BY <3>2 DEF FailRun
      <4> QED
        BY <1>1, <4>1, RunsPatched DEF Patched
    <3> QED
      BY <1>5, <3>1, <3>2
  <2> QED
    BY <1>2, <2>1, <2>3, <2>4, <2>5, CarriesOn
<1> QED
  BY <1>3, <1>4, <1>5

LEMMA JobsKeepSchedules ==
    ASSUME ScheduleInv, NEW w \in Workers, JobStep(w) \/ \E j \in Jobs : Register(w, j)
    PROVE  ScheduleInv'
<1>1. job[w] \in MonitoringJob \cup RegistrationJob /\ runs \in Seq(RunRecord)
  BY DEF ScheduleInv, JobsTyped
<1>2. UNCHANGED <<scheduleVars, runs, now>>
  BY DEF JobStep, Register, Start, LoseError, Raise, SaveModel, Scan, Observed, SaveScan, EndJob, others
<1>3. PICK next \in RegistrationJob \cup {Idle} : Goto(w, next)
  <2>1. CASE \E j \in Jobs : Register(w, j)
    BY <2>1 DEF Register, RegistrationJob
  <2>2. CASE LoseError(w) \/ EndJob(w)
    BY <2>2 DEF LoseError, EndJob
  <2>3. CASE Start(w) \/ Raise(w) \/ SaveModel(w) \/ Scan(w) \/ Observed(w) \/ SaveScan(w)
    <3>1. reg(w) \in Jobs
      BY <1>1, <2>3, JobFields DEF Start, Raise, SaveModel, Scan, Observed, SaveScan, At, reg
    <3>2. \E place \in {"fetch", "fail", "scan", "observeScan", "saveScan", "end"} : Proceed(w, place)
      BY <2>3 DEF Start, Raise, SaveModel, Scan, Observed, SaveScan
    <3> QED
      BY <3>1, <3>2 DEF Proceed, RegistrationJob
  <2> QED
    BY <2>1, <2>2, <2>3 DEF JobStep
<1>4. next \in MonitoringJob \cup RegistrationJob /\ next.at # "patch" /\ Carried(next) = {}
  BY DEF MonitoringJob, RegistrationJob, Idle, Carried
<1> QED
  BY <1>1, <1>2, <1>3, <1>4, CarriesOn

LEMMA CrashKeepsSchedules ==
    ASSUME ScheduleInv, NEW w \in Workers, CrashRun(w) \/ CrashJob(w)
    PROVE  ScheduleInv'
<1>1. Idle \in MonitoringJob /\ Idle.at # "patch" /\ Carried(Idle) = {}
  BY DEF MonitoringJob, Idle, Carried
<1>2. UNCHANGED <<schedules, paused, begun, clobbered, now, runs>> /\ runs \in Seq(RunRecord)
  BY DEF CrashRun, CrashJob, others, scheduleVars, ScheduleInv, JobsTyped
<1>3. Goto(w, Idle) /\ (outdated' = outdated \/ outdated' = {p \in outdated : p[1] # w})
  BY DEF CrashRun, CrashJob, others, scheduleVars
<1> QED
  BY <1>1, <1>2, <1>3, WorkerKeeps

LEMMA SchedulesStay == ASSUME ScheduleInv, UNCHANGED monitoringVars PROVE ScheduleInv'
BY DEF monitoringVars, scheduleVars, ScheduleInv, JobsTyped, ScheduleTypeOK, BatchesSound, BatchSound,
       PatchesSound, PatchSound, PausesStand, NextNotBegun, BegunPast

LEMMA StepKeepsSchedules == ScheduleInv /\ [Next]_vars => ScheduleInv'
<1> SUFFICES ASSUME ScheduleInv, [Next]_vars
             PROVE  ScheduleInv'
  OBVIOUS
<1>1. CASE UNCHANGED vars
  BY <1>1, SchedulesStay DEF vars
<1>2. CASE Tick
  BY <1>2, TickKeepsSchedules
<1>3. ASSUME NEW w \in Workers, Request(w)
      PROVE  ScheduleInv'
  <2>1. CASE \E r \in Risks, change \in Changes : EditRisk(w, r, change)
    BY <2>1, SchedulesStay DEF EditRisk
  <2> QED
    BY <1>3, <2>1, RequestsKeepSchedules, JobsKeepSchedules DEF Request
<1>4. ASSUME NEW w \in Workers, Work(w)
      PROVE  ScheduleInv'
  BY <1>4, SchedulesStay, SavePatchKeepsSchedules, BeginRunKeepsSchedules, RunsKeepSchedules,
     JobsKeepSchedules DEF Work, MonitoringStep
<1>5. ASSUME NEW w \in Workers, Crash(w)
      PROVE  ScheduleInv'
  BY <1>5, SchedulesStay, CrashKeepsSchedules DEF Crash
<1> QED
  BY <1>1, <1>2, <1>3, <1>4, <1>5 DEF Next, Unasked

LEMMA InitScheduleInv == Init => ScheduleInv
<1> SUFFICES ASSUME Init
             PROVE  ScheduleInv
  OBVIOUS
<1>1. \A w \in Workers : job[w] = Idle
  BY DEF Init, MonitoringInit
<1>2. Idle \in MonitoringJob /\ Idle.at = "idle" /\ Carried(Idle) = {}
  BY DEF MonitoringJob, Idle, Carried
<1>3. JobsTyped
  BY <1>2 DEF Init, MonitoringInit, JobsTyped
<1>4. ScheduleTypeOK
  <2>1. [enabled |-> TRUE, next |-> 0] \in Record
    BY DEF Record
  <2>2. {Absent, [enabled |-> TRUE, next |-> 0]} \subseteq Record \cup {Absent}
    BY <2>1
  <2>3. schedules \in [Schedules -> Record \cup {Absent}]
    BY <2>2 DEF Init, MonitoringInit
  <2>4. now \in 0..MaxTime
    BY MonitoringAssumption DEF Init, MonitoringInit
  <2>5. begun \in [Schedules -> SUBSET Nat]
    BY DEF Init, MonitoringInit
  <2> QED
    BY <2>3, <2>4, <2>5 DEF Init, MonitoringInit, ScheduleTypeOK
<1>5. BatchesSound /\ PatchesSound
  BY <1>1, <1>2 DEF BatchesSound, PatchesSound
<1>6. PausesStand /\ NextNotBegun /\ BegunPast
  BY DEF Init, MonitoringInit, PausesStand, NextNotBegun, BegunPast
<1> QED
  BY <1>3, <1>4, <1>5, <1>6 DEF ScheduleInv

(* Whatever handlers save whole schedules that they listed earlier, a      *)
(* pause stands and an occurrence that a poll has begun is begun once,     *)
(* except where such a save fell after another one (_execute,              *)
(* update_schedule): for any number of handlers, schedules and deaths.     *)
THEOREM SchedulesAlwaysHold == Spec => []SchedulesHold
<1>1. ScheduleInv => SchedulesHold
  <2> SUFFICES ASSUME ScheduleInv
               PROVE  BegunOnce
    BY DEF ScheduleInv, SchedulesHold
  <2> SUFFICES ASSUME NEW w \in Workers, job[w].at = "batch", job[w].poll, NEW e \in job[w].todo,
                      <<w, e.id>> \notin outdated, e.id \notin clobbered
               PROVE  e.record.next \notin begun[e.id]
    BY DEF BegunOnce
  <2>1. BatchSound(w, job[w]) /\ job[w] \in Batch
    BY CarriedBatch, JobFields DEF ScheduleInv, JobsTyped, BatchesSound
  <2>2. schedules[e.id] = e.record /\ e.record # Absent /\ e.id \in Schedules
    BY <2>1 DEF BatchSound, Batch, Entry
  <2> QED
    BY <2>2 DEF ScheduleInv, NextNotBegun
<1> QED
  BY <1>1, InitScheduleInv, StepKeepsSchedules, PTL DEF Spec

-----------------------------------------------------------------------------
(* Runs have one handler each.  Of a handler that opens, works on or       *)
(* leaves no run, only the risks it writes matter.                         *)
LEMMA OpeningMoves ==
    ASSUME JobsTyped, NEW w \in Workers, NEW next, Goto(w, next)
    PROVE  /\ \A v \in Workers : job'[v] = IF v = w THEN next ELSE job[v]
           /\ Opening' = IF next.at = "open" THEN Opening \cup {w} ELSE Opening \ {w}
           /\ IsFiniteSet(Opening) /\ Cardinality(Opening) \in Nat
           /\ Cardinality(Opening') = Cardinality(Opening)
                + (IF next.at = "open" THEN 1 ELSE 0) - (IF w \in Opening THEN 1 ELSE 0)
<1>1. \A v \in Workers : job'[v] = IF v = w THEN next ELSE job[v]
  BY DEF JobsTyped, Goto
<1>2. Opening' = IF next.at = "open" THEN Opening \cup {w} ELSE Opening \ {w}
  BY <1>1 DEF Opening
<1>3. IsFiniteSet(Opening) /\ Cardinality(Opening) \in Nat
  BY RegisterAssumption, FS_Subset, FS_CardinalityType DEF Opening
<1>4. Cardinality(Opening \cup {w}) = IF w \in Opening THEN Cardinality(Opening) ELSE Cardinality(Opening) + 1
  BY <1>3, FS_AddElement
<1>5. Cardinality(Opening \ {w}) = IF w \in Opening THEN Cardinality(Opening) - 1 ELSE Cardinality(Opening)
  BY <1>3, FS_RemoveElement
<1> QED
  BY <1>1, <1>2, <1>3, <1>4, <1>5

RowsStay == \A r \in Risks : register[r] # Absent => register'[r] # Absent

LEMMA QuietKeepsRuns ==
    ASSUME RunInv, NEW w \in Workers, NEW next \in MonitoringJob \cup RegistrationJob,
           Goto(w, next), ~OnRun(w), next.at \notin {"open", "analyze", "observe"},
           UNCHANGED <<runs, orphans>>, \A v \in Workers \ {w} : call'[v] = call[v], RowsStay
    PROVE  RunInv'
<1>1. /\ JobsTyped /\ runs \in Seq(RunRecord)
      /\ \A v \in Workers : job'[v] = IF v = w THEN next ELSE job[v]
      /\ Len(runs) + Cardinality(Opening') <= MaxRuns
  BY OpeningMoves, MonitoringAssumption DEF RunInv, JobsTyped
<1>2. JobsTyped'
  BY DEF Goto, RunInv, JobsTyped
<1>3. \A v \in Workers : OnRun(v)' <=> OnRun(v)
  BY <1>1 DEF OnRun
<1>4. \A v \in Workers : OnRun(v) => v # w /\ job'[v] = job[v]
  BY <1>1 DEF OnRun
<1>5. \A n : (Running(n)' <=> Running(n)) /\ (Working(n)' <=> Working(n))
  BY <1>3, <1>4 DEF Running, Working, OnRun
<1>6. RunsOwned'
  BY <1>3, <1>4, <1>5 DEF RunInv, RunsOwned
<1>7. FindingsWritten'
  <2>1. \A n \in 1..Len(runs) : runs[n].findings \subseteq Risks
    <3> SUFFICES ASSUME NEW n \in 1..Len(runs)
                 PROVE  runs[n].findings \subseteq Risks
      OBVIOUS
    <3>1. runs[n] \in RunRecord
      BY <1>1
    <3> QED
      BY <3>1 DEF RunRecord
  <2>2. ASSUME NEW v \in Workers, job'[v].at = "observe"
        PROVE  /\ call'[v].at \in {"select", "write", "done"}
               /\ \/ call'[v].at = "done" /\ ~call'[v].ok
                  \/ \A r \in runs'[job'[v].run].findings : register'[r] # Absent \/ Ahead(call'[v], r)
    <3>1. v # w /\ job'[v] = job[v] /\ call'[v] = call[v] /\ OnRun(v)
      BY <1>3, <1>4, <2>2 DEF OnRun
    <3>2. job[v].run \in 1..Len(runs)
      BY <3>1 DEF RunInv, RunsOwned, Running
    <3> QED
      BY <2>1, <2>2, <3>1, <3>2 DEF RunInv, FindingsWritten, RowsStay
  <2>3. \A n \in 1..Len(runs) : runs[n].status = "COMPLETED" /\ runs[n].persistence = "COMPLETE" =>
              \A r \in runs[n].findings : register'[r] # Absent
    BY <2>1 DEF RunInv, FindingsWritten, RowsStay
  <2> QED
    BY <2>2, <2>3 DEF FindingsWritten, Ahead
<1> QED
  BY <1>1, <1>2, <1>6, <1>7 DEF RunInv

(* A handler that is done with its run, or dies.                           *)
LEMMA LeaveKeepsRuns ==
    ASSUME RunInv, NEW w \in Workers, NEW next \in MonitoringJob \cup RegistrationJob,
           Goto(w, next), OnRun(w), next.at \notin {"open", "analyze", "observe"},
           Patched(runs, job[w].run, runs'), register' = register,
           \A v \in Workers \ {w} : call'[v] = call[v],
           \/ /\ orphans' = orphans /\ runs'[job[w].run].status # "RUNNING"
              /\ runs'[job[w].run].status = "COMPLETED" /\ runs'[job[w].run].persistence = "COMPLETE" =>
                    \A r \in runs'[job[w].run].findings : register[r] # Absent
           \/ orphans' = orphans \cup {job[w].run} /\ runs' = runs
    PROVE  RunInv'
<1>0. PICK n : n = job[w].run
  OBVIOUS
<1>1. /\ JobsTyped /\ runs \in Seq(RunRecord) /\ runs' \in Seq(RunRecord) /\ Len(runs') = Len(runs)
      /\ \A i \in 1..Len(runs) \ {n} : runs'[i] = runs[i]
      /\ \A v \in Workers : job'[v] = IF v = w THEN next ELSE job[v]
      /\ Len(runs) + Cardinality(Opening') <= MaxRuns
  <2>1. JobsTyped /\ runs \in Seq(RunRecord) /\ Len(runs) \in Nat
    BY DEF RunInv, JobsTyped
  <2>2. /\ runs' \in Seq(RunRecord) /\ Len(runs') = Len(runs)
        /\ \A i \in 1..Len(runs) \ {n} : runs'[i] = runs[i]
    BY <1>0 DEF Patched
  <2>3. \A v \in Workers : job'[v] = IF v = w THEN next ELSE job[v]
    BY <2>1, OpeningMoves
  <2>4. Cardinality(Opening) \in Nat /\ Cardinality(Opening') = Cardinality(Opening)
    BY <2>1, OpeningMoves DEF OnRun, Opening
  <2>5. Len(runs) + Cardinality(Opening') <= MaxRuns
    BY <2>1, <2>4 DEF RunInv
  <2> QED
    BY <2>1, <2>2, <2>3, <2>5
<1>2. JobsTyped'
  BY <1>1 DEF Goto, RunInv, JobsTyped
<1>3. Running(n) /\ n \notin orphans /\ n \in 1..Len(runs)
  BY <1>0 DEF RunInv, RunsOwned, Running
<1>4. \A v \in Workers : OnRun(v)' <=> OnRun(v) /\ v # w
  BY <1>1 DEF OnRun
<1>5. \A v \in Workers : OnRun(v)' =>
         /\ job'[v] = job[v] /\ job[v].run # n
         /\ Running(job[v].run) /\ job[v].run \notin orphans
         /\ \A u \in Workers : OnRun(u) /\ job[u].run = job[v].run => u = v
  BY <1>0, <1>1, <1>4 DEF RunInv, RunsOwned
<1>6. \A i : i # n => (Running(i)' <=> Running(i)) /\ (Working(i)' <=> Working(i))
  <2> SUFFICES ASSUME NEW i, i # n
               PROVE  (Running(i)' <=> Running(i)) /\ (Working(i)' <=> Working(i))
    OBVIOUS
  <2>1. Running(i)' <=> Running(i)
    BY <1>1 DEF Running
  <2>2. Working(i)' <=> Working(i)
    BY <1>0, <1>1 DEF Working
  <2> QED
    BY <2>1, <2>2
<1>7. Running(n)' => n \in orphans'
  BY <1>0, <1>3 DEF Running
<1>8. orphans' \subseteq orphans \cup {n} /\ orphans \subseteq orphans' /\ (n \in orphans' => Running(n)')
  <2>1. CASE orphans' = orphans
    BY <1>3, <2>1
  <2>2. CASE orphans' = orphans \cup {job[w].run} /\ runs' = runs
    BY <1>0, <1>3, <2>2 DEF Running
  <2> QED
    BY <2>1, <2>2
<1>9. RunsOwned'
  <2>1. ASSUME NEW v \in Workers, OnRun(v)'
        PROVE  /\ Running(job[v].run)' /\ (job[v].run \notin orphans)'
               /\ \A u \in Workers : OnRun(u)' /\ job'[u].run = job'[v].run => u = v
    BY <1>4, <1>5, <1>6, <1>8, <2>1
  <2>2. \A i \in orphans' : Running(i)'
    BY <1>6, <1>8 DEF RunInv, RunsOwned
  <2>3. \A i \in 1..Len(runs') : Running(i)' => Working(i)' \/ i \in orphans'
    BY <1>1, <1>6, <1>7 DEF RunInv, RunsOwned
  <2> QED
    BY <2>1, <2>2, <2>3 DEF RunsOwned
<1>10. FindingsWritten'
  <2>1. ASSUME NEW v \in Workers, job'[v].at = "observe"
        PROVE  /\ call'[v].at \in {"select", "write", "done"}
               /\ \/ call'[v].at = "done" /\ ~call'[v].ok
                  \/ \A r \in runs'[job'[v].run].findings : register'[r] # Absent \/ Ahead(call'[v], r)
    <3>1. v # w /\ job'[v] = job[v] /\ call'[v] = call[v] /\ job[v].run # n /\ Running(job[v].run)
      BY <1>4, <1>5, <2>1 DEF OnRun
    <3>2. runs'[job[v].run] = runs[job[v].run]
      BY <1>1, <3>1 DEF Running
    <3> QED
      BY <2>1, <3>1, <3>2 DEF RunInv, FindingsWritten
  <2>2. \A i \in 1..Len(runs') : runs'[i].status = "COMPLETED" /\ runs'[i].persistence = "COMPLETE" =>
              \A r \in runs'[i].findings : register'[r] # Absent
    BY <1>0, <1>1, <1>3 DEF RunInv, FindingsWritten, Running
  <2> QED
    BY <2>1, <2>2 DEF FindingsWritten, Ahead
<1> QED
  BY <1>1, <1>2, <1>9, <1>10 DEF RunInv

LEMMA BeginRunKeepsRuns ==
    ASSUME RunInv, JobsTyped', NEW w \in Workers, BeginRun(w)
    PROVE  RunInv'
<1>1. PICK next : Goto(w, next) /\ next.at = "open"
  BY DEF BeginRun
<1>2. /\ JobsTyped /\ w \notin Opening /\ Len(runs) \in Nat
      /\ UNCHANGED <<runs, orphans, register, call>> /\ ~OnRun(w)
  BY DEF RunInv, JobsTyped, BeginRun, registerVars, Opening, OnRun
<1>3. \A v \in Workers : job'[v] = IF v = w THEN next ELSE job[v]
  BY <1>1, <1>2, OpeningMoves
<1>4. Len(runs') + Cardinality(Opening') <= MaxRuns
  <2>1. Cardinality(Opening) \in Nat /\ Cardinality(Opening') = Cardinality(Opening) + 1
    BY <1>1, <1>2, OpeningMoves
  <2>2. Len(runs) + Cardinality(Opening) < MaxRuns
    BY DEF BeginRun, Opening
  <2> QED
    BY <1>2, <2>1, <2>2, MonitoringAssumption
<1>5. \A v \in Workers : (OnRun(v)' <=> OnRun(v)) /\ (OnRun(v) => v # w /\ job'[v] = job[v])
  BY <1>1, <1>2, <1>3 DEF OnRun
<1>6. \A n : (Running(n)' <=> Running(n)) /\ (Working(n)' <=> Working(n))
  BY <1>2, <1>5 DEF Running, Working, OnRun
<1>7. RunsOwned'
  BY <1>2, <1>5, <1>6 DEF RunInv, RunsOwned
<1>8. FindingsWritten'
  BY <1>2, <1>5 DEF RunInv, FindingsWritten, Ahead, OnRun
<1> QED
  BY <1>4, <1>7, <1>8 DEF RunInv

LEMMA OpenRunKeepsRuns ==
    ASSUME RunInv, JobsTyped', NEW w \in Workers, OpenRun(w)
    PROVE  RunInv'
<1> DEFINE run == [schedule |-> job[w].id, status |-> "RUNNING",
                   persistence |-> "COMPLETE", findings |-> {}]
<1>1. PICK k, next : k = Len(runs) + 1 /\ next = [at |-> "analyze", run |-> k, rest |-> job[w].rest]
  OBVIOUS
<1>2. /\ JobsTyped /\ w \in Opening /\ Len(runs) \in Nat /\ k \in Nat
      /\ UNCHANGED <<orphans, register, call>> /\ Goto(w, next) /\ ~OnRun(w)
  BY <1>1 DEF RunInv, JobsTyped, OpenRun, registerVars, Opening, OnRun
<1>3. \A v \in Workers : job'[v] = IF v = w THEN next ELSE job[v]
  BY <1>2, OpeningMoves
<1>4. /\ Len(runs') = k /\ runs'[k].status = "RUNNING"
      /\ \A i \in 1..Len(runs) : runs'[i] = runs[i]
  <2>1. runs' = Append(runs, run) /\ runs \in Seq(RunRecord)
    BY DEF OpenRun, RunInv, JobsTyped
  <2> QED
    BY <1>1, <2>1
<1>5. Len(runs') + Cardinality(Opening') <= MaxRuns
  <2>1. Cardinality(Opening) \in Nat /\ Cardinality(Opening') = Cardinality(Opening) - 1
    BY <1>1, <1>2, OpeningMoves
  <2> QED
    BY <1>1, <1>2, <1>4, <2>1, MonitoringAssumption DEF RunInv
<1>6. \A v \in Workers : OnRun(v)' <=> OnRun(v) \/ v = w
  BY <1>1, <1>3 DEF OnRun
<1>7. \A v \in Workers : OnRun(v) => v # w /\ job'[v] = job[v] /\ job[v].run \in 1..Len(runs)
  BY <1>2, <1>3 DEF RunInv, RunsOwned, Running
<1>8. \A i : i # k => (Running(i)' <=> Running(i)) /\ (Working(i) => Working(i)')
  <2> SUFFICES ASSUME NEW i, i # k
               PROVE  (Running(i)' <=> Running(i)) /\ (Working(i) => Working(i)')
    OBVIOUS
  <2>1. Running(i)' <=> Running(i)
    BY <1>1, <1>2, <1>4 DEF Running
  <2>2. Working(i) => Working(i)'
    BY <1>7 DEF Working, OnRun
  <2> QED
    BY <2>1, <2>2
<1>9. Running(k)' /\ Working(k)' /\ job'[w].run = k /\ k \notin 1..Len(runs)
  BY <1>1, <1>2, <1>3, <1>4 DEF Running, Working
<1>10. orphans \subseteq 1..Len(runs)
  BY DEF RunInv, RunsOwned, Running
<1>11. RunsOwned'
  <2>1. ASSUME NEW v \in Workers, OnRun(v)'
        PROVE  /\ Running(job[v].run)' /\ (job[v].run \notin orphans)'
               /\ \A u \in Workers : OnRun(u)' /\ job'[u].run = job'[v].run => u = v
    <3>1. CASE v = w
      BY <1>2, <1>6, <1>7, <1>9, <1>10, <3>1
    <3>2. CASE v # w
      <4>1. OnRun(v) /\ job'[v] = job[v] /\ job[v].run # k
        BY <1>6, <1>7, <1>9, <2>1, <3>2
      <4> QED
        BY <1>2, <1>6, <1>7, <1>8, <1>9, <4>1 DEF RunInv, RunsOwned
    <3> QED
      BY <3>1, <3>2
  <2>2. \A i \in orphans' : Running(i)'
    BY <1>2, <1>8, <1>9 DEF RunInv, RunsOwned
  <2>3. \A i \in 1..Len(runs') : Running(i)' => Working(i)' \/ i \in orphans'
    BY <1>1, <1>2, <1>4, <1>8, <1>9 DEF RunInv, RunsOwned
  <2> QED
    BY <2>1, <2>2, <2>3 DEF RunsOwned
<1>12. FindingsWritten'
  <2>1. ASSUME NEW v \in Workers, job'[v].at = "observe"
        PROVE  /\ call'[v].at \in {"select", "write", "done"}
               /\ \/ call'[v].at = "done" /\ ~call'[v].ok
                  \/ \A r \in runs'[job'[v].run].findings : register'[r] # Absent \/ Ahead(call'[v], r)
    <3>1. job'[v] = job[v] /\ OnRun(v) /\ job[v].run \in 1..Len(runs)
      BY <1>1, <1>3, <1>6, <1>7, <2>1 DEF OnRun
    <3> QED
      BY <1>2, <1>4, <2>1, <3>1 DEF RunInv, FindingsWritten
  <2>2. \A i \in 1..Len(runs') : runs'[i].status = "COMPLETED" /\ runs'[i].persistence = "COMPLETE" =>
              \A r \in runs'[i].findings : register'[r] # Absent
    BY <1>1, <1>2, <1>4 DEF RunInv, FindingsWritten
  <2> QED
    BY <2>1, <2>2 DEF FindingsWritten, Ahead
<1> QED
  BY <1>5, <1>11, <1>12 DEF RunInv

LEMMA AnalyzeKeepsRuns ==
    ASSUME RegisterTypeOK, RunInv, JobsTyped', NEW w \in Workers, Analyze(w)
    PROVE  RunInv'
<1>1. PICK findings \in SUBSET Risks :
         runs' = [runs EXCEPT ![job[w].run].findings = findings] /\ Observe(w, findings)
  BY DEF Analyze
<1>2. PICK n, next : n = job[w].run /\ next = [job[w] EXCEPT !.at = "observe"]
  OBVIOUS
<1>3. /\ JobsTyped /\ job[w].at = "analyze" /\ UNCHANGED <<orphans, register>> /\ Goto(w, next)
      /\ runs \in Seq(RunRecord)
  BY <1>1, <1>2 DEF RunInv, JobsTyped, Analyze, Observe
<1>4. next.at = "observe" /\ next.run = n
  <2>1. job[w] \in [at : {"analyze", "observe"}, run : Nat, rest : Batch \cup {Idle}]
    BY <1>3, JobFields DEF JobsTyped, MonitoringJob, RegistrationJob, Batch, Idle
  <2> QED
    BY <1>2, <2>1
<1>5. /\ Running(n) /\ n \notin orphans /\ n \in 1..Len(runs)
      /\ \A v \in Workers : OnRun(v) /\ job[v].run = n => v = w
  BY <1>2, <1>3 DEF RunInv, RunsOwned, Running, OnRun
<1>6. \A v \in Workers : job'[v] = IF v = w THEN next ELSE job[v]
  BY <1>3, OpeningMoves
<1>7. /\ Len(runs') = Len(runs) /\ \A i \in 1..Len(runs) : runs'[i].status = runs[i].status
      /\ \A i \in 1..Len(runs) \ {n} : runs'[i] = runs[i]
      /\ runs'[n].findings = findings
  <2>1. runs[n] \in RunRecord
    BY <1>3, <1>5
  <2>2. [runs[n] EXCEPT !.findings = findings] \in RunRecord
    BY <2>1 DEF RunRecord
  <2>3. runs' = [runs EXCEPT ![n] = [runs[n] EXCEPT !.findings = findings]]
    BY <1>1, <1>2
  <2>4. [runs[n] EXCEPT !.findings = findings].status = runs[n].status
        /\ [runs[n] EXCEPT !.findings = findings].findings = findings
    BY <2>1 DEF RunRecord
  <2> QED
    BY <1>3, <1>5, <2>2, <2>3, <2>4, ExceptSeq
<1>8. Len(runs') + Cardinality(Opening') <= MaxRuns
  BY <1>3, <1>4, <1>7, OpeningMoves DEF RunInv, Opening
<1>9. \A v \in Workers : (OnRun(v)' <=> OnRun(v)) /\ job'[v].run = job[v].run
  BY <1>2, <1>3, <1>4, <1>6 DEF OnRun
<1>10. \A i : (Running(i)' <=> Running(i)) /\ (Working(i)' <=> Working(i))
  BY <1>7, <1>9 DEF Running, Working, OnRun
<1>11. RunsOwned'
  BY <1>3, <1>7, <1>9, <1>10 DEF RunInv, RunsOwned
<1>12. FindingsWritten'
  <2>1. ASSUME NEW v \in Workers, job'[v].at = "observe"
        PROVE  /\ call'[v].at \in {"select", "write", "done"}
               /\ \/ call'[v].at = "done" /\ ~call'[v].ok
                  \/ \A r \in runs'[job'[v].run].findings : register'[r] # Absent \/ Ahead(call'[v], r)
    <3>1. CASE v = w
      <4>1. call'[w] = Rest(findings)
        BY <1>1 DEF Observe, ToCall, RegisterTypeOK
      <4>2. runs'[job'[w].run].findings = findings
        BY <1>4, <1>6, <1>7
      <4>3. \/ findings = {} /\ Rest(findings).at = "done"
            \/ Rest(findings).at = "select" /\ Rest(findings).todo = findings
        BY DEF Rest
      <4> QED
        BY <3>1, <4>1, <4>2, <4>3 DEF Ahead
    <3>2. CASE v # w
      <4>1. job'[v] = job[v] /\ OnRun(v) /\ job[v].run \in 1..Len(runs) \ {n}
        BY <1>5, <1>6, <2>1, <3>2 DEF OnRun, RunInv, RunsOwned, Running
      <4>2. call'[v] = call[v]
        BY <1>1, <3>2 DEF Observe, ToCall
      <4> QED
        BY <1>3, <1>7, <2>1, <4>1, <4>2 DEF RunInv, FindingsWritten
    <3> QED
      BY <3>1, <3>2
  <2>2. \A i \in 1..Len(runs') : runs'[i].status = "COMPLETED" /\ runs'[i].persistence = "COMPLETE" =>
              \A r \in runs'[i].findings : register'[r] # Absent
    BY <1>3, <1>5, <1>7 DEF RunInv, FindingsWritten, Running
  <2> QED
    BY <2>1, <2>2 DEF FindingsWritten, Ahead
<1> QED
  BY <1>8, <1>11, <1>12 DEF RunInv

LEMMA LeavingKeepsRuns ==
    ASSUME RegisterTypeOK, RunInv, NEW w \in Workers, CloseRun(w) \/ FailRun(w)
    PROVE  RunInv'
<1>1. /\ JobsTyped /\ OnRun(w) /\ Goto(w, job[w].rest) /\ orphans' = orphans /\ register' = register
      /\ \A v \in Workers \ {w} : call'[v] = call[v]
  BY DEF RunInv, CloseRun, FailRun, OnRun, Return, ToCall, registerVars, RegisterTypeOK
<1>2. job[w].rest \in MonitoringJob /\ job[w].rest.at \notin {"open", "analyze", "observe"}
  <2>1. job[w].rest \in Batch \cup {Idle}
    BY <1>1, JobFields DEF JobsTyped, OnRun
  <2> QED
    BY <2>1 DEF MonitoringJob, Batch, Idle
<1>3. PICK n : n = job[w].run
  OBVIOUS
<1>4. n \in 1..Len(runs) /\ runs \in Seq(RunRecord) /\ runs[n] \in RunRecord
  BY <1>1, <1>3 DEF RunInv, RunsOwned, Running, JobsTyped
<1>5. CASE CloseRun(w)
  <2> DEFINE how == Persistence(call[w].ok)
             run == [runs[n] EXCEPT !.status = "COMPLETED", !.persistence = how]
  <2>1. /\ job[w].at = "observe" /\ call[w].at = "done"
        /\ runs' = [runs EXCEPT ![n].status = "COMPLETED", ![n].persistence = how]
    BY <1>3, <1>5 DEF CloseRun
  <2>2. how \in {"COMPLETE", "DEGRADED"} /\ (how = "COMPLETE" => call[w].ok)
    BY DEF Persistence
  <2> HIDE DEF how
  <2>3. Patched(runs, n, runs')
    BY <1>4, <2>1, <2>2, RunsPatched
  <2>4. runs'[n].status = "COMPLETED" /\ runs'[n].persistence = how /\ runs'[n].findings = runs[n].findings
    <3>1. run \in RunRecord /\ run.status = "COMPLETED" /\ run.persistence = how /\ run.findings = runs[n].findings
      BY <1>4, <2>2 DEF RunRecord
    <3>2. runs' = [runs EXCEPT ![n] = run]
      BY <2>1
    <3> HIDE DEF run
    <3>3. runs'[n] = run
      BY <1>4, <3>1, <3>2, ExceptSeq
    <3> QED
      BY <3>1, <3>3
  <2>5. call[w].ok => \A r \in runs[n].findings : register[r] # Absent
    BY <1>3, <2>1 DEF RunInv, FindingsWritten, Ahead
  <2> QED
    BY <1>1, <1>2, <1>3, <2>2, <2>3, <2>4, <2>5, LeaveKeepsRuns
<1>6. CASE FailRun(w)
  <2>1. runs' = [runs EXCEPT ![n].status = "FAILED"]
    BY <1>3, <1>6 DEF FailRun
  <2>2. Patched(runs, n, runs')
    BY <1>4, <2>1, RunsPatched
  <2>3. runs'[n].status = "FAILED"
    BY <1>4, <2>1 DEF RunRecord
  <2> QED
    BY <1>1, <1>2, <1>3, <2>2, <2>3, LeaveKeepsRuns
<1> QED
  BY <1>5, <1>6

LEMMA CrashKeepsRuns ==
    ASSUME RegisterTypeOK, RunInv, NEW w \in Workers,
           CrashRun(w) \/ CrashJob(w)
    PROVE  RunInv'
<1>1. /\ JobsTyped /\ Goto(w, Idle) /\ runs' = runs /\ register' = register /\ runs \in Seq(RunRecord)
      /\ \A v \in Workers \ {w} : call'[v] = call[v]
  BY DEF RunInv, JobsTyped, CrashRun, CrashJob, Die, ToCall, others, RegisterTypeOK
<1>2. Idle \in MonitoringJob /\ Idle.at = "idle" /\ RowsStay
  BY <1>1 DEF MonitoringJob, Idle, RowsStay
<1>3. CASE OnRun(w)
  <2>1. ~InJob(w)
    BY <1>1, <1>3, JobFields DEF InJob, OnRun, JobsTyped
  <2>2. orphans' = orphans \cup {job[w].run}
    BY <1>3, <2>1 DEF CrashRun, CrashJob, OnRun
  <2>3. Patched(runs, job[w].run, runs')
    BY <1>1 DEF Patched
  <2> QED
    BY <1>1, <1>2, <1>3, <2>2, <2>3, LeaveKeepsRuns
<1>4. CASE ~OnRun(w)
  <2>1. orphans' = orphans
    BY <1>4 DEF CrashRun, CrashJob, others, OnRun
  <2> QED
    BY <1>1, <1>2, <1>4, <2>1, QuietKeepsRuns
<1> QED
  BY <1>3, <1>4

(* A step within the register writes what it has taken from its list.      *)
LEMMA RegisterKeepsRuns ==
    ASSUME RegisterTypeOK, RunInv, NEW w \in Workers, RegisterStep(w),
           UNCHANGED <<job, runs, orphans>>
    PROVE  RunInv'
<1>1. call \in [Workers -> Call] /\ register \in [Risks -> Row \cup {Absent}]
  BY DEF RegisterTypeOK
<1>2. RowsStay /\ (WriteRisk(w) => register'[call[w].risk] # Absent)
  <2>1. CASE WriteRisk(w)
    <3>1. /\ call[w].risk \in Risks /\ call[w].read \in Row \cup {Absent}
          /\ register' = [register EXCEPT ![call[w].risk] =
                IF @ = Absent THEN NewRow ELSE Recurring(@, call[w].read)]
      BY <2>1, CallFields DEF WriteRisk
    <3>2. register'[call[w].risk] \in Row
      <4>1. NewRow \in Row
        BY DEF NewRow, Row, Statuses
      <4>2. register[call[w].risk] # Absent => call[w].read \in Row
        BY <2>1, <3>1 DEF WriteRisk, Clash
      <4> QED
        BY <1>1, <3>1, <4>1, <4>2, RecurringRow
    <3>3. Absent \notin Row
      BY RegisterAssumption DEF Row
    <3> QED
      BY <1>1, <3>1, <3>2, <3>3 DEF RowsStay
  <2>2. CASE WriteEdit(w)
    <3> DEFINE r == call[w].risk
               row == [register[r] EXCEPT !.status = After(register[r], call[w].change, "status"),
                          !.owner = After(register[r], call[w].change, "owner"),
                          !.resolution = After(register[r], call[w].change, "resolution")]
    <3>1. r \in Risks /\ call[w].change \in Change
      BY <2>2, CallFields DEF WriteEdit
    <3>2. register' = [register EXCEPT ![r] = row]
      BY <2>2 DEF WriteEdit
    <3>3. register[r] # Absent => row \in Row
      <4>1. register[r] # Absent => register[r] \in Row
        BY <1>1, <3>1
      <4> QED
        BY <3>1, <4>1, EditedRow DEF Edited
    <3>4. Absent \notin Row
      BY RegisterAssumption DEF Row
    <3> HIDE DEF row
    <3> QED
      BY <1>1, <2>2, <3>1, <3>2, <3>3, <3>4 DEF RowsStay, WriteRisk, WriteEdit
  <2>3. SelectRisk(w) \/ RefuseRisk(w) \/ AuditEdit(w) => RowsStay
    BY DEF SelectRisk, RefuseRisk, AuditEdit, RowsStay
  <2> QED
    BY <2>1, <2>2, <2>3 DEF RegisterStep
<1>3. \A v \in Workers \ {w} : call'[v] = call[v]
  BY <1>1 DEF RegisterStep, SelectRisk, WriteRisk, RefuseRisk, WriteEdit, AuditEdit, ToCall
<1>4. ASSUME NEW F \in SUBSET Risks, call[w].at \in {"select", "write", "done"},
             \A r \in F : register[r] # Absent \/ Ahead(call[w], r)
      PROVE  /\ call'[w].at \in {"select", "write", "done"}
             /\ \/ call'[w].at = "done" /\ ~call'[w].ok
                \/ \A r \in F : register'[r] # Absent \/ Ahead(call'[w], r)
  <2>1. CASE SelectRisk(w)
    <3>1. PICK r \in call[w].todo :
            call'[w] = [at |-> "write", todo |-> call[w].todo \ {r}, risk |-> r, read |-> register[r]]
      BY <1>1, <2>1 DEF SelectRisk, ToCall
    <3>2. call[w].at = "select"
      BY <2>1 DEF SelectRisk
    <3> QED
      BY <1>2, <1>4, <3>1, <3>2 DEF RowsStay, Ahead
  <2>2. CASE WriteRisk(w)
    <3>1. call[w].at = "write" /\ call'[w] = Rest(call[w].todo) /\ register'[call[w].risk] # Absent
      BY <1>1, <1>2, <2>2 DEF WriteRisk, ToCall
    <3>2. \/ call[w].todo = {} /\ Rest(call[w].todo).at = "done"
          \/ Rest(call[w].todo).at = "select" /\ Rest(call[w].todo).todo = call[w].todo
      BY DEF Rest
    <3> QED
      BY <1>2, <1>4, <3>1, <3>2 DEF RowsStay, Ahead
  <2>3. CASE RefuseRisk(w)
    <3>1. call'[w] = [at |-> "done", ok |-> FALSE]
      BY <1>1, <2>3 DEF RefuseRisk, ToCall
    <3> QED
      BY <3>1
  <2>4. CASE WriteEdit(w) \/ AuditEdit(w)
    BY <1>4, <2>4 DEF WriteEdit, AuditEdit
  <2> QED
    BY <2>1, <2>2, <2>3, <2>4 DEF RegisterStep
<1>5. \A n \in 1..Len(runs) : runs[n].findings \in SUBSET Risks
  <2> SUFFICES ASSUME NEW n \in 1..Len(runs)
               PROVE  runs[n].findings \in SUBSET Risks
    OBVIOUS
  <2>1. runs[n] \in RunRecord
    BY DEF RunInv, JobsTyped
  <2> QED
    BY <2>1 DEF RunRecord
<1>6. FindingsWritten'
  <2>1. ASSUME NEW v \in Workers, job'[v].at = "observe"
        PROVE  /\ call'[v].at \in {"select", "write", "done"}
               /\ \/ call'[v].at = "done" /\ ~call'[v].ok
                  \/ \A r \in runs'[job'[v].run].findings : register'[r] # Absent \/ Ahead(call'[v], r)
    <3>1. job[v].run \in 1..Len(runs)
      BY <2>1 DEF RunInv, RunsOwned, Running, OnRun
    <3>2. PICK F \in SUBSET Risks : F = runs[job[v].run].findings
      BY <1>5, <3>1
    <3>3. /\ call[v].at \in {"select", "write", "done"}
          /\ \/ call[v].at = "done" /\ ~call[v].ok
             \/ \A r \in F : register[r] # Absent \/ Ahead(call[v], r)
      BY <2>1, <3>2 DEF RunInv, FindingsWritten
    <3>4. CASE v # w
      BY <1>2, <1>3, <3>2, <3>3, <3>4 DEF RowsStay
    <3>5. CASE v = w
      <4>1. call[w].at # "done"
        BY DEF RegisterStep, SelectRisk, WriteRisk, RefuseRisk, WriteEdit, AuditEdit
      <4> QED
        BY <1>4, <3>2, <3>3, <3>5, <4>1
    <3> QED
      BY <3>4, <3>5
  <2>2. \A i \in 1..Len(runs') : runs'[i].status = "COMPLETED" /\ runs'[i].persistence = "COMPLETE" =>
              \A r \in runs'[i].findings : register'[r] # Absent
    BY <1>2, <1>5 DEF RunInv, FindingsWritten, RowsStay
  <2> QED
    BY <2>1, <2>2 DEF FindingsWritten, Ahead
<1>7. JobsTyped' /\ RunsOwned' /\ Len(runs') + Cardinality(Opening') <= MaxRuns
  BY DEF RunInv, JobsTyped, RunsOwned, Running, Working, OnRun, Opening
<1> QED
  BY <1>6, <1>7 DEF RunInv

(* Steps that meet no run.                                                 *)
LEMMA OthersKeepRuns ==
    ASSUME RegisterTypeOK, RunInv, JobsTyped', NEW w \in Workers,
           \/ MonitoringRequest(w) \/ SavePatch(w)
           \/ \E r \in Risks, change \in Changes : EditRisk(w, r, change)
           \/ JobStep(w) \/ \E j \in Jobs : Register(w, j)
    PROVE  RunInv'
<1>1. JobsTyped /\ call \in [Workers -> Call] /\ job[w] \in MonitoringJob \cup RegistrationJob
  BY DEF RunInv, JobsTyped, RegisterTypeOK
<1>2. UNCHANGED <<runs, orphans>>
  BY DEF MonitoringRequest, Create, Patch, RunNow, RunDue, SavePatch, EditRisk, monitoringVars, JobStep, Register,
         Start, LoseError, Raise, SaveModel, Scan, Observed, SaveScan, EndJob, others
<1>3. RowsStay /\ \A v \in Workers \ {w} : call'[v] = call[v]
  <2>1. CASE MonitoringRequest(w) \/ SavePatch(w) \/ \E j \in Jobs : Register(w, j)
    BY <2>1 DEF MonitoringRequest, Create, Patch, RunNow, RunDue, SavePatch, Register, registerVars, RowsStay
  <2>2. CASE \E r \in Risks, change \in Changes : EditRisk(w, r, change)
    BY <1>1, <2>2 DEF EditRisk, Edit, ToCall, RowsStay
  <2>3. CASE Scan(w)
    BY <1>1, <2>3 DEF Scan, Observe, ToCall, registerVars, RowsStay
  <2>4. CASE Observed(w)
    BY <1>1, <2>4 DEF Observed, Return, ToCall, RowsStay
  <2>5. CASE Start(w) \/ LoseError(w) \/ Raise(w) \/ SaveModel(w) \/ SaveScan(w) \/ EndJob(w)
    BY <2>5 DEF Start, LoseError, Raise, SaveModel, SaveScan, EndJob, registerVars, RowsStay
  <2> QED
    BY <2>1, <2>2, <2>3, <2>4, <2>5 DEF JobStep
<1>4. Goto(w, job'[w])
  <2>1. \E next : Goto(w, next)
    <3>1. CASE MonitoringRequest(w) \/ SavePatch(w) \/ (\E j \in Jobs : Register(w, j)) \/ JobStep(w)
      BY <3>1 DEF MonitoringRequest, Create, Patch, RunNow, RunDue, SavePatch, Register, JobStep,
                  Start, LoseError, Raise, SaveModel, Scan, Observed, SaveScan, EndJob, Proceed
    <3>2. CASE \E r \in Risks, change \in Changes : EditRisk(w, r, change)
      <4>1. Goto(w, job[w])
        BY <1>1, <3>2 DEF EditRisk, monitoringVars, Goto, JobsTyped
      <4> QED
        BY <4>1
    <3> QED
      BY <3>1, <3>2
  <2> QED
    BY <1>1, <2>1 DEF Goto, JobsTyped
<1>5. ~OnRun(w) /\ job[w].at # "open"
  <2>1. job[w] = Idle \/ job[w].at = "patch" \/ InTask(w)
    BY DEF MonitoringRequest, Create, Patch, RunNow, RunDue, SavePatch, Register, JobStep, EditRisk, Free,
           Start, LoseError, Raise, SaveModel, Scan, Observed, SaveScan, EndJob, InTask, At
  <2> QED
    BY <2>1 DEF Idle, OnRun, InTask
<1>6. job'[w].at \notin {"open", "analyze", "observe"} /\ job'[w] \in MonitoringJob \cup RegistrationJob
  <2>1. job'[w] \in MonitoringJob \cup RegistrationJob
    BY DEF JobsTyped
  <2>2. CASE MonitoringRequest(w) \/ SavePatch(w)
    <3>1. CASE (\E id \in Schedules : Create(w, id)) \/ SavePatch(w)
      BY <1>1, <3>1 DEF Create, SavePatch, Goto, Idle, JobsTyped
    <3>2. CASE \E id \in Schedules, enabled \in BOOLEAN \cup {Keep}, restart \in BOOLEAN :
                 Patch(w, id, enabled, restart)
      BY <1>1, <3>2 DEF Patch, Goto, JobsTyped
    <3>3. CASE (\E id \in Schedules : RunNow(w, id)) \/ RunDue(w)
      <4>1. \E todo, poll : Goto(w, [at |-> "batch", todo |-> todo, time |-> now, poll |-> poll])
        BY <3>3 DEF RunNow, RunDue
      <4> QED
        BY <1>1, <2>1, <4>1 DEF Goto, JobsTyped
    <3> QED
      BY <2>2, <3>1, <3>2, <3>3 DEF MonitoringRequest
  <2>3. CASE (\E j \in Jobs : Register(w, j)) \/ JobStep(w)
    BY <1>1, <2>3 DEF Register, JobStep, Start, LoseError, Raise, SaveModel, Scan, Observed, SaveScan, EndJob,
                      Proceed, Goto, Idle, JobsTyped
  <2>4. CASE \E r \in Risks, change \in Changes : EditRisk(w, r, change)
    <3>1. job'[w] = Idle
      BY <2>4 DEF EditRisk, Free, monitoringVars
    <3> QED
      BY <2>1, <3>1 DEF Idle
  <2> QED
    BY <2>1, <2>2, <2>3, <2>4
<1> QED
  BY <1>2, <1>3, <1>4, <1>5, <1>6, QuietKeepsRuns

LEMMA RunsStay == ASSUME RunInv, UNCHANGED <<job, runs, orphans, register, call>> PROVE RunInv'
BY DEF RunInv, JobsTyped, Opening, RunsOwned, FindingsWritten, Running, Working, OnRun, Ahead

LEMMA StepKeepsRuns == RegisterTypeOK /\ JobsTyped' /\ RunInv /\ [Next]_vars => RunInv'
<1> SUFFICES ASSUME RegisterTypeOK, JobsTyped', RunInv, [Next]_vars
             PROVE  RunInv'
  OBVIOUS
<1>1. CASE UNCHANGED vars
  BY <1>1, RunsStay DEF vars, monitoringVars, registerVars
<1>2. CASE Tick
  BY <1>2, RunsStay DEF Tick, registerVars
<1>3. ASSUME NEW w \in Workers, Request(w)
      PROVE  RunInv'
  BY <1>3, OthersKeepRuns DEF Request
<1>4. ASSUME NEW w \in Workers, Work(w)
      PROVE  RunInv'
  <2>1. CASE RegisterStep(w) /\ UNCHANGED <<monitoringVars, jobVars>>
    BY <2>1, RegisterKeepsRuns DEF monitoringVars
  <2> QED
    BY <1>4, <2>1, OthersKeepRuns, BeginRunKeepsRuns, OpenRunKeepsRuns, AnalyzeKeepsRuns, LeavingKeepsRuns
       DEF Work, MonitoringStep
<1>5. ASSUME NEW w \in Workers, Crash(w)
      PROVE  RunInv'
  <2>1. CASE CrashRun(w) \/ CrashJob(w)
    BY <2>1, CrashKeepsRuns
  <2>2. CASE job[w] = Idle /\ Die(w) /\ UNCHANGED <<monitoringVars, jobVars>>
    <3>1. Goto(w, Idle) /\ ~OnRun(w) /\ Idle.at = "idle" /\ Idle \in MonitoringJob
      BY <2>2 DEF RunInv, JobsTyped, Goto, OnRun, Idle, monitoringVars, MonitoringJob
    <3>2. RowsStay /\ \A v \in Workers \ {w} : call'[v] = call[v]
      BY <2>2 DEF Die, ToCall, RowsStay, RegisterTypeOK
    <3> QED
      BY <2>2, <3>1, <3>2, QuietKeepsRuns DEF monitoringVars
  <2> QED
    BY <1>5, <2>1, <2>2 DEF Crash
<1> QED
  BY <1>1, <1>2, <1>3, <1>4, <1>5 DEF Next, Unasked

-----------------------------------------------------------------------------
(* Jobs have one handler each.                                             *)
Places == {"download", "upload", "fetch", "scan", "observeScan", "saveScan", "end", "fail"}

LEMMA Moves ==
    ASSUME JobsTyped, NEW w \in Workers, NEW next, Goto(w, next)
    PROVE  /\ \A v \in Workers : job'[v] = IF v = w THEN next ELSE job[v]
           /\ \A v \in Workers \ {w} : (InTask(v)' <=> InTask(v)) /\ reg(v)' = reg(v)
           /\ InTask(w)' <=> next.at \in Places
           /\ reg(w)' = next.reg
<1>1. \A v \in Workers : job'[v] = IF v = w THEN next ELSE job[v]
  BY DEF JobsTyped, Goto
<1> QED
  BY <1>1 DEF InTask, reg, Places

LEMMA QuietKeepsJobs ==
    ASSUME JobInv, NEW w \in Workers, ~InTask(w), ~InTask(w)',
           \A v \in Workers \ {w} : job'[v] = job[v], UNCHANGED jobVars
    PROVE  JobTypeOK' /\ JobsOwned'
<1>1. /\ UNCHANGED <<jobs, models, abandoned>>
      /\ \A v \in Workers : (InTask(v)' <=> InTask(v)) /\ (InTask(v) => reg(v)' = reg(v) /\ job'[v] = job[v])
  BY DEF jobVars, InTask, reg
<1> QED
  BY <1>1 DEF JobInv, JobTypeOK, JobsOwned, Open

(* A task that goes on, and stores its model on the way.                   *)
LEMMA ProceedKeepsJobs ==
    ASSUME JobInv, NEW w \in Workers, InTask(w), NEW place \in Places, Proceed(w, place),
           jobs' = jobs \/ Status(w, "RUNNING"), abandoned' = abandoned,
           NEW stored \in {"none", "saved", "scanned"}, models' = [models EXCEPT ![reg(w)] = stored],
           place = "end" => stored = "scanned"
    PROVE  JobTypeOK' /\ JobsOwned'
<1>1. PICK k : k = reg(w)
  OBVIOUS
<1>2. /\ \A v \in Workers \ {w} : (InTask(v)' <=> InTask(v)) /\ reg(v)' = reg(v) /\ job'[v] = job[v]
      /\ InTask(w)' /\ reg(w)' = k /\ job'[w].at = place
  BY <1>1, Moves DEF JobInv, Proceed
<1>3. k \in Jobs /\ Open(k) /\ k \notin abandoned
  BY <1>1, JobFields DEF JobInv, JobsTyped, JobsOwned, InTask, reg
<1>4. \A v \in Workers \ {w} : InTask(v) => reg(v) # k
  BY <1>1 DEF JobInv, JobsOwned
<1>5. /\ jobs' \in [Jobs -> {"PENDING", "RUNNING", "COMPLETED", "FAILED", Absent}]
      /\ \A j \in Jobs \ {k} : jobs'[j] = jobs[j]
      /\ Open(k)' /\ jobs'[k] # "COMPLETED"
  BY <1>1, <1>3 DEF Status, JobInv, JobTypeOK, Open
<1>6. /\ models' \in [Jobs -> {"none", "saved", "scanned"}] /\ models'[k] = stored
      /\ \A j \in Jobs \ {k} : models'[j] = models[j]
  BY <1>1, <1>3 DEF JobInv, JobTypeOK
<1>7. JobTypeOK'
  BY <1>5, <1>6 DEF JobInv, JobTypeOK
<1>8. \A j \in Jobs : Open(j)' <=> Open(j)
  BY <1>3, <1>5 DEF Open
<1>9. \A v \in Workers : InTask(v) => reg(v) \in Jobs
  BY JobFields DEF JobInv, JobsTyped, InTask, reg
<1>10. ASSUME NEW v \in Workers, InTask(v)'
       PROVE  /\ Open(reg(v))' /\ (reg(v) \notin abandoned)'
              /\ \A u \in Workers : InTask(u)' /\ reg(u)' = reg(v)' => u = v
              /\ job'[v].at = "end" => models'[reg(v)'] = "scanned"
  <2>1. CASE v = w
    BY <1>2, <1>3, <1>4, <1>5, <1>6, <2>1
  <2>2. CASE v # w
    <3>1. InTask(v) /\ reg(v)' = reg(v) /\ job'[v] = job[v] /\ reg(v) \in Jobs \ {k}
      BY <1>2, <1>4, <1>9, <1>10, <2>2
    <3> QED
      BY <1>1, <1>2, <1>5, <1>6, <1>8, <3>1 DEF JobInv, JobsOwned, Open
  <2> QED
    BY <2>1, <2>2
<1>11. ASSUME NEW j \in Jobs, Open(j)'
       PROVE  j \in abandoned' \/ \E v \in Workers : InTask(v)' /\ reg(v)' = j
  BY <1>1, <1>2, <1>8, <1>11 DEF JobInv, JobsOwned
<1>12. \A j \in abandoned' : Open(j)'
  BY <1>8 DEF JobInv, JobTypeOK, JobsOwned
<1>13. \A j \in Jobs : jobs'[j] = "COMPLETED" => models'[j] = "scanned"
  BY <1>5, <1>6 DEF JobInv, JobsOwned
<1> QED
  BY <1>7, <1>10, <1>11, <1>12, <1>13 DEF JobsOwned, Open

(* A task that ends, or gives up.                                          *)
LEMMA EndKeepsJobs ==
    ASSUME JobInv, NEW w \in Workers, InTask(w), Goto(w, Idle), models' = models,
           \/ /\ jobs' = jobs /\ abandoned' = abandoned \cup {reg(w)}
           \/ /\ abandoned' = abandoned
              /\ Status(w, "FAILED") \/ (Status(w, "COMPLETED") /\ At(w, "end"))
    PROVE  JobTypeOK' /\ JobsOwned'
<1>1. PICK k : k = reg(w)
  OBVIOUS
<1>2. /\ \A v \in Workers \ {w} : (InTask(v)' <=> InTask(v)) /\ reg(v)' = reg(v) /\ job'[v] = job[v]
      /\ ~InTask(w)'
  BY Moves DEF JobInv, Idle, Places
<1>3. k \in Jobs /\ Open(k) /\ k \notin abandoned
  BY <1>1, JobFields DEF JobInv, JobsTyped, JobsOwned, InTask, reg
<1>4. \A v \in Workers \ {w} : InTask(v) => reg(v) # k
  BY <1>1 DEF JobInv, JobsOwned
<1>5. /\ jobs' \in [Jobs -> {"PENDING", "RUNNING", "COMPLETED", "FAILED", Absent}]
      /\ \A j \in Jobs \ {k} : jobs'[j] = jobs[j]
      /\ jobs'[k] = "COMPLETED" => models[k] = "scanned"
      /\ Open(k)' <=> k \in abandoned'
  <2>1. CASE jobs' = jobs /\ abandoned' = abandoned \cup {reg(w)}
    BY <1>1, <1>3, <2>1 DEF JobInv, JobTypeOK, Open
  <2>2. CASE abandoned' = abandoned /\ Status(w, "FAILED")
    BY <1>1, <1>3, <2>2 DEF Status, JobInv, JobTypeOK, Open
  <2>3. CASE abandoned' = abandoned /\ Status(w, "COMPLETED") /\ At(w, "end")
    BY <1>1, <1>3, <2>3 DEF Status, At, JobInv, JobTypeOK, JobsOwned, Open
  <2> QED
    BY <2>1, <2>2, <2>3
<1>6. /\ abandoned' \subseteq Jobs /\ abandoned' \subseteq abandoned \cup {k}
      /\ abandoned \subseteq abandoned'
  BY <1>1, <1>3 DEF JobInv, JobTypeOK
<1>7. JobTypeOK'
  BY <1>5, <1>6 DEF JobInv, JobTypeOK
<1>8. \A j \in Jobs \ {k} : Open(j)' <=> Open(j)
  BY <1>5 DEF Open
<1>9. \A v \in Workers : InTask(v) => reg(v) \in Jobs
  BY JobFields DEF JobInv, JobsTyped, InTask, reg
<1>10. ASSUME NEW v \in Workers, InTask(v)'
       PROVE  /\ Open(reg(v))' /\ (reg(v) \notin abandoned)'
              /\ \A u \in Workers : InTask(u)' /\ reg(u)' = reg(v)' => u = v
              /\ job'[v].at = "end" => models'[reg(v)'] = "scanned"
  <2>1. v # w /\ InTask(v) /\ reg(v)' = reg(v) /\ job'[v] = job[v] /\ reg(v) \in Jobs \ {k}
    BY <1>2, <1>4, <1>9, <1>10
  <2> QED
    BY <1>2, <1>5, <1>6, <1>8, <2>1 DEF JobInv, JobsOwned, Open
<1>11. ASSUME NEW j \in Jobs, Open(j)'
       PROVE  j \in abandoned' \/ \E v \in Workers : InTask(v)' /\ reg(v)' = j
  <2>1. CASE j = k
    BY <1>5, <1>11, <2>1
  <2>2. CASE j # k
    BY <1>1, <1>2, <1>6, <1>8, <1>11, <2>2 DEF JobInv, JobsOwned
  <2> QED
    BY <2>1, <2>2
<1>12. \A j \in abandoned' : Open(j)'
  BY <1>5, <1>6, <1>8 DEF JobInv, JobTypeOK, JobsOwned
<1>13. \A j \in Jobs : jobs'[j] = "COMPLETED" => models'[j] = "scanned"
  BY <1>5 DEF JobInv, JobsOwned
<1> QED
  BY <1>7, <1>10, <1>11, <1>12, <1>13 DEF JobsOwned, Open

LEMMA RegisterKeepsJobs ==
    ASSUME JobInv, NEW w \in Workers, NEW k \in Jobs, Register(w, k)
    PROVE  JobTypeOK' /\ JobsOwned'
<1>1. PICK next : Goto(w, next) /\ next.reg = k /\ next.at \in {"download", "upload"}
  BY DEF Register
<1>2. /\ \A v \in Workers \ {w} : (InTask(v)' <=> InTask(v)) /\ reg(v)' = reg(v) /\ job'[v] = job[v]
      /\ InTask(w)' /\ reg(w)' = k /\ job'[w].at # "end"
  BY <1>1, Moves DEF JobInv, Places
<1>3. ~InTask(w)
  BY DEF Register, Free, InTask, Idle
<1>4. /\ jobs[k] = Absent /\ jobs' = [jobs EXCEPT ![k] = "PENDING"]
      /\ UNCHANGED <<models, abandoned>>
  BY DEF Register
<1>5. ~Open(k) /\ k \notin abandoned /\ jobs[k] # "COMPLETED"
  BY <1>4, JobsAssumption DEF JobInv, JobsOwned, Open
<1>6. JobTypeOK' /\ Open(k)' /\ jobs'[k] # "COMPLETED" /\ \A j \in Jobs \ {k} : jobs'[j] = jobs[j]
  BY <1>4 DEF JobInv, JobTypeOK, Open
<1>7. \A v \in Workers : InTask(v) => reg(v) \in Jobs \ {k}
  BY <1>5, JobFields DEF JobInv, JobsOwned, JobsTyped, InTask, reg
<1>8. ASSUME NEW v \in Workers, InTask(v)'
      PROVE  /\ Open(reg(v))' /\ (reg(v) \notin abandoned)'
             /\ \A u \in Workers : InTask(u)' /\ reg(u)' = reg(v)' => u = v
             /\ job'[v].at = "end" => models'[reg(v)'] = "scanned"
  <2>1. CASE v = w
    BY <1>2, <1>4, <1>5, <1>6, <1>7, <2>1
  <2>2. CASE v # w
    <3>1. InTask(v) /\ reg(v)' = reg(v) /\ job'[v] = job[v] /\ reg(v) \in Jobs \ {k}
      BY <1>2, <1>7, <1>8, <2>2
    <3> QED
      BY <1>2, <1>4, <1>6, <3>1 DEF JobInv, JobsOwned, Open
  <2> QED
    BY <2>1, <2>2
<1>9. ASSUME NEW j \in Jobs, Open(j)'
      PROVE  j \in abandoned' \/ \E v \in Workers : InTask(v)' /\ reg(v)' = j
  <2>1. CASE j = k
    BY <1>2, <2>1
  <2>2. CASE j # k
    BY <1>2, <1>3, <1>4, <1>6, <1>9, <2>2 DEF JobInv, JobsOwned, Open
  <2> QED
    BY <2>1, <2>2
<1>10. \A j \in abandoned' : Open(j)'
  BY <1>4, <1>5, <1>6 DEF JobInv, JobTypeOK, JobsOwned, Open
<1>11. \A j \in Jobs : jobs'[j] = "COMPLETED" => models'[j] = "scanned"
  BY <1>4, <1>6 DEF JobInv, JobsOwned
<1> QED
  BY <1>6, <1>8, <1>9, <1>10, <1>11 DEF JobsOwned, Open

LEMMA TasksKeepJobs ==
    ASSUME JobInv, NEW w \in Workers, JobStep(w)
    PROVE  JobTypeOK' /\ JobsOwned'
<1>1. /\ InTask(w) /\ reg(w) \in Jobs
      /\ jobs \in [Jobs -> {"PENDING", "RUNNING", "COMPLETED", "FAILED", Absent}]
      /\ models \in [Jobs -> {"none", "saved", "scanned"}]
  BY JobFields DEF JobStep, Start, LoseError, Raise, SaveModel, Scan, Observed, SaveScan, EndJob, At, InTask,
                   reg, JobInv, JobsTyped, JobTypeOK
<1> DEFINE stored == models[reg(w)]
<1>2. stored \in {"none", "saved", "scanned"} /\ models = [models EXCEPT ![reg(w)] = stored]
  BY <1>1
<1>3. CASE Start(w)
  <2>1. "fetch" \in Places /\ "fetch" # "end" /\ Proceed(w, "fetch") /\ Status(w, "RUNNING")
        /\ UNCHANGED <<models, abandoned>>
    BY <1>3 DEF Start, Places
  <2> HIDE DEF stored
  <2> QED
    BY <1>1, <1>2, <2>1, ProceedKeepsJobs
<1>4. CASE Raise(w) \/ Scan(w) \/ Observed(w)
  <2>1. PICK place \in Places \ {"end"} : Proceed(w, place) /\ UNCHANGED <<jobs, models, abandoned>>
    BY <1>4 DEF Raise, Scan, Observed, Places, jobVars
  <2> HIDE DEF stored
  <2> QED
    BY <1>1, <1>2, <2>1, ProceedKeepsJobs
<1>5. CASE SaveModel(w)
  BY <1>1, <1>5, ProceedKeepsJobs DEF SaveModel, Places
<1>6. CASE SaveScan(w)
  BY <1>1, <1>6, ProceedKeepsJobs DEF SaveScan, Places
<1>7. CASE LoseError(w)
  BY <1>1, <1>7, EndKeepsJobs DEF LoseError
<1>8. CASE EndJob(w)
  <2>1. Status(w, "FAILED") \/ (Status(w, "COMPLETED") /\ At(w, "end"))
    <3>1. CASE At(w, "end")
      BY <1>8, <3>1 DEF EndJob
    <3>2. CASE ~At(w, "end")
      BY <1>8, <3>2 DEF EndJob
    <3> QED
      BY <3>1, <3>2
  <2> QED
    BY <1>1, <1>8, <2>1, EndKeepsJobs DEF EndJob
<1> QED
  BY <1>3, <1>4, <1>5, <1>6, <1>7, <1>8 DEF JobStep

LEMMA OthersKeepJobs ==
    ASSUME JobInv, NEW w \in Workers, UNCHANGED jobVars,
           MonitoringRequest(w) \/ MonitoringStep(w) \/ (~InJob(w) /\ CrashRun(w))
    PROVE  JobTypeOK' /\ JobsOwned'
<1>1. job[w] \in MonitoringJob \cup RegistrationJob /\ JobsTyped
  BY DEF JobInv, JobsTyped
<1>2. ~InTask(w)
  <2>1. CASE ~InJob(w)
    BY <1>1, <2>1, JobFields DEF InJob, InTask
  <2>2. CASE MonitoringRequest(w)
    <3>1. job[w] = Idle
      BY <2>2 DEF MonitoringRequest, Create, Patch, RunNow, RunDue, Free
    <3> QED
      BY <3>1 DEF InTask, Idle
  <2>3. CASE MonitoringStep(w)
    BY <2>3 DEF MonitoringStep, SavePatch, BeginRun, OpenRun, Analyze, CloseRun, FailRun, InTask
  <2> QED
    BY <2>1, <2>2, <2>3
<1>3. PICK next : Goto(w, next) /\ next.at \notin Places
  <2>1. CASE MonitoringRequest(w)
    <3>1. CASE (\E id \in Schedules : RunNow(w, id)) \/ RunDue(w)
      <4>1. \E todo, poll : Goto(w, [at |-> "batch", todo |-> todo, time |-> now, poll |-> poll])
        BY <3>1 DEF RunNow, RunDue
      <4> QED
        BY <4>1 DEF Places
    <3>2. CASE \E id \in Schedules : Create(w, id)
      BY <3>2 DEF Create, Places
    <3>3. CASE \E id \in Schedules, enabled \in BOOLEAN \cup {Keep}, restart \in BOOLEAN :
                 Patch(w, id, enabled, restart)
      BY <3>3 DEF Patch, Places
    <3> QED
      BY <2>1, <3>1, <3>2, <3>3 DEF MonitoringRequest
  <2>2. CASE SavePatch(w) \/ CrashRun(w)
    <3>1. Goto(w, Idle)
      BY <2>2 DEF SavePatch, CrashRun
    <3> QED
      BY <3>1 DEF Places, Idle
  <2>3. CASE BeginRun(w) \/ OpenRun(w)
    <3>1. \E place \in {"open", "analyze"} : \E next : Goto(w, next) /\ next.at = place
      <4>1. CASE BeginRun(w)
        BY <4>1 DEF BeginRun
      <4>2. CASE OpenRun(w)
        BY <4>2 DEF OpenRun
      <4> QED
        BY <2>3, <4>1, <4>2
    <3> QED
      BY <3>1 DEF Places
  <2>4. CASE Analyze(w)
    <3>1. job[w] \in [at : {"analyze", "observe"}, run : Nat, rest : Batch \cup {Idle}]
      BY <1>1, <2>4 DEF Analyze, MonitoringJob, RegistrationJob, Batch, Idle
    <3> QED
      BY <2>4, <3>1 DEF Analyze, Places
  <2>5. CASE CloseRun(w) \/ FailRun(w)
    <3>1. job[w].rest \in Batch \cup {Idle}
      BY <1>1, <2>5, JobFields DEF CloseRun, FailRun
    <3> QED
      BY <2>5, <3>1 DEF CloseRun, FailRun, Places, Batch, Idle
  <2> QED
    BY <2>1, <2>2, <2>3, <2>4, <2>5 DEF MonitoringStep
<1> QED
  BY <1>1, <1>2, <1>3, Moves, QuietKeepsJobs

LEMMA JobsStay == ASSUME JobInv, UNCHANGED <<job, jobVars>> PROVE JobTypeOK' /\ JobsOwned'
BY DEF JobInv, jobVars, JobTypeOK, JobsOwned, InTask, Open, reg

LEMMA StepKeepsJobs == JobsTyped' /\ JobInv /\ [Next]_vars => JobInv'
<1> SUFFICES ASSUME JobsTyped', JobInv, [Next]_vars
             PROVE  JobInv'
  OBVIOUS
<1>1. requests' \in 0..MaxRequests
  <2>1. requests' = requests \/ (requests < MaxRequests /\ requests' = requests + 1)
    <3>1. \A w \in Workers : Request(w) => requests < MaxRequests /\ requests' = requests + 1
      BY DEF Request
    <3>2. Next => (\E w \in Workers : Request(w)) \/ UNCHANGED requests
      BY DEF Next, Unasked
    <3>3. UNCHANGED vars => UNCHANGED requests
      BY DEF vars
    <3> QED
      BY <3>1, <3>2, <3>3
  <2> QED
    BY <2>1, JobsAssumption DEF JobInv
<1>2. CASE UNCHANGED vars
  BY <1>1, <1>2, JobsStay DEF JobInv, vars, monitoringVars
<1>3. CASE Tick /\ UNCHANGED jobVars
  BY <1>1, <1>3, JobsStay DEF JobInv, Tick
<1>4. ASSUME NEW w \in Workers, Request(w)
      PROVE  JobInv'
  <2>1. CASE \E r \in Risks, change \in Changes : EditRisk(w, r, change)
    BY <1>1, <2>1, JobsStay DEF JobInv, EditRisk, monitoringVars
  <2>2. CASE MonitoringRequest(w) /\ UNCHANGED jobVars
    <3>1. JobTypeOK' /\ JobsOwned'
      BY <2>2, OthersKeepJobs
    <3> QED
      BY <1>1, <3>1 DEF JobInv
  <2>3. CASE \E j \in Jobs : Register(w, j)
    BY <1>1, <2>3, RegisterKeepsJobs DEF JobInv
  <2> QED
    BY <1>4, <2>1, <2>2, <2>3 DEF Request
<1>5. ASSUME NEW w \in Workers, Work(w)
      PROVE  JobInv'
  <2>1. CASE RegisterStep(w) /\ UNCHANGED <<monitoringVars, jobVars>>
    BY <1>1, <2>1, JobsStay DEF JobInv, monitoringVars
  <2>2. CASE MonitoringStep(w) /\ UNCHANGED jobVars
    <3>1. JobTypeOK' /\ JobsOwned'
      BY <2>2, OthersKeepJobs
    <3> QED
      BY <1>1, <3>1 DEF JobInv
  <2>3. CASE JobStep(w)
    BY <1>1, <2>3, TasksKeepJobs DEF JobInv
  <2> QED
    BY <1>5, <2>1, <2>2, <2>3 DEF Work
<1>6. ASSUME NEW w \in Workers, Crash(w)
      PROVE  JobInv'
  <2>1. CASE UNCHANGED <<monitoringVars, jobVars>>
    BY <1>1, <2>1, JobsStay DEF JobInv, monitoringVars
  <2>2. CASE CrashJob(w)
    <3>1. InTask(w)
      BY <2>2, JobFields DEF CrashJob, InJob, InTask, JobInv, JobsTyped
    <3> QED
      BY <1>1, <2>2, <3>1, EndKeepsJobs DEF JobInv, CrashJob
  <2> QED
    BY <1>1, <1>6, <2>1, <2>2, OthersKeepJobs DEF JobInv, Crash
<1> QED
  BY <1>2, <1>3, <1>4, <1>5, <1>6 DEF Next, Unasked

LEMMA InitWork == Init => RunInv /\ JobInv
<1> SUFFICES ASSUME Init
             PROVE  RunInv /\ JobInv
  OBVIOUS
<1>1. JobsTyped /\ \A w \in Workers : job[w] = Idle
  BY InitScheduleInv DEF ScheduleInv, Init, MonitoringInit
<1>2. runs = <<>> /\ Len(runs) = 0 /\ orphans = {}
  BY DEF Init, MonitoringInit
<1>3. \A w \in Workers : ~OnRun(w) /\ ~InTask(w) /\ job[w].at = "idle"
  BY <1>1 DEF Idle, OnRun, InTask
<1>4. Opening = {} /\ Cardinality(Opening) = 0
  <2>1. Opening = {}
    BY <1>3 DEF Opening
  <2> QED
    BY <2>1, FS_EmptySet
<1>5. RunInv
  BY <1>1, <1>2, <1>3, <1>4, MonitoringAssumption DEF RunInv, RunsOwned, FindingsWritten
<1>6. JobTypeOK /\ requests \in 0..MaxRequests
  BY JobsAssumption DEF Init, JobTypeOK
<1>7. JobsOwned
  BY <1>3, JobsAssumption DEF Init, JobsOwned, Open
<1> QED
  BY <1>1, <1>5, <1>6, <1>7 DEF JobInv

(* A step of the whole changes the register as the register alone allows.  *)
LEMMA StepIsRegisterStep == [Next]_vars => [RegisterNext]_registerVars
<1> SUFFICES ASSUME [Next]_vars
             PROVE  [RegisterNext]_registerVars
  OBVIOUS
<1>1. CASE UNCHANGED vars
  BY <1>1 DEF vars
<1>2. CASE Tick
  BY <1>2 DEF Tick
<1>3. ASSUME NEW w \in Workers, Request(w)
      PROVE  [RegisterNext]_registerVars
  <2>1. CASE MonitoringRequest(w)
    BY <2>1 DEF MonitoringRequest, Create, Patch, RunNow, RunDue
  <2>2. CASE \E r \in Risks, change \in Changes : EditRisk(w, r, change)
    BY <2>2 DEF EditRisk, RegisterNext
  <2>3. CASE \E j \in Jobs : Register(w, j)
    BY <2>3 DEF Register
  <2> QED
    BY <1>3, <2>1, <2>2, <2>3 DEF Request
<1>4. ASSUME NEW w \in Workers, Work(w)
      PROVE  [RegisterNext]_registerVars
  <2>1. CASE RegisterStep(w)
    BY <2>1 DEF RegisterNext
  <2>2. CASE MonitoringStep(w)
    <3>1. CASE Analyze(w)
      BY <3>1 DEF Analyze, RegisterNext
    <3>2. CASE CloseRun(w)
      BY <3>2 DEF CloseRun, RegisterNext
    <3>3. CASE SavePatch(w) \/ BeginRun(w) \/ OpenRun(w) \/ FailRun(w)
      BY <3>3 DEF SavePatch, BeginRun, OpenRun, FailRun
    <3> QED
      BY <2>2, <3>1, <3>2, <3>3 DEF MonitoringStep
  <2>3. CASE JobStep(w)
    <3>1. CASE Scan(w)
      BY <3>1 DEF Scan, RegisterNext
    <3>2. CASE Observed(w)
      BY <3>2 DEF Observed, RegisterNext
    <3>3. CASE Start(w) \/ LoseError(w) \/ Raise(w) \/ SaveModel(w) \/ SaveScan(w) \/ EndJob(w)
      BY <3>3 DEF Start, LoseError, Raise, SaveModel, SaveScan, EndJob
    <3> QED
      BY <2>3, <3>1, <3>2, <3>3 DEF JobStep
  <2> QED
    BY <1>4, <2>1, <2>2, <2>3 DEF Work
<1>5. ASSUME NEW w \in Workers, Crash(w)
      PROVE  [RegisterNext]_registerVars
  <2>1. Die(w)
    BY <1>5 DEF Crash, CrashRun, CrashJob
  <2> QED
    BY <2>1 DEF RegisterNext
<1> QED
  BY <1>1, <1>2, <1>3, <1>4, <1>5 DEF Next, Unasked

(* The composition implements the register: its handlers call it one step  *)
(* at a time (scan_model, _execute, update), and do nothing else to it.    *)
THEOREM ImplementsRegister == Spec => RegisterSpec
<1>1. Init => RegisterInit
  BY DEF Init
<1>2. [Next]_vars => [RegisterNext]_registerVars
  BY StepIsRegisterStep
<1> QED
  BY <1>1, <1>2, PTL DEF Spec, RegisterSpec

(* Every run that is RUNNING and every job that has not ended has the      *)
(* handler that works on it or had one that died, a run reported COMPLETE  *)
(* has its findings in the register and a COMPLETED job its model scanned  *)
(* (_execute, _run_job, scan_model): for any number of handlers and jobs.  *)
THEOREM WorkAlwaysTellsTheTruth == Spec => []WorkTellsTheTruth
<1>1. Spec => []RegisterTypeOK
  BY ImplementsRegister, RegisterTypeCorrect, PTL
<1>2. Spec => []ScheduleInv
  BY InitScheduleInv, StepKeepsSchedules, PTL DEF Spec
<1>3. ScheduleInv => JobsTyped
  BY DEF ScheduleInv
<1>4. Spec => []RunInv
  BY <1>1, <1>2, <1>3, InitWork, StepKeepsRuns, PTL DEF Spec
<1>5. Spec => []JobInv
  BY <1>2, <1>3, InitWork, StepKeepsJobs, PTL DEF Spec
<1>6. RegisterTypeOK /\ ScheduleInv /\ RunInv /\ JobInv => WorkTellsTheTruth
  <2> SUFFICES ASSUME RegisterTypeOK, ScheduleInv, RunInv, JobInv
               PROVE  WorkTellsTheTruth
    OBVIOUS
  <2>1. Len(runs) <= MaxRuns /\ orphans \subseteq 1..MaxRuns
    <3>1. Cardinality(Opening) \in Nat /\ Len(runs) \in Nat /\ Len(runs) + Cardinality(Opening) <= MaxRuns
      BY RegisterAssumption, FS_Subset, FS_CardinalityType DEF RunInv, JobsTyped, Opening
    <3>2. orphans \subseteq 1..Len(runs)
      BY DEF RunInv, RunsOwned, Running
    <3> QED
      BY <3>1, <3>2, MonitoringAssumption
  <2>2. TypeOK
    BY <2>1 DEF TypeOK, MonitoringTypeOK, ScheduleInv, ScheduleTypeOK, JobsTyped, JobInv, JobTypeOK
  <2>3. RunsTellTheTruth
    BY DEF RunsTellTheTruth, RunInv, RunsOwned, FindingsWritten, Running, Working, OnRun
  <2>4. \A w \in Workers : InJob(w) <=> InTask(w)
    BY JobFields DEF InJob, InTask, JobInv, JobsTyped
  <2> QED
    BY <2>2, <2>3, <2>4 DEF WorkTellsTheTruth, JobInv, JobsOwned, JobTypeOK, Open
<1> QED
  BY <1>1, <1>2, <1>4, <1>5, <1>6, PTL

(* So, with monitoring, jobs and deaths: every stored risk has the owner   *)
(* and the rationale its status requires, unless a stale write tore it.    *)
THEOREM WorkKeepsRegisterSound == Spec => []RegisterSound
BY ImplementsRegister, RegisterStaysSound, PTL

(* So a risk that anything observes again is open again.                   *)
THEOREM WorkReopensResolved == Spec => []ResolvedIsUnseen
BY ImplementsRegister, ResolvedStaysUnseen, PTL

(* So no observation and no edit goes uncounted.                           *)
THEOREM WorkCountsEverything == Spec => []NothingUncounted
BY ImplementsRegister, NothingGoesUncounted, PTL
=============================================================================
