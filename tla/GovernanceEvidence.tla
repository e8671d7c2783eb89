------------------------ MODULE GovernanceEvidence ------------------------
(***************************************************************************)
(* The evidence workflow: GovernanceEvidenceEngine.submit and .review, and *)
(* the use GovernanceEngine.evaluate makes of reviewed evidence.           *)
(*                                                                         *)
(* Workers are handlers that run concurrently; each store call is one      *)
(* step.  Time is a count of ticks; TicksPerSecond ticks make a second.    *)
(* The program compares times as ISO strings, which Stamp models.          *)
(***************************************************************************)
EXTENDS Integers, FiniteSets

CONSTANTS Workers, Ids, Controls,
          FieldSets,         \* sets of fields a submission may have
          Names,             \* what people type as submitted_by / reviewer
          Fold,              \* [Names -> folded names]: strip().casefold()
          Gaps,              \* [Controls -> sets of fields], the artifact's
                             \* missing_evidence: each set is an "a or b" entry
          Absent,            \* no such evidence row
          Never,             \* expires_at is None
          TicksPerSecond,
          MaxTime            \* bound on the clock

ASSUME EvidenceAssumption ==
    /\ TicksPerSecond \in Nat \ {0} /\ MaxTime \in Nat
    /\ DOMAIN Fold = Names
    /\ Gaps \in [Controls -> SUBSET SUBSET UNION FieldSets]
    /\ Never \notin Nat

VARIABLES evidence,     \* table control_evidence: [Ids -> row or Absent]
          now,          \* the clock
          job,          \* [Workers -> the handler in progress]
          audited,      \* control_evidence_reviewed events: <<id, status, reviewer>>
          evaluations   \* history: the records evaluate returned

vars == <<evidence, now, job, audited, evaluations>>

Reviewed == {"APPROVED", "REJECTED"}
Time == 0..MaxTime
Row == [control : Controls, fields : FieldSets, by : Names,
        expires : Time \cup {Never}, status : {"PENDING"} \cup Reviewed,
        reviewer : Names, reviewedAt : Time]

ASSUME AbsentAssumption == Absent \notin Row

Evaluation == [stamp : Time, applied : SUBSET Ids, satisfied : SUBSET Controls]

Idle == [at |-> "idle"]
Job == {Idle}
       \cup [at : {"write", "audit"}, id : Ids, status : Reviewed, reviewer : Names,
             stamp : Time]
       \cup [at : {"list"}, stamp : Time]

TypeOK ==
    /\ evidence \in [Ids -> {Absent} \cup Row]
    /\ now \in Time
    /\ job \in [Workers -> Job]
    /\ audited \subseteq Ids \X Reviewed \X Names
    /\ evaluations \subseteq Evaluation
-----------------------------------------------------------------------------
(* isoformat() leaves the fraction out when it is zero, and "Z" sorts      *)
(* after ".": as a string a whole second comes after every fraction of it. *)
Stamp(t) == IF t % TicksPerSecond = 0 THEN t + TicksPerSecond ELSE t

(* _is_expired: a comparison of two such strings.                          *)
IsExpired(row, t) == row.expires # Never /\ Stamp(row.expires) <= Stamp(t)

ApprovedAnyTime(table, t) ==               \* mutant: expiry is not looked at again
    {id \in Ids : table[id] # Absent /\ table[id].status = "APPROVED"}

(* approved_evidence                                                       *)
ApprovedEvidence(table, t) ==
    {id \in Ids : /\ table[id] # Absent
                  /\ table[id].status = "APPROVED"
                  /\ ~IsExpired(table[id], t)}

(* _apply_evidence: the fields of all the records of a control together    *)
(* cover its gaps, one option of each gap being enough.                    *)
Covered(table, ids, c) ==
    UNION {table[id].fields : id \in {i \in ids : table[i].control = c}}
SatisfiedByOne(table, ids) ==              \* mutant: one record has to cover it all
    {c \in Controls : \E id \in ids : \A gap \in Gaps[c] : gap \cap Covered(table, {id}, c) # {}}
Satisfied(table, ids) ==
    {c \in Controls : \A gap \in Gaps[c] : gap \cap Covered(table, ids, c) # {}}

Init ==
    /\ evidence = [id \in Ids |-> Absent]
    /\ now = 0
    /\ job = [w \in Workers |-> Idle]
    /\ audited = {} /\ evaluations = {}

Tick == /\ now < MaxTime /\ now' = now + 1
        /\ UNCHANGED <<evidence, job, audited, evaluations>>

(* submit: a new id; at least one field; an expiry after now.  Its audit   *)
(* event and the pending-evidence metric are left out.                     *)
Submit(id, c, fields, by, expires) ==
    /\ evidence[id] = Absent
    /\ fields # {}
    /\ expires # Never => Stamp(expires) > Stamp(now)
    /\ evidence' = [evidence EXCEPT ![id] =
                       [control |-> c, fields |-> fields, by |-> by, expires |-> expires,
                        status |-> "PENDING", reviewer |-> by, reviewedAt |-> now]]
    /\ UNCHANGED <<now, job, audited, evaluations>>

MayReviewByName(row, reviewer, status, t) ==     \* mutant: names compared as typed
    /\ row.status = "PENDING"
    /\ reviewer # row.by
    /\ status = "APPROVED" => ~IsExpired(row, t)

MayReviewExpired(row, reviewer, status, t) ==    \* mutant: expiry is not looked at
    row.status = "PENDING" /\ Fold[reviewer] # Fold[row.by]

(* The checks review makes on the row it has read.                         *)
MayReview(row, reviewer, status, t) ==
    /\ row.status = "PENDING"
    /\ Fold[reviewer] # Fold[row.by]
    /\ status = "APPROVED" => ~IsExpired(row, t)

(* review, up to the store call; now is read once, here.                   *)
BeginReview(w, id, status, reviewer) ==
    /\ job[w] = Idle /\ evidence[id] # Absent
    /\ MayReview(evidence[id], reviewer, status, now)
    /\ job' = [job EXCEPT ![w] = [at |-> "write", id |-> id, status |-> status,
                                  reviewer |-> reviewer, stamp |-> now]]
    /\ UNCHANGED <<evidence, now, audited, evaluations>>

StillPendingUnchecked(id) == TRUE          \* mutant: UPDATE ... WHERE id = ?
StillPending(id) == evidence[id].status = "PENDING"

(* UPDATE ... WHERE id = ? AND status = 'PENDING'; no row: "Evidence was   *)
(* reviewed concurrently".                                                 *)
WriteReview(w) ==
    /\ job[w].at = "write"
    /\ IF StillPending(job[w].id)
       THEN /\ evidence' = [evidence EXCEPT ![job[w].id] =
                               [@ EXCEPT !.status = job[w].status,
                                         !.reviewer = job[w].reviewer,
                                         !.reviewedAt = job[w].stamp]]
            /\ job' = [job EXCEPT ![w] = [@ EXCEPT !.at = "audit"]]
       ELSE /\ job' = [job EXCEPT ![w] = Idle]
            /\ UNCHANGED evidence
    /\ UNCHANGED <<now, audited, evaluations>>

AuditReview(w) ==
    /\ job[w].at = "audit"
    /\ audited' = audited \cup {<<job[w].id, job[w].status, job[w].reviewer>>}
    /\ job' = [job EXCEPT ![w] = Idle]
    /\ UNCHANGED <<evidence, now, evaluations>>

(* evaluate reads the clock, and lists the evidence later.                 *)
BeginEvaluate(w) ==
    /\ job[w] = Idle
    /\ job' = [job EXCEPT ![w] = [at |-> "list", stamp |-> now]]
    /\ UNCHANGED <<evidence, now, audited, evaluations>>

Evaluate(w) ==
    /\ job[w].at = "list"
    /\ LET applied == ApprovedEvidence(evidence, job[w].stamp)
       IN evaluations' = evaluations \cup
             {[stamp |-> job[w].stamp, applied |-> applied,
               satisfied |-> Satisfied(evidence, applied)]}
    /\ job' = [job EXCEPT ![w] = Idle]
    /\ UNCHANGED <<evidence, now, audited>>

(* A worker dies, or a store call fails: the handler ends where it is.     *)
Abort(w) == /\ job[w] # Idle
            /\ job' = [job EXCEPT ![w] = Idle]
            /\ UNCHANGED <<evidence, now, audited, evaluations>>

Next ==
    \/ Tick
    \/ \E id \in Ids, c \in Controls, fields \in FieldSets, by \in Names,
          expires \in Time \cup {Never} : Submit(id, c, fields, by, expires)
    \/ \E w \in Workers :
          \/ \E id \in Ids, status \in Reviewed, reviewer \in Names :
                BeginReview(w, id, status, reviewer)
          \/ WriteReview(w) \/ AuditReview(w)
          \/ BeginEvaluate(w) \/ Evaluate(w)
          \/ Abort(w)

Spec == Init /\ [][Next]_vars
-----------------------------------------------------------------------------
IsReviewed(id) == evidence[id] # Absent /\ evidence[id].status \in Reviewed

(* Nobody's review of his own evidence ever counts, however the name is    *)
(* spelled ("self-review is prohibited").                                  *)
IndependentReview ==
    \A id \in Ids : IsReviewed(id) => Fold[evidence[id].reviewer] # Fold[evidence[id].by]

(* Approval is never later than expiry, although the clock moves between   *)
(* the check and the write - by the order the program uses.                *)
ApprovedBeforeExpiry ==
    \A id \in Ids : IsReviewed(id) /\ evidence[id].status = "APPROVED" =>
                       ~IsExpired(evidence[id], evidence[id].reviewedAt)

(* The audit log tells one outcome per evidence, and the one that stands.  *)
AuditAgrees ==
    \A e \in audited : /\ IsReviewed(e[1])
                       /\ e[2] = evidence[e[1]].status
                       /\ e[3] = evidence[e[1]].reviewer

(* A review that stands is by somebody else, in time and in the audit log  *)
(* as it is, whoever reviewed at the same time.                            *)
ReviewsStand == IndependentReview /\ ApprovedBeforeExpiry /\ AuditAgrees

(* A review is final and the submission is never edited: two concurrent    *)
(* reviews cannot both take effect.                                        *)
ReviewedOnce == [][\A id \in Ids : IsReviewed(id) => evidence'[id] = evidence[id]]_vars

(* Whatever evaluate ever returned rests on evidence that an independent   *)
(* reviewer approved and that was valid at the time the record carries.    *)
EvaluationsSound ==
    \A e \in evaluations : \A id \in e.applied :
        /\ IsReviewed(id) /\ evidence[id].status = "APPROVED"
        /\ Fold[evidence[id].reviewer] # Fold[evidence[id].by]
        /\ ~IsExpired(evidence[id], e.stamp)

(* A control is called satisfied exactly when each of its gaps is closed   *)
(* by some record of that control that counted; several records may share  *)
(* the work, and later reviews and expiries do not change what was found.  *)
ControlsCovered ==
    \A e \in evaluations, c \in Controls :
        c \in e.satisfied <=>
            \A gap \in Gaps[c] : \E id \in e.applied :
                evidence[id].control = c /\ gap \cap evidence[id].fields # {}

(* An evaluation calls a control satisfied for the right evidence, and     *)
(* all of it still says so.                                                *)
EvaluationsStand == EvaluationsSound /\ ControlsCovered
=============================================================================
