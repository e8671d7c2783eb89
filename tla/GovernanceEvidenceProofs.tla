---------------------- MODULE GovernanceEvidenceProofs ----------------------
(***************************************************************************)
(* Proofs about GovernanceEvidence, for every number of handlers, pieces   *)
(* of evidence and people, and for every resolution of the clock.          *)
(***************************************************************************)
EXTENDS GovernanceEvidence, TLAPS

(* What a handler that passed the checks of review still knows when it     *)
(* writes: the submission is immutable, so the checks cannot go stale;     *)
(* after the write the row carries its decision until the audit event.     *)
JobsSound ==
    \A w \in Workers :
        /\ job[w].at = "write" =>
              /\ evidence[job[w].id] # Absent
              /\ Fold[job[w].reviewer] # Fold[evidence[job[w].id].by]
              /\ job[w].status = "APPROVED" => ~IsExpired(evidence[job[w].id], job[w].stamp)
        /\ job[w].at = "audit" =>
              /\ evidence[job[w].id] # Absent
              /\ evidence[job[w].id].status = job[w].status
              /\ evidence[job[w].id].reviewer = job[w].reviewer

IInv == /\ TypeOK
        /\ JobsSound
        /\ IndependentReview
        /\ AuditAgrees
        /\ ApprovedBeforeExpiry
        /\ EvaluationsSound
        /\ ControlsCovered
-----------------------------------------------------------------------------
(* No row is the absent one: Absent is a value of its own.                 *)
LEMMA RowOf ==
    ASSUME TypeOK, NEW id \in Ids, evidence[id] # Absent
    PROVE  evidence[id] \in Row
BY DEF TypeOK

(* Reviewed rows, whatever step is taken, stay as they are.                *)
LEMMA ReviewedStay ==
    ASSUME TypeOK, [Next]_vars, NEW id \in Ids, IsReviewed(id)
    PROVE  evidence'[id] = evidence[id]
<1>1. CASE UNCHANGED evidence
  BY <1>1
<1>2. ASSUME NEW i \in Ids, NEW c \in Controls, NEW fields \in FieldSets,
             NEW by \in Names, NEW expires \in Time \cup {Never},
             Submit(i, c, fields, by, expires)
      PROVE  evidence'[id] = evidence[id]
  BY <1>2 DEF Submit, IsReviewed, TypeOK
<1>3. ASSUME NEW w \in Workers, WriteReview(w)
      PROVE  evidence'[id] = evidence[id]
  BY <1>3 DEF WriteReview, StillPending, IsReviewed, Reviewed, TypeOK
<1>. QED
  BY <1>1, <1>2, <1>3 DEF Next, Tick, BeginReview, AuditReview, BeginEvaluate, Evaluate,
     Abort, vars

(* What submission wrote never changes, and no row disappears.             *)
LEMMA SubmissionStays ==
    ASSUME TypeOK, [Next]_vars, NEW id \in Ids, evidence[id] # Absent
    PROVE  /\ evidence'[id] # Absent
           /\ evidence'[id].by = evidence[id].by
           /\ evidence'[id].expires = evidence[id].expires
<1>1. CASE UNCHANGED evidence
  BY <1>1
<1>2. ASSUME NEW i \in Ids, NEW c \in Controls, NEW fields \in FieldSets,
             NEW by \in Names, NEW expires \in Time \cup {Never},
             Submit(i, c, fields, by, expires)
      PROVE  evidence'[id] = evidence[id]
  BY <1>2 DEF Submit, TypeOK
<1>3. ASSUME NEW w \in Workers, WriteReview(w)
      PROVE  /\ evidence'[id] # Absent
             /\ evidence'[id].by = evidence[id].by
             /\ evidence'[id].expires = evidence[id].expires
  <2>1. evidence[id] \in Row
    BY RowOf
  <2>2. CASE evidence'[id] = evidence[id]
    BY <2>2
  <2>3. CASE job[w].id = id /\ StillPending(id)
    <3>1. evidence'[id] = [evidence[id] EXCEPT !.status = job[w].status,
                                               !.reviewer = job[w].reviewer,
                                               !.reviewedAt = job[w].stamp]
      BY <1>3, <2>3 DEF WriteReview, TypeOK
    <3>2. job[w].status \in Reviewed /\ job[w].reviewer \in Names /\ job[w].stamp \in Time
      BY <1>3 DEF WriteReview, TypeOK, Job, Idle
    <3>3. evidence'[id] \in Row
      BY <2>1, <3>1, <3>2 DEF Row
    <3>. QED
      BY <2>1, <3>1, <3>3, AbsentAssumption DEF Row
  <2>. QED
    BY <1>3, <2>2, <2>3 DEF WriteReview, TypeOK
<1>. QED
  BY <1>1, <1>2, <1>3 DEF Next, Tick, BeginReview, AuditReview, BeginEvaluate, Evaluate,
     Abort, vars

(* A successful WriteReview, spelled out.                                  *)
LEMMA ReviewWritten ==
    ASSUME TypeOK, JobsSound, NEW w \in Workers, WriteReview(w), StillPending(job[w].id)
    PROVE  LET id == job[w].id
               new == evidence'[id]
           IN /\ id \in Ids /\ evidence[id] \in Row
              /\ new \in Row
              /\ new.status = job[w].status /\ new.reviewer = job[w].reviewer
              /\ new.reviewedAt = job[w].stamp
              /\ new.by = evidence[id].by /\ new.expires = evidence[id].expires
              /\ evidence' = [evidence EXCEPT ![id] = new]
<1>. DEFINE id == job[w].id
            new == [evidence[id] EXCEPT !.status = job[w].status,
                                        !.reviewer = job[w].reviewer,
                                        !.reviewedAt = job[w].stamp]
<1>1. /\ id \in Ids /\ job[w].status \in Reviewed
      /\ job[w].reviewer \in Names /\ job[w].stamp \in Time
  BY DEF WriteReview, TypeOK, Job, Idle
<1>2. evidence[id] \in Row
  BY <1>1, RowOf DEF JobsSound, WriteReview
<1>3. evidence' = [evidence EXCEPT ![id] = new]
  BY DEF WriteReview
<1>4. evidence'[id] = new
  BY <1>1, <1>3 DEF TypeOK
<1>5. /\ new \in Row
      /\ new.status = job[w].status /\ new.reviewer = job[w].reviewer
      /\ new.reviewedAt = job[w].stamp
      /\ new.by = evidence[id].by /\ new.expires = evidence[id].expires
  BY <1>1, <1>2 DEF Row
<1>. HIDE DEF new
<1>. QED
  BY <1>1, <1>2, <1>3, <1>4, <1>5

(* Every handler step keeps the workflow well typed.                       *)
LEMMA NextTypeOK == IInv /\ [Next]_vars => TypeOK'
<1>. SUFFICES ASSUME IInv, [Next]_vars PROVE TypeOK'
  OBVIOUS
<1>. USE DEF IInv, TypeOK
<1>1. CASE Tick
  BY <1>1, EvidenceAssumption DEF Tick, Time
<1>2. ASSUME NEW id \in Ids, NEW c \in Controls, NEW fields \in FieldSets,
             NEW by \in Names, NEW expires \in Time \cup {Never},
             Submit(id, c, fields, by, expires)
      PROVE  TypeOK'
  BY <1>2 DEF Submit, Row
<1>3. ASSUME NEW w \in Workers, NEW id \in Ids, NEW status \in Reviewed,
             NEW reviewer \in Names, BeginReview(w, id, status, reviewer)
      PROVE  TypeOK'
  BY <1>3 DEF BeginReview, Job
<1>4. ASSUME NEW w \in Workers, WriteReview(w) PROVE TypeOK'
  <2>1. /\ job[w].id \in Ids /\ job[w].status \in Reviewed
        /\ job[w].reviewer \in Names /\ job[w].stamp \in Time
    BY <1>4 DEF WriteReview, Job, Idle
  <2>2. [job[w] EXCEPT !.at = "audit"] \in Job
    BY <1>4 DEF WriteReview, Job, Idle
  <2>3. job' \in [Workers -> Job]
    BY <1>4, <2>2 DEF WriteReview, Job
  <2>4. evidence' \in [Ids -> {Absent} \cup Row]
    BY <1>4, ReviewWritten DEF WriteReview
  <2>. QED
    BY <1>4, <2>3, <2>4 DEF WriteReview
<1>5. ASSUME NEW w \in Workers, AuditReview(w) PROVE TypeOK'
  <2>1. /\ job[w].id \in Ids /\ job[w].status \in Reviewed /\ job[w].reviewer \in Names
    BY <1>5 DEF AuditReview, Job, Idle
  <2>. QED
    BY <1>5, <2>1 DEF AuditReview, Job
<1>6. ASSUME NEW w \in Workers, BeginEvaluate(w) PROVE TypeOK'
  BY <1>6 DEF BeginEvaluate, Job
<1>7. ASSUME NEW w \in Workers, Evaluate(w) PROVE TypeOK'
  <2>1. job[w].stamp \in Time
    BY <1>7 DEF Evaluate, Job, Idle
  <2>2. ApprovedEvidence(evidence, job[w].stamp) \subseteq Ids
    BY DEF ApprovedEvidence
  <2>3. Satisfied(evidence, ApprovedEvidence(evidence, job[w].stamp)) \subseteq Controls
    BY DEF Satisfied
  <2>4. evaluations' \subseteq Evaluation
    BY <1>7, <2>1, <2>2, <2>3 DEF Evaluate, Evaluation
  <2>. QED
    BY <1>7, <2>4 DEF Evaluate, Job
<1>8. ASSUME NEW w \in Workers, Abort(w) PROVE TypeOK'
  BY <1>8 DEF Abort, Job
<1>9. CASE UNCHANGED vars
  BY <1>9 DEF vars
<1>. QED
  BY <1>1, <1>2, <1>3, <1>4, <1>5, <1>6, <1>7, <1>8, <1>9 DEF Next

(* Expiry depends on the submission only.                                  *)
LEMMA SameExpiry ==
    ASSUME NEW r1, NEW r2, r1.expires = r2.expires, NEW t
    PROVE  IsExpired(r1, t) <=> IsExpired(r2, t)
BY DEF IsExpired

(* What a review has checked stays true until it writes.                   *)
LEMMA NextJobsSound == IInv /\ [Next]_vars => JobsSound'
<1>. SUFFICES ASSUME IInv, [Next]_vars PROVE JobsSound'
  OBVIOUS
<1>. USE DEF IInv
<1>1. TypeOK'
  BY NextTypeOK
<1>2. ASSUME NEW v \in Workers, job'[v] = job[v]
      PROVE  /\ job'[v].at = "write" =>
                   /\ evidence'[job'[v].id] # Absent
                   /\ Fold[job'[v].reviewer] # Fold[evidence'[job'[v].id].by]
                   /\ job'[v].status = "APPROVED" =>
                         ~IsExpired(evidence'[job'[v].id], job'[v].stamp)
             /\ job'[v].at = "audit" =>
                   /\ evidence'[job'[v].id] # Absent
                   /\ evidence'[job'[v].id].status = job'[v].status
                   /\ evidence'[job'[v].id].reviewer = job'[v].reviewer
  <2>1. CASE job[v].at = "write"
    <3>1. job[v].id \in Ids /\ evidence[job[v].id] # Absent
      BY <2>1 DEF TypeOK, Job, Idle, JobsSound
    <3>. QED
      BY <1>2, <2>1, <3>1, SubmissionStays, SameExpiry DEF JobsSound
  <2>2. CASE job[v].at = "audit"
    <3>1. job[v].id \in Ids /\ evidence[job[v].id] # Absent /\ job[v].status \in Reviewed
      BY <2>2 DEF TypeOK, Job, Idle, JobsSound
    <3>2. IsReviewed(job[v].id)
      BY <2>2, <3>1 DEF IsReviewed, JobsSound
    <3>. QED
      BY <1>2, <2>2, <3>1, <3>2, ReviewedStay DEF JobsSound
  <2>. QED
    BY <1>2, <2>1, <2>2
<1>3. ASSUME NEW w \in Workers, job' = [job EXCEPT ![w] = Idle]
      PROVE  JobsSound'
  <2>1. job'[w].at # "write" /\ job'[w].at # "audit"
    BY <1>3 DEF TypeOK, Idle
  <2>2. \A v \in Workers \ {w} : job'[v] = job[v]
    BY <1>3 DEF TypeOK
  <2>. QED
    BY <1>2, <2>1, <2>2 DEF JobsSound
<1>4. CASE UNCHANGED job
  BY <1>2, <1>4 DEF JobsSound
<1>5. ASSUME NEW w \in Workers, NEW id \in Ids, NEW status \in Reviewed,
             NEW reviewer \in Names, BeginReview(w, id, status, reviewer)
      PROVE  JobsSound'
  <2>1. /\ job'[w] = [at |-> "write", id |-> id, status |-> status,
                      reviewer |-> reviewer, stamp |-> now]
        /\ \A v \in Workers \ {w} : job'[v] = job[v]
        /\ evidence' = evidence
    BY <1>5 DEF BeginReview, TypeOK
  <2>2. /\ evidence[id] # Absent
        /\ Fold[reviewer] # Fold[evidence[id].by]
        /\ status = "APPROVED" => ~IsExpired(evidence[id], now)
    BY <1>5 DEF BeginReview, MayReview
  <2>. QED
    BY <1>2, <2>1, <2>2 DEF JobsSound
<1>6. ASSUME NEW w \in Workers, WriteReview(w), StillPending(job[w].id)
      PROVE  JobsSound'
  <2>1. /\ job'[w].at = "audit" /\ job'[w].id = job[w].id
        /\ job'[w].status = job[w].status /\ job'[w].reviewer = job[w].reviewer
    BY <1>6 DEF WriteReview, TypeOK, Job, Idle
  <2>2. \A v \in Workers \ {w} : job'[v] = job[v]
    BY <1>6 DEF WriteReview, TypeOK
  <2>3. /\ evidence'[job[w].id] # Absent
        /\ evidence'[job[w].id].status = job[w].status
        /\ evidence'[job[w].id].reviewer = job[w].reviewer
    BY <1>6, ReviewWritten, AbsentAssumption
  <2>. QED
    BY <1>2, <2>1, <2>2, <2>3 DEF JobsSound
<1>7. ASSUME NEW w \in Workers, BeginEvaluate(w) PROVE JobsSound'
  <2>1. /\ job'[w].at = "list"
        /\ \A v \in Workers \ {w} : job'[v] = job[v]
    BY <1>7 DEF BeginEvaluate, TypeOK
  <2>. QED
    BY <1>2, <2>1 DEF JobsSound
<1>. QED
  BY <1>3, <1>4, <1>5, <1>6, <1>7 DEF Next, Tick, Submit, WriteReview, AuditReview,
     Evaluate, Abort, vars

(* A step either leaves the rows alone, adds a pending one, or reviews one *)
(* after the checks of review.                                             *)
LEMMA RowSteps ==
    ASSUME IInv, [Next]_vars, NEW id \in Ids, IsReviewed(id)'
    PROVE  \/ IsReviewed(id) /\ evidence'[id] = evidence[id]
           \/ /\ evidence[id] # Absent /\ evidence[id].status = "PENDING"
              /\ Fold[evidence'[id].reviewer] # Fold[evidence'[id].by]
              /\ evidence'[id].status = "APPROVED" =>
                    ~IsExpired(evidence'[id], evidence'[id].reviewedAt)
<1>. USE DEF IInv
<1>1. CASE UNCHANGED evidence
  BY <1>1 DEF IsReviewed
<1>2. ASSUME NEW i \in Ids, NEW c \in Controls, NEW fields \in FieldSets,
             NEW by \in Names, NEW expires \in Time \cup {Never},
             Submit(i, c, fields, by, expires)
      PROVE  IsReviewed(id) /\ evidence'[id] = evidence[id]
  BY <1>2 DEF Submit, IsReviewed, Reviewed, TypeOK
<1>3. ASSUME NEW w \in Workers, WriteReview(w), StillPending(job[w].id), job[w].id = id
      PROVE  /\ evidence[id] # Absent /\ evidence[id].status = "PENDING"
             /\ Fold[evidence'[id].reviewer] # Fold[evidence'[id].by]
             /\ evidence'[id].status = "APPROVED" =>
                   ~IsExpired(evidence'[id], evidence'[id].reviewedAt)
  <2>1. job[w].at = "write"
    BY <1>3 DEF WriteReview
  <2>2. IsExpired(evidence'[id], job[w].stamp) <=> IsExpired(evidence[id], job[w].stamp)
    BY <1>3, ReviewWritten, SameExpiry
  <2>. QED
    BY <1>3, <2>1, <2>2, ReviewWritten DEF JobsSound, StillPending
<1>4. ASSUME NEW w \in Workers, WriteReview(w), ~(StillPending(job[w].id) /\ job[w].id = id)
      PROVE  IsReviewed(id) /\ evidence'[id] = evidence[id]
  BY <1>4 DEF WriteReview, IsReviewed, TypeOK
<1>. QED
  BY <1>1, <1>2, <1>3, <1>4 DEF Next, Tick, BeginReview, AuditReview, BeginEvaluate,
     Evaluate, Abort, vars

(* No step breaks independence, validity or the audit log.                 *)
LEMMA NextSafe ==
    IInv /\ [Next]_vars =>
        /\ IndependentReview' /\ AuditAgrees' /\ ApprovedBeforeExpiry'
        /\ EvaluationsSound' /\ ControlsCovered'
<1>. SUFFICES ASSUME IInv, [Next]_vars
              PROVE  IndependentReview' /\ AuditAgrees' /\ ApprovedBeforeExpiry'
                     /\ EvaluationsSound' /\ ControlsCovered'
  OBVIOUS
<1>. USE DEF IInv
<1>1. IndependentReview'
  BY RowSteps DEF IndependentReview
<1>2. ApprovedBeforeExpiry'
  BY RowSteps DEF ApprovedBeforeExpiry
<1>3. AuditAgrees'
  <2>. SUFFICES ASSUME NEW e \in audited'
                PROVE  /\ IsReviewed(e[1])'
                       /\ e[2] = evidence'[e[1]].status
                       /\ e[3] = evidence'[e[1]].reviewer
    BY DEF AuditAgrees
  <2>1. CASE e \in audited
    <3>1. /\ e[1] \in Ids /\ IsReviewed(e[1])
          /\ e[2] = evidence[e[1]].status /\ e[3] = evidence[e[1]].reviewer
      BY <2>1 DEF AuditAgrees, TypeOK
    <3>2. evidence'[e[1]] = evidence[e[1]]
      BY <3>1, ReviewedStay
    <3>. QED
      BY <3>1, <3>2 DEF IsReviewed
  <2>2. CASE e \notin audited
    <3>1. PICK w \in Workers : AuditReview(w)
      BY <2>2 DEF Next, Tick, Submit, BeginReview, WriteReview, BeginEvaluate, Evaluate,
         Abort, vars
    <3>2. /\ e = <<job[w].id, job[w].status, job[w].reviewer>>
          /\ evidence' = evidence /\ job[w].at = "audit"
      BY <2>2, <3>1 DEF AuditReview
    <3>3. job[w].status \in Reviewed
      BY <3>2 DEF TypeOK, Job, Idle
    <3>. QED
      BY <3>2, <3>3 DEF JobsSound, IsReviewed
  <2>. QED
    BY <2>1, <2>2
<1>4. EvaluationsSound'
  <2>. SUFFICES ASSUME NEW e \in evaluations', NEW id \in e.applied
                PROVE  /\ IsReviewed(id)' /\ evidence'[id].status = "APPROVED"
                       /\ Fold[evidence'[id].reviewer] # Fold[evidence'[id].by]
                       /\ ~IsExpired(evidence'[id], e.stamp)
    BY DEF EvaluationsSound
  <2>1. CASE e \in evaluations
    <3>1. /\ id \in Ids /\ IsReviewed(id) /\ evidence[id].status = "APPROVED"
          /\ Fold[evidence[id].reviewer] # Fold[evidence[id].by]
          /\ ~IsExpired(evidence[id], e.stamp)
      BY <2>1 DEF EvaluationsSound, TypeOK, Evaluation
    <3>2. evidence'[id] = evidence[id]
      BY <3>1, ReviewedStay
    <3>. QED
      BY <3>1, <3>2 DEF IsReviewed
  <2>2. CASE e \notin evaluations
    <3>1. PICK w \in Workers : Evaluate(w)
      BY <2>2 DEF Next, Tick, Submit, BeginReview, WriteReview, AuditReview, BeginEvaluate,
         Abort, vars
    <3>2. /\ e.applied = ApprovedEvidence(evidence, job[w].stamp)
          /\ e.stamp = job[w].stamp /\ evidence' = evidence
      BY <2>2, <3>1 DEF Evaluate
    <3>3. /\ id \in Ids /\ evidence[id] # Absent /\ evidence[id].status = "APPROVED"
          /\ ~IsExpired(evidence[id], job[w].stamp)
      BY <3>2 DEF ApprovedEvidence
    <3>. QED
      BY <3>2, <3>3 DEF IsReviewed, Reviewed, IndependentReview
  <2>. QED
    BY <2>1, <2>2
<1>5. ControlsCovered'
  <2>. SUFFICES ASSUME NEW e \in evaluations', NEW c \in Controls
                PROVE  c \in e.satisfied <=>
                          \A gap \in Gaps[c] : \E id \in e.applied :
                              /\ evidence'[id].control = c
                              /\ gap \cap evidence'[id].fields # {}
    BY DEF ControlsCovered
  <2>1. CASE e \in evaluations
    <3>1. c \in e.satisfied <=>
              \A gap \in Gaps[c] : \E id \in e.applied :
                  evidence[id].control = c /\ gap \cap evidence[id].fields # {}
      BY <2>1 DEF ControlsCovered
    <3>2. \A id \in e.applied : id \in Ids /\ IsReviewed(id)
      BY <2>1 DEF EvaluationsSound, TypeOK, Evaluation
    <3>3. \A id \in e.applied : evidence'[id] = evidence[id]
      BY <3>2, ReviewedStay
    <3>. QED
      BY <3>1, <3>3
  <2>2. CASE e \notin evaluations
    <3>1. PICK w \in Workers : Evaluate(w)
      BY <2>2 DEF Next, Tick, Submit, BeginReview, WriteReview, AuditReview, BeginEvaluate,
         Abort, vars
    <3>2. e.satisfied = Satisfied(evidence, e.applied) /\ evidence' = evidence
      BY <2>2, <3>1 DEF Evaluate
    <3>3. \A gap \in Gaps[c] :
              gap \cap Covered(evidence, e.applied, c) # {} <=>
                  \E id \in e.applied : evidence[id].control = c /\ gap \cap evidence[id].fields # {}
      BY DEF Covered
    <3>. QED
      BY <3>2, <3>3 DEF Satisfied
  <2>. QED
    BY <2>1, <2>2
<1>. QED
  BY <1>1, <1>2, <1>3, <1>4, <1>5

(* An empty evidence table satisfies the inductive invariant.              *)
LEMMA InitIInv == Init => IInv
<1>. SUFFICES ASSUME Init PROVE IInv
  OBVIOUS
<1>1. TypeOK
  BY EvidenceAssumption DEF Init, TypeOK, Job, Time
<1>. QED
  BY <1>1 DEF Init, IInv, JobsSound, IndependentReview, AuditAgrees, ApprovedBeforeExpiry,
     EvaluationsSound, ControlsCovered, IsReviewed, Idle
-----------------------------------------------------------------------------
(* The inductive invariant of submit, review and evaluate holds always.    *)
THEOREM Invariance == Spec => []IInv
<1>1. IInv /\ [Next]_vars => IInv'
  BY NextTypeOK, NextJobsSound, NextSafe DEF IInv
<1>. QED
  BY <1>1, InitIInv, PTL DEF Spec

(* The workflow is well typed.                                             *)
THEOREM TypeCorrect == Spec => []TypeOK
<1>1. IInv => TypeOK
  BY DEF IInv
<1>. QED
  BY <1>1, Invariance, PTL

(* Every review that counts is independent and in time, and the audit log  *)
(* tells the outcome that stands.                                          *)
THEOREM ReviewsSound == Spec => []ReviewsStand
<1>1. IInv => ReviewsStand
  BY DEF IInv, ReviewsStand
<1>. QED
  BY <1>1, Invariance, PTL

(* Every evaluation ever returned rests on independently approved evidence *)
(* valid at its time, and calls a control satisfied exactly when that      *)
(* evidence closes its gaps together.                                      *)
THEOREM EvaluationsRestOnReviews == Spec => []EvaluationsStand
<1>1. IInv => EvaluationsStand
  BY DEF IInv, EvaluationsStand
<1>. QED
  BY <1>1, Invariance, PTL

(* A review is final.                                                      *)
THEOREM ReviewIsFinal == Spec => ReviewedOnce
<1>1. IInv /\ [Next]_vars =>
        [\A id \in Ids : IsReviewed(id) => evidence'[id] = evidence[id]]_vars
  BY ReviewedStay DEF IInv
<1>. QED
  BY <1>1, Invariance, PTL DEF Spec, ReviewedOnce
=============================================================================
