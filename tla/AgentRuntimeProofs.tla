------------------------- MODULE AgentRuntimeProofs -------------------------
(***************************************************************************)
(* Proofs about AgentRuntime, for any number of workers, sessions,         *)
(* requests and crashes.                                                   *)
(***************************************************************************)
EXTENDS AgentRuntime, FiniteSetTheorems, TLAPS

(* A handler that has recorded a decision still holds a row of the table.  *)
JobsHoldRows ==
    \A w \in Workers :
        job[w].at \in {"risk", "observe", "reply"} \cup Logs => job[w].row \in rows

(* The inductive invariant.  BudgetCounted ties the counter to the table;  *)
(* without it the guard used < Limit says nothing of the rows.             *)
IInv == /\ TypeOK
        /\ BudgetCounted
        /\ BudgetRespected
        /\ DecidedOnce
        /\ JobsHoldRows
        /\ answers \subseteq rows
-----------------------------------------------------------------------------
(* The verdict of the engine is one of the three decisions.                *)
LEMMA VerdictType ==
    \A policy, artifact, p : Verdict(policy, artifact, p) \in Decisions
BY DEF Verdict, Decisions

(* So is what the store makes of it.                                       *)
LEMMA EnforcedType == \A s, p : Enforced(s, p) \in Decisions
<1>1. "DENY" \in Decisions
  BY DEF Decisions
<1>. QED
  BY <1>1, VerdictType DEF Enforced

(* Its reasons are codes.                                                  *)
LEMMA ReasonsType == \A s, p : EnforcedReasons(s, p) \subseteq Codes
<1>1. \A policy, artifact, p : Reasons(policy, artifact, p) \subseteq Codes
  <2>. TAKE policy, artifact, p
  <2>1. /\ ToolReasons(policy, artifact, p) \subseteq Codes
        /\ PermissionReasons(policy, artifact, p) \subseteq Codes
        /\ BindingReasons(policy, artifact, p) \subseteq Codes
        /\ StepReasons(artifact, p) \subseteq Codes
        /\ ValidationReasons(policy, p) \subseteq Codes
    BY DEF ToolReasons, PermissionReasons, BindingReasons, StepReasons, ValidationReasons, Codes
  <2>2. DenyReasons(policy, artifact, p) \subseteq Codes
    BY <2>1 DEF DenyReasons
  <2>3. ApprovalReasons(policy, p) \subseteq Codes
    BY DEF ApprovalReasons, Codes
  <2>. QED
    BY <2>2, <2>3 DEF Reasons
<1>2. \A c \in {"session_not_active", "external_call_limit_exceeded"} : c \in Codes
  BY DEF Codes
<1>3. ASSUME NEW s, NEW p PROVE EnforcedReasons(s, p) \subseteq Codes
  <2>1. Reasons(Policy[s], Artifact[s], p) \subseteq Codes
    BY <1>1
  <2>2. ASSUME NEW c \in EnforcedReasons(s, p) PROVE c \in Codes
    <3>1. \/ c \in Reasons(Policy[s], Artifact[s], p)
          \/ c \in {"session_not_active", "external_call_limit_exceeded"}
      BY <2>2 DEF EnforcedReasons
    <3>. QED
      BY <1>2, <2>1, <3>1
  <2>. QED
    BY <2>2
<1>. QED
  BY <1>3

(* The store lets an external call through only in an active session with  *)
(* budget left.                                                            *)
LEMMA EnforcedGrant ==
    ASSUME NEW s, NEW p, Enforced(s, p) = "ALLOW"
    PROVE  /\ status[s] = "ACTIVE"
           /\ IsExternal(p) => ~Exhausted(s)
BY DEF Enforced

(* A limit is a natural number.                                            *)
LEMMA LimitType ==
    ASSUME NEW s \in Sessions, HasLimit(s)
    PROVE  Limit(s) \in Nat
BY ConstantsAssumption DEF HasLimit, Limit

(* The granted external calls of a session are finitely many.              *)
LEMMA GrantedFinite ==
    ASSUME TypeOK, NEW s \in Sessions
    PROVE  IsFiniteSet(Granted(s)) /\ Cardinality(Granted(s)) \in Nat
<1>1. Granted(s) \subseteq rows
  BY DEF Granted
<1>2. IsFiniteSet(Granted(s))
  BY <1>1, FS_Subset DEF TypeOK
<1>. QED
  BY <1>2, FS_CardinalityType

(* An empty store satisfies the inductive invariant.                       *)
LEMMA InitIInv == Init => IInv
<1>. SUFFICES ASSUME Init PROVE IInv
  OBVIOUS
<1>1. TypeOK
  <2>1. IsFiniteSet(rows)
    BY FS_EmptySet DEF Init
  <2>2. job \in [Workers -> Job]
    BY DEF Init, Job
  <2>. QED
    BY <2>1, <2>2, ConstantsAssumption DEF Init, TypeOK
<1>2. \A s \in Sessions : Granted(s) = {}
  BY DEF Init, Granted
<1>3. Cardinality({}) = 0
  BY FS_EmptySet
<1>4. BudgetCounted
  BY <1>2, <1>3 DEF Init, BudgetCounted
<1>5. BudgetRespected
  BY <1>2, <1>3, LimitType DEF BudgetRespected
<1>. QED
  BY <1>1, <1>4, <1>5 DEF Init, IInv, DecidedOnce, JobsHoldRows, Idle, Logs
-----------------------------------------------------------------------------
(* What Record adds: a row of a key that had none, whose grant is counted. *)
LEMMA RecordKeepsIInv ==
    ASSUME IInv, NEW w \in Workers, Record(w)
    PROVE  IInv'
<1>. DEFINE s == job[w].session
            id == job[w].id
            p == job[w].payload
            row == [session |-> s, id |-> id, payload |-> p, decision |-> Enforced(s, p)]
            spends == IsExternal(p) /\ Enforced(s, p) = "ALLOW"
<1>1. /\ s \in Sessions /\ id \in RequestIds /\ p \in Payloads
      /\ row \in Row
  <2>1. job[w] \in Job /\ job[w].at = "record"
    BY DEF IInv, TypeOK, Record, Begun
  <2>2. s \in Sessions /\ id \in RequestIds /\ p \in Payloads
    BY <2>1 DEF Job, Idle, Logs
  <2>. QED
    BY <2>2, EnforcedType DEF Row
<1>2. /\ rows' = rows \cup {row}
      /\ used' = IF spends THEN [used EXCEPT ![s] = @ + 1] ELSE used
      /\ job' = [job EXCEPT ![w] = [at |-> "audit", row |-> row]]
      /\ reasons' = reasons \cup {row} \X EnforcedReasons(s, p)
      /\ UNCHANGED <<status, register, locked, trail, noted, answers, cut, crashes>>
  BY DEF Record, Spending, Goto, Begun
<1>3. \A r \in rows : ~(r.session = s /\ r.id = id)
  BY DEF Record, Recorded, SameKey
<1>4. row \notin rows
  BY <1>3
<1>5. TypeOK'
  <2>1. IsFiniteSet(rows')
    BY <1>2, FS_AddElement DEF IInv, TypeOK
  <2>2. used' \in [Sessions -> Nat]
    BY <1>1, <1>2 DEF IInv, TypeOK
  <2>3. job' \in [Workers -> Job]
    BY <1>1, <1>2 DEF IInv, TypeOK, Job, Logs
  <2>4. reasons' \subseteq Row \X Codes
    BY <1>1, <1>2, ReasonsType DEF IInv, TypeOK
  <2>. QED
    BY <1>1, <1>2, <2>1, <2>2, <2>3, <2>4 DEF IInv, TypeOK
<1>6. ASSUME NEW t \in Sessions
      PROVE  /\ used'[t] = Cardinality(Granted(t)')
             /\ HasLimit(t) => Cardinality(Granted(t)') <= Limit(t)
  <2>0. /\ IsFiniteSet(Granted(t)) /\ used[t] = Cardinality(Granted(t))
        /\ used[t] \in Nat /\ (HasLimit(t) => used[t] <= Limit(t))
    BY GrantedFinite DEF IInv, TypeOK, BudgetCounted, BudgetRespected
  <2>1. CASE t = s /\ spends
    <3>1. Granted(t)' = Granted(t) \cup {row}
      BY <1>2, <2>1 DEF Granted
    <3>2. row \notin Granted(t)
      BY <1>4 DEF Granted
    <3>3. Cardinality(Granted(t)') = Cardinality(Granted(t)) + 1
      BY <2>0, <3>1, <3>2, FS_AddElement
    <3>4. used'[t] = used[t] + 1
      BY <1>1, <1>2, <2>1 DEF IInv, TypeOK
    <3>5. HasLimit(t) => used[t] < Limit(t)
      BY <2>0, <2>1, EnforcedGrant, LimitType DEF Exhausted
    <3>. QED
      BY <2>0, <3>3, <3>4, <3>5, LimitType
  <2>2. CASE ~(t = s /\ spends)
    <3>1. Granted(t)' = Granted(t)
      BY <1>2, <2>2 DEF Granted
    <3>2. used'[t] = used[t]
      BY <1>1, <1>2, <2>2 DEF IInv, TypeOK
    <3>. QED
      BY <2>0, <3>1, <3>2
  <2>. QED
    BY <2>1, <2>2
<1>7. BudgetCounted' /\ BudgetRespected'
  BY <1>6 DEF BudgetCounted, BudgetRespected, HasLimit, Limit
<1>8. DecidedOnce'
  BY <1>2, <1>3 DEF IInv, DecidedOnce
<1>9. JobsHoldRows'
  BY <1>1, <1>2 DEF IInv, TypeOK, JobsHoldRows
<1>. QED
  BY <1>2, <1>5, <1>7, <1>8, <1>9 DEF IInv

(* The other actions leave the table and the counters alone.               *)
LEMMA SameTable ==
    ASSUME IInv, TypeOK', JobsHoldRows', UNCHANGED <<used, rows>>, answers' \subseteq rows
    PROVE  IInv'
<1>1. \A s \in Sessions : Granted(s)' = Granted(s)
  BY DEF Granted
<1>2. BudgetCounted' /\ BudgetRespected'
  BY <1>1 DEF IInv, BudgetCounted, BudgetRespected, HasLimit, Limit
<1>. QED
  BY <1>2 DEF IInv, DecidedOnce

(* A handler that goes on to a step of the same decision, or ends, is well *)
(* typed and holds its row.                                                *)
LEMMA JobMoves ==
    ASSUME IInv, NEW w \in Workers, NEW next \in Job, Goto(w, next), rows' = rows,
           next.at \in {"risk", "observe", "reply"} \cup Logs => next.row \in rows
    PROVE  job' \in [Workers -> Job] /\ JobsHoldRows'
BY DEF IInv, TypeOK, Goto, JobsHoldRows

(* A handler that is at work on a decision.                                *)
LEMMA RowAtWork ==
    ASSUME IInv, NEW w \in Workers, job[w].at \in {"risk", "observe", "reply"} \cup Logs
    PROVE  /\ job[w].row \in rows /\ job[w].row \in Row
           /\ job[w].at \in {"risk", "observe"} => job[w].todo \in SUBSET Codes
           /\ job[w].at = "observe" => job[w].code \in Codes
BY DEF IInv, TypeOK, JobsHoldRows, Job, Idle, Logs

LEMMA RemainingType ==
    ASSUME NEW row \in rows, NEW todo \in SUBSET Codes, rows \subseteq Row
    PROVE  /\ Remaining(row, todo) \in Job
           /\ Remaining(row, todo).at \in {"risk", "reply"} /\ Remaining(row, todo).row = row
BY DEF Remaining, Job, Logs

(* Every handler step, and every crash, keeps the inductive invariant.     *)
LEMMA NextIInv == IInv /\ [Next]_vars => IInv'
<1>. SUFFICES ASSUME IInv, [Next]_vars PROVE IInv'
  OBVIOUS
<1>. USE DEF IInv
<1>0. Idle \in Job /\ Idle.at = "idle"
  BY DEF Idle, Job
<1>1. ASSUME NEW w \in Workers, NEW s \in Sessions, CreateSession(w, s) PROVE IInv'
  <2>1. [at |-> "note", session |-> s, status |-> "ACTIVE"] \in Job
    BY DEF Job
  <2>2. TypeOK' /\ JobsHoldRows'
    BY <1>1, <2>1, JobMoves DEF CreateSession, Quiet, Commit, TypeOK, Logs
  <2>. QED
    BY <1>1, <2>2, SameTable DEF CreateSession, Quiet
<1>2. ASSUME NEW w \in Workers, NEW s \in Sessions, NEW id \in RequestIds,
             NEW p \in Payloads, Authorize(w, s, id, p)
      PROVE  IInv'
  <2>1. [at |-> "record", session |-> s, id |-> id, payload |-> p] \in Job
    BY DEF Job
  <2>2. TypeOK' /\ JobsHoldRows'
    BY <1>2, <2>1, JobMoves DEF Authorize, Quiet, TypeOK, Logs
  <2>. QED
    BY <1>2, <2>2, SameTable DEF Authorize, Quiet
<1>3. ASSUME NEW w \in Workers, NEW s \in Sessions, NEW target \in Stopped,
             RequestStatus(w, s, target)
      PROVE  IInv'
  <2>1. [at |-> "status", session |-> s, target |-> target] \in Job
    BY DEF Job
  <2>2. TypeOK' /\ JobsHoldRows'
    BY <1>3, <2>1, JobMoves DEF RequestStatus, Quiet, TypeOK, Logs
  <2>. QED
    BY <1>3, <2>2, SameTable DEF RequestStatus, Quiet
<1>4. ASSUME NEW w \in Workers, Replay(w) PROVE IInv'
  <2>1. answers' \subseteq rows /\ Goto(w, Idle)
    BY <1>4 DEF Replay, Recorded
  <2>2. TypeOK' /\ JobsHoldRows'
    BY <1>0, <1>4, <2>1, JobMoves DEF Replay, TypeOK, Logs
  <2>. QED
    BY <1>4, <2>1, <2>2, SameTable DEF Replay
<1>5. ASSUME NEW w \in Workers, Record(w) PROVE IInv'
  BY <1>5, RecordKeepsIInv
<1>6. ASSUME NEW w \in Workers, RecordDecision(w) PROVE IInv'
  <2>1. job[w].at \in Logs /\ job[w].row \in rows /\ job[w].row \in Row
    BY <1>6, RowAtWork DEF RecordDecision
  <2>2. PICK next : next = After(job[w].row, job[w].at)
    OBVIOUS
  <2>3. ReasonsOf(job[w].row) \in SUBSET Codes
    BY DEF ReasonsOf, TypeOK
  <2>4. next \in Job /\ next.row = job[w].row
    <3>1. CASE job[w].at = "audit"
      BY <2>1, <2>2, <3>1 DEF After, Job, Logs
    <3>2. CASE job[w].at # "audit"
      BY <2>1, <2>2, <2>3, <3>2, RemainingType DEF After, TypeOK
    <3>. QED
      BY <3>1, <3>2
  <2>5. trail' \subseteq (Logs \cup Codes) \X Row
    <3>1. <<job[w].at, job[w].row>> \in (Logs \cup Codes) \X Row
      BY <2>1 DEF Logs
    <3>. QED
      BY <1>6, <3>1 DEF RecordDecision, TypeOK
  <2>6. TypeOK' /\ JobsHoldRows'
    BY <1>6, <2>1, <2>2, <2>4, <2>5, JobMoves DEF RecordDecision, Commit, TypeOK
  <2>. QED
    BY <1>6, <2>6, SameTable DEF RecordDecision
<1>7. ASSUME NEW w \in Workers, Reply(w) PROVE IInv'
  <2>1. job[w].row \in rows
    BY <1>7, RowAtWork DEF Reply
  <2>2. TypeOK' /\ JobsHoldRows'
    BY <1>0, <1>7, <2>1, JobMoves DEF Reply, TypeOK, Logs
  <2>. QED
    BY <1>7, <2>1, <2>2, SameTable DEF Reply
<1>8. ASSUME NEW w \in Workers, WriteStatus(w) PROVE IInv'
  <2>1. job[w].session \in Sessions /\ job[w].target \in Stopped
    BY <1>8 DEF WriteStatus, TypeOK, Job, Idle, Logs
  <2>2. [at |-> "note", session |-> job[w].session, status |-> job[w].target] \in Job
    BY <2>1 DEF Job
  <2>3. TypeOK' /\ JobsHoldRows'
    BY <1>8, <2>1, <2>2, JobMoves DEF WriteStatus, Quiet, Commit, TypeOK, Logs
  <2>. QED
    BY <1>8, <2>3, SameTable DEF WriteStatus, Quiet
<1>9. ASSUME NEW w \in Workers, Note(w) PROVE IInv'
  <2>1. job[w].session \in Sessions /\ job[w].status \in {"ACTIVE"} \cup Stopped
    BY <1>9 DEF Note, TypeOK, Job, Idle, Logs
  <2>2. TypeOK' /\ JobsHoldRows'
    BY <1>0, <1>9, <2>1, JobMoves DEF Note, Quiet, Commit, TypeOK, Logs
  <2>. QED
    BY <1>9, <2>2, SameTable DEF Note, Quiet
<1>10. ASSUME NEW w \in Workers, Crash(w) PROVE IInv'
  <2>1. crashes' \in 0..MaxCrashes
    BY <1>10, ConstantsAssumption DEF Crash, TypeOK
  <2>2. TypeOK' /\ JobsHoldRows'
    BY <1>0, <1>10, <2>1, JobMoves DEF Crash, TypeOK, Logs
  <2>. QED
    BY <1>10, <2>2, SameTable DEF Crash
<1>12. ASSUME NEW w \in Workers, FailToBegin(w) PROVE IInv'
  <2>1. TypeOK' /\ JobsHoldRows'
    BY <1>0, <1>12, JobMoves DEF FailToBegin, Quiet, TypeOK, Logs
  <2>. QED
    BY <1>12, <2>1, SameTable DEF FailToBegin, Quiet
<1>13. ASSUME NEW w \in Workers, LookUp(w) PROVE IInv'
  <2>1. job[w].row \in rows /\ job[w].row \in Row /\ job[w].todo \in SUBSET Codes
    BY <1>13, RowAtWork DEF LookUp
  <2>2. PICK code \in job[w].todo :
            Goto(w, [at |-> "observe", row |-> job[w].row, todo |-> job[w].todo \ {code},
                     code |-> code, known |-> Fingerprint(job[w].row, code) \in register])
    BY <1>13 DEF LookUp
  <2>3. [at |-> "observe", row |-> job[w].row, todo |-> job[w].todo \ {code},
         code |-> code, known |-> Fingerprint(job[w].row, code) \in register] \in Job
    BY <2>1 DEF Job
  <2>4. TypeOK' /\ JobsHoldRows'
    BY <1>13, <2>1, <2>2, <2>3, JobMoves DEF LookUp, Quiet, TypeOK
  <2>. QED
    BY <1>13, <2>4, SameTable DEF LookUp, Quiet
<1>14. ASSUME NEW w \in Workers, ObserveRisk(w) PROVE IInv'
  <2>1. /\ job[w].row \in rows /\ job[w].row \in Row /\ job[w].todo \in SUBSET Codes
        /\ job[w].code \in Codes
    BY <1>14, RowAtWork DEF ObserveRisk
  <2>2. /\ Remaining(job[w].row, job[w].todo) \in Job
        /\ Remaining(job[w].row, job[w].todo).row = job[w].row
    BY <2>1, RemainingType DEF TypeOK
  <2>3. TypeOK' /\ JobsHoldRows'
    BY <1>14, <2>1, <2>2, JobMoves DEF ObserveRisk, Commit, TypeOK
  <2>. QED
    BY <1>14, <2>3, SameTable DEF ObserveRisk
<1>15. ASSUME NEW w \in Workers, Clash(w) PROVE IInv'
  <2>1. job[w].row \in Row
    BY <1>15, RowAtWork DEF Clash
  <2>2. TypeOK' /\ JobsHoldRows'
    BY <1>0, <1>15, <2>1, JobMoves DEF Clash, TypeOK, Logs
  <2>. QED
    BY <1>15, <2>2, SameTable DEF Clash
<1>16. ASSUME NEW w \in Workers, TimeOut(w) PROVE IInv'
  <2>1. cut' \subseteq Row
    BY <1>16, RowAtWork DEF TimeOut, TypeOK
  <2>2. TypeOK' /\ JobsHoldRows'
    BY <1>0, <1>16, <2>1, JobMoves DEF TimeOut, TypeOK, Logs
  <2>. QED
    BY <1>16, <2>2, SameTable DEF TimeOut
<1>11. CASE UNCHANGED vars
  <2>1. TypeOK' /\ JobsHoldRows'
    BY <1>11 DEF vars, TypeOK, JobsHoldRows
  <2>. QED
    BY <1>11, <2>1, SameTable DEF vars
<1>. QED
  BY <1>1, <1>2, <1>3, <1>4, <1>5, <1>6, <1>7, <1>8, <1>9, <1>10, <1>11, <1>12, <1>13, <1>14,
     <1>15, <1>16 DEF Next, Step
-----------------------------------------------------------------------------
(* The inductive invariant of authorize and its store call holds always.   *)
THEOREM Invariance == Spec => []IInv
BY InitIInv, NextIInv, PTL DEF Spec

(* Every state of every behaviour is well typed.                           *)
THEOREM TypeCorrect == Spec => []TypeOK
<1>1. IInv => TypeOK
  BY DEF IInv
<1>. QED
  BY <1>1, Invariance, PTL

(* The counter counts the granted external calls and stays within the      *)
(* limit of the policy, for every number of workers, requests and crashes. *)
THEOREM BudgetSafe == Spec => [](BudgetCounted /\ BudgetRespected)
<1>1. IInv => BudgetCounted /\ BudgetRespected
  BY DEF IInv
<1>. QED
  BY <1>1, Invariance, PTL

(* A request id has at most one decision, and answers agree with it.       *)
THEOREM DecisionsIdempotent == Spec => [](DecidedOnce /\ AnswersAgree)
<1>1. IInv => DecidedOnce /\ AnswersAgree
  BY DEF IInv, DecidedOnce, AnswersAgree
<1>. QED
  BY <1>1, Invariance, PTL

(* The steps that neither decide nor touch a session.                      *)
QuietStep(w) == \/ FailToBegin(w) \/ Replay(w) \/ RecordDecision(w) \/ LookUp(w)
                \/ ObserveRisk(w) \/ Clash(w) \/ Reply(w) \/ Note(w) \/ TimeOut(w) \/ Crash(w)

LEMMA QuietStepsKeepTables ==
    ASSUME NEW w \in Workers, QuietStep(w)
    PROVE  /\ UNCHANGED <<status, used, rows>>
           /\ \E next : Goto(w, next) /\ next.at \notin {"record", "status"}
<1>1. UNCHANGED <<status, used, rows>>
  BY DEF QuietStep, FailToBegin, Replay, RecordDecision, LookUp, ObserveRisk, Clash, Reply, Note,
         TimeOut, Crash, Quiet
<1>2. Idle.at \notin {"record", "status"}
  BY DEF Idle
<1>3. CASE Goto(w, Idle)
  <2>1. PICK next : next = Idle
    OBVIOUS
  <2>. QED
    BY <1>1, <1>2, <1>3, <2>1
<1>4. \A row, todo : Remaining(row, todo).at \notin {"record", "status"}
  BY DEF Remaining
<1>5. CASE RecordDecision(w)
  <2>1. After(job[w].row, job[w].at).at \notin {"record", "status"}
    BY <1>4 DEF After
  <2>. QED
    BY <1>1, <1>5, <2>1 DEF RecordDecision
<1>6. CASE LookUp(w)
  <2>1. PICK code \in job[w].todo :
            Goto(w, [at |-> "observe", row |-> job[w].row, todo |-> job[w].todo \ {code},
                     code |-> code, known |-> Fingerprint(job[w].row, code) \in register])
    BY <1>6 DEF LookUp
  <2>. QED
    BY <1>1, <2>1
<1>7. CASE ObserveRisk(w)
  BY <1>1, <1>4, <1>7 DEF ObserveRisk
<1>. QED
  BY <1>1, <1>3, <1>5, <1>6, <1>7
     DEF QuietStep, FailToBegin, Replay, Clash, Reply, Note, TimeOut, Crash

(* A session that stopped records no further permission.                   *)
THEOREM StoppedSessionsGrantNothing == Spec => NoGrantAfterStop
<1>1. IInv /\ [Next]_vars =>
        [\A r \in rows' \ rows : status[r.session] \in Stopped => r.decision = "DENY"]_vars
  <2>. SUFFICES ASSUME IInv, Next, NEW r \in rows' \ rows, status[r.session] \in Stopped
                PROVE  r.decision = "DENY"
    BY DEF vars
  <2>1. PICK w \in Workers : Record(w)
    BY QuietStepsKeepTables
       DEF Next, Step, QuietStep, CreateSession, Authorize, RequestStatus, WriteStatus, Quiet
  <2>2. r.session = job[w].session /\ r.decision = Enforced(job[w].session, job[w].payload)
    BY <2>1 DEF Record
  <2>. QED
    BY <2>2 DEF Enforced, Stopped
<1>. QED
  BY <1>1, Invariance, PTL DEF Spec, NoGrantAfterStop

(* Decisions are persistent and spent budget is never given back.          *)
THEOREM PersistentDecisions == Spec => NothingUndone
<1>1. IInv /\ [Next]_vars =>
        [rows \subseteq rows' /\ \A s \in Sessions : used[s] <= used'[s]]_vars
  <2>. SUFFICES ASSUME IInv, Next
                PROVE  rows \subseteq rows' /\ \A s \in Sessions : used[s] <= used'[s]
    BY DEF vars
  <2>1. \A s \in Sessions : used[s] \in Nat
    BY DEF IInv, TypeOK
  <2>2. CASE UNCHANGED <<used, rows>>
    BY <2>1, <2>2
  <2>3. ASSUME NEW w \in Workers, Record(w)
        PROVE  rows \subseteq rows' /\ \A s \in Sessions : used[s] <= used'[s]
    BY <2>1, <2>3 DEF Record, Spending, IInv, TypeOK
  <2>. QED
    BY <2>2, <2>3, QuietStepsKeepTables
       DEF Next, Step, QuietStep, CreateSession, Authorize, RequestStatus, WriteStatus, Quiet
<1>. QED
  BY <1>1, Invariance, PTL DEF Spec, NothingUndone
-----------------------------------------------------------------------------
(* A handler is only ever at work in a session that was created.           *)
JobsHaveSessions ==
    \A w \in Workers : job[w].at \in {"record", "status"} => status[job[w].session] # "NONE"

(* No step removes a session or starts a handler in a missing one.         *)
LEMMA SessionsStayCreated ==
    IInv /\ JobsHaveSessions /\ [Next]_vars => JobsHaveSessions'
<1>. SUFFICES ASSUME IInv, JobsHaveSessions, [Next]_vars, NEW v \in Workers,
                     job'[v].at \in {"record", "status"}
              PROVE  status'[job'[v].session] # "NONE"
  BY DEF JobsHaveSessions
<1>. USE DEF IInv, TypeOK, JobsHaveSessions
<1>1. ASSUME NEW w \in Workers, NEW s \in Sessions, CreateSession(w, s)
      PROVE  status'[job'[v].session] # "NONE"
  BY <1>1 DEF CreateSession, Goto, Job, Idle, Logs
<1>2. ASSUME NEW w \in Workers, NEW s \in Sessions, NEW id \in RequestIds,
             NEW p \in Payloads, Authorize(w, s, id, p)
      PROVE  status'[job'[v].session] # "NONE"
  BY <1>2 DEF Authorize, Goto, Quiet
<1>3. ASSUME NEW w \in Workers, NEW s \in Sessions, NEW target \in Stopped,
             RequestStatus(w, s, target)
      PROVE  status'[job'[v].session] # "NONE"
  BY <1>3 DEF RequestStatus, Goto, Quiet
<1>4. ASSUME NEW w \in Workers, WriteStatus(w)
      PROVE  status'[job'[v].session] # "NONE"
  <2>1. job[w].session \in Sessions /\ job[w].target \in Stopped
    BY <1>4 DEF WriteStatus, Job, Idle, Logs
  <2>. QED
    BY <1>4, <2>1 DEF WriteStatus, Goto, Stopped
<1>5. ASSUME NEW w \in Workers, QuietStep(w)
      PROVE  status'[job'[v].session] # "NONE"
  <2>1. UNCHANGED status /\ \E next : Goto(w, next) /\ next.at \notin {"record", "status"}
    BY <1>5, QuietStepsKeepTables
  <2>. QED
    BY <2>1 DEF Goto
<1>6. ASSUME NEW w \in Workers, Record(w)
      PROVE  status'[job'[v].session] # "NONE"
  BY <1>6 DEF Record, Goto
<1>7. CASE UNCHANGED vars
  BY <1>7 DEF vars
<1>. QED
  BY <1>1, <1>2, <1>3, <1>4, <1>5, <1>6, <1>7 DEF Next, Step, QuietStep

(* authorize and update_session_status only work in sessions that exist.   *)
THEOREM SessionsExist == Spec => []JobsHaveSessions
<1>1. Init => JobsHaveSessions
  BY DEF Init, JobsHaveSessions, Idle
<1>. QED
  BY <1>1, SessionsStayCreated, Invariance, PTL DEF Spec

(* A stopped session stays stopped.                                        *)
THEOREM StoppedForGood == Spec => StopIsFinal
<1>1. IInv /\ [Next]_vars =>
        [\A s \in Sessions : status[s] \in Stopped => status'[s] \in Stopped]_vars
  <2>. SUFFICES ASSUME IInv, Next, NEW s \in Sessions, status[s] \in Stopped
                PROVE  status'[s] \in Stopped
    BY DEF vars
  <2>1. ASSUME NEW w \in Workers, WriteStatus(w) PROVE status'[s] \in Stopped
    <3>1. job[w].session \in Sessions /\ job[w].target \in Stopped
      BY <2>1 DEF WriteStatus, IInv, TypeOK, Job, Idle, Logs
    <3>. QED
      BY <2>1, <3>1 DEF WriteStatus, IInv, TypeOK
  <2>2. ASSUME NEW w \in Workers, NEW t \in Sessions, CreateSession(w, t)
        PROVE  status'[s] \in Stopped
    BY <2>2 DEF CreateSession, IInv, TypeOK, Stopped
  <2>. QED
    BY <2>1, <2>2, QuietStepsKeepTables
       DEF Next, Step, QuietStep, Authorize, RequestStatus, Record, Quiet, IInv, TypeOK
<1>. QED
  BY <1>1, Invariance, PTL DEF Spec, StopIsFinal
-----------------------------------------------------------------------------
(* The handlers implement the contract: creating a session opens it,       *)
(* recording a decision is a ruling, the first stop is a stop, and every   *)
(* other step is invisible.                                                *)
LEMMA PhaseOf ==
    ASSUME NEW s \in Sessions
    PROVE  /\ (Phase[s] = "unborn") <=> (status[s] = "NONE")
           /\ (Phase[s] = "open") <=> (status[s] = "ACTIVE")
BY DEF Phase

(* The contract's own Cardinality is the one of FiniteSets.                *)
LEMMA SameCardinality == \A S : Contract!Cardinality(S) = Cardinality(S)
BY DEF Contract!Cardinality, Cardinality

(* A step of the handlers is a step of the contract, or changes nothing    *)
(* the contract speaks of.                                                 *)
LEMMA StepSimulation ==
    IInv /\ JobsHaveSessions /\ [Next]_vars => [Contract!Next]_(Contract!contractVars)
<1>. SUFFICES ASSUME IInv, JobsHaveSessions, [Next]_vars
              PROVE  Contract!Next \/ UNCHANGED <<Phase, rows>>
  BY DEF Contract!contractVars
<1>. USE DEF IInv, TypeOK
<1>1. ASSUME NEW w \in Workers, NEW s \in Sessions, CreateSession(w, s)
      PROVE  Contract!Open(s)
  BY <1>1 DEF CreateSession, Quiet, Contract!Open, Phase
<1>2. ASSUME NEW w \in Workers, Record(w)
      PROVE  \E r \in Contract!Ruling : Contract!Rule(r)
  <2>. DEFINE r == [session |-> job[w].session, id |-> job[w].id,
                    payload |-> job[w].payload,
                    decision |-> Enforced(job[w].session, job[w].payload)]
  <2>1. job[w].session \in Sessions /\ job[w].id \in RequestIds /\ job[w].payload \in Payloads
    BY <1>2 DEF Record, Begun, Job, Idle, Logs
  <2>2. r \in Contract!Ruling
    BY <2>1, EnforcedType DEF Contract!Ruling
  <2>3. rows' = rows \cup {r} /\ UNCHANGED Phase
    BY <1>2 DEF Record, Phase
  <2>4. Phase[r.session] # "unborn"
    BY <1>2, <2>1 DEF Record, Begun, JobsHaveSessions, Phase
  <2>5. \A q \in rows : ~(q.session = r.session /\ q.id = r.id)
    BY <1>2 DEF Record, Recorded, SameKey
  <2>6. ASSUME IsGrant(r.decision)
        PROVE  /\ Phase[r.session] = "open"
               /\ IsExternal(r.payload) =>
                     \/ Unbounded(r.session)
                     \/ Cardinality(Contract!Spent(r.session)) < Limit(r.session)
    <3>1. status[r.session] = "ACTIVE" /\ (IsExternal(r.payload) => ~Exhausted(r.session))
      BY <2>6, EnforcedGrant DEF IsGrant
    <3>2. Contract!Spent(r.session) = Granted(r.session)
      BY DEF Contract!Spent, Granted, IsGrant
    <3>3. used[r.session] = Cardinality(Granted(r.session))
      BY <2>1 DEF BudgetCounted
    <3>4. used[r.session] \in Nat
      BY <2>1
    <3>5. HasLimit(r.session) => Limit(r.session) \in Nat
      BY <2>1, LimitType
    <3>6. Phase[r.session] = "open"
      BY <2>1, <3>1 DEF Phase
    <3>. QED
      BY <3>1, <3>2, <3>3, <3>4, <3>5, <3>6 DEF Exhausted, Unbounded
  <2>7. Contract!Rule(r)
    BY <2>3, <2>4, <2>5, <2>6, SameCardinality DEF Contract!Rule
  <2>. QED
    BY <2>2, <2>7
<1>3. ASSUME NEW w \in Workers, WriteStatus(w)
      PROVE  \/ \E s \in Sessions : Contract!Stop(s)
             \/ UNCHANGED <<Phase, rows>>
  <2>1. /\ job[w].session \in Sessions /\ job[w].target \in Stopped
        /\ status[job[w].session] # "NONE"
    BY <1>3 DEF WriteStatus, Job, Idle, Logs, JobsHaveSessions
  <2>2. CASE status[job[w].session] = "ACTIVE"
    <3>1. Phase' = [Phase EXCEPT ![job[w].session] = "stopped"]
      BY <1>3, <2>1, <2>2 DEF WriteStatus, Quiet, Phase, Stopped
    <3>2. Contract!Stop(job[w].session)
      BY <1>3, <2>1, <2>2, <3>1 DEF WriteStatus, Quiet, Contract!Stop, Phase
    <3>. QED
      BY <2>1, <3>2
  <2>3. CASE status[job[w].session] # "ACTIVE"
    BY <1>3, <2>1, <2>3 DEF WriteStatus, Quiet, Phase, Stopped
  <2>. QED
    BY <2>2, <2>3
<1>4. CASE UNCHANGED <<status, rows>>
  BY <1>4 DEF Phase
<1>. QED
  BY <1>1, <1>2, <1>3, <1>4, QuietStepsKeepTables
     DEF Next, Step, QuietStep, Authorize, RequestStatus, Quiet, vars, Contract!Next

(* authorize, create_session and update_session_status implement the       *)
(* contract, for every policy, number of workers and number of crashes.    *)
THEOREM Implementation == Spec => ImplementsContract
<1>1. Init => Contract!Init
  BY DEF Init, Contract!Init, Phase
<1>. QED
  BY <1>1, StepSimulation, Invariance, SessionsExist, PTL
     DEF Spec, ImplementsContract, Contract!Spec
=============================================================================
