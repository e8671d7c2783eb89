-------------------------- MODULE SharedConnection --------------------------
(***************************************************************************)
(* record_tool_invocation and update_agent_session_status, one SQL         *)
(* statement at a time, for one agent session whose requests are all       *)
(* external calls that the policy allows.                                  *)
(*                                                                         *)
(* A process has one DataStore and that has one sqlite3 connection         *)
(* (check_same_thread=False); the handlers of the API run on threads of    *)
(* the process.  A transaction belongs to a connection, not to a thread:   *)
(* whoever commits or rolls back ends it for every thread of the process.  *)
(* A layout says which connection a thread uses, so the module covers both *)
(* processes with a connection each and threads that share one.            *)
(*                                                                         *)
(* One execute() with its fetch is one step: the interpreter and SQLite    *)
(* serialise single statements.  save_metric, which follows save_audit_log *)
(* and is the same pair of statements, is left out.                        *)
(***************************************************************************)
EXTENDS Integers, FiniteSets

CONSTANTS Threads, Connections, RequestIds,
          Limit,     \* max_external_calls of the policy
          Layouts,   \* functions of [Threads -> Connections], one of them for good
          NoTx       \* the connection has no open transaction

VARIABLES conn,      \* [Threads -> Connections]
          db,        \* what is committed: [status, used, rows]
          tx,        \* [Connections -> NoTx or what its transaction sees]
          job,       \* [Threads -> where the thread is, and its local variables]
          lock,      \* [Connections -> the threads inside _conn_lock]
          answers    \* history: decisions returned to clients

vars == <<conn, db, tx, job, lock, answers>>

Decisions == {"ALLOW", "DENY"}
Row == [id : RequestIds, decision : Decisions]
Statuses == {"ACTIVE", "REVOKED"}
Database == [status : Statuses, used : Nat, rows : SUBSET Row]

(* What the proofs, and every instance, take the constants to be.          *)
StoreAssumption ==
    /\ Limit \in Nat
    /\ NoTx \notin Database /\ Layouts \subseteq [Threads -> Connections]

Idle == [at |-> "idle"]
Job == {Idle}
       \cup [at : {"begin", "readSession"}, id : RequestIds]
       \cup [at : {"readExisting"}, id : RequestIds, status : Statuses, used : Nat]
       \cup [at : {"count", "insert", "commit", "replay"}, row : Row]
       \cup [at : {"auditInsert", "auditCommit", "reply"}, row : {Idle} \cup Row]
       \cup [at : {"rollback", "revoke", "revokeCommit"}]

TypeOK ==
    /\ conn \in Layouts
    /\ db \in Database
    /\ tx \in [Connections -> {NoTx} \cup Database]
    /\ job \in [Threads -> Job]
    /\ lock \in [Connections -> SUBSET Threads]
    /\ answers \subseteq Row

Init ==
    /\ conn \in Layouts
    /\ db = [status |-> "ACTIVE", used |-> 0, rows |-> {}]
    /\ tx = [c \in Connections |-> NoTx]
    /\ job = [t \in Threads |-> Idle]
    /\ lock = [c \in Connections |-> {}]
    /\ answers = {}
-----------------------------------------------------------------------------
(* A statement on a connection sees the open transaction of that           *)
(* connection, or else what is committed.                                  *)
View(c) == IF tx[c] = NoTx THEN db ELSE tx[c]

(* Only one connection at a time may have a transaction that writes.       *)
MayWrite(c) == \A d \in Connections \ {c} : tx[d] = NoTx

(* A data-changing statement: sqlite3 opens a transaction if there is none.*)
Write(c, new) == MayWrite(c) /\ tx' = [tx EXCEPT ![c] = new] /\ UNCHANGED db

(* commit() and rollback() of the connection; both do nothing outside a    *)
(* transaction.                                                            *)
Commit(c) == db' = View(c) /\ tx' = [tx EXCEPT ![c] = NoTx]
Rollback(c) == tx' = [tx EXCEPT ![c] = NoTx] /\ UNCHANGED db

Goto(t, next) == job' = [job EXCEPT ![t] = next]

Authorize(t, id) ==
    /\ job[t] = Idle
    /\ Goto(t, [at |-> "begin", id |-> id])
    /\ UNCHANGED <<db, tx, lock, answers>>

BeginNothing(t) ==           \* mutant: the reads run outside a transaction
    /\ job[t].at = "begin"
    /\ Goto(t, [at |-> "readSession", id |-> job[t].id])
    /\ UNCHANGED <<db, tx, lock, answers>>

(* BEGIN IMMEDIATE fails inside a transaction, and when another connection *)
(* keeps the write lock for the 30 s of the busy timeout.                  *)
Begin(t) ==
    LET c == conn[t]
    IN /\ job[t].at = "begin"
       /\ \/ /\ tx[c] = NoTx /\ Write(c, db)
             /\ Goto(t, [at |-> "readSession", id |-> job[t].id])
          \/ /\ tx[c] # NoTx \/ ~MayWrite(c)
             /\ Goto(t, [at |-> "rollback"])
             /\ UNCHANGED <<db, tx>>
       /\ UNCHANGED <<lock, answers>>

ReadSession(t) ==
    /\ job[t].at = "readSession"
    /\ Goto(t, [at |-> "readExisting", id |-> job[t].id,
                status |-> View(conn[t]).status, used |-> View(conn[t]).used])
    /\ UNCHANGED <<db, tx, lock, answers>>

(* The decision, from the session row read one statement earlier.          *)
Decide(status, used) == IF status = "ACTIVE" /\ used < Limit THEN "ALLOW" ELSE "DENY"

ReadExisting(t) ==
    /\ job[t].at = "readExisting"
    /\ LET old == {r \in View(conn[t]).rows : r.id = job[t].id}
           new == [id |-> job[t].id, decision |-> Decide(job[t].status, job[t].used)]
       IN \/ \E r \in old : Goto(t, [at |-> "replay", row |-> r])
          \/ /\ old = {}
             /\ Goto(t, [at |-> IF new.decision = "ALLOW" THEN "count" ELSE "insert",
                         row |-> new])
    /\ UNCHANGED <<db, tx, lock, answers>>

(* UPDATE ... SET external_calls_used = external_calls_used + 1            *)
Count(t) ==
    /\ job[t].at = "count"
    /\ Write(conn[t], [View(conn[t]) EXCEPT !.used = @ + 1])
    /\ Goto(t, [job[t] EXCEPT !.at = "insert"])
    /\ UNCHANGED <<lock, answers>>

InsertUnchecked(t) ==        \* mutant: no UNIQUE constraint on the table
    /\ job[t].at = "insert"
    /\ Write(conn[t], [View(conn[t]) EXCEPT !.rows = @ \cup {job[t].row}])
    /\ Goto(t, [job[t] EXCEPT !.at = "commit"])
    /\ UNCHANGED <<lock, answers>>

InsertAnswering(t) ==        \* mutant: the client is told before the commit
    /\ job[t].at = "insert"
    /\ Write(conn[t], [View(conn[t]) EXCEPT !.rows = @ \cup {job[t].row}])
    /\ answers' = answers \cup {job[t].row}
    /\ Goto(t, [job[t] EXCEPT !.at = "commit"])
    /\ UNCHANGED lock

(* INSERT, under UNIQUE(session_id, request_id).                           *)
Insert(t) ==
    /\ job[t].at = "insert"
    /\ LET v == View(conn[t])
       IN IF \E r \in v.rows : r.id = job[t].row.id
          THEN Goto(t, [at |-> "rollback"]) /\ UNCHANGED <<db, tx>>
          ELSE /\ Write(conn[t], [v EXCEPT !.rows = @ \cup {job[t].row}])
               /\ Goto(t, [job[t] EXCEPT !.at = "commit"])
    /\ UNCHANGED <<lock, answers>>

(* commit() after a fresh decision, and after a replay.                    *)
CommitDecision(t) ==
    /\ job[t].at \in {"commit", "replay"}
    /\ Commit(conn[t])
    /\ Goto(t, [at |-> IF job[t].at = "commit" THEN "auditInsert" ELSE "reply",
                row |-> job[t].row])
    /\ UNCHANGED <<lock, answers>>

(* except Exception: self._conn.rollback(); raise                          *)
RollbackDecision(t) ==
    /\ job[t].at = "rollback"
    /\ Rollback(conn[t])
    /\ Goto(t, Idle)
    /\ UNCHANGED <<lock, answers>>

(* save_audit_log: an INSERT and a commit inside _conn_lock, which the     *)
(* session functions above do not take.  Like every statement but BEGIN    *)
(* IMMEDIATE it waits for the write lock, and is taken to get it in time.  *)
AuditInsert(t) ==
    /\ job[t].at = "auditInsert" /\ lock[conn[t]] = {}
    /\ lock' = [lock EXCEPT ![conn[t]] = {t}]
    /\ Write(conn[t], View(conn[t]))
    /\ Goto(t, [job[t] EXCEPT !.at = "auditCommit"])
    /\ UNCHANGED answers

AuditCommit(t) ==
    /\ job[t].at = "auditCommit"
    /\ Commit(conn[t])
    /\ lock' = [lock EXCEPT ![conn[t]] = {}]
    /\ Goto(t, IF job[t].row = Idle THEN Idle ELSE [job[t] EXCEPT !.at = "reply"])
    /\ UNCHANGED answers

Reply(t) ==
    /\ job[t].at = "reply"
    /\ answers' = answers \cup {job[t].row}
    /\ Goto(t, Idle)
    /\ UNCHANGED <<db, tx, lock>>

(* update_session_status("REVOKED"): the check, then the UPDATE, then the  *)
(* commit.                                                                 *)
RequestRevoke(t) ==
    /\ job[t] = Idle /\ View(conn[t]).status = "ACTIVE"
    /\ Goto(t, [at |-> "revoke"])
    /\ UNCHANGED <<db, tx, lock, answers>>

Revoke(t) ==
    /\ job[t].at = "revoke"
    /\ Write(conn[t], [View(conn[t]) EXCEPT !.status = "REVOKED"])
    /\ Goto(t, [at |-> "revokeCommit"])
    /\ UNCHANGED <<lock, answers>>

CommitRevoke(t) ==
    /\ job[t].at = "revokeCommit"
    /\ Commit(conn[t])
    /\ Goto(t, [at |-> "auditInsert", row |-> Idle])
    /\ UNCHANGED <<lock, answers>>

Step(t) == \/ Begin(t) \/ ReadSession(t) \/ ReadExisting(t) \/ Count(t) \/ Insert(t)
           \/ CommitDecision(t) \/ RollbackDecision(t) \/ AuditInsert(t) \/ AuditCommit(t)
           \/ Reply(t) \/ Revoke(t) \/ CommitRevoke(t)

Next == /\ \E t \in Threads : \/ \E id \in RequestIds : Authorize(t, id)
                              \/ RequestRevoke(t)
                              \/ Step(t)
        /\ UNCHANGED conn

Spec == Init /\ [][Next]_vars
-----------------------------------------------------------------------------
Allowed == {r \in db.rows : r.decision = "ALLOW"}

(* Every thread is a process of its own.                                   *)
Separate == \A t, u \in Threads : conn[t] = conn[u] => t = u

(* "session state and external-call counters are enforced atomically": the *)
(* session never grants more external calls than its limit.                *)
CountersAtomic == Cardinality(Allowed) <= Limit

(* "persists every decision": between processes, what a client was told is *)
(* in the table.                                                           *)
AnswersPersisted == Separate => answers \subseteq db.rows

(* A request is decided at most once, whichever threads share whichever    *)
(* connection and end each other's transactions; the state is well typed.  *)
DecidedOnce == TypeOK /\ \A r1, r2 \in db.rows : r1.id = r2.id => r1 = r2

(* Statement by statement, processes with a connection each keep the       *)
(* contract of the runtime guard, the limit included: the atomic store     *)
(* calls that AgentRuntime takes for granted.                              *)
TheSession == {"session"}
Phase == [s \in TheSession |-> IF db.status = "ACTIVE" THEN "open" ELSE "stopped"]
Ruling(r) == [session |-> "session", id |-> r.id, payload |-> "external", decision |-> r.decision]
IsExternal(payload) == payload = "external"
IsGrant(decision) == decision = "ALLOW"
Unbounded(s) == FALSE
Budget(s) == Limit
Contract == INSTANCE AuthorizationContract
    WITH Sessions <- TheSession, Payloads <- {"external"},
         phase <- Phase, rulings <- {Ruling(r) : r \in db.rows},
         External <- IsExternal, Granting <- IsGrant, Unlimited <- Unbounded
KeepsContract == [][Separate => Contract!Next]_(Contract!contractVars)
=============================================================================
