---------------------------- MODULE PostgresStore ----------------------------
(***************************************************************************)
(* The decisions of one agent session in data/postgres_store.py, one SQL   *)
(* statement at a time; all requests are external calls that the policy    *)
(* allows.  What SharedConnection is for SQLite, with what differs here:   *)
(*   - every statement opens a transaction if its connection has none, and *)
(*     sees what is committed by then and what its own transaction wrote;  *)
(*   - SELECT ... FOR UPDATE and UPDATE wait for the lock of the session's *)
(*     row, which is of a connection, until that one commits or rolls back;*)
(*   - a statement that fails aborts the transaction: all that follow on   *)
(*     that connection fail, and its commit() rolls back and says nothing. *)
(* No call of the store takes a lock of the process.                       *)
(***************************************************************************)
EXTENDS Integers, FiniteSets

CONSTANTS Threads, Connections, RequestIds,
          Limit,     \* max_external_calls of the policy
          Layouts,   \* functions of [Threads -> Connections], one of them for good
          NoTx       \* the connection has no transaction, or nobody has the lock

VARIABLES conn,      \* [Threads -> Connections]
          db,        \* what is committed: [status, used, rows]
          tx,        \* [Connections -> NoTx or the transaction]
          holder,    \* the connection that has the lock of the session's row
          job,       \* [Threads -> where the thread is, and its local variables]
          answers    \* history: decisions returned to clients
vars == <<conn, db, tx, holder, job, answers>>

Idle == [at |-> "idle"]
Decisions == {"ALLOW", "DENY"}
Row == [id : RequestIds, decision : Decisions]

(* What a transaction wrote so far.                                        *)
Work == [failed : BOOLEAN, added : SUBSET Row, spent : Nat, stops : BOOLEAN]
Fresh == [failed |-> FALSE, added |-> {}, spent |-> 0, stops |-> FALSE]

(* What the proofs, and every instance, take the constants to be.          *)
StoreAssumption ==
    /\ Limit \in Nat
    /\ NoTx \notin Work /\ NoTx \notin Connections /\ Layouts \subseteq [Threads -> Connections]

TypeOK == /\ conn \in Layouts /\ holder \in Connections \cup {NoTx} /\ answers \subseteq Row
          /\ tx \in [Connections -> {NoTx} \cup Work]
          /\ db.status \in {"ACTIVE", "REVOKED"} /\ db.used \in Nat /\ db.rows \subseteq Row
          /\ \A c \in Connections : holder = c => tx[c] # NoTx

Init == /\ conn \in Layouts
        /\ db = [status |-> "ACTIVE", used |-> 0, rows |-> {}]
        /\ tx = [c \in Connections |-> NoTx] /\ holder = NoTx
        /\ job = [t \in Threads |-> Idle] /\ answers = {}
-----------------------------------------------------------------------------
Opened(c) == IF tx[c] = NoTx THEN Fresh ELSE tx[c]
Merged(work) ==
    [status |-> IF work.stops THEN "REVOKED" ELSE db.status, used |-> db.used + work.spent,
     rows |-> db.rows \cup work.added]
View(c) == IF tx[c] = NoTx THEN db ELSE Merged(tx[c])

Goto(t, next) == job' = [job EXCEPT ![t] = next]
At(t, at) == job[t].at = at

(* A statement of thread t that leaves its connection the transaction      *)
(* `work`; and one that takes the lock of the session's row.               *)
Execute(t, work) == /\ ~Opened(conn[t]).failed
                    /\ tx' = [tx EXCEPT ![conn[t]] = work]
                    /\ UNCHANGED <<db, answers>>
KeepLock == UNCHANGED holder
TakeLock(t) == holder \in {NoTx, conn[t]} /\ holder' = conn[t]

(* A statement after one that failed: record_tool_invocation rolls back,   *)
(* and the other calls leave the transaction as it is.                     *)
Refused(t) ==
    /\ job[t].at \in {"lock", "readExisting", "count", "insert", "audit", "stop"}
    /\ Opened(conn[t]).failed
    /\ Goto(t, IF job[t].at \in {"audit", "stop"} THEN Idle ELSE [at |-> "rollback"])
    /\ UNCHANGED <<db, tx, holder, answers>>

(* commit() and rollback() of the connection.                              *)
Commit(t) == LET c == conn[t]
             IN /\ db' = IF Opened(c).failed THEN db ELSE View(c)
                /\ tx' = [tx EXCEPT ![c] = NoTx]
                /\ holder' = IF holder = c THEN NoTx ELSE holder
Rollback(t) == LET c == conn[t]
               IN /\ tx' = [tx EXCEPT ![c] = NoTx] /\ UNCHANGED db
                  /\ holder' = IF holder = c THEN NoTx ELSE holder
-----------------------------------------------------------------------------
Authorize(t, id) == /\ job[t] = Idle /\ Goto(t, [at |-> "lock", id |-> id])
                    /\ UNCHANGED <<db, tx, holder, answers>>

LockNothing(t) == \* mutant: the row is read without FOR UPDATE
    /\ At(t, "lock")
    /\ Execute(t, Opened(conn[t])) /\ KeepLock
    /\ Goto(t, [at |-> "readExisting", id |-> job[t].id, session |-> View(conn[t])])

(* SELECT ... FROM agent_sessions ... FOR UPDATE                           *)
LockSession(t) ==
    /\ At(t, "lock")
    /\ Execute(t, Opened(conn[t])) /\ TakeLock(t)
    /\ Goto(t, [at |-> "readExisting", id |-> job[t].id, session |-> View(conn[t])])

Decide(session) == IF session.status = "ACTIVE" /\ session.used < Limit THEN "ALLOW" ELSE "DENY"

(* SELECT ... FROM tool_invocation_decisions                               *)
ReadExisting(t) ==
    /\ At(t, "readExisting")
    /\ Execute(t, Opened(conn[t])) /\ KeepLock
    /\ LET old == {r \in View(conn[t]).rows : r.id = job[t].id}
           new == [id |-> job[t].id, decision |-> Decide(job[t].session)]
       IN \/ \E r \in old : Goto(t, [at |-> "replay", row |-> r])
          \/ /\ old = {}
             /\ Goto(t, [at |-> IF new.decision = "ALLOW" THEN "count" ELSE "insert", row |-> new])

(* UPDATE agent_sessions SET external_calls_used = ... + 1                 *)
Count(t) ==
    /\ At(t, "count")
    /\ Execute(t, [Opened(conn[t]) EXCEPT !.spent = @ + 1]) /\ TakeLock(t)
    /\ Goto(t, [job[t] EXCEPT !.at = "insert"])

(* INSERT, under UNIQUE (session_id, request_id): it waits for another     *)
(* transaction that has inserted the same key.                             *)
Pending(c, id) == tx[c] # NoTx /\ ~tx[c].failed /\ \E r \in tx[c].added : r.id = id
Insert(t) ==
    /\ At(t, "insert") /\ KeepLock
    /\ \A c \in Connections \ {conn[t]} : ~Pending(c, job[t].row.id)
    /\ LET work == Opened(conn[t])
       IN IF \E r \in View(conn[t]).rows : r.id = job[t].row.id
          THEN Execute(t, [work EXCEPT !.failed = TRUE]) /\ Goto(t, [at |-> "rollback"])
          ELSE /\ Execute(t, [work EXCEPT !.added = @ \cup {job[t].row}])
               /\ Goto(t, [job[t] EXCEPT !.at = "commit"])

CommitDecision(t) ==
    /\ job[t].at \in {"commit", "replay"}
    /\ Commit(t)
    /\ Goto(t, [at |-> IF At(t, "commit") THEN "audit" ELSE "reply", row |-> job[t].row])
    /\ UNCHANGED answers

RollbackDecision(t) == /\ At(t, "rollback") /\ Rollback(t) /\ Goto(t, Idle)
                       /\ UNCHANGED answers

(* save_audit_log: an INSERT, and a commit.                                *)
Audit(t) == /\ At(t, "audit") /\ Execute(t, Opened(conn[t])) /\ KeepLock
            /\ Goto(t, [job[t] EXCEPT !.at = "auditCommit"])
AuditCommit(t) == /\ At(t, "auditCommit") /\ Commit(t)
                  /\ Goto(t, IF job[t].row = Idle THEN Idle ELSE [job[t] EXCEPT !.at = "reply"])
                  /\ UNCHANGED answers

Reply(t) == /\ At(t, "reply") /\ Goto(t, Idle)
            /\ answers' = answers \cup {job[t].row}
            /\ UNCHANGED <<db, tx, holder>>

(* update_session_status("REVOKED"), which reads the session first.        *)
RequestStop(t) == /\ job[t] = Idle /\ Opened(conn[t]).failed = FALSE
                  /\ View(conn[t]).status = "ACTIVE"
                  /\ Execute(t, Opened(conn[t])) /\ KeepLock
                  /\ Goto(t, [at |-> "stop"])
Stop(t) == /\ At(t, "stop") /\ Execute(t, [Opened(conn[t]) EXCEPT !.stops = TRUE]) /\ TakeLock(t)
           /\ Goto(t, [at |-> "stopCommit"])
CommitStop(t) == /\ At(t, "stopCommit") /\ Commit(t)
                 /\ Goto(t, [at |-> "audit", row |-> Idle]) /\ UNCHANGED answers

Step(t) == \/ LockSession(t) \/ ReadExisting(t) \/ Count(t) \/ Insert(t) \/ CommitDecision(t)
           \/ RollbackDecision(t) \/ Refused(t) \/ Audit(t) \/ AuditCommit(t) \/ Reply(t)
           \/ Stop(t) \/ CommitStop(t)

Next == /\ \E t \in Threads : (\E id \in RequestIds : Authorize(t, id)) \/ RequestStop(t) \/ Step(t)
        /\ UNCHANGED conn
Spec == Init /\ [][Next]_vars
-----------------------------------------------------------------------------
(* Every thread is a process of its own.                                   *)
Separate == \A t, u \in Threads : conn[t] = conn[u] => t = u

(* Between processes, what a client was told is in the table.              *)
AnswersPersisted == Separate => answers \subseteq db.rows

(* A request is decided at most once, whoever shares a connection, and     *)
(* whatever its transactions came to; the state is well typed.             *)
DecidedOnce == TypeOK /\ \A r1, r2 \in db.rows : r1.id = r2.id => r1 = r2

(* Between processes the lock of the session's row makes one step of the   *)
(* contract of what is many statements here.                               *)
TheSession == {"session"}
Phase == [s \in TheSession |-> IF db.status = "ACTIVE" THEN "open" ELSE "stopped"]
Ruling(r) == [session |-> "session", id |-> r.id, payload |-> "external", decision |-> r.decision]
IsExternal(payload) == payload = "external"
IsGrant(decision) == decision = "ALLOW"
Unbounded(s) == FALSE
Budget(s) == Limit
Contract == INSTANCE AuthorizationContract
    WITH Sessions <- TheSession, Payloads <- {"external"},
         phase <- Phase, rulings <- {Ruling(r) : r \in db.rows},
         External <- IsExternal, Granting <- IsGrant, Unlimited <- Unbounded
KeepsContract == [][Separate => Contract!Next]_(Contract!contractVars)
=============================================================================
