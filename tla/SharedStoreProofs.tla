-------------------------- MODULE SharedStoreProofs --------------------------
(* For any number of threads, connections and requests, with either store: *)
(* statement by statement, a decision of an agent session is one step of   *)
(* the contract of the runtime guard when processes have connections of    *)
(* their own, and is made at most once however threads share connections.  *)
(* However many handlers append to a ledger, rewrite its row and die, what *)
(* is stored is one unbroken chain.  For any number of importers and       *)
(* recorders: the statements that claim a feed are one step.               *)
EXTENDS SharedStore, Sequences, SequenceTheorems, FiniteSetTheorems, FunctionTheorems, TLAPS

SameId(rows) == \A r1, r2 \in rows : r1.id = r2.id => r1 = r2

(* Nothing is committed while a transaction that writes is open, so that   *)
(* it goes on from what is committed.                                      *)
OneWriter ==
    /\ \A c, d \in Connections : tx[c] # NoTx /\ tx[d] # NoTx => c = d
    /\ \A c \in Connections : tx[c] # NoTx => db.rows \subseteq tx[c].rows /\ SameId(tx[c].rows)
    /\ SameId(db.rows)

StoreInv == /\ TypeOK /\ OneWriter
            /\ \A t \in Threads : job[t].at = "reply" => job[t].row \in Row

(* What a thread with a connection of its own knows of the transaction at  *)
(* each statement.                                                         *)
Unspent == db.status = "ACTIVE" /\ db.used < Limit
Spending(row) == IF row.decision = "ALLOW" THEN [db EXCEPT !.used = @ + 1] ELSE db
Undecided(row) == (\A r \in db.rows : r.id # row.id) /\ (row.decision = "ALLOW" => Unspent)

Alone(t) ==
    LET j == job[t]
        own == tx[conn[t]]
    IN /\ j.at \in {"idle", "begin", "auditInsert", "reply", "revoke", "rollback"} => own = NoTx
       /\ j.at \in {"readSession", "readExisting", "count", "replay", "auditCommit"} => own = db
       /\ j.at = "readExisting" => j.status = db.status /\ j.used = db.used
       /\ j.at = "count" => j.row.decision = "ALLOW"
       /\ j.at = "insert" => own = Spending(j.row)
       /\ j.at \in {"count", "insert", "commit"} => Undecided(j.row)
       /\ j.at = "commit" => own = [Spending(j.row) EXCEPT !.rows = @ \cup {j.row}]
       /\ j.at = "replay" => j.row \in db.rows
       /\ j.at \in {"auditInsert", "auditCommit", "reply"} => j.row \in {Idle} \cup db.rows
       /\ j.at = "revokeCommit" => own = [db EXCEPT !.status = "REVOKED"]

Kept == /\ IsFiniteSet(db.rows) /\ db.used = Cardinality(Allowed) /\ db.used <= Limit
        /\ answers \subseteq db.rows

SeparateInv == Separate => (\A t \in Threads : Alone(t)) /\ Kept
-----------------------------------------------------------------------------
LEMMA ViewIsTyped ==
    ASSUME TypeOK, OneWriter, NEW c \in Connections
    PROVE  View(c) \in Database /\ db.rows \subseteq View(c).rows /\ SameId(View(c).rows)
BY DEF View, TypeOK, OneWriter

(* A statement that writes goes on from what its connection sees.          *)
LEMMA WriteKeeps ==
    ASSUME TypeOK, OneWriter, NEW c \in Connections, NEW new \in Database, Write(c, new),
           View(c).rows \subseteq new.rows, SameId(new.rows)
    PROVE  /\ OneWriter' /\ db' = db /\ tx' \in [Connections -> {NoTx} \cup Database]
           /\ tx' = [tx EXCEPT ![c] = new]
<1>1. db' = db /\ tx' = [tx EXCEPT ![c] = new] /\ \A d \in Connections \ {c} : tx[d] = NoTx
  BY DEF Write, MayWrite
<1>2. db.rows \subseteq new.rows
  BY ViewIsTyped
<1>3. tx \in [Connections -> {NoTx} \cup Database]
  BY DEF TypeOK
<1>4. OneWriter'
  BY <1>1, <1>2, <1>3 DEF OneWriter
<1> QED
  BY <1>1, <1>3, <1>4

LEMMA CommitKeeps ==
    ASSUME StoreAssumption, TypeOK, OneWriter, NEW c \in Connections, Commit(c)
    PROVE  /\ OneWriter' /\ db' \in Database /\ tx' \in [Connections -> {NoTx} \cup Database]
           /\ db.rows \subseteq db'.rows /\ tx' = [tx EXCEPT ![c] = NoTx]
           /\ \A d \in Connections \ {c} : tx[d] # NoTx => db' = db
<1>1. db' = View(c) /\ tx' = [tx EXCEPT ![c] = NoTx]
  BY DEF Commit
<1>2. \A d \in Connections \ {c} : tx[d] # NoTx => db' = db
  BY <1>1 DEF OneWriter, View
<1>3. tx \in [Connections -> {NoTx} \cup Database]
  BY DEF TypeOK
<1>4. SameId(db'.rows) /\ db.rows \subseteq db'.rows /\ db' \in Database
  BY <1>1, ViewIsTyped
<1>5. OneWriter'
  <2>1. ASSUME NEW d \in Connections, tx'[d] # NoTx
        PROVE  d # c /\ tx'[d] = tx[d] /\ db' = db
    BY <1>1, <1>2, <1>3, <2>1
  <2> QED
    BY <1>4, <2>1 DEF OneWriter
<1> QED
  BY <1>1, <1>2, <1>3, <1>4, <1>5

LEMMA RollbackKeeps ==
    ASSUME StoreAssumption, TypeOK, OneWriter, NEW c \in Connections, Rollback(c)
    PROVE  /\ OneWriter' /\ db' = db /\ tx' \in [Connections -> {NoTx} \cup Database]
           /\ tx' = [tx EXCEPT ![c] = NoTx]
<1>1. db' = db /\ tx' = [tx EXCEPT ![c] = NoTx]
  BY DEF Rollback
<1>2. tx \in [Connections -> {NoTx} \cup Database]
  BY DEF TypeOK
<1> QED
  BY <1>1, <1>2 DEF OneWriter

(* What a thread has in hand where it is.                                  *)
LEMMA JobFields ==
    ASSUME NEW j \in Job
    PROVE  /\ j.at = "idle" <=> j = Idle
           /\ j.at \in {"begin", "readSession", "readExisting"} => j.id \in RequestIds
           /\ j.at = "readExisting" => j.status \in Statuses /\ j.used \in Nat
           /\ j.at \in {"count", "insert", "commit", "replay"} => j.row \in Row
           /\ j.at \in {"auditInsert", "auditCommit", "reply"} => j.row \in {Idle} \cup Row
           /\ j.at \in {"idle", "begin", "readSession", "readExisting", "count", "insert", "commit",
                        "replay", "auditInsert", "auditCommit", "reply", "rollback", "revoke",
                        "revokeCommit"}
BY DEF Job, Idle

LEMMA RowIsNotIdle == \A row \in Row : row # Idle
BY DEF Row, Idle

(* A job goes on.                                                          *)
LEMMA JobGoesOn ==
    ASSUME TypeOK, NEW t \in Threads, NEW next \in Job, Goto(t, next),
           \A u \in Threads : job[u].at = "reply" => job[u].row \in Row,
           next.at = "reply" => next.row \in Row
    PROVE  job' \in [Threads -> Job] /\ \A u \in Threads : job'[u].at = "reply" => job'[u].row \in Row
BY DEF TypeOK, Goto

(* The connection of a thread.                                             *)
LEMMA OwnConnection ==
    ASSUME StoreAssumption, TypeOK, NEW t \in Threads
    PROVE  conn[t] \in Connections
BY DEF StoreAssumption, TypeOK

-----------------------------------------------------------------------------
(* Steps that leave the store alone.                                       *)
LEMMA QuietKeeps ==
    ASSUME StoreInv, NEW t \in Threads, NEW next \in Job, Goto(t, next), UNCHANGED <<conn, db, tx>>,
           lock' \in [Connections -> SUBSET Threads], answers' \subseteq Row,
           next.at = "reply" => next.row \in Row
    PROVE  StoreInv'
<1>1. job' \in [Threads -> Job] /\ \A u \in Threads : job'[u].at = "reply" => job'[u].row \in Row
  BY JobGoesOn DEF StoreInv
<1>2. TypeOK'
  BY <1>1 DEF StoreInv, TypeOK
<1>3. OneWriter'
  BY DEF StoreInv, OneWriter
<1> QED
  BY <1>1, <1>2, <1>3 DEF StoreInv

LEMMA WritingKeeps ==
    ASSUME StoreInv, NEW t \in Threads, NEW next \in Job, Goto(t, next), conn' = conn, answers' = answers,
           lock' \in [Connections -> SUBSET Threads], next.at # "reply",
           NEW c \in Connections, NEW new \in Database, Write(c, new),
           View(c).rows \subseteq new.rows, SameId(new.rows)
    PROVE  StoreInv'
<1>1. job' \in [Threads -> Job] /\ \A u \in Threads : job'[u].at = "reply" => job'[u].row \in Row
  BY JobGoesOn DEF StoreInv
<1>2. OneWriter' /\ db' = db /\ tx' \in [Connections -> {NoTx} \cup Database]
  BY WriteKeeps DEF StoreInv
<1>3. TypeOK'
  BY <1>1, <1>2 DEF StoreInv, TypeOK
<1> QED
  BY <1>1, <1>2, <1>3 DEF StoreInv

LEMMA CommittingKeeps ==
    ASSUME StoreAssumption, StoreInv, NEW t \in Threads, NEW next \in Job, Goto(t, next), conn' = conn,
           answers' = answers, lock' \in [Connections -> SUBSET Threads],
           next.at = "reply" => next.row \in Row,
           NEW c \in Connections, Commit(c) \/ Rollback(c)
    PROVE  StoreInv'
<1>1. job' \in [Threads -> Job] /\ \A u \in Threads : job'[u].at = "reply" => job'[u].row \in Row
  BY JobGoesOn DEF StoreInv
<1>2. OneWriter' /\ db' \in Database /\ tx' \in [Connections -> {NoTx} \cup Database]
  <2>1. CASE Commit(c)
    BY <2>1, CommitKeeps DEF StoreInv
  <2>2. CASE Rollback(c)
    BY <2>2, RollbackKeeps DEF StoreInv, TypeOK
  <2> QED
    BY <2>1, <2>2
<1>3. TypeOK'
  BY <1>1, <1>2 DEF StoreInv, TypeOK
<1> QED
  BY <1>1, <1>2, <1>3 DEF StoreInv

LEMMA StoreStepKeeps ==
    ASSUME StoreAssumption, StoreInv, NEW t \in Threads, conn' = conn,
           (\E id \in RequestIds : Authorize(t, id)) \/ RequestRevoke(t) \/ Step(t)
    PROVE  StoreInv'
<1> DEFINE c == conn[t]
<1>1. /\ c \in Connections /\ job[t] \in Job
      /\ lock \in [Connections -> SUBSET Threads] /\ answers \subseteq Row
  BY OwnConnection DEF StoreInv, TypeOK
<1>2. View(c) \in Database /\ SameId(View(c).rows)
  BY <1>1, ViewIsTyped DEF StoreInv
<1> HIDE DEF c
<1>3. ASSUME NEW id \in RequestIds, Authorize(t, id)
      PROVE  StoreInv'
  <2>1. [at |-> "begin", id |-> id] \in Job
    BY DEF Job
  <2> QED
    BY <1>1, <1>3, <2>1, QuietKeeps DEF Authorize
<1>4. ASSUME RequestRevoke(t)
      PROVE  StoreInv'
  <2>1. [at |-> "revoke"] \in Job
    BY DEF Job
  <2> QED
    BY <1>1, <1>4, <2>1, QuietKeeps DEF RequestRevoke
<1>5. ASSUME Begin(t)
      PROVE  StoreInv'
  <2>1. job[t].id \in RequestIds
    BY <1>1, <1>5, JobFields DEF Begin
  <2>2. [at |-> "readSession", id |-> job[t].id] \in Job /\ [at |-> "rollback"] \in Job
    BY <2>1 DEF Job
  <2>3. CASE tx[c] = NoTx /\ Write(c, db) /\ Goto(t, [at |-> "readSession", id |-> job[t].id])
    <3>1. db = View(c)
      BY <2>3 DEF View
    <3> QED
      BY <1>1, <1>2, <1>5, <2>2, <2>3, <3>1, WritingKeeps DEF Begin
  <2>4. CASE Goto(t, [at |-> "rollback"]) /\ UNCHANGED <<db, tx>>
    BY <1>1, <1>5, <2>2, <2>4, QuietKeeps DEF Begin
  <2> QED
    BY <1>5, <2>3, <2>4 DEF Begin, c
<1>6. ASSUME ReadSession(t)
      PROVE  StoreInv'
  <2>1. job[t].id \in RequestIds
    BY <1>1, <1>6, JobFields DEF ReadSession
  <2>2. View(c).status \in Statuses /\ View(c).used \in Nat
    BY <1>2 DEF Database
  <2>3. [at |-> "readExisting", id |-> job[t].id, status |-> View(c).status, used |-> View(c).used] \in Job
    BY <2>1, <2>2 DEF Job
  <2> QED
    BY <1>1, <1>6, <2>3, QuietKeeps DEF ReadSession, c
<1>7. ASSUME ReadExisting(t)
      PROVE  StoreInv'
  <2>1. PICK row : row = [id |-> job[t].id, decision |-> Decide(job[t].status, job[t].used)]
    OBVIOUS
  <2>2. row \in Row
    BY <1>1, <1>7, <2>1, JobFields DEF ReadExisting, Row, Decide, Decisions
  <2>3. \A r \in View(c).rows : r \in Row
    BY <1>2 DEF Database
  <2>4. PICK r \in Row, at \in {"replay", "count", "insert"} : Goto(t, [at |-> at, row |-> r])
    BY <1>7, <2>1, <2>2, <2>3 DEF ReadExisting, c
  <2>5. [at |-> at, row |-> r] \in Job
    BY <2>4 DEF Job
  <2> QED
    BY <1>1, <1>7, <2>4, <2>5, QuietKeeps DEF ReadExisting
<1>8. ASSUME Count(t)
      PROVE  StoreInv'
  <2>1. PICK next : next = [job[t] EXCEPT !.at = "insert"]
    OBVIOUS
  <2>2. next \in Job /\ next.at = "insert"
    BY <1>1, <1>8, <2>1 DEF Count, Job, Idle
  <2>3. PICK new : new = [View(c) EXCEPT !.used = @ + 1]
    OBVIOUS
  <2>4. new \in Database /\ new.rows = View(c).rows
    BY <1>2, <2>3 DEF Database
  <2> QED
    BY <1>1, <1>2, <1>8, <2>1, <2>2, <2>3, <2>4, WritingKeeps DEF Count, c
<1>9. ASSUME Insert(t)
      PROVE  StoreInv'
  <2>1. CASE \E r \in View(c).rows : r.id = job[t].row.id
    <3>1. [at |-> "rollback"] \in Job
      BY DEF Job
    <3> QED
      BY <1>1, <1>9, <2>1, <3>1, QuietKeeps DEF Insert, c
  <2>2. CASE \A r \in View(c).rows : r.id # job[t].row.id
    <3>1. PICK next : next = [job[t] EXCEPT !.at = "commit"]
      OBVIOUS
    <3>2. next \in Job /\ next.at = "commit" /\ job[t].row \in Row
      BY <1>1, <1>9, <3>1, JobFields DEF Insert, Job, Idle
    <3>3. PICK new : new = [View(c) EXCEPT !.rows = @ \cup {job[t].row}]
      OBVIOUS
    <3>4. new \in Database /\ new.rows = View(c).rows \cup {job[t].row}
      BY <1>2, <3>2, <3>3 DEF Database
    <3>5. SameId(new.rows) /\ View(c).rows \subseteq new.rows
      BY <1>2, <2>2, <3>4 DEF SameId
    <3>6. Write(c, new) /\ Goto(t, next) /\ UNCHANGED <<lock, answers>>
      BY <1>9, <2>2, <3>1, <3>3 DEF Insert, c
    <3> QED
      BY <1>1, <3>2, <3>4, <3>5, <3>6, WritingKeeps
  <2> QED
    BY <2>1, <2>2
<1>10. ASSUME CommitDecision(t)
       PROVE  StoreInv'
  <2>1. job[t].row \in Row
    BY <1>1, <1>10, JobFields DEF CommitDecision
  <2>2. PICK next : next = [at |-> IF job[t].at = "commit" THEN "auditInsert" ELSE "reply",
                            row |-> job[t].row]
    OBVIOUS
  <2>3. next \in Job /\ next.row \in Row
    BY <2>1, <2>2 DEF Job
  <2> QED
    BY <1>1, <1>10, <2>2, <2>3, CommittingKeeps DEF CommitDecision, c
<1>11. ASSUME RollbackDecision(t)
       PROVE  StoreInv'
  <2>1. Idle \in Job /\ Idle.at # "reply"
    BY DEF Job, Idle
  <2> QED
    BY <1>1, <1>11, <2>1, CommittingKeeps DEF RollbackDecision, c
<1>12. ASSUME AuditInsert(t)
       PROVE  StoreInv'
  <2>1. PICK next : next = [job[t] EXCEPT !.at = "auditCommit"]
    OBVIOUS
  <2>2. next \in Job /\ next.at = "auditCommit"
    BY <1>1, <1>12, <2>1 DEF AuditInsert, Job, Idle
  <2>3. lock' \in [Connections -> SUBSET Threads]
    BY <1>1, <1>12 DEF AuditInsert
  <2> QED
    BY <1>1, <1>2, <1>12, <2>1, <2>2, <2>3, WritingKeeps DEF AuditInsert, c
<1>13. ASSUME AuditCommit(t)
       PROVE  StoreInv'
  <2>1. PICK next : next = IF job[t].row = Idle THEN Idle ELSE [job[t] EXCEPT !.at = "reply"]
    OBVIOUS
  <2>2. next \in Job /\ (next.at = "reply" => next.row \in Row)
    BY <1>1, <1>13, <2>1, JobFields DEF AuditCommit, Job, Idle
  <2>3. lock' \in [Connections -> SUBSET Threads]
    BY <1>1, <1>13 DEF AuditCommit
  <2> QED
    BY <1>1, <1>13, <2>1, <2>2, <2>3, CommittingKeeps DEF AuditCommit, c
<1>14. ASSUME Reply(t)
       PROVE  StoreInv'
  <2>1. Idle \in Job /\ Idle.at # "reply"
    BY DEF Job, Idle
  <2>2. answers' \subseteq Row
    BY <1>1, <1>14 DEF Reply, StoreInv
  <2> QED
    BY <1>1, <1>14, <2>1, <2>2, QuietKeeps DEF Reply
<1>15. ASSUME Revoke(t)
       PROVE  StoreInv'
  <2>1. [at |-> "revokeCommit"] \in Job
    BY DEF Job
  <2>2. PICK new : new = [View(c) EXCEPT !.status = "REVOKED"]
    OBVIOUS
  <2>3. new \in Database /\ new.rows = View(c).rows
    BY <1>2, <2>2 DEF Database, Statuses
  <2> QED
    BY <1>1, <1>2, <1>15, <2>1, <2>2, <2>3, WritingKeeps DEF Revoke, c
<1>16. ASSUME CommitRevoke(t)
       PROVE  StoreInv'
  <2>1. [at |-> "auditInsert", row |-> Idle] \in Job
    BY DEF Job
  <2> QED
    BY <1>1, <1>16, <2>1, CommittingKeeps DEF CommitRevoke, c
<1> QED
  BY <1>3, <1>4, <1>5, <1>6, <1>7, <1>8, <1>9, <1>10, <1>11, <1>12, <1>13, <1>14, <1>15, <1>16 DEF Step

-----------------------------------------------------------------------------
(* A thread with a connection of its own does not notice the others: what  *)
(* is committed does not change while it has a transaction open, and what  *)
(* is committed stays.                                                     *)
LEMMA OthersStay ==
    ASSUME StoreAssumption, StoreInv, Separate, conn' = conn, NEW t \in Threads, NEW u \in Threads \ {t},
           Alone(u), job'[u] = job[u], \A c \in Connections \ {conn[t]} : tx'[c] = tx[c],
           \A c \in Connections \ {conn[t]} : tx[c] # NoTx => db' = db, db.rows \subseteq db'.rows
    PROVE  Alone(u)'
<1>1. conn[u] \in Connections \ {conn[t]}
  BY OwnConnection DEF StoreInv, Separate
<1>2. tx'[conn[u]] = tx[conn[u]] /\ (tx[conn[u]] # NoTx => db' = db)
  BY <1>1
<1>3. db # NoTx /\ \A new \in Database : new # NoTx
  BY DEF StoreInv, TypeOK, StoreAssumption
<1>4. job[u] \in Job
  BY DEF StoreInv, TypeOK
<1>5. CASE tx[conn[u]] = NoTx
  <2>1. job[u].at \in {"idle", "begin", "auditInsert", "reply", "revoke", "rollback"}
    <3>1. Spending(job[u].row) # NoTx \/ job[u].at # "insert"
      BY <1>3, <1>4, JobFields DEF Spending, StoreInv, TypeOK, Database
    <3>2. job[u].at = "commit" => [Spending(job[u].row) EXCEPT !.rows = @ \cup {job[u].row}] # NoTx
      BY <1>3, <1>4, JobFields DEF Spending, StoreInv, TypeOK, Database
    <3>3. [db EXCEPT !.status = "REVOKED"] # NoTx
      BY <1>3 DEF StoreInv, TypeOK, Database, Statuses
    <3> QED
      BY <1>3, <1>4, <1>5, <3>1, <3>2, <3>3, JobFields DEF Alone
  <2> QED
    BY <1>2, <1>5, <2>1 DEF Alone
<1>6. CASE tx[conn[u]] # NoTx
  BY <1>2, <1>6 DEF Alone, Undecided, Unspent, Spending
<1> QED
  BY <1>5, <1>6

(* A step of t that commits nothing.                                       *)
LEMMA NothingCommitted ==
    ASSUME StoreAssumption, StoreInv, Separate, \A u \in Threads : Alone(u), Kept,
           conn' = conn, NEW t \in Threads, NEW next, Goto(t, next), db' = db,
           \A c \in Connections \ {conn[t]} : tx'[c] = tx[c], answers' \subseteq db.rows,
           Alone(t)'
    PROVE  (\A u \in Threads : Alone(u)') /\ Kept'
<1>1. ASSUME NEW u \in Threads \ {t} PROVE Alone(u)'
  <2>1. job'[u] = job[u]
    BY DEF Goto, StoreInv, TypeOK
  <2> QED
    BY <2>1, OthersStay
<1>2. Kept'
  BY DEF Kept, Allowed
<1> QED
  BY <1>1, <1>2

LEMMA SomethingCommitted ==
    ASSUME StoreAssumption, StoreInv, Separate, \A u \in Threads : Alone(u),
           conn' = conn, NEW t \in Threads, NEW next, Goto(t, next), Commit(conn[t]),
           Kept', Alone(t)'
    PROVE  (\A u \in Threads : Alone(u)') /\ Kept'
<1>1. ASSUME NEW u \in Threads \ {t} PROVE Alone(u)'
  <2>1. job'[u] = job[u]
    BY DEF Goto, StoreInv, TypeOK
  <2>2. conn[t] \in Connections /\ tx \in [Connections -> {NoTx} \cup Database]
    BY OwnConnection DEF StoreInv, TypeOK
  <2>3. /\ db.rows \subseteq db'.rows /\ tx' = [tx EXCEPT ![conn[t]] = NoTx]
        /\ \A d \in Connections \ {conn[t]} : tx[d] # NoTx => db' = db
    BY <2>2, CommitKeeps DEF StoreInv
  <2>4. \A d \in Connections \ {conn[t]} : tx'[d] = tx[d]
    BY <2>2, <2>3
  <2> QED
    BY <2>1, <2>3, <2>4, OthersStay
<1> QED
  BY <1>1

(* What is allowed is counted: a decision that is committed adds itself.   *)
LEMMA CountedOnce ==
    ASSUME Limit \in Nat, db \in Database, Kept, NEW row \in Row, Undecided(row), answers' = answers,
           db' = [Spending(row) EXCEPT !.rows = @ \cup {row}]
    PROVE  Kept' /\ db'.status = db.status /\ db'.rows = db.rows \cup {row}
<1>1. db \in Database /\ IsFiniteSet(db.rows)
  BY DEF Kept
<1>2. /\ db'.rows = db.rows \cup {row} /\ db'.status = db.status
      /\ db'.used = IF row.decision = "ALLOW" THEN db.used + 1 ELSE db.used
  BY <1>1 DEF Spending, Database
<1>3. row \notin db.rows /\ row \notin Allowed /\ IsFiniteSet(Allowed)
  <2>1. Allowed \subseteq db.rows
    BY DEF Allowed
  <2>2. row \notin db.rows
    BY DEF Undecided
  <2> QED
    BY <1>1, <2>1, <2>2, FS_Subset
<1>4. Allowed' = IF row.decision = "ALLOW" THEN Allowed \cup {row} ELSE Allowed
  BY <1>2 DEF Allowed
<1>5. Cardinality(Allowed \cup {row}) = Cardinality(Allowed) + 1
  BY <1>3, FS_AddElement
<1>6. IsFiniteSet(db'.rows)
  BY <1>1, <1>2, FS_AddElement
<1>7. db'.used <= Limit
  BY <1>1, <1>2 DEF Kept, Undecided, Unspent, Database
<1> QED
  BY <1>2, <1>4, <1>5, <1>6, <1>7 DEF Kept

-----------------------------------------------------------------------------
LEMMA SeparateStepKeeps ==
    ASSUME StoreAssumption, StoreInv, Separate, \A u \in Threads : Alone(u), Kept,
           NEW t \in Threads, conn' = conn,
           (\E id \in RequestIds : Authorize(t, id)) \/ RequestRevoke(t) \/ Step(t)
    PROVE  (\A u \in Threads : Alone(u)') /\ Kept'
<1> DEFINE c == conn[t]
<1>1. c \in Connections /\ job[t] \in Job /\ db \in Database /\ answers \subseteq db.rows /\ Alone(t)
  BY OwnConnection DEF StoreInv, TypeOK, Kept
<1>2. tx \in [Connections -> {NoTx} \cup Database] /\ db # NoTx /\ job \in [Threads -> Job]
  BY DEF StoreInv, TypeOK, StoreAssumption
<1>3. ASSUME NEW new \in {NoTx} \cup Database, tx' = [tx EXCEPT ![c] = new]
      PROVE  tx'[c] = new /\ \A d \in Connections \ {c} : tx'[d] = tx[d]
  BY <1>1, <1>2, <1>3
<1>4. ASSUME NEW next, Goto(t, next)
      PROVE  job'[t] = next
  BY <1>2, <1>4 DEF Goto
<1> HIDE DEF c
<1>5. ASSUME (\E id \in RequestIds : Authorize(t, id)) \/ RequestRevoke(t)
      PROVE  (\A u \in Threads : Alone(u)') /\ Kept'
  <2>1. PICK next : /\ Goto(t, next) /\ UNCHANGED <<db, tx, lock, answers>> /\ next.at \in {"begin", "revoke"}
                    /\ job[t] = Idle
    BY <1>5 DEF Authorize, RequestRevoke
  <2>2. tx[c] = NoTx
    BY <1>1, <2>1 DEF Alone, c, Idle
  <2>3. Alone(t)'
    BY <1>4, <2>1, <2>2 DEF Alone, c
  <2> QED
    BY <1>1, <2>1, <2>3, NothingCommitted
<1>6. ASSUME Begin(t)
      PROVE  (\A u \in Threads : Alone(u)') /\ Kept'
  <2>1. tx[c] = NoTx
    BY <1>1, <1>6 DEF Begin, Alone, c
  <2>2. CASE Write(c, db) /\ Goto(t, [at |-> "readSession", id |-> job[t].id])
    <3>1. db' = db /\ tx' = [tx EXCEPT ![c] = db] /\ answers' = answers
      BY <1>6, <2>2 DEF Write, Begin
    <3>2. tx'[c] = db /\ \A d \in Connections \ {c} : tx'[d] = tx[d]
      BY <1>1, <1>3, <3>1
    <3>3. Alone(t)'
      BY <1>4, <2>2, <3>1, <3>2 DEF Alone, c
    <3> QED
      BY <1>1, <2>2, <3>1, <3>2, <3>3, NothingCommitted DEF c
  <2>3. CASE Goto(t, [at |-> "rollback"]) /\ UNCHANGED <<db, tx>>
    <3>1. Alone(t)'
      BY <1>4, <2>1, <2>3 DEF Alone, c
    <3> QED
      BY <1>1, <1>6, <2>3, <3>1, NothingCommitted DEF Begin
  <2> QED
    BY <1>6, <2>2, <2>3 DEF Begin, c
<1>7. ASSUME ReadSession(t)
      PROVE  (\A u \in Threads : Alone(u)') /\ Kept'
  <2>1. tx[c] = db /\ View(c) = db
    BY <1>1, <1>2, <1>7 DEF ReadSession, Alone, c, View
  <2>2. /\ Goto(t, [at |-> "readExisting", id |-> job[t].id, status |-> db.status, used |-> db.used])
        /\ UNCHANGED <<db, tx, lock, answers>>
    BY <1>7, <2>1 DEF ReadSession, c
  <2>3. Alone(t)'
    BY <1>4, <2>1, <2>2 DEF Alone, c
  <2> QED
    BY <1>1, <2>2, <2>3, NothingCommitted
<1>8. ASSUME ReadExisting(t)
      PROVE  (\A u \in Threads : Alone(u)') /\ Kept'
  <2>1. tx[c] = db /\ View(c) = db /\ job[t].status = db.status /\ job[t].used = db.used
    BY <1>1, <1>2, <1>8 DEF ReadExisting, Alone, c, View
  <2>2. UNCHANGED <<db, tx, lock, answers>>
    BY <1>8 DEF ReadExisting
  <2>3. CASE \E r \in db.rows : Goto(t, [at |-> "replay", row |-> r])
    <3>1. PICK r \in db.rows : Goto(t, [at |-> "replay", row |-> r])
      BY <2>3
    <3>2. Alone(t)'
      BY <1>4, <2>1, <2>2, <3>1 DEF Alone, c
    <3> QED
      BY <1>1, <2>2, <3>1, <3>2, NothingCommitted
  <2>4. CASE /\ {r \in db.rows : r.id = job[t].id} = {}
             /\ LET new == [id |-> job[t].id, decision |-> Decide(job[t].status, job[t].used)]
                IN Goto(t, [at |-> IF new.decision = "ALLOW" THEN "count" ELSE "insert", row |-> new])
    <3>1. PICK new : new = [id |-> job[t].id, decision |-> Decide(job[t].status, job[t].used)]
      OBVIOUS
    <3>2. Goto(t, [at |-> IF new.decision = "ALLOW" THEN "count" ELSE "insert", row |-> new])
      BY <2>4, <3>1
    <3>3. Undecided(new)
      BY <2>1, <2>4, <3>1 DEF Undecided, Unspent, Decide
    <3>4. new.decision # "ALLOW" => Spending(new) = db
      BY DEF Spending
    <3>5. Undecided(new)' /\ (new.decision # "ALLOW" => Spending(new)' = db)
      BY <2>2, <3>3, <3>4 DEF Undecided, Unspent, Spending
    <3>6. Alone(t)'
      BY <1>4, <2>1, <2>2, <3>2, <3>5 DEF Alone, c, Spending, Undecided, Unspent
    <3> QED
      BY <1>1, <2>2, <3>2, <3>6, NothingCommitted
  <2> QED
    BY <1>8, <2>1, <2>3, <2>4 DEF ReadExisting, c
<1>9. ASSUME Count(t)
      PROVE  (\A u \in Threads : Alone(u)') /\ Kept'
  <2>1. /\ tx[c] = db /\ View(c) = db /\ job[t].row.decision = "ALLOW" /\ Undecided(job[t].row)
    BY <1>1, <1>2, <1>9 DEF Count, Alone, c, View
  <2>2. PICK next : next = [job[t] EXCEPT !.at = "insert"]
    OBVIOUS
  <2>3. next.at = "insert" /\ next.row = job[t].row
    BY <1>1, <1>9, <2>2 DEF Count, Job, Idle
  <2>4. /\ Goto(t, next) /\ db' = db /\ answers' = answers
        /\ tx' = [tx EXCEPT ![c] = Spending(job[t].row)]
    BY <1>9, <2>1, <2>2 DEF Count, Write, c, Spending
  <2>5. Spending(job[t].row) \in Database
    BY <1>1 DEF Spending, Database
  <2>6. tx'[c] = Spending(job[t].row) /\ \A d \in Connections \ {c} : tx'[d] = tx[d]
    BY <1>3, <2>4, <2>5
  <2>7. Alone(t)'
    BY <1>4, <2>1, <2>3, <2>4, <2>6 DEF Alone, c, Spending, Undecided, Unspent
  <2> QED
    BY <1>1, <2>4, <2>6, <2>7, NothingCommitted DEF c
<1>10. ASSUME Insert(t)
       PROVE  (\A u \in Threads : Alone(u)') /\ Kept'
  <2>1. /\ tx[c] = Spending(job[t].row) /\ Undecided(job[t].row) /\ job[t].row \in Row
    BY <1>1, <1>10, JobFields DEF Insert, Alone, c
  <2>2. Spending(job[t].row) \in Database /\ Spending(job[t].row).rows = db.rows
    BY <1>1 DEF Spending, Database
  <2>3. View(c) = Spending(job[t].row)
    BY <2>1, <2>2 DEF View, StoreAssumption
  <2>4. ~\E r \in View(c).rows : r.id = job[t].row.id
    BY <2>1, <2>2, <2>3 DEF Undecided
  <2>5. PICK next : next = [job[t] EXCEPT !.at = "commit"]
    OBVIOUS
  <2>6. next.at = "commit" /\ next.row = job[t].row
    BY <1>1, <1>10, <2>5 DEF Insert, Job, Idle
  <2>7. PICK new : new = [Spending(job[t].row) EXCEPT !.rows = @ \cup {job[t].row}]
    OBVIOUS
  <2>8. new \in Database
    BY <2>1, <2>2, <2>7 DEF Database
  <2>9. Goto(t, next) /\ db' = db /\ answers' = answers /\ tx' = [tx EXCEPT ![c] = new]
    BY <1>10, <2>3, <2>4, <2>5, <2>7 DEF Insert, Write, c
  <2>10. tx'[c] = new /\ \A d \in Connections \ {c} : tx'[d] = tx[d]
    BY <1>3, <2>8, <2>9
  <2>11. Alone(t)'
    BY <1>4, <2>1, <2>6, <2>7, <2>9, <2>10 DEF Alone, c, Spending, Undecided, Unspent
  <2> QED
    BY <1>1, <2>9, <2>10, <2>11, NothingCommitted DEF c
<1>11. ASSUME CommitDecision(t)
       PROVE  (\A u \in Threads : Alone(u)') /\ Kept'
  <2>1. /\ Commit(c) /\ answers' = answers /\ job[t].row \in Row
        /\ db' = View(c) /\ tx' = [tx EXCEPT ![c] = NoTx]
    BY <1>1, <1>11, JobFields DEF CommitDecision, Commit, c
  <2>2. tx'[c] = NoTx
    BY <1>3, <2>1
  <2>3. CASE job[t].at = "replay"
    <3>1. db' = db /\ job[t].row \in db.rows
      BY <1>1, <1>2, <2>1, <2>3 DEF Alone, c, View
    <3>2. Goto(t, [at |-> "reply", row |-> job[t].row])
      BY <1>11, <2>3 DEF CommitDecision
    <3>3. Alone(t)'
      BY <1>4, <2>2, <3>1, <3>2 DEF Alone, c
    <3>4. Kept'
      BY <2>1, <3>1 DEF Kept, Allowed
    <3> QED
      BY <2>1, <3>2, <3>3, <3>4, SomethingCommitted DEF c
  <2>4. CASE job[t].at = "commit"
    <3>1. /\ tx[c] = [Spending(job[t].row) EXCEPT !.rows = @ \cup {job[t].row}]
          /\ Undecided(job[t].row)
      BY <1>1, <2>4 DEF Alone, c
    <3>2. tx[c] \in Database
      BY <1>1, <2>1, <3>1 DEF Spending, Database
    <3>3. db' = [Spending(job[t].row) EXCEPT !.rows = @ \cup {job[t].row}]
      BY <2>1, <3>1, <3>2 DEF View, StoreAssumption
    <3>4. Kept' /\ db'.rows = db.rows \cup {job[t].row}
      BY <1>1, <2>1, <3>1, <3>3, CountedOnce DEF StoreAssumption
    <3>5. Goto(t, [at |-> "auditInsert", row |-> job[t].row])
      BY <1>11, <2>4 DEF CommitDecision
    <3>6. Alone(t)'
      BY <1>4, <2>2, <3>4, <3>5 DEF Alone, c
    <3> QED
      BY <2>1, <3>4, <3>5, <3>6, SomethingCommitted DEF c
  <2> QED
    BY <1>11, <2>3, <2>4 DEF CommitDecision
<1>12. ASSUME RollbackDecision(t)
       PROVE  (\A u \in Threads : Alone(u)') /\ Kept'
  <2>1. Goto(t, Idle) /\ db' = db /\ answers' = answers /\ tx' = [tx EXCEPT ![c] = NoTx]
    BY <1>12 DEF RollbackDecision, Rollback, c
  <2>2. tx'[c] = NoTx /\ \A d \in Connections \ {c} : tx'[d] = tx[d]
    BY <1>3, <2>1
  <2>3. Alone(t)'
    BY <1>4, <2>1, <2>2 DEF Alone, c, Idle
  <2> QED
    BY <1>1, <2>1, <2>2, <2>3, NothingCommitted DEF c
<1>13. ASSUME AuditInsert(t)
       PROVE  (\A u \in Threads : Alone(u)') /\ Kept'
  <2>1. tx[c] = NoTx /\ View(c) = db /\ job[t].row \in {Idle} \cup db.rows
    BY <1>1, <1>13 DEF AuditInsert, Alone, c, View
  <2>2. PICK next : next = [job[t] EXCEPT !.at = "auditCommit"]
    OBVIOUS
  <2>3. next.at = "auditCommit" /\ next.row = job[t].row
    BY <1>1, <1>13, <2>2 DEF AuditInsert, Job, Idle
  <2>4. Goto(t, next) /\ db' = db /\ answers' = answers /\ tx' = [tx EXCEPT ![c] = db]
    BY <1>13, <2>1, <2>2 DEF AuditInsert, Write, c
  <2>5. tx'[c] = db /\ \A d \in Connections \ {c} : tx'[d] = tx[d]
    BY <1>1, <1>3, <2>4
  <2>6. Alone(t)'
    BY <1>4, <2>1, <2>3, <2>4, <2>5 DEF Alone, c
  <2> QED
    BY <1>1, <2>4, <2>5, <2>6, NothingCommitted DEF c
<1>14. ASSUME AuditCommit(t)
       PROVE  (\A u \in Threads : Alone(u)') /\ Kept'
  <2>1. tx[c] = db /\ View(c) = db /\ job[t].row \in {Idle} \cup db.rows
    BY <1>1, <1>2, <1>14 DEF AuditCommit, Alone, c, View
  <2>2. PICK next : next = IF job[t].row = Idle THEN Idle ELSE [job[t] EXCEPT !.at = "reply"]
    OBVIOUS
  <2>3. next = Idle \/ (next.at = "reply" /\ next.row = job[t].row)
    BY <1>1, <1>14, <2>2 DEF AuditCommit, Job, Idle
  <2>4. Goto(t, next) /\ Commit(c) /\ answers' = answers /\ db' = db /\ tx' = [tx EXCEPT ![c] = NoTx]
    BY <1>14, <2>1, <2>2 DEF AuditCommit, Commit, c
  <2>5. tx'[c] = NoTx
    BY <1>3, <2>4
  <2>6. Alone(t)'
    BY <1>4, <2>1, <2>3, <2>4, <2>5 DEF Alone, c, Idle
  <2>7. Kept'
    BY <2>4 DEF Kept, Allowed
  <2> QED
    BY <2>4, <2>6, <2>7, SomethingCommitted DEF c
<1>15. ASSUME Reply(t)
       PROVE  (\A u \in Threads : Alone(u)') /\ Kept'
  <2>1. tx[c] = NoTx /\ job[t].row \in {Idle} \cup db.rows
    BY <1>1, <1>15 DEF Reply, Alone, c
  <2>2. job[t].row \in Row
    BY <1>15 DEF StoreInv, Reply
  <2>3. answers' \subseteq db.rows /\ Goto(t, Idle) /\ UNCHANGED <<db, tx>>
    BY <1>1, <1>15, <2>1, <2>2, RowIsNotIdle DEF Reply
  <2>4. Alone(t)'
    BY <1>4, <2>1, <2>3 DEF Alone, c, Idle
  <2> QED
    BY <2>3, <2>4, NothingCommitted
<1>16. ASSUME Revoke(t)
       PROVE  (\A u \in Threads : Alone(u)') /\ Kept'
  <2>1. tx[c] = NoTx /\ View(c) = db
    BY <1>1, <1>16 DEF Revoke, Alone, c, View
  <2>2. PICK new : new = [db EXCEPT !.status = "REVOKED"]
    OBVIOUS
  <2>3. new \in Database
    BY <1>1, <2>2 DEF Database, Statuses
  <2>4. Goto(t, [at |-> "revokeCommit"]) /\ db' = db /\ answers' = answers /\ tx' = [tx EXCEPT ![c] = new]
    BY <1>16, <2>1, <2>2 DEF Revoke, Write, c
  <2>5. tx'[c] = new /\ \A d \in Connections \ {c} : tx'[d] = tx[d]
    BY <1>3, <2>3, <2>4
  <2>6. Alone(t)'
    BY <1>4, <2>2, <2>4, <2>5 DEF Alone, c
  <2> QED
    BY <1>1, <2>4, <2>5, <2>6, NothingCommitted DEF c
<1>17. ASSUME CommitRevoke(t)
       PROVE  (\A u \in Threads : Alone(u)') /\ Kept'
  <2>1. tx[c] = [db EXCEPT !.status = "REVOKED"]
    BY <1>1, <1>17 DEF CommitRevoke, Alone, c
  <2>2. tx[c] \in Database
    BY <1>1, <2>1 DEF Database, Statuses
  <2>3. /\ Goto(t, [at |-> "auditInsert", row |-> Idle]) /\ Commit(c) /\ answers' = answers
        /\ db' = [db EXCEPT !.status = "REVOKED"] /\ tx' = [tx EXCEPT ![c] = NoTx]
    BY <1>17, <2>1, <2>2 DEF CommitRevoke, Commit, c, View, StoreAssumption
  <2>4. tx'[c] = NoTx
    BY <1>3, <2>3
  <2>5. Alone(t)'
    BY <1>4, <2>3, <2>4 DEF Alone, c
  <2>6. db'.rows = db.rows /\ db'.used = db.used
    BY <1>1, <2>3 DEF Database
  <2>7. Kept'
    BY <2>3, <2>6 DEF Kept, Allowed
  <2> QED
    BY <2>3, <2>5, <2>7, SomethingCommitted DEF c
<1> QED
  BY <1>5, <1>6, <1>7, <1>8, <1>9, <1>10, <1>11, <1>12, <1>13, <1>14, <1>15, <1>16, <1>17 DEF Step
-----------------------------------------------------------------------------
LEMMA InitHolds ==
    ASSUME StoreAssumption, Init
    PROVE  StoreInv /\ SeparateInv
<1>1. TypeOK
  BY DEF Init, TypeOK, Database, Statuses, Job
<1>2. OneWriter
  BY DEF Init, OneWriter, SameId
<1>3. \A t \in Threads : job[t] = Idle /\ Idle.at = "idle"
  BY DEF Init, Idle
<1>4. StoreInv
  BY <1>1, <1>2, <1>3 DEF StoreInv
<1>5. \A t \in Threads : Alone(t)
  <2> TAKE t \in Threads
  <2>1. tx[conn[t]] = NoTx
    BY <1>1, OwnConnection DEF Init
  <2> QED
    BY <1>3, <2>1 DEF Alone
<1>6. Kept
  <2>1. Allowed = {} /\ db.rows = {} /\ db.used = 0
    BY DEF Init, Allowed
  <2> QED
    BY <2>1, FS_EmptySet DEF Kept, Init, StoreAssumption
<1> QED
  BY <1>4, <1>5, <1>6 DEF SeparateInv

LEMMA NextKeeps ==
    ASSUME StoreAssumption, StoreInv, SeparateInv, [Next]_vars
    PROVE  StoreInv' /\ SeparateInv'
<1>1. CASE Next
  <2>1. PICK t \in Threads : (\E id \in RequestIds : Authorize(t, id)) \/ RequestRevoke(t) \/ Step(t)
    BY <1>1 DEF Next
  <2>2. conn' = conn
    BY <1>1 DEF Next
  <2>3. StoreInv'
    BY <2>1, <2>2, StoreStepKeeps
  <2>4. Separate' => Separate
    BY <2>2 DEF Separate
  <2>5. ASSUME Separate
        PROVE  (\A u \in Threads : Alone(u)') /\ Kept'
    BY <2>1, <2>2, <2>5, SeparateStepKeeps DEF SeparateInv
  <2> QED
    BY <2>3, <2>4, <2>5 DEF SeparateInv
<1>2. CASE UNCHANGED vars
  <2>1. UNCHANGED <<conn, db, tx, job, lock, answers>>
    BY <1>2 DEF vars
  <2>2. StoreInv'
    BY <2>1 DEF StoreInv, TypeOK, OneWriter
  <2>3. Separate' = Separate /\ (\A t \in Threads : Alone(t)' = Alone(t)) /\ Kept' = Kept
    BY <2>1 DEF Separate, Alone, Undecided, Unspent, Spending, Kept, Allowed
  <2> QED
    BY <2>2, <2>3 DEF SeparateInv
<1> QED
  BY <1>1, <1>2

LEMMA StoreInvariance ==
    ASSUME StoreAssumption
    PROVE  Spec => [](StoreInv /\ SeparateInv)
<1>1. Init => StoreInv /\ SeparateInv
  BY InitHolds
<1>2. StoreInv /\ SeparateInv /\ [Next]_vars => StoreInv' /\ SeparateInv'
  BY NextKeeps
<1> QED
  BY <1>1, <1>2, PTL DEF Spec
-----------------------------------------------------------------------------
(* Whichever threads share whichever connection and end each other's       *)
(* transactions: a request is decided at most once in the table, because   *)
(* at most one connection has a transaction and it goes on from all that   *)
(* is committed; the state is well typed.                                  *)
THEOREM DecidedAlwaysOnce ==
    ASSUME StoreAssumption
    PROVE  Spec => []DecidedOnce
<1>1. StoreInv => DecidedOnce
  BY DEF StoreInv, OneWriter, SameId, DecidedOnce
<1> QED
  BY <1>1, StoreInvariance, PTL

(* Between processes, what a client was told is in the table.              *)
THEOREM AnswersAlwaysPersisted ==
    ASSUME StoreAssumption
    PROVE  Spec => []AnswersPersisted
<1>1. SeparateInv => AnswersPersisted
  BY DEF SeparateInv, Kept, AnswersPersisted
<1> QED
  BY <1>1, StoreInvariance, PTL

(* "session state and external-call counters are enforced atomically"      *)
(* between processes, for every limit and every number of them.            *)
THEOREM BudgetAlwaysKept ==
    ASSUME StoreAssumption
    PROVE  Spec => [](Separate => CountersAtomic)
<1>1. SeparateInv => (Separate => CountersAtomic)
  BY DEF SeparateInv, Kept, CountersAtomic
<1> QED
  BY <1>1, StoreInvariance, PTL
-----------------------------------------------------------------------------
(* The contract counts with the Cardinality of FiniteSets.                 *)
LEMMA SameCardinality == \A S : Contract!Cardinality(S) = Cardinality(S)
BY DEF Contract!Cardinality, Cardinality

(* What the contract calls spent is what the table allows.                 *)
LEMMA SpentIsAllowed ==
    ASSUME db \in Database, Kept
    PROVE  Cardinality(Contract!Spent("session")) = db.used
<1> DEFINE Spent == Contract!Spent("session")
           f == [r \in Allowed |-> Ruling(r)]
<1>1. Spent = {Ruling(r) : r \in Allowed}
  BY DEF Contract!Spent, Ruling, Allowed, IsGrant, IsExternal
<1>2. db.rows \subseteq Row /\ Allowed \subseteq db.rows
  BY DEF Database, Allowed
<1>3. \A r, q \in Allowed : Ruling(r) = Ruling(q) => r = q
  BY <1>2 DEF Ruling, Row
<1> HIDE DEF Spent
<1>4. f \in Bijection(Allowed, Spent)
  BY <1>1, <1>3, Fun_IsBij
<1>5. IsFiniteSet(Allowed)
  BY <1>2, FS_Subset DEF Kept
<1>6. Cardinality(Spent) = Cardinality(Allowed)
  BY <1>4, <1>5, FS_Bijection DEF ExistsBijection
<1> QED
  BY <1>6 DEF Kept, Spent

(* The commit of a fresh decision is the ruling.                           *)
LEMMA CommitIsTheRuling ==
    ASSUME db \in Database, Kept, NEW row \in Row, Undecided(row),
           db' = [Spending(row) EXCEPT !.rows = @ \cup {row}]
    PROVE  \E r \in Contract!Ruling : Contract!Rule(r)
<1> DEFINE r == Ruling(row)
           rulings == {Ruling(q) : q \in db.rows}
<1>1. /\ r.session = "session" /\ r.id = row.id /\ r.payload = "external" /\ r.decision = row.decision
      /\ r \in Contract!Ruling
  BY DEF Ruling, Contract!Ruling, Row, TheSession
<1>2. db'.rows = db.rows \cup {row} /\ db'.status = db.status
  BY DEF Spending, Database
<1>3. rulings' = rulings \cup {r} /\ Phase' = Phase
  BY <1>2 DEF Phase
<1>4. \A q \in rulings : q.id # r.id
  BY <1>1 DEF Undecided, Ruling
<1>5. Phase[r.session] = IF db.status = "ACTIVE" THEN "open" ELSE "stopped"
  BY <1>1 DEF Phase, TheSession
<1>6. IsGrant(r.decision) => Phase[r.session] = "open" /\ Cardinality(Contract!Spent(r.session)) < Budget(r.session)
  BY <1>1, <1>5, SpentIsAllowed DEF IsGrant, Undecided, Unspent, Budget
<1> HIDE DEF r, rulings
<1>7. Contract!Rule(r)
  BY <1>3, <1>4, <1>5, <1>6, SameCardinality DEF Contract!Rule, rulings
<1> QED
  BY <1>1, <1>7

(* Between processes, a statement is a step of the contract, or nothing    *)
(* the contract speaks of.                                                 *)
LEMMA StatementIsAStep ==
    ASSUME StoreAssumption, StoreInv, Separate, SeparateInv, [Next]_vars
    PROVE  Contract!Next \/ UNCHANGED Contract!contractVars
<1>1. UNCHANGED db => UNCHANGED Contract!contractVars
  BY DEF Contract!contractVars, Phase
<1>2. CASE UNCHANGED vars
  BY <1>1, <1>2 DEF vars
<1>3. CASE Next
  <2>1. PICK t \in Threads : (\E id \in RequestIds : Authorize(t, id)) \/ RequestRevoke(t) \/ Step(t)
    BY <1>3 DEF Next
  <2>2. Alone(t) /\ Kept /\ job[t] \in Job /\ db \in Database /\ db # NoTx
    BY DEF SeparateInv, StoreInv, TypeOK, StoreAssumption
  <2>3. CASE CommitDecision(t)
    <3>1. db' = View(conn[t]) /\ job[t].row \in Row
      BY <2>2, <2>3, JobFields DEF CommitDecision, Commit
    <3>2. CASE job[t].at = "replay"
      BY <1>1, <2>2, <3>1, <3>2 DEF Alone, View
    <3>3. CASE job[t].at = "commit"
      <4>1. /\ tx[conn[t]] = [Spending(job[t].row) EXCEPT !.rows = @ \cup {job[t].row}]
            /\ Undecided(job[t].row)
        BY <2>2, <3>3 DEF Alone
      <4>2. tx[conn[t]] \in Database
        BY <2>2, <3>1, <4>1 DEF Spending, Database
      <4>3. db' = [Spending(job[t].row) EXCEPT !.rows = @ \cup {job[t].row}]
        BY <3>1, <4>1, <4>2 DEF View, StoreAssumption
      <4> QED
        BY <2>2, <3>1, <4>1, <4>3, CommitIsTheRuling DEF Contract!Next
    <3> QED
      BY <2>3, <3>2, <3>3 DEF CommitDecision
  <2>4. CASE AuditCommit(t)
    BY <1>1, <2>2, <2>4 DEF AuditCommit, Commit, Alone, View
  <2>5. CASE CommitRevoke(t)
    <3>1. tx[conn[t]] = [db EXCEPT !.status = "REVOKED"]
      BY <2>2, <2>5 DEF Alone, CommitRevoke
    <3>2. tx[conn[t]] \in Database
      BY <2>2, <3>1 DEF Database, Statuses
    <3>3. db' = [db EXCEPT !.status = "REVOKED"]
      BY <2>5, <3>1, <3>2 DEF CommitRevoke, Commit, View, StoreAssumption
    <3>4. db'.rows = db.rows /\ db'.status = "REVOKED"
      BY <2>2, <3>3 DEF Database
    <3>5. CASE db.status = "ACTIVE"
      <4>1. Contract!Stop("session")
        BY <3>4, <3>5 DEF Contract!Stop, Phase, TheSession
      <4> QED
        BY <4>1 DEF Contract!Next, TheSession
    <3>6. CASE db.status # "ACTIVE"
      BY <3>4, <3>6 DEF Contract!contractVars, Phase
    <3> QED
      BY <3>5, <3>6
  <2>6. CASE ~(CommitDecision(t) \/ AuditCommit(t) \/ CommitRevoke(t))
    <3>1. db' = db
      BY <2>1, <2>6 DEF Step, Authorize, RequestRevoke, Begin, ReadSession, ReadExisting, Count, Insert,
            RollbackDecision, AuditInsert, Reply, Revoke, Write, Rollback
    <3> QED
      BY <1>1, <3>1
  <2> QED
    BY <2>3, <2>4, <2>5, <2>6
<1> QED
  BY <1>2, <1>3

(* Between processes, statement by statement, the store keeps the contract *)
(* of the runtime guard: the limit is spent by one commit at a time.       *)
THEOREM StoreKeepsContract ==
    ASSUME StoreAssumption
    PROVE  Spec => KeepsContract
<1>1. StoreInv /\ SeparateInv /\ [Next]_vars => [Separate => Contract!Next]_(Contract!contractVars)
  BY StatementIsAStep
<1> QED
  BY <1>1, StoreInvariance, PTL DEF Spec, KeepsContract
-----------------------------------------------------------------------------
(* The same decisions with PostgreSQL.                                     *)

(* The rows that a transaction would commit.                               *)
Pending(c) == IF tx[c] = NoTx \/ tx[c].failed THEN {} ELSE tx[c].added

PgJob == {Postgres!Idle}
         \cup [at : {"lock"}, id : RequestIds]
         \cup [at : {"readExisting"}, id : RequestIds, session : Database]
         \cup [at : {"count", "insert", "commit", "replay"}, row : Postgres!Row]
         \cup [at : {"audit", "auditCommit", "reply"}, row : {Postgres!Idle} \cup Postgres!Row]
         \cup [at : {"rollback", "stop", "stopCommit"}]

PgTypes == /\ Postgres!TypeOK /\ db \in Database /\ job \in [Threads -> PgJob]
           /\ \A t \in Threads : job[t].at = "reply" => job[t].row \in Postgres!Row

(* No request has two rows, those that are pending included.               *)
PgDistinct ==
    /\ SameId(db.rows)
    /\ \A c \in Connections : \A r \in Pending(c) : \A q \in db.rows : q.id # r.id
    /\ \A c, d \in Connections : \A r \in Pending(c), q \in Pending(d) : r.id = q.id => c = d /\ r = q

PgInv == PgTypes /\ PgDistinct

LEMMA SameTerms == Postgres!Idle = Idle /\ Postgres!Row = Row /\ Postgres!Separate = Separate
BY DEF Postgres!Idle, Idle, Postgres!Row, Row, Postgres!Decisions, Decisions, Postgres!Separate, Separate

LEMMA PgConnection ==
    ASSUME Postgres!StoreAssumption, PgTypes, NEW t \in Threads
    PROVE  conn[t] \in Connections /\ conn[t] # NoTx
BY DEF Postgres!StoreAssumption, PgTypes, Postgres!TypeOK

LEMMA PgOpened ==
    ASSUME PgInv, NEW c \in Connections
    PROVE  /\ Postgres!Opened(c) \in Postgres!Work
           /\ ~Postgres!Opened(c).failed => Postgres!Opened(c).added = Pending(c)
BY DEF PgInv, PgTypes, Postgres!TypeOK, Postgres!Opened, Postgres!Work, Postgres!Fresh, Pending

LEMMA PgView ==
    ASSUME PgInv, NEW c \in Connections
    PROVE  /\ Postgres!View(c) \in Database
           /\ ~Postgres!Opened(c).failed => Postgres!View(c).rows = db.rows \cup Pending(c)
BY DEF PgInv, PgTypes, Postgres!TypeOK, Postgres!View, Postgres!Opened, Postgres!Merged, Postgres!Work, Database, Statuses, Pending, Row, Postgres!Row, Decisions, Postgres!Decisions

LEMMA PgJobFields ==
    ASSUME NEW j \in PgJob
    PROVE  /\ j.at = "idle" <=> j = Postgres!Idle
           /\ j.at \in {"lock", "readExisting"} => j.id \in RequestIds
           /\ j.at = "readExisting" => j.session \in Database
           /\ j.at \in {"count", "insert", "commit", "replay"} => j.row \in Postgres!Row
           /\ j.at \in {"audit", "auditCommit", "reply"} => j.row \in {Postgres!Idle} \cup Postgres!Row
           /\ j.at \in {"idle", "lock", "readExisting", "count", "insert", "commit", "replay", "audit",
                        "auditCommit", "reply", "rollback", "stop", "stopCommit"}
BY DEF PgJob, Postgres!Idle

LEMMA PgJobGoesOn ==
    ASSUME PgTypes, NEW t \in Threads, NEW next \in PgJob, Postgres!Goto(t, next),
           next.at = "reply" => next.row \in Postgres!Row
    PROVE  job' \in [Threads -> PgJob] /\ \A u \in Threads : job'[u].at = "reply" => job'[u].row \in Postgres!Row
BY DEF PgTypes, Postgres!Goto

LEMMA PgQuietKeeps ==
    ASSUME PgInv, NEW t \in Threads, NEW next \in PgJob, Postgres!Goto(t, next),
           UNCHANGED <<conn, db, tx, holder>>, answers' \subseteq Postgres!Row,
           next.at = "reply" => next.row \in Postgres!Row
    PROVE  PgInv'
<1>1. job' \in [Threads -> PgJob] /\ \A u \in Threads : job'[u].at = "reply" => job'[u].row \in Postgres!Row
  BY PgJobGoesOn DEF PgInv
<1>2. PgTypes'
  BY <1>1 DEF PgInv, PgTypes, Postgres!TypeOK
<1>3. PgDistinct'
  BY DEF PgInv, PgDistinct, Pending
<1> QED
  BY <1>2, <1>3 DEF PgInv

(* A statement adds at most rows for requests that no transaction decided. *)
LEMMA PgExecuteKeeps ==
    ASSUME Postgres!StoreAssumption, PgInv, NEW t \in Threads, NEW next \in PgJob, Postgres!Goto(t, next), conn' = conn,
           next.at # "reply", holder' \in {holder, conn[t]},
           NEW work \in Postgres!Work, Postgres!Execute(t, work),
           NEW new \in SUBSET Postgres!Row, work.added = Postgres!Opened(conn[t]).added \cup new, SameId(new),
           \A r \in new : /\ \A q \in db.rows : q.id # r.id
                          /\ \A c \in Connections : \A q \in Pending(c) : q.id # r.id
    PROVE  PgInv'
<1>1. PICK c \in Connections : c = conn[t] /\ c # NoTx
  BY PgConnection DEF PgInv
<1>2. tx' = [tx EXCEPT ![c] = work] /\ db' = db /\ answers' = answers /\ ~Postgres!Opened(c).failed
  BY <1>1 DEF Postgres!Execute
<1>3. tx \in [Connections -> {NoTx} \cup Postgres!Work] /\ work # NoTx
  BY DEF PgInv, PgTypes, Postgres!TypeOK, Postgres!StoreAssumption
<1>4. tx'[c] = work /\ \A d \in Connections \ {c} : tx'[d] = tx[d]
  BY <1>1, <1>2, <1>3
<1>5. job' \in [Threads -> PgJob] /\ \A u \in Threads : job'[u].at = "reply" => job'[u].row \in Postgres!Row
  BY PgJobGoesOn DEF PgInv
<1>6. Postgres!TypeOK'
  <2>1. tx' \in [Connections -> {NoTx} \cup Postgres!Work]
    BY <1>1, <1>2, <1>3
  <2>2. holder' \in Connections \cup {NoTx}
    BY <1>1 DEF PgInv, PgTypes, Postgres!TypeOK
  <2>3. \A d \in Connections : holder' = d => tx'[d] # NoTx
    BY <1>1, <1>3, <1>4 DEF PgInv, PgTypes, Postgres!TypeOK
  <2> QED
    BY <1>2, <2>1, <2>2, <2>3 DEF PgInv, PgTypes, Postgres!TypeOK
<1>7. PgTypes'
  BY <1>2, <1>5, <1>6 DEF PgInv, PgTypes
<1>8. Pending(c)' \subseteq Pending(c) \cup new /\ \A d \in Connections \ {c} : Pending(d)' = Pending(d)
  BY <1>1, <1>2, <1>3, <1>4, PgOpened DEF Pending
<1>9. PgDistinct'
  <2>1. ASSUME NEW d \in Connections, NEW r \in Pending(d)'
        PROVE  r \in Pending(d) \/ (d = c /\ r \in new)
    BY <1>8, <2>1
  <2>2. \A d \in Connections : \A r \in Pending(d)' : \A q \in db'.rows : q.id # r.id
    BY <1>2, <2>1 DEF PgInv, PgDistinct
  <2>3. ASSUME NEW d \in Connections, NEW e \in Connections, NEW r \in Pending(d)', NEW q \in Pending(e)',
               r.id = q.id
        PROVE  d = e /\ r = q
    BY <2>1, <2>3 DEF PgInv, PgDistinct, SameId
  <2> QED
    BY <1>2, <2>2, <2>3 DEF PgInv, PgDistinct
<1> QED
  BY <1>7, <1>9 DEF PgInv

(* What is committed was pending.                                          *)
LEMMA PgEndKeeps ==
    ASSUME Postgres!StoreAssumption, PgInv, NEW t \in Threads, NEW next \in PgJob, Postgres!Goto(t, next), conn' = conn,
           answers' = answers, next.at = "reply" => next.row \in Postgres!Row, Postgres!Commit(t) \/ Postgres!Rollback(t)
    PROVE  PgInv'
<1>1. PICK c \in Connections : c = conn[t] /\ c # NoTx
  BY PgConnection DEF PgInv
<1>2. /\ tx' = [tx EXCEPT ![c] = NoTx] /\ holder' = IF holder = c THEN NoTx ELSE holder
      /\ db' = db \/ (db' = Postgres!View(c) /\ ~Postgres!Opened(c).failed)
  BY <1>1 DEF Postgres!Commit, Postgres!Rollback
<1>3. tx \in [Connections -> {NoTx} \cup Postgres!Work] /\ db \in Database
  BY DEF PgInv, PgTypes, Postgres!TypeOK
<1>4. tx'[c] = NoTx /\ \A d \in Connections \ {c} : tx'[d] = tx[d]
  BY <1>1, <1>2, <1>3
<1>5. job' \in [Threads -> PgJob] /\ \A u \in Threads : job'[u].at = "reply" => job'[u].row \in Postgres!Row
  BY PgJobGoesOn DEF PgInv
<1>6. db' \in Database /\ (db'.rows = db.rows \/ db'.rows = db.rows \cup Pending(c))
  BY <1>1, <1>2, <1>3, PgView
<1>7. Postgres!TypeOK'
  <2>1. tx' \in [Connections -> {NoTx} \cup Postgres!Work]
    BY <1>1, <1>2, <1>3
  <2>2. db'.status \in {"ACTIVE", "REVOKED"} /\ db'.used \in Nat /\ db'.rows \subseteq Postgres!Row
    BY <1>6, SameTerms DEF Database, Statuses
  <2>3. holder' \in Connections \cup {NoTx}
    BY <1>2 DEF PgInv, PgTypes, Postgres!TypeOK
  <2>4. \A d \in Connections : holder' = d => tx'[d] # NoTx
    BY <1>2, <1>4 DEF PgInv, PgTypes, Postgres!TypeOK, Postgres!StoreAssumption
  <2> QED
    BY <2>1, <2>2, <2>3, <2>4 DEF PgInv, PgTypes, Postgres!TypeOK
<1>8. PgTypes'
  BY <1>5, <1>6, <1>7 DEF PgTypes
<1>9. Pending(c)' = {} /\ \A d \in Connections \ {c} : Pending(d)' = Pending(d)
  BY <1>4 DEF Pending
<1>10. PgDistinct'
  <2>1. \A d \in Connections : Pending(d)' \subseteq Pending(d) /\ (Pending(d)' # {} => d # c)
    BY <1>9
  <2>2. SameId(db'.rows)
    BY <1>1, <1>6 DEF PgInv, PgDistinct, SameId
  <2>3. ASSUME NEW d \in Connections, NEW r \in Pending(d)', NEW q \in db'.rows
        PROVE  q.id # r.id
    <3>1. d # c /\ r \in Pending(d)
      BY <2>1, <2>3
    <3> QED
      BY <1>1, <1>6, <3>1 DEF PgInv, PgDistinct
  <2>4. \A d, e \in Connections : \A r \in Pending(d)', q \in Pending(e)' : r.id = q.id => d = e /\ r = q
    BY <2>1 DEF PgInv, PgDistinct
  <2> QED
    BY <2>2, <2>3, <2>4 DEF PgDistinct
<1> QED
  BY <1>8, <1>10 DEF PgInv

LEMMA PgStepKeeps ==
    ASSUME Postgres!StoreAssumption, PgInv, NEW t \in Threads, conn' = conn,
           (\E id \in RequestIds : Postgres!Authorize(t, id)) \/ Postgres!RequestStop(t) \/ Postgres!Step(t)
    PROVE  PgInv'
<1>1. PICK c \in Connections : c = conn[t] /\ job[t] \in PgJob
  BY PgConnection DEF PgInv, PgTypes
<1>2. /\ Postgres!Opened(c) \in Postgres!Work /\ (~Postgres!Opened(c).failed => Postgres!Opened(c).added = Pending(c))
      /\ Postgres!View(c) \in Database /\ (~Postgres!Opened(c).failed => Postgres!View(c).rows = db.rows \cup Pending(c))
  BY PgOpened, PgView
<1>3. answers \subseteq Postgres!Row
  BY DEF PgInv, PgTypes, Postgres!TypeOK
(* A statement that adds no row.                                           *)
<1>4. ASSUME NEW work \in Postgres!Work, Postgres!Execute(t, work), work.added = Postgres!Opened(c).added,
             holder' \in {holder, c}, NEW next \in PgJob, Postgres!Goto(t, next), next.at # "reply"
      PROVE  PgInv'
  <2>1. PICK none \in SUBSET Postgres!Row : none = {}
    OBVIOUS
  <2>2. work.added = Postgres!Opened(conn[t]).added \cup none /\ SameId(none) /\ holder' \in {holder, conn[t]}
    BY <1>1, <1>4, <2>1 DEF SameId
  <2> QED
    BY <1>4, <2>1, <2>2, PgExecuteKeeps
<1>5. ASSUME NEW id \in RequestIds, Postgres!Authorize(t, id)
      PROVE  PgInv'
  <2>1. [at |-> "lock", id |-> id] \in PgJob
    BY DEF PgJob
  <2> QED
    BY <1>3, <1>5, <2>1, PgQuietKeeps DEF Postgres!Authorize
<1>6. ASSUME Postgres!RequestStop(t)
      PROVE  PgInv'
  <2>1. [at |-> "stop"] \in PgJob
    BY DEF PgJob
  <2> QED
    BY <1>1, <1>2, <1>4, <1>6, <2>1 DEF Postgres!RequestStop, Postgres!KeepLock
<1>7. ASSUME Postgres!LockSession(t)
      PROVE  PgInv'
  <2>1. [at |-> "readExisting", id |-> job[t].id, session |-> Postgres!View(c)] \in PgJob
    BY <1>1, <1>2, <1>7, PgJobFields DEF Postgres!LockSession, Postgres!At, PgJob
  <2> QED
    BY <1>1, <1>2, <1>4, <1>7, <2>1 DEF Postgres!LockSession, Postgres!TakeLock
<1>8. ASSUME Postgres!ReadExisting(t)
      PROVE  PgInv'
  <2>1. PICK row : row = [id |-> job[t].id, decision |-> Postgres!Decide(job[t].session)]
    OBVIOUS
  <2>2. row \in Postgres!Row
    BY <1>1, <1>8, <2>1, PgJobFields DEF Postgres!ReadExisting, Postgres!At, Postgres!Row, Postgres!Decide, Postgres!Decisions
  <2>3. \A r \in Postgres!View(c).rows : r \in Postgres!Row
    BY <1>2, SameTerms DEF Database
  <2>4. PICK r \in Postgres!Row, at \in {"replay", "count", "insert"} : Postgres!Goto(t, [at |-> at, row |-> r])
    BY <1>1, <1>8, <2>1, <2>2, <2>3 DEF Postgres!ReadExisting
  <2>5. [at |-> at, row |-> r] \in PgJob
    BY <2>4 DEF PgJob
  <2> QED
    BY <1>1, <1>2, <1>4, <1>8, <2>4, <2>5 DEF Postgres!ReadExisting, Postgres!KeepLock
<1>9. ASSUME Postgres!Count(t)
      PROVE  PgInv'
  <2>1. PICK next : next = [job[t] EXCEPT !.at = "insert"]
    OBVIOUS
  <2>2. next \in PgJob /\ next.at = "insert"
    BY <1>1, <1>9, <2>1 DEF Postgres!Count, Postgres!At, PgJob, Postgres!Idle
  <2>3. PICK work : work = [Postgres!Opened(c) EXCEPT !.spent = @ + 1]
    OBVIOUS
  <2>4. work \in Postgres!Work /\ work.added = Postgres!Opened(c).added
    BY <1>2, <2>3 DEF Postgres!Work
  <2> QED
    BY <1>1, <1>4, <1>9, <2>1, <2>2, <2>3, <2>4 DEF Postgres!Count, Postgres!TakeLock
<1>10. ASSUME Postgres!Insert(t)
       PROVE  PgInv'
  <2>1. job[t].row \in Postgres!Row
    BY <1>1, <1>10, PgJobFields DEF Postgres!Insert, Postgres!At
  <2>2. CASE \E r \in Postgres!View(c).rows : r.id = job[t].row.id
    <3>1. [at |-> "rollback"] \in PgJob
      BY DEF PgJob
    <3>2. PICK work : work = [Postgres!Opened(c) EXCEPT !.failed = TRUE]
      OBVIOUS
    <3>3. work \in Postgres!Work /\ work.added = Postgres!Opened(c).added
      BY <1>2, <3>2 DEF Postgres!Work
    <3>4. Postgres!Execute(t, work) /\ Postgres!Goto(t, [at |-> "rollback"]) /\ holder' = holder
      BY <1>1, <1>10, <2>2, <3>2 DEF Postgres!Insert, Postgres!KeepLock
    <3> QED
      BY <1>4, <3>1, <3>3, <3>4
  <2>3. CASE \A r \in Postgres!View(c).rows : r.id # job[t].row.id
    <3>1. PICK next : next = [job[t] EXCEPT !.at = "commit"]
      OBVIOUS
    <3>2. next \in PgJob /\ next.at = "commit"
      BY <1>1, <1>10, <3>1 DEF Postgres!Insert, Postgres!At, PgJob, Postgres!Idle
    <3>3. PICK work : work = [Postgres!Opened(c) EXCEPT !.added = @ \cup {job[t].row}]
      OBVIOUS
    <3>4. work \in Postgres!Work /\ work.added = Postgres!Opened(c).added \cup {job[t].row}
      BY <1>2, <2>1, <3>3 DEF Postgres!Work
    <3>5. Postgres!Execute(t, work) /\ Postgres!Goto(t, next) /\ holder' = holder
      BY <1>1, <1>10, <2>3, <3>1, <3>3 DEF Postgres!Insert, Postgres!KeepLock
    <3>6. ~Postgres!Opened(c).failed
      BY <1>1, <3>5 DEF Postgres!Execute
    <3>7. \A q \in db.rows \cup Pending(c) : q.id # job[t].row.id
      BY <1>2, <2>3, <3>6
    <3>8. \A d \in Connections \ {c} : \A q \in Pending(d) : q.id # job[t].row.id
      BY <1>1, <1>10 DEF Postgres!Insert, Postgres!Pending, Pending
    <3>9. \A d \in Connections : \A q \in Pending(d) : q.id # job[t].row.id
      BY <3>7, <3>8
    <3>10. SameId({job[t].row})
      BY DEF SameId
    <3> QED
      BY <1>1, <2>1, <3>2, <3>4, <3>5, <3>7, <3>9, <3>10, PgExecuteKeeps
  <2> QED
    BY <2>2, <2>3
<1>11. ASSUME Postgres!CommitDecision(t)
       PROVE  PgInv'
  <2>1. PICK next : next = [at |-> IF Postgres!At(t, "commit") THEN "audit" ELSE "reply", row |-> job[t].row]
    OBVIOUS
  <2>2. next \in PgJob /\ next.row \in Postgres!Row
    BY <1>1, <1>11, <2>1, PgJobFields DEF Postgres!CommitDecision, PgJob
  <2> QED
    BY <1>1, <1>11, <2>1, <2>2, PgEndKeeps DEF Postgres!CommitDecision
<1>12. ASSUME Postgres!RollbackDecision(t)
       PROVE  PgInv'
  <2>1. Postgres!Idle \in PgJob /\ Postgres!Idle.at # "reply"
    BY DEF PgJob, Postgres!Idle
  <2> QED
    BY <1>12, <2>1, PgEndKeeps DEF Postgres!RollbackDecision
<1>13. ASSUME Postgres!Refused(t)
       PROVE  PgInv'
  <2>1. \E next \in {Postgres!Idle, [at |-> "rollback"]} : Postgres!Goto(t, next)
    BY <1>13 DEF Postgres!Refused
  <2>2. \A next \in {Postgres!Idle, [at |-> "rollback"]} : next \in PgJob /\ next.at # "reply"
    BY DEF PgJob, Postgres!Idle
  <2> QED
    BY <1>3, <1>13, <2>1, <2>2, PgQuietKeeps DEF Postgres!Refused
<1>14. ASSUME Postgres!Audit(t)
       PROVE  PgInv'
  <2>1. PICK next : next = [job[t] EXCEPT !.at = "auditCommit"]
    OBVIOUS
  <2>2. next \in PgJob /\ next.at = "auditCommit"
    BY <1>1, <1>14, <2>1 DEF Postgres!Audit, Postgres!At, PgJob, Postgres!Idle
  <2> QED
    BY <1>1, <1>2, <1>4, <1>14, <2>1, <2>2 DEF Postgres!Audit, Postgres!KeepLock
<1>15. ASSUME Postgres!AuditCommit(t)
       PROVE  PgInv'
  <2>1. PICK next : next = IF job[t].row = Postgres!Idle THEN Postgres!Idle ELSE [job[t] EXCEPT !.at = "reply"]
    OBVIOUS
  <2>2. next \in PgJob /\ (next.at = "reply" => next.row \in Postgres!Row)
    BY <1>1, <1>15, <2>1, PgJobFields DEF Postgres!AuditCommit, Postgres!At, PgJob, Postgres!Idle
  <2> QED
    BY <1>15, <2>1, <2>2, PgEndKeeps DEF Postgres!AuditCommit
<1>16. ASSUME Postgres!Reply(t)
       PROVE  PgInv'
  <2>1. Postgres!Idle \in PgJob /\ Postgres!Idle.at # "reply"
    BY DEF PgJob, Postgres!Idle
  <2>2. answers' \subseteq Postgres!Row
    BY <1>3, <1>16 DEF Postgres!Reply, Postgres!At, PgInv, PgTypes
  <2> QED
    BY <1>16, <2>1, <2>2, PgQuietKeeps DEF Postgres!Reply
<1>17. ASSUME Postgres!Stop(t)
       PROVE  PgInv'
  <2>1. [at |-> "stopCommit"] \in PgJob
    BY DEF PgJob
  <2>2. PICK work : work = [Postgres!Opened(c) EXCEPT !.stops = TRUE]
    OBVIOUS
  <2>3. work \in Postgres!Work /\ work.added = Postgres!Opened(c).added
    BY <1>2, <2>2 DEF Postgres!Work
  <2> QED
    BY <1>1, <1>4, <1>17, <2>1, <2>2, <2>3 DEF Postgres!Stop, Postgres!TakeLock
<1>18. ASSUME Postgres!CommitStop(t)
       PROVE  PgInv'
  <2>1. [at |-> "audit", row |-> Postgres!Idle] \in PgJob
    BY DEF PgJob
  <2> QED
    BY <1>18, <2>1, PgEndKeeps DEF Postgres!CommitStop
<1> QED
  BY <1>5, <1>6, <1>7, <1>8, <1>9, <1>10, <1>11, <1>12, <1>13, <1>14, <1>15, <1>16, <1>17, <1>18 DEF Postgres!Step
-----------------------------------------------------------------------------
(* What a thread with a connection of its own knows of its transaction at  *)
(* each statement; what is decided depends on the lock of the session.     *)
Written(added, spent) == [failed |-> FALSE, added |-> added, spent |-> spent, stops |-> FALSE]
Stopping == [failed |-> FALSE, added |-> {}, spent |-> 0, stops |-> TRUE]
Cost(row) == IF row.decision = "ALLOW" THEN 1 ELSE 0

PgAlone(t) ==
    LET j == job[t]
        own == tx[conn[t]]
    IN /\ j.at # "rollback"
       /\ j.at \in {"idle", "lock", "audit", "reply"} => own = NoTx
       /\ j.at \in {"readExisting", "count", "replay", "auditCommit", "stop"} => own = Postgres!Fresh
       /\ j.at \in {"readExisting", "count", "insert", "commit", "stopCommit"} => holder = conn[t]
       /\ j.at = "readExisting" => j.session = db
       /\ j.at = "count" => j.row.decision = "ALLOW"
       /\ j.at = "insert" => own = Written({}, Cost(j.row))
       /\ j.at \in {"count", "insert", "commit"} => Undecided(j.row)
       /\ j.at = "commit" => own = Written({j.row}, Cost(j.row))
       /\ j.at = "replay" => j.row \in db.rows
       /\ j.at \in {"audit", "auditCommit", "reply"} => j.row \in {Postgres!Idle} \cup db.rows
       /\ j.at = "stopCommit" => own = Stopping

PgSeparateInv == Postgres!Separate => (\A t \in Threads : PgAlone(t)) /\ Kept

(* Whoever holds the lock of the session sees nothing change.              *)
LEMMA PgOthersStay ==
    ASSUME Postgres!StoreAssumption, PgInv, Postgres!Separate, \A u \in Threads : PgAlone(u), conn' = conn,
           NEW t \in Threads, NEW next, Postgres!Goto(t, next), PgAlone(t)', db.rows \subseteq db'.rows,
           \A c \in Connections \ {conn[t]} : tx'[c] = tx[c] /\ (holder = c => holder' = c /\ db' = db)
    PROVE  \A u \in Threads : PgAlone(u)'
<1>1. ASSUME NEW u \in Threads \ {t} PROVE PgAlone(u)'
  <2>1. conn[u] \in Connections \ {conn[t]}
    BY PgConnection DEF PgInv, Postgres!Separate
  <2>2. job'[u] = job[u]
    BY DEF Postgres!Goto, PgInv, PgTypes
  <2>3. tx'[conn[u]] = tx[conn[u]] /\ (holder = conn[u] => holder' = conn[u] /\ db' = db)
    BY <2>1
  <2>4. PgAlone(u)
    BY <1>1
  <2> QED
    BY <2>2, <2>3, <2>4 DEF PgAlone, Undecided, Unspent, Written, Stopping, Cost
<1> QED
  BY <1>1

(* A step that commits nothing.                                            *)
LEMMA PgNothingCommitted ==
    ASSUME Postgres!StoreAssumption, PgInv, Postgres!Separate, \A u \in Threads : PgAlone(u), Kept, conn' = conn,
           NEW t \in Threads, NEW next, Postgres!Goto(t, next), PgAlone(t)', db' = db,
           \A c \in Connections \ {conn[t]} : tx'[c] = tx[c] /\ (holder = c => holder' = c),
           answers' \subseteq db.rows
    PROVE  (\A u \in Threads : PgAlone(u)') /\ Kept'
<1>1. Kept'
  BY DEF Kept, Allowed
<1> QED
  BY <1>1, PgOthersStay

LEMMA FreshIsWritten == Postgres!Fresh = Written({}, 0)
BY DEF Postgres!Fresh, Written

LEMMA WrittenFields ==
    ASSUME NEW added \in SUBSET Postgres!Row, NEW spent \in Nat, NEW work, work = Written(added, spent)
    PROVE  work \in Postgres!Work /\ ~work.failed /\ work.added = added /\ work.spent = spent /\ ~work.stops
<1>1. work = [failed |-> FALSE, added |-> added, spent |-> spent, stops |-> FALSE]
  BY DEF Written
<1> QED
  BY <1>1 DEF Postgres!Work

LEMMA StoppingFields ==
    ASSUME NEW work, work = Stopping
    PROVE  work \in Postgres!Work /\ ~work.failed /\ work.added = {} /\ work.spent = 0 /\ work.stops
<1>1. work = [failed |-> FALSE, added |-> {}, spent |-> 0, stops |-> TRUE]
  BY DEF Stopping
<1> QED
  BY <1>1 DEF Postgres!Work

(* One more statement.                                                     *)
LEMMA FreshSpends == [Postgres!Fresh EXCEPT !.spent = @ + 1] = Written({}, 1)
<1>1. PICK no : no = FALSE
  OBVIOUS
<1>2. Postgres!Fresh = [failed |-> no, added |-> {}, spent |-> 0, stops |-> no]
  BY <1>1 DEF Postgres!Fresh
<1>3. [Postgres!Fresh EXCEPT !.spent = @ + 1] = [failed |-> no, added |-> {}, spent |-> 1, stops |-> no]
  BY <1>2
<1> QED
  BY <1>1, <1>3 DEF Written

LEMMA WrittenAdds ==
    ASSUME NEW spent, NEW row, NEW work, work = Written({}, spent)
    PROVE  [work EXCEPT !.added = @ \cup {row}] = Written({row}, spent)
<1>1. PICK no : no = FALSE
  OBVIOUS
<1>2. work = [failed |-> no, added |-> {}, spent |-> spent, stops |-> no]
  BY <1>1 DEF Written
<1>3. [work EXCEPT !.added = @ \cup {row}] = [failed |-> no, added |-> {row}, spent |-> spent, stops |-> no]
  BY <1>2
<1> QED
  BY <1>1, <1>3 DEF Written

LEMMA FreshStops == [Postgres!Fresh EXCEPT !.stops = TRUE] = Stopping
<1>1. PICK no, yes : no = FALSE /\ yes = TRUE
  OBVIOUS
<1>2. Postgres!Fresh = [failed |-> no, added |-> {}, spent |-> 0, stops |-> no]
  BY <1>1 DEF Postgres!Fresh
<1>3. [Postgres!Fresh EXCEPT !.stops = yes] = [failed |-> no, added |-> {}, spent |-> 0, stops |-> yes]
  BY <1>2
<1>4. Stopping = [failed |-> no, added |-> {}, spent |-> 0, stops |-> yes]
  BY <1>1 DEF Stopping
<1> QED
  BY <1>1, <1>3, <1>4

(* What the commit of a transaction comes to.                              *)
LEMMA WrittenMerged ==
    ASSUME NEW added \in SUBSET Postgres!Row, NEW spent \in Nat, NEW c \in Connections,
           NoTx \notin Postgres!Work, tx[c] = Written(added, spent)
    PROVE  /\ Postgres!Opened(c) = tx[c] /\ ~Postgres!Opened(c).failed
           /\ Postgres!View(c) = [status |-> db.status, used |-> db.used + spent, rows |-> db.rows \cup added]
<1>1. PICK work : work = tx[c]
  OBVIOUS
<1>2. work \in Postgres!Work /\ ~work.failed /\ work.added = added /\ work.spent = spent /\ ~work.stops
  BY <1>1, WrittenFields
<1> QED
  BY <1>1, <1>2 DEF Postgres!Opened, Postgres!View, Postgres!Merged

LEMMA StoppingMerged ==
    ASSUME NEW c \in Connections, db \in Database, NoTx \notin Postgres!Work, tx[c] = Stopping
    PROVE  /\ Postgres!Opened(c) = tx[c] /\ ~Postgres!Opened(c).failed
           /\ Postgres!View(c) = [db EXCEPT !.status = "REVOKED"]
<1>1. PICK work : work = tx[c]
  OBVIOUS
<1>2. work \in Postgres!Work /\ ~work.failed /\ work.added = {} /\ work.spent = 0 /\ work.stops
  BY <1>1, StoppingFields
<1>3. Postgres!View(c) = [status |-> "REVOKED", used |-> db.used + 0, rows |-> db.rows \cup {}]
  BY <1>1, <1>2 DEF Postgres!View, Postgres!Merged
<1>4. Postgres!Opened(c) = tx[c] /\ ~Postgres!Opened(c).failed
  BY <1>1, <1>2 DEF Postgres!Opened
<1> QED
  BY <1>3, <1>4 DEF Database

LEMMA DecisionMerged ==
    ASSUME db \in Database, NEW row
    PROVE  [status |-> db.status, used |-> db.used + Cost(row), rows |-> db.rows \cup {row}]
           = [Spending(row) EXCEPT !.rows = @ \cup {row}]
<1>1. PICK spent : spent = Spending(row)
  OBVIOUS
<1>2. spent = [status |-> db.status, used |-> db.used + Cost(row), rows |-> db.rows]
  <2>1. CASE row.decision = "ALLOW"
    BY <1>1, <2>1 DEF Spending, Database, Cost
  <2>2. CASE row.decision # "ALLOW"
    <3>1. spent = db /\ Cost(row) = 0
      BY <1>1, <2>2 DEF Spending, Cost
    <3> QED
      BY <3>1 DEF Database
  <2> QED
    BY <2>1, <2>2
<1> QED
  BY <1>1, <1>2

LEMMA CostIsNatural == \A row : Cost(row) \in Nat
BY DEF Cost

LEMMA PgSeparateStepKeeps ==
    ASSUME Postgres!StoreAssumption, PgInv, Postgres!Separate, \A u \in Threads : PgAlone(u), Kept,
           NEW t \in Threads, conn' = conn,
           (\E id \in RequestIds : Postgres!Authorize(t, id)) \/ Postgres!RequestStop(t) \/ Postgres!Step(t)
    PROVE  (\A u \in Threads : PgAlone(u)') /\ Kept'
<1>1. PICK c \in Connections : c = conn[t] /\ c # NoTx
  BY PgConnection DEF PgInv
<1>2. /\ tx \in [Connections -> {NoTx} \cup Postgres!Work] /\ NoTx \notin Postgres!Work /\ db \in Database
      /\ job \in [Threads -> PgJob] /\ job[t] \in PgJob /\ answers \subseteq db.rows /\ PgAlone(t)
      /\ (holder = c => tx[c] # NoTx) /\ Postgres!Fresh \in Postgres!Work
  BY DEF PgInv, PgTypes, Postgres!TypeOK, Postgres!StoreAssumption, Kept, Postgres!Work, Postgres!Fresh
<1>3. Postgres!Merged(Postgres!Fresh) = db
  BY <1>2 DEF Postgres!Merged, Postgres!Fresh, Database
<1>4. tx[c] \in {NoTx, Postgres!Fresh} => Postgres!Opened(c) = Postgres!Fresh /\ Postgres!View(c) = db
  BY <1>2, <1>3 DEF Postgres!Opened, Postgres!View
<1>5. ASSUME NEW next, Postgres!Goto(t, next)
      PROVE  job'[t] = next
  BY <1>2, <1>5 DEF Postgres!Goto
<1>6. ASSUME NEW work \in Postgres!Work, Postgres!Execute(t, work)
      PROVE  /\ tx'[c] = work /\ db' = db /\ answers' = answers
             /\ \A d \in Connections \ {c} : tx'[d] = tx[d]
  BY <1>1, <1>2, <1>6 DEF Postgres!Execute
<1>7. ASSUME Postgres!Commit(t) \/ Postgres!Rollback(t)
      PROVE  /\ tx'[c] = NoTx
             /\ \A d \in Connections \ {c} : tx'[d] = tx[d] /\ (holder = d => holder' = d)
  BY <1>1, <1>2, <1>7 DEF Postgres!Commit, Postgres!Rollback
<1>8. ~Postgres!Opened(c).failed
  <2>1. \/ tx[c] \in {NoTx, Postgres!Fresh}
        \/ \E added \in SUBSET Postgres!Row, spent \in Nat : tx[c] = Written(added, spent)
        \/ tx[c] = Stopping
    BY <1>1, <1>2, PgJobFields, CostIsNatural DEF PgAlone
  <2>2. ~Postgres!Fresh.failed
    BY DEF Postgres!Fresh
  <2> QED
    BY <1>2, <1>4, <2>1, <2>2, WrittenMerged, StoppingMerged
<1>9. ASSUME (\E id \in RequestIds : Postgres!Authorize(t, id)) \/ Postgres!Reply(t)
      PROVE  (\A u \in Threads : PgAlone(u)') /\ Kept'
  <2>1. PICK next : Postgres!Goto(t, next) /\ next.at \in {"lock", "idle"}
    <3>1. Postgres!Idle.at = "idle" /\ \A id : [at |-> "lock", id |-> id].at = "lock"
      BY DEF Postgres!Idle
    <3> QED
      BY <1>9, <3>1 DEF Postgres!Authorize, Postgres!Reply
  <2>2. tx[c] = NoTx /\ UNCHANGED <<db, tx, holder>>
    <3>1. job[t].at = "reply" \/ job[t] = Postgres!Idle
      BY <1>9 DEF Postgres!Authorize, Postgres!Reply, Postgres!At
    <3>2. Postgres!Idle.at = "idle"
      BY DEF Postgres!Idle
    <3> QED
      BY <1>1, <1>2, <1>9, <3>1, <3>2 DEF PgAlone, Postgres!Authorize, Postgres!Reply
  <2>3. answers' \subseteq db.rows
    <3>1. CASE Postgres!Reply(t)
      <4>1. job[t].row \in Postgres!Row /\ job[t].row \in {Postgres!Idle} \cup db.rows
        BY <1>2, <3>1 DEF Postgres!Reply, Postgres!At, PgAlone, PgInv, PgTypes
      <4> QED
        BY <1>2, <3>1, <4>1, SameTerms, RowIsNotIdle DEF Postgres!Reply
    <3> QED
      BY <1>2, <1>9, <3>1 DEF Postgres!Authorize
  <2>4. PgAlone(t)'
    BY <1>1, <1>5, <2>1, <2>2 DEF PgAlone, Written, Stopping, Cost
  <2> QED
    BY <2>1, <2>2, <2>3, <2>4, PgNothingCommitted
<1>10. ASSUME Postgres!LockSession(t)
       PROVE  (\A u \in Threads : PgAlone(u)') /\ Kept'
  <2>1. Postgres!Opened(c) = Postgres!Fresh /\ Postgres!View(c) = db
    BY <1>1, <1>2, <1>4, <1>10 DEF Postgres!LockSession, Postgres!At, PgAlone
  <2>2. /\ Postgres!Execute(t, Postgres!Fresh) /\ holder \in {NoTx, c} /\ holder' = c
        /\ Postgres!Goto(t, [at |-> "readExisting", id |-> job[t].id, session |-> db])
    BY <1>1, <1>10, <2>1 DEF Postgres!LockSession, Postgres!TakeLock
  <2>3. PgAlone(t)'
    BY <1>1, <1>2, <1>5, <1>6, <2>2 DEF PgAlone, Written, Stopping, Cost
  <2>4. \A d \in Connections \ {c} : tx'[d] = tx[d] /\ (holder = d => holder' = d)
    BY <1>2, <1>6, <2>2, PgConnection DEF Postgres!StoreAssumption
  <2> QED
    BY <1>1, <1>2, <1>6, <2>2, <2>3, <2>4, PgNothingCommitted
<1>11. ASSUME Postgres!ReadExisting(t)
       PROVE  (\A u \in Threads : PgAlone(u)') /\ Kept'
  <2>1. Postgres!Opened(c) = Postgres!Fresh /\ Postgres!View(c) = db /\ job[t].session = db /\ holder = c
    BY <1>1, <1>2, <1>4, <1>11 DEF Postgres!ReadExisting, Postgres!At, PgAlone
  <2>2. Postgres!Execute(t, Postgres!Fresh) /\ holder' = holder
    BY <1>1, <1>11, <2>1 DEF Postgres!ReadExisting, Postgres!KeepLock
  <2>3. /\ tx'[c] = Postgres!Fresh /\ db' = db /\ answers' = answers
        /\ \A d \in Connections \ {c} : tx'[d] = tx[d] /\ (holder = d => holder' = d)
    BY <1>2, <1>6, <2>2
  <2>4. CASE \E r \in db.rows : Postgres!Goto(t, [at |-> "replay", row |-> r])
    <3>1. PICK r \in db.rows : Postgres!Goto(t, [at |-> "replay", row |-> r])
      BY <2>4
    <3>2. PgAlone(t)'
      BY <1>1, <1>5, <2>3, <3>1 DEF PgAlone, Written, Stopping, Cost
    <3> QED
      BY <1>1, <1>2, <2>3, <3>1, <3>2, PgNothingCommitted
  <2>5. CASE /\ {r \in db.rows : r.id = job[t].id} = {}
             /\ LET new == [id |-> job[t].id, decision |-> Postgres!Decide(db)]
                IN Postgres!Goto(t, [at |-> IF new.decision = "ALLOW" THEN "count" ELSE "insert", row |-> new])
    <3>1. PICK new : new = [id |-> job[t].id, decision |-> Postgres!Decide(db)]
      OBVIOUS
    <3>2. Postgres!Goto(t, [at |-> IF new.decision = "ALLOW" THEN "count" ELSE "insert", row |-> new])
      BY <2>5, <3>1
    <3>3. Undecided(new)'
      BY <2>3, <2>5, <3>1 DEF Undecided, Unspent, Postgres!Decide
    <3>4. new.decision # "ALLOW" => Written({}, Cost(new)) = Postgres!Fresh
      BY FreshIsWritten DEF Cost
    <3>5. PgAlone(t)'
      BY <1>1, <1>5, <2>1, <2>2, <2>3, <3>2, <3>3, <3>4 DEF PgAlone, Undecided, Unspent, Written, Stopping, Cost
    <3> QED
      BY <1>1, <1>2, <2>3, <3>2, <3>5, PgNothingCommitted
  <2> QED
    BY <1>1, <1>11, <2>1, <2>4, <2>5 DEF Postgres!ReadExisting
<1>12. ASSUME Postgres!Count(t)
       PROVE  (\A u \in Threads : PgAlone(u)') /\ Kept'
  <2>1. /\ Postgres!Opened(c) = Postgres!Fresh /\ holder = c
        /\ job[t].row.decision = "ALLOW" /\ Undecided(job[t].row)
    BY <1>1, <1>2, <1>4, <1>12 DEF Postgres!Count, Postgres!At, PgAlone
  <2>2. PICK next : next = [job[t] EXCEPT !.at = "insert"]
    OBVIOUS
  <2>3. next.at = "insert" /\ next.row = job[t].row
    BY <1>2, <1>12, <2>2 DEF Postgres!Count, Postgres!At, PgJob, Postgres!Idle
  <2>4. PICK work : work = Written({}, Cost(next.row))
    OBVIOUS
  <2>5. work = [Postgres!Fresh EXCEPT !.spent = @ + 1] /\ work \in Postgres!Work
    <3>1. Cost(next.row) = 0 + 1 /\ {} \in SUBSET Postgres!Row
      BY <2>1, <2>3 DEF Cost
    <3>2. work = Written({}, 1)
      BY <2>4, <3>1
    <3> QED
      BY <3>1, <3>2, FreshSpends, WrittenFields
  <2>6. Postgres!Goto(t, next) /\ Postgres!Execute(t, work) /\ holder' = c
    BY <1>1, <1>12, <2>1, <2>2, <2>5 DEF Postgres!Count, Postgres!TakeLock
  <2>7. /\ tx'[c] = work /\ db' = db /\ answers' = answers
        /\ \A d \in Connections \ {c} : tx'[d] = tx[d] /\ (holder = d => holder' = d)
    BY <1>6, <2>1, <2>5, <2>6
  <2>8. PgAlone(t)'
    <3>1. job'[t] = next
      BY <1>5, <2>6
    <3>2. Written({}, Cost(job[t].row))' = work
      BY <2>4, <3>1 DEF Written, Cost
    <3>3. Undecided(job[t].row)'
      BY <2>1, <2>3, <2>7, <3>1 DEF Undecided, Unspent
    <3> QED
      BY <1>1, <2>3, <2>6, <2>7, <3>1, <3>2, <3>3 DEF PgAlone
  <2> QED
    BY <1>1, <1>2, <2>6, <2>7, <2>8, PgNothingCommitted
<1>13. ASSUME Postgres!Insert(t)
       PROVE  (\A u \in Threads : PgAlone(u)') /\ Kept'
  <2>1. /\ tx[c] = Written({}, Cost(job[t].row)) /\ Undecided(job[t].row)
        /\ job[t].row \in Postgres!Row /\ holder = c
    BY <1>1, <1>2, <1>13, PgJobFields DEF Postgres!Insert, Postgres!At, PgAlone
  <2>2. Postgres!Opened(c) = tx[c] /\ Postgres!View(c).rows = db.rows
    <3>1. Cost(job[t].row) \in Nat /\ {} \in SUBSET Postgres!Row /\ db.rows \cup {} = db.rows
      BY CostIsNatural
    <3>2. /\ Postgres!Opened(c) = tx[c]
          /\ Postgres!View(c) = [status |-> db.status, used |-> db.used + Cost(job[t].row), rows |-> db.rows \cup {}]
      BY <1>2, <2>1, <3>1, WrittenMerged
    <3> QED
      BY <3>1, <3>2
  <2>3. ~\E r \in Postgres!View(c).rows : r.id = job[t].row.id
    BY <2>1, <2>2 DEF Undecided
  <2>4. PICK next : next = [job[t] EXCEPT !.at = "commit"]
    OBVIOUS
  <2>5. next.at = "commit" /\ next.row = job[t].row
    BY <1>2, <1>13, <2>4 DEF Postgres!Insert, Postgres!At, PgJob, Postgres!Idle
  <2>6. PICK work : work = [Postgres!Opened(c) EXCEPT !.added = @ \cup {job[t].row}]
    OBVIOUS
  <2>7. work = Written({job[t].row}, Cost(job[t].row)) /\ work \in Postgres!Work
    <3>1. PICK own, row, cost : own = tx[c] /\ row = job[t].row /\ cost = Cost(job[t].row)
      OBVIOUS
    <3>2. own = Written({}, cost)
      BY <2>1, <3>1
    <3>3. [own EXCEPT !.added = @ \cup {row}] = Written({row}, cost)
      BY <3>2, WrittenAdds
    <3>4. work = Written({row}, cost)
      BY <2>2, <2>6, <3>1, <3>3
    <3> QED
      BY <2>1, <3>1, <3>4, WrittenFields, CostIsNatural
  <2>8. Postgres!Execute(t, work) /\ Postgres!Goto(t, next) /\ holder' = holder
    BY <1>1, <1>13, <2>3, <2>4, <2>6 DEF Postgres!Insert, Postgres!KeepLock
  <2>9. /\ tx'[c] = work /\ db' = db /\ answers' = answers
        /\ \A d \in Connections \ {c} : tx'[d] = tx[d] /\ (holder = d => holder' = d)
    BY <1>6, <2>7, <2>8
  <2>10. PgAlone(t)'
    <3>1. job'[t] = next
      BY <1>5, <2>8
    <3>2. Written({job[t].row}, Cost(job[t].row))' = work
      BY <2>5, <2>7, <3>1 DEF Written, Cost
    <3>3. Undecided(job[t].row)'
      BY <2>1, <2>5, <2>9, <3>1 DEF Undecided, Unspent
    <3> QED
      BY <1>1, <2>1, <2>5, <2>8, <2>9, <3>1, <3>2, <3>3 DEF PgAlone
  <2> QED
    BY <1>1, <1>2, <2>8, <2>9, <2>10, PgNothingCommitted
<1>14. ASSUME Postgres!CommitDecision(t)
       PROVE  (\A u \in Threads : PgAlone(u)') /\ Kept'
  <2>1. /\ Postgres!Commit(t) /\ answers' = answers /\ job[t].row \in Postgres!Row /\ db' = Postgres!View(c)
    BY <1>1, <1>2, <1>8, <1>14, PgJobFields DEF Postgres!CommitDecision, Postgres!Commit
  <2>2. CASE job[t].at = "replay"
    <3>1. db' = db /\ job[t].row \in db.rows
      BY <1>1, <1>2, <1>4, <2>1, <2>2 DEF PgAlone
    <3>2. Postgres!Goto(t, [at |-> "reply", row |-> job[t].row])
      BY <1>14, <2>2 DEF Postgres!CommitDecision, Postgres!At
    <3>3. PgAlone(t)'
      BY <1>1, <1>5, <1>7, <2>1, <3>1, <3>2 DEF PgAlone, Written, Stopping, Cost
    <3> QED
      BY <1>1, <1>2, <1>7, <2>1, <3>1, <3>2, <3>3, PgNothingCommitted
  <2>3. CASE job[t].at = "commit"
    <3>1. /\ tx[c] = Written({job[t].row}, Cost(job[t].row))
          /\ Undecided(job[t].row) /\ holder = c
      BY <1>1, <1>2, <2>3 DEF PgAlone
    <3>2. db' = [Spending(job[t].row) EXCEPT !.rows = @ \cup {job[t].row}]
      <4>1. Cost(job[t].row) \in Nat /\ {job[t].row} \in SUBSET Postgres!Row
        BY <2>1, CostIsNatural
      <4>2. Postgres!View(c) = [status |-> db.status, used |-> db.used + Cost(job[t].row),
                         rows |-> db.rows \cup {job[t].row}]
        BY <1>2, <3>1, <4>1, WrittenMerged
      <4> QED
        BY <1>2, <2>1, <4>2, DecisionMerged
    <3>3. Kept' /\ db'.rows = db.rows \cup {job[t].row}
      BY <1>2, <2>1, <3>1, <3>2, CountedOnce, SameTerms DEF Postgres!StoreAssumption
    <3>4. Postgres!Goto(t, [at |-> "audit", row |-> job[t].row])
      BY <1>14, <2>3 DEF Postgres!CommitDecision, Postgres!At
    <3>5. PgAlone(t)'
      BY <1>1, <1>5, <1>7, <2>1, <3>3, <3>4 DEF PgAlone, Written, Stopping, Cost
    <3>6. \A d \in Connections \ {c} : tx'[d] = tx[d] /\ (holder = d => holder' = d /\ db' = db)
      BY <1>7, <2>1, <3>1
    <3> QED
      BY <1>1, <3>3, <3>4, <3>5, <3>6, PgOthersStay
  <2> QED
    BY <1>14, <2>2, <2>3 DEF Postgres!CommitDecision
<1>15. ASSUME Postgres!RollbackDecision(t) \/ Postgres!Refused(t)
       PROVE  FALSE
  BY <1>1, <1>2, <1>8, <1>15 DEF Postgres!RollbackDecision, Postgres!Refused, Postgres!At, PgAlone
<1>16. ASSUME Postgres!Audit(t) \/ Postgres!RequestStop(t)
       PROVE  (\A u \in Threads : PgAlone(u)') /\ Kept'
  <2>1. Postgres!Opened(c) = Postgres!Fresh
    BY <1>1, <1>2, <1>4, <1>16 DEF Postgres!Audit, Postgres!RequestStop, Postgres!At, Postgres!Idle, PgAlone
  <2>2. Postgres!Execute(t, Postgres!Fresh) /\ holder' = holder
    BY <1>1, <1>16, <2>1 DEF Postgres!Audit, Postgres!RequestStop, Postgres!KeepLock
  <2>3. PICK next : /\ Postgres!Goto(t, next) /\ next.at \in {"auditCommit", "stop"}
                    /\ next.at = "auditCommit" => next.row \in {Postgres!Idle} \cup db.rows
    <3>1. PICK audited : audited = [job[t] EXCEPT !.at = "auditCommit"]
      OBVIOUS
    <3>2. CASE Postgres!Audit(t)
      <4>1. audited.at = "auditCommit" /\ audited.row = job[t].row /\ job[t].row \in {Postgres!Idle} \cup db.rows
        BY <1>2, <3>1, <3>2 DEF Postgres!Audit, Postgres!At, PgJob, Postgres!Idle, PgAlone
      <4> QED
        BY <3>1, <3>2, <4>1 DEF Postgres!Audit
    <3>3. CASE Postgres!RequestStop(t)
      BY <3>3 DEF Postgres!RequestStop
    <3> QED
      BY <1>16, <3>2, <3>3
  <2>4. /\ tx'[c] = Postgres!Fresh /\ db' = db /\ answers' = answers
        /\ \A d \in Connections \ {c} : tx'[d] = tx[d] /\ (holder = d => holder' = d)
    BY <1>2, <1>6, <2>2
  <2>5. PgAlone(t)'
    BY <1>1, <1>5, <2>3, <2>4 DEF PgAlone, Written, Stopping, Cost
  <2> QED
    BY <1>1, <1>2, <2>3, <2>4, <2>5, PgNothingCommitted
<1>17. ASSUME Postgres!AuditCommit(t)
       PROVE  (\A u \in Threads : PgAlone(u)') /\ Kept'
  <2>1. tx[c] = Postgres!Fresh /\ job[t].row \in {Postgres!Idle} \cup db.rows
    BY <1>1, <1>2, <1>17 DEF Postgres!AuditCommit, Postgres!At, PgAlone
  <2>2. Postgres!Commit(t) /\ answers' = answers /\ db' = db
    BY <1>1, <1>2, <1>4, <1>8, <1>17, <2>1 DEF Postgres!AuditCommit, Postgres!Commit
  <2>3. PICK next : next = IF job[t].row = Postgres!Idle THEN Postgres!Idle ELSE [job[t] EXCEPT !.at = "reply"]
    OBVIOUS
  <2>4. next = Postgres!Idle \/ (next.at = "reply" /\ next.row = job[t].row)
    BY <1>2, <1>17, <2>3 DEF Postgres!AuditCommit, Postgres!At, PgJob, Postgres!Idle
  <2>5. Postgres!Goto(t, next)
    BY <1>17, <2>3 DEF Postgres!AuditCommit
  <2>6. PgAlone(t)'
    BY <1>1, <1>5, <1>7, <2>1, <2>2, <2>4, <2>5 DEF PgAlone, Written, Stopping, Cost, Postgres!Idle
  <2> QED
    BY <1>1, <1>2, <1>7, <2>2, <2>5, <2>6, PgNothingCommitted
<1>18. ASSUME Postgres!Stop(t)
       PROVE  (\A u \in Threads : PgAlone(u)') /\ Kept'
  <2>1. Postgres!Opened(c) = Postgres!Fresh
    BY <1>1, <1>2, <1>4, <1>18 DEF Postgres!Stop, Postgres!At, PgAlone
  <2>2. PICK work : work = [Postgres!Fresh EXCEPT !.stops = TRUE]
    OBVIOUS
  <2>3. work = Stopping /\ work \in Postgres!Work
    BY <2>2, FreshStops, StoppingFields
  <2>4. /\ Postgres!Execute(t, work) /\ holder \in {NoTx, c} /\ holder' = c
        /\ Postgres!Goto(t, [at |-> "stopCommit"])
    BY <1>1, <1>18, <2>1, <2>2 DEF Postgres!Stop, Postgres!TakeLock
  <2>5. PgAlone(t)'
    BY <1>1, <1>5, <1>6, <2>3, <2>4 DEF PgAlone, Written, Stopping, Cost
  <2>6. \A d \in Connections \ {c} : tx'[d] = tx[d] /\ (holder = d => holder' = d)
    BY <1>6, <2>3, <2>4 DEF Postgres!StoreAssumption
  <2> QED
    BY <1>1, <1>2, <1>6, <2>3, <2>4, <2>5, <2>6, PgNothingCommitted
<1>19. ASSUME Postgres!CommitStop(t)
       PROVE  (\A u \in Threads : PgAlone(u)') /\ Kept'
  <2>1. holder = c /\ tx[c] = Stopping
    BY <1>1, <1>2, <1>19 DEF Postgres!CommitStop, Postgres!At, PgAlone
  <2>2. /\ Postgres!Commit(t) /\ answers' = answers /\ Postgres!Goto(t, [at |-> "audit", row |-> Postgres!Idle])
        /\ db' = [db EXCEPT !.status = "REVOKED"]
    BY <1>1, <1>2, <1>8, <1>19, <2>1, StoppingMerged DEF Postgres!CommitStop, Postgres!Commit
  <2>3. db'.rows = db.rows /\ db'.used = db.used
    BY <1>2, <2>2 DEF Database
  <2>4. Kept'
    BY <2>2, <2>3 DEF Kept, Allowed
  <2>5. PgAlone(t)'
    BY <1>1, <1>5, <1>7, <2>2 DEF PgAlone, Written, Stopping, Cost
  <2>6. \A d \in Connections \ {c} : tx'[d] = tx[d] /\ (holder = d => holder' = d /\ db' = db)
    BY <1>7, <2>1, <2>2
  <2> QED
    BY <1>1, <2>2, <2>3, <2>4, <2>5, <2>6, PgOthersStay
<1> QED
  BY <1>9, <1>10, <1>11, <1>12, <1>13, <1>14, <1>15, <1>16, <1>17, <1>18, <1>19 DEF Postgres!Step
-----------------------------------------------------------------------------
LEMMA PgInitHolds ==
    ASSUME Postgres!StoreAssumption, Postgres!Init
    PROVE  PgInv /\ PgSeparateInv
<1>1. /\ \A t \in Threads : job[t] = Postgres!Idle /\ Postgres!Idle.at = "idle"
      /\ \A c \in Connections : tx[c] = NoTx /\ Pending(c) = {}
  BY DEF Postgres!Init, Postgres!Idle, Pending
<1>2. PgTypes
  BY <1>1 DEF Postgres!Init, PgTypes, Postgres!TypeOK, Database, Statuses, PgJob, Postgres!StoreAssumption
<1>3. PgInv
  BY <1>1, <1>2 DEF PgInv, PgDistinct, Postgres!Init, SameId
<1>4. \A t \in Threads : PgAlone(t)
  BY <1>1, <1>2, PgConnection DEF PgAlone
<1>5. Kept
  <2>1. Allowed = {} /\ db.rows = {} /\ db.used = 0
    BY DEF Postgres!Init, Allowed
  <2> QED
    BY <2>1, FS_EmptySet DEF Kept, Postgres!Init, Postgres!StoreAssumption
<1> QED
  BY <1>3, <1>4, <1>5 DEF PgSeparateInv

LEMMA PgNextKeeps ==
    ASSUME Postgres!StoreAssumption, PgInv, PgSeparateInv, [Postgres!Next]_(Postgres!vars)
    PROVE  PgInv' /\ PgSeparateInv'
<1>1. CASE Postgres!Next
  <2>1. PICK t \in Threads :
          (\E id \in RequestIds : Postgres!Authorize(t, id)) \/ Postgres!RequestStop(t) \/ Postgres!Step(t)
    BY <1>1 DEF Postgres!Next
  <2>2. conn' = conn
    BY <1>1 DEF Postgres!Next
  <2>3. PgInv'
    BY <2>1, <2>2, PgStepKeeps
  <2>4. Postgres!Separate' => Postgres!Separate
    BY <2>2 DEF Postgres!Separate
  <2>5. ASSUME Postgres!Separate
        PROVE  (\A u \in Threads : PgAlone(u)') /\ Kept'
    BY <2>1, <2>2, <2>5, PgSeparateStepKeeps DEF PgSeparateInv
  <2> QED
    BY <2>3, <2>4, <2>5 DEF PgSeparateInv
<1>2. CASE UNCHANGED Postgres!vars
  <2>1. UNCHANGED <<conn, db, tx, holder, job, answers>>
    BY <1>2 DEF Postgres!vars
  <2>2. PgInv'
    BY <2>1 DEF PgInv, PgTypes, Postgres!TypeOK, PgDistinct, Pending
  <2>3. Postgres!Separate' = Postgres!Separate /\ (\A t \in Threads : PgAlone(t)' = PgAlone(t)) /\ Kept' = Kept
    BY <2>1 DEF Postgres!Separate, PgAlone, Undecided, Unspent, Written, Stopping, Cost, Kept, Allowed
  <2> QED
    BY <2>2, <2>3 DEF PgSeparateInv
<1> QED
  BY <1>1, <1>2

LEMMA PgInvariance ==
    ASSUME Postgres!StoreAssumption
    PROVE  Postgres!Spec => [](PgInv /\ PgSeparateInv)
<1>1. Postgres!Init => PgInv /\ PgSeparateInv
  BY PgInitHolds
<1>2. PgInv /\ PgSeparateInv /\ [Postgres!Next]_(Postgres!vars) => PgInv' /\ PgSeparateInv'
  BY PgNextKeeps
<1> QED
  BY <1>1, <1>2, PTL DEF Postgres!Spec

(* With PostgreSQL too a request is decided at most once, whoever shares a *)
(* connection and whatever its transactions come to: what is pending is    *)
(* of other requests than what is committed or pending elsewhere, because  *)
(* an INSERT waits for the key.  The state is well typed.                  *)
THEOREM PostgresDecidesOnce ==
    ASSUME Postgres!StoreAssumption
    PROVE  Postgres!Spec => []Postgres!DecidedOnce
<1>1. PgInv => Postgres!DecidedOnce
  BY DEF PgInv, PgTypes, PgDistinct, SameId, Postgres!DecidedOnce
<1> QED
  BY <1>1, PgInvariance, PTL

(* Between processes, what a client was told is in the table.              *)
THEOREM PostgresAnswersPersisted ==
    ASSUME Postgres!StoreAssumption
    PROVE  Postgres!Spec => []Postgres!AnswersPersisted
<1>1. PgSeparateInv => Postgres!AnswersPersisted
  BY DEF PgSeparateInv, Kept, Postgres!AnswersPersisted
<1> QED
  BY <1>1, PgInvariance, PTL

(* Between processes, the session never grants more than its limit.        *)
THEOREM PostgresKeepsBudget ==
    ASSUME Postgres!StoreAssumption
    PROVE  Postgres!Spec => [](Postgres!Separate => CountersAtomic)
<1>1. PgSeparateInv => (Postgres!Separate => CountersAtomic)
  BY DEF PgSeparateInv, Kept, CountersAtomic
<1> QED
  BY <1>1, PgInvariance, PTL
-----------------------------------------------------------------------------
(* Both stores are held against one contract.                              *)
LEMMA SamePhase == Postgres!Phase = Phase /\ (\A row : Postgres!Ruling(row) = Ruling(row)) /\ Postgres!TheSession = TheSession
BY DEF Postgres!Phase, Phase, Postgres!TheSession, TheSession, Postgres!Ruling, Ruling

LEMMA SameRule ==
    ASSUME NEW r
    PROVE  Postgres!Contract!Rule(r) <=> Contract!Rule(r)
<1>1. Postgres!Contract!Spent(r.session) = Contract!Spent(r.session)
  BY SamePhase DEF Postgres!Contract!Spent, Contract!Spent, Postgres!IsGrant, IsGrant, Postgres!IsExternal, IsExternal
<1>2. Postgres!Contract!Cardinality(Contract!Spent(r.session)) = Contract!Cardinality(Contract!Spent(r.session))
  BY DEF Postgres!Contract!Cardinality, Contract!Cardinality
<1> QED
  BY <1>1, <1>2, SamePhase
  DEF Postgres!Contract!Rule, Contract!Rule, Postgres!Phase, Phase, Postgres!Ruling, Ruling, Postgres!IsGrant, IsGrant, Postgres!IsExternal,
      IsExternal, Postgres!Unbounded, Unbounded, Postgres!Budget, Budget, Postgres!TheSession, TheSession

(* Between processes, a statement is a step of the contract, or nothing    *)
(* the contract speaks of.                                                 *)
LEMMA PgStatementIsAStep ==
    ASSUME Postgres!StoreAssumption, PgInv, Postgres!Separate, PgSeparateInv, [Postgres!Next]_(Postgres!vars)
    PROVE  Postgres!Contract!Next \/ UNCHANGED Postgres!Contract!contractVars
<1>1. UNCHANGED db => UNCHANGED Postgres!Contract!contractVars
  BY DEF Postgres!Contract!contractVars, Postgres!Phase
<1>2. CASE UNCHANGED Postgres!vars
  BY <1>1, <1>2 DEF Postgres!vars
<1>3. CASE Postgres!Next
  <2>1. PICK t \in Threads :
          (\E id \in RequestIds : Postgres!Authorize(t, id)) \/ Postgres!RequestStop(t) \/ Postgres!Step(t)
    BY <1>3 DEF Postgres!Next
  <2>2. PICK c \in Connections : c = conn[t]
    BY PgConnection DEF PgInv
  <2>3. PgAlone(t) /\ Kept /\ job[t] \in PgJob /\ db \in Database /\ NoTx \notin Postgres!Work /\ Postgres!Fresh \in Postgres!Work
    BY DEF PgSeparateInv, PgInv, PgTypes, Postgres!StoreAssumption, Postgres!Work, Postgres!Fresh
  <2>4. tx[c] = Postgres!Fresh => Postgres!View(c) = db
    BY <2>3 DEF Postgres!View, Postgres!Merged, Postgres!Fresh, Database
  <2>5. Postgres!Commit(t) => db' = db \/ db' = Postgres!View(c)
    BY <2>2 DEF Postgres!Commit
  <2>6. CASE Postgres!CommitDecision(t)
    <3>1. Postgres!Commit(t) /\ job[t].row \in Postgres!Row
      BY <2>3, <2>6, PgJobFields DEF Postgres!CommitDecision
    <3>2. CASE job[t].at = "replay"
      BY <1>1, <2>2, <2>3, <2>4, <2>5, <3>1, <3>2 DEF PgAlone
    <3>3. CASE job[t].at = "commit"
      <4>1. tx[c] = Written({job[t].row}, Cost(job[t].row)) /\ Undecided(job[t].row)
        BY <2>2, <2>3, <3>3 DEF PgAlone
      <4>2. Cost(job[t].row) \in Nat /\ {job[t].row} \in SUBSET Postgres!Row
        BY <3>1, CostIsNatural
      <4>3. Postgres!View(c) = [status |-> db.status, used |-> db.used + Cost(job[t].row),
                         rows |-> db.rows \cup {job[t].row}]
        BY <2>3, <4>1, <4>2, WrittenMerged
      <4>4. db' = db \/ db' = [Spending(job[t].row) EXCEPT !.rows = @ \cup {job[t].row}]
        BY <2>3, <2>5, <3>1, <4>3, DecisionMerged
      <4>5. ASSUME db' = [Spending(job[t].row) EXCEPT !.rows = @ \cup {job[t].row}]
            PROVE  Postgres!Contract!Next
        <5>1. PICK r \in Contract!Ruling : Contract!Rule(r)
          BY <2>3, <3>1, <4>1, <4>5, SameTerms, CommitIsTheRuling
        <5>2. r \in Postgres!Contract!Ruling
          BY <5>1, SamePhase DEF Contract!Ruling, Postgres!Contract!Ruling, Decisions, Postgres!Decisions
        <5> QED
          BY <5>1, <5>2, SameRule DEF Postgres!Contract!Next
      <4> QED
        BY <1>1, <4>4, <4>5
    <3> QED
      BY <2>6, <3>2, <3>3 DEF Postgres!CommitDecision
  <2>7. CASE Postgres!AuditCommit(t)
    BY <1>1, <2>2, <2>3, <2>4, <2>5, <2>7 DEF Postgres!AuditCommit, Postgres!At, PgAlone
  <2>8. CASE Postgres!CommitStop(t)
    <3>1. tx[c] = Stopping
      BY <2>2, <2>3, <2>8 DEF Postgres!CommitStop, Postgres!At, PgAlone
    <3>2. db' = db \/ db' = [db EXCEPT !.status = "REVOKED"]
      BY <2>3, <2>5, <2>8, <3>1, StoppingMerged DEF Postgres!CommitStop
    <3>3. CASE db' = [db EXCEPT !.status = "REVOKED"] /\ db.status = "ACTIVE"
      <4>1. db'.rows = db.rows /\ db'.status = "REVOKED"
        BY <2>3, <3>3 DEF Database
      <4>2. Postgres!Contract!Stop("session")
        BY <3>3, <4>1 DEF Postgres!Contract!Stop, Postgres!Phase, Postgres!TheSession
      <4> QED
        BY <4>2 DEF Postgres!Contract!Next, Postgres!TheSession
    <3>4. CASE db' = [db EXCEPT !.status = "REVOKED"] /\ db.status # "ACTIVE"
      <4>1. db'.rows = db.rows /\ db'.status = "REVOKED"
        BY <2>3, <3>4 DEF Database
      <4> QED
        BY <3>4, <4>1 DEF Postgres!Contract!contractVars, Postgres!Phase
    <3> QED
      BY <1>1, <3>2, <3>3, <3>4
  <2>9. CASE ~(Postgres!CommitDecision(t) \/ Postgres!AuditCommit(t) \/ Postgres!CommitStop(t))
    <3>1. db' = db
      BY <2>1, <2>9
      DEF Postgres!Step, Postgres!Authorize, Postgres!RequestStop, Postgres!LockSession, Postgres!ReadExisting, Postgres!Count, Postgres!Insert,
          Postgres!RollbackDecision, Postgres!Refused, Postgres!Audit, Postgres!Reply, Postgres!Stop, Postgres!Execute, Postgres!Rollback
    <3> QED
      BY <1>1, <3>1
  <2> QED
    BY <2>6, <2>7, <2>8, <2>9
<1> QED
  BY <1>2, <1>3

(* Between processes the lock of the session's row makes one step of the   *)
(* contract of the statements of a decision.                               *)
THEOREM PostgresKeepsContract ==
    ASSUME Postgres!StoreAssumption
    PROVE  Postgres!Spec => Postgres!KeepsContract
<1>1. PgInv /\ PgSeparateInv /\ [Postgres!Next]_(Postgres!vars)
      => [Postgres!Separate => Postgres!Contract!Next]_(Postgres!Contract!contractVars)
  BY PgStatementIsAStep
<1> QED
  BY <1>1, PgInvariance, PTL DEF Postgres!Spec, Postgres!KeepsContract
-----------------------------------------------------------------------------
(* The action ledger of a session.                                         *)
(* The hash of an entry is the history up to it.                           *)
Historic(entries) ==
    \A i \in 1..Len(entries) : entries[i].hash = [j \in 1..i |-> entries[j].body]

Numbered(entries) == \A i \in 1..Len(entries) : entries[i].body.sequence = i - 1

(* A list that append_entry built: what is stored, and every copy of it that *)
(* a handler holds and will save.                                          *)
Built(entries) == Ledger!ChainValid(entries) /\ Historic(entries) /\ Numbered(entries)

CopiesAreBuilt ==
    \A w \in Workers : ledgerJob[w].at \in {"append", "scan"} => Built(ledgerJob[w].entries)

LedgerInv == Ledger!TypeOK /\ Built(ledger) /\ CopiesAreBuilt
-----------------------------------------------------------------------------
LEMMA NewEntryIsTyped ==
    ASSUME NEW entries \in Seq(Ledger!Entry), NEW c \in Calls
    PROVE  /\ Ledger!NewEntry(entries, c) \in Ledger!Entry
           /\ Ledger!Extended(entries, Ledger!NewEntry(entries, c)) \in Seq(Ledger!Entry)
<1>1. Ledger!HeadHash(entries) \in Seq(Ledger!Body)
  <2>1. CASE entries = <<>>
    BY <2>1 DEF Ledger!HeadHash, Ledger!Genesis
  <2>2. CASE entries # <<>>
    <3>1. Len(entries) \in 1..Len(entries)
      BY <2>2
    <3>2. entries[Len(entries)] \in Ledger!Entry
      BY <3>1
    <3> QED
      BY <2>2, <3>2 DEF Ledger!HeadHash, Ledger!Entry
  <2> QED
    BY <2>1, <2>2
<1>2. [sequence |-> Ledger!NextSequence(entries), call |-> c] \in Ledger!Body
  BY DEF Ledger!NextSequence, Ledger!Body
<1>3. Ledger!NewEntry(entries, c) \in Ledger!Entry
  BY <1>1, <1>2 DEF Ledger!NewEntry, Ledger!Entry, Ledger!Digest
<1> QED
  BY <1>3 DEF Ledger!Extended

(* One more entry keeps a built list built.                                *)
LEMMA ExtensionIsBuilt ==
    ASSUME NEW entries \in Seq(Ledger!Entry), NEW c \in Calls, Built(entries)
    PROVE  Built(Ledger!Extended(entries, Ledger!NewEntry(entries, c)))
<1> DEFINE n == Len(entries)
           new == Ledger!NewEntry(entries, c)
           longer == Ledger!Extended(entries, new)
<1>1. /\ n \in Nat
      /\ longer \in Seq(Ledger!Entry) /\ Len(longer) = n + 1
      /\ longer[n + 1] = new
      /\ \A i \in 1..n : longer[i] = entries[i]
  BY NewEntryIsTyped DEF Ledger!Extended
<1>2. new.previous = (IF n + 1 = 1 THEN Ledger!Genesis ELSE longer[n].hash)
  BY <1>1 DEF Ledger!NewEntry, Ledger!HeadHash
<1>3. new.hash = Ledger!Digest(new.previous, new.body) /\ new.body.sequence = n
  BY DEF Ledger!NewEntry, Ledger!NextSequence
<1>4. Ledger!ChainValid(longer)
  <2> SUFFICES ASSUME NEW i \in 1..(n + 1)
               PROVE  /\ longer[i].previous = (IF i = 1 THEN Ledger!Genesis ELSE longer[i - 1].hash)
                      /\ longer[i].hash = Ledger!Digest(longer[i].previous, longer[i].body)
    BY <1>1 DEF Ledger!ChainValid
  <2>1. CASE i = n + 1
    BY <2>1, <1>1, <1>2, <1>3
  <2>2. CASE i \in 1..n
    BY <2>2, <1>1 DEF Built, Ledger!ChainValid
  <2> QED
    BY <2>1, <2>2, <1>1
<1>5. Numbered(longer)
  BY <1>1, <1>3 DEF Built, Numbered
<1>6. new.hash = [j \in 1..(n + 1) |-> longer[j].body]
  <2>1. new.previous = [j \in 1..n |-> longer[j].body]
    <3>1. CASE n = 0
      BY <3>1, <1>1, <1>2 DEF Ledger!Genesis
    <3>2. CASE n # 0
      <4>1. n \in 1..n
        BY <3>2, <1>1
      <4>2. new.previous = [j \in 1..n |-> entries[j].body]
        BY <3>2, <4>1, <1>1, <1>2 DEF Built, Historic
      <4> QED
        BY <4>2, <1>1
    <3> QED
      BY <3>1, <3>2
  <2>2. new.previous \in Seq(Ledger!Body) /\ new.body \in Ledger!Body
    BY NewEntryIsTyped DEF Ledger!Entry
  <2>3. Len(new.previous) = n
    BY <2>1, <2>2, <1>1
  <2>4. /\ new.hash \in Seq(Ledger!Body) /\ Len(new.hash) = n + 1
        /\ new.hash[n + 1] = new.body
        /\ \A j \in 1..n : new.hash[j] = new.previous[j]
    BY <2>2, <2>3, <1>3 DEF Ledger!Digest
  <2>5. \A j \in 1..(n + 1) : new.hash[j] = longer[j].body
    BY <2>1, <2>4, <1>1
  <2>6. DOMAIN new.hash = 1..(n + 1)
    BY <2>4
  <2> QED
    BY <2>4, <2>5, <2>6
<1>7. Historic(longer)
  <2> SUFFICES ASSUME NEW i \in 1..(n + 1)
               PROVE  longer[i].hash = [j \in 1..i |-> longer[j].body]
    BY <1>1 DEF Historic
  <2>1. CASE i = n + 1
    BY <2>1, <1>1, <1>6
  <2>2. CASE i \in 1..n
    <3>1. entries[i].hash = [j \in 1..i |-> entries[j].body]
      BY <2>2 DEF Built, Historic
    <3>2. \A j \in 1..i : longer[j] = entries[j]
      BY <2>2, <1>1
    <3> QED
      BY <2>2, <3>1, <3>2, <1>1
  <2> QED
    BY <2>1, <2>2, <1>1
<1> QED
  BY <1>4, <1>5, <1>7 DEF Built
-----------------------------------------------------------------------------
LEMMA LedgerInitEstablishes == Ledger!Init => LedgerInv
<1> SUFFICES ASSUME Ledger!Init
             PROVE  LedgerInv
  OBVIOUS
<1>1. Ledger!TypeOK
  <2>1. ledger \in Seq(Ledger!Entry) /\ ledgerJob \in [Workers -> Ledger!Job] /\ receipts \in SUBSET Ledger!Entry
    BY DEF Ledger!Init, Ledger!Job, Ledger!Idle
  <2>2. overlapped \in BOOLEAN
    BY DEF Ledger!Init
  <2> QED
    BY <2>1, <2>2 DEF Ledger!TypeOK
<1>2. Built(ledger)
  BY DEF Ledger!Init, Built, Ledger!ChainValid, Historic, Numbered
<1>3. CopiesAreBuilt
  BY DEF Ledger!Init, CopiesAreBuilt, Ledger!Idle
<1> QED
  BY <1>1, <1>2, <1>3 DEF LedgerInv

LEMMA LedgerStepKeeps == LedgerInv /\ [Ledger!Next]_(Ledger!vars) => LedgerInv'
<1> SUFFICES ASSUME LedgerInv, [Ledger!Next]_(Ledger!vars)
             PROVE  LedgerInv'
  OBVIOUS
<1> USE DEF LedgerInv, Ledger!Saved
<1>1. ASSUME NEW w \in Workers, NEW c \in Calls, Ledger!AppendRead(w, c)
      PROVE  LedgerInv'
  <2>1. Ledger!TypeOK'
    BY <1>1 DEF Ledger!AppendRead, Ledger!TypeOK, Ledger!Job
  <2>2. ledger' = ledger
    BY <1>1 DEF Ledger!AppendRead
  <2>3. CopiesAreBuilt'
    BY <1>1 DEF Ledger!AppendRead, Ledger!TypeOK, CopiesAreBuilt
  <2> QED
    BY <2>1, <2>2, <2>3
<1>2. ASSUME NEW w \in Workers, Ledger!AppendSave(w)
      PROVE  LedgerInv'
  <2> DEFINE read == ledgerJob[w].entries
             entry == Ledger!NewEntry(read, ledgerJob[w].call)
  <2>1. read \in Seq(Ledger!Entry) /\ ledgerJob[w].call \in Calls /\ Built(read)
    BY <1>2 DEF Ledger!AppendSave, Ledger!TypeOK, Ledger!Job, Ledger!Idle, CopiesAreBuilt
  <2>2. /\ ledger' = Ledger!Extended(read, entry)
        /\ ledgerJob' = [ledgerJob EXCEPT ![w] = [at |-> "answer", entry |-> entry]]
        /\ receipts' = receipts
        /\ overlapped' \in BOOLEAN
    BY <1>2 DEF Ledger!AppendSave
  <2>3. entry \in Ledger!Entry /\ ledger' \in Seq(Ledger!Entry) /\ Built(ledger')
    BY <2>1, <2>2, NewEntryIsTyped, ExtensionIsBuilt
  <2>4. Ledger!TypeOK'
    BY <2>2, <2>3 DEF Ledger!TypeOK, Ledger!Job
  <2>5. CopiesAreBuilt'
    BY <2>2 DEF Ledger!TypeOK, CopiesAreBuilt
  <2> QED
    BY <2>3, <2>4, <2>5
<1>3. ASSUME NEW w \in Workers, Ledger!AppendAnswer(w)
      PROVE  LedgerInv'
  BY <1>3 DEF Ledger!AppendAnswer, Ledger!TypeOK, Ledger!Job, Ledger!Idle, CopiesAreBuilt
<1>4. ASSUME NEW w \in Workers, Ledger!ScanRead(w)
      PROVE  LedgerInv'
  <2>1. Ledger!TypeOK'
    BY <1>4 DEF Ledger!ScanRead, Ledger!TypeOK, Ledger!Job
  <2>2. ledger' = ledger
    BY <1>4 DEF Ledger!ScanRead
  <2>3. CopiesAreBuilt'
    BY <1>4 DEF Ledger!ScanRead, Ledger!TypeOK, CopiesAreBuilt
  <2> QED
    BY <2>1, <2>2, <2>3
<1>5. ASSUME NEW w \in Workers, Ledger!ScanSave(w)
      PROVE  LedgerInv'
  <2>1. ledgerJob[w].entries \in Seq(Ledger!Entry) /\ Built(ledgerJob[w].entries)
    BY <1>5 DEF Ledger!ScanSave, Ledger!TypeOK, Ledger!Job, Ledger!Idle, CopiesAreBuilt
  <2> QED
    BY <1>5, <2>1 DEF Ledger!ScanSave, Ledger!TypeOK, Ledger!Job, Ledger!Idle, CopiesAreBuilt
<1>6. ASSUME NEW w \in Workers, Ledger!Crash(w)
      PROVE  LedgerInv'
  BY <1>6 DEF Ledger!Crash, Ledger!TypeOK, Ledger!Job, Ledger!Idle, CopiesAreBuilt
<1>7. CASE UNCHANGED Ledger!vars
  <2>1. ledger' = ledger /\ ledgerJob' = ledgerJob /\ receipts' = receipts /\ overlapped' = overlapped
    BY <1>7 DEF Ledger!vars
  <2>2. Ledger!TypeOK'
    BY <2>1 DEF Ledger!TypeOK
  <2> QED
    BY <2>1, <2>2 DEF CopiesAreBuilt, Built, Ledger!ChainValid, Historic, Numbered
<1> QED
  BY <1>1, <1>2, <1>3, <1>4, <1>5, <1>6, <1>7 DEF Ledger!Next

LEMMA LedgerInductive == Ledger!Spec => []LedgerInv
  BY LedgerInitEstablishes, LedgerStepKeeps, PTL DEF Ledger!Spec

(* Every reachable state of a session's ledger is well typed.              *)
THEOREM LedgerTypeCorrect == Ledger!Spec => []Ledger!TypeOK
<1>1. LedgerInv => Ledger!TypeOK
  BY DEF LedgerInv
<1> QED
  BY <1>1, LedgerInductive, PTL

(* verify_chain accepts the ledger in every reachable state, and its entries *)
(* are numbered without a gap: only something outside the program breaks the *)
(* chain.                                                                  *)
THEOREM AlwaysVerifiable == Ledger!Spec => []Ledger!Verifiable
<1>1. LedgerInv => Ledger!Verifiable
  BY DEF LedgerInv, Built, Numbered, Ledger!Verifiable
<1> QED
  BY <1>1, LedgerInductive, PTL

(* Whoever finds a receipt's entry in the ledger has the whole history the *)
(* receipt was issued over.                                                *)
THEOREM ReceiptsAlwaysCommit == Ledger!Spec => []Ledger!ReceiptsCommit
<1>1. LedgerInv => Ledger!ReceiptsCommit
  BY DEF LedgerInv, Built, Historic, Ledger!ReceiptsCommit
<1> QED
  BY <1>1, LedgerInductive, PTL

(* An appended entry is lost only when a handler saves a copy that is not  *)
(* the stored row any more.                                                *)
LEMMA ExtensionContinues ==
    ASSUME NEW entries \in Seq(Ledger!Entry), NEW c \in Calls
    PROVE  Ledger!IsPrefix(entries, Ledger!Extended(entries, Ledger!NewEntry(entries, c)))
<1> DEFINE n == Len(entries)
           longer == Ledger!Extended(entries, Ledger!NewEntry(entries, c))
<1>1. /\ n \in Nat /\ longer \in Seq(Ledger!Entry) /\ Len(longer) = n + 1
      /\ \A i \in 1..n : longer[i] = entries[i]
  BY NewEntryIsTyped DEF Ledger!Extended
<1>2. SubSeq(longer, 1, n) = SubSeq(entries, 1, n)
  BY <1>1
<1> QED
  BY <1>1, <1>2 DEF Ledger!IsPrefix

THEOREM OnlyOverlapLoses == Ledger!Spec => Ledger!LostOnlyToOverlap
<1>1. LedgerInv /\ [Ledger!Next]_(Ledger!vars) => [Ledger!IsPrefix(ledger, ledger') \/ Ledger!OutdatedSave]_ledger
  <2> SUFFICES ASSUME LedgerInv, Ledger!Next, ledger' # ledger
               PROVE  Ledger!IsPrefix(ledger, ledger') \/ Ledger!OutdatedSave
    BY DEF Ledger!vars
  <2> USE DEF LedgerInv
  <2>1. ASSUME NEW w \in Workers, Ledger!AppendSave(w)
        PROVE  Ledger!IsPrefix(ledger, ledger') \/ Ledger!OutdatedSave
    <3>1. ledgerJob[w].call \in Calls /\ ledgerJob[w].at = "append" /\ ledgerJob'[w].at = "answer"
      BY <2>1 DEF Ledger!AppendSave, Ledger!TypeOK, Ledger!Job, Ledger!Idle
    <3>2. CASE ledgerJob[w].entries = ledger
      BY <2>1, <3>1, <3>2, ExtensionContinues DEF Ledger!AppendSave, Ledger!TypeOK
    <3>3. CASE ledgerJob[w].entries # ledger
      BY <3>1, <3>3 DEF Ledger!OutdatedSave
    <3> QED
      BY <3>2, <3>3
  <2>2. ASSUME NEW w \in Workers, Ledger!ScanSave(w)
        PROVE  Ledger!OutdatedSave
    BY <2>2 DEF Ledger!ScanSave, Ledger!TypeOK, Ledger!Idle, Ledger!OutdatedSave
  <2> QED
    BY <2>1, <2>2 DEF Ledger!Next, Ledger!AppendRead, Ledger!AppendAnswer, Ledger!ScanRead, Ledger!Crash
<1> QED
  BY <1>1, LedgerInductive, PTL DEF Ledger!Spec, Ledger!LostOnlyToOverlap

(* Until an outdated copy is saved, an entry that is to be answered is in  *)
(* its place.                                                              *)
Placed(entries, entry) == /\ entry.body.sequence + 1 \in DOMAIN entries
                          /\ entries[entry.body.sequence + 1] = entry

AnswersPlaced ==
    ~overlapped => \A w \in Workers : ledgerJob[w].at = "answer" => Placed(ledger, ledgerJob[w].entry)

LEMMA AnswersStayPlaced == LedgerInv /\ AnswersPlaced /\ [Ledger!Next]_(Ledger!vars) => AnswersPlaced'
<1> SUFFICES ASSUME LedgerInv, AnswersPlaced, [Ledger!Next]_(Ledger!vars), ~overlapped',
                    NEW v \in Workers, ledgerJob'[v].at = "answer"
             PROVE  Placed(ledger', ledgerJob'[v].entry)
  BY DEF AnswersPlaced
<1> USE DEF LedgerInv
<1>1. ASSUME NEW w \in Workers, Ledger!AppendSave(w)
      PROVE  Placed(ledger', ledgerJob'[v].entry)
  <2> DEFINE entry == Ledger!NewEntry(ledger, ledgerJob[w].call)
             n == Len(ledger)
  <2>0. ledgerJob[w].call \in Calls
    BY <1>1 DEF Ledger!AppendSave, Ledger!TypeOK, Ledger!Job, Ledger!Idle
  <2>1. ledgerJob[w].entries = ledger /\ ~overlapped
    BY <1>1 DEF Ledger!AppendSave, Ledger!Saved
  <2>2. /\ ledger \in Seq(Ledger!Entry) /\ entry \in Ledger!Entry /\ ledger' = Append(ledger, entry)
        /\ entry.body.sequence = n
        /\ ledgerJob' = [ledgerJob EXCEPT ![w] = [at |-> "answer", entry |-> entry]]
    BY <1>1, <2>0, <2>1, NewEntryIsTyped DEF Ledger!AppendSave, Ledger!TypeOK, Ledger!Extended, Ledger!NewEntry, Ledger!NextSequence
  <2>3. /\ n \in Nat /\ DOMAIN ledger = 1..n /\ DOMAIN ledger' = 1..(n + 1)
        /\ ledger'[n + 1] = entry
        /\ \A i \in 1..n : ledger'[i] = ledger[i]
    BY <2>2
  <2>4. CASE v = w
    <3>1. ledgerJob'[v].entry = entry
      BY <2>2, <2>4 DEF Ledger!TypeOK
    <3> QED
      BY <2>2, <2>3, <3>1 DEF Placed
  <2>5. CASE v # w
    <3>1. ledgerJob'[v] = ledgerJob[v]
      BY <2>2, <2>5 DEF Ledger!TypeOK
    <3>2. Placed(ledger, ledgerJob[v].entry)
      BY <2>1, <3>1 DEF AnswersPlaced
    <3> QED
      BY <2>3, <3>1, <3>2 DEF Placed
  <2> QED
    BY <2>4, <2>5
<1>2. ASSUME NEW w \in Workers, Ledger!ScanSave(w)
      PROVE  Placed(ledger', ledgerJob'[v].entry)
  <2>1. ledger' = ledger /\ ~overlapped
    BY <1>2 DEF Ledger!ScanSave, Ledger!Saved
  <2>2. ledgerJob'[v] = ledgerJob[v]
    BY <1>2 DEF Ledger!ScanSave, Ledger!TypeOK, Ledger!Idle
  <2> QED
    BY <2>1, <2>2 DEF AnswersPlaced
<1>3. CASE \/ UNCHANGED Ledger!vars
           \/ \E w \in Workers : \/ \E c \in Calls : Ledger!AppendRead(w, c)
                                 \/ Ledger!AppendAnswer(w) \/ Ledger!ScanRead(w) \/ Ledger!Crash(w)
  <2>1. ledger' = ledger /\ ~overlapped
    BY <1>3 DEF Ledger!vars, Ledger!AppendRead, Ledger!AppendAnswer, Ledger!ScanRead, Ledger!Crash
  <2>2. ledgerJob'[v] = ledgerJob[v]
    BY <1>3 DEF Ledger!vars, Ledger!AppendRead, Ledger!AppendAnswer, Ledger!ScanRead, Ledger!Crash, Ledger!TypeOK, Ledger!Idle
  <2> QED
    BY <2>1, <2>2 DEF AnswersPlaced
<1> QED
  BY <1>1, <1>2, <1>3 DEF Ledger!Next

LEMMA NothingToPlace == Ledger!Init => AnswersPlaced
  BY DEF Ledger!Init, AnswersPlaced, Ledger!Idle

LEMMA LogInitHolds == Ledger!Init => Ledger!Log!Init
  BY DEF Ledger!Init, Ledger!Log!Init

(* A save records one call after all the others, an answer tells a place   *)
(* that holds the call.                                                    *)
LEMMA SaveIsARecord ==
    ASSUME LedgerInv, AnswersPlaced, [Ledger!Next]_(Ledger!vars)
    PROVE  [~overlapped' => Ledger!Log!Next]_(Ledger!Log!logVars)
<1> DEFINE theLog == [i \in 1..Len(ledger) |-> ledger[i].body.call]
           theTold == {<<r.body.sequence + 1, r.body.call>> : r \in receipts}
<1> SUFFICES ASSUME LedgerInv, AnswersPlaced, Ledger!Next, ~overlapped'
             PROVE  Ledger!Log!Next \/ (theLog' = theLog /\ theTold' = theTold)
  BY DEF Ledger!vars, Ledger!Log!logVars
<1> USE DEF LedgerInv
<1>1. ASSUME NEW w \in Workers, Ledger!AppendSave(w)
      PROVE  Ledger!Log!Next
  <2> DEFINE entry == Ledger!NewEntry(ledger, ledgerJob[w].call)
             n == Len(ledger)
  <2>0. ledgerJob[w].call \in Calls
    BY <1>1 DEF Ledger!AppendSave, Ledger!TypeOK, Ledger!Job, Ledger!Idle
  <2>1. ledgerJob[w].entries = ledger /\ receipts' = receipts
    BY <1>1 DEF Ledger!AppendSave, Ledger!Saved
  <2>2. /\ ledger \in Seq(Ledger!Entry) /\ entry \in Ledger!Entry /\ ledger' = Append(ledger, entry)
        /\ entry.body.call = ledgerJob[w].call
    BY <1>1, <2>0, <2>1, NewEntryIsTyped DEF Ledger!AppendSave, Ledger!TypeOK, Ledger!Extended, Ledger!NewEntry
  <2>3. /\ n \in Nat /\ Len(ledger') = n + 1 /\ ledger'[n + 1] = entry
        /\ \A i \in 1..n : ledger'[i] = ledger[i]
    BY <2>2
  <2>4. theLog' = Append(theLog, ledgerJob[w].call)
    <3>0. \A i \in 1..n : ledger[i].body.call \in Calls
      <4>1. \A i \in 1..n : ledger[i] \in Ledger!Entry
        BY <2>2
      <4> QED
        BY <4>1 DEF Ledger!Entry, Ledger!Body
    <3>1. theLog \in Seq(Calls) /\ Len(theLog) = n
      BY <3>0, <2>3
    <3>2. /\ DOMAIN Append(theLog, ledgerJob[w].call) = 1..(n + 1)
          /\ Append(theLog, ledgerJob[w].call)[n + 1] = ledgerJob[w].call
          /\ \A i \in 1..n : Append(theLog, ledgerJob[w].call)[i] = theLog[i]
      BY <3>1, <2>0, <2>3
    <3> QED
      BY <3>1, <3>2, <2>2, <2>3
  <2>5. theTold' = theTold
    BY <2>1
  <2> QED
    BY <2>0, <2>4, <2>5 DEF Ledger!Log!Next, Ledger!Log!Record
<1>2. ASSUME NEW w \in Workers, Ledger!AppendAnswer(w)
      PROVE  Ledger!Log!Next
  <2> DEFINE entry == ledgerJob[w].entry
             i == entry.body.sequence + 1
  <2>1. /\ ledgerJob[w].at = "answer" /\ ledger' = ledger /\ ~overlapped
        /\ receipts' = receipts \cup {entry}
    BY <1>2 DEF Ledger!AppendAnswer
  <2>2. Placed(ledger, entry)
    BY <2>1 DEF AnswersPlaced
  <2>3. i \in 1..Len(ledger) /\ ledger[i] = entry
    BY <2>2 DEF Placed, Ledger!TypeOK
  <2>4. i \in DOMAIN theLog /\ theLog[i] = entry.body.call
    BY <2>3
  <2>5. theTold' = theTold \cup {<<i, theLog[i]>>} /\ theLog' = theLog
    BY <2>1, <2>4
  <2> QED
    BY <2>4, <2>5 DEF Ledger!Log!Next, Ledger!Log!Tell
<1>3. CASE \E w \in Workers : \/ \E c \in Calls : Ledger!AppendRead(w, c)
                             \/ Ledger!ScanRead(w) \/ Ledger!ScanSave(w) \/ Ledger!Crash(w)
  <2>1. ledger' = ledger /\ receipts' = receipts
    BY <1>3 DEF Ledger!AppendRead, Ledger!ScanRead, Ledger!ScanSave, Ledger!Saved, Ledger!Crash
  <2> QED
    BY <2>1
<1> QED
  BY <1>1, <1>2, <1>3 DEF Ledger!Next

(* Until an outdated copy is saved the handlers implement the append-only  *)
(* log of every invocation: a save records one call after all the others, an *)
(* answer tells a place that holds the call.                               *)
THEOREM LedgerPromiseKept == Ledger!Spec => Ledger!KeepsPromise
<1>1. LedgerInv /\ AnswersPlaced /\ [Ledger!Next]_(Ledger!vars)
      => [~overlapped' => Ledger!Log!Next]_(Ledger!Log!logVars)
  BY SaveIsARecord
<1> QED
  BY <1>1, NothingToPlace, LogInitHolds, LedgerInductive, AnswersStayPlaced, PTL
  DEF Ledger!Spec, Ledger!KeepsPromise
-----------------------------------------------------------------------------
(* The claim of a feed, which AdvisoryFeed takes to be one step, statement *)
(* by statement.                                                           *)
InBlock == {"claim", "write", "leave", "abort"}

(* The transaction of a feed so far, and of a row.                         *)
Claimed(e, done) ==
    [snapshots |-> feedDb.snapshots \cup {e}, rows |-> feedDb.rows,
     catalog |-> [r \in Records |-> IF r \in done THEN e ELSE feedDb.catalog[r]]]
Unclaimed(e) == \A f \in feedDb.snapshots : Sequence[f] # Sequence[e]

(* What a feedJob with a connection of its own knows of it between two      *)
(* statements.                                                             *)
ThreadAlone(t) ==
    LET j == feedJob[t]
        own == feedTx[Conn[t]]
    IN /\ depth[Conn[t]] = IF j.at \in InBlock THEN 1 ELSE 0
       /\ j.at \in InBlock => t \in Importers
       /\ j.at \in {"idle", "claim", "reply", "replyRow"} => own = NoTx
       /\ j.at \in {"write", "leave"} => Unclaimed(j.envelope)
       /\ j.at = "write" => /\ j.left \subseteq Covers[j.envelope]
                            /\ own = Claimed(j.envelope, Covers[j.envelope] \ j.left)
       /\ j.at = "leave" => own = Claimed(j.envelope, Covers[j.envelope])
       /\ j.at = "commit" => own = [feedDb EXCEPT !.rows = @ \cup {j.row}]
       /\ j.at = "reply" => j.envelope \in feedDb.snapshots
       /\ j.at = "replyRow" => j.row \in feedDb.rows

(* Nothing is committed while a transaction that writes is open.           *)
OneFeedWriter == \A c, d \in FeedConnections : feedTx[c] # NoTx /\ feedTx[d] # NoTx => c = d

TransactionInv == /\ Feeds!TypeOK /\ OneFeedWriter /\ \A t \in Feeds!Users : ThreadAlone(t)
                  /\ feedAnswers \subseteq feedDb.snapshots \cup feedDb.rows

LEMMA ThreadParts ==
    ASSUME Feeds!TransactionAssumption, Feeds!TypeOK, NEW t \in Feeds!Users
    PROVE  /\ Conn[t] \in FeedConnections /\ Feeds!View(Conn[t]) \in Feeds!Database
           /\ feedJob[t].at \in InBlock \cup {"reply"} => feedJob[t].envelope \in Envelopes
           /\ feedJob[t].at = "write" => feedJob[t].left \in SUBSET Records
           /\ feedJob[t].at \in {"commit", "replyRow"} => feedJob[t].row \in Rows
           /\ feedJob[t].at \in InBlock \cup {"idle", "reply", "commit", "replyRow"}
<1>1. feedJob[t] \in Feeds!Job
  BY DEF Feeds!TypeOK
<1>2. Conn[t] \in FeedConnections /\ Feeds!View(Conn[t]) \in Feeds!Database
  BY DEF Feeds!TypeOK, Feeds!TransactionAssumption, Feeds!View
<1> QED
  BY <1>1, <1>2 DEF Feeds!Job, Feeds!Idle, InBlock

LEMMA ClaimedIsTyped ==
    ASSUME feedDb \in Feeds!Database, NEW e \in Envelopes, NEW done \in SUBSET Records
    PROVE  Claimed(e, done) \in Feeds!Database
BY DEF Feeds!Database, Claimed

(* One feedJob moves: the others know what they knew, for whoever commits   *)
(* something has the only transaction that writes.                         *)
LEMMA ThreadsStay ==
    ASSUME Feeds!TransactionAssumption, Feeds!Separate, TransactionInv, NEW t \in Feeds!Users,
           NEW next \in Feeds!Job, Feeds!Goto(t, next),
           NEW newTx \in {NoTx} \cup Feeds!Database, NEW newDepth \in {0, 1},
           feedDb' \in Feeds!Database, feedTx' = [feedTx EXCEPT ![Conn[t]] = newTx],
           depth' = [depth EXCEPT ![Conn[t]] = newDepth],
           newTx # NoTx => Feeds!MayWrite(Conn[t]),
           \/ feedDb' = feedDb
           \/ /\ feedTx[Conn[t]] # NoTx
              /\ feedDb.snapshots \subseteq feedDb'.snapshots /\ feedDb.rows \subseteq feedDb'.rows,
           feedAnswers' \subseteq (Envelopes \cup Rows) \cap (feedDb.snapshots \cup feedDb.rows), 
           feedJob'[t] = next /\ feedTx'[Conn[t]] = newTx /\ depth'[Conn[t]] = newDepth => ThreadAlone(t)'
    PROVE  TransactionInv'
<1>1. PICK c \in FeedConnections : c = Conn[t]
  BY ThreadParts DEF TransactionInv
<1>2. /\ feedTx \in [FeedConnections -> {NoTx} \cup Feeds!Database] /\ feedJob \in [Feeds!Users -> Feeds!Job]
      /\ depth \in [FeedConnections -> 0..Feeds!Cardinality(Importers)]
  BY DEF TransactionInv, Feeds!TypeOK
<1>3. /\ feedJob'[t] = next /\ \A u \in Feeds!Users \ {t} : feedJob'[u] = feedJob[u]
      /\ feedTx'[c] = newTx /\ \A d \in FeedConnections \ {c} : feedTx'[d] = feedTx[d]
      /\ depth'[c] = newDepth /\ \A d \in FeedConnections \ {c} : depth'[d] = depth[d]
  BY <1>1, <1>2 DEF Feeds!Goto
<1>4. ThreadAlone(t)'
  BY <1>1, <1>3
<1>5. newDepth \in 0..Feeds!Cardinality(Importers)
  <2>1. Cardinality(Importers) \in Nat /\ (t \in Importers => Cardinality(Importers) # 0)
    BY FS_EmptySet, FS_CardinalityType DEF Feeds!TransactionAssumption, IsFiniteSet, Feeds!IsFiniteSet
  <2>2. Feeds!Cardinality(Importers) = Cardinality(Importers)
    BY DEF Cardinality, Feeds!Cardinality
  <2>3. t \notin Importers => newDepth = 0
    BY <1>1, <1>3, <1>4 DEF ThreadAlone
  <2> QED
    BY <2>1, <2>2, <2>3
<1>6. Feeds!TypeOK'
  <2>1. feedTx' \in [FeedConnections -> {NoTx} \cup Feeds!Database]
    BY <1>1, <1>2
  <2>2. depth' \in [FeedConnections -> 0..Feeds!Cardinality(Importers)]
    BY <1>1, <1>2, <1>5
  <2>3. feedJob' \in [Feeds!Users -> Feeds!Job]
    BY <1>2 DEF Feeds!Goto
  <2> QED
    BY <2>1, <2>2, <2>3 DEF Feeds!TypeOK
<1>7. OneFeedWriter'
  <2>1. newTx # NoTx => \A d \in FeedConnections \ {c} : feedTx[d] = NoTx
    BY <1>1 DEF Feeds!MayWrite
  <2> QED
    BY <1>3, <2>1 DEF OneFeedWriter, TransactionInv
<1>8. ASSUME NEW u \in Feeds!Users \ {t}
      PROVE  ThreadAlone(u)'
  <2>1. Conn[u] \in FeedConnections \ {c}
    BY <1>1 DEF Feeds!Separate, Feeds!TransactionAssumption
  <2>2. feedJob'[u] = feedJob[u] /\ feedTx'[Conn[u]] = feedTx[Conn[u]] /\ depth'[Conn[u]] = depth[Conn[u]]
    BY <1>3, <2>1
  <2>3. feedDb' = feedDb \/ (feedTx[Conn[u]] = NoTx /\ feedDb.snapshots \subseteq feedDb'.snapshots /\ feedDb.rows \subseteq feedDb'.rows)
    BY <1>1, <2>1 DEF TransactionInv, OneFeedWriter
  <2>4. ThreadAlone(u) /\ feedDb \in Feeds!Database
    BY DEF TransactionInv, Feeds!TypeOK
  <2>5. CASE feedDb' = feedDb
    BY <2>2, <2>4, <2>5 DEF ThreadAlone, Unclaimed, Claimed
  <2>6. CASE feedTx[Conn[u]] = NoTx /\ feedDb.snapshots \subseteq feedDb'.snapshots /\ feedDb.rows \subseteq feedDb'.rows
    <3>1. feedTx[Conn[u]] \notin Feeds!Database
      BY <2>6 DEF Feeds!TransactionAssumption
    <3>2. feedJob[u].at # "commit"
      BY <2>4, <3>1, ThreadParts DEF Feeds!Database, TransactionInv, ThreadAlone
    <3>3. \A e \in Envelopes : \A left \in SUBSET Records :
                                         /\ Claimed(e, Covers[e]) \in Feeds!Database
                                         /\ Claimed(e, Covers[e] \ left) \in Feeds!Database
      BY <2>4, ClaimedIsTyped DEF Feeds!TransactionAssumption
    <3>4. /\ feedJob[u].at \in {"write", "leave"} => feedJob[u].envelope \in Envelopes
          /\ feedJob[u].at = "write" => feedJob[u].left \in SUBSET Records
      BY ThreadParts DEF TransactionInv, InBlock
    <3>5. feedJob[u].at # "leave"
      <4>1. feedJob[u].at = "leave" => feedTx[Conn[u]] = Claimed(feedJob[u].envelope, Covers[feedJob[u].envelope])
        BY <2>4 DEF ThreadAlone
      <4> QED
        BY <3>1, <3>3, <3>4, <4>1
    <3>6. feedJob[u].at # "write"
      <4>1. feedJob[u].at = "write"
            => feedTx[Conn[u]] = Claimed(feedJob[u].envelope, Covers[feedJob[u].envelope] \ feedJob[u].left)
        BY <2>4 DEF ThreadAlone
      <4>2. ASSUME NEW e \in Envelopes, NEW left \in SUBSET Records, e = feedJob[u].envelope,
                   left = feedJob[u].left
            PROVE  feedJob[u].at # "write"
        <5>1. Claimed(e, Covers[e] \ left) \in Feeds!Database
          BY <3>3
        <5>2. feedJob[u].at = "write" => feedTx[Conn[u]] = Claimed(e, Covers[e] \ left)
          BY <4>1, <4>2, Zenon
        <5> QED
          BY <3>1, <5>1, <5>2
      <4> QED
        BY <3>4, <4>2
    <3> QED
      BY <2>2, <2>4, <2>6, <3>2, <3>5, <3>6 DEF ThreadAlone
  <2> QED
    BY <2>3, <2>5, <2>6
<1>9. feedAnswers' \subseteq feedDb'.snapshots \cup feedDb'.rows
  OBVIOUS
<1> QED
  BY <1>4, <1>6, <1>7, <1>8, <1>9 DEF TransactionInv

LEMMA TransactionStepKeeps ==
    ASSUME Feeds!TransactionAssumption, Feeds!Separate, TransactionInv, NEW t \in Feeds!Users,
           \/ \E e \in Envelopes : Feeds!Enter(t, e)
           \/ Feeds!ClaimSequence(t) \/ Feeds!WriteAdvisory(t) \/ Feeds!Fail(t) \/ Feeds!Abort(t) \/ Feeds!Leave(t)
           \/ \E row \in Rows : Feeds!Record(t, row)
           \/ Feeds!CommitRow(t) \/ Feeds!Reply(t)
    PROVE  TransactionInv'
<1> DEFINE c == Conn[t]
<1>1. /\ c \in FeedConnections /\ Feeds!View(c) \in Feeds!Database /\ feedDb \in Feeds!Database
      /\ feedTx \in [FeedConnections -> {NoTx} \cup Feeds!Database] /\ feedJob \in [Feeds!Users -> Feeds!Job]
      /\ ThreadAlone(t) /\ feedJob[t] \in Feeds!Job
  BY ThreadParts DEF TransactionInv, Feeds!TypeOK
<1>2. /\ depth[c] \in {0, 1} /\ feedTx[c] \in {NoTx} \cup Feeds!Database
      /\ feedTx = [feedTx EXCEPT ![c] = feedTx[c]] /\ depth = [depth EXCEPT ![c] = depth[c]]
      /\ feedTx[c] # NoTx => Feeds!MayWrite(c)
  BY <1>1 DEF ThreadAlone, TransactionInv, Feeds!TypeOK, OneFeedWriter, Feeds!MayWrite
<1>3. feedAnswers \subseteq (Envelopes \cup Rows) \cap (feedDb.snapshots \cup feedDb.rows)
  BY DEF TransactionInv, Feeds!TypeOK
<1>4. NoTx \in {NoTx} \cup Feeds!Database /\ 0 \in {0, 1} /\ 1 \in {0, 1}
  OBVIOUS
<1>5. ASSUME NEW e \in Envelopes, Feeds!Enter(t, e)
      PROVE  TransactionInv'
  <2> DEFINE next == [at |-> "claim", envelope |-> e]
  <2>1. next \in Feeds!Job /\ Feeds!Goto(t, next) /\ feedJob[t].at = "idle" /\ t \in Importers
    BY <1>5 DEF Feeds!Enter, Feeds!Job, Feeds!Idle
  <2>2. depth[c] = 0 /\ feedTx[c] = NoTx
    BY <1>1, <2>1 DEF ThreadAlone, InBlock
  <2>3. /\ depth' = [depth EXCEPT ![c] = 1] /\ feedTx' = [feedTx EXCEPT ![c] = NoTx] /\ feedDb' = feedDb
        /\ feedAnswers' = feedAnswers
    BY <1>2, <1>5, <2>2 DEF Feeds!Enter
  <2>4. feedJob'[t] = next /\ feedTx'[c] = NoTx /\ depth'[c] = 1 => ThreadAlone(t)'
    BY <2>1 DEF ThreadAlone, InBlock
  <2> QED
    BY <1>1, <1>3, <1>4, <2>1, <2>3, <2>4, ThreadsStay
<1>6. ASSUME Feeds!ClaimSequence(t)
      PROVE  TransactionInv'
  <2>1. PICK e \in Envelopes : e = feedJob[t].envelope /\ feedJob[t].at = "claim"
    BY <1>6, ThreadParts DEF Feeds!ClaimSequence, TransactionInv, InBlock
  <2> DEFINE next == [at |-> "write", envelope |-> e, left |-> Covers[e]]
  <2>2. depth[c] = 1 /\ feedTx[c] = NoTx /\ t \in Importers /\ Feeds!View(c) = feedDb
    BY <1>1, <2>1 DEF ThreadAlone, InBlock, Feeds!View
  <2>3. next \in Feeds!Job /\ Covers[e] \in SUBSET Records
    BY DEF Feeds!Job, Feeds!TransactionAssumption
  <2>4. [feedDb EXCEPT !.snapshots = @ \cup {e}] = Claimed(e, Covers[e] \ Covers[e])
    <3>1. feedDb.catalog \in [Records -> Envelopes \cup {Absent}] /\ DOMAIN feedDb = {"snapshots", "catalog", "rows"}
      BY <1>1 DEF Feeds!Database
    <3>2. [r \in Records |-> IF r \in Covers[e] \ Covers[e] THEN e ELSE feedDb.catalog[r]] = feedDb.catalog
      BY <3>1
    <3> DEFINE x == [feedDb EXCEPT !.snapshots = @ \cup {e}]
               y == Claimed(e, Covers[e] \ Covers[e])
    <3>3. y.snapshots = feedDb.snapshots \cup {e} /\ y.catalog = feedDb.catalog /\ y.rows = feedDb.rows
      BY <3>2 DEF Claimed
    <3>4. x.snapshots = feedDb.snapshots \cup {e} /\ x.catalog = feedDb.catalog /\ x.rows = feedDb.rows
      BY <1>1 DEF Feeds!Database
    <3>5. x \in Feeds!Database /\ y \in Feeds!Database
      BY <1>1, <2>3, ClaimedIsTyped DEF Feeds!Database
    <3> QED
      BY <3>3, <3>4, <3>5 DEF Feeds!Database
  <2> DEFINE new == Claimed(e, Covers[e] \ Covers[e])
  <2>5. new \in Feeds!Database
    BY <1>1, <2>3, ClaimedIsTyped
  <2>6. /\ Unclaimed(e) /\ Feeds!Write(c, new) /\ Feeds!Goto(t, next)
        /\ depth' = depth /\ feedAnswers' = feedAnswers
    BY <1>6, <2>1, <2>2, <2>4 DEF Feeds!ClaimSequence, Feeds!CommitUnlessNested, Unclaimed
  <2>7. feedTx' = [feedTx EXCEPT ![c] = new] /\ feedDb' = feedDb /\ Feeds!MayWrite(c) /\ depth' = [depth EXCEPT ![c] = 1]
    BY <1>2, <2>2, <2>6 DEF Feeds!Write
  <2>8. feedJob'[t] = next /\ feedTx'[c] = new /\ depth'[c] = 1 => ThreadAlone(t)'
    BY <2>2, <2>6, <2>7 DEF ThreadAlone, InBlock, Unclaimed, Claimed
  <2> QED
    BY <1>1, <1>3, <1>4, <2>3, <2>5, <2>6, <2>7, <2>8, ThreadsStay
<1>7. ASSUME Feeds!WriteAdvisory(t)
      PROVE  TransactionInv'
  <2>1. PICK e \in Envelopes : e = feedJob[t].envelope /\ feedJob[t].at = "write"
    BY <1>7, ThreadParts DEF Feeds!WriteAdvisory, TransactionInv, InBlock
  <2>2. PICK left \in SUBSET Records : left = feedJob[t].left
    BY <2>1, ThreadParts DEF TransactionInv
  <2>3. /\ depth[c] = 1 /\ t \in Importers /\ Unclaimed(e)
        /\ feedTx[c] = Claimed(e, Covers[e] \ left) /\ left \subseteq Covers[e]
    BY <1>1, <2>1, <2>2 DEF ThreadAlone, InBlock
  <2>4. CASE left = {} /\ Feeds!Goto(t, [at |-> "leave", envelope |-> e]) /\ UNCHANGED <<feedDb, feedTx, depth, feedAnswers>>
    <3> DEFINE next == [at |-> "leave", envelope |-> e]
    <3>1. next \in Feeds!Job /\ Covers[e] \ left = Covers[e]
      BY <2>4 DEF Feeds!Job
    <3>2. feedTx' = [feedTx EXCEPT ![c] = feedTx[c]] /\ depth' = [depth EXCEPT ![c] = 1] /\ feedTx[c] \in {NoTx} \cup Feeds!Database
      BY <1>2, <2>3, <2>4
    <3>3. feedJob'[t] = next /\ feedTx'[c] = feedTx[c] /\ depth'[c] = 1 => ThreadAlone(t)'
      BY <2>3, <2>4, <3>1 DEF ThreadAlone, InBlock, Unclaimed, Claimed
    <3> QED
      BY <1>1, <1>2, <1>3, <1>4, <2>4, <3>1, <3>2, <3>3, ThreadsStay
  <2>5. ASSUME NEW r \in left, Feeds!CommitUnlessNested(c, [Feeds!View(c) EXCEPT !.catalog[r] = e]),
               Feeds!Goto(t, [feedJob[t] EXCEPT !.left = @ \ {r}]), UNCHANGED <<depth, feedAnswers>>
        PROVE  TransactionInv'
    <3> DEFINE next == [at |-> "write", envelope |-> e, left |-> left \ {r}]
               new == Claimed(e, Covers[e] \ (left \ {r}))
    <3>1. next \in Feeds!Job /\ [feedJob[t] EXCEPT !.left = @ \ {r}] = next
      <4>1. left \ {r} \in SUBSET Records
        OBVIOUS
      <4>2. next \in Feeds!Job
        BY <4>1 DEF Feeds!Job
      <4>3. feedJob[t] \in [at : {"write"}, envelope : Envelopes, left : SUBSET Records]
        BY <1>1, <2>1 DEF Feeds!Job, Feeds!Idle
      <4>4. feedJob[t] = [at |-> "write", envelope |-> e, left |-> left]
        BY <2>1, <2>2, <4>3
      <4>5. [[at |-> "write", envelope |-> e, left |-> left] EXCEPT !.left = @ \ {r}] = next
        OBVIOUS
      <4> QED
        BY <4>2, <4>4, <4>5, Zenon
    <3>2. Feeds!View(c) = Claimed(e, Covers[e] \ left) /\ new \in Feeds!Database /\ Covers[e] \in SUBSET Records
      BY <1>1, <2>3, ClaimedIsTyped DEF Feeds!View, Feeds!TransactionAssumption
    <3>3. [Feeds!View(c) EXCEPT !.catalog[r] = e] = new
      <4> DEFINE before == [q \in Records |-> IF q \in Covers[e] \ left THEN e ELSE feedDb.catalog[q]]
                 after == [q \in Records |-> IF q \in Covers[e] \ (left \ {r}) THEN e ELSE feedDb.catalog[q]]
      <4>1. [before EXCEPT ![r] = e] = after
        BY <2>2, <2>3
      <4>2. Feeds!View(c) = [snapshots |-> feedDb.snapshots \cup {e}, rows |-> feedDb.rows, catalog |-> before]
        BY <3>2 DEF Claimed
      <4>3. new = [snapshots |-> feedDb.snapshots \cup {e}, rows |-> feedDb.rows, catalog |-> after]
        BY DEF Claimed
      <4>4. \A s, q, f : [[snapshots |-> s, rows |-> q, catalog |-> f] EXCEPT !.catalog[r] = e]
                        = [snapshots |-> s, rows |-> q, catalog |-> [f EXCEPT ![r] = e]]
        OBVIOUS
      <4> HIDE DEF before, after, new
      <4>5. [[snapshots |-> feedDb.snapshots \cup {e}, rows |-> feedDb.rows, catalog |-> before] EXCEPT !.catalog[r] = e]
            = new
        BY <4>1, <4>3, <4>4
      <4> QED
        BY <4>2, <4>5, Zenon
    <3>4. /\ feedTx' = [feedTx EXCEPT ![c] = new] /\ feedDb' = feedDb /\ Feeds!MayWrite(c) /\ depth' = [depth EXCEPT ![c] = 1]
          /\ feedAnswers' = feedAnswers /\ Feeds!Goto(t, next)
      BY <1>2, <2>3, <2>5, <3>1, <3>3 DEF Feeds!Write, Feeds!CommitUnlessNested
    <3>5. feedJob'[t] = next /\ feedTx'[c] = new /\ depth'[c] = 1 => ThreadAlone(t)'
      BY <2>3, <3>4 DEF ThreadAlone, InBlock, Unclaimed, Claimed
    <3> QED
      BY <1>1, <1>3, <1>4, <3>1, <3>2, <3>4, <3>5, ThreadsStay
  <2> QED
    BY <1>7, <2>1, <2>2, <2>4, <2>5 DEF Feeds!WriteAdvisory
<1>8. ASSUME Feeds!Fail(t)
      PROVE  TransactionInv'
  <2>1. PICK e \in Envelopes : e = feedJob[t].envelope /\ feedJob[t].at \in {"claim", "write"}
    BY <1>8, ThreadParts DEF Feeds!Fail, TransactionInv, InBlock
  <2> DEFINE next == [at |-> "abort", envelope |-> e]
  <2>2. depth[c] = 1 /\ t \in Importers /\ next \in Feeds!Job
    BY <1>1, <2>1 DEF ThreadAlone, InBlock, Feeds!Job
  <2>3. /\ feedTx' = [feedTx EXCEPT ![c] = feedTx[c]] /\ depth' = [depth EXCEPT ![c] = 1] /\ feedDb' = feedDb
        /\ feedAnswers' = feedAnswers /\ Feeds!Goto(t, next)
    BY <1>2, <1>8, <2>1, <2>2 DEF Feeds!Fail
  <2>4. feedJob'[t] = next /\ feedTx'[c] = feedTx[c] /\ depth'[c] = 1 => ThreadAlone(t)'
    BY <2>2 DEF ThreadAlone, InBlock
  <2> QED
    BY <1>1, <1>2, <1>3, <1>4, <2>2, <2>3, <2>4, ThreadsStay
<1>9. ASSUME Feeds!Abort(t)
      PROVE  TransactionInv'
  <2>1. feedJob[t].at = "abort" /\ depth[c] = 1
    BY <1>1, <1>9 DEF Feeds!Abort, ThreadAlone, InBlock
  <2>2. /\ feedTx' = [feedTx EXCEPT ![c] = NoTx] /\ depth' = [depth EXCEPT ![c] = 0] /\ feedDb' = feedDb
        /\ feedAnswers' = feedAnswers /\ Feeds!Goto(t, Feeds!Idle) /\ Feeds!Idle \in Feeds!Job
    BY <1>9, <2>1 DEF Feeds!Abort, Feeds!Rollback, Feeds!Job
  <2>3. feedJob'[t] = Feeds!Idle /\ feedTx'[c] = NoTx /\ depth'[c] = 0 => ThreadAlone(t)'
    BY DEF ThreadAlone, InBlock, Feeds!Idle
  <2> QED
    BY <1>1, <1>3, <1>4, <2>2, <2>3, ThreadsStay
<1>10. ASSUME Feeds!Leave(t)
       PROVE  TransactionInv'
  <2>1. PICK e \in Envelopes : e = feedJob[t].envelope /\ feedJob[t].at = "leave"
    BY <1>10, ThreadParts DEF Feeds!Leave, TransactionInv, InBlock
  <2> DEFINE next == [at |-> "reply", envelope |-> e]
  <2>2. next \in Feeds!Job /\ [feedJob[t] EXCEPT !.at = "reply"] = next
    BY <1>1, <2>1 DEF Feeds!Job, Feeds!Idle
  <2>3. depth[c] = 1 /\ feedTx[c] = Claimed(e, Covers[e]) /\ feedTx[c] \in Feeds!Database /\ feedTx[c] # NoTx
    BY <1>1, <2>1, ClaimedIsTyped DEF ThreadAlone, InBlock, Feeds!TransactionAssumption
  <2>4. /\ feedTx' = [feedTx EXCEPT ![c] = NoTx] /\ depth' = [depth EXCEPT ![c] = 0] /\ feedDb' = Claimed(e, Covers[e])
        /\ feedAnswers' = feedAnswers /\ Feeds!Goto(t, next)
    BY <1>10, <2>2, <2>3 DEF Feeds!Leave, Feeds!Commit, Feeds!View
  <2>5. e \in feedDb'.snapshots /\ feedDb.snapshots \subseteq feedDb'.snapshots /\ feedDb.rows \subseteq feedDb'.rows
    BY <2>4 DEF Claimed
  <2>6. feedJob'[t] = next /\ feedTx'[c] = NoTx /\ depth'[c] = 0 => ThreadAlone(t)'
    BY <2>5 DEF ThreadAlone, InBlock
  <2> QED
    BY <1>1, <1>3, <1>4, <2>2, <2>3, <2>4, <2>5, <2>6, ThreadsStay
<1>11. ASSUME NEW row \in Rows, Feeds!Record(t, row)
       PROVE  TransactionInv'
  <2> DEFINE next == [at |-> "commit", row |-> row]
             new == [feedDb EXCEPT !.rows = @ \cup {row}]
  <2>1. next \in Feeds!Job /\ Feeds!Goto(t, next) /\ feedJob[t].at = "idle"
    BY <1>11 DEF Feeds!Record, Feeds!Job, Feeds!Idle
  <2>2. depth[c] = 0 /\ Feeds!View(c) = feedDb /\ new \in Feeds!Database
    BY <1>1, <2>1 DEF ThreadAlone, InBlock, Feeds!View, Feeds!Database
  <2>3. /\ feedTx' = [feedTx EXCEPT ![c] = new] /\ depth' = [depth EXCEPT ![c] = 0] /\ feedDb' = feedDb
        /\ feedAnswers' = feedAnswers /\ Feeds!MayWrite(c)
    BY <1>2, <1>11, <2>2 DEF Feeds!Record, Feeds!Write
  <2>4. feedJob'[t] = next /\ feedTx'[c] = new /\ depth'[c] = 0 => ThreadAlone(t)'
    BY <2>3 DEF ThreadAlone, InBlock
  <2> QED
    BY <1>1, <1>3, <1>4, <2>1, <2>2, <2>3, <2>4, ThreadsStay
<1>12. ASSUME Feeds!CommitRow(t)
       PROVE  TransactionInv'
  <2>1. PICK row \in Rows : row = feedJob[t].row /\ feedJob[t].at = "commit"
    BY <1>12, ThreadParts DEF Feeds!CommitRow, TransactionInv
  <2> DEFINE next == [at |-> "replyRow", row |-> row]
             new == [feedDb EXCEPT !.rows = @ \cup {row}]
  <2>2. next \in Feeds!Job /\ [feedJob[t] EXCEPT !.at = "replyRow"] = next
    BY <1>1, <2>1 DEF Feeds!Job, Feeds!Idle
  <2>3. depth[c] = 0 /\ feedTx[c] = new /\ new \in Feeds!Database /\ feedTx[c] # NoTx
    BY <1>1, <2>1 DEF ThreadAlone, InBlock, Feeds!TransactionAssumption, Feeds!Database
  <2>4. /\ feedTx' = [feedTx EXCEPT ![c] = NoTx] /\ depth' = [depth EXCEPT ![c] = 0] /\ feedDb' = new
        /\ feedAnswers' = feedAnswers /\ Feeds!Goto(t, next)
    BY <1>2, <1>12, <2>2, <2>3 DEF Feeds!CommitRow, Feeds!Commit, Feeds!View
  <2>5. row \in feedDb'.rows /\ feedDb'.snapshots = feedDb.snapshots /\ feedDb.rows \subseteq feedDb'.rows
    BY <1>1, <2>4 DEF Feeds!Database
  <2>6. feedJob'[t] = next /\ feedTx'[c] = NoTx /\ depth'[c] = 0 => ThreadAlone(t)'
    BY <2>5 DEF ThreadAlone, InBlock
  <2> QED
    BY <1>1, <1>3, <1>4, <2>2, <2>3, <2>4, <2>5, <2>6, ThreadsStay
<1>13. ASSUME Feeds!Reply(t)
       PROVE  TransactionInv'
  <2>1. feedJob[t].at \in {"reply", "replyRow"}
    BY <1>13 DEF Feeds!Reply
  <2>2. depth[c] = 0 /\ feedTx[c] = NoTx
    BY <1>1, <2>1 DEF ThreadAlone, InBlock
  <2>3. /\ feedTx' = [feedTx EXCEPT ![c] = NoTx] /\ depth' = [depth EXCEPT ![c] = 0] /\ feedDb' = feedDb
        /\ Feeds!Goto(t, Feeds!Idle) /\ Feeds!Idle \in Feeds!Job
    BY <1>2, <1>13, <2>2 DEF Feeds!Reply, Feeds!Job
  <2>4. feedAnswers' \subseteq (Envelopes \cup Rows) \cap (feedDb.snapshots \cup feedDb.rows)
    BY <1>1, <1>3, <1>13, ThreadParts DEF Feeds!Reply, ThreadAlone, TransactionInv
  <2>5. feedJob'[t] = Feeds!Idle /\ feedTx'[c] = NoTx /\ depth'[c] = 0 => ThreadAlone(t)'
    BY DEF ThreadAlone, InBlock, Feeds!Idle
  <2> QED
    BY <1>1, <1>4, <2>3, <2>4, <2>5, ThreadsStay
<1> QED
  BY <1>5, <1>6, <1>7, <1>8, <1>9, <1>10, <1>11, <1>12, <1>13

LEMMA TransactionInitHolds ==
    ASSUME Feeds!TransactionAssumption, Feeds!Init
    PROVE  TransactionInv
<1>1. \A t \in Feeds!Users : Conn[t] \in FeedConnections
  BY DEF Feeds!TransactionAssumption
<1>2. 0 \in 0..Feeds!Cardinality(Importers)
  <2>1. Feeds!Cardinality(Importers) = Cardinality(Importers)
    BY DEF Cardinality, Feeds!Cardinality
  <2> QED
    BY <2>1, FS_CardinalityType DEF Feeds!TransactionAssumption, IsFiniteSet, Feeds!IsFiniteSet
<1>3. Feeds!TypeOK
  BY <1>2 DEF Feeds!Init, Feeds!TypeOK, Feeds!Database, Feeds!Job
<1> QED
  BY <1>1, <1>3 DEF Feeds!Init, TransactionInv, OneFeedWriter, ThreadAlone, InBlock, Feeds!Idle

LEMMA TransactionNextKeeps ==
    ASSUME Feeds!TransactionAssumption, Feeds!Separate, TransactionInv, [Feeds!Next]_(Feeds!vars)
    PROVE  TransactionInv'
<1>1. UNCHANGED Feeds!vars => TransactionInv'
  BY DEF Feeds!vars, TransactionInv, Feeds!TypeOK, OneFeedWriter, ThreadAlone, Unclaimed, Claimed
<1> QED
  BY <1>1, TransactionStepKeeps DEF Feeds!Next

LEMMA TransactionInvariance ==
    ASSUME Feeds!TransactionAssumption, Feeds!Separate
    PROVE  Feeds!Spec => []TransactionInv
<1>1. Feeds!Init => TransactionInv
  BY TransactionInitHolds
<1>2. TransactionInv /\ [Feeds!Next]_(Feeds!vars) => TransactionInv'
  BY TransactionNextKeeps
<1> QED
  BY <1>1, <1>2, PTL DEF Feeds!Spec

(* Between processes, what a client was told of a feed or a row is stored, *)
(* whatever failed and was rolled back meanwhile; the state is well typed. *)
THEOREM AcknowledgedStaysStored ==
    ASSUME Feeds!TransactionAssumption, Feeds!Separate
    PROVE  Feeds!Spec => []Feeds!AcknowledgedIsStored
<1>1. TransactionInv => Feeds!AcknowledgedIsStored
  BY DEF TransactionInv, Feeds!AcknowledgedIsStored
<1> QED
  BY <1>1, TransactionInvariance, PTL

(* A step of any thread commits one feed with all its advisories, under a  *)
(* sequence nobody has, or nothing of the catalog.                         *)
LEMMA BlockIsOneStep ==
    ASSUME Feeds!TransactionAssumption, Feeds!Separate, TransactionInv, [Feeds!Next]_(Feeds!vars)
    PROVE  [\E e \in Envelopes : Feeds!Promise!Store(e)]_(Feeds!Promise!catalogVars)
<1> SUFFICES \/ \E e \in Envelopes : Feeds!Promise!Store(e)
             \/ feedDb'.snapshots = feedDb.snapshots /\ feedDb'.catalog = feedDb.catalog
  BY DEF Feeds!Promise!catalogVars
<1>1. CASE UNCHANGED Feeds!vars
  BY <1>1 DEF Feeds!vars
<1>2. CASE Feeds!Next
  <2>1. PICK t \in Feeds!Users :
          \/ \E e \in Envelopes : Feeds!Enter(t, e)
          \/ Feeds!ClaimSequence(t) \/ Feeds!WriteAdvisory(t) \/ Feeds!Fail(t) \/ Feeds!Abort(t) \/ Feeds!Leave(t)
          \/ \E row \in Rows : Feeds!Record(t, row)
          \/ Feeds!CommitRow(t) \/ Feeds!Reply(t)
    BY <1>2 DEF Feeds!Next
  <2>2. ThreadAlone(t) /\ feedDb \in Feeds!Database
    BY DEF TransactionInv, Feeds!TypeOK
  <2>3. CASE Feeds!Leave(t)
    <3>1. PICK e \in Envelopes : e = feedJob[t].envelope /\ feedJob[t].at = "leave"
      BY <2>3, ThreadParts DEF Feeds!Leave, TransactionInv, InBlock
    <3>2. depth[Conn[t]] = 1 /\ feedTx[Conn[t]] = Claimed(e, Covers[e]) /\ Unclaimed(e)
      BY <2>2, <3>1 DEF ThreadAlone, InBlock
    <3>3. feedDb' = Claimed(e, Covers[e]) \/ feedDb' = feedDb
      BY <2>3, <3>2 DEF Feeds!Leave, Feeds!Commit, Feeds!View
    <3>4. ASSUME feedDb' = Claimed(e, Covers[e])
          PROVE  Feeds!Promise!Store(e)
      <4>1. /\ feedDb'.snapshots = feedDb.snapshots \cup {e}
            /\ feedDb'.catalog = [r \in Records |-> IF r \in Covers[e] THEN e ELSE feedDb.catalog[r]]
        BY <3>4 DEF Claimed
      <4> QED
        BY <3>2, <4>1 DEF Unclaimed, Feeds!Promise!Store
    <3> QED
      BY <3>3, <3>4
  <2>4. CASE Feeds!CommitRow(t)
    <3>1. feedTx[Conn[t]] = [feedDb EXCEPT !.rows = @ \cup {feedJob[t].row}]
      BY <2>2, <2>4 DEF Feeds!CommitRow, ThreadAlone
    <3>2. feedDb' = feedDb \/ feedDb' = [feedDb EXCEPT !.rows = @ \cup {feedJob[t].row}]
      BY <2>4, <3>1 DEF Feeds!CommitRow, Feeds!Commit, Feeds!View
    <3> QED
      BY <2>2, <3>2 DEF Feeds!Database
  <2>5. CASE \/ \E e \in Envelopes : Feeds!Enter(t, e)
             \/ Feeds!Fail(t) \/ Feeds!Abort(t) \/ Feeds!Reply(t)
             \/ \E row \in Rows : Feeds!Record(t, row)
    BY <2>5 DEF Feeds!Enter, Feeds!Fail, Feeds!Abort, Feeds!Reply, Feeds!Record, Feeds!Rollback, Feeds!Write
  <2>6. CASE Feeds!ClaimSequence(t) \/ Feeds!WriteAdvisory(t)
    <3>1. depth[Conn[t]] = 1
      BY <2>2, <2>6 DEF Feeds!ClaimSequence, Feeds!WriteAdvisory, ThreadAlone, InBlock
    <3>2. \A new : Feeds!CommitUnlessNested(Conn[t], new) => feedDb' = feedDb
      BY <3>1 DEF Feeds!CommitUnlessNested, Feeds!Write
    <3>3. Feeds!ClaimSequence(t) => feedDb' = feedDb
      BY <3>2 DEF Feeds!ClaimSequence
    <3>4. Feeds!WriteAdvisory(t) => feedDb' = feedDb
      BY <3>2 DEF Feeds!WriteAdvisory
    <3> QED
      BY <2>6, <3>3, <3>4
  <2> QED
    BY <2>1, <2>3, <2>4, <2>5, <2>6
<1> QED
  BY <1>1, <1>2

(* And "a failed import never leaves a claimed sequence over an incomplete *)
(* catalog": what the block commits is one feed with all its advisories,   *)
(* under a sequence nobody has, as AtomicCatalog promises.                 *)
THEOREM BlockIsAtomic ==
    ASSUME Feeds!TransactionAssumption, Feeds!Separate
    PROVE  Feeds!Spec => Feeds!KeepsPromise
<1>1. TransactionInv /\ [Feeds!Next]_(Feeds!vars)
      => [\E e \in Envelopes : Feeds!Promise!Store(e)]_(Feeds!Promise!catalogVars)
  BY BlockIsOneStep
<1> QED
  BY <1>1, TransactionInvariance, PTL DEF Feeds!Spec, Feeds!KeepsPromise
-----------------------------------------------------------------------------
(* The four together: each keeps what the proofs above keep of it, and     *)
(* what a behaviour is not about stays as it was.                          *)
storeVars == <<stored, decisionVars, ledgerVars, feedVars>>

StoresInv ==
    /\ stored = "postgres" => PgInv /\ PgSeparateInv
    /\ stored # "postgres" => StoreInv /\ SeparateInv
    /\ LedgerInv /\ AnswersPlaced /\ TransactionInv

LEMMA StoresInitHolds == StoreInit => StoresInv
<1> SUFFICES ASSUME StoreInit PROVE StoresInv
  OBVIOUS
<1>1. stored = "postgres" => PgInv /\ PgSeparateInv
  BY PgInitHolds, SharedStoreAssumption DEF StoreInit
<1>2. stored # "postgres" => StoreInv /\ SeparateInv
  BY InitHolds, SharedStoreAssumption DEF StoreInit
<1>3. LedgerInv /\ AnswersPlaced
  BY LedgerInitEstablishes, NothingToPlace DEF StoreInit
<1>4. TransactionInv
  BY TransactionInitHolds, SharedStoreAssumption DEF StoreInit
<1> QED
  BY <1>1, <1>2, <1>3, <1>4 DEF StoresInv

(* A step of one of them is a stutter of the others.                       *)
LEMMA OneOfFour ==
    ASSUME [StoreNext]_storeVars
    PROVE  /\ stored' = stored /\ [Ledger!Next]_(Ledger!vars) /\ [Feeds!Next]_(Feeds!vars)
           /\ stored = "postgres" => [Postgres!Next]_(Postgres!vars)
           /\ stored # "postgres" => [Next]_vars
           /\ stored \notin {"sessions", "postgres"} => UNCHANGED <<conn, db>>
<1>1. CASE StoreNext
  <2>1. CASE stored = "sessions"
    BY <1>1, <2>1 DEF StoreNext, ledgerVars, feedVars, Ledger!vars, Feeds!vars
  <2>2. CASE stored = "postgres"
    BY <1>1, <2>2 DEF StoreNext, ledgerVars, feedVars, Ledger!vars, Feeds!vars
  <2>3. CASE stored = "ledger"
    BY <1>1, <2>3 DEF StoreNext, decisionVars, feedVars, vars, Postgres!vars, Feeds!vars
  <2>4. CASE stored = "feeds"
    BY <1>1, <2>4 DEF StoreNext, decisionVars, ledgerVars, vars, Postgres!vars, Ledger!vars
  <2> QED
    BY <1>1, <2>1, <2>2, <2>3, <2>4 DEF StoreNext
<1>2. CASE UNCHANGED storeVars
  BY <1>2
  DEF storeVars, decisionVars, ledgerVars, feedVars, vars, Postgres!vars, Ledger!vars, Feeds!vars
<1> QED
  BY <1>1, <1>2

LEMMA StoresStepKeeps == StoresInv /\ [StoreNext]_storeVars => StoresInv'
<1> SUFFICES ASSUME StoresInv, [StoreNext]_storeVars PROVE StoresInv'
  OBVIOUS
<1>1. stored' = "postgres" => PgInv' /\ PgSeparateInv'
  BY OneOfFour, PgNextKeeps, SharedStoreAssumption DEF StoresInv
<1>2. stored' # "postgres" => StoreInv' /\ SeparateInv'
  BY OneOfFour, NextKeeps, SharedStoreAssumption DEF StoresInv
<1>3. LedgerInv' /\ AnswersPlaced'
  BY OneOfFour, LedgerStepKeeps, AnswersStayPlaced DEF StoresInv
<1>4. TransactionInv'
  BY OneOfFour, TransactionNextKeeps, SharedStoreAssumption DEF StoresInv
<1> QED
  BY <1>1, <1>2, <1>3, <1>4 DEF StoresInv

LEMMA StoresInvariance == StoreSpec => []StoresInv
  BY StoresInitHolds, StoresStepKeeps, PTL DEF StoreSpec, storeVars

(* What a client was told of a decision, a feed or a row is stored, when   *)
(* processes have connections of their own, with either store; and a       *)
(* request is decided once, whoever shares a connection.                   *)
THEOREM AnswersStayStored == StoreSpec => []AnswersAreStored
<1>1. StoresInv => AnswersAreStored
  <2> SUFFICES ASSUME StoresInv PROVE AnswersAreStored
    OBVIOUS
  <2>1. stored = "sessions" => AnswersPersisted /\ DecidedOnce
    BY DEF StoresInv, StoreInv, SeparateInv, Kept, OneWriter, SameId, AnswersPersisted, DecidedOnce
  <2>2. stored = "postgres" => Postgres!AnswersPersisted /\ Postgres!DecidedOnce
    BY DEF StoresInv, PgInv, PgTypes, PgDistinct, SameId, PgSeparateInv, Kept,
           Postgres!AnswersPersisted, Postgres!DecidedOnce
  <2>3. Feeds!AcknowledgedIsStored
    BY DEF StoresInv, TransactionInv, Feeds!AcknowledgedIsStored
  <2> QED
    BY <2>1, <2>2, <2>3 DEF AnswersAreStored
<1> QED
  BY <1>1, StoresInvariance, PTL

(* Between processes, with either store, a session never grants more       *)
(* external calls than its limit.                                          *)
THEOREM BudgetsKept == StoreSpec => [](Separate => CountersAtomic)
<1>1. StoresInv => (Separate => CountersAtomic)
  BY SameTerms DEF StoresInv, SeparateInv, PgSeparateInv, Kept, CountersAtomic
<1> QED
  BY <1>1, StoresInvariance, PTL

(* verify_chain accepts the ledger in every reachable state, and its       *)
(* entries are numbered without a gap: only something outside the program  *)
(* breaks the chain.                                                       *)
THEOREM ChainsVerify == StoreSpec => []Verifiable
<1>1. StoresInv => Verifiable
  BY DEF StoresInv, LedgerInv, Built, Numbered, Verifiable, Ledger!Verifiable
<1> QED
  BY <1>1, StoresInvariance, PTL

(* Whoever finds a receipt's entry in the ledger has the whole history the *)
(* receipt was issued over.                                                *)
THEOREM ReceiptsTellThePast == StoreSpec => []ReceiptsCommit
<1>1. StoresInv => ReceiptsCommit
  BY DEF StoresInv, LedgerInv, Built, Historic, ReceiptsCommit, Ledger!ReceiptsCommit
<1> QED
  BY <1>1, StoresInvariance, PTL

(* The two contracts of decisions are one.                                 *)
LEMMA OneContract ==
    /\ Postgres!Contract!Next <=> Contract!Next
    /\ UNCHANGED Postgres!Contract!contractVars <=> UNCHANGED Contract!contractVars
<1>1. Postgres!Contract!Ruling = Contract!Ruling
  BY SamePhase DEF Contract!Ruling, Postgres!Contract!Ruling, Decisions, Postgres!Decisions
<1>2. Postgres!TheSession = TheSession
  BY SamePhase
<1>3. ASSUME Contract!Next PROVE Postgres!Contract!Next
  <2>1. CASE \E s \in TheSession : Contract!Open(s) \/ Contract!Stop(s)
    BY <1>2, <2>1
    DEF Postgres!Contract!Next, Postgres!Contract!Open, Contract!Open, Postgres!Contract!Stop, Contract!Stop,
        Postgres!Phase, Phase, Postgres!TheSession, TheSession, Postgres!Ruling, Ruling
  <2>2. ASSUME NEW r \in Contract!Ruling, Contract!Rule(r)
        PROVE  Postgres!Contract!Next
    BY <1>1, <2>2, SameRule DEF Postgres!Contract!Next
  <2> QED
    BY <1>3, <2>1, <2>2 DEF Contract!Next
<1>4. ASSUME Postgres!Contract!Next PROVE Contract!Next
  <2>1. CASE \E s \in TheSession : Postgres!Contract!Open(s) \/ Postgres!Contract!Stop(s)
    BY <2>1
    DEF Contract!Next, Postgres!Contract!Open, Contract!Open, Postgres!Contract!Stop, Contract!Stop,
        Postgres!Phase, Phase, Postgres!TheSession, TheSession, Postgres!Ruling, Ruling
  <2>2. ASSUME NEW r \in Contract!Ruling, Postgres!Contract!Rule(r)
        PROVE  Contract!Next
    BY <2>2, SameRule DEF Contract!Next
  <2> QED
    BY <1>1, <1>2, <1>4, <2>1, <2>2 DEF Postgres!Contract!Next
<1>5. UNCHANGED Postgres!Contract!contractVars <=> UNCHANGED Contract!contractVars
  BY DEF Postgres!Contract!contractVars, Contract!contractVars, Postgres!Phase, Phase,
         Postgres!TheSession, TheSession, Postgres!Ruling, Ruling
<1> QED
  BY <1>3, <1>4, <1>5

(* Between processes, the statements of a decision are the steps of the    *)
(* contract of the runtime guard with either store: the limit is spent by  *)
(* one commit at a time.  And "a failed import never leaves a claimed      *)
(* sequence over an incomplete catalog": what a block commits is one feed  *)
(* with all its advisories, under a sequence nobody has.                   *)
THEOREM StatementsAreSteps == StoreSpec => StatementsKeepContracts
<1>1. StoresInv /\ [StoreNext]_storeVars
      => /\ [Separate => Contract!Next]_(Contract!contractVars)
         /\ [Postgres!Separate => Postgres!Contract!Next]_(Postgres!Contract!contractVars)
         /\ [\E e \in Envelopes : Feeds!Promise!Store(e)]_(Feeds!Promise!catalogVars)
  <2> SUFFICES ASSUME StoresInv, [StoreNext]_storeVars
               PROVE  /\ Separate => Contract!Next \/ UNCHANGED Contract!contractVars
                      /\ [\E e \in Envelopes : Feeds!Promise!Store(e)]_(Feeds!Promise!catalogVars)
    BY OneContract, SameTerms
  <2>1. ASSUME Separate
        PROVE  Contract!Next \/ UNCHANGED Contract!contractVars
    <3>1. CASE stored = "postgres"
      BY <2>1, <3>1, OneOfFour, PgStatementIsAStep, OneContract, SameTerms, SharedStoreAssumption
      DEF StoresInv
    <3>2. CASE stored # "postgres"
      BY <2>1, <3>2, OneOfFour, StatementIsAStep, SharedStoreAssumption DEF StoresInv
    <3> QED
      BY <3>1, <3>2
  <2>2. [\E e \in Envelopes : Feeds!Promise!Store(e)]_(Feeds!Promise!catalogVars)
    BY OneOfFour, BlockIsOneStep, SharedStoreAssumption DEF StoresInv
  <2> QED
    BY <2>1, <2>2
<1> QED
  BY <1>1, StoresInvariance, PTL
  DEF StoreSpec, storeVars, StatementsKeepContracts, KeepsContract, Postgres!KeepsContract,
      Feeds!KeepsPromise

(* Until an outdated copy is saved, the handlers of a ledger implement the *)
(* append-only log of every invocation.                                    *)
THEOREM LedgerIsALog == StoreSpec => LedgerKeepsPromise
<1>1. StoreInit => Ledger!Log!Init
  BY LogInitHolds DEF StoreInit
<1>2. StoresInv /\ [StoreNext]_storeVars
      => [~overlapped' => Ledger!Log!Next]_(Ledger!Log!logVars)
  BY OneOfFour, SaveIsARecord DEF StoresInv
<1> QED
  BY <1>1, <1>2, StoresInvariance, PTL
  DEF StoreSpec, storeVars, LedgerKeepsPromise, Ledger!KeepsPromise
=============================================================================
