------------------------- MODULE SharedTransaction -------------------------
(***************************************************************************)
(* DataStore.transaction(), one SQL statement at a time.  Writes inside    *)
(* the block leave the commit to its end, which a counter of the store     *)
(* tells; but the counter, like the connection, belongs to every thread of *)
(* the process, and most store calls commit without asking it.             *)
(*                                                                         *)
(* Importers are threads in the block of import_signed_feed; recorders are *)
(* threads in a call such as upsert_risk_observation, which writes a row   *)
(* and commits.  Conn says which connection a thread uses: one for each    *)
(* thread stands for processes that share the database file.  execute() is *)
(* one step, and so is the update of the counter.                          *)
(***************************************************************************)
EXTENDS Integers, FiniteSets

CONSTANTS Importers, Recorders, Connections,
          Conn,         \* [Importers \cup Recorders -> Connections]
          Envelopes, Records,
          Sequence,     \* [Envelopes -> sequence]
          Covers,       \* [Envelopes -> records of its advisories]
          Rows,         \* what recorders write
          Absent, NoTx

Users == Importers \cup Recorders

VARIABLES db,        \* what is committed: [snapshots, catalog, rows]
          tx,        \* [Connections -> NoTx or what its transaction sees]
          depth,     \* [Connections -> _tx_depth]
          job,       \* [Users -> where the thread is]
          answers    \* history: envelopes and rows reported as stored

vars == <<db, tx, depth, job, answers>>

Database == [snapshots : SUBSET Envelopes, catalog : [Records -> Envelopes \cup {Absent}],
             rows : SUBSET Rows]

(* What the proofs, and every instance, take the constants to be.          *)
TransactionAssumption ==
    /\ Importers \cap Recorders = {} /\ IsFiniteSet(Importers)
    /\ Conn \in [Users -> Connections] /\ Covers \in [Envelopes -> SUBSET Records]
    /\ NoTx \notin Database

(* Threads of different processes: a connection for each.                  *)
Separate == \A t, u \in Users : Conn[t] = Conn[u] => t = u

Idle == [at |-> "idle"]
Job == {Idle}
       \cup [at : {"claim", "leave", "abort", "reply"}, envelope : Envelopes]
       \cup [at : {"write"}, envelope : Envelopes, left : SUBSET Records]
       \cup [at : {"commit", "replyRow"}, row : Rows]

TypeOK ==
    /\ db \in Database
    /\ tx \in [Connections -> {NoTx} \cup Database]
    /\ depth \in [Connections -> 0..Cardinality(Importers)]
    /\ job \in [Users -> Job]
    /\ answers \subseteq Envelopes \cup Rows

Init ==
    /\ db = [snapshots |-> {}, catalog |-> [r \in Records |-> Absent], rows |-> {}]
    /\ tx = [c \in Connections |-> NoTx]
    /\ depth = [c \in Connections |-> 0]
    /\ job = [t \in Users |-> Idle]
    /\ answers = {}
-----------------------------------------------------------------------------
(* A statement sees the open transaction of its connection, or else what   *)
(* is committed; one connection at a time has a transaction that writes.   *)
View(c) == IF tx[c] = NoTx THEN db ELSE tx[c]
MayWrite(c) == \A d \in Connections \ {c} : tx[d] = NoTx
Write(c, new) == MayWrite(c) /\ tx' = [tx EXCEPT ![c] = new] /\ UNCHANGED db
Commit(c) == db' = View(c) /\ tx' = [tx EXCEPT ![c] = NoTx]
Rollback(c) == tx' = [tx EXCEPT ![c] = NoTx] /\ UNCHANGED db

Goto(t, next) == job' = [job EXCEPT ![t] = next]

(* _commit                                                                 *)
CommitUnlessNested(c, new) ==
    IF depth[c] = 0 THEN MayWrite(c) /\ db' = new /\ tx' = [tx EXCEPT ![c] = NoTx]
    ELSE Write(c, new)

EnterUncounted(t, e) ==          \* mutant: the block does not count itself
    /\ t \in Importers /\ job[t] = Idle
    /\ Goto(t, [at |-> "claim", envelope |-> e])
    /\ UNCHANGED <<db, tx, depth, answers>>

(* with self.datastore.transaction():                                      *)
Enter(t, e) ==
    /\ t \in Importers /\ job[t] = Idle
    /\ depth' = [depth EXCEPT ![Conn[t]] = @ + 1]
    /\ Goto(t, [at |-> "claim", envelope |-> e])
    /\ UNCHANGED <<db, tx, answers>>

(* save_advisory_feed_snapshot: INSERT under UNIQUE(feed_id, sequence).    *)
ClaimSequence(t) ==
    /\ job[t].at = "claim"
    /\ LET c == Conn[t]
           e == job[t].envelope
           v == View(c)
       IN /\ \A f \in v.snapshots : Sequence[f] # Sequence[e]
          /\ CommitUnlessNested(c, [v EXCEPT !.snapshots = @ \cup {e}])
          /\ Goto(t, [at |-> "write", envelope |-> e, left |-> Covers[e]])
    /\ UNCHANGED <<depth, answers>>

(* save_advisory: an upsert for every record.                              *)
WriteAdvisory(t) ==
    /\ job[t].at = "write"
    /\ \/ /\ job[t].left = {}
          /\ Goto(t, [at |-> "leave", envelope |-> job[t].envelope])
          /\ UNCHANGED <<db, tx>>
       \/ \E r \in job[t].left :
             /\ CommitUnlessNested(Conn[t],
                    [View(Conn[t]) EXCEPT !.catalog[r] = job[t].envelope])
             /\ Goto(t, [job[t] EXCEPT !.left = @ \ {r}])
    /\ UNCHANGED <<depth, answers>>

(* A statement of the block fails: the sequence is taken, the database is  *)
(* locked or full.                                                         *)
Fail(t) ==
    /\ job[t].at \in {"claim", "write"}
    /\ Goto(t, [at |-> "abort", envelope |-> job[t].envelope])
    /\ UNCHANGED <<db, tx, depth, answers>>

AbortCommitting(t) ==            \* mutant: the counter reaching 0 always commits
    /\ job[t].at = "abort"
    /\ depth' = [depth EXCEPT ![Conn[t]] = @ - 1]
    /\ IF depth[Conn[t]] = 1 THEN Commit(Conn[t]) ELSE UNCHANGED <<db, tx>>
    /\ Goto(t, Idle)
    /\ UNCHANGED answers

(* except: the counter falls, and at 0 the connection rolls back.          *)
Abort(t) ==
    /\ job[t].at = "abort"
    /\ depth' = [depth EXCEPT ![Conn[t]] = @ - 1]
    /\ IF depth[Conn[t]] = 1 THEN Rollback(Conn[t]) ELSE UNCHANGED <<db, tx>>
    /\ Goto(t, Idle)
    /\ UNCHANGED answers

LeaveUncommitted(t) ==           \* mutant: the end of the block does not commit
    /\ job[t].at = "leave"
    /\ depth' = [depth EXCEPT ![Conn[t]] = @ - 1]
    /\ Goto(t, [job[t] EXCEPT !.at = "reply"])
    /\ UNCHANGED <<db, tx, answers>>

(* else: the counter falls, and at 0 the connection commits.               *)
Leave(t) ==
    /\ job[t].at = "leave"
    /\ depth' = [depth EXCEPT ![Conn[t]] = @ - 1]
    /\ IF depth[Conn[t]] = 1 THEN Commit(Conn[t]) ELSE UNCHANGED <<db, tx>>
    /\ Goto(t, [job[t] EXCEPT !.at = "reply"])
    /\ UNCHANGED answers

(* A recorder writes its row, and commits whatever the connection has.     *)
Record(t, row) ==
    /\ t \in Recorders /\ job[t] = Idle /\ row \notin View(Conn[t]).rows
    /\ Write(Conn[t], [View(Conn[t]) EXCEPT !.rows = @ \cup {row}])
    /\ Goto(t, [at |-> "commit", row |-> row])
    /\ UNCHANGED <<depth, answers>>

CommitRow(t) ==
    /\ job[t].at = "commit"
    /\ Commit(Conn[t])
    /\ Goto(t, [job[t] EXCEPT !.at = "replyRow"])
    /\ UNCHANGED <<depth, answers>>

Reply(t) ==
    /\ \/ job[t].at = "reply" /\ answers' = answers \cup {job[t].envelope}
       \/ job[t].at = "replyRow" /\ answers' = answers \cup {job[t].row}
    /\ Goto(t, Idle)
    /\ UNCHANGED <<db, tx, depth>>

Next == \E t \in Users :
           \/ \E e \in Envelopes : Enter(t, e)
           \/ ClaimSequence(t) \/ WriteAdvisory(t) \/ Fail(t) \/ Abort(t) \/ Leave(t)
           \/ \E row \in Rows : Record(t, row)
           \/ CommitRow(t) \/ Reply(t)

Spec == Init /\ [][Next]_vars
-----------------------------------------------------------------------------
(* What a client was told is stored, is stored; the state is well typed.   *)
AcknowledgedIsStored == TypeOK /\ answers \subseteq db.snapshots \cup db.rows

(* "a failed import never leaves a claimed sequence over an incomplete     *)
(* catalog": with a connection for each thread the block, however it ends, *)
(* is one step of the catalog or none, as AdvisoryFeed takes it to be.     *)
Promise == INSTANCE AtomicCatalog
    WITH snapshots <- db.snapshots, catalog <- db.catalog, Manual <- NoTx
KeepsPromise == [][\E e \in Envelopes : Promise!Store(e)]_(Promise!catalogVars)
=============================================================================
