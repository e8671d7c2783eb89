---------------------------- MODULE SharedStore ----------------------------
(***************************************************************************)
(* What handlers that share a store leave in it, one of four at a time:    *)
(* decisions of an agent session, statement by statement, with SQLite      *)
(* (SharedConnection) or with PostgreSQL (PostgresStore); the entries of   *)
(* an action ledger (ActionLedger); feeds and advisories, statement by     *)
(* statement (SharedTransaction).  Decisions are kept in one store or the  *)
(* other, so both modules say what happens to the same variables; the lock *)
(* of a connection is of the one, the lock of a session's row of the other.*)
(***************************************************************************)
EXTENDS SharedConnection

CONSTANTS Workers, Calls, Scans, MaxEntries,
          Importers, Recorders, FeedConnections, Conn, Envelopes, Records, Sequence, Covers, Rows, Absent

VARIABLES stored,    \* which of these this behaviour is about
          holder,    \* of PostgreSQL
          ledger, ledgerJob, receipts, overlapped,
          feedDb, feedTx, depth, feedJob, feedAnswers
decisionVars == <<conn, db, tx, job, lock, holder, answers>>
ledgerVars == <<ledger, ledgerJob, receipts, overlapped>>
feedVars == <<feedDb, feedTx, depth, feedJob, feedAnswers>>

Postgres == INSTANCE PostgresStore
Ledger == INSTANCE ActionLedger WITH job <- ledgerJob
Feeds == INSTANCE SharedTransaction
    WITH Connections <- FeedConnections, db <- feedDb, tx <- feedTx, job <- feedJob, answers <- feedAnswers

(* Importers and recorders are processes of their own.                     *)
ASSUME SharedStoreAssumption ==
    /\ StoreAssumption /\ Postgres!StoreAssumption /\ Layouts # {}
    /\ Ledger!LedgerAssumption
    /\ Feeds!TransactionAssumption /\ Feeds!Separate

StoreInit ==
    /\ stored \in {"sessions", "postgres", "ledger", "feeds"}
    /\ IF stored = "postgres" THEN Postgres!Init /\ lock = [c \in Connections |-> {}]
       ELSE Init /\ holder = NoTx
    /\ stored \notin {"sessions", "postgres"} => conn = CHOOSE layout \in Layouts : TRUE
    /\ Ledger!Init /\ Feeds!Init

StoreNext ==
    /\ UNCHANGED stored
    /\ \/ stored = "sessions" /\ Next /\ UNCHANGED <<holder, ledgerVars, feedVars>>
       \/ stored = "postgres" /\ Postgres!Next /\ UNCHANGED <<lock, ledgerVars, feedVars>>
       \/ stored = "ledger" /\ Ledger!Next /\ UNCHANGED <<decisionVars, feedVars>>
       \/ stored = "feeds" /\ Feeds!Next /\ UNCHANGED <<decisionVars, ledgerVars>>

StoreSpec == StoreInit /\ [][StoreNext]_<<stored, decisionVars, ledgerVars, feedVars>>
-----------------------------------------------------------------------------
(* What a client was told is stored, is stored, and a request is decided   *)
(* once.                                                                   *)
AnswersAreStored ==
    /\ stored = "sessions" => AnswersPersisted /\ DecidedOnce
    /\ stored = "postgres" => Postgres!AnswersPersisted /\ Postgres!DecidedOnce
    /\ Feeds!AcknowledgedIsStored

(* An honest overlap is never reported as tampering, and a receipt commits *)
(* to all that came before it.                                             *)
Verifiable == Ledger!Verifiable
ReceiptsCommit == Ledger!ReceiptsCommit

(* Between processes, the statements of a decision are the steps of the    *)
(* guard that AuthorizationContract states, with either store; a feed and  *)
(* its advisories are committed in one step, or not at all (AtomicCatalog).*)
StatementsKeepContracts == KeepsContract /\ Postgres!KeepsContract /\ Feeds!KeepsPromise

(* Until an outdated copy is saved the ledger is an AppendOnlyLog.         *)
LedgerKeepsPromise == Ledger!KeepsPromise
=============================================================================
