---------------------------- MODULE ActionLedger ----------------------------
(***************************************************************************)
(* The action ledger of one agent session (core/agent_action_ledger.py):   *)
(* a hash-chained list of tool invocations, kept in the metadata of a row  *)
(* of the models table.  The ledger endpoint, the egress firewall and the  *)
(* RAG taint gate append to it; each append reads the row, extends the     *)
(* list and saves the row.  A rescan of the registered models (core/       *)
(* vulnerability_engine.py, scan_model) reads and saves every row of that  *)
(* table, this one included.  Handlers run in threads that nothing keeps   *)
(* apart, and may die.                                                     *)
(*                                                                         *)
(* Digests: SHA-256 is taken to be injective, so a digest is what it       *)
(* covers.  Digest(h, b) appends the body b to the digest h of the entry   *)
(* before it, and the genesis digest is empty.                             *)
(***************************************************************************)
EXTENDS Sequences, SequencesExt, Naturals

CONSTANTS
    Workers,     \* handlers of requests
    Calls,       \* tool, input hash and decision of an invocation
    Scans,       \* TRUE: models may be rescanned
    MaxEntries   \* bound: no append starts on a ledger of this length

(* What every instance takes the constants to be.                          *)
LedgerAssumption == Scans \in BOOLEAN /\ MaxEntries \in Nat

VARIABLES
    ledger,    \* metadata.entries of the stored row
    job,       \* what each handler is doing, with the row it read
    receipts,  \* the entries that appenders were handed
    overlapped \* history: has a handler saved what was no longer the row?

vars == <<ledger, job, receipts, overlapped>>

Body == [sequence : Nat, call : Calls]
Genesis == <<>>

(* What slips in the code would make of some of the definitions below: a   *)
(* digest of the body alone, entries numbered from 1 or from -1, and       *)
(* entries put first.                                                      *)
DigestOfBody(previous, body) == <<body>>
NextFromOne(entries) == Len(entries) + 1
ExtendedInFront(entries, entry) == <<entry>> \o entries

Digest(previous, body) == Append(previous, body)

(* An entry: its body, prev_entry_sha256 and entry_hash.                   *)
Entry == [body : Body, previous : Seq(Body), hash : Seq(Body)]

Idle == [at |-> "idle"]

HeadHash(entries) == IF entries = <<>> THEN Genesis ELSE entries[Len(entries)].hash

NextSequence(entries) == Len(entries)

NewEntry(entries, c) ==
    LET body == [sequence |-> NextSequence(entries), call |-> c]
    IN  [body |-> body, previous |-> HeadHash(entries), hash |-> Digest(HeadHash(entries), body)]

Extended(entries, entry) == Append(entries, entry)

(* verify_chain, in the order of the list.                                 *)
ChainValid(entries) ==
    \A i \in 1..Len(entries) :
        /\ entries[i].previous = (IF i = 1 THEN Genesis ELSE entries[i - 1].hash)
        /\ entries[i].hash = Digest(entries[i].previous, entries[i].body)
-----------------------------------------------------------------------------
(* append_entry: the row is read, or made up when there is none.           *)
AppendRead(w, c) ==
    /\ job[w] = Idle
    /\ Len(ledger) < MaxEntries
    /\ job' = [job EXCEPT ![w] = [at |-> "append", entries |-> ledger, call |-> c]]
    /\ UNCHANGED <<ledger, receipts, overlapped>>

Saved(w) == overlapped' = (overlapped \/ job[w].entries # ledger)

(* The new entry continues the list that was read, and the whole row is    *)
(* saved.                                                                  *)
AppendSave(w) ==
    /\ job[w].at = "append"
    /\ LET entry == NewEntry(job[w].entries, job[w].call)
       IN  /\ ledger' = Extended(job[w].entries, entry)
           /\ job' = [job EXCEPT ![w] = [at |-> "answer", entry |-> entry]]
    /\ Saved(w)
    /\ UNCHANGED receipts

AppendAnswer(w) ==
    /\ job[w].at = "answer"
    /\ receipts' = receipts \cup {job[w].entry}
    /\ job' = [job EXCEPT ![w] = Idle]
    /\ UNCHANGED <<ledger, overlapped>>

(* scan_model of the ledger's row, when it exists.                         *)
ScanRead(w) ==
    /\ Scans
    /\ job[w] = Idle
    /\ ledger # <<>>
    /\ job' = [job EXCEPT ![w] = [at |-> "scan", entries |-> ledger]]
    /\ UNCHANGED <<ledger, receipts, overlapped>>

(* The row that was read is saved again, with the scan's result beside     *)
(* what else its metadata holds.                                           *)
ScanSave(w) ==
    /\ job[w].at = "scan"
    /\ ledger' = job[w].entries
    /\ Saved(w)
    /\ job' = [job EXCEPT ![w] = Idle]
    /\ UNCHANGED receipts

Crash(w) ==
    /\ job[w] # Idle
    /\ job' = [job EXCEPT ![w] = Idle]
    /\ UNCHANGED <<ledger, receipts, overlapped>>

Init ==
    /\ ledger = <<>>
    /\ job = [w \in Workers |-> Idle]
    /\ receipts = {}
    /\ overlapped = FALSE

Next ==
    \E w \in Workers :
        \/ \E c \in Calls : AppendRead(w, c)
        \/ AppendSave(w)
        \/ AppendAnswer(w)
        \/ ScanRead(w)
        \/ ScanSave(w)
        \/ Crash(w)

Spec == Init /\ [][Next]_vars
-----------------------------------------------------------------------------
Job == {Idle}
       \cup [at : {"append"}, entries : Seq(Entry), call : Calls]
       \cup [at : {"answer"}, entry : Entry]
       \cup [at : {"scan"}, entries : Seq(Entry)]

(* The ledger, the handlers' copies of it and the receipts are well typed. *)
TypeOK ==
    /\ ledger \in Seq(Entry)
    /\ job \in [Workers -> Job]
    /\ receipts \in SUBSET Entry
    /\ overlapped \in BOOLEAN

(* Whoever overlaps, verify_chain accepts the stored ledger and entries    *)
(* are numbered from 0 without a gap: an honest overlap is never reported  *)
(* as tampering.                                                           *)
Verifiable ==
    /\ ChainValid(ledger)
    /\ \A i \in 1..Len(ledger) : ledger[i].body.sequence = i - 1

(* A receipt commits to all that came before it: if the ledger has the     *)
(* entry of the receipt, its hash tells every earlier invocation, so a     *)
(* caller that keeps its receipt can tell a rewritten past.                *)
ReceiptsCommit ==
    \A r \in receipts : \A i \in 1..Len(ledger) :
        ledger[i] = r => r.hash = [j \in 1..i |-> ledger[j].body]

(* A handler saves a copy of the row that is not the row any more.         *)
OutdatedSave == \E w \in Workers : /\ job[w].at \in {"append", "scan"}
                                  /\ job[w].entries # ledger
                                  /\ job'[w] # job[w]

(* agent_action_ledger.py:3, append-only: a stored entry goes only when an *)
(* outdated copy is saved.                                                 *)
LostOnlyToOverlap == [][IsPrefix(ledger, ledger') \/ OutdatedSave]_ledger

Log == INSTANCE AppendOnlyLog WITH
    log  <- [i \in 1..Len(ledger) |-> ledger[i].body.call],
    told <- {<<r.body.sequence + 1, r.body.call>> : r \in receipts}

(* Until an outdated copy is saved, whatever else overlaps or dies, the    *)
(* ledger is the append-only log of every invocation it promises to be.    *)
KeepsPromise == Log!Init /\ [][~overlapped' => Log!Next]_(Log!logVars)
=============================================================================
