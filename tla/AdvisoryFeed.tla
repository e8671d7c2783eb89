---------------------------- MODULE AdvisoryFeed ----------------------------
(***************************************************************************)
(* Advisory intelligence (core/vulnerability_engine.py): signed feeds of   *)
(* one feed_id claim a sequence number and write the advisory catalog,     *)
(* unsigned documents write it directly, and after either the registered   *)
(* models are scanned against it again.                                    *)
(*                                                                         *)
(* An envelope stands for its own sha256.  Only envelopes whose shape,     *)
(* identity, key, signature and dates verify are inputs: the others change *)
(* nothing, so that a feed that ages or expires is one no longer sent.     *)
(* The claim is one transaction of a connection of its own; threads that   *)
(* share a connection are the subject of SharedTransaction.                *)
(***************************************************************************)
EXTENDS Integers, FiniteSets

CONSTANTS Workers, Envelopes, Records, Models,
          Schema,      \* [Envelopes -> {1, 2}], schema_version
          Sequence,    \* [Envelopes -> sequence]
          Previous,    \* [Envelopes -> previous_feed_sha256 or Absent]
          Covers,      \* [Envelopes -> the catalog records of its advisories]
          Manual,      \* the source of an unsigned document
          Absent,
          Crashes,     \* bound: may a handler die?
          MaxAnswers   \* bound on answered imports

ASSUME FeedAssumption ==
    /\ Schema \in [Envelopes -> {1, 2}]
    /\ Sequence \in [Envelopes -> Nat \ {0}]
    /\ Previous \in [Envelopes -> Envelopes \cup {Absent}]
    /\ \A e \in Envelopes : Schema[e] = 1 => Previous[e] = Absent
    /\ Covers \in [Envelopes -> SUBSET Records]
    /\ Absent \notin Envelopes /\ Manual \notin Envelopes /\ Manual # Absent
    /\ Crashes \in BOOLEAN /\ MaxAnswers \in Nat

VARIABLES snapshots,   \* advisory_feed_snapshots: the envelopes imported
          catalog,     \* vulnerability_advisories: where each record comes from
          scan,        \* [Models -> the catalog its vulnerability_scan used]
          job,         \* [Workers -> the handler in progress]
          answers,     \* history: what the clients were told
          behind       \* history: models whose last scan was outdated or cut short

vars == <<snapshots, catalog, scan, job, answers, behind>>

Catalogs == [Records -> Envelopes \cup {Manual, Absent}]
Answer == [envelope : Envelopes, outcome : {"imported", "replayed"}, worker : Workers]

Idle == [at |-> "idle"]
(* left: what a loop has still to do; reply: what the client will be told. *)
Replies == {Absent} \cup [envelope : Envelopes, outcome : {"imported"}]
Job == {Idle}
       \cup [at : {"claim"}, envelope : Envelopes, head : Envelopes \cup {Absent}]
       \cup [at : {"manual"}, left : SUBSET Records]
       \cup [at : {"rescan"}, left : SUBSET Models, reply : Replies]
       \cup [at : {"save"}, left : SUBSET Models, reply : Replies, model : Models, seen : Catalogs]

TypeOK ==
    /\ snapshots \subseteq Envelopes
    /\ catalog \in Catalogs
    /\ scan \in [Models -> Catalogs]
    /\ job \in [Workers -> Job]
    /\ answers \subseteq Answer
    /\ behind \subseteq Models

Empty == [r \in Records |-> Absent]

Init ==
    /\ snapshots = {} /\ catalog = Empty
    /\ scan = [m \in Models |-> Empty]
    /\ job = [w \in Workers |-> Idle]
    /\ answers = {} /\ behind = {}
-----------------------------------------------------------------------------
(* get_latest_advisory_feed_snapshot: ORDER BY sequence DESC LIMIT 1       *)
Latest == CHOOSE e \in snapshots : \A f \in snapshots : Sequence[f] <= Sequence[e]

Head == IF snapshots = {} THEN Absent ELSE Latest

IsLegacy(e) == Schema[e] = 1

HeadSequence == IF snapshots = {} THEN 0 ELSE Sequence[Latest]

LegacyMayGoBack(e) ==            \* mutant: only the head's sequence is refused
    Sequence[e] # HeadSequence

(* A legacy feed advances the sequence, by any amount.                     *)
LegacySucceeds(e) == Sequence[e] > HeadSequence

(* A schema-2 feed is the next one and names the digest of the stored head;*)
(* the first one has sequence 1 and names none.                            *)
ChainSucceeds(e) ==
    /\ (Sequence[e] = 1) <=> (Previous[e] = Absent)
    /\ IF snapshots = {} THEN Previous[e] = Absent
       ELSE Sequence[e] = HeadSequence + 1 /\ Previous[e] = Latest

Verified(e) == IF IsLegacy(e) THEN LegacySucceeds(e) ELSE ChainSucceeds(e)

IsReplayBySequence(e) ==         \* mutant: the digests are not compared
    snapshots # {} /\ Sequence[e] = HeadSequence

(* The stored head again: the same sequence and the same digest.           *)
IsReplay(e) == snapshots # {} /\ e = Latest

Goto(w, next) == job' = [job EXCEPT ![w] = next]
Tell(w, e, outcome) ==
    answers' = answers \cup {[envelope |-> e, outcome |-> outcome, worker |-> w]}

(* import_signed_feed: everything before the transaction.                  *)
ImportSigned(w, e) ==
    /\ job[w] = Idle /\ Cardinality(answers) < MaxAnswers
    /\ \/ /\ IsReplay(e)
          /\ Tell(w, e, "replayed")
          /\ UNCHANGED job
       \/ /\ ~IsReplay(e) /\ Verified(e)
          /\ Goto(w, [at |-> "claim", envelope |-> e, head |-> Head])
          /\ UNCHANGED answers
    /\ UNCHANGED <<snapshots, catalog, scan, behind>>

TakenByDigest(e) == e \in snapshots   \* mutant: UNIQUE(feed_id, sha256)

(* UNIQUE(feed_id, sequence)                                               *)
Taken(e) == \E f \in snapshots : Sequence[f] = Sequence[e]

(* save_advisory upserts.                                                  *)
Written(e) == [r \in Records |-> IF r \in Covers[e] THEN e ELSE catalog[r]]

ClaimFirst(w) ==                 \* mutant: the advisories are written outside
    /\ job[w].at = "claim"       \* the transaction, which may fail
    /\ LET e == job[w].envelope
       IN /\ catalog' = Written(e)
          /\ IF Taken(e) THEN Goto(w, Idle) /\ UNCHANGED snapshots
             ELSE /\ snapshots' = snapshots \cup {e}
                  /\ Goto(w, [at |-> "rescan", left |-> Models,
                              reply |-> [envelope |-> e, outcome |-> "imported"]])
    /\ UNCHANGED <<scan, answers, behind>>

(* with datastore.transaction(): the snapshot and its advisories, or, when *)
(* the sequence is taken or the catalog cannot be written, nothing.        *)
Claim(w) ==
    /\ job[w].at = "claim"
    /\ LET e == job[w].envelope
       IN \/ /\ ~Taken(e)
             /\ snapshots' = snapshots \cup {e}
             /\ catalog' = Written(e)
             /\ Goto(w, [at |-> "rescan", left |-> Models,
                         reply |-> [envelope |-> e, outcome |-> "imported"]])
          \/ Goto(w, Idle) /\ UNCHANGED <<snapshots, catalog>>
    /\ UNCHANGED <<scan, answers, behind>>

ManualUnchecked(w, records) ==   \* mutant: signed feeds do not stop it
    /\ job[w] = Idle
    /\ Goto(w, [at |-> "manual", left |-> records])
    /\ UNCHANGED <<snapshots, catalog, scan, answers, behind>>

(* import_advisories is refused once any signed feed was imported.         *)
ImportManual(w, records) ==
    /\ job[w] = Idle /\ snapshots = {}
    /\ Goto(w, [at |-> "manual", left |-> records])
    /\ UNCHANGED <<snapshots, catalog, scan, answers, behind>>

(* Every record is saved and committed on its own.                         *)
SaveManual(w) ==
    /\ job[w].at = "manual"
    /\ IF job[w].left = {}
       THEN Goto(w, [at |-> "rescan", left |-> Models, reply |-> Absent]) /\ UNCHANGED catalog
       ELSE \E r \in job[w].left :
               /\ catalog' = [catalog EXCEPT ![r] = Manual]
               /\ Goto(w, [job[w] EXCEPT !.left = @ \ {r}])
    /\ UNCHANGED <<snapshots, scan, answers, behind>>

(* scan_model reads the catalog and later saves the model with the result. *)
(* Requests ask for it: rescan_models is TRUE by default.                  *)
Rescan(w) ==
    /\ job[w].at = "rescan"
    /\ \E m \in job[w].left :
          Goto(w, [at |-> "save", left |-> job[w].left \ {m}, reply |-> job[w].reply,
                   model |-> m, seen |-> catalog])
    /\ UNCHANGED <<snapshots, catalog, scan, answers, behind>>

SaveScan(w) ==
    /\ job[w].at = "save"
    /\ scan' = [scan EXCEPT ![job[w].model] = job[w].seen]
    /\ Goto(w, [at |-> "rescan", left |-> job[w].left, reply |-> job[w].reply])
    /\ behind' = IF job[w].seen = catalog THEN behind \ {job[w].model}
                 ELSE behind \cup {job[w].model}
    /\ UNCHANGED <<snapshots, catalog, answers>>

AnswerEarly(w) ==                \* mutant: the client is told before the rescan ends
    /\ job[w].at = "rescan"
    /\ IF job[w].reply = Absent THEN UNCHANGED answers
       ELSE Tell(w, job[w].reply.envelope, "imported")
    /\ Goto(w, Idle)
    /\ UNCHANGED <<snapshots, catalog, scan, behind>>

AnswerImport(w) ==
    /\ job[w].at = "rescan" /\ job[w].left = {}
    /\ IF job[w].reply = Absent THEN UNCHANGED answers
       ELSE Tell(w, job[w].reply.envelope, "imported")
    /\ Goto(w, Idle)
    /\ UNCHANGED <<snapshots, catalog, scan, behind>>

(* The models that w has still to scan against the catalog it wrote.       *)
Unscanned(w) == CASE job[w].at = "manual" -> Models
                  [] job[w].at = "rescan" -> job[w].left
                  [] job[w].at = "save" -> job[w].left \cup {job[w].model}
                  [] OTHER -> {}

(* A store call fails or the process dies; the client may send the feed    *)
(* again.                                                                  *)
Crash(w) == /\ Crashes /\ job[w] # Idle
            /\ Goto(w, Idle)
            /\ behind' = behind \cup Unscanned(w)
            /\ UNCHANGED <<snapshots, catalog, scan, answers>>

Next ==
    \E w \in Workers :
        \/ \E e \in Envelopes : ImportSigned(w, e)
        \/ Claim(w)
        \/ \E records \in SUBSET Records \ {{}} : ImportManual(w, records)
        \/ SaveManual(w) \/ Rescan(w) \/ SaveScan(w) \/ AnswerImport(w) \/ Crash(w)

Spec == Init /\ [][Next]_vars
-----------------------------------------------------------------------------
(* "the UNIQUE(feed_id, sequence) constraint serializes concurrent         *)
(* successors", and "each feed must cryptographically link to the stored   *)
(* head digest and advance the sequence by one": a stored schema-2 feed is *)
(* the first, or the feed before it is stored and is the one it names.     *)
ChainLinked ==
    /\ \A e, f \in snapshots : Sequence[e] = Sequence[f] => e = f
    /\ \A e \in snapshots : Schema[e] = 2 =>
          IF Sequence[e] = 1 THEN Previous[e] = Absent
          ELSE Previous[e] \in snapshots /\ Sequence[Previous[e]] = Sequence[e] - 1

(* "all-or-nothing": no catalog record comes from a feed that is not       *)
(* stored, and every record a stored feed covers is there.                 *)
CatalogBacked ==
    \A r \in Records :
        /\ catalog[r] \in Envelopes => catalog[r] \in snapshots /\ r \in Covers[catalog[r]]
        /\ (\E e \in snapshots : r \in Covers[e]) => catalog[r] # Absent

(* A client is told "imported" or "replayed" only of a stored feed, and of *)
(* one feed only one import is reported, whoever retries it.               *)
AnswersTrue ==
    /\ \A a \in answers : a.envelope \in snapshots
    /\ \A a, b \in answers :
          a.outcome = "imported" /\ b.outcome = "imported" /\ a.envelope = b.envelope => a = b

(* Overlapping handlers that may die give readers the promise of the       *)
(* store: a feed and its advisories appear in one step.                    *)
Promise == INSTANCE AtomicCatalog
KeepsPromise == Promise!Spec

(* "Import rejects ... sequence rollback": a feed older than the stored    *)
(* head is stored only when the head is not the one it was verified        *)
(* against, and never in a history of schema-2 feeds.                      *)
NeverRolledBack ==
    [][\A e \in snapshots' \ snapshots : Sequence[e] < HeadSequence =>
          /\ \E f \in snapshots' : IsLegacy(f)
          /\ \E w \in Workers :
                job[w].at = "claim" /\ job[w].envelope = e /\ job[w].head # Head]_vars

(* "Once signed-feed governance is active, unverified manual imports are   *)
(* blocked": when a signed feed is stored and the unsigned imports that    *)
(* began before it have ended, no record is ever replaced by an unsigned   *)
(* one.                                                                    *)
Governed == snapshots # {} /\ \A w \in Workers : job[w].at # "manual"
GovernedCatalog ==
    [][Governed => /\ Governed'
                   /\ \A r \in Records : catalog'[r] = Manual => catalog[r] = Manual]_vars

(* "Importing new advisories automatically rescans registered models":     *)
(* when nothing is in progress, a model's scan is of the catalog, unless   *)
(* the last handler to scan it saved what it read before another import,   *)
(* or died first.                                                          *)
Quiet == \A w \in Workers : job[w] = Idle
ScansAreCurrent == Quiet => \A m \in Models \ behind : scan[m] = catalog
=============================================================================
