------------------------- MODULE AdvisoryFeedProofs -------------------------
(* For any set of envelopes of both schemas and any number of handlers     *)
(* that overlap, fail and retry: the stored chain is linked, the catalog   *)
(* comes from it, and what clients were told is true.                      *)
EXTENDS AdvisoryFeed, FiniteSetTheorems, TLAPS

(* Of stored envelopes there is one of the highest sequence: Latest.       *)
HasLatest == snapshots # {} => \E e \in snapshots : \A f \in snapshots : Sequence[f] <= Sequence[e]

(* The link of a schema-2 feed, which snapshots can only confirm: they     *)
(* grow.                                                                   *)
Linked(e) ==
    IF Sequence[e] = 1 THEN Previous[e] = Absent
    ELSE Previous[e] \in snapshots /\ Sequence[Previous[e]] = Sequence[e] - 1

(* What was verified before the claim still holds at the claim.            *)
ClaimsAreLinked ==
    \A w \in Workers : job[w].at = "claim" /\ Schema[job[w].envelope] = 2
                       => Linked(job[w].envelope)

(* An import that is stored and not yet reported is stored, and nobody     *)
(* reported it or will.                                                    *)
Promised(w) == job[w].at \in {"rescan", "save"} /\ job[w].reply # Absent
PromisesAreTrue ==
    \A w \in Workers : Promised(w) =>
        /\ job[w].reply.envelope \in snapshots
        /\ \A a \in answers : a.outcome = "imported" => a.envelope # job[w].reply.envelope
        /\ \A v \in Workers : v # w /\ Promised(v)
                              => job[v].reply.envelope # job[w].reply.envelope

IInv == /\ TypeOK /\ HasLatest /\ ChainLinked /\ ClaimsAreLinked
        /\ CatalogBacked /\ AnswersTrue /\ PromisesAreTrue

USE FeedAssumption
-----------------------------------------------------------------------------
LEMMA LatestIsStored ==
    ASSUME HasLatest, snapshots # {}
    PROVE  Latest \in snapshots
  BY DEF HasLatest, Latest

LEMMA HeadIsStored ==
    ASSUME TypeOK, HasLatest
    PROVE  Head \in Envelopes \cup {Absent}
  BY LatestIsStored DEF Head, TypeOK

(* import_signed_feed lets a schema-2 feed through only if it continues    *)
(* what is stored.                                                         *)
LEMMA VerifiedIsLinked ==
    ASSUME TypeOK, HasLatest, NEW e \in Envelopes, Schema[e] = 2, Verified(e)
    PROVE  Linked(e)
<1>1. ChainSucceeds(e)
  BY DEF Verified, IsLegacy
<1>2. CASE snapshots = {}
  BY <1>1, <1>2 DEF ChainSucceeds, Linked
<1>3. CASE snapshots # {}
  <2>1. Latest \in snapshots /\ Sequence[Latest] \in Nat /\ Sequence[e] \in Nat
    BY <1>3, LatestIsStored DEF TypeOK
  <2>2. Previous[e] = Latest /\ Sequence[e] = Sequence[Latest] + 1
    BY <1>1, <1>3 DEF ChainSucceeds, HeadSequence
  <2>3. Sequence[e] # 1
    BY <1>1, <2>1, <2>2 DEF ChainSucceeds, TypeOK
  <2> QED
    BY <2>1, <2>2, <2>3 DEF Linked
<1> QED
  BY <1>2, <1>3

(* What a worker's job is, by the step it is at.                           *)
LEMMA JobParts ==
    ASSUME TypeOK, NEW w \in Workers
    PROVE  /\ job[w].at \in {"idle", "claim", "manual", "rescan", "save"}
           /\ job[w].at = "claim" =>
                 job[w].envelope \in Envelopes /\ job[w].head \in Envelopes \cup {Absent}
           /\ job[w].at = "manual" => job[w].left \in SUBSET Records
           /\ job[w].at \in {"rescan", "save"} =>
                 /\ job[w].left \in SUBSET Models
                 /\ job[w].reply \in Replies
                 /\ job[w].reply # Absent => job[w].reply.envelope \in Envelopes
           /\ job[w].at = "save" => job[w].model \in Models /\ job[w].seen \in Catalogs
<1>1. job[w] \in Job
  BY DEF TypeOK
<1> QED
  BY <1>1 DEF Job, Idle, Replies
-----------------------------------------------------------------------------
(* Actions that leave snapshots, catalog and answers alone and put a       *)
(* worker to a step that neither claims nor promises keep the invariant.   *)
LEMMA QuietStepKeeps ==
    ASSUME IInv, NEW w \in Workers, NEW next \in Job, Goto(w, next),
           next.at \notin {"claim", "rescan", "save"}, behind' \in SUBSET Models,
           UNCHANGED <<snapshots, catalog, scan, answers>>
    PROVE  IInv'
<1>1. job' = [job EXCEPT ![w] = next] /\ job \in [Workers -> Job]
  BY DEF Goto, IInv, TypeOK
<1>2. job'[w] = next /\ \A v \in Workers : v # w => job'[v] = job[v]
  BY <1>1
<1>3. TypeOK'
  BY <1>1 DEF IInv, TypeOK
<1>4. HasLatest' /\ ChainLinked' /\ CatalogBacked' /\ AnswersTrue'
  BY DEF IInv, HasLatest, ChainLinked, CatalogBacked, AnswersTrue
<1>5. ClaimsAreLinked'
  BY <1>2 DEF IInv, ClaimsAreLinked, Linked
<1>6. PromisesAreTrue'
  BY <1>2 DEF IInv, PromisesAreTrue, Promised
<1> QED
  BY <1>3, <1>4, <1>5, <1>6 DEF IInv

LEMMA ImportSignedKeeps ==
    ASSUME IInv, NEW w \in Workers, NEW e \in Envelopes, ImportSigned(w, e)
    PROVE  IInv'
<1>1. CASE IsReplay(e) /\ Tell(w, e, "replayed") /\ UNCHANGED job
  <2> DEFINE answer == [envelope |-> e, outcome |-> "replayed", worker |-> w]
  <2>1. e \in snapshots
    BY <1>1, LatestIsStored DEF IsReplay, IInv
  <2>2. /\ answers' = answers \cup {answer} /\ answer \in Answer
        /\ UNCHANGED <<snapshots, catalog, scan, job, behind>>
    BY <1>1 DEF Tell, Answer, ImportSigned
  <2>3. TypeOK'
    BY <2>2 DEF IInv, TypeOK
  <2>4. HasLatest' /\ ChainLinked' /\ CatalogBacked' /\ ClaimsAreLinked'
    BY <2>2 DEF IInv, HasLatest, ChainLinked, CatalogBacked, ClaimsAreLinked, Linked
  <2>5. AnswersTrue'
    BY <2>1, <2>2 DEF IInv, AnswersTrue
  <2>6. PromisesAreTrue'
    BY <2>2 DEF IInv, PromisesAreTrue, Promised
  <2> QED
    BY <2>3, <2>4, <2>5, <2>6 DEF IInv
<1>2. CASE /\ ~IsReplay(e) /\ Verified(e)
           /\ Goto(w, [at |-> "claim", envelope |-> e, head |-> Head])
           /\ UNCHANGED answers
  <2> DEFINE next == [at |-> "claim", envelope |-> e, head |-> Head]
  <2>1. next \in Job
    BY HeadIsStored DEF Job, IInv
  <2>2. /\ job' = [job EXCEPT ![w] = next] /\ job \in [Workers -> Job]
        /\ UNCHANGED <<snapshots, catalog, scan, answers, behind>>
    BY <1>2 DEF Goto, IInv, TypeOK, ImportSigned
  <2>3. job'[w] = next /\ \A v \in Workers : v # w => job'[v] = job[v]
    BY <2>2
  <2>4. TypeOK'
    BY <2>1, <2>2 DEF IInv, TypeOK
  <2>5. HasLatest' /\ ChainLinked' /\ CatalogBacked' /\ AnswersTrue'
    BY <2>2 DEF IInv, HasLatest, ChainLinked, CatalogBacked, AnswersTrue
  <2>6. Schema[e] = 2 => Linked(e)
    BY <1>2, VerifiedIsLinked DEF IInv
  <2>7. ClaimsAreLinked'
    BY <2>2, <2>3, <2>6 DEF IInv, ClaimsAreLinked, Linked
  <2>8. PromisesAreTrue'
    BY <2>2, <2>3 DEF IInv, PromisesAreTrue, Promised
  <2> QED
    BY <2>4, <2>5, <2>7, <2>8 DEF IInv
<1> QED
  BY <1>1, <1>2 DEF ImportSigned

(* The transaction stores an envelope whose sequence nobody has: the link  *)
(* verified before still holds, and no answer or promise names it.         *)
LEMMA ClaimKeeps ==
    ASSUME IInv, NEW w \in Workers, Claim(w)
    PROVE  IInv'
<1> DEFINE e == job[w].envelope
           next == [at |-> "rescan", left |-> Models,
                    reply |-> [envelope |-> e, outcome |-> "imported"]]
<1>1. e \in Envelopes
  BY JobParts DEF Claim, IInv
<1>2. CASE ~Taken(e) /\ snapshots' = snapshots \cup {e} /\ catalog' = Written(e) /\ Goto(w, next)
  <2>1. next \in Job
    BY <1>1 DEF Job, Replies
  <2>2. /\ job' = [job EXCEPT ![w] = next] /\ job \in [Workers -> Job]
        /\ UNCHANGED <<scan, answers, behind>>
    BY <1>2 DEF Goto, IInv, TypeOK, Claim
  <2>3. job'[w] = next /\ \A v \in Workers : v # w => job'[v] = job[v]
    BY <2>2
  <2>4. e \notin snapshots /\ \A f \in snapshots : Sequence[f] # Sequence[e]
    BY <1>2 DEF Taken
  <2>5. catalog' \in Catalogs
        /\ \A r \in Records : catalog'[r] = IF r \in Covers[e] THEN e ELSE catalog[r]
    BY <1>1, <1>2 DEF Written, Catalogs, IInv, TypeOK
  <2>6. TypeOK'
    BY <1>1, <1>2, <2>1, <2>2, <2>5 DEF IInv, TypeOK
  <2>7. HasLatest'
    <3>1. CASE snapshots = {}
      BY <1>1, <1>2, <3>1 DEF HasLatest
    <3>2. CASE snapshots # {}
      <4>1. PICK m \in snapshots : \A f \in snapshots : Sequence[f] <= Sequence[m]
        BY <3>2 DEF IInv, HasLatest
      <4>2. m \in Envelopes /\ snapshots \subseteq Envelopes
        BY DEF IInv, TypeOK
      <4>3. CASE Sequence[e] <= Sequence[m]
        BY <1>2, <4>1, <4>3 DEF HasLatest
      <4>4. CASE ~(Sequence[e] <= Sequence[m])
        <5>1. \A f \in snapshots' : Sequence[f] <= Sequence[e]
          BY <1>1, <1>2, <4>1, <4>2, <4>4
        <5> QED
          BY <1>2, <5>1 DEF HasLatest
      <4> QED
        BY <4>3, <4>4
    <3> QED
      BY <3>1, <3>2
  <2>8. ChainLinked'
    <3>1. \A f, g \in snapshots' : Sequence[f] = Sequence[g] => f = g
      BY <1>2, <2>4 DEF IInv, ChainLinked
    <3>2. Schema[e] = 2 => Linked(e)
      BY DEF IInv, ClaimsAreLinked, Claim
    <3>3. \A f \in snapshots' : Schema[f] = 2 =>
              IF Sequence[f] = 1 THEN Previous[f] = Absent
              ELSE Previous[f] \in snapshots' /\ Sequence[Previous[f]] = Sequence[f] - 1
      BY <1>2, <3>2 DEF IInv, ChainLinked, Linked
    <3> QED
      BY <3>1, <3>3 DEF ChainLinked
  <2>9. ClaimsAreLinked'
    <3> SUFFICES ASSUME NEW v \in Workers, job'[v].at = "claim", Schema[job'[v].envelope] = 2
                 PROVE  IF Sequence[job'[v].envelope] = 1
                        THEN Previous[job'[v].envelope] = Absent
                        ELSE /\ Previous[job'[v].envelope] \in snapshots'
                             /\ Sequence[Previous[job'[v].envelope]]
                                    = Sequence[job'[v].envelope] - 1
      BY DEF ClaimsAreLinked, Linked
    <3>1. v # w /\ job'[v] = job[v]
      BY <2>3
    <3>2. Linked(job[v].envelope)
      BY <3>1 DEF IInv, ClaimsAreLinked
    <3> QED
      BY <1>2, <3>1, <3>2 DEF Linked
  <2>10. CatalogBacked'
    <3> SUFFICES ASSUME NEW r \in Records
                 PROVE  /\ catalog'[r] \in Envelopes =>
                              catalog'[r] \in snapshots' /\ r \in Covers[catalog'[r]]
                        /\ (\E f \in snapshots' : r \in Covers[f]) => catalog'[r] # Absent
      BY DEF CatalogBacked
    <3>1. CASE r \in Covers[e]
      BY <1>1, <1>2, <2>5, <3>1
    <3>2. CASE r \notin Covers[e]
      BY <1>2, <2>5, <3>2 DEF IInv, CatalogBacked
    <3> QED
      BY <3>1, <3>2
  <2>11. AnswersTrue'
    BY <1>2, <2>2 DEF IInv, AnswersTrue
  <2>12. PromisesAreTrue'
    <3> SUFFICES ASSUME NEW v \in Workers, Promised(v)'
                 PROVE  /\ job'[v].reply.envelope \in snapshots'
                        /\ \A a \in answers' : a.outcome = "imported"
                                                => a.envelope # job'[v].reply.envelope
                        /\ \A u \in Workers : u # v /\ Promised(u)'
                                => job'[u].reply.envelope # job'[v].reply.envelope
      BY DEF PromisesAreTrue
    <3>1. \A u \in Workers : u # w /\ Promised(u)' =>
              Promised(u) /\ job'[u].reply.envelope \in snapshots
      BY <2>3 DEF IInv, PromisesAreTrue, Promised
    <3>2. \A a \in answers : a.envelope \in snapshots
      BY DEF IInv, AnswersTrue
    <3>3. CASE v = w
      <4>1. job'[v].reply.envelope = e
        BY <2>3, <3>3
      <4> QED
        BY <1>2, <2>2, <2>4, <3>1, <3>2, <3>3, <4>1
    <3>4. CASE v # w
      <4>1. Promised(v) /\ job'[v] = job[v] /\ job[v].reply.envelope \in snapshots
        BY <2>3, <3>1, <3>4
      <4>2. \A a \in answers : a.outcome = "imported" => a.envelope # job[v].reply.envelope
        BY <4>1 DEF IInv, PromisesAreTrue
      <4>3. ASSUME NEW u \in Workers, u # v, Promised(u)'
            PROVE  job'[u].reply.envelope # job'[v].reply.envelope
        <5>1. CASE u = w
          BY <2>3, <2>4, <4>1, <5>1
        <5>2. CASE u # w
          BY <2>3, <3>1, <4>1, <4>3, <5>2 DEF IInv, PromisesAreTrue
        <5> QED
          BY <5>1, <5>2
      <4> QED
        BY <1>2, <2>2, <4>1, <4>2, <4>3
    <3> QED
      BY <3>3, <3>4
  <2> QED
    BY <2>6, <2>7, <2>8, <2>9, <2>10, <2>11, <2>12 DEF IInv
<1>3. CASE Goto(w, Idle) /\ UNCHANGED <<snapshots, catalog>>
  <2>1. Idle \in Job /\ Idle.at \notin {"claim", "rescan", "save"}
    BY DEF Job, Idle
  <2>2. UNCHANGED <<snapshots, catalog, scan, answers>> /\ behind' \in SUBSET Models
    BY <1>3 DEF Claim, IInv, TypeOK
  <2> QED
    BY <1>3, <2>1, <2>2, QuietStepKeeps
<1> QED
  BY <1>2, <1>3 DEF Claim
-----------------------------------------------------------------------------
LEMMA ImportManualKeeps ==
    ASSUME IInv, NEW w \in Workers, NEW records \in SUBSET Records, ImportManual(w, records)
    PROVE  IInv'
<1> DEFINE next == [at |-> "manual", left |-> records]
<1>1. next \in Job /\ next.at \notin {"claim", "rescan", "save"}
  BY DEF Job
<1>2. behind' \in SUBSET Models
  BY DEF ImportManual, IInv, TypeOK
<1> QED
  BY <1>1, <1>2, QuietStepKeeps DEF ImportManual

LEMMA CrashKeeps ==
    ASSUME IInv, NEW w \in Workers, Crash(w)
    PROVE  IInv'
<1>1. Idle \in Job /\ Idle.at \notin {"claim", "rescan", "save"}
  BY DEF Job, Idle
<1>2. Unscanned(w) \subseteq Models
  BY JobParts DEF Unscanned, IInv
<1>3. behind' \in SUBSET Models
  BY <1>2 DEF Crash, IInv, TypeOK
<1> QED
  BY <1>1, <1>3, QuietStepKeeps DEF Crash

(* A worker that moves between rescan and save, or comes there with        *)
(* nothing to report, makes no promise it had not made.                    *)
LEMMA RescanStepKeeps ==
    ASSUME IInv, NEW w \in Workers, NEW next \in Job, Goto(w, next),
           next.at # "claim",
           next.at \in {"rescan", "save"} /\ next.reply # Absent =>
               job[w].at \in {"rescan", "save"} /\ next.reply = job[w].reply,
           catalog' \in Catalogs, scan' \in [Models -> Catalogs],
           \A r \in Records : catalog'[r] \in {catalog[r], Manual},
           behind' \in SUBSET Models,
           UNCHANGED <<snapshots, answers>>
    PROVE  IInv'
<1>1. job' = [job EXCEPT ![w] = next] /\ job \in [Workers -> Job]
  BY DEF Goto, IInv, TypeOK
<1>2. job'[w] = next /\ \A v \in Workers : v # w => job'[v] = job[v]
  BY <1>1
<1>3. TypeOK'
  BY <1>1 DEF IInv, TypeOK
<1>4. HasLatest' /\ ChainLinked' /\ AnswersTrue'
  BY DEF IInv, HasLatest, ChainLinked, AnswersTrue
<1>5. CatalogBacked'
  BY DEF IInv, CatalogBacked
<1>6. ClaimsAreLinked'
  BY <1>2 DEF IInv, ClaimsAreLinked, Linked
<1>7. \A v \in Workers : Promised(v)' =>
          Promised(v) /\ job'[v].reply.envelope = job[v].reply.envelope
  BY <1>2 DEF Promised
<1>8. PromisesAreTrue'
  BY <1>7 DEF IInv, PromisesAreTrue
<1> QED
  BY <1>3, <1>4, <1>5, <1>6, <1>8 DEF IInv

LEMMA SaveManualKeeps ==
    ASSUME IInv, NEW w \in Workers, SaveManual(w)
    PROVE  IInv'
<1>1. job[w].at = "manual" /\ job[w].left \in SUBSET Records /\ job[w] \in Job
  BY JobParts DEF SaveManual, IInv, TypeOK
<1>2. /\ catalog \in Catalogs /\ scan' \in [Models -> Catalogs] /\ UNCHANGED <<snapshots, answers>>
      /\ behind' \in SUBSET Models
  BY DEF SaveManual, IInv, TypeOK
<1>3. CASE job[w].left = {}
  <2> DEFINE next == [at |-> "rescan", left |-> Models, reply |-> Absent]
  <2>1. next \in Job /\ next.at # "claim" /\ next.reply = Absent
    BY DEF Job, Replies
  <2>2. Goto(w, next) /\ catalog' = catalog
    BY <1>3 DEF SaveManual
  <2> QED
    BY <1>2, <2>1, <2>2, RescanStepKeeps
<1>4. CASE job[w].left # {}
  <2>1. PICK r \in job[w].left : /\ catalog' = [catalog EXCEPT ![r] = Manual]
                                 /\ Goto(w, [job[w] EXCEPT !.left = @ \ {r}])
    BY <1>4 DEF SaveManual
  <2> DEFINE next == [job[w] EXCEPT !.left = @ \ {r}]
  <2>2. next \in Job /\ next.at = "manual"
    BY <1>1 DEF Job, Idle
  <2>3. catalog' \in Catalogs /\ \A q \in Records : catalog'[q] \in {catalog[q], Manual}
    BY <1>1, <1>2, <2>1 DEF Catalogs
  <2> QED
    BY <1>2, <2>1, <2>2, <2>3, RescanStepKeeps
<1> QED
  BY <1>3, <1>4

LEMMA RescanKeeps ==
    ASSUME IInv, NEW w \in Workers, Rescan(w)
    PROVE  IInv'
<1>1. /\ job[w].at = "rescan" /\ job[w].left \in SUBSET Models /\ job[w].reply \in Replies
      /\ catalog \in Catalogs
  BY JobParts DEF Rescan, IInv, TypeOK
<1>2. PICK m \in job[w].left :
          Goto(w, [at |-> "save", left |-> job[w].left \ {m}, reply |-> job[w].reply,
                   model |-> m, seen |-> catalog])
  BY DEF Rescan
<1> DEFINE next == [at |-> "save", left |-> job[w].left \ {m}, reply |-> job[w].reply,
                    model |-> m, seen |-> catalog]
<1>3. next \in Job /\ next.at = "save" /\ next.reply = job[w].reply
  BY <1>1 DEF Job
<1>4. /\ UNCHANGED <<snapshots, catalog, scan, answers>> /\ scan \in [Models -> Catalogs]
      /\ behind' \in SUBSET Models
  BY DEF Rescan, IInv, TypeOK
<1> QED
  BY <1>1, <1>2, <1>3, <1>4, RescanStepKeeps

LEMMA SaveScanKeeps ==
    ASSUME IInv, NEW w \in Workers, SaveScan(w)
    PROVE  IInv'
<1>1. /\ job[w].at = "save" /\ job[w].left \in SUBSET Models /\ job[w].reply \in Replies
      /\ job[w].model \in Models /\ job[w].seen \in Catalogs
  BY JobParts DEF SaveScan, IInv
<1> DEFINE next == [at |-> "rescan", left |-> job[w].left, reply |-> job[w].reply]
<1>2. next \in Job /\ next.at = "rescan" /\ next.reply = job[w].reply
  BY <1>1 DEF Job
<1>3. /\ catalog \in Catalogs /\ scan' \in [Models -> Catalogs]
      /\ UNCHANGED <<snapshots, catalog, answers>> /\ Goto(w, next)
      /\ behind' \in SUBSET Models
  BY <1>1 DEF SaveScan, IInv, TypeOK
<1> QED
  BY <1>1, <1>2, <1>3, RescanStepKeeps

(* The promise is kept, and nobody else has made it.                       *)
LEMMA AnswerImportKeeps ==
    ASSUME IInv, NEW w \in Workers, AnswerImport(w)
    PROVE  IInv'
<1>1. /\ Idle \in Job /\ Idle.at \notin {"claim", "rescan", "save"}
      /\ Goto(w, Idle) /\ UNCHANGED <<snapshots, catalog, scan>> /\ behind' \in SUBSET Models
  BY DEF Job, Idle, AnswerImport, IInv, TypeOK
<1>2. CASE job[w].reply = Absent
  BY <1>1, <1>2, QuietStepKeeps DEF AnswerImport
<1>3. CASE job[w].reply # Absent
  <2> DEFINE e == job[w].reply.envelope
             answer == [envelope |-> e, outcome |-> "imported", worker |-> w]
  <2>1. Promised(w) /\ e \in Envelopes
    BY <1>3, JobParts DEF AnswerImport, Promised, IInv
  <2>2. answers' = answers \cup {answer} /\ answer \in Answer
    BY <1>3, <2>1 DEF AnswerImport, Tell, Answer
  <2>3. job' = [job EXCEPT ![w] = Idle] /\ job \in [Workers -> Job]
    BY <1>1 DEF Goto, IInv, TypeOK
  <2>4. job'[w] = Idle /\ \A v \in Workers : v # w => job'[v] = job[v]
    BY <2>3
  <2>5. TypeOK'
    BY <1>1, <2>2, <2>3 DEF IInv, TypeOK
  <2>6. HasLatest' /\ ChainLinked' /\ CatalogBacked'
    BY <1>1 DEF IInv, HasLatest, ChainLinked, CatalogBacked
  <2>7. ClaimsAreLinked'
    BY <1>1, <2>4 DEF IInv, ClaimsAreLinked, Linked
  <2>8. e \in snapshots /\ \A a \in answers : a.outcome = "imported" => a.envelope # e
    BY <2>1 DEF IInv, PromisesAreTrue
  <2>9. AnswersTrue'
    BY <1>1, <2>2, <2>8 DEF IInv, AnswersTrue
  <2>10. \A v \in Workers : Promised(v)' => v # w /\ Promised(v) /\ job'[v] = job[v]
    BY <1>1, <2>4 DEF Promised
  <2>11. \A v \in Workers : v # w /\ Promised(v) => job[v].reply.envelope # e
    BY <2>1 DEF IInv, PromisesAreTrue
  <2>12. PromisesAreTrue'
    BY <1>1, <2>2, <2>10, <2>11 DEF IInv, PromisesAreTrue
  <2> QED
    BY <2>5, <2>6, <2>7, <2>9, <2>12 DEF IInv
<1> QED
  BY <1>2, <1>3
-----------------------------------------------------------------------------
LEMMA InitIInv == Init => IInv
<1> SUFFICES ASSUME Init PROVE IInv
  OBVIOUS
<1>1. TypeOK
  BY DEF Init, TypeOK, Empty, Catalogs, Job
<1>2. HasLatest /\ ChainLinked /\ AnswersTrue
  BY DEF Init, HasLatest, ChainLinked, AnswersTrue
<1>3. \A w \in Workers : job[w].at = "idle"
  BY DEF Init, Idle
<1>4. ClaimsAreLinked /\ PromisesAreTrue
  BY <1>3 DEF ClaimsAreLinked, PromisesAreTrue, Promised
<1>5. CatalogBacked
  BY DEF Init, CatalogBacked, Empty
<1> QED
  BY <1>1, <1>2, <1>4, <1>5 DEF IInv

LEMMA NextKeeps == IInv /\ [Next]_vars => IInv'
<1> SUFFICES ASSUME IInv, [Next]_vars PROVE IInv'
  OBVIOUS
<1>1. ASSUME NEW w \in Workers, NEW e \in Envelopes, ImportSigned(w, e) PROVE IInv'
  BY <1>1, ImportSignedKeeps
<1>2. ASSUME NEW w \in Workers, Claim(w) PROVE IInv'
  BY <1>2, ClaimKeeps
<1>3. ASSUME NEW w \in Workers, NEW records \in SUBSET Records, ImportManual(w, records)
      PROVE  IInv'
  BY <1>3, ImportManualKeeps
<1>4. ASSUME NEW w \in Workers, SaveManual(w) PROVE IInv'
  BY <1>4, SaveManualKeeps
<1>5. ASSUME NEW w \in Workers, Rescan(w) PROVE IInv'
  BY <1>5, RescanKeeps
<1>6. ASSUME NEW w \in Workers, SaveScan(w) PROVE IInv'
  BY <1>6, SaveScanKeeps
<1>7. ASSUME NEW w \in Workers, AnswerImport(w) PROVE IInv'
  BY <1>7, AnswerImportKeeps
<1>8. ASSUME NEW w \in Workers, Crash(w) PROVE IInv'
  BY <1>8, CrashKeeps
<1>9. CASE UNCHANGED vars
  <2>1. UNCHANGED <<snapshots, catalog, scan, job, answers, behind>>
    BY <1>9 DEF vars
  <2>2. TypeOK' /\ HasLatest' /\ ChainLinked' /\ CatalogBacked' /\ AnswersTrue'
    BY <2>1 DEF IInv, TypeOK, HasLatest, ChainLinked, CatalogBacked, AnswersTrue
  <2>3. ClaimsAreLinked' /\ PromisesAreTrue'
    BY <2>1 DEF IInv, ClaimsAreLinked, Linked, PromisesAreTrue, Promised
  <2> QED
    BY <2>2, <2>3 DEF IInv
<1> QED
  BY <1>1, <1>2, <1>3, <1>4, <1>5, <1>6, <1>7, <1>8, <1>9 DEF Next

THEOREM Invariant == Spec => []IInv
  BY InitIInv, NextKeeps, PTL DEF Spec

(* Sequences are unique and every stored schema-2 feed is the first or     *)
(* names the stored feed one before it (_verify_feed_v2_chain and the      *)
(* unique constraint, with legacy imports going on).                       *)
THEOREM ChainAlwaysLinked == Spec => []ChainLinked
<1>1. IInv => ChainLinked
  BY DEF IInv
<1> QED
  BY Invariant, <1>1, PTL

(* The transaction of import_signed_feed is all or nothing: the catalog    *)
(* holds what stored feeds cover and nothing of a feed that is not stored. *)
THEOREM CatalogAlwaysBacked == Spec => []CatalogBacked
<1>1. IInv => CatalogBacked
  BY DEF IInv
<1> QED
  BY Invariant, <1>1, PTL

(* Clients hear "imported" or "replayed" of stored feeds only, and         *)
(* "imported" once per feed.                                               *)
THEOREM AnswersAlwaysTrue == Spec => []AnswersTrue
<1>1. IInv => AnswersTrue
  BY DEF IInv
<1> QED
  BY Invariant, <1>1, PTL

(* Type correctness.                                                       *)
THEOREM TypeCorrect == Spec => []TypeOK
<1>1. IInv => TypeOK
  BY DEF IInv
<1> QED
  BY Invariant, <1>1, PTL
-----------------------------------------------------------------------------
(* Rollback.  A claim in progress was verified against some head, and as   *)
(* long as only schema-2 feeds are stored, no sequence below a stored one  *)
(* is free.                                                                *)
VerifiedAtHead ==
    \A w \in Workers : job[w].at = "claim" =>
        Sequence[job[w].envelope] > IF job[w].head = Absent THEN 0 ELSE Sequence[job[w].head]

NoGaps ==
    (\A e \in snapshots : Schema[e] = 2) =>
        \A e \in snapshots : \A n \in 1..Sequence[e] : \E f \in snapshots : Sequence[f] = n

LEMMA HeadSequenceOfHead ==
    ASSUME TypeOK, HasLatest
    PROVE  HeadSequence = (IF Head = Absent THEN 0 ELSE Sequence[Head])
  BY LatestIsStored DEF HeadSequence, Head, TypeOK

LEMMA VerifiedIsNewer ==
    ASSUME TypeOK, HasLatest, NEW e \in Envelopes, Verified(e)
    PROVE  Sequence[e] > HeadSequence
<1>1. CASE IsLegacy(e)
  BY <1>1 DEF Verified, LegacySucceeds
<1>2. CASE ~IsLegacy(e)
  <2>1. ChainSucceeds(e) /\ Sequence[e] \in Nat \ {0}
    BY <1>2 DEF Verified
  <2>2. CASE snapshots = {}
    BY <2>1, <2>2 DEF HeadSequence
  <2>3. CASE snapshots # {}
    <3>1. Sequence[Latest] \in Nat
      BY <2>3, LatestIsStored DEF TypeOK
    <3> QED
      BY <2>1, <2>3, <3>1 DEF ChainSucceeds, HeadSequence
  <2> QED
    BY <2>2, <2>3
<1> QED
  BY <1>1, <1>2

(* What a step may do to the claims in progress and to the snapshots.      *)
LEMMA ClaimsOfAStep ==
    ASSUME IInv, [Next]_vars, NEW v \in Workers, job'[v].at = "claim", job'[v] # job[v]
    PROVE  \E e \in Envelopes : Verified(e) /\ job'[v] = [at |-> "claim", envelope |-> e, head |-> Head]
<1>1. job \in [Workers -> Job]
  BY DEF IInv, TypeOK
<1>2. PICK w \in Workers :
          \/ \E e \in Envelopes : ImportSigned(w, e)
          \/ Claim(w)
          \/ \E records \in SUBSET Records \ {{}} : ImportManual(w, records)
          \/ SaveManual(w) \/ Rescan(w) \/ SaveScan(w) \/ AnswerImport(w) \/ Crash(w)
  BY DEF Next, vars
<1>3. CASE \E e \in Envelopes : ImportSigned(w, e)
  BY <1>1, <1>3 DEF ImportSigned, Goto
<1>4. CASE ~\E e \in Envelopes : ImportSigned(w, e)
  <2>1. job'[w].at # "claim" /\ \A u \in Workers \ {w} : job'[u] = job[u]
    <3>1. CASE Claim(w) \/ AnswerImport(w) \/ Crash(w)
      BY <1>1, <3>1 DEF Claim, AnswerImport, Crash, Goto, Idle
    <3>2. CASE \E records \in SUBSET Records \ {{}} : ImportManual(w, records)
      BY <1>1, <3>2 DEF ImportManual, Goto
    <3>3. CASE SaveManual(w)
      <4>1. \A x : [job[w] EXCEPT !.left = x].at = "manual"
        BY <1>1, <3>3 DEF SaveManual, Job, Idle
      <4>2. CASE job[w].left = {}
        BY <1>1, <3>3, <4>2 DEF SaveManual, Goto
      <4>3. CASE job[w].left # {}
        <5>1. PICK r : Goto(w, [job[w] EXCEPT !.left = @ \ {r}])
          BY <3>3, <4>3 DEF SaveManual
        <5> DEFINE next == [job[w] EXCEPT !.left = @ \ {r}]
        <5>2. next.at = "manual"
          BY <4>1
        <5>3. job' = [job EXCEPT ![w] = next]
          BY <5>1 DEF Goto
        <5> HIDE DEF next
        <5> QED
          BY <1>1, <5>2, <5>3
      <4> QED
        BY <4>2, <4>3
    <3>4. CASE Rescan(w) \/ SaveScan(w)
      BY <1>1, <3>4 DEF Rescan, SaveScan, Goto
    <3> QED
      BY <1>2, <1>4, <3>1, <3>2, <3>3, <3>4
  <2> QED
    BY <2>1
<1> QED
  BY <1>3, <1>4

LEMMA SnapshotsOfAStep ==
    ASSUME IInv, [Next]_vars, snapshots' # snapshots
    PROVE  \E w \in Workers :
              /\ job[w].at = "claim" /\ job[w].envelope \in Envelopes
              /\ ~Taken(job[w].envelope)
              /\ snapshots' = snapshots \cup {job[w].envelope}
<1>1. PICK w \in Workers : Claim(w)
  BY DEF Next, vars, ImportSigned, ImportManual, SaveManual, Rescan, SaveScan, AnswerImport, Crash
<1> QED
  BY <1>1, JobParts DEF Claim, IInv

LEMMA RollbackInvariant ==
    IInv /\ VerifiedAtHead /\ NoGaps /\ [Next]_vars => VerifiedAtHead' /\ NoGaps'
<1> SUFFICES ASSUME IInv, VerifiedAtHead, NoGaps, [Next]_vars PROVE VerifiedAtHead' /\ NoGaps'
  OBVIOUS
<1>1. VerifiedAtHead'
  <2> SUFFICES ASSUME NEW v \in Workers, job'[v].at = "claim"
               PROVE  Sequence[job'[v].envelope] >
                          IF job'[v].head = Absent THEN 0 ELSE Sequence[job'[v].head]
    BY DEF VerifiedAtHead
  <2>1. CASE job'[v] = job[v]
    BY <2>1 DEF VerifiedAtHead
  <2>2. CASE job'[v] # job[v]
    <3>1. PICK e \in Envelopes :
              Verified(e) /\ job'[v] = [at |-> "claim", envelope |-> e, head |-> Head]
      BY <2>2, ClaimsOfAStep
    <3>2. Sequence[e] > HeadSequence
      BY <3>1, VerifiedIsNewer DEF IInv
    <3> QED
      BY <3>1, <3>2, HeadSequenceOfHead DEF IInv
  <2> QED
    BY <2>1, <2>2
<1>2. NoGaps'
  <2>1. CASE snapshots' = snapshots
    BY <2>1 DEF NoGaps
  <2>2. CASE snapshots' # snapshots
    <3>1. PICK w \in Workers :
              /\ job[w].at = "claim" /\ job[w].envelope \in Envelopes
              /\ snapshots' = snapshots \cup {job[w].envelope}
      BY <2>2, SnapshotsOfAStep
    <3> DEFINE e == job[w].envelope
    <3> SUFFICES ASSUME \A f \in snapshots' : Schema[f] = 2,
                        NEW f \in snapshots', NEW n \in 1..Sequence[f]
                 PROVE  \E g \in snapshots' : Sequence[g] = n
      BY DEF NoGaps
    <3>2. \A g \in snapshots : \A k \in 1..Sequence[g] : \E h \in snapshots : Sequence[h] = k
      BY <3>1 DEF NoGaps
    <3>3. CASE f \in snapshots
      BY <3>1, <3>2, <3>3
    <3>4. CASE f = e
      <4>1. Linked(e) /\ Sequence[e] \in Nat
        BY <3>1 DEF IInv, ClaimsAreLinked
      <4>2. CASE n = Sequence[e]
        BY <3>1, <4>2
      <4>3. CASE n # Sequence[e]
        <5>1. Sequence[e] # 1 /\ Previous[e] \in snapshots
              /\ Sequence[Previous[e]] = Sequence[e] - 1
          BY <3>4, <4>1, <4>3 DEF Linked
        <5>2. n \in 1..Sequence[Previous[e]]
          BY <3>4, <4>1, <4>3, <5>1
        <5> QED
          BY <3>1, <3>2, <5>1, <5>2
      <4> QED
        BY <4>2, <4>3
    <3> QED
      BY <3>1, <3>3, <3>4
  <2> QED
    BY <2>1, <2>2
<1> QED
  BY <1>1, <1>2

LEMMA NoStepRollsBack ==
    ASSUME IInv, VerifiedAtHead, NoGaps, [Next]_vars,
           NEW e \in snapshots' \ snapshots, Sequence[e] < HeadSequence
    PROVE  /\ \E f \in snapshots' : IsLegacy(f)
           /\ \E w \in Workers :
                 job[w].at = "claim" /\ job[w].envelope = e /\ job[w].head # Head
<1>1. PICK w \in Workers :
          /\ job[w].at = "claim" /\ job[w].envelope \in Envelopes
          /\ ~Taken(job[w].envelope)
          /\ snapshots' = snapshots \cup {job[w].envelope}
  BY SnapshotsOfAStep
<1>2. job[w].envelope = e /\ Sequence[e] \in Nat \ {0} /\ snapshots \subseteq Envelopes
  BY <1>1 DEF IInv, TypeOK
<1>3. job[w].head # Head
  <2>1. SUFFICES ASSUME job[w].head = Head PROVE FALSE
    OBVIOUS
  <2>2. Sequence[e] > HeadSequence
    BY <1>1, <1>2, <2>1, HeadSequenceOfHead DEF VerifiedAtHead, IInv
  <2>3. HeadSequence \in Nat
    BY LatestIsStored, <1>2 DEF HeadSequence, IInv
  <2> QED
    BY <1>2, <2>2, <2>3
<1>4. \E f \in snapshots' : IsLegacy(f)
  <2>1. SUFFICES ASSUME \A f \in snapshots' : Schema[f] = 2 PROVE FALSE
    BY <1>1, <1>2 DEF IsLegacy
  <2>2. snapshots # {}
    BY <1>2 DEF HeadSequence
  <2>3. Latest \in snapshots /\ HeadSequence = Sequence[Latest] /\ Sequence[Latest] \in Nat
    BY <1>2, <2>2, LatestIsStored DEF HeadSequence, IInv
  <2>4. Sequence[e] \in 1..Sequence[Latest]
    BY <1>2, <2>3
  <2>5. \E f \in snapshots : Sequence[f] = Sequence[e]
    BY <1>1, <2>1, <2>3, <2>4 DEF NoGaps
  <2> QED
    BY <1>1, <1>2, <2>5 DEF Taken
<1> QED
  BY <1>1, <1>2, <1>3, <1>4

(* An older feed is stored only by a handler that verified it against a    *)
(* head since replaced, and never while the publisher uses schema 2 alone. *)
THEOREM RollbackNeedsOverlap == Spec => NeverRolledBack
<1>1. Init => VerifiedAtHead /\ NoGaps
  BY DEF Init, VerifiedAtHead, NoGaps, Idle
<1>2. IInv /\ VerifiedAtHead /\ NoGaps /\ [Next]_vars =>
          [\A e \in snapshots' \ snapshots : Sequence[e] < HeadSequence =>
              /\ \E f \in snapshots' : IsLegacy(f)
              /\ \E w \in Workers :
                    job[w].at = "claim" /\ job[w].envelope = e /\ job[w].head # Head]_vars
  BY NoStepRollsBack
<1> QED
  BY Invariant, RollbackInvariant, <1>1, <1>2, PTL DEF Spec, NeverRolledBack
-----------------------------------------------------------------------------
LEMMA GovernanceStays ==
    ASSUME IInv, [Next]_vars, Governed
    PROVE  Governed' /\ \A r \in Records : catalog'[r] = Manual => catalog[r] = Manual
<1>1. job \in [Workers -> Job] /\ catalog \in Catalogs
  BY DEF IInv, TypeOK
<1>2. CASE UNCHANGED vars
  BY <1>2 DEF vars, Governed
<1>3. ASSUME NEW w \in Workers, NEW e \in Envelopes, ImportSigned(w, e)
      PROVE  Governed' /\ catalog' = catalog
  BY <1>1, <1>3 DEF ImportSigned, Goto, Governed
<1>4. ASSUME NEW w \in Workers, Claim(w)
      PROVE  Governed' /\ \A r \in Records : catalog'[r] = Manual => catalog[r] = Manual
  <2>1. job[w].envelope \in Envelopes
    BY <1>4, JobParts DEF Claim, IInv
  <2>2. Governed'
    BY <1>1, <1>4 DEF Claim, Goto, Governed, Idle
  <2>3. \A r \in Records : catalog'[r] = Manual => catalog[r] = Manual
    BY <1>1, <1>4, <2>1 DEF Claim, Written, Catalogs
  <2> QED
    BY <2>2, <2>3
<1>5. ASSUME NEW w \in Workers, NEW records, ImportManual(w, records)
      PROVE  FALSE
  BY <1>5 DEF ImportManual, Governed
<1>6. ASSUME NEW w \in Workers, SaveManual(w)
      PROVE  FALSE
  BY <1>6 DEF SaveManual, Governed
<1>7. ASSUME NEW w \in Workers, Rescan(w) \/ SaveScan(w) \/ AnswerImport(w) \/ Crash(w)
      PROVE  Governed' /\ catalog' = catalog
  BY <1>1, <1>7 DEF Rescan, SaveScan, AnswerImport, Crash, Goto, Governed, Idle
<1> QED
  BY <1>2, <1>3, <1>4, <1>5, <1>6, <1>7 DEF Next

(* Once a signed feed is stored and the unsigned imports that began before *)
(* it have ended, unsigned records never come back (import_advisories).    *)
THEOREM GovernanceHolds == Spec => GovernedCatalog
<1>1. IInv /\ [Next]_vars =>
          [Governed => /\ Governed'
                       /\ \A r \in Records : catalog'[r] = Manual => catalog[r] = Manual]_vars
  BY GovernanceStays
<1> QED
  BY Invariant, <1>1, PTL DEF Spec, GovernedCatalog
-----------------------------------------------------------------------------
(* Scans.  A model that is not behind and whose scan is of another catalog *)
(* still has a handler that will scan it.                                  *)
Rescanned == \A m \in Models \ behind : scan[m] = catalog \/ \E w \in Workers : m \in Unscanned(w)

(* A step of w that leaves it all that it had to scan.                     *)
LEMMA StillRescanned ==
    ASSUME TypeOK, Rescanned, NEW w \in Workers, NEW next, Goto(w, next), UNCHANGED scan,
           behind \subseteq behind',
           \A m \in Models \ behind' : m \in Unscanned(w) => m \in Unscanned(w)',
           catalog' = catalog \/ Models \subseteq Unscanned(w)'
    PROVE  Rescanned'
<1>1. \A v \in Workers \ {w} : Unscanned(v)' = Unscanned(v)
  BY DEF Goto, TypeOK, Unscanned
<1>2. CASE Models \subseteq Unscanned(w)'
  BY <1>2 DEF Rescanned
<1>3. CASE catalog' = catalog
  BY <1>1, <1>3 DEF Rescanned
<1> QED
  BY <1>2, <1>3

LEMMA ScansStay == TypeOK /\ Rescanned /\ [Next]_vars => Rescanned'
<1> SUFFICES ASSUME TypeOK, Rescanned, [Next]_vars
             PROVE  Rescanned'
  OBVIOUS
<1>1. CASE UNCHANGED vars
  BY <1>1 DEF vars, Rescanned, Unscanned
<1>2. ASSUME NEW w \in Workers, NEW e \in Envelopes, ImportSigned(w, e)
      PROVE  Rescanned'
  <2>1. CASE UNCHANGED job
    BY <1>2, <2>1 DEF ImportSigned, Rescanned, Unscanned
  <2>2. CASE Goto(w, [at |-> "claim", envelope |-> e, head |-> Head])
    <3>1. Unscanned(w) = {}
      BY <1>2, <2>2 DEF ImportSigned, Unscanned, Idle, Goto, TypeOK, IsReplay
    <3> QED
      BY <1>2, <2>2, <3>1, StillRescanned DEF ImportSigned
  <2> QED
    BY <1>2, <2>1, <2>2 DEF ImportSigned
<1>3. ASSUME NEW w \in Workers, Claim(w)
      PROVE  Rescanned'
  <2>1. Unscanned(w) = {}
    BY <1>3 DEF Claim, Unscanned
  <2>2. CASE UNCHANGED <<snapshots, catalog>> /\ Goto(w, Idle)
    BY <1>3, <2>1, <2>2, StillRescanned DEF Claim
  <2>3. CASE Goto(w, [at |-> "rescan", left |-> Models,
                      reply |-> [envelope |-> job[w].envelope, outcome |-> "imported"]])
    <3>1. Unscanned(w)' = Models
      BY <2>3 DEF Goto, TypeOK, Unscanned
    <3> QED
      BY <1>3, <2>1, <2>3, <3>1, StillRescanned DEF Claim
  <2> QED
    BY <1>3, <2>2, <2>3 DEF Claim
<1>4. ASSUME NEW w \in Workers, NEW records, ImportManual(w, records)
      PROVE  Rescanned'
  <2>1. Unscanned(w) = {}
    BY <1>4 DEF ImportManual, Unscanned, Idle
  <2> QED
    BY <1>4, <2>1, StillRescanned DEF ImportManual
<1>5. ASSUME NEW w \in Workers, SaveManual(w)
      PROVE  Rescanned'
  <2>1. PICK next : Goto(w, next) /\ next.at \in {"rescan", "manual"} /\ (next.at = "rescan" => next.left = Models)
    <3>1. CASE job[w].left = {}
      BY <1>5, <3>1 DEF SaveManual
    <3>2. CASE job[w].left # {}
      <4>1. job[w] \in Job /\ job[w].at = "manual"
        BY <1>5 DEF TypeOK, SaveManual
      <4>2. job[w] \in [at : {"manual"}, left : SUBSET Records]
        BY <4>1 DEF Job, Idle
      <4>3. PICK r \in job[w].left : Goto(w, [job[w] EXCEPT !.left = @ \ {r}])
        BY <1>5, <3>2 DEF SaveManual
      <4>4. [job[w] EXCEPT !.left = @ \ {r}].at = "manual"
        BY <4>2
      <4> QED
        BY <4>3, <4>4
    <3> QED
      BY <3>1, <3>2
  <2>2. Unscanned(w)' = Models
    BY <2>1 DEF Goto, TypeOK, Unscanned
  <2>3. Unscanned(w) \subseteq Models
    BY <1>5 DEF SaveManual, Unscanned
  <2> QED
    BY <1>5, <2>1, <2>2, <2>3, StillRescanned DEF SaveManual
<1>6. ASSUME NEW w \in Workers, Rescan(w)
      PROVE  Rescanned'
  <2>1. PICK m \in job[w].left :
          Goto(w, [at |-> "save", left |-> job[w].left \ {m}, reply |-> job[w].reply,
                   model |-> m, seen |-> catalog])
    BY <1>6 DEF Rescan
  <2>2. Unscanned(w)' = Unscanned(w)
    BY <1>6, <2>1 DEF Rescan, Goto, TypeOK, Unscanned
  <2> QED
    BY <1>6, <2>1, <2>2, StillRescanned DEF Rescan
<1>7. ASSUME NEW w \in Workers, SaveScan(w)
      PROVE  Rescanned'
  <2>1. job[w].model \in Models
    BY <1>7, JobParts DEF SaveScan
  <2>2. /\ \A v \in Workers \ {w} : Unscanned(v)' = Unscanned(v)
        /\ Unscanned(w) = Unscanned(w)' \cup {job[w].model}
    BY <1>7 DEF SaveScan, Goto, TypeOK, Unscanned
  <2>3. /\ \A m \in Models \ {job[w].model} : scan'[m] = scan[m]
        /\ scan'[job[w].model] = job[w].seen /\ catalog' = catalog
    BY <1>7, <2>1 DEF SaveScan, TypeOK
  <2>4. \A m \in Models \ behind' : m # job[w].model => m \notin behind
    BY <1>7 DEF SaveScan
  <2>5. job[w].model \notin behind' => job[w].seen = catalog
    BY <1>7 DEF SaveScan
  <2> QED
    BY <2>2, <2>3, <2>4, <2>5 DEF Rescanned
<1>8. ASSUME NEW w \in Workers, AnswerImport(w)
      PROVE  Rescanned'
  <2>1. Unscanned(w) = {}
    BY <1>8 DEF AnswerImport, Unscanned
  <2> QED
    BY <1>8, <2>1, StillRescanned DEF AnswerImport
<1>9. ASSUME NEW w \in Workers, Crash(w)
      PROVE  Rescanned'
  BY <1>9, StillRescanned DEF Crash
<1> QED
  BY <1>1, <1>2, <1>3, <1>4, <1>5, <1>6, <1>7, <1>8, <1>9 DEF Next

(* When nothing is in progress, a model's scan is of the catalog, unless   *)
(* the last handler to scan it saved what it read before another import or *)
(* died first (rescan_registered_models): for any number of handlers.      *)
THEOREM ScansAlwaysCurrent == Spec => []ScansAreCurrent
<1>1. Init => Rescanned
  BY DEF Init, Rescanned, Empty
<1>2. Rescanned => ScansAreCurrent
  BY DEF Rescanned, ScansAreCurrent, Quiet, Unscanned, Idle
<1> QED
  BY <1>1, <1>2, ScansStay, TypeCorrect, PTL DEF Spec
-----------------------------------------------------------------------------
(* Handlers that overlap, fail and die change what readers see as the      *)
(* store promises (AtomicCatalog): a feed with all its advisories in one   *)
(* step and under a free sequence, or one unsigned record.                 *)
THEOREM FeedsKeepPromise == Spec => KeepsPromise
<1>1. Init => Promise!Init
  BY DEF Init, Empty, Promise!Init
<1>2. TypeOK /\ [Next]_vars => [Promise!Next]_(Promise!catalogVars)
  <2> SUFFICES ASSUME TypeOK, [Next]_vars
               PROVE  Promise!Next \/ UNCHANGED <<snapshots, catalog>>
    BY DEF Promise!catalogVars
  <2>1. ASSUME NEW w \in Workers, Claim(w)
        PROVE  Promise!Next \/ UNCHANGED <<snapshots, catalog>>
    <3>1. job[w].envelope \in Envelopes
      BY <2>1, JobParts DEF Claim
    <3>2. CASE UNCHANGED <<snapshots, catalog>>
      BY <3>2
    <3>3. CASE /\ ~Taken(job[w].envelope)
               /\ snapshots' = snapshots \cup {job[w].envelope}
               /\ catalog' = Written(job[w].envelope)
      BY <3>1, <3>3 DEF Taken, Written, Promise!Next, Promise!Store
    <3> QED
      BY <2>1, <3>2, <3>3 DEF Claim
  <2>2. ASSUME NEW w \in Workers, SaveManual(w)
        PROVE  Promise!Next \/ UNCHANGED <<snapshots, catalog>>
    <3>1. job[w].left \in SUBSET Records
      BY <2>2, JobParts DEF SaveManual
    <3> QED
      BY <2>2, <3>1 DEF SaveManual, Promise!Next, Promise!Unsigned
  <2>3. ASSUME NEW w \in Workers,
               \/ \E e \in Envelopes : ImportSigned(w, e)
               \/ \E records \in SUBSET Records : ImportManual(w, records)
               \/ Rescan(w) \/ SaveScan(w) \/ AnswerImport(w) \/ Crash(w)
        PROVE  UNCHANGED <<snapshots, catalog>>
    BY <2>3 DEF ImportSigned, ImportManual, Rescan, SaveScan, AnswerImport, Crash
  <2>4. CASE UNCHANGED vars
    BY <2>4 DEF vars
  <2> QED
    BY <2>1, <2>2, <2>3, <2>4 DEF Next
<1> QED
  BY <1>1, <1>2, TypeCorrect, PTL DEF Spec, KeepsPromise, Promise!Spec
=============================================================================
