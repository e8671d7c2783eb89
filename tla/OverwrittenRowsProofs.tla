----------------------- MODULE OverwrittenRowsProofs -----------------------
(* Registries that read a row, change it and save it whole, for any number *)
(* of handlers, rows and saves.  Incidents and remediations: every saved   *)
(* record is well formed and legal.  Principals, delegations and machine   *)
(* accounts: a walk of delegations confirms what is there, and what was    *)
(* written is stored unless an outdated row was saved.  Models: decisions  *)
(* are stored with what they rest on.  Recurring jobs: every record is     *)
(* coherent, and a run is counted and over.  What is reported of an        *)
(* agent's session: its summary says what was saved of it, unless one was  *)
(* saved over one that was not read.                                       *)
EXTENDS OverwrittenRows, TLAPS, FiniteSetTheorems

(* A record that may be saved: what is in flight needs the same property   *)
(* as what is stored, because a save copies one over the other.            *)
Sound(id, record) ==
    /\ record \in Record
    /\ Len(record.notes) <= MaxNotes
    /\ LegalTrail(id, record)

InFlightIsSound == \A w \in Handlers : job[w] # Idle => Sound(job[w].id, job[w].record)

(* What a handler is about to save goes on from the stored record, is a     *)
(* new record, or is known to be outdated.                                 *)
Current(id, record) ==
    table[id] # Absent => Continues(record, table[id]) \/ record.history = <<First(id)>>

InFlightIsCurrent ==
    \A w \in Handlers : job[w] # Idle /\ w \notin outdated => Current(job[w].id, job[w].record)

IInv == TypeOK /\ TrailIsLegal /\ InFlightIsSound /\ InFlightIsCurrent

USE CasesAssumption
-----------------------------------------------------------------------------
(* Notes never outgrow _MAX_NOTES (add_incident_note, lines 248-251).      *)
LEMMA WithNoteBounded ==
    ASSUME NEW notes \in Seq(Notes), NEW note \in Notes, Len(notes) <= MaxNotes
    PROVE  /\ WithNote(notes, note) \in Seq(Notes)
           /\ Len(WithNote(notes, note)) <= MaxNotes
<1> DEFINE all == Append(notes, note)
<1>1. all \in Seq(Notes) /\ Len(all) = Len(notes) + 1
  OBVIOUS
<1>2. Len(all) > 0 => Tail(all) \in Seq(Notes) /\ Len(Tail(all)) = Len(all) - 1
  BY <1>1
<1> QED
  BY <1>1, <1>2 DEF WithNote

(* A change that the transition guard admits extends a legal trail to a    *)
(* legal trail (update_incident_state, update_remediation_status).         *)
LEMMA MovedSound ==
    ASSUME NEW id \in Cases, NEW record, Sound(id, record),
           NEW new \in States, MayFollow(id, record.state, new)
    PROVE  Sound(id, Moved(record, new))
<1> DEFINE moved == Moved(record, new)
           trail == record.history
<1>1. record \in Record /\ Len(record.notes) <= MaxNotes /\ LegalTrail(id, record)
  BY DEF Sound
<1>2. trail \in Seq(States) /\ record.state \in States /\ record.closed \in BOOLEAN
  BY <1>1 DEF Record
<1>3. /\ moved.state = new
      /\ moved.history = Append(trail, new)
      /\ moved.closed = (record.closed \/ new \in Terminal)
      /\ moved.notes = record.notes
  BY <1>1 DEF Moved, Record
<1>4. moved \in Record
  <2>1. Append(trail, new) \in Seq(States)
    BY <1>2
  <2>2. (record.closed \/ new \in Terminal) \in BOOLEAN
    OBVIOUS
  <2> QED
    BY <1>1, <1>2, <2>1, <2>2 DEF Moved, Record
<1>5. record.state \notin Terminal
  BY DEF MayFollow, Reachable, Terminal
<1>6. moved.closed <=> new \in Terminal
  BY <1>1, <1>3, <1>5 DEF LegalTrail
<1>7. /\ Len(moved.history) > 0 /\ moved.history[1] = First(id)
      /\ moved.state = moved.history[Len(moved.history)]
  BY <1>1, <1>2, <1>3 DEF LegalTrail
<1>8. ASSUME NEW i \in 1..Len(moved.history) - 1
      PROVE  MayFollow(id, moved.history[i], moved.history[i + 1])
  <2>1. CASE i < Len(trail)
    <3>1. i \in 1..Len(trail) - 1 /\ MayFollow(id, trail[i], trail[i + 1])
      BY <1>1, <1>2, <1>3, <2>1 DEF LegalTrail
    <3>2. moved.history[i] = trail[i] /\ moved.history[i + 1] = trail[i + 1]
      BY <1>2, <1>3, <2>1
    <3> QED
      BY <3>1, <3>2
  <2>2. CASE i = Len(trail)
    <3>1. moved.history[i] = record.state /\ moved.history[i + 1] = new
      BY <1>1, <1>2, <1>3, <2>2 DEF LegalTrail
    <3> QED
      BY <3>1
  <2> QED
    BY <1>2, <1>3, <2>1, <2>2
<1> QED
  BY <1>1, <1>3, <1>4, <1>6, <1>7, <1>8 DEF Sound, LegalTrail

(* A record goes on from another one that has the same state and history.  *)
LEMMA SameContinues ==
    ASSUME NEW id \in Cases, NEW old, Sound(id, old),
           NEW record, record.state = old.state, record.history = old.history
    PROVE  Continues(record, old)
<1>1. old.history \in Seq(States)
  BY DEF Sound, Record
<1> QED
  BY <1>1 DEF Continues, Extends

(* A transition appends to the history, and there is none from a terminal  *)
(* state.                                                                  *)
LEMMA MovedContinues ==
    ASSUME NEW id \in Cases, NEW old, Sound(id, old),
           NEW new \in States, MayFollow(id, old.state, new)
    PROVE  Continues(Moved(old, new), old)
<1>1. old.history \in Seq(States) /\ old \in Record
  BY DEF Sound, Record
<1>2. old.state \notin Terminal
  BY DEF MayFollow, Reachable, Terminal
<1>3. Moved(old, new).history = Append(old.history, new)
  BY <1>1 DEF Moved, Record
<1>4. Extends(Append(old.history, new), old.history)
  BY <1>1 DEF Extends
<1> QED
  BY <1>2, <1>3, <1>4 DEF Continues
-----------------------------------------------------------------------------
(* What is stored is sound.                                                *)
LEMMA StoredSound ==
    ASSUME IInv, NEW id \in Cases, table[id] # Absent
    PROVE  Sound(id, table[id])
  BY DEF IInv, TypeOK, TrailIsLegal, Sound

(* A handler that prepares a sound record keeps the invariant.             *)
LEMMA PrepareKeeps ==
    ASSUME IInv, NEW w \in Handlers, NEW id \in Cases, NEW record, Sound(id, record),
           Current(id, record), Prepare(w, id, record)
    PROVE  IInv'
<1>1. /\ table' = table /\ saves' = saves /\ outdated' = outdated \ {w}
      /\ job' = [job EXCEPT ![w] = [at |-> "save", id |-> id, record |-> record]]
  BY DEF Prepare
<1>2. [at |-> "save", id |-> id, record |-> record] \in Job
  BY DEF Job, Sound
<1>3. TypeOK'
  BY <1>1, <1>2 DEF IInv, TypeOK
<1>4. TrailIsLegal'
  BY <1>1 DEF IInv, TrailIsLegal
<1>5. InFlightIsSound'
  <2> SUFFICES ASSUME NEW v \in Handlers, job'[v] # Idle
               PROVE  Sound(job'[v].id, job'[v].record)
    BY DEF InFlightIsSound
  <2>1. CASE v = w
    BY <1>1, <2>1 DEF IInv, TypeOK
  <2>2. CASE v # w
    BY <1>1, <2>2 DEF IInv, TypeOK, InFlightIsSound
  <2> QED
    BY <2>1, <2>2
<1>6. InFlightIsCurrent'
  <2> SUFFICES ASSUME NEW v \in Handlers, job'[v] # Idle, v \notin outdated',
                      table'[job'[v].id] # Absent
               PROVE  \/ Continues(job'[v].record, table'[job'[v].id])
                      \/ job'[v].record.history = <<First(job'[v].id)>>
    BY DEF InFlightIsCurrent, Current
  <2>1. CASE v = w
    BY <1>1, <2>1 DEF IInv, TypeOK, Current
  <2>2. CASE v # w
    BY <1>1, <2>2 DEF IInv, TypeOK, InFlightIsCurrent, Current
  <2> QED
    BY <2>1, <2>2
<1> QED
  BY <1>3, <1>4, <1>5, <1>6 DEF IInv

LEMMA CreateKeeps ==
    ASSUME IInv, NEW w \in Handlers, NEW id \in Cases, NEW incident \in Incidents \cup {Absent},
           Create(w, id, incident)
    PROVE  IInv'
<1> DEFINE record == [state |-> First(id), history |-> <<First(id)>>, closed |-> FALSE,
                      notes |-> <<>>, incident |-> incident]
<1>1. First(id) \in States /\ First(id) \notin Terminal
  BY DEF First, States, IncidentStates, RemediationStates, Terminal
<1>2. Sound(id, record)
  <2>1. record \in Record
    BY <1>1 DEF Record
  <2>2. LegalTrail(id, record)
    BY <1>1 DEF LegalTrail
  <2> QED
    BY <2>1, <2>2 DEF Sound
<1>3. Current(id, record)
  BY DEF Current
<1> QED
  BY <1>2, <1>3, PrepareKeeps DEF Create

LEMMA MoveKeeps ==
    ASSUME IInv, NEW w \in Handlers, NEW id \in Cases, NEW new \in States, Move(w, id, new)
    PROVE  IInv'
<1>1. Sound(id, table[id]) /\ table[id] # Absent /\ MayFollow(id, table[id].state, new)
  BY StoredSound DEF Move
<1>2. Sound(id, Moved(table[id], new))
  BY <1>1, MovedSound
<1>3. Current(id, Moved(table[id], new))
  BY <1>1, MovedContinues DEF Current
<1> QED
  BY <1>2, <1>3, PrepareKeeps DEF Move

LEMMA AddNoteKeeps ==
    ASSUME IInv, NEW w \in Handlers, NEW id \in Cases, NEW note \in Notes, AddNote(w, id, note)
    PROVE  IInv'
<1> DEFINE record == [table[id] EXCEPT !.notes = WithNote(@, note)]
<1>1. Sound(id, table[id]) /\ table[id] \in Record
  BY StoredSound DEF AddNote, Sound
<1>2. table[id].notes \in Seq(Notes) /\ Len(table[id].notes) <= MaxNotes
  BY <1>1 DEF Record, Sound
<1>3. /\ WithNote(table[id].notes, note) \in Seq(Notes)
      /\ Len(WithNote(table[id].notes, note)) <= MaxNotes
  BY <1>2, WithNoteBounded
<1>4. record \in Record
  BY <1>1, <1>3 DEF Record
<1>5. /\ record.state = table[id].state /\ record.history = table[id].history
      /\ record.closed = table[id].closed /\ record.notes = WithNote(table[id].notes, note)
  BY <1>1 DEF Record
<1>6. Sound(id, record)
  BY <1>1, <1>3, <1>4, <1>5 DEF Sound, LegalTrail
<1>7. Current(id, record)
  BY <1>1, <1>5, SameContinues DEF Current
<1> QED
  BY <1>6, <1>7, PrepareKeeps DEF AddNote

LEMMA LinkKeeps ==
    ASSUME IInv, NEW w \in Handlers, NEW id \in Cases, NEW incident \in Incidents,
           Link(w, id, incident)
    PROVE  IInv'
<1> DEFINE record == [table[id] EXCEPT !.incident = incident]
<1>1. Sound(id, table[id]) /\ table[id] \in Record
  BY StoredSound DEF Link, Sound
<1>2. record \in Record
  BY <1>1 DEF Record
<1>3. /\ record.state = table[id].state /\ record.history = table[id].history
      /\ record.closed = table[id].closed /\ record.notes = table[id].notes
  BY <1>1 DEF Record
<1>4. Sound(id, record)
  BY <1>1, <1>2, <1>3 DEF Sound, LegalTrail
<1>5. Current(id, record)
  BY <1>1, <1>3, SameContinues DEF Current
<1> QED
  BY <1>4, <1>5, PrepareKeeps DEF Link

LEMMA SaveKeeps ==
    ASSUME IInv, NEW w \in Handlers, Save(w)
    PROVE  IInv'
<1> DEFINE id == job[w].id
           record == job[w].record
<1>1. id \in Cases /\ Sound(id, record) /\ record \in Record
  BY DEF Save, IInv, TypeOK, Job, InFlightIsSound, Sound
<1>2. /\ table' = [table EXCEPT ![id] = record]
      /\ job' = [job EXCEPT ![w] = Idle]
      /\ outdated' = (outdated \cup Overtaken(w)) \ {w}
      /\ saves' \in 0..MaxSaves
  BY DEF Save, IInv, TypeOK
<1>3. \A c \in Cases : table'[c] = IF c = id THEN record ELSE table[c]
  BY <1>2 DEF IInv, TypeOK
<1>4. Idle \in Job
  BY DEF Job
<1>5. /\ table' \in [Cases -> Record \cup {Absent}] /\ job' \in [Handlers -> Job]
      /\ outdated' \subseteq Handlers
  BY <1>1, <1>2, <1>4 DEF IInv, TypeOK, Overtaken
<1>6. TypeOK'
  BY <1>1, <1>2, <1>3, <1>5 DEF IInv, TypeOK, Sound
<1>7. TrailIsLegal'
  BY <1>1, <1>3 DEF IInv, TrailIsLegal, Sound
<1>8. InFlightIsSound'
  BY <1>2 DEF IInv, TypeOK, InFlightIsSound
<1>9. InFlightIsCurrent'
  <2> SUFFICES ASSUME NEW v \in Handlers, job'[v] # Idle, v \notin outdated',
                      table'[job'[v].id] # Absent
               PROVE  \/ Continues(job'[v].record, table'[job'[v].id])
                      \/ job'[v].record.history = <<First(job'[v].id)>>
    BY DEF InFlightIsCurrent, Current
  <2>1. v # w /\ job'[v] = job[v] /\ v \notin outdated /\ job[v].id # id
    BY <1>2 DEF IInv, TypeOK, Overtaken
  <2>2. job[v].id \in Cases /\ Current(job[v].id, job[v].record)
    BY <2>1 DEF IInv, TypeOK, Job, InFlightIsCurrent
  <2>3. table'[job[v].id] = table[job[v].id]
    BY <1>3, <2>1, <2>2
  <2> QED
    BY <2>1, <2>2, <2>3 DEF Current
<1> QED
  BY <1>6, <1>7, <1>8, <1>9 DEF IInv

LEMMA CrashKeeps ==
    ASSUME IInv, NEW w \in Handlers, Crash(w)
    PROVE  IInv'
<1>1. /\ table' = table /\ saves' = saves /\ outdated' = outdated \ {w}
      /\ job' = [job EXCEPT ![w] = Idle]
  BY DEF Crash
<1>2. Idle \in Job
  BY DEF Job
<1>3. TypeOK'
  BY <1>1, <1>2 DEF IInv, TypeOK
<1>4. TrailIsLegal' /\ InFlightIsSound'
  BY <1>1 DEF IInv, TypeOK, TrailIsLegal, InFlightIsSound
<1>5. InFlightIsCurrent'
  BY <1>1 DEF IInv, TypeOK, InFlightIsCurrent, Current
<1> QED
  BY <1>3, <1>4, <1>5 DEF IInv
-----------------------------------------------------------------------------
LEMMA InitIInv == Init => IInv
<1> SUFFICES ASSUME Init PROVE IInv
  OBVIOUS
<1>1. Idle \in Job
  BY DEF Job
<1> QED
  BY <1>1 DEF Init, IInv, TypeOK, TrailIsLegal, InFlightIsSound, InFlightIsCurrent

LEMMA NextKeeps == IInv /\ [Next]_vars => IInv'
<1> SUFFICES ASSUME IInv, [Next]_vars PROVE IInv'
  OBVIOUS
<1>1. ASSUME NEW w \in Handlers, NEW id \in Cases, NEW incident \in Incidents \cup {Absent},
             Create(w, id, incident)
      PROVE  IInv'
  BY <1>1, CreateKeeps
<1>2. ASSUME NEW w \in Handlers, NEW id \in Cases, NEW new \in States, Move(w, id, new)
      PROVE  IInv'
  BY <1>2, MoveKeeps
<1>3. ASSUME NEW w \in Handlers, NEW id \in Cases, NEW note \in Notes, AddNote(w, id, note)
      PROVE  IInv'
  BY <1>3, AddNoteKeeps
<1>4. ASSUME NEW w \in Handlers, NEW id \in Cases, NEW incident \in Incidents,
             Link(w, id, incident)
      PROVE  IInv'
  BY <1>4, LinkKeeps
<1>5. ASSUME NEW w \in Handlers, Save(w) PROVE IInv'
  BY <1>5, SaveKeeps
<1>6. ASSUME NEW w \in Handlers, Crash(w) PROVE IInv'
  BY <1>6, CrashKeeps
<1>7. CASE UNCHANGED vars
  BY <1>7 DEF vars, IInv, TypeOK, TrailIsLegal, InFlightIsSound,
              InFlightIsCurrent, Current
<1> QED
  BY <1>1, <1>2, <1>3, <1>4, <1>5, <1>6, <1>7 DEF Next

THEOREM Invariant == Spec => []IInv
  BY InitIInv, NextKeeps, PTL DEF Spec

(* Whatever handlers overwrite each other, the stored record of a case     *)
(* tells a legal life: first state, allowed steps, current state last,     *)
(* closed exactly when that is terminal.                                   *)
THEOREM TrailAlwaysLegal == Spec => []TrailIsLegal
<1>1. IInv => TrailIsLegal
  BY DEF IInv
<1> QED
  BY Invariant, <1>1, PTL

(* A stored record goes on, starts anew, or is what a handler that read    *)
(* before another saved has in hand.                                       *)
LEMMA LossIsOverlap ==
    ASSUME IInv, Next, NEW id \in Cases, table[id] # Absent
    PROVE  \/ Continues(table'[id], table[id])
           \/ table'[id].history = <<First(id)>>
           \/ \E w \in outdated : table'[id] = job[w].record
<1> DEFINE Goes == \/ Continues(table'[id], table[id])
                   \/ table'[id].history = <<First(id)>>
                   \/ \E w \in outdated : table'[id] = job[w].record
<1>1. ASSUME table'[id] = table[id]
      PROVE  Goes
  BY <1>1, StoredSound, SameContinues
<1>2. ASSUME NEW w \in Handlers, Save(w)
      PROVE  Goes
  <2>1. CASE id # job[w].id
    BY <1>1, <1>2, <2>1 DEF Save, IInv, TypeOK
  <2>2. CASE id = job[w].id /\ w \in outdated
    BY <1>2, <2>2 DEF Save, IInv, TypeOK
  <2>3. CASE id = job[w].id /\ w \notin outdated
    <3>1. table'[id] = job[w].record
      BY <1>2, <2>3 DEF Save, IInv, TypeOK
    <3>2. Current(id, job[w].record)
      BY <1>2, <2>3 DEF Save, IInv, InFlightIsCurrent
    <3> QED
      BY <3>1, <3>2 DEF Current
  <2> QED
    BY <2>1, <2>2, <2>3
<1>3. (\E w \in Handlers : Save(w)) \/ table' = table
  BY DEF Next, Create, Move, AddNote, Link, Prepare, Crash
<1> QED
  BY <1>1, <1>2, <1>3

(* A transition that was saved is lost only when a handler saves a copy it  *)
(* read before, or creates the case anew.                                  *)
THEOREM OnlyOverlapLoses == Spec => LostOnlyToOverlap
<1>1. IInv /\ [Next]_vars
      => [\A id \in Cases : table[id] # Absent =>
             \/ Continues(table'[id], table[id])
             \/ table'[id].history = <<First(id)>>
             \/ \E w \in outdated : table'[id] = job[w].record]_vars
  BY LossIsOverlap
<1> QED
  BY Invariant, <1>1, PTL DEF Spec, LostOnlyToOverlap

(* Records stay well formed, and no more than _MAX_NOTES notes are kept.   *)
THEOREM TypeCorrect == Spec => []TypeOK
<1>1. IInv => TypeOK
  BY DEF IInv
<1> QED
  BY Invariant, <1>1, PTL
-----------------------------------------------------------------------------
(* Identities: who may act for whom, and machine accounts.                 *)

(* A set of principals that whoever they act for belongs to, and those     *)
(* that principals act for by the delegations of this moment.              *)
Closed(S) == \A s \in S, d \in Delegations :
                 d \in Trust!DelegatedTo(s) => delegations[d].terms.delegator \in S
ReachedFrom(X) == {q \in Principals : \A S \in SUBSET Principals : X \subseteq S /\ Closed(S) => q \in S}

(* What a walk in progress could still confirm, were nothing to change.    *)
Potential(c) ==
    \/ Trust!Covers(c.scope, c.request)
    \/ \E q \in ReachedFrom(c.pending) :
          \E d \in Trust!DelegatedTo(q) : Trust!Covers(delegations[d].terms.scope, c.request)

(* What a walk knows unless somebody was given something meanwhile: it has *)
(* seen all delegations that those it visited still have, and confirms no  *)
(* more than there was when it began.                                      *)
WalkSound(c) ==
    /\ principals[c.principal] # Absent
    /\ ~Trust!Covers(principals[c.principal].capabilities, c.request)
    /\ c.principal \in c.visited \cup c.pending
    /\ \A q \in c.visited : \A d \in Trust!DelegatedTo(q) :
          /\ delegations[d].terms.scope \subseteq c.scope
          /\ delegations[d].terms.delegator \in c.visited \cup c.pending
    /\ Potential(c) => c.could

LEMMA CoversMore ==
    ASSUME NEW A, NEW B, A \subseteq B, NEW request, Trust!Covers(A, request)
    PROVE  Trust!Covers(B, request)
BY DEF Trust!Covers

LEMMA CoversUnion ==
    ASSUME NEW A, NEW D, NEW request,
           Trust!Covers(A \cup UNION {delegations[d].terms.scope : d \in D}, request)
    PROVE  Trust!Covers(A, request) \/ \E d \in D : Trust!Covers(delegations[d].terms.scope, request)
BY DEF Trust!Covers

LEMMA ActsForIsReached == \A p : Trust!ActsFor(p) = ReachedFrom({p})
BY DEF Trust!ActsFor, ReachedFrom, Closed

LEMMA ReachedStays ==
    ASSUME NEW X, X \subseteq Principals
    PROVE  /\ X \subseteq ReachedFrom(X)
           /\ \A S \in SUBSET Principals : X \subseteq S /\ Closed(S) => ReachedFrom(X) \subseteq S
           /\ \A Y : Y \subseteq ReachedFrom(X) => ReachedFrom(Y) \subseteq ReachedFrom(X)
BY DEF ReachedFrom

(* Whom somebody that is reached acts for is reached.                      *)
LEMMA DelegatorsAreReached ==
    ASSUME Trust!IdentitiesAssumption, Trust!TypeOK, NEW X, X \subseteq Principals, NEW q \in ReachedFrom(X),
           NEW d \in Trust!DelegatedTo(q)
    PROVE  delegations[d].terms.delegator \in ReachedFrom(X)
<1>1. d \in Delegations /\ delegations[d] \in Trust!Delegation
  BY DEF Trust!DelegatedTo, Trust!Active, Trust!TypeOK
<1>2. delegations[d].terms.delegator \in Principals
  BY <1>1 DEF Trust!Delegation, Trust!IdentitiesAssumption
<1> QED
  BY <1>1, <1>2 DEF ReachedFrom, Closed

(* While delegations only end, a walk remains sound.                       *)
LEMMA WalkStays ==
    ASSUME NEW c, WalkSound(c),
           \A d \in Delegations : Trust!Active(d)' => Trust!Active(d) /\ delegations'[d] = delegations[d],
           principals'[c.principal] # Absent,
           principals'[c.principal].capabilities = principals[c.principal].capabilities
    PROVE  WalkSound(c)'
<1>1. \A q : \A d \in Trust!DelegatedTo(q)' : d \in Trust!DelegatedTo(q) /\ delegations'[d] = delegations[d]
  BY DEF Trust!DelegatedTo
<1>2. \A S : Closed(S) => Closed(S)'
  BY <1>1 DEF Closed
<1>3. ReachedFrom(c.pending)' \subseteq ReachedFrom(c.pending)
  BY <1>2 DEF ReachedFrom
<1>4. Potential(c)' => Potential(c)
  BY <1>1, <1>3 DEF Potential
<1> QED
  BY <1>1, <1>4 DEF WalkSound

(* The walk goes on to the delegators of one principal.                    *)
LEMMA FollowKeeps ==
    ASSUME Trust!IdentitiesAssumption, Trust!TypeOK, NEW w \in Handlers, authorityCall[w].at = "chain", WalkSound(authorityCall[w]),
           NEW q \in authorityCall[w].pending
    PROVE  WalkSound(Trust!Follow(w, q))
<1> DEFINE c == authorityCall[w]
           direct == Trust!DelegatedTo(q)
           delegators == {delegations[d].terms.delegator : d \in direct}
           f == Trust!Follow(w, q)
<1>1. c \in [at : {"chain"}, principal : Principals, request : Requests, visited : SUBSET Principals,
              pending : SUBSET Principals, scope : SUBSET UNION {t.scope : t \in Terms},
              could : BOOLEAN, fresh : BOOLEAN]
  BY DEF Trust!TypeOK, Trust!Call, Trust!Idle, Trust!Save
<1>2. /\ f.principal = c.principal /\ f.request = c.request /\ f.could = c.could
      /\ f.visited = c.visited \cup {q}
      /\ f.pending = (c.pending \cup delegators) \ (c.visited \cup {q})
      /\ f.scope = c.scope \cup UNION {delegations[d].terms.scope : d \in direct}
  BY <1>1 DEF Trust!Follow
<1>3. delegators \subseteq ReachedFrom(c.pending) /\ c.pending \subseteq ReachedFrom(c.pending)
  BY <1>1, ReachedStays, DelegatorsAreReached
<1>4. ReachedFrom(f.pending) \subseteq ReachedFrom(c.pending)
  BY <1>1, <1>2, <1>3, ReachedStays
<1>5. Trust!Covers(f.scope, c.request) => Potential(c)
  <2>1. Trust!Covers(f.scope, c.request)
        => Trust!Covers(c.scope, c.request) \/ \E d \in direct : Trust!Covers(delegations[d].terms.scope, c.request)
    BY <1>2, CoversUnion
  <2>2. q \in ReachedFrom(c.pending)
    BY <1>3
  <2> QED
    BY <2>1, <2>2 DEF Potential
<1>6. Potential(f) => Potential(c)
  BY <1>2, <1>4, <1>5 DEF Potential
<1>7. ASSUME NEW p \in f.visited, NEW d \in Trust!DelegatedTo(p)
      PROVE  delegations[d].terms.scope \subseteq f.scope /\ delegations[d].terms.delegator \in f.visited \cup f.pending
  BY <1>2, <1>7 DEF WalkSound
<1> QED
  BY <1>2, <1>6, <1>7 DEF WalkSound

(* Its end: nobody is left to ask, so that whom the principal acts for has *)
(* been visited.                                                           *)
LEMMA WalkEnds ==
    ASSUME Trust!IdentitiesAssumption, Trust!TypeOK, NEW c, WalkSound(c), c.pending = {},
           c.visited \subseteq Principals
    PROVE  /\ Trust!Covers(c.scope, c.request) => c.could
           /\ Trust!HasAuthority(c.principal, c.request) => Trust!Covers(c.scope, c.request)
<1>1. Trust!Covers(c.scope, c.request) => c.could
  BY DEF WalkSound, Potential
<1>2. Closed(c.visited) /\ c.principal \in c.visited
  BY DEF WalkSound, Closed
<1>3. Trust!ActsFor(c.principal) \subseteq c.visited
  BY <1>2, ActsForIsReached DEF ReachedFrom
<1>4. ASSUME NEW q \in Trust!ActsFor(c.principal), NEW d \in Trust!DelegatedTo(q),
             Trust!Covers(delegations[d].terms.scope, c.request)
      PROVE  Trust!Covers(c.scope, c.request)
  <2>1. delegations[d].terms.scope \subseteq c.scope
    BY <1>3 DEF WalkSound
  <2> QED
    BY <1>4, <2>1, CoversMore
<1> QED
  BY <1>1, <1>4 DEF Trust!HasAuthority, WalkSound
-----------------------------------------------------------------------------
LegalLife(account) ==
    LET past == account.state_history IN
    /\ Len(past) > 0 /\ past[1] = "PENDING" /\ past[Len(past)] = account.state
    /\ \A i \in 1..Len(past) - 1 : past[i + 1] \in Trust!Transitions[past[i]]

(* What a handler in progress relies on: the row it read was there, and    *)
(* what it will save differs from that in what it says it wrote.           *)
CallSound(c) ==
    /\ c.at = "save" /\ c.row \in Principals =>
          /\ principals[c.row] # Absent
          /\ c.new.capabilities = IF c.wrote = Keep THEN c.read.capabilities ELSE c.wrote
    /\ c.at = "save" /\ c.row \in Delegations =>
          /\ delegations[c.row] # Absent /\ c.new.terms = c.read.terms
          /\ c.read.status = "ACTIVE" /\ c.new.status # "ACTIVE"
          /\ c.new.status = "EXPIRED" => Trust!Expired(c.new.terms)
          /\ c.wrote.revoked = (c.new.status = "REVOKED")
    /\ c.at = "save" /\ c.row \in Accounts =>
          /\ accounts[c.row] # Absent /\ LegalLife(c.new)
          /\ c.new.state = IF "state" \in DOMAIN c.wrote THEN c.wrote.state ELSE c.read.state
          /\ c.new.scopes = IF "scopes" \in DOMAIN c.wrote THEN c.wrote.scopes ELSE c.read.scopes
    /\ c.at = "chain" /\ c.fresh => WalkSound(c)
    /\ c.at = "answered" /\ c.fresh => (c.answer => c.could) /\ (c.can => c.answer)

RowsSound ==
    /\ \A p \in Principals : principals[p] # Absent =>
          written[p] # Absent /\ (p \notin lostRows => principals[p].capabilities = written[p])
    /\ \A d \in Delegations : delegations[d] # Absent =>
          LET status == delegations[d].status IN
          /\ written[d] # Absent /\ (written[d].revoked => status # "ACTIVE")
          /\ status = "EXPIRED" => Trust!Expired(delegations[d].terms)
          /\ d \notin lostRows => /\ delegations[d].terms = written[d].terms
                              /\ (status = "REVOKED") = written[d].revoked
    /\ \A n \in Accounts : accounts[n] # Absent =>
          /\ written[n] # Absent /\ LegalLife(accounts[n])
          /\ n \notin lostRows => accounts[n].state = written[n].state /\ accounts[n].scopes = written[n].scopes

IdentitiesInv == Trust!TypeOK /\ RowsSound /\ \A w \in Handlers : CallSound(authorityCall[w])

(* Rows stay, and time goes on.                                            *)
RowsStay == /\ \A p \in Principals : principals[p] # Absent => principals'[p] # Absent
            /\ \A d \in Delegations : delegations[d] # Absent => delegations'[d] # Absent
            /\ \A n \in Accounts : accounts[n] # Absent => accounts'[n] # Absent
            /\ now' \in Nat /\ now' >= now
(* Nobody is given something.                                              *)
NothingGiven ==
    /\ \A d \in Delegations : Trust!Active(d)' => Trust!Active(d) /\ delegations'[d] = delegations[d]
    /\ \A p \in Principals : principals[p] # Absent => principals'[p].capabilities = principals[p].capabilities

LEMMA ExpiryIsFinal ==
    ASSUME Trust!IdentitiesAssumption, now \in Nat, now' \in Nat, now' >= now, NEW terms \in Terms, Trust!Expired(terms)
    PROVE  Trust!Expired(terms)'
BY DEF Trust!Expired, Trust!IdentitiesAssumption

LEMMA SaveParts ==
    ASSUME Trust!IdentitiesAssumption, NEW c \in Trust!Call, c.at = "save"
    PROVE  /\ c.row \in Principals => c \in Trust!Save(Principals, Trust!Principal, Scopes \cup {Keep})
           /\ c.row \in Delegations => c \in Trust!Save(Delegations, Trust!Delegation, [revoked : BOOLEAN])
           /\ c.row \in Accounts => c \in Trust!Save(Accounts, Trust!Account, [state : Trust!States] \cup [scopes : Scopes])
BY DEF Trust!Call, Trust!Save, Trust!Idle, Trust!IdentitiesAssumption

LEMMA CallStays ==
    ASSUME Trust!IdentitiesAssumption, Trust!TypeOK, NEW c \in Trust!Call, CallSound(c), RowsStay,
           c.at = "chain" => NothingGiven
    PROVE  CallSound(c)'
<1>1. c.at = "save" /\ c.row \in Delegations => c.new.terms \in Terms
  BY SaveParts DEF Trust!Save, Trust!Delegation
<1>2. c.at = "save" /\ c.row \in Delegations /\ c.new.status = "EXPIRED" => Trust!Expired(c.new.terms)'
  BY <1>1, ExpiryIsFinal DEF CallSound, RowsStay, Trust!TypeOK
<1>3. c.at = "chain" /\ c.fresh => WalkSound(c)'
  <2>1. c.at = "chain" => c.principal \in Principals
    BY DEF Trust!Call, Trust!Idle, Trust!Save
  <2> QED
    BY <2>1, WalkStays DEF CallSound, WalkSound, NothingGiven, RowsStay
<1> QED
  BY <1>2, <1>3 DEF CallSound, RowsStay

(* One handler goes on; walks of the others go on knowing what they knew,  *)
(* or know that they may not.                                              *)
LEMMA CallsStay ==
    ASSUME Trust!IdentitiesAssumption, IdentitiesInv, RowsStay, NEW w \in Handlers, NEW next \in Trust!Call,
           CallSound(next)',
           \/ authorityCall' = [authorityCall EXCEPT ![w] = next] /\ NothingGiven
           \/ authorityCall' = Trust!Outdated([authorityCall EXCEPT ![w] = next]) /\ next.at # "chain"
    PROVE  authorityCall' \in [Handlers -> Trust!Call] /\ \A u \in Handlers : CallSound(authorityCall[u])'
<1>1. authorityCall \in [Handlers -> Trust!Call] /\ Trust!TypeOK /\ \A u \in Handlers : CallSound(authorityCall[u])
  BY DEF IdentitiesInv, Trust!TypeOK
<1>2. ASSUME NEW u \in Handlers
      PROVE  authorityCall'[u] \in Trust!Call /\ CallSound(authorityCall[u])'
  <2>1. PICK c \in Trust!Call : c = authorityCall[u] /\ CallSound(c)
    BY <1>1
  <2>2. CASE u = w
    <3>1. authorityCall'[u] = next
      BY <1>1, <2>2 DEF Trust!Outdated
    <3> QED
      BY <3>1
  <2>3. CASE u # w /\ authorityCall'[u] = c /\ (c.at = "chain" => NothingGiven)
    <3>1. CallSound(c)'
      BY <1>1, <2>1, <2>3, CallStays
    <3> QED
      BY <2>3, <3>1
  <2>4. CASE u # w /\ c.at = "chain" /\ authorityCall'[u] = [c EXCEPT !.fresh = FALSE]
    <3>1. c \in [at : {"chain"}, principal : Principals, request : Requests, visited : SUBSET Principals,
                  pending : SUBSET Principals, scope : SUBSET UNION {t.scope : t \in Terms},
                  could : BOOLEAN, fresh : BOOLEAN]
      BY <2>4 DEF Trust!Call, Trust!Idle, Trust!Save
    <3>2. PICK stale : stale = [c EXCEPT !.fresh = FALSE]
      OBVIOUS
    <3>3. stale \in [at : {"chain"}, principal : Principals, request : Requests, visited : SUBSET Principals,
                     pending : SUBSET Principals, scope : SUBSET UNION {t.scope : t \in Terms},
                     could : BOOLEAN, fresh : BOOLEAN]
          /\ stale.fresh = FALSE
      BY <3>1, <3>2
    <3>4. stale \in Trust!Call /\ stale.at = "chain"
      BY <3>3 DEF Trust!Call
    <3>5. CallSound(stale)'
      BY <3>3, <3>4 DEF CallSound
    <3> QED
      BY <2>4, <3>2, <3>4, <3>5
  <2> QED
    BY <1>1, <2>1, <2>2, <2>3, <2>4 DEF Trust!Outdated
<1>3. authorityCall' \in [Handlers -> Trust!Call]
  <2>1. DOMAIN authorityCall' = Handlers /\ authorityCall' = [u \in Handlers |-> authorityCall'[u]]
    BY <1>1 DEF Trust!Outdated
  <2> QED
    BY <1>2, <2>1
<1> QED
  BY <1>2, <1>3

(* A step that saves nothing.                                              *)
LEMMA NothingSaved ==
    ASSUME Trust!IdentitiesAssumption, IdentitiesInv, UNCHANGED <<Trust!registryVars, now>>, NEW w \in Handlers,
           NEW next \in Trust!Call, CallSound(next), authorityCall' = [authorityCall EXCEPT ![w] = next]
    PROVE  IdentitiesInv'
<1>1. RowsStay /\ NothingGiven
  BY DEF RowsStay, NothingGiven, Trust!registryVars, Trust!Active, Trust!Expired, IdentitiesInv, Trust!TypeOK
<1>2. CallSound(next)'
  BY <1>1, CallStays DEF IdentitiesInv
<1>3. authorityCall' \in [Handlers -> Trust!Call] /\ \A u \in Handlers : CallSound(authorityCall[u])'
  BY <1>1, <1>2, CallsStay
<1>4. Trust!TypeOK'
  BY <1>3 DEF IdentitiesInv, Trust!TypeOK, Trust!registryVars
<1>5. RowsSound'
  BY DEF IdentitiesInv, RowsSound, Trust!registryVars, Trust!Expired
<1> QED
  BY <1>3, <1>4, <1>5 DEF IdentitiesInv

(* A step that saves a row of a registry: what is known of the others.     *)
LEMMA IdleIsSound == Trust!Idle \in Trust!Call /\ CallSound(Trust!Idle) /\ CallSound(Trust!Idle)' /\ Trust!Idle.at # "chain"
BY DEF Trust!Idle, Trust!Call, CallSound

LEMMA QuietCalls ==
    ASSUME Trust!IdentitiesAssumption, IdentitiesInv, NEW w \in Handlers,
           \/ \E p \in Principals : \/ Trust!WalkChain(w, p)
                                    \/ \E scope \in Scopes \cup {Keep} : Trust!UpdatePrincipal(w, p, scope)
                                    \/ \E request \in Requests : Trust!VerifyAuthority(w, p, request)
           \/ \E d \in Delegations, revoke \in BOOLEAN : Trust!ReadDelegation(w, d, revoke)
           \/ \E n \in Accounts : \/ \E scope \in Scopes : Trust!UpdateAccount(w, n, scope)
                                  \/ \E state \in Trust!States : Trust!UpdateState(w, n, state)
    PROVE  IdentitiesInv'
<1> USE DEF IdentitiesInv
<1>1. ASSUME NEW p \in Principals, Trust!WalkChain(w, p)
      PROVE  IdentitiesInv'
  <2> DEFINE c == authorityCall[w]
             f == Trust!Follow(w, p)
  <2>1. c \in [at : {"chain"}, principal : Principals, request : Requests, visited : SUBSET Principals,
                pending : SUBSET Principals, scope : SUBSET UNION {t.scope : t \in Terms},
                could : BOOLEAN, fresh : BOOLEAN]
    BY <1>1 DEF Trust!WalkChain, Trust!TypeOK, Trust!Call, Trust!Idle, Trust!Save
  <2>2. \A d \in Trust!DelegatedTo(p) : delegations[d].terms \in Terms /\ delegations[d].terms.delegator \in Principals
    BY DEF Trust!DelegatedTo, Trust!Active, Trust!TypeOK, Trust!Delegation, Trust!IdentitiesAssumption
  <2>3. f \in [at : {"chain"}, principal : Principals, request : Requests, visited : SUBSET Principals,
                pending : SUBSET Principals, scope : SUBSET UNION {t.scope : t \in Terms},
                could : BOOLEAN, fresh : BOOLEAN]
        /\ f.fresh = c.fresh /\ f.could = c.could
    <3> DEFINE visited == c.visited \cup {p}
               pending == (c.pending \cup {delegations[d].terms.delegator : d \in Trust!DelegatedTo(p)})
                          \ (c.visited \cup {p})
               scope == c.scope \cup UNION {delegations[d].terms.scope : d \in Trust!DelegatedTo(p)}
    <3>1. visited \in SUBSET Principals /\ pending \in SUBSET Principals
      BY <2>1, <2>2
    <3>2. UNION {delegations[d].terms.scope : d \in Trust!DelegatedTo(p)} \subseteq UNION {t.scope : t \in Terms}
      BY <2>2
    <3>3. scope \in SUBSET UNION {t.scope : t \in Terms}
      BY <2>1, <3>2
    <3>4. f = [c EXCEPT !.visited = visited, !.pending = pending, !.scope = scope]
      BY DEF Trust!Follow
    <3> HIDE DEF visited, pending, scope
    <3> QED
      BY <2>1, <3>1, <3>3, <3>4
  <2>4. c.fresh => WalkSound(f)
    BY <1>1, <2>1, FollowKeeps DEF CallSound, Trust!WalkChain
  <2>5. CASE f.pending # {}
    <3>1. f \in Trust!Call /\ f.at = "chain"
      BY <2>3 DEF Trust!Call
    <3>2. CallSound(f)
      BY <2>3, <2>4, <3>1 DEF CallSound
    <3>3. authorityCall' = [authorityCall EXCEPT ![w] = f]
      BY <1>1, <2>5 DEF Trust!WalkChain
    <3> QED
      BY <1>1, <3>1, <3>2, <3>3, NothingSaved DEF Trust!WalkChain
  <2>6. CASE f.pending = {}
    <3> DEFINE next == [at |-> "answered", answer |-> Trust!Covers(f.scope, f.request), could |-> f.could,
                        can |-> Trust!HasAuthority(f.principal, f.request), fresh |-> f.fresh]
    <3>1. authorityCall' = [authorityCall EXCEPT ![w] = next]
      BY <1>1, <2>6 DEF Trust!WalkChain, Trust!Answer
    <3>2. next \in Trust!Call
      BY <2>3 DEF Trust!Call, Trust!Covers, Trust!HasAuthority
    <3>3. f.fresh => (next.answer => next.could) /\ (next.can => next.answer)
      BY <2>3, <2>4, <2>6, WalkEnds
    <3>4. CallSound(next)
      BY <3>3 DEF CallSound
    <3> QED
      BY <1>1, <3>1, <3>2, <3>4, NothingSaved DEF Trust!WalkChain
  <2> QED
    BY <2>5, <2>6
(* A handler that has read a row.                                          *)
<1>2. ASSUME NEW row, NEW read, NEW new, NEW wrote, Trust!WillSave(w, row, read, new, wrote),
             [at |-> "save", row |-> row, read |-> read, new |-> new, wrote |-> wrote] \in Trust!Call,
             CallSound([at |-> "save", row |-> row, read |-> read, new |-> new, wrote |-> wrote])
      PROVE  IdentitiesInv'
  BY <1>2, NothingSaved DEF Trust!WillSave
<1>3. ASSUME NEW p \in Principals, NEW scope \in Scopes \cup {Keep}, Trust!UpdatePrincipal(w, p, scope)
      PROVE  IdentitiesInv'
  <2> DEFINE read == principals[p]
  <2>1. PICK new : new = IF scope = Keep THEN [read EXCEPT !.trust_level = "UNTRUSTED"]
                         ELSE [read EXCEPT !.capabilities = scope]
    OBVIOUS
  <2>2. read \in Trust!Principal /\ principals[p] # Absent
    BY <1>3 DEF Trust!UpdatePrincipal, Trust!TypeOK
  <2>3. new \in Trust!Principal /\ new.capabilities = IF scope = Keep THEN read.capabilities ELSE scope
    BY <2>1, <2>2 DEF Trust!Principal
  <2> DEFINE next == [at |-> "save", row |-> p, read |-> read, new |-> new, wrote |-> scope]
  <2>4. next \in Trust!Call
    BY <2>2, <2>3 DEF Trust!Call, Trust!Save
  <2>5. CallSound(next)
    BY <2>2, <2>3 DEF CallSound, Trust!IdentitiesAssumption
  <2> QED
    BY <1>2, <1>3, <2>1, <2>4, <2>5 DEF Trust!UpdatePrincipal
<1>4. ASSUME NEW p \in Principals, NEW request \in Requests, Trust!VerifyAuthority(w, p, request)
      PROVE  IdentitiesInv'
  <2>1. CASE principals[p] = Absent \/ Trust!Covers(principals[p].capabilities, request)
    <3> DEFINE next == [at |-> "answered", answer |-> principals[p] # Absent, could |-> Trust!HasAuthority(p, request),
                        can |-> Trust!HasAuthority(p, request), fresh |-> TRUE]
    <3>1. authorityCall' = [authorityCall EXCEPT ![w] = next]
      BY <1>4, <2>1 DEF Trust!VerifyAuthority, Trust!Answer
    <3>2. next \in Trust!Call
      BY DEF Trust!Call, Trust!HasAuthority
    <3>3. CallSound(next)
      BY <2>1 DEF CallSound, Trust!HasAuthority
    <3> QED
      BY <1>4, <3>1, <3>2, <3>3, NothingSaved DEF Trust!VerifyAuthority
  <2>2. CASE principals[p] # Absent /\ ~Trust!Covers(principals[p].capabilities, request)
    <3> DEFINE next == [at |-> "chain", principal |-> p, request |-> request, visited |-> {}, pending |-> {p},
                        scope |-> {}, could |-> Trust!HasAuthority(p, request), fresh |-> TRUE]
    <3>1. authorityCall' = [authorityCall EXCEPT ![w] = next]
      BY <1>4, <2>2 DEF Trust!VerifyAuthority
    <3>2. next \in Trust!Call
      BY DEF Trust!Call, Trust!HasAuthority
    <3>3. Potential(next) => Trust!HasAuthority(p, request)
      BY <2>2, ActsForIsReached DEF Potential, Trust!HasAuthority, Trust!Covers
    <3>4. WalkSound(next)
      BY <2>2, <3>3 DEF WalkSound
    <3>5. CallSound(next)
      BY <3>4 DEF CallSound
    <3> QED
      BY <1>4, <3>1, <3>2, <3>5, NothingSaved DEF Trust!VerifyAuthority
  <2> QED
    BY <2>1, <2>2
<1>5. ASSUME NEW d \in Delegations, NEW revoke \in BOOLEAN, Trust!ReadDelegation(w, d, revoke)
      PROVE  IdentitiesInv'
  <2> DEFINE read == delegations[d]
  <2>1. read \in Trust!Delegation /\ read # Absent /\ read.status = "ACTIVE"
    BY <1>5 DEF Trust!ReadDelegation, Trust!TypeOK
  <2>2. ASSUME NEW new \in Trust!Delegation, NEW revoked \in BOOLEAN, new.terms = read.terms, new.status # "ACTIVE",
               new.status = "EXPIRED" => Trust!Expired(new.terms), revoked = (new.status = "REVOKED"),
               Trust!WillSave(w, d, read, new, [revoked |-> revoked])
        PROVE  IdentitiesInv'
    <3> DEFINE next == [at |-> "save", row |-> d, read |-> read, new |-> new, wrote |-> [revoked |-> revoked]]
    <3>1. next \in Trust!Call
      BY <2>1, <2>2 DEF Trust!Call, Trust!Save
    <3>2. CallSound(next)
      BY <2>1, <2>2 DEF CallSound, Trust!IdentitiesAssumption
    <3> QED
      BY <1>2, <2>2, <3>1, <3>2
  <2>3. CASE Trust!Expired(read.terms)
    <3> DEFINE new == [read EXCEPT !.status = "EXPIRED"]
    <3>1. new \in Trust!Delegation /\ new.terms = read.terms /\ new.status = "EXPIRED"
      BY <2>1 DEF Trust!Delegation
    <3>2. Trust!WillSave(w, d, read, new, [revoked |-> FALSE])
      BY <1>5, <2>3 DEF Trust!ReadDelegation
    <3> HIDE DEF new
    <3> QED
      BY <2>2, <2>3, <3>1, <3>2
  <2>4. CASE ~Trust!Expired(read.terms)
    <3> DEFINE new == [read EXCEPT !.status = "REVOKED"]
    <3>1. new \in Trust!Delegation /\ new.terms = read.terms /\ new.status = "REVOKED"
      BY <2>1 DEF Trust!Delegation
    <3>2. Trust!WillSave(w, d, read, new, [revoked |-> TRUE])
      BY <1>5, <2>4 DEF Trust!ReadDelegation
    <3> HIDE DEF new
    <3> QED
      BY <2>2, <3>1, <3>2
  <2> QED
    BY <2>3, <2>4
<1>6. ASSUME NEW n \in Accounts, NEW scope \in Scopes, Trust!UpdateAccount(w, n, scope)
      PROVE  IdentitiesInv'
  <2> DEFINE read == accounts[n]
  <2>1. PICK new : new = [read EXCEPT !.scopes = scope]
    OBVIOUS
  <2>2. read \in Trust!Account /\ read # Absent /\ LegalLife(read)
    BY <1>6 DEF Trust!UpdateAccount, Trust!TypeOK, RowsSound
  <2>3. /\ new \in Trust!Account /\ new.state = read.state /\ new.state_history = read.state_history
        /\ new.scopes = scope
    BY <2>1, <2>2 DEF Trust!Account
  <2> DEFINE next == [at |-> "save", row |-> n, read |-> read, new |-> new, wrote |-> [scopes |-> scope]]
  <2>4. next \in Trust!Call
    BY <2>2, <2>3 DEF Trust!Call, Trust!Save
  <2>5. CallSound(next)
    BY <2>2, <2>3 DEF CallSound, LegalLife, Trust!IdentitiesAssumption
  <2> QED
    BY <1>2, <1>6, <2>1, <2>4, <2>5 DEF Trust!UpdateAccount
<1>7. ASSUME NEW n \in Accounts, NEW state \in Trust!States, Trust!UpdateState(w, n, state)
      PROVE  IdentitiesInv'
  <2> DEFINE read == accounts[n]
  <2>1. PICK new : new = [read EXCEPT !.state = state, !.state_history = Append(@, state)]
    OBVIOUS
  <2>2. read \in Trust!Account /\ read # Absent /\ LegalLife(read)
    <3>1. accounts[n] # Absent
      BY <1>7 DEF Trust!UpdateState
    <3> QED
      BY <3>1 DEF Trust!TypeOK, RowsSound
  <2>3. /\ new \in Trust!Account /\ new.state = state /\ new.state_history = Append(read.state_history, state)
        /\ new.scopes = read.scopes
    <3>1. Append(read.state_history, state) \in Seq(Trust!States)
      BY <2>2 DEF Trust!Account
    <3> HIDE DEF read
    <3> QED
      BY <2>1, <2>2, <3>1 DEF Trust!Account
  <2>4. LegalLife(new)
    <3>1. state \in Trust!Transitions[read.state]
      BY <1>7 DEF Trust!UpdateState
    <3>2. read.state_history \in Seq(Trust!States) /\ Len(read.state_history) \in Nat
      BY <2>2 DEF Trust!Account
    <3> DEFINE past == read.state_history
               future == new.state_history
    <3>3. /\ Len(future) = Len(past) + 1 /\ future[Len(past) + 1] = state
          /\ \A i \in 1..Len(past) : future[i] = past[i]
      BY <2>3, <3>2
    <3>4. /\ Len(past) > 0 /\ past[1] = "PENDING" /\ past[Len(past)] = read.state
          /\ \A i \in 1..Len(past) - 1 : past[i + 1] \in Trust!Transitions[past[i]]
      BY <2>2 DEF LegalLife
    <3>5. ASSUME NEW i \in 1..Len(future) - 1
          PROVE  future[i + 1] \in Trust!Transitions[future[i]]
      <4>1. CASE i = Len(past)
        BY <3>1, <3>2, <3>3, <3>4, <4>1
      <4>2. CASE i # Len(past)
        <5>1. i \in 1..Len(past) - 1 /\ i \in 1..Len(past) /\ i + 1 \in 1..Len(past)
          BY <3>2, <3>3, <4>2
        <5> QED
          BY <3>3, <3>4, <5>1
      <4> QED
        BY <4>1, <4>2
    <3>6. Len(future) > 0 /\ future[1] = "PENDING" /\ future[Len(future)] = new.state
      BY <2>3, <3>2, <3>3, <3>4
    <3> QED
      BY <3>5, <3>6 DEF LegalLife
  <2> DEFINE next == [at |-> "save", row |-> n, read |-> read, new |-> new, wrote |-> [state |-> state]]
  <2>5. next \in Trust!Call
    BY <2>2, <2>3 DEF Trust!Call, Trust!Save
  <2>6. CallSound(next)
    BY <2>2, <2>3, <2>4 DEF CallSound, Trust!IdentitiesAssumption
  <2> QED
    BY <1>2, <1>7, <2>1, <2>5, <2>6 DEF Trust!UpdateState
<1> QED
  BY <1>1, <1>3, <1>4, <1>5, <1>6, <1>7

(* What a step that saves a row makes of what is known of it.              *)
LEMMA SomethingSaved ==
    ASSUME Trust!IdentitiesAssumption, IdentitiesInv, NEW w \in Handlers, RowsStay, RowsSound', Trust!TypeOK',
           \/ authorityCall' = [authorityCall EXCEPT ![w] = Trust!Idle] /\ NothingGiven
           \/ authorityCall' = Trust!Outdated([authorityCall EXCEPT ![w] = Trust!Idle])
    PROVE  IdentitiesInv'
BY IdleIsSound, CallsStay DEF IdentitiesInv

LEMMA OutdatedIsTyped ==
    ASSUME Trust!IdentitiesAssumption, IdentitiesInv, NEW w \in Handlers, RowsStay,
           \/ authorityCall' = [authorityCall EXCEPT ![w] = Trust!Idle] /\ NothingGiven
           \/ authorityCall' = Trust!Outdated([authorityCall EXCEPT ![w] = Trust!Idle])
    PROVE  authorityCall' \in [Handlers -> Trust!Call]
BY IdleIsSound, CallsStay

LEMMA PrincipalSaved ==
    ASSUME Trust!IdentitiesAssumption, IdentitiesInv, NEW w \in Handlers,
           \/ Trust!SavePrincipal(w)
           \/ \E p \in Principals, scope \in Scopes : Trust!RegisterPrincipal(w, p, scope)
    PROVE  IdentitiesInv'
<1>1. ASSUME NEW p \in Principals, NEW new \in Trust!Principal, NEW value \in Scopes, NEW gone \in SUBSET Trust!Rows,
             principals' = [principals EXCEPT ![p] = new], Trust!Saved(p, value), lostRows' = gone,
             gone \in {lostRows \ {p}, lostRows, lostRows \cup {p}}, p \notin gone => new.capabilities = value,
             UNCHANGED <<delegations, accounts, now>>,
             \/ /\ authorityCall' = [authorityCall EXCEPT ![w] = Trust!Idle] /\ principals[p] # Absent
                /\ principals[p].capabilities = new.capabilities
             \/ authorityCall' = Trust!Outdated([authorityCall EXCEPT ![w] = Trust!Idle])
      PROVE  IdentitiesInv'
  <2>1. /\ principals \in [Principals -> Trust!Principal \cup {Absent}] /\ new # Absent
        /\ DOMAIN written = Trust!Rows /\ p \in Trust!Rows /\ Absent \notin Scopes
        /\ registrySaves \in 0..RegistrySaves /\ registrySaves < RegistrySaves /\ registrySaves' = registrySaves + 1 /\ RegistrySaves \in Nat /\ now \in Nat
    BY <1>1 DEF IdentitiesInv, Trust!TypeOK, Trust!IdentitiesAssumption, Trust!Rows, Trust!Saved
  <2>2. /\ principals'[p] = new /\ \A q \in Principals \ {p} : principals'[q] = principals[q]
        /\ principals' \in [Principals -> Trust!Principal \cup {Absent}]
    BY <1>1, <2>1
  <2>3. written' = [written EXCEPT ![p] = value]
    BY <1>1 DEF Trust!Saved
  <2>4. /\ DOMAIN written' = Trust!Rows /\ written'[p] = value
        /\ \A row \in Trust!Rows \ {p} : written'[row] = written[row]
    BY <2>1, <2>3
  <2>5. /\ \A d \in Delegations : d \in Trust!Rows /\ d # p
        /\ \A n \in Accounts : n \in Trust!Rows /\ n # p
        /\ \A q \in Principals : q \in Trust!Rows
    BY DEF Trust!Rows, Trust!IdentitiesAssumption
  <2>6. RowsStay
    BY <1>1, <2>1, <2>2 DEF RowsStay
  <2>7. principals[p] # Absent /\ principals[p].capabilities = new.capabilities => NothingGiven
    BY <1>1, <2>2 DEF NothingGiven, Trust!Active, Trust!Expired
  <2>8. authorityCall' \in [Handlers -> Trust!Call]
    BY <1>1, <2>6, <2>7, OutdatedIsTyped
  <2>9. registrySaves' \in 0..RegistrySaves
    BY <2>1
  <2>10. Trust!TypeOK'
    BY <1>1, <2>2, <2>4, <2>5, <2>8, <2>9 DEF IdentitiesInv, Trust!TypeOK
  <2>11. RowsSound'
    BY <1>1, <2>1, <2>2, <2>4, <2>5 DEF IdentitiesInv, RowsSound, Trust!Expired
  <2> QED
    BY <1>1, <2>6, <2>7, <2>10, <2>11, SomethingSaved
<1>2. ASSUME Trust!SavePrincipal(w)
      PROVE  IdentitiesInv'
  <2> DEFINE c == authorityCall[w]
             p == c.row
             value == IF c.wrote = Keep THEN written[p] ELSE c.wrote
             gone == IF principals[p] = c.read THEN lostRows ELSE lostRows \cup {p}
  <2>1. /\ c \in Trust!Call /\ c.at = "save" /\ p \in Principals /\ CallSound(c) /\ lostRows \subseteq Trust!Rows
        /\ p \in Trust!Rows
    BY <1>2 DEF Trust!SavePrincipal, IdentitiesInv, Trust!TypeOK, Trust!Rows
  <2>2. c \in Trust!Save(Principals, Trust!Principal, Scopes \cup {Keep})
    BY <2>1, SaveParts
  <2>3. /\ c.new \in Trust!Principal /\ c.wrote \in Scopes \cup {Keep} /\ principals[p] # Absent
        /\ c.new.capabilities = IF c.wrote = Keep THEN c.read.capabilities ELSE c.wrote
    BY <2>1, <2>2 DEF Trust!Save, CallSound
  <2>4. /\ written[p] \in Scopes /\ (p \notin lostRows => principals[p].capabilities = written[p])
    BY <2>1, <2>3 DEF IdentitiesInv, RowsSound, Trust!TypeOK
  <2>5. /\ value \in Scopes /\ gone \in SUBSET Trust!Rows /\ gone \in {lostRows \ {p}, lostRows, lostRows \cup {p}}
        /\ p \notin gone => c.new.capabilities = value
    BY <2>1, <2>3, <2>4
  <2>6. /\ principals' = [principals EXCEPT ![p] = c.new] /\ Trust!Saved(p, value) /\ lostRows' = gone
        /\ UNCHANGED <<delegations, accounts, now>>
        /\ \/ /\ authorityCall' = [authorityCall EXCEPT ![w] = Trust!Idle] /\ principals[p] # Absent
              /\ principals[p].capabilities = c.new.capabilities
           \/ authorityCall' = Trust!Outdated([authorityCall EXCEPT ![w] = Trust!Idle])
    BY <1>2, <2>3 DEF Trust!SavePrincipal
  <2> QED
    BY <1>1, <2>1, <2>3, <2>5, <2>6
<1>3. ASSUME NEW p \in Principals, NEW scope \in Scopes, Trust!RegisterPrincipal(w, p, scope)
      PROVE  IdentitiesInv'
  <2> DEFINE new == [capabilities |-> scope, trust_level |-> "INTERNAL"]
             gone == lostRows \ {p}
  <2>1. new \in Trust!Principal /\ gone \in SUBSET Trust!Rows /\ gone \in {lostRows \ {p}, lostRows, lostRows \cup {p}}
        /\ new.capabilities = scope
    BY DEF Trust!Principal, IdentitiesInv, Trust!TypeOK
  <2>2. /\ principals' = [principals EXCEPT ![p] = new] /\ Trust!Saved(p, scope) /\ lostRows' = gone
        /\ UNCHANGED <<delegations, accounts, now>>
        /\ authorityCall' = Trust!Outdated([authorityCall EXCEPT ![w] = Trust!Idle])
    BY <1>3 DEF Trust!RegisterPrincipal
  <2> HIDE DEF new, gone
  <2> QED
    BY <1>1, <2>1, <2>2
<1> QED
  BY <1>2, <1>3

LEMMA DelegationSaved ==
    ASSUME Trust!IdentitiesAssumption, IdentitiesInv, NEW w \in Handlers,
           \/ Trust!SaveDelegation(w)
           \/ \E d \in Delegations, terms \in Terms : Trust!GrantDelegation(w, d, terms)
    PROVE  IdentitiesInv'
<1>1. ASSUME NEW d \in Delegations, NEW new \in Trust!Delegation, NEW value \in Trust!Granted,
             NEW gone \in SUBSET Trust!Rows, gone \in {lostRows \ {d}, lostRows, lostRows \cup {d}},
             delegations' = [delegations EXCEPT ![d] = new], Trust!Saved(d, value), lostRows' = gone,
             value.revoked => new.status # "ACTIVE", new.status = "EXPIRED" => Trust!Expired(new.terms),
             d \notin gone => new.terms = value.terms /\ (new.status = "REVOKED") = value.revoked,
             UNCHANGED <<principals, accounts, now>>,
             \/ authorityCall' = [authorityCall EXCEPT ![w] = Trust!Idle] /\ new.status # "ACTIVE"
             \/ authorityCall' = Trust!Outdated([authorityCall EXCEPT ![w] = Trust!Idle])
      PROVE  IdentitiesInv'
  <2>1. /\ delegations \in [Delegations -> Trust!Delegation \cup {Absent}] /\ new # Absent
        /\ DOMAIN written = Trust!Rows /\ d \in Trust!Rows
        /\ registrySaves \in 0..RegistrySaves /\ registrySaves < RegistrySaves /\ registrySaves' = registrySaves + 1 /\ RegistrySaves \in Nat /\ now \in Nat
    BY <1>1 DEF IdentitiesInv, Trust!TypeOK, Trust!IdentitiesAssumption, Trust!Rows, Trust!Saved
  <2>2. /\ delegations'[d] = new /\ \A q \in Delegations \ {d} : delegations'[q] = delegations[q]
        /\ delegations' \in [Delegations -> Trust!Delegation \cup {Absent}]
    BY <1>1, <2>1
  <2>3. written' = [written EXCEPT ![d] = value]
    BY <1>1 DEF Trust!Saved
  <2>4. /\ DOMAIN written' = Trust!Rows /\ written'[d] = value
        /\ \A row \in Trust!Rows \ {d} : written'[row] = written[row]
    BY <2>1, <2>3
  <2>5. /\ \A p \in Principals : p \in Trust!Rows /\ p # d
        /\ \A n \in Accounts : n \in Trust!Rows /\ n # d
        /\ \A q \in Delegations : q \in Trust!Rows
    BY DEF Trust!Rows, Trust!IdentitiesAssumption
  <2>6. RowsStay
    BY <1>1, <2>1, <2>2 DEF RowsStay
  <2>7. new.status # "ACTIVE" => NothingGiven
    BY <1>1, <2>2 DEF NothingGiven, Trust!Active, Trust!Expired
  <2>8. authorityCall' \in [Handlers -> Trust!Call]
    BY <1>1, <2>6, <2>7, OutdatedIsTyped
  <2>9. registrySaves' \in 0..RegistrySaves
    BY <2>1
  <2>10. Trust!TypeOK'
    BY <1>1, <2>2, <2>4, <2>5, <2>8, <2>9 DEF IdentitiesInv, Trust!TypeOK
  <2>11. value # Absent
    BY DEF Trust!IdentitiesAssumption
  <2>12. RowsSound'
    BY <1>1, <2>1, <2>2, <2>4, <2>5, <2>11 DEF IdentitiesInv, RowsSound, Trust!Expired
  <2> QED
    BY <1>1, <2>6, <2>7, <2>10, <2>12, SomethingSaved
<1>2. ASSUME Trust!SaveDelegation(w)
      PROVE  IdentitiesInv'
  <2> DEFINE c == authorityCall[w]
             d == c.row
             value == [written[d] EXCEPT !.revoked = @ \/ c.wrote.revoked]
             gone == IF delegations[d] = c.read THEN lostRows ELSE lostRows \cup {d}
  <2>1. /\ c \in Trust!Call /\ c.at = "save" /\ d \in Delegations /\ CallSound(c) /\ lostRows \subseteq Trust!Rows
        /\ d \in Trust!Rows
    BY <1>2 DEF Trust!SaveDelegation, IdentitiesInv, Trust!TypeOK, Trust!Rows
  <2>2. c \in Trust!Save(Delegations, Trust!Delegation, [revoked : BOOLEAN])
    BY <2>1, SaveParts
  <2>3. /\ c.new \in Trust!Delegation /\ c.wrote.revoked \in BOOLEAN /\ delegations[d] # Absent
        /\ c.new.terms = c.read.terms /\ c.read.status = "ACTIVE" /\ c.new.status # "ACTIVE"
        /\ c.new.status = "EXPIRED" => Trust!Expired(c.new.terms)
        /\ c.wrote.revoked = (c.new.status = "REVOKED")
    BY <2>1, <2>2 DEF Trust!Save, CallSound
  <2>4. /\ written[d] \in Trust!Granted
        /\ d \notin lostRows => delegations[d].terms = written[d].terms
                           /\ (delegations[d].status = "REVOKED") = written[d].revoked
    BY <2>1, <2>3 DEF IdentitiesInv, RowsSound, Trust!TypeOK
  <2>5. value \in Trust!Granted /\ value.terms = written[d].terms /\ value.revoked = (written[d].revoked \/ c.wrote.revoked)
    BY <2>3, <2>4 DEF Trust!Granted
  <2>6. /\ gone \in SUBSET Trust!Rows /\ gone \in {lostRows \ {d}, lostRows, lostRows \cup {d}}
        /\ d \notin gone => delegations[d] = c.read /\ d \notin lostRows
    BY <2>1
  <2>7. d \notin gone => c.new.terms = value.terms /\ (c.new.status = "REVOKED") = value.revoked
    BY <2>3, <2>4, <2>5, <2>6
  <2>8. /\ delegations' = [delegations EXCEPT ![d] = c.new] /\ Trust!Saved(d, value) /\ lostRows' = gone
        /\ UNCHANGED <<principals, accounts, now>> /\ authorityCall' = [authorityCall EXCEPT ![w] = Trust!Idle]
    BY <1>2 DEF Trust!SaveDelegation
  <2> HIDE DEF value, gone
  <2> QED
    BY <1>1, <2>1, <2>3, <2>5, <2>6, <2>7, <2>8
<1>3. ASSUME NEW d \in Delegations, NEW terms \in Terms, Trust!GrantDelegation(w, d, terms)
      PROVE  IdentitiesInv'
  <2> DEFINE new == [terms |-> terms, status |-> "ACTIVE"]
             value == [terms |-> terms, revoked |-> FALSE]
             gone == lostRows \ {d}
  <2>1. /\ new \in Trust!Delegation /\ value \in Trust!Granted /\ new.terms = terms /\ new.status = "ACTIVE"
        /\ value.terms = terms /\ value.revoked = FALSE
        /\ gone \in SUBSET Trust!Rows /\ gone \in {lostRows \ {d}, lostRows, lostRows \cup {d}}
    BY DEF Trust!Delegation, Trust!Granted, IdentitiesInv, Trust!TypeOK
  <2>2. /\ delegations' = [delegations EXCEPT ![d] = new] /\ Trust!Saved(d, value) /\ lostRows' = gone
        /\ UNCHANGED <<principals, accounts, now>>
        /\ authorityCall' = Trust!Outdated([authorityCall EXCEPT ![w] = Trust!Idle])
    BY <1>3 DEF Trust!GrantDelegation
  <2> HIDE DEF new, value, gone
  <2> QED
    BY <1>1, <2>1, <2>2
<1> QED
  BY <1>2, <1>3

LEMMA AccountSaved ==
    ASSUME Trust!IdentitiesAssumption, IdentitiesInv, NEW w \in Handlers,
           \/ Trust!SaveAccount(w)
           \/ \E n \in Accounts, scope \in Scopes : Trust!RegisterAccount(w, n, scope)
    PROVE  IdentitiesInv'
<1>1. ASSUME NEW n \in Accounts, NEW new \in Trust!Account, NEW value \in Trust!Managed, LegalLife(new),
             NEW gone \in SUBSET Trust!Rows, gone \in {lostRows \ {n}, lostRows, lostRows \cup {n}},
             accounts' = [accounts EXCEPT ![n] = new], Trust!Saved(n, value), lostRows' = gone,
             n \notin gone => new.state = value.state /\ new.scopes = value.scopes,
             UNCHANGED <<principals, delegations, now>>, authorityCall' = [authorityCall EXCEPT ![w] = Trust!Idle]
      PROVE  IdentitiesInv'
  <2>1. /\ accounts \in [Accounts -> Trust!Account \cup {Absent}] /\ new # Absent /\ value # Absent
        /\ DOMAIN written = Trust!Rows /\ n \in Trust!Rows
        /\ registrySaves \in 0..RegistrySaves /\ registrySaves < RegistrySaves /\ registrySaves' = registrySaves + 1 /\ RegistrySaves \in Nat /\ now \in Nat
    BY <1>1 DEF IdentitiesInv, Trust!TypeOK, Trust!IdentitiesAssumption, Trust!Rows, Trust!Saved
  <2>2. /\ accounts'[n] = new /\ \A q \in Accounts \ {n} : accounts'[q] = accounts[q]
        /\ accounts' \in [Accounts -> Trust!Account \cup {Absent}]
    BY <1>1, <2>1
  <2>3. written' = [written EXCEPT ![n] = value]
    BY <1>1 DEF Trust!Saved
  <2>4. /\ DOMAIN written' = Trust!Rows /\ written'[n] = value
        /\ \A row \in Trust!Rows \ {n} : written'[row] = written[row]
    BY <2>1, <2>3
  <2>5. /\ \A p \in Principals : p \in Trust!Rows /\ p # n
        /\ \A d \in Delegations : d \in Trust!Rows /\ d # n
        /\ \A q \in Accounts : q \in Trust!Rows
    BY DEF Trust!Rows, Trust!IdentitiesAssumption
  <2>6. RowsStay
    BY <1>1, <2>1, <2>2 DEF RowsStay
  <2>7. NothingGiven
    BY <1>1 DEF NothingGiven, Trust!Active, Trust!Expired
  <2>8. authorityCall' \in [Handlers -> Trust!Call]
    BY <1>1, <2>6, <2>7, OutdatedIsTyped
  <2>9. registrySaves' \in 0..RegistrySaves
    BY <2>1
  <2>10. Trust!TypeOK'
    BY <1>1, <2>2, <2>4, <2>5, <2>8, <2>9 DEF IdentitiesInv, Trust!TypeOK
  <2>11. LegalLife(accounts'[n]) /\ \A q \in Accounts \ {n} : accounts[q] # Absent => LegalLife(accounts'[q])
    BY <1>1, <2>2 DEF IdentitiesInv, RowsSound
  <2>12. RowsSound'
    BY <1>1, <2>1, <2>2, <2>4, <2>5, <2>11 DEF IdentitiesInv, RowsSound, Trust!Expired
  <2> QED
    BY <1>1, <2>6, <2>7, <2>10, <2>12, SomethingSaved
<1>2. ASSUME Trust!SaveAccount(w)
      PROVE  IdentitiesInv'
  <2> DEFINE c == authorityCall[w]
             n == c.row
             value == [f \in {"state", "scopes"} |-> IF f \in DOMAIN c.wrote THEN c.wrote[f] ELSE written[n][f]]
             gone == IF accounts[n] = c.read THEN lostRows ELSE lostRows \cup {n}
  <2>1. /\ c \in Trust!Call /\ c.at = "save" /\ n \in Accounts /\ CallSound(c) /\ lostRows \subseteq Trust!Rows
        /\ n \in Trust!Rows
    BY <1>2 DEF Trust!SaveAccount, IdentitiesInv, Trust!TypeOK, Trust!Rows
  <2>2. c \in Trust!Save(Accounts, Trust!Account, [state : Trust!States] \cup [scopes : Scopes])
    BY <2>1, SaveParts
  <2>3. /\ c.new \in Trust!Account /\ c.wrote \in [state : Trust!States] \cup [scopes : Scopes]
        /\ accounts[n] # Absent /\ LegalLife(c.new)
        /\ c.new.state = IF "state" \in DOMAIN c.wrote THEN c.wrote.state ELSE c.read.state
        /\ c.new.scopes = IF "scopes" \in DOMAIN c.wrote THEN c.wrote.scopes ELSE c.read.scopes
    BY <2>1, <2>2 DEF Trust!Save, CallSound
  <2>4. /\ written[n] \in Trust!Managed
        /\ n \notin lostRows => accounts[n].state = written[n].state /\ accounts[n].scopes = written[n].scopes
    BY <2>1, <2>3 DEF IdentitiesInv, RowsSound, Trust!TypeOK
  <2>5. /\ value.state = IF "state" \in DOMAIN c.wrote THEN c.wrote.state ELSE written[n].state
        /\ value.scopes = IF "scopes" \in DOMAIN c.wrote THEN c.wrote.scopes ELSE written[n].scopes
    OBVIOUS
  <2>6. value.state \in Trust!States /\ value.scopes \in Scopes
    BY <2>3, <2>4, <2>5 DEF Trust!Managed
  <2>7. value = [state |-> value.state, scopes |-> value.scopes]
    OBVIOUS
  <2>8. value \in Trust!Managed
    <3> HIDE DEF value
    <3> QED
      BY <2>6, <2>7 DEF Trust!Managed
  <2>9. /\ gone \in SUBSET Trust!Rows /\ gone \in {lostRows \ {n}, lostRows, lostRows \cup {n}}
        /\ n \notin gone => accounts[n] = c.read /\ n \notin lostRows
    BY <2>1
  <2>10. n \notin gone => c.new.state = value.state /\ c.new.scopes = value.scopes
    BY <2>3, <2>4, <2>5, <2>9
  <2>11. /\ accounts' = [accounts EXCEPT ![n] = c.new] /\ Trust!Saved(n, value) /\ lostRows' = gone
        /\ UNCHANGED <<principals, delegations, now>> /\ authorityCall' = [authorityCall EXCEPT ![w] = Trust!Idle]
    BY <1>2 DEF Trust!SaveAccount
  <2> HIDE DEF value, gone
  <2> QED
    BY <1>1, <2>1, <2>3, <2>8, <2>9, <2>10, <2>11
<1>3. ASSUME NEW n \in Accounts, NEW scope \in Scopes, Trust!RegisterAccount(w, n, scope)
      PROVE  IdentitiesInv'
  <2> DEFINE new == [state |-> "PENDING", state_history |-> <<"PENDING">>, scopes |-> scope]
             value == [state |-> "PENDING", scopes |-> scope]
             gone == lostRows \ {n}
  <2>1. "PENDING" \in Trust!States /\ <<"PENDING">> \in Seq(Trust!States)
    BY DEF Trust!States, Trust!Transitions
  <2>2. /\ new \in Trust!Account /\ value \in Trust!Managed /\ LegalLife(new)
        /\ new.state = value.state /\ new.scopes = value.scopes
        /\ gone \in SUBSET Trust!Rows /\ gone \in {lostRows \ {n}, lostRows, lostRows \cup {n}}
    BY <2>1 DEF Trust!Account, Trust!Managed, LegalLife, IdentitiesInv, Trust!TypeOK
  <2>3. /\ accounts' = [accounts EXCEPT ![n] = new] /\ Trust!Saved(n, value) /\ lostRows' = gone
        /\ UNCHANGED <<principals, delegations, now>> /\ authorityCall' = [authorityCall EXCEPT ![w] = Trust!Idle]
    BY <1>3 DEF Trust!RegisterAccount
  <2> HIDE DEF new, value, gone
  <2> QED
    BY <1>1, <2>2, <2>3
<1> QED
  BY <1>2, <1>3

LEMMA IdentitiesTick ==
    ASSUME Trust!IdentitiesAssumption, IdentitiesInv, Trust!Tick \/ UNCHANGED Trust!vars
    PROVE  IdentitiesInv'
<1>1. /\ now' \in {now, now + 1} /\ now \in Nat
      /\ UNCHANGED <<principals, delegations, accounts, registrySaves, written, lostRows, authorityCall>>
  BY DEF Trust!Tick, Trust!vars, Trust!registryVars, IdentitiesInv, Trust!TypeOK
<1>2. RowsStay
  BY <1>1 DEF RowsStay
<1>3. \A terms \in Terms : Trust!Expired(terms) => Trust!Expired(terms)'
  BY <1>1, <1>2, ExpiryIsFinal DEF RowsStay
<1>4. \A d \in Delegations : delegations[d] # Absent => delegations[d].terms \in Terms
  BY DEF IdentitiesInv, Trust!TypeOK, Trust!Delegation
<1>5. NothingGiven
  BY <1>1, <1>3, <1>4 DEF NothingGiven, Trust!Active
<1>6. ASSUME NEW w \in Handlers
      PROVE  CallSound(authorityCall[w])'
  <2>1. PICK c \in Trust!Call : c = authorityCall[w] /\ CallSound(c)
    BY DEF IdentitiesInv, Trust!TypeOK
  <2>2. CallSound(c)'
    BY <1>2, <1>5, <2>1, CallStays DEF IdentitiesInv
  <2> QED
    BY <1>1, <2>1, <2>2
<1>7. Trust!TypeOK'
  BY <1>1 DEF IdentitiesInv, Trust!TypeOK
<1>8. RowsSound'
  BY <1>1, <1>3, <1>4 DEF IdentitiesInv, RowsSound
<1> QED
  BY <1>6, <1>7, <1>8 DEF IdentitiesInv

LEMMA IdentitiesStart ==
    ASSUME Trust!IdentitiesAssumption, Trust!Init
    PROVE  IdentitiesInv
<1>1. Trust!TypeOK
  BY DEF Trust!Init, Trust!TypeOK, Trust!Rows, Trust!Call, Trust!IdentitiesAssumption
<1> QED
  BY <1>1, IdleIsSound DEF Trust!Init, IdentitiesInv, RowsSound

LEMMA IdentitiesStep ==
    ASSUME Trust!IdentitiesAssumption, IdentitiesInv, [Trust!Next]_(Trust!vars)
    PROVE  IdentitiesInv'
<1>1. CASE UNCHANGED Trust!vars
  BY <1>1, IdentitiesTick
<1>2. CASE Trust!Next
  BY <1>2, QuietCalls, PrincipalSaved, DelegationSaved, AccountSaved, IdentitiesTick
  DEF Trust!Next, Trust!AuthorityNext, Trust!AccountsNext
<1> QED
  BY <1>1, <1>2

LEMMA IdentitiesSound ==
    IdentitiesInv => /\ Trust!AuthorityIsTrue /\ Trust!DelegationsStand
                     /\ Trust!TypeOK /\ Trust!IdentitiesStand
<1>1. IdentitiesInv => Trust!AuthorityIsTrue
  BY DEF IdentitiesInv, CallSound, Trust!AuthorityIsTrue
<1>2. IdentitiesInv => Trust!DelegationsStand
  BY DEF IdentitiesInv, RowsSound, Trust!DelegationsStand, Trust!Active
<1>3. IdentitiesInv => Trust!TypeOK /\ Trust!IdentitiesStand
  BY DEF IdentitiesInv, RowsSound, LegalLife, Trust!IdentitiesStand
<1> QED
  BY <1>1, <1>2, <1>3

LEMMA IdentitiesInvariance ==
    ASSUME Trust!IdentitiesAssumption
    PROVE  Trust!Spec => []IdentitiesInv
<1>1. Trust!Init => IdentitiesInv
  BY IdentitiesStart
<1>2. IdentitiesInv /\ [Trust!Next]_(Trust!vars) => IdentitiesInv'
  BY IdentitiesStep
<1> QED
  BY <1>1, <1>2, PTL DEF Trust!Spec

(* An authority is confirmed or refused truly, with any graph of           *)
(* delegations and any overlap of grants, revocations, expiries and walks: *)
(* a walk confirms no more than there was when it began and no less than   *)
(* there is when it ends, unless somebody was given something meanwhile.   *)
THEOREM AuthorityIsAlwaysTrue ==
    ASSUME Trust!IdentitiesAssumption
    PROVE  Trust!Spec => []Trust!AuthorityIsTrue
<1>1. IdentitiesInv => Trust!AuthorityIsTrue
  BY IdentitiesSound
<1> QED
  BY <1>1, IdentitiesInvariance, PTL

(* A delegation ends for good by its deadline or by its revocation, and is *)
(* as it was granted unless a handler saved what it had read before.       *)
THEOREM DelegationsAlwaysStand ==
    ASSUME Trust!IdentitiesAssumption
    PROVE  Trust!Spec => []Trust!DelegationsStand
<1>1. IdentitiesInv => Trust!DelegationsStand
  BY IdentitiesSound
<1> QED
  BY <1>1, IdentitiesInvariance, PTL

(* What was written last of a principal or a machine account is stored     *)
(* unless an overlapping save lost it; the history of an account is a      *)
(* legal life that led to its state.  The state is well typed.             *)
THEOREM IdentitiesAlwaysStand ==
    ASSUME Trust!IdentitiesAssumption
    PROVE  Trust!Spec => [](Trust!TypeOK /\ Trust!IdentitiesStand)
<1>1. IdentitiesInv => Trust!TypeOK /\ Trust!IdentitiesStand
  BY IdentitiesSound
<1> QED
  BY <1>1, IdentitiesInvariance, PTL
-----------------------------------------------------------------------------
(* ModelIntake: the row of a model, its evidence and the decision on it.   *)

(* What triage will decide on is what it read, and a scan of its own if    *)
(* the model had none.                                                     *)
Rests(c) ==
    /\ c.known.redteam = c.read.redteam /\ c.known.attested = c.read.attested
    /\ c.persist => c.known.probes = c.read.probes
    /\ c.known.vulns # c.read.vulns => c.read.vulns = Absent /\ c.known.vulns \in Scans

Triage(at) == [at : at, read : Models!Row, known : Models!Row, probing : BOOLEAN, persist : BOOLEAN]
Work == {Models!Idle} \cup Triage({"scan", "probe", "decide"})
        \cup [at : {"saveScan"}, read : Models!Row, triage : Triage({"scan"}) \cup {Absent}, scheduled : BOOLEAN]
        \cup [at : {"saveRedteam"}, read : Models!Row, result : Evaluations, scheduled : BOOLEAN]
        \cup [at : {"alarm"}, kind : {"scan", "redteam"}, read : Models!Row, result : Scans \cup Evaluations]
        \cup [at : {"saveAttested"}, read : Models!Row]

TriageSound(c) == Rests(c) /\ (c.at = "scan" => c.read.vulns = Absent)

WorkSound(c) ==
    /\ c.at \in {"scan", "probe", "decide"} => TriageSound(c)
    /\ c.at = "saveScan" /\ c.triage # Absent => TriageSound(c.triage)

IntakeInv ==
    /\ model \in Models!Row /\ lost \in BOOLEAN
    /\ incidents \subseteq {"scan", "redteam"} /\ alarms \subseteq {"scan", "redteam"}
    /\ "scan" \in alarms => "scan" \in incidents
    /\ modelJob \in [Handlers -> Work]
    /\ \A w \in Handlers : WorkSound(modelJob[w])

(* There is a verdict, the worst of the caps.                              *)
LEMMA RecommendIsARank == \A evidence, context : Models!Recommend(evidence, context) \in Models!Ranks
<1> SUFFICES ASSUME NEW evidence, NEW context
             PROVE  Models!Recommend(evidence, context) \in Models!Ranks
  OBVIOUS
<1> DEFINE caps == Models!Caps(evidence, context) \cup {Models!ApproveForScopedUse}
<1>1. caps \subseteq 0..4 /\ 4 \in caps
  BY DEF Models!Caps, Models!ApproveForScopedUse, Models!Ranks, Models!RiskCaps, Models!VulnerabilityCaps, Models!SerializationCaps,
         Models!WeightCaps, Models!LineageCaps, Models!ContradictionCaps, Models!ProbeCaps, Models!RedteamCaps, Models!LiveCaps,
         Models!McpCaps, Models!BackdoorCaps, Models!ProvenanceCaps, Models!InsufficientEvidence, Models!IdentityCaps,
         Models!GovernanceCaps, Models!CompletenessCaps, Models!PolicyCaps
<1> HIDE DEF caps
<1>2. \E x \in caps : \A y \in caps : x <= y
  <2>1. CASE 0 \in caps
    BY <1>1, <2>1
  <2>2. CASE 0 \notin caps /\ 1 \in caps
    BY <1>1, <2>2
  <2>3. CASE 0 \notin caps /\ 1 \notin caps /\ 2 \in caps
    BY <1>1, <2>3
  <2>4. CASE 0 \notin caps /\ 1 \notin caps /\ 2 \notin caps /\ 3 \in caps
    BY <1>1, <2>4
  <2>5. CASE 0 \notin caps /\ 1 \notin caps /\ 2 \notin caps /\ 3 \notin caps
    BY <1>1, <2>5
  <2> QED
    BY <2>1, <2>2, <2>3, <2>4, <2>5
<1>3. Models!Min(caps) \in caps
  BY <1>2 DEF Models!Min
<1> QED
  BY <1>1, <1>3 DEF Models!Recommend, Models!Ranks, caps

(* A verdict rests on four columns of the row.                             *)
LEMMA SameEvidence ==
    ASSUME NEW known, NEW other,
           known.redteam = other.redteam, known.probes = other.probes,
           known.vulns = other.vulns, known.attested = other.attested
    PROVE  Models!DecisionOn(known) = Models!DecisionOn(other)
BY DEF Models!DecisionOn, Models!EvidenceOf

(* A column that a handler saves is filled and leaves the others alone.    *)
LEMMA SavedIsARow ==
    ASSUME Models!IntakeAssumption, NEW read \in Models!Row
    PROVE  /\ \A scan \in Scans : Models!Saved(read, "vulns", scan) \in Models!Row
           /\ \A result \in Evaluations : Models!Saved(read, "redteam", result) \in Models!Row
           /\ \A result \in ProbeRuns : Models!Saved(read, "probes", result) \in Models!Row
           /\ Models!Saved(read, "attested", TRUE) \in Models!Row
           /\ \A known : Models!Saved(read, "decision", Models!DecisionOn(known)) \in Models!Row
<1>1. \A known : Models!DecisionOn(known) \in Models!Ranks
  BY RecommendIsARank DEF Models!DecisionOn
<1> QED
  BY <1>1 DEF Models!Saved, Models!Row

(* One handler goes on, and what it carries from there on is sound.        *)
LEMMA WorkStep ==
    ASSUME IntakeInv, NEW w \in Handlers, NEW c \in Work, WorkSound(c), Models!Goto(w, c),
           model' \in Models!Row, lost' \in BOOLEAN, Models!QuietAlarms
    PROVE  IntakeInv'
BY DEF IntakeInv, Models!Goto, Models!QuietAlarms

LEMMA IntakeStep ==
    ASSUME Models!IntakeAssumption, IntakeInv, Models!Next
    PROVE  IntakeInv'
<1> USE DEF Models!At
<1> PICK w \in Handlers :
      \/ Models!BeginTriage(w) \/ Models!TriageScans(w) \/ Models!Probe(w) \/ Models!Decide(w)
      \/ Models!BeginScan(w) \/ Models!SaveScan(w)
      \/ Models!BeginRedteam(w) \/ Models!SaveRedteam(w) \/ Models!Alarm(w)
      \/ Models!BeginAttest(w) \/ Models!SaveAttested(w) \/ Models!Crash(w)
  BY DEF Models!Next
<1> DEFINE c == modelJob[w]
<1>1. c \in Work /\ WorkSound(c) /\ model \in Models!Row /\ lost \in BOOLEAN
  BY DEF IntakeInv
<1>2. Models!Idle \in Work /\ WorkSound(Models!Idle)
  BY DEF Work, WorkSound, Models!Idle
<1>3. ASSUME Models!Quiet PROVE model' \in Models!Row /\ lost' \in BOOLEAN
  BY <1>1, <1>3 DEF Models!Quiet
<1>4. CASE Models!BeginTriage(w)
  <2>1. PICK probing \in BOOLEAN, persist \in BOOLEAN :
          Models!Goto(w, [at |-> IF model.vulns = Absent THEN "scan" ELSE "probe", read |-> model,
                     known |-> model, probing |-> probing, persist |-> persist])
    BY <1>4 DEF Models!BeginTriage
  <2> DEFINE d == [at |-> IF model.vulns = Absent THEN "scan" ELSE "probe", read |-> model,
                   known |-> model, probing |-> probing, persist |-> persist]
  <2>2. d \in Triage({"scan", "probe", "decide"}) /\ TriageSound(d)
    BY <1>1 DEF Triage, TriageSound, Rests
  <2>3. d \in Work /\ WorkSound(d)
    BY <2>2 DEF Work, WorkSound, Triage
  <2> QED
    BY <1>3, <1>4, <2>1, <2>3, WorkStep DEF Models!BeginTriage, Models!Begin
<1>5. CASE Models!TriageScans(w)
  <2> DEFINE d == [at |-> "saveScan", read |-> model, triage |-> c, scheduled |-> FALSE]
  <2>1. c.at = "scan"
    BY <1>5 DEF Models!TriageScans
  <2>2. c \in Triage({"scan"}) /\ TriageSound(c)
    BY <1>1, <2>1 DEF Work, WorkSound, Triage, Models!Idle
  <2>3. d \in Work /\ WorkSound(d)
    BY <1>1, <2>2 DEF Work, WorkSound
  <2> QED
    BY <1>3, <1>5, <2>3, WorkStep DEF Models!TriageScans
<1>6. CASE Models!SaveScan(w)
  <2>1. PICK scan \in Scans :
          /\ Models!Save(c.read, Models!Saved(c.read, "vulns", scan))
          /\ IF c.triage # Absent
             THEN Models!Goto(w, [c.triage EXCEPT !.at = "probe", !.known.vulns = scan])
             ELSE IF c.scheduled
             THEN Models!Goto(w, [at |-> "alarm", kind |-> "scan", read |-> model', result |-> scan])
             ELSE Models!Goto(w, Models!Idle)
    BY <1>6 DEF Models!SaveScan
  <2>2. /\ c \in [at : {"saveScan"}, read : Models!Row, triage : Triage({"scan"}) \cup {Absent}, scheduled : BOOLEAN]
        /\ c.triage # Absent => TriageSound(c.triage)
    <3>1. c.at = "saveScan"
      BY <1>6 DEF Models!SaveScan
    <3>2. c.triage # Absent => TriageSound(c.triage)
      BY <1>1, <3>1 DEF WorkSound
    <3> QED
      BY <1>1, <3>1, <3>2 DEF Work, Triage, Models!Idle
  <2>3. model' \in Models!Row /\ lost' \in BOOLEAN
    BY <1>1, <2>1, <2>2, SavedIsARow DEF Models!Save
  <2>4. CASE c.triage # Absent
    <3> DEFINE t == c.triage
               d == [t EXCEPT !.at = "probe", !.known.vulns = scan]
    <3>1. t \in Triage({"scan"}) /\ TriageSound(t) /\ t.read.vulns = Absent
      BY <2>2, <2>4 DEF Triage, TriageSound
    <3>2. d \in Triage({"probe"}) /\ d.read = t.read /\ d.persist = t.persist
          /\ d.known = [t.known EXCEPT !.vulns = scan] /\ d.at = "probe"
      BY <3>1 DEF Triage, Models!Row
    <3>3. TriageSound(d)
      BY <3>1, <3>2 DEF TriageSound, Rests, Triage, Models!Row
    <3>4. d \in Work /\ WorkSound(d)
      BY <3>2, <3>3 DEF Work, WorkSound, Triage
    <3> QED
      BY <1>6, <2>1, <2>3, <2>4, <3>4, WorkStep DEF Models!SaveScan
  <2>5. CASE c.triage = Absent /\ c.scheduled
    <3> DEFINE d == [at |-> "alarm", kind |-> "scan", read |-> model', result |-> scan]
    <3>1. d \in Work /\ WorkSound(d)
      BY <2>3 DEF Work, WorkSound
    <3> QED
      BY <1>6, <2>1, <2>3, <2>5, <3>1, WorkStep DEF Models!SaveScan
  <2> QED
    BY <1>2, <1>6, <2>1, <2>3, <2>4, <2>5, WorkStep DEF Models!SaveScan
<1>7. CASE Models!Probe(w)
  <2>1. c \in Triage({"probe"}) /\ Rests(c)
    <3>1. c.at = "probe"
      BY <1>7 DEF Models!Probe
    <3>2. Rests(c)
      BY <1>1, <3>1 DEF WorkSound, TriageSound
    <3> QED
      BY <1>1, <3>1, <3>2 DEF Work, Triage, Models!Idle
  <2>2. CASE c.probing
    <3>1. PICK result \in ProbeRuns :
            /\ IF c.persist THEN Models!Save(c.read, Models!Saved(c.read, "probes", result)) ELSE Models!Quiet
            /\ Models!Goto(w, [c EXCEPT !.at = "decide", !.known.probes = result,
                                   !.read = IF c.persist THEN Models!Saved(c.read, "probes", result) ELSE @])
      BY <1>7, <2>2 DEF Models!Probe
    <3> DEFINE new == Models!Saved(c.read, "probes", result)
               d == [c EXCEPT !.at = "decide", !.known.probes = result, !.read = IF c.persist THEN new ELSE @]
    <3>2. new \in Models!Row /\ new = [c.read EXCEPT !.probes = result]
      BY <2>1, SavedIsARow DEF Triage, Models!Saved
    <3>3. /\ d \in Triage({"decide"}) /\ d.persist = c.persist /\ d.at = "decide"
          /\ d.known = [c.known EXCEPT !.probes = result]
          /\ d.read = IF c.persist THEN new ELSE c.read
      <4> HIDE DEF new
      <4>1. c.read \in Models!Row /\ c.known \in Models!Row /\ c.persist \in BOOLEAN
        BY <2>1 DEF Triage
      <4>2. CASE c.persist
        BY <2>1, <3>2, <4>1, <4>2 DEF Triage, Models!Row
      <4>3. CASE ~c.persist
        BY <2>1, <3>2, <4>1, <4>3 DEF Triage, Models!Row
      <4> QED
        BY <4>2, <4>3
    <3>4. Rests(d)
      BY <2>1, <3>2, <3>3 DEF Rests, Triage, Models!Row
    <3>5. d \in Work /\ WorkSound(d)
      BY <3>3, <3>4 DEF Work, WorkSound, TriageSound, Triage
    <3>6. model' \in Models!Row /\ lost' \in BOOLEAN
      BY <1>1, <1>3, <3>1, <3>2 DEF Models!Save
    <3> QED
      BY <1>7, <3>1, <3>5, <3>6, WorkStep DEF Models!Probe
  <2>3. CASE ~c.probing
    <3> DEFINE d == [c EXCEPT !.at = "decide"]
    <3>1. d \in Triage({"decide"}) /\ Rests(d) /\ d.at = "decide"
      BY <2>1 DEF Triage, Rests
    <3>2. d \in Work /\ WorkSound(d)
      BY <3>1 DEF Work, WorkSound, TriageSound, Triage
    <3> QED
      BY <1>3, <1>7, <2>3, <3>2, WorkStep DEF Models!Probe
  <2> QED
    BY <2>2, <2>3
<1>8. CASE Models!Decide(w)
  <2>1. c \in Triage({"decide"})
    BY <1>1, <1>8 DEF Models!Decide, Work, Triage, Models!Idle
  <2>2. model' \in Models!Row /\ lost' \in BOOLEAN
    <3>1. Models!Saved(c.read, "decision", Models!DecisionOn(c.known)) \in Models!Row
      BY <2>1, SavedIsARow DEF Triage
    <3> QED
      BY <1>1, <1>3, <1>8, <3>1 DEF Models!Decide, Models!Decided, Models!Save
  <2> QED
    BY <1>2, <1>8, <2>2, WorkStep DEF Models!Decide
<1>9. CASE Models!BeginScan(w)
  <2>1. PICK scheduled \in BOOLEAN :
          Models!Goto(w, [at |-> "saveScan", read |-> model, triage |-> Absent, scheduled |-> scheduled])
    BY <1>9 DEF Models!BeginScan
  <2> DEFINE d == [at |-> "saveScan", read |-> model, triage |-> Absent, scheduled |-> scheduled]
  <2>2. d \in Work /\ WorkSound(d)
    BY <1>1 DEF Work, WorkSound
  <2> QED
    BY <1>3, <1>9, <2>1, <2>2, WorkStep DEF Models!BeginScan, Models!Begin
<1>10. CASE Models!BeginRedteam(w)
  <2>1. PICK result \in Evaluations, scheduled \in BOOLEAN :
          Models!Goto(w, [at |-> "saveRedteam", read |-> model, result |-> result, scheduled |-> scheduled])
    BY <1>10 DEF Models!BeginRedteam
  <2> DEFINE d == [at |-> "saveRedteam", read |-> model, result |-> result, scheduled |-> scheduled]
  <2>2. d \in Work /\ WorkSound(d)
    BY <1>1 DEF Work, WorkSound
  <2> QED
    BY <1>3, <1>10, <2>1, <2>2, WorkStep DEF Models!BeginRedteam, Models!Begin
<1>11. CASE Models!SaveRedteam(w)
  <2>1. c \in [at : {"saveRedteam"}, read : Models!Row, result : Evaluations, scheduled : BOOLEAN]
    BY <1>1, <1>11 DEF Models!SaveRedteam, Work, Triage, Models!Idle
  <2>2. model' \in Models!Row /\ lost' \in BOOLEAN
    BY <1>1, <1>11, <2>1, SavedIsARow DEF Models!SaveRedteam, Models!Save
  <2> DEFINE d == [at |-> "alarm", kind |-> "redteam", read |-> model', result |-> c.result]
  <2>3. d \in Work /\ WorkSound(d)
    BY <2>1, <2>2 DEF Work, WorkSound
  <2>4. Models!Goto(w, d) \/ Models!Goto(w, Models!Idle)
    BY <1>11 DEF Models!SaveRedteam
  <2> QED
    BY <1>2, <1>11, <2>2, <2>3, <2>4, WorkStep DEF Models!SaveRedteam
<1>12. CASE Models!Alarm(w)
  <2>1. c \in [at : {"alarm"}, kind : {"scan", "redteam"}, read : Models!Row, result : Scans \cup Evaluations]
    BY <1>1, <1>12 DEF Models!Alarm, Work, Triage, Models!Idle
  <2>2. /\ model' \in Models!Row /\ lost' \in BOOLEAN
        /\ modelJob' \in [Handlers -> Work] /\ \A u \in Handlers : WorkSound(modelJob'[u])
    BY <1>2, <1>3, <1>12 DEF Models!Alarm, Models!Goto, IntakeInv
  <2>3. /\ incidents' \subseteq {"scan", "redteam"} /\ alarms' \subseteq {"scan", "redteam"}
        /\ "scan" \in alarms' => "scan" \in incidents'
    BY <1>12, <2>1 DEF Models!Alarm, Models!Alarming, Models!Grave, IntakeInv
  <2> QED
    BY <2>2, <2>3 DEF IntakeInv
<1>13. CASE Models!BeginAttest(w)
  <2> DEFINE d == [at |-> "saveAttested", read |-> model]
  <2>1. d \in Work /\ WorkSound(d)
    BY <1>1 DEF Work, WorkSound
  <2> QED
    BY <1>3, <1>13, <2>1, WorkStep DEF Models!BeginAttest, Models!Begin
<1>14. CASE Models!SaveAttested(w)
  <2>1. c.read \in Models!Row
    BY <1>1, <1>14 DEF Models!SaveAttested, Work, Triage, Models!Idle
  <2>2. model' \in Models!Row /\ lost' \in BOOLEAN
    BY <1>1, <1>14, <2>1, SavedIsARow DEF Models!SaveAttested, Models!Save
  <2> QED
    BY <1>2, <1>14, <2>2, WorkStep DEF Models!SaveAttested
<1>15. CASE Models!Crash(w)
  BY <1>2, <1>3, <1>15, WorkStep DEF Models!Crash
<1> QED
  BY <1>4, <1>5, <1>6, <1>7, <1>8, <1>9, <1>10, <1>11, <1>12, <1>13, <1>14, <1>15

LEMMA IntakeStart ==
    ASSUME Models!IntakeAssumption, Models!Init
    PROVE  IntakeInv
<1> DEFINE clean == CHOOSE scan \in Scans : scan.found = {}
<1>1. clean \in Scans
  BY DEF Models!IntakeAssumption
<1>2. Models!Blank \in Models!Row /\ [Models!Blank EXCEPT !.vulns = clean] \in Models!Row
  BY <1>1 DEF Models!Blank, Models!Row
<1>3. model \in Models!Row
  BY <1>2 DEF Models!Init
<1>4. modelJob \in [Handlers -> Work] /\ \A w \in Handlers : WorkSound(modelJob[w])
  BY DEF Models!Init, Work, WorkSound, Models!Idle
<1> QED
  BY <1>3, <1>4 DEF Models!Init, IntakeInv

LEMMA IntakeRests == IntakeInv /\ UNCHANGED Models!vars => IntakeInv'
  BY DEF Models!vars, IntakeInv

LEMMA IntakeInvariance ==
    ASSUME Models!IntakeAssumption
    PROVE  Models!Spec => []IntakeInv
<1>1. Models!Init => IntakeInv
  BY IntakeStart
<1> QED
  BY <1>1, IntakeStep, IntakeRests, PTL DEF Models!Spec

LEMMA DecisionRests ==
    ASSUME Models!IntakeAssumption, IntakeInv, Models!Next, NEW w \in Handlers, Models!Deciding(w)
    PROVE  \E scan \in {model'.vulns} \cup {scan \in Scans : model'.vulns = Absent} :
              model'.decision = Models!DecisionOn([model' EXCEPT !.vulns = scan])
<1> DEFINE c == modelJob[w]
<1>1. c \in Work /\ WorkSound(c) /\ c.at = "decide" /\ c.persist /\ modelSaves' # modelSaves /\ modelJob'[w] = Models!Idle
  BY DEF IntakeInv, Models!Deciding, Models!At
<1>2. Models!Decide(w)
  <2>1. PICK u \in Handlers :
          \/ Models!BeginTriage(u) \/ Models!TriageScans(u) \/ Models!Probe(u) \/ Models!Decide(u)
          \/ Models!BeginScan(u) \/ Models!SaveScan(u)
          \/ Models!BeginRedteam(u) \/ Models!SaveRedteam(u) \/ Models!Alarm(u)
          \/ Models!BeginAttest(u) \/ Models!SaveAttested(u) \/ Models!Crash(u)
    BY DEF Models!Next
  <2>2. \A next : Models!Goto(u, next) => u = w
    BY <1>1 DEF Models!Goto, Models!Idle, IntakeInv
  <2>3. u = w
    BY <2>1, <2>2 DEF Models!BeginTriage, Models!TriageScans, Models!Probe, Models!Decide, Models!BeginScan, Models!SaveScan,
       Models!BeginRedteam, Models!SaveRedteam, Models!Alarm, Models!BeginAttest, Models!SaveAttested, Models!Crash
  <2> QED
    BY <1>1, <2>1, <2>3 DEF Models!BeginTriage, Models!TriageScans, Models!Probe, Models!BeginScan, Models!SaveScan, Models!Begin,
       Models!BeginRedteam, Models!SaveRedteam, Models!Alarm, Models!BeginAttest, Models!SaveAttested, Models!Crash, Models!At, Models!Quiet, Models!Idle
<1>3. Rests(c) /\ c.read \in Models!Row /\ c.known \in Models!Row
  BY <1>1 DEF Work, WorkSound, TriageSound, Triage, Models!Idle
<1>4. model' = [c.read EXCEPT !.decision = Models!DecisionOn(c.known)]
  BY <1>1, <1>2 DEF Models!Decide, Models!Decided, Models!Save, Models!Saved
<1> DEFINE scan == c.known.vulns
           full == [model' EXCEPT !.vulns = scan]
<1>5. scan \in {model'.vulns} \cup {s \in Scans : model'.vulns = Absent}
  BY <1>3, <1>4 DEF Rests, Models!Row
<1>6. /\ full.redteam = c.known.redteam /\ full.probes = c.known.probes
      /\ full.vulns = c.known.vulns /\ full.attested = c.known.attested
  BY <1>1, <1>3, <1>4 DEF Rests, Models!Row
<1>7. model'.decision = Models!DecisionOn(full)
  BY <1>3, <1>4, <1>6, SameEvidence DEF Models!Row
<1> QED
  BY <1>5, <1>7

(* A decision is stored with the evidence it rests on, whatever other      *)
(* handlers did to the row while it was made; a scan that triage made      *)
(* itself may be missing from it, and nothing else.                        *)
THEOREM DecisionsAlwaysRest ==
    ASSUME Models!IntakeAssumption
    PROVE  Models!Spec => Models!DecisionsRest
<1>1. IntakeInv /\ [Models!Next]_(Models!vars)
      => [\A h \in Handlers : Models!Deciding(h) =>
            \E scan \in {model'.vulns} \cup {scan \in Scans : model'.vulns = Absent} :
               model'.decision = Models!DecisionOn([model' EXCEPT !.vulns = scan])]_(Models!vars)
  BY DecisionRests
<1> QED
  BY <1>1, IntakeInvariance, PTL DEF Models!Spec, Models!DecisionsRest

LEMMA EvidenceKept ==
    ASSUME Models!IntakeAssumption, IntakeInv, Models!Next, ~lost'
    PROVE  \A column \in {"redteam", "probes", "vulns", "decision"} :
              model'[column] = Absent => model[column] = Absent
<1> DEFINE kept == \A column \in {"redteam", "probes", "vulns", "decision"} :
                      model'[column] = Absent => model[column] = Absent
<1>1. PICK w \in Handlers :
        \/ Models!BeginTriage(w) \/ Models!TriageScans(w) \/ Models!Probe(w) \/ Models!Decide(w)
        \/ Models!BeginScan(w) \/ Models!SaveScan(w)
        \/ Models!BeginRedteam(w) \/ Models!SaveRedteam(w) \/ Models!Alarm(w)
        \/ Models!BeginAttest(w) \/ Models!SaveAttested(w) \/ Models!Crash(w)
  BY DEF Models!Next
<1> DEFINE c == modelJob[w]
<1>2. c \in Work /\ model \in Models!Row
  BY DEF IntakeInv
<1>3. Models!Quiet => kept
  BY DEF Models!Quiet
<1>4. ASSUME NEW column \in {"redteam", "probes", "vulns", "attested", "decision"},
             NEW value, value # Absent, Models!Save(c.read, Models!Saved(c.read, column, value))
      PROVE  kept
  <2>1. model = c.read
    BY <1>4 DEF Models!Save
  <2>2. model' = [model EXCEPT ![column] = value]
    BY <1>4, <2>1 DEF Models!Save, Models!Saved
  <2> QED
    BY <1>2, <1>4, <2>2 DEF Models!Row
<1>5. CASE Models!SaveScan(w)
  BY <1>4, <1>5 DEF Models!SaveScan, Models!IntakeAssumption
<1>6. CASE Models!Probe(w)
  BY <1>3, <1>4, <1>6 DEF Models!Probe, Models!IntakeAssumption
<1>7. CASE Models!Decide(w)
  <2>1. Models!DecisionOn(c.known) # Absent
    BY RecommendIsARank DEF Models!DecisionOn, Models!IntakeAssumption
  <2> QED
    BY <1>3, <1>4, <1>7, <2>1 DEF Models!Decide, Models!Decided
<1>8. CASE Models!SaveRedteam(w)
  <2>1. c.at = "saveRedteam"
    BY <1>8 DEF Models!SaveRedteam, Models!At
  <2>2. c.result \in Evaluations
    BY <1>2, <2>1 DEF Work, Triage, Models!Idle
  <2> QED
    BY <1>4, <1>8, <2>2 DEF Models!SaveRedteam, Models!IntakeAssumption
<1>9. CASE Models!SaveAttested(w)
  <2>1. Models!Save(c.read, Models!Saved(c.read, "attested", TRUE))
    BY <1>9 DEF Models!SaveAttested
  <2>2. model = c.read
    BY <2>1 DEF Models!Save
  <2> QED
    BY <1>2, <2>1, <2>2 DEF Models!Save, Models!Saved, Models!Row
<1> QED
  BY <1>1, <1>3, <1>5, <1>6, <1>7, <1>8, <1>9
  DEF Models!BeginTriage, Models!TriageScans, Models!BeginScan, Models!Begin, Models!BeginRedteam, Models!Alarm, Models!BeginAttest, Models!Crash

(* What was found out about a model stays known until somebody saves a row *)
(* that is not the one stored then; and a scheduled scan that found grave  *)
(* matches opened an incident.                                             *)
THEOREM EvidenceAlwaysStays ==
    ASSUME Models!IntakeAssumption
    PROVE  Models!Spec => Models!EvidenceStays /\ []("scan" \in alarms => "scan" \in incidents)
<1>1. IntakeInv => ("scan" \in alarms => "scan" \in incidents)
  BY DEF IntakeInv
<1>2. IntakeInv /\ [Models!Next]_(Models!vars)
      => [lost' \/ \A column \in {"redteam", "probes", "vulns", "decision"} :
                      model'[column] = Absent => model[column] = Absent]_(Models!vars)
  BY EvidenceKept
<1> QED
  BY <1>1, <1>2, IntakeInvariance, PTL DEF Models!Spec, Models!EvidenceStays
-----------------------------------------------------------------------------
(* OpsScheduler: recurring jobs.                                           *)

(* In any period there is a time with a given place in it.                 *)
LEMMA PlaceInPeriod ==
    ASSUME NEW t \in Nat, NEW p \in Nat \ {0}, NEW at \in 0..p - 1
    PROVE  \E u \in t + 1..t + p : u % p = at
<1> DEFINE q == (t + 1) \div p
           r == (t + 1) % p
<1>1. q \in Nat /\ r \in 0..p - 1 /\ t + 1 = p * q + r
  OBVIOUS
<1> HIDE DEF q, r
<1>2. ASSUME NEW k \in Nat PROVE (p * k + at) % p = at
  OBVIOUS
<1>3. CASE at >= r
  <2>1. p * q + at \in t + 1..t + p
    BY <1>1, <1>3
  <2> QED
    BY <1>1, <1>2, <2>1
<1>4. CASE at < r
  <2>1. p * (q + 1) = p * q + p
    BY <1>1
  <2>2. p * (q + 1) + at \in t + 1..t + p
    BY <1>1, <1>4, <2>1
  <2>3. q + 1 \in Nat
    BY <1>1
  <2>4. (p * (q + 1) + at) % p = at
    BY <1>2, <2>3
  <2> HIDE DEF q
  <2> QED
    BY <2>2, <2>4
<1>5. at >= r \/ at < r
  <2>1. r \in Int /\ at \in Int
    BY <1>1
  <2> QED
    BY <2>1
<1> QED
  BY <1>3, <1>4, <1>5

(* A repeating job runs next at a later time.                              *)
LEMMA NextRunIsLater ==
    ASSUME Jobs!Configured, NEW plan \in Plans, NEW t \in Nat
    PROVE  /\ Jobs!NextRun(plan, t) \in Nat \cup {Never} /\ Jobs!FirstRun(plan, t) \in Nat \cup {Never}
           /\ Jobs!NextRun(plan, t) # Never => plan.type # "ONE_SHOT" /\ Jobs!NextRun(plan, t) > t
           /\ plan.type # "ONE_SHOT" => Jobs!FirstRun(plan, t) = Jobs!NextRun(plan, t)
<1>1. CASE plan.type = "ONE_SHOT"
  BY <1>1 DEF Jobs!NextRun, Jobs!FirstRun
<1>2. CASE plan.type = "INTERVAL"
  BY <1>2 DEF Jobs!NextRun, Jobs!FirstRun, Jobs!Configured
<1>3. CASE plan.type = "CALENDAR"
  <2> DEFINE times == t + 1..t + plan.period
             next == CHOOSE u \in times : u % plan.period = plan.at
  <2>1. plan.period \in Nat \ {0} /\ plan.at \in 0..plan.period - 1
    BY <1>3 DEF Jobs!Configured
  <2>2. \E u \in times : u % plan.period = plan.at
    <3>1. \A p \in Nat \ {0} : \A at \in 0..p - 1 : \E u \in t + 1..t + p : u % p = at
      BY PlaceInPeriod
    <3> QED
      BY <2>1, <3>1
  <2>3. next \in times
    BY <2>2
  <2>4. Jobs!NextRun(plan, t) = next /\ Jobs!FirstRun(plan, t) = next
    BY <1>3 DEF Jobs!NextRun, Jobs!FirstRun
  <2>5. next \in Nat /\ next > t
    BY <2>1, <2>3
  <2> QED
    BY <1>3, <2>4, <2>5
<1> QED
  BY <1>1, <1>2, <1>3 DEF Jobs!Configured
-----------------------------------------------------------------------------
(* A record that the code computed: its history holds as many of its last  *)
(* runs as there were and as are kept, in order, none of them to come, and *)
(* it runs next after the last run that it names.                          *)
Kept(r) ==
    LET n == Len(r.history) IN
    /\ r \in Jobs!Record
    /\ n = IF r.runs < MaxHistory THEN r.runs ELSE MaxHistory
    /\ \A i, j \in 1..n : i < j => r.history[i] <= r.history[j]
    /\ \A i \in 1..n : r.history[i] <= now
    /\ r.last # Never => n > 0 /\ r.last = r.history[n] /\ (r.next # Never => r.last < r.next)

LEMMA RememberKeepsOrder ==
    ASSUME Jobs!Configured, now \in Nat, NEW r, Kept(r)
    PROVE  LET h == Jobs!Remember(r.history, now) IN
           /\ h \in Seq(Nat)
           /\ Len(h) = IF r.runs + 1 < MaxHistory THEN r.runs + 1 ELSE MaxHistory
           /\ \A i, j \in 1..Len(h) : i < j => h[i] <= h[j]
           /\ \A i \in 1..Len(h) : h[i] <= now
           /\ h[Len(h)] = now
<1> DEFINE all == Append(r.history, now)
           cut == IF Len(all) > MaxHistory THEN Len(all) - MaxHistory + 1 ELSE 1
           h == SubSeq(all, cut, Len(all))
<1>1. r.history \in Seq(Nat) /\ r.runs \in Nat /\ MaxHistory \in Nat \ {0}
  BY DEF Kept, Jobs!Record, Jobs!Configured
<1>2. /\ all \in Seq(Nat) /\ Len(all) = Len(r.history) + 1
      /\ \A i \in 1..Len(r.history) : all[i] = r.history[i]
      /\ all[Len(all)] = now
  BY <1>1
<1>3. /\ \A i \in 1..Len(all) : all[i] <= now
      /\ \A i, j \in 1..Len(all) : i < j => all[i] <= all[j]
  <2> DEFINE n == Len(r.history)
  <2>1. n \in Nat /\ Len(all) = n + 1 /\ \A i \in 1..n : all[i] \in Nat
    BY <1>1, <1>2
  <2>2. \A i \in 1..n : all[i] <= now
    BY <1>2 DEF Kept
  <2>3. \A i, j \in 1..n : i < j => all[i] <= all[j]
    BY <1>2 DEF Kept
  <2>4. all[n + 1] = now
    BY <1>2, <2>1
  <2>5. \A i \in 1..Len(all) : i \in 1..n \/ i = n + 1
    BY <2>1
  <2> HIDE DEF n, all
  <2>6. \A i \in 1..Len(all) : all[i] <= now
    BY <2>2, <2>4, <2>5
  <2>7. ASSUME NEW i \in 1..Len(all), NEW j \in 1..Len(all), i < j
        PROVE  all[i] <= all[j]
    <3>1. i \in 1..n
      BY <2>1, <2>7
    <3>2. CASE j = n + 1
      BY <3>1, <3>2, <2>2, <2>4
    <3>3. CASE j \in 1..n
      BY <3>1, <3>3, <2>3, <2>7
    <3> QED
      BY <3>2, <3>3, <2>5
  <2> QED
    BY <2>6, <2>7
<1>4. cut \in 1..Len(all)
  BY <1>1, <1>2
<1> HIDE DEF all, cut
<1>5. /\ h \in Seq(Nat) /\ Len(h) = Len(all) - cut + 1
      /\ \A i \in 1..Len(h) : h[i] = all[cut + i - 1] /\ cut + i - 1 \in 1..Len(all)
  BY <1>2, <1>4
<1>6. Len(h) = IF r.runs + 1 < MaxHistory THEN r.runs + 1 ELSE MaxHistory
  BY <1>1, <1>2, <1>5 DEF Kept, cut
<1>7. Jobs!Remember(r.history, now) = h
  BY DEF Jobs!Remember, Jobs!LastOf, all, cut
<1> HIDE DEF h
<1>8. ASSUME NEW i \in 1..Len(h), NEW j \in 1..Len(h), i < j
      PROVE  h[i] <= h[j]
  <2>1. cut + i - 1 < cut + j - 1
    BY <1>2, <1>4, <1>5, <1>8
  <2> QED
    BY <1>3, <1>5, <2>1
<1>9. \A i \in 1..Len(h) : h[i] <= now
  BY <1>3, <1>5
<1>10. h[Len(h)] = now
  <2>1. Len(h) \in 1..Len(h) /\ cut + Len(h) - 1 = Len(all)
    BY <1>2, <1>4, <1>5
  <2> QED
    BY <1>2, <1>5, <2>1
<1> QED
  BY <1>5, <1>6, <1>7, <1>8, <1>9, <1>10
-----------------------------------------------------------------------------
(* Of a schedule that no outdated record was saved over: its runs are      *)
(* counted, and what a poll ran and recorded is over.                      *)
Over(next, id) == next # Never => \A d \in ran[id] \ {Never} : d < next
Counts(r, id) == r.runs = marks[id] /\ Over(r.next, id)

(* What a handler will save keeps this so, if nobody overtakes it.         *)
Follows(c) ==
    /\ c.record.runs = IF c.kind = "mark" THEN marks[c.id] + 1 ELSE marks[c.id]
    /\ c.kind # "create" => Over(c.record.next, c.id)
    /\ c.kind = "mark" /\ c.record.next # Never /\ c.due # Never => c.due < c.record.next

Past(due) == due # Never => due <= now
Listable(todo) == \A e \in todo : schedules[e.id] # Absent /\ Past(e.due)

HandlerSound(w, c) ==
    /\ c.at = "save" => /\ Kept(c.record) /\ Past(c.due) /\ Listable(c.todo)
                        /\ w \notin behind /\ c.id \notin clobbered => Follows(c)
    /\ c.at = "execute" => schedules[c.id] # Absent
    /\ c.at = "poll" => Listable(c.todo)
    /\ c.at = "mark" => schedules[c.id] # Absent /\ Past(c.due) /\ Listable(c.todo)

TablesSound ==
    /\ schedules \in [Schedules -> Jobs!Record \cup {Absent}]
    /\ \A id \in Schedules :
          /\ schedules[id] # Absent => Kept(schedules[id]) /\ (id \notin clobbered => Counts(schedules[id], id))
          /\ schedules[id] = Absent => marks[id] = 0 /\ ran[id] = {}
          /\ \A d \in ran[id] : Past(d)

JobsInv == /\ Jobs!TypeOK /\ scheduleJob \in [Jobs!Workers -> Jobs!Job]
           /\ TablesSound /\ \A w \in Jobs!Workers : HandlerSound(w, scheduleJob[w])

LEMMA KeptStays ==
    ASSUME now \in Nat, now' \in Nat, now <= now', NEW r, Kept(r)
    PROVE  Kept(r)'
<1>1. \A i \in 1..Len(r.history) : r.history[i] \in Nat
  BY DEF Kept, Jobs!Record
<1> QED
  BY <1>1 DEF Kept

(* A handler goes on, and what it carries is sound.                        *)
LEMMA HandlerStep ==
    ASSUME JobsInv, NEW w \in Jobs!Workers, NEW c \in Jobs!Job, HandlerSound(w, c), Jobs!Goto(w, c),
           UNCHANGED <<schedules, order, now, marks, ran, clobbered>>,
           behind' = behind \/ (c = Jobs!Idle /\ behind' = behind \ {w}), crashes' \in 0..MaxCrashes
    PROVE  JobsInv'
<1>1. scheduleJob' \in [Jobs!Workers -> Jobs!Job] /\ scheduleJob'[w] = c /\ \A u \in Jobs!Workers \ {w} : scheduleJob'[u] = scheduleJob[u]
  BY DEF JobsInv, Jobs!Goto
<1>2. Jobs!TypeOK'
  BY <1>1 DEF JobsInv, Jobs!TypeOK
<1>3. TablesSound'
  BY DEF JobsInv, TablesSound, Kept, Counts, Over, Past
<1>4. ASSUME NEW u \in Jobs!Workers PROVE HandlerSound(u, scheduleJob[u])'
  <2>1. CASE u = w
    <3>1. HandlerSound(w, c)'
      BY DEF HandlerSound, Kept, Past, Listable, Follows, Over, Jobs!Idle
    <3> QED
      BY <1>1, <2>1, <3>1
  <2>2. CASE u # w
    <3>1. scheduleJob'[u] = scheduleJob[u] /\ (u \in behind' <=> u \in behind)
      BY <1>1, <2>2
    <3> QED
      BY <3>1 DEF JobsInv, HandlerSound, Kept, Past, Listable, Follows, Over
  <2> QED
    BY <2>1, <2>2
<1> QED
  BY <1>1, <1>2, <1>3, <1>4 DEF JobsInv

LEMMA PrepareStep ==
    ASSUME Jobs!Configured, JobsInv, NEW w \in Jobs!Workers, NEW id \in Schedules, NEW record \in Jobs!Record, Kept(record),
           NEW due \in Nat \cup {Never}, Past(due), NEW todo \in SUBSET Jobs!Due, Listable(todo),
           NEW kind \in {"create", "status", "mark"}, Jobs!Prepare(w, id, record, due, todo, kind),
           id \notin clobbered =>
              /\ record.runs = IF kind = "mark" THEN marks[id] + 1 ELSE marks[id]
              /\ kind # "create" => Over(record.next, id)
              /\ kind = "mark" /\ record.next # Never /\ due # Never => due < record.next
    PROVE  JobsInv'
<1> DEFINE c == [at |-> "save", id |-> id, record |-> record, due |-> due, todo |-> todo, kind |-> kind]
<1>1. c \in Jobs!Job
  BY DEF Jobs!Job
<1>2. HandlerSound(w, c)
  BY DEF HandlerSound, Follows
<1>3. crashes' \in 0..MaxCrashes /\ Jobs!Goto(w, c) /\ behind' = behind
      /\ UNCHANGED <<schedules, order, now, marks, ran, clobbered>>
  BY DEF Jobs!Prepare, Jobs!history, JobsInv, Jobs!TypeOK
<1> QED
  BY <1>1, <1>2, <1>3, HandlerStep

(* What mark_job_run makes of a record.                                    *)
LEMMA MarkedIsKept ==
    ASSUME Jobs!Configured, JobsInv, NEW r, Kept(r)
    PROVE  /\ Jobs!Marked(r) \in Jobs!Record /\ Kept(Jobs!Marked(r)) /\ Jobs!Marked(r).runs = r.runs + 1
           /\ Jobs!Marked(r).next # Never => Jobs!Marked(r).next > now
<1> DEFINE h == Jobs!Remember(r.history, now)
           next == Jobs!NextRun(r.plan, now)
           m == Jobs!Marked(r)
<1>1. now \in Nat
  BY DEF JobsInv, Jobs!TypeOK, Jobs!Configured
<1>2. r \in Jobs!Record /\ r.plan \in Plans /\ r.runs \in Nat
  BY DEF Kept, Jobs!Record
<1>3. next \in Nat \cup {Never} /\ (next # Never => next > now)
  BY <1>1, <1>2, NextRunIsLater
<1>4. /\ h \in Seq(Nat)
      /\ Len(h) = IF r.runs + 1 < MaxHistory THEN r.runs + 1 ELSE MaxHistory
      /\ \A i, j \in 1..Len(h) : i < j => h[i] <= h[j]
      /\ \A i \in 1..Len(h) : h[i] <= now
      /\ h[Len(h)] = now
  BY <1>1, RememberKeepsOrder
<1> HIDE DEF h, next
<1>5. m \in Jobs!Record /\ m.runs = r.runs + 1 /\ m.history = h /\ m.next = next /\ m.last = now
  <2>1. m = [r EXCEPT !.runs = r.runs + 1, !.last = now, !.history = h, !.next = next]
    BY DEF Jobs!Marked, h, next
  <2>2. r = [status |-> r.status, plan |-> r.plan, next |-> r.next, last |-> r.last, runs |-> r.runs, history |-> r.history]
    BY <1>2 DEF Jobs!Record
  <2>3. m = [status |-> r.status, plan |-> r.plan, next |-> next, last |-> now, runs |-> r.runs + 1, history |-> h]
    BY <2>1, <2>2
  <2> HIDE DEF m
  <2> QED
    BY <1>1, <1>2, <1>3, <1>4, <2>3 DEF Jobs!Record
<1> HIDE DEF m
<1>6. Len(h) > 0
  BY <1>2, <1>4 DEF Jobs!Configured
<1>7. Kept(m)
  BY <1>1, <1>3, <1>4, <1>5, <1>6 DEF Kept
<1> QED
  BY <1>3, <1>5, <1>7 DEF m

LEMMA TouchKeepsRows ==
    ASSUME NEW S, order \in Seq(S), NEW key \in S, Jobs!Touch(key)
    PROVE  order' \in Seq(S)
<1>1. CASE \E i \in 1..Len(order) : order[i] = key
  <2> DEFINE i == CHOOSE i \in 1..Len(order) : order[i] = key
  <2>1. i \in 1..Len(order)
    BY <1>1
  <2>2. order' = SubSeq(order, 1, i - 1) \o SubSeq(order, i + 1, Len(order)) \o <<key>>
    BY <1>1 DEF Jobs!Touch
  <2> HIDE DEF i
  <2>3. SubSeq(order, 1, i - 1) \in Seq(S) /\ SubSeq(order, i + 1, Len(order)) \in Seq(S) /\ <<key>> \in Seq(S)
    BY <2>1
  <2> QED
    BY <2>2, <2>3
<1>2. CASE ~\E i \in 1..Len(order) : order[i] = key
  BY <1>2 DEF Jobs!Touch
<1> QED
  BY <1>1, <1>2

(* A record is saved: who has read the schedule before is overtaken.       *)
LEMMA ScheduleSaved ==
    ASSUME Jobs!Configured, JobsInv, NEW w \in Jobs!Workers, Jobs!Save(w)
    PROVE  JobsInv'
<1> DEFINE c == scheduleJob[w]
           id == c.id
           next == IF c.todo = {} THEN Jobs!Idle ELSE [at |-> "poll", todo |-> c.todo]
<1>1. /\ c \in [at : {"save"}, id : Schedules, record : Jobs!Record, todo : SUBSET Jobs!Due,
               due : Nat \cup {Never}, kind : {"create", "status", "mark"}]
      /\ Kept(c.record) /\ Past(c.due) /\ Listable(c.todo)
      /\ w \notin behind /\ c.id \notin clobbered => Follows(c)
  <2>1. c \in Jobs!Job /\ HandlerSound(w, c) /\ c.at = "save"
    BY DEF JobsInv, Jobs!Save
  <2>2. /\ Kept(c.record) /\ Past(c.due) /\ Listable(c.todo)
        /\ w \notin behind /\ c.id \notin clobbered => Follows(c)
    BY <2>1 DEF HandlerSound
  <2> QED
    BY <2>1, <2>2 DEF Jobs!Job, Jobs!Idle
<1>2. /\ schedules' = [schedules EXCEPT ![id] = c.record]
      /\ Jobs!Touch(id) /\ Jobs!Goto(w, next)
      /\ marks' = [marks EXCEPT ![id] = IF c.kind = "mark" THEN @ + 1 ELSE @]
      /\ ran' = [ran EXCEPT ![id] = CASE c.kind = "create" -> {}
                                     [] c.kind = "mark" -> @ \cup {c.due}
                                     [] OTHER -> @]
      /\ behind' = (behind \ {w}) \cup {o \in Jobs!Workers \ {w} : scheduleJob[o].at = "save" /\ scheduleJob[o].id = id}
      /\ clobbered' = IF w \in behind THEN clobbered \cup {id} ELSE clobbered
      /\ UNCHANGED <<now, crashes>>
  BY DEF Jobs!Save
<1>3. /\ marks \in [Schedules -> Nat] /\ ran \in [Schedules -> SUBSET (Nat \cup {Never})]
      /\ schedules \in [Schedules -> Jobs!Record \cup {Absent}] /\ now \in Nat
      /\ scheduleJob \in [Jobs!Workers -> Jobs!Job] /\ behind \subseteq Jobs!Workers /\ clobbered \subseteq Schedules
      /\ order \in Seq(Schedules \cup Others)
  BY DEF JobsInv, TablesSound, Jobs!TypeOK, Jobs!Configured
<1> DEFINE past == CASE c.kind = "create" -> {}
                    [] c.kind = "mark" -> ran[id] \cup {c.due}
                    [] OTHER -> ran[id]
<1>4. /\ schedules' \in [Schedules -> Jobs!Record \cup {Absent}] /\ schedules'[id] = c.record
      /\ marks' \in [Schedules -> Nat] /\ marks'[id] = IF c.kind = "mark" THEN marks[id] + 1 ELSE marks[id]
      /\ \A i \in Schedules \ {id} : schedules'[i] = schedules[i] /\ marks'[i] = marks[i]
  BY <1>1, <1>2, <1>3
<1>5. /\ past \in SUBSET (Nat \cup {Never})
      /\ ran' \in [Schedules -> SUBSET (Nat \cup {Never})] /\ ran'[id] = past
      /\ \A i \in Schedules \ {id} : ran'[i] = ran[i]
  <2>1. past \in SUBSET (Nat \cup {Never})
    BY <1>1, <1>3
  <2>2. ran' = [ran EXCEPT ![id] = past]
    BY <1>2
  <2> HIDE DEF past
  <2> QED
    BY <1>1, <1>3, <2>1, <2>2
<1>6. next \in Jobs!Job
  BY <1>1 DEF Jobs!Job
<1>7. scheduleJob' \in [Jobs!Workers -> Jobs!Job] /\ scheduleJob'[w] = next /\ \A u \in Jobs!Workers \ {w} : scheduleJob'[u] = scheduleJob[u]
  BY <1>2, <1>3, <1>6 DEF Jobs!Goto
<1>8. c.record # Absent
  BY <1>1 DEF Jobs!Configured
<1> HIDE DEF next
<1>9. Jobs!TypeOK'
  <2>1. order' \in Seq(Schedules \cup Others)
    BY <1>1, <1>2, <1>3, TouchKeepsRows
  <2>2. behind' \subseteq Jobs!Workers /\ clobbered' \subseteq Schedules
    BY <1>1, <1>2, <1>3
  <2> HIDE DEF past
  <2> QED
    BY <1>2, <1>4, <1>5, <1>7, <2>1, <2>2 DEF JobsInv, Jobs!TypeOK
<1>10. TablesSound'
  <2>1. ASSUME NEW i \in Schedules
        PROVE  /\ schedules'[i] # Absent => Kept(schedules[i])' /\ (i \notin clobbered' => Counts(schedules[i], i)')
               /\ schedules'[i] = Absent => marks'[i] = 0 /\ ran'[i] = {}
               /\ \A d \in ran'[i] : Past(d)'
    <3>1. CASE i # id
      <4>1. schedules'[i] = schedules[i] /\ marks'[i] = marks[i] /\ ran'[i] = ran[i] /\ now' = now
            /\ (i \notin clobbered' => i \notin clobbered)
        BY <1>2, <1>4, <1>5, <3>1
      <4> QED
        BY <4>1 DEF JobsInv, TablesSound, Kept, Counts, Over, Past
    <3>2. CASE i = id
      <4>1. Kept(schedules[i])'
        <5>1. Kept(c.record) /\ now' = now /\ schedules'[i] = c.record
          BY <1>1, <1>2, <1>4, <3>2
        <5> QED
          BY <5>1 DEF Kept
      <4>2. ASSUME i \notin clobbered' PROVE Counts(schedules[i], i)'
        <5>1. Follows(c)
          BY <1>1, <1>2, <3>2, <4>2
        <5>2. c.record.runs = marks'[id]
          BY <1>4, <5>1 DEF Follows
        <5>3. c.record.next # Never => \A d \in past \ {Never} : d < c.record.next
          BY <1>1, <5>1 DEF Follows, Over
        <5> QED
          BY <1>4, <1>5, <3>2, <5>2, <5>3 DEF Counts, Over
      <4>3. \A d \in ran'[i] : Past(d)'
        <5>1. \A d \in past : Past(d)
          BY <1>1 DEF JobsInv, TablesSound
        <5> QED
          BY <1>2, <1>5, <3>2, <5>1 DEF Past
      <4> QED
        BY <1>4, <1>8, <3>2, <4>1, <4>2, <4>3
    <3> QED
      BY <3>1, <3>2
  <2> QED
    BY <1>4, <2>1 DEF TablesSound
<1>11. \A i \in Schedules : schedules[i] # Absent => schedules'[i] # Absent
  BY <1>4, <1>8
<1>12. \A todo \in SUBSET Jobs!Due : Listable(todo) => Listable(todo)'
  BY <1>2, <1>11 DEF Listable, Past, Jobs!Due
<1>13. ASSUME NEW u \in Jobs!Workers PROVE HandlerSound(u, scheduleJob[u])'
  <2>1. CASE u = w
    <3>1. PICK todo \in SUBSET Jobs!Due : todo = c.todo /\ Listable(todo) /\ Listable(todo)'
      BY <1>1, <1>12
    <3>2. scheduleJob'[w] = Jobs!Idle \/ scheduleJob'[w] = [at |-> "poll", todo |-> todo]
      BY <1>7, <3>1 DEF next
    <3> QED
      BY <2>1, <3>1, <3>2 DEF HandlerSound, Jobs!Idle
  <2>2. CASE u # w
    <3>1. PICK k \in Jobs!Job : k = scheduleJob[u] /\ HandlerSound(u, k) /\ scheduleJob'[u] = k
      BY <1>7, <2>2 DEF JobsInv
    <3>2. CASE k.at = "save"
      <4>1. k.id \in Schedules /\ k.todo \in SUBSET Jobs!Due
        BY <3>2 DEF Jobs!Job, Jobs!Idle
      <4>2. Kept(k.record)' /\ Past(k.due)' /\ Listable(k.todo)'
        BY <1>2, <1>12, <3>1, <3>2, <4>1 DEF HandlerSound, Kept, Past
      <4>3. ASSUME u \notin behind', k.id \notin clobbered' PROVE Follows(k)'
        <5>1. k.id # id /\ u \notin behind /\ k.id \notin clobbered
          BY <1>2, <2>2, <3>1, <3>2, <4>3
        <5>2. Follows(k)
          BY <3>1, <3>2, <5>1 DEF HandlerSound
        <5>3. marks'[k.id] = marks[k.id] /\ ran'[k.id] = ran[k.id]
          BY <1>4, <1>5, <4>1, <5>1
        <5> QED
          BY <5>2, <5>3 DEF Follows, Over
      <4> QED
        BY <3>1, <3>2, <4>2, <4>3 DEF HandlerSound
    <3>3. CASE k.at \in {"execute", "mark"}
      <4>1. k.id \in Schedules /\ (k.at = "mark" => k.todo \in SUBSET Jobs!Due)
        BY <3>3 DEF Jobs!Job, Jobs!Idle
      <4> QED
        BY <1>2, <1>11, <1>12, <3>1, <3>3, <4>1 DEF HandlerSound, Past
    <3>4. CASE k.at \in {"poll", "create", "idle"}
      <4>1. k.at = "poll" => k.todo \in SUBSET Jobs!Due
        BY <3>4 DEF Jobs!Job, Jobs!Idle
      <4> QED
        BY <1>12, <3>1, <3>4, <4>1 DEF HandlerSound
    <3>5. k.at \in {"save", "execute", "mark", "poll", "create", "idle"}
      BY DEF Jobs!Job, Jobs!Idle
    <3> QED
      BY <3>2, <3>3, <3>4, <3>5
  <2> QED
    BY <2>1, <2>2
<1> QED
  BY <1>7, <1>9, <1>10, <1>13 DEF JobsInv

LEMMA NewRecordIsKept ==
    ASSUME Jobs!Configured, JobsInv, NEW id \in Schedules, NEW plan \in Plans, NEW t \in Nat
    PROVE  LET r == Jobs!NewRecord(schedules[id], plan, t) IN
           r \in Jobs!Record /\ Kept(r) /\ (id \notin clobbered => r.runs = marks[id])
<1> DEFINE old == schedules[id]
           first == Jobs!FirstRun(plan, t)
           r == Jobs!NewRecord(old, plan, t)
<1>1. now \in Nat /\ MaxHistory \in Nat \ {0}
  BY DEF JobsInv, Jobs!TypeOK, Jobs!Configured
<1>2. first \in Nat \cup {Never}
  BY NextRunIsLater
<1>3. /\ old # Absent => old \in Jobs!Record /\ Kept(old) /\ (id \notin clobbered => old.runs = marks[id])
      /\ old = Absent => marks[id] = 0
  BY DEF JobsInv, TablesSound, Counts, Kept
<1> HIDE DEF first
<1>4. CASE old = Absent
  <2>1. r = [status |-> "ACTIVE", plan |-> plan, next |-> first, last |-> Never, runs |-> 0, history |-> <<>>]
    BY <1>4 DEF Jobs!NewRecord, first
  <2>2. r \in Jobs!Record
    BY <1>2, <2>1 DEF Jobs!Record, Jobs!Status
  <2>3. Kept(r)
    BY <1>1, <2>1, <2>2 DEF Kept
  <2> QED
    BY <1>3, <1>4, <2>1, <2>2, <2>3
<1>5. CASE old # Absent
  <2>1. r = [status |-> "ACTIVE", plan |-> plan, next |-> first, last |-> Never, runs |-> old.runs, history |-> old.history]
    BY <1>5 DEF Jobs!NewRecord, first
  <2>2. r \in Jobs!Record
    BY <1>2, <1>3, <1>5, <2>1 DEF Jobs!Record, Jobs!Status
  <2>3. Kept(r)
    BY <1>3, <1>5, <2>1, <2>2 DEF Kept
  <2> QED
    BY <1>3, <1>5, <2>1, <2>2, <2>3
<1> QED
  BY <1>4, <1>5

LEMMA DueIsListable ==
    ASSUME Jobs!Configured, JobsInv
    PROVE  Jobs!DueSchedules \in SUBSET Jobs!Due /\ Listable(Jobs!DueSchedules)
<1>1. \A id \in Schedules : Jobs!IsDue(id) => schedules[id] # Absent /\ schedules[id].next \in Nat /\ schedules[id].next <= now
  BY DEF Jobs!IsDue, JobsInv, TablesSound, Jobs!Record
<1> QED
  BY <1>1 DEF Jobs!DueSchedules, Jobs!Due, Listable, Past

LEMMA JobsStep ==
    ASSUME Jobs!Configured, JobsInv, Jobs!Next
    PROVE  JobsInv'
<1>1. /\ now \in Nat /\ now \in 0..MaxTime /\ crashes \in 0..MaxCrashes /\ MaxTime \in Nat /\ MaxCrashes \in Nat
      /\ order \in Seq(Schedules \cup Others) /\ Never \notin Nat
  BY DEF JobsInv, Jobs!TypeOK, Jobs!Configured
<1>2. ASSUME NEW id \in Schedules, schedules[id] # Absent
      PROVE  /\ Kept(schedules[id]) /\ schedules[id] \in Jobs!Record
             /\ id \notin clobbered => Counts(schedules[id], id)
             /\ \A d \in ran[id] : Past(d) /\ d \in Nat \cup {Never}
  BY <1>2 DEF JobsInv, TablesSound, Kept, Jobs!TypeOK
<1>3. ASSUME NEW w \in Jobs!Workers, NEW id \in Schedules, schedules[id] # Absent,
             NEW due \in Nat \cup {Never}, Past(due), NEW todo \in SUBSET Jobs!Due, Listable(todo),
             Jobs!Prepare(w, id, Jobs!Marked(schedules[id]), due, todo, "mark")
      PROVE  JobsInv'
  <2> DEFINE m == Jobs!Marked(schedules[id])
  <2>1. m \in Jobs!Record /\ Kept(m) /\ m.runs = schedules[id].runs + 1 /\ (m.next # Never => m.next > now)
    BY <1>2, <1>3, MarkedIsKept
  <2>2. m.next \in Nat \cup {Never}
    BY <2>1 DEF Jobs!Record
  <2> HIDE DEF m
  <2>3. ASSUME m.next # Never
        PROVE  (due # Never => due < m.next) /\ \A d \in ran[id] \ {Never} : d < m.next
    <3>1. \A d \in Nat \cup {Never} : Past(d) /\ d # Never => d < m.next
      BY <1>1, <2>1, <2>2, <2>3 DEF Past
    <3> QED
      BY <1>2, <1>3, <3>1
  <2>4. id \notin clobbered => m.runs = marks[id] + 1
    BY <1>2, <1>3, <2>1 DEF Counts
  <2>5. Jobs!Prepare(w, id, m, due, todo, "mark")
    BY <1>3 DEF m
  <2> QED
    BY <1>3, <2>1, <2>3, <2>4, <2>5, PrepareStep DEF Over
<1>4. ASSUME NEW w \in Jobs!Workers, NEW c \in Jobs!Job, HandlerSound(w, c), Jobs!Goto(w, c),
             UNCHANGED <<schedules, order, now, marks, ran, behind, clobbered, crashes>>
      PROVE  JobsInv'
  BY <1>1, <1>4, HandlerStep
<1>5. Listable({}) /\ {} \in SUBSET Jobs!Due /\ Past(Never) /\ Never \in Nat \cup {Never}
  BY DEF Listable, Past
<1>6. CASE Jobs!Tick
  <2>1. now' = now + 1 /\ now' \in 0..MaxTime
        /\ UNCHANGED <<schedules, order, scheduleJob, marks, ran, behind, clobbered, crashes>>
    BY <1>1, <1>6 DEF Jobs!Tick, Jobs!history
  <2>2. \A r : Kept(r) => Kept(r)'
    <3> TAKE r
    <3> QED
      BY <1>1, <2>1, KeptStays
  <2>3. \A d \in Nat \cup {Never} : Past(d) => Past(d)'
    BY <1>1, <2>1 DEF Past
  <2>4. TablesSound'
    BY <2>1, <2>2, <2>3 DEF JobsInv, TablesSound, Jobs!TypeOK, Counts, Over
  <2>5. \A todo \in SUBSET Jobs!Due : Listable(todo) => Listable(todo)'
    BY <2>1, <2>3 DEF Listable, Jobs!Due
  <2>6. ASSUME NEW w \in Jobs!Workers PROVE HandlerSound(w, scheduleJob[w])'
    <3>1. PICK k \in Jobs!Job : k = scheduleJob[w] /\ k = scheduleJob'[w] /\ HandlerSound(w, k)
      BY <2>1 DEF JobsInv
    <3>2. CASE k.at = "save"
      <4>1. k.due \in Nat \cup {Never} /\ k.todo \in SUBSET Jobs!Due
        BY <3>2 DEF Jobs!Job, Jobs!Idle
      <4>2. Kept(k.record)' /\ Past(k.due)' /\ Listable(k.todo)'
        BY <2>2, <2>3, <2>5, <3>1, <3>2, <4>1 DEF HandlerSound
      <4> QED
        BY <2>1, <3>1, <3>2, <4>2 DEF HandlerSound, Follows, Over
    <3>3. CASE k.at # "save"
      <4>1. /\ k.at = "mark" => k.due \in Nat \cup {Never} /\ k.todo \in SUBSET Jobs!Due
            /\ k.at = "poll" => k.todo \in SUBSET Jobs!Due
        BY DEF Jobs!Job, Jobs!Idle
      <4> QED
        BY <2>1, <2>3, <2>5, <3>1, <3>3, <4>1 DEF HandlerSound
    <3> QED
      BY <3>2, <3>3
  <2>7. Jobs!TypeOK'
    BY <2>1 DEF JobsInv, Jobs!TypeOK
  <2> QED
    BY <2>1, <2>4, <2>6, <2>7 DEF JobsInv
<1>7. CASE \E o \in Others : Jobs!SaveOther(o)
  <2>1. PICK o \in Others : Jobs!Touch(o) /\ UNCHANGED <<schedules, now, scheduleJob, marks, ran, behind, clobbered, crashes>>
    BY <1>7 DEF Jobs!SaveOther, Jobs!history
  <2>2. order' \in Seq(Schedules \cup Others)
    BY <1>1, <2>1, TouchKeepsRows
  <2>3. Jobs!TypeOK'
    BY <2>1, <2>2 DEF JobsInv, Jobs!TypeOK
  <2> QED
    BY <2>1, <2>3 DEF JobsInv, TablesSound, HandlerSound, Kept, Past, Listable, Counts, Follows, Over
<1>8. ASSUME NEW w \in Clients, NEW id \in Schedules,
             \/ \E plan \in Plans : Jobs!Create(w, id, plan)
             \/ \E status \in Jobs!Status : Jobs!SetStatus(w, id, status)
             \/ Jobs!MarkRun(w, id)
             \/ Jobs!Execute(w, id)
      PROVE  JobsInv'
  <2>1. w \in Jobs!Workers
    BY DEF Jobs!Workers
  <2>2. ASSUME NEW plan \in Plans, Jobs!Create(w, id, plan) PROVE JobsInv'
    <3> DEFINE c == [at |-> "create", id |-> id, plan |-> plan, asked |-> now]
    <3>1. c \in Jobs!Job /\ HandlerSound(w, c)
      BY <1>1 DEF Jobs!Job, HandlerSound
    <3> QED
      BY <1>4, <2>1, <2>2, <3>1 DEF Jobs!Create, Jobs!history
  <2>3. ASSUME NEW status \in Jobs!Status, Jobs!SetStatus(w, id, status) PROVE JobsInv'
    <3> DEFINE r == [schedules[id] EXCEPT !.status = status]
    <3>1. schedules[id] # Absent /\ Jobs!Prepare(w, id, r, Never, {}, "status")
      BY <2>3 DEF Jobs!SetStatus
    <3>2. r \in Jobs!Record /\ r.plan = schedules[id].plan /\ r.next = schedules[id].next
          /\ r.runs = schedules[id].runs /\ r.last = schedules[id].last /\ r.history = schedules[id].history
      BY <1>2, <3>1 DEF Jobs!Record
    <3>3. Kept(r)
      BY <1>2, <3>1, <3>2 DEF Kept
    <3>4. id \notin clobbered => r.runs = marks[id] /\ Over(r.next, id)
      BY <1>2, <3>1, <3>2 DEF Counts
    <3> HIDE DEF r
    <3> QED
      BY <1>5, <2>1, <3>1, <3>2, <3>3, <3>4, PrepareStep
  <2>4. CASE Jobs!MarkRun(w, id)
    BY <1>3, <1>5, <2>1, <2>4 DEF Jobs!MarkRun
  <2>5. CASE Jobs!Execute(w, id)
    <3> DEFINE c == [at |-> "execute", id |-> id]
    <3>1. c \in Jobs!Job /\ HandlerSound(w, c)
      BY <2>5 DEF Jobs!Job, HandlerSound, Jobs!Execute
    <3> QED
      BY <1>4, <2>1, <2>5, <3>1 DEF Jobs!Execute, Jobs!history
  <2> QED
    BY <1>8, <2>2, <2>3, <2>4, <2>5
<1>9. ASSUME NEW w \in Pollers, Jobs!Poll(w) PROVE JobsInv'
  <2>1. PICK todo \in SUBSET Jobs!DueSchedules \ {{}} : Jobs!Goto(w, [at |-> "poll", todo |-> todo])
    BY <1>9 DEF Jobs!Poll
  <2> DEFINE c == [at |-> "poll", todo |-> todo]
  <2>2. todo \in SUBSET Jobs!Due /\ Listable(todo)
    BY <2>1, DueIsListable DEF Listable
  <2>3. c \in Jobs!Job /\ HandlerSound(w, c) /\ w \in Jobs!Workers
    BY <2>2 DEF Jobs!Job, HandlerSound, Jobs!Workers
  <2> QED
    BY <1>4, <1>9, <2>1, <2>3 DEF Jobs!Poll, Jobs!history
<1>10. ASSUME NEW w \in Jobs!Workers, Jobs!RunDirect(w) PROVE JobsInv'
  <2> DEFINE c == [at |-> "mark", id |-> scheduleJob[w].id, due |-> Never, todo |-> {}]
  <2>1. scheduleJob[w].at = "execute" /\ scheduleJob[w] \in Jobs!Job /\ HandlerSound(w, scheduleJob[w])
    BY <1>10 DEF Jobs!RunDirect, JobsInv
  <2>2. scheduleJob[w].id \in Schedules
    BY <2>1 DEF Jobs!Job, Jobs!Idle
  <2>3. c \in Jobs!Job /\ HandlerSound(w, c)
    BY <1>5, <2>1, <2>2 DEF Jobs!Job, HandlerSound
  <2> QED
    BY <1>4, <1>10, <2>3 DEF Jobs!RunDirect, Jobs!history
<1>11. ASSUME NEW w \in Jobs!Workers, Jobs!RunDue(w) PROVE JobsInv'
  <2>1. scheduleJob[w].at = "poll" /\ scheduleJob[w] \in Jobs!Job /\ HandlerSound(w, scheduleJob[w])
    BY <1>11 DEF Jobs!RunDue, JobsInv
  <2>2. scheduleJob[w].todo \in SUBSET Jobs!Due /\ Listable(scheduleJob[w].todo)
    BY <2>1 DEF Jobs!Job, Jobs!Idle, HandlerSound
  <2>3. PICK e \in scheduleJob[w].todo : Jobs!Goto(w, [at |-> "mark", id |-> e.id, due |-> e.due, todo |-> scheduleJob[w].todo \ {e}])
    BY <1>11 DEF Jobs!RunDue
  <2> DEFINE c == [at |-> "mark", id |-> e.id, due |-> e.due, todo |-> scheduleJob[w].todo \ {e}]
  <2>4. e.id \in Schedules /\ e.due \in Nat /\ schedules[e.id] # Absent /\ Past(e.due)
    BY <2>2 DEF Jobs!Due, Listable
  <2>5. c \in Jobs!Job /\ HandlerSound(w, c)
    BY <2>2, <2>4 DEF Jobs!Job, HandlerSound, Listable
  <2> QED
    BY <1>4, <1>11, <2>3, <2>5 DEF Jobs!RunDue, Jobs!history
<1>12. ASSUME NEW w \in Jobs!Workers, Jobs!Mark(w) PROVE JobsInv'
  <2>1. scheduleJob[w].at = "mark" /\ scheduleJob[w] \in Jobs!Job /\ HandlerSound(w, scheduleJob[w])
    BY <1>12 DEF Jobs!Mark, JobsInv
  <2>2. scheduleJob[w].id \in Schedules /\ scheduleJob[w].due \in Nat \cup {Never} /\ scheduleJob[w].todo \in SUBSET Jobs!Due
    BY <2>1 DEF Jobs!Job, Jobs!Idle
  <2>3. schedules[scheduleJob[w].id] # Absent /\ Past(scheduleJob[w].due) /\ Listable(scheduleJob[w].todo)
    BY <2>1 DEF HandlerSound
  <2> QED
    BY <1>3, <1>12, <2>2, <2>3 DEF Jobs!Mark
<1>13. ASSUME NEW w \in Jobs!Workers, Jobs!Crash(w) PROVE JobsInv'
  <2>1. crashes' \in 0..MaxCrashes
    BY <1>1, <1>13 DEF Jobs!Crash
  <2>2. Jobs!Idle \in Jobs!Job /\ HandlerSound(w, Jobs!Idle)
    BY DEF Jobs!Job, Jobs!Idle, HandlerSound
  <2> QED
    BY <1>13, <2>1, <2>2, HandlerStep DEF Jobs!Crash
<1>14. ASSUME NEW w \in Jobs!Workers, Jobs!ReadExisting(w) PROVE JobsInv'
  <2> DEFINE c == scheduleJob[w]
             r == Jobs!NewRecord(schedules[c.id], c.plan, c.asked)
  <2>1. c \in Jobs!Job /\ c.at = "create" /\ Jobs!Prepare(w, c.id, r, Never, {}, "create")
    BY <1>14 DEF Jobs!ReadExisting, JobsInv
  <2>2. c.id \in Schedules /\ c.plan \in Plans /\ c.asked \in Nat
    BY <2>1 DEF Jobs!Job, Jobs!Idle
  <2>3. r \in Jobs!Record /\ Kept(r) /\ (c.id \notin clobbered => r.runs = marks[c.id])
    BY <2>2, NewRecordIsKept
  <2> HIDE DEF r
  <2> QED
    BY <1>5, <2>1, <2>2, <2>3, PrepareStep
<1> QED
  BY <1>6, <1>7, <1>8, <1>9, <1>10, <1>11, <1>12, <1>13, <1>14, ScheduleSaved DEF Jobs!Next, Jobs!Work, Jobs!Workers

LEMMA JobsStart ==
    ASSUME Jobs!Configured, Jobs!Init
    PROVE  JobsInv
<1>1. Jobs!TypeOK
  BY DEF Jobs!Init, Jobs!TypeOK, Jobs!Configured, Jobs!Job
<1>2. TablesSound
  BY DEF Jobs!Init, TablesSound
<1>3. scheduleJob \in [Jobs!Workers -> Jobs!Job] /\ \A w \in Jobs!Workers : HandlerSound(w, scheduleJob[w])
  BY DEF Jobs!Init, Jobs!Job, Jobs!Idle, HandlerSound
<1> QED
  BY <1>1, <1>2, <1>3 DEF JobsInv

LEMMA JobsRest == JobsInv /\ UNCHANGED Jobs!vars => JobsInv'
  BY DEF Jobs!vars, JobsInv, Jobs!TypeOK, TablesSound, HandlerSound, Kept, Past, Listable, Counts, Follows, Over

LEMMA JobsInvariance ==
    ASSUME Jobs!Configured
    PROVE  Jobs!Spec => []JobsInv
<1>1. Jobs!Init => JobsInv
  BY JobsStart
<1> QED
  BY <1>1, JobsRest, JobsStep, PTL DEF Jobs!Spec

LEMMA RecordsCohere ==
    ASSUME JobsInv
    PROVE  Jobs!RecordsCoherent
<1>1. ASSUME NEW id \in Schedules, schedules[id] # Absent
      PROVE  LET r == schedules[id]
                 n == Len(r.history)
             IN /\ n = IF r.runs < MaxHistory THEN r.runs ELSE MaxHistory
                /\ \A i, j \in 1..n : i < j => r.history[i] <= r.history[j]
                /\ r.last # Never => /\ n > 0 /\ r.last = r.history[n]
                                     /\ r.next # Never => r.last < r.next
  <2>1. Kept(schedules[id])
    BY <1>1 DEF JobsInv, TablesSound
  <2>2. Len(schedules[id].history) \in Nat
    BY <2>1 DEF Kept, Jobs!Record
  <2> QED
    BY <2>1, <2>2 DEF Kept
<1> QED
  BY <1>1 DEF JobsInv, Jobs!RecordsCoherent

LEMMA RunsRecord ==
    ASSUME JobsInv
    PROVE  Jobs!RunsRecorded
<1>1. Jobs!RunsCounted
  BY DEF JobsInv, TablesSound, Counts, Jobs!RunsCounted
<1>2. ASSUME NEW id \in Schedules, Jobs!IsDue(id), schedules[id].next \in ran[id], id \notin clobbered
      PROVE  FALSE
  <2>1. Counts(schedules[id], id) /\ schedules[id] \in Jobs!Record /\ schedules[id].next # Never
    BY <1>2 DEF JobsInv, TablesSound, Kept, Jobs!IsDue
  <2>2. schedules[id].next < schedules[id].next /\ schedules[id].next \in Nat
    BY <1>2, <2>1 DEF Counts, Over, Jobs!Record
  <2> QED
    BY <2>2
<1>3. Jobs!RecordedIsNotDue
  BY <1>2 DEF Jobs!RecordedIsNotDue, Jobs!DueSchedules
<1> QED
  BY <1>1, <1>3 DEF Jobs!RunsRecorded

(* However handlers overwrite each other, a schedule is a record that some *)
(* handler computed: its history is of its last runs, in order, and a      *)
(* repeating schedule is not due again at the time it last ran.  The state *)
(* is well typed.                                                          *)
THEOREM RecordsAlwaysCoherent ==
    ASSUME Jobs!Configured
    PROVE  Jobs!Spec => []Jobs!RecordsCoherent
<1>1. JobsInv => Jobs!RecordsCoherent
  BY RecordsCohere
<1> QED
  BY <1>1, JobsInvariance, PTL

(* The runs of a schedule are counted, and what a poll ran and recorded is *)
(* not due again - a one-shot job runs once - across re-creation, pauses,  *)
(* deletion and the death of workers, unless an outdated record was saved. *)
THEOREM RunsAlwaysRecorded ==
    ASSUME Jobs!Configured
    PROVE  Jobs!Spec => []Jobs!RunsRecorded
<1>1. JobsInv => Jobs!RunsRecorded
  BY RunsRecord
<1> QED
  BY <1>1, JobsInvariance, PTL
-----------------------------------------------------------------------------
(* SessionMonitors: what is reported of a session, and its summaries.      *)

(* What a handler will save is what it read and its own use; what is       *)
(* stored is what was told, unless a summary was lost.                     *)
UsageSound(c) ==
    c.at = "save" =>
        /\ c.new = Monitors!Used(IF c.read = Absent THEN Monitors!NothingUsed ELSE c.read, c.wrote.use, c.wrote.limits)
        /\ c.new \in Monitors!Usage /\ c.wrote.limits # Absent

UsageInv ==
    /\ sessionRow \in Monitors!Usage \cup {Absent} /\ budget \in Budgets \cup {Absent}
    /\ sessionRow = Absent /\ ~lostSessions => told.usage = Monitors!NothingUsed
    /\ DOMAIN monitorCall = Handlers
    /\ \A w \in Handlers : /\ monitorCall[w].at = "session" => monitorCall[w].limits \in Budgets \ {Absent} /\ monitorCall[w].use \in Uses
                           /\ UsageSound(monitorCall[w])
    /\ Monitors!UsageIsJudged

LEMMA UsedIsUsage ==
    ASSUME Monitors!MonitorsAssumption, NEW state \in Monitors!Usage, NEW use \in Uses, NEW limits \in Budgets
    PROVE  Monitors!Used(state, use, limits) \in Monitors!Usage
<1>1. use.resource \in Monitors!Resources /\ use.value \in Int
  BY DEF Monitors!MonitorsAssumption
<1>2. \A x, y \in Int : Monitors!Max({x, y}) \in Int
  <2> SUFFICES ASSUME NEW x \in Int, NEW y \in Int PROVE Monitors!Max({x, y}) \in Int
    OBVIOUS
  <2>1. \E m \in {x, y} : \A n \in {x, y} : m >= n
    <3>1. CASE x >= y
      BY <3>1
    <3>2. CASE y >= x
      BY <3>2
    <3> QED
      BY <3>1, <3>2
  <2> QED
    BY <2>1 DEF Monitors!Max
<1>3. state.totals \in [Monitors!Resources -> Int]
  BY DEF Monitors!Usage
<1>4. Monitors!Added(state.totals, use) \in [Monitors!Resources -> Int]
  BY <1>1, <1>2, <1>3 DEF Monitors!Added
<1>5. Monitors!CostOf(state, use, limits) \in Int
  <2>1. \A x, y \in Int : x * y \in Int
    OBVIOUS
  <2>2. limits["RATE"] \in Int /\ state.cost \in Int
    BY DEF Monitors!MonitorsAssumption, Monitors!Usage
  <2>3. Monitors!Added(state.totals, use)["TOKENS"] \in Int
    BY <1>4 DEF Monitors!Resources
  <2> QED
    BY <2>1, <2>2, <2>3 DEF Monitors!CostOf
<1>6. \A totals, cost : Monitors!Violations(use, totals, cost, limits) \subseteq Monitors!Resources \cup {"REQUEST"}
  BY DEF Monitors!Violations, Monitors!Exceeded, Monitors!Resources
<1> QED
  BY <1>4, <1>5, <1>6 DEF Monitors!Used, Monitors!Usage

LEMMA UsageStep ==
    ASSUME Monitors!MonitorsAssumption, UsageInv, Monitors!UsageNext
    PROVE  UsageInv'
<1>1. PICK w \in Handlers :
        \/ \E limits \in Budgets : Monitors!CreateBudget(w, limits)
        \/ \E use \in Uses : Monitors!RecordUsage(w, use)
        \/ Monitors!ResetUsage(w) \/ Monitors!ReadUsage(w) \/ Monitors!SaveUsage(w)
        \/ Monitors!Die(w) /\ UNCHANGED told
  BY DEF Monitors!UsageNext
<1> DEFINE c == monitorCall[w]
<1>2. ASSUME NEW next, Monitors!Go(w, next), UsageSound(next),
             next.at = "session" => next.limits \in Budgets \ {Absent} /\ next.use \in Uses
      PROVE  /\ DOMAIN monitorCall' = Handlers
             /\ \A u \in Handlers : /\ monitorCall'[u].at = "session" => monitorCall'[u].limits \in Budgets \ {Absent} /\ monitorCall'[u].use \in Uses
                                    /\ UsageSound(monitorCall'[u])
  <2>1. /\ DOMAIN monitorCall' = Handlers /\ monitorCall'[w] = next
        /\ \A u \in Handlers \ {w} : monitorCall'[u] = monitorCall[u]
    BY <1>2 DEF Monitors!Go, UsageInv
  <2> QED
    BY <1>2, <2>1 DEF UsageInv
<1>3. ASSUME NEW next, Monitors!Go(w, next), UsageSound(next),
             next.at = "session" => next.limits \in Budgets \ {Absent} /\ next.use \in Uses,
             UNCHANGED <<sessionRow, told, lostSessions>>, budget' \in Budgets \cup {Absent}
      PROVE  UsageInv'
  <2>1. Monitors!UsageIsJudged'
    BY <1>3 DEF UsageInv, Monitors!UsageIsJudged
  <2> QED
    BY <1>2, <1>3, <2>1 DEF UsageInv, UsageSound
<1>4. UsageSound(Monitors!Idle) /\ Monitors!Idle.at # "session" /\ UsageSound([at |-> "reset"])
      /\ (UNCHANGED budget => budget' \in Budgets \cup {Absent})
  BY DEF UsageSound, Monitors!Idle, UsageInv
<1>5. CASE \E limits \in Budgets : Monitors!CreateBudget(w, limits)
  BY <1>3, <1>4, <1>5 DEF Monitors!CreateBudget
<1>6. ASSUME NEW use \in Uses, Monitors!RecordUsage(w, use) PROVE UsageInv'
  <2> DEFINE next == [at |-> "session", limits |-> budget, use |-> use]
  <2>1. UsageSound(next) /\ next.limits \in Budgets \ {Absent} /\ next.use \in Uses
    BY <1>6 DEF UsageSound, Monitors!RecordUsage, UsageInv
  <2> QED
    BY <1>3, <1>4, <1>6, <2>1 DEF Monitors!RecordUsage
<1>7. CASE Monitors!ResetUsage(w)
  <2>1. Monitors!Go(w, Monitors!Idle) /\ sessionRow' = Monitors!NothingUsed /\ told' = [usage |-> Monitors!NothingUsed, limits |-> Absent]
        /\ UNCHANGED budget
    BY <1>7 DEF Monitors!ResetUsage
  <2>2. Monitors!NothingUsed \in Monitors!Usage
    BY DEF Monitors!NothingUsed, Monitors!Usage
  <2>3. Monitors!UsageIsJudged'
    BY <2>1 DEF Monitors!UsageIsJudged
  <2> QED
    BY <1>2, <1>4, <2>1, <2>2, <2>3 DEF UsageInv, UsageSound
<1>8. CASE Monitors!ReadUsage(w)
  <2> DEFINE state == IF sessionRow = Absent THEN Monitors!NothingUsed ELSE sessionRow
             new == Monitors!Used(state, c.use, c.limits)
             next == [at |-> "save", read |-> sessionRow, new |-> new, wrote |-> c]
  <2>1. c.use \in Uses /\ c.limits \in Budgets \ {Absent} /\ Monitors!Go(w, next) /\ UNCHANGED <<sessionRow, budget, told, lostSessions>>
    BY <1>8 DEF Monitors!ReadUsage, Monitors!At, Monitors!WillSave, UsageInv
  <2>2. state \in Monitors!Usage
    BY DEF UsageInv, Monitors!NothingUsed, Monitors!Usage
  <2>3. new \in Monitors!Usage
    BY <2>1, <2>2, UsedIsUsage
  <2>4. UsageSound(next)
    BY <2>1, <2>3 DEF UsageSound
  <2> QED
    BY <1>3, <1>4, <2>1, <2>4
<1>9. CASE Monitors!SaveUsage(w)
  <2> DEFINE state == IF c.read = Absent THEN Monitors!NothingUsed ELSE c.read
             use == c.wrote.use
             limits == c.wrote.limits
  <2>1. /\ c.at = "save" /\ Monitors!Go(w, Monitors!Idle) /\ sessionRow' = c.new /\ lostSessions' = (lostSessions \/ sessionRow # c.read)
        /\ UNCHANGED budget
        /\ told' = [usage |-> [totals |-> Monitors!Added(told.usage.totals, use),
                               cost |-> Monitors!CostOf(told.usage, use, limits),
                               violations |-> told.usage.violations \cup c.new.violations],
                    limits |-> limits]
    BY <1>9 DEF Monitors!SaveUsage, Monitors!SaveSummary, Monitors!At
  <2>2. c.new = Monitors!Used(state, use, limits) /\ c.new \in Monitors!Usage /\ c.new # Absent
    BY <2>1 DEF UsageInv, UsageSound, Monitors!MonitorsAssumption
  <2>3. /\ c.new.totals = Monitors!Added(state.totals, use) /\ state.violations \subseteq c.new.violations
        /\ c.new.cost = Monitors!CostOf(state, use, limits)
        /\ Monitors!Exceeded(c.new.totals, c.new.cost, limits) \subseteq c.new.violations
    <3> DEFINE totals == Monitors!Added(state.totals, use)
               cost == Monitors!CostOf(state, use, limits)
    <3>1. c.new = [totals |-> totals, cost |-> cost,
                   violations |-> state.violations \cup Monitors!Violations(use, totals, cost, limits)]
      BY <2>2 DEF Monitors!Used
    <3>2. Monitors!Exceeded(totals, cost, limits) \subseteq Monitors!Violations(use, totals, cost, limits)
      BY DEF Monitors!Violations
    <3> HIDE DEF totals, cost
    <3> QED
      BY <3>1, <3>2 DEF totals, cost
  <2>4. ASSUME ~lostSessions'
        PROVE  told.usage.totals = state.totals /\ told.usage.cost = state.cost /\ told.usage.violations \subseteq state.violations
    <3>1. ~lostSessions /\ sessionRow = c.read
      BY <2>1, <2>4
    <3>2. CASE sessionRow = Absent
      BY <3>1, <3>2 DEF UsageInv
    <3>3. CASE sessionRow # Absent
      BY <3>1, <3>3 DEF UsageInv, Monitors!UsageIsJudged
    <3> QED
      BY <3>2, <3>3
  <2>5. /\ told'.usage.totals = Monitors!Added(told.usage.totals, use)
        /\ told'.usage.cost = Monitors!CostOf(told.usage, use, limits)
        /\ told'.usage.violations = told.usage.violations \cup c.new.violations
        /\ told'.limits = limits
    BY <2>1
  <2>6. Monitors!UsageIsJudged'
    <3>1. ASSUME ~lostSessions'
          PROVE  /\ c.new.totals = told'.usage.totals /\ told'.usage.violations \subseteq c.new.violations
                 /\ c.new.cost = told'.usage.cost
                 /\ Monitors!Exceeded(c.new.totals, c.new.cost, limits) \subseteq c.new.violations
      BY <2>3, <2>4, <2>5, <3>1 DEF Monitors!CostOf
    <3> QED
      BY <2>1, <2>5, <3>1 DEF Monitors!UsageIsJudged, Monitors!Exceeded
  <2> QED
    BY <1>2, <1>4, <2>1, <2>2, <2>6 DEF UsageInv, UsageSound
<1>10. CASE Monitors!Die(w) /\ UNCHANGED told
  BY <1>3, <1>4, <1>10 DEF Monitors!Die
<1> QED
  BY <1>1, <1>5, <1>6, <1>7, <1>8, <1>9, <1>10

LEMMA UsageStart == Monitors!UsageInit => UsageInv
  BY DEF Monitors!UsageInit, Monitors!Start, UsageInv, UsageSound, Monitors!Idle, Monitors!UsageIsJudged

LEMMA UsageRests == UsageInv /\ UNCHANGED Monitors!vars => UsageInv'
  BY DEF Monitors!vars, UsageInv, UsageSound, Monitors!UsageIsJudged, Monitors!Exceeded

(* Unless a summary was saved over one that was not read, every use is in  *)
(* the totals, violations stay, and what exceeds the budget is one.        *)
THEOREM UsageAlwaysJudged ==
    ASSUME Monitors!MonitorsAssumption
    PROVE  Monitors!UsageSpec => []Monitors!UsageIsJudged
<1>1. UsageInv => Monitors!UsageIsJudged
  BY DEF UsageInv
<1> QED
  BY <1>1, UsageStart, UsageRests, UsageStep, PTL DEF Monitors!UsageSpec
-----------------------------------------------------------------------------
(* What a handler will save of a session is what it read and its own       *)
(* change; who writes an event came before the session was closed.         *)
Session(s) == s = [status |-> s.status, event_count |-> s.event_count, risk_level |-> s.risk_level]
SessionSound(c) ==
    /\ c.at \in {"event", "list"} => Session(c.read) /\ c.read # Absent
    /\ c.at = "event" /\ c.closed => lostSessions
    /\ c.at = "save" =>
          \/ c.wrote = "open" /\ c.read = Absent /\ c.new = Monitors!Opened
          \/ /\ Session(c.read) /\ c.read # Absent
             /\ \/ c.wrote = "event" /\ c.new = [c.read EXCEPT !.event_count = @ + 1]
                \/ c.wrote = "risk" /\ c.new = [c.read EXCEPT !.risk_level = c.new.risk_level]
                \/ c.wrote = "close" /\ c.new = [c.read EXCEPT !.status = "CLOSED"]

OversightInv ==
    /\ sessionRow # Absent => Session(sessionRow) /\ (~lostSessions => sessionRow = told)
    /\ lostSessions \in BOOLEAN /\ DOMAIN monitorCall = Handlers
    /\ \A w \in Handlers : SessionSound(monitorCall[w])

LEMMA OversightStep ==
    ASSUME OversightInv, Monitors!OversightNext
    PROVE  OversightInv'
<1>1. PICK w \in Handlers :
        \/ Monitors!OpenSession(w) \/ Monitors!Assess(w) \/ Monitors!CloseSession(w)
        \/ \E turn \in Items, severity \in Severities : Monitors!RecordEvent(w, turn, severity)
        \/ Monitors!SaveEvent(w) \/ Monitors!ListEvents(w) \/ Monitors!SaveSession(w)
        \/ Monitors!Die(w) /\ UNCHANGED told
  BY DEF Monitors!OversightNext
<1> DEFINE c == monitorCall[w]
<1>2. ASSUME NEW next, Monitors!Go(w, next), SessionSound(next)', lostSessions => lostSessions'
      PROVE  DOMAIN monitorCall' = Handlers /\ \A u \in Handlers : SessionSound(monitorCall[u])'
  <2>1. /\ DOMAIN monitorCall' = Handlers /\ monitorCall'[w] = next
        /\ \A u \in Handlers \ {w} : monitorCall'[u] = monitorCall[u]
    BY <1>2 DEF Monitors!Go, OversightInv
  <2>2. ASSUME NEW u \in Handlers PROVE SessionSound(monitorCall[u])'
    <3>1. CASE u = w
      BY <1>2, <2>1, <3>1 DEF SessionSound
    <3>2. CASE u # w
      BY <1>2, <2>1, <3>2 DEF OversightInv, SessionSound
    <3> QED
      BY <3>1, <3>2
  <2> QED
    BY <2>1, <2>2
<1>3. ASSUME NEW next, Monitors!Go(w, next), SessionSound(next), UNCHANGED <<sessionRow, told, lostSessions>>
      PROVE  OversightInv'
  <2>1. SessionSound(next)'
    BY <1>3 DEF SessionSound
  <2> QED
    BY <1>2, <1>3, <2>1 DEF OversightInv, Session
<1>4. SessionSound(Monitors!Idle) /\ SessionSound(Monitors!Idle)'
  BY DEF SessionSound, Monitors!Idle
<1>5. CASE Monitors!OpenSession(w)
  <2>1. SessionSound([at |-> "save", read |-> Absent, new |-> Monitors!Opened, wrote |-> "open"])
    BY DEF SessionSound
  <2> QED
    BY <1>3, <1>5, <2>1 DEF Monitors!OpenSession, Monitors!WillSave
<1>6. CASE Monitors!Assess(w)
  <2>1. SessionSound([at |-> "list", read |-> sessionRow])
    BY <1>6 DEF SessionSound, OversightInv, Monitors!Assess
  <2> QED
    BY <1>3, <1>6, <2>1 DEF Monitors!Assess
<1>7. CASE Monitors!CloseSession(w)
  <2> DEFINE new == [sessionRow EXCEPT !.status = "CLOSED"]
  <2>1. SessionSound([at |-> "save", read |-> sessionRow, new |-> new, wrote |-> "close"])
    BY <1>7 DEF SessionSound, OversightInv, Monitors!CloseSession
  <2> QED
    BY <1>3, <1>7, <2>1 DEF Monitors!CloseSession, Monitors!WillSave
<1>8. ASSUME NEW turn \in Items, NEW severity \in Severities, Monitors!RecordEvent(w, turn, severity)
      PROVE  OversightInv'
  <2> DEFINE next == [at |-> "event", turn |-> turn, severity |-> severity, read |-> sessionRow,
                      closed |-> told.status = "CLOSED"]
  <2>1. sessionRow # Absent /\ sessionRow.status # "CLOSED" /\ Monitors!Go(w, next) /\ UNCHANGED <<sessionRow, told, lostSessions>>
    BY <1>8 DEF Monitors!RecordEvent
  <2>2. Session(sessionRow) /\ (~lostSessions => told.status # "CLOSED")
    BY <2>1 DEF OversightInv
  <2>3. SessionSound(next)
    BY <2>1, <2>2 DEF SessionSound
  <2> QED
    BY <1>3, <2>1, <2>3
<1>9. CASE Monitors!SaveEvent(w)
  <2> DEFINE new == [c.read EXCEPT !.event_count = @ + 1]
  <2>1. SessionSound([at |-> "save", read |-> c.read, new |-> new, wrote |-> "event"])
    BY <1>9 DEF SessionSound, OversightInv, Monitors!SaveEvent, Monitors!At
  <2> QED
    BY <1>3, <1>9, <2>1 DEF Monitors!SaveEvent, Monitors!WillSave
<1>10. CASE Monitors!ListEvents(w)
  <2> DEFINE new == [c.read EXCEPT !.risk_level = Monitors!RiskOf]
  <2>1. Session(c.read) /\ c.read # Absent
    BY <1>10 DEF SessionSound, OversightInv, Monitors!ListEvents, Monitors!At
  <2>2. new = [c.read EXCEPT !.risk_level = new.risk_level]
    BY <2>1 DEF Session
  <2>3. SessionSound([at |-> "save", read |-> c.read, new |-> new, wrote |-> "risk"])
    BY <2>1, <2>2 DEF SessionSound
  <2> QED
    BY <1>3, <1>10, <2>3 DEF Monitors!ListEvents, Monitors!WillSave
<1>11. CASE Monitors!SaveSession(w)
  <2>1. /\ c.at = "save" /\ Monitors!Go(w, Monitors!Idle) /\ sessionRow' = c.new /\ lostSessions' = (lostSessions \/ sessionRow # c.read)
        /\ told' = CASE c.wrote = "open" -> Monitors!Opened
                      [] c.wrote = "event" -> [told EXCEPT !.event_count = @ + 1]
                      [] c.wrote = "risk" -> [told EXCEPT !.risk_level = c.new.risk_level]
                      [] c.wrote = "close" -> [told EXCEPT !.status = "CLOSED"]
    BY <1>11 DEF Monitors!SaveSession, Monitors!SaveSummary, Monitors!At
  <2>2. \/ c.wrote = "open" /\ c.read = Absent /\ c.new = Monitors!Opened
        \/ /\ Session(c.read) /\ c.read # Absent
           /\ \/ c.wrote = "event" /\ c.new = [c.read EXCEPT !.event_count = @ + 1]
              \/ c.wrote = "risk" /\ c.new = [c.read EXCEPT !.risk_level = c.new.risk_level]
              \/ c.wrote = "close" /\ c.new = [c.read EXCEPT !.status = "CLOSED"]
    BY <2>1 DEF OversightInv, SessionSound
  <2>3. Session(c.new)
    BY <2>2 DEF Session, Monitors!Opened
  <2>4. ASSUME ~lostSessions' PROVE c.new = told'
    <3>1. sessionRow = c.read /\ ~lostSessions /\ (c.read # Absent => told = c.read)
      BY <2>1, <2>4 DEF OversightInv
    <3> QED
      BY <2>1, <2>2, <3>1
  <2>5. lostSessions' \in BOOLEAN /\ (lostSessions => lostSessions')
    BY <2>1 DEF OversightInv
  <2> QED
    BY <1>2, <1>4, <2>1, <2>3, <2>4, <2>5 DEF OversightInv, Session
<1>12. CASE Monitors!Die(w) /\ UNCHANGED told
  BY <1>3, <1>4, <1>12 DEF Monitors!Die
<1> QED
  BY <1>1, <1>5, <1>6, <1>7, <1>8, <1>9, <1>10, <1>11, <1>12

LEMMA OversightStart ==
    ASSUME Monitors!OversightInit
    PROVE  OversightInv
<1>1. SessionSound(Monitors!Idle)
  BY DEF SessionSound, Monitors!Idle
<1>2. /\ sessionRow = Absent /\ lostSessions = FALSE /\ DOMAIN monitorCall = Handlers
      /\ \A w \in Handlers : monitorCall[w] = Monitors!Idle
  BY DEF Monitors!OversightInit, Monitors!Start
<1> QED
  BY <1>1, <1>2 DEF OversightInv

LEMMA OversightRests == OversightInv /\ UNCHANGED Monitors!vars => OversightInv'
  BY DEF Monitors!vars, OversightInv, SessionSound, Session

LEMMA OversightSays == OversightInv => Monitors!OversightStands
  BY DEF OversightInv, SessionSound, Monitors!OversightStands, Monitors!At

(* Unless a session was saved over one that was not read, it is what was   *)
(* saved of it step by step: it stays closed, and no event is recorded by  *)
(* a handler that came after it was closed.                                *)
THEOREM OversightAlwaysStands ==
    Monitors!OversightSpec => []Monitors!OversightStands
<1>1. Monitors!OversightInit => OversightInv
  BY OversightStart
<1> QED
  BY <1>1, OversightRests, OversightSays, OversightStep, PTL DEF Monitors!OversightSpec
-----------------------------------------------------------------------------
(* What a handler carries in its write to the memory: the store as it read *)
(* it, and whether there was an entry; what it will save is the store as   *)
(* it read it, with one entry or anomaly more, or none.                    *)
Grows(read, new) ==
    /\ new.entry_count \in {read.entry_count, read.entry_count + 1}
    /\ \/ new.anomaly_count = read.anomaly_count /\ new.status = read.status
       \/ new.anomaly_count = read.anomaly_count + 1 /\ new.status # "CLEAN"

(* Stores that follow each other.                                          *)
Before(s, t) ==
    /\ s.entry_count <= t.entry_count /\ s.anomaly_count <= t.anomaly_count
    /\ s.entry_count = t.entry_count /\ s.anomaly_count = t.anomaly_count => s = t

MemoryCall ==
    {Monitors!Idle}
    \cup [at : {"entry"}, key : Items, level : Levels, low : BOOLEAN, read : Monitors!Store]
    \cup [at : {"write"}, key : Items, read : Monitors!Store, override : BOOLEAN,
          level : Levels \cup {"SUSPICIOUS"}]
    \cup [at : {"save"}, read : Monitors!Store, new : Monitors!Store, wrote : Items]

Present == {key \in Items : items[key] # Absent}
Anomalous == {key \in Present : items[key] # "CLEAN"}
Saving(w) == monitorCall[w].at = "save"
Writing == {key \in Items : \E w \in Handlers : Saving(w) /\ monitorCall[w].wrote = key}
Fresh == {key \in Items : \E w \in Handlers : /\ Saving(w) /\ monitorCall[w].wrote = key
                                           /\ monitorCall[w].new.entry_count # monitorCall[w].read.entry_count}
Bad == {key \in Items : \E w \in Handlers : /\ Saving(w) /\ monitorCall[w].wrote = key
                                         /\ monitorCall[w].new.anomaly_count # monitorCall[w].read.anomaly_count}

(* Nobody died, and nobody that is about to save has been overtaken.       *)
Undisturbed == told = {} /\ \A w \in Handlers : Saving(w) => monitorCall[w].read = sessionRow

MemoryTypes ==
    /\ sessionRow \in Monitors!Store \cup {Absent} /\ items \in [Items -> Levels \cup {"SUSPICIOUS", Absent}]
    /\ monitorCall \in [Handlers -> MemoryCall] /\ told \subseteq Items /\ lostSessions \in BOOLEAN

MemoryInv ==
    /\ MemoryTypes
    /\ \A w \in Handlers :
          /\ monitorCall[w] # Monitors!Idle => sessionRow # Absent
          /\ monitorCall[w].at = "write" /\ monitorCall[w].override => monitorCall[w].key \in Present
          /\ Saving(w) => monitorCall[w].wrote \in Present /\ Grows(monitorCall[w].read, monitorCall[w].new)
          /\ monitorCall[w] # Monitors!Idle /\ ~lostSessions => Before(monitorCall[w].read, sessionRow)
    /\ told \subseteq Present
    /\ ~lostSessions /\ Present = {} => sessionRow \in {Absent, Monitors!Registered}
    /\ ~lostSessions => \A key \in Anomalous \ told : key \in Bad \/ sessionRow.status # "CLEAN"
    /\ ~lostSessions /\ Undisturbed /\ sessionRow # Absent =>
          /\ sessionRow.entry_count = Cardinality(Present \ Fresh)
          /\ sessionRow.anomaly_count >= Cardinality(Anomalous \ Bad)
          /\ \A w \in Handlers :
                monitorCall[w].at = "write" /\ ~monitorCall[w].override /\ monitorCall[w].read = sessionRow =>
                    monitorCall[w].key \notin Present \ Fresh

LEMMA MemoryCalls ==
    ASSUME MemoryTypes, NEW w \in Handlers
    PROVE  /\ monitorCall[w] \in MemoryCall
           /\ monitorCall[w].at = "entry" =>
                 /\ monitorCall[w].key \in Items /\ monitorCall[w].level \in Levels /\ monitorCall[w].low \in BOOLEAN
                 /\ monitorCall[w].read \in Monitors!Store /\ monitorCall[w] # Monitors!Idle
           /\ monitorCall[w].at = "write" =>
                 /\ monitorCall[w].key \in Items /\ monitorCall[w].level \in Levels \cup {"SUSPICIOUS"}
                 /\ monitorCall[w].override \in BOOLEAN /\ monitorCall[w].read \in Monitors!Store /\ monitorCall[w] # Monitors!Idle
           /\ Saving(w) => /\ monitorCall[w].wrote \in Items /\ monitorCall[w].new \in Monitors!Store
                           /\ monitorCall[w].read \in Monitors!Store /\ monitorCall[w] # Monitors!Idle
           /\ monitorCall[w] # Monitors!Idle => monitorCall[w].read \in Monitors!Store
<1>1. monitorCall[w] \in MemoryCall
  BY DEF MemoryTypes
<1> QED
  BY <1>1 DEF MemoryCall, Saving, Monitors!Idle

LEMMA RecordedGrows ==
    ASSUME NEW read \in Monitors!Store, NEW level \in Levels \cup {"SUSPICIOUS"}, NEW override \in BOOLEAN
    PROVE  LET new == Monitors!Recorded(read, level, override)
           IN /\ new \in Monitors!Store /\ Grows(read, new)
              /\ new.entry_count # read.entry_count <=> ~override
              /\ new.anomaly_count # read.anomaly_count <=> level # "CLEAN"
BY DEF Monitors!Recorded, Monitors!Store, Grows

LEMMA StoresAreOrdered ==
    /\ \A s \in Monitors!Store : Before(s, s)
    /\ \A s, t, u \in Monitors!Store : Before(s, t) /\ Grows(t, u) => Before(s, u)
    /\ \A s, t \in Monitors!Store : Before(t, s) /\ Grows(s, t) => s = t
<1>1. \A s, t \in Monitors!Store : s.entry_count = t.entry_count /\ s.anomaly_count = t.anomaly_count
                            /\ s.status = t.status => s = t
  BY DEF Monitors!Store
<1>2. \A s \in Monitors!Store : s.entry_count \in Nat /\ s.anomaly_count \in Nat
  BY DEF Monitors!Store
<1>3. \A s \in Monitors!Store : Before(s, s)
  BY <1>2 DEF Before
<1>4. ASSUME NEW s \in Monitors!Store, NEW t \in Monitors!Store, NEW u \in Monitors!Store, Before(s, t), Grows(t, u)
      PROVE  Before(s, u)
  <2>1. s.entry_count <= u.entry_count /\ s.anomaly_count <= u.anomaly_count
    BY <1>2, <1>4 DEF Before, Grows
  <2>2. ASSUME s.entry_count = u.entry_count, s.anomaly_count = u.anomaly_count PROVE s = u
    <3>1. s.entry_count = t.entry_count /\ s.anomaly_count = t.anomaly_count
      BY <1>2, <1>4, <2>2 DEF Before, Grows
    <3>2. s = t /\ u.status = t.status
      BY <1>2, <1>4, <2>2, <3>1 DEF Before, Grows
    <3> QED
      BY <1>1, <2>2, <3>2
  <2> QED
    BY <2>1, <2>2 DEF Before
<1>5. ASSUME NEW s \in Monitors!Store, NEW t \in Monitors!Store, Before(t, s), Grows(s, t) PROVE s = t
  BY <1>2, <1>5 DEF Before, Grows
<1> QED
  BY <1>3, <1>4, <1>5

(* A step of a handler that is not about to save anything before or after  *)
(* it, and that leaves the rows alone.                                     *)
LEMMA MemoryReads ==
    ASSUME MemoryInv, NEW w \in Handlers, NEW next \in MemoryCall, Monitors!Go(w, next),
           ~Saving(w), next.at # "save", UNCHANGED <<sessionRow, items, told, lostSessions>>,
           next # Monitors!Idle => sessionRow # Absent /\ (~lostSessions => Before(next.read, sessionRow)),
           next.at = "write" => (next.override <=> next.key \in Present)
    PROVE  MemoryInv'
<1>1. /\ monitorCall' \in [Handlers -> MemoryCall] /\ monitorCall'[w] = next
      /\ \A u \in Handlers \ {w} : monitorCall'[u] = monitorCall[u]
  BY DEF Monitors!Go, MemoryInv, MemoryTypes
<1>2. \A u \in Handlers : Saving(u)' <=> Saving(u)
  BY <1>1 DEF Saving
<1>3. \A u \in Handlers : Saving(u) => monitorCall'[u] = monitorCall[u]
  BY <1>1
<1>4. Present' = Present /\ Anomalous' = Anomalous
  BY DEF Present, Anomalous
<1>5. Fresh' = Fresh
  BY <1>2, <1>3 DEF Fresh
<1>6. Bad' = Bad
  BY <1>2, <1>3 DEF Bad
<1>7. Undisturbed' <=> Undisturbed
  BY <1>2, <1>3 DEF Undisturbed
<1>8. \A u \in Handlers :
          /\ monitorCall'[u] # Monitors!Idle => sessionRow # Absent
          /\ monitorCall'[u].at = "write" /\ monitorCall'[u].override => monitorCall'[u].key \in Present
          /\ Saving(u)' => monitorCall'[u].wrote \in Present /\ Grows(monitorCall'[u].read, monitorCall'[u].new)
          /\ monitorCall'[u] # Monitors!Idle /\ ~lostSessions => Before(monitorCall'[u].read, sessionRow)
          /\ monitorCall'[u].at = "write" /\ ~monitorCall'[u].override /\ monitorCall'[u].read = sessionRow
             /\ ~lostSessions /\ Undisturbed /\ sessionRow # Absent => monitorCall'[u].key \notin Present \ Fresh
  <2> TAKE u \in Handlers
  <2>1. CASE u = w
    BY <1>1, <2>1 DEF Saving
  <2>2. CASE u # w
    BY <1>1, <2>2 DEF MemoryInv, Saving
  <2> QED
    BY <2>1, <2>2
<1>9. MemoryTypes'
  BY <1>1 DEF MemoryInv, MemoryTypes
<1> QED
  BY <1>4, <1>5, <1>6, <1>7, <1>8, <1>9 DEF MemoryInv, Grows, Before

(* The entry that is written is counted, or was; it is flagged, or clean.  *)
LEMMA EntriesAreSaved ==
    ASSUME Monitors!MonitorsAssumption, MemoryInv, NEW w \in Handlers, Monitors!SaveEntry(w)
    PROVE  MemoryInv'
<1> DEFINE c == monitorCall[w]
           new == Monitors!Recorded(c.read, c.level, c.override)
           next == [at |-> "save", read |-> c.read, new |-> new, wrote |-> c.key]
<1>1. /\ c.at = "write" /\ items' = [items EXCEPT ![c.key] = c.level] /\ Monitors!Go(w, next)
      /\ UNCHANGED <<sessionRow, told, lostSessions>>
  BY DEF Monitors!SaveEntry, Monitors!At, Monitors!WillSave
<1>2. /\ c.key \in Items /\ c.level \in Levels \cup {"SUSPICIOUS"} /\ c.override \in BOOLEAN
      /\ c.read \in Monitors!Store /\ c # Monitors!Idle
  BY <1>1, MemoryCalls DEF MemoryInv
<1>3. /\ new \in Monitors!Store /\ Grows(c.read, new)
      /\ new.entry_count # c.read.entry_count <=> ~c.override
      /\ new.anomaly_count # c.read.anomaly_count <=> c.level # "CLEAN"
  BY <1>2, RecordedGrows
<1>4. next \in MemoryCall
  BY <1>2, <1>3 DEF MemoryCall
<1>5. /\ monitorCall' \in [Handlers -> MemoryCall] /\ monitorCall'[w] = next
      /\ \A u \in Handlers \ {w} : monitorCall'[u] = monitorCall[u]
  BY <1>1, <1>4 DEF Monitors!Go, MemoryInv, MemoryTypes
<1>6. /\ c.level # Absent /\ \A key \in Items : items'[key] = IF key = c.key THEN c.level ELSE items[key]
      /\ items' \in [Items -> Levels \cup {"SUSPICIOUS", Absent}]
  BY <1>1, <1>2 DEF MemoryInv, MemoryTypes, Monitors!MonitorsAssumption
<1>7. Saving(w)' /\ ~Saving(w) /\ \A u \in Handlers \ {w} : Saving(u)' <=> Saving(u)
  BY <1>1, <1>5 DEF Saving
<1>8. Present' = Present \cup {c.key}
  BY <1>2, <1>6 DEF Present
<1>9. /\ c.level # "CLEAN" => Anomalous' = Anomalous \cup {c.key}
      /\ c.level = "CLEAN" => Anomalous' = Anomalous \ {c.key}
  BY <1>2, <1>6 DEF Present, Anomalous
<1>10. Fresh' = Fresh \cup {key \in {c.key} : ~c.override}
  <2>1. ASSUME NEW key \in Items
        PROVE  key \in Fresh' <=> key \in Fresh \/ (key = c.key /\ ~c.override)
    BY <1>3, <1>5, <1>7 DEF Fresh
  <2> QED
    BY <1>2, <2>1 DEF Fresh
<1>11. Bad' = Bad \cup {key \in {c.key} : c.level # "CLEAN"}
  <2>1. ASSUME NEW key \in Items
        PROVE  key \in Bad' <=> key \in Bad \/ (key = c.key /\ c.level # "CLEAN")
    BY <1>3, <1>5, <1>7 DEF Bad
  <2> QED
    BY <1>2, <2>1 DEF Bad
<1>12. Undisturbed' => Undisturbed /\ c.read = sessionRow
  BY <1>1, <1>5, <1>7 DEF Undisturbed
<1>13. MemoryTypes'
  BY <1>1, <1>5, <1>6 DEF MemoryInv, MemoryTypes
<1>14. \A u \in Handlers :
          /\ monitorCall'[u] # Monitors!Idle => sessionRow' # Absent
          /\ monitorCall'[u].at = "write" /\ monitorCall'[u].override => monitorCall'[u].key \in Present'
          /\ Saving(u)' => monitorCall'[u].wrote \in Present' /\ Grows(monitorCall'[u].read, monitorCall'[u].new)
          /\ monitorCall'[u] # Monitors!Idle /\ ~lostSessions' => Before(monitorCall'[u].read, sessionRow')
  <2> TAKE u \in Handlers
  <2>1. CASE u = w
    BY <1>1, <1>2, <1>3, <1>5, <1>8, <2>1 DEF MemoryInv
  <2>2. CASE u # w
    BY <1>1, <1>5, <1>7, <1>8, <2>2 DEF MemoryInv, Saving
  <2> QED
    BY <2>1, <2>2
<1>15. told' \subseteq Present' /\ Present' # {}
  BY <1>1, <1>8 DEF MemoryInv
<1>16. ASSUME ~lostSessions', NEW key \in Anomalous' \ told' PROVE key \in Bad' \/ sessionRow'.status # "CLEAN"
  <2>1. CASE key = c.key
    BY <1>9, <1>11, <1>16, <2>1
  <2>2. CASE key # c.key
    <3>1. key \in Anomalous \ told
      BY <1>1, <1>9, <1>16, <2>2
    <3> QED
      BY <1>1, <1>11, <1>16, <3>1 DEF MemoryInv
  <2> QED
    BY <2>1, <2>2
<1>17. ASSUME ~lostSessions', Undisturbed', sessionRow' # Absent
       PROVE  /\ sessionRow'.entry_count = Cardinality(Present' \ Fresh')
              /\ sessionRow'.anomaly_count >= Cardinality(Anomalous' \ Bad')
              /\ \A u \in Handlers :
                    monitorCall'[u].at = "write" /\ ~monitorCall'[u].override /\ monitorCall'[u].read = sessionRow' =>
                        monitorCall'[u].key \notin Present' \ Fresh'
  <2>1. /\ ~lostSessions /\ Undisturbed /\ sessionRow # Absent /\ c.read = sessionRow
        /\ sessionRow.entry_count = Cardinality(Present \ Fresh)
        /\ sessionRow.anomaly_count >= Cardinality(Anomalous \ Bad)
        /\ \A u \in Handlers :
              monitorCall[u].at = "write" /\ ~monitorCall[u].override /\ monitorCall[u].read = sessionRow =>
                  monitorCall[u].key \notin Present \ Fresh
    BY <1>1, <1>12, <1>17 DEF MemoryInv
  <2>2. Present' \ Fresh' = Present \ Fresh
    <3>1. CASE c.override
      <4>1. c.key \in Present
        BY <1>1, <3>1 DEF MemoryInv
      <4> QED
        BY <1>8, <1>10, <3>1, <4>1
    <3>2. CASE ~c.override
      <4>1. c.key \notin Present \ Fresh
        BY <1>1, <2>1, <3>2
      <4> QED
        BY <1>8, <1>10, <3>2, <4>1
    <3> QED
      BY <3>1, <3>2
  <2>3. Anomalous' \ Bad' \subseteq Anomalous \ Bad
    BY <1>9, <1>11
  <2>4. Cardinality(Anomalous' \ Bad') <= Cardinality(Anomalous \ Bad)
        /\ Cardinality(Anomalous' \ Bad') \in Nat /\ Cardinality(Anomalous \ Bad) \in Nat
    <3>1. IsFiniteSet(Anomalous \ Bad)
      <4>1. Anomalous \ Bad \subseteq Items
        BY DEF Anomalous, Present
      <4>2. IsFiniteSet(Items)
        BY DEF Monitors!MonitorsAssumption, Monitors!IsFiniteSet, IsFiniteSet
      <4> QED
        BY <4>1, <4>2, FS_Subset
    <3> QED
      BY <2>3, <3>1, FS_Subset, FS_CardinalityType
  <2>5. sessionRow.anomaly_count \in Nat
    BY <1>2, <2>1 DEF Monitors!Store
  <2>6. sessionRow'.anomaly_count >= Cardinality(Anomalous' \ Bad')
    BY <1>1, <2>1, <2>4, <2>5
  <2>7. ASSUME NEW u \in Handlers, monitorCall'[u].at = "write", ~monitorCall'[u].override, monitorCall'[u].read = sessionRow'
        PROVE  monitorCall'[u].key \notin Present' \ Fresh'
    <3>1. u # w
      BY <1>5, <2>7
    <3> QED
      BY <1>1, <1>5, <2>1, <2>2, <2>7, <3>1
  <2> QED
    BY <1>1, <2>1, <2>2, <2>6, <2>7
<1> QED
  BY <1>13, <1>14, <1>15, <1>16, <1>17 DEF MemoryInv

LEMMA RemovedOne ==
    ASSUME NEW S, IsFiniteSet(S), NEW x
    PROVE  /\ Cardinality(S) \in Nat /\ Cardinality(S \ {x}) \in Nat
           /\ x \in S => Cardinality(S \ {x}) = Cardinality(S) - 1
           /\ Cardinality(S \ {x}) >= Cardinality(S) - 1
<1>1. Cardinality(S) \in Nat
  BY FS_CardinalityType
<1>2. CASE x \in S
  <2>1. Cardinality(S \ {x}) = Cardinality(S) - 1
    BY <1>2, FS_RemoveElement
  <2>2. IsFiniteSet(S \ {x})
    BY FS_Subset, S \ {x} \subseteq S
  <2>3. Cardinality(S \ {x}) \in Nat
    BY <2>2, FS_CardinalityType
  <2> QED
    BY <1>1, <1>2, <2>1, <2>3
<1>3. CASE x \notin S
  <2>1. S \ {x} = S
    BY <1>3
  <2> QED
    BY <1>1, <1>3, <2>1
<1> QED
  BY <1>2, <1>3

(* A store that is saved unlost either changes nothing, or leaves nobody   *)
(* undisturbed who is about to save, and counts its own entry.             *)
LEMMA StoresAreSaved ==
    ASSUME Monitors!MonitorsAssumption, MemoryInv, NEW w \in Handlers, Monitors!SaveStore(w)
    PROVE  MemoryInv'
<1> DEFINE c == monitorCall[w]
<1>1. /\ Saving(w) /\ sessionRow' = c.new /\ lostSessions' = (lostSessions \/ sessionRow # c.read) /\ Monitors!Go(w, Monitors!Idle)
      /\ UNCHANGED <<items, told>>
  BY DEF Monitors!SaveStore, Monitors!SaveSummary, Monitors!At, Saving
<1>2. /\ c.wrote \in Items /\ c.new \in Monitors!Store /\ c.read \in Monitors!Store /\ c # Monitors!Idle
      /\ c.wrote \in Present /\ Grows(c.read, c.new) /\ c.new # Absent
  BY <1>1, MemoryCalls DEF MemoryInv, Monitors!MonitorsAssumption
<1>3. /\ monitorCall' \in [Handlers -> MemoryCall] /\ monitorCall'[w] = Monitors!Idle
      /\ \A u \in Handlers \ {w} : monitorCall'[u] = monitorCall[u]
  BY <1>1 DEF Monitors!Go, MemoryInv, MemoryTypes, MemoryCall
<1>4. ~Saving(w)' /\ \A u \in Handlers \ {w} : Saving(u)' <=> Saving(u)
  BY <1>3 DEF Saving, Monitors!Idle
<1>5. Present' = Present /\ Anomalous' = Anomalous
  BY <1>1 DEF Present, Anomalous
<1>6. Fresh \subseteq Fresh' \cup {key \in {c.wrote} : c.new.entry_count # c.read.entry_count}
  BY <1>3, <1>4 DEF Fresh
<1>7. Fresh' \subseteq Fresh
  BY <1>3, <1>4 DEF Fresh
<1>8. Bad \subseteq Bad' \cup {key \in {c.wrote} : c.new.anomaly_count # c.read.anomaly_count}
  BY <1>3, <1>4 DEF Bad
<1>9. Bad' \subseteq Bad
  BY <1>3, <1>4 DEF Bad
<1>10. MemoryTypes' /\ (lostSessions' \in BOOLEAN) /\ (~lostSessions' => ~lostSessions /\ sessionRow = c.read)
  BY <1>1, <1>2, <1>3 DEF MemoryInv, MemoryTypes
<1>11. ASSUME ~lostSessions', NEW u \in Handlers, monitorCall'[u] # Monitors!Idle PROVE Before(monitorCall'[u].read, sessionRow')
  <2>1. u # w /\ monitorCall'[u] = monitorCall[u] /\ ~lostSessions /\ sessionRow = c.read
    BY <1>3, <1>10, <1>11
  <2>2. Before(monitorCall[u].read, sessionRow) /\ monitorCall[u].read \in Monitors!Store
    BY <1>11, <2>1, MemoryCalls DEF MemoryInv
  <2> QED
    BY <1>1, <1>2, <2>1, <2>2, StoresAreOrdered
<1>12. \A u \in Handlers :
          /\ monitorCall'[u] # Monitors!Idle => sessionRow' # Absent
          /\ monitorCall'[u].at = "write" /\ monitorCall'[u].override => monitorCall'[u].key \in Present'
          /\ Saving(u)' => monitorCall'[u].wrote \in Present' /\ Grows(monitorCall'[u].read, monitorCall'[u].new)
          /\ monitorCall'[u] # Monitors!Idle /\ ~lostSessions' => Before(monitorCall'[u].read, sessionRow')
  <2> TAKE u \in Handlers
  <2>1. CASE u = w
    BY <1>3, <1>4, <2>1 DEF Monitors!Idle
  <2>2. CASE u # w
    BY <1>1, <1>2, <1>3, <1>4, <1>5, <1>11, <2>2 DEF MemoryInv
  <2> QED
    BY <2>1, <2>2
<1>13. told' \subseteq Present' /\ Present' # {}
  BY <1>1, <1>2, <1>5 DEF MemoryInv
<1>14. ASSUME ~lostSessions', NEW key \in Anomalous' \ told' PROVE key \in Bad' \/ sessionRow'.status # "CLEAN"
  <2>1. ~lostSessions /\ sessionRow = c.read /\ (key \in Bad \/ sessionRow.status # "CLEAN")
    BY <1>1, <1>5, <1>10, <1>14 DEF MemoryInv
  <2>2. sessionRow.status # "CLEAN" => sessionRow'.status # "CLEAN"
    BY <1>1, <1>2, <2>1 DEF Grows
  <2>3. c.new.anomaly_count # c.read.anomaly_count => sessionRow'.status # "CLEAN"
    BY <1>1, <1>2 DEF Grows
  <2> QED
    BY <1>8, <2>1, <2>2, <2>3
<1>15. ASSUME ~lostSessions', Undisturbed', sessionRow' # Absent
       PROVE  /\ sessionRow'.entry_count = Cardinality(Present' \ Fresh')
              /\ sessionRow'.anomaly_count >= Cardinality(Anomalous' \ Bad')
              /\ \A u \in Handlers :
                    monitorCall'[u].at = "write" /\ ~monitorCall'[u].override /\ monitorCall'[u].read = sessionRow' =>
                        monitorCall'[u].key \notin Present' \ Fresh'
  <2>1. ~lostSessions /\ sessionRow = c.read /\ sessionRow # Absent /\ told = {}
    BY <1>1, <1>2, <1>10, <1>15 DEF MemoryInv, Undisturbed
  <2>2. CASE c.new = c.read
    <3>1. sessionRow' = sessionRow /\ Fresh' = Fresh /\ Bad' = Bad
      BY <1>1, <1>6, <1>7, <1>8, <1>9, <2>1, <2>2
    <3>2. Undisturbed
      BY <1>3, <1>4, <1>15, <2>1, <3>1 DEF Undisturbed
    <3>3. /\ sessionRow.entry_count = Cardinality(Present \ Fresh)
          /\ sessionRow.anomaly_count >= Cardinality(Anomalous \ Bad)
          /\ \A u \in Handlers :
                monitorCall[u].at = "write" /\ ~monitorCall[u].override /\ monitorCall[u].read = sessionRow =>
                    monitorCall[u].key \notin Present \ Fresh
      BY <2>1, <3>2 DEF MemoryInv
    <3>4. ASSUME NEW u \in Handlers, monitorCall'[u].at = "write", ~monitorCall'[u].override, monitorCall'[u].read = sessionRow'
          PROVE  monitorCall'[u].key \notin Present' \ Fresh'
      <4>1. u # w
        BY <1>3, <3>4 DEF Monitors!Idle
      <4> QED
        BY <1>3, <1>5, <3>1, <3>3, <3>4, <4>1
    <3> QED
      BY <1>5, <3>1, <3>3, <3>4
  <2>3. CASE c.new # c.read
    <3>1. ASSUME NEW u \in Handlers, u # w, monitorCall[u] # Monitors!Idle PROVE monitorCall[u].read # c.new
      <4>1. Before(monitorCall[u].read, c.read)
        BY <2>1, <3>1 DEF MemoryInv
      <4> QED
        BY <1>2, <2>3, <4>1, StoresAreOrdered
    <3>2. \A u \in Handlers : ~Saving(u)'
      <4> SUFFICES ASSUME NEW u \in Handlers, Saving(u)' PROVE FALSE
        OBVIOUS
      <4>1. u # w /\ Saving(u) /\ monitorCall[u].read = c.new
        BY <1>1, <1>3, <1>4, <1>15 DEF Undisturbed
      <4>2. monitorCall[u] # Monitors!Idle
        BY <4>1, MemoryCalls DEF MemoryInv
      <4> QED
        BY <3>1, <4>1, <4>2
    <3>3. Fresh' = {} /\ Bad' = {}
      BY <3>2 DEF Fresh, Bad
    <3>4. Undisturbed
      BY <1>4, <2>1, <3>2 DEF Undisturbed
    <3>5. /\ sessionRow.entry_count = Cardinality(Present \ Fresh)
          /\ sessionRow.anomaly_count >= Cardinality(Anomalous \ Bad)
      BY <2>1, <3>4 DEF MemoryInv
    <3>6. IsFiniteSet(Present) /\ IsFiniteSet(Anomalous)
      <4>1. Present \subseteq Items /\ Anomalous \subseteq Items
        BY DEF Anomalous, Present
      <4>2. IsFiniteSet(Items)
        BY DEF Monitors!MonitorsAssumption, Monitors!IsFiniteSet, IsFiniteSet
      <4> QED
        BY <4>1, <4>2, FS_Subset
    <3>7. c.new.entry_count = Cardinality(Present)
      <4>1. CASE c.new.entry_count = c.read.entry_count
        <5>1. Present \ Fresh = Present
          BY <1>6, <3>3, <4>1
        <5> QED
          BY <2>1, <3>5, <4>1, <5>1
      <4>2. CASE c.new.entry_count # c.read.entry_count
        <5>1. Fresh = {c.wrote}
          BY <1>1, <1>2, <1>6, <3>3, <4>2 DEF Fresh
        <5>2. Cardinality(Present \ {c.wrote}) = Cardinality(Present) - 1
          BY <1>2, <3>6, RemovedOne
        <5>3. c.new.entry_count = c.read.entry_count + 1 /\ Cardinality(Present) \in Nat
          BY <1>2, <3>6, <4>2, FS_CardinalityType DEF Grows
        <5> QED
          BY <2>1, <3>5, <5>1, <5>2, <5>3
      <4> QED
        BY <4>1, <4>2
    <3>8. c.new.anomaly_count >= Cardinality(Anomalous)
      <4>1. c.read.anomaly_count \in Nat /\ Cardinality(Anomalous) \in Nat
        BY <1>2, <3>6, FS_CardinalityType DEF Monitors!Store
      <4>2. CASE c.new.anomaly_count = c.read.anomaly_count
        <5>1. Anomalous \ Bad = Anomalous
          BY <1>8, <3>3, <4>2
        <5> QED
          BY <2>1, <3>5, <4>2, <5>1
      <4>3. CASE c.new.anomaly_count # c.read.anomaly_count
        <5>1. Bad = {c.wrote}
          BY <1>1, <1>2, <1>8, <3>3, <4>3 DEF Bad
        <5>2. /\ Cardinality(Anomalous \ {c.wrote}) >= Cardinality(Anomalous) - 1
              /\ Cardinality(Anomalous \ {c.wrote}) \in Nat
          BY <3>6, RemovedOne
        <5>3. c.new.anomaly_count = c.read.anomaly_count + 1
          BY <1>2, <4>3 DEF Grows
        <5>4. c.read.anomaly_count >= Cardinality(Anomalous \ {c.wrote})
          BY <2>1, <3>5, <5>1
        <5> QED
          BY <4>1, <5>2, <5>3, <5>4
      <4> QED
        BY <4>2, <4>3
    <3>9. ASSUME NEW u \in Handlers, monitorCall'[u].at = "write", monitorCall'[u].read = sessionRow' PROVE FALSE
      <4>1. u # w
        BY <1>3, <3>9 DEF Monitors!Idle
      <4>2. monitorCall[u] # Monitors!Idle /\ monitorCall[u].read = c.new
        BY <1>1, <1>3, <3>9, <4>1 DEF Monitors!Idle
      <4> QED
        BY <3>1, <4>1, <4>2
    <3>10. Present' \ Fresh' = Present /\ Anomalous' \ Bad' = Anomalous
      BY <1>5, <3>3
    <3> QED
      BY <1>1, <3>7, <3>8, <3>9, <3>10
  <2> QED
    BY <2>2, <2>3
<1> QED
  BY <1>10, <1>12, <1>13, <1>14, <1>15 DEF MemoryInv

LEMMA SameCardinality == \A S : Monitors!Cardinality(S) = Cardinality(S)
BY DEF Monitors!Cardinality, Cardinality

LEMMA MemoryStep ==
    ASSUME Monitors!MonitorsAssumption, MemoryInv, Monitors!MemoryNext
    PROVE  MemoryInv'
<1>1. PICK w \in Handlers :
        \/ Monitors!RegisterStore(w)
        \/ \E key \in Items, level \in Levels, low \in BOOLEAN : Monitors!WriteMemory(w, key, level, low)
        \/ Monitors!ReadEntry(w) \/ Monitors!SaveEntry(w) \/ Monitors!SaveStore(w) \/ Monitors!DieWriting(w)
  BY DEF Monitors!MemoryNext
<1> DEFINE c == monitorCall[w]
<1>2. CASE Monitors!RegisterStore(w)
  <2>1. /\ sessionRow' = Monitors!Registered /\ UNCHANGED <<items, monitorCall, told>>
        /\ lostSessions' = (lostSessions \/ \E key \in Items : items[key] # Absent)
    BY <1>2 DEF Monitors!RegisterStore
  <2>2. /\ Present' = Present /\ Anomalous' = Anomalous /\ Fresh' = Fresh /\ Bad' = Bad
        /\ \A u \in Handlers : Saving(u)' <=> Saving(u)
    BY <2>1 DEF Present, Anomalous, Fresh, Bad, Saving
  <2>3. Monitors!Registered \in Monitors!Store /\ Monitors!Registered # Absent
    BY DEF Monitors!Registered, Monitors!Store, Monitors!MonitorsAssumption
  <2>4. MemoryTypes'
    BY <2>1, <2>3 DEF MemoryInv, MemoryTypes
  <2>5. ~lostSessions' => ~lostSessions /\ Present = {} /\ Anomalous = {} /\ sessionRow \in {Absent, Monitors!Registered}
    BY <2>1 DEF Present, Anomalous, MemoryInv
  <2>6. ASSUME ~lostSessions', sessionRow = Absent PROVE \A u \in Handlers : monitorCall[u] = Monitors!Idle
    BY <2>6 DEF MemoryInv
  <2>7. ASSUME ~lostSessions', NEW u \in Handlers, monitorCall'[u] # Monitors!Idle PROVE Before(monitorCall'[u].read, sessionRow')
    BY <2>1, <2>5, <2>6, <2>7 DEF MemoryInv
  <2>8. Monitors!Registered.entry_count = 0 /\ Monitors!Registered.anomaly_count = 0
    BY DEF Monitors!Registered
  <2>9. ASSUME ~lostSessions'
        PROVE  /\ Cardinality(Present' \ Fresh') = 0 /\ Cardinality(Anomalous' \ Bad') = 0
               /\ Present' \ Fresh' = {} /\ Anomalous' = {}
    <3>1. Present' \ Fresh' = {} /\ Anomalous' \ Bad' = {} /\ Anomalous' = {}
      BY <2>2, <2>5, <2>9
    <3> QED
      BY <3>1, FS_EmptySet
  <2>10. \A u \in Handlers :
          /\ monitorCall'[u] # Monitors!Idle => sessionRow' # Absent
          /\ monitorCall'[u].at = "write" /\ monitorCall'[u].override => monitorCall'[u].key \in Present'
          /\ Saving(u)' => monitorCall'[u].wrote \in Present' /\ Grows(monitorCall'[u].read, monitorCall'[u].new)
          /\ monitorCall'[u] # Monitors!Idle /\ ~lostSessions' => Before(monitorCall'[u].read, sessionRow')
    BY <2>1, <2>2, <2>3, <2>7 DEF MemoryInv
  <2>11. told' \subseteq Present'
    BY <2>1, <2>2 DEF MemoryInv
  <2> QED
    BY <2>1, <2>4, <2>8, <2>9, <2>10, <2>11 DEF MemoryInv
<1>3. ASSUME NEW key \in Items, NEW level \in Levels, NEW low \in BOOLEAN, Monitors!WriteMemory(w, key, level, low)
      PROVE  MemoryInv'
  <2> DEFINE next == [at |-> "entry", key |-> key, level |-> level, low |-> low, read |-> sessionRow]
  <2>1. /\ c = Monitors!Idle /\ sessionRow # Absent /\ Monitors!Go(w, next) /\ UNCHANGED <<sessionRow, items, told, lostSessions>>
    BY <1>3 DEF Monitors!WriteMemory
  <2>2. ~Saving(w)
    BY <2>1 DEF Saving, Monitors!Idle
  <2>3. sessionRow \in Monitors!Store /\ Before(sessionRow, sessionRow)
    BY <2>1, StoresAreOrdered DEF MemoryInv, MemoryTypes
  <2>4. next \in MemoryCall
    BY <2>3 DEF MemoryCall
  <2>5. next.at = "entry" /\ next.read = sessionRow
    OBVIOUS
  <2> HIDE DEF next
  <2> QED
    BY <2>1, <2>2, <2>3, <2>4, <2>5, MemoryReads
<1>4. CASE Monitors!ReadEntry(w)
  <2> DEFINE override == items[c.key] # Absent
             level == IF c.level = "CLEAN" /\ c.low /\ override THEN "SUSPICIOUS" ELSE c.level
             next == [at |-> "write", key |-> c.key, read |-> c.read, override |-> override,
                      level |-> level]
  <2>1. c.at = "entry" /\ Monitors!Go(w, next) /\ UNCHANGED <<sessionRow, items, told, lostSessions>>
    BY <1>4 DEF Monitors!ReadEntry, Monitors!At
  <2>2. /\ c.key \in Items /\ c.level \in Levels /\ c.read \in Monitors!Store /\ c # Monitors!Idle /\ ~Saving(w)
    BY <2>1, MemoryCalls DEF MemoryInv, Saving
  <2>3. override \in BOOLEAN /\ level \in Levels \cup {"SUSPICIOUS"}
    BY <2>2
  <2>4. next \in MemoryCall
    <3> HIDE DEF override, level
    <3> QED
      BY <2>2, <2>3 DEF MemoryCall
  <2>5. sessionRow # Absent /\ (~lostSessions => Before(c.read, sessionRow))
    BY <2>2 DEF MemoryInv
  <2>6. next.at = "write" /\ next.read = c.read /\ next.key = c.key /\ (next.override <=> override)
    OBVIOUS
  <2>7. override <=> c.key \in Present
    BY <2>2 DEF Present
  <2> HIDE DEF next, override
  <2> QED
    BY <2>1, <2>2, <2>4, <2>5, <2>6, <2>7, MemoryReads
<1>5. CASE Monitors!DieWriting(w)
  <2>1. /\ c # Monitors!Idle /\ Monitors!Go(w, Monitors!Idle) /\ UNCHANGED <<sessionRow, items, lostSessions>>
        /\ told' = told \cup {key \in Items : Monitors!At(w, "save") /\ monitorCall[w].wrote = key}
    BY <1>5 DEF Monitors!DieWriting, Monitors!Die
  <2>2. CASE ~Saving(w)
    <3>1. UNCHANGED told
      BY <2>1, <2>2 DEF Saving, Monitors!At
    <3>2. Monitors!Idle \in MemoryCall /\ Monitors!Idle.at = "idle"
      BY DEF MemoryCall, Monitors!Idle
    <3> QED
      BY <2>1, <2>2, <3>1, <3>2, MemoryReads
  <2>3. CASE Saving(w)
    <3>1. /\ told' = told \cup {c.wrote} /\ c.wrote \in Items /\ c.wrote \in Present
      BY <2>1, <2>3, MemoryCalls DEF Saving, Monitors!At, MemoryInv
    <3>2. /\ monitorCall' \in [Handlers -> MemoryCall] /\ monitorCall'[w] = Monitors!Idle
          /\ \A u \in Handlers \ {w} : monitorCall'[u] = monitorCall[u]
      BY <2>1 DEF Monitors!Go, MemoryInv, MemoryTypes, MemoryCall
    <3>3. ~Saving(w)' /\ \A u \in Handlers \ {w} : Saving(u)' <=> Saving(u)
      BY <3>2 DEF Saving, Monitors!Idle
    <3>4. Present' = Present /\ Anomalous' = Anomalous
      BY <2>1 DEF Present, Anomalous
    <3>5. Bad \subseteq Bad' \cup {c.wrote}
      BY <3>2, <3>3 DEF Bad
    <3>6. ~Undisturbed'
      BY <3>1 DEF Undisturbed
    <3>7. MemoryTypes'
      BY <2>1, <3>1, <3>2 DEF MemoryInv, MemoryTypes
    <3>8. \A u \in Handlers :
          /\ monitorCall'[u] # Monitors!Idle => sessionRow' # Absent
          /\ monitorCall'[u].at = "write" /\ monitorCall'[u].override => monitorCall'[u].key \in Present'
          /\ Saving(u)' => monitorCall'[u].wrote \in Present' /\ Grows(monitorCall'[u].read, monitorCall'[u].new)
          /\ monitorCall'[u] # Monitors!Idle /\ ~lostSessions' => Before(monitorCall'[u].read, sessionRow')
      <4> TAKE u \in Handlers
      <4>1. CASE u = w
        BY <3>2, <3>3, <4>1 DEF Monitors!Idle
      <4>2. CASE u # w
        BY <2>1, <3>2, <3>3, <3>4, <4>2 DEF MemoryInv
      <4> QED
        BY <4>1, <4>2
    <3>9. told' \subseteq Present' /\ Present' # {}
      BY <3>1, <3>4 DEF MemoryInv
    <3>10. ~lostSessions' => \A key \in Anomalous' \ told' : key \in Bad' \/ sessionRow'.status # "CLEAN"
      BY <2>1, <3>1, <3>4, <3>5 DEF MemoryInv
    <3> QED
      BY <3>6, <3>7, <3>8, <3>9, <3>10 DEF MemoryInv
  <2> QED
    BY <2>2, <2>3
<1> QED
  BY <1>1, <1>2, <1>3, <1>4, <1>5, EntriesAreSaved, StoresAreSaved

LEMMA MemoryStart ==
    ASSUME Monitors!MemoryInit
    PROVE  MemoryInv
<1>1. /\ sessionRow = Absent /\ items = [i \in Items |-> Absent] /\ monitorCall = [w \in Handlers |-> Monitors!Idle]
      /\ told = {} /\ lostSessions = FALSE
  BY DEF Monitors!MemoryInit, Monitors!Start
<1>2. MemoryTypes
  BY <1>1 DEF MemoryTypes, MemoryCall
<1>3. Present = {} /\ Anomalous = {}
  BY <1>1 DEF Present, Anomalous
<1>4. \A w \in Handlers : monitorCall[w] = Monitors!Idle /\ ~Saving(w) /\ monitorCall[w].at = "idle"
  BY <1>1 DEF Saving, Monitors!Idle
<1> QED
  BY <1>1, <1>2, <1>3, <1>4 DEF MemoryInv

LEMMA MemoryRests ==
    ASSUME MemoryInv, UNCHANGED Monitors!vars
    PROVE  MemoryInv'
<1>1. UNCHANGED <<sessionRow, items, monitorCall, told, lostSessions>>
  BY DEF Monitors!vars
<1>2. /\ Present' = Present /\ Anomalous' = Anomalous /\ Fresh' = Fresh /\ Bad' = Bad
      /\ Undisturbed' <=> Undisturbed
      /\ \A w \in Handlers : Saving(w)' <=> Saving(w)
  BY <1>1 DEF Present, Anomalous, Fresh, Bad, Undisturbed, Saving
<1>3. MemoryTypes'
  BY <1>1 DEF MemoryInv, MemoryTypes
<1>4. \A w \in Handlers :
        /\ monitorCall'[w] # Monitors!Idle => sessionRow' # Absent
        /\ monitorCall'[w].at = "write" /\ monitorCall'[w].override => monitorCall'[w].key \in Present'
        /\ Saving(w)' => monitorCall'[w].wrote \in Present' /\ Grows(monitorCall'[w].read, monitorCall'[w].new)
        /\ monitorCall'[w] # Monitors!Idle /\ ~lostSessions' => Before(monitorCall'[w].read, sessionRow')
  BY <1>1, <1>2 DEF MemoryInv
<1>5. ~lostSessions' /\ Undisturbed' /\ sessionRow' # Absent =>
        /\ sessionRow'.entry_count = Cardinality(Present' \ Fresh')
        /\ sessionRow'.anomaly_count >= Cardinality(Anomalous' \ Bad')
        /\ \A w \in Handlers :
              monitorCall'[w].at = "write" /\ ~monitorCall'[w].override /\ monitorCall'[w].read = sessionRow' =>
                  monitorCall'[w].key \notin Present' \ Fresh'
  BY <1>1, <1>2 DEF MemoryInv
<1> QED
  BY <1>1, <1>2, <1>3, <1>4, <1>5 DEF MemoryInv

LEMMA MemorySays ==
    ASSUME MemoryInv
    PROVE  Monitors!MemoryStands
<1> SUFFICES ASSUME ~lostSessions, sessionRow # Absent
             PROVE  /\ Anomalous \ (told \cup Writing) # {} => sessionRow.status # "CLEAN"
                    /\ told \cup Writing = {} =>
                          /\ sessionRow.entry_count = Cardinality(Present)
                          /\ sessionRow.anomaly_count >= Cardinality(Anomalous)
  BY SameCardinality DEF Monitors!MemoryStands, Anomalous, Present, Writing, Saving, Monitors!At
<1>1. Bad \subseteq Writing /\ Fresh \subseteq Writing
  BY DEF Bad, Fresh, Writing
<1>2. ASSUME Anomalous \ (told \cup Writing) # {} PROVE sessionRow.status # "CLEAN"
  BY <1>1, <1>2 DEF MemoryInv
<1>3. ASSUME told \cup Writing = {}
      PROVE  sessionRow.entry_count = Cardinality(Present) /\ sessionRow.anomaly_count >= Cardinality(Anomalous)
  <2>1. \A w \in Handlers : ~Saving(w)
    BY <1>3, MemoryCalls DEF Writing, MemoryInv
  <2>2. Undisturbed
    BY <1>3, <2>1 DEF Undisturbed
  <2>3. Present \ Fresh = Present /\ Anomalous \ Bad = Anomalous
    BY <1>1, <1>3
  <2> QED
    BY <2>2, <2>3 DEF MemoryInv
<1> QED
  BY <1>2, <1>3

(* Unless a store was saved over one that was not read, or registered      *)
(* again over its entries, an anomalous entry shows in its status once its *)
(* writer is done, and with no writer at work or dead the counts are those *)
(* of the entries.                                                         *)
THEOREM MemoryAlwaysStands ==
    ASSUME Monitors!MonitorsAssumption
    PROVE  Monitors!MemorySpec => []Monitors!MemoryStands
<1>1. Monitors!MemoryInit => MemoryInv
  BY MemoryStart
<1>2. MemoryInv /\ UNCHANGED Monitors!vars => MemoryInv'
  BY MemoryRests
<1>3. MemoryInv => Monitors!MemoryStands
  BY MemorySays
<1> QED
  BY <1>1, <1>2, <1>3, MemoryStep, PTL DEF Monitors!MemorySpec
-----------------------------------------------------------------------------
(* InferenceTelemetry: the window of a session.                            *)

(* One run of sequence numbers, with no id twice.                          *)
IsRun(list) ==
    /\ list \in Seq(Telemetry!Event)
    /\ \A i, j \in 1..Len(list) :
          /\ list[i].sequence - list[j].sequence = i - j
          /\ list[i].id = list[j].id => i = j

(* What a handler is about to save goes on from what it read, all of which *)
(* was accepted, and has the event of its check once the loop has met it.  *)
LoopSound(c, known) ==
    c.at \in {"ingest", "guard"} =>
        /\ IsRun(c.read) /\ IsRun(c.list)
        /\ Len(c.read) <= Len(c.list) /\ \A i \in 1..Len(c.read) : c.list[i] = c.read[i]
        /\ \A i \in 1..Len(c.read) : c.read[i] \in known
        /\ c.at = "guard" =>
              \/ c.batch = <<c.check>>
              \/ /\ c.batch = <<>>
                 /\ c.check.type = "guardrail_block" => c.check.id \in Telemetry!IdsOf(c.list)

TelemetryInv ==
    /\ Telemetry!TypeOK
    /\ IsRun(events) /\ Len(events) <= Window /\ summary = Telemetry!Summarise(events)
    /\ \A i \in 1..Len(events) : events[i] \in accepted
    /\ \A w \in Handlers : LoopSound(telemetryJob[w], accepted)
    /\ Telemetry!BlocksRecorded

LEMMA RunOfEvents ==
    ASSUME NEW list, IsRun(list)
    PROVE  /\ list \in Seq(Telemetry!Event) /\ Len(list) \in Nat /\ DOMAIN list = 1..Len(list)
           /\ \A i \in 1..Len(list) : list[i] \in Telemetry!Event /\ list[i].sequence \in Nat
<1>1. list \in Seq(Telemetry!Event)
  BY DEF IsRun
<1>2. \A i \in 1..Len(list) : list[i] \in Telemetry!Event
  BY <1>1
<1>3. \A e \in Telemetry!Event : e.sequence \in Nat
  BY DEF Telemetry!Event
<1> QED
  BY <1>1, <1>2, <1>3

(* The next sequence number of a run is one above its last.                *)
LEMMA NextInRun ==
    ASSUME NEW list, IsRun(list)
    PROVE  /\ Telemetry!NextSequence(list) \in Nat
           /\ list # <<>> => Telemetry!NextSequence(list) = list[Len(list)].sequence + 1
<1> DEFINE n == Len(list)
           sequences == {list[i].sequence : i \in DOMAIN list}
           last == list[n].sequence
<1>1. /\ list \in Seq(Telemetry!Event) /\ n \in Nat /\ DOMAIN list = 1..n
      /\ \A i \in 1..n : list[i].sequence \in Nat
  BY RunOfEvents
<1>2. CASE list = <<>>
  BY <1>2 DEF Telemetry!NextSequence
<1>3. CASE list # <<>>
  <2>1. n \in 1..n
    BY <1>1, <1>3
  <2>2. last \in sequences /\ last \in Nat
    BY <1>1, <2>1
  <2>3. \A y \in sequences : y \in Nat /\ last >= y
    <3> SUFFICES ASSUME NEW i \in 1..n PROVE list[i].sequence \in Nat /\ last >= list[i].sequence
      BY <1>1
    <3>1. last - list[i].sequence = n - i
      BY <2>1 DEF IsRun
    <3> QED
      BY <1>1, <2>2, <3>1
  <2>4. Telemetry!Max(sequences) \in sequences /\ \A y \in sequences : Telemetry!Max(sequences) >= y
    BY <2>2, <2>3 DEF Telemetry!Max
  <2> DEFINE most == Telemetry!Max(sequences)
  <2>5. most = last
    <3>1. most \in Nat /\ last >= most
      BY <2>3, <2>4
    <3>2. most >= last
      BY <2>2, <2>4
    <3> HIDE DEF most, last
    <3> QED
      BY <2>2, <3>1, <3>2
  <2> HIDE DEF sequences, last
  <2>6. Telemetry!NextSequence(list) = 1 + Telemetry!Max(sequences)
    BY <1>3 DEF Telemetry!NextSequence, sequences
  <2> QED
    BY <2>2, <2>5, <2>6 DEF last
<1> QED
  BY <1>2, <1>3

(* One turn of the loop keeps a run a run, goes on from it, and then has   *)
(* an event of the id that it met, if its type is one that telemetry takes.*)
LEMMA AddKeepsRun ==
    ASSUME NEW list, IsRun(list), NEW raw \in Telemetry!Raw
    PROVE  LET new == Telemetry!Add(list, raw) IN
           /\ IsRun(new)
           /\ Len(list) <= Len(new) /\ \A i \in 1..Len(list) : new[i] = list[i]
           /\ raw.type = "guardrail_block" => raw.id \in Telemetry!IdsOf(new)
<1> DEFINE new == Telemetry!Add(list, raw)
           n == Len(list)
           event == [id |-> raw.id, type |-> raw.type, sequence |-> Telemetry!NextSequence(list)]
<1>1. /\ list \in Seq(Telemetry!Event) /\ n \in Nat /\ DOMAIN list = 1..n
      /\ \A i \in 1..n : list[i] \in Telemetry!Event /\ list[i].sequence \in Nat
  BY RunOfEvents
<1>2. CASE new = list
  <2>1. raw.type = "guardrail_block" => raw.id \in Telemetry!IdsOf(list) \/ Telemetry!Taken(list, raw) = list
    BY <1>2 DEF Telemetry!Add, Telemetry!ValidEventTypes
  <2>2. Telemetry!Taken(list, raw) # list
    <3>1. Len(Telemetry!Taken(list, raw)) = n + 1
      BY <1>1 DEF Telemetry!Taken
    <3> QED
      BY <1>1, <3>1
  <2> QED
    BY <1>1, <1>2, <2>1, <2>2
<1>3. CASE new # list
  <2>1. new = Append(list, event) /\ raw.id \notin Telemetry!IdsOf(list)
    BY <1>3 DEF Telemetry!Add, Telemetry!Taken
  <2>2. event \in Telemetry!Event /\ event.id = raw.id /\ event.sequence = Telemetry!NextSequence(list)
    BY NextInRun DEF Telemetry!Event, Telemetry!Raw
  <2> HIDE DEF new, event
  <2>3. /\ new \in Seq(Telemetry!Event) /\ Len(new) = n + 1 /\ new[n + 1] = event
        /\ \A i \in 1..n : new[i] = list[i]
    BY <1>1, <2>1, <2>2
  <2>4. \A i \in 1..n : event.sequence - list[i].sequence = n + 1 - i /\ list[i].id # event.id
    <3> SUFFICES ASSUME NEW i \in 1..n
                 PROVE  event.sequence - list[i].sequence = n + 1 - i /\ list[i].id # event.id
      OBVIOUS
    <3>1. list # <<>> /\ n \in 1..n
      BY <1>1
    <3>2. event.sequence = list[n].sequence + 1
      BY <2>2, <3>1, NextInRun
    <3>3. list[n].sequence - list[i].sequence = n - i
      BY <3>1 DEF IsRun
    <3>4. list[i].id # event.id
      BY <1>1, <2>1, <2>2 DEF Telemetry!IdsOf
    <3>5. n \in Nat /\ i \in Nat /\ list[i].sequence \in Nat /\ list[n].sequence \in Nat
      BY <1>1, <3>1
    <3> DEFINE first == list[i].sequence
               last == list[n].sequence
    <3> HIDE DEF first, last, n
    <3>6. event.sequence = last + 1 /\ last - first = n - i /\ first \in Nat /\ last \in Nat /\ n \in Nat /\ i \in Nat
      BY <3>2, <3>3, <3>5 DEF first, last
    <3>7. event.sequence - first = n + 1 - i
      BY <3>6
    <3> QED
      BY <3>4, <3>7 DEF first
  <2>5. event.sequence \in Nat
    BY <2>2, NextInRun
  <2>6. ASSUME NEW i \in 1..n + 1, NEW j \in 1..n + 1
        PROVE  /\ new[i].sequence - new[j].sequence = i - j
               /\ new[i].id = new[j].id => i = j
    <3>1. CASE i \in 1..n /\ j \in 1..n
      BY <2>3, <3>1 DEF IsRun
    <3>2. CASE i = n + 1 /\ j \in 1..n
      BY <2>3, <2>4, <3>2
    <3>3. CASE i \in 1..n /\ j = n + 1
      <4>1. event.sequence - list[i].sequence = n + 1 - i /\ list[i].id # event.id
        BY <2>4, <3>3
      <4> QED
        BY <1>1, <2>3, <2>5, <3>3, <4>1
    <3>4. CASE i = n + 1 /\ j = n + 1
      BY <2>3, <2>5, <3>4
    <3>5. (i \in 1..n \/ i = n + 1) /\ (j \in 1..n \/ j = n + 1)
      BY <1>1
    <3> QED
      BY <3>1, <3>2, <3>3, <3>4, <3>5, Zenon
  <2>7. IsRun(new)
    BY <2>3, <2>6 DEF IsRun
  <2>8. raw.id \in Telemetry!IdsOf(new)
    <3>1. n + 1 \in DOMAIN new /\ new[n + 1].id = raw.id
      BY <1>1, <2>2, <2>3
    <3> QED
      BY <3>1 DEF Telemetry!IdsOf
  <2> QED
    BY <1>1, <2>3, <2>7, <2>8 DEF new
<1> QED
  BY <1>2, <1>3

(* What the window keeps of a run is a run; what it does not keep has as   *)
(* many later ones as the window is long.                                  *)
LEMMA TailKeepsRun ==
    ASSUME NEW list, IsRun(list), Window \in Nat \ {0}
    PROVE  LET kept == Telemetry!KeepTail(list) IN
           /\ IsRun(kept) /\ Len(kept) <= Window
           /\ \A i \in 1..Len(kept) : \E j \in 1..Len(list) : kept[i] = list[j]
           /\ \A i \in 1..Len(list) : \/ \E j \in 1..Len(kept) : kept[j] = list[i]
                                      \/ Telemetry!FallsOff(list[i], kept)
<1> DEFINE kept == Telemetry!KeepTail(list)
           n == Len(list)
           cut == n - Window
<1>1. /\ list \in Seq(Telemetry!Event) /\ n \in Nat
      /\ \A i \in 1..n : list[i] \in Telemetry!Event /\ list[i].sequence \in Nat
  BY RunOfEvents
<1>2. CASE n <= Window
  <2>1. kept = list
    BY <1>1, <1>2 DEF Telemetry!KeepTail
  <2> QED
    BY <1>2, <2>1
<1>3. CASE n > Window
  <2>1. kept = SubSeq(list, cut + 1, n)
    BY <1>3 DEF Telemetry!KeepTail
  <2>2. cut \in Nat /\ cut + 1 \in 1..n /\ n - cut = Window
    BY <1>1, <1>3
  <2> HIDE DEF kept
  <2>3. /\ kept \in Seq(Telemetry!Event) /\ Len(kept) = Window /\ DOMAIN kept = 1..Window
        /\ \A i \in 1..Window : kept[i] = list[cut + i] /\ cut + i \in 1..n
    BY <1>1, <2>1, <2>2
  <2>4. ASSUME NEW i \in 1..Window, NEW j \in 1..Window
        PROVE  /\ kept[i].sequence - kept[j].sequence = i - j
               /\ kept[i].id = kept[j].id => i = j
    <3>1. /\ list[cut + i].sequence - list[cut + j].sequence = (cut + i) - (cut + j)
          /\ list[cut + i].id = list[cut + j].id => cut + i = cut + j
      BY <2>3 DEF IsRun
    <3> QED
      BY <2>2, <2>3, <3>1
  <2>5. ASSUME NEW i \in 1..n
        PROVE  \/ \E j \in 1..Window : kept[j] = list[i]
               \/ Telemetry!FallsOff(list[i], kept)
    <3>1. CASE i > cut
      <4>1. i - cut \in 1..Window /\ cut + (i - cut) = i
        BY <2>2, <3>1
      <4> QED
        BY <2>3, <4>1
    <3>2. CASE i <= cut
      <4>1. Window \in 1..Window /\ kept[Window] = list[n] /\ n \in 1..n
        BY <1>1, <2>2, <2>3
      <4>2. list[n].sequence - list[i].sequence = n - i
        BY <4>1 DEF IsRun
      <4>3. list[n].sequence >= list[i].sequence + Window
        BY <1>1, <2>2, <3>2, <4>1, <4>2
      <4> QED
        BY <2>3, <4>1, <4>3 DEF Telemetry!FallsOff
    <3> QED
      BY <2>2, <3>1, <3>2
  <2>6. IsRun(kept)
    BY <2>3, <2>4 DEF IsRun
  <2>7. \A i \in 1..Len(kept) : \E j \in 1..n : kept[i] = list[j]
    BY <2>3
  <2>8. Len(kept) <= Window
    BY <2>2, <2>3
  <2>9. \A i \in 1..n : \/ \E j \in 1..Len(kept) : kept[j] = list[i]
                        \/ Telemetry!FallsOff(list[i], kept)
    BY <2>3, <2>5
  <2> QED
    BY <2>6, <2>7, <2>8, <2>9 DEF kept
<1> QED
  BY <1>1, <1>2, <1>3

LEMMA LoopStays ==
    ASSUME NEW known, NEW more, known \subseteq more, NEW c, LoopSound(c, known)
    PROVE  LoopSound(c, more)
BY DEF LoopSound

LEMMA EmptyRun ==
    IsRun(<<>>) /\ Len(<<>>) = 0 /\ Telemetry!Summarise(<<>>) \in [count : Nat, blocks : Nat]
<1>1. IsRun(<<>>) /\ Len(<<>>) = 0
  BY DEF IsRun
<1>2. {i \in DOMAIN <<>> : <<>>[i].type = "guardrail_block"} = {}
  OBVIOUS
<1>3. Telemetry!Cardinality({}) = 0
  BY FS_EmptySet DEF Telemetry!Cardinality, Cardinality
<1> QED
  BY <1>1, <1>2, <1>3 DEF Telemetry!Summarise

(* What a handler saves of a run that goes on from what it read, and what  *)
(* the other steps leave, is as it was.                                    *)
LEMMA TelemetryStep ==
    ASSUME Telemetry!TelemetryAssumption, TelemetryInv, Telemetry!Next
    PROVE  TelemetryInv'
<1> USE DEF Telemetry!TelemetryAssumption
<1>1. PICK w \in Handlers :
        \/ \E batch \in Batches : Telemetry!IngestRead(w, batch)
        \/ \E id \in Guarded, verdict \in DOMAIN Telemetry!VerdictTypes : Telemetry!GuardRead(w, id, verdict)
        \/ Telemetry!IngestEvent(w) \/ Telemetry!IngestSave(w)
        \/ Telemetry!GuardFail(w) \/ Telemetry!Delete(w) \/ Telemetry!Crash(w)
  BY DEF Telemetry!Next
<1> DEFINE c == telemetryJob[w]
<1>2. /\ c \in Telemetry!Job /\ LoopSound(c, accepted) /\ DOMAIN telemetryJob = Handlers
      /\ events \in Seq(Telemetry!Event) /\ accepted \subseteq Telemetry!Event
      /\ c.at = "guard" => c.check \in Telemetry!Raw
      /\ c.at \in {"ingest", "guard"} => c.batch \in Seq(Telemetry!Raw)
  BY DEF TelemetryInv, Telemetry!TypeOK, Telemetry!Job, Telemetry!Idle
<1>3. (\A known : LoopSound(Telemetry!Idle, known)) /\ Telemetry!Idle \in Telemetry!Job
  BY DEF LoopSound, Telemetry!Idle, Telemetry!Job
(* A step of one handler that saves nothing.                               *)
<1>4. ASSUME UNCHANGED <<events, summary, accepted>>, NEW d \in Telemetry!Job, LoopSound(d, accepted),
             telemetryJob' = [telemetryJob EXCEPT ![w] = d],
             verdicts' \subseteq [id : Ids, type : Telemetry!EventTypes, posted : BOOLEAN],
             \A v \in verdicts' \ verdicts : ~v.posted
      PROVE  TelemetryInv'
  <2>1. Telemetry!TypeOK'
    BY <1>4 DEF TelemetryInv, Telemetry!TypeOK
  <2>2. \A u \in Handlers : LoopSound(telemetryJob'[u], accepted')
    <3> SUFFICES ASSUME NEW u \in Handlers PROVE LoopSound(telemetryJob'[u], accepted')
      OBVIOUS
    <3>1. telemetryJob'[u] = IF u = w THEN d ELSE telemetryJob[u]
      BY <1>2, <1>4
    <3> QED
      BY <1>4, <3>1 DEF TelemetryInv
  <2>3. Telemetry!BlocksRecorded'
    BY <1>4 DEF TelemetryInv, Telemetry!BlocksRecorded
  <2>4. IsRun(events)' /\ (Len(events) <= Window)' /\ (summary = Telemetry!Summarise(events))'
    BY <1>4 DEF TelemetryInv, IsRun, Telemetry!Summarise
  <2>5. \A i \in 1..Len(events') : events'[i] \in accepted'
    BY <1>4 DEF TelemetryInv
  <2> QED
    BY <2>1, <2>2, <2>3, <2>4, <2>5 DEF TelemetryInv
<1>5. ASSUME NEW d \in Telemetry!Job, d.at \in {"ingest", "guard"}, d.read = events, d.list = events,
             d.at = "guard" => d.batch = <<d.check>>,
             telemetryJob' = [telemetryJob EXCEPT ![w] = d],
             UNCHANGED <<events, summary, accepted, verdicts>>
      PROVE  TelemetryInv'
  <2>1. LoopSound(d, accepted)
    BY <1>5, RunOfEvents DEF LoopSound, TelemetryInv
  <2>2. verdicts' \subseteq [id : Ids, type : Telemetry!EventTypes, posted : BOOLEAN]
    BY <1>5 DEF TelemetryInv, Telemetry!TypeOK
  <2> QED
    BY <1>4, <1>5, <2>1, <2>2
<1>6. ASSUME NEW batch \in Batches, Telemetry!IngestRead(w, batch)
      PROVE  TelemetryInv'
  <2> DEFINE d == [at |-> "ingest", batch |-> batch, read |-> events, list |-> events]
  <2>1. d \in Telemetry!Job
    BY <1>2 DEF Telemetry!Job
  <2> QED
    BY <1>5, <1>6, <2>1 DEF Telemetry!IngestRead
<1>7. ASSUME NEW id \in Guarded, NEW verdict \in DOMAIN Telemetry!VerdictTypes,
             Telemetry!GuardRead(w, id, verdict)
      PROVE  TelemetryInv'
  <2> DEFINE raw == [id |-> id, type |-> Telemetry!VerdictTypes[verdict]]
             d == [at |-> "guard", check |-> raw, batch |-> <<raw>>, read |-> events, list |-> events]
  <2>1. raw \in Telemetry!Raw
    BY DEF Telemetry!Raw, Telemetry!VerdictTypes, Telemetry!EventTypes
  <2>2. d \in Telemetry!Job
    BY <1>2, <2>1 DEF Telemetry!Job
  <2> QED
    BY <1>5, <1>7, <2>2 DEF Telemetry!GuardRead
<1>8. CASE Telemetry!IngestEvent(w)
  <2> DEFINE raw == Head(c.batch)
             d == [c EXCEPT !.batch = Tail(@), !.list = Telemetry!Add(@, raw)]
  <2>1. c.at \in {"ingest", "guard"} /\ c.batch # <<>> /\ telemetryJob' = [telemetryJob EXCEPT ![w] = d]
    BY <1>2, <1>8 DEF Telemetry!IngestEvent
  <2>2. raw \in Telemetry!Raw /\ Tail(c.batch) \in Seq(Telemetry!Raw)
    BY <1>2, <2>1
  <2>3. IsRun(c.list) /\ IsRun(c.read)
    BY <1>2, <2>1 DEF LoopSound
  <2> DEFINE new == Telemetry!Add(c.list, raw)
  <2>4. /\ IsRun(new) /\ Len(c.list) <= Len(new) /\ \A i \in 1..Len(c.list) : new[i] = c.list[i]
        /\ raw.type = "guardrail_block" => raw.id \in Telemetry!IdsOf(new)
    BY <2>2, <2>3, AddKeepsRun
  <2>5. d \in Telemetry!Job /\ d.at = c.at /\ d.read = c.read /\ d.list = new /\ d.batch = Tail(c.batch)
        /\ (c.at = "guard" => d.check = c.check)
    <3>1. new \in Seq(Telemetry!Event)
      BY <2>4, RunOfEvents
    <3> HIDE DEF new
    <3>2. CASE c \in [at : {"ingest"}, batch : Seq(Telemetry!Raw), read : Seq(Telemetry!Event),
                      list : Seq(Telemetry!Event)]
      <4>1. d = [c EXCEPT !.batch = Tail(@), !.list = new] /\ c.at = "ingest"
        BY <3>2 DEF new
      <4> HIDE DEF d
      <4> QED
        BY <2>2, <3>1, <3>2, <4>1 DEF Telemetry!Job
    <3>3. CASE c \in [at : {"guard"}, check : Telemetry!Raw, batch : Seq(Telemetry!Raw),
                      read : Seq(Telemetry!Event), list : Seq(Telemetry!Event)]
      <4>1. d = [c EXCEPT !.batch = Tail(@), !.list = new] /\ c.at = "guard"
        BY <3>3 DEF new
      <4> HIDE DEF d
      <4> QED
        BY <2>2, <3>1, <3>3, <4>1 DEF Telemetry!Job
    <3> QED
      BY <1>2, <2>1, <3>2, <3>3 DEF Telemetry!Job, Telemetry!Idle
  <2> HIDE DEF new, d
  <2>6. LoopSound(d, accepted)
    <3>1. /\ Len(c.read) <= Len(c.list) /\ \A i \in 1..Len(c.read) : c.list[i] = c.read[i]
          /\ \A i \in 1..Len(c.read) : c.read[i] \in accepted
      BY <1>2, <2>1 DEF LoopSound
    <3>2. Len(c.read) \in Nat /\ Len(c.list) \in Nat /\ Len(new) \in Nat
      BY <2>3, <2>4, RunOfEvents
    <3>3. Len(c.read) <= Len(new) /\ \A i \in 1..Len(c.read) : new[i] = c.read[i]
      BY <2>4, <3>1, <3>2
    <3>4. ASSUME c.at = "guard"
          PROVE  d.batch = <<>> /\ (c.check.type = "guardrail_block" => c.check.id \in Telemetry!IdsOf(new))
      <4>1. c.batch = <<c.check>>
        BY <1>2, <2>1, <3>4 DEF LoopSound
      <4> QED
        BY <2>4, <2>5, <4>1
    <3> QED
      BY <2>3, <2>4, <2>5, <3>1, <3>3, <3>4 DEF LoopSound
  <2>7. verdicts' \subseteq [id : Ids, type : Telemetry!EventTypes, posted : BOOLEAN]
    BY <1>8 DEF TelemetryInv, Telemetry!TypeOK, Telemetry!IngestEvent
  <2> QED
    BY <1>4, <1>8, <2>1, <2>5, <2>6, <2>7 DEF Telemetry!IngestEvent
<1>9. CASE Telemetry!IngestSave(w)
  <2> DEFINE all == c.list
             kept == Telemetry!KeepTail(all)
  <2>1. /\ c.at \in {"ingest", "guard"} /\ c.batch = <<>>
        /\ events' = kept /\ summary' = Telemetry!Summarise(kept)
        /\ accepted' = accepted \cup (Telemetry!Range(all) \ Telemetry!Range(c.read))
        /\ verdicts' = IF c.at = "guard" THEN verdicts \cup {Telemetry!Answered(w, TRUE)} ELSE verdicts
        /\ telemetryJob' = [telemetryJob EXCEPT ![w] = Telemetry!Idle]
    BY <1>9 DEF Telemetry!IngestSave
  <2>2. /\ IsRun(all) /\ IsRun(c.read) /\ \A i \in 1..Len(c.read) : c.read[i] \in accepted
        /\ c.at = "guard" /\ c.check.type = "guardrail_block" => c.check.id \in Telemetry!IdsOf(all)
    BY <1>2, <2>1 DEF LoopSound
  <2>3. /\ IsRun(kept) /\ Len(kept) <= Window
        /\ \A i \in 1..Len(kept) : \E j \in 1..Len(all) : kept[i] = all[j]
    BY <2>2, TailKeepsRun
  <2>4. /\ DOMAIN all = 1..Len(all) /\ DOMAIN c.read = 1..Len(c.read)
        /\ \A i \in 1..Len(all) : all[i] \in Telemetry!Event
    BY <2>2, RunOfEvents
  <2>5. \A i \in 1..Len(all) : all[i] \in accepted'
    BY <2>1, <2>2, <2>4 DEF Telemetry!Range
  <2>6. accepted \subseteq accepted' /\ accepted' \subseteq Telemetry!Event
    BY <1>2, <2>1, <2>4 DEF Telemetry!Range
  <2>7. verdicts' \subseteq [id : Ids, type : Telemetry!EventTypes, posted : BOOLEAN]
    <3>1. c.at = "guard" => Telemetry!Answered(w, TRUE) \in [id : Ids, type : Telemetry!EventTypes, posted : BOOLEAN]
      BY <1>2 DEF Telemetry!Answered, Telemetry!Raw
    <3> QED
      BY <2>1, <3>1 DEF TelemetryInv, Telemetry!TypeOK
  <2> HIDE DEF kept
  <2>8. kept \in Seq(Telemetry!Event) /\ Telemetry!Summarise(kept) \in [count : Nat, blocks : Nat]
    <3>1. kept \in Seq(Telemetry!Event) /\ Len(kept) \in Nat /\ DOMAIN kept = 1..Len(kept)
      BY <2>3, RunOfEvents
    <3>2. IsFiniteSet(1..Len(kept))
      BY <3>1, FS_Interval
    <3>3. Cardinality({i \in DOMAIN kept : kept[i].type = "guardrail_block"}) \in Nat
      BY <3>1, <3>2, FS_Subset, FS_CardinalityType
    <3>4. Telemetry!Cardinality({i \in DOMAIN kept : kept[i].type = "guardrail_block"}) \in Nat
      BY <3>3 DEF Telemetry!Cardinality, Cardinality
    <3> QED
      BY <3>1, <3>4 DEF Telemetry!Summarise
  <2>9. Telemetry!TypeOK'
    BY <1>2, <1>3, <2>1, <2>6, <2>7, <2>8 DEF TelemetryInv, Telemetry!TypeOK
  <2>10. \A u \in Handlers : LoopSound(telemetryJob'[u], accepted')
    <3> SUFFICES ASSUME NEW u \in Handlers PROVE LoopSound(telemetryJob'[u], accepted')
      OBVIOUS
    <3>1. telemetryJob'[u] = Telemetry!Idle \/ telemetryJob'[u] = telemetryJob[u]
      BY <1>2, <2>1
    <3>2. LoopSound(telemetryJob[u], accepted)
      BY DEF TelemetryInv
    <3> QED
      BY <1>3, <2>6, <3>1, <3>2, LoopStays
  <2>11. Telemetry!BlocksRecorded'
    <3> SUFFICES ASSUME NEW v \in verdicts', v.posted, v.type = "guardrail_block"
                 PROVE  \E e \in accepted' : e.id = v.id
      BY DEF Telemetry!BlocksRecorded
    <3>1. CASE v \in verdicts
      BY <2>6, <3>1 DEF TelemetryInv, Telemetry!BlocksRecorded
    <3>2. CASE v \notin verdicts
      <4>1. c.at = "guard" /\ v.id = c.check.id /\ v.type = c.check.type
        BY <2>1, <3>2 DEF Telemetry!Answered
      <4>2. PICK i \in 1..Len(all) : all[i].id = v.id
        BY <2>2, <2>4, <4>1 DEF Telemetry!IdsOf
      <4> QED
        BY <2>5, <4>2
    <3> QED
      BY <3>1, <3>2
  <2>12. IsRun(events)' /\ (Len(events) <= Window)' /\ (summary = Telemetry!Summarise(events))'
    BY <2>1, <2>3 DEF IsRun, Telemetry!Summarise
  <2>13. \A i \in 1..Len(events') : events'[i] \in accepted'
    BY <2>1, <2>3, <2>5
  <2> QED
    BY <2>9, <2>10, <2>11, <2>12, <2>13 DEF TelemetryInv
<1>10. CASE Telemetry!GuardFail(w)
  <2>1. Telemetry!Answered(w, FALSE) \in [id : Ids, type : Telemetry!EventTypes, posted : BOOLEAN]
        /\ ~Telemetry!Answered(w, FALSE).posted
    BY <1>2, <1>10 DEF Telemetry!Answered, Telemetry!Raw, Telemetry!GuardFail
  <2>2. verdicts' \subseteq [id : Ids, type : Telemetry!EventTypes, posted : BOOLEAN]
        /\ \A v \in verdicts' \ verdicts : ~v.posted
    BY <1>10, <2>1 DEF TelemetryInv, Telemetry!TypeOK, Telemetry!GuardFail
  <2> QED
    BY <1>3, <1>4, <1>10, <2>2 DEF Telemetry!GuardFail
<1>11. CASE Telemetry!Delete(w)
  <2>1. /\ events' = <<>> /\ summary' = Telemetry!Summarise(<<>>)
        /\ UNCHANGED <<telemetryJob, accepted, verdicts>>
    BY <1>11 DEF Telemetry!Delete
  <2>2. IsRun(<<>>) /\ Len(<<>>) = 0 /\ Telemetry!Summarise(<<>>) \in [count : Nat, blocks : Nat]
    BY EmptyRun
  <2>3. Telemetry!TypeOK'
    BY <2>1, <2>2 DEF TelemetryInv, Telemetry!TypeOK, IsRun
  <2>4. IsRun(events)' /\ (summary = Telemetry!Summarise(events))' /\ Len(events') = 0
    BY <2>1, <2>2 DEF IsRun, Telemetry!Summarise
  <2>5. (\A u \in Handlers : LoopSound(telemetryJob'[u], accepted')) /\ Telemetry!BlocksRecorded'
    BY <2>1 DEF TelemetryInv, LoopSound, Telemetry!BlocksRecorded
  <2>6. Len(events') <= Window
    BY <2>4
  <2>7. \A i \in 1..Len(events') : events'[i] \in accepted'
    BY <2>4
  <2> QED
    BY <2>3, <2>4, <2>5, <2>6, <2>7 DEF TelemetryInv
<1>12. CASE Telemetry!Crash(w)
  <2>1. verdicts' \subseteq [id : Ids, type : Telemetry!EventTypes, posted : BOOLEAN]
    BY <1>12 DEF TelemetryInv, Telemetry!TypeOK, Telemetry!Crash
  <2> QED
    BY <1>3, <1>4, <1>12, <2>1 DEF Telemetry!Crash
<1> QED
  BY <1>1, <1>6, <1>7, <1>8, <1>9, <1>10, <1>11, <1>12

LEMMA TelemetryStart ==
    ASSUME Telemetry!TelemetryAssumption, Telemetry!Init
    PROVE  TelemetryInv
<1>1. IsRun(<<>>) /\ Len(<<>>) = 0 /\ Telemetry!Summarise(<<>>) \in [count : Nat, blocks : Nat]
  BY EmptyRun
<1>2. Telemetry!TypeOK
  BY <1>1 DEF Telemetry!Init, Telemetry!TypeOK, Telemetry!Job
<1>3. \A w \in Handlers : LoopSound(telemetryJob[w], accepted)
  BY DEF Telemetry!Init, LoopSound, Telemetry!Idle
<1>4. Telemetry!BlocksRecorded
  BY DEF Telemetry!Init, Telemetry!BlocksRecorded
<1> QED
  BY <1>1, <1>2, <1>3, <1>4 DEF Telemetry!Init, TelemetryInv, Telemetry!TelemetryAssumption

LEMMA TelemetryRests == TelemetryInv /\ UNCHANGED Telemetry!vars => TelemetryInv'
<1> SUFFICES ASSUME TelemetryInv, UNCHANGED Telemetry!vars PROVE TelemetryInv'
  OBVIOUS
<1> USE DEF Telemetry!vars
<1>1. Telemetry!TypeOK'
  BY DEF TelemetryInv, Telemetry!TypeOK
<1>2. IsRun(events)' /\ (Len(events) <= Window)' /\ (summary = Telemetry!Summarise(events))'
  BY DEF TelemetryInv, IsRun, Telemetry!Summarise
<1>3. \A i \in 1..Len(events') : events'[i] \in accepted'
  BY DEF TelemetryInv
<1>4. \A w \in Handlers : LoopSound(telemetryJob'[w], accepted')
  BY DEF TelemetryInv
<1>5. Telemetry!BlocksRecorded'
  BY DEF TelemetryInv, Telemetry!BlocksRecorded
<1> QED
  BY <1>1, <1>2, <1>3, <1>4, <1>5 DEF TelemetryInv

LEMMA WindowSays == TelemetryInv => Telemetry!WindowIsARun /\ Telemetry!BlocksRecorded
<1> SUFFICES ASSUME TelemetryInv PROVE Telemetry!WindowIsARun
  BY DEF TelemetryInv
<1>1. IsRun(events) /\ Telemetry!TypeOK /\ Len(events) <= Window /\ summary = Telemetry!Summarise(events)
  BY DEF TelemetryInv
<1>2. DOMAIN events = 1..Len(events)
  BY <1>1, RunOfEvents
<1> QED
  BY <1>1, <1>2 DEF IsRun, Telemetry!WindowIsARun

(* Of a save that goes on from what is stored: what was stored or accepted *)
(* is in the window or was pushed out of it, and ids stand for one event.  *)
LEMMA LatestKept ==
    ASSUME Telemetry!TelemetryAssumption, TelemetryInv, Telemetry!Next,
           ~Telemetry!OutdatedSave, events' # <<>>
    PROVE  /\ \A e \in Telemetry!Range(events) \cup (accepted' \ accepted) :
                 e \in Telemetry!Range(events') \/ Telemetry!FallsOff(e, events')
           /\ \A e \in Telemetry!Range(events), f \in Telemetry!Range(events') : e.id = f.id => e = f
<1>1. IsRun(events) /\ DOMAIN events = 1..Len(events)
  BY RunOfEvents DEF TelemetryInv
<1>2. CASE events' = events /\ accepted' = accepted
  <2>1. \A i, j \in 1..Len(events) : events[i].id = events[j].id => i = j
    BY <1>1 DEF IsRun
  <2> QED
    BY <1>1, <1>2, <2>1 DEF Telemetry!Range
<1>3. ASSUME NEW w \in Handlers, Telemetry!IngestSave(w)
      PROVE  /\ \A e \in Telemetry!Range(events) \cup (accepted' \ accepted) :
                   e \in Telemetry!Range(events') \/ Telemetry!FallsOff(e, events')
             /\ \A e \in Telemetry!Range(events), f \in Telemetry!Range(events') : e.id = f.id => e = f
  <2> DEFINE c == telemetryJob[w]
             all == c.list
             kept == Telemetry!KeepTail(all)
  <2>1. /\ c.at \in {"ingest", "guard"} /\ LoopSound(c, accepted) /\ telemetryJob'[w] = Telemetry!Idle
        /\ events' = kept /\ accepted' = accepted \cup (Telemetry!Range(all) \ Telemetry!Range(c.read))
    BY <1>3 DEF Telemetry!IngestSave, TelemetryInv, Telemetry!TypeOK
  <2>2. c.read = events
    BY <2>1 DEF Telemetry!OutdatedSave
  <2>3. /\ IsRun(all) /\ Len(events) <= Len(all) /\ \A i \in 1..Len(events) : all[i] = events[i]
    BY <2>1, <2>2 DEF LoopSound
  <2>4. /\ IsRun(kept)
        /\ \A i \in 1..Len(kept) : \E j \in 1..Len(all) : kept[i] = all[j]
        /\ \A i \in 1..Len(all) : \/ \E j \in 1..Len(kept) : kept[j] = all[i]
                                  \/ Telemetry!FallsOff(all[i], kept)
    BY <2>3, TailKeepsRun DEF Telemetry!TelemetryAssumption
  <2>5. /\ DOMAIN all = 1..Len(all) /\ DOMAIN kept = 1..Len(kept)
        /\ Len(all) \in Nat /\ Len(events) \in Nat
    BY <1>1, <2>3, <2>4, RunOfEvents
  <2> HIDE DEF kept
  <2>6. \A e \in Telemetry!Range(events) : \E i \in 1..Len(all) : e = all[i]
    BY <1>1, <2>3, <2>5 DEF Telemetry!Range
  <2>7. \A e \in accepted' \ accepted : \E i \in 1..Len(all) : e = all[i]
    BY <2>1, <2>5 DEF Telemetry!Range
  <2>8. \A i \in 1..Len(all) : all[i] \in Telemetry!Range(kept) \/ Telemetry!FallsOff(all[i], kept)
    BY <2>4, <2>5 DEF Telemetry!Range
  <2>9. \A f \in Telemetry!Range(kept) : \E j \in 1..Len(all) : f = all[j]
    BY <2>4, <2>5 DEF Telemetry!Range
  <2>10. \A i, j \in 1..Len(all) : all[i].id = all[j].id => all[i] = all[j]
    BY <2>3 DEF IsRun
  <2> QED
    BY <2>1, <2>6, <2>7, <2>8, <2>9, <2>10
<1>4. ASSUME NEW w \in Handlers, Telemetry!Delete(w)
      PROVE  FALSE
  BY <1>4 DEF Telemetry!Delete
<1> QED
  BY <1>2, <1>3, <1>4 DEF Telemetry!Next, Telemetry!IngestRead, Telemetry!GuardRead, Telemetry!IngestEvent,
                          Telemetry!GuardFail, Telemetry!Crash

-----------------------------------------------------------------------------
(* All of them.  A registry that a behaviour is not about rests, but jobs  *)
(* and identities read one clock, so their invariants are of the           *)
(* behaviours about them; and each monitor begins in a way of its own.     *)
RowsInv ==
    /\ IInv /\ IntakeInv /\ TelemetryInv
    /\ rows = "schedules" => JobsInv
    /\ rows \in {"authority", "accounts"} => IdentitiesInv
    /\ rows = "usage" => UsageInv
    /\ rows = "oversight" => OversightInv
    /\ rows = "memory" => MemoryInv

LEMMA RowsStart == RowsInit => RowsInv
<1> SUFFICES ASSUME RowsInit PROVE RowsInv
  OBVIOUS
<1>1. Init /\ Jobs!Init /\ Models!Init /\ Trust!Init /\ Telemetry!Init
  BY DEF RowsInit
<1>2. /\ rows = "usage" => Monitors!UsageInit
      /\ rows = "oversight" => Monitors!OversightInit
      /\ rows = "memory" => Monitors!MemoryInit
  BY DEF RowsInit
<1> QED
  BY <1>1, <1>2, RowsAssumption, InitIInv, IntakeStart, JobsStart, IdentitiesStart,
     TelemetryStart, UsageStart, OversightStart, MemoryStart DEF RowsInv

(* A step is one of the registry that the behaviour is about, and the      *)
(* others rest.                                                            *)
LEMMA OneRegistry ==
    ASSUME [RowsNext]_rowVars
    PROVE  /\ rows' = rows
           /\ [Next]_vars /\ [Models!Next]_(Models!vars) /\ [Telemetry!Next]_(Telemetry!vars)
           /\ rows = "schedules" => [Jobs!Next]_(Jobs!vars)
           /\ rows \in {"authority", "accounts"} => [Trust!Next]_(Trust!vars)
           /\ rows = "usage" => [Monitors!UsageNext]_(Monitors!vars)
           /\ rows = "oversight" => [Monitors!OversightNext]_(Monitors!vars)
           /\ rows = "memory" => [Monitors!MemoryNext]_(Monitors!vars)
<1>1. CASE UNCHANGED rowVars
  BY <1>1 DEF rowVars, vars, scheduleVars, modelVars, identityVars, monitorVars, telemetryVars,
              Models!vars, Telemetry!vars, Jobs!vars, Trust!vars, Trust!registryVars, Monitors!vars
<1>2. CASE RowsNext
  <2>1. rows' = rows
    BY <1>2 DEF RowsNext
  <2>2. [Next]_vars
    BY <1>2 DEF RowsNext
  <2>3. [Models!Next]_(Models!vars)
    BY <1>2 DEF RowsNext, modelVars, Models!vars
  <2>4. [Telemetry!Next]_(Telemetry!vars)
    BY <1>2 DEF RowsNext, telemetryVars, Telemetry!vars
  <2>5. rows = "schedules" => Jobs!Next
    BY <1>2 DEF RowsNext
  <2>6. rows \in {"authority", "accounts"} => Trust!Next
    BY <1>2 DEF RowsNext, Trust!Next
  <2>7. /\ rows = "usage" => Monitors!UsageNext
        /\ rows = "oversight" => Monitors!OversightNext
        /\ rows = "memory" => Monitors!MemoryNext
    BY <1>2 DEF RowsNext
  <2> QED
    BY <2>1, <2>2, <2>3, <2>4, <2>5, <2>6, <2>7
<1> QED
  BY <1>1, <1>2

LEMMA RowsStep == RowsInv /\ [RowsNext]_rowVars => RowsInv'
<1> SUFFICES ASSUME RowsInv, [RowsNext]_rowVars PROVE RowsInv'
  OBVIOUS
<1>1. IInv'
  BY OneRegistry, NextKeeps DEF RowsInv
<1>2. IntakeInv'
  BY OneRegistry, IntakeStep, IntakeRests, RowsAssumption DEF RowsInv
<1>3. rows = "schedules" => JobsInv'
  BY OneRegistry, JobsStep, JobsRest, RowsAssumption DEF RowsInv
<1>4. rows \in {"authority", "accounts"} => IdentitiesInv'
  BY OneRegistry, IdentitiesStep, RowsAssumption DEF RowsInv
<1>5. rows = "usage" => UsageInv'
  BY OneRegistry, UsageStep, UsageRests, RowsAssumption DEF RowsInv
<1>6. rows = "oversight" => OversightInv'
  BY OneRegistry, OversightStep, OversightRests DEF RowsInv
<1>7. rows = "memory" => MemoryInv'
  BY OneRegistry, MemoryStep, MemoryRests, RowsAssumption DEF RowsInv
<1>8. TelemetryInv'
  BY OneRegistry, TelemetryStep, TelemetryRests, RowsAssumption DEF RowsInv
<1> QED
  BY <1>1, <1>2, <1>3, <1>4, <1>5, <1>6, <1>7, <1>8, OneRegistry DEF RowsInv

LEMMA RowsInvHolds == RowsSpec => []RowsInv
  BY RowsStart, RowsStep, PTL DEF RowsSpec

(* The stored record of an incident or a remediation tells a legal life    *)
(* (update_incident_state, update_remediation_status), in whatever order   *)
(* overlapping handlers save.                                              *)
THEOREM TrailsStayLegal == RowsSpec => []TrailIsLegal
<1>1. RowsInv => TrailIsLegal
  BY DEF RowsInv, IInv
<1> QED
  BY <1>1, RowsInvHolds, PTL

(* Of a case, a transition that was saved is lost only when a handler      *)
(* saves a copy that it read before, or creates the case anew.             *)
THEOREM OnlyOverlapUndoes == RowsSpec => LostOnlyToOverlap
<1>1. RowsInv /\ [RowsNext]_rowVars
      => [\A id \in Cases : table[id] # Absent =>
             \/ Continues(table'[id], table[id])
             \/ table'[id].history = <<First(id)>>
             \/ \E w \in outdated : table'[id] = job[w].record]_vars
  BY OneRegistry, LossIsOverlap DEF RowsInv
<1> QED
  BY RowsInvHolds, <1>1, PTL DEF RowsSpec, LostOnlyToOverlap

(* A schedule is a record that some handler of ops_scheduler.py computed,  *)
(* and its runs are counted and over, unless an outdated record was saved. *)
THEOREM SchedulesCohere == RowsSpec => []SchedulesCoherent
<1>1. RowsInv => SchedulesCoherent
  BY RecordsCohere, RunsRecord DEF RowsInv, SchedulesCoherent
<1> QED
  BY <1>1, RowsInvHolds, PTL

(* What the monitors say of a session (of its use, its oversight and its   *)
(* memory) is what was reported, unless a summary was saved over one that  *)
(* was not read.                                                           *)
THEOREM SummariesStay == RowsSpec => []SummariesStand
<1>1. RowsInv => SummariesStand
  BY OversightSays, MemorySays DEF RowsInv, SummariesStand, UsageInv
<1> QED
  BY <1>1, RowsInvHolds, PTL

(* The window of a session is one run of the events that were accepted,    *)
(* beside its own summary; a verdict that telemetry reported is among them;*)
(* an event leaves it only for later ones, for a deletion or for a save of *)
(* a list that was read before; and the monitors say what was reported.    *)
THEOREM SessionsStayCoherent == RowsSpec => SessionsCoherent
<1>1. RowsInv => (rows = "telemetry" => Telemetry!WindowIsARun /\ Telemetry!BlocksRecorded)
  BY WindowSays DEF RowsInv
<1>2. RowsInv /\ [RowsNext]_rowVars
      => [\/ Telemetry!OutdatedSave
          \/ events' = <<>>
          \/ /\ \A e \in Telemetry!Range(events) \cup (accepted' \ accepted) :
                    e \in Telemetry!Range(events') \/ Telemetry!FallsOff(e, events')
             /\ \A e \in Telemetry!Range(events), f \in Telemetry!Range(events') :
                    e.id = f.id => e = f]_<<events, accepted>>
  <2> SUFFICES ASSUME RowsInv, [RowsNext]_rowVars, <<events, accepted>>' # <<events, accepted>>,
                      ~Telemetry!OutdatedSave, events' # <<>>
               PROVE  /\ \A e \in Telemetry!Range(events) \cup (accepted' \ accepted) :
                            e \in Telemetry!Range(events') \/ Telemetry!FallsOff(e, events')
                      /\ \A e \in Telemetry!Range(events), f \in Telemetry!Range(events') :
                            e.id = f.id => e = f
    OBVIOUS
  <2>1. Telemetry!Next
    BY OneRegistry DEF Telemetry!vars
  <2> QED
    BY <2>1, LatestKept, RowsAssumption DEF RowsInv
<1> QED
  BY <1>1, <1>2, RowsInvHolds, SummariesStay, PTL
  DEF RowsSpec, SessionsCoherent, Telemetry!LatestAreKept

(* A decision about a model is stored with the evidence that it rests on,  *)
(* evidence goes only when an outdated row is saved, and a scheduled scan  *)
(* that found grave matches opened an incident.                            *)
THEOREM DecisionsStand == RowsSpec => DecisionsStandOnEvidence
<1>1. RowsInv => ("scan" \in alarms => "scan" \in incidents)
  BY DEF RowsInv, IntakeInv
<1>2. RowsInv /\ [RowsNext]_rowVars
      => [\A h \in Handlers : Models!Deciding(h) =>
            \E scan \in {model'.vulns} \cup {scan \in Scans : model'.vulns = Absent} :
               model'.decision = Models!DecisionOn([model' EXCEPT !.vulns = scan])]_(Models!vars)
  BY OneRegistry, DecisionRests, RowsAssumption DEF RowsInv
<1>3. RowsInv /\ [RowsNext]_rowVars
      => [lost' \/ \A column \in {"redteam", "probes", "vulns", "decision"} :
                      model'[column] = Absent => model[column] = Absent]_(Models!vars)
  BY OneRegistry, EvidenceKept, RowsAssumption DEF RowsInv
<1> QED
  BY <1>1, <1>2, <1>3, RowsInvHolds, PTL
  DEF RowsSpec, DecisionsStandOnEvidence, Models!DecisionsRest, Models!EvidenceStays

(* An authority is confirmed only if it is there, what was revoked stays   *)
(* revoked, and what was written last of a principal, a delegation or a    *)
(* machine account is stored unless an outdated row was saved.             *)
THEOREM IdentitiesStay == RowsSpec => []IdentitiesHold
<1>1. RowsInv => IdentitiesHold
  BY IdentitiesSound DEF RowsInv, IdentitiesHold
<1> QED
  BY <1>1, RowsInvHolds, PTL
=============================================================================
