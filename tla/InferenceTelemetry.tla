-------------------------- MODULE InferenceTelemetry --------------------------
(*****************************************************************************)
(* The telemetry of one session (core/inference_telemetry.py): a bounded     *)
(* window of events and a summary of them, in a row of the models table.     *)
(* Clients post batches of events; the guardrail (core/guardrail_engine.py)  *)
(* posts one event for a verdict that is not PASS, and does not look at the  *)
(* answer.  An ingest reads the row, extends it and saves it, with nothing   *)
(* to keep handlers apart.                                                   *)
(*                                                                           *)
(* An event posted without an id is given a fresh one: here it is one whose  *)
(* id no other batch uses.                                                   *)
(*****************************************************************************)
EXTENDS Integers, FiniteSets, Sequences, SequencesExt

CONSTANTS
    Workers,     \* handlers of requests
    Ids,         \* event ids
    Batches,     \* what clients may post: sequences of raw events
    Window,      \* MAX_SESSION_EVENTS
    Guarded,     \* ids of the events of guardrail checks
    Deletes,     \* TRUE: clients may delete the session
    Failures,    \* TRUE: a store call may fail, or a handler die
    MaxSequence  \* bound: no ingest starts above this sequence number

VARIABLES
    events,    \* metadata.events of the stored row
    summary,   \* metadata.summary of it
    job,       \* what each handler is doing
    accepted,  \* events that the program reported or knows as accepted
    verdicts   \* the verdicts guardrail checks answered, with their event's id
               \* and whether the telemetry call came back

vars == <<events, summary, job, accepted, verdicts>>

VerdictTypes == [FLAG |-> "guardrail_flag", BLOCK |-> "guardrail_block"]
EventTypes == {"user_message", "guardrail_block", "guardrail_flag"}
ValidEventTypes == {"user_message", "guardrail_block"}
Raw == [id : Ids, type : EventTypes]
Event == [id : Ids, type : EventTypes, sequence : Nat]

Idle == [at |-> "idle"]

(* What the proofs, and every instance, take the constants to be.            *)
TelemetryAssumption == Batches \subseteq Seq(Raw) /\ Guarded \subseteq Ids /\ Window \in Nat \ {0}

IdsOf(list) == {list[i].id : i \in DOMAIN list}

(* One above the highest sequence of the window.                             *)
NextFromLength(list) == Len(list)
NextSequence(list) ==
    IF list = <<>> THEN 0 ELSE 1 + Max({list[i].sequence : i \in DOMAIN list})

Taken(list, raw) ==
    Append(list, [id |-> raw.id, type |-> raw.type, sequence |-> NextSequence(list)])

(* A raw event is rejected for its type, skipped for its id, or added.       *)
AddRepeats(list, raw) == IF raw.type \in ValidEventTypes THEN Taken(list, raw) ELSE list
AddValidated(list, raw) ==
    IF raw.type = "user_message" /\ raw.id \notin IdsOf(list) THEN Taken(list, raw) ELSE list
Add(list, raw) ==
    IF raw.type \in ValidEventTypes /\ raw.id \notin IdsOf(list)
    THEN Taken(list, raw)
    ELSE list

KeepFirst(list) == SubSeq(list, 1, IF Len(list) > Window THEN Window ELSE Len(list))
KeepTail(list) == IF Len(list) > Window THEN SubSeq(list, Len(list) - Window + 1, Len(list))
                                        ELSE list

Summarise(list) ==
    [count  |-> Len(list),
     blocks |-> Cardinality({i \in DOMAIN list : list[i].type = "guardrail_block"})]
-----------------------------------------------------------------------------
(* ingest_events up to the read of the row; an empty batch returns before.   *)
IngestRead(w, batch) ==
    /\ job[w] = Idle
    /\ batch # <<>>
    /\ NextSequence(events) <= MaxSequence
    /\ job' = [job EXCEPT ![w] =
                   [at |-> "ingest", batch |-> batch, read |-> events, list |-> events]]
    /\ UNCHANGED <<events, summary, accepted, verdicts>>

Answered(w, posted) ==
    [id |-> job[w].check.id, type |-> job[w].check.type, posted |-> posted]

(* One turn of the loop over the batch, of which batch is what is left, and  *)
(* list what the loop has made of the events that were read.                 *)
IngestEvent(w) ==
    /\ job[w].at \in {"ingest", "guard"}
    /\ job[w].batch # <<>>
    /\ job' = [job EXCEPT ![w].batch = Tail(@), ![w].list = Add(@, Head(job[w].batch))]
    /\ UNCHANGED <<events, summary, accepted, verdicts>>

(* The rest of it.  What was added counts as accepted, and is stored unless  *)
(* the window has no room for it.                                            *)
IngestSave(w) ==
    /\ job[w].at \in {"ingest", "guard"}
    /\ job[w].batch = <<>>
    /\ LET all == job[w].list
       IN  /\ events' = KeepTail(all)
           /\ summary' = Summarise(KeepTail(all))
           /\ accepted' = accepted \cup (Range(all) \ Range(job[w].read))
    /\ verdicts' = IF job[w].at = "guard" THEN verdicts \cup {Answered(w, TRUE)} ELSE verdicts
    /\ job' = [job EXCEPT ![w] = Idle]

(* check_content with a verdict that is not PASS: the telemetry event is     *)
(* posted before the verdict is returned.                                    *)
GuardRead(w, id, verdict) ==
    /\ job[w] = Idle
    /\ id \notin {r.id : r \in verdicts}
    /\ \A v \in Workers : job[v].at = "guard" => job[v].check.id # id
    /\ NextSequence(events) <= MaxSequence
    /\ LET raw == [id |-> id, type |-> VerdictTypes[verdict]]
       IN  job' = [job EXCEPT ![w] =
                      [at |-> "guard", check |-> raw, batch |-> <<raw>>, read |-> events, list |-> events]]
    /\ UNCHANGED <<events, summary, accepted, verdicts>>

(* A failure of the store is swallowed: the verdict is returned all the same.*)
GuardFail(w) ==
    /\ Failures
    /\ job[w].at = "guard"
    /\ verdicts' = verdicts \cup {Answered(w, FALSE)}
    /\ job' = [job EXCEPT ![w] = Idle]
    /\ UNCHANGED <<events, summary, accepted>>

Delete(w) ==
    /\ Deletes
    /\ job[w] = Idle
    /\ events' = <<>>
    /\ summary' = Summarise(<<>>)
    /\ UNCHANGED <<job, accepted, verdicts>>

Crash(w) ==
    /\ Failures
    /\ job[w] # Idle
    /\ job' = [job EXCEPT ![w] = Idle]
    /\ UNCHANGED <<events, summary, accepted, verdicts>>

Init ==
    /\ events = <<>>
    /\ summary = Summarise(<<>>)
    /\ job = [w \in Workers |-> Idle]
    /\ accepted = {}
    /\ verdicts = {}

Next ==
    \E w \in Workers :
        \/ \E batch \in Batches : IngestRead(w, batch)
        \/ \E id \in Guarded, verdict \in DOMAIN VerdictTypes : GuardRead(w, id, verdict)
        \/ IngestEvent(w)
        \/ IngestSave(w)
        \/ GuardFail(w)
        \/ Delete(w)
        \/ Crash(w)

Spec == Init /\ [][Next]_vars
-----------------------------------------------------------------------------
Job == {Idle}
       \cup [at : {"ingest"}, batch : Seq(Raw), read : Seq(Event), list : Seq(Event)]
       \cup [at : {"guard"}, check : Raw, batch : Seq(Raw), read : Seq(Event), list : Seq(Event)]

(* The stored row, the handlers' copies of it and the history are well       *)
(* typed.                                                                    *)
TypeOK ==
    /\ events \in Seq(Event)
    /\ summary \in [count : Nat, blocks : Nat]
    /\ job \in [Workers -> Job]
    /\ accepted \subseteq Event
    /\ verdicts \subseteq [id : Ids, type : EventTypes, posted : BOOLEAN]

(* Whoever overlaps, the state is well typed and the stored window is one  *)
(* run of sequence numbers with no id twice, no longer than                *)
(* MAX_SESSION_EVENTS, and the summary beside it is that of this window.   *)
WindowIsARun ==
    /\ TypeOK
    /\ Len(events) <= Window
    /\ \A i, j \in DOMAIN events :
           /\ events[i].sequence - events[j].sequence = i - j
           /\ events[i].id = events[j].id => i = j
    /\ summary = Summarise(events)

(* A handler saves a list that continues one that is not stored any more.    *)
OutdatedSave == \E w \in Workers : /\ job[w].at \in {"ingest", "guard"}
                                  /\ job[w].read # events
                                  /\ job'[w] = Idle

FallsOff(e, list) == \E i \in DOMAIN list : list[i].sequence >= e.sequence + Window

(* inference_telemetry.py:12-13, "events are append-only", "sessions       *)
(* retain the last MAX_SESSION_EVENTS events", "re-ingesting an event_id   *)
(* is a no-op": an event that was stored or has just been accepted is      *)
(* missing only when as many later ones push it out of the window, when    *)
(* the session is deleted, or after an outdated save; and as long as the   *)
(* row has it, its id stands for no other event.                           *)
LatestAreKept ==
    [][\/ OutdatedSave
       \/ events' = <<>>
       \/ /\ \A e \in Range(events) \cup (accepted' \ accepted) :
                 e \in Range(events') \/ FallsOff(e, events')
          /\ \A e \in Range(events), f \in Range(events') :
                 e.id = f.id => e = f]_<<events, accepted>>

(* guardrail_engine.py:21-23: the result of a check is emitted as a        *)
(* telemetry event.  Who is answered BLOCK finds that event accepted,      *)
(* unless the telemetry call failed.  (A FLAG has an event type that       *)
(* telemetry does not know and never arrives.)                             *)
BlocksRecorded ==
    \A v \in verdicts : v.posted /\ v.type = "guardrail_block" =>
                            \E e \in accepted : e.id = v.id
=============================================================================
