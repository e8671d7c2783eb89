------------------------- MODULE PolicyEnforcement -------------------------
(***************************************************************************)
(* The policy enforcement point, core/policy_enforcement.py.  Policies are *)
(* rows of the models table, which every registry of the program shares:   *)
(* saving a row replaces it and gives it a new created_at, and list_models *)
(* returns the rows with the newest created_at only.  enforce_request      *)
(* lists so many policies of a principal and so many of everyone, judges   *)
(* the request by one after the other, saves each with a new counter       *)
(* exactly as it was listed, and writes a log row, which the rate limits   *)
(* count.                                                                  *)
(*                                                                         *)
(* There is one principal; policies are its own or everyone's ("*").  A    *)
(* list of patterns is the set of the requests that it matches, where      *)
(* denied joins denied_resources and denied_actions, and allowed is        *)
(* Unlisted when both allow-lists are empty.  The two listings of a        *)
(* request are one step.                                                   *)
(***************************************************************************)
EXTENDS Integers, Sequences, FiniteSets, SequencesExt

CONSTANTS Workers,       \* handlers of requests
          Policies,      \* policy ids
          Contents,      \* what operators write in a policy
          Requests,      \* what the principal asks for
          Others,        \* rows of other registries in the same table
          ListLimit,     \* list_models(limit=100)
          OwnLimit,      \* list_pep_policies(principal_id, limit=50)
          EveryoneLimit, \* list_pep_policies("*", limit=20)
          Window,        \* _RATE_WINDOW_SEC
          MaxTime,       \* bound on the clock
          MaxLogs,       \* bound: requests are made while there are fewer log rows
          MaxEdits,      \* bound on what operators do
          Absent, Deleted, Unlisted

Log == [policy : Policies \cup {Absent}, at : Nat, verdict : {"ALLOW", "CONDITIONAL", "DENY"}]

ASSUME EnforcementAssumption ==
    /\ IsFiniteSet(Policies) /\ {ListLimit, OwnLimit, EveryoneLimit} \subseteq Nat \ {0}
    /\ Window \in Nat /\ MaxTime \in Nat
    /\ Contents \subseteq [everyone : BOOLEAN, mode : {"ENFORCE", "AUDIT", "PASSTHROUGH"},
                           denied : SUBSET Requests,
                           allowed : {Unlisted} \cup SUBSET Requests,
                           conditional : BOOLEAN, limit : Nat]
    /\ Absent # Deleted /\ Contents \cap {Absent, Deleted} = {}
    /\ Policies \cap Others = {} /\ Policies \cap Log = {}   \* keys have prefixes

VARIABLES policies,  \* [Policies -> content, Deleted or Absent]
          rows,      \* the models table, oldest created_at first: policy ids, log rows, others
          call,      \* [Workers -> the call of enforce_request in progress]
          now,
          intended,  \* history: [Policies -> what an operator wrote last]
          clobbered, \* history: policies a request saved over what it had not listed
          edits

pepVars == <<policies, rows, call, now, intended, clobbered, edits>>

Stored == Contents \cup {Deleted}
Entry == [id : Policies, content : Stored]
NoCall == [at |-> "idle"]

PepTypeOK ==
    /\ policies \in [Policies -> Stored \cup {Absent}] /\ intended \in [Policies -> Stored \cup {Absent}]
    /\ \A i \in 1..Len(rows) : rows[i] \in Policies \cup Others \/ rows[i] \in Log
    /\ \A w \in Workers : call[w].at \in {"idle", "judge", "answer"}
    /\ clobbered \subseteq Policies /\ now \in 0..MaxTime

(* Some policies are there, written in some order.                         *)
PepInit ==
    /\ policies \in [Policies -> Contents \cup {Absent}] /\ intended = policies
    /\ rows \in SetToSeqs({id \in Policies : policies[id] # Absent})
    /\ now = 0 /\ edits = 0 /\ clobbered = {}
    /\ call = [w \in Workers |-> NoCall]
-----------------------------------------------------------------------------
IsRow(row) == row \in Policies \cup Others

(* What is at the positions I of a list, in the order of the list.         *)
Picked(list, I) ==
    [n \in 1..Cardinality(I) |-> list[CHOOSE i \in I : Cardinality({j \in I : j <= i}) = n]]

(* A row that is saved becomes the newest.                                 *)
Touched(row) == Append(Picked(rows, {i \in 1..Len(rows) : rows[i] # row}), row)

(* list_models: the newest rows, newest first.                             *)
Listed == LET n == IF Len(rows) < ListLimit THEN Len(rows) ELSE ListLimit
          IN [i \in 1..n |-> rows[Len(rows) + 1 - i]]

(* The policies of everyone, or of the principal, that are in the list;    *)
(* list_pep_policies stops at the limit that it is given.                  *)
Matching(everyone) ==
    Picked(Listed, {i \in 1..Len(Listed) :
                       /\ Listed[i] \in Policies /\ policies[Listed[i]] # Deleted
                       /\ policies[Listed[i]].everyone = everyone})
LimitOf(everyone) == IF everyone THEN EveryoneLimit ELSE OwnLimit

EntriesOf(everyone) ==
    LET found == Matching(everyone)
        n == IF Len(found) < LimitOf(everyone) THEN Len(found) ELSE LimitOf(everyone)
    IN [i \in 1..n |-> [id |-> found[i], content |-> policies[found[i]]]]

OwnEntries == EntriesOf(FALSE)     \* mutant: the policies of "*" are not asked

(* The policies of the principal, then those of everyone.                  *)
Applicable == EntriesOf(FALSE) \o EntriesOf(TRUE)

(* History: of which kinds of policies a request sees all.                 *)
SeenWhole == {everyone \in BOOLEAN : /\ Len(rows) <= ListLimit
                                    /\ Len(Matching(everyone)) <= LimitOf(everyone)}

(* The policy that the caller names, however old its row.                  *)
Named(id) == IF policies[id] = Absent THEN <<>> ELSE <<[id |-> id, content |-> policies[id]]>>

(* _check_rate_limit: the log rows that list_models returns, of the last   *)
(* minute, under the id of the policy that headed their list.              *)
WithinRate(id, content) ==
    LET recent == {i \in 1..Len(Listed) :
                      /\ ~IsRow(Listed[i]) /\ Listed[i].policy = id
                      /\ now - Listed[i].at <= Window}
    IN content.limit = 0 \/ Cardinality(recent) < content.limit

Permits(c, q) == c.allowed = Unlisted \/ q \in c.allowed
Enforcing(c) == c # Deleted /\ c.mode = "ENFORCE"
Blocking(c) == c # Deleted /\ c.mode # "PASSTHROUGH"

JudgedByLast(c, q, over, verdict) ==  \* mutant: each policy decides anew
    IF c.mode = "ENFORCE" /\ (over \/ q \in c.denied \/ ~Permits(c, q)) THEN "DENY"
    ELSE IF c.conditional THEN "CONDITIONAL" ELSE "ALLOW"

JudgedAllowFirst(c, q, over, verdict) ==  \* mutant: the allow-list has priority
    IF over THEN IF Enforcing(c) THEN "DENY" ELSE verdict
    ELSE IF Enforcing(c) /\ c.allowed # Unlisted /\ q \in c.allowed THEN verdict
    ELSE IF Enforcing(c) /\ (q \in c.denied \/ ~Permits(c, q)) THEN "DENY"
    ELSE IF verdict = "ALLOW" /\ Permits(c, q) /\ c.conditional THEN "CONDITIONAL"
    ELSE verdict

(* One policy's say: its rate limit stands alone, then the deny-lists, and *)
(* while nothing denies the allow-lists and at last the conditions.        *)
Judged(c, q, over, verdict) ==
    IF over THEN IF Enforcing(c) THEN "DENY" ELSE verdict
    ELSE IF Enforcing(c) /\ (q \in c.denied \/ ~Permits(c, q)) THEN "DENY"
    ELSE IF verdict = "ALLOW" /\ Permits(c, q) /\ c.conditional THEN "CONDITIONAL"
    ELSE verdict
-----------------------------------------------------------------------------
PepGoto(w, next) == call' = [call EXCEPT ![w] = next]

(* A request arrives: the policies are listed.  Without any it is allowed, *)
(* and nothing is logged.                                                  *)
Enforce(w, q, entries) ==
    /\ call[w] = NoCall
    /\ Cardinality({i \in 1..Len(rows) : ~IsRow(rows[i])}) < MaxLogs
    /\ PepGoto(w, [at |-> IF entries = <<>> THEN "answer" ELSE "judge", request |-> q,
                   listed |-> entries, todo |-> entries, verdict |-> "ALLOW", through |-> FALSE,
                   over |-> {}, since |-> now, complete |-> SeenWhole,
                   all |-> entries = Applicable, edited |-> {}])
    /\ UNCHANGED <<policies, rows, now, intended, clobbered, edits>>

(* A deleted policy is passed over; one in PASSTHROUGH mode only says so.  *)
Skip(w) ==
    /\ call[w].at = "judge" /\ call[w].todo # <<>>
    /\ ~Blocking(Head(call[w].todo).content)
    /\ PepGoto(w, [call[w] EXCEPT !.todo = Tail(@),
                                  !.through = @ \/ Head(call[w].todo).content # Deleted])
    /\ UNCHANGED <<policies, rows, now, intended, clobbered, edits>>

(* Over its rate limit a policy is not saved and does not end the loop.    *)
ExceedRate(w) ==
    /\ call[w].at = "judge" /\ call[w].todo # <<>>
    /\ LET e == Head(call[w].todo)
       IN /\ Blocking(e.content) /\ ~WithinRate(e.id, e.content)
          /\ PepGoto(w, [call[w] EXCEPT !.todo = Tail(@), !.over = @ \cup {e.id},
                            !.verdict = Judged(e.content, call[w].request, TRUE, @)])
    /\ UNCHANGED <<policies, rows, now, intended, clobbered, edits>>

(* Otherwise it judges the request, is saved as it was listed, and ends    *)
(* the loop with a denial that it enforces.                                *)
Judge(w) ==
    /\ call[w].at = "judge" /\ call[w].todo # <<>>
    /\ LET e == Head(call[w].todo)
           v == Judged(e.content, call[w].request, FALSE, call[w].verdict)
       IN /\ Blocking(e.content) /\ WithinRate(e.id, e.content)
          /\ policies' = [policies EXCEPT ![e.id] = e.content]
          /\ rows' = Touched(e.id)
          /\ clobbered' = IF policies[e.id] # e.content THEN clobbered \cup {e.id} ELSE clobbered
          /\ PepGoto(w, [call[w] EXCEPT !.verdict = v,
                            !.todo = IF v = "DENY" /\ Enforcing(e.content) THEN <<>> ELSE Tail(@)])
    /\ UNCHANGED <<now, intended, edits>>

(* What the modes of the policies make of the verdict in the end.          *)
Effective(c) ==
    IF \/ c.through
       \/ \A i \in 1..Len(c.listed) : ~Enforcing(c.listed[i].content)
    THEN "ALLOW" ELSE c.verdict

(* The id that a log row is kept under: the first policy that was asked.   *)
Heading(c) ==
    LET asked == Picked(c.listed, {i \in 1..Len(c.listed) : c.listed[i].content # Deleted})
    IN IF asked = <<>> THEN Absent ELSE asked[1].id

WriteLog(w) ==
    /\ call[w].at = "judge" /\ call[w].todo = <<>>
    /\ rows' = Append(rows, [policy |-> Heading(call[w]), at |-> call[w].since,
                             verdict |-> Effective(call[w])])
    /\ PepGoto(w, [call[w] EXCEPT !.at = "answer", !.verdict = Effective(call[w])])
    /\ UNCHANGED <<policies, now, intended, clobbered, edits>>

Answered(w) == call[w].at = "answer"

PepReturn(w) ==
    /\ Answered(w) /\ PepGoto(w, NoCall)
    /\ UNCHANGED <<policies, rows, now, intended, clobbered, edits>>

PepStep(w) == Skip(w) \/ ExceedRate(w) \/ Judge(w) \/ WriteLog(w)

(* create_pep_policy writes a whole record, delete_pep_policy one that is  *)
(* marked as deleted, over whatever is there.                              *)
WritePolicy(id, content) ==
    /\ edits < MaxEdits /\ edits' = edits + 1
    /\ policies' = [policies EXCEPT ![id] = content]
    /\ intended' = [intended EXCEPT ![id] = content]
    /\ clobbered' = clobbered \ {id}
    /\ rows' = Touched(id)
    /\ call' = [w \in Workers |-> IF call[w] = NoCall THEN NoCall
                                  ELSE [call[w] EXCEPT !.edited = @ \cup {id}]]
    /\ UNCHANGED now

CreatePolicy(id) == \E content \in Contents : WritePolicy(id, content)
DeletePolicy(id) == policies[id] # Absent /\ WritePolicy(id, Deleted)

(* Another registry saves a row of its own.                                *)
SaveOther(row) ==
    /\ rows' = Touched(row)
    /\ UNCHANGED <<policies, call, now, intended, clobbered, edits>>

PepTick == /\ now < MaxTime /\ now' = now + 1
           /\ UNCHANGED <<policies, rows, call, intended, clobbered, edits>>

Operate == \/ \E id \in Policies : CreatePolicy(id) \/ DeletePolicy(id)
           \/ \E row \in Others : SaveOther(row)
           \/ PepTick

(* The policies that a request goes by: all that apply, or the one that    *)
(* the caller names.                                                       *)
Lists == {Applicable} \cup {Named(id) : id \in Policies}
-----------------------------------------------------------------------------
Denies(c, q) == Enforcing(c) /\ (q \in c.denied \/ ~Permits(c, q))

(* The order in which list_models returns the policies changes with every  *)
(* request, and the verdict does not depend on it: unless a policy in      *)
(* PASSTHROUGH mode comes before the first that denies, a request is       *)
(* denied exactly when some policy in ENFORCE mode denies it or is over    *)
(* its limit; it is conditional only when some policy is enforced and some *)
(* policy has conditions, and allowed only when no enforced policy has any.*)
VerdictIsOrderless ==
    \A w \in Workers : Answered(w) =>
        LET c == call[w]
            asked == {c.listed[i] : i \in 1..Len(c.listed)}
            enforced == {e \in asked : Enforcing(e.content)}
        IN IF c.through
           THEN /\ c.verdict = "ALLOW"
                /\ \E e \in asked : e.content # Deleted /\ ~Blocking(e.content)
           ELSE /\ c.verdict = "DENY" <=>
                      \E e \in enforced : Denies(e.content, c.request) \/ e.id \in c.over
                /\ c.verdict = "CONDITIONAL" =>
                      enforced # {} /\ \E e \in asked : e.content # Deleted /\ e.content.conditional
                /\ c.verdict = "ALLOW" => \A e \in enforced : ~e.content.conditional

(* "denied_actions: explicit deny-list (takes priority over allow-list)":  *)
(* a request is denied when a policy of the principal in ENFORCE mode has  *)
(* denied it since before the request was made, the caller names no other  *)
(* policy, and none is in PASSTHROUGH mode ...                             *)
Overruled(w, id) ==
    /\ Answered(w) /\ call[w].all /\ call[w].verdict # "DENY" /\ ~call[w].through
    /\ id \notin call[w].edited
    /\ intended[id] # Absent /\ Denies(intended[id], call[w].request)
DenialsEnforced == \A w \in Workers, id \in Policies : ~Overruled(w, id)

(* ... and it holds unless a request that had listed the policy before it  *)
(* was written has saved it back, newer rows pushed it off the list, or    *)
(* more policies of its kind than a request asks for were there.           *)
DenialsHold ==
    \A w \in Workers, id \in Policies :
        Overruled(w, id) => id \in clobbered \/ intended[id].everyone \notin call[w].complete
=============================================================================
