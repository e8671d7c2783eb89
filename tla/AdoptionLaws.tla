--------------------------- MODULE AdoptionLaws ---------------------------
(***************************************************************************)
(* How the adoption verdict moves as assessments of a model come in, are   *)
(* repeated or fail, and as its deployment changes.  A state is the        *)
(* evidence of a model and the context of its use; a step is one change.   *)
(* At most MaxChanged inputs differ from those of a model without fault,   *)
(* and what is found is of the severities Found.                           *)
(***************************************************************************)
EXTENDS AdoptionDecision

CONSTANTS Contexts, Found, MaxChanged

VARIABLES evidence, context,
          verdict    \* of the triage of this evidence in this context
vars == <<evidence, context, verdict>>

(* What the inputs of a verdict are; a result that is there is a record.   *)
Statuses == {"COMPLETED", "ENDPOINT_ERROR", "PARTIAL", "TOOL_NOT_INSTALLED", "ERROR", "NO_FILE", "SCAN_ERROR"}
Results == [status : Statuses, found : SUBSET Severity, complete : BOOLEAN]
Provenances == [level : Severity, unsigned : BOOLEAN, complete : BOOLEAN, confident : BOOLEAN]
Risks == [aggregate : Severity, threats : BOOLEAN, lowTrust : BOOLEAN]
Lineages == [consistent : BOOLEAN, merged : BOOLEAN]
McpScans == [status : {"CLEAN", "SUSPICIOUS", "TOOLS_CHANGED", "UNSAFE_PATTERNS_FOUND"},
             found : SUBSET Severity, rugPull : BOOLEAN]

InputsTyped ==
    /\ Contexts \subseteq [use : Nat, data : Nat, exposure : 0..3, anonymous : BOOLEAN]
    /\ Found \subseteq Severity
    /\ Absent \notin Results /\ Absent \notin Provenances /\ Absent \notin Risks
    /\ Absent \notin Lineages /\ Absent \notin McpScans
    /\ \A facts \in SUBSET Severity : facts # Absent

Done == [status |-> "COMPLETED", found |-> {}, complete |-> TRUE]
Faultless ==
    [risk |-> [aggregate |-> "LOW", threats |-> FALSE, lowTrust |-> FALSE],
     vulns |-> Done, scan |-> Done, weights |-> [status |-> "INSPECTED", complete |-> TRUE],
     lineage |-> [consistent |-> TRUE, merged |-> FALSE], facts |-> {},
     probes |-> Done, redteam |-> Done, mcp |-> [status |-> "CLEAN", found |-> {}, rugPull |-> FALSE],
     backdoor |-> "CLEAN",
     provenance |-> [level |-> "LOW", unsigned |-> FALSE, complete |-> TRUE, confident |-> TRUE],
     identity |-> [attested |-> TRUE, weakest |-> 0], gaps |-> FALSE]

(* The results of an assessment that did not do its work.                  *)
Failed(status) == [status |-> status, found |-> {}, complete |-> FALSE]
Failures == [probes |-> {Failed("ENDPOINT_ERROR"), Failed("PARTIAL")},
             redteam |-> {Failed("ENDPOINT_ERROR"), Failed("TOOL_NOT_INSTALLED"), Failed("ERROR"),
                          Failed("PARTIAL")},
             scan |-> {Failed("NO_FILE"), Failed("SCAN_ERROR")}]

Change(input, value) == /\ evidence' = [evidence EXCEPT ![input] = value]
                        /\ UNCHANGED context

(* A later assessment finds one thing more.                                *)
Find(input, severity) ==
    /\ evidence[input] # Absent /\ evidence[input].complete
    /\ Change(input, [evidence[input] EXCEPT !.found = @ \cup {severity}])

Contradict(severity) == evidence.facts # Absent /\ Change("facts", evidence.facts \cup {severity})

(* The MCP server of the agent turns bad: the status is that of the worst  *)
(* finding, and a changed descriptor is one of high severity.              *)
Poison ==
    \E found \in SUBSET Found, rugPull \in BOOLEAN :
        /\ evidence.mcp.found \subseteq found /\ (evidence.mcp.rugPull => rugPull)
        /\ Change("mcp", [found |-> found \cup {s \in {"HIGH"} : rugPull}, rugPull |-> rugPull,
                          status |-> IF found \cap Grave # {} THEN "UNSAFE_PATTERNS_FOUND"
                                     ELSE IF rugPull THEN "TOOLS_CHANGED"
                                     ELSE IF found # {} THEN "SUSPICIOUS" ELSE "CLEAN"])

Level == [LOW |-> 1, MEDIUM |-> 2, HIGH |-> 3, CRITICAL |-> 4]

(* The record's own assessments get worse.                                 *)
Degrade ==
    \/ \E level \in Severity :
        \/ /\ Level[level] > Level[evidence.risk.aggregate]
           /\ Change("risk", [evidence.risk EXCEPT !.aggregate = level])
        \/ /\ evidence.provenance # Absent /\ Level[level] > Level[evidence.provenance.level]
           /\ Change("provenance", [evidence.provenance EXCEPT !.level = level])
    \/ Change("risk", [evidence.risk EXCEPT !.threats = TRUE])
    \/ Change("risk", [evidence.risk EXCEPT !.lowTrust = TRUE])
    \/ Change("lineage", [evidence.lineage EXCEPT !.consistent = FALSE])
    \/ Change("lineage", [evidence.lineage EXCEPT !.merged = TRUE])
    \/ Change("backdoor", IF evidence.backdoor = "CLEAN" THEN "SUSPICIOUS" ELSE "HIGH_RISK")
    \/ /\ evidence.provenance # Absent
       /\ \/ Change("provenance", [evidence.provenance EXCEPT !.complete = FALSE])
          \/ Change("provenance", [evidence.provenance EXCEPT !.confident = FALSE])
    \/ Change("gaps", TRUE)

(* An attestation expires or is found false.                               *)
LoseAttestation ==
    /\ evidence' = [evidence EXCEPT !.identity.attested = FALSE,
                                    !.provenance = IF @ = Absent THEN @ ELSE [@ EXCEPT !.unsigned = TRUE]]
    /\ UNCHANGED context

Worsen == \/ \E input \in {"vulns", "scan", "probes", "redteam"}, s \in Found : Find(input, s)
          \/ \E s \in Found : Contradict(s)
          \/ Poison
          \/ Degrade
          \/ LoseAttestation

(* An assessment is run again and does not get to its end; its result      *)
(* replaces the one before.                                                *)
FailedRerun(input) == \E result \in Failures[input] : Change(input, result)
Rerun == \E input \in DOMAIN Failures : FailedRerun(input)

(* A run of PyRIT whose every prompt ends in an error is COMPLETED, counts *)
(* as complete and found nothing: nobody sees that it failed.              *)
SilentRerun == Change("redteam", Done)

(* The record of an assessment is lost, or it was never run.               *)
Losable == {"vulns", "scan", "probes", "redteam", "facts", "provenance"}
Loss(input) == Change(input, Absent)
Lose == \E input \in Losable : Loss(input)

(* The deployment is opened up, or the model gets to see other data.       *)
Expose ==
    /\ context' \in Contexts
    /\ context.use <= context'.use /\ context.data <= context'.data
    /\ context.exposure <= context'.exposure /\ (context.anonymous => context'.anonymous)
    /\ UNCHANGED evidence

Changed == {input \in DOMAIN Faultless : evidence[input] # Faultless[input]}

Init == evidence = Faultless /\ context \in Contexts /\ verdict = Recommend(evidence, context)
Next == /\ Worsen \/ Rerun \/ SilentRerun \/ Lose \/ Expose
        /\ Cardinality(Changed') <= MaxChanged
        /\ verdict' = Recommend(evidence', context')
Spec == Init /\ [][Next]_vars
-----------------------------------------------------------------------------
(* Nothing bad that comes to be known makes the verdict better.            *)
BadNewsNeverHelps == [][verdict' > verdict => ~Worsen]_vars

(* An assessment that is run again and says that it failed leaves nothing  *)
(* better than INSUFFICIENT_EVIDENCE, whatever the one before found.  (It  *)
(* may lift a DO_NOT_APPROVE to that: its result replaces the findings.)   *)
FailedRerunsNeverApprove == [][verdict' > InsufficientEvidence => ~Rerun]_vars

(* An assessment that failed, or that there is no record of any more,      *)
(* never counts for more than one that ran and found nothing.              *)
UnassessedIsNoBetterThanClean ==
    [][\A input \in Losable :
          Loss(input) \/ (input \in DOMAIN Failures /\ FailedRerun(input)) =>
              verdict' <= Recommend([evidence' EXCEPT ![input] = Faultless[input]], context')]_vars

(* The loss of a record that the verdict needs is noticed: of provenance   *)
(* always, of vulnerabilities, scan and probes where the context of use is *)
(* strict and requires them.  (Elsewhere it is a gap that caps nothing,    *)
(* and findings that only the lost record held are no longer counted.)     *)
RequiredLossesAreNoticed ==
    [][\A input \in Losable :
          /\ Loss(input)
          /\ input = "provenance" \/ (Strict(context') /\ input \in Required(context'))
          => verdict' <= InsufficientEvidence]_vars

(* A use that is more exposed, of more people or of more sensitive data is *)
(* never given a better verdict or a wider scope of approval.              *)
ContextOnlyRestricts ==
    [][context' # context => verdict' <= verdict /\ Scope(context') <= Scope(context)]_vars

AdoptionNeverLoosens ==
    /\ BadNewsNeverHelps /\ ContextOnlyRestricts
    /\ FailedRerunsNeverApprove /\ UnassessedIsNoBetterThanClean /\ RequiredLossesAreNoticed
=============================================================================
