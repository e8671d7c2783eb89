------------------------- MODULE AdoptionDecision -------------------------
(***************************************************************************)
(* The adoption verdict over the evidence of one model (core/              *)
(* adoption_engine.py, core/org_policy_engine.py).  Every input adds caps, *)
(* and the verdict is the worst of them.                                   *)
(*                                                                         *)
(* Absent stands for an assessment that there is none of.  An assessment   *)
(* is a record: its status, its field found (the severities of what it     *)
(* found) and complete (assessment_complete).                              *)
(*   risk       : aggregate (severity), threats (a behavioural finding of  *)
(*                high or critical severity), lowTrust                     *)
(*   vulns      : found, complete                                          *)
(*   scan       : status, found, complete (serialization scan)             *)
(*   weights    : status, complete                                         *)
(*   lineage    : consistent, merged                                       *)
(*   facts      : the severities of the contradictions                     *)
(*   probes, redteam : status, found, complete                             *)
(*   mcp        : status, found, rugPull                                   *)
(*   backdoor   : its status                                               *)
(*   provenance : level, unsigned, complete, confident (0.45 or more)      *)
(*   identity   : attested, weakest (rank of the weakest origin of the     *)
(*                identity facts)                                          *)
(*   gaps       : some required assurance control is not met               *)
(* A context of use is the tiers of its use case, data and exposure, and   *)
(* whether its users are anonymous.                                        *)
(***************************************************************************)
EXTENDS Integers, FiniteSets, FiniteSetsExt

CONSTANT Absent

Severity == {"LOW", "MEDIUM", "HIGH", "CRITICAL"}
Grave == {"HIGH", "CRITICAL"}

(* _VERDICT_RANK                                                           *)
DoNotApprove == 0
InsufficientEvidence == 1
PilotOnly == 2
ApproveWithConditions == 3
ApproveForScopedUse == 4
Ranks == 0..4

RiskCaps(risk) ==
    {cap \in Ranks : risk # Absent /\
        \/ cap = DoNotApprove /\ (risk.threats \/ risk.aggregate = "CRITICAL")
        \/ cap = PilotOnly /\ (risk.lowTrust \/ risk.aggregate = "HIGH")
        \/ cap = ApproveWithConditions /\ risk.aggregate = "MEDIUM"}

VulnerabilityCaps(vulns) ==
    {cap \in Ranks : vulns # Absent /\
        \/ cap = DoNotApprove /\ "CRITICAL" \in vulns.found
        \/ cap = PilotOnly /\ "HIGH" \in vulns.found
        \/ cap = ApproveWithConditions /\ vulns.found \cap {"LOW", "MEDIUM"} # {}}

(* Without a file to scan, or for a format it cannot scan, the scan only   *)
(* leaves a gap.                                                           *)
ScanSkipped == {"NO_FILE", "UNSUPPORTED_FORMAT"}

SerializationCaps(scan) ==
    {cap \in Ranks : scan # Absent /\ scan.status \notin ScanSkipped /\
        \/ cap = InsufficientEvidence /\ scan.status = "SCAN_ERROR"
        \/ cap = DoNotApprove /\ scan.found \cap Grave # {}
        \/ cap = ApproveWithConditions /\ ("MEDIUM" \in scan.found \/ scan.found = {"LOW"})}

WeightCaps(weights) ==
    {cap \in Ranks : weights # Absent /\ cap = InsufficientEvidence
                     /\ weights.status = "INSPECTION_ERROR"}

LineageCaps(lineage) ==
    {cap \in Ranks : lineage # Absent /\
        \/ cap = DoNotApprove /\ ~lineage.consistent
        \/ cap = PilotOnly /\ lineage.merged}

(* The caps for what was found wrong by reconciliation of the facts.       *)
ContradictionCaps(facts) ==
    {cap \in Ranks : facts # Absent /\
        \/ cap = DoNotApprove /\ facts \cap Grave # {}
        \/ cap = PilotOnly /\ "MEDIUM" \in facts
        \/ cap = ApproveWithConditions /\ "LOW" \in facts}

(* The live evaluations: the built-in probes and the red-team tools.       *)
LiveCaps(live, unusable) ==
    {cap \in Ranks : live # Absent /\
        \/ cap = InsufficientEvidence /\ live.status = "ENDPOINT_ERROR"
        \/ /\ live.status \notin unusable
           /\ \/ cap = DoNotApprove /\ live.found \cap Grave # {}
              \/ cap = PilotOnly /\ "MEDIUM" \in live.found}

ProbeCaps(probes) == LiveCaps(probes, {"NO_ENDPOINT", "ENDPOINT_ERROR"})

RedteamCaps(redteam) ==
    LiveCaps(redteam, {"NO_ENDPOINT", "ENDPOINT_ERROR", "TOOL_NOT_INSTALLED", "ERROR", "NOT_IMPLEMENTED"})

McpCaps(mcp) ==
    {cap \in Ranks : mcp # Absent /\
        \/ cap = DoNotApprove /\ mcp.rugPull
        \/ /\ mcp.status = "UNSAFE_PATTERNS_FOUND"
           /\ cap = IF mcp.found \cap Grave # {} THEN DoNotApprove ELSE PilotOnly}

BackdoorCaps(backdoor) ==
    {cap \in Ranks : \/ cap = DoNotApprove /\ backdoor = "HIGH_RISK"
                     \/ cap = PilotOnly /\ backdoor = "SUSPICIOUS"}

(* A missing provenance assessment is the one that is never only a gap.    *)
ProvenanceCaps(provenance) ==
    IF provenance = Absent THEN {InsufficientEvidence}
    ELSE {cap \in Ranks :
            \/ cap = DoNotApprove /\ provenance.level = "CRITICAL"
            \/ cap = PilotOnly /\ (provenance.level = "HIGH" \/ provenance.unsigned)
            \/ cap = ApproveWithConditions /\ provenance.level = "MEDIUM"}

(* ORIGIN_RANK of locally observed facts.                                  *)
VerifiedGrade == 3

IdentityCaps(identity) ==
    {cap \in Ranks : /\ cap = PilotOnly
                     /\ ~identity.attested /\ identity.weakest # Absent
                     /\ identity.weakest < VerifiedGrade}

GovernanceCaps(gaps) == {cap \in Ranks : cap = ApproveWithConditions /\ gaps}

UnfinishedButRedteam(evidence) == \* mutant: a red-team run that did not finish is no gap in the decision
    \/ \E assessment \in {evidence.provenance, evidence.vulns, evidence.scan, evidence.weights,
                          evidence.probes} :
            assessment # Absent /\ ~assessment.complete
    \/ evidence.provenance # Absent /\ ~evidence.provenance.confident

(* _evaluate_completeness                                                  *)
Unfinished(evidence) ==
    \/ \E assessment \in {evidence.provenance, evidence.vulns, evidence.scan, evidence.weights,
                          evidence.probes, evidence.redteam} :
            assessment # Absent /\ ~assessment.complete
    \/ evidence.provenance # Absent /\ ~evidence.provenance.confident

CompletenessCaps(evidence) == {cap \in Ranks : cap = InsufficientEvidence /\ Unfinished(evidence)}
-----------------------------------------------------------------------------
ExposureOfInternal(context) == \* mutant: anonymous users of an exposed deployment do not count
    IF context.anonymous /\ context.exposure = 0 THEN 3 ELSE context.exposure

(* Anonymous users make any deployment an anonymous one.                   *)
Exposure(context) == IF context.anonymous THEN 3 ELSE context.exposure

Score(context) == context.use + context.data + Exposure(context)

(* _policy_posture                                                         *)
Posture(context) ==
    IF context.data >= 4 /\ Exposure(context) >= 2 THEN "critical"
    ELSE IF Score(context) >= 6 \/ (context.use >= 3 /\ Exposure(context) >= 2) THEN "high"
    ELSE IF Score(context) >= 3 THEN "medium"
    ELSE "low"

Strict(context) == Posture(context) \in {"high", "critical"}

(* _build_requirements: what a context of use requires, and what the       *)
(* evidence meets.                                                         *)
Required(context) ==
    LET public == Exposure(context) >= 2
        sensitive == context.data >= 3
    IN  {"provenance", "vulns"}
        \cup {req \in {"identity", "gaps"} : Strict(context) \/ sensitive}
        \cup {req \in {"signature"} : Strict(context)}
        \cup {req \in {"scan"} : public \/ Strict(context)}
        \cup {req \in {"probes"} : public}

Met(evidence) ==
    {req \in {"provenance", "vulns", "identity", "gaps", "signature", "scan", "probes"} :
        \/ req = "provenance" /\ evidence.provenance # Absent
                              /\ evidence.provenance.complete /\ evidence.provenance.confident
        \/ req = "vulns" /\ evidence.vulns # Absent /\ evidence.vulns.complete
        \/ req = "signature" /\ evidence.identity.attested
        \/ req = "identity" /\ \/ evidence.identity.attested
                               \/ /\ evidence.identity.weakest # Absent
                                  /\ evidence.identity.weakest >= VerifiedGrade
        \/ req = "scan" /\ evidence.scan # Absent
                        /\ evidence.scan.status \notin ScanSkipped \cup {"SCAN_ERROR"}
        \/ req = "probes" /\ evidence.probes # Absent /\ evidence.probes.status = "COMPLETED"
        \/ req = "gaps" /\ ~evidence.gaps}

MissingOfRun(evidence, context) == \* mutant: what was never assessed is not missing
    Required(context) \ (Met(evidence) \cup {req \in {"vulns", "scan", "probes"} : evidence[req] = Absent})

Missing(evidence, context) == Required(context) \ Met(evidence)

(* evaluate_org_policy: what is missing caps the verdict only where the    *)
(* context is strict.                                                      *)
PolicyCaps(evidence, context) ==
    {cap \in Ranks : Strict(context) /\
        \/ cap = InsufficientEvidence /\ Missing(evidence, context) # {}
        \/ cap = ApproveWithConditions}
(* approval_scope, from the tightest: pilot_only, heightened, baseline.    *)
Scope(context) == CASE Posture(context) = "critical" -> 0
                    [] Posture(context) \in {"high", "medium"} -> 1
                    [] OTHER -> 2
-----------------------------------------------------------------------------
Caps(evidence, context) ==
    UNION {RiskCaps(evidence.risk), VulnerabilityCaps(evidence.vulns), SerializationCaps(evidence.scan),
           WeightCaps(evidence.weights), LineageCaps(evidence.lineage), ContradictionCaps(evidence.facts),
           ProbeCaps(evidence.probes), RedteamCaps(evidence.redteam), McpCaps(evidence.mcp),
           BackdoorCaps(evidence.backdoor), ProvenanceCaps(evidence.provenance),
           IdentityCaps(evidence.identity), GovernanceCaps(evidence.gaps),
           CompletenessCaps(evidence), PolicyCaps(evidence, context)}

(* recommend_adoption: the worst of the caps, _worst_verdict.              *)
Recommend(evidence, context) == Min(Caps(evidence, context) \cup {ApproveForScopedUse})
=============================================================================
