SPECIFICATION LawsSpec
CHECK_DEADLOCK FALSE
CONSTANTS
    None = None  Unset = Unset  Absent = Absent
    browser = browser  shell = shell  fetch = fetch
    net = net  root = root  s1 = s1  ann = ann  bob = bob
    Tools = {browser, shell}  Permissions = {net, root}  Actions = {fetch}  StepIds = {s1}
    Capabilities = {net}  Destinations = {browser}  Tags = {s1}
    LooseAgent <- FreeAgent
    LoosePolicy <- OneRule
    LooseContext <- MeetsAll
    Needed <- RequestSet
    MaxSteps = 2
    Contexts <- ContextSet
    Found = {"LOW", "MEDIUM", "CRITICAL"}
    MaxChanged = 2
    ExternalTools = {browser}
    ExternalAction = ExternalAction
    Nodes <- StepNumbers
    Entry = 1
    MaxVisits = 3
    MaxNodes = 3  MaxEdges = 5  MaxRisks = 5
    Workflows <- WorkflowSet
    Policies <- PolicySet
    Artifacts <- ArtifactSet
    Payloads <- PayloadSet
PROPERTIES
    RequestsAreJudgedFairly
    StepsOnlyRestrict
    RestrictionsNeverGrant
    AdoptionNeverLoosens
    ReportCoversRuns
