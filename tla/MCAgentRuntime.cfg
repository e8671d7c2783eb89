SPECIFICATION LiveSpec
CONSTANTS
    None = None
    NoLimit = NoLimit
    w1 = w1  w2 = w2  s1 = s1  id1 = id1  id2 = id2
    browser = browser  shell = shell  fetch = fetch
    net = net  root = root  fetchStep = fetchStep
    ExternalTools = {browser}
    ExternalAction = ExternalAction
    Workers = {w1, w2}
    Sessions = {s1}
    RequestIds = {id1, id2}
    MaxCrashes = 1
    Payloads <- BudgetPayloads
    Policy <- OnePolicy
    Artifact <- OneArtifact
    ArtifactId <- OneId
INVARIANTS
    BudgetRespected
    AnswersAgree
PROPERTIES
    NoGrantAfterStop
    ImplementsContract
    DenialsReachRegister
