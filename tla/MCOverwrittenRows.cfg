SPECIFICATION RowsSpec
CHECK_DEADLOCK FALSE
CONSTANTS
    w1 = w1  w2 = w2  inc = inc  rem = rem  n1 = n1
    s1 = s1  s2 = s2  sched = sched  sched2 = sched2  other = other
    a = a  b = b  g = g  h = h
    bot = bot  lead = lead  d1 = d1  d2 = d2  account = account
    Absent = Absent  Never = Never  Keep = Keep
    Handlers = {w1, w2}
    Incidents = {inc}
    Remediations = {rem}
    Notes = {n1}
    MaxNotes = 1
    Recreation = TRUE
    MaxSaves = 5
    Clients = {s1}
    Pollers = {s1, s2}
    Schedules = {sched}
    Plans <- EveryPlan
    Others = {}
    ListLimit = 100
    MaxHistory = 2
    Operations = {"create", "ACTIVE", "PAUSED", "DELETED", "mark", "execute"}
    MaxRuns = 2
    MaxTime = 2
    MaxCrashes = 1
    Ids = {a, b, g, h}
    Batches <- PostedBatches
    Window = 2
    Guarded = {g}
    Deletes = TRUE
    Failures = TRUE
    MaxSequence = 3
    Base <- Unassessed
    Context <- Internal
    Evaluations <- EveryEvaluation
    ProbeRuns <- MediumProbes
    Scans <- TwoScans
    Principals = {bot, lead}
    Delegations = {d1, d2}
    Accounts = {account}
    Terms <- MutualTerms
    Scopes <- NothingOrAll
    Requests <- ReadData
    LastDay = 1
    RegistrySaves = 4
    Budgets <- LowAndHigh
    Uses <- SomeUses
    Items = {d1, d2}
    Severities = {0, 2}
    Levels = {"CLEAN", "COMPROMISED"}
    RowSaves = 3
SYMMETRY Symmetry
INVARIANTS
    TrailIsLegal
    SchedulesCoherent
    IdentitiesHold
PROPERTIES
    LostOnlyToOverlap
    SessionsCoherent
    DecisionsStandOnEvidence
