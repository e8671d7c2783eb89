SPECIFICATION Spec
CHECK_DEADLOCK FALSE
CONSTANTS
    w1 = w1  w2 = w2  p1 = p1  p2 = p2  host = host  mail = mail  net = net  other = other  another = another
    Absent = Absent  Deleted = Deleted  Unlisted = Unlisted  None = None
    Workers = {w1, w2}
    Policies = {p1, p2}
    Contents <- PolicySet
    Requests <- TwoRequests
    Others = {other}
    ListLimit = 3
    OwnLimit = 1
    EveryoneLimit = 1
    Window = 1
    MaxTime = 1
    MaxLogs = 2
    MaxEdits = 1
    Profile <- Agent
    ToolPolicies <- Rules
    Contexts <- Context
    Changes <- ChangeSet
    MaxChanges = 3
    MaxDecisions = 1
SYMMETRY Symmetry
CONSTRAINT EitherPart
INVARIANTS
    VerdictIsOrderless
    DenialsHold
    ContainmentHolds
