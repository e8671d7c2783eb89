SPECIFICATION Spec
CHECK_DEADLOCK FALSE
CONSTANTS
    w1 = w1  w2 = w2  p1 = p1  p2 = p2  host = host  mail = mail  net = net  other = other  another = another
    Absent = Absent  Deleted = Deleted  Unlisted = Unlisted  None = None
    Workers = {w1}
    Policies = {p1}
    Contents <- DenyPolicy
    Requests <- TwoRequests
    Others = {other, another}
    ListLimit = 2
    OwnLimit = 1
    EveryoneLimit = 1
    Window = 1
    MaxTime = 0
    MaxLogs = 2
    MaxEdits = 1
    Profile <- Agent
    ToolPolicies <- Rules
    Contexts <- Context
    Changes <- ChangeSet
    MaxChanges = 0
    MaxDecisions = 1
INVARIANT
    DenialsEnforced
