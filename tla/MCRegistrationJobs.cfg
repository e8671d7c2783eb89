SPECIFICATION LiveSpec
CHECK_DEADLOCK FALSE
CONSTANTS
    w1 = w1  w2 = w2  sched = sched  reg1 = reg1  risk = risk
    Absent = Absent  Keep = Keep
    Workers = {w1, w2}
    Risks = {risk}
    Changes <- Edits
    Schedules = {sched}
    Interval = 1
    MaxRuns = 2
    MaxTime = 1
    Jobs = {reg1}
    MaxRequests = 3
    MaxDeaths = 1
INVARIANTS
    RegisterSound
    ResolvedIsUnseen
    NothingUncounted
    SchedulesHold
    WorkTellsTheTruth
PROPERTY
    WorkEnds
