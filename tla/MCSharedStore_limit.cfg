SPECIFICATION OneProcessSpec
CONSTANTS
    w1 = w1  w2 = w2  k1 = k1  k2 = k2
    Workers = {w1, w2}
    Calls = {k1, k2}
    Scans = TRUE
    MaxEntries = 3
    RequestIds = {k1, k2}
    t1 = t1  t2 = t2  c1 = c1  c2 = c2
    NoTx = NoTx
    i1 = i1  i2 = i2  rec = rec  c3 = c3
    e1 = e1  x1 = x1  e2 = e2  r1 = r1  r2 = r2  row = row
    Absent = Absent
    Threads = {t1, t2}
    Connections = {c1, c2}
    Limit = 1
    Layouts <- BothLayouts
    Importers = {i1, i2}
    Recorders = {rec}
    FeedConnections = {c1, c2, c3}
    Conn <- OwnProcesses
    Envelopes = {e1, x1, e2}
    Records = {r1, r2}
    Rows = {row}
    Sequence <- TwoSequences
    Covers <- SomeCover
SYMMETRY Symmetry
INVARIANT
    CountersAtomic
