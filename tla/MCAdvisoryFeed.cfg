SPECIFICATION Spec
CHECK_DEADLOCK FALSE
CONSTANTS
    w1 = w1  w2 = w2  r1 = r1  r2 = r2  model = model
    e1 = e1  e2 = e2  x2 = x2  e3 = e3  l2 = l2  l3 = l3  m3 = m3
    Manual = Manual  Absent = Absent
    Workers = {w1, w2}
    Envelopes = {e1, e2, x2, l2, l3, m3}
    Records = {r1, r2}
    Models = {model}
    Crashes = TRUE
    MaxAnswers = 3
    Schema <- SchemaOf
    Sequence <- SequenceOf
    Previous <- PreviousOf
    Covers <- CoversOf
INVARIANTS
    ChainLinked
    AnswersTrue
    ScansAreCurrent
PROPERTIES
    KeepsPromise
    NeverRolledBack
    GovernedCatalog
