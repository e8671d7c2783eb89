SPECIFICATION Spec
CONSTANTS
    w1 = w1  w2 = w2  e1 = e1  e2 = e2  ctl = ctl  f = f  g = g  h = h
    Bob = Bob  bob = bob  carol = carol
    Absent = Absent  Never = Never
    Workers = {w1, w2}
    Ids = {e1, e2}
    Controls = {ctl}
    FieldSets <- Submissions
    Names = {Bob, bob, carol}
    Fold <- FoldCase
    Gaps <- TwoGaps
    TicksPerSecond = 2
    MaxTime = 3
SYMMETRY Symmetry
CONSTRAINT EitherPart
INVARIANTS
    ReviewsStand
    EvaluationsStand
PROPERTY
    ReviewedOnce
