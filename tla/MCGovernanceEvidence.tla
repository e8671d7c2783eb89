----------------------- MODULE MCGovernanceEvidence -----------------------
(* Two handlers and two pieces of evidence for one control that misses f    *)
(* and one of g and h; one person spelled two ways, and another one.        *)
EXTENDS GovernanceEvidence, TLC

CONSTANTS w1, w2, e1, e2, ctl, f, g, h, Bob, bob, carol

Symmetry == Permutations({w1, w2}) \cup Permutations({e1, e2})
FoldCase == Bob :> bob @@ bob :> bob @@ carol :> carol
Submissions == {{}, {f}, {g}, {f, h}}
TwoGaps == [c \in {ctl} |-> {{f}, {g, h}}]

Pieces == {id \in Ids : evidence[id] # Absent}

(* The two parts of the state space.  One piece of evidence, of one field,  *)
(* is raced for by both handlers as time passes.                            *)
Raced == /\ Cardinality(Pieces) <= 1
         /\ \A id \in Pieces : evidence[id].fields = {f}

(* Two pieces, of any fields, are reviewed and evaluated by one handler at  *)
(* a time before the clock moves; one of them may expire at once.           *)
Shared == /\ \A id \in Pieces : /\ evidence[id].by = bob
                                /\ evidence[id].expires \in {Never, 1}
          /\ Cardinality({w \in Workers : job[w] # Idle}) <= 1
          /\ now = 0

EitherPart == Raced \/ Shared
=============================================================================
