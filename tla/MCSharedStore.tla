--------------------------- MODULE MCSharedStore ---------------------------
(* Two handlers append to a ledger and rescan it; two threads, on one      *)
(* connection or on two, decide requests of a session with a budget of one *)
(* call; two importers and a recorder in a process each store feeds.       *)
EXTENDS SharedStore, TLC

CONSTANTS w1, w2, k1, k2, t1, t2, c1, c2, i1, i2, rec, c3, e1, x1, e2, r1, r2, row

OwnConnections == t1 :> c1 @@ t2 :> c2
OneConnection == t1 :> c1 @@ t2 :> c1
BothLayouts == {OneConnection, OwnConnections}
OwnProcesses == i1 :> c1 @@ i2 :> c2 @@ rec :> c3
TwoSequences == [e \in {e1, x1, e2} |-> IF e = e2 THEN 2 ELSE 1]
SomeCover == [e \in {e1, x1, e2} |-> IF e = e1 THEN {r1, r2} ELSE {r1}]
Symmetry == Permutations(Calls) \cup Permutations(Workers)

(* Decisions of two threads of one process.                                *)
OneProcessSpec == /\ StoreInit /\ stored = "sessions" /\ conn = OneConnection
                  /\ [][StoreNext]_<<stored, decisionVars, ledgerVars, feedVars>>
=============================================================================
