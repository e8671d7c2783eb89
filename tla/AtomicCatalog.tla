--------------------------- MODULE AtomicCatalog ---------------------------
(***************************************************************************)
(* What the advisory store promises its readers (DataStore.transaction:    *)
(* "all-or-nothing"): a signed feed and all its advisories appear in one   *)
(* step, under a sequence nobody has; unsigned records appear one by one.  *)
(***************************************************************************)
CONSTANTS Envelopes, Records, Sequence, Covers, Manual, Absent

VARIABLES snapshots, catalog

catalogVars == <<snapshots, catalog>>

Init == snapshots = {} /\ catalog = [r \in Records |-> Absent]

Store(e) ==
    /\ \A f \in snapshots : Sequence[f] # Sequence[e]
    /\ snapshots' = snapshots \cup {e}
    /\ catalog' = [r \in Records |-> IF r \in Covers[e] THEN e ELSE catalog[r]]

Unsigned(r) == catalog' = [catalog EXCEPT ![r] = Manual] /\ UNCHANGED snapshots

Next == \/ \E e \in Envelopes : Store(e)
        \/ \E r \in Records : Unsigned(r)

Spec == Init /\ [][Next]_catalogVars
=============================================================================
