--------------------------- MODULE MCAdvisoryFeed ---------------------------
(* A publisher that moved from schema 1 to schema 2: e1, e2 and e3 are a   *)
(* schema-2 chain, x2 is a competing second feed, l2 and l3 are legacy     *)
(* feeds, and m3 continues l2 with schema 2.                               *)
EXTENDS AdvisoryFeed

CONSTANTS w1, w2, e1, e2, x2, e3, l2, l3, m3, r1, r2, model

SchemaOf == [e \in Envelopes |-> IF e \in {l2, l3} THEN 1 ELSE 2]
SequenceOf == [e \in Envelopes |-> CASE e = e1 -> 1
                                     [] e \in {e2, x2, l2} -> 2
                                     [] OTHER -> 3]
PreviousOf == [e \in Envelopes |-> CASE e \in {e2, x2} -> e1
                                     [] e = e3 -> e2
                                     [] e = m3 -> l2
                                     [] OTHER -> Absent]
CoversOf == [e \in Envelopes |-> IF e \in {e2, x2, l3} THEN {r1} ELSE Records]
=============================================================================
