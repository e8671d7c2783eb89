------------------------ MODULE EgressFirewallProofs ------------------------
(* For any number of handlers, policies, rows and requests: the verdict of *)
(* the policies does not depend on the order in which they are listed,     *)
(* their denials hold, and so does the containment of an agent.            *)
EXTENDS EgressFirewall, FiniteSetTheorems, SequenceTheorems, TLAPS

(* A list of policies says one thing of each.                              *)
Consistent(entries) ==
    /\ entries \in Seq(Entry)
    /\ \A i, k \in 1..Len(entries) : entries[i].id = entries[k].id => entries[i] = entries[k]

CallRecord ==
    [at : {"judge", "answer"}, request : Requests, listed : Seq(Entry), todo : Seq(Entry),
     verdict : Verdicts, through : BOOLEAN, over : SUBSET Policies, since : Nat,
     complete : SUBSET BOOLEAN, all : BOOLEAN, edited : SUBSET Policies]

(* How many policies have been asked; of them, one that enforces a denial, *)
(* one with conditions, and one in PASSTHROUGH mode.                       *)
Asked(c) == Len(c.listed) - Len(c.todo)
Refuses(c, e) == Enforcing(e.content) /\ (Denies(e.content, c.request) \/ e.id \in c.over)
Conditional(e) == e.content # Deleted /\ e.content.conditional
LetsThrough(e) == e.content # Deleted /\ ~Blocking(e.content)

(* What the loop of enforce_request knows when it has asked the first n.   *)
SaidBy(c, n) ==
    /\ c.over \subseteq {c.listed[i].id : i \in 1..n}
    /\ c.verdict = "DENY" <=> \E i \in 1..n : Refuses(c, c.listed[i])
    /\ c.verdict = "CONDITIONAL" => \E i \in 1..n : Conditional(c.listed[i])
    /\ c.verdict = "ALLOW" =>
          \A i \in 1..n : Enforcing(c.listed[i].content) => ~c.listed[i].content.conditional
    /\ c.through => \E i \in 1..n : LetsThrough(c.listed[i])

Rest(c) == /\ Len(c.todo) <= Len(c.listed)
           /\ \A i \in 1..Len(c.todo) : c.todo[i] = c.listed[Asked(c) + i]

Fair(c) ==
    IF c.through
    THEN c.verdict = "ALLOW" /\ \E i \in 1..Len(c.listed) : LetsThrough(c.listed[i])
    ELSE /\ c.verdict = "DENY" <=> \E i \in 1..Len(c.listed) : Refuses(c, c.listed[i])
         /\ c.verdict = "CONDITIONAL" =>
               /\ \E i \in 1..Len(c.listed) : Enforcing(c.listed[i].content)
               /\ \E i \in 1..Len(c.listed) : Conditional(c.listed[i])
         /\ c.verdict = "ALLOW" => \A i \in 1..Len(c.listed) :
               Enforcing(c.listed[i].content) => ~c.listed[i].content.conditional

CallSound(c) ==
    /\ c \in CallRecord /\ Consistent(c.listed)
    /\ c.at = "judge" => Rest(c) /\ SaidBy(c, Asked(c))
    /\ c.at = "answer" => Fair(c)

TableSound ==
    /\ policies \in [Policies -> Stored \cup {Absent}] /\ intended \in [Policies -> Stored \cup {Absent}]
    /\ rows \in Seq(Policies \cup Others \cup Log)
    /\ \A id \in Policies : policies[id] # Absent <=> \E i \in 1..Len(rows) : rows[i] = id
    /\ clobbered \subseteq Policies /\ now \in 0..MaxTime
    /\ call = [w \in Workers |-> call[w]]

(* A policy that no request saved back is as an operator wrote it.         *)
WrittenStands == \A id \in Policies \ clobbered : policies[id] = intended[id]

(* A request that saw all policies of a kind has listed what was not       *)
(* written since, as it is.                                                *)
Holds(c, id) == \E i \in 1..Len(c.listed) : c.listed[i] = [id |-> id, content |-> intended[id]]
Covered(c) ==
    c.all =>
        \A id \in Policies \ (c.edited \cup clobbered) :
            intended[id] \in Contents /\ intended[id].everyone \in c.complete => Holds(c, id)

CallsSound == \A w \in Workers : call[w] # NoCall => CallSound(call[w]) /\ Covered(call[w])

PepInv == TableSound /\ WrittenStands /\ CallsSound

-----------------------------------------------------------------------------
(* What is picked out of a list is what is at the positions, and nothing   *)
(* else (the filters of list_pep_policies and save_model).                 *)
LEMMA PickedIsTheRest ==
    ASSUME NEW S, NEW list \in Seq(S), NEW I \in SUBSET (1..Len(list))
    PROVE  /\ Picked(list, I) \in Seq(S)
           /\ Len(Picked(list, I)) = Cardinality(I)
           /\ \A i \in I : \E n \in 1..Len(Picked(list, I)) : Picked(list, I)[n] = list[i]
           /\ \A n \in 1..Len(Picked(list, I)) : \E i \in I : Picked(list, I)[n] = list[i]
<1> DEFINE upTo(i) == {j \in I : j <= i}
           size == Cardinality(I)
           rank == [i \in I |-> Cardinality(upTo(i))]
           at(n) == CHOOSE i \in I : Cardinality(upTo(i)) = n
<1>1. IsFiniteSet(I) /\ size \in Nat /\ \A i \in I : i \in Nat
  <2>1. Len(list) \in Nat /\ IsFiniteSet(1..Len(list))
    BY FS_Interval
  <2>2. IsFiniteSet(I)
    BY <2>1, FS_Subset
  <2>3. \A i \in I : i \in Nat
    BY <2>1
  <2> QED
    BY <2>2, <2>3, FS_CardinalityType
<1>2. \A i \in I : rank[i] \in 1..size
  <2> SUFFICES ASSUME NEW i \in I PROVE rank[i] \in 1..size
    OBVIOUS
  <2>1. i \in upTo(i) /\ upTo(i) \in SUBSET I /\ rank[i] = Cardinality(upTo(i))
    BY <1>1
  <2> HIDE DEF upTo, rank
  <2>2. IsFiniteSet(upTo(i)) /\ Cardinality(upTo(i)) <= size
    BY <1>1, <2>1, FS_Subset
  <2>3. Cardinality(upTo(i)) \in Nat
    BY <2>2, FS_CardinalityType
  <2>4. Cardinality(upTo(i)) # 0
    BY <2>1, <2>2, FS_EmptySet
  <2> QED
    BY <1>1, <2>1, <2>2, <2>3, <2>4
<1>3. ASSUME NEW i \in I, NEW k \in I, i < k PROVE rank[i] # rank[k]
  <2>1. k \in upTo(k) /\ k \notin upTo(i)
    BY <1>1, <1>3
  <2>0. upTo(i) \in SUBSET upTo(k)
    <3>1. ASSUME NEW j \in I, j <= i PROVE j <= k
      BY <1>1, <1>3, <3>1
    <3> QED
      BY <3>1
  <2>2. IsFiniteSet(upTo(k))
    <3>1. upTo(k) \subseteq I
      OBVIOUS
    <3> QED
      BY <1>1, <3>1, FS_Subset
  <2>3. Cardinality(upTo(i)) # Cardinality(upTo(k))
    <3> HIDE DEF upTo
    <3> QED
      BY <2>0, <2>1, <2>2, FS_Subset
  <2> QED
    BY <2>3
<1>4. \A i, k \in I : rank[i] = rank[k] => i = k
  BY <1>1, <1>3
<1>5. rank \in Injection(I, 1..size)
  BY <1>2, <1>4 DEF Injection, IsInjective
<1>6. rank \in Surjection(I, 1..size)
  <2>1. IsFiniteSet(1..size) /\ Cardinality(1..size) = size
    BY <1>1, FS_Interval
  <2> QED
    BY <1>5, <2>1, FS_Injection
<1>7. \A n \in 1..size : at(n) \in I /\ Cardinality(upTo(at(n))) = n
  <2>1. \A n \in 1..size : \E i \in I : rank[i] = n
    BY <1>6 DEF Surjection
  <2> QED
    BY <2>1
<1>8. \A i \in I : at(rank[i]) = i
  BY <1>2, <1>4, <1>7
<1>9. Picked(list, I) = [n \in 1..size |-> list[at(n)]]
  BY DEF Picked
<1>10. Picked(list, I) \in Seq(S) /\ Len(Picked(list, I)) = size
  <2>1. \A n \in 1..size : list[at(n)] \in S
    <3> HIDE DEF at, size, upTo
    <3> QED
      BY <1>7, ElementOfSeq
  <2> HIDE DEF at, size, upTo
  <2>2. Picked(list, I) \in [1..size -> S]
    BY <1>9, <2>1
  <2> QED
    BY <1>1, <2>2
<1> HIDE DEF at, size, upTo, rank
<1>11. \A i \in I : Picked(list, I)[rank[i]] = list[i]
  BY <1>2, <1>8, <1>9
<1>12. \A n \in 1..size : Picked(list, I)[n] = list[at(n)] /\ at(n) \in I
  BY <1>7, <1>9
<1> QED
  BY <1>2, <1>10, <1>11, <1>12 DEF size
-----------------------------------------------------------------------------
(* A list has the rows of the table, the newest first, and all of them     *)
(* when they fit.                                                          *)
LEMMA ListedIsNewest ==
    ASSUME NEW S, rows \in Seq(S)
    PROVE  /\ Listed \in Seq(S)
           /\ Len(rows) <= ListLimit =>
                 \A i \in 1..Len(rows) : \E k \in 1..Len(Listed) : Listed[k] = rows[i]
           /\ \A k \in 1..Len(Listed) : \E i \in 1..Len(rows) : Listed[k] = rows[i]
<1> DEFINE n == IF Len(rows) < ListLimit THEN Len(rows) ELSE ListLimit
<1>1. n \in Nat /\ n <= Len(rows) /\ Len(rows) \in Nat /\ (Len(rows) <= ListLimit => n = Len(rows))
  BY EnforcementAssumption
<1>2. Listed = [i \in 1..n |-> rows[Len(rows) + 1 - i]]
  BY DEF Listed
<1> HIDE DEF n
<1>3. \A i \in 1..n : Len(rows) + 1 - i \in 1..Len(rows)
  BY <1>1
<1>4. Listed \in Seq(S) /\ Len(Listed) = n
  BY <1>1, <1>2, <1>3
<1>5. ASSUME Len(rows) <= ListLimit, NEW i \in 1..Len(rows)
      PROVE  Listed[Len(rows) + 1 - i] = rows[i] /\ Len(rows) + 1 - i \in 1..n
  <2>1. Len(rows) + 1 - i \in 1..n /\ Len(rows) + 1 - (Len(rows) + 1 - i) = i
    BY <1>1, <1>5
  <2> QED
    BY <1>2, <2>1
<1> QED
  BY <1>2, <1>3, <1>4, <1>5

(* The policies that apply are consistent; they are all of their kind that *)
(* the operators wrote when neither list is cut short (list_pep_policies). *)
LEMMA EntriesAreStored ==
    ASSUME TableSound, NEW everyone \in BOOLEAN
    PROVE  LET entries == EntriesOf(everyone)
           IN /\ entries \in Seq(Entry)
              /\ \A i \in 1..Len(entries) : entries[i].content = policies[entries[i].id]
              /\ everyone \in SeenWhole =>
                    \A id \in Policies : policies[id] \in Contents /\ policies[id].everyone = everyone =>
                        \E i \in 1..Len(entries) : entries[i] = [id |-> id, content |-> policies[id]]
<1> DEFINE R == Policies \cup Others \cup Log
           I == {i \in 1..Len(Listed) : /\ Listed[i] \in Policies /\ policies[Listed[i]] # Deleted
                                        /\ policies[Listed[i]].everyone = everyone}
           found == Matching(everyone)
           n == IF Len(found) < LimitOf(everyone) THEN Len(found) ELSE LimitOf(everyone)
           entries == EntriesOf(everyone)
<1>1. /\ Listed \in Seq(R)
      /\ Len(rows) <= ListLimit =>
            \A i \in 1..Len(rows) : \E k \in 1..Len(Listed) : Listed[k] = rows[i]
      /\ \A k \in 1..Len(Listed) : \E i \in 1..Len(rows) : Listed[k] = rows[i]
  BY ListedIsNewest DEF TableSound
<1>2. /\ found \in Seq(R)
      /\ \A i \in I : \E k \in 1..Len(found) : found[k] = Listed[i]
      /\ \A k \in 1..Len(found) : \E i \in I : found[k] = Listed[i]
  <2>1. I \in SUBSET (1..Len(Listed)) /\ found = Picked(Listed, I)
    BY DEF Matching
  <2> HIDE DEF I, R, found
  <2> QED
    BY <1>1, <2>1, PickedIsTheRest
<1>3. entries = [i \in 1..n |-> [id |-> found[i], content |-> policies[found[i]]]]
  BY DEF EntriesOf
<1>4. \A k \in 1..Len(found) : found[k] \in Policies /\ policies[found[k]] \in Stored
  <2> SUFFICES ASSUME NEW k \in 1..Len(found)
               PROVE  found[k] \in Policies /\ policies[found[k]] \in Stored
    OBVIOUS
  <2>1. PICK i \in I : found[k] = Listed[i]
    BY <1>2
  <2>2. Listed[i] \in Policies /\ i \in 1..Len(Listed)
    OBVIOUS
  <2>3. PICK m \in 1..Len(rows) : rows[m] = Listed[i]
    BY <1>1, <2>2
  <2>4. policies[Listed[i]] # Absent
    BY <2>2, <2>3 DEF TableSound
  <2> QED
    BY <2>1, <2>2, <2>4 DEF TableSound
<1> HIDE DEF found, R
<1>5. /\ n \in Nat /\ n <= Len(found) /\ Len(found) \in Nat
      /\ everyone \in SeenWhole => Len(rows) <= ListLimit /\ n = Len(found)
  <2>1. LimitOf(everyone) \in Nat /\ Len(found) \in Nat
    BY <1>2, EnforcementAssumption DEF LimitOf
  <2>2. everyone \in SeenWhole => Len(rows) <= ListLimit /\ Len(found) <= LimitOf(everyone)
    BY DEF SeenWhole, found
  <2> QED
    BY <2>1, <2>2
<1> HIDE DEF n, entries
<1>6. entries \in Seq(Entry) /\ Len(entries) = n
  <2>1. entries \in [1..n -> Entry]
    BY <1>3, <1>4, <1>5 DEF Entry
  <2> QED
    BY <1>5, <2>1
<1>7. \A i \in 1..Len(entries) : entries[i].content = policies[entries[i].id]
  BY <1>3, <1>6
<1>8. ASSUME everyone \in SeenWhole,
             NEW id \in Policies, policies[id] \in Contents, policies[id].everyone = everyone
      PROVE  \E i \in 1..Len(entries) : entries[i] = [id |-> id, content |-> policies[id]]
  <2>1. policies[id] # Absent /\ policies[id] # Deleted
    BY <1>8, EnforcementAssumption
  <2>2. PICK i \in 1..Len(rows) : rows[i] = id
    BY <2>1 DEF TableSound
  <2>3. PICK k \in 1..Len(Listed) : Listed[k] = id
    BY <1>1, <1>5, <1>8, <2>2
  <2>4. k \in I
    BY <1>8, <2>1, <2>3
  <2>5. PICK m \in 1..Len(found) : found[m] = id
    BY <1>2, <2>3, <2>4
  <2> QED
    BY <1>3, <1>5, <1>6, <1>8, <2>5
<1> QED
  BY <1>6, <1>7, <1>8 DEF entries
-----------------------------------------------------------------------------
(* A row that is saved is in the table, with all that was there.           *)
LEMMA TouchedKeeps ==
    ASSUME NEW S, rows \in Seq(S), NEW row \in S
    PROVE  /\ Touched(row) \in Seq(S)
           /\ \A r : (\E i \in 1..Len(Touched(row)) : Touched(row)[i] = r)
                     <=> r = row \/ \E i \in 1..Len(rows) : rows[i] = r
<1> DEFINE I == {i \in 1..Len(rows) : rows[i] # row}
           kept == Picked(rows, I)
<1>1. /\ kept \in Seq(S)
      /\ \A i \in I : \E n \in 1..Len(kept) : kept[n] = rows[i]
      /\ \A n \in 1..Len(kept) : \E i \in I : kept[n] = rows[i]
  <2>1. I \in SUBSET (1..Len(rows))
    OBVIOUS
  <2> HIDE DEF I
  <2> QED
    BY <2>1, PickedIsTheRest
<1>2. Touched(row) = Append(kept, row)
  BY DEF Touched
<1>3. \A n \in 1..Len(kept) : \E i \in 1..Len(rows) : kept[n] = rows[i]
  BY <1>1
<1>4. \A i \in 1..Len(rows) : rows[i] = row \/ \E n \in 1..Len(kept) : kept[n] = rows[i]
  BY <1>1
<1> HIDE DEF kept
<1>5. /\ Touched(row) \in Seq(S) /\ Len(Touched(row)) = Len(kept) + 1 /\ Len(kept) \in Nat
      /\ Touched(row)[Len(kept) + 1] = row
      /\ \A n \in 1..Len(kept) : Touched(row)[n] = kept[n]
  BY <1>1, <1>2
<1>6. ASSUME NEW r
      PROVE  (\E i \in 1..Len(Touched(row)) : Touched(row)[i] = r)
                     <=> r = row \/ \E i \in 1..Len(rows) : rows[i] = r
  <2>1. ASSUME NEW i \in 1..Len(Touched(row)), Touched(row)[i] = r
        PROVE  r = row \/ \E k \in 1..Len(rows) : rows[k] = r
    <3>1. i = Len(kept) + 1 \/ i \in 1..Len(kept)
      BY <1>5
    <3> QED
      BY <1>3, <1>5, <2>1, <3>1
  <2>2. ASSUME r = row PROVE \E i \in 1..Len(Touched(row)) : Touched(row)[i] = r
    <3>1. Len(kept) + 1 \in 1..Len(Touched(row))
      BY <1>5
    <3> QED
      BY <1>5, <2>2, <3>1
  <2>3. ASSUME NEW k \in 1..Len(rows), rows[k] = r, r # row
        PROVE  \E i \in 1..Len(Touched(row)) : Touched(row)[i] = r
    <3>1. PICK n \in 1..Len(kept) : kept[n] = r
      BY <1>4, <2>3
    <3>2. n \in 1..Len(Touched(row))
      BY <1>5
    <3> QED
      BY <1>5, <3>1, <3>2
  <2> QED
    BY <2>1, <2>2, <2>3
<1> QED
  BY <1>5, <1>6

(* The lists that a request may go by are consistent, and the policies     *)
(* that apply are all there, of each kind that was seen whole              *)
(* (enforce_request).                                                      *)
LEMMA ListsAreConsistent ==
    ASSUME TableSound, NEW entries \in Lists
    PROVE  /\ Consistent(entries)
           /\ \A i \in 1..Len(entries) : entries[i].content = policies[entries[i].id]
           /\ entries = Applicable =>
                 \A id \in Policies :
                     policies[id] \in Contents /\ policies[id].everyone \in SeenWhole =>
                     \E i \in 1..Len(entries) : entries[i] = [id |-> id, content |-> policies[id]]
<1>1. /\ Applicable \in Seq(Entry)
      /\ \A i \in 1..Len(Applicable) : Applicable[i].content = policies[Applicable[i].id]
      /\ \A id \in Policies : policies[id] \in Contents /\ policies[id].everyone \in SeenWhole =>
            \E i \in 1..Len(Applicable) : Applicable[i] = [id |-> id, content |-> policies[id]]
  <2> DEFINE own == EntriesOf(FALSE)
             shared == EntriesOf(TRUE)
  <2>1. /\ own \in Seq(Entry) /\ \A i \in 1..Len(own) : own[i].content = policies[own[i].id]
        /\ FALSE \in SeenWhole =>
              \A id \in Policies : policies[id] \in Contents /\ policies[id].everyone = FALSE =>
                  \E i \in 1..Len(own) : own[i] = [id |-> id, content |-> policies[id]]
    BY EntriesAreStored
  <2>2. /\ shared \in Seq(Entry) /\ \A i \in 1..Len(shared) : shared[i].content = policies[shared[i].id]
        /\ TRUE \in SeenWhole =>
              \A id \in Policies : policies[id] \in Contents /\ policies[id].everyone = TRUE =>
                  \E i \in 1..Len(shared) : shared[i] = [id |-> id, content |-> policies[id]]
    BY EntriesAreStored
  <2>3. Applicable = own \o shared
    BY DEF Applicable
  <2> HIDE DEF own, shared
  <2>4. /\ Applicable \in Seq(Entry) /\ Len(Applicable) = Len(own) + Len(shared)
        /\ Len(own) \in Nat /\ Len(shared) \in Nat
        /\ \A i \in 1..Len(own) : Applicable[i] = own[i]
        /\ \A i \in 1..Len(shared) : Applicable[Len(own) + i] = shared[i]
    BY <2>1, <2>2, <2>3
  <2>5. ASSUME NEW i \in 1..Len(Applicable)
        PROVE  Applicable[i].content = policies[Applicable[i].id]
    <3>1. CASE i \in 1..Len(own)
      BY <2>1, <2>4, <3>1
    <3>2. CASE i \notin 1..Len(own)
      <4>1. i - Len(own) \in 1..Len(shared) /\ i = Len(own) + (i - Len(own))
        BY <2>4, <3>2
      <4>2. Applicable[i] = shared[i - Len(own)]
        BY <2>4, <4>1
      <4> QED
        BY <2>2, <4>1, <4>2
    <3> QED
      BY <3>1, <3>2
  <2>6. ASSUME NEW id \in Policies, policies[id] \in Contents, policies[id].everyone \in SeenWhole
        PROVE  \E i \in 1..Len(Applicable) : Applicable[i] = [id |-> id, content |-> policies[id]]
    <3>1. policies[id].everyone = TRUE \/ policies[id].everyone = FALSE
      BY <2>6, EnforcementAssumption
    <3>2. ASSUME policies[id].everyone = FALSE
          PROVE  \E i \in 1..Len(Applicable) : Applicable[i] = [id |-> id, content |-> policies[id]]
      <4>1. PICK i \in 1..Len(own) : own[i] = [id |-> id, content |-> policies[id]]
        BY <2>1, <2>6, <3>2
      <4>2. i \in 1..Len(Applicable)
        BY <2>4
      <4> QED
        BY <2>4, <4>1, <4>2
    <3>3. ASSUME policies[id].everyone = TRUE
          PROVE  \E i \in 1..Len(Applicable) : Applicable[i] = [id |-> id, content |-> policies[id]]
      <4>1. PICK i \in 1..Len(shared) : shared[i] = [id |-> id, content |-> policies[id]]
        BY <2>2, <2>6, <3>3
      <4>2. Len(own) + i \in 1..Len(Applicable)
        BY <2>4
      <4> QED
        BY <2>4, <4>1, <4>2
    <3> QED
      BY <3>1, <3>2, <3>3
  <2> QED
    BY <2>4, <2>5, <2>6
<1>2. ASSUME NEW id \in Policies, entries = Named(id)
      PROVE  /\ entries \in Seq(Entry)
             /\ \A i \in 1..Len(entries) : entries[i].content = policies[entries[i].id]
  <2>1. CASE policies[id] = Absent
    BY <1>2, <2>1 DEF Named
  <2>2. CASE policies[id] # Absent
    <3>1. [id |-> id, content |-> policies[id]] \in Entry
      BY <2>2 DEF TableSound, Entry
    <3>2. entries = <<[id |-> id, content |-> policies[id]]>>
      BY <1>2, <2>2 DEF Named
    <3> QED
      BY <3>1, <3>2
  <2> QED
    BY <2>1, <2>2
<1>3. entries \in Seq(Entry) /\ \A i \in 1..Len(entries) : entries[i].content = policies[entries[i].id]
  BY <1>1, <1>2 DEF Lists
<1>4. Consistent(entries)
  <2>1. ASSUME NEW i \in 1..Len(entries), NEW k \in 1..Len(entries), entries[i].id = entries[k].id
        PROVE  entries[i] = entries[k]
    <3>1. entries[i] \in Entry /\ entries[k] \in Entry
      BY <1>3, ElementOfSeq
    <3>2. entries[i].content = entries[k].content
      BY <1>3, <2>1
    <3> QED
      BY <2>1, <3>1, <3>2 DEF Entry
  <2> QED
    BY <1>3, <2>1 DEF Consistent
<1> QED
  BY <1>1, <1>3, <1>4

(* The next policy that the loop asks is the next of the list.             *)
LEMMA NextIsAsked ==
    ASSUME NEW c \in CallRecord, Rest(c), c.todo # <<>>
    PROVE  /\ Asked(c) \in Nat /\ Asked(c) + 1 \in 1..Len(c.listed)
           /\ Head(c.todo) = c.listed[Asked(c) + 1] /\ Head(c.todo) \in Entry
           /\ Tail(c.todo) \in Seq(Entry) /\ Len(Tail(c.todo)) = Len(c.todo) - 1
           /\ \A i \in 1..Len(Tail(c.todo)) : Tail(c.todo)[i] = c.listed[Asked(c) + 1 + i]
<1> DEFINE n == Len(c.listed)
           m == Len(c.todo)
<1>0. c.listed \in Seq(Entry) /\ c.todo \in Seq(Entry)
  BY DEF CallRecord
<1>1. /\ m <= n /\ n \in Nat /\ m \in Nat /\ m > 0 /\ Asked(c) = n - m
      /\ \A i \in 1..Len(c.todo) : c.todo[i] = c.listed[Asked(c) + i]
  <2>1. n \in Nat /\ m \in Nat /\ m > 0
    BY <1>0
  <2>2. m <= n /\ \A i \in 1..Len(c.todo) : c.todo[i] = c.listed[Asked(c) + i]
    BY DEF Rest
  <2>3. Asked(c) = n - m
    BY DEF Asked
  <2> QED
    BY <2>1, <2>2, <2>3
<1>2. Asked(c) \in Nat /\ Asked(c) + 1 \in 1..n
  <2> HIDE DEF n, m
  <2> QED
    BY <1>1
<1>3. Head(c.todo) = c.todo[1] /\ 1 \in 1..Len(c.todo)
  BY <1>0, <1>1
<1>4. Head(c.todo) = c.listed[Asked(c) + 1] /\ Head(c.todo) \in Entry
  BY <1>0, <1>1, <1>3, ElementOfSeq
<1>5. /\ Tail(c.todo) \in Seq(Entry) /\ Len(Tail(c.todo)) = Len(c.todo) - 1
      /\ \A i \in 1..Len(Tail(c.todo)) : Tail(c.todo)[i] = c.todo[i + 1]
  BY <1>0, <1>1, HeadTailProperties
<1>6. ASSUME NEW i \in 1..Len(Tail(c.todo)) PROVE Tail(c.todo)[i] = c.listed[Asked(c) + 1 + i]
  <2>1. i + 1 \in 1..Len(c.todo) /\ Asked(c) + 1 + i = Asked(c) + (i + 1)
    <3> HIDE DEF m, n
    <3> QED
      BY <1>1, <1>2, <1>5 DEF m
  <2> QED
    BY <1>1, <1>5, <2>1
<1> QED
  BY <1>2, <1>4, <1>5, <1>6

(* An enforced policy that is over its limit has denied already.           *)
LEMMA OverHasDenied ==
    ASSUME NEW c \in CallRecord, Consistent(c.listed), Rest(c), SaidBy(c, Asked(c)), c.todo # <<>>,
           Head(c.todo).id \in c.over, Enforcing(Head(c.todo).content)
    PROVE  c.verdict = "DENY"
<1>1. Asked(c) \in Nat /\ Asked(c) + 1 \in 1..Len(c.listed) /\ Head(c.todo) = c.listed[Asked(c) + 1]
  BY NextIsAsked
<1>2. PICK i \in 1..Asked(c) : c.listed[i].id = Head(c.todo).id
  BY DEF SaidBy
<1>3. i \in 1..Len(c.listed)
  BY <1>1
<1>4. c.listed[i] = Head(c.todo)
  BY <1>1, <1>2, <1>3 DEF Consistent
<1>5. Refuses(c, c.listed[i])
  BY <1>4 DEF Refuses
<1> QED
  BY <1>5 DEF SaidBy

(* What the loop knows, it still knows after it has asked one policy more. *)
LEMMA OneMoreAsked ==
    ASSUME NEW c, CallSound(c), c.at = "judge", c.todo # <<>>,
           NEW over \in {c.over, c.over \cup {Head(c.todo).id}},
           NEW verdict \in Verdicts, NEW through \in BOOLEAN,
           verdict = "DENY" <=> \/ c.verdict = "DENY"
                                \/ /\ Enforcing(Head(c.todo).content)
                                   /\ Denies(Head(c.todo).content, c.request) \/ Head(c.todo).id \in over,
           verdict = "CONDITIONAL" => c.verdict = "CONDITIONAL" \/ Conditional(Head(c.todo)),
           verdict = "ALLOW" =>
               /\ c.verdict = "ALLOW"
               /\ Enforcing(Head(c.todo).content) => ~Head(c.todo).content.conditional,
           through => c.through \/ LetsThrough(Head(c.todo))
    PROVE  CallSound([c EXCEPT !.todo = Tail(@), !.over = over, !.verdict = verdict, !.through = through])
<1> DEFINE e == Head(c.todo)
           n == Asked(c)
           list == c.listed
           d == [c EXCEPT !.todo = Tail(@), !.over = over, !.verdict = verdict, !.through = through]
<1>1. c \in CallRecord /\ Consistent(list) /\ Rest(c) /\ SaidBy(c, n)
  BY DEF CallSound
<1>2. /\ n \in Nat /\ n + 1 \in 1..Len(list) /\ e = list[n + 1] /\ e \in Entry
      /\ Tail(c.todo) \in Seq(Entry) /\ Len(Tail(c.todo)) = Len(c.todo) - 1
      /\ \A i \in 1..Len(Tail(c.todo)) : Tail(c.todo)[i] = list[n + 1 + i]
  BY <1>1, NextIsAsked
<1>3. c.over \in SUBSET Policies /\ over \in SUBSET Policies
  BY <1>1, <1>2 DEF CallRecord, Entry
<1>4. /\ d \in CallRecord /\ d.listed = list /\ d.todo = Tail(c.todo) /\ d.over = over
      /\ d.verdict = verdict /\ d.through = through /\ d.at = "judge" /\ d.request = c.request
  BY <1>1, <1>2, <1>3 DEF CallRecord
<1>5. Asked(d) = n + 1
  <2>1. Len(list) \in Nat /\ Len(c.todo) \in Nat
    BY <1>1 DEF CallRecord
  <2>2. Asked(d) = Len(list) - (Len(c.todo) - 1) /\ n = Len(list) - Len(c.todo)
    BY <1>2, <1>4 DEF Asked
  <2> QED
    BY <2>1, <2>2
<1>6. Rest(d)
  <2>1. Len(c.todo) <= Len(list) /\ Len(list) \in Nat /\ Len(c.todo) \in Nat
    BY <1>1 DEF CallRecord, Rest
  <2>2. Len(d.todo) <= Len(d.listed)
    BY <1>2, <1>4, <2>1
  <2> QED
    BY <1>2, <1>4, <1>5, <2>2 DEF Rest
<1> HIDE DEF d, e, n, list
<1>7. 1..n + 1 = (1..n) \cup {n + 1} /\ 1..n \subseteq 1..Len(list)
  BY <1>2
<1>8. SaidBy(d, n + 1)
  <2>1. over \subseteq {list[i].id : i \in 1..n + 1}
    BY <1>1, <1>2, <1>7 DEF SaidBy, e, list
  <2>2. verdict = "DENY" <=> \E i \in 1..n + 1 : Refuses(d, list[i])
    <3>1. \A x : Refuses(d, x) <=> Enforcing(x.content) /\ (Denies(x.content, c.request) \/ x.id \in over)
      BY <1>4 DEF Refuses
    <3>2. \A x : Refuses(c, x) => Refuses(d, x)
      BY <3>1 DEF Refuses
    <3>3. c.verdict = "DENY" <=> \E i \in 1..n : Refuses(c, list[i])
      BY <1>1 DEF SaidBy, list
    <3>4. ASSUME verdict = "DENY" PROVE \E i \in 1..n + 1 : Refuses(d, list[i])
      <4>1. CASE c.verdict = "DENY"
        BY <1>7, <3>2, <3>3, <4>1
      <4>2. CASE Refuses(d, e)
        BY <1>2, <1>7, <4>2
      <4> QED
        BY <3>1, <3>4, <4>1, <4>2 DEF e
    <3>5. ASSUME NEW i \in 1..n + 1, Refuses(d, list[i]) PROVE verdict = "DENY"
      <4>1. CASE list[i] = e
        BY <3>1, <3>5, <4>1 DEF e
      <4>2. CASE list[i] # e
        <5>1. i \in 1..n /\ i \in 1..Len(list)
          BY <1>2, <1>7, <4>2
        <5>2. list[i].id # e.id
          BY <1>1, <1>2, <4>2, <5>1 DEF Consistent
        <5>3. Refuses(c, list[i])
          BY <3>1, <3>5, <5>2 DEF Refuses, e
        <5> QED
          BY <3>3, <5>1, <5>3
      <4> QED
        BY <4>1, <4>2
    <3> QED
      BY <3>4, <3>5
  <2>3. verdict = "CONDITIONAL" => \E i \in 1..n + 1 : Conditional(list[i])
    BY <1>1, <1>2, <1>7 DEF SaidBy, e, list
  <2>4. verdict = "ALLOW" =>
            \A i \in 1..n + 1 : Enforcing(list[i].content) => ~list[i].content.conditional
    BY <1>1, <1>2, <1>7 DEF SaidBy, e, list
  <2>5. through => \E i \in 1..n + 1 : LetsThrough(list[i])
    BY <1>1, <1>2, <1>7 DEF SaidBy, e, list
  <2> QED
    BY <1>4, <2>1, <2>2, <2>3, <2>4, <2>5 DEF SaidBy
<1> QED
  BY <1>1, <1>4, <1>5, <1>6, <1>8 DEF CallSound, d

(* The loop may end with a denial.                                         *)
LEMMA MayEndDenied ==
    ASSUME NEW c, CallSound(c), c.at = "judge", c.verdict = "DENY"
    PROVE  CallSound([c EXCEPT !.todo = <<>>])
<1> DEFINE d == [c EXCEPT !.todo = <<>>]
           n == Asked(c)
<1>1. c \in CallRecord /\ Consistent(c.listed) /\ Rest(c) /\ SaidBy(c, n)
  BY DEF CallSound
<1>2. /\ d \in CallRecord /\ d.listed = c.listed /\ d.todo = <<>> /\ d.over = c.over /\ d.at = "judge"
      /\ d.verdict = "DENY" /\ d.through = c.through /\ d.request = c.request
  <2>1. <<>> \in Seq(Entry)
    OBVIOUS
  <2> QED
    BY <1>1, <2>1 DEF CallRecord
<1>3. Len(c.listed) \in Nat /\ Len(c.todo) \in Nat /\ Len(c.todo) <= Len(c.listed)
  BY <1>1 DEF CallRecord, Rest
<1>4. Asked(d) = Len(c.listed) /\ 1..n \subseteq 1..Asked(d)
  <2> DEFINE size == Len(c.listed)
             left == Len(c.todo)
  <2>1. Asked(d) = size /\ n = size - left
    BY <1>2, <1>3 DEF Asked
  <2> HIDE DEF size, left
  <2>2. size \in Nat /\ left \in Nat /\ left <= size
    BY <1>3 DEF size, left
  <2>3. \A i \in 1..n : i \in 1..size
    <3> HIDE DEF n
    <3> QED
      BY <2>1, <2>2
  <2> QED
    BY <2>1, <2>3 DEF size
<1>5. Rest(d)
  BY <1>2, <1>3, <1>4 DEF Rest
<1>6. \A x : Refuses(c, x) => Refuses(d, x)
  BY <1>2 DEF Refuses
<1> HIDE DEF d, n
<1>7. SaidBy(d, Asked(d))
  <2>1. \E i \in 1..Asked(d) : Refuses(d, d.listed[i])
    BY <1>1, <1>2, <1>4, <1>6 DEF SaidBy
  <2>2. d.over \subseteq {d.listed[i].id : i \in 1..Asked(d)}
    BY <1>1, <1>2, <1>4 DEF SaidBy
  <2>3. d.through => \E i \in 1..Asked(d) : LetsThrough(d.listed[i])
    BY <1>1, <1>2, <1>4 DEF SaidBy
  <2> QED
    BY <1>2, <2>1, <2>2, <2>3 DEF SaidBy
<1> QED
  BY <1>1, <1>2, <1>5, <1>7 DEF CallSound, d

(* The modes of the policies leave a fair verdict.                         *)
LEMMA EffectiveIsFair ==
    ASSUME NEW c, CallSound(c), c.at = "judge", c.todo = <<>>
    PROVE  CallSound([c EXCEPT !.at = "answer", !.verdict = Effective(c)])
<1> DEFINE d == [c EXCEPT !.at = "answer", !.verdict = Effective(c)]
           size == Len(c.listed)
<1>1. c \in CallRecord /\ Consistent(c.listed) /\ SaidBy(c, Asked(c))
  BY DEF CallSound
<1>2. size \in Nat /\ Asked(c) = size
  <2>1. size \in Nat /\ Len(c.todo) = 0
    BY <1>1 DEF CallRecord
  <2> QED
    BY <2>1 DEF Asked
<1>3. Effective(c) \in Verdicts
  BY <1>1 DEF Effective, CallRecord, Verdicts
<1>4. /\ d \in CallRecord /\ d.listed = c.listed /\ d.over = c.over /\ d.at = "answer"
      /\ d.verdict = Effective(c) /\ d.through = c.through /\ d.request = c.request
  BY <1>1, <1>3 DEF CallRecord
<1>5. \A x : Refuses(d, x) <=> Refuses(c, x)
  BY <1>4 DEF Refuses
<1> HIDE DEF d
<1>6. CASE c.through
  <2>1. \E i \in 1..size : LetsThrough(c.listed[i])
    BY <1>1, <1>2, <1>6 DEF SaidBy
  <2>2. Fair(d)
    BY <1>4, <1>6, <2>1 DEF Fair, Effective
  <2> QED
    BY <1>1, <1>4, <2>2 DEF CallSound, d
<1>7. CASE ~c.through /\ \A i \in 1..size : ~Enforcing(c.listed[i].content)
  <2>1. d.verdict = "ALLOW" /\ \A i \in 1..size : ~Refuses(d, d.listed[i])
    BY <1>4, <1>7 DEF Effective, Refuses
  <2>2. Fair(d)
    BY <1>4, <1>7, <2>1 DEF Fair
  <2> QED
    BY <1>1, <1>4, <2>2 DEF CallSound, d
<1>8. CASE ~c.through /\ \E i \in 1..size : Enforcing(c.listed[i].content)
  <2>1. d.verdict = c.verdict
    BY <1>4, <1>8 DEF Effective
  <2>2. Fair(d)
    BY <1>1, <1>2, <1>4, <1>5, <1>8, <2>1 DEF Fair, SaidBy
  <2> QED
    BY <1>1, <1>4, <2>2 DEF CallSound, d
<1> QED
  BY <1>6, <1>7, <1>8

(* A request starts with all of its policies to be asked.                  *)
NewCall(q, entries) ==
    [at |-> IF entries = <<>> THEN "answer" ELSE "judge", request |-> q,
     listed |-> entries, todo |-> entries, verdict |-> "ALLOW", through |-> FALSE,
     over |-> {}, since |-> now, complete |-> SeenWhole,
     all |-> entries = Applicable, edited |-> {}]

LEMMA NewCallIsSound ==
    ASSUME TableSound, NEW q \in Requests, NEW entries \in Lists
    PROVE  CallSound(NewCall(q, entries)) /\ (WrittenStands => Covered(NewCall(q, entries)))
<1> DEFINE c == NewCall(q, entries)
<1>1. /\ Consistent(entries) /\ entries \in Seq(Entry) /\ Len(entries) \in Nat
      /\ entries = Applicable =>
            \A id \in Policies : policies[id] \in Contents /\ policies[id].everyone \in SeenWhole =>
                \E i \in 1..Len(entries) : entries[i] = [id |-> id, content |-> policies[id]]
  BY ListsAreConsistent DEF Consistent
<1>2. c \in CallRecord
  <2>1. SeenWhole \in SUBSET BOOLEAN
    BY DEF SeenWhole
  <2> QED
    BY <1>1, <2>1, EnforcementAssumption DEF CallRecord, NewCall, TableSound, Verdicts
<1>3. /\ c.listed = entries /\ c.todo = entries /\ c.verdict = "ALLOW" /\ c.through = FALSE /\ c.over = {}
      /\ c.at = IF entries = <<>> THEN "answer" ELSE "judge"
      /\ c.all = (entries = Applicable) /\ c.complete = SeenWhole /\ c.edited = {}
  BY DEF NewCall
<1> HIDE DEF c
<1>4. Asked(c) = 0 /\ 1..0 = {}
  BY <1>1, <1>3 DEF Asked
<1>5. SaidBy(c, 0)
  BY <1>3, <1>4 DEF SaidBy
<1>6. Rest(c)
  BY <1>1, <1>3, <1>4 DEF Rest
<1>7. entries = <<>> => Fair(c)
  <2>1. entries = <<>> => 1..Len(entries) = {}
    OBVIOUS
  <2> QED
    BY <1>3, <2>1 DEF Fair
<1>8. CallSound(c)
  BY <1>1, <1>2, <1>3, <1>4, <1>5, <1>6, <1>7 DEF CallSound
<1>9. WrittenStands => Covered(c)
  <2> SUFFICES ASSUME WrittenStands, c.all,
                      NEW id \in Policies \ (c.edited \cup clobbered),
                      intended[id] \in Contents, intended[id].everyone \in c.complete
               PROVE  Holds(c, id)
    BY DEF Covered
  <2>1. policies[id] = intended[id] /\ id \in Policies
    BY DEF WrittenStands
  <2>2. entries = Applicable /\ policies[id].everyone \in SeenWhole
    BY <1>3, <2>1
  <2>3. \E i \in 1..Len(entries) : entries[i] = [id |-> id, content |-> policies[id]]
    BY <1>1, <2>1, <2>2
  <2> QED
    BY <1>3, <2>1, <2>3 DEF Holds
<1> QED
  BY <1>8, <1>9 DEF c

(* What operators write while a request is under way is noted, no more.    *)
LEMMA NotingEditsIsSound ==
    ASSUME NEW c, CallSound(c), NEW id \in Policies
    PROVE  CallSound([c EXCEPT !.edited = @ \cup {id}])
<1> DEFINE d == [c EXCEPT !.edited = @ \cup {id}]
<1>1. c \in CallRecord
  BY DEF CallSound
<1>2. /\ d \in CallRecord /\ d.listed = c.listed /\ d.todo = c.todo /\ d.over = c.over /\ d.at = c.at
      /\ d.verdict = c.verdict /\ d.through = c.through /\ d.request = c.request
  BY <1>1 DEF CallRecord
<1> HIDE DEF d
<1>3. (\A x : Refuses(d, x) <=> Refuses(c, x)) /\ Asked(d) = Asked(c) /\ (Rest(c) => Rest(d))
  BY <1>2 DEF Refuses, Asked, Rest
<1>4. \A n : SaidBy(c, n) => SaidBy(d, n)
  BY <1>2, <1>3 DEF SaidBy
<1>5. Fair(c) => Fair(d)
  BY <1>2, <1>3 DEF Fair
<1> QED
  BY <1>2, <1>3, <1>4, <1>5 DEF CallSound, d

-----------------------------------------------------------------------------
(* The table holds the policies that were there, each once.                *)
LEMMA PepStartsSound == PepInit => PepInv
<1> SUFFICES ASSUME PepInit PROVE PepInv
  OBVIOUS
<1> DEFINE there == {id \in Policies : policies[id] # Absent}
           size == Cardinality(there)
<1>1. IsFiniteSet(there) /\ size \in Nat
  <2>1. IsFiniteSet(there)
    BY EnforcementAssumption, FS_Subset
  <2> QED
    BY <2>1, FS_CardinalityType
<1>2. rows \in [1..size -> there] /\ \A i, k \in 1..size : i # k => rows[i] # rows[k]
  BY DEF PepInit, SetToSeqs
<1> HIDE DEF size, there
<1>3. rows \in Injection(1..size, there)
  BY <1>2 DEF Injection, IsInjective
<1>4. rows \in Surjection(1..size, there)
  <2>1. Cardinality(1..size) = size
    BY <1>1, FS_Interval
  <2> QED
    BY <1>1, <1>3, <2>1, FS_Injection DEF size
<1>5. rows \in Seq(Policies \cup Others \cup Log) /\ Len(rows) = size
  BY <1>1, <1>2 DEF there
<1>6. \A id \in Policies : policies[id] # Absent <=> \E i \in 1..Len(rows) : rows[i] = id
  <2>1. \A id \in there : \E i \in 1..size : rows[i] = id
    BY <1>4 DEF Surjection
  <2>2. \A i \in 1..size : rows[i] \in there
    BY <1>2
  <2> QED
    BY <1>5, <2>1, <2>2 DEF there
<1>7. TableSound
  BY <1>5, <1>6, EnforcementAssumption DEF PepInit, TableSound, Stored
<1>8. WrittenStands /\ CallsSound
  BY DEF PepInit, WrittenStands, CallsSound
<1> QED
  BY <1>7, <1>8 DEF PepInv

(* What a request has listed stays true of what nobody has written since.  *)
LEMMA CoveredStays ==
    ASSUME NEW c, NEW d, Covered(c), intended' = intended, clobbered \subseteq clobbered',
           d.listed = c.listed, d.all = c.all, d.complete = c.complete, d.edited = c.edited
    PROVE  Covered(d)'
<1> SUFFICES ASSUME c.all, NEW id \in Policies \ (c.edited \cup clobbered'),
                    intended[id] \in Contents, intended[id].everyone \in c.complete
             PROVE  Holds(c, id)
  BY DEF Covered, Holds
<1> QED
  BY DEF Covered

(* One request goes on while the others wait.                              *)
LEMMA OneCallMoves ==
    ASSUME CallsSound, call = [v \in Workers |-> call[v]], NEW w \in Workers, NEW d,
           call' = [call EXCEPT ![w] = d], intended' = intended, clobbered \subseteq clobbered',
           d # NoCall => CallSound(d) /\ Covered(d)'
    PROVE  CallsSound' /\ call' = [v \in Workers |-> call'[v]]
<1>1. ASSUME NEW v \in Workers, call'[v] # NoCall
      PROVE  CallSound(call'[v]) /\ Covered(call[v])'
  <2>1. CASE v = w
    <3>1. call'[v] = d
      BY <2>1
    <3>2. Covered(call[v])'
      BY <1>1, <3>1 DEF Covered, Holds
    <3> QED
      BY <1>1, <3>1, <3>2
  <2>2. CASE v # w
    <3>1. call'[v] = call[v]
      BY <2>2
    <3>2. CallSound(call[v]) /\ Covered(call[v])
      BY <1>1, <3>1 DEF CallsSound
    <3>3. PICK c : c = call[v]
      OBVIOUS
    <3>4. Covered(c)'
      BY <3>2, <3>3, CoveredStays
    <3>5. Covered(call[v])'
      BY <3>1, <3>3, <3>4 DEF Covered, Holds
    <3> QED
      BY <3>1, <3>2, <3>5
  <2> QED
    BY <2>1, <2>2
<1>2. call' = [v \in Workers |-> call'[v]]
  OBVIOUS
<1> QED
  BY <1>1, <1>2 DEF CallsSound

LEMMA EnforceKeeps ==
    ASSUME PepInv, NEW w \in Workers, NEW q \in Requests, NEW entries \in Lists, Enforce(w, q, entries)
    PROVE  PepInv'
<1>1. PICK c : c = NewCall(q, entries)
  OBVIOUS
<1>2. /\ call' = [call EXCEPT ![w] = c]
      /\ UNCHANGED <<policies, rows, now, intended, clobbered>>
  BY <1>1 DEF Enforce, PepGoto, NewCall
<1>3. CallSound(c) /\ Covered(c)
  BY <1>1, NewCallIsSound DEF PepInv
<1>4. Covered(c)'
  BY <1>2, <1>3, CoveredStays
<1>5. CallsSound' /\ call' = [v \in Workers |-> call'[v]]
  BY <1>2, <1>3, <1>4, OneCallMoves DEF PepInv, TableSound
<1>6. TableSound' /\ WrittenStands'
  BY <1>2, <1>5 DEF PepInv, TableSound, WrittenStands
<1> QED
  BY <1>5, <1>6 DEF PepInv

(* A request goes on to d, and leaves the table as it is.                  *)
LEMMA LoopStepKeeps ==
    ASSUME PepInv, NEW w \in Workers, NEW d, call[w] # NoCall,
           call' = [call EXCEPT ![w] = d], UNCHANGED <<policies, rows, now, intended, clobbered>>,
           CallSound(d), d.listed = call[w].listed, d.all = call[w].all,
           d.complete = call[w].complete, d.edited = call[w].edited
    PROVE  PepInv'
<1>1. Covered(call[w])
  BY DEF PepInv, CallsSound
<1>2. Covered(d)'
  <2>1. PICK c : c = call[w]
    OBVIOUS
  <2> QED
    BY <1>1, <2>1, CoveredStays
<1>3. CallsSound' /\ call' = [v \in Workers |-> call'[v]]
  BY <1>2, OneCallMoves DEF PepInv, TableSound
<1>4. TableSound' /\ WrittenStands'
  BY <1>3 DEF PepInv, TableSound, WrittenStands
<1> QED
  BY <1>3, <1>4 DEF PepInv

(* What is known of the call that a step of the loop goes on with.         *)
LEMMA CallInLoop ==
    ASSUME PepInv, NEW w \in Workers, call[w].at = "judge"
    PROVE  /\ call[w] # NoCall /\ CallSound(call[w]) /\ call[w] \in CallRecord
           /\ call[w].todo # <<>> => Head(call[w].todo) \in Entry
<1>1. call[w] # NoCall /\ CallSound(call[w])
  BY DEF PepInv, CallsSound, NoCall
<1>2. call[w] \in CallRecord /\ Rest(call[w])
  BY <1>1 DEF CallSound
<1> QED
  BY <1>1, <1>2, NextIsAsked

LEMMA SkipKeeps ==
    ASSUME PepInv, NEW w \in Workers, Skip(w)
    PROVE  PepInv'
<1>1. PICK c : c = call[w]
  OBVIOUS
<1> DEFINE e == Head(c.todo)
           passed == c.through \/ e.content # Deleted
           d == [c EXCEPT !.todo = Tail(@), !.over = c.over, !.verdict = c.verdict, !.through = passed]
<1>2. /\ c # NoCall /\ CallSound(c) /\ c \in CallRecord /\ c.at = "judge"
      /\ c.todo # <<>> /\ e \in Entry /\ ~Blocking(e.content)
  BY <1>1, CallInLoop DEF Skip
<1>3. c.verdict \in Verdicts /\ passed \in BOOLEAN
  BY <1>2 DEF CallRecord
<1>4. ~Enforcing(e.content)
  BY <1>2 DEF Enforcing, Blocking
<1>5. passed => c.through \/ LetsThrough(e)
  BY <1>2 DEF LetsThrough
<1>6. CallSound(d)
  BY <1>2, <1>3, <1>4, <1>5, OneMoreAsked
<1>7. d = [c EXCEPT !.todo = Tail(@), !.through = @ \/ Head(c.todo).content # Deleted]
  BY <1>2 DEF CallRecord
<1>8. call' = [call EXCEPT ![w] = d] /\ UNCHANGED <<policies, rows, now, intended, clobbered>>
  BY <1>1, <1>7 DEF Skip, PepGoto
<1>9. d.listed = c.listed /\ d.all = c.all /\ d.complete = c.complete /\ d.edited = c.edited
  BY <1>2 DEF CallRecord
<1> HIDE DEF d
<1> QED
  BY <1>1, <1>2, <1>6, <1>8, <1>9, LoopStepKeeps

LEMMA ExceedRateKeeps ==
    ASSUME PepInv, NEW w \in Workers, ExceedRate(w)
    PROVE  PepInv'
<1>1. PICK c : c = call[w]
  OBVIOUS
<1> DEFINE e == Head(c.todo)
           v == Judged(e.content, c.request, TRUE, c.verdict)
           over == c.over \cup {e.id}
           d == [c EXCEPT !.todo = Tail(@), !.over = over, !.verdict = v, !.through = c.through]
<1>2. /\ c # NoCall /\ CallSound(c) /\ c \in CallRecord /\ c.at = "judge"
      /\ c.todo # <<>> /\ e \in Entry
  BY <1>1, CallInLoop DEF ExceedRate
<1>3. v = IF Enforcing(e.content) THEN "DENY" ELSE c.verdict
  BY DEF Judged
<1>4. c.verdict \in Verdicts /\ c.through \in BOOLEAN
  BY <1>2 DEF CallRecord
<1>5. v \in Verdicts
  BY <1>3, <1>4 DEF Verdicts
<1>6. v = "DENY" <=> \/ c.verdict = "DENY"
                     \/ Enforcing(e.content) /\ (Denies(e.content, c.request) \/ e.id \in over)
  BY <1>3
<1>7. /\ v = "CONDITIONAL" => c.verdict = "CONDITIONAL"
      /\ v = "ALLOW" => c.verdict = "ALLOW" /\ ~Enforcing(e.content)
  BY <1>3
<1>8. CallSound(d)
  <2> HIDE DEF v
  <2> QED
    BY <1>2, <1>4, <1>5, <1>6, <1>7, OneMoreAsked
<1>9. d = [c EXCEPT !.todo = Tail(@), !.over = @ \cup {e.id},
                    !.verdict = Judged(e.content, c.request, TRUE, @)]
  BY <1>2 DEF CallRecord
<1>10. call' = [call EXCEPT ![w] = d] /\ UNCHANGED <<policies, rows, now, intended, clobbered>>
  BY <1>1, <1>9 DEF ExceedRate, PepGoto
<1>11. d.listed = c.listed /\ d.all = c.all /\ d.complete = c.complete /\ d.edited = c.edited
  BY <1>2 DEF CallRecord
<1> HIDE DEF d
<1> QED
  BY <1>1, <1>2, <1>8, <1>10, <1>11, LoopStepKeeps

(* A policy that has judged is saved as it was listed, which a request     *)
(* that listed it before an operator wrote it makes an older one.          *)
LEMMA SavedBackIsNoted ==
    ASSUME TableSound, WrittenStands, NEW e \in Entry,
           policies' = [policies EXCEPT ![e.id] = e.content], rows' = Touched(e.id),
           clobbered' = IF policies[e.id] # e.content THEN clobbered \cup {e.id} ELSE clobbered,
           UNCHANGED <<now, intended>>, call' = [v \in Workers |-> call'[v]]
    PROVE  TableSound' /\ WrittenStands'
<1>1. e.id \in Policies /\ e.content \in Stored /\ e.content # Absent
  BY EnforcementAssumption DEF Entry, Stored
<1>2. policies \in [Policies -> Stored \cup {Absent}] /\ rows \in Seq(Policies \cup Others \cup Log)
  BY DEF TableSound
<1>3. /\ rows' \in Seq(Policies \cup Others \cup Log)
      /\ \A r : (\E i \in 1..Len(rows') : rows'[i] = r) <=> r = e.id \/ \E i \in 1..Len(rows) : rows[i] = r
  <2>1. e.id \in Policies \cup Others \cup Log
    BY <1>1
  <2>2. /\ Touched(e.id) \in Seq(Policies \cup Others \cup Log)
        /\ \A r : (\E i \in 1..Len(Touched(e.id)) : Touched(e.id)[i] = r)
                      <=> r = e.id \/ \E i \in 1..Len(rows) : rows[i] = r
    BY <1>2, <2>1, TouchedKeeps
  <2> QED
    BY <2>2
<1>4. policies' \in [Policies -> Stored \cup {Absent}]
  BY <1>1, <1>2
<1>5. \A id \in Policies : policies'[id] # Absent <=> \E i \in 1..Len(rows') : rows'[i] = id
  <2> SUFFICES ASSUME NEW id \in Policies
               PROVE  policies'[id] # Absent <=> \E i \in 1..Len(rows') : rows'[i] = id
    OBVIOUS
  <2>1. CASE id = e.id
    BY <1>1, <1>2, <1>3, <2>1
  <2>2. CASE id # e.id
    <3>1. policies'[id] = policies[id]
      BY <2>2
    <3>2. policies[id] # Absent <=> \E i \in 1..Len(rows) : rows[i] = id
      BY DEF TableSound
    <3> QED
      BY <1>3, <2>2, <3>1, <3>2
  <2> QED
    BY <2>1, <2>2
<1>6. TableSound'
  BY <1>1, <1>3, <1>4, <1>5 DEF TableSound
<1>7. WrittenStands'
  <2> SUFFICES ASSUME NEW id \in Policies \ clobbered' PROVE policies'[id] = intended[id]
    BY DEF WrittenStands
  <2>1. id \in Policies \ clobbered /\ policies[id] = intended[id]
    BY DEF WrittenStands
  <2>2. id = e.id => policies[id] = e.content
    OBVIOUS
  <2> QED
    BY <1>1, <1>2, <2>1, <2>2
<1> QED
  BY <1>6, <1>7

LEMMA JudgeKeeps ==
    ASSUME PepInv, NEW w \in Workers, Judge(w)
    PROVE  PepInv'
<1>1. PICK c : c = call[w]
  OBVIOUS
<1>2. PICK e : e = Head(c.todo)
  OBVIOUS
<1> DEFINE v == Judged(e.content, c.request, FALSE, c.verdict)
           on == [c EXCEPT !.todo = Tail(@), !.over = c.over, !.verdict = v, !.through = c.through]
           ends == v = "DENY" /\ Enforcing(e.content)
           d == IF ends THEN [on EXCEPT !.todo = <<>>] ELSE on
<1>3. /\ c # NoCall /\ CallSound(c) /\ c \in CallRecord /\ c.at = "judge"
      /\ c.todo # <<>> /\ e \in Entry
  BY <1>1, <1>2, CallInLoop DEF Judge
<1>4. c.verdict \in Verdicts /\ c.through \in BOOLEAN
  BY <1>3 DEF CallRecord
<1>5. v = IF Denies(e.content, c.request) THEN "DENY"
          ELSE IF c.verdict = "ALLOW" /\ Permits(e.content, c.request) /\ e.content.conditional
               THEN "CONDITIONAL" ELSE c.verdict
  BY DEF Judged, Denies
<1>6. v \in Verdicts
  BY <1>4, <1>5 DEF Verdicts
<1>7. v = "DENY" <=> \/ c.verdict = "DENY"
                     \/ Enforcing(e.content) /\ (Denies(e.content, c.request) \/ e.id \in c.over)
  <2>1. Enforcing(e.content) /\ e.id \in c.over => c.verdict = "DENY"
    BY <1>2, <1>3, OverHasDenied DEF CallSound
  <2>2. Denies(e.content, c.request) => Enforcing(e.content)
    BY DEF Denies
  <2> QED
    BY <1>5, <2>1, <2>2
<1>8. CASE e.content = Deleted
  BY <1>1, <1>2, <1>8 DEF Judge, Blocking
<1>9. CASE e.content # Deleted
  <2>1. v = "CONDITIONAL" => c.verdict = "CONDITIONAL" \/ Conditional(e)
    BY <1>5, <1>9 DEF Conditional
  <2>2. v = "ALLOW" => c.verdict = "ALLOW" /\ (Enforcing(e.content) => ~e.content.conditional)
    <3>1. ~Denies(e.content, c.request) /\ Enforcing(e.content) => Permits(e.content, c.request)
      BY DEF Denies
    <3> QED
      BY <1>5, <3>1
  <2>3. CallSound(on)
    <3> HIDE DEF v
    <3> QED
      BY <1>2, <1>3, <1>4, <1>6, <1>7, <2>1, <2>2, OneMoreAsked
  <2>4. on.at = "judge" /\ on.verdict = v /\ on \in CallRecord
    BY <1>3, <2>3 DEF CallRecord, CallSound
  <2>5. CallSound(d)
    <3>1. CASE ends
      <4> HIDE DEF on
      <4> QED
        BY <2>3, <2>4, <3>1, MayEndDenied
    <3>2. CASE ~ends
      BY <2>3, <3>2
    <3> QED
      BY <3>1, <3>2
  <2>6. d = [c EXCEPT !.verdict = v, !.todo = IF ends THEN <<>> ELSE Tail(@)]
    <3> HIDE DEF v
    <3> QED
      BY <1>3 DEF CallRecord
  <2>7. /\ call' = [call EXCEPT ![w] = d] /\ policies' = [policies EXCEPT ![e.id] = e.content]
        /\ rows' = Touched(e.id) /\ UNCHANGED <<now, intended>>
        /\ clobbered' = IF policies[e.id] # e.content THEN clobbered \cup {e.id} ELSE clobbered
    BY <1>1, <1>2, <2>6 DEF Judge, PepGoto
  <2>8. d.listed = c.listed /\ d.all = c.all /\ d.complete = c.complete /\ d.edited = c.edited
    BY <1>3 DEF CallRecord
  <2>9. PICK next : next = d
    OBVIOUS
  <2> HIDE DEF d
  <2>10. Covered(c)
    BY <1>1, <1>3 DEF PepInv, CallsSound
  <2>11. Covered(next)'
    BY <2>7, <2>8, <2>9, <2>10, CoveredStays
  <2>12. CallsSound' /\ call' = [x \in Workers |-> call'[x]]
    BY <2>5, <2>7, <2>9, <2>11, OneCallMoves DEF PepInv, TableSound
  <2>13. TableSound' /\ WrittenStands'
    BY <1>3, <2>7, <2>12, SavedBackIsNoted DEF PepInv
  <2> QED
    BY <2>12, <2>13 DEF PepInv
<1> QED
  BY <1>8, <1>9

(* A row that is no policy is added or saved.                              *)
LEMMA OtherRowKeeps ==
    ASSUME TableSound, NEW row, row \in Others \cup Log,
           rows' = Touched(row) \/ rows' = Append(rows, row),
           UNCHANGED <<policies, now, intended, clobbered>>, call' = [v \in Workers |-> call'[v]]
    PROVE  TableSound'
<1> DEFINE R == Policies \cup Others \cup Log
<1>1. row \in R /\ row \notin Policies
  BY EnforcementAssumption
<1>2. rows \in Seq(R)
  BY DEF TableSound
<1> HIDE DEF R
<1>3. rows' \in Seq(R) /\ \A id \in Policies : (\E i \in 1..Len(rows') : rows'[i] = id)
                                               <=> \E i \in 1..Len(rows) : rows[i] = id
  <2>1. CASE rows' = Touched(row)
    <3>1. /\ Touched(row) \in Seq(R)
          /\ \A r : (\E i \in 1..Len(Touched(row)) : Touched(row)[i] = r)
                        <=> r = row \/ \E i \in 1..Len(rows) : rows[i] = r
      BY <1>1, <1>2, TouchedKeeps
    <3> QED
      BY <1>1, <2>1, <3>1
  <2>2. CASE rows' = Append(rows, row)
    <3>1. /\ rows' \in Seq(R) /\ Len(rows') = Len(rows) + 1 /\ Len(rows) \in Nat
          /\ rows'[Len(rows) + 1] = row /\ \A i \in 1..Len(rows) : rows'[i] = rows[i]
      BY <1>1, <1>2, <2>2
    <3>2. ASSUME NEW id \in Policies, NEW i \in 1..Len(rows'), rows'[i] = id
          PROVE  \E k \in 1..Len(rows) : rows[k] = id
      <4>1. i \in 1..Len(rows)
        BY <1>1, <3>1, <3>2
      <4> QED
        BY <3>1, <3>2, <4>1
    <3>3. ASSUME NEW id \in Policies, NEW i \in 1..Len(rows), rows[i] = id
          PROVE  \E k \in 1..Len(rows') : rows'[k] = id
      <4>1. i \in 1..Len(rows')
        BY <3>1
      <4> QED
        BY <3>1, <3>3, <4>1
    <3> QED
      BY <3>1, <3>2, <3>3
  <2> QED
    BY <2>1, <2>2
<1> QED
  BY <1>3 DEF TableSound, R

LEMMA WriteLogKeeps ==
    ASSUME PepInv, NEW w \in Workers, WriteLog(w)
    PROVE  PepInv'
<1>1. PICK c : c = call[w]
  OBVIOUS
<1>2. PICK d : d = [c EXCEPT !.at = "answer", !.verdict = Effective(c)]
  OBVIOUS
<1>3. c # NoCall /\ CallSound(c) /\ c \in CallRecord /\ c.at = "judge" /\ c.todo = <<>>
  BY <1>1, CallInLoop DEF WriteLog
<1>4. CallSound(d)
  BY <1>2, <1>3, EffectiveIsFair
<1>5. d.listed = c.listed /\ d.all = c.all /\ d.complete = c.complete /\ d.edited = c.edited
  BY <1>2, <1>3 DEF CallRecord
<1>6. PICK row : row = [policy |-> Heading(c), at |-> c.since, verdict |-> Effective(c)]
  OBVIOUS
<1>7. /\ call' = [call EXCEPT ![w] = d] /\ rows' = Append(rows, row)
      /\ UNCHANGED <<policies, now, intended, clobbered>>
  BY <1>1, <1>2, <1>6 DEF WriteLog, PepGoto
<1>8. Covered(c) /\ Covered(d)'
  <2>1. Covered(c)
    BY <1>1, <1>3 DEF PepInv, CallsSound
  <2> QED
    BY <1>5, <1>7, <2>1, CoveredStays
<1>9. CallsSound' /\ call' = [v \in Workers |-> call'[v]]
  BY <1>4, <1>7, <1>8, OneCallMoves DEF PepInv, TableSound
<1>10. row \in Log
  <2> DEFINE I == {i \in 1..Len(c.listed) : c.listed[i].content # Deleted}
             heads == Picked(c.listed, I)
  <2>1. c.listed \in Seq(Entry) /\ c.since \in Nat /\ c.verdict \in Verdicts
    BY <1>3 DEF CallRecord
  <2>2. heads \in Seq(Entry)
    <3>1. I \in SUBSET (1..Len(c.listed))
      OBVIOUS
    <3> HIDE DEF I
    <3> QED
      BY <2>1, <3>1, PickedIsTheRest
  <2>3. Heading(c) = IF heads = <<>> THEN Absent ELSE heads[1].id
    BY DEF Heading
  <2> HIDE DEF heads
  <2>4. heads # <<>> => heads[1] \in Entry
    BY <2>2
  <2>5. Heading(c) \in Policies \cup {Absent}
    BY <2>3, <2>4 DEF Entry
  <2>6. Effective(c) \in {"ALLOW", "CONDITIONAL", "DENY"}
    BY <2>1 DEF Effective, Verdicts
  <2> QED
    BY <1>6, <2>1, <2>5, <2>6 DEF Log
<1>11. TableSound'
  BY <1>7, <1>9, <1>10, OtherRowKeeps DEF PepInv
<1>12. WrittenStands'
  BY <1>7 DEF PepInv, WrittenStands
<1> QED
  BY <1>9, <1>11, <1>12 DEF PepInv

LEMMA PepReturnKeeps ==
    ASSUME PepInv, NEW w \in Workers, PepReturn(w)
    PROVE  PepInv'
<1>1. call' = [call EXCEPT ![w] = NoCall] /\ UNCHANGED <<policies, rows, now, intended, clobbered>>
  BY DEF PepReturn, PepGoto
<1>2. CallsSound' /\ call' = [v \in Workers |-> call'[v]]
  BY <1>1, OneCallMoves DEF PepInv, TableSound
<1>3. TableSound' /\ WrittenStands'
  BY <1>1, <1>2 DEF PepInv, TableSound, WrittenStands
<1> QED
  BY <1>2, <1>3 DEF PepInv

LEMMA WritePolicyKeeps ==
    ASSUME PepInv, NEW id \in Policies, NEW content \in Stored, WritePolicy(id, content)
    PROVE  PepInv'
<1>1. /\ policies' = [policies EXCEPT ![id] = content] /\ intended' = [intended EXCEPT ![id] = content]
      /\ clobbered' = clobbered \ {id} /\ rows' = Touched(id) /\ now' = now
      /\ call' = [w \in Workers |-> IF call[w] = NoCall THEN NoCall
                                    ELSE [call[w] EXCEPT !.edited = @ \cup {id}]]
  BY DEF WritePolicy
<1>2. /\ policies \in [Policies -> Stored \cup {Absent}] /\ intended \in [Policies -> Stored \cup {Absent}]
      /\ rows \in Seq(Policies \cup Others \cup Log)
  BY DEF PepInv, TableSound
<1>3. /\ rows' \in Seq(Policies \cup Others \cup Log)
      /\ \A r : (\E i \in 1..Len(rows') : rows'[i] = r) <=> r = id \/ \E i \in 1..Len(rows) : rows[i] = r
  <2>1. id \in Policies \cup Others \cup Log
    OBVIOUS
  <2>2. /\ Touched(id) \in Seq(Policies \cup Others \cup Log)
        /\ \A r : (\E i \in 1..Len(Touched(id)) : Touched(id)[i] = r)
                      <=> r = id \/ \E i \in 1..Len(rows) : rows[i] = r
    BY <1>2, <2>1, TouchedKeeps
  <2> QED
    BY <1>1, <2>2
<1>4. content # Absent
  BY EnforcementAssumption DEF Stored
<1>5. \A x \in Policies : policies'[x] # Absent <=> \E i \in 1..Len(rows') : rows'[i] = x
  <2> SUFFICES ASSUME NEW x \in Policies
               PROVE  policies'[x] # Absent <=> \E i \in 1..Len(rows') : rows'[i] = x
    OBVIOUS
  <2>1. CASE x = id
    BY <1>1, <1>2, <1>3, <1>4, <2>1
  <2>2. CASE x # id
    <3>1. policies'[x] = policies[x]
      BY <1>1, <2>2
    <3>2. policies[x] # Absent <=> \E i \in 1..Len(rows) : rows[i] = x
      BY DEF PepInv, TableSound
    <3> QED
      BY <1>3, <2>2, <3>1, <3>2
  <2> QED
    BY <2>1, <2>2
<1>6. call' = [w \in Workers |-> call'[w]]
  BY <1>1
<1>7. TableSound'
  BY <1>1, <1>2, <1>3, <1>5, <1>6 DEF PepInv, TableSound
<1>8. WrittenStands'
  <2> SUFFICES ASSUME NEW x \in Policies \ clobbered' PROVE policies'[x] = intended'[x]
    BY DEF WrittenStands
  <2>1. x # id => policies[x] = intended[x]
    BY <1>1 DEF PepInv, WrittenStands
  <2> QED
    BY <1>1, <1>2, <2>1
<1>9. ASSUME NEW w \in Workers, call'[w] # NoCall
      PROVE  CallSound(call'[w]) /\ Covered(call[w])'
  <2>1. call[w] # NoCall /\ call'[w] = [call[w] EXCEPT !.edited = @ \cup {id}]
    BY <1>1, <1>9
  <2>2. PICK c : c = call[w]
    OBVIOUS
  <2>3. PICK d : d = [c EXCEPT !.edited = @ \cup {id}]
    OBVIOUS
  <2>4. CallSound(c) /\ Covered(c) /\ c \in CallRecord
    BY <2>1, <2>2 DEF PepInv, CallsSound, CallSound
  <2>5. CallSound(d)
    BY <2>3, <2>4, NotingEditsIsSound
  <2>6. d.listed = c.listed /\ d.all = c.all /\ d.complete = c.complete /\ d.edited = c.edited \cup {id}
    BY <2>3, <2>4 DEF CallRecord
  <2>7. ASSUME d.all, NEW x \in Policies \ (d.edited \cup clobbered'),
               intended'[x] \in Contents, intended'[x].everyone \in d.complete
        PROVE  Holds(d, x)'
    <3>1. x # id /\ x \in Policies \ (c.edited \cup clobbered) /\ intended'[x] = intended[x]
      BY <1>1, <1>2, <2>6
    <3>2. Holds(c, x)
      BY <2>4, <2>6, <2>7, <3>1 DEF Covered
    <3> QED
      BY <2>6, <3>1, <3>2 DEF Holds
  <2>8. Covered(d)'
    BY <2>7 DEF Covered
  <2>9. Covered(call[w])'
    BY <2>1, <2>2, <2>3, <2>8 DEF Covered, Holds
  <2> QED
    BY <2>1, <2>2, <2>3, <2>5, <2>9
<1>10. CallsSound'
  BY <1>9 DEF CallsSound
<1> QED
  BY <1>7, <1>8, <1>10 DEF PepInv

LEMMA OperateKeeps ==
    ASSUME PepInv, Operate
    PROVE  PepInv'
<1>1. ASSUME NEW id \in Policies, NEW content \in Contents, WritePolicy(id, content)
      PROVE  PepInv'
  <2>1. content \in Stored
    BY DEF Stored
  <2> QED
    BY <1>1, <2>1, WritePolicyKeeps
<1>2. ASSUME NEW id \in Policies, DeletePolicy(id)
      PROVE  PepInv'
  <2>1. WritePolicy(id, Deleted) /\ Deleted \in Stored
    BY <1>2 DEF DeletePolicy, Stored
  <2> QED
    BY <2>1, WritePolicyKeeps
<1>3. ASSUME UNCHANGED <<policies, call, intended, clobbered>>
      PROVE  WrittenStands' /\ CallsSound' /\ call' = [v \in Workers |-> call'[v]]
  <2>1. WrittenStands' /\ CallsSound'
    BY <1>3 DEF PepInv, WrittenStands, CallsSound, Covered, Holds
  <2> QED
    BY <1>3, <2>1 DEF PepInv, TableSound
<1>4. ASSUME NEW row \in Others, SaveOther(row)
      PROVE  PepInv'
  <2>1. UNCHANGED <<policies, call, now, intended, clobbered>> /\ rows' = Touched(row)
    BY <1>4 DEF SaveOther
  <2>2. TableSound'
    BY <1>3, <2>1, OtherRowKeeps DEF PepInv
  <2> QED
    BY <1>3, <2>1, <2>2 DEF PepInv
<1>5. ASSUME PepTick
      PROVE  PepInv'
  <2>1. UNCHANGED <<policies, rows, call, intended, clobbered>> /\ now' \in 0..MaxTime
    <3>1. now \in 0..MaxTime /\ now < MaxTime /\ now' = now + 1
      BY <1>5 DEF PepTick, PepInv, TableSound
    <3> QED
      BY <1>5, <3>1, EnforcementAssumption DEF PepTick
  <2>2. TableSound'
    BY <1>3, <2>1 DEF PepInv, TableSound
  <2> QED
    BY <1>3, <2>1, <2>2 DEF PepInv
<1> QED
  BY <1>1, <1>2, <1>4, <1>5 DEF Operate, CreatePolicy

LEMMA PepStutterKeeps ==
    ASSUME PepInv, UNCHANGED pepVars
    PROVE  PepInv'
<1>1. UNCHANGED <<policies, rows, call, now, intended, clobbered>>
  BY DEF pepVars
<1> QED
  BY <1>1 DEF PepInv, TableSound, WrittenStands, CallsSound, Covered, Holds

LEMMA PepStepKeeps ==
    ASSUME PepInv, NEW w \in Workers, PepStep(w)
    PROVE  PepInv'
BY SkipKeeps, ExceedRateKeeps, JudgeKeeps, WriteLogKeeps DEF PepStep
-----------------------------------------------------------------------------
(* A verdict that is fair does not depend on the order of the list.        *)
LEMMA FairIsOrderless ==
    ASSUME PepInv
    PROVE  VerdictIsOrderless
<1> SUFFICES ASSUME NEW w \in Workers, Answered(w)
             PROVE  LET c == call[w]
                        asked == {c.listed[i] : i \in 1..Len(c.listed)}
                        enforced == {e \in asked : Enforcing(e.content)}
                    IN IF c.through
                       THEN /\ c.verdict = "ALLOW"
                            /\ \E e \in asked : e.content # Deleted /\ ~Blocking(e.content)
                       ELSE /\ c.verdict = "DENY" <=>
                                  \E e \in enforced : Denies(e.content, c.request) \/ e.id \in c.over
                            /\ c.verdict = "CONDITIONAL" =>
                                  enforced # {} /\ \E e \in asked : e.content # Deleted /\ e.content.conditional
                            /\ c.verdict = "ALLOW" => \A e \in enforced : ~e.content.conditional
  BY DEF VerdictIsOrderless
<1>1. Fair(call[w])
  BY DEF Answered, PepInv, CallsSound, CallSound, NoCall
<1> QED
  BY <1>1 DEF Fair, Refuses, Conditional, LetsThrough

(* A policy that was listed and denies makes the verdict a denial.         *)
LEMMA CoveredIsNotOverruled ==
    ASSUME PepInv
    PROVE  DenialsHold
<1> SUFFICES ASSUME NEW w \in Workers, NEW id \in Policies, Overruled(w, id),
                    id \notin clobbered, intended[id].everyone \in call[w].complete
             PROVE  FALSE
  BY DEF DenialsHold
<1>1. /\ call[w].at = "answer" /\ call[w].all /\ call[w].verdict # "DENY" /\ ~call[w].through
      /\ id \notin call[w].edited /\ intended[id] # Absent /\ Denies(intended[id], call[w].request)
  BY DEF Overruled, Answered
<1>2. Fair(call[w]) /\ Covered(call[w])
  BY <1>1 DEF PepInv, CallsSound, CallSound, NoCall
<1>3. intended[id] \in Contents /\ Enforcing(intended[id])
  BY <1>1 DEF PepInv, TableSound, Stored, Denies, Enforcing
<1>4. PICK i \in 1..Len(call[w].listed) : call[w].listed[i] = [id |-> id, content |-> intended[id]]
  BY <1>1, <1>2, <1>3 DEF Covered, Holds
<1>5. Refuses(call[w], call[w].listed[i])
  BY <1>1, <1>3, <1>4 DEF Refuses
<1> QED
  BY <1>1, <1>2, <1>5 DEF Fair

-----------------------------------------------------------------------------
AgentRow == [status : Statuses, declared : {Tools}, blocked : SUBSET Tools,
             capabilities : {Profile.capabilities}, sensitivity : {Profile.sensitivity},
             approval : {Profile.approval}, maxCalls : {Profile.maxCalls},
             blockedTargets : {Profile.blockedTargets}, allowedTargets : {Profile.allowedTargets}]

UnderWay == [at : {"policies", "judging", "tool", "rules", "ledger"}, request : Requests,
             context : Contexts, verdict : Verdicts, contained : BOOLEAN, blocked : SUBSET Tools,
             overlapped : BOOLEAN]
Changing == [at : {"saveAgent"}, change : Changes, read : AgentRow \cup {None}]

FirewallTyped ==
    /\ agent \in AgentRow \cup {None} /\ toolPolicy \in ToolPolicies \cup {None, DeletedPolicy}
    /\ wanted \in [status : Statuses \cup {"none"}, blocked : SUBSET Tools]
    /\ overlapped \in BOOLEAN /\ ledger \in Seq(Decision)
    /\ job \in [Workers -> {Idle} \cup UnderWay \cup Changing]
    /\ \A w \in Workers : At(w, "saveAgent") /\ job[w].read = None => job[w].change.kind = "register"

(* As long as no save has overlapped another, the agent is as operators    *)
(* were promised.                                                          *)
AsPromised ==
    ~overlapped => wanted = IF agent = None THEN [status |-> "none", blocked |-> {}]
                            ELSE [status |-> agent.status, blocked |-> agent.blocked]

(* A decision about a contained agent is a denial from the start; one that *)
(* goes on for a tool that has been blocked since has not asked for it.    *)
DecisionSound(j) ==
    /\ j.contained /\ ~j.overlapped => j.at = "ledger" /\ j.verdict = "DENY"
    /\ j.blocked \subseteq wanted.blocked
    /\ ~overlapped /\ j.request.channel = "tool" /\ j.request.target \in j.blocked =>
          j.at \in {"policies", "judging", "tool"} \/ (j.at = "ledger" /\ j.verdict = "DENY")

DecisionsSound == \A w \in Workers : job[w] \in UnderWay => DecisionSound(job[w])

IInv == PepInv /\ FirewallTyped /\ AsPromised /\ DecisionsSound

(* Rows of the registry differ in their status and in what is blocked.     *)
LEMMA RowsOfAgent ==
    /\ Profile \in AgentRow
    /\ \A row \in AgentRow : row # None
    /\ \A row \in AgentRow, status \in Statuses : [row EXCEPT !.status = status] \in AgentRow
    /\ \A row \in AgentRow, tools \in SUBSET Tools : [row EXCEPT !.blocked = tools] \in AgentRow
<1>1. Profile \in AgentRow
  BY FirewallAssumption DEF AgentRow, Statuses
<1>2. ASSUME NEW row \in AgentRow PROVE row # None
  <2>1. row = [Profile EXCEPT !.status = row.status, !.blocked = row.blocked]
    BY <1>1 DEF AgentRow
  <2>2. row.status \in Statuses /\ row.blocked \in SUBSET Tools
    BY DEF AgentRow
  <2> QED
    BY <2>1, <2>2, FirewallAssumption
<1>3. ASSUME NEW row \in AgentRow, NEW status \in Statuses
      PROVE  [row EXCEPT !.status = status] \in AgentRow
  BY DEF AgentRow
<1>4. ASSUME NEW row \in AgentRow, NEW tools \in SUBSET Tools
      PROVE  [row EXCEPT !.blocked = tools] \in AgentRow
  BY DEF AgentRow
<1> QED
  BY <1>1, <1>2, <1>3, <1>4

LEMMA FirewallStartsSound == Init => IInv
<1> SUFFICES ASSUME Init PROVE IInv
  OBVIOUS
<1>1. PepInv
  BY PepStartsSound DEF Init
<1>2. FirewallTyped
  <2>1. agent \in AgentRow \cup {None}
    BY RowsOfAgent DEF Init
  <2>2. wanted \in [status : Statuses \cup {"none"}, blocked : SUBSET Tools]
    BY DEF Init, Statuses
  <2>3. job \in [Workers -> {Idle}] /\ \A w \in Workers : ~At(w, "saveAgent")
    BY DEF Init, Idle, At
  <2>4. job \in [Workers -> {Idle} \cup UnderWay \cup Changing]
    <3> DEFINE Jobs == {Idle} \cup UnderWay \cup Changing
    <3>1. {Idle} \subseteq Jobs
      OBVIOUS
    <3> HIDE DEF Jobs
    <3>2. job \in [Workers -> Jobs]
      BY <2>3, <3>1
    <3> QED
      BY <3>2 DEF Jobs
  <2>5. overlapped \in BOOLEAN /\ ledger \in Seq(Decision)
    <3>1. overlapped = FALSE /\ ledger = <<>>
      BY DEF Init
    <3>2. overlapped \in BOOLEAN
      BY <3>1
    <3>3. ledger \in Seq(Decision)
      BY <3>1, EmptySeq
    <3> QED
      BY <3>2, <3>3
  <2>6. toolPolicy \in ToolPolicies \cup {None, DeletedPolicy}
    BY DEF Init
  <2> QED
    BY <2>1, <2>2, <2>3, <2>4, <2>5, <2>6 DEF FirewallTyped
<1>3. AsPromised
  BY RowsOfAgent, FirewallAssumption DEF Init, AsPromised
<1>4. DecisionsSound
  BY DEF Init, DecisionsSound, UnderWay, Idle
<1> QED
  BY <1>1, <1>2, <1>3, <1>4 DEF IInv

(* Nothing of the firewall changes while policies are asked.               *)
LEMMA FirewallStays ==
    ASSUME FirewallTyped, AsPromised, DecisionsSound, UNCHANGED firewallVars
    PROVE  FirewallTyped' /\ AsPromised' /\ DecisionsSound'
BY DEF FirewallTyped, AsPromised, DecisionsSound, DecisionSound, firewallVars, At

(* A decision goes on to j, or starts, and the agent stays as it is.       *)
LEMMA DecisionGoesOn ==
    ASSUME FirewallTyped, AsPromised, DecisionsSound,
           UNCHANGED <<agent, toolPolicy, wanted, overlapped>>, ledger' \in Seq(Decision),
           NEW w \in Workers, NEW j \in {Idle} \cup UnderWay, job' = [job EXCEPT ![w] = j],
           j # Idle => DecisionSound(j)
    PROVE  FirewallTyped' /\ AsPromised' /\ DecisionsSound'
<1>1. job \in [Workers -> {Idle} \cup UnderWay \cup Changing]
  BY DEF FirewallTyped
<1>2. j.at # "saveAgent" /\ (j \in UnderWay => j # Idle)
  BY DEF UnderWay, Idle
<1>3. FirewallTyped'
  <2>1. job' \in [Workers -> {Idle} \cup UnderWay \cup Changing]
    BY <1>1
  <2>2. ASSUME NEW v \in Workers, job'[v].at = "saveAgent", job'[v].read = None
        PROVE  job'[v].change.kind = "register"
    BY <1>1, <1>2, <2>2 DEF FirewallTyped, At
  <2> QED
    BY <2>1, <2>2 DEF FirewallTyped, At
<1>4. AsPromised'
  BY DEF AsPromised
<1>5. DecisionsSound'
  BY <1>1, <1>2 DEF DecisionsSound, DecisionSound
<1> QED
  BY <1>3, <1>4, <1>5

-----------------------------------------------------------------------------
(* What a decision knows at each of its steps.                             *)
LEMMA DecisionUnderWay ==
    ASSUME IInv, NEW w \in Workers, job[w].at \in {"policies", "judging", "tool", "rules", "ledger"}
    PROVE  job[w] \in UnderWay /\ DecisionSound(job[w])
<1>1. job[w] \in UnderWay
  BY DEF IInv, FirewallTyped, Idle, Changing
<1> QED
  BY <1>1 DEF IInv, DecisionsSound

LEMMA DecideKeeps ==
    ASSUME IInv, NEW w \in Workers, NEW q \in Requests, NEW context \in Contexts, Decide(w, q, context)
    PROVE  IInv'
<1>1. PICK active : active = (agent # None /\ agent.status = "active")
  OBVIOUS
<1>2. PICK verdict : verdict = IF active THEN ConstraintVerdict(agent, q, context) ELSE "DENY"
  OBVIOUS
<1>3. PICK j : j = [at |-> IF active THEN "policies" ELSE "ledger", request |-> q, context |-> context,
                    verdict |-> verdict, contained |-> Contained, blocked |-> wanted.blocked,
                    overlapped |-> overlapped]
  OBVIOUS
<1>4. job' = [job EXCEPT ![w] = j] /\ UNCHANGED <<agent, toolPolicy, ledger, wanted, overlapped>>
  BY <1>1, <1>2, <1>3 DEF Decide, Goto
<1>5. verdict \in Verdicts /\ active \in BOOLEAN
  BY <1>1, <1>2 DEF ConstraintVerdict, Verdicts
<1>6. j \in UnderWay
  <2>1. wanted.blocked \in SUBSET Tools /\ overlapped \in BOOLEAN /\ Contained \in BOOLEAN
    BY DEF IInv, FirewallTyped, Contained
  <2>2. PICK contained \in BOOLEAN : contained = Contained
    BY <2>1
  <2> QED
    BY <1>3, <1>5, <2>1, <2>2 DEF UnderWay
<1>7. Contained /\ ~overlapped => ~active
  <2>1. (agent # None /\ agent.status = "active") /\ ~overlapped => wanted.status = "active"
    BY DEF IInv, AsPromised
  <2>2. wanted.status = "active" => ~Contained
    BY DEF Contained
  <2> QED
    BY <1>1, <2>1, <2>2
<1>8. DecisionSound(j)
  BY <1>1, <1>2, <1>3, <1>7 DEF DecisionSound
<1>9. FirewallTyped' /\ AsPromised' /\ DecisionsSound'
  BY <1>4, <1>6, <1>8, DecisionGoesOn DEF IInv, FirewallTyped
<1> QED
  BY <1>9, PepStutterKeeps DEF IInv, Decide, QuietPep

LEMMA AskPoliciesKeeps ==
    ASSUME IInv, NEW w \in Workers, AskPolicies(w)
    PROVE  IInv'
<1>1. PICK j : j = [job[w] EXCEPT !.at = "judging"]
  OBVIOUS
<1>2. job' = [job EXCEPT ![w] = j] /\ UNCHANGED <<agent, toolPolicy, ledger, wanted, overlapped>>
  BY <1>1 DEF AskPolicies, Goto
<1>3. job[w] \in UnderWay /\ DecisionSound(job[w]) /\ job[w].at = "policies"
  BY DecisionUnderWay DEF AskPolicies, At
<1>4. /\ j \in UnderWay /\ j.at = "judging" /\ j.contained = job[w].contained /\ j.blocked = job[w].blocked
      /\ j.overlapped = job[w].overlapped /\ j.request = job[w].request
  BY <1>1, <1>3 DEF UnderWay
<1>5. DecisionSound(j)
  BY <1>3, <1>4 DEF DecisionSound
<1>6. FirewallTyped' /\ AsPromised' /\ DecisionsSound'
  BY <1>2, <1>4, <1>5, DecisionGoesOn DEF IInv, FirewallTyped
<1>7. PepInv'
  <2>1. PICK entries \in Lists : Enforce(w, job[w].request, entries)
    BY DEF AskPolicies
  <2>2. job[w].request \in Requests
    BY <1>3 DEF UnderWay
  <2> QED
    BY <2>1, <2>2, EnforceKeeps DEF IInv
<1> QED
  BY <1>6, <1>7 DEF IInv

LEMMA TakePoliciesKeeps ==
    ASSUME IInv, NEW w \in Workers, TakePolicies(w)
    PROVE  IInv'
<1>1. PICK v : v = Combine({job[w].verdict, call[w].verdict})
  OBVIOUS
<1>2. PICK j : j = [job[w] EXCEPT !.at = IF job[w].request.channel = "tool" THEN "tool" ELSE "ledger",
                                  !.verdict = v]
  OBVIOUS
<1>3. job' = [job EXCEPT ![w] = j] /\ UNCHANGED <<agent, toolPolicy, ledger, wanted, overlapped>>
  BY <1>1, <1>2 DEF TakePolicies, Goto
<1>4. job[w] \in UnderWay /\ DecisionSound(job[w]) /\ job[w].at = "judging"
  BY DecisionUnderWay DEF TakePolicies, At
<1>5. v \in Verdicts
  BY <1>1 DEF Combine, Verdicts
<1>6. /\ j \in UnderWay /\ j.contained = job[w].contained /\ j.blocked = job[w].blocked
      /\ j.overlapped = job[w].overlapped /\ j.request = job[w].request
      /\ j.at = IF job[w].request.channel = "tool" THEN "tool" ELSE "ledger"
  BY <1>2, <1>4, <1>5 DEF UnderWay
<1>7. DecisionSound(j)
  BY <1>4, <1>6 DEF DecisionSound
<1>8. FirewallTyped' /\ AsPromised' /\ DecisionsSound'
  BY <1>3, <1>6, <1>7, DecisionGoesOn DEF IInv, FirewallTyped
<1> QED
  BY <1>8, PepReturnKeeps DEF IInv, TakePolicies

(* The agent is read again here: what is blocked by now is denied.         *)
LEMMA AskToolKeeps ==
    ASSUME IInv, NEW w \in Workers, AskTool(w)
    PROVE  IInv'
<1>1. PICK j : j = IF Permitted(w) THEN [job[w] EXCEPT !.at = "rules"]
                   ELSE [job[w] EXCEPT !.at = "ledger", !.verdict = "DENY"]
  OBVIOUS
<1>2. job' = [job EXCEPT ![w] = j] /\ UNCHANGED <<agent, toolPolicy, ledger, wanted, overlapped>>
  BY <1>1 DEF AskTool, Goto
<1>3. job[w] \in UnderWay /\ DecisionSound(job[w]) /\ job[w].at = "tool"
  BY DecisionUnderWay DEF AskTool, At
<1>4. /\ j \in UnderWay /\ j.contained = job[w].contained /\ j.blocked = job[w].blocked
      /\ j.overlapped = job[w].overlapped /\ j.request = job[w].request
  BY <1>1, <1>3 DEF UnderWay, Verdicts
<1>5. Permitted(w) \/ (j.at = "ledger" /\ j.verdict = "DENY")
  BY <1>1, <1>3 DEF UnderWay
<1>6. ~overlapped /\ job[w].request.target \in job[w].blocked => ~Permitted(w)
  BY <1>3 DEF IInv, AsPromised, Permitted, MayUse, DecisionSound
<1>7. DecisionSound(j)
  BY <1>3, <1>4, <1>5, <1>6 DEF DecisionSound
<1>8. FirewallTyped' /\ AsPromised' /\ DecisionsSound'
  BY <1>2, <1>4, <1>7, DecisionGoesOn DEF IInv, FirewallTyped
<1> QED
  BY <1>8, PepStutterKeeps DEF IInv, AskTool, QuietPep

LEMMA AskRulesKeeps ==
    ASSUME IInv, NEW w \in Workers, AskRules(w)
    PROVE  IInv'
<1>1. PICK v : v = Combine({job[w].verdict,
                            PolicyVerdict(toolPolicy, job[w].request.target, job[w].context)})
  OBVIOUS
<1>2. PICK j : j = [job[w] EXCEPT !.at = "ledger", !.verdict = v]
  OBVIOUS
<1>3. job' = [job EXCEPT ![w] = j] /\ UNCHANGED <<agent, toolPolicy, ledger, wanted, overlapped>>
  BY <1>1, <1>2 DEF AskRules, Goto
<1>4. job[w] \in UnderWay /\ DecisionSound(job[w]) /\ job[w].at = "rules"
  BY DecisionUnderWay DEF AskRules, At
<1>5. v \in Verdicts
  BY <1>1 DEF Combine, Verdicts
<1>6. /\ j \in UnderWay /\ j.contained = job[w].contained /\ j.blocked = job[w].blocked
      /\ j.overlapped = job[w].overlapped /\ j.request = job[w].request
  BY <1>2, <1>4, <1>5 DEF UnderWay
<1>7. DecisionSound(j)
  BY <1>4, <1>6 DEF DecisionSound
<1>8. FirewallTyped' /\ AsPromised' /\ DecisionsSound'
  BY <1>3, <1>6, <1>7, DecisionGoesOn DEF IInv, FirewallTyped
<1> QED
  BY <1>8, PepStutterKeeps DEF IInv, AskRules, QuietPep

LEMMA RecordKeeps ==
    ASSUME IInv, NEW w \in Workers, Record(w)
    PROVE  IInv'
<1>1. job' = [job EXCEPT ![w] = Idle] /\ UNCHANGED <<agent, toolPolicy, wanted, overlapped>>
  BY DEF Record, Goto
<1>2. job[w] \in UnderWay
  BY DecisionUnderWay DEF Record, At
<1>3. ledger' \in Seq(Decision)
  <2>1. [request |-> job[w].request, verdict |-> job[w].verdict] \in Decision
    BY <1>2 DEF UnderWay, Decision
  <2> QED
    BY <2>1 DEF Record, IInv, FirewallTyped
<1>4. FirewallTyped' /\ AsPromised' /\ DecisionsSound'
  BY <1>1, <1>3, DecisionGoesOn DEF IInv
<1> QED
  BY <1>4, PepStutterKeeps DEF IInv, Record, QuietPep
-----------------------------------------------------------------------------
LEMMA ReadAgentKeeps ==
    ASSUME IInv, NEW w \in Workers, NEW change \in Changes, ReadAgent(w, change)
    PROVE  IInv'
<1>1. PICK j : j = [at |-> "saveAgent", change |-> change, read |-> agent]
  OBVIOUS
<1>2. job' = [job EXCEPT ![w] = j] /\ UNCHANGED <<agent, toolPolicy, ledger, wanted, overlapped>>
  BY <1>1 DEF ReadAgent, Goto
<1>3. job \in [Workers -> {Idle} \cup UnderWay \cup Changing]
  BY DEF IInv, FirewallTyped
<1>4. j \in Changing /\ j \notin UnderWay
  BY <1>1 DEF Changing, UnderWay, IInv, FirewallTyped
<1>5. FirewallTyped'
  <2>1. job' \in [Workers -> {Idle} \cup UnderWay \cup Changing]
    BY <1>2, <1>3, <1>4
  <2>2. ASSUME NEW v \in Workers, job'[v].at = "saveAgent", job'[v].read = None
        PROVE  job'[v].change.kind = "register"
    BY <1>1, <1>2, <1>3, <2>2 DEF ReadAgent, IInv, FirewallTyped, At
  <2> QED
    BY <1>2, <2>1, <2>2 DEF IInv, FirewallTyped, At
<1>6. AsPromised'
  BY <1>2 DEF IInv, AsPromised
<1>7. DecisionsSound'
  BY <1>2, <1>3, <1>4 DEF IInv, DecisionsSound, DecisionSound
<1> QED
  BY <1>5, <1>6, <1>7, PepStutterKeeps DEF IInv, ReadAgent, QuietPep

(* What is saved is what the operator was promised, when the row that was  *)
(* read is still there.                                                    *)
LEMMA ChangedAsPromised ==
    ASSUME IInv, NEW change \in Changes, NEW old \in AgentRow \cup {None},
           old = None => change.kind = "register"
    PROVE  /\ Changed(change, old) \in AgentRow
           /\ Promised(change) \in [status : Statuses \cup {"none"}, blocked : SUBSET Tools]
           /\ ~overlapped /\ old = agent =>
                 Promised(change) = [status |-> Changed(change, old).status,
                                     blocked |-> Changed(change, old).blocked]
<1>1. /\ Profile \in AgentRow /\ Profile.status = "active"
      /\ \A row \in AgentRow : row # None
      /\ wanted \in [status : Statuses \cup {"none"}, blocked : SUBSET Tools]
  BY RowsOfAgent, FirewallAssumption DEF IInv, FirewallTyped
<1>2. ~overlapped /\ old = agent /\ old # None =>
         wanted.status = old.status /\ wanted.blocked = old.blocked
  BY DEF IInv, AsPromised
<1>3. ~overlapped /\ old = agent /\ old = None => wanted.blocked = {}
  BY DEF IInv, AsPromised
<1>4. old # None => old \in AgentRow
  OBVIOUS
<1>5. CASE change.kind = "register"
  <2>1. Changed(change, old) = Registered(old) /\ Promised(change) = [wanted EXCEPT !.status = "active"]
    BY <1>5 DEF Changed, Promised
  <2>2. PICK tools : tools = IF old = None THEN {} ELSE old.blocked
    OBVIOUS
  <2>3. tools \in SUBSET Tools
    BY <1>4, <2>2 DEF AgentRow
  <2>4. Registered(old) = [Profile EXCEPT !.blocked = tools]
    BY <2>2 DEF Registered
  <2>5. Registered(old) \in AgentRow /\ Registered(old).status = "active" /\ Registered(old).blocked = tools
    BY <1>1, <2>3, <2>4, RowsOfAgent DEF AgentRow
  <2>6. Promised(change) = [status |-> "active", blocked |-> wanted.blocked]
    BY <1>1, <2>1
  <2> QED
    BY <1>1, <1>2, <1>3, <2>1, <2>2, <2>5, <2>6 DEF Statuses
<1>6. CASE change.kind = "status"
  <2>1. /\ Changed(change, old) = [old EXCEPT !.status = change.status]
        /\ Promised(change) = [wanted EXCEPT !.status = change.status]
    BY <1>6 DEF Changed, Promised
  <2>2. change.status \in Statuses /\ old \in AgentRow /\ old # None
    BY <1>1, <1>4, <1>6, FirewallAssumption
  <2>3. /\ Changed(change, old) \in AgentRow /\ Changed(change, old).status = change.status
        /\ Changed(change, old).blocked = old.blocked
    BY <2>1, <2>2, RowsOfAgent DEF AgentRow
  <2>4. Promised(change) = [status |-> change.status, blocked |-> wanted.blocked]
    BY <1>1, <2>1
  <2> QED
    BY <1>1, <1>2, <2>2, <2>3, <2>4
<1>7. CASE change.kind \in {"block", "unblock"}
  <2> DEFINE after(tools) == IF change.kind = "block" THEN tools \cup {change.tool}
                             ELSE tools \ {change.tool}
  <2>1. change.tool \in Tools /\ old \in AgentRow /\ old # None
    BY <1>1, <1>4, <1>7, FirewallAssumption
  <2>2. /\ Changed(change, old) = [old EXCEPT !.blocked = after(old.blocked)]
        /\ Promised(change) = [wanted EXCEPT !.blocked = after(wanted.blocked)]
    BY <1>1, <1>7, <2>1 DEF Changed, Promised, AgentRow
  <2>3. /\ after(old.blocked) \in SUBSET Tools /\ after(wanted.blocked) \in SUBSET Tools
        /\ (wanted.blocked = old.blocked => after(wanted.blocked) = after(old.blocked))
    BY <1>1, <2>1 DEF AgentRow
  <2> HIDE DEF after
  <2>4. /\ Changed(change, old) \in AgentRow /\ Changed(change, old).status = old.status
        /\ Changed(change, old).blocked = after(old.blocked)
    BY <2>1, <2>2, <2>3, RowsOfAgent DEF AgentRow
  <2>5. Promised(change) = [status |-> wanted.status, blocked |-> after(wanted.blocked)]
    BY <1>1, <2>2
  <2> QED
    BY <1>1, <1>2, <2>1, <2>3, <2>4, <2>5
<1> QED
  BY <1>5, <1>6, <1>7, FirewallAssumption

LEMMA SaveAgentKeeps ==
    ASSUME IInv, NEW w \in Workers, SaveAgent(w)
    PROVE  IInv'
<1>1. PICK change : change = job[w].change
  OBVIOUS
<1>2. PICK old : old = job[w].read
  OBVIOUS
<1>3. job \in [Workers -> {Idle} \cup UnderWay \cup Changing]
  BY DEF IInv, FirewallTyped
<1>4. /\ change \in Changes /\ old \in AgentRow \cup {None} /\ (old = None => change.kind = "register")
  <2>1. job[w] \in Changing
    BY <1>3 DEF SaveAgent, At, Idle, UnderWay
  <2> QED
    BY <1>1, <1>2, <2>1 DEF Changing, SaveAgent, IInv, FirewallTyped
<1>5. /\ agent' = Changed(change, old) /\ wanted' = Promised(change) /\ UNCHANGED <<toolPolicy, ledger>>
      /\ overlapped' = (overlapped \/ agent # old)
      /\ job' = [v \in Workers |-> IF v = w THEN Idle ELSE StillBlocked(v)]
  BY <1>1, <1>2 DEF SaveAgent
<1>6. /\ agent' \in AgentRow /\ wanted' \in [status : Statuses \cup {"none"}, blocked : SUBSET Tools]
      /\ ~overlapped /\ old = agent => wanted' = [status |-> agent'.status, blocked |-> agent'.blocked]
  BY <1>4, <1>5, ChangedAsPromised
<1>7. ASSUME NEW v \in Workers, NEW j, j = job'[v]
      PROVE  /\ j \in {Idle} \cup UnderWay \cup Changing
             /\ j \in UnderWay => DecisionSound(j)'
             /\ j \in Changing => j = job[v]
  <2>1. CASE v = w
    BY <1>5, <1>7, <2>1 DEF Idle, UnderWay, Changing
  <2>2. CASE v # w /\ job[v] \notin UnderWay
    <3>1. job[v].at \in {"idle", "saveAgent"} /\ job[v] \in {Idle} \cup Changing
      BY <1>3, <2>2 DEF Idle, Changing
    <3> QED
      BY <1>5, <1>7, <2>2, <3>1 DEF StillBlocked
  <2>3. CASE v # w /\ job[v] \in UnderWay
    <3>1. PICK tools : tools = job[v].blocked \cap wanted'.blocked
      OBVIOUS
    <3>2. j = [job[v] EXCEPT !.blocked = tools]
      BY <1>5, <1>7, <2>3, <3>1 DEF StillBlocked, UnderWay
    <3>3. /\ j \in UnderWay /\ j.at = job[v].at /\ j.verdict = job[v].verdict /\ j.request = job[v].request
          /\ j.contained = job[v].contained /\ j.overlapped = job[v].overlapped
          /\ j.blocked = tools
      BY <2>3, <3>1, <3>2 DEF UnderWay
    <3>4. DecisionSound(job[v])
      BY <2>3 DEF IInv, DecisionsSound
    <3>5. DecisionSound(j)'
      BY <1>5, <3>1, <3>3, <3>4 DEF DecisionSound, IInv, FirewallTyped
    <3>6. j \notin Changing
      BY <3>3 DEF UnderWay, Changing
    <3> QED
      BY <3>3, <3>5, <3>6
  <2> QED
    BY <1>3, <2>1, <2>2, <2>3
<1>8. FirewallTyped'
  <2>1. job' \in [Workers -> {Idle} \cup UnderWay \cup Changing]
    <3>1. job' = [v \in Workers |-> job'[v]]
      BY <1>5
    <3> QED
      BY <1>7, <3>1
  <2>2. ASSUME NEW v \in Workers, job'[v].at = "saveAgent", job'[v].read = None
        PROVE  job'[v].change.kind = "register"
    <3>1. job'[v] \in Changing
      BY <1>7, <2>2 DEF Idle, UnderWay
    <3> QED
      BY <1>7, <2>2, <3>1 DEF IInv, FirewallTyped, At
  <2>3. toolPolicy' \in ToolPolicies \cup {None, DeletedPolicy} /\ ledger' \in Seq(Decision)
    BY <1>5 DEF IInv, FirewallTyped
  <2>4. overlapped' \in BOOLEAN
    BY <1>5 DEF IInv, FirewallTyped
  <2> QED
    BY <1>6, <2>1, <2>2, <2>3, <2>4 DEF FirewallTyped, At
<1>9. AsPromised'
  <2>1. ~overlapped' => ~overlapped /\ old = agent
    BY <1>5 DEF IInv, FirewallTyped
  <2>2. agent' # None
    BY <1>6, RowsOfAgent
  <2> QED
    BY <1>6, <2>1, <2>2 DEF AsPromised
<1>10. DecisionsSound'
  <2> SUFFICES ASSUME NEW v \in Workers, job'[v] \in UnderWay
               PROVE  DecisionSound(job[v])'
    BY DEF DecisionsSound
  <2>1. PICK j : j = job'[v]
    OBVIOUS
  <2>2. DecisionSound(j)'
    BY <1>7, <2>1
  <2> QED
    BY <2>1, <2>2 DEF DecisionSound
<1> QED
  BY <1>8, <1>9, <1>10, PepStutterKeeps DEF IInv, SaveAgent, QuietPep

LEMMA EditToolPolicyKeeps ==
    ASSUME IInv, EditToolPolicy
    PROVE  IInv'
<1>1. PICK new \in ToolPolicies \cup {DeletedPolicy} : WriteToolPolicy(new)
  BY DEF EditToolPolicy
<1>2. toolPolicy' = new /\ UNCHANGED <<agent, job, ledger, wanted, overlapped>> /\ UNCHANGED pepVars
  BY <1>1 DEF WriteToolPolicy, QuietPep
<1>3. FirewallTyped'
  BY <1>2 DEF IInv, FirewallTyped, At
<1>4. AsPromised' /\ DecisionsSound'
  BY <1>2 DEF IInv, AsPromised, DecisionsSound, DecisionSound
<1> QED
  BY <1>2, <1>3, <1>4, PepStutterKeeps DEF IInv
-----------------------------------------------------------------------------
LEMMA FirewallStepKeeps == IInv /\ [Next]_vars => IInv'
<1> SUFFICES ASSUME IInv, [Next]_vars PROVE IInv'
  OBVIOUS
<1>1. CASE Operate /\ UNCHANGED firewallVars
  BY <1>1, OperateKeeps, FirewallStays DEF IInv
<1>2. CASE EditToolPolicy
  BY <1>2, EditToolPolicyKeeps
<1>3. ASSUME NEW w \in Workers, NEW q \in Requests, NEW context \in Contexts, Decide(w, q, context)
      PROVE  IInv'
  BY <1>3, DecideKeeps
<1>4. ASSUME NEW w \in Workers, NEW change \in Changes, ReadAgent(w, change)
      PROVE  IInv'
  BY <1>4, ReadAgentKeeps
<1>5. ASSUME NEW w \in Workers, SaveAgent(w)
      PROVE  IInv'
  BY <1>5, SaveAgentKeeps
<1>6. ASSUME NEW w \in Workers, Proceed(w)
      PROVE  IInv'
  <2>1. CASE PepStep(w) /\ UNCHANGED firewallVars
    BY <2>1, PepStepKeeps, FirewallStays DEF IInv
  <2> QED
    BY <1>6, <2>1, AskPoliciesKeeps, TakePoliciesKeeps, AskToolKeeps, AskRulesKeeps, RecordKeeps
       DEF Proceed
<1>7. CASE UNCHANGED vars
  <2>1. UNCHANGED pepVars /\ UNCHANGED firewallVars
    BY <1>7 DEF vars
  <2> QED
    BY <2>1, PepStutterKeeps, FirewallStays DEF IInv
<1> QED
  BY <1>1, <1>2, <1>3, <1>4, <1>5, <1>6, <1>7 DEF Next

LEMMA FirewallAlwaysSound == Spec => []IInv
BY FirewallStartsSound, FirewallStepKeeps, PTL DEF Spec

LEMMA SoundIsTyped ==
    ASSUME IInv
    PROVE  TypeOK
<1>1. PepTypeOK
  <2>1. ASSUME NEW i \in 1..Len(rows)
        PROVE  rows[i] \in Policies \cup Others \/ rows[i] \in Log
    <3>1. rows[i] \in Policies \cup Others \cup Log
      BY ElementOfSeq DEF IInv, PepInv, TableSound
    <3> QED
      BY <3>1
  <2>2. ASSUME NEW w \in Workers
        PROVE  call[w].at \in {"idle", "judge", "answer"}
    BY DEF IInv, PepInv, CallsSound, CallSound, CallRecord, NoCall
  <2> QED
    BY <2>1, <2>2 DEF PepTypeOK, IInv, PepInv, TableSound
<1>2. ASSUME NEW i \in 1..Len(ledger)
      PROVE  ledger[i] \in Decision
  BY ElementOfSeq DEF IInv, FirewallTyped
<1>3. agent # None => agent.status \in Statuses /\ agent.blocked \subseteq Tools
  BY DEF IInv, FirewallTyped, AgentRow
<1> QED
  BY <1>1, <1>2, <1>3 DEF TypeOK, IInv, FirewallTyped

LEMMA SoundIsContained ==
    ASSUME IInv
    PROVE  ContainmentHolds
<1> SUFFICES ASSUME NEW w \in Workers, Deciding(w)
             PROVE  /\ job[w].contained /\ ~job[w].overlapped => job[w].verdict = "DENY"
                    /\ /\ job[w].request.channel = "tool" /\ job[w].request.target \in job[w].blocked
                       /\ ~overlapped
                       => job[w].verdict = "DENY"
  BY DEF ContainmentHolds
<1>1. DecisionSound(job[w]) /\ job[w].at = "ledger"
  BY DecisionUnderWay DEF Deciding, At
<1> QED
  BY <1>1 DEF DecisionSound

(* Policies, log rows, agents and ledger entries are what they should be.  *)
THEOREM FirewallTypesAlwaysHold == Spec => []TypeOK
BY FirewallAlwaysSound, SoundIsTyped, PTL

(* list_pep_policies returns the policies in the order of their last use,  *)
(* which every request changes, and the loop of enforce_request lets one   *)
(* verdict overwrite another: the verdict is nevertheless that of the set  *)
(* of the policies, however many there are and in whatever order.          *)
THEOREM VerdictsAlwaysOrderless == Spec => []VerdictIsOrderless
BY FirewallAlwaysSound, FairIsOrderless, PTL DEF IInv

(* Every request saves each policy that it asks as it had listed it: the   *)
(* denials that an operator wrote are enforced on every later request,     *)
(* unless one of these saves came in between, or one of the lists that the *)
(* request looks through was cut short at its limit.                       *)
THEOREM DenialsAlwaysHold == Spec => []DenialsHold
BY FirewallAlwaysSound, CoveredIsNotOverruled, PTL DEF IInv

(* decide_egress reads the agent, asks the policies, and reads the agent   *)
(* again for its tools, while operators contain and release it: what is    *)
(* contained when the request comes, and stays so, gets nothing.           *)
THEOREM ContainmentAlwaysHolds == Spec => []ContainmentHolds
BY FirewallAlwaysSound, SoundIsContained, PTL
=============================================================================
