------------------------- MODULE VerdictLawsProofs -------------------------
(***************************************************************************)
(* That the laws of the verdicts hold of every policy, artifact, request,  *)
(* agent, session, tool policy, piece of evidence and use, and that the    *)
(* complete report of a workflow covers every run of it.                   *)
(***************************************************************************)
EXTENDS VerdictLaws, Sequences, TLAPS, FiniteSetTheorems, WellFoundedInduction
-----------------------------------------------------------------------------
(* A set that no edge leads out of.                                        *)
LEMMA ClosedSets ==
    ASSUME NEW edges \in SUBSET (Nodes \X Nodes), NEW S
    PROVE  Closed(edges, S) <=> \A m, n \in Nodes : m \in S /\ <<m, n>> \in edges => n \in S
<1>1. ASSUME Closed(edges, S), NEW m \in Nodes, NEW n \in Nodes, m \in S, <<m, n>> \in edges PROVE n \in S
  <2>1. <<m, n>>[1] \in S => <<m, n>>[2] \in S
    BY <1>1 DEF Closed
  <2> QED
    BY <1>1, <2>1
<1>2. ASSUME \A m, n \in Nodes : m \in S /\ <<m, n>> \in edges => n \in S PROVE Closed(edges, S)
  <2> SUFFICES ASSUME NEW e \in edges, e[1] \in S PROVE e[2] \in S
    BY DEF Closed
  <2>1. e = <<e[1], e[2]>> /\ e[1] \in Nodes /\ e[2] \in Nodes
    OBVIOUS
  <2> QED
    BY <1>2, <2>1
<1> QED
  BY <1>1, <1>2

(* A closure is the least set that no edge leads out of.                   *)
LEMMA ClosureIsLeast ==
    ASSUME NEW edges \in SUBSET (Nodes \X Nodes), NEW found \in SUBSET Nodes,
           NEW S \in SUBSET Nodes, found \subseteq S,
           \A m, n \in Nodes : m \in S /\ <<m, n>> \in edges => n \in S
    PROVE  Closure(edges, found) \subseteq S
<1>1. Closed(edges, S)
  BY ClosedSets
<1> QED
  BY <1>1 DEF Closure

LEMMA ClosureIsClosed ==
    ASSUME NEW edges \in SUBSET (Nodes \X Nodes), NEW found \in SUBSET Nodes
    PROVE  /\ Closure(edges, found) \subseteq Nodes /\ found \subseteq Closure(edges, found)
           /\ \A m, n \in Nodes : m \in Closure(edges, found) /\ <<m, n>> \in edges =>
                                      n \in Closure(edges, found)
<1>1. Closure(edges, found) \subseteq Nodes /\ found \subseteq Closure(edges, found)
  BY DEF Closure
<1>2. ASSUME NEW m \in Nodes, NEW n \in Nodes, m \in Closure(edges, found), <<m, n>> \in edges
      PROVE  n \in Closure(edges, found)
  <2> SUFFICES ASSUME NEW S \in SUBSET Nodes, found \subseteq S, Closed(edges, S) PROVE n \in S
    BY DEF Closure
  <2>1. m \in S
    BY <1>2 DEF Closure
  <2> QED
    BY <1>2, <2>1, ClosedSets
<1> QED
  BY <1>1, <1>2

(* A step that leads to a step leads to what that leads to.                *)
LEMMA ClosureIsTransitive ==
    ASSUME NEW edges \in SUBSET (Nodes \X Nodes),
           NEW m \in Nodes, NEW n \in Closure(edges, {m})
    PROVE  Closure(edges, {n}) \subseteq Closure(edges, {m})
<1> DEFINE S == Closure(edges, {m})
<1>1. S \in SUBSET Nodes /\ n \in S
      /\ \A x, y \in Nodes : x \in S /\ <<x, y>> \in edges => y \in S
  BY ClosureIsClosed
<1> HIDE DEF S
<1>2. {n} \in SUBSET Nodes /\ {n} \subseteq S
  BY <1>1
<1>3. Closure(edges, {n}) \subseteq S
  BY <1>1, <1>2, ClosureIsLeast
<1> QED
  BY <1>3 DEF S

(* The more edges and the more to start from, the more is led to.          *)
LEMMA ClosureIsMonotone ==
    ASSUME NEW edges \in SUBSET (Nodes \X Nodes), NEW fewer \in SUBSET edges, NEW found \in SUBSET Nodes
    PROVE  Closure(fewer, found) \subseteq Closure(edges, found)
<1> DEFINE S == Closure(edges, found)
<1>1. S \in SUBSET Nodes /\ found \subseteq S
      /\ \A x, y \in Nodes : x \in S /\ <<x, y>> \in edges => y \in S
  BY ClosureIsClosed
<1> HIDE DEF S
<1>2. Closure(fewer, found) \subseteq S
  BY <1>1, ClosureIsLeast
<1> QED
  BY <1>2 DEF S

(* What is led to is where one starts from, or has something before it     *)
(* that is led to.                                                         *)
LEMMA ClosureHasPredecessors ==
    ASSUME NEW edges \in SUBSET (Nodes \X Nodes), NEW start \in Nodes,
           NEW n \in Closure(edges, {start}), n # start
    PROVE  \E m \in Closure(edges, {start}) : <<m, n>> \in edges
<1> SUFFICES ASSUME \A m \in Closure(edges, {start}) : <<m, n>> \notin edges PROVE FALSE
  OBVIOUS
<1> DEFINE S == Closure(edges, {start}) \ {n}
<1>1. S \in SUBSET Nodes /\ {start} \subseteq S /\ {start} \in SUBSET Nodes
  BY ClosureIsClosed
<1>4. ASSUME NEW x \in Nodes, NEW y \in Nodes, x \in S, <<x, y>> \in edges PROVE y \in S
  <2>1. y \in Closure(edges, {start})
    BY <1>4, <1>1, ClosureIsClosed
  <2> QED
    BY <2>1, <1>4
<1>2. n \notin S
  OBVIOUS
<1> HIDE DEF S
<1>3. Closure(edges, {start}) \subseteq S
  BY <1>4, <1>1, ClosureIsLeast
<1> QED
  BY <1>2, <1>3

(* What leads to a step, along the edges, is what it leads to backwards.   *)
LEMMA BackwardsThenForwards ==
    ASSUME NEW edges \in SUBSET (Nodes \X Nodes),
           NEW n \in Nodes, NEW m \in Closure(Reverse(edges), {n})
    PROVE  n \in Closure(edges, {m})
<1> DEFINE S == {x \in Nodes : n \in Closure(edges, {x})}
<1>1. Reverse(edges) \in SUBSET (Nodes \X Nodes)
  BY DEF Reverse
<1>2. S \in SUBSET Nodes /\ {n} \subseteq S /\ {n} \in SUBSET Nodes
  <2>1. n \in Closure(edges, {n})
    BY ClosureIsClosed
  <2> QED
    BY <2>1
<1>3. ASSUME NEW x \in Nodes, NEW y \in Nodes, x \in S, <<x, y>> \in Reverse(edges) PROVE y \in S
  <2>1. <<y, x>> \in edges
    BY <1>3 DEF Reverse
  <2>2. y \in Closure(edges, {y})
    BY ClosureIsClosed
  <2>3. x \in Closure(edges, {y})
    BY <2>1, <2>2, ClosureIsClosed
  <2> QED
    BY <1>3, <2>3, ClosureIsTransitive
<1>4. Closure(Reverse(edges), {n}) \subseteq S
  <2> HIDE DEF S
  <2>1. \A x, y \in Nodes : x \in S /\ <<x, y>> \in Reverse(edges) => y \in S
    BY <1>3
  <2> QED
    BY <1>1, <1>2, <2>1, ClosureIsLeast
<1> QED
  BY <1>4

LEMMA ForwardsThenBackwards ==
    ASSUME NEW edges \in SUBSET (Nodes \X Nodes),
           NEW m \in Nodes, NEW n \in Closure(edges, {m})
    PROVE  m \in Closure(Reverse(edges), {n})
<1>1. Reverse(edges) \in SUBSET (Nodes \X Nodes)
  BY DEF Reverse
<1>2. Reverse(Reverse(edges)) = edges
  <2>1. ASSUME NEW e \in edges PROVE e \in Reverse(Reverse(edges))
    <3>1. <<e[2], e[1]>> \in Reverse(edges)
      BY DEF Reverse
    <3>2. <<<<e[2], e[1]>>[2], <<e[2], e[1]>>[1]>> \in Reverse(Reverse(edges))
      BY <3>1 DEF Reverse
    <3> QED
      BY <3>2
  <2>2. ASSUME NEW r \in Reverse(Reverse(edges)) PROVE r \in edges
    <3>1. PICK q \in Reverse(edges) : r = <<q[2], q[1]>>
      BY DEF Reverse
    <3>2. PICK e \in edges : q = <<e[2], e[1]>>
      BY DEF Reverse
    <3> QED
      BY <3>1, <3>2
  <2> QED
    BY <2>1, <2>2
<1> QED
  BY <1>1, <1>2, BackwardsThenForwards

(* The steps reached from a step around the blocked ones.                  *)
LEMMA ReachedIsClosed ==
    ASSUME NEW edges \in SUBSET (Nodes \X Nodes), NEW start \in Nodes, NEW blocked
    PROVE  /\ Reached(edges, start, blocked) \subseteq Nodes
           /\ start \notin blocked => start \in Reached(edges, start, blocked)
           /\ \A m, n \in Nodes : m \in Reached(edges, start, blocked) /\ <<m, n>> \in edges /\ n \notin blocked =>
                                      n \in Reached(edges, start, blocked)
<1> DEFINE open == {e \in edges : e[2] \notin blocked}
<1>1. open \in SUBSET (Nodes \X Nodes) /\ {start} \in SUBSET Nodes
  OBVIOUS
<1>2. \A m, n \in Nodes : <<m, n>> \in edges /\ n \notin blocked => <<m, n>> \in open
  OBVIOUS
<1>3. /\ Closure(open, {start}) \subseteq Nodes /\ start \in Closure(open, {start})
      /\ \A m, n \in Nodes : m \in Closure(open, {start}) /\ <<m, n>> \in open => n \in Closure(open, {start})
  <2> HIDE DEF open
  <2> QED
    BY <1>1, ClosureIsClosed
<1>4. Reached(edges, start, blocked) = IF start \in blocked THEN {} ELSE Closure(open, {start})
  BY DEF Reached
<1> HIDE DEF open
<1> QED
  BY <1>2, <1>3, <1>4

(* No blocked step is reached; what is reached around more is reached      *)
(* around less.                                                            *)
LEMMA ReachedAvoids ==
    ASSUME NEW edges \in SUBSET (Nodes \X Nodes), NEW start \in Nodes, NEW blocked
    PROVE  Reached(edges, start, blocked) \cap blocked = {}
<1> DEFINE open == {e \in edges : e[2] \notin blocked}
           S == Nodes \ blocked
<1>1. CASE start \in blocked
  BY <1>1 DEF Reached
<1>2. CASE start \notin blocked
  <2>1. open \in SUBSET (Nodes \X Nodes) /\ {start} \in SUBSET Nodes /\ S \in SUBSET Nodes /\ {start} \subseteq S
    BY <1>2
  <2>2. \A m, n \in Nodes : m \in S /\ <<m, n>> \in open => n \in S
    OBVIOUS
  <2>3. Reached(edges, start, blocked) = Closure(open, {start})
    BY <1>2 DEF Reached
  <2> HIDE DEF open, S
  <2>4. Closure(open, {start}) \subseteq S
    BY <2>1, <2>2, ClosureIsLeast
  <2> QED
    BY <2>3, <2>4 DEF S
<1> QED
  BY <1>1, <1>2

LEMMA ReachedIsMonotone ==
    ASSUME NEW edges \in SUBSET (Nodes \X Nodes), NEW start \in Nodes, NEW blocked
    PROVE  Reached(edges, start, blocked) \subseteq Closure(edges, {start})
<1> DEFINE open == {e \in edges : e[2] \notin blocked}
<1>1. open \in SUBSET edges /\ {start} \in SUBSET Nodes
  OBVIOUS
<1>2. Closure(open, {start}) \subseteq Closure(edges, {start})
  <2> HIDE DEF open
  <2> QED
    BY <1>1, ClosureIsMonotone
<1> QED
  BY <1>2 DEF Reached

LEMMA ReachedAroundNothing ==
    ASSUME NEW edges, NEW start
    PROVE  Reached(edges, start, {}) = Closure(edges, {start})
<1>1. {e \in edges : e[2] \notin {}} = edges
  OBVIOUS
<1> QED
  BY <1>1 DEF Reached

LEMMA ReachedIsTransitive ==
    ASSUME NEW edges \in SUBSET (Nodes \X Nodes), NEW start \in Nodes, NEW blocked,
           NEW m \in Reached(edges, start, blocked)
    PROVE  Reached(edges, m, blocked) \subseteq Reached(edges, start, blocked)
<1> DEFINE open == {e \in edges : e[2] \notin blocked}
<1>1. open \in SUBSET (Nodes \X Nodes) /\ start \notin blocked
      /\ Reached(edges, start, blocked) = Closure(open, {start})
      /\ Reached(edges, m, blocked) \subseteq Closure(open, {m})
  BY DEF Reached
<1>2. Closure(open, {m}) \subseteq Closure(open, {start})
  <2> HIDE DEF open
  <2> QED
    BY <1>1, ClosureIsTransitive
<1> QED
  BY <1>1, <1>2

LEMMA ReachedHasPredecessors ==
    ASSUME NEW edges \in SUBSET (Nodes \X Nodes), NEW start \in Nodes, NEW blocked,
           NEW n \in Reached(edges, start, blocked), n # start
    PROVE  \E m \in Reached(edges, start, blocked) : <<m, n>> \in edges
<1> DEFINE open == {e \in edges : e[2] \notin blocked}
<1>1. open \in SUBSET (Nodes \X Nodes) /\ start \notin blocked
      /\ Reached(edges, start, blocked) = Closure(open, {start})
  BY DEF Reached
<1>2. \E m \in Closure(open, {start}) : <<m, n>> \in open
  <2> HIDE DEF open
  <2> QED
    BY <1>1, ClosureHasPredecessors
<1> QED
  BY <1>1, <1>2

(* A finite set that is not empty has a member of the greatest rank.       *)
LEMMA GreatestExists ==
    ASSUME NEW S, IsFiniteSet(S), S # {}, NEW rank \in [S -> Int]
    PROVE  \E x \in S : \A y \in S : rank[x] >= rank[y]
<1> DEFINE Dominating == {U \in SUBSET S : \A y \in S : \E x \in U : rank[x] >= rank[y]}
<1>1. Dominating \subseteq FiniteSubsetsOf(S) /\ Dominating # {}
  <2>1. S \in Dominating
    OBVIOUS
  <2>2. \A U \in SUBSET S : IsFiniteSet(U)
    BY FS_Subset
  <2> QED
    BY <2>1, <2>2 DEF FiniteSubsetsOf
<1>2. PICK U \in Dominating : \A V \in Dominating : <<V, U>> \notin StrictSubsetOrdering(S)
  <2> HIDE DEF Dominating
  <2> QED
    BY <1>1, FS_StrictSubsetOrderingWellFounded, WFMin
<1>3. ASSUME NEW x \in U, NEW y \in U, x # y, rank[x] >= rank[y] PROVE FALSE
  <2>1. U \ {y} \in SUBSET S
    OBVIOUS
  <2>2. ASSUME NEW z \in S PROVE \E v \in U \ {y} : rank[v] >= rank[z]
    <3>1. PICK v \in U : rank[v] >= rank[z]
      OBVIOUS
    <3>2. CASE v # y
      BY <3>1, <3>2
    <3>3. CASE v = y
      <4>1. rank[x] \in Int /\ rank[y] \in Int /\ rank[z] \in Int
        OBVIOUS
      <4>2. rank[x] >= rank[z]
        BY <1>3, <3>1, <3>3, <4>1
      <4> QED
        BY <1>3, <4>2
    <3> QED
      BY <3>2, <3>3
  <2>3. U \ {y} \in Dominating
    BY <2>1, <2>2
  <2>4. <<U \ {y}, U>> \in StrictSubsetOrdering(S)
    BY DEF StrictSubsetOrdering
  <2> QED
    BY <1>2, <2>3, <2>4
<1>4. ASSUME NEW x \in U, NEW y \in U PROVE x = y
  <2>1. rank[x] \in Int /\ rank[y] \in Int
    OBVIOUS
  <2>2. rank[x] >= rank[y] \/ rank[y] >= rank[x]
    BY <2>1
  <2> QED
    BY <1>3, <2>2
<1>5. PICK x \in U : TRUE
  OBVIOUS
<1>6. ASSUME NEW y \in S PROVE rank[x] >= rank[y]
  BY <1>4
<1> QED
  BY <1>5, <1>6
-----------------------------------------------------------------------------
(* What holds of every run of a workflow.  The run has come around all the *)
(* guards that it has not been at; its taints are among those that were    *)
(* found to get to its step.                                               *)
RunTyped ==
    /\ workflow \in Workflows /\ report = Report(workflow) /\ at \in Nodes
    /\ visits \in [Nodes -> Nat] /\ carried \subseteq Taints
RouteIsUncut ==
    \A cut \in SUBSET Guards(workflow) :
        cut \cap crossed = {} => at \in Reached(workflow.edges, Entry, cut)
TaintsAreTracked == \A t \in carried : at \in Tainted(workflow, t)
VisitsAreLimited ==
    /\ \A n \in Nodes : \A limit \in Limits(workflow, n) : visits[n] <= limit
    /\ ~Counts(workflow) => \A n \in Nodes : visits[n] = 0

(* A step that was not visited has been gone around.  The controller of a  *)
(* cycle is ahead of its other steps; where one has caught up, the run has *)
(* come from there without the controller.                                 *)
ControllersLead ==
    /\ \A k \in Nodes : Counts(workflow) /\ visits[k] = 0 => at \in Reached(workflow.edges, Entry, {k})
    /\ \A c \in Cycles(workflow) : \A k \in c : Controls(workflow, c, k) =>
          \A n \in c \ {k} :
             /\ visits[n] <= visits[k]
             /\ visits[k] > 0 /\ visits[n] = visits[k] => at \in Reached(workflow.edges, n, {k})
RunInv == RunTyped /\ RouteIsUncut /\ TaintsAreTracked /\ VisitsAreLimited /\ ControllersLead

LEMMA WorkflowFacts ==
    ASSUME NEW w \in Workflows
    PROVE  /\ w.edges \in SUBSET (Nodes \X Nodes) /\ Entry \in Nodes
           /\ \A n \in Nodes : /\ w.steps[n].taints \subseteq Taints
                              /\ Limits(w, n) \subseteq Nat \ {0}
           /\ \A n \in Nodes : Limits(w, n) # {} => Counts(w)
<1>1. /\ w.edges \in SUBSET (Nodes \X Nodes) /\ Entry \in Nodes
      /\ w.bound \in (Nat \ {0}) \cup {Unset}
      /\ \A n \in Nodes : w.steps[n].taints \subseteq Taints /\ w.steps[n].bound \in (Nat \ {0}) \cup {Unset}
  BY WorkflowsAssumption
<1> QED
  BY <1>1 DEF Limits, Counts

(* The parts of a cycle: every step of it is reached from every other.     *)
LEMMA CyclesAreConnected ==
    ASSUME NEW w \in Workflows, NEW c \in Cycles(w)
    PROVE  /\ c \subseteq Nodes
           /\ \A n \in c, x \in Nodes :
                 x \in Closure(w.edges, {n}) /\ n \in Closure(w.edges, {x}) => x \in c
<1>1. w.edges \in SUBSET (Nodes \X Nodes) /\ Reverse(w.edges) \in SUBSET (Nodes \X Nodes)
  BY WorkflowFacts DEF Reverse
<1>2. PICK m \in Nodes : c = Closure(w.edges, {m}) \cap Closure(Reverse(w.edges), {m})
  BY ReachedAroundNothing DEF Cycles, Component
<1>3. c \subseteq Nodes
  BY <1>2 DEF Closure
<1>4. ASSUME NEW n \in c, NEW x \in Nodes, x \in Closure(w.edges, {n}), n \in Closure(w.edges, {x})
      PROVE  x \in c
  <2>1. n \in Nodes /\ n \in Closure(w.edges, {m}) /\ n \in Closure(Reverse(w.edges), {m})
    BY <1>2, <1>3
  <2>2. x \in Closure(w.edges, {m})
    BY <1>1, <1>4, <2>1, ClosureIsTransitive
  <2>3. x \in Closure(Reverse(w.edges), {n})
    BY <1>1, <1>4, ForwardsThenBackwards
  <2>4. x \in Closure(Reverse(w.edges), {m})
    BY <1>1, <2>1, <2>3, ClosureIsTransitive
  <2> QED
    BY <1>2, <2>2, <2>4
<1> QED
  BY <1>3, <1>4

(* There is no way round a controller: from a step of its cycle, without   *)
(* the controller, no edge leads back to the step.                         *)
LEMMA NoWayRound ==
    ASSUME NEW w \in Workflows, NEW c \in Cycles(w), NEW k \in c, Controls(w, c, k),
           NEW n \in c, n # k, NEW m \in Reached(w.edges, n, {k}), <<m, n>> \in w.edges
    PROVE  FALSE
<1> DEFINE S == {x \in Reached(w.edges, n, {k}) : n \in Reached(w.edges, x, {k})}
<1>1. w.edges \in SUBSET (Nodes \X Nodes) /\ n \in Nodes /\ k \in Nodes /\ c \subseteq Nodes
  BY WorkflowFacts, CyclesAreConnected
<1>2. n \in Reached(w.edges, n, {k}) /\ Reached(w.edges, n, {k}) \subseteq Nodes \ {k}
  BY <1>1, ReachedIsClosed, ReachedAvoids
<1>3. S \in SUBSET (c \ {k}) /\ n \in S
  <2>1. ASSUME NEW x \in S PROVE x \in c
    <3>1. x \in Nodes /\ x \in Closure(w.edges, {n}) /\ n \in Closure(w.edges, {x})
      BY <1>1, <1>2, ReachedIsMonotone
    <3> QED
      BY <3>1, CyclesAreConnected
  <2> QED
    BY <1>2, <2>1
<1>4. PICK x \in S : \A y \in S : <<y, x>> \notin w.edges
  <2>1. Peels(w.edges, c \ {k})
    BY DEF Controls
  <2> HIDE DEF S
  <2> QED
    BY <1>3, <2>1 DEF Peels
<1>5. ASSUME NEW y \in Reached(w.edges, n, {k}), NEW z \in S, <<y, z>> \in w.edges PROVE y \in S
  <2>1. y \in Nodes /\ z \in Nodes /\ y # k /\ z # k
    BY <1>1, <1>2
  <2>2. y \in Reached(w.edges, y, {k})
    BY <1>1, <2>1, ReachedIsClosed
  <2>3. z \in Reached(w.edges, y, {k})
    BY <1>1, <1>5, <2>1, <2>2, ReachedIsClosed
  <2>4. n \in Reached(w.edges, z, {k})
    OBVIOUS
  <2>5. n \in Reached(w.edges, y, {k})
    BY <1>1, <2>1, <2>3, <2>4, ReachedIsTransitive
  <2> QED
    BY <2>5
<1>6. CASE x = n
  BY <1>3, <1>4, <1>5, <1>6
<1>7. CASE x # n
  <2>1. PICK y \in Reached(w.edges, n, {k}) : <<y, x>> \in w.edges
    BY <1>1, <1>7, ReachedHasPredecessors
  <2> QED
    BY <1>4, <1>5, <2>1
<1> QED
  BY <1>6, <1>7
-----------------------------------------------------------------------------
LEMMA WorkflowInitRunInv == WorkflowInit => RunInv
<1> SUFFICES ASSUME WorkflowInit PROVE RunInv
  OBVIOUS
<1> DEFINE w == workflow
<1>1. /\ w \in Workflows /\ w.edges \in SUBSET (Nodes \X Nodes) /\ Entry \in Nodes
      /\ \A n \in Nodes : w.steps[n].taints \subseteq Taints /\ Limits(w, n) \subseteq Nat \ {0}
      /\ \A n \in Nodes : Limits(w, n) # {} => Counts(w)
  BY WorkflowFacts DEF WorkflowInit
<1>2. Entry \in Reached(w.edges, Entry, {})
  BY <1>1, ReachedIsClosed
<1>3. RunTyped
  BY <1>1 DEF RunTyped, WorkflowInit, Carried
<1>4. RouteIsUncut
  <2> SUFFICES ASSUME NEW cut \in SUBSET Guards(w), cut \cap crossed = {} PROVE Entry \in Reached(w.edges, Entry, cut)
    BY DEF RouteIsUncut, WorkflowInit
  <2>1. Entry \notin cut
    BY DEF WorkflowInit, Seen
  <2> QED
    BY <1>1, <2>1, ReachedIsClosed
<1>5. TaintsAreTracked
  <2> SUFFICES ASSUME NEW t \in carried PROVE Entry \in Tainted(w, t)
    BY DEF TaintsAreTracked, WorkflowInit
  <2> DEFINE clears(n) == t \in w.steps[n].clears
             reachable == Reached(w.edges, Entry, {})
             edges == {e \in w.edges : ~clears(e[1]) /\ e[2] \in reachable}
             found == {n \in reachable : t \in w.steps[n].taints}
  <2>1. Entry \in found /\ ~clears(Entry)
    BY <1>2 DEF WorkflowInit, Carried
  <2>2. edges \in SUBSET (Nodes \X Nodes) /\ found \in SUBSET Nodes
    BY <1>1, ReachedIsClosed
  <2>3. Entry \in Closure(edges, found)
    <3> HIDE DEF edges, found
    <3> QED
      BY <2>1, <2>2, ClosureIsClosed
  <2> QED
    BY <1>1, <2>1, <2>3 DEF Tainted
<1>6. VisitsAreLimited
  <2>1. \A n \in Nodes : visits[n] = IF n = Entry /\ Counts(w) THEN 1 ELSE 0
    BY DEF WorkflowInit
  <2> QED
    BY <1>1, <2>1 DEF VisitsAreLimited
<1>7. ControllersLead
  <2>1. \A n \in Nodes : visits[n] = IF n = Entry /\ Counts(w) THEN 1 ELSE 0
    BY DEF WorkflowInit
  <2>2. ASSUME NEW k \in Nodes, Counts(w), visits[k] = 0 PROVE at \in Reached(w.edges, Entry, {k})
    <3>1. Entry # k /\ at = Entry
      BY <2>1, <2>2 DEF WorkflowInit
    <3> QED
      BY <1>1, <3>1, ReachedIsClosed
  <2>3. ASSUME NEW c \in Cycles(w), NEW k \in c, Controls(w, c, k), NEW n \in c \ {k}
        PROVE  visits[n] <= visits[k] /\ ~(visits[k] > 0 /\ visits[n] = visits[k])
    <3>1. n \in Nodes /\ k \in Nodes
      BY <1>1, CyclesAreConnected
    <3>2. n # Entry
      <4> SUFFICES ASSUME n = Entry PROVE FALSE
        OBVIOUS
      <4>1. Entry \in Reached(w.edges, Entry, {k})
        BY <1>1, ReachedIsClosed
      <4> QED
        BY <2>3, <4>1 DEF Controls
    <3> QED
      BY <2>1, <3>1, <3>2
  <2> QED
    BY <2>2, <2>3 DEF ControllersLead
<1> QED
  BY <1>3, <1>4, <1>5, <1>6, <1>7 DEF RunInv

LEMMA GoPreservesRunInv ==
    ASSUME RunInv, NEW n \in Nodes, Go(n)
    PROVE  RunInv'
<1> DEFINE w == workflow
<1>1. /\ w \in Workflows /\ w.edges \in SUBSET (Nodes \X Nodes) /\ Entry \in Nodes /\ at \in Nodes
      /\ \A x \in Nodes : w.steps[x].taints \subseteq Taints /\ Limits(w, x) \subseteq Nat \ {0}
      /\ \A x \in Nodes : Limits(w, x) # {} => Counts(w)
      /\ visits \in [Nodes -> Nat]
  BY WorkflowFacts DEF RunInv, RunTyped
<1>2. <<at, n>> \in w.edges /\ at' = n /\ workflow' = w /\ report' = report
  BY DEF Go, Targets
<1>3. \A x \in Nodes : visits'[x] = IF x = n /\ Counts(w) THEN visits[x] + 1 ELSE visits[x]
  BY <1>1 DEF Go
<1>4. /\ at \in Reached(w.edges, Entry, {}) /\ n \in Reached(w.edges, Entry, {})
  <2>1. at \in Reached(w.edges, Entry, {})
    BY DEF RunInv, RouteIsUncut
  <2> QED
    BY <1>1, <1>2, <2>1, ReachedIsClosed
<1>5. RunTyped'
  <2>1. visits' \in [Nodes -> Nat]
    BY <1>1 DEF Go
  <2> QED
    BY <1>1, <1>2, <2>1 DEF RunInv, RunTyped, Go, Carried
<1>6. RouteIsUncut'
  <2> SUFFICES ASSUME NEW cut \in SUBSET Guards(w), cut \cap crossed' = {} PROVE n \in Reached(w.edges, Entry, cut)
    BY <1>2 DEF RouteIsUncut
  <2>1. n \notin cut /\ cut \cap crossed = {}
    BY <1>2 DEF Go, Seen
  <2>2. at \in Reached(w.edges, Entry, cut)
    BY <2>1 DEF RunInv, RouteIsUncut
  <2> QED
    BY <1>1, <1>2, <2>1, <2>2, ReachedIsClosed
<1>7. TaintsAreTracked'
  <2> SUFFICES ASSUME NEW t \in carried' PROVE n \in Tainted(w, t)
    BY <1>2 DEF TaintsAreTracked
  <2> DEFINE clears(x) == t \in w.steps[x].clears
             reachable == Reached(w.edges, Entry, {})
             edges == {e \in w.edges : ~clears(e[1]) /\ e[2] \in reachable}
             found == {x \in reachable : t \in w.steps[x].taints}
  <2>1. ~clears(n) /\ (t \in carried \/ n \in found)
    BY <1>4 DEF Go, Carried
  <2>2. edges \in SUBSET (Nodes \X Nodes) /\ found \in SUBSET Nodes
    BY <1>1, ReachedIsClosed
  <2>3. ASSUME t \in carried PROVE at \in Closure(edges, found) /\ <<at, n>> \in edges
    <3>1. at \in Tainted(w, t)
      BY <2>3 DEF RunInv, TaintsAreTracked
    <3>2. at \in Closure(edges, found) /\ ~clears(at)
      BY <1>1, <3>1 DEF Tainted
    <3> QED
      BY <1>2, <1>4, <3>2
  <2>4. n \in Closure(edges, found)
    <3> HIDE DEF edges, found
    <3> QED
      BY <1>1, <2>1, <2>2, <2>3, ClosureIsClosed
  <2> QED
    BY <2>1, <2>4 DEF Tainted
<1>8. VisitsAreLimited'
  <2>1. \A limit \in Limits(w, n) : visits[n] < limit
    BY DEF Go, MayVisit
  <2>2. ASSUME NEW x \in Nodes, NEW limit \in Limits(w, x) PROVE visits'[x] <= limit
    <3>1. visits[x] <= limit /\ visits[x] \in Nat /\ limit \in Nat
      BY <1>1 DEF RunInv, VisitsAreLimited
    <3> QED
      BY <1>3, <2>1, <3>1
  <2>3. ASSUME ~Counts(w), NEW x \in Nodes PROVE visits'[x] = 0
    BY <1>3, <2>3 DEF RunInv, VisitsAreLimited
  <2> QED
    BY <1>2, <2>2, <2>3 DEF VisitsAreLimited
<1>9. ControllersLead'
  <2>1. ASSUME NEW k \in Nodes, Counts(w), visits'[k] = 0 PROVE n \in Reached(w.edges, Entry, {k})
    <3>1. k # n /\ visits[k] = 0
      BY <1>1, <1>3, <2>1
    <3>2. at \in Reached(w.edges, Entry, {k})
      BY <2>1, <3>1 DEF RunInv, ControllersLead
    <3> QED
      BY <1>1, <1>2, <3>1, <3>2, ReachedIsClosed
  <2>2. ASSUME NEW c \in Cycles(w), NEW k \in c, Controls(w, c, k), NEW x \in c \ {k}
        PROVE  /\ visits'[x] <= visits'[k]
               /\ visits'[k] > 0 /\ visits'[x] = visits'[k] => n \in Reached(w.edges, x, {k})
    <3>1. x \in Nodes /\ k \in Nodes /\ x # k /\ visits[x] \in Nat /\ visits[k] \in Nat
      BY <1>1, CyclesAreConnected
    <3>2. visits[x] <= visits[k] /\ (visits[k] > 0 /\ visits[x] = visits[k] => at \in Reached(w.edges, x, {k}))
      BY <2>2 DEF RunInv, ControllersLead
    <3>3. CASE ~Counts(w)
      BY <1>3, <3>1, <3>3 DEF RunInv, VisitsAreLimited
    <3>4. CASE Counts(w) /\ n = k
      BY <1>3, <3>1, <3>2, <3>4
    <3>5. CASE Counts(w) /\ n = x
      <4>1. visits[x] # visits[k]
        <5> SUFFICES ASSUME visits[x] = visits[k] PROVE FALSE
          OBVIOUS
        <5>1. CASE visits[k] > 0
          <6>1. at \in Reached(w.edges, x, {k}) /\ <<at, x>> \in w.edges
            BY <1>2, <3>2, <3>5, <5>1
          <6> QED
            BY <1>1, <2>2, <3>1, <6>1, NoWayRound
        <5>2. CASE visits[k] = 0
          <6>1. at \in Reached(w.edges, Entry, {k})
            BY <3>1, <3>5, <5>2 DEF RunInv, ControllersLead
          <6>2. x \in Reached(w.edges, Entry, {k})
            BY <1>1, <1>2, <3>1, <3>5, <6>1, ReachedIsClosed
          <6> QED
            BY <2>2, <3>1, <6>2 DEF Controls
        <5> QED
          BY <3>1, <5>1, <5>2
      <4>2. x \in Reached(w.edges, x, {k})
        BY <1>1, <3>1, ReachedIsClosed
      <4> QED
        BY <1>3, <3>1, <3>2, <3>5, <4>1, <4>2
    <3>6. CASE Counts(w) /\ n # k /\ n # x
      <4>1. visits'[x] = visits[x] /\ visits'[k] = visits[k]
        BY <1>3, <3>1, <3>6
      <4>2. at \in Reached(w.edges, x, {k}) => n \in Reached(w.edges, x, {k})
        BY <1>1, <1>2, <3>1, <3>6, ReachedIsClosed
      <4> QED
        BY <3>2, <4>1, <4>2
    <3> QED
      BY <3>3, <3>4, <3>5, <3>6
  <2> QED
    BY <1>2, <2>1, <2>2 DEF ControllersLead
<1> QED
  BY <1>5, <1>6, <1>7, <1>8, <1>9 DEF RunInv
-----------------------------------------------------------------------------
(* A report that says it is complete is of the whole workflow, and has all *)
(* its risks.                                                              *)
LEMMA CompleteReports ==
    ASSUME NEW w, Report(w).assessment_complete
    PROVE  /\ AllRisks(w) \subseteq Report(w).risks
           /\ Report(w).cycle_bounds = {[nodes |-> c, most |-> CycleBound(w, c)] : c \in Cycles(w)}
<1>1. Cardinality(Provided(w)) <= MaxRisks /\ ~TooManyEdges(w)
  BY DEF Report
<1>2. Analyzed(w) = w
  BY <1>1 DEF Analyzed
<1>3. AllRisks(w) \subseteq Provided(w) /\ Report(w).risks = Provided(w)
  BY <1>1, <1>2 DEF Provided, Report
<1>4. Report(w).cycle_bounds =
          {[nodes |-> c, most |-> CycleBound(Analyzed(w), c)] : c \in Cycles(Analyzed(w))}
  BY DEF Report
<1> QED
  BY <1>2, <1>3, <1>4

LEMMA RunInvBounds ==
    ASSUME RunInv, report.assessment_complete PROVE BoundsHold
<1> DEFINE w == workflow
<1>1. /\ w \in Workflows /\ report = Report(w) /\ visits \in [Nodes -> Nat]
      /\ \A n \in Nodes : Limits(w, n) \subseteq Nat \ {0}
  BY WorkflowFacts DEF RunInv, RunTyped
<1> SUFFICES ASSUME NEW c \in Cycles(w), CycleBound(w, c) # Unset, NEW n \in c
             PROVE  visits[n] <= CycleBound(w, c)
  BY <1>1, CompleteReports DEF BoundsHold
<1> DEFINE bound(x) == w.steps[x].bound
           controllers == {x \in c : bound(x) # Unset /\ Controls(w, c, x)}
<1>2. c \subseteq Nodes /\ IsFiniteSet(c) /\ n \in Nodes
  BY <1>1, CyclesAreConnected, FS_Subset, WorkflowsAssumption
<1>3. \A x \in Nodes : \A limit \in Limits(w, x) : visits[x] <= limit
  BY DEF RunInv, VisitsAreLimited
<1>4. CASE w.bound # Unset
  <2>1. w.bound \in Limits(w, n) /\ CycleBound(w, c) = w.bound
    BY <1>4 DEF Limits, CycleBound
  <2> QED
    BY <1>2, <1>3, <2>1
<1>5. CASE w.bound = Unset /\ \A x \in c : bound(x) # Unset
  <2>1. \A x \in c : bound(x) \in Nat /\ visits[x] <= bound(x)
    BY <1>1, <1>2, <1>3, <1>5 DEF Limits
  <2> DEFINE rank == [x \in c |-> bound(x)]
  <2>2. \E x \in c : \A y \in c : rank[x] >= rank[y]
    <3>1. rank \in [c -> Int]
      BY <2>1
    <3> HIDE DEF rank
    <3> QED
      BY <1>2, <3>1, GreatestExists
  <2>3. \E x \in c : \A y \in c : bound(x) >= bound(y)
    BY <2>2
  <2> DEFINE most == CHOOSE x \in c : \A y \in c : bound(x) >= bound(y)
  <2>4. most \in c /\ bound(most) >= bound(n)
    BY <2>3
  <2>5. CycleBound(w, c) = bound(most)
    BY <1>5 DEF CycleBound
  <2> QED
    <3> HIDE DEF most
    <3>1. bound(most) \in Nat /\ bound(n) \in Nat /\ visits[n] \in Nat /\ visits[n] <= bound(n)
      BY <1>1, <1>2, <2>1, <2>4
    <3> QED
      BY <2>4, <2>5, <3>1
<1>6. CASE w.bound = Unset /\ ~\A x \in c : bound(x) # Unset
  <2> DEFINE first == CHOOSE x \in controllers : \A y \in controllers : x <= y
  <2>1. CycleBound(w, c) = (IF controllers = {} THEN Unset ELSE bound(first))
    BY <1>6 DEF CycleBound
  <2>2. controllers # {}
    BY <2>1
  <2> DEFINE rank == [x \in controllers |-> -x]
  <2>3. IsFiniteSet(controllers) /\ controllers \subseteq Int /\ rank \in [controllers -> Int]
    <3>1. controllers \in SUBSET c /\ controllers \subseteq Int
      BY <1>2, WorkflowsAssumption
    <3>2. IsFiniteSet(controllers)
      <4> HIDE DEF controllers
      <4> QED
        BY <1>2, <3>1, FS_Subset
    <3>3. \A x \in controllers : -x \in Int
      BY <3>1
    <3> QED
      BY <3>1, <3>2, <3>3
  <2>4. \E x \in controllers : \A y \in controllers : rank[x] >= rank[y]
    <3> HIDE DEF rank, controllers
    <3> QED
      BY <2>2, <2>3, GreatestExists
  <2>5. \E x \in controllers : \A y \in controllers : x <= y
    <3> HIDE DEF controllers
    <3> QED
      BY <2>3, <2>4
  <2>6. first \in controllers
    <3> HIDE DEF controllers
    <3> QED
      BY <2>5
  <2> HIDE DEF first
  <2>7. first \in c /\ Controls(w, c, first) /\ bound(first) # Unset /\ CycleBound(w, c) = bound(first)
    BY <2>1, <2>2, <2>6
  <2>8. visits[first] <= bound(first) /\ bound(first) \in Nat /\ visits[first] \in Nat /\ visits[n] \in Nat
    BY <1>1, <1>2, <1>3, <2>7 DEF Limits
  <2>9. visits[n] <= visits[first]
    <3>1. CASE n = first
      BY <2>8, <3>1
    <3>2. CASE n # first
      <4>1. ControllersLead /\ n \in c \ {first}
        BY <3>2 DEF RunInv
      <4> QED
        BY <2>7, <4>1 DEF ControllersLead
    <3> QED
      BY <3>1, <3>2
  <2> QED
    BY <2>7, <2>8, <2>9
<1> QED
  BY <1>4, <1>5, <1>6

LEMMA RunInvApproved ==
    ASSUME RunInv, report.assessment_complete PROVE SensitiveIsApproved
<1> DEFINE w == workflow
           step == w.steps[at]
<1> SUFFICES ASSUME step.sensitive, ~step.direct, ~step.guard, ~Approved(at)
             PROVE  Reported("sensitive_action_without_approval_guard", at)
  BY DEF SensitiveIsApproved
<1>1. at \in Nodes /\ report = Report(w)
  BY DEF RunInv, RunTyped
<1>2. Effective(w, at) \in SUBSET Guards(w) /\ Effective(w, at) \cap crossed = {}
  BY DEF Approved, Effective, Relevant, SelfApproved
<1>3. Unguarded(w, at)
  BY <1>2 DEF RunInv, RouteIsUncut, Unguarded
<1>4. at \in Reached(w.edges, Entry, {})
  BY DEF RunInv, RouteIsUncut
<1> DEFINE r == RiskAt("sensitive_action_without_approval_guard", {at}, {}, "none")
<1>5. r \in ApprovalRisks(w)
  <2> DEFINE bare == {n \in Sensitive(w) \ Direct(w) : Unguarded(w, n)}
  <2>1. at \in bare
    BY <1>3, <1>4 DEF Sensitive, Direct
  <2>2. r \in Risk("sensitive_action_without_approval_guard", bare)
    BY <2>1 DEF Risk
  <2> QED
    BY <2>2 DEF ApprovalRisks
<1>6. r.risk = "sensitive_action_without_approval_guard" /\ r.nodes = {at}
  BY DEF RiskAt
<1> HIDE DEF r
<1> QED
  BY <1>1, <1>5, <1>6, CompleteReports DEF Reported, AllRisks

LEMMA RunInvTaint ==
    ASSUME RunInv, report.assessment_complete PROVE TaintIsReported
<1> DEFINE w == workflow
<1> SUFFICES ASSUME NEW t \in carried, NEW sink \in Sinks(w.steps[at], t)
             PROVE  Reported(RiskOf[sink], at)
  BY DEF TaintIsReported
<1>1. at \in Nodes /\ report = Report(w) /\ t \in Taints
  BY DEF RunInv, RunTyped
<1>2. at \in Tainted(w, t)
  BY DEF RunInv, TaintsAreTracked
<1>3. sink \in DOMAIN RiskOf
  BY DEF Sinks, RiskOf
<1> DEFINE r == RiskAt(RiskOf[sink], {at}, {}, IF sink \in {"tool", "routing"} THEN t ELSE "none")
<1>4. <<t, at, sink>> \in Taints \X Nodes \X DOMAIN RiskOf
  BY <1>1, <1>3
<1>5. r \in TaintRisks(w)
  <2> DEFINE tainted == [u \in Taints |-> Tainted(w, u)]
             flows == {f \in Taints \X Nodes \X DOMAIN RiskOf :
                          f[2] \in tainted[f[1]] /\ f[3] \in Sinks(w.steps[f[2]], f[1])}
             named(f) == IF f[3] \in {"tool", "routing"} THEN f[1] ELSE "none"
             flow == <<t, at, sink>>
  <2>1. flow \in flows
    BY <1>1, <1>2, <1>4
  <2>2. r = RiskAt(RiskOf[flow[3]], {flow[2]}, {}, named(flow))
    OBVIOUS
  <2>3. TaintRisks(w) = {RiskAt(RiskOf[f[3]], {f[2]}, {}, named(f)) : f \in flows}
    BY DEF TaintRisks
  <2> HIDE DEF r, flows, flow, named
  <2> QED
    BY <2>1, <2>2, <2>3
<1>6. r.risk = RiskOf[sink] /\ r.nodes = {at}
  BY DEF RiskAt
<1> HIDE DEF r
<1> QED
  BY <1>1, <1>5, <1>6, CompleteReports DEF Reported, AllRisks

LEMMA EscalationStep ==
    ASSUME RunInv, report.assessment_complete, NEW n \in Nodes, Go(n), Escalates(workflow, at, at')
    PROVE  workflow.steps[at'].direct \/ Approved(at)' \/ Reported("unapproved_privilege_escalation", at')
<1> DEFINE w == workflow
<1>1. RunInv' /\ at' = n /\ workflow' = w /\ report' = report /\ <<at, n>> \in w.edges
  BY GoPreservesRunInv DEF Go, Targets
<1> SUFFICES ASSUME ~w.steps[n].direct, ~Approved(at)'
             PROVE  Reported("unapproved_privilege_escalation", n)
  BY <1>1
<1>2. report = Report(w)
  BY DEF RunInv, RunTyped
<1>3. Effective(w, n) \in SUBSET Guards(w) /\ Effective(w, n) \cap crossed' = {}
  BY <1>1 DEF Approved, Effective, Relevant, SelfApproved
<1>4. Unguarded(w, n)
  BY <1>1, <1>3 DEF RunInv, RouteIsUncut, Unguarded
<1>5. at \in Reached(w.edges, Entry, {}) /\ n \in Reached(w.edges, Entry, {})
  BY <1>1 DEF RunInv, RouteIsUncut
<1> DEFINE r == RiskAt("unapproved_privilege_escalation", {n}, {at}, "none")
<1>6. r \in EscalationRisks(w)
  <2> DEFINE reachable == Reached(w.edges, Entry, {})
             escalations == {e \in w.edges : /\ {e[1], e[2]} \subseteq reachable /\ Escalates(w, e[1], e[2])
                                             /\ ~w.steps[e[2]].direct /\ Unguarded(w, e[2])}
             edge == <<at, n>>
  <2>1. edge \in escalations
    BY <1>1, <1>4, <1>5
  <2>2. r = RiskAt("unapproved_privilege_escalation", {edge[2]}, {edge[1]}, "none")
    OBVIOUS
  <2>3. EscalationRisks(w) =
            {RiskAt("unapproved_privilege_escalation", {e[2]}, {e[1]}, "none") : e \in escalations}
    BY DEF EscalationRisks
  <2> HIDE DEF r, escalations, edge
  <2> QED
    BY <2>1, <2>2, <2>3
<1>7. r.risk = "unapproved_privilege_escalation" /\ r.nodes = {n}
  BY DEF RiskAt
<1> HIDE DEF r
<1> QED
  BY <1>2, <1>6, <1>7, CompleteReports DEF Reported, AllRisks
-----------------------------------------------------------------------------
(* The verdict of authorize.  What a session is judged by is well typed.   *)
SessionTyped == policy \in PolicyRecords /\ artifact \in ArtifactRecords /\ payload \in PayloadRecords

LEMMA SessionStaysTyped ==
    ASSUME SessionTyped, Next PROVE SessionTyped'
<1>1. CASE Approve
  BY <1>1 DEF SessionTyped, Approve, PayloadRecords
<1>2. CASE Narrow
  <2>1. PICK perm \in payload.perms : payload' = [payload EXCEPT !.perms = @ \ {perm}]
    BY <1>2 DEF Narrow
  <2>2. payload' \in PayloadRecords
    BY <2>1 DEF SessionTyped, PayloadRecords
  <2> QED
    BY <1>2, <2>2 DEF SessionTyped, Narrow
<1>3. CASE BindStep
  <2>1. PICK id \in DOMAIN artifact.steps : payload' = [payload EXCEPT !.step = id]
    BY <1>3 DEF BindStep
  <2>2. DOMAIN artifact.steps = StepIds
    BY DEF SessionTyped, ArtifactRecords
  <2>3. payload' \in PayloadRecords
    BY <2>1, <2>2 DEF SessionTyped, PayloadRecords
  <2> QED
    BY <1>3, <2>3 DEF SessionTyped, BindStep
<1>4. CASE Tighten
  <2>1. payload.tool \in Tools /\ payload.perms \subseteq Permissions
    BY DEF SessionTyped, PayloadRecords
  <2>2. policy' \in PolicyRecords
    <3>1. CASE policy' \in {[policy EXCEPT !.deniedTools = @ \cup {payload.tool}],
                            [policy EXCEPT !.reviewTools = @ \cup {payload.tool}]}
      BY <2>1, <3>1 DEF SessionTyped, PolicyRecords
    <3>2. CASE \E perm \in payload.perms : policy' = [policy EXCEPT !.deniedPerms = @ \cup {perm}]
      BY <2>1, <3>2 DEF SessionTyped, PolicyRecords
    <3>3. CASE \E t \in policy.allowedTools : policy' = [policy EXCEPT !.allowedTools = @ \ {t}]
      BY <3>3 DEF SessionTyped, PolicyRecords
    <3>4. CASE policy' = [policy EXCEPT !.requireDeclared = TRUE, !.validateExternal = TRUE]
      BY <3>4 DEF SessionTyped, PolicyRecords
    <3> QED
      BY <1>4, <3>1, <3>2, <3>3, <3>4 DEF Tighten
  <2> QED
    BY <1>4, <2>2 DEF SessionTyped, Tighten
<1> QED
  BY <1>1, <1>2, <1>3, <1>4 DEF Next

(* More reasons to deny or to ask never make a verdict more lenient.       *)
LEMMA MoreReasonsNeverGrant ==
    ASSUME NEW p, NEW a, NEW q, NEW p1, NEW a1, NEW q1,
           DenyReasons(p, a, q) \subseteq DenyReasons(p1, a1, q1),
           ApprovalReasons(p, q) \subseteq ApprovalReasons(p1, q1),
           q1.approved => q.approved
    PROVE  /\ DeniedStays(Verdict(p1, a1, q1), Verdict(p, a, q))
           /\ NoStricter(Verdict(p, a, q), Verdict(p1, a1, q1))
BY DEF DeniedStays, NoStricter, Verdict

LEMMA ApproveStep ==
    ASSUME SessionTyped, Approve
    PROVE  Now' = IF Now = "REQUIRE_APPROVAL" THEN "ALLOW" ELSE Now
<1>1. /\ payload'.approved /\ payload'.tool = payload.tool /\ payload'.action = payload.action
      /\ payload'.perms = payload.perms /\ payload'.step = payload.step
      /\ payload'.untrusted = payload.untrusted /\ payload'.validated = payload.validated
      /\ policy' = policy /\ artifact' = artifact
  BY DEF Approve, SessionTyped, PayloadRecords
<1>2. DenyReasons(policy, artifact, payload') = DenyReasons(policy, artifact, payload)
  BY <1>1 DEF DenyReasons, ToolReasons, PermissionReasons, BindingReasons, StepReasons, ValidationReasons,
              Bound, IsExternal
<1>3. ApprovalReasons(policy, payload') = ApprovalReasons(policy, payload)
  BY <1>1 DEF ApprovalReasons
<1> QED
  BY <1>1, <1>2, <1>3 DEF Now, Verdict

LEMMA NarrowStep ==
    ASSUME SessionTyped, Narrow
    PROVE  NoStricter(Now', Now) /\ (Now = "REQUIRE_APPROVAL" => Now' # "DENY")
<1>1. /\ payload'.perms \subseteq payload.perms /\ payload'.approved = payload.approved
      /\ payload'.tool = payload.tool /\ payload'.action = payload.action /\ payload'.step = payload.step
      /\ payload'.untrusted = payload.untrusted /\ payload'.validated = payload.validated
      /\ policy' = policy /\ artifact' = artifact
  BY DEF Narrow, SessionTyped, PayloadRecords
<1>2. DenyReasons(policy, artifact, payload') \subseteq DenyReasons(policy, artifact, payload)
  <2>1. PermissionReasons(policy, artifact, payload') \subseteq PermissionReasons(policy, artifact, payload)
    BY <1>1 DEF PermissionReasons
  <2>2. StepReasons(artifact, payload') \subseteq StepReasons(artifact, payload)
    BY <1>1 DEF StepReasons, Bound
  <2>3. /\ ToolReasons(policy, artifact, payload') = ToolReasons(policy, artifact, payload)
        /\ BindingReasons(policy, artifact, payload') = BindingReasons(policy, artifact, payload)
        /\ ValidationReasons(policy, payload') = ValidationReasons(policy, payload)
    BY <1>1 DEF ToolReasons, BindingReasons, ValidationReasons, Bound, IsExternal
  <2> QED
    BY <2>1, <2>2, <2>3 DEF DenyReasons
<1>3. ApprovalReasons(policy, payload') = ApprovalReasons(policy, payload)
  BY <1>1 DEF ApprovalReasons
<1> QED
  BY <1>1, <1>2, <1>3 DEF Now, Verdict, NoStricter

LEMMA BindStepStep ==
    ASSUME SessionTyped, BindStep, ~policy.bindSteps
    PROVE  DeniedStays(Now', Now) /\ NoStricter(Now, Now')
<1>1. /\ payload'.perms = payload.perms /\ payload'.approved = payload.approved
      /\ payload'.tool = payload.tool /\ payload'.action = payload.action /\ payload.step = None
      /\ payload'.untrusted = payload.untrusted /\ payload'.validated = payload.validated
      /\ policy' = policy /\ artifact' = artifact
  BY DEF BindStep, SessionTyped, PayloadRecords
<1>2. DenyReasons(policy, artifact, payload) \subseteq DenyReasons(policy, artifact, payload')
  <2>1. /\ StepReasons(artifact, payload) = {}
        /\ BindingReasons(policy, artifact, payload) = {}
    BY <1>1 DEF StepReasons, BindingReasons, Bound
  <2>2. /\ ToolReasons(policy, artifact, payload') = ToolReasons(policy, artifact, payload)
        /\ PermissionReasons(policy, artifact, payload') = PermissionReasons(policy, artifact, payload)
        /\ ValidationReasons(policy, payload') = ValidationReasons(policy, payload)
    BY <1>1 DEF ToolReasons, PermissionReasons, ValidationReasons, IsExternal
  <2> QED
    BY <2>1, <2>2 DEF DenyReasons
<1>3. ApprovalReasons(policy, payload') = ApprovalReasons(policy, payload)
  BY <1>1 DEF ApprovalReasons
<1> QED
  BY <1>1, <1>2, <1>3, MoreReasonsNeverGrant DEF Now

LEMMA BoundCallsKeepToTheirStep ==
    ASSUME policy.bindSteps, Now # "DENY"
    PROVE  LET step == artifact.steps[payload.step]
           IN /\ Bound(artifact, payload)
              /\ payload.perms \subseteq step.perms
              /\ step.tool \in {None, payload.tool}
<1>1. DenyReasons(policy, artifact, payload) = {}
  BY DEF Now, Verdict
<1>2. BindingReasons(policy, artifact, payload) = {} /\ StepReasons(artifact, payload) = {}
  BY <1>1 DEF DenyReasons
<1>3. Bound(artifact, payload)
  <2>1. "workflow_step_binding_required" \notin BindingReasons(policy, artifact, payload)
        /\ "unknown_workflow_step" \notin BindingReasons(policy, artifact, payload)
    BY <1>2
  <2> QED
    BY <2>1 DEF BindingReasons
<1>4. "workflow_tool_mismatch" \notin StepReasons(artifact, payload)
      /\ "workflow_permission_escalation" \notin StepReasons(artifact, payload)
  BY <1>2
<1> QED
  BY <1>3, <1>4 DEF StepReasons

LEMMA TightenStep ==
    ASSUME SessionTyped, Tighten
    PROVE  DeniedStays(Now', Now) /\ NoStricter(Now, Now')
<1>1. artifact' = artifact /\ payload' = payload
  BY DEF Tighten
<1>2. /\ policy.deniedTools \subseteq policy'.deniedTools /\ policy.reviewTools \subseteq policy'.reviewTools
      /\ policy.deniedPerms \subseteq policy'.deniedPerms /\ policy.allowedPerms = policy'.allowedPerms
      /\ policy'.allowedTools \subseteq policy.allowedTools
      /\ policy.allowedTools # {} => policy'.allowedTools # {}
      /\ policy.requireDeclared => policy'.requireDeclared
      /\ policy.validateExternal => policy'.validateExternal
      /\ policy'.bindSteps = policy.bindSteps /\ policy'.approvalActions = policy.approvalActions
  <2> USE DEF SessionTyped, PolicyRecords
  <2>1. CASE policy' \in {[policy EXCEPT !.deniedTools = @ \cup {payload.tool}],
                          [policy EXCEPT !.reviewTools = @ \cup {payload.tool}]}
    BY <2>1
  <2>2. CASE \E perm \in payload.perms : policy' = [policy EXCEPT !.deniedPerms = @ \cup {perm}]
    BY <2>2
  <2>3. CASE \E t \in policy.allowedTools : /\ policy.allowedTools # {t}
                                            /\ policy' = [policy EXCEPT !.allowedTools = @ \ {t}]
    BY <2>3
  <2>4. CASE policy' = [policy EXCEPT !.requireDeclared = TRUE, !.validateExternal = TRUE]
    BY <2>4
  <2> QED
    BY <2>1, <2>2, <2>3, <2>4 DEF Tighten
<1>3. DenyReasons(policy, artifact, payload) \subseteq DenyReasons(policy', artifact, payload)
  <2>1. ToolReasons(policy, artifact, payload) \subseteq ToolReasons(policy', artifact, payload)
    BY <1>2 DEF ToolReasons, Outside
  <2>2. PermissionReasons(policy, artifact, payload) \subseteq PermissionReasons(policy', artifact, payload)
    BY <1>2 DEF PermissionReasons
  <2>3. BindingReasons(policy, artifact, payload) \subseteq BindingReasons(policy', artifact, payload)
    BY <1>2 DEF BindingReasons
  <2>4. ValidationReasons(policy, payload) \subseteq ValidationReasons(policy', payload)
    BY <1>2 DEF ValidationReasons
  <2> QED
    BY <2>1, <2>2, <2>3, <2>4 DEF DenyReasons
<1>4. ApprovalReasons(policy, payload) \subseteq ApprovalReasons(policy', payload)
  BY <1>2 DEF ApprovalReasons
<1> QED
  BY <1>1, <1>3, <1>4, MoreReasonsNeverGrant DEF Now
-----------------------------------------------------------------------------
(* The verdict of the egress firewall.  Its inputs are well typed.         *)
ToolInputsTyped ==
    /\ agent \in ToolsOf!Agents /\ toolPolicy \in ToolsOf!ToolPolicies \cup {None}
    /\ session \in ToolsOf!Sessions /\ request.target \in Destinations

LEMMA ToolConstants == /\ None \notin Int /\ None # {} /\ None \notin ToolsOf!Agents
                       /\ LooseAgent \in ToolsOf!Agents /\ LoosePolicy \in ToolsOf!ToolPolicies
                       /\ LooseContext \in ToolsOf!Sessions
                       /\ \A q \in Needed : q.target \in Destinations
BY LawsAssumption DEF ToolsOf!InputsTyped

(* The first rule for a tool is one of them.                               *)
FirstRule(p, tool) ==
    CHOOSE i \in ToolsOf!RulesFor(p, tool) : \A j \in ToolsOf!RulesFor(p, tool) : i <= j

LEMMA FirstRuleExists ==
    ASSUME NEW p \in ToolsOf!ToolPolicies, NEW tool, ToolsOf!RulesFor(p, tool) # {}
    PROVE  FirstRule(p, tool) \in ToolsOf!RulesFor(p, tool)
<1> DEFINE S == ToolsOf!RulesFor(p, tool)
           rank == [i \in S |-> -i]
<1>1. S \in SUBSET (1..Len(p.rules)) /\ Len(p.rules) \in Nat
  BY DEF ToolsOf!RulesFor, ToolsOf!ToolPolicies
<1>2. IsFiniteSet(S) /\ S \subseteq Int
  <2> DEFINE places == 1..Len(p.rules)
  <2>1. IsFiniteSet(places) /\ places \subseteq Int
    BY <1>1, FS_Interval
  <2>2. S \in SUBSET places
    BY <1>1
  <2> HIDE DEF S, places
  <2> QED
    BY <2>1, <2>2, FS_Subset
<1>3. rank \in [S -> Int]
  <2> HIDE DEF S
  <2>1. \A i \in S : -i \in Int
    BY <1>2
  <2> QED
    BY <2>1
<1>4. \E i \in S : \A j \in S : rank[i] >= rank[j]
  <2> HIDE DEF rank, S
  <2> QED
    BY <1>2, <1>3, GreatestExists DEF S
<1>5. \E i \in S : \A j \in S : i <= j
  <2> HIDE DEF S
  <2> QED
    BY <1>2, <1>4
<1> QED
  BY <1>5 DEF FirstRule

(* How a verdict follows from what speaks against a request.               *)
LEMMA RulesDecide ==
    ASSUME NEW p, NEW tool, NEW c
    PROVE  ToolsOf!PolicyVerdict(p, tool, c) =
             IF p = None THEN "DENY"
             ELSE IF ToolsOf!RulesFor(p, tool) = {} THEN p.default
             ELSE IF ToolsOf!Unmet(p.rules[FirstRule(p, tool)], c) = {} THEN "ALLOW" ELSE "CONDITIONAL"
BY DEF ToolsOf!PolicyVerdict, FirstRule

LEMMA CombinedMoreStrictly ==
    ASSUME NEW V, NEW W, "DENY" \in V => "DENY" \in W,
           "CONDITIONAL" \in V => "CONDITIONAL" \in W \/ "DENY" \in W
    PROVE  ToolsOf!Leniency[ToolsOf!Combine(W)] <= ToolsOf!Leniency[ToolsOf!Combine(V)]
<1>1. /\ ToolsOf!Leniency["DENY"] = 0 /\ ToolsOf!Leniency["CONDITIONAL"] = 1 /\ ToolsOf!Leniency["ALLOW"] = 2
  BY DEF ToolsOf!Leniency
<1> QED
  BY <1>1 DEF ToolsOf!Combine

(* Each of these only adds to what speaks against the request: it keeps    *)
(* every breach, every pending condition and every denial by the agent's   *)
(* record and the tool policy.                                             *)
NoLooser(a, p, c, a1, p1, c1) ==
    /\ ToolsOf!Breaches(a, request) \subseteq ToolsOf!Breaches(a1, request)
    /\ ToolsOf!Pending(a, request, c) \subseteq ToolsOf!Pending(a1, request, c1)
    /\ LET old == ToolsOf!ToolVerdict(a, p, request.target, c)
           new == ToolsOf!ToolVerdict(a1, p1, request.target, c1)
       IN (old = "DENY" => new = "DENY") /\ (old = "CONDITIONAL" => new \in {"CONDITIONAL", "DENY"})

LEMMA NoLooserNeverGrants ==
    ASSUME NEW a, NEW p, NEW c, NEW a1, NEW p1, NEW c1, NoLooser(a, p, c, a1, p1, c1)
    PROVE  ToolsOf!Leniency[ToolsOf!Combine({ToolsOf!ConstraintVerdict(a1, request, c1)}
             \cup {ToolsOf!ToolVerdict(a1, p1, request.target, c1) : x \in {"tool"} \cap {request.channel}})]
           <= ToolsOf!Leniency[ToolsOf!Combine({ToolsOf!ConstraintVerdict(a, request, c)}
             \cup {ToolsOf!ToolVerdict(a, p, request.target, c) : x \in {"tool"} \cap {request.channel}})]
<1> DEFINE k == ToolsOf!ConstraintVerdict(a, request, c)
           k1 == ToolsOf!ConstraintVerdict(a1, request, c1)
           v == ToolsOf!ToolVerdict(a, p, request.target, c)
           v1 == ToolsOf!ToolVerdict(a1, p1, request.target, c1)
           V == {k} \cup {v : x \in {"tool"} \cap {request.channel}}
           W == {k1} \cup {v1 : x \in {"tool"} \cap {request.channel}}
<1>1. (k = "DENY" => k1 = "DENY") /\ (k = "CONDITIONAL" => k1 \in {"CONDITIONAL", "DENY"})
  BY DEF NoLooser, ToolsOf!ConstraintVerdict
<1>2. (v = "DENY" => v1 = "DENY") /\ (v = "CONDITIONAL" => v1 \in {"CONDITIONAL", "DENY"})
  BY DEF NoLooser
<1>3. ("DENY" \in V => "DENY" \in W) /\ ("CONDITIONAL" \in V => "CONDITIONAL" \in W \/ "DENY" \in W)
  <2> HIDE DEF k, k1, v, v1
  <2> QED
    BY <1>1, <1>2
<1>4. ToolsOf!Leniency[ToolsOf!Combine(W)] <= ToolsOf!Leniency[ToolsOf!Combine(V)]
  <2> HIDE DEF V, W
  <2> QED
    BY <1>3, CombinedMoreStrictly
<1> QED
  BY <1>4
-----------------------------------------------------------------------------
LEMMA ConstrainStep ==
    ASSUME ToolInputsTyped, ToolsOf!Constrain
    PROVE  /\ agent' \in ToolsOf!Agents
           /\ NoLooser(agent, toolPolicy, session, agent', toolPolicy, session)
<1> DEFINE Below(limit) == ToolsOf!Below(limit)
<1>1. None \notin Int /\ None # {} /\ None \notin ToolsOf!Agents
  BY ToolConstants
<1>2. \A limit \in Nat \cup {None} : /\ Below(limit) \subseteq Nat
                                     /\ limit # None => \A n \in Below(limit) : n < limit
  BY <1>1 DEF ToolsOf!Below
<1>3. /\ agent' \in ToolsOf!Agents
      /\ agent.status # "active" => agent'.status # "active"
      /\ agent'.declared \subseteq agent.declared /\ agent.blocked \subseteq agent'.blocked
      /\ agent'.capabilities \subseteq agent.capabilities
      /\ agent.approval => agent'.approval
      /\ agent.sensitivity # None => agent'.sensitivity # None /\ agent'.sensitivity <= agent.sensitivity
      /\ agent.maxCalls # None => agent'.maxCalls # None /\ agent'.maxCalls <= agent.maxCalls
      /\ agent.blockedTargets \subseteq agent'.blockedTargets
      /\ agent.allowedTargets # None =>
            agent'.allowedTargets # None /\ (request.target \in agent'.allowedTargets => request.target \in agent.allowedTargets)
  <2> USE <1>1 DEF ToolInputsTyped, ToolsOf!Agents, ToolsOf!Limit
  <2>1. CASE agent' = [agent EXCEPT !.status = "suspended"]
    BY <2>1
  <2>9. CASE agent' = [agent EXCEPT !.approval = TRUE]
    <3>1. agent'.approval
      BY <2>9
    <3>2. agent' \in ToolsOf!Agents
      BY <2>9
    <3> QED
      BY <2>9, <3>1, <3>2
  <2>2. CASE agent' \in {[agent EXCEPT !.blocked = @ \cup {t}] : t \in agent.declared}
    BY <2>2
  <2>3. CASE agent' \in {[agent EXCEPT !.declared = @ \ {t}] : t \in agent.declared}
    BY <2>3
  <2>4. CASE agent' \in {[agent EXCEPT !.capabilities = @ \ {c}] : c \in agent.capabilities}
    BY <2>4
  <2>5. CASE agent' \in {[agent EXCEPT !.sensitivity = s] : s \in Below(agent.sensitivity)}
    <3>1. PICK s \in Below(agent.sensitivity) : agent' = [agent EXCEPT !.sensitivity = s]
      BY <2>5
    <3>2. s \in Nat /\ (agent.sensitivity # None => s < agent.sensitivity)
      BY <1>2
    <3> HIDE DEF Below
    <3> QED
      BY <3>1, <3>2
  <2>6. CASE agent' \in {[agent EXCEPT !.maxCalls = n] : n \in Below(agent.maxCalls)}
    <3>1. PICK s \in Below(agent.maxCalls) : agent' = [agent EXCEPT !.maxCalls = s]
      BY <2>6
    <3>2. s \in Nat /\ (agent.maxCalls # None => s < agent.maxCalls)
      BY <1>2
    <3> HIDE DEF Below
    <3> QED
      BY <3>1, <3>2
  <2>7. CASE agent' \in {[agent EXCEPT !.blockedTargets = @ \cup {request.target}]}
    BY <2>7
  <2>8. CASE agent' \in {[agent EXCEPT !.allowedTargets = IF @ = None THEN {request.target} ELSE {}]}
    BY <2>8
  <2> QED
    BY <2>1, <2>2, <2>3, <2>4, <2>5, <2>6, <2>7, <2>8, <2>9 DEF ToolsOf!Constrain
<1>4. agent # None /\ agent' # None
  BY <1>1, <1>3 DEF ToolInputsTyped
<1>5. /\ session.sensitivity \in Nat \cup {None} /\ session.calls \in Nat
      /\ agent.sensitivity \in Nat \cup {None} /\ agent'.sensitivity \in Nat \cup {None}
      /\ agent.maxCalls \in Nat \cup {None} /\ agent'.maxCalls \in Nat \cup {None}
  BY <1>3 DEF ToolInputsTyped, ToolsOf!Agents, ToolsOf!Sessions, ToolsOf!Limit
<1>6. ToolsOf!Breaches(agent, request) \subseteq ToolsOf!Breaches(agent', request)
  BY <1>3 DEF ToolsOf!Breaches
<1>7. ToolsOf!Pending(agent, request, session) \subseteq ToolsOf!Pending(agent', request, session)
  BY <1>1, <1>3, <1>5 DEF ToolsOf!Pending
<1>8. ToolsOf!MayUse(agent', request.target) => ToolsOf!MayUse(agent, request.target)
  BY <1>3, <1>4 DEF ToolsOf!MayUse
<1> QED
  BY <1>3, <1>6, <1>7, <1>8 DEF NoLooser, ToolsOf!ToolVerdict

LEMMA ToolTightenStep ==
    ASSUME ToolInputsTyped, ToolsOf!Tighten
    PROVE  /\ toolPolicy' \in ToolsOf!ToolPolicies \cup {None}
           /\ NoLooser(agent, toolPolicy, session, agent, toolPolicy', session)
<1> DEFINE old == ToolsOf!PolicyVerdict(toolPolicy, request.target, session)
           new == ToolsOf!PolicyVerdict(toolPolicy', request.target, session)
           Below(limit) == ToolsOf!Below(limit)
<1> SUFFICES /\ toolPolicy' \in ToolsOf!ToolPolicies \cup {None}
             /\ (old = "DENY" => new = "DENY") /\ (old = "CONDITIONAL" => new \in {"CONDITIONAL", "DENY"})
  BY DEF NoLooser, ToolsOf!ToolVerdict
<1>1. None \notin Int /\ None # {}
  BY ToolConstants
<1>2. \A limit \in Nat \cup {None} : /\ Below(limit) \subseteq Nat
                                     /\ limit # None => \A n \in Below(limit) : n < limit
  BY <1>1 DEF ToolsOf!Below
<1>3. CASE toolPolicy' \in {None, ToolsOf!DeletedPolicy}
  <2>1. toolPolicy' \in ToolsOf!ToolPolicies \cup {None}
    <3>1. <<>> \in Seq(ToolsOf!Rules)
      OBVIOUS
    <3>2. ToolsOf!DeletedPolicy \in ToolsOf!ToolPolicies
      BY <3>1 DEF ToolsOf!DeletedPolicy, ToolsOf!ToolPolicies, ToolsOf!Verdicts
    <3> QED
      BY <1>3, <3>2
  <2>2. toolPolicy' = ToolsOf!DeletedPolicy => ToolsOf!RulesFor(toolPolicy', request.target) = {}
                                               /\ toolPolicy'.default = "DENY"
    BY DEF ToolsOf!DeletedPolicy, ToolsOf!RulesFor
  <2>3. new = "DENY"
    BY <1>3, <2>2 DEF ToolsOf!PolicyVerdict
  <2> QED
    BY <2>1, <2>3
<1>4. CASE toolPolicy # None /\ toolPolicy' = [toolPolicy EXCEPT !.default = "DENY"]
  <2>1. toolPolicy \in ToolsOf!ToolPolicies
    BY <1>4 DEF ToolInputsTyped
  <2>2. /\ toolPolicy' \in ToolsOf!ToolPolicies /\ toolPolicy'.rules = toolPolicy.rules
        /\ toolPolicy'.default = "DENY"
    BY <1>4, <2>1 DEF ToolsOf!ToolPolicies, ToolsOf!Verdicts
  <2>3. ToolsOf!RulesFor(toolPolicy', request.target) = ToolsOf!RulesFor(toolPolicy, request.target)
    BY <2>2 DEF ToolsOf!RulesFor
  <2> QED
    BY <1>4, <2>2, <2>3 DEF ToolsOf!PolicyVerdict
<1>5. CASE /\ toolPolicy # None /\ toolPolicy.rules # <<>>
           /\ toolPolicy' \notin {None, ToolsOf!DeletedPolicy}
           /\ toolPolicy' # [toolPolicy EXCEPT !.default = "DENY"]
  <2> DEFINE rule == Head(toolPolicy.rules)
             rules == toolPolicy.rules
  <2>1. toolPolicy \in ToolsOf!ToolPolicies /\ rules \in Seq(ToolsOf!Rules) /\ Len(rules) >= 1
        /\ rule = rules[1] /\ rule \in ToolsOf!Rules
    BY <1>5 DEF ToolInputsTyped, ToolsOf!ToolPolicies
  <2>2. PICK stricter :
           /\ stricter \in {[rule EXCEPT !.consent = TRUE]}
                       \cup {[rule EXCEPT !.sensitivity = s] : s \in Below(rule.sensitivity)}
                       \cup {[rule EXCEPT !.maxCalls = n] : n \in Below(rule.maxCalls)}
                       \cup {[rule EXCEPT !.trust = r] :
                                r \in IF rule.trust = None THEN 0..3 ELSE rule.trust + 1..3}
                       \cup {[rule EXCEPT !.tags = IF @ = None THEN session.tags ELSE {}]}
           /\ toolPolicy' = [toolPolicy EXCEPT !.rules[1] = stricter]
    BY <1>5 DEF ToolsOf!Tighten
  <2>3. /\ stricter \in ToolsOf!Rules /\ stricter.tool = rule.tool /\ (rule.consent => stricter.consent)
        /\ rule.sensitivity # None => stricter.sensitivity # None /\ stricter.sensitivity <= rule.sensitivity
        /\ rule.maxCalls # None => stricter.maxCalls # None /\ stricter.maxCalls <= rule.maxCalls
        /\ rule.trust # None => stricter.trust # None /\ stricter.trust >= rule.trust
        /\ rule.tags # None => stricter.tags # None /\ stricter.tags \subseteq rule.tags
    <3>1. rule \in [tool : Tools, sensitivity : Nat \cup {None}, consent : BOOLEAN, maxCalls : Nat \cup {None},
                    trust : Nat \cup {None}, tags : {None} \cup SUBSET Tags]
          /\ session.tags \subseteq Tags
      BY <2>1 DEF ToolsOf!Rules, ToolsOf!Limit, ToolInputsTyped, ToolsOf!Sessions
    <3> HIDE DEF rule
    <3> USE DEF ToolsOf!Rules, ToolsOf!Limit
    <3>2. CASE stricter = [rule EXCEPT !.consent = TRUE]
      <4>1. stricter.consent
        BY <3>1, <3>2
      <4>2. stricter \in ToolsOf!Rules
        BY <3>1, <3>2
      <4> QED
        BY <1>1, <3>1, <3>2, <4>1, <4>2
    <3>3. CASE stricter \in {[rule EXCEPT !.sensitivity = s] : s \in Below(rule.sensitivity)}
      <4>1. PICK s \in Below(rule.sensitivity) : stricter = [rule EXCEPT !.sensitivity = s]
        BY <3>3
      <4>2. s \in Nat /\ (rule.sensitivity # None => s < rule.sensitivity)
        BY <1>2, <3>1
      <4> HIDE DEF Below
      <4> QED
        BY <1>1, <3>1, <4>1, <4>2
    <3>4. CASE stricter \in {[rule EXCEPT !.maxCalls = n] : n \in Below(rule.maxCalls)}
      <4>1. PICK s \in Below(rule.maxCalls) : stricter = [rule EXCEPT !.maxCalls = s]
        BY <3>4
      <4>2. s \in Nat /\ (rule.maxCalls # None => s < rule.maxCalls)
        BY <1>2, <3>1
      <4> HIDE DEF Below
      <4> QED
        BY <1>1, <3>1, <4>1, <4>2
    <3>5. CASE stricter \in {[rule EXCEPT !.trust = r] :
                                r \in IF rule.trust = None THEN 0..3 ELSE rule.trust + 1..3}
      <4>1. PICK r \in IF rule.trust = None THEN 0..3 ELSE rule.trust + 1..3 :
                stricter = [rule EXCEPT !.trust = r]
        BY <3>5
      <4>2. r \in Nat /\ (rule.trust # None => r > rule.trust)
        BY <1>1, <3>1
      <4> QED
        BY <1>1, <3>1, <4>1, <4>2
    <3>6. CASE stricter = [rule EXCEPT !.tags = IF @ = None THEN session.tags ELSE {}]
      BY <1>1, <3>1, <3>6
    <3> QED
      BY <2>2, <3>2, <3>3, <3>4, <3>5, <3>6
  <2>4. /\ toolPolicy'.rules = [rules EXCEPT ![1] = stricter] /\ toolPolicy'.default = toolPolicy.default
        /\ toolPolicy'.rules \in Seq(ToolsOf!Rules) /\ DOMAIN toolPolicy'.rules = DOMAIN rules
        /\ toolPolicy' \in ToolsOf!ToolPolicies
    <3>1. [rules EXCEPT ![1] = stricter] \in Seq(ToolsOf!Rules) /\ DOMAIN [rules EXCEPT ![1] = stricter] = DOMAIN rules
      BY <2>1, <2>3
    <3> HIDE DEF rule
    <3> QED
      BY <2>1, <2>2, <3>1 DEF ToolsOf!ToolPolicies
  <2>5. \A i \in DOMAIN rules : toolPolicy'.rules[i] = IF i = 1 THEN stricter ELSE rules[i]
    BY <2>1, <2>4
  <2>6. ToolsOf!RulesFor(toolPolicy', request.target) = ToolsOf!RulesFor(toolPolicy, request.target)
    <3>1. 1 \in DOMAIN rules /\ rules[1].tool = stricter.tool
      BY <2>1, <2>3
    <3> QED
      BY <2>4, <2>5, <3>1 DEF ToolsOf!RulesFor
  <2> DEFINE first == FirstRule(toolPolicy, request.target)
  <2>7. FirstRule(toolPolicy', request.target) = first
    BY <2>6 DEF FirstRule
  <2>8. ASSUME ToolsOf!RulesFor(toolPolicy, request.target) # {}
        PROVE  ToolsOf!Unmet(rules[first], session) \subseteq ToolsOf!Unmet(toolPolicy'.rules[first], session)
    <3>1. first \in DOMAIN rules
      BY <2>1, <2>8, FirstRuleExists DEF ToolsOf!RulesFor
    <3>2. CASE first # 1
      BY <2>5, <3>1, <3>2
    <3>3. CASE first = 1
      <4>1. toolPolicy'.rules[first] = stricter /\ rules[first] = rule
        BY <2>1, <2>5, <3>1, <3>3
      <4>2. /\ session.sensitivity \in Nat \cup {None} /\ session.calls \in Nat /\ session.trust \in Nat
            /\ ToolsOf!Sensitivity(session) \in Nat
            /\ \A r \in {rule, stricter} : /\ r.sensitivity \in Nat \cup {None} /\ r.maxCalls \in Nat \cup {None}
                                           /\ r.trust \in Nat \cup {None}
        BY <2>1, <2>3 DEF ToolInputsTyped, ToolsOf!Sessions, ToolsOf!Limit, ToolsOf!Rules,
                          ToolsOf!Sensitivity, ToolsOf!PublicRank
      <4> HIDE DEF rule
      <4>3. ToolsOf!Unmet(rule, session) \subseteq ToolsOf!Unmet(stricter, session)
        BY <1>1, <2>3, <4>2 DEF ToolsOf!Unmet
      <4> QED
        BY <4>1, <4>3
    <3> QED
      BY <3>2, <3>3
  <2>9. new = (IF ToolsOf!RulesFor(toolPolicy, request.target) = {} THEN toolPolicy.default
               ELSE IF ToolsOf!Unmet(toolPolicy'.rules[first], session) = {} THEN "ALLOW" ELSE "CONDITIONAL")
    BY <1>5, <2>4, <2>6, <2>7, RulesDecide
  <2>10. old = (IF ToolsOf!RulesFor(toolPolicy, request.target) = {} THEN toolPolicy.default
                ELSE IF ToolsOf!Unmet(rules[first], session) = {} THEN "ALLOW" ELSE "CONDITIONAL")
    BY <1>5, RulesDecide
  <2> HIDE DEF first, old, new
  <2> QED
    BY <2>4, <2>8, <2>9, <2>10
<1> QED
  BY <1>3, <1>4, <1>5 DEF ToolsOf!Tighten

LEMMA EscalateStep ==
    ASSUME ToolInputsTyped, ToolsOf!Escalate
    PROVE  /\ session' \in ToolsOf!Sessions
           /\ NoLooser(agent, toolPolicy, session, agent, toolPolicy, session')
<1>1. None \notin Int /\ None # {}
  BY ToolConstants
<1>2. session \in [sensitivity : Nat \cup {None}, consent : BOOLEAN, approved : BOOLEAN, calls : Nat, trust : Nat,
                   tags : SUBSET Tags]
  BY DEF ToolInputsTyped, ToolsOf!Sessions, ToolsOf!Limit
<1>3. ToolsOf!Sensitivity(session) = (IF session.sensitivity = None THEN 1 ELSE session.sensitivity)
  BY DEF ToolsOf!Sensitivity, ToolsOf!PublicRank
<1>4. /\ session' \in [sensitivity : Nat \cup {None}, consent : BOOLEAN, approved : BOOLEAN, calls : Nat, trust : Nat,
                       tags : SUBSET Tags]
      /\ session'.consent => session.consent
      /\ session'.approved => session.approved
      /\ session'.calls >= session.calls /\ session'.trust <= session.trust /\ session'.tags \subseteq session.tags
      /\ session.sensitivity # None => session'.sensitivity # None /\ session'.sensitivity >= session.sensitivity
      /\ session.sensitivity = None => session'.sensitivity = None \/ session'.sensitivity >= 1
  <2>1. CASE session' = [session EXCEPT !.calls = @ + 1]
    BY <1>1, <1>2, <2>1
  <2>5. CASE session' = [session EXCEPT !.consent = FALSE]
    <3>1. ~session'.consent /\ session'.approved = session.approved
      BY <1>2, <2>5
    <3>2. (session'.consent => session.consent) /\ (session'.approved => session.approved)
      BY <3>1
    <3>3. /\ session'.sensitivity = session.sensitivity /\ session'.calls = session.calls
          /\ session'.trust = session.trust /\ session'.tags = session.tags
      BY <1>2, <2>5
    <3>4. session' \in [sensitivity : Nat \cup {None}, consent : BOOLEAN, approved : BOOLEAN, calls : Nat,
                        trust : Nat, tags : SUBSET Tags]
      BY <1>2, <2>5
    <3> QED
      BY <1>1, <1>2, <3>2, <3>3, <3>4
  <2>6. CASE session' = [session EXCEPT !.approved = FALSE]
    <3>1. ~session'.approved /\ session'.consent = session.consent
      BY <1>2, <2>6
    <3>2. (session'.consent => session.consent) /\ (session'.approved => session.approved)
      BY <3>1
    <3>3. /\ session'.sensitivity = session.sensitivity /\ session'.calls = session.calls
          /\ session'.trust = session.trust /\ session'.tags = session.tags
      BY <1>2, <2>6
    <3>4. session' \in [sensitivity : Nat \cup {None}, consent : BOOLEAN, approved : BOOLEAN, calls : Nat,
                        trust : Nat, tags : SUBSET Tags]
      BY <1>2, <2>6
    <3> QED
      BY <1>1, <1>2, <3>2, <3>3, <3>4
  <2>2. CASE session' \in {[session EXCEPT !.tags = @ \ {t}] : t \in session.tags}
    BY <1>1, <1>2, <2>2
  <2>3. CASE session' \in {[session EXCEPT !.trust = r] : r \in 0..session.trust - 1}
    BY <1>1, <1>2, <2>3
  <2>4. CASE session' \in {[session EXCEPT !.sensitivity = s] : s \in ToolsOf!Sensitivity(session) + 1..4}
    <3>1. PICK s \in ToolsOf!Sensitivity(session) + 1..4 : session' = [session EXCEPT !.sensitivity = s]
      BY <2>4
    <3>2. s \in Nat /\ s > ToolsOf!Sensitivity(session)
      BY <1>1, <1>2, <1>3
    <3> QED
      BY <1>1, <1>2, <1>3, <3>1, <3>2
  <2> QED
    BY <2>1, <2>2, <2>3, <2>4, <2>5, <2>6 DEF ToolsOf!Escalate
<1>5. ToolsOf!Sensitivity(session') = (IF session'.sensitivity = None THEN 1 ELSE session'.sensitivity)
  BY DEF ToolsOf!Sensitivity, ToolsOf!PublicRank
<1>6. /\ ToolsOf!Sensitivity(session) \in Nat /\ ToolsOf!Sensitivity(session') \in Nat
      /\ ToolsOf!Sensitivity(session) <= ToolsOf!Sensitivity(session')
  BY <1>1, <1>2, <1>3, <1>4, <1>5
<1>7. ToolsOf!Pending(agent, request, session) \subseteq ToolsOf!Pending(agent, request, session')
  <2>1. agent.sensitivity \in Nat \cup {None} /\ agent.maxCalls \in Nat \cup {None}
    BY DEF ToolInputsTyped, ToolsOf!Agents, ToolsOf!Limit
  <2> QED
    BY <1>1, <1>2, <1>4, <2>1 DEF ToolsOf!Pending
<1>8. ASSUME NEW rule \in ToolsOf!Rules
      PROVE  ToolsOf!Unmet(rule, session) \subseteq ToolsOf!Unmet(rule, session')
  <2>1. rule.sensitivity \in Nat \cup {None} /\ rule.maxCalls \in Nat \cup {None} /\ rule.trust \in Nat \cup {None}
    BY DEF ToolsOf!Rules, ToolsOf!Limit
  <2> QED
    BY <1>1, <1>2, <1>4, <1>6, <2>1 DEF ToolsOf!Unmet
<1> DEFINE first == FirstRule(toolPolicy, request.target)
           old == ToolsOf!PolicyVerdict(toolPolicy, request.target, session)
           new == ToolsOf!PolicyVerdict(toolPolicy, request.target, session')
<1>9. toolPolicy # None /\ ToolsOf!RulesFor(toolPolicy, request.target) # {} => toolPolicy.rules[first] \in ToolsOf!Rules
  <2> SUFFICES ASSUME toolPolicy # None, ToolsOf!RulesFor(toolPolicy, request.target) # {}
               PROVE  toolPolicy.rules[first] \in ToolsOf!Rules
    OBVIOUS
  <2>1. toolPolicy \in ToolsOf!ToolPolicies
    BY DEF ToolInputsTyped
  <2>2. first \in DOMAIN toolPolicy.rules
    BY <2>1, FirstRuleExists DEF ToolsOf!RulesFor
  <2>3. toolPolicy.rules \in Seq(ToolsOf!Rules)
    BY <2>1 DEF ToolsOf!ToolPolicies
  <2> HIDE DEF first
  <2> QED
    BY <2>2, <2>3
<1>10. (old = "DENY" => new = "DENY") /\ (old = "CONDITIONAL" => new \in {"CONDITIONAL", "DENY"})
  <2>1. \A c \in {session, session'} : ToolsOf!PolicyVerdict(toolPolicy, request.target, c) =
           IF toolPolicy = None THEN "DENY"
           ELSE IF ToolsOf!RulesFor(toolPolicy, request.target) = {} THEN toolPolicy.default
           ELSE IF ToolsOf!Unmet(toolPolicy.rules[first], c) = {} THEN "ALLOW" ELSE "CONDITIONAL"
    BY RulesDecide
  <2> HIDE DEF first
  <2> QED
    BY <1>8, <1>9, <2>1
<1> QED
  BY <1>4, <1>7, <1>10 DEF NoLooser, ToolsOf!ToolVerdict, ToolsOf!Sessions, ToolsOf!Limit

(* A step of the laws of the firewall keeps its inputs well typed and its  *)
(* verdict as strict.                                                      *)
LEMMA ToolStep ==
    ASSUME ToolInputsTyped, ToolsOf!Next
    PROVE  ToolInputsTyped' /\ ToolsOf!Leniency[ToolsOf!Now'] <= ToolsOf!Leniency[ToolsOf!Now]
<1>1. request' = request
  BY DEF ToolsOf!Next
<1>2. /\ agent' \in ToolsOf!Agents /\ toolPolicy' \in ToolsOf!ToolPolicies \cup {None}
      /\ session' \in ToolsOf!Sessions
      /\ NoLooser(agent, toolPolicy, session, agent', toolPolicy', session')
  <2>1. CASE ToolsOf!Constrain
    BY <2>1, ConstrainStep DEF ToolsOf!Constrain, ToolInputsTyped
  <2>2. CASE ToolsOf!Tighten
    BY <2>2, ToolTightenStep DEF ToolsOf!Tighten, ToolInputsTyped
  <2>3. CASE ToolsOf!Escalate
    BY <2>3, EscalateStep DEF ToolsOf!Escalate, ToolInputsTyped
  <2> QED
    BY <2>1, <2>2, <2>3 DEF ToolsOf!Next
<1>3. ToolInputsTyped'
  BY <1>1, <1>2 DEF ToolInputsTyped
<1> QED
  BY <1>1, <1>2, <1>3, NoLooserNeverGrants DEF ToolsOf!Now
-----------------------------------------------------------------------------
(* The verdict of adoption.  What evidence there is for a model.           *)
Evidences ==
    [risk : Adoption!Risks, vulns : Adoption!Results \cup {Absent}, scan : Adoption!Results \cup {Absent},
     weights : [status : {"INSPECTED"}, complete : BOOLEAN], lineage : Adoption!Lineages,
     facts : (SUBSET Adoption!Severity) \cup {Absent},
     probes : Adoption!Results \cup {Absent}, redteam : Adoption!Results \cup {Absent},
     mcp : Adoption!McpScans, backdoor : {"CLEAN", "SUSPICIOUS", "HIGH_RISK"},
     provenance : Adoption!Provenances \cup {Absent},
     identity : [attested : BOOLEAN, weakest : Nat \cup {Absent}], gaps : BOOLEAN]

(* An MCP server that is called unsafe has a grave finding.                *)
UnsafeIsGrave(e) ==
    e.mcp.status = "UNSAFE_PATTERNS_FOUND" => e.mcp.found \cap Adoption!Grave # {}

AdoptionInv ==
    /\ evidence \in Evidences /\ UnsafeIsGrave(evidence) /\ use \in Contexts
    /\ adoption = Adoption!Recommend(evidence, use)

LEMMA AdoptionConstants ==
    /\ Contexts \subseteq [use : Nat, data : Nat, exposure : 0..3, anonymous : BOOLEAN]
    /\ Found \subseteq Adoption!Severity
    /\ Absent \notin Adoption!Results /\ Absent \notin Adoption!Provenances /\ Absent \notin Adoption!Risks
    /\ Absent \notin Adoption!Lineages /\ Absent \notin Adoption!McpScans
    /\ \A facts \in SUBSET Adoption!Severity : facts # Absent
BY LawsAssumption DEF Adoption!InputsTyped

(* The verdict is the least of the caps.                                   *)
LEMMA LeastRank ==
    ASSUME NEW S \in SUBSET (0..4), S # {}
    PROVE  Adoption!Min(S) \in S /\ \A x \in S : Adoption!Min(S) <= x
<1> DEFINE rank == [x \in S |-> -x]
<1>1. IsFiniteSet(S) /\ rank \in [S -> Int]
  <2> DEFINE ranks == 0..4
  <2>1. \A a, b \in Int : IsFiniteSet(a..b)
    BY FS_Interval
  <2>2. IsFiniteSet(S)
    <3>1. S \in SUBSET ranks /\ 0 \in Int /\ 4 \in Int
      OBVIOUS
    <3>2. IsFiniteSet(ranks)
      BY <2>1, <3>1, Zenon
    <3> HIDE DEF ranks
    <3> QED
      BY <3>1, <3>2, FS_Subset
  <2>3. \A x \in S : -x \in Int
    OBVIOUS
  <2> QED
    BY <2>2, <2>3
<1>2. \E x \in S : \A y \in S : rank[x] >= rank[y]
  <2> HIDE DEF rank
  <2> QED
    BY <1>1, GreatestExists
<1>3. \E x \in S : \A y \in S : x <= y
  BY <1>2
<1> QED
  BY <1>3 DEF Adoption!Min

LEMMA CapsAreRanks ==
    ASSUME NEW e, NEW c PROVE Adoption!Caps(e, c) \subseteq 0..4
<1>1. Adoption!Ranks = 0..4
  BY DEF Adoption!Ranks
<1>2. /\ Adoption!RiskCaps(e.risk) \subseteq 0..4 /\ Adoption!VulnerabilityCaps(e.vulns) \subseteq 0..4
      /\ Adoption!SerializationCaps(e.scan) \subseteq 0..4 /\ Adoption!WeightCaps(e.weights) \subseteq 0..4
      /\ Adoption!LineageCaps(e.lineage) \subseteq 0..4 /\ Adoption!ContradictionCaps(e.facts) \subseteq 0..4
      /\ Adoption!ProbeCaps(e.probes) \subseteq 0..4 /\ Adoption!RedteamCaps(e.redteam) \subseteq 0..4
      /\ Adoption!McpCaps(e.mcp) \subseteq 0..4 /\ Adoption!BackdoorCaps(e.backdoor) \subseteq 0..4
      /\ Adoption!IdentityCaps(e.identity) \subseteq 0..4 /\ Adoption!GovernanceCaps(e.gaps) \subseteq 0..4
      /\ Adoption!CompletenessCaps(e) \subseteq 0..4 /\ Adoption!PolicyCaps(e, c) \subseteq 0..4
  BY <1>1 DEF Adoption!RiskCaps, Adoption!VulnerabilityCaps, Adoption!SerializationCaps, Adoption!WeightCaps,
              Adoption!LineageCaps, Adoption!ContradictionCaps, Adoption!ProbeCaps, Adoption!RedteamCaps,
              Adoption!LiveCaps, Adoption!McpCaps, Adoption!BackdoorCaps, Adoption!IdentityCaps,
              Adoption!GovernanceCaps, Adoption!CompletenessCaps, Adoption!PolicyCaps
<1>3. Adoption!ProvenanceCaps(e.provenance) \subseteq 0..4
  BY <1>1 DEF Adoption!ProvenanceCaps, Adoption!InsufficientEvidence
<1> QED
  BY <1>2, <1>3 DEF Adoption!Caps

LEMMA VerdictIsLeastCap ==
    ASSUME NEW e, NEW c
    PROVE  /\ Adoption!Recommend(e, c) \in Adoption!Caps(e, c) \cup {4}
           /\ Adoption!Recommend(e, c) \in 0..4
           /\ \A cap \in Adoption!Caps(e, c) \cup {4} : Adoption!Recommend(e, c) <= cap
<1> DEFINE S == Adoption!Caps(e, c) \cup {4}
<1>1. S \in SUBSET (0..4) /\ S # {}
  BY CapsAreRanks
<1>2. Adoption!Recommend(e, c) = Adoption!Min(S)
  BY DEF Adoption!Recommend, Adoption!ApproveForScopedUse
<1> HIDE DEF S
<1>3. Adoption!Recommend(e, c) \in S /\ \A cap \in S : Adoption!Recommend(e, c) <= cap
  BY <1>1, <1>2, LeastRank
<1> QED
  BY <1>1, <1>3 DEF S

(* Where every cap has one below it, the verdict is no better.             *)
LEMMA LowerCapsNeverHelp ==
    ASSUME NEW e, NEW c, NEW f, NEW d,
           \A cap \in Adoption!Caps(e, c) : \E lower \in Adoption!Caps(f, d) : lower <= cap
    PROVE  Adoption!Recommend(f, d) <= Adoption!Recommend(e, c)
<1>1. /\ Adoption!Recommend(e, c) \in Adoption!Caps(e, c) \cup {4} /\ Adoption!Recommend(f, d) \in 0..4
      /\ \A cap \in Adoption!Caps(f, d) \cup {4} : Adoption!Recommend(f, d) <= cap
      /\ Adoption!Caps(e, c) \subseteq 0..4 /\ Adoption!Caps(f, d) \subseteq 0..4
  BY VerdictIsLeastCap, CapsAreRanks
<1>2. CASE Adoption!Recommend(e, c) \in Adoption!Caps(e, c)
  <2>1. PICK lower \in Adoption!Caps(f, d) : lower <= Adoption!Recommend(e, c)
    BY <1>2
  <2>2. Adoption!Recommend(f, d) <= lower /\ lower \in 0..4 /\ Adoption!Recommend(e, c) \in 0..4
    BY <1>1, <1>2, <2>1
  <2> QED
    BY <1>1, <2>1, <2>2
<1>3. CASE Adoption!Recommend(e, c) = 4
  BY <1>1, <1>3
<1> QED
  BY <1>1, <1>2, <1>3
-----------------------------------------------------------------------------
(* What is known got no better, input by input.                            *)
Rank(severity) == Adoption!Level[severity]
NoBetterResult(r, s) ==
    /\ r = Absent <=> s = Absent
    /\ r # Absent => s.status = r.status /\ (s.complete => r.complete) /\ r.found \subseteq s.found
NoBetterRisk(r, s) ==
    /\ r.threats => s.threats
    /\ r.lowTrust => s.lowTrust
    /\ Rank(r.aggregate) <= Rank(s.aggregate)
NoBetterLineage(r, s) == (s.consistent => r.consistent) /\ (r.merged => s.merged)
NoBetterFacts(r, s) == r # Absent => s # Absent /\ r \subseteq s
NoBetterMcp(r, s) ==
    /\ r.rugPull => s.rugPull
    /\ r.found \subseteq s.found
    /\ r.status = "UNSAFE_PATTERNS_FOUND" => s.status = "UNSAFE_PATTERNS_FOUND"
NoBetterBackdoor(r, s) == (r = "HIGH_RISK" => s = "HIGH_RISK") /\ (r = "SUSPICIOUS" => s # "CLEAN")
NoBetterProvenance(r, s) ==
    /\ r = Absent <=> s = Absent
    /\ r # Absent => /\ Rank(r.level) <= Rank(s.level) /\ (r.unsigned => s.unsigned)
                     /\ (s.complete => r.complete) /\ (s.confident => r.confident)
NoBetterIdentity(r, s) == (s.attested => r.attested) /\ s.weakest = r.weakest

NoBetter(e, f) ==
    /\ NoBetterRisk(e.risk, f.risk) /\ NoBetterResult(e.vulns, f.vulns)
    /\ NoBetterResult(e.scan, f.scan) /\ e.weights = f.weights
    /\ NoBetterLineage(e.lineage, f.lineage) /\ NoBetterFacts(e.facts, f.facts)
    /\ NoBetterResult(e.probes, f.probes) /\ NoBetterResult(e.redteam, f.redteam)
    /\ NoBetterMcp(e.mcp, f.mcp) /\ NoBetterBackdoor(e.backdoor, f.backdoor)
    /\ NoBetterProvenance(e.provenance, f.provenance) /\ NoBetterIdentity(e.identity, f.identity)
    /\ e.gaps => f.gaps

LEMMA RanksOfSeverities ==
    /\ Rank("LOW") = 1 /\ Rank("MEDIUM") = 2 /\ Rank("HIGH") = 3 /\ Rank("CRITICAL") = 4
    /\ \A s \in Adoption!Severity : Rank(s) \in 1..4
    /\ Adoption!Severity = {"LOW", "MEDIUM", "HIGH", "CRITICAL"} /\ Adoption!Grave = {"HIGH", "CRITICAL"}
BY DEF Rank, Adoption!Level, Adoption!Severity, Adoption!Grave

(* For each input: a cap on what was known has one below it on what is.    *)
Lowered(caps, new) == \A cap \in caps : \E lower \in new : lower <= cap

LEMMA RiskLowers ==
    ASSUME NEW r \in Adoption!Risks, NEW s \in Adoption!Risks, NoBetterRisk(r, s)
    PROVE  Lowered(Adoption!RiskCaps(r), Adoption!RiskCaps(s))
<1>1. r.aggregate \in Adoption!Severity /\ s.aggregate \in Adoption!Severity /\ s # Absent
  BY AdoptionConstants DEF Adoption!Risks
<1> SUFFICES ASSUME NEW cap \in Adoption!RiskCaps(r) PROVE \E lower \in Adoption!RiskCaps(s) : lower <= cap
  BY DEF Lowered
<1>2. cap \in 0..4
  BY DEF Adoption!RiskCaps, Adoption!Ranks
<1>3. CASE cap = 0
  <2>1. 0 \in Adoption!RiskCaps(s)
    BY <1>1, <1>3, RanksOfSeverities
       DEF NoBetterRisk, Adoption!RiskCaps, Adoption!Ranks, Adoption!DoNotApprove, Adoption!PilotOnly,
           Adoption!ApproveWithConditions
  <2> QED
    BY <1>3, <2>1
<1>4. CASE cap = 2
  <2>1. 0 \in Adoption!RiskCaps(s) \/ 2 \in Adoption!RiskCaps(s)
    BY <1>1, <1>4, RanksOfSeverities
       DEF NoBetterRisk, Adoption!RiskCaps, Adoption!Ranks, Adoption!DoNotApprove, Adoption!PilotOnly,
           Adoption!ApproveWithConditions
  <2> QED
    BY <1>4, <2>1
<1>5. CASE cap = 3
  <2>1. 0 \in Adoption!RiskCaps(s) \/ 2 \in Adoption!RiskCaps(s) \/ 3 \in Adoption!RiskCaps(s)
    BY <1>1, <1>5, RanksOfSeverities
       DEF NoBetterRisk, Adoption!RiskCaps, Adoption!Ranks, Adoption!DoNotApprove, Adoption!PilotOnly,
           Adoption!ApproveWithConditions
  <2> QED
    BY <1>5, <2>1
<1> QED
  BY <1>2, <1>3, <1>4, <1>5 DEF Adoption!RiskCaps, Adoption!DoNotApprove, Adoption!PilotOnly,
                                Adoption!ApproveWithConditions

LEMMA MoreCapsAreLower ==
    ASSUME NEW caps, NEW new, caps \subseteq new, caps \subseteq 0..4
    PROVE  Lowered(caps, new)
<1> SUFFICES ASSUME NEW cap \in caps PROVE cap <= cap
  BY DEF Lowered
<1> QED
  OBVIOUS

LEMMA VulnerabilitiesLower ==
    ASSUME NEW r, NEW s, NoBetterResult(r, s)
    PROVE  Lowered(Adoption!VulnerabilityCaps(r), Adoption!VulnerabilityCaps(s))
<1>1. Adoption!VulnerabilityCaps(r) \subseteq Adoption!VulnerabilityCaps(s)
  BY DEF NoBetterResult, Adoption!VulnerabilityCaps
<1>2. Adoption!VulnerabilityCaps(r) \subseteq 0..4
  BY DEF Adoption!VulnerabilityCaps, Adoption!Ranks
<1> QED
  BY <1>1, <1>2, MoreCapsAreLower

LEMMA LiveEvaluationsLower ==
    ASSUME NEW r, NEW s, NoBetterResult(r, s), NEW unusable
    PROVE  Lowered(Adoption!LiveCaps(r, unusable), Adoption!LiveCaps(s, unusable))
<1>1. Adoption!LiveCaps(r, unusable) \subseteq Adoption!LiveCaps(s, unusable)
  BY DEF NoBetterResult, Adoption!LiveCaps
<1>2. Adoption!LiveCaps(r, unusable) \subseteq 0..4
  BY DEF Adoption!LiveCaps, Adoption!Ranks
<1> QED
  BY <1>1, <1>2, MoreCapsAreLower

LEMMA SerializationLowers ==
    ASSUME NEW r \in Adoption!Results \cup {Absent}, NEW s \in Adoption!Results \cup {Absent}, NoBetterResult(r, s)
    PROVE  Lowered(Adoption!SerializationCaps(r), Adoption!SerializationCaps(s))
<1> SUFFICES ASSUME NEW cap \in Adoption!SerializationCaps(r)
             PROVE  \E lower \in Adoption!SerializationCaps(s) : lower <= cap
  BY DEF Lowered
<1>1. /\ r # Absent /\ s # Absent /\ r.status \notin Adoption!ScanSkipped /\ s.status = r.status
      /\ r.found \subseteq s.found /\ s.found \subseteq Adoption!Severity
  BY DEF NoBetterResult, Adoption!SerializationCaps, Adoption!Results
<1>2. cap \in 0..4
  BY DEF Adoption!SerializationCaps, Adoption!Ranks
<1>3. CASE cap \in {0, 1}
  <2>1. cap \in Adoption!SerializationCaps(s)
    BY <1>1, <1>3 DEF Adoption!SerializationCaps, Adoption!Ranks, Adoption!DoNotApprove,
                      Adoption!InsufficientEvidence, Adoption!ApproveWithConditions
  <2> QED
    BY <1>2, <2>1
<1>4. CASE cap = 3
  <2>1. "MEDIUM" \in r.found \/ r.found = {"LOW"}
    BY <1>4 DEF Adoption!SerializationCaps, Adoption!DoNotApprove, Adoption!InsufficientEvidence,
                Adoption!ApproveWithConditions
  <2>2. s.found \cap Adoption!Grave # {} \/ "MEDIUM" \in s.found \/ s.found = {"LOW"}
    BY <1>1, <2>1, RanksOfSeverities
  <2>3. 0 \in Adoption!SerializationCaps(s) \/ 3 \in Adoption!SerializationCaps(s)
    BY <1>1, <2>2 DEF Adoption!SerializationCaps, Adoption!Ranks, Adoption!DoNotApprove,
                      Adoption!InsufficientEvidence, Adoption!ApproveWithConditions
  <2> QED
    BY <1>4, <2>3
<1> QED
  BY <1>2, <1>3, <1>4 DEF Adoption!SerializationCaps, Adoption!DoNotApprove,
                          Adoption!InsufficientEvidence, Adoption!ApproveWithConditions

LEMMA LineageLowers ==
    ASSUME NEW r, NEW s \in Adoption!Lineages, NoBetterLineage(r, s)
    PROVE  Lowered(Adoption!LineageCaps(r), Adoption!LineageCaps(s))
<1>1. Adoption!LineageCaps(r) \subseteq Adoption!LineageCaps(s)
  BY AdoptionConstants DEF NoBetterLineage, Adoption!LineageCaps
<1>2. Adoption!LineageCaps(r) \subseteq 0..4
  BY DEF Adoption!LineageCaps, Adoption!Ranks
<1> QED
  BY <1>1, <1>2, MoreCapsAreLower

LEMMA ContradictionsLower ==
    ASSUME NEW r, NEW s, NoBetterFacts(r, s)
    PROVE  Lowered(Adoption!ContradictionCaps(r), Adoption!ContradictionCaps(s))
<1>1. Adoption!ContradictionCaps(r) \subseteq Adoption!ContradictionCaps(s)
  BY DEF NoBetterFacts, Adoption!ContradictionCaps
<1>2. Adoption!ContradictionCaps(r) \subseteq 0..4
  BY DEF Adoption!ContradictionCaps, Adoption!Ranks
<1> QED
  BY <1>1, <1>2, MoreCapsAreLower

LEMMA McpLowers ==
    ASSUME NEW r \in Adoption!McpScans, NEW s \in Adoption!McpScans, NoBetterMcp(r, s),
           r.status = "UNSAFE_PATTERNS_FOUND" => r.found \cap Adoption!Grave # {}
    PROVE  Lowered(Adoption!McpCaps(r), Adoption!McpCaps(s))
<1> SUFFICES ASSUME NEW cap \in Adoption!McpCaps(r) PROVE \E lower \in Adoption!McpCaps(s) : lower <= cap
  BY DEF Lowered
<1>1. s # Absent
  BY AdoptionConstants
<1>2. cap \in 0..4 /\ (r.rugPull \/ r.status = "UNSAFE_PATTERNS_FOUND")
  BY DEF Adoption!McpCaps, Adoption!Ranks
<1>3. s.rugPull \/ (s.status = "UNSAFE_PATTERNS_FOUND" /\ s.found \cap Adoption!Grave # {})
  BY <1>2 DEF NoBetterMcp
<1>4. 0 \in Adoption!McpCaps(s)
  BY <1>1, <1>3 DEF Adoption!McpCaps, Adoption!Ranks, Adoption!DoNotApprove
<1> QED
  BY <1>2, <1>4

LEMMA BackdoorLowers ==
    ASSUME NEW r, NEW s \in {"CLEAN", "SUSPICIOUS", "HIGH_RISK"}, NoBetterBackdoor(r, s)
    PROVE  Lowered(Adoption!BackdoorCaps(r), Adoption!BackdoorCaps(s))
<1> SUFFICES ASSUME NEW cap \in Adoption!BackdoorCaps(r) PROVE \E lower \in Adoption!BackdoorCaps(s) : lower <= cap
  BY DEF Lowered
<1>1. (cap = 0 /\ r = "HIGH_RISK") \/ (cap = 2 /\ r = "SUSPICIOUS")
  BY DEF Adoption!BackdoorCaps, Adoption!DoNotApprove, Adoption!PilotOnly
<1>2. /\ s = "HIGH_RISK" => 0 \in Adoption!BackdoorCaps(s)
      /\ s = "SUSPICIOUS" => 2 \in Adoption!BackdoorCaps(s)
  BY DEF Adoption!BackdoorCaps, Adoption!DoNotApprove, Adoption!PilotOnly, Adoption!Ranks
<1> QED
  BY <1>1, <1>2 DEF NoBetterBackdoor

LEMMA ProvenanceLowers ==
    ASSUME NEW r \in Adoption!Provenances \cup {Absent}, NEW s \in Adoption!Provenances \cup {Absent},
           NoBetterProvenance(r, s)
    PROVE  Lowered(Adoption!ProvenanceCaps(r), Adoption!ProvenanceCaps(s))
<1> SUFFICES ASSUME NEW cap \in Adoption!ProvenanceCaps(r)
             PROVE  \E lower \in Adoption!ProvenanceCaps(s) : lower <= cap
  BY DEF Lowered
<1>1. CASE r = Absent
  BY <1>1 DEF NoBetterProvenance, Adoption!ProvenanceCaps, Adoption!InsufficientEvidence
<1>2. CASE r # Absent
  <2>1. /\ s # Absent /\ r.level \in Adoption!Severity /\ s.level \in Adoption!Severity
        /\ Rank(r.level) <= Rank(s.level) /\ (r.unsigned => s.unsigned)
    BY <1>2 DEF NoBetterProvenance, Adoption!Provenances
  <2>2. \/ cap = 0 /\ r.level = "CRITICAL"
        \/ cap = 2 /\ (r.level = "HIGH" \/ r.unsigned)
        \/ cap = 3 /\ r.level = "MEDIUM"
    BY <1>2 DEF Adoption!ProvenanceCaps, Adoption!DoNotApprove, Adoption!PilotOnly, Adoption!ApproveWithConditions
  <2>3. /\ s.level = "CRITICAL" => 0 \in Adoption!ProvenanceCaps(s)
        /\ s.level = "HIGH" \/ s.unsigned => 2 \in Adoption!ProvenanceCaps(s)
        /\ s.level = "MEDIUM" => 3 \in Adoption!ProvenanceCaps(s)
    BY <2>1 DEF Adoption!ProvenanceCaps, Adoption!DoNotApprove, Adoption!PilotOnly,
                Adoption!ApproveWithConditions, Adoption!Ranks
  <2>4. /\ r.level = "CRITICAL" => s.level = "CRITICAL"
        /\ r.level = "HIGH" => s.level \in {"HIGH", "CRITICAL"}
        /\ r.level = "MEDIUM" => s.level \in {"MEDIUM", "HIGH", "CRITICAL"}
    BY <2>1, RanksOfSeverities
  <2> QED
    BY <2>1, <2>2, <2>3, <2>4
<1> QED
  BY <1>1, <1>2

LEMMA IdentityLowers ==
    ASSUME NEW r, NEW s, NoBetterIdentity(r, s)
    PROVE  Lowered(Adoption!IdentityCaps(r), Adoption!IdentityCaps(s))
<1>1. Adoption!IdentityCaps(r) \subseteq Adoption!IdentityCaps(s)
  BY DEF NoBetterIdentity, Adoption!IdentityCaps
<1>2. Adoption!IdentityCaps(r) \subseteq 0..4
  BY DEF Adoption!IdentityCaps, Adoption!Ranks
<1> QED
  BY <1>1, <1>2, MoreCapsAreLower

(* What did not finish, and what is missing, is still so.                  *)
LEMMA GapsRemain ==
    ASSUME NEW e, NEW f, NoBetter(e, f)
    PROVE  /\ Adoption!Unfinished(e) => Adoption!Unfinished(f)
           /\ Adoption!Met(f) \subseteq Adoption!Met(e)
<1>1. /\ e.vulns # Absent /\ ~e.vulns.complete => f.vulns # Absent /\ ~f.vulns.complete
      /\ e.scan # Absent /\ ~e.scan.complete => f.scan # Absent /\ ~f.scan.complete
      /\ e.probes # Absent /\ ~e.probes.complete => f.probes # Absent /\ ~f.probes.complete
      /\ e.redteam # Absent /\ ~e.redteam.complete => f.redteam # Absent /\ ~f.redteam.complete
      /\ e.provenance # Absent /\ ~e.provenance.complete => f.provenance # Absent /\ ~f.provenance.complete
      /\ e.provenance # Absent /\ ~e.provenance.confident => f.provenance # Absent /\ ~f.provenance.confident
      /\ e.weights = f.weights
  BY DEF NoBetter, NoBetterResult, NoBetterProvenance
<1>2. Adoption!Unfinished(e) => Adoption!Unfinished(f)
  <2>1. \A x : Adoption!Unfinished(x) <=>
           \/ x.vulns # Absent /\ ~x.vulns.complete
           \/ x.scan # Absent /\ ~x.scan.complete
           \/ x.probes # Absent /\ ~x.probes.complete
           \/ x.redteam # Absent /\ ~x.redteam.complete
           \/ x.weights # Absent /\ ~x.weights.complete
           \/ x.provenance # Absent /\ ~x.provenance.complete
           \/ x.provenance # Absent /\ ~x.provenance.confident
    BY DEF Adoption!Unfinished
  <2> QED
    BY <1>1, <2>1
<1>3. /\ f.provenance # Absent /\ f.provenance.complete /\ f.provenance.confident =>
            e.provenance # Absent /\ e.provenance.complete /\ e.provenance.confident
      /\ f.vulns # Absent /\ f.vulns.complete => e.vulns # Absent /\ e.vulns.complete
      /\ f.identity.attested => e.identity.attested
      /\ f.identity.weakest = e.identity.weakest
      /\ f.scan # Absent => e.scan # Absent /\ e.scan.status = f.scan.status
      /\ f.probes # Absent => e.probes # Absent /\ e.probes.status = f.probes.status
      /\ ~f.gaps => ~e.gaps
  BY DEF NoBetter, NoBetterResult, NoBetterProvenance, NoBetterIdentity
<1>4. Adoption!Met(f) \subseteq Adoption!Met(e)
  <2> SUFFICES ASSUME NEW req \in Adoption!Met(f) PROVE req \in Adoption!Met(e)
    OBVIOUS
  <2> QED
    BY <1>3 DEF Adoption!Met
<1> QED
  BY <1>2, <1>4

LEMMA BadNewsLowersCaps ==
    ASSUME NEW e \in Evidences, NEW f \in Evidences, UnsafeIsGrave(e), NoBetter(e, f), NEW c
    PROVE  Adoption!Recommend(f, c) <= Adoption!Recommend(e, c)
<1>1. /\ Lowered(Adoption!RiskCaps(e.risk), Adoption!RiskCaps(f.risk))
      /\ Lowered(Adoption!VulnerabilityCaps(e.vulns), Adoption!VulnerabilityCaps(f.vulns))
      /\ Lowered(Adoption!SerializationCaps(e.scan), Adoption!SerializationCaps(f.scan))
      /\ Lowered(Adoption!LineageCaps(e.lineage), Adoption!LineageCaps(f.lineage))
      /\ Lowered(Adoption!ContradictionCaps(e.facts), Adoption!ContradictionCaps(f.facts))
  BY RiskLowers, VulnerabilitiesLower, SerializationLowers, LineageLowers, ContradictionsLower
     DEF NoBetter, Evidences
<1>2. /\ Lowered(Adoption!ProbeCaps(e.probes), Adoption!ProbeCaps(f.probes))
      /\ Lowered(Adoption!RedteamCaps(e.redteam), Adoption!RedteamCaps(f.redteam))
  BY LiveEvaluationsLower DEF NoBetter, Adoption!ProbeCaps, Adoption!RedteamCaps
<1>3. /\ Lowered(Adoption!McpCaps(e.mcp), Adoption!McpCaps(f.mcp))
      /\ Lowered(Adoption!BackdoorCaps(e.backdoor), Adoption!BackdoorCaps(f.backdoor))
      /\ Lowered(Adoption!ProvenanceCaps(e.provenance), Adoption!ProvenanceCaps(f.provenance))
      /\ Lowered(Adoption!IdentityCaps(e.identity), Adoption!IdentityCaps(f.identity))
  BY McpLowers, BackdoorLowers, ProvenanceLowers, IdentityLowers DEF NoBetter, Evidences, UnsafeIsGrave
<1>4. /\ Adoption!WeightCaps(e.weights) = Adoption!WeightCaps(f.weights)
      /\ Adoption!GovernanceCaps(e.gaps) \subseteq Adoption!GovernanceCaps(f.gaps)
      /\ Adoption!CompletenessCaps(e) \subseteq Adoption!CompletenessCaps(f)
      /\ Adoption!PolicyCaps(e, c) \subseteq Adoption!PolicyCaps(f, c)
  <2>1. e.weights = f.weights /\ (e.gaps => f.gaps)
    BY DEF NoBetter
  <2>2. (Adoption!Unfinished(e) => Adoption!Unfinished(f)) /\ Adoption!Met(f) \subseteq Adoption!Met(e)
    BY GapsRemain
  <2>3. Adoption!Missing(e, c) # {} => Adoption!Missing(f, c) # {}
    BY <2>2 DEF Adoption!Missing
  <2> QED
    BY <2>1, <2>2, <2>3 DEF Adoption!GovernanceCaps, Adoption!CompletenessCaps, Adoption!PolicyCaps
<1>5. \A cap \in Adoption!Caps(e, c) : \E lower \in Adoption!Caps(f, c) : lower <= cap
  <2> SUFFICES ASSUME NEW cap \in Adoption!Caps(e, c) PROVE \E lower \in Adoption!Caps(f, c) : lower <= cap
    OBVIOUS
  <2>1. cap \in 0..4 /\ cap <= cap
    BY CapsAreRanks
  <2> QED
    BY <1>1, <1>2, <1>3, <1>4, <2>1, Zenon DEF Lowered, Adoption!Caps
<1> QED
  BY <1>5, LowerCapsNeverHelp
-----------------------------------------------------------------------------
LEMMA NothingChangedIsNoBetter ==
    ASSUME NEW e \in Evidences
    PROVE  /\ NoBetterRisk(e.risk, e.risk) /\ NoBetterResult(e.vulns, e.vulns)
           /\ NoBetterResult(e.scan, e.scan) /\ NoBetterLineage(e.lineage, e.lineage)
           /\ NoBetterFacts(e.facts, e.facts) /\ NoBetterResult(e.probes, e.probes)
           /\ NoBetterResult(e.redteam, e.redteam) /\ NoBetterMcp(e.mcp, e.mcp)
           /\ NoBetterBackdoor(e.backdoor, e.backdoor) /\ NoBetterProvenance(e.provenance, e.provenance)
           /\ NoBetterIdentity(e.identity, e.identity)
<1>1. e.risk.aggregate \in Adoption!Severity /\ (e.provenance # Absent => e.provenance.level \in Adoption!Severity)
  BY DEF Evidences, Adoption!Risks, Adoption!Provenances
<1>2. Rank(e.risk.aggregate) <= Rank(e.risk.aggregate)
      /\ (e.provenance # Absent => Rank(e.provenance.level) <= Rank(e.provenance.level))
  BY <1>1, RanksOfSeverities
<1> QED
  BY <1>2 DEF NoBetterRisk, NoBetterResult, NoBetterLineage, NoBetterFacts, NoBetterMcp, NoBetterBackdoor,
              NoBetterProvenance, NoBetterIdentity

(* One input changes, and gets no better.                                  *)
LEMMA FindStep ==
    ASSUME AdoptionInv, NEW input \in {"vulns", "scan", "probes", "redteam"}, NEW s \in Found,
           Adoption!Find(input, s)
    PROVE  evidence' \in Evidences /\ UnsafeIsGrave(evidence)' /\ NoBetter(evidence, evidence')
<1> DEFINE r == evidence[input]
           found == [evidence[input] EXCEPT !.found = @ \cup {s}]
<1>1. evidence \in Evidences /\ s \in Adoption!Severity
  BY AdoptionConstants DEF AdoptionInv
<1>2. r \in Adoption!Results /\ evidence' = [evidence EXCEPT ![input] = found]
  <2>1. evidence.vulns \in Adoption!Results \cup {Absent} /\ evidence.scan \in Adoption!Results \cup {Absent}
        /\ evidence.probes \in Adoption!Results \cup {Absent} /\ evidence.redteam \in Adoption!Results \cup {Absent}
    BY <1>1 DEF Evidences
  <2> QED
    BY <2>1 DEF Adoption!Find, Adoption!Change
<1>3. found \in Adoption!Results /\ NoBetterResult(r, found)
  <2>1. found.status = r.status /\ found.complete = r.complete /\ found.found = r.found \cup {s}
        /\ found \in Adoption!Results
    BY <1>1, <1>2 DEF Adoption!Results
  <2> QED
    BY <1>2, <2>1, AdoptionConstants DEF NoBetterResult
<1> HIDE DEF r, found
<1>4. evidence' \in Evidences /\ evidence'.mcp = evidence.mcp
  BY <1>1, <1>2, <1>3 DEF Evidences
<1>5. /\ \A k \in {"risk", "vulns", "scan", "weights", "lineage", "facts", "probes", "redteam", "mcp", "backdoor",
                   "provenance", "identity", "gaps"} : evidence'[k] = IF k = input THEN found ELSE evidence[k]
  BY <1>1, <1>2 DEF Evidences
<1>6. NoBetter(evidence, evidence')
  <2>1. /\ evidence'.risk = evidence.risk /\ evidence'.weights = evidence.weights
        /\ evidence'.lineage = evidence.lineage /\ evidence'.facts = evidence.facts
        /\ evidence'.mcp = evidence.mcp /\ evidence'.backdoor = evidence.backdoor
        /\ evidence'.provenance = evidence.provenance /\ evidence'.identity = evidence.identity
        /\ evidence'.gaps = evidence.gaps
    BY <1>5
  <2>2. /\ NoBetterResult(evidence.vulns, evidence'.vulns) /\ NoBetterResult(evidence.scan, evidence'.scan)
        /\ NoBetterResult(evidence.probes, evidence'.probes)
        /\ NoBetterResult(evidence.redteam, evidence'.redteam)
    BY <1>1, <1>3, <1>5, NothingChangedIsNoBetter DEF r
  <2> QED
    BY <1>1, <2>1, <2>2, NothingChangedIsNoBetter DEF NoBetter
<1> QED
  BY <1>4, <1>6 DEF AdoptionInv, UnsafeIsGrave

(* The other inputs, one by one: what holds of the changed one holds of    *)
(* the evidence.                                                           *)
LEMMA OthersUnchanged ==
    ASSUME AdoptionInv, NEW input \in {"risk", "lineage", "facts", "mcp", "backdoor", "provenance", "gaps"},
           NEW value, Adoption!Change(input, value),
           CASE input = "risk" -> value \in Adoption!Risks /\ NoBetterRisk(evidence.risk, value)
             [] input = "lineage" -> value \in Adoption!Lineages /\ NoBetterLineage(evidence.lineage, value)
             [] input = "facts" -> value \in SUBSET Adoption!Severity /\ NoBetterFacts(evidence.facts, value)
             [] input = "mcp" -> /\ value \in Adoption!McpScans /\ NoBetterMcp(evidence.mcp, value)
                                 /\ value.status = "UNSAFE_PATTERNS_FOUND" => value.found \cap Adoption!Grave # {}
             [] input = "backdoor" -> /\ value \in {"CLEAN", "SUSPICIOUS", "HIGH_RISK"}
                                      /\ NoBetterBackdoor(evidence.backdoor, value)
             [] input = "provenance" -> /\ value \in Adoption!Provenances
                                        /\ NoBetterProvenance(evidence.provenance, value)
             [] input = "gaps" -> value = TRUE
    PROVE  evidence' \in Evidences /\ UnsafeIsGrave(evidence)' /\ NoBetter(evidence, evidence')
<1>1. evidence \in Evidences /\ UnsafeIsGrave(evidence) /\ evidence' = [evidence EXCEPT ![input] = value]
  BY DEF AdoptionInv, Adoption!Change
<1>2. \A k \in {"risk", "vulns", "scan", "weights", "lineage", "facts", "probes", "redteam", "mcp", "backdoor",
               "provenance", "identity", "gaps"} : evidence'[k] = IF k = input THEN value ELSE evidence[k]
  BY <1>1 DEF Evidences
<1>3. evidence' \in Evidences
  BY <1>1 DEF Evidences
<1>4. UnsafeIsGrave(evidence)'
  BY <1>1, <1>2 DEF UnsafeIsGrave
<1>5. /\ evidence'.vulns = evidence.vulns /\ evidence'.scan = evidence.scan /\ evidence'.weights = evidence.weights
      /\ evidence'.probes = evidence.probes /\ evidence'.redteam = evidence.redteam
      /\ evidence'.identity = evidence.identity
  BY <1>2
<1>6. NoBetterRisk(evidence.risk, evidence'.risk)
  BY <1>1, <1>2, NothingChangedIsNoBetter
<1>7. NoBetterLineage(evidence.lineage, evidence'.lineage)
  BY <1>1, <1>2, NothingChangedIsNoBetter
<1>8. NoBetterFacts(evidence.facts, evidence'.facts)
  BY <1>1, <1>2, NothingChangedIsNoBetter
<1>9. NoBetterMcp(evidence.mcp, evidence'.mcp)
  BY <1>1, <1>2, NothingChangedIsNoBetter
<1>10. NoBetterBackdoor(evidence.backdoor, evidence'.backdoor)
  BY <1>1, <1>2, NothingChangedIsNoBetter
<1>11. NoBetterProvenance(evidence.provenance, evidence'.provenance)
  BY <1>1, <1>2, NothingChangedIsNoBetter
<1>12. evidence.gaps => evidence'.gaps
  BY <1>2
<1> QED
  BY <1>1, <1>3, <1>4, <1>5, <1>6, <1>7, <1>8, <1>9, <1>10, <1>11, <1>12, NothingChangedIsNoBetter DEF NoBetter

LEMMA PoisonStep ==
    ASSUME AdoptionInv, Adoption!Poison
    PROVE  evidence' \in Evidences /\ UnsafeIsGrave(evidence)' /\ NoBetter(evidence, evidence')
<1>1. PICK found \in SUBSET Found, rugPull \in BOOLEAN :
        /\ evidence.mcp.found \subseteq found /\ (evidence.mcp.rugPull => rugPull)
        /\ Adoption!Change("mcp", [found |-> found \cup {s \in {"HIGH"} : rugPull}, rugPull |-> rugPull,
                          status |-> IF found \cap Adoption!Grave # {} THEN "UNSAFE_PATTERNS_FOUND"
                                     ELSE IF rugPull THEN "TOOLS_CHANGED"
                                     ELSE IF found # {} THEN "SUSPICIOUS" ELSE "CLEAN"])
  BY DEF Adoption!Poison
<1> DEFINE all == found \cup {s \in {"HIGH"} : rugPull}
           status == IF found \cap Adoption!Grave # {} THEN "UNSAFE_PATTERNS_FOUND"
                     ELSE IF rugPull THEN "TOOLS_CHANGED"
                     ELSE IF found # {} THEN "SUSPICIOUS" ELSE "CLEAN"
           value == [found |-> all, rugPull |-> rugPull, status |-> status]
<1>2. all \in SUBSET Adoption!Severity
      /\ status \in {"CLEAN", "SUSPICIOUS", "TOOLS_CHANGED", "UNSAFE_PATTERNS_FOUND"} /\ found \subseteq all
      /\ (status = "UNSAFE_PATTERNS_FOUND" <=> found \cap Adoption!Grave # {})
  <2>1. all \in SUBSET Adoption!Severity /\ found \subseteq all
    <3>1. "HIGH" \in Adoption!Severity /\ found \subseteq Adoption!Severity
      BY AdoptionConstants, RanksOfSeverities DEF Adoption!Severity
    <3> QED
      BY <3>1
  <2>2. CASE found \cap Adoption!Grave # {}
    <3>1. status = "UNSAFE_PATTERNS_FOUND"
      BY <2>2
    <3> HIDE DEF status, all
    <3> QED
      BY <2>1, <2>2, <3>1
  <2>3. CASE found \cap Adoption!Grave = {}
    <3>1. status \in {"TOOLS_CHANGED", "SUSPICIOUS", "CLEAN"}
      BY <2>3
    <3> HIDE DEF status, all
    <3> QED
      BY <2>1, <2>3, <3>1
  <2> QED
    BY <2>2, <2>3
<1>3. Adoption!Change("mcp", value)
  BY <1>1
<1> HIDE DEF all, status
<1>4. value \in Adoption!McpScans
  BY <1>2 DEF Adoption!McpScans
<1>5. value.found = all /\ value.rugPull = rugPull /\ value.status = status
  OBVIOUS
<1> HIDE DEF value
<1>6. value.status = "UNSAFE_PATTERNS_FOUND" => value.found \cap Adoption!Grave # {}
  BY <1>2, <1>5
<1>7. NoBetterMcp(evidence.mcp, value)
  <2>1. evidence.mcp.status = "UNSAFE_PATTERNS_FOUND" => evidence.mcp.found \cap Adoption!Grave # {}
    BY DEF AdoptionInv, UnsafeIsGrave
  <2> QED
    BY <1>1, <1>2, <1>5, <2>1 DEF NoBetterMcp
<1> QED
  BY <1>3, <1>4, <1>6, <1>7, OthersUnchanged

LEMMA ContradictStep ==
    ASSUME AdoptionInv, NEW s \in Found, Adoption!Contradict(s)
    PROVE  evidence' \in Evidences /\ UnsafeIsGrave(evidence)' /\ NoBetter(evidence, evidence')
<1>1. evidence.facts \in SUBSET Adoption!Severity /\ s \in Adoption!Severity
  <2>1. evidence.facts \in (SUBSET Adoption!Severity) \cup {Absent}
    BY DEF AdoptionInv, Evidences
  <2>2. evidence.facts # Absent
    BY DEF Adoption!Contradict
  <2>3. s \in Adoption!Severity
    BY AdoptionConstants
  <2> QED
    BY <2>1, <2>2, <2>3
<1> DEFINE value == evidence.facts \cup {s}
<1>2. value \in SUBSET Adoption!Severity /\ NoBetterFacts(evidence.facts, value) /\ Adoption!Change("facts", value)
  BY <1>1, AdoptionConstants DEF Adoption!Contradict, NoBetterFacts
<1> HIDE DEF value
<1> QED
  BY <1>2, OthersUnchanged

LEMMA DegradeStep ==
    ASSUME AdoptionInv, Adoption!Degrade
    PROVE  evidence' \in Evidences /\ UnsafeIsGrave(evidence)' /\ NoBetter(evidence, evidence')
<1> DEFINE risk == evidence.risk
           lineage == evidence.lineage
           provenance == evidence.provenance
<1>1. /\ risk \in Adoption!Risks /\ lineage \in Adoption!Lineages
      /\ provenance \in Adoption!Provenances \cup {Absent}
      /\ evidence.backdoor \in {"CLEAN", "SUSPICIOUS", "HIGH_RISK"}
  BY DEF AdoptionInv, Evidences
<1>2. Rank(risk.aggregate) <= Rank(risk.aggregate)
      /\ (provenance # Absent => Rank(provenance.level) <= Rank(provenance.level))
  <2>1. risk.aggregate \in Adoption!Severity /\ (provenance # Absent => provenance.level \in Adoption!Severity)
    BY <1>1 DEF Adoption!Risks, Adoption!Provenances
  <2> QED
    BY <2>1, RanksOfSeverities
<1>3. \A level \in Adoption!Severity : Adoption!Level[level] = Rank(level) /\ Rank(level) \in 1..4
  BY RanksOfSeverities DEF Rank
<1>4. ASSUME NEW level \in Adoption!Severity, Adoption!Level[level] > Adoption!Level[evidence.risk.aggregate],
             Adoption!Change("risk", [evidence.risk EXCEPT !.aggregate = level])
      PROVE  evidence' \in Evidences /\ UnsafeIsGrave(evidence)' /\ NoBetter(evidence, evidence')
  <2> DEFINE value == [evidence.risk EXCEPT !.aggregate = level]
  <2>1. value \in Adoption!Risks /\ value.aggregate = level /\ value.threats = risk.threats
        /\ value.lowTrust = risk.lowTrust /\ risk.aggregate \in Adoption!Severity
    BY <1>1 DEF Adoption!Risks
  <2> HIDE DEF value
  <2>2. NoBetterRisk(risk, value)
    BY <1>3, <1>4, <2>1 DEF NoBetterRisk
  <2> QED
    BY <1>4, <2>1, <2>2, OthersUnchanged DEF value
<1>5. ASSUME NEW level \in Adoption!Severity, evidence.provenance # Absent,
             Adoption!Level[level] > Adoption!Level[evidence.provenance.level],
             Adoption!Change("provenance", [evidence.provenance EXCEPT !.level = level])
      PROVE  evidence' \in Evidences /\ UnsafeIsGrave(evidence)' /\ NoBetter(evidence, evidence')
  <2> DEFINE value == [evidence.provenance EXCEPT !.level = level]
  <2>1. value \in Adoption!Provenances /\ value.level = level /\ value.unsigned = provenance.unsigned
        /\ value.complete = provenance.complete /\ value.confident = provenance.confident
        /\ provenance.level \in Adoption!Severity /\ value # Absent
    BY <1>1, <1>5, AdoptionConstants DEF Adoption!Provenances
  <2> HIDE DEF value
  <2>2. NoBetterProvenance(provenance, value)
    BY <1>3, <1>5, <2>1 DEF NoBetterProvenance
  <2> QED
    BY <1>5, <2>1, <2>2, OthersUnchanged DEF value
<1>6. ASSUME Adoption!Change("risk", [evidence.risk EXCEPT !.threats = TRUE])
             \/ Adoption!Change("risk", [evidence.risk EXCEPT !.lowTrust = TRUE])
      PROVE  evidence' \in Evidences /\ UnsafeIsGrave(evidence)' /\ NoBetter(evidence, evidence')
  <2>1. ASSUME NEW value \in {[evidence.risk EXCEPT !.threats = TRUE], [evidence.risk EXCEPT !.lowTrust = TRUE]},
               Adoption!Change("risk", value)
        PROVE  evidence' \in Evidences /\ UnsafeIsGrave(evidence)' /\ NoBetter(evidence, evidence')
    <3>1. value \in Adoption!Risks /\ value.aggregate = risk.aggregate
      BY <1>1, <2>1 DEF Adoption!Risks
    <3>2. (risk.threats => value.threats) /\ (risk.lowTrust => value.lowTrust)
      <4>1. CASE value = [evidence.risk EXCEPT !.threats = TRUE]
        <5>1. value.threats /\ value.lowTrust = risk.lowTrust
          BY <1>1, <4>1 DEF Adoption!Risks
        <5> QED
          BY <5>1
      <4>2. CASE value = [evidence.risk EXCEPT !.lowTrust = TRUE]
        <5>1. value.lowTrust /\ value.threats = risk.threats
          BY <1>1, <4>2 DEF Adoption!Risks
        <5> QED
          BY <5>1
      <4> QED
        BY <2>1, <4>1, <4>2
    <3>3. NoBetterRisk(risk, value)
      BY <1>2, <3>1, <3>2 DEF NoBetterRisk
    <3> QED
      BY <2>1, <3>1, <3>3, OthersUnchanged
  <2> QED
    BY <1>6, <2>1
<1>7. ASSUME Adoption!Change("lineage", [evidence.lineage EXCEPT !.consistent = FALSE])
             \/ Adoption!Change("lineage", [evidence.lineage EXCEPT !.merged = TRUE])
      PROVE  evidence' \in Evidences /\ UnsafeIsGrave(evidence)' /\ NoBetter(evidence, evidence')
  <2>1. ASSUME NEW value \in {[evidence.lineage EXCEPT !.consistent = FALSE], [evidence.lineage EXCEPT !.merged = TRUE]},
               Adoption!Change("lineage", value)
        PROVE  evidence' \in Evidences /\ UnsafeIsGrave(evidence)' /\ NoBetter(evidence, evidence')
    <3>1. value \in Adoption!Lineages
      BY <1>1, <2>1 DEF Adoption!Lineages
    <3>2. NoBetterLineage(lineage, value)
      <4>1. CASE value = [evidence.lineage EXCEPT !.consistent = FALSE]
        <5>1. ~value.consistent /\ value.merged = lineage.merged
          BY <1>1, <4>1 DEF Adoption!Lineages
        <5> QED
          BY <5>1 DEF NoBetterLineage
      <4>2. CASE value = [evidence.lineage EXCEPT !.merged = TRUE]
        <5>1. value.merged /\ value.consistent = lineage.consistent
          BY <1>1, <4>2 DEF Adoption!Lineages
        <5> QED
          BY <5>1 DEF NoBetterLineage
      <4> QED
        BY <2>1, <4>1, <4>2
    <3> QED
      BY <2>1, <3>1, <3>2, OthersUnchanged
  <2> QED
    BY <1>7, <2>1
<1>8. ASSUME Adoption!Change("backdoor", IF evidence.backdoor = "CLEAN" THEN "SUSPICIOUS" ELSE "HIGH_RISK")
      PROVE  evidence' \in Evidences /\ UnsafeIsGrave(evidence)' /\ NoBetter(evidence, evidence')
  <2> DEFINE value == IF evidence.backdoor = "CLEAN" THEN "SUSPICIOUS" ELSE "HIGH_RISK"
  <2>1. value \in {"CLEAN", "SUSPICIOUS", "HIGH_RISK"} /\ NoBetterBackdoor(evidence.backdoor, value)
    BY DEF NoBetterBackdoor
  <2> HIDE DEF value
  <2> QED
    BY <1>8, <2>1, OthersUnchanged DEF value
<1>9. ASSUME evidence.provenance # Absent,
             Adoption!Change("provenance", [evidence.provenance EXCEPT !.complete = FALSE])
             \/ Adoption!Change("provenance", [evidence.provenance EXCEPT !.confident = FALSE])
      PROVE  evidence' \in Evidences /\ UnsafeIsGrave(evidence)' /\ NoBetter(evidence, evidence')
  <2>1. ASSUME NEW value \in {[evidence.provenance EXCEPT !.complete = FALSE],
                              [evidence.provenance EXCEPT !.confident = FALSE]},
               Adoption!Change("provenance", value)
        PROVE  evidence' \in Evidences /\ UnsafeIsGrave(evidence)' /\ NoBetter(evidence, evidence')
    <3>1. value \in Adoption!Provenances /\ value.level = provenance.level /\ value # Absent
      <4>1. provenance \in Adoption!Provenances
        BY <1>1, <1>9
      <4>2. CASE value = [evidence.provenance EXCEPT !.complete = FALSE]
        <5>1. value \in Adoption!Provenances /\ value.level = provenance.level
          BY <4>1, <4>2 DEF Adoption!Provenances
        <5> QED
          BY <5>1, AdoptionConstants
      <4>3. CASE value = [evidence.provenance EXCEPT !.confident = FALSE]
        <5>1. value \in Adoption!Provenances /\ value.level = provenance.level
          BY <4>1, <4>3 DEF Adoption!Provenances
        <5> QED
          BY <5>1, AdoptionConstants
      <4> QED
        BY <2>1, <4>2, <4>3
    <3>2. (provenance.unsigned => value.unsigned) /\ (value.complete => provenance.complete)
          /\ (value.confident => provenance.confident)
      <4>1. CASE value = [evidence.provenance EXCEPT !.complete = FALSE]
        <5>1. ~value.complete /\ value.unsigned = provenance.unsigned /\ value.confident = provenance.confident
          BY <1>1, <1>9, <4>1 DEF Adoption!Provenances
        <5> QED
          BY <5>1
      <4>2. CASE value = [evidence.provenance EXCEPT !.confident = FALSE]
        <5>1. ~value.confident /\ value.unsigned = provenance.unsigned /\ value.complete = provenance.complete
          BY <1>1, <1>9, <4>2 DEF Adoption!Provenances
        <5> QED
          BY <5>1
      <4> QED
        BY <2>1, <4>1, <4>2
    <3>3. NoBetterProvenance(provenance, value)
      BY <1>2, <1>9, <3>1, <3>2 DEF NoBetterProvenance
    <3> QED
      BY <2>1, <3>1, <3>3, OthersUnchanged
  <2> QED
    BY <1>9, <2>1
<1>10. ASSUME Adoption!Change("gaps", TRUE)
       PROVE  evidence' \in Evidences /\ UnsafeIsGrave(evidence)' /\ NoBetter(evidence, evidence')
  BY <1>10, OthersUnchanged
<1> QED
  BY <1>4, <1>5, <1>6, <1>7, <1>8, <1>9, <1>10 DEF Adoption!Degrade

LEMMA LoseAttestationStep ==
    ASSUME AdoptionInv, Adoption!LoseAttestation
    PROVE  evidence' \in Evidences /\ UnsafeIsGrave(evidence)' /\ NoBetter(evidence, evidence')
<1> DEFINE e == evidence
           provenance == IF e.provenance = Absent THEN e.provenance ELSE [e.provenance EXCEPT !.unsigned = TRUE]
           identity == [e.identity EXCEPT !.attested = FALSE]
<1>1. e \in Evidences /\ e' = [e EXCEPT !.identity = identity, !.provenance = provenance]
  BY DEF AdoptionInv, Adoption!LoseAttestation, Evidences
<1>2. e.identity \in [attested : BOOLEAN, weakest : Nat \cup {Absent}]
      /\ e.provenance \in Adoption!Provenances \cup {Absent}
  BY <1>1 DEF Evidences
<1>3. identity \in [attested : BOOLEAN, weakest : Nat \cup {Absent}]
      /\ NoBetterIdentity(e.identity, identity)
  <2>1. identity \in [attested : BOOLEAN, weakest : Nat \cup {Absent}]
    BY <1>2
  <2>2. ~identity.attested /\ identity.weakest = e.identity.weakest
    BY <1>2
  <2> QED
    BY <2>1, <2>2 DEF NoBetterIdentity
<1>4. provenance \in Adoption!Provenances \cup {Absent} /\ NoBetterProvenance(e.provenance, provenance)
  <2>1. CASE e.provenance = Absent
    BY <2>1 DEF NoBetterProvenance
  <2>2. CASE e.provenance # Absent
    <3>1. provenance \in Adoption!Provenances /\ provenance.level = e.provenance.level
          /\ e.provenance.level \in Adoption!Severity /\ provenance # Absent
      BY <1>2, <2>2, AdoptionConstants DEF Adoption!Provenances
    <3>2. provenance.unsigned /\ provenance.complete = e.provenance.complete
          /\ provenance.confident = e.provenance.confident
      BY <1>2, <2>2 DEF Adoption!Provenances
    <3>3. Rank(e.provenance.level) <= Rank(provenance.level)
      BY <3>1, RanksOfSeverities
    <3> HIDE DEF provenance
    <3>4. (provenance.complete => e.provenance.complete) /\ (provenance.confident => e.provenance.confident)
      BY <3>2
    <3> QED
      BY <2>2, <3>1, <3>2, <3>3, <3>4 DEF NoBetterProvenance
  <2> QED
    BY <2>1, <2>2
<1> HIDE DEF identity, provenance
<1>5. \A k \in {"risk", "vulns", "scan", "weights", "lineage", "facts", "probes", "redteam", "mcp", "backdoor",
               "provenance", "identity", "gaps"} :
          e'[k] = IF k = "identity" THEN identity ELSE IF k = "provenance" THEN provenance ELSE e[k]
  BY <1>1 DEF Evidences
<1>6. e' \in Evidences
  BY <1>1, <1>3, <1>4 DEF Evidences
<1>7. /\ e'.risk = e.risk /\ e'.vulns = e.vulns /\ e'.scan = e.scan /\ e'.weights = e.weights
      /\ e'.lineage = e.lineage /\ e'.facts = e.facts /\ e'.probes = e.probes /\ e'.redteam = e.redteam
      /\ e'.mcp = e.mcp /\ e'.backdoor = e.backdoor /\ e'.gaps = e.gaps
      /\ e'.provenance = provenance /\ e'.identity = identity
  BY <1>5
<1>8. NoBetter(e, e')
  BY <1>1, <1>3, <1>4, <1>7, NothingChangedIsNoBetter DEF NoBetter
<1> QED
  BY <1>6, <1>7, <1>8 DEF AdoptionInv, UnsafeIsGrave
-----------------------------------------------------------------------------
(* A rerun that fails leaves a gap, whatever was found before.             *)
LEMMA RerunStep ==
    ASSUME AdoptionInv, Adoption!Rerun
    PROVE  /\ evidence' \in Evidences /\ UnsafeIsGrave(evidence)'
           /\ \A c : Adoption!Recommend(evidence', c) <= Adoption!InsufficientEvidence
<1>1. PICK input \in DOMAIN Adoption!Failures : \E result \in Adoption!Failures[input] : Adoption!Change(input, result)
  BY DEF Adoption!Rerun, Adoption!FailedRerun
<1>2. PICK result \in Adoption!Failures[input] : Adoption!Change(input, result)
  BY <1>1
<1>3. input \in {"probes", "redteam", "scan"}
  BY DEF Adoption!Failures
<1>4. /\ result \in Adoption!Results /\ result.complete = FALSE
  <2>1. \A status \in Adoption!Statuses : /\ Adoption!Failed(status) \in Adoption!Results
                                        /\ Adoption!Failed(status).complete = FALSE
    BY DEF Adoption!Failed, Adoption!Results
  <2>2. \E status \in Adoption!Statuses : result = Adoption!Failed(status)
    <3>1. CASE input = "probes"
      <4>1. result \in {Adoption!Failed("ENDPOINT_ERROR"), Adoption!Failed("PARTIAL")}
        BY <1>2, <3>1 DEF Adoption!Failures
      <4> QED
        BY <4>1 DEF Adoption!Statuses
    <3>2. CASE input = "redteam"
      <4>1. result \in {Adoption!Failed("ENDPOINT_ERROR"), Adoption!Failed("TOOL_NOT_INSTALLED"),
                                  Adoption!Failed("ERROR"), Adoption!Failed("PARTIAL")}
        BY <1>2, <3>2 DEF Adoption!Failures
      <4> QED
        BY <4>1 DEF Adoption!Statuses
    <3>3. CASE input = "scan"
      <4>1. result \in {Adoption!Failed("NO_FILE"), Adoption!Failed("SCAN_ERROR")}
        BY <1>2, <3>3 DEF Adoption!Failures
      <4> QED
        BY <4>1 DEF Adoption!Statuses
    <3> QED
      BY <1>3, <3>1, <3>2, <3>3
  <2> QED
    BY <2>1, <2>2
<1>5. evidence \in Evidences /\ evidence' = [evidence EXCEPT ![input] = result] /\ result # Absent
  BY <1>2, <1>4, AdoptionConstants DEF AdoptionInv, Adoption!Change
<1>6. evidence' \in Evidences /\ evidence'.mcp = evidence.mcp
  BY <1>3, <1>4, <1>5 DEF Evidences
<1>7. evidence'.probes = result \/ evidence'.redteam = result \/ evidence'.scan = result
  BY <1>3, <1>5 DEF Evidences
<1>8. Adoption!Unfinished(evidence')
  BY <1>4, <1>5, <1>7 DEF Adoption!Unfinished
<1>9. ASSUME NEW c PROVE Adoption!Recommend(evidence', c) <= Adoption!InsufficientEvidence
  <2>1. 1 \in Adoption!CompletenessCaps(evidence') /\ Adoption!InsufficientEvidence = 1
    BY <1>8 DEF Adoption!CompletenessCaps, Adoption!Ranks, Adoption!InsufficientEvidence
  <2>2. 1 \in Adoption!Caps(evidence', c)
    BY <2>1 DEF Adoption!Caps
  <2> QED
    BY <2>1, <2>2, VerdictIsLeastCap
<1> QED
  BY <1>6, <1>9 DEF AdoptionInv, UnsafeIsGrave

LEMMA LoseStep ==
    ASSUME AdoptionInv, Adoption!Lose
    PROVE  evidence' \in Evidences /\ UnsafeIsGrave(evidence)'
<1>1. PICK input \in {"vulns", "scan", "probes", "redteam", "facts", "provenance"} : Adoption!Change(input, Absent)
  BY DEF Adoption!Lose, Adoption!Losable, Adoption!Loss
<1>2. evidence \in Evidences /\ evidence' = [evidence EXCEPT ![input] = Absent]
  BY <1>1 DEF AdoptionInv, Adoption!Change
<1>3. evidence' \in Evidences /\ evidence'.mcp = evidence.mcp
  <2>1. CASE input = "vulns"
    BY <1>2, <2>1 DEF Evidences
  <2>2. CASE input = "scan"
    BY <1>2, <2>2 DEF Evidences
  <2>3. CASE input = "probes"
    BY <1>2, <2>3 DEF Evidences
  <2>4. CASE input = "redteam"
    BY <1>2, <2>4 DEF Evidences
  <2>5. CASE input = "facts"
    BY <1>2, <2>5 DEF Evidences
  <2>6. CASE input = "provenance"
    BY <1>2, <2>6 DEF Evidences
  <2> QED
    BY <2>1, <2>2, <2>3, <2>4, <2>5, <2>6
<1> QED
  BY <1>3 DEF AdoptionInv, UnsafeIsGrave

LEMMA SilentRerunStep ==
    ASSUME AdoptionInv, Adoption!SilentRerun
    PROVE  evidence' \in Evidences /\ UnsafeIsGrave(evidence)'
<1>1. Adoption!Done \in Adoption!Results
  BY DEF Adoption!Done, Adoption!Results, Adoption!Statuses
<1>2. evidence \in Evidences /\ evidence' = [evidence EXCEPT !.redteam = Adoption!Done]
  BY DEF AdoptionInv, Adoption!SilentRerun, Adoption!Change
<1>3. evidence' \in Evidences /\ evidence'.mcp = evidence.mcp
  BY <1>1, <1>2 DEF Evidences
<1> QED
  BY <1>3 DEF AdoptionInv, UnsafeIsGrave

(* An assessment that ran and found nothing adds no cap, and is no gap.    *)
LEMMA FaultlessInputsCapNothing ==
    /\ Adoption!VulnerabilityCaps(Adoption!Done) = {} /\ Adoption!SerializationCaps(Adoption!Done) = {}
    /\ Adoption!ProbeCaps(Adoption!Done) = {} /\ Adoption!RedteamCaps(Adoption!Done) = {}
    /\ Adoption!ContradictionCaps({}) = {}
    /\ Adoption!ProvenanceCaps(Adoption!Faultless.provenance) = {}
    /\ Adoption!Done.complete /\ Adoption!Done.status = "COMPLETED" /\ Adoption!Done # Absent
    /\ Adoption!Faultless.provenance # Absent
    /\ Adoption!Faultless.provenance.complete /\ Adoption!Faultless.provenance.confident
<1>1. Adoption!Done \in Adoption!Results /\ Adoption!Done.found = {} /\ Adoption!Done.status = "COMPLETED"
      /\ Adoption!Done.complete
  BY DEF Adoption!Done, Adoption!Results, Adoption!Statuses
<1>2. /\ Adoption!Faultless.provenance \in Adoption!Provenances
      /\ Adoption!Faultless.provenance.level = "LOW" /\ ~Adoption!Faultless.provenance.unsigned
      /\ Adoption!Faultless.provenance.complete /\ Adoption!Faultless.provenance.confident
  BY RanksOfSeverities DEF Adoption!Faultless, Adoption!Provenances
<1>3. Adoption!VulnerabilityCaps(Adoption!Done) = {} /\ Adoption!SerializationCaps(Adoption!Done) = {}
  BY <1>1 DEF Adoption!VulnerabilityCaps, Adoption!SerializationCaps
<1>4. Adoption!ProbeCaps(Adoption!Done) = {} /\ Adoption!RedteamCaps(Adoption!Done) = {}
  BY <1>1 DEF Adoption!ProbeCaps, Adoption!RedteamCaps, Adoption!LiveCaps
<1>5. Adoption!ContradictionCaps({}) = {}
  BY DEF Adoption!ContradictionCaps
<1>6. Adoption!ProvenanceCaps(Adoption!Faultless.provenance) = {}
  BY <1>2, AdoptionConstants DEF Adoption!ProvenanceCaps
<1> QED
  BY <1>1, <1>2, <1>3, <1>4, <1>5, <1>6, AdoptionConstants

(* So a model is judged no better for an input that is not known to be     *)
(* clean.                                                                  *)
LEMMA CleanInputsNeverLower ==
    ASSUME NEW e \in Evidences, NEW input \in Adoption!Losable, NEW c
    PROVE  Adoption!Recommend(e, c) <=
               Adoption!Recommend([e EXCEPT ![input] = Adoption!Faultless[input]], c)
<1> DEFINE clean == Adoption!Faultless[input]
           f == [e EXCEPT ![input] = clean]
<1>1. input \in {"vulns", "scan", "probes", "redteam", "facts", "provenance"}
  BY DEF Adoption!Losable
<1>2. clean = IF input = "facts" THEN {}
              ELSE IF input = "provenance" THEN Adoption!Faultless.provenance ELSE Adoption!Done
  <2>1. /\ Adoption!Faultless["vulns"] = Adoption!Done /\ Adoption!Faultless["scan"] = Adoption!Done
        /\ Adoption!Faultless["probes"] = Adoption!Done /\ Adoption!Faultless["redteam"] = Adoption!Done
        /\ Adoption!Faultless["facts"] = {}
    BY DEF Adoption!Faultless
  <2> QED
    BY <1>1, <2>1
<1> HIDE DEF clean
<1>3. /\ f.risk = e.risk /\ f.weights = e.weights /\ f.lineage = e.lineage /\ f.mcp = e.mcp
      /\ f.backdoor = e.backdoor /\ f.identity = e.identity /\ f.gaps = e.gaps
      /\ f.vulns = IF input = "vulns" THEN clean ELSE e.vulns
      /\ f.scan = IF input = "scan" THEN clean ELSE e.scan
      /\ f.probes = IF input = "probes" THEN clean ELSE e.probes
      /\ f.redteam = IF input = "redteam" THEN clean ELSE e.redteam
      /\ f.facts = IF input = "facts" THEN clean ELSE e.facts
      /\ f.provenance = IF input = "provenance" THEN clean ELSE e.provenance
  BY <1>1 DEF Evidences
<1> HIDE DEF f
<1>4. /\ f.vulns = e.vulns \/ f.vulns = Adoption!Done
      /\ f.scan = e.scan \/ f.scan = Adoption!Done
      /\ f.probes = e.probes \/ f.probes = Adoption!Done
      /\ f.redteam = e.redteam \/ f.redteam = Adoption!Done
      /\ f.facts = e.facts \/ f.facts = {}
      /\ f.provenance = e.provenance \/ f.provenance = Adoption!Faultless.provenance
  BY <1>2, <1>3
<1>5. /\ Adoption!VulnerabilityCaps(f.vulns) \subseteq Adoption!VulnerabilityCaps(e.vulns)
      /\ Adoption!SerializationCaps(f.scan) \subseteq Adoption!SerializationCaps(e.scan)
      /\ Adoption!ProbeCaps(f.probes) \subseteq Adoption!ProbeCaps(e.probes)
      /\ Adoption!RedteamCaps(f.redteam) \subseteq Adoption!RedteamCaps(e.redteam)
      /\ Adoption!ContradictionCaps(f.facts) \subseteq Adoption!ContradictionCaps(e.facts)
      /\ Adoption!ProvenanceCaps(f.provenance) \subseteq Adoption!ProvenanceCaps(e.provenance)
  BY <1>4, FaultlessInputsCapNothing, Zenon
<1>6. Adoption!Unfinished(f) => Adoption!Unfinished(e)
  <2>1. \A x : Adoption!Unfinished(x) <=>
           \/ x.vulns # Absent /\ ~x.vulns.complete
           \/ x.scan # Absent /\ ~x.scan.complete
           \/ x.probes # Absent /\ ~x.probes.complete
           \/ x.redteam # Absent /\ ~x.redteam.complete
           \/ x.weights # Absent /\ ~x.weights.complete
           \/ x.provenance # Absent /\ ~x.provenance.complete
           \/ x.provenance # Absent /\ ~x.provenance.confident
    BY DEF Adoption!Unfinished
  <2>2. /\ f.vulns # Absent /\ ~f.vulns.complete => e.vulns # Absent /\ ~e.vulns.complete
        /\ f.scan # Absent /\ ~f.scan.complete => e.scan # Absent /\ ~e.scan.complete
        /\ f.probes # Absent /\ ~f.probes.complete => e.probes # Absent /\ ~e.probes.complete
        /\ f.redteam # Absent /\ ~f.redteam.complete => e.redteam # Absent /\ ~e.redteam.complete
        /\ f.provenance # Absent /\ ~f.provenance.complete => e.provenance # Absent /\ ~e.provenance.complete
        /\ f.provenance # Absent /\ ~f.provenance.confident => e.provenance # Absent /\ ~e.provenance.confident
        /\ f.weights = e.weights
    BY <1>3, <1>4, FaultlessInputsCapNothing
  <2> QED
    BY <2>1, <2>2
<1>7. Adoption!Met(e) \subseteq Adoption!Met(f)
  <2> SUFFICES ASSUME NEW req \in Adoption!Met(e) PROVE req \in Adoption!Met(f)
    OBVIOUS
  <2>1. "COMPLETED" \notin Adoption!ScanSkipped \cup {"SCAN_ERROR"}
    BY DEF Adoption!ScanSkipped
  <2> QED
    BY <1>3, <1>4, <2>1, FaultlessInputsCapNothing DEF Adoption!Met
<1>8. /\ Adoption!RiskCaps(f.risk) = Adoption!RiskCaps(e.risk)
      /\ Adoption!WeightCaps(f.weights) = Adoption!WeightCaps(e.weights)
      /\ Adoption!LineageCaps(f.lineage) = Adoption!LineageCaps(e.lineage)
      /\ Adoption!McpCaps(f.mcp) = Adoption!McpCaps(e.mcp)
      /\ Adoption!BackdoorCaps(f.backdoor) = Adoption!BackdoorCaps(e.backdoor)
      /\ Adoption!IdentityCaps(f.identity) = Adoption!IdentityCaps(e.identity)
      /\ Adoption!GovernanceCaps(f.gaps) = Adoption!GovernanceCaps(e.gaps)
      /\ Adoption!CompletenessCaps(f) \subseteq Adoption!CompletenessCaps(e)
      /\ Adoption!PolicyCaps(f, c) \subseteq Adoption!PolicyCaps(e, c)
  <2>1. Adoption!Missing(f, c) # {} => Adoption!Missing(e, c) # {}
    BY <1>7 DEF Adoption!Missing
  <2>2. Adoption!CompletenessCaps(f) \subseteq Adoption!CompletenessCaps(e)
    BY <1>6 DEF Adoption!CompletenessCaps
  <2>3. Adoption!PolicyCaps(f, c) \subseteq Adoption!PolicyCaps(e, c)
    BY <2>1 DEF Adoption!PolicyCaps
  <2> QED
    BY <1>3, <2>2, <2>3
<1>9. Adoption!Caps(f, c) \subseteq Adoption!Caps(e, c)
  BY <1>5, <1>8, Zenon DEF Adoption!Caps
<1>10. \A cap \in Adoption!Caps(f, c) : cap \in Adoption!Caps(e, c) /\ cap <= cap
  BY <1>9, CapsAreRanks
<1>11. Adoption!Recommend(e, c) <= Adoption!Recommend(f, c)
  BY <1>10, LowerCapsNeverHelp
<1> QED
  BY <1>11 DEF f, clean

(* A lost record that is required is a gap that caps the verdict.          *)
LEMMA RequiredLossStep ==
    ASSUME AdoptionInv, NEW input \in Adoption!Losable, Adoption!Loss(input), NEW c,
           input = "provenance" \/ (Adoption!Strict(c) /\ input \in Adoption!Required(c))
    PROVE  Adoption!Recommend(evidence', c) <= Adoption!InsufficientEvidence
<1>1. evidence \in Evidences /\ evidence' = [evidence EXCEPT ![input] = Absent]
  BY DEF AdoptionInv, Adoption!Loss, Adoption!Change
<1>2. input \in {"vulns", "scan", "probes", "redteam", "facts", "provenance"}
  BY DEF Adoption!Losable
<1>3. evidence'[input] = Absent
  BY <1>1, <1>2 DEF Evidences
<1>4. 1 \in Adoption!Caps(evidence', c)
  <2>1. CASE input = "provenance"
    <3>1. 1 \in Adoption!ProvenanceCaps(evidence'.provenance)
      BY <1>3, <2>1 DEF Adoption!ProvenanceCaps, Adoption!InsufficientEvidence
    <3> QED
      BY <3>1 DEF Adoption!Caps
  <2>2. CASE input # "provenance"
    <3>1. Adoption!Strict(c) /\ input \in Adoption!Required(c)
      BY <2>2
    <3>2. input \in {"vulns", "scan", "probes"}
      BY <1>2, <2>2, <3>1 DEF Adoption!Required
    <3>3. input \notin Adoption!Met(evidence')
      BY <1>3, <3>2 DEF Adoption!Met
    <3>4. Adoption!Missing(evidence', c) # {}
      BY <3>1, <3>3 DEF Adoption!Missing
    <3>5. 1 \in Adoption!PolicyCaps(evidence', c)
      BY <3>1, <3>4 DEF Adoption!PolicyCaps, Adoption!Ranks, Adoption!InsufficientEvidence
    <3> QED
      BY <3>5 DEF Adoption!Caps
  <2> QED
    BY <2>1, <2>2
<1> QED
  BY <1>4, VerdictIsLeastCap DEF Adoption!InsufficientEvidence

(* A use that is opened up is held to no less.                             *)
LEMMA ExposedUses ==
    ASSUME NEW c \in Contexts, NEW d \in Contexts, c.use <= d.use, c.data <= d.data,
           c.exposure <= d.exposure, c.anonymous => d.anonymous
    PROVE  /\ \A e : Adoption!Recommend(e, d) <= Adoption!Recommend(e, c)
           /\ Adoption!Scope(d) <= Adoption!Scope(c)
<1>1. /\ c.use \in Nat /\ c.data \in Nat /\ c.exposure \in 0..3
      /\ d.use \in Nat /\ d.data \in Nat /\ d.exposure \in 0..3
  BY AdoptionConstants
<1>2. /\ Adoption!Exposure(c) \in 0..3 /\ Adoption!Exposure(d) \in 0..3
      /\ Adoption!Exposure(c) <= Adoption!Exposure(d)
  <2>1. /\ Adoption!Exposure(c) = (IF c.anonymous THEN 3 ELSE c.exposure)
        /\ Adoption!Exposure(d) = (IF d.anonymous THEN 3 ELSE d.exposure)
    BY DEF Adoption!Exposure
  <2>2. CASE c.anonymous
    <3>1. Adoption!Exposure(c) = 3 /\ Adoption!Exposure(d) = 3
      BY <2>1, <2>2
    <3> QED
      BY <3>1
  <2>3. CASE ~c.anonymous
    <3>1. Adoption!Exposure(c) = c.exposure /\ Adoption!Exposure(d) \in {3, d.exposure}
      BY <2>1, <2>3
    <3> QED
      BY <1>1, <3>1
  <2> QED
    BY <2>2, <2>3
<1>3. /\ Adoption!Score(c) \in Nat /\ Adoption!Score(d) \in Nat /\ Adoption!Score(c) <= Adoption!Score(d)
  BY <1>1, <1>2 DEF Adoption!Score
<1>4. /\ Adoption!Posture(c) = "critical" => Adoption!Posture(d) = "critical"
      /\ Adoption!Posture(c) = "high" => Adoption!Posture(d) \in {"critical", "high"}
      /\ Adoption!Posture(c) = "medium" => Adoption!Posture(d) \in {"critical", "high", "medium"}
      /\ Adoption!Posture(c) \in {"critical", "high", "medium", "low"}
      /\ Adoption!Posture(d) \in {"critical", "high", "medium", "low"}
  BY <1>1, <1>2, <1>3 DEF Adoption!Posture
<1>5. Adoption!Strict(c) => Adoption!Strict(d)
  BY <1>4 DEF Adoption!Strict
<1>6. Adoption!Required(c) \subseteq Adoption!Required(d)
  <2>1. (Adoption!Exposure(c) >= 2 => Adoption!Exposure(d) >= 2) /\ (c.data >= 3 => d.data >= 3)
    BY <1>1, <1>2
  <2> QED
    BY <1>5, <2>1 DEF Adoption!Required
<1>7. ASSUME NEW e PROVE Adoption!Recommend(e, d) <= Adoption!Recommend(e, c)
  <2>1. Adoption!PolicyCaps(e, c) \subseteq Adoption!PolicyCaps(e, d)
    BY <1>5, <1>6 DEF Adoption!PolicyCaps, Adoption!Missing
  <2>2. Adoption!Caps(e, c) \subseteq Adoption!Caps(e, d)
    BY <2>1 DEF Adoption!Caps
  <2>3. \A cap \in Adoption!Caps(e, c) : cap \in Adoption!Caps(e, d) /\ cap <= cap
    BY <2>2, CapsAreRanks
  <2> QED
    BY <2>3, LowerCapsNeverHelp
<1>8. Adoption!Scope(d) <= Adoption!Scope(c)
  <2>1. \A x : Adoption!Posture(x) \in {"critical", "high", "medium", "low"} =>
            Adoption!Scope(x) = IF Adoption!Posture(x) = "critical" THEN 0
                                ELSE IF Adoption!Posture(x) \in {"high", "medium"} THEN 1 ELSE 2
    BY DEF Adoption!Scope
  <2> QED
    BY <1>4, <2>1
<1> QED
  BY <1>7, <1>8

(* What the laws of adoption say of one step about failed and lost inputs. *)
NoBetterThanClean ==
    \A input \in Adoption!Losable :
        Adoption!Loss(input) \/ (input \in DOMAIN Adoption!Failures /\ Adoption!FailedRerun(input)) =>
            adoption' <= Adoption!Recommend([evidence' EXCEPT ![input] = Adoption!Faultless[input]], use')
LossesNoticed ==
    \A input \in Adoption!Losable :
        /\ Adoption!Loss(input)
        /\ input = "provenance" \/ (Adoption!Strict(use') /\ input \in Adoption!Required(use'))
        => adoption' <= Adoption!InsufficientEvidence

(* A step of the laws of adoption keeps the invariant, and none of them    *)
(* makes the verdict better where it must not.                             *)
LEMMA AdoptionStep ==
    ASSUME AdoptionInv, Adoption!Next
    PROVE  /\ AdoptionInv'
           /\ adoption' > adoption => ~Adoption!Worsen
           /\ adoption' > Adoption!InsufficientEvidence => ~Adoption!Rerun
           /\ use' # use => adoption' <= adoption /\ Adoption!Scope(use') <= Adoption!Scope(use)
           /\ NoBetterThanClean /\ LossesNoticed
<1>1. adoption = Adoption!Recommend(evidence, use) /\ adoption' = Adoption!Recommend(evidence', use')
  BY DEF AdoptionInv, Adoption!Next
<1>2. adoption \in 0..4 /\ adoption' \in 0..4
  BY <1>1, VerdictIsLeastCap
<1>3. ASSUME Adoption!Worsen
      PROVE  /\ evidence' \in Evidences /\ UnsafeIsGrave(evidence)' /\ use' = use /\ adoption' <= adoption
  <2>1. use' = use
    BY <1>3 DEF Adoption!Worsen, Adoption!Find, Adoption!Contradict, Adoption!Poison, Adoption!Degrade,
                Adoption!LoseAttestation, Adoption!Change
  <2>2. evidence' \in Evidences /\ UnsafeIsGrave(evidence)' /\ NoBetter(evidence, evidence')
    BY <1>3, FindStep, ContradictStep, PoisonStep, DegradeStep, LoseAttestationStep DEF Adoption!Worsen
  <2> QED
    BY <1>1, <2>1, <2>2, BadNewsLowersCaps DEF AdoptionInv
<1>4. ASSUME Adoption!Rerun
      PROVE  /\ evidence' \in Evidences /\ UnsafeIsGrave(evidence)' /\ use' = use
             /\ adoption' <= Adoption!InsufficientEvidence
  <2>1. use' = use
    BY <1>4 DEF Adoption!Rerun, Adoption!FailedRerun, Adoption!Change
  <2> QED
    BY <1>1, <1>4, <2>1, RerunStep
<1>5. ASSUME Adoption!Lose PROVE evidence' \in Evidences /\ UnsafeIsGrave(evidence)' /\ use' = use
  <2>1. use' = use
    BY <1>5 DEF Adoption!Lose, Adoption!Loss, Adoption!Change
  <2> QED
    BY <1>5, <2>1, LoseStep
<1>6. ASSUME Adoption!Expose
      PROVE  /\ evidence' \in Evidences /\ UnsafeIsGrave(evidence)' /\ use' \in Contexts
             /\ adoption' <= adoption /\ Adoption!Scope(use') <= Adoption!Scope(use)
  <2>1. /\ use \in Contexts /\ use' \in Contexts /\ evidence' = evidence
        /\ use.use <= use'.use /\ use.data <= use'.data /\ use.exposure <= use'.exposure
        /\ use.anonymous => use'.anonymous
    BY <1>6 DEF Adoption!Expose, AdoptionInv
  <2> QED
    BY <1>1, <2>1, ExposedUses DEF AdoptionInv, UnsafeIsGrave
<1>10. ASSUME Adoption!SilentRerun PROVE evidence' \in Evidences /\ UnsafeIsGrave(evidence)' /\ use' = use
  <2>1. use' = use
    BY <1>10 DEF Adoption!SilentRerun, Adoption!Change
  <2> QED
    BY <1>10, <2>1, SilentRerunStep
<1>7. AdoptionInv'
  BY <1>1, <1>3, <1>4, <1>5, <1>6, <1>10 DEF AdoptionInv, Adoption!Next
<1>8. Adoption!InsufficientEvidence = 1
  BY DEF Adoption!InsufficientEvidence
<1>9. use' # use => Adoption!Expose
  BY <1>3, <1>4, <1>5, <1>10 DEF Adoption!Next
<1>11. NoBetterThanClean
  <2> SUFFICES ASSUME NEW input \in Adoption!Losable
               PROVE  adoption' <= Adoption!Recommend(
                                       [evidence' EXCEPT ![input] = Adoption!Faultless[input]], use')
    BY DEF NoBetterThanClean
  <2>1. evidence' \in Evidences
    BY <1>7 DEF AdoptionInv
  <2> QED
    BY <1>1, <2>1, CleanInputsNeverLower
<1>12. LossesNoticed
  BY <1>1, RequiredLossStep DEF LossesNoticed
<1> QED
  BY <1>2, <1>3, <1>4, <1>6, <1>7, <1>8, <1>9, <1>11, <1>12
-----------------------------------------------------------------------------
(* The four together: what is judged stays well typed, and the run of a    *)
(* workflow keeps its invariant.                                           *)
LawsInv == SessionTyped /\ ToolInputsTyped /\ AdoptionInv /\ RunInv

LEMMA FaultlessIsTyped == Adoption!Faultless \in Evidences /\ UnsafeIsGrave(Adoption!Faultless)
<1>1. Adoption!Done \in Adoption!Results
  BY DEF Adoption!Done, Adoption!Results, Adoption!Statuses
<1>2. {"LOW"} \subseteq Adoption!Severity
  BY RanksOfSeverities DEF Adoption!Severity
<1>3. Adoption!Faultless.risk \in Adoption!Risks /\ Adoption!Faultless.provenance \in Adoption!Provenances
  BY <1>2 DEF Adoption!Faultless, Adoption!Risks, Adoption!Provenances
<1>4. Adoption!Faultless.mcp \in Adoption!McpScans /\ Adoption!Faultless.lineage \in Adoption!Lineages
  BY DEF Adoption!Faultless, Adoption!McpScans, Adoption!Lineages
<1> QED
  BY <1>1, <1>3, <1>4 DEF Adoption!Faultless, Evidences, UnsafeIsGrave

LEMMA LawsInvInitially == LawsInit => LawsInv
<1> SUFFICES ASSUME LawsInit PROVE LawsInv
  OBVIOUS
<1>1. SessionTyped
  <2>1. policy \in Policies /\ artifact \in Artifacts /\ payload \in Payloads
    BY LawsAssumption DEF LawsInit, Init, SomePolicy, SomeArtifact, SomePayload
  <2> QED
    BY <2>1, LawsAssumption DEF SessionTyped
<1>2. ToolInputsTyped
  BY ToolConstants DEF LawsInit, ToolsOf!Init, ToolInputsTyped
<1>3. AdoptionInv
  BY FaultlessIsTyped DEF LawsInit, Adoption!Init, AdoptionInv
<1>4. RunInv
  <2>1. workflow \in Workflows
    BY LawsAssumption DEF LawsInit, SomeWorkflow
  <2>2. WorkflowInit
    BY <2>1 DEF LawsInit, WorkflowInit
  <2> QED
    BY <2>2, WorkflowInitRunInv
<1> QED
  BY <1>1, <1>2, <1>3, <1>4 DEF LawsInv

LEMMA LawsInvPreserved ==
    LawsInv /\ [LawsNext]_<<verdictOf, vars, toolVars, adoptionVars, workflowVars>> => LawsInv'
<1> SUFFICES ASSUME LawsInv, [LawsNext]_<<verdictOf, vars, toolVars, adoptionVars, workflowVars>>
             PROVE  LawsInv'
  OBVIOUS
<1>1. UNCHANGED vars => SessionTyped'
  BY DEF vars, LawsInv, SessionTyped
<1>2. UNCHANGED toolVars => ToolInputsTyped'
  BY DEF toolVars, LawsInv, ToolInputsTyped
<1>3. UNCHANGED adoptionVars => AdoptionInv'
  BY DEF adoptionVars, LawsInv, AdoptionInv, UnsafeIsGrave
<1>4. UNCHANGED workflowVars => RunInv'
  BY DEF workflowVars, LawsInv, RunInv, RunTyped, RouteIsUncut, TaintsAreTracked, VisitsAreLimited,
         ControllersLead
<1>5. CASE Next /\ UNCHANGED <<toolVars, adoptionVars, workflowVars>>
  BY <1>2, <1>3, <1>4, <1>5, SessionStaysTyped DEF LawsInv
<1>6. CASE ToolsOf!Next /\ UNCHANGED <<vars, adoptionVars, workflowVars>>
  BY <1>1, <1>3, <1>4, <1>6, ToolStep DEF LawsInv
<1>7. CASE Adoption!Next /\ UNCHANGED <<vars, toolVars, workflowVars>>
  BY <1>1, <1>2, <1>4, <1>7, AdoptionStep DEF LawsInv
<1>8. CASE WorkflowNext /\ UNCHANGED <<vars, toolVars, adoptionVars>>
  BY <1>1, <1>2, <1>3, <1>8, GoPreservesRunInv DEF LawsInv, WorkflowNext
<1>9. CASE UNCHANGED <<verdictOf, vars, toolVars, adoptionVars, workflowVars>>
  BY <1>1, <1>2, <1>3, <1>4, <1>9 DEF LawsInv
<1> QED
  BY <1>5, <1>6, <1>7, <1>8, <1>9 DEF LawsNext

(* What is judged is well typed, and runs keep to what the analysis of     *)
(* their workflow says.                                                    *)
THEOREM LawsInvHolds == LawsSpec => []LawsInv
<1> QED
  BY LawsInvInitially, LawsInvPreserved, PTL DEF LawsSpec

(* What a step of the laws changes: the inputs of one verdict.             *)
LEMMA OneVerdictMoves ==
    ASSUME [LawsNext]_<<verdictOf, vars, toolVars, adoptionVars, workflowVars>>
    PROVE  /\ UNCHANGED vars \/ Next
           /\ UNCHANGED toolVars \/ ToolsOf!Next
           /\ UNCHANGED adoptionVars \/ Adoption!Next
           /\ UNCHANGED workflowVars \/ WorkflowNext
BY DEF LawsNext

(* Of authorize: an approval turns REQUIRE_APPROVAL into ALLOW and nothing *)
(* else, and who asks for less never gets less.                            *)
THEOREM RequestsJudgedFairly == LawsSpec => RequestsAreJudgedFairly
<1>1. LawsInv => (Approve => Now' = IF Now = "REQUIRE_APPROVAL" THEN "ALLOW" ELSE Now)
  BY ApproveStep DEF LawsInv
<1>2. LawsInv => (Narrow => NoStricter(Now', Now) /\ (Now = "REQUIRE_APPROVAL" => Now' # "DENY"))
  BY NarrowStep DEF LawsInv
<1>3. LawsSpec => ApprovalOnlyAnswersApproval
  BY <1>1, LawsInvHolds, PTL DEF ApprovalOnlyAnswersApproval
<1>4. LawsSpec => LeastPrivilegeIsFree
  BY <1>2, LawsInvHolds, PTL DEF LeastPrivilegeIsFree
<1> QED
  BY <1>3, <1>4 DEF RequestsAreJudgedFairly

(* Of authorize: naming a workflow step never grants what was not granted  *)
(* without it, and where a step is demanded a call keeps to its own.       *)
THEOREM StepsRestrict == LawsSpec => StepsOnlyRestrict
<1>1. LawsInv => (BindStep /\ ~policy.bindSteps => DeniedStays(Now', Now) /\ NoStricter(Now, Now'))
  BY BindStepStep DEF LawsInv
<1> DEFINE kept == policy.bindSteps /\ Now # "DENY" =>
                      LET step == artifact.steps[payload.step]
                      IN /\ Bound(artifact, payload)
                         /\ payload.perms \subseteq step.perms
                         /\ step.tool \in {None, payload.tool}
<1>2. kept
  BY BoundCallsKeepToTheirStep
<1>3. LawsSpec => [][BindStep /\ ~policy.bindSteps => DeniedStays(Now', Now) /\ NoStricter(Now, Now')]_vars
  BY <1>1, LawsInvHolds, PTL
<1>4. LawsSpec => []kept
  BY <1>2, PTL
<1> QED
  BY <1>3, <1>4 DEF StepsOnlyRestrict

(* A tightened policy, a contained or constrained agent and a session that *)
(* is trusted less are never granted more, by authorize or at the firewall.*)
THEOREM RestrictionsGrantNothing == LawsSpec => RestrictionsNeverGrant
<1>1. LawsInv => (Tighten => DeniedStays(Now', Now) /\ NoStricter(Now, Now'))
  BY TightenStep DEF LawsInv
<1>2. LawsSpec => TighteningNeverGrants
  BY <1>1, LawsInvHolds, PTL DEF TighteningNeverGrants
<1>3. LawsInv /\ [LawsNext]_<<verdictOf, vars, toolVars, adoptionVars, workflowVars>> =>
        [ToolsOf!Leniency[ToolsOf!Now'] <= ToolsOf!Leniency[ToolsOf!Now]]_(ToolsOf!vars)
  BY OneVerdictMoves, ToolStep DEF LawsInv, toolVars, ToolsOf!vars
<1>4. LawsSpec => ToolsOf!RestrictionsNeverGrant
  BY <1>3, LawsInvHolds, PTL DEF LawsSpec, ToolsOf!RestrictionsNeverGrant
<1> QED
  BY <1>2, <1>4 DEF RestrictionsNeverGrant

(* Of the adoption engine: bad news and wider uses never make a verdict    *)
(* better; a failed evaluation and the loss of a required one leave none   *)
(* above INSUFFICIENT_EVIDENCE; none counts for more than a clean one.     *)
THEOREM AdoptionLoosensNothing == LawsSpec => AdoptionNeverLoosens
<1>1. LawsInv /\ [LawsNext]_<<verdictOf, vars, toolVars, adoptionVars, workflowVars>> =>
        /\ [adoption' > adoption => ~Adoption!Worsen]_(Adoption!vars)
        /\ [adoption' > Adoption!InsufficientEvidence => ~Adoption!Rerun]_(Adoption!vars)
        /\ [use' # use => adoption' <= adoption /\ Adoption!Scope(use') <= Adoption!Scope(use)]_(Adoption!vars)
        /\ [NoBetterThanClean]_(Adoption!vars)
        /\ [LossesNoticed]_(Adoption!vars)
  BY OneVerdictMoves, AdoptionStep DEF LawsInv, adoptionVars, Adoption!vars
<1>2. LawsSpec => Adoption!BadNewsNeverHelps
  BY <1>1, LawsInvHolds, PTL DEF LawsSpec, Adoption!BadNewsNeverHelps
<1>3. LawsSpec => Adoption!FailedRerunsNeverApprove
  BY <1>1, LawsInvHolds, PTL DEF LawsSpec, Adoption!FailedRerunsNeverApprove
<1>4. LawsSpec => Adoption!ContextOnlyRestricts
  BY <1>1, LawsInvHolds, PTL DEF LawsSpec, Adoption!ContextOnlyRestricts
<1>5. LawsSpec => Adoption!UnassessedIsNoBetterThanClean
  BY <1>1, LawsInvHolds, PTL DEF LawsSpec, Adoption!UnassessedIsNoBetterThanClean, NoBetterThanClean
<1>6. LawsSpec => Adoption!RequiredLossesAreNoticed
  BY <1>1, LawsInvHolds, PTL DEF LawsSpec, Adoption!RequiredLossesAreNoticed, LossesNoticed
<1> QED
  BY <1>2, <1>3, <1>4, <1>5, <1>6 DEF AdoptionNeverLoosens, Adoption!AdoptionNeverLoosens

(* Of the workflow analysis, where its report says that it is complete: a  *)
(* run that breaks a reported bound, comes to a sensitive step or gains a  *)
(* permission unapproved, or brings tainted data to a sink, has its risk   *)
(* in the report.                                                          *)
THEOREM ReportsCoverRuns == LawsSpec => ReportCoversRuns
<1>1. LawsInv => (report.assessment_complete => BoundsHold /\ SensitiveIsApproved /\ TaintIsReported)
  BY RunInvBounds, RunInvApproved, RunInvTaint DEF LawsInv
<1>2. LawsSpec => [](report.assessment_complete => BoundsHold /\ SensitiveIsApproved /\ TaintIsReported)
  BY <1>1, LawsInvHolds, PTL
<1>3. LawsInv /\ [LawsNext]_<<verdictOf, vars, toolVars, adoptionVars, workflowVars>> =>
        [report.assessment_complete /\ Escalates(workflow, at, at') =>
            workflow.steps[at'].direct \/ Approved(at)' \/ Reported("unapproved_privilege_escalation", at')]_workflowVars
  BY OneVerdictMoves, EscalationStep DEF LawsInv, WorkflowNext
<1>4. LawsSpec => EscalationsAreApproved
  BY <1>3, LawsInvHolds, PTL DEF LawsSpec, EscalationsAreApproved
<1> QED
  BY <1>2, <1>4 DEF ReportCoversRuns
=============================================================================
