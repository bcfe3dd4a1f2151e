----------------------------- MODULE DataflowProofs -----------------------------
(*****************************************************************************)
(* The worklist solver, for every set of problems over every graph, in       *)
(* either direction, and every traversal order; the two analyses that use    *)
(* it, for every function; and the propagation of constants and ranges, for  *)
(* every function the verifier accepts and every width of values.            *)
(*****************************************************************************)
EXTENDS Dataflow, ExceptionFlowProofs

-----------------------------------------------------------------------------
(* The solver *)

SolverTypeOK(problems) ==
    /\ problem \in problems
    /\ before \in [problem.blocks -> SUBSET problem.facts]
    /\ after \in [problem.blocks -> SUBSET problem.facts]
    /\ pending \subseteq problem.blocks

(* A block the traversal visits waits in the worklist or is in balance. *)
WaitingOrBalanced ==
    \A b \in problem.start : b \in pending \/ Balanced(b)

(* Where nothing flows in, the state before a block never changes. *)
BoundaryKept ==
    \A b \in problem.blocks :
        b \in problem.fixed \/ problem.inflow[b] = {} => before[b] = Base(problem, b)

-----------------------------------------------------------------------------
(* What flows into a block, and out of it, are facts of the problem. *)
LEMMA FlowIsTyped ==
    ASSUME NEW problems, \A p \in problems : IsProblem(p), SolverTypeOK(problems),
           NEW b \in problem.blocks
    PROVE  /\ Input(b) \subseteq problem.facts
           /\ \A s \in SUBSET problem.facts : Transfer(b, s) \subseteq problem.facts
           /\ Affected(b) \subseteq problem.blocks
  <1>1. IsProblem(problem)
    BY DEF SolverTypeOK
  <1>2. problem.inflow[b] \subseteq problem.blocks /\ problem.gen[b] \subseteq problem.facts
    BY <1>1 DEF IsProblem
  <1>3. Input(b) \subseteq problem.facts
    <2>1. CASE b \in problem.fixed \/ problem.inflow[b] = {}
      BY <2>1 DEF Input, SolverTypeOK
    <2>2. CASE ~(b \in problem.fixed \/ problem.inflow[b] = {})
      <3>1. \A c \in problem.inflow[b] : after[c] \subseteq problem.facts
        BY <1>2 DEF SolverTypeOK
      <3> QED  BY <2>2, <3>1 DEF Input
    <2> QED  BY <2>1, <2>2
  <1>4. \A s \in SUBSET problem.facts : Transfer(b, s) \subseteq problem.facts
    BY <1>2 DEF Transfer
  <1> QED  BY <1>3, <1>4 DEF Affected

(* The states are sets of facts and the worklist holds blocks of the problem:
   solver.rs indexes its vectors by both. *)
LEMMA TypeIsKept ==
    ASSUME NEW problems, \A p \in problems : IsProblem(p), SolverTypeOK(problems),
           [SolverNext]_solverVars
    PROVE  SolverTypeOK(problems)'
  <1>1. CASE UNCHANGED solverVars
    BY <1>1 DEF SolverTypeOK, solverVars
  <1>2. ASSUME NEW b \in pending, Process(b)
        PROVE  SolverTypeOK(problems)'
    <2>1. b \in problem.blocks
      BY DEF SolverTypeOK
    <2>2. Input(b) \subseteq problem.facts /\ Affected(b) \subseteq problem.blocks
      BY <2>1, FlowIsTyped
    <2>3. Transfer(b, Input(b)) \subseteq problem.facts
      BY <2>1, <2>2, FlowIsTyped
    <2> QED  BY <1>2, <2>1, <2>2, <2>3 DEF Process, SolverTypeOK
  <1> QED  BY <1>1, <1>2 DEF SolverNext

(* Type correctness of every problem the solver is given. *)
THEOREM SolverTypeCorrect ==
    ASSUME NEW CONSTANT problems, \A p \in problems : IsProblem(p)
    PROVE  SolverSpec(problems) => []SolverTypeOK(problems)
  <1>1. ASSUME problem \in problems,
               before = [b \in problem.blocks |-> Base(problem, b)],
               after = [b \in problem.blocks |-> {}],
               pending = problem.start
        PROVE  SolverTypeOK(problems)
    <2>1. IsProblem(problem)
      BY <1>1
    <2> QED  BY <1>1, <2>1 DEF SolverTypeOK, IsProblem, Base
  <1>2. SolverTypeOK(problems) /\ [SolverNext]_solverVars => SolverTypeOK(problems)'
    BY TypeIsKept
  <1> QED  BY <1>1, <1>2, PTL DEF SolverSpec

-----------------------------------------------------------------------------
(* Processing a block puts every block it flows into back on the list when its
   own state changed, and leaves the balance of all others alone. *)
LEMMA WaitingOrBalancedIsKept ==
    ASSUME NEW problems, \A p \in problems : IsProblem(p), SolverTypeOK(problems),
           WaitingOrBalanced, [SolverNext]_solverVars
    PROVE  WaitingOrBalanced'
  <1>1. CASE UNCHANGED solverVars
    <2>1. problem' = problem /\ before' = before /\ after' = after /\ pending' = pending
      BY <1>1 DEF solverVars
    <2>2. \A c \in problem.start : Input(c)' = Input(c)
      BY <2>1 DEF Input
    <2> QED  BY <2>1, <2>2 DEF WaitingOrBalanced, Balanced, Transfer
  <1>2. ASSUME NEW b \in pending, Process(b), NEW c \in problem.start, c \notin pending'
        PROVE  Balanced(c)'
    <2>1. /\ b \in problem.blocks /\ c \in problem.blocks
          /\ problem.inflow[c] \subseteq problem.blocks
      BY DEF SolverTypeOK, IsProblem
    <2>2. /\ problem' = problem
          /\ before' = [before EXCEPT ![b] = Input(b)]
          /\ after' = [after EXCEPT ![b] = Transfer(b, Input(b))]
      BY <1>2 DEF Process
    <2>3. DOMAIN before = problem.blocks /\ DOMAIN after = problem.blocks
      BY DEF SolverTypeOK
    <2>4. \A a \in problem.inflow[c] : after'[a] = after[a]
      <3>1. CASE after'[b] = after[b]
        BY <2>1, <2>2, <2>3, <3>1
      <3>2. CASE after'[b] # after[b]
        <4>1. c \notin Affected(b)
          BY <1>2, <3>2 DEF Process
        <4>2. b \notin problem.inflow[c]
          BY <2>1, <4>1 DEF Affected
        <4> QED  BY <2>1, <2>2, <2>3, <4>2
      <3> QED  BY <3>1, <3>2
    <2>5. CASE c = b
      <3>1. before'[b] = Input(b) /\ after'[b] = Transfer(b, Input(b))
        BY <2>1, <2>2, <2>3
      <3>2. Input(b)' = Input(b)
        <4>1. CASE b \in problem.fixed \/ problem.inflow[b] = {}
          BY <2>2, <3>1, <4>1 DEF Input
        <4>2. CASE ~(b \in problem.fixed \/ problem.inflow[b] = {})
          BY <2>2, <2>4, <2>5, <4>2 DEF Input
        <4> QED  BY <4>1, <4>2
      <3> QED  BY <2>2, <2>5, <3>1, <3>2 DEF Balanced, Transfer
    <2>6. CASE c # b
      <3>1. c \notin pending
        BY <1>2, <2>6 DEF Process
      <3>2. Balanced(c)
        BY <3>1 DEF WaitingOrBalanced
      <3>3. before'[c] = before[c] /\ after'[c] = after[c]
        BY <2>1, <2>2, <2>3, <2>6
      <3>4. {after'[a] : a \in problem.inflow[c]} = {after[a] : a \in problem.inflow[c]}
        BY <2>4
      <3>5. Input(c)' = Input(c)
        BY <2>2, <3>3, <3>4 DEF Input
      <3> QED  BY <2>2, <3>2, <3>3, <3>5 DEF Balanced, Transfer
    <2> QED  BY <2>5, <2>6
  <1>3. ASSUME NEW b \in pending, Process(b)
        PROVE  problem' = problem
    BY <1>3 DEF Process
  <1> QED  BY <1>1, <1>2, <1>3 DEF SolverNext, WaitingOrBalanced

(* When the worklist is empty, the states of the blocks the traversal visits
   are a solution of the equations: iterate() did not stop too early, whatever
   order the priorities gave. *)
THEOREM SolverIsSound ==
    ASSUME NEW CONSTANT problems, \A p \in problems : IsProblem(p)
    PROVE  SolverSpec(problems) => []SolvedIsBalanced
  <1>1. ASSUME pending = problem.start
        PROVE  WaitingOrBalanced
    BY <1>1 DEF WaitingOrBalanced
  <1>2. SolverTypeOK(problems) /\ WaitingOrBalanced /\ [SolverNext]_solverVars
            => WaitingOrBalanced'
    BY WaitingOrBalancedIsKept
  <1>3. WaitingOrBalanced => SolvedIsBalanced
    BY DEF WaitingOrBalanced, SolvedIsBalanced, IsSolved
  <1> QED  BY <1>1, <1>2, <1>3, SolverTypeCorrect, PTL DEF SolverSpec

-----------------------------------------------------------------------------
(* S satisfies the inequations at the blocks of D, and D is where the solver
   works: a block that waits is in D, and so are those it flows into. *)
IsSolutionOn(D, p, S) ==
    \A b \in D :
        LET input == IF b \in p.fixed \/ p.inflow[b] = {} THEN Base(p, b)
                     ELSE UNION {S[c] : c \in p.inflow[b]}
        IN  p.gen[b] \cup (input \ p.kill[b]) \subseteq S[b]

WorksIn(D) ==
    /\ D \subseteq problem.blocks /\ pending \subseteq D
    /\ \A b \in D : Affected(b) \subseteq D

(* A step keeps the states below every solution of the inequations. *)
LEMMA BelowIsKept ==
    ASSUME NEW problems, \A p \in problems : IsProblem(p), SolverTypeOK(problems),
           BoundaryKept, NEW D, NEW S, WorksIn(D), IsSolutionOn(D, problem, S), IsBelow(S),
           [SolverNext]_solverVars
    PROVE  BoundaryKept' /\ WorksIn(D)' /\ IsSolutionOn(D, problem, S)' /\ IsBelow(S)'
  <1>1. CASE UNCHANGED solverVars
    BY <1>1 DEF BoundaryKept, WorksIn, Affected, IsSolutionOn, IsBelow, Base, solverVars
  <1>2. ASSUME NEW b \in pending, Process(b)
        PROVE  BoundaryKept' /\ WorksIn(D)' /\ IsSolutionOn(D, problem, S)' /\ IsBelow(S)'
    <2>1. /\ b \in problem.blocks /\ b \in D
          /\ problem.inflow[b] \subseteq problem.blocks
      BY DEF SolverTypeOK, IsProblem, WorksIn
    <2>2. /\ problem' = problem
          /\ before' = [before EXCEPT ![b] = Input(b)]
          /\ after' = [after EXCEPT ![b] = Transfer(b, Input(b))]
      BY <1>2 DEF Process
    <2>3. DOMAIN before = problem.blocks /\ DOMAIN after = problem.blocks
      BY DEF SolverTypeOK
    <2>4. BoundaryKept'
      <3>1. b \in problem.fixed \/ problem.inflow[b] = {} => Input(b) = before[b]
        BY DEF Input
      <3> QED  BY <2>1, <2>2, <2>3, <3>1 DEF BoundaryKept, Base
    <2>5. Transfer(b, Input(b)) \subseteq S[b]
      <3>1. CASE b \in problem.fixed \/ problem.inflow[b] = {}
        <4>1. Input(b) = Base(problem, b)
          BY <2>1, <3>1 DEF Input, BoundaryKept
        <4> QED  BY <2>1, <3>1, <4>1 DEF Transfer, IsSolutionOn
      <3>2. CASE ~(b \in problem.fixed \/ problem.inflow[b] = {})
        <4>1. Input(b) = UNION {after[c] : c \in problem.inflow[b]}
          BY <3>2 DEF Input
        <4>2. \A c \in problem.inflow[b] : after[c] \subseteq S[c]
          BY <2>1 DEF IsBelow
        <4>3. Input(b) \subseteq UNION {S[c] : c \in problem.inflow[b]}
          BY <4>1, <4>2
        <4> DEFINE inputs == UNION {S[c] : c \in problem.inflow[b]}
        <4>4. problem.gen[b] \cup (inputs \ problem.kill[b]) \subseteq S[b]
          <5>1. (IF b \in problem.fixed \/ problem.inflow[b] = {} THEN Base(problem, b)
                 ELSE inputs) = inputs
            BY <3>2
          <5>2. LET input == IF b \in problem.fixed \/ problem.inflow[b] = {}
                             THEN Base(problem, b) ELSE inputs
                IN  problem.gen[b] \cup (input \ problem.kill[b]) \subseteq S[b]
            BY <2>1 DEF IsSolutionOn
          <5> HIDE DEF inputs
          <5> QED  BY <5>1, <5>2
        <4>5. Input(b) \subseteq inputs
          BY <4>3
        <4> HIDE DEF inputs
        <4> QED  BY <4>4, <4>5 DEF Transfer
      <3> QED  BY <3>1, <3>2
    <2>6. IsBelow(S)'
      BY <2>2, <2>3, <2>5 DEF IsBelow
    <2>7. IsSolutionOn(D, problem, S)'
      BY <2>2 DEF IsSolutionOn, Base
    <2>8. WorksIn(D)'
      <3>1. \A c : Affected(c)' = Affected(c)
        BY <2>2 DEF Affected
      <3>2. pending' \subseteq pending \cup Affected(b)
        BY <1>2 DEF Process
      <3> QED  BY <2>1, <2>2, <3>1, <3>2 DEF WorksIn
    <2> QED  BY <2>4, <2>6, <2>7, <2>8
  <1> QED  BY <1>1, <1>2 DEF SolverNext

(* The solver finds the least solution: at every moment its states lie within
   every assignment S that satisfies the inequations of the problem, so that an
   analysis never reports a fact no path brings. *)
THEOREM SolverIsLeast ==
    ASSUME NEW CONSTANT problems, \A p \in problems : IsProblem(p), NEW CONSTANT S,
           \A p \in problems : IsSolution(p, S)
    PROVE  SolverSpec(problems) => []IsBelow(S)
  <1> DEFINE Inv ==
          \E D : BoundaryKept /\ WorksIn(D) /\ IsSolutionOn(D, problem, S) /\ IsBelow(S)
  <1>1. ASSUME problem \in problems,
               before = [b \in problem.blocks |-> Base(problem, b)],
               after = [b \in problem.blocks |-> {}],
               pending = problem.start
        PROVE  Inv
    <2> DEFINE D == problem.blocks
    <2>1. BoundaryKept /\ IsBelow(S)
      BY <1>1 DEF BoundaryKept, IsBelow
    <2>2. WorksIn(D)
      BY <1>1 DEF WorksIn, IsProblem, Affected
    <2>3. IsSolutionOn(D, problem, S)
      BY <1>1 DEF IsSolution, IsSolutionOn
    <2> HIDE DEF D
    <2> QED  BY <2>1, <2>2, <2>3
  <1>2. ASSUME SolverTypeOK(problems), Inv, [SolverNext]_solverVars
        PROVE  Inv'
    <2>1. PICK D : BoundaryKept /\ WorksIn(D) /\ IsSolutionOn(D, problem, S) /\ IsBelow(S)
      BY <1>2
    <2>2. BoundaryKept' /\ WorksIn(D)' /\ IsSolutionOn(D, problem, S)' /\ IsBelow(S)'
      BY <1>2, <2>1, BelowIsKept
    <2> QED  BY <2>2
  <1>3. Inv => IsBelow(S)
    OBVIOUS
  <1> QED
    <2> HIDE DEF Inv
    <2> QED  BY <1>1, <1>2, <1>3, SolverTypeCorrect, PTL DEF SolverSpec

-----------------------------------------------------------------------------
(* Liveness: what is live after a block, one block at a time. *)

Rows(g, n) == g = [count |-> n, succ |-> g.succ] /\ IsGraph(g)

LEMMA LeavingFacts ==
  ASSUME NEW f, IsFunction(f), NEW g, Rows(g, f.count)
  PROVE  /\ IsGraph(Leaving(f, g)) /\ NodeIds(Leaving(f, g)) = NodeIds(f)
         /\ \A b \in NodeIds(f) :
                SuccessorSet(Leaving(f, g), b) =
                    IF b \in Exits(SsaCfg(f)) THEN {} ELSE SuccessorSet(g, b)
<1> DEFINE L == Leaving(f, g)
           out(b) == IF b \in Exits(SsaCfg(f)) THEN <<>> ELSE g.succ[b]
<1>1. g.count = f.count /\ f.count \in Nat /\ NodeIds(g) = NodeIds(f) /\ IsGraph(g)
  BY DEF Rows, NodeIds, IsFunction
<1>2. L.count = f.count /\ L.succ = [b \in NodeIds(f) |-> out(b)]
  <2> DEFINE rows == [b \in NodeIds(f) |-> out(b)]
  <2>1. L = [g EXCEPT !.succ = rows]
    BY DEF Leaving
  <2>2. DOMAIN g = {"count", "succ"}
    BY DEF Rows
  <2> HIDE DEF rows, L
  <2>3. L.count = g.count /\ L.succ = rows
    BY <2>1, <2>2
  <2> QED  BY <1>1, <2>3 DEF rows
<1> HIDE DEF L
<1>3. NodeIds(L) = NodeIds(f)
  BY <1>1, <1>2 DEF NodeIds
<1>4. \A b \in NodeIds(f) : out(b) \in Seq(NodeIds(f))
  BY <1>1 DEF IsGraph
<1>5. IsGraph(L)
  <2> HIDE DEF out
  <2> QED  BY <1>1, <1>2, <1>3, <1>4 DEF IsGraph
<1>6. ToSet(<<>>) = {}
  BY DEF ToSet
<1>7. \A b \in NodeIds(f) :
         SuccessorSet(L, b) = IF b \in Exits(SsaCfg(f)) THEN {} ELSE SuccessorSet(g, b)
  BY <1>2, <1>6 DEF SuccessorSet
<1> QED  BY <1>3, <1>5, <1>7 DEF L

(* The blocks control comes to from the end of b without passing a definition. *)
Through(f, g, v, b) ==
    ReachableAvoiding(Leaving(f, g), SuccessorSet(Leaving(f, g), b), Defining(f, v))

LEMMA ThroughFacts ==
  ASSUME NEW f, IsFunction(f), NEW g, Rows(g, f.count), NEW v, NEW b \in NodeIds(f)
  PROVE  LET X == Through(f, g, v, b)
             Onward(c) == SuccessorSet(Leaving(f, g), c)
         IN  /\ X \subseteq NodeIds(f) \ Defining(f, v)
             /\ Onward(b) \subseteq NodeIds(f)
             /\ \A p \in X \cup {b} : Onward(p) \ Defining(f, v) \subseteq X
             /\ \A Y : (\A p \in (X \cap Y) \cup {b} : Onward(p) \ Defining(f, v) \subseteq Y)
                         => X \subseteq Y
<1> DEFINE L == Leaving(f, g)
           starts == SuccessorSet(L, b)
           closed == Defining(f, v)
           X == Through(f, g, v, b)
<1>1. IsGraph(L) /\ NodeIds(L) = NodeIds(f)
  BY LeavingFacts
<1>2. starts \in SUBSET NodeIds(L)
  BY <1>1, SuccessorsAreNodes
<1>3. X = ReachableAvoiding(L, starts, closed)
  BY DEF Through
<1> HIDE DEF L, starts, closed, X
<1>4. /\ X \subseteq NodeIds(L) \ closed
      /\ starts \ closed \subseteq X
      /\ IsClosed(L, closed, X)
      /\ \A Y : starts \ closed \subseteq Y
                 /\ (\A w \in X \cap Y : SuccessorSet(L, w) \ closed \subseteq Y)
              => X \subseteq Y
  BY <1>1, <1>2, <1>3, ReachableFacts
<1>5. starts = SuccessorSet(L, b)
  BY DEF starts
<1> QED  BY <1>1, <1>2, <1>4, <1>5 DEF IsClosed, L, closed, X

(* A variable is live after b when a successor of b, or of a block control comes
   to from b, reads it, or the edge out of such a block does. *)
ReadLater(f, g, v, b) ==
    \/ v \in PhiOut(f)[b]
    \/ \E c \in Through(f, g, v, b) : v \in PhiOut(f)[c]
    \/ \E p \in Through(f, g, v, b) \cup {b} :
          \E c \in SuccessorSet(Leaving(f, g), p) : v \in Reads(f, c)

LEMMA LiveAfterFacts ==
  ASSUME NEW f, IsFunction(f), NEW g, Rows(g, f.count), NEW v, NEW b \in NodeIds(f)
  PROVE  IsLiveAfter(f, g, v, b) <=> ReadLater(f, g, v, b)
<1> DEFINE L == Leaving(f, g)
           starts == SuccessorSet(L, b)
           closed == {}
           X == Through(f, g, v, b)
           all == ReachableAvoiding(L, starts, closed)
           stops == all \cap Defining(f, v)
           ends == {c \in stops : PredecessorSet(L, c) \cap (X \cup {b}) # {}}
<1>1. IsGraph(L) /\ NodeIds(L) = NodeIds(f) /\ starts \in SUBSET NodeIds(L)
  <2>1. IsGraph(L) /\ NodeIds(L) = NodeIds(f)
    BY LeavingFacts
  <2> QED  BY <2>1, SuccessorsAreNodes
<1>2. IsLiveAfter(f, g, v, b) <=>
         \/ v \in PhiOut(f)[b]
         \/ \E c \in X : v \in Reads(f, c) \/ v \in PhiOut(f)[c]
         \/ \E c \in ends : v \in Reads(f, c)
  BY DEF IsLiveAfter, Through
<1>3. /\ X \subseteq NodeIds(f) \ Defining(f, v)
      /\ \A p \in X \cup {b} : SuccessorSet(L, p) \ Defining(f, v) \subseteq X
      /\ \A Y : (\A p \in (X \cap Y) \cup {b} : SuccessorSet(L, p) \ Defining(f, v) \subseteq Y)
                  => X \subseteq Y
  BY ThroughFacts
<1>4. all \subseteq NodeIds(f) /\ starts \subseteq all
      /\ \A w \in all : SuccessorSet(L, w) \subseteq all
  <2>1. all = ReachableAvoiding(L, starts, closed)
    OBVIOUS
  <2> HIDE DEF L, starts, closed, all
  <2>2. all \subseteq NodeIds(L) \ closed /\ starts \ closed \subseteq all /\ IsClosed(L, closed, all)
    BY <1>1, <2>1, ReachableFacts
  <2> QED  BY <1>1, <2>2 DEF IsClosed, closed
<1> HIDE DEF X, all
<1>5. X \subseteq all
  <2>1. \A p \in (X \cap all) \cup {b} : SuccessorSet(L, p) \ Defining(f, v) \subseteq all
    BY <1>4
  <2> QED  BY <1>3, <2>1
<1>6. ASSUME NEW c
      PROVE  c \in ends <=> c \in Defining(f, v) /\ \E p \in X \cup {b} : c \in SuccessorSet(L, p)
  <2>1. ASSUME NEW p \in X \cup {b}, c \in SuccessorSet(L, p)
        PROVE  c \in all /\ p \in PredecessorSet(L, c)
    <3>1. p \in NodeIds(L)
      BY <1>1, <1>3
    <3> QED  BY <1>4, <1>5, <2>1, <3>1 DEF PredecessorSet
  <2>2. ASSUME NEW p \in PredecessorSet(L, c) PROVE c \in SuccessorSet(L, p)
    BY DEF PredecessorSet
  <2> QED  BY <2>1, <2>2
<1> HIDE DEF ends
<1>7. (\E c \in X : v \in Reads(f, c)) =>
         \E p \in X \cup {b} : \E c \in SuccessorSet(L, p) : v \in Reads(f, c)
  <2> DEFINE Y == {c \in X : \E p \in X \cup {b} : c \in SuccessorSet(L, p)}
  <2>1. \A p \in (X \cap Y) \cup {b} : SuccessorSet(L, p) \ Defining(f, v) \subseteq Y
    BY <1>3
  <2>2. X \subseteq Y
    <3> HIDE DEF Y
    <3> QED  BY <1>3, <2>1
  <2> QED  BY <2>2
<1>8. ASSUME NEW p \in X \cup {b}, NEW c \in SuccessorSet(L, p)
      PROVE  c \in X \/ c \in ends
  BY <1>3, <1>6
<1>9. (\E c \in X : v \in Reads(f, c)) \/ (\E c \in ends : v \in Reads(f, c)) <=>
         \E p \in X \cup {b} : \E c \in SuccessorSet(L, p) : v \in Reads(f, c)
  BY <1>6, <1>7, <1>8
<1> QED  BY <1>2, <1>9 DEF ReadLater, X, L

(* What is live before a block control goes on to is live after this one. *)
LEMMA LiveAcross ==
  ASSUME NEW f, IsFunction(f), NEW g, Rows(g, f.count), NEW v, NEW b \in NodeIds(f),
         NEW c \in SuccessorSet(Leaving(f, g), b), IsLiveBefore(f, g, v, c)
  PROVE  IsLiveAfter(f, g, v, b)
<1> DEFINE Onward(p) == SuccessorSet(Leaving(f, g), p)
           X == Through(f, g, v, b)
<1>1. /\ X \subseteq NodeIds(f) \ Defining(f, v) /\ c \in NodeIds(f)
      /\ \A p \in X \cup {b} : Onward(p) \ Defining(f, v) \subseteq X
  BY ThroughFacts
<1>2. CASE v \in Reads(f, c)
  <2>1. ReadLater(f, g, v, b)
    BY <1>2 DEF ReadLater
  <2> QED  BY <2>1, LiveAfterFacts
<1>3. CASE v \notin DefinedIn(f, c) /\ IsLiveAfter(f, g, v, c)
  <2> DEFINE Z == Through(f, g, v, c)
  <2>1. c \in X
    BY <1>1, <1>3 DEF Defining
  <2>2. \A Y : (\A p \in (Z \cap Y) \cup {c} : Onward(p) \ Defining(f, v) \subseteq Y) => Z \subseteq Y
    BY <1>1, ThroughFacts
  <2>3. ReadLater(f, g, v, c)
    BY <1>1, <1>3, LiveAfterFacts
  <2> HIDE DEF X, Z
  <2>4. Z \subseteq X
    BY <1>1, <2>1, <2>2
  <2>5. ReadLater(f, g, v, b)
    BY <2>1, <2>3, <2>4 DEF ReadLater, X, Z
  <2> QED  BY <2>5, LiveAfterFacts
<1> QED  BY <1>2, <1>3 DEF IsLiveBefore

LivenessBound(f, g) ==
    [b \in NodeIds(f) |-> {v \in Variables(f) : IsLiveBefore(f, g, v, b)}]

LEMMA LivenessIsBounded ==
  ASSUME NEW f, IsSsaFunction(f), NEW g, Rows(g, f.count), NEW p, p = LivenessProblem(f, g)
  PROVE  IsSolutionOn(NodeIds(f), p, LivenessBound(f, g))
<1> DEFINE S == LivenessBound(f, g)
<1> SUFFICES ASSUME NEW b \in NodeIds(f)
             PROVE  LET input == IF b \in p.fixed \/ p.inflow[b] = {} THEN Base(p, b)
                                 ELSE UNION {S[c] : c \in p.inflow[b]}
                    IN  p.gen[b] \cup (input \ p.kill[b]) \subseteq S[b]
  BY DEF IsSolutionOn
<1>1. /\ p.fixed = Exits(SsaCfg(f)) /\ p.boundary = {} /\ p.inflow[b] = SuccessorSet(g, b)
      /\ p.gen[b] = Reads(f, b) \cup (PhiOut(f)[b] \ DefinedIn(f, b)) /\ p.kill[b] = DefinedIn(f, b)
  BY DEF LivenessProblem
<1>2. IsFunction(f) /\ Reads(f, b) \cup PhiOut(f)[b] \subseteq Variables(f)
  BY DEF IsSsaFunction
<1>3. \A c \in NodeIds(f) : \A v : v \in S[c] <=> v \in Variables(f) /\ IsLiveBefore(f, g, v, c)
  BY DEF LivenessBound
<1>4. SuccessorSet(g, b) \subseteq NodeIds(f)
  <2>1. IsGraph(g) /\ NodeIds(g) = NodeIds(f)
    BY DEF Rows, NodeIds
  <2> QED  BY <2>1, SuccessorsAreNodes
<1> HIDE DEF S
<1>5. Base(p, b) = {}
  BY <1>1 DEF Base
<1>6. ASSUME NEW c \in p.inflow[b], b \notin p.fixed, NEW v \in S[c]
      PROVE  v \in Variables(f) /\ IsLiveAfter(f, g, v, b)
  <2>1. c \in SuccessorSet(Leaving(f, g), b)
    BY <1>1, <1>2, <1>6, LeavingFacts
  <2>2. v \in Variables(f) /\ IsLiveBefore(f, g, v, c)
    BY <1>1, <1>3, <1>4
  <2> QED  BY <1>2, <2>1, <2>2, LiveAcross
<1>7. ASSUME NEW v \in PhiOut(f)[b]
      PROVE  IsLiveAfter(f, g, v, b)
  <2>1. ReadLater(f, g, v, b)
    BY DEF ReadLater
  <2> QED  BY <1>2, <2>1, LiveAfterFacts
<1> DEFINE input == IF b \in p.fixed \/ p.inflow[b] = {} THEN Base(p, b)
                    ELSE UNION {S[c] : c \in p.inflow[b]}
<1>8. \A v \in input : v \in Variables(f) /\ IsLiveAfter(f, g, v, b)
  BY <1>5, <1>6
<1> HIDE DEF input
<1>9. p.gen[b] \cup (input \ p.kill[b]) \subseteq S[b]
  BY <1>1, <1>2, <1>3, <1>7, <1>8 DEF IsLiveBefore
<1> QED  BY <1>9 DEF input

(* The solver's invariants, for one problem. *)
SolverInv(D, p, S) ==
    /\ problem = p /\ SolverTypeOK({p})
    /\ WaitingOrBalanced /\ BoundaryKept
    /\ WorksIn(D) /\ IsSolutionOn(D, p, S) /\ IsBelow(S)

LEMMA LivenessIsExact ==
  ASSUME NEW f, IsSsaFunction(f), NEW g, Rows(g, f.count),
         NEW p, p = LivenessProblem(f, g), SolverInv(NodeIds(f), p, LivenessBound(f, g)), IsSolved,
         NEW b \in ReachableFrom(g, 0), NEW v \in Variables(f)
  PROVE  /\ v \in before[b] \cup PhiOut(f)[b] <=> IsLiveAfter(f, g, v, b)
         /\ v \in after[b] <=> IsLiveBefore(f, g, v, b)
<1> DEFINE N == NodeIds(f)
           R == ReachableFrom(g, 0)
           X == Through(f, g, v, b)
           L == Leaving(f, g)
<1>1. IsFunction(f) /\ IsGraph(g) /\ NodeIds(g) = N /\ 0 \in NodeIds(g)
  BY FunctionHasEntry DEF Rows, NodeIds, IsSsaFunction
<1>2. R \subseteq N /\ \A c \in R : SuccessorSet(g, c) \subseteq R
  BY <1>1, ReachFacts
<1>3. \A c \in N : SuccessorSet(L, c) = IF c \in p.fixed THEN {} ELSE p.inflow[c]
  BY <1>1, LeavingFacts DEF LivenessProblem
<1>4. \A c \in N : /\ p.gen[c] = Reads(f, c) \cup (PhiOut(f)[c] \ DefinedIn(f, c))
                   /\ p.kill[c] = DefinedIn(f, c) /\ p.inflow[c] = SuccessorSet(g, c)
  BY DEF LivenessProblem
<1>5. \A c \in R : after[c] = p.gen[c] \cup (before[c] \ p.kill[c])
  BY DEF SolverInv, WaitingOrBalanced, IsSolved, Balanced, Transfer, LivenessProblem
<1>6. \A c \in R : before[c] = IF SuccessorSet(L, c) = {} THEN {}
                               ELSE UNION {after[d] : d \in SuccessorSet(L, c)}
  <2> SUFFICES ASSUME NEW c \in R
               PROVE  before[c] = IF SuccessorSet(L, c) = {} THEN {}
                                  ELSE UNION {after[d] : d \in SuccessorSet(L, c)}
    OBVIOUS
  <2>1. c \in N /\ problem = p /\ p.blocks = N /\ p.boundary = {}
    BY <1>2 DEF SolverInv, LivenessProblem
  <2>2. before[c] = Input(c)
    BY DEF SolverInv, WaitingOrBalanced, IsSolved, Balanced, LivenessProblem
  <2>3. c \in p.fixed \/ p.inflow[c] = {} => before[c] = {}
    BY <2>1 DEF SolverInv, BoundaryKept, Base
  <2>4. ~(c \in p.fixed \/ p.inflow[c] = {}) => before[c] = UNION {after[d] : d \in p.inflow[c]}
    BY <2>1, <2>2 DEF Input
  <2> HIDE DEF L
  <2> QED  BY <1>3, <2>1, <2>3, <2>4
<1>7. \A c \in N : \A w \in after[c] : IsLiveBefore(f, g, w, c)
  BY DEF SolverInv, IsBelow, LivenessBound, LivenessProblem
<1>8. /\ X \subseteq N \ Defining(f, v)
      /\ \A q \in X \cup {b} : SuccessorSet(L, q) \ Defining(f, v) \subseteq X
      /\ \A Y : (\A q \in (X \cap Y) \cup {b} : SuccessorSet(L, q) \ Defining(f, v) \subseteq Y)
                  => X \subseteq Y
  BY <1>1, <1>2, ThroughFacts
<1>9. \A c \in N : c \in Defining(f, v) <=> v \in DefinedIn(f, c)
  BY DEF Defining
<1>10. \A c \in R : SuccessorSet(L, c) \subseteq R
  BY <1>2, <1>3, <1>4
<1>11. v \in before[b] => IsLiveAfter(f, g, v, b)
  <2> SUFFICES ASSUME v \in before[b] PROVE IsLiveAfter(f, g, v, b)
    OBVIOUS
  <2>1. PICK c \in SuccessorSet(L, b) : v \in after[c]
    <3>1. b \in R
      OBVIOUS
    <3> DEFINE next == SuccessorSet(L, b)
    <3>2. before[b] = IF next = {} THEN {} ELSE UNION {after[d] : d \in next}
      BY <1>6, <3>1
    <3> HIDE DEF next, R, L
    <3>3. \E d \in next : v \in after[d]
      BY <3>2
    <3> QED  BY <3>3 DEF next
  <2>2. c \in N /\ b \in N
    BY <1>2, <1>10
  <2> QED  BY <1>1, <1>7, <2>1, <2>2, LiveAcross
<1>12. v \in PhiOut(f)[b] => IsLiveAfter(f, g, v, b)
  BY <1>1, <1>2, LiveAfterFacts DEF ReadLater
<1> HIDE DEF L, X, R
<1>13. ASSUME NEW c \in R, NEW q \in R, c \in SuccessorSet(L, q), v \in after[c]
       PROVE  v \in before[q]
  BY <1>6, <1>13
<1>14. ASSUME NEW q \in R \ Defining(f, v), v \in before[q] \/ v \in PhiOut(f)[q]
       PROVE  v \in after[q]
  BY <1>2, <1>4, <1>5, <1>9, <1>14
<1>15. \A c \in X : c \in R /\ (v \in after[c] => v \in before[b])
  <2> DEFINE Y == {c \in R : v \in after[c] => v \in before[b]}
  <2>1. ASSUME NEW q \in (X \cap Y) \cup {b}, NEW c \in SuccessorSet(L, q)
        PROVE  c \in Y
    <3>1. q \in R /\ c \in R
      BY <1>10, <2>1 DEF R
    <3>2. CASE q = b
      BY <1>13, <3>1, <3>2
    <3>3. CASE q \in X \cap Y
      BY <1>8, <1>13, <1>14, <3>1, <3>3
    <3> QED  BY <2>1, <3>2, <3>3
  <2>2. X \subseteq Y
    <3> HIDE DEF Y
    <3> QED  BY <1>8, <2>1
  <2> QED  BY <2>2
<1>16. IsLiveAfter(f, g, v, b) => v \in before[b] \/ v \in PhiOut(f)[b]
  <2> SUFFICES ASSUME ReadLater(f, g, v, b) PROVE v \in before[b] \/ v \in PhiOut(f)[b]
    BY <1>1, <1>2, LiveAfterFacts DEF R
  <2>1. CASE \E c \in X : v \in PhiOut(f)[c]
    BY <1>8, <1>14, <1>15, <2>1
  <2>2. ASSUME NEW q \in X \cup {b}, NEW c \in SuccessorSet(L, q), v \in Reads(f, c)
        PROVE  v \in before[b]
    <3>1. q \in R /\ c \in R
      BY <1>10, <1>15, <2>2 DEF R
    <3>2. v \in after[c]
      BY <1>2, <1>4, <1>5, <2>2, <3>1
    <3>3. v \in before[q]
      BY <1>13, <2>2, <3>1, <3>2
    <3>4. CASE q \in X
      BY <1>8, <1>14, <1>15, <3>1, <3>3, <3>4
    <3> QED  BY <2>2, <3>3, <3>4
  <2> QED  BY <2>1, <2>2 DEF ReadLater, X, L
<1>17. v \in before[b] \cup PhiOut(f)[b] <=> IsLiveAfter(f, g, v, b)
  BY <1>11, <1>12, <1>16
<1>18. v \in after[b] <=> IsLiveBefore(f, g, v, b)
  <2>1. b \in R /\ b \in N
    BY <1>2 DEF R
  <2> QED  BY <1>4, <1>5, <1>17, <2>1 DEF IsLiveBefore
<1> QED  BY <1>17, <1>18

-----------------------------------------------------------------------------
(* Reaching definitions *)

ReachingBound(f, g) ==
    [b \in NodeIds(f) |->
        {v \in Variables(f) : /\ b \in ReachableFrom(g, 0)
                              /\ v \in DefinedIn(f, b) \/ HasReached(f, g, v, b)}]

(* What a block defines, and what reaches it, reaches those after it. *)
LEMMA ReachesNext ==
  ASSUME NEW f, IsFunction(f), NEW g, Rows(g, f.count), NEW v,
         NEW b \in ReachableFrom(g, 0), NEW c \in SuccessorSet(g, b),
         v \in DefinedIn(f, b) \/ HasReached(f, g, v, b)
  PROVE  HasReached(f, g, v, c)
<1>1. IsGraph(g) /\ NodeIds(g) = NodeIds(f) /\ 0 \in NodeIds(g)
  BY FunctionHasEntry DEF Rows, NodeIds
<1>2. b \in NodeIds(f) /\ c \in NodeIds(g)
  BY <1>1, ReachFacts
<1>3. CASE v \in InitialDefinitions(f)
  BY <1>3 DEF HasReached
<1>4. CASE v \in DefinedIn(f, b)
  <2>1. b \in Defining(f, v) \cap ReachableFrom(g, 0)
    BY <1>2, <1>4 DEF Defining
  <2>2. c \in ReachableFrom(g, c)
    BY <1>1, <1>2, ReachFacts
  <2> QED  BY <2>1, <2>2 DEF HasReached
<1>5. CASE HasReached(f, g, v, b) /\ v \notin InitialDefinitions(f)
  <2>1. PICK d \in Defining(f, v) \cap ReachableFrom(g, 0) :
           \E e \in SuccessorSet(g, d) : b \in ReachableFrom(g, e)
    BY <1>5 DEF HasReached
  <2>2. PICK e \in SuccessorSet(g, d) : b \in ReachableFrom(g, e)
    BY <2>1
  <2>3. e \in NodeIds(g)
    BY <1>1, SuccessorsAreNodes, ReachFacts
  <2>4. c \in ReachableFrom(g, e)
    BY <1>1, <2>2, <2>3, ReachFacts
  <2> QED  BY <2>1, <2>4 DEF HasReached
<1> QED  BY <1>3, <1>4, <1>5

LEMMA ReachingIsBounded ==
  ASSUME NEW f, IsSsaFunction(f), NEW g, Rows(g, f.count), NEW p, p = ReachingProblem(f, g)
  PROVE  IsSolutionOn(ReachableFrom(g, 0), p, ReachingBound(f, g))
<1> DEFINE S == ReachingBound(f, g)
           R == ReachableFrom(g, 0)
<1> SUFFICES ASSUME NEW b \in R
             PROVE  LET input == IF b \in p.fixed \/ p.inflow[b] = {} THEN Base(p, b)
                                 ELSE UNION {S[c] : c \in p.inflow[b]}
                    IN  p.gen[b] \cup (input \ p.kill[b]) \subseteq S[b]
  BY DEF IsSolutionOn
<1>1. IsGraph(g) /\ NodeIds(g) = NodeIds(f) /\ 0 \in NodeIds(g) /\ IsFunction(f)
  BY FunctionHasEntry DEF Rows, NodeIds, IsSsaFunction
<1>2. R \subseteq NodeIds(f)
  BY <1>1, ReachFacts
<1>3. b \in R /\ b \in NodeIds(f)
  BY <1>2
<1>4. /\ p.fixed = {0} /\ p.boundary = InitialDefinitions(f) /\ p.inflow[b] = PredecessorSet(g, b)
      /\ p.gen[b] = DefinedIn(f, b) /\ p.kill[b] = {}
  BY <1>3 DEF ReachingProblem
<1>5. DefinedIn(f, b) \subseteq Variables(f) /\ InitialDefinitions(f) \subseteq Variables(f)
  BY <1>3 DEF Variables, InitialDefinitions
<1>6. \A c \in NodeIds(f) : \A v :
         v \in S[c] <=> v \in Variables(f) /\ c \in R /\ (v \in DefinedIn(f, c) \/ HasReached(f, g, v, c))
  BY DEF ReachingBound
<1> HIDE DEF S, R
<1>7. Base(p, b) \subseteq InitialDefinitions(f)
  BY <1>4 DEF Base
<1>8. \A v \in InitialDefinitions(f) : HasReached(f, g, v, b)
  BY DEF HasReached
<1>9. ASSUME NEW c \in PredecessorSet(g, b), NEW v \in S[c]
      PROVE  v \in Variables(f) /\ HasReached(f, g, v, b)
  <2>1. c \in NodeIds(f) /\ b \in SuccessorSet(g, c)
    BY <1>1 DEF PredecessorSet
  <2>2. v \in Variables(f) /\ c \in R /\ (v \in DefinedIn(f, c) \/ HasReached(f, g, v, c))
    BY <1>6, <2>1
  <2> QED  BY <1>1, <2>1, <2>2, ReachesNext DEF R
<1> DEFINE input == IF b \in p.fixed \/ p.inflow[b] = {} THEN Base(p, b)
                    ELSE UNION {S[c] : c \in p.inflow[b]}
<1>10. \A v \in input : v \in Variables(f) /\ HasReached(f, g, v, b)
  BY <1>4, <1>5, <1>7, <1>8, <1>9
<1> HIDE DEF input
<1>11. p.gen[b] \cup (input \ p.kill[b]) \subseteq S[b]
  BY <1>3, <1>4, <1>5, <1>6, <1>10
<1> QED  BY <1>11 DEF input

LEMMA ReachingIsExact ==
  ASSUME NEW f, IsSsaFunction(f), NEW g, Rows(g, f.count), PredecessorSet(g, 0) = {},
         NEW p, p = ReachingProblem(f, g),
         SolverInv(ReachableFrom(g, 0), p, ReachingBound(f, g)), IsSolved,
         NEW b \in ReachableFrom(g, 0), NEW v \in Variables(f)
  PROVE  v \in before[b] <=> HasReached(f, g, v, b)
<1> DEFINE R == ReachableFrom(g, 0)
<1>1. IsGraph(g) /\ NodeIds(g) = NodeIds(f) /\ 0 \in NodeIds(g) /\ IsFunction(f)
  BY FunctionHasEntry DEF Rows, NodeIds, IsSsaFunction
<1>2. /\ R \subseteq NodeIds(f) /\ 0 \in R /\ \A c \in R : SuccessorSet(g, c) \subseteq R
      /\ \A Y : 0 \in Y /\ (\A c \in R \cap Y : SuccessorSet(g, c) \subseteq Y) => R \subseteq Y
  BY <1>1, ReachFacts
<1>3. /\ p.blocks = NodeIds(f) /\ p.start = R /\ p.fixed = {0} /\ p.boundary = InitialDefinitions(f)
      /\ \A c \in NodeIds(f) : p.inflow[c] = PredecessorSet(g, c)
      /\ \A c \in NodeIds(f) : p.gen[c] = DefinedIn(f, c) /\ p.kill[c] = {}
  BY DEF ReachingProblem
<1>4. problem = p /\ \A c \in R : before[c] = Input(c) /\ after[c] = Transfer(c, before[c])
  BY <1>3 DEF SolverInv, WaitingOrBalanced, IsSolved, Balanced
<1>5. \A c \in R : after[c] = DefinedIn(f, c) \cup before[c]
  BY <1>2, <1>3, <1>4 DEF Transfer
<1>6. before[0] = InitialDefinitions(f)
  BY <1>2, <1>3, <1>4 DEF SolverInv, BoundaryKept, Base
<1>7. ASSUME NEW c \in R, c # 0, PredecessorSet(g, c) # {}
      PROVE  before[c] = UNION {after[d] : d \in PredecessorSet(g, c)}
  <2>1. c \in NodeIds(f) /\ c \notin problem.fixed /\ problem.inflow[c] = PredecessorSet(g, c)
    BY <1>2, <1>3, <1>4, <1>7
  <2>2. before[c] = Input(c)
    BY <1>4
  <2> QED  BY <1>7, <2>1, <2>2 DEF Input
<1>8. \A c \in NodeIds(f) : \A w \in after[c] : c \in R /\ (w \in DefinedIn(f, c) \/ HasReached(f, g, w, c))
  BY <1>3, <1>4 DEF SolverInv, IsBelow, ReachingBound
<1> HIDE DEF R
<1>9. ASSUME NEW c \in R, NEW d, c \in SuccessorSet(g, d), d \in NodeIds(f)
      PROVE  c # 0 /\ d \in PredecessorSet(g, c)
  BY <1>1, <1>9 DEF PredecessorSet
<1>10. ASSUME NEW c \in R, c # 0
       PROVE  PredecessorSet(g, c) # {}
  <2> DEFINE Y == {a \in NodeIds(f) : a = 0 \/ PredecessorSet(g, a) # {}}
  <2>1. \A a \in R \cap Y : SuccessorSet(g, a) \subseteq Y
    BY <1>2, <1>9
  <2>2. 0 \in Y
    BY <1>1
  <2>3. R \subseteq Y
    <3> HIDE DEF Y
    <3> QED  BY <1>2, <2>1, <2>2
  <2> QED  BY <1>10, <2>3
<1>11. ASSUME v \in before[b]
       PROVE  HasReached(f, g, v, b)
  <2>1. CASE b = 0
    BY <1>6, <1>11, <2>1 DEF HasReached
  <2>2. CASE b # 0
    <3>1. b \in R
      BY DEF R
    <3>2. PICK d \in PredecessorSet(g, b) : v \in after[d]
      BY <1>7, <1>10, <1>11, <2>2, <3>1
    <3>3. d \in NodeIds(f) /\ b \in SuccessorSet(g, d)
      BY <1>1 DEF PredecessorSet
    <3>4. d \in R /\ (v \in DefinedIn(f, d) \/ HasReached(f, g, v, d))
      BY <1>8, <3>2, <3>3
    <3> QED  BY <1>1, <3>3, <3>4, ReachesNext DEF R
  <2> QED  BY <2>1, <2>2
<1>12. ASSUME NEW d \in R, NEW c \in SuccessorSet(g, d), v \in after[d]
       PROVE  c \in R /\ v \in before[c]
  <2>1. c \in R /\ d \in NodeIds(f)
    BY <1>2
  <2>2. c # 0 /\ d \in PredecessorSet(g, c)
    BY <1>9, <2>1
  <2> QED  BY <1>7, <1>12, <2>1, <2>2
<1> DEFINE Y == {c \in R : v \in before[c]}
<1>13. \A d \in Y : SuccessorSet(g, d) \subseteq Y
  BY <1>5, <1>12
<1>14. ASSUME HasReached(f, g, v, b)
       PROVE  b \in Y
  <2>1. CASE v \in InitialDefinitions(f)
    <3>1. 0 \in Y
      BY <1>2, <1>6, <2>1
    <3>2. R \subseteq Y
      <4> HIDE DEF Y
      <4> QED  BY <1>2, <1>13, <3>1
    <3> QED  BY <3>2 DEF R
  <2>2. CASE v \notin InitialDefinitions(f)
    <3>1. PICK d \in Defining(f, v) \cap ReachableFrom(g, 0) :
             \E c \in SuccessorSet(g, d) : b \in ReachableFrom(g, c)
      BY <1>14, <2>2 DEF HasReached
    <3>2. PICK c \in SuccessorSet(g, d) : b \in ReachableFrom(g, c)
      BY <3>1
    <3>3. d \in R /\ v \in DefinedIn(f, d)
      BY <3>1 DEF R, Defining
    <3>4. c \in Y /\ c \in NodeIds(g)
      BY <1>1, <1>2, <1>5, <1>12, <3>3
    <3>5. ReachableFrom(g, c) \subseteq Y
      <4> HIDE DEF Y
      <4> QED  BY <1>1, <1>13, <3>4, ReachFacts
    <3> QED  BY <3>2, <3>5
  <2> QED  BY <2>1, <2>2
<1> QED  BY <1>11, <1>14

-----------------------------------------------------------------------------
(* The two analyses, called on the exception-aware graph. *)

Asked ==
    IF analysis = "liveness" THEN LivenessProblem(function, EhCfg)
    ELSE ReachingProblem(function, EhCfg)
AskedBlocks == IF analysis = "liveness" THEN NodeIds(function) ELSE ReachableFrom(EhCfg, 0)
AskedBound ==
    IF analysis = "liveness" THEN LivenessBound(function, EhCfg)
    ELSE ReachingBound(function, EhCfg)

DataflowInv ==
    /\ EhInv /\ IsSsaFunction(function)
    /\ step = "solve" => SolverInv(AskedBlocks, Asked, AskedBound)

(* The blocks that can be affected: those a block flows into. *)
IsClosedIn(D, p) == \A b \in D : {c \in p.blocks : b \in p.inflow[c]} \subseteq D

LEMMA AskedFacts ==
  ASSUME EhInv, IsSsaFunction(function)
  PROVE  /\ IsProblem(Asked) /\ Rows(EhCfg, function.count)
         /\ AskedBlocks \subseteq Asked.blocks /\ Asked.start \subseteq AskedBlocks
         /\ IsClosedIn(AskedBlocks, Asked)
         /\ IsSolutionOn(AskedBlocks, Asked, AskedBound)
<1> DEFINE f == function
           g == EhCfg
           p == Asked
<1>1. IsGraph(g) /\ NodeIds(g) = NodeIds(f) /\ IsFunction(f) /\ 0 \in NodeIds(g)
  BY EhCfgIsGraph, FunctionHasEntry DEF EhInv
<1>2. Rows(g, f.count)
  BY <1>1 DEF Rows, EhCfg
<1>3. /\ ReachableFrom(g, 0) \subseteq NodeIds(f)
      /\ \A b \in ReachableFrom(g, 0) : SuccessorSet(g, b) \subseteq ReachableFrom(g, 0)
      /\ \A b \in NodeIds(f) : SuccessorSet(g, b) \subseteq NodeIds(f)
      /\ \A b \in NodeIds(f) : PredecessorSet(g, b) \subseteq NodeIds(f)
  BY <1>1, ReachFacts, SuccessorsAreNodes DEF PredecessorSet
<1>4. \A b \in NodeIds(f) : DefinedIn(f, b) \cup Reads(f, b) \cup PhiOut(f)[b] \subseteq Variables(f)
  BY DEF IsSsaFunction, Variables
<1>5. InitialDefinitions(f) \subseteq Variables(f)
  BY DEF InitialDefinitions
<1> HIDE DEF g
<1>6. CASE analysis = "liveness"
  <2>1. p = LivenessProblem(f, g)
    BY <1>6 DEF Asked, g
  <2>2. AskedBlocks = NodeIds(f) /\ AskedBound = LivenessBound(f, g)
    BY <1>6 DEF AskedBlocks, AskedBound, g
  <2> HIDE DEF p
  <2>3. IsProblem(p)
    <3>1. Exits(SsaCfg(f)) \subseteq NodeIds(f)
      BY <1>1, SsaCfgIsGraph DEF Exits
    <3> QED  BY <1>3, <1>4, <2>1, <3>1 DEF IsProblem, LivenessProblem
  <2>4. p.blocks = NodeIds(f) /\ p.start = ReachableFrom(g, 0)
    BY <2>1 DEF LivenessProblem
  <2>5. IsSolutionOn(NodeIds(f), p, LivenessBound(f, g))
    BY <1>2, <2>1, LivenessIsBounded DEF g
  <2> QED  BY <1>2, <1>3, <2>2, <2>3, <2>4, <2>5 DEF IsClosedIn, p, g
<1>7. CASE analysis # "liveness"
  <2>1. p = ReachingProblem(f, g)
    BY <1>7 DEF Asked, g
  <2>2. AskedBlocks = ReachableFrom(g, 0) /\ AskedBound = ReachingBound(f, g)
    BY <1>7 DEF AskedBlocks, AskedBound, g
  <2> HIDE DEF p
  <2>3. IsProblem(p)
    BY <1>1, <1>3, <1>4, <1>5, <2>1 DEF IsProblem, ReachingProblem
  <2>4. /\ p.blocks = NodeIds(f) /\ p.start = ReachableFrom(g, 0)
        /\ p.inflow = [b \in NodeIds(f) |-> PredecessorSet(g, b)]
    BY <2>1 DEF ReachingProblem
  <2>5. IsClosedIn(ReachableFrom(g, 0), p)
    BY <1>3, <2>4 DEF IsClosedIn, PredecessorSet
  <2>6. IsSolutionOn(ReachableFrom(g, 0), p, ReachingBound(f, g))
    BY <1>2, <2>1, ReachingIsBounded DEF g
  <2> QED  BY <1>2, <1>3, <2>2, <2>3, <2>4, <2>5, <2>6 DEF p, g
<1> QED  BY <1>6, <1>7

LEMMA SolverInvStarts ==
  ASSUME NEW D, NEW p, NEW S, IsProblem(p), D \subseteq p.blocks, p.start \subseteq D,
         IsClosedIn(D, p), IsSolutionOn(D, p, S), StartSolver(p)
  PROVE  SolverInv(D, p, S)'
<1>1. /\ problem' = p /\ before' = [b \in p.blocks |-> Base(p, b)]
      /\ after' = [b \in p.blocks |-> {}] /\ pending' = p.start
  BY DEF StartSolver
<1>2. SolverTypeOK({p})' /\ BoundaryKept' /\ WaitingOrBalanced' /\ IsBelow(S)'
  BY <1>1 DEF SolverTypeOK, IsProblem, Base, BoundaryKept, WaitingOrBalanced, IsBelow
<1>3. WorksIn(D)'
  BY <1>1 DEF WorksIn, IsClosedIn, Affected
<1>4. IsSolutionOn(D, p, S)'
  OBVIOUS
<1> QED  BY <1>1, <1>2, <1>3, <1>4 DEF SolverInv

LEMMA SolverInvKept ==
  ASSUME NEW D, NEW p, NEW S, IsProblem(p), SolverInv(D, p, S), [SolverNext]_solverVars
  PROVE  SolverInv(D, p, S)'
<1> DEFINE problems == {p}
<1>1. /\ problem = p /\ SolverTypeOK(problems) /\ WaitingOrBalanced /\ BoundaryKept
      /\ WorksIn(D) /\ IsSolutionOn(D, problem, S) /\ IsBelow(S)
  BY DEF SolverInv
<1>2. \A q \in problems : IsProblem(q)
  OBVIOUS
<1> HIDE DEF problems
<1>3. SolverTypeOK(problems)'
  BY <1>1, <1>2, TypeIsKept
<1>4. WaitingOrBalanced'
  BY <1>1, <1>2, WaitingOrBalancedIsKept
<1>5. BoundaryKept' /\ WorksIn(D)' /\ IsBelow(S)'
  BY <1>1, <1>2, BelowIsKept
<1>6. problem' = p
  BY <1>3 DEF SolverTypeOK, problems
<1>7. IsSolutionOn(D, p, S)'
  BY <1>1
<1> QED  BY <1>3, <1>4, <1>5, <1>6, <1>7 DEF SolverInv, problems

LEMMA DataflowInvInit == Init => DataflowInv
<1> SUFFICES ASSUME Init PROVE DataflowInv
  OBVIOUS
<1>1. IsSsaFunction(function) /\ eh = NewEh(function) /\ step # "solve"
  BY InquiriesAssumption DEF Init
<1>2. IsFunction(function)
  BY <1>1 DEF IsSsaFunction
<1> QED  BY <1>1, <1>2, NewEhCore DEF DataflowInv, EhInv

LEMMA DataflowInvNext == DataflowInv /\ [Next]_vars => DataflowInv'
<1> SUFFICES ASSUME DataflowInv, [Next]_vars PROVE DataflowInv'
  OBVIOUS
<1>1. EhInv /\ IsSsaFunction(function) /\ (step = "solve" => SolverInv(AskedBlocks, Asked, AskedBound))
  BY DEF DataflowInv
<1>2. PICK D, p, S : D = AskedBlocks /\ p = Asked /\ S = AskedBound
  OBVIOUS
<1>3. /\ IsProblem(p) /\ D \subseteq p.blocks /\ p.start \subseteq D
      /\ IsClosedIn(D, p) /\ IsSolutionOn(D, p, S)
  BY <1>1, <1>2, AskedFacts
<1>4. ASSUME UNCHANGED <<function, eh, analysis>>, step' = "solve" => SolverInv(D, p, S)'
      PROVE  DataflowInv'
  <2>1. EhInv' /\ IsSsaFunction(function)'
    BY <1>1, <1>4 DEF EhInv, EhCore, EhSound, EhExpanded, EhHanging, Known, Eh
  <2>2. AskedBlocks' = D /\ Asked' = p /\ AskedBound' = S
    BY <1>2, <1>4 DEF AskedBlocks, Asked, AskedBound, EhCfg
  <2> QED  BY <1>4, <2>1, <2>2 DEF DataflowInv
<1>5. CASE UNCHANGED vars
  <2>1. UNCHANGED <<function, eh, analysis, step, solverVars>>
    BY <1>5 DEF vars, ehVars
  <2>2. [SolverNext]_solverVars
    BY <2>1
  <2>3. step' = "solve" => SolverInv(D, p, S)'
    BY <1>1, <1>2, <1>3, <2>1, <2>2, SolverInvKept
  <2> QED  BY <1>4, <2>1, <2>3
<1>6. CASE AttachRoots
  <2>1. UNCHANGED <<function, step>> /\ step = "attach" /\ (Expand \/ FallBack)
    BY <1>6 DEF AttachRoots, AttachNext, Expand, FallBack
  <2>2. EhCore(eh', {})
    BY <1>1, <2>1, ExpandCore, FallBackCore
  <2>3. EhInv'
    BY <1>1, <2>1, <2>2 DEF EhInv, EhCore, EhSound, EhExpanded, EhHanging, Known, Eh
  <2> QED  BY <1>1, <2>1, <2>3 DEF DataflowInv
<1>7. CASE BeginSolving
  <2>1. StartSolver(p) /\ UNCHANGED <<function, eh, analysis>>
    BY <1>2, <1>7 DEF BeginSolving, Asked, ehVars
  <2>2. SolverInv(D, p, S)'
    BY <1>3, <2>1, SolverInvStarts
  <2> QED  BY <1>4, <2>1, <2>2
<1>8. CASE Solve
  <2>1. step = "solve" /\ SolverNext /\ UNCHANGED <<function, eh, analysis>>
    BY <1>8 DEF Solve, ehVars
  <2>2. SolverInv(D, p, S)'
    BY <1>1, <1>2, <1>3, <2>1, SolverInvKept
  <2> QED  BY <1>4, <2>1, <2>2
<1>9. CASE BeginPropagating \/ Propagate \/ Rewrite \/ Start \/ RunBlock
  <2>1. UNCHANGED <<function, eh, analysis>> /\ step' # "solve"
    BY <1>9 DEF BeginPropagating, Propagate, Rewrite, Start, RunBlock, ehVars
  <2> QED  BY <1>4, <2>1
<1> QED  BY <1>5, <1>6, <1>7, <1>8, <1>9 DEF Next

(* The data-flow analyses give the answers their definitions by paths give, for
   every function, whatever order the worklist takes: liveness.rs finds exactly
   the variables that are read later, and reaching.rs exactly the definitions a
   path brings. *)
THEOREM AnswersExact == Spec => []ResultsAreExact
<1>1. DataflowInv => ResultsAreExact
  <2> SUFFICES ASSUME DataflowInv, step = "solve", IsSolved,
                      NEW b \in ReachableFrom(EhCfg, 0), NEW v \in Variables(function)
               PROVE  IF analysis = "liveness"
                      THEN /\ v \in LiveOut(b) <=> IsLiveAfter(function, EhCfg, v, b)
                           /\ v \in after[b] <=> IsLiveBefore(function, EhCfg, v, b)
                      ELSE PredecessorSet(EhCfg, 0) = {} =>
                               (v \in before[b] <=> HasReached(function, EhCfg, v, b))
    BY DEF ResultsAreExact
  <2>1. EhInv /\ IsSsaFunction(function) /\ SolverInv(AskedBlocks, Asked, AskedBound)
    BY DEF DataflowInv
  <2>2. Rows(EhCfg, function.count)
    BY <2>1, AskedFacts
  <2>3. CASE analysis = "liveness"
    <3>1. SolverInv(NodeIds(function), LivenessProblem(function, EhCfg), LivenessBound(function, EhCfg))
      BY <2>1, <2>3 DEF AskedBlocks, Asked, AskedBound
    <3>2. /\ v \in before[b] \cup PhiOut(function)[b] <=> IsLiveAfter(function, EhCfg, v, b)
          /\ v \in after[b] <=> IsLiveBefore(function, EhCfg, v, b)
      BY <2>1, <2>2, <3>1, LivenessIsExact
    <3> QED  BY <2>3, <3>2 DEF LiveOut
  <2>4. CASE analysis # "liveness"
    <3>1. SolverInv(ReachableFrom(EhCfg, 0), ReachingProblem(function, EhCfg),
                    ReachingBound(function, EhCfg))
      BY <2>1, <2>4 DEF AskedBlocks, Asked, AskedBound
    <3>2. PredecessorSet(EhCfg, 0) = {} => (v \in before[b] <=> HasReached(function, EhCfg, v, b))
      BY <2>1, <2>2, <3>1, ReachingIsExact
    <3> QED  BY <2>4, <3>2
  <2> QED  BY <2>3, <2>4
<1> QED  BY <1>1, DataflowInvInit, DataflowInvNext, PTL DEF Spec

-----------------------------------------------------------------------------
(* Constant and range propagation.  What their facts say of values *)

Domains == {"constants", "ranges"}
ConstantFacts == {Top, Bottom} \cup {Constant(c) : c \in Int}
RangeFacts == {Top, Bottom} \cup {Interval(min, max) : min, max \in Int}
FactsOf(d) == IF d = "constants" THEN ConstantFacts ELSE RangeFacts

(* The values a fact of either analysis allows, and that a fact allows all the
   values another one does. *)
Allows(d, fact, v) == IF d = "constants" THEN AllowsConstant(fact, v) ELSE AllowsRange(fact, v)
Includes(d, a, b) == \A v \in Int : Allows(d, b, v) => Allows(d, a, v)

(* A constant fact below another one in the lattice. *)
Covers(a, b) == a = Bottom \/ b = Top \/ a = b

(* The kinds of fact. *)
LEMMA FactsDiffer ==
  /\ Top # Bottom
  /\ \A c : Constant(c) # Top /\ Constant(c) # Bottom
  /\ \A c, d : Constant(c) = Constant(d) => c = d
  /\ ~IsConstant(Top) /\ ~IsConstant(Bottom)
  /\ \A c : IsConstant(Constant(c)) /\ ValueOf(Constant(c)) = c
BY DEF Top, Bottom, Constant, IsConstant, ValueOf

(* What an interval is. *)
LEMMA IntervalFacts ==
  /\ \A a, b : Interval(a, b) # Top /\ Interval(a, b) # Bottom
  /\ \A a, b : Interval(a, b)[1] = "interval" /\ Interval(a, b)[2] = a /\ Interval(a, b)[3] = b
  /\ \A a, b : IsConstant(Interval(a, b)) <=> a = b
  /\ \A a, b : ValueOf(Interval(a, b)) = a
  /\ \A a, b, v : AllowsRange(Interval(a, b), v) <=> a <= v /\ v <= b
  /\ \A v : AllowsRange(Top, v) /\ ~AllowsRange(Bottom, v)
BY DEF Top, Bottom, Interval, IsConstant, ValueOf, AllowsRange

(* The bounds of the width. *)
LEMMA WidthIsInteger == Lowest \in Int /\ Highest \in Int
<1>1. 2 ^ (Width - 1) \in Int
  BY WidthAssumption
<1> QED  BY <1>1 DEF Lowest, Highest

(* A sum that wraps is still an integer. *)
LEMMA WrapIsInteger == \A n \in Int : Wrap(n) \in Int
<1>1. 2 ^ Width \in Nat \ {0} /\ Lowest \in Int
  <2>1. 2 ^ Width \in Int /\ 2 ^ (Width - 1) \in Int
    BY WidthAssumption
  <2> QED  BY <2>1, WidthIsInteger, WidthAssumption
<1> DEFINE m == 2 ^ Width
<1> HIDE DEF m
<1>2. m \in Nat \ {0}
  BY <1>1 DEF m
<1>3. \A n \in Int : ((n - Lowest) % m) + Lowest \in Int
  BY <1>1, <1>2
<1> QED  BY <1>3 DEF Wrap, m

(* A sum in the width does not wrap. *)
LEMMA WrapInWidth == \A n \in Lowest .. Highest : Wrap(n) = n
<1> DEFINE h == 2 ^ (Width - 1)
           m == 2 ^ Width
<1>1. h \in Int /\ m \in Int /\ h > 0 /\ m = 2 * h
  BY WidthAssumption
<1>2. Lowest = -h /\ Highest = h - 1
  BY DEF Lowest, Highest
<1> HIDE DEF h, m
<1> SUFFICES ASSUME NEW n \in Lowest .. Highest PROVE Wrap(n) = n
  OBVIOUS
<1>3. n \in Int /\ 0 <= n - Lowest /\ n - Lowest < m
  BY <1>1, <1>2
<1>4. (n - Lowest) % m = n - Lowest
  BY <1>1, <1>2, <1>3
<1>5. Wrap(n) = ((n - Lowest) % m) + Lowest
  BY DEF Wrap, m
<1> QED  BY <1>1, <1>2, <1>3, <1>4, <1>5

(* Meeting goes down from both facts. *)
LEMMA MeetCovers ==
  ASSUME NEW a \in ConstantFacts, NEW b \in ConstantFacts
  PROVE  /\ MeetConstants(a, b) \in ConstantFacts
         /\ Covers(MeetConstants(a, b), a) /\ Covers(MeetConstants(a, b), b)
BY FactsDiffer DEF MeetConstants, Covers, ConstantFacts

(* A fact that covers another allows its values. *)
LEMMA CoversAllows ==
  \A a, b, v : Covers(a, b) /\ AllowsConstant(b, v) => AllowsConstant(a, v)
BY FactsDiffer DEF Covers, AllowsConstant

(* A joined range allows what either range does, and a range that a join leaves
   as it is includes the other one. *)
LEMMA JoinIncludes ==
  ASSUME NEW a \in RangeFacts, NEW b \in RangeFacts
  PROVE  /\ JoinRanges(a, b) \in RangeFacts
         /\ \A v \in Int : AllowsRange(a, v) \/ AllowsRange(b, v) => AllowsRange(JoinRanges(a, b), v)
<1> USE FactsDiffer, IntervalFacts
<1>1. CASE a = Bottom
  BY <1>1 DEF JoinRanges
<1>2. CASE b = Bottom
  BY <1>2 DEF JoinRanges
<1>3. CASE a # Bottom /\ b # Bottom /\ Top \in {a, b}
  BY <1>3 DEF JoinRanges, RangeFacts
<1>4. CASE a # Bottom /\ b # Bottom /\ Top \notin {a, b}
  <2>0. a # Top /\ b # Top
    BY <1>4
  <2>1. PICK p \in Int, q \in Int, x \in Int, y \in Int : a = Interval(p, q) /\ b = Interval(x, y)
    <3>1. /\ \E p \in Int, q \in Int : a = Interval(p, q)
          /\ \E x \in Int, y \in Int : b = Interval(x, y)
      <4> HIDE FactsDiffer, IntervalFacts
      <4> QED  BY <1>4, <2>0 DEF RangeFacts
    <3> QED  BY ONLY <3>1
  <2>2. JoinRanges(a, b) = Interval(Least(p, x), Greatest(q, y))
    BY <1>4, <2>1 DEF JoinRanges
  <2>3. /\ Least(p, x) \in Int /\ Least(p, x) <= p /\ Least(p, x) <= x
        /\ Greatest(q, y) \in Int /\ q <= Greatest(q, y) /\ y <= Greatest(q, y)
    BY DEF Least, Greatest
  <2>4. JoinRanges(a, b) \in RangeFacts
    BY <2>2, <2>3 DEF RangeFacts
  <2> QED  BY <2>1, <2>2, <2>3, <2>4
<1> QED  BY <1>1, <1>2, <1>3, <1>4

(* A widened range is one. *)
LEMMA WidenIsRange ==
  ASSUME NEW a \in RangeFacts, NEW b \in RangeFacts
  PROVE  Widen(a, b) \in RangeFacts
<1>1. CASE a = Bottom \/ b = Bottom \/ Top \in {a, b}
  BY <1>1 DEF Widen, RangeFacts
<1>2. CASE a # Bottom /\ b # Bottom /\ Top \notin {a, b}
  <2>1. PICK p \in Int, q \in Int, x \in Int, y \in Int : a = Interval(p, q) /\ b = Interval(x, y)
    BY <1>2 DEF RangeFacts
  <2>2. Widen(a, b) = Interval(IF x # NoMin /\ x < p THEN NoMin ELSE p,
                               IF y # NoMax /\ y > q THEN NoMax ELSE q)
    BY <1>2, <2>1, IntervalFacts DEF Widen
  <2> QED  BY <2>2 DEF RangeFacts, NoMin, NoMax
<1> QED  BY <1>1, <1>2

(* What an instruction computes from values its operands' facts allow is
   allowed by the fact evaluate_instruction gives it. *)
LEMMA ConstantIsSound ==
  ASSUME NEW op \in ValueOps, NEW value \in Int, NEW x \in ConstantFacts, NEW y \in ConstantFacts
  PROVE  /\ EvaluateConstant(op, value, x, y) \in ConstantFacts
         /\ \A u, w, z :
               /\ op \in {"copy", "add", "clt", "clt_un", "ceq"} => AllowsConstant(x, u)
               /\ op \in {"add", "clt", "clt_un", "ceq"} => AllowsConstant(y, w)
               /\ z \in Computed(op, value, u, w)
               => AllowsConstant(EvaluateConstant(op, value, x, y), z)
<1> USE FactsDiffer DEF ValueOps
<1>1. CASE op = "copy"
  BY <1>1 DEF EvaluateConstant, Computed
<1>2. CASE op = "const"
  BY <1>2 DEF EvaluateConstant, Computed, AllowsConstant, ConstantFacts
<1>3. CASE op \in {"length", "opaque"}
  BY <1>3 DEF EvaluateConstant, AllowsConstant, ConstantFacts
<1>4. CASE op \in {"add", "clt", "clt_un", "ceq"}
  <2> DEFINE Result(u, w) == CASE op = "add" -> Wrap(u + w)
                               [] op = "clt" -> Truth(u < w)
                               [] op = "clt_un" -> Truth(Unsigned(u) < Unsigned(w))
                               [] op = "ceq" -> Truth(u = w)
  <2>1. \A u, w : Computed(op, value, u, w) = {Result(u, w)}
    BY <1>4 DEF Computed
  <2>2. \A u \in Int, w \in Int : Result(u, w) \in Int
    BY <1>4, WrapIsInteger DEF Truth
  <2> HIDE DEF Result
  <2>3. CASE IsConstant(x) /\ IsConstant(y)
    <3>1. PICK c \in Int, d \in Int : x = Constant(c) /\ y = Constant(d)
      BY <2>3 DEF ConstantFacts
    <3> DEFINE e == Constant(CHOOSE r \in Computed(op, value, ValueOf(x), ValueOf(y)) : TRUE)
    <3>2. EvaluateConstant(op, value, x, y) = e
      BY <1>4, <2>3 DEF EvaluateConstant
    <3>5. Computed(op, value, ValueOf(x), ValueOf(y)) = {Result(c, d)}
      BY <2>1, <3>1
    <3>3. EvaluateConstant(op, value, x, y) = Constant(Result(c, d))
      BY <3>2, <3>5
    <3>4. \A u, w : AllowsConstant(x, u) /\ AllowsConstant(y, w) => u = c /\ w = d
      BY <3>1 DEF AllowsConstant
    <3> QED  BY <1>4, <2>1, <2>2, <3>3, <3>4 DEF ConstantFacts, AllowsConstant
  <2>4. CASE ~IsConstant(x)
    <3>1. EvaluateConstant(op, value, x, y) = x
      BY <1>4, <2>4 DEF EvaluateConstant
    <3>2. x = Top \/ x = Bottom
      BY <2>4 DEF ConstantFacts
    <3> QED  BY <1>4, <3>1, <3>2 DEF AllowsConstant
  <2>5. CASE IsConstant(x) /\ ~IsConstant(y)
    <3>1. EvaluateConstant(op, value, x, y) = y
      BY <1>4, <2>5 DEF EvaluateConstant
    <3>2. y = Top \/ y = Bottom
      BY <2>5 DEF ConstantFacts
    <3> QED  BY <1>4, <3>1, <3>2 DEF AllowsConstant
  <2> QED  BY <2>3, <2>4, <2>5
<1> QED  BY <1>1, <1>2, <1>3, <1>4

(* The same of ranges. *)
LEMMA RangeIsSound ==
  ASSUME NEW op \in ValueOps, NEW value \in Int, NEW x \in RangeFacts, NEW y \in RangeFacts
  PROVE  /\ EvaluateRange(op, value, x, y) \in RangeFacts
         /\ \A u, w, z \in Int :
               /\ op \in {"copy", "add", "clt", "clt_un", "ceq"} => AllowsRange(x, u)
               /\ op \in {"add", "clt", "clt_un", "ceq"} => AllowsRange(y, w)
               /\ z \in Computed(op, value, u, w)
               => AllowsRange(EvaluateRange(op, value, x, y), z)
<1> USE FactsDiffer, IntervalFacts DEF ValueOps
<1>0. Top \in RangeFacts /\ Bottom \in RangeFacts /\ \A a, b \in Int : Interval(a, b) \in RangeFacts
  BY DEF RangeFacts
<1>1. CASE op = "copy"
  <2>1. EvaluateRange(op, value, x, y) = x /\ \A u, w : Computed(op, value, u, w) = {u}
    BY <1>1 DEF EvaluateRange, IsComparison, Computed
  <2> QED  BY <1>1, <2>1
<1>2. CASE op = "const"
  <2>1. /\ EvaluateRange(op, value, x, y) = Interval(value, value)
        /\ \A u, w : Computed(op, value, u, w) = {value}
    BY <1>2 DEF EvaluateRange, IsComparison, Computed
  <2> QED  BY <1>0, <1>2, <2>1
<1>3. CASE op = "opaque"
  <2>1. EvaluateRange(op, value, x, y) = Top
    BY <1>3 DEF EvaluateRange, IsComparison
  <2> QED  BY <1>0, <2>1
<1>4. CASE op = "length"
  <2>1. EvaluateRange(op, value, x, y) = Interval(0, NoMax)
    BY <1>4 DEF EvaluateRange, IsComparison
  <2>2. \A u, w : Computed(op, value, u, w) = {v \in Opaque : v >= 0}
    BY <1>4 DEF Computed
  <2>3. \A v \in Opaque : v \in Int /\ v <= NoMax
    BY WidthIsInteger, WidthAssumption, OpaqueAssumption DEF NoMax
  <2> QED  BY <1>0, <2>1, <2>2, <2>3 DEF NoMax
<1>5. CASE op \in {"clt", "clt_un", "ceq"}
  <2>1. EvaluateRange(op, value, x, y) = Interval(0, 1)
    BY <1>5 DEF EvaluateRange, IsComparison
  <2>2. \A u, w : \E p : Computed(op, value, u, w) = {Truth(p)}
    BY <1>5 DEF Computed
  <2> QED  BY <1>0, <2>1, <2>2 DEF Truth
<1>6. CASE op = "add"
  <2> DEFINE sum == IF Bottom \in {x, y} THEN Bottom
                    ELSE IF Top \in {x, y} THEN Top
                    ELSE Interval(x[2] + y[2], x[3] + y[3])
  <2>1. EvaluateRange(op, value, x, y) = WrapToWidth(sum)
    BY <1>6 DEF EvaluateRange, IsComparison
  <2>2. \A u, w : Computed(op, value, u, w) = {Wrap(u + w)}
    BY <1>6 DEF Computed
  <2>3. CASE WrapToWidth(sum) = Top
    BY <1>0, <2>1, <2>3
  <2>4. CASE WrapToWidth(sum) # Top
    <3>1. /\ WrapToWidth(sum) = sum /\ sum # Bottom /\ ~(MinOf(sum) < Lowest) /\ ~(MaxOf(sum) > Highest)
      BY <2>4 DEF WrapToWidth
    <3>2. x # Bottom /\ y # Bottom /\ x # Top /\ y # Top
      BY <2>4, <3>1
    <3>3. PICK a \in Int, b \in Int, c \in Int, d \in Int : x = Interval(a, b) /\ y = Interval(c, d)
      BY <3>2 DEF RangeFacts
    <3>4. sum = Interval(a + c, b + d)
      BY <3>2, <3>3
    <3> HIDE DEF sum
    <3>5. Lowest \in Int /\ Highest \in Int
      BY WidthIsInteger
    <3>6. Lowest <= a + c /\ b + d <= Highest
      BY <3>1, <3>4, <3>5 DEF MinOf, MaxOf
    <3>7. \A u, w \in Int : a <= u /\ u <= b /\ c <= w /\ w <= d => Wrap(u + w) = u + w
      <4> SUFFICES ASSUME NEW u \in Int, NEW w \in Int, a <= u, u <= b, c <= w, w <= d
                   PROVE  Wrap(u + w) = u + w
        OBVIOUS
      <4>1. u + w \in Lowest .. Highest
        BY <3>5, <3>6
      <4> QED  BY <4>1, WrapInWidth
    <3>8. \A u, w \in Int : AllowsRange(x, u) /\ AllowsRange(y, w) => AllowsRange(sum, Wrap(u + w))
      <4> SUFFICES ASSUME NEW u \in Int, NEW w \in Int, AllowsRange(x, u), AllowsRange(y, w)
                   PROVE  AllowsRange(sum, Wrap(u + w))
        OBVIOUS
      <4>1. a <= u /\ u <= b /\ c <= w /\ w <= d
        BY <3>3
      <4>2. Wrap(u + w) = u + w
        BY <3>7, <4>1
      <4> QED  BY <3>4, <4>1, <4>2
    <3>9. sum \in RangeFacts
      BY <1>0, <3>4
    <3> QED  BY <1>6, <2>1, <2>2, <3>1, <3>8, <3>9
  <2> QED  BY <2>3, <2>4
<1> QED  BY <1>1, <1>2, <1>3, <1>4, <1>5, <1>6

(* Both analyses: what an instruction computes from values its operands' facts
   allow, the fact it is evaluated to allows. *)
EvaluateFact(d, op, value, x, y) ==
    IF d = "constants" THEN EvaluateConstant(op, value, x, y) ELSE EvaluateRange(op, value, x, y)

(* The same of either analysis. *)
LEMMA EvaluateIsSound ==
  ASSUME NEW d \in Domains, NEW op \in ValueOps, NEW value \in Int,
         NEW x \in FactsOf(d), NEW y \in FactsOf(d)
  PROVE  /\ EvaluateFact(d, op, value, x, y) \in FactsOf(d)
         /\ \A u, w, z \in Int :
               /\ op \in {"copy", "add", "clt", "clt_un", "ceq"} => Allows(d, x, u)
               /\ op \in {"add", "clt", "clt_un", "ceq"} => Allows(d, y, w)
               /\ z \in Computed(op, value, u, w)
               => Allows(d, EvaluateFact(d, op, value, x, y), z)
<1>1. CASE d = "constants"
  <2>1. FactsOf(d) = ConstantFacts /\ \A fact, v : Allows(d, fact, v) = AllowsConstant(fact, v)
    BY <1>1 DEF FactsOf, Allows
  <2>2. EvaluateFact(d, op, value, x, y) = EvaluateConstant(op, value, x, y)
    BY <1>1 DEF EvaluateFact
  <2> QED  BY <2>1, <2>2, ConstantIsSound
<1>2. CASE d = "ranges"
  <2>1. FactsOf(d) = RangeFacts /\ \A fact, v : Allows(d, fact, v) = AllowsRange(fact, v)
    BY <1>2 DEF FactsOf, Allows
  <2>2. EvaluateFact(d, op, value, x, y) = EvaluateRange(op, value, x, y)
    BY <1>2 DEF EvaluateFact
  <2> QED  BY <2>1, <2>2, RangeIsSound
<1> QED  BY <1>1, <1>2 DEF Domains

-----------------------------------------------------------------------------
(* The states of a propagation, and what a revision does to one *)

(* A constant does not survive a back edge; ranges.rs knows no back edges. *)
BackEdges(f, d) == IF d = "constants" THEN NodeIds(f) \X NodeIds(f) ELSE {}

SparseStates(f, d) ==
    [domain : {d}, edges : SUBSET (NodeIds(f) \X NodeIds(f)), blocks : SUBSET NodeIds(f),
     back : SUBSET BackEdges(f, d), variables : Seq(Variables(f)),
     flow : Seq(NodeIds(f) \X NodeIds(f)), steps : Nat, done : BOOLEAN,
     revisions : [Variables(f) -> Nat], facts : [Variables(f) -> FactsOf(d)]]

(* The fact of v accounts for the new one: the constant is below it, the range
   is it, unless v may have been widened. *)
Settled(s, v, new) ==
    IF s.domain = "constants" THEN Covers(s.facts[v], new)
    ELSE s.facts[v] = new \/ s.revisions[v] = WidenAfter

(* What the verifier leaves of a block, instruction by instruction. *)
LEMMA InstructionFacts ==
  ASSUME NEW f, IsExecutable(f), NEW b \in NodeIds(f)
  PROVE  /\ \A i \in ToSet(f.body[b]) :
               /\ i \in InstructionSet(f) /\ HasItsOperands(i)
               /\ i.dest # Nil => i.op \in ValueOps /\ i.dest \in Variables(f)
               /\ ToSet(i.args) \subseteq Variables(f)
         /\ Terminator(f, b) \in ToSet(f.body[b]) /\ IsTerminator(Terminator(f, b))
         /\ f.body[b] # <<>> /\ f.body[b] \in Seq(InstructionSet(f))
         /\ \A phi \in ToSet(f.phis[b]) :
               /\ phi \in PhiSet(f)
               /\ \A o \in ToSet(phi.operands) : o.pred \in NodeIds(f) /\ o.value \in Variables(f)
<1> DEFINE B == f.body[b]
           Q == f.phis[b]
<1>1. /\ Q \in Seq(PhiSet(f))
      /\ B \in Seq(InstructionSet(f)) /\ B # <<>>
      /\ \A k \in DOMAIN B :
            /\ HasItsOperands(B[k])
            /\ IsTerminator(B[k]) <=> k = Len(B)
            /\ IsTerminator(B[k]) => B[k].dest = Nil
  BY DEF IsExecutable
<1>2. Terminator(f, b) = B[Len(B)]
  BY DEF Terminator, Last
<1> HIDE DEF B, Q
<1>3. Len(B) \in DOMAIN B
  BY <1>1
<1>4. Terminator(f, b) \in ToSet(B) /\ IsTerminator(Terminator(f, b))
  BY <1>1, <1>2, <1>3 DEF ToSet
<1>5. ASSUME NEW i \in ToSet(B)
      PROVE  /\ i \in InstructionSet(f) /\ HasItsOperands(i)
             /\ i.dest # Nil => i.op \in ValueOps /\ i.dest \in Variables(f)
             /\ ToSet(i.args) \subseteq Variables(f)
  <2>1. PICK k \in DOMAIN B : i = B[k]
    BY DEF ToSet
  <2>2. i \in InstructionSet(f) /\ HasItsOperands(i) /\ (IsTerminator(i) => i.dest = Nil)
    BY <1>1, <2>1
  <2>3. i.dest # Nil => i.op \in ValueOps
    BY <2>2 DEF InstructionSet, IsTerminator, ControlOps
  <2>4. i.dest \in Variables(f) \cup {Nil} /\ i.args \in Seq(Variables(f))
    BY <2>2 DEF InstructionSet
  <2>5. ToSet(i.args) \subseteq Variables(f)
    BY <2>4 DEF ToSet
  <2> QED  BY <2>2, <2>3, <2>4, <2>5
<1>6. ASSUME NEW phi \in ToSet(Q)
      PROVE  /\ phi \in PhiSet(f)
             /\ \A o \in ToSet(phi.operands) : o.pred \in NodeIds(f) /\ o.value \in Variables(f)
  <2>1. phi \in PhiSet(f)
    BY <1>1 DEF ToSet
  <2> DEFINE T == [pred : NodeIds(f), value : Variables(f)]
             w == phi.operands
  <2>2. w \in Seq(T)
    BY <2>1 DEF PhiSet
  <2>3. \A o \in T : o.pred \in NodeIds(f) /\ o.value \in Variables(f)
    OBVIOUS
  <2> HIDE DEF T, w
  <2>4. \A o \in ToSet(w) : o \in T
    BY <2>2 DEF ToSet
  <2> QED  BY <2>1, <2>3, <2>4 DEF w
<1> QED  BY <1>1, <1>4, <1>5, <1>6 DEF B, Q

(* evaluate_instruction depends on nothing but the facts of the operands. *)
LEMMA EvaluateFacts ==
  ASSUME NEW f, NEW d \in Domains, NEW s \in SparseStates(f, d),
         NEW i \in InstructionSet(f), i.op \in ValueOps
  PROVE  /\ Evaluate(s, i) \in FactsOf(d)
         /\ \A y \in SparseStates(f, d) :
               (\A v \in ToSet(i.args) : y.facts[v] = s.facts[v]) => Evaluate(y, i) = Evaluate(s, i)
<1> DEFINE Fact(z, k) == IF k \in DOMAIN i.args THEN z.facts[i.args[k]] ELSE Top
<1>1. i.args \in Seq(Variables(f)) /\ i.value \in Int
  BY WidthIsInteger DEF InstructionSet
<1>2. ASSUME NEW z \in SparseStates(f, d)
      PROVE  Evaluate(z, i) = EvaluateFact(d, i.op, i.value, Fact(z, 1), Fact(z, 2))
  BY DEF Evaluate, SparseStates, EvaluateFact
<1>3. \A k : Fact(s, k) \in FactsOf(d)
  <2>1. Top \in FactsOf(d)
    BY DEF FactsOf, ConstantFacts, RangeFacts
  <2>2. s.facts \in [Variables(f) -> FactsOf(d)]
    BY DEF SparseStates
  <2> QED  BY <1>1, <2>1, <2>2
<1>4. Evaluate(s, i) \in FactsOf(d)
  <2> DEFINE p == Fact(s, 1)
             q == Fact(s, 2)
  <2>1. p \in FactsOf(d) /\ q \in FactsOf(d) /\ Evaluate(s, i) = EvaluateFact(d, i.op, i.value, p, q)
    <3> HIDE DEF Fact
    <3> QED  BY <1>2, <1>3
  <2> HIDE DEF p, q
  <2> QED  BY <1>1, <2>1, EvaluateIsSound
<1>5. ASSUME NEW y \in SparseStates(f, d), \A v \in ToSet(i.args) : y.facts[v] = s.facts[v]
      PROVE  Evaluate(y, i) = Evaluate(s, i)
  <2>1. \A k : Fact(y, k) = Fact(s, k)
    BY <1>5 DEF ToSet
  <2> HIDE DEF Fact
  <2> QED  BY <1>2, <2>1
<1> QED  BY <1>4, <1>5

(* update_value and update_range: the new fact is accounted for, and the
   variable waits if its fact changed.  Nothing else changes. *)
LEMMA ReviseFacts ==
  ASSUME NEW f, NEW d \in Domains, NEW s \in SparseStates(f, d), NEW v \in Variables(f),
         NEW new \in FactsOf(d)
  PROVE  LET y == Revise(s, v, new)
         IN  /\ y \in SparseStates(f, d) /\ Settled(y, v, new)
             /\ y.facts[v] = s.facts[v] \/ v \in ToSet(y.variables)
             /\ \A u \in Variables(f) \ {v} :
                   y.facts[u] = s.facts[u] /\ y.revisions[u] = s.revisions[u]
             /\ ToSet(s.variables) \subseteq ToSet(y.variables)
             /\ y.edges = s.edges /\ y.blocks = s.blocks /\ y.flow = s.flow
             /\ y.back = s.back
<1> DEFINE y == Revise(s, v, new)
           old == s.facts[v]
           full == s.revisions[v] = WidenAfter
           low == IF d = "constants" THEN MeetConstants(old, new)
                  ELSE IF full THEN Widen(old, new) ELSE new
           q == IF low = old THEN s.variables ELSE Append(s.variables, v)
           r == Least(s.revisions[v] + 1, WidenAfter)
<1>1. /\ s.domain = d /\ s.facts \in [Variables(f) -> FactsOf(d)]
      /\ s.variables \in Seq(Variables(f)) /\ s.revisions \in [Variables(f) -> Nat]
  BY DEF SparseStates
<1>2. old \in FactsOf(d)
  BY <1>1
<1>3. low \in FactsOf(d) /\ (d = "constants" => Covers(low, new)) /\ (d = "ranges" => low = new \/ full)
  <2> HIDE DEF old, full
  <2>1. CASE d = "constants"
    BY <1>2, <2>1, MeetCovers DEF FactsOf
  <2>2. CASE d = "ranges"
    BY <1>2, <2>2, WidenIsRange DEF FactsOf
  <2> QED  BY <2>1, <2>2 DEF Domains
<1>4. q \in Seq(Variables(f)) /\ ToSet(s.variables) \subseteq ToSet(q) /\ (low # old => v \in ToSet(q))
  <2> DEFINE w == s.variables
  <2>1. ToSet(Append(w, v)) = ToSet(w) \cup {v}
    <3> HIDE DEF w
    <3>1. w \in Seq(Variables(f))
      BY <1>1 DEF w
    <3> QED  BY <3>1, AppendElements
  <2> HIDE DEF low, old
  <2> QED  BY <1>1, <2>1
<1>5. r \in Nat /\ (full => r = WidenAfter)
  BY <1>1, SparseAssumption DEF Least
<1>6. y = [s EXCEPT !.facts[v] = low, !.revisions[v] = r, !.variables = q]
  BY <1>1 DEF Revise
<1> HIDE DEF low, old, q, r, y
<1>7. y \in SparseStates(f, d)
  BY <1>3, <1>4, <1>5, <1>6 DEF SparseStates
<1>8. /\ y.facts = [s.facts EXCEPT ![v] = low] /\ y.revisions = [s.revisions EXCEPT ![v] = r]
      /\ y.variables = q /\ y.edges = s.edges /\ y.blocks = s.blocks /\ y.flow = s.flow
      /\ y.back = s.back /\ y.domain = d
  BY <1>6, <1>1 DEF SparseStates
<1>9. /\ y.facts[v] = low /\ y.revisions[v] = r
      /\ \A u \in Variables(f) \ {v} : y.facts[u] = s.facts[u] /\ y.revisions[u] = s.revisions[u]
  BY <1>1, <1>8
<1>10. Settled(y, v, new)
  BY <1>3, <1>5, <1>8, <1>9 DEF Settled, Domains
<1>11. y.facts[v] = s.facts[v] \/ v \in ToSet(y.variables)
  BY <1>4, <1>8, <1>9 DEF old
<1>12. ToSet(s.variables) \subseteq ToSet(y.variables)
  BY <1>4, <1>8
<1> QED  BY <1>7, <1>8, <1>9, <1>10, <1>11, <1>12 DEF y

-----------------------------------------------------------------------------
(* The folds of the propagation and of a run, step by step *)

(* What every step of a fold keeps, the fold keeps. *)
LEMMA FoldKeeps ==
  ASSUME NEW n \in Nat, NEW A, NEW x \in A, NEW next, IsSteps(next, n, A), NEW iter,
         \A t \in SUBSET (1 .. n) :
            /\ t = {} => iter[t] = x
            /\ t # {} /\ iter[t \ {Max(t)}] \in A
               => iter[t] = next[Max(t)][iter[t \ {Max(t)}]],
         NEW P \in [0 .. n -> SUBSET A], x \in P[0],
         \A k \in 1 .. n : \A e \in P[k - 1] : next[k][e] \in P[k]
  PROVE  iter[1 .. n] \in P[n]
<1>1. iter[{}] = x
  <2>1. {} \in SUBSET (1 .. n)
    OBVIOUS
  <2> QED  BY <2>1
<1>2. ASSUME NEW k \in 1 .. n, iter[1 .. k - 1] \in A
      PROVE  iter[1 .. k] = next[k][iter[1 .. k - 1]]
  <2>1. Max(1 .. k) = k /\ (1 .. k) \ {k} = 1 .. k - 1
    <3>1. k \in Nat \ {0}
      OBVIOUS
    <3> QED  BY <3>1, MaxUpto
  <2>2. (1 .. k) \in SUBSET (1 .. n) /\ 1 .. k # {}
    <3>1. 1 \in 1 .. k /\ \A j \in 1 .. k : j \in 1 .. n
      OBVIOUS
    <3> QED  BY <3>1
  <2> QED  BY <1>2, <2>1, <2>2
<1> DEFINE R == [k \in 0 .. n |-> iter[1 .. k]]
<1>3. IsRun(R, next, n, A, x)
  BY <1>1, <1>2, FoldIsRun
<1>4. R[n] \in P[n]
  <2> HIDE DEF R
  <2> QED  BY <1>3, RunInvariant
<1>5. n \in 0 .. n
  OBVIOUS
<1> QED  BY <1>4, <1>5

JoinAll(x, to, s) == LET Join(e, phi) == RevisePhi(e, phi, to) IN FoldLeft(Join, x, s)
UseAll(x, f, s) == LET Read(e, site) == ProcessUse(e, f, site) IN FoldLeft(Read, x, s)
Executed(i, envs) == UNION {Execute(i, env) : env \in envs}
RunAll(x, s) == LET After(envs, i) == Executed(i, envs) IN FoldLeft(After, x, s)

(* Every definition of a block, in order. *)
LEMMA DefinitionsFold ==
  ASSUME NEW A, NEW x \in A, NEW T, NEW s \in Seq(T),
         \A e \in A : \A y \in T : ReviseDefinition(e, y) \in A,
         NEW P \in [0 .. Len(s) -> SUBSET A], x \in P[0],
         \A k \in 1 .. Len(s) : \A e \in P[k - 1] : ReviseDefinition(e, s[k]) \in P[k]
  PROVE  FoldLeft(ReviseDefinition, x, s) \in P[Len(s)]
<1> DEFINE Op(e, y) == ReviseDefinition(e, y)
           n == Len(s)
           Def(iter) == iter = [t \in SUBSET (DOMAIN s) |->
                                  IF t = {} THEN x ELSE Op(iter[t \ {Max(t)}], s[Max(t)])]
           next == [k \in 1 .. n |-> [e \in A |-> Op(e, s[k])]]
<1>1. FoldLeft(ReviseDefinition, x, s) = (CHOOSE iter : Def(iter))[DOMAIN s]
  BY Zenon DEF FoldLeft, MapThenFoldSet
<1>2. n \in Nat /\ DOMAIN s = 1 .. n /\ (\A k \in 1 .. n : s[k] \in T)
  OBVIOUS
<1>3. IsSteps(next, n, A) /\ \A k \in 1 .. n : \A e \in A : next[k][e] = Op(e, s[k])
  <2>1. \A e \in A : \A y \in T : Op(e, y) \in A
    OBVIOUS
  <2> HIDE DEF n, Op
  <2> QED  BY <1>2, <2>1 DEF IsSteps
<1>4. \A k \in 1 .. n : \A e \in P[k - 1] : Op(e, s[k]) \in P[k]
  OBVIOUS
<1> HIDE DEF n, Op, next
<1>5. \E iter : Def(iter)
  <2>1. PICK iter : IsFold(iter, next, n, A, x)
    BY <1>2, <1>3, FoldExists
  <2>2. ASSUME NEW t \in SUBSET (1 .. n)
        PROVE  iter[t] = IF t = {} THEN x ELSE Op(iter[t \ {Max(t)}], s[Max(t)])
    <3>1. CASE t = {}
      BY <2>1, <3>1 DEF IsFold
    <3>2. CASE t # {}
      <4>1. iter[t] = next[Max(t)][iter[t \ {Max(t)}]] /\ iter \in [SUBSET (1 .. n) -> A]
        BY <2>1, <3>2 DEF IsFold
      <4>2. Max(t) \in 1 .. n
        BY <1>2, <3>2, MaxFacts
      <4>3. t \ {Max(t)} \in SUBSET (1 .. n)
        OBVIOUS
      <4>4. iter[t \ {Max(t)}] \in A
        BY <4>1, <4>3
      <4> QED  BY <1>3, <3>2, <4>1, <4>2, <4>4
    <3> QED  BY <3>1, <3>2
  <2>3. iter = [t \in SUBSET (1 .. n) |-> iter[t]]
    BY <2>1 DEF IsFold
  <2>4. Def(iter)
    BY <1>2, <2>2, <2>3
  <2> QED  BY <2>4
<1> DEFINE iter == CHOOSE iter : Def(iter)
<1>6. Def(iter)
  BY <1>5
<1>7. ASSUME NEW t \in SUBSET (1 .. n)
      PROVE  iter[t] = IF t = {} THEN x ELSE Op(iter[t \ {Max(t)}], s[Max(t)])
  <2> HIDE DEF iter
  <2> QED  BY <1>2, <1>6
<1>8. FoldLeft(ReviseDefinition, x, s) = iter[1 .. n]
  BY <1>1, <1>2 DEF iter
<1> HIDE DEF iter
<1>9. ASSUME NEW t \in SUBSET (1 .. n)
      PROVE  /\ t = {} => iter[t] = x
             /\ t # {} /\ iter[t \ {Max(t)}] \in A
                => iter[t] = next[Max(t)][iter[t \ {Max(t)}]]
  <2>1. t # {} => Max(t) \in 1 .. n
    BY <1>2, MaxFacts
  <2> QED  BY <1>3, <1>7, <2>1
<1>10. \A k \in 1 .. n : \A e \in P[k - 1] : next[k][e] \in P[k]
  <2> SUFFICES ASSUME NEW k \in 1 .. n, NEW e \in P[k - 1] PROVE next[k][e] \in P[k]
    OBVIOUS
  <2>1. k - 1 \in 0 .. n
    BY <1>2
  <2>2. e \in A
    BY <2>1 DEF n
  <2> QED  BY <1>3, <1>4, <2>2
<1>11. P \in [0 .. n -> SUBSET A]
  BY DEF n
<1>12. iter[1 .. n] \in P[n]
  BY <1>2, <1>3, <1>9, <1>10, <1>11, FoldKeeps
<1> QED  BY <1>8, <1>12 DEF n

(* Every phi that joins an edge. *)
LEMMA JoinFold ==
  ASSUME NEW to, NEW A, NEW x \in A, NEW T, NEW s \in Seq(T),
         \A e \in A : \A y \in T : RevisePhi(e, y, to) \in A,
         NEW P \in [0 .. Len(s) -> SUBSET A], x \in P[0],
         \A k \in 1 .. Len(s) : \A e \in P[k - 1] : RevisePhi(e, s[k], to) \in P[k]
  PROVE  JoinAll(x, to, s) \in P[Len(s)]
<1> DEFINE Op(e, y) == RevisePhi(e, y, to)
           n == Len(s)
           Def(iter) == iter = [t \in SUBSET (DOMAIN s) |->
                                  IF t = {} THEN x ELSE Op(iter[t \ {Max(t)}], s[Max(t)])]
           next == [k \in 1 .. n |-> [e \in A |-> Op(e, s[k])]]
<1>1. JoinAll(x, to, s) = (CHOOSE iter : Def(iter))[DOMAIN s]
  BY Zenon DEF JoinAll, FoldLeft, MapThenFoldSet
<1>2. n \in Nat /\ DOMAIN s = 1 .. n /\ (\A k \in 1 .. n : s[k] \in T)
  OBVIOUS
<1>3. IsSteps(next, n, A) /\ \A k \in 1 .. n : \A e \in A : next[k][e] = Op(e, s[k])
  <2>1. \A e \in A : \A y \in T : Op(e, y) \in A
    OBVIOUS
  <2> HIDE DEF n, Op
  <2> QED  BY <1>2, <2>1 DEF IsSteps
<1>4. \A k \in 1 .. n : \A e \in P[k - 1] : Op(e, s[k]) \in P[k]
  OBVIOUS
<1> HIDE DEF n, Op, next
<1>5. \E iter : Def(iter)
  <2>1. PICK iter : IsFold(iter, next, n, A, x)
    BY <1>2, <1>3, FoldExists
  <2>2. ASSUME NEW t \in SUBSET (1 .. n)
        PROVE  iter[t] = IF t = {} THEN x ELSE Op(iter[t \ {Max(t)}], s[Max(t)])
    <3>1. CASE t = {}
      BY <2>1, <3>1 DEF IsFold
    <3>2. CASE t # {}
      <4>1. iter[t] = next[Max(t)][iter[t \ {Max(t)}]] /\ iter \in [SUBSET (1 .. n) -> A]
        BY <2>1, <3>2 DEF IsFold
      <4>2. Max(t) \in 1 .. n
        BY <1>2, <3>2, MaxFacts
      <4>3. t \ {Max(t)} \in SUBSET (1 .. n)
        OBVIOUS
      <4>4. iter[t \ {Max(t)}] \in A
        BY <4>1, <4>3
      <4> QED  BY <1>3, <3>2, <4>1, <4>2, <4>4
    <3> QED  BY <3>1, <3>2
  <2>3. iter = [t \in SUBSET (1 .. n) |-> iter[t]]
    BY <2>1 DEF IsFold
  <2>4. Def(iter)
    BY <1>2, <2>2, <2>3
  <2> QED  BY <2>4
<1> DEFINE iter == CHOOSE iter : Def(iter)
<1>6. Def(iter)
  BY <1>5
<1>7. ASSUME NEW t \in SUBSET (1 .. n)
      PROVE  iter[t] = IF t = {} THEN x ELSE Op(iter[t \ {Max(t)}], s[Max(t)])
  <2> HIDE DEF iter
  <2> QED  BY <1>2, <1>6
<1>8. JoinAll(x, to, s) = iter[1 .. n]
  BY <1>1, <1>2 DEF iter
<1> HIDE DEF iter
<1>9. ASSUME NEW t \in SUBSET (1 .. n)
      PROVE  /\ t = {} => iter[t] = x
             /\ t # {} /\ iter[t \ {Max(t)}] \in A
                => iter[t] = next[Max(t)][iter[t \ {Max(t)}]]
  <2>1. t # {} => Max(t) \in 1 .. n
    BY <1>2, MaxFacts
  <2> QED  BY <1>3, <1>7, <2>1
<1>10. \A k \in 1 .. n : \A e \in P[k - 1] : next[k][e] \in P[k]
  <2> SUFFICES ASSUME NEW k \in 1 .. n, NEW e \in P[k - 1] PROVE next[k][e] \in P[k]
    OBVIOUS
  <2>1. k - 1 \in 0 .. n
    BY <1>2
  <2>2. e \in A
    BY <2>1 DEF n
  <2> QED  BY <1>3, <1>4, <2>2
<1>11. P \in [0 .. n -> SUBSET A]
  BY DEF n
<1>12. iter[1 .. n] \in P[n]
  BY <1>2, <1>3, <1>9, <1>10, <1>11, FoldKeeps
<1> QED  BY <1>8, <1>12 DEF n

(* Every use of a variable. *)
LEMMA UseFold ==
  ASSUME NEW f, NEW A, NEW x \in A, NEW T, NEW s \in Seq(T),
         \A e \in A : \A y \in T : ProcessUse(e, f, y) \in A,
         NEW P \in [0 .. Len(s) -> SUBSET A], x \in P[0],
         \A k \in 1 .. Len(s) : \A e \in P[k - 1] : ProcessUse(e, f, s[k]) \in P[k]
  PROVE  UseAll(x, f, s) \in P[Len(s)]
<1> DEFINE Op(e, y) == ProcessUse(e, f, y)
           n == Len(s)
           Def(iter) == iter = [t \in SUBSET (DOMAIN s) |->
                                  IF t = {} THEN x ELSE Op(iter[t \ {Max(t)}], s[Max(t)])]
           next == [k \in 1 .. n |-> [e \in A |-> Op(e, s[k])]]
<1>1. UseAll(x, f, s) = (CHOOSE iter : Def(iter))[DOMAIN s]
  BY Zenon DEF UseAll, FoldLeft, MapThenFoldSet
<1>2. n \in Nat /\ DOMAIN s = 1 .. n /\ (\A k \in 1 .. n : s[k] \in T)
  OBVIOUS
<1>3. IsSteps(next, n, A) /\ \A k \in 1 .. n : \A e \in A : next[k][e] = Op(e, s[k])
  <2>1. \A e \in A : \A y \in T : Op(e, y) \in A
    OBVIOUS
  <2> HIDE DEF n, Op
  <2> QED  BY <1>2, <2>1 DEF IsSteps
<1>4. \A k \in 1 .. n : \A e \in P[k - 1] : Op(e, s[k]) \in P[k]
  OBVIOUS
<1> HIDE DEF n, Op, next
<1>5. \E iter : Def(iter)
  <2>1. PICK iter : IsFold(iter, next, n, A, x)
    BY <1>2, <1>3, FoldExists
  <2>2. ASSUME NEW t \in SUBSET (1 .. n)
        PROVE  iter[t] = IF t = {} THEN x ELSE Op(iter[t \ {Max(t)}], s[Max(t)])
    <3>1. CASE t = {}
      BY <2>1, <3>1 DEF IsFold
    <3>2. CASE t # {}
      <4>1. iter[t] = next[Max(t)][iter[t \ {Max(t)}]] /\ iter \in [SUBSET (1 .. n) -> A]
        BY <2>1, <3>2 DEF IsFold
      <4>2. Max(t) \in 1 .. n
        BY <1>2, <3>2, MaxFacts
      <4>3. t \ {Max(t)} \in SUBSET (1 .. n)
        OBVIOUS
      <4>4. iter[t \ {Max(t)}] \in A
        BY <4>1, <4>3
      <4> QED  BY <1>3, <3>2, <4>1, <4>2, <4>4
    <3> QED  BY <3>1, <3>2
  <2>3. iter = [t \in SUBSET (1 .. n) |-> iter[t]]
    BY <2>1 DEF IsFold
  <2>4. Def(iter)
    BY <1>2, <2>2, <2>3
  <2> QED  BY <2>4
<1> DEFINE iter == CHOOSE iter : Def(iter)
<1>6. Def(iter)
  BY <1>5
<1>7. ASSUME NEW t \in SUBSET (1 .. n)
      PROVE  iter[t] = IF t = {} THEN x ELSE Op(iter[t \ {Max(t)}], s[Max(t)])
  <2> HIDE DEF iter
  <2> QED  BY <1>2, <1>6
<1>8. UseAll(x, f, s) = iter[1 .. n]
  BY <1>1, <1>2 DEF iter
<1> HIDE DEF iter
<1>9. ASSUME NEW t \in SUBSET (1 .. n)
      PROVE  /\ t = {} => iter[t] = x
             /\ t # {} /\ iter[t \ {Max(t)}] \in A
                => iter[t] = next[Max(t)][iter[t \ {Max(t)}]]
  <2>1. t # {} => Max(t) \in 1 .. n
    BY <1>2, MaxFacts
  <2> QED  BY <1>3, <1>7, <2>1
<1>10. \A k \in 1 .. n : \A e \in P[k - 1] : next[k][e] \in P[k]
  <2> SUFFICES ASSUME NEW k \in 1 .. n, NEW e \in P[k - 1] PROVE next[k][e] \in P[k]
    OBVIOUS
  <2>1. k - 1 \in 0 .. n
    BY <1>2
  <2>2. e \in A
    BY <2>1 DEF n
  <2> QED  BY <1>3, <1>4, <2>2
<1>11. P \in [0 .. n -> SUBSET A]
  BY DEF n
<1>12. iter[1 .. n] \in P[n]
  BY <1>2, <1>3, <1>9, <1>10, <1>11, FoldKeeps
<1> QED  BY <1>8, <1>12 DEF n

(* Every instruction of a block that runs. *)
LEMMA RunFold ==
  ASSUME NEW A, NEW x \in A, NEW T, NEW s \in Seq(T),
         \A e \in A : \A y \in T : Executed(y, e) \in A,
         NEW P \in [0 .. Len(s) -> SUBSET A], x \in P[0],
         \A k \in 1 .. Len(s) : \A e \in P[k - 1] : Executed(s[k], e) \in P[k]
  PROVE  RunAll(x, s) \in P[Len(s)]
<1> DEFINE Op(e, y) == Executed(y, e)
           n == Len(s)
           Def(iter) == iter = [t \in SUBSET (DOMAIN s) |->
                                  IF t = {} THEN x ELSE Op(iter[t \ {Max(t)}], s[Max(t)])]
           next == [k \in 1 .. n |-> [e \in A |-> Op(e, s[k])]]
<1>1. RunAll(x, s) = (CHOOSE iter : Def(iter))[DOMAIN s]
  BY Zenon DEF RunAll, FoldLeft, MapThenFoldSet
<1>2. n \in Nat /\ DOMAIN s = 1 .. n /\ (\A k \in 1 .. n : s[k] \in T)
  OBVIOUS
<1>3. IsSteps(next, n, A) /\ \A k \in 1 .. n : \A e \in A : next[k][e] = Op(e, s[k])
  <2>1. \A e \in A : \A y \in T : Op(e, y) \in A
    OBVIOUS
  <2> HIDE DEF n, Op
  <2> QED  BY <1>2, <2>1 DEF IsSteps
<1>4. \A k \in 1 .. n : \A e \in P[k - 1] : Op(e, s[k]) \in P[k]
  OBVIOUS
<1> HIDE DEF n, Op, next
<1>5. \E iter : Def(iter)
  <2>1. PICK iter : IsFold(iter, next, n, A, x)
    BY <1>2, <1>3, FoldExists
  <2>2. ASSUME NEW t \in SUBSET (1 .. n)
        PROVE  iter[t] = IF t = {} THEN x ELSE Op(iter[t \ {Max(t)}], s[Max(t)])
    <3>1. CASE t = {}
      BY <2>1, <3>1 DEF IsFold
    <3>2. CASE t # {}
      <4>1. iter[t] = next[Max(t)][iter[t \ {Max(t)}]] /\ iter \in [SUBSET (1 .. n) -> A]
        BY <2>1, <3>2 DEF IsFold
      <4>2. Max(t) \in 1 .. n
        BY <1>2, <3>2, MaxFacts
      <4>3. t \ {Max(t)} \in SUBSET (1 .. n)
        OBVIOUS
      <4>4. iter[t \ {Max(t)}] \in A
        BY <4>1, <4>3
      <4> QED  BY <1>3, <3>2, <4>1, <4>2, <4>4
    <3> QED  BY <3>1, <3>2
  <2>3. iter = [t \in SUBSET (1 .. n) |-> iter[t]]
    BY <2>1 DEF IsFold
  <2>4. Def(iter)
    BY <1>2, <2>2, <2>3
  <2> QED  BY <2>4
<1> DEFINE iter == CHOOSE iter : Def(iter)
<1>6. Def(iter)
  BY <1>5
<1>7. ASSUME NEW t \in SUBSET (1 .. n)
      PROVE  iter[t] = IF t = {} THEN x ELSE Op(iter[t \ {Max(t)}], s[Max(t)])
  <2> HIDE DEF iter
  <2> QED  BY <1>2, <1>6
<1>8. RunAll(x, s) = iter[1 .. n]
  BY <1>1, <1>2 DEF iter
<1> HIDE DEF iter
<1>9. ASSUME NEW t \in SUBSET (1 .. n)
      PROVE  /\ t = {} => iter[t] = x
             /\ t # {} /\ iter[t \ {Max(t)}] \in A
                => iter[t] = next[Max(t)][iter[t \ {Max(t)}]]
  <2>1. t # {} => Max(t) \in 1 .. n
    BY <1>2, MaxFacts
  <2> QED  BY <1>3, <1>7, <2>1
<1>10. \A k \in 1 .. n : \A e \in P[k - 1] : next[k][e] \in P[k]
  <2> SUFFICES ASSUME NEW k \in 1 .. n, NEW e \in P[k - 1] PROVE next[k][e] \in P[k]
    OBVIOUS
  <2>1. k - 1 \in 0 .. n
    BY <1>2
  <2>2. e \in A
    BY <2>1 DEF n
  <2> QED  BY <1>3, <1>4, <2>2
<1>11. P \in [0 .. n -> SUBSET A]
  BY DEF n
<1>12. iter[1 .. n] \in P[n]
  BY <1>2, <1>3, <1>9, <1>10, <1>11, FoldKeeps
<1> QED  BY <1>8, <1>12 DEF n

(* Every operand a phi meets. *)
LEMMA MeetFold ==
  ASSUME NEW A, NEW x \in A, NEW T, NEW s \in Seq(T),
         \A e \in A : \A y \in T : MeetConstants(e, y) \in A,
         NEW P \in [0 .. Len(s) -> SUBSET A], x \in P[0],
         \A k \in 1 .. Len(s) : \A e \in P[k - 1] : MeetConstants(e, s[k]) \in P[k]
  PROVE  FoldLeft(MeetConstants, x, s) \in P[Len(s)]
<1> DEFINE Op(e, y) == MeetConstants(e, y)
           n == Len(s)
           Def(iter) == iter = [t \in SUBSET (DOMAIN s) |->
                                  IF t = {} THEN x ELSE Op(iter[t \ {Max(t)}], s[Max(t)])]
           next == [k \in 1 .. n |-> [e \in A |-> Op(e, s[k])]]
<1>1. FoldLeft(MeetConstants, x, s) = (CHOOSE iter : Def(iter))[DOMAIN s]
  BY Zenon DEF FoldLeft, MapThenFoldSet
<1>2. n \in Nat /\ DOMAIN s = 1 .. n /\ (\A k \in 1 .. n : s[k] \in T)
  OBVIOUS
<1>3. IsSteps(next, n, A) /\ \A k \in 1 .. n : \A e \in A : next[k][e] = Op(e, s[k])
  <2>1. \A e \in A : \A y \in T : Op(e, y) \in A
    OBVIOUS
  <2> HIDE DEF n, Op
  <2> QED  BY <1>2, <2>1 DEF IsSteps
<1>4. \A k \in 1 .. n : \A e \in P[k - 1] : Op(e, s[k]) \in P[k]
  OBVIOUS
<1> HIDE DEF n, Op, next
<1>5. \E iter : Def(iter)
  <2>1. PICK iter : IsFold(iter, next, n, A, x)
    BY <1>2, <1>3, FoldExists
  <2>2. ASSUME NEW t \in SUBSET (1 .. n)
        PROVE  iter[t] = IF t = {} THEN x ELSE Op(iter[t \ {Max(t)}], s[Max(t)])
    <3>1. CASE t = {}
      BY <2>1, <3>1 DEF IsFold
    <3>2. CASE t # {}
      <4>1. iter[t] = next[Max(t)][iter[t \ {Max(t)}]] /\ iter \in [SUBSET (1 .. n) -> A]
        BY <2>1, <3>2 DEF IsFold
      <4>2. Max(t) \in 1 .. n
        BY <1>2, <3>2, MaxFacts
      <4>3. t \ {Max(t)} \in SUBSET (1 .. n)
        OBVIOUS
      <4>4. iter[t \ {Max(t)}] \in A
        BY <4>1, <4>3
      <4> QED  BY <1>3, <3>2, <4>1, <4>2, <4>4
    <3> QED  BY <3>1, <3>2
  <2>3. iter = [t \in SUBSET (1 .. n) |-> iter[t]]
    BY <2>1 DEF IsFold
  <2>4. Def(iter)
    BY <1>2, <2>2, <2>3
  <2> QED  BY <2>4
<1> DEFINE iter == CHOOSE iter : Def(iter)
<1>6. Def(iter)
  BY <1>5
<1>7. ASSUME NEW t \in SUBSET (1 .. n)
      PROVE  iter[t] = IF t = {} THEN x ELSE Op(iter[t \ {Max(t)}], s[Max(t)])
  <2> HIDE DEF iter
  <2> QED  BY <1>2, <1>6
<1>8. FoldLeft(MeetConstants, x, s) = iter[1 .. n]
  BY <1>1, <1>2 DEF iter
<1> HIDE DEF iter
<1>9. ASSUME NEW t \in SUBSET (1 .. n)
      PROVE  /\ t = {} => iter[t] = x
             /\ t # {} /\ iter[t \ {Max(t)}] \in A
                => iter[t] = next[Max(t)][iter[t \ {Max(t)}]]
  <2>1. t # {} => Max(t) \in 1 .. n
    BY <1>2, MaxFacts
  <2> QED  BY <1>3, <1>7, <2>1
<1>10. \A k \in 1 .. n : \A e \in P[k - 1] : next[k][e] \in P[k]
  <2> SUFFICES ASSUME NEW k \in 1 .. n, NEW e \in P[k - 1] PROVE next[k][e] \in P[k]
    OBVIOUS
  <2>1. k - 1 \in 0 .. n
    BY <1>2
  <2>2. e \in A
    BY <2>1 DEF n
  <2> QED  BY <1>3, <1>4, <2>2
<1>11. P \in [0 .. n -> SUBSET A]
  BY DEF n
<1>12. iter[1 .. n] \in P[n]
  BY <1>2, <1>3, <1>9, <1>10, <1>11, FoldKeeps
<1> QED  BY <1>8, <1>12 DEF n

(* Every operand a phi joins. *)
LEMMA RangesFold ==
  ASSUME NEW A, NEW x \in A, NEW T, NEW s \in Seq(T),
         \A e \in A : \A y \in T : JoinRanges(e, y) \in A,
         NEW P \in [0 .. Len(s) -> SUBSET A], x \in P[0],
         \A k \in 1 .. Len(s) : \A e \in P[k - 1] : JoinRanges(e, s[k]) \in P[k]
  PROVE  FoldLeft(JoinRanges, x, s) \in P[Len(s)]
<1> DEFINE Op(e, y) == JoinRanges(e, y)
           n == Len(s)
           Def(iter) == iter = [t \in SUBSET (DOMAIN s) |->
                                  IF t = {} THEN x ELSE Op(iter[t \ {Max(t)}], s[Max(t)])]
           next == [k \in 1 .. n |-> [e \in A |-> Op(e, s[k])]]
<1>1. FoldLeft(JoinRanges, x, s) = (CHOOSE iter : Def(iter))[DOMAIN s]
  BY Zenon DEF FoldLeft, MapThenFoldSet
<1>2. n \in Nat /\ DOMAIN s = 1 .. n /\ (\A k \in 1 .. n : s[k] \in T)
  OBVIOUS
<1>3. IsSteps(next, n, A) /\ \A k \in 1 .. n : \A e \in A : next[k][e] = Op(e, s[k])
  <2>1. \A e \in A : \A y \in T : Op(e, y) \in A
    OBVIOUS
  <2> HIDE DEF n, Op
  <2> QED  BY <1>2, <2>1 DEF IsSteps
<1>4. \A k \in 1 .. n : \A e \in P[k - 1] : Op(e, s[k]) \in P[k]
  OBVIOUS
<1> HIDE DEF n, Op, next
<1>5. \E iter : Def(iter)
  <2>1. PICK iter : IsFold(iter, next, n, A, x)
    BY <1>2, <1>3, FoldExists
  <2>2. ASSUME NEW t \in SUBSET (1 .. n)
        PROVE  iter[t] = IF t = {} THEN x ELSE Op(iter[t \ {Max(t)}], s[Max(t)])
    <3>1. CASE t = {}
      BY <2>1, <3>1 DEF IsFold
    <3>2. CASE t # {}
      <4>1. iter[t] = next[Max(t)][iter[t \ {Max(t)}]] /\ iter \in [SUBSET (1 .. n) -> A]
        BY <2>1, <3>2 DEF IsFold
      <4>2. Max(t) \in 1 .. n
        BY <1>2, <3>2, MaxFacts
      <4>3. t \ {Max(t)} \in SUBSET (1 .. n)
        OBVIOUS
      <4>4. iter[t \ {Max(t)}] \in A
        BY <4>1, <4>3
      <4> QED  BY <1>3, <3>2, <4>1, <4>2, <4>4
    <3> QED  BY <3>1, <3>2
  <2>3. iter = [t \in SUBSET (1 .. n) |-> iter[t]]
    BY <2>1 DEF IsFold
  <2>4. Def(iter)
    BY <1>2, <2>2, <2>3
  <2> QED  BY <2>4
<1> DEFINE iter == CHOOSE iter : Def(iter)
<1>6. Def(iter)
  BY <1>5
<1>7. ASSUME NEW t \in SUBSET (1 .. n)
      PROVE  iter[t] = IF t = {} THEN x ELSE Op(iter[t \ {Max(t)}], s[Max(t)])
  <2> HIDE DEF iter
  <2> QED  BY <1>2, <1>6
<1>8. FoldLeft(JoinRanges, x, s) = iter[1 .. n]
  BY <1>1, <1>2 DEF iter
<1> HIDE DEF iter
<1>9. ASSUME NEW t \in SUBSET (1 .. n)
      PROVE  /\ t = {} => iter[t] = x
             /\ t # {} /\ iter[t \ {Max(t)}] \in A
                => iter[t] = next[Max(t)][iter[t \ {Max(t)}]]
  <2>1. t # {} => Max(t) \in 1 .. n
    BY <1>2, MaxFacts
  <2> QED  BY <1>3, <1>7, <2>1
<1>10. \A k \in 1 .. n : \A e \in P[k - 1] : next[k][e] \in P[k]
  <2> SUFFICES ASSUME NEW k \in 1 .. n, NEW e \in P[k - 1] PROVE next[k][e] \in P[k]
    OBVIOUS
  <2>1. k - 1 \in 0 .. n
    BY <1>2
  <2>2. e \in A
    BY <2>1 DEF n
  <2> QED  BY <1>3, <1>4, <2>2
<1>11. P \in [0 .. n -> SUBSET A]
  BY DEF n
<1>12. iter[1 .. n] \in P[n]
  BY <1>2, <1>3, <1>9, <1>10, <1>11, FoldKeeps
<1> QED  BY <1>8, <1>12 DEF n

(* A phi's fact includes that of every operand of an executable edge, and
   depends on nothing else; without such an operand it is Top. *)
LEMMA EvaluatePhiFacts ==
  ASSUME NEW f, NEW d \in Domains, NEW s \in SparseStates(f, d), NEW b \in NodeIds(f),
         NEW phi \in PhiSet(f)
  PROVE  /\ EvaluatePhi(s, phi, b) \in FactsOf(d)
         /\ \A o \in ToSet(phi.operands) :
               <<o.pred, b>> \in s.edges => Includes(d, EvaluatePhi(s, phi, b), s.facts[o.value])
         /\ (\A o \in ToSet(phi.operands) : <<o.pred, b>> \notin s.edges)
               => EvaluatePhi(s, phi, b) = Top
         /\ \A y \in SparseStates(f, d) :
               (\A o \in ToSet(phi.operands) :
                   /\ <<o.pred, b>> \in y.edges <=> <<o.pred, b>> \in s.edges
                   /\ <<o.pred, b>> \in s.edges =>
                         /\ <<o.pred, b>> \in y.back <=> <<o.pred, b>> \in s.back
                         /\ y.facts[o.value] = s.facts[o.value])
               => EvaluatePhi(y, phi, b) = EvaluatePhi(s, phi, b)
<1> DEFINE T == [pred : NodeIds(f), value : Variables(f)]
           S(z) == {o \in ToSet(phi.operands) : <<o.pred, b>> \in z.edges}
           Fact(z, o) == IF <<o.pred, b>> \in z.back THEN Bottom ELSE z.facts[o.value]
           w == Keep(phi.operands, S(s))
           facts == [k \in DOMAIN w |-> Fact(s, w[k])]
           F == FactsOf(d)
           P == [k \in 0 .. Len(facts) |->
                    {a \in F : \A j \in 1 .. k : Includes(d, a, facts[j])}]
           e == EvaluatePhi(s, phi, b)
<1>1. /\ s.domain = d /\ s.facts \in [Variables(f) -> F] /\ s.back \subseteq BackEdges(f, d)
      /\ phi.operands \in Seq(T)
  BY DEF SparseStates, PhiSet
<1>2. ASSUME NEW z \in SparseStates(f, d)
      PROVE  EvaluatePhi(z, phi, b) =
                LET u == Keep(phi.operands, S(z))
                    x == [k \in DOMAIN u |-> Fact(z, u[k])]
                IN  IF u = <<>> THEN Top
                    ELSE IF d = "constants" THEN FoldLeft(MeetConstants, Top, x)
                    ELSE FoldLeft(JoinRanges, Bottom, x)
  <2>1. z.domain = d
    BY DEF SparseStates
  <2> QED  BY <2>1, Zenon DEF EvaluatePhi
<1>3. Top \in F /\ Bottom \in F
  BY DEF FactsOf, ConstantFacts, RangeFacts
<1>4. w \in Seq(T) /\ ToSet(w) = S(s)
  <2> DEFINE p == phi.operands
             R == S(s)
  <2>1. p \in Seq(T)
    BY <1>1
  <2>2. ToSet(p) \cap R = R
    OBVIOUS
  <2> HIDE DEF p, R, T
  <2>3. Keep(p, R) \in Seq(T \cap R) /\ ToSet(Keep(p, R)) = ToSet(p) \cap R
    BY <2>1, KeepFacts
  <2>4. Keep(p, R) \in Seq(T)
    BY <2>3
  <2> QED  BY <2>2, <2>3, <2>4 DEF p, R
<1>5. Len(w) \in Nat /\ DOMAIN w = 1 .. Len(w) /\ \A j \in 1 .. Len(w) : w[j] \in T
  <2> HIDE DEF w, T
  <2> QED  BY <1>4
<1>6. \A o \in T : Fact(s, o) \in F
  <2>1. \A o \in T : o.value \in Variables(f)
    OBVIOUS
  <2> HIDE DEF T, F
  <2> QED  BY <1>1, <1>3, <2>1
<1>7. /\ facts \in Seq(F) /\ Len(facts) = Len(w) /\ DOMAIN facts = 1 .. Len(w)
      /\ \A j \in 1 .. Len(w) : facts[j] = Fact(s, w[j]) /\ facts[j] \in F
  <2> HIDE DEF w, Fact, F, T
  <2> QED  BY <1>5, <1>6
<1>8. e = IF w = <<>> THEN Top
          ELSE IF d = "constants" THEN FoldLeft(MeetConstants, Top, facts)
          ELSE FoldLeft(JoinRanges, Bottom, facts)
  BY <1>2
<1>9. \A a, c, x : Includes(d, a, c) /\ Includes(d, c, x) => Includes(d, a, x)
  BY DEF Includes
<1> DEFINE n == Len(w)
<1>10. n \in Nat /\ Len(facts) = n /\ P \in [0 .. n -> SUBSET F] /\ \A a \in F : a \in P[0]
  <2>1. n \in Nat /\ Len(facts) = n
    BY <1>5, <1>7
  <2> HIDE DEF n, facts, F
  <2> QED  BY <2>1
<1>11. ASSUME NEW k \in 1 .. n, NEW a \in P[k - 1], NEW c \in F,
              Includes(d, c, a), Includes(d, c, facts[k])
       PROVE  c \in P[k]
  <2> DEFINE R(m) == {x \in F : \A j \in 1 .. m : Includes(d, x, facts[j])}
  <2>1. k \in 0 .. n /\ k - 1 \in 0 .. n /\ k \in Nat /\ Len(facts) = n
    <3> HIDE DEF n, facts, F, P
    <3> QED  BY <1>10
  <2>2. \A j \in 1 .. k : j = k \/ j \in 1 .. k - 1
    <3> HIDE DEF n, facts, F, P
    <3> QED  BY <2>1
  <2>3. P[k - 1] = R(k - 1) /\ P[k] = R(k)
    <3> HIDE DEF n, facts, F, R
    <3>1. P = [m \in 0 .. Len(facts) |-> R(m)]
      BY DEF R
    <3> HIDE DEF P
    <3> QED  BY <2>1, <3>1
  <2> HIDE DEF n, facts, F, P
  <2>4. \A j \in 1 .. k - 1 : Includes(d, a, facts[j])
    BY <2>3
  <2>5. \A j \in 1 .. k : Includes(d, c, facts[j])
    <3> HIDE DEF R
    <3> QED  BY <1>9, <1>11, <2>2, <2>4
  <2> QED  BY <2>3, <2>5
<1>12. ASSUME d = "constants" PROVE FoldLeft(MeetConstants, Top, facts) \in P[n]
  <2>1. F = ConstantFacts
    BY <1>12 DEF FactsOf
  <2>2. ASSUME NEW x \in F, NEW y \in F
        PROVE  LET c == MeetConstants(x, y) IN c \in F /\ Includes(d, c, x) /\ Includes(d, c, y)
    <3>1. MeetConstants(x, y) \in F /\ Covers(MeetConstants(x, y), x) /\ Covers(MeetConstants(x, y), y)
      BY <2>1, <2>2, MeetCovers
    <3> QED  BY <1>12, <3>1, CoversAllows DEF Includes, Allows
  <2> HIDE DEF P, F, n, facts
  <2>3. \A x \in F : \A y \in F : MeetConstants(x, y) \in F
    BY <2>2
  <2>4. ASSUME NEW k \in 1 .. n, NEW x \in P[k - 1] PROVE MeetConstants(x, facts[k]) \in P[k]
    <3>1. k - 1 \in 0 .. n /\ x \in F
      BY <1>10
    <3>2. facts[k] \in F
      BY <1>7 DEF n
    <3> QED  BY <1>11, <2>2, <3>1, <3>2
  <2> QED  BY <1>3, <1>7, <1>10, <2>3, <2>4, MeetFold
<1>13. ASSUME d = "ranges" PROVE FoldLeft(JoinRanges, Bottom, facts) \in P[n]
  <2>1. F = RangeFacts
    BY <1>13 DEF FactsOf
  <2>2. ASSUME NEW x \in F, NEW y \in F
        PROVE  LET c == JoinRanges(x, y) IN c \in F /\ Includes(d, c, x) /\ Includes(d, c, y)
    BY <1>13, <2>1, <2>2, JoinIncludes DEF Includes, Allows
  <2> HIDE DEF P, F, n, facts
  <2>3. \A x \in F : \A y \in F : JoinRanges(x, y) \in F
    BY <2>2
  <2>4. ASSUME NEW k \in 1 .. n, NEW x \in P[k - 1] PROVE JoinRanges(x, facts[k]) \in P[k]
    <3>1. k - 1 \in 0 .. n /\ x \in F
      BY <1>10
    <3>2. facts[k] \in F
      BY <1>7 DEF n
    <3> QED  BY <1>11, <2>2, <3>1, <3>2
  <2> QED  BY <1>3, <1>7, <1>10, <2>3, <2>4, RangesFold
<1>14. w # <<>> => e \in P[n]
  <2> HIDE DEF P, F, n, facts, e, w
  <2> QED  BY <1>8, <1>12, <1>13 DEF Domains
<1>15. w # <<>> => e \in F /\ \A j \in 1 .. n : Includes(d, e, Fact(s, w[j]))
  <2>1. n \in 0 .. n
    <3> HIDE DEF n, facts, F, P
    <3> QED  BY <1>10
  <2> HIDE DEF F, n, facts, e, w, Fact
  <2> QED  BY <1>7, <1>10, <1>14, <2>1 DEF n
<1>16. e \in F
  <2> HIDE DEF e, w, F
  <2> QED  BY <1>3, <1>8, <1>15 DEF e
<1>17. ASSUME NEW o \in S(s) PROVE Includes(d, e, s.facts[o.value])
  <2> HIDE DEF w, e, Fact
  <2>1. PICK j \in 1 .. Len(w) : w[j] = o
    BY <1>4, <1>5 DEF ToSet
  <2>2. w # <<>>
    BY <1>5, <2>1
  <2>3. Includes(d, e, Fact(s, o))
    BY <1>15, <2>1, <2>2
  <2>4. CASE <<o.pred, b>> \in s.back
    <3>1. d = "constants" /\ Fact(s, o) = Bottom
      BY <1>1, <2>4 DEF BackEdges, Fact
    <3> QED  BY <2>3, <3>1 DEF Includes, Allows, AllowsConstant
  <2>5. CASE <<o.pred, b>> \notin s.back
    BY <2>3, <2>5 DEF Fact
  <2> QED  BY <2>4, <2>5
<1>18. ASSUME \A o \in ToSet(phi.operands) : <<o.pred, b>> \notin s.edges PROVE e = Top
  <2>1. S(s) = {}
    BY <1>18
  <2>2. w = <<>>
    <3> HIDE DEF w, S
    <3>1. \A j \in 1 .. Len(w) : w[j] \in ToSet(w)
      BY <1>5 DEF ToSet
    <3>2. Len(w) = 0
      BY <1>4, <1>5, <2>1, <3>1
    <3> QED  BY <1>4, <3>2
  <2> HIDE DEF w, e
  <2> QED  BY <1>8, <2>2 DEF e
<1>19. ASSUME NEW y \in SparseStates(f, d),
              \A o \in ToSet(phi.operands) :
                 /\ <<o.pred, b>> \in y.edges <=> <<o.pred, b>> \in s.edges
                 /\ <<o.pred, b>> \in s.edges =>
                       /\ <<o.pred, b>> \in y.back <=> <<o.pred, b>> \in s.back
                       /\ y.facts[o.value] = s.facts[o.value]
       PROVE  EvaluatePhi(y, phi, b) = e
  <2>1. S(y) = S(s)
    BY <1>19
  <2>2. \A j \in DOMAIN w : w[j] \in S(s)
    <3> HIDE DEF w, S
    <3> QED  BY <1>4 DEF ToSet
  <2>3. \A o \in S(s) : Fact(y, o) = Fact(s, o)
    BY <1>19
  <2>4. [k \in DOMAIN w |-> Fact(y, w[k])] = facts
    <3> HIDE DEF w, Fact, S
    <3> QED  BY <2>2, <2>3
  <2>5. Keep(phi.operands, S(y)) = w
    <3> HIDE DEF S
    <3> QED  BY <2>1
  <2>6. EvaluatePhi(y, phi, b) =
                LET u == Keep(phi.operands, S(y))
                    x == [k \in DOMAIN u |-> Fact(y, u[k])]
                IN  IF u = <<>> THEN Top
                    ELSE IF d = "constants" THEN FoldLeft(MeetConstants, Top, x)
                    ELSE FoldLeft(JoinRanges, Bottom, x)
    BY <1>2
  <2>7. EvaluatePhi(y, phi, b) =
                LET x == [k \in DOMAIN w |-> Fact(y, w[k])]
                IN  IF w = <<>> THEN Top
                    ELSE IF d = "constants" THEN FoldLeft(MeetConstants, Top, x)
                    ELSE FoldLeft(JoinRanges, Bottom, x)
    <3> HIDE DEF w, Fact, S
    <3> QED  BY <2>5, <2>6, Zenon
  <2> HIDE DEF w, Fact, facts, e
  <2> QED  BY <1>8, <2>4, <2>7, Zenon
<1> HIDE DEF e, F
<1> QED  BY <1>16, <1>17, <1>18, <1>19 DEF F, e

(* A fact that is one value allows no other. *)
LEMMA ConstantValue ==
  ASSUME NEW d \in Domains, NEW fact \in FactsOf(d), IsConstant(fact)
  PROVE  /\ ValueOf(fact) \in Int /\ fact # Top /\ fact # Bottom
         /\ \A v : Allows(d, fact, v) /\ v \in Int => v = ValueOf(fact)
<1>1. CASE d = "constants"
  <2>1. PICK c \in Int : fact = Constant(c)
    BY <1>1, FactsDiffer DEF FactsOf, ConstantFacts
  <2> QED  BY <1>1, <2>1, FactsDiffer DEF Allows, AllowsConstant
<1>2. CASE d = "ranges"
  <2>1. PICK p \in Int, q \in Int : fact = Interval(p, q)
    BY <1>2, FactsDiffer DEF FactsOf, RangeFacts
  <2> QED  BY <1>2, <2>1, IntervalFacts DEF Allows
<1> QED  BY <1>1, <1>2 DEF Domains

(* The targets a terminator chooses are blocks, and depend on its condition. *)
LEMMA ChosenFacts ==
  ASSUME NEW f, NEW d \in Domains, NEW s \in SparseStates(f, d), NEW t \in InstructionSet(f),
         IsTerminator(t), HasItsOperands(t)
  PROVE  /\ ChosenTargets(s, t) \in Seq(NodeIds(f))
         /\ \A y \in SparseStates(f, d) :
               (\A v \in ToSet(t.args) : y.facts[v] = s.facts[v])
               => ChosenTargets(y, t) = ChosenTargets(s, t)
<1>1. /\ s.domain = d /\ s.facts \in [Variables(f) -> FactsOf(d)]
      /\ t.targets \in Seq(NodeIds(f)) /\ t.args \in Seq(Variables(f))
  BY DEF SparseStates, InstructionSet
<1>2. CASE t.op \in {"jump", "return"}
  BY <1>1, <1>2 DEF ChosenTargets
<1>3. CASE t.op \in {"branch", "switch"}
  <2> DEFINE v == t.args[1]
             fact == s.facts[v]
  <2>1. Len(t.args) = 1
    BY <1>3 DEF HasItsOperands
  <2>2. v \in Variables(f) /\ v \in ToSet(t.args)
    BY <1>1, <2>1 DEF ToSet
  <2>3. fact \in FactsOf(d)
    <3> HIDE DEF v
    <3> QED  BY <1>1, <2>2
  <2>4. CASE t.op = "branch"
    <3>1. t.targets[1] \in NodeIds(f) /\ t.targets[2] \in NodeIds(f)
      BY <1>1, <2>4 DEF HasItsOperands
    <3>2. ASSUME NEW y \in SparseStates(f, d)
          PROVE  ChosenTargets(y, t) = BranchTargets(y, y.facts[v], t.targets) /\ y.domain = d
      BY <2>4 DEF ChosenTargets, SparseStates
    <3> HIDE DEF v
    <3>3. BranchTargets(s, fact, t.targets) \in Seq(NodeIds(f))
      <4> HIDE DEF fact
      <4> DEFINE m == t.targets[1]
                 n == t.targets[2]
      <4>1. \/ BranchTargets(s, fact, t.targets) = <<>>
            \/ BranchTargets(s, fact, t.targets) = t.targets
            \/ BranchTargets(s, fact, t.targets) = <<m>>
            \/ BranchTargets(s, fact, t.targets) = <<n>>
        BY DEF BranchTargets
      <4>2. m \in NodeIds(f) /\ n \in NodeIds(f)
        BY <3>1
      <4> HIDE DEF m, n
      <4>3. <<m>> \in Seq(NodeIds(f)) /\ <<n>> \in Seq(NodeIds(f))
        BY <4>2
      <4> DEFINE r == BranchTargets(s, fact, t.targets)
                 u == t.targets
      <4>4. u \in Seq(NodeIds(f)) /\ (r = <<>> \/ r = u \/ r = <<m>> \/ r = <<n>>)
        BY <1>1, <4>1
      <4> HIDE DEF r, u
      <4>5. <<>> \in Seq(NodeIds(f))
        OBVIOUS
      <4> QED  BY <4>3, <4>4, <4>5 DEF r
    <3>4. \A y \in SparseStates(f, d) :
            y.facts[v] = s.facts[v] => ChosenTargets(y, t) = ChosenTargets(s, t)
      BY <1>1, <3>2 DEF BranchTargets
    <3> QED  BY <2>2, <3>2, <3>3, <3>4
  <2>5. CASE t.op = "switch"
    <3>1. \A n \in Int : SwitchTarget(t.targets, n) \in NodeIds(f)
      <4>1. t.targets # <<>>
        BY <2>5 DEF HasItsOperands
      <4> QED  BY <1>1, <4>1 DEF SwitchTarget, Last
    <3> DEFINE Decides(z) == IsConstant(z) /\ (d = "ranges" => ValueOf(z) >= 0)
    <3>2. ASSUME NEW y \in SparseStates(f, d)
          PROVE  ChosenTargets(y, t) = IF Decides(y.facts[v])
                                       THEN <<SwitchTarget(t.targets, ValueOf(y.facts[v]))>> ELSE t.targets
      BY <2>5 DEF ChosenTargets, SparseStates
    <3> HIDE DEF v
    <3>3. Decides(fact) => ValueOf(fact) \in Int
      <4> HIDE DEF fact
      <4> QED  BY <2>3, ConstantValue
    <3> HIDE DEF Decides
    <3>4. ChosenTargets(s, t) \in Seq(NodeIds(f))
      <4>1. ChosenTargets(s, t) = IF Decides(fact) THEN <<SwitchTarget(t.targets, ValueOf(fact))>>
                                  ELSE t.targets
        BY <3>2
      <4> HIDE DEF fact
      <4>2. Decides(fact) => SwitchTarget(t.targets, ValueOf(fact)) \in NodeIds(f)
        BY <3>1, <3>3
      <4> DEFINE n == SwitchTarget(t.targets, ValueOf(fact))
      <4> HIDE DEF n
      <4>3. n \in NodeIds(f) => <<n>> \in Seq(NodeIds(f))
        OBVIOUS
      <4> QED  BY <1>1, <4>1, <4>2, <4>3 DEF n
    <3> QED  BY <2>2, <3>2, <3>4
  <2> QED  BY <1>3, <2>4, <2>5
<1> QED  BY <1>2, <1>3 DEF IsTerminator

-----------------------------------------------------------------------------
(* The invariant of a propagation *)

Waits(s, vs) == vs \cap ToSet(s.variables) # {}

(* What is known of an argument: nothing.  Of the variables the entry defines,
   the constants say so of the arguments only. *)
AnyFact(d) == IF d = "constants" THEN Bottom ELSE Top
Inputs(f, d) ==
    f.initial.supplied \cap (IF d = "constants" THEN f.initial.arguments ELSE f.initial.supplied)

(* The fact of a definition accounts for what the definition evaluates to, or
   an operand of it waits. *)
DefHolds(s, open, b, i) ==
    \/ i.dest = Nil \/ Settled(s, i.dest, Evaluate(s, i))
    \/ Waits(s, ToSet(i.args)) \/ <<b, i>> \in open

(* The same of a phi, and its operands of executable edges. *)
PhiHolds(s, open, b, phi) ==
    \/ Settled(s, phi.result, EvaluatePhi(s, phi, b))
    \/ \E o \in ToSet(phi.operands) : <<o.pred, b>> \in s.edges /\ o.value \in ToSet(s.variables)
    \/ b \in s.blocks /\ <<b, phi>> \in open

(* The edges a terminator chooses are executable or queued. *)
Found(s) == s.edges \cup ToSet(s.flow)
EdgeHolds(f, s, open, b) ==
    \/ \A c \in ToSet(ChosenTargets(s, Terminator(f, b))) : <<b, c>> \in Found(s)
    \/ Waits(s, ToSet(Terminator(f, b).args)) \/ b \in open

DefsHold(f, s, open) == \A b \in s.blocks : \A i \in ToSet(f.body[b]) : DefHolds(s, open, b, i)
PhisHold(f, s, open) == \A b \in NodeIds(f) : \A phi \in ToSet(f.phis[b]) : PhiHolds(s, open, b, phi)
EdgesHold(f, s, open) == \A b \in s.blocks : EdgeHolds(f, s, open, b)

(* ranges.rs takes every edge that leaves the entry. *)
EntryHolds(f, d, s) == d = "ranges" => \A c \in ToSet(Terminator(f, 0).targets) : <<0, c>> \in Found(s)

(* What a step has still to revise are the definitions `defs`, the phis `joins`
   and the terminators of the blocks `late`. *)
SparseInv(f, d, s, defs, joins, late) ==
    /\ s \in SparseStates(f, d) /\ 0 \in s.blocks
    /\ \A e \in s.edges : e[2] \in s.blocks
    /\ \A v \in Inputs(f, d) : s.facts[v] = AnyFact(d)
    /\ DefsHold(f, s, defs) /\ PhisHold(f, s, joins) /\ EdgesHold(f, s, late)
    /\ EntryHolds(f, d, s)

(* A state with the same facts keeps what holds of a definition, of a phi whose
   operands bring the same, and of a terminator. *)
LEMMA SameFacts ==
  ASSUME NEW f, IsExecutable(f), NEW d \in Domains,
         NEW s \in SparseStates(f, d), NEW y \in SparseStates(f, d),
         y.facts = s.facts, y.revisions = s.revisions, y.variables = s.variables,
         NEW b \in NodeIds(f)
  PROVE  /\ \A open : \A i \in ToSet(f.body[b]) : DefHolds(s, open, b, i) => DefHolds(y, open, b, i)
         /\ s.edges \subseteq y.edges /\ (b \in s.blocks => b \in y.blocks) =>
              \A open : \A phi \in ToSet(f.phis[b]) :
                 (\A o \in ToSet(phi.operands) :
                     /\ <<o.pred, b>> \in y.edges <=> <<o.pred, b>> \in s.edges
                     /\ <<o.pred, b>> \in s.edges =>
                           (<<o.pred, b>> \in y.back <=> <<o.pred, b>> \in s.back))
                 => (PhiHolds(s, open, b, phi) => PhiHolds(y, open, b, phi))
         /\ ChosenTargets(y, Terminator(f, b)) = ChosenTargets(s, Terminator(f, b))
         /\ Found(s) \subseteq Found(y) =>
              \A open : EdgeHolds(f, s, open, b) => EdgeHolds(f, y, open, b)
<1>1. s.domain = d /\ y.domain = d
  BY DEF SparseStates
<1>2. \A v, new : Settled(y, v, new) = Settled(s, v, new)
  BY <1>1 DEF Settled
<1>3. \A vs : Waits(y, vs) = Waits(s, vs)
  BY DEF Waits
<1>4. ASSUME NEW open, NEW i \in ToSet(f.body[b]), DefHolds(s, open, b, i) PROVE DefHolds(y, open, b, i)
  <2>1. CASE i.dest = Nil
    BY <2>1 DEF DefHolds
  <2>2. CASE i.dest # Nil
    <3>1. i \in InstructionSet(f) /\ i.op \in ValueOps
      BY <2>2, InstructionFacts
    <3>2. Evaluate(y, i) = Evaluate(s, i)
      BY <3>1, EvaluateFacts
    <3> QED  BY <1>2, <1>3, <1>4, <3>2 DEF DefHolds
  <2> QED  BY <2>1, <2>2
<1>5. ASSUME s.edges \subseteq y.edges, b \in s.blocks => b \in y.blocks,
             NEW open, NEW phi \in ToSet(f.phis[b]), PhiHolds(s, open, b, phi),
             \A o \in ToSet(phi.operands) :
                     /\ <<o.pred, b>> \in y.edges <=> <<o.pred, b>> \in s.edges
                     /\ <<o.pred, b>> \in s.edges =>
                           (<<o.pred, b>> \in y.back <=> <<o.pred, b>> \in s.back)
      PROVE  PhiHolds(y, open, b, phi)
  <2>1. phi \in PhiSet(f)
    BY InstructionFacts
  <2>2. EvaluatePhi(y, phi, b) = EvaluatePhi(s, phi, b)
    BY <1>5, <2>1, EvaluatePhiFacts
  <2> QED  BY <1>2, <1>5, <2>2 DEF PhiHolds
<1> DEFINE t == Terminator(f, b)
<1>6. ChosenTargets(y, t) = ChosenTargets(s, t)
  <2>1. t \in ToSet(f.body[b]) /\ IsTerminator(t)
    BY InstructionFacts
  <2> HIDE DEF t
  <2>2. t \in InstructionSet(f) /\ HasItsOperands(t)
    BY <2>1, InstructionFacts
  <2> QED  BY <2>1, <2>2, ChosenFacts
<1>7. Found(s) \subseteq Found(y) =>
         \A open : EdgeHolds(f, s, open, b) => EdgeHolds(f, y, open, b)
  BY <1>3, <1>6 DEF EdgeHolds
<1> QED  BY <1>4, <1>5, <1>6, <1>7

(* Revising a variable disturbs nothing but what defines it. *)
LEMMA ReviseKeeps ==
  ASSUME NEW f, IsExecutable(f), NEW d \in Domains, NEW s, NEW defs, NEW joins, NEW late,
         SparseInv(f, d, s, defs, joins, late),
         NEW v \in Variables(f) \ f.initial.supplied, NEW new \in FactsOf(d)
  PROVE  LET y == Revise(s, v, new)
         IN  /\ y \in SparseStates(f, d) /\ Settled(y, v, new)
             /\ \A u \in Variables(f) : y.facts[u] = s.facts[u] \/ u \in ToSet(y.variables)
             /\ y.blocks = s.blocks /\ y.edges = s.edges /\ y.flow = s.flow /\ y.back = s.back
             /\ \A b \in s.blocks : \A i \in ToSet(f.body[b]) : i.dest # v => DefHolds(y, defs, b, i)
             /\ \A b \in NodeIds(f) : \A phi \in ToSet(f.phis[b]) :
                   phi.result # v => PhiHolds(y, joins, b, phi)
             /\ EdgesHold(f, y, late) /\ EntryHolds(f, d, y)
             /\ \A u \in Inputs(f, d) : y.facts[u] = AnyFact(d)
<1> DEFINE y == Revise(s, v, new)
<1>1. s \in SparseStates(f, d) /\ s.blocks \subseteq NodeIds(f) /\ v \in Variables(f)
  BY DEF SparseInv, SparseStates
<1>2. /\ y \in SparseStates(f, d) /\ Settled(y, v, new)
      /\ \A u \in Variables(f) \ {v} : y.facts[u] = s.facts[u] /\ y.revisions[u] = s.revisions[u]
      /\ y.facts[v] = s.facts[v] \/ v \in ToSet(y.variables)
      /\ ToSet(s.variables) \subseteq ToSet(y.variables)
      /\ y.edges = s.edges /\ y.blocks = s.blocks /\ y.flow = s.flow /\ y.back = s.back
  BY <1>1, ReviseFacts
<1> HIDE DEF y
<1>3. s.domain = d /\ y.domain = d /\ Found(y) = Found(s)
  BY <1>1, <1>2 DEF SparseStates, Found
<1>4. \A u \in Variables(f) : y.facts[u] = s.facts[u] \/ u \in ToSet(y.variables)
  BY <1>2
<1>5. ASSUME NEW vs \in SUBSET Variables(f), ~Waits(y, vs)
      PROVE  ~Waits(s, vs) /\ \A u \in vs : y.facts[u] = s.facts[u]
  BY <1>2, <1>4, <1>5 DEF Waits
<1>6. \A u \in Variables(f) \ {v} : \A x : Settled(y, u, x) = Settled(s, u, x)
  BY <1>2, <1>3 DEF Settled
<1>7. ASSUME NEW b \in s.blocks, NEW i \in ToSet(f.body[b]), i.dest # v PROVE DefHolds(y, defs, b, i)
  <2> SUFFICES ASSUME i.dest # Nil, ~Waits(y, ToSet(i.args)), <<b, i>> \notin defs
               PROVE  Settled(y, i.dest, Evaluate(y, i))
    BY DEF DefHolds
  <2>1. /\ i \in InstructionSet(f) /\ i.op \in ValueOps /\ i.dest \in Variables(f)
        /\ ToSet(i.args) \in SUBSET Variables(f)
    BY <1>1, InstructionFacts
  <2>2. ~Waits(s, ToSet(i.args)) /\ \A u \in ToSet(i.args) : y.facts[u] = s.facts[u]
    BY <1>5, <2>1
  <2>3. Settled(s, i.dest, Evaluate(s, i))
    BY <2>2 DEF SparseInv, DefsHold, DefHolds
  <2>4. Evaluate(y, i) = Evaluate(s, i)
    BY <1>1, <1>2, <2>1, <2>2, EvaluateFacts
  <2> QED  BY <1>6, <1>7, <2>1, <2>3, <2>4
<1>8. ASSUME NEW b \in NodeIds(f), NEW phi \in ToSet(f.phis[b]), phi.result # v
      PROVE  PhiHolds(y, joins, b, phi)
  <2> SUFFICES ASSUME \A o \in ToSet(phi.operands) :
                         <<o.pred, b>> \in s.edges => o.value \notin ToSet(y.variables),
                      ~(b \in s.blocks /\ <<b, phi>> \in joins)
               PROVE  Settled(y, phi.result, EvaluatePhi(y, phi, b))
    BY <1>2 DEF PhiHolds
  <2>1. /\ phi \in PhiSet(f) /\ phi.result \in Variables(f)
        /\ \A o \in ToSet(phi.operands) : o.value \in Variables(f)
    BY InstructionFacts DEF PhiSet
  <2>2. \A o \in ToSet(phi.operands) : <<o.pred, b>> \in s.edges =>
           o.value \notin ToSet(s.variables) /\ y.facts[o.value] = s.facts[o.value]
    BY <1>2, <1>4, <2>1
  <2>3. Settled(s, phi.result, EvaluatePhi(s, phi, b))
    BY <2>2 DEF SparseInv, PhisHold, PhiHolds
  <2>4. EvaluatePhi(y, phi, b) = EvaluatePhi(s, phi, b)
    BY <1>1, <1>2, <2>1, <2>2, EvaluatePhiFacts
  <2> QED  BY <1>6, <1>8, <2>1, <2>3, <2>4
<1>9. EdgesHold(f, y, late)
  <2> SUFFICES ASSUME NEW b \in s.blocks, ~Waits(y, ToSet(Terminator(f, b).args)), b \notin late,
                      NEW c \in ToSet(ChosenTargets(y, Terminator(f, b)))
               PROVE  <<b, c>> \in Found(s)
    BY <1>2, <1>3 DEF EdgesHold, EdgeHolds
  <2> DEFINE t == Terminator(f, b)
  <2>1. t \in ToSet(f.body[b]) /\ IsTerminator(t)
    BY <1>1, InstructionFacts
  <2> HIDE DEF t
  <2>2. t \in InstructionSet(f) /\ HasItsOperands(t) /\ ToSet(t.args) \in SUBSET Variables(f)
    BY <1>1, <2>1, InstructionFacts
  <2>3. ~Waits(s, ToSet(t.args)) /\ \A u \in ToSet(t.args) : y.facts[u] = s.facts[u]
    BY <1>5, <2>2 DEF t
  <2>4. ChosenTargets(y, t) = ChosenTargets(s, t)
    BY <1>1, <1>2, <2>1, <2>2, <2>3, ChosenFacts
  <2> QED  BY <2>3, <2>4 DEF SparseInv, EdgesHold, EdgeHolds, t
<1>10. EntryHolds(f, d, y)
  BY <1>3 DEF SparseInv, EntryHolds
<1>11. \A u \in Inputs(f, d) : y.facts[u] = AnyFact(d)
  <2>1. Inputs(f, d) \subseteq Variables(f) \ {v}
    BY DEF Variables, Inputs
  <2> QED  BY <1>2, <2>1 DEF SparseInv
<1> QED  BY <1>2, <1>4, <1>7, <1>8, <1>9, <1>10, <1>11 DEF y

-----------------------------------------------------------------------------
(* What each part of a step settles *)

(* What holds of a definition, a phi or a terminator that may be open, holds
   where more is. *)
LEMMA LessOpen ==
  ASSUME NEW f, NEW d, NEW s, NEW defs, NEW joins, NEW late, SparseInv(f, d, s, defs, joins, late),
         NEW defs2, NEW joins2, NEW late2,
         \A b \in s.blocks : \A i \in ToSet(f.body[b]) :
            <<b, i>> \in defs /\ i.dest # Nil => <<b, i>> \in defs2,
         \A b \in s.blocks : \A phi \in ToSet(f.phis[b]) : <<b, phi>> \in joins => <<b, phi>> \in joins2,
         \A b \in s.blocks : b \in late => b \in late2
  PROVE  SparseInv(f, d, s, defs2, joins2, late2)
<1>1. DefsHold(f, s, defs2)
  BY DEF SparseInv, DefsHold, DefHolds
<1>2. PhisHold(f, s, joins2)
  BY DEF SparseInv, PhisHold, PhiHolds
<1>3. EdgesHold(f, s, late2)
  BY DEF SparseInv, EdgesHold, EdgeHolds
<1> QED  BY <1>1, <1>2, <1>3 DEF SparseInv

(* No two places define a variable. *)
LEMMA OneDefinition ==
  ASSUME NEW f, IsExecutable(f), IsSingleAssignment(f), NEW b \in NodeIds(f), NEW c \in NodeIds(f)
  PROVE  /\ \A i \in ToSet(f.body[b]), j \in ToSet(f.body[c]) :
               i.dest = j.dest /\ i.dest # Nil => b = c /\ i = j
         /\ \A phi \in ToSet(f.phis[b]), q \in ToSet(f.phis[c]) :
               phi.result = q.result => b = c /\ phi = q
         /\ \A phi \in ToSet(f.phis[b]), i \in ToSet(f.body[c]) :
               phi.result = i.dest => i.dest = Nil
         /\ \A phi \in ToSet(f.phis[b]) : phi.result \notin f.initial.supplied
         /\ \A i \in ToSet(f.body[b]) : i.dest # Nil => i.dest \notin f.initial.supplied
<1>1. /\ \A k \in DOMAIN f.body[b], l \in DOMAIN f.body[c] :
            f.body[b][k].dest = f.body[c][l].dest /\ f.body[b][k].dest # Nil => b = c /\ k = l
      /\ \A k \in DOMAIN f.phis[b], l \in DOMAIN f.phis[c] :
            f.phis[b][k].result = f.phis[c][l].result => b = c /\ k = l
      /\ PhiResults(f, b) \cap Dests(f, c) = {}
      /\ f.initial.supplied \cap DefinedIn(f, b) = {}
  BY DEF IsSingleAssignment
<1>2. ASSUME NEW i \in ToSet(f.body[b]), NEW j \in ToSet(f.body[c]), i.dest = j.dest, i.dest # Nil
      PROVE  b = c /\ i = j
  <2>1. PICK k \in DOMAIN f.body[b], l \in DOMAIN f.body[c] : i = f.body[b][k] /\ j = f.body[c][l]
    BY DEF ToSet
  <2> QED  BY <1>1, <1>2, <2>1
<1>3. ASSUME NEW phi \in ToSet(f.phis[b]), NEW q \in ToSet(f.phis[c]), phi.result = q.result
      PROVE  b = c /\ phi = q
  <2>1. PICK k \in DOMAIN f.phis[b], l \in DOMAIN f.phis[c] : phi = f.phis[b][k] /\ q = f.phis[c][l]
    BY DEF ToSet
  <2> QED  BY <1>1, <1>3, <2>1
<1>4. ASSUME NEW phi \in ToSet(f.phis[b])
      PROVE  /\ phi.result \notin f.initial.supplied
             /\ \A i \in ToSet(f.body[c]) : phi.result = i.dest => i.dest = Nil
  <2>1. phi.result \in PhiResults(f, b)
    BY DEF PhiResults
  <2> QED  BY <1>1, <2>1 DEF Dests, DefinedIn
<1>5. ASSUME NEW i \in ToSet(f.body[b]), i.dest # Nil PROVE i.dest \notin f.initial.supplied
  BY <1>1, <1>5 DEF Dests, DefinedIn
<1> QED  BY <1>2, <1>3, <1>4, <1>5

(* Revising a definition settles it. *)
LEMMA DefinitionCore ==
  ASSUME NEW f, IsExecutable(f), IsSingleAssignment(f), NEW d \in Domains,
         NEW s, NEW defs, NEW joins, NEW late, SparseInv(f, d, s, defs, joins, late),
         NEW c \in NodeIds(f), NEW i \in ToSet(f.body[c])
  PROVE  LET y == ReviseDefinition(s, i)
         IN  /\ SparseInv(f, d, y, {x \in defs : x[2] # i}, joins, late)
             /\ y.blocks = s.blocks /\ y.edges = s.edges /\ y.flow = s.flow /\ y.back = s.back
<1> DEFINE y == ReviseDefinition(s, i)
           D == {x \in defs : x[2] # i}
<1>1. s \in SparseStates(f, d) /\ s.blocks \subseteq NodeIds(f)
  BY DEF SparseInv, SparseStates
<1>2. CASE i.dest = Nil
  <2>1. y = s
    BY <1>2 DEF ReviseDefinition
  <2>2. \A b \in s.blocks : \A j \in ToSet(f.body[b]) :
            <<b, j>> \in defs /\ j.dest # Nil => <<b, j>> \in D
    BY <1>2
  <2> HIDE DEF D
  <2>3. SparseInv(f, d, s, D, joins, late)
    BY <2>2, LessOpen
  <2> QED  BY <2>1, <2>3 DEF D
<1>3. CASE i.dest # Nil
  <2> DEFINE v == i.dest
             new == Evaluate(s, i)
  <2>1. /\ i \in InstructionSet(f) /\ i.op \in ValueOps /\ v \in Variables(f)
        /\ ToSet(i.args) \in SUBSET Variables(f)
    BY <1>3, InstructionFacts
  <2>2. v \in Variables(f) \ f.initial.supplied
    BY <1>3, <2>1, OneDefinition
  <2>3. new \in FactsOf(d)
    BY <1>1, <2>1, EvaluateFacts
  <2>4. y = Revise(s, v, new)
    BY <1>3 DEF ReviseDefinition
  <2> HIDE DEF y, new, D
  <2>5. /\ y \in SparseStates(f, d) /\ Settled(y, v, new)
        /\ \A u \in Variables(f) : y.facts[u] = s.facts[u] \/ u \in ToSet(y.variables)
        /\ y.blocks = s.blocks /\ y.edges = s.edges /\ y.flow = s.flow /\ y.back = s.back
        /\ \A b \in s.blocks : \A j \in ToSet(f.body[b]) : j.dest # v => DefHolds(y, defs, b, j)
        /\ \A b \in NodeIds(f) : \A phi \in ToSet(f.phis[b]) :
              phi.result # v => PhiHolds(y, joins, b, phi)
        /\ EdgesHold(f, y, late) /\ EntryHolds(f, d, y)
        /\ \A u \in Inputs(f, d) : y.facts[u] = AnyFact(d)
    <3> HIDE DEF v
    <3> QED  BY <2>2, <2>3, <2>4, ReviseKeeps
  <2>6. DefHolds(y, D, c, i)
    <3>1. CASE \A u \in ToSet(i.args) : y.facts[u] = s.facts[u]
      <4>1. Evaluate(y, i) = new
        BY <1>1, <2>1, <2>5, <3>1, EvaluateFacts DEF new
      <4> QED  BY <2>5, <4>1 DEF DefHolds
    <3>2. CASE ~(\A u \in ToSet(i.args) : y.facts[u] = s.facts[u])
      BY <2>1, <2>5, <3>2 DEF DefHolds, Waits
    <3> QED  BY <3>1, <3>2
  <2>7. ASSUME NEW b \in s.blocks, NEW j \in ToSet(f.body[b]) PROVE DefHolds(y, D, b, j)
    <3>1. CASE j.dest = v
      <4>1. b = c /\ j = i
        BY <1>1, <1>3, <3>1, OneDefinition
      <4> QED  BY <2>6, <4>1
    <3>2. CASE j.dest # v
      <4>1. DefHolds(y, defs, b, j)
        BY <2>5, <3>2
      <4>2. <<b, j>> \in defs => <<b, j>> \in D
        BY <3>2 DEF D
      <4> QED  BY <4>1, <4>2 DEF DefHolds
    <3> QED  BY <3>1, <3>2
  <2>8. \A b \in NodeIds(f) : \A phi \in ToSet(f.phis[b]) : PhiHolds(y, joins, b, phi)
    <3>1. \A b \in NodeIds(f) : \A phi \in ToSet(f.phis[b]) : phi.result # v
      BY <1>3, OneDefinition
    <3> QED  BY <2>5, <3>1
  <2>9. 0 \in y.blocks /\ \A e \in y.edges : e[2] \in y.blocks
    BY <2>5 DEF SparseInv
  <2>10. SparseInv(f, d, y, D, joins, late)
    BY <2>5, <2>7, <2>8, <2>9 DEF SparseInv, DefsHold, PhisHold
  <2> QED  BY <2>5, <2>10 DEF y, D
<1> QED  BY <1>2, <1>3

(* Revising a phi of an entered block settles it. *)
LEMMA JoinCore ==
  ASSUME NEW f, IsExecutable(f), IsSingleAssignment(f), NEW d \in Domains,
         NEW s, NEW defs, NEW joins, NEW late, SparseInv(f, d, s, defs, joins, late),
         NEW c \in s.blocks, NEW phi \in ToSet(f.phis[c])
  PROVE  LET y == RevisePhi(s, phi, c)
         IN  /\ SparseInv(f, d, y, defs, joins \ {<<c, phi>>}, late)
             /\ y.blocks = s.blocks /\ y.edges = s.edges /\ y.flow = s.flow /\ y.back = s.back
<1> DEFINE y == RevisePhi(s, phi, c)
           v == phi.result
           new == EvaluatePhi(s, phi, c)
           J == joins \ {<<c, phi>>}
<1>1. s \in SparseStates(f, d) /\ s.blocks \subseteq NodeIds(f) /\ c \in NodeIds(f)
  BY DEF SparseInv, SparseStates
<1>2. /\ phi \in PhiSet(f) /\ v \in Variables(f)
      /\ \A o \in ToSet(phi.operands) : o.value \in Variables(f)
  BY <1>1, InstructionFacts DEF PhiSet
<1>3. v \in Variables(f) \ f.initial.supplied
  BY <1>1, <1>2, OneDefinition
<1>4. new \in FactsOf(d)
  BY <1>1, <1>2, EvaluatePhiFacts
<1>5. y = Revise(s, v, new)
  BY DEF RevisePhi
<1> HIDE DEF y, new, J
<1>6. /\ y \in SparseStates(f, d) /\ Settled(y, v, new)
      /\ \A u \in Variables(f) : y.facts[u] = s.facts[u] \/ u \in ToSet(y.variables)
      /\ y.blocks = s.blocks /\ y.edges = s.edges /\ y.flow = s.flow /\ y.back = s.back
      /\ \A b \in s.blocks : \A i \in ToSet(f.body[b]) : i.dest # v => DefHolds(y, defs, b, i)
      /\ \A b \in NodeIds(f) : \A q \in ToSet(f.phis[b]) :
            q.result # v => PhiHolds(y, joins, b, q)
      /\ EdgesHold(f, y, late) /\ EntryHolds(f, d, y)
      /\ \A u \in Inputs(f, d) : y.facts[u] = AnyFact(d)
  <2> HIDE DEF v
  <2> QED  BY <1>3, <1>4, <1>5, ReviseKeeps
<1>7. PhiHolds(y, J, c, phi)
  <2>1. CASE \A o \in ToSet(phi.operands) :
                <<o.pred, c>> \in s.edges => y.facts[o.value] = s.facts[o.value]
    <3>1. EvaluatePhi(y, phi, c) = new
      BY <1>1, <1>2, <1>6, <2>1, EvaluatePhiFacts DEF new
    <3> QED  BY <1>6, <3>1 DEF PhiHolds
  <2>2. CASE ~(\A o \in ToSet(phi.operands) :
                <<o.pred, c>> \in s.edges => y.facts[o.value] = s.facts[o.value])
    BY <1>2, <1>6, <2>2 DEF PhiHolds
  <2> QED  BY <2>1, <2>2
<1>8. ASSUME NEW b \in NodeIds(f), NEW q \in ToSet(f.phis[b]) PROVE PhiHolds(y, J, b, q)
  <2>1. CASE q.result = v
    <3>1. b = c /\ q = phi
      BY <1>1, <2>1, OneDefinition
    <3> QED  BY <1>7, <3>1
  <2>2. CASE q.result # v
    <3>1. PhiHolds(y, joins, b, q)
      BY <1>6, <2>2
    <3>2. <<b, q>> \in joins => <<b, q>> \in J
      BY <2>2 DEF J
    <3> QED  BY <3>1, <3>2 DEF PhiHolds
  <2> QED  BY <2>1, <2>2
<1>9. \A b \in s.blocks : \A i \in ToSet(f.body[b]) : DefHolds(y, defs, b, i)
  <2> SUFFICES ASSUME NEW b \in s.blocks, NEW i \in ToSet(f.body[b]) PROVE DefHolds(y, defs, b, i)
    OBVIOUS
  <2>1. i.dest = v => i.dest = Nil
    BY <1>1, OneDefinition
  <2> QED  BY <1>6, <2>1 DEF DefHolds
<1>10. 0 \in y.blocks /\ \A e \in y.edges : e[2] \in y.blocks
  BY <1>6 DEF SparseInv
<1>11. SparseInv(f, d, y, defs, J, late)
  BY <1>6, <1>8, <1>9, <1>10 DEF SparseInv, DefsHold, PhisHold
<1> QED  BY <1>6, <1>11 DEF y, J

(* add_cfg_edge: more edges are queued, and nothing else changes. *)
LEMMA AddCore ==
  ASSUME NEW f, IsExecutable(f), NEW d \in Domains, NEW s, NEW defs, NEW joins, NEW late,
         s \in SparseStates(f, d), NEW c \in NodeIds(f), NEW targets \in Seq(NodeIds(f))
  PROVE  LET y == AddEdges(s, c, targets)
         IN  /\ y \in SparseStates(f, d)
             /\ y.facts = s.facts /\ y.revisions = s.revisions /\ y.variables = s.variables
             /\ y.blocks = s.blocks /\ y.edges = s.edges /\ y.back = s.back
             /\ Found(s) \subseteq Found(y)
             /\ \A b \in ToSet(targets) : <<c, b>> \in Found(y)
             /\ SparseInv(f, d, s, defs, joins, late) => SparseInv(f, d, y, defs, joins, late)
<1> DEFINE y == AddEdges(s, c, targets)
           edges == [k \in DOMAIN targets |-> <<c, targets[k]>>]
           E == NodeIds(f) \X NodeIds(f)
           more == Keep(edges, ToSet(edges) \ s.edges)
<1>1. s.flow \in Seq(E)
  BY DEF SparseStates
<1>2. y = [s EXCEPT !.flow = s.flow \o more]
  BY DEF AddEdges
<1>3. edges \in Seq(E) /\ ToSet(edges) = {<<c, b>> : b \in ToSet(targets)}
  <2>1. DOMAIN edges = DOMAIN targets /\ DOMAIN targets = 1 .. Len(targets)
    OBVIOUS
  <2>2. \A k \in DOMAIN targets : edges[k] \in E /\ edges[k] = <<c, targets[k]>>
    OBVIOUS
  <2>3. edges \in Seq(E)
    BY <2>2
  <2> QED  BY <2>1, <2>2, <2>3 DEF ToSet
<1>4. more \in Seq(E) /\ ToSet(more) = ToSet(edges) \ s.edges
  <2> DEFINE S == ToSet(edges) \ s.edges
  <2>1. ToSet(edges) \cap S = S
    OBVIOUS
  <2> HIDE DEF edges, S, E
  <2>2. Keep(edges, S) \in Seq(E \cap S) /\ ToSet(Keep(edges, S)) = ToSet(edges) \cap S
    BY <1>3, KeepFacts
  <2>3. Keep(edges, S) \in Seq(E)
    BY <2>2
  <2> QED  BY <2>1, <2>2, <2>3 DEF S
<1> DEFINE w == s.flow
<1>5. w \o more \in Seq(E) /\ ToSet(w \o more) = ToSet(w) \cup ToSet(more)
  <2>1. w \in Seq(E)
    BY <1>1
  <2>2. more \in Seq(E)
    BY <1>4
  <2> HIDE DEF w, more, E
  <2> QED  BY ONLY <2>1, <2>2, ConcatElements
<1> HIDE DEF more
<1>6. /\ y \in SparseStates(f, d) /\ y.flow = w \o more
      /\ y.facts = s.facts /\ y.revisions = s.revisions /\ y.variables = s.variables
      /\ y.blocks = s.blocks /\ y.edges = s.edges /\ y.back = s.back
  <2> HIDE DEF y, E
  <2>1. w \o more \in Seq(NodeIds(f) \X NodeIds(f))
    BY <1>5 DEF E
  <2> QED  BY <1>2, <2>1 DEF SparseStates
<1> HIDE DEF y
<1>7. Found(s) \subseteq Found(y)
  BY <1>5, <1>6 DEF Found
<1>8. \A b \in ToSet(targets) : <<c, b>> \in Found(y)
  <2> HIDE DEF edges
  <2>1. \A b \in ToSet(targets) : <<c, b>> \in ToSet(edges)
    BY <1>3
  <2> QED  BY <1>4, <1>5, <1>6, <2>1 DEF Found
<1>9. ASSUME SparseInv(f, d, s, defs, joins, late) PROVE SparseInv(f, d, y, defs, joins, late)
  <2>1. s.blocks \subseteq NodeIds(f)
    BY DEF SparseStates
  <2>2. ASSUME NEW b \in NodeIds(f)
        PROVE  /\ \A i \in ToSet(f.body[b]) : DefHolds(s, defs, b, i) => DefHolds(y, defs, b, i)
               /\ \A phi \in ToSet(f.phis[b]) : PhiHolds(s, joins, b, phi) => PhiHolds(y, joins, b, phi)
               /\ EdgeHolds(f, s, late, b) => EdgeHolds(f, y, late, b)
    BY <1>6, <1>7, SameFacts
  <2>3. DefsHold(f, y, defs) /\ PhisHold(f, y, joins) /\ EdgesHold(f, y, late)
    BY <1>6, <1>9, <2>1, <2>2 DEF SparseInv, DefsHold, PhisHold, EdgesHold
  <2>4. EntryHolds(f, d, y)
    BY <1>7, <1>9 DEF SparseInv, EntryHolds
  <2> QED  BY <1>6, <1>9, <2>3, <2>4 DEF SparseInv
<1> QED  BY <1>6, <1>7, <1>8, <1>9 DEF y

(* Queueing the edges a terminator chooses settles it. *)
LEMMA LeaveCore ==
  ASSUME NEW f, IsExecutable(f), NEW d \in Domains, NEW s, NEW defs, NEW joins, NEW late,
         SparseInv(f, d, s, defs, joins, late), NEW c \in NodeIds(f)
  PROVE  LET y == PropagateOutgoing(s, f, c)
         IN  /\ SparseInv(f, d, y, defs, joins, late \ {c})
             /\ y.blocks = s.blocks /\ y.edges = s.edges /\ y.back = s.back
<1> DEFINE t == Terminator(f, c)
           targets == ChosenTargets(s, t)
           y == AddEdges(s, c, targets)
<1>1. s \in SparseStates(f, d)
  BY DEF SparseInv
<1>2. targets \in Seq(NodeIds(f))
  <2>1. t \in ToSet(f.body[c]) /\ IsTerminator(t)
    BY InstructionFacts
  <2>2. t \in InstructionSet(f) /\ HasItsOperands(t)
    <3> HIDE DEF t
    <3> QED  BY <2>1, InstructionFacts
  <2> HIDE DEF t
  <2> QED  BY <1>1, <2>1, <2>2, ChosenFacts
<1>3. y = PropagateOutgoing(s, f, c)
  BY DEF PropagateOutgoing
<1>4. /\ SparseInv(f, d, y, defs, joins, late) /\ y \in SparseStates(f, d)
      /\ y.facts = s.facts /\ y.revisions = s.revisions /\ y.variables = s.variables
      /\ y.blocks = s.blocks /\ y.edges = s.edges /\ y.back = s.back
      /\ \A b \in ToSet(targets) : <<c, b>> \in Found(y)
  <2> HIDE DEF targets
  <2> QED  BY <1>1, <1>2, AddCore
<1> HIDE DEF y
<1>5. ChosenTargets(y, t) = targets
  BY <1>1, <1>4, SameFacts
<1>6. EdgesHold(f, y, late \ {c})
  <2>1. EdgesHold(f, y, late)
    BY <1>4 DEF SparseInv
  <2>2. EdgeHolds(f, y, late \ {c}, c)
    BY <1>4, <1>5 DEF EdgeHolds
  <2> QED  BY <2>1, <2>2 DEF EdgesHold, EdgeHolds
<1>7. SparseInv(f, d, y, defs, joins, late \ {c})
  BY <1>4, <1>6 DEF SparseInv
<1> QED  BY <1>3, <1>4, <1>7

(* Revising all definitions of a block settles them. *)
LEMMA DefinitionsCore ==
  ASSUME NEW f, IsExecutable(f), IsSingleAssignment(f), NEW d \in Domains,
         NEW s, NEW defs, NEW joins, NEW late,
         SparseInv(f, d, s, defs, joins, late), NEW c \in NodeIds(f)
  PROVE  LET y == ProcessDefinitions(s, f, c)
         IN  /\ SparseInv(f, d, y, {x \in defs : x[2] \notin ToSet(f.body[c])}, joins, late)
             /\ y.blocks = s.blocks /\ y.edges = s.edges /\ y.flow = s.flow
<1> DEFINE A == {e \in SparseStates(f, d) : /\ SparseInv(f, d, e, defs, joins, late)
                                        /\ e.blocks = s.blocks /\ e.edges = s.edges /\ e.flow = s.flow}
           w == f.body[c]
           Left(k) == {x \in defs : \A j \in 1 .. k : x[2] # w[j]}
           n == Len(w)
           P == [k \in 0 .. n |-> {e \in A : SparseInv(f, d, e, Left(k), joins, late)}]
<1>1. n \in Nat /\ DOMAIN w = 1 .. n /\ w \in Seq(ToSet(w)) /\ \A k \in 1 .. n : w[k] \in ToSet(w)
  <2>1. w \in Seq(InstructionSet(f))
    BY InstructionFacts
  <2> HIDE DEF w
  <2> QED  BY <2>1 DEF ToSet
<1>2. s \in A
  BY DEF SparseInv
<1>3. ASSUME NEW e \in A, NEW y \in ToSet(w) PROVE ReviseDefinition(e, y) \in A
  <2> DEFINE z == ReviseDefinition(e, y)
  <2>1. SparseInv(f, d, e, defs, joins, late)
    OBVIOUS
  <2>2. SparseInv(f, d, z, {x \in defs : x[2] # y}, joins, late) /\ z.blocks = e.blocks /\ z.edges = e.edges /\ z.flow = e.flow
    <3> HIDE DEF A
    <3> QED  BY <2>1, DefinitionCore DEF w
  <2> HIDE DEF z
  <2>3. SparseInv(f, d, z, defs, joins, late)
    BY <2>2, LessOpen
  <2>4. z \in SparseStates(f, d)
    BY <2>3 DEF SparseInv
  <2> QED  BY <2>2, <2>3, <2>4 DEF z
<1>4. P \in [0 .. n -> SUBSET A] /\ s \in P[0]
  <2>1. 0 \in 0 .. n
    BY <1>1
  <2>2. Left(0) = defs
    OBVIOUS
  <2> HIDE DEF A, n, Left, w
  <2> QED  BY <1>2, <2>1, <2>2
<1>5. ASSUME NEW k \in 1 .. n, NEW e \in P[k - 1] PROVE ReviseDefinition(e, w[k]) \in P[k]
  <2> DEFINE z == ReviseDefinition(e, w[k])
  <2>1. k - 1 \in 0 .. n /\ k \in 0 .. n /\ k \in Nat
    BY <1>1
  <2>2. e \in A /\ SparseInv(f, d, e, Left(k - 1), joins, late)
    <3> HIDE DEF A, n, Left, w
    <3> QED  BY <2>1
  <2>3. SparseInv(f, d, z, {x \in Left(k - 1) : x[2] # w[k]}, joins, late)
    <3> HIDE DEF A, P, n, Left, w
    <3> QED  BY <1>1, <2>2, DefinitionCore DEF w
  <2>4. \A j \in 1 .. k : j = k \/ j \in 1 .. k - 1
    BY <2>1
  <2>5. SparseInv(f, d, z, Left(k), joins, late)
    <3> HIDE DEF z, A, P, n
    <3> QED  BY <2>3, <2>4, LessOpen
  <2>6. z \in A
    <3> HIDE DEF A, P, n, Left, w
    <3> QED  BY <1>1, <1>3, <2>2
  <2> HIDE DEF z, A, n, Left, w
  <2>7. z \in P[k]
    BY <2>1, <2>5, <2>6
  <2> QED  BY <2>7 DEF z
<1> DEFINE y == ProcessDefinitions(s, f, c)
<1>6. y \in P[n]
  <2> HIDE DEF A, P, Left, w
  <2>1. FoldLeft(ReviseDefinition, s, w) \in P[Len(w)]
    BY <1>1, <1>2, <1>3, <1>4, <1>5, DefinitionsFold
  <2> QED  BY <2>1 DEF ProcessDefinitions, w, n
<1>7. SparseInv(f, d, y, Left(n), joins, late) /\ y \in A
  <2>1. n \in 0 .. n
    BY <1>1
  <2> HIDE DEF A, n, Left, w, y
  <2> QED  BY <1>6, <2>1
<1>8. SparseInv(f, d, y, {x \in defs : x[2] \notin ToSet(f.body[c])}, joins, late)
  <2>1. \A x \in Left(n) : x[2] \notin ToSet(w)
    BY <1>1 DEF ToSet
  <2> HIDE DEF y, A, P, n
  <2> QED  BY <1>7, <2>1, LessOpen
<1> HIDE DEF y
<1> QED  BY <1>7, <1>8 DEF y

(* Revising the phis of a block settles them. *)
LEMMA JoinsCore ==
  ASSUME NEW f, IsExecutable(f), IsSingleAssignment(f), NEW d \in Domains,
         NEW s, NEW defs, NEW joins, NEW late,
         SparseInv(f, d, s, defs, joins, late), NEW c \in s.blocks,
         NEW w \in Seq(ToSet(f.phis[c]))
  PROVE  LET y == JoinAll(s, c, w)
         IN  /\ SparseInv(f, d, y, defs, {p \in joins : \A phi \in ToSet(w) : p # <<c, phi>>}, late)
             /\ y.blocks = s.blocks /\ y.edges = s.edges /\ y.flow = s.flow
<1> DEFINE A == {e \in SparseStates(f, d) : /\ SparseInv(f, d, e, defs, joins, late)
                                        /\ e.blocks = s.blocks /\ e.edges = s.edges /\ e.flow = s.flow}
           Left(k) == {p \in joins : \A j \in 1 .. k : p # <<c, w[j]>>}
           n == Len(w)
           P == [k \in 0 .. n |-> {e \in A : SparseInv(f, d, e, defs, Left(k), late)}]
<1>1. n \in Nat /\ DOMAIN w = 1 .. n /\ w \in Seq(ToSet(f.phis[c])) /\ \A k \in 1 .. n : w[k] \in ToSet(f.phis[c])
  OBVIOUS
<1>2. s \in A
  BY DEF SparseInv
<1>3. ASSUME NEW e \in A, NEW phi \in ToSet(f.phis[c]) PROVE RevisePhi(e, phi, c) \in A
  <2> DEFINE z == RevisePhi(e, phi, c)
  <2>1. SparseInv(f, d, e, defs, joins, late) /\ c \in e.blocks
    OBVIOUS
  <2>2. SparseInv(f, d, z, defs, joins \ {<<c, phi>>}, late) /\ z.blocks = e.blocks /\ z.edges = e.edges /\ z.flow = e.flow
    <3>1. e.blocks = s.blocks /\ phi \in ToSet(f.phis[c])
      OBVIOUS
    <3>2. PICK x : x = e
      OBVIOUS
    <3> HIDE DEF A, P, Left, n
    <3>3. c \in x.blocks /\ SparseInv(f, d, x, defs, joins, late)
      BY <2>1, <3>2
    <3> QED  BY <3>1, <3>2, <3>3, JoinCore
  <2> HIDE DEF z
  <2>3. SparseInv(f, d, z, defs, joins, late)
    BY <2>2, LessOpen
  <2>4. z \in SparseStates(f, d)
    BY <2>3 DEF SparseInv
  <2> QED  BY <2>2, <2>3, <2>4 DEF z
<1>4. P \in [0 .. n -> SUBSET A] /\ s \in P[0]
  <2>1. 0 \in 0 .. n
    BY <1>1
  <2>2. Left(0) = joins
    OBVIOUS
  <2> HIDE DEF A, n, Left
  <2> QED  BY <1>2, <2>1, <2>2
<1>5. ASSUME NEW k \in 1 .. n, NEW e \in P[k - 1] PROVE RevisePhi(e, w[k], c) \in P[k]
  <2> DEFINE z == RevisePhi(e, w[k], c)
  <2>1. k - 1 \in 0 .. n /\ k \in 0 .. n /\ k \in Nat
    BY <1>1
  <2>2. e \in A /\ SparseInv(f, d, e, defs, Left(k - 1), late)
    <3> HIDE DEF A, n, Left
    <3> QED  BY <2>1
  <2>8. c \in e.blocks
    <3> HIDE DEF n, Left, P
    <3> QED  BY <2>2
  <2>3. SparseInv(f, d, z, defs, Left(k - 1) \ {<<c, w[k]>>}, late)
    <3> HIDE DEF A, P, n, Left
    <3> QED  BY <1>1, <2>2, <2>8, JoinCore
  <2>4. \A j \in 1 .. k : j = k \/ j \in 1 .. k - 1
    BY <2>1
  <2>5. SparseInv(f, d, z, defs, Left(k), late)
    <3> HIDE DEF z, A, P, n
    <3> QED  BY <2>3, <2>4, LessOpen
  <2>6. z \in A
    <3> HIDE DEF A, P, n, Left
    <3> QED  BY <1>1, <1>3, <2>2
  <2> HIDE DEF z, A, n, Left
  <2>7. z \in P[k]
    BY <2>1, <2>5, <2>6
  <2> QED  BY <2>7 DEF z
<1> DEFINE y == JoinAll(s, c, w)
<1>6. y \in P[n]
  <2> HIDE DEF A, P, Left
  <2>1. JoinAll(s, c, w) \in P[Len(w)]
    BY <1>1, <1>2, <1>3, <1>4, <1>5, JoinFold
  <2> QED  BY <2>1 DEF n
<1>7. SparseInv(f, d, y, defs, Left(n), late) /\ y \in A
  <2>1. n \in 0 .. n
    BY <1>1
  <2> HIDE DEF A, n, Left, y
  <2> QED  BY <1>6, <2>1
<1>8. SparseInv(f, d, y, defs, {p \in joins : \A phi \in ToSet(w) : p # <<c, phi>>}, late)
  <2>1. \A p \in Left(n) : \A phi \in ToSet(w) : p # <<c, phi>>
    BY <1>1 DEF ToSet
  <2> HIDE DEF y, A, P, n
  <2> QED  BY <1>7, <2>1, LessOpen
<1> HIDE DEF y
<1> QED  BY <1>7, <1>8 DEF y

-----------------------------------------------------------------------------
(* Every use of a variable is one of its sites. *)
SiteSet(f) ==
    {site \in [block : NodeIds(f), index : Nat, isPhi : BOOLEAN] :
        site.index \in IF site.isPhi THEN DOMAIN f.phis[site.block] ELSE DOMAIN f.body[site.block]}

Settles(f, site, b, i) == site.block = b /\ ~site.isPhi /\ f.body[b][site.index] = i
SettlesPhi(f, site, b, phi) == site.block = b /\ site.isPhi /\ f.phis[b][site.index] = phi

(* y is the state after one use of s was processed: what that use settles is no
   longer open. *)
IsUsed(f, d, s, site, defs, joins, late, y) ==
    /\ SparseInv(f, d, y, {x \in defs : ~Settles(f, site, x[1], x[2])},
                 {p \in joins : ~SettlesPhi(f, site, p[1], p[2])},
                 {b \in late : ~Settles(f, site, b, Terminator(f, b))})
    /\ y.blocks = s.blocks /\ y.edges = s.edges

(* Processing a use settles the definition, the phi or the terminator there. *)
LEMMA UseCore ==
  ASSUME NEW f, IsExecutable(f), IsSingleAssignment(f), NEW d \in Domains,
         NEW s, NEW defs, NEW joins, NEW late,
         SparseInv(f, d, s, defs, joins, late), NEW site \in SiteSet(f)
  PROVE  IsUsed(f, d, s, site, defs, joins, late, ProcessUse(s, f, site))
<1> SUFFICES LET y == ProcessUse(s, f, site)
             IN  /\ SparseInv(f, d, y, {x \in defs : ~Settles(f, site, x[1], x[2])},
                              {p \in joins : ~SettlesPhi(f, site, p[1], p[2])},
                              {b \in late : ~Settles(f, site, b, Terminator(f, b))})
                 /\ y.blocks = s.blocks /\ y.edges = s.edges
  BY DEF IsUsed
<1> DEFINE y == ProcessUse(s, f, site)
           D == {x \in defs : ~Settles(f, site, x[1], x[2])}
           J == {p \in joins : ~SettlesPhi(f, site, p[1], p[2])}
           L == {b \in late : ~Settles(f, site, b, Terminator(f, b))}
           c == site.block
<1>1. c \in NodeIds(f) /\ site.isPhi \in BOOLEAN
  BY DEF SiteSet
<1>2. CASE c \notin s.blocks
  <2>1. y = s
    BY <1>2 DEF ProcessUse
  <2>2. /\ \A b \in s.blocks : \A i \in ToSet(f.body[b]) : <<b, i>> \in defs => <<b, i>> \in D
        /\ \A b \in s.blocks : \A phi \in ToSet(f.phis[b]) : <<b, phi>> \in joins => <<b, phi>> \in J
        /\ \A b \in s.blocks : b \in late => b \in L
    BY <1>2 DEF Settles, SettlesPhi
  <2> HIDE DEF D, J, L
  <2>3. SparseInv(f, d, s, D, J, L)
    BY <2>2, LessOpen
  <2> QED  BY <2>1, <2>3 DEF D, J, L
<1>3. CASE c \in s.blocks /\ site.isPhi
  <2> DEFINE phi == f.phis[c][site.index]
  <2>1. phi \in ToSet(f.phis[c])
    BY <1>3 DEF SiteSet, ToSet
  <2>2. y = RevisePhi(s, phi, c)
    BY <1>3 DEF ProcessUse
  <2>3. /\ \A b \in s.blocks : \A i \in ToSet(f.body[b]) : <<b, i>> \in defs => <<b, i>> \in D
        /\ \A b \in s.blocks : \A q \in ToSet(f.phis[b]) :
              <<b, q>> \in joins \ {<<c, phi>>} => <<b, q>> \in J
        /\ \A b \in s.blocks : b \in late => b \in L
    BY <1>3 DEF Settles, SettlesPhi
  <2> HIDE DEF D, J, L, phi, y
  <2>4. /\ SparseInv(f, d, y, defs, joins \ {<<c, phi>>}, late)
        /\ y.blocks = s.blocks /\ y.edges = s.edges
    BY <1>3, <2>1, <2>2, JoinCore
  <2>5. SparseInv(f, d, y, D, J, L)
    BY <2>3, <2>4, LessOpen
  <2> QED  BY <2>4, <2>5 DEF D, J, L, y
<1>4. CASE c \in s.blocks /\ ~site.isPhi
  <2> DEFINE i == f.body[c][site.index]
             r == ReviseDefinition(s, i)
             D2 == {x \in defs : x[2] # i}
  <2>1. i \in ToSet(f.body[c])
    BY <1>4 DEF SiteSet, ToSet
  <2>2. y = IF IsTerminator(i) THEN PropagateOutgoing(r, f, c) ELSE r
    BY <1>4 DEF ProcessUse
  <2>3. \A b \in s.blocks : \A j \in ToSet(f.body[b]) : <<b, j>> \in D2 => <<b, j>> \in D
    BY <1>4 DEF Settles
  <2>10. \A b \in s.blocks : \A q \in ToSet(f.phis[b]) : <<b, q>> \in joins => <<b, q>> \in J
    BY <1>4 DEF SettlesPhi
  <2>4. SparseInv(f, d, r, D2, joins, late) /\ r.blocks = s.blocks /\ r.edges = s.edges
    <3> HIDE DEF i
    <3> QED  BY <1>1, <2>1, DefinitionCore
  <2>5. CASE IsTerminator(i)
    <3>1. \A b \in s.blocks : b \in late \ {c} => b \in L
      BY DEF Settles
    <3> HIDE DEF D, J, L, D2, y, r, i
    <3>2. /\ SparseInv(f, d, y, D2, joins, late \ {c})
          /\ y.blocks = s.blocks /\ y.edges = s.edges
      BY <1>1, <2>2, <2>4, <2>5, LeaveCore
    <3>3. SparseInv(f, d, y, D, J, L)
      BY <2>3, <2>10, <3>1, <3>2, LessOpen
    <3> QED  BY <3>2, <3>3 DEF D, J, L, y
  <2>6. CASE ~IsTerminator(i)
    <3>1. \A b \in s.blocks : b \in late => b \in L
      <4>1. \A b \in NodeIds(f) : Terminator(f, b) # i
        BY <2>6, InstructionFacts
      <4>2. s.blocks \subseteq NodeIds(f)
        BY DEF SparseInv, SparseStates
      <4> QED  BY <4>1, <4>2 DEF Settles
    <3> HIDE DEF D, J, L, D2, y, r, i
    <3>2. y = r
      BY <2>2, <2>6
    <3>3. SparseInv(f, d, y, D, J, L)
      BY <2>3, <2>10, <2>4, <3>1, <3>2, LessOpen
    <3> QED  BY <2>4, <3>2, <3>3 DEF D, J, L, y
  <2> QED  BY <2>5, <2>6
<1> QED  BY <1>1, <1>2, <1>3, <1>4

(* Processing all uses of a variable settles everything that reads it. *)
LEMMA UsesCore ==
  ASSUME NEW f, IsExecutable(f), IsSingleAssignment(f), NEW d \in Domains,
         NEW s, NEW defs, NEW joins, NEW late,
         SparseInv(f, d, s, defs, joins, late), 
         NEW w \in Seq(SiteSet(f)), NEW defs2, NEW joins2, NEW late2,
         \A b \in s.blocks : \A i \in ToSet(f.body[b]) :
            <<b, i>> \in defs => <<b, i>> \in defs2 \/ \E site \in ToSet(w) : Settles(f, site, b, i),
         \A b \in s.blocks : \A phi \in ToSet(f.phis[b]) :
            <<b, phi>> \in joins => <<b, phi>> \in joins2 \/ \E site \in ToSet(w) : SettlesPhi(f, site, b, phi),
         \A b \in s.blocks :
            b \in late => b \in late2 \/ \E site \in ToSet(w) : Settles(f, site, b, Terminator(f, b))
  PROVE  LET y == UseAll(s, f, w)
         IN  /\ SparseInv(f, d, y, defs2, joins2, late2)
             /\ y.blocks = s.blocks /\ y.edges = s.edges
<1> DEFINE A == {e \in SparseStates(f, d) : /\ SparseInv(f, d, e, defs, joins, late)
                                        /\ e.blocks = s.blocks /\ e.edges = s.edges}
           D(k) == {x \in defs : \A j \in 1 .. k : ~Settles(f, w[j], x[1], x[2])}
           J(k) == {p \in joins : \A j \in 1 .. k : ~SettlesPhi(f, w[j], p[1], p[2])}
           L(k) == {b \in late : \A j \in 1 .. k : ~Settles(f, w[j], b, Terminator(f, b))}
           n == Len(w)
           P == [k \in 0 .. n |-> {e \in A : SparseInv(f, d, e, D(k), J(k), L(k))}]
<1>1. n \in Nat /\ DOMAIN w = 1 .. n /\ w \in Seq(SiteSet(f)) /\ \A k \in 1 .. n : w[k] \in SiteSet(f)
  <2> DEFINE S == SiteSet(f)
  <2>1. w \in Seq(S)
    OBVIOUS
  <2> HIDE DEF S
  <2>2. Len(w) \in Nat /\ DOMAIN w = 1 .. Len(w) /\ \A k \in 1 .. Len(w) : w[k] \in S
    BY <2>1
  <2> QED  BY <2>1, <2>2 DEF S
<1>2. s \in A
  BY DEF SparseInv
<1>3. ASSUME NEW e \in A, NEW y \in SiteSet(f) PROVE ProcessUse(e, f, y) \in A
  <2> DEFINE z == ProcessUse(e, f, y)
  <2>1. SparseInv(f, d, e, defs, joins, late)
    OBVIOUS
  <2>2. SparseInv(f, d, z, {x \in defs : ~Settles(f, y, x[1], x[2])},
                      {p \in joins : ~SettlesPhi(f, y, p[1], p[2])},
                      {b \in late : ~Settles(f, y, b, Terminator(f, b))}) /\ z.blocks = e.blocks /\ z.edges = e.edges
    <3>1. IsExecutable(f) /\ IsSingleAssignment(f) /\ d \in Domains /\ y \in SiteSet(f)
      OBVIOUS
    <3>2. IsUsed(f, d, e, y, defs, joins, late, ProcessUse(e, f, y))
      BY ONLY <2>1, <3>1, UseCore
    <3> QED  BY ONLY <3>2 DEF IsUsed
  <2> HIDE DEF z
  <2>3. SparseInv(f, d, z, defs, joins, late)
    BY <2>2, LessOpen
  <2>4. z \in SparseStates(f, d)
    BY <2>3 DEF SparseInv
  <2> QED  BY <2>2, <2>3, <2>4 DEF z
<1>4. P \in [0 .. n -> SUBSET A] /\ s \in P[0]
  <2>1. 0 \in 0 .. n
    BY <1>1
  <2>2. D(0) = defs /\ J(0) = joins /\ L(0) = late
    OBVIOUS
  <2> HIDE DEF A, n, D, J, L
  <2> QED  BY <1>2, <2>1, <2>2
<1>5. ASSUME NEW k \in 1 .. n, NEW e \in P[k - 1] PROVE ProcessUse(e, f, w[k]) \in P[k]
  <2> DEFINE z == ProcessUse(e, f, w[k])
  <2>1. k - 1 \in 0 .. n /\ k \in 0 .. n /\ k \in Nat
    BY <1>1
  <2>2. e \in A /\ SparseInv(f, d, e, D(k - 1), J(k - 1), L(k - 1))
    <3> HIDE DEF A, n, D, J, L
    <3> QED  BY <2>1
  <2>3. SparseInv(f, d, z, {x \in D(k - 1) : ~Settles(f, w[k], x[1], x[2])},
                      {p \in J(k - 1) : ~SettlesPhi(f, w[k], p[1], p[2])},
                      {b \in L(k - 1) : ~Settles(f, w[k], b, Terminator(f, b))})
    <3> HIDE DEF A, P, n, D, J, L
    <3>1. IsUsed(f, d, e, w[k], D(k - 1), J(k - 1), L(k - 1), z)
      BY <1>1, <2>2, UseCore
    <3> QED  BY ONLY <3>1 DEF IsUsed
  <2>4. \A j \in 1 .. k : j = k \/ j \in 1 .. k - 1
    BY <2>1
  <2>5. SparseInv(f, d, z, D(k), J(k), L(k))
    <3> HIDE DEF z, A, P, n
    <3> QED  BY <2>3, <2>4, LessOpen
  <2>6. z \in A
    <3> HIDE DEF A, P, n, D, J, L
    <3> QED  BY <1>1, <1>3, <2>2
  <2> HIDE DEF z, A, n, D, J, L
  <2>7. z \in P[k]
    BY <2>1, <2>5, <2>6
  <2> QED  BY <2>7 DEF z
<1> DEFINE y == UseAll(s, f, w)
<1>6. y \in P[n]
  <2> HIDE DEF A, P, D, J, L
  <2>1. UseAll(s, f, w) \in P[Len(w)]
    BY <1>1, <1>2, <1>3, <1>4, <1>5, UseFold
  <2> QED  BY <2>1 DEF n
<1>7. SparseInv(f, d, y, D(n), J(n), L(n)) /\ y \in A
  <2>1. n \in 0 .. n
    BY <1>1
  <2> HIDE DEF A, n, D, J, L, y
  <2> QED  BY <1>6, <2>1
<1>8. SparseInv(f, d, y, defs2, joins2, late2)
  <2>1. /\ \A b \in s.blocks : \A i \in ToSet(f.body[b]) : <<b, i>> \in D(n) => <<b, i>> \in defs2
        /\ \A b \in s.blocks : \A phi \in ToSet(f.phis[b]) : <<b, phi>> \in J(n) => <<b, phi>> \in joins2
        /\ \A b \in s.blocks : b \in L(n) => b \in late2
    <3>1. \A x \in ToSet(w) : \E j \in 1 .. n : x = w[j]
      BY <1>1 DEF ToSet
    <3> HIDE DEF n
    <3> QED  BY <1>1, <3>1
  <2>2. SparseInv(f, d, y, D(n), J(n), L(n)) /\ y.blocks = s.blocks
    BY <1>7
  <2> HIDE DEF y, A, P, n, D, J, L
  <2> QED  BY <2>1, <2>2, LessOpen
<1> HIDE DEF y
<1> QED  BY <1>7, <1>8 DEF y

(* Sites: one for each operand of v, and so at least one where v is read. *)
LEMMA RepeatFacts ==
  ASSUME NEW T, NEW w \in Seq(T), NEW S, NEW U, NEW x \in U
  PROVE  LET r == [j \in 1 .. Len(Keep(w, S)) |-> x]
         IN  r \in Seq(U) /\ (ToSet(w) \cap S # {} => x \in ToSet(r))
<1> DEFINE p == Keep(w, S)
           r == [j \in 1 .. Len(p) |-> x]
<1>1. p \in Seq(T \cap S) /\ ToSet(p) = ToSet(w) \cap S
  BY KeepFacts
<1> HIDE DEF p
<1>2. Len(p) \in Nat /\ DOMAIN p = 1 .. Len(p)
  BY <1>1
<1>3. r \in Seq(U)
  BY <1>2
<1>4. ASSUME ToSet(w) \cap S # {} PROVE x \in ToSet(r)
  <2>1. PICK k \in 1 .. Len(p) : TRUE
    BY <1>1, <1>2, <1>4 DEF ToSet
  <2>2. r[k] = x /\ k \in DOMAIN r
    BY <2>1
  <2> QED  BY <2>2 DEF ToSet
<1> QED  BY <1>3, <1>4 DEF p

(* recompute_uses finds every instruction and every phi that reads a variable. *)
LEMMA UseSitesFacts ==
  ASSUME NEW f, f.count \in Nat, IsExecutable(f), NEW v
  PROVE  /\ UseSites(f, v) \in Seq(SiteSet(f))
         /\ \A b \in NodeIds(f) : \A i \in ToSet(f.body[b]) :
               v \in ToSet(i.args) => \E site \in ToSet(UseSites(f, v)) : Settles(f, site, b, i)
         /\ \A b \in NodeIds(f) : \A phi \in ToSet(f.phis[b]) :
               OperandsReading(phi, v) # {}
               => \E site \in ToSet(UseSites(f, v)) : SettlesPhi(f, site, b, phi)
<1> DEFINE S == SiteSet(f)
           DefSite(b, k) == [block |-> b, index |-> k, isPhi |-> FALSE]
           PhiSite(b, k) == [block |-> b, index |-> k, isPhi |-> TRUE]
           DefSeq(b, k) == [j \in 1 .. Len(Keep(f.body[b][k].args, {v})) |-> DefSite(b, k)]
           PhiSeq(b, k) ==
               [j \in 1 .. Len(Keep(f.phis[b][k].operands, OperandsReading(f.phis[b][k], v))) |->
                   PhiSite(b, k)]
           DefSeqs(b) == [k \in DOMAIN f.body[b] |-> DefSeq(b, k)]
           PhiSeqs(b) == [k \in DOMAIN f.phis[b] |-> PhiSeq(b, k)]
           Sites(b) == FlattenSeq(DefSeqs(b)) \o FlattenSeq(PhiSeqs(b))
           rows == [k \in 1 .. f.count |-> Sites(k - 1)]
<1>1. UseSites(f, v) = FlattenSeq(rows)
  BY DEF UseSites
<1>2. ASSUME NEW b \in NodeIds(f)
      PROVE  /\ f.body[b] \in Seq(InstructionSet(f)) /\ f.phis[b] \in Seq(PhiSet(f))
             /\ DOMAIN f.body[b] = 1 .. Len(f.body[b]) /\ Len(f.body[b]) \in Nat
             /\ DOMAIN f.phis[b] = 1 .. Len(f.phis[b]) /\ Len(f.phis[b]) \in Nat
  <2>1. f.body[b] \in Seq(InstructionSet(f)) /\ f.phis[b] \in Seq(PhiSet(f))
    BY DEF IsExecutable
  <2> QED  BY <2>1
<1>3. ASSUME NEW b \in NodeIds(f), NEW k \in DOMAIN f.body[b]
      PROVE  /\ DefSeq(b, k) \in Seq(S)
             /\ v \in ToSet(f.body[b][k].args) => DefSite(b, k) \in ToSet(DefSeq(b, k))
  <2> DEFINE w == f.body[b][k].args
             x == DefSite(b, k)
  <2>1. w \in Seq(Variables(f))
    <3>1. f.body[b][k] \in InstructionSet(f)
      BY <1>2
    <3> QED  BY <3>1 DEF InstructionSet
  <2>2. x \in S
    BY <1>2 DEF SiteSet
  <2>3. v \in ToSet(w) => ToSet(w) \cap {v} # {}
    OBVIOUS
  <2> HIDE DEF w, x, S
  <2>4. LET r == [j \in 1 .. Len(Keep(w, {v})) |-> x]
        IN  r \in Seq(S) /\ (ToSet(w) \cap {v} # {} => x \in ToSet(r))
    BY <2>1, <2>2, RepeatFacts
  <2> QED  BY <2>3, <2>4 DEF w, x
<1>4. ASSUME NEW b \in NodeIds(f), NEW k \in DOMAIN f.phis[b]
      PROVE  /\ PhiSeq(b, k) \in Seq(S)
             /\ OperandsReading(f.phis[b][k], v) # {} => PhiSite(b, k) \in ToSet(PhiSeq(b, k))
  <2> DEFINE w == f.phis[b][k].operands
             x == PhiSite(b, k)
             R == OperandsReading(f.phis[b][k], v)
             T == [pred : NodeIds(f), value : Variables(f)]
  <2>1. w \in Seq(T)
    <3>1. f.phis[b][k] \in PhiSet(f)
      BY <1>2
    <3> QED  BY <3>1 DEF PhiSet
  <2>2. x \in S
    BY <1>2 DEF SiteSet
  <2>3. R \subseteq ToSet(w)
    BY DEF OperandsReading
  <2> HIDE DEF w, x, S, R, T
  <2>4. LET r == [j \in 1 .. Len(Keep(w, R)) |-> x]
        IN  r \in Seq(S) /\ (ToSet(w) \cap R # {} => x \in ToSet(r))
    BY <2>1, <2>2, RepeatFacts
  <2>5. R # {} => ToSet(w) \cap R # {}
    BY <2>3
  <2> QED  BY <2>4, <2>5 DEF w, x, R
<1> HIDE DEF S, DefSeq, PhiSeq, DefSite, PhiSite
<1>5. ASSUME NEW b \in NodeIds(f)
      PROVE  /\ Sites(b) \in Seq(S)
             /\ \A k \in DOMAIN f.body[b] :
                  v \in ToSet(f.body[b][k].args) => DefSite(b, k) \in ToSet(Sites(b))
             /\ \A k \in DOMAIN f.phis[b] :
                  OperandsReading(f.phis[b][k], v) # {} => PhiSite(b, k) \in ToSet(Sites(b))
  <2> DEFINE n == Len(f.body[b])
             m == Len(f.phis[b])
  <2>8. n \in Nat /\ m \in Nat /\ DOMAIN f.body[b] = 1 .. n /\ DOMAIN f.phis[b] = 1 .. m
    BY <1>2
  <2> HIDE DEF n, m
  <2>9. DefSeqs(b) \in Seq(Seq(S))
    <3>1. DefSeqs(b) = [k \in 1 .. n |-> DefSeq(b, k)]
      BY <2>8
    <3>2. \A k \in 1 .. n : DefSeq(b, k) \in Seq(S)
      BY <1>3, <2>8
    <3> HIDE DEF DefSeqs
    <3> QED  BY <2>8, <3>1, <3>2
  <2>10. PhiSeqs(b) \in Seq(Seq(S))
    <3>1. PhiSeqs(b) = [k \in 1 .. m |-> PhiSeq(b, k)]
      BY <2>8
    <3>2. \A k \in 1 .. m : PhiSeq(b, k) \in Seq(S)
      BY <1>4, <2>8
    <3> HIDE DEF PhiSeqs
    <3> QED  BY <2>8, <3>1, <3>2
  <2>1. DefSeqs(b) \in Seq(Seq(S)) /\ PhiSeqs(b) \in Seq(Seq(S))
    BY <2>9, <2>10
  <2>2. /\ DOMAIN DefSeqs(b) = DOMAIN f.body[b] /\ \A k \in DOMAIN f.body[b] : DefSeqs(b)[k] = DefSeq(b, k)
        /\ DOMAIN PhiSeqs(b) = DOMAIN f.phis[b] /\ \A k \in DOMAIN f.phis[b] : PhiSeqs(b)[k] = PhiSeq(b, k)
    OBVIOUS
  <2> HIDE DEF DefSeqs, PhiSeqs
  <2>3. /\ FlattenSeq(DefSeqs(b)) \in Seq(S)
        /\ ToSet(FlattenSeq(DefSeqs(b))) = UNION {ToSet(DefSeqs(b)[k]) : k \in DOMAIN DefSeqs(b)}
    BY <2>1, FlattenFacts
  <2>4. /\ FlattenSeq(PhiSeqs(b)) \in Seq(S)
        /\ ToSet(FlattenSeq(PhiSeqs(b))) = UNION {ToSet(PhiSeqs(b)[k]) : k \in DOMAIN PhiSeqs(b)}
    BY <2>1, FlattenFacts
  <2>5. /\ Sites(b) \in Seq(S)
        /\ ToSet(Sites(b)) = ToSet(FlattenSeq(DefSeqs(b))) \cup ToSet(FlattenSeq(PhiSeqs(b)))
    BY <2>3, <2>4, ConcatElements
  <2> HIDE DEF Sites
  <2>6. \A k \in DOMAIN f.body[b] : ToSet(DefSeq(b, k)) \subseteq ToSet(Sites(b))
    BY <2>2, <2>3, <2>5
  <2>7. \A k \in DOMAIN f.phis[b] : ToSet(PhiSeq(b, k)) \subseteq ToSet(Sites(b))
    BY <2>2, <2>4, <2>5
  <2> QED  BY <1>3, <1>4, <2>5, <2>6, <2>7
<1> HIDE DEF Sites
<1>6. \A b \in NodeIds(f) : b + 1 \in 1 .. f.count /\ b + 1 - 1 = b
  BY DEF NodeIds
<1>7. \A k \in 1 .. f.count : k - 1 \in NodeIds(f)
  BY DEF NodeIds
<1>8. rows \in Seq(Seq(S)) /\ DOMAIN rows = 1 .. f.count
  BY <1>5, <1>7
<1>9. ASSUME NEW b \in NodeIds(f) PROVE \E k \in DOMAIN rows : rows[k] = Sites(b)
  <2>1. PICK k : k = b + 1
    OBVIOUS
  <2>2. k \in 1 .. f.count /\ k - 1 = b
    BY <2>1 DEF NodeIds
  <2> QED  BY <1>8, <2>2
<1> HIDE DEF rows
<1>10. /\ FlattenSeq(rows) \in Seq(S)
       /\ ToSet(FlattenSeq(rows)) = UNION {ToSet(rows[k]) : k \in DOMAIN rows}
  BY <1>8, FlattenFacts
<1>11. \A b \in NodeIds(f) : ToSet(Sites(b)) \subseteq ToSet(UseSites(f, v))
  BY <1>1, <1>9, <1>10
<1>12. ASSUME NEW b \in NodeIds(f), NEW i \in ToSet(f.body[b]), v \in ToSet(i.args)
       PROVE  \E site \in ToSet(UseSites(f, v)) : Settles(f, site, b, i)
  <2>1. PICK k \in DOMAIN f.body[b] : f.body[b][k] = i
    BY DEF ToSet
  <2>2. DefSite(b, k) \in ToSet(UseSites(f, v))
    BY <1>5, <1>11, <1>12, <2>1
  <2>3. Settles(f, DefSite(b, k), b, i)
    BY <2>1 DEF Settles, DefSite
  <2> QED  BY <2>2, <2>3
<1>13. ASSUME NEW b \in NodeIds(f), NEW phi \in ToSet(f.phis[b]), OperandsReading(phi, v) # {}
       PROVE  \E site \in ToSet(UseSites(f, v)) : SettlesPhi(f, site, b, phi)
  <2>1. PICK k \in DOMAIN f.phis[b] : f.phis[b][k] = phi
    BY DEF ToSet
  <2>2. PhiSite(b, k) \in ToSet(UseSites(f, v))
    BY <1>5, <1>11, <1>13, <2>1
  <2>3. SettlesPhi(f, PhiSite(b, k), b, phi)
    BY <2>1 DEF SettlesPhi, PhiSite
  <2> QED  BY <2>2, <2>3
<1> QED  BY <1>1, <1>10, <1>12, <1>13 DEF S

-----------------------------------------------------------------------------
(* The steps of a propagation *)

(* The next variable: what reads it is revised. *)
LEMMA VariableCore ==
  ASSUME NEW f, f.count \in Nat, IsExecutable(f), IsSingleAssignment(f), NEW d \in Domains,
         NEW s, SparseInv(f, d, s, {}, {}, {}), s.variables # <<>>
  PROVE  SparseInv(f, d, UseAll([s EXCEPT !.variables = Tail(@)], f, UseSites(f, Head(s.variables))),
                   {}, {}, {})
<1> DEFINE v == Head(s.variables)
           q == Tail(s.variables)
           z == [s EXCEPT !.variables = q]
           D == {x \in NodeIds(f) \X InstructionSet(f) : v \in ToSet(x[2].args)}
           J == {p \in NodeIds(f) \X PhiSet(f) : OperandsReading(p[2], v) # {}}
           L == {b \in NodeIds(f) : v \in ToSet(Terminator(f, b).args)}
           w == UseSites(f, v)
<1>1. /\ s \in SparseStates(f, d) /\ s.variables \in Seq(Variables(f)) /\ s.blocks \subseteq NodeIds(f)
  BY DEF SparseInv, SparseStates
<1>2. v \in Variables(f) /\ q \in Seq(Variables(f)) /\ ToSet(s.variables) = {v} \cup ToSet(q)
  <2> DEFINE u == s.variables
  <2>1. u \in Seq(Variables(f)) /\ u # <<>>
    BY <1>1
  <2> HIDE DEF u
  <2>2. /\ Head(u) \in Variables(f) /\ Tail(u) \in Seq(Variables(f))
        /\ ToSet(u) = {Head(u)} \cup ToSet(Tail(u))
    BY <2>1, HeadTailElements
  <2> QED  BY <2>2 DEF u
<1> HIDE DEF q, v
<1>3. /\ z \in SparseStates(f, d) /\ z.variables = q /\ z.facts = s.facts /\ z.edges = s.edges
      /\ z.flow = s.flow /\ z.blocks = s.blocks /\ z.back = s.back /\ z.revisions = s.revisions
      /\ z.domain = s.domain
  BY <1>1, <1>2 DEF SparseStates
<1> HIDE DEF z
<1>4. \A vs : Waits(s, vs) => v \in vs \/ Waits(z, vs)
  BY <1>2, <1>3 DEF Waits
<1>5. \A u, new : Settled(z, u, new) = Settled(s, u, new)
  BY <1>3 DEF Settled
<1>6. ASSUME NEW b \in s.blocks, NEW i \in ToSet(f.body[b]) PROVE DefHolds(z, D, b, i)
  <2> SUFFICES ASSUME i.dest # Nil PROVE DefHolds(z, D, b, i)
    BY DEF DefHolds
  <2>1. b \in NodeIds(f) /\ i \in InstructionSet(f) /\ i.op \in ValueOps
    BY <1>1, InstructionFacts
  <2>2. Evaluate(z, i) = Evaluate(s, i)
    BY <1>1, <1>3, <2>1, EvaluateFacts
  <2>3. Settled(s, i.dest, Evaluate(s, i)) \/ Waits(s, ToSet(i.args))
    BY DEF SparseInv, DefsHold, DefHolds
  <2>4. v \in ToSet(i.args) => <<b, i>> \in D
    BY <2>1
  <2> HIDE DEF D
  <2> QED  BY <1>4, <1>5, <2>2, <2>3, <2>4 DEF DefHolds
<1>7. ASSUME NEW b \in NodeIds(f), NEW phi \in ToSet(f.phis[b]) PROVE PhiHolds(z, J, b, phi)
  <2>1. phi \in PhiSet(f)
    BY InstructionFacts
  <2>2. EvaluatePhi(z, phi, b) = EvaluatePhi(s, phi, b)
    BY <1>1, <1>3, <2>1, EvaluatePhiFacts
  <2>3. CASE Settled(s, phi.result, EvaluatePhi(s, phi, b))
    BY <1>5, <2>2, <2>3 DEF PhiHolds
  <2>4. CASE ~Settled(s, phi.result, EvaluatePhi(s, phi, b))
    <3>1. PICK o \in ToSet(phi.operands) : <<o.pred, b>> \in s.edges /\ o.value \in ToSet(s.variables)
      BY <2>4 DEF SparseInv, PhisHold, PhiHolds
    <3>2. CASE o.value = v
      <4>1. <<b, phi>> \in J
        BY <2>1, <3>2 DEF OperandsReading
      <4>2. b \in s.blocks
        <5> DEFINE e == <<o.pred, b>>
        <5>1. e \in s.edges /\ e[2] = b
          BY <3>1
        <5> HIDE DEF e
        <5> QED  BY <5>1 DEF SparseInv
      <4> QED  BY <1>3, <4>1, <4>2 DEF PhiHolds
    <3>3. CASE o.value # v
      BY <1>2, <1>3, <3>1, <3>3 DEF PhiHolds
    <3> QED  BY <3>2, <3>3
  <2> QED  BY <2>3, <2>4
<1>8. ASSUME NEW b \in s.blocks PROVE EdgeHolds(f, z, L, b)
  <2> DEFINE t == Terminator(f, b)
  <2>1. b \in NodeIds(f)
    BY <1>1
  <2>2. t \in ToSet(f.body[b]) /\ IsTerminator(t)
    BY <2>1, InstructionFacts
  <2>3. t \in InstructionSet(f) /\ HasItsOperands(t)
    <3> HIDE DEF t
    <3> QED  BY <2>1, <2>2, InstructionFacts
  <2>4. ChosenTargets(z, t) = ChosenTargets(s, t)
    <3> HIDE DEF t
    <3> QED  BY <1>1, <1>3, <2>2, <2>3, ChosenFacts
  <2>5. Waits(s, ToSet(t.args)) => Waits(z, ToSet(t.args)) \/ b \in L
    BY <1>4, <2>1
  <2>6. Found(z) = Found(s)
    BY <1>3 DEF Found
  <2> HIDE DEF L
  <2> QED  BY <2>4, <2>5, <2>6 DEF SparseInv, EdgesHold, EdgeHolds
<1>9. SparseInv(f, d, z, D, J, L)
  <2>1. EntryHolds(f, d, z)
    BY <1>3 DEF SparseInv, EntryHolds, Found
  <2> HIDE DEF D, J, L
  <2> QED  BY <1>3, <1>6, <1>7, <1>8, <2>1 DEF SparseInv, DefsHold, PhisHold, EdgesHold
<1>10. w \in Seq(SiteSet(f))
  BY UseSitesFacts
<1>11. \A b \in NodeIds(f) : \A i \in ToSet(f.body[b]) :
          <<b, i>> \in D => \E site \in ToSet(w) : Settles(f, site, b, i)
  BY UseSitesFacts
<1>12. \A b \in NodeIds(f) : \A phi \in ToSet(f.phis[b]) :
          <<b, phi>> \in J => \E site \in ToSet(w) : SettlesPhi(f, site, b, phi)
  BY UseSitesFacts
<1>13. \A b \in NodeIds(f) :
          b \in L => \E site \in ToSet(w) : Settles(f, site, b, Terminator(f, b))
  BY InstructionFacts, UseSitesFacts
<1>14. SparseInv(f, d, UseAll(z, f, w), {}, {}, {})
  <2>1. z.blocks \subseteq NodeIds(f)
    BY <1>1, <1>3
  <2> HIDE DEF D, J, L, w
  <2> QED  BY <1>9, <1>10, <1>11, <1>12, <1>13, <2>1, UsesCore
<1> QED  BY <1>14 DEF z, q, v

-----------------------------------------------------------------------------
(* The steps *)

(* A newly executable edge: the phis of the block it enters join the operand it
   brings; a block entered for the first time is interpreted, and left. *)
LEMMA EdgeCore ==
  ASSUME NEW f, IsExecutable(f), IsSingleAssignment(f), NEW d \in Domains, NEW z,
         z \in SparseStates(f, d), NEW from \in NodeIds(f), NEW to \in NodeIds(f),
         NEW D, NEW J, NEW L,
         SparseInv(f, d, [z EXCEPT !.blocks = @ \cup {to}], D, J, L),
         \A x \in D : x[2] \in ToSet(f.body[to]), \A b \in L : b = to,
         to \in z.blocks => D = {} /\ L = {},
         \A b \in NodeIds(f) : \A phi \in ToSet(f.phis[b]) :
            <<b, phi>> \in J => b = to /\ OperandsFrom(phi, from) # {}
  PROVE  SparseInv(f, d, ProcessEdge(z, f, from, to), {}, {}, {})
<1> DEFINE first == to \notin z.blocks
           entry == [z EXCEPT !.blocks = @ \cup {to}]
           entered == IF first THEN ProcessDefinitions(entry, f, to) ELSE z
           S == {phi \in ToSet(f.phis[to]) : OperandsFrom(phi, from) # {}}
           w == Keep(f.phis[to], S)
           joined == JoinAll(entered, to, w)
           y == ProcessEdge(z, f, from, to)
<1>1. y = IF first THEN PropagateOutgoing(joined, f, to) ELSE joined
  BY DEF ProcessEdge, JoinAll
<1>2. w \in Seq(ToSet(f.phis[to])) /\ ToSet(w) = S
  <2> DEFINE p == f.phis[to]
             T == ToSet(p)
  <2>1. p \in Seq(T) /\ S \subseteq T
    <3>1. p \in Seq(PhiSet(f))
      BY DEF IsExecutable
    <3> HIDE DEF p
    <3>2. p \in Seq(ToSet(p))
      BY <3>1 DEF ToSet
    <3> QED  BY <3>2 DEF p
  <2> HIDE DEF p, S
  <2>2. Keep(p, S) \in Seq(T \cap S) /\ ToSet(Keep(p, S)) = ToSet(p) \cap S
    <3> HIDE DEF T
    <3> QED  BY <2>1, KeepFacts
  <2>3. T \cap S = S /\ S \subseteq T
    BY <2>1
  <2>4. Keep(p, S) \in Seq(T)
    <3> HIDE DEF T
    <3> QED  BY <2>2
  <2> QED  BY <2>2, <2>3, <2>4 DEF p
<1>3. SparseInv(f, d, entered, {}, J, L) /\ to \in entered.blocks
  <2>1. SparseInv(f, d, entry, D, J, L) /\ entry.blocks = z.blocks \cup {to}
    BY DEF SparseStates
  <2>2. CASE first
    <3> DEFINE D2 == {x \in D : x[2] \notin ToSet(f.body[to])}
    <3> HIDE DEF entry
    <3>1. /\ SparseInv(f, d, ProcessDefinitions(entry, f, to), D2, J, L)
          /\ ProcessDefinitions(entry, f, to).blocks = entry.blocks
      BY <2>1, DefinitionsCore
    <3>2. \A x \in D2 : FALSE
      OBVIOUS
    <3> HIDE DEF D2
    <3>3. SparseInv(f, d, ProcessDefinitions(entry, f, to), {}, J, L)
      BY <3>1, <3>2, LessOpen
    <3> QED  BY <2>1, <2>2, <3>1, <3>3 DEF entry
  <2>3. CASE ~first
    <3>1. entry = z
      <4>1. z.blocks \cup {to} = z.blocks
        BY <2>3
      <4>2. entry = [z EXCEPT !.blocks = z.blocks \cup {to}]
        OBVIOUS
      <4> QED  BY <4>1, <4>2 DEF SparseStates
    <3>2. D = {}
      BY <2>3
    <3> HIDE DEF entry
    <3> QED  BY <2>1, <2>3, <3>1, <3>2
  <2> QED  BY <2>2, <2>3
<1> HIDE DEF entered
<1> DEFINE J2 == {p \in J : \A phi \in ToSet(w) : p # <<to, phi>>}
<1>4. SparseInv(f, d, joined, {}, J2, L)
  <2> HIDE DEF w
  <2> QED  BY <1>2, <1>3, JoinsCore
<1>5. \A b \in NodeIds(f) : \A phi \in ToSet(f.phis[b]) : <<b, phi>> \notin J2
  <2> SUFFICES ASSUME NEW b \in NodeIds(f), NEW phi \in ToSet(f.phis[b]), <<b, phi>> \in J
               PROVE  \E q \in ToSet(w) : <<b, phi>> = <<to, q>>
    OBVIOUS
  <2>1. b = to /\ phi \in S
    OBVIOUS
  <2> HIDE DEF w, S
  <2> QED  BY <1>2, <2>1
<1>6. SparseInv(f, d, joined, {}, {}, L)
  <2>1. joined.blocks \subseteq NodeIds(f)
    BY <1>4 DEF SparseInv, SparseStates
  <2> HIDE DEF J2, joined
  <2> QED  BY <1>4, <1>5, <2>1, LessOpen
<1>7. CASE first
  <2>1. SparseInv(f, d, PropagateOutgoing(joined, f, to), {}, {}, L \ {to})
    <3> HIDE DEF joined
    <3> QED  BY <1>6, <1>7, LeaveCore
  <2>2. L \ {to} = {}
    OBVIOUS
  <2> QED  BY <1>1, <1>7, <2>1, <2>2
<1>8. CASE ~first
  BY <1>1, <1>6, <1>8
<1> QED  BY <1>7, <1>8

(* The next edge *)
LEMMA FlowCore ==
  ASSUME NEW f, IsExecutable(f), IsSingleAssignment(f), NEW d \in Domains,
         NEW s, SparseInv(f, d, s, {}, {}, {}), s.flow # <<>>,
         NEW back \in SUBSET BackEdges(f, d), back \subseteq s.back \cup {Head(s.flow)},
         s.back \subseteq back
  PROVE  LET edge == Head(s.flow)
             popped == [s EXCEPT !.flow = Tail(@)]
             executable == [popped EXCEPT !.edges = @ \cup {edge}, !.back = back]
         IN  IF edge \in s.edges THEN SparseInv(f, d, popped, {}, {}, {})
             ELSE SparseInv(f, d, ProcessEdge(executable, f, edge[1], edge[2]), {}, {}, {})
<1> DEFINE E == NodeIds(f) \X NodeIds(f)
           edge == Head(s.flow)
           q == Tail(s.flow)
           popped == [s EXCEPT !.flow = q]
           z == [popped EXCEPT !.edges = @ \cup {edge}, !.back = back]
           from == edge[1]
           to == edge[2]
           entry == [z EXCEPT !.blocks = @ \cup {to}]
<1>1. /\ s \in SparseStates(f, d) /\ s.flow \in Seq(E) /\ s.blocks \subseteq NodeIds(f)
  BY DEF SparseInv, SparseStates
<1>2. edge \in E /\ q \in Seq(E) /\ ToSet(s.flow) = {edge} \cup ToSet(q)
  <2> DEFINE u == s.flow
  <2>1. u \in Seq(E) /\ u # <<>>
    BY <1>1
  <2> HIDE DEF u, E
  <2>2. /\ Head(u) \in E /\ Tail(u) \in Seq(E)
        /\ ToSet(u) = {Head(u)} \cup ToSet(Tail(u))
    BY <2>1, HeadTailElements
  <2> QED  BY <2>2 DEF u
<1>3. from \in NodeIds(f) /\ to \in NodeIds(f) /\ edge = <<from, to>>
  <2> HIDE DEF edge
  <2> QED  BY <1>2
<1>4. back \subseteq s.back \cup {edge}
  OBVIOUS
<1> HIDE DEF q, edge
<1>5. /\ popped \in SparseStates(f, d) /\ popped.flow = q /\ popped.facts = s.facts
      /\ popped.edges = s.edges /\ popped.blocks = s.blocks /\ popped.variables = s.variables
      /\ popped.revisions = s.revisions /\ popped.back = s.back
  BY <1>1, <1>2 DEF SparseStates
<1>6. /\ z \in SparseStates(f, d) /\ z.flow = q /\ z.facts = s.facts /\ z.edges = s.edges \cup {edge}
      /\ z.blocks = s.blocks /\ z.variables = s.variables
      /\ z.revisions = s.revisions /\ z.back = back
  BY <1>1, <1>2, <1>5 DEF SparseStates
<1> HIDE DEF popped, z
<1>7. /\ entry \in SparseStates(f, d) /\ entry.flow = q /\ entry.facts = s.facts
      /\ entry.edges = s.edges \cup {edge}
      /\ entry.blocks = s.blocks \cup {to} /\ entry.variables = s.variables
      /\ entry.revisions = s.revisions /\ entry.back = back
  <2> HIDE DEF to
  <2> QED  BY <1>3, <1>6 DEF SparseStates
<1>8. CASE edge \in s.edges
  <2>1. Found(popped) = Found(s)
    BY <1>2, <1>5, <1>8 DEF Found
  <2>2. ASSUME NEW b \in NodeIds(f)
        PROVE  /\ \A i \in ToSet(f.body[b]) : DefHolds(s, {}, b, i) => DefHolds(popped, {}, b, i)
               /\ \A phi \in ToSet(f.phis[b]) : PhiHolds(s, {}, b, phi) => PhiHolds(popped, {}, b, phi)
               /\ EdgeHolds(f, s, {}, b) => EdgeHolds(f, popped, {}, b)
    BY <1>1, <1>5, <2>1, SameFacts
  <2>3. EntryHolds(f, d, popped)
    BY <2>1 DEF SparseInv, EntryHolds
  <2>4. SparseInv(f, d, popped, {}, {}, {})
    BY <1>1, <1>5, <2>2, <2>3 DEF SparseInv, DefsHold, PhisHold, EdgesHold
  <2> QED  BY <1>8, <2>4 DEF popped, q, edge
<1>9. CASE edge \notin s.edges
  <2> DEFINE first == to \notin s.blocks
             D == IF first THEN {<<to, i>> : i \in ToSet(f.body[to])} ELSE {}
             J == {p \in {to} \X PhiSet(f) : OperandsFrom(p[2], from) # {}}
             L == IF first THEN {to} ELSE {}
  <2> HIDE DEF entry
  <2>1. Found(s) \subseteq Found(entry)
    BY <1>2, <1>7 DEF Found
  <2>2. ASSUME NEW b \in NodeIds(f)
        PROVE  /\ \A i \in ToSet(f.body[b]) : DefHolds(s, {}, b, i) => DefHolds(entry, {}, b, i)
               /\ EdgeHolds(f, s, {}, b) => EdgeHolds(f, entry, {}, b)
    BY <1>1, <1>7, <2>1, SameFacts
  <2>3. ASSUME NEW b \in entry.blocks, NEW i \in ToSet(f.body[b]) PROVE DefHolds(entry, D, b, i)
    <3>1. CASE b \in s.blocks
      <4>1. DefHolds(entry, {}, b, i)
        BY <1>1, <2>2, <3>1 DEF SparseInv, DefsHold
      <4> QED  BY <4>1 DEF DefHolds
    <3>2. CASE b \notin s.blocks
      <4>1. <<b, i>> \in D
        BY <1>7, <3>2
      <4> QED  BY <4>1 DEF DefHolds
    <3> QED  BY <3>1, <3>2
  <2>4. ASSUME NEW b \in entry.blocks PROVE EdgeHolds(f, entry, L, b)
    <3>1. CASE b \in s.blocks
      <4>1. EdgeHolds(f, entry, {}, b)
        BY <1>1, <2>2, <3>1 DEF SparseInv, EdgesHold
      <4> QED  BY <4>1 DEF EdgeHolds
    <3>2. CASE b \notin s.blocks
      BY <1>7, <3>2 DEF EdgeHolds
    <3> QED  BY <3>1, <3>2
  <2>5. ASSUME NEW b \in NodeIds(f), NEW phi \in ToSet(f.phis[b]) PROVE PhiHolds(entry, J, b, phi)
    <3>0. phi \in PhiSet(f)
      BY InstructionFacts
    <3>1. CASE b = to /\ OperandsFrom(phi, from) # {}
      <4>1. <<b, phi>> \in J
        BY <3>0, <3>1
      <4> HIDE DEF J, to
      <4> QED  BY <1>7, <3>1, <4>1 DEF PhiHolds
    <3>2. CASE ~(b = to /\ OperandsFrom(phi, from) # {})
      <4>1. \A o \in ToSet(phi.operands) : <<o.pred, b>> # edge
        BY <1>3, <3>2 DEF OperandsFrom
      <4> DEFINE E2(o) == <<o.pred, b>>
      <4>2. \A o \in ToSet(phi.operands) : E2(o) \in entry.edges <=> E2(o) \in s.edges
        BY <1>7, <4>1
      <4>3. \A o \in ToSet(phi.operands) : E2(o) \in entry.back <=> E2(o) \in s.back
        BY <1>4, <1>7, <4>1
      <4>4. s.edges \subseteq entry.edges /\ (b \in s.blocks => b \in entry.blocks)
        BY <1>7
      <4>5. PhiHolds(s, {}, b, phi)
        BY DEF SparseInv, PhisHold
      <4>6. PhiHolds(entry, {}, b, phi)
        BY <1>1, <1>7, <4>2, <4>3, <4>4, <4>5, SameFacts
      <4> QED  BY <4>6 DEF PhiHolds
    <3> QED  BY <3>1, <3>2
  <2>6. /\ 0 \in entry.blocks /\ \A v \in Inputs(f, d) : entry.facts[v] = AnyFact(d)
        /\ EntryHolds(f, d, entry)
    BY <1>7, <2>1 DEF SparseInv, EntryHolds
  <2>7. \A e \in entry.edges : e[2] \in entry.blocks
    BY <1>7 DEF SparseInv
  <2>8. SparseInv(f, d, entry, D, J, L)
    <3> HIDE DEF D, J, L
    <3> QED  BY <1>7, <2>3, <2>4, <2>5, <2>6, <2>7 DEF SparseInv, DefsHold, PhisHold, EdgesHold
  <2>9. /\ \A x \in D : x[2] \in ToSet(f.body[to])
        /\ \A b \in L : b = to
        /\ to \in z.blocks => D = {} /\ L = {}
    BY <1>6
  <2>10. \A b \in NodeIds(f) : \A phi \in ToSet(f.phis[b]) :
            <<b, phi>> \in J => b = to /\ OperandsFrom(phi, from) # {}
    OBVIOUS
  <2>11. entry = [z EXCEPT !.blocks = @ \cup {to}]
    BY DEF entry
  <2> HIDE DEF from, to, D, J, L
  <2>12. SparseInv(f, d, ProcessEdge(z, f, from, to), {}, {}, {})
    BY <1>3, <1>6, <2>8, <2>9, <2>10, <2>11, EdgeCore
  <2> QED  BY <1>9, <2>12 DEF z, popped, q, from, to, edge
<1> QED  BY <1>8, <1>9 DEF edge

(* The targets a terminator may take are its targets. *)
LEMMA ChosenAreTargets ==
  ASSUME NEW f, NEW d \in Domains, NEW s \in SparseStates(f, d), NEW t \in InstructionSet(f),
         IsTerminator(t), HasItsOperands(t)
  PROVE  ToSet(ChosenTargets(s, t)) \subseteq ToSet(t.targets)
<1> DEFINE u == t.targets
           v == t.args[1]
           fact == s.facts[v]
<1>1. s.domain = d /\ u \in Seq(NodeIds(f)) /\ DOMAIN u = 1 .. Len(u) /\ Len(u) \in Nat
  BY DEF SparseStates, InstructionSet
<1>2. CASE t.op \in {"jump", "return"}
  BY <1>2 DEF ChosenTargets
<1>3. CASE t.op = "branch"
  <2> DEFINE m == u[1]
             n == u[2]
  <2>1. ChosenTargets(s, t) = BranchTargets(s, fact, u)
    BY <1>3 DEF ChosenTargets
  <2>2. ChosenTargets(s, t) \in {<<>>, u, <<m>>, <<n>>}
    <3> HIDE DEF fact
    <3> QED  BY <2>1 DEF BranchTargets
  <2>3. m \in ToSet(u) /\ n \in ToSet(u)
    BY <1>1, <1>3 DEF HasItsOperands, ToSet
  <2> HIDE DEF m, n, u
  <2> QED  BY <2>2, <2>3 DEF ToSet, u
<1>4. CASE t.op = "switch"
  <2> DEFINE n == SwitchTarget(u, ValueOf(fact))
  <2>1. ChosenTargets(s, t) = u \/ (ChosenTargets(s, t) = <<n>> /\ IsConstant(fact))
    <3> DEFINE known == IsConstant(fact) /\ (d = "ranges" => ValueOf(fact) >= 0)
    <3>1. ChosenTargets(s, t) = IF known THEN <<n>> ELSE u
      BY <1>1, <1>4 DEF ChosenTargets
    <3> HIDE DEF fact, n
    <3> QED  BY <3>1
  <2>2. IsConstant(fact) => ValueOf(fact) \in Int
    <3>1. v \in Variables(f)
      BY <1>4 DEF HasItsOperands, InstructionSet
    <3>2. fact \in FactsOf(d)
      <4> HIDE DEF v
      <4> QED  BY <3>1 DEF SparseStates
    <3> HIDE DEF fact
    <3> QED  BY <3>2, ConstantValue
  <2>3. IsConstant(fact) => n \in ToSet(u)
    <3>1. u # <<>>
      BY <1>4 DEF HasItsOperands
    <3> HIDE DEF u, fact
    <3>2. ASSUME NEW k \in Int PROVE SwitchTarget(u, k) \in ToSet(u)
      <4>1. \E j \in 1 .. Len(u) : SwitchTarget(u, k) = u[j]
        BY <1>1, <3>1 DEF SwitchTarget, Last
      <4> QED  BY <1>1, <4>1 DEF ToSet
    <3> QED  BY <2>2, <3>2
  <2> HIDE DEF n, u
  <2> QED  BY <2>1, <2>3 DEF ToSet, u
<1> QED  BY <1>2, <1>3, <1>4 DEF IsTerminator

(* initialize *)
LEMMA AddFacts ==
  ASSUME NEW f, IsExecutable(f), NEW d \in Domains, NEW s \in SparseStates(f, d),
         NEW c \in NodeIds(f), NEW targets \in Seq(NodeIds(f))
  PROVE  LET y == AddEdges(s, c, targets)
         IN  /\ y \in SparseStates(f, d) /\ y.facts = s.facts
             /\ y.blocks = s.blocks /\ y.edges = s.edges
             /\ \A b \in ToSet(targets) : <<c, b>> \in Found(y)
<1>1. PICK none : none = {}
  OBVIOUS
<1> QED  BY <1>1, AddCore

(* initialize *)
LEMMA NewSparseCore ==
  ASSUME NEW f, IsExecutable(f), IsSingleAssignment(f), f.count \in Nat \ {0}, NEW d \in Domains,
         NEW g, g.succ[0] \in Seq(NodeIds(f)), ToSet(Terminator(f, 0).targets) \subseteq ToSet(g.succ[0])
  PROVE  SparseInv(f, d, NewSparse(d, f, g), {}, {}, {})
<1> DEFINE start == [domain |-> d, edges |-> {}, blocks |-> {0}, back |-> {},
                     variables |-> <<>>, flow |-> <<>>, steps |-> 0, done |-> FALSE,
                     revisions |-> [v \in Variables(f) |-> 0],
                     facts |-> [v \in Variables(f) |->
                         IF d = "constants" /\ v \in UnknownInputs(f) THEN Bottom ELSE Top]]
           queued == AddEdges(start, 0, g.succ[0])
           begun == IF d = "constants" THEN start ELSE queued
           D == {<<0, i>> : i \in ToSet(f.body[0])}
           D2 == {x \in D : x[2] \notin ToSet(f.body[0])}
           worked == ProcessDefinitions(begun, f, 0)
<1>1. NewSparse(d, f, g) = IF d = "constants" THEN PropagateOutgoing(worked, f, 0) ELSE worked
  BY DEF NewSparse
<1>2. 0 \in NodeIds(f)
  BY DEF NodeIds
<1>3. /\ start \in SparseStates(f, d) /\ start.blocks = {0} /\ start.edges = {}
      /\ \A v \in Inputs(f, d) : start.facts[v] = AnyFact(d)
      /\ d = "ranges" => \A v \in Variables(f) : start.facts[v] = Top
  <2>1. Inputs(f, d) \subseteq Variables(f)
    BY DEF Variables, Inputs
  <2>2. Top \in FactsOf(d) /\ Bottom \in FactsOf(d)
    BY DEF FactsOf, ConstantFacts, RangeFacts
  <2>3. d = "constants" => Inputs(f, d) \subseteq UnknownInputs(f)
    <3>1. \A b \in NodeIds(f) : f.initial.supplied \cap Dests(f, b) = {}
      BY DEF IsSingleAssignment, DefinedIn
    <3> QED  BY <3>1 DEF Inputs, UnknownInputs
  <2>4. start \in SparseStates(f, d)
    BY <1>2, <2>2 DEF SparseStates
  <2>5. \A v \in Inputs(f, d) : start.facts[v] = AnyFact(d)
    BY <2>1, <2>3 DEF AnyFact, Domains
  <2> QED  BY <2>4, <2>5
<1> HIDE DEF start
<1>4. /\ queued \in SparseStates(f, d) /\ queued.blocks = {0} /\ queued.edges = {}
      /\ queued.facts = start.facts
      /\ \A b \in ToSet(g.succ[0]) : <<0, b>> \in Found(queued)
  <2> DEFINE w == g.succ[0]
  <2> HIDE DEF w
  <2>1. w \in Seq(NodeIds(f))
    BY DEF w
  <2> DEFINE y == AddEdges(start, 0, w)
  <2>2. /\ y \in SparseStates(f, d) /\ y.facts = start.facts
        /\ y.blocks = start.blocks /\ y.edges = start.edges
        /\ \A b \in ToSet(w) : <<0, b>> \in Found(y)
    BY <1>2, <1>3, <2>1, AddFacts
  <2> QED  BY <1>3, <2>2 DEF w
<1> HIDE DEF queued
<1>5. /\ begun \in SparseStates(f, d) /\ begun.blocks = {0} /\ begun.edges = {}
      /\ \A v \in Inputs(f, d) : begun.facts[v] = AnyFact(d)
      /\ d = "ranges" => \A v \in Variables(f) : begun.facts[v] = Top
      /\ EntryHolds(f, d, begun)
  BY <1>3, <1>4 DEF EntryHolds, Domains
<1> HIDE DEF begun
<1>6. DefsHold(f, begun, D) /\ EdgesHold(f, begun, {0})
  BY <1>5 DEF DefsHold, EdgesHold, DefHolds, EdgeHolds
<1>7. PhisHold(f, begun, {})
  <2> SUFFICES ASSUME NEW b \in NodeIds(f), NEW phi \in ToSet(f.phis[b])
               PROVE  Settled(begun, phi.result, EvaluatePhi(begun, phi, b))
    BY DEF PhisHold, PhiHolds
  <2>1. phi \in PhiSet(f) /\ phi.result \in Variables(f) \ f.initial.supplied
    <3>1. phi \in PhiSet(f)
      BY InstructionFacts
    <3>2. phi.result \notin f.initial.supplied
      BY OneDefinition
    <3> QED  BY <3>1, <3>2 DEF PhiSet
  <2>2. EvaluatePhi(begun, phi, b) = Top
    BY <1>5, <2>1, EvaluatePhiFacts
  <2>3. d = "ranges" => begun.facts[phi.result] = Top
    BY <1>5, <2>1
  <2>4. begun.domain = d
    BY <1>5 DEF SparseStates
  <2> QED  BY <2>2, <2>3, <2>4 DEF Settled, Covers, Domains
<1>8. SparseInv(f, d, begun, D, {}, {0})
  BY <1>5, <1>6, <1>7 DEF SparseInv
<1>9. SparseInv(f, d, worked, D2, {}, {0})
  <2> HIDE DEF D
  <2> QED  BY <1>2, <1>8, DefinitionsCore
<1>10. \A x \in D2 : FALSE
  OBVIOUS
<1> HIDE DEF D2, worked
<1>11. SparseInv(f, d, worked, {}, {}, {0})
  BY <1>9, <1>10, LessOpen
<1>12. CASE d = "constants"
  <2>1. SparseInv(f, d, PropagateOutgoing(worked, f, 0), {}, {}, {0} \ {0})
    BY <1>2, <1>11, LeaveCore
  <2>2. {0} \ {0} = {}
    OBVIOUS
  <2> QED  BY <1>1, <1>12, <2>1, <2>2
<1>13. CASE d = "ranges"
  <2> DEFINE t == Terminator(f, 0)
  <2>1. t \in ToSet(f.body[0]) /\ IsTerminator(t)
    BY <1>2, InstructionFacts
  <2>2. t \in InstructionSet(f) /\ HasItsOperands(t)
    <3> HIDE DEF t
    <3> QED  BY <1>2, <2>1, InstructionFacts
  <2>3. ToSet(ChosenTargets(worked, t)) \subseteq ToSet(t.targets)
    <3> HIDE DEF t
    <3>1. worked \in SparseStates(f, d)
      BY <1>11 DEF SparseInv
    <3> QED  BY <2>1, <2>2, <3>1, ChosenAreTargets
  <2>4. EdgeHolds(f, worked, {}, 0)
    BY <1>11, <1>13, <2>3 DEF SparseInv, EntryHolds, EdgeHolds
  <2>5. EdgesHold(f, worked, {})
    BY <1>11, <2>4 DEF SparseInv, EdgesHold, EdgeHolds
  <2>6. SparseInv(f, d, worked, {}, {}, {})
    BY <1>11, <2>5 DEF SparseInv
  <2> QED  BY <1>1, <1>13, <2>6
<1> QED  BY <1>12, <1>13 DEF Domains

(* Counting a step, or ending a propagation, changes nothing the invariant
   speaks of. *)
LEMMA SameState ==
  ASSUME NEW f, IsExecutable(f), NEW d \in Domains, NEW s, SparseInv(f, d, s, {}, {}, {}),
         NEW y \in SparseStates(f, d),
         y.facts = s.facts, y.revisions = s.revisions, y.variables = s.variables,
         y.edges = s.edges, y.blocks = s.blocks, y.flow = s.flow, y.back = s.back
  PROVE  SparseInv(f, d, y, {}, {}, {})
<1>1. s \in SparseStates(f, d) /\ s.blocks \subseteq NodeIds(f)
  BY DEF SparseInv, SparseStates
<1>2. Found(y) = Found(s)
  BY DEF Found
<1>3. ASSUME NEW b \in NodeIds(f)
      PROVE  /\ \A i \in ToSet(f.body[b]) : DefHolds(s, {}, b, i) => DefHolds(y, {}, b, i)
             /\ \A phi \in ToSet(f.phis[b]) : PhiHolds(s, {}, b, phi) => PhiHolds(y, {}, b, phi)
             /\ EdgeHolds(f, s, {}, b) => EdgeHolds(f, y, {}, b)
  BY <1>1, <1>2, SameFacts
<1>4. EntryHolds(f, d, y)
  BY <1>2 DEF SparseInv, EntryHolds
<1> QED  BY <1>1, <1>3, <1>4 DEF SparseInv, DefsHold, PhisHold, EdgesHold

(* z is s with one more step counted. *)
IsCounted(f, d, s, z) ==
    /\ SparseInv(f, d, z, {}, {}, {}) /\ z.flow = s.flow /\ z.variables = s.variables
    /\ z.edges = s.edges /\ z.back = s.back /\ z.domain = s.domain
    /\ Counted([s EXCEPT !.flow = Tail(@)]) = [z EXCEPT !.flow = Tail(@)]
    /\ Counted([s EXCEPT !.variables = Tail(@)]) = [z EXCEPT !.variables = Tail(@)]

(* Counting a step changes nothing else. *)
LEMMA CountedFacts ==
  ASSUME NEW f, IsExecutable(f), NEW d \in Domains, NEW s, SparseInv(f, d, s, {}, {}, {})
  PROVE  IsCounted(f, d, s, Counted(s))
<1> SUFFICES LET z == Counted(s)
             IN  /\ SparseInv(f, d, z, {}, {}, {}) /\ z.flow = s.flow /\ z.variables = s.variables
                 /\ z.edges = s.edges /\ z.back = s.back /\ z.domain = s.domain
                 /\ Counted([s EXCEPT !.flow = Tail(@)]) = [z EXCEPT !.flow = Tail(@)]
                 /\ Counted([s EXCEPT !.variables = Tail(@)]) = [z EXCEPT !.variables = Tail(@)]
  BY DEF IsCounted
<1>1. s \in SparseStates(f, d) /\ s.domain = d
  BY DEF SparseInv, SparseStates
<1>2. CASE d = "constants"
  BY <1>1, <1>2 DEF Counted, SparseStates
<1>3. CASE d = "ranges"
  <2> DEFINE z == [s EXCEPT !.steps = @ + 1]
  <2>1. Counted(s) = z
    BY <1>1, <1>3 DEF Counted
  <2>2. /\ z \in SparseStates(f, d) /\ z.domain = s.domain
        /\ z.facts = s.facts /\ z.revisions = s.revisions /\ z.variables = s.variables
        /\ z.edges = s.edges /\ z.blocks = s.blocks /\ z.flow = s.flow /\ z.back = s.back
    <3> DEFINE n == s.steps + 1
    <3>1. n \in Nat /\ z = [s EXCEPT !.steps = n]
      BY <1>1 DEF SparseStates
    <3> HIDE DEF n, z
    <3> QED  BY <1>1, <3>1 DEF SparseStates
  <2>3. SparseInv(f, d, z, {}, {}, {})
    <3> HIDE DEF z
    <3> QED  BY <2>2, SameState
  <2>4. Counted([s EXCEPT !.flow = Tail(@)]) = [z EXCEPT !.flow = Tail(@)]
    BY <1>1, <1>3 DEF Counted, SparseStates
  <2>5. Counted([s EXCEPT !.variables = Tail(@)]) = [z EXCEPT !.variables = Tail(@)]
    BY <1>1, <1>3 DEF Counted, SparseStates
  <2> QED  BY <2>1, <2>2, <2>3, <2>4, <2>5
<1> QED  BY <1>2, <1>3 DEF Domains

(* The end. *)
LEMMA EndCore ==
  ASSUME NEW f, IsExecutable(f), NEW d \in Domains, NEW s, SparseInv(f, d, s, {}, {}, {})
  PROVE  SparseInv(f, d, [s EXCEPT !.done = TRUE], {}, {}, {})
<1> DEFINE y == [s EXCEPT !.done = TRUE]
<1>1. s \in SparseStates(f, d)
  BY DEF SparseInv
<1>2. /\ y \in SparseStates(f, d)
      /\ y.facts = s.facts /\ y.revisions = s.revisions /\ y.variables = s.variables
      /\ y.edges = s.edges /\ y.blocks = s.blocks /\ y.flow = s.flow /\ y.back = s.back
  BY <1>1 DEF SparseStates
<1> HIDE DEF y
<1>3. SparseInv(f, d, y, {}, {}, {})
  BY <1>2, SameState
<1> QED  BY <1>3 DEF y

(* propagate *)
LEMMA PropagationStep ==
  ASSUME NEW f, IsExecutable(f), IsSingleAssignment(f), f.count \in Nat, NEW d \in Domains, NEW g,
         SparseInv(f, d, sparse, {}, {}, {}), SparseNext(f, g)
  PROVE  SparseInv(f, d, sparse', {}, {}, {})
<1>1. PICK s : s = sparse
  OBVIOUS
<1> DEFINE z == Counted(s)
<1>2. SparseInv(f, d, s, {}, {}, {})
  BY <1>1
<1>3. s \in SparseStates(f, d) /\ s.domain = d
  BY <1>2 DEF SparseInv, SparseStates
<1>4. /\ SparseInv(f, d, z, {}, {}, {}) /\ z.flow = s.flow /\ z.variables = s.variables
      /\ z.edges = s.edges /\ z.back = s.back /\ z.domain = s.domain
      /\ Counted([s EXCEPT !.flow = Tail(@)]) = [z EXCEPT !.flow = Tail(@)]
      /\ Counted([s EXCEPT !.variables = Tail(@)]) = [z EXCEPT !.variables = Tail(@)]
  <2>1. IsCounted(f, d, s, z)
    BY <1>2, CountedFacts
  <2> HIDE DEF z
  <2> QED  BY ONLY <2>1 DEF IsCounted
<1> HIDE DEF z
<1>8. z \in SparseStates(f, d) /\ z.domain = d
  BY <1>3, <1>4 DEF SparseInv
<1>5. CASE PropagateEdge(f, g)
  <2> DEFINE edge == Head(z.flow)
             grown == d = "constants" /\ IsBackEdge(g, edge)
             back == IF grown THEN z.back \cup {edge} ELSE z.back
             popped == [z EXCEPT !.flow = Tail(@)]
             executable == [popped EXCEPT !.edges = @ \cup {edge}, !.back = back]
  <2>1. z.flow # <<>>
    BY <1>1, <1>4, <1>5 DEF PropagateEdge
  <2>2. edge \in NodeIds(f) \X NodeIds(f) /\ z.back \in SUBSET BackEdges(f, d)
    <3> DEFINE u == z.flow
               E == NodeIds(f) \X NodeIds(f)
    <3>1. u \in Seq(E) /\ u # <<>> /\ z.back \in SUBSET BackEdges(f, d)
      BY <1>8, <2>1 DEF SparseStates
    <3> HIDE DEF u, E
    <3>2. Head(u) \in E
      BY <3>1, HeadTailElements
    <3> QED  BY <3>1, <3>2 DEF u, E
  <2>3. /\ back \in SUBSET BackEdges(f, d) /\ back \subseteq z.back \cup {edge}
        /\ z.back \subseteq back
    <3> HIDE DEF edge
    <3> QED  BY <2>2 DEF BackEdges
  <2>4. popped.back = z.back
    BY <1>8 DEF SparseStates
  <2>5. sparse' = IF edge \in z.edges THEN popped
                  ELSE ProcessEdge(executable, f, edge[1], edge[2])
    <3> HIDE DEF edge
    <3>1. edge = Head(s.flow)
      BY <1>4 DEF edge
    <3>2. sparse' =
            LET x == Counted([s EXCEPT !.flow = Tail(@)])
            IN  IF Head(s.flow) \in s.edges THEN x
                ELSE ProcessEdge([x EXCEPT !.edges = @ \cup {Head(s.flow)},
                                           !.back = IF s.domain = "constants" /\ IsBackEdge(g, Head(s.flow))
                                                    THEN @ \cup {Head(s.flow)} ELSE @],
                                 f, Head(s.flow)[1], Head(s.flow)[2])
      BY <1>1, <1>5 DEF PropagateEdge
    <3>3. sparse' =
            IF edge \in z.edges THEN popped
            ELSE ProcessEdge([popped EXCEPT !.edges = @ \cup {edge},
                                       !.back = IF d = "constants" /\ IsBackEdge(g, edge)
                                                THEN @ \cup {edge} ELSE @], f, edge[1], edge[2])
      BY <1>3, <1>4, <3>1, <3>2
    <3> HIDE DEF popped
    <3> QED  BY <2>4, <3>3
  <2> HIDE DEF back
  <2>6. IF edge \in z.edges THEN SparseInv(f, d, popped, {}, {}, {})
        ELSE SparseInv(f, d, ProcessEdge(executable, f, edge[1], edge[2]), {}, {}, {})
    BY <1>4, <2>1, <2>3, FlowCore
  <2> HIDE DEF edge, popped, executable
  <2> QED  BY <2>5, <2>6
<1>6. CASE PropagateVariable(f)
  <2> DEFINE popped == [z EXCEPT !.variables = Tail(@)]
  <2>1. z.variables # <<>>
    BY <1>1, <1>4, <1>6 DEF PropagateVariable
  <2>2. sparse' = UseAll(Counted([s EXCEPT !.variables = Tail(@)]), f, UseSites(f, Head(s.variables)))
    BY <1>1, <1>6, Zenon DEF PropagateVariable, UseAll
  <2>3. sparse' = UseAll(popped, f, UseSites(f, Head(z.variables)))
    BY <1>4, <2>2
  <2>4. SparseInv(f, d, UseAll(popped, f, UseSites(f, Head(z.variables))), {}, {}, {})
    BY <1>4, <2>1, VariableCore
  <2> HIDE DEF popped
  <2> QED  BY <2>3, <2>4
<1>7. CASE PropagateEnd
  <2>1. sparse' = [s EXCEPT !.done = TRUE]
    BY <1>1, <1>7 DEF PropagateEnd
  <2> QED  BY <1>2, <2>1, EndCore
<1> QED  BY <1>5, <1>6, <1>7 DEF SparseNext

-----------------------------------------------------------------------------
(* The function, running *)

(* What a propagation that has converged says: every definition and every phi of
   an entered block is accounted for, and every edge its terminator may take is
   executable. *)
Accounts(f, d, s) ==
    /\ s \in SparseStates(f, d) /\ 0 \in s.blocks
    /\ \A e \in s.edges : e[2] \in s.blocks
    /\ \A v \in Inputs(f, d) : s.facts[v] = AnyFact(d)
    /\ \A b \in s.blocks :
          /\ \A i \in ToSet(f.body[b]) : i.dest # Nil => Includes(d, s.facts[i.dest], Evaluate(s, i))
          /\ \A phi \in ToSet(f.phis[b]) : \A o \in ToSet(phi.operands) :
                <<o.pred, b>> \in s.edges => Includes(d, s.facts[phi.result], s.facts[o.value])
          /\ \A c \in ToSet(ChosenTargets(s, Terminator(f, b))) : <<b, c>> \in s.edges
    /\ d = "ranges" => \A c \in ToSet(Terminator(f, 0).targets) : <<0, c>> \in s.edges

(* The premises of the ranges: BranchesAreKnown and WideningCovers, of f and s. *)
KnownBranches(f, s) ==
    \A b \in s.blocks \ {0} :
        Terminator(f, b).op = "branch" => s.facts[Terminator(f, b).args[1]] # Top
CoveredFacts(f, s) ==
    \A b \in s.blocks :
        /\ \A phi \in ToSet(f.phis[b]) :
              s.revisions[phi.result] = WidenAfter
                  => JoinRanges(s.facts[phi.result], EvaluatePhi(s, phi, b)) = s.facts[phi.result]
        /\ \A i \in ToSet(f.body[b]) :
              i.dest # Nil /\ s.revisions[i.dest] = WidenAfter
                  => JoinRanges(s.facts[i.dest], Evaluate(s, i)) = s.facts[i.dest]

(* A fact that settles a new one includes it, unless it was widened. *)
LEMMA SettledIncludes ==
  ASSUME NEW f, NEW d \in Domains, NEW s \in SparseStates(f, d), NEW v \in Variables(f),
         NEW new \in FactsOf(d), Settled(s, v, new),
         d = "ranges" /\ s.revisions[v] = WidenAfter => JoinRanges(s.facts[v], new) = s.facts[v]
  PROVE  Includes(d, s.facts[v], new)
<1>1. s.domain = d /\ s.facts[v] \in FactsOf(d)
  BY DEF SparseStates
<1>2. CASE d = "constants"
  BY <1>1, <1>2, CoversAllows DEF Settled, Includes, Allows
<1>3. CASE d = "ranges"
  <2> DEFINE old == s.facts[v]
  <2>1. old \in RangeFacts /\ new \in RangeFacts
    BY <1>1, <1>3 DEF FactsOf
  <2>2. old = new \/ JoinRanges(old, new) = old
    BY <1>1, <1>3 DEF Settled
  <2> HIDE DEF old
  <2>3. Includes(d, old, new)
    BY <1>3, <2>1, <2>2, JoinIncludes DEF Includes, Allows
  <2> QED  BY <2>3 DEF old
<1> QED  BY <1>2, <1>3 DEF Domains

(* When both queues are empty, every fact is accounted for. *)
LEMMA ConvergedAccounts ==
  ASSUME NEW f, IsExecutable(f), NEW d \in Domains, NEW s, SparseInv(f, d, s, {}, {}, {}),
         s.flow = <<>>, s.variables = <<>>, d = "ranges" => CoveredFacts(f, s)
  PROVE  Accounts(f, d, s)
<1>1. s \in SparseStates(f, d) /\ s.blocks \subseteq NodeIds(f)
  BY DEF SparseInv, SparseStates
<1>2. ToSet(s.variables) = {} /\ Found(s) = s.edges /\ \A vs : ~Waits(s, vs)
  BY DEF Waits, ToSet, Found
<1>3. ASSUME NEW b \in s.blocks, NEW i \in ToSet(f.body[b]), i.dest # Nil
      PROVE  Includes(d, s.facts[i.dest], Evaluate(s, i))
  <2>1. i \in InstructionSet(f) /\ i.op \in ValueOps /\ i.dest \in Variables(f)
    BY <1>1, <1>3, InstructionFacts
  <2>2. Evaluate(s, i) \in FactsOf(d)
    BY <1>1, <2>1, EvaluateFacts
  <2>3. Settled(s, i.dest, Evaluate(s, i))
    BY <1>2, <1>3 DEF SparseInv, DefsHold, DefHolds
  <2>4. d = "ranges" /\ s.revisions[i.dest] = WidenAfter
            => JoinRanges(s.facts[i.dest], Evaluate(s, i)) = s.facts[i.dest]
    BY <1>3 DEF CoveredFacts
  <2> QED  BY <1>1, <2>1, <2>2, <2>3, <2>4, SettledIncludes
<1>4. ASSUME NEW b \in s.blocks, NEW phi \in ToSet(f.phis[b]), NEW o \in ToSet(phi.operands),
             <<o.pred, b>> \in s.edges
      PROVE  Includes(d, s.facts[phi.result], s.facts[o.value])
  <2> DEFINE new == EvaluatePhi(s, phi, b)
  <2>1. phi \in PhiSet(f) /\ phi.result \in Variables(f) /\ b \in NodeIds(f)
    BY <1>1, InstructionFacts DEF PhiSet
  <2>2. new \in FactsOf(d) /\ Includes(d, new, s.facts[o.value])
    BY <1>1, <1>4, <2>1, EvaluatePhiFacts
  <2>3. Settled(s, phi.result, new)
    BY <1>2, <2>1 DEF SparseInv, PhisHold, PhiHolds
  <2>4. d = "ranges" /\ s.revisions[phi.result] = WidenAfter
            => JoinRanges(s.facts[phi.result], new) = s.facts[phi.result]
    BY DEF CoveredFacts
  <2> HIDE DEF new
  <2>5. Includes(d, s.facts[phi.result], new)
    BY <1>1, <2>1, <2>2, <2>3, <2>4, SettledIncludes
  <2> QED  BY <2>2, <2>5 DEF Includes
<1>5. ASSUME NEW b \in s.blocks, NEW c \in ToSet(ChosenTargets(s, Terminator(f, b)))
      PROVE  <<b, c>> \in s.edges
  BY <1>2 DEF SparseInv, EdgesHold, EdgeHolds
<1>6. d = "ranges" => \A c \in ToSet(Terminator(f, 0).targets) : <<0, c>> \in s.edges
  BY <1>2 DEF SparseInv, EntryHolds
<1> QED  BY <1>1, <1>3, <1>4, <1>5, <1>6 DEF SparseInv, Accounts

-----------------------------------------------------------------------------
(* The values variables may have while f runs, where s rules none of them out. *)
Explained(f, d, s) ==
    {env \in UNION {[D -> Int] : D \in SUBSET Variables(f)} :
        \A v \in DOMAIN env : Allows(d, s.facts[v], env[v])}

(* Where a running function is: in an entered block, having come by an
   executable edge, with values the propagation explains. *)
RunInv(f, d, s, r) ==
    /\ r.at # Nil => r.at \in s.blocks /\ (r.from # Nil => <<r.from, r.at>> \in s.edges)
    /\ r.env \in Explained(f, d, s)

(* Explained, value by value. *)
LEMMA ExplainedFacts ==
  ASSUME NEW f, NEW d, NEW s, NEW env
  PROVE  env \in Explained(f, d, s) <=>
            /\ env = [v \in DOMAIN env |-> env[v]] /\ DOMAIN env \subseteq Variables(f)
            /\ \A v \in DOMAIN env : env[v] \in Int /\ Allows(d, s.facts[v], env[v])
<1>1. ASSUME env \in Explained(f, d, s)
      PROVE  /\ env = [v \in DOMAIN env |-> env[v]] /\ DOMAIN env \subseteq Variables(f)
             /\ \A v \in DOMAIN env : env[v] \in Int /\ Allows(d, s.facts[v], env[v])
  <2>1. PICK D \in SUBSET Variables(f) : env \in [D -> Int]
    BY <1>1 DEF Explained
  <2> QED  BY <1>1, <2>1 DEF Explained
<1>2. ASSUME env = [v \in DOMAIN env |-> env[v]], DOMAIN env \subseteq Variables(f),
             \A v \in DOMAIN env : env[v] \in Int /\ Allows(d, s.facts[v], env[v])
      PROVE  env \in Explained(f, d, s)
  <2>1. env \in [DOMAIN env -> Int]
    BY <1>2
  <2>2. env \in UNION {[D -> Int] : D \in SUBSET Variables(f)}
    BY <1>2, <2>1
  <2> QED  BY <1>2, <2>2 DEF Explained
<1> QED  BY <1>1, <1>2

(* The phis of a block take values their facts allow. *)
LEMMA EnterCore ==
  ASSUME NEW f, IsExecutable(f), NEW d \in Domains, NEW s, Accounts(f, d, s),
         NEW r, RunInv(f, d, s, r), r.at # Nil,
         \A phi \in ToSet(f.phis[r.at]) :
            /\ OperandsFrom(phi, r.from) # {}
            /\ \A o \in OperandsFrom(phi, r.from) : o.value \in DOMAIN r.env
  PROVE  EnterBlock(f, r) \in Explained(f, d, s)
<1> DEFINE b == r.at
           R == PhiResults(f, b)
           Phi(v) == CHOOSE phi \in ToSet(f.phis[b]) : phi.result = v
           Operand(v) == CHOOSE o \in OperandsFrom(Phi(v), r.from) : TRUE
           e == EnterBlock(f, r)
<1>1. b \in s.blocks /\ b \in NodeIds(f) /\ (r.from # Nil => <<r.from, b>> \in s.edges)
  BY DEF RunInv, Accounts, SparseStates
<1>2. /\ DOMAIN r.env \subseteq Variables(f)
      /\ \A v \in DOMAIN r.env : r.env[v] \in Int /\ Allows(d, s.facts[v], r.env[v])
  <2>1. r.env \in Explained(f, d, s)
    BY DEF RunInv
  <2> DEFINE x == r.env
  <2> HIDE DEF x
  <2>2. /\ DOMAIN x \subseteq Variables(f)
        /\ \A v \in DOMAIN x : x[v] \in Int /\ Allows(d, s.facts[v], x[v])
    BY <2>1, ExplainedFacts DEF x
  <2> QED  BY <2>2 DEF x
<1>3. e = [v \in R \cup DOMAIN r.env |-> IF v \in R THEN r.env[Operand(v).value] ELSE r.env[v]]
  BY DEF EnterBlock
<1>4. ASSUME NEW v \in R
      PROVE  /\ v \in Variables(f) /\ Operand(v).value \in DOMAIN r.env
             /\ Allows(d, s.facts[v], r.env[Operand(v).value])
  <2> DEFINE phi == Phi(v)
             o == Operand(v)
  <2>1. phi \in ToSet(f.phis[b]) /\ phi.result = v
    BY <1>4 DEF PhiResults
  <2> HIDE DEF phi
  <2>2. o \in OperandsFrom(phi, r.from)
    BY <2>1 DEF phi
  <2> HIDE DEF o
  <2>3. o \in ToSet(phi.operands) /\ o.pred = r.from /\ o.value \in DOMAIN r.env
    BY <2>1, <2>2 DEF OperandsFrom
  <2>4. o.pred \in NodeIds(f) /\ v \in Variables(f)
    BY <1>1, <2>1, <2>3, InstructionFacts DEF PhiSet
  <2>5. r.from # Nil
    BY <2>3, <2>4 DEF NodeIds, Nil
  <2>6. Includes(d, s.facts[v], s.facts[o.value])
    BY <1>1, <2>1, <2>3, <2>5 DEF Accounts
  <2>7. Allows(d, s.facts[v], r.env[o.value])
    BY <1>2, <2>3, <2>6 DEF Includes
  <2> QED  BY <2>3, <2>4, <2>7 DEF o, phi
<1> DEFINE val(v) == IF v \in R THEN r.env[Operand(v).value] ELSE r.env[v]
<1>5. \A v \in R \cup DOMAIN r.env :
         v \in Variables(f) /\ val(v) \in Int /\ Allows(d, s.facts[v], val(v))
  <2> HIDE DEF R, Operand
  <2> QED  BY <1>2, <1>4
<1>6. /\ e = [v \in DOMAIN e |-> e[v]] /\ DOMAIN e \subseteq Variables(f)
      /\ \A v \in DOMAIN e : e[v] \in Int /\ Allows(d, s.facts[v], e[v])
  <2>1. e = [v \in R \cup DOMAIN r.env |-> val(v)]
    BY <1>3
  <2> HIDE DEF e, val, R
  <2> QED  BY <1>5, <2>1
<1> HIDE DEF e
<1>7. e \in Explained(f, d, s)
  BY <1>6, ExplainedFacts
<1> QED  BY <1>7 DEF e

(* Integers are computed from integers. *)
LEMMA ComputedIsInteger ==
  ASSUME NEW op \in ValueOps, NEW value \in Int, NEW u, NEW w,
         op \in {"copy", "add", "clt", "clt_un", "ceq"} => u \in Int,
         op \in {"add", "clt", "clt_un", "ceq"} => w \in Int
  PROVE  Computed(op, value, u, w) \subseteq Int
<1>1. CASE op \in {"const", "copy"}
  BY <1>1 DEF Computed
<1>2. CASE op = "add"
  <2>1. Computed(op, value, u, w) = {Wrap(u + w)}
    BY <1>2 DEF Computed
  <2>2. u + w \in Int
    BY <1>2
  <2> QED  BY <2>1, <2>2, WrapIsInteger
<1>3. CASE op \in {"clt", "clt_un", "ceq"}
  <2>1. \E p : Computed(op, value, u, w) = {Truth(p)}
    BY <1>3 DEF Computed
  <2> QED  BY <2>1 DEF Truth
<1>4. CASE op \in {"length", "opaque"}
  BY <1>4, OpaqueAssumption, WidthIsInteger DEF Computed
<1> QED  BY <1>1, <1>2, <1>3, <1>4 DEF ValueOps

(* An instruction that is executed has its operands, and what it computes its
   fact allows. *)
LEMMA ExecuteCore ==
  ASSUME NEW f, IsExecutable(f), NEW d \in Domains, NEW s, Accounts(f, d, s),
         NEW b \in s.blocks, NEW i \in ToSet(f.body[b]), NEW env \in Explained(f, d, s),
         NEW e \in Execute(i, env)
  PROVE  /\ e \in Explained(f, d, s)
         /\ ToSet(i.args) \subseteq DOMAIN e
<1> DEFINE Arg(k) == IF k \in DOMAIN i.args THEN env[i.args[k]] ELSE 0
           Fact(k) == IF k \in DOMAIN i.args THEN s.facts[i.args[k]] ELSE Top
<1>1. /\ s \in SparseStates(f, d) /\ s.domain = d /\ b \in NodeIds(f)
      /\ s.facts \in [Variables(f) -> FactsOf(d)]
  BY DEF Accounts, SparseStates
<1>2. /\ i \in InstructionSet(f) /\ HasItsOperands(i) /\ ToSet(i.args) \subseteq Variables(f)
      /\ i.dest # Nil => i.op \in ValueOps /\ i.dest \in Variables(f)
      /\ i.value \in Int /\ i.args \in Seq(Variables(f))
  <2>1. /\ i \in InstructionSet(f) /\ HasItsOperands(i) /\ ToSet(i.args) \subseteq Variables(f)
        /\ i.dest # Nil => i.op \in ValueOps /\ i.dest \in Variables(f)
    BY <1>1, InstructionFacts
  <2> QED  BY <2>1, WidthIsInteger DEF InstructionSet
<1>3. /\ DOMAIN env \subseteq Variables(f)
      /\ \A v \in DOMAIN env : env[v] \in Int /\ Allows(d, s.facts[v], env[v])
  BY ExplainedFacts
<1>4. ToSet(i.args) \subseteq DOMAIN env
  BY DEF Execute
<1>5. CASE i.dest = Nil
  BY <1>4, <1>5 DEF Execute
<1>6. CASE i.dest # Nil
  <2>1. PICK x \in Computed(i.op, i.value, Arg(1), Arg(2)) :
           e = [v \in DOMAIN env \cup {i.dest} |-> IF v = i.dest THEN x ELSE env[v]]
    BY <1>4, <1>6 DEF Execute
  <2>2. \A k : /\ Arg(k) \in Int
               /\ k \in DOMAIN i.args => Allows(d, Fact(k), Arg(k))
    BY <1>3, <1>4 DEF ToSet
  <2>3. Fact(1) \in FactsOf(d) /\ Fact(2) \in FactsOf(d)
    <3>1. Top \in FactsOf(d)
      BY DEF FactsOf, ConstantFacts, RangeFacts
    <3>2. \A k \in DOMAIN i.args : s.facts[i.args[k]] \in FactsOf(d)
      BY <1>1, <1>2
    <3> QED  BY <3>1, <3>2
  <2>4. /\ i.op \in {"copy", "add", "clt", "clt_un", "ceq"} => 1 \in DOMAIN i.args
        /\ i.op \in {"add", "clt", "clt_un", "ceq"} => 2 \in DOMAIN i.args
    BY <1>2 DEF HasItsOperands
  <2> DEFINE u == Arg(1)
             w == Arg(2)
             p == Fact(1)
             q == Fact(2)
             fact == EvaluateFact(d, i.op, i.value, p, q)
  <2>5. Evaluate(s, i) = fact
    BY <1>1 DEF Evaluate, EvaluateFact
  <2>6. Includes(d, s.facts[i.dest], fact)
    BY <1>6, <2>5 DEF Accounts
  <2>7. /\ u \in Int /\ w \in Int
        /\ i.op \in {"copy", "add", "clt", "clt_un", "ceq"} => Allows(d, p, u)
        /\ i.op \in {"add", "clt", "clt_un", "ceq"} => Allows(d, q, w)
    BY <2>2, <2>4
  <2>8. x \in Computed(i.op, i.value, u, w) /\ p \in FactsOf(d) /\ q \in FactsOf(d)
    BY <2>1, <2>3
  <2> HIDE DEF u, w, p, q
  <2>10. x \in Int
    BY <1>2, <1>6, <2>7, <2>8, ComputedIsInteger
  <2>11. Allows(d, fact, x)
    BY <1>2, <1>6, <2>7, <2>8, <2>10, EvaluateIsSound
  <2>12. Allows(d, s.facts[i.dest], x)
    BY <2>6, <2>10, <2>11 DEF Includes
  <2>13. /\ e = [v \in DOMAIN e |-> e[v]] /\ DOMAIN e \subseteq Variables(f)
         /\ \A v \in DOMAIN e : e[v] \in Int /\ Allows(d, s.facts[v], e[v])
    BY <1>2, <1>3, <1>6, <2>1, <2>10, <2>12
  <2>14. DOMAIN env \subseteq DOMAIN e
    BY <2>1
  <2> QED  BY <1>4, <2>13, <2>14, ExplainedFacts
<1> QED  BY <1>5, <1>6

(* Of a value its fact allows, a branch and a switch take a target the
   propagation takes. *)
LEMMA BranchCore ==
  ASSUME NEW d \in Domains, NEW s, s.domain = d, NEW fact \in FactsOf(d), NEW x \in Int,
         Allows(d, fact, x), d = "ranges" => fact # Top,
         NEW S, NEW targets \in Seq(S), Len(targets) = 2
  PROVE  (IF x # 0 THEN targets[1] ELSE targets[2]) \in ToSet(BranchTargets(s, fact, targets))
<1> DEFINE c == IF x # 0 THEN targets[1] ELSE targets[2]
<1>1. c \in ToSet(targets) /\ c = targets[IF x # 0 THEN 1 ELSE 2]
  BY DEF ToSet
<1>2. CASE IsConstant(fact)
  <2>1. ValueOf(fact) = x
    BY <1>2, ConstantValue
  <2>2. BranchTargets(s, fact, targets) = <<c>>
    BY <1>1, <1>2, <2>1 DEF BranchTargets
  <2> HIDE DEF c
  <2>3. c \in ToSet(<<c>>)
    BY DEF ToSet
  <2> QED  BY <2>2, <2>3 DEF c
<1>3. CASE ~IsConstant(fact) /\ d = "constants"
  <2>1. fact = Bottom
    BY <1>3, FactsDiffer DEF Allows, AllowsConstant
  <2>2. BranchTargets(s, fact, targets) = targets
    BY <1>3, <2>1, FactsDiffer DEF BranchTargets
  <2> QED  BY <1>1, <2>2
<1>4. CASE ~IsConstant(fact) /\ d = "ranges"
  <2>1. PICK p \in Int, q \in Int : fact = Interval(p, q)
    <3>1. fact # Bottom
      BY <1>4, IntervalFacts DEF Allows
    <3> QED  BY <1>4, <3>1 DEF FactsOf, RangeFacts
  <2>2. p <= x /\ MinOf(fact) = p
    BY <1>4, <2>1, IntervalFacts DEF Allows, MinOf
  <2>3. BranchTargets(s, fact, targets) = IF p > 0 THEN <<targets[1]>> ELSE targets
    BY <1>4, <2>1, <2>2, IntervalFacts DEF BranchTargets
  <2>4. targets[1] \in ToSet(<<targets[1]>>)
    <3> DEFINE m == targets[1]
    <3> HIDE DEF m
    <3>1. m \in ToSet(<<m>>)
      BY DEF ToSet
    <3> QED  BY <3>1 DEF m
  <2> QED  BY <1>1, <2>2, <2>3, <2>4
<1> QED  BY <1>2, <1>3, <1>4 DEF Domains

(* A switch takes one of its targets. *)
LEMMA SwitchCore ==
  ASSUME NEW S, NEW targets \in Seq(S), targets # <<>>, NEW x \in Int
  PROVE  SwitchTarget(targets, x) \in ToSet(targets)
<1>1. \E k \in 1 .. Len(targets) : SwitchTarget(targets, x) = targets[k]
  BY DEF SwitchTarget, Last
<1> QED  BY <1>1 DEF ToSet

(* Control goes where the terminator's fact lets the propagation go. *)
LEMMA TargetCore ==
  ASSUME NEW f, IsExecutable(f), NEW d \in Domains, NEW s, Accounts(f, d, s),
         d = "ranges" => KnownBranches(f, s), NEW b \in s.blocks, NEW e \in Explained(f, d, s),
         ToSet(Terminator(f, b).args) \subseteq DOMAIN e, Target(Terminator(f, b), e) # Nil
  PROVE  <<b, Target(Terminator(f, b), e)>> \in s.edges
<1> DEFINE t == Terminator(f, b)
           c == Target(t, e)
<1>1. /\ s \in SparseStates(f, d) /\ s.domain = d /\ b \in NodeIds(f)
      /\ s.facts \in [Variables(f) -> FactsOf(d)]
  BY DEF Accounts, SparseStates
<1>2. /\ t \in InstructionSet(f) /\ HasItsOperands(t) /\ IsTerminator(t)
      /\ ToSet(t.args) \subseteq Variables(f)
      /\ t.args \in Seq(Variables(f)) /\ t.targets \in Seq(NodeIds(f))
  <2>1. t \in ToSet(f.body[b]) /\ IsTerminator(t)
    BY <1>1, InstructionFacts
  <2> HIDE DEF t
  <2>2. t \in InstructionSet(f) /\ HasItsOperands(t) /\ ToSet(t.args) \subseteq Variables(f)
    BY <1>1, <2>1, InstructionFacts
  <2> QED  BY <2>1, <2>2 DEF InstructionSet
<1>3. \A v \in DOMAIN e : e[v] \in Int /\ Allows(d, s.facts[v], e[v])
  BY ExplainedFacts
<1>4. /\ ToSet(t.args) \subseteq DOMAIN e /\ c # Nil
      /\ \A a \in ToSet(ChosenTargets(s, t)) : <<b, a>> \in s.edges
      /\ d = "ranges" /\ b = 0 => \A a \in ToSet(t.targets) : <<b, a>> \in s.edges
      /\ d = "ranges" /\ b # 0 /\ t.op = "branch" => s.facts[t.args[1]] # Top
  BY DEF Accounts, KnownBranches
<1> HIDE DEF t
<1> DEFINE v == t.args[1]
           x == e[v]
           fact == s.facts[v]
<1>5. ASSUME t.op \in {"branch", "switch"}
      PROVE  v \in Variables(f) /\ x \in Int /\ fact \in FactsOf(d) /\ Allows(d, fact, x)
  <2>1. v \in ToSet(t.args)
    BY <1>2, <1>5 DEF HasItsOperands, ToSet
  <2>2. v \in Variables(f) /\ v \in DOMAIN e
    BY <1>2, <1>4, <2>1
  <2> HIDE DEF v
  <2> QED  BY <1>1, <1>3, <2>2
<1>6. CASE t.op = "return"
  BY <1>4, <1>6 DEF Target
<1>7. CASE t.op = "jump"
  <2>1. t.targets # <<>> /\ c = t.targets[1] /\ ChosenTargets(s, t) = t.targets
    BY <1>2, <1>7 DEF HasItsOperands, Target, ChosenTargets
  <2>2. c \in ToSet(t.targets)
    BY <1>2, <2>1 DEF ToSet
  <2> QED  BY <1>4, <2>1, <2>2 DEF t
<1>8. CASE t.op = "branch"
  <2>1. c = IF x # 0 THEN t.targets[1] ELSE t.targets[2]
    BY <1>8 DEF Target
  <2>2. Len(t.targets) = 2
    BY <1>2, <1>8 DEF HasItsOperands
  <2>3. CASE d = "ranges" /\ b = 0
    <3>1. c \in ToSet(t.targets)
      BY <1>2, <2>1, <2>2 DEF ToSet
    <3> QED  BY <1>4, <2>3, <3>1 DEF t
  <2>4. CASE ~(d = "ranges" /\ b = 0)
    <3>1. ChosenTargets(s, t) = BranchTargets(s, fact, t.targets)
      BY <1>8 DEF ChosenTargets
    <3>2. d = "ranges" => fact # Top
      BY <1>4, <1>8, <2>4
    <3> DEFINE y == x
               q == fact
    <3>3. y \in Int /\ q \in FactsOf(d) /\ Allows(d, q, y) /\ (d = "ranges" => q # Top)
      BY <1>5, <1>8, <3>2
    <3> HIDE DEF y, q
    <3>4. (IF y # 0 THEN t.targets[1] ELSE t.targets[2]) \in ToSet(BranchTargets(s, q, t.targets))
      BY <1>1, <1>2, <2>2, <3>3, BranchCore
    <3>5. c \in ToSet(ChosenTargets(s, t))
      BY <2>1, <3>1, <3>4 DEF y, q
    <3> QED  BY <1>4, <3>5 DEF t
  <2> QED  BY <2>3, <2>4
<1>9. CASE t.op = "switch"
  <2> DEFINE known == IsConstant(fact) /\ (d = "ranges" => ValueOf(fact) >= 0)
  <2>1. c = SwitchTarget(t.targets, x)
    BY <1>9 DEF Target
  <2>2. ChosenTargets(s, t) = IF known THEN <<SwitchTarget(t.targets, ValueOf(fact))>> ELSE t.targets
    BY <1>1, <1>9 DEF ChosenTargets
  <2>3. t.targets # <<>>
    BY <1>2, <1>9 DEF HasItsOperands
  <2>4. CASE known
    <3>1. ValueOf(fact) = x
      BY <1>5, <1>9, <2>4, ConstantValue
    <3>2. ChosenTargets(s, t) = <<c>>
      BY <2>1, <2>2, <2>4, <3>1
    <3>3. c \in ToSet(ChosenTargets(s, t))
      <4> HIDE DEF c
      <4> QED  BY <3>2 DEF ToSet
    <3> QED  BY <1>4, <3>3 DEF t
  <2>5. CASE ~known
    <3>1. c \in ToSet(t.targets)
      BY <1>2, <1>5, <1>9, <2>1, <2>3, SwitchCore
    <3> QED  BY <1>4, <2>2, <2>5, <3>1 DEF t
  <2> QED  BY <2>4, <2>5
<1> QED  BY <1>2, <1>6, <1>7, <1>8, <1>9 DEF IsTerminator, t

(* What a block leaves of the values it was entered with. *)
LEMMA BodyCore ==
  ASSUME NEW f, IsExecutable(f), NEW d \in Domains, NEW s, Accounts(f, d, s),
         NEW b \in s.blocks, NEW env \in Explained(f, d, s), NEW e \in RunAll({env}, f.body[b])
  PROVE  e \in Explained(f, d, s) /\ ToSet(Terminator(f, b).args) \subseteq DOMAIN e
<1> DEFINE w == f.body[b]
           T == ToSet(w)
           G == Explained(f, d, s)
           A == SUBSET G
           P == [k \in 0 .. Len(w) |->
                    {envs \in A : \A x \in envs : k # 0 => ToSet(w[k].args) \subseteq DOMAIN x}]
<1>1. w \in Seq(InstructionSet(f)) /\ w # <<>> /\ Terminator(f, b) = w[Len(w)]
  <2>1. b \in NodeIds(f)
    BY DEF Accounts, SparseStates
  <2> QED  BY <2>1, InstructionFacts DEF Terminator, Last
<1> HIDE DEF w
<1>2. /\ Len(w) \in Nat \ {0} /\ DOMAIN w = 1 .. Len(w) /\ \A k \in 1 .. Len(w) : w[k] \in T
      /\ w \in Seq(T)
  BY <1>1 DEF ToSet
<1>3. \A i \in T : \A x \in G : \A y \in Execute(i, x) : y \in G /\ ToSet(i.args) \subseteq DOMAIN y
  BY ExecuteCore DEF w
<1> HIDE DEF T, G
<1>4. {env} \in A /\ {env} \in P[0]
  BY <1>2 DEF G
<1>5. P \in [0 .. Len(w) -> SUBSET A]
  OBVIOUS
<1>6. \A envs \in A : \A i \in T : Executed(i, envs) \in A
  BY <1>3 DEF Executed
<1>7. ASSUME NEW k \in 1 .. Len(w), NEW envs \in P[k - 1]
      PROVE  Executed(w[k], envs) \in P[k]
  <2>1. k \in 0 .. Len(w) /\ k - 1 \in 0 .. Len(w) /\ w[k] \in T
    BY <1>2
  <2>2. envs \in A
    BY <2>1
  <2> DEFINE i == w[k]
             U == Executed(i, envs)
  <2>3. U \in A
    BY <1>6, <2>1, <2>2
  <2>4. \A y \in U : ToSet(i.args) \subseteq DOMAIN y
    BY <1>3, <2>1, <2>2 DEF Executed
  <2>5. U \in P[k]
    <3> HIDE DEF U
    <3> QED  BY <2>1, <2>3, <2>4
  <2> QED  BY <2>5
<1>8. RunAll({env}, w) \in P[Len(w)]
  <2> DEFINE start == {env}
  <2> HIDE DEF A, P, start
  <2>1. start \in A /\ start \in P[0]
    BY <1>4 DEF start
  <2>2. RunAll(start, w) \in P[Len(w)]
    BY <1>2, <1>5, <1>6, <1>7, <2>1, RunFold
  <2> QED  BY <2>2 DEF start
<1>9. e \in RunAll({env}, w)
  BY DEF w
<1>10. Len(w) \in 0 .. Len(w) /\ Len(w) # 0
  BY <1>2
<1>11. e \in G /\ ToSet(w[Len(w)].args) \subseteq DOMAIN e
  BY <1>8, <1>9, <1>10
<1> QED  BY <1>1, <1>11 DEF G

(* A block runs, and control goes on. *)
LEMMA OutcomeCore ==
  ASSUME NEW f, IsExecutable(f), NEW d \in Domains, NEW s, Accounts(f, d, s),
         d = "ranges" => KnownBranches(f, s),
         NEW r, RunInv(f, d, s, r), r.at # Nil, NEW o \in Outcomes(f, r)
  PROVE  RunInv(f, d, s, o)
<1> DEFINE b == r.at
           env == EnterBlock(f, r)
<1>1. b \in s.blocks
  BY DEF RunInv
<1>2. /\ \A phi \in ToSet(f.phis[b]) :
            /\ OperandsFrom(phi, r.from) # {}
            /\ \A x \in OperandsFrom(phi, r.from) : x.value \in DOMAIN r.env
      /\ \E e \in RunAll({env}, f.body[b]) : o = [at |-> Target(Terminator(f, b), e), from |-> b, env |-> e]
  BY Zenon DEF Outcomes, RunAll, Executed
<1>3. PICK e \in RunAll({env}, f.body[b]) : o = [at |-> Target(Terminator(f, b), e), from |-> b, env |-> e]
  BY <1>2
<1>4. env \in Explained(f, d, s)
  BY <1>2, EnterCore
<1> HIDE DEF env
<1>5. e \in Explained(f, d, s) /\ ToSet(Terminator(f, b).args) \subseteq DOMAIN e
  BY <1>1, <1>3, <1>4, BodyCore
<1>6. o.at = Target(Terminator(f, b), e) /\ o.from = b /\ o.env = e
  BY <1>3
<1>7. o.at # Nil => <<b, o.at>> \in s.edges
  BY <1>1, <1>5, <1>6, TargetCore
<1>8. o.at # Nil => o.at \in s.blocks
  <2>1. \A x \in s.edges : x[2] \in s.blocks
    BY DEF Accounts
  <2> QED  BY <1>7, <2>1
<1> QED  BY <1>5, <1>6, <1>7, <1>8 DEF RunInv

-----------------------------------------------------------------------------
(* Dominance *)

(* Every path from the entry to b enters a. *)
Dominates(g, a, b) == b \in Behind(g, 0)[a]

(* Dominance by paths that avoid a block. *)
LEMMA DominanceFacts ==
  ASSUME NEW g, IsGraph(g), 0 \in NodeIds(g), NEW a \in NodeIds(g)
  PROVE  LET reach == ReachableFrom(g, 0)
             off == ReachableAvoiding(g, {0}, {a})
         IN  /\ \A b : Dominates(g, a, b) <=> b \in reach /\ b \notin off
             /\ a \notin off /\ (a # 0 => 0 \in off)
             /\ \A v \in off : \A w \in SuccessorSet(g, v) : w = a \/ w \in off
             /\ \A Y : (a # 0 => 0 \in Y)
                       /\ (\A v \in off \cap Y : \A w \in SuccessorSet(g, v) : w = a \/ w \in Y)
                         => off \subseteq Y
<1> DEFINE starts == {0}
           closed == {a}
           off == ReachableAvoiding(g, starts, closed)
<1>1. starts \in SUBSET NodeIds(g)
  OBVIOUS
<1>2. \A b : Dominates(g, a, b) <=> b \in ReachableFrom(g, 0) /\ b \notin off
  BY DEF Dominates, Behind
<1> HIDE DEF off, starts, closed
<1>3. /\ off \subseteq NodeIds(g) \ closed /\ starts \ closed \subseteq off /\ IsClosed(g, closed, off)
      /\ \A Y : starts \ closed \subseteq Y /\ (\A w \in off \cap Y : SuccessorSet(g, w) \ closed \subseteq Y)
                  => off \subseteq Y
  BY <1>1, ReachableFacts DEF off
<1>4. a \notin off /\ (a # 0 => 0 \in off)
  BY <1>3 DEF starts, closed
<1>5. \A v \in off : \A w \in SuccessorSet(g, v) : w = a \/ w \in off
  BY <1>3 DEF IsClosed, closed
<1>6. ASSUME NEW Y, a # 0 => 0 \in Y,
             \A v \in off \cap Y : \A w \in SuccessorSet(g, v) : w = a \/ w \in Y
      PROVE  off \subseteq Y
  <2>1. starts \ closed \subseteq Y
    BY <1>6 DEF starts, closed
  <2>2. \A w \in off \cap Y : SuccessorSet(g, w) \ closed \subseteq Y
    BY <1>6 DEF closed
  <2> QED  BY <1>3, <2>1, <2>2
<1>7. \A Y : (a # 0 => 0 \in Y)
             /\ (\A v \in off \cap Y : \A w \in SuccessorSet(g, v) : w = a \/ w \in Y)
               => off \subseteq Y
  BY <1>6
<1> QED  BY <1>2, <1>4, <1>5, <1>7 DEF off, starts, closed

(* Dominance orders the blocks that can be reached, as a tree. *)
LEMMA DominanceOrder ==
  ASSUME NEW g, IsGraph(g), 0 \in NodeIds(g), NEW a \in NodeIds(g), NEW b \in NodeIds(g)
  PROVE  /\ a \in ReachableFrom(g, 0) => Dominates(g, a, a)
         /\ Dominates(g, a, b) => a \in ReachableFrom(g, 0) /\ b \in ReachableFrom(g, 0)
         /\ Dominates(g, a, 0) => a = 0
         /\ \A c : Dominates(g, a, b) /\ Dominates(g, b, c) => Dominates(g, a, c)
         /\ Dominates(g, a, b) /\ Dominates(g, b, a) => a = b
         /\ \A c \in SuccessorSet(g, b) :
               b \in ReachableFrom(g, 0) /\ Dominates(g, a, c) /\ a # c => Dominates(g, a, b)
<1> DEFINE reach == ReachableFrom(g, 0)
           offA == ReachableAvoiding(g, {0}, {a})
           offB == ReachableAvoiding(g, {0}, {b})
<1>1. /\ \A c : Dominates(g, a, c) <=> c \in reach /\ c \notin offA
      /\ a \notin offA /\ (a # 0 => 0 \in offA)
      /\ \A v \in offA : \A w \in SuccessorSet(g, v) : w = a \/ w \in offA
      /\ \A Y : (a # 0 => 0 \in Y)
                /\ (\A v \in offA \cap Y : \A w \in SuccessorSet(g, v) : w = a \/ w \in Y)
                  => offA \subseteq Y
  BY DominanceFacts, Zenon
<1>2. /\ \A c : Dominates(g, b, c) <=> c \in reach /\ c \notin offB
      /\ b \notin offB /\ (b # 0 => 0 \in offB)
      /\ \A v \in offB : \A w \in SuccessorSet(g, v) : w = b \/ w \in offB
  BY DominanceFacts, Zenon
<1>3. /\ 0 \in reach /\ \A v \in reach : SuccessorSet(g, v) \subseteq reach
      /\ \A Y : 0 \in Y /\ (\A v \in reach \cap Y : SuccessorSet(g, v) \subseteq Y) => reach \subseteq Y
  BY ReachFacts
<1> HIDE DEF reach, offA, offB
<1>4. a \in reach => Dominates(g, a, a)
  BY <1>1
<1>5. Dominates(g, a, 0) => a = 0
  BY <1>1
<1>6. ASSUME Dominates(g, a, b) PROVE a \in reach
  <2> SUFFICES ASSUME a \notin reach PROVE FALSE
    OBVIOUS
  <2>1. reach \subseteq offA
    <3>1. 0 \in offA
      BY <1>1, <1>3
    <3>2. \A v \in reach \cap offA : SuccessorSet(g, v) \subseteq offA
      BY <1>1, <1>3
    <3> QED  BY <1>3, <3>1, <3>2
  <2> QED  BY <1>1, <1>6, <2>1
<1>7. ASSUME NEW c, Dominates(g, a, b), Dominates(g, b, c) PROVE Dominates(g, a, c)
  <2>1. b = 0 => a = 0
    BY <1>1, <1>7
  <2>2. \A v \in offA \cap offB : \A w \in SuccessorSet(g, v) : w = a \/ w \in offB
    BY <1>1, <1>2, <1>7
  <2>3. offA \subseteq offB
    BY <1>1, <1>2, <2>1, <2>2
  <2> QED  BY <1>1, <1>2, <1>7, <2>3
<1>8. ASSUME Dominates(g, a, b), Dominates(g, b, a) PROVE a = b
  <2> SUFFICES ASSUME a # b PROVE FALSE
    OBVIOUS
  <2>1. 0 \in offA \cap offB
    BY <1>1, <1>2, <1>8
  <2>2. \A v \in reach \cap (offA \cap offB) : SuccessorSet(g, v) \subseteq offA \cap offB
    BY <1>1, <1>2, <1>8
  <2>3. reach \subseteq offA \cap offB
    BY <1>3, <2>1, <2>2
  <2> QED  BY <1>1, <1>6, <1>8, <2>3
<1>9. ASSUME NEW c \in SuccessorSet(g, b), b \in reach, Dominates(g, a, c), a # c
      PROVE  Dominates(g, a, b)
  BY <1>1, <1>9
<1>10. Dominates(g, a, b) => b \in reach
  BY <1>1
<1> QED  BY <1>4, <1>5, <1>6, <1>7, <1>8, <1>9, <1>10 DEF reach

(* Edges that are added only take dominators away. *)
LEMMA DominanceShrinks ==
  ASSUME NEW g, NEW h, IsGraph(g), IsGraph(h), NodeIds(h) = NodeIds(g), 0 \in NodeIds(g),
         \A v \in NodeIds(g) : SuccessorSet(g, v) \subseteq SuccessorSet(h, v),
         NEW a \in NodeIds(g), NEW b \in ReachableFrom(g, 0), Dominates(h, a, b)
  PROVE  Dominates(g, a, b)
<1> DEFINE offG == ReachableAvoiding(g, {0}, {a})
           offH == ReachableAvoiding(h, {0}, {a})
<1>1. /\ \A c : Dominates(g, a, c) <=> c \in ReachableFrom(g, 0) /\ c \notin offG
      /\ \A Y : (a # 0 => 0 \in Y)
                /\ (\A v \in offG \cap Y : \A w \in SuccessorSet(g, v) : w = a \/ w \in Y)
                  => offG \subseteq Y
  BY DominanceFacts, Zenon
<1>2. /\ \A c : Dominates(h, a, c) <=> c \in ReachableFrom(h, 0) /\ c \notin offH
      /\ (a # 0 => 0 \in offH)
      /\ \A v \in offH : \A w \in SuccessorSet(h, v) : w = a \/ w \in offH
  BY DominanceFacts, Zenon
<1>3. offG \subseteq NodeIds(g)
  <2> DEFINE starts == {0}
             closed == {a}
             X == ReachableAvoiding(g, starts, closed)
  <2>1. starts \in SUBSET NodeIds(g)
    OBVIOUS
  <2> HIDE DEF starts, closed, X
  <2>2. X \subseteq NodeIds(g) \ closed
    BY <2>1, ReachableFacts DEF X
  <2> QED  BY <2>2 DEF X, starts, closed
<1> HIDE DEF offG, offH
<1>4. \A v \in offG \cap offH : \A w \in SuccessorSet(g, v) : w = a \/ w \in offH
  BY <1>2, <1>3
<1>5. offG \subseteq offH
  BY <1>1, <1>2, <1>4
<1> QED  BY <1>1, <1>2, <1>5

(* A block with one predecessor is dominated by it. *)
LEMMA SolePredecessor ==
  ASSUME NEW g, IsGraph(g), 0 \in NodeIds(g), NEW c \in ReachableFrom(g, 0), c # 0,
         NEW p \in NodeIds(g), PredecessorSet(g, c) = {p}
  PROVE  p # c /\ Dominates(g, p, c)
<1> DEFINE reach == ReachableFrom(g, 0)
           off == ReachableAvoiding(g, {0}, {p})
<1>1. /\ 0 \in reach /\ reach \subseteq NodeIds(g)
      /\ \A Y : 0 \in Y /\ (\A v \in reach \cap Y : SuccessorSet(g, v) \subseteq Y) => reach \subseteq Y
  BY ReachFacts
<1>2. \A v \in NodeIds(g) : c \in SuccessorSet(g, v) => v = p
  BY DEF PredecessorSet
<1> HIDE DEF reach
<1>3. p # c
  <2> SUFFICES ASSUME p = c PROVE FALSE
    OBVIOUS
  <2> DEFINE Z == NodeIds(g) \ {c}
  <2>1. \A v \in reach \cap Z : SuccessorSet(g, v) \subseteq reach
    BY ReachFacts DEF reach
  <2>2. \A v \in reach \cap Z : SuccessorSet(g, v) \subseteq Z
    BY <1>1, <1>2, <2>1
  <2>3. reach \subseteq Z
    <3> HIDE DEF Z
    <3>1. 0 \in Z
      BY DEF Z
    <3> QED  BY <1>1, <2>2, <3>1
  <2> QED  BY <2>3 DEF reach
<1>4. /\ \A b : Dominates(g, p, b) <=> b \in reach /\ b \notin off
      /\ p \notin off
      /\ \A v \in off : \A w \in SuccessorSet(g, v) : w = p \/ w \in off
      /\ \A Y : (p # 0 => 0 \in Y)
                /\ (\A v \in off \cap Y : \A w \in SuccessorSet(g, v) : w = p \/ w \in Y)
                  => off \subseteq Y
  BY DominanceFacts, Zenon DEF reach
<1>5. off \subseteq NodeIds(g)
  <2> DEFINE starts == {0}
             closed == {p}
             X == ReachableAvoiding(g, starts, closed)
  <2>1. starts \in SUBSET NodeIds(g)
    OBVIOUS
  <2> HIDE DEF starts, closed, X
  <2>2. X \subseteq NodeIds(g) \ closed
    BY <2>1, ReachableFacts DEF X
  <2> QED  BY <2>2 DEF X, starts, closed
<1> HIDE DEF off
<1>6. off \subseteq off \ {c}
  <2> DEFINE Z == off \ {c}
  <2>1. p # 0 => 0 \in Z
    <3>1. p # 0 => 0 \in off
      BY DominanceFacts DEF off
    <3> QED  BY <3>1
  <2>2. \A v \in off \cap Z : \A w \in SuccessorSet(g, v) : w = p \/ w \in Z
    BY <1>2, <1>4, <1>5
  <2> HIDE DEF Z
  <2>3. off \subseteq Z
    BY <1>4, <2>1, <2>2
  <2> QED  BY <2>3 DEF Z
<1> QED  BY <1>3, <1>4, <1>6 DEF reach

-----------------------------------------------------------------------------
(* What the verifier leaves of a function: a definition dominates its uses *)

(* What can be verified: the premises InquiriesAssumption has for a sparse
   analysis. *)
IsVerified(f) ==
    IsFunction(f) /\ IsExecutable(f) /\ IsSingleAssignment(f) /\ IsStrict(f)

(* An operand is defined in the block that reads it, before that, or in one that
   dominates it. *)
LEMMA StrictReads ==
  ASSUME NEW f, IsVerified(f), NEW c \in ReachableFrom(SsaCfg(f), 0), NEW k \in DOMAIN f.body[c],
         NEW v \in ToSet(f.body[c][k].args), NEW b \in NodeIds(f), v \in DefinedIn(f, b)
  PROVE  \/ b # c /\ Dominates(SsaCfg(f), b, c)
         \/ b = c /\ (v \in PhiResults(f, c) \/ \E j \in 1 .. k - 1 : f.body[c][j].dest = v)
<1>1. /\ NodeIds(SsaCfg(f)) = NodeIds(f) /\ c \in NodeIds(f)
      /\ Nil \notin Variables(f) /\ v \in Variables(f)
  <2>1. IsFunction(f)
    BY DEF IsVerified
  <2>2. IsGraph(SsaCfg(f)) /\ NodeIds(SsaCfg(f)) = NodeIds(f) /\ 0 \in NodeIds(f)
    BY <2>1, SsaCfgIsGraph, FunctionHasEntry
  <2>3. c \in NodeIds(f)
    BY <2>2, ReachFacts
  <2> QED  BY <2>2, <2>3 DEF IsVerified, IsExecutable, Variables
<1>2. v \in DefinedBefore(f, c, k)
  BY DEF IsVerified, IsStrict
<1>3. \A d \in NodeIds(f) : v \in DefinedIn(f, d) => d = b
  <2> SUFFICES ASSUME NEW d \in NodeIds(f), v \in DefinedIn(f, d) PROVE d = b
    OBVIOUS
  <2>1. IsSingleAssignment(f)
    BY DEF IsVerified
  <2>2. CASE v \in Dests(f, b) /\ v \in Dests(f, d)
    <3>1. PICK i \in DOMAIN f.body[b], j \in DOMAIN f.body[d] :
             f.body[b][i].dest = v /\ f.body[d][j].dest = v /\ v # Nil
      BY <2>2 DEF Dests, ToSet
    <3> QED  BY <2>1, <3>1 DEF IsSingleAssignment
  <2>3. CASE v \in PhiResults(f, b) /\ v \in PhiResults(f, d)
    <3>1. PICK i \in DOMAIN f.phis[b], j \in DOMAIN f.phis[d] :
             f.phis[b][i].result = v /\ f.phis[d][j].result = v
      BY <2>3 DEF PhiResults, ToSet
    <3> QED  BY <2>1, <3>1 DEF IsSingleAssignment
  <2>4. PhiResults(f, b) \cap Dests(f, d) = {} /\ PhiResults(f, d) \cap Dests(f, b) = {}
    BY <2>1 DEF IsSingleAssignment
  <2> QED  BY <2>2, <2>3, <2>4 DEF DefinedIn
<1>4. v \notin f.initial.supplied
  BY DEF IsVerified, IsSingleAssignment
<1>5. CASE v \in PhiResults(f, c)
  BY <1>1, <1>3, <1>5 DEF DefinedIn
<1>6. CASE \E j \in 1 .. k - 1 : f.body[c][j].dest = v
  <2>1. PICK j \in 1 .. k - 1 : f.body[c][j].dest = v
    BY <1>6
  <2>2. f.body[c] \in Seq(InstructionSet(f))
    BY <1>1 DEF IsVerified, IsExecutable
  <2>3. j \in DOMAIN f.body[c]
    BY <2>2
  <2>4. v \in Dests(f, c)
    BY <1>1, <2>1, <2>3 DEF Dests, ToSet
  <2> QED  BY <1>1, <1>3, <1>6, <2>4 DEF DefinedIn
<1>7. CASE \E d \in {a \in NodeIds(f) \ {c} : c \in Behind(SsaCfg(f), 0)[a]} : v \in DefinedIn(f, d)
  BY <1>3, <1>7 DEF Dominates
<1> QED  BY <1>2, <1>4, <1>5, <1>6, <1>7 DEF DefinedBefore

(* No operand of a block's instruction is defined there or later in the block. *)
LEMMA ReadsAreEarlier ==
  ASSUME NEW f, IsVerified(f), NEW c \in ReachableFrom(SsaCfg(f), 0), NEW k \in DOMAIN f.body[c],
         NEW j \in DOMAIN f.body[c], j <= k, f.body[c][k].dest # Nil
  PROVE  /\ f.body[c][k].dest \notin ToSet(f.body[c][j].args)
         /\ j # k => f.body[c][k].dest # f.body[c][j].dest
<1> DEFINE v == f.body[c][k].dest
<1>1. IsFunction(f) /\ IsExecutable(f) /\ IsSingleAssignment(f)
  BY DEF IsVerified
<1>2. c \in NodeIds(f)
  <2>1. IsGraph(SsaCfg(f)) /\ NodeIds(SsaCfg(f)) = NodeIds(f) /\ 0 \in NodeIds(f)
    BY <1>1, SsaCfgIsGraph, FunctionHasEntry
  <2> QED  BY <2>1, ReachFacts
<1>3. f.body[c] \in Seq(InstructionSet(f))
  BY <1>1, <1>2 DEF IsExecutable
<1>4. \A i \in DOMAIN f.body[c] : f.body[c][i].dest = v => i = k
  BY <1>1, <1>2 DEF IsSingleAssignment
<1>5. v \in Dests(f, c) /\ v \notin PhiResults(f, c)
  <2>1. v \in Dests(f, c)
    BY DEF Dests, ToSet
  <2> QED  BY <1>1, <1>2, <2>1 DEF IsSingleAssignment
<1>6. ASSUME v \in ToSet(f.body[c][j].args) PROVE FALSE
  <2>1. \E i \in 1 .. j - 1 : f.body[c][i].dest = v
    BY <1>2, <1>5, <1>6, StrictReads DEF DefinedIn
  <2>2. PICK i \in 1 .. j - 1 : f.body[c][i].dest = v
    BY <2>1
  <2>3. i \in DOMAIN f.body[c] /\ i # k
    BY <1>3, <2>2
  <2> QED  BY <1>4, <2>2, <2>3
<1> QED  BY <1>4, <1>6

(* What a block that strictly dominates b defines or reads, b does not define. *)
LEMMA DominatedDefinesElse ==
  ASSUME NEW f, IsVerified(f), NEW b \in ReachableFrom(SsaCfg(f), 0), NEW c \in NodeIds(f), c # b,
         Dominates(SsaCfg(f), c, b), NEW i \in ToSet(f.body[c])
  PROVE  /\ ToSet(i.args) \cap DefinedIn(f, b) = {}
         /\ i.dest \notin DefinedIn(f, b)
<1>1. IsFunction(f) /\ IsExecutable(f) /\ IsSingleAssignment(f)
  BY DEF IsVerified
<1>2. IsGraph(SsaCfg(f)) /\ NodeIds(SsaCfg(f)) = NodeIds(f) /\ 0 \in NodeIds(f)
  BY <1>1, SsaCfgIsGraph, FunctionHasEntry
<1>3. b \in NodeIds(f)
  BY <1>2, ReachFacts
<1>4. c \in ReachableFrom(SsaCfg(f), 0) /\ ~Dominates(SsaCfg(f), b, c)
  BY <1>2, <1>3, DominanceOrder
<1>5. PICK k \in DOMAIN f.body[c] : i = f.body[c][k]
  BY DEF ToSet
<1>6. ToSet(i.args) \cap DefinedIn(f, b) = {}
  BY <1>3, <1>4, <1>5, StrictReads
<1>7. i.dest \notin DefinedIn(f, b)
  <2> SUFFICES ASSUME i.dest \in DefinedIn(f, b) PROVE FALSE
    OBVIOUS
  <2>1. i.dest # Nil
    <3>1. Nil \notin Variables(f) /\ DefinedIn(f, b) \subseteq Variables(f)
      BY <1>1, <1>3 DEF IsExecutable, Variables
    <3> QED  BY <3>1
  <2>2. i.dest \in Dests(f, c)
    BY <2>1 DEF Dests
  <2>3. i.dest \notin PhiResults(f, b)
    BY <1>1, <1>3, <2>2 DEF IsSingleAssignment
  <2>4. PICK j \in DOMAIN f.body[b] : f.body[b][j].dest = i.dest
    BY <2>3 DEF DefinedIn, Dests, ToSet
  <2> QED  BY <1>1, <1>3, <1>5, <2>1, <2>4 DEF IsSingleAssignment
<1> QED  BY <1>6, <1>7

-----------------------------------------------------------------------------
(* The values a running function has computed *)

(* The values a function may compute lie between the bounds an interval need
   not have. *)
Environments(f) == UNION {[D -> NoMin .. NoMax] : D \in SUBSET Variables(f)}

(* What i defines is still what i computes from its operands. *)
IsInForce(i, env) ==
    LET Arg(k) == IF k \in DOMAIN i.args THEN env[i.args[k]] ELSE 0
    IN  i.dest # Nil =>
            /\ ToSet(i.args) \cup {i.dest} \subseteq DOMAIN env
            /\ env[i.dest] \in Computed(i.op, i.value, Arg(1), Arg(2))

(* Environments, value by value. *)
LEMMA EnvironmentFacts ==
  ASSUME NEW f, NEW env
  PROVE  env \in Environments(f) <=>
            /\ env = [v \in DOMAIN env |-> env[v]] /\ DOMAIN env \subseteq Variables(f)
            /\ \A v \in DOMAIN env : env[v] \in NoMin .. NoMax
<1>1. ASSUME env \in Environments(f)
      PROVE  /\ env = [v \in DOMAIN env |-> env[v]] /\ DOMAIN env \subseteq Variables(f)
             /\ \A v \in DOMAIN env : env[v] \in NoMin .. NoMax
  <2>1. PICK D \in SUBSET Variables(f) : env \in [D -> NoMin .. NoMax]
    BY <1>1 DEF Environments
  <2> QED  BY <2>1
<1>2. ASSUME env = [v \in DOMAIN env |-> env[v]], DOMAIN env \subseteq Variables(f),
             \A v \in DOMAIN env : env[v] \in NoMin .. NoMax
      PROVE  env \in Environments(f)
  <2>1. env \in [DOMAIN env -> NoMin .. NoMax]
    BY <1>2
  <2> QED  BY <1>2, <2>1 DEF Environments
<1> QED  BY <1>1, <1>2

(* It stays so while the variables it reads and defines keep their values. *)
LEMMA InForceKept ==
  ASSUME NEW f, NEW i \in InstructionSet(f), NEW x, NEW y, IsInForce(i, x),
         \A v \in (ToSet(i.args) \cup {i.dest}) \cap DOMAIN x : v \in DOMAIN y /\ y[v] = x[v]
  PROVE  IsInForce(i, y)
<1> SUFFICES ASSUME i.dest # Nil PROVE IsInForce(i, y)
  BY DEF IsInForce
<1> DEFINE ArgX(k) == IF k \in DOMAIN i.args THEN x[i.args[k]] ELSE 0
           ArgY(k) == IF k \in DOMAIN i.args THEN y[i.args[k]] ELSE 0
<1>1. /\ ToSet(i.args) \cup {i.dest} \subseteq DOMAIN x
      /\ x[i.dest] \in Computed(i.op, i.value, ArgX(1), ArgX(2))
  BY DEF IsInForce
<1>2. \A k : ArgY(k) = ArgX(k)
  BY <1>1 DEF ToSet
<1>3. ToSet(i.args) \cup {i.dest} \subseteq DOMAIN y /\ y[i.dest] = x[i.dest]
  BY <1>1
<1>4. y[i.dest] \in Computed(i.op, i.value, ArgY(1), ArgY(2))
  <2>1. ArgY(1) = ArgX(1) /\ ArgY(2) = ArgX(2)
    BY <1>2
  <2> HIDE DEF ArgX, ArgY
  <2> QED  BY <1>1, <1>3, <2>1
<1> QED  BY <1>3, <1>4 DEF IsInForce

(* Wrapping brings every integer into the width. *)
LEMMA WrapIsWide == \A n \in Int : Wrap(n) \in Lowest .. Highest
<1> DEFINE h == 2 ^ (Width - 1)
           m == 2 ^ Width
<1>1. h \in Int /\ m \in Int /\ h > 0 /\ m = 2 * h
  BY WidthAssumption
<1>2. Lowest = -h /\ Highest = h - 1
  BY DEF Lowest, Highest
<1> HIDE DEF h, m
<1> SUFFICES ASSUME NEW n \in Int PROVE Wrap(n) \in Lowest .. Highest
  OBVIOUS
<1>3. n - Lowest \in Int /\ m \in Nat \ {0}
  BY <1>1, <1>2
<1> DEFINE q == n - Lowest
<1> HIDE DEF q
<1>4. q % m \in 0 .. m - 1
  BY <1>3 DEF q
<1>5. Wrap(n) = (q % m) + Lowest
  BY DEF Wrap, m, q
<1> HIDE DEF q
<1> DEFINE p == q % m
<1> HIDE DEF p
<1>6. p \in 0 .. m - 1 /\ Wrap(n) = p + Lowest
  BY <1>4, <1>5 DEF p
<1> QED  BY <1>1, <1>2, <1>6

(* What is computed is between the bounds. *)
LEMMA ComputedIsBounded ==
  ASSUME NEW op \in ValueOps, NEW value \in Lowest .. Highest, NEW u, NEW w,
         op \in {"copy", "add", "clt", "clt_un", "ceq"} => u \in NoMin .. NoMax,
         op \in {"add", "clt", "clt_un", "ceq"} => w \in NoMin .. NoMax
  PROVE  Computed(op, value, u, w) \subseteq NoMin .. NoMax
<1>1. /\ Lowest \in Int /\ Highest \in Int /\ NoMin \in Int /\ NoMax \in Int
      /\ NoMin < Lowest /\ Highest < NoMax /\ NoMin < 0 /\ 0 < NoMax
  <2>1. NoMin < Lowest /\ Highest < NoMax
    BY WidthAssumption
  <2> QED  BY <2>1, WidthIsInteger DEF NoMin, NoMax
<1> HIDE DEF NoMin, NoMax
<1>2. CASE op = "const"
  BY <1>1, <1>2 DEF Computed
<1>3. CASE op = "copy"
  BY <1>3 DEF Computed
<1>4. CASE op = "add"
  <2>1. Computed(op, value, u, w) = {Wrap(u + w)}
    BY <1>4 DEF Computed
  <2>2. u + w \in Int
    BY <1>1, <1>4
  <2>3. Wrap(u + w) \in Lowest .. Highest
    BY <2>2, WrapIsWide
  <2> QED  BY <1>1, <2>1, <2>3
<1>5. CASE op \in {"clt", "clt_un", "ceq"}
  <2>1. \E p : Computed(op, value, u, w) = {Truth(p)}
    BY <1>5 DEF Computed
  <2>2. \A p : Truth(p) \in NoMin .. NoMax
    BY <1>1 DEF Truth
  <2> QED  BY <2>1, <2>2
<1>6. CASE op \in {"length", "opaque"}
  <2>1. Computed(op, value, u, w) \subseteq Opaque
    BY <1>6 DEF Computed
  <2>2. Opaque \subseteq NoMin .. NoMax
    BY <1>1, OpaqueAssumption
  <2> QED  BY <2>1, <2>2
<1> QED  BY <1>2, <1>3, <1>4, <1>5, <1>6 DEF ValueOps

(* An instruction that is executed changes what it defines and nothing else. *)
LEMMA ExecuteFacts ==
  ASSUME NEW f, NEW i \in InstructionSet(f), HasItsOperands(i), i.dest # Nil => i.op \in ValueOps,
         NEW x \in Environments(f), NEW y \in Execute(i, x)
  PROVE  /\ y \in Environments(f) /\ ToSet(i.args) \subseteq DOMAIN y
         /\ \A v \in DOMAIN x : v # i.dest => v \in DOMAIN y /\ y[v] = x[v]
         /\ i.dest \notin ToSet(i.args) => IsInForce(i, y)
<1> DEFINE Arg(k) == IF k \in DOMAIN i.args THEN x[i.args[k]] ELSE 0
<1>1. /\ x = [v \in DOMAIN x |-> x[v]] /\ DOMAIN x \subseteq Variables(f)
      /\ \A v \in DOMAIN x : x[v] \in NoMin .. NoMax
  BY EnvironmentFacts
<1>2. ToSet(i.args) \subseteq DOMAIN x
  BY DEF Execute
<1>3. CASE i.dest = Nil
  BY <1>2, <1>3 DEF Execute, IsInForce
<1>4. CASE i.dest # Nil
  <2>1. PICK n \in Computed(i.op, i.value, Arg(1), Arg(2)) :
           y = [v \in DOMAIN x \cup {i.dest} |-> IF v = i.dest THEN n ELSE x[v]]
    BY <1>2, <1>4 DEF Execute
  <2>2. \A k \in DOMAIN i.args : Arg(k) \in NoMin .. NoMax
    BY <1>1, <1>2 DEF ToSet
  <2>3. /\ i.op \in {"copy", "add", "clt", "clt_un", "ceq"} => 1 \in DOMAIN i.args
        /\ i.op \in {"add", "clt", "clt_un", "ceq"} => 2 \in DOMAIN i.args
        /\ i.value \in Lowest .. Highest /\ i.dest \in Variables(f)
    BY <1>4 DEF HasItsOperands, InstructionSet
  <2> DEFINE u == Arg(1)
             w == Arg(2)
  <2>4. /\ i.op \in {"copy", "add", "clt", "clt_un", "ceq"} => u \in NoMin .. NoMax
        /\ i.op \in {"add", "clt", "clt_un", "ceq"} => w \in NoMin .. NoMax
        /\ n \in Computed(i.op, i.value, u, w)
    BY <2>1, <2>2, <2>3
  <2>5. n \in NoMin .. NoMax
    <3> HIDE DEF u, w
    <3>1. Computed(i.op, i.value, u, w) \subseteq NoMin .. NoMax
      BY <1>4, <2>3, <2>4, ComputedIsBounded
    <3> QED  BY <2>4, <3>1
  <2>6. y \in Environments(f)
    <3>1. /\ y = [v \in DOMAIN y |-> y[v]] /\ DOMAIN y \subseteq Variables(f)
          /\ \A v \in DOMAIN y : y[v] \in NoMin .. NoMax
      BY <1>1, <2>1, <2>3, <2>5
    <3> QED  BY <3>1, EnvironmentFacts
  <2>7. /\ DOMAIN y = DOMAIN x \cup {i.dest} /\ y[i.dest] = n
        /\ \A v \in DOMAIN x : v # i.dest => y[v] = x[v]
    BY <2>1
  <2>8. ASSUME i.dest \notin ToSet(i.args) PROVE IsInForce(i, y)
    <3> DEFINE ArgY(k) == IF k \in DOMAIN i.args THEN y[i.args[k]] ELSE 0
    <3>1. \A k : ArgY(k) = Arg(k)
      BY <1>2, <2>7, <2>8 DEF ToSet
    <3>2. ArgY(1) = u /\ ArgY(2) = w
      BY <3>1
    <3>3. y[i.dest] \in Computed(i.op, i.value, ArgY(1), ArgY(2))
      <4> HIDE DEF ArgY, u, w
      <4> QED  BY <2>4, <2>7, <3>2
    <3> QED  BY <1>2, <2>7, <3>3 DEF IsInForce
  <2> QED  BY <1>2, <2>6, <2>7, <2>8
<1> QED  BY <1>3, <1>4

(* The phis of a block take values of other variables. *)
LEMMA EnterFacts ==
  ASSUME NEW f, IsExecutable(f), NEW r, r.at \in NodeIds(f), r.env \in Environments(f),
         \A phi \in ToSet(f.phis[r.at]) :
            /\ OperandsFrom(phi, r.from) # {}
            /\ \A o \in OperandsFrom(phi, r.from) : o.value \in DOMAIN r.env
  PROVE  /\ EnterBlock(f, r) \in Environments(f)
         /\ \A v \in DOMAIN r.env \ PhiResults(f, r.at) :
               v \in DOMAIN EnterBlock(f, r) /\ EnterBlock(f, r)[v] = r.env[v]
<1> DEFINE b == r.at
           x == r.env
           R == PhiResults(f, b)
           Phi(v) == CHOOSE phi \in ToSet(f.phis[b]) : phi.result = v
           Operand(v) == CHOOSE o \in OperandsFrom(Phi(v), r.from) : TRUE
           e == EnterBlock(f, r)
<1>1. /\ DOMAIN x \subseteq Variables(f)
      /\ \A v \in DOMAIN x : x[v] \in NoMin .. NoMax
  <2>1. x \in Environments(f)
    OBVIOUS
  <2> HIDE DEF x
  <2> QED  BY <2>1, EnvironmentFacts
<1>2. e = [v \in R \cup DOMAIN x |-> IF v \in R THEN x[Operand(v).value] ELSE x[v]]
  BY DEF EnterBlock
<1>3. ASSUME NEW v \in R
      PROVE  v \in Variables(f) /\ Operand(v).value \in DOMAIN x
  <2> DEFINE phi == Phi(v)
             o == Operand(v)
  <2>1. phi \in ToSet(f.phis[b]) /\ phi.result = v
    BY <1>3 DEF PhiResults
  <2> HIDE DEF phi
  <2>2. o \in OperandsFrom(phi, r.from)
    BY <2>1 DEF phi
  <2> HIDE DEF o
  <2>3. o.value \in DOMAIN x
    BY <2>1, <2>2
  <2>4. phi \in PhiSet(f)
    BY <2>1, InstructionFacts
  <2>5. v \in Variables(f)
    BY <2>1, <2>4 DEF PhiSet
  <2> QED  BY <2>3, <2>5 DEF o, phi
<1> DEFINE val(v) == IF v \in R THEN x[Operand(v).value] ELSE x[v]
<1>4. \A v \in R \cup DOMAIN x : v \in Variables(f) /\ val(v) \in NoMin .. NoMax
  <2> HIDE DEF R, Operand, x
  <2> QED  BY <1>1, <1>3
<1>5. e = [v \in R \cup DOMAIN x |-> val(v)]
  BY <1>2
<1> HIDE DEF e
<1>6. /\ e = [v \in DOMAIN e |-> e[v]] /\ DOMAIN e \subseteq Variables(f)
      /\ \A v \in DOMAIN e : e[v] \in NoMin .. NoMax
  <2> HIDE DEF val, R, x
  <2> QED  BY <1>4, <1>5
<1>7. \A v \in DOMAIN x \ R : v \in DOMAIN e /\ e[v] = x[v]
  <2> HIDE DEF R, Operand, x
  <2> QED  BY <1>5
<1>8. e \in Environments(f)
  BY <1>6, EnvironmentFacts
<1> QED  BY <1>7, <1>8 DEF e

(* All that dominates b is in force, and the first k instructions of b. *)
AreInForce(f, b, k, env) ==
    /\ \A c \in NodeIds(f) \ {b} :
          Dominates(SsaCfg(f), c, b) => \A i \in ToSet(f.body[c]) : IsInForce(i, env)
    /\ \A j \in 1 .. k : IsInForce(f.body[b][j], env)

(* An instruction puts itself in force and takes nothing out of it. *)
LEMMA StepFacts ==
  ASSUME NEW f, IsVerified(f), NEW b \in ReachableFrom(SsaCfg(f), 0), NEW k \in DOMAIN f.body[b],
         NEW x \in Environments(f), AreInForce(f, b, k - 1, x), NEW y \in Execute(f.body[b][k], x)
  PROVE  AreInForce(f, b, k, y)
<1> DEFINE i == f.body[b][k]
<1>1. IsFunction(f) /\ IsExecutable(f)
  BY DEF IsVerified
<1>2. IsGraph(SsaCfg(f)) /\ NodeIds(SsaCfg(f)) = NodeIds(f) /\ 0 \in NodeIds(f)
  BY <1>1, SsaCfgIsGraph, FunctionHasEntry
<1>3. b \in NodeIds(f)
  BY <1>2, ReachFacts
<1>4. f.body[b] \in Seq(InstructionSet(f))
  BY <1>1, <1>3 DEF IsExecutable
<1>5. \A c \in NodeIds(f) : \A j \in ToSet(f.body[c]) :
         j \in InstructionSet(f) /\ HasItsOperands(j) /\ (j.dest # Nil => j.op \in ValueOps)
  BY <1>1, InstructionFacts
<1>6. i \in ToSet(f.body[b])
  BY DEF ToSet
<1>7. /\ \A v \in DOMAIN x : v # i.dest => v \in DOMAIN y /\ y[v] = x[v]
      /\ i.dest \notin ToSet(i.args) => IsInForce(i, y)
  <2>1. i \in InstructionSet(f) /\ HasItsOperands(i) /\ (i.dest # Nil => i.op \in ValueOps)
    BY <1>3, <1>5, <1>6
  <2> HIDE DEF i
  <2>2. y \in Execute(i, x)
    BY DEF i
  <2> QED  BY <2>1, <2>2, ExecuteFacts
<1>8. ASSUME i.dest = Nil PROVE y = x
  BY <1>8 DEF Execute
<1>9. ASSUME NEW c \in NodeIds(f) \ {b}, Dominates(SsaCfg(f), c, b), NEW j \in ToSet(f.body[c])
      PROVE  IsInForce(j, y)
  <2>1. IsInForce(j, x)
    BY <1>9 DEF AreInForce
  <2>2. CASE i.dest = Nil
    BY <1>8, <2>1, <2>2
  <2>3. CASE i.dest # Nil
    <3>1. i.dest \in DefinedIn(f, b)
      BY <1>6, <2>3 DEF DefinedIn, Dests
    <3>2. i.dest \notin ToSet(j.args) /\ i.dest # j.dest
      BY <1>9, <3>1, DominatedDefinesElse
    <3>3. \A v \in (ToSet(j.args) \cup {j.dest}) \cap DOMAIN x : v \in DOMAIN y /\ y[v] = x[v]
      BY <1>7, <3>2
    <3> QED  BY <1>5, <1>9, <2>1, <3>3, InForceKept
  <2> QED  BY <2>2, <2>3
<1>10. ASSUME NEW n \in 1 .. k PROVE IsInForce(f.body[b][n], y)
  <2> DEFINE j == f.body[b][n]
  <2>1. n \in DOMAIN f.body[b] /\ n <= k /\ n \in Int /\ k \in Int
    BY <1>4
  <2>2. j \in ToSet(f.body[b]) /\ j \in InstructionSet(f)
    <3>1. j \in ToSet(f.body[b])
      BY <2>1 DEF ToSet
    <3> QED  BY <1>3, <1>5, <3>1
  <2>3. i.dest # Nil => i.dest \notin ToSet(j.args) /\ (n # k => i.dest # j.dest)
    BY <2>1, ReadsAreEarlier
  <2>4. CASE n = k
    <3>1. i.dest # Nil => IsInForce(i, y)
      BY <1>7, <2>3, <2>4
    <3>2. i.dest = Nil => IsInForce(i, y)
      BY DEF IsInForce
    <3> QED  BY <2>4, <3>1, <3>2
  <2>5. CASE n # k
    <3>1. n \in 1 .. k - 1
      BY <2>1, <2>5
    <3>2. IsInForce(j, x)
      BY <3>1 DEF AreInForce
    <3>3. CASE i.dest = Nil
      BY <1>8, <3>2, <3>3
    <3>4. CASE i.dest # Nil
      <4>1. i.dest \notin ToSet(j.args) /\ i.dest # j.dest
        BY <2>3, <2>5, <3>4
      <4> HIDE DEF i, j
      <4>2. \A v \in (ToSet(j.args) \cup {j.dest}) \cap DOMAIN x : v \in DOMAIN y /\ y[v] = x[v]
        BY <1>7, <4>1
      <4>3. IsInForce(j, y)
        BY <2>2, <3>2, <4>2, InForceKept
      <4> QED  BY <4>3 DEF j
    <3> QED  BY <3>3, <3>4
  <2> QED  BY <2>4, <2>5
<1> QED  BY <1>9, <1>10 DEF AreInForce

(* After a block, all that dominates it and all it defines is in force, and no
   other variable has changed. *)
LEMMA BodyFacts ==
  ASSUME NEW f, IsVerified(f), NEW b \in ReachableFrom(SsaCfg(f), 0),
         NEW env \in Environments(f), AreInForce(f, b, 0, env), NEW e \in RunAll({env}, f.body[b])
  PROVE  /\ e \in Environments(f) /\ AreInForce(f, b, Len(f.body[b]), e)
         /\ ToSet(Terminator(f, b).args) \subseteq DOMAIN e
         /\ \A v \in DOMAIN env \ DefinedIn(f, b) : v \in DOMAIN e /\ e[v] = env[v]
<1> DEFINE w == f.body[b]
           T == ToSet(w)
           G == Environments(f)
           A == SUBSET G
           Kept(x) == \A v \in DOMAIN env \ DefinedIn(f, b) : v \in DOMAIN x /\ x[v] = env[v]
           Good(k, x) == /\ AreInForce(f, b, k, x) /\ Kept(x)
                         /\ k # 0 => ToSet(w[k].args) \subseteq DOMAIN x
           P == [k \in 0 .. Len(w) |-> {envs \in A : \A x \in envs : Good(k, x)}]
<1>1. IsFunction(f) /\ IsExecutable(f)
  BY DEF IsVerified
<1>2. b \in NodeIds(f)
  <2>1. IsGraph(SsaCfg(f)) /\ NodeIds(SsaCfg(f)) = NodeIds(f) /\ 0 \in NodeIds(f)
    BY <1>1, SsaCfgIsGraph, FunctionHasEntry
  <2> QED  BY <2>1, ReachFacts
<1>3. w \in Seq(InstructionSet(f)) /\ w # <<>> /\ Terminator(f, b) = w[Len(w)]
  BY <1>1, <1>2, InstructionFacts DEF Terminator, Last
<1>4. \A i \in T : /\ i \in InstructionSet(f) /\ HasItsOperands(i) /\ (i.dest # Nil => i.op \in ValueOps)
                   /\ i.dest # Nil => i.dest \in DefinedIn(f, b)
  BY <1>1, <1>2, InstructionFacts DEF DefinedIn, Dests
<1> HIDE DEF w
<1>5. /\ Len(w) \in Nat \ {0} /\ DOMAIN w = 1 .. Len(w) /\ \A k \in 1 .. Len(w) : w[k] \in T
      /\ w \in Seq(T)
  BY <1>3 DEF ToSet
<1>6. Nil \notin DOMAIN env
  <2>1. DOMAIN env \subseteq Variables(f)
    BY EnvironmentFacts
  <2> QED  BY <1>1, <2>1 DEF IsExecutable
<1>7. \A i \in T : \A x \in G : \A y \in Execute(i, x) :
         /\ y \in G /\ ToSet(i.args) \subseteq DOMAIN y
         /\ \A v \in DOMAIN x : v # i.dest => v \in DOMAIN y /\ y[v] = x[v]
  BY <1>4, ExecuteFacts
<1>8. \A i \in T : \A x \in G : \A y \in Execute(i, x) : Kept(x) => Kept(y)
  <2> SUFFICES ASSUME NEW i \in T, NEW x \in G, NEW y \in Execute(i, x), Kept(x),
                      NEW v \in DOMAIN env \ DefinedIn(f, b)
               PROVE  v \in DOMAIN y /\ y[v] = env[v]
    OBVIOUS
  <2>1. v # i.dest
    BY <1>4, <1>6
  <2> QED  BY <1>7, <2>1
<1>9. \A k \in 1 .. Len(w) : \A x \in G : \A y \in Execute(w[k], x) :
         AreInForce(f, b, k - 1, x) => AreInForce(f, b, k, y)
  BY <1>5, StepFacts DEF w
<1> HIDE DEF T, G, Kept
<1>10. {env} \in A /\ {env} \in P[0]
  <2>1. env \in G
    BY DEF G
  <2>2. Kept(env)
    BY DEF Kept
  <2> QED  BY <1>5, <2>1, <2>2
<1>11. P \in [0 .. Len(w) -> SUBSET A]
  OBVIOUS
<1>12. \A envs \in A : \A i \in T : Executed(i, envs) \in A
  BY <1>7 DEF Executed
<1>13. ASSUME NEW k \in 1 .. Len(w), NEW envs \in P[k - 1]
       PROVE  Executed(w[k], envs) \in P[k]
  <2>1. k \in 0 .. Len(w) /\ k - 1 \in 0 .. Len(w) /\ w[k] \in T
    BY <1>5
  <2>2. envs \in A /\ \A x \in envs : x \in G /\ AreInForce(f, b, k - 1, x) /\ Kept(x)
    BY <2>1
  <2> DEFINE U == Executed(w[k], envs)
  <2>3. U \in A
    BY <1>12, <2>1, <2>2
  <2>4. \A y \in U : AreInForce(f, b, k, y) /\ Kept(y) /\ ToSet(w[k].args) \subseteq DOMAIN y
    BY <1>7, <1>8, <1>9, <2>1, <2>2 DEF Executed
  <2>5. U \in P[k]
    <3> HIDE DEF U
    <3> QED  BY <2>1, <2>3, <2>4
  <2> QED  BY <2>5
<1>14. RunAll({env}, w) \in P[Len(w)]
  <2> DEFINE start == {env}
  <2> HIDE DEF A, P, start
  <2>1. start \in A /\ start \in P[0]
    BY <1>10 DEF start
  <2>2. RunAll(start, w) \in P[Len(w)]
    BY <1>5, <1>11, <1>12, <1>13, <2>1, RunFold
  <2> QED  BY <2>2 DEF start
<1>15. e \in RunAll({env}, w)
  BY DEF w
<1>16. Len(w) \in 0 .. Len(w) /\ Len(w) # 0
  BY <1>5
<1>17. e \in G /\ AreInForce(f, b, Len(w), e) /\ Kept(e) /\ ToSet(w[Len(w)].args) \subseteq DOMAIN e
  BY <1>14, <1>15, <1>16
<1> QED  BY <1>3, <1>17 DEF G, w, Kept

(* The k-th arm of the branch that ends p is the only way to its target. *)
IsArm(f, p, k) ==
    LET t == Terminator(f, p)
    IN  /\ t.op = "branch" /\ t.targets[1] # t.targets[2] /\ t.targets[k] # 0
        /\ PredecessorSet(SsaCfg(f), t.targets[k]) = {p}

(* Behind an arm that is the only way there, the condition is what it was. *)
GuardsHold(f, b, env) ==
    \A p \in NodeIds(f) : \A k \in {1, 2} :
        LET t == Terminator(f, p)
        IN  IsArm(f, p, k) /\ Dominates(SsaCfg(f), t.targets[k], b) =>
                t.args[1] \in DOMAIN env /\ (env[t.args[1]] # 0 <=> k = 1)

(* Where a running function is, and what it has computed on the way. *)
ExecInv(f, r) ==
    /\ r.env \in Environments(f)
    /\ r.at # Nil =>
          /\ r.at \in ReachableFrom(SsaCfg(f), 0)
          /\ r.from = Nil => r.at = 0
          /\ r.from # Nil =>
                /\ r.from \in ReachableFrom(SsaCfg(f), 0)
                /\ r.at \in SuccessorSet(SsaCfg(f), r.from)
                /\ AreInForce(f, r.from, Len(f.body[r.from]), r.env)
          /\ GuardsHold(f, r.at, r.env)

(* A terminator leads to one of its targets. *)
LEMMA TargetIsSuccessor ==
  ASSUME NEW f, IsVerified(f), NEW b \in NodeIds(f), NEW e \in Environments(f),
         ToSet(Terminator(f, b).args) \subseteq DOMAIN e, Target(Terminator(f, b), e) # Nil
  PROVE  /\ Target(Terminator(f, b), e) \in SuccessorSet(SsaCfg(f), b)
         /\ Terminator(f, b).op = "branch" =>
               /\ Terminator(f, b).args[1] \in DOMAIN e
               /\ Terminator(f, b).args[1] \in ToSet(Terminator(f, b).args)
               /\ \A k \in {1, 2} :
                     /\ Terminator(f, b).targets[k] \in NodeIds(f)
                     /\ Terminator(f, b).targets[k] \in SuccessorSet(SsaCfg(f), b)
<1> DEFINE t == Terminator(f, b)
           c == Target(t, e)
<1>1. IsFunction(f) /\ IsExecutable(f)
  BY DEF IsVerified
<1>2. t \in InstructionSet(f) /\ HasItsOperands(t) /\ IsTerminator(t)
  <2>1. t \in ToSet(f.body[b]) /\ IsTerminator(t)
    BY <1>1, InstructionFacts
  <2> HIDE DEF t
  <2> QED  BY <1>1, <2>1, InstructionFacts
<1>3. SuccessorSet(SsaCfg(f), b) = ToSet(f.targets[b]) \cap NodeIds(f) /\ t.targets = f.targets[b]
  BY <1>1, SsaCfgIsGraph DEF IsExecutable
<1>4. ToSet(t.args) \subseteq DOMAIN e /\ c # Nil
  OBVIOUS
<1>5. t.args \in Seq(Variables(f)) /\ t.targets \in Seq(NodeIds(f))
  BY <1>2 DEF InstructionSet
<1>6. SuccessorSet(SsaCfg(f), b) = ToSet(t.targets)
  BY <1>3, <1>5 DEF ToSet
<1>7. \A v \in DOMAIN e : e[v] \in Int
  <2>1. e \in Environments(f)
    OBVIOUS
  <2>2. \A v \in DOMAIN e : e[v] \in NoMin .. NoMax
    BY ONLY <2>1, EnvironmentFacts
  <2>3. NoMin .. NoMax \subseteq Int
    OBVIOUS
  <2> QED  BY ONLY <2>2, <2>3
<1> HIDE DEF t
<1>8. t.op \in {"branch", "switch"} => t.args[1] \in ToSet(t.args) /\ t.args[1] \in DOMAIN e
  BY <1>2, <1>4, <1>5 DEF HasItsOperands, ToSet
<1>9. t.op = "branch" => Len(t.targets) = 2
  BY <1>2 DEF HasItsOperands
<1>10. t.op = "branch" => \A k \in {1, 2} : t.targets[k] \in NodeIds(f) /\ t.targets[k] \in ToSet(t.targets)
  BY <1>5, <1>9 DEF ToSet
<1>11. c \in ToSet(t.targets)
  <2>1. CASE t.op = "jump"
    <3>1. t.targets # <<>> /\ c = t.targets[1]
      BY <1>2, <2>1 DEF HasItsOperands, Target
    <3> QED  BY <1>5, <3>1 DEF ToSet
  <2>2. CASE t.op = "branch"
    BY <1>10, <2>2 DEF Target
  <2>3. CASE t.op = "switch"
    <3>1. t.targets # <<>> /\ c = SwitchTarget(t.targets, e[t.args[1]])
      BY <1>2, <2>3 DEF HasItsOperands, Target
    <3>2. e[t.args[1]] \in Int
      BY <1>7, <1>8, <2>3
    <3> QED  BY <1>5, <3>1, <3>2, SwitchCore
  <2>4. CASE t.op = "return"
    BY <1>4, <2>4 DEF Target
  <2> QED  BY <1>2, <2>1, <2>2, <2>3, <2>4 DEF IsTerminator
<1> QED  BY <1>6, <1>8, <1>10, <1>11 DEF t

(* The condition of a branch is defined in no block the branch guards. *)
LEMMA GuardIsKept ==
  ASSUME NEW f, IsVerified(f), NEW b \in ReachableFrom(SsaCfg(f), 0), NEW p \in NodeIds(f),
         NEW k \in {1, 2}, IsArm(f, p, k), Dominates(SsaCfg(f), Terminator(f, p).targets[k], b)
  PROVE  /\ p \in ReachableFrom(SsaCfg(f), 0) /\ Dominates(SsaCfg(f), p, b) /\ p # b
         /\ Terminator(f, p).args[1] \notin DefinedIn(f, b)
<1> DEFINE g == SsaCfg(f)
           t == Terminator(f, p)
           c == t.targets[k]
           v == t.args[1]
<1>1. IsFunction(f) /\ IsExecutable(f)
  BY DEF IsVerified
<1>2. IsGraph(g) /\ NodeIds(g) = NodeIds(f) /\ 0 \in NodeIds(f)
  BY <1>1, SsaCfgIsGraph, FunctionHasEntry
<1>3. b \in NodeIds(f)
  BY <1>2, ReachFacts
<1>4. t \in ToSet(f.body[p]) /\ t = f.body[p][Len(f.body[p])] /\ f.body[p] \in Seq(InstructionSet(f))
      /\ f.body[p] # <<>>
  BY <1>1, InstructionFacts DEF Terminator, Last
<1>5. t \in InstructionSet(f) /\ HasItsOperands(t)
  <2> HIDE DEF t
  <2> QED  BY <1>1, <1>4, InstructionFacts
<1>6. c \in NodeIds(f) /\ v \in ToSet(t.args)
  <2> HIDE DEF t
  <2>1. t.targets \in Seq(NodeIds(f)) /\ Len(t.targets) = 2 /\ t.args \in Seq(Variables(f)) /\ Len(t.args) = 1
    BY <1>5 DEF InstructionSet, HasItsOperands, IsArm, t
  <2> QED  BY <2>1 DEF ToSet
<1>7. c # 0 /\ PredecessorSet(g, c) = {p} /\ Dominates(g, c, b)
  BY DEF IsArm
<1>8. Len(f.body[p]) \in DOMAIN f.body[p]
  BY <1>4
<1>9. v \in ToSet(f.body[p][Len(f.body[p])].args)
  BY <1>4, <1>6
<1> DEFINE n == Len(f.body[p])
<1> HIDE DEF g, c, v, t, n
<1>10. c \in ReachableFrom(g, 0)
  BY <1>2, <1>3, <1>6, <1>7, DominanceOrder
<1>11. p # c /\ Dominates(g, p, c)
  BY <1>2, <1>7, <1>10, SolePredecessor
<1>12. p \in ReachableFrom(g, 0) /\ Dominates(g, p, b)
  BY <1>2, <1>6, <1>7, <1>11, DominanceOrder
<1>13. ~Dominates(g, c, p)
  BY <1>2, <1>6, <1>11, DominanceOrder
<1>14. p # b /\ ~Dominates(g, b, p)
  <2>1. p # b
    BY <1>7, <1>13
  <2> QED  BY <1>2, <1>3, <1>12, <2>1, DominanceOrder
<1>15. v \notin DefinedIn(f, b)
  <2> SUFFICES ASSUME v \in DefinedIn(f, b) PROVE FALSE
    OBVIOUS
  <2>1. p \in ReachableFrom(SsaCfg(f), 0) /\ n \in DOMAIN f.body[p] /\ v \in ToSet(f.body[p][n].args)
    BY <1>8, <1>9, <1>12 DEF n, g
  <2>2. b # p /\ Dominates(SsaCfg(f), b, p)
    BY <1>3, <1>14, <2>1, StrictReads
  <2> QED  BY <1>14, <2>2 DEF g
<1> QED  BY <1>12, <1>14, <1>15 DEF g, v, t

(* What dominates the block control has left is in force. *)
LEMMA LeftInForce ==
  ASSUME NEW f, IsVerified(f), NEW r, ExecInv(f, r), r.at # Nil, r.from # Nil,
         NEW c \in NodeIds(f), Dominates(SsaCfg(f), c, r.from), NEW i \in ToSet(f.body[c])
  PROVE  IsInForce(i, r.env)
<1>1. AreInForce(f, r.from, Len(f.body[r.from]), r.env)
  BY DEF ExecInv
<1>2. CASE c # r.from
  BY <1>1, <1>2 DEF AreInForce
<1>3. CASE c = r.from
  <2>1. f.body[c] \in Seq(InstructionSet(f))
    BY DEF IsVerified, IsExecutable
  <2>2. PICK k \in 1 .. Len(f.body[c]) : i = f.body[c][k]
    BY <2>1 DEF ToSet
  <2> QED  BY <1>1, <1>3, <2>2 DEF AreInForce
<1> QED  BY <1>2, <1>3

(* A block runs, and control goes on. *)
LEMMA OutcomeFacts ==
  ASSUME NEW f, IsVerified(f), NEW r, ExecInv(f, r), r.at # Nil, NEW o \in Outcomes(f, r)
  PROVE  ExecInv(f, o)
<1> DEFINE b == r.at
           g == SsaCfg(f)
           env == EnterBlock(f, r)
           t == Terminator(f, b)
<1>1. IsFunction(f) /\ IsExecutable(f) /\ b \in ReachableFrom(g, 0)
  BY DEF IsVerified, ExecInv
<1>2. IsGraph(g) /\ NodeIds(g) = NodeIds(f) /\ 0 \in NodeIds(f)
  BY <1>1, SsaCfgIsGraph, FunctionHasEntry
<1>3. b \in NodeIds(f)
  BY <1>1, <1>2, ReachFacts
<1>4. /\ \A phi \in ToSet(f.phis[b]) :
            /\ OperandsFrom(phi, r.from) # {}
            /\ \A x \in OperandsFrom(phi, r.from) : x.value \in DOMAIN r.env
      /\ \E e \in RunAll({env}, f.body[b]) : o = [at |-> Target(t, e), from |-> b, env |-> e]
  BY Zenon DEF Outcomes, RunAll, Executed
<1>5. PICK e \in RunAll({env}, f.body[b]) : o = [at |-> Target(t, e), from |-> b, env |-> e]
  BY <1>4
<1>6. /\ env \in Environments(f)
      /\ \A v \in DOMAIN r.env \ PhiResults(f, b) : v \in DOMAIN env /\ env[v] = r.env[v]
  BY <1>1, <1>3, <1>4, EnterFacts DEF ExecInv
<1> HIDE DEF env
<1>7. AreInForce(f, b, 0, env)
  <2> SUFFICES ASSUME NEW c \in NodeIds(f) \ {b}, Dominates(g, c, b), NEW i \in ToSet(f.body[c])
               PROVE  IsInForce(i, env)
    BY DEF AreInForce
  <2>1. r.from # Nil
    <3>1. b # 0
      BY <1>2, DominanceOrder
    <3> QED  BY <3>1 DEF ExecInv
  <2>2. /\ r.from \in ReachableFrom(g, 0) /\ b \in SuccessorSet(g, r.from)
        /\ AreInForce(f, r.from, Len(f.body[r.from]), r.env)
    BY <2>1 DEF ExecInv
  <2>3. r.from \in NodeIds(f)
    BY <1>2, <2>2, ReachFacts
  <2>4. Dominates(g, c, r.from)
    <3> HIDE DEF g, b
    <3> QED  BY <1>2, <2>2, <2>3, DominanceOrder
  <2>5. IsInForce(i, r.env)
    BY <2>1, <2>4, LeftInForce
  <2>6. ToSet(i.args) \cap DefinedIn(f, b) = {} /\ i.dest \notin DefinedIn(f, b)
    BY <1>1, DominatedDefinesElse
  <2>7. \A v \in (ToSet(i.args) \cup {i.dest}) \cap DOMAIN r.env : v \in DOMAIN env /\ env[v] = r.env[v]
    BY <1>6, <2>6 DEF DefinedIn
  <2>8. i \in InstructionSet(f)
    BY <1>1, InstructionFacts
  <2> QED  BY <2>5, <2>7, <2>8, InForceKept
<1>8. /\ e \in Environments(f) /\ AreInForce(f, b, Len(f.body[b]), e)
      /\ ToSet(t.args) \subseteq DOMAIN e
      /\ \A v \in DOMAIN env \ DefinedIn(f, b) : v \in DOMAIN e /\ e[v] = env[v]
  <2>1. b \in ReachableFrom(SsaCfg(f), 0) /\ env \in Environments(f) /\ e \in RunAll({env}, f.body[b])
    BY <1>1, <1>5, <1>6
  <2> HIDE DEF b
  <2>2. PICK x \in Environments(f) : x = env
    BY <2>1
  <2>3. AreInForce(f, b, 0, x) /\ e \in RunAll({x}, f.body[b])
    BY <1>7, <2>1, <2>2
  <2>4. /\ e \in Environments(f) /\ AreInForce(f, b, Len(f.body[b]), e)
        /\ ToSet(Terminator(f, b).args) \subseteq DOMAIN e
        /\ \A v \in DOMAIN x \ DefinedIn(f, b) : v \in DOMAIN e /\ e[v] = x[v]
    <3>1. e \in Environments(f)
      BY <2>1, <2>2, <2>3, BodyFacts
    <3>2. AreInForce(f, b, Len(f.body[b]), e)
      BY <2>1, <2>2, <2>3, BodyFacts
    <3>3. ToSet(Terminator(f, b).args) \subseteq DOMAIN e
      BY <2>1, <2>2, <2>3, BodyFacts
    <3>4. ASSUME NEW v \in DOMAIN x \ DefinedIn(f, b) PROVE v \in DOMAIN e /\ e[v] = x[v]
      BY <2>1, <2>2, <2>3, BodyFacts
    <3> QED  BY <3>1, <3>2, <3>3, <3>4
  <2> QED  BY <2>2, <2>4
<1>9. /\ b # Nil /\ o.at = Target(t, e) /\ o.from = b /\ o.env = e
  BY <1>3, <1>5 DEF NodeIds, Nil
<1>10. ASSUME o.at # Nil
       PROVE  o.at \in SuccessorSet(g, b) /\ o.at \in ReachableFrom(g, 0)
  <2>1. o.at \in SuccessorSet(g, b)
    BY <1>3, <1>8, <1>9, <1>10, TargetIsSuccessor
  <2> HIDE DEF g, b
  <2> QED  BY <1>1, <1>2, <2>1, ReachFacts
<1>11. ASSUME o.at # Nil PROVE GuardsHold(f, o.at, e)
  <2> SUFFICES ASSUME NEW p \in NodeIds(f), NEW k \in {1, 2}, IsArm(f, p, k),
                      Dominates(g, Terminator(f, p).targets[k], o.at)
               PROVE  /\ Terminator(f, p).args[1] \in DOMAIN e
                      /\ e[Terminator(f, p).args[1]] # 0 <=> k = 1
    BY DEF GuardsHold
  <2> DEFINE c == Terminator(f, p).targets[k]
             v == Terminator(f, p).args[1]
  <2>1. PredecessorSet(g, c) = {p} /\ Terminator(f, p).op = "branch"
        /\ Terminator(f, p).targets[1] # Terminator(f, p).targets[2]
    BY DEF IsArm
  <2>2. CASE o.at = c
    <3>1. b = p
      BY <1>2, <1>3, <1>10, <1>11, <2>1, <2>2 DEF PredecessorSet
    <3>2. v \in DOMAIN e
      BY <1>3, <1>8, <1>9, <1>11, <2>1, <3>1, TargetIsSuccessor
    <3>3. o.at = IF e[v] # 0 THEN Terminator(f, p).targets[1] ELSE Terminator(f, p).targets[2]
      BY <1>9, <2>1, <3>1 DEF Target
    <3>4. (e[v] # 0) <=> k = 1
      BY <2>1, <2>2, <3>3
    <3> QED  BY <3>2, <3>4
  <2>3. CASE o.at # c
    <3>1. c \in NodeIds(f)
      <4>1. Terminator(f, p) \in ToSet(f.body[p])
        BY <1>1, InstructionFacts
      <4> DEFINE u == Terminator(f, p)
      <4> HIDE DEF u
      <4>2. u \in InstructionSet(f) /\ HasItsOperands(u) /\ u.op = "branch"
        BY <1>1, <2>1, <4>1, InstructionFacts DEF u
      <4>3. u.targets \in Seq(NodeIds(f)) /\ Len(u.targets) = 2
        BY <4>2 DEF InstructionSet, HasItsOperands
      <4>4. u.targets[k] \in NodeIds(f)
        BY <4>3
      <4> QED  BY <4>4 DEF u
    <3>2. Dominates(g, c, b)
      <4> DEFINE n == o.at
      <4>1. n \in SuccessorSet(g, b) /\ Dominates(g, c, n) /\ n # c
        BY <1>10, <1>11, <2>3
      <4> HIDE DEF g, b, c, n
      <4> QED  BY <1>1, <1>2, <1>3, <3>1, <4>1, DominanceOrder
    <3>3. v \notin DefinedIn(f, b)
      BY <1>1, <3>2, GuardIsKept
    <3>4. v \in DOMAIN r.env /\ (r.env[v] # 0 <=> k = 1)
      BY <3>2 DEF ExecInv, GuardsHold
    <3>5. v \in DOMAIN e /\ e[v] = r.env[v]
      BY <1>6, <1>8, <3>3, <3>4 DEF DefinedIn
    <3> QED  BY <3>4, <3>5
  <2> QED  BY <2>2, <2>3
<1> QED  BY <1>1, <1>8, <1>9, <1>10, <1>11 DEF ExecInv

(* A function starts at its entry with the variables that are defined there. *)
LEMMA StartFacts ==
  ASSUME NEW f, IsVerified(f), NEW env \in [f.initial.supplied -> Opaque]
  PROVE  ExecInv(f, [at |-> 0, from |-> Nil, env |-> env])
<1> DEFINE r == [at |-> 0, from |-> Nil, env |-> env]
           g == SsaCfg(f)
<1>1. IsFunction(f) /\ IsExecutable(f)
  BY DEF IsVerified
<1>2. IsGraph(g) /\ NodeIds(g) = NodeIds(f) /\ 0 \in NodeIds(f)
  BY <1>1, SsaCfgIsGraph, FunctionHasEntry
<1>3. env \in Environments(f)
  <2>1. f.initial.supplied \subseteq Variables(f)
    BY DEF Variables
  <2>2. Opaque \subseteq NoMin .. NoMax
    <3>1. NoMin < Lowest /\ Highest < NoMax
      BY WidthAssumption
    <3> QED  BY <3>1, WidthIsInteger, OpaqueAssumption DEF NoMin, NoMax
  <2> QED  BY <2>1, <2>2, EnvironmentFacts
<1>4. 0 \in ReachableFrom(g, 0)
  BY <1>2, ReachFacts
<1>5. GuardsHold(f, 0, env)
  <2> SUFFICES ASSUME NEW p \in NodeIds(f), NEW k \in {1, 2}, IsArm(f, p, k),
                      Dominates(g, Terminator(f, p).targets[k], 0)
               PROVE  FALSE
    BY DEF GuardsHold
  <2>1. Terminator(f, p).targets[k] # 0 /\ Terminator(f, p).op = "branch"
    BY DEF IsArm
  <2>2. Terminator(f, p) \in ToSet(f.body[p])
    BY <1>1, InstructionFacts
  <2> DEFINE u == Terminator(f, p)
  <2> HIDE DEF u
  <2>3. u \in InstructionSet(f) /\ HasItsOperands(u) /\ u.op = "branch"
    BY <1>1, <2>1, <2>2, InstructionFacts DEF u
  <2>4. u.targets \in Seq(NodeIds(f)) /\ Len(u.targets) = 2
    BY <2>3 DEF InstructionSet, HasItsOperands
  <2>5. u.targets[k] \in NodeIds(f)
    BY <2>4
  <2>6. u.targets[k] # 0 /\ Dominates(g, u.targets[k], 0)
    BY <2>1 DEF u
  <2> HIDE DEF g
  <2> QED  BY <1>2, <2>5, <2>6, DominanceOrder
<1> QED  BY <1>3, <1>4, <1>5 DEF ExecInv, Nil

-----------------------------------------------------------------------------
(* refine_from_comparison and range_at *)

(* Of the ranges of an explained state, the meet allows what both allow. *)
LEMMA MeetAllows ==
  ASSUME NEW a \in RangeFacts, NEW b \in RangeFacts, NEW v \in Int,
         AllowsRange(a, v), AllowsRange(b, v)
  PROVE  MeetRanges(a, b) \in RangeFacts /\ AllowsRange(MeetRanges(a, b), v)
<1>1. a # Bottom /\ b # Bottom
  BY IntervalFacts
<1>2. CASE a = Top
  BY <1>1, <1>2, FactsDiffer DEF MeetRanges
<1>3. CASE a # Top /\ b = Top
  BY <1>1, <1>3, FactsDiffer DEF MeetRanges
<1>4. CASE a # Top /\ b # Top
  <2>1. PICK p \in Int, q \in Int : a = Interval(p, q)
    BY <1>1, <1>4 DEF RangeFacts
  <2>2. PICK s \in Int, t \in Int : b = Interval(s, t)
    BY <1>1, <1>4 DEF RangeFacts
  <2>3. p <= v /\ v <= q /\ s <= v /\ v <= t
    BY <2>1, <2>2, IntervalFacts
  <2> DEFINE min == Greatest(p, s)
             max == Least(q, t)
  <2>4. min \in Int /\ max \in Int /\ min <= v /\ v <= max
    BY <2>3 DEF Greatest, Least
  <2>5. MeetRanges(a, b) = IF min > max THEN Bottom ELSE Interval(min, max)
    BY <1>1, <1>4, <2>1, <2>2, IntervalFacts DEF MeetRanges
  <2> HIDE DEF min, max
  <2>6. MeetRanges(a, b) = Interval(min, max)
    BY <2>4, <2>5
  <2> QED  BY <2>4, <2>6, IntervalFacts DEF RangeFacts
<1> QED  BY <1>2, <1>3, <1>4

(* A bound of a range that allows x, on the side an order leaves it. *)
LEMMA BoundsAllow ==
  ASSUME NEW range \in RangeFacts, NEW x \in NoMin .. NoMax, NEW y \in NoMin .. NoMax,
         AllowsRange(range, y)
  PROVE  /\ {Below(range), AtMost(range), Above(range), AtLeast(range)} \subseteq RangeFacts
         /\ x < y => AllowsRange(Below(range), x)
         /\ x <= y => AllowsRange(AtMost(range), x)
         /\ x > y => AllowsRange(Above(range), x)
         /\ x >= y => AllowsRange(AtLeast(range), x)
<1>1. range # Bottom /\ NoMin \in Int /\ NoMax \in Int
  BY IntervalFacts DEF NoMin, NoMax
<1>2. Top \in RangeFacts /\ \A p, q \in Int : Interval(p, q) \in RangeFacts
  BY DEF RangeFacts
<1>3. CASE range = Top
  <2>1. MinOf(range) = NoMin /\ MaxOf(range) = NoMax
    BY <1>3 DEF MinOf, MaxOf, Top
  <2> QED  BY <1>2, <2>1, IntervalFacts DEF Below, AtMost, Above, AtLeast
<1>4. CASE range # Top
  <2>1. PICK p \in Int, q \in Int : range = Interval(p, q)
    BY <1>1, <1>4 DEF RangeFacts
  <2>2. MinOf(range) = p /\ MaxOf(range) = q /\ p <= y /\ y <= q
    BY <2>1, IntervalFacts DEF MinOf, MaxOf
  <2>3. q - 1 \in Int /\ p + 1 \in Int
    OBVIOUS
  <2> HIDE DEF NoMin, NoMax
  <2>4. {Below(range), AtMost(range), Above(range), AtLeast(range)} \subseteq RangeFacts
    BY <1>1, <1>2, <2>2, <2>3 DEF Below, AtMost, Above, AtLeast
  <2>5. x < y => AllowsRange(Below(range), x)
    BY <1>1, <2>2, IntervalFacts DEF Below
  <2>6. x <= y => AllowsRange(AtMost(range), x)
    BY <1>1, <2>2, IntervalFacts DEF AtMost
  <2>7. x > y => AllowsRange(Above(range), x)
    BY <1>1, <2>2, IntervalFacts DEF Above
  <2>8. x >= y => AllowsRange(AtLeast(range), x)
    BY <1>1, <2>2, IntervalFacts DEF AtLeast
  <2> QED  BY <2>4, <2>5, <2>6, <2>7, <2>8
<1> QED  BY <1>3, <1>4

(* refine_from_comparison is right where the comparison is in force, the arm is
   the one taken and no comparison is unsigned. *)
LEMMA RefinedIsSound ==
  ASSUME NEW f, NEW ranges \in [Variables(f) -> RangeFacts], NEW env \in Environments(f),
         \A x \in DOMAIN env : AllowsRange(ranges[x], env[x]),
         NEW i \in InstructionSet(f), HasItsOperands(i), i.op # "clt_un", i.dest # Nil,
         IsInForce(i, env), NEW taken \in BOOLEAN, (env[i.dest] # 0) <=> taken, NEW v \in DOMAIN env
  PROVE  /\ Refined(ranges, i, v, taken) \in RangeFacts
         /\ AllowsRange(Refined(ranges, i, v, taken), env[v])
<1> DEFINE a1 == i.args[1]
           a2 == i.args[2]
           l == ranges[a1]
           r == ranges[a2]
           x == env[a1]
           y == env[a2]
           R == Refined(ranges, i, v, taken)
<1>1. DOMAIN env \subseteq Variables(f) /\ \A u \in DOMAIN env : env[u] \in NoMin .. NoMax
  BY EnvironmentFacts
<1>2. NoMin \in Int /\ NoMax \in Int /\ Top \in RangeFacts /\ AllowsRange(Top, env[v])
  BY IntervalFacts DEF NoMin, NoMax, RangeFacts
<1>3. CASE i.op \in {"clt", "ceq"}
  <2>1. i.args \in Seq(Variables(f)) /\ Len(i.args) = 2
    BY <1>3 DEF HasItsOperands, InstructionSet
  <2>2. 1 \in DOMAIN i.args /\ 2 \in DOMAIN i.args
    BY <2>1
  <2>3. a1 \in DOMAIN env /\ a2 \in DOMAIN env
    BY <2>2 DEF IsInForce, ToSet
  <2>4. env[i.dest] \in Computed(i.op, i.value, x, y)
    BY <2>2 DEF IsInForce
  <2>5. /\ l \in RangeFacts /\ r \in RangeFacts /\ x \in NoMin .. NoMax /\ y \in NoMin .. NoMax
        /\ AllowsRange(l, x) /\ AllowsRange(r, y)
    BY <1>1, <2>3
  <2>6. /\ i.op = "clt" => (taken <=> x < y)
        /\ i.op = "ceq" => (taken <=> x = y)
    <3>1. Truth(x < y) = (IF x < y THEN 1 ELSE 0) /\ Truth(x = y) = IF x = y THEN 1 ELSE 0
      BY DEF Truth
    <3>2. i.op = "clt" => env[i.dest] = Truth(x < y)
      BY <2>4 DEF Computed
    <3>3. i.op = "ceq" => env[i.dest] = Truth(x = y)
      BY <2>4 DEF Computed
    <3> QED  BY <3>1, <3>2, <3>3
  <2>7. /\ i.op = "clt" /\ v = a1 => R = IF taken THEN Below(r) ELSE AtLeast(r)
        /\ i.op = "clt" /\ v # a1 /\ v = a2 => R = IF taken THEN Above(l) ELSE AtMost(l)
        /\ i.op = "ceq" /\ taken /\ v = a1 => R = r
        /\ i.op = "ceq" /\ taken /\ v # a1 /\ v = a2 => R = l
        /\ v # a1 /\ v # a2 => R = Top
        /\ i.op = "ceq" /\ ~taken => R = Top
    <3> DEFINE on(k) == i.args[k] = v /\ (k = 2 => i.args[1] # v)
               isOrder == i.op \in {"clt", "clt_un"}
    <3>1. R = CASE isOrder /\ on(1) -> IF taken THEN Below(r) ELSE AtLeast(r)
                [] isOrder /\ on(2) -> IF taken THEN Above(l) ELSE AtMost(l)
                [] i.op = "ceq" /\ taken /\ on(1) -> r
                [] i.op = "ceq" /\ taken /\ on(2) -> l
                [] OTHER -> Top
      BY DEF Refined
    <3>2. (on(1) <=> v = a1) /\ (on(2) <=> v = a2 /\ v # a1) /\ (isOrder <=> i.op = "clt")
      BY <1>3
    <3> HIDE DEF R, on, isOrder, a1, a2, l, r
    <3> QED  BY <3>1, <3>2
  <2> HIDE DEF R, a1, a2, l, r, x, y
  <2>8. CASE i.op = "clt" /\ v = a1
    <3>1. (x < y => AllowsRange(Below(r), x)) /\ (x >= y => AllowsRange(AtLeast(r), x))
          /\ Below(r) \in RangeFacts /\ AtLeast(r) \in RangeFacts
      BY <2>5, BoundsAllow
    <3>2. env[v] = x /\ (~taken => x >= y)
      BY <1>2, <2>5, <2>6, <2>8 DEF x
    <3> QED  BY <2>6, <2>7, <2>8, <3>1, <3>2 DEF R
  <2>9. CASE i.op = "clt" /\ v # a1 /\ v = a2
    <3>1. (y > x => AllowsRange(Above(l), y)) /\ (y <= x => AllowsRange(AtMost(l), y))
          /\ Above(l) \in RangeFacts /\ AtMost(l) \in RangeFacts
      BY <2>5, BoundsAllow
    <3>2. env[v] = y /\ (~taken => y <= x) /\ (taken => y > x)
      BY <1>2, <2>5, <2>6, <2>9 DEF y
    <3> QED  BY <2>7, <2>9, <3>1, <3>2 DEF R
  <2>10. CASE i.op = "ceq" /\ taken /\ v \in {a1, a2}
    <3>1. x = y /\ env[v] = x
      BY <2>6, <2>10 DEF x, y
    <3> QED  BY <2>5, <2>7, <2>10, <3>1 DEF R
  <2>11. CASE v \notin {a1, a2} \/ (i.op = "ceq" /\ ~taken)
    BY <1>2, <2>7, <2>11 DEF R
  <2> QED  BY <1>3, <2>8, <2>9, <2>10, <2>11
<1>4. CASE i.op \notin {"clt", "ceq"}
  <2>1. R = Top
    BY <1>4 DEF Refined
  <2> QED  BY <1>2, <2>1
<1> QED  BY <1>3, <1>4

(* What range_at reads: a graph with all edges of the terminators, ranges that
   allow the values of a running function. *)
IsGuarded(f, g, ranges, r) ==
    /\ IsVerified(f) /\ ArmsAreUnshared(f) /\ Signed(f) /\ ExecInv(f, r) /\ r.at # Nil
    /\ IsGraph(g) /\ NodeIds(g) = NodeIds(f)
    /\ \A b \in NodeIds(f) : SuccessorSet(SsaCfg(f), b) \subseteq SuccessorSet(g, b)
    /\ ranges \in [Variables(f) -> RangeFacts]
    /\ \A v \in DOMAIN r.env : AllowsRange(ranges[v], r.env[v])

(* refine_through_edge is right at every block that dominates the one entered. *)
LEMMA ThroughIsSound ==
  ASSUME NEW f, NEW g, NEW ranges, NEW r, IsGuarded(f, g, ranges, r), NEW v \in DOMAIN r.env,
         NEW parent \in NodeIds(f), NEW child \in NodeIds(f), Dominates(g, child, r.at)
  PROVE  /\ RefinedThrough(f, ranges, Behind(g, 0), v, parent, child) \in RangeFacts
         /\ AllowsRange(RefinedThrough(f, ranges, Behind(g, 0), v, parent, child), r.env[v])
<1> DEFINE s == SsaCfg(f)
           b == r.at
           env == r.env
           t == Terminator(f, parent)
           Via(k) == child \in Behind(g, 0)[t.targets[k]]
           definition == {i \in Instructions(f) : i.dest = t.args[1]}
           R == RefinedThrough(f, ranges, Behind(g, 0), v, parent, child)
<1>1. /\ IsVerified(f) /\ IsFunction(f) /\ IsExecutable(f) /\ IsSingleAssignment(f)
      /\ Nil \notin Variables(f)
  BY DEF IsGuarded, IsVerified, IsExecutable
<1>2. /\ IsGraph(s) /\ NodeIds(s) = NodeIds(f) /\ 0 \in NodeIds(f)
      /\ IsGraph(g) /\ NodeIds(g) = NodeIds(f)
      /\ \A x \in NodeIds(f) : SuccessorSet(s, x) \subseteq SuccessorSet(g, x)
  BY <1>1, SsaCfgIsGraph, FunctionHasEntry DEF IsGuarded
<1>3. b \in ReachableFrom(s, 0) /\ b \in NodeIds(f)
  <2>1. b \in ReachableFrom(s, 0)
    BY DEF IsGuarded, ExecInv
  <2> HIDE DEF s, b
  <2> QED  BY <1>2, <2>1, ReachFacts
<1>4. R = IF t.op # "branch" \/ Via(1) = Via(2) \/ definition = {} THEN Top
          ELSE Refined(ranges, CHOOSE i \in definition : TRUE, v, Via(1))
  BY DEF RefinedThrough
<1>5. Top \in RangeFacts /\ AllowsRange(Top, env[v])
  BY IntervalFacts DEF RangeFacts
<1>6. CASE t.op # "branch" \/ Via(1) = Via(2) \/ definition = {}
  BY <1>4, <1>5, <1>6
<1>7. CASE ~(t.op # "branch" \/ Via(1) = Via(2) \/ definition = {})
  <2> DEFINE taken == Via(1)
             k == IF taken THEN 1 ELSE 2
             c == t.targets[k]
             w == t.args[1]
             i == CHOOSE x \in definition : TRUE
  <2>1. t.op = "branch" /\ k \in {1, 2} /\ Via(k) /\ (k = 1 <=> taken) /\ t.targets[1] # t.targets[2]
    BY <1>7
  <2>2. t \in ToSet(f.body[parent]) /\ t = f.body[parent][Len(f.body[parent])]
    BY <1>1, InstructionFacts DEF Terminator, Last
  <2>3. t \in InstructionSet(f) /\ HasItsOperands(t)
    <3> HIDE DEF t
    <3> QED  BY <1>1, <2>2, InstructionFacts
  <2>4. /\ c \in NodeIds(f) /\ c \in ToSet(f.targets[parent])
        /\ w \in ToSet(t.args) /\ w \in Variables(f)
    <3>1. t.targets = f.targets[parent]
      BY <1>1 DEF IsExecutable
    <3> DEFINE m == k
               u == t
    <3> HIDE DEF m, u
    <3>2. u.targets \in Seq(NodeIds(f)) /\ Len(u.targets) = 2 /\ u.args \in Seq(Variables(f)) /\ Len(u.args) = 1
      BY <2>1, <2>3 DEF InstructionSet, HasItsOperands, u
    <3>3. m \in {1, 2}
      BY <2>1 DEF m
    <3>4. u.targets[m] \in NodeIds(f) /\ u.targets[m] \in ToSet(u.targets)
          /\ u.args[1] \in ToSet(u.args) /\ u.args[1] \in Variables(f)
      BY <3>2, <3>3 DEF ToSet
    <3> QED  BY <3>1, <3>4 DEF m, u
  <2>5. c # 0 /\ PredecessorSet(s, c) = {parent}
    BY <2>1, <2>4 DEF IsGuarded, ArmsAreUnshared
  <2>6. IsArm(f, parent, k)
    BY <2>1, <2>5 DEF IsArm
  <2>7. Dominates(g, c, child) /\ Dominates(g, child, b)
    BY <2>1 DEF Dominates
  <2>8. Dominates(s, c, b)
    <3> HIDE DEF s, b, c, t
    <3>1. Dominates(g, c, b)
      BY <1>2, <2>4, <2>7, DominanceOrder
    <3> QED  BY <1>2, <1>3, <2>4, <3>1, DominanceShrinks
  <2>9. r.from # Nil
    <3>1. b # 0
      <4> HIDE DEF s, b, c, t
      <4> QED  BY <1>2, <2>4, <2>5, <2>8, DominanceOrder
    <3> QED  BY <3>1 DEF IsGuarded, ExecInv
  <2>10. /\ parent \in ReachableFrom(s, 0) /\ Dominates(s, parent, b) /\ parent # b
    BY <1>1, <1>3, <2>1, <2>6, <2>8, GuardIsKept
  <2>11. w \in DOMAIN env /\ (env[w] # 0 <=> taken)
    <3>1. GuardsHold(f, b, env)
      BY DEF IsGuarded, ExecInv
    <3> QED  BY <2>1, <2>6, <2>8, <3>1 DEF GuardsHold
  <2>12. i \in Instructions(f) /\ i.dest = w
    BY <1>7
  <2>13. PICK d \in NodeIds(f) : i \in ToSet(f.body[d])
    BY <2>12 DEF Instructions
  <2> HIDE DEF i, w, taken
  <2>14. /\ i \in InstructionSet(f) /\ HasItsOperands(i) /\ i.dest # Nil /\ i.op # "clt_un"
    <3>1. i.op # "clt_un"
      BY <2>12 DEF IsGuarded, Signed
    <3> QED  BY <1>1, <2>4, <2>12, <2>13, <3>1, InstructionFacts
  <2>15. d = parent \/ Dominates(s, d, parent)
    <3>1. w \in DefinedIn(f, d)
      BY <2>12, <2>13, <2>14 DEF DefinedIn, Dests
    <3>2. Len(f.body[parent]) \in DOMAIN f.body[parent]
      BY <1>1 DEF IsExecutable
    <3>3. w \in ToSet(f.body[parent][Len(f.body[parent])].args)
      BY <2>2, <2>4
    <3> DEFINE n == Len(f.body[parent])
    <3>4. /\ parent \in ReachableFrom(SsaCfg(f), 0) /\ n \in DOMAIN f.body[parent]
          /\ w \in ToSet(f.body[parent][n].args)
      BY <2>10, <3>2, <3>3
    <3> HIDE DEF n
    <3>5. d = parent \/ Dominates(SsaCfg(f), d, parent)
      BY <1>1, <2>13, <3>1, <3>4, StrictReads
    <3> QED  BY <3>5
  <2>16. Dominates(s, d, r.from)
    <3> DEFINE n == r.from
    <3>1. n \in ReachableFrom(s, 0) /\ b \in SuccessorSet(s, n)
      BY <2>9 DEF IsGuarded, ExecInv
    <3> HIDE DEF s, b, n
    <3>2. n \in NodeIds(f)
      BY <1>2, <3>1, ReachFacts
    <3>3. Dominates(s, parent, n)
      BY <1>2, <2>10, <3>1, <3>2, DominanceOrder
    <3>4. Dominates(s, d, n)
      BY <1>2, <2>15, <3>2, <3>3, DominanceOrder
    <3> QED  BY <3>4 DEF n
  <2>17. IsInForce(i, env)
    <3>1. ExecInv(f, r) /\ r.at # Nil
      BY DEF IsGuarded
    <3> QED  BY <1>1, <2>9, <2>13, <2>16, <3>1, LeftInForce
  <2>18. /\ ranges \in [Variables(f) -> RangeFacts] /\ env \in Environments(f)
         /\ \A x \in DOMAIN env : AllowsRange(ranges[x], env[x])
    BY DEF IsGuarded, ExecInv
  <2>19. taken \in BOOLEAN /\ R = Refined(ranges, i, v, taken)
    BY <1>4, <1>7 DEF i, taken
  <2>20. (env[i.dest] # 0) <=> taken
    BY <2>11, <2>12
  <2> DEFINE e == env
  <2>21. /\ e \in Environments(f) /\ v \in DOMAIN e /\ (e[i.dest] # 0 <=> taken) /\ IsInForce(i, e)
         /\ \A x \in DOMAIN e : AllowsRange(ranges[x], e[x])
    BY <2>17, <2>18, <2>20
  <2> HIDE DEF e, R
  <2>22. Refined(ranges, i, v, taken) \in RangeFacts /\ AllowsRange(Refined(ranges, i, v, taken), e[v])
    BY <2>14, <2>18, <2>19, <2>21, RefinedIsSound
  <2> QED  BY <2>19, <2>22 DEF e, R
<1> QED  BY <1>6, <1>7

(* Up the dominator tree every range still allows the value. *)
LEMMA RangeAtIsSound ==
  ASSUME NEW f, NEW g, NEW ranges, NEW r, IsGuarded(f, g, ranges, r), NEW v \in DOMAIN r.env
  PROVE  AllowsRange(RangeAt(f, g, ranges, v, r.at), r.env[v])
<1> DEFINE b == r.at
           n == f.count
           behind == Behind(g, 0)
           StrictDoms(c) == {a \in NodeIds(g) \ {c} : c \in behind[a]}
           Parents(c) == {a \in StrictDoms(c) : StrictDoms(c) \subseteq StrictDoms(a) \cup {a}}
           Climbed(x) ==
               IF Parents(x.current) = {} THEN x
               ELSE LET parent == CHOOSE a \in Parents(x.current) : TRUE
                    IN  [range |-> MeetRanges(x.range, RefinedThrough(f, ranges, behind, v,
                                                                      parent, x.current)),
                         current |-> parent]
           base == [range |-> ranges[v], current |-> b]
           Def(C) == C = [k \in 0 .. n |-> IF k = 0 THEN base ELSE Climbed(C[k - 1])]
           A == {x \in [range : RangeFacts, current : NodeIds(f)] :
                    AllowsRange(x.range, r.env[v]) /\ Dominates(g, x.current, b)}
           next == [k \in 1 .. n |-> [x \in A |-> Climbed(x)]]
<1>1. RangeAt(f, g, ranges, v, b) = (CHOOSE C : Def(C))[n].range
  BY Zenon DEF RangeAt
<1>2. /\ IsFunction(f) /\ IsGraph(g) /\ NodeIds(g) = NodeIds(f) /\ 0 \in NodeIds(f) /\ n \in Nat
      /\ \A x \in NodeIds(f) : SuccessorSet(SsaCfg(f), x) \subseteq SuccessorSet(g, x)
  <2>1. IsFunction(f) /\ IsGraph(g) /\ NodeIds(g) = NodeIds(f)
        /\ \A x \in NodeIds(f) : SuccessorSet(SsaCfg(f), x) \subseteq SuccessorSet(g, x)
    BY DEF IsGuarded, IsVerified
  <2> QED  BY <2>1, FunctionHasEntry DEF IsFunction
<1>3. b \in NodeIds(f) /\ Dominates(g, b, b)
  <2> DEFINE s == SsaCfg(f)
             Y == ReachableFrom(g, 0)
  <2>1. IsGraph(s) /\ NodeIds(s) = NodeIds(f)
    BY <1>2, SsaCfgIsGraph
  <2>2. b \in ReachableFrom(s, 0)
    BY DEF IsGuarded, ExecInv
  <2>3. 0 \in Y /\ \A w \in Y : SuccessorSet(g, w) \subseteq Y /\ w \in NodeIds(f)
    BY <1>2, ReachFacts
  <2> HIDE DEF Y, s, b
  <2>4. \A w \in ReachableFrom(s, 0) \cap Y : SuccessorSet(s, w) \subseteq Y
    BY <1>2, <2>3 DEF s
  <2>5. b \in Y
    BY <1>2, <2>1, <2>2, <2>3, <2>4, ReachFacts
  <2> QED  BY <1>2, <2>3, <2>5, DominanceOrder DEF Y
<1>4. r.env[v] \in Int /\ v \in Variables(f) /\ ranges[v] \in RangeFacts /\ AllowsRange(ranges[v], r.env[v])
  <2> DEFINE e == r.env
  <2>1. e \in Environments(f) /\ v \in DOMAIN e
    BY DEF IsGuarded, ExecInv
  <2> HIDE DEF e
  <2>2. e[v] \in NoMin .. NoMax /\ v \in Variables(f)
    BY <2>1, EnvironmentFacts
  <2>3. \A m \in NoMin .. NoMax : m \in Int
    OBVIOUS
  <2> QED  BY <2>2, <2>3 DEF IsGuarded, e
<1>5. base \in A
  BY <1>3, <1>4
<1>6. ASSUME NEW x \in A PROVE Climbed(x) \in A
  <2>1. CASE Parents(x.current) = {}
    BY <2>1
  <2>2. CASE Parents(x.current) # {}
    <3> DEFINE parent == CHOOSE a \in Parents(x.current) : TRUE
               child == x.current
               R == RefinedThrough(f, ranges, behind, v, parent, child)
               M == MeetRanges(x.range, R)
    <3>1. /\ x.range \in RangeFacts /\ child \in NodeIds(f)
          /\ AllowsRange(x.range, r.env[v]) /\ Dominates(g, child, b)
      OBVIOUS
    <3>2. parent \in Parents(child)
      BY <2>2
    <3>3. parent \in NodeIds(f) /\ Dominates(g, parent, child)
      BY <1>2, <3>2 DEF Dominates
    <3>4. Climbed(x) = [range |-> M, current |-> parent]
      BY <2>2
    <3> HIDE DEF parent, child, Parents, Climbed
    <3>5. R \in RangeFacts /\ AllowsRange(R, r.env[v])
      BY <3>1, <3>3, ThroughIsSound
    <3>6. Dominates(g, parent, b)
      BY <1>2, <1>3, <3>1, <3>3, DominanceOrder
    <3>7. M \in RangeFacts /\ AllowsRange(M, r.env[v])
      <4> DEFINE q == R
                 p == x.range
                 m == r.env[v]
      <4>1. p \in RangeFacts /\ q \in RangeFacts /\ m \in Int /\ AllowsRange(p, m) /\ AllowsRange(q, m)
        BY <1>4, <3>1, <3>5
      <4> HIDE DEF p, q, m
      <4>2. MeetRanges(p, q) \in RangeFacts /\ AllowsRange(MeetRanges(p, q), m)
        BY <4>1, MeetAllows
      <4> QED  BY <4>2 DEF p, q, m
    <3> HIDE DEF M
    <3> QED  BY <3>3, <3>4, <3>6, <3>7
  <2> QED  BY <2>1, <2>2
<1> HIDE DEF n, b, base, Climbed, A
<1>7. \E C : Def(C)
  <2>1. IsSteps(next, n, A)
    BY <1>6 DEF IsSteps
  <2>2. PICK C : IsRun(C, next, n, A, base)
    <3> HIDE DEF next
    <3> QED  BY <1>2, <1>5, <2>1, RunExists DEF n
  <2>3. ASSUME NEW k \in 0 .. n
        PROVE  C[k] = IF k = 0 THEN base ELSE Climbed(C[k - 1])
    <3>1. CASE k = 0
      BY <2>2, <3>1 DEF IsRun
    <3>2. CASE k \in 1 .. n
      <4>1. C[k - 1] \in A /\ C[k] = next[k][C[k - 1]]
        <5> HIDE DEF next
        <5>1. k - 1 \in 0 .. n /\ n \in Nat
          BY <1>2, <3>2 DEF n
        <5> QED  BY <2>2, <3>2, <5>1 DEF IsRun
      <4>2. k # 0
        BY <3>2
      <4> QED  BY <3>2, <4>1, <4>2
    <3>3. n \in Nat
      BY <1>2 DEF n
    <3> QED  BY <3>1, <3>2, <3>3
  <2>4. Def(C)
    <3>1. C = [k \in 0 .. n |-> C[k]]
      BY <2>2 DEF IsRun
    <3> QED  BY <2>3, <3>1
  <2> QED  BY <2>4
<1> DEFINE C == CHOOSE C : Def(C)
<1>8. Def(C)
  BY <1>7
<1>9. n \in Nat /\ \A k \in 0 .. n : C[k] = IF k = 0 THEN base ELSE Climbed(C[k - 1])
  <2> HIDE DEF C
  <2> QED  BY <1>2, <1>8 DEF n
<1>10. RangeAt(f, g, ranges, v, b) = C[n].range
  BY <1>1
<1> HIDE DEF C
<1> DEFINE S == {k \in Nat : k <= n => C[k] \in A}
<1>11. S = Nat
  <2>1. 0 \in S
    BY <1>5, <1>9
  <2>2. ASSUME NEW k \in S PROVE k + 1 \in S
    <3> SUFFICES ASSUME k + 1 <= n PROVE C[k + 1] \in A
      OBVIOUS
    <3>1. k \in Nat /\ k <= n /\ C[k] \in A /\ k + 1 \in 0 .. n /\ k + 1 # 0 /\ (k + 1) - 1 = k
      BY <1>9
    <3>2. C[k + 1] = Climbed(C[k])
      BY <1>9, <3>1
    <3> QED  BY <1>6, <3>1, <3>2
  <2>3. S \in SUBSET Nat
    OBVIOUS
  <2> HIDE DEF S
  <2> QED  BY <2>1, <2>2, <2>3, Induction
<1>12. C[n] \in A
  <2>1. n \in S /\ n <= n
    BY <1>9, <1>11
  <2> QED  BY <2>1
<1> QED  BY <1>10, <1>12 DEF A, b

-----------------------------------------------------------------------------
(* The propagation's answer counts: it converged, and where it is one of ranges
   its premises hold. *)
Trusted ==
    /\ Proved
    /\ analysis = "constants" => OnlyArguments(function)
    /\ analysis = "ranges" => BranchesAreKnown /\ WideningCovers

(* The inductive invariant of the propagation and of the run that its answer is
   compared with: what the function does is not told by the propagation, and what
   the propagation says of it counts where it can be trusted. *)
PropagationInv ==
    IsSparse =>
        /\ IsVerified(function)
        /\ step \in {"propagate", "ready", "run"} => SparseInv(function, analysis, sparse, {}, {}, {})
        /\ step = "run" => ExecInv(function, run)
        /\ step = "run" /\ Trusted => RunInv(function, analysis, sparse, run)

(* The invariant holds at first. *)
LEMMA PropagationInvInit == Init => PropagationInv
<1> SUFFICES ASSUME Init, IsSparse PROVE PropagationInv
  BY DEF PropagationInv
<1>1. IsVerified(function) /\ step = "attach"
  BY InquiriesAssumption DEF Init, IsSsaFunction, IsSparse, IsVerified
<1> QED  BY <1>1 DEF PropagationInv

(* The entry of the exception-aware graph has the edges of its terminator. *)
LEMMA EntryRow ==
  ASSUME DataflowInv, IsExecutable(function)
  PROVE  /\ EhCfg.succ[0] \in Seq(NodeIds(function))
         /\ ToSet(Terminator(function, 0).targets) \subseteq ToSet(EhCfg.succ[0])
<1>1. EhInv /\ IsFunction(function) /\ 0 \in NodeIds(function)
  BY FunctionHasEntry DEF DataflowInv, EhInv
<1>2. EhCfg.succ[0] \in Seq(NodeIds(function)) /\ ToSet(EhCfg.succ[0]) = Known(eh, 0)
  BY <1>1, EhCfgIsGraph DEF IsGraph, SuccessorSet
<1>3. SuccessorSet(SsaCfg(function), 0) = ToSet(function.targets[0]) \cap NodeIds(function)
  BY <1>1, SsaCfgIsGraph
<1>4. Terminator(function, 0).targets = function.targets[0]
  BY <1>1 DEF IsExecutable
<1>5. ToSet(Terminator(function, 0).targets) \subseteq NodeIds(function)
  <2> DEFINE t == Terminator(function, 0)
             w == t.targets
             A == NodeIds(function)
  <2>1. t \in InstructionSet(function)
    BY <1>1, InstructionFacts
  <2>2. w \in Seq(A)
    BY <2>1 DEF InstructionSet
  <2> HIDE DEF w, A
  <2>3. ToSet(w) \subseteq A
    BY <2>2 DEF ToSet
  <2> QED  BY <2>3 DEF w, A
<1> QED  BY <1>2, <1>3, <1>4, <1>5 DEF Known

(* Every action keeps it. *)
LEMMA PropagationInvNext == DataflowInv /\ PropagationInv /\ [Next]_vars => PropagationInv'
<1> SUFFICES ASSUME DataflowInv, PropagationInv, [Next]_vars, IsSparse' PROVE PropagationInv'
  BY DEF PropagationInv
<1>1. analysis' = analysis /\ function' = function
  BY DEF Next, AttachRoots, AttachNext, Expand, FallBack, BeginSolving, Solve, BeginPropagating,
         Propagate, Rewrite, Start, RunBlock, ehVars, vars
<1>2. PICK f, d, s, r : f = function /\ d = analysis /\ s = sparse /\ r = run
  OBVIOUS
<1>3. /\ d \in Domains /\ f' = f /\ d' = d /\ IsSparse
      /\ IsVerified(f) /\ IsExecutable(f) /\ IsSingleAssignment(f) /\ f.count \in Nat \ {0}
      /\ step = "run" => ExecInv(f, r)
      /\ step \in {"propagate", "ready", "run"} => SparseInv(f, d, s, {}, {}, {})
      /\ step = "run" /\ Trusted => RunInv(f, d, s, r)
  BY <1>1, <1>2 DEF PropagationInv, IsSparse, Domains, IsVerified, IsFunction
<1>4. ASSUME step' \in {"propagate", "ready", "run"} => SparseInv(f, d, sparse', {}, {}, {}),
             step' = "run" => ExecInv(f, run'),
             step' = "run" /\ Trusted' => RunInv(f, d, sparse', run')
      PROVE  PropagationInv'
  BY <1>1, <1>2, <1>3, <1>4 DEF PropagationInv
<1>5. CASE AttachRoots \/ BeginSolving \/ Solve
  BY <1>3, <1>4, <1>5 DEF AttachRoots, BeginSolving, Solve
<1>6. CASE BeginPropagating
  <2>1. sparse' = NewSparse(d, f, EhCfg) /\ step' = "propagate"
    BY <1>2, <1>6 DEF BeginPropagating
  <2>2. EhCfg.succ[0] \in Seq(NodeIds(f)) /\ ToSet(Terminator(f, 0).targets) \subseteq ToSet(EhCfg.succ[0])
    BY <1>2, <1>3, EntryRow
  <2> DEFINE g == EhCfg
  <2> HIDE DEF g
  <2>3. SparseInv(f, d, NewSparse(d, f, g), {}, {}, {})
    BY <1>3, <2>2, NewSparseCore DEF g
  <2> QED  BY <1>4, <2>1, <2>3 DEF g
<1>7. CASE Propagate
  <2>1. step = "propagate" /\ step' = "propagate" /\ SparseNext(f, EhCfg)
    BY <1>2, <1>7 DEF Propagate
  <2>2. SparseInv(f, d, sparse', {}, {}, {})
    BY <1>2, <1>3, <2>1, PropagationStep
  <2> QED  BY <1>4, <2>1, <2>2
<1>8. CASE Rewrite
  <2>1. step = "propagate" /\ step' = "ready" /\ sparse' = s
    BY <1>2, <1>8 DEF Rewrite
  <2> QED  BY <1>3, <1>4, <2>1
<1>9. CASE Start
  <2>1. /\ step = "ready" /\ sparse' = s
        /\ \E env \in [f.initial.supplied -> Opaque] : run' = [at |-> 0, from |-> Nil, env |-> env]
    BY <1>2, <1>9 DEF Start, ArgumentValues
  <2>2. PICK env \in [f.initial.supplied -> Opaque] : run' = [at |-> 0, from |-> Nil, env |-> env]
    BY <2>1
  <2>3. SparseInv(f, d, s, {}, {}, {})
    BY <1>3, <2>1
  <2>4. \A v \in Inputs(f, d) : s.facts[v] = AnyFact(d)
    BY <2>3 DEF SparseInv
  <2>5. f.initial.supplied \subseteq Variables(f)
    BY DEF Variables
  <2>10. Trusted' => Inputs(f, d) = f.initial.supplied
    BY <1>1, <1>2 DEF Trusted, OnlyArguments, Inputs
  <2>6. \A x \in Opaque : x \in Int /\ Allows(d, AnyFact(d), x)
    BY <1>3, OpaqueAssumption, WidthIsInteger DEF Domains, AnyFact, Allows, AllowsConstant, AllowsRange
  <2>7. Trusted' => env \in Explained(f, d, s)
    BY <2>4, <2>5, <2>6, <2>10, ExplainedFacts
  <2>8. Trusted' => RunInv(f, d, s, run')
    BY <2>2, <2>3, <2>7 DEF RunInv, SparseInv
  <2>9. ExecInv(f, run')
    BY <1>3, <2>2, StartFacts
  <2> QED  BY <1>4, <2>1, <2>3, <2>8, <2>9
<1>10. CASE RunBlock
  <2>1. /\ step = "run" /\ step' = "run" /\ sparse' = s /\ r.at # Nil /\ run' \in Outcomes(f, r)
        /\ UNCHANGED <<function, sparse, analysis>>
    BY <1>2, <1>10 DEF RunBlock, ehVars
  <2>2. Trusted' = Trusted
    BY <2>1 DEF Trusted, Proved, IsConverged, BranchesAreKnown, WideningCovers
  <2>3. ASSUME Trusted PROVE RunInv(f, d, s, run')
    <3>1. /\ s.flow = <<>> /\ s.variables = <<>>
          /\ d = "ranges" => KnownBranches(f, s) /\ CoveredFacts(f, s)
      BY <1>2, <2>3 DEF Trusted, Proved, IsConverged, BranchesAreKnown, WideningCovers,
                        KnownBranches, CoveredFacts
    <3>2. Accounts(f, d, s)
      BY <1>3, <2>1, <3>1, ConvergedAccounts
    <3> QED  BY <1>3, <2>1, <2>3, <3>1, <3>2, OutcomeCore
  <2>4. ExecInv(f, run')
    BY <1>3, <2>1, OutcomeFacts
  <2> QED  BY <1>3, <1>4, <2>1, <2>2, <2>3, <2>4
<1>11. CASE UNCHANGED vars
  <2>1. sparse' = s /\ run' = r /\ step' = step /\ UNCHANGED <<function, sparse, analysis>>
    BY <1>2, <1>11 DEF vars, machineVars, ehVars
  <2>2. Trusted' = Trusted
    BY <2>1 DEF Trusted, Proved, IsConverged, BranchesAreKnown, WideningCovers
  <2> QED  BY <1>3, <1>4, <2>1, <2>2
<1> QED  BY <1>5, <1>6, <1>7, <1>8, <1>9, <1>10, <1>11 DEF Next

(* The value analyses are right, for every function, whatever way it runs while
   nothing throws.  Where the entry defines only arguments, control enters only
   blocks sccp.rs found executable, and a variable it calls constant never has
   another value; no variable ever has a value outside the
   range passes/ranges.rs found for it, nor, at a block, outside what range_at
   says there -- under the premises FactsHold names. *)
THEOREM FactsSound == Spec => []FactsHold
<1>1. DataflowInv /\ PropagationInv => FactsHold
  <2> SUFFICES ASSUME DataflowInv, PropagationInv, step = "run", Proved, IsSparse
               PROVE  /\ analysis = "constants" /\ OnlyArguments(function) => ConstantsHold
                      /\ analysis = "ranges" /\ BranchesAreKnown /\ WideningCovers =>
                            /\ RangesHold
                            /\ ArmsAreUnshared(function) /\ Signed(function) => GuardedRangesHold
    BY DEF FactsHold, IsSparse
  <2>1. PICK f, d, s, r : f = function /\ d = analysis /\ s = sparse /\ r = run
    OBVIOUS
  <2>2. IsVerified(f) /\ SparseInv(f, d, s, {}, {}, {}) /\ ExecInv(f, r)
    BY <2>1 DEF PropagationInv
  <2>3. ASSUME analysis = "constants", OnlyArguments(function) PROVE ConstantsHold
    <3>1. RunInv(f, "constants", s, r)
      BY <2>1, <2>3 DEF PropagationInv, Trusted
    <3>2. \A v \in DOMAIN r.env : AllowsConstant(s.facts[v], r.env[v])
      BY <3>1, ExplainedFacts DEF RunInv, Allows
    <3> QED  BY <2>1, <3>1, <3>2 DEF ConstantsHold, RunInv
  <2>4. ASSUME analysis = "ranges", BranchesAreKnown, WideningCovers
        PROVE  \A v \in DOMAIN r.env : AllowsRange(s.facts[v], r.env[v])
    <3>1. RunInv(f, "ranges", s, r)
      BY <2>1, <2>4 DEF PropagationInv, Trusted
    <3> QED  BY <3>1, ExplainedFacts DEF RunInv, Allows
  <2>5. ASSUME analysis = "ranges", BranchesAreKnown, WideningCovers,
               ArmsAreUnshared(function), Signed(function)
        PROVE  GuardedRangesHold
    <3> SUFFICES ASSUME run.at # Nil, NEW v \in DOMAIN r.env
                 PROVE  AllowsRange(RangeAt(f, EhCfg, s.facts, v, r.at), r.env[v])
      BY <2>1 DEF GuardedRangesHold
    <3> DEFINE g == EhCfg
               ranges == s.facts
    <3>1. /\ IsGraph(g) /\ NodeIds(g) = NodeIds(f)
          /\ \A b \in NodeIds(f) : SuccessorSet(SsaCfg(f), b) \subseteq SuccessorSet(g, b)
      BY <2>1, EhCfgIsGraph DEF DataflowInv, EhInv, Known
    <3>2. ranges \in [Variables(f) -> RangeFacts]
      BY <2>1, <2>2, <2>5 DEF SparseInv, SparseStates, FactsOf
    <3>3. \A x \in DOMAIN r.env : AllowsRange(ranges[x], r.env[x])
      BY <2>4, <2>5
    <3>4. ArmsAreUnshared(f) /\ Signed(f) /\ r.at # Nil
      BY <2>1, <2>5
    <3> HIDE DEF g, ranges
    <3>5. IsGuarded(f, g, ranges, r)
      BY <2>2, <3>1, <3>2, <3>3, <3>4 DEF IsGuarded
    <3>6. AllowsRange(RangeAt(f, g, ranges, v, r.at), r.env[v])
      BY <3>5, RangeAtIsSound
    <3> QED  BY <3>6 DEF g, ranges
  <2> QED  BY <2>1, <2>3, <2>4, <2>5 DEF RangesHold
<1> QED
  BY <1>1, DataflowInvInit, DataflowInvNext, PropagationInvInit, PropagationInvNext, PTL DEF Spec
=============================================================================
