-------------------------- MODULE FlowAnalysisProofs --------------------------
(*****************************************************************************)
(* The analyses of a function's control flow, for every function and every   *)
(* question.                                                                 *)
(*                                                                           *)
(* First the algorithm of Lengauer and Tarjan as                             *)
(* graph/algorithms/dominators.rs runs it, for every graph: DomInv is        *)
(* inductive, and in the end the numbered tree answers for all paths         *)
(* (InvIsExact). The parts of the argument, in order: depth-first trees and  *)
(* the edges between their branches; semidominators and why they determine   *)
(* the immediate dominators; phase 1, which builds the tree; the forest of   *)
(* phases 2 and 3, where compression changes the links and not what `eval`   *)
(* answers; the buckets; the numbering of the tree; and the frontiers        *)
(* computed from a finished tree (HoldersAreExact). A depth-first tree T and *)
(* the operators on it are pure: they are shown of any graph, and DomInv     *)
(* instantiates them with the fields of `lt`.                                *)
(*                                                                           *)
(* Then what ExceptionFlowProofs and these lemmas show of one call, carried  *)
(* through the calls of FlowAnalysis (from FlowInv on), and what is built on *)
(* the trees: frontiers, the values a handler may use, post-dominance and    *)
(* control dependence, the loops of a round, and the way each edge is kept   *)
(* on while blocks are spliced in.                                           *)
(*****************************************************************************)
EXTENDS FlowAnalysis, ExceptionFlowProofs, SequenceTheorems

(* A depth-first tree is a record: its nodes and its root, and for each node its
   number and its parent.  a is an ancestor of b, or b itself, when it is in
   every set that holds b and, with a node, its parent. *)
Up(T, S) == \A x \in S \cap (T.nodes \ {T.root}) : T.par[x] \in S
Anc(T, a, b) == \A S : b \in S /\ Up(T, S) => a \in S

IsTree(T) ==
    /\ T.root \in T.nodes
    /\ \A x \in T.nodes : T.num[x] \in Nat
    /\ \A x, y \in T.nodes : T.num[x] = T.num[y] => x = y
    /\ \A x \in T.nodes \ {T.root} : T.par[x] \in T.nodes /\ T.num[T.par[x]] < T.num[x]

(* The nodes of a subtree have the numbers of an interval; an edge to a higher
   number leads to a descendant. *)
IsNested(T) ==
    \A a, b, x \in T.nodes :
        Anc(T, a, b) /\ T.num[a] <= T.num[x] /\ T.num[x] <= T.num[b] => Anc(T, a, x)
IsForward(g, T) ==
    \A u \in T.nodes : \A v \in SuccessorSet(g, u) :
        v \in T.nodes /\ (T.num[u] < T.num[v] => Anc(T, u, v))
IsDfs(g, T) ==
    /\ IsGraph(g) /\ T.nodes \subseteq NodeIds(g)
    /\ IsTree(T) /\ IsNested(T) /\ IsForward(g, T)
    /\ \A x \in T.nodes \ {T.root} : x \in SuccessorSet(g, T.par[x])

LEMMA AncBasics ==
  ASSUME NEW T, NEW a
  PROVE  /\ Anc(T, a, a)
         /\ \A b, c : Anc(T, a, b) /\ Anc(T, b, c) => Anc(T, a, c)
         /\ \A b \in T.nodes \ {T.root} : Anc(T, T.par[b], b)
         /\ \A b \in T.nodes \ {T.root} : Anc(T, a, b) /\ a # b => Anc(T, a, T.par[b])
         /\ Anc(T, a, T.root) => a = T.root
<1>1. Anc(T, a, a) /\ \A b, c : Anc(T, a, b) /\ Anc(T, b, c) => Anc(T, a, c)
  BY DEF Anc
<1>2. \A b \in T.nodes \ {T.root} : Anc(T, T.par[b], b)
  BY DEF Anc, Up
<1>3. ASSUME NEW b \in T.nodes \ {T.root}, Anc(T, a, b), a # b PROVE Anc(T, a, T.par[b])
  <2> SUFFICES ASSUME NEW S, T.par[b] \in S, Up(T, S) PROVE a \in S
    BY DEF Anc
  <2>1. Up(T, S \cup {b})
    BY DEF Up
  <2> QED  BY <1>3, <2>1 DEF Anc
<1>4. Anc(T, a, T.root) => a = T.root
  <2>1. Up(T, {T.root})
    BY DEF Up
  <2> QED  BY <2>1 DEF Anc
<1> QED  BY <1>1, <1>2, <1>3, <1>4

LEMMA AncNumbers ==
  ASSUME NEW T, IsTree(T), NEW b \in T.nodes, NEW a, Anc(T, a, b)
  PROVE  a \in T.nodes /\ T.num[a] <= T.num[b] /\ (T.num[a] = T.num[b] => a = b)
<1> DEFINE S == {x \in T.nodes : T.num[x] <= T.num[b]}
<1>1. Up(T, S) /\ b \in S
  BY DEF Up, IsTree
<1>2. a \in S
  BY <1>1 DEF Anc
<1> QED  BY <1>2 DEF IsTree

LEMMA RootIsAncestor ==
  ASSUME NEW T, IsTree(T), NEW x \in T.nodes
  PROVE  Anc(T, T.root, x)
<1> DEFINE Good == {k \in Nat : \A y \in T.nodes : T.num[y] <= k => Anc(T, T.root, y)}
<1>1. 0 \in Good
  <2> SUFFICES ASSUME NEW y \in T.nodes, T.num[y] <= 0 PROVE Anc(T, T.root, y)
    OBVIOUS
  <2>1. y = T.root
    BY DEF IsTree
  <2> QED  BY <2>1, AncBasics
<1>2. ASSUME NEW k \in Good PROVE k + 1 \in Good
  <2> SUFFICES ASSUME NEW y \in T.nodes, T.num[y] <= k + 1 PROVE Anc(T, T.root, y)
    OBVIOUS
  <2>1. CASE y = T.root
    BY <2>1, AncBasics
  <2>2. CASE y # T.root
    <3>1. T.par[y] \in T.nodes /\ T.num[T.par[y]] <= k
      BY <2>2 DEF IsTree
    <3>2. Anc(T, T.root, T.par[y]) /\ Anc(T, T.par[y], y)
      BY <2>2, <3>1, AncBasics
    <3> QED  BY <3>2, AncBasics
  <2> QED  BY <2>1, <2>2
<1>3. Good = Nat
  <2>1. Good \in SUBSET Nat
    OBVIOUS
  <2> HIDE DEF Good
  <2> QED  BY <1>1, <1>2, <2>1, Induction
<1>4. T.num[x] \in Good
  BY <1>3 DEF IsTree
<1> QED  BY <1>4 DEF IsTree

(* Two ancestors of a node are ancestors of each other, in order of number. *)
LEMMA AncestorsAreChain ==
  ASSUME NEW g, NEW T, IsDfs(g, T), NEW c \in T.nodes, NEW a, NEW b,
         Anc(T, a, c), Anc(T, b, c), T.num[a] <= T.num[b]
  PROVE  Anc(T, a, b)
<1>1. a \in T.nodes /\ b \in T.nodes /\ T.num[b] <= T.num[c]
  BY AncNumbers DEF IsDfs
<1> QED  BY <1>1 DEF IsDfs, IsNested

-----------------------------------------------------------------------------
(* What is reachable from the root without entering a. *)
Avoiding(g, T, a) == ReachableAvoiding(g, {T.root}, {a})

LEMMA AvoidingFacts ==
  ASSUME NEW g, NEW T, IsDfs(g, T), NEW a
  PROVE  /\ a \notin Avoiding(g, T, a) /\ Avoiding(g, T, a) \subseteq NodeIds(g)
         /\ a # T.root => T.root \in Avoiding(g, T, a)
         /\ \A v \in Avoiding(g, T, a) : \A w \in SuccessorSet(g, v) : w # a => w \in Avoiding(g, T, a)
         /\ \A Y : (T.root # a => T.root \in Y)
                    /\ (\A v \in Y \cap Avoiding(g, T, a) : \A w \in SuccessorSet(g, v) : w # a => w \in Y)
                  => Avoiding(g, T, a) \subseteq Y
<1> DEFINE X == Avoiding(g, T, a)
<1>1. IsGraph(g) /\ {T.root} \in SUBSET NodeIds(g)
  BY DEF IsDfs, IsTree
<1>2. /\ X \subseteq NodeIds(g) \ {a} /\ {T.root} \ {a} \subseteq X
      /\ IsClosed(g, {a}, X)
      /\ \A Y : {T.root} \ {a} \subseteq Y
                  /\ (\A v \in X \cap Y : SuccessorSet(g, v) \ {a} \subseteq Y)
               => X \subseteq Y
  <2> DEFINE starts == {T.root}
             closed == {a}
  <2>1. starts \in SUBSET NodeIds(g) /\ X = ReachableAvoiding(g, starts, closed)
    BY <1>1 DEF Avoiding
  <2> HIDE DEF X, starts, closed
  <2>2. /\ X \subseteq NodeIds(g) \ closed /\ starts \ closed \subseteq X
        /\ IsClosed(g, closed, X)
        /\ \A Y : starts \ closed \subseteq Y
                    /\ (\A v \in X \cap Y : SuccessorSet(g, v) \ closed \subseteq Y)
                 => X \subseteq Y
    BY <1>1, <2>1, ReachableFacts
  <2> QED  BY <2>2 DEF starts, closed
<1> HIDE DEF X
<1>3. \A v \in X : \A w \in SuccessorSet(g, v) : w # a => w \in X
  BY <1>2 DEF IsClosed
<1>4. ASSUME NEW Y, T.root # a => T.root \in Y,
             \A v \in Y \cap X : \A w \in SuccessorSet(g, v) : w # a => w \in Y
      PROVE  X \subseteq Y
  <2>1. {T.root} \ {a} \subseteq Y
    BY <1>4
  <2>2. \A v \in X \cap Y : SuccessorSet(g, v) \ {a} \subseteq Y
    BY <1>4
  <2> QED  BY <1>2, <2>1, <2>2
<1>5. a \notin X /\ X \subseteq NodeIds(g) /\ (a # T.root => T.root \in X)
  BY <1>2
<1> QED  BY <1>3, <1>4, <1>5 DEF X

(* A way that is open to u goes on along the tree, unless it meets a. *)
LEMMA TreePath ==
  ASSUME NEW g, NEW T, IsDfs(g, T), NEW a, NEW u, NEW v \in T.nodes,
         u \in Avoiding(g, T, a), Anc(T, u, v),
         \A x \in T.nodes : Anc(T, u, x) /\ Anc(T, x, v) /\ x # u => x # a
  PROVE  v \in Avoiding(g, T, a)
<1> DEFINE S == {x \in T.nodes : Anc(T, x, v) /\ (Anc(T, u, x) /\ x \in Avoiding(g, T, a)
                                                    => v \in Avoiding(g, T, a))}
<1>1. v \in S
  BY AncBasics
<1>2. ASSUME NEW x \in S, x # T.root PROVE T.par[x] \in S
  <2>1. T.par[x] \in T.nodes /\ Anc(T, T.par[x], x) /\ x \in SuccessorSet(g, T.par[x])
        /\ T.num[T.par[x]] < T.num[x] /\ T.num[x] \in Nat /\ T.num[T.par[x]] \in Nat
    BY <1>2, AncBasics DEF IsDfs, IsTree
  <2>2. Anc(T, T.par[x], v)
    BY <2>1, AncBasics
  <2>3. ASSUME Anc(T, u, T.par[x]), T.par[x] \in Avoiding(g, T, a)
        PROVE  v \in Avoiding(g, T, a)
    <3>1. Anc(T, u, x)
      BY <2>1, <2>3, AncBasics
    <3>2. x # u
      <4>1. T.num[u] <= T.num[T.par[x]]
        BY <2>1, <2>3, AncNumbers DEF IsDfs
      <4> QED  BY <2>1, <4>1
    <3>3. x \in Avoiding(g, T, a)
      BY <2>1, <2>3, <3>1, <3>2, AvoidingFacts
    <3> QED  BY <3>1, <3>3
  <2> QED  BY <2>1, <2>2, <2>3
<1>3. Up(T, S)
  BY <1>2 DEF Up
<1>4. u \in S
  <2> HIDE DEF S
  <2> QED  BY <1>1, <1>3 DEF Anc
<1> QED  BY <1>4, AncBasics

(* A dominator is an ancestor. *)
LEMMA DominatorIsAncestor ==
  ASSUME NEW g, NEW T, IsDfs(g, T), NEW a \in T.nodes, NEW w \in T.nodes, w \notin Avoiding(g, T, a)
  PROVE  Anc(T, a, w)
<1>1. Anc(T, T.root, w)
  BY RootIsAncestor DEF IsDfs
<1>2. CASE a = T.root
  BY <1>1, <1>2
<1>3. CASE a # T.root
  <2>1. T.root \in Avoiding(g, T, a)
    BY <1>3, AvoidingFacts
  <2> QED  BY <1>1, <2>1, TreePath
<1> QED  BY <1>2, <1>3

(* The nodes of the tree are the reachable ones. *)
LEMMA TreeIsReachable ==
  ASSUME NEW g, NEW T, IsDfs(g, T)
  PROVE  ReachableFrom(g, T.root) = T.nodes
<1> DEFINE X == ReachableFrom(g, T.root)
<1>1. IsGraph(g) /\ {T.root} \in SUBSET NodeIds(g)
  BY DEF IsDfs, IsTree
<1>2. /\ {T.root} \ {} \subseteq X /\ IsClosed(g, {}, X)
      /\ \A Y : {T.root} \ {} \subseteq Y /\ (\A v \in X \cap Y : SuccessorSet(g, v) \ {} \subseteq Y)
               => X \subseteq Y
  <2> DEFINE starts == {T.root}
             closed == {}
  <2>1. starts \in SUBSET NodeIds(g) /\ X = ReachableAvoiding(g, starts, closed)
    BY <1>1 DEF ReachableFrom
  <2> HIDE DEF X, starts, closed
  <2>2. /\ starts \ closed \subseteq X /\ IsClosed(g, closed, X)
        /\ \A Y : starts \ closed \subseteq Y
                    /\ (\A v \in X \cap Y : SuccessorSet(g, v) \ closed \subseteq Y)
                 => X \subseteq Y
    BY <1>1, <2>1, ReachableFacts
  <2> QED  BY <2>2 DEF starts, closed
<1> HIDE DEF X
<1>3. X \subseteq T.nodes
  <2>1. T.root \in T.nodes /\ \A v \in T.nodes : SuccessorSet(g, v) \subseteq T.nodes
    BY DEF IsDfs, IsTree, IsForward
  <2> QED  BY <1>2, <2>1
<1>4. ASSUME NEW v \in T.nodes PROVE v \in X
  <2> DEFINE S == {x \in T.nodes : x \in X => v \in X}
  <2>1. ASSUME NEW x \in S, x # T.root PROVE T.par[x] \in S
    <3>1. T.par[x] \in T.nodes /\ x \in SuccessorSet(g, T.par[x])
      BY <2>1 DEF IsDfs, IsTree
    <3> QED  BY <1>2, <3>1 DEF IsClosed
  <2>2. Up(T, S) /\ v \in S
    BY <1>4, <2>1 DEF Up
  <2>3. T.root \in S
    <3>1. Anc(T, T.root, v)
      BY RootIsAncestor DEF IsDfs
    <3> HIDE DEF S
    <3> QED  BY <2>2, <3>1 DEF Anc
  <2> QED  BY <1>2, <2>3
<1> QED  BY <1>3, <1>4 DEF X

-----------------------------------------------------------------------------
(* Semidominators.  s is one bound for the strict dominators of w from above:
   whatever is below w and no ancestor of s, w is reached without; and the
   recurrence of the algorithm is one from below. *)
IsPassable(g, T, w, s) ==
    \A a \in T.nodes : T.num[a] < T.num[w] /\ ~Anc(T, a, s) => w \in Avoiding(g, T, a)
IsLow(g, T, semi, v, w) ==
    /\ T.num[v] < T.num[w] => T.num[semi[w]] <= T.num[v]
    /\ \A u \in T.nodes : Anc(T, u, v) /\ T.num[u] > T.num[w] => T.num[semi[w]] <= T.num[semi[u]]
IsHigh(g, T, s, w) == s \in T.nodes /\ Anc(T, s, w) /\ IsPassable(g, T, w, s)
IsSemiOf(g, T, semi, w) ==
    /\ IsHigh(g, T, semi[w], w)
    /\ \A v \in T.nodes : w \in SuccessorSet(g, v) => IsLow(g, T, semi, v, w)
IsSemi(g, T, semi) == \A w \in T.nodes \ {T.root} : IsSemiOf(g, T, semi, w)

(* No node strictly between s and x has a semidominator above s. *)
IsCovered(T, semi, s, x) ==
    \A u \in T.nodes : Anc(T, s, u) /\ u # s /\ Anc(T, u, x) => T.num[s] <= T.num[semi[u]]

(* Such an s dominates x: the nodes that are covered by s are entered only
   from s and from each other. *)
LEMMA CoveredIsDominated ==
  ASSUME NEW g, NEW T, IsDfs(g, T), NEW semi, IsSemi(g, T, semi),
         NEW s \in T.nodes, NEW x0 \in T.nodes, s # x0, Anc(T, s, x0), IsCovered(T, semi, s, x0)
  PROVE  x0 \notin Avoiding(g, T, s)
<1> DEFINE Z == {x \in T.nodes : Anc(T, s, x) /\ x # s /\ IsCovered(T, semi, s, x)}
           Y == T.nodes \ Z
<1>0. IsTree(T)
  BY DEF IsDfs
<1>a. ASSUME NEW p \in T.nodes PROVE T.num[p] \in Nat
  BY <1>0 DEF IsTree
<1>1. T.root \in Y
  <2>1. Anc(T, s, T.root) => s = T.root
    BY AncBasics
  <2> QED  BY <1>0, <2>1 DEF IsTree
<1>2. ASSUME NEW v \in T.nodes, NEW x \in Z, x \in SuccessorSet(g, v), v # s PROVE v \in Z
  <2>1. x # T.root
    BY <1>1
  <2>2. /\ semi[x] \in T.nodes /\ IsLow(g, T, semi, v, x)
        /\ T.num[s] <= T.num[semi[x]]
    BY <1>2, <2>1, AncBasics DEF IsSemi, IsSemiOf, IsHigh, IsCovered
  <2>3. Anc(T, s, x) /\ T.num[s] \in Nat /\ T.num[x] \in Nat /\ T.num[v] \in Nat
    BY <1>a
  <2>4. CASE T.num[v] < T.num[x]
    <3>1. Anc(T, v, x)
      BY <1>2, <2>4 DEF IsDfs, IsForward
    <3>2. T.num[s] <= T.num[v]
      BY <1>a, <2>2, <2>3, <2>4 DEF IsLow
    <3>3. Anc(T, s, v)
      BY <2>3, <3>1, <3>2, AncestorsAreChain
    <3>4. IsCovered(T, semi, s, v)
      <4>1. \A u \in T.nodes : Anc(T, u, v) => Anc(T, u, x)
        BY <3>1, AncBasics
      <4> QED  BY <4>1 DEF IsCovered
    <3> QED  BY <1>2, <3>3, <3>4
  <2>5. CASE T.num[v] = T.num[x]
    BY <1>0, <2>5 DEF IsTree
  <2>6. CASE T.num[v] > T.num[x]
    (* The ancestors of v with a higher number than x, down to one whose parent
       is an ancestor of x. *)
    <3>1. ASSUME NEW u \in T.nodes, Anc(T, u, v), T.num[u] > T.num[x]
          PROVE  T.num[s] <= T.num[semi[u]] /\ semi[u] \in T.nodes /\ Anc(T, semi[u], u)
                 /\ T.num[semi[u]] < T.num[u]
      <4>1. u # T.root
        <5>1. Anc(T, T.root, x)
          BY <1>0, RootIsAncestor
        <5>2. T.num[T.root] <= T.num[x] /\ T.num[T.root] \in Nat
          BY <1>0, <1>a, <5>1, AncNumbers DEF IsTree
        <5> QED  BY <1>a, <2>3, <3>1, <5>2
      <4>2. semi[u] \in T.nodes /\ Anc(T, semi[u], u)
        BY <4>1 DEF IsSemi, IsSemiOf, IsHigh
      <4>3. T.num[semi[x]] <= T.num[semi[u]]
        BY <2>2, <3>1 DEF IsLow
      <4>4. T.num[semi[u]] < T.num[u]
        <5>1. /\ T.par[u] \in T.nodes /\ u \in SuccessorSet(g, T.par[u]) /\ T.num[T.par[u]] < T.num[u]
          BY <4>1 DEF IsDfs, IsTree
        <5>2. T.num[semi[u]] <= T.num[T.par[u]]
          BY <4>1, <5>1 DEF IsSemi, IsSemiOf, IsHigh, IsLow
        <5> QED  BY <1>a, <4>2, <5>1, <5>2
      <4> QED  BY <1>a, <2>2, <2>3, <4>2, <4>3, <4>4
    <3> DEFINE S == {u \in T.nodes : Anc(T, u, v) /\ T.num[u] > T.num[x]}
               H == {u \in T.nodes : Anc(T, u, v) /\ (T.num[u] > T.num[x] \/ (Anc(T, s, u) /\ Anc(T, u, x)))}
    <3>2. ASSUME NEW u \in S PROVE T.par[u] \in H /\ u # T.root
      <4>1. u # T.root
        <5>1. Anc(T, T.root, x)
          BY <1>0, RootIsAncestor
        <5>2. T.num[T.root] <= T.num[x] /\ T.num[T.root] \in Nat
          BY <1>0, <1>a, <5>1, AncNumbers DEF IsTree
        <5> QED  BY <1>a, <2>3, <5>2
      <4>2. /\ T.par[u] \in T.nodes /\ Anc(T, T.par[u], u) /\ T.num[T.par[u]] < T.num[u]
        BY <4>1, AncBasics DEF IsDfs, IsTree
      <4>3. Anc(T, T.par[u], v)
        BY <4>2, AncBasics
      <4>4. CASE T.num[T.par[u]] <= T.num[x]
        <5>1. Anc(T, T.par[u], x)
          BY <1>a, <4>2, <4>4 DEF IsDfs, IsNested
        <5>2. T.num[s] <= T.num[semi[u]] /\ semi[u] \in T.nodes /\ Anc(T, semi[u], u)
              /\ T.num[semi[u]] < T.num[u]
          BY <3>1
        <5>3. Anc(T, semi[u], T.par[u])
          <6>1. semi[u] # u
            BY <1>a, <5>2
          <6> QED  BY <4>1, <5>2, <6>1, AncBasics
        <5>4. T.num[s] <= T.num[T.par[u]]
          <6>1. T.num[semi[u]] <= T.num[T.par[u]]
            BY <1>0, <4>2, <5>3, AncNumbers
          <6> QED  BY <1>a, <2>3, <4>2, <5>2, <6>1
        <5>5. Anc(T, s, T.par[u])
          BY <2>3, <5>1, <5>4, AncestorsAreChain
        <5> QED  BY <4>1, <4>2, <4>3, <5>1, <5>5
      <4>5. CASE T.num[T.par[u]] > T.num[x]
        <5>1. T.par[u] \in H
          BY <1>a, <2>3, <4>2, <4>3, <4>5
        <5> QED  BY <4>1, <5>1
      <4> QED  BY <1>a, <2>3, <4>2, <4>4, <4>5
    (* So s is an ancestor of v. *)
    <3>3. Anc(T, s, v)
      <4> DEFINE R == {u \in T.nodes : Anc(T, u, v)
                          /\ (Anc(T, s, v) \/ T.num[u] > T.num[x])}
      <4>1. v \in R
        BY <2>6, AncBasics
      <4>2. ASSUME NEW u \in R, u # T.root PROVE T.par[u] \in R
        <5>1. CASE Anc(T, s, v)
          BY <4>2, <5>1, <1>0, AncBasics DEF IsTree
        <5>2. CASE ~Anc(T, s, v)
          <6>1. u \in S
            BY <5>2
          <6>2. T.par[u] \in H
            BY <3>2, <6>1
          <6>3. Anc(T, s, T.par[u]) => Anc(T, s, v)
            BY <6>2, AncBasics
          <6> QED  BY <5>2, <6>2, <6>3
        <5> QED  BY <5>1, <5>2
      <4>3. T.root \in R
        <5>1. Anc(T, T.root, v) /\ Up(T, R)
          BY <1>0, <4>2, RootIsAncestor DEF Up
        <5> HIDE DEF R
        <5> QED  BY <4>1, <5>1 DEF Anc
      <4>4. T.num[T.root] <= T.num[x] /\ T.num[T.root] \in Nat
        <5>1. Anc(T, T.root, x)
          BY <1>0, RootIsAncestor
        <5> QED  BY <1>0, <1>a, <5>1, AncNumbers DEF IsTree
      <4> QED  BY <2>3, <4>3, <4>4
    <3>4. IsCovered(T, semi, s, v)
      <4> SUFFICES ASSUME NEW u \in T.nodes, Anc(T, s, u), u # s, Anc(T, u, v)
                   PROVE  T.num[s] <= T.num[semi[u]]
        BY DEF IsCovered
      <4>1. CASE T.num[u] > T.num[x]
        BY <3>1, <4>1
      <4>2. CASE T.num[u] <= T.num[x]
        <5>1. Anc(T, u, x)
          BY <1>a, <2>3, <2>6, <4>2 DEF IsDfs, IsNested
        <5> QED  BY <5>1 DEF IsCovered
      <4> QED  BY <1>a, <2>3, <4>1, <4>2
    <3> QED  BY <1>2, <3>3, <3>4
  <2> QED  BY <2>3, <2>4, <2>5, <2>6
<1>3. ASSUME NEW v \in Y \cap Avoiding(g, T, s), NEW w \in SuccessorSet(g, v), w # s PROVE w \in Y
  <2>1. v # s /\ w \in T.nodes
    BY AvoidingFacts DEF IsDfs, IsForward
  <2> QED  BY <1>2, <1>3, <2>1
<1>4. Avoiding(g, T, s) \subseteq Y
  <2> HIDE DEF Y
  <2> QED  BY <1>1, <1>3, AvoidingFacts
<1> QED  BY <1>4

(* d is the immediate dominator of w. *)
IsIdom(g, T, semi, d, w) ==
    /\ d \in T.nodes /\ d # w /\ Anc(T, d, w) /\ IsCovered(T, semi, d, w)
    /\ \A a \in T.nodes : a # w /\ w \notin Avoiding(g, T, a) => Anc(T, a, d)

(* The nodes from below a down to u; b has a least semidominator among them.
   (And so u has one among the nodes between the semidominator of w and w.) *)
Between(T, a, u) == {x \in T.nodes : Anc(T, a, x) /\ x # a /\ Anc(T, x, u)}
IsLeast(T, semi, a, b, u) ==
    b \in Between(T, a, u) /\ \A x \in Between(T, a, u) : T.num[semi[b]] <= T.num[semi[x]]
IsLeastBetween(T, semi, u, w) == IsLeast(T, semi, semi[w], u, w)

LEMMA SemiFacts ==
  ASSUME NEW g, NEW T, IsDfs(g, T), NEW semi, IsSemi(g, T, semi), NEW w \in T.nodes \ {T.root}
  PROVE  /\ semi[w] \in T.nodes /\ Anc(T, semi[w], w) /\ T.num[semi[w]] < T.num[w] /\ semi[w] # w
         /\ \A a \in T.nodes : a # w /\ w \notin Avoiding(g, T, a) => Anc(T, a, semi[w])
<1>0. IsTree(T) /\ \A p \in T.nodes : T.num[p] \in Nat
  BY DEF IsDfs, IsTree
<1>1. semi[w] \in T.nodes /\ Anc(T, semi[w], w) /\ IsPassable(g, T, w, semi[w])
  BY DEF IsSemi, IsSemiOf, IsHigh
<1>2. T.num[semi[w]] < T.num[w]
  <2>1. T.par[w] \in T.nodes /\ w \in SuccessorSet(g, T.par[w]) /\ T.num[T.par[w]] < T.num[w]
    BY DEF IsDfs, IsTree
  <2>2. T.num[semi[w]] <= T.num[T.par[w]]
    BY <2>1 DEF IsSemi, IsSemiOf, IsHigh, IsLow
  <2> QED  BY <1>0, <1>1, <2>1, <2>2
<1>3. ASSUME NEW a \in T.nodes, a # w, w \notin Avoiding(g, T, a) PROVE Anc(T, a, semi[w])
  <2>1. Anc(T, a, w)
    BY <1>3, DominatorIsAncestor
  <2>2. T.num[a] < T.num[w]
    BY <1>0, <1>3, <2>1, AncNumbers
  <2> QED  BY <1>1, <1>3, <2>2 DEF IsPassable
<1> QED  BY <1>0, <1>1, <1>2, <1>3

LEMMA IdomIsSemi ==
  ASSUME NEW g, NEW T, IsDfs(g, T), NEW semi, IsSemi(g, T, semi), NEW w \in T.nodes \ {T.root},
         NEW u, IsLeastBetween(T, semi, u, w), T.num[semi[u]] >= T.num[semi[w]]
  PROVE  IsIdom(g, T, semi, semi[w], w)
<1>0. IsTree(T) /\ \A p \in T.nodes : T.num[p] \in Nat
  BY DEF IsDfs, IsTree
<1>1. ASSUME NEW x \in T.nodes, Anc(T, semi[w], x), x # semi[w], Anc(T, x, w)
      PROVE  T.num[semi[w]] <= T.num[semi[x]]
  <2>1. u \in T.nodes /\ T.num[semi[u]] <= T.num[semi[x]]
    BY <1>1 DEF IsLeastBetween, IsLeast, Between
  <2>2. u # T.root /\ x # T.root
    <3>1. Anc(T, semi[w], T.root) => T.root = semi[w]
      BY AncBasics
    <3> QED  BY <1>1, <3>1 DEF IsLeastBetween, IsLeast, Between
  <2>3. T.num[semi[u]] \in Nat /\ T.num[semi[x]] \in Nat /\ T.num[semi[w]] \in Nat
    BY <1>0, <2>1, <2>2, SemiFacts
  <2> QED  BY <2>1, <2>3
<1>2. IsCovered(T, semi, semi[w], w)
  BY <1>1 DEF IsCovered
<1> QED  BY <1>2, SemiFacts DEF IsIdom

LEMMA IdomIsInherited ==
  ASSUME NEW g, NEW T, IsDfs(g, T), NEW semi, IsSemi(g, T, semi), NEW w \in T.nodes \ {T.root},
         NEW u, IsLeastBetween(T, semi, u, w), NEW d, IsIdom(g, T, semi, d, u),
         T.num[semi[u]] < T.num[semi[w]]
  PROVE  IsIdom(g, T, semi, d, w)
<1>0. IsTree(T) /\ \A p \in T.nodes : T.num[p] \in Nat
  BY DEF IsDfs, IsTree
<1>1. /\ u \in T.nodes \ {T.root} /\ Anc(T, u, w) /\ Anc(T, semi[w], u) /\ u # semi[w]
  BY AncBasics DEF IsLeastBetween, IsLeast, Between
<1>2. /\ d \in T.nodes /\ d # u /\ Anc(T, d, u) /\ IsCovered(T, semi, d, u)
      /\ \A a \in T.nodes : a # u /\ u \notin Avoiding(g, T, a) => Anc(T, a, d)
  BY DEF IsIdom
<1>3. T.num[d] <= T.num[semi[u]] /\ semi[u] \in T.nodes
  <2>1. T.num[d] <= T.num[semi[u]]
    BY <1>1, <1>2, AncBasics DEF IsCovered
  <2> QED  BY <1>1, <2>1, SemiFacts
<1>4. T.num[d] < T.num[u] /\ T.num[u] <= T.num[w]
  BY <1>0, <1>1, <1>2, AncNumbers
<1>5. Anc(T, d, w) /\ d # w
  BY <1>0, <1>1, <1>2, <1>4, AncBasics
<1>6. IsCovered(T, semi, d, w)
  <2> SUFFICES ASSUME NEW x \in T.nodes, Anc(T, d, x), x # d, Anc(T, x, w)
               PROVE  T.num[d] <= T.num[semi[x]]
    BY DEF IsCovered
  <2>1. CASE T.num[x] <= T.num[u]
    <3>1. Anc(T, x, u)
      BY <1>1, <2>1, AncestorsAreChain
    <3> QED  BY <1>2, <3>1 DEF IsCovered
  <2>2. CASE T.num[u] < T.num[x]
    <3>1. Anc(T, u, x)
      BY <1>0, <1>1, <2>2, AncestorsAreChain
    <3>2. Anc(T, semi[w], x)
      BY <1>1, <3>1, AncBasics
    <3>3. x # semi[w]
      <4>1. T.num[semi[w]] <= T.num[u]
        BY <1>0, <1>1, AncNumbers
      <4>2. semi[w] \in T.nodes
        BY SemiFacts
      <4> QED  BY <1>0, <1>1, <2>2, <4>1, <4>2
    <3>4. T.num[semi[u]] <= T.num[semi[x]]
      BY <3>2, <3>3 DEF IsLeastBetween, IsLeast, Between
    <3>5. semi[x] \in T.nodes
      <4>1. x # T.root
        BY <3>2, <3>3, AncBasics
      <4> QED  BY <4>1, SemiFacts
    <3> QED  BY <1>0, <1>2, <1>3, <3>4, <3>5
  <2> QED  BY <1>0, <1>1, <2>1, <2>2
<1>7. ASSUME NEW a \in T.nodes, a # w, w \notin Avoiding(g, T, a) PROVE Anc(T, a, d)
  <2>1. Anc(T, a, semi[w]) /\ semi[w] \in T.nodes
    BY <1>7, SemiFacts
  <2>2. T.num[a] <= T.num[semi[w]] /\ T.num[semi[w]] < T.num[u]
    <3>1. T.num[semi[w]] <= T.num[u] /\ (T.num[semi[w]] = T.num[u] => semi[w] = u)
      BY <1>0, <1>1, AncNumbers
    <3> QED  BY <1>0, <1>1, <2>1, <3>1, AncNumbers
  <2>3. u \notin Avoiding(g, T, a)
    <3> SUFFICES ASSUME u \in Avoiding(g, T, a) PROVE FALSE
      OBVIOUS
    <3>1. \A x \in T.nodes : Anc(T, u, x) => x # a
      <4>1. \A x \in T.nodes : Anc(T, u, x) => T.num[u] <= T.num[x]
        BY <1>0, AncNumbers
      <4> QED  BY <1>0, <1>1, <2>1, <2>2, <4>1
    <3>2. w \in Avoiding(g, T, a)
      BY <1>1, <3>1, TreePath
    <3> QED  BY <1>7, <3>2
  <2>4. a # u
    BY <1>0, <1>1, <2>1, <2>2
  <2> QED  BY <1>2, <2>3, <2>4
<1> QED  BY <1>2, <1>5, <1>6, <1>7 DEF IsIdom

(* What the immediate dominator is. *)
LEMMA IdomFacts ==
  ASSUME NEW g, NEW T, IsDfs(g, T), NEW semi, IsSemi(g, T, semi), NEW w \in T.nodes \ {T.root},
         NEW d, IsIdom(g, T, semi, d, w)
  PROVE  /\ d \in T.nodes /\ d # w /\ T.num[d] < T.num[w] /\ w \notin Avoiding(g, T, d)
         /\ \A a \in T.nodes : a # w => (w \notin Avoiding(g, T, a) <=> d \notin Avoiding(g, T, a))
<1>0. IsTree(T) /\ \A p \in T.nodes : T.num[p] \in Nat
  BY DEF IsDfs, IsTree
<1>1. d \in T.nodes /\ d # w /\ Anc(T, d, w)
  BY DEF IsIdom
<1>2. T.num[d] < T.num[w]
  BY <1>0, <1>1, AncNumbers
<1>3. w \notin Avoiding(g, T, d)
  BY <1>1, CoveredIsDominated DEF IsIdom
<1>4. ASSUME NEW a \in T.nodes, a # w, w \notin Avoiding(g, T, a) PROVE d \notin Avoiding(g, T, a)
  <2> SUFFICES ASSUME d \in Avoiding(g, T, a) PROVE FALSE
    OBVIOUS
  <2>1. Anc(T, a, d)
    BY <1>4 DEF IsIdom
  <2>2. a # d
    BY AvoidingFacts
  <2>3. T.num[a] < T.num[d]
    BY <1>0, <1>1, <2>1, <2>2, AncNumbers
  <2>4. \A x \in T.nodes : Anc(T, d, x) => x # a
    <3>1. \A x \in T.nodes : Anc(T, d, x) => T.num[d] <= T.num[x]
      BY <1>0, AncNumbers
    <3> QED  BY <1>0, <1>1, <2>3, <3>1
  <2>5. w \in Avoiding(g, T, a)
    BY <1>1, <2>4, TreePath
  <2> QED  BY <1>4, <2>5
<1>5. ASSUME NEW a \in T.nodes, a # w, d \notin Avoiding(g, T, a) PROVE w \notin Avoiding(g, T, a)
  (* Without d, w is not reached; so a walk that avoids a meets d first. *)
  <2> DEFINE Y == Avoiding(g, T, a) \cap Avoiding(g, T, d)
  <2>1. CASE a = d
    BY <1>3, <2>1
  <2>2. CASE a # d
    <3>1. T.root # a => T.root \in Y
      <4>1. T.root # a => T.root \in Avoiding(g, T, a)
        BY AvoidingFacts
      <4>2. T.root # a => T.root # d
        BY <1>5, <4>1
      <4> QED  BY <4>1, <4>2, AvoidingFacts
    <3>2. ASSUME NEW v \in Y \cap Avoiding(g, T, a), NEW x \in SuccessorSet(g, v), x # a PROVE x \in Y
      <4>1. x \in Avoiding(g, T, a)
        BY <3>2, AvoidingFacts
      <4>2. x # d
        BY <1>5, <4>1
      <4> QED  BY <4>1, <4>2, AvoidingFacts
    <3>3. Avoiding(g, T, a) \subseteq Y
      <4> HIDE DEF Y
      <4> QED  BY <3>1, <3>2, AvoidingFacts
    <3> QED  BY <1>3, <3>3
  <2> QED  BY <2>1, <2>2
<1> QED  BY <1>1, <1>2, <1>3, <1>4, <1>5

-----------------------------------------------------------------------------
(* Phase 1.  The nodes that are numbered are a tree while it grows.  cur is the
   last of them; by[i] is the node that pushed the i-th entry of the stack.  Its
   pushers are ancestors of cur, in the order of their numbers; the last entry
   of a node was pushed by its parent; and no successor is forgotten. *)
IsPushed(g, T, cur, s, by) ==
    /\ by \in Seq(T.nodes) /\ Len(by) = Len(s)
    /\ \A i \in 1 .. Len(s) : s[i] \in SuccessorSet(g, by[i]) /\ Anc(T, by[i], cur)
    /\ \A i, j \in 1 .. Len(s) : i <= j => T.num[by[i]] <= T.num[by[j]]
    /\ \A i \in 1 .. Len(s) :
          s[i] \notin T.nodes /\ (\A j \in 1 .. Len(s) : i < j => s[j] # s[i])
             => T.par[s[i]] = by[i]
    /\ \A u \in T.nodes : \A v \in SuccessorSet(g, u) \ T.nodes :
          \E i \in 1 .. Len(s) : s[i] = v /\ by[i] = u

IsGrown(g, T, cur) ==
    /\ T.nodes \subseteq NodeIds(g) /\ IsTree(T) /\ IsNested(T)
    /\ cur \in T.nodes /\ \A x \in T.nodes : T.num[x] <= T.num[cur]
    /\ \A x \in T.nodes \ {T.root} : x \in SuccessorSet(g, T.par[x])
    /\ \A u, v \in T.nodes : v \in SuccessorSet(g, u) /\ T.num[u] < T.num[v] => Anc(T, u, v)

IsSearched(g, T, cur, s) == IsGrown(g, T, cur) /\ \E by : IsPushed(g, T, cur, s, by)

(* T2 is T with the leaf v under p. *)
IsGrowth(T, T2, v, p) ==
    /\ v \notin T.nodes /\ p \in T.nodes
    /\ T2.nodes = T.nodes \cup {v} /\ T2.root = T.root
    /\ \A x \in T.nodes : T2.num[x] = T.num[x] /\ T2.par[x] = T.par[x]
    /\ T2.par[v] = p /\ T2.num[v] \in Nat
    /\ \A x \in T.nodes : T.num[x] < T2.num[v]

LEMMA GrowthFacts ==
  ASSUME NEW T, IsTree(T), NEW T2, NEW v, NEW p, IsGrowth(T, T2, v, p)
  PROVE  /\ IsTree(T2)
         /\ \A a, b \in T.nodes : Anc(T2, a, b) <=> Anc(T, a, b)
         /\ \A a \in T.nodes : Anc(T2, a, v) <=> Anc(T, a, p)
         /\ Anc(T2, v, v)
         /\ \A b \in T.nodes : ~Anc(T2, v, b)
<1>1. IsTree(T2)
  BY DEF IsTree, IsGrowth
<1>2. ASSUME NEW a \in T.nodes, NEW b \in T.nodes, Anc(T2, a, b) PROVE Anc(T, a, b)
  <2> SUFFICES ASSUME NEW S, b \in S, Up(T, S) PROVE a \in S
    BY DEF Anc
  <2>1. Up(T2, S \ {v}) /\ b \in S \ {v}
    BY DEF Up, IsGrowth, IsTree
  <2> QED  BY <1>2, <2>1 DEF Anc
<1>3. ASSUME NEW a \in T.nodes, NEW b \in T.nodes, Anc(T, a, b) PROVE Anc(T2, a, b)
  <2> SUFFICES ASSUME NEW S, b \in S, Up(T2, S) PROVE a \in S
    BY DEF Anc
  <2>1. Up(T, S)
    BY DEF Up, IsGrowth
  <2> QED  BY <1>3, <2>1 DEF Anc
<1>4. p \in T.nodes /\ v \in T2.nodes \ {T2.root} /\ T2.par[v] = p /\ v \notin T.nodes
  BY DEF IsGrowth, IsTree
<1>5. ASSUME NEW a \in T.nodes PROVE Anc(T2, a, v) <=> Anc(T, a, p)
  <2>1. Anc(T2, a, v) => Anc(T2, a, p)
    BY <1>4, AncBasics
  <2>2. Anc(T2, a, p) => Anc(T2, a, v)
    BY <1>4, AncBasics
  <2> QED  BY <1>2, <1>3, <1>4, <2>1, <2>2
<1>6. ASSUME NEW b \in T.nodes PROVE ~Anc(T2, v, b)
  <2>1. Up(T2, T.nodes)
    BY DEF Up, IsGrowth, IsTree
  <2> QED  BY <1>4, <2>1 DEF Anc
<1> QED  BY <1>1, <1>2, <1>3, <1>5, <1>6, AncBasics

LEMMA FrontConcat ==
  ASSUME NEW X, NEW s \in Seq(X), s # <<>>, NEW t \in Seq(X)
  PROVE  /\ Len(s) \in Nat \ {0} /\ Len(t) \in Nat /\ Last(s) = s[Len(s)] /\ Last(s) \in X
         /\ Front(s) \in Seq(X) /\ Len(Front(s)) = Len(s) - 1
         /\ \A i \in 1 .. Len(s) - 1 : Front(s)[i] = s[i]
         /\ Front(s) \o t \in Seq(X) /\ Len(Front(s) \o t) = Len(s) - 1 + Len(t)
         /\ \A i \in 1 .. Len(s) - 1 + Len(t) :
               (Front(s) \o t)[i] = IF i <= Len(s) - 1 THEN s[i] ELSE t[i - (Len(s) - 1)]
<1> DEFINE m == Len(s) - 1
           F == Front(s)
<1>1. Len(s) \in Nat \ {0} /\ Len(t) \in Nat /\ Last(s) = s[Len(s)] /\ Last(s) \in X
  BY DEF Last
<1>2. F \in Seq(X) /\ Len(F) = m /\ \A i \in 1 .. m : F[i] = s[i]
  <2>1. m \in Nat /\ \A i \in 1 .. m : s[i] \in X
    BY <1>1
  <2>2. F = SubSeq(s, 1, m)
    BY DEF Front
  <2> HIDE DEF F, m
  <2>3. /\ SubSeq(s, 1, m) \in Seq(X)
        /\ Len(SubSeq(s, 1, m)) = IF 1 <= m THEN m - 1 + 1 ELSE 0
        /\ \A i \in 1 .. (m - 1 + 1) : SubSeq(s, 1, m)[i] = s[1 + i - 1]
    BY <2>1, SubSeqProperties
  <2> QED  BY <2>1, <2>2, <2>3
<1> HIDE DEF F
<1>3. /\ F \o t \in Seq(X) /\ Len(F \o t) = m + Len(t)
      /\ \A i \in 1 .. m + Len(t) : (F \o t)[i] = IF i <= m THEN F[i] ELSE t[i - m]
  BY <1>1, <1>2
<1>4. \A i \in 1 .. m + Len(t) : i <= m => F[i] = s[i]
  BY <1>1, <1>2
<1> QED  BY <1>1, <1>2, <1>3, <1>4 DEF F

(* t is s with its last entry replaced by k times v. *)
IsReplaced(t, s, k, v, X) ==
    /\ t \in Seq(X) /\ Len(t) = Len(s) - 1 + k
    /\ \A i \in 1 .. Len(s) - 1 + k : t[i] = IF i <= Len(s) - 1 THEN s[i] ELSE v

LEMMA ReplacedExists ==
  ASSUME NEW X, NEW s \in Seq(X), s # <<>>, NEW k \in Nat, NEW v \in X
  PROVE  \E t : IsReplaced(t, s, k, v, X)
<1> DEFINE n == Len(s) - 1
           t == [i \in 1 .. n + k |-> IF i <= n THEN s[i] ELSE v]
<1>1. n \in Nat /\ Len(s) \in Nat /\ \A i \in 1 .. n : s[i] \in X
  OBVIOUS
<1> HIDE DEF n
<1>2. t \in Seq(X) /\ Len(t) = n + k
  BY <1>1
<1>3. \A i \in 1 .. n + k : t[i] = IF i <= n THEN s[i] ELSE v
  OBVIOUS
<1> HIDE DEF t
<1>4. IsReplaced(t, s, k, v, X)
  BY <1>2, <1>3 DEF n, IsReplaced
<1> QED  BY <1>4

LEMMA SearchPops ==
  ASSUME NEW g, NEW T, NEW cur, NEW s \in Seq(NodeIds(g)), s # <<>>, IsSearched(g, T, cur, s),
         Last(s) \in T.nodes
  PROVE  IsSearched(g, T, cur, Front(s))
<1>1. PICK by : IsPushed(g, T, cur, s, by)
  BY DEF IsSearched
<1>2. by \in Seq(T.nodes) /\ Len(by) = Len(s) /\ by # <<>>
  BY <1>1 DEF IsPushed
<1>3. /\ Len(s) \in Nat \ {0} /\ Last(s) = s[Len(s)]
      /\ Len(Front(s)) = Len(s) - 1 /\ \A i \in 1 .. Len(s) - 1 : Front(s)[i] = s[i]
  BY FrontConcat
<1>4. /\ Front(by) \in Seq(T.nodes)
      /\ Len(Front(by)) = Len(s) - 1 /\ \A i \in 1 .. Len(s) - 1 : Front(by)[i] = by[i]
  BY <1>2, FrontConcat
<1>5. IsPushed(g, T, cur, Front(s), Front(by))
  <2> DEFINE F == Front(s)
             B == Front(by)
             m == Len(s) - 1
  <2>1. m \in Nat /\ Len(F) = m /\ Len(B) = m /\ B \in Seq(T.nodes)
        /\ \A i \in 1 .. m : F[i] = s[i] /\ B[i] = by[i] /\ i \in 1 .. Len(s)
    BY <1>3, <1>4
  <2> HIDE DEF F, B
  <2>2. \A i \in 1 .. m : F[i] \in SuccessorSet(g, B[i]) /\ Anc(T, B[i], cur)
    BY <1>1, <2>1 DEF IsPushed
  <2>3. \A i, j \in 1 .. m : i <= j => T.num[B[i]] <= T.num[B[j]]
    BY <1>1, <2>1 DEF IsPushed
  <2>4. ASSUME NEW i \in 1 .. m, F[i] \notin T.nodes, \A j \in 1 .. m : i < j => F[j] # F[i]
        PROVE  T.par[F[i]] = B[i]
    <3>1. \A j \in 1 .. Len(s) : i < j => s[j] # s[i]
      <4> SUFFICES ASSUME NEW j \in 1 .. Len(s), i < j PROVE s[j] # s[i]
        OBVIOUS
      <4>1. CASE j = Len(s)
        BY <1>3, <2>1, <2>4, <4>1
      <4>2. CASE j # Len(s)
        <5> HIDE DEF m
        <5>1. j \in Nat /\ 1 <= j /\ j <= Len(s) /\ Len(s) \in Nat
          BY <1>3
        <5>2. j <= Len(s) - 1
          BY <4>2, <5>1
        <5>3. j \in 1 .. Len(s) - 1
          BY <5>1, <5>2
        <5>4. j \in 1 .. m
          BY <5>3 DEF m
        <5> QED  BY <2>1, <2>4, <5>4 DEF m
      <4> QED  BY <4>1, <4>2
    <3> QED  BY <1>1, <2>1, <2>4, <3>1 DEF IsPushed
  <2>5. ASSUME NEW u \in T.nodes, NEW v \in SuccessorSet(g, u) \ T.nodes
        PROVE  \E i \in 1 .. m : F[i] = v /\ B[i] = u
    <3>1. PICK i \in 1 .. Len(s) : s[i] = v /\ by[i] = u
      BY <1>1 DEF IsPushed
    <3>2. i \in 1 .. m
      BY <1>3, <3>1
    <3> QED  BY <2>1, <3>1, <3>2
  <2>6. IsPushed(g, T, cur, F, B)
    BY <2>1, <2>2, <2>3, <2>4, <2>5 DEF IsPushed
  <2> QED  BY <2>6 DEF F, B
<1> QED  BY <1>5 DEF IsSearched

LEMMA SearchDone ==
  ASSUME NEW g, IsGraph(g), NEW T, NEW cur, IsSearched(g, T, cur, <<>>)
  PROVE  IsDfs(g, T)
<1>1. PICK by : IsPushed(g, T, cur, <<>>, by)
  BY DEF IsSearched
<1>2. ASSUME NEW u \in T.nodes, NEW v \in SuccessorSet(g, u) PROVE v \in T.nodes
  <2>1. v \notin T.nodes => \E i \in 1 .. 0 : <<>>[i] = v /\ by[i] = u
    BY <1>1 DEF IsPushed
  <2> QED  BY <2>1
<1> QED  BY <1>2 DEF IsSearched, IsGrown, IsDfs, IsForward

(* v, the last entry of the stack, is numbered and pushes `fresh`. *)
LEMMA SearchGrows ==
  ASSUME NEW g, IsGraph(g), NEW T, NEW cur, NEW s \in Seq(NodeIds(g)), s # <<>>,
         NEW by, IsGrown(g, T, cur), IsPushed(g, T, cur, s, by), by \in Seq(T.nodes),
         NEW v, v = Last(s), NEW T2, IsGrowth(T, T2, v, by[Len(s)])
  PROVE  /\ IsGrown(g, T2, v) /\ T2.nodes \subseteq NodeIds(g)
         /\ \A x \in T.nodes : Anc(T, x, by[Len(s)]) => Anc(T2, x, v)
<1> DEFINE n == Len(s)
           p == by[n]
<1>1. n \in Nat \ {0} /\ v = s[n] /\ v \in NodeIds(g)
  BY FrontConcat
<1>2. n \in 1 .. n
  BY <1>1
<1>3. IsTree(T) /\ \A x \in T.nodes : T.num[x] \in Nat
  BY DEF IsGrown, IsTree
<1>4. /\ T2.nodes = T.nodes \cup {v} /\ T2.root = T.root /\ v \notin T.nodes /\ p \in T.nodes
      /\ T2.par[v] = p /\ T2.num[v] \in Nat
      /\ \A x \in T.nodes : /\ T2.num[x] = T.num[x] /\ T2.par[x] = T.par[x]
                            /\ T.num[x] < T2.num[v]
  BY DEF IsGrowth
<1>5. /\ IsTree(T2)
      /\ \A a, b \in T.nodes : Anc(T2, a, b) <=> Anc(T, a, b)
      /\ \A a \in T.nodes : Anc(T2, a, v) <=> Anc(T, a, p)
      /\ Anc(T2, v, v)
      /\ \A b \in T.nodes : ~Anc(T2, v, b)
  BY <1>3, GrowthFacts
<1>6. v \in SuccessorSet(g, p) /\ Anc(T, p, cur)
  BY <1>1, <1>2 DEF IsPushed
<1> HIDE DEF p, n
<1>7. IsNested(T2)
  <2> SUFFICES ASSUME NEW a \in T2.nodes, NEW b \in T2.nodes, NEW x \in T2.nodes,
                      Anc(T2, a, b), T2.num[a] <= T2.num[x], T2.num[x] <= T2.num[b]
               PROVE  Anc(T2, a, x)
    BY DEF IsNested
  <2>1. CASE a = v
    <3>1. b = v
      BY <1>4, <1>5, <2>1
    <3>2. x = v
      BY <1>3, <1>4, <2>1, <3>1
    <3> QED  BY <1>5, <2>1, <3>2
  <2>2. CASE a # v /\ x = v
    <3>1. b = v
      BY <1>3, <1>4, <2>2
    <3> QED  BY <2>2, <3>1
  <2>3. CASE a # v /\ x # v
    <3>1. a \in T.nodes /\ x \in T.nodes /\ T.num[a] <= T.num[x]
      BY <1>4, <2>3
    <3>2. CASE b = v
      <4>1. Anc(T, a, p)
        BY <1>5, <3>1, <3>2
      <4>2. Anc(T, a, cur)
        BY <1>6, <4>1, AncBasics
      <4>3. Anc(T, a, x)
        BY <3>1, <4>2 DEF IsGrown, IsNested
      <4> QED  BY <1>5, <3>1, <4>3
    <3>3. CASE b # v
      <4>1. b \in T.nodes /\ Anc(T, a, b) /\ T.num[x] <= T.num[b]
        BY <1>4, <1>5, <3>1, <3>3
      <4>2. Anc(T, a, x)
        BY <3>1, <4>1 DEF IsGrown, IsNested
      <4> QED  BY <1>5, <3>1, <4>2
    <3> QED  BY <3>2, <3>3
  <2> QED  BY <2>1, <2>2, <2>3
<1>8. T2.nodes \subseteq NodeIds(g) /\ v \in T2.nodes /\ \A x \in T2.nodes : T2.num[x] <= T2.num[v]
  <2>1. T2.nodes \subseteq NodeIds(g) /\ v \in T2.nodes
    BY <1>1, <1>4 DEF IsGrown
  <2>2. \A x \in T.nodes : T2.num[x] = T.num[x] /\ T.num[x] \in Nat /\ T.num[x] < T2.num[v]
    BY ONLY <1>3, <1>4
  <2>3. T2.nodes = T.nodes \cup {v} /\ T2.num[v] \in Nat
    BY ONLY <1>4
  <2>4. \A x \in T2.nodes : T2.num[x] <= T2.num[v]
    BY ONLY <2>2, <2>3
  <2> QED  BY ONLY <2>1, <2>4
<1>9. \A x \in T2.nodes \ {T2.root} : x \in SuccessorSet(g, T2.par[x])
  BY <1>4, <1>6 DEF IsGrown
<1>10. ASSUME NEW a \in T2.nodes, NEW b \in T2.nodes, b \in SuccessorSet(g, a), T2.num[a] < T2.num[b]
       PROVE  Anc(T2, a, b)
  <2>1. a # v
    BY <1>3, <1>4, <1>10
  <2>2. CASE b # v
    <3>1. a \in T.nodes /\ b \in T.nodes /\ T.num[a] < T.num[b]
      BY <1>4, <1>10, <2>1, <2>2
    <3>2. Anc(T, a, b)
      BY <1>10, <3>1 DEF IsGrown
    <3> QED  BY <1>5, <3>1, <3>2
  <2>3. CASE b = v
    <3>1. a \in T.nodes /\ v \in SuccessorSet(g, a) \ T.nodes
      BY <1>4, <1>10, <2>1, <2>3
    <3>2. PICK i \in 1 .. n : s[i] = v /\ by[i] = a
      BY <3>1 DEF IsPushed, n
    <3>3. i <= n
      BY <1>1
    <3>4. T.num[a] <= T.num[p] /\ Anc(T, a, cur)
      BY <1>2, <3>2, <3>3 DEF IsPushed, p, n
    <3>5. Anc(T, a, p)
      <4>1. T.num[p] <= T.num[cur] /\ cur \in T.nodes
        BY <1>4 DEF IsGrown
      <4> QED  BY <1>4, <3>1, <3>4, <4>1 DEF IsGrown, IsNested
    <3> QED  BY <1>5, <2>3, <3>1, <3>5
  <2> QED  BY <2>2, <2>3
<1>11. IsGrown(g, T2, v)
  BY <1>5, <1>7, <1>8, <1>9, <1>10 DEF IsGrown
<1>12. \A x \in T.nodes : Anc(T, x, p) => Anc(T2, x, v)
  BY <1>5
<1> QED  BY <1>8, <1>11, <1>12 DEF p, n

LEMMA SearchNumbers ==
  ASSUME NEW g, IsGraph(g), NEW T, NEW cur, NEW s \in Seq(NodeIds(g)), s # <<>>,
         IsSearched(g, T, cur, s), NEW v, v = Last(s), v \notin T.nodes,
         NEW fresh \in Seq(NodeIds(g)),
         ToSet(fresh) = SuccessorSet(g, v) \ (T.nodes \cup {v}),
         NEW T2, T2.nodes = T.nodes \cup {v}, T2.root = T.root, T2.num[v] \in Nat,
         \A x \in T.nodes : T2.num[x] = T.num[x] /\ T.num[x] < T2.num[v],
         \A x \in NodeIds(g) : T2.par[x] = IF x \in ToSet(fresh) THEN v ELSE T.par[x]
  PROVE  IsSearched(g, T2, v, Front(s) \o fresh)
<1>1. PICK by : IsPushed(g, T, cur, s, by)
  BY DEF IsSearched
<1> DEFINE n == Len(s)
           m == n - 1
           k == Len(fresh)
           S == Front(s) \o fresh
<1>2. /\ n \in Nat \ {0} /\ k \in Nat /\ v = s[n] /\ v \in NodeIds(g)
      /\ S \in Seq(NodeIds(g)) /\ Len(S) = n - 1 + k
      /\ \A i \in 1 .. n - 1 + k : S[i] = IF i <= n - 1 THEN s[i] ELSE fresh[i - (n - 1)]
  <2>1. /\ Len(s) \in Nat \ {0} /\ Len(fresh) \in Nat /\ Last(s) = s[Len(s)] /\ Last(s) \in NodeIds(g)
        /\ Front(s) \o fresh \in Seq(NodeIds(g)) /\ Len(Front(s) \o fresh) = Len(s) - 1 + Len(fresh)
        /\ \A i \in 1 .. Len(s) - 1 + Len(fresh) :
              (Front(s) \o fresh)[i] = IF i <= Len(s) - 1 THEN s[i] ELSE fresh[i - (Len(s) - 1)]
    BY FrontConcat
  <2> HIDE DEF S
  <2> QED  BY <2>1 DEF S
<1>3. by \in Seq(T.nodes) /\ Len(by) = n /\ T.nodes \subseteq T2.nodes /\ v \in T2.nodes
  BY <1>1 DEF IsPushed
<1>4. by \in Seq(T2.nodes) /\ by # <<>>
  BY <1>2, <1>3
<1>5. PICK B : IsReplaced(B, by, k, v, T2.nodes)
  BY <1>2, <1>3, <1>4, ReplacedExists
<1>5a. /\ B \in Seq(T2.nodes) /\ Len(B) = n - 1 + k
       /\ \A i \in 1 .. n - 1 + k : B[i] = IF i <= n - 1 THEN by[i] ELSE v
  BY <1>3, <1>5 DEF IsReplaced
<1> HIDE DEF S
<1>6. IsGrowth(T, T2, v, by[n])
  <2>1. n \in 1 .. n /\ by[n] \in T.nodes
    BY <1>2, <1>3
  <2>2. T.par[v] = by[n]
    <3>1. \A j \in 1 .. n : n < j => s[j] # s[n]
      BY <1>2
    <3> QED  BY <1>1, <1>2, <2>1, <3>1 DEF IsPushed
  <2>3. v \notin ToSet(fresh) /\ T.nodes \subseteq NodeIds(g) /\ \A x \in T.nodes : x \notin ToSet(fresh)
    BY DEF IsSearched, IsGrown
  <2>4. T2.par[v] = by[n] /\ \A x \in T.nodes : T2.par[x] = T.par[x]
    BY <1>2, <2>2, <2>3
  <2> QED  BY <2>1, <2>4 DEF IsGrowth
<1>7. /\ IsGrown(g, T2, v) /\ T2.nodes \subseteq NodeIds(g)
      /\ \A x \in T.nodes : Anc(T, x, by[n]) => Anc(T2, x, v)
  BY <1>1, <1>3, <1>6, SearchGrows DEF IsSearched
<1>8. \A x \in T.nodes : T.num[x] \in Nat
  BY DEF IsSearched, IsGrown, IsTree
<1>9. \A i \in 1 .. m + k : /\ i <= m => i \in 1 .. n /\ S[i] = s[i] /\ B[i] = by[i]
                            /\ i > m => i - m \in 1 .. k /\ S[i] = fresh[i - m] /\ B[i] = v
  BY <1>2, <1>5a
<1>10. DOMAIN fresh = 1 .. k
  BY <1>2
<1>11. ASSUME NEW i \in 1 .. m + k PROVE S[i] \in SuccessorSet(g, B[i]) /\ Anc(T2, B[i], v)
  <2>1. CASE i <= m
    <3>1. i \in 1 .. n /\ S[i] = s[i] /\ B[i] = by[i] /\ n \in 1 .. n /\ i <= n
      BY <1>2, <1>9, <2>1
    <3>2. /\ s[i] \in SuccessorSet(g, by[i]) /\ Anc(T, by[i], cur)
          /\ T.num[by[i]] <= T.num[by[n]] /\ Anc(T, by[n], cur)
      BY <1>1, <3>1 DEF IsPushed
    <3>3. by[i] \in T.nodes /\ by[n] \in T.nodes /\ cur \in T.nodes /\ T.num[by[n]] <= T.num[cur]
      BY <1>3, <3>1 DEF IsSearched, IsGrown
    <3>4. Anc(T, by[i], by[n])
      BY <3>2, <3>3 DEF IsSearched, IsGrown, IsNested
    <3> QED  BY <1>7, <3>1, <3>2, <3>3, <3>4
  <2>2. CASE i > m
    <3>1. i - m \in 1 .. k /\ S[i] = fresh[i - m] /\ B[i] = v
      BY <1>9, <2>2
    <3>2. fresh[i - m] \in ToSet(fresh)
      BY <1>10, <3>1 DEF ToSet
    <3> QED  BY <3>1, <3>2, AncBasics
  <2> QED  BY <1>2, <2>1, <2>2
<1>12. ASSUME NEW i \in 1 .. m + k, NEW j \in 1 .. m + k, i <= j
       PROVE  T2.num[B[i]] <= T2.num[B[j]]
  <2>1. CASE j <= m
    <3>1. i \in 1 .. n /\ j \in 1 .. n /\ B[i] = by[i] /\ B[j] = by[j]
      BY <1>2, <1>9, <1>12, <2>1
    <3>2. by[i] \in T.nodes /\ by[j] \in T.nodes /\ T.num[by[i]] <= T.num[by[j]]
      BY <1>1, <1>3, <1>12, <3>1 DEF IsPushed
    <3> QED  BY <3>1, <3>2
  <2>2. CASE j > m
    <3>1. B[j] = v
      BY <1>9, <2>2
    <3>2. B[i] = v \/ B[i] \in T.nodes
      <4>1. i \in 1 .. Len(B)
        BY <1>5a
      <4>2. B[i] \in T2.nodes
        BY <1>5a, <4>1
      <4> QED  BY <4>2
    <3>3. CASE B[i] = v
      BY <3>1, <3>3
    <3>4. CASE B[i] \in T.nodes
      <4>1. T2.num[B[i]] = T.num[B[i]] /\ T.num[B[i]] < T2.num[v] /\ T.num[B[i]] \in Nat
        BY <1>8, <3>4
      <4> QED  BY <3>1, <4>1
    <3> QED  BY <3>2, <3>3, <3>4
  <2> QED  BY <1>2, <2>1, <2>2
<1>13. ASSUME NEW i \in 1 .. m + k, S[i] \notin T2.nodes, \A j \in 1 .. m + k : i < j => S[j] # S[i]
       PROVE  T2.par[S[i]] = B[i]
  <2>0. S[i] \in NodeIds(g)
    BY <1>2
  <2>1. CASE i <= m
    <3>1. i \in 1 .. n /\ S[i] = s[i] /\ B[i] = by[i]
      BY <1>9, <2>1
    <3>2. s[i] \notin ToSet(fresh)
      <4> SUFFICES ASSUME NEW q \in 1 .. k, fresh[q] = s[i] PROVE FALSE
        BY <1>10 DEF ToSet
      <4>1. m + q \in 1 .. m + k /\ m + q > m /\ i < m + q /\ (m + q) - m = q
        BY <1>2, <2>1
      <4>2. S[m + q] = fresh[q]
        BY <1>9, <4>1
      <4> QED  BY <1>13, <3>1, <4>1, <4>2
    <3>3. ASSUME NEW j \in 1 .. n, i < j PROVE s[j] # s[i]
      <4>1. CASE j = n
        BY <1>2, <1>13, <3>1, <4>1
      <4>2. CASE j # n
        <5>1. j \in 1 .. m + k /\ j <= m
          BY <1>2, <4>2
        <5> QED  BY <1>9, <1>13, <3>1, <3>3, <5>1
      <4> QED  BY <4>1, <4>2
    <3>4. T.par[s[i]] = by[i]
      BY <1>1, <1>13, <3>1, <3>3 DEF IsPushed
    <3> QED  BY <2>0, <3>1, <3>2, <3>4
  <2>2. CASE i > m
    <3>1. i - m \in 1 .. k /\ S[i] = fresh[i - m] /\ B[i] = v
      BY <1>9, <2>2
    <3>2. fresh[i - m] \in ToSet(fresh)
      BY <1>10, <3>1 DEF ToSet
    <3> QED  BY <2>0, <3>1, <3>2
  <2> QED  BY <1>2, <2>1, <2>2
<1>14. ASSUME NEW u \in T2.nodes, NEW w \in SuccessorSet(g, u) \ T2.nodes
       PROVE  \E i \in 1 .. m + k : S[i] = w /\ B[i] = u
  <2>1. CASE u = v
    <3>1. w \in ToSet(fresh)
      BY <2>1
    <3>2. PICK q \in 1 .. k : fresh[q] = w
      BY <1>10, <3>1 DEF ToSet
    <3>3. m + q \in 1 .. m + k /\ m + q > m /\ (m + q) - m = q
      BY <1>2
    <3>4. S[m + q] = w /\ B[m + q] = u
      BY <1>9, <2>1, <3>2, <3>3
    <3> QED  BY <3>3, <3>4
  <2>2. CASE u # v
    <3>1. u \in T.nodes /\ w \in SuccessorSet(g, u) \ T.nodes /\ w # v
      BY <2>2
    <3>2. PICK i \in 1 .. n : s[i] = w /\ by[i] = u
      BY <1>1, <3>1 DEF IsPushed
    <3>3. i \in 1 .. m + k /\ i <= m
      BY <1>2, <3>1, <3>2
    <3>4. S[i] = w /\ B[i] = u
      BY <1>9, <3>2, <3>3
    <3> QED  BY <3>3, <3>4
  <2> QED  BY <2>1, <2>2
<1>15. IsPushed(g, T2, v, S, B)
  BY <1>2, <1>5a, <1>11, <1>12, <1>13, <1>14 DEF IsPushed
<1> QED  BY <1>7, <1>15 DEF IsSearched, S

LEMMA SearchBegins ==
  ASSUME NEW g, IsGraph(g), NEW r \in NodeIds(g), NEW fresh \in Seq(NodeIds(g)),
         ToSet(fresh) = SuccessorSet(g, r) \ {r},
         NEW T, T.nodes = {r}, T.root = r, T.num[r] \in Nat,
         \A x \in ToSet(fresh) : T.par[x] = r
  PROVE  IsSearched(g, T, r, fresh)
<1> DEFINE k == Len(fresh)
           B == [i \in 1 .. k |-> r]
<1>1. k \in Nat /\ DOMAIN fresh = 1 .. k /\ \A i \in 1 .. k : fresh[i] \in ToSet(fresh)
  BY DEF ToSet
<1>2. B \in Seq(T.nodes) /\ Len(B) = k /\ \A i \in 1 .. k : B[i] = r
  <2> HIDE DEF k
  <2> QED  BY <1>1
<1> HIDE DEF B, k
<1>3. Anc(T, r, r) /\ \A x \in T.nodes : x = r
  BY AncBasics
<1>4. IsGrown(g, T, r)
  BY <1>3 DEF IsGrown, IsTree, IsNested
<1>5. IsPushed(g, T, r, fresh, B)
  <2>1. ASSUME NEW w \in SuccessorSet(g, r) \ T.nodes PROVE \E i \in 1 .. k : fresh[i] = w /\ B[i] = r
    <3>1. w \in ToSet(fresh)
      OBVIOUS
    <3>2. PICK i \in 1 .. k : fresh[i] = w
      BY <1>1, <3>1 DEF ToSet
    <3> QED  BY <1>2, <3>2
  <2> QED  BY <1>1, <1>2, <1>3, <2>1 DEF IsPushed, k
<1> QED  BY <1>4, <1>5 DEF IsSearched

-----------------------------------------------------------------------------
(* Phases 2 and 3.  L holds the nodes that are linked.  a and b are the ancestor
   and the best of u: the nodes from below a down to u are linked, and b has a
   least semidominator among them. *)
IsLinked(T, semi, L, a, b, u) ==
    /\ a \in T.nodes /\ a # u /\ Anc(T, a, u)
    /\ Between(T, a, u) \subseteq L /\ IsLeast(T, semi, a, b, u)

IsForest(T, semi, anc, best, L) ==
    /\ L \subseteq T.nodes \ {T.root}
    /\ \A x \in L : semi[x] \in T.nodes
    /\ \A u \in L : IsLinked(T, semi, L, anc[u], best[u], u)

Least(T, semi, above, b) == IF T.num[semi[above]] < T.num[semi[b]] THEN above ELSE b

LEMMA BetweenJoins ==
  ASSUME NEW g, NEW T, IsDfs(g, T), NEW u \in T.nodes, NEW a \in T.nodes, NEW top \in T.nodes,
         Anc(T, a, u), Anc(T, top, a)
  PROVE  Between(T, top, u) = Between(T, top, a) \cup Between(T, a, u)
<1>0. IsTree(T) /\ \A p \in T.nodes : T.num[p] \in Nat
  BY DEF IsDfs, IsTree
<1>1. ASSUME NEW x \in Between(T, top, u) PROVE x \in Between(T, top, a) \cup Between(T, a, u)
  <2>1. x \in T.nodes /\ Anc(T, top, x) /\ x # top /\ Anc(T, x, u)
    BY DEF Between
  <2>2. CASE T.num[x] <= T.num[a]
    <3>1. Anc(T, x, a)
      BY <2>1, <2>2, AncestorsAreChain
    <3> QED  BY <2>1, <3>1 DEF Between
  <2>3. CASE T.num[a] < T.num[x]
    <3>1. Anc(T, a, x) /\ x # a
      BY <1>0, <2>1, <2>3, AncestorsAreChain
    <3> QED  BY <2>1, <3>1 DEF Between
  <2> QED  BY <1>0, <2>1, <2>2, <2>3
<1>2. ASSUME NEW x \in Between(T, top, a) PROVE x \in Between(T, top, u)
  BY <1>2, AncBasics DEF Between
<1>3. ASSUME NEW x \in Between(T, a, u) PROVE x \in Between(T, top, u)
  <2>1. x \in T.nodes /\ Anc(T, a, x) /\ x # a /\ Anc(T, x, u)
    BY DEF Between
  <2>2. Anc(T, top, x)
    BY <2>1, AncBasics
  <2>3. T.num[top] <= T.num[a] /\ T.num[a] <= T.num[x] /\ T.num[a] # T.num[x]
    BY <1>0, <2>1, AncNumbers
  <2>4. x # top
    BY <1>0, <2>1, <2>3
  <2> QED  BY <2>1, <2>2, <2>4 DEF Between
<1> QED  BY <1>1, <1>2, <1>3

LEMMA LinkedJoins ==
  ASSUME NEW g, NEW T, IsDfs(g, T), NEW semi, NEW L, NEW u \in T.nodes,
         \A x \in L : semi[x] \in T.nodes,
         NEW a, NEW b, IsLinked(T, semi, L, a, b, u),
         NEW top, NEW above, IsLinked(T, semi, L, top, above, a)
  PROVE  IsLinked(T, semi, L, top, Least(T, semi, above, b), u)
<1>0. IsTree(T) /\ \A p \in T.nodes : T.num[p] \in Nat
  BY DEF IsDfs, IsTree
<1>1. /\ a \in T.nodes /\ a # u /\ Anc(T, a, u) /\ Between(T, a, u) \subseteq L
      /\ b \in Between(T, a, u)
      /\ \A x \in Between(T, a, u) : T.num[semi[b]] <= T.num[semi[x]]
  BY DEF IsLinked, IsLeast
<1>2. /\ top \in T.nodes /\ top # a /\ Anc(T, top, a) /\ Between(T, top, a) \subseteq L
      /\ above \in Between(T, top, a)
      /\ \A x \in Between(T, top, a) : T.num[semi[above]] <= T.num[semi[x]]
  BY DEF IsLinked, IsLeast
<1>3. Between(T, top, u) = Between(T, top, a) \cup Between(T, a, u)
  BY <1>1, <1>2, BetweenJoins
<1>4. Anc(T, top, u) /\ top # u
  <2>1. Anc(T, top, u)
    BY <1>1, <1>2, AncBasics
  <2>2. T.num[top] <= T.num[a] /\ T.num[a] <= T.num[u] /\ T.num[a] # T.num[u]
    BY <1>0, <1>1, <1>2, AncNumbers
  <2> QED  BY <1>0, <1>1, <1>2, <2>1, <2>2
<1>5. \A x \in Between(T, top, u) : T.num[semi[x]] \in Nat
  BY <1>0, <1>1, <1>2, <1>3
<1>6. IsLeast(T, semi, top, Least(T, semi, above, b), u)
  <2>1. T.num[semi[above]] \in Nat /\ T.num[semi[b]] \in Nat
    BY <1>1, <1>2, <1>3, <1>5
  <2>2. CASE T.num[semi[above]] < T.num[semi[b]]
    <3>1. Least(T, semi, above, b) = above
      BY <2>2 DEF Least
    <3>2. ASSUME NEW x \in Between(T, top, u) PROVE T.num[semi[above]] <= T.num[semi[x]]
      <4>1. x \in Between(T, top, a) \/ T.num[semi[b]] <= T.num[semi[x]]
        BY <1>1, <1>3
      <4> QED  BY <1>2, <1>5, <2>1, <2>2, <4>1
    <3> QED  BY <1>2, <1>3, <3>1, <3>2 DEF IsLeast
  <2>3. CASE ~(T.num[semi[above]] < T.num[semi[b]])
    <3>1. Least(T, semi, above, b) = b
      BY <2>3 DEF Least
    <3>2. ASSUME NEW x \in Between(T, top, u) PROVE T.num[semi[b]] <= T.num[semi[x]]
      <4>1. x \in Between(T, a, u) \/ T.num[semi[above]] <= T.num[semi[x]]
        BY <1>2, <1>3
      <4> QED  BY <1>1, <1>5, <2>1, <2>3, <4>1
    <3> QED  BY <1>1, <1>3, <3>1, <3>2 DEF IsLeast
  <2> QED  BY <2>2, <2>3
<1> QED  BY <1>1, <1>2, <1>3, <1>4, <1>6 DEF IsLinked

(* What the recursion along the ancestors computes. *)
LEMMA EvalFacts ==
  ASSUME NEW g, NEW T, IsDfs(g, T), NEW semi, NEW anc, NEW best, NEW L,
         IsForest(T, semi, anc, best, L), NEW A, NEW B,
         \A u \in L : A[u] = IF anc[u] \in L THEN A[anc[u]] ELSE anc[u],
         \A u \in L : B[u] = IF anc[u] \in L THEN Least(T, semi, B[anc[u]], best[u]) ELSE best[u]
  PROVE  \A u \in L : A[u] \notin L /\ IsLinked(T, semi, L, A[u], B[u], u)
<1>0. IsTree(T) /\ (\A p \in T.nodes : T.num[p] \in Nat) /\ L \subseteq T.nodes
  BY DEF IsDfs, IsTree, IsForest
<1> DEFINE Done(u) == A[u] \notin L /\ IsLinked(T, semi, L, A[u], B[u], u)
           Good == {k \in Nat : \A u \in L : T.num[u] < k => Done(u)}
<1>1. 0 \in Good
  BY <1>0
<1>2. ASSUME NEW k \in Good PROVE k + 1 \in Good
  <2> SUFFICES ASSUME NEW u \in L, T.num[u] < k + 1 PROVE Done(u)
    OBVIOUS
  <2>1. IsLinked(T, semi, L, anc[u], best[u], u)
    BY DEF IsForest
  <2>2. CASE anc[u] \notin L
    BY <2>1, <2>2
  <2>3. CASE anc[u] \in L
    <3>1. T.num[anc[u]] < T.num[u]
      BY <1>0, <2>1, AncNumbers DEF IsLinked
    <3>2. Done(anc[u])
      <4>1. T.num[anc[u]] < k
        BY <1>0, <2>3, <3>1
      <4> QED  BY <1>2, <2>3, <4>1
    <3>3. IsLinked(T, semi, L, A[anc[u]], Least(T, semi, B[anc[u]], best[u]), u)
      <4>1. \A x \in L : semi[x] \in T.nodes
        BY DEF IsForest
      <4> QED  BY <1>0, <2>1, <3>2, <4>1, LinkedJoins
    <3> QED  BY <2>3, <3>2, <3>3
  <2> QED  BY <2>2, <2>3
<1>3. Good = Nat
  <2>1. Good \in SUBSET Nat
    OBVIOUS
  <2> HIDE DEF Good
  <2> QED  BY <1>1, <1>2, <2>1, Induction
<1> SUFFICES ASSUME NEW u \in L PROVE Done(u)
  OBVIOUS
<1>4. T.num[u] + 1 \in Good /\ T.num[u] < T.num[u] + 1
  BY <1>0, <1>3
<1> QED  BY <1>4

LEMMA HighBegins ==
  ASSUME NEW g, NEW T, IsDfs(g, T), NEW w \in T.nodes
  PROVE  IsHigh(g, T, w, w)
<1>1. Anc(T, w, w)
  BY AncBasics
<1>2. \A a \in T.nodes : ~Anc(T, a, w) => w \in Avoiding(g, T, a)
  BY DominatorIsAncestor
<1> QED  BY <1>1, <1>2 DEF IsHigh, IsPassable

(* A predecessor v that is not linked lowers the semidominator of w to v, a
   linked one to that of an ancestor u of v. *)
LEMMA HighByEdge ==
  ASSUME NEW g, NEW T, IsDfs(g, T), NEW w \in T.nodes, NEW v \in T.nodes,
         w \in SuccessorSet(g, v), T.num[v] < T.num[w]
  PROVE  IsHigh(g, T, v, w)
<1>1. Anc(T, v, w)
  BY DEF IsDfs, IsForward
<1>2. ASSUME NEW a \in T.nodes, T.num[a] < T.num[w], ~Anc(T, a, v) PROVE w \in Avoiding(g, T, a)
  <2>1. v \in Avoiding(g, T, a)
    BY <1>2, DominatorIsAncestor
  <2>2. w # a
    BY <1>2 DEF IsDfs, IsTree
  <2> QED  BY <2>1, <2>2, AvoidingFacts
<1> QED  BY <1>1, <1>2 DEF IsHigh, IsPassable

LEMMA HighByAncestor ==
  ASSUME NEW g, NEW T, IsDfs(g, T), NEW w \in T.nodes, NEW v \in T.nodes,
         w \in SuccessorSet(g, v), NEW u \in T.nodes, Anc(T, u, v), T.num[w] < T.num[u],
         NEW s, IsHigh(g, T, s, u), T.num[s] < T.num[w]
  PROVE  IsHigh(g, T, s, w)
<1>0. IsTree(T) /\ \A p \in T.nodes : T.num[p] \in Nat
  BY DEF IsDfs, IsTree
<1>1. s \in T.nodes /\ Anc(T, s, u) /\ IsPassable(g, T, u, s)
  BY DEF IsHigh
<1>2. Anc(T, s, w)
  <2>1. T.num[s] <= T.num[w] /\ T.num[w] <= T.num[u]
    BY <1>0, <1>1
  <2> QED  BY <1>1, <2>1 DEF IsDfs, IsNested
<1>3. ASSUME NEW a \in T.nodes, T.num[a] < T.num[w], ~Anc(T, a, s) PROVE w \in Avoiding(g, T, a)
  <2>1. T.num[a] < T.num[u]
    BY <1>0, <1>3
  <2>2. u \in Avoiding(g, T, a)
    BY <1>1, <1>3, <2>1 DEF IsPassable
  <2>3. \A x \in T.nodes : Anc(T, u, x) => x # a
    <3>1. \A x \in T.nodes : Anc(T, u, x) => T.num[u] <= T.num[x]
      BY <1>0, AncNumbers
    <3> QED  BY <1>0, <2>1, <3>1
  <2>4. v \in Avoiding(g, T, a)
    BY <2>2, <2>3, TreePath
  <2>5. w # a
    BY <1>0, <1>3
  <2> QED  BY <2>4, <2>5, AvoidingFacts
<1> QED  BY <1>1, <1>2, <1>3 DEF IsHigh, IsPassable

(* The forest does not look at the semidominators of nodes it does not hold. *)
LEMMA ForestIgnores ==
  ASSUME NEW T, NEW semi, NEW anc, NEW best, NEW L, IsForest(T, semi, anc, best, L),
         NEW semi2, \A x \in L : semi2[x] = semi[x]
  PROVE  IsForest(T, semi2, anc, best, L)
<1>1. ASSUME NEW u \in L PROVE IsLinked(T, semi2, L, anc[u], best[u], u)
  <2>1. IsLinked(T, semi, L, anc[u], best[u], u)
    BY DEF IsForest
  <2>2. Between(T, anc[u], u) \subseteq L
    BY <2>1 DEF IsLinked
  <2> QED  BY <2>1, <2>2 DEF IsLinked, IsLeast
<1> QED  BY <1>1 DEF IsForest

LEMMA OnlyItselfBetween ==
  ASSUME NEW T, IsTree(T), NEW w \in T.nodes \ {T.root}
  PROVE  Between(T, T.par[w], w) = {w}
<1>0. T.par[w] \in T.nodes /\ T.num[T.par[w]] < T.num[w] /\ T.num[w] \in Nat /\ T.num[T.par[w]] \in Nat
      /\ Anc(T, T.par[w], w) /\ Anc(T, w, w)
  BY AncBasics DEF IsTree
<1>1. ASSUME NEW x \in Between(T, T.par[w], w) PROVE x = w
  <2>1. x \in T.nodes /\ Anc(T, T.par[w], x) /\ x # T.par[w] /\ Anc(T, x, w)
    BY DEF Between
  <2>2. x # w => Anc(T, x, T.par[w])
    BY <2>1, AncBasics
  <2>3. x # w => T.num[x] <= T.num[T.par[w]]
    BY <1>0, <2>2, AncNumbers
  <2>4. T.num[T.par[w]] <= T.num[x] /\ (T.num[T.par[w]] = T.num[x] => T.par[w] = x)
    BY <2>1, AncNumbers
  <2>5. T.num[x] \in Nat
    BY <2>1 DEF IsTree
  <2> QED  BY <1>0, <2>1, <2>3, <2>4, <2>5
<1>2. w \in Between(T, T.par[w], w)
  BY <1>0 DEF Between
<1> QED  BY <1>1, <1>2

LEMMA ForestGrows ==
  ASSUME NEW T, IsTree(T), NEW semi, NEW anc, NEW best, NEW L, IsForest(T, semi, anc, best, L),
         NEW w \in T.nodes \ {T.root}, w \notin L, best[w] = w, semi[w] \in T.nodes,
         NEW anc2, anc2[w] = T.par[w], \A x \in L : anc2[x] = anc[x]
  PROVE  IsForest(T, semi, anc2, best, L \cup {w})
<1>1. IsLinked(T, semi, L \cup {w}, anc2[w], best[w], w)
  <2>1. Between(T, T.par[w], w) = {w}
    BY OnlyItselfBetween
  <2>2. T.par[w] \in T.nodes /\ T.par[w] # w /\ Anc(T, T.par[w], w) /\ T.num[semi[w]] \in Nat
    <3>1. /\ T.par[w] \in T.nodes /\ T.num[T.par[w]] < T.num[w] /\ T.num[semi[w]] \in Nat
          /\ T.num[w] \in Nat
      BY DEF IsTree
    <3>2. Anc(T, T.par[w], w)
      BY AncBasics
    <3> QED  BY <3>1, <3>2
  <2> QED  BY <2>1, <2>2 DEF IsLinked, IsLeast
<1>2. ASSUME NEW u \in L PROVE IsLinked(T, semi, L \cup {w}, anc2[u], best[u], u)
  <2>1. IsLinked(T, semi, L, anc[u], best[u], u)
    BY DEF IsForest
  <2> QED  BY <2>1 DEF IsLinked
<1> QED  BY <1>1, <1>2 DEF IsForest

(* The bucket of p holds v, and w, the child of p above v, is linked last: what
   eval finds from v is what lies between p and v. *)
LEMMA LinkedToParent ==
  ASSUME NEW g, NEW T, IsDfs(g, T), NEW semi, NEW L, NEW w \in T.nodes \ {T.root},
         L = {x \in T.nodes : T.num[w] <= T.num[x]}, NEW v \in L, semi[v] = T.par[w], Anc(T, w, v),
         NEW a, NEW b, a \notin L, IsLinked(T, semi, L, a, b, v)
  PROVE  a = T.par[w]
<1> DEFINE p == T.par[w]
<1>0. IsTree(T) /\ (\A x \in T.nodes : T.num[x] \in Nat)
      /\ p \in T.nodes /\ T.num[p] < T.num[w] /\ Anc(T, p, w)
  BY AncBasics DEF IsDfs, IsTree
<1>1. Anc(T, p, v) /\ v \in T.nodes
  BY <1>0, AncBasics
<1>2. Between(T, p, v) \subseteq L
  <2> SUFFICES ASSUME NEW x \in Between(T, p, v) PROVE x \in L
    OBVIOUS
  <2>1. x \in T.nodes /\ Anc(T, p, x) /\ x # p /\ Anc(T, x, v)
    BY DEF Between
  <2>2. CASE T.num[x] < T.num[w]
    <3>1. Anc(T, x, w)
      BY <1>0, <1>1, <2>1, <2>2, AncestorsAreChain
    <3>2. x \in Between(T, p, w)
      BY <2>1, <3>1 DEF Between
    <3> QED  BY <1>0, <2>2, <3>2, OnlyItselfBetween
  <2> QED  BY <1>0, <2>1, <2>2
<1>3. a \in T.nodes /\ Anc(T, a, v) /\ Between(T, a, v) \subseteq L /\ IsLeast(T, semi, a, b, v)
  BY DEF IsLinked
<1>4. a = p
  <2>1. CASE T.num[a] < T.num[p]
    <3>1. Anc(T, a, p) /\ p # a
      BY <1>0, <1>1, <1>3, <2>1, AncestorsAreChain
    <3>2. p \in L
      BY <1>0, <1>1, <1>3, <3>1 DEF Between
    <3> QED  BY <1>0, <3>2
  <2>2. CASE T.num[p] < T.num[a]
    <3>1. Anc(T, p, a) /\ p # a
      BY <1>0, <1>1, <1>3, <2>2, AncestorsAreChain
    <3>2. a \in L
      BY <1>2, <1>3, <3>1 DEF Between
    <3> QED  BY <3>2
  <2> QED  BY <1>0, <1>3, <2>1, <2>2 DEF IsTree
<1> QED  BY <1>4

-----------------------------------------------------------------------------
(* The state of the algorithm. *)
LtType(g) ==
    [dfnum : [NodeIds(g) -> Nat], vertex : Seq(NodeIds(g)),
     parent : [NodeIds(g) -> NodeIds(g) \cup {Nil}], semi : [NodeIds(g) -> NodeIds(g)],
     idom : [NodeIds(g) -> NodeIds(g) \cup {Nil}],
     ancestor : [NodeIds(g) -> NodeIds(g) \cup {Nil}],
     best : [NodeIds(g) -> NodeIds(g)], bucket : [NodeIds(g) -> Seq(NodeIds(g))]]

Found(g, l) == {v \in NodeIds(g) : l.dfnum[v] # 0}
Above(g, l, k) == {v \in Found(g, l) : k < l.dfnum[v]}
TreeOf(g, r, l) == [nodes |-> Found(g, l), root |-> r, num |-> l.dfnum, par |-> l.parent]
IsNumbering(g, l) ==
    /\ l.dfnum \in [NodeIds(g) -> 0 .. Len(l.vertex)]
    /\ \A i \in 1 .. Len(l.vertex) : l.dfnum[l.vertex[i]] = i
    /\ \A v \in Found(g, l) : l.vertex[l.dfnum[v]] = v

IsLt(g, r, l) == IsGraph(g) /\ r \in NodeIds(g) /\ l \in LtType(g) /\ IsNumbering(g, l)
IsUnlinked(g, l, L) == \A v \in NodeIds(g) \ L : l.ancestor[v] = Nil /\ l.best[v] = v

(* The functions of the recursion along the ancestors. *)
LEMMA EvalUnfolds ==
  ASSUME lt \in LtType(graph), NEW n \in Nat, lt.dfnum \in [NodeIds(graph) -> 0 .. n],
         \A u \in NodeIds(graph) : Compressible(u) =>
             lt.ancestor[u] \in NodeIds(graph) /\ lt.dfnum[lt.ancestor[u]] < lt.dfnum[u]
  PROVE  \A u \in NodeIds(graph) :
            /\ NewBest(u) \in NodeIds(graph)
            /\ NewBest(u) = IF Compressible(u)
                            THEN IF Semi(NewBest(lt.ancestor[u])) < Semi(lt.best[u])
                                 THEN NewBest(lt.ancestor[u]) ELSE lt.best[u]
                            ELSE lt.best[u]
            /\ NewAncestor(u) \in NodeIds(graph) \cup {Nil}
            /\ NewAncestor(u) = IF Compressible(u) THEN NewAncestor(lt.ancestor[u])
                                ELSE lt.ancestor[u]
<1> DEFINE D == NodeIds(graph)
           V == D \cup {Nil}
           comp == {u \in D : Compressible(u)}
           next == [u \in comp |-> lt.ancestor[u]]
           lower == [u \in comp |-> [x \in D |-> IF Semi(x) < Semi(lt.best[u]) THEN x ELSE lt.best[u]]]
           same == [u \in comp |-> [x \in V |-> x]]
           DefB(B) == B = [u \in D |->
               IF ~Compressible(u) THEN lt.best[u]
               ELSE LET above == B[lt.ancestor[u]]
                    IN  IF Semi(above) < Semi(lt.best[u]) THEN above ELSE lt.best[u]]
           DefA(A) == A = [u \in D |->
               IF Compressible(u) THEN A[lt.ancestor[u]] ELSE lt.ancestor[u]]
<1>1. /\ lt.best \in [D -> D] /\ lt.ancestor \in [D -> V]
      /\ lt.dfnum \in [D -> 0 .. n]
  BY DEF LtType
<1>2. comp \in SUBSET D /\ next \in [comp -> D] /\ \A u \in comp : next[u] = lt.ancestor[u]
  OBVIOUS
<1>3. \A u \in comp : lt.dfnum[next[u]] < lt.dfnum[u]
  OBVIOUS
<1>4. /\ lower \in [comp -> [D -> D]] /\ same \in [comp -> [V -> V]]
      /\ \A u \in comp : /\ \A x \in D : lower[u][x] = IF Semi(x) < Semi(lt.best[u]) THEN x ELSE lt.best[u]
                         /\ \A x \in V : same[u][x] = x
  BY <1>1
<1>5. \A u \in D : u \in comp <=> Compressible(u)
  OBVIOUS
<1> HIDE DEF D, V, comp, next, lower, same
<1>6. PICK f \in [D -> D] : IsRecursive(f, D, comp, next, lt.best, lower)
  BY <1>1, <1>2, <1>3, <1>4, RecursionExists
<1>7. PICK h \in [D -> V] : IsRecursive(h, D, comp, next, lt.ancestor, same)
  BY <1>1, <1>2, <1>3, <1>4, RecursionExists
<1>8. DefB(f)
  <2>1. ASSUME NEW u \in D
        PROVE  f[u] = IF ~Compressible(u) THEN lt.best[u]
                      ELSE IF Semi(f[lt.ancestor[u]]) < Semi(lt.best[u])
                           THEN f[lt.ancestor[u]] ELSE lt.best[u]
    <3>1. f[u] = IF u \in comp THEN lower[u][f[next[u]]] ELSE lt.best[u]
      BY <1>6 DEF IsRecursive
    <3>2. u \in comp => next[u] \in D /\ f[next[u]] \in D /\ next[u] = lt.ancestor[u]
      BY <1>2
    <3> QED  BY <1>4, <1>5, <3>1, <3>2
  <2>2. f = [u \in D |-> f[u]]
    OBVIOUS
  <2> QED  BY <2>1, <2>2
<1>9. DefA(h)
  <2>1. ASSUME NEW u \in D
        PROVE  h[u] = IF Compressible(u) THEN h[lt.ancestor[u]] ELSE lt.ancestor[u]
    <3>1. h[u] = IF u \in comp THEN same[u][h[next[u]]] ELSE lt.ancestor[u]
      BY <1>7 DEF IsRecursive
    <3>2. u \in comp => next[u] \in D /\ h[next[u]] \in V /\ next[u] = lt.ancestor[u]
      BY <1>2
    <3> QED  BY <1>4, <1>5, <3>1, <3>2
  <2>2. h = [u \in D |-> h[u]]
    OBVIOUS
  <2> QED  BY <2>1, <2>2
<1> DEFINE B == CHOOSE B : DefB(B)
           A == CHOOSE A : DefA(A)
<1>10. DefB(B) /\ DefA(A)
  BY <1>8, <1>9
<1>11. \A u \in D : NewBest(u) = B[u] /\ NewAncestor(u) = A[u]
  BY DEF NewBest, NewAncestor, D
<1> HIDE DEF A, B
<1>12. \A u \in D : /\ B[u] = IF ~Compressible(u) THEN lt.best[u]
                             ELSE IF Semi(B[lt.ancestor[u]]) < Semi(lt.best[u])
                                  THEN B[lt.ancestor[u]] ELSE lt.best[u]
                   /\ A[u] = IF Compressible(u) THEN A[lt.ancestor[u]] ELSE lt.ancestor[u]
  <2> SUFFICES ASSUME NEW u \in D
               PROVE  /\ B[u] = IF ~Compressible(u) THEN lt.best[u]
                             ELSE IF Semi(B[lt.ancestor[u]]) < Semi(lt.best[u])
                                  THEN B[lt.ancestor[u]] ELSE lt.best[u]
                      /\ A[u] = IF Compressible(u) THEN A[lt.ancestor[u]] ELSE lt.ancestor[u]
    OBVIOUS
  <2>1. B[u] = IF ~Compressible(u) THEN lt.best[u]
               ELSE IF Semi(B[lt.ancestor[u]]) < Semi(lt.best[u])
                    THEN B[lt.ancestor[u]] ELSE lt.best[u]
    BY <1>10
  <2>2. A[u] = IF Compressible(u) THEN A[lt.ancestor[u]] ELSE lt.ancestor[u]
    BY <1>10
  <2> QED  BY <2>1, <2>2
<1> DEFINE Good == {k \in Nat : \A u \in D : lt.dfnum[u] < k => B[u] \in D /\ A[u] \in V}
<1>13. Good = Nat
  <2>1. 0 \in Good
    BY <1>1
  <2>2. ASSUME NEW k \in Good PROVE k + 1 \in Good
    <3> SUFFICES ASSUME NEW u \in D, lt.dfnum[u] < k + 1 PROVE B[u] \in D /\ A[u] \in V
      OBVIOUS
    <3>1. CASE Compressible(u)
      <4>1. u \in comp /\ lt.ancestor[u] \in D /\ lt.dfnum[lt.ancestor[u]] < lt.dfnum[u]
        BY <1>2, <1>3, <1>5, <3>1
      <4>2. lt.dfnum[lt.ancestor[u]] < k
        BY <1>1, <4>1
      <4>3. B[lt.ancestor[u]] \in D /\ A[lt.ancestor[u]] \in V
        BY <2>2, <4>1, <4>2
      <4> QED  BY <1>1, <1>12, <3>1, <4>3
    <3>2. CASE ~Compressible(u)
      BY <1>1, <1>12, <3>2
    <3> QED  BY <3>1, <3>2
  <2>3. Good \in SUBSET Nat
    OBVIOUS
  <2> HIDE DEF Good
  <2> QED  BY <2>1, <2>2, <2>3, Induction
<1>14. \A u \in D : B[u] \in D /\ A[u] \in V
  <2> SUFFICES ASSUME NEW u \in D PROVE B[u] \in D /\ A[u] \in V
    OBVIOUS
  <2>1. lt.dfnum[u] + 1 \in Good /\ lt.dfnum[u] < lt.dfnum[u] + 1
    BY <1>1, <1>13
  <2> QED  BY <2>1
<1> SUFFICES ASSUME NEW u \in D
             PROVE  /\ NewBest(u) \in D
                    /\ NewBest(u) = IF Compressible(u)
                            THEN IF Semi(NewBest(lt.ancestor[u])) < Semi(lt.best[u])
                                 THEN NewBest(lt.ancestor[u]) ELSE lt.best[u]
                            ELSE lt.best[u]
                    /\ NewAncestor(u) \in V
                    /\ NewAncestor(u) = IF Compressible(u) THEN NewAncestor(lt.ancestor[u])
                                        ELSE lt.ancestor[u]
  BY DEF D, V
<1>15. Compressible(u) => lt.ancestor[u] \in D
  BY <1>2, <1>5
<1>16. /\ NewBest(u) = B[u] /\ NewAncestor(u) = A[u]
       /\ Compressible(u) => /\ NewBest(lt.ancestor[u]) = B[lt.ancestor[u]]
                             /\ NewAncestor(lt.ancestor[u]) = A[lt.ancestor[u]]
  BY <1>11, <1>15
<1>17. NewBest(u) \in D /\ NewAncestor(u) \in V
  BY <1>14, <1>16
<1>18. CASE Compressible(u)
  BY <1>12, <1>16, <1>17, <1>18
<1>19. CASE ~Compressible(u)
  BY <1>12, <1>16, <1>17, <1>19
<1> QED  BY <1>18, <1>19

(* What `eval` leaves, and answers. *)
LEMMA CompressFacts ==
  ASSUME lt \in LtType(graph), IsNumbering(graph, lt), IsDfs(graph, TreeOf(graph, root, lt)),
         NEW L, IsForest(TreeOf(graph, root, lt), lt.semi, lt.ancestor, lt.best, L),
         IsUnlinked(graph, lt, L), NEW v \in NodeIds(graph)
  PROVE  LET l == Compressed(v)
             T == TreeOf(graph, root, lt)
         IN  /\ l \in LtType(graph)
             /\ l.dfnum = lt.dfnum /\ l.vertex = lt.vertex /\ l.parent = lt.parent
             /\ l.semi = lt.semi /\ l.idom = lt.idom /\ l.bucket = lt.bucket
             /\ IsForest(T, lt.semi, l.ancestor, l.best, L) /\ IsUnlinked(graph, l, L)
             /\ Eval(v) \in NodeIds(graph)
             /\ v \notin L => Eval(v) = v
             /\ v \in L => \E a : a \notin L /\ IsLinked(T, lt.semi, L, a, Eval(v), v)
<1> DEFINE l == Compressed(v)
           T == TreeOf(graph, root, lt)
           D == NodeIds(graph)
           n == Len(lt.vertex)
<1>1. /\ lt.dfnum \in [D -> 0 .. n] /\ n \in Nat
      /\ T.nodes = Found(graph, lt) /\ T.num = lt.dfnum /\ T.nodes \subseteq D
  BY DEF LtType, IsNumbering, TreeOf, Found
<1>2. /\ L \subseteq T.nodes /\ L \subseteq D
      /\ \A u \in L : lt.ancestor[u] \in T.nodes /\ lt.ancestor[u] # Nil
                      /\ lt.dfnum[lt.ancestor[u]] < lt.dfnum[u]
  <2>1. ASSUME NEW u \in L PROVE lt.ancestor[u] \in T.nodes /\ T.num[lt.ancestor[u]] < T.num[u]
    <3>1. lt.ancestor[u] \in T.nodes /\ lt.ancestor[u] # u /\ Anc(T, lt.ancestor[u], u) /\ u \in T.nodes
      BY DEF IsForest, IsLinked
    <3>2. IsTree(T) /\ \A x \in T.nodes : T.num[x] \in Nat
      BY DEF IsDfs, IsTree
    <3> HIDE DEF T
    <3> QED  BY <3>1, <3>2, AncNumbers
  <2>2. \A x \in D : x # Nil
    BY DEF NodeIds, Nil, IsDfs, IsGraph
  <2>3. L \subseteq T.nodes
    BY DEF IsForest
  <2> HIDE DEF T, D
  <2> QED  BY <1>1, <2>1, <2>2, <2>3
<1>3. \A u \in D : Compressible(u) <=> u \in L /\ lt.ancestor[u] \in L
  <2> SUFFICES ASSUME NEW u \in D PROVE Compressible(u) <=> u \in L /\ lt.ancestor[u] \in L
    OBVIOUS
  <2>1. u \notin L => lt.ancestor[u] = Nil
    BY DEF IsUnlinked
  <2>2. u \in L => lt.ancestor[u] # Nil /\ lt.ancestor[u] \in D
    BY <1>1, <1>2
  <2>3. \A x \in D : lt.ancestor[x] # Nil <=> x \in L
    BY <1>2 DEF IsUnlinked
  <2> QED  BY <2>1, <2>2, <2>3 DEF Compressible, At
<1>4. \A u \in D : Compressible(u) =>
             lt.ancestor[u] \in D /\ lt.dfnum[lt.ancestor[u]] < lt.dfnum[u]
  BY <1>1, <1>2, <1>3
<1>5. \A u \in D :
            /\ NewBest(u) \in D
            /\ NewBest(u) = IF Compressible(u)
                            THEN IF Semi(NewBest(lt.ancestor[u])) < Semi(lt.best[u])
                                 THEN NewBest(lt.ancestor[u]) ELSE lt.best[u]
                            ELSE lt.best[u]
            /\ NewAncestor(u) \in D \cup {Nil}
            /\ NewAncestor(u) = IF Compressible(u) THEN NewAncestor(lt.ancestor[u])
                                ELSE lt.ancestor[u]
  BY <1>1, <1>4, EvalUnfolds
<1> DEFINE A == [u \in D |-> NewAncestor(u)]
           B == [u \in D |-> NewBest(u)]
<1>6. /\ \A u \in L : A[u] = IF lt.ancestor[u] \in L THEN A[lt.ancestor[u]] ELSE lt.ancestor[u]
      /\ \A u \in L : B[u] = IF lt.ancestor[u] \in L
                             THEN Least(T, lt.semi, B[lt.ancestor[u]], lt.best[u]) ELSE lt.best[u]
  <2> SUFFICES ASSUME NEW u \in L
               PROVE  /\ A[u] = IF lt.ancestor[u] \in L THEN A[lt.ancestor[u]] ELSE lt.ancestor[u]
                      /\ B[u] = IF lt.ancestor[u] \in L
                             THEN Least(T, lt.semi, B[lt.ancestor[u]], lt.best[u]) ELSE lt.best[u]
    OBVIOUS
  <2>1. u \in D /\ lt.ancestor[u] \in D
    BY <1>1, <1>2
  <2>2. /\ A[u] = NewAncestor(u) /\ A[lt.ancestor[u]] = NewAncestor(lt.ancestor[u])
        /\ B[u] = NewBest(u) /\ B[lt.ancestor[u]] = NewBest(lt.ancestor[u])
    BY <2>1
  <2>3. Compressible(u) <=> lt.ancestor[u] \in L
    BY <1>3, <2>1
  <2>4. \A x, y : Least(T, lt.semi, x, y) = IF Semi(x) < Semi(y) THEN x ELSE y
    BY <1>1 DEF Least, Semi
  <2> HIDE DEF A, B, D, T
  <2>5. A[u] = IF lt.ancestor[u] \in L THEN A[lt.ancestor[u]] ELSE lt.ancestor[u]
    BY <1>5, <2>1, <2>2, <2>3
  <2>6. B[u] = IF lt.ancestor[u] \in L
               THEN Least(T, lt.semi, B[lt.ancestor[u]], lt.best[u]) ELSE lt.best[u]
    BY <1>5, <2>1, <2>2, <2>3, <2>4
  <2> QED  BY <2>5, <2>6
<1>7. \A u \in L : A[u] \notin L /\ IsLinked(T, lt.semi, L, A[u], B[u], u)
  <2> HIDE DEF A, B, T
  <2>1. IsDfs(graph, T) /\ IsForest(T, lt.semi, lt.ancestor, lt.best, L)
    BY DEF T
  <2> QED  BY <1>6, <2>1, EvalFacts
<1>8. \A u \in L : NewAncestor(u) \notin L /\ IsLinked(T, lt.semi, L, NewAncestor(u), NewBest(u), u)
  <2> HIDE DEF T
  <2> QED  BY <1>2, <1>7
<1>9. \A u \in D \ L : NewAncestor(u) = lt.ancestor[u] /\ NewBest(u) = lt.best[u]
  BY <1>3, <1>5
<1>10. Linked(v) <=> v \in L
  BY <1>2 DEF Linked, IsUnlinked
<1> DEFINE best == [u \in D |-> IF u \in Path(v) THEN NewBest(u) ELSE lt.best[u]]
           anc == [u \in D |-> IF u \in Path(v) THEN NewAncestor(u) ELSE lt.ancestor[u]]
<1>11. /\ l.dfnum = lt.dfnum /\ l.vertex = lt.vertex /\ l.parent = lt.parent
       /\ l.semi = lt.semi /\ l.idom = lt.idom /\ l.bucket = lt.bucket
       /\ \/ l = lt
          \/ l = [lt EXCEPT !.best = best, !.ancestor = anc] /\ l.best = best /\ l.ancestor = anc
  <2>1. CASE ~Linked(v)
    BY <2>1 DEF Compressed
  <2>2. CASE Linked(v)
    <3>1. l = [lt EXCEPT !.best = best, !.ancestor = anc]
      BY <2>2 DEF Compressed
    <3> HIDE DEF best, anc, l
    <3> QED  BY <3>1 DEF LtType
  <2> QED  BY <2>1, <2>2
<1>12. /\ best \in [D -> D] /\ anc \in [D -> D \cup {Nil}]
  BY <1>5 DEF LtType
<1>13. IsForest(T, lt.semi, anc, best, L)
  <2>1. ASSUME NEW u \in L PROVE IsLinked(T, lt.semi, L, anc[u], best[u], u)
    <3>1. u \in D
      BY <1>2
    <3>2. IsLinked(T, lt.semi, L, lt.ancestor[u], lt.best[u], u)
      BY DEF IsForest
    <3>3. \/ anc[u] = NewAncestor(u) /\ best[u] = NewBest(u)
          \/ anc[u] = lt.ancestor[u] /\ best[u] = lt.best[u]
      BY <3>1
    <3> HIDE DEF T, anc, best
    <3> QED  BY <1>8, <3>2, <3>3
  <2> HIDE DEF anc, best
  <2> QED  BY <2>1 DEF IsForest
<1>14. \A u \in D \ L : anc[u] = Nil /\ best[u] = u
  BY <1>9 DEF IsUnlinked
<1>15. l \in LtType(graph) /\ IsForest(T, lt.semi, l.ancestor, l.best, L) /\ IsUnlinked(graph, l, L)
  <2>1. CASE l = lt
    BY <2>1
  <2>2. CASE l = [lt EXCEPT !.best = best, !.ancestor = anc] /\ l.best = best /\ l.ancestor = anc
    <3>1. IsForest(T, lt.semi, l.ancestor, l.best, L) /\ IsUnlinked(graph, l, L)
      <4> HIDE DEF l, best, anc, T
      <4> QED  BY <1>13, <1>14, <2>2 DEF IsUnlinked
    <3>2. l \in LtType(graph)
      <4> HIDE DEF l, best, anc, T
      <4> QED  BY <1>12, <2>2 DEF LtType
    <3> QED  BY <3>1, <3>2
  <2> QED  BY <1>11, <2>1, <2>2
<1>16. /\ Eval(v) \in D
       /\ v \notin L => Eval(v) = v
       /\ v \in L => \E a : a \notin L /\ IsLinked(T, lt.semi, L, a, Eval(v), v)
  <2> HIDE DEF T
  <2> QED  BY <1>5, <1>8, <1>10 DEF Eval
<1> QED  BY <1>11, <1>15, <1>16

-----------------------------------------------------------------------------
(* The linked nodes L have their semidominators.  `bucket` has said of v what
   its immediate dominator is, or of which node below its semidominator it is
   the same; and where it has not, v is in `rest` or waits in the bucket of its
   semidominator, of which some node further down is not linked yet. *)
IsImplicit(T, l, L, v) ==
    \E u : /\ IsLinked(T, l.semi, L, l.semi[v], u, v)
           /\ l.idom[v] = IF l.semi[u] = l.semi[v] THEN l.semi[v] ELSE u

IsWaiting(g, T, l, L) ==
    \A x \in NodeIds(g) : \A v \in ToSet(l.bucket[x]) :
        v \in L /\ l.semi[v] = x /\ \E y \in T.nodes \ L : y \in Between(T, x, v)

IsProcessed(g, T, l, L, rest) ==
    /\ IsForest(T, l.semi, l.ancestor, l.best, L) /\ IsUnlinked(g, l, L)
    /\ \A w \in L : IsSemiOf(g, T, l.semi, w)
    /\ \A v \in NodeIds(g) \ L : l.idom[v] = Nil
    /\ IsWaiting(g, T, l, L)
    /\ \A v \in L : v \in ToSet(l.bucket[l.semi[v]]) \/ v \in rest \/ IsImplicit(T, l, L, v)

IsUpper(T, L) == \A w \in L, u \in T.nodes : T.num[w] < T.num[u] => u \in L

LEMMA SemiOfIgnores ==
  ASSUME NEW g, NEW T, NEW L, IsUpper(T, L), NEW semi, NEW semi2,
         \A x \in L : semi2[x] = semi[x], NEW w \in L, IsSemiOf(g, T, semi, w)
  PROVE  IsSemiOf(g, T, semi2, w)
<1>1. IsHigh(g, T, semi2[w], w)
  BY DEF IsSemiOf
<1>2. ASSUME NEW v \in T.nodes, w \in SuccessorSet(g, v) PROVE IsLow(g, T, semi2, v, w)
  <2>1. IsLow(g, T, semi, v, w)
    BY <1>2 DEF IsSemiOf
  <2>2. \A u \in T.nodes : T.num[u] > T.num[w] => u \in L
    BY DEF IsUpper
  <2> QED  BY <2>1, <2>2 DEF IsLow
<1> QED  BY <1>1, <1>2 DEF IsSemiOf

LEMMA LinkedIgnores ==
  ASSUME NEW T, NEW L, NEW semi, NEW semi2, \A x \in L : semi2[x] = semi[x],
         NEW M, L \subseteq M, NEW a, NEW b, NEW u, IsLinked(T, semi, L, a, b, u)
  PROVE  IsLinked(T, semi2, M, a, b, u) /\ b \in L
BY DEF IsLinked, IsLeast

LEMMA ProcessedKept ==
  ASSUME NEW g, NEW T, NEW l, NEW L, IsUpper(T, L), NEW rest, IsProcessed(g, T, l, L, rest),
         NEW l2, IsForest(T, l.semi, l2.ancestor, l2.best, L), IsUnlinked(g, l2, L),
         l2.bucket = l.bucket, \A x \in L : l2.semi[x] = l.semi[x],
         \A x \in L : l2.idom[x] = l.idom[x] \/ IsImplicit(T, l2, L, x),
         \A x \in NodeIds(g) \ L : l2.idom[x] = l.idom[x],
         NEW rest2, \A x \in L : x \in rest => x \in rest2 \/ IsImplicit(T, l2, L, x)
  PROVE  IsProcessed(g, T, l2, L, rest2)
<1>1. IsForest(T, l2.semi, l2.ancestor, l2.best, L)
  BY ForestIgnores
<1>2. \A w \in L : IsSemiOf(g, T, l2.semi, w)
  BY SemiOfIgnores DEF IsProcessed
<1>3. \A v \in NodeIds(g) \ L : l2.idom[v] = Nil
  BY DEF IsProcessed
<1>4. IsWaiting(g, T, l2, L)
  BY DEF IsProcessed, IsWaiting
<1>5. ASSUME NEW v \in L
      PROVE  v \in ToSet(l2.bucket[l2.semi[v]]) \/ v \in rest2 \/ IsImplicit(T, l2, L, v)
  <2>1. v \in ToSet(l.bucket[l.semi[v]]) \/ v \in rest \/ IsImplicit(T, l, L, v)
    BY DEF IsProcessed
  <2>2. CASE v \in ToSet(l.bucket[l.semi[v]])
    BY <2>2
  <2>3. CASE v \in rest
    BY <2>3
  <2>4. CASE IsImplicit(T, l, L, v) /\ l2.idom[v] = l.idom[v]
    <3>1. PICK u : /\ IsLinked(T, l.semi, L, l.semi[v], u, v)
                   /\ l.idom[v] = IF l.semi[u] = l.semi[v] THEN l.semi[v] ELSE u
      BY <2>4 DEF IsImplicit
    <3>2. IsLinked(T, l2.semi, L, l2.semi[v], u, v) /\ u \in L
      BY <3>1, LinkedIgnores
    <3> QED  BY <2>4, <3>1, <3>2 DEF IsImplicit
  <2> QED  BY <2>1, <2>2, <2>3, <2>4
<1> QED  BY <1>1, <1>2, <1>3, <1>4, <1>5 DEF IsProcessed

(* The nodes with a higher number than w. *)
After(T, w) == {x \in T.nodes : T.num[w] < T.num[x]}

(* link: w joins the forest and the bucket of its semidominator, and the bucket
   of its parent is taken out. *)
IsLink(T, l, w, taken, l2) ==
    /\ taken = [l.bucket EXCEPT ![l.semi[w]] = Append(@, w)]
    /\ l2.semi = l.semi /\ l2.best = l.best /\ l2.idom = l.idom
    /\ l2.ancestor = [l.ancestor EXCEPT ![w] = T.par[w]]
    /\ l2.bucket = [taken EXCEPT ![T.par[w]] = <<>>]

LEMMA ProcessedGrows ==
  ASSUME NEW g, NEW T, IsDfs(g, T), NEW w \in T.nodes \ {T.root},
         NEW L, L = After(T, w),
         NEW r, NEW l, IsLt(g, r, l), IsProcessed(g, T, l, L, {}), IsSemiOf(g, T, l.semi, w),
         NEW taken, NEW l2, IsLink(T, l, w, taken, l2),
         NEW p, p = T.par[w], NEW M, M = L \cup {w}
  PROVE  /\ IsProcessed(g, T, l2, M, ToSet(taken[p]))
         /\ taken \in [NodeIds(g) -> Seq(NodeIds(g))]
         /\ \A v \in ToSet(taken[p]) : v \in M /\ l.semi[v] = p /\ Anc(T, w, v)
<1> DEFINE s == l.semi[w]
<1>0. IsTree(T) /\ (\A x \in T.nodes : T.num[x] \in Nat) /\ T.nodes \subseteq NodeIds(g)
  BY DEF IsDfs, IsTree
<1>00. /\ l.bucket \in [NodeIds(g) -> Seq(NodeIds(g))]
       /\ l.ancestor \in [NodeIds(g) -> NodeIds(g) \cup {Nil}]
  BY DEF IsLt, LtType
<1> USE <1>00 DEF After, IsLink
<1>1. /\ p \in T.nodes /\ T.num[p] < T.num[w] /\ Anc(T, p, w) /\ w \in SuccessorSet(g, p)
      /\ w \notin L /\ p \notin M
  <2>1. p \in T.nodes /\ T.num[p] < T.num[w] /\ T.num[p] \in Nat /\ T.num[w] \in Nat
    BY <1>0 DEF IsTree
  <2>2. Anc(T, p, w)
    BY AncBasics
  <2>3. w \in SuccessorSet(g, p)
    BY DEF IsDfs
  <2>4. w \notin L /\ p \notin M
    BY <2>1
  <2> QED  BY <2>1, <2>2, <2>3, <2>4
<1>2. s \in T.nodes /\ Anc(T, s, w) /\ s # w
  <2>1. s \in T.nodes /\ Anc(T, s, w)
    BY DEF IsSemiOf, IsHigh
  <2>2. T.num[s] <= T.num[p]
    BY <1>1 DEF IsSemiOf, IsLow
  <2> QED  BY <1>0, <1>1, <2>1, <2>2
<1>3. /\ taken \in [NodeIds(g) -> Seq(NodeIds(g))]
      /\ \A x \in NodeIds(g) : ToSet(taken[x]) = ToSet(l.bucket[x]) \cup (IF x = s THEN {w} ELSE {})
  <2>1. w \in NodeIds(g) /\ s \in NodeIds(g)
    BY <1>0, <1>2
  <2>2. l.bucket[s] \in Seq(NodeIds(g))
    BY <2>1
  <2>3. /\ Append(l.bucket[s], w) \in Seq(NodeIds(g))
        /\ ToSet(Append(l.bucket[s], w)) = ToSet(l.bucket[s]) \cup {w}
    BY <2>1, <2>2, AppendElements
  <2>4. taken \in [NodeIds(g) -> Seq(NodeIds(g))]
    BY <2>1, <2>3
  <2>5. ToSet(taken[s]) = ToSet(l.bucket[s]) \cup {w}
    BY <2>1, <2>3
  <2>6. ASSUME NEW x \in NodeIds(g), x # s PROVE taken[x] = l.bucket[x]
    BY <2>1, <2>6
  <2> QED  BY <2>4, <2>5, <2>6
<1>4. \A x \in NodeIds(g) : ToSet(l2.bucket[x]) = IF x = p THEN {} ELSE ToSet(taken[x])
  <2>1. ToSet(<<>>) = {}
    BY DEF ToSet
  <2>2. p \in NodeIds(g)
    BY <1>0, <1>1
  <2>3. l2.bucket[p] = <<>>
    BY <1>3, <2>2
  <2>4. ASSUME NEW x \in NodeIds(g), x # p PROVE l2.bucket[x] = taken[x]
    BY <1>3, <2>2, <2>4
  <2> QED  BY <2>1, <2>3, <2>4
<1>5. ASSUME NEW x \in NodeIds(g), NEW v \in ToSet(taken[x])
      PROVE  v \in M /\ l.semi[v] = x /\ \E y \in T.nodes \ L : y \in Between(T, x, v)
  <2>1. CASE v \in ToSet(l.bucket[x])
    BY <2>1 DEF IsProcessed, IsWaiting
  <2>2. CASE x = s /\ v = w
    <3>1. w \in Between(T, s, w)
      BY <1>2, AncBasics DEF Between
    <3> QED  BY <1>1, <2>2, <3>1
  <2>3. v \in ToSet(l.bucket[x]) \cup (IF x = s THEN {w} ELSE {})
    BY <1>3
  <2>4. v \in ToSet(l.bucket[x]) \/ (x = s /\ v = w)
    BY <2>3
  <2> QED  BY <2>1, <2>2, <2>4
<1>6. ASSUME NEW v \in ToSet(taken[p]) PROVE v \in M /\ l.semi[v] = p /\ Anc(T, w, v)
  <2>1. PICK y \in T.nodes \ L : y \in Between(T, p, v)
    BY <1>0, <1>1, <1>5
  <2>2. v \in M /\ v \in T.nodes /\ l.semi[v] = p
    BY <1>0, <1>1, <1>5
  <2>3. T.num[y] <= T.num[w] /\ T.num[w] <= T.num[v]
    BY <1>0, <2>1, <2>2
  <2>4. Anc(T, y, v) /\ Anc(T, p, y) /\ y # p
    BY <2>1 DEF Between
  <2>5. Anc(T, y, w)
    BY <2>1, <2>2, <2>3, <2>4 DEF IsDfs, IsNested
  <2>6. y \in Between(T, p, w)
    BY <2>1, <2>4, <2>5 DEF Between
  <2>7. Between(T, T.par[w], w) = {w}
    BY <1>0, OnlyItselfBetween
  <2>8. y = w
    BY <2>6, <2>7
  <2> QED  BY <2>2, <2>4, <2>8
<1>7. IsWaiting(g, T, l2, M)
  <2> SUFFICES ASSUME NEW x \in NodeIds(g), NEW v \in ToSet(l2.bucket[x])
               PROVE  v \in M /\ l2.semi[v] = x /\ \E y \in T.nodes \ M : y \in Between(T, x, v)
    BY DEF IsWaiting
  <2>1. x # p /\ v \in ToSet(taken[x])
    BY <1>4
  <2>2. PICK y \in T.nodes \ L : y \in Between(T, x, v)
    BY <1>5, <2>1
  <2>3. CASE y = w
    <3>1. Anc(T, x, w) /\ x # w /\ Anc(T, w, v)
      BY <2>2, <2>3 DEF Between
    <3>2. Anc(T, x, p) /\ Anc(T, p, v)
      <4>1. w \in T.nodes \ {T.root} /\ p = T.par[w]
        OBVIOUS
      <4>2. Anc(T, x, T.par[w]) /\ Anc(T, T.par[w], w)
        BY ONLY <3>1, <4>1, AncBasics
      <4> QED  BY ONLY <3>1, <4>1, <4>2, AncBasics
    <3>3. p \in Between(T, x, v)
      BY <1>1, <2>1, <3>2 DEF Between
    <3> QED  BY <1>1, <1>5, <2>1, <3>3
  <2>4. CASE y # w
    BY <1>5, <2>1, <2>2, <2>4
  <2> QED  BY <2>3, <2>4
<1>8. IsForest(T, l2.semi, l2.ancestor, l2.best, M)
  <2>1. l.best[w] = w
    BY <1>0, <1>1 DEF IsProcessed, IsUnlinked
  <2>2. l2.ancestor[w] = T.par[w] /\ \A x \in L : l2.ancestor[x] = l.ancestor[x]
    BY <1>0, <1>1
  <2>3. IsForest(T, l.semi, l.ancestor, l.best, L) /\ w \notin L /\ l.semi[w] \in T.nodes
    BY <1>1, <1>2 DEF IsProcessed
  <2>4. IsForest(T, l.semi, l2.ancestor, l.best, L \cup {w})
    <3> DEFINE anc == l.ancestor
               anc2 == l2.ancestor
               best == l.best
               semi == l.semi
    <3>0. w \in T.nodes \ {T.root}
      OBVIOUS
    <3>1. best[w] = w /\ anc2[w] = T.par[w] /\ \A x \in L : anc2[x] = anc[x]
      BY <2>1, <2>2
    <3>2. IsForest(T, semi, anc, best, L) /\ w \notin L /\ semi[w] \in T.nodes
      BY <2>3
    <3> HIDE DEF anc, anc2, best, semi
    <3>3. IsForest(T, semi, anc2, best, L \cup {w})
      BY ONLY <1>0, <3>0, <3>1, <3>2, ForestGrows
    <3> QED  BY <3>3 DEF anc2, best, semi
  <2> QED  BY <2>4
<1>9. IsUnlinked(g, l2, M)
  BY DEF IsProcessed, IsUnlinked
<1>10. \A x \in M : IsSemiOf(g, T, l2.semi, x)
  BY DEF IsProcessed
<1>11. \A v \in NodeIds(g) \ M : l2.idom[v] = Nil
  BY DEF IsProcessed
<1>12. ASSUME NEW v \in M
       PROVE  v \in ToSet(l2.bucket[l2.semi[v]]) \/ v \in ToSet(taken[p]) \/ IsImplicit(T, l2, M, v)
  <2>1. CASE v \in ToSet(taken[l.semi[v]]) /\ l.semi[v] \in NodeIds(g)
    BY <1>4, <2>1
  <2>2. CASE v = w
    BY ONLY <1>0, <1>2, <1>3, <2>1, <2>2
  <2>3. CASE v # w /\ v \in ToSet(l.bucket[l.semi[v]])
    <3>1. l.semi[v] \in T.nodes
      BY <2>3 DEF IsProcessed, IsForest
    <3> QED  BY ONLY <1>0, <1>3, <2>1, <2>3, <3>1
  <2>4. CASE v # w /\ IsImplicit(T, l, L, v)
    <3>1. PICK u : /\ IsLinked(T, l.semi, L, l.semi[v], u, v)
                   /\ l.idom[v] = IF l.semi[u] = l.semi[v] THEN l.semi[v] ELSE u
      BY <2>4 DEF IsImplicit
    <3>2. IsLinked(T, l2.semi, M, l2.semi[v], u, v)
      BY <3>1, LinkedIgnores
    <3> QED  BY <3>1, <3>2 DEF IsImplicit
  <2> QED  BY <2>2, <2>3, <2>4 DEF IsProcessed
<1>13. IsProcessed(g, T, l2, M, ToSet(taken[p]))
  BY <1>7, <1>8, <1>9, <1>10, <1>11, <1>12 DEF IsProcessed
<1> QED  BY <1>3, <1>6, <1>13

-----------------------------------------------------------------------------
(* What each loop of the algorithm keeps true, of the graph g, the root r, the
   tree T and the fields l. *)
IsSearching(g, r, l, s) ==
    /\ s \in Seq(NodeIds(g))
    /\ l.semi = Identity(g) /\ l.best = Identity(g) /\ l.idom = Filled(g, Nil)
    /\ l.ancestor = Filled(g, Nil) /\ l.bucket = Filled(g, <<>>)
    /\ IF l.vertex = <<>> THEN s = <<r>> ELSE IsSearched(g, TreeOf(g, r, l), Last(l.vertex), s)

IsScanning(g, T, l, i, left) ==
    LET w == l.vertex[i]
        L == Above(g, l, i)
    IN  /\ i \in 2 .. Len(l.vertex) /\ left \in Seq(NodeIds(g))
        /\ ToSet(left) \subseteq PredecessorSet(g, w)
        /\ IsProcessed(g, T, l, L, {})
        /\ \A v \in NodeIds(g) \ (L \cup {w}) : l.semi[v] = v
        /\ IsHigh(g, T, l.semi[w], w)
        /\ \A v \in T.nodes \ ToSet(left) : w \in SuccessorSet(g, v) => IsLow(g, T, l.semi, v, w)

IsEmptying(g, T, l, i, left) ==
    LET w == l.vertex[i]
        L == Above(g, l, i - 1)
    IN  /\ i \in 2 .. Len(l.vertex) /\ left \in Seq(NodeIds(g))
        /\ IsProcessed(g, T, l, L, ToSet(left))
        /\ \A v \in NodeIds(g) \ L : l.semi[v] = v
        /\ \A v \in ToSet(left) : v \in L /\ l.semi[v] = T.par[w] /\ Anc(T, w, v)

IsResolving(g, T, l, i) ==
    /\ i \in 1 .. Len(l.vertex) /\ IsSemi(g, T, l.semi)
    /\ \A w \in T.nodes \ {T.root} :
          /\ l.dfnum[w] <= i => IsIdom(g, T, l.semi, l.idom[w], w)
          /\ l.dfnum[w] > i => IsImplicit(T, l, T.nodes \ {T.root}, w)
    /\ \A v \in NodeIds(g) : v \notin T.nodes \/ v = T.root => l.idom[v] = Nil

IsResolved(g, T, l) ==
    /\ IsSemi(g, T, l.semi)
    /\ \A w \in T.nodes \ {T.root} : IsIdom(g, T, l.semi, l.idom[w], w)
    /\ l.idom[T.root] = T.root
    /\ \A v \in NodeIds(g) \ T.nodes : l.idom[v] = Nil

(* The tree of a search that is over, and its vertices. *)
LEMMA VertexFacts ==
  ASSUME NEW g, NEW r, NEW l, IsLt(g, r, l), IsDfs(g, TreeOf(g, r, l))
  PROVE  /\ Len(l.vertex) \in Nat \ {0} /\ r \in Found(g, l) /\ l.dfnum[r] = 1
         /\ \A i \in 1 .. Len(l.vertex) : l.vertex[i] \in Found(g, l) /\ l.dfnum[l.vertex[i]] = i
         /\ \A i \in 2 .. Len(l.vertex) : l.vertex[i] # r
         /\ \A v \in Found(g, l) : l.dfnum[v] \in 1 .. Len(l.vertex) /\ l.vertex[l.dfnum[v]] = v
<1> DEFINE T == TreeOf(g, r, l)
<1>1. T.nodes = Found(g, l) /\ T.root = r /\ T.num = l.dfnum
  BY DEF TreeOf
<1>2. IsTree(T)
  BY DEF IsDfs
<1>3. r \in Found(g, l)
  BY <1>1, <1>2 DEF IsTree
<1>4. Len(l.vertex) \in Nat /\ l.vertex \in [1 .. Len(l.vertex) -> NodeIds(g)]
  BY DEF IsLt, LtType
<1>5. \A v \in Found(g, l) : l.dfnum[v] \in 1 .. Len(l.vertex) /\ l.vertex[l.dfnum[v]] = v
  BY <1>4 DEF IsLt, IsNumbering, Found
<1>6. \A i \in 1 .. Len(l.vertex) : l.vertex[i] \in Found(g, l) /\ l.dfnum[l.vertex[i]] = i
  BY <1>4 DEF IsLt, IsNumbering, Found
<1>7. l.dfnum[r] = 1
  <2>1. 1 \in 1 .. Len(l.vertex)
    BY <1>3, <1>4, <1>5
  <2>2. l.vertex[1] \in T.nodes /\ T.num[l.vertex[1]] = 1
    BY <1>1, <1>6, <2>1
  <2>3. Anc(T, T.root, l.vertex[1])
    BY <1>2, <2>2, RootIsAncestor
  <2>4. T.num[T.root] <= 1
    BY <1>2, <2>2, <2>3, AncNumbers
  <2> QED  BY <1>1, <1>3, <1>5, <2>4
<1>8. \A i \in 2 .. Len(l.vertex) : l.vertex[i] # r
  BY <1>4, <1>6, <1>7
<1> QED  BY <1>3, <1>4, <1>5, <1>6, <1>7, <1>8

LEMMA SearchingBegins ==
  ASSUME NEW g, IsGraph(g), NEW r \in NodeIds(g)
  PROVE  IsLt(g, r, NewLt(g)) /\ IsSearching(g, r, NewLt(g), <<r>>)
<1> DEFINE l == NewLt(g)
<1>1. /\ l.dfnum = Filled(g, 0) /\ l.vertex = <<>> /\ l.parent = Filled(g, Nil)
      /\ l.semi = Identity(g) /\ l.idom = Filled(g, Nil) /\ l.ancestor = Filled(g, Nil)
      /\ l.best = Identity(g) /\ l.bucket = Filled(g, <<>>)
  BY DEF NewLt
<1>2. l \in LtType(g)
  <2>1. /\ Filled(g, 0) \in [NodeIds(g) -> Nat] /\ <<>> \in Seq(NodeIds(g))
        /\ Filled(g, Nil) \in [NodeIds(g) -> NodeIds(g) \cup {Nil}]
        /\ Identity(g) \in [NodeIds(g) -> NodeIds(g)]
        /\ Filled(g, <<>>) \in [NodeIds(g) -> Seq(NodeIds(g))]
    BY DEF Filled, Identity
  <2> QED  BY <2>1 DEF NewLt, LtType
<1>3. IsNumbering(g, l)
  BY <1>1 DEF IsNumbering, Filled, Found
<1>4. <<r>> \in Seq(NodeIds(g))
  OBVIOUS
<1> HIDE DEF l
<1>5. IsLt(g, r, l)
  BY <1>2, <1>3 DEF IsLt
<1>6. IsSearching(g, r, l, <<r>>)
  BY <1>1, <1>4 DEF IsSearching
<1> QED  BY <1>5, <1>6 DEF l

LEMMA SearchingPops ==
  ASSUME NEW g, NEW r, NEW l, IsLt(g, r, l), NEW s, IsSearching(g, r, l, s), s # <<>>,
         l.dfnum[Last(s)] # 0
  PROVE  IsSearching(g, r, l, Front(s))
<1> DEFINE T == TreeOf(g, r, l)
<1>1. s \in Seq(NodeIds(g))
  BY DEF IsSearching
<1>2. Last(s) \in NodeIds(g) /\ Front(s) \in Seq(NodeIds(g))
  <2>1. <<>> \in Seq(NodeIds(g))
    OBVIOUS
  <2> QED  BY <1>1, <2>1, FrontConcat
<1>3. Last(s) \in T.nodes
  BY <1>2 DEF TreeOf, Found
<1>4. l.vertex # <<>>
  <2> SUFFICES ASSUME l.vertex = <<>> PROVE FALSE
    OBVIOUS
  <2>1. l.dfnum[Last(s)] \in 0 .. 0
    BY <1>2 DEF IsLt, IsNumbering
  <2> QED  BY <2>1
<1>5. IsSearched(g, T, Last(l.vertex), s)
  BY <1>4 DEF IsSearching
<1>6. IsSearched(g, T, Last(l.vertex), Front(s))
  BY <1>1, <1>3, <1>5, SearchPops
<1> QED  BY <1>2, <1>4, <1>6 DEF IsSearching

FreshOf(g, l, v) == Keep(g.succ[v], {w \in NodeIds(g) \ {v} : l.dfnum[w] = 0})
NumberedLt(g, l, v) ==
    [l EXCEPT !.dfnum[v] = Len(l.vertex) + 1, !.vertex = Append(l.vertex, v),
              !.parent = [w \in NodeIds(g) |->
                             IF w \in ToSet(FreshOf(g, l, v)) THEN v ELSE l.parent[w]]]

LEMMA SearchingNumbers ==
  ASSUME NEW g, NEW r, NEW l, IsLt(g, r, l), NEW s, IsSearching(g, r, l, s), s # <<>>,
         NEW v, v = Last(s), l.dfnum[v] = 0,
         NEW fresh, fresh = FreshOf(g, l, v), NEW l2, l2 = NumberedLt(g, l, v)
  PROVE  IsLt(g, r, l2) /\ IsSearching(g, r, l2, Front(s) \o fresh)
<1> DEFINE n == Len(l.vertex) + 1
           T == TreeOf(g, r, l)
           T2 == TreeOf(g, r, l2)
<1>1. s \in Seq(NodeIds(g)) /\ IsGraph(g) /\ r \in NodeIds(g)
  BY DEF IsSearching, IsLt
<1>2. v \in NodeIds(g)
  <2>1. <<>> \in Seq(NodeIds(g))
    OBVIOUS
  <2> QED  BY <1>1, <2>1, FrontConcat
<1>3. /\ fresh \in Seq(NodeIds(g))
      /\ ToSet(fresh) = SuccessorSet(g, v) \ (T.nodes \cup {v})
  <2> DEFINE S == {w \in NodeIds(g) \ {v} : l.dfnum[w] = 0}
             q == g.succ[v]
  <2>1. q \in Seq(NodeIds(g))
    BY <1>1, <1>2 DEF IsGraph
  <2>2. fresh \in Seq(NodeIds(g) \cap S) /\ ToSet(fresh) = ToSet(q) \cap S
    <3> HIDE DEF S, q
    <3>1. fresh = Keep(q, S)
      BY DEF S, q, FreshOf
    <3> QED  BY ONLY <2>1, <3>1, KeepFacts
  <2>3. ToSet(q) \subseteq NodeIds(g)
    BY <1>1, <1>2, SuccessorsAreNodes DEF SuccessorSet
  <2>4. S = NodeIds(g) \ (T.nodes \cup {v})
    BY DEF TreeOf, Found
  <2>5. ToSet(fresh) = SuccessorSet(g, v) \ (T.nodes \cup {v})
    BY <2>2, <2>3, <2>4 DEF SuccessorSet
  <2>6. NodeIds(g) \cap S \subseteq NodeIds(g)
    OBVIOUS
  <2> HIDE DEF S, q
  <2> QED  BY <2>2, <2>5, <2>6
<1>4. /\ l.dfnum \in [NodeIds(g) -> 0 .. n - 1] /\ l.vertex \in Seq(NodeIds(g)) /\ n \in Nat \ {0}
      /\ l.parent \in [NodeIds(g) -> NodeIds(g) \cup {Nil}]
  BY DEF IsLt, LtType, IsNumbering
<1> USE DEF NumberedLt
<1>5. /\ l2.dfnum = [l.dfnum EXCEPT ![v] = n] /\ l2.vertex = Append(l.vertex, v)
      /\ l2.parent = [w \in NodeIds(g) |-> IF w \in ToSet(fresh) THEN v ELSE l.parent[w]]
      /\ l2.semi = l.semi /\ l2.idom = l.idom /\ l2.ancestor = l.ancestor
      /\ l2.best = l.best /\ l2.bucket = l.bucket
      /\ l2 = [l2 EXCEPT !.best = l2.best] /\ DOMAIN l2 = DOMAIN l
  BY DEF IsLt, LtType
<1>6. /\ l2.dfnum \in [NodeIds(g) -> 0 .. n]
      /\ l2.dfnum[v] = n /\ \A x \in NodeIds(g) \ {v} : l2.dfnum[x] = l.dfnum[x]
  BY <1>2, <1>4, <1>5
<1>7. /\ l2.vertex \in Seq(NodeIds(g)) /\ Len(l2.vertex) = n /\ l2.vertex[n] = v
      /\ \A i \in 1 .. n - 1 : l2.vertex[i] = l.vertex[i]
  BY <1>2, <1>4, <1>5
<1>8. l2.parent \in [NodeIds(g) -> NodeIds(g) \cup {Nil}]
  BY <1>2, <1>4, <1>5
<1>9. Found(g, l2) = Found(g, l) \cup {v} /\ v \notin Found(g, l)
  BY <1>2, <1>4, <1>6 DEF Found
<1>10. IsNumbering(g, l2)
  <2>1. ASSUME NEW i \in 1 .. n PROVE l2.dfnum[l2.vertex[i]] = i
    <3>1. CASE i = n
      BY <1>6, <1>7, <3>1
    <3>2. CASE i # n
      <4>1. i \in 1 .. n - 1
        BY <1>4, <3>2
      <4>2. l.vertex[i] \in NodeIds(g) /\ l.dfnum[l.vertex[i]] = i
        BY <1>4, <4>1 DEF IsLt, IsNumbering
      <4>3. l.vertex[i] # v
        BY <4>1, <4>2
      <4> QED  BY <1>6, <1>7, <4>1, <4>2, <4>3
    <3> QED  BY <3>1, <3>2
  <2>2. ASSUME NEW x \in Found(g, l2) PROVE l2.vertex[l2.dfnum[x]] = x
    <3>1. CASE x = v
      BY <1>6, <1>7, <3>1
    <3>2. CASE x # v
      <4>1. x \in Found(g, l) /\ x \in NodeIds(g)
        BY <1>9, <3>2 DEF Found
      <4>2. l.dfnum[x] \in 1 .. n - 1 /\ l.vertex[l.dfnum[x]] = x
        BY <1>4, <4>1 DEF IsLt, IsNumbering, Found
      <4> QED  BY <1>6, <1>7, <3>2, <4>1, <4>2
    <3> QED  BY <3>1, <3>2
  <2> QED  BY <1>6, <1>7, <2>1, <2>2 DEF IsNumbering
<1>11. l2 \in LtType(g)
  <2>1. l2.dfnum \in [NodeIds(g) -> Nat]
    BY <1>4, <1>6
  <2>2. /\ l2.semi \in [NodeIds(g) -> NodeIds(g)] /\ l2.idom \in [NodeIds(g) -> NodeIds(g) \cup {Nil}]
        /\ l2.ancestor \in [NodeIds(g) -> NodeIds(g) \cup {Nil}]
        /\ l2.best \in [NodeIds(g) -> NodeIds(g)] /\ l2.bucket \in [NodeIds(g) -> Seq(NodeIds(g))]
    BY <1>5 DEF IsLt, LtType
  <2>3. l2 = [dfnum |-> l2.dfnum, vertex |-> l2.vertex, parent |-> l2.parent, semi |-> l2.semi,
              idom |-> l2.idom, ancestor |-> l2.ancestor, best |-> l2.best, bucket |-> l2.bucket]
    BY DEF IsLt, LtType
  <2> QED  BY <1>7, <1>8, <2>1, <2>2, <2>3 DEF LtType
<1>12. IsLt(g, r, l2)
  BY <1>1, <1>10, <1>11 DEF IsLt
<1>13. l2.vertex # <<>> /\ Last(l2.vertex) = v
  <2>1. l2.vertex # <<>>
    BY <1>4, <1>7
  <2> QED  BY <1>7, <2>1 DEF Last
<1>14. /\ T.nodes = Found(g, l) /\ T.root = r /\ T.num = l.dfnum /\ T.par = l.parent
       /\ T2.nodes = Found(g, l2) /\ T2.root = r /\ T2.num = l2.dfnum /\ T2.par = l2.parent
  BY DEF TreeOf
<1>15. Front(s) \o fresh \in Seq(NodeIds(g))
  BY <1>1, <1>3, FrontConcat
<1>16. IsSearched(g, T2, v, Front(s) \o fresh)
  <2>1. CASE l.vertex = <<>>
    <3>1. s = <<r>> /\ Found(g, l) = {}
      <4>1. s = <<r>>
        BY <2>1 DEF IsSearching
      <4>2. \A x \in NodeIds(g) : l.dfnum[x] \in 0 .. 0
        BY <2>1 DEF IsLt, IsNumbering
      <4> QED  BY <4>1, <4>2 DEF Found
    <3>2. v = r /\ Front(s) \o fresh = fresh
      <4>1. Last(s) = r /\ Front(s) = <<>>
        BY <3>1 DEF Last, Front
      <4> QED  BY <1>3, <4>1
    <3>3. T2.nodes = {r} /\ T2.root = r /\ T2.num[r] \in Nat
      BY <1>4, <1>6, <1>9, <1>14, <3>1, <3>2
    <3>4. \A x \in ToSet(fresh) : T2.par[x] = r
      <4>1. ToSet(fresh) \subseteq NodeIds(g)
        BY <1>1, <1>2, <1>3, SuccessorsAreNodes
      <4> QED  BY <1>5, <1>14, <3>2, <4>1
    <3>5. ToSet(fresh) = SuccessorSet(g, r) \ {r}
      BY <1>3, <1>14, <3>1, <3>2
    <3> HIDE DEF T, T2, n
    <3>6. IsSearched(g, T2, r, fresh)
      BY ONLY <1>1, <1>3, <3>3, <3>4, <3>5, SearchBegins
    <3> QED  BY <3>2, <3>6
  <2>2. CASE l.vertex # <<>>
    <3>1. IsSearched(g, T, Last(l.vertex), s)
      BY <2>2 DEF IsSearching
    <3>2. v \notin T.nodes /\ T2.nodes = T.nodes \cup {v} /\ T2.root = T.root /\ T2.num[v] \in Nat
      BY <1>4, <1>6, <1>9, <1>14
    <3>3. \A x \in T.nodes : T2.num[x] = T.num[x] /\ T.num[x] < T2.num[v]
      <4>1. ASSUME NEW x \in Found(g, l)
            PROVE  x \in NodeIds(g) \ {v} /\ l.dfnum[x] \in 0 .. n - 1
        BY <1>4, <1>9, <4>1 DEF Found
      <4>2. ASSUME NEW x \in Found(g, l) PROVE l2.dfnum[x] = l.dfnum[x] /\ l.dfnum[x] < n
        BY <1>4, <1>6, <4>1
      <4> QED  BY ONLY <1>6, <1>14, <4>2
    <3>4. \A x \in NodeIds(g) : T2.par[x] = IF x \in ToSet(fresh) THEN v ELSE T.par[x]
      BY <1>5, <1>14
    <3>5. s # <<>> /\ v = Last(s)
      OBVIOUS
    <3> HIDE DEF T, T2, n
    <3> QED  BY ONLY <1>1, <1>3, <3>1, <3>2, <3>3, <3>4, <3>5, SearchNumbers
  <2> QED  BY <2>1, <2>2
<1>17. /\ l2.semi = Identity(g) /\ l2.best = Identity(g) /\ l2.idom = Filled(g, Nil)
       /\ l2.ancestor = Filled(g, Nil) /\ l2.bucket = Filled(g, <<>>)
  BY <1>5 DEF IsSearching
<1> QED  BY <1>12, <1>13, <1>15, <1>16, <1>17 DEF IsSearching

LEMMA SearchingDone ==
  ASSUME NEW g, NEW r, NEW l, IsLt(g, r, l), IsSearching(g, r, l, <<>>)
  PROVE  LET T == TreeOf(g, r, l)
             L == Above(g, l, Len(l.vertex))
         IN  /\ IsDfs(g, T) /\ IsProcessed(g, T, l, L, {})
             /\ \A v \in NodeIds(g) : l.semi[v] = v
<1> DEFINE T == TreeOf(g, r, l)
           L == Above(g, l, Len(l.vertex))
<1>1. IsSearched(g, T, Last(l.vertex), <<>>)
  <2>1. <<>> # <<r>>
    OBVIOUS
  <2> QED  BY <2>1 DEF IsSearching
<1>2. IsDfs(g, T)
  BY <1>1, SearchDone DEF IsLt
<1>3. L = {}
  <2>1. Len(l.vertex) \in Nat /\ \A v \in Found(g, l) : l.dfnum[v] \in 0 .. Len(l.vertex)
    BY DEF IsLt, LtType, IsNumbering, Found
  <2> QED  BY <2>1 DEF Above
<1>4. /\ l.semi = Identity(g) /\ l.best = Identity(g) /\ l.idom = Filled(g, Nil)
      /\ l.ancestor = Filled(g, Nil) /\ l.bucket = Filled(g, <<>>)
  BY DEF IsSearching
<1>5. \A v \in NodeIds(g) : /\ l.semi[v] = v /\ l.best[v] = v /\ l.idom[v] = Nil
                            /\ l.ancestor[v] = Nil /\ l.bucket[v] = <<>>
  BY <1>4 DEF Identity, Filled
<1>6. ToSet(<<>>) = {}
  BY DEF ToSet
<1> HIDE DEF T, L
<1>7. IsProcessed(g, T, l, L, {})
  BY <1>3, <1>5, <1>6 DEF IsProcessed, IsForest, IsUnlinked, IsWaiting
<1> QED  BY <1>2, <1>5, <1>7 DEF T, L

(* The next vertex, or, when only the root is left, the end of phase 3. *)
LEMMA VertexIsScanned ==
  ASSUME NEW g, NEW r, NEW l, IsLt(g, r, l), NEW T, T = TreeOf(g, r, l), IsDfs(g, T),
         NEW i \in 2 .. Len(l.vertex), IsProcessed(g, T, l, Above(g, l, i), {}),
         \A v \in NodeIds(g) \ Above(g, l, i) : l.semi[v] = v
  PROVE  IsScanning(g, T, l, i, Predecessors(g, l.vertex[i]))
<1> DEFINE w == l.vertex[i]
           L == Above(g, l, i)
           left == Predecessors(g, w)
<1>0. Len(l.vertex) \in Nat
  BY VertexFacts
<1>1. w \in Found(g, l) /\ l.dfnum[w] = i /\ w \in NodeIds(g) /\ w \in T.nodes
  BY <1>0, VertexFacts DEF Found, TreeOf
<1>2. left \in Seq(NodeIds(g)) /\ ToSet(left) = PredecessorSet(g, w)
  BY <1>1, PredecessorsType DEF IsLt
<1>3. w \notin L
  BY <1>0, <1>1 DEF Above
<1>4. IsHigh(g, T, l.semi[w], w)
  <2>1. l.semi[w] = w
    BY <1>1, <1>3
  <2> QED  BY <1>1, <2>1, HighBegins
<1>5. \A v \in T.nodes \ ToSet(left) : w \notin SuccessorSet(g, v)
  <2>1. T.nodes \subseteq NodeIds(g)
    BY DEF IsDfs
  <2> QED  BY <1>2, <2>1 DEF PredecessorSet
<1> QED  BY <1>2, <1>4, <1>5 DEF IsScanning

LEMMA PhasesEnd ==
  ASSUME NEW g, NEW r, NEW l, IsLt(g, r, l), NEW T, T = TreeOf(g, r, l), IsDfs(g, T),
         IsProcessed(g, T, l, Above(g, l, 1), {})
  PROVE  IsResolving(g, T, l, 1)
<1> DEFINE L == T.nodes \ {T.root}
<1>0. /\ Len(l.vertex) \in Nat \ {0} /\ T.nodes = Found(g, l) /\ T.root = r /\ T.num = l.dfnum
      /\ l.dfnum[r] = 1 /\ T.nodes \subseteq NodeIds(g) /\ r \in T.nodes
  BY VertexFacts DEF TreeOf, Found
<1>1. \A w \in L : l.dfnum[w] \in Nat /\ l.dfnum[w] > 1
  <2> SUFFICES ASSUME NEW w \in L PROVE l.dfnum[w] \in Nat /\ l.dfnum[w] > 1
    OBVIOUS
  <2>1. l.dfnum[w] \in 1 .. Len(l.vertex)
    BY <1>0, VertexFacts
  <2>2. l.dfnum[w] # l.dfnum[r]
    BY <1>0, VertexFacts
  <2> QED  BY <1>0, <2>1, <2>2
<1>2. Above(g, l, 1) = L
  BY <1>0, <1>1 DEF Above
<1>3. IsProcessed(g, T, l, L, {})
  BY <1>2
<1>4. \A w \in L : IsSemiOf(g, T, l.semi, w)
  BY <1>3 DEF IsProcessed
<1>5. ASSUME NEW v \in L PROVE IsImplicit(T, l, L, v)
  <2> SUFFICES ASSUME v \in ToSet(l.bucket[l.semi[v]]) PROVE FALSE
    BY <1>3 DEF IsProcessed
  <2>1. l.semi[v] \in NodeIds(g)
    BY <1>0, <1>3 DEF IsProcessed, IsForest
  <2>2. PICK y \in T.nodes \ L : y \in Between(T, l.semi[v], v)
    BY <1>3, <2>1 DEF IsProcessed, IsWaiting
  <2>3. Anc(T, l.semi[v], T.root) /\ l.semi[v] # T.root
    BY <2>2 DEF Between
  <2> QED  BY <2>3, AncBasics
<1>6. \A v \in NodeIds(g) : v \notin T.nodes \/ v = T.root => l.idom[v] = Nil
  BY <1>3 DEF IsProcessed
<1>7. IsSemi(g, T, l.semi)
  BY <1>4 DEF IsSemi
<1> HIDE DEF L
<1>8. \A w \in L : ~(l.dfnum[w] <= 1)
  BY <1>1
<1>9. \A w \in T.nodes \ {T.root} :
          /\ l.dfnum[w] <= 1 => IsIdom(g, T, l.semi, l.idom[w], w)
          /\ l.dfnum[w] > 1 => IsImplicit(T, l, T.nodes \ {T.root}, w)
  BY <1>5, <1>8 DEF L
<1>10. 1 \in 1 .. Len(l.vertex)
  BY <1>0
<1> QED  BY <1>6, <1>7, <1>9, <1>10 DEF IsResolving

(* One predecessor v of w is looked at; u is what eval answers. *)
LEMMA SemiScanned ==
  ASSUME NEW g, NEW T, IsDfs(g, T), NEW w \in T.nodes, NEW L, L = After(T, w),
         NEW semi, IsHigh(g, T, semi[w], w), \A x \in L : IsSemiOf(g, T, semi, x),
         NEW v \in T.nodes, w \in SuccessorSet(g, v), v \notin L /\ v # w => semi[v] = v,
         NEW u, v \notin L => u = v,
         v \in L => \E a : a \notin L /\ IsLinked(T, semi, L, a, u, v),
         NEW semi2, semi2[w] = IF T.num[semi[u]] < T.num[semi[w]] THEN semi[u] ELSE semi[w],
         \A x \in T.nodes \ {w} : semi2[x] = semi[x]
  PROVE  /\ IsHigh(g, T, semi2[w], w) /\ IsLow(g, T, semi2, v, w)
         /\ \A x \in T.nodes : IsLow(g, T, semi, x, w) => IsLow(g, T, semi2, x, w)
<1> USE DEF After
<1>1. IsTree(T) /\ (\A x \in T.nodes : T.num[x] \in Nat)
      /\ (\A x, y \in T.nodes : T.num[x] = T.num[y] => x = y)
  BY DEF IsDfs, IsTree
<1>2. semi[w] \in T.nodes /\ Anc(T, semi[w], w) /\ T.num[semi[w]] <= T.num[w]
  <2>1. semi[w] \in T.nodes /\ Anc(T, semi[w], w)
    BY DEF IsHigh
  <2> QED  BY <1>1, <2>1, AncNumbers
<1>3. CASE v \notin L
  <2>1. u = v /\ T.num[v] <= T.num[w] /\ (v # w => T.num[v] < T.num[w] /\ semi[v] = v)
    BY <1>1, <1>3
  <2>2. IsHigh(g, T, semi2[w], w)
    <3>1. CASE semi2[w] = semi[w]
      BY <3>1
    <3>2. CASE semi2[w] # semi[w]
      <4>1. semi2[w] = v /\ v # w
        BY <2>1, <3>2
      <4>2. IsHigh(g, T, v, w)
        BY <2>1, <4>1, HighByEdge
      <4> QED  BY <4>1, <4>2
    <3> QED  BY <3>1, <3>2
  <2>3. semi2[w] \in T.nodes /\ T.num[semi2[w]] <= T.num[semi[w]]
        /\ (v # w => T.num[semi2[w]] <= T.num[v])
    BY <1>1, <1>2, <2>1
  <2>4. \A x \in T.nodes : Anc(T, x, v) => ~(T.num[x] > T.num[w])
    <3> SUFFICES ASSUME NEW x \in T.nodes, Anc(T, x, v) PROVE ~(T.num[x] > T.num[w])
      OBVIOUS
    <3>1. T.num[x] <= T.num[v]
      BY <1>1, AncNumbers
    <3> QED  BY <1>1, <2>1, <3>1
  <2>5. IsLow(g, T, semi2, v, w)
    BY <1>1, <2>1, <2>3, <2>4 DEF IsLow
  <2>6. ASSUME NEW x \in T.nodes, IsLow(g, T, semi, x, w) PROVE IsLow(g, T, semi2, x, w)
    <3>1. ASSUME NEW y \in T.nodes, Anc(T, y, x), T.num[y] > T.num[w]
          PROVE  T.num[semi2[w]] <= T.num[semi2[y]]
      <4>1. T.num[semi[w]] <= T.num[semi[y]] /\ y \in L /\ y # w
        BY <1>1, <2>6, <3>1 DEF IsLow
      <4>2. semi[y] \in T.nodes
        BY <4>1 DEF IsSemiOf, IsHigh
      <4> QED  BY <1>1, <1>2, <2>3, <4>1, <4>2
    <3>2. T.num[x] < T.num[w] => T.num[semi2[w]] <= T.num[x]
      BY <1>1, <1>2, <2>3, <2>6 DEF IsLow
    <3> QED  BY <3>1, <3>2 DEF IsLow
  <2> QED  BY <2>2, <2>5, <2>6
<1>4. CASE v \in L
  <2>1. PICK a : a \notin L /\ IsLinked(T, semi, L, a, u, v)
    BY <1>4
  <2>2. /\ a \in T.nodes /\ Anc(T, a, v) /\ u \in Between(T, a, v) /\ u \in L
        /\ \A x \in Between(T, a, v) : T.num[semi[u]] <= T.num[semi[x]]
    BY <2>1 DEF IsLinked, IsLeast
  <2>3. u \in T.nodes /\ Anc(T, u, v) /\ T.num[w] < T.num[u] /\ IsSemiOf(g, T, semi, u)
    BY <2>2 DEF Between
  <2>4. IsHigh(g, T, semi[u], u) /\ semi[u] \in T.nodes
    BY <2>3 DEF IsSemiOf, IsHigh
  <2>5. IsHigh(g, T, semi2[w], w)
    <3>1. CASE semi2[w] = semi[w]
      BY <3>1
    <3>2. CASE semi2[w] # semi[w]
      <4>1. semi2[w] = semi[u] /\ T.num[semi[u]] < T.num[w]
        BY <1>1, <1>2, <2>4, <3>2
      <4>2. IsHigh(g, T, semi[u], w)
        BY <2>3, <2>4, <4>1, HighByAncestor
      <4> QED  BY <4>1, <4>2
    <3> QED  BY <3>1, <3>2
  <2>6. semi2[w] \in T.nodes /\ T.num[semi2[w]] <= T.num[semi[w]] /\ T.num[semi2[w]] <= T.num[semi[u]]
    BY <1>1, <1>2, <2>4
  <2>7. ASSUME NEW y \in T.nodes, Anc(T, y, v), T.num[y] > T.num[w]
        PROVE  T.num[semi2[w]] <= T.num[semi2[y]]
    <3>1. T.num[a] <= T.num[w] /\ y \in L /\ y # w /\ y # a
      BY <1>1, <2>1, <2>2, <2>7
    <3>2. T.num[a] <= T.num[y]
      BY <1>1, <2>2, <2>7, <3>1
    <3>3. Anc(T, a, y)
      BY <2>2, <2>7, <3>2, AncestorsAreChain
    <3>4. y \in Between(T, a, v)
      BY <2>7, <3>1, <3>3 DEF Between
    <3>5. T.num[semi[u]] <= T.num[semi[y]] /\ semi[y] \in T.nodes
      BY <2>2, <3>1, <3>4 DEF IsSemiOf, IsHigh
    <3> QED  BY <1>1, <2>4, <2>6, <3>1, <3>5
  <2>8. ~(T.num[v] < T.num[w])
    BY <1>1, <1>4
  <2>9. IsLow(g, T, semi2, v, w)
    BY <2>7, <2>8 DEF IsLow
  <2>10. ASSUME NEW x \in T.nodes, IsLow(g, T, semi, x, w) PROVE IsLow(g, T, semi2, x, w)
    <3>1. ASSUME NEW y \in T.nodes, Anc(T, y, x), T.num[y] > T.num[w]
          PROVE  T.num[semi2[w]] <= T.num[semi2[y]]
      <4>1. T.num[semi[w]] <= T.num[semi[y]] /\ y \in L /\ y # w
        BY <1>1, <2>10, <3>1 DEF IsLow
      <4>2. semi[y] \in T.nodes
        BY <4>1 DEF IsSemiOf, IsHigh
      <4> QED  BY <1>1, <1>2, <2>6, <4>1, <4>2
    <3>2. T.num[x] < T.num[w] => T.num[semi2[w]] <= T.num[x]
      BY <1>1, <1>2, <2>6, <2>10 DEF IsLow
    <3> QED  BY <3>1, <3>2 DEF IsLow
  <2> QED  BY <2>5, <2>9, <2>10
<1> QED  BY <1>3, <1>4

(* c is l after eval of v, and u its answer. *)
IsEvaluated(g, T, l, L, v, u, c) ==
    /\ c \in LtType(g)
    /\ c.dfnum = l.dfnum /\ c.vertex = l.vertex /\ c.parent = l.parent
    /\ c.semi = l.semi /\ c.idom = l.idom /\ c.bucket = l.bucket
    /\ IsForest(T, l.semi, c.ancestor, c.best, L) /\ IsUnlinked(g, c, L)
    /\ u \in NodeIds(g) /\ (v \notin L => u = v)
    /\ v \in L => \E a : a \notin L /\ IsLinked(T, l.semi, L, a, u, v)

LEMMA AboveIsUpper ==
  ASSUME NEW g, NEW r, NEW l, IsLt(g, r, l), NEW T, T = TreeOf(g, r, l), IsDfs(g, T),
         NEW i \in 0 .. Len(l.vertex)
  PROVE  IsUpper(T, Above(g, l, i)) /\ Above(g, l, i) \subseteq T.nodes
<1>1. Len(l.vertex) \in Nat
  BY VertexFacts
<1>2. T.nodes = Found(g, l) /\ T.num = l.dfnum
  BY DEF TreeOf
<1>3. \A v \in Found(g, l) : l.dfnum[v] \in Nat
  BY <1>1, VertexFacts
<1> QED  BY <1>1, <1>2, <1>3 DEF IsUpper, Above

(* lt after a turn of each loop, c being what eval left of l. *)
ScannedLt(l, c, u, w) ==
    [c EXCEPT !.semi = [l.semi EXCEPT ![w] =
        IF l.dfnum[l.semi[u]] < l.dfnum[l.semi[w]] THEN l.semi[u] ELSE l.semi[w]]]
BucketsOf(l, w) == [l.bucket EXCEPT ![l.semi[w]] = Append(@, w)]
LinkedLt(l, w) ==
    [l EXCEPT !.bucket = [BucketsOf(l, w) EXCEPT ![l.parent[w]] = <<>>],
              !.ancestor = [l.ancestor EXCEPT ![w] = l.parent[w]]]
EmptiedLt(l, c, u, v, w) ==
    [c EXCEPT !.idom = [l.idom EXCEPT ![v] = IF l.semi[u] = l.semi[v] THEN l.parent[w] ELSE u]]

LEMMA ScanStep ==
  ASSUME NEW g, NEW r, NEW l, IsLt(g, r, l), NEW T, T = TreeOf(g, r, l), IsDfs(g, T),
         NEW i, NEW left, IsScanning(g, T, l, i, left), left # <<>>,
         NEW v, v = Head(left), l.dfnum[v] # 0, NEW w, w = l.vertex[i],
         NEW u, NEW c, IsEvaluated(g, T, l, Above(g, l, i), v, u, c),
         NEW l2, l2 = ScannedLt(l, c, u, w)
  PROVE  IsLt(g, r, l2) /\ TreeOf(g, r, l2) = T /\ IsScanning(g, T, l2, i, Tail(left))
<1> DEFINE L == Above(g, l, i)
           s2 == IF l.dfnum[l.semi[u]] < l.dfnum[l.semi[w]] THEN l.semi[u] ELSE l.semi[w]
<1>1. /\ i \in 2 .. Len(l.vertex) /\ left \in Seq(NodeIds(g)) /\ Len(l.vertex) \in Nat
      /\ ToSet(left) \subseteq PredecessorSet(g, w) /\ IsProcessed(g, T, l, L, {})
      /\ (\A x \in NodeIds(g) \ (L \cup {w}) : l.semi[x] = x) /\ IsHigh(g, T, l.semi[w], w)
      /\ \A x \in T.nodes \ ToSet(left) : w \in SuccessorSet(g, x) => IsLow(g, T, l.semi, x, w)
  BY VertexFacts DEF IsScanning
<1>2. /\ T.nodes = Found(g, l) /\ T.num = l.dfnum /\ T.root = r /\ T.par = l.parent
      /\ T.nodes \subseteq NodeIds(g)
  BY DEF TreeOf, Found
<1>3. w \in T.nodes /\ T.num[w] = i /\ w # T.root /\ L = {x \in T.nodes : T.num[w] < T.num[x]}
  BY <1>1, <1>2, VertexFacts DEF Above
<1>4. /\ v \in NodeIds(g) /\ v \in ToSet(left) /\ Tail(left) \in Seq(NodeIds(g))
      /\ ToSet(left) = {v} \cup ToSet(Tail(left))
  BY <1>1, HeadTailElements
<1>5. v \in T.nodes /\ w \in SuccessorSet(g, v)
  BY <1>1, <1>2, <1>4 DEF Found, PredecessorSet
<1>6. l.semi \in [NodeIds(g) -> NodeIds(g)] /\ u \in NodeIds(g) /\ s2 \in NodeIds(g)
  <2>1. l.semi \in [NodeIds(g) -> NodeIds(g)]
    BY DEF IsLt, LtType
  <2>2. u \in NodeIds(g)
    BY DEF IsEvaluated
  <2> QED  BY <1>2, <1>3, <2>1, <2>2
<1>7. /\ c \in LtType(g) /\ c.dfnum = l.dfnum /\ c.vertex = l.vertex /\ c.parent = l.parent
      /\ c.semi = l.semi /\ c.idom = l.idom /\ c.bucket = l.bucket
  BY DEF IsEvaluated
<1>8. /\ l2 \in LtType(g) /\ l2.dfnum = l.dfnum /\ l2.vertex = l.vertex /\ l2.parent = l.parent
      /\ l2.semi = [l.semi EXCEPT ![w] = s2] /\ l2.idom = l.idom /\ l2.bucket = l.bucket
      /\ l2.ancestor = c.ancestor /\ l2.best = c.best
  <2>1. [l.semi EXCEPT ![w] = s2] \in [NodeIds(g) -> NodeIds(g)]
    BY <1>6
  <2> HIDE DEF s2
  <2>2. l2 = [c EXCEPT !.semi = [l.semi EXCEPT ![w] = s2]]
    BY DEF s2, ScannedLt
  <2> DEFINE semi2 == [l.semi EXCEPT ![w] = s2]
  <2> HIDE DEF semi2
  <2> QED  BY ONLY <1>7, <2>1, <2>2 DEF LtType, semi2
<1>9. l2.semi[w] = s2 /\ \A x \in NodeIds(g) \ {w} : l2.semi[x] = l.semi[x]
  BY <1>2, <1>3, <1>6, <1>8
<1>10. /\ IsHigh(g, T, l2.semi[w], w) /\ IsLow(g, T, l2.semi, v, w)
       /\ \A x \in T.nodes : IsLow(g, T, l.semi, x, w) => IsLow(g, T, l2.semi, x, w)
  <2> DEFINE semi == l.semi
             semi2 == l2.semi
  <2>1. \A x \in L : IsSemiOf(g, T, semi, x)
    BY <1>1 DEF IsProcessed
  <2>2. v \notin L /\ v # w => semi[v] = v
    BY <1>1, <1>4
  <2>3. v \notin L => u = v
    BY DEF IsEvaluated
  <2>4. v \in L => \E a : a \notin L /\ IsLinked(T, semi, L, a, u, v)
    BY DEF IsEvaluated
  <2>5. semi2[w] = IF T.num[semi[u]] < T.num[semi[w]] THEN semi[u] ELSE semi[w]
    BY <1>2, <1>9
  <2>6. \A x \in T.nodes \ {w} : semi2[x] = semi[x]
    BY <1>2, <1>9
  <2>7. IsHigh(g, T, semi[w], w)
    BY <1>1
  <2>8. IsDfs(g, T)
    OBVIOUS
  <2>9. w \in T.nodes /\ L = After(T, w)
    BY <1>3 DEF After
  <2> HIDE DEF semi, semi2, L
  <2>10. /\ IsHigh(g, T, semi2[w], w) /\ IsLow(g, T, semi2, v, w)
         /\ \A x \in T.nodes : IsLow(g, T, semi, x, w) => IsLow(g, T, semi2, x, w)
    BY ONLY <1>5, <2>1, <2>2, <2>3, <2>4, <2>5, <2>6, <2>7, <2>8, <2>9, SemiScanned
  <2> QED  BY <2>10 DEF semi, semi2
<1>11. w \notin L
  BY <1>1, <1>3
<1>12. IsProcessed(g, T, l2, L, {})
  <2>1. IsUpper(T, L) /\ L \subseteq T.nodes
    BY <1>1, AboveIsUpper
  <2>2. \A x \in L : l2.semi[x] = l.semi[x] /\ l2.idom[x] = l.idom[x]
    BY <1>2, <1>8, <1>9, <1>11, <2>1
  <2>3. IsForest(T, l.semi, l2.ancestor, l2.best, L)
    BY <1>8 DEF IsEvaluated
  <2>4. IsUnlinked(g, l2, L)
    BY <1>8 DEF IsEvaluated, IsUnlinked
  <2>5. l2.bucket = l.bucket /\ (\A x \in NodeIds(g) \ L : l2.idom[x] = l.idom[x])
        /\ IsProcessed(g, T, l, L, {})
    BY <1>1, <1>8
  <2> HIDE DEF L
  <2> QED  BY ONLY <2>1, <2>2, <2>3, <2>4, <2>5, ProcessedKept
<1>13. /\ IsLt(g, r, l2) /\ TreeOf(g, r, l2) = T /\ Above(g, l2, i) = L
  BY <1>8 DEF IsLt, IsNumbering, TreeOf, Found, Above
<1>14. \A x \in T.nodes \ ToSet(Tail(left)) : w \in SuccessorSet(g, x) => IsLow(g, T, l2.semi, x, w)
  BY <1>1, <1>4, <1>10
<1>15. ToSet(Tail(left)) \subseteq PredecessorSet(g, w)
  BY <1>1, <1>4
<1>16. \A x \in NodeIds(g) \ (L \cup {w}) : l2.semi[x] = x
  BY <1>1, <1>9
<1>17. l2.vertex = l.vertex
  BY <1>8
<1> HIDE DEF L
<1>18. IsScanning(g, T, l2, i, Tail(left))
  BY ONLY w = l.vertex[i], <1>1, <1>4, <1>10, <1>12, <1>13, <1>14, <1>15, <1>16, <1>17 DEF IsScanning
<1> QED  BY <1>13, <1>18

LEMMA AboveGrows ==
  ASSUME NEW g, NEW r, NEW l, IsLt(g, r, l), NEW T, T = TreeOf(g, r, l), IsDfs(g, T),
         NEW i \in 2 .. Len(l.vertex), NEW w, w = l.vertex[i]
  PROVE  /\ w \in T.nodes \ {T.root} /\ T.num[w] = i
         /\ Above(g, l, i) = After(T, w) /\ Above(g, l, i - 1) = Above(g, l, i) \cup {w}
<1>1. T.nodes = Found(g, l) /\ T.num = l.dfnum /\ T.root = r /\ Len(l.vertex) \in Nat
  BY VertexFacts DEF TreeOf
<1>2. w \in T.nodes \ {T.root} /\ T.num[w] = i
  BY <1>1, VertexFacts
<1>3. Above(g, l, i) = After(T, w)
  BY <1>1, <1>2 DEF Above, After
<1>4. \A x \in T.nodes : T.num[x] \in Nat /\ (T.num[x] = i => x = w)
  BY <1>1, VertexFacts
<1>5. \A x \in T.nodes : i - 1 < T.num[x] <=> i < T.num[x] \/ x = w
  BY <1>1, <1>2, <1>4
<1> QED  BY <1>1, <1>2, <1>3, <1>5 DEF Above

LEMMA LinkStep ==
  ASSUME NEW g, NEW r, NEW l, IsLt(g, r, l), NEW T, T = TreeOf(g, r, l), IsDfs(g, T),
         NEW i, IsScanning(g, T, l, i, <<>>), NEW w, w = l.vertex[i], NEW p, p = l.parent[w],
         NEW buckets, buckets = BucketsOf(l, w), NEW l2, l2 = LinkedLt(l, w)
  PROVE  IsLt(g, r, l2) /\ TreeOf(g, r, l2) = T /\ IsEmptying(g, T, l2, i, buckets[p])
<1> DEFINE L == Above(g, l, i)
           M == Above(g, l, i - 1)
           bucket2 == [buckets EXCEPT ![p] = <<>>]
           anc2 == [l.ancestor EXCEPT ![w] = p]
<1>0. /\ buckets = [l.bucket EXCEPT ![l.semi[w]] = Append(@, w)]
      /\ l2 = [l EXCEPT !.bucket = [buckets EXCEPT ![p] = <<>>], !.ancestor = [l.ancestor EXCEPT ![w] = p]]
  BY DEF BucketsOf, LinkedLt
<1>1. /\ i \in 2 .. Len(l.vertex) /\ IsProcessed(g, T, l, L, {})
      /\ (\A x \in NodeIds(g) \ (L \cup {w}) : l.semi[x] = x) /\ IsHigh(g, T, l.semi[w], w)
      /\ \A x \in T.nodes \ ToSet(<<>>) : w \in SuccessorSet(g, x) => IsLow(g, T, l.semi, x, w)
  BY DEF IsScanning
<1>2. /\ T.nodes = Found(g, l) /\ T.num = l.dfnum /\ T.root = r /\ T.par = l.parent
      /\ T.nodes \subseteq NodeIds(g)
  BY DEF TreeOf, Found
<1>3. /\ w \in T.nodes \ {T.root} /\ T.num[w] = i /\ L = After(T, w) /\ M = L \cup {w}
  BY <1>1, AboveGrows
<1>4. IsSemiOf(g, T, l.semi, w)
  <2>1. ToSet(<<>>) = {}
    BY DEF ToSet
  <2> QED  BY <1>1, <2>1 DEF IsSemiOf
<1>5. /\ l \in LtType(g) /\ l.bucket \in [NodeIds(g) -> Seq(NodeIds(g))]
      /\ l.ancestor \in [NodeIds(g) -> NodeIds(g) \cup {Nil}]
  BY DEF IsLt, LtType
<1>6. p \in T.nodes /\ p \in NodeIds(g) /\ p = T.par[w] /\ w \in NodeIds(g)
  BY <1>2, <1>3 DEF IsDfs, IsTree
<1>7. anc2 \in [NodeIds(g) -> NodeIds(g) \cup {Nil}]
  BY <1>5, <1>6
<1>8. l2.ancestor = anc2 /\ l2.bucket = bucket2 /\ l2.semi = l.semi /\ l2.best = l.best
      /\ l2.idom = l.idom /\ l2.dfnum = l.dfnum /\ l2.vertex = l.vertex /\ l2.parent = l.parent
  <2> HIDE DEF anc2, bucket2
  <2>1. l2 = [l EXCEPT !.bucket = bucket2, !.ancestor = anc2]
    BY <1>0 DEF anc2, bucket2
  <2> QED  BY ONLY <1>5, <2>1 DEF LtType
<1>9. /\ IsProcessed(g, T, l2, M, ToSet(buckets[p]))
      /\ buckets \in [NodeIds(g) -> Seq(NodeIds(g))]
      /\ \A v \in ToSet(buckets[p]) : v \in M /\ l.semi[v] = p /\ Anc(T, w, v)
  <2>1. IsDfs(g, T) /\ IsLt(g, r, l) /\ IsProcessed(g, T, l, L, {})
    BY <1>1
  <2>2. IsLink(T, l, w, buckets, l2)
    BY <1>0, <1>6, <1>8 DEF IsLink
  <2> HIDE DEF L, M
  <2>3. /\ IsProcessed(g, T, l2, M, ToSet(buckets[p]))
        /\ buckets \in [NodeIds(g) -> Seq(NodeIds(g))]
        /\ \A v \in ToSet(buckets[p]) : v \in M /\ l.semi[v] = p /\ Anc(T, w, v)
    BY ONLY <1>3, <1>4, <1>6, <2>1, <2>2, ProcessedGrows
  <2> QED  BY ONLY <2>3
<1>10. l2 \in LtType(g)
  <2>1. bucket2 \in [NodeIds(g) -> Seq(NodeIds(g))]
    <3>1. <<>> \in Seq(NodeIds(g))
      OBVIOUS
    <3> QED  BY ONLY <1>6, <1>9, <3>1
  <2> HIDE DEF anc2, bucket2
  <2>2. l2 = [l EXCEPT !.bucket = bucket2, !.ancestor = anc2]
    BY <1>0 DEF anc2, bucket2
  <2> QED  BY ONLY <1>5, <1>7, <2>1, <2>2 DEF LtType
<1>11. IsLt(g, r, l2) /\ TreeOf(g, r, l2) = T /\ Above(g, l2, i - 1) = M
  BY <1>8, <1>10 DEF IsLt, IsNumbering, TreeOf, Found, Above
<1>12. buckets[p] \in Seq(NodeIds(g))
  BY ONLY <1>6, <1>9
<1>13. \A v \in NodeIds(g) \ M : l2.semi[v] = v
  BY <1>1, <1>3, <1>8
<1>14. \A v \in ToSet(buckets[p]) : v \in M /\ l2.semi[v] = T.par[w] /\ Anc(T, w, v)
  BY ONLY <1>6, <1>8, <1>9
<1>15. l2.vertex[i] = w /\ Len(l2.vertex) = Len(l.vertex)
  BY <1>8
<1> HIDE DEF M
<1>16. IsEmptying(g, T, l2, i, buckets[p])
  BY ONLY <1>1, <1>9, <1>11, <1>12, <1>13, <1>14, <1>15 DEF IsEmptying
<1> QED  BY <1>11, <1>16

LEMMA EmptyStep ==
  ASSUME NEW g, NEW r, NEW l, IsLt(g, r, l), NEW T, T = TreeOf(g, r, l), IsDfs(g, T),
         NEW i, NEW left, IsEmptying(g, T, l, i, left), left # <<>>,
         NEW v, v = Head(left), NEW w, w = l.vertex[i],
         NEW u, NEW c, IsEvaluated(g, T, l, Above(g, l, i - 1), v, u, c),
         NEW l2, l2 = EmptiedLt(l, c, u, v, w)
  PROVE  IsLt(g, r, l2) /\ TreeOf(g, r, l2) = T /\ IsEmptying(g, T, l2, i, Tail(left))
<1> DEFINE M == Above(g, l, i - 1)
           d == IF l.semi[u] = l.semi[v] THEN l.parent[w] ELSE u
           idom2 == [l.idom EXCEPT ![v] = d]
<1> l2 = [c EXCEPT !.idom = idom2]
  BY DEF EmptiedLt
<1>1. /\ i \in 2 .. Len(l.vertex) /\ left \in Seq(NodeIds(g)) /\ Len(l.vertex) \in Nat
      /\ IsProcessed(g, T, l, M, ToSet(left))
      /\ (\A x \in NodeIds(g) \ M : l.semi[x] = x)
      /\ \A x \in ToSet(left) : x \in M /\ l.semi[x] = T.par[w] /\ Anc(T, w, x)
  BY VertexFacts DEF IsEmptying
<1>2. /\ T.nodes = Found(g, l) /\ T.num = l.dfnum /\ T.root = r /\ T.par = l.parent
      /\ T.nodes \subseteq NodeIds(g)
  BY DEF TreeOf, Found
<1>3. /\ w \in T.nodes \ {T.root} /\ T.num[w] = i /\ M = After(T, w) \cup {w}
  BY <1>1, AboveGrows
<1>4. /\ v \in NodeIds(g) /\ v \in ToSet(left) /\ Tail(left) \in Seq(NodeIds(g))
      /\ ToSet(left) = {v} \cup ToSet(Tail(left))
  BY <1>1, HeadTailElements
<1>5. v \in M /\ l.semi[v] = T.par[w] /\ Anc(T, w, v)
  BY <1>1, <1>4
<1>6. IsUpper(T, M) /\ M \subseteq T.nodes
  BY <1>1, AboveIsUpper
<1>7. /\ c \in LtType(g) /\ c.dfnum = l.dfnum /\ c.vertex = l.vertex /\ c.parent = l.parent
      /\ c.semi = l.semi /\ c.idom = l.idom /\ c.bucket = l.bucket /\ u \in NodeIds(g)
  BY DEF IsEvaluated
<1>8. l.idom \in [NodeIds(g) -> NodeIds(g) \cup {Nil}] /\ d \in NodeIds(g)
  <2>1. T.par[w] \in T.nodes
    BY <1>3 DEF IsDfs, IsTree
  <2> QED  BY <1>2, <1>7, <2>1 DEF IsLt, LtType
<1>9. idom2 \in [NodeIds(g) -> NodeIds(g) \cup {Nil}]
  BY <1>8
<1>10. /\ l2 \in LtType(g) /\ l2.dfnum = l.dfnum /\ l2.vertex = l.vertex /\ l2.parent = l.parent
       /\ l2.semi = l.semi /\ l2.idom = idom2 /\ l2.bucket = l.bucket
       /\ l2.ancestor = c.ancestor /\ l2.best = c.best
  <2> HIDE DEF idom2
  <2>1. l2 = [c EXCEPT !.idom = idom2]
    BY DEF idom2
  <2> QED  BY ONLY <1>7, <1>9, <2>1 DEF LtType
<1>11. l2.idom[v] = d /\ \A x \in NodeIds(g) \ {v} : l2.idom[x] = l.idom[x]
  BY <1>4, <1>8, <1>10
<1>12. IsImplicit(T, l2, M, v)
  <2>1. PICK a : a \notin M /\ IsLinked(T, l.semi, M, a, u, v)
    BY <1>5 DEF IsEvaluated
  <2>2. M = {x \in T.nodes : T.num[w] <= T.num[x]}
    <3>1. \A x, y \in T.nodes : T.num[x] \in Nat /\ (T.num[x] = T.num[y] => x = y)
      BY DEF IsDfs, IsTree
    <3> QED  BY <1>3, <3>1 DEF After
  <2> HIDE DEF M
  <2>3. a = T.par[w]
    BY <1>3, <1>5, <2>1, <2>2, LinkedToParent
  <2>4. IsLinked(T, l2.semi, M, l2.semi[v], u, v)
    BY <1>5, <1>10, <2>1, <2>3
  <2>5. l2.idom[v] = IF l2.semi[u] = l2.semi[v] THEN l2.semi[v] ELSE u
    BY <1>2, <1>5, <1>10, <1>11
  <2> QED  BY <2>4, <2>5 DEF IsImplicit
<1>13. IsProcessed(g, T, l2, M, ToSet(Tail(left)))
  <2>1. IsForest(T, l.semi, l2.ancestor, l2.best, M) /\ IsUnlinked(g, l2, M)
    BY <1>10 DEF IsEvaluated, IsUnlinked
  <2>2. l2.bucket = l.bucket /\ (\A x \in M : l2.semi[x] = l.semi[x])
    BY <1>10
  <2>3. \A x \in M : l2.idom[x] = l.idom[x] \/ IsImplicit(T, l2, M, x)
    BY <1>2, <1>6, <1>11, <1>12
  <2>4. \A x \in NodeIds(g) \ M : l2.idom[x] = l.idom[x]
    BY <1>5, <1>11
  <2>5. \A x \in M : x \in ToSet(left) => x \in ToSet(Tail(left)) \/ IsImplicit(T, l2, M, x)
    BY <1>4, <1>12
  <2>6. IsProcessed(g, T, l, M, ToSet(left))
    BY <1>1
  <2> HIDE DEF M
  <2> QED  BY ONLY <1>6, <2>1, <2>2, <2>3, <2>4, <2>5, <2>6, ProcessedKept
<1>14. IsLt(g, r, l2) /\ TreeOf(g, r, l2) = T /\ Above(g, l2, i - 1) = M
  BY <1>10 DEF IsLt, IsNumbering, TreeOf, Found, Above
<1>15. \A x \in NodeIds(g) \ M : l2.semi[x] = x
  BY <1>1, <1>10
<1>16. \A x \in ToSet(Tail(left)) : x \in M /\ l2.semi[x] = T.par[w] /\ Anc(T, w, x)
  BY <1>1, <1>4, <1>10
<1>17. l2.vertex[i] = w /\ Len(l2.vertex) = Len(l.vertex)
  BY <1>10
<1> HIDE DEF M
<1>18. IsEmptying(g, T, l2, i, Tail(left))
  BY ONLY <1>1, <1>4, <1>13, <1>14, <1>15, <1>16, <1>17 DEF IsEmptying
<1> QED  BY <1>14, <1>18

LEMMA ResolveStep ==
  ASSUME NEW g, NEW r, NEW l, IsLt(g, r, l), NEW T, T = TreeOf(g, r, l), IsDfs(g, T),
         NEW i, IsResolving(g, T, l, i), i < Len(l.vertex), NEW w, w = l.vertex[i + 1],
         NEW l2, l2 = IF l.idom[w] = l.semi[w] THEN l
                      ELSE [l EXCEPT !.idom = [l.idom EXCEPT ![w] = l.idom[l.idom[w]]]]
  PROVE  IsLt(g, r, l2) /\ TreeOf(g, r, l2) = T /\ IsResolving(g, T, l2, i + 1)
<1> DEFINE D == T.nodes \ {T.root}
           d == IF l.idom[w] = l.semi[w] THEN l.idom[w] ELSE l.idom[l.idom[w]]
           idom2 == [l.idom EXCEPT ![w] = d]
           semi == l.semi
<1>0. /\ T.nodes = Found(g, l) /\ T.num = l.dfnum /\ T.root = r /\ T.par = l.parent
      /\ T.nodes \subseteq NodeIds(g) /\ Len(l.vertex) \in Nat
  BY VertexFacts DEF TreeOf, Found
<1>1. /\ i \in 1 .. Len(l.vertex) /\ IsSemi(g, T, semi)
      /\ (\A x \in D : l.dfnum[x] <= i => IsIdom(g, T, semi, l.idom[x], x))
      /\ (\A x \in D : l.dfnum[x] > i => IsImplicit(T, l, D, x))
      /\ \A v \in NodeIds(g) : v \notin T.nodes \/ v = T.root => l.idom[v] = Nil
  BY DEF IsResolving
<1>2. w \in D /\ l.dfnum[w] = i + 1 /\ i + 1 \in 2 .. Len(l.vertex)
  BY <1>0, <1>1, VertexFacts
<1>3. \A x \in D : semi[x] \in T.nodes
  BY <1>1 DEF IsSemi, IsSemiOf, IsHigh
<1>4. \A x \in T.nodes : T.num[x] \in Nat
  BY DEF IsDfs, IsTree
<1>5. PICK u : /\ IsLinked(T, semi, D, semi[w], u, w)
               /\ l.idom[w] = IF semi[u] = semi[w] THEN semi[w] ELSE u
  <2>1. l.dfnum[w] > i
    BY <1>1, <1>2
  <2> HIDE DEF D
  <2>2. IsImplicit(T, l, D, w)
    BY ONLY <1>1, <1>2, <2>1
  <2> QED  BY ONLY <2>2 DEF IsImplicit
<1>6. /\ IsLeastBetween(T, semi, u, w) /\ u \in D /\ Anc(T, u, w) /\ u # semi[w]
      /\ w \in Between(T, semi[w], w)
  <2>1. IsLeast(T, semi, semi[w], u, w) /\ Between(T, semi[w], w) \subseteq D /\ semi[w] # w
        /\ Anc(T, semi[w], w)
    BY <1>5 DEF IsLinked
  <2>2. u \in Between(T, semi[w], w)
    BY <2>1 DEF IsLeast
  <2>3. Anc(T, w, w)
    BY AncBasics
  <2>4. w \in Between(T, semi[w], w)
    BY <1>2, <2>1, <2>3 DEF Between
  <2>5. Anc(T, u, w) /\ u # semi[w]
    BY <2>2 DEF Between
  <2> QED  BY <2>1, <2>2, <2>4, <2>5 DEF IsLeastBetween
<1>7. T.num[semi[u]] <= T.num[semi[w]] /\ semi[u] \in T.nodes /\ semi[w] \in T.nodes
  BY <1>2, <1>3, <1>6 DEF IsLeastBetween, IsLeast
<1>8. IsIdom(g, T, semi, d, w)
  <2>1. CASE l.idom[w] = semi[w]
    <3>1. semi[u] = semi[w]
      BY <1>5, <1>6, <2>1
    <3>2. T.num[semi[u]] >= T.num[semi[w]]
      BY <1>4, <1>7, <3>1
    <3> HIDE DEF semi, d
    <3>3. IsIdom(g, T, semi, semi[w], w)
      BY <1>1, <1>2, <1>6, <3>2, IdomIsSemi
    <3> QED  BY <2>1, <3>3 DEF d, semi
  <2>2. CASE l.idom[w] # semi[w]
    <3>1. semi[u] # semi[w] /\ l.idom[w] = u /\ u # w
      BY <1>5, <2>2
    <3>2. T.num[semi[u]] < T.num[semi[w]]
      <4>1. T.num[semi[u]] # T.num[semi[w]]
        BY <1>7, <3>1 DEF IsDfs, IsTree
      <4> QED  BY <1>4, <1>7, <4>1
    <3>3. l.dfnum[u] <= i
      <4>1. T.num[u] <= T.num[w] /\ (T.num[u] = T.num[w] => u = w)
        BY <1>2, <1>6, AncNumbers DEF IsDfs
      <4> QED  BY <1>0, <1>1, <1>2, <1>4, <1>6, <3>1, <4>1
    <3>4. IsIdom(g, T, semi, l.idom[u], u)
      BY <1>1, <1>6, <3>3
    <3> HIDE DEF semi, d
    <3>5. IsIdom(g, T, semi, l.idom[u], w)
      BY <1>1, <1>2, <1>6, <3>2, <3>4, IdomIsInherited
    <3> QED  BY <2>2, <3>1, <3>5 DEF d, semi
  <2> QED  BY <2>1, <2>2
<1>9. d \in NodeIds(g)
  BY <1>0, <1>8 DEF IsIdom
<1>10. /\ l \in LtType(g) /\ l.idom \in [NodeIds(g) -> NodeIds(g) \cup {Nil}]
       /\ w \in NodeIds(g)
  BY <1>0, <1>2 DEF IsLt, LtType
<1>11. idom2 \in [NodeIds(g) -> NodeIds(g) \cup {Nil}]
       /\ idom2[w] = d /\ \A x \in NodeIds(g) \ {w} : idom2[x] = l.idom[x]
  BY <1>9, <1>10
<1>12. /\ l2 \in LtType(g) /\ l2.dfnum = l.dfnum /\ l2.vertex = l.vertex /\ l2.parent = l.parent
       /\ l2.semi = l.semi /\ l2.idom = idom2
  <2>1. CASE l.idom[w] = l.semi[w]
    <3>1. l2 = l /\ idom2 = l.idom
      BY <1>10, <2>1
    <3> QED  BY <1>10, <3>1
  <2>2. CASE l.idom[w] # l.semi[w]
    <3>1. l2 = [l EXCEPT !.idom = idom2]
      BY <2>2
    <3> HIDE DEF idom2
    <3> QED  BY ONLY <1>10, <1>11, <3>1 DEF LtType
  <2> QED  BY <2>1, <2>2
<1>13. IsLt(g, r, l2) /\ TreeOf(g, r, l2) = T
  BY <1>12 DEF IsLt, IsNumbering, TreeOf, Found
<1>14. ASSUME NEW x \in D PROVE l2.dfnum[x] <= i + 1 => IsIdom(g, T, l2.semi, l2.idom[x], x)
  <2>1. CASE x = w
    BY <1>8, <1>11, <1>12, <2>1
  <2>2. CASE x # w
    <3>1. l2.idom[x] = l.idom[x]
      BY <1>0, <1>11, <1>12, <2>2
    <3>2. l.dfnum[x] \in Nat /\ l.dfnum[x] # i + 1
      BY <1>0, <1>2, <1>4, <2>2 DEF IsDfs, IsTree
    <3> QED  BY <1>1, <1>12, <3>1, <3>2
  <2> QED  BY <2>1, <2>2
<1>15. ASSUME NEW x \in D PROVE l2.dfnum[x] > i + 1 => IsImplicit(T, l2, D, x)
  <2> SUFFICES ASSUME l2.dfnum[x] > i + 1 PROVE IsImplicit(T, l2, D, x)
    OBVIOUS
  <2>1. l.dfnum[x] > i /\ x # w
    BY <1>0, <1>1, <1>2, <1>4, <1>12
  <2>2. IsImplicit(T, l, D, x) /\ l2.idom[x] = l.idom[x]
    BY <1>0, <1>1, <1>11, <1>12, <2>1
  <2> QED  BY ONLY <1>12, <2>2 DEF IsImplicit
<1>16. \A v \in NodeIds(g) : v \notin T.nodes \/ v = T.root => l2.idom[v] = Nil
  BY <1>1, <1>2, <1>11, <1>12
<1>17. IsSemi(g, T, l2.semi) /\ i + 1 \in 1 .. Len(l2.vertex)
  BY <1>0, <1>1, <1>2, <1>12
<1>18. IsResolving(g, T, l2, i + 1)
  BY ONLY <1>14, <1>15, <1>16, <1>17 DEF IsResolving
<1> QED  BY <1>13, <1>18

LEMMA ResolvedStep ==
  ASSUME NEW g, NEW r, NEW l, IsLt(g, r, l), NEW T, T = TreeOf(g, r, l), IsDfs(g, T),
         IsResolving(g, T, l, Len(l.vertex)),
         NEW l2, l2 = [l EXCEPT !.idom = [l.idom EXCEPT ![r] = r]]
  PROVE  IsLt(g, r, l2) /\ TreeOf(g, r, l2) = T /\ IsResolved(g, T, l2)
<1> DEFINE D == T.nodes \ {T.root}
           idom2 == [l.idom EXCEPT ![r] = r]
<1>0. /\ T.nodes = Found(g, l) /\ T.num = l.dfnum /\ T.root = r /\ T.par = l.parent
      /\ T.nodes \subseteq NodeIds(g) /\ Len(l.vertex) \in Nat /\ r \in T.nodes
  BY VertexFacts DEF TreeOf, Found
<1>1. /\ l \in LtType(g) /\ l.idom \in [NodeIds(g) -> NodeIds(g) \cup {Nil}]
  BY DEF IsLt, LtType
<1>2. /\ idom2 \in [NodeIds(g) -> NodeIds(g) \cup {Nil}]
      /\ idom2[r] = r /\ \A x \in NodeIds(g) \ {r} : idom2[x] = l.idom[x]
  BY <1>0, <1>1
<1>3. /\ l2 \in LtType(g) /\ l2.dfnum = l.dfnum /\ l2.vertex = l.vertex /\ l2.parent = l.parent
      /\ l2.semi = l.semi /\ l2.idom = idom2
  <2>1. l2 = [l EXCEPT !.idom = idom2]
    OBVIOUS
  <2> HIDE DEF idom2
  <2> QED  BY ONLY <1>1, <1>2, <2>1 DEF LtType
<1>4. IsLt(g, r, l2) /\ TreeOf(g, r, l2) = T
  BY <1>3 DEF IsLt, IsNumbering, TreeOf, Found
<1>5. ASSUME NEW x \in D PROVE IsIdom(g, T, l2.semi, l2.idom[x], x)
  <2>1. l2.idom[x] = l.idom[x]
    BY <1>0, <1>2, <1>3
  <2>2. l.dfnum[x] <= Len(l.vertex)
    BY <1>0, VertexFacts
  <2> QED  BY <1>3, <2>1, <2>2 DEF IsResolving
<1>6. l2.idom[T.root] = T.root /\ \A v \in NodeIds(g) \ T.nodes : l2.idom[v] = Nil
  BY <1>0, <1>2, <1>3 DEF IsResolving
<1>7. IsSemi(g, T, l2.semi)
  BY <1>3 DEF IsResolving
<1>8. IsResolved(g, T, l2)
  BY <1>5, <1>6, <1>7 DEF IsResolved
<1> QED  BY <1>4, <1>8

-----------------------------------------------------------------------------
(* compute_dfs_intervals, on a tree D of which kids[v] lists the children of v.
   A node that was entered and not left is on the stack, and an ancestor of all
   that are above it there; the intervals of two nodes are nested when one is an
   ancestor of the other, and else the earlier one is closed before the later
   one opens. *)
Entered(enter, v) == enter[v] # Nil
Left(leave, v) == leave[v] # Nil

IsTiming(D, enter, leave, clock) ==
    /\ clock \in Nat
    /\ \A v \in D.nodes : enter[v] \in Nat \cup {Nil} /\ leave[v] \in Nat \cup {Nil}
    /\ \A v \in D.nodes : Entered(enter, v) => enter[v] < clock
    /\ \A v \in D.nodes : Left(leave, v) => Entered(enter, v) /\ enter[v] < leave[v] /\ leave[v] < clock
    /\ Entered(enter, D.root)
    /\ \A v \in D.nodes \ {D.root} : Entered(enter, v) => Entered(enter, D.par[v])
    /\ \A v \in D.nodes \ {D.root} : Left(leave, D.par[v]) => Entered(enter, v)
    /\ \A a, b \in D.nodes : Entered(enter, a) /\ Entered(enter, b) /\ Anc(D, a, b) =>
          enter[a] <= enter[b] /\ (Left(leave, a) => Left(leave, b) /\ leave[b] <= leave[a])
    /\ \A a, b \in D.nodes : Entered(enter, a) /\ Entered(enter, b) /\ ~Anc(D, a, b) /\ enter[a] <= enter[b] =>
          Left(leave, a) /\ leave[a] < enter[b]

Entries(X) == X \X (Nat \ {0})

IsStacked(D, kids, s, enter, leave) ==
    /\ s \in Seq(Entries(D.nodes))
    /\ \A i \in 1 .. Len(s) : Entered(enter, s[i][1]) /\ ~Left(leave, s[i][1])
    /\ \A v \in D.nodes : Entered(enter, v) /\ ~Left(leave, v) => \E i \in 1 .. Len(s) : s[i][1] = v
    /\ \A i, j \in 1 .. Len(s) : i <= j => Anc(D, s[i][1], s[j][1])
    /\ \A i, j \in 1 .. Len(s) : i < j => s[i][1] # s[j][1]
    /\ \A i \in 1 .. Len(s) : \A j \in 1 .. Len(kids[s[i][1]]) :
          j < s[i][2] => Entered(enter, kids[s[i][1]][j])

ListsChildren(D, kids) ==
    /\ kids \in [D.nodes -> Seq(D.nodes)]
    /\ \A v \in D.nodes : ToSet(kids[v]) = {w \in D.nodes \ {D.root} : D.par[w] = v}

LEMMA TimingBegins ==
  ASSUME NEW D, IsTree(D), NEW kids, NEW enter, NEW leave, enter[D.root] = 0,
         \A v \in D.nodes \ {D.root} : enter[v] = Nil, \A v \in D.nodes : leave[v] = Nil,
         NEW s, s = <<<<D.root, 1>>>>
  PROVE  IsTiming(D, enter, leave, 1) /\ IsStacked(D, kids, s, enter, leave)
<1>1. D.root \in D.nodes
  BY DEF IsTree
<1>2. \A v \in D.nodes : Entered(enter, v) <=> v = D.root
  BY <1>1 DEF Entered, Nil
<1>3. \A v \in D.nodes : ~Left(leave, v)
  BY DEF Left
<1>4. \A v \in D.nodes \ {D.root} : D.par[v] \in D.nodes
  BY DEF IsTree
<1>5. Anc(D, D.root, D.root)
  BY AncBasics
<1>6. IsTiming(D, enter, leave, 1)
  BY <1>1, <1>2, <1>3, <1>4, <1>5 DEF IsTiming
<1>7. /\ s \in Seq(Entries(D.nodes)) /\ Len(s) = 1 /\ s[1][1] = D.root /\ s[1][2] = 1
  <2>1. <<D.root, 1>> \in Entries(D.nodes)
    BY <1>1 DEF Entries
  <2> QED  BY <2>1
<1>8. IsStacked(D, kids, s, enter, leave)
  <2> SUFFICES ASSUME NEW i \in 1 .. Len(s), NEW j \in 1 .. Len(s)
               PROVE  i = 1 /\ j = 1
    BY <1>1, <1>2, <1>3, <1>5, <1>7 DEF IsStacked
  <2> QED  BY <1>7
<1> QED  BY <1>6, <1>8

(* The top of the stack, and what the loop makes of it. *)
LEMMA TopEntry ==
  ASSUME NEW X, NEW s \in Seq(Entries(X)), s # <<>>
  PROVE  /\ Len(s) \in Nat \ {0} /\ Last(s) = s[Len(s)] /\ Last(s)[1] \in X
         /\ Last(s)[2] \in Nat \ {0}
<1> DEFINE P == Entries(X)
<1>1. Len(s) \in Nat \ {0} /\ Last(s) = s[Len(s)] /\ Last(s) \in P
  <2>1. <<>> \in Seq(P)
    OBVIOUS
  <2> HIDE DEF P
  <2> QED  BY <2>1, FrontConcat DEF P
<1> QED  BY <1>1 DEF Entries

Advanced(s) == Append(Front(s), <<Last(s)[1], Last(s)[2] + 1>>)

LEMMA UnderFacts ==
  ASSUME NEW X, NEW s \in Seq(Entries(X)), s # <<>>,
         NEW under, under = Advanced(s)
  PROVE  /\ Front(s) \in Seq(Entries(X)) /\ Len(Front(s)) = Len(s) - 1
         /\ \A i \in 1 .. Len(s) - 1 : Front(s)[i] = s[i]
         /\ under \in Seq(Entries(X)) /\ Len(under) = Len(s)
         /\ \A i \in 1 .. Len(s) : under[i][1] = s[i][1]
         /\ \A i \in 1 .. Len(s) - 1 : under[i] = s[i]
         /\ under[Len(s)][2] = Last(s)[2] + 1
<1> DEFINE P == Entries(X)
           n == Len(s)
           top == <<Last(s)[1], Last(s)[2] + 1>>
<1>1. /\ n \in Nat \ {0} /\ Last(s) = s[n] /\ Last(s) \in P
      /\ Front(s) \in Seq(P) /\ Len(Front(s)) = n - 1 /\ \A i \in 1 .. n - 1 : Front(s)[i] = s[i]
  <2>1. <<>> \in Seq(P)
    OBVIOUS
  <2> HIDE DEF P
  <2> QED  BY <2>1, FrontConcat DEF P
<1>2. top \in P /\ top[1] = Last(s)[1] /\ top[2] = Last(s)[2] + 1
  BY <1>1 DEF Entries
<1>3. under \in Seq(P) /\ Len(under) = n /\ under[n] = top
      /\ \A i \in 1 .. n - 1 : under[i] = s[i]
  <2> HIDE DEF P, top
  <2>1. under = Append(Front(s), top)
    BY DEF top, Advanced
  <2> QED  BY ONLY <1>1, <1>2, <2>1
<1>4. ASSUME NEW i \in 1 .. n PROVE under[i][1] = s[i][1]
  <2> HIDE DEF top
  <2>1. under[n][1] = s[n][1]
    BY <1>1, <1>2, <1>3
  <2>2. i # n => i \in 1 .. n - 1
    BY <1>1
  <2>3. i # n => under[i] = s[i]
    BY ONLY <1>3, <2>2
  <2> QED  BY <2>1, <2>3
<1> HIDE DEF top
<1>5. under[n][2] = Last(s)[2] + 1
  BY <1>2, <1>3
<1> QED  BY ONLY <1>1, <1>3, <1>4, <1>5

LEMMA OverFacts ==
  ASSUME NEW X, NEW s \in Seq(Entries(X)), NEW c \in X, NEW over, over = Append(s, <<c, 1>>)
  PROVE  /\ over \in Seq(Entries(X)) /\ Len(over) = Len(s) + 1
         /\ \A i \in 1 .. Len(s) : over[i] = s[i]
         /\ over[Len(s) + 1][1] = c /\ over[Len(s) + 1][2] = 1
<1> DEFINE P == Entries(X)
           e == <<c, 1>>
<1>1. e \in P /\ e[1] = c /\ e[2] = 1
  BY DEF Entries
<1>2. over = Append(s, e) /\ s \in Seq(P)
  OBVIOUS
<1> HIDE DEF P, e
<1>3. over \in Seq(P) /\ Len(over) = Len(s) + 1 /\ over[Len(s) + 1] = e
      /\ \A i \in 1 .. Len(s) : over[i] = s[i]
  BY ONLY <1>1, <1>2
<1> QED  BY <1>1, <1>3 DEF P

(* The top of the stack is open, and every open node is an ancestor of it. *)
LEMMA TopIsOpen ==
  ASSUME NEW D, NEW kids, NEW s, NEW enter, NEW leave, IsStacked(D, kids, s, enter, leave), s # <<>>,
         NEW v, v = Last(s)[1]
  PROVE  /\ v \in D.nodes /\ Entered(enter, v) /\ ~Left(leave, v)
         /\ \A x \in D.nodes : Entered(enter, x) /\ ~Left(leave, x) => Anc(D, x, v)
<1>1. s \in Seq(Entries(D.nodes))
  BY DEF IsStacked
<1>2. Len(s) \in Nat \ {0} /\ v = s[Len(s)][1] /\ v \in D.nodes
  BY <1>1, TopEntry
<1>3. Len(s) \in 1 .. Len(s) /\ \A i \in 1 .. Len(s) : i <= Len(s)
  BY <1>2
<1>4. Entered(enter, v) /\ ~Left(leave, v)
  BY <1>2, <1>3 DEF IsStacked
<1>5. ASSUME NEW x \in D.nodes, Entered(enter, x), ~Left(leave, x) PROVE Anc(D, x, v)
  <2>1. PICK i \in 1 .. Len(s) : s[i][1] = x
    BY <1>5 DEF IsStacked
  <2>2. Anc(D, s[i][1], s[Len(s)][1])
    BY <1>3, <2>1 DEF IsStacked
  <2> QED  BY <1>2, <2>1, <2>2
<1> QED  BY <1>2, <1>4, <1>5

LEMMA TimingEnters ==
  ASSUME NEW D, IsTree(D), NEW enter, NEW leave, NEW clock, IsTiming(D, enter, leave, clock),
         NEW v \in D.nodes, Entered(enter, v), ~Left(leave, v),
         \A x \in D.nodes : Entered(enter, x) /\ ~Left(leave, x) => Anc(D, x, v),
         NEW c \in D.nodes \ {D.root}, D.par[c] = v, ~Entered(enter, c),
         NEW enter2, enter2[c] = clock, \A x \in D.nodes \ {c} : enter2[x] = enter[x]
  PROVE  IsTiming(D, enter2, leave, clock + 1)
<1>1. clock \in Nat /\ Entered(enter2, c) /\ ~Left(leave, c)
  BY DEF IsTiming, Entered, Left, Nil
<1>2. \A x \in D.nodes \ {c} : Entered(enter2, x) <=> Entered(enter, x)
  BY DEF Entered
<1>3. D.root \in D.nodes /\ c # D.root
  BY DEF IsTree
<1>4. \A v1 \in D.nodes : enter2[v1] \in Nat \cup {Nil} /\ leave[v1] \in Nat \cup {Nil}
  BY <1>1 DEF IsTiming
<1>5. \A v1 \in D.nodes : Entered(enter2, v1) => enter2[v1] \in Nat /\ enter2[v1] < clock + 1
  <2>1. \A v1 \in D.nodes : Entered(enter, v1) => enter[v1] \in Nat /\ enter[v1] < clock
    BY DEF IsTiming, Entered
  <2> QED  BY <1>1, <1>2, <2>1
<1>6. \A v1 \in D.nodes : Left(leave, v1) => Entered(enter2, v1) /\ enter2[v1] < leave[v1] /\ leave[v1] < clock + 1
  <2>1. \A v1 \in D.nodes : Left(leave, v1) => Entered(enter, v1) /\ enter[v1] < leave[v1]
                                               /\ leave[v1] \in Nat /\ leave[v1] < clock
    BY DEF IsTiming, Left
  <2> QED  BY <1>1, <1>2, <2>1
<1>7. \A x \in D.nodes \ {D.root} : D.par[x] \in D.nodes
  BY DEF IsTree
<1>8. \A x \in D.nodes \ {D.root} : Entered(enter2, x) => Entered(enter2, D.par[x])
  BY <1>1, <1>2, <1>7 DEF IsTiming
<1>9. \A x \in D.nodes \ {D.root} : Left(leave, D.par[x]) => Entered(enter2, x)
  BY <1>1, <1>2 DEF IsTiming
(* c has no descendant that was entered: with a node its parent was entered. *)
<1>10. ASSUME NEW b \in D.nodes, Entered(enter, b), Anc(D, c, b) PROVE FALSE
  <2> DEFINE S == {x \in D.nodes : Entered(enter, x)}
  <2>1. Up(D, S) /\ b \in S
    BY <1>7, <1>10 DEF Up, IsTiming
  <2> HIDE DEF S
  <2>2. c \in S
    BY <1>10, <2>1 DEF Anc
  <2> QED  BY <2>2 DEF S
<1>11. \A a \in D.nodes : Anc(D, a, c) /\ a # c => Anc(D, a, v)
  BY AncBasics
<1>12. \A a \in D.nodes : Anc(D, a, v) => Anc(D, a, c)
  <2>1. Anc(D, v, c)
    BY AncBasics
  <2> QED  BY <2>1, AncBasics
<1>13. ASSUME NEW a \in D.nodes, NEW b \in D.nodes, Entered(enter2, a), Entered(enter2, b), Anc(D, a, b)
       PROVE  enter2[a] <= enter2[b] /\ (Left(leave, a) => Left(leave, b) /\ leave[b] <= leave[a])
  <2>1. CASE a # c /\ b # c
    BY <1>2, <1>13, <2>1 DEF IsTiming
  <2>2. CASE a = c /\ b # c
    BY <1>2, <1>10, <1>13, <2>2
  <2>3. CASE a = c /\ b = c
    BY <1>1, <2>3
  <2>4. CASE a # c /\ b = c
    <3>1. Anc(D, a, v) /\ Entered(enter, a)
      BY <1>2, <1>11, <1>13, <2>4
    <3>2. ~Left(leave, a)
      BY <3>1 DEF IsTiming
    <3>3. enter2[a] = enter[a] /\ enter[a] \in Nat /\ enter[a] < clock /\ enter2[b] = clock
      BY <2>4, <3>1 DEF IsTiming, Entered
    <3> QED  BY <1>1, <3>2, <3>3
  <2> QED  BY <2>1, <2>2, <2>3, <2>4
<1>14. ASSUME NEW a \in D.nodes, NEW b \in D.nodes, Entered(enter2, a), Entered(enter2, b),
              ~Anc(D, a, b), enter2[a] <= enter2[b]
       PROVE  Left(leave, a) /\ leave[a] < enter2[b]
  <2>1. CASE a # c /\ b # c
    BY <1>2, <1>14, <2>1 DEF IsTiming
  <2>2. CASE a = c /\ b # c
    <3>1. enter2[b] = enter[b] /\ enter[b] \in Nat /\ enter[b] < clock /\ enter2[a] = clock
      BY <1>2, <1>14, <2>2 DEF IsTiming, Entered
    <3> QED  BY <1>1, <1>14, <3>1
  <2>3. CASE a = c /\ b = c
    BY <1>14, <2>3, AncBasics
  <2>4. CASE a # c /\ b = c
    <3>1. ~Anc(D, a, v) /\ Entered(enter, a)
      BY <1>2, <1>12, <1>14, <2>4
    <3>2. Left(leave, a)
      BY <3>1
    <3>3. leave[a] < clock /\ enter2[b] = clock
      BY <2>4, <3>2 DEF IsTiming
    <3> QED  BY <3>2, <3>3
  <2> QED  BY <2>1, <2>2, <2>3, <2>4
<1>15. clock + 1 \in Nat /\ Entered(enter2, D.root)
  BY <1>1, <1>2, <1>3 DEF IsTiming
<1> QED  BY ONLY <1>4, <1>5, <1>6, <1>8, <1>9, <1>13, <1>14, <1>15 DEF IsTiming

LEMMA TimingLeaves ==
  ASSUME NEW D, IsTree(D), NEW enter, NEW leave, NEW clock, IsTiming(D, enter, leave, clock),
         NEW v \in D.nodes, Entered(enter, v), ~Left(leave, v),
         \A x \in D.nodes : Entered(enter, x) /\ ~Left(leave, x) => Anc(D, x, v),
         \A w \in D.nodes \ {D.root} : D.par[w] = v => Entered(enter, w),
         NEW leave2, leave2[v] = clock, \A x \in D.nodes \ {v} : leave2[x] = leave[x]
  PROVE  IsTiming(D, enter, leave2, clock + 1)
<1>1. clock \in Nat /\ Left(leave2, v)
  BY DEF IsTiming, Left, Nil
<1>2. \A x \in D.nodes \ {v} : Left(leave2, x) <=> Left(leave, x)
  BY DEF Left
<1>3. \A x \in D.nodes : enter[x] \in Nat \cup {Nil} /\ leave2[x] \in Nat \cup {Nil}
  BY <1>1 DEF IsTiming
<1>4. \A x \in D.nodes : Entered(enter, x) => enter[x] \in Nat /\ enter[x] < clock
  BY DEF IsTiming, Entered
<1>5. \A x \in D.nodes : Left(leave, x) => leave[x] \in Nat /\ leave[x] < clock
  BY DEF IsTiming, Left
<1>6. \A x \in D.nodes : Entered(enter, x) => enter[x] < clock + 1
  BY <1>1, <1>4
<1>7. \A x \in D.nodes : Left(leave2, x) => Entered(enter, x) /\ enter[x] < leave2[x] /\ leave2[x] < clock + 1
  <2> SUFFICES ASSUME NEW x \in D.nodes, Left(leave2, x)
               PROVE  Entered(enter, x) /\ enter[x] < leave2[x] /\ leave2[x] < clock + 1
    OBVIOUS
  <2>1. CASE x = v
    BY <1>1, <1>4, <2>1
  <2>2. CASE x # v
    <3>1. Entered(enter, x) /\ enter[x] < leave[x] /\ leave[x] \in Nat /\ leave[x] < clock
      BY <1>2, <1>5, <2>2 DEF IsTiming
    <3> QED  BY <1>1, <2>2, <3>1
  <2> QED  BY <2>1, <2>2
<1>8. \A x \in D.nodes \ {D.root} : D.par[x] \in D.nodes
  BY DEF IsTree
<1>9. \A x \in D.nodes \ {D.root} : Left(leave2, D.par[x]) => Entered(enter, x)
  BY <1>2, <1>8 DEF IsTiming
<1>10. ASSUME NEW b \in D.nodes, Anc(D, v, b), b # v, Entered(enter, b) PROVE Left(leave, b)
  <2> SUFFICES ASSUME ~Left(leave, b) PROVE FALSE
    OBVIOUS
  <2>1. Anc(D, b, v)
    BY <1>10
  <2>2. D.num[b] <= D.num[v] /\ D.num[v] <= D.num[b] /\ (D.num[b] = D.num[v] => b = v)
    BY <1>10, <2>1, AncNumbers
  <2>3. D.num[b] \in Nat /\ D.num[v] \in Nat
    BY DEF IsTree
  <2> QED  BY <1>10, <2>2, <2>3
<1>11. ASSUME NEW a \in D.nodes, NEW b \in D.nodes, Entered(enter, a), Entered(enter, b), Anc(D, a, b)
       PROVE  enter[a] <= enter[b] /\ (Left(leave2, a) => Left(leave2, b) /\ leave2[b] <= leave2[a])
  <2>1. enter[a] <= enter[b] /\ (Left(leave, a) => Left(leave, b) /\ leave[b] <= leave[a])
    BY <1>11 DEF IsTiming
  <2>2. CASE a # v /\ b # v
    BY <1>2, <2>1, <2>2
  <2>3. CASE a = v /\ b # v
    <3>1. Left(leave, b) /\ leave[b] \in Nat /\ leave[b] < clock
      BY <1>5, <1>10, <1>11, <2>3
    <3> QED  BY <1>1, <1>2, <2>1, <2>3, <3>1
  <2>4. CASE b = v
    <3>1. a # v => ~Left(leave2, a)
      BY <1>2, <2>1, <2>4
    <3> QED  BY <1>1, <2>1, <2>4, <3>1
  <2> QED  BY <2>2, <2>3, <2>4
<1>12. ASSUME NEW a \in D.nodes, NEW b \in D.nodes, Entered(enter, a), Entered(enter, b),
              ~Anc(D, a, b), enter[a] <= enter[b]
       PROVE  Left(leave2, a) /\ leave2[a] < enter[b]
  <2>1. Left(leave, a) /\ leave[a] < enter[b]
    BY <1>12 DEF IsTiming
  <2>2. a # v
    BY <2>1
  <2> QED  BY <1>2, <2>1, <2>2
<1>13. clock + 1 \in Nat /\ Entered(enter, D.root)
       /\ \A x \in D.nodes \ {D.root} : Entered(enter, x) => Entered(enter, D.par[x])
  BY <1>1 DEF IsTiming
<1> QED  BY ONLY <1>3, <1>6, <1>7, <1>9, <1>11, <1>12, <1>13 DEF IsTiming

(* When nothing is on the stack, the numbers say who is an ancestor of whom. *)
LEMMA TimingDone ==
  ASSUME NEW D, IsTree(D), NEW enter, NEW leave, NEW clock, IsTiming(D, enter, leave, clock),
         NEW kids, IsStacked(D, kids, <<>>, enter, leave)
  PROVE  /\ \A v \in D.nodes : Entered(enter, v)
         /\ \A a, b \in D.nodes : enter[a] <= enter[b] /\ leave[b] <= leave[a] <=> Anc(D, a, b)
<1>1. \A v \in D.nodes : Entered(enter, v) => Left(leave, v)
  <2>1. \A i \in 1 .. Len(<<>>) : FALSE
    OBVIOUS
  <2> QED  BY <2>1 DEF IsStacked
<1>2. \A x \in D.nodes \ {D.root} : D.par[x] \in D.nodes
  BY DEF IsTree
<1>3. ASSUME NEW v \in D.nodes PROVE Entered(enter, v)
  <2> DEFINE S == {x \in D.nodes : ~Entered(enter, x)}
  <2> SUFFICES ASSUME v \in S PROVE FALSE
    OBVIOUS
  <2>1. Up(D, S)
    BY <1>1, <1>2 DEF Up, IsTiming
  <2>2. Anc(D, D.root, v)
    BY RootIsAncestor
  <2> HIDE DEF S
  <2>3. D.root \in S
    BY <2>1, <2>2 DEF Anc
  <2> QED  BY <2>3 DEF S, IsTiming
<1>4. ASSUME NEW a \in D.nodes, NEW b \in D.nodes
      PROVE  enter[a] <= enter[b] /\ leave[b] <= leave[a] <=> Anc(D, a, b)
  <2>1. Entered(enter, a) /\ Entered(enter, b) /\ Left(leave, a) /\ Left(leave, b)
    BY <1>1, <1>3
  <2>2. Anc(D, a, b) => enter[a] <= enter[b] /\ leave[b] <= leave[a]
    BY <2>1 DEF IsTiming
  <2>3. ~Anc(D, a, b) /\ enter[a] <= enter[b] => leave[a] < enter[b]
    BY <2>1 DEF IsTiming
  <2>4. enter[b] < leave[b] /\ enter[b] \in Nat /\ leave[b] \in Nat /\ leave[a] \in Nat
    BY <2>1 DEF IsTiming, Entered, Left
  <2> QED  BY <2>2, <2>3, <2>4
<1> QED  BY <1>3, <1>4

(* The top node has a child that was not looked at yet. *)
HasChild(s, kids) == Last(s)[2] <= Len(kids[Last(s)[1]])
Opened(s, c) == Append(s, <<c, 1>>)

LEMMA NextChild ==
  ASSUME NEW D, NEW kids, ListsChildren(D, kids), NEW s \in Seq(Entries(D.nodes)), s # <<>>,
         HasChild(s, kids), NEW v, v = Last(s)[1], NEW c, c = kids[v][Last(s)[2]]
  PROVE  c \in D.nodes \ {D.root} /\ D.par[c] = v
<1>1. v \in D.nodes /\ Last(s)[2] \in Nat \ {0} /\ Last(s)[2] <= Len(kids[v])
  BY TopEntry DEF HasChild
<1>2. kids[v] \in Seq(D.nodes) /\ ToSet(kids[v]) = {w \in D.nodes \ {D.root} : D.par[w] = v}
  BY <1>1 DEF ListsChildren
<1>3. c \in ToSet(kids[v])
  BY <1>1, <1>2 DEF ToSet
<1> QED  BY <1>2, <1>3

(* The loop at the top node has looked at one more child. *)
LEMMA StackedMoves ==
  ASSUME NEW D, NEW kids, ListsChildren(D, kids), NEW s, NEW enter, NEW leave,
         IsStacked(D, kids, s, enter, leave), s # <<>>, NEW v, v = Last(s)[1],
         NEW c, c = kids[v][Last(s)[2]], HasChild(s, kids),
         NEW under, under = Advanced(s)
  PROVE  /\ Entered(enter, c) => IsStacked(D, kids, under, enter, leave)
         /\ \A enter2, over :
               ~Entered(enter, c) /\ Entered(enter2, c) /\ (\A x \in D.nodes \ {c} : enter2[x] = enter[x])
                  /\ ~Left(leave, c) /\ over = Opened(under, c)
               => IsStacked(D, kids, over, enter2, leave)
<1> DEFINE n == Len(s)
           X == D.nodes
<1> Last(s)[2] <= Len(kids[v])
  BY DEF HasChild
<1>1. s \in Seq(Entries(X))
  BY DEF IsStacked
<1>2. n \in Nat \ {0} /\ v = s[n][1] /\ v \in X /\ Last(s) = s[n] /\ Last(s)[2] \in Nat \ {0}
  BY <1>1, TopEntry
<1>3. /\ under \in Seq(Entries(X)) /\ Len(under) = n
      /\ (\A i \in 1 .. n : under[i][1] = s[i][1])
      /\ (\A i \in 1 .. n - 1 : under[i] = s[i])
      /\ under[n][2] = s[n][2] + 1
  <2>1. s # <<>> /\ under = Advanced(s)
    OBVIOUS
  <2> HIDE DEF X
  <2>2. /\ under \in Seq(Entries(X)) /\ Len(under) = Len(s)
        /\ (\A i \in 1 .. Len(s) : under[i][1] = s[i][1])
        /\ (\A i \in 1 .. Len(s) - 1 : under[i] = s[i])
        /\ under[Len(s)][2] = Last(s)[2] + 1
    BY ONLY <1>1, <2>1, UnderFacts
  <2> QED  BY <1>2, <2>2
<1>4. c \in D.nodes \ {D.root} /\ D.par[c] = v
  BY <1>1, NextChild
<1>5. /\ \A i \in 1 .. n : s[i][1] \in X /\ s[i][2] \in Nat \ {0}
      /\ \A i \in 1 .. n : kids[s[i][1]] \in Seq(X)
  <2>1. \A i \in 1 .. n : s[i] \in Entries(X)
    BY <1>1
  <2> QED  BY <2>1 DEF ListsChildren, Entries
<1>6. ASSUME NEW enter2, Entered(enter2, c), \A x \in X : Entered(enter, x) => Entered(enter2, x),
             NEW i \in 1 .. n, NEW j \in 1 .. Len(kids[under[i][1]]), j < under[i][2]
      PROVE  Entered(enter2, kids[under[i][1]][j])
  <2>1. under[i][1] = s[i][1] /\ kids[s[i][1]] \in Seq(X)
    BY <1>3, <1>5
  <2>2. kids[s[i][1]][j] \in X
    <3> DEFINE q == kids[s[i][1]]
    <3>1. q \in Seq(X) /\ j \in 1 .. Len(q)
      BY <1>6, <2>1
    <3> HIDE DEF q
    <3>2. q[j] \in X
      BY ONLY <3>1
    <3> QED  BY <3>2 DEF q
  <2>3. CASE j < s[i][2]
    <3>1. Entered(enter, kids[s[i][1]][j])
      BY <1>6, <2>1, <2>3 DEF IsStacked
    <3> QED  BY <1>6, <2>1, <2>2, <3>1
  <2>4. CASE ~(j < s[i][2])
    <3>1. i = n
      <4> SUFFICES ASSUME i # n PROVE FALSE
        OBVIOUS
      <4>1. i \in 1 .. n - 1
        BY <1>2
      <4>2. under[i] = s[i]
        BY <1>3, <4>1
      <4> QED  BY <1>6, <2>4, <4>2
    <3>2. j = s[n][2]
      <4>1. j \in Nat /\ s[n][2] \in Nat /\ under[n][2] = s[n][2] + 1
        BY <1>2, <1>3, <1>6, <2>1
      <4>2. j < under[n][2] /\ ~(j < s[n][2])
        BY <1>6, <2>4, <3>1
      <4> QED  BY ONLY <4>1, <4>2
    <3>3. kids[under[i][1]][j] = c
      BY <1>2, <2>1, <3>1, <3>2
    <3> QED  BY <1>6, <3>3
  <2> QED  BY <2>3, <2>4
<1>7. ASSUME Entered(enter, c) PROVE IsStacked(D, kids, under, enter, leave)
  <2>0. /\ \A i \in 1 .. n : Entered(enter, s[i][1]) /\ ~Left(leave, s[i][1])
        /\ \A x \in D.nodes : Entered(enter, x) /\ ~Left(leave, x) => \E i \in 1 .. n : s[i][1] = x
    BY DEF IsStacked
  <2>1. \A i \in 1 .. Len(under) : Entered(enter, under[i][1]) /\ ~Left(leave, under[i][1])
    BY ONLY <1>3, <2>0
  <2>2. \A x \in D.nodes : Entered(enter, x) /\ ~Left(leave, x) => \E i \in 1 .. Len(under) : under[i][1] = x
    BY ONLY <1>3, <2>0
  <2>3. \A i, j \in 1 .. Len(under) : i <= j => Anc(D, under[i][1], under[j][1])
    BY <1>3 DEF IsStacked
  <2>4. ASSUME NEW i \in 1 .. n, NEW j \in 1 .. n, i < j PROVE under[i][1] # under[j][1]
    <3>1. s[i][1] # s[j][1]
      BY <2>4 DEF IsStacked
    <3> QED  BY ONLY <1>3, <3>1
  <2>5. \A i \in 1 .. Len(under) : \A j \in 1 .. Len(kids[under[i][1]]) :
           j < under[i][2] => Entered(enter, kids[under[i][1]][j])
    BY <1>3, <1>6, <1>7
  <2> QED  BY ONLY <1>3, <2>1, <2>2, <2>3, <2>4, <2>5 DEF IsStacked
<1>8. ASSUME NEW enter2, NEW over, ~Entered(enter, c), Entered(enter2, c),
             \A x \in D.nodes \ {c} : enter2[x] = enter[x], ~Left(leave, c),
              over = Opened(under, c)
      PROVE  IsStacked(D, kids, over, enter2, leave)
  <2>1. /\ over \in Seq(Entries(X)) /\ Len(over) = n + 1
        /\ (\A i \in 1 .. n : over[i] = under[i])
        /\ over[n + 1][1] = c /\ over[n + 1][2] = 1
    <3> HIDE DEF X
    <3>1. c \in X
      BY <1>4 DEF X
    <3>2. over = Append(under, <<c, 1>>)
      BY <1>8 DEF Opened
    <3> QED  BY ONLY <1>3, <3>1, <3>2, OverFacts
  <2>2. \A x \in X \ {c} : Entered(enter2, x) <=> Entered(enter, x)
    BY <1>8 DEF Entered
  <2>3. \A i \in 1 .. n : over[i][1] = s[i][1] /\ s[i][1] # c /\ s[i][1] \in X
    <3>1. \A i \in 1 .. n : Entered(enter, s[i][1])
      BY DEF IsStacked
    <3> QED  BY <1>3, <1>5, <1>8, <2>1, <3>1
  <2>4. \A i \in 1 .. n + 1 : i = n + 1 \/ i \in 1 .. n
    BY <1>2
  <2>5. ASSUME NEW i \in 1 .. n + 1 PROVE Entered(enter2, over[i][1]) /\ ~Left(leave, over[i][1])
    <3>1. i \in 1 .. n => Entered(enter, s[i][1]) /\ ~Left(leave, s[i][1])
      BY DEF IsStacked
    <3> QED  BY <1>8, <2>1, <2>2, <2>3, <2>4, <3>1
  <2>6. ASSUME NEW x \in D.nodes, Entered(enter2, x), ~Left(leave, x)
        PROVE  \E i \in 1 .. n + 1 : over[i][1] = x
    <3>1. CASE x = c
      <4>1. n + 1 \in 1 .. n + 1
        BY <1>2
      <4> QED  BY <2>1, <3>1, <4>1
    <3>2. CASE x # c
      <4>1. PICK i \in 1 .. n : s[i][1] = x
        BY <2>2, <2>6, <3>2 DEF IsStacked
      <4>2. i \in 1 .. n + 1
        BY <1>2
      <4> QED  BY <2>3, <4>1, <4>2
    <3> QED  BY <3>1, <3>2
  <2>7. \A i \in 1 .. n : Anc(D, s[i][1], c)
    <3>1. Anc(D, v, c)
      BY ONLY <1>4, AncBasics
    <3>2. \A i \in 1 .. n : Anc(D, s[i][1], v)
      <4>1. n \in 1 .. n /\ \A i \in 1 .. n : i <= n
        BY <1>2
      <4> QED  BY <1>2, <4>1 DEF IsStacked
    <3>3. ASSUME NEW i \in 1 .. n PROVE Anc(D, s[i][1], c)
      <4>1. Anc(D, s[i][1], v)
        BY <3>2
      <4> QED  BY ONLY <3>1, <4>1, AncBasics
    <3> QED  BY <3>3
  <2>8. ASSUME NEW i \in 1 .. n + 1, NEW j \in 1 .. n + 1, i <= j
        PROVE  Anc(D, over[i][1], over[j][1])
    <3>1. CASE i \in 1 .. n /\ j \in 1 .. n
      <4>1. Anc(D, s[i][1], s[j][1])
        BY <2>8, <3>1 DEF IsStacked
      <4> QED  BY <2>3, <3>1, <4>1
    <3>2. CASE i \in 1 .. n /\ j = n + 1
      BY <2>1, <2>3, <2>7, <3>2
    <3>3. CASE i = n + 1
      <4>1. j = n + 1
        BY <1>2, <2>8, <3>3
      <4>2. Anc(D, c, c)
        BY AncBasics
      <4> QED  BY <2>1, <3>3, <4>1, <4>2
    <3> QED  BY <2>4, <3>1, <3>2, <3>3
  <2>9. ASSUME NEW i \in 1 .. n + 1, NEW j \in 1 .. n + 1, i < j
        PROVE  over[i][1] # over[j][1]
    <3>1. i \in 1 .. n
      BY <1>2, <2>9
    <3>2. CASE j \in 1 .. n
      <4>1. s[i][1] # s[j][1]
        BY <2>9, <3>1, <3>2 DEF IsStacked
      <4> QED  BY <2>3, <3>1, <3>2, <4>1
    <3>3. CASE j = n + 1
      BY <2>1, <2>3, <3>1, <3>3
    <3> QED  BY <2>4, <3>2, <3>3
  <2>10. ASSUME NEW i \in 1 .. n + 1, NEW j \in 1 .. Len(kids[over[i][1]]), j < over[i][2]
         PROVE  Entered(enter2, kids[over[i][1]][j])
    <3>1. CASE i = n + 1
      <4>1. kids[c] \in Seq(X)
        BY <1>4 DEF ListsChildren
      <4>2. j \in Nat \ {0}
        BY <2>1, <2>10, <3>1, <4>1
      <4> QED  BY <2>1, <2>10, <3>1, <4>2
    <3>2. CASE i \in 1 .. n
      <4>1. over[i] = under[i] /\ \A x \in X : Entered(enter, x) => Entered(enter2, x)
        BY <1>8, <2>1, <2>2, <3>2
      <4> QED  BY <1>6, <1>8, <2>10, <3>2, <4>1
    <3> QED  BY <2>4, <3>1, <3>2
  <2> QED  BY ONLY <2>1, <2>5, <2>6, <2>8, <2>9, <2>10 DEF IsStacked
<1> QED  BY <1>2, <1>4, <1>7, <1>8

LEMMA StackedPops ==
  ASSUME NEW D, NEW kids, ListsChildren(D, kids), NEW s, NEW enter, NEW leave,
         IsStacked(D, kids, s, enter, leave), s # <<>>, NEW v, v = Last(s)[1],
         ~HasChild(s, kids),
         NEW leave2, Left(leave2, v), \A x \in D.nodes \ {v} : leave2[x] = leave[x]
  PROVE  /\ IsStacked(D, kids, Front(s), enter, leave2)
         /\ \A w \in D.nodes \ {D.root} : D.par[w] = v => Entered(enter, w)
<1> DEFINE n == Len(s)
           X == D.nodes
           front == Front(s)
<1> Last(s)[2] > Len(kids[v])
  <2>1. s \in Seq(Entries(X)) /\ Last(s)[1] \in X /\ Last(s)[2] \in Nat
    BY TopEntry DEF IsStacked
  <2>2. Len(kids[v]) \in Nat
    BY <2>1 DEF ListsChildren
  <2> QED  BY <2>1, <2>2 DEF HasChild
<1>1. s \in Seq(Entries(X))
  BY DEF IsStacked
<1>2. n \in Nat \ {0} /\ v = s[n][1] /\ v \in X /\ Last(s) = s[n] /\ Last(s)[2] \in Nat \ {0}
  BY <1>1, TopEntry
<1>3. front \in Seq(Entries(X)) /\ Len(front) = n - 1 /\ \A i \in 1 .. n - 1 : front[i] = s[i]
  <2>1. s # <<>>
    OBVIOUS
  <2> HIDE DEF X
  <2> QED  BY ONLY <1>1, <2>1, UnderFacts
<1>4. kids[v] \in Seq(D.nodes) /\ ToSet(kids[v]) = {w \in D.nodes \ {D.root} : D.par[w] = v}
  BY <1>2 DEF ListsChildren
<1>5. ASSUME NEW w \in D.nodes \ {D.root}, D.par[w] = v PROVE Entered(enter, w)
  <2>1. w \in ToSet(kids[v])
    BY <1>4, <1>5
  <2>2. PICK j \in DOMAIN kids[v] : kids[v][j] = w
    BY <2>1 DEF ToSet
  <2>3. j \in 1 .. Len(kids[v]) /\ j < s[n][2] /\ n \in 1 .. n
    BY <1>2, <1>4, <2>2
  <2>4. kids[s[n][1]][j] = w /\ j \in 1 .. Len(kids[s[n][1]])
    BY <1>2, <2>2, <2>3
  <2>5. \A i \in 1 .. Len(s) : \A k \in 1 .. Len(kids[s[i][1]]) :
           k < s[i][2] => Entered(enter, kids[s[i][1]][k])
    BY DEF IsStacked
  <2> HIDE DEF n, X, front
  <2>6. n = Len(s)
    BY DEF n
  <2> QED  BY ONLY <2>3, <2>4, <2>5, <2>6
<1>6. \A i \in 1 .. n - 1 : front[i] = s[i] /\ i \in 1 .. n /\ s[i][1] # v /\ s[i][1] \in X
  <2>1. \A i \in 1 .. n - 1 : i \in 1 .. n /\ i < n /\ n \in 1 .. n
    BY <1>2
  <2>2. \A i \in 1 .. n : s[i] \in Entries(X)
    BY <1>1
  <2>3. \A i \in 1 .. n : s[i][1] \in X
    BY <2>2 DEF Entries
  <2> QED  BY <1>2, <1>3, <2>1, <2>3 DEF IsStacked
<1>7. \A x \in D.nodes \ {v} : Left(leave2, x) <=> Left(leave, x)
  BY DEF Left
<1>8. \A i \in 1 .. n - 1 : Entered(enter, front[i][1]) /\ ~Left(leave2, front[i][1])
  <2>1. \A i \in 1 .. n : Entered(enter, s[i][1]) /\ ~Left(leave, s[i][1])
    BY DEF IsStacked
  <2> QED  BY <1>6, <1>7, <2>1
<1>9. ASSUME NEW x \in D.nodes, Entered(enter, x), ~Left(leave2, x)
      PROVE  \E i \in 1 .. n - 1 : front[i][1] = x
  <2>1. x # v /\ ~Left(leave, x)
    BY <1>7, <1>9
  <2>2. PICK i \in 1 .. n : s[i][1] = x
    BY <1>9, <2>1 DEF IsStacked
  <2>3. i \in 1 .. n - 1
    BY <1>2, <2>1, <2>2
  <2> QED  BY <1>6, <2>2, <2>3
<1>10. \A i, j \in 1 .. n - 1 : i <= j => Anc(D, front[i][1], front[j][1])
  BY <1>6 DEF IsStacked
<1>11. ASSUME NEW i \in 1 .. n - 1, NEW j \in 1 .. n - 1, i < j PROVE front[i][1] # front[j][1]
  <2>1. i \in 1 .. n /\ j \in 1 .. n
    BY <1>6
  <2>2. s[i][1] # s[j][1]
    BY <1>11, <2>1 DEF IsStacked
  <2> QED  BY ONLY <1>6, <2>2
<1>12. ASSUME NEW i \in 1 .. n - 1, NEW j \in 1 .. Len(kids[front[i][1]]), j < front[i][2]
       PROVE  Entered(enter, kids[front[i][1]][j])
  <2>1. front[i] = s[i] /\ i \in 1 .. n
    BY <1>6
  <2>2. j \in 1 .. Len(kids[s[i][1]]) /\ j < s[i][2]
    BY <1>12, <2>1
  <2>3. Entered(enter, kids[s[i][1]][j])
    BY <2>1, <2>2 DEF IsStacked
  <2> QED  BY <2>1, <2>3
<1>13. IsStacked(D, kids, front, enter, leave2)
  BY ONLY <1>3, <1>8, <1>9, <1>10, <1>11, <1>12 DEF IsStacked
<1> QED  BY <1>5, <1>13

(* The dominator tree, and its children. *)
DomTreeOf(g, r, l) == [nodes |-> Found(g, l), root |-> r, num |-> l.dfnum, par |-> l.idom]
KidsOf(g, r, l) ==
    [v \in Found(g, l) |-> Ascending(g, {w \in NodeIds(g) \ {r} : l.idom[w] = v})]

LEMMA DomTreeIsTree ==
  ASSUME NEW g, NEW r, NEW l, IsLt(g, r, l), NEW T, T = TreeOf(g, r, l), IsDfs(g, T),
         IsResolved(g, T, l), NEW D, D = DomTreeOf(g, r, l)
  PROVE  /\ D.nodes = T.nodes /\ D.root = T.root /\ D.root = r /\ D.par = l.idom /\ D.num = T.num
         /\ D.nodes = Found(g, l) /\ IsTree(D) /\ ListsChildren(D, KidsOf(g, r, l))
<1>1. /\ D.nodes = Found(g, l) /\ D.root = r /\ D.num = l.dfnum /\ D.par = l.idom
      /\ T.nodes = Found(g, l) /\ T.root = r /\ T.num = l.dfnum /\ T.nodes \subseteq NodeIds(g)
  BY DEF DomTreeOf, TreeOf, Found
<1>2. IsTree(D)
  <2>1. \A w \in T.nodes \ {T.root} : l.idom[w] \in T.nodes /\ T.num[l.idom[w]] < T.num[w]
    <3> SUFFICES ASSUME NEW w \in T.nodes \ {T.root}
                 PROVE  l.idom[w] \in T.nodes /\ T.num[l.idom[w]] < T.num[w]
      OBVIOUS
    <3>1. IsSemi(g, T, l.semi) /\ IsIdom(g, T, l.semi, l.idom[w], w)
      BY DEF IsResolved
    <3> DEFINE d == l.idom[w]
               semi == l.semi
    <3> HIDE DEF d, semi
    <3>2. IsSemi(g, T, semi) /\ IsIdom(g, T, semi, d, w)
      BY <3>1 DEF d, semi
    <3>3. d \in T.nodes /\ T.num[d] < T.num[w]
      BY <3>2, IdomFacts
    <3> QED  BY <3>3 DEF d
  <2>2. IsTree(T)
    BY DEF IsDfs
  <2> QED  BY <1>1, <2>1, <2>2 DEF IsTree
<1>3. ListsChildren(D, KidsOf(g, r, l))
  <2> DEFINE S(v) == {w \in NodeIds(g) \ {r} : l.idom[w] = v}
             K == KidsOf(g, r, l)
  <2>1. ASSUME NEW v \in Found(g, l)
        PROVE  /\ K[v] \in Seq(D.nodes) /\ ToSet(K[v]) = {w \in D.nodes \ {D.root} : D.par[w] = v}
    <3>1. v \in NodeIds(g) /\ v # Nil
      <4>1. v \in Nat
        BY DEF Found, NodeIds
      <4> QED  BY <4>1 DEF Found, Nil
    <3>2. S(v) = {w \in D.nodes \ {D.root} : D.par[w] = v}
      <4>1. \A w \in NodeIds(g) \ Found(g, l) : l.idom[w] = Nil
        BY <1>1 DEF IsResolved
      <4> QED  BY <1>1, <3>1, <4>1
    <3>3. K[v] = Ascending(g, S(v))
      BY DEF KidsOf
    <3>4. S(v) \in SUBSET NodeIds(g) /\ S(v) \subseteq D.nodes
      BY <3>2
    <3> HIDE DEF S, K
    <3>5. Ascending(g, S(v)) \in Seq(S(v)) /\ ToSet(Ascending(g, S(v))) = S(v)
      BY <3>4, AscendingFacts DEF IsLt
    <3>6. K[v] \in Seq(D.nodes)
      BY <3>3, <3>4, <3>5
    <3> QED  BY <3>2, <3>3, <3>5, <3>6
  <2>2. K = [v \in Found(g, l) |-> K[v]]
    BY DEF KidsOf
  <2> HIDE DEF K
  <2>3. K \in [D.nodes -> Seq(D.nodes)]
    BY <1>1, <2>1, <2>2
  <2> QED  BY <1>1, <2>1, <2>3 DEF ListsChildren, K
<1> QED  BY <1>1, <1>2, <1>3

(* The ancestors of a node in it are its dominators. *)
LEMMA DomTreeIsExact ==
  ASSUME NEW g, NEW r, NEW l, IsLt(g, r, l), NEW T, T = TreeOf(g, r, l), IsDfs(g, T),
         IsResolved(g, T, l), NEW D, D = DomTreeOf(g, r, l), NEW a \in T.nodes, NEW b \in T.nodes
  PROVE  Anc(D, a, b) <=> a = b \/ b \notin Avoiding(g, T, a)
<1> DEFINE V == Avoiding(g, T, a)
<1>1. D.nodes = T.nodes /\ D.root = T.root /\ D.par = l.idom /\ IsTree(D)
  BY DomTreeIsTree
<1>2. ASSUME NEW w \in T.nodes \ {T.root}, w # a
      PROVE  l.idom[w] \in T.nodes /\ (w \notin V <=> l.idom[w] \notin V)
  <2> DEFINE d == l.idom[w]
             semi == l.semi
  <2>1. IsSemi(g, T, semi) /\ IsIdom(g, T, semi, d, w)
    BY DEF IsResolved
  <2> HIDE DEF d, semi
  <2>2. d \in T.nodes /\ \A x \in T.nodes : x # w => (w \notin Avoiding(g, T, x) <=> d \notin Avoiding(g, T, x))
    BY <2>1, IdomFacts
  <2>3. d \in T.nodes /\ (w \notin V <=> d \notin V)
    BY <1>2, <2>2
  <2> QED  BY <2>3 DEF d
<1>3. a \notin V /\ (a # T.root => T.root \in V)
  BY AvoidingFacts
<1> HIDE DEF V
<1>4. ASSUME Anc(D, a, b), b \in V PROVE FALSE
  <2> DEFINE S == T.nodes \cap V
  <2>1. Up(D, S)
    BY <1>1, <1>2, <1>3 DEF Up
  <2>2. b \in S
    BY <1>4
  <2> HIDE DEF S
  <2>3. a \in S
    BY <1>4, <2>1, <2>2 DEF Anc
  <2> QED  BY <1>3, <2>3 DEF S
<1>5. ASSUME b \notin V, NEW S, b \in S, Up(D, S), a \notin S PROVE FALSE
  <2> DEFINE S2 == {x \in T.nodes : x \in S /\ x \notin V}
  <2>1. Up(D, S2)
    <3> SUFFICES ASSUME NEW x \in T.nodes \ {T.root}, x \in S, x \notin V
                 PROVE  l.idom[x] \in T.nodes /\ l.idom[x] \in S /\ l.idom[x] \notin V
      BY <1>1 DEF Up
    <3>1. x # a
      BY <1>5
    <3>2. l.idom[x] \in S
      BY <1>1, <1>5 DEF Up
    <3> QED  BY <1>2, <3>1, <3>2
  <2>2. b \in S2 /\ Anc(D, D.root, b)
    BY <1>1, <1>5, RootIsAncestor
  <2> HIDE DEF S2
  <2>3. D.root \in S2
    BY <2>1, <2>2 DEF Anc
  <2> QED  BY <1>1, <1>3, <1>5, <2>3 DEF S2
<1>6. Anc(D, a, a)
  BY AncBasics
<1>7. b \notin V => Anc(D, a, b)
  BY <1>5 DEF Anc
<1> QED  BY <1>4, <1>6, <1>7 DEF V

IsNumbered(g, r, l, s, enter, leave, clock) ==
    /\ enter \in [NodeIds(g) -> Nat \cup {Nil}] /\ leave \in [NodeIds(g) -> Nat \cup {Nil}]
    /\ \A v \in NodeIds(g) \ Found(g, l) : enter[v] = Nil
    /\ IsTiming(DomTreeOf(g, r, l), enter, leave, clock)
    /\ IsStacked(DomTreeOf(g, r, l), KidsOf(g, r, l), s, enter, leave)

-----------------------------------------------------------------------------
(* The inductive invariant. *)
DomInv ==
    stage # "idle" =>
        /\ IsLt(graph, root, lt)
        /\ stage \in {"dfs", "semi", "bucket", "explicit", "intervals", "tree"}
        /\ stage \notin {"intervals", "tree"} => tin = Filled(graph, Nil) /\ tout = Filled(graph, Nil)
        /\ stage = "dfs" => IsSearching(graph, root, lt, stack)
        /\ stage # "dfs" => IsDfs(graph, TreeOf(graph, root, lt))
        /\ stage = "semi" => IsScanning(graph, TreeOf(graph, root, lt), lt, pos, todo)
        /\ stage = "bucket" => IsEmptying(graph, TreeOf(graph, root, lt), lt, pos, todo)
        /\ stage = "explicit" => IsResolving(graph, TreeOf(graph, root, lt), lt, pos)
        /\ stage \in {"intervals", "tree"} =>
              /\ IsResolved(graph, TreeOf(graph, root, lt), lt)
              /\ IsNumbered(graph, root, lt, stack, tin, tout, timer)
        /\ stage = "tree" => stack = <<>>

LEMMA InvBegin ==
  ASSUME NEW g, IsGraph(g), NEW r \in NodeIds(g), Begin(g, r)
  PROVE  DomInv'
<1>1. /\ graph' = g /\ root' = r /\ stage' = "dfs" /\ lt' = NewLt(g) /\ stack' = <<r>>
      /\ tin' = Filled(g, Nil) /\ tout' = Filled(g, Nil)
  BY DEF Begin
<1>2. IsLt(g, r, NewLt(g)) /\ IsSearching(g, r, NewLt(g), <<r>>)
  BY SearchingBegins
<1> QED  BY ONLY <1>1, <1>2 DEF DomInv

LEMMA InvPopNumbered ==
  ASSUME DomInv, PopNumbered
  PROVE  DomInv'
<1>1. /\ stage = "dfs" /\ stack # <<>> /\ lt.dfnum[Last(stack)] # 0 /\ stack' = Front(stack)
      /\ UNCHANGED <<graph, root, stage, lt, tin, tout>>
  BY DEF PopNumbered
<1>2. IsLt(graph, root, lt) /\ IsSearching(graph, root, lt, stack)
      /\ tin = Filled(graph, Nil) /\ tout = Filled(graph, Nil)
  BY <1>1 DEF DomInv
<1>3. IsSearching(graph, root, lt, Front(stack))
  BY ONLY <1>1, <1>2, SearchingPops
<1> QED  BY ONLY <1>1, <1>2, <1>3 DEF DomInv

LEMMA InvNumber ==
  ASSUME DomInv, Number
  PROVE  DomInv'
<1> DEFINE v == Last(stack)
           fresh == FreshOf(graph, lt, v)
<1>1. /\ stage = "dfs" /\ stack # <<>> /\ lt.dfnum[v] = 0 /\ stack' = Front(stack) \o fresh
      /\ UNCHANGED <<graph, root, stage, tin, tout>>
      /\ lt' = NumberedLt(graph, lt, v)
  BY DEF Number, NumberedLt, FreshOf
<1>2. IsLt(graph, root, lt) /\ IsSearching(graph, root, lt, stack)
      /\ tin = Filled(graph, Nil) /\ tout = Filled(graph, Nil)
  BY <1>1 DEF DomInv
<1>3. IsLt(graph, root, lt') /\ IsSearching(graph, root, lt', Front(stack) \o fresh)
  <2>1. fresh = FreshOf(graph, lt, v) /\ v = Last(stack)
    OBVIOUS
  <2> HIDE DEF v, fresh
  <2> QED  BY ONLY <1>1, <1>2, <2>1, SearchingNumbers
<1> HIDE DEF fresh, v
<1> QED  BY ONLY <1>1, <1>2, <1>3 DEF DomInv

(* The next vertex to process is the i-th. *)
LEMMA InvToVertex ==
  ASSUME IsLt(graph, root, lt), IsDfs(graph, TreeOf(graph, root, lt)),
         NEW i \in 1 .. Len(lt.vertex), ToVertex(i), UNCHANGED <<graph, root, lt, tin, tout>>,
         IsProcessed(graph, TreeOf(graph, root, lt), lt, Above(graph, lt, i), {}),
         \A v \in NodeIds(graph) \ Above(graph, lt, i) : lt.semi[v] = v,
         tin = Filled(graph, Nil), tout = Filled(graph, Nil)
  PROVE  DomInv'
<1> DEFINE T == TreeOf(graph, root, lt)
<1>0. Len(lt.vertex) \in Nat \ {0}
  BY VertexFacts
<1>1. CASE i > 1
  <2>1. stage' = "semi" /\ todo' = Predecessors(graph, lt.vertex[i]) /\ pos' = i
    BY <1>1 DEF ToVertex
  <2>2. i \in 2 .. Len(lt.vertex) /\ T = TreeOf(graph, root, lt)
    BY <1>0, <1>1
  <2>3. IsScanning(graph, T, lt, i, Predecessors(graph, lt.vertex[i]))
    <3> HIDE DEF T
    <3> QED  BY <2>2, VertexIsScanned
  <2> QED  BY <2>1, <2>3 DEF DomInv
<1>2. CASE ~(i > 1)
  <2>1. stage' = "explicit" /\ pos' = 1 /\ i = 1
    BY <1>0, <1>2 DEF ToVertex
  <2>2. IsResolving(graph, T, lt, 1)
    BY <2>1, PhasesEnd
  <2> QED  BY <2>1, <2>2 DEF DomInv
<1> QED  BY <1>1, <1>2

LEMMA InvNumbered ==
  ASSUME DomInv, Numbered
  PROVE  DomInv'
<1>1. /\ stage = "dfs" /\ stack = <<>> /\ ToVertex(Len(lt.vertex))
      /\ UNCHANGED <<graph, root, lt, tin, tout>>
  BY DEF Numbered
<1>2. IsLt(graph, root, lt) /\ IsSearching(graph, root, lt, <<>>)
      /\ tin = Filled(graph, Nil) /\ tout = Filled(graph, Nil)
  BY <1>1 DEF DomInv
<1> DEFINE T == TreeOf(graph, root, lt)
           L == Above(graph, lt, Len(lt.vertex))
<1>3. IsDfs(graph, T) /\ IsProcessed(graph, T, lt, L, {}) /\ \A v \in NodeIds(graph) : lt.semi[v] = v
  BY <1>2, SearchingDone
<1>4. Len(lt.vertex) \in 1 .. Len(lt.vertex)
  BY <1>2, <1>3, VertexFacts
<1>5. \A v \in NodeIds(graph) \ L : lt.semi[v] = v
  BY <1>3
<1> QED  BY ONLY <1>1, <1>2, <1>3, <1>4, <1>5, InvToVertex

LEMMA InvNextVertex ==
  ASSUME DomInv, NextVertex
  PROVE  DomInv'
<1>1. /\ stage = "bucket" /\ todo = <<>> /\ ToVertex(pos - 1)
      /\ UNCHANGED <<graph, root, lt, tin, tout>>
  BY DEF NextVertex
<1> DEFINE T == TreeOf(graph, root, lt)
           L == Above(graph, lt, pos - 1)
<1>2. IsLt(graph, root, lt) /\ IsDfs(graph, T) /\ IsEmptying(graph, T, lt, pos, <<>>)
      /\ tin = Filled(graph, Nil) /\ tout = Filled(graph, Nil)
  BY <1>1 DEF DomInv
<1>3. /\ pos \in 2 .. Len(lt.vertex) /\ IsProcessed(graph, T, lt, L, {})
      /\ \A v \in NodeIds(graph) \ L : lt.semi[v] = v
  <2>1. ToSet(<<>>) = {}
    BY DEF ToSet
  <2> QED  BY <1>2, <2>1 DEF IsEmptying
<1>4. pos - 1 \in 1 .. Len(lt.vertex)
  <2>1. Len(lt.vertex) \in Nat
    BY <1>2, VertexFacts
  <2> QED  BY <1>3, <2>1
<1> QED  BY ONLY <1>1, <1>2, <1>3, <1>4, InvToVertex

LEMMA InvEvaluated ==
  ASSUME IsLt(graph, root, lt), IsDfs(graph, TreeOf(graph, root, lt)), NEW L, NEW rest,
         IsProcessed(graph, TreeOf(graph, root, lt), lt, L, rest), NEW v \in NodeIds(graph)
  PROVE  IsEvaluated(graph, TreeOf(graph, root, lt), lt, L, v, Eval(v), Compressed(v))
<1>1. /\ lt \in LtType(graph) /\ IsNumbering(graph, lt)
      /\ IsForest(TreeOf(graph, root, lt), lt.semi, lt.ancestor, lt.best, L)
      /\ IsUnlinked(graph, lt, L)
  BY DEF IsLt, IsProcessed
<1> QED  BY <1>1, CompressFacts DEF IsEvaluated

LEMMA InvScanPredecessor ==
  ASSUME DomInv, ScanPredecessor
  PROVE  DomInv'
<1> DEFINE v == Head(todo)
           w == lt.vertex[pos]
           u == Eval(v)
           c == Compressed(v)
           T == TreeOf(graph, root, lt)
           L == Above(graph, lt, pos)
<1>1. /\ stage = "semi" /\ todo # <<>> /\ todo' = Tail(todo)
      /\ UNCHANGED <<graph, root, stage, pos, tin, tout>>
  BY DEF ScanPredecessor
<1>2. IsLt(graph, root, lt) /\ IsDfs(graph, T) /\ IsScanning(graph, T, lt, pos, todo)
      /\ tin = Filled(graph, Nil) /\ tout = Filled(graph, Nil)
  BY <1>1 DEF DomInv
<1>3. /\ todo \in Seq(NodeIds(graph)) /\ pos \in 2 .. Len(lt.vertex) /\ w = lt.vertex[pos]
      /\ IsProcessed(graph, T, lt, L, {}) /\ ToSet(todo) \subseteq PredecessorSet(graph, w)
  BY <1>2 DEF IsScanning
<1>4. v \in NodeIds(graph) /\ Tail(todo) \in Seq(NodeIds(graph)) /\ ToSet(todo) = {v} \cup ToSet(Tail(todo))
  BY <1>1, <1>3, HeadTailElements
<1>5. CASE lt.dfnum[v] = 0
  <2>1. lt' = lt
    BY <1>5 DEF ScanPredecessor
  <2>2. v \notin T.nodes
    BY <1>5 DEF TreeOf, Found
  <2>3. T.nodes \ ToSet(Tail(todo)) = T.nodes \ ToSet(todo)
    BY <1>4, <2>2
  <2>4. IsScanning(graph, T, lt, pos, Tail(todo))
    <3> HIDE DEF T, v
    <3> QED  BY ONLY <1>2, <1>4, <2>3 DEF IsScanning
  <2> QED  BY ONLY <1>1, <1>2, <2>1, <2>4 DEF DomInv
<1>6. CASE lt.dfnum[v] # 0
  <2>1. IsEvaluated(graph, T, lt, L, v, u, c)
    BY ONLY <1>2, <1>3, <1>4, InvEvaluated
  <2>2. c.semi = lt.semi
    BY <2>1 DEF IsEvaluated
  <2>3. lt' = ScannedLt(lt, c, u, w)
    BY <1>6, <2>2 DEF ScanPredecessor, Semi, ScannedLt
  <2>4. IsLt(graph, root, lt') /\ TreeOf(graph, root, lt') = T /\ IsScanning(graph, T, lt', pos, Tail(todo))
    <3>1. v = Head(todo) /\ T = TreeOf(graph, root, lt) /\ w = lt.vertex[pos] /\ L = Above(graph, lt, pos)
      OBVIOUS
    <3> HIDE DEF u, c, v, T, w, L
    <3> QED  BY ONLY <1>1, <1>2, <1>6, <2>1, <2>3, <3>1, ScanStep
  <2> HIDE DEF T
  <2>5. T = TreeOf(graph, root, lt)
    BY DEF T
  <2> QED  BY ONLY <1>1, <1>2, <2>4, <2>5 DEF DomInv
<1> QED  BY <1>5, <1>6

LEMMA InvLink ==
  ASSUME DomInv, Link
  PROVE  DomInv'
<1> DEFINE w == lt.vertex[pos]
           p == lt.parent[w]
           buckets == BucketsOf(lt, w)
           T == TreeOf(graph, root, lt)
<1>1. /\ stage = "semi" /\ todo = <<>> /\ stage' = "bucket" /\ todo' = buckets[p]
      /\ UNCHANGED <<graph, root, pos, tin, tout>>
      /\ lt' = LinkedLt(lt, w)
  BY DEF Link, LinkedLt, BucketsOf
<1>2. IsLt(graph, root, lt) /\ IsDfs(graph, T) /\ IsScanning(graph, T, lt, pos, todo)
      /\ tin = Filled(graph, Nil) /\ tout = Filled(graph, Nil)
  BY <1>1 DEF DomInv
<1>3. IsLt(graph, root, lt') /\ TreeOf(graph, root, lt') = T /\ IsEmptying(graph, T, lt', pos, buckets[p])
  <2>1. /\ T = TreeOf(graph, root, lt) /\ w = lt.vertex[pos] /\ p = lt.parent[w]
        /\ buckets = BucketsOf(lt, w)
    OBVIOUS
  <2>2. IsScanning(graph, T, lt, pos, <<>>)
    BY <1>1, <1>2
  <2> HIDE DEF T, w, p, buckets
  <2> QED  BY ONLY <1>1, <1>2, <2>1, <2>2, LinkStep
<1>4. T = TreeOf(graph, root, lt)
  OBVIOUS
<1> HIDE DEF T, w, p, buckets
<1> QED  BY ONLY <1>1, <1>2, <1>3, <1>4 DEF DomInv

LEMMA InvEmptyBucket ==
  ASSUME DomInv, EmptyBucket
  PROVE  DomInv'
<1> DEFINE v == Head(todo)
           w == lt.vertex[pos]
           u == Eval(v)
           c == Compressed(v)
           T == TreeOf(graph, root, lt)
           L == Above(graph, lt, pos - 1)
<1>1. /\ stage = "bucket" /\ todo # <<>> /\ todo' = Tail(todo)
      /\ UNCHANGED <<graph, root, stage, pos, tin, tout>>
  BY DEF EmptyBucket
<1>2. IsLt(graph, root, lt) /\ IsDfs(graph, T) /\ IsEmptying(graph, T, lt, pos, todo)
      /\ tin = Filled(graph, Nil) /\ tout = Filled(graph, Nil)
  BY <1>1 DEF DomInv
<1>3. todo \in Seq(NodeIds(graph)) /\ pos \in 2 .. Len(lt.vertex) /\ IsProcessed(graph, T, lt, L, ToSet(todo))
  BY <1>2 DEF IsEmptying
<1>4. v \in NodeIds(graph)
  BY <1>1, <1>3, HeadTailElements
<1>5. IsEvaluated(graph, T, lt, L, v, u, c)
  BY ONLY <1>2, <1>3, <1>4, InvEvaluated
<1>6. c.idom = lt.idom
  BY <1>5 DEF IsEvaluated
<1>7. lt' = EmptiedLt(lt, c, u, v, w)
  BY <1>6 DEF EmptyBucket, EmptiedLt
<1>8. IsLt(graph, root, lt') /\ TreeOf(graph, root, lt') = T /\ IsEmptying(graph, T, lt', pos, Tail(todo))
  <2>1. v = Head(todo) /\ T = TreeOf(graph, root, lt) /\ w = lt.vertex[pos] /\ L = Above(graph, lt, pos - 1)
    OBVIOUS
  <2> HIDE DEF u, c, v, T, w, L
  <2> QED  BY ONLY <1>1, <1>2, <1>5, <1>7, <2>1, EmptyStep
<1>9. T = TreeOf(graph, root, lt)
  OBVIOUS
<1> HIDE DEF T, u, c, v, w
<1> QED  BY ONLY <1>1, <1>2, <1>8, <1>9 DEF DomInv

LEMMA InvExplicit ==
  ASSUME DomInv, Explicit
  PROVE  DomInv'
<1> DEFINE w == lt.vertex[pos + 1]
           T == TreeOf(graph, root, lt)
<1>1. /\ stage = "explicit" /\ pos < Len(lt.vertex) /\ pos' = pos + 1
      /\ UNCHANGED <<graph, root, stage, todo, tin, tout>>
      /\ lt' = IF lt.idom[w] = lt.semi[w] THEN lt
               ELSE [lt EXCEPT !.idom = [lt.idom EXCEPT ![w] = lt.idom[lt.idom[w]]]]
  BY DEF Explicit
<1>2. IsLt(graph, root, lt) /\ IsDfs(graph, T) /\ IsResolving(graph, T, lt, pos)
      /\ tin = Filled(graph, Nil) /\ tout = Filled(graph, Nil)
  BY <1>1 DEF DomInv
<1>3. T = TreeOf(graph, root, lt) /\ w = lt.vertex[pos + 1]
  OBVIOUS
<1> HIDE DEF T, w
<1>4. IsLt(graph, root, lt') /\ TreeOf(graph, root, lt') = T /\ IsResolving(graph, T, lt', pos + 1)
  BY ONLY <1>1, <1>2, <1>3, ResolveStep
<1> QED  BY ONLY <1>1, <1>2, <1>3, <1>4 DEF DomInv

LEMMA InvRootDominatesItself ==
  ASSUME DomInv, RootDominatesItself
  PROVE  DomInv'
<1> DEFINE T == TreeOf(graph, root, lt)
           D == DomTreeOf(graph, root, lt')
           kids == KidsOf(graph, root, lt')
           first == <<<<root, 1>>>>
<1>1. /\ stage = "explicit" /\ pos = Len(lt.vertex) /\ stage' = "intervals"
      /\ lt' = [lt EXCEPT !.idom = [lt.idom EXCEPT ![root] = root]]
      /\ tin' = [tin EXCEPT ![root] = 0] /\ timer' = 1 /\ stack' = first
      /\ UNCHANGED <<graph, root, tout>>
  BY DEF RootDominatesItself
<1>2. IsLt(graph, root, lt) /\ IsDfs(graph, T) /\ IsResolving(graph, T, lt, pos)
      /\ tin = Filled(graph, Nil) /\ tout = Filled(graph, Nil)
  BY <1>1 DEF DomInv
<1>3. T = TreeOf(graph, root, lt) /\ D = DomTreeOf(graph, root, lt') /\ first = <<<<root, 1>>>>
  OBVIOUS
<1> HIDE DEF T, D, kids, first
<1>4. IsLt(graph, root, lt') /\ TreeOf(graph, root, lt') = T /\ IsResolved(graph, T, lt')
  BY ONLY <1>1, <1>2, <1>3, ResolvedStep
<1>5. D.nodes = Found(graph, lt') /\ D.root = root /\ IsTree(D)
  BY ONLY <1>2, <1>3, <1>4, DomTreeIsTree
<1>6. /\ tin' \in [NodeIds(graph) -> Nat \cup {Nil}] /\ tout' \in [NodeIds(graph) -> Nat \cup {Nil}]
      /\ tin'[root] = 0 /\ (\A v \in NodeIds(graph) \ {root} : tin'[v] = Nil)
      /\ \A v \in NodeIds(graph) : tout'[v] = Nil
  <2>1. root \in NodeIds(graph)
    BY <1>2 DEF IsLt
  <2> QED  BY ONLY <1>1, <1>2, <2>1 DEF Filled
<1>7. D.nodes \subseteq NodeIds(graph) /\ root \in D.nodes
  BY <1>5 DEF Found, IsTree
<1>8. IsTiming(D, tin', tout', 1) /\ IsStacked(D, kids, first, tin', tout')
  <2>1. /\ tin'[D.root] = 0 /\ (\A v \in D.nodes \ {D.root} : tin'[v] = Nil)
        /\ (\A v \in D.nodes : tout'[v] = Nil) /\ first = <<<<D.root, 1>>>>
    BY ONLY <1>3, <1>5, <1>6, <1>7
  <2> QED  BY ONLY <1>5, <2>1, TimingBegins
<1>9. IsNumbered(graph, root, lt', first, tin', tout', 1)
  <2>1. \A v \in NodeIds(graph) \ Found(graph, lt') : tin'[v] = Nil
    BY <1>5, <1>6, <1>7
  <2> QED  BY <1>3, <1>6, <1>8, <2>1 DEF IsNumbered, kids
<1> QED  BY ONLY <1>1, <1>2, <1>3, <1>4, <1>9 DEF DomInv

(* What the intervals loop starts a turn with. *)
LEMMA InIntervals ==
  ASSUME DomInv, stage = "intervals",
         NEW D, D = DomTreeOf(graph, root, lt), NEW kids, kids = KidsOf(graph, root, lt)
  PROVE  /\ IsLt(graph, root, lt) /\ IsDfs(graph, TreeOf(graph, root, lt))
         /\ IsResolved(graph, TreeOf(graph, root, lt), lt)
         /\ tin \in [NodeIds(graph) -> Nat \cup {Nil}] /\ tout \in [NodeIds(graph) -> Nat \cup {Nil}]
         /\ \A v \in NodeIds(graph) \ Found(graph, lt) : tin[v] = Nil
         /\ IsTiming(D, tin, tout, timer) /\ IsStacked(D, kids, stack, tin, tout)
         /\ D.nodes = Found(graph, lt) /\ D.nodes \subseteq NodeIds(graph)
         /\ IsTree(D) /\ ListsChildren(D, kids)
         /\ \A v \in D.nodes : Children(v) = kids[v]
<1> DEFINE T == TreeOf(graph, root, lt)
<1>1. /\ IsLt(graph, root, lt) /\ IsDfs(graph, T) /\ IsResolved(graph, T, lt)
      /\ IsNumbered(graph, root, lt, stack, tin, tout, timer)
  BY DEF DomInv
<1>2. D.nodes = Found(graph, lt) /\ IsTree(D) /\ ListsChildren(D, kids)
  <2>1. T = TreeOf(graph, root, lt) /\ D = DomTreeOf(graph, root, lt) /\ kids = KidsOf(graph, root, lt)
    OBVIOUS
  <2> HIDE DEF T
  <2> QED  BY ONLY <1>1, <2>1, DomTreeIsTree
<1>3. D.nodes \subseteq NodeIds(graph)
  BY <1>2 DEF Found
<1>4. \A v \in D.nodes : Children(v) = kids[v]
  BY <1>2 DEF Children, KidsOf
<1> QED  BY <1>1, <1>2, <1>3, <1>4 DEF IsNumbered

LEMMA InvEnterChild ==
  ASSUME DomInv, EnterChild
  PROVE  DomInv'
<1> DEFINE D == DomTreeOf(graph, root, lt)
           kids == KidsOf(graph, root, lt)
           v == Last(stack)[1]
           c == kids[v][Last(stack)[2]]
           under == Advanced(stack)
           over == Opened(under, c)
<1>1. stage = "intervals" /\ stack # <<>> /\ UNCHANGED <<graph, root, stage, lt, tout>>
  BY DEF EnterChild
<1>2. /\ IsLt(graph, root, lt) /\ IsDfs(graph, TreeOf(graph, root, lt))
      /\ IsResolved(graph, TreeOf(graph, root, lt), lt)
      /\ tin \in [NodeIds(graph) -> Nat \cup {Nil}] /\ tout \in [NodeIds(graph) -> Nat \cup {Nil}]
      /\ (\A x \in NodeIds(graph) \ Found(graph, lt) : tin[x] = Nil)
      /\ IsTiming(D, tin, tout, timer) /\ IsStacked(D, kids, stack, tin, tout)
      /\ D.nodes = Found(graph, lt) /\ D.nodes \subseteq NodeIds(graph)
      /\ IsTree(D) /\ ListsChildren(D, kids)
      /\ \A x \in D.nodes : Children(x) = kids[x]
  BY ONLY DomInv, <1>1, InIntervals
<1>3. /\ v \in D.nodes /\ Entered(tin, v) /\ ~Left(tout, v)
      /\ \A x \in D.nodes : Entered(tin, x) /\ ~Left(tout, x) => Anc(D, x, v)
  BY ONLY <1>1, <1>2, TopIsOpen
<1>4. /\ HasChild(stack, kids)
      /\ IF tin[c] = Nil
         THEN tin' = [tin EXCEPT ![c] = timer] /\ timer' = timer + 1 /\ stack' = over
         ELSE stack' = under /\ UNCHANGED <<tin, timer>>
  <2>1. Children(v) = kids[v]
    BY <1>2, <1>3
  <2> QED  BY <2>1 DEF EnterChild, Advanced, HasChild, Opened
<1>5. v = Last(stack)[1] /\ c = kids[v][Last(stack)[2]] /\ under = Advanced(stack)
      /\ over = Opened(under, c) /\ D = DomTreeOf(graph, root, lt) /\ kids = KidsOf(graph, root, lt)
  OBVIOUS
<1> HIDE DEF D, kids, v, c, under, over
<1>6. /\ c \in D.nodes \ {D.root} /\ D.par[c] = v
      /\ Entered(tin, c) => IsStacked(D, kids, under, tin, tout)
      /\ \A enter2, s2 :
            ~Entered(tin, c) /\ Entered(enter2, c) /\ (\A x \in D.nodes \ {c} : enter2[x] = tin[x])
               /\ ~Left(tout, c) /\ s2 = Opened(under, c)
            => IsStacked(D, kids, s2, enter2, tout)
  <2>1. /\ stack # <<>> /\ v = Last(stack)[1] /\ c = kids[v][Last(stack)[2]]
        /\ under = Advanced(stack) /\ ListsChildren(D, kids) /\ HasChild(stack, kids)
        /\ IsStacked(D, kids, stack, tin, tout)
    BY <1>1, <1>2, <1>4, <1>5
  <2>2. c \in D.nodes \ {D.root} /\ D.par[c] = v
    <3>1. stack \in Seq(Entries(D.nodes))
      BY <2>1 DEF IsStacked
    <3> QED  BY ONLY <2>1, <3>1, NextChild
  <2>3. /\ Entered(tin, c) => IsStacked(D, kids, under, tin, tout)
        /\ \A enter2, s2 :
              ~Entered(tin, c) /\ Entered(enter2, c) /\ (\A x \in D.nodes \ {c} : enter2[x] = tin[x])
                 /\ ~Left(tout, c) /\ s2 = Opened(under, c)
              => IsStacked(D, kids, s2, enter2, tout)
    BY ONLY <2>1, StackedMoves, Z3
  <2> QED  BY ONLY <2>2, <2>3
<1>7. CASE tin[c] # Nil
  <2>1. IsStacked(D, kids, stack', tin', tout') /\ tin' = tin /\ timer' = timer /\ tout' = tout
    BY <1>1, <1>4, <1>6, <1>7 DEF Entered
  <2>2. IsNumbered(graph, root, lt, stack', tin, tout, timer)
    BY ONLY <1>2, <1>5, <2>1 DEF IsNumbered
  <2> QED  BY ONLY <1>1, <1>2, <2>1, <2>2 DEF DomInv
<1>8. CASE tin[c] = Nil
  <2>1. /\ tin' = [tin EXCEPT ![c] = timer] /\ timer' = timer + 1 /\ stack' = over /\ tout' = tout
        /\ ~Entered(tin, c)
    BY <1>1, <1>4, <1>8 DEF Entered
  <2>2. timer \in Nat /\ c \in NodeIds(graph) /\ c \in Found(graph, lt) /\ ~Left(tout, c)
    BY <1>2, <1>6, <2>1 DEF IsTiming
  <2>3. /\ tin' \in [NodeIds(graph) -> Nat \cup {Nil}] /\ tin'[c] = timer
        /\ (\A x \in NodeIds(graph) \ {c} : tin'[x] = tin[x])
    BY ONLY <1>2, <2>1, <2>2
  <2>4. Entered(tin', c) /\ \A x \in D.nodes \ {c} : tin'[x] = tin[x]
    BY <1>2, <2>2, <2>3 DEF Entered, Nil
  <2>5. IsTiming(D, tin', tout, timer + 1)
    BY ONLY <1>2, <1>3, <1>6, <2>1, <2>3, <2>4, TimingEnters
  <2>6. IsStacked(D, kids, over, tin', tout)
    BY ONLY <1>5, <1>6, <2>1, <2>2, <2>4
  <2>7. \A x \in NodeIds(graph) \ Found(graph, lt) : tin'[x] = Nil
    BY <1>2, <2>2, <2>3
  <2>8. IsNumbered(graph, root, lt, over, tin', tout, timer + 1)
    BY ONLY <1>2, <1>5, <2>3, <2>5, <2>6, <2>7 DEF IsNumbered
  <2> QED  BY ONLY <1>1, <1>2, <2>1, <2>8 DEF DomInv
<1> QED  BY <1>7, <1>8

LEMMA InvLeaveNode ==
  ASSUME DomInv, LeaveNode
  PROVE  DomInv'
<1> DEFINE D == DomTreeOf(graph, root, lt)
           kids == KidsOf(graph, root, lt)
           v == Last(stack)[1]
           rest == Front(stack)
<1>1. /\ stage = "intervals" /\ stack # <<>> /\ UNCHANGED <<graph, root, stage, lt, tin>>
      /\ tout' = [tout EXCEPT ![v] = timer] /\ timer' = timer + 1 /\ stack' = rest
      /\ Last(stack)[2] > Len(Children(v))
  BY DEF LeaveNode
<1>2. /\ IsLt(graph, root, lt) /\ IsDfs(graph, TreeOf(graph, root, lt))
      /\ IsResolved(graph, TreeOf(graph, root, lt), lt)
      /\ tin \in [NodeIds(graph) -> Nat \cup {Nil}] /\ tout \in [NodeIds(graph) -> Nat \cup {Nil}]
      /\ (\A x \in NodeIds(graph) \ Found(graph, lt) : tin[x] = Nil)
      /\ IsTiming(D, tin, tout, timer) /\ IsStacked(D, kids, stack, tin, tout)
      /\ D.nodes = Found(graph, lt) /\ D.nodes \subseteq NodeIds(graph)
      /\ IsTree(D) /\ ListsChildren(D, kids)
      /\ \A x \in D.nodes : Children(x) = kids[x]
  BY ONLY DomInv, <1>1, InIntervals
<1>3. /\ v \in D.nodes /\ Entered(tin, v) /\ ~Left(tout, v)
      /\ \A x \in D.nodes : Entered(tin, x) /\ ~Left(tout, x) => Anc(D, x, v)
  BY ONLY <1>1, <1>2, TopIsOpen
<1>4. ~HasChild(stack, kids)
  <2>1. Last(stack)[2] > Len(kids[v])
    BY <1>1, <1>2, <1>3
  <2>2. stack \in Seq(Entries(D.nodes)) /\ Last(stack)[2] \in Nat
    BY <1>1, <1>2, TopEntry DEF IsStacked
  <2>3. Len(kids[v]) \in Nat
    BY <1>2, <1>3 DEF ListsChildren
  <2> QED  BY <2>1, <2>2, <2>3 DEF HasChild
<1>5. v = Last(stack)[1] /\ rest = Front(stack)
      /\ D = DomTreeOf(graph, root, lt) /\ kids = KidsOf(graph, root, lt)
  OBVIOUS
<1> HIDE DEF D, kids, v, rest
<1>6. timer \in Nat /\ v \in NodeIds(graph)
  BY <1>2, <1>3 DEF IsTiming
<1>7. /\ tout' \in [NodeIds(graph) -> Nat \cup {Nil}] /\ tout'[v] = timer
      /\ (\A x \in D.nodes \ {v} : tout'[x] = tout[x])
  BY ONLY <1>1, <1>2, <1>6
<1>8. Left(tout', v)
  BY <1>6, <1>7 DEF Left, Nil
<1>9. /\ IsStacked(D, kids, Front(stack), tin, tout')
      /\ \A w \in D.nodes \ {D.root} : D.par[w] = v => Entered(tin, w)
  <2>1. /\ stack # <<>> /\ v = Last(stack)[1] /\ ListsChildren(D, kids) /\ ~HasChild(stack, kids)
        /\ IsStacked(D, kids, stack, tin, tout) /\ Left(tout', v)
        /\ \A x \in D.nodes \ {v} : tout'[x] = tout[x]
    BY <1>1, <1>2, <1>4, <1>5, <1>7, <1>8
  <2> QED  BY ONLY <2>1, StackedPops
<1>10. IsTiming(D, tin, tout', timer + 1)
  BY ONLY <1>2, <1>3, <1>7, <1>9, TimingLeaves
<1>11. IsNumbered(graph, root, lt, rest, tin, tout', timer + 1)
  BY ONLY <1>2, <1>5, <1>7, <1>9, <1>10 DEF IsNumbered
<1> QED  BY ONLY <1>1, <1>2, <1>11 DEF DomInv

LEMMA InvIntervalsDone ==
  ASSUME DomInv, IntervalsDone
  PROVE  DomInv'
<1>1. /\ stage = "intervals" /\ stack = <<>> /\ stage' = "tree"
      /\ UNCHANGED <<graph, root, lt, stack, tin, tout, timer>>
  BY DEF IntervalsDone
<1> QED  BY <1>1 DEF DomInv

LEMMA InvNext ==
  ASSUME DomInv, DominatorsNext \/ UNCHANGED domVars
  PROVE  DomInv'
<1>1. CASE UNCHANGED domVars
  BY <1>1 DEF domVars, DomInv
<1>2. CASE DominatorsNext
  BY <1>2, InvPopNumbered, InvNumber, InvNumbered, InvScanPredecessor, InvLink, InvEmptyBucket,
     InvNextVertex, InvExplicit, InvRootDominatesItself, InvEnterChild, InvLeaveNode,
     InvIntervalsDone DEF DominatorsNext
<1> QED  BY <1>1, <1>2

-----------------------------------------------------------------------------
(* What a finished tree t says of the graph g and the root r, for every pair of
   nodes; the tree is numbered so that a node's parent comes before it. *)
BehindOf(g, r, a) == ReachableFrom(g, r) \ ReachableAvoiding(g, {r}, {a})

IsExactTree(g, r, t) ==
    /\ IsGraph(g) /\ r \in NodeIds(g)
    /\ t.root = r /\ DOMAIN t.idom = NodeIds(g)
    /\ \A v \in NodeIds(g) : t.predecessors[v] = Predecessors(g, v)
    /\ \A v \in NodeIds(g) : IsReachable(t, v) <=> v \in ReachableFrom(g, r)
    /\ \A a, b \in NodeIds(g) : Dominates(t, a, b) <=> a = b \/ b \in BehindOf(g, r, a)
    /\ \A v \in ReachableFrom(g, r) \ {r} :
          /\ t.idom[v] \in NodeIds(g) \ {v} /\ v \in BehindOf(g, r, t.idom[v])
          /\ \A a \in NodeIds(g) \ {v} : v \in BehindOf(g, r, a) => t.idom[v] \in BehindOf(g, r, a)
    /\ t.idom[r] = r /\ \A v \in NodeIds(g) \ ReachableFrom(g, r) : t.idom[v] = Nil
    /\ \E T : IsDfs(g, T) /\ T.root = r
             /\ \A v \in T.nodes \ {r} : t.idom[v] \in T.nodes /\ T.num[t.idom[v]] < T.num[v]

(* A node the root does not reach is on no path to another. *)
LEMMA UnreachableIsAvoided ==
  ASSUME NEW g, NEW T, IsDfs(g, T), NEW a, a \notin T.nodes
  PROVE  T.nodes \subseteq Avoiding(g, T, a)
<1> SUFFICES ASSUME NEW b \in T.nodes PROVE b \in Avoiding(g, T, a)
  OBVIOUS
<1>1. T.root \in T.nodes /\ Anc(T, T.root, b)
  BY RootIsAncestor DEF IsDfs, IsTree
<1>2. T.root \in Avoiding(g, T, a)
  BY <1>1, AvoidingFacts
<1>3. \A x \in T.nodes : Anc(T, T.root, x) /\ Anc(T, x, b) /\ x # T.root => x # a
  OBVIOUS
<1> QED  BY <1>1, <1>2, <1>3, TreePath

LEMMA TreeIsExact ==
  ASSUME NEW g, NEW r, NEW l, IsLt(g, r, l), NEW T, T = TreeOf(g, r, l), IsDfs(g, T),
         IsResolved(g, T, l), NEW enter, NEW leave, NEW clock,
         IsNumbered(g, r, l, <<>>, enter, leave, clock),
         NEW t, t.root = r, t.idom = l.idom, t.tin = enter, t.tout = leave,
         \A v \in NodeIds(g) : t.predecessors[v] = Predecessors(g, v)
  PROVE  IsExactTree(g, r, t)
<1> DEFINE D == DomTreeOf(g, r, l)
           reach == ReachableFrom(g, r)
<1>1. /\ D.nodes = T.nodes /\ D.root = r /\ T.root = r /\ D.par = l.idom /\ D.num = T.num
      /\ IsTree(D) /\ T.nodes = Found(g, l)
  BY DomTreeIsTree
<1>2. T.nodes \subseteq NodeIds(g) /\ r \in T.nodes
  BY <1>1 DEF IsDfs, IsTree
<1>3. reach = T.nodes
  BY <1>1, TreeIsReachable
<1>4. /\ IsTiming(D, enter, leave, clock) /\ IsStacked(D, KidsOf(g, r, l), <<>>, enter, leave)
      /\ \A v \in NodeIds(g) \ T.nodes : enter[v] = Nil
  BY <1>1 DEF IsNumbered
<1>5. /\ \A v \in D.nodes : Entered(enter, v)
      /\ \A a, b \in D.nodes : enter[a] <= enter[b] /\ leave[b] <= leave[a] <=> Anc(D, a, b)
  <2> HIDE DEF D
  <2> QED  BY ONLY <1>1, <1>4, TimingDone
<1>6. \A a \in NodeIds(g) : BehindOf(g, r, a) = T.nodes \ Avoiding(g, T, a)
  BY <1>1, <1>3 DEF BehindOf, Avoiding
<1>7. \A v \in NodeIds(g) : enter[v] # Nil <=> v \in T.nodes
  BY <1>1, <1>4, <1>5 DEF Entered
<1>8. ASSUME NEW a \in NodeIds(g), NEW b \in NodeIds(g)
      PROVE  Dominates(t, a, b) <=> a = b \/ b \in BehindOf(g, r, a)
  <2>1. Dominates(t, a, b) <=> \/ a = b
                               \/ a \in T.nodes /\ b \in T.nodes /\ enter[a] <= enter[b] /\ leave[b] <= leave[a]
    BY <1>7 DEF Dominates
  <2>2. CASE a \in T.nodes /\ b \in T.nodes
    <3>1. enter[a] <= enter[b] /\ leave[b] <= leave[a] <=> Anc(D, a, b)
      BY <1>1, <1>5, <2>2
    <3>2. Anc(D, a, b) <=> a = b \/ b \notin Avoiding(g, T, a)
      BY <2>2, DomTreeIsExact
    <3> QED  BY <1>6, <2>1, <2>2, <3>1, <3>2
  <2>3. CASE b \notin T.nodes
    BY <1>6, <2>1, <2>3
  <2>4. CASE a \notin T.nodes
    BY <1>6, <2>1, <2>4, UnreachableIsAvoided
  <2> QED  BY <2>2, <2>3, <2>4
<1>9. ASSUME NEW v \in T.nodes \ {r}
      PROVE  /\ l.idom[v] \in NodeIds(g) \ {v} /\ v \in BehindOf(g, r, l.idom[v])
             /\ \A a \in NodeIds(g) \ {v} : v \in BehindOf(g, r, a) => l.idom[v] \in BehindOf(g, r, a)
  <2> DEFINE d == l.idom[v]
             semi == l.semi
  <2>1. IsSemi(g, T, semi) /\ IsIdom(g, T, semi, d, v)
    BY <1>1 DEF IsResolved
  <2> HIDE DEF d, semi
  <2>2. /\ d \in T.nodes /\ d # v /\ v \notin Avoiding(g, T, d)
        /\ \A a \in T.nodes : a # v => (v \notin Avoiding(g, T, a) <=> d \notin Avoiding(g, T, a))
    BY <1>1, <2>1, IdomFacts
  <2>3. \A a \in NodeIds(g) \ T.nodes : v \in Avoiding(g, T, a)
    BY UnreachableIsAvoided
  <2> QED  BY <1>2, <1>6, <2>2, <2>3 DEF d
<1>10. \A v \in T.nodes \ {r} : l.idom[v] \in T.nodes /\ T.num[l.idom[v]] < T.num[v]
  BY <1>1 DEF IsTree
<1>11. l.idom[r] = r /\ \A v \in NodeIds(g) \ T.nodes : l.idom[v] = Nil
  BY <1>1 DEF IsResolved
<1>12. IsGraph(g) /\ r \in NodeIds(g) /\ DOMAIN l.idom = NodeIds(g)
  BY DEF IsLt, LtType
<1>13. \A v \in NodeIds(g) : IsReachable(t, v) <=> v \in reach
  BY <1>3, <1>7 DEF IsReachable
<1> HIDE DEF D, reach
<1>14. \E T2 : IsDfs(g, T2) /\ T2.root = r
             /\ \A v \in T2.nodes \ {r} : t.idom[v] \in T2.nodes /\ T2.num[t.idom[v]] < T2.num[v]
  BY <1>1, <1>10
<1>15. \A v \in reach \ {r} :
          /\ t.idom[v] \in NodeIds(g) \ {v} /\ v \in BehindOf(g, r, t.idom[v])
          /\ \A a \in NodeIds(g) \ {v} : v \in BehindOf(g, r, a) => t.idom[v] \in BehindOf(g, r, a)
  BY <1>3, <1>9
<1> QED  BY <1>3, <1>8, <1>11, <1>12, <1>13, <1>14, <1>15 DEF IsExactTree, reach

LEMMA InvExact ==
  ASSUME DomInv, stage = "tree"
  PROVE  IsExactTree(graph, root, DominatorTree)
<1> DEFINE t == DominatorTree
           T == TreeOf(graph, root, lt)
<1>1. /\ IsLt(graph, root, lt) /\ IsDfs(graph, T) /\ IsResolved(graph, T, lt)
      /\ IsNumbered(graph, root, lt, <<>>, tin, tout, timer)
  BY DEF DomInv
<1>2. /\ t.root = root /\ t.idom = lt.idom /\ t.tin = tin /\ t.tout = tout
      /\ \A v \in NodeIds(graph) : t.predecessors[v] = Predecessors(graph, v)
  BY DEF DominatorTree
<1>3. T = TreeOf(graph, root, lt)
  OBVIOUS
<1> HIDE DEF t, T
<1> QED  BY ONLY <1>1, <1>2, <1>3, TreeIsExact DEF t

LEMMA InvIsExact ==
  ASSUME DomInv
  PROVE  DominatorsAreExact
<1> SUFFICES ASSUME stage = "tree" PROVE DominatorsAreExact
  BY DEF DominatorsAreExact
<1> DEFINE t == DominatorTree
           reach == ReachableFrom(graph, root)
<1>1. IsExactTree(graph, root, t)
  BY InvExact
<1>2. t.root = root
  BY DEF DominatorTree
<1>3. \A a \in NodeIds(graph) : Behind(graph, root)[a] = BehindOf(graph, root, a)
  BY DEF Behind, BehindOf
<1> HIDE DEF t
<1>4. \A v \in NodeIds(graph) : IsReachable(t, v) <=> v \in reach
  BY <1>1 DEF IsExactTree
<1>5. \A a, b \in NodeIds(graph) : Dominates(t, a, b) <=> a = b \/ b \in Behind(graph, root)[a]
  BY <1>1, <1>3 DEF IsExactTree
<1>6. reach \subseteq NodeIds(graph)
  <2> DEFINE starts == {root}
             closed == {}
  <2>1. IsGraph(graph) /\ starts \in SUBSET NodeIds(graph) /\ reach = ReachableAvoiding(graph, starts, closed)
    BY <1>1 DEF IsExactTree, ReachableFrom
  <2> HIDE DEF reach, starts, closed
  <2>2. reach \subseteq NodeIds(graph) \ closed
    BY <2>1, ReachableFacts
  <2> QED  BY <2>2
<1>7. ASSUME NEW v \in reach \ {root},
             NEW strict, strict = {a \in NodeIds(graph) \ {v} : v \in Behind(graph, root)[a]}
      PROVE  /\ ImmediateDominator(t, v) \in strict
             /\ \A a \in strict : ImmediateDominator(t, v) \in Behind(graph, root)[a]
  <2>1. ImmediateDominator(t, v) = t.idom[v]
    BY <1>2 DEF ImmediateDominator
  <2>2. /\ t.idom[v] \in NodeIds(graph) \ {v} /\ v \in BehindOf(graph, root, t.idom[v])
        /\ \A a \in NodeIds(graph) \ {v} :
               v \in BehindOf(graph, root, a) => t.idom[v] \in BehindOf(graph, root, a)
    BY <1>1 DEF IsExactTree
  <2> DEFINE d == ImmediateDominator(t, v)
  <2> HIDE DEF d
  <2>3. /\ d \in NodeIds(graph) \ {v} /\ v \in Behind(graph, root)[d]
        /\ \A a \in NodeIds(graph) \ {v} :
               v \in Behind(graph, root)[a] => d \in Behind(graph, root)[a]
    BY <1>3, <2>1, <2>2 DEF d
  <2>4. d \in strict /\ \A a \in strict : a \in NodeIds(graph) \ {v} /\ v \in Behind(graph, root)[a]
    BY <2>3, <1>7
  <2> QED  BY ONLY <2>3, <2>4 DEF d
<1> HIDE DEF reach
<1> QED  BY <1>4, <1>5, <1>7 DEF DominatorsAreExact, t, reach

-----------------------------------------------------------------------------
(* Being behind a node is a partial order, and the nodes a node is behind are
   one behind the other. *)
LEMMA BehindFacts ==
  ASSUME NEW g, NEW T, IsDfs(g, T), NEW r, r = T.root
  PROVE  /\ ReachableFrom(g, r) = T.nodes
         /\ \A a, b : b \in BehindOf(g, r, a) <=> b \in T.nodes /\ b \notin Avoiding(g, T, a)
         /\ \A a, b : b \in BehindOf(g, r, a) => a \in T.nodes /\ b \in T.nodes
         /\ \A a \in T.nodes : a \in BehindOf(g, r, a) /\ a \in BehindOf(g, r, r)
         /\ \A a, b, c : b \in BehindOf(g, r, a) /\ c \in BehindOf(g, r, b) => c \in BehindOf(g, r, a)
         /\ \A a, b : b \in BehindOf(g, r, a) /\ a \in BehindOf(g, r, b) => a = b
         /\ \A a, b, c : c \in BehindOf(g, r, a) /\ c \in BehindOf(g, r, b)
                            => a \in BehindOf(g, r, b) \/ b \in BehindOf(g, r, a)
         /\ \A a, p, v : p \in T.nodes /\ v \in SuccessorSet(g, p) /\ v \in BehindOf(g, r, a) /\ v # a
                            => p \in BehindOf(g, r, a)
<1>1. ReachableFrom(g, r) = T.nodes
  BY TreeIsReachable
<1>2. \A a, b : b \in BehindOf(g, r, a) <=> b \in T.nodes /\ b \notin Avoiding(g, T, a)
  BY <1>1 DEF BehindOf, Avoiding
<1>3. \A a, b : b \in BehindOf(g, r, a) => a \in T.nodes /\ b \in T.nodes
  BY <1>2, UnreachableIsAvoided
<1>4. T.root \in T.nodes
  BY DEF IsDfs, IsTree
<1>5. Avoiding(g, T, r) = {}
  <2> DEFINE Y == {}
  <2>1. (T.root # r => T.root \in Y)
         /\ \A v \in Y \cap Avoiding(g, T, r) : \A w \in SuccessorSet(g, v) : w # r => w \in Y
    OBVIOUS
  <2> HIDE DEF Y
  <2>2. Avoiding(g, T, r) \subseteq Y
    BY <2>1, AvoidingFacts
  <2> QED  BY <2>2 DEF Y
<1>6. \A a \in T.nodes : a \in BehindOf(g, r, a) /\ a \in BehindOf(g, r, r)
  BY <1>2, <1>5, AvoidingFacts
<1>7. ASSUME NEW a, NEW b, NEW c, b \in BehindOf(g, r, a), c \in BehindOf(g, r, b)
      PROVE  c \in BehindOf(g, r, a)
  <2>0. b \in T.nodes /\ c \in T.nodes /\ b \notin Avoiding(g, T, a) /\ c \notin Avoiding(g, T, b)
    BY <1>2, <1>7
  <2> DEFINE Y == Avoiding(g, T, a) \cap Avoiding(g, T, b)
  <2>1. CASE a = r
    BY <1>2, <1>5, <2>0, <2>1
  <2>2. CASE a # r
    <3>1. r \in Avoiding(g, T, a) /\ b # r
      BY <2>0, <2>2, AvoidingFacts
    <3>2. r \in Y
      BY <3>1, AvoidingFacts
    <3>3. \A x \in Y : \A y \in SuccessorSet(g, x) : y # a => y \in Y
      BY <2>0, AvoidingFacts
    <3>4. Avoiding(g, T, a) \subseteq Y
      <4>1. (T.root # a => T.root \in Y)
             /\ \A x \in Y \cap Avoiding(g, T, a) : \A y \in SuccessorSet(g, x) : y # a => y \in Y
        BY <3>2, <3>3
      <4> HIDE DEF Y
      <4> QED  BY <4>1, AvoidingFacts
    <3> QED  BY <1>2, <2>0, <3>4
  <2> QED  BY <2>1, <2>2
<1>8. \A a, b : b \in BehindOf(g, r, a) => Anc(T, a, b)
  BY <1>2, <1>3, DominatorIsAncestor
<1>9. ASSUME NEW a, NEW b, b \in BehindOf(g, r, a), a \in BehindOf(g, r, b)
      PROVE  a = b
  <2>1. Anc(T, a, b) /\ Anc(T, b, a) /\ a \in T.nodes /\ b \in T.nodes
    BY <1>3, <1>8, <1>9
  <2>2. T.num[a] <= T.num[b] /\ T.num[b] <= T.num[a] /\ T.num[a] \in Nat /\ T.num[b] \in Nat
    BY <2>1, AncNumbers DEF IsDfs, IsTree
  <2>3. T.num[a] = T.num[b]
    BY <2>2
  <2> QED  BY <2>1, <2>3 DEF IsDfs, IsTree
<1>10. ASSUME NEW a, NEW b, NEW c, c \in BehindOf(g, r, a), c \in BehindOf(g, r, b), Anc(T, a, b)
       PROVE  b \in BehindOf(g, r, a)
  <2>0. a \in T.nodes /\ b \in T.nodes /\ c \in T.nodes /\ Anc(T, b, c) /\ c \notin Avoiding(g, T, a)
    BY <1>2, <1>3, <1>8, <1>10
  <2> SUFFICES ASSUME b \in Avoiding(g, T, a) PROVE FALSE
    BY <1>2, <2>0
  <2>1. \A x \in T.nodes : Anc(T, b, x) /\ Anc(T, x, c) /\ x # b => x # a
    <3> SUFFICES ASSUME Anc(T, b, a) PROVE a = b
      OBVIOUS
    <3>1. T.num[a] <= T.num[b] /\ T.num[b] <= T.num[a] /\ T.num[a] \in Nat /\ T.num[b] \in Nat
      BY <1>10, <2>0, AncNumbers DEF IsDfs, IsTree
    <3>2. T.num[a] = T.num[b]
      BY <3>1
    <3> QED  BY <2>0, <3>2 DEF IsDfs, IsTree
  <2> QED  BY <2>0, <2>1, TreePath
<1>11. ASSUME NEW a, NEW b, NEW c, c \in BehindOf(g, r, a), c \in BehindOf(g, r, b)
       PROVE  a \in BehindOf(g, r, b) \/ b \in BehindOf(g, r, a)
  <2>1. Anc(T, a, c) /\ Anc(T, b, c) /\ a \in T.nodes /\ b \in T.nodes /\ c \in T.nodes
    BY <1>3, <1>8, <1>11
  <2>2. T.num[a] <= T.num[b] \/ T.num[b] <= T.num[a]
    BY <2>1 DEF IsDfs, IsTree
  <2>3. Anc(T, a, b) \/ Anc(T, b, a)
    BY <2>1, <2>2, AncestorsAreChain
  <2> QED  BY <1>10, <1>11, <2>3
<1>12. ASSUME NEW a, NEW p, NEW v, p \in T.nodes, v \in SuccessorSet(g, p), v \in BehindOf(g, r, a), v # a
       PROVE  p \in BehindOf(g, r, a)
  BY <1>2, <1>12, AvoidingFacts
<1> QED  BY <1>1, <1>2, <1>3, <1>6, <1>7, <1>9, <1>11, <1>12

(* The walk of compute_dominance_frontiers is a walk on a graph. *)
WalkGraph(t, n) ==
    [count |-> n,
     succ |-> [u \in 0 .. n - 1 |-> IF u = t.root \/ t.idom[u] = Nil THEN <<>> ELSE <<t.idom[u]>>]]

LEMMA WalkIsGraph ==
  ASSUME NEW n \in Nat, NEW t, \A u \in 0 .. n - 1 : t.idom[u] \in 0 .. n - 1 \/ t.idom[u] = Nil,
         NEW h, h = WalkGraph(t, n)
  PROVE  /\ IsGraph(h) /\ h.count = n /\ NodeIds(h) = 0 .. n - 1
         /\ \A u \in 0 .. n - 1 :
               SuccessorSet(h, u) = IF u = t.root \/ t.idom[u] = Nil THEN {} ELSE {t.idom[u]}
<1> DEFINE row(u) == IF u = t.root \/ t.idom[u] = Nil THEN <<>> ELSE <<t.idom[u]>>
<1>1. h.count = n /\ h.succ = [u \in 0 .. n - 1 |-> row(u)]
  BY DEF WalkGraph
<1>2. NodeIds(h) = 0 .. n - 1
  BY <1>1 DEF NodeIds
<1>3. ASSUME NEW u \in 0 .. n - 1
      PROVE  /\ row(u) \in Seq(0 .. n - 1)
             /\ ToSet(row(u)) = IF u = t.root \/ t.idom[u] = Nil THEN {} ELSE {t.idom[u]}
  <2>1. CASE u = t.root \/ t.idom[u] = Nil
    <3>1. row(u) = <<>>
      BY <2>1
    <3>2. ToSet(<<>>) = {}
      BY DEF ToSet
    <3>3. <<>> \in Seq(0 .. n - 1)
      OBVIOUS
    <3> QED  BY <2>1, <3>1, <3>2, <3>3
  <2>2. CASE ~(u = t.root \/ t.idom[u] = Nil)
    <3> DEFINE d == t.idom[u]
    <3>1. row(u) = <<d>> /\ d \in 0 .. n - 1
      BY <2>2
    <3>2. <<d>> \in Seq(0 .. n - 1) /\ ToSet(<<d>>) = {d}
      <4> HIDE DEF d
      <4>1. Len(<<d>>) = 1 /\ <<d>>[1] = d /\ DOMAIN <<d>> = {1}
        OBVIOUS
      <4> QED  BY <3>1, <4>1 DEF ToSet
    <3> QED  BY <2>2, <3>1, <3>2
  <2> QED  BY <2>1, <2>2
<1> HIDE DEF row
<1>4. IsGraph(h)
  BY <1>1, <1>2, <1>3 DEF IsGraph
<1> QED  BY <1>1, <1>2, <1>3, <1>4 DEF SuccessorSet

LEMMA RunnersAreReached ==
  ASSUME NEW n \in Nat, NEW t, DOMAIN t.idom = 0 .. n - 1,
         \A u \in 0 .. n - 1 : t.idom[u] \in 0 .. n - 1 \/ t.idom[u] = Nil,
         NEW v, NEW p \in 0 .. n - 1, NEW closed, closed = {ImmediateDominator(t, v), Nil},
         NEW h, h = WalkGraph(t, n)
  PROVE  Runners(t, v, p) = ReachableAvoiding(h, {p}, closed)
<1> DEFINE stop == ImmediateDominator(t, v)
           N == 0 .. n - 1
           Body(R, k) == IF k = 0 THEN {p} \ {stop}
                         ELSE R[k - 1] \cup ({t.idom[u] : u \in R[k - 1] \ {t.root}} \ {stop, Nil})
           Def(R) == R = [k \in 0 .. n |-> Body(R, k)]
           starts == {p}
<1>1. IsGraph(h) /\ h.count = n /\ NodeIds(h) = N
      /\ \A u \in N : SuccessorSet(h, u) = IF u = t.root \/ t.idom[u] = Nil THEN {} ELSE {t.idom[u]}
  BY WalkIsGraph, Z3
<1>2. Cardinality(DOMAIN t.idom) = n
  BY FS_Interval
<1>3. PICK R : IsRounds(R, h, starts, closed) /\ ReachableAvoiding(h, starts, closed) = R[h.count]
  <2>1. starts \in SUBSET NodeIds(h)
    BY <1>1
  <2> HIDE DEF starts
  <2> QED  BY <1>1, <2>1, ReachableRounds
<1>4. /\ R \in [0 .. n -> SUBSET N] /\ R[0] = starts \ closed
      /\ \A k \in 1 .. n : R[k] = Grows(h, closed, R[k - 1])
  BY <1>1, <1>3 DEF IsRounds
<1>5. ASSUME NEW X \in SUBSET N
      PROVE  Grows(h, closed, X) = X \cup ({t.idom[u] : u \in X \ {t.root}} \ {stop, Nil})
  <2>1. \A u \in X : SuccessorSet(h, u) \ {Nil} = IF u = t.root THEN {} ELSE {t.idom[u]} \ {Nil}
    BY <1>1 DEF Nil
  <2> DEFINE A == UNION {SuccessorSet(h, u) : u \in X}
             B == {t.idom[u] : u \in X \ {t.root}}
  <2>2. \A x : x \in A <=> \E u \in X : x \in SuccessorSet(h, u)
    OBVIOUS
  <2>3. \A x : x \in B <=> \E u \in X : u # t.root /\ x = t.idom[u]
    OBVIOUS
  <2>4. \A x : x # Nil => (x \in A <=> x \in B)
    <3> HIDE DEF A, B
    <3> QED  BY <2>1, <2>2, <2>3
  <2>5. Grows(h, closed, X) = X \cup (A \ closed)
    BY DEF Grows
  <2> HIDE DEF A
  <2>6. A \ closed = B \ {stop, Nil}
    <3> HIDE DEF B, stop
    <3> QED  BY <2>4 DEF stop
  <2> QED  BY <2>5, <2>6
<1>6. \A k \in 0 .. n : R[k] = Body(R, k)
  <2>1. R[0] = Body(R, 0)
    BY <1>4 DEF Nil
  <2>2. ASSUME NEW k \in 1 .. n PROVE R[k] = Body(R, k)
    <3>1. k - 1 \in 0 .. n /\ k # 0
      OBVIOUS
    <3>2. R[k - 1] \in SUBSET N
      BY <1>4, <3>1
    <3> QED  BY <1>4, <1>5, <3>1, <3>2
  <2>3. \A k \in 0 .. n : k = 0 \/ k \in 1 .. n
    OBVIOUS
  <2> HIDE DEF Body
  <2> QED  BY <2>1, <2>2, <2>3
<1>7. Def(R)
  <2>1. R = [k \in 0 .. n |-> R[k]]
    BY <1>4
  <2> QED  BY <1>6, <2>1
<1> DEFINE R2 == CHOOSE R0 : Def(R0)
<1>8. Def(R2) /\ Runners(t, v, p) = R2[n]
  BY <1>2, <1>7 DEF Runners
<1> HIDE DEF R2
<1>9. \A k \in 0 .. n : R2[k] = Body(R2, k)
  BY <1>8
<1> DEFINE Good == {k \in Nat : k <= n => R2[k] = R[k]}
<1>10. 0 \in Good
  <2>1. 0 \in 0 .. n /\ Body(R, 0) = Body(R2, 0)
    OBVIOUS
  <2> HIDE DEF Body
  <2>2. R2[0] = R[0]
    BY <1>6, <1>9, <2>1
  <2> QED  BY <2>2
<1>11. ASSUME NEW k \in Good PROVE k + 1 \in Good
  <2> SUFFICES ASSUME k + 1 <= n PROVE R2[k + 1] = R[k + 1]
    OBVIOUS
  <2>1. k + 1 \in 0 .. n /\ (k + 1) - 1 = k /\ k + 1 # 0 /\ R2[k] = R[k]
    BY <1>11
  <2>2. Body(R, k + 1) = Body(R2, k + 1)
    BY <2>1
  <2> HIDE DEF Body
  <2> QED  BY <1>6, <1>9, <2>1, <2>2
<1>12. Good = Nat
  <2>1. Good \in SUBSET Nat
    OBVIOUS
  <2> HIDE DEF Good
  <2> QED  BY <1>10, <1>11, <2>1, Induction
<1>13. n \in Good
  BY <1>12
<1> QED  BY <1>1, <1>3, <1>8, <1>13

(* A walk from p passes p and, with a node, its immediate dominator, up to where
   it stops; and no other node. *)
LEMMA RunnersFacts ==
  ASSUME NEW g, NEW r, NEW t, IsExactTree(g, r, t), NEW v, NEW p \in NodeIds(g),
         NEW stop, stop = ImmediateDominator(t, v), NEW X, X = Runners(t, v, p)
  PROVE  /\ X \subseteq NodeIds(g) /\ stop \notin X
         /\ p # stop => p \in X
         /\ \A u \in X : u # r /\ t.idom[u] # stop /\ t.idom[u] # Nil => t.idom[u] \in X
         /\ \A Y : /\ p # stop => p \in Y
                   /\ \A u \in X \cap Y : u # r /\ t.idom[u] # stop /\ t.idom[u] # Nil => t.idom[u] \in Y
                   => X \subseteq Y
<1> DEFINE n == g.count
           h == WalkGraph(t, n)
           starts == {p}
           closed == {ImmediateDominator(t, v), Nil}
<1>1. n \in Nat /\ NodeIds(g) = 0 .. n - 1 /\ t.root = r /\ DOMAIN t.idom = 0 .. n - 1
  BY DEF IsExactTree, IsGraph, NodeIds
<1>2. \A u \in 0 .. n - 1 : t.idom[u] \in 0 .. n - 1 \/ t.idom[u] = Nil
  BY <1>1 DEF IsExactTree
<1>3. /\ IsGraph(h) /\ h.count = n /\ NodeIds(h) = 0 .. n - 1
      /\ \A u \in 0 .. n - 1 :
            SuccessorSet(h, u) = IF u = r \/ t.idom[u] = Nil THEN {} ELSE {t.idom[u]}
  <2>1. h = WalkGraph(t, n)
    OBVIOUS
  <2> HIDE DEF h, n
  <2> QED  BY <1>1, <1>2, <2>1, WalkIsGraph
<1>4. X = ReachableAvoiding(h, starts, closed)
  <2>1. h = WalkGraph(t, n) /\ p \in 0 .. n - 1
    BY <1>1
  <2> HIDE DEF h, n
  <2> QED  BY <1>1, <1>2, <2>1, RunnersAreReached
<1>5. starts \in SUBSET NodeIds(h)
  BY <1>1, <1>3
<1> HIDE DEF starts, closed, h, n
<1>6. /\ X \subseteq NodeIds(h) \ closed /\ starts \ closed \subseteq X /\ IsClosed(h, closed, X)
      /\ \A Y : starts \ closed \subseteq Y
                 /\ (\A u \in X \cap Y : SuccessorSet(h, u) \ closed \subseteq Y)
              => X \subseteq Y
  <2>1. IsGraph(h)
    BY <1>3
  <2> QED  BY ONLY <1>4, <1>5, <2>1, ReachableFacts
<1>7. closed = {stop, Nil} /\ starts = {p} /\ p # Nil
  BY <1>1 DEF closed, starts, Nil
<1>8. X \subseteq NodeIds(g) /\ stop \notin X /\ (p # stop => p \in X)
  BY <1>1, <1>3, <1>6, <1>7
<1>9. ASSUME NEW u \in X, u # r, t.idom[u] # stop, t.idom[u] # Nil PROVE t.idom[u] \in X
  <2>1. SuccessorSet(h, u) = {t.idom[u]}
    BY <1>1, <1>3, <1>8, <1>9
  <2> QED  BY <1>6, <1>7, <1>9, <2>1 DEF IsClosed
<1>10. ASSUME NEW Y, p # stop => p \in Y,
              \A u \in X \cap Y : u # r /\ t.idom[u] # stop /\ t.idom[u] # Nil => t.idom[u] \in Y
       PROVE  X \subseteq Y
  <2>1. starts \ closed \subseteq Y
    BY <1>7, <1>10
  <2>2. ASSUME NEW u \in X \cap Y PROVE SuccessorSet(h, u) \ closed \subseteq Y
    <3>1. SuccessorSet(h, u) = IF u = r \/ t.idom[u] = Nil THEN {} ELSE {t.idom[u]}
      BY <1>1, <1>3, <1>8
    <3> QED  BY <1>7, <1>10, <3>1
  <2> QED  BY <1>6, <2>1, <2>2
<1> QED  BY <1>8, <1>9, <1>10

(* From a predecessor of v the walk passes the nodes the predecessor is behind
   and v, unless it is the same, is not. *)
LEMMA RunnersAreExact ==
  ASSUME NEW g, NEW r, NEW t, IsExactTree(g, r, t), NEW v \in NodeIds(g), NEW p \in PredecessorSet(g, v),
         NEW u \in ReachableFrom(g, r)
  PROVE  u \in Runners(t, v, p)
            <=> p \in BehindOf(g, r, u) /\ (u = v \/ v \notin BehindOf(g, r, u))
<1> DEFINE X == Runners(t, v, p)
           stop == ImmediateDominator(t, v)
           B(a) == BehindOf(g, r, a)
<1>0. PICK T : /\ IsDfs(g, T) /\ T.root = r
               /\ \A x \in T.nodes \ {r} : t.idom[x] \in T.nodes /\ T.num[t.idom[x]] < T.num[x]
  BY DEF IsExactTree
<1>1. /\ ReachableFrom(g, r) = T.nodes
      /\ \A a, b : b \in B(a) => a \in T.nodes /\ b \in T.nodes
      /\ \A a \in T.nodes : a \in B(a) /\ a \in B(r)
      /\ \A a, b, c : b \in B(a) /\ c \in B(b) => c \in B(a)
      /\ \A a, b : b \in B(a) /\ a \in B(b) => a = b
      /\ \A a, b, c : c \in B(a) /\ c \in B(b) => a \in B(b) \/ b \in B(a)
      /\ \A a, q, w : q \in T.nodes /\ w \in SuccessorSet(g, q) /\ w \in B(a) /\ w # a => q \in B(a)
  <2>1. IsDfs(g, T) /\ r = T.root
    BY <1>0
  <2> QED  BY ONLY <2>1, BehindFacts
<1>2. /\ p \in NodeIds(g) /\ v \in SuccessorSet(g, p) /\ T.nodes \subseteq NodeIds(g) /\ r \in T.nodes
      /\ (p \in T.nodes => v \in T.nodes) /\ t.root = r
  BY <1>0 DEF PredecessorSet, IsDfs, IsForward, IsTree, IsExactTree
<1>3. /\ \A x \in T.nodes \ {r} :
          /\ t.idom[x] \in T.nodes /\ t.idom[x] # x /\ x \in B(t.idom[x]) /\ t.idom[x] # Nil
          /\ \A a \in T.nodes \ {x} : x \in B(a) => t.idom[x] \in B(a)
      /\ \A x \in NodeIds(g) \ T.nodes : t.idom[x] = Nil
  <2>1. \A x \in T.nodes \ {r} :
          /\ t.idom[x] \in T.nodes /\ t.idom[x] \in NodeIds(g) \ {x} /\ x \in B(t.idom[x])
          /\ \A a \in NodeIds(g) \ {x} : x \in B(a) => t.idom[x] \in B(a)
    BY <1>0, <1>1 DEF IsExactTree
  <2>2. \A x \in NodeIds(g) : x # Nil
    BY DEF Nil, NodeIds, IsExactTree, IsGraph
  <2>3. \A x \in NodeIds(g) \ T.nodes : t.idom[x] = Nil
    BY <1>1 DEF IsExactTree
  <2> QED  BY <1>2, <2>1, <2>2, <2>3
<1>4. stop = IF v = r THEN Nil ELSE t.idom[v]
  BY <1>2 DEF ImmediateDominator
<1>5. /\ X \subseteq NodeIds(g) /\ stop \notin X /\ (p # stop => p \in X)
      /\ \A x \in X : x # r /\ t.idom[x] # stop /\ t.idom[x] # Nil => t.idom[x] \in X
      /\ \A Y : /\ p # stop => p \in Y
                /\ \A x \in X \cap Y : x # r /\ t.idom[x] # stop /\ t.idom[x] # Nil => t.idom[x] \in Y
                => X \subseteq Y
  <2>1. X = Runners(t, v, p) /\ stop = ImmediateDominator(t, v)
    OBVIOUS
  <2> HIDE DEF X, stop
  <2> QED  BY <1>2, <2>1, RunnersFacts
<1>6. u \in T.nodes
  BY <1>1
<1> HIDE DEF X, stop, B
<1>7. CASE p \notin T.nodes
  <2>1. t.idom[p] = Nil
    BY <1>2, <1>3, <1>7
  <2>2. X \subseteq {p}
    <3> DEFINE Y == {p}
    <3>1. /\ p # stop => p \in Y
          /\ \A x \in X \cap Y : x # r /\ t.idom[x] # stop /\ t.idom[x] # Nil => t.idom[x] \in Y
      BY <2>1
    <3> HIDE DEF Y
    <3>2. X \subseteq Y
      BY <1>5, <3>1
    <3> QED  BY <3>2 DEF Y
  <2>3. u \notin X /\ p \notin B(u)
    BY <1>1, <1>6, <1>7, <2>2
  <2> QED  BY <2>3 DEF X, B
<1>8. CASE p \in T.nodes
  <2>1. v \in T.nodes
    BY <1>2, <1>8
  (* What v is strictly behind, p is behind, and so is stop. *)
  <2>2. \A a : v \in B(a) /\ a # v => v # r /\ stop \in B(a) /\ p \in B(a)
    <3> SUFFICES ASSUME NEW a, v \in B(a), a # v PROVE v # r /\ stop \in B(a) /\ p \in B(a)
      OBVIOUS
    <3>1. p \in B(a) /\ a \in T.nodes
      BY <1>1, <1>2, <1>8
    <3>2. v # r
      BY <1>1, <3>1
    <3> QED  BY <1>3, <1>4, <2>1, <3>1, <3>2
  <2>3. v # r => v \in B(stop) /\ stop # v /\ p \in B(stop) /\ stop \in T.nodes
    BY <1>3, <1>4, <2>1, <2>2
  <2>4. ASSUME u \in X PROVE p \in B(u) /\ (u = v \/ v \notin B(u))
    <3> DEFINE Y == {x \in T.nodes : p \in B(x) /\ (x = v \/ v \notin B(x))}
    <3>1. ASSUME p # stop PROVE p \in Y
      <4>1. p \in B(p)
        BY <1>1, <1>8
      <4>2. ASSUME v \in B(p), p # v PROVE FALSE
        <5>1. v # r /\ stop \in B(p)
          BY <2>2, <4>2
        <5> QED  BY <1>1, <2>3, <3>1, <5>1
      <4> QED  BY <1>8, <4>1, <4>2
    <3>2. ASSUME NEW x \in X \cap Y, x # r, t.idom[x] # stop PROVE t.idom[x] \in Y
      <4> DEFINE w == t.idom[x]
      <4>1. w \in T.nodes /\ w # x /\ x \in B(w) /\ p \in B(x) /\ (x = v \/ v \notin B(x)) /\ x \in T.nodes
            /\ \A a \in T.nodes \ {x} : x \in B(a) => w \in B(a)
        BY <1>3, <3>2
      <4>2. x # stop /\ w # stop
        BY <1>5, <3>2
      <4> HIDE DEF w, Y
      <4>3. p \in B(w)
        BY <1>1, <4>1
      <4>4. ASSUME v \in B(w), w # v PROVE FALSE
        <5>1. v # r /\ stop \in B(w)
          BY <2>2, <4>4
        <5>2. x \in B(stop) \/ stop \in B(x)
          BY <1>1, <2>3, <4>1, <5>1
        <5>3. CASE x \in B(stop)
          <6>1. w \in B(stop)
            BY <2>3, <4>1, <4>2, <5>1, <5>3
          <6> QED  BY <1>1, <4>2, <5>1, <6>1
        <5>4. CASE stop \in B(x)
          <6>1. v \in B(x)
            BY <1>1, <2>3, <5>1, <5>4
          <6>2. x = v
            BY <4>1, <6>1
          <6> QED  BY <1>1, <2>3, <5>1, <5>4, <6>2
        <5> QED  BY <5>2, <5>3, <5>4
      <4> QED  BY <4>1, <4>3, <4>4 DEF Y, w
    <3> HIDE DEF Y
    <3>3. X \subseteq Y
      BY <1>5, <3>1, <3>2
    <3> QED  BY <2>4, <3>3 DEF Y
  <2>5. ASSUME p \in B(u), u = v \/ v \notin B(u) PROVE u \in X
    <3> DEFINE num == T.num
               Good == {k \in Nat : \A x \in X : x \in B(u) /\ num[x] <= k => u \in X}
    <3>0. \A x \in T.nodes : num[x] \in Nat
      BY <1>0 DEF IsDfs, IsTree
    <3>1. v # r => stop \notin B(u)
      <4> SUFFICES ASSUME v # r, stop \in B(u) PROVE FALSE
        OBVIOUS
      <4>1. v \in B(u)
        BY <1>1, <2>3
      <4>2. u = v
        BY <2>5, <4>1
      <4> QED  BY <1>1, <2>3, <4>2
    <3>2. p # stop
      <4>1. CASE v = r
        BY <1>2, <1>4, <4>1 DEF Nil, NodeIds
      <4>2. CASE v # r
        BY <2>5, <3>1, <4>2
      <4> QED  BY <4>1, <4>2
    <3>3. ASSUME NEW x \in X, x \in B(u), x # u
          PROVE  x \in T.nodes /\ t.idom[x] \in X /\ t.idom[x] \in B(u) /\ num[t.idom[x]] < num[x]
                 /\ t.idom[x] \in T.nodes
      <4>1. x \in T.nodes /\ x # r
        BY <1>1, <1>6, <3>3
      <4>2. t.idom[x] \in T.nodes /\ t.idom[x] \in B(u) /\ t.idom[x] # Nil /\ num[t.idom[x]] < num[x]
        BY <1>0, <1>3, <1>6, <3>3, <4>1
      <4>3. t.idom[x] # stop
        BY <1>4, <3>1, <4>2
      <4> QED  BY <1>5, <3>3, <4>1, <4>2, <4>3
    <3> HIDE DEF num
    <3>4. 0 \in Good
      <4> SUFFICES ASSUME NEW x \in X, x \in B(u), num[x] <= 0, x # u PROVE FALSE
        OBVIOUS
      <4> QED  BY <3>0, <3>3
    <3>5. ASSUME NEW k \in Good PROVE k + 1 \in Good
      <4> SUFFICES ASSUME NEW x \in X, x \in B(u), num[x] <= k + 1 PROVE u \in X
        OBVIOUS
      <4>1. CASE x = u
        BY <4>1
      <4>2. CASE x # u
        <5>1. t.idom[x] \in X /\ t.idom[x] \in B(u) /\ num[t.idom[x]] <= k
          BY <3>0, <3>3, <4>2
        <5> QED  BY <3>5, <5>1
      <4> QED  BY <4>1, <4>2
    <3>6. Good = Nat
      <4>1. Good \in SUBSET Nat
        OBVIOUS
      <4> HIDE DEF Good
      <4> QED  BY <3>4, <3>5, <4>1, Induction
    <3>7. num[p] \in Good /\ p \in X
      BY <1>5, <1>8, <3>0, <3>2, <3>6
    <3> QED  BY <1>8, <2>5, <3>0, <3>7
  <2> QED  BY <2>4, <2>5 DEF X, B
<1> QED  BY <1>7, <1>8

(* compute_dominance_frontiers, for one node.  One with a single predecessor is
   in no frontier, the root excepted. *)
LEMMA HoldersAreExact ==
  ASSUME NEW g, NEW r, NEW t, IsExactTree(g, r, t), NEW v \in NodeIds(g),
         NEW u \in ReachableFrom(g, r), Len(Predecessors(g, v)) >= 2 \/ v # r
  PROVE  u \in FrontierHolders(t, v)
            <=> /\ \E p \in PredecessorSet(g, v) : p \in BehindOf(g, r, u)
                /\ u = v \/ v \notin BehindOf(g, r, u)
<1> DEFINE preds == Predecessors(g, v)
<1>1. /\ preds \in Seq(NodeIds(g)) /\ ToSet(preds) = PredecessorSet(g, v)
      /\ t.predecessors[v] = preds
  BY PredecessorsType DEF IsExactTree
<1>2. CASE Len(preds) >= 2
  <2>1. FrontierHolders(t, v) = UNION {Runners(t, v, p) : p \in PredecessorSet(g, v)}
    <3>1. ~(Len(preds) < 2)
      BY <1>1, <1>2
    <3> HIDE DEF preds
    <3> QED  BY <1>1, <3>1 DEF FrontierHolders
  <2>2. \A p \in PredecessorSet(g, v) :
           u \in Runners(t, v, p) <=> p \in BehindOf(g, r, u) /\ (u = v \/ v \notin BehindOf(g, r, u))
    BY RunnersAreExact
  <2> QED  BY <2>1, <2>2
<1>3. CASE ~(Len(preds) >= 2)
  <2>1. FrontierHolders(t, v) = {} /\ v # r
    <3>1. Len(preds) < 2
      BY <1>1, <1>3
    <3> HIDE DEF preds
    <3> QED  BY <1>1, <1>3, <3>1 DEF FrontierHolders, preds
  <2> SUFFICES ASSUME NEW p \in PredecessorSet(g, v), p \in BehindOf(g, r, u),
                      u = v \/ v \notin BehindOf(g, r, u)
               PROVE  FALSE
    BY <2>1
  <2>2. \A q \in PredecessorSet(g, v) : q = p
    <3>1. Len(preds) \in Nat /\ \A i, j \in 1 .. Len(preds) : i = j
      BY <1>1, <1>3
    <3>2. \A q \in PredecessorSet(g, v) : \E i \in 1 .. Len(preds) : preds[i] = q
      BY <1>1 DEF ToSet
    <3> HIDE DEF preds
    <3> QED  BY <3>1, <3>2
  <2>3. PICK T : IsDfs(g, T) /\ T.root = r
    BY DEF IsExactTree
  <2>4. /\ \A a, b : b \in BehindOf(g, r, a) <=> b \in T.nodes /\ b \notin Avoiding(g, T, a)
        /\ \A a, b : b \in BehindOf(g, r, a) => a \in T.nodes /\ b \in T.nodes
        /\ \A a \in T.nodes : a \in BehindOf(g, r, a) /\ a \in BehindOf(g, r, r)
    BY ONLY <2>3, BehindFacts
  <2>5. p \in T.nodes /\ v \in SuccessorSet(g, p) /\ v \in T.nodes
    BY <2>3, <2>4 DEF PredecessorSet, IsDfs, IsForward
  <2>6. T.par[v] = p /\ T.num[p] < T.num[v]
    <3>1. T.par[v] \in T.nodes /\ v \in SuccessorSet(g, T.par[v]) /\ T.num[T.par[v]] < T.num[v]
          /\ T.nodes \subseteq NodeIds(g)
      BY <2>1, <2>3, <2>5 DEF IsDfs, IsTree
    <3> QED  BY <2>2, <3>1 DEF PredecessorSet
  <2>7. CASE u = v
    <3>1. Anc(T, v, p)
      BY <2>3, <2>4, <2>5, <2>7, DominatorIsAncestor
    <3>2. T.num[v] <= T.num[p] /\ T.num[v] \in Nat /\ T.num[p] \in Nat
      BY <2>3, <2>5, <3>1, AncNumbers DEF IsDfs, IsTree
    <3> QED  BY <2>6, <3>2
  <2>8. CASE u # v
    <3>1. u # r /\ v \in Avoiding(g, T, u) /\ p \notin Avoiding(g, T, u)
      BY <2>4, <2>5, <2>8
    <3> DEFINE Y == Avoiding(g, T, u) \ {v}
    <3>2. T.root \in Y
      BY <2>1, <2>3, <3>1, AvoidingFacts
    <3>3. ASSUME NEW x \in Y, NEW y \in SuccessorSet(g, x), y # u PROVE y \in Y
      <4>1. y \in Avoiding(g, T, u) /\ x \in NodeIds(g)
        BY <2>3, <3>3, AvoidingFacts
      <4>2. y # v
        BY <2>2, <3>1, <3>3, <4>1 DEF PredecessorSet
      <4> QED  BY <4>1, <4>2
    <3>4. Avoiding(g, T, u) \subseteq Y
      <4>1. (T.root # u => T.root \in Y)
             /\ \A x \in Y \cap Avoiding(g, T, u) : \A y \in SuccessorSet(g, x) : y # u => y \in Y
        BY <3>2, <3>3
      <4> HIDE DEF Y
      <4> QED  BY <2>3, <4>1, AvoidingFacts
    <3> QED  BY <3>1, <3>4
  <2> QED  BY <2>7, <2>8
<1> QED  BY <1>2, <1>3

-----------------------------------------------------------------------------
(* The calls of FlowAnalysis *)

LoopsTyped ==
    \A h \in DOMAIN forest :
        h \in NodeIds(graph) /\ forest[h].latches \in Seq(NodeIds(graph))

FlowInv ==
    /\ purpose \in {"dominance", "dependence", "canonicalize"}
    /\ IsFunction(function)
    /\ DOMAIN eh.extra \subseteq NodeIds(function)
    /\ DOMAIN eh.extra = NodeIds(function) => EhCore(eh, {})
    /\ step = "attach" => DOMAIN eh.extra = NodeIds(function)
    /\ step = "tree" /\ purpose = "canonicalize" =>
           graph = EhCfg /\ DOMAIN eh.extra = NodeIds(function)
    /\ step = "round" =>
           /\ purpose = "canonicalize"
           /\ IsGraph(graph) /\ graph.count <= function.count
           /\ LoopsTyped

LEMMA ForestTyped ==
  ASSUME NEW g, IsGraph(g), NEW t, NEW loopForest \in Forests(g, t)
  PROVE  \A h \in DOMAIN loopForest :
             h \in NodeIds(g) /\ loopForest[h].latches \in Seq(NodeIds(g))
<1> DEFINE all == [h \in Headers(g, t) |-> LoopInfo(g, t, h)]
           Nested(loop, parent, depth) ==
               [latches |-> loop.latches, body |-> loop.body, preheader |-> loop.preheader,
                exits |-> loop.exits, type |-> loop.type, parent |-> parent, depth |-> depth]
<1>1. PICK p : loopForest = [h \in DOMAIN all |-> Nested(all[h], p[h], Depth(p, h))]
  BY Zenon DEF Forests
<1> SUFFICES ASSUME NEW h \in DOMAIN loopForest
             PROVE  h \in NodeIds(g) /\ loopForest[h].latches \in Seq(NodeIds(g))
  OBVIOUS
<1>2. h \in Headers(g, t)
  BY <1>1
<1>3. h \in NodeIds(g)
  BY <1>2 DEF Headers
<1>4. loopForest[h].latches = Latches(g, t, h)
  <2>1. loopForest[h] = Nested(LoopInfo(g, t, h), p[h], Depth(p, h))
    BY <1>1, <1>2
  <2>2. LoopInfo(g, t, h).latches = Latches(g, t, h)
    BY DEF LoopInfo
  <2> QED  BY <2>1, <2>2
<1>5. Latches(g, t, h) \in Seq(NodeIds(g))
  <2> DEFINE s == Predecessors(g, h)
             S == {n \in NodeIds(g) : Dominates(t, h, n)}
  <2>1. s \in Seq(NodeIds(g))
    BY <1>3, PredecessorsType
  <2>2. Keep(s, S) \in Seq(NodeIds(g) \cap S)
    <3> HIDE DEF s, S
    <3> QED  BY <2>1, KeepFacts
  <2>3. NodeIds(g) \cap S \subseteq NodeIds(g)
    OBVIOUS
  <2> HIDE DEF s, S
  <2>4. Keep(s, S) \in Seq(NodeIds(g))
    BY <2>2, <2>3
  <2> QED  BY <2>4 DEF Latches, s, S
<1> QED  BY <1>3, <1>4, <1>5

LEMMA SpliceType ==
  ASSUME IsFunction(function), NEW h \in Nat, NEW preds \in SUBSET NodeIds(function),
         Splice(h, preds)
  PROVE  IsFunction(function') /\ function'.count = function.count + 1
<1> DEFINE n == function.count
           Redirected(t) == IF t = h THEN n ELSE t
           T == [b \in 0 .. n |->
                  CASE b = n -> <<h>>
                    [] b \in preds -> [k \in DOMAIN function.targets[b] |->
                                          Redirected(function.targets[b][k])]
                    [] OTHER -> function.targets[b]]
<1>1. function' = [function EXCEPT !.count = n + 1, !.targets = T]
  BY DEF Splice
<1>2. n \in Nat \ {0} /\ function.targets \in [NodeIds(function) -> Seq(Nat)]
  BY DEF IsFunction
<1>3. T \in [0 .. n -> Seq(Nat)]
  <2>1. ASSUME NEW b \in 0 .. n PROVE T[b] \in Seq(Nat)
    <3>1. CASE b = n
      <4>1. b \notin preds
        BY <1>2, <3>1 DEF NodeIds
      <4>2. T[b] = <<h>>
        BY <3>1, <4>1
      <4>3. <<h>> \in Seq(Nat)
        OBVIOUS
      <4> HIDE DEF T
      <4> QED  BY <4>2, <4>3
    <3>2. CASE b # n
      <4> DEFINE s == function.targets[b]
      <4>1. s \in Seq(Nat)
        BY <1>2, <3>2 DEF NodeIds
      <4>2. T[b] = IF b \in preds THEN [k \in DOMAIN s |-> Redirected(s[k])] ELSE s
        BY <3>2
      <4> HIDE DEF s, n
      <4>3. [k \in DOMAIN s |-> Redirected(s[k])] \in Seq(Nat)
        BY <1>2, <4>1
      <4> QED  BY <4>1, <4>2, <4>3
    <3> QED  BY <3>1, <3>2
  <2> QED  BY <2>1
<1> HIDE DEF T
<1>4. /\ function'.count = n + 1 /\ function'.targets = T /\ function'.clauses = function.clauses
      /\ DOMAIN function' = DOMAIN function
  BY <1>1 DEF IsFunction
<1>5. NodeIds(function') = 0 .. n
  BY <1>2, <1>4 DEF NodeIds
<1> QED  BY <1>2, <1>3, <1>4, <1>5 DEF IsFunction

LEMMA FlowInvInit == Init => FlowInv
<1> SUFFICES ASSUME Init PROVE FlowInv
  OBVIOUS
<1>1. purpose \in {"dominance", "dependence", "canonicalize"} /\ IsFunction(function)
  BY QuestionsAssumption DEF Init
<1>2. eh = NewEh(function) /\ step = "attach"
  BY DEF Init
<1>3. EhCore(eh, {}) /\ DOMAIN eh.extra = NodeIds(function)
  BY <1>1, <1>2, NewEhCore DEF NewEh
<1> QED  BY <1>1, <1>2, <1>3 DEF FlowInv

LEMMA BuildFrame == DominatorsNext => UNCHANGED <<graph, root>>
BY DEF DominatorsNext, PopNumbered, Number, Numbered, ScanPredecessor, Link, EmptyBucket,
       NextVertex, Explicit, RootDominatesItself, EnterChild, LeaveNode, IntervalsDone

LEMMA FlowInvNext == FlowInv /\ [Next]_vars => FlowInv'
<1> SUFFICES ASSUME FlowInv, [Next]_vars PROVE FlowInv'
  OBVIOUS
<1>1. CASE AttachRoots
  <2>1. step = "attach" /\ step' = step /\ purpose' = purpose /\ DOMAIN eh.extra = NodeIds(function)
    BY <1>1 DEF AttachRoots, asked, FlowInv
  <2>2. EhInv
    BY <2>1 DEF FlowInv, EhInv
  <2>3. function' = function /\ EhCore(eh', {})
    BY <1>1, <2>2, ExpandCore, FallBackCore DEF AttachRoots, AttachNext, Expand, FallBack
  <2>4. DOMAIN eh'.extra = NodeIds(function)
    BY <2>3 DEF EhCore, Eh
  <2>5. EhCore(eh, {})'
    BY <2>3 DEF EhCore, EhSound, EhExpanded, EhHanging, Known
  <2> QED  BY <2>1, <2>3, <2>4, <2>5 DEF FlowInv
<1> DEFINE Same == UNCHANGED <<function, eh, purpose>>
<1>0. ASSUME Same
      PROVE  /\ purpose' \in {"dominance", "dependence", "canonicalize"}
             /\ IsFunction(function)'
             /\ (DOMAIN eh.extra)' \subseteq NodeIds(function)'
             /\ (DOMAIN eh.extra)' = NodeIds(function)' => EhCore(eh, {})'
  BY <1>0 DEF FlowInv, EhCore, EhSound, EhExpanded, EhHanging, Known
<1>2. CASE GraphBuilt
  <2>1. Same /\ step = "attach" /\ step' = "tree"
    BY <1>2 DEF GraphBuilt, ehVars, asked
  <2>2. purpose = "canonicalize" => graph' = EhCfg'
    BY <1>2, <2>1 DEF GraphBuilt, Begin, EhCfg
  <2> QED  BY <1>0, <2>1, <2>2 DEF FlowInv
<1>3. CASE BuildTree
  <2>1. Same /\ step' = step /\ step \in {"tree", "normal"} /\ graph' = graph
    BY <1>3, BuildFrame DEF BuildTree, ehVars, asked
  <2>2. EhCfg' = EhCfg
    BY <2>1 DEF EhCfg
  <2> QED  BY <1>0, <2>1, <2>2 DEF FlowInv
<1>4. CASE TreeBuilt
  <2>1. Same /\ step' \in {"normal", "frontiers"}
    BY <1>4 DEF TreeBuilt, ehVars, asked
  <2> QED  BY <1>0, <2>1 DEF FlowInv
<1>5. CASE NormalTreeBuilt
  <2>1. Same /\ step' = "frontiers"
    BY <1>5 DEF NormalTreeBuilt, ehVars, asked
  <2> QED  BY <1>0, <2>1 DEF FlowInv
<1>6. CASE ComputeFrontier
  <2>1. Same /\ step' \in {"frontiers", "answer"}
    BY <1>6 DEF ComputeFrontier, ehVars, asked
  <2> QED  BY <1>0, <2>1 DEF FlowInv
<1>7. CASE BeginRound
  <2>1. /\ Same /\ step = "tree" /\ step' \in {"round", "answer"} /\ graph' = graph
        /\ purpose = "canonicalize" /\ forest' \in Forests(EhCfg, DominatorTree)
    BY <1>7 DEF BeginRound, ehVars, asked, domVars
  <2>2. EhInv /\ graph = EhCfg
    BY <2>1 DEF FlowInv, EhInv
  <2>3. IsGraph(EhCfg) /\ EhCfg.count = function.count /\ function.count \in Nat
    BY <2>2, EhCfgIsGraph DEF EhCfg, EhInv, IsFunction
  <2>4. LoopsTyped'
    <3>1. \A h \in DOMAIN forest' :
              h \in NodeIds(EhCfg) /\ forest'[h].latches \in Seq(NodeIds(EhCfg))
      <4> HIDE DEF Same
      <4> QED  BY <2>1, <2>3, ForestTyped
    <3> QED  BY <2>1, <2>2, <3>1 DEF LoopsTyped
  <2> QED  BY <1>0, <2>1, <2>2, <2>3, <2>4 DEF FlowInv
<1>8. ASSUME NEW h \in DOMAIN forest, NEW preds \in SUBSET NodeIds(graph),
             Looping(h), Splice(h, preds), Spliced
      PROVE  FlowInv'
  <2>1. /\ step = "round" /\ step' = step /\ eh' = eh /\ purpose' = purpose
        /\ graph' = graph /\ forest' = forest
    BY <1>8 DEF Looping, Spliced, asked, domVars
  <2>2. /\ IsFunction(function) /\ function.count \in Nat /\ graph.count \in Nat
        /\ graph.count <= function.count /\ h \in NodeIds(graph)
    BY <2>1 DEF FlowInv, LoopsTyped, IsFunction, IsGraph
  <2>3. h \in Nat /\ preds \in SUBSET NodeIds(function)
    BY <2>2 DEF NodeIds
  <2>4. IsFunction(function') /\ function'.count = function.count + 1
    BY <1>8, <2>2, <2>3, SpliceType
  <2>5. /\ DOMAIN eh.extra \subseteq NodeIds(function) /\ NodeIds(function) \subseteq NodeIds(function')
        /\ function.count \in NodeIds(function') /\ function.count \notin NodeIds(function)
    BY <2>2, <2>4 DEF FlowInv, NodeIds
  <2>6. DOMAIN eh.extra \subseteq NodeIds(function') /\ DOMAIN eh.extra # NodeIds(function')
    BY <2>5
  <2>7. graph'.count <= function'.count
    BY <2>1, <2>2, <2>4
  <2> QED  BY <2>1, <2>4, <2>6, <2>7 DEF FlowInv, LoopsTyped
<1>9. CASE InsertPreheader
  <2>1. PICK h \in DOMAIN forest : Looping(h) /\ Splice(h, NonLoopPredecessors(h)) /\ Spliced
    BY <1>9 DEF InsertPreheader
  <2>2. NonLoopPredecessors(h) \in SUBSET NodeIds(graph)
    BY DEF NonLoopPredecessors, PredecessorSet
  <2> QED  BY <1>8, <2>1, <2>2
<1>10. CASE UnifyLatches
  <2>1. PICK h \in DOMAIN forest : Looping(h) /\ Splice(h, ToSet(forest[h].latches)) /\ Spliced
    BY <1>10 DEF UnifyLatches
  <2>2. ToSet(forest[h].latches) \in SUBSET NodeIds(graph)
    <3>1. forest[h].latches \in Seq(NodeIds(graph))
      BY <2>1 DEF Looping, FlowInv, LoopsTyped
    <3> QED  BY <3>1 DEF ToSet
  <2> QED  BY <1>8, <2>1, <2>2
<1>11. CASE LeaveLoop
  <2>1. Same /\ step = "round" /\ step' = step /\ graph' = graph /\ forest' = forest
    BY <1>11 DEF LeaveLoop, Looping, ehVars, asked, domVars
  <2> QED  BY <1>0, <2>1 DEF FlowInv, LoopsTyped
<1>12. CASE EndRound
  <2>1. /\ function' = function /\ purpose' = purpose
        /\ \/ step' = "attach" /\ eh' = NewEh(function)
           \/ step' = "answer" /\ eh' = eh
    BY <1>12 DEF EndRound, asked
  <2>2. CASE step' = "answer" /\ eh' = eh
    BY <1>0, <2>1, <2>2 DEF FlowInv
  <2>3. CASE step' = "attach" /\ eh' = NewEh(function)
    <3>1. EhCore(NewEh(function), {}) /\ DOMAIN eh'.extra = NodeIds(function)
      BY <2>3, NewEhCore DEF FlowInv, NewEh
    <3>2. EhCore(eh, {})'
      BY <2>1, <2>3, <3>1 DEF EhCore, EhSound, EhExpanded, EhHanging, Known
    <3> QED  BY <2>1, <2>3, <3>1, <3>2 DEF FlowInv
  <2> QED  BY <2>1, <2>2, <2>3
<1>13. CASE UNCHANGED vars
  <2>1. Same /\ step' = step /\ graph' = graph /\ forest' = forest
    BY <1>13 DEF vars, ehVars, asked, domVars, canonVars
  <2>2. EhCfg' = EhCfg
    BY <2>1 DEF EhCfg
  <2> QED  BY <1>0, <2>1, <2>2 DEF FlowInv, LoopsTyped
<1> QED  BY <1>1, <1>2, <1>3, <1>4, <1>5, <1>6, <1>7, <1>9, <1>10, <1>11, <1>12, <1>13 DEF Next

(* Every root can be reached, whatever the function and its exception table, and
   also of the functions the rounds of canonicalize_loops leave. *)
THEOREM RootsReached == Spec => []RootsAreReachable
<1>1. FlowInv => RootsAreReachable
  <2>1. FlowInv /\ DOMAIN eh.extra = NodeIds(function) => RootsAreReachable
    BY RootsReachable DEF FlowInv, EhInv
  <2>2. DOMAIN eh.extra # NodeIds(function) => RootsAreReachable
    BY DEF RootsAreReachable
  <2> QED  BY <2>1, <2>2
<1> QED  BY <1>1, FlowInvInit, FlowInvNext, PTL DEF Spec

-----------------------------------------------------------------------------
(* The trees *)

LEMMA ReverseIsGraph ==
  ASSUME NEW n, NEW rows, NEW g, g = [count |-> n, succ |-> rows], IsGraph(g)
  PROVE  /\ IsGraph(ReverseGraph(g)) /\ VirtualExit(g) \in NodeIds(ReverseGraph(g))
         /\ NodeIds(ReverseGraph(g)) = 0 .. g.count /\ NodeIds(g) \subseteq 0 .. g.count
         /\ \A v \in NodeIds(g) : ReverseGraph(g).succ[v] = Predecessors(g, v)
         /\ ReverseGraph(g).succ[VirtualExit(g)] = Ascending(g, ExitSeeds(g))
<1> DEFINE R == ReverseGraph(g)
           row(v) == IF v = g.count THEN Ascending(g, ExitSeeds(g)) ELSE Backward(g).succ[v]
<1>1. g.count \in Nat
  BY DEF IsGraph
<1>2. R.count = g.count + 1 /\ R.succ = [v \in 0 .. g.count |-> row(v)]
  BY DEF ReverseGraph, VirtualExit
<1>3. NodeIds(R) = 0 .. g.count /\ NodeIds(g) = 0 .. g.count - 1
  BY <1>1, <1>2 DEF NodeIds
<1>4. \A v \in NodeIds(g) : v \in 0 .. g.count /\ v # g.count
  BY <1>1, <1>3
<1>5. \A v \in NodeIds(g) : Backward(g).succ[v] = Predecessors(g, v)
  BY DEF Backward
<1>6. \A v \in NodeIds(g) : Predecessors(g, v) \in Seq(NodeIds(g))
  BY PredecessorsType
<1>7. Ascending(g, ExitSeeds(g)) \in Seq(NodeIds(g))
  <2> DEFINE S == ExitSeeds(g)
  <2>1. S \in SUBSET NodeIds(g)
    BY DEF ExitSeeds
  <2> HIDE DEF S
  <2>2. Ascending(g, S) \in Seq(S)
    BY <2>1, AscendingFacts
  <2> QED  BY <2>1, <2>2 DEF S
<1> HIDE DEF R
<1>8. \A v \in 0 .. g.count : row(v) \in Seq(NodeIds(R))
  <2>1. ASSUME NEW q \in Seq(NodeIds(g)) PROVE q \in Seq(NodeIds(R))
    <3>1. NodeIds(g) \subseteq NodeIds(R)
      BY <1>3, <1>4
    <3> QED  BY <3>1
  <2>2. \A v \in 0 .. g.count : v = g.count \/ v \in NodeIds(g)
    BY <1>1, <1>3
  <2> QED  BY <1>5, <1>6, <1>7, <2>1, <2>2
<1>9. IsGraph(R)
  <2> HIDE DEF row
  <2> QED  BY <1>1, <1>2, <1>3, <1>8 DEF IsGraph
<1>10. VirtualExit(g) = g.count /\ g.count \in 0 .. g.count
  BY <1>1 DEF VirtualExit
<1>11. \A v \in NodeIds(g) : R.succ[v] = Predecessors(g, v)
  BY <1>2, <1>4, <1>5
<1> QED  BY <1>2, <1>3, <1>4, <1>9, <1>10, <1>11 DEF R

LEMMA DomInvInit == Init => DomInv
BY DEF Init, Idle, DomInv

LEMMA DomInvNext == FlowInv /\ DomInv /\ [Next]_vars => DomInv'
<1> SUFFICES ASSUME FlowInv, DomInv, [Next]_vars PROVE DomInv'
  OBVIOUS
<1>1. CASE UNCHANGED domVars
  BY <1>1, InvNext
<1>2. CASE BuildTree
  BY <1>2, InvNext DEF BuildTree
<1>3. CASE GraphBuilt
  <2>1. EhInv
    BY <1>3 DEF GraphBuilt, FlowInv, EhInv
  <2>2. IsGraph(EhCfg) /\ 0 \in NodeIds(EhCfg)
    BY <2>1, EhCfgIsGraph, FunctionHasEntry DEF EhInv, EhCfg, NodeIds
  <2>3. EhCfg = [count |-> function.count,
                 succ |-> [b \in NodeIds(function) |-> SsaCfg(function).succ[b] \o eh.extra[b]]]
    BY DEF EhCfg
  <2>4. IsGraph(ReverseGraph(EhCfg)) /\ VirtualExit(EhCfg) \in NodeIds(ReverseGraph(EhCfg))
    <3> DEFINE rows == [b \in NodeIds(function) |-> SsaCfg(function).succ[b] \o eh.extra[b]]
    <3> HIDE DEF rows
    <3> QED  BY <2>2, <2>3, ReverseIsGraph DEF rows
  <2>5. CASE Begin(EhCfg, 0)
    BY <2>2, <2>5, InvBegin
  <2>6. CASE Begin(ReverseGraph(EhCfg), VirtualExit(EhCfg))
    BY <2>4, <2>6, InvBegin
  <2> QED  BY <1>3, <2>5, <2>6 DEF GraphBuilt
<1>4. CASE TreeBuilt
  <2>1. CASE UNCHANGED domVars
    BY <2>1, <1>1
  <2>2. CASE Begin(SsaCfg(function), 0)
    <3>1. IsGraph(SsaCfg(function)) /\ 0 \in NodeIds(SsaCfg(function))
      BY SsaCfgIsGraph, FunctionHasEntry DEF FlowInv
    <3> QED  BY <2>2, <3>1, InvBegin
  <2> QED  BY <1>4, <2>1, <2>2 DEF TreeBuilt
<1>5. CASE AttachRoots \/ NormalTreeBuilt \/ ComputeFrontier \/ BeginRound \/ LeaveLoop
           \/ InsertPreheader \/ UnifyLatches \/ EndRound \/ UNCHANGED vars
  <2>1. UNCHANGED domVars
    BY <1>5 DEF AttachRoots, NormalTreeBuilt, ComputeFrontier, BeginRound, LeaveLoop,
                InsertPreheader, UnifyLatches, Spliced, EndRound, vars
  <2> QED  BY <1>1, <2>1
<1> QED  BY <1>2, <1>3, <1>4, <1>5 DEF Next

(* Every tree the analyses build, of the exception-aware graph, of the graph of
   the terminators and of the reversed graph, is exact: `dominates` compares two
   pairs of numbers and answers for all paths; and the immediate dominator is the
   strict dominator all others dominate.  What is proved of the algorithm is
   proved of every graph, however many nodes it has. *)
THEOREM TreesAreExact == Spec => []DominatorsAreExact
<1>1. FlowInv /\ DomInv /\ [Next]_vars => (FlowInv /\ DomInv)'
  BY FlowInvNext, DomInvNext
<1>2. Init => FlowInv /\ DomInv
  BY FlowInvInit, DomInvInit
<1>3. FlowInv /\ DomInv => DominatorsAreExact
  BY InvIsExact
<1> QED  BY <1>1, <1>2, <1>3, PTL DEF Spec

-----------------------------------------------------------------------------
(* EhDominance and the control dependences: the graph a tree is of, and the
   table of frontiers while it is filled. *)
TreeGraph == IF purpose = "dependence" THEN ReverseGraph(EhCfg) ELSE EhCfg
TreeRoot == IF purpose = "dependence" THEN VirtualExit(EhCfg) ELSE 0

IsFrontiers(g, t, table) ==
    /\ table \in Seq({FrontierHolders(t, v) : v \in NodeIds(g)})
    /\ Len(table) <= g.count
    /\ \A v \in NodeIds(g) : v < Len(table) => table[v + 1] = FrontierHolders(t, v)

Answering == step \in {"normal", "frontiers", "answer"} /\ purpose # "canonicalize"

ResultInv ==
    /\ step \in {"normal", "frontiers"} => purpose # "canonicalize"
    /\ step = "tree" => graph = TreeGraph /\ root = TreeRoot
    /\ step = "normal" => graph = SsaCfg(function) /\ root = 0 /\ purpose = "dominance"
    /\ purpose # "canonicalize" => DOMAIN eh.extra = NodeIds(function)
    /\ Answering =>
          /\ IsExactTree(TreeGraph, TreeRoot, tree)
          /\ step # "normal" /\ purpose = "dominance" => IsExactTree(SsaCfg(function), 0, normal)
          /\ IsFrontiers(TreeGraph, tree, frontiers)
          /\ step # "answer" => Len(frontiers) < TreeGraph.count
          /\ step = "answer" => Len(frontiers) = TreeGraph.count

LEMMA TreeGraphIsGraph ==
  ASSUME FlowInv, DOMAIN eh.extra = NodeIds(function)
  PROVE  /\ IsGraph(EhCfg) /\ IsGraph(TreeGraph) /\ TreeRoot \in NodeIds(TreeGraph)
         /\ TreeGraph.count \in Nat \ {0} /\ NodeIds(EhCfg) = NodeIds(function)
<1>1. EhInv
  BY DEF FlowInv, EhInv
<1>2. IsGraph(EhCfg) /\ 0 \in NodeIds(EhCfg) /\ NodeIds(EhCfg) = NodeIds(function)
  BY <1>1, EhCfgIsGraph, FunctionHasEntry DEF EhInv, EhCfg, NodeIds
<1>3. IsGraph(ReverseGraph(EhCfg)) /\ VirtualExit(EhCfg) \in NodeIds(ReverseGraph(EhCfg))
  <2> DEFINE rows == [b \in NodeIds(function) |-> SsaCfg(function).succ[b] \o eh.extra[b]]
  <2>1. EhCfg = [count |-> function.count, succ |-> rows]
    BY DEF EhCfg
  <2> HIDE DEF rows
  <2> QED  BY <1>2, <2>1, ReverseIsGraph
<1>4. IsGraph(TreeGraph) /\ TreeRoot \in NodeIds(TreeGraph)
  BY <1>2, <1>3 DEF TreeGraph, TreeRoot
<1>5. TreeGraph.count \in Nat \ {0}
  BY <1>4 DEF IsGraph, NodeIds
<1> QED  BY <1>2, <1>4, <1>5

Extended(t, table) == Append(table, FrontierHolders(t, Len(table)))

LEMMA FrontiersGrow ==
  ASSUME NEW g, IsGraph(g), NEW t, NEW table, IsFrontiers(g, t, table), Len(table) < g.count,
         NEW table2, table2 = Extended(t, table)
  PROVE  IsFrontiers(g, t, table2) /\ Len(table2) = Len(table) + 1
<1> DEFINE S == {FrontierHolders(t, v) : v \in NodeIds(g)}
           n == Len(table)
           F(v) == FrontierHolders(t, v)
<1>1. g.count \in Nat /\ table \in Seq(S) /\ n \in Nat /\ n \in NodeIds(g) /\ F(n) \in S
  <2>1. g.count \in Nat /\ table \in Seq(S)
    BY DEF IsFrontiers, IsGraph
  <2>2. n \in Nat
    <3> HIDE DEF S
    <3> QED  BY <2>1
  <2>3. n \in NodeIds(g)
    <3> HIDE DEF S
    <3> QED  BY <2>1, <2>2 DEF NodeIds
  <2> QED  BY <2>1, <2>2, <2>3
<1>2. table2 \in Seq(S) /\ Len(table2) = n + 1 /\ table2[n + 1] = F(n)
      /\ \A i \in 1 .. n : table2[i] = table[i]
  <2> HIDE DEF S, F
  <2>1. table2 = Append(table, F(n))
    BY DEF F, Extended
  <2> QED  BY <1>1, <2>1
<1>3. ASSUME NEW v \in NodeIds(g), v < n + 1 PROVE table2[v + 1] = F(v)
  <2>1. CASE v = n
    BY <1>2, <2>1
  <2>2. CASE v # n
    <3>1. v < n /\ v + 1 \in 1 .. n
      BY <1>1, <1>3, <2>2 DEF NodeIds
    <3> QED  BY <1>2, <3>1 DEF IsFrontiers
  <2> QED  BY <2>1, <2>2
<1>4. Len(table2) <= g.count
  BY <1>1, <1>2
<1>5. \A v \in NodeIds(g) : v < Len(table2) => table2[v + 1] = FrontierHolders(t, v)
  BY <1>2, <1>3
<1>6. table2 \in Seq({FrontierHolders(t, v) : v \in NodeIds(g)})
  BY <1>2
<1> HIDE DEF S, F, n
<1> QED  BY <1>2, <1>4, <1>5, <1>6 DEF IsFrontiers, n

LEMMA TreeSize ==
  ASSUME NEW g, NEW r, NEW t, IsExactTree(g, r, t)
  PROVE  Cardinality(DOMAIN t.idom) = g.count
<1>1. g.count \in Nat /\ DOMAIN t.idom = 0 .. g.count - 1
  BY DEF IsExactTree, IsGraph, NodeIds
<1>2. Cardinality(0 .. g.count - 1) = g.count
  <2> DEFINE n == g.count
  <2>1. n \in Nat
    BY <1>1
  <2> HIDE DEF n
  <2>2. 0 \in Int /\ n - 1 \in Int
    BY <2>1
  <2>3. Cardinality(0 .. n - 1) = IF 0 > n - 1 THEN 0 ELSE (n - 1) - 0 + 1
    BY <2>2, FS_Interval
  <2>4. Cardinality(0 .. n - 1) = n
    BY <2>1, <2>3
  <2> QED  BY <2>4 DEF n
<1> QED  BY <1>1, <1>2

LEMMA ResultInvInit == Init => ResultInv
BY DEF Init, ResultInv, Answering, NewEh

LEMMA ResultInvNext == FlowInv /\ DomInv /\ ResultInv /\ [Next]_vars => ResultInv'
<1> SUFFICES ASSUME FlowInv, DomInv, ResultInv, [Next]_vars PROVE ResultInv'
  OBVIOUS
<1> DEFINE Same == UNCHANGED <<function, eh, purpose>>
<1>0. ASSUME Same
      PROVE  /\ TreeGraph' = TreeGraph /\ TreeRoot' = TreeRoot /\ SsaCfg(function)' = SsaCfg(function)
             /\ (purpose # "canonicalize" => DOMAIN eh.extra = NodeIds(function))'
  BY <1>0 DEF TreeGraph, TreeRoot, EhCfg, ResultInv
<1>1. CASE AttachRoots
  <2>1. step' = "attach" /\ DOMAIN eh'.extra = NodeIds(function)'
    BY <1>1, FlowInvNext DEF AttachRoots, FlowInv
  <2> QED  BY <2>1 DEF ResultInv, Answering
<1>2. CASE GraphBuilt
  <2>1. /\ Same /\ step' = "tree"
        /\ IF purpose = "dependence" THEN Begin(ReverseGraph(EhCfg), VirtualExit(EhCfg))
           ELSE Begin(EhCfg, 0)
    BY <1>2 DEF GraphBuilt, ehVars, asked
  <2>2. graph' = TreeGraph /\ root' = TreeRoot
    BY <2>1 DEF Begin, TreeGraph, TreeRoot
  <2> QED  BY <1>0, <2>1, <2>2 DEF ResultInv, Answering
<1>3. CASE BuildTree
  <2>1. Same /\ UNCHANGED <<step, graph, root, tree, normal, frontiers>>
    BY <1>3, BuildFrame DEF BuildTree, ehVars, asked, resultVars
  <2> QED  BY <1>0, <2>1 DEF ResultInv, Answering
<1>4. CASE TreeBuilt
  <2>1. /\ Same /\ step = "tree" /\ stage = "tree" /\ purpose # "canonicalize"
        /\ tree' = DominatorTree /\ frontiers' = <<>>
        /\ \/ purpose = "dominance" /\ step' = "normal" /\ Begin(SsaCfg(function), 0)
           \/ purpose = "dependence" /\ step' = "frontiers"
    BY <1>4 DEF TreeBuilt, ehVars, asked, FlowInv
  <2>2. IsExactTree(TreeGraph, TreeRoot, tree')
    BY <2>1, InvExact DEF ResultInv
  <2>3. TreeGraph.count \in Nat \ {0} /\ IsGraph(TreeGraph)
    BY <2>1, TreeGraphIsGraph DEF ResultInv
  <2>4. IsFrontiers(TreeGraph, tree', frontiers') /\ Len(frontiers') < TreeGraph.count
    <3> DEFINE S == {FrontierHolders(tree', v) : v \in NodeIds(TreeGraph)}
    <3>1. <<>> \in Seq(S) /\ Len(<<>>) = 0
      <4> HIDE DEF S
      <4> QED  OBVIOUS
    <3>2. \A v \in NodeIds(TreeGraph) : ~(v < 0)
      BY <2>3 DEF NodeIds
    <3> HIDE DEF S
    <3> QED  BY <2>1, <2>3, <3>1, <3>2 DEF IsFrontiers, S
  <2>5. step' = "normal" => graph' = SsaCfg(function) /\ root' = 0 /\ purpose = "dominance"
    BY <2>1 DEF Begin
  <2>6. step' \in {"normal", "frontiers"} /\ (step' = "frontiers" => purpose # "dominance")
    BY <2>1
  <2> QED  BY <1>0, <2>1, <2>2, <2>4, <2>5, <2>6 DEF ResultInv, Answering
<1>5. CASE NormalTreeBuilt
  <2>1. /\ Same /\ step = "normal" /\ stage = "tree" /\ normal' = DominatorTree
        /\ step' = "frontiers" /\ UNCHANGED <<tree, frontiers>>
    BY <1>5 DEF NormalTreeBuilt, ehVars, asked
  <2>2. IsExactTree(SsaCfg(function), 0, normal')
    BY <2>1, InvExact DEF ResultInv
  <2> QED  BY <1>0, <2>1, <2>2 DEF ResultInv, Answering
<1>6. CASE ComputeFrontier
  <2>1. /\ Same /\ step = "frontiers" /\ UNCHANGED <<tree, normal>>
        /\ frontiers' = Append(frontiers, FrontierHolders(tree, Len(frontiers)))
        /\ step' = IF Len(frontiers') = Cardinality(DOMAIN tree.idom) THEN "answer" ELSE step
    BY <1>6 DEF ComputeFrontier, ehVars, asked
  <2>2. /\ IsExactTree(TreeGraph, TreeRoot, tree) /\ IsFrontiers(TreeGraph, tree, frontiers)
        /\ Len(frontiers) < TreeGraph.count /\ purpose # "canonicalize"
        /\ (purpose = "dominance" => IsExactTree(SsaCfg(function), 0, normal))
    BY <2>1 DEF ResultInv, Answering
  <2>3. Cardinality(DOMAIN tree.idom) = TreeGraph.count /\ IsGraph(TreeGraph)
    BY <2>2, TreeSize DEF IsExactTree
  <2>4. IsFrontiers(TreeGraph, tree, frontiers') /\ Len(frontiers') = Len(frontiers) + 1
    <3>1. frontiers' = Extended(tree, frontiers)
      BY <2>1 DEF Extended
    <3>2. /\ IsGraph(TreeGraph) /\ IsFrontiers(TreeGraph, tree, frontiers)
          /\ Len(frontiers) < TreeGraph.count /\ frontiers' = Extended(tree, frontiers)
      BY <2>2, <2>3, <3>1
    <3> QED  BY ONLY <3>2, FrontiersGrow
  <2>5. Len(frontiers') <= TreeGraph.count /\ TreeGraph.count \in Nat /\ Len(frontiers') \in Nat
    BY <2>3, <2>4 DEF IsFrontiers, IsGraph
  <2>6. /\ step' # "answer" => Len(frontiers') < TreeGraph.count
        /\ step' = "answer" => Len(frontiers') = TreeGraph.count
        /\ step' \in {"frontiers", "answer"}
    BY <2>1, <2>3, <2>5
  <2> QED  BY <1>0, <2>1, <2>2, <2>4, <2>6 DEF ResultInv, Answering
<1>7. CASE BeginRound \/ LeaveLoop \/ InsertPreheader \/ UnifyLatches \/ EndRound
  <2>1. purpose = "canonicalize" /\ purpose' = purpose /\ step' \in {"round", "answer", "attach"}
    BY <1>7 DEF BeginRound, LeaveLoop, InsertPreheader, UnifyLatches, Spliced, Looping, EndRound,
                asked, FlowInv
  <2> QED  BY <2>1 DEF ResultInv, Answering
<1>8. CASE UNCHANGED vars
  <2>1. Same /\ UNCHANGED <<step, graph, root, tree, normal, frontiers>>
    BY <1>8 DEF vars, ehVars, domVars, asked, resultVars
  <2> QED  BY <1>0, <2>1 DEF ResultInv, Answering
<1> QED  BY <1>1, <1>2, <1>3, <1>4, <1>5, <1>6, <1>7, <1>8 DEF Next

(* compute_dominance_frontiers answers for paths on every graph: a node's
   frontier holds exactly the joins it dominates a predecessor of and does not
   strictly dominate, back to the roots of the exception table. *)
THEOREM FrontiersExact == Spec => []FrontiersAreExact
<1>1. FlowInv /\ ResultInv => FrontiersAreExact
  <2> SUFFICES ASSUME FlowInv, ResultInv, step = "answer", purpose = "dominance",
                      NEW m \in NodeIds(EhCfg), Len(Predecessors(EhCfg, m)) >= 2 \/ m # 0,
                      NEW n \in ReachableFrom(EhCfg, 0)
               PROVE  InFrontierOf(n, m)
                        <=> /\ \E p \in PredecessorSet(EhCfg, m) : p \in Behind(EhCfg, 0)[n]
                            /\ n = m \/ m \notin Behind(EhCfg, 0)[n]
    BY DEF FrontiersAreExact
  <2>1. /\ IsExactTree(EhCfg, 0, tree) /\ IsFrontiers(EhCfg, tree, frontiers)
        /\ Len(frontiers) = EhCfg.count
    BY DEF ResultInv, Answering, TreeGraph, TreeRoot
  <2>2. InFrontierOf(n, m) <=> n \in FrontierHolders(tree, m)
    <3>1. m < Len(frontiers)
      BY <2>1 DEF IsExactTree, IsGraph, NodeIds
    <3> QED  BY <2>1, <3>1 DEF IsFrontiers, InFrontierOf
  <2>3. n \in FrontierHolders(tree, m)
           <=> /\ \E p \in PredecessorSet(EhCfg, m) : p \in BehindOf(EhCfg, 0, n)
               /\ n = m \/ m \notin BehindOf(EhCfg, 0, n)
    BY <2>1, HoldersAreExact
  <2>4. n \in NodeIds(EhCfg)
    <3>1. PICK T : IsDfs(EhCfg, T) /\ T.root = 0
      BY <2>1 DEF IsExactTree
    <3> QED  BY <3>1, TreeIsReachable DEF IsDfs
  <2>5. Behind(EhCfg, 0)[n] = BehindOf(EhCfg, 0, n)
    BY <2>4 DEF Behind, BehindOf
  <2> QED  BY <2>2, <2>3, <2>5
<1>2. Init => FlowInv /\ DomInv /\ ResultInv
  BY FlowInvInit, DomInvInit, ResultInvInit
<1>3. FlowInv /\ DomInv /\ ResultInv /\ [Next]_vars => (FlowInv /\ DomInv /\ ResultInv)'
  BY FlowInvNext, DomInvNext, ResultInvNext
<1> QED  BY <1>1, <1>2, <1>3, PTL DEF Spec

-----------------------------------------------------------------------------
(* Handlers.  The throwing flow of a function, edge by edge. *)
InRegion(f, b, i) == i \in DOMAIN f.clauses /\ b \in Region(f, f.clauses[i])

LEMMA ClauseFacts ==
  ASSUME NEW f, IsFunction(f), NEW i \in DOMAIN f.clauses
  PROVE  /\ f.clauses[i].start \in Nat /\ f.clauses[i].entries \in Seq(Nat)
         /\ f.clauses[i] \in [start : Nat, end : Nat, entries : Seq(Nat)]
<1> DEFINE c == f.clauses
           C == [start : Nat, end : Nat, entries : Seq(Nat)]
<1>1. c \in Seq(C)
  BY DEF IsFunction
<1> HIDE DEF C, c
<1>2. c[i] \in C
  BY <1>1 DEF c
<1> QED  BY <1>2 DEF c, C

LEMMA CatchersElements ==
  ASSUME NEW f, IsFunction(f), NEW b \in NodeIds(f)
  PROVE  /\ Catchers(f, b) \in Seq(NodeIds(f))
         /\ \A e : e \in ToSet(Catchers(f, b))
                     <=> e \in NodeIds(f) /\ \E i : InRegion(f, b, i) /\ e \in ToSet(f.clauses[i].entries)
<1> DEFINE row(i) == IF b \in Region(f, f.clauses[i]) THEN f.clauses[i].entries ELSE <<>>
           seqs == [i \in DOMAIN f.clauses |-> row(i)]
           all == FlattenSeq(seqs)
<1>1. DOMAIN f.clauses = 1 .. Len(f.clauses) /\ Len(f.clauses) \in Nat
  BY DEF IsFunction
<1>2. \A i \in DOMAIN f.clauses : row(i) \in Seq(Nat)
  BY ClauseFacts
<1>3. seqs \in Seq(Seq(Nat)) /\ DOMAIN seqs = DOMAIN f.clauses
  <2> HIDE DEF row
  <2> QED  BY <1>1, <1>2
<1>4. all \in Seq(Nat) /\ ToSet(all) = UNION {ToSet(seqs[i]) : i \in DOMAIN f.clauses}
  <2> HIDE DEF seqs
  <2> QED  BY <1>3, FlattenFacts
<1>5. Catchers(f, b) = Keep(all, NodeIds(f))
  BY DEF Catchers
<1>6. Nat \cap NodeIds(f) = NodeIds(f)
  BY DEF NodeIds, IsFunction
<1>7. /\ Keep(all, NodeIds(f)) \in Seq(NodeIds(f))
      /\ ToSet(Keep(all, NodeIds(f))) = ToSet(all) \cap NodeIds(f)
  <2> HIDE DEF all
  <2> QED  BY <1>4, <1>6, KeepFacts
<1>8. \A i \in DOMAIN f.clauses : \A e :
        e \in ToSet(seqs[i]) <=> b \in Region(f, f.clauses[i]) /\ e \in ToSet(f.clauses[i].entries)
  <2>1. ToSet(<<>>) = {}
    BY DEF ToSet
  <2>2. \A i \in DOMAIN f.clauses : seqs[i] = row(i)
    OBVIOUS
  <2>3. ASSUME NEW i \in DOMAIN f.clauses, NEW e
        PROVE  e \in ToSet(row(i)) <=> b \in Region(f, f.clauses[i]) /\ e \in ToSet(f.clauses[i].entries)
    BY <2>1
  <2> HIDE DEF seqs, row
  <2> QED  BY <2>2, <2>3
<1> HIDE DEF all, seqs, row
<1>9. \A e : e \in ToSet(all) <=> \E i \in DOMAIN f.clauses : e \in ToSet(seqs[i])
  BY <1>4
<1>10. \A e : e \in ToSet(all)
               <=> \E i : InRegion(f, b, i) /\ e \in ToSet(f.clauses[i].entries)
  BY <1>8, <1>9 DEF InRegion
<1> QED  BY <1>5, <1>7, <1>10

LEMMA ThrowingEdges ==
  ASSUME NEW f, IsFunction(f), NEW g, g = ThrowingFlow(f)
  PROVE  /\ IsGraph(g)
         /\ \A v \in NodeIds(g) : \E b \in NodeIds(f) : v = 2 * b \/ v = 2 * b + 1
         /\ \A b \in NodeIds(f) :
               /\ 2 * b \in NodeIds(g) /\ 2 * b + 1 \in NodeIds(g)
               /\ SuccessorSet(g, 2 * b) = {2 * b + 1} \cup {2 * e : e \in ToSet(Catchers(f, b))}
               /\ SuccessorSet(g, 2 * b + 1) = {2 * w : w \in SuccessorSet(SsaCfg(f), b)}
<1> DEFINE Entering(blocks) == [k \in DOMAIN blocks |-> 2 * blocks[k]]
           row(v) == IF v % 2 = 0 THEN <<v + 1>> \o Entering(Catchers(f, v \div 2))
                     ELSE Entering(SsaCfg(f).succ[v \div 2])
           N == 0 .. 2 * f.count - 1
<1>1. g.count = 2 * f.count /\ g.succ = [v \in N |-> row(v)]
  BY DEF ThrowingFlow
<1>2. f.count \in Nat /\ NodeIds(g) = N /\ NodeIds(f) = 0 .. f.count - 1
  BY <1>1 DEF IsFunction, NodeIds
<1>3. ASSUME NEW s \in Seq(NodeIds(f))
      PROVE  Entering(s) \in Seq(N) /\ ToSet(Entering(s)) = {2 * w : w \in ToSet(s)}
  <2>1. DOMAIN s = 1 .. Len(s) /\ Len(s) \in Nat /\ \A k \in DOMAIN s : s[k] \in NodeIds(f)
    OBVIOUS
  <2>2. \A k \in DOMAIN s : 2 * s[k] \in N
    BY <1>2, <2>1
  <2>3. Entering(s) \in Seq(N)
    BY <2>1, <2>2
  <2>4. ToSet(Entering(s)) = {2 * w : w \in ToSet(s)}
    BY <2>1 DEF ToSet
  <2> QED  BY <2>3, <2>4
<1>4. ASSUME NEW b \in NodeIds(f)
      PROVE  /\ 2 * b \in N /\ 2 * b + 1 \in N
             /\ row(2 * b) = <<2 * b + 1>> \o Entering(Catchers(f, b))
             /\ row(2 * b + 1) = Entering(SsaCfg(f).succ[b])
  <2>1. b \in Nat /\ b < f.count
    BY <1>2
  <2>2. (2 * b) % 2 = 0 /\ (2 * b) \div 2 = b /\ (2 * b + 1) % 2 = 1 /\ (2 * b + 1) \div 2 = b
    BY <2>1
  <2>3. 2 * b \in N /\ 2 * b + 1 \in N
    BY <1>2, <2>1
  <2>4. ASSUME NEW v, v % 2 = 0, v \div 2 = b PROVE row(v) = <<v + 1>> \o Entering(Catchers(f, b))
    BY <2>4
  <2>5. ASSUME NEW v, v % 2 = 1, v \div 2 = b PROVE row(v) = Entering(SsaCfg(f).succ[b])
    BY <2>5
  <2> HIDE DEF Entering, row
  <2> QED  BY <2>2, <2>3, <2>4, <2>5
<1>5. ASSUME NEW b \in NodeIds(f)
      PROVE  /\ row(2 * b) \in Seq(N) /\ row(2 * b + 1) \in Seq(N)
             /\ ToSet(row(2 * b)) = {2 * b + 1} \cup {2 * e : e \in ToSet(Catchers(f, b))}
             /\ ToSet(row(2 * b + 1)) = {2 * w : w \in SuccessorSet(SsaCfg(f), b)}
  <2>1. Catchers(f, b) \in Seq(NodeIds(f)) /\ SsaCfg(f).succ[b] \in Seq(NodeIds(f))
    BY CatchersElements, SsaCfgIsGraph
  <2>2. /\ Entering(Catchers(f, b)) \in Seq(N) /\ Entering(SsaCfg(f).succ[b]) \in Seq(N)
        /\ ToSet(Entering(Catchers(f, b))) = {2 * e : e \in ToSet(Catchers(f, b))}
        /\ ToSet(Entering(SsaCfg(f).succ[b])) = {2 * w : w \in SuccessorSet(SsaCfg(f), b)}
    BY <1>3, <2>1 DEF SuccessorSet
  <2>3. <<2 * b + 1>> \in Seq(N) /\ ToSet(<<2 * b + 1>>) = {2 * b + 1}
    <3> DEFINE x == 2 * b + 1
    <3>1. x \in N
      BY <1>4
    <3> HIDE DEF x, N
    <3>2. <<x>> \in Seq(N) /\ ToSet(<<x>>) = {x}
      BY <3>1 DEF ToSet
    <3> QED  BY <3>2 DEF x
  <2> DEFINE x == <<2 * b + 1>>
             y == Entering(Catchers(f, b))
  <2>4. x \o y \in Seq(N) /\ ToSet(x \o y) = ToSet(x) \cup ToSet(y)
    <3>1. x \in Seq(N) /\ y \in Seq(N)
      BY <2>2, <2>3
    <3> HIDE DEF x, y, N
    <3> QED  BY <3>1, ConcatElements
  <2> HIDE DEF Entering, N
  <2> HIDE DEF row
  <2> QED  BY <1>4, <2>2, <2>3, <2>4
<1>6. \A v \in N : \E b \in NodeIds(f) : v = 2 * b \/ v = 2 * b + 1
  <2> SUFFICES ASSUME NEW v \in N PROVE \E b \in NodeIds(f) : v = 2 * b \/ v = 2 * b + 1
    OBVIOUS
  <2>1. v \div 2 \in NodeIds(f) /\ (v = 2 * (v \div 2) \/ v = 2 * (v \div 2) + 1)
    BY <1>2
  <2> QED  BY <2>1
<1>7. \A v \in N : row(v) \in Seq(N)
  <2> HIDE DEF row, N
  <2> QED  BY <1>5, <1>6
<1>8. IsGraph(g)
  <2>1. 2 * f.count \in Nat
    BY <1>2
  <2> HIDE DEF row, N
  <2> QED  BY <1>1, <1>2, <1>7, <2>1 DEF IsGraph
<1> HIDE DEF row, N
<1> QED  BY <1>1, <1>2, <1>4, <1>5, <1>6, <1>8 DEF SuccessorSet

(* When no clause shares a handler, the root of a handler is its clause's. *)
LEMMA HandlerRoot ==
  ASSUME NEW f, IsFunction(f), HandlersAreOwn(f), NEW i \in DOMAIN f.clauses,
         NEW e \in NodeIds(f), e \in ToSet(f.clauses[i].entries)
  PROVE  \E k \in DOMAIN FlowRoots(f) :
            FlowRoots(f)[k].block = e /\ FlowRoots(f)[k].guard = Guard(f, f.clauses[i])
<1> DEFINE all == AllRoots(f)
           c == f.clauses[i]
<1>1. /\ FlowRoots(f) \in Seq(Root(f)) /\ all \in Seq(NamedRoot(f))
      /\ ToSet(all) = UNION {ToSet(ClauseRoots(f, f.clauses[j])) : j \in DOMAIN f.clauses}
      /\ ToSet(FlowRoots(f)) \subseteq ToSet(all)
      /\ \A j \in 1 .. Len(all) : all[j].block < f.count => \E r \in ToSet(FlowRoots(f)) : r.block = all[j].block
  BY FlowRootsFacts DEF IsCollected
<1>2. ASSUME NEW j \in DOMAIN f.clauses, NEW r \in ToSet(ClauseRoots(f, f.clauses[j]))
      PROVE  r.block \in ToSet(f.clauses[j].entries) /\ r.guard = Guard(f, f.clauses[j])
  <2> DEFINE s == f.clauses[j].entries
             rows == ClauseRoots(f, f.clauses[j])
  <2>1. DOMAIN rows = DOMAIN s /\ \A k \in DOMAIN s : rows[k].block = s[k] /\ rows[k].guard = Guard(f, f.clauses[j])
    BY DEF ClauseRoots
  <2> HIDE DEF s, rows
  <2>2. PICK k \in DOMAIN rows : r = rows[k]
    BY <1>2 DEF ToSet, rows
  <2>3. s[k] \in ToSet(s)
    BY <2>1, <2>2 DEF ToSet
  <2> QED  BY <2>1, <2>2, <2>3 DEF s
<1>3. \E r \in ToSet(ClauseRoots(f, c)) : r.block = e
  <2> DEFINE s == c.entries
             rows == ClauseRoots(f, c)
  <2>1. DOMAIN rows = DOMAIN s /\ \A k \in DOMAIN s : rows[k].block = s[k]
    BY DEF ClauseRoots
  <2>2. e \in ToSet(s)
    OBVIOUS
  <2> HIDE DEF s, rows
  <2>3. PICK k \in DOMAIN s : s[k] = e
    BY <2>2 DEF ToSet
  <2>4. rows[k] \in ToSet(rows) /\ rows[k].block = e
    BY <2>1, <2>3 DEF ToSet
  <2> QED  BY <2>4 DEF rows
<1>4. \E j \in 1 .. Len(all) : all[j].block = e
  <2>1. PICK r \in ToSet(all) : r.block = e
    BY <1>1, <1>3
  <2>2. DOMAIN all = 1 .. Len(all)
    BY <1>1
  <2> QED  BY <2>1, <2>2 DEF ToSet
<1>5. e < f.count
  BY DEF NodeIds, IsFunction
<1>6. PICK r \in ToSet(FlowRoots(f)) : r.block = e
  BY <1>1, <1>4, <1>5
<1>7. PICK j \in DOMAIN f.clauses : r \in ToSet(ClauseRoots(f, f.clauses[j]))
  BY <1>1, <1>6
<1>8. j = i
  BY <1>2, <1>6, <1>7 DEF HandlersAreOwn
<1>9. PICK k \in DOMAIN FlowRoots(f) : FlowRoots(f)[k] = r
  BY <1>6 DEF ToSet
<1> QED  BY <1>2, <1>6, <1>7, <1>8, <1>9

(* Control enters the block u, and completes it. *)
Into(u) == 2 * u
OutOf(u) == 2 * u + 1

IsThrowing(f, g) ==
    /\ IsGraph(g)
    /\ \A v \in NodeIds(g) : \E u \in NodeIds(f) : v = Into(u) \/ v = OutOf(u)
    /\ \A u \in NodeIds(f) : Into(u) \in NodeIds(g) /\ OutOf(u) \in NodeIds(g)
    /\ \A u \in NodeIds(f) : \A w :
          w \in SuccessorSet(g, Into(u))
             <=> \/ w = OutOf(u)
                 \/ \E i : \E e \in NodeIds(f) :
                       InRegion(f, u, i) /\ e \in ToSet(f.clauses[i].entries) /\ w = Into(e)
    /\ \A u \in NodeIds(f) : \A w :
          w \in SuccessorSet(g, OutOf(u)) <=> \E x \in SuccessorSet(SsaCfg(f), u) : w = Into(x)
    /\ \A u, w \in NodeIds(f) :
          /\ Into(u) = Into(w) => u = w
          /\ OutOf(u) = OutOf(w) => u = w
          /\ Into(u) # OutOf(w)
    /\ Into(0) = 0

LEMMA ThrowingIsThrowing ==
  ASSUME NEW f, IsFunction(f)
  PROVE  IsThrowing(f, ThrowingFlow(f))
<1> DEFINE g == ThrowingFlow(f)
<1>1. /\ IsGraph(g)
      /\ \A v \in NodeIds(g) : \E u \in NodeIds(f) : v = Into(u) \/ v = OutOf(u)
      /\ \A u \in NodeIds(f) :
            /\ Into(u) \in NodeIds(g) /\ OutOf(u) \in NodeIds(g)
            /\ SuccessorSet(g, Into(u)) = {OutOf(u)} \cup {Into(e) : e \in ToSet(Catchers(f, u))}
            /\ SuccessorSet(g, OutOf(u)) = {Into(w) : w \in SuccessorSet(SsaCfg(f), u)}
  BY ThrowingEdges DEF Into, OutOf
<1>2. \A u, w \in NodeIds(f) :
        /\ Into(u) = Into(w) => u = w
        /\ OutOf(u) = OutOf(w) => u = w
        /\ Into(u) # OutOf(w)
  BY DEF Into, OutOf, NodeIds
<1>3. Into(0) = 0
  BY DEF Into
<1> HIDE DEF g
<1>4. ASSUME NEW u \in NodeIds(f), NEW w
      PROVE  w \in SuccessorSet(g, Into(u))
               <=> \/ w = OutOf(u)
                   \/ \E i : \E e \in NodeIds(f) :
                         InRegion(f, u, i) /\ e \in ToSet(f.clauses[i].entries) /\ w = Into(e)
  <2>1. \A e : e \in ToSet(Catchers(f, u))
                 <=> e \in NodeIds(f) /\ \E i : InRegion(f, u, i) /\ e \in ToSet(f.clauses[i].entries)
    BY CatchersElements
  <2>2. w \in SuccessorSet(g, Into(u)) <=> w = OutOf(u) \/ \E e \in ToSet(Catchers(f, u)) : w = Into(e)
    BY <1>1
  <2> QED  BY <2>1, <2>2
<1>5. \A u \in NodeIds(f) : \A w :
          w \in SuccessorSet(g, OutOf(u)) <=> \E x \in SuccessorSet(SsaCfg(f), u) : w = Into(x)
  BY <1>1
<1> QED  BY <1>1, <1>2, <1>3, <1>4, <1>5 DEF IsThrowing, g

IsGuarded(f) == HandlersAreOwn(f) /\ \A c \in ToSet(f.clauses) : EnteredByItsGuard(f, c)
Start(f, i) == f.clauses[i].start

LEMMA GuardFacts ==
  ASSUME NEW f, IsFunction(f), IsGuarded(f), NEW i, NEW u \in NodeIds(f), InRegion(f, u, i)
  PROVE  /\ Start(f, i) \in NodeIds(f) /\ Guard(f, f.clauses[i]) = Start(f, i)
         /\ u = 0 => Start(f, i) = 0
         /\ \A v \in NodeIds(f) :
               u \in SuccessorSet(SsaCfg(f), v) /\ ~InRegion(f, v, i) => u = Start(f, i)
         /\ \A v \in NodeIds(f) : \A j :
               InRegion(f, v, j) /\ u \in ToSet(f.clauses[j].entries) /\ ~InRegion(f, v, i)
                   => u = Start(f, i)
         /\ SuccessorSet(SsaCfg(f), Start(f, i)) \cap ToSet(f.clauses[i].entries) = {}
<1> DEFINE c == f.clauses[i]
<1>1. i \in DOMAIN f.clauses /\ u \in Region(f, c) /\ c \in ToSet(f.clauses)
  BY DEF InRegion, ToSet
<1>2. EnteredByItsGuard(f, c)
  BY <1>1 DEF IsGuarded
<1>3. c.start \in Nat /\ c.end \in Nat /\ f.count \in Nat
  BY <1>1, ClauseFacts DEF IsFunction
<1>4. c.start \in NodeIds(f) /\ c.start \in Region(f, c) /\ Guard(f, c) = c.start
  BY <1>1, <1>3 DEF Region, NodeIds, Guard
<1>5. \A v \in NodeIds(f) : ~InRegion(f, v, i) => v \in NodeIds(f) \ Region(f, c)
  BY <1>1 DEF InRegion
<1>6. \A v \in NodeIds(f) : ~InRegion(f, v, i) =>
         (SuccessorSet(SsaCfg(f), v) \cup ToSet(Catchers(f, v))) \cap Region(f, c) \subseteq {c.start}
  BY <1>2, <1>5 DEF EnteredByItsGuard
<1>7. \A v \in NodeIds(f) : \A j :
         InRegion(f, v, j) /\ u \in ToSet(f.clauses[j].entries) => u \in ToSet(Catchers(f, v))
  BY CatchersElements
<1>8. /\ 0 \in Region(f, c) => c.start = 0
      /\ SuccessorSet(SsaCfg(f), c.start) \cap ToSet(c.entries) = {}
  BY <1>2, <1>4 DEF EnteredByItsGuard
<1> QED  BY <1>1, <1>4, <1>6, <1>7, <1>8 DEF Start

(* u is in Y, and so is the guard of every region around it. *)
IsEnclosed(f, u, Y) == u \in Y /\ \A i : InRegion(f, u, i) => Start(f, i) \in Y

LEMMA CoveredStep ==
  ASSUME NEW f, IsFunction(f), IsGuarded(f), NEW Y, NEW u \in NodeIds(f), IsEnclosed(f, u, Y),
         NEW w \in NodeIds(f), w \in Y,
         \/ w \in SuccessorSet(SsaCfg(f), u)
         \/ \E j : InRegion(f, u, j) /\ w \in ToSet(f.clauses[j].entries)
  PROVE  IsEnclosed(f, w, Y)
<1> SUFFICES ASSUME NEW i, InRegion(f, w, i), ~InRegion(f, u, i) PROVE Start(f, i) \in Y
  BY DEF IsEnclosed
<1>1. w = Start(f, i)
  BY GuardFacts
<1> QED  BY <1>1

LEMMA EarlyThrown ==
  ASSUME NEW f, IsFunction(f), IsGuarded(f), NEW g, IsThrowing(f, g),
         NEW u \in NodeIds(f), Into(u) \in ReachableFrom(g, 0)
  PROVE  IsEnclosed(f, u, Early(f))
<1> DEFINE X == ReachableFrom(g, 0)
<1>0. 0 \in NodeIds(f) /\ 0 \in NodeIds(g) /\ IsGraph(g)
  BY FunctionHasEntry DEF IsThrowing
<1>1. /\ X \subseteq NodeIds(g)
      /\ \A Z : {0} \subseteq Z /\ (\A v \in X \cap Z : SuccessorSet(g, v) \ {} \subseteq Z) => X \subseteq Z
  <2>1. {0} \in SUBSET NodeIds(g)
    BY <1>0
  <2> QED  BY <1>0, <2>1, ReachableIsLeast DEF ReachableFrom
<1> HIDE DEF X
<1>2. ASSUME NEW Y, 0 \in Y, \A b \in Y \cap NodeIds(f) : SuccessorSet(SsaCfg(f), b) \subseteq Y,
             \A i \in DOMAIN FlowRoots(f) : FlowRoots(f)[i].guard \in Y => FlowRoots(f)[i].block \in Y
      PROVE  IsEnclosed(f, u, Y)
  <2> DEFINE Z == {v \in NodeIds(g) : \E x \in NodeIds(f) :
                      (v = Into(x) \/ v = OutOf(x)) /\ IsEnclosed(f, x, Y)}
  <2>1. 0 \in Z
    <3>1. \A i : InRegion(f, 0, i) => Start(f, i) = 0
      BY <1>0, GuardFacts
    <3> QED  BY <1>0, <1>2, <3>1 DEF IsEnclosed, IsThrowing
  <2>2. ASSUME NEW v \in X \cap Z, NEW w \in SuccessorSet(g, v) PROVE w \in Z
    <3>0. w \in NodeIds(g)
      BY <1>0, <1>1, SuccessorsAreNodes
    <3>1. PICK x \in NodeIds(f) : (v = Into(x) \/ v = OutOf(x)) /\ IsEnclosed(f, x, Y)
      BY <2>2
    <3>2. CASE w = OutOf(x)
      BY <3>0, <3>1, <3>2
    <3>3. CASE \E i : \E e \in NodeIds(f) :
                  InRegion(f, x, i) /\ e \in ToSet(f.clauses[i].entries) /\ w = Into(e)
      <4>0. PICK i : \E e \in NodeIds(f) :
                InRegion(f, x, i) /\ e \in ToSet(f.clauses[i].entries) /\ w = Into(e)
        BY <3>3
      <4>1. PICK e \in NodeIds(f) :
                InRegion(f, x, i) /\ e \in ToSet(f.clauses[i].entries) /\ w = Into(e)
        BY <4>0
      <4>2. i \in DOMAIN f.clauses /\ Start(f, i) \in Y /\ Guard(f, f.clauses[i]) = Start(f, i)
        BY <3>1, <4>1, GuardFacts DEF IsEnclosed, InRegion
      <4>3. HandlersAreOwn(f)
        BY DEF IsGuarded
      <4>4. PICK k \in DOMAIN FlowRoots(f) :
                FlowRoots(f)[k].block = e /\ FlowRoots(f)[k].guard = Guard(f, f.clauses[i])
        BY <4>1, <4>2, <4>3, HandlerRoot
      <4>5. e \in Y
        BY <1>2, <4>2, <4>4
      <4>6. IsEnclosed(f, e, Y)
        BY <3>1, <4>1, <4>5, CoveredStep
      <4> QED  BY <3>0, <4>1, <4>6
    <3>4. CASE \E y \in SuccessorSet(SsaCfg(f), x) : w = Into(y)
      <4>1. PICK y \in SuccessorSet(SsaCfg(f), x) : w = Into(y)
        BY <3>4
      <4>2. y \in Y
        BY <1>2, <3>1, <4>1 DEF IsEnclosed
      <4>3. y \in NodeIds(f)
        BY SsaCfgIsGraph
      <4>4. IsEnclosed(f, y, Y)
        BY <3>1, <4>1, <4>2, <4>3, CoveredStep
      <4> QED  BY <3>0, <4>1, <4>3, <4>4
    <3> QED  BY <2>2, <3>1, <3>2, <3>3, <3>4 DEF IsThrowing
  <2>3. X \subseteq Z
    <3> HIDE DEF Z
    <3> QED  BY <1>1, <2>1, <2>2
  <2>4. PICK x \in NodeIds(f) : (Into(u) = Into(x) \/ Into(u) = OutOf(x)) /\ IsEnclosed(f, x, Y)
    BY <2>3 DEF X
  <2> QED  BY <2>4 DEF IsThrowing
<1>3. u \in Early(f)
  BY <1>2 DEF Early, IsEnclosed
<1>4. ASSUME NEW i, InRegion(f, u, i) PROVE Start(f, i) \in Early(f)
  <2>1. Start(f, i) \in NodeIds(f)
    BY <1>4, GuardFacts
  <2> QED  BY <1>2, <1>4, <2>1 DEF Early, IsEnclosed
<1> QED  BY <1>3, <1>4 DEF IsEnclosed

(* The point at which the value is computed. *)
Point(b, i) == IF i THEN OutOf(b) ELSE Into(b)

LEMMA GuardLeadsToHandler ==
  ASSUME EhInv, Unattached(eh) = {}, IsGuarded(function),
         NEW u \in NodeIds(function), NEW i, InRegion(function, u, i),
         NEW e \in NodeIds(function), e \in ToSet(function.clauses[i].entries),
         Start(function, i) \in Early(function)
  PROVE  e \in ToSet(eh.extra[Start(function, i)])
<1>1. /\ i \in DOMAIN function.clauses /\ Guard(function, function.clauses[i]) = Start(function, i)
      /\ SuccessorSet(SsaCfg(function), Start(function, i)) \cap ToSet(function.clauses[i].entries) = {}
      /\ IsFunction(function) /\ HandlersAreOwn(function)
  BY GuardFacts DEF EhInv, IsGuarded, InRegion
<1>2. PICK k \in DOMAIN FlowRoots(function) :
          FlowRoots(function)[k].block = e /\ FlowRoots(function)[k].guard = Start(function, i)
  BY <1>1, HandlerRoot
<1>3. k \in eh.attached
  BY <1>2 DEF Unattached
<1>4. e \in Known(eh, Start(function, i))
  BY <1>2, <1>3 DEF EhInv, EhCore, EhHanging
<1> QED  BY <1>1, <1>4 DEF Known

LEMMA ComputedWhenUsed ==
  ASSUME EhInv, Unattached(eh) = {}, IsGuarded(function),
         NEW b \in NodeIds(function), NEW use \in NodeIds(function), b # use,
         NEW i \in BOOLEAN, use \notin ReachableAvoiding(EhCfg, {0}, {b}),
         i => eh.extra[b] = <<>>
  PROVE  Into(use) \notin ReachableAvoiding(ThrowingFlow(function), {0}, {Point(b, i)})
<1> DEFINE f == function
           g == ThrowingFlow(f)
           p == Point(b, i)
           W == ReachableAvoiding(g, {0}, {p})
           X == ReachableFrom(g, 0)
           Y == ReachableAvoiding(EhCfg, {0}, {b})
           YY == IF i THEN Y \cup {b} ELSE Y
           Z == {v \in W : \E x \in NodeIds(f) : (v = Into(x) \/ v = OutOf(x)) /\ IsEnclosed(f, x, YY)}
<1>1. IsFunction(f) /\ IsThrowing(f, g) /\ IsGraph(g) /\ 0 \in NodeIds(f) /\ 0 \in NodeIds(g)
  BY ThrowingIsThrowing, FunctionHasEntry DEF EhInv, IsThrowing
<1>2. /\ W \subseteq NodeIds(g) \ {p} /\ {0} \ {p} \subseteq W
      /\ \A v \in W : SuccessorSet(g, v) \ {p} \subseteq W
      /\ \A S : {0} \ {p} \subseteq S /\ (\A v \in W \cap S : SuccessorSet(g, v) \ {p} \subseteq S)
                  => W \subseteq S
  <2>1. {0} \in SUBSET NodeIds(g)
    BY <1>1
  <2> HIDE DEF p, g
  <2> DEFINE R == {p}
             Zero == {0}
  <2>2. W = ReachableAvoiding(g, Zero, R) /\ IsGraph(g) /\ Zero \in SUBSET NodeIds(g)
    BY <1>1, <2>1
  <2> HIDE DEF W, R, Zero
  <2>3. /\ W \subseteq NodeIds(g) \ R /\ Zero \ R \subseteq W /\ IsClosed(g, R, W)
        /\ \A S : Zero \ R \subseteq S /\ (\A v \in W \cap S : SuccessorSet(g, v) \ R \subseteq S)
                    => W \subseteq S
    BY ONLY <2>2, ReachableFacts
  <2> QED  BY <2>3 DEF IsClosed, R, Zero
<1>3. W \subseteq X
  <2>1. {0} \in SUBSET NodeIds(g)
    BY <1>1
  <2>2. {0} \subseteq X /\ \A v \in X : SuccessorSet(g, v) \subseteq X
    <3> HIDE DEF g
    <3> QED  BY <1>1, <2>1, ReachableIsLeast DEF IsClosed, ReachableFrom
  <2> HIDE DEF X, W
  <2> QED  BY <1>2, <2>2
<1>4. /\ {0} \ {b} \subseteq Y /\ b \notin Y
      /\ \A v \in Y : v \in NodeIds(f) /\ Known(eh, v) \ {b} \subseteq Y
  <2>1. /\ IsGraph(EhCfg) /\ NodeIds(EhCfg) = NodeIds(f) /\ {0} \in SUBSET NodeIds(EhCfg)
        /\ \A v \in NodeIds(f) : SuccessorSet(EhCfg, v) = Known(eh, v)
    BY <1>1, EhCfgIsGraph
  <2> DEFINE R == {b}
             Zero == {0}
             G == EhCfg
  <2>2. Y = ReachableAvoiding(G, Zero, R) /\ IsGraph(G) /\ Zero \in SUBSET NodeIds(G)
    BY <2>1
  <2> HIDE DEF Y, R, Zero, G
  <2>3. Y \subseteq NodeIds(G) \ R /\ Zero \ R \subseteq Y /\ IsClosed(G, R, Y)
    <3>1. Zero \in SUBSET NodeIds(G) /\ IsGraph(G) /\ Y = ReachableAvoiding(G, Zero, R)
      BY <2>2
    <3> QED  BY ONLY <3>1, ReachableIsLeast, Zenon
  <2> QED  BY <2>1, <2>3 DEF IsClosed, R, Zero, G
<1>5. use \notin YY
  OBVIOUS
<1>6. \A x \in NodeIds(f) : x \in Y \/ x = b =>
          /\ Into(x) \in W => x \in YY
          /\ i => OutOf(b) \notin W
          /\ ~i => Into(b) \notin W
  BY <1>2 DEF Point
<1>7. \A v \in W : \A x \in NodeIds(f) : \A k : v = Into(x) /\ InRegion(f, x, k) => Start(f, k) \in Early(f)
  <2> HIDE DEF W, g
  <2> QED  BY <1>1, <1>3, EarlyThrown DEF IsEnclosed
<1> HIDE DEF W, Y, X, g, p
<1>8. 0 \in Z \/ 0 \notin W
  <2> SUFFICES ASSUME 0 \in W PROVE 0 \in Z
    OBVIOUS
  <2>1. 0 \in YY
    BY <1>1, <1>4, <1>6 DEF IsThrowing
  <2>2. \A k : InRegion(f, 0, k) => Start(f, k) = 0
    BY <1>1, GuardFacts
  <2> QED  BY <1>1, <2>1, <2>2 DEF IsEnclosed, IsThrowing
<1>9. ASSUME NEW v \in W \cap Z, NEW w \in SuccessorSet(g, v) \ {p} PROVE w \in Z
  <2>0. w \in W
    BY <1>2, <1>9
  <2>1. PICK x \in NodeIds(f) : (v = Into(x) \/ v = OutOf(x)) /\ IsEnclosed(f, x, YY)
    BY <1>9
  <2>2. CASE w = OutOf(x)
    BY <2>0, <2>1, <2>2
  <2>3. CASE v = Into(x) /\ \E k : \E e \in NodeIds(f) :
                InRegion(f, x, k) /\ e \in ToSet(f.clauses[k].entries) /\ w = Into(e)
    <3>0. PICK k : \E e \in NodeIds(f) :
                InRegion(f, x, k) /\ e \in ToSet(f.clauses[k].entries) /\ w = Into(e)
      BY <2>3
    <3>1. PICK e \in NodeIds(f) :
              InRegion(f, x, k) /\ e \in ToSet(f.clauses[k].entries) /\ w = Into(e)
      BY <3>0
    <3>2. Start(f, k) \in YY /\ Start(f, k) \in Early(f)
      BY <1>7, <1>9, <2>1, <2>3, <3>1 DEF IsEnclosed
    <3>3. e \in ToSet(eh.extra[Start(f, k)])
      BY <3>1, <3>2, GuardLeadsToHandler
    <3>4. Start(f, k) \in Y
      <4>1. ToSet(<<>>) = {}
        BY DEF ToSet
      <4> QED  BY <3>2, <3>3, <4>1
    <3>5. e \in Y \/ e = b
      BY <1>4, <3>3, <3>4 DEF Known
    <3>6. e \in YY
      BY <1>6, <2>0, <3>1, <3>5
    <3>7. IsEnclosed(f, e, YY)
      <4> HIDE DEF YY
      <4> QED  BY <1>1, <2>1, <3>1, <3>6, CoveredStep
    <3> QED  BY <2>0, <3>1, <3>7
  <2>4. CASE v = OutOf(x) /\ \E y \in SuccessorSet(SsaCfg(f), x) : w = Into(y)
    <3>1. PICK y \in SuccessorSet(SsaCfg(f), x) : w = Into(y)
      BY <2>4
    <3>2. y \in NodeIds(f)
      BY <1>1, SsaCfgIsGraph
    <3>3. x \in Y
      BY <1>6, <1>9, <2>1, <2>4 DEF IsEnclosed
    <3>4. y \in Y \/ y = b
      BY <1>4, <3>1, <3>3 DEF Known
    <3>5. y \in YY
      BY <1>6, <2>0, <3>1, <3>2, <3>4
    <3>6. IsEnclosed(f, y, YY)
      <4> HIDE DEF YY
      <4> QED  BY <1>1, <2>1, <3>1, <3>2, <3>5, CoveredStep
    <3> QED  BY <2>0, <3>1, <3>2, <3>6
  <2>5. CASE v = Into(x)
    <3>1. w \in SuccessorSet(g, Into(x))
      BY <1>9, <2>5
    <3>2. \/ w = OutOf(x)
          \/ \E k : \E e \in NodeIds(f) :
                InRegion(f, x, k) /\ e \in ToSet(f.clauses[k].entries) /\ w = Into(e)
      BY <1>1, <3>1 DEF IsThrowing
    <3> QED  BY <2>2, <2>3, <2>5, <3>2
  <2>6. CASE v = OutOf(x)
    <3>1. w \in SuccessorSet(g, OutOf(x))
      BY <1>9, <2>6
    <3>2. \E y \in SuccessorSet(SsaCfg(f), x) : w = Into(y)
      BY <1>1, <3>1 DEF IsThrowing
    <3> QED  BY <2>4, <2>6, <3>2
  <2> QED  BY <2>1, <2>5, <2>6
<1>10. W \subseteq Z
  <2>1. {0} \ {p} \subseteq Z
    BY <1>2, <1>8
  <2> HIDE DEF Z
  <2> QED  BY <1>2, <1>9, <2>1
<1>11. ASSUME Into(use) \in W PROVE FALSE
  <2>1. PICK x \in NodeIds(f) : (Into(use) = Into(x) \/ Into(use) = OutOf(x)) /\ IsEnclosed(f, x, YY)
    BY <1>10, <1>11
  <2>2. x = use
    BY <1>1, <2>1 DEF IsThrowing
  <2> QED  BY <1>5, <2>1, <2>2 DEF IsEnclosed
<1> QED  BY <1>11 DEF W, g, p

AllAttached == purpose # "canonicalize" /\ step # "attach" => Unattached(eh) = {}

LEMMA AllAttachedNext == FlowInv /\ AllAttached /\ [Next]_vars => AllAttached'
<1> SUFFICES ASSUME FlowInv, AllAttached, [Next]_vars PROVE AllAttached'
  OBVIOUS
<1>1. CASE AttachRoots
  BY <1>1 DEF AttachRoots, AllAttached
<1>2. CASE GraphBuilt
  <2>1. UNCHANGED <<function, eh>> /\ Unattached(eh) = {}
    BY <1>2 DEF GraphBuilt, ehVars, Attached
  <2> QED  BY <2>1 DEF AllAttached, Unattached
<1>3. CASE BuildTree \/ TreeBuilt \/ NormalTreeBuilt \/ ComputeFrontier \/ UNCHANGED vars
  <2>1. UNCHANGED <<function, eh, purpose>> /\ (step' = "attach" <=> step = "attach")
    BY <1>3 DEF BuildTree, TreeBuilt, NormalTreeBuilt, ComputeFrontier, vars, ehVars, asked
  <2> QED  BY <2>1 DEF AllAttached, Unattached
<1>4. CASE BeginRound \/ LeaveLoop \/ InsertPreheader \/ UnifyLatches \/ EndRound
  <2>1. purpose' = "canonicalize"
    BY <1>4 DEF BeginRound, LeaveLoop, InsertPreheader, UnifyLatches, Spliced, Looping, EndRound,
                asked, FlowInv
  <2> QED  BY <2>1 DEF AllAttached
<1> QED  BY <1>1, <1>2, <1>3, <1>4 DEF Next

(* `definition_reaches` is right about handlers: for every function whose regions
   are entered through their guards and whose clauses do not share handlers, a
   value it lets a use in a handler have was computed before, whichever
   instruction of the region threw. *)
THEOREM HandlersSafe == Spec => []HandlersUseComputedValues
<1>1. FlowInv /\ ResultInv /\ AllAttached => HandlersUseComputedValues
  <2> SUFFICES ASSUME FlowInv, ResultInv, AllAttached, step = "answer", purpose = "dominance",
                      IsGuarded(function), NEW use \in ExceptionReachable,
                      NEW b \in NodeIds(function) \ {use}, NEW i \in BOOLEAN,
                      DefinitionReaches(b, i, use)
               PROVE  IsComputed(function, b, i, use)
    BY DEF HandlersUseComputedValues, IsGuarded
  <2>1. IsExactTree(EhCfg, 0, tree) /\ DOMAIN eh.extra = NodeIds(function)
    BY DEF ResultInv, Answering, TreeGraph, TreeRoot
  <2>2. EhInv /\ Unattached(eh) = {} /\ NodeIds(EhCfg) = NodeIds(function)
    BY <2>1, EhCfgIsGraph DEF FlowInv, EhInv, AllAttached
  <2>3. use \in NodeIds(function) /\ b \in NodeIds(function) /\ b # use
    BY DEF ExceptionReachable
  <2>4. use \notin ReachableAvoiding(EhCfg, {0}, {b})
    BY <2>1, <2>2, <2>3 DEF DefinitionReaches, IsExactTree, BehindOf
  <2>5. i => eh.extra[b] = <<>>
    BY <2>3 DEF DefinitionReaches, EdgeSources
  <2>6. Into(use) \notin ReachableAvoiding(ThrowingFlow(function), {0}, {Point(b, i)})
    BY <2>2, <2>3, <2>4, <2>5, ComputedWhenUsed
  <2> QED  BY <2>6 DEF IsComputed, Into, OutOf, Point
<1>2. Init => FlowInv /\ DomInv /\ ResultInv /\ AllAttached
  BY FlowInvInit, DomInvInit, ResultInvInit DEF Init, AllAttached
<1>3. FlowInv /\ DomInv /\ ResultInv /\ AllAttached /\ [Next]_vars
        => (FlowInv /\ DomInv /\ ResultInv /\ AllAttached)'
  BY FlowInvNext, DomInvNext, ResultInvNext, AllAttachedNext
<1> QED  BY <1>1, <1>2, <1>3, PTL DEF Spec

-----------------------------------------------------------------------------
(* The reverse graph *)

(* The nodes a path from v enters without entering a. *)
From(g, v, a) == ReachableAvoiding(g, {v}, {a})

LEMMA FromFacts ==
  ASSUME NEW g, IsGraph(g), NEW v \in NodeIds(g), NEW a
  PROVE  /\ From(g, v, a) \subseteq NodeIds(g) \ {a}
         /\ v # a => v \in From(g, v, a)
         /\ \A w \in From(g, v, a) : SuccessorSet(g, w) \ {a} \subseteq From(g, v, a)
         /\ \A Y : (v # a => v \in Y) /\ (\A w \in From(g, v, a) \cap Y : SuccessorSet(g, w) \ {a} \subseteq Y)
                     => From(g, v, a) \subseteq Y
<1> DEFINE starts == {v}
           closed == {a}
           X == From(g, v, a)
<1>1. starts \in SUBSET NodeIds(g) /\ X = ReachableAvoiding(g, starts, closed)
  BY DEF From
<1> HIDE DEF X, starts, closed
<1>2. /\ X \subseteq NodeIds(g) \ closed /\ starts \ closed \subseteq X /\ IsClosed(g, closed, X)
      /\ \A Y : starts \ closed \subseteq Y /\ (\A w \in X \cap Y : SuccessorSet(g, w) \ closed \subseteq Y)
                  => X \subseteq Y
  BY <1>1, ReachableFacts
<1>3. starts \ closed = IF v = a THEN {} ELSE {v}
  BY DEF starts, closed
<1> QED  BY <1>2, <1>3 DEF X, closed, IsClosed

(* Where control ends is where the reverse graph is entered. *)
LEMMA EndsFacts ==
  ASSUME NEW g, IsGraph(g), NEW v
  PROVE  v \in Ends(g) <=> v \in NodeIds(g)
                             /\ \A w \in ReachableFrom(g, v) : v \in ReachableFrom(g, w) /\ v <= w
<1> DEFINE reach == [u \in NodeIds(g) |-> ReachableFrom(g, u)]
<1>1. Ends(g) = {u \in NodeIds(g) : \A w \in reach[u] : u \in reach[w] /\ u <= w}
  BY DEF Ends
<1>2. \A u \in NodeIds(g) : reach[u] = ReachableFrom(g, u) /\ reach[u] \subseteq NodeIds(g)
  BY ReachFacts
<1> HIDE DEF reach
<1> QED  BY <1>1, <1>2

LEMMA SeedsAreEnds ==
  ASSUME NEW g, IsGraph(g)
  PROVE  ExitSeeds(g) = Ends(g)
<1> DEFINE C(v) == {w \in NodeIds(g) : SameComponent(g, v, w)}
<1>1. \A v : v \in ExitSeeds(g) <=> v \in NodeIds(g) /\ IsTerminal(g, C(v)) /\ \A w \in C(v) : v <= w
  BY DEF ExitSeeds
<1>2. \A v \in NodeIds(g) : v \in C(v)
  BY ReachFacts DEF SameComponent
<1>3. \A v : IsTerminal(g, C(v)) => \A w \in C(v) : SuccessorSet(g, w) \subseteq C(v)
  BY DEF IsTerminal
<1>4. ASSUME NEW v \in ExitSeeds(g) PROVE v \in Ends(g)
  <2>1. v \in NodeIds(g) /\ IsTerminal(g, C(v)) /\ \A w \in C(v) : v <= w
    BY <1>1, <1>4
  <2>2. ReachableFrom(g, v) \subseteq C(v)
    <3> DEFINE c == C(v)
    <3>1. v \in c /\ \A w \in ReachableFrom(g, v) \cap c : SuccessorSet(g, w) \subseteq c
      BY <1>2, <1>3, <2>1
    <3> HIDE DEF c
    <3>2. ReachableFrom(g, v) \subseteq c
      BY <2>1, <3>1, ReachFacts
    <3> QED  BY <3>2 DEF c
  <2>3. \A w \in C(v) : v \in ReachableFrom(g, w)
    BY DEF SameComponent
  <2> QED  BY <2>1, <2>2, <2>3, EndsFacts
<1>5. ASSUME NEW v \in Ends(g) PROVE v \in ExitSeeds(g)
  <2>1. v \in NodeIds(g) /\ \A w \in ReachableFrom(g, v) : v \in ReachableFrom(g, w) /\ v <= w
    BY <1>5, EndsFacts
  <2>2. \A w \in C(v) : w \in ReachableFrom(g, v)
    BY DEF SameComponent
  <2>3. ASSUME NEW w \in C(v), NEW x \in SuccessorSet(g, w) PROVE x \in C(v)
    <3>1. x \in ReachableFrom(g, v) /\ x \in NodeIds(g)
      BY <2>1, <2>2, ReachFacts
    <3> QED  BY <2>1, <3>1 DEF SameComponent
  <2>4. IsTerminal(g, C(v))
    BY <2>3 DEF IsTerminal
  <2> HIDE DEF C
  <2> QED  BY <1>1, <2>1, <2>2, <2>4
<1> QED  BY <1>4, <1>5

(* Control ends somewhere, wherever it starts. *)
LEMMA EndIsReached ==
  ASSUME NEW g, IsGraph(g), NEW v \in NodeIds(g)
  PROVE  \E e \in Ends(g) : e \in ReachableFrom(g, v)
<1> DEFINE N == NodeIds(g)
           R(w) == ReachableFrom(g, w)
           F == {R(w) : w \in R(v)}
           O == StrictSubsetOrdering(N)
<1>1. IsFiniteSet(N) /\ N \subseteq Nat
  <2>1. g.count \in Nat
    BY DEF IsGraph
  <2> DEFINE top == g.count - 1
  <2>2. 0 \in Int /\ top \in Int
    BY <2>1
  <2> HIDE DEF top
  <2>3. IsFiniteSet(0 .. top) /\ 0 .. top \subseteq Nat
    BY <2>2, FS_Interval
  <2> QED  BY <2>3 DEF NodeIds, top
<1>2. R(v) \subseteq N /\ v \in R(v) /\ \A w \in R(v) : w \in N /\ R(w) \subseteq R(v)
  BY ReachFacts, ReachTransitive
<1>3. IsWellFoundedOn(O, FiniteSubsetsOf(N))
  BY FS_StrictSubsetOrderingWellFounded
<1>4. F \subseteq FiniteSubsetsOf(N) /\ F # {}
  <2>1. \A S \in SUBSET N : IsFiniteSet(S)
    BY <1>1, FS_Subset
  <2>2. \A w \in R(v) : R(w) \in SUBSET N
    BY <1>2
  <2>3. R(v) \in F
    BY <1>2
  <2> HIDE DEF N, R
  <2> QED  BY <2>1, <2>2, <2>3 DEF FiniteSubsetsOf
<1>5. PICK B \in F : \A A \in F : <<A, B>> \notin O
  <2> HIDE DEF F, O
  <2> QED  BY <1>3, <1>4, WFMin
<1>6. PICK w \in R(v) : B = R(w)
  BY <1>5
<1>7. \A x \in R(w) : x \in R(v) /\ R(x) \subseteq R(w) /\ R(x) \subseteq N /\ x \in N
  BY <1>2, <1>6, ReachTransitive
<1>8. \A x \in R(w) : R(x) = R(w)
  <2> SUFFICES ASSUME NEW x \in R(w), R(x) # R(w) PROVE FALSE
    OBVIOUS
  <2>1. R(x) \in F
    BY <1>7
  <2>2. R(x) \in SUBSET N /\ R(w) \in SUBSET N /\ R(x) \subseteq R(w)
    BY <1>2, <1>6, <1>7
  <2> DEFINE A == R(x)
             D == R(w)
  <2>3. A \in SUBSET N /\ D \in SUBSET N /\ A \subseteq D /\ A # D
    BY <2>2
  <2>4. <<A, D>> \in O
    <3> HIDE DEF A, D, N
    <3> QED  BY <2>3 DEF StrictSubsetOrdering
  <2> QED  BY <1>5, <1>6, <2>1, <2>4
<1>9. PICK e \in R(w) : \A x \in R(w) : e <= x
  <2>1. R(w) \subseteq Nat /\ R(w) # {}
    BY <1>1, <1>2, <1>6, ReachFacts
  <2> HIDE DEF R
  <2> QED  BY <2>1, LeastElement
<1>10. e \in N /\ e \in R(v) /\ \A x \in R(e) : e \in R(x) /\ e <= x
  <2>1. R(e) = R(w) /\ e \in R(w)
    BY <1>8, <1>9
  <2>2. \A x \in R(w) : R(x) = R(w)
    BY <1>8
  <2> QED  BY <1>7, <1>9, <2>1, <2>2
<1> QED  BY <1>10, EndsFacts

(* h is g reversed, with a node before all the ends. *)
IsReverse(g, h, top) ==
    /\ IsGraph(g) /\ IsGraph(h)
    /\ top \notin NodeIds(g) /\ NodeIds(h) = NodeIds(g) \cup {top}
    /\ \A v \in NodeIds(g) : SuccessorSet(h, v) = PredecessorSet(g, v)
    /\ SuccessorSet(h, top) = Ends(g)

LEMMA AllReachedBack ==
  ASSUME NEW g, NEW h, NEW top, IsReverse(g, h, top)
  PROVE  ReachableFrom(h, top) = NodeIds(h)
<1> DEFINE X == ReachableFrom(h, top)
<1>1. /\ top \in NodeIds(h) /\ IsGraph(h) /\ IsGraph(g) /\ NodeIds(h) = NodeIds(g) \cup {top}
      /\ X \subseteq NodeIds(h) /\ top \in X /\ \A w \in X : SuccessorSet(h, w) \subseteq X
  BY ReachFacts DEF IsReverse
<1> HIDE DEF X
<1>2. ASSUME NEW v \in NodeIds(g), v \notin X PROVE FALSE
  <2> DEFINE Y == NodeIds(g) \ X
  <2>1. ASSUME NEW w \in Y, NEW x \in SuccessorSet(g, w) PROVE x \in Y
    <3>1. x \in NodeIds(g) /\ w \in PredecessorSet(g, x)
      BY <1>1, SuccessorsAreNodes DEF PredecessorSet
    <3>2. w \in SuccessorSet(h, x)
      BY <3>1 DEF IsReverse
    <3> QED  BY <1>1, <3>1, <3>2
  <2>2. ReachableFrom(g, v) \subseteq Y
    <3>1. v \in Y /\ \A w \in ReachableFrom(g, v) \cap Y : SuccessorSet(g, w) \subseteq Y
      BY <1>2, <2>1
    <3> HIDE DEF Y
    <3> QED  BY <1>1, <3>1, ReachFacts
  <2>3. PICK e \in Ends(g) : e \in ReachableFrom(g, v)
    BY <1>1, EndIsReached
  <2>4. e \in X
    BY <1>1 DEF IsReverse
  <2> QED  BY <2>2, <2>3, <2>4
<1> QED  BY <1>1, <1>2 DEF X

LEMMA AvoidedBack ==
  ASSUME NEW g, NEW h, NEW top, IsReverse(g, h, top), NEW a \in NodeIds(g), NEW b \in NodeIds(g)
  PROVE  b \in From(h, top, a) <=> From(g, b, a) \cap Ends(g) # {}
<1> DEFINE X == From(h, top, a)
           N == NodeIds(g)
           E == Ends(g)
           Y == {top} \cup {x \in N : From(g, x, a) \cap E # {}}
<1>1. top \in NodeIds(h) /\ IsGraph(h) /\ IsGraph(g) /\ NodeIds(h) = N \cup {top} /\ top # a /\ E \subseteq N
  BY EndsFacts DEF IsReverse
<1>2. /\ top \in X /\ X \subseteq NodeIds(h) \ {a} /\ \A w \in X : SuccessorSet(h, w) \ {a} \subseteq X
      /\ \A Z : top \in Z /\ (\A w \in X \cap Z : SuccessorSet(h, w) \ {a} \subseteq Z) => X \subseteq Z
  BY <1>1, FromFacts
<1> HIDE DEF X
<1>3. ASSUME NEW w \in Y, NEW x \in SuccessorSet(h, w) \ {a} PROVE x \in Y
  <2>1. CASE w = top
    <3>1. x \in E /\ x \in N
      BY <1>1, <1>3, <2>1 DEF IsReverse
    <3>2. x \in From(g, x, a)
      BY <1>1, <3>1, FromFacts
    <3> QED  BY <3>1, <3>2
  <2>2. CASE w # top
    <3>1. w \in N /\ From(g, w, a) \cap E # {} /\ x \in N /\ w \in SuccessorSet(g, x)
      BY <1>3, <2>2 DEF IsReverse, PredecessorSet
    <3>2. w # a
      <4> SUFFICES ASSUME w = a PROVE FALSE
        OBVIOUS
      <4> DEFINE Z == {}
      <4>1. From(g, w, a) \subseteq Z
        <5>1. (w # a => w \in Z) /\ \A u \in From(g, w, a) \cap Z : SuccessorSet(g, u) \ {a} \subseteq Z
          OBVIOUS
        <5> HIDE DEF Z
        <5> QED  BY <1>1, <3>1, <5>1, FromFacts
      <4> QED  BY <3>1, <4>1
    <3> DEFINE Z == From(g, x, a)
    <3>3. x \in Z /\ \A u \in Z : SuccessorSet(g, u) \ {a} \subseteq Z
      BY <1>1, <3>1, FromFacts
    <3>4. w \in Z
      BY <3>1, <3>2, <3>3
    <3>5. From(g, w, a) \subseteq Z
      <4> HIDE DEF Z
      <4> QED  BY <1>1, <3>1, <3>3, <3>4, FromFacts
    <3> QED  BY <3>1, <3>5
  <2> QED  BY <2>1, <2>2
<1>4. X \subseteq Y
  <2>1. top \in Y /\ \A w \in X \cap Y : SuccessorSet(h, w) \ {a} \subseteq Y
    BY <1>3
  <2> HIDE DEF Y
  <2> QED  BY <1>2, <2>1
<1>5. ASSUME b \in X PROVE From(g, b, a) \cap E # {}
  BY <1>1, <1>4, <1>5 DEF IsReverse
<1>6. ASSUME NEW e \in From(g, b, a) \cap E, b \notin X PROVE FALSE
  <2> DEFINE Z == N \ X
  <2>1. ASSUME NEW w \in From(g, b, a) \cap Z, NEW x \in SuccessorSet(g, w) \ {a} PROVE x \in Z
    <3>1. x \in N /\ w \in PredecessorSet(g, x) /\ w # a
      BY <1>1, <2>1, SuccessorsAreNodes, FromFacts DEF PredecessorSet
    <3>2. w \in SuccessorSet(h, x)
      BY <3>1 DEF IsReverse
    <3> QED  BY <1>2, <2>1, <3>1, <3>2
  <2>2. From(g, b, a) \subseteq Z
    <3>1. b \in Z /\ \A w \in From(g, b, a) \cap Z : SuccessorSet(g, w) \ {a} \subseteq Z
      BY <1>6, <2>1
    <3> HIDE DEF Z
    <3> QED  BY <1>1, <3>1, FromFacts
  <2>3. e \in SuccessorSet(h, top) /\ e # a
    BY <1>1, FromFacts DEF IsReverse
  <2>4. e \in X
    BY <1>2, <2>3
  <2> QED  BY <2>2, <2>4
<1> QED  BY <1>5, <1>6 DEF X

LEMMA ReversedEdges ==
  ASSUME NEW n, NEW rows, NEW g, g = [count |-> n, succ |-> rows], IsGraph(g),
         NEW h, h = ReverseGraph(g), NEW top, top = VirtualExit(g)
  PROVE  /\ IsReverse(g, h, top)
         /\ \A v \in NodeIds(g) : h.succ[v] = Predecessors(g, v)
         /\ h.succ[top] = Ascending(g, Ends(g))
<1>1. /\ IsGraph(h) /\ top \in NodeIds(h)
      /\ NodeIds(h) = 0 .. g.count
      /\ \A v \in NodeIds(g) : h.succ[v] = Predecessors(g, v)
      /\ h.succ[top] = Ascending(g, ExitSeeds(g))
  BY ReverseIsGraph
<1>2. NodeIds(h) = NodeIds(g) \cup {top} /\ top \notin NodeIds(g)
  BY <1>1 DEF IsGraph, NodeIds, VirtualExit
<1>3. Ends(g) \in SUBSET NodeIds(g) /\ ExitSeeds(g) = Ends(g)
  BY SeedsAreEnds, EndsFacts
<1>4. ToSet(Ascending(g, Ends(g))) = Ends(g)
  <2> DEFINE S == Ends(g)
  <2>1. S \in SUBSET NodeIds(g)
    BY <1>3
  <2> HIDE DEF S
  <2>2. ToSet(Ascending(g, S)) = S
    BY <2>1, AscendingFacts
  <2> QED  BY <2>2 DEF S
<1>5. \A v \in NodeIds(g) : SuccessorSet(h, v) = PredecessorSet(g, v)
  BY <1>1, PredecessorsType DEF SuccessorSet
<1>6. SuccessorSet(h, top) = Ends(g)
  BY <1>1, <1>3, <1>4 DEF SuccessorSet
<1> QED  BY <1>1, <1>2, <1>3, <1>5, <1>6 DEF IsReverse

(* A block is a join of the reverse graph when it has two ways out, ending
   counted as one. *)
Splits(g, a) == Len(g.succ[a]) > 1 \/ (a \in Ends(g) /\ g.succ[a] # <<>>)

LEMMA SplitsAreJoins ==
  ASSUME NEW n, NEW rows, NEW g, g = [count |-> n, succ |-> rows], IsGraph(g),
         NEW h, h = ReverseGraph(g), NEW a \in NodeIds(g)
  PROVE  Len(Predecessors(h, a)) >= 2 <=> Splits(g, a)
<1> DEFINE top == VirtualExit(g)
           N == NodeIds(g)
           H == NodeIds(h)
           s == g.succ[a]
           E == Ends(g)
<1>1. /\ IsReverse(g, h, top)
      /\ \A v \in N : h.succ[v] = Predecessors(g, v)
      /\ h.succ[top] = Ascending(g, E)
  <2> HIDE DEF top
  <2> QED  BY ReversedEdges DEF top
<1> HIDE DEF top
<1>2. /\ IsGraph(h) /\ IsGraph(g) /\ a \in H /\ H = N \cup {top} /\ top \notin N /\ E \subseteq N
      /\ \A u \in N : a \in SuccessorSet(h, u) <=> u \in ToSet(s)
      /\ a \in SuccessorSet(h, top) <=> a \in E
  BY <1>1, EndsFacts DEF IsReverse, PredecessorSet, SuccessorSet
<1>3. s \in Seq(N) /\ DOMAIN s = 1 .. Len(s) /\ Len(s) \in Nat
  BY DEF IsGraph
<1>4. Len(s) >= 2 <=> Twice(s, N)
  <2> HIDE DEF N, s
  <2> QED  BY <1>3, TwiceIsLong
<1>5. Len(Predecessors(h, a)) >= 2 <=> Twice(Predecessors(h, a), H)
  <2>1. Predecessors(h, a) \in Seq(H)
    BY <1>2, PredecessorsType
  <2> HIDE DEF H
  <2> QED  BY <2>1, TwiceIsLong
<1>6. Twice(Predecessors(h, a), H)
         <=> \/ \E u, w \in H : /\ u # w
                                /\ a \in SuccessorSet(h, u) /\ a \in SuccessorSet(h, w)
             \/ \E u \in H : Twice(h.succ[u], {a})
  <2> DEFINE U == H
  <2>1. Twice(Predecessors(h, a), U)
         <=> \/ \E u, w \in NodeIds(h) \cap U : /\ u # w
                                /\ a \in SuccessorSet(h, u) /\ a \in SuccessorSet(h, w)
             \/ \E u \in NodeIds(h) \cap U : Twice(h.succ[u], {a})
    <3> HIDE DEF U
    <3> QED  BY <1>2, PredecessorsTwice
  <2>2. NodeIds(h) \cap U = H
    OBVIOUS
  <2> QED  BY ONLY <2>1, <2>2
<1>7. ~Twice(h.succ[top], {a})
  <2> DEFINE all == [k \in 1 .. g.count |-> k - 1]
             one == {a}
  <2>1. g.count \in Nat /\ all \in Seq(Nat)
    BY DEF IsGraph
  <2>2. \A i, j \in DOMAIN all : all[i] = all[j] => i = j
    BY <2>1
  <2>3. ~Twice(all, E \cap one)
    <3> SUFFICES ASSUME Twice(all, E \cap one) PROVE FALSE
      OBVIOUS
    <3> HIDE DEF all
    <3>1. PICK i \in DOMAIN all : \E j \in DOMAIN all : i # j /\ all[i] \in one /\ all[j] \in one
      BY DEF Twice
    <3> QED  BY <2>2, <3>1
  <2>4. Twice(Keep(all, E), one) <=> Twice(all, E \cap one)
    <3> HIDE DEF all, E, one
    <3> QED  BY <2>1, KeepTwice
  <2> QED  BY <1>1, <2>3, <2>4 DEF Ascending
<1>8. \A u \in N : Twice(h.succ[u], {a}) <=> Twice(s, {u})
  <2> SUFFICES ASSUME NEW u \in N PROVE Twice(Predecessors(g, u), {a}) <=> Twice(s, {u})
    BY <1>1
  <2> DEFINE U == {a}
  <2>1. Twice(Predecessors(g, u), U)
            <=> \/ \E x, y \in NodeIds(g) \cap U : /\ x # y
                                                   /\ u \in SuccessorSet(g, x) /\ u \in SuccessorSet(g, y)
                \/ \E x \in NodeIds(g) \cap U : Twice(g.succ[x], {u})
    <3> HIDE DEF U
    <3> QED  BY <1>2, PredecessorsTwice
  <2>2. \A x : x \in NodeIds(g) \cap U <=> x = a
    OBVIOUS
  <2> HIDE DEF U
  <2>3. Twice(Predecessors(g, u), U) <=> Twice(s, {u})
    BY <2>1, <2>2
  <2> QED  BY <2>3 DEF U
<1>9. ASSUME Splits(g, a) PROVE Twice(Predecessors(h, a), H)
  <2>1. CASE Len(s) >= 2
    <3>1. 1 \in DOMAIN s /\ 2 \in DOMAIN s /\ s[1] \in N /\ s[2] \in N /\ 1 # 2
      BY <1>3, <2>1
    <3>2. CASE s[1] = s[2]
      <4> DEFINE u == s[1]
      <4>1. Twice(s, {u}) /\ u \in N /\ u \in H
        BY <1>2, <3>1, <3>2 DEF Twice
      <4> HIDE DEF u, s
      <4>2. Twice(h.succ[u], {a})
        BY <1>8, <4>1
      <4> QED  BY <1>6, <4>1, <4>2
    <3>3. CASE s[1] # s[2]
      <4>1. s[1] \in ToSet(s) /\ s[2] \in ToSet(s)
        BY <3>1 DEF ToSet
      <4> QED  BY <1>2, <1>6, <3>1, <3>3, <4>1
    <3> QED  BY <3>2, <3>3
  <2>2. CASE a \in E /\ s # <<>>
    <3>1. 1 \in DOMAIN s /\ s[1] \in N
      BY <1>3, <2>2
    <3>2. s[1] \in ToSet(s)
      BY <3>1 DEF ToSet
    <3> QED  BY <1>2, <1>6, <2>2, <3>1, <3>2
  <2> QED  BY <1>3, <1>9, <2>1, <2>2 DEF Splits
<1>10. ASSUME Twice(Predecessors(h, a), H) PROVE Splits(g, a)
  <2>1. ASSUME NEW u \in N, Twice(s, {u}) PROVE Len(s) >= 2
    <3>1. Twice(s, N)
      BY <2>1 DEF Twice
    <3> QED  BY <1>4, <3>1
  <2>2. ASSUME NEW u \in ToSet(s), NEW w \in ToSet(s), u # w PROVE Len(s) >= 2
    <3>1. PICK i \in DOMAIN s : u = s[i]
      BY DEF ToSet
    <3>2. PICK j \in DOMAIN s : w = s[j]
      BY DEF ToSet
    <3>3. u \in N /\ w \in N
      BY <1>3, <3>1, <3>2
    <3>4. Twice(s, N)
      BY <2>2, <3>1, <3>2, <3>3 DEF Twice
    <3> QED  BY <1>4, <3>4
  <2>3. ASSUME NEW u \in ToSet(s) PROVE s # <<>>
    <3>1. PICK i \in DOMAIN s : u = s[i]
      BY DEF ToSet
    <3> QED  BY <1>3, <3>1
  <2>4. Len(s) >= 2 \/ (a \in E /\ s # <<>>)
    <3> HIDE DEF s, H, N, E
    <3>1. CASE \E u \in H : Twice(h.succ[u], {a})
      BY <1>2, <1>7, <1>8, <2>1, <3>1
    <3>2. CASE \E u, w \in H : u # w /\ a \in SuccessorSet(h, u) /\ a \in SuccessorSet(h, w)
      <4>1. PICK u \in H : \E w \in H : u # w /\ a \in SuccessorSet(h, u) /\ a \in SuccessorSet(h, w)
        BY <3>2
      <4>2. PICK w \in H : u # w /\ a \in SuccessorSet(h, u) /\ a \in SuccessorSet(h, w)
        BY <4>1
      <4>3. CASE u = top
        BY <1>2, <2>3, <4>2, <4>3
      <4>4. CASE w = top
        BY <1>2, <2>3, <4>2, <4>4
      <4>5. CASE u # top /\ w # top
        BY <1>2, <2>2, <4>2, <4>5
      <4> QED  BY <4>3, <4>4, <4>5
    <3> QED  BY <1>6, <1>10, <3>1, <3>2
  <2>5. Len(s) >= 2 => Len(s) > 1
    BY <1>3
  <2> QED  BY <2>4, <2>5 DEF Splits
<1> QED  BY <1>5, <1>9, <1>10

(* The blocks from which control cannot end without a. *)
Certain(g, a) == {a} \cup {b \in NodeIds(g) : ReachableAvoiding(g, {b}, {a}) \cap Ends(g) = {}}

LEMMA CertainIsBehind ==
  ASSUME NEW g, NEW h, NEW top, IsReverse(g, h, top), NEW a \in NodeIds(g)
  PROVE  BehindOf(h, top, a) = Certain(g, a) /\ top \notin Certain(g, a)
<1>1. top \in NodeIds(h) /\ IsGraph(h) /\ NodeIds(h) = NodeIds(g) \cup {top} /\ top # a
  BY DEF IsReverse
<1>2. BehindOf(h, top, a) = NodeIds(h) \ From(h, top, a)
  BY AllReachedBack DEF BehindOf, From
<1>3. \A b \in NodeIds(g) : b \in From(h, top, a) <=> From(g, b, a) \cap Ends(g) # {}
  BY AvoidedBack
<1>4. top \in From(h, top, a) /\ a \notin From(h, top, a)
  BY <1>1, FromFacts
<1>5. \A b : b \in Certain(g, a) <=> b = a \/ (b \in NodeIds(g) /\ From(g, b, a) \cap Ends(g) = {})
  BY DEF Certain, From
<1>6. top \notin NodeIds(g)
  BY DEF IsReverse
<1> QED  BY <1>1, <1>2, <1>3, <1>4, <1>5, <1>6

LEMMA PostDominators ==
  ASSUME NEW g, NEW h, NEW top, IsReverse(g, h, top), NEW t, IsExactTree(h, top, t)
  PROVE  /\ \A a, b \in NodeIds(g) : Dominates(t, a, b) <=> b \in Certain(g, a)
         /\ \A v \in NodeIds(g) :
               /\ ImmediateDominator(t, v) \in NodeIds(g) \cup {top}
               /\ ImmediateDominator(t, v) = top <=> \A a \in NodeIds(g) \ {v} : v \notin Certain(g, a)
<1>1. /\ NodeIds(h) = NodeIds(g) \cup {top} /\ top \notin NodeIds(g) /\ ReachableFrom(h, top) = NodeIds(h)
      /\ \A a \in NodeIds(g) : BehindOf(h, top, a) = Certain(g, a) /\ top \notin Certain(g, a)
  BY AllReachedBack, CertainIsBehind DEF IsReverse
<1>2. \A a, b \in NodeIds(g) : Dominates(t, a, b) <=> b \in Certain(g, a)
  <2>1. \A a \in NodeIds(g) : a \in Certain(g, a)
    BY DEF Certain
  <2> QED  BY <1>1, <2>1 DEF IsExactTree
<1>3. ASSUME NEW v \in NodeIds(g)
      PROVE  /\ ImmediateDominator(t, v) \in NodeIds(g) \cup {top}
             /\ ImmediateDominator(t, v) = top <=> \A a \in NodeIds(g) \ {v} : v \notin Certain(g, a)
  <2> DEFINE d == t.idom[v]
  <2>1. /\ ImmediateDominator(t, v) = d /\ d \in NodeIds(h) \ {v} /\ v \in BehindOf(h, top, d)
        /\ \A a \in NodeIds(h) \ {v} : v \in BehindOf(h, top, a) => d \in BehindOf(h, top, a)
    BY <1>1, <1>3 DEF IsExactTree, ImmediateDominator
  <2> HIDE DEF d
  <2>2. CASE d = top
    BY <1>1, <2>1, <2>2
  <2>3. CASE d # top
    BY <1>1, <2>1, <2>3
  <2> QED  BY <1>1, <2>1, <2>2, <2>3
<1> QED  BY <1>2, <1>3

(* ReverseGraph::control_dependences *)
LEMMA ControlDependences ==
  ASSUME NEW n, NEW rows, NEW g, g = [count |-> n, succ |-> rows], IsGraph(g),
         NEW h, h = ReverseGraph(g), NEW top, top = VirtualExit(g),
         NEW t, IsExactTree(h, top, t), NEW a \in NodeIds(g), NEW b \in NodeIds(g)
  PROVE  b \in FrontierHolders(t, a) <=> /\ Splits(g, a)
                                         /\ SuccessorSet(g, a) \cap Certain(g, b) # {}
                                         /\ a = b \/ a \notin Certain(g, b)
<1>1. IsReverse(g, h, top) /\ (Len(Predecessors(h, a)) >= 2 <=> Splits(g, a))
  BY ReversedEdges, SplitsAreJoins
<1>2. /\ a \in NodeIds(h) /\ b \in ReachableFrom(h, top) /\ a # top
      /\ NodeIds(h) = NodeIds(g) \cup {top} /\ top \notin NodeIds(g) /\ IsGraph(h) /\ IsGraph(g)
  BY <1>1, AllReachedBack DEF IsReverse
<1>3. BehindOf(h, top, b) = Certain(g, b) /\ top \notin Certain(g, b)
  BY <1>1, CertainIsBehind
<1>4. CASE Splits(g, a)
  <2>1. b \in FrontierHolders(t, a)
            <=> /\ \E p \in PredecessorSet(h, a) : p \in Certain(g, b)
                /\ b = a \/ a \notin Certain(g, b)
    BY <1>1, <1>2, <1>3, <1>4, HoldersAreExact
  <2>2. ASSUME NEW p \in PredecessorSet(h, a), p \in Certain(g, b) PROVE p \in SuccessorSet(g, a)
    <3>1. p \in NodeIds(g) /\ a \in SuccessorSet(h, p)
      BY <1>2, <1>3, <2>2 DEF PredecessorSet
    <3> QED  BY <1>1, <3>1 DEF IsReverse, PredecessorSet
  <2>3. ASSUME NEW p \in SuccessorSet(g, a) PROVE p \in PredecessorSet(h, a)
    <3>1. p \in NodeIds(g) /\ p \in NodeIds(h)
      BY <1>2, SuccessorsAreNodes
    <3>2. a \in SuccessorSet(h, p)
      BY <1>1, <3>1 DEF IsReverse, PredecessorSet
    <3> QED  BY <3>1, <3>2 DEF PredecessorSet
  <2> QED  BY <1>4, <2>1, <2>2, <2>3
<1>5. CASE ~Splits(g, a)
  <2> DEFINE preds == Predecessors(h, a)
  <2>1. t.predecessors[a] = preds /\ preds \in Seq(NodeIds(h))
    BY <1>2, PredecessorsType DEF IsExactTree
  <2>2. Len(preds) < 2
    <3>1. ~(Len(preds) >= 2)
      BY <1>1, <1>5
    <3> HIDE DEF preds
    <3> QED  BY <2>1, <3>1
  <2> HIDE DEF preds
  <2>3. FrontierHolders(t, a) = {}
    BY <2>1, <2>2 DEF FrontierHolders
  <2> QED  BY <1>5, <2>3
<1> QED  BY <1>4, <1>5

(* Post-dominance and the control dependences are what the ways control can end
   say, for every graph, infinite loops included: the virtual exit is entered
   from the exits and from one block of every region that is never left. *)
THEOREM PostDominanceExact == Spec => []PostDominanceIsExact
<1>1. FlowInv /\ ResultInv => PostDominanceIsExact
  <2> SUFFICES ASSUME FlowInv, ResultInv, step = "answer", purpose = "dependence"
               PROVE  LET g == EhCfg
                          ends == Ends(g)
                          certain == [a \in NodeIds(g) |->
                              {a} \cup {b \in NodeIds(g) : ReachableAvoiding(g, {b}, {a}) \cap ends = {}}]
                          Forks(a) == Len(g.succ[a]) > 1 \/ (a \in ends /\ g.succ[a] # <<>>)
                      IN  /\ \A a, b \in NodeIds(g) : PostDominates(a, b) <=> b \in certain[a]
                          /\ \A v \in NodeIds(g) :
                                ImmediatePostDominator(v) = Nil
                                    <=> \A a \in NodeIds(g) \ {v} : v \notin certain[a]
                          /\ \A a, b \in NodeIds(g) :
                                InFrontierOf(b, a) <=> /\ Forks(a)
                                                       /\ SuccessorSet(g, a) \cap certain[b] # {}
                                                       /\ a = b \/ a \notin certain[b]
    BY DEF PostDominanceIsExact
  <2> DEFINE rows == [b \in NodeIds(function) |-> SsaCfg(function).succ[b] \o eh.extra[b]]
             g == EhCfg
             h == ReverseGraph(g)
             top == VirtualExit(g)
             certain == [a \in NodeIds(g) |->
                 {a} \cup {b \in NodeIds(g) : ReachableAvoiding(g, {b}, {a}) \cap Ends(g) = {}}]
  <2>1. /\ IsExactTree(h, top, tree) /\ IsFrontiers(h, tree, frontiers)
        /\ Len(frontiers) = h.count /\ DOMAIN eh.extra = NodeIds(function)
    BY DEF ResultInv, Answering, TreeGraph, TreeRoot
  <2>2. /\ IsGraph(g) /\ IsGraph(h) /\ g = [count |-> function.count, succ |-> rows]
        /\ VirtualExit(function) = top /\ g.count \in Nat /\ top = g.count
    <3>1. IsGraph(g) /\ IsGraph(h)
      BY <2>1, TreeGraphIsGraph DEF TreeGraph
    <3>2. g = [count |-> function.count, succ |-> rows]
      BY DEF EhCfg
    <3> QED  BY <3>1, <3>2 DEF IsGraph, VirtualExit
  <2>3. \A a \in NodeIds(g) : certain[a] = Certain(g, a)
    BY DEF Certain
  <2> HIDE DEF certain, rows, g, h, top
  <2>4. IsReverse(g, h, top)
    BY <2>2, ReversedEdges DEF h, top
  <2>5. \A a, b \in NodeIds(g) : PostDominates(a, b) <=> b \in certain[a]
    BY <2>1, <2>3, <2>4, PostDominators DEF PostDominates
  <2>6. ASSUME NEW v \in NodeIds(g)
        PROVE  ImmediatePostDominator(v) = Nil <=> \A a \in NodeIds(g) \ {v} : v \notin certain[a]
    <3> DEFINE i == ImmediateDominator(tree, v)
    <3>1. /\ i \in NodeIds(g) \cup {top}
          /\ i = top <=> \A a \in NodeIds(g) \ {v} : v \notin Certain(g, a)
      BY <2>1, <2>4, PostDominators
    <3>2. i # Nil /\ top # Nil
      BY <2>2, <3>1 DEF NodeIds, Nil
    <3>3. ImmediatePostDominator(v) = IF i = top THEN Nil ELSE i
      BY <2>2 DEF ImmediatePostDominator
    <3> HIDE DEF i
    <3> QED  BY <2>3, <3>1, <3>2, <3>3
  <2>7. ASSUME NEW a \in NodeIds(g), NEW b \in NodeIds(g)
        PROVE  InFrontierOf(b, a) <=> /\ Splits(g, a)
                                      /\ SuccessorSet(g, a) \cap certain[b] # {}
                                      /\ a = b \/ a \notin certain[b]
    <3>1. InFrontierOf(b, a) <=> b \in FrontierHolders(tree, a)
      <4>1. a \in NodeIds(h) /\ a < Len(frontiers)
        BY <2>1, <2>2, <2>4 DEF IsReverse, IsGraph, NodeIds
      <4> QED  BY <2>1, <4>1 DEF IsFrontiers, InFrontierOf
    <3>2. b \in FrontierHolders(tree, a) <=> /\ Splits(g, a)
                                             /\ SuccessorSet(g, a) \cap Certain(g, b) # {}
                                             /\ a = b \/ a \notin Certain(g, b)
      BY <2>1, <2>2, ControlDependences DEF h, top
    <3> QED  BY <2>3, <3>1, <3>2
  <2> QED  BY <2>5, <2>6, <2>7 DEF Splits, g, certain
<1>2. Init => FlowInv /\ DomInv /\ ResultInv
  BY FlowInvInit, DomInvInit, ResultInvInit
<1>3. FlowInv /\ DomInv /\ ResultInv /\ [Next]_vars => (FlowInv /\ DomInv /\ ResultInv)'
  BY FlowInvNext, DomInvNext, ResultInvNext
<1> QED  BY <1>1, <1>2, <1>3, PTL DEF Spec

-----------------------------------------------------------------------------
(* The sources of the back edges into h; and what a loop's body is: the
   nodes from which one of them is reached without passing the header. *)
Backs(g, r, h) == {n \in PredecessorSet(g, h) : n = h \/ n \in BehindOf(g, r, h)}

IsBody(g, r, h, B) ==
    /\ h \in B /\ B \subseteq NodeIds(g)
    /\ Backs(g, r, h) \subseteq B
    /\ \A v \in B \ {h} : PredecessorSet(g, v) \subseteq B
    /\ \A Y : /\ Backs(g, r, h) \ {h} \subseteq Y
              /\ \A v \in (B \ {h}) \cap Y : PredecessorSet(g, v) \ {h} \subseteq Y
              => B \ {h} \subseteq Y

LEMMA BackwardFacts ==
  ASSUME NEW n, NEW rows, NEW g, g = [count |-> n, succ |-> rows], IsGraph(g)
  PROVE  /\ IsGraph(Backward(g)) /\ NodeIds(Backward(g)) = NodeIds(g)
         /\ \A v \in NodeIds(g) : SuccessorSet(Backward(g), v) = PredecessorSet(g, v)
<1> DEFINE R == Backward(g)
<1>1. R.count = g.count /\ R.succ = [v \in NodeIds(g) |-> Predecessors(g, v)]
  BY DEF Backward
<1>2. NodeIds(R) = NodeIds(g) /\ g.count \in Nat
  BY <1>1 DEF NodeIds, IsGraph
<1> HIDE DEF R
<1>3. \A v \in NodeIds(g) : /\ Predecessors(g, v) \in Seq(NodeIds(g))
                            /\ ToSet(Predecessors(g, v)) = PredecessorSet(g, v)
  BY PredecessorsType
<1>4. IsGraph(R)
  BY <1>1, <1>2, <1>3 DEF IsGraph
<1>5. \A v \in NodeIds(g) : SuccessorSet(R, v) = PredecessorSet(g, v)
  BY <1>1, <1>3 DEF SuccessorSet
<1> QED  BY <1>2, <1>4, <1>5 DEF R

LEMMA BodyIsFound ==
  ASSUME NEW n, NEW rows, NEW g, g = [count |-> n, succ |-> rows], IsGraph(g),
         NEW r, NEW h \in NodeIds(g), NEW B,
         B = {h} \cup ReachableAvoiding(Backward(g), Backs(g, r, h), {h})
  PROVE  IsBody(g, r, h, B)
<1> DEFINE S == Backs(g, r, h)
           R == Backward(g)
           closed == {h}
           X == ReachableAvoiding(R, S, closed)
<1>1. /\ IsGraph(R) /\ NodeIds(R) = NodeIds(g)
      /\ \A v \in NodeIds(g) : SuccessorSet(R, v) = PredecessorSet(g, v)
  BY BackwardFacts
<1>2. S \in SUBSET NodeIds(R)
  BY <1>1 DEF Backs, PredecessorSet
<1>3. B = {h} \cup X
  OBVIOUS
<1> HIDE DEF R, S, closed
<1>4. /\ X \subseteq NodeIds(g) \ closed
      /\ S \ closed \subseteq X /\ IsClosed(R, closed, X)
      /\ \A Y : S \ closed \subseteq Y /\ (\A v \in X \cap Y : SuccessorSet(R, v) \ closed \subseteq Y)
                  => X \subseteq Y
  BY <1>1, <1>2, ReachableFacts
<1> HIDE DEF X
<1>5. closed = {h} /\ B \ {h} = X
  BY <1>3, <1>4 DEF closed
<1>6. \A v \in X : SuccessorSet(R, v) = PredecessorSet(g, v)
  BY <1>1, <1>4
<1>7. \A v \in B \ {h} : PredecessorSet(g, v) \subseteq B
  <2> SUFFICES ASSUME NEW v \in X, NEW u \in PredecessorSet(g, v), u # h
               PROVE  u \in X
    BY <1>3, <1>5
  <2>2. SuccessorSet(R, v) \ closed \subseteq X
    BY <1>4 DEF IsClosed
  <2>3. u \in SuccessorSet(R, v) /\ u \notin closed
    BY <1>5, <1>6
  <2> QED  BY <2>2, <2>3
<1>8. S \subseteq B /\ B \subseteq NodeIds(g)
  BY <1>3, <1>4, <1>5
<1>9. ASSUME NEW Y, S \ {h} \subseteq Y,
             \A v \in (B \ {h}) \cap Y : PredecessorSet(g, v) \ {h} \subseteq Y
      PROVE  B \ {h} \subseteq Y
  <2>1. S \ closed \subseteq Y
    BY <1>5, <1>9
  <2>2. \A v \in X \cap Y : SuccessorSet(R, v) \ closed \subseteq Y
    BY <1>5, <1>6, <1>9
  <2>3. X \subseteq Y
    BY ONLY <1>4, <2>1, <2>2
  <2> QED  BY <1>5, <2>3
<1> QED  BY <1>3, <1>7, <1>8, <1>9 DEF IsBody, S

(* A header control can reach dominates its loop; the loop is what can return
   to it without leaving what it dominates. *)
LEMMA BodyIsBehind ==
  ASSUME NEW g, NEW T, IsDfs(g, T), NEW r, r = T.root, NEW h \in ReachableFrom(g, r),
         NEW B, IsBody(g, r, h, B), NEW b \in B, b \in ReachableFrom(g, r)
  PROVE  b \in BehindOf(g, r, h)
<1> DEFINE reach == ReachableFrom(g, r)
           Y == {v \in B : v \in reach => v \in BehindOf(g, r, h)}
<1>1. IsGraph(g) /\ r \in NodeIds(g)
  BY DEF IsDfs, IsTree
<1>2. h \in BehindOf(g, r, h) /\ Backs(g, r, h) \subseteq BehindOf(g, r, h)
  BY BehindFacts DEF Backs
<1>3. Backs(g, r, h) \subseteq Y
  BY <1>2 DEF IsBody
<1>4. ASSUME NEW v \in (B \ {h}) \cap Y, NEW u \in PredecessorSet(g, v)
      PROVE  u \in Y
  <2>1. u \in B /\ u \in NodeIds(g) /\ v \in SuccessorSet(g, u)
    BY <1>4 DEF IsBody, PredecessorSet
  <2>2. CASE u \in reach
    <3>1. v \in reach
      BY <1>1, <2>1, <2>2, ReachFacts
    <3>2. v \in BehindOf(g, r, h) /\ v # h /\ u \in T.nodes
      BY <1>4, <2>2, <3>1, BehindFacts
    <3>3. u \in BehindOf(g, r, h)
      <4>1. \A p, w : p \in T.nodes /\ w \in SuccessorSet(g, p) /\ w \in BehindOf(g, r, h) /\ w # h
                        => p \in BehindOf(g, r, h)
        BY BehindFacts
      <4> QED  BY <2>1, <3>2, <4>1
    <3> QED  BY <2>1, <3>3
  <2> QED  BY <2>1, <2>2
<1>5. B \ {h} \subseteq Y
  <2> HIDE DEF Y
  <2> QED  BY <1>3, <1>4 DEF IsBody
<1> QED  BY <1>2, <1>5

(* The nodes behind a, without the others. *)
Within(g, r, a, v) == ReachableAvoiding(g, {v}, NodeIds(g) \ BehindOf(g, r, a))

LEMMA WithinFacts ==
  ASSUME NEW g, IsGraph(g), NEW r, NEW a, NEW v \in NodeIds(g)
  PROVE  /\ Within(g, r, a, v) \subseteq NodeIds(g) \cap BehindOf(g, r, a)
         /\ v \in BehindOf(g, r, a) => v \in Within(g, r, a, v)
         /\ \A x \in Within(g, r, a, v) :
               SuccessorSet(g, x) \cap BehindOf(g, r, a) \subseteq Within(g, r, a, v)
         /\ \A Y : /\ v \in BehindOf(g, r, a) => v \in Y
                   /\ \A x \in Within(g, r, a, v) \cap Y :
                         SuccessorSet(g, x) \cap BehindOf(g, r, a) \subseteq Y
                   => Within(g, r, a, v) \subseteq Y
<1> DEFINE starts == {v}
           closed == NodeIds(g) \ BehindOf(g, r, a)
           X == Within(g, r, a, v)
<1>1. starts \in SUBSET NodeIds(g) /\ X = ReachableAvoiding(g, starts, closed)
  BY DEF Within
<1> HIDE DEF X, starts, closed
<1>2. /\ X \subseteq NodeIds(g) \ closed /\ starts \ closed \subseteq X /\ IsClosed(g, closed, X)
      /\ \A Y : starts \ closed \subseteq Y /\ (\A w \in X \cap Y : SuccessorSet(g, w) \ closed \subseteq Y)
                  => X \subseteq Y
  BY <1>1, ReachableFacts
<1>3. starts \ closed = IF v \in BehindOf(g, r, a) THEN {v} ELSE {}
  BY DEF starts, closed
<1>4. \A x \in X : SuccessorSet(g, x) \ closed = SuccessorSet(g, x) \cap BehindOf(g, r, a)
  <2>1. ASSUME NEW x \in X PROVE SuccessorSet(g, x) \subseteq NodeIds(g)
    BY <1>2, SuccessorsAreNodes
  <2> QED  BY <2>1 DEF closed
<1>5. X \subseteq NodeIds(g) \cap BehindOf(g, r, a)
  BY <1>2 DEF closed
<1>6. \A x \in X : SuccessorSet(g, x) \cap BehindOf(g, r, a) \subseteq X
  BY <1>2, <1>4 DEF IsClosed
<1>7. ASSUME NEW Y, v \in BehindOf(g, r, a) => v \in Y,
             \A x \in X \cap Y : SuccessorSet(g, x) \cap BehindOf(g, r, a) \subseteq Y
      PROVE  X \subseteq Y
  BY <1>2, <1>3, <1>4, <1>7
<1>8. v \in BehindOf(g, r, a) => v \in X
  BY <1>2, <1>3
<1> QED  BY <1>5, <1>6, <1>7, <1>8 DEF X

LEMMA WithinLeads ==
  ASSUME NEW g, IsGraph(g), NEW r, NEW a, NEW v \in NodeIds(g), NEW w \in Within(g, r, a, v)
  PROVE  Within(g, r, a, w) \subseteq Within(g, r, a, v)
<1>1. w \in NodeIds(g)
  BY WithinFacts
<1>2. \A x \in Within(g, r, a, v) :
         SuccessorSet(g, x) \cap BehindOf(g, r, a) \subseteq Within(g, r, a, v)
  BY WithinFacts
<1> DEFINE Y == Within(g, r, a, v)
<1> HIDE DEF Y
<1>3. w \in Y /\ \A x \in Y : SuccessorSet(g, x) \cap BehindOf(g, r, a) \subseteq Y
  BY <1>2 DEF Y
<1>4. Within(g, r, a, w) \subseteq Y
  BY <1>1, <1>3, WithinFacts
<1> QED  BY <1>4 DEF Y

LEMMA BodyIsNatural ==
  ASSUME NEW g, NEW T, IsDfs(g, T), NEW r, r = T.root, NEW h \in ReachableFrom(g, r),
         NEW B, IsBody(g, r, h, B)
  PROVE  B \cap ReachableFrom(g, r) = {v \in BehindOf(g, r, h) : h \in Within(g, r, h, v)}
<1> DEFINE reach == ReachableFrom(g, r)
           back == BehindOf(g, r, h)
           Y == {v \in NodeIds(g) : v \in reach => h \in Within(g, r, h, v)}
<1>1. IsGraph(g) /\ r \in NodeIds(g) /\ reach \subseteq NodeIds(g)
  <2>1. IsGraph(g) /\ r \in NodeIds(g)
    BY DEF IsDfs, IsTree
  <2> QED  BY <2>1, ReachFacts
<1>2. h \in back /\ back \subseteq reach
  <2>1. back \subseteq reach
    BY DEF BehindOf
  <2>2. h \in T.nodes
    BY TreeIsReachable
  <2>3. h \in back
    BY <2>2, BehindFacts
  <2> QED  BY <2>1, <2>3
<1>3. \A v \in B \cap reach : v \in back
  BY BodyIsBehind
<1>4. ASSUME NEW v \in back, NEW u \in back, v \in SuccessorSet(g, u)
      PROVE  Within(g, r, h, v) \subseteq Within(g, r, h, u)
  <2>1. u \in NodeIds(g) /\ u \in Within(g, r, h, u)
    BY <1>1, <1>2, WithinFacts
  <2>2. v \in Within(g, r, h, u)
    BY <1>1, <1>4, <2>1, WithinFacts
  <2> QED  BY <1>1, <2>1, <2>2, WithinLeads
<1>5. h \in Within(g, r, h, h)
  BY <1>1, <1>2, WithinFacts
<1>6. Backs(g, r, h) \subseteq Y
  <2> SUFFICES ASSUME NEW v \in Backs(g, r, h) PROVE v \in Y
    OBVIOUS
  <2>1. v \in NodeIds(g) /\ h \in SuccessorSet(g, v) /\ v \in back
    BY <1>2 DEF Backs, PredecessorSet
  <2>2. h \in Within(g, r, h, v)
    BY <1>2, <1>4, <1>5, <2>1
  <2> QED  BY <2>1, <2>2
<1>7. ASSUME NEW v \in (B \ {h}) \cap Y, NEW u \in PredecessorSet(g, v)
      PROVE  u \in Y
  <2>1. u \in B /\ u \in NodeIds(g) /\ v \in SuccessorSet(g, u)
    BY <1>7 DEF IsBody, PredecessorSet
  <2>2. CASE u \in reach
    <3>1. v \in reach
      BY <1>1, <2>1, <2>2, ReachFacts
    <3>2. v \in back /\ u \in back /\ h \in Within(g, r, h, v)
      BY <1>3, <1>7, <2>1, <2>2, <3>1
    <3>3. h \in Within(g, r, h, u)
      BY <1>4, <2>1, <3>2
    <3> QED  BY <2>1, <3>3
  <2> QED  BY <2>1, <2>2
<1>8. B \ {h} \subseteq Y
  <2> HIDE DEF Y
  <2> QED  BY <1>6, <1>7 DEF IsBody
<1>9. \A v \in B \cap reach : v \in back /\ h \in Within(g, r, h, v)
  BY <1>3, <1>5, <1>8
<1>10. ASSUME NEW v \in back, h \in Within(g, r, h, v) PROVE v \in B
  <2> SUFFICES ASSUME v \notin B PROVE FALSE
    OBVIOUS
  <2> DEFINE Z == NodeIds(g) \ B
  <2>1. v \in NodeIds(g) /\ v \in Z
    BY <1>1, <1>2
  <2>2. ASSUME NEW x \in Within(g, r, h, v) \cap Z, NEW w \in SuccessorSet(g, x) \cap back
        PROVE  w \in Z
    <3>1. x \in NodeIds(g) /\ x \in back /\ w \in NodeIds(g) /\ x \in PredecessorSet(g, w)
      BY <1>1, <1>2, <2>1, WithinFacts DEF PredecessorSet
    <3>2. CASE w = h
      <4>1. x \in Backs(g, r, h)
        BY <3>1, <3>2 DEF Backs
      <4> QED  BY <4>1 DEF IsBody
    <3>3. CASE w # h
      BY <3>1, <3>3 DEF IsBody
    <3> QED  BY <3>2, <3>3
  <2>3. Within(g, r, h, v) \subseteq Z
    <3> HIDE DEF Z
    <3> QED  BY <1>1, <2>1, <2>2, WithinFacts
  <2>4. h \in B
    BY DEF IsBody
  <2> QED  BY <1>10, <2>3, <2>4
<1> QED  BY <1>2, <1>9, <1>10

(* Two loops that share a block control can reach are one inside the other. *)
LEMMA BodiesNest ==
  ASSUME NEW g, NEW T, IsDfs(g, T), NEW r, r = T.root,
         NEW h \in ReachableFrom(g, r), NEW k \in BehindOf(g, r, h), h # k,
         NEW B, IsBody(g, r, h, B), NEW C, IsBody(g, r, k, C),
         NEW b \in B \cap C, b \in ReachableFrom(g, r)
  PROVE  k \in B /\ C \subseteq B /\ h \notin C
<1> DEFINE reach == ReachableFrom(g, r)
           W == Avoiding(g, T, k)
<1>1. IsGraph(g) /\ r \in NodeIds(g) /\ T.root = r /\ reach \subseteq NodeIds(g) /\ T.nodes = reach
  <2>1. IsGraph(g) /\ r \in NodeIds(g)
    BY DEF IsDfs, IsTree
  <2> QED  BY <2>1, ReachFacts, TreeIsReachable
<1>2. k \in reach /\ h \notin BehindOf(g, r, k)
  BY BehindFacts
<1>3. b \in BehindOf(g, r, k)
  BY <1>2, BodyIsBehind
<1>4. b \notin W /\ h \in W
  BY <1>1, <1>2, <1>3, BehindFacts
<1>5. r # k
  <2>1. h \in BehindOf(g, r, r)
    BY <1>1, BehindFacts
  <2> QED  BY <1>2, <2>1
<1>6. r \in W /\ \A v \in W : \A w \in SuccessorSet(g, v) : w # k => w \in W
  BY <1>1, <1>5, AvoidingFacts
<1>7. k \in B
  <2> SUFFICES ASSUME k \notin B PROVE FALSE
    OBVIOUS
  <2> DEFINE Y == {v \in reach : v \in B => v \in W}
  <2>1. r \in Y
    BY <1>1, <1>6, ReachFacts
  <2>2. ASSUME NEW v \in reach \cap Y, NEW w \in SuccessorSet(g, v) PROVE w \in Y
    <3>1. w \in reach /\ v \in PredecessorSet(g, w)
      BY <1>1, <2>2, ReachFacts DEF PredecessorSet
    <3>2. CASE w \in B /\ w # h
      <4>1. v \in B /\ w # k
        BY <3>1, <3>2 DEF IsBody
      <4> QED  BY <1>6, <2>2, <3>1, <4>1
    <3> QED  BY <1>4, <3>1, <3>2
  <2>3. reach \subseteq Y
    <3> HIDE DEF Y
    <3> QED  BY <1>1, <2>1, <2>2, ReachFacts
  <2> QED  BY <1>4, <2>3
<1>8. h \notin C
  BY <1>2, BodyIsBehind
<1>9. C \subseteq B
  <2>1. Backs(g, r, k) \subseteq B
    BY <1>7 DEF IsBody, Backs
  <2>2. \A v \in (C \ {k}) \cap B : PredecessorSet(g, v) \subseteq B
    BY <1>8 DEF IsBody
  <2>3. C \ {k} \subseteq B
    BY <2>1, <2>2 DEF IsBody
  <2> QED  BY <1>7, <2>3
<1> QED  BY <1>7, <1>8, <1>9

-----------------------------------------------------------------------------
(* How loops nest.  N is the set of nodes and R those control reaches; B has
   the loop of each header in H. *)
AroundIn(H, B, b) == {h \in H : b \in B[h]}
IsInside(B, h, k) == k \in B[h] /\ B[k] \subseteq B[h] /\ h \notin B[k]

IsLaminar(N, R, H, B) ==
    /\ H \subseteq N /\ \A h \in H : h \in B[h] /\ B[h] \subseteq N
    /\ \A h \in H \ R : B[h] = {h}
    /\ \A h, k \in H \cap R : h # k /\ B[h] \cap B[k] \cap R # {}
                                 => IsInside(B, h, k) \/ IsInside(B, k, h)

LEMMA OnlyReachedAround ==
  ASSUME NEW N, NEW R, NEW H, NEW B, IsLaminar(N, R, H, B), NEW b \in R
  PROVE  AroundIn(H, B, b) \subseteq H \cap R
BY DEF IsLaminar, AroundIn

LEMMA InsideIsDeeper ==
  ASSUME NEW N, NEW R, NEW H, NEW B, IsLaminar(N, R, H, B),
         NEW h \in H \cap R, NEW k \in H \cap R, IsInside(B, h, k)
  PROVE  /\ AroundIn(H, B, h) \subseteq AroundIn(H, B, k)
         /\ k \in AroundIn(H, B, k) /\ k \notin AroundIn(H, B, h)
         /\ h \in AroundIn(H, B, h)
<1>1. h \in B[h] /\ k \in B[k] /\ h \notin B[k] /\ k \in B[h]
  BY DEF IsLaminar, IsInside
<1>2. ASSUME NEW j \in AroundIn(H, B, h) PROVE k \in B[j]
  <2>1. j \in H \cap R /\ h \in B[j]
    BY <1>2, OnlyReachedAround DEF AroundIn
  <2>2. CASE j # h
    <3>1. B[j] \cap B[h] \cap R # {}
      BY <1>1, <2>1
    <3>2. IsInside(B, j, h) \/ IsInside(B, h, j)
      BY <2>1, <2>2, <3>1 DEF IsLaminar
    <3> QED  BY <1>1, <2>1, <3>2 DEF IsInside
  <2> QED  BY <1>1, <2>2
<1>3. k \notin AroundIn(H, B, h)
  <2>1. CASE k \in AroundIn(H, B, h)
    <3>1. h \in B[k]
      BY <2>1 DEF AroundIn
    <3> QED  BY <1>1, <3>1
  <2> QED  BY <2>1
<1> QED  BY <1>1, <1>2, <1>3 DEF AroundIn

(* The parent of h is a smallest loop around it. *)
LEMMA ParentFacts ==
  ASSUME NEW N, NEW R, NEW H, NEW B, IsLaminar(N, R, H, B), IsFiniteSet(N),
         NEW h \in H \cap R, NEW p \in AroundIn(H, B, h) \ {h},
         \A j \in AroundIn(H, B, h) \ {h} : Cardinality(B[p]) <= Cardinality(B[j])
  PROVE  /\ p \in H \cap R /\ AroundIn(H, B, h) = AroundIn(H, B, p) \cup {h}
         /\ h \notin AroundIn(H, B, p)
<1>1. p \in H \cap R /\ h \in B[p] /\ p # h
  BY OnlyReachedAround DEF AroundIn
<1>2. h \in B[h] /\ p \in B[p]
  BY <1>1 DEF IsLaminar
<1>3. \A j \in H : IsFiniteSet(B[j]) /\ Cardinality(B[j]) \in Nat
  BY FS_Subset, FS_CardinalityType DEF IsLaminar
<1>4. ASSUME NEW a \in H, NEW b \in H, IsInside(B, a, b)
      PROVE  Cardinality(B[b]) < Cardinality(B[a])
  <2>1. a \in B[a] /\ B[b] \subseteq B[a] /\ a \notin B[b]
    BY <1>4 DEF IsInside, IsLaminar
  <2>2. B[b] # B[a]
    BY <2>1
  <2> QED  BY <1>3, <2>1, <2>2, FS_Subset
<1>5. IsInside(B, p, h)
  <2>1. B[p] \cap B[h] \cap R # {}
    BY <1>1, <1>2
  <2>2. IsInside(B, p, h) \/ IsInside(B, h, p)
    BY <1>1, <2>1 DEF IsLaminar
  <2> QED  BY <1>1, <2>2 DEF IsInside
<1>6. /\ AroundIn(H, B, p) \subseteq AroundIn(H, B, h)
      /\ h \in AroundIn(H, B, h) /\ h \notin AroundIn(H, B, p)
  BY <1>1, <1>5, InsideIsDeeper
<1>7. ASSUME NEW k \in AroundIn(H, B, h), k # h PROVE k \in AroundIn(H, B, p)
  <2>1. k \in H \cap R /\ h \in B[k]
    BY <1>7, OnlyReachedAround DEF AroundIn
  <2>2. CASE k # p
    <3>1. B[k] \cap B[p] \cap R # {}
      BY <1>1, <2>1
    <3>2. IsInside(B, k, p) \/ IsInside(B, p, k)
      BY <1>1, <2>1, <2>2, <3>1 DEF IsLaminar
    <3>3. CASE IsInside(B, p, k)
      <4>1. Cardinality(B[k]) < Cardinality(B[p]) /\ Cardinality(B[p]) <= Cardinality(B[k])
        BY <1>1, <1>4, <1>7, <2>1, <3>3
      <4> QED  BY <1>1, <1>3, <2>1, <4>1
    <3>4. CASE IsInside(B, k, p)
      BY <2>1, <3>4 DEF IsInside, AroundIn
    <3> QED  BY <3>2, <3>3, <3>4
  <2>3. CASE k = p
    BY <1>1, <1>2, <2>3 DEF AroundIn
  <2> QED  BY <2>2, <2>3
<1> QED  BY <1>1, <1>6, <1>7

LEMMA DepthUnfolds ==
  ASSUME NEW H, Nil \notin H, NEW up \in [H -> H \cup {Nil}],
         NEW n \in Nat, NEW num \in [H -> 0 .. n],
         \A h \in H : up[h] # Nil => num[up[h]] < num[h]
  PROVE  \A h \in H : Depth(up, h) = IF up[h] = Nil THEN 0 ELSE Depth(up, up[h]) + 1
<1> DEFINE comp == {h \in H : up[h] # Nil}
           above == [h \in comp |-> up[h]]
           zero == [h \in H |-> 0]
           more == [h \in comp |-> [d \in Nat |-> d + 1]]
           DefD(D) == D = [k \in DOMAIN up |-> IF up[k] = Nil THEN 0 ELSE D[up[k]] + 1]
<1>1. /\ comp \in SUBSET H /\ above \in [comp -> H] /\ zero \in [H -> Nat]
      /\ more \in [comp -> [Nat -> Nat]]
      /\ \A h \in comp : above[h] = up[h] /\ num[above[h]] < num[h] /\ \A d \in Nat : more[h][d] = d + 1
      /\ \A h \in H : zero[h] = 0 /\ (h \in comp <=> up[h] # Nil)
  OBVIOUS
<1> HIDE DEF comp, above, zero, more
<1>2. PICK f \in [H -> Nat] : IsRecursive(f, H, comp, above, zero, more)
  BY <1>1, RecursionExists
<1>3. DefD(f)
  <2>1. ASSUME NEW h \in H PROVE f[h] = IF up[h] = Nil THEN 0 ELSE f[up[h]] + 1
    <3>1. f[h] = IF h \in comp THEN more[h][f[above[h]]] ELSE zero[h]
      BY <1>2 DEF IsRecursive
    <3>2. h \in comp => above[h] \in H /\ f[above[h]] \in Nat /\ above[h] = up[h]
      BY <1>1
    <3> QED  BY <1>1, <3>1, <3>2
  <2>2. f = [h \in H |-> f[h]] /\ DOMAIN up = H
    OBVIOUS
  <2> QED  BY <2>1, <2>2
<1> DEFINE D == CHOOSE D : DefD(D)
<1>4. DefD(D)
  BY <1>3
<1>5. \A h : Depth(up, h) = D[h]
  BY DEF Depth
<1> HIDE DEF D
<1>6. \A h \in H : D[h] = IF up[h] = Nil THEN 0 ELSE D[up[h]] + 1
  <2> SUFFICES ASSUME NEW h \in H PROVE D[h] = IF up[h] = Nil THEN 0 ELSE D[up[h]] + 1
    OBVIOUS
  <2> QED  BY <1>4
<1> QED  BY <1>5, <1>6

(* A parent is Nil or a smallest of the loops around a header. *)
IsParentage(H, B, up) ==
    /\ up \in [H -> H \cup {Nil}]
    /\ \A h \in H :
          IF AroundIn(H, B, h) \ {h} = {} THEN up[h] = Nil
          ELSE /\ up[h] \in AroundIn(H, B, h) \ {h}
               /\ \A j \in AroundIn(H, B, h) \ {h} : Cardinality(B[up[h]]) <= Cardinality(B[j])

LEMMA DepthIsCount ==
  ASSUME NEW N, NEW R, NEW H, NEW B, IsLaminar(N, R, H, B), IsFiniteSet(N), Nil \notin N,
         NEW up, IsParentage(H, B, up)
  PROVE  \A h \in H \cap R : Depth(up, h) = Cardinality(AroundIn(H, B, h)) - 1
<1> DEFINE n == Cardinality(N)
           num == [h \in H |-> n - Cardinality(B[h])]
<1>1. H \subseteq N /\ n \in Nat /\ up \in [H -> H \cup {Nil}] /\ Nil \notin H
  BY FS_CardinalityType DEF IsLaminar, IsParentage
<1>2. \A h \in H : /\ h \in B[h] /\ IsFiniteSet(B[h])
                   /\ Cardinality(B[h]) \in Nat /\ Cardinality(B[h]) <= n
  BY FS_Subset, FS_CardinalityType DEF IsLaminar
<1>3. num \in [H -> 0 .. n]
  <2> HIDE DEF n
  <2> QED  BY <1>1, <1>2
<1>4. ASSUME NEW h \in H, up[h] # Nil
      PROVE  /\ up[h] \in AroundIn(H, B, h) \ {h} /\ up[h] \in H \cap R
             /\ \A j \in AroundIn(H, B, h) \ {h} : Cardinality(B[up[h]]) <= Cardinality(B[j])
             /\ Cardinality(B[h]) < Cardinality(B[up[h]])
  <2>1. /\ up[h] \in AroundIn(H, B, h) \ {h}
        /\ \A j \in AroundIn(H, B, h) \ {h} : Cardinality(B[up[h]]) <= Cardinality(B[j])
    BY <1>4 DEF IsParentage
  <2> DEFINE p == up[h]
  <2>2. p \in H /\ h \in B[p] /\ p # h /\ p \in B[p]
    BY <1>2, <2>1 DEF AroundIn
  <2>3. p \in R
    BY <2>2 DEF IsLaminar
  <2>4. CASE h \in R
    <3>1. B[p] \cap B[h] \cap R # {}
      BY <1>2, <2>2, <2>4
    <3>2. IsInside(B, p, h) \/ IsInside(B, h, p)
      BY <2>2, <2>3, <2>4, <3>1 DEF IsLaminar
    <3>3. B[h] \subseteq B[p] /\ B[h] # B[p]
      BY <2>2, <3>2 DEF IsInside
    <3>4. Cardinality(B[h]) < Cardinality(B[p])
      <4> HIDE DEF p
      <4> QED  BY <1>2, <2>2, <3>3, FS_Subset
    <3> QED  BY <2>1, <2>2, <2>3, <3>4
  <2>5. CASE h \notin R
    <3>1. B[h] = {h}
      BY <2>5 DEF IsLaminar
    <3>2. B[h] \subseteq B[p] /\ B[h] # B[p]
      BY <2>2, <3>1
    <3>3. Cardinality(B[h]) < Cardinality(B[p])
      <4> HIDE DEF p
      <4> QED  BY <1>2, <2>2, <3>2, FS_Subset
    <3> QED  BY <2>1, <2>2, <2>3, <3>3
  <2> QED  BY <2>4, <2>5
<1>5. \A h \in H : up[h] # Nil => num[up[h]] < num[h]
  <2> SUFFICES ASSUME NEW h \in H, up[h] # Nil PROVE num[up[h]] < num[h]
    OBVIOUS
  <2>1. up[h] \in H /\ Cardinality(B[h]) < Cardinality(B[up[h]])
    BY <1>4
  <2>2. Cardinality(B[h]) \in Nat /\ Cardinality(B[up[h]]) \in Nat
    BY <1>2, <2>1
  <2> HIDE DEF n
  <2> QED  BY <1>1, <2>1, <2>2
<1>6. \A h \in H : Depth(up, h) = IF up[h] = Nil THEN 0 ELSE Depth(up, up[h]) + 1
  <2> HIDE DEF num, n
  <2> QED  BY <1>1, <1>3, <1>5, DepthUnfolds
<1>7. \A h \in H : IsFiniteSet(AroundIn(H, B, h)) /\ Cardinality(AroundIn(H, B, h)) \in Nat
  <2>1. \A h \in H : AroundIn(H, B, h) \subseteq N
    BY <1>1 DEF AroundIn
  <2> QED  BY <2>1, FS_Subset, FS_CardinalityType
<1> DEFINE Count(h) == Cardinality(AroundIn(H, B, h)) - 1
<1>8. ASSUME NEW h \in H \cap R
      PROVE  IF up[h] = Nil THEN Count(h) = 0 ELSE Count(h) = Count(up[h]) + 1
  <2>1. CASE up[h] = Nil
    <3>1. AroundIn(H, B, h) \ {h} = {}
      <4> DEFINE around == AroundIn(H, B, h) \ {h}
      <4>1. around # {} => up[h] \in around
        BY DEF IsParentage
      <4>2. around \subseteq H
        BY DEF AroundIn
      <4> QED  BY <1>1, <2>1, <4>1, <4>2
    <3>2. AroundIn(H, B, h) = {h}
      BY <1>2, <3>1 DEF AroundIn
    <3> QED  BY <2>1, <3>2, FS_Singleton
  <2>2. CASE up[h] # Nil
    <3>1. PICK p : p = up[h]
      OBVIOUS
    <3>2. /\ p \in AroundIn(H, B, h) \ {h} /\ p \in H
          /\ \A j \in AroundIn(H, B, h) \ {h} : Cardinality(B[p]) <= Cardinality(B[j])
      BY <1>4, <2>2, <3>1
    <3>3. AroundIn(H, B, h) = AroundIn(H, B, p) \cup {h} /\ h \notin AroundIn(H, B, p)
      BY <3>2, ParentFacts
    <3>4. Cardinality(AroundIn(H, B, p) \cup {h}) = Cardinality(AroundIn(H, B, p)) + 1
      BY <1>7, <3>2, <3>3, FS_AddElement
    <3>5. Count(h) = Count(p) + 1
      BY <1>7, <3>2, <3>3, <3>4
    <3> QED  BY <2>2, <3>1, <3>5
  <2> QED  BY <2>1, <2>2
<1> DEFINE Good == {k \in Nat : \A h \in H \cap R : num[h] < k => Depth(up, h) = Count(h)}
<1>9. Good = Nat
  <2>1. 0 \in Good
    BY <1>3
  <2>2. ASSUME NEW k \in Good PROVE k + 1 \in Good
    <3> SUFFICES ASSUME NEW h \in H \cap R, num[h] < k + 1 PROVE Depth(up, h) = Count(h)
      OBVIOUS
    <3> HIDE DEF num, Count
    <3>1. CASE up[h] = Nil
      BY <1>6, <1>8, <3>1
    <3>2. CASE up[h] # Nil
      <4>1. up[h] \in H \cap R /\ num[up[h]] < num[h]
        BY <1>4, <1>5, <3>2
      <4>2. num[up[h]] < k
        BY <1>3, <4>1
      <4>3. Depth(up, up[h]) = Count(up[h])
        BY <2>2, <4>1, <4>2
      <4> QED  BY <1>6, <1>8, <3>2, <4>3
    <3> QED  BY <3>1, <3>2
  <2>3. Good \in SUBSET Nat
    OBVIOUS
  <2> HIDE DEF Good
  <2> QED  BY <2>1, <2>2, <2>3, Induction
<1> SUFFICES ASSUME NEW h \in H \cap R PROVE Depth(up, h) = Count(h)
  OBVIOUS
<1>10. num[h] + 1 \in Good /\ num[h] < num[h] + 1
  <2> HIDE DEF num
  <2> QED  BY <1>3, <1>9
<1> QED  BY <1>10

LEMMA InnermostFacts ==
  ASSUME NEW N \in SUBSET Nat, NEW R, NEW H, NEW B, IsLaminar(N, R, H, B), IsFiniteSet(N),
         NEW F, DOMAIN F = H, \A h \in H : F[h].body = B[h],
         \A h \in H \cap R : F[h].depth = Cardinality(AroundIn(H, B, h)) - 1,
         NEW b \in R
  PROVE  LET A == AroundIn(H, B, b)
         IN  IF A = {} THEN InnermostLoop(F, b) = Nil
             ELSE /\ InnermostLoop(F, b) \in A
                  /\ \A h \in A : B[InnermostLoop(F, b)] \subseteq B[h]
<1> DEFINE A == AroundIn(H, B, b)
           Before(h, k) == \/ F[h].depth > F[k].depth
                           \/ F[h].depth = F[k].depth /\ h <= k
           Good(h) == h \in A /\ \A k \in A : Before(h, k)
           n == Cardinality(N)
<1>1. A \subseteq H \cap R /\ H \subseteq N
  BY OnlyReachedAround DEF IsLaminar
<1>2. {h \in DOMAIN F : b \in F[h].body} = A
  BY DEF AroundIn
<1>3. InnermostLoop(F, b) = IF A = {} THEN Nil ELSE CHOOSE h \in A : \A k \in A : Before(h, k)
  <2> DEFINE C == {h \in DOMAIN F : b \in F[h].body}
  <2>1. InnermostLoop(F, b) = IF C = {} THEN Nil ELSE CHOOSE h \in C : \A k \in C : Before(h, k)
    BY Zenon DEF InnermostLoop
  <2>2. C = A
    BY <1>2
  <2> HIDE DEF C, A, Before
  <2> QED  BY <2>1, <2>2
<1>4. \A h \in H : IsFiniteSet(AroundIn(H, B, h)) /\ Cardinality(AroundIn(H, B, h)) \in 0 .. n
                   /\ n \in Nat
  <2>1. \A h \in H : AroundIn(H, B, h) \subseteq N
    BY <1>1 DEF AroundIn
  <2> QED  BY <2>1, FS_Subset, FS_CardinalityType
<1>5. \A h \in H \cap R : F[h].depth \in Int /\ F[h].depth < n
  <2> HIDE DEF n
  <2> QED  BY <1>4
<1>6. ASSUME NEW h \in H \cap R, NEW k \in H \cap R, IsInside(B, h, k)
      PROVE  F[h].depth < F[k].depth
  <2> DEFINE X == AroundIn(H, B, h)
             Y == AroundIn(H, B, k)
  <2>1. X \subseteq Y /\ X # Y /\ IsFiniteSet(Y)
    BY <1>4, <1>6, InsideIsDeeper
  <2>2. Cardinality(X) < Cardinality(Y)
    <3>1. Cardinality(X) \in Nat /\ Cardinality(Y) \in Nat
      BY <1>4
    <3> HIDE DEF X, Y
    <3> QED  BY <2>1, <3>1, FS_Subset
  <2>3. F[h].depth = Cardinality(X) - 1 /\ F[k].depth = Cardinality(Y) - 1
    OBVIOUS
  <2>4. Cardinality(X) \in Nat /\ Cardinality(Y) \in Nat
    BY <1>4
  <2> HIDE DEF X, Y
  <2> QED  BY <2>2, <2>3, <2>4
<1>7. ASSUME NEW h \in A, NEW k \in A, h # k PROVE IsInside(B, h, k) \/ IsInside(B, k, h)
  <2>1. B[h] \cap B[k] \cap R # {}
    BY <1>7 DEF AroundIn
  <2> QED  BY <1>1, <1>7, <2>1 DEF IsLaminar
<1> SUFFICES ASSUME A # {}
             PROVE  /\ InnermostLoop(F, b) \in A
                    /\ \A h \in A : B[InnermostLoop(F, b)] \subseteq B[h]
  BY <1>3
<1>8. \E h : Good(h)
  <2> DEFINE X == {n - F[h].depth : h \in A}
  <2>1. X \in SUBSET Nat /\ X # {}
    <3>1. n \in Nat
      BY FS_CardinalityType
    <3>2. ASSUME NEW h \in A PROVE n - F[h].depth \in Nat
      <4>1. F[h].depth \in Int /\ F[h].depth < n
        BY <1>1, <1>5
      <4> HIDE DEF n
      <4> QED  BY <3>1, <4>1
    <3> HIDE DEF n
    <3> QED  BY <3>2
  <2>2. PICK x \in X : \A y \in X : x <= y
    <3> HIDE DEF X
    <3> QED  BY <2>1, LeastElement
  <2>3. PICK h \in A : x = n - F[h].depth
    BY <2>2
  <2>4. ASSUME NEW k \in A PROVE Before(h, k)
    <3>1. n - F[h].depth <= n - F[k].depth
      BY <2>2, <2>3
    <3>2. F[h].depth \in Int /\ F[k].depth \in Int /\ n \in Nat /\ h \in Nat /\ k \in Nat
      BY <1>1, <1>5, FS_CardinalityType
    <3>3. CASE h = k
      BY <3>2, <3>3
    <3>4. CASE h # k
      <4>1. F[h].depth # F[k].depth
        BY <1>1, <1>6, <1>7, <3>2, <3>4
      <4> HIDE DEF n
      <4> QED  BY <3>1, <3>2, <4>1
    <3> QED  BY <3>3, <3>4
  <2> QED  BY <2>4
<1> DEFINE m == InnermostLoop(F, b)
<1>9. m = CHOOSE h : Good(h)
  <2>1. (CHOOSE h \in A : \A k \in A : Before(h, k)) = CHOOSE h : Good(h)
    OBVIOUS
  <2> QED  BY <1>3, <2>1
<1>10. Good(m)
  BY <1>8, <1>9
<1>11. ASSUME NEW h \in A PROVE B[m] \subseteq B[h]
  <2>1. m \in A /\ Before(m, h)
    BY <1>10
  <2>2. CASE h # m
    <3>1. IsInside(B, h, m) \/ IsInside(B, m, h)
      BY <1>7, <2>1, <2>2
    <3>2. ~IsInside(B, m, h)
      <4>1. m \in H \cap R /\ h \in H \cap R /\ F[m].depth \in Int /\ F[h].depth \in Int
        BY <1>1, <1>5, <2>1
      <4> HIDE DEF m
      <4> QED  BY <1>6, <2>1, <4>1
    <3> QED  BY <3>1, <3>2 DEF IsInside
  <2> QED  BY <2>2
<1> QED  BY <1>10, <1>11

-----------------------------------------------------------------------------
(* The forests detect_loops may return *)
LEMMA LatchesAreBacks ==
  ASSUME NEW g, NEW r, NEW t, IsExactTree(g, r, t), NEW h \in NodeIds(g)
  PROVE  /\ Latches(g, t, h) \in Seq(NodeIds(g))
         /\ ToSet(Latches(g, t, h)) = Backs(g, r, h)
         /\ h \in Headers(g, t) <=> Backs(g, r, h) # {}
<1> DEFINE s == Predecessors(g, h)
           S == {n \in NodeIds(g) : Dominates(t, h, n)}
<1>1. IsGraph(g) /\ \A n \in NodeIds(g) : Dominates(t, h, n) <=> h = n \/ n \in BehindOf(g, r, h)
  BY DEF IsExactTree
<1>2. s \in Seq(NodeIds(g)) /\ ToSet(s) = PredecessorSet(g, h) /\ PredecessorSet(g, h) \subseteq NodeIds(g)
  BY <1>1, PredecessorsType DEF PredecessorSet
<1>3. PredecessorSet(g, h) \cap S = Backs(g, r, h)
  BY <1>1, <1>2 DEF Backs
<1>4. Latches(g, t, h) = Keep(s, S)
  BY DEF Latches
<1>5. h \in Headers(g, t) <=> PredecessorSet(g, h) \cap S # {}
  BY <1>2 DEF Headers
<1> HIDE DEF s, S
<1>6. Keep(s, S) \in Seq(NodeIds(g) \cap S) /\ ToSet(Keep(s, S)) = ToSet(s) \cap S
  BY <1>2, KeepFacts
<1>7. Keep(s, S) \in Seq(NodeIds(g))
  <2> DEFINE K == NodeIds(g) \cap S
  <2>1. K \subseteq NodeIds(g) /\ Keep(s, S) \in Seq(K)
    BY <1>6
  <2> HIDE DEF K
  <2> QED  BY <2>1
<1> QED  BY <1>2, <1>3, <1>4, <1>5, <1>6, <1>7

LEMMA BodiesAreLaminar ==
  ASSUME NEW n, NEW rows, NEW g, g = [count |-> n, succ |-> rows],
         NEW r, NEW t, IsExactTree(g, r, t),
         NEW H, H = Headers(g, t), NEW B, \A h \in H : B[h] = LoopBody(g, t, h)
  PROVE  /\ \A h \in H : IsBody(g, r, h, B[h])
         /\ IsLaminar(NodeIds(g), ReachableFrom(g, r), H, B)
<1> DEFINE reach == ReachableFrom(g, r)
<1>1. IsGraph(g)
  BY DEF IsExactTree
<1>2. PICK T : IsDfs(g, T) /\ T.root = r
  BY DEF IsExactTree
<1>3. H \subseteq NodeIds(g)
  BY DEF Headers
<1>4. ASSUME NEW h \in H PROVE IsBody(g, r, h, B[h])
  <2>1. B[h] = {h} \cup ReachableAvoiding(Backward(g), Backs(g, r, h), {h})
    <3>1. B[h] = {h} \cup ReachableAvoiding(Backward(g), ToSet(Latches(g, t, h)), {h})
      BY DEF LoopBody
    <3>2. ToSet(Latches(g, t, h)) = Backs(g, r, h)
      BY <1>3, LatchesAreBacks
    <3> QED  BY <3>1, <3>2
  <2> QED  BY <1>1, <1>3, <2>1, BodyIsFound
<1>5. \A h \in H : h \in B[h] /\ B[h] \subseteq NodeIds(g)
  BY <1>4 DEF IsBody
<1>6. ASSUME NEW h \in H \ reach PROVE B[h] = {h}
  <2>1. BehindOf(g, r, h) = {}
    <3>1. IsDfs(g, T) /\ r = T.root
      BY <1>2
    <3>2. /\ ReachableFrom(g, r) = T.nodes
          /\ \A a, b : b \in BehindOf(g, r, a) => a \in T.nodes
      BY ONLY <3>1, BehindFacts
    <3> QED  BY <1>6, <3>2
  <2>2. Backs(g, r, h) \ {h} \subseteq {}
    BY <2>1 DEF Backs
  <2> DEFINE Y == {}
  <2>3. Backs(g, r, h) \ {h} \subseteq Y /\ \A v \in (B[h] \ {h}) \cap Y : PredecessorSet(g, v) \ {h} \subseteq Y
    BY <2>2
  <2> HIDE DEF Y
  <2>4. B[h] \ {h} \subseteq Y
    BY <1>4, <2>3 DEF IsBody
  <2> QED  BY <1>5, <2>4 DEF Y
<1>7. ASSUME NEW h \in H \cap reach, NEW k \in H \cap reach, h # k, B[h] \cap B[k] \cap reach # {}
      PROVE  IsInside(B, h, k) \/ IsInside(B, k, h)
  <2>1. PICK b \in reach : b \in B[h] /\ b \in B[k]
    BY <1>7
  <2>2. b \in BehindOf(g, r, h) /\ b \in BehindOf(g, r, k)
    BY <1>2, <1>4, <2>1, BodyIsBehind
  <2>3. h \in BehindOf(g, r, k) \/ k \in BehindOf(g, r, h)
    <3>1. \A a, c, d : d \in BehindOf(g, r, a) /\ d \in BehindOf(g, r, c)
                       => a \in BehindOf(g, r, c) \/ c \in BehindOf(g, r, a)
      <4>1. IsDfs(g, T) /\ r = T.root
        BY <1>2
      <4> QED  BY ONLY <4>1, BehindFacts
    <3> QED  BY <2>2, <3>1
  <2>4. k \in BehindOf(g, r, h) => IsInside(B, h, k)
    BY <1>2, <1>4, <1>7, <2>1, BodiesNest DEF IsInside
  <2>5. h \in BehindOf(g, r, k) => IsInside(B, k, h)
    BY <1>2, <1>4, <1>7, <2>1, BodiesNest DEF IsInside
  <2> QED  BY <2>3, <2>4, <2>5
<1> QED  BY <1>3, <1>4, <1>5, <1>6, <1>7 DEF IsLaminar

(* What a found forest says of a header's loop. *)
LEMMA ForestFields ==
  ASSUME NEW g, NEW t, NEW F \in Forests(g, t), NEW H, H = Headers(g, t),
         NEW B, \A h \in H : B[h] = LoopBody(g, t, h), Nil \notin H
  PROVE  /\ DOMAIN F = H
         /\ \A h \in H : /\ F[h].body = B[h] /\ F[h].latches = Latches(g, t, h)
                         /\ F[h].type = LoopType(h, Latches(g, t, h), ExitEdges(g, B[h]))
         /\ \E up : IsParentage(H, B, up) /\ \A h \in H : F[h].depth = Depth(up, h)
<1> DEFINE all == [h \in Headers(g, t) |-> LoopInfo(g, t, h)]
           Nested(loop, parent, depth) ==
               [latches |-> loop.latches, body |-> loop.body, preheader |-> loop.preheader,
                exits |-> loop.exits, type |-> loop.type, parent |-> parent, depth |-> depth]
<1> DEFINE Nestings == {p \in [DOMAIN all -> DOMAIN all \cup {Nil}] :
                           \A h \in DOMAIN all : p[h] \in Parents(all, h)}
           found == {[h \in DOMAIN all |-> Nested(all[h], p[h], Depth(p, h))] : p \in Nestings}
<1>0. F \in found
  BY Zenon DEF Forests
<1>1. PICK p \in [DOMAIN all -> DOMAIN all \cup {Nil}] :
          /\ \A h \in DOMAIN all : p[h] \in Parents(all, h)
          /\ F = [h \in DOMAIN all |-> Nested(all[h], p[h], Depth(p, h))]
  <2>1. PICK p \in Nestings : F = [h \in DOMAIN all |-> Nested(all[h], p[h], Depth(p, h))]
    BY Zenon, <1>0
  <2> QED  BY Zenon, <2>1
<1>2. DOMAIN all = H /\ DOMAIN F = H
  BY <1>1
<1>3. \A h \in H : /\ all[h].body = B[h] /\ all[h].latches = Latches(g, t, h)
                   /\ all[h].type = LoopType(h, Latches(g, t, h), ExitEdges(g, B[h]))
  BY DEF LoopInfo
<1>4. \A h \in H : F[h] = Nested(all[h], p[h], Depth(p, h))
  BY Zenon, <1>1, <1>2
<1>5. ASSUME NEW h \in H
      PROVE  /\ F[h].body = B[h] /\ F[h].latches = Latches(g, t, h)
             /\ F[h].type = LoopType(h, Latches(g, t, h), ExitEdges(g, B[h]))
             /\ F[h].depth = Depth(p, h)
  <2>1. /\ F[h].body = all[h].body /\ F[h].latches = all[h].latches
        /\ F[h].type = all[h].type /\ F[h].depth = Depth(p, h)
    <3> DEFINE i == all[h]
               d == Depth(p, h)
    <3>1. F[h] = Nested(i, p[h], d)
      BY <1>4
    <3> HIDE DEF i, d
    <3>2. F[h].body = i.body /\ F[h].latches = i.latches /\ F[h].type = i.type /\ F[h].depth = d
      BY ONLY <3>1
    <3> QED  BY <3>2 DEF i, d
  <2> HIDE DEF all
  <2> QED  BY <1>3, <2>1
<1> HIDE DEF all
<1>6. ASSUME NEW h \in H
      PROVE  IF AroundIn(H, B, h) \ {h} = {} THEN p[h] = Nil
             ELSE /\ p[h] \in AroundIn(H, B, h) \ {h}
                  /\ \A j \in AroundIn(H, B, h) \ {h} : Cardinality(B[p[h]]) <= Cardinality(B[j])
  <2> DEFINE around == {k \in DOMAIN all \ {h} : h \in all[k].body}
  <2>1. around = AroundIn(H, B, h) \ {h}
    BY <1>2, <1>3 DEF AroundIn
  <2>2. Parents(all, h) = IF around = {} THEN {Nil}
             ELSE {k \in around : \A j \in around :
                      Cardinality(all[k].body) <= Cardinality(all[j].body)}
    BY DEF Parents
  <2>3. p[h] \in Parents(all, h)
    BY <1>1, <1>2
  <2>4. around \subseteq H
    BY <1>2
  <2> HIDE DEF around
  <2> QED  BY <1>3, <2>1, <2>2, <2>3, <2>4
<1>7. IsParentage(H, B, p)
  BY <1>1, <1>2, <1>6 DEF IsParentage
<1> QED  BY <1>2, <1>5, <1>7

LEMMA TypeFacts ==
  ASSUME NEW N, NEW h, NEW latches \in Seq(N), latches # <<>>, NEW exits
  PROVE  /\ LoopType(h, latches, exits) = "Infinite" => exits = {}
         /\ LoopType(h, latches, exits) = "PostTested" => \A e \in exits : e[1] = latches[1]
         /\ LoopType(h, latches, exits) = "PreTested" => \A e \in exits : e[1] = h
<1> DEFINE all == \A e \in exits : e[1] = latches[1]
           any == \A e \in exits : e[1] = h
           none == exits = {}
           len == Len(latches)
<1>1. LoopType(h, latches, exits) =
         CASE none -> "Infinite"
           [] ~none /\ len > 1 -> "Complex"
           [] ~none /\ len = 1 /\ all -> "PostTested"
           [] ~none /\ len = 1 /\ ~all -> IF any THEN "PreTested" ELSE "Complex"
  BY DEF LoopType
<1>2. len \in Nat \ {0}
  BY EmptySeq
<1> HIDE DEF all, any, none, len
<1>3. CASE none
  BY <1>1, <1>3 DEF none
<1>4. CASE ~none /\ len > 1
  BY <1>1, <1>2, <1>4
<1>5. CASE ~none /\ len = 1 /\ all
  BY <1>1, <1>5 DEF all
<1>6. CASE ~none /\ len = 1 /\ ~all
  <2>1. LoopType(h, latches, exits) = IF any THEN "PreTested" ELSE "Complex"
    BY <1>1, <1>6
  <2>2. any => \A e \in exits : e[1] = h
    BY DEF any
  <2> QED  BY <2>1, <2>2
<1> QED  BY <1>2, <1>3, <1>4, <1>5, <1>6

LEMMA ExitsAreClosed ==
  ASSUME NEW g, IsGraph(g), NEW r \in NodeIds(g), NEW B, NEW starts, NEW closed,
         starts \in SUBSET NodeIds(g), starts \ closed \subseteq B \cap ReachableFrom(g, r),
         \A e \in ExitEdges(g, B) : e[1] \in closed
  PROVE  ReachableAvoiding(g, starts, closed) \subseteq B \cap ReachableFrom(g, r)
<1> DEFINE X == ReachableAvoiding(g, starts, closed)
           Y == B \cap ReachableFrom(g, r)
<1> HIDE DEF X
<1>1. /\ X \subseteq NodeIds(g) \ closed
      /\ \A Z : starts \ closed \subseteq Z /\ (\A v \in X \cap Z : SuccessorSet(g, v) \ closed \subseteq Z)
                   => X \subseteq Z
  BY ReachableFacts DEF X
<1>2. ASSUME NEW v \in X \cap Y, NEW s \in SuccessorSet(g, v) \ closed PROVE s \in Y
  <2>1. v \in NodeIds(g) /\ v \notin closed /\ v \in B /\ v \in ReachableFrom(g, r)
    BY <1>1, <1>2
  <2>2. s \in NodeIds(g) /\ s \in ReachableFrom(g, r)
    <3>1. SuccessorSet(g, v) \subseteq ReachableFrom(g, r) /\ ReachableFrom(g, r) \subseteq NodeIds(g)
      BY <2>1, ReachFacts
    <3> QED  BY <1>2, <3>1
  <2>3. CASE s \notin B
    <3> DEFINE e == <<v, s>>
    <3>1. e \in ExitEdges(g, B)
      BY <1>2, <2>1, <2>2, <2>3 DEF ExitEdges
    <3>2. e[1] = v
      OBVIOUS
    <3> HIDE DEF e
    <3> QED  BY <2>1, <3>1, <3>2
  <2> QED  BY <2>2, <2>3
<1>3. \A v \in X \cap Y : SuccessorSet(g, v) \ closed \subseteq Y
  BY <1>2
<1> HIDE DEF Y
<1>4. X \subseteq Y
  BY <1>1, <1>3 DEF Y
<1> QED  BY <1>4 DEF X, Y

LEMMA ForestIsExact ==
  ASSUME NEW n, NEW rows, NEW g, g = [count |-> n, succ |-> rows],
         NEW t, IsExactTree(g, 0, t), NEW F \in Forests(g, t)
  PROVE  AreLoopsOf(g, F)
<1> DEFINE N == NodeIds(g)
           R == ReachableFrom(g, 0)
           H == Headers(g, t)
           B == [h \in H |-> LoopBody(g, t, h)]
           Body(h) == F[h].body \cap R
           Nat_Loop(h) == {v \in BehindOf(g, 0, h) : h \in Within(g, 0, h, v)}
<1>1. IsGraph(g) /\ 0 \in N /\ R \subseteq N /\ N \in SUBSET Nat /\ IsFiniteSet(N) /\ Nil \notin N
  <2>1. IsGraph(g) /\ 0 \in N
    BY DEF IsExactTree
  <2>2. R \subseteq N
    BY <2>1, ReachFacts
  <2>3. g.count \in Nat
    BY <2>1 DEF IsGraph
  <2>4. N \in SUBSET Nat /\ IsFiniteSet(N) /\ Nil \notin N
    BY <2>3, FS_Interval DEF NodeIds, Nil
  <2> QED  BY <2>1, <2>2, <2>4
<1>2. H \subseteq N /\ Nil \notin H
  BY <1>1 DEF Headers
<1>3. \A h \in H : B[h] = LoopBody(g, t, h)
  OBVIOUS
<1>4. PICK T : IsDfs(g, T) /\ T.root = 0
  BY DEF IsExactTree
<1>5. \A h \in H : IsBody(g, 0, h, B[h])
  <2> HIDE DEF B, H
  <2> QED  BY <1>3, BodiesAreLaminar DEF H
<1>6. IsLaminar(N, R, H, B)
  <2> HIDE DEF B, H
  <2> QED  BY <1>3, BodiesAreLaminar DEF H
<1>7. /\ DOMAIN F = H
      /\ \A h \in H : /\ F[h].body = B[h] /\ F[h].latches = Latches(g, t, h)
                      /\ F[h].type = LoopType(h, Latches(g, t, h), ExitEdges(g, B[h]))
      /\ \E up : IsParentage(H, B, up) /\ \A h \in H : F[h].depth = Depth(up, h)
  <2>1. H = Headers(g, t)
    OBVIOUS
  <2> HIDE DEF H, B
  <2> QED  BY <1>2, <1>3, <2>1, ForestFields
<1> HIDE DEF B
<1>8. \A h \in H \cap R : F[h].depth = Cardinality(AroundIn(H, B, h)) - 1
  <2>1. PICK up : IsParentage(H, B, up) /\ \A h \in H : F[h].depth = Depth(up, h)
    BY <1>7
  <2>2. \A h \in H \cap R : Depth(up, h) = Cardinality(AroundIn(H, B, h)) - 1
    <3> HIDE DEF H, N, R
    <3> QED  BY <1>1, <1>6, <2>1, DepthIsCount
  <2> HIDE DEF H
  <2> QED  BY <2>1, <2>2
<1>9. ASSUME NEW b \in R
      PROVE  IF AroundIn(H, B, b) = {} THEN InnermostLoop(F, b) = Nil
             ELSE /\ InnermostLoop(F, b) \in AroundIn(H, B, b)
                  /\ \A h \in AroundIn(H, B, b) : B[InnermostLoop(F, b)] \subseteq B[h]
  <2> HIDE DEF H, N, R
  <2> QED  BY <1>1, <1>6, <1>7, <1>8, <1>9, InnermostFacts
<1>10. \A h \in H : Latches(g, t, h) \in Seq(N) /\ Latches(g, t, h) # <<>>
  <2> SUFFICES ASSUME NEW h \in H PROVE Latches(g, t, h) \in Seq(N) /\ Latches(g, t, h) # <<>>
    OBVIOUS
  <2>1. h \in NodeIds(g) /\ h \in Headers(g, t)
    BY <1>2
  <2>2. /\ Latches(g, t, h) \in Seq(NodeIds(g))
        /\ ToSet(Latches(g, t, h)) # {}
    BY <2>1, LatchesAreBacks
  <2>3. ToSet(<<>>) = {}
    BY DEF ToSet
  <2> QED  BY <2>2, <2>3
<1>11. ASSUME NEW h \in R
       PROVE  h \in H <=> \E v \in R : h \in SuccessorSet(g, v) /\ v \in BehindOf(g, 0, h)
  <2>1. h \in NodeIds(g)
    BY <1>1
  <2>2. h \in H <=> Backs(g, 0, h) # {}
    BY <2>1, LatchesAreBacks
  <2>3. h \in BehindOf(g, 0, h) /\ BehindOf(g, 0, h) \subseteq R
    <3>1. BehindOf(g, 0, h) \subseteq R
      BY DEF BehindOf
    <3>2. ReachableFrom(g, 0) = T.nodes /\ \A a \in T.nodes : a \in BehindOf(g, 0, a)
      BY <1>4, BehindFacts
    <3> QED  BY <3>1, <3>2
  <2>4. Backs(g, 0, h) = {v \in R : h \in SuccessorSet(g, v) /\ v \in BehindOf(g, 0, h)}
    BY <1>1, <2>3 DEF Backs, PredecessorSet
  <2> QED  BY <2>2, <2>4
<1>12. ASSUME NEW h \in H \cap R
       PROVE  /\ Body(h) = Nat_Loop(h)
              /\ F[h].type = "Infinite" => ReachableFrom(g, h) \subseteq Body(h)
              /\ F[h].type = "PostTested" =>
                     ReachableAvoiding(g, {h}, {F[h].latches[1]}) \subseteq Body(h)
              /\ F[h].type = "PreTested" =>
                     ReachableAvoiding(g, SuccessorSet(g, h) \cap Body(h), {h}) \subseteq Body(h)
  <2>1. Body(h) = B[h] \cap R /\ h \in N /\ h \in B[h] \cap R
    BY <1>1, <1>5, <1>7, <1>12 DEF IsBody
  <2>2. Body(h) = Nat_Loop(h)
    <3>1. B[h] \cap R = Nat_Loop(h)
      BY <1>4, <1>5, <1>12, BodyIsNatural
    <3> QED  BY <2>1, <3>1
  <2> DEFINE l == Latches(g, t, h)
             exits == ExitEdges(g, B[h])
  <2>3. F[h].type = LoopType(h, l, exits) /\ F[h].latches = l /\ l \in Seq(N) /\ l # <<>>
    BY <1>7, <1>10, <1>12
  <2>4. /\ F[h].type = "Infinite" => exits = {}
        /\ F[h].type = "PostTested" => \A e \in exits : e[1] = l[1]
        /\ F[h].type = "PreTested" => \A e \in exits : e[1] = h
    <3> HIDE DEF l, exits
    <3> QED  BY <2>3, TypeFacts
  <2>5. ASSUME NEW starts \in SUBSET NodeIds(g), NEW closed, starts \subseteq B[h] \cap R,
               \A e \in exits : e[1] \in closed
        PROVE  ReachableAvoiding(g, starts, closed) \subseteq Body(h)
    <3> DEFINE C == B[h]
    <3>1. starts \ closed \subseteq C \cap ReachableFrom(g, 0) /\ 0 \in NodeIds(g)
      BY <1>1, <2>5
    <3>2. \A e \in ExitEdges(g, C) : e[1] \in closed
      BY <2>5
    <3> HIDE DEF C
    <3>3. ReachableAvoiding(g, starts, closed) \subseteq C \cap ReachableFrom(g, 0)
      BY <1>1, <3>1, <3>2, ExitsAreClosed
    <3> QED  BY <2>1, <3>3 DEF C
  <2> HIDE DEF exits, l
  <2>6. ASSUME F[h].type = "Infinite" PROVE ReachableFrom(g, h) \subseteq Body(h)
    <3> DEFINE starts == {h}
               closed == {}
    <3>1. starts \in SUBSET NodeIds(g) /\ starts \subseteq B[h] \cap R /\ \A e \in exits : e[1] \in closed
      BY <2>1, <2>4, <2>6
    <3>2. ReachableFrom(g, h) = ReachableAvoiding(g, starts, closed)
      BY DEF ReachableFrom
    <3> HIDE DEF starts, closed
    <3> QED  BY <2>5, <3>1, <3>2
  <2>7. ASSUME F[h].type = "PostTested"
        PROVE  ReachableAvoiding(g, {h}, {F[h].latches[1]}) \subseteq Body(h)
    <3> DEFINE starts == {h}
               closed == {F[h].latches[1]}
    <3>1. starts \in SUBSET NodeIds(g) /\ starts \subseteq B[h] \cap R /\ \A e \in exits : e[1] \in closed
      BY <2>1, <2>3, <2>4, <2>7
    <3> HIDE DEF starts, closed
    <3>2. ReachableAvoiding(g, starts, closed) \subseteq Body(h)
      BY <2>5, <3>1
    <3> QED  BY <3>2 DEF starts, closed
  <2>8. ASSUME F[h].type = "PreTested"
        PROVE  ReachableAvoiding(g, SuccessorSet(g, h) \cap Body(h), {h}) \subseteq Body(h)
    <3> DEFINE starts == SuccessorSet(g, h) \cap Body(h)
               closed == {h}
    <3>1. starts \in SUBSET NodeIds(g) /\ starts \subseteq B[h] \cap R /\ \A e \in exits : e[1] \in closed
      BY <1>1, <2>1, <2>4, <2>8
    <3> HIDE DEF starts, closed
    <3>2. ReachableAvoiding(g, starts, closed) \subseteq Body(h)
      BY <2>5, <3>1
    <3> QED  BY <3>2 DEF starts, closed
  <2> QED  BY <2>2, <2>6, <2>7, <2>8
<1> QED
  <2> DEFINE behind == Behind(g, 0)
             NaturalLoop(h) ==
                 {v \in behind[h] : h \in ReachableAvoiding(g, {v}, NodeIds(g) \ behind[h])}
             Around(b) == {h \in DOMAIN F : b \in F[h].body}
  <2>1. \A h \in N : behind[h] = BehindOf(g, 0, h)
    BY DEF Behind, BehindOf
  <2>2. \A b : Around(b) = AroundIn(H, B, b)
    BY <1>7 DEF AroundIn
  <2>3. \A h \in H : NaturalLoop(h) = Nat_Loop(h)
    BY <1>2, <2>1 DEF Within
  <2> HIDE DEF behind, H, R
  <2>4. DOMAIN F \cap R = {h \in R : \E v \in R : h \in SuccessorSet(g, v) /\ v \in behind[h]}
    BY <1>1, <1>7, <1>11, <2>1
  <2>5. \A h \in DOMAIN F \cap R :
          /\ Body(h) = NaturalLoop(h)
          /\ F[h].depth = Cardinality(Around(h)) - 1
    <3> SUFFICES ASSUME NEW h \in H \cap R
                 PROVE  Body(h) = NaturalLoop(h) /\ F[h].depth = Cardinality(Around(h)) - 1
      BY <1>7
    <3>1. Body(h) = Nat_Loop(h) /\ NaturalLoop(h) = Nat_Loop(h)
      BY <1>12, <2>3
    <3>2. F[h].depth = Cardinality(AroundIn(H, B, h)) - 1 /\ Around(h) = AroundIn(H, B, h)
      BY <1>8, <2>2
    <3> HIDE DEF Body, NaturalLoop, Nat_Loop, Around
    <3> QED  BY ONLY <3>1, <3>2
  <2>6. \A b \in R :
          IF Around(b) = {} THEN InnermostLoop(F, b) = Nil
          ELSE /\ InnermostLoop(F, b) \in Around(b)
               /\ \A h \in Around(b) : Body(InnermostLoop(F, b)) \subseteq Body(h)
    <3> SUFFICES ASSUME NEW b \in R
                 PROVE  IF Around(b) = {} THEN InnermostLoop(F, b) = Nil
                        ELSE /\ InnermostLoop(F, b) \in Around(b)
                             /\ \A h \in Around(b) : Body(InnermostLoop(F, b)) \subseteq Body(h)
      OBVIOUS
    <3>1. AroundIn(H, B, b) \subseteq H
      BY DEF AroundIn
    <3> DEFINE m == InnermostLoop(F, b)
               A == AroundIn(H, B, b)
    <3>2. A = {} => m = Nil
      BY <1>9
    <3>3. A # {} => m \in A /\ \A h \in A : B[m] \subseteq B[h]
      BY <1>9
    <3>4. Around(b) = A
      BY <2>2
    <3> HIDE DEF m, A
    <3>5. A # {} => \A h \in A : Body(m) \subseteq Body(h)
      BY <1>7, <3>1, <3>3 DEF A
    <3> QED  BY <3>2, <3>3, <3>4, <3>5 DEF m
  <2>7. \A h \in DOMAIN F \cap R :
          /\ Body(h) = NaturalLoop(h)
          /\ F[h].depth = Cardinality(Around(h)) - 1
          /\ F[h].type = "Infinite" => ReachableFrom(g, h) \subseteq Body(h)
          /\ F[h].type = "PostTested" =>
                 ReachableAvoiding(g, {h}, {F[h].latches[1]}) \subseteq Body(h)
          /\ F[h].type = "PreTested" =>
                 ReachableAvoiding(g, SuccessorSet(g, h) \cap Body(h), {h}) \subseteq Body(h)
    <3> HIDE DEF Body, NaturalLoop, Nat_Loop, Around
    <3> QED  BY <1>7, <1>12, <2>5
  <2> QED  BY <2>4, <2>6, <2>7, Zenon DEF AreLoopsOf, behind, R

LEMMA LoopsFound ==
  ASSUME FlowInv, DomInv, ResultInv, BeginRound
  PROVE  AreLoopsOf(graph, forest')
<1>1. /\ step = "tree" /\ stage = "tree" /\ purpose = "canonicalize"
      /\ forest' \in Forests(EhCfg, DominatorTree)
  BY DEF BeginRound
<1>2. graph = EhCfg /\ root = 0
  BY <1>1 DEF ResultInv, TreeGraph, TreeRoot
<1>3. IsExactTree(graph, root, DominatorTree)
  BY <1>1, InvExact
<1> DEFINE rows == [b \in NodeIds(function) |-> SsaCfg(function).succ[b] \o eh.extra[b]]
<1>4. graph = [count |-> function.count, succ |-> rows]
  BY <1>2 DEF EhCfg
<1>5. PICK g, t, F : g = graph /\ t = DominatorTree /\ F = forest'
  OBVIOUS
<1>6. IsExactTree(g, 0, t) /\ F \in Forests(g, t)
  BY <1>1, <1>2, <1>3, <1>5
<1> HIDE DEF rows
<1>7. AreLoopsOf(g, F)
  BY <1>4, <1>5, <1>6, ForestIsExact
<1> QED  BY <1>5, <1>7

LEMMA LoopsNext ==
  FlowInv /\ DomInv /\ ResultInv /\ LoopsAreExact /\ [Next]_vars => LoopsAreExact'
<1> SUFFICES ASSUME FlowInv, DomInv, ResultInv, LoopsAreExact, [Next]_vars, step' = "round"
             PROVE  AreLoopsOf(graph', forest')
  BY DEF LoopsAreExact
<1>1. CASE BeginRound
  <2>1. graph' = graph
    BY <1>1 DEF BeginRound, domVars
  <2>2. PICK g : g = graph
    OBVIOUS
  <2>3. AreLoopsOf(g, forest')
    BY <1>1, <2>2, LoopsFound
  <2> QED  BY <2>1, <2>2, <2>3
<1>2. CASE step = "round" /\ graph' = graph /\ forest' = forest
  <2>1. PICK g, F : g = graph /\ F = forest
    OBVIOUS
  <2>2. AreLoopsOf(g, F)
    BY <1>2, <2>1 DEF LoopsAreExact
  <2> QED  BY <1>2, <2>1, <2>2
<1>3. CASE InsertPreheader \/ UnifyLatches \/ LeaveLoop \/ UNCHANGED vars
  <2>1. step' = step /\ graph' = graph /\ forest' = forest
    BY <1>3 DEF InsertPreheader, UnifyLatches, LeaveLoop, Spliced, Looping, vars, domVars, canonVars
  <2> QED  BY <1>2, <2>1
<1>4. CASE GraphBuilt \/ TreeBuilt \/ NormalTreeBuilt \/ ComputeFrontier \/ EndRound
  BY <1>4 DEF GraphBuilt, TreeBuilt, NormalTreeBuilt, ComputeFrontier, EndRound
<1>5. CASE AttachRoots \/ BuildTree
  BY <1>5 DEF AttachRoots, BuildTree
<1> QED  BY <1>1, <1>3, <1>4, <1>5 DEF Next

(* The loops a round works on are the loops of the code it began with, in every
   function, with any exception table, and for every forest detect_loops may
   return: its headers are the targets of the back edges, each body is what a path
   inside the region of its header can still return from, a depth counts the loops
   around a header, a block's loop lies inside all others around it, and the type
   says where one gets out. *)
THEOREM LoopsExact == Spec => []LoopsAreExact
<1>1. Init => FlowInv /\ DomInv /\ ResultInv /\ LoopsAreExact
  BY FlowInvInit, DomInvInit, ResultInvInit DEF Init, LoopsAreExact
<1>2. FlowInv /\ DomInv /\ ResultInv /\ LoopsAreExact /\ [Next]_vars
        => (FlowInv /\ DomInv /\ ResultInv /\ LoopsAreExact)'
  BY FlowInvNext, DomInvNext, ResultInvNext, LoopsNext
<1> QED  BY <1>1, <1>2, PTL DEF Spec

-----------------------------------------------------------------------------
(* Splicing.  f and ph are a function and its phis, c the number of blocks the
   function was given with; n is the spliced block. *)
Operands(ph, h, preds) == {o \in ph[h] : o.pred \in preds}
Merged(ops, n) == IF Cardinality(ops) = 1 THEN (CHOOSE o \in ops : TRUE).value ELSE n

IsSplice(f, ph, h, preds, f2, ph2) ==
    LET n == f.count
        ops == Operands(ph, h, preds)
    IN  /\ f2.count = n + 1 /\ f2.targets[n] = <<h>>
        /\ \A b \in NodeIds(f) :
              /\ DOMAIN f2.targets[b] = DOMAIN f.targets[b]
              /\ \A k \in DOMAIN f.targets[b] :
                    f2.targets[b][k] = IF b \in preds /\ f.targets[b][k] = h THEN n
                                       ELSE f.targets[b][k]
        /\ DOMAIN ph2 = NodeIds(f2)
        /\ ph2[n] = IF Cardinality(ops) > 1 THEN ops ELSE {}
        /\ \E o : /\ o.pred = n /\ o.value = Merged(ops, n)
                  /\ ph2[h] = IF ops = {} THEN ph[h] ELSE (ph[h] \ ops) \cup {o}
        /\ \A b \in NodeIds(f) \ {h} : ph2[b] = ph[b]

(* What comes in through a phi: one operand per edge, of an existing block. *)
ArePhis(f, ph) ==
    /\ DOMAIN ph = NodeIds(f)
    /\ \A b \in NodeIds(f) : IsFiniteSet(ph[b]) /\ \A o \in ph[b] : o.pred \in NodeIds(f)

(* s is the way of an edge from p to t: through spliced blocks, none of them
   twice, to a block the function was given with. *)
IsRoute(f, c, p, t, s) ==
    /\ s \in Seq(NodeIds(f)) /\ Len(s) >= 2 /\ s[1] = p /\ s[2] = t
    /\ \A i \in 2 .. Len(s) - 1 :
          s[i] >= c /\ 1 \in DOMAIN f.targets[s[i]] /\ s[i + 1] = f.targets[s[i]][1]
    /\ s[Len(s)] < c
    /\ \A i, j \in 2 .. Len(s) : s[i] = s[j] => i = j

(* Every phi on the way has one operand for it: p's own value, or the result of
   a phi passed before. *)
IsOperand(ph, p, s, i, o) ==
    /\ o.pred = s[i - 1] /\ \A o2 \in ph[s[i]] : o2.pred = s[i - 1] => o2 = o
    /\ \/ o.value = p
       \/ \E j \in 2 .. i - 1 : o.value = s[j] /\ ph[s[j]] # {}
IsFed(ph, p, s) ==
    \A i \in 2 .. Len(s) : ph[s[i]] # {} => \E o \in ph[s[i]] : IsOperand(ph, p, s, i, o)

IsKept(f, ph, c, p, t, end) ==
    \E s : IsRoute(f, c, p, t, s) /\ s[Len(s)] = end /\ IsFed(ph, p, s)

(* A splice does not empty a phi. *)
LEMMA SplicedPhis ==
  ASSUME NEW f, f.count \in Nat, NEW ph, ArePhis(f, ph), NEW h \in NodeIds(f), NEW preds,
         NEW f2, NEW ph2, IsSplice(f, ph, h, preds, f2, ph2)
  PROVE  /\ NodeIds(f2) = NodeIds(f) \cup {f.count} /\ f.count \notin NodeIds(f)
         /\ \A b \in NodeIds(f) : ph2[b] = {} <=> ph[b] = {}
         /\ \A b \in NodeIds(f) : \A o \in ph2[b] :
               \/ o \in ph[b] /\ (b = h => o.pred \notin preds)
               \/ b = h /\ o.pred = f.count
         /\ \A b \in NodeIds(f) : \A o \in ph[b] :
               (b = h => o.pred \notin preds) => o \in ph2[b]
         /\ ArePhis(f2, ph2)
<1> DEFINE n == f.count
           ops == Operands(ph, h, preds)
<1>1. NodeIds(f2) = NodeIds(f) \cup {n} /\ n \notin NodeIds(f)
  BY DEF IsSplice, NodeIds
<1>2. PICK o : /\ o.pred = n
               /\ ph2[h] = IF ops = {} THEN ph[h] ELSE (ph[h] \ ops) \cup {o}
  BY DEF IsSplice
<1>3. /\ \A b \in NodeIds(f) \ {h} : ph2[b] = ph[b]
      /\ ph2[n] = IF Cardinality(ops) > 1 THEN ops ELSE {}
      /\ DOMAIN ph2 = NodeIds(f2)
  BY DEF IsSplice
<1>4. ops \subseteq ph[h] /\ \A x \in ph[h] : x \in ops <=> x.pred \in preds
  BY DEF Operands
<1>5. /\ \A b \in NodeIds(f) : IsFiniteSet(ph[b]) /\ \A x \in ph[b] : x.pred \in NodeIds(f)
  BY DEF ArePhis
<1> HIDE DEF n, ops
<1>6. \A b \in NodeIds(f) : ph2[b] = {} <=> ph[b] = {}
  BY <1>2, <1>3, <1>4
<1>7. \A b \in NodeIds(f) : \A x \in ph2[b] :
         \/ x \in ph[b] /\ (b = h => x.pred \notin preds)
         \/ b = h /\ x.pred = n
  BY <1>2, <1>3, <1>4
<1>8. \A b \in NodeIds(f) : \A x \in ph[b] : (b = h => x.pred \notin preds) => x \in ph2[b]
  BY <1>2, <1>3, <1>4
<1>9. IsFiniteSet(ph2[h]) /\ IsFiniteSet(ops)
  <2>1. IsFiniteSet(ph[h]) /\ IsFiniteSet(ops) /\ IsFiniteSet(ph[h] \ ops)
    BY <1>4, <1>5, FS_Subset
  <2>2. IsFiniteSet((ph[h] \ ops) \cup {o})
    BY <2>1, FS_AddElement
  <2> QED  BY <1>2, <2>1, <2>2
<1>10. ASSUME NEW b \in NodeIds(f2) PROVE IsFiniteSet(ph2[b]) /\ \A x \in ph2[b] : x.pred \in NodeIds(f2)
  <2>1. CASE b = n
    <3>1. \A x \in ops : x.pred \in NodeIds(f)
      BY <1>4, <1>5
    <3> QED  BY <1>1, <1>3, <1>9, <2>1, <3>1, FS_EmptySet
  <2>2. CASE b = h
    <3>1. \A x \in ph2[h] : x \in ph[h] \/ x.pred = n
      BY <1>7
    <3> QED  BY <1>1, <1>5, <1>9, <2>2, <3>1
  <2>3. CASE b \in NodeIds(f) \ {h}
    BY <1>1, <1>3, <1>5, <2>3
  <2> QED  BY <1>1, <2>1, <2>2, <2>3
<1>11. ArePhis(f2, ph2)
  BY <1>3, <1>10 DEF ArePhis
<1> QED  BY <1>1, <1>6, <1>7, <1>8, <1>11 DEF n

(* A way that does not use a redirected edge stays as it is. *)
LEMMA RouteAround ==
  ASSUME NEW f, f.count \in Nat, NEW ph, ArePhis(f, ph), NEW h \in NodeIds(f), NEW preds,
         NEW f2, NEW ph2, IsSplice(f, ph, h, preds, f2, ph2),
         NEW c \in Nat, NEW p \in NodeIds(f), NEW t, NEW s, IsRoute(f, c, p, t, s), IsFed(ph, p, s),
         \A i \in 2 .. Len(s) : ~(s[i] = h /\ s[i - 1] \in preds)
  PROVE  IsRoute(f2, c, p, t, s) /\ IsFed(ph2, p, s) /\ ~(p \in preds /\ t = h)
<1>1. /\ s \in Seq(NodeIds(f)) /\ Len(s) \in Nat /\ Len(s) >= 2 /\ s[1] = p /\ s[2] = t
      /\ \A i \in 2 .. Len(s) - 1 :
            s[i] >= c /\ 1 \in DOMAIN f.targets[s[i]] /\ s[i + 1] = f.targets[s[i]][1]
      /\ s[Len(s)] < c
      /\ \A i, j \in 2 .. Len(s) : s[i] = s[j] => i = j
  BY DEF IsRoute
<1>2. \A i \in 1 .. Len(s) : s[i] \in NodeIds(f)
  BY <1>1
<1>3. /\ NodeIds(f2) = NodeIds(f) \cup {f.count} /\ f.count \notin NodeIds(f)
      /\ \A b \in NodeIds(f) : ph2[b] = {} <=> ph[b] = {}
      /\ \A b \in NodeIds(f) : \A o \in ph2[b] :
            \/ o \in ph[b] /\ (b = h => o.pred \notin preds)
            \/ b = h /\ o.pred = f.count
      /\ \A b \in NodeIds(f) : \A o \in ph[b] : (b = h => o.pred \notin preds) => o \in ph2[b]
  BY SplicedPhis
<1>4. ~(p \in preds /\ t = h)
  <2>1. 2 \in 2 .. Len(s) /\ 2 - 1 = 1
    BY <1>1
  <2> QED  BY <1>1, <2>1
<1>5. s \in Seq(NodeIds(f2))
  <2> DEFINE S == NodeIds(f2)
  <2>1. NodeIds(f) \subseteq S
    BY <1>3
  <2> HIDE DEF S
  <2>2. s \in Seq(S)
    BY <1>1, <1>2, <2>1
  <2> QED  BY <2>2 DEF S
<1>6. ASSUME NEW i \in 2 .. Len(s) - 1
      PROVE  1 \in DOMAIN f2.targets[s[i]] /\ s[i + 1] = f2.targets[s[i]][1]
  <2>1. /\ s[i] \in NodeIds(f) /\ 1 \in DOMAIN f.targets[s[i]] /\ s[i + 1] = f.targets[s[i]][1]
        /\ i + 1 \in 2 .. Len(s) /\ i + 1 - 1 = i
    BY <1>1, <1>2
  <2>2. ~(s[i + 1] = h /\ s[i] \in preds)
    BY <2>1
  <2> QED  BY <2>1, <2>2 DEF IsSplice
<1>7. IsRoute(f2, c, p, t, s)
  BY <1>1, <1>5, <1>6 DEF IsRoute
<1>8. ASSUME NEW i \in 2 .. Len(s), ph2[s[i]] # {}
      PROVE  \E o \in ph2[s[i]] : IsOperand(ph2, p, s, i, o)
  <2>1. s[i] \in NodeIds(f) /\ s[i - 1] \in NodeIds(f) /\ i - 1 \in 1 .. Len(s)
    BY <1>1, <1>2
  <2>2. PICK o \in ph[s[i]] : IsOperand(ph, p, s, i, o)
    BY <1>3, <1>8, <2>1 DEF IsFed
  <2>3. o \in ph2[s[i]] /\ o.pred = s[i - 1]
    BY <1>3, <2>1, <2>2 DEF IsOperand
  <2>4. ASSUME NEW x \in ph2[s[i]], x.pred = s[i - 1] PROVE x = o
    BY <1>3, <2>1, <2>2, <2>4 DEF IsOperand
  <2>5. \/ o.value = p
        \/ \E j \in 2 .. i - 1 : o.value = s[j] /\ ph2[s[j]] # {}
    <3>1. \A j \in 2 .. i - 1 : s[j] \in NodeIds(f)
      BY <1>1, <1>2
    <3> QED  BY <1>3, <2>2, <3>1 DEF IsOperand
  <2> QED  BY <2>3, <2>4, <2>5 DEF IsOperand
<1> QED  BY <1>4, <1>7, <1>8 DEF IsFed

(* A way that uses one now passes the spliced block. *)
LEMMA RouteThrough ==
  ASSUME NEW f, f.count \in Nat, NEW ph, ArePhis(f, ph), NEW h \in NodeIds(f), NEW preds,
         NEW f2, NEW ph2, IsSplice(f, ph, h, preds, f2, ph2),
         NEW c \in Nat, c <= f.count, NEW p \in NodeIds(f), NEW t, NEW s,
         IsRoute(f, c, p, t, s), IsFed(ph, p, s),
         NEW i \in 2 .. Len(s), s[i] = h, s[i - 1] \in preds
  PROVE  IsKept(f2, ph2, c, p, IF p \in preds /\ t = h THEN f.count ELSE t, s[Len(s)])
<1> DEFINE n == f.count
           m == Len(s)
           s2 == [j \in 1 .. m + 1 |-> IF j < i THEN s[j] ELSE IF j = i THEN n ELSE s[j - 1]]
           t2 == IF p \in preds /\ t = h THEN n ELSE t
           ops == Operands(ph, h, preds)
<1>1. /\ s \in Seq(NodeIds(f)) /\ m \in Nat /\ m >= 2 /\ s[1] = p /\ s[2] = t
      /\ \A j \in 2 .. m - 1 :
            s[j] >= c /\ 1 \in DOMAIN f.targets[s[j]] /\ s[j + 1] = f.targets[s[j]][1]
      /\ s[m] < c
      /\ \A j, k \in 2 .. m : s[j] = s[k] => j = k
  BY DEF IsRoute
<1>2. \A j \in 1 .. m : s[j] \in NodeIds(f)
  BY <1>1
<1>3. /\ NodeIds(f2) = NodeIds(f) \cup {n} /\ n \notin NodeIds(f)
      /\ \A b \in NodeIds(f) : ph2[b] = {} <=> ph[b] = {}
      /\ \A b \in NodeIds(f) : \A o \in ph2[b] :
            \/ o \in ph[b] /\ (b = h => o.pred \notin preds)
            \/ b = h /\ o.pred = n
      /\ \A b \in NodeIds(f) : \A o \in ph[b] : (b = h => o.pred \notin preds) => o \in ph2[b]
  BY SplicedPhis
<1>4. /\ f2.targets[n] = <<h>>
      /\ \A b \in NodeIds(f) :
            /\ DOMAIN f2.targets[b] = DOMAIN f.targets[b]
            /\ \A k \in DOMAIN f.targets[b] :
                  f2.targets[b][k] = IF b \in preds /\ f.targets[b][k] = h THEN n ELSE f.targets[b][k]
  BY DEF IsSplice
<1>5. /\ Len(s2) = m + 1 /\ s2 \in Seq(NodeIds(f2))
      /\ \A j \in 1 .. i - 1 : s2[j] = s[j]
      /\ s2[i] = n
      /\ \A j \in i + 1 .. m + 1 : s2[j] = s[j - 1]
  <2> HIDE DEF n
  <2>1. \A j \in 1 .. m + 1 : s2[j] \in NodeIds(f2)
    BY <1>1, <1>2, <1>3
  <2>2. s2 \in Seq(NodeIds(f2)) /\ Len(s2) = m + 1
    BY <1>1, <2>1
  <2> QED  BY <1>1, <2>2
<1> HIDE DEF s2, n, ops, m
<1>6. m \in Nat /\ i \in 2 .. m /\ n \in Nat /\ c <= n /\ s[i] = h /\ s[i - 1] \in preds /\ i - 1 \in 1 .. m
  BY <1>1 DEF n, m
<1>7. \A j \in 2 .. m : s[j] = h <=> j = i
  BY <1>1, <1>6
<1>8. s2[1] = p /\ s2[2] = t2 /\ s2[m + 1] = s[m]
  <2>1. s2[1] = p /\ s2[m + 1] = s[m]
    BY <1>1, <1>5, <1>6
  <2>2. CASE i = 2
    BY <1>1, <1>5, <1>6, <2>2
  <2>3. CASE i > 2
    <3>1. s2[2] = s[2] /\ s[2] # h
      BY <1>1, <1>5, <1>6, <1>7, <2>3
    <3> QED  BY <1>1, <2>1, <3>1
  <2> QED  BY <1>6, <2>1, <2>2, <2>3
<1>9. ASSUME NEW j \in 2 .. m
      PROVE  /\ s2[j] >= c /\ 1 \in DOMAIN f2.targets[s2[j]]
             /\ s2[j + 1] = f2.targets[s2[j]][1]
  <2>1. CASE j < i
    <3>1. s2[j] = s[j] /\ j \in 2 .. m - 1 /\ s[j] \in NodeIds(f)
      BY <1>2, <1>5, <1>6, <2>1
    <3>2. /\ s[j] >= c /\ 1 \in DOMAIN f.targets[s[j]] /\ s[j + 1] = f.targets[s[j]][1]
      BY <1>1, <3>1
    <3>3. 1 \in DOMAIN f2.targets[s[j]]
          /\ f2.targets[s[j]][1] = IF s[j] \in preds /\ s[j + 1] = h THEN n ELSE s[j + 1]
      BY <1>4, <3>1, <3>2
    <3>4. CASE j = i - 1
      BY <1>5, <1>6, <3>1, <3>2, <3>3, <3>4
    <3>5. CASE j < i - 1
      <4>1. s2[j + 1] = s[j + 1] /\ j + 1 \in 2 .. m /\ j + 1 # i
        BY <1>5, <1>6, <3>5
      <4>2. s[j + 1] # h
        BY <1>7, <4>1
      <4> QED  BY <3>1, <3>2, <3>3, <4>1, <4>2
    <3> QED  BY <1>6, <2>1, <3>4, <3>5
  <2>2. CASE j = i
    <3>1. s2[j] = n /\ s2[j + 1] = s[i]
      BY <1>5, <1>6, <2>2
    <3> DEFINE row == <<h>>
    <3>2. f2.targets[n] = row /\ 1 \in DOMAIN row /\ row[1] = h
      BY <1>4
    <3> HIDE DEF row
    <3> QED  BY <1>6, <3>1, <3>2
  <2>3. CASE j > i
    <3>1. s2[j] = s[j - 1] /\ s2[j + 1] = s[j] /\ j - 1 \in 2 .. m - 1 /\ s[j - 1] \in NodeIds(f)
      BY <1>2, <1>5, <1>6, <2>3
    <3>2. /\ s[j - 1] >= c /\ 1 \in DOMAIN f.targets[s[j - 1]] /\ s[j] = f.targets[s[j - 1]][1]
      <4>1. j - 1 + 1 = j
        OBVIOUS
      <4> QED  BY <1>1, <3>1, <4>1
    <3>3. s[j] # h
      BY <1>7, <2>3
    <3> QED  BY <1>4, <3>1, <3>2, <3>3
  <2> QED  BY <1>6, <2>1, <2>2, <2>3
<1>10. ASSUME NEW j \in 2 .. m + 1, NEW k \in 2 .. m + 1, s2[j] = s2[k] PROVE j = k
  <2>1. \A l \in 2 .. m + 1 :
           /\ l < i => s2[l] = s[l] /\ l \in 2 .. m
           /\ l > i => s2[l] = s[l - 1] /\ l - 1 \in 2 .. m
           /\ l # i => s2[l] # n
    BY <1>2, <1>3, <1>5, <1>6
  <2>2. CASE j = i \/ k = i
    BY <1>5, <1>10, <2>1, <2>2
  <2>3. CASE j # i /\ k # i
    <3>1. \A a, b \in 2 .. m : s[a] = s[b] => a = b
      BY <1>1
    <3>2. CASE j < i /\ k < i
      BY <1>10, <2>1, <3>1, <3>2
    <3>3. CASE j > i /\ k > i
      <4>1. j - 1 = k - 1
        BY <1>10, <2>1, <3>1, <3>3
      <4> QED  BY <4>1
    <3>4. CASE j < i /\ k > i
      <4>1. j = k - 1
        BY <1>10, <2>1, <3>1, <3>4
      <4> QED  BY <1>6, <3>4, <4>1
    <3>5. CASE j > i /\ k < i
      <4>1. j - 1 = k
        BY <1>10, <2>1, <3>1, <3>5
      <4> QED  BY <1>6, <3>5, <4>1
    <3> QED  BY <1>6, <2>3, <3>2, <3>3, <3>4, <3>5
  <2> QED  BY <2>2, <2>3
<1>11. IsRoute(f2, c, p, t2, s2)
  BY <1>1, <1>5, <1>8, <1>9, <1>10 DEF IsRoute

<1>12. \A k \in 2 .. m :
          /\ k < i => s2[k] = s[k] /\ (ph[s[k]] # {} => ph2[s2[k]] # {})
          /\ k >= i => s2[k + 1] = s[k] /\ (ph[s[k]] # {} => ph2[s2[k + 1]] # {})
  <2> SUFFICES ASSUME NEW k \in 2 .. m
               PROVE  /\ k < i => s2[k] = s[k] /\ (ph[s[k]] # {} => ph2[s2[k]] # {})
                      /\ k >= i => s2[k + 1] = s[k] /\ (ph[s[k]] # {} => ph2[s2[k + 1]] # {})
    OBVIOUS
  <2>1. s[k] \in NodeIds(f) /\ (ph[s[k]] # {} => ph2[s[k]] # {})
    BY <1>2, <1>3, <1>6
  <2>2. CASE k < i
    <3>1. s2[k] = s[k]
      BY <1>5, <1>6, <2>2
    <3> QED  BY <2>1, <2>2, <3>1
  <2>3. CASE k >= i
    <3>1. s2[k + 1] = s[k]
      <4>1. k + 1 \in i + 1 .. m + 1 /\ k + 1 - 1 = k
        BY <1>6, <2>3
      <4>2. \A j \in i + 1 .. m + 1 : s2[j] = s[j - 1]
        BY <1>5
      <4>3. PICK j \in i + 1 .. m + 1 : j = k + 1 /\ j - 1 = k
        BY <4>1
      <4> HIDE <1>5
      <4> QED  BY <4>2, <4>3
    <3> QED  BY <2>1, <2>3, <3>1
  <2> QED  BY <1>6, <2>2, <2>3
<1>13. ASSUME NEW k \in 2 .. m, ph[s[k]] # {} PROVE \E o \in ph[s[k]] : IsOperand(ph, p, s, k, o)
  BY <1>13 DEF IsFed, m
<1>14. /\ ops \subseteq ph[h] /\ \A x \in ph[h] : x \in ops <=> x.pred \in preds
       /\ ph2[n] = IF Cardinality(ops) > 1 THEN ops ELSE {}
       /\ \E x : /\ x.pred = n /\ x.value = Merged(ops, n)
                 /\ ph2[h] = IF ops = {} THEN ph[h] ELSE (ph[h] \ ops) \cup {x}
       /\ \A b \in NodeIds(f) \ {h} : ph2[b] = ph[b]
       /\ \A b \in NodeIds(f) : IsFiniteSet(ph[b]) /\ \A x \in ph[b] : x.pred \in NodeIds(f)
  BY DEF IsSplice, Operands, ArePhis, n, ops
<1>15. ASSUME ph[h] # {}
       PROVE  \E o \in ops : /\ IsOperand(ph, p, s, i, o)
                             /\ \A x \in ops : x.pred = s[i - 1] => x = o
  <2>1. PICK o \in ph[h] : IsOperand(ph, p, s, i, o)
    BY <1>6, <1>13, <1>15
  <2> QED  BY <1>6, <1>14, <2>1 DEF IsOperand
<1>16. ASSUME NEW j \in 2 .. m + 1, ph2[s2[j]] # {}
       PROVE  \E o \in ph2[s2[j]] : IsOperand(ph2, p, s2, j, o)
  <2>1. CASE j < i
    <3>1. j \in 2 .. m /\ s2[j] = s[j] /\ s2[j - 1] = s[j - 1] /\ s[j] \in NodeIds(f) /\ s[j] # h
      BY <1>2, <1>5, <1>6, <1>7, <2>1
    <3>2. ph2[s[j]] = ph[s[j]]
      BY <1>14, <3>1
    <3>3. PICK o \in ph[s[j]] : IsOperand(ph, p, s, j, o)
      BY <1>13, <1>16, <3>1, <3>2
    <3>4. o.value = p \/ \E k \in 2 .. j - 1 : o.value = s2[k] /\ ph2[s2[k]] # {}
      <4>1. \A k \in 2 .. j - 1 : s2[k] = s[k] /\ (ph[s[k]] # {} => ph2[s2[k]] # {})
        <5>1. \A k \in 2 .. j - 1 : k \in 2 .. m /\ k < i
          BY <1>6, <2>1
        <5> QED  BY <1>12, <5>1
      <4> QED  BY <3>3, <4>1 DEF IsOperand
    <3> QED  BY <3>1, <3>2, <3>3, <3>4 DEF IsOperand
  <2>2. CASE j = i
    <3>1. s2[j] = n /\ s2[j - 1] = s[i - 1]
      BY <1>5, <1>6, <2>2
    <3>2. ph2[n] = ops /\ ops # {} /\ ph[h] # {}
      BY <1>14, <1>16, <3>1
    <3>3. PICK o \in ops : /\ IsOperand(ph, p, s, i, o)
                           /\ \A x \in ops : x.pred = s[i - 1] => x = o
      BY <1>15, <3>2
    <3>4. o.value = p \/ \E k \in 2 .. j - 1 : o.value = s2[k] /\ ph2[s2[k]] # {}
      <4>1. \A k \in 2 .. j - 1 : s2[k] = s[k] /\ (ph[s[k]] # {} => ph2[s2[k]] # {})
        <5>1. \A k \in 2 .. j - 1 : k \in 2 .. m /\ k < i
          BY <1>6, <2>2
        <5> QED  BY <1>12, <5>1
      <4> QED  BY <2>2, <3>3, <4>1 DEF IsOperand
    <3> QED  BY <3>1, <3>2, <3>3, <3>4 DEF IsOperand
  <2>3. CASE j = i + 1
    <3>1. s2[j] = h /\ s2[j - 1] = n /\ j - 1 = i
      BY <1>5, <1>6, <2>3
    <3>2. ph[h] # {}
      BY <1>3, <1>16, <3>1
    <3>3. PICK o \in ops : /\ IsOperand(ph, p, s, i, o)
                           /\ \A x \in ops : x.pred = s[i - 1] => x = o
      BY <1>15, <3>2
    <3>4. PICK x : /\ x.pred = n /\ x.value = Merged(ops, n) /\ ph2[h] = (ph[h] \ ops) \cup {x}
      BY <1>14, <3>3
    <3>5. x \in ph2[h] /\ \A y \in ph2[h] : y.pred = n => y = x
      BY <1>3, <1>14, <3>4
    <3>6. IsFiniteSet(ops) /\ Cardinality(ops) \in Nat /\ Cardinality(ops) # 0
      <4>1. IsFiniteSet(ops)
        BY <1>14, FS_Subset
      <4> QED  BY <3>3, <4>1, FS_CardinalityType, FS_EmptySet
    <3>7. CASE Cardinality(ops) = 1
      <4>1. PICK y : ops = {y}
        BY <3>6, <3>7, FS_Singleton
      <4>2. (CHOOSE z \in ops : TRUE) = o
        BY <3>3, <4>1
      <4>3. x.value = o.value
        BY <3>4, <3>7, <4>2 DEF Merged
      <4>4. o.value = p \/ \E k \in 2 .. j - 1 : o.value = s2[k] /\ ph2[s2[k]] # {}
        <5>1. \A k \in 2 .. i - 1 : k \in 2 .. j - 1 /\ s2[k] = s[k] /\ (ph[s[k]] # {} => ph2[s2[k]] # {})
          BY <1>6, <1>12, <2>3
        <5> QED  BY <3>3, <5>1 DEF IsOperand
      <4> QED  BY <3>1, <3>4, <3>5, <4>3, <4>4 DEF IsOperand
    <3>8. CASE Cardinality(ops) # 1
      <4>1. x.value = n /\ ph2[n] = ops /\ ops # {}
        BY <1>14, <3>3, <3>4, <3>6, <3>8 DEF Merged
      <4>2. i \in 2 .. j - 1 /\ s2[i] = n
        BY <1>5, <1>6, <3>1
      <4> QED  BY <3>1, <3>4, <3>5, <4>1, <4>2 DEF IsOperand
    <3> QED  BY <3>7, <3>8
  <2>4. CASE j > i + 1
    <3>1. /\ j - 1 \in 2 .. m /\ j - 1 # i /\ s2[j] = s[j - 1] /\ s2[j - 1] = s[j - 2]
          /\ s[j - 1] \in NodeIds(f) /\ s[j - 1] # h
      <4>1. j - 1 \in 2 .. m /\ j - 1 # i /\ s2[j] = s[j - 1]
        BY <1>1, <1>5, <1>6, <2>4
      <4>2. j - 1 \in i + 1 .. m + 1 /\ j - 1 - 1 = j - 2
        BY <1>1, <1>6, <2>4
      <4> QED  BY <1>2, <1>5, <1>7, <4>1, <4>2
    <3>2. ph2[s[j - 1]] = ph[s[j - 1]]
      BY <1>14, <3>1
    <3>3. PICK o \in ph[s[j - 1]] : IsOperand(ph, p, s, j - 1, o)
      BY <1>13, <1>16, <3>1, <3>2
    <3>4. o.value = p \/ \E k \in 2 .. j - 1 : o.value = s2[k] /\ ph2[s2[k]] # {}
      <4>2. CASE o.value = p
        BY <4>2
      <4>3. ASSUME NEW k \in 2 .. j - 1 - 1, o.value = s[k], ph[s[k]] # {}
            PROVE  \E q \in 2 .. j - 1 : o.value = s2[q] /\ ph2[s2[q]] # {}
        <5>1. k \in 2 .. m /\ k \in 2 .. j - 1 /\ k + 1 \in 2 .. j - 1 /\ (k < i \/ k >= i)
          BY <1>6, <2>4, <4>3
        <5>2. CASE k < i
          <6>1. s2[k] = s[k] /\ ph2[s2[k]] # {}
            BY <1>12, <4>3, <5>1, <5>2
          <6> QED  BY <4>3, <5>1, <6>1
        <5>3. CASE k >= i
          <6>1. s2[k + 1] = s[k] /\ ph2[s2[k + 1]] # {}
            BY <1>12, <4>3, <5>1, <5>3
          <6> QED  BY <4>3, <5>1, <6>1
        <5> QED  BY <5>1, <5>2, <5>3
      <4> QED  BY <3>3, <4>2, <4>3 DEF IsOperand
    <3>5. j - 1 - 1 = j - 2
      BY <3>1
    <3>6. /\ o.pred = s2[j - 1] /\ o \in ph2[s2[j]]
          /\ \A o2 \in ph2[s2[j]] : o2.pred = s2[j - 1] => o2 = o
      BY <3>1, <3>2, <3>3, <3>5 DEF IsOperand
    <3> QED  BY <3>4, <3>6 DEF IsOperand
  <2> QED  BY <1>6, <2>1, <2>2, <2>3, <2>4
<1>17. IsFed(ph2, p, s2)
  BY <1>5, <1>16 DEF IsFed
<1> QED
  <2>1. IsRoute(f2, c, p, t2, s2) /\ s2[Len(s2)] = s[Len(s)] /\ IsFed(ph2, p, s2)
    BY <1>5, <1>8, <1>11, <1>17 DEF m
  <2> QED  BY <2>1 DEF IsKept, n

LEMMA SpliceGives ==
  ASSUME IsFunction(function), NEW h \in NodeIds(function), NEW preds \in SUBSET NodeIds(function),
         Splice(h, preds)
  PROVE  IsSplice(function, phis, h, preds, function', phis')
<1> DEFINE n == function.count
           Redirected(t) == IF t = h THEN n ELSE t
           T == [b \in 0 .. n |->
                  CASE b = n -> <<h>>
                    [] b \in preds -> [k \in DOMAIN function.targets[b] |->
                                          Redirected(function.targets[b][k])]
                    [] OTHER -> function.targets[b]]
           operands == {o \in phis[h] : o.pred \in preds}
           merged == IF Cardinality(operands) = 1 THEN (CHOOSE o \in operands : TRUE).value ELSE n
           P == [b \in 0 .. n |->
                  CASE b = n -> IF Cardinality(operands) > 1 THEN operands ELSE {}
                    [] b = h /\ operands # {} ->
                          (phis[h] \ operands) \cup {[pred |-> n, value |-> merged]}
                    [] OTHER -> phis[b]]
<1>1. function' = [function EXCEPT !.count = n + 1, !.targets = T] /\ phis' = P
  BY DEF Splice
<1>2. n \in Nat \ {0} /\ NodeIds(function) = 0 .. n - 1 /\ function.targets \in [NodeIds(function) -> Seq(Nat)]
  BY DEF IsFunction, NodeIds
<1>3. /\ \A b \in NodeIds(function) : b \in 0 .. n /\ b # n
      /\ n \in 0 .. n /\ n \notin preds
  BY <1>2
<1>4. /\ function'.count = n + 1 /\ function'.targets = T
  <2> HIDE DEF T
  <2> QED  BY <1>1 DEF IsFunction
<1>5. T[n] = <<h>>
  BY <1>3
<1>6. ASSUME NEW b \in NodeIds(function)
      PROVE  /\ DOMAIN T[b] = DOMAIN function.targets[b]
             /\ \A k \in DOMAIN function.targets[b] :
                   T[b][k] = IF b \in preds /\ function.targets[b][k] = h THEN n
                             ELSE function.targets[b][k]
  <2>1. CASE b \in preds
    BY <1>3, <2>1
  <2>2. CASE b \notin preds
    BY <1>3, <2>2
  <2> QED  BY <2>1, <2>2
<1>7. DOMAIN phis' = NodeIds(function')
  <2>1. DOMAIN P = 0 .. n
    OBVIOUS
  <2> HIDE DEF P
  <2> QED  BY <1>1, <1>2, <1>4, <2>1 DEF NodeIds
<1>8. phis'[n] = IF Cardinality(operands) > 1 THEN operands ELSE {}
  BY <1>1, <1>3
<1>9. \A b \in NodeIds(function) \ {h} : phis'[b] = phis[b]
  BY <1>1, <1>3
<1>10. \E o : /\ o.pred = n /\ o.value = merged
              /\ phis'[h] = IF operands = {} THEN phis[h] ELSE (phis[h] \ operands) \cup {o}
  <2> DEFINE o == [pred |-> n, value |-> merged]
  <2>1. o.pred = n /\ o.value = merged
    OBVIOUS
  <2>2. phis'[h] = IF operands = {} THEN phis[h] ELSE (phis[h] \ operands) \cup {o}
    BY <1>1, <1>3
  <2> HIDE DEF o, operands, merged
  <2> QED  BY <2>1, <2>2
<1>11. operands = Operands(phis, h, preds) /\ merged = Merged(Operands(phis, h, preds), n)
  BY DEF Operands, Merged
<1> HIDE DEF T, P, operands, merged
<1>12. function'.targets[n] = <<h>>
  BY <1>4, <1>5
<1> QED  BY <1>4, <1>6, <1>7, <1>8, <1>9, <1>10, <1>11, <1>12 DEF IsSplice, n

(* Every operand belongs to an edge into its block. *)
AllEnter(f, ph) ==
    \A b \in NodeIds(f) : \A o \in ph[b] :
        \E k \in DOMAIN f.targets[o.pred] : f.targets[o.pred][k] = b

LEMMA SplicedEnter ==
  ASSUME NEW f, f.count \in Nat, NEW ph, ArePhis(f, ph), NEW h \in NodeIds(f), NEW preds,
         NEW f2, NEW ph2, IsSplice(f, ph, h, preds, f2, ph2), AllEnter(f, ph)
  PROVE  AllEnter(f2, ph2)
<1> DEFINE n == f.count
           ops == Operands(ph, h, preds)
<1>1. /\ NodeIds(f2) = NodeIds(f) \cup {n} /\ n \notin NodeIds(f)
      /\ \A b \in NodeIds(f) : \A o \in ph2[b] :
            \/ o \in ph[b] /\ (b = h => o.pred \notin preds)
            \/ b = h /\ o.pred = n
  BY SplicedPhis
<1>2. \A b \in NodeIds(f) :
            /\ DOMAIN f2.targets[b] = DOMAIN f.targets[b]
            /\ \A k \in DOMAIN f.targets[b] :
                  f2.targets[b][k] = IF b \in preds /\ f.targets[b][k] = h THEN n ELSE f.targets[b][k]
  BY DEF IsSplice
<1>3. \A b \in NodeIds(f) : \A o \in ph[b] : o.pred \in NodeIds(f)
  BY DEF ArePhis
<1>4. ph2[n] \subseteq ph[h] /\ \A o \in ph2[n] : o.pred \in preds
  BY DEF IsSplice, Operands
<1>5. 1 \in DOMAIN f2.targets[n] /\ f2.targets[n][1] = h
  BY DEF IsSplice
<1> HIDE DEF n
<1> SUFFICES ASSUME NEW b \in NodeIds(f2), NEW o \in ph2[b]
             PROVE  \E k \in DOMAIN f2.targets[o.pred] : f2.targets[o.pred][k] = b
  BY DEF AllEnter
<1>6. CASE b = n
  <2>1. o \in ph[h] /\ o.pred \in preds /\ o.pred \in NodeIds(f)
    BY <1>3, <1>4, <1>6
  <2>2. PICK k \in DOMAIN f.targets[o.pred] : f.targets[o.pred][k] = h
    BY <2>1 DEF AllEnter
  <2> QED  BY <1>2, <1>6, <2>1, <2>2
<1>7. CASE b \in NodeIds(f) /\ o \in ph[b] /\ (b = h => o.pred \notin preds)
  <2>1. o.pred \in NodeIds(f)
    BY <1>3, <1>7
  <2>2. PICK k \in DOMAIN f.targets[o.pred] : f.targets[o.pred][k] = b
    BY <1>7 DEF AllEnter
  <2> QED  BY <1>2, <1>7, <2>1, <2>2
<1>8. CASE b = h /\ o.pred = n
  BY <1>5, <1>8
<1> QED  BY <1>1, <1>6, <1>7, <1>8

-----------------------------------------------------------------------------
(* What a splice keeps, and the edges of the given function with it. *)
EdgesKept ==
    \A p \in NodeIds(given) : \A k \in DOMAIN given.targets[p] :
        given.targets[p][k] \in NodeIds(given) =>
            /\ k \in DOMAIN function.targets[p]
            /\ IsKept(function, phis, given.count, p, function.targets[p][k], given.targets[p][k])

RouteInv ==
    /\ IsFunction(given) /\ given.count <= function.count
    /\ ArePhis(function, phis) /\ AllEnter(function, phis)
    /\ \A b \in NodeIds(given) : Phis(given)[b] # {} => phis[b] # {}
    /\ EdgesKept

LEMMA PhisFacts ==
  ASSUME NEW f, IsFunction(f)
  PROVE  /\ ArePhis(f, Phis(f)) /\ AllEnter(f, Phis(f))
         /\ \A p, b \in NodeIds(f) :
               b \in SuccessorSet(SsaCfg(f), p) /\ Phis(f)[b] # {} =>
                   \E o \in Phis(f)[b] : /\ o.pred = p /\ o.value = p
                                         /\ \A o2 \in Phis(f)[b] : o2.pred = p => o2 = o
<1> DEFINE preds(b) == PredecessorSet(SsaCfg(f), b)
           all(b) == {[pred |-> p, value |-> p] : p \in preds(b)}
<1>1. Phis(f) = [b \in NodeIds(f) |-> IF Cardinality(preds(b)) < 2 THEN {} ELSE all(b)]
  BY DEF Phis
<1>2. \A b \in NodeIds(f) : Phis(f)[b] = {} \/ Phis(f)[b] = all(b)
  <2> HIDE DEF preds, all
  <2> QED  BY <1>1
<1>3. /\ NodeIds(SsaCfg(f)) = NodeIds(f)
      /\ \A b \in NodeIds(f) : SuccessorSet(SsaCfg(f), b) = ToSet(f.targets[b]) \cap NodeIds(f)
  BY SsaCfgIsGraph
<1>4. \A b \in NodeIds(f) :
         preds(b) \subseteq NodeIds(f) /\ \A p \in NodeIds(f) : p \in preds(b) <=> b \in SuccessorSet(SsaCfg(f), p)
  BY <1>3 DEF PredecessorSet
<1>5. \A b : \A o \in all(b) : o.pred \in preds(b) /\ o.value = o.pred
  <2> HIDE DEF preds
  <2> QED  OBVIOUS
<1>6. \A b : \A p \in preds(b) : \E o \in all(b) : o.pred = p /\ o.value = p
  <2> HIDE DEF preds
  <2> SUFFICES ASSUME NEW b, NEW p \in preds(b) PROVE \E o \in all(b) : o.pred = p /\ o.value = p
    OBVIOUS
  <2>1. [pred |-> p, value |-> p] \in all(b)
    OBVIOUS
  <2> QED  BY <2>1
<1>7. \A b : \A o, o2 \in all(b) : o.pred = o2.pred => o = o2
  <2> HIDE DEF preds
  <2> QED  OBVIOUS
<1>8. \A b \in NodeIds(f) : IsFiniteSet(all(b))
  <2> SUFFICES ASSUME NEW b \in NodeIds(f) PROVE IsFiniteSet(all(b))
    OBVIOUS
  <2>1. IsFiniteSet(NodeIds(f))
    BY FS_Interval DEF NodeIds, IsFunction
  <2>2. IsFiniteSet(preds(b))
    BY <1>4, <2>1, FS_Subset
  <2> HIDE DEF preds
  <2> DEFINE g == [p \in preds(b) |-> [pred |-> p, value |-> p]]
             V == all(b)
  <2>3. g \in Surjection(preds(b), V)
    BY DEF Surjection
  <2> HIDE DEF g, V
  <2>4. IsFiniteSet(V)
    BY <2>2, <2>3, FS_Surjection
  <2> QED  BY <2>4 DEF V
<1>9. DOMAIN Phis(f) = NodeIds(f)
  BY <1>1
<1> HIDE DEF all, preds
<1>10. ArePhis(f, Phis(f))
  <2>1. \A b \in NodeIds(f) : IsFiniteSet(Phis(f)[b])
    BY <1>2, <1>8, FS_EmptySet
  <2>2. \A b \in NodeIds(f) : \A o \in Phis(f)[b] : o.pred \in NodeIds(f)
    BY <1>2, <1>4, <1>5
  <2> QED  BY <1>9, <2>1, <2>2 DEF ArePhis
<1>11. AllEnter(f, Phis(f))
  <2> SUFFICES ASSUME NEW b \in NodeIds(f), NEW o \in Phis(f)[b]
               PROVE  \E k \in DOMAIN f.targets[o.pred] : f.targets[o.pred][k] = b
    BY DEF AllEnter
  <2>1. o.pred \in NodeIds(f) /\ b \in SuccessorSet(SsaCfg(f), o.pred)
    BY <1>2, <1>4, <1>5
  <2>2. b \in ToSet(f.targets[o.pred])
    BY <1>3, <2>1
  <2>3. f.targets[o.pred] \in Seq(Nat)
    BY <2>1 DEF IsFunction
  <2> QED  BY <2>2, <2>3 DEF ToSet
<1>12. ASSUME NEW p \in NodeIds(f), NEW b \in NodeIds(f),
              b \in SuccessorSet(SsaCfg(f), p), Phis(f)[b] # {}
       PROVE  \E o \in Phis(f)[b] : /\ o.pred = p /\ o.value = p
                                    /\ \A o2 \in Phis(f)[b] : o2.pred = p => o2 = o
  <2>1. Phis(f)[b] = all(b) /\ p \in preds(b)
    BY <1>2, <1>4, <1>12
  <2>2. PICK o \in all(b) : o.pred = p /\ o.value = p
    BY <1>6, <2>1
  <2> QED  BY <1>7, <2>1, <2>2
<1> QED  BY <1>10, <1>11, <1>12

LEMMA RouteInvInit == Init => RouteInv
<1> SUFFICES ASSUME Init PROVE RouteInv
  OBVIOUS
<1>1. IsFunction(given) /\ function = given /\ phis = Phis(given)
  BY QuestionsAssumption DEF Init
<1>2. given.count <= function.count
  BY <1>1 DEF IsFunction
<1>3. ArePhis(function, phis) /\ AllEnter(function, phis)
  BY <1>1, PhisFacts
<1>4. ASSUME NEW p \in NodeIds(given), NEW k \in DOMAIN given.targets[p],
             given.targets[p][k] \in NodeIds(given)
      PROVE  IsKept(given, phis, given.count, p, given.targets[p][k], given.targets[p][k])
  <2> DEFINE t == given.targets[p][k]
             s == <<p, t>>
  <2>1. t \in SuccessorSet(SsaCfg(given), p)
    <3>1. t \in ToSet(given.targets[p])
      BY <1>1 DEF IsFunction, ToSet
    <3> QED  BY <1>1, <1>4, <3>1, SsaCfgIsGraph
  <2>2. s \in Seq(NodeIds(given)) /\ Len(s) = 2 /\ s[1] = p /\ s[2] = t
    BY <1>4
  <2>3. t < given.count
    BY <1>1, <1>4 DEF NodeIds, IsFunction
  <2> HIDE DEF s, t
  <2>4. IsRoute(given, given.count, p, t, s)
    BY <2>2, <2>3 DEF IsRoute
  <2>5. ASSUME phis[t] # {}
        PROVE  \E o \in phis[t] : /\ o.pred = p /\ o.value = p
                                  /\ \A o2 \in phis[t] : o2.pred = p => o2 = o
    <3>1. t \in NodeIds(given)
      BY <1>4 DEF t
    <3> QED  BY <1>1, <2>1, <2>5, <3>1, PhisFacts
  <2>6. IsFed(phis, p, s)
    <3> SUFFICES ASSUME NEW i \in 2 .. Len(s), phis[s[i]] # {}
                 PROVE  \E o \in phis[s[i]] : IsOperand(phis, p, s, i, o)
      BY DEF IsFed
    <3>1. i = 2 /\ s[i] = t /\ s[i - 1] = p
      BY <2>2
    <3> QED  BY <2>5, <3>1 DEF IsOperand
  <2>7. IsKept(given, phis, given.count, p, t, t)
    BY <2>2, <2>4, <2>6 DEF IsKept
  <2> QED  BY <2>7 DEF t
<1> QED  BY <1>1, <1>2, <1>3, <1>4 DEF RouteInv, EdgesKept

LEMMA RouteInvSplice ==
  ASSUME RouteInv, IsFunction(function), given' = given,
         NEW h \in NodeIds(function), NEW preds \in SUBSET NodeIds(function), Splice(h, preds)
  PROVE  RouteInv'
<1>1. PICK f, ph, f2, ph2 : f = function /\ ph = phis /\ f2 = function' /\ ph2 = phis'
  OBVIOUS
<1>2. f.count \in Nat /\ ArePhis(f, ph) /\ AllEnter(f, ph) /\ IsSplice(f, ph, h, preds, f2, ph2)
  BY <1>1, SpliceGives DEF RouteInv, IsFunction
<1>3. h \in NodeIds(f) /\ given.count \in Nat /\ given.count <= f.count
  BY <1>1 DEF RouteInv, IsFunction
<1>4. f2.count = f.count + 1
  BY <1>2 DEF IsSplice
<1>5. /\ \A b \in NodeIds(f) : ph2[b] = {} <=> ph[b] = {}
      /\ ArePhis(f2, ph2)
  BY <1>2, <1>3, SplicedPhis
<1>6. AllEnter(f2, ph2)
  BY <1>2, <1>3, SplicedEnter
<1>7. NodeIds(given) \subseteq NodeIds(f)
  BY <1>2, <1>3 DEF NodeIds
<1>8. \A b \in NodeIds(given) : Phis(given)[b] # {} => ph2[b] # {}
  BY <1>1, <1>5, <1>7 DEF RouteInv
<1>9. ASSUME NEW p \in NodeIds(given), NEW k \in DOMAIN given.targets[p],
             given.targets[p][k] \in NodeIds(given)
      PROVE  /\ k \in DOMAIN f2.targets[p]
             /\ IsKept(f2, ph2, given.count, p, f2.targets[p][k], given.targets[p][k])
  <2> DEFINE c == given.count
             t == f.targets[p][k]
             end == given.targets[p][k]
             t2 == IF p \in preds /\ t = h THEN f.count ELSE t
  <2>1. k \in DOMAIN f.targets[p] /\ IsKept(f, ph, c, p, t, end)
    BY <1>1, <1>9 DEF RouteInv, EdgesKept
  <2>2. k \in DOMAIN f2.targets[p] /\ f2.targets[p][k] = t2
    BY <1>2, <1>7, <2>1 DEF IsSplice
  <2> HIDE DEF t, end, t2
  <2>3. PICK s : IsRoute(f, c, p, t, s) /\ s[Len(s)] = end /\ IsFed(ph, p, s)
    BY <2>1 DEF IsKept
  <2>4. p \in NodeIds(f) /\ c \in Nat /\ c <= f.count
    BY <1>3, <1>7
  <2>5. CASE \A i \in 2 .. Len(s) : ~(s[i] = h /\ s[i - 1] \in preds)
    <3>1. IsRoute(f2, c, p, t, s) /\ IsFed(ph2, p, s) /\ ~(p \in preds /\ t = h)
      BY ONLY <1>2, <1>3, <2>3, <2>4, <2>5, RouteAround
    <3>2. t2 = t
      BY <3>1 DEF t2
    <3>3. IsKept(f2, ph2, c, p, t, end)
      BY <2>3, <3>1 DEF IsKept
    <3> QED  BY <2>2, <3>2, <3>3 DEF end
  <2>6. ASSUME NEW i \in 2 .. Len(s), s[i] = h, s[i - 1] \in preds
        PROVE  IsKept(f2, ph2, c, p, t2, end)
    <3>1. IsKept(f2, ph2, c, p, IF p \in preds /\ t = h THEN f.count ELSE t, s[Len(s)])
      BY ONLY <1>2, <1>3, <2>3, <2>4, <2>6, RouteThrough
    <3> QED  BY <2>3, <3>1 DEF t2
  <2> QED  BY <2>2, <2>5, <2>6 DEF end
<1>10. EdgesKept'
  <2> SUFFICES ASSUME NEW p \in NodeIds(given), NEW k \in DOMAIN given.targets[p],
                      given.targets[p][k] \in NodeIds(given)
               PROVE  /\ k \in DOMAIN function'.targets[p]
                      /\ IsKept(function', phis', given.count, p, function'.targets[p][k],
                                given.targets[p][k])
    BY DEF EdgesKept
  <2> QED  BY <1>1, <1>9
<1>11. ArePhis(function', phis') /\ AllEnter(function', phis')
  BY <1>1, <1>5, <1>6
<1>12. IsFunction(given) /\ given.count <= function'.count
  BY <1>1, <1>2, <1>3, <1>4 DEF RouteInv
<1>13. \A b \in NodeIds(given) : Phis(given)[b] # {} => phis'[b] # {}
  BY <1>1, <1>8
<1> QED  BY <1>10, <1>11, <1>12, <1>13 DEF RouteInv

LEMMA RouteInvNext == FlowInv /\ RouteInv /\ [Next]_vars => RouteInv'
<1> SUFFICES ASSUME FlowInv, RouteInv, [Next]_vars PROVE RouteInv'
  OBVIOUS
<1>1. CASE UNCHANGED <<function, given, phis>>
  BY <1>1 DEF RouteInv, EdgesKept
<1>2. CASE AttachRoots \/ GraphBuilt \/ BuildTree
  BY <1>1, <1>2 DEF AttachRoots, AttachNext, Expand, FallBack, GraphBuilt, BuildTree, ehVars, asked, canonVars
<1>3. CASE TreeBuilt \/ NormalTreeBuilt \/ ComputeFrontier
  BY <1>1, <1>3 DEF TreeBuilt, NormalTreeBuilt, ComputeFrontier, ehVars, asked, canonVars
<1>4. CASE BeginRound \/ LeaveLoop \/ EndRound
  BY <1>1, <1>4 DEF BeginRound, LeaveLoop, EndRound, ehVars, asked
<1>5. ASSUME NEW h \in DOMAIN forest, NEW preds \in SUBSET NodeIds(graph),
             Looping(h), Splice(h, preds), Spliced
      PROVE  RouteInv'
  <2>1. /\ IsFunction(function) /\ graph.count \in Nat /\ graph.count <= function.count
        /\ h \in NodeIds(graph)
    BY <1>5 DEF Looping, FlowInv, LoopsTyped, IsGraph
  <2>2. NodeIds(graph) \subseteq NodeIds(function)
    BY <2>1 DEF NodeIds, IsFunction
  <2>3. given' = given
    BY <1>5 DEF Spliced, asked
  <2>4. preds \in SUBSET NodeIds(function) /\ h \in NodeIds(function)
    BY <2>1, <2>2
  <2> QED  BY <1>5, <2>1, <2>3, <2>4, RouteInvSplice
<1>6. CASE InsertPreheader
  <2>1. PICK h \in DOMAIN forest : Looping(h) /\ Splice(h, NonLoopPredecessors(h)) /\ Spliced
    BY <1>6 DEF InsertPreheader
  <2>2. NonLoopPredecessors(h) \in SUBSET NodeIds(graph)
    BY DEF NonLoopPredecessors, PredecessorSet
  <2> QED  BY <1>5, <2>1, <2>2
<1>7. CASE UnifyLatches
  <2>1. PICK h \in DOMAIN forest : Looping(h) /\ Splice(h, ToSet(forest[h].latches)) /\ Spliced
    BY <1>7 DEF UnifyLatches
  <2>2. ToSet(forest[h].latches) \in SUBSET NodeIds(graph)
    <3>1. forest[h].latches \in Seq(NodeIds(graph))
      BY <2>1 DEF Looping, FlowInv, LoopsTyped
    <3> QED  BY <3>1 DEF ToSet
  <2> QED  BY <1>5, <2>1, <2>2
<1>8. CASE UNCHANGED vars
  BY <1>1, <1>8 DEF vars, ehVars, asked, canonVars
<1> QED  BY <1>2, <1>3, <1>4, <1>6, <1>7, <1>8 DEF Next

-----------------------------------------------------------------------------
(* The way an edge is kept on is the one Route follows. *)
LEMMA RouteIs ==
  ASSUME IsFunction(function), IsFunction(given), given.count <= function.count,
         NEW p, NEW t, NEW s, IsRoute(function, given.count, p, t, s)
  PROVE  Route(p, t) = s
<1> DEFINE n == function.count
           c == given.count
           m == Len(s)
           Body(R, k) == IF k = 0 THEN <<p, t>>
                         ELSE IF Last(R[k - 1]) < c THEN R[k - 1]
                         ELSE Append(R[k - 1], function.targets[Last(R[k - 1])][1])
           Def(R) == R = [k \in 0 .. n |-> Body(R, k)]
           len(k) == IF k + 2 <= m THEN k + 2 ELSE m
           pre(k) == SubSeq(s, 1, len(k))
           P == [k \in 0 .. n |-> pre(k)]
<1>1. /\ s \in Seq(NodeIds(function)) /\ m \in Nat /\ m >= 2 /\ s[1] = p /\ s[2] = t
      /\ \A i \in 2 .. m - 1 : s[i] >= c /\ s[i + 1] = function.targets[s[i]][1]
      /\ s[m] < c
      /\ \A i, j \in 2 .. m : s[i] = s[j] => i = j
      /\ n \in Nat \ {0} /\ c \in Nat
  BY DEF IsRoute, IsFunction
<1>2. m <= n + 1
  <2> DEFINE I == 2 .. m
             g == [i \in I |-> s[i]]
             N == NodeIds(function)
  <2>1. IsFiniteSet(I) /\ Cardinality(I) = m - 1 /\ IsFiniteSet(N) /\ Cardinality(N) = n
    <3>1. IsFiniteSet(I) /\ Cardinality(I) = m - 1
      BY <1>1, FS_Interval
    <3>2. IsFiniteSet(N) /\ Cardinality(N) = n
      <4>1. n - 1 \in Int /\ 0 \in Int /\ ~(0 > n - 1) /\ n - 1 - 0 + 1 = n
        BY <1>1
      <4>2. N = 0 .. n - 1
        BY DEF NodeIds
      <4> HIDE DEF n, N
      <4> QED  BY <4>1, <4>2, FS_Interval
    <3> QED  BY <3>1, <3>2
  <2>2. g \in [I -> N]
    BY <1>1
  <2>3. \A i, j \in I : i # j => g[i] # g[j]
    BY <1>1
  <2> HIDE DEF I, g, N
  <2>4. ~(Cardinality(N) < Cardinality(I))
    BY <2>1, <2>2, <2>3, FS_PigeonHole
  <2> QED  BY <1>1, <2>1, <2>4
<1>3. \A k \in 0 .. n : /\ len(k) \in 2 .. m /\ Len(pre(k)) = len(k) /\ pre(k) \in Seq(NodeIds(function))
                        /\ \A i \in 1 .. len(k) : pre(k)[i] = s[i]
  BY <1>1
<1>4. ASSUME NEW s1 \in Seq(NodeIds(function)), NEW s2 \in Seq(NodeIds(function)), Len(s1) = Len(s2),
             \A i \in 1 .. Len(s1) : s1[i] = s2[i]
      PROVE  s1 = s2
  BY <1>4
<1>5. pre(n) = s
  <2>1. len(n) = m
    BY <1>1, <1>2
  <2>2. Len(pre(n)) = Len(s) /\ pre(n) \in Seq(NodeIds(function)) /\ \A i \in 1 .. Len(pre(n)) : pre(n)[i] = s[i]
    BY <1>1, <1>3, <2>1
  <2> HIDE DEF pre, m
  <2> QED  BY <1>1, <1>4, <2>2
<1>6. pre(0) = <<p, t>>
  <2> DEFINE a == <<p, t>>
  <2>1. p \in NodeIds(function) /\ t \in NodeIds(function) /\ 0 \in 0 .. n /\ len(0) = 2
    BY <1>1
  <2>2. a \in Seq(NodeIds(function)) /\ Len(a) = 2 /\ a[1] = s[1] /\ a[2] = s[2]
    BY <1>1, <2>1
  <2> HIDE DEF pre, len, a
  <2>3. \A i \in 1 .. 2 : i = 1 \/ i = 2
    OBVIOUS
  <2>4. pre(0) = a
    BY <1>3, <1>4, <2>1, <2>2, <2>3
  <2> QED  BY <2>4 DEF a
<1>7. ASSUME NEW k \in 1 .. n
      PROVE  pre(k) = IF Last(pre(k - 1)) < c THEN pre(k - 1)
                      ELSE Append(pre(k - 1), function.targets[Last(pre(k - 1))][1])
  <2>1. k - 1 \in 0 .. n /\ k \in 0 .. n
    BY <1>1
  <2>2. Last(pre(k - 1)) = s[len(k - 1)]
    BY <1>3, <2>1 DEF Last
  <2>3. CASE len(k - 1) = m
    <3>1. len(k) = len(k - 1)
      BY <1>1, <2>3
    <3> QED  BY <1>1, <2>2, <2>3, <3>1
  <2>4. CASE len(k - 1) # m
    <3>1. len(k) = len(k - 1) + 1 /\ len(k - 1) \in 2 .. m - 1
      BY <1>1, <2>4
    <3>2. s[len(k - 1)] >= c /\ s[len(k)] = function.targets[s[len(k - 1)]][1]
      BY <1>1, <3>1
    <3>3. ~(s[len(k - 1)] < c)
      <4>1. s[len(k - 1)] \in Nat
        <5>1. s[len(k - 1)] \in NodeIds(function)
          BY <1>1, <3>1
        <5> QED  BY <1>1, <5>1 DEF NodeIds
      <4> HIDE DEF len
      <4> QED  BY <1>1, <3>2, <4>1
    <3> DEFINE a == Append(pre(k - 1), s[len(k)])
    <3>4. /\ Len(a) = len(k) /\ a \in Seq(NodeIds(function))
          /\ \A i \in 1 .. len(k) : a[i] = s[i]
      <4>1. s[len(k)] \in NodeIds(function)
        BY <1>1, <1>3, <2>1
      <4> HIDE DEF pre, len
      <4> QED  BY <1>3, <2>1, <3>1, <4>1
    <3>5. a = pre(k)
      <4> HIDE DEF a, pre, len
      <4> QED  BY <1>3, <1>4, <2>1, <3>4
    <3> HIDE DEF pre, len
    <3> QED  BY <2>2, <3>2, <3>3, <3>5 DEF a
  <2> QED  BY <2>3, <2>4
<1> HIDE DEF pre, len, m, n, c
<1>8. Def(P)
  <2>1. ASSUME NEW k \in 0 .. n PROVE P[k] = Body(P, k)
    <3>1. CASE k = 0
      BY <1>6, <3>1
    <3>2. CASE k # 0
      <4>1. k \in 1 .. n /\ k - 1 \in 0 .. n
        BY <1>1, <3>2
      <4> QED  BY <1>7, <3>2, <4>1
    <3> QED  BY <3>1, <3>2
  <2> HIDE DEF Body
  <2>2. P = [k \in 0 .. n |-> P[k]]
    OBVIOUS
  <2> HIDE DEF P
  <2> QED  BY <2>1, <2>2
<1> DEFINE R == CHOOSE R : Def(R)
<1>9. Def(R) /\ Route(p, t) = R[n]
  <2>1. Def(R)
    BY <1>8
  <2>2. Route(p, t) = R[n]
    BY DEF Route, n, c
  <2> QED  BY <2>1, <2>2
<1>10. R[n] = pre(n)
  <2> HIDE DEF R
  <2>1. ASSUME NEW k \in 0 .. n PROVE R[k] = Body(R, k)
    BY <1>9
  <2> HIDE <1>9
  <2> DEFINE G == {k \in Nat : k <= n => R[k] = pre(k)}
  <2>2. 0 \in G
    BY <1>1, <1>6, <2>1
  <2>3. ASSUME NEW k \in G PROVE k + 1 \in G
    <3> SUFFICES ASSUME k + 1 <= n PROVE R[k + 1] = pre(k + 1)
      OBVIOUS
    <3>1. k \in Nat /\ R[k] = pre(k) /\ k + 1 \in 1 .. n /\ k + 1 \in 0 .. n /\ k + 1 - 1 = k
      BY <1>1, <2>3
    <3>2. R[k + 1] = IF Last(R[k]) < c THEN R[k] ELSE Append(R[k], function.targets[Last(R[k])][1])
      BY <2>1, <3>1
    <3>3. pre(k + 1) = IF Last(pre(k)) < c THEN pre(k)
                       ELSE Append(pre(k), function.targets[Last(pre(k))][1])
      <4>1. PICK j \in 1 .. n : j = k + 1 /\ j - 1 = k
        BY <3>1
      <4> QED  BY <1>7, <4>1
    <3> QED  BY <3>1, <3>2, <3>3
  <2>4. G = Nat
    <3>1. G \in SUBSET Nat
      OBVIOUS
    <3> HIDE DEF G
    <3> QED  BY <2>2, <2>3, <3>1, Induction
  <2> QED  BY <1>1, <2>4
<1> QED  BY <1>5, <1>9, <1>10

(* What the phi at its end receives along it is p's value. *)
LEMMA ReceivedIs ==
  ASSUME IsFunction(function), IsFunction(given), NEW p \in NodeIds(given), NEW t, NEW s,
         IsRoute(function, given.count, p, t, s), IsFed(phis, p, s), phis[s[Len(s)]] # {}
  PROVE  Received(s) = {p}
<1> DEFINE c == given.count
           m == Len(s)
           values(i) == {o.value : o \in {x \in phis[s[i]] : x.pred = s[i - 1]}}
           Part(V, i, v) == IF v < c THEN {v} ELSE UNION {V[j] : j \in {x \in 2 .. i - 1 : s[x] = v}}
           Body(V, i) == UNION {Part(V, i, v) : v \in values(i)}
           Def(V) == V = [i \in 2 .. m |-> Body(V, i)]
           E(i) == IF phis[s[i]] = {} THEN {} ELSE {p}
           P == [i \in 2 .. m |-> E(i)]
<1>1. /\ m \in Nat /\ m >= 2 /\ \A i \in 2 .. m - 1 : s[i] >= c
      /\ \A i, j \in 2 .. m : s[i] = s[j] => i = j
      /\ \A i \in 1 .. m : s[i] \in Nat
      /\ c \in Nat /\ p < c
  <2>1. /\ s \in Seq(NodeIds(function)) /\ m \in Nat /\ m >= 2
        /\ \A i \in 2 .. m - 1 : s[i] >= c
        /\ \A i, j \in 2 .. m : s[i] = s[j] => i = j
    BY DEF IsRoute
  <2>2. NodeIds(function) \subseteq Nat /\ c \in Nat /\ p < c
    BY DEF IsFunction, NodeIds
  <2>3. \A i \in 1 .. m : s[i] \in Nat
    BY <2>1, <2>2
  <2> QED  BY <2>1, <2>2, <2>3
<1>2. ASSUME NEW i \in 2 .. m, phis[s[i]] # {}
      PROVE  \E v : /\ values(i) = {v}
                    /\ v = p \/ \E j \in 2 .. i - 1 : v = s[j] /\ phis[s[j]] # {}
  <2>1. PICK o \in phis[s[i]] : IsOperand(phis, p, s, i, o)
    BY <1>2 DEF IsFed
  <2>2. /\ o.pred = s[i - 1] /\ \A o2 \in phis[s[i]] : o2.pred = s[i - 1] => o2 = o
        /\ o.value = p \/ \E j \in 2 .. i - 1 : o.value = s[j] /\ phis[s[j]] # {}
    BY <2>1 DEF IsOperand
  <2>3. {x \in phis[s[i]] : x.pred = s[i - 1]} = {o}
    BY <2>1, <2>2
  <2>4. values(i) = {o.value}
    BY <2>3
  <2> HIDE DEF values
  <2> QED  BY <2>2, <2>4
<1>3. ASSUME NEW W, NEW i \in 2 .. m, \A j \in 2 .. i - 1 : W[j] = E(j)
      PROVE  Body(W, i) = E(i)
  <2>1. CASE phis[s[i]] = {}
    <3>1. values(i) = {}
      BY <2>1
    <3> HIDE DEF values, Part
    <3> QED  BY <2>1, <3>1
  <2>2. CASE phis[s[i]] # {}
    <3>1. PICK v : /\ values(i) = {v}
                   /\ v = p \/ \E j \in 2 .. i - 1 : v = s[j] /\ phis[s[j]] # {}
      BY <1>2, <2>2
    <3>2. Body(W, i) = Part(W, i, v)
      <4> HIDE DEF values, Part
      <4> QED  BY <3>1
    <3>3. CASE v = p
      <4>1. Part(W, i, v) = {p}
        BY <1>1, <3>3
      <4> HIDE DEF Body, Part
      <4> QED  BY <2>2, <3>2, <4>1
    <3>4. ASSUME NEW j \in 2 .. i - 1, v = s[j], phis[s[j]] # {}
          PROVE  Body(W, i) = E(i)
      <4>1. j \in 2 .. m - 1 /\ j \in 2 .. m /\ i \in Nat
        BY <1>1
      <4>2. ~(v < c)
        BY <1>1, <3>4, <4>1
      <4>3. {x \in 2 .. i - 1 : s[x] = v} = {j}
        <5>1. \A x \in 2 .. i - 1 : x \in 2 .. m
          BY <1>1, <4>1
        <5> QED  BY <1>1, <3>4, <4>1, <5>1
      <4>4. W[j] = {p}
        BY <1>3, <3>4
      <4>5. UNION {W[k] : k \in {x \in 2 .. i - 1 : s[x] = v}} = {p}
        <5> DEFINE J == {x \in 2 .. i - 1 : s[x] = v}
        <5>1. J = {j}
          BY <4>3
        <5> HIDE DEF J
        <5>2. UNION {W[k] : k \in J} = {p}
          BY <4>4, <5>1
        <5> QED  BY <5>2 DEF J
      <4>6. Part(W, i, v) = {p}
        BY <4>2, <4>5
      <4> HIDE DEF Body, Part
      <4> QED  BY <2>2, <3>2, <4>6
    <3> HIDE DEF Body
    <3> QED  BY <3>1, <3>3, <3>4, <2>2, <3>2
  <2> QED  BY <2>1, <2>2
<1> HIDE DEF E, m
<1>4. Def(P)
  <2>1. ASSUME NEW i \in 2 .. m PROVE P[i] = Body(P, i)
    <3>1. \A j \in 2 .. i - 1 : P[j] = E(j)
      BY <1>1
    <3>2. P[i] = E(i)
      OBVIOUS
    <3> HIDE DEF P, Body
    <3> QED  BY <1>3, <3>1, <3>2
  <2>2. P = [i \in 2 .. m |-> P[i]]
    OBVIOUS
  <2> HIDE DEF P, Body
  <2> QED  BY <2>1, <2>2
<1> DEFINE V == CHOOSE V : Def(V)
<1>5. Def(V)
  <2>1. \E X : Def(X)
    BY <1>4
  <2> HIDE DEF P, Body, Def
  <2>2. Def(V)
    BY Zenon, <2>1
  <2> QED  BY <2>2
<1>6. Received(s) = V[m]
  BY DEF Received, m
<1>7. V[m] = E(m)
  <2>1. ASSUME NEW i \in 2 .. m PROVE V[i] = Body(V, i)
    <3> HIDE DEF V, Body
    <3> QED  BY <1>5
  <2> HIDE DEF V, Body
  <2> HIDE <1>5
  <2> DEFINE G == {k \in Nat : \A i \in 2 .. m : i <= k => V[i] = E(i)}
  <2>2. 0 \in G
    OBVIOUS
  <2>3. ASSUME NEW k \in G PROVE k + 1 \in G
    <3> SUFFICES ASSUME NEW i \in 2 .. m, i = k + 1 PROVE V[i] = E(i)
      <4>1. k \in Nat /\ \A i \in 2 .. m : i <= k => V[i] = E(i)
        BY <2>3
      <4>2. \A i \in 2 .. m : i <= k + 1 => i <= k \/ i = k + 1
        BY <4>1
      <4> QED  BY <4>1, <4>2
    <3>1. k \in Nat /\ \A j \in 2 .. m : j <= k => V[j] = E(j)
      BY <2>3
    <3>2. \A j \in 2 .. i - 1 : j \in 2 .. m /\ j <= k
      BY <1>1, <3>1
    <3>3. \A j \in 2 .. i - 1 : V[j] = E(j)
      BY <3>1, <3>2
    <3> QED  BY <1>3, <2>1, <3>3
  <2>4. G = Nat
    <3>1. G \in SUBSET Nat
      OBVIOUS
    <3> HIDE DEF G
    <3> QED  BY <2>2, <2>3, <3>1, Induction
  <2>5. m \in Nat /\ m \in 2 .. m /\ m <= m
    BY <1>1
  <2>6. m \in G
    <3> HIDE DEF G
    <3> QED  BY <2>4, <2>5
  <2> QED  BY <2>5, <2>6
<1>8. E(m) = {p}
  BY DEF E, m
<1> QED  BY <1>6, <1>7, <1>8

(* Splicing keeps the function's meaning, whatever the function: every edge ends
   in the block it ended in, the phi there receives the one value it received,
   and no operand is left for an edge that is gone. *)
THEOREM RoutesKept == Spec => []RoutesAreKept
<1>1. FlowInv /\ RouteInv => RoutesAreKept
  <2> SUFFICES ASSUME FlowInv, RouteInv
               PROVE  /\ \A p \in NodeIds(given) : \A k \in DOMAIN given.targets[p] :
                            LET route == Route(p, function.targets[p][k])
                            IN  given.targets[p][k] \in NodeIds(given) =>
                                /\ Last(route) = given.targets[p][k]
                                /\ Phis(given)[Last(route)] # {} => Received(route) = {p}
                      /\ \A b \in NodeIds(function) : \A o \in phis[b] :
                            o.pred \in PredecessorSet(SsaCfg(function), b)
    BY DEF RoutesAreKept
  <2>1. IsFunction(function) /\ IsFunction(given) /\ given.count <= function.count
    BY DEF FlowInv, RouteInv
  <2>2. ASSUME NEW p \in NodeIds(given), NEW k \in DOMAIN given.targets[p],
               given.targets[p][k] \in NodeIds(given)
        PROVE  LET route == Route(p, function.targets[p][k])
               IN  /\ Last(route) = given.targets[p][k]
                   /\ Phis(given)[Last(route)] # {} => Received(route) = {p}
    <3> DEFINE t == function.targets[p][k]
               end == given.targets[p][k]
    <3>1. IsKept(function, phis, given.count, p, t, end)
      BY <2>2 DEF RouteInv, EdgesKept
    <3> HIDE DEF t, end
    <3>2. PICK s : IsRoute(function, given.count, p, t, s) /\ s[Len(s)] = end /\ IsFed(phis, p, s)
      BY <3>1 DEF IsKept
    <3>3. Route(p, t) = s
      BY <2>1, <3>2, RouteIs
    <3>4. Phis(given)[end] # {} => phis[end] # {}
      BY <2>2 DEF RouteInv, end
    <3>5. phis[end] # {} => Received(s) = {p}
      BY <2>1, <3>2, ReceivedIs
    <3>6. Last(s) = end
      BY <3>2 DEF Last
    <3> QED  BY <3>3, <3>4, <3>5, <3>6 DEF t, end
  <2>3. ASSUME NEW b \in NodeIds(function), NEW o \in phis[b]
        PROVE  o.pred \in PredecessorSet(SsaCfg(function), b)
    <3>1. o.pred \in NodeIds(function)
      BY DEF RouteInv, ArePhis
    <3>2. PICK k \in DOMAIN function.targets[o.pred] : function.targets[o.pred][k] = b
      BY DEF RouteInv, AllEnter
    <3>3. b \in ToSet(function.targets[o.pred])
      <4>1. function.targets[o.pred] \in Seq(Nat)
        BY <2>1, <3>1 DEF IsFunction
      <4> QED  BY <3>2, <4>1 DEF ToSet
    <3> QED  BY <2>1, <3>1, <3>3, SsaCfgIsGraph DEF PredecessorSet
  <2> QED  BY <2>2, <2>3
<1> QED  BY <1>1, FlowInvInit, FlowInvNext, RouteInvInit, RouteInvNext, PTL DEF Spec
=============================================================================
