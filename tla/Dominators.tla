------------------------------ MODULE Dominators ------------------------------
(***************************************************************************)
(* graph/algorithms/dominators.rs: Lengauer-Tarjan dominators by an        *)
(* explicit stack, and the numbering of the dominator tree that answers    *)
(* `dominates`; and, on a finished tree, the dominance frontiers.  One     *)
(* step is one turn of a loop of the code.  `lt` holds the fields of       *)
(* struct LengauerTarjan; vertex is a sequence, so a node's dfnum is its   *)
(* place in it.                                                            *)
(***************************************************************************)
EXTENDS ControlFlow

VARIABLES
    graph, root,
    stage,      \* the loop that is running
    lt,         \* LengauerTarjan
    stack,      \* the stack of `dfs`, or of compute_dfs_intervals
    pos,        \* the dfnum of the vertex being processed, or a node
    todo,       \* predecessors or bucket members still to look at
    tin, tout, timer

domVars == <<graph, root, stage, lt, stack, pos, todo, tin, tout, timer>>

At(array, v) == IF v = Nil THEN Nil ELSE array[v]
Filled(g, x) == [v \in NodeIds(g) |-> x]
Identity(g) == [v \in NodeIds(g) |-> v]

NewLt(g) ==
    [dfnum |-> Filled(g, 0), vertex |-> <<>>, parent |-> Filled(g, Nil),
     semi |-> Identity(g), idom |-> Filled(g, Nil), ancestor |-> Filled(g, Nil),
     best |-> Identity(g), bucket |-> Filled(g, <<>>)]

Idle ==
    /\ graph = [count |-> 0, succ |-> <<>>] /\ root = Nil
    /\ stage = "idle"
    /\ lt = <<>> /\ stack = <<>> /\ pos = 0 /\ todo = <<>>
    /\ tin = <<>> /\ tout = <<>> /\ timer = 0

(* compute_dominators(g, r) is called. *)
Begin(g, r) ==
    /\ graph' = g /\ root' = r
    /\ stage' = "dfs"
    /\ lt' = NewLt(g) /\ stack' = <<r>> /\ pos' = 0 /\ todo' = <<>>
    /\ tin' = Filled(g, Nil) /\ tout' = Filled(g, Nil) /\ timer' = 0

-----------------------------------------------------------------------------
(* Phase 1: `dfs` *)

PopNumbered ==
    /\ stage = "dfs" /\ stack # <<>> /\ lt.dfnum[Last(stack)] # 0
    /\ stack' = Front(stack)
    /\ UNCHANGED <<graph, root, stage, lt, pos, todo, tin, tout, timer>>

Number ==
    /\ stage = "dfs" /\ stack # <<>> /\ lt.dfnum[Last(stack)] = 0
    /\ LET v == Last(stack)
           fresh == Keep(graph.succ[v], {w \in NodeIds(graph) \ {v} : lt.dfnum[w] = 0})
       IN  /\ lt' = [lt EXCEPT !.dfnum[v] = Len(lt.vertex) + 1,
                               !.vertex = Append(@, v),
                               !.parent = [w \in NodeIds(graph) |->
                                   IF w \in ToSet(fresh) THEN v ELSE @[w]]]
           /\ stack' = Front(stack) \o fresh
    /\ UNCHANGED <<graph, root, stage, pos, todo, tin, tout, timer>>

(* The vertices are processed by falling dfnum, the root excepted. *)
ToVertex(i) ==
    /\ pos' = i
    /\ IF i > 1
       THEN stage' = "semi" /\ todo' = Predecessors(graph, lt.vertex[i])
       ELSE stage' = "explicit" /\ todo' = <<>>

Numbered ==
    /\ stage = "dfs" /\ stack = <<>>
    /\ ToVertex(Len(lt.vertex))
    /\ UNCHANGED <<graph, root, lt, stack, tin, tout, timer>>

-----------------------------------------------------------------------------
(* Phases 2 and 3.  `eval` compresses the path above v, top down, and then
   answers with best[v]. *)

Semi(v) == lt.dfnum[lt.semi[v]]

(* The nodes `compress` collects in `path`. *)
Compressible(v) == At(lt.ancestor, lt.ancestor[v]) # Nil
Path(v) ==
    LET P[u \in NodeIds(graph)] ==
            IF Compressible(u) THEN {u} \cup P[lt.ancestor[u]] ELSE {}
    IN  P[v]

NewBest(v) ==
    LET B[u \in NodeIds(graph)] ==
            IF ~Compressible(u) THEN lt.best[u]
            ELSE LET above == B[lt.ancestor[u]]
                 IN  IF Semi(above) < Semi(lt.best[u]) THEN above ELSE lt.best[u]
    IN  B[v]

NewAncestor(v) ==
    LET A[u \in NodeIds(graph)] ==
            IF Compressible(u) THEN A[lt.ancestor[u]] ELSE lt.ancestor[u]
    IN  A[v]

Linked(v) == lt.ancestor[v] # Nil

(* lt after `eval` of v, and its answer. *)
Compressed(v) ==
    IF ~Linked(v) THEN lt
    ELSE [lt EXCEPT
             !.best = [u \in NodeIds(graph) |-> IF u \in Path(v) THEN NewBest(u) ELSE @[u]],
             !.ancestor = [u \in NodeIds(graph) |->
                              IF u \in Path(v) THEN NewAncestor(u) ELSE @[u]]]
Eval(v) == IF Linked(v) THEN NewBest(v) ELSE v

(* One predecessor v of vertex w lowers w's semidominator. *)
ScanPredecessor ==
    /\ stage = "semi" /\ todo # <<>>
    /\ todo' = Tail(todo)
    /\ LET v == Head(todo)
           w == lt.vertex[pos]
           u == Eval(v)
       IN  lt' = IF lt.dfnum[v] = 0 THEN lt      \* unreachable from the root
                 ELSE [Compressed(v) EXCEPT
                          !.semi[w] = IF Semi(u) < Semi(w) THEN lt.semi[u] ELSE @]
    /\ UNCHANGED <<graph, root, stage, stack, pos, tin, tout, timer>>

(* w joins the bucket of its semidominator and the forest; the bucket of its
   parent is taken. *)
Link ==
    /\ stage = "semi" /\ todo = <<>>
    /\ LET w == lt.vertex[pos]
           p == lt.parent[w]
           buckets == [lt.bucket EXCEPT ![lt.semi[w]] = Append(@, w)]
       IN  /\ lt' = [lt EXCEPT !.bucket = [buckets EXCEPT ![p] = <<>>],
                               !.ancestor[w] = p]
           /\ todo' = buckets[p]
    /\ stage' = "bucket"
    /\ UNCHANGED <<graph, root, stack, pos, tin, tout, timer>>

EmptyBucket ==
    /\ stage = "bucket" /\ todo # <<>>
    /\ todo' = Tail(todo)
    /\ LET v == Head(todo)
           u == Eval(v)
       IN  lt' = [Compressed(v) EXCEPT
                     !.idom[v] = IF lt.semi[u] = lt.semi[v]
                                 THEN lt.parent[lt.vertex[pos]] ELSE u]
    /\ UNCHANGED <<graph, root, stage, stack, pos, tin, tout, timer>>

NextVertex ==
    /\ stage = "bucket" /\ todo = <<>>
    /\ ToVertex(pos - 1)
    /\ UNCHANGED <<graph, root, lt, stack, tin, tout, timer>>

-----------------------------------------------------------------------------
(* Phase 4: immediate dominators, by rising dfnum.  pos is the last one done. *)

(* Mutant of Explicit: the implicit dominator is taken for the immediate one. *)
ExplicitSkipped ==
    /\ stage = "explicit" /\ pos < Len(lt.vertex)
    /\ pos' = pos + 1
    /\ UNCHANGED <<graph, root, stage, lt, stack, todo, tin, tout, timer>>

Explicit ==
    /\ stage = "explicit" /\ pos < Len(lt.vertex)
    /\ pos' = pos + 1
    /\ LET w == lt.vertex[pos + 1]
       IN  lt' = IF lt.idom[w] = lt.semi[w] THEN lt
                 ELSE [lt EXCEPT !.idom[w] = lt.idom[lt.idom[w]]]
    /\ UNCHANGED <<graph, root, stage, stack, todo, tin, tout, timer>>

(* The root dominates itself, and its numbering starts the intervals. *)
RootDominatesItself ==
    /\ stage = "explicit" /\ pos = Len(lt.vertex)
    /\ lt' = [lt EXCEPT !.idom[root] = root]
    /\ stage' = "intervals"
    /\ tin' = [tin EXCEPT ![root] = 0] /\ timer' = 1
    /\ stack' = <<<<root, 1>>>>
    /\ UNCHANGED <<graph, root, pos, todo, tout>>

-----------------------------------------------------------------------------
(* compute_dfs_intervals *)

Children(v) == Ascending(graph, {w \in NodeIds(graph) \ {root} : lt.idom[w] = v})

EnterChild ==
    /\ stage = "intervals" /\ stack # <<>>
    /\ LET v == Last(stack)[1]
           next == Last(stack)[2]
           under == Append(Front(stack), <<v, next + 1>>)
       IN  /\ next <= Len(Children(v))
           /\ LET c == Children(v)[next]
              IN  IF tin[c] = Nil
                  THEN /\ tin' = [tin EXCEPT ![c] = timer] /\ timer' = timer + 1
                       /\ stack' = Append(under, <<c, 1>>)
                  ELSE stack' = under /\ UNCHANGED <<tin, timer>>
    /\ UNCHANGED <<graph, root, stage, lt, pos, todo, tout>>

LeaveNode ==
    /\ stage = "intervals" /\ stack # <<>>
    /\ LET v == Last(stack)[1]
       IN  /\ Last(stack)[2] > Len(Children(v))
           /\ tout' = [tout EXCEPT ![v] = timer]
    /\ timer' = timer + 1 /\ stack' = Front(stack)
    /\ UNCHANGED <<graph, root, stage, lt, pos, todo, tin>>

IntervalsDone ==
    /\ stage = "intervals" /\ stack = <<>>
    /\ stage' = "tree"
    /\ UNCHANGED <<graph, root, lt, stack, pos, todo, tin, tout, timer>>

DominatorsNext ==
    \/ PopNumbered \/ Number \/ Numbered
    \/ ScanPredecessor \/ Link \/ EmptyBucket \/ NextVertex
    \/ Explicit \/ RootDominatesItself
    \/ EnterChild \/ LeaveNode \/ IntervalsDone

-----------------------------------------------------------------------------
(* struct DominatorTree and its questions *)

DominatorTree ==
    [root |-> root, idom |-> lt.idom, tin |-> tin, tout |-> tout,
     predecessors |-> [v \in NodeIds(graph) |-> Predecessors(graph, v)]]

Dominates(t, a, b) ==
    \/ a = b
    \/ t.tin[a] # Nil /\ t.tin[b] # Nil /\ t.tin[a] <= t.tin[b] /\ t.tout[b] <= t.tout[a]
IsReachable(t, v) == t.tin[v] # Nil

(* None for the root; Nil also where the code hands out the sentinel. *)
ImmediateDominator(t, v) == IF v = t.root THEN Nil ELSE t.idom[v]

-----------------------------------------------------------------------------
(* compute_dominance_frontiers, with the predecessors the tree has cached *)

(* The nodes a walk up the tree from predecessor p of v passes before it meets
   v's immediate dominator. *)
Runners(t, v, p) ==
    LET stop == ImmediateDominator(t, v)
        R[k \in 0 .. Cardinality(DOMAIN t.idom)] ==
            IF k = 0 THEN {p} \ {stop}
            ELSE R[k - 1] \cup ({t.idom[u] : u \in R[k - 1] \ {t.root}} \ {stop, Nil})
    IN  R[Cardinality(DOMAIN t.idom)]

(* Mutant of FrontierHolders: the walk stops below the root. *)
FrontierHoldersRootless(t, v) ==
    LET preds == t.predecessors[v]
    IN  IF Len(preds) < 2 THEN {}
        ELSE (UNION {Runners(t, v, p) : p \in ToSet(preds)}) \ {t.root}

(* The nodes in whose frontier v is: a node is a join with two edges into it. *)
FrontierHolders(t, v) ==
    LET preds == t.predecessors[v]
    IN  IF Len(preds) < 2 THEN {}
        ELSE UNION {Runners(t, v, p) : p \in ToSet(preds)}

-----------------------------------------------------------------------------
(* The tree answers for paths.  What `dominates` says by comparing two pairs of
   numbers is that every path from the root to b goes through a, for every
   reachable b; it counts exactly the nodes a path enters as reachable; and the
   immediate dominator is the strict dominator all others dominate. *)
DominatorsAreExact ==
    stage = "tree" =>
        LET behind == Behind(graph, root)
            reach == ReachableFrom(graph, root)
            t == DominatorTree
        IN  /\ \A v \in NodeIds(graph) : IsReachable(t, v) <=> v \in reach
            /\ \A a, b \in NodeIds(graph) : Dominates(t, a, b) <=> a = b \/ b \in behind[a]
            /\ \A v \in reach \ {root} :
                  LET strict == {a \in NodeIds(graph) \ {v} : v \in behind[a]}
                  IN  /\ ImmediateDominator(t, v) \in strict
                      /\ \A a \in strict : ImmediateDominator(t, v) \in behind[a]
=============================================================================
