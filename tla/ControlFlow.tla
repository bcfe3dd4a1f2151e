----------------------------- MODULE ControlFlow -----------------------------
(***************************************************************************)
(* The graphs the algorithms of graph/ and analysis/ work on: a number of  *)
(* nodes and, for each, the sequence of its successors, in which a branch  *)
(* with both arms on one block lists that block twice (analysis/cfg.rs).   *)
(* What a path is, and what the algorithms promise about paths, is stated  *)
(* here by reachability and never by one of the algorithms.                *)
(***************************************************************************)
EXTENDS Integers, Sequences, FiniteSets, SequencesExt

Nil == -1       \* None, and the sentinel: an index no array has

(* The elements of s that are in S, in the order of s.  (Like the sorted rows
   below it is written out and not taken from SelectSeq and SortSeq, of which
   the provers know no definition.) *)
Keep(s, S) ==
    LET K[k \in 0 .. Len(s)] ==
            IF k = 0 THEN <<>> ELSE IF s[k] \in S THEN Append(K[k - 1], s[k]) ELSE K[k - 1]
    IN  K[Len(s)]

NodeIds(g) == 0 .. g.count - 1
Ascending(g, S) == Keep([k \in 1 .. g.count |-> k - 1], S)
SuccessorSet(g, v) == ToSet(g.succ[v])
IsGraph(g) == g.count \in Nat /\ g.succ \in [NodeIds(g) -> Seq(NodeIds(g))]

(* SsaCfg::from_ssa: a target the function does not have is no edge. *)
SsaCfg(f) ==
    [count |-> f.count,
     succ |-> [b \in NodeIds(f) |->
                  Keep(f.targets[b], NodeIds(f))]]

(* The inverse rows: sources ascending, one entry per edge. *)
Predecessors(g, v) ==
    FlattenSeq([k \in 1 .. g.count |->
                   [j \in 1 .. Len(Keep(g.succ[k - 1], {v})) |-> k - 1]])

PredecessorSet(g, v) == {u \in NodeIds(g) : v \in SuccessorSet(g, u)}

Backward(g) == [g EXCEPT !.succ = [v \in NodeIds(g) |-> Predecessors(g, v)]]

(* SsaCfg::exits *)
Exits(g) == {b \in NodeIds(g) : g.succ[b] = <<>>}

(* traversal.rs: postorder.  A node is entered once; its exit waits below its
   successors. *)
Postorder(g, root) ==
    LET Enter(v) == [node |-> v, exit |-> FALSE]
        Visit(x, v) ==
            LET next == Keep(g.succ[v], NodeIds(g) \ (x.visited \cup {v}))
            IN  [x EXCEPT !.visited = @ \cup {v},
                          !.stack = [k \in DOMAIN next |-> Enter(next[k])]
                                    \o <<[node |-> v, exit |-> TRUE]>> \o Tail(@)]
        Step(x) ==
            IF x.stack = <<>> THEN x
            ELSE IF Head(x.stack).exit
            THEN [x EXCEPT !.order = Append(@, Head(x.stack).node), !.stack = Tail(@)]
            ELSE IF Head(x.stack).node \in x.visited THEN [x EXCEPT !.stack = Tail(@)]
            ELSE Visit(x, Head(x.stack).node)
        steps == 2 * g.count + Len(FlattenSeq([k \in 1 .. g.count |-> g.succ[k - 1]]))
        R[k \in 0 .. steps] ==
            IF k = 0 THEN [stack |-> <<Enter(root)>>, visited |-> {}, order |-> <<>>]
            ELSE Step(R[k - 1])
    IN  R[steps].order

-----------------------------------------------------------------------------
(* Nodes some path from `starts` enters without entering one of `closed`. *)
ReachableAvoiding(g, starts, closed) ==
    LET R[k \in 0 .. g.count] ==
            IF k = 0 THEN starts \ closed
            ELSE R[k - 1] \cup ((UNION {SuccessorSet(g, v) : v \in R[k - 1]}) \ closed)
    IN  R[g.count]

ReachableFrom(g, v) == ReachableAvoiding(g, {v}, {})

(* For every node a, the nodes each path from the root to which enters a. *)
Behind(g, root) ==
    LET reach == ReachableFrom(g, root)
    IN  [a \in NodeIds(g) |-> reach \ ReachableAvoiding(g, {root}, {a})]

SameComponent(g, a, b) == b \in ReachableFrom(g, a) /\ a \in ReachableFrom(g, b)

(* Mutant of ExitSeeds: only the blocks without successors are seeds. *)
ExitSeedsSinks(g) == Exits(g)

(* ReverseGraph::new: the edges reversed, and a virtual exit, numbered one past
   the last node, from which the lowest node of every component nothing leaves
   is entered (strongly_connected_components is the subject of module
   StrongComponents). *)
IsTerminal(g, c) == UNION {SuccessorSet(g, v) : v \in c} \subseteq c
ExitSeeds(g) ==
    {v \in NodeIds(g) :
        LET c == {w \in NodeIds(g) : SameComponent(g, v, w)}
        IN  IsTerminal(g, c) /\ \A w \in c : v <= w}

VirtualExit(g) == g.count

ReverseGraph(g) ==
    [count |-> g.count + 1,
     succ |-> [v \in 0 .. g.count |->
                  IF v = VirtualExit(g) THEN Ascending(g, ExitSeeds(g))
                  ELSE Backward(g).succ[v]]]
=============================================================================
