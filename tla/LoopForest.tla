------------------------------ MODULE LoopForest ------------------------------
(***************************************************************************)
(* analysis/loops.rs: the natural loops of a graph, found from a dominator *)
(* tree (`detect_loops`), and how they nest (LoopForest).  A forest maps   *)
(* each header to its loop.                                                *)
(***************************************************************************)
EXTENDS Dominators

(* A back edge enters a node that dominates its source. *)
Headers(g, t) ==
    {h \in NodeIds(g) : \E n \in PredecessorSet(g, h) : Dominates(t, h, n)}

(* One latch per back edge, sources ascending. *)
Latches(g, t, h) == Keep(Predecessors(g, h), {n \in NodeIds(g) : Dominates(t, h, n)})

(* Mutant of LoopBody: only the first latch's part of the body is found. *)
LoopBodyFirstLatch(g, t, h) ==
    {h} \cup ReachableAvoiding(Backward(g), {Latches(g, t, h)[1]}, {h})

(* expand_loop_body, from every latch. *)
LoopBody(g, t, h) ==
    {h} \cup ReachableAvoiding(Backward(g), ToSet(Latches(g, t, h)), {h})

(* compute_preheader: the blocks are counted, not the edges. *)
Preheader(g, h, body) ==
    LET outside == PredecessorSet(g, h) \ body
    IN  IF Cardinality(outside) = 1 THEN CHOOSE p \in outside : TRUE ELSE Nil

ExitEdges(g, body) == {e \in body \X NodeIds(g) : e[2] \in SuccessorSet(g, e[1]) \ body}

(* classify_loop *)
LoopType(h, latches, exits) ==
    LET AllLeaveFrom(b) == \A e \in exits : e[1] = b
    IN  CASE exits = {} -> "Infinite"
          [] exits # {} /\ Len(latches) > 1 -> "Complex"
          [] exits # {} /\ Len(latches) = 1 /\ AllLeaveFrom(latches[1]) -> "PostTested"
          [] exits # {} /\ Len(latches) = 1 /\ ~AllLeaveFrom(latches[1]) ->
                IF AllLeaveFrom(h) THEN "PreTested" ELSE "Complex"

LoopInfo(g, t, h) ==
    LET body == LoopBody(g, t, h)
    IN  [latches |-> Latches(g, t, h), body |-> body,
         preheader |-> Preheader(g, h, body), exits |-> ExitEdges(g, body),
         type |-> LoopType(h, Latches(g, t, h), ExitEdges(g, body))]

(* compute_nesting: the parent is a smallest loop around the header.  Which one,
   among several of the same size, follows the order of a hash map. *)
Parents(loops, h) ==
    LET around == {k \in DOMAIN loops \ {h} : h \in loops[k].body}
        Size(k) == Cardinality(loops[k].body)
    IN  IF around = {} THEN {Nil}
        ELSE {k \in around : \A j \in around : Size(k) <= Size(j)}

Depth(parent, h) ==
    LET D[k \in DOMAIN parent] == IF parent[k] = Nil THEN 0 ELSE D[parent[k]] + 1
    IN  D[h]

(* The forests detect_loops may return. *)
Forests(g, t) ==
    LET loops == [h \in Headers(g, t) |-> LoopInfo(g, t, h)]
        Nestings == {p \in [DOMAIN loops -> DOMAIN loops \cup {Nil}] :
                        \A h \in DOMAIN loops : p[h] \in Parents(loops, h)}
        Nested(loop, parent, depth) ==
            [latches |-> loop.latches, body |-> loop.body, preheader |-> loop.preheader,
             exits |-> loop.exits, type |-> loop.type, parent |-> parent, depth |-> depth]
    IN  {[h \in DOMAIN loops |-> Nested(loops[h], p[h], Depth(p, h))] : p \in Nestings}

(* LoopForest::add_loop, header by header: the deepest loop keeps a block, the
   first of equally deep ones. *)
InnermostLoop(forest, b) ==
    LET around == {h \in DOMAIN forest : b \in forest[h].body}
        Before(h, k) == \/ forest[h].depth > forest[k].depth
                        \/ forest[h].depth = forest[k].depth /\ h <= k
    IN  IF around = {} THEN Nil ELSE CHOOSE h \in around : \A k \in around : Before(h, k)

(* by_depth_descending: a stable sort of loops that are in header order. *)
ByDepthDescending(forest) ==
    SetToSortSeq(DOMAIN forest,
                 LAMBDA h, k : \/ forest[h].depth > forest[k].depth
                               \/ forest[h].depth = forest[k].depth /\ h < k)
=============================================================================
