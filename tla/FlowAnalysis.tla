----------------------------- MODULE FlowAnalysis -----------------------------
(***************************************************************************)
(* The analyses of a function's control flow, in the order the code calls  *)
(* them.  All start from the exception-aware graph (EhCfg::from_ssa) and   *)
(* build a dominator tree:                                                 *)
(*                                                                         *)
(*   "dominance"     EhDominance::with_frontiers: a tree of that graph, a  *)
(*                   tree of the terminators alone, the frontiers;         *)
(*   "dependence"    ReverseGraph::control_dependences: a tree of the      *)
(*                   reversed graph, its frontiers;                        *)
(*   "canonicalize"  passes/loopcanon.rs: rounds of loop detection, each   *)
(*                   of which splices preheaders and latches.              *)
(***************************************************************************)
EXTENDS ExceptionFlow, LoopForest

CONSTANTS Questions,    \* pairs of a purpose and a function
          MaxRounds     \* MAX_CANONICALIZATION_ROUNDS

ASSUME QuestionsAssumption ==
    \A q \in Questions :
        q[1] \in {"dominance", "dependence", "canonicalize"} /\ IsFunction(q[2])

VARIABLES
    purpose, given, \* what is asked, and of which function
    step,           \* the call that is running
    tree, normal,   \* EhDominance
    frontiers,
    phis,           \* for each block, the operands of its phi
    round, forest, loops, modified  \* locals of canonicalize_loops

resultVars == <<tree, normal, frontiers>>
canonVars == <<phis, round, forest, loops, modified>>
asked == <<purpose, given>>
vars == <<ehVars, domVars, asked, step, resultVars, canonVars>>

(* Every block that two others enter has a phi; an operand's value is named by
   the block it came from when the function was built. *)
Phis(f) ==
    [b \in NodeIds(f) |->
        LET preds == PredecessorSet(SsaCfg(f), b)
        IN  IF Cardinality(preds) < 2 THEN {} ELSE {[pred |-> p, value |-> p] : p \in preds}]

Init ==
    /\ \E q \in Questions : purpose = q[1] /\ given = q[2]
    /\ function = given
    /\ eh = NewEh(function)
    /\ Idle
    /\ step = "attach"
    /\ tree = <<>> /\ normal = <<>> /\ frontiers = <<>>
    /\ phis = Phis(function)
    /\ round = 0 /\ forest = <<>> /\ loops = <<>> /\ modified = FALSE

-----------------------------------------------------------------------------
AttachRoots ==
    /\ step = "attach" /\ AttachNext
    /\ UNCHANGED <<domVars, asked, step, resultVars, canonVars>>

GraphBuilt ==
    /\ step = "attach" /\ Attached
    /\ IF purpose = "dependence"
       THEN Begin(ReverseGraph(EhCfg), VirtualExit(EhCfg))
       ELSE Begin(EhCfg, 0)
    /\ step' = "tree"
    /\ UNCHANGED <<ehVars, asked, resultVars, canonVars>>

BuildTree ==
    /\ step \in {"tree", "normal"} /\ DominatorsNext
    /\ UNCHANGED <<ehVars, asked, step, resultVars, canonVars>>

-----------------------------------------------------------------------------
(* EhDominance::build and control_dependences *)

TreeBuilt ==
    /\ step = "tree" /\ stage = "tree" /\ purpose # "canonicalize"
    /\ tree' = DominatorTree
    /\ IF purpose = "dominance"
       THEN step' = "normal" /\ Begin(SsaCfg(function), 0)
       ELSE step' = "frontiers" /\ UNCHANGED domVars
    /\ frontiers' = <<>>
    /\ UNCHANGED <<ehVars, asked, normal, canonVars>>

NormalTreeBuilt ==
    /\ step = "normal" /\ stage = "tree"
    /\ normal' = DominatorTree
    /\ step' = "frontiers"
    /\ UNCHANGED <<ehVars, domVars, asked, tree, frontiers, canonVars>>

(* compute_dominance_frontiers, one node: frontiers[v + 1] holds the nodes that
   have v in their frontier. *)
ComputeFrontier ==
    /\ step = "frontiers"
    /\ frontiers' = Append(frontiers, FrontierHolders(tree, Len(frontiers)))
    /\ step' = IF Len(frontiers') = Cardinality(DOMAIN tree.idom) THEN "answer" ELSE step
    /\ UNCHANGED <<ehVars, domVars, asked, tree, normal, canonVars>>

InFrontierOf(n, m) == n \in frontiers[m + 1]

ExceptionReachable ==
    {b \in NodeIds(function) : IsReachable(tree, b) /\ ~IsReachable(normal, b)}

(* Mutant of DefinitionReaches: the edge to a handler is taken for proof that the
   block it leaves ran to its end. *)
DefinitionReachesHandlers(block, atInstruction, use) == Dominates(tree, block, use)

(* EhDominance::definition_reaches: a definition by a phi or a parameter has no
   instruction. *)
DefinitionReaches(block, atInstruction, use) ==
    /\ Dominates(tree, block, use)
    /\ ~(atInstruction /\ block \in EdgeSources /\ use \in ExceptionReachable)

(* PostDominatorTree; the virtual exit is no block. *)
PostDominates(a, b) == Dominates(tree, a, b)
ImmediatePostDominator(v) ==
    LET i == ImmediateDominator(tree, v)
    IN  IF i = VirtualExit(function) THEN Nil ELSE i

-----------------------------------------------------------------------------
(* canonicalize_loops *)

IsRuntimeEntry(b) ==
    \E c \in ToSet(function.clauses) : b \in ToSet(c.entries)

(* A round finds the loops of the current code.  The forest, like the
   predecessor lists, stays as it is while the round changes the code. *)
BeginRound ==
    /\ step = "tree" /\ stage = "tree" /\ purpose = "canonicalize"
    /\ forest' \in Forests(EhCfg, DominatorTree)
    /\ loops' = ByDepthDescending(forest')
    /\ step' = IF loops' = <<>> THEN "answer" ELSE "round"
    /\ round' = round + 1 /\ modified' = FALSE
    /\ UNCHANGED <<ehVars, domVars, asked, resultVars, phis>>

(* get_non_loop_predecessors, from the graph the round began with: no edge of
   the exception table enters a block that is not a runtime entry. *)
NonLoopPredecessors(h) == PredecessorSet(graph, h) \ forest[h].body

(* Mutant of Splice: the first value that comes in stands for all of them. *)
SpliceFirstValue(h, preds) ==
    LET n == function.count
        Redirected(t) == IF t = h THEN n ELSE t
        operands == {o \in phis[h] : o.pred \in preds}
        merged == (CHOOSE o \in operands : TRUE).value
    IN  /\ function' = [function EXCEPT
              !.count = n + 1,
              !.targets = [b \in 0 .. n |->
                  CASE b = n -> <<h>>
                    [] b \in preds -> [k \in DOMAIN @[b] |-> Redirected(@[b][k])]
                    [] OTHER -> @[b]]]
        /\ phis' = [b \in 0 .. n |->
              CASE b = n -> {}
                [] b = h /\ operands # {} ->
                      (phis[h] \ operands) \cup {[pred |-> n, value |-> merged]}
                [] OTHER -> phis[b]]

(* insert_preheader and unify_latches: a new block n takes the edges from preds
   to h, merges the values they bring, and jumps to h. *)
Splice(h, preds) ==
    LET n == function.count
        Redirected(t) == IF t = h THEN n ELSE t
        operands == {o \in phis[h] : o.pred \in preds}
        merged == IF Cardinality(operands) = 1 THEN (CHOOSE o \in operands : TRUE).value ELSE n
    IN  /\ function' = [function EXCEPT
              !.count = n + 1,
              !.targets = [b \in 0 .. n |->
                  CASE b = n -> <<h>>
                    [] b \in preds -> [k \in DOMAIN @[b] |-> Redirected(@[b][k])]
                    [] OTHER -> @[b]]]
        /\ phis' = [b \in 0 .. n |->
              CASE b = n -> IF Cardinality(operands) > 1 THEN operands ELSE {}
                [] b = h /\ operands # {} ->
                      (phis[h] \ operands) \cup {[pred |-> n, value |-> merged]}
                [] OTHER -> phis[b]]

NeedsPreheader(h) ==
    /\ ~IsRuntimeEntry(h)
    /\ forest[h].preheader = Nil /\ Cardinality(NonLoopPredecessors(h)) > 1

Looping(h) == step = "round" /\ loops # <<>> /\ h = Head(loops)

Spliced ==
    /\ loops' = Tail(loops) /\ modified' = TRUE
    /\ UNCHANGED <<eh, domVars, asked, step, resultVars, round, forest>>

InsertPreheader ==
    \E h \in DOMAIN forest :
        /\ Looping(h) /\ NeedsPreheader(h)
        /\ Splice(h, NonLoopPredecessors(h))
        /\ Spliced

UnifyLatches ==
    \E h \in DOMAIN forest :
        /\ Looping(h) /\ ~IsRuntimeEntry(h) /\ ~NeedsPreheader(h)
        /\ Len(forest[h].latches) > 1
        /\ Splice(h, ToSet(forest[h].latches))
        /\ Spliced

LeaveLoop ==
    \E h \in DOMAIN forest :
        /\ Looping(h)
        /\ IsRuntimeEntry(h) \/ (~NeedsPreheader(h) /\ Len(forest[h].latches) <= 1)
        /\ loops' = Tail(loops)
        /\ UNCHANGED <<ehVars, domVars, asked, step, resultVars, phis, round, forest, modified>>

(* Mutant of EndRound: one round is taken to be enough. *)
EndOnlyRound ==
    /\ step = "round" /\ loops = <<>>
    /\ step' = "answer" /\ eh' = NewEh(function)
    /\ forest' = <<>>
    /\ UNCHANGED <<function, domVars, asked, resultVars, phis, round, loops, modified>>

EndRound ==
    /\ step = "round" /\ loops = <<>>
    /\ IF modified /\ round < MaxRounds
       THEN step' = "attach" /\ eh' = NewEh(function)
       ELSE step' = "answer" /\ UNCHANGED eh
    /\ forest' = <<>>
    /\ UNCHANGED <<function, domVars, asked, resultVars, phis, round, loops, modified>>

Next ==
    \/ AttachRoots \/ GraphBuilt \/ BuildTree
    \/ TreeBuilt \/ NormalTreeBuilt \/ ComputeFrontier
    \/ BeginRound \/ InsertPreheader \/ UnifyLatches \/ LeaveLoop \/ EndRound

Spec == Init /\ [][Next]_vars

-----------------------------------------------------------------------------
(* The frontier of n holds m when n dominates a predecessor of m and does not
   strictly dominate m.  A root with a single predecessor is left out: the code
   calls a node a join when it has two predecessors, and entering the function
   is not counted as one. *)
FrontiersAreExact ==
    step = "answer" /\ purpose = "dominance" =>
        LET g == EhCfg
            behind == Behind(g, 0)
        IN  \A m \in NodeIds(g) : Len(Predecessors(g, m)) >= 2 \/ m # 0 =>
                \A n \in ReachableFrom(g, 0) :
                    InFrontierOf(n, m) <=> /\ \E p \in PredecessorSet(g, m) : p \in behind[n]
                                           /\ n = m \/ m \notin behind[n]

(* The runtime may enter a handler from the middle of any block of the region
   it protects.  Two nodes stand for a block: control enters 2b and, when no
   instruction throws, completes 2b + 1. *)
Catchers(f, b) ==
    Keep(FlattenSeq([i \in DOMAIN f.clauses |->
                        IF b \in Region(f, f.clauses[i]) THEN f.clauses[i].entries ELSE <<>>]),
         NodeIds(f))

ThrowingFlow(f) ==
    LET Entering(blocks) == [k \in DOMAIN blocks |-> 2 * blocks[k]]
    IN  [count |-> 2 * f.count,
         succ |-> [v \in 0 .. 2 * f.count - 1 |->
                     IF v % 2 = 0 THEN <<v + 1>> \o Entering(Catchers(f, v \div 2))
                     ELSE Entering(SsaCfg(f).succ[v \div 2])]]

(* The value a block defines, by a phi or at an instruction, has been computed
   whenever control enters `use`. *)
IsComputed(f, block, atInstruction, use) ==
    LET point == IF atInstruction THEN 2 * block + 1 ELSE 2 * block
    IN  2 * use \notin ReachableAvoiding(ThrowingFlow(f), {0}, {point})

(* A protected region is entered through its guard, by a terminator or by an
   exception, the guard's terminator does not lead into the handler, and no two
   clauses share one. *)
EnteredByItsGuard(f, clause) ==
    LET region == Region(f, clause)
    IN  /\ 0 \in region => clause.start = 0
        /\ \A b \in NodeIds(f) \ region :
              (SuccessorSet(SsaCfg(f), b) \cup ToSet(Catchers(f, b))) \cap region
                  \subseteq {clause.start}
        /\ clause.start \in region =>
              SuccessorSet(SsaCfg(f), clause.start) \cap ToSet(clause.entries) = {}

HandlersAreOwn(f) ==
    \A i, j \in DOMAIN f.clauses :
        i # j => ToSet(f.clauses[i].entries) \cap ToSet(f.clauses[j].entries) = {}

(* definition_reaches, where it is asked about the exceptional part of a
   function: a value it lets a pass use at the top of another block has been
   computed there, wherever in its region the exception was thrown.  Of the join
   a handler leads back to the code does not claim as much: it models no
   partially executed region (definition_is_well_formed). *)
HandlersUseComputedValues ==
    step = "answer" /\ purpose = "dominance"
        /\ HandlersAreOwn(function)
        /\ (\A c \in ToSet(function.clauses) : EnteredByItsGuard(function, c))
    => \A use \in ExceptionReachable : \A b \in NodeIds(function) \ {use}, i \in BOOLEAN :
          DefinitionReaches(b, i, use) => IsComputed(function, b, i, use)

(* Where control ends: a block without successors, or, of a region it never
   leaves again, the lowest block. *)
Ends(g) ==
    LET reach == [v \in NodeIds(g) |-> ReachableFrom(g, v)]
    IN  {v \in NodeIds(g) : \A w \in reach[v] : v \in reach[w] /\ v <= w}

(* Post-dominance is total and means what it says: a post-dominates b when
   control cannot end from b without a, whether it ends in an exit or in an
   endless region; and b is control dependent on a when one way out of a makes b
   certain and another does not. *)
PostDominanceIsExact ==
    step = "answer" /\ purpose = "dependence" =>
        LET g == EhCfg
            ends == Ends(g)
            certain == [a \in NodeIds(g) |->
                {a} \cup {b \in NodeIds(g) : ReachableAvoiding(g, {b}, {a}) \cap ends = {}}]
            Splits(a) == Len(g.succ[a]) > 1 \/ (a \in ends /\ g.succ[a] # <<>>)
        IN  /\ \A a, b \in NodeIds(g) : PostDominates(a, b) <=> b \in certain[a]
            /\ \A v \in NodeIds(g) :
                  ImmediatePostDominator(v) = Nil
                      <=> \A a \in NodeIds(g) \ {v} : v \notin certain[a]
            /\ \A a, b \in NodeIds(g) :
                  InFrontierOf(b, a) <=> /\ Splits(a)
                                         /\ SuccessorSet(g, a) \cap certain[b] # {}
                                         /\ a = b \/ a \notin certain[b]

(* What the loops of a forest are.  A header is entered from a block it is on
   every path to; its loop is what a path inside the region it dominates can
   still return from; the loops around a block are nested, the innermost one
   and the depths say how; and a loop's type says which block one has to pass
   to get out of it. *)
AreLoopsOf(g, found) ==
    LET reach == ReachableFrom(g, 0)
        behind == Behind(g, 0)
        NaturalLoop(h) ==
            {n \in behind[h] : h \in ReachableAvoiding(g, {n}, NodeIds(g) \ behind[h])}
        Around(b) == {h \in DOMAIN found : b \in found[h].body}
        Body(h) == found[h].body \cap reach
    IN  /\ DOMAIN found \cap reach
               = {h \in reach : \E n \in reach : h \in SuccessorSet(g, n) /\ n \in behind[h]}
        /\ \A h \in DOMAIN found \cap reach :
              /\ Body(h) = NaturalLoop(h)
              /\ found[h].depth = Cardinality(Around(h)) - 1
              /\ found[h].type = "Infinite" => ReachableFrom(g, h) \subseteq Body(h)
              /\ found[h].type = "PostTested" =>
                     ReachableAvoiding(g, {h}, {found[h].latches[1]}) \subseteq Body(h)
              /\ found[h].type = "PreTested" =>
                     ReachableAvoiding(g, SuccessorSet(g, h) \cap Body(h), {h}) \subseteq Body(h)
        /\ \A b \in reach :
              IF Around(b) = {} THEN InnermostLoop(found, b) = Nil
              ELSE /\ InnermostLoop(found, b) \in Around(b)
                   /\ \A h \in Around(b) : Body(InnermostLoop(found, b)) \subseteq Body(h)

LoopsAreExact == step = "round" => AreLoopsOf(graph, forest)

(* The pass delivers what LICM and the induction analysis ask for: when it
   stops, below its cap, every loop whose header the runtime does not enter has
   one latch edge and at most one block that enters it from outside. *)
LoopsAreCanonical ==
    step = "answer" /\ purpose = "canonicalize" =>
        LET g == EhCfg
            behind == Behind(g, 0)
        IN  /\ round < MaxRounds
            /\ \A h \in NodeIds(g) \ {b \in NodeIds(g) : IsRuntimeEntry(b)} :
                  LET back == Keep(Predecessors(g, h), behind[h])
                  IN  back # <<>> => /\ Len(back) = 1
                                     /\ Cardinality(PredecessorSet(g, h) \ behind[h]) <= 1

(* The blocks an edge of the given function now leads through, up to the first
   block that function had; and the value its phi receives along them. *)
Route(p, t) ==
    LET R[k \in 0 .. function.count] ==
            IF k = 0 THEN <<p, t>>
            ELSE IF Last(R[k - 1]) < given.count THEN R[k - 1]
                 ELSE Append(R[k - 1], function.targets[Last(R[k - 1])][1])
    IN  R[function.count]

Received(route) ==
    LET V[i \in 2 .. Len(route)] ==
            LET values == {o.value : o \in {x \in phis[route[i]] : x.pred = route[i - 1]}}
            IN  UNION {IF v < given.count THEN {v}
                       ELSE UNION {V[j] : j \in {x \in 2 .. i - 1 : route[x] = v}} : v \in values}
    IN  V[Len(route)]

(* Splicing keeps the function's meaning.  Every edge the function had, a target
   it does not have being none, still ends in the same block, with nothing but
   spliced blocks on the way; the phi there receives, through the merging phis of
   those blocks, the one value it received before; and no phi names a block that
   does not enter its own. *)
RoutesAreKept ==
    purpose = "canonicalize" =>
        /\ \A p \in NodeIds(given) : \A k \in DOMAIN given.targets[p] :
              LET route == Route(p, function.targets[p][k])
              IN  given.targets[p][k] \in NodeIds(given) =>
                  /\ Last(route) = given.targets[p][k]
                  /\ Phis(given)[Last(route)] # {} => Received(route) = {p}
        /\ \A b \in NodeIds(function) : \A o \in phis[b] :
              o.pred \in PredecessorSet(SsaCfg(function), b)
=============================================================================
