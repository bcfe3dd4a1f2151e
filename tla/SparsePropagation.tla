-------------------------- MODULE SparsePropagation --------------------------
(***************************************************************************)
(* The sparse conditional propagation of analysis/dataflow/sccp.rs         *)
(* ("constants") and of RangeAnalysis in passes/ranges.rs ("ranges"): a    *)
(* queue of edges found executable and a queue of variables whose fact     *)
(* changed, the edges first.  One step takes one of either.  The two       *)
(* implementations share this machine and differ in their facts, in how a  *)
(* fact is revised, in how the entry is started and in what a branch on an *)
(* unknown condition does.                                                 *)
(***************************************************************************)
EXTENDS SsaCode, TLC

CONSTANTS WidenAfter,   \* WIDEN_AFTER_REVISIONS
          Budget        \* the steps a range analysis may take

ASSUME SparseAssumption == WidenAfter \in Nat /\ Budget \in Nat

VARIABLE sparse         \* ConstantPropagation or RangeAnalysis

Evaluate(s, i) ==
    LET Fact(k) == IF k \in DOMAIN i.args THEN s.facts[i.args[k]] ELSE Top
    IN  IF s.domain = "constants" THEN EvaluateConstant(i.op, i.value, Fact(1), Fact(2))
        ELSE EvaluateRange(i.op, i.value, Fact(1), Fact(2))

(* update_value only goes down its lattice; update_range takes the new range,
   and, once it has been revised often, widens. *)
Revise(s, v, new) ==
    LET old == s.facts[v]
        next == IF s.domain = "constants" THEN MeetConstants(old, new)
                ELSE IF s.revisions[v] = WidenAfter THEN Widen(old, new) ELSE new
    IN  [s EXCEPT !.facts[v] = next,
                  !.revisions[v] = Least(@ + 1, WidenAfter),
                  !.variables = IF next = old THEN @ ELSE Append(@, v)]

(* evaluate_phi: the operands of executable edges.  A constant does not
   survive a back edge. *)
EvaluatePhi(s, phi, b) ==
    LET executable == Keep(phi.operands, {o \in ToSet(phi.operands) : <<o.pred, b>> \in s.edges})
        Fact(o) == IF <<o.pred, b>> \in s.back THEN Bottom ELSE s.facts[o.value]
        facts == [k \in DOMAIN executable |-> Fact(executable[k])]
    IN  IF executable = <<>> THEN Top
        ELSE IF s.domain = "constants" THEN FoldLeft(MeetConstants, Top, facts)
        ELSE FoldLeft(JoinRanges, Bottom, facts)

RevisePhi(s, phi, b) == Revise(s, phi.result, EvaluatePhi(s, phi, b))

(* update_instruction_defs *)
ReviseDefinition(s, i) == IF i.dest = Nil THEN s ELSE Revise(s, i.dest, Evaluate(s, i))

ProcessDefinitions(s, f, b) == FoldLeft(ReviseDefinition, s, f.body[b])

-----------------------------------------------------------------------------
(* propagate_outgoing_edges *)

SwitchTarget(targets, index) ==
    IF index >= 0 /\ index + 1 < Len(targets) THEN targets[index + 1] ELSE Last(targets)

(* The edges a branch may take.  A condition of which a range analysis knows
   nothing adds none, like one a constant analysis has not evaluated yet. *)
BranchTargets(s, fact, targets) ==
    IF IsConstant(fact) THEN <<targets[IF ValueOf(fact) # 0 THEN 1 ELSE 2]>>
    ELSE CASE fact = Top -> <<>>
           [] fact = Bottom -> IF s.domain = "constants" THEN targets ELSE <<targets[2]>>
           [] OTHER -> IF MinOf(fact) > 0 THEN <<targets[1]>> ELSE targets

ChosenTargets(s, t) ==
    CASE t.op = "branch" -> BranchTargets(s, s.facts[t.args[1]], t.targets)
      [] t.op = "switch" ->
            LET fact == s.facts[t.args[1]]
                known == IsConstant(fact) /\ (s.domain = "ranges" => ValueOf(fact) >= 0)
            IN  IF known THEN <<SwitchTarget(t.targets, ValueOf(fact))>> ELSE t.targets
      [] OTHER -> t.targets

(* add_cfg_edge *)
AddEdges(s, b, targets) ==
    LET edges == [k \in DOMAIN targets |-> <<b, targets[k]>>]
    IN  [s EXCEPT !.flow = @ \o Keep(edges, ToSet(edges) \ s.edges)]

PropagateOutgoing(s, f, b) == AddEdges(s, b, ChosenTargets(s, Terminator(f, b)))

-----------------------------------------------------------------------------
(* initialize: sccp.rs knows nothing of a variable but that an argument no
   instruction defines may be anything, and lets the entry's terminator choose;
   ranges.rs takes every edge that leaves the entry. *)
UnknownInputs(f) == f.initial.arguments \ UNION {Dests(f, b) : b \in NodeIds(f)}

NewSparse(domain, f, g) ==
    LET start == [domain |-> domain, edges |-> {}, blocks |-> {0}, back |-> {},
                  variables |-> <<>>, flow |-> <<>>, steps |-> 0, done |-> FALSE,
                  revisions |-> [v \in Variables(f) |-> 0],
                  facts |-> [v \in Variables(f) |->
                      IF domain = "constants" /\ v \in UnknownInputs(f) THEN Bottom ELSE Top]]
    IN  IF domain = "constants"
        THEN PropagateOutgoing(ProcessDefinitions(start, f, 0), f, 0)
        ELSE ProcessDefinitions(AddEdges(start, 0, g.succ[0]), f, 0)

(* process_edge, for an edge that was not executable before *)
ProcessEdge(s, f, from, to) ==
    LET first == to \notin s.blocks
        entered == IF first THEN ProcessDefinitions([s EXCEPT !.blocks = @ \cup {to}], f, to) ELSE s
        phis == Keep(f.phis[to], {phi \in ToSet(f.phis[to]) : OperandsFrom(phi, from) # {}})
        Join(x, phi) == RevisePhi(x, phi, to)
        joined == FoldLeft(Join, entered, phis)
    IN  IF first THEN PropagateOutgoing(joined, f, to) ELSE joined

(* Mutant of ProcessUse: the phis a variable flows into wait for an edge. *)
ProcessUseNotPhis(s, f, site) ==
    IF site.block \notin s.blocks \/ site.isPhi THEN s
    ELSE LET i == f.body[site.block][site.index]
             revised == ReviseDefinition(s, i)
         IN  IF IsTerminator(i) THEN PropagateOutgoing(revised, f, site.block) ELSE revised

(* process_variable_uses, one use *)
ProcessUse(s, f, site) ==
    IF site.block \notin s.blocks THEN s
    ELSE IF site.isPhi THEN RevisePhi(s, f.phis[site.block][site.index], site.block)
    ELSE LET i == f.body[site.block][site.index]
             revised == ReviseDefinition(s, i)
         IN  IF IsTerminator(i) THEN PropagateOutgoing(revised, f, site.block) ELSE revised

(* Only the range analysis counts its steps; one that has none left proves
   nothing. *)
Exhausted(s) == s.domain = "ranges" /\ s.steps = Budget

Counted(s) == IF s.domain = "ranges" THEN [s EXCEPT !.steps = @ + 1] ELSE s

IsBackEdge(g, edge) == edge[1] \in Behind(g, 0)[edge[2]]

(* propagate: the next edge, or, when there is none, the next variable *)
PropagateEdge(f, g) ==
    /\ ~sparse.done /\ sparse.flow # <<>> /\ ~Exhausted(sparse)
    /\ LET edge == Head(sparse.flow)
           popped == Counted([sparse EXCEPT !.flow = Tail(@)])
           executable == [popped EXCEPT !.edges = @ \cup {edge},
                             !.back = IF sparse.domain = "constants" /\ IsBackEdge(g, edge)
                                      THEN @ \cup {edge} ELSE @]
       IN  sparse' = IF edge \in sparse.edges THEN popped
                     ELSE ProcessEdge(executable, f, edge[1], edge[2])

PropagateVariable(f) ==
    /\ ~sparse.done /\ sparse.flow = <<>> /\ sparse.variables # <<>> /\ ~Exhausted(sparse)
    /\ LET v == Head(sparse.variables)
           popped == Counted([sparse EXCEPT !.variables = Tail(@)])
           Process(s, site) == ProcessUse(s, f, site)
       IN  sparse' = FoldLeft(Process, popped, UseSites(f, v))

IsConverged == sparse.flow = <<>> /\ sparse.variables = <<>>

PropagateEnd ==
    /\ ~sparse.done /\ (IsConverged \/ Exhausted(sparse))
    /\ sparse' = [sparse EXCEPT !.done = TRUE]

SparseNext(f, g) == PropagateEdge(f, g) \/ PropagateVariable(f) \/ PropagateEnd
=============================================================================
