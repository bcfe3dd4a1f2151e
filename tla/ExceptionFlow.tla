---------------------------- MODULE ExceptionFlow ----------------------------
(***************************************************************************)
(* analysis/exceptions.rs: where control can enter a function without a    *)
(* terminator naming the block (FunctionRoots), and the graph in which     *)
(* every such root hangs from the block that guards it (EhCfg::new).  One  *)
(* step takes one block from the worklist, or attaches one root that no    *)
(* reachable guard protects to the entry.                                  *)
(*                                                                         *)
(* A function is a record: count blocks, the terminators' targets, and the *)
(* clauses of its exception table, each the protected range start .. end-1 *)
(* and the entries of its handler and filter.                              *)
(***************************************************************************)
EXTENDS ControlFlow

VARIABLES
    function,   \* the SsaFunction
    eh          \* the locals of EhCfg::new

ehVars == <<function, eh>>

(* What a function is: it has an entry, block 0, and its terminators and its
   exception table name blocks by their numbers, also blocks it does not have. *)
IsFunction(f) ==
    /\ {"count", "targets", "clauses"} \subseteq DOMAIN f
    /\ f.count \in Nat \ {0}
    /\ f.targets \in [NodeIds(f) -> Seq(Nat)]
    /\ f.clauses \in Seq([start : Nat, end : Nat, entries : Seq(Nat)])

-----------------------------------------------------------------------------
(* FunctionRoots::of *)

Region(f, clause) == {b \in NodeIds(f) : clause.start <= b /\ b < clause.end}
Guard(f, clause) == IF clause.start < f.count THEN clause.start ELSE Nil

ClauseRoots(f, clause) ==
    [k \in DOMAIN clause.entries |->
        [block |-> clause.entries[k], guard |-> Guard(f, clause),
         region |-> IF Guard(f, clause) = Nil THEN {} ELSE Region(f, clause)]]

(* The first clause that names a block makes it a root. *)
FlowRoots(f) ==
    LET Known(roots, root) == \E r \in ToSet(roots) : r.block = root.block
        Add(roots, root) ==
            IF root.block >= f.count \/ Known(roots, root) THEN roots
            ELSE Append(roots, root)
    IN  FoldLeft(Add, <<>>,
                 FlattenSeq([i \in DOMAIN f.clauses |-> ClauseRoots(f, f.clauses[i])]))

-----------------------------------------------------------------------------
(* EhCfg::new *)

Reach(x, b) ==
    IF b \in x.reachable THEN x
    ELSE [x EXCEPT !.reachable = @ \cup {b}, !.worklist = Append(@, b)]

(* `attach`, and what its caller notes: an edge the terminators or an earlier
   root already provide is not added again. *)
AttachRoot(x, from, i) ==
    LET to == FlowRoots(function)[i].block
        known == ToSet(SsaCfg(function).succ[from]) \cup ToSet(x.extra[from])
    IN  Reach([x EXCEPT !.attached = @ \cup {i},
                        !.extra[from] = IF to \in known THEN @ ELSE Append(@, to)], to)

Unattached(x) == DOMAIN FlowRoots(function) \ x.attached

NewEh(f) ==
    [worklist |-> <<0>>, reachable |-> {0}, attached |-> {},
     extra |-> [b \in NodeIds(f) |-> <<>>]]

Expand ==
    /\ eh.worklist # <<>>
    /\ LET block == Head(eh.worklist)
           popped == [eh EXCEPT !.worklist = Tail(@)]
           expanded == FoldLeft(Reach, popped, SsaCfg(function).succ[block])
           roots == FlowRoots(function)
           waiting == Keep([i \in DOMAIN roots |-> i],
                           {i \in Unattached(eh) : roots[i].guard = block})
           Attach(x, i) == AttachRoot(x, block, i)
       IN  eh' = FoldLeft(Attach, expanded, waiting)
    /\ UNCHANGED function

(* Mutant of FallBack: only roots without a guard fall back to the entry. *)
FallBackUnguarded ==
    /\ eh.worklist = <<>>
    /\ \E i \in Unattached(eh) :
          /\ \A j \in Unattached(eh) : i <= j
          /\ eh' = IF FlowRoots(function)[i].guard = Nil THEN AttachRoot(eh, 0, i)
                   ELSE [eh EXCEPT !.attached = @ \cup {i}]
    /\ UNCHANGED function

FallBack ==
    /\ eh.worklist = <<>>
    /\ \E i \in Unattached(eh) :
          /\ \A j \in Unattached(eh) : i <= j
          /\ eh' = AttachRoot(eh, 0, i)
    /\ UNCHANGED function

Attached == eh.worklist = <<>> /\ Unattached(eh) = {}

AttachNext == Expand \/ FallBack

(* The graph the view presents, and the tails of the edges it adds. *)
EhCfg ==
    [count |-> function.count,
     succ |-> [b \in NodeIds(function) |-> SsaCfg(function).succ[b] \o eh.extra[b]]]
EdgeSources == {b \in NodeIds(function) : eh.extra[b] # <<>>}

-----------------------------------------------------------------------------
(* Every root can be reached from the entry, and the traversal that attached
   them saw exactly what can be; a root whose guard runs without any exception
   hangs from that guard, every other one from its guard or the entry. *)
RootsAreReachable ==
    Attached /\ DOMAIN eh.extra = NodeIds(function) =>
        LET reach == ReachableFrom(EhCfg, 0)
        IN  /\ \A r \in ToSet(FlowRoots(function)) :
                  /\ r.block \in reach
                  /\ r.guard \in ReachableFrom(SsaCfg(function), 0) =>
                         r.block \in SuccessorSet(EhCfg, r.guard)
            /\ eh.reachable = reach
=============================================================================
