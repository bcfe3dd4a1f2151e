--------------------------- MODULE LayerAssignment ---------------------------
(***************************************************************************)
(* PassScheduler::compute_layer_assignment and the grouping that           *)
(* run_pipeline derives from it (scheduling/scheduler.rs).  Passes are     *)
(* 1..N in registration order.  The topological sort (graph/algorithms/    *)
(* topological.rs) that looks for cycles and the relaxation loop are state *)
(* machines, one edge or dependency per step: what the queue holds decides *)
(* the one's answer, its order and its `changed` flag when the other stops.*)
(* Layer numbers are machine integers that saturate at Top.                *)
(***************************************************************************)
EXTENDS Integers, Sequences, FiniteSets

CONSTANTS
    N,            \* number of registered layered passes
    Capability,   \* capabilities the passes declare
    Fallback,     \* layers the passes may be registered at
    Top           \* usize::MAX

Index == 1..N
LayerNo == 0..Top

ASSUME NAssumption == N \in Nat
ASSUME TopAssumption == Top \in Nat
ASSUME FallbackAssumption == Fallback \subseteq LayerNo

VARIABLES
    provides,  \* pass -> capabilities it provides
    requires,  \* pass -> capabilities it requires
    fallback,  \* pass -> its fallback layer
    indegree,  \* topological_sort: pass -> providers still to come before it
    queue,     \*   passes that have none left, first in first out
    sorted,    \*   result so far
    out,       \*   successors of its last pass still to be told
    layer,     \* pass -> its layer so far
    i,         \* the pass that is being queued, or whose dependencies are relaxed
    rest,      \* its dependencies not yet looked at in this sweep
    changed,   \* the sweep moved a pass
    pc         \* "count", "seed", "sort", "relax", "cyclic", "done"

decl == <<provides, requires, fallback>>
sortVars == <<indegree, queue, sorted, out>>
relaxVars == <<layer, rest, changed>>
vars == <<decl, sortVars, relaxVars, i, pc>>

(* A pass depends on every other provider of a capability it requires. *)
Deps(p) == {q \in Index \ {p} : provides[q] \cap requires[p] # {}}

(* graph: one edge provider -> dependent however many capabilities tie the two
   passes; IndexedGraph::add_edge leaves out what is there already. *)
Successors(p) == {q \in Index : p \in Deps(q)}
InDegree(p) == Cardinality(Deps(p))

SaturatingDec(n) == IF n = 0 THEN 0 ELSE n - 1

(* Mutant of SaturatingInc: layer numbers do not saturate. *)
Increment(n) == n + 1

SaturatingInc(n) == IF n = Top THEN Top ELSE n + 1

-----------------------------------------------------------------------------
Init ==
    /\ provides \in [Index -> SUBSET Capability]
    /\ requires \in [Index -> SUBSET Capability]
    /\ fallback \in [Index -> Fallback]
    /\ indegree = [p \in Index |-> 0] /\ queue = <<>> /\ sorted = <<>> /\ out = {}
    /\ layer = fallback
    /\ i = 1 /\ rest = {} /\ changed = FALSE
    /\ pc = "count"

(* Without passes there is nothing to lay out.  Otherwise the edges into every
   pass are counted. *)
Count ==
    /\ pc = "count"
    /\ indegree' = [p \in Index |-> InDegree(p)]
    /\ pc' = IF N = 0 THEN "done" ELSE "seed"
    /\ UNCHANGED <<decl, queue, sorted, out, relaxVars, i>>

(* The passes nothing has to precede, in order. *)
Seed ==
    /\ pc = "seed"
    /\ queue' = IF indegree[i] = 0 THEN Append(queue, i) ELSE queue
    /\ IF i < N THEN i' = i + 1 /\ UNCHANGED pc ELSE i' = 1 /\ pc' = "sort"
    /\ UNCHANGED <<decl, indegree, sorted, out, relaxVars>>

Pop ==
    /\ pc = "sort" /\ out = {} /\ queue # <<>>
    /\ sorted' = Append(sorted, Head(queue))
    /\ queue' = Tail(queue)
    /\ out' = Successors(Head(queue))
    /\ UNCHANGED <<decl, indegree, relaxVars, i, pc>>

(* Mutant of RemoveEdge: a pass is queued with every provider that is out. *)
RemoveEdgeEager ==
    /\ pc = "sort"
    /\ \E q \in out :
          /\ \A r \in out : q <= r
          /\ out' = out \ {q}
          /\ indegree' = [indegree EXCEPT ![q] = SaturatingDec(@)]
          /\ queue' = Append(queue, q)
    /\ UNCHANGED <<decl, sorted, relaxVars, i, pc>>

(* One edge of the pass popped last; successors come in registration order. *)
RemoveEdge ==
    /\ pc = "sort"
    /\ \E q \in out :
          /\ \A r \in out : q <= r
          /\ out' = out \ {q}
          /\ indegree' = [indegree EXCEPT ![q] = SaturatingDec(@)]
          /\ queue' = IF indegree'[q] = 0 THEN Append(queue, q) ELSE queue
    /\ UNCHANGED <<decl, sorted, relaxVars, i, pc>>

(* Mutant of Verdict: the relaxation begins whatever the sort has found. *)
VerdictIgnored ==
    /\ pc = "sort" /\ out = {} /\ queue = <<>>
    /\ pc' = "relax" /\ rest' = Deps(i)
    /\ UNCHANGED <<decl, sortVars, layer, changed, i>>

(* A pass that was not reached is on a cycle or behind one. *)
Verdict ==
    /\ pc = "sort" /\ out = {} /\ queue = <<>>
    /\ IF Len(sorted) = N
       THEN pc' = "relax" /\ rest' = Deps(i)
       ELSE pc' = "cyclic" /\ UNCHANGED rest
    /\ UNCHANGED <<decl, sortVars, layer, changed, i>>

(* Mutant of Relax: the pass is pushed past its own layer, not past its
   dependency's. *)
RelaxFar ==
    /\ pc = "relax"
    /\ \E d \in rest :
          /\ rest' = rest \ {d}
          /\ IF layer[i] <= layer[d]
             THEN /\ layer' = [layer EXCEPT ![i] = SaturatingInc(SaturatingInc(layer[d]))]
                  /\ changed' = TRUE
             ELSE UNCHANGED <<layer, changed>>
    /\ UNCHANGED <<decl, sortVars, i, pc>>

(* One dependency of pass i.  The order within a pass's list follows the
   providers' order; any order is allowed here. *)
Relax ==
    /\ pc = "relax"
    /\ \E d \in rest :
          /\ rest' = rest \ {d}
          /\ IF layer[i] <= layer[d]
             THEN layer' = [layer EXCEPT ![i] = SaturatingInc(layer[d])] /\ changed' = TRUE
             ELSE UNCHANGED <<layer, changed>>
    /\ UNCHANGED <<decl, sortVars, i, pc>>

NextPass ==
    /\ pc = "relax" /\ rest = {} /\ i < N
    /\ i' = i + 1 /\ rest' = Deps(i + 1)
    /\ UNCHANGED <<decl, sortVars, layer, changed, pc>>

(* Mutant of EndSweep: one sweep is taken to be enough. *)
EndSweepOnce ==
    /\ pc = "relax" /\ rest = {} /\ i >= N
    /\ pc' = "done" /\ UNCHANGED <<i, rest, changed>>
    /\ UNCHANGED <<decl, sortVars, layer>>

(* `while changed`. *)
EndSweep ==
    /\ pc = "relax" /\ rest = {} /\ i >= N
    /\ IF changed
       THEN i' = 1 /\ rest' = Deps(1) /\ changed' = FALSE /\ UNCHANGED pc
       ELSE pc' = "done" /\ UNCHANGED <<i, rest, changed>>
    /\ UNCHANGED <<decl, sortVars, layer>>

Finished == pc \in {"done", "cyclic"} /\ UNCHANGED vars

Step ==
    \/ Count \/ Seed \/ Pop \/ RemoveEdge \/ Verdict
    \/ Relax \/ NextPass \/ EndSweep

Next == Step \/ Finished

Spec == Init /\ [][Next]_vars

FairSpec == Spec /\ WF_vars(Step)

-----------------------------------------------------------------------------
(* Properties. *)

TypeOK ==
    /\ provides \in [Index -> SUBSET Capability]
    /\ requires \in [Index -> SUBSET Capability]
    /\ fallback \in [Index -> LayerNo]
    /\ layer \in [Index -> LayerNo]
    /\ indegree \in [Index -> Nat] /\ queue \in Seq(Index) /\ sorted \in Seq(Index)
    /\ out \subseteq Index
    /\ i \in Nat /\ rest \subseteq Index /\ changed \in BOOLEAN
    /\ pc \in {"count", "seed", "sort", "relax", "cyclic", "done"}

Satisfies(f) ==
    \A p \in Index : fallback[p] <= f[p] /\ \A d \in Deps(p) : f[d] < f[p]

(* "The scheduler ensures that consumers of a capability are placed in later
   layers than providers" (scheduling/pass.rs), and no pass runs in an earlier
   layer than its fallback. *)
ProvidersRunEarlier == pc = "done" => Satisfies(layer)

(* No pass is pushed further than its dependencies force it: at no point is any
   pass beyond its place in some assignment that satisfies every dependency. *)
NeverTooFar ==
    \A f \in [Index -> LayerNo] :
        Satisfies(f) => \A p \in Index : layer[p] <= f[p]

(* An order of the passes in which every provider comes before its consumers;
   a pass may well provide what it requires itself. *)
Orders(f) ==
    \A p \in Index : \A q \in Index \ {p} :
        provides[q] \cap requires[p] # {} => f[q] < f[p]

(* The sort goes through the passes edge by edge and stops when its queue is
   empty; what it has counted then tells whether there is such an order.  So a
   cycle of requirements is reported, never laid out, and nothing else is. *)
CyclesRejected ==
    /\ pc \in {"relax", "done"} => \E f \in [Index -> 0..N] : Orders(f)
    /\ pc = "cyclic" => ~ \E f \in [Index -> 0..N] : Orders(f)

(* The `while changed` loop ends whenever the passes fit below the largest
   layer number.  When they do not, the saturated layers tie and it spins. *)
Fits == \E f \in [Index -> LayerNo] : Satisfies(f)
Cyclic == \E S \in SUBSET Index : S # {} /\ \A p \in S : Deps(p) \cap S # {}
Terminates == Cyclic \/ Fits => <>(pc \in {"done", "cyclic"})
=============================================================================
