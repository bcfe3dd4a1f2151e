------------------------------ MODULE CallGraph ------------------------------
(***************************************************************************)
(* The program as the whole-program layer sees it: the host's `World`      *)
(* (world.rs) and the CallGraph that interproc/mod.rs builds from it.      *)
(* A method is its position in World::all_methods, which is also its       *)
(* NodeId.                                                                 *)
(***************************************************************************)
EXTENDS Integers, Sequences, FiniteSets

CONSTANTS
    N,          \* how many methods the host has
    Outside,    \* callees without a body: imports, unresolved targets
    Worlds      \* what World::callees may answer: method -> callees

Method == 1..N

ASSUME NAssumption == N \in Nat
ASSUME OutsideAssumption == IsFiniteSet(Outside) /\ Outside \cap Method = {}
ASSUME WorldsAssumption == Worlds \subseteq [Method -> SUBSET (Method \cup Outside)]

VARIABLES
    callees,    \* World::callees
    edges,      \* the graph: method -> successors
    selfCalls,  \* self_recursive
    phase       \* what the batch of global passes is doing

graphVars == <<callees, edges, selfCalls>>

Phase == {"build", "components", "mark", "solve", "done"}

GraphInit ==
    /\ callees \in Worlds
    /\ edges = [m \in Method |-> {}] /\ selfCalls = {}
    /\ phase = "build"

(* Mutant of FromEdges: calls of unknown methods become edges. *)
FromEdgesAll ==
    /\ edges' = callees
    /\ selfCalls' = {m \in Method : m \in callees[m]}
    /\ UNCHANGED callees

(* from_edges: calls of unknown methods are dropped, self-calls are kept and
   remembered. *)
FromEdges ==
    /\ edges' = [m \in Method |-> callees[m] \cap Method]
    /\ selfCalls' = {m \in Method : m \in callees[m]}
    /\ UNCHANGED callees

GraphTypeOK ==
    /\ callees \in [Method -> SUBSET (Method \cup Outside)]
    /\ edges \in [Method -> SUBSET Method]
    /\ selfCalls \subseteq Method
    /\ phase \in Phase

(* The definition of reachability: to reach w from v is to find w in every set
   that contains v and is closed under calls. *)
Closed(S) == \A m \in S : edges[m] \subseteq S
Reaches(v, w) == \A S \in SUBSET Method : v \in S /\ Closed(S) => w \in S
=============================================================================
