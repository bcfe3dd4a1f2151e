--------------------------- MODULE StrongComponents ---------------------------
(***************************************************************************)
(* graph/algorithms/scc.rs: Tarjan's algorithm with the recursion turned   *)
(* into a stack of frames, as CallGraph::components_callee_first runs it.  *)
(* One step looks at one successor or closes one frame.  The order in which*)
(* a node's successors are listed is left open.                            *)
(***************************************************************************)
EXTENDS CallGraph

VARIABLES
    index,      \* node -> discovery number, 0 for None
    lowlink,
    onStack,    \* on_stack, as a set
    stack,      \* nodes not yet in a component; the last one is the top
    frames,     \* `work`: node and successors still to look at, top last
    nextIndex,  \* current_index, plus one
    sccs        \* components, in the order they are found

tarjanVars == <<index, lowlink, onStack, stack, frames, nextIndex, sccs>>

Frame == [node: Method, rest: SUBSET Method]

Top(s) == s[Len(s)]
Pop(s) == SubSeq(s, 1, Len(s) - 1)
Visited(v) == index[v] # 0
Min2(a, b) == IF a < b THEN a ELSE b

TarjanInit ==
    /\ index = [v \in Method |-> 0] /\ lowlink = [v \in Method |-> 0]
    /\ onStack = {} /\ stack = <<>> /\ frames = <<>>
    /\ nextIndex = 1
    /\ sccs = <<>>

(* visit_node, and a frame for the node on top of `under`. *)
Visit(v, under) ==
    /\ index' = [index EXCEPT ![v] = nextIndex]
    /\ lowlink' = [lowlink EXCEPT ![v] = nextIndex]
    /\ nextIndex' = nextIndex + 1
    /\ stack' = Append(stack, v) /\ onStack' = onStack \cup {v}
    /\ frames' = Append(under, [node |-> v, rest |-> edges[v]])

(* strongconnect is called for the nodes not yet visited, lowest first. *)
StartRoot ==
    /\ frames = <<>>
    /\ \E v \in Method :
          /\ ~Visited(v) /\ \A u \in Method : u < v => Visited(u)
          /\ Visit(v, frames)
    /\ UNCHANGED sccs

(* The top frame without its successor w. *)
Advanced(w) == [frames EXCEPT ![Len(frames)].rest = @ \ {w}]

Descend ==
    /\ frames # <<>>
    /\ \E w \in Top(frames).rest : ~Visited(w) /\ Visit(w, Advanced(w))
    /\ UNCHANGED sccs

(* Mutant of BackEdge: lowlink takes any visited successor's index. *)
BackEdgeAny ==
    /\ frames # <<>>
    /\ \E w \in Top(frames).rest :
          /\ Visited(w)
          /\ frames' = Advanced(w)
          /\ lowlink' = [lowlink EXCEPT ![Top(frames).node] = Min2(@, index[w])]
    /\ UNCHANGED <<index, onStack, stack, nextIndex, sccs>>

(* A successor already visited: only one still on the stack counts. *)
BackEdge ==
    /\ frames # <<>>
    /\ \E w \in Top(frames).rest :
          /\ Visited(w)
          /\ frames' = Advanced(w)
          /\ lowlink' = IF w \in onStack
                        THEN [lowlink EXCEPT ![Top(frames).node] = Min2(@, index[w])]
                        ELSE lowlink
    /\ UNCHANGED <<index, onStack, stack, nextIndex, sccs>>

IsRoot(v) == lowlink[v] = index[v]

(* What finish_component_if_root pops for v: v and all above it, top first. *)
PlaceOf(v) == CHOOSE i \in DOMAIN stack : stack[i] = v
Component(v) == [i \in 1..(Len(stack) - PlaceOf(v) + 1) |-> stack[Len(stack) - i + 1]]

(* Mutant of ReturnToParent: the parent does not learn the child's lowlink. *)
ReturnToParentDeaf(v) == UNCHANGED lowlink

(* work.pop, and update_lowlink for the caller's frame. *)
ReturnToParent(v) ==
    IF Len(frames) = 1 THEN UNCHANGED lowlink
    ELSE lowlink' = [lowlink EXCEPT ![frames[Len(frames) - 1].node] = Min2(@, lowlink[v])]

CloseFrame ==
    /\ frames # <<>> /\ Top(frames).rest = {}
    /\ LET v == Top(frames).node
       IN  /\ IF IsRoot(v)
              THEN /\ sccs' = Append(sccs, Component(v))
                   /\ stack' = SubSeq(stack, 1, PlaceOf(v) - 1)
                   /\ onStack' = onStack \ {stack[i] : i \in PlaceOf(v)..Len(stack)}
              ELSE UNCHANGED <<sccs, stack, onStack>>
           /\ ReturnToParent(v)
    /\ frames' = Pop(frames)
    /\ UNCHANGED <<index, nextIndex>>

TarjanDone == frames = <<>> /\ \A v \in Method : Visited(v)

TarjanStep == StartRoot \/ Descend \/ BackEdge \/ CloseFrame

-----------------------------------------------------------------------------
(* Properties. *)

TarjanTypeOK ==
    /\ index \in [Method -> Nat] /\ lowlink \in [Method -> Nat]
    /\ onStack \subseteq Method /\ stack \in Seq(Method) /\ frames \in Seq(Frame)
    /\ nextIndex \in Nat \ {0}
    /\ sccs \in Seq(Seq(Method))

Members(k) == {sccs[k][i] : i \in DOMAIN sccs[k]}
Emitted(k) == UNION {Members(j) : j \in 1..k}

(* "SCCs in reverse topological order": whatever a member of a component calls
   is in the component or in one found before it. *)
CalleesFirst ==
    \A k \in DOMAIN sccs : \A v \in Members(k) : edges[v] \subseteq Emitted(k)

(* A component is a whole class of methods that reach each other, and each
   method is listed once. *)
ComponentsAreExact ==
    \A k \in DOMAIN sccs :
        /\ \A v \in Members(k) :
              Members(k) = {w \in Method : Reaches(v, w) /\ Reaches(w, v)}
        /\ Cardinality(Members(k)) = Len(sccs[k])
        /\ \A j \in DOMAIN sccs : j # k => Members(j) \cap Members(k) = {}
=============================================================================
