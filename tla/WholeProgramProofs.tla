-------------------------- MODULE WholeProgramProofs --------------------------
(***************************************************************************)
(* Invariants of the whole-program batch, for every program, entry points, *)
(* transfer and cap.                                                       *)
(***************************************************************************)
EXTENDS WholeProgram, SequenceTheorems, FiniteSetTheorems, TLAPS

-----------------------------------------------------------------------------
(***************************************************************************)
(* Steps of Tarjan's algorithm, on any graph.  First the order: the stack  *)
(* is in order of discovery, every visited node is on it or in a           *)
(* component, and the lowlink of a frame covers the calls seen from the    *)
(* nodes the frame answers for, so a component is closed under calls into  *)
(* itself and earlier ones.  Then exactness: every node on the stack and   *)
(* the node of the frame that answers for it reach each other.             *)
(***************************************************************************)

OnFrame(v, w) == \E i \in DOMAIN frames : frames[i].node = v /\ w \in frames[i].rest

Elements(s) == {s[i] : i \in DOMAIN s}

(* The call has been looked at. *)
Seen(v, w) == w \in edges[v] /\ ~OnFrame(v, w)

AllEmitted == UNION {Members(k) : k \in DOMAIN sccs}

(* Frame i answers for v: no later frame is for a node found at or before v. *)
Answers(i, v) ==
    /\ index[frames[i].node] <= index[v]
    /\ i < Len(frames) => index[v] < index[frames[i + 1].node]

StackOrdered ==
    /\ onStack = {stack[i] : i \in DOMAIN stack}
    /\ \A i, j \in DOMAIN stack : i < j => index[stack[i]] < index[stack[j]]

Numbered ==
    \A v \in Method : index[v] < nextIndex /\ lowlink[v] <= index[v]

FramesOrdered ==
    /\ \A i \in DOMAIN frames :
          Visited(frames[i].node) /\ frames[i].node \in onStack
    /\ \A i, j \in DOMAIN frames :
          i < j => index[frames[i].node] < index[frames[j].node]

Placed ==
    /\ \A v \in Method : Visited(v) <=> v \in onStack \/ v \in AllEmitted
    /\ onStack \cap AllEmitted = {}

SeenVisited == \A v \in Method : \A w \in edges[v] :
    Visited(v) /\ Seen(v, w) => Visited(w)

Covered ==
    \A v, w \in onStack : Seen(v, w) =>
        \A i \in DOMAIN frames : Answers(i, v) => lowlink[frames[i].node] <= index[w]

Disjoint == \A j, k \in DOMAIN sccs : j # k => Members(j) \cap Members(k) = {}

Typed == edges \in [Method -> SUBSET Method] /\ TarjanTypeOK

TarjanInv ==
    /\ Typed
    /\ StackOrdered /\ Numbered /\ FramesOrdered /\ Placed /\ SeenVisited
    /\ Covered /\ Disjoint /\ CalleesFirst

LEMMA TarjanInitInv ==
  ASSUME TarjanInit, edges \in [Method -> SUBSET Method] PROVE TarjanInv
<1>1. Typed
  BY DEF TarjanInit, Typed, TarjanTypeOK
<1>2. AllEmitted = {} /\ onStack = {} /\ stack = <<>> /\ frames = <<>> /\ sccs = <<>>
  BY DEF TarjanInit, AllEmitted
<1>3. \A v \in Method : ~Visited(v) /\ index[v] = 0 /\ lowlink[v] = 0 /\ nextIndex = 1
  BY DEF TarjanInit, Visited
<1> QED
  BY <1>1, <1>2, <1>3 DEF TarjanInv, StackOrdered, Numbered, FramesOrdered, Placed,
     SeenVisited, Covered, Disjoint, CalleesFirst

-----------------------------------------------------------------------------
(* visit_node, from a new root or from a frame. *)

Entered(v, under) ==
    /\ v \in Method /\ ~Visited(v)
    /\ under \in Seq(Frame)
    /\ Len(under) = Len(frames)
    /\ \A i \in DOMAIN frames :
          /\ under[i].node = frames[i].node
          /\ \/ under[i].rest = frames[i].rest
             \/ i = Len(frames) /\ under[i].rest = frames[i].rest \ {v}
    /\ Visit(v, under)
    /\ UNCHANGED <<edges, sccs>>

LEMMA EnteredTyped ==
  ASSUME Typed, NEW v, NEW under, Entered(v, under)
  PROVE  /\ Typed'
         /\ DOMAIN stack = 1..Len(stack) /\ Len(stack) \in Nat
         /\ DOMAIN stack' = 1..(Len(stack) + 1)
         /\ \A i \in DOMAIN stack : stack'[i] = stack[i]
         /\ stack'[Len(stack) + 1] = v
         /\ DOMAIN frames = 1..Len(frames) /\ Len(frames) \in Nat
         /\ Len(frames') = Len(frames) + 1
         /\ DOMAIN frames' = 1..(Len(frames) + 1)
         /\ \A i \in DOMAIN frames : frames'[i] = under[i]
         /\ frames'[Len(frames) + 1] = [node |-> v, rest |-> edges[v]]
<1>1. /\ edges[v] \subseteq Method /\ [node |-> v, rest |-> edges[v]] \in Frame
      /\ stack \in Seq(Method) /\ frames \in Seq(Frame) /\ under \in Seq(Frame)
      /\ v \in Method /\ nextIndex \in Nat \ {0}
  BY DEF Entered, Typed, TarjanTypeOK, Frame
<1>2. stack' = Append(stack, v) /\ frames' = Append(under, [node |-> v, rest |-> edges[v]])
  BY DEF Entered, Visit
<1>3. stack' \in Seq(Method) /\ frames' \in Seq(Frame)
  BY <1>1, <1>2
<1>4. Typed'
  BY <1>1, <1>3 DEF Entered, Visit, Typed, TarjanTypeOK
<1> QED
  BY <1>1, <1>2, <1>4 DEF Entered

LEMMA EnteredInv ==
  ASSUME TarjanInv, NEW v, NEW under, Entered(v, under)
  PROVE  TarjanInv'
<1> USE DEF TarjanInv
<1>0. /\ Typed'
      /\ DOMAIN stack = 1..Len(stack) /\ Len(stack) \in Nat
      /\ DOMAIN stack' = 1..(Len(stack) + 1)
      /\ \A i \in DOMAIN stack : stack'[i] = stack[i]
      /\ stack'[Len(stack) + 1] = v
      /\ DOMAIN frames = 1..Len(frames) /\ Len(frames) \in Nat
      /\ Len(frames') = Len(frames) + 1
      /\ DOMAIN frames' = 1..(Len(frames) + 1)
      /\ \A i \in DOMAIN frames : frames'[i] = under[i]
      /\ frames'[Len(frames) + 1] = [node |-> v, rest |-> edges[v]]
  BY EnteredTyped
<1>1. /\ v \in Method /\ index[v] = 0 /\ v \notin onStack /\ v \notin AllEmitted
      /\ nextIndex \in Nat \ {0}
      /\ index \in [Method -> Nat] /\ lowlink \in [Method -> Nat]
      /\ onStack \subseteq Method
  BY DEF Entered, Visited, Placed, Typed, TarjanTypeOK
<1>2. /\ index' = [index EXCEPT ![v] = nextIndex]
      /\ lowlink' = [lowlink EXCEPT ![v] = nextIndex]
      /\ nextIndex' = nextIndex + 1 /\ onStack' = onStack \cup {v}
      /\ UNCHANGED <<edges, sccs>>
  BY DEF Entered, Visit
<1>3. /\ index'[v] = nextIndex /\ lowlink'[v] = nextIndex
      /\ \A u \in Method : u # v => index'[u] = index[u] /\ lowlink'[u] = lowlink[u]
  BY <1>1, <1>2
<1>4. UNCHANGED AllEmitted /\ Disjoint' /\ CalleesFirst'
  BY <1>2 DEF AllEmitted, Members, Disjoint, CalleesFirst, Emitted
<1>5. /\ \A i \in DOMAIN stack : stack[i] \in onStack
      /\ \A i \in DOMAIN frames : frames[i].node \in onStack
  BY DEF StackOrdered, FramesOrdered
<1>6. StackOrdered'
  <2>1. onStack' = {stack'[i] : i \in DOMAIN stack'}
    BY <1>2, <1>0 DEF StackOrdered
  <2>2. \A i \in DOMAIN stack : index'[stack'[i]] = index[stack[i]] /\ index[stack[i]] < nextIndex
    BY <1>1, <1>3, <1>5, <1>0 DEF Numbered
  <2> QED
    BY <1>1, <1>3, <2>1, <2>2, <1>0 DEF StackOrdered
<1>7. Numbered'
  BY <1>1, <1>2, <1>3 DEF Numbered
<1>8. /\ \A i \in DOMAIN frames : frames'[i].node = frames[i].node
      /\ frames'[Len(frames) + 1].node = v
  BY <1>0 DEF Entered
<1>9. FramesOrdered'
  <2>1. \A i \in DOMAIN frames :
           /\ index'[frames'[i].node] = index[frames[i].node]
           /\ index[frames[i].node] < nextIndex
           /\ index[frames[i].node] # 0
    BY <1>1, <1>3, <1>5, <1>8 DEF Numbered, FramesOrdered, Visited
  <2>2. \A i \in DOMAIN frames' : index'[frames'[i].node] # 0 /\ frames'[i].node \in onStack'
    <3>1. v \in onStack' /\ index'[v] # 0 /\ onStack \subseteq onStack'
      BY <1>1, <1>2, <1>3
    <3>2. \A i \in DOMAIN frames : index'[frames'[i].node] # 0 /\ frames'[i].node \in onStack'
      BY <1>5, <1>8, <2>1, <3>1
    <3>3. index'[frames'[Len(frames) + 1].node] # 0 /\ frames'[Len(frames) + 1].node \in onStack'
      BY <1>8, <3>1
    <3> QED
      BY <1>0, <3>2, <3>3 DEF Visited
  <2>3. ASSUME NEW i \in DOMAIN frames', NEW j \in DOMAIN frames', i < j
        PROVE  index'[frames'[i].node] < index'[frames'[j].node]
    <3>1. i \in DOMAIN frames
      BY <1>0, <2>3
    <3>2. CASE j = Len(frames) + 1
      BY <1>3, <1>8, <2>1, <3>1, <3>2
    <3>3. CASE j \in DOMAIN frames
      BY <2>1, <2>3, <3>1, <3>3 DEF FramesOrdered
    <3> QED
      BY <1>0, <3>2, <3>3
  <2> QED
    BY <2>2, <2>3 DEF FramesOrdered, Visited
<1>10. Placed'
  BY <1>1, <1>2, <1>3, <1>4 DEF Placed, Visited
(* No call of v has been seen, and no other call except perhaps one of v. *)
<1>11. \A w : ~Seen(v, w)'
  BY <1>2, <1>8, <1>0, Z3 DEF Seen, OnFrame
<1>12. \A u, w : u # v /\ Seen(u, w)' => Seen(u, w) \/ w = v
  <2> SUFFICES ASSUME NEW u, NEW w, u # v, Seen(u, w)', w # v PROVE Seen(u, w)
    OBVIOUS
  <2>1. ASSUME NEW i \in DOMAIN frames, frames[i].node = u, w \in frames[i].rest PROVE FALSE
    <3>1. i \in DOMAIN frames' /\ frames'[i].node = u /\ w \in frames'[i].rest
      BY <2>1, <1>0 DEF Entered
    <3> QED
      BY <3>1 DEF Seen, OnFrame
  <2> QED
    BY <1>2, <2>1 DEF Seen, OnFrame
<1>13. SeenVisited'
  BY <1>1, <1>2, <1>3, <1>11, <1>12 DEF SeenVisited, Visited
<1>14. Covered'
  <2> SUFFICES ASSUME NEW u \in onStack', NEW w \in onStack', Seen(u, w)',
                      NEW i \in DOMAIN frames', Answers(i, u)'
               PROVE  lowlink'[frames'[i].node] <= index'[w]
    BY DEF Covered
  <2>1. u # v /\ u \in onStack /\ u \in Method
    BY <1>1, <1>2, <1>11
  <2>2. i # Len(frames) + 1
    BY <1>1, <1>3, <1>8, <2>1, <1>0 DEF Answers, Numbered
  <2>3. i \in DOMAIN frames
    BY <2>2, <1>0
  <2>4. Answers(i, u)
    <3>1. \A j \in DOMAIN frames : index'[frames'[j].node] = index[frames[j].node]
      BY <1>1, <1>3, <1>5, <1>8
    <3>2. index'[u] = index[u]
      BY <1>3, <2>1
    <3>3. i < Len(frames) => i + 1 \in DOMAIN frames /\ i < Len(frames')
      BY <1>0, <2>3
    <3> QED
      BY <2>3, <3>1, <3>2, <3>3 DEF Answers
  <2>5. lowlink'[frames'[i].node] = lowlink[frames[i].node]
    BY <1>1, <1>3, <1>5, <1>8, <2>3
  <2>6. CASE w = v
    BY <1>1, <1>3, <1>5, <2>3, <2>5, <2>6 DEF Numbered
  <2>7. CASE w # v
    BY <1>1, <1>2, <1>3, <1>12, <2>1, <2>3, <2>4, <2>5, <2>7 DEF Covered
  <2> QED
    BY <2>6, <2>7
<1> QED
  BY <1>4, <1>6, <1>7, <1>9, <1>10, <1>13, <1>14, <1>0

LEMMA StartRootInv ==
  ASSUME TarjanInv, StartRoot, UNCHANGED edges PROVE TarjanInv'
<1>1. PICK v \in Method : ~Visited(v) /\ Visit(v, frames)
  BY DEF StartRoot
<1>2. frames = <<>> /\ frames \in Seq(Frame) /\ DOMAIN frames = {} /\ UNCHANGED sccs
  BY DEF StartRoot, TarjanInv, Typed, TarjanTypeOK
<1>3. Entered(v, frames)
  BY <1>1, <1>2 DEF Entered
<1> QED
  BY <1>3, EnteredInv

(* What a frame stack is after one successor of its top was looked at. *)
LEMMA AdvancedFrames ==
  ASSUME Typed, frames # <<>>, NEW w
  PROVE  /\ DOMAIN frames = 1..Len(frames) /\ Len(frames) \in Nat \ {0}
         /\ Len(frames) \in DOMAIN frames
         /\ Top(frames).node \in Method /\ Top(frames).rest \subseteq Method
         /\ Advanced(w) \in Seq(Frame) /\ Len(Advanced(w)) = Len(frames)
         /\ \A i \in DOMAIN frames :
               /\ Advanced(w)[i].node = frames[i].node
               /\ i # Len(frames) => Advanced(w)[i].rest = frames[i].rest
         /\ Advanced(w)[Len(frames)].rest = Top(frames).rest \ {w}
<1>1. /\ frames \in Seq(Frame)
      /\ DOMAIN frames = 1..Len(frames) /\ Len(frames) \in Nat \ {0}
  BY DEF Typed, TarjanTypeOK
<1>2. Len(frames) \in DOMAIN frames /\ Top(frames) \in Frame
  BY <1>1 DEF Top
<1>3. Top(frames).node \in Method /\ Top(frames).rest \subseteq Method
  BY <1>2 DEF Frame
<1>4. /\ Advanced(w) = [frames EXCEPT ![Len(frames)] =
                          [Top(frames) EXCEPT !.rest = Top(frames).rest \ {w}]]
      /\ [Top(frames) EXCEPT !.rest = Top(frames).rest \ {w}] \in Frame
  BY <1>2, <1>3 DEF Advanced, Top, Frame
<1>5. Advanced(w) \in Seq(Frame) /\ Len(Advanced(w)) = Len(frames)
  BY <1>1, <1>2, <1>4
<1>6. /\ \A i \in DOMAIN frames : i # Len(frames) => Advanced(w)[i] = frames[i]
      /\ Advanced(w)[Len(frames)] = [Top(frames) EXCEPT !.rest = Top(frames).rest \ {w}]
  BY <1>1, <1>2, <1>4
<1>7. /\ [Top(frames) EXCEPT !.rest = Top(frames).rest \ {w}].node = Top(frames).node
      /\ [Top(frames) EXCEPT !.rest = Top(frames).rest \ {w}].rest = Top(frames).rest \ {w}
  BY <1>2 DEF Frame
<1> QED
  BY <1>1, <1>2, <1>3, <1>5, <1>6, <1>7 DEF Top

LEMMA DescendInv ==
  ASSUME TarjanInv, Descend, UNCHANGED edges PROVE TarjanInv'
<1>1. PICK w \in Top(frames).rest : ~Visited(w) /\ Visit(w, Advanced(w))
  BY DEF Descend
<1>2. frames # <<>> /\ UNCHANGED sccs /\ Typed
  BY DEF Descend, TarjanInv
<1>3. Entered(w, Advanced(w))
  BY <1>1, <1>2, AdvancedFrames DEF Entered, Top
<1> QED
  BY <1>3, EnteredInv

-----------------------------------------------------------------------------
(* A call of the top frame's node is looked at and leads nowhere new. *)

LEMMA BackEdgeInv ==
  ASSUME TarjanInv, BackEdge, UNCHANGED edges PROVE TarjanInv'
<1> USE DEF TarjanInv
<1> DEFINE t == Top(frames).node
<1>1. PICK w \in Top(frames).rest :
         /\ Visited(w) /\ frames' = Advanced(w)
         /\ lowlink' = IF w \in onStack
                       THEN [lowlink EXCEPT ![t] = Min2(@, index[w])]
                       ELSE lowlink
  BY DEF BackEdge
<1>2. frames # <<>> /\ UNCHANGED <<edges, index, onStack, stack, nextIndex, sccs>>
  BY DEF BackEdge
<1>3. /\ DOMAIN frames = 1..Len(frames) /\ Len(frames) \in Nat \ {0}
      /\ Len(frames) \in DOMAIN frames
      /\ t \in Method /\ w \in Method /\ Top(frames) = frames[Len(frames)]
      /\ frames' \in Seq(Frame) /\ Len(frames') = Len(frames) /\ DOMAIN frames' = DOMAIN frames
      /\ \A i \in DOMAIN frames :
            /\ frames'[i].node = frames[i].node
            /\ i # Len(frames) => frames'[i].rest = frames[i].rest
      /\ frames'[Len(frames)].rest = Top(frames).rest \ {w}
  BY <1>1, <1>2, AdvancedFrames DEF Top
<1>4. index \in [Method -> Nat] /\ lowlink \in [Method -> Nat] /\ onStack \subseteq Method
  BY DEF Typed, TarjanTypeOK
<1>5. /\ lowlink' \in [Method -> Nat]
      /\ \A v \in Method : lowlink'[v] <= lowlink[v]
      /\ w \in onStack => lowlink'[t] <= index[w]
  BY <1>1, <1>3, <1>4 DEF Min2
<1>6. Typed'
  BY <1>2, <1>3, <1>5 DEF Typed, TarjanTypeOK
<1>7. /\ StackOrdered' /\ Placed' /\ Disjoint' /\ CalleesFirst'
      /\ \A v : Visited(v)' <=> Visited(v)
  <2>1. StackOrdered' /\ \A v : Visited(v)' <=> Visited(v)
    BY <1>2 DEF StackOrdered, Visited
  <2>2. AllEmitted' = AllEmitted
    BY <1>2 DEF AllEmitted, Members
  <2>3. Placed'
    BY <1>2, <2>1, <2>2 DEF Placed
  <2>4. Disjoint' /\ CalleesFirst'
    <3>1. Disjoint'
      BY <1>2 DEF Disjoint, Members
    <3>2. \A k : Members(k)' = Members(k) /\ Emitted(k)' = Emitted(k)
      BY <1>2 DEF Emitted, Members
    <3> QED
      BY <1>2, <3>1, <3>2 DEF CalleesFirst
  <2> QED
    BY <2>1, <2>3, <2>4
<1>8. Numbered'
  BY <1>2, <1>4, <1>5 DEF Numbered
<1>9. FramesOrdered'
  BY <1>2, <1>3, <1>7 DEF FramesOrdered
<1>10. \A v, x : Seen(v, x)' => Seen(v, x) \/ (v = t /\ x = w)
  <2> SUFFICES ASSUME NEW v, NEW x, Seen(v, x)', OnFrame(v, x) PROVE v = t /\ x = w
    BY <1>2 DEF Seen
  <2>1. PICK i \in DOMAIN frames : frames[i].node = v /\ x \in frames[i].rest
    BY DEF OnFrame
  <2>2. frames'[i].node = v /\ x \notin frames'[i].rest
    BY <1>3, <2>1 DEF Seen, OnFrame
  <2> QED
    BY <1>3, <2>1, <2>2
<1>11. SeenVisited'
  BY <1>1, <1>2, <1>7, <1>10 DEF SeenVisited
<1>12. \A i \in DOMAIN frames, v \in Method : Answers(i, v)' => Answers(i, v)
  BY <1>2, <1>3 DEF Answers
<1>13. \A i \in DOMAIN frames : Answers(i, t) => i = Len(frames)
  <2> SUFFICES ASSUME NEW i \in DOMAIN frames, Answers(i, t), i < Len(frames) PROVE FALSE
    BY <1>3
  <2>1. i + 1 \in DOMAIN frames /\ index[t] < index[frames[i + 1].node]
    BY <1>3 DEF Answers
  <2>2. frames[i + 1].node \in Method
    BY <1>4, <2>1 DEF FramesOrdered
  <2>3. i + 1 = Len(frames) \/ index[frames[i + 1].node] < index[t]
    BY <1>3, <2>1 DEF FramesOrdered
  <2> QED
    BY <1>3, <1>4, <2>1, <2>2, <2>3
<1>14. Covered'
  <2> SUFFICES ASSUME NEW v \in onStack, NEW x \in onStack, Seen(v, x)',
                      NEW i \in DOMAIN frames, Answers(i, v)
               PROVE  lowlink'[frames[i].node] <= index[x]
    BY <1>2, <1>3, <1>4, <1>12 DEF Covered
  <2>1. CASE Seen(v, x)
    <3>1. lowlink[frames[i].node] <= index[x] /\ frames[i].node \in Method
      BY <1>4, <2>1 DEF Covered, FramesOrdered
    <3>2. lowlink'[frames[i].node] <= lowlink[frames[i].node]
      BY <1>5, <3>1
    <3> QED
      BY <1>4, <1>5, <3>1, <3>2
  <2>2. CASE v = t /\ x = w
    BY <1>3, <1>5, <1>13, <2>2
  <2> QED
    BY <1>10, <2>1, <2>2
<1> QED
  BY <1>6, <1>7, <1>8, <1>9, <1>11, <1>14

-----------------------------------------------------------------------------
(* The top frame has no successor left: work.pop and update_lowlink. *)

Closing ==
    /\ frames # <<>> /\ Top(frames).rest = {}
    /\ ReturnToParent(Top(frames).node)
    /\ frames' = Pop(frames)
    /\ UNCHANGED <<edges, index, nextIndex>>

LEMMA ClosingFrames ==
  ASSUME TarjanInv, Closing
  PROVE  /\ Len(frames) \in Nat \ {0}
         /\ DOMAIN frames = 1..Len(frames) /\ DOMAIN frames' = 1..(Len(frames) - 1)
         /\ Len(frames') = Len(frames) - 1
         /\ \A i \in DOMAIN frames' : frames'[i] = frames[i]
         /\ frames' \in Seq(Frame)
         /\ \A i \in DOMAIN frames : frames[i].node \in Method
         /\ lowlink' \in [Method -> Nat]
         /\ \A u \in Method : lowlink'[u] <= lowlink[u]
         /\ Len(frames) > 1 =>
               lowlink'[frames[Len(frames) - 1].node] <= lowlink[Top(frames).node]
<1>1. /\ frames \in Seq(Frame) /\ frames # <<>> /\ frames' = SubSeq(frames, 1, Len(frames) - 1)
      /\ Len(frames) \in Nat \ {0} /\ DOMAIN frames = 1..Len(frames)
  BY DEF Closing, Pop, TarjanInv, Typed, TarjanTypeOK
<1>2. \A i \in 1..(Len(frames) - 1) : frames[i] \in Frame
  BY <1>1
<1>3. /\ frames' \in Seq(Frame) /\ Len(frames') = Len(frames) - 1
      /\ \A i \in 1..(Len(frames) - 1) : frames'[i] = frames[i]
  <2> DEFINE n == Len(frames) - 1
  <2>1. n \in Int /\ n + 1 = Len(frames) /\ n >= 0
    BY <1>1
  <2>2. /\ SubSeq(frames, 1, n) \in Seq(Frame)
        /\ Len(SubSeq(frames, 1, n)) = IF 1 <= n THEN n - 1 + 1 ELSE 0
        /\ \A i \in 1..(n - 1 + 1) : SubSeq(frames, 1, n)[i] = frames[1 + i - 1]
    <3> HIDE DEF n
    <3> QED
      BY <1>2, <2>1, SubSeqProperties DEF n
  <2> QED
    BY <1>1, <2>1, <2>2
<1>4. \A i \in DOMAIN frames : frames[i].node \in Method
  <2>1. \A i \in DOMAIN frames : frames[i] \in Frame
    BY <1>1
  <2> QED
    BY <2>1 DEF Frame
<1>5. lowlink \in [Method -> Nat]
  BY DEF TarjanInv, Typed, TarjanTypeOK
<1>6. Top(frames).node \in Method
  BY <1>1, <1>4 DEF Top
<1>7. /\ lowlink' \in [Method -> Nat]
      /\ \A u \in Method : lowlink'[u] <= lowlink[u]
      /\ Len(frames) > 1 =>
            lowlink'[frames[Len(frames) - 1].node] <= lowlink[Top(frames).node]
  <2>1. CASE Len(frames) = 1
    BY <1>5, <2>1 DEF Closing, ReturnToParent
  <2>2. CASE Len(frames) # 1
    <3> DEFINE p == frames[Len(frames) - 1].node
               least == Min2(lowlink[p], lowlink[Top(frames).node])
    <3>1. p \in Method
      BY <1>1, <1>4, <2>2
    <3>2. least \in Nat /\ least <= lowlink[p] /\ least <= lowlink[Top(frames).node]
      BY <1>5, <1>6, <3>1 DEF Min2
    <3>3. lowlink' = [lowlink EXCEPT ![p] = least]
      BY <2>2 DEF Closing, ReturnToParent
    <3> HIDE DEF p, least
    <3>4. /\ lowlink' \in [Method -> Nat] /\ lowlink'[p] = least
          /\ \A u \in Method : u # p => lowlink'[u] = lowlink[u]
      BY <1>5, <3>1, <3>2, <3>3
    <3>5. \A u \in Method : lowlink'[u] <= lowlink[u]
      BY <1>5, <3>2, <3>4
    <3> QED
      BY <3>2, <3>4, <3>5 DEF p
  <2> QED
    BY <2>1, <2>2
<1>8. DOMAIN frames' = 1..(Len(frames) - 1)
  BY <1>1, <1>3
<1> QED
  BY <1>1, <1>3, <1>4, <1>7, <1>8

(* No call becomes seen or unseen, and what the closed frame answered for is
   answered for by its parent. *)
LEMMA ClosingSeen ==
  ASSUME TarjanInv, Closing
  PROVE  /\ \A u, w : Seen(u, w)' <=> Seen(u, w)
         /\ \A u, w \in onStack : \A i \in DOMAIN frames' :
               Seen(u, w) /\ Answers(i, u)' => lowlink'[frames'[i].node] <= index[w]
<1> USE DEF TarjanInv
<1> DEFINE n == Len(frames)
<1>1. \A u, w : OnFrame(u, w)' <=> OnFrame(u, w)
  <2>1. ASSUME NEW u, NEW w, NEW i \in DOMAIN frames', frames'[i].node = u, w \in frames'[i].rest
        PROVE  OnFrame(u, w)
    BY <2>1, ClosingFrames DEF OnFrame
  <2>2. ASSUME NEW u, NEW w, NEW i \in DOMAIN frames, frames[i].node = u, w \in frames[i].rest
        PROVE  OnFrame(u, w)'
    <3>1. i # n
      BY <2>2 DEF Closing, Top
    <3>2. i \in DOMAIN frames' /\ frames'[i] = frames[i]
      BY <2>2, <3>1, ClosingFrames
    <3> QED
      BY <2>2, <3>2 DEF OnFrame
  <2> QED
    BY <2>1, <2>2 DEF OnFrame
<1>2. \A u, w : Seen(u, w)' <=> Seen(u, w)
  BY <1>1 DEF Seen, Closing
<1>3. index \in [Method -> Nat] /\ lowlink \in [Method -> Nat] /\ onStack \subseteq Method
  BY DEF Typed, TarjanTypeOK
<1>4. ASSUME NEW u \in onStack, NEW w \in onStack, NEW i \in DOMAIN frames',
             Seen(u, w), Answers(i, u)'
      PROVE  lowlink'[frames'[i].node] <= index[w]
  <2>1. /\ i \in DOMAIN frames /\ i + 1 \in DOMAIN frames /\ frames'[i] = frames[i]
        /\ frames[i].node \in Method /\ frames[i + 1].node \in Method
        /\ i < n - 1 => i + 1 \in DOMAIN frames' /\ frames'[i + 1] = frames[i + 1]
        /\ i < n - 1 <=> i < Len(frames')
        /\ n \in Nat /\ i \in Nat /\ i < n /\ u \in Method /\ w \in Method
    <3>1. /\ n \in Nat \ {0} /\ DOMAIN frames = 1..n /\ DOMAIN frames' = 1..(n - 1)
          /\ Len(frames') = n - 1
      BY ClosingFrames
    <3>2. /\ \A j \in DOMAIN frames' : frames'[j] = frames[j]
          /\ \A j \in DOMAIN frames : frames[j].node \in Method
      BY ClosingFrames
    <3>3. u \in Method /\ w \in Method
      BY <1>3
    <3>4. i \in DOMAIN frames'
      OBVIOUS
    <3> HIDE DEF n
    <3>5. /\ i \in Nat /\ i < n /\ i \in DOMAIN frames /\ i + 1 \in DOMAIN frames
          /\ i < n - 1 => i + 1 \in DOMAIN frames'
          /\ i < n - 1 <=> i < Len(frames')
      BY ONLY <3>1, <3>4
    <3> QED  BY ONLY <3>1, <3>2, <3>3, <3>4, <3>5
  <2>2. lowlink'[frames[i].node] <= lowlink[frames[i].node]
    BY <2>1, ClosingFrames
  <2>3. /\ index[frames[i].node] <= index[u]
        /\ i < n - 1 => index[u] < index[frames[i + 1].node]
    BY <1>4, <2>1 DEF Answers, Closing
  <2>4. CASE index[u] < index[frames[i + 1].node]
    <3>1. Answers(i, u)
      BY <2>1, <2>3, <2>4 DEF Answers
    <3>2. lowlink[frames[i].node] <= index[w]
      BY <1>4, <2>1, <3>1 DEF Covered
    <3>3. lowlink'[frames[i].node] \in Nat
      BY <2>1, ClosingFrames
    <3> QED
      BY <1>3, <2>1, <2>2, <3>2, <3>3
  <2>5. CASE ~(index[u] < index[frames[i + 1].node])
    <3>1. i + 1 = n
      BY <2>1, <2>3, <2>5
    <3>2. Answers(n, u) /\ n \in DOMAIN frames
      BY <1>3, <2>1, <2>5, <3>1 DEF Answers
    <3>3. lowlink[frames[n].node] <= index[w] /\ frames[n].node \in Method
      BY <1>4, <2>1, <3>1, <3>2 DEF Covered
    <3>4. lowlink'[frames[i].node] <= lowlink[frames[n].node]
      BY <2>1, <3>1, ClosingFrames DEF Top
    <3>5. lowlink'[frames[i].node] \in Nat
      BY <2>1, ClosingFrames
    <3> QED
      BY <1>3, <2>1, <3>3, <3>4, <3>5, SMTT(20)
  <2> QED
    BY <2>4, <2>5
<1> QED
  BY <1>2, <1>4

LEMMA CloseInnerInv ==
  ASSUME TarjanInv, Closing, UNCHANGED <<sccs, stack, onStack>> PROVE TarjanInv'
<1> USE DEF TarjanInv
<1>1. UNCHANGED <<edges, index, nextIndex, sccs, stack, onStack>>
  BY DEF Closing
<1>2. index \in [Method -> Nat] /\ lowlink \in [Method -> Nat] /\ onStack \subseteq Method
  BY DEF Typed, TarjanTypeOK
<1>3. Typed'
  BY <1>1, ClosingFrames DEF Typed, TarjanTypeOK
<1>4. StackOrdered' /\ \A v : Visited(v)' <=> Visited(v)
  BY <1>1 DEF StackOrdered, Visited
<1>5. Numbered'
  BY <1>1, <1>2, ClosingFrames DEF Numbered
<1>6. FramesOrdered'
  BY <1>1, <1>4, ClosingFrames DEF FramesOrdered
<1>7. \A k : Members(k)' = Members(k) /\ Emitted(k)' = Emitted(k)
  BY <1>1 DEF Members, Emitted
<1>8. AllEmitted' = AllEmitted
  BY <1>1, <1>7 DEF AllEmitted
<1>9. Placed' /\ Disjoint' /\ CalleesFirst'
  BY <1>1, <1>4, <1>7, <1>8 DEF Placed, Disjoint, CalleesFirst
<1>10. SeenVisited'
  BY <1>1, <1>4, ClosingSeen DEF SeenVisited
<1>11. Covered'
  BY <1>1, ClosingSeen DEF Covered
<1> QED
  BY <1>3, <1>4, <1>5, <1>6, <1>9, <1>10, <1>11

(* What the loop of finish_component_if_root pops. *)
Popping(v) ==
    /\ sccs' = Append(sccs, Component(v))
    /\ stack' = SubSeq(stack, 1, PlaceOf(v) - 1)
    /\ onStack' = onStack \ {stack[i] : i \in PlaceOf(v)..Len(stack)}

(* v is on the stack at PlaceOf(v); the component is what was found at v or
   later, the rest of the stack what was found before. *)
LEMMA PoppedParts ==
  ASSUME Typed, StackOrdered, NEW v \in onStack, Popping(v)
  PROVE  /\ stack' \in Seq(Method) /\ Component(v) \in Seq(Method)
         /\ PlaceOf(v) \in 1..Len(stack)
         /\ DOMAIN stack = 1..Len(stack) /\ DOMAIN stack' = 1..(PlaceOf(v) - 1)
         /\ \A i \in DOMAIN stack' : stack'[i] = stack[i]
         /\ {Component(v)[i] : i \in DOMAIN Component(v)} = {u \in onStack : index[v] <= index[u]}
         /\ onStack' = {u \in onStack : index[u] < index[v]}
         /\ onStack' = {stack'[i] : i \in DOMAIN stack'}
<1> DEFINE p == PlaceOf(v)
           n == Len(stack)
<1>1. stack \in Seq(Method) /\ DOMAIN stack = 1..n /\ n \in Nat
  BY DEF Typed, TarjanTypeOK
<1>2. p \in 1..n /\ stack[p] = v
  BY <1>1 DEF StackOrdered, PlaceOf
<1>3. \A i \in 1..n : stack[i] \in Method /\ index[stack[i]] \in Nat
  BY <1>1 DEF Typed, TarjanTypeOK
<1>4. \A i \in 1..n : i < p <=> index[stack[i]] < index[v]
  <2> SUFFICES ASSUME NEW i \in 1..n PROVE i < p <=> index[stack[i]] < index[v]
    OBVIOUS
  <2>1. CASE i < p
    BY <1>1, <1>2, <2>1 DEF StackOrdered
  <2>2. CASE i = p
    BY <1>2, <1>3, <2>2
  <2>3. CASE p < i
    <3>1. index[v] < index[stack[i]]
      BY <1>1, <1>2, <2>3 DEF StackOrdered
    <3> QED
      BY <1>2, <1>3, <2>3, <3>1
  <2> QED
    BY <1>2, <2>1, <2>2, <2>3
<1>5. /\ stack' \in Seq(Method) /\ DOMAIN stack' = 1..(p - 1)
      /\ \A i \in 1..(p - 1) : stack'[i] = stack[i]
  <2> DEFINE q == p - 1
  <2>1. q \in Int /\ q \in 0..n /\ \A i \in 1..q : stack[i] \in Method
    BY <1>1, <1>2, <1>3
  <2>2. stack' = SubSeq(stack, 1, q)
    BY DEF Popping
  <2> HIDE DEF q
  <2>3. /\ stack' \in Seq(Method)
        /\ Len(stack') = IF 1 <= q THEN q - 1 + 1 ELSE 0
        /\ \A i \in 1..(q - 1 + 1) : stack'[i] = stack[1 + i - 1]
    BY <2>1, <2>2, SubSeqProperties
  <2>4. DOMAIN stack' = 1..q /\ \A i \in 1..q : stack'[i] = stack[i]
    BY <2>1, <2>3
  <2> QED
    BY <2>3, <2>4 DEF q
<1>6. Component(v) \in Seq(Method) /\ DOMAIN Component(v) = 1..(n - p + 1)
  <2>1. Component(v) = [i \in 1..(n - p + 1) |-> stack[n - i + 1]]
    BY DEF Component
  <2>2. n - p + 1 \in Nat /\ \A i \in 1..(n - p + 1) : stack[n - i + 1] \in Method
    BY <1>1, <1>2, <1>3
  <2> QED
    BY <2>1, <2>2
<1>7. {Component(v)[i] : i \in DOMAIN Component(v)} = {stack[i] : i \in p..n}
  <2>1. \A i \in 1..(n - p + 1) : n - i + 1 \in p..n /\ Component(v)[i] = stack[n - i + 1]
    BY <1>1, <1>2 DEF Component
  <2>2. \A i \in p..n : n - i + 1 \in 1..(n - p + 1) /\ Component(v)[n - i + 1] = stack[i]
    BY <1>1, <1>2 DEF Component
  <2> QED
    BY <1>6, <2>1, <2>2
<1>8. onStack = {stack[i] : i \in 1..n}
  BY <1>1 DEF StackOrdered
<1>9. {stack[i] : i \in p..n} = {u \in onStack : index[v] <= index[u]}
  <2>1. \A i \in 1..n : i \in p..n <=> index[v] <= index[stack[i]]
    BY <1>1, <1>2, <1>3, <1>4
  <2>2. p..n \subseteq 1..n
    BY <1>1, <1>2
  <2> QED
    BY <1>8, <2>1, <2>2
<1>10. \A u \in onStack : ~(index[v] <= index[u]) <=> index[u] < index[v]
  BY <1>2, <1>3, <1>8
<1>11. onStack' = {u \in onStack : index[u] < index[v]}
  BY <1>9, <1>10 DEF Popping
<1>12. {stack[i] : i \in 1..(p - 1)} = {u \in onStack : index[u] < index[v]}
  <2>1. 1..(p - 1) \subseteq 1..n /\ \A i \in 1..n : i \in 1..(p - 1) <=> i < p
    BY <1>1, <1>2
  <2> QED
    BY <1>4, <1>8, <2>1
<1>13. onStack' = {stack'[i] : i \in DOMAIN stack'}
  BY <1>5, <1>11, <1>12
<1> QED
  BY <1>1, <1>2, <1>5, <1>6, <1>7, <1>9, <1>11, <1>13

(* Every call of the component's members was seen, and v's lowlink says that
   none leads below v on the stack. *)
LEMMA FoundClosed ==
  ASSUME TarjanInv, Closing, IsRoot(Top(frames).node)
  PROVE  LET found == {u \in onStack : index[Top(frames).node] <= index[u]}
         IN  \A u \in found : edges[u] \subseteq AllEmitted \cup found
<1> USE DEF TarjanInv
<1> DEFINE v == Top(frames).node
           n == Len(frames)
           found == {u \in onStack : index[v] <= index[u]}
<1> SUFFICES ASSUME NEW u \in found, NEW w \in edges[u] PROVE w \in AllEmitted \cup found
  OBVIOUS
<1>1. /\ index \in [Method -> Nat] /\ onStack \subseteq Method
      /\ edges \in [Method -> SUBSET Method]
  BY DEF Typed, TarjanTypeOK
<1>2. /\ n \in Nat \ {0} /\ n \in DOMAIN frames /\ frames[n].node = v
      /\ v \in onStack /\ v \in Method
  BY <1>1, ClosingFrames DEF FramesOrdered, Top
<1>3. u \in onStack /\ u \in Method /\ w \in Method /\ Visited(u)
  BY <1>1 DEF Placed
<1>4. ASSUME NEW i \in DOMAIN frames, frames[i].node = u, w \in frames[i].rest PROVE FALSE
  <2>1. i # n
    BY <1>2, <1>4 DEF Closing, Top
  <2>2. i < n
    BY <1>2, <2>1, ClosingFrames
  <2>3. index[u] < index[v]
    BY <1>2, <1>4, <2>2 DEF FramesOrdered
  <2> QED
    BY <1>1, <1>2, <1>3, <2>3
<1>5. Seen(u, w)
  BY <1>4 DEF Seen, OnFrame
<1>6. w \in onStack \/ w \in AllEmitted
  BY <1>3, <1>5 DEF SeenVisited, Placed
<1>7. CASE w \in onStack
  <2>1. Answers(n, u)
    BY <1>2 DEF Answers
  <2>2. lowlink[v] <= index[w]
    BY <1>2, <1>3, <1>5, <1>7, <2>1 DEF Covered
  <2> QED
    BY <1>7, <2>2 DEF IsRoot
<1> QED
  BY <1>6, <1>7

LEMMA CloseRootInv ==
  ASSUME TarjanInv, Closing, IsRoot(Top(frames).node), Popping(Top(frames).node)
  PROVE  TarjanInv'
<1> USE DEF TarjanInv
<1> DEFINE v == Top(frames).node
           n == Len(frames)
           found == {u \in onStack : index[v] <= index[u]}
<1>1. UNCHANGED <<edges, index, nextIndex>>
  BY DEF Closing
<1>2. /\ index \in [Method -> Nat] /\ lowlink \in [Method -> Nat] /\ onStack \subseteq Method
      /\ sccs \in Seq(Seq(Method)) /\ edges \in [Method -> SUBSET Method]
  BY DEF Typed, TarjanTypeOK
<1>3. /\ n \in Nat \ {0} /\ n \in DOMAIN frames /\ frames[n].node = v
      /\ v \in onStack /\ v \in Method
  BY <1>2, ClosingFrames DEF FramesOrdered, Top
<1>4. /\ stack' \in Seq(Method) /\ Component(v) \in Seq(Method)
      /\ DOMAIN stack = 1..Len(stack) /\ PlaceOf(v) \in 1..Len(stack)
      /\ DOMAIN stack' = 1..(PlaceOf(v) - 1)
      /\ \A i \in DOMAIN stack' : stack'[i] = stack[i]
      /\ {Component(v)[i] : i \in DOMAIN Component(v)} = found
      /\ onStack' = {u \in onStack : index[u] < index[v]}
      /\ onStack' = {stack'[i] : i \in DOMAIN stack'}
  BY <1>3, PoppedParts
<1>5. sccs' = Append(sccs, Component(v)) /\ sccs' \in Seq(Seq(Method))
  BY <1>2, <1>4 DEF Popping
<1>6. /\ DOMAIN sccs' = 1..(Len(sccs) + 1) /\ DOMAIN sccs = 1..Len(sccs) /\ Len(sccs) \in Nat
      /\ \A k \in DOMAIN sccs : sccs'[k] = sccs[k]
      /\ sccs'[Len(sccs) + 1] = Component(v)
  BY <1>2, <1>4, <1>5
<1>7. /\ DOMAIN sccs' = DOMAIN sccs \cup {Len(sccs) + 1} /\ Len(sccs) + 1 \notin DOMAIN sccs
      /\ \A k \in DOMAIN sccs : Elements(sccs'[k]) = Elements(sccs[k])
      /\ Elements(sccs'[Len(sccs) + 1]) = found
  BY <1>4, <1>6 DEF Elements
<1>8. AllEmitted' = AllEmitted \cup found
  <2> HIDE DEF found
  <2> DEFINE all(s) == UNION {Elements(s[k]) : k \in DOMAIN s}
  <2>1. all(sccs') = all(sccs) \cup found
    BY <1>7
  <2> QED
    BY <2>1 DEF AllEmitted, Members, Elements
<1>9. Typed'
  BY <1>1, <1>2, <1>4, <1>5, ClosingFrames DEF Typed, TarjanTypeOK
<1>10. \A u : Visited(u)' <=> Visited(u)
  BY <1>1 DEF Visited
<1>11. StackOrdered'
  <2>1. DOMAIN stack' \subseteq DOMAIN stack
    BY <1>4
  <2> QED
    BY <1>1, <1>4, <2>1 DEF StackOrdered
<1>12. Numbered'
  BY <1>1, <1>2, ClosingFrames DEF Numbered
<1>13. FramesOrdered'
  <2>1. \A i \in DOMAIN frames' : i \in DOMAIN frames /\ i < n /\ frames'[i] = frames[i]
    BY <1>3, ClosingFrames
  <2>2. \A i \in DOMAIN frames' : frames[i].node \in onStack /\ index[frames[i].node] < index[v]
    BY <1>3, <2>1 DEF FramesOrdered
  <2> QED
    BY <1>1, <1>4, <1>10, <2>1, <2>2 DEF FramesOrdered
<1>14. \A u \in onStack : u \in found \/ u \in onStack'
  BY <1>2, <1>3, <1>4
<1>15. onStack' \cap found = {} /\ onStack' \subseteq onStack /\ found \subseteq onStack
  <2>1. ASSUME NEW u \in onStack, index[u] < index[v], index[v] <= index[u] PROVE FALSE
    BY <1>2, <1>3, <2>1
  <2>2. \A u \in onStack' : u \in onStack /\ index[u] < index[v]
    BY <1>4
  <2> QED
    BY <2>1, <2>2
<1>16. Placed'
  BY <1>8, <1>10, <1>14, <1>15 DEF Placed
<1>17. Disjoint'
  <2> HIDE DEF found
  <2>1. \A k \in DOMAIN sccs : Elements(sccs[k]) \subseteq AllEmitted
    BY DEF AllEmitted, Members, Elements
  <2>2. \A k \in DOMAIN sccs : Elements(sccs[k]) \cap found = {}
    BY <1>15, <2>1 DEF Placed
  <2>3. \A j, k \in DOMAIN sccs : j # k => Elements(sccs[j]) \cap Elements(sccs[k]) = {}
    BY DEF Disjoint, Members, Elements
  <2>4. \A j, k \in DOMAIN sccs' : j # k => Elements(sccs'[j]) \cap Elements(sccs'[k]) = {}
    BY <1>7, <2>2, <2>3
  <2> QED
    BY <2>4 DEF Disjoint, Members, Elements
<1>18. \A u \in found : edges[u] \subseteq AllEmitted \cup found
  BY FoundClosed
<1>19. CalleesFirst'
  <2> DEFINE upTo(s, k) == UNION {Elements(s[j]) : j \in 1..k}
  <2> HIDE DEF found
  <2>1. \A k \in DOMAIN sccs : 1..k \subseteq DOMAIN sccs
    BY <1>6
  <2>2. \A k \in DOMAIN sccs : upTo(sccs', k) = upTo(sccs, k)
    BY <1>7, <2>1
  <2>3. upTo(sccs', Len(sccs) + 1) = AllEmitted'
    BY <1>6 DEF AllEmitted, Members, Elements
  <2>4. \A k \in DOMAIN sccs : \A u \in Elements(sccs[k]) : edges[u] \subseteq upTo(sccs, k)
    BY DEF CalleesFirst, Emitted, Members, Elements
  <2>5. \A u \in found : edges[u] \subseteq upTo(sccs', Len(sccs) + 1)
    BY <1>8, <1>18, <2>3
  <2> HIDE DEF upTo
  <2>6. \A k \in DOMAIN sccs' : \A u \in Elements(sccs'[k]) : edges[u] \subseteq upTo(sccs', k)
    BY <1>7, <2>2, <2>4, <2>5
  <2> QED
    BY <1>1, <2>6 DEF CalleesFirst, Emitted, Members, Elements, upTo
<1>20. SeenVisited'
  BY <1>1, <1>10, ClosingSeen DEF SeenVisited
<1>21. Covered'
  BY <1>1, <1>15, ClosingSeen DEF Covered
<1> QED
  BY <1>9, <1>11, <1>12, <1>13, <1>16, <1>17, <1>19, <1>20, <1>21

LEMMA CloseFrameInv ==
  ASSUME TarjanInv, CloseFrame, UNCHANGED edges PROVE TarjanInv'
<1>1. Closing
  BY DEF CloseFrame, Closing
<1>2. CASE IsRoot(Top(frames).node)
  <2>1. Popping(Top(frames).node)
    BY <1>2 DEF CloseFrame, Popping
  <2> QED
    BY <1>1, <1>2, <2>1, CloseRootInv
<1>3. CASE ~IsRoot(Top(frames).node)
  BY <1>1, <1>3, CloseInnerInv DEF CloseFrame
<1> QED
  BY <1>2, <1>3

(* Every step of the algorithm keeps the invariant. *)
LEMMA TarjanStepInv ==
  ASSUME TarjanInv, TarjanStep, UNCHANGED edges PROVE TarjanInv'
BY StartRootInv, DescendInv, BackEdgeInv, CloseFrameInv DEF TarjanStep

-----------------------------------------------------------------------------
(* Why a component is exact: every node on the stack and the node of the frame
   that answers for it reach each other, and a frame's lowlink is the index of
   a node on the stack that the frame's node reaches. *)

Paths == {p \in Method \X Method : Reaches(p[1], p[2])}
Path(a, b) == <<a, b>> \in Paths

RestCalled == \A i \in DOMAIN frames : frames[i].rest \subseteq edges[frames[i].node]

Answered == \A u \in onStack : \E i \in DOMAIN frames : Answers(i, u)

Down == \A i \in DOMAIN frames, u \in onStack :
    index[frames[i].node] <= index[u] => Path(frames[i].node, u)

Up == \A i \in DOMAIN frames, u \in onStack : Answers(i, u) => Path(u, frames[i].node)

Low == \A i \in DOMAIN frames : \E w \in onStack :
    index[w] = lowlink[frames[i].node] /\ Path(frames[i].node, w)

Connected == RestCalled /\ Answered /\ Down /\ Up /\ Low

LEMMA PathSelf == \A m \in Method : Path(m, m)
BY DEF Path, Paths, Reaches

LEMMA PathCallee ==
  ASSUME edges \in [Method -> SUBSET Method], NEW a, NEW b, NEW c \in edges[b], Path(a, b)
  PROVE  Path(a, c)
<1>1. a \in Method /\ b \in Method /\ c \in Method /\ Reaches(a, b)
  BY DEF Path, Paths
<1>2. Reaches(a, c)
  BY <1>1 DEF Reaches, Closed
<1> QED
  BY <1>1, <1>2 DEF Path, Paths

LEMMA PathThrough ==
  ASSUME NEW a, NEW b, NEW c, Path(a, b), Path(b, c) PROVE Path(a, c)
<1>1. /\ a \in Method /\ b \in Method /\ c \in Method
      /\ Reaches(a, b) /\ Reaches(b, c)
  BY DEF Path, Paths
<1>2. Reaches(a, c)
  BY <1>1 DEF Reaches
<1> QED
  BY <1>1, <1>2 DEF Path, Paths

(* From a node one reaches nothing outside a closed set that has the node. *)
LEMMA PathInside ==
  ASSUME NEW S \in SUBSET Method, Closed(S), NEW a \in S, NEW b, Path(a, b)
  PROVE  b \in S
<1>1. Reaches(a, b)
  BY DEF Path, Paths
<1> QED
  BY <1>1 DEF Reaches

LEMMA PathsKept == ASSUME UNCHANGED edges PROVE Paths' = Paths
BY DEF Paths, Reaches, Closed

(* As Entered, and a frame enters one of its node's callees. *)
LEMMA EnteredConnected ==
  ASSUME TarjanInv, Connected, NEW v, NEW under, Entered(v, under),
         frames # <<>> => v \in edges[Top(frames).node]
  PROVE  Connected'
<1> USE DEF TarjanInv, Connected
<1>n. PICK n : n = Len(frames)
  OBVIOUS
<1>0. /\ Typed /\ n = Len(frames)
      /\ DOMAIN frames = 1..n /\ n \in Nat
      /\ Len(frames') = n + 1
      /\ DOMAIN frames' = 1..(n + 1)
      /\ \A i \in DOMAIN frames : frames'[i] = under[i]
      /\ frames'[n + 1] = [node |-> v, rest |-> edges[v]]
  BY <1>n, EnteredTyped
<1>1. /\ v \in Method /\ index[v] = 0 /\ v \notin onStack
      /\ nextIndex \in Nat \ {0}
      /\ index \in [Method -> Nat] /\ lowlink \in [Method -> Nat]
      /\ onStack \subseteq Method /\ edges \in [Method -> SUBSET Method]
  BY DEF Entered, Visited, Placed, Typed, TarjanTypeOK
<1>2. /\ index' = [index EXCEPT ![v] = nextIndex]
      /\ lowlink' = [lowlink EXCEPT ![v] = nextIndex]
      /\ onStack' = onStack \cup {v} /\ UNCHANGED edges
  BY DEF Entered, Visit
<1>3. /\ index'[v] = nextIndex /\ lowlink'[v] = nextIndex
      /\ \A u \in onStack : u \in Method /\ u # v
      /\ \A u \in onStack : index'[u] = index[u] /\ lowlink'[u] = lowlink[u] /\ index[u] < nextIndex
  BY <1>1, <1>2 DEF Numbered
<1>4. /\ \A i \in DOMAIN frames : frames'[i].node = frames[i].node /\ frames[i].node \in onStack
      /\ frames'[n + 1].node = v /\ frames'[n + 1].rest = edges[v]
  BY <1>0 DEF Entered, FramesOrdered
<1>5. Paths' = Paths
  BY <1>2, PathsKept
<1>6. \A i \in DOMAIN frames' : i \in DOMAIN frames \/ i = n + 1
  BY <1>0
<1>7. RestCalled'
  <2>1. \A i \in DOMAIN frames : frames'[i].rest \subseteq frames[i].rest
    BY <1>0 DEF Entered
  <2> QED
    BY <1>2, <1>4, <1>6, <2>1 DEF RestCalled
<1>8. \A i \in DOMAIN frames, u \in onStack : Answers(i, u)' <=> Answers(i, u)
  <2> SUFFICES ASSUME NEW i \in DOMAIN frames, NEW u \in onStack
               PROVE  Answers(i, u)' <=> Answers(i, u)
    OBVIOUS
  <2>1. index'[u] = index[u] /\ index'[frames'[i].node] = index[frames[i].node]
    BY <1>3, <1>4
  <2>2. CASE i < n
    <3>1. i + 1 \in DOMAIN frames /\ i < Len(frames')
      BY <1>0, <2>2
    <3>2. index'[frames'[i + 1].node] = index[frames[i + 1].node]
      BY <1>3, <1>4, <3>1
    <3> QED
      BY <2>1, <2>2, <3>1, <3>2 DEF Answers
  <2>3. CASE i = n
    <3>1. index'[frames'[i + 1].node] = nextIndex /\ i < Len(frames') /\ ~(i < n)
      BY <1>0, <1>3, <1>4, <2>3
    <3> QED
      BY <1>0, <1>3, <2>1, <3>1 DEF Answers
  <2> QED
    BY <1>0, <2>2, <2>3
<1>9. \A i \in DOMAIN frames : ~Answers(i, v)'
  <2> SUFFICES ASSUME NEW i \in DOMAIN frames PROVE ~Answers(i, v)'
    OBVIOUS
  <2>1. i < Len(frames') /\ (i + 1 \in DOMAIN frames \/ i + 1 = n + 1)
    BY <1>0
  <2>2. ~(nextIndex < index'[frames'[i + 1].node])
    <3>1. CASE i + 1 \in DOMAIN frames
      <4>1. frames[i + 1].node \in onStack /\ frames'[i + 1].node = frames[i + 1].node
        BY <1>4, <3>1
      <4>2. index[frames[i + 1].node] \in Nat
        BY <1>1, <4>1
      <4> QED
        BY <1>1, <1>3, <4>1, <4>2
    <3>2. CASE i + 1 = n + 1
      BY <1>1, <1>3, <1>4, <3>2
    <3> QED
      BY <2>1, <3>1, <3>2
  <2> QED
    BY <1>3, <2>1, <2>2 DEF Answers
<1>10. \A u \in onStack : ~Answers(n + 1, u)' /\ ~(index'[v] <= index'[u])
  <2>1. \A u \in onStack : ~(nextIndex <= index'[u])
    BY <1>1, <1>3
  <2> QED
    BY <1>3, <1>4, <2>1 DEF Answers
<1>11. Answers(n + 1, v)'
  BY <1>0, <1>1, <1>3, <1>4 DEF Answers
<1>12. Answered'
  <2>1. n + 1 \in DOMAIN frames' /\ DOMAIN frames \subseteq DOMAIN frames'
    BY <1>0
  <2> QED
    BY <1>2, <1>8, <1>11, <2>1 DEF Answered
<1>13. \A i \in DOMAIN frames : Path(frames[i].node, v)
  <2> SUFFICES ASSUME NEW i \in DOMAIN frames PROVE Path(frames[i].node, v)
    OBVIOUS
  <2>1. n \in DOMAIN frames /\ frames # <<>> /\ Top(frames) = frames[n]
    BY <1>0 DEF Top
  <2>2. index[frames[i].node] <= index[frames[n].node]
    <3>1. CASE i = n
      BY <1>1, <1>4, <2>1, <3>1
    <3>2. CASE i < n
      <4>1. index[frames[i].node] < index[frames[n].node]
        BY <2>1, <3>2 DEF FramesOrdered
      <4>2. frames[i].node \in Method /\ frames[n].node \in Method
        BY <1>1, <1>4, <2>1
      <4> QED
        BY <1>1, <4>1, <4>2
    <3> QED
      BY <1>0, <3>1, <3>2
  <2>3. Path(frames[i].node, frames[n].node)
    BY <1>4, <2>1, <2>2 DEF Down
  <2> QED
    BY <1>1, <2>1, <2>3, PathCallee
<1>14. Down'
  <2> SUFFICES ASSUME NEW i \in DOMAIN frames', NEW u \in onStack',
                      index'[frames'[i].node] <= index'[u]
               PROVE  Path(frames'[i].node, u)
    BY <1>5 DEF Down, Path
  <2>1. CASE u = v
    BY <1>1, <1>4, <1>6, <1>13, <2>1, PathSelf
  <2>2. CASE u # v
    <3>1. u \in onStack
      BY <1>2, <2>2
    <3>2. i \in DOMAIN frames
      BY <1>4, <1>6, <1>10, <3>1
    <3> QED
      BY <1>3, <1>4, <3>1, <3>2 DEF Down
  <2> QED
    BY <2>1, <2>2
<1>15. Up'
  <2> SUFFICES ASSUME NEW i \in DOMAIN frames', NEW u \in onStack', Answers(i, u)'
               PROVE  Path(u, frames'[i].node)
    BY <1>5 DEF Up, Path
  <2>1. CASE u = v
    BY <1>1, <1>4, <1>6, <1>9, <2>1, PathSelf
  <2>2. CASE u # v
    <3>1. u \in onStack
      BY <1>2, <2>2
    <3>2. i \in DOMAIN frames
      BY <1>6, <1>10, <3>1
    <3> QED
      BY <1>4, <1>8, <3>1, <3>2 DEF Up
  <2> QED
    BY <2>1, <2>2
<1>16. Low'
  <2> SUFFICES ASSUME NEW i \in DOMAIN frames'
               PROVE  \E w \in onStack' : index'[w] = lowlink'[frames'[i].node]
                                          /\ Path(frames'[i].node, w)
    BY <1>5 DEF Low, Path
  <2>1. CASE i = n + 1
    BY <1>1, <1>2, <1>3, <1>4, <2>1, PathSelf
  <2>2. CASE i \in DOMAIN frames
    BY <1>2, <1>3, <1>4, <2>2 DEF Low
  <2> QED
    BY <1>6, <2>1, <2>2
<1> QED
  BY <1>7, <1>12, <1>14, <1>15, <1>16

LEMMA BackEdgeConnected ==
  ASSUME TarjanInv, Connected, BackEdge, UNCHANGED edges PROVE Connected'
<1> USE DEF TarjanInv, Connected
<1>1. PICK w \in Top(frames).rest :
         /\ Visited(w) /\ frames' = Advanced(w)
         /\ lowlink' = IF w \in onStack
                       THEN [lowlink EXCEPT ![Top(frames).node] = Min2(@, index[w])]
                       ELSE lowlink
  BY DEF BackEdge
<1>2. frames # <<>> /\ UNCHANGED <<edges, index, onStack>>
  BY DEF BackEdge
<1>3. PICK t : t = Top(frames).node
  OBVIOUS
<1>4. /\ DOMAIN frames = 1..Len(frames) /\ Len(frames) \in Nat \ {0}
      /\ Len(frames) \in DOMAIN frames /\ t = frames[Len(frames)].node
      /\ t \in Method /\ t \in onStack
      /\ Len(frames') = Len(frames) /\ DOMAIN frames' = DOMAIN frames
      /\ \A i \in DOMAIN frames :
            frames'[i].node = frames[i].node /\ frames'[i].rest \subseteq frames[i].rest
      /\ w \in edges[t]
  BY <1>1, <1>2, <1>3, AdvancedFrames DEF Top, FramesOrdered, RestCalled
<1>5. /\ index \in [Method -> Nat] /\ lowlink \in [Method -> Nat] /\ onStack \subseteq Method
      /\ edges \in [Method -> SUBSET Method]
  BY DEF Typed, TarjanTypeOK
<1>6. Paths' = Paths
  BY <1>2, PathsKept
<1>7. \A u : \A i \in DOMAIN frames : Answers(i, u)' <=> Answers(i, u)
  BY <1>2, <1>4 DEF Answers
<1>8. RestCalled' /\ Answered'
  BY <1>2, <1>4, <1>7 DEF RestCalled, Answered
<1>9. Down' /\ Up'
  BY <1>2, <1>4, <1>6, <1>7 DEF Down, Up, Path
<1>10. \/ lowlink' = lowlink
       \/ /\ w \in onStack /\ lowlink'[t] = index[w]
          /\ \A u \in Method : u # t => lowlink'[u] = lowlink[u]
  <2> DEFINE least == Min2(lowlink[t], index[w])
  <2>1. CASE w \notin onStack
    BY <1>1, <2>1
  <2>2. CASE w \in onStack
    <3>1. lowlink' = [lowlink EXCEPT ![t] = least]
      BY <1>1, <1>3, <2>2
    <3>2. least = lowlink[t] \/ least = index[w]
      BY DEF Min2
    <3> HIDE DEF least
    <3> QED
      BY <1>4, <1>5, <2>2, <3>1, <3>2
  <2> QED
    BY <2>1, <2>2
<1>11. Path(t, w)
  BY <1>4, <1>5, PathSelf, PathCallee
<1>12. Low'
  <2> SUFFICES ASSUME NEW i \in DOMAIN frames
               PROVE  \E x \in onStack : index[x] = lowlink'[frames[i].node]
                                         /\ Path(frames[i].node, x)
    BY <1>2, <1>4, <1>6 DEF Low, Path
  <2>1. frames[i].node \in Method
    BY <1>5 DEF FramesOrdered
  <2> QED
    BY <1>10, <1>11, <2>1 DEF Low
<1> QED
  BY <1>8, <1>9, <1>12

(* How closing a frame changes the lowlinks. *)
LEMMA ClosingLowlinks ==
  ASSUME TarjanInv, Closing, NEW i \in DOMAIN frames'
  PROVE  \/ lowlink'[frames[i].node] = lowlink[frames[i].node]
         \/ /\ i = Len(frames) - 1
            /\ lowlink'[frames[i].node] = lowlink[Top(frames).node]
            /\ lowlink[Top(frames).node] < lowlink[frames[i].node]
<1> DEFINE p == frames[Len(frames) - 1].node
           least == Min2(lowlink[p], lowlink[Top(frames).node])
<1>1. /\ Len(frames) \in Nat /\ DOMAIN frames = 1..Len(frames)
      /\ i \in 1..(Len(frames) - 1) /\ i \in DOMAIN frames
      /\ \A j \in DOMAIN frames : frames[j].node \in Method
  BY ClosingFrames
<1>2. lowlink \in [Method -> Nat] /\ index \in [Method -> Nat]
  BY DEF TarjanInv, Typed, TarjanTypeOK
<1>3. Len(frames) # 1 /\ Len(frames) - 1 \in DOMAIN frames /\ Len(frames) \in DOMAIN frames
  BY <1>1
<1>4. p \in Method /\ Top(frames).node \in Method
  BY <1>1, <1>3 DEF Top
<1>5. lowlink' = [lowlink EXCEPT ![p] = least]
  BY <1>3 DEF Closing, ReturnToParent
<1>6. \/ least = lowlink[p]
      \/ least = lowlink[Top(frames).node] /\ lowlink[Top(frames).node] < lowlink[p]
  BY <1>2, <1>4 DEF Min2
<1>7. i # Len(frames) - 1 => frames[i].node # p
  <2> SUFFICES ASSUME i # Len(frames) - 1 PROVE frames[i].node # p
    OBVIOUS
  <2>1. index[frames[i].node] < index[p]
    BY <1>1, <1>3 DEF TarjanInv, FramesOrdered
  <2> QED
    BY <1>2, <1>4, <2>1
<1> HIDE DEF least
<1>8. lowlink'[p] = least /\ \A u \in Method : u # p => lowlink'[u] = lowlink[u]
  BY <1>2, <1>4, <1>5
<1> QED
  BY <1>1, <1>6, <1>7, <1>8

(* A node that stays on the stack is answered for by the same frame, or, if the
   closed frame did, by its parent. *)
LEMMA ClosingAnswers ==
  ASSUME TarjanInv, Closing, NEW i \in DOMAIN frames', NEW u \in onStack
  PROVE  /\ Answers(i, u) => Answers(i, u)'
         /\ Answers(i, u)' => Answers(i, u) \/ (i = Len(frames) - 1 /\ Answers(Len(frames), u))
         /\ i = Len(frames) - 1 /\ Answers(Len(frames), u) => Answers(i, u)'
<1> DEFINE n == Len(frames)
<1>1. /\ n \in Nat /\ DOMAIN frames = 1..n /\ Len(frames') = n - 1
      /\ i \in 1..(n - 1) /\ DOMAIN frames' = 1..(n - 1)
      /\ \A j \in DOMAIN frames' : frames'[j] = frames[j]
      /\ \A j \in DOMAIN frames : frames[j].node \in Method
  BY ClosingFrames
<1>2. /\ index \in [Method -> Nat] /\ u \in Method /\ index' = index
      /\ \A j, k \in DOMAIN frames : j < k => index[frames[j].node] < index[frames[k].node]
  BY DEF TarjanInv, Typed, TarjanTypeOK, Closing, FramesOrdered
<1>3. /\ i \in DOMAIN frames /\ i + 1 \in DOMAIN frames /\ i < n
      /\ i < n - 1 => i + 1 \in DOMAIN frames'
      /\ n \in DOMAIN frames
  BY <1>1
<1>4. /\ index[u] \in Nat /\ index[frames[i].node] \in Nat
      /\ index[frames[i + 1].node] \in Nat /\ index[frames[n].node] \in Nat
  BY <1>1, <1>2, <1>3
<1>5. Answers(i, u)' <=> /\ index[frames[i].node] <= index[u]
                         /\ i < n - 1 => index[u] < index[frames[i + 1].node]
  BY <1>1, <1>2, <1>3 DEF Answers
<1>6. Answers(i, u) <=> /\ index[frames[i].node] <= index[u]
                        /\ index[u] < index[frames[i + 1].node]
  BY <1>1, <1>3 DEF Answers
<1>7. Answers(n, u) <=> index[frames[n].node] <= index[u]
  BY <1>1 DEF Answers
<1>8. index[frames[i].node] < index[frames[n].node]
  BY <1>2, <1>3
<1>9. i = n - 1 \/ i < n - 1
  BY <1>1
<1>10. i = n - 1 => i + 1 = n
  BY <1>1
<1> QED
  BY <1>1, <1>4, <1>5, <1>6, <1>7, <1>8, <1>9, <1>10

LEMMA ClosingRest == ASSUME TarjanInv, Connected, Closing PROVE RestCalled' /\ Paths' = Paths
<1>1. UNCHANGED edges
  BY DEF Closing
<1>2. \A i \in DOMAIN frames' : i \in DOMAIN frames /\ frames'[i] = frames[i]
  BY ClosingFrames
<1>3. RestCalled'
  BY <1>1, <1>2 DEF Connected, RestCalled
<1> QED
  BY <1>1, <1>3, PathsKept

LEMMA CloseInnerConnected ==
  ASSUME TarjanInv, Connected, Closing, UNCHANGED onStack, ~IsRoot(Top(frames).node)
  PROVE  Connected'
<1> USE DEF TarjanInv, Connected
<1>1. PICK v, n : v = Top(frames).node /\ n = Len(frames)
  OBVIOUS
<1>2. /\ n \in Nat \ {0} /\ DOMAIN frames = 1..n /\ DOMAIN frames' = 1..(n - 1)
      /\ \A i \in DOMAIN frames' : frames'[i] = frames[i] /\ i \in DOMAIN frames
      /\ \A i \in DOMAIN frames : frames[i].node \in onStack /\ frames[i].node \in Method
      /\ n \in DOMAIN frames /\ frames[n].node = v /\ UNCHANGED <<index, edges>>
  BY <1>1, ClosingFrames DEF FramesOrdered, Top, Closing
<1>3. /\ index \in [Method -> Nat] /\ lowlink \in [Method -> Nat] /\ onStack \subseteq Method
  BY DEF Typed, TarjanTypeOK
<1>4. PICK w \in onStack : index[w] = lowlink[v] /\ Path(v, w)
  BY <1>2 DEF Low
<1>5. index[w] < index[v]
  BY <1>1, <1>2, <1>3, <1>4 DEF Numbered, IsRoot
<1>6. PICK j \in DOMAIN frames : Answers(j, w)
  BY DEF Answered
<1>7. j < n /\ n - 1 \in DOMAIN frames /\ n - 1 \in DOMAIN frames'
  <2>1. j # n
    BY <1>2, <1>3, <1>5, <1>6 DEF Answers
  <2> QED
    BY <1>2, <2>1
<1>8. PICK p : p = frames[n - 1].node
  OBVIOUS
<1>9. Path(w, p)
  <2>1. Path(w, frames[j].node)
    BY <1>6 DEF Up
  <2>2. index[frames[j].node] <= index[p]
    <3>1. CASE j = n - 1
      BY <1>2, <1>3, <1>8, <3>1
    <3>2. CASE j < n - 1
      <4>1. index[frames[j].node] < index[p]
        BY <1>7, <1>8, <3>2 DEF FramesOrdered
      <4> QED
        BY <1>2, <1>3, <1>7, <1>8, <4>1, Z3
    <3> QED
      BY <1>2, <1>7, <3>1, <3>2
  <2>3. Path(frames[j].node, p)
    BY <1>2, <1>7, <1>8, <2>2 DEF Down
  <2> QED
    BY <2>1, <2>3, PathThrough
<1>10. Path(v, p)
  BY <1>4, <1>9, PathThrough
<1>11. Path(p, v)
  <2>1. index[p] < index[v]
    BY <1>2, <1>7, <1>8 DEF FramesOrdered
  <2> QED
    BY <1>2, <1>3, <1>7, <1>8, <2>1, SMTT(20) DEF Down
<1>12. RestCalled' /\ Paths' = Paths
  BY ClosingRest
<1>13. Answered'
  <2> SUFFICES ASSUME NEW u \in onStack PROVE \E i \in DOMAIN frames' : Answers(i, u)'
    BY DEF Answered
  <2>1. PICK i \in DOMAIN frames : Answers(i, u)
    BY DEF Answered
  <2>2. CASE i = n
    BY <1>1, <1>7, <2>1, <2>2, ClosingAnswers
  <2>3. CASE i # n
    <3>1. i \in DOMAIN frames'
      BY <1>2, <2>3
    <3> QED
      BY <2>1, <3>1, ClosingAnswers
  <2> QED
    BY <2>2, <2>3
<1>14. Down'
  BY <1>2, <1>12 DEF Down, Path
<1>15. Up'
  <2> SUFFICES ASSUME NEW i \in DOMAIN frames', NEW u \in onStack, Answers(i, u)'
               PROVE  Path(u, frames[i].node)
    BY <1>2, <1>12 DEF Up, Path
  <2>1. CASE Answers(i, u)
    BY <1>2, <2>1 DEF Up
  <2>2. CASE i = n - 1 /\ Answers(n, u)
    <3>1. Path(u, v)
      BY <1>2, <2>2 DEF Up
    <3> QED
      BY <1>8, <1>10, <2>2, <3>1, PathThrough
  <2> QED
    BY <1>1, <2>1, <2>2, ClosingAnswers
<1>16. Low'
  <2> SUFFICES ASSUME NEW i \in DOMAIN frames'
               PROVE  \E x \in onStack : index[x] = lowlink'[frames[i].node]
                                         /\ Path(frames[i].node, x)
    BY <1>2, <1>12 DEF Low, Path
  <2>1. CASE lowlink'[frames[i].node] = lowlink[frames[i].node]
    BY <1>2, <2>1 DEF Low
  <2>2. CASE i = n - 1 /\ lowlink'[frames[i].node] = lowlink[v]
    <3>1. Path(p, w)
      BY <1>4, <1>11, PathThrough
    <3> QED
      BY <1>4, <1>8, <2>2, <3>1
  <2> QED
    BY <1>1, <2>1, <2>2, ClosingLowlinks
<1> QED
  BY <1>12, <1>13, <1>14, <1>15, <1>16

LEMMA CloseRootConnected ==
  ASSUME TarjanInv, Connected, Closing, IsRoot(Top(frames).node), Popping(Top(frames).node)
  PROVE  Connected'
<1> USE DEF TarjanInv, Connected
<1>1. PICK v, n : v = Top(frames).node /\ n = Len(frames)
  OBVIOUS
<1>2. /\ n \in Nat \ {0} /\ DOMAIN frames = 1..n /\ DOMAIN frames' = 1..(n - 1)
      /\ \A i \in DOMAIN frames' : frames'[i] = frames[i] /\ i \in DOMAIN frames /\ i < n
      /\ \A i \in DOMAIN frames : frames[i].node \in onStack /\ frames[i].node \in Method
      /\ n \in DOMAIN frames /\ frames[n].node = v /\ UNCHANGED <<index, edges>>
  BY <1>1, ClosingFrames DEF FramesOrdered, Top, Closing
<1>3. /\ index \in [Method -> Nat] /\ lowlink \in [Method -> Nat] /\ onStack \subseteq Method
      /\ v \in Method /\ v \in onStack
  BY <1>2 DEF Typed, TarjanTypeOK
<1>4. onStack' = {u \in onStack : index[u] < index[v]}
  BY <1>1, <1>3, PoppedParts
<1>5. \A u \in onStack' : u \in onStack /\ ~Answers(n, u)
  BY <1>2, <1>3, <1>4 DEF Answers
<1>6. RestCalled' /\ Paths' = Paths
  BY ClosingRest
<1>7. Answered'
  <2> SUFFICES ASSUME NEW u \in onStack' PROVE \E i \in DOMAIN frames' : Answers(i, u)'
    BY DEF Answered
  <2>1. PICK i \in DOMAIN frames : Answers(i, u)
    BY <1>5 DEF Answered
  <2>2. i \in DOMAIN frames'
    BY <1>2, <1>5, <2>1
  <2> QED
    BY <1>5, <2>1, <2>2, ClosingAnswers
<1>8. Down'
  BY <1>2, <1>5, <1>6 DEF Down, Path
<1>9. Up'
  <2> SUFFICES ASSUME NEW i \in DOMAIN frames', NEW u \in onStack', Answers(i, u)'
               PROVE  Path(u, frames[i].node)
    BY <1>2, <1>6 DEF Up, Path
  <2>1. Answers(i, u)
    BY <1>1, <1>5, ClosingAnswers
  <2> QED
    BY <1>2, <1>5, <2>1 DEF Up
<1>10. Low'
  <2> SUFFICES ASSUME NEW i \in DOMAIN frames'
               PROVE  \E x \in onStack' : index[x] = lowlink'[frames[i].node]
                                          /\ Path(frames[i].node, x)
    BY <1>2, <1>6 DEF Low, Path
  <2>1. /\ i \in DOMAIN frames /\ frames[i].node \in Method
        /\ index[frames[i].node] < index[v] /\ lowlink[frames[i].node] <= index[frames[i].node]
    BY <1>2 DEF FramesOrdered, Numbered
  <2>2. lowlink[v] = index[v]
    BY <1>1 DEF IsRoot
  <2>3. ~(lowlink[v] < lowlink[frames[i].node])
    BY <1>3, <2>1, <2>2
  <2>4. lowlink'[frames[i].node] = lowlink[frames[i].node]
    BY <1>1, <2>3, ClosingLowlinks
  <2>5. PICK x \in onStack : index[x] = lowlink[frames[i].node] /\ Path(frames[i].node, x)
    BY <2>1 DEF Low
  <2>6. index[x] < index[v]
    BY <1>3, <2>1, <2>5
  <2> QED
    BY <1>4, <2>4, <2>5, <2>6
<1> QED
  BY <1>6, <1>7, <1>8, <1>9, <1>10

-----------------------------------------------------------------------------
(* A new component is a whole class of nodes that reach each other. *)

LEMMA EmittedClosed ==
  ASSUME TarjanInv PROVE AllEmitted \subseteq Method /\ Closed(AllEmitted)
<1>1. sccs \in Seq(Seq(Method)) /\ CalleesFirst
  BY DEF TarjanInv, Typed, TarjanTypeOK
<1>2. ASSUME NEW k \in DOMAIN sccs
      PROVE  Members(k) \subseteq Method /\ Emitted(k) \subseteq AllEmitted
  <2>1. sccs[k] \in Seq(Method) /\ 1..k \subseteq DOMAIN sccs
    BY <1>1
  <2>2. Members(k) \subseteq Method
    BY <2>1 DEF Members
  <2>3. Emitted(k) \subseteq AllEmitted
    BY <2>1 DEF Emitted, AllEmitted
  <2> QED
    BY <2>2, <2>3
<1>3. AllEmitted \subseteq Method
  BY <1>2 DEF AllEmitted
<1>4. ASSUME NEW m \in AllEmitted PROVE edges[m] \subseteq AllEmitted
  <2>1. PICK k \in DOMAIN sccs : m \in Members(k)
    BY DEF AllEmitted
  <2>2. edges[m] \subseteq Emitted(k)
    BY <1>1, <2>1 DEF CalleesFirst
  <2> QED
    BY <1>2, <2>2
<1> QED
  BY <1>3, <1>4 DEF Closed

LEMMA FoundExact ==
  ASSUME TarjanInv, Connected, Closing, IsRoot(Top(frames).node)
  PROVE  LET found == {u \in onStack : index[Top(frames).node] <= index[u]}
         IN  \A a \in found : found = {w \in Method : Path(a, w) /\ Path(w, a)}
<1> USE DEF TarjanInv, Connected
<1> DEFINE v == Top(frames).node
           n == Len(frames)
           found == {u \in onStack : index[v] <= index[u]}
<1>1. /\ n \in DOMAIN frames /\ frames[n].node = v /\ DOMAIN frames = 1..n /\ n \in Nat
      /\ onStack \subseteq Method
  BY ClosingFrames DEF Top, Typed, TarjanTypeOK
<1>2. \A u \in found : Path(u, v) /\ Path(v, u) /\ u \in Method
  <2> SUFFICES ASSUME NEW u \in found PROVE Path(u, v) /\ Path(v, u) /\ u \in Method
    OBVIOUS
  <2>1. Answers(n, u)
    BY <1>1 DEF Answers
  <2> QED
    BY <1>1, <2>1 DEF Up, Down
<1>3. /\ \A u \in found : edges[u] \subseteq AllEmitted \cup found
      /\ AllEmitted \subseteq Method /\ Closed(AllEmitted)
      /\ AllEmitted \cap found = {}
  BY FoundClosed, EmittedClosed DEF Placed
<1> SUFFICES ASSUME NEW a \in found, NEW w \in Method
             PROVE  w \in found <=> Path(a, w) /\ Path(w, a)
  BY <1>2
<1> HIDE DEF found, v, n
<1>4. ASSUME w \in found PROVE Path(a, w) /\ Path(w, a)
  BY <1>2, <1>4, PathThrough
<1>5. ASSUME Path(a, w), Path(w, a) PROVE w \in found
  <2>1. AllEmitted \cup found \in SUBSET Method /\ Closed(AllEmitted \cup found)
    BY <1>2, <1>3 DEF Closed
  <2>2. w \in AllEmitted \cup found
    BY <1>5, <2>1, PathInside
  <2>3. w \notin AllEmitted
    BY <1>3, <1>5, PathInside
  <2> QED
    BY <2>2, <2>3
<1> QED
  BY <1>4, <1>5

(* finish_component_if_root pushes no node twice. *)
LEMMA FoundOnce ==
  ASSUME Typed, StackOrdered, NEW v \in onStack
  PROVE  Cardinality(Elements(Component(v))) = Len(Component(v))
<1> DEFINE p == PlaceOf(v)
           n == Len(stack)
           c == Component(v)
<1>1. stack \in Seq(Method) /\ DOMAIN stack = 1..n /\ n \in Nat
  BY DEF Typed, TarjanTypeOK
<1>2. p \in 1..n
  BY <1>1 DEF StackOrdered, PlaceOf
<1>3. n - p + 1 \in Nat /\ c = [i \in 1..(n - p + 1) |-> stack[n - i + 1]]
  BY <1>1, <1>2 DEF Component
<1>4. Len(c) = n - p + 1 /\ DOMAIN c = 1..(n - p + 1)
  BY <1>3
<1>5. \A i \in 1..(n - p + 1) : n - i + 1 \in 1..n /\ c[i] = stack[n - i + 1]
  BY <1>1, <1>2, <1>3
<1>6. \A i, j \in 1..n : i # j => stack[i] # stack[j]
  <2> SUFFICES ASSUME NEW i \in 1..n, NEW j \in 1..n, i # j PROVE stack[i] # stack[j]
    OBVIOUS
  <2>1. i < j \/ j < i
    BY <1>1
  <2>2. index[stack[i]] < index[stack[j]] \/ index[stack[j]] < index[stack[i]]
    BY <1>1, <2>1 DEF StackOrdered
  <2>3. index[stack[i]] \in Nat /\ index[stack[j]] \in Nat
    BY <1>1 DEF Typed, TarjanTypeOK
  <2> QED
    BY <2>2, <2>3
<1>7. \A i, j \in 1..(n - p + 1) : c[i] = c[j] => i = j
  <2> SUFFICES ASSUME NEW i \in 1..(n - p + 1), NEW j \in 1..(n - p + 1), i # j
               PROVE  c[i] # c[j]
    OBVIOUS
  <2>1. n - i + 1 # n - j + 1
    BY <1>1, <1>2
  <2> QED
    BY <1>5, <1>6, <2>1
<1>8. c \in [1..(n - p + 1) -> Elements(c)]
  BY <1>3, <1>4 DEF Elements
<1> HIDE DEF p, n, c
<1>9. c \in Bijection(1..(n - p + 1), Elements(c))
  <2>1. IsInjective(c)
    BY <1>4, <1>7 DEF IsInjective
  <2>2. \A t \in Elements(c) : \E i \in 1..(n - p + 1) : c[i] = t
    BY <1>4 DEF Elements
  <2> QED
    BY <1>8, <2>1, <2>2 DEF Bijection, Injection, Surjection
<1>10. ExistsBijection(1..(n - p + 1), Elements(c))
  BY <1>9 DEF ExistsBijection
<1>11. Cardinality(Elements(c)) = n - p + 1
  BY <1>3, <1>10, FS_CountingElements
<1> QED
  BY <1>4, <1>11 DEF c

ExactPaths == \A k \in DOMAIN sccs :
    /\ \A a \in Elements(sccs[k]) :
          Elements(sccs[k]) = {w \in Method : Path(a, w) /\ Path(w, a)}
    /\ Cardinality(Elements(sccs[k])) = Len(sccs[k])

ExactInv == TarjanInv /\ Connected /\ ExactPaths

LEMMA ExactKept ==
  ASSUME ExactPaths, UNCHANGED <<edges, sccs>> PROVE ExactPaths'
<1>1. Paths' = Paths
  BY PathsKept
<1> QED
  BY <1>1 DEF ExactPaths, Path

LEMMA CloseRootExact ==
  ASSUME ExactInv, Closing, IsRoot(Top(frames).node), Popping(Top(frames).node)
  PROVE  ExactPaths'
<1> USE DEF ExactInv, TarjanInv
<1> DEFINE v == Top(frames).node
           found == {u \in onStack : index[v] <= index[u]}
<1>1. /\ v \in onStack /\ sccs \in Seq(Seq(Method)) /\ UNCHANGED edges
  BY ClosingFrames DEF FramesOrdered, Top, Closing, Typed, TarjanTypeOK
<1>2. /\ sccs' = Append(sccs, Component(v)) /\ Component(v) \in Seq(Method)
      /\ Elements(Component(v)) = found
  BY <1>1, PoppedParts DEF Popping, Elements
<1>3. /\ DOMAIN sccs' = DOMAIN sccs \cup {Len(sccs) + 1}
      /\ \A k \in DOMAIN sccs : sccs'[k] = sccs[k]
      /\ sccs'[Len(sccs) + 1] = Component(v)
  BY <1>1, <1>2
<1> DEFINE exact(c) ==
             /\ \A a \in Elements(c) :
                   Elements(c) = {w \in Method : <<a, w>> \in Paths /\ <<w, a>> \in Paths}
             /\ Cardinality(Elements(c)) = Len(c)
<1>4. exact(Component(v))
  <2>1. \A a \in found : found = {w \in Method : Path(a, w) /\ Path(w, a)}
    BY FoundExact
  <2>2. Cardinality(Elements(Component(v))) = Len(Component(v))
    BY <1>1, FoundOnce
  <2> QED
    BY <1>2, <2>1, <2>2 DEF Path
<1>5. \A k \in DOMAIN sccs : exact(sccs[k])
  BY DEF ExactPaths, Path
<1> HIDE DEF exact, v, found
<1>6. \A k \in DOMAIN sccs' : exact(sccs'[k])
  BY <1>3, <1>4, <1>5
<1>7. Paths' = Paths
  BY <1>1, PathsKept
<1> QED
  BY <1>6, <1>7 DEF exact, ExactPaths, Path

LEMMA ExactlyTheComponents == ASSUME ExactInv PROVE ComponentsAreExact
<1>1. ASSUME NEW k \in DOMAIN sccs, NEW a \in Members(k)
      PROVE  Members(k) = {w \in Method : Reaches(a, w) /\ Reaches(w, a)}
  <2>1. Members(k) = {w \in Method : Path(a, w) /\ Path(w, a)}
    BY <1>1 DEF ExactInv, ExactPaths, Members, Elements
  <2>2. a \in Method
    BY <1>1, <2>1
  <2>3. \A w \in Method : /\ Path(a, w) <=> Reaches(a, w)
                          /\ Path(w, a) <=> Reaches(w, a)
    BY <2>2 DEF Path, Paths
  <2> QED
    BY <2>1, <2>3
<1>2. \A k \in DOMAIN sccs : Cardinality(Members(k)) = Len(sccs[k])
  BY DEF ExactInv, ExactPaths, Members, Elements
<1> QED
  BY <1>1, <1>2 DEF ComponentsAreExact, ExactInv, TarjanInv, Disjoint

(* Every step of the algorithm keeps the components exact. *)
LEMMA ExactStep ==
  ASSUME ExactInv, TarjanStep, UNCHANGED edges PROVE ExactInv'
<1> USE DEF ExactInv
<1>1. TarjanInv'
  BY TarjanStepInv
<1>2. CASE StartRoot
  <2>1. PICK v \in Method : ~Visited(v) /\ Visit(v, frames)
    BY <1>2 DEF StartRoot
  <2>2. frames = <<>> /\ frames \in Seq(Frame) /\ DOMAIN frames = {} /\ UNCHANGED sccs
    BY <1>2 DEF StartRoot, TarjanInv, Typed, TarjanTypeOK
  <2>3. Entered(v, frames)
    BY <2>1, <2>2 DEF Entered
  <2> QED
    BY <1>1, <2>2, <2>3, EnteredConnected, ExactKept
<1>3. CASE Descend
  <2>1. PICK w \in Top(frames).rest : ~Visited(w) /\ Visit(w, Advanced(w))
    BY <1>3 DEF Descend
  <2>2. frames # <<>> /\ UNCHANGED sccs /\ Typed
    BY <1>3 DEF Descend, TarjanInv
  <2>3. Entered(w, Advanced(w))
    BY <2>1, <2>2, AdvancedFrames DEF Entered, Top
  <2>4. w \in edges[Top(frames).node]
    BY <2>1, <2>2, AdvancedFrames DEF Connected, RestCalled, Top
  <2> QED
    BY <1>1, <2>2, <2>3, <2>4, EnteredConnected, ExactKept
<1>4. CASE BackEdge
  BY <1>1, <1>4, BackEdgeConnected, ExactKept DEF BackEdge
<1>5. CASE CloseFrame
  <2>1. Closing
    BY <1>5 DEF CloseFrame, Closing
  <2>2. CASE IsRoot(Top(frames).node)
    <3>1. Popping(Top(frames).node)
      BY <1>5, <2>2 DEF CloseFrame, Popping
    <3> QED
      BY <1>1, <2>1, <2>2, <3>1, CloseRootConnected, CloseRootExact
  <2>3. CASE ~IsRoot(Top(frames).node)
    BY <1>1, <1>5, <2>1, <2>3, CloseInnerConnected, ExactKept DEF CloseFrame
  <2> QED
    BY <2>2, <2>3
<1> QED
  BY <1>2, <1>3, <1>4, <1>5 DEF TarjanStep

-----------------------------------------------------------------------------
(* The phases of the batch. *)
BeforeSolve == phase \in {"build", "components", "mark"}

(* What the phases have done so far. *)
PhaseInv ==
    /\ phase = "build" => TarjanInit
    /\ phase # "build" =>
          /\ edges = [m \in Method |-> callees[m] \cap Method]
          /\ selfCalls = {m \in Method : m \in callees[m]}
    /\ BeforeSolve => SolveInit

ComponentsInv ==
    /\ GraphTypeOK /\ TarjanInv /\ PhaseInv /\ SolveTypeOK
    /\ ~BeforeSolve => comp <= Len(sccs) + 1

LEMMA BuiltInv ==
  ASSUME TarjanInit, UNCHANGED tarjanVars, edges' \in [Method -> SUBSET Method]
  PROVE  TarjanInv'
<1>1. Typed' /\ AllEmitted' = {} /\ onStack' = {} /\ stack' = <<>> /\ frames' = <<>> /\ sccs' = <<>>
  BY DEF TarjanInit, tarjanVars, Typed, TarjanTypeOK, AllEmitted
<1>2. \A v \in Method : index'[v] = 0 /\ lowlink'[v] = 0 /\ nextIndex' = 1
  BY DEF TarjanInit, tarjanVars
<1> QED
  BY <1>1, <1>2 DEF TarjanInv, StackOrdered, Numbered, FramesOrdered, Placed,
     SeenVisited, Covered, Disjoint, CalleesFirst, Visited

(* A visit. *)
LEMMA ResultType ==
  ASSUME GraphTypeOK, analysis \in Analysis, NEW m \in Method, NEW f \in Store
  PROVE  Result(m, f) \in Store
<1>1. edges[m] \in SUBSET Method
  BY DEF GraphTypeOK
<1> QED
  BY <1>1, TransferAssumption DEF Result

LEMMA ResultMonotone ==
  ASSUME GraphTypeOK, analysis \in Monotone, NEW m \in Method,
         NEW f \in Store, NEW g \in Store, Leq(f, g)
  PROVE  Leq(Result(m, f), Result(m, g))
<1>1. edges[m] \in SUBSET Method
  BY DEF GraphTypeOK
<1> QED
  BY <1>1 DEF Result, Monotone

(* What an analysis that carries facts up writes into a method's summary. *)
Own(m, f) == Transfer(analysis, m, edges[m], [w \in Method |-> IF w \in edges[m] THEN f[w] ELSE 0])[m]

LEMMA ResultUpward ==
  ASSUME GraphTypeOK, analysis \in Upward, NEW m \in Method, NEW f \in Store
  PROVE  /\ Result(m, f) = [f EXCEPT ![m] = Own(m, f)]
         /\ Result(m, f) = f <=> Own(m, f) = f[m]
<1>1. edges[m] \in SUBSET Method
  BY DEF GraphTypeOK
<1>2. Result(m, f) = [f EXCEPT ![m] = Own(m, f)]
  BY <1>1 DEF Result, Upward, Own
<1> QED
  BY <1>2 DEF Store

LEMMA OwnIsLocal ==
  ASSUME NEW m, NEW f, NEW g, \A w \in edges[m] : f[w] = g[w]
  PROVE  Own(m, f) = Own(m, g)
<1>1. [w \in Method |-> IF w \in edges[m] THEN f[w] ELSE 0]
      = [w \in Method |-> IF w \in edges[m] THEN g[w] ELSE 0]
  OBVIOUS
<1> QED
  BY <1>1 DEF Own

LEMMA VisitedMember ==
  ASSUME ComponentsInv, VisitMember
  PROVE  /\ comp \in DOMAIN sccs /\ pos \in DOMAIN sccs[comp]
         /\ sccs[comp][pos] \in Method
         /\ sccs[comp][pos] \in Members(comp)
<1>1. comp \in 1..Len(sccs) /\ sccs \in Seq(Seq(Method))
  BY DEF ComponentsInv, VisitMember, Solving, SolveTypeOK, TarjanInv, Typed, TarjanTypeOK
<1>2. sccs[comp] \in Seq(Method) /\ pos \in 1..Len(sccs[comp])
  BY <1>1 DEF ComponentsInv, VisitMember, SolveTypeOK
<1> QED
  BY <1>1, <1>2 DEF Members

LEMMA ComponentsInit == ASSUME Init PROVE ComponentsInv
<1>1. GraphTypeOK /\ edges \in [Method -> SUBSET Method]
  BY WorldsAssumption DEF Init, GraphInit, GraphTypeOK, Phase
<1>2. TarjanInit /\ SolveInit /\ phase = "build"
  BY DEF Init, GraphInit
<1>3. SolveTypeOK
  <2>1. 0 \in Summary
    BY HeightAssumption DEF Summary
  <2>2. summary \in Store
    BY <1>2, <2>1 DEF SolveInit, Store
  <2>3. analysis \in Analysis /\ maxIterations \in Nat /\ capped \subseteq Nat
    BY <1>2, CallsAssumption DEF SolveInit
  <2>4. comp \in Nat \ {0} /\ round \in Nat \ {0} /\ pos \in Nat \ {0}
    BY <1>2 DEF SolveInit
  <2>5. changed \in BOOLEAN
    BY <1>2 DEF SolveInit
  <2> QED
    BY <2>2, <2>3, <2>4, <2>5 DEF SolveTypeOK
<1> QED
  BY <1>1, <1>2, <1>3, TarjanInitInv DEF ComponentsInv, PhaseInv, BeforeSolve

LEMMA SolveKept ==
  ASSUME UNCHANGED solveVars
  PROVE  (SolveInit <=> SolveInit') /\ (SolveTypeOK <=> SolveTypeOK')
<1>1. UNCHANGED <<analysis, maxIterations, summary, comp, round, pos, changed, capped>>
  BY DEF solveVars, callVars
<1> QED
  BY <1>1 DEF SolveInit, SolveTypeOK

LEMMA ComponentsStep == ASSUME ComponentsInv, [Next]_vars PROVE ComponentsInv'
<1> USE DEF ComponentsInv
<1>1. ASSUME UNCHANGED <<graphVars, tarjanVars>>, phase' \in Phase
      PROVE  GraphTypeOK' /\ TarjanInv'
  <2>1. GraphTypeOK'
    BY <1>1 DEF GraphTypeOK, graphVars
  <2>2. UNCHANGED <<edges, index, lowlink, onStack, stack, frames, nextIndex, sccs>>
    BY <1>1 DEF graphVars, tarjanVars
  <2>3. Typed' /\ StackOrdered' /\ Numbered' /\ FramesOrdered' /\ SeenVisited'
    BY <2>2 DEF TarjanInv, Typed, TarjanTypeOK, StackOrdered, Numbered, FramesOrdered,
       SeenVisited, Seen, OnFrame, Visited
  <2>4. AllEmitted' = AllEmitted
    BY <2>2 DEF AllEmitted, Members
  <2>5. Placed'
    BY <2>2, <2>4 DEF TarjanInv, Placed, Visited
  <2>6. Covered'
    BY <2>2 DEF TarjanInv, Covered, Seen, OnFrame, Answers
  <2>7. Disjoint'
    BY <2>2 DEF TarjanInv, Disjoint, Members
  <2>8. CalleesFirst'
    BY <2>2 DEF TarjanInv, CalleesFirst, Emitted, Members
  <2> QED
    BY <2>1, <2>3, <2>5, <2>6, <2>7, <2>8 DEF TarjanInv
<1>2. CASE Build
  <2>1. edges' \in [Method -> SUBSET Method] /\ GraphTypeOK'
    BY <1>2 DEF Build, FromEdges, GraphTypeOK, Phase
  <2>2. TarjanInv'
    BY <1>2, <2>1, BuiltInv DEF Build, PhaseInv
  <2> QED
    BY <1>2, <2>1, <2>2 DEF Build, FromEdges, PhaseInv, BeforeSolve, SolveInit, SolveTypeOK, solveVars, callVars
<1>3. CASE Components
  <2>1. GraphTypeOK' /\ UNCHANGED <<graphVars, phase>> /\ UNCHANGED solveVars
    BY <1>3 DEF Components, GraphTypeOK, graphVars
  <2>2. TarjanInv'
    BY <1>3, TarjanStepInv DEF Components, graphVars
  <2> QED
    BY <1>3, <2>1, <2>2, SolveKept DEF Components, PhaseInv, BeforeSolve, graphVars
<1>4. CASE StartMarking \/ Marking
  <2>1. /\ UNCHANGED <<graphVars, tarjanVars>> /\ UNCHANGED solveVars
        /\ phase \in {"components", "mark"}
        /\ phase' \in {"mark", "solve"}
    BY <1>4 DEF StartMarking, Marking
  <2>2. GraphTypeOK' /\ TarjanInv'
    BY <1>1, <2>1 DEF Phase
  <2>3. PhaseInv' /\ SolveTypeOK'
    BY <2>1, SolveKept DEF PhaseInv, BeforeSolve, graphVars
  <2>4. comp' = 1 /\ Len(sccs') \in Nat
    BY <2>1, <2>2 DEF PhaseInv, BeforeSolve, SolveInit, solveVars, TarjanInv, Typed, TarjanTypeOK
  <2> QED
    BY <2>2, <2>3, <2>4
<1>5. CASE Solve
  <2>1. UNCHANGED <<graphVars, tarjanVars, phase>> /\ phase = "solve" /\ SolveStep
    BY <1>5 DEF Solve
  <2>2. GraphTypeOK' /\ TarjanInv'
    BY <1>1, <2>1 DEF Phase
  <2>3. PhaseInv'
    BY <2>1 DEF PhaseInv, BeforeSolve, graphVars
  <2>4. Len(sccs) \in Nat /\ UNCHANGED sccs
    BY <2>1 DEF TarjanInv, Typed, TarjanTypeOK, tarjanVars
  <2>5. SolveTypeOK' /\ comp' <= Len(sccs) + 1
    <3>1. CASE VisitMember
      <4>1. summary' \in Store
        BY <3>1, VisitedMember, ResultType DEF SolveTypeOK, VisitMember
      <4>2. changed' \in BOOLEAN
        BY <3>1 DEF VisitMember, SolveTypeOK
      <4>3. pos' \in Nat \ {0} /\ UNCHANGED <<callVars, comp, round, capped>>
        BY <3>1 DEF VisitMember, SolveTypeOK
      <4> QED
        BY <2>1, <4>1, <4>2, <4>3 DEF SolveTypeOK, BeforeSolve, callVars
    <3>2. CASE NextRound
      <4>1. /\ round' = round + 1 /\ pos' = 1 /\ changed' = FALSE
            /\ UNCHANGED <<analysis, maxIterations, summary, comp, capped>>
        BY <3>2 DEF NextRound, callVars
      <4>2. changed' \in BOOLEAN
        BY <4>1
      <4>3. /\ analysis' \in Analysis /\ maxIterations' \in Nat /\ summary' \in Store
            /\ comp' \in Nat \ {0} /\ capped' \subseteq Nat
            /\ comp <= Len(sccs) + 1
        BY <2>1, <4>1 DEF SolveTypeOK, BeforeSolve
      <4>4. round' \in Nat \ {0} /\ pos' \in Nat \ {0}
        BY <4>1 DEF SolveTypeOK
      <4> QED
        BY <4>1, <4>2, <4>3, <4>4 DEF SolveTypeOK
    <3>3. CASE Settle \/ GiveUp
      <4>1. /\ comp <= Len(sccs) /\ comp' = comp + 1 /\ round' = 1 /\ pos' = 1
            /\ changed' = FALSE /\ UNCHANGED <<analysis, maxIterations, summary>>
            /\ capped' = capped \/ capped' = capped \cup {comp}
        BY <3>3 DEF Settle, GiveUp, RoundOver, Solving, LeaveComponent, callVars
      <4>2. comp \in Nat \ {0} /\ capped \subseteq Nat
        BY DEF SolveTypeOK
      <4>3. /\ comp' \in Nat \ {0} /\ comp' <= Len(sccs) + 1
            /\ round' \in Nat \ {0} /\ pos' \in Nat \ {0}
        BY <2>4, <4>1, <4>2
      <4>4. capped' \subseteq Nat
        BY <4>1, <4>2
      <4>5. changed' \in BOOLEAN
        BY <4>1
      <4>6. analysis' \in Analysis /\ maxIterations' \in Nat /\ summary' \in Store
        BY <4>1 DEF SolveTypeOK
      <4> QED
        BY <4>3, <4>4, <4>5, <4>6 DEF SolveTypeOK
    <3> QED
      BY <2>1, <3>1, <3>2, <3>3 DEF SolveStep
  <2> QED
    BY <2>1, <2>2, <2>3, <2>4, <2>5
<1>6. CASE Return
  <2>1. UNCHANGED <<graphVars, tarjanVars>> /\ UNCHANGED solveVars /\ UNCHANGED <<comp, sccs>>
    BY <1>6 DEF Return, solveVars, tarjanVars
  <2>2. phase = "solve" /\ phase' = "done"
    BY <1>6 DEF Return
  <2> QED
    BY <1>1, <2>1, <2>2, SolveKept DEF Phase, PhaseInv, BeforeSolve, graphVars
<1>7. CASE UNCHANGED vars
  <2>1. /\ UNCHANGED <<graphVars, tarjanVars>> /\ UNCHANGED solveVars
        /\ UNCHANGED <<comp, sccs, phase>>
    BY <1>7 DEF vars, solveVars, tarjanVars
  <2>2. GraphTypeOK'
    BY <2>1 DEF GraphTypeOK, graphVars
  <2>3. PhaseInv'
    BY <2>1, SolveKept DEF PhaseInv, BeforeSolve, TarjanInit, graphVars, tarjanVars
  <2> QED
    BY <1>1, <2>1, <2>2, <2>3, SolveKept DEF BeforeSolve, GraphTypeOK
<1> QED
  BY <1>2, <1>3, <1>4, <1>5, <1>6, <1>7 DEF Next, Step, Finished

(* Components come out callees first: whatever a member of one calls is in it
   or in one found before. *)
THEOREM ComponentOrder == Spec => []CalleesFirst
<1>1. Init => ComponentsInv
  BY ComponentsInit
<1>2. ComponentsInv /\ [Next]_vars => ComponentsInv'
  BY ComponentsStep
<1>3. ComponentsInv => CalleesFirst
  BY DEF ComponentsInv, TarjanInv
<1> QED
  BY <1>1, <1>2, <1>3, PTL DEF Spec

ExactComponentsInv ==
    /\ ComponentsInv
    /\ Connected /\ ExactPaths

LEMMA NothingVisited ==
  ASSUME TarjanInit PROVE Connected /\ ExactPaths
BY DEF TarjanInit, Connected, RestCalled, Answered, Down, Up, Low, ExactPaths

LEMMA ConnectedKept ==
  ASSUME Connected, ExactPaths, UNCHANGED <<graphVars, tarjanVars>>
  PROVE  Connected' /\ ExactPaths'
<1>1. Paths' = Paths /\ UNCHANGED <<edges, index, lowlink, onStack, frames, sccs>>
  BY PathsKept DEF graphVars, tarjanVars
<1>2. RestCalled' /\ Answered'
  BY <1>1 DEF Connected, RestCalled, Answered, Answers
<1>3. Down' /\ Up' /\ Low'
  BY <1>1 DEF Connected, Down, Up, Low, Answers, Path
<1>4. ExactPaths'
  BY <1>1, ExactKept
<1> QED
  BY <1>2, <1>3, <1>4 DEF Connected

LEMMA BuiltConnected ==
  ASSUME TarjanInit, UNCHANGED tarjanVars PROVE Connected' /\ ExactPaths'
<1>1. frames' = <<>> /\ onStack' = {} /\ sccs' = <<>>
  BY DEF TarjanInit, tarjanVars
<1> QED
  BY <1>1 DEF Connected, RestCalled, Answered, Down, Up, Low, ExactPaths

LEMMA ExactComponentsStep ==
  ASSUME ExactComponentsInv, [Next]_vars PROVE ExactComponentsInv'
<1>1. ComponentsInv /\ ComponentsInv'
  BY ComponentsStep DEF ExactComponentsInv
<1>2. CASE Build
  BY <1>1, <1>2, BuiltConnected DEF Build, ComponentsInv, PhaseInv, ExactComponentsInv
<1>3. CASE Components
  <2>1. TarjanStep /\ UNCHANGED edges /\ ExactInv
    BY <1>3 DEF Components, graphVars, ExactComponentsInv, ComponentsInv, ExactInv
  <2> QED
    BY <1>1, <2>1, ExactStep DEF ExactInv, ExactComponentsInv
<1>4. CASE StartMarking \/ Marking \/ Solve \/ Return \/ UNCHANGED vars
  <2>1. UNCHANGED <<graphVars, tarjanVars>>
    BY <1>4 DEF StartMarking, Marking, Solve, Return, vars
  <2> QED
    BY <1>1, <2>1, ConnectedKept DEF ExactComponentsInv
<1> QED
  BY <1>2, <1>3, <1>4 DEF Next, Step, Finished

(* A component is a whole class of methods that reach each other through the
   calls, with every method listed once. *)
THEOREM ExactComponents == Spec => []ComponentsAreExact
<1>1. Init => ExactComponentsInv
  BY ComponentsInit, NothingVisited DEF Init, ExactComponentsInv
<1>2. ExactComponentsInv /\ [Next]_vars => ExactComponentsInv'
  BY ExactComponentsStep
<1>3. ExactComponentsInv => ComponentsAreExact
  BY ExactlyTheComponents DEF ExactComponentsInv, ComponentsInv, ExactInv
<1> QED
  BY <1>1, <1>2, <1>3, PTL DEF Spec

-----------------------------------------------------------------------------
(* Solved components stay solved. *)

Idle(m) == Result(m, summary) = summary

(* In a round without a change the members visited so far would change nothing;
   in the one round of a component that is not recursive neither, if facts go up. *)
RoundInv ==
    Solving /\ (~changed \/ (analysis \in Upward /\ ~IsRecursive(sccs[comp]))) =>
        \A i \in 1..(pos - 1) : i \in DOMAIN sccs[comp] => Idle(sccs[comp][i])

Lasting ==
    analysis \in Upward =>
        \A k \in 1..(comp - 1) : k \notin capped => \A m \in Members(k) : Idle(m)

SolvedInv == ComponentsInv /\ RoundInv /\ Lasting

(* A component that is not recursive calls only earlier ones. *)
LEMMA NotRecursive ==
  ASSUME ComponentsInv, phase = "solve", VisitMember, ~IsRecursive(sccs[comp])
  PROVE  pos = 1 /\ sccs[comp][1] \notin edges[sccs[comp][1]]
<1>1. /\ comp \in DOMAIN sccs /\ pos \in DOMAIN sccs[comp] /\ sccs[comp][pos] \in Method
      /\ sccs \in Seq(Seq(Method))
  BY VisitedMember DEF ComponentsInv, TarjanInv, Typed, TarjanTypeOK
<1>2. sccs[comp] \in Seq(Method)
  BY <1>1
<1>3. pos \in 1..Len(sccs[comp]) /\ Len(sccs[comp]) \in Nat /\ sccs[comp] # <<>>
  BY <1>1, <1>2
<1>4. Len(sccs[comp]) <= 1 /\ sccs[comp][1] \notin selfCalls
  BY <1>3 DEF IsRecursive
<1>5. pos = 1
  BY <1>3, <1>4
<1> QED
  BY <1>1, <1>4, <1>5 DEF ComponentsInv, PhaseInv

(* Where facts go up, a visit leaves alone what an earlier component has. *)
LEMMA EarlierUntouched ==
  ASSUME ComponentsInv, VisitMember, analysis \in Upward, UNCHANGED edges,
         NEW k \in 1..(comp - 1), NEW m \in Members(k), Idle(m)
  PROVE  Idle(m)'
<1> DEFINE v == sccs[comp][pos]
<1>1. comp \in DOMAIN sccs /\ v \in Members(comp) /\ v \in Method
  BY VisitedMember
<1>2. /\ comp \in Nat \ {0} /\ summary \in Store
      /\ sccs \in Seq(Seq(Method)) /\ edges \in [Method -> SUBSET Method]
      /\ Disjoint /\ CalleesFirst /\ GraphTypeOK
  BY DEF ComponentsInv, SolveTypeOK, TarjanInv, Typed, TarjanTypeOK
<1>3. k \in DOMAIN sccs /\ \A j \in 1..k : j \in DOMAIN sccs /\ j # comp
  BY <1>1, <1>2
<1>4. \A j \in 1..k : v \notin Members(j)
  BY <1>1, <1>2, <1>3 DEF Disjoint
<1>5. m # v /\ v \notin edges[m]
  <2>1. edges[m] \subseteq Emitted(k) /\ k \in 1..k
    BY <1>2, <1>3 DEF CalleesFirst
  <2> QED
    BY <1>4, <2>1 DEF Emitted
<1>6. m \in Method
  <2>1. sccs[k] \in Seq(Method)
    BY <1>2, <1>3
  <2> QED
    BY <2>1 DEF Members
<1>7. summary' = [summary EXCEPT ![v] = Own(v, summary)]
  BY <1>1, <1>2, ResultUpward DEF VisitMember
<1>8. \A w \in edges[m] : summary[w] = summary'[w]
  BY <1>2, <1>5, <1>6, <1>7 DEF Store
<1>9. Own(m, summary') = Own(m, summary) /\ summary'[m] = summary[m]
  BY <1>2, <1>5, <1>6, <1>7, <1>8, OwnIsLocal DEF Store
<1>10. summary' \in Store
  BY <1>1, <1>2, ResultType DEF ComponentsInv, SolveTypeOK, VisitMember
<1>11. Own(m, summary) = summary[m]
  BY <1>2, <1>6, ResultUpward DEF Idle
<1>12. Result(m, summary') = summary'
  BY <1>2, <1>6, <1>9, <1>10, <1>11, ResultUpward
<1>13. UNCHANGED analysis
  BY DEF VisitMember, callVars
<1> QED
  BY <1>12, <1>13 DEF Idle, Result

LEMMA VisitedAll ==
  ASSUME ComponentsInv, Solving, pos > Len(sccs[comp])
  PROVE  DOMAIN sccs[comp] \subseteq 1..(pos - 1)
<1>1. comp \in DOMAIN sccs /\ sccs \in Seq(Seq(Method)) /\ pos \in Nat \ {0}
  BY DEF Solving, ComponentsInv, SolveTypeOK, TarjanInv, Typed, TarjanTypeOK
<1>2. sccs[comp] \in Seq(Method)
  BY <1>1
<1> QED
  BY <1>1, <1>2

LEMMA SolvedInit == ASSUME Init PROVE SolvedInv
<1>1. ComponentsInv /\ comp = 1 /\ pos = 1
  BY ComponentsInit DEF Init, SolveInit
<1> QED
  BY <1>1 DEF SolvedInv, RoundInv, Lasting

(* The member visited now is the first of its round's that would change nothing
   more, or one more of them. *)
LEMMA VisitSolved ==
  ASSUME SolvedInv, VisitMember, phase = "solve", UNCHANGED <<graphVars, tarjanVars>>
  PROVE  RoundInv' /\ Lasting'
<1> DEFINE v == sccs[comp][pos]
<1>1. /\ ComponentsInv /\ UNCHANGED <<edges, selfCalls, sccs, analysis, comp, capped>>
      /\ summary' = Result(v, summary) /\ pos' = pos + 1
      /\ changed' = (changed \/ summary' # summary)
  BY DEF SolvedInv, VisitMember, callVars, graphVars, tarjanVars
<1>2. /\ comp \in DOMAIN sccs /\ v \in Method /\ summary \in Store /\ GraphTypeOK
      /\ pos \in Nat \ {0} /\ comp \in Nat \ {0} /\ Solving
  BY <1>1, VisitedMember DEF ComponentsInv, SolveTypeOK, VisitMember
<1>3. \A k : Members(k)' = Members(k)
  BY <1>1 DEF Members
<1>4. Lasting'
  <2> SUFFICES ASSUME analysis \in Upward,
                      NEW k \in 1..(comp - 1), k \notin capped, NEW m \in Members(k)
               PROVE  Idle(m)'
    BY <1>1, <1>3 DEF Lasting
  <2>1. Idle(m)
    BY DEF SolvedInv, Lasting
  <2> QED
    BY <1>1, <2>1, EarlierUntouched
<1>5. (Solving' <=> Solving) /\ (IsRecursive(sccs[comp])' <=> IsRecursive(sccs[comp]))
  BY <1>1 DEF Solving, IsRecursive
<1>6. \A i \in 1..pos : i \in 1..(pos - 1) \/ i = pos
  BY <1>2
<1>7. CASE ~changed'
  <2>1. ~changed /\ summary' = summary /\ Idle(v)
    BY <1>1, <1>7 DEF Idle
  <2>2. \A m : Idle(m)' <=> Idle(m)
    BY <1>1, <2>1 DEF Idle, Result
  <2>3. \A i \in 1..(pos - 1) : i \in DOMAIN sccs[comp] => Idle(sccs[comp][i])
    BY <1>2, <2>1 DEF SolvedInv, RoundInv
  <2>4. \A i \in 1..pos : i \in DOMAIN sccs[comp] => Idle(sccs[comp][i])
    BY <1>6, <2>1, <2>3
  <2>5. \A i \in 1..pos : i \in DOMAIN sccs'[comp'] => (Idle(sccs[comp][i]))'
    BY <1>1, <2>2, <2>4
  <2>6. pos' - 1 = pos
    BY <1>1, <1>2
  <2> QED
    BY <1>4, <2>5, <2>6 DEF RoundInv
<1>8. CASE changed' /\ analysis \in Upward /\ ~IsRecursive(sccs[comp])
  <2>1. pos = 1 /\ v \notin edges[v]
    BY <1>1, <1>8, NotRecursive
  <2>2. summary' = [summary EXCEPT ![v] = Own(v, summary)] /\ summary' \in Store
    BY <1>1, <1>2, <1>8, ResultUpward, ResultType DEF ComponentsInv, SolveTypeOK
  <2>3. edges[v] \subseteq Method
    BY <1>2 DEF GraphTypeOK
  <2>4. \A w \in edges[v] : summary[w] = summary'[w]
    BY <1>2, <2>1, <2>2, <2>3 DEF Store
  <2>5. Own(v, summary') = Own(v, summary)
    BY <1>2, <2>4, OwnIsLocal
  <2>6. summary'[v] = Own(v, summary)
    BY <1>2, <2>2 DEF Store
  <2>7. Result(v, summary') = summary'
    <3>1. v \in Method /\ GraphTypeOK /\ summary' \in Store /\ analysis \in Upward
      BY <1>2, <1>8, <2>2
    <3> HIDE DEF v
    <3>2. Result(v, summary') = summary' <=> Own(v, summary') = summary'[v]
      BY ONLY <3>1, ResultUpward
    <3> QED
      BY <2>5, <2>6, <3>2
  <2>8. \A i \in 1..(pos' - 1) : i = 1
    BY <1>1, <2>1
  <2>9. (Idle(sccs[comp][1]))'
    BY <1>1, <2>1, <2>7 DEF Idle, Result
  <2> QED
    BY <1>4, <2>8, <2>9 DEF RoundInv
<1> QED
  BY <1>1, <1>4, <1>5, <1>7, <1>8 DEF RoundInv

LEMMA SolvedStep == ASSUME SolvedInv, [Next]_vars PROVE SolvedInv'
<1>1. ComponentsInv' /\ ComponentsInv
  BY ComponentsStep DEF SolvedInv
<1>2. CASE UNCHANGED <<graphVars, tarjanVars, solveVars>>
  <2>1. \A m : Idle(m)' <=> Idle(m)
    BY <1>2 DEF Idle, Result, graphVars, solveVars, callVars
  <2>2. \A k : Members(k)' = Members(k)
    BY <1>2 DEF Members, tarjanVars
  <2>3. UNCHANGED <<sccs, selfCalls, comp, pos, changed, capped, analysis>>
    BY <1>2 DEF graphVars, tarjanVars, solveVars, callVars
  <2>4. RoundInv'
    BY <2>1, <2>3 DEF SolvedInv, RoundInv, Solving, IsRecursive
  <2>5. Lasting'
    BY <2>1, <2>2, <2>3 DEF SolvedInv, Lasting
  <2> QED
    BY <1>1, <2>4, <2>5 DEF SolvedInv
<1>3. CASE Build \/ Components
  <2>1. comp' = 1 /\ pos' = 1
    BY <1>1, <1>3 DEF Build, Components, ComponentsInv, PhaseInv, BeforeSolve, SolveInit, solveVars
  <2> QED
    BY <1>1, <2>1 DEF SolvedInv, RoundInv, Lasting
<1>4. CASE Solve
  <2>1. /\ UNCHANGED <<graphVars, tarjanVars>> /\ phase = "solve" /\ SolveStep
        /\ UNCHANGED <<edges, selfCalls, sccs>>
    BY <1>4 DEF Solve, graphVars, tarjanVars
  <2>2. /\ \A k : Members(k)' = Members(k)
        /\ pos \in Nat \ {0} /\ comp \in Nat \ {0}
    BY <1>1, <2>1 DEF Members, ComponentsInv, SolveTypeOK
  <2>3. CASE VisitMember
    BY <1>1, <2>1, <2>3, VisitSolved DEF SolvedInv
  <2>4. CASE NextRound
    <3>1. pos' = 1 /\ UNCHANGED <<summary, comp, capped, analysis>>
      BY <2>4 DEF NextRound, callVars
    <3>2. RoundInv'
      BY <3>1 DEF RoundInv
    <3>3. \A m : Idle(m)' <=> Idle(m)
      BY <2>1, <3>1 DEF Idle, Result
    <3>4. Lasting'
      BY <2>2, <3>1, <3>3 DEF SolvedInv, Lasting
    <3> QED
      BY <1>1, <3>2, <3>4 DEF SolvedInv
  <2>5. CASE Settle \/ GiveUp
    <3>1. /\ pos' = 1 /\ comp' = comp + 1 /\ UNCHANGED <<summary, analysis>>
          /\ capped' = capped \/ capped' = capped \cup {comp}
      BY <2>5 DEF Settle, GiveUp, LeaveComponent, callVars
    <3>2. RoundInv'
      BY <3>1 DEF RoundInv
    <3>3. \A m : Idle(m)' <=> Idle(m)
      BY <2>1, <3>1 DEF Idle, Result
    <3>4. analysis \in Upward /\ comp \notin capped' => \A m \in Members(comp) : Idle(m)
      <4>1. CASE Settle
        <5>1. /\ Solving /\ pos > Len(sccs[comp])
              /\ ~changed \/ ~IsRecursive(sccs[comp])
          BY <4>1 DEF Settle, RoundOver
        <5>2. DOMAIN sccs[comp] \subseteq 1..(pos - 1)
          BY <1>1, <2>2, <5>1, VisitedAll
        <5> QED
          BY <5>1, <5>2 DEF SolvedInv, RoundInv, Members
      <4>2. CASE GiveUp
        BY <4>2 DEF GiveUp, LeaveComponent
      <4> QED
        BY <2>5, <4>1, <4>2
    <3>5. \A k \in 1..(comp' - 1) : k \in 1..(comp - 1) \/ k = comp
      BY <2>2, <3>1
    <3>6. Lasting'
      BY <2>2, <3>1, <3>3, <3>4, <3>5 DEF SolvedInv, Lasting
    <3> QED
      BY <1>1, <3>2, <3>6 DEF SolvedInv
  <2> QED
    BY <2>1, <2>3, <2>4, <2>5 DEF SolveStep
<1>5. CASE StartMarking \/ Marking \/ Return \/ UNCHANGED vars
  BY <1>2, <1>5 DEF StartMarking, Marking, Return, vars
<1> QED
  BY <1>3, <1>4, <1>5 DEF Next, Step, Finished

(* A round without a change ends with the component solved, whatever the
   analysis; where facts go up, what solve has left without giving it up stays
   solved. *)
THEOREM SolvedForGood == Spec => []SolvedStaysSolved
<1>1. Init => SolvedInv
  BY SolvedInit
<1>2. SolvedInv /\ [Next]_vars => SolvedInv'
  BY SolvedStep
<1>3. SolvedInv => SolvedStaysSolved
  <2> SUFFICES ASSUME SolvedInv PROVE SolvedStaysSolved
    OBVIOUS
  <2>1. ASSUME RoundOver, ~changed, NEW m \in Members(comp) PROVE Result(m, summary) = summary
    <3>1. DOMAIN sccs[comp] \subseteq 1..(pos - 1) /\ Solving
      BY <2>1, VisitedAll DEF SolvedInv, RoundOver
    <3>2. PICK i \in DOMAIN sccs[comp] : m = sccs[comp][i]
      BY <2>1 DEF Members
    <3> QED
      BY <2>1, <3>1, <3>2 DEF SolvedInv, RoundInv, Idle
  <2> QED
    BY <2>1 DEF SolvedInv, Lasting, Idle, SolvedStaysSolved
<1> QED
  BY <1>1, <1>2, <1>3, PTL DEF Spec

-----------------------------------------------------------------------------
(* No store is above a solution of a monotone analysis. *)

LeastInv == ComponentsInv /\ NeverAboveASolution

LEMMA EmptyIsLeast ==
  ASSUME NEW f \in Store PROVE Leq([m \in Method |-> 0], f)
<1>1. ASSUME NEW m \in Method PROVE 0 <= f[m]
  <2>1. f[m] \in Summary
    BY DEF Store
  <2> QED
    BY <2>1, HeightAssumption DEF Summary
<1> QED
  BY <1>1 DEF Leq

LEMMA LeqIsTransitive ==
  ASSUME NEW f \in Store, NEW g \in Store, NEW h \in Store, Leq(f, g), Leq(g, h)
  PROVE  Leq(f, h)
<1>1. \A m \in Method : f[m] \in Int /\ g[m] \in Int /\ h[m] \in Int
  BY HeightAssumption DEF Store, Summary
<1> QED
  BY <1>1 DEF Leq

LEMMA LeastStep == ASSUME LeastInv, [Next]_vars PROVE LeastInv'
<1>1. ComponentsInv /\ ComponentsInv'
  BY ComponentsStep DEF LeastInv
<1>2. CASE UNCHANGED <<edges, summary, analysis>>
  BY <1>1, <1>2 DEF LeastInv, NeverAboveASolution, Satisfied, Result
<1>3. CASE Build \/ Components
  <2>1. summary' = [m \in Method |-> 0]
    BY <1>1, <1>3 DEF Build, Components, ComponentsInv, PhaseInv, BeforeSolve, SolveInit, solveVars
  <2>2. NeverAboveASolution'
    BY <2>1, EmptyIsLeast DEF NeverAboveASolution
  <2> QED
    BY <1>1, <2>2 DEF LeastInv
<1>4. CASE VisitMember /\ UNCHANGED <<edges>>
  <2> DEFINE v == sccs[comp][pos]
  <2>1. /\ v \in Method /\ summary \in Store /\ GraphTypeOK /\ analysis \in Analysis
        /\ summary' = Result(v, summary) /\ UNCHANGED <<edges, analysis>>
    BY <1>1, <1>4, VisitedMember DEF ComponentsInv, SolveTypeOK, VisitMember, callVars
  <2> HIDE DEF v
  <2>2. SUFFICES ASSUME analysis \in Monotone, NEW f \in Store, Satisfied(f)
                 PROVE  Leq(summary', f)
    BY <1>1, <2>1 DEF LeastInv, NeverAboveASolution, Satisfied, Result
  <2>3. Leq(summary, f)
    BY <2>2 DEF LeastInv, NeverAboveASolution
  <2>4. Leq(Result(v, summary), Result(v, f))
    BY <2>1, <2>2, <2>3, ResultMonotone
  <2>5. Leq(Result(v, f), f)
    BY <2>1, <2>2 DEF Satisfied
  <2>6. Result(v, summary) \in Store /\ Result(v, f) \in Store
    BY <2>1, <2>2, ResultType
  <2> QED
    BY <2>1, <2>2, <2>4, <2>5, <2>6, LeqIsTransitive
<1>5. CASE StartMarking \/ Marking \/ Return \/ UNCHANGED vars
  BY <1>2, <1>5 DEF StartMarking, Marking, Return, vars, graphVars, solveVars, callVars
<1>6. CASE Solve
  <2>1. UNCHANGED edges
    BY <1>6 DEF Solve, graphVars
  <2>2. CASE VisitMember
    BY <1>4, <2>1, <2>2
  <2>3. CASE NextRound \/ Settle \/ GiveUp
    BY <1>2, <2>1, <2>3 DEF NextRound, Settle, GiveUp, callVars
  <2> QED
    BY <1>6, <2>2, <2>3 DEF Solve, SolveStep
<1> QED
  BY <1>3, <1>5, <1>6 DEF Next, Step, Finished

(* Summaries never claim more than any solution of the equations, also the
   partial summaries of a component that was given up. *)
THEOREM LeastSummaries == Spec => []NeverAboveASolution
<1>1. Init => LeastInv
  <2> SUFFICES ASSUME Init PROVE LeastInv
    OBVIOUS
  <2>1. ComponentsInv /\ summary = [m \in Method |-> 0]
    BY ComponentsInit DEF Init, SolveInit
  <2> QED
    BY <2>1, EmptyIsLeast DEF LeastInv, NeverAboveASolution
<1>2. LeastInv /\ [Next]_vars => LeastInv'
  BY LeastStep
<1>3. LeastInv => NeverAboveASolution
  BY DEF LeastInv
<1> QED
  BY <1>1, <1>2, <1>3, PTL DEF Spec

-----------------------------------------------------------------------------
(* The walk finds what the entry points reach. *)

Targets == Method \cup Outside

LEMMA TargetsFinite == \A S \in SUBSET Targets : IsFiniteSet(S)
<1>1. IsFiniteSet(Method)
  BY NAssumption, FS_Interval DEF Method
<1>2. IsFiniteSet(Targets)
  BY <1>1, OutsideAssumption, FS_Union DEF Targets
<1> QED
  BY <1>2, FS_Subset

LEMMA ListingsAreSequences ==
  ASSUME NEW S \in SUBSET Targets, NEW s \in Listings(S)
  PROVE  s \in Seq(S) /\ s \in Seq(Targets) /\ \A x \in S : \E i \in DOMAIN s : s[i] = x
<1>1. Cardinality(S) \in Nat
  BY TargetsFinite, FS_CardinalityType
<1>2. s \in [1..Cardinality(S) -> S]
  BY DEF Listings
<1> QED
  BY <1>1, <1>2 DEF Listings

Queued(m) == \E i \in DOMAIN worklist : worklist[i] = m

WalkInv ==
    /\ entries \subseteq live
    /\ \A m \in live \cap Method : \E e \in entries : Reaches(e, m)
    /\ \A m \in live \cap Method : callees[m] \subseteq live \/ Queued(m)
    /\ \A i \in DOMAIN worklist : worklist[i] \in live
    /\ dead = wasDead

MarkInv ==
    /\ ComponentsInv /\ MarkTypeOK
    /\ phase = "mark" => WalkInv
    /\ DeadIsUnreachable /\ ReportsNewMarks

LEMMA ReachesSelf == \A m \in Method : Reaches(m, m)
BY DEF Reaches

LEMMA ReachesCallee ==
  ASSUME NEW v \in Method, NEW m \in Method, NEW w \in edges[m], Reaches(v, m)
  PROVE  Reaches(v, w)
BY DEF Reaches, Closed

LEMMA StartWalkInv ==
  ASSUME MarkInv, StartMarking PROVE MarkTypeOK' /\ WalkInv'
<1>1. /\ entries \subseteq Method /\ live' = entries /\ worklist' \in Listings(entries)
      /\ dead' \in DeadSets /\ wasDead' = dead' /\ marked' = FALSE
      /\ UNCHANGED <<entries, edges, callees>>
  BY DEF StartMarking, StartWalk, MarkInv, MarkTypeOK, graphVars
<1>2. /\ worklist' \in Seq(entries) /\ worklist' \in Seq(Targets)
      /\ \A x \in entries : \E i \in DOMAIN worklist' : worklist'[i] = x
  BY <1>1, ListingsAreSequences DEF Targets
<1>3. dead' \subseteq Method
  BY <1>1, EntriesAssumption
<1>4. marked' \in BOOLEAN
  BY <1>1
<1>5. MarkTypeOK'
  BY <1>1, <1>2, <1>3, <1>4 DEF MarkTypeOK, Targets
<1>6. \A i \in DOMAIN worklist' : worklist'[i] \in live'
  BY <1>1, <1>2
<1>7. \A m \in live' : Queued(m)'
  BY <1>1, <1>2 DEF Queued
<1>8. \A m \in live' \cap Method : \E e \in entries' : Reaches(e, m)'
  BY <1>1, ReachesSelf DEF Reaches, Closed
<1> QED
  BY <1>1, <1>5, <1>6, <1>7, <1>8 DEF WalkInv

LEMMA WalkStep ==
  ASSUME MarkInv, phase = "mark", Walk, UNCHANGED graphVars
  PROVE  MarkTypeOK' /\ WalkInv'
<1> DEFINE h == Head(worklist)
           fresh == CalleesOf(h) \ live
<1>1. /\ WalkInv /\ MarkTypeOK /\ GraphTypeOK /\ worklist \in Seq(Targets) /\ worklist # <<>>
      /\ edges = [m \in Method |-> callees[m] \cap Method]
  BY DEF MarkInv, ComponentsInv, PhaseInv, Walk, MarkTypeOK, Targets
<1>2. PICK order \in Listings(fresh) : worklist' = Tail(worklist) \o order
  BY DEF Walk
<1>3. live' = live \cup fresh /\ UNCHANGED <<entries, dead, wasDead, marked, edges, callees>>
  BY DEF Walk, graphVars
<1>4. h = worklist[1] /\ h \in live /\ h \in Targets /\ 1 \in DOMAIN worklist
  BY <1>1 DEF WalkInv
<1>5. CalleesOf(h) \subseteq Targets /\ fresh \in SUBSET Targets
  BY <1>1 DEF CalleesOf, GraphTypeOK, Targets
<1>6. /\ order \in Seq(fresh) /\ order \in Seq(Targets)
      /\ \A x \in fresh : \E i \in DOMAIN order : order[i] = x
  BY <1>5, ListingsAreSequences
<1> HIDE DEF fresh, h
<1>7. /\ worklist' \in Seq(Targets)
      /\ \A i \in DOMAIN worklist : i # 1 => \E j \in DOMAIN worklist' : worklist'[j] = worklist[i]
      /\ \A i \in DOMAIN order : \E j \in DOMAIN worklist' : worklist'[j] = order[i]
      /\ \A j \in DOMAIN worklist' : \/ \E i \in DOMAIN worklist : worklist'[j] = worklist[i]
                                     \/ \E i \in DOMAIN order : worklist'[j] = order[i]
  <2> DEFINE t == Tail(worklist)
  <2>1. /\ t \in Seq(Targets) /\ Len(t) = Len(worklist) - 1 /\ Len(worklist) \in Nat \ {0}
        /\ \A i \in 1..Len(t) : t[i] = worklist[i + 1]
    BY <1>1
  <2>2. /\ worklist' \in Seq(Targets) /\ Len(worklist') = Len(t) + Len(order)
        /\ Len(order) \in Nat /\ Len(t) \in Nat
        /\ \A i \in 1..Len(t) : worklist'[i] = t[i]
        /\ \A i \in 1..Len(order) : worklist'[Len(t) + i] = order[i]
        /\ DOMAIN worklist = 1..Len(worklist) /\ DOMAIN order = 1..Len(order)
        /\ DOMAIN worklist' = 1..Len(worklist')
    BY <1>1, <1>2, <1>6, <2>1
  <2> HIDE DEF t
  <2>3. ASSUME NEW i \in DOMAIN worklist, i # 1
        PROVE  i - 1 \in DOMAIN worklist' /\ worklist'[i - 1] = worklist[i]
    BY <2>1, <2>2, <2>3
  <2>4. ASSUME NEW i \in DOMAIN order
        PROVE  Len(t) + i \in DOMAIN worklist' /\ worklist'[Len(t) + i] = order[i]
    BY <2>1, <2>2
  <2>5. ASSUME NEW j \in DOMAIN worklist'
        PROVE  \/ \E i \in DOMAIN worklist : worklist'[j] = worklist[i]
               \/ \E i \in DOMAIN order : worklist'[j] = order[i]
    <3>1. CASE j <= Len(t)
      <4>1. j + 1 \in DOMAIN worklist /\ worklist'[j] = worklist[j + 1]
        BY <2>1, <2>2, <3>1
      <4> QED
        BY <4>1
    <3>2. CASE j > Len(t)
      <4>1. j - Len(t) \in DOMAIN order /\ worklist'[j] = order[j - Len(t)]
        <5>1. j - Len(t) \in 1..Len(order) /\ Len(t) + (j - Len(t)) = j
          BY <2>1, <2>2, <3>2
        <5> QED
          BY <2>2, <5>1
      <4> QED
        BY <4>1
    <3> QED
      BY <2>2, <3>1, <3>2
  <2> QED
    BY <2>2, <2>3, <2>4, <2>5
<1>8. MarkTypeOK'
  <2>1. live' \subseteq Targets /\ UNCHANGED <<entries, dead, wasDead, marked>>
    BY <1>1, <1>3, <1>5 DEF MarkTypeOK, Targets
  <2> QED
    BY <1>1, <1>7, <2>1 DEF MarkTypeOK, Targets
<1>9. \A i \in DOMAIN worklist' : worklist'[i] \in live'
  <2>1. \A i \in DOMAIN worklist : worklist[i] \in live
    BY <1>1 DEF WalkInv
  <2>2. \A i \in DOMAIN order : order[i] \in fresh
    BY <1>6
  <2> QED
    BY <1>3, <1>7, <2>1, <2>2
<1>10. \A m \in fresh : Queued(m)'
  BY <1>6, <1>7 DEF Queued
<1>11. ASSUME NEW m \in live \cap Method PROVE callees'[m] \subseteq live' \/ Queued(m)'
  <2>1. CASE m = h
    BY <1>3, <1>11, <2>1 DEF CalleesOf, fresh
  <2>2. CASE m # h
    BY <1>1, <1>3, <1>4, <1>7, <2>2 DEF WalkInv, Queued
  <2> QED
    BY <2>1, <2>2
<1>12. ASSUME NEW m \in fresh \cap Method PROVE \E e \in entries : Reaches(e, m)
  <2>1. h \in Method /\ m \in edges[h]
    BY <1>1, <1>12 DEF fresh, CalleesOf
  <2>2. PICK e \in entries : Reaches(e, h)
    BY <1>1, <1>4, <2>1 DEF WalkInv
  <2>3. e \in Method
    BY <1>1 DEF MarkTypeOK
  <2> QED
    BY <2>1, <2>2, <2>3, ReachesCallee
<1>13. \A m \in live' \cap Method : \E e \in entries' : Reaches(e, m)'
  BY <1>1, <1>3, <1>12 DEF WalkInv, Reaches, Closed
<1> QED
  BY <1>1, <1>3, <1>8, <1>9, <1>10, <1>11, <1>13 DEF WalkInv

LEMMA MarkDeadStep ==
  ASSUME MarkInv, phase = "mark", MarkDead, UNCHANGED graphVars, phase' = "solve"
  PROVE  MarkTypeOK' /\ DeadIsUnreachable' /\ ReportsNewMarks'
<1> DEFINE newly == Method \ (live \cup dead)
<1>1. /\ WalkInv /\ MarkTypeOK /\ GraphTypeOK /\ worklist = <<>>
      /\ edges = [m \in Method |-> callees[m] \cap Method]
  BY DEF MarkInv, ComponentsInv, PhaseInv, MarkDead
<1>2. /\ dead' = dead \cup newly /\ marked' = (newly # {})
      /\ UNCHANGED <<entries, live, worklist, wasDead, edges, callees>>
  BY DEF MarkDead, graphVars
<1>3. marked' \in BOOLEAN
  BY <1>2
<1>4. MarkTypeOK'
  BY <1>1, <1>2, <1>3 DEF MarkTypeOK
<1>5. ReportsNewMarks'
  <2>1. dead' # wasDead <=> newly # {}
    BY <1>1, <1>2 DEF WalkInv
  <2> QED
    BY <1>2, <2>1 DEF ReportsNewMarks
<1>6. \A m \in Method : m \in live <=> \E e \in entries : Reaches(e, m)
  <2>1. Closed(live \cap Method)
    <3>1. \A m \in live \cap Method : callees[m] \subseteq live
      BY <1>1 DEF WalkInv, Queued
    <3> QED
      BY <1>1, <3>1 DEF Closed
  <2>2. \A e \in entries : e \in live \cap Method
    BY <1>1 DEF WalkInv, MarkTypeOK
  <2>3. ASSUME NEW m \in Method, NEW e \in entries, Reaches(e, m) PROVE m \in live
    BY <2>1, <2>2, <2>3 DEF Reaches
  <2> QED
    BY <1>1, <2>3 DEF WalkInv
<1>7. dead' = wasDead \cup {m \in Method : \A e \in entries : ~Reaches(e, m)}
  BY <1>1, <1>2, <1>6 DEF WalkInv
<1>8. DeadIsUnreachable'
  BY <1>2, <1>7 DEF DeadIsUnreachable, Reaches, Closed
<1> QED
  BY <1>4, <1>5, <1>8

LEMMA MarkInitInv == ASSUME Init PROVE MarkInv
<1>1. ComponentsInv /\ phase = "build"
  BY ComponentsInit DEF Init, GraphInit
<1>2. MarkInit
  BY DEF Init
<1>3. marked \in BOOLEAN
  BY <1>2 DEF MarkInit
<1>4. MarkTypeOK
  BY <1>2, <1>3, EntriesAssumption DEF MarkInit, MarkTypeOK
<1> QED
  BY <1>1, <1>4 DEF MarkInv, DeadIsUnreachable, ReportsNewMarks, MarksMade

LEMMA MarkStep == ASSUME MarkInv, [Next]_vars PROVE MarkInv'
<1>1. ComponentsInv /\ ComponentsInv'
  BY ComponentsStep DEF MarkInv
<1>2. ASSUME UNCHANGED markVars PROVE MarkTypeOK'
  BY <1>2 DEF MarkInv, MarkTypeOK, markVars
<1>3. CASE Build \/ Components
  <2>1. phase' \notin {"mark", "solve", "done"} /\ UNCHANGED markVars
    BY <1>3 DEF Build, Components
  <2> QED
    BY <1>1, <1>2, <2>1 DEF MarkInv, DeadIsUnreachable, ReportsNewMarks, MarksMade
<1>4. CASE StartMarking
  <2>1. phase' = "mark"
    BY <1>4 DEF StartMarking
  <2> QED
    BY <1>1, <1>4, <2>1, StartWalkInv DEF MarkInv, DeadIsUnreachable, ReportsNewMarks, MarksMade
<1>5. CASE Marking
  <2>1. phase = "mark" /\ UNCHANGED graphVars
    BY <1>5 DEF Marking
  <2>2. CASE Walk /\ UNCHANGED phase
    BY <1>1, <2>1, <2>2, WalkStep DEF MarkInv, DeadIsUnreachable, ReportsNewMarks, MarksMade
  <2>3. CASE MarkDead /\ phase' = "solve"
    BY <1>1, <2>1, <2>3, MarkDeadStep DEF MarkInv
  <2> QED
    BY <1>5, <2>2, <2>3 DEF Marking
<1>6. CASE Solve \/ Return \/ UNCHANGED vars
  <2>1. /\ UNCHANGED <<graphVars, markVars>>
        /\ UNCHANGED phase \/ (phase = "solve" /\ phase' = "done")
    BY <1>6 DEF Solve, Return, vars
  <2>2. UNCHANGED <<edges, callees, entries, live, worklist, dead, wasDead, marked>>
    BY <2>1 DEF graphVars, markVars
  <2>3. WalkInv' <=> WalkInv
    BY <2>2 DEF WalkInv, Queued, Reaches, Closed
  <2>4. DeadIsUnreachable' /\ ReportsNewMarks'
    BY <2>1, <2>2 DEF MarkInv, DeadIsUnreachable, ReportsNewMarks, MarksMade, Reaches, Closed
  <2> QED
    BY <1>1, <1>2, <2>1, <2>3, <2>4 DEF MarkInv
<1> QED
  BY <1>3, <1>4, <1>5, <1>6 DEF Next, Step, Finished

LEMMA MarkAlways == Spec => []MarkInv
<1>1. Init => MarkInv
  BY MarkInitInv
<1>2. MarkInv /\ [Next]_vars => MarkInv'
  BY MarkStep
<1> QED
  BY <1>1, <1>2, PTL DEF Spec

(* A method ends dead if and only if it was before, or no entry point reaches
   it through the calls of the program. *)
THEOREM OnlyUnreachableDie == Spec => []DeadIsUnreachable
<1>1. MarkInv => DeadIsUnreachable
  BY DEF MarkInv
<1> QED
  BY <1>1, MarkAlways, PTL

(* run_global answers that it changed something if and only if it marked a
   method that was not marked. *)
THEOREM ReportsAreTrue == Spec => []ReportsNewMarks
<1>1. MarkInv => ReportsNewMarks
  BY DEF MarkInv
<1> QED
  BY <1>1, MarkAlways, PTL

(* The state of the graph, of Tarjan's algorithm, of the walk and of the
   summaries keeps its types. *)
THEOREM TypeCorrect == Spec => []TypeOK
<1>1. MarkInv => TypeOK
  BY DEF MarkInv, ComponentsInv, TarjanInv, Typed, TypeOK
<1> QED
  BY <1>1, MarkAlways, PTL
=============================================================================
