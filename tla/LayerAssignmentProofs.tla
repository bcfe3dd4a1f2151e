----------------------- MODULE LayerAssignmentProofs ------------------------
(***************************************************************************)
(* What the topological sort and the relaxation loop compute, for any      *)
(* number of passes, any capabilities and any width of the layer numbers.  *)
(***************************************************************************)
EXTENDS LayerAssignment, FiniteSetTheorems, SequenceTheorems, TLAPS

(* Both loops are at pass i, the second one at one of its dependencies. *)
PositionOK ==
    /\ i \in Nat
    /\ pc \in {"seed", "sort", "relax"} => i \in Index
    /\ pc \in {"count", "sort"} => i = 1
    /\ pc = "relax" => rest \subseteq Deps(i)

TInv == TypeOK /\ PositionOK

LEMMA DepsAreIndices == \A p : Deps(p) \subseteq Index
  BY DEF Deps

LEMMA IncIsLayer ==
  ASSUME NEW n \in LayerNo
  PROVE  SaturatingInc(n) \in LayerNo /\ SaturatingInc(n) <= n + 1
  BY TopAssumption DEF LayerNo, SaturatingInc

LEMMA DepsAreFinite ==
  ASSUME NEW p
  PROVE  IsFiniteSet(Deps(p)) /\ InDegree(p) \in Nat
<1>1. IsFiniteSet(Index)
  BY NAssumption, FS_Interval DEF Index
<1>2. Deps(p) \in SUBSET Index
  BY DepsAreIndices
<1> QED
  BY <1>1, <1>2, FS_Subset, FS_CardinalityType DEF InDegree

LEMMA InitTInv == Init => TInv
<1> SUFFICES ASSUME Init PROVE TInv
  OBVIOUS
<1>1. fallback \in [Index -> LayerNo]
  BY FallbackAssumption DEF Init
<1>2. PositionOK
  BY NAssumption DEF Init, PositionOK
<1>3. queue \in Seq(Index) /\ sorted \in Seq(Index) /\ indegree \in [Index -> Nat]
  BY EmptySeq DEF Init
<1> QED
  BY <1>1, <1>2, <1>3 DEF Init, TInv, TypeOK

LEMMA NextTInv == TInv /\ [Next]_vars => TInv'
<1> SUFFICES ASSUME TInv, [Next]_vars PROVE TInv'
  OBVIOUS
<1> USE NAssumption DEF TInv
<1>1. UNCHANGED vars => TInv'
  BY DEF TypeOK, PositionOK, vars, decl, sortVars, relaxVars, Deps
<1>2. CASE Count
  <2>1. indegree' \in [Index -> Nat]
    BY <1>2, DepsAreFinite DEF Count
  <2>2. PositionOK'
    BY <1>2 DEF Count, PositionOK, Index
  <2> QED
    BY <1>2, <2>1, <2>2 DEF Count, TypeOK, decl, relaxVars
<1>6. CASE Seed
  <2>1. queue' \in Seq(Index)
    BY <1>6, AppendProperties DEF Seed, TypeOK, PositionOK
  <2>2. i' \in Nat /\ i' \in Index /\ pc' \in {"seed", "sort"} /\ (pc' = "sort" => i' = 1)
    BY <1>6 DEF Seed, PositionOK, Index
  <2>3. PositionOK'
    BY <2>2 DEF PositionOK
  <2> QED
    BY <1>6, <2>1, <2>2, <2>3 DEF Seed, TypeOK, decl, relaxVars
<1>7. CASE Pop
  <2>1. Head(queue) \in Index /\ Tail(queue) \in Seq(Index)
    BY <1>7, HeadTailProperties DEF Pop, TypeOK
  <2>2. sorted' \in Seq(Index)
    BY <1>7, <2>1, AppendProperties DEF Pop, TypeOK
  <2>3. PositionOK'
    BY <1>7 DEF Pop, PositionOK
  <2>4. Successors(Head(queue)) \subseteq Index
    BY DEF Successors
  <2> QED
    BY <1>7, <2>1, <2>2, <2>3, <2>4 DEF Pop, TypeOK, decl, relaxVars
<1>8. CASE RemoveEdge
  <2>1. PICK q \in out :
           /\ out' = out \ {q}
           /\ indegree' = [indegree EXCEPT ![q] = SaturatingDec(@)]
           /\ queue' = IF indegree'[q] = 0 THEN Append(queue, q) ELSE queue
    BY <1>8 DEF RemoveEdge
  <2>2. queue' \in Seq(Index)
    BY <2>1, AppendProperties DEF TypeOK
  <2>3. indegree' \in [Index -> Nat]
    BY <2>1 DEF TypeOK, SaturatingDec
  <2>4. PositionOK'
    BY <1>8 DEF RemoveEdge, PositionOK
  <2> QED
    BY <1>8, <2>1, <2>2, <2>3, <2>4 DEF RemoveEdge, TypeOK, decl, relaxVars
<1>9. CASE Verdict
  <2>1. Deps(i) \subseteq Index /\ Deps(i)' = Deps(i)
    BY <1>9, DepsAreIndices DEF Verdict, decl, Deps
  <2>2. rest' \in {rest, Deps(i)} /\ pc' \in {"relax", "cyclic"} /\ i' = i
        /\ (pc' = "relax" => rest' = Deps(i))
    BY <1>9 DEF Verdict
  <2>3. PositionOK'
    <3>1. i \in Nat /\ i \in Index
      BY <1>9 DEF Verdict, PositionOK
    <3> QED
      BY <2>1, <2>2, <3>1 DEF PositionOK
  <2>4. rest' \subseteq Index
    BY <2>1, <2>2 DEF TypeOK
  <2> QED
    BY <1>9, <2>2, <2>3, <2>4 DEF Verdict, TypeOK, decl, sortVars
<1>3. CASE Relax
  <2>1. PICK d \in rest :
           /\ rest' = rest \ {d}
           /\ IF layer[i] <= layer[d]
              THEN layer' = [layer EXCEPT ![i] = SaturatingInc(layer[d])] /\ changed' = TRUE
              ELSE UNCHANGED <<layer, changed>>
    BY <1>3 DEF Relax
  <2>2. layer' \in [Index -> LayerNo] /\ changed' \in BOOLEAN
    <3>1. d \in Index /\ layer \in [Index -> LayerNo] /\ changed \in BOOLEAN
      BY <2>1 DEF TypeOK
    <3>2. SaturatingInc(layer[d]) \in LayerNo
      BY <3>1, IncIsLayer
    <3> QED
      BY <2>1, <3>1, <3>2
  <2>3. rest' \subseteq Index
    BY <2>1 DEF TypeOK
  <2>4. UNCHANGED decl /\ UNCHANGED sortVars /\ UNCHANGED <<i, pc>> /\ pc = "relax"
    BY <1>3 DEF Relax
  <2>5. PositionOK'
    <3>1. rest' \subseteq rest /\ UNCHANGED <<i, provides, requires>>
      BY <2>1, <2>4 DEF decl
    <3> QED
      BY <2>4, <3>1 DEF PositionOK, Deps
  <2> QED
    BY <2>2, <2>3, <2>4, <2>5 DEF TypeOK, decl, sortVars
<1>4. CASE NextPass
  <2>1. Deps(i + 1) \subseteq Index
    BY DepsAreIndices
  <2> QED
    BY <1>4, <2>1 DEF NextPass, TypeOK, PositionOK, decl, sortVars, Deps, Index
<1>5. CASE EndSweep
  <2>1. Deps(1) \subseteq Index
    BY DepsAreIndices
  <2>2. TypeOK'
    <3>1. rest' \subseteq Index /\ i' \in Nat
      BY <1>5, <2>1 DEF EndSweep, TypeOK
    <3>2. UNCHANGED <<decl, sortVars, layer>> /\ pc' \in {"relax", "done"}
      BY <1>5 DEF EndSweep
    <3>3. changed' \in BOOLEAN
      BY <1>5, Zenon DEF EndSweep, TypeOK
    <3> QED
      BY <3>1, <3>2, <3>3 DEF TypeOK, decl, sortVars
  <2>3. Deps(1)' = Deps(1)
    BY <1>5 DEF EndSweep, decl, Deps
  <2>4. PositionOK'
    BY <1>5, <2>3 DEF EndSweep, PositionOK, Index
  <2> QED
    BY <2>2, <2>4
<1> QED
  BY <1>1, <1>2, <1>3, <1>4, <1>5, <1>6, <1>7, <1>8, <1>9 DEF Next, Step, Finished

LEMMA TInvInvariant == Spec => []TInv
  BY InitTInv, NextTInv, PTL DEF Spec

(* Every reachable state of the computation is well typed. *)
THEOREM TypeCorrect == Spec => []TypeOK
  BY TInvInvariant, PTL DEF TInv

-----------------------------------------------------------------------------
LEMMA InitNeverTooFar == Init => NeverTooFar
  BY DEF Init, NeverTooFar, Satisfies

LEMMA NextNeverTooFar == TInv /\ NeverTooFar /\ [Next]_vars => NeverTooFar'
<1> SUFFICES ASSUME TInv, NeverTooFar, [Next]_vars,
                    NEW f \in [Index -> LayerNo], Satisfies(f)', NEW p \in Index
             PROVE  layer'[p] <= f[p]
  BY DEF NeverTooFar
<1>1. UNCHANGED decl
  BY DEF Next, Step, Finished, Count, Seed, Pop, RemoveEdge, Verdict, Relax, NextPass,
     EndSweep, vars
<1>2. Satisfies(f)
  BY <1>1 DEF Satisfies, Deps, decl
<1>3. layer[p] <= f[p]
  BY <1>2 DEF NeverTooFar
<1>4. CASE Relax
  <2>1. PICK d \in rest :
           IF layer[i] <= layer[d]
           THEN layer' = [layer EXCEPT ![i] = SaturatingInc(layer[d])]
           ELSE UNCHANGED layer
    BY <1>4 DEF Relax
  <2>2. i \in Index /\ d \in Deps(i) /\ d \in Index
    BY <1>4, <2>1, DepsAreIndices DEF Relax, TInv, PositionOK
  <2>3. layer[d] <= f[d] /\ f[d] < f[i]
    BY <1>2, <2>2 DEF NeverTooFar, Satisfies
  <2>4. layer[d] \in LayerNo /\ layer \in [Index -> LayerNo]
    BY <2>2 DEF TInv, TypeOK
  <2>5. SaturatingInc(layer[d]) <= f[i]
    BY <2>2, <2>3, <2>4, IncIsLayer, TopAssumption DEF LayerNo, SaturatingInc
  <2> QED
    BY <1>3, <2>1, <2>4, <2>5
<1>5. CASE ~Relax
  <2>1. UNCHANGED layer
    BY <1>5 DEF Next, Step, Finished, Count, Seed, Pop, RemoveEdge, Verdict,
       NextPass, EndSweep, vars, relaxVars
  <2> QED
    BY <1>3, <2>1
<1> QED
  BY <1>4, <1>5

(* The layers computed never exceed those of any assignment that satisfies all
   the dependencies: what is computed is the least one. *)
THEOREM Least == Spec => []NeverTooFar
  BY InitNeverTooFar, NextNeverTooFar, TInvInvariant, PTL DEF Spec

-----------------------------------------------------------------------------
Settled(p, deps) == \A d \in deps : layer[d] < layer[p]

(* A sweep that has moved nothing so far has found every pass before i, and the
   dependencies of i it has looked at, settled. *)
SweepInv ==
    /\ \A p \in Index : fallback[p] <= layer[p]
    /\ pc = "relax" /\ ~changed =>
          /\ \A p \in Index : p < i => Settled(p, Deps(p))
          /\ i \in Index => Settled(i, Deps(i) \ rest)
    /\ pc = "done" => \A p \in Index : Settled(p, Deps(p))

LEMMA InitSweepInv == Init => SweepInv
<1>1. Init => fallback \in [Index -> LayerNo]
  BY FallbackAssumption DEF Init
<1> QED
  BY <1>1, TopAssumption DEF Init, SweepInv, LayerNo

LEMMA NextSweepInv == TInv /\ SweepInv /\ [Next]_vars => SweepInv'
<1> SUFFICES ASSUME TInv, SweepInv, [Next]_vars PROVE SweepInv'
  OBVIOUS
<1> USE NAssumption
<1>0. /\ UNCHANGED decl /\ \A p : Deps(p)' = Deps(p)
      /\ layer \in [Index -> LayerNo] /\ fallback \in [Index -> LayerNo]
  BY DEF Next, Step, Finished, Count, Seed, Pop, RemoveEdge, Verdict, Relax, NextPass,
     EndSweep, vars, decl, Deps, TInv, TypeOK
<1>1. UNCHANGED vars => SweepInv'
  BY <1>0 DEF SweepInv, Settled, vars, decl, relaxVars
<1>2. CASE Count
  BY <1>0, <1>2 DEF Count, SweepInv, Settled, decl, relaxVars, Index
<1>6. CASE Seed \/ Pop \/ RemoveEdge
  BY <1>0, <1>6 DEF Seed, Pop, RemoveEdge, SweepInv, Settled, decl, relaxVars
<1>7. CASE Verdict
  <2>1. /\ UNCHANGED layer /\ pc' \in {"relax", "cyclic"} /\ i' = 1
        /\ pc' = "relax" => rest' = Deps(1)
    BY <1>7 DEF Verdict, TInv, PositionOK
  <2>2. \A p \in Index : ~ p < 1
    BY DEF Index
  <2> QED
    BY <1>0, <2>1, <2>2 DEF SweepInv, Settled, decl
<1>3. CASE Relax
  <2>1. PICK d \in rest :
           /\ rest' = rest \ {d}
           /\ IF layer[i] <= layer[d]
              THEN layer' = [layer EXCEPT ![i] = SaturatingInc(layer[d])] /\ changed' = TRUE
              ELSE UNCHANGED <<layer, changed>>
    BY <1>3 DEF Relax
  <2>2. i \in Index /\ d \in Index /\ layer[i] \in LayerNo /\ layer[d] \in LayerNo
    BY <1>0, <1>3, <2>1, DepsAreIndices DEF Relax, TInv, PositionOK
  <2>3. CASE layer[i] <= layer[d]
    <3>1. layer' = [layer EXCEPT ![i] = SaturatingInc(layer[d])] /\ changed' = TRUE
      BY <2>1, <2>3
    <3>2. layer[i] <= SaturatingInc(layer[d])
      BY <2>2, <2>3, TopAssumption DEF SaturatingInc, LayerNo
    <3>3. \A p \in Index : fallback[p] <= layer'[p]
      <4> SUFFICES ASSUME NEW p \in Index PROVE fallback[p] <= layer'[p]
        OBVIOUS
      <4>1. SaturatingInc(layer[d]) \in LayerNo
        BY <2>2, IncIsLayer
      <4> QED
        BY <1>0, <2>2, <3>1, <3>2, <4>1 DEF SweepInv, LayerNo
    <3> QED
      BY <1>0, <1>3, <3>1, <3>3 DEF Relax, SweepInv, decl
  <2>4. CASE ~(layer[i] <= layer[d])
    <3>1. UNCHANGED <<layer, changed>> /\ layer[d] < layer[i]
      BY <2>1, <2>2, <2>4 DEF LayerNo
    <3> QED
      BY <1>0, <1>3, <2>1, <2>2, <3>1 DEF Relax, SweepInv, Settled, decl
  <2> QED
    BY <2>3, <2>4
<1>4. CASE NextPass
  BY <1>0, <1>4 DEF NextPass, SweepInv, Settled, decl, TInv, PositionOK, Index
<1>5. CASE EndSweep
  <2>1. CASE changed
    BY <1>0, <1>5, <2>1 DEF EndSweep, SweepInv, Settled, decl, Index
  <2>2. CASE ~changed
    <3>1. \A p \in Index : p < i \/ p = i
      BY <1>5 DEF EndSweep, TInv, PositionOK, Index
    <3>2. \A p \in Index : Settled(p, Deps(p))
      BY <1>5, <2>2, <3>1 DEF EndSweep, SweepInv, Settled
    <3> QED
      BY <1>0, <1>5, <2>2, <3>2 DEF EndSweep, SweepInv, Settled, decl
  <2> QED
    BY <2>1, <2>2
<1> QED
  BY <1>1, <1>2, <1>3, <1>4, <1>5, <1>6, <1>7 DEF Next, Step, Finished

(* When the loop stops, every pass is in a later layer than every pass that
   provides what it requires, and no earlier than its fallback. *)
THEOREM ProvidersFirst == Spec => []ProvidersRunEarlier
<1>1. SweepInv => ProvidersRunEarlier
  BY DEF SweepInv, ProvidersRunEarlier, Satisfies, Settled
<1> QED
  BY <1>1, InitSweepInv, NextSweepInv, TInvInvariant, PTL DEF Spec

-----------------------------------------------------------------------------
(* A cycle of requirements against an order of the passes: there is the one or
   the other. *)

Ranks(f) == \A p \in Index : \A d \in Deps(p) : f[d] < f[p]

(* Of the members of a cycle, take one with the least set of passes that rank
   no higher: what it depends on in the cycle has a smaller one. *)
LEMMA CycleHasNoRanks ==
  ASSUME Cyclic, NEW f \in [Index -> 0..N]
  PROVE  ~Ranks(f)
<1> SUFFICES ASSUME Ranks(f) PROVE FALSE
  OBVIOUS
<1>1. PICK S \in SUBSET Index : S # {} /\ \A p \in S : Deps(p) \cap S # {}
  BY DEF Cyclic
<1> DEFINE Below(q) == {x \in Index : f[x] <= f[q]}
           T == {Below(q) : q \in S}
           R == StrictSubsetOrdering(Index)
<1>2. IsWellFoundedOn(R, SUBSET Index)
  <2>1. IsFiniteSet(Index)
    BY NAssumption, FS_Interval DEF Index
  <2> QED
    BY <2>1, FS_StrictSubsetOrderingWellFounded, FS_FiniteSubsetsOfFinite
<1>3. PICK B \in T : \A A \in T : <<A, B>> \notin R
  <2>1. T \subseteq SUBSET Index /\ T # {}
    BY <1>1
  <2> HIDE DEF T, R
  <2> QED
    BY <1>2, <2>1, WFMin
<1>4. PICK p \in S : B = Below(p)
  BY <1>3
<1>5. PICK d \in Deps(p) : d \in S
  BY <1>1
<1>6. f[d] < f[p] /\ p \in Index /\ d \in Index /\ f \in [Index -> Nat]
  BY <1>1, <1>4, <1>5, NAssumption DEF Ranks
<1>7. Below(d) \subseteq Below(p) /\ Below(d) # Below(p)
  <2>1. \A x \in Index : f[x] <= f[d] => f[x] <= f[p]
    BY <1>6
  <2>2. p \in Below(p) /\ p \notin Below(d)
    BY <1>6
  <2> QED
    BY <2>1, <2>2
<1>8. <<Below(d), Below(p)>> \in R
  BY <1>7 DEF StrictSubsetOrdering
<1> QED
  BY <1>3, <1>4, <1>5, <1>8

(* Passes in the order the sort takes them up: the result and, behind it, the
   queue. *)
Order == sorted \o queue
Queued == {Order[n] : n \in 1..Len(Order)}
Done == {Order[n] : n \in 1..Len(sorted)}

(* The providers a pass still waits for: those not sorted, and the one sorted
   last while it has not told the pass. *)
Left(p) == {d \in Deps(p) : d \notin Done \/ (p \in out /\ d = Order[Len(sorted)])}

(* Every pass once, and every provider before its consumers. *)
Ordered(s) ==
    /\ \A m, n \in 1..Len(s) : s[m] = s[n] => m = n
    /\ \A n \in 1..Len(s) : \A d \in Deps(s[n]) : \E m \in 1..(n - 1) : s[m] = d

OrderOK == Ordered(Order)

CountsOK == \A p \in Index : indegree[p] = Cardinality(Left(p))

OutOK == out # {} => sorted # <<>> /\ out \subseteq Successors(Order[Len(sorted)])

(* Queued are exactly the passes that wait for nothing, of those looked at. *)
QueueOK == \A p \in Index : p \in Queued <=> Left(p) = {} /\ (pc = "seed" => p < i)

HasRanks == \E f \in [Index -> 0..N] : Ranks(f)

SortInv ==
    /\ pc \in {"count", "seed"} => sorted = <<>> /\ out = {}
    /\ pc = "count" => queue = <<>>
    /\ pc \in {"seed", "sort"} => OrderOK /\ CountsOK /\ OutOK /\ QueueOK
    /\ pc \in {"relax", "done"} => HasRanks
    /\ pc = "cyclic" => ~HasRanks

-----------------------------------------------------------------------------
LEMMA OrderType ==
  ASSUME TInv
  PROVE  /\ Order \in Seq(Index) /\ Len(Order) = Len(sorted) + Len(queue)
         /\ Len(sorted) \in Nat /\ Len(queue) \in Nat /\ Len(Order) \in Nat
         /\ Order \in [1..Len(Order) -> Index]
         /\ Queued \subseteq Index /\ Done \subseteq Queued
<1>1. queue \in Seq(Index) /\ sorted \in Seq(Index)
  BY DEF TInv, TypeOK
<1>2. Order \in Seq(Index) /\ Len(Order) = Len(sorted) + Len(queue)
  BY <1>1, ConcatProperties DEF Order
<1>3. Len(sorted) \in Nat /\ Len(queue) \in Nat
  BY <1>1, LenProperties
<1>4. Order \in [1..Len(Order) -> Index]
  BY <1>2, LenProperties
<1> QED
  BY <1>2, <1>3, <1>4 DEF Queued, Done

LEMMA LeftIsFinite ==
  ASSUME NEW p
  PROVE  IsFiniteSet(Left(p)) /\ Cardinality(Left(p)) \in Nat
         /\ (Cardinality(Left(p)) = 0 <=> Left(p) = {})
<1>1. Left(p) \in SUBSET Deps(p)
  BY DEF Left
<1>2. IsFiniteSet(Left(p))
  BY <1>1, DepsAreFinite, FS_Subset
<1> QED
  BY <1>2, FS_CardinalityType, FS_EmptySet

(* A pass that is not in the order yet and waits only for passes that are goes
   to its end. *)
LEMMA AppendOrder ==
  ASSUME NEW s \in Seq(Index), NEW q \in Index, Ordered(s),
         q \notin {s[n] : n \in 1..Len(s)}, Deps(q) \subseteq {s[n] : n \in 1..Len(s)}
  PROVE  Ordered(Append(s, q))
<1> DEFINE t == Append(s, q)
<1>1. /\ Len(s) \in Nat /\ Len(t) = Len(s) + 1
      /\ \A n \in 1..Len(s) : t[n] = s[n]
      /\ t[Len(s) + 1] = q
  BY AppendProperties, LenProperties
<1> HIDE DEF t
<1>2. \A n \in 1..Len(t) : n \in 1..Len(s) \/ n = Len(s) + 1
  BY <1>1
<1>3. \A n \in 1..Len(s) : s[n] # q
  OBVIOUS
<1>4. ASSUME NEW m \in 1..Len(t), NEW n \in 1..Len(t), t[m] = t[n] PROVE m = n
  <2>1. CASE m \in 1..Len(s) /\ n \in 1..Len(s)
    BY <1>1, <1>4, <2>1 DEF Ordered
  <2>2. CASE m = Len(s) + 1 \/ n = Len(s) + 1
    BY <1>1, <1>2, <1>3, <1>4, <2>2
  <2> QED
    BY <1>2, <2>1, <2>2
<1>5. ASSUME NEW n \in 1..Len(t), NEW d \in Deps(t[n])
      PROVE  \E m \in 1..(n - 1) : t[m] = d
  <2>1. CASE n \in 1..Len(s)
    <3>1. PICK m \in 1..(n - 1) : s[m] = d
      BY <1>1, <1>5, <2>1 DEF Ordered
    <3>2. m \in 1..Len(s)
      BY <1>1, <2>1
    <3> QED
      BY <1>1, <3>1, <3>2
  <2>2. CASE n = Len(s) + 1
    <3>1. PICK m \in 1..Len(s) : s[m] = d
      BY <1>1, <1>5, <2>2
    <3>2. m \in 1..(n - 1)
      BY <1>1, <2>2
    <3> QED
      BY <1>1, <3>1, <3>2
  <2> QED
    BY <1>2, <2>1, <2>2
<1>6. Ordered(t)
  BY ONLY <1>4, <1>5 DEF Ordered
<1> QED
  BY <1>6 DEF t

(* What is ordered is a matter of the declarations. *)
LEMMA OrderStays == ASSUME UNCHANGED decl PROVE OrderOK' <=> Ordered(Order')
  BY DEF OrderOK, Ordered, Deps, decl

(* The next pass in registration order is queued or passed over. *)
LEMMA SeedKeeps ==
  ASSUME TInv, SortInv, Seed
  PROVE  OrderOK' /\ CountsOK' /\ OutOK' /\ QueueOK'
<1>1. /\ sorted = <<>> /\ out = {} /\ UNCHANGED <<sorted, out, indegree>> /\ UNCHANGED decl
      /\ \A p : Deps(p)' = Deps(p)
      /\ OrderOK /\ CountsOK /\ QueueOK /\ pc = "seed"
  BY DEF Seed, SortInv, decl, Deps
<1>2. queue \in Seq(Index) /\ i \in Index /\ i \in Nat /\ Index \subseteq Nat
  BY <1>1, NAssumption DEF TInv, TypeOK, PositionOK, Index
<1>3. Order = queue /\ Order' = queue'
  <2>1. queue' \in Seq(Index)
    BY <1>2, AppendProperties DEF Seed
  <2> QED
    BY <1>1, <1>2, <2>1, ConcatEmptySeq DEF Order
<1>4. Len(sorted) = 0 /\ Len(sorted') = 0
  BY <1>1
<1>5. Done = {} /\ Done' = {}
  BY <1>4 DEF Done
<1>6. \A p : Left(p) = Deps(p) /\ Left(p)' = Deps(p)
  BY <1>1, <1>5 DEF Left
<1>7. CountsOK' /\ OutOK'
  BY <1>1, <1>6 DEF CountsOK, OutOK
<1>8. indegree[i] = 0 <=> Deps(i) = {}
  BY <1>1, <1>2, <1>6, LeftIsFinite DEF CountsOK
<1>9. \A p \in Index : (p < i \/ p = i) <=> (pc' = "seed" => p < i')
  <2>1. \/ pc' = "seed" /\ i' = i + 1
        \/ pc' = "sort" /\ i >= N
    BY <1>1, <1>2, NAssumption DEF Seed
  <2>2. \A p \in Index : p \in Nat /\ p <= N
    BY NAssumption DEF Index
  <2> QED
    BY <1>2, <2>1, <2>2, NAssumption
<1>10. CASE indegree[i] # 0
  <2>1. queue' = queue
    BY <1>10 DEF Seed
  <2>2. Order' = Order
    BY <1>3, <2>1
  <2>3. OrderOK'
    BY <1>1, <2>2, OrderStays DEF OrderOK
  <2>4. QueueOK'
    <3>1. Queued' = Queued
      BY <2>2 DEF Queued
    <3> QED
      BY <1>1, <1>6, <1>8, <1>9, <1>10, <3>1 DEF QueueOK
  <2> QED
    BY <1>7, <2>3, <2>4
<1>11. CASE indegree[i] = 0
  <2>1. queue' = Append(queue, i)
    BY <1>11 DEF Seed
  <2>2. /\ Order' = Append(Order, i) /\ Len(Order') = Len(Order) + 1
        /\ \A n \in 1..Len(Order) : Order'[n] = Order[n]
        /\ Order'[Len(Order) + 1] = i
        /\ Len(Order) \in Nat
    BY <1>2, <1>3, <2>1, AppendProperties, LenProperties
  <2>3. Queued' = Queued \cup {i}
    BY <2>2 DEF Queued
  <2>4. i \notin Queued
    BY <1>1, <1>2 DEF QueueOK
  <2>5. OrderOK'
    <3>1. Order \in Seq(Index) /\ Deps(i) = {}
      BY <1>2, <1>3, <1>8, <1>11
    <3>2. Ordered(Append(Order, i))
      BY <1>1, <1>2, <2>4, <3>1, AppendOrder DEF OrderOK, Queued
    <3> QED
      BY <1>1, <2>2, <3>2, OrderStays
  <2>6. QueueOK'
    BY <1>1, <1>2, <1>6, <1>8, <1>9, <1>11, <2>3 DEF QueueOK
  <2> QED
    BY <1>7, <2>5, <2>6
<1> QED
  BY <1>10, <1>11

(* The first pass of the queue moves on to the result, and everything that
   waits for it still has to be told. *)
LEMMA PopKeeps ==
  ASSUME TInv, SortInv, Pop
  PROVE  OrderOK' /\ CountsOK' /\ OutOK' /\ QueueOK'
<1>1. /\ out = {} /\ UNCHANGED <<indegree, pc, i>> /\ UNCHANGED decl /\ \A p : Deps(p)' = Deps(p)
      /\ OrderOK /\ CountsOK /\ QueueOK /\ pc = "sort"
      /\ sorted' = Append(sorted, Head(queue)) /\ queue' = Tail(queue)
      /\ out' = Successors(Head(queue)) /\ queue # <<>>
  BY DEF Pop, SortInv, decl, Deps
<1>2. queue \in Seq(Index) /\ sorted \in Seq(Index)
  BY DEF TInv, TypeOK
<1>3. /\ Head(queue) \in Index /\ Len(queue) >= 1 /\ Order[Len(sorted) + 1] = Head(queue)
      /\ Len(sorted') = Len(sorted) + 1 /\ Order' = Order
  <2>1. /\ Head(queue) \in Index /\ Tail(queue) \in Seq(Index)
        /\ Len(Tail(queue)) = Len(queue) - 1
        /\ \A n \in 1..Len(Tail(queue)) : Tail(queue)[n] = queue[n + 1]
    BY <1>1, <1>2, HeadTailProperties
  <2>2. Len(queue) \in Nat \ {0} /\ Len(sorted) \in Nat /\ Head(queue) = queue[1]
    BY <1>1, <1>2, EmptySeq, LenProperties
  <2>3. /\ sorted' \in Seq(Index) /\ Len(sorted') = Len(sorted) + 1
        /\ \A n \in 1..Len(sorted) : sorted'[n] = sorted[n]
        /\ sorted'[Len(sorted) + 1] = Head(queue)
    BY <1>1, <1>2, <2>1, AppendProperties
  <2>4. /\ Order \in Seq(Index) /\ Len(Order) = Len(sorted) + Len(queue)
        /\ \A n \in 1..Len(Order) :
              Order[n] = IF n <= Len(sorted) THEN sorted[n] ELSE queue[n - Len(sorted)]
    BY <1>2, ConcatProperties DEF Order
  <2>5. /\ Order' \in Seq(Index) /\ Len(Order') = Len(sorted') + Len(Tail(queue))
        /\ \A n \in 1..Len(Order') :
              Order'[n] = IF n <= Len(sorted') THEN sorted'[n]
                          ELSE Tail(queue)[n - Len(sorted')]
    BY <1>1, <2>1, <2>3, ConcatProperties DEF Order
  <2>6. Len(Order') = Len(Order)
    BY <2>1, <2>2, <2>3, <2>4, <2>5
  <2>7. ASSUME NEW n \in 1..Len(Order) PROVE Order'[n] = Order[n]
    <3>1. n \in Nat /\ 1 <= n /\ n <= Len(sorted) + Len(queue)
      BY <2>2, <2>4
    <3>2. CASE n <= Len(sorted)
      <4>1. n \in 1..Len(sorted) /\ n \in 1..Len(Order') /\ n <= Len(sorted')
        BY <2>2, <2>3, <2>4, <2>6, <3>1, <3>2
      <4>2. Order[n] = sorted[n] /\ Order'[n] = sorted'[n] /\ sorted'[n] = sorted[n]
        BY ONLY <2>3, <2>4, <2>5, <3>2, <4>1, n \in 1..Len(Order)
      <4> QED
        BY <4>2
    <3>3. CASE n = Len(sorted) + 1
      BY <2>2, <2>3, <2>4, <2>5, <2>6, <3>1, <3>3
    <3>4. CASE n > Len(sorted) + 1
      <4>1. n - Len(sorted') \in 1..Len(Tail(queue))
        BY <2>1, <2>2, <2>3, <3>1, <3>4
      <4>2. Tail(queue)[n - Len(sorted')] = queue[(n - Len(sorted')) + 1]
        BY <2>1, <4>1
      <4>3. (n - Len(sorted')) + 1 = n - Len(sorted)
        BY <2>2, <2>3, <3>1
      <4> QED
        BY <2>2, <2>3, <2>4, <2>5, <2>6, <3>1, <3>4, <4>2, <4>3
    <3> QED
      BY <2>2, <3>1, <3>2, <3>3, <3>4
  <2>8. Order' = Order
    BY <2>4, <2>5, <2>6, <2>7, SeqEqual
  <2>9. Order[Len(sorted) + 1] = Head(queue)
    <3>1. Len(sorted) + 1 \in 1..Len(Order) /\ ~ (Len(sorted) + 1 <= Len(sorted))
          /\ (Len(sorted) + 1) - Len(sorted) = 1
      BY <2>2, <2>4
    <3>2. Order[Len(sorted) + 1] = queue[(Len(sorted) + 1) - Len(sorted)]
      BY <2>4, <3>1
    <3> QED
      BY <2>2, <3>1, <3>2
  <2> QED
    BY <2>1, <2>2, <2>3, <2>8, <2>9
<1>4. Len(sorted) \in Nat /\ Len(Order) \in Nat /\ Len(Order) = Len(sorted) + Len(queue)
  BY OrderType
<1>5. Done' = Done \cup {Head(queue)}
  BY <1>3, <1>4 DEF Done
<1>6. Head(queue) \notin Done
  BY <1>1, <1>3, <1>4 DEF Done, OrderOK, Ordered
<1>7. ASSUME NEW p \in Index PROVE Left(p)' = Left(p)
  <2>1. Order'[Len(sorted')] = Head(queue)
    BY <1>3
  <2>2. \A d \in Deps(p) : d = Head(queue) => p \in out'
    BY <1>1 DEF Successors
  <2> QED
    BY <1>1, <1>5, <1>6, <2>1, <2>2 DEF Left
<1>8. OrderOK'
  BY <1>1, <1>3, OrderStays DEF OrderOK
<1>9. CountsOK'
  BY <1>1, <1>7 DEF CountsOK
<1>10. OutOK'
  <2>1. sorted' # <<>>
    BY <1>1, <1>2, <1>3, AppendProperties
  <2>2. out' = {r \in Index : Head(queue) \in Deps(r)} /\ Order'[Len(sorted')] = Head(queue)
    BY <1>1, <1>3 DEF Successors
  <2>3. (Successors(Order[Len(sorted)]))' = {r \in Index : Head(queue) \in Deps(r)}
    BY <1>1, <2>2 DEF Successors, Deps, decl
  <2> QED
    BY <2>1, <2>2, <2>3 DEF OutOK
<1>11. QueueOK'
  <2>1. Queued' = Queued
    BY <1>3 DEF Queued
  <2> QED
    BY <1>1, <1>7, <2>1 DEF QueueOK
<1> QED
  BY <1>8, <1>9, <1>10, <1>11

(* A pass is told that one of its providers is out, and is queued behind all of
   them when it was the last. *)
LEMMA RemoveEdgeKeeps ==
  ASSUME TInv, SortInv, RemoveEdge
  PROVE  OrderOK' /\ CountsOK' /\ OutOK' /\ QueueOK'
<1>1. /\ UNCHANGED <<sorted, pc, i>> /\ UNCHANGED decl /\ \A p : Deps(p)' = Deps(p)
      /\ OrderOK /\ CountsOK /\ QueueOK /\ OutOK /\ pc = "sort"
  BY DEF RemoveEdge, SortInv, decl, Deps
<1>2. PICK q \in out :
         /\ out' = out \ {q}
         /\ indegree' = [indegree EXCEPT ![q] = SaturatingDec(@)]
         /\ queue' = IF indegree'[q] = 0 THEN Append(queue, q) ELSE queue
  BY DEF RemoveEdge
<1>3. /\ queue \in Seq(Index) /\ sorted \in Seq(Index) /\ q \in Index
      /\ indegree \in [Index -> Nat]
  BY <1>2 DEF TInv, TypeOK
<1> DEFINE last == Order[Len(sorted)]
<1>4. /\ Len(sorted) \in Nat \ {0} /\ Len(queue) \in Nat
      /\ Len(Order) = Len(sorted) + Len(queue)
      /\ last \in Deps(q) /\ last \in Done
  <2>1. sorted # <<>> /\ q \in Successors(last)
    BY <1>1, <1>2 DEF OutOK
  <2>2. Len(sorted) \in Nat \ {0}
    BY <1>3, <2>1, EmptySeq
  <2>3. last \in Deps(q)
    BY <2>1 DEF Successors
  <2> QED
    BY <2>2, <2>3, OrderType DEF Done
(* The order only grows at its end. *)
<1>5. /\ Order \in Seq(Index) /\ Len(Order) \in Nat
      /\ indegree'[q] # 0 => Order' = Order
      /\ indegree'[q] = 0 =>
            /\ Order' = Append(Order, q) /\ Len(Order') = Len(Order) + 1
            /\ Order'[Len(Order) + 1] = q
      /\ \A n \in 1..Len(Order) : Order'[n] = Order[n]
  <2>1. Order \in Seq(Index) /\ Len(Order) \in Nat
    BY OrderType
  <2>2. CASE indegree'[q] # 0
    BY <1>1, <1>2, <2>1, <2>2 DEF Order
  <2>3. CASE indegree'[q] = 0
    <3>1. queue' = Append(queue, q) /\ <<q>> \in Seq(Index)
      BY <1>2, <1>3, <2>3
    <3>2. queue' = queue \o <<q>>
      BY <1>3, <3>1, AppendIsConcat
    <3>3. Order' = (sorted \o queue) \o <<q>>
      BY <1>1, <1>3, <3>1, <3>2, ConcatAssociative DEF Order
    <3>4. Order' = Append(Order, q)
      BY <1>3, <2>1, <3>3, AppendIsConcat DEF Order
    <3> QED
      BY <1>3, <2>1, <2>3, <3>4, AppendProperties
  <2> QED
    BY <2>1, <2>2, <2>3
<1>6. Done' = Done /\ Order'[Len(sorted')] = last
  <2>1. \A n \in 1..Len(sorted) : n \in 1..Len(Order)
    BY <1>4
  <2> QED
    BY <1>1, <1>4, <1>5, <2>1 DEF Done
<1> HIDE DEF last
<1>7. /\ last \in Left(q) /\ Left(q)' = Left(q) \ {last}
      /\ \A p \in Index \ {q} : Left(p)' = Left(p)
  BY <1>1, <1>2, <1>4, <1>6 DEF Left, last
<1>8. Cardinality(Left(q)') = indegree'[q] /\ indegree'[q] = indegree[q] - 1
  <2>1. indegree[q] = Cardinality(Left(q)) /\ indegree[q] # 0 /\ indegree[q] \in Nat
    BY <1>1, <1>3, <1>7, LeftIsFinite DEF CountsOK
  <2>2. Cardinality(Left(q) \ {last}) = Cardinality(Left(q)) - 1
    BY <1>7, LeftIsFinite, FS_RemoveElement
  <2>3. indegree'[q] = indegree[q] - 1
    BY <1>2, <1>3, <2>1 DEF SaturatingDec
  <2> QED
    BY <1>7, <2>1, <2>2, <2>3
<1>9. CountsOK'
  <2>1. \A p \in Index \ {q} : indegree'[p] = indegree[p]
    BY <1>2, <1>3
  <2> QED
    BY <1>1, <1>7, <1>8, <2>1 DEF CountsOK
<1>10. OutOK'
  <2>2. (Successors(Order[Len(sorted)]))' = Successors(last)
    BY <1>1, <1>6 DEF Successors, Deps, decl
  <2>3. out # {} /\ sorted # <<>> /\ out \subseteq Successors(last)
    BY <1>1, <1>2 DEF OutOK, last
  <2> QED
    BY <1>1, <1>2, <2>2, <2>3 DEF OutOK
<1>11. indegree'[q] = 0 <=> Left(q)' = {}
  <2>1. IsFiniteSet(Left(q)')
    BY <1>7, LeftIsFinite, FS_RemoveElement
  <2> QED
    BY <1>8, <2>1, FS_EmptySet
<1>12. q \notin Queued
  BY <1>1, <1>3, <1>7 DEF QueueOK
<1>13. CASE indegree'[q] # 0
  <2>1. Order' = Order
    BY <1>5, <1>13
  <2>2. OrderOK'
    BY <1>1, <2>1, OrderStays DEF OrderOK
  <2>3. QueueOK'
    <3>1. Queued' = Queued
      BY <2>1 DEF Queued
    <3> QED
      BY <1>1, <1>7, <1>11, <1>12, <1>13, <3>1 DEF QueueOK
  <2> QED
    BY <1>9, <1>10, <2>2, <2>3
<1>14. CASE indegree'[q] = 0
  <2>1. Queued' = Queued \cup {q}
    BY <1>5, <1>14 DEF Queued
  <2>2. Deps(q) \subseteq Queued
    <3>1. Deps(q) \subseteq Done
      BY <1>1, <1>6, <1>11, <1>14 DEF Left
    <3> QED
      BY <3>1, OrderType
  <2>3. OrderOK'
    <3>1. Ordered(Append(Order, q))
      BY <1>1, <1>3, <1>5, <1>12, <2>2, AppendOrder DEF OrderOK, Queued
    <3> QED
      BY <1>1, <1>5, <1>14, <3>1, OrderStays
  <2>4. QueueOK'
    BY <1>1, <1>7, <1>11, <1>14, <2>1 DEF QueueOK
  <2> QED
    BY <1>9, <1>10, <2>3, <2>4
<1> QED
  BY <1>13, <1>14

(* When the queue is empty the passes sorted are all of them if and only if
   there is an order: their places are one, and without them the others wait
   for each other. *)
LEMMA VerdictIsRight ==
  ASSUME TInv, SortInv, Verdict
  PROVE  Len(sorted) = N <=> HasRanks
<1>1. /\ out = {} /\ queue = <<>> /\ OrderOK /\ QueueOK /\ pc = "sort"
  BY DEF Verdict, SortInv
<1>2. /\ Order \in [1..Len(sorted) -> Index] /\ Len(Order) = Len(sorted)
      /\ Len(sorted) \in Nat /\ Done = Queued /\ Queued \subseteq Index
  BY <1>1, OrderType DEF Done, Queued
<1>3. /\ IsFiniteSet(Index) /\ Cardinality(Index) = N
      /\ IsFiniteSet(1..Len(sorted)) /\ Cardinality(1..Len(sorted)) = Len(sorted)
  <2>1. ASSUME NEW m \in Nat PROVE IsFiniteSet(1..m) /\ Cardinality(1..m) = m
    <3>1. IsFiniteSet(1..m) /\ Cardinality(1..m) = IF 1 > m THEN 0 ELSE m - 1 + 1
      BY FS_Interval
    <3>2. (IF 1 > m THEN 0 ELSE m - 1 + 1) = m
      OBVIOUS
    <3> QED
      BY <3>1, <3>2
  <2> QED
    BY <1>2, <2>1, NAssumption DEF Index
<1>4. Order \in Injection(1..Len(sorted), Index)
  BY <1>1, <1>2 DEF OrderOK, Ordered, Injection, IsInjective
<1>5. Len(sorted) = N <=> Queued = Index
  <2>1. Len(sorted) = N <=> Order \in Surjection(1..Len(sorted), Index)
    BY <1>3, <1>4, FS_Injection
  <2>2. Order \in Surjection(1..Len(sorted), Index) <=> Queued = Index
    BY <1>2 DEF Surjection, Queued
  <2> QED
    BY <2>1, <2>2
<1>6. CASE Queued = Index
  <2> DEFINE f == [p \in Index |-> CHOOSE n \in 1..Len(sorted) : Order[n] = p]
  <2>1. \A p \in Index : f[p] \in 1..Len(sorted) /\ Order[f[p]] = p
    BY <1>2, <1>6 DEF Queued
  <2>2. f \in [Index -> 0..N]
    BY <1>2, <1>5, <1>6, <2>1, NAssumption
  <2> HIDE DEF f
  <2>3. Ranks(f)
    <3> SUFFICES ASSUME NEW p \in Index, NEW d \in Deps(p) PROVE f[d] < f[p]
      BY DEF Ranks
    <3>1. d \in Index /\ f[p] \in 1..Len(Order) /\ d \in Deps(Order[f[p]])
      BY <1>2, <2>1, DepsAreIndices
    <3>2. PICK m \in 1..(f[p] - 1) : Order[m] = d
      BY <1>1, <3>1 DEF OrderOK, Ordered
    <3>3. m \in 1..Len(sorted) /\ m < f[p]
      BY <1>2, <2>1, <3>2
    <3>4. m = f[d]
      BY <1>1, <1>2, <2>1, <3>1, <3>2, <3>3 DEF OrderOK, Ordered
    <3> QED
      BY <3>3, <3>4
  <2> QED
    BY <1>5, <1>6, <2>2, <2>3 DEF HasRanks
<1>7. CASE Queued # Index
  <2> DEFINE S == Index \ Queued
  <2>1. S \in SUBSET Index /\ S # {}
    BY <1>2, <1>7
  <2>2. ASSUME NEW p \in S PROVE Deps(p) \cap S # {}
    <3>1. PICK d \in Deps(p) : d \notin Done
      BY <1>1, <2>2 DEF QueueOK, Left
    <3> QED
      BY <1>2, <3>1, DepsAreIndices
  <2>3. Cyclic
    BY <2>1, <2>2 DEF Cyclic
  <2> QED
    BY <1>5, <1>7, <2>3, CycleHasNoRanks DEF HasRanks
<1> QED
  BY <1>6, <1>7

LEMMA InitSortInv == Init => SortInv
  BY DEF Init, SortInv

LEMMA NextSortInv == TInv /\ SortInv /\ [Next]_vars => SortInv'
<1> SUFFICES ASSUME TInv, SortInv, [Next]_vars PROVE SortInv'
  OBVIOUS
<1>1. UNCHANGED decl
  BY DEF Next, Step, Finished, Count, Seed, Pop, RemoveEdge, Verdict, Relax, NextPass,
     EndSweep, vars
<1>2. (HasRanks' <=> HasRanks) /\ \A p : Deps(p)' = Deps(p)
  BY <1>1 DEF HasRanks, Ranks, Deps, decl
<1>3. CASE UNCHANGED vars
  <2>1. /\ UNCHANGED <<sorted, queue, out, indegree, pc, i>>
        /\ Order' = Order
    BY <1>3 DEF vars, sortVars, Order
  <2>2. Queued' = Queued /\ Done' = Done
    BY <2>1 DEF Queued, Done
  <2>3. \A p : Left(p)' = Left(p)
    BY <1>2, <2>1, <2>2 DEF Left
  <2>4. OrderOK' <=> OrderOK
    BY <1>1, <2>1, OrderStays DEF OrderOK
  <2>5. (CountsOK' <=> CountsOK) /\ (QueueOK' <=> QueueOK)
    BY <2>1, <2>2, <2>3 DEF CountsOK, QueueOK
  <2>6. OutOK' <=> OutOK
    BY <1>1, <2>1 DEF OutOK, Successors, Deps, decl
  <2> QED
    BY <1>2, <2>1, <2>4, <2>5, <2>6 DEF SortInv
<1>4. CASE Count
  <2>1. CASE N = 0
    <3>1. pc' = "done" /\ Index = {}
      BY <1>4, <2>1 DEF Count, Index
    <3>2. [p \in Index |-> 0] \in [Index -> 0..N] /\ Ranks([p \in Index |-> 0])
      BY <3>1 DEF Ranks
    <3>3. HasRanks'
      BY <1>2, <3>2 DEF HasRanks
    <3> QED
      BY <3>1, <3>3 DEF SortInv
  <2>2. CASE N # 0
    <3>1. /\ pc' = "seed" /\ sorted' = <<>> /\ queue' = <<>> /\ out' = {} /\ i' = 1
          /\ indegree' = [p \in Index |-> InDegree(p)]
      BY <1>4, <2>2 DEF Count, SortInv, TInv, PositionOK
    <3>2. Order' = <<>> /\ Len(Order') = 0 /\ Len(sorted') = 0
      BY <3>1 DEF Order
    <3>3. Done' = {} /\ Queued' = {}
      BY <3>2 DEF Done, Queued
    <3>4. \A p : Left(p)' = Deps(p)
      BY <1>2, <3>1, <3>3 DEF Left
    <3>5. OrderOK' /\ OutOK'
      <4>1. Ordered(Order')
        BY <3>2 DEF Ordered
      <4> QED
        BY <1>1, <3>1, <4>1, OrderStays DEF OutOK
    <3>6. CountsOK'
      BY <3>1, <3>4 DEF CountsOK, InDegree
    <3>7. QueueOK'
      <4>1. \A p \in Index : ~ p < 1
        BY DEF Index
      <4> QED
        BY <3>1, <3>3, <4>1 DEF QueueOK
    <3> QED
      BY <3>1, <3>5, <3>6, <3>7 DEF SortInv
  <2> QED
    BY <2>1, <2>2
<1>5. CASE Seed
  <2>1. pc' \in {"seed", "sort"} /\ (sorted' = <<>> /\ out' = {})
    BY <1>5 DEF Seed, SortInv
  <2> QED
    BY <1>5, <2>1, SeedKeeps DEF SortInv
<1>6. CASE Pop
  <2>1. pc' = "sort"
    BY <1>6 DEF Pop
  <2> QED
    BY <1>6, <2>1, PopKeeps DEF SortInv
<1>7. CASE RemoveEdge
  <2>1. pc' = "sort"
    BY <1>7 DEF RemoveEdge
  <2> QED
    BY <1>7, <2>1, RemoveEdgeKeeps DEF SortInv
<1>8. CASE Verdict
  <2>1. \/ pc' = "relax" /\ Len(sorted) = N
        \/ pc' = "cyclic" /\ Len(sorted) # N
    BY <1>8 DEF Verdict
  <2> QED
    BY <1>2, <1>8, <2>1, VerdictIsRight DEF SortInv
<1>9. CASE Relax \/ NextPass \/ EndSweep
  <2>1. pc = "relax" /\ pc' \in {"relax", "done"}
    BY <1>9 DEF Relax, NextPass, EndSweep
  <2> QED
    BY <1>2, <2>1 DEF SortInv
<1> QED
  BY <1>3, <1>4, <1>5, <1>6, <1>7, <1>8, <1>9 DEF Next, Step, Finished

(* The topological sort's queue and counters report a cycle if and only if no
   order of the passes puts every provider before its consumers, and nothing is
   laid out then. *)
THEOREM CyclesAreRejected == Spec => []CyclesRejected
<1>1. SortInv => CyclesRejected
  <2>1. \A f : Ranks(f) <=> Orders(f)
    BY DEF Ranks, Orders, Deps
  <2> QED
    BY <2>1 DEF SortInv, CyclesRejected, HasRanks
<1> QED
  BY <1>1, InitSortInv, NextSortInv, TInvInvariant, PTL DEF Spec
=============================================================================
