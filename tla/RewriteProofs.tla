----------------------------- MODULE RewriteProofs -----------------------------
(*****************************************************************************)
(* The rewriting of a function by its ranges, for every function the         *)
(* verifier accepts and every width of values: from every state of a run,    *)
(* the function with its branches and comparisons folded and its phis        *)
(* repaired does what the function does (RewriteSound). The parts of the     *)
(* argument, in order: where a definition counts; folding; what a trivial    *)
(* phi stands for; what one pass of the repair keeps, and all passes; and    *)
(* the two runs, block by block. That the ranges hold of the run is          *)
(* DataflowProofs'.                                                          *)
(*****************************************************************************)
EXTENDS DataflowProofs

-----------------------------------------------------------------------------
(* Where a definition counts *)

(* v is defined on every way to block b, before it; or by the end of it. *)
IsAbove(f, v, b) ==
    \/ v \in f.initial.supplied
    \/ \E d \in NodeIds(f) \ {b} : v \in DefinedIn(f, d) /\ Dominates(SsaCfg(f), d, b)
(* The same, or b defines it itself: it is there when control leaves b. *)
IsThere(f, v, b) ==
    \/ v \in f.initial.supplied
    \/ \E d \in NodeIds(f) : v \in DefinedIn(f, d) /\ Dominates(SsaCfg(f), d, b)

(* The graph of a verified function, and its blocks. *)
LEMMA VerifiedFacts ==
  ASSUME NEW f, IsVerified(f)
  PROVE  /\ IsFunction(f) /\ IsExecutable(f) /\ IsSingleAssignment(f) /\ IsStrict(f)
         /\ IsGraph(SsaCfg(f)) /\ NodeIds(SsaCfg(f)) = NodeIds(f) /\ 0 \in NodeIds(f)
         /\ ReachableFrom(SsaCfg(f), 0) \subseteq NodeIds(f) /\ 0 \in ReachableFrom(SsaCfg(f), 0)
         /\ \A b \in NodeIds(f) :
               /\ f.phis[b] \in Seq(PhiSet(f)) /\ f.body[b] \in Seq(InstructionSet(f))
               /\ DefinedIn(f, b) \subseteq Variables(f)
         /\ f.initial.supplied \subseteq Variables(f) /\ Nil \notin Variables(f)
<1>1. IsFunction(f) /\ IsExecutable(f) /\ IsSingleAssignment(f) /\ IsStrict(f)
  BY DEF IsVerified
<1>2. IsGraph(SsaCfg(f)) /\ NodeIds(SsaCfg(f)) = NodeIds(f) /\ 0 \in NodeIds(f)
  BY <1>1, SsaCfgIsGraph, FunctionHasEntry
<1>3. ReachableFrom(SsaCfg(f), 0) \subseteq NodeIds(f) /\ 0 \in ReachableFrom(SsaCfg(f), 0)
  BY <1>2, ReachFacts
<1>4. \A b \in NodeIds(f) :
         /\ f.phis[b] \in Seq(PhiSet(f)) /\ f.body[b] \in Seq(InstructionSet(f))
         /\ DefinedIn(f, b) \subseteq Variables(f)
  BY <1>1 DEF IsExecutable, Variables
<1>5. f.initial.supplied \subseteq Variables(f) /\ Nil \notin Variables(f)
  BY <1>1 DEF IsExecutable, Variables
<1> QED  BY <1>1, <1>2, <1>3, <1>4, <1>5

(* A variable has one place where it is defined. *)
LEMMA DefinedOnce ==
  ASSUME NEW f, IsVerified(f), NEW b \in NodeIds(f), NEW v \in DefinedIn(f, b)
  PROVE  /\ \A d \in NodeIds(f) : v \in DefinedIn(f, d) => d = b
         /\ v \notin f.initial.supplied
<1>1. IsSingleAssignment(f)
  BY DEF IsVerified
<1>2. ASSUME NEW d \in NodeIds(f), v \in DefinedIn(f, d) PROVE d = b
  <2>2. CASE v \in Dests(f, b) /\ v \in Dests(f, d)
    <3>1. PICK i \in DOMAIN f.body[b], j \in DOMAIN f.body[d] :
             f.body[b][i].dest = v /\ f.body[d][j].dest = v /\ v # Nil
      BY <2>2 DEF Dests, ToSet
    <3> QED  BY <1>1, <3>1 DEF IsSingleAssignment
  <2>3. CASE v \in PhiResults(f, b) /\ v \in PhiResults(f, d)
    <3>1. PICK i \in DOMAIN f.phis[b], j \in DOMAIN f.phis[d] :
             f.phis[b][i].result = v /\ f.phis[d][j].result = v
      BY <2>3 DEF PhiResults, ToSet
    <3> QED  BY <1>1, <3>1 DEF IsSingleAssignment
  <2>4. PhiResults(f, b) \cap Dests(f, d) = {} /\ PhiResults(f, d) \cap Dests(f, b) = {}
    BY <1>1 DEF IsSingleAssignment
  <2> QED  BY <1>2, <2>2, <2>3, <2>4 DEF DefinedIn
<1>3. v \notin f.initial.supplied
  BY <1>1 DEF IsSingleAssignment
<1> QED  BY <1>2, <1>3

(* A phi has an operand for every block that leads there, and its value is there
   by the end of that block. *)
LEMMA OperandIsThere ==
  ASSUME NEW f, IsVerified(f), NEW b \in ReachableFrom(SsaCfg(f), 0),
         NEW phi \in ToSet(f.phis[b])
  PROVE  /\ b # 0 /\ phi.result \in PhiResults(f, b) /\ phi.operands \in Seq([pred : NodeIds(f), value : Variables(f)])
         /\ \A p \in PredecessorSet(SsaCfg(f), b) : \E o \in ToSet(phi.operands) : o.pred = p
         /\ \A o, q \in ToSet(phi.operands) : o.pred = q.pred => o = q
         /\ \A o \in ToSet(phi.operands) :
               /\ o.pred \in PredecessorSet(SsaCfg(f), b) /\ o.value \in Variables(f)
               /\ o.pred \in ReachableFrom(SsaCfg(f), 0) => IsThere(f, o.value, o.pred)
<1>1. b \in NodeIds(f) /\ f.phis[b] \in Seq(PhiSet(f)) /\ f.phis[0] = <<>>
  BY VerifiedFacts DEF IsStrict
<1>2. /\ {o.pred : o \in ToSet(phi.operands)} = PredecessorSet(SsaCfg(f), b)
      /\ \A o, q \in ToSet(phi.operands) : o.pred = q.pred => o = q
      /\ \A o \in ToSet(phi.operands) :
            o.pred \in ReachableFrom(SsaCfg(f), 0)
               => o.value \in DefinedBefore(f, o.pred, Len(f.body[o.pred]) + 1)
  BY DEF IsVerified, IsStrict
<1>3. b # 0 /\ phi \in PhiSet(f)
  BY <1>1 DEF ToSet
<1>4. phi.operands \in Seq([pred : NodeIds(f), value : Variables(f)]) /\ phi.result \in PhiResults(f, b)
  BY <1>3 DEF PhiSet, PhiResults
<1>5. ASSUME NEW o \in ToSet(phi.operands)
      PROVE  /\ o.pred \in PredecessorSet(SsaCfg(f), b) /\ o.value \in Variables(f)
             /\ o.pred \in ReachableFrom(SsaCfg(f), 0) => IsThere(f, o.value, o.pred)
  <2>1. o \in [pred : NodeIds(f), value : Variables(f)]
    <3>1. PICK k \in DOMAIN phi.operands : o = phi.operands[k]
      BY DEF ToSet
    <3> DEFINE R == [pred : NodeIds(f), value : Variables(f)]
    <3>2. phi.operands \in Seq(R)
      BY <1>4
    <3> HIDE DEF R
    <3>3. o \in R
      BY <3>1, <3>2
    <3> QED  BY <3>3 DEF R
  <2>2. o.pred \in PredecessorSet(SsaCfg(f), b)
    BY <1>2
  <2>3. ASSUME o.pred \in ReachableFrom(SsaCfg(f), 0) PROVE IsThere(f, o.value, o.pred)
    <3> DEFINE p == o.pred
               v == o.value
    <3>1. v \in DefinedBefore(f, p, Len(f.body[p]) + 1) /\ p \in NodeIds(f) /\ v \in Variables(f)
      BY <1>2, <2>1, <2>3
    <3>2. Dominates(SsaCfg(f), p, p)
      BY <2>3, <3>1, VerifiedFacts, DominanceOrder
    <3> SUFFICES IsThere(f, v, p)
      OBVIOUS
    <3> HIDE DEF p, v
    <3>3. CASE v \in PhiResults(f, p)
      BY <3>1, <3>2, <3>3 DEF IsThere, DefinedIn
    <3>4. CASE \E j \in 1 .. Len(f.body[p]) + 1 - 1 : f.body[p][j].dest = v
      <4>1. f.body[p] \in Seq(InstructionSet(f)) /\ v # Nil
        BY <3>1, VerifiedFacts
      <4>2. v \in Dests(f, p)
        BY <3>4, <4>1 DEF Dests, ToSet
      <4> QED  BY <3>1, <3>2, <4>2 DEF IsThere, DefinedIn
    <3>5. CASE \E d \in {a \in NodeIds(f) \ {p} : p \in Behind(SsaCfg(f), 0)[a]} : v \in DefinedIn(f, d)
      BY <3>5 DEF IsThere, Dominates
    <3> QED  BY <3>1, <3>3, <3>4, <3>5 DEF DefinedBefore, IsThere
  <2> QED  BY <2>1, <2>2, <2>3
<1>6. \A p \in PredecessorSet(SsaCfg(f), b) : \E o \in ToSet(phi.operands) : o.pred = p
  BY <1>2
<1> QED  BY <1>2, <1>3, <1>4, <1>5, <1>6

(* In particular one for every block that leads there. *)
LEMMA OperandFrom ==
  ASSUME NEW f, IsVerified(f), NEW b \in ReachableFrom(SsaCfg(f), 0),
         NEW phi \in ToSet(f.phis[b]), NEW p \in PredecessorSet(SsaCfg(f), b)
  PROVE  \E o \in ToSet(phi.operands) : o.pred = p
<1>1. {o.pred : o \in ToSet(phi.operands)} = PredecessorSet(SsaCfg(f), b)
  BY DEF IsVerified, IsStrict
<1> QED  BY <1>1

(* What is there at the end of every block that leads to b, those b dominates
   aside, is defined above b. *)
LEMMA AboveIfThere ==
  ASSUME NEW f, IsVerified(f), NEW b \in ReachableFrom(SsaCfg(f), 0), b # 0, NEW v,
         \A p \in PredecessorSet(SsaCfg(f), b) \cap ReachableFrom(SsaCfg(f), 0) :
            IsThere(f, v, p) \/ Dominates(SsaCfg(f), b, p)
  PROVE  IsAbove(f, v, b)
<1> DEFINE g == SsaCfg(f)
           reach == ReachableFrom(g, 0)
           off(a) == ReachableAvoiding(g, {0}, {a})
<1>1. IsGraph(g) /\ NodeIds(g) = NodeIds(f) /\ 0 \in NodeIds(g) /\ b \in NodeIds(g)
  BY VerifiedFacts
<1>2. /\ 0 \in reach /\ reach \subseteq NodeIds(g) /\ \A w \in reach : SuccessorSet(g, w) \subseteq reach
      /\ \A Y : 0 \in Y /\ (\A w \in reach \cap Y : SuccessorSet(g, w) \subseteq Y) => reach \subseteq Y
  BY <1>1, ReachFacts
<1>3. ASSUME NEW a \in NodeIds(g)
      PROVE  /\ \A c : Dominates(g, a, c) <=> c \in reach /\ c \notin off(a)
             /\ a \notin off(a) /\ (a # 0 => 0 \in off(a))
             /\ \A x \in off(a) : \A w \in SuccessorSet(g, x) : w = a \/ w \in off(a)
             /\ \A Y : (a # 0 => 0 \in Y)
                       /\ (\A x \in off(a) \cap Y : \A w \in SuccessorSet(g, x) : w = a \/ w \in Y)
                         => off(a) \subseteq Y
  BY <1>1, DominanceFacts, Zenon
<1>4. \A p : p \in PredecessorSet(g, b) <=> p \in NodeIds(g) /\ b \in SuccessorSet(g, p)
  BY DEF PredecessorSet
<1>5. \A p \in PredecessorSet(g, b) \cap reach : IsThere(f, v, p) \/ Dominates(g, b, p)
  OBVIOUS
<1> HIDE DEF off, reach, g
<1>6. PICK p \in PredecessorSet(g, b) \cap reach : ~Dominates(g, b, p)
  <2> SUFFICES ASSUME \A p \in PredecessorSet(g, b) \cap reach : Dominates(g, b, p) PROVE FALSE
    OBVIOUS
  <2>1. \A w \in reach \cap off(b) : SuccessorSet(g, w) \subseteq off(b)
    BY <1>1, <1>2, <1>3, <1>4
  <2>2. reach \subseteq off(b)
    BY <1>1, <1>2, <1>3, <2>1
  <2> QED  BY <1>1, <1>3, <2>2 DEF reach, g
<1> SUFFICES ASSUME v \notin f.initial.supplied PROVE IsAbove(f, v, b)
  BY DEF IsAbove
<1>7. PICK d \in NodeIds(f) : v \in DefinedIn(f, d) /\ Dominates(g, d, p)
  BY <1>5, <1>6 DEF IsThere, g
<1>8. d # b
  BY <1>6, <1>7
<1>9. Dominates(g, d, b)
  <2>1. \A q \in PredecessorSet(g, b) \cap reach : ~Dominates(g, b, q) => Dominates(g, d, q)
    <3> SUFFICES ASSUME NEW q \in PredecessorSet(g, b) \cap reach, ~Dominates(g, b, q)
                 PROVE  Dominates(g, d, q)
      OBVIOUS
    <3>1. PICK c \in NodeIds(f) : v \in DefinedIn(f, c) /\ Dominates(g, c, q)
      BY <1>5 DEF IsThere, g
    <3>2. c = d
      BY <1>7, <3>1, DefinedOnce
    <3> QED  BY <3>1, <3>2
  <2> DEFINE Z == off(d) \cap off(b) \cap reach
  <2>2. d # 0 => 0 \in Z
    BY <1>1, <1>2, <1>3
  <2>3. \A x \in off(d) \cap Z : \A w \in SuccessorSet(g, x) : w = d \/ w \in Z
    <3> SUFFICES ASSUME NEW x \in off(d), x \in off(b), x \in reach, NEW w \in SuccessorSet(g, x), w # d
                 PROVE  w \in off(d) /\ w \in off(b) /\ w \in reach
      OBVIOUS
    <3>1. w \in off(d) /\ w \in reach
      BY <1>1, <1>2, <1>3
    <3>2. w # b
      BY <1>1, <1>2, <1>3, <1>4, <2>1
    <3> QED  BY <1>1, <1>3, <3>1, <3>2
  <2>4. off(d) \subseteq Z
    <3> HIDE DEF Z
    <3> QED  BY <1>1, <1>3, <2>2, <2>3
  <2> QED  BY <1>1, <1>3, <2>4 DEF reach, g
<1> QED  BY <1>7, <1>8, <1>9 DEF IsAbove, g

(* Above and there, along dominance. *)
LEMMA AboveFacts ==
  ASSUME NEW f, IsVerified(f), NEW v, NEW b \in NodeIds(f), IsAbove(f, v, b), NEW c \in NodeIds(f)
  PROVE  /\ Dominates(SsaCfg(f), b, c) => IsThere(f, v, c)
         /\ \A x \in DefinedIn(f, b) : IsAbove(f, x, c) => IsAbove(f, v, c)
<1>1. IsGraph(SsaCfg(f)) /\ NodeIds(SsaCfg(f)) = NodeIds(f) /\ 0 \in NodeIds(f)
  BY VerifiedFacts
<1>2. ASSUME Dominates(SsaCfg(f), b, c) PROVE IsThere(f, v, c)
  BY <1>1, <1>2, DominanceOrder DEF IsThere, IsAbove
<1>3. ASSUME NEW x \in DefinedIn(f, b), IsAbove(f, x, c) PROVE IsAbove(f, v, c)
  <2>1. b # c /\ Dominates(SsaCfg(f), b, c)
    BY <1>3, DefinedOnce DEF IsAbove
  <2> SUFFICES ASSUME NEW d \in NodeIds(f) \ {b}, v \in DefinedIn(f, d), Dominates(SsaCfg(f), d, b)
               PROVE  IsAbove(f, v, c)
    BY DEF IsAbove
  <2>2. Dominates(SsaCfg(f), d, c) /\ d # c
    BY <1>1, <2>1, DominanceOrder
  <2> QED  BY <2>2 DEF IsAbove
<1> QED  BY <1>2, <1>3

-----------------------------------------------------------------------------
(* What a trivial phi stands for *)

Merged(f) == UNION {PhiResults(f, b) : b \in NodeIds(f)}
(* The results of phis, and the pairs that could be equal. *)
Pairs(f) == Merged(f) \X Variables(f)
(* Equal by S, or the same. *)
StandsIn(S, x, v) == x = v \/ <<x, v>> \in S

(* In an agreement a phi is paired with values that all its operands that can
   be read are equal to, by agreement if not by name, and that are defined
   before it. *)
IsAgreement(f, S) ==
    \A x, v : <<x, v>> \in S =>
        \A b \in ReachableFrom(SsaCfg(f), 0) : \A phi \in ToSet(f.phis[b]) :
            phi.result = x =>
                /\ IsAbove(f, v, b)
                /\ \A o \in ToSet(phi.operands) :
                      o.pred \in ReachableFrom(SsaCfg(f), 0) => StandsIn(S, o.value, v)

(* The largest agreement, and what may be read for what. *)
Equal(f) == UNION {S \in SUBSET Pairs(f) : IsAgreement(f, S)}
(* v always has the value of x, where x has one. *)
Stands(f, x, v) == StandsIn(Equal(f), x, v)

(* Equal is the largest agreement. *)
LEMMA EqualFacts ==
  ASSUME NEW f
  PROVE  /\ Equal(f) \subseteq Pairs(f) /\ IsAgreement(f, Equal(f))
         /\ \A S \in SUBSET Pairs(f) : IsAgreement(f, S) => S \subseteq Equal(f)
<1>1. Equal(f) \subseteq Pairs(f) /\ \A S \in SUBSET Pairs(f) : IsAgreement(f, S) => S \subseteq Equal(f)
  BY DEF Equal
<1>2. IsAgreement(f, Equal(f))
  <2> SUFFICES ASSUME NEW x, NEW v, <<x, v>> \in Equal(f),
                      NEW b \in ReachableFrom(SsaCfg(f), 0), NEW phi \in ToSet(f.phis[b]), phi.result = x
               PROVE  /\ IsAbove(f, v, b)
                      /\ \A o \in ToSet(phi.operands) :
                            o.pred \in ReachableFrom(SsaCfg(f), 0) => StandsIn(Equal(f), o.value, v)
    BY DEF IsAgreement
  <2>1. PICK S \in SUBSET Pairs(f) : IsAgreement(f, S) /\ <<x, v>> \in S
    BY DEF Equal
  <2>2. /\ IsAbove(f, v, b)
        /\ \A o \in ToSet(phi.operands) :
              o.pred \in ReachableFrom(SsaCfg(f), 0) => StandsIn(S, o.value, v)
    BY <2>1 DEF IsAgreement
  <2>3. S \subseteq Equal(f)
    BY <1>1, <2>1
  <2> QED  BY <2>2, <2>3 DEF StandsIn
<1> QED  BY <1>1, <1>2

(* A pair whose phi is reached, taken apart. *)
LEMMA EqualIsAbove ==
  ASSUME NEW f, IsVerified(f), NEW b \in ReachableFrom(SsaCfg(f), 0),
         NEW x \in PhiResults(f, b), NEW v, <<x, v>> \in Equal(f)
  PROVE  IsAbove(f, v, b) /\ v \in Variables(f)
<1>1. PICK phi \in ToSet(f.phis[b]) : phi.result = x
  BY DEF PhiResults
<1> QED  BY <1>1, EqualFacts DEF IsAgreement, Pairs

(* Both sides of what may be read are there where the one that was read is. *)
LEMMA StandsIsThere ==
  ASSUME NEW f, IsVerified(f), NEW b \in NodeIds(f), NEW x, IsThere(f, x, b), NEW v, Stands(f, x, v)
  PROVE  IsThere(f, v, b)
<1> SUFFICES ASSUME <<x, v>> \in Equal(f) PROVE IsThere(f, v, b)
  BY DEF Stands, StandsIn
<1>1. x \in Merged(f)
  BY EqualFacts DEF Pairs
<1>2. PICK c \in NodeIds(f) : x \in PhiResults(f, c)
  BY <1>1 DEF Merged
<1>3. x \notin f.initial.supplied /\ \A d \in NodeIds(f) : x \in DefinedIn(f, d) => d = c
  BY <1>2, DefinedOnce DEF DefinedIn
<1>4. Dominates(SsaCfg(f), c, b)
  BY <1>3 DEF IsThere
<1>5. c \in ReachableFrom(SsaCfg(f), 0)
  BY <1>4, VerifiedFacts, DominanceOrder
<1>6. IsAbove(f, v, c)
  BY <1>2, <1>5, EqualIsAbove
<1> QED  BY <1>4, <1>6, AboveFacts

(* What stands for what stands for x stands for x. *)
LEMMA StandsTransitive ==
  ASSUME NEW f, IsVerified(f), NEW y, NEW x, NEW v, Stands(f, y, x), Stands(f, x, v)
  PROVE  Stands(f, y, v)
<1> SUFFICES ASSUME <<y, x>> \in Equal(f), <<x, v>> \in Equal(f) PROVE Stands(f, y, v)
  BY DEF Stands, StandsIn
<1> DEFINE New == {t \in Pairs(f) : t[2] = v /\ <<t[1], x>> \in Equal(f)}
           S == Equal(f) \cup New
<1>1. Equal(f) \subseteq Pairs(f) /\ IsAgreement(f, Equal(f))
  BY EqualFacts
<1>2. \A z, w : <<z, w>> \in New <=> <<z, w>> \in Pairs(f) /\ w = v /\ <<z, x>> \in Equal(f)
  OBVIOUS
<1>3. \A z : <<z, x>> \in Equal(f) => <<z, v>> \in New
  BY <1>1 DEF Pairs
<1> HIDE DEF New
<1>4. IsAgreement(f, S)
  <2> SUFFICES ASSUME NEW z, NEW w, <<z, w>> \in S,
                      NEW b \in ReachableFrom(SsaCfg(f), 0), NEW phi \in ToSet(f.phis[b]), phi.result = z
               PROVE  /\ IsAbove(f, w, b)
                      /\ \A o \in ToSet(phi.operands) :
                            o.pred \in ReachableFrom(SsaCfg(f), 0) => StandsIn(S, o.value, w)
    BY DEF IsAgreement
  <2>1. CASE <<z, w>> \in Equal(f)
    BY <1>1, <2>1 DEF IsAgreement, StandsIn
  <2>2. CASE <<z, w>> \in New
    <3>1. w = v /\ <<z, x>> \in Equal(f)
      BY <1>2, <2>2
    <3>2. /\ IsAbove(f, x, b)
          /\ \A o \in ToSet(phi.operands) :
                o.pred \in ReachableFrom(SsaCfg(f), 0) => StandsIn(Equal(f), o.value, x)
      BY <1>1, <3>1 DEF IsAgreement
    <3>3. \A o \in ToSet(phi.operands) :
             o.pred \in ReachableFrom(SsaCfg(f), 0) => StandsIn(S, o.value, w)
      BY <1>3, <3>1, <3>2 DEF StandsIn
    <3>4. PICK c \in NodeIds(f) : x \in PhiResults(f, c)
      BY <1>1 DEF Pairs, Merged
    <3>5. x \in DefinedIn(f, c) /\ b \in NodeIds(f)
      BY <3>4, VerifiedFacts DEF DefinedIn
    <3>6. Dominates(SsaCfg(f), c, b)
      BY <3>2, <3>5, DefinedOnce DEF IsAbove
    <3>7. c \in ReachableFrom(SsaCfg(f), 0)
      BY <3>5, <3>6, VerifiedFacts, DominanceOrder
    <3>8. IsAbove(f, v, c)
      BY <3>4, <3>7, EqualIsAbove
    <3>9. IsAbove(f, w, b)
      BY <3>1, <3>2, <3>5, <3>8, AboveFacts
    <3> QED  BY <3>3, <3>9
  <2> QED  BY <2>1, <2>2
<1>5. S \in SUBSET Pairs(f)
  BY <1>1 DEF New
<1>6. <<y, v>> \in Equal(f)
  BY <1>3, <1>4, <1>5, EqualFacts
<1> QED  BY <1>6 DEF Stands, StandsIn

(* A phi whose operands all stand for one value, or for itself, is that value. *)
LEMMA TrivialIsEqual ==
  ASSUME NEW f, IsVerified(f), NEW b \in NodeIds(f), NEW phi \in ToSet(f.phis[b]),
         NEW v \in Variables(f), v # phi.result,
         \A o \in ToSet(phi.operands) :
            o.pred \in ReachableFrom(SsaCfg(f), 0)
               => Stands(f, o.value, v) \/ Stands(f, o.value, phi.result)
  PROVE  Stands(f, phi.result, v)
<1> DEFINE reach == ReachableFrom(SsaCfg(f), 0)
           x == phi.result
           New == {t \in Pairs(f) : t[2] = v /\ StandsIn(Equal(f), t[1], x)}
           S == Equal(f) \cup New
<1>1. Equal(f) \subseteq Pairs(f) /\ IsAgreement(f, Equal(f))
  BY EqualFacts
<1>2. /\ x \in PhiResults(f, b) /\ x \in DefinedIn(f, b) /\ x \in Merged(f) /\ <<x, v>> \in Pairs(f)
  BY DEF PhiResults, DefinedIn, Merged, Pairs
<1>3. \A z, w : <<z, w>> \in New <=> <<z, w>> \in Pairs(f) /\ w = v /\ StandsIn(Equal(f), z, x)
  OBVIOUS
<1>4. <<x, v>> \in New /\ \A z : StandsIn(Equal(f), z, x) => <<z, v>> \in New
  BY <1>1, <1>2, <1>3 DEF Pairs, StandsIn
<1>5. \A o \in ToSet(phi.operands) :
         o.pred \in reach => StandsIn(Equal(f), o.value, v) \/ StandsIn(Equal(f), o.value, x)
  BY DEF Stands
<1> HIDE DEF New
<1>6. b \in reach => IsAbove(f, v, b)
  <2> SUFFICES ASSUME b \in reach PROVE IsAbove(f, v, b)
    OBVIOUS
  <2>1. \A p \in PredecessorSet(SsaCfg(f), b) \cap reach : IsThere(f, v, p) \/ Dominates(SsaCfg(f), b, p)
    <3> SUFFICES ASSUME NEW p \in PredecessorSet(SsaCfg(f), b), p \in reach
                 PROVE  IsThere(f, v, p) \/ Dominates(SsaCfg(f), b, p)
      OBVIOUS
    <3>0. b \in ReachableFrom(SsaCfg(f), 0)
      OBVIOUS
    <3>1. PICK o \in ToSet(phi.operands) : o.pred = p
      BY <3>0, OperandFrom
    <3>2. IsThere(f, o.value, p) /\ p \in NodeIds(f)
      BY <3>1, OperandIsThere, VerifiedFacts
    <3>3. CASE Stands(f, o.value, v)
      BY <3>2, <3>3, StandsIsThere
    <3>4. CASE Stands(f, o.value, x)
      <4>1. IsThere(f, x, p)
        BY <3>2, <3>4, StandsIsThere
      <4>2. Dominates(SsaCfg(f), b, p)
        BY <1>2, <4>1, DefinedOnce DEF IsThere
      <4> QED  BY <4>2
    <3> QED  BY <3>1, <3>3, <3>4
  <2> QED  BY <2>1, AboveIfThere, OperandIsThere
<1>7. IsAgreement(f, S)
  <2> SUFFICES ASSUME NEW z, NEW w, <<z, w>> \in S,
                      NEW c \in reach, NEW psi \in ToSet(f.phis[c]), psi.result = z
               PROVE  /\ IsAbove(f, w, c)
                      /\ \A o \in ToSet(psi.operands) : o.pred \in reach => StandsIn(S, o.value, w)
    BY DEF IsAgreement
  <2>1. CASE <<z, w>> \in Equal(f)
    BY <1>1, <2>1 DEF IsAgreement, StandsIn
  <2>2. CASE <<z, w>> \in New /\ z = x
    <3>1. c \in NodeIds(f) /\ z \in DefinedIn(f, c) /\ w = v
      BY <1>3, <2>2, VerifiedFacts DEF DefinedIn, PhiResults
    <3>2. c = b
      BY <1>2, <2>2, <3>1, DefinedOnce
    <3>3. psi = phi
      <4>1. PICK k \in DOMAIN f.phis[b], l \in DOMAIN f.phis[b] : phi = f.phis[b][k] /\ psi = f.phis[b][l]
        BY <3>2 DEF ToSet
      <4>2. f.phis[b][k].result = f.phis[b][l].result
        BY <2>2, <4>1
      <4>3. IsSingleAssignment(f) /\ b \in NodeIds(f)
        BY DEF IsVerified
      <4>4. k = l
        BY ONLY <4>1, <4>2, <4>3 DEF IsSingleAssignment
      <4> QED  BY ONLY <4>1, <4>4
    <3>4. \A o \in ToSet(psi.operands) : o.pred \in reach => StandsIn(S, o.value, w)
      BY <1>4, <1>5, <3>1, <3>3 DEF StandsIn
    <3> QED  BY <1>6, <3>1, <3>2, <3>4
  <2>3. CASE <<z, w>> \in New /\ z # x
    <3>1. w = v /\ <<z, x>> \in Equal(f)
      BY <1>3, <2>3 DEF StandsIn
    <3>2. /\ IsAbove(f, x, c)
          /\ \A o \in ToSet(psi.operands) : o.pred \in reach => StandsIn(Equal(f), o.value, x)
      BY <1>1, <3>1 DEF IsAgreement
    <3>3. \A o \in ToSet(psi.operands) : o.pred \in reach => StandsIn(S, o.value, w)
      BY <1>4, <3>1, <3>2 DEF StandsIn
    <3>4. Dominates(SsaCfg(f), b, c) /\ c \in NodeIds(f)
      BY <1>2, <3>2, DefinedOnce, VerifiedFacts DEF IsAbove
    <3>5. b \in reach
      BY <3>4, VerifiedFacts, DominanceOrder
    <3>6. IsAbove(f, w, c)
      BY <1>2, <1>6, <3>1, <3>2, <3>4, <3>5, AboveFacts
    <3> QED  BY <3>3, <3>6
  <2> QED  BY <2>1, <2>2, <2>3
<1>8. S \in SUBSET Pairs(f)
  BY <1>1 DEF New
<1>9. <<x, v>> \in Equal(f)
  BY <1>4, <1>7, <1>8, EqualFacts
<1> QED  BY <1>9 DEF Stands, StandsIn

-----------------------------------------------------------------------------
(* The running function has what is defined on the way, and agrees on it *)

(* DefinedBefore, by name. *)
LEMMA BeforeFacts ==
  ASSUME NEW f, NEW b \in NodeIds(f), NEW k, NEW v
  PROVE  v \in DefinedBefore(f, b, k) <=>
            IsAbove(f, v, b) \/ v \in PhiResults(f, b) \/ \E j \in 1 .. k - 1 : f.body[b][j].dest = v
BY DEF DefinedBefore, IsAbove, Dominates

(* By the end of a block. *)
LEMMA ThereFacts ==
  ASSUME NEW f, IsVerified(f), NEW b \in ReachableFrom(SsaCfg(f), 0), NEW v
  PROVE  /\ IsThere(f, v, b) <=> IsAbove(f, v, b) \/ v \in DefinedIn(f, b)
         /\ IsThere(f, v, b) => v \in DefinedBefore(f, b, Len(f.body[b]) + 1) /\ v # Nil
<1>1. /\ b \in NodeIds(f) /\ f.body[b] \in Seq(InstructionSet(f)) /\ Dominates(SsaCfg(f), b, b)
      /\ Nil \notin Variables(f) /\ f.initial.supplied \subseteq Variables(f)
      /\ \A d \in NodeIds(f) : DefinedIn(f, d) \subseteq Variables(f)
  BY VerifiedFacts, DominanceOrder
<1>2. IsThere(f, v, b) <=> IsAbove(f, v, b) \/ v \in DefinedIn(f, b)
  BY <1>1 DEF IsThere, IsAbove
<1>3. ASSUME IsThere(f, v, b) PROVE v \in DefinedBefore(f, b, Len(f.body[b]) + 1) /\ v # Nil
  <2>1. v # Nil
    BY <1>1, <1>3 DEF IsThere
  <2>2. CASE v \in Dests(f, b)
    <3>1. PICK j \in DOMAIN f.body[b] : f.body[b][j].dest = v
      BY <2>2 DEF Dests, ToSet
    <3>2. j \in 1 .. (Len(f.body[b]) + 1) - 1
      BY <1>1
    <3> QED  BY <1>1, <2>1, <3>1, <3>2, BeforeFacts
  <2> QED  BY <1>1, <1>2, <1>3, <2>1, <2>2, BeforeFacts DEF DefinedIn
<1> QED  BY <1>2, <1>3

(* Before its k-th instruction a block has what is defined before it, and the
   phis it has had have the values they stand for. *)
Ready(f, b, k, e) ==
    /\ e \in Environments(f)
    /\ DefinedBefore(f, b, k) \ {Nil} \subseteq DOMAIN e
    /\ \A x, v : <<x, v>> \in Equal(f) /\ (IsAbove(f, x, b) \/ x \in PhiResults(f, b)) => e[x] = e[v]

(* So has the function that runs, at the end of the block it has left. *)
AgreeInv(f, r) ==
    r.at # Nil =>
        /\ f.initial.supplied \subseteq DOMAIN r.env
        /\ r.from # Nil => Ready(f, r.from, Len(f.body[r.from]) + 1, r.env)

(* What stands for something above b, or for a phi of b, is above b. *)
LEMMA StandsAbove ==
  ASSUME NEW f, IsVerified(f), NEW b \in ReachableFrom(SsaCfg(f), 0), NEW x, NEW v,
         <<x, v>> \in Equal(f), IsAbove(f, x, b) \/ x \in PhiResults(f, b)
  PROVE  IsAbove(f, v, b)
<1>1. PICK c \in NodeIds(f) : x \in PhiResults(f, c)
  BY EqualFacts DEF Pairs, Merged
<1>2. x \in DefinedIn(f, c) /\ b \in NodeIds(f)
  BY <1>1, VerifiedFacts DEF DefinedIn
<1>3. CASE x \in PhiResults(f, b)
  BY <1>3, EqualIsAbove
<1>4. CASE IsAbove(f, x, b)
  <2>1. Dominates(SsaCfg(f), c, b)
    BY <1>2, <1>4, DefinedOnce DEF IsAbove
  <2>2. c \in ReachableFrom(SsaCfg(f), 0)
    BY <1>2, <2>1, VerifiedFacts, DominanceOrder
  <2>3. IsAbove(f, v, c)
    BY <1>1, <2>2, EqualIsAbove
  <2> QED  BY <1>2, <1>4, <2>3, AboveFacts
<1> QED  BY <1>3, <1>4

(* A value is read for what it stands for. *)
LEMMA ReadyStands ==
  ASSUME NEW f, IsVerified(f), NEW b \in ReachableFrom(SsaCfg(f), 0), NEW k \in Nat, k <= Len(f.body[b]) + 1,
         NEW e, Ready(f, b, k, e), NEW x \in DefinedBefore(f, b, k), x # Nil, NEW v, Stands(f, x, v)
  PROVE  x \in DOMAIN e /\ v \in DOMAIN e /\ e[x] = e[v]
<1>1. b \in NodeIds(f) /\ f.body[b] \in Seq(InstructionSet(f)) /\ Nil \notin Variables(f)
  BY VerifiedFacts
<1>2. x \in DOMAIN e
  BY DEF Ready
<1>3. CASE x = v
  BY <1>2, <1>3
<1>4. CASE x # v
  <2>1. <<x, v>> \in Equal(f)
    BY <1>4 DEF Stands, StandsIn
  <2>2. x \in Merged(f) /\ v \in Variables(f)
    BY <2>1, EqualFacts DEF Pairs
  <2>3. PICK c \in NodeIds(f) : x \in PhiResults(f, c)
    BY <2>2 DEF Merged
  <2>4. \A j \in 1 .. k - 1 : f.body[b][j].dest # x
    <3> SUFFICES ASSUME NEW j \in 1 .. k - 1, f.body[b][j].dest = x PROVE FALSE
      OBVIOUS
    <3>1. j \in DOMAIN f.body[b]
      BY <1>1
    <3>2. x \in Dests(f, b)
      BY <3>1 DEF Dests, ToSet
    <3> QED  BY <1>1, <2>3, <3>2 DEF IsVerified, IsSingleAssignment
  <2>5. IsAbove(f, x, b) \/ x \in PhiResults(f, b)
    BY <1>1, <2>4, BeforeFacts
  <2>6. IsAbove(f, v, b)
    BY <2>1, <2>5, StandsAbove
  <2>7. v \in DOMAIN e
    BY <1>1, <2>2, <2>6, BeforeFacts DEF Ready
  <2> QED  BY <1>2, <2>1, <2>5, <2>7 DEF Ready
<1> QED  BY <1>3, <1>4

(* What the phis of a block make of the values, when each of them has one
   operand for the edge. *)
CanEnter(f, r) ==
    \A phi \in ToSet(f.phis[r.at]) :
        /\ OperandsFrom(phi, r.from) # {}
        /\ \A o \in OperandsFrom(phi, r.from) : o.value \in DOMAIN r.env
(* A phi is told by its result, and an operand by the block it comes from. *)
OneOperand(f, b) ==
    /\ \A phi, psi \in ToSet(f.phis[b]) : phi.result = psi.result => phi = psi
    /\ \A phi \in ToSet(f.phis[b]) : \A o, p \in ToSet(phi.operands) : o.pred = p.pred => o = p

(* A function, and nothing else. *)
IsMap(e) == e = [v \in DOMAIN e |-> e[v]]

(* EnterBlock gives values to the phis and keeps the others. *)
LEMMA EnterValues ==
  ASSUME NEW f, NEW r
  PROVE  /\ IsMap(EnterBlock(f, r))
         /\ DOMAIN EnterBlock(f, r) = PhiResults(f, r.at) \cup DOMAIN r.env
BY DEF EnterBlock, IsMap

(* A variable that is no phi there keeps its value. *)
LEMMA EnterOther ==
  ASSUME NEW f, NEW r, NEW v \in DOMAIN r.env \ PhiResults(f, r.at)
  PROVE  EnterBlock(f, r)[v] = r.env[v]
BY DEF EnterBlock

(* A phi takes the value of its one operand. *)
LEMMA EnterPhi ==
  ASSUME NEW f, NEW r, OneOperand(f, r.at),
         NEW phi \in ToSet(f.phis[r.at]), NEW o \in OperandsFrom(phi, r.from)
  PROVE  EnterBlock(f, r)[phi.result] = r.env[o.value]
<1> DEFINE R == PhiResults(f, r.at)
           Phi(v) == CHOOSE psi \in ToSet(f.phis[r.at]) : psi.result = v
           Operand(v) == CHOOSE p \in OperandsFrom(Phi(v), r.from) : TRUE
           D == R \cup DOMAIN r.env
           e == EnterBlock(f, r)
<1>1. e = [v \in D |-> IF v \in R THEN r.env[Operand(v).value] ELSE r.env[v]]
  BY DEF EnterBlock
<1>2. phi.result \in R /\ Operand(phi.result) = o
  <2>1. phi.result \in R
    BY DEF PhiResults
  <2>2. Phi(phi.result) \in ToSet(f.phis[r.at]) /\ Phi(phi.result).result = phi.result
    OBVIOUS
  <2>3. Phi(phi.result) = phi
    BY <2>2 DEF OneOperand
  <2>4. Operand(phi.result) \in OperandsFrom(phi, r.from)
    BY <2>3
  <2> HIDE DEF Operand
  <2>5. Operand(phi.result) = o
    BY <2>4 DEF OneOperand, OperandsFrom
  <2> QED  BY <2>1, <2>5
<1> HIDE DEF R, Operand, e, D
<1>3. phi.result \in D
  BY <1>2 DEF D
<1>4. e[phi.result] = r.env[o.value]
  BY <1>1, <1>2, <1>3
<1> QED  BY <1>4 DEF e

(* The verifier leaves phis with one operand for each block. *)
LEMMA VerifiedOneOperand ==
  ASSUME NEW f, IsVerified(f), NEW b \in ReachableFrom(SsaCfg(f), 0)
  PROVE  OneOperand(f, b)
<1>1. b \in NodeIds(f)
  BY VerifiedFacts
<1>2. ASSUME NEW phi \in ToSet(f.phis[b]), NEW psi \in ToSet(f.phis[b]), phi.result = psi.result
      PROVE  phi = psi
  <2>1. PICK k \in DOMAIN f.phis[b], l \in DOMAIN f.phis[b] : phi = f.phis[b][k] /\ psi = f.phis[b][l]
    BY DEF ToSet
  <2>2. f.phis[b][k].result = f.phis[b][l].result
    BY <1>2, <2>1
  <2> QED  BY <1>1, <2>1, <2>2 DEF IsVerified, IsSingleAssignment
<1>3. \A phi \in ToSet(f.phis[b]) : \A o, p \in ToSet(phi.operands) : o.pred = p.pred => o = p
  BY DEF IsVerified, IsStrict
<1> QED  BY <1>2, <1>3 DEF OneOperand

(* What is above b is there where control comes from, and b does not define it. *)
LEMMA AboveWhereFrom ==
  ASSUME NEW f, IsVerified(f), NEW p \in ReachableFrom(SsaCfg(f), 0), NEW b \in SuccessorSet(SsaCfg(f), p),
         NEW v, IsAbove(f, v, b)
  PROVE  IsThere(f, v, p)
<1>1. IsGraph(SsaCfg(f)) /\ NodeIds(SsaCfg(f)) = NodeIds(f) /\ 0 \in NodeIds(f) /\ p \in NodeIds(f)
  BY VerifiedFacts
<1> DEFINE g == SsaCfg(f)
<1> HIDE DEF g
<1>2. ASSUME NEW d \in NodeIds(f) \ {b}, Dominates(g, d, b) PROVE Dominates(g, d, p)
  <2>1. d \in NodeIds(g) /\ p \in NodeIds(g) /\ p \in ReachableFrom(g, 0) /\ b \in SuccessorSet(g, p) /\ d # b
    BY <1>1, <1>2 DEF g
  <2>2. IsGraph(g) /\ 0 \in NodeIds(g)
    BY <1>1 DEF g
  <2> QED  BY <1>2, <2>1, <2>2, DominanceOrder
<1> QED  BY <1>1, <1>2 DEF IsAbove, IsThere, g

(* What is above a block is not defined in it. *)
LEMMA AboveNotIn ==
  ASSUME NEW f, IsVerified(f), NEW b \in NodeIds(f), NEW v, IsAbove(f, v, b)
  PROVE  v \notin DefinedIn(f, b)
BY DefinedOnce DEF IsAbove

(* At the entry only the variables it supplies are defined. *)
LEMMA AboveEntry ==
  ASSUME NEW f, IsVerified(f), NEW v, IsAbove(f, v, 0)
  PROVE  v \in f.initial.supplied
<1>1. IsGraph(SsaCfg(f)) /\ NodeIds(SsaCfg(f)) = NodeIds(f) /\ 0 \in NodeIds(f)
  BY VerifiedFacts
<1> QED  BY <1>1, DominanceOrder DEF IsAbove

(* Every block can be entered, and makes its phis what they stand for. *)
LEMMA EnterReady ==
  ASSUME NEW f, IsVerified(f), NEW r, ExecInv(f, r), AgreeInv(f, r), r.at # Nil
  PROVE  CanEnter(f, r) /\ Ready(f, r.at, 1, EnterBlock(f, r))
<1> DEFINE b == r.at
           p == r.from
           env == r.env
           e == EnterBlock(f, r)
<1>1. /\ b \in ReachableFrom(SsaCfg(f), 0) /\ env \in Environments(f)
      /\ p = Nil => b = 0
      /\ p # Nil => p \in ReachableFrom(SsaCfg(f), 0) /\ b \in SuccessorSet(SsaCfg(f), p)
  BY DEF ExecInv
<1>2. /\ b \in NodeIds(f) /\ IsExecutable(f) /\ f.phis[0] = <<>>
      /\ p # Nil => p \in NodeIds(f) /\ f.body[p] \in Seq(InstructionSet(f))
      /\ NodeIds(SsaCfg(f)) = NodeIds(f)
  BY <1>1, VerifiedFacts DEF IsStrict
<1>3. /\ f.initial.supplied \subseteq DOMAIN env
      /\ p # Nil => Ready(f, p, Len(f.body[p]) + 1, env)
  BY DEF AgreeInv
<1>4. ASSUME p # Nil, NEW x, IsThere(f, x, p), NEW v, Stands(f, x, v)
      PROVE  x \in DOMAIN env /\ v \in DOMAIN env /\ env[x] = env[v]
  <2> DEFINE n == Len(f.body[p]) + 1
  <2>1. n \in Nat /\ n <= Len(f.body[p]) + 1 /\ Ready(f, p, n, env)
    BY <1>2, <1>3, <1>4
  <2>2. p \in ReachableFrom(SsaCfg(f), 0) /\ x \in DefinedBefore(f, p, n) /\ x # Nil
    BY <1>1, <1>4, ThereFacts
  <2> HIDE DEF n, p, env
  <2> QED  BY <1>4, <2>1, <2>2, ReadyStands
<1>5. ASSUME NEW phi \in ToSet(f.phis[b]), NEW o \in OperandsFrom(phi, p)
      PROVE  p # Nil /\ IsThere(f, o.value, p)
  <2>1. p # Nil
    BY <1>1, <1>2, <1>5 DEF ToSet
  <2>2. o \in ToSet(phi.operands) /\ o.pred = p
    BY DEF OperandsFrom
  <2>3. b \in ReachableFrom(SsaCfg(f), 0) /\ p \in ReachableFrom(SsaCfg(f), 0)
    BY <1>1, <2>1
  <2>4. IsVerified(f) /\ phi \in ToSet(f.phis[b])
    OBVIOUS
  <2> HIDE DEF b, p
  <2>5. o.pred \in ReachableFrom(SsaCfg(f), 0) => IsThere(f, o.value, o.pred)
    BY ONLY <2>2, <2>3, <2>4, OperandIsThere
  <2> QED  BY ONLY <2>1, <2>2, <2>3, <2>5
<1>6. CanEnter(f, r)
  <2> SUFFICES ASSUME NEW phi \in ToSet(f.phis[b])
               PROVE  /\ OperandsFrom(phi, p) # {}
                      /\ \A o \in OperandsFrom(phi, p) : o.value \in DOMAIN env
    BY DEF CanEnter
  <2>1. p # Nil
    BY <1>1, <1>2 DEF ToSet
  <2>2. p \in PredecessorSet(SsaCfg(f), b)
    BY <1>1, <1>2, <2>1 DEF PredecessorSet
  <2>3. OperandsFrom(phi, p) # {}
    BY <1>1, <2>2, OperandFrom DEF OperandsFrom
  <2>4. \A o \in OperandsFrom(phi, p) : o.value \in DOMAIN env
    BY <1>4, <1>5 DEF Stands, StandsIn
  <2> QED  BY <2>3, <2>4
<1>7. OneOperand(f, b)
  BY <1>1, VerifiedOneOperand
<1>8. /\ DOMAIN e = PhiResults(f, b) \cup DOMAIN env
      /\ \A phi \in ToSet(f.phis[b]) : \A o \in OperandsFrom(phi, p) : e[phi.result] = env[o.value]
      /\ \A v \in DOMAIN env \ PhiResults(f, b) : e[v] = env[v]
  <2>1. OneOperand(f, r.at)
    BY <1>7
  <2>2. DOMAIN e = PhiResults(f, b) \cup DOMAIN env
    BY EnterValues
  <2>3. \A phi \in ToSet(f.phis[b]) : \A o \in OperandsFrom(phi, p) : e[phi.result] = env[o.value]
    BY <2>1, EnterPhi
  <2>4. \A v \in DOMAIN env \ PhiResults(f, b) : e[v] = env[v]
    BY EnterOther
  <2> QED  BY <2>2, <2>3, <2>4
<1>9. e \in Environments(f)
  BY <1>1, <1>2, <1>6, EnterFacts DEF CanEnter
<1>10. ASSUME NEW v, IsAbove(f, v, b)
       PROVE  v \in DOMAIN env /\ v \notin PhiResults(f, b) /\ (p # Nil => IsThere(f, v, p))
  <2>1. v \notin PhiResults(f, b)
    BY <1>2, <1>10, AboveNotIn DEF DefinedIn
  <2>2. CASE p = Nil
    BY <1>1, <1>3, <1>10, <2>1, <2>2, AboveEntry
  <2>3. CASE p # Nil
    <3>1. IsThere(f, v, p)
      BY <1>1, <1>10, <2>3, AboveWhereFrom
    <3>2. v \in DOMAIN env
      BY <1>4, <2>3, <3>1 DEF Stands, StandsIn
    <3> QED  BY <2>1, <3>1, <3>2
  <2> QED  BY <2>2, <2>3
<1>11. DefinedBefore(f, b, 1) \ {Nil} \subseteq DOMAIN e
  <2> SUFFICES ASSUME NEW v \in DefinedBefore(f, b, 1) PROVE v \in DOMAIN e
    OBVIOUS
  <2>1. IsAbove(f, v, b) \/ v \in PhiResults(f, b)
    BY <1>2, BeforeFacts
  <2> QED  BY <1>8, <1>10, <2>1
<1>12. ASSUME NEW x, NEW v, <<x, v>> \in Equal(f), IsAbove(f, x, b) \/ x \in PhiResults(f, b)
       PROVE  e[x] = e[v]
  <2>1. IsAbove(f, v, b)
    BY <1>1, <1>12, StandsAbove
  <2>2. v \in DOMAIN env /\ e[v] = env[v]
    BY <1>8, <1>10, <2>1
  <2>3. p # Nil
    <3>1. CASE x \in PhiResults(f, b)
      BY <1>1, <1>2, <3>1 DEF PhiResults, ToSet
    <3>2. CASE IsAbove(f, x, b)
      <4>1. PICK c \in NodeIds(f) : x \in PhiResults(f, c)
        BY <1>12, EqualFacts DEF Pairs, Merged
      <4>2. x \notin f.initial.supplied
        BY <4>1, DefinedOnce DEF DefinedIn
      <4> QED  BY <1>1, <3>2, <4>2, AboveEntry
    <3> QED  BY <1>12, <3>1, <3>2
  <2>4. CASE x \in PhiResults(f, b)
    <3>1. PICK phi \in ToSet(f.phis[b]) : phi.result = x
      BY <2>4 DEF PhiResults
    <3>2. PICK o \in OperandsFrom(phi, p) : TRUE
      BY <1>6, <3>1 DEF CanEnter
    <3>3. e[x] = env[o.value] /\ IsThere(f, o.value, p) /\ o \in ToSet(phi.operands) /\ o.pred = p
      BY <1>5, <1>8, <3>1, <3>2 DEF OperandsFrom
    <3>4. Stands(f, o.value, v)
      BY <1>1, <1>12, <2>3, <3>1, <3>3, EqualFacts DEF IsAgreement, Stands
    <3> QED  BY <1>4, <2>2, <2>3, <3>3, <3>4
  <2>5. CASE IsAbove(f, x, b)
    <3>1. e[x] = env[x] /\ IsThere(f, x, p)
      BY <1>8, <1>10, <2>3, <2>5
    <3>2. Stands(f, x, v)
      BY <1>12 DEF Stands, StandsIn
    <3> QED  BY <1>4, <2>2, <2>3, <3>1, <3>2
  <2> QED  BY <1>12, <2>4, <2>5
<1> QED  BY <1>6, <1>9, <1>11, <1>12 DEF Ready

(* Every instruction has its operands, and leaves the next one what it needs. *)
LEMMA ExecuteReady ==
  ASSUME NEW f, IsVerified(f), NEW b \in ReachableFrom(SsaCfg(f), 0), NEW k \in DOMAIN f.body[b],
         NEW e, Ready(f, b, k, e)
  PROVE  /\ ToSet(f.body[b][k].args) \subseteq DefinedBefore(f, b, k) \ {Nil}
         /\ ToSet(f.body[b][k].args) \subseteq DOMAIN e
         /\ \A y \in Execute(f.body[b][k], e) : Ready(f, b, k + 1, y)
<1> DEFINE i == f.body[b][k]
<1>1. /\ b \in NodeIds(f) /\ f.body[b] \in Seq(InstructionSet(f)) /\ Nil \notin Variables(f)
      /\ IsExecutable(f)
  BY VerifiedFacts
<1>2. k \in 1 .. Len(f.body[b]) /\ k \in Nat /\ k <= Len(f.body[b]) + 1 /\ i \in ToSet(f.body[b])
  BY <1>1 DEF ToSet
<1>3. /\ i \in InstructionSet(f) /\ HasItsOperands(i) /\ ToSet(i.args) \subseteq Variables(f)
      /\ i.dest # Nil => i.op \in ValueOps /\ i.dest \in Dests(f, b)
  BY <1>1, <1>2, InstructionFacts DEF Dests
<1>4. ToSet(i.args) \subseteq DefinedBefore(f, b, k) \ {Nil}
  BY <1>1, <1>3 DEF IsVerified, IsStrict
<1>5. ToSet(i.args) \subseteq DOMAIN e
  BY <1>4 DEF Ready
<1>6. ASSUME NEW y \in Execute(i, e) PROVE Ready(f, b, k + 1, y)
  <2>1. /\ y \in Environments(f)
        /\ \A v \in DOMAIN e : v # i.dest => v \in DOMAIN y /\ y[v] = e[v]
    <3> HIDE DEF i
    <3>1. e \in Environments(f)
      BY DEF Ready
    <3> QED  BY <1>3, <1>6, <3>1, ExecuteFacts
  <2>2. i.dest # Nil => i.dest \in DOMAIN y
    <3> HIDE DEF i
    <3> QED  BY <1>6 DEF Execute
  <2>3. DefinedBefore(f, b, k + 1) \ {Nil} \subseteq DOMAIN y
    <3> SUFFICES ASSUME NEW v \in DefinedBefore(f, b, k + 1), v # Nil PROVE v \in DOMAIN y
      OBVIOUS
    <3>1. \A j \in 1 .. (k + 1) - 1 : j = k \/ j \in 1 .. k - 1
      BY <1>2
    <3>2. v = i.dest \/ v \in DefinedBefore(f, b, k)
      BY <1>1, <3>1, BeforeFacts
    <3>3. CASE v = i.dest
      BY <2>2, <3>3
    <3>4. CASE v # i.dest /\ v \in DefinedBefore(f, b, k)
      BY <2>1, <3>4 DEF Ready
    <3> QED  BY <3>2, <3>3, <3>4
  <2>4. ASSUME NEW x, NEW v, <<x, v>> \in Equal(f), IsAbove(f, x, b) \/ x \in PhiResults(f, b)
        PROVE  y[x] = y[v]
    <3>1. IsAbove(f, v, b) /\ x \in DefinedBefore(f, b, k) /\ x # Nil
      <4>1. x \in Merged(f)
        BY <2>4, EqualFacts DEF Pairs
      <4>2. x # Nil
        BY <1>1, <4>1 DEF Merged, DefinedIn, Variables
      <4> QED  BY <1>1, <2>4, <4>2, StandsAbove, BeforeFacts
    <3>2. Stands(f, x, v)
      BY <2>4 DEF Stands, StandsIn
    <3>3. x \in DOMAIN e /\ v \in DOMAIN e /\ e[x] = e[v]
      BY <1>2, <3>1, <3>2, ReadyStands
    <3>4. \A u : IsAbove(f, u, b) \/ u \in PhiResults(f, b) => u \notin Dests(f, b)
      <4>1. \A u : IsAbove(f, u, b) => u \notin Dests(f, b)
        BY <1>1, AboveNotIn DEF DefinedIn
      <4>2. PhiResults(f, b) \cap Dests(f, b) = {}
        BY <1>1 DEF IsVerified, IsSingleAssignment
      <4> QED  BY <4>1, <4>2
    <3>5. v # Nil
      BY <1>1, <2>4, EqualFacts DEF Pairs
    <3>6. x # i.dest /\ v # i.dest
      BY <1>3, <2>4, <3>1, <3>4, <3>5
    <3> QED  BY <2>1, <3>3, <3>6
  <2> QED  BY <2>1, <2>3, <2>4 DEF Ready
<1> QED  BY <1>4, <1>5, <1>6

(* The sets of values a run goes through. *)
IsTrace(u, s, x) ==
    u[0] = x /\ \A k \in 1 .. Len(s) : u[k] = Executed(s[k], u[k - 1])

(* A run has its trace. *)
LEMMA RunTrace ==
  ASSUME NEW A, NEW x \in A, NEW T, NEW s \in Seq(T),
         \A e \in A : \A y \in T : Executed(y, e) \in A
  PROVE  \E u \in [0 .. Len(s) -> A] : IsTrace(u, s, x) /\ RunAll(x, s) = u[Len(s)]
<1> DEFINE n == Len(s)
           F == [0 .. n -> A]
           Upto(u, k) == u[0] = x /\ \A j \in 1 .. k : u[j] = Executed(s[j], u[j - 1])
           P == [k \in 0 .. n |-> {e \in A : \E u \in F : Upto(u, k) /\ u[k] = e}]
<1>1. n \in Nat /\ DOMAIN s = 1 .. n /\ \A k \in 1 .. n : s[k] \in T
  OBVIOUS
<1>2. P \in [0 .. n -> SUBSET A]
  OBVIOUS
<1>3. x \in P[0]
  <2> DEFINE u == [k \in 0 .. n |-> x]
  <2>1. u \in F /\ Upto(u, 0) /\ u[0] = x
    BY <1>1
  <2> HIDE DEF u, Upto, F
  <2> QED  BY <1>1, <2>1
<1>4. ASSUME NEW k \in 1 .. n, NEW e \in P[k - 1] PROVE Executed(s[k], e) \in P[k]
  <2>1. k - 1 \in 0 .. n /\ k \in 0 .. n /\ k # 0 /\ s[k] \in T
    BY <1>1
  <2>2. e \in A
    BY <2>1
  <2>3. PICK u \in F : Upto(u, k - 1) /\ u[k - 1] = e
    BY <2>1
  <2> DEFINE y == Executed(s[k], e)
             w == [j \in 0 .. n |-> IF j = k THEN y ELSE u[j]]
  <2>4. y \in A
    BY <2>1, <2>2
  <2> HIDE DEF y
  <2>5. w \in F /\ w[k] = y
    BY <2>1, <2>3, <2>4
  <2>6. w[0] = x
    BY <1>1, <2>1, <2>3
  <2>7. ASSUME NEW j \in 1 .. k PROVE w[j] = Executed(s[j], w[j - 1])
    <3>1. j \in 0 .. n /\ j - 1 \in 0 .. n /\ j - 1 # k
      BY <1>1, <2>1
    <3>2. CASE j = k
      <4>1. w[j - 1] = e
        BY <2>3, <3>1, <3>2
      <4> HIDE DEF w
      <4> QED  BY <2>5, <3>2, <4>1 DEF y
    <3>3. CASE j # k
      <4>1. j \in 1 .. k - 1
        BY <1>1, <3>3
      <4>2. u[j] = Executed(s[j], u[j - 1])
        BY <2>3, <4>1
      <4>3. w[j] = u[j] /\ w[j - 1] = u[j - 1]
        BY <3>1, <3>3
      <4> HIDE DEF w
      <4> QED  BY <4>2, <4>3
    <3> QED  BY <3>2, <3>3
  <2>8. Upto(w, k)
    <3> HIDE DEF w
    <3> QED  BY <2>6, <2>7
  <2> HIDE DEF w, Upto, F
  <2>9. y \in P[k]
    BY <2>1, <2>4, <2>5, <2>8
  <2> QED  BY <2>9 DEF y
<1> HIDE DEF P
<1>5. RunAll(x, s) \in P[n]
  <2>1. \A k \in 1 .. Len(s) : \A e \in P[k - 1] : Executed(s[k], e) \in P[k]
    BY <1>4
  <2>2. P \in [0 .. Len(s) -> SUBSET A]
    BY <1>2
  <2> QED  BY <1>3, <2>1, <2>2, RunFold
<1>6. PICK u \in F : Upto(u, n) /\ u[n] = RunAll(x, s)
  BY <1>1, <1>5 DEF P
<1> QED  BY <1>6 DEF IsTrace

(* Two runs, side by side. *)
LEMMA RunTogether ==
  ASSUME NEW A, NEW x \in A, NEW T, NEW s \in Seq(T), \A e \in A : \A y \in T : Executed(y, e) \in A,
         NEW y \in A, NEW t \in Seq(T), Len(t) = Len(s),
         NEW Rel, <<x, y>> \in Rel[0],
         \A k \in 1 .. Len(s) : \A a \in A : \A b \in A :
            <<a, b>> \in Rel[k - 1] => <<Executed(s[k], a), Executed(t[k], b)>> \in Rel[k]
  PROVE  <<RunAll(x, s), RunAll(y, t)>> \in Rel[Len(s)]
<1>1. PICK u \in [0 .. Len(s) -> A] : IsTrace(u, s, x) /\ RunAll(x, s) = u[Len(s)]
  BY RunTrace
<1>0. \A e \in A : \A z \in T : Executed(z, e) \in A
  OBVIOUS
<1>2. PICK w \in [0 .. Len(t) -> A] : IsTrace(w, t, y) /\ RunAll(y, t) = w[Len(t)]
  BY ONLY y \in A, t \in Seq(T), <1>0, RunTrace
<1> DEFINE n == Len(s)
           S == {k \in Nat : k <= n => <<u[k], w[k]>> \in Rel[k]}
<1>3. n \in Nat /\ Len(t) = n
  OBVIOUS
<1>4. S = Nat
  <2>1. 0 \in S
    BY <1>1, <1>2 DEF IsTrace
  <2>2. ASSUME NEW k \in S PROVE k + 1 \in S
    <3> SUFFICES ASSUME k + 1 <= n PROVE <<u[k + 1], w[k + 1]>> \in Rel[k + 1]
      BY DEF S
    <3>1. k \in Nat /\ k + 1 \in 1 .. n /\ (k + 1) - 1 = k /\ k \in 0 .. n /\ <<u[k], w[k]>> \in Rel[k]
      <4>1. k \in Nat /\ (k <= n => <<u[k], w[k]>> \in Rel[k])
        BY DEF S
      <4>2. k + 1 \in 1 .. n /\ (k + 1) - 1 = k /\ k \in 0 .. n /\ k <= n
        <5>1. k \in Nat /\ n \in Nat /\ k + 1 <= n
          BY ONLY <1>3, <4>1, k + 1 <= n
        <5> HIDE DEF n, S
        <5> QED  BY ONLY <5>1
      <4> QED  BY <4>1, <4>2
    <3>2. u[k + 1] = Executed(s[k + 1], u[k]) /\ w[k + 1] = Executed(t[k + 1], w[k])
      BY <1>1, <1>2, <1>3, <3>1 DEF IsTrace
    <3>3. u[k] \in A /\ w[k] \in A
      BY <1>3, <3>1
    <3>4. <<Executed(s[k + 1], u[k]), Executed(t[k + 1], w[k])>> \in Rel[k + 1]
      BY <3>1, <3>3
    <3> QED  BY <3>2, <3>4
  <2>3. S \in SUBSET Nat
    OBVIOUS
  <2> HIDE DEF S
  <2> QED  BY <2>1, <2>2, <2>3, Induction
<1>5. <<u[n], w[n]>> \in Rel[n]
  <2>1. n \in S
    BY <1>3, <1>4
  <2> QED  BY <2>1
<1> QED  BY <1>1, <1>2, <1>3, <1>5

(* A block's instructions keep the values in bounds. *)
LEMMA BodyClosed ==
  ASSUME NEW f, IsVerified(f), NEW b \in NodeIds(f)
  PROVE  /\ f.body[b] \in Seq(ToSet(f.body[b]))
         /\ \A i \in ToSet(f.body[b]) : \A x \in Environments(f) : Execute(i, x) \subseteq Environments(f)
<1>1. IsExecutable(f) /\ f.body[b] \in Seq(InstructionSet(f))
  BY VerifiedFacts
<1>2. f.body[b] \in Seq(ToSet(f.body[b]))
  <2> DEFINE w == f.body[b]
  <2>1. w \in Seq(InstructionSet(f))
    BY <1>1
  <2> HIDE DEF w
  <2>2. w \in Seq(ToSet(w))
    BY <2>1 DEF ToSet
  <2> QED  BY <2>2 DEF w
<1>3. ASSUME NEW i \in ToSet(f.body[b]), NEW x \in Environments(f), NEW y \in Execute(i, x)
      PROVE  y \in Environments(f)
  <2>1. i \in InstructionSet(f) /\ HasItsOperands(i) /\ (i.dest # Nil => i.op \in ValueOps)
    BY <1>1, InstructionFacts
  <2> QED  BY <2>1, ExecuteFacts
<1> QED  BY <1>2, <1>3

(* A block leaves what the next one needs. *)
LEMMA BodyReady ==
  ASSUME NEW f, IsVerified(f), NEW b \in ReachableFrom(SsaCfg(f), 0),
         NEW env, Ready(f, b, 1, env), NEW e \in RunAll({env}, f.body[b])
  PROVE  Ready(f, b, Len(f.body[b]) + 1, e)
<1> DEFINE s == f.body[b]
           G == Environments(f)
           T == ToSet(s)
           A == SUBSET G
           start == {env}
           P == [k \in 0 .. Len(s) |-> {envs \in A : \A x \in envs : Ready(f, b, k + 1, x)}]
<1>1. b \in NodeIds(f)
  BY VerifiedFacts
<1>2. s \in Seq(T) /\ \A i \in T : \A x \in G : Execute(i, x) \subseteq G
  BY <1>1, BodyClosed
<1>3. env \in G
  BY DEF Ready
<1>4. \A k \in DOMAIN s : \A x : Ready(f, b, k, x) => \A y \in Execute(s[k], x) : Ready(f, b, k + 1, y)
  BY ExecuteReady
<1> HIDE DEF s, G, T
<1>5. Len(s) \in Nat /\ DOMAIN s = 1 .. Len(s) /\ \A k \in 1 .. Len(s) : s[k] \in T
  BY <1>2
<1>6. start \in A /\ start \in P[0]
  BY <1>3, <1>5
<1>7. \A envs \in A : \A i \in T : Executed(i, envs) \in A
  BY <1>2 DEF Executed
<1>8. ASSUME NEW k \in 1 .. Len(s), NEW envs \in P[k - 1] PROVE Executed(s[k], envs) \in P[k]
  <2>1. k \in 0 .. Len(s) /\ k - 1 \in 0 .. Len(s) /\ s[k] \in T /\ k \in DOMAIN s /\ (k - 1) + 1 = k
    BY <1>5
  <2>2. envs \in A /\ \A x \in envs : Ready(f, b, k, x)
    BY <2>1
  <2> DEFINE U == Executed(s[k], envs)
  <2>3. U \in A
    BY <1>7, <2>1, <2>2
  <2>4. \A y \in U : Ready(f, b, k + 1, y)
    BY <1>4, <2>1, <2>2 DEF Executed
  <2> HIDE DEF U
  <2>5. U \in P[k]
    BY <2>1, <2>3, <2>4
  <2> QED  BY <2>5 DEF U
<1>9. P \in [0 .. Len(s) -> SUBSET A]
  OBVIOUS
<1>10. RunAll(start, s) \in P[Len(s)]
  <2> HIDE DEF A, P, start
  <2> QED  BY <1>2, <1>6, <1>7, <1>8, <1>9, RunFold
<1>11. e \in RunAll(start, s) /\ Len(s) \in 0 .. Len(s)
  BY <1>5 DEF s
<1>12. Ready(f, b, Len(s) + 1, e)
  BY <1>10, <1>11
<1> QED  BY <1>12 DEF s

(* What can happen, where every block can be entered. *)
LEMMA OutcomesAre ==
  ASSUME NEW f, NEW r, CanEnter(f, r)
  PROVE  Outcomes(f, r) = {[at |-> Target(Terminator(f, r.at), e), from |-> r.at, env |-> e] :
                              e \in RunAll({EnterBlock(f, r)}, f.body[r.at])}
BY Zenon DEF Outcomes, RunAll, Executed, CanEnter

(* Where control goes next, it comes with what the next block needs. *)
LEMMA OutcomeAgrees ==
  ASSUME NEW f, IsVerified(f), NEW r, ExecInv(f, r), AgreeInv(f, r), r.at # Nil, NEW o \in Outcomes(f, r)
  PROVE  AgreeInv(f, o)
<1> DEFINE b == r.at
           env == EnterBlock(f, r)
<1>1. CanEnter(f, r) /\ Ready(f, b, 1, env)
  BY EnterReady
<1>2. PICK e \in RunAll({env}, f.body[b]) : o = [at |-> Target(Terminator(f, b), e), from |-> b, env |-> e]
  <2>1. Outcomes(f, r) = {[at |-> Target(Terminator(f, b), e), from |-> b, env |-> e] :
                             e \in RunAll({env}, f.body[b])}
    BY <1>1, OutcomesAre, Zenon
  <2> QED  BY <2>1
<1>3. b \in ReachableFrom(SsaCfg(f), 0)
  BY DEF ExecInv
<1>4. Ready(f, b, Len(f.body[b]) + 1, e)
  <2> DEFINE x == env
             c == b
  <2>1. c \in ReachableFrom(SsaCfg(f), 0) /\ Ready(f, c, 1, x) /\ e \in RunAll({x}, f.body[c])
    BY <1>1, <1>2, <1>3
  <2> HIDE DEF x, c
  <2>2. Ready(f, c, Len(f.body[c]) + 1, e)
    BY <2>1, BodyReady
  <2> QED  BY <2>2 DEF c
<1>5. f.initial.supplied \subseteq DOMAIN e
  <2>1. f.initial.supplied \subseteq DefinedBefore(f, b, Len(f.body[b]) + 1) /\ Nil \notin f.initial.supplied
    BY VerifiedFacts DEF DefinedBefore
  <2> QED  BY <1>4, <2>1 DEF Ready
<1>6. o.from = b /\ o.env = e
  BY <1>2
<1> QED  BY <1>4, <1>5, <1>6 DEF AgreeInv

(* A function starts with the variables its entry defines. *)
LEMMA StartAgrees ==
  ASSUME NEW f, NEW env \in [f.initial.supplied -> Opaque]
  PROVE  AgreeInv(f, [at |-> 0, from |-> Nil, env |-> env])
BY DEF AgreeInv

-----------------------------------------------------------------------------
(* What the branches and comparisons are folded to *)

(* Functions with the blocks and the variables of f. *)
Shapes(f) ==
    [count : {f.count}, targets : [NodeIds(f) -> Seq(NodeIds(f))], clauses : {f.clauses},
     initial : {f.initial}, phis : [NodeIds(f) -> Seq(PhiSet(f))],
     body : [NodeIds(f) -> Seq(InstructionSet(f))]]

(* What a shape shares with its function. *)
LEMMA ShapeFacts ==
  ASSUME NEW f, IsFunction(f), NEW g \in Shapes(f)
  PROVE  /\ g.count = f.count /\ NodeIds(g) = NodeIds(f) /\ IsFunction(g)
         /\ g.initial = f.initial /\ g.clauses = f.clauses
         /\ g.targets \in [NodeIds(f) -> Seq(NodeIds(f))]
         /\ g.phis \in [NodeIds(f) -> Seq(PhiSet(f))]
         /\ g.body \in [NodeIds(f) -> Seq(InstructionSet(f))]
         /\ g = [count |-> g.count, targets |-> g.targets, clauses |-> g.clauses,
                 initial |-> g.initial, phis |-> g.phis, body |-> g.body]
         /\ IsGraph(SsaCfg(g)) /\ NodeIds(SsaCfg(g)) = NodeIds(f)
         /\ \A b \in NodeIds(f) : SuccessorSet(SsaCfg(g), b) = ToSet(g.targets[b])
<1>1. /\ g.count = f.count /\ g.initial = f.initial /\ g.clauses = f.clauses
      /\ g.targets \in [NodeIds(f) -> Seq(NodeIds(f))]
      /\ g.phis \in [NodeIds(f) -> Seq(PhiSet(f))]
      /\ g.body \in [NodeIds(f) -> Seq(InstructionSet(f))]
      /\ g = [count |-> g.count, targets |-> g.targets, clauses |-> g.clauses,
              initial |-> g.initial, phis |-> g.phis, body |-> g.body]
      /\ DOMAIN g = {"count", "targets", "clauses", "initial", "phis", "body"}
  BY DEF Shapes
<1>2. NodeIds(g) = NodeIds(f) /\ NodeIds(f) \subseteq Nat
  BY <1>1 DEF NodeIds, IsFunction
<1>3. g.targets \in [NodeIds(g) -> Seq(Nat)]
  <2>1. \A s \in Seq(NodeIds(f)) : s \in Seq(Nat)
    BY <1>2
  <2> QED  BY <1>1, <1>2, <2>1
<1>4. IsFunction(g)
  BY <1>1, <1>3 DEF IsFunction
<1>5. IsGraph(SsaCfg(g)) /\ NodeIds(SsaCfg(g)) = NodeIds(f)
  BY <1>2, <1>4, SsaCfgIsGraph
<1>6. ASSUME NEW b \in NodeIds(f) PROVE SuccessorSet(SsaCfg(g), b) = ToSet(g.targets[b])
  <2>1. SuccessorSet(SsaCfg(g), b) = ToSet(g.targets[b]) \cap NodeIds(f)
    BY <1>2, <1>4, SsaCfgIsGraph
  <2> DEFINE s == g.targets[b]
             N == NodeIds(f)
  <2>2. s \in Seq(N)
    BY <1>1
  <2> HIDE DEF s, N
  <2>3. ToSet(s) \subseteq N
    BY <2>2 DEF ToSet
  <2> QED  BY <2>1, <2>3 DEF s, N
<1> QED  BY <1>1, <1>2, <1>4, <1>5, <1>6

(* A function has its own shape. *)
LEMMA VerifiedShape ==
  ASSUME NEW f, IsVerified(f)
  PROVE  f \in Shapes(f)
<1>1. IsFunction(f) /\ IsExecutable(f)
  BY DEF IsVerified
<1>2. /\ f = [count |-> f.count, targets |-> f.targets, clauses |-> f.clauses,
              initial |-> f.initial, phis |-> f.phis, body |-> f.body]
      /\ f.phis \in [NodeIds(f) -> Seq(PhiSet(f))]
      /\ f.body \in [NodeIds(f) -> Seq(InstructionSet(f))]
  BY <1>1 DEF IsExecutable
<1>3. f.targets \in [NodeIds(f) -> Seq(NodeIds(f))]
  <2>1. ASSUME NEW b \in NodeIds(f) PROVE f.targets[b] \in Seq(NodeIds(f))
    <3>1. Terminator(f, b) \in InstructionSet(f) /\ Terminator(f, b).targets = f.targets[b]
      BY <1>1, InstructionFacts DEF IsExecutable
    <3>2. Terminator(f, b).targets \in Seq(NodeIds(f))
      <4> DEFINE t == Terminator(f, b)
      <4>1. t \in InstructionSet(f)
        BY <3>1
      <4> HIDE DEF t
      <4>2. t.targets \in Seq(NodeIds(f))
        BY <4>1 DEF InstructionSet
      <4> QED  BY <4>2 DEF t
    <3> QED  BY <3>1, <3>2
  <2>2. f.targets \in [NodeIds(f) -> Seq(Nat)]
    BY <1>1 DEF IsFunction
  <2> QED  BY <2>1, <2>2
<1> DEFINE c == f.count
           t == f.targets
           l == f.clauses
           a == f.initial
           p == f.phis
           y == f.body
<1>4. f = [count |-> c, targets |-> t, clauses |-> l, initial |-> a, phis |-> p, body |-> y]
  BY <1>2
<1> HIDE DEF c, t, l, a, p, y
<1>5. f \in [count : {c}, targets : [NodeIds(f) -> Seq(NodeIds(f))], clauses : {l}, initial : {a},
            phis : [NodeIds(f) -> Seq(PhiSet(f))], body : [NodeIds(f) -> Seq(InstructionSet(f))]]
  <2>1. /\ t \in [NodeIds(f) -> Seq(NodeIds(f))] /\ p \in [NodeIds(f) -> Seq(PhiSet(f))]
        /\ y \in [NodeIds(f) -> Seq(InstructionSet(f))]
    BY <1>2, <1>3 DEF t, p, y
  <2> DEFINE X == [NodeIds(f) -> Seq(NodeIds(f))]
             Y == [NodeIds(f) -> Seq(PhiSet(f))]
             Z == [NodeIds(f) -> Seq(InstructionSet(f))]
  <2>2. t \in X /\ p \in Y /\ y \in Z
    BY <2>1
  <2> SUFFICES f \in [count : {c}, targets : X, clauses : {l}, initial : {a}, phis : Y, body : Z]
    OBVIOUS
  <2> HIDE DEF X, Y, Z
  <2> QED  BY <1>4, <2>2
<1> QED  BY <1>5 DEF Shapes, c, l, a

(* What a branch is folded to is one of its targets. *)
LEMMA SoleTargetFacts ==
  ASSUME NEW f, IsVerified(f), NEW ranges, NEW b \in NodeIds(f), SoleTarget(f, ranges, b) # Nil
  PROVE  /\ Terminator(f, b).op = "branch"
         /\ SoleTarget(f, ranges, b) \in ToSet(f.targets[b]) /\ SoleTarget(f, ranges, b) \in NodeIds(f)
<1> DEFINE t == Terminator(f, b)
<1>1. IsExecutable(f) /\ t \in ToSet(f.body[b]) /\ t.targets = f.targets[b]
  BY InstructionFacts DEF IsVerified, IsExecutable
<1>2. t.op = "branch"
  BY DEF SoleTarget
<1>3. SoleTarget(f, ranges, b) \in {t.targets[1], t.targets[2]}
  BY DEF SoleTarget
<1> HIDE DEF t
<1>4. t \in InstructionSet(f) /\ HasItsOperands(t)
  BY <1>1, InstructionFacts
<1>5. t.targets \in Seq(NodeIds(f)) /\ Len(t.targets) = 2
  BY <1>2, <1>4 DEF InstructionSet, HasItsOperands
<1>6. /\ t.targets[1] \in ToSet(t.targets) /\ t.targets[2] \in ToSet(t.targets)
      /\ t.targets[1] \in NodeIds(f) /\ t.targets[2] \in NodeIds(f)
  BY <1>5 DEF ToSet
<1> QED  BY <1>1, <1>2, <1>3, <1>6 DEF t

(* The jump a branch is folded to. *)
Jump(t) == Control("jump", <<>>, <<t>>)

(* It is an instruction like any other. *)
LEMMA JumpFacts ==
  ASSUME NEW f, NEW t \in NodeIds(f)
  PROVE  /\ Jump(t) \in InstructionSet(f) /\ HasItsOperands(Jump(t)) /\ IsTerminator(Jump(t))
         /\ Jump(t).op = "jump" /\ Jump(t).dest = Nil /\ Jump(t).args = <<>> /\ Jump(t).targets = <<t>>
<1>1. 0 \in Lowest .. Highest
  <2> DEFINE h == 2 ^ (Width - 1)
  <2>1. h > 1 /\ h \in Int
    BY WidthAssumption
  <2>2. Lowest = -h /\ Highest = h - 1
    BY DEF Lowest, Highest
  <2> HIDE DEF h
  <2> QED  BY <2>1, <2>2
<1>2. Jump(t) = [op |-> "jump", dest |-> Nil, args |-> <<>>, value |-> 0, targets |-> <<t>>]
  BY DEF Jump, Control
<1>3. <<>> \in Seq(Variables(f)) /\ <<t>> \in Seq(NodeIds(f)) /\ "jump" \in ValueOps \cup ControlOps
  BY DEF ControlOps
<1> DEFINE A == Seq(Variables(f))
           B == Seq(NodeIds(f))
           C == ValueOps \cup ControlOps
           D == Variables(f) \cup {Nil}
           E == Lowest .. Highest
           a == <<>>
           w == <<t>>
<1>4. a \in A /\ w \in B /\ "jump" \in C /\ Nil \in D /\ 0 \in E
  BY <1>1, <1>3
<1>5. Jump(t) \in [op : C, dest : D, args : A, value : E, targets : B]
  <2>1. Jump(t) = [op |-> "jump", dest |-> Nil, args |-> a, value |-> 0, targets |-> w]
    BY <1>2
  <2> HIDE DEF A, B, C, D, E, a, w
  <2> QED  BY <1>4, <2>1
<1>6. HasItsOperands(Jump(t)) /\ IsTerminator(Jump(t))
  BY <1>2 DEF HasItsOperands, IsTerminator
<1> QED  BY <1>2, <1>5, <1>6 DEF InstructionSet

(* fold_terminator_pruning_phis, field by field. *)
Others(phi, b) == Keep(phi.operands, {o \in ToSet(phi.operands) : o.pred # b})
(* What becomes of a phi of c when the branch of b is folded to t. *)
PrunedPhi(g, b, t, c, phi) ==
    IF c \notin LostSuccessors(g, b, t) \/ Others(phi, b) = <<>>
    THEN phi ELSE [phi EXCEPT !.operands = Others(phi, b)]

(* A pruned phi has some of the operands. *)
LEMMA OthersFacts ==
  ASSUME NEW f, NEW phi \in PhiSet(f), NEW b
  PROVE  /\ [phi EXCEPT !.operands = Others(phi, b)] \in PhiSet(f)
         /\ \A o : o \in ToSet(Others(phi, b)) <=> o \in ToSet(phi.operands) /\ o.pred # b
<1> DEFINE O == [pred : NodeIds(f), value : Variables(f)]
           s == phi.operands
           S == {o \in ToSet(s) : o.pred # b}
<1>1. s \in Seq(O)
  BY DEF PhiSet
<1> HIDE DEF O
<1>2. Keep(s, S) \in Seq(O \cap S) /\ ToSet(Keep(s, S)) = ToSet(s) \cap S
  <2> HIDE DEF s, S
  <2> QED  BY <1>1, KeepFacts
<1>3. Keep(s, S) \in Seq(O)
  <2> DEFINE w == Keep(s, S)
             U == O \cap S
  <2>1. w \in Seq(U) /\ U \subseteq O
    BY <1>2
  <2> HIDE DEF w, U
  <2>2. w \in Seq(O)
    BY <2>1
  <2> QED  BY <2>2 DEF w
<1>4. Others(phi, b) = Keep(s, S)
  BY DEF Others
<1>5. [phi EXCEPT !.operands = Others(phi, b)] \in [result : Variables(f), operands : Seq(O)]
  <2> DEFINE w == Keep(s, S)
             Q == Seq(O)
  <2>1. phi \in [result : Variables(f), operands : Q]
    BY DEF PhiSet, O
  <2>2. w \in Q
    BY <1>3
  <2> HIDE DEF w, Q
  <2>3. [phi EXCEPT !.operands = w] \in [result : Variables(f), operands : Q]
    BY <2>1, <2>2
  <2> QED  BY <1>4, <2>3 DEF w, Q
<1> QED  BY <1>2, <1>4, <1>5 DEF PhiSet, O

(* A block with another terminator. *)
WithLast(s, i) == [s EXCEPT ![Len(s)] = i]

(* fold_terminator_pruning_phis, block by block. *)
LEMMA FoldBranchFacts ==
  ASSUME NEW f, IsFunction(f), NEW g \in Shapes(f), NEW b \in NodeIds(f), NEW t \in NodeIds(f),
         NEW h, h = FoldBranch(g, b, t)
  PROVE  /\ h \in Shapes(f)
         /\ \A c \in NodeIds(f) :
               /\ h.targets[c] = IF c = b THEN <<t>> ELSE g.targets[c]
               /\ h.body[c] = IF c = b THEN WithLast(g.body[b], Jump(t)) ELSE g.body[c]
               /\ Len(h.phis[c]) = Len(g.phis[c])
               /\ \A n \in DOMAIN g.phis[c] : h.phis[c][n] = PrunedPhi(g, b, t, c, g.phis[c][n])
<1> DEFINE N == NodeIds(f)
           new == [c \in N |-> [n \in DOMAIN g.phis[c] |-> PrunedPhi(g, b, t, c, g.phis[c][n])]]
           targets == [g.targets EXCEPT ![b] = <<t>>]
           body == [g.body EXCEPT ![b] = [@ EXCEPT ![Len(g.body[b])] = Jump(t)]]
<1>1. /\ g.count = f.count /\ NodeIds(g) = N /\ g.initial = f.initial /\ g.clauses = f.clauses
      /\ g.targets \in [N -> Seq(N)] /\ g.phis \in [N -> Seq(PhiSet(f))] /\ g.body \in [N -> Seq(InstructionSet(f))]
      /\ g = [count |-> g.count, targets |-> g.targets, clauses |-> g.clauses,
              initial |-> g.initial, phis |-> g.phis, body |-> g.body]
  BY ShapeFacts
<1>2. h = [count |-> g.count, targets |-> targets, clauses |-> g.clauses,
           initial |-> g.initial, phis |-> new, body |-> body]
  <2>1. h = [g EXCEPT !.targets = targets, !.body = body, !.phis = new]
    <3>1. h = [g EXCEPT !.targets[b] = <<t>>, !.body[b][Len(g.body[b])] = Jump(t),
                        !.phis = [c \in NodeIds(g) |-> [n \in DOMAIN @[c] |-> PrunedPhi(g, b, t, c, @[c][n])]]]
      BY Zenon DEF FoldBranch, PrunedPhi, Others, Jump
    <3> QED  BY <1>1, <3>1
  <2> HIDE DEF targets, body, new, N
  <2> QED  BY <1>1, <2>1
<1>3. targets \in [N -> Seq(N)]
  <2>1. <<t>> \in Seq(N)
    OBVIOUS
  <2> QED  BY <1>1, <2>1
<1>4. body \in [N -> Seq(InstructionSet(f))]
  <2> DEFINE I == InstructionSet(f)
             s == g.body[b]
             j == Jump(t)
  <2>1. s \in Seq(I) /\ j \in I
    BY <1>1, JumpFacts
  <2> HIDE DEF I, s, j
  <2>2. [s EXCEPT ![Len(s)] = j] \in Seq(I)
    <3> DEFINE F(n) == IF n = Len(s) THEN j ELSE s[n]
               m == Len(s)
    <3>1. [s EXCEPT ![m] = j] = [n \in 1 .. m |-> F(n)]
      BY <2>1
    <3>2. m \in Nat /\ \A n \in 1 .. m : F(n) \in I
      BY <2>1
    <3> HIDE DEF F, m
    <3>3. [n \in 1 .. m |-> F(n)] \in Seq(I)
      BY <3>2
    <3> QED  BY <3>1, <3>3 DEF m
  <2> QED  BY <1>1, <2>2 DEF I, s, j
<1>5. /\ new \in [N -> Seq(PhiSet(f))]
      /\ \A c \in N : Len(new[c]) = Len(g.phis[c]) /\ \A n \in DOMAIN g.phis[c] :
            new[c][n] = PrunedPhi(g, b, t, c, g.phis[c][n])
  <2>1. ASSUME NEW c \in N
        PROVE  /\ new[c] \in Seq(PhiSet(f)) /\ Len(new[c]) = Len(g.phis[c])
               /\ \A n \in DOMAIN g.phis[c] : new[c][n] = PrunedPhi(g, b, t, c, g.phis[c][n])
    <3> DEFINE s == g.phis[c]
               P == PhiSet(f)
               F(phi) == PrunedPhi(g, b, t, c, phi)
               w == [n \in DOMAIN s |-> F(s[n])]
    <3>1. new[c] = w
      OBVIOUS
    <3>2. s \in Seq(P)
      BY <1>1
    <3>3. \A phi \in P : F(phi) \in P
      BY OthersFacts DEF PrunedPhi
    <3> HIDE DEF s, P, F, new
    <3>4. w \in Seq(P) /\ Len(w) = Len(s) /\ \A n \in DOMAIN s : w[n] = F(s[n])
      BY <3>2, <3>3
    <3> QED  BY <3>1, <3>4 DEF s, P, F
  <2> HIDE DEF N
  <2>2. new = [c \in N |-> new[c]]
    OBVIOUS
  <2> HIDE DEF new
  <2> QED  BY <2>1, <2>2
<1>6. h \in Shapes(f)
  <2> DEFINE X == [N -> Seq(N)]
             Y == [N -> Seq(PhiSet(f))]
             Z == [N -> Seq(InstructionSet(f))]
  <2>1. targets \in X /\ new \in Y /\ body \in Z
    BY <1>3, <1>4, <1>5
  <2> HIDE DEF targets, body, new, X, Y, Z
  <2>2. h \in [count : {f.count}, targets : X, clauses : {f.clauses}, initial : {f.initial}, phis : Y, body : Z]
    BY <1>1, <1>2, <2>1
  <2> QED  BY <2>2 DEF Shapes, X, Y, Z
<1>7. h.targets = targets /\ h.body = body /\ h.phis = new
  <2> HIDE DEF targets, body, new, N
  <2> QED  BY <1>2
<1>8. ASSUME NEW c \in N
      PROVE  /\ h.targets[c] = IF c = b THEN <<t>> ELSE g.targets[c]
             /\ h.body[c] = IF c = b THEN WithLast(g.body[b], Jump(t)) ELSE g.body[c]
  BY <1>1, <1>7 DEF WithLast
<1> HIDE DEF new, targets, body
<1>9. \A c \in N : Len(h.phis[c]) = Len(g.phis[c]) /\ \A n \in DOMAIN g.phis[c] :
         h.phis[c][n] = PrunedPhi(g, b, t, c, g.phis[c][n])
  BY <1>5, <1>7
<1> QED  BY <1>6, <1>8, <1>9

(* One step of FoldBranches, and its blocks in order. *)
FoldAt(f, ranges, g, b) ==
    IF SoleTarget(f, ranges, b) = Nil THEN g ELSE FoldBranch(g, b, SoleTarget(f, ranges, b))

(* A step of the fold keeps the shape. *)
LEMMA FoldAtShape ==
  ASSUME NEW f, IsVerified(f), NEW ranges, NEW g \in Shapes(f), NEW b \in NodeIds(f)
  PROVE  FoldAt(f, ranges, g, b) \in Shapes(f)
<1>1. IsFunction(f)
  BY DEF IsVerified
<1>2. SoleTarget(f, ranges, b) # Nil => SoleTarget(f, ranges, b) \in NodeIds(f)
  BY SoleTargetFacts
<1> QED  BY <1>1, <1>2, FoldBranchFacts DEF FoldAt

(* The fold over the blocks keeps what every step keeps. *)
LEMMA BranchesFold ==
  ASSUME NEW f, IsVerified(f), NEW ranges,
         NEW P \in [0 .. f.count -> SUBSET Shapes(f)], f \in P[0],
         \A k \in 1 .. f.count : \A g \in P[k - 1] : FoldAt(f, ranges, g, k - 1) \in P[k]
  PROVE  FoldBranches(f, ranges) \in P[f.count]
<1> DEFINE A == Shapes(f)
           Op(g, b) == FoldAt(f, ranges, g, b)
           n == f.count
           s == [k \in 1 .. n |-> k - 1]
           Def(iter) == iter = [t \in SUBSET (DOMAIN s) |->
                                  IF t = {} THEN f ELSE Op(iter[t \ {Max(t)}], s[Max(t)])]
           next == [k \in 1 .. n |-> [g \in A |-> Op(g, s[k])]]
<1>1. FoldBranches(f, ranges) = (CHOOSE iter : Def(iter))[DOMAIN s]
  BY Zenon DEF FoldBranches, FoldAt, FoldLeft, MapThenFoldSet
<1>2. n \in Nat /\ DOMAIN s = 1 .. n /\ \A k \in 1 .. n : s[k] = k - 1 /\ s[k] \in NodeIds(f)
  BY DEF IsVerified, IsFunction, NodeIds
<1>3. IsSteps(next, n, A) /\ \A k \in 1 .. n : \A g \in A : next[k][g] = Op(g, s[k])
  <2>1. \A g \in A : \A b \in NodeIds(f) : Op(g, b) \in A
    BY FoldAtShape
  <2> HIDE DEF n, Op, A, s
  <2> QED  BY <1>2, <2>1 DEF IsSteps
<1>4. \A k \in 1 .. n : \A g \in P[k - 1] : Op(g, s[k]) \in P[k]
  BY <1>2
<1>0. f \in A
  BY VerifiedShape
<1> HIDE DEF n, Op, next, s, A
<1>5. \E iter : Def(iter)
  <2>1. PICK iter : IsFold(iter, next, n, A, f)
    BY <1>0, <1>2, <1>3, FoldExists
  <2>2. ASSUME NEW t \in SUBSET (1 .. n)
        PROVE  iter[t] = IF t = {} THEN f ELSE Op(iter[t \ {Max(t)}], s[Max(t)])
    <3>1. CASE t = {}
      BY <2>1, <3>1 DEF IsFold
    <3>2. CASE t # {}
      <4>1. iter[t] = next[Max(t)][iter[t \ {Max(t)}]] /\ iter \in [SUBSET (1 .. n) -> A]
        BY <2>1, <3>2 DEF IsFold
      <4>2. Max(t) \in 1 .. n
        BY <1>2, <3>2, MaxFacts
      <4>3. t \ {Max(t)} \in SUBSET (1 .. n)
        OBVIOUS
      <4>4. iter[t \ {Max(t)}] \in A
        BY <4>1, <4>3
      <4> QED  BY <1>3, <3>2, <4>1, <4>2, <4>4
    <3> QED  BY <3>1, <3>2
  <2>3. iter = [t \in SUBSET (1 .. n) |-> iter[t]]
    BY <2>1 DEF IsFold
  <2>4. Def(iter)
    BY <1>2, <2>2, <2>3
  <2> QED  BY <2>4
<1> DEFINE iter == CHOOSE iter : Def(iter)
<1>6. Def(iter)
  BY <1>5
<1>7. ASSUME NEW t \in SUBSET (1 .. n)
      PROVE  iter[t] = IF t = {} THEN f ELSE Op(iter[t \ {Max(t)}], s[Max(t)])
  <2> HIDE DEF iter
  <2> QED  BY <1>2, <1>6
<1>8. FoldBranches(f, ranges) = iter[1 .. n]
  BY <1>1, <1>2 DEF iter
<1> HIDE DEF iter
<1>9. ASSUME NEW t \in SUBSET (1 .. n)
      PROVE  /\ t = {} => iter[t] = f
             /\ t # {} /\ iter[t \ {Max(t)}] \in A
                => iter[t] = next[Max(t)][iter[t \ {Max(t)}]]
  <2>1. t # {} => Max(t) \in 1 .. n
    BY <1>2, MaxFacts
  <2> QED  BY <1>3, <1>7, <2>1
<1>11. P \in [0 .. n -> SUBSET A]
  BY DEF n, A
<1>10. \A k \in 1 .. n : \A g \in P[k - 1] : next[k][g] \in P[k]
  <2> SUFFICES ASSUME NEW k \in 1 .. n, NEW g \in P[k - 1] PROVE next[k][g] \in P[k]
    OBVIOUS
  <2>1. k - 1 \in 0 .. n
    BY <1>2
  <2>2. g \in A
    BY <1>11, <2>1
  <2> QED  BY <1>3, <1>4, <2>2
<1>12. f \in P[0]
  OBVIOUS
<1>13. iter[1 .. n] \in P[n]
  BY <1>0, <1>2, <1>3, <1>9, <1>10, <1>11, <1>12, FoldKeeps
<1> QED  BY <1>8, <1>13 DEF n

(* The function after the branches of the first n blocks. *)
FoldedTargets(f, ranges, n, b) ==
    IF b < n /\ SoleTarget(f, ranges, b) # Nil THEN <<SoleTarget(f, ranges, b)>> ELSE f.targets[b]
(* The body of a block when the first n blocks are done. *)
FoldedBody(f, ranges, n, b) ==
    IF b < n /\ SoleTarget(f, ranges, b) # Nil
    THEN WithLast(f.body[b], Jump(SoleTarget(f, ranges, b))) ELSE f.body[b]

(* A phi keeps the operands of the blocks that still lead there, and unless none
   does, no other. *)
IsPruned(f, g, c, phi, psi) ==
    /\ psi.result = phi.result
    /\ ToSet(psi.operands) \subseteq ToSet(phi.operands)
    /\ c \in ReachableFrom(SsaCfg(f), 0) =>
          /\ \A o \in ToSet(phi.operands) :
                o.pred \in PredecessorSet(SsaCfg(g), c) => o \in ToSet(psi.operands)
          /\ \A q \in PredecessorSet(SsaCfg(g), c) : \A o \in ToSet(psi.operands) :
                o.pred \in PredecessorSet(SsaCfg(g), c)

(* The function when the first n blocks are done. *)
IsFolded(f, ranges, n, g) ==
    \A b \in NodeIds(f) :
        /\ g.targets[b] = FoldedTargets(f, ranges, n, b)
        /\ g.body[b] = FoldedBody(f, ranges, n, b)
        /\ Len(g.phis[b]) = Len(f.phis[b])
        /\ \A m \in DOMAIN f.phis[b] : IsPruned(f, g, b, f.phis[b][m], g.phis[b][m])

(* Folding the branch of the next block. *)
LEMMA FoldBranchCore ==
  ASSUME NEW f, IsVerified(f), NEW ranges, NEW b \in NodeIds(f), NEW g \in Shapes(f),
         IsFolded(f, ranges, b, g),
         NEW t, t # Nil, SoleTarget(f, ranges, b) = t, NEW h, h = FoldBranch(g, b, t)
  PROVE  IsFolded(f, ranges, b + 1, h)
<1> DEFINE N == NodeIds(f)
           reach == ReachableFrom(SsaCfg(f), 0)
           PredG(c) == PredecessorSet(SsaCfg(g), c)
           PredH(c) == PredecessorSet(SsaCfg(h), c)
<1>31. IsFunction(f) /\ f \in Shapes(f) /\ b \in Int /\ \A c \in N : c \in Int
  BY VerifiedShape DEF IsVerified, NodeIds
<1>32. \A c \in N : (c < b + 1) <=> (c < b \/ c = b)
  BY <1>31
<1>1. t \in ToSet(f.targets[b]) /\ t \in N
  BY SoleTargetFacts
<1>2. /\ h \in Shapes(f)
      /\ \A c \in N :
            /\ h.targets[c] = IF c = b THEN <<t>> ELSE g.targets[c]
            /\ h.body[c] = IF c = b THEN WithLast(g.body[b], Jump(t)) ELSE g.body[c]
            /\ Len(h.phis[c]) = Len(g.phis[c])
            /\ \A m \in DOMAIN g.phis[c] : h.phis[c][m] = PrunedPhi(g, b, t, c, g.phis[c][m])
  <2>1. IsFunction(f) /\ t \in NodeIds(f)
    BY <1>1, <1>31
  <2>2. h \in Shapes(f)
    BY <2>1, FoldBranchFacts
  <2> SUFFICES ASSUME NEW c \in NodeIds(f)
               PROVE  /\ h.targets[c] = IF c = b THEN <<t>> ELSE g.targets[c]
                      /\ h.body[c] = IF c = b THEN WithLast(g.body[b], Jump(t)) ELSE g.body[c]
                      /\ Len(h.phis[c]) = Len(g.phis[c])
                      /\ \A m \in DOMAIN g.phis[c] : h.phis[c][m] = PrunedPhi(g, b, t, c, g.phis[c][m])
    BY <2>2
  <2> QED  BY <2>1, FoldBranchFacts
<1>33. h \in Shapes(f)
  BY <1>2
<1>3. g.targets[b] = f.targets[b] /\ g.body[b] = f.body[b]
  <2>1. ~(b < b)
    BY <1>31
  <2> QED  BY <2>1 DEF IsFolded, FoldedTargets, FoldedBody
<1>4. /\ g.targets \in [N -> Seq(N)] /\ g.body \in [N -> Seq(InstructionSet(f))]
      /\ g.phis \in [N -> Seq(PhiSet(f))] /\ f.phis \in [N -> Seq(PhiSet(f))]
      /\ NodeIds(SsaCfg(g)) = N /\ NodeIds(SsaCfg(h)) = N /\ NodeIds(SsaCfg(f)) = N
      /\ \A c \in N : /\ SuccessorSet(SsaCfg(g), c) = ToSet(g.targets[c])
                      /\ SuccessorSet(SsaCfg(h), c) = ToSet(h.targets[c])
                      /\ SuccessorSet(SsaCfg(f), c) = ToSet(f.targets[c])
  <2>1. /\ g.targets \in [N -> Seq(N)] /\ g.body \in [N -> Seq(InstructionSet(f))]
        /\ g.phis \in [N -> Seq(PhiSet(f))] /\ NodeIds(SsaCfg(g)) = N
        /\ \A c \in N : SuccessorSet(SsaCfg(g), c) = ToSet(g.targets[c])
    BY <1>31, ShapeFacts
  <2>2. /\ f.phis \in [N -> Seq(PhiSet(f))] /\ NodeIds(SsaCfg(f)) = N
        /\ \A c \in N : SuccessorSet(SsaCfg(f), c) = ToSet(f.targets[c])
    BY <1>31, ShapeFacts
  <2>3. NodeIds(SsaCfg(h)) = N /\ \A c \in N : SuccessorSet(SsaCfg(h), c) = ToSet(h.targets[c])
    BY <1>31, <1>33, ShapeFacts
  <2> QED  BY <2>1, <2>2, <2>3
<1>5. \A c \in N : h.targets[c] = IF c = b THEN <<t>> ELSE g.targets[c]
  BY <1>2, <1>4
<1>6. \A c \in N : h.body[c] = IF c = b THEN WithLast(f.body[b], Jump(t)) ELSE g.body[c]
  BY <1>2, <1>3, <1>4
<1>7. \A c \in N : h.targets[c] = FoldedTargets(f, ranges, b + 1, c)
  BY <1>31, <1>32, <1>5 DEF IsFolded, FoldedTargets
<1>8. \A c \in N : h.body[c] = FoldedBody(f, ranges, b + 1, c)
  BY <1>31, <1>32, <1>6 DEF IsFolded, FoldedBody
<1>9. ToSet(<<t>>) = {t}
  BY DEF ToSet
<1>10. \A c \in N : \A p : /\ p \in PredG(c) <=> p \in N /\ c \in ToSet(g.targets[p])
                           /\ p \in PredH(c) <=> p \in N /\ c \in ToSet(h.targets[p])
  BY <1>4 DEF PredecessorSet
<1>11. \A c \in N : \A p : p \in PredH(c) <=> p \in PredG(c) /\ (p # b \/ c = t)
  BY <1>1, <1>3, <1>5, <1>9, <1>10
<1>12. \A c \in N : c \in LostSuccessors(g, b, t) <=> b \in PredG(c) /\ c # t
  BY <1>4, <1>10 DEF LostSuccessors
<1>13. ASSUME NEW c \in N, NEW m \in DOMAIN f.phis[c]
       PROVE  IsPruned(f, h, c, f.phis[c][m], h.phis[c][m])
  <2> DEFINE phi == f.phis[c][m]
             psi == g.phis[c][m]
             new == h.phis[c][m]
  <2>1. m \in DOMAIN g.phis[c] /\ IsPruned(f, g, c, phi, psi)
    <3>1. Len(g.phis[c]) = Len(f.phis[c]) /\ IsPruned(f, g, c, phi, psi)
      BY DEF IsFolded
    <3> QED  BY <1>4, <3>1
  <2>2. new = PrunedPhi(g, b, t, c, psi) /\ psi \in PhiSet(f)
    BY <1>2, <1>4, <2>1
  <2>3. \A o : o \in ToSet(Others(psi, b)) <=> o \in ToSet(psi.operands) /\ o.pred # b
    <3> HIDE DEF psi, new
    <3> QED  BY <2>2, OthersFacts
  <2>4. c \in reach => \A p \in PredG(c) : \E o \in ToSet(phi.operands) : o.pred = p
    <3> SUFFICES ASSUME c \in reach, NEW p \in PredG(c)
                 PROVE  \E o \in ToSet(phi.operands) : o.pred = p
      OBVIOUS
    <3>1. phi \in ToSet(f.phis[c])
      BY DEF ToSet
    <3>2. c \in ToSet(f.targets[p]) /\ p \in N
      <4>1. p \in N /\ c \in ToSet(g.targets[p])
        BY <1>10
      <4>2. g.targets[p] = FoldedTargets(f, ranges, b, p)
        BY <4>1 DEF IsFolded
      <4>3. CASE g.targets[p] = f.targets[p]
        BY <4>1, <4>3
      <4>4. CASE g.targets[p] = <<SoleTarget(f, ranges, p)>> /\ SoleTarget(f, ranges, p) # Nil
        <5> DEFINE u == SoleTarget(f, ranges, p)
        <5>1. u \in ToSet(f.targets[p])
          BY <4>1, <4>4, SoleTargetFacts
        <5>2. ToSet(<<u>>) = {u}
          BY DEF ToSet
        <5> QED  BY <4>1, <4>4, <5>1, <5>2
      <4> QED  BY <4>2, <4>3, <4>4 DEF FoldedTargets
    <3>3. p \in PredecessorSet(SsaCfg(f), c)
      BY <1>4, <3>2 DEF PredecessorSet
    <3> QED  BY <3>1, <3>3, OperandFrom
  <2> HIDE DEF phi, psi, new, PredG, PredH, reach
  <2>5. /\ psi.result = phi.result /\ ToSet(psi.operands) \subseteq ToSet(phi.operands)
        /\ c \in reach =>
              /\ \A o \in ToSet(phi.operands) : o.pred \in PredG(c) => o \in ToSet(psi.operands)
              /\ \A q \in PredG(c) : \A o \in ToSet(psi.operands) : o.pred \in PredG(c)
    BY <2>1 DEF IsPruned, PredG, reach
  <2>6. CASE new = psi /\ c \notin LostSuccessors(g, b, t)
    <3>1. \A p : p \in PredH(c) <=> p \in PredG(c)
      BY <1>11, <1>12, <2>6
    <3> QED  BY <2>5, <2>6, <3>1 DEF IsPruned, PredH, reach, phi, new
  <2>7. CASE new = psi /\ c \in LostSuccessors(g, b, t) /\ Others(psi, b) = <<>>
    <3>1. \A o \in ToSet(psi.operands) : o.pred = b
      <4>1. ToSet(Others(psi, b)) = {}
        BY <2>7 DEF ToSet
      <4> QED  BY <2>3, <4>1
    <3>2. ASSUME c \in reach, NEW p \in PredH(c) PROVE FALSE
      <4>1. p \in PredG(c) /\ p # b
        BY <1>11, <1>12, <2>7, <3>2
      <4>2. PICK o \in ToSet(phi.operands) : o.pred = p
        BY <2>4, <3>2, <4>1
      <4>3. o \in ToSet(psi.operands)
        BY <2>5, <3>2, <4>1, <4>2
      <4> QED  BY <3>1, <4>1, <4>2, <4>3
    <3>3. /\ new.result = phi.result /\ ToSet(new.operands) \subseteq ToSet(phi.operands)
          /\ c \in reach => \A p : p \notin PredH(c)
      BY <2>5, <2>7, <3>2
    <3> QED  BY <3>3 DEF IsPruned, PredH, reach, phi, new
  <2>8. CASE new = [psi EXCEPT !.operands = Others(psi, b)] /\ c \in LostSuccessors(g, b, t)
    <3>1. new.result = psi.result /\ new.operands = Others(psi, b)
      BY <2>2, <2>8 DEF PhiSet
    <3>2. \A o : o \in ToSet(new.operands) <=> o \in ToSet(psi.operands) /\ o.pred # b
      BY <2>3, <3>1
    <3>3. \A p : p \in PredH(c) <=> p \in PredG(c) /\ p # b
      BY <1>11, <1>12, <2>8
    <3>4. b \in PredG(c)
      BY <1>12, <2>8
    <3>5. c \in reach =>
             /\ \A o \in ToSet(phi.operands) : o.pred \in PredH(c) => o \in ToSet(new.operands)
             /\ \A o \in ToSet(new.operands) : o.pred \in PredH(c)
      BY <2>5, <3>2, <3>3, <3>4
    <3> QED  BY <2>5, <3>1, <3>2, <3>5 DEF IsPruned, PredH, reach, phi, new
  <2> QED  BY <2>2, <2>6, <2>7, <2>8 DEF PrunedPhi, phi, new
<1>14. \A c \in N : Len(h.phis[c]) = Len(f.phis[c])
  BY <1>2 DEF IsFolded
<1> QED  BY <1>7, <1>8, <1>13, <1>14 DEF IsFolded

(* The next block, folded or not. *)
LEMMA FoldAtCore ==
  ASSUME NEW f, IsVerified(f), NEW ranges, NEW b \in NodeIds(f), NEW g \in Shapes(f),
         IsFolded(f, ranges, b, g)
  PROVE  IsFolded(f, ranges, b + 1, FoldAt(f, ranges, g, b))
<1>1. CASE SoleTarget(f, ranges, b) = Nil
  <2>1. \A c \in NodeIds(f) : (c < b + 1) <=> (c < b \/ c = b)
    BY DEF NodeIds
  <2>2. \A c \in NodeIds(f) :
           /\ FoldedTargets(f, ranges, b + 1, c) = FoldedTargets(f, ranges, b, c)
           /\ FoldedBody(f, ranges, b + 1, c) = FoldedBody(f, ranges, b, c)
    BY <1>1, <2>1 DEF FoldedTargets, FoldedBody
  <2> QED  BY <1>1, <2>2 DEF IsFolded, FoldAt
<1>2. CASE SoleTarget(f, ranges, b) # Nil
  BY <1>2, FoldBranchCore DEF FoldAt
<1> QED  BY <1>1, <1>2

(* All branches the ranges decide are folded, and nothing else is changed. *)
LEMMA BranchesAreFolded ==
  ASSUME NEW f, IsVerified(f), NEW ranges
  PROVE  /\ FoldBranches(f, ranges) \in Shapes(f)
         /\ IsFolded(f, ranges, f.count, FoldBranches(f, ranges))
<1> DEFINE P == [k \in 0 .. f.count |-> {g \in Shapes(f) : IsFolded(f, ranges, k, g)}]
<1>1. f.count \in Nat
  BY DEF IsVerified, IsFunction
<1>2. P \in [0 .. f.count -> SUBSET Shapes(f)]
  OBVIOUS
<1>3. f \in P[0]
  <2>1. f \in Shapes(f)
    BY VerifiedShape
  <2>2. ASSUME NEW b \in NodeIds(f)
        PROVE  FoldedTargets(f, ranges, 0, b) = f.targets[b] /\ FoldedBody(f, ranges, 0, b) = f.body[b]
    <3>1. ~(b < 0)
      BY <1>1 DEF NodeIds
    <3> QED  BY <3>1 DEF FoldedTargets, FoldedBody
  <2>3. ASSUME NEW b \in NodeIds(f), NEW m \in DOMAIN f.phis[b]
        PROVE  IsPruned(f, f, b, f.phis[b][m], f.phis[b][m])
    <3> DEFINE phi == f.phis[b][m]
    <3>1. phi \in ToSet(f.phis[b])
      BY DEF ToSet
    <3> HIDE DEF phi
    <3>2. b \in ReachableFrom(SsaCfg(f), 0)
             => \A o \in ToSet(phi.operands) : o.pred \in PredecessorSet(SsaCfg(f), b)
      BY <3>1, OperandIsThere
    <3>3. IsPruned(f, f, b, phi, phi)
      BY <3>2 DEF IsPruned
    <3> QED  BY <3>3 DEF phi
  <2>4. IsFolded(f, ranges, 0, f)
    BY <2>2, <2>3 DEF IsFolded
  <2> QED  BY <1>1, <2>1, <2>4
<1>4. ASSUME NEW k \in 1 .. f.count, NEW g \in P[k - 1] PROVE FoldAt(f, ranges, g, k - 1) \in P[k]
  <2>1. k - 1 \in 0 .. f.count /\ k \in 0 .. f.count /\ (k - 1) + 1 = k /\ k - 1 \in NodeIds(f)
    BY <1>1 DEF NodeIds
  <2>2. g \in Shapes(f) /\ IsFolded(f, ranges, k - 1, g)
    BY <2>1
  <2>3. FoldAt(f, ranges, g, k - 1) \in Shapes(f)
    BY <2>1, <2>2, FoldAtShape
  <2>4. IsFolded(f, ranges, (k - 1) + 1, FoldAt(f, ranges, g, k - 1))
    BY <2>1, <2>2, FoldAtCore
  <2> QED  BY <2>1, <2>3, <2>4
<1> HIDE DEF P
<1>5. FoldBranches(f, ranges) \in P[f.count]
  BY <1>2, <1>3, <1>4, BranchesFold
<1> QED  BY <1>1, <1>5 DEF P

(* Functions that define the same variables at the same places. *)
HaveSameNames(f, g) ==
    \A b \in NodeIds(f) :
        /\ Len(g.phis[b]) = Len(f.phis[b]) /\ Len(g.body[b]) = Len(f.body[b])
        /\ \A k \in DOMAIN f.phis[b] : g.phis[b][k].result = f.phis[b][k].result
        /\ \A k \in DOMAIN f.body[b] : g.body[b][k].dest = f.body[b][k].dest

(* Functions that define the same variables in the same blocks. *)
LEMMA SameNames ==
  ASSUME NEW f, IsFunction(f), f \in Shapes(f), NEW g \in Shapes(f), HaveSameNames(f, g)
  PROVE  /\ Variables(g) = Variables(f) /\ NodeIds(g) = NodeIds(f)
         /\ InstructionSet(g) = InstructionSet(f) /\ PhiSet(g) = PhiSet(f)
         /\ \A b \in NodeIds(f) :
               /\ PhiResults(g, b) = PhiResults(f, b) /\ Dests(g, b) = Dests(f, b)
               /\ DefinedIn(g, b) = DefinedIn(f, b)
<1>1. /\ NodeIds(g) = NodeIds(f) /\ g.initial = f.initial
      /\ \A b \in NodeIds(f) : /\ g.phis[b] \in Seq(PhiSet(f)) /\ f.phis[b] \in Seq(PhiSet(f))
                               /\ g.body[b] \in Seq(InstructionSet(f)) /\ f.body[b] \in Seq(InstructionSet(f))
  <2>1. NodeIds(g) = NodeIds(f) /\ g.initial = f.initial /\ g.phis \in [NodeIds(f) -> Seq(PhiSet(f))]
        /\ g.body \in [NodeIds(f) -> Seq(InstructionSet(f))]
    BY ShapeFacts
  <2>2. f.phis \in [NodeIds(f) -> Seq(PhiSet(f))] /\ f.body \in [NodeIds(f) -> Seq(InstructionSet(f))]
    BY ShapeFacts
  <2> QED  BY <2>1, <2>2
<1>2. ASSUME NEW b \in NodeIds(f)
      PROVE  /\ PhiResults(g, b) = PhiResults(f, b) /\ Dests(g, b) = Dests(f, b)
             /\ DefinedIn(g, b) = DefinedIn(f, b)
  <2> DEFINE s == f.phis[b]
             t == g.phis[b]
             u == f.body[b]
             w == g.body[b]
  <2>1. /\ DOMAIN s = DOMAIN t /\ DOMAIN u = DOMAIN w
    BY <1>1 DEF HaveSameNames
  <2>2. (\A k \in DOMAIN s : t[k].result = s[k].result) /\ (\A k \in DOMAIN u : w[k].dest = u[k].dest)
    BY DEF HaveSameNames
  <2> HIDE DEF s, t, u, w
  <2>3. \A x : x \in {phi.result : phi \in ToSet(t)} <=> x \in {phi.result : phi \in ToSet(s)}
    BY <2>1, <2>2 DEF ToSet
  <2>4. \A x : x \in {i.dest : i \in ToSet(w)} <=> x \in {i.dest : i \in ToSet(u)}
    BY <2>1, <2>2 DEF ToSet
  <2>5. PhiResults(g, b) = PhiResults(f, b)
    <3>1. {phi.result : phi \in ToSet(t)} = {phi.result : phi \in ToSet(s)}
      BY <2>3
    <3> QED  BY <3>1 DEF PhiResults, s, t
  <2>6. Dests(g, b) = Dests(f, b)
    <3>1. {i.dest : i \in ToSet(w)} = {i.dest : i \in ToSet(u)}
      BY <2>4
    <3> QED  BY <3>1 DEF Dests, u, w
  <2> QED  BY <2>5, <2>6 DEF DefinedIn
<1>3. Variables(g) = Variables(f)
  <2>1. UNION {DefinedIn(g, b) : b \in NodeIds(g)} = UNION {DefinedIn(f, b) : b \in NodeIds(f)}
    BY <1>1, <1>2
  <2> QED  BY <1>1, <2>1 DEF Variables
<1>4. InstructionSet(g) = InstructionSet(f) /\ PhiSet(g) = PhiSet(f)
  BY <1>1, <1>3, Zenon DEF InstructionSet, PhiSet
<1> QED  BY <1>1, <1>2, <1>3, <1>4

(* A comparison becomes an instruction that defines the same variable. *)
LEMMA SimplerFacts ==
  ASSUME NEW f, NEW ranges, NEW i \in InstructionSet(f), HasItsOperands(i)
  PROVE  /\ Simpler(ranges, i) \in InstructionSet(f) /\ HasItsOperands(Simpler(ranges, i))
         /\ Simpler(ranges, i).dest = i.dest
         /\ IsTerminator(Simpler(ranges, i)) <=> IsTerminator(i)
         /\ IsTerminator(i) => Simpler(ranges, i) = i
         /\ Simpler(ranges, i) = i \/ Simpler(ranges, i).args = <<>>
<1>1. CASE ~(IsComparison(i.op) /\ Decided(ranges, i) # Nil)
  BY <1>1 DEF Simpler
<1>2. CASE IsComparison(i.op) /\ Decided(ranges, i) # Nil
  <2> DEFINE c == Decided(ranges, i)
             j == Instruction("const", i.dest, <<>>, c)
  <2>1. Simpler(ranges, i) = j
    BY <1>2 DEF Simpler
  <2>2. c \in {0, 1}
    BY <1>2 DEF Decided, Truth, Nil
  <2>3. {0, 1} \subseteq Lowest .. Highest
    <3> DEFINE h == 2 ^ (Width - 1)
    <3>1. h > 1 /\ h \in Int
      BY WidthAssumption
    <3>2. Lowest = -h /\ Highest = h - 1
      BY DEF Lowest, Highest
    <3> HIDE DEF h
    <3> QED  BY <3>1, <3>2
  <2>4. j = [op |-> "const", dest |-> i.dest, args |-> <<>>, value |-> c, targets |-> <<>>]
    BY DEF Instruction
  <2> HIDE DEF c, j
  <2>5. j \in InstructionSet(f)
    <3> DEFINE A == Seq(Variables(f))
               B == Seq(NodeIds(f))
               C == ValueOps \cup ControlOps
               D == Variables(f) \cup {Nil}
               E == Lowest .. Highest
               e == <<>>
    <3>1. e \in A /\ e \in B /\ "const" \in C /\ i.dest \in D /\ c \in E
      BY <2>2, <2>3 DEF ValueOps, InstructionSet
    <3>2. j = [op |-> "const", dest |-> i.dest, args |-> e, value |-> c, targets |-> e]
      BY <2>4
    <3> HIDE DEF A, B, C, D, E, e
    <3>3. j \in [op : C, dest : D, args : A, value : E, targets : B]
      BY <3>1, <3>2
    <3> QED  BY <3>3 DEF InstructionSet, A, B, C, D, E
  <2>6. j.op = "const" /\ j.dest = i.dest /\ j.args = <<>>
    BY <2>4
  <2>7. HasItsOperands(j) /\ ~IsTerminator(j)
    BY <2>6 DEF HasItsOperands, IsTerminator
  <2>8. ~IsTerminator(i)
    BY <1>2 DEF IsComparison, IsTerminator
  <2> QED  BY <2>1, <2>5, <2>6, <2>7, <2>8
<1> QED  BY <1>1, <1>2

(* What run makes of a function, before the repair. *)
Folded(f, ranges) == FoldComparisons(FoldBranches(f, ranges), ranges)
(* What becomes of an instruction. *)
FoldedInstruction(f, ranges, b, k) ==
    IF k = Len(f.body[b]) /\ SoleTarget(f, ranges, b) # Nil THEN Jump(SoleTarget(f, ranges, b))
    ELSE Simpler(ranges, f.body[b][k])

(* The comparisons, instruction by instruction. *)
LEMMA ComparisonsFold ==
  ASSUME NEW f, IsVerified(f), NEW ranges, NEW g \in Shapes(f),
         \A b \in NodeIds(f) : \A k \in DOMAIN g.body[b] : HasItsOperands(g.body[b][k]),
         NEW h, h = FoldComparisons(g, ranges)
  PROVE  /\ h \in Shapes(f) /\ h.targets = g.targets /\ h.phis = g.phis
         /\ \A b \in NodeIds(f) :
               /\ Len(h.body[b]) = Len(g.body[b])
               /\ \A k \in DOMAIN g.body[b] : h.body[b][k] = Simpler(ranges, g.body[b][k])
<1> DEFINE N == NodeIds(f)
           I == InstructionSet(f)
           new == [b \in N |-> [k \in DOMAIN g.body[b] |-> Simpler(ranges, g.body[b][k])]]
<1>1. /\ NodeIds(g) = N /\ g.count = f.count /\ g.initial = f.initial /\ g.clauses = f.clauses
      /\ g.targets \in [N -> Seq(N)] /\ g.phis \in [N -> Seq(PhiSet(f))] /\ g.body \in [N -> Seq(I)]
      /\ g = [count |-> g.count, targets |-> g.targets, clauses |-> g.clauses,
              initial |-> g.initial, phis |-> g.phis, body |-> g.body]
  BY ShapeFacts DEF IsVerified
<1>2. ASSUME NEW b \in N
      PROVE  /\ new[b] \in Seq(I) /\ Len(new[b]) = Len(g.body[b])
             /\ \A k \in DOMAIN g.body[b] : new[b][k] = Simpler(ranges, g.body[b][k])
  <2> DEFINE s == g.body[b]
             F(i) == Simpler(ranges, i)
             w == [k \in DOMAIN s |-> F(s[k])]
  <2>1. new[b] = w
    OBVIOUS
  <2>2. s \in Seq(I)
    BY <1>1
  <2>3. \A k \in DOMAIN s : HasItsOperands(s[k])
    OBVIOUS
  <2> HIDE DEF s, w, new
  <2>4. \A k \in DOMAIN s : s[k] \in I
    BY <2>2
  <2>5. \A k \in DOMAIN s : F(s[k]) \in I
    BY <2>3, <2>4, SimplerFacts
  <2> HIDE DEF F, I
  <2>6. w \in Seq(I) /\ Len(w) = Len(s) /\ \A k \in DOMAIN s : w[k] = F(s[k])
    BY <2>2, <2>5 DEF w
  <2> QED  BY <2>1, <2>6 DEF s, F
<1>3. h = [count |-> g.count, targets |-> g.targets, clauses |-> g.clauses,
           initial |-> g.initial, phis |-> g.phis, body |-> new]
  <2>1. h = [g EXCEPT !.body = [b \in NodeIds(g) |-> [k \in DOMAIN @[b] |-> Simpler(ranges, @[b][k])]]]
    BY Zenon DEF FoldComparisons
  <2>2. h = [g EXCEPT !.body = new]
    BY <1>1, <2>1
  <2> HIDE DEF new, N
  <2> QED  BY <1>1, <2>2
<1>4. new \in [N -> Seq(I)]
  <2> HIDE DEF N
  <2>1. new = [b \in N |-> new[b]]
    OBVIOUS
  <2> HIDE DEF new
  <2> QED  BY <1>2, <2>1
<1>5. h \in Shapes(f)
  <2> DEFINE X == [N -> Seq(N)]
             Y == [N -> Seq(PhiSet(f))]
             Z == [N -> Seq(I)]
  <2>1. g.targets \in X /\ g.phis \in Y /\ new \in Z
    BY <1>1, <1>4
  <2> HIDE DEF new, X, Y, Z
  <2>2. h \in [count : {f.count}, targets : X, clauses : {f.clauses}, initial : {f.initial}, phis : Y, body : Z]
    BY <1>1, <1>3, <2>1
  <2> QED  BY <2>2 DEF Shapes, X, Y, Z
<1>6. h.targets = g.targets /\ h.phis = g.phis /\ h.body = new
  <2> HIDE DEF new
  <2> QED  BY <1>3
<1> HIDE DEF new
<1> QED  BY <1>2, <1>5, <1>6

(* The folded function, block by block. *)
LEMMA FoldedFacts ==
  ASSUME NEW f, IsVerified(f), NEW ranges, NEW h, h = Folded(f, ranges)
  PROVE  /\ h \in Shapes(f) /\ HaveSameNames(f, h)
         /\ \A b \in NodeIds(f) :
               /\ h.targets[b] = IF SoleTarget(f, ranges, b) # Nil THEN <<SoleTarget(f, ranges, b)>>
                                 ELSE f.targets[b]
               /\ \A k \in DOMAIN f.body[b] : h.body[b][k] = FoldedInstruction(f, ranges, b, k)
               /\ \A m \in DOMAIN f.phis[b] : IsPruned(f, h, b, f.phis[b][m], h.phis[b][m])
<1> DEFINE g == FoldBranches(f, ranges)
           N == NodeIds(f)
<1>1. g \in Shapes(f) /\ IsFolded(f, ranges, f.count, g)
  BY BranchesAreFolded
<1>2. h = FoldComparisons(g, ranges)
  BY DEF Folded
<1>3. IsExecutable(f) /\ IsFunction(f) /\ f.count \in Nat /\ (\A b \in N : b < f.count)
  BY DEF IsVerified, IsFunction, NodeIds
<1> HIDE DEF g
<1>4. ASSUME NEW b \in N
      PROVE  /\ g.targets[b] = IF SoleTarget(f, ranges, b) # Nil THEN <<SoleTarget(f, ranges, b)>>
                               ELSE f.targets[b]
             /\ Len(g.body[b]) = Len(f.body[b]) /\ DOMAIN g.body[b] = DOMAIN f.body[b]
             /\ \A k \in DOMAIN f.body[b] :
                   g.body[b][k] = IF k = Len(f.body[b]) /\ SoleTarget(f, ranges, b) # Nil
                                  THEN Jump(SoleTarget(f, ranges, b)) ELSE f.body[b][k]
             /\ Len(g.phis[b]) = Len(f.phis[b])
             /\ \A m \in DOMAIN f.phis[b] : IsPruned(f, g, b, f.phis[b][m], g.phis[b][m])
  <2>1. /\ g.targets[b] = FoldedTargets(f, ranges, f.count, b) /\ g.body[b] = FoldedBody(f, ranges, f.count, b)
        /\ Len(g.phis[b]) = Len(f.phis[b])
        /\ \A m \in DOMAIN f.phis[b] : IsPruned(f, g, b, f.phis[b][m], g.phis[b][m])
    BY <1>1 DEF IsFolded
  <2>2. g.targets[b] = IF SoleTarget(f, ranges, b) # Nil THEN <<SoleTarget(f, ranges, b)>> ELSE f.targets[b]
    BY <1>3, <2>1 DEF FoldedTargets
  <2>3. g.body[b] = IF SoleTarget(f, ranges, b) # Nil
                    THEN WithLast(f.body[b], Jump(SoleTarget(f, ranges, b))) ELSE f.body[b]
    BY <1>3, <2>1 DEF FoldedBody
  <2>4. f.body[b] \in Seq(InstructionSet(f))
    BY <1>3 DEF IsExecutable
  <2> DEFINE s == f.body[b]
             j == Jump(SoleTarget(f, ranges, b))
             I == InstructionSet(f)
  <2>5. s \in Seq(I)
    BY <2>4
  <2> HIDE DEF s, j, I
  <2>6. /\ Len(WithLast(s, j)) = Len(s) /\ DOMAIN WithLast(s, j) = DOMAIN s
        /\ \A k \in DOMAIN s : WithLast(s, j)[k] = IF k = Len(s) THEN j ELSE s[k]
    BY <2>5 DEF WithLast
  <2> QED  BY <2>1, <2>2, <2>3, <2>6 DEF s, j
<1>5. ASSUME NEW b \in N, NEW k \in DOMAIN f.body[b]
      PROVE  /\ f.body[b][k] \in InstructionSet(f) /\ HasItsOperands(f.body[b][k])
             /\ IsTerminator(f.body[b][k]) <=> k = Len(f.body[b])
             /\ IsTerminator(f.body[b][k]) => f.body[b][k].dest = Nil
  BY <1>3 DEF IsExecutable
<1>6. \A b \in N : SoleTarget(f, ranges, b) # Nil => SoleTarget(f, ranges, b) \in N
  BY SoleTargetFacts
<1>7. \A b \in N : \A k \in DOMAIN g.body[b] : HasItsOperands(g.body[b][k])
  <2> SUFFICES ASSUME NEW b \in N, NEW k \in DOMAIN g.body[b] PROVE HasItsOperands(g.body[b][k])
    OBVIOUS
  <2>1. k \in DOMAIN f.body[b]
    BY <1>4
  <2>2. CASE k = Len(f.body[b]) /\ SoleTarget(f, ranges, b) # Nil
    BY <1>4, <1>6, <2>1, <2>2, JumpFacts
  <2>3. CASE ~(k = Len(f.body[b]) /\ SoleTarget(f, ranges, b) # Nil)
    <3>1. g.body[b][k] = f.body[b][k]
      BY <1>4, <2>1, <2>3
    <3> QED  BY <1>5, <2>1, <3>1
  <2> QED  BY <2>2, <2>3
<1>8. /\ h \in Shapes(f) /\ h.targets = g.targets /\ h.phis = g.phis
      /\ \A b \in N :
            /\ Len(h.body[b]) = Len(g.body[b])
            /\ \A k \in DOMAIN g.body[b] : h.body[b][k] = Simpler(ranges, g.body[b][k])
  BY <1>1, <1>2, <1>7, ComparisonsFold
<1>9. ASSUME NEW b \in N, NEW k \in DOMAIN f.body[b]
      PROVE  /\ h.body[b][k] = FoldedInstruction(f, ranges, b, k)
             /\ h.body[b][k].dest = f.body[b][k].dest
  <2>1. h.body[b][k] = Simpler(ranges, g.body[b][k])
    BY <1>4, <1>8
  <2>2. CASE k = Len(f.body[b]) /\ SoleTarget(f, ranges, b) # Nil
    <3> DEFINE t == SoleTarget(f, ranges, b)
    <3>1. t \in N /\ g.body[b][k] = Jump(t)
      BY <1>4, <1>6, <2>2
    <3>2. Simpler(ranges, Jump(t)) = Jump(t) /\ Jump(t).dest = Nil
      BY <3>1, JumpFacts DEF Simpler, IsComparison
    <3>3. f.body[b][k].dest = Nil
      BY <1>5, <2>2
    <3> QED  BY <2>1, <2>2, <3>1, <3>2, <3>3 DEF FoldedInstruction
  <2>3. CASE ~(k = Len(f.body[b]) /\ SoleTarget(f, ranges, b) # Nil)
    <3>1. g.body[b][k] = f.body[b][k]
      BY <1>4, <2>3
    <3>2. Simpler(ranges, f.body[b][k]).dest = f.body[b][k].dest
      BY <1>5, SimplerFacts
    <3> QED  BY <2>1, <2>3, <3>1, <3>2 DEF FoldedInstruction
  <2> QED  BY <2>2, <2>3
<1>10. SsaCfg(h) = SsaCfg(g)
  <2>1. h.count = g.count
    BY <1>1, <1>3, <1>8, ShapeFacts
  <2> QED  BY <1>8, <2>1 DEF SsaCfg, NodeIds
<1>11. \A b \in N : \A m \in DOMAIN f.phis[b] : IsPruned(f, h, b, f.phis[b][m], h.phis[b][m])
  BY <1>4, <1>8, <1>10 DEF IsPruned
<1>12. HaveSameNames(f, h)
  BY <1>4, <1>8, <1>9, <1>11 DEF HaveSameNames, IsPruned
<1> QED  BY <1>4, <1>8, <1>9, <1>11, <1>12

(* Folding takes edges away, and with them only what nothing leads to. *)
LEMMA FoldedEdges ==
  ASSUME NEW f, IsVerified(f), NEW ranges, NEW h, h = Folded(f, ranges)
  PROVE  /\ IsFunction(h) /\ NodeIds(h) = NodeIds(f) /\ IsGraph(SsaCfg(h)) /\ NodeIds(SsaCfg(h)) = NodeIds(f)
         /\ \A b \in NodeIds(f) :
               /\ SuccessorSet(SsaCfg(h), b) = ToSet(h.targets[b])
               /\ SuccessorSet(SsaCfg(h), b) \subseteq SuccessorSet(SsaCfg(f), b)
               /\ PredecessorSet(SsaCfg(h), b) \subseteq PredecessorSet(SsaCfg(f), b)
         /\ ReachableFrom(SsaCfg(h), 0) \subseteq ReachableFrom(SsaCfg(f), 0)
<1> DEFINE N == NodeIds(f)
<1>1. IsFunction(f) /\ f \in Shapes(f) /\ h \in Shapes(f) /\ 0 \in N
  BY VerifiedShape, FoldedFacts, VerifiedFacts
<1>2. /\ IsFunction(h) /\ NodeIds(h) = N /\ IsGraph(SsaCfg(h)) /\ NodeIds(SsaCfg(h)) = N
      /\ \A b \in N : SuccessorSet(SsaCfg(h), b) = ToSet(h.targets[b])
  BY <1>1, ShapeFacts
<1>3. IsGraph(SsaCfg(f)) /\ NodeIds(SsaCfg(f)) = N /\ \A b \in N : SuccessorSet(SsaCfg(f), b) = ToSet(f.targets[b])
  BY <1>1, ShapeFacts
<1>4. ASSUME NEW b \in N PROVE ToSet(h.targets[b]) \subseteq ToSet(f.targets[b])
  <2> DEFINE t == SoleTarget(f, ranges, b)
  <2>1. h.targets[b] = IF t # Nil THEN <<t>> ELSE f.targets[b]
    BY FoldedFacts
  <2>2. t # Nil => t \in ToSet(f.targets[b])
    BY SoleTargetFacts
  <2> HIDE DEF t
  <2>3. ToSet(<<t>>) = {t}
    BY DEF ToSet
  <2> QED  BY <2>1, <2>2, <2>3
<1>5. \A b \in N : SuccessorSet(SsaCfg(h), b) \subseteq SuccessorSet(SsaCfg(f), b)
  BY <1>2, <1>3, <1>4
<1>6. \A b \in N : PredecessorSet(SsaCfg(h), b) \subseteq PredecessorSet(SsaCfg(f), b)
  BY <1>2, <1>3, <1>5 DEF PredecessorSet
<1> DEFINE a == SsaCfg(h)
           c == SsaCfg(f)
           Y == ReachableFrom(c, 0)
<1>7. /\ 0 \in Y /\ \A w \in Y : SuccessorSet(c, w) \subseteq Y /\ w \in N
  BY <1>1, <1>3, ReachFacts
<1>8. IsGraph(a) /\ NodeIds(a) = N /\ \A b \in N : SuccessorSet(a, b) \subseteq SuccessorSet(c, b)
  BY <1>2, <1>5
<1> HIDE DEF a, c, Y
<1>9. ReachableFrom(a, 0) \subseteq Y
  <2>1. \A w \in ReachableFrom(a, 0) \cap Y : SuccessorSet(a, w) \subseteq Y
    BY <1>7, <1>8
  <2> QED  BY <1>1, <1>7, <1>8, <2>1, ReachFacts
<1> QED  BY <1>2, <1>5, <1>6, <1>9 DEF a, c, Y

(* What was defined before an instruction still is. *)
LEMMA FoldedBefore ==
  ASSUME NEW f, IsVerified(f), NEW ranges, NEW h, h = Folded(f, ranges),
         NEW b \in ReachableFrom(SsaCfg(h), 0), NEW k \in 1 .. Len(f.body[b]) + 1
  PROVE  DefinedBefore(f, b, k) \subseteq DefinedBefore(h, b, k)
<1> DEFINE N == NodeIds(f)
<1>1. /\ IsFunction(f) /\ f \in Shapes(f) /\ h \in Shapes(f) /\ HaveSameNames(f, h) /\ 0 \in N
      /\ IsGraph(SsaCfg(f)) /\ NodeIds(SsaCfg(f)) = N
  BY VerifiedShape, FoldedFacts, VerifiedFacts
<1>2. /\ NodeIds(h) = N /\ IsGraph(SsaCfg(h)) /\ NodeIds(SsaCfg(h)) = N
      /\ \A x \in N : SuccessorSet(SsaCfg(h), x) \subseteq SuccessorSet(SsaCfg(f), x)
  BY FoldedEdges
<1>3. b \in N
  BY <1>1, <1>2, ReachFacts
<1>4. h.initial = f.initial /\ \A x \in N : DefinedIn(h, x) = DefinedIn(f, x) /\ PhiResults(h, x) = PhiResults(f, x)
  BY <1>1, ShapeFacts, SameNames
<1>5. ASSUME NEW v, IsAbove(f, v, b) PROVE IsAbove(h, v, b)
  <2>1. CASE v \in f.initial.supplied
    BY <1>4, <2>1 DEF IsAbove
  <2>2. CASE \E d \in N \ {b} : v \in DefinedIn(f, d) /\ Dominates(SsaCfg(f), d, b)
    <3>1. PICK d \in N \ {b} : v \in DefinedIn(f, d) /\ Dominates(SsaCfg(f), d, b)
      BY <2>2
    <3>2. Dominates(SsaCfg(h), d, b)
      BY <1>1, <1>2, <3>1, DominanceShrinks
    <3> QED  BY <1>2, <1>4, <3>1, <3>2 DEF IsAbove
  <2> QED  BY <1>5, <2>1, <2>2 DEF IsAbove
<1>6. ASSUME NEW v \in DefinedBefore(f, b, k) PROVE v \in DefinedBefore(h, b, k)
  <2>1. IsAbove(f, v, b) \/ v \in PhiResults(f, b) \/ \E j \in 1 .. k - 1 : f.body[b][j].dest = v
    BY <1>3, <1>6, BeforeFacts
  <2>2. ASSUME NEW j \in 1 .. k - 1, f.body[b][j].dest = v PROVE h.body[b][j].dest = v
    <3>1. f.body[b] \in Seq(InstructionSet(f))
      BY <1>3, VerifiedFacts
    <3>2. j \in DOMAIN f.body[b]
      BY <3>1
    <3> QED  BY <1>1, <1>3, <2>2, <3>2 DEF HaveSameNames
  <2>3. IsAbove(h, v, b) \/ v \in PhiResults(h, b) \/ \E j \in 1 .. k - 1 : h.body[b][j].dest = v
    BY <1>3, <1>4, <1>5, <2>1, <2>2
  <2> QED  BY <1>2, <1>3, <2>3, BeforeFacts
<1> QED  BY <1>6

(* What is left of a phi. *)
LEMMA FoldedPhi ==
  ASSUME NEW f, IsVerified(f), NEW ranges, NEW h, h = Folded(f, ranges),
         NEW b \in ReachableFrom(SsaCfg(h), 0), NEW m \in DOMAIN f.phis[b]
  PROVE  /\ b # 0 /\ f.phis[b][m] \in ToSet(f.phis[b]) /\ h.phis[b][m].result = f.phis[b][m].result
         /\ ToSet(h.phis[b][m].operands) \subseteq ToSet(f.phis[b][m].operands)
         /\ \A o \in ToSet(h.phis[b][m].operands) : o.pred \in PredecessorSet(SsaCfg(h), b)
         /\ \A o \in ToSet(f.phis[b][m].operands) :
               o.pred \in PredecessorSet(SsaCfg(h), b) => o \in ToSet(h.phis[b][m].operands)
         /\ \A p \in PredecessorSet(SsaCfg(h), b) : \E o \in ToSet(h.phis[b][m].operands) : o.pred = p
<1> DEFINE phi == f.phis[b][m]
           psi == h.phis[b][m]
           Pred == PredecessorSet(SsaCfg(h), b)
           a == SsaCfg(h)
<1>1. b \in ReachableFrom(SsaCfg(f), 0) /\ b \in NodeIds(f) /\ Pred \subseteq PredecessorSet(SsaCfg(f), b)
  BY FoldedEdges, VerifiedFacts
<1>2. phi \in ToSet(f.phis[b])
  BY DEF ToSet
<1>3. IsPruned(f, h, b, phi, psi)
  BY <1>1, FoldedFacts
<1>4. b # 0
  <2> HIDE DEF phi
  <2> QED  BY <1>1, <1>2, OperandIsThere
<1>5. \E q : q \in Pred
  <2>1. IsGraph(a) /\ NodeIds(a) = NodeIds(f) /\ 0 \in NodeIds(a) /\ b \in ReachableFrom(a, 0)
    BY FoldedEdges, VerifiedFacts
  <2> HIDE DEF a
  <2> DEFINE Y == ReachableFrom(a, 0) \ {b}
  <2>2. 0 \in Y
    BY <1>4, <2>1, ReachFacts
  <2>3. ~(ReachableFrom(a, 0) \subseteq Y)
    BY <2>1
  <2>4. PICK w \in ReachableFrom(a, 0) \cap Y : ~(SuccessorSet(a, w) \subseteq Y)
    <3> HIDE DEF Y
    <3> QED  BY <2>1, <2>2, <2>3, ReachFacts
  <2>5. SuccessorSet(a, w) \subseteq ReachableFrom(a, 0) /\ w \in NodeIds(a)
    BY <2>1, <2>4, ReachFacts
  <2>6. b \in SuccessorSet(a, w)
    BY <2>4, <2>5
  <2> QED  BY <2>5, <2>6 DEF PredecessorSet, a
<1>6. \A p \in Pred : \E o \in ToSet(phi.operands) : o.pred = p
  <2> SUFFICES ASSUME NEW p \in Pred PROVE \E o \in ToSet(phi.operands) : o.pred = p
    OBVIOUS
  <2>1. p \in PredecessorSet(SsaCfg(f), b)
    BY <1>1
  <2> QED  BY <1>1, <1>2, <2>1, OperandFrom
<1>7. /\ psi.result = phi.result /\ ToSet(psi.operands) \subseteq ToSet(phi.operands)
      /\ \A o \in ToSet(phi.operands) : o.pred \in Pred => o \in ToSet(psi.operands)
      /\ \A q \in Pred : \A o \in ToSet(psi.operands) : o.pred \in Pred
  <2> HIDE DEF phi, psi
  <2> QED  BY <1>1, <1>3 DEF IsPruned
<1> HIDE DEF phi, psi, Pred
<1>8. /\ \A o \in ToSet(psi.operands) : o.pred \in Pred
      /\ \A p \in Pred : \E o \in ToSet(psi.operands) : o.pred = p
  BY <1>5, <1>6, <1>7
<1> QED  BY <1>2, <1>4, <1>7, <1>8 DEF phi, psi, Pred

(* The verifier accepts the folded function. *)
LEMMA FoldedVerified ==
  ASSUME NEW f, IsVerified(f), NEW ranges, NEW h, h = Folded(f, ranges)
  PROVE  IsVerified(h)
<1> DEFINE N == NodeIds(f)
<1>1. /\ IsFunction(f) /\ IsExecutable(f) /\ IsSingleAssignment(f) /\ IsStrict(f)
      /\ f \in Shapes(f) /\ h \in Shapes(f) /\ HaveSameNames(f, h) /\ 0 \in N
  BY VerifiedShape, FoldedFacts, VerifiedFacts
<1>2. /\ IsFunction(h) /\ NodeIds(h) = N /\ h.initial = f.initial
      /\ h.phis \in [N -> Seq(PhiSet(f))] /\ h.body \in [N -> Seq(InstructionSet(f))]
      /\ h = [count |-> h.count, targets |-> h.targets, clauses |-> h.clauses,
              initial |-> h.initial, phis |-> h.phis, body |-> h.body]
  BY <1>1, ShapeFacts
<1>3. /\ Variables(h) = Variables(f) /\ InstructionSet(h) = InstructionSet(f) /\ PhiSet(h) = PhiSet(f)
      /\ \A b \in N : /\ PhiResults(h, b) = PhiResults(f, b) /\ Dests(h, b) = Dests(f, b)
                      /\ DefinedIn(h, b) = DefinedIn(f, b)
  BY <1>1, SameNames
<1>4. \A b \in N : /\ f.body[b] \in Seq(InstructionSet(f)) /\ h.body[b] \in Seq(InstructionSet(f))
                   /\ f.phis[b] \in Seq(PhiSet(f)) /\ h.phis[b] \in Seq(PhiSet(f))
  BY <1>1, <1>2 DEF IsExecutable
<1>5. ASSUME NEW b \in N
      PROVE  /\ Len(h.body[b]) = Len(f.body[b]) /\ DOMAIN h.body[b] = DOMAIN f.body[b]
             /\ Len(h.phis[b]) = Len(f.phis[b]) /\ DOMAIN h.phis[b] = DOMAIN f.phis[b]
             /\ Len(f.body[b]) \in DOMAIN f.body[b] /\ f.body[b] # <<>>
  BY <1>1, <1>4 DEF HaveSameNames, IsExecutable
<1>6. ASSUME NEW b \in N, NEW k \in DOMAIN f.body[b]
      PROVE  /\ HasItsOperands(h.body[b][k])
             /\ IsTerminator(h.body[b][k]) <=> k = Len(f.body[b])
             /\ IsTerminator(h.body[b][k]) => h.body[b][k].dest = Nil
             /\ h.body[b][k].args \in {<<>>, f.body[b][k].args}
             /\ k = Len(f.body[b]) => h.body[b][k].targets = h.targets[b]
  <2> DEFINE t == SoleTarget(f, ranges, b)
             i == f.body[b][k]
  <2>1. /\ i \in InstructionSet(f) /\ HasItsOperands(i) /\ (IsTerminator(i) <=> k = Len(f.body[b]))
        /\ IsTerminator(i) => i.dest = Nil
    BY <1>1, <1>4 DEF IsExecutable
  <2>2. k = Len(f.body[b]) => i.targets = f.targets[b]
    BY <1>1 DEF IsExecutable, Terminator, Last
  <2>3. /\ h.body[b][k] = IF k = Len(f.body[b]) /\ t # Nil THEN Jump(t) ELSE Simpler(ranges, i)
        /\ h.targets[b] = IF t # Nil THEN <<t>> ELSE f.targets[b]
    BY FoldedFacts DEF FoldedInstruction
  <2>4. t # Nil => t \in N
    BY SoleTargetFacts
  <2> HIDE DEF t, i
  <2>5. CASE k = Len(f.body[b]) /\ t # Nil
    <3>1. h.body[b][k] = Jump(t) /\ h.targets[b] = <<t>> /\ t \in N
      BY <2>3, <2>4, <2>5
    <3>2. /\ HasItsOperands(Jump(t)) /\ IsTerminator(Jump(t)) /\ Jump(t).dest = Nil
          /\ Jump(t).args = <<>> /\ Jump(t).targets = <<t>>
      BY <3>1, JumpFacts
    <3> QED  BY <2>5, <3>1, <3>2
  <2>6. CASE ~(k = Len(f.body[b]) /\ t # Nil)
    <3>1. h.body[b][k] = Simpler(ranges, i)
      BY <2>3, <2>6
    <3>2. /\ HasItsOperands(Simpler(ranges, i)) /\ Simpler(ranges, i).dest = i.dest
          /\ IsTerminator(Simpler(ranges, i)) <=> IsTerminator(i)
          /\ IsTerminator(i) => Simpler(ranges, i) = i
          /\ Simpler(ranges, i) = i \/ Simpler(ranges, i).args = <<>>
      BY <2>1, SimplerFacts
    <3>3. k = Len(f.body[b]) => h.targets[b] = f.targets[b]
      BY <2>3, <2>6
    <3> QED  BY <2>1, <2>2, <3>1, <3>2, <3>3 DEF i
  <2> QED  BY <2>5, <2>6
<1>7. IsExecutable(h)
  <2>1. Nil \notin Variables(h)
    BY <1>1, <1>3 DEF IsExecutable
  <2>2. ASSUME NEW b \in N
        PROVE  /\ h.body[b] # <<>>
               /\ \A k \in DOMAIN h.body[b] :
                     /\ HasItsOperands(h.body[b][k])
                     /\ IsTerminator(h.body[b][k]) <=> k = Len(h.body[b])
                     /\ IsTerminator(h.body[b][k]) => h.body[b][k].dest = Nil
               /\ Terminator(h, b).targets = h.targets[b]
    <3>1. h.body[b] # <<>>
      BY <1>4, <1>5
    <3>2. Terminator(h, b).targets = h.targets[b]
      BY <1>5, <1>6 DEF Terminator, Last
    <3> QED  BY <1>5, <1>6, <3>1, <3>2
  <2> QED  BY <1>2, <1>3, <2>1, <2>2 DEF IsExecutable
<1>8. IsSingleAssignment(h)
  <2>4. \A b, c \in N : \A k \in DOMAIN f.body[b], l \in DOMAIN f.body[c] :
           f.body[b][k].dest = f.body[c][l].dest /\ f.body[b][k].dest # Nil => b = c /\ k = l
    BY <1>1, Zenon DEF IsSingleAssignment
  <2>5. \A b, c \in N : \A k \in DOMAIN f.phis[b], l \in DOMAIN f.phis[c] :
           f.phis[b][k].result = f.phis[c][l].result => b = c /\ k = l
    BY <1>1, Zenon DEF IsSingleAssignment
  <2>1. ASSUME NEW b \in N, NEW c \in N, NEW k \in DOMAIN h.body[b], NEW l \in DOMAIN h.body[c],
               h.body[b][k].dest = h.body[c][l].dest, h.body[b][k].dest # Nil
        PROVE  b = c /\ k = l
    <3>1. h.body[b][k].dest = f.body[b][k].dest /\ h.body[c][l].dest = f.body[c][l].dest
          /\ k \in DOMAIN f.body[b] /\ l \in DOMAIN f.body[c]
      BY <1>1, <1>5 DEF HaveSameNames
    <3>2. f.body[b][k].dest = f.body[c][l].dest /\ f.body[b][k].dest # Nil
      BY <2>1, <3>1
    <3> QED  BY <2>4, <3>1, <3>2
  <2>2. ASSUME NEW b \in N, NEW c \in N, NEW k \in DOMAIN h.phis[b], NEW l \in DOMAIN h.phis[c],
               h.phis[b][k].result = h.phis[c][l].result
        PROVE  b = c /\ k = l
    <3>1. h.phis[b][k].result = f.phis[b][k].result /\ h.phis[c][l].result = f.phis[c][l].result
          /\ k \in DOMAIN f.phis[b] /\ l \in DOMAIN f.phis[c]
      BY <1>1, <1>5 DEF HaveSameNames
    <3>2. f.phis[b][k].result = f.phis[c][l].result
      BY <2>2, <3>1
    <3> QED  BY <2>5, <3>1, <3>2
  <2>3. \A b, c \in N : PhiResults(h, b) \cap Dests(h, c) = {} /\ h.initial.supplied \cap DefinedIn(h, b) = {}
    BY <1>1, <1>2, <1>3 DEF IsSingleAssignment
  <2> QED  BY <1>2, <2>1, <2>2, <2>3 DEF IsSingleAssignment
<1>9. IsStrict(h)
  <2>1. h.phis[0] = <<>>
    <3>1. f.phis[0] = <<>>
      BY <1>1 DEF IsStrict
    <3> QED  BY <1>1, <1>4, <1>5, <3>1
  <2> SUFFICES ASSUME NEW b \in ReachableFrom(SsaCfg(h), 0)
               PROVE  /\ \A k \in DOMAIN h.body[b] : ToSet(h.body[b][k].args) \subseteq DefinedBefore(h, b, k)
                      /\ \A psi \in ToSet(h.phis[b]) :
                            /\ {o.pred : o \in ToSet(psi.operands)} = PredecessorSet(SsaCfg(h), b)
                            /\ \A o, p \in ToSet(psi.operands) : o.pred = p.pred => o = p
                            /\ \A o \in ToSet(psi.operands) :
                                  o.pred \in ReachableFrom(SsaCfg(h), 0)
                                      => o.value \in DefinedBefore(h, o.pred, Len(h.body[o.pred]) + 1)
    BY <2>1 DEF IsStrict
  <2>2. b \in ReachableFrom(SsaCfg(f), 0) /\ b \in N /\ ReachableFrom(SsaCfg(h), 0) \subseteq ReachableFrom(SsaCfg(f), 0)
    BY FoldedEdges, VerifiedFacts
  <2>3. ASSUME NEW k \in DOMAIN h.body[b] PROVE ToSet(h.body[b][k].args) \subseteq DefinedBefore(h, b, k)
    <3>1. k \in DOMAIN f.body[b]
      BY <1>5, <2>2
    <3>2. CASE h.body[b][k].args = <<>>
      BY <3>2 DEF ToSet
    <3>3. CASE h.body[b][k].args = f.body[b][k].args
      <4>1. ToSet(f.body[b][k].args) \subseteq DefinedBefore(f, b, k)
        BY <1>1, <2>2, <3>1 DEF IsStrict
      <4>2. k \in 1 .. Len(f.body[b]) + 1
        BY <1>4, <2>2, <3>1
      <4>3. DefinedBefore(f, b, k) \subseteq DefinedBefore(h, b, k)
        BY <4>2, FoldedBefore
      <4> QED  BY <3>3, <4>1, <4>3
    <3> QED  BY <1>6, <2>2, <3>1, <3>2, <3>3
  <2>4. ASSUME NEW psi \in ToSet(h.phis[b])
        PROVE  /\ {o.pred : o \in ToSet(psi.operands)} = PredecessorSet(SsaCfg(h), b)
               /\ \A o, p \in ToSet(psi.operands) : o.pred = p.pred => o = p
               /\ \A o \in ToSet(psi.operands) :
                     o.pred \in ReachableFrom(SsaCfg(h), 0)
                         => o.value \in DefinedBefore(h, o.pred, Len(h.body[o.pred]) + 1)
    <3>1. PICK m \in DOMAIN h.phis[b] : psi = h.phis[b][m]
      BY DEF ToSet
    <3>2. m \in DOMAIN f.phis[b]
      BY <1>5, <2>2, <3>1
    <3>3. PICK phi : phi = f.phis[b][m]
      OBVIOUS
    <3>4. /\ phi \in ToSet(f.phis[b]) /\ ToSet(psi.operands) \subseteq ToSet(phi.operands)
          /\ \A o \in ToSet(psi.operands) : o.pred \in PredecessorSet(SsaCfg(h), b)
          /\ \A p \in PredecessorSet(SsaCfg(h), b) : \E o \in ToSet(psi.operands) : o.pred = p
      <4>1. /\ f.phis[b][m] \in ToSet(f.phis[b])
            /\ ToSet(h.phis[b][m].operands) \subseteq ToSet(f.phis[b][m].operands)
            /\ \A o \in ToSet(h.phis[b][m].operands) : o.pred \in PredecessorSet(SsaCfg(h), b)
            /\ \A p \in PredecessorSet(SsaCfg(h), b) : \E o \in ToSet(h.phis[b][m].operands) : o.pred = p
        BY <3>2, FoldedPhi
      <4> QED  BY <4>1, <3>1, <3>3
    <3>5. {o.pred : o \in ToSet(psi.operands)} = PredecessorSet(SsaCfg(h), b)
      BY <3>4
    <3>6. \A o, p \in ToSet(psi.operands) : o.pred = p.pred => o = p
      BY <2>2, <3>4, OperandIsThere
    <3>7. ASSUME NEW o \in ToSet(psi.operands), o.pred \in ReachableFrom(SsaCfg(h), 0)
          PROVE  o.value \in DefinedBefore(h, o.pred, Len(h.body[o.pred]) + 1)
      <4>1. PICK q : q = o.pred
        OBVIOUS
      <4>2. q \in ReachableFrom(SsaCfg(f), 0) /\ q \in N
        BY <2>2, <3>7, <4>1, VerifiedFacts
      <4>3. o.value \in DefinedBefore(f, q, Len(f.body[q]) + 1)
        BY <1>1, <2>2, <3>4, <4>1, <4>2 DEF IsStrict
      <4>4. Len(f.body[q]) + 1 \in 1 .. Len(f.body[q]) + 1
        BY <1>4, <4>2
      <4>5. DefinedBefore(f, q, Len(f.body[q]) + 1) \subseteq DefinedBefore(h, q, Len(f.body[q]) + 1)
        BY <3>7, <4>1, <4>4, FoldedBefore
      <4>6. Len(h.body[q]) = Len(f.body[q])
        BY <1>5, <4>2
      <4> QED  BY <4>1, <4>3, <4>5, <4>6
    <3> QED  BY <3>5, <3>6, <3>7
  <2> QED  BY <2>3, <2>4
<1> QED  BY <1>2, <1>7, <1>8, <1>9 DEF IsVerified

-----------------------------------------------------------------------------
(* What is folded does what it did *)

(* A range that allows a value bounds it. *)
LEMMA WithinBounds ==
  ASSUME NEW range \in RangeFacts, NEW x \in NoMin .. NoMax, AllowsRange(range, x)
  PROVE  /\ MinOf(range) \in Int /\ MaxOf(range) \in Int /\ MinOf(range) <= x /\ x <= MaxOf(range)
         /\ IsConstant(range) => x = ValueOf(range)
<1>1. range # Bottom /\ NoMin \in Int /\ NoMax \in Int
  BY IntervalFacts DEF NoMin, NoMax
<1>2. CASE range = Top
  <2>1. MinOf(range) = NoMin /\ MaxOf(range) = NoMax /\ ~IsConstant(range)
    BY <1>2 DEF MinOf, MaxOf, Top, IsConstant
  <2> QED  BY <1>1, <2>1
<1>3. CASE range # Top
  <2>1. PICK p \in Int, q \in Int : range = Interval(p, q)
    BY <1>1, <1>3 DEF RangeFacts
  <2>2. /\ MinOf(range) = p /\ MaxOf(range) = q /\ p <= x /\ x <= q
        /\ IsConstant(range) <=> p = q
        /\ ValueOf(range) = p
    BY <2>1, IntervalFacts DEF MinOf, MaxOf
  <2>3. x \in Int
    BY <1>1
  <2> HIDE DEF NoMin, NoMax
  <2> QED  BY <2>1, <2>2, <2>3
<1> QED  BY <1>2, <1>3

(* try_simplify_comparison is right of a comparison that is not unsigned. *)
LEMMA DecidedIsRight ==
  ASSUME NEW ranges, NEW i, i.op \in {"clt", "ceq"},
         NEW l, l = ranges[i.args[1]], NEW m, m = ranges[i.args[2]],
         l \in RangeFacts, m \in RangeFacts,
         NEW x \in NoMin .. NoMax, NEW y \in NoMin .. NoMax, AllowsRange(l, x), AllowsRange(m, y),
         Decided(ranges, i) # Nil, NEW value
  PROVE  Computed(i.op, value, x, y) = {Decided(ranges, i)}
<1>1. /\ MinOf(l) \in Int /\ MaxOf(l) \in Int /\ MinOf(l) <= x /\ x <= MaxOf(l)
      /\ IsConstant(l) => x = ValueOf(l)
      /\ MinOf(m) \in Int /\ MaxOf(m) \in Int /\ MinOf(m) <= y /\ y <= MaxOf(m)
      /\ IsConstant(m) => y = ValueOf(m)
  BY WithinBounds
<1>2. x \in Int /\ y \in Int
  <2>1. \A z \in NoMin .. NoMax : z \in Int
    OBVIOUS
  <2> QED  BY <2>1
<1>3. CASE i.op = "ceq"
  <2>1. Computed(i.op, value, x, y) = {Truth(x = y)}
    BY <1>3 DEF Computed
  <2>2. CASE IsConstant(l) /\ IsConstant(m)
    <3>1. Decided(ranges, i) = Truth(x = y) \/ (Decided(ranges, i) = 0 /\ ~Overlap(l, m))
      BY <1>1, <1>3, <2>2 DEF Decided
    <3>2. ASSUME ~Overlap(l, m) PROVE x # y
      <4>1. l # Bottom /\ m # Bottom
        BY IntervalFacts
      <4>2. ~(MaxOf(l) >= MinOf(m) /\ MinOf(l) <= MaxOf(m))
        BY <3>2, <4>1 DEF Overlap
      <4> QED  BY <1>1, <1>2, <4>2
    <3> QED  BY <2>1, <3>1, <3>2 DEF Truth
  <2>3. CASE ~(IsConstant(l) /\ IsConstant(m))
    <3>1. Decided(ranges, i) = 0 /\ ~Overlap(l, m)
      BY <1>3, <2>3 DEF Decided
    <3>2. l # Bottom /\ m # Bottom
      BY IntervalFacts
    <3>3. ~(MaxOf(l) >= MinOf(m) /\ MinOf(l) <= MaxOf(m))
      BY <3>1, <3>2 DEF Overlap
    <3>4. x # y
      BY <1>1, <1>2, <3>3
    <3> QED  BY <2>1, <3>1, <3>4 DEF Truth
  <2> QED  BY <2>2, <2>3
<1>4. CASE i.op = "clt"
  <2>1. Computed(i.op, value, x, y) = {Truth(x < y)}
    BY <1>4 DEF Computed
  <2>2. Decided(ranges, i) = IF MaxOf(l) < MinOf(m) THEN 1 ELSE IF MinOf(l) >= MaxOf(m) THEN 0 ELSE Nil
    BY <1>1, <1>4 DEF Decided
  <2>3. CASE MaxOf(l) < MinOf(m)
    <3>1. x < y
      BY <1>1, <1>2, <2>3
    <3> QED  BY <2>1, <2>2, <2>3, <3>1 DEF Truth
  <2>4. CASE ~(MaxOf(l) < MinOf(m)) /\ MinOf(l) >= MaxOf(m)
    <3>1. ~(x < y)
      BY <1>1, <1>2, <2>4
    <3> QED  BY <2>1, <2>2, <2>4, <3>1 DEF Truth
  <2> QED  BY <2>2, <2>3, <2>4
<1> QED  BY <1>3, <1>4

(* The values the ranges allow. *)
Allowed(f, ranges, e) ==
    /\ ranges \in [Variables(f) -> RangeFacts] /\ e \in Environments(f)
    /\ \A v \in DOMAIN e : AllowsRange(ranges[v], e[v])

(* A folded comparison computes what the comparison would. *)
LEMMA SimplerComputes ==
  ASSUME NEW f, NEW ranges, NEW e, Allowed(f, ranges, e),
         NEW i \in InstructionSet(f), HasItsOperands(i), i.op # "clt_un", ToSet(i.args) \subseteq DOMAIN e
  PROVE  Execute(Simpler(ranges, i), e) = Execute(i, e)
<1>1. CASE ~(IsComparison(i.op) /\ Decided(ranges, i) # Nil)
  BY <1>1 DEF Simpler
<1>2. CASE IsComparison(i.op) /\ Decided(ranges, i) # Nil
  <2> DEFINE c == Decided(ranges, i)
             j == Instruction("const", i.dest, <<>>, c)
             x == e[i.args[1]]
             y == e[i.args[2]]
  <2>1. Simpler(ranges, i) = j
    BY <1>2 DEF Simpler
  <2>2. j.op = "const" /\ j.dest = i.dest /\ j.args = <<>> /\ j.value = c
    BY DEF Instruction
  <2>3. i.op \in {"clt", "ceq"}
    BY <1>2 DEF IsComparison
  <2>4. i.args \in Seq(Variables(f)) /\ Len(i.args) = 2
    BY <2>3 DEF InstructionSet, HasItsOperands
  <2>5. i.args[1] \in ToSet(i.args) /\ i.args[2] \in ToSet(i.args) /\ {1, 2} \subseteq DOMAIN i.args
    BY <2>4 DEF ToSet
  <2>6. /\ i.args[1] \in DOMAIN e /\ i.args[2] \in DOMAIN e /\ DOMAIN e \subseteq Variables(f)
        /\ \A v \in DOMAIN e : e[v] \in NoMin .. NoMax
    BY <2>5, EnvironmentFacts DEF Allowed
  <2>7. /\ ranges[i.args[1]] \in RangeFacts /\ ranges[i.args[2]] \in RangeFacts
        /\ AllowsRange(ranges[i.args[1]], x) /\ AllowsRange(ranges[i.args[2]], y)
    BY <2>6 DEF Allowed
  <2>8. x \in NoMin .. NoMax /\ y \in NoMin .. NoMax
    BY <2>6
  <2> HIDE DEF x, y
  <2>9. Computed(i.op, i.value, x, y) = {c}
    BY <1>2, <2>3, <2>7, <2>8, DecidedIsRight
  <2>10. \A u, w : Computed("const", c, u, w) = {c}
    BY DEF Computed
  <2> HIDE DEF c
  <2> DEFINE Result(d, C) ==
                 IF d = Nil THEN {e}
                 ELSE {[v \in DOMAIN e \cup {d} |-> IF v = d THEN z ELSE e[v]] : z \in C}
  <2>11. Execute(i, e) = Result(i.dest, Computed(i.op, i.value, x, y))
    BY <2>5, Zenon DEF Execute, x, y
  <2>12. ToSet(<<>>) = {}
    BY DEF ToSet
  <2> HIDE DEF j
  <2>13. Execute(j, e) = Result(i.dest, {c})
    <3> DEFINE u == IF 1 \in DOMAIN j.args THEN e[j.args[1]] ELSE 0
               w == IF 2 \in DOMAIN j.args THEN e[j.args[2]] ELSE 0
    <3>1. ToSet(j.args) \subseteq DOMAIN e
      BY <2>2, <2>12
    <3>2. Execute(j, e) = Result(j.dest, Computed(j.op, j.value, u, w))
      BY <3>1, Zenon DEF Execute
    <3> HIDE DEF u, w, Result
    <3>3. Computed(j.op, j.value, u, w) = {c}
      BY <2>2, <2>10
    <3> QED  BY <2>2, <3>2, <3>3
  <2> HIDE DEF Result
  <2> QED  BY <2>1, <2>9, <2>11, <2>13
<1> QED  BY <1>1, <1>2

(* Every instruction does what it did ... *)
LEMMA FoldedExecutes ==
  ASSUME NEW f, IsVerified(f), Signed(f), NEW ranges, NEW h, h = Folded(f, ranges),
         NEW b \in NodeIds(f), NEW k \in DOMAIN f.body[b],
         NEW e, Allowed(f, ranges, e), ToSet(f.body[b][k].args) \subseteq DOMAIN e
  PROVE  Execute(h.body[b][k], e) = Execute(f.body[b][k], e)
<1> DEFINE i == f.body[b][k]
           t == SoleTarget(f, ranges, b)
<1>1. IsExecutable(f) /\ i \in ToSet(f.body[b])
  BY DEF IsVerified, ToSet
<1>2. i \in InstructionSet(f) /\ HasItsOperands(i)
  <2> HIDE DEF i
  <2> QED  BY <1>1, InstructionFacts
<1>3. i.op # "clt_un"
  <2> HIDE DEF i
  <2> QED  BY <1>1 DEF Signed, Instructions
<1>4. /\ h.body[b][k] = IF k = Len(f.body[b]) /\ t # Nil THEN Jump(t) ELSE Simpler(ranges, i)
      /\ k = Len(f.body[b]) => i.dest = Nil
  <2>1. h.body[b][k] = FoldedInstruction(f, ranges, b, k)
    BY FoldedFacts
  <2>2. IsTerminator(f.body[b][k]) <=> k = Len(f.body[b])
    BY <1>1 DEF IsExecutable
  <2>3. IsTerminator(f.body[b][k]) => f.body[b][k].dest = Nil
    BY <1>1 DEF IsExecutable
  <2> QED  BY <2>1, <2>2, <2>3, Zenon DEF FoldedInstruction
<1>5. t # Nil => t \in NodeIds(f)
  BY SoleTargetFacts
<1>6. ToSet(i.args) \subseteq DOMAIN e
  OBVIOUS
<1> HIDE DEF i, t
<1>7. CASE k = Len(f.body[b]) /\ t # Nil
  <2> DEFINE j == Jump(t)
  <2>1. j.dest = Nil /\ j.args = <<>>
    BY <1>5, <1>7, JumpFacts
  <2> HIDE DEF j
  <2>2. ToSet(j.args) \subseteq DOMAIN e
    BY <2>1 DEF ToSet
  <2>3. Execute(j, e) = {e} /\ Execute(i, e) = {e}
    BY <1>4, <1>6, <1>7, <2>1, <2>2, Zenon DEF Execute
  <2> QED  BY <1>4, <1>7, <2>3 DEF i, j
<1>8. CASE ~(k = Len(f.body[b]) /\ t # Nil)
  <2>1. Execute(Simpler(ranges, i), e) = Execute(i, e)
    BY <1>2, <1>3, <1>6, SimplerComputes
  <2> QED  BY <1>4, <1>8, <2>1 DEF i
<1> QED  BY <1>7, <1>8

(* ... and every terminator leads where it led. *)
LEMMA FoldedLeads ==
  ASSUME NEW f, IsVerified(f), NEW ranges, NEW h, h = Folded(f, ranges),
         NEW b \in NodeIds(f), NEW e, Allowed(f, ranges, e), ToSet(Terminator(f, b).args) \subseteq DOMAIN e
  PROVE  Target(Terminator(h, b), e) = Target(Terminator(f, b), e)
<1> DEFINE i == Terminator(f, b)
           j == Terminator(h, b)
           t == SoleTarget(f, ranges, b)
<1>1. IsExecutable(f) /\ f.body[b] \in Seq(InstructionSet(f)) /\ f.body[b] # <<>>
  BY DEF IsVerified, IsExecutable
<1>2. /\ Len(h.body[b]) = Len(f.body[b]) /\ Len(f.body[b]) \in DOMAIN f.body[b]
      /\ i = f.body[b][Len(f.body[b])] /\ j = h.body[b][Len(f.body[b])]
  BY <1>1, FoldedFacts DEF HaveSameNames, Terminator, Last
<1>3. i \in InstructionSet(f) /\ HasItsOperands(i) /\ IsTerminator(i)
  BY <1>1, <1>2 DEF IsExecutable
<1>4. j = IF t # Nil THEN Jump(t) ELSE i
  <2>1. j = FoldedInstruction(f, ranges, b, Len(f.body[b]))
    <3>1. ASSUME NEW k \in DOMAIN f.body[b] PROVE h.body[b][k] = FoldedInstruction(f, ranges, b, k)
      <4>1. IsVerified(f) /\ h = Folded(f, ranges) /\ b \in NodeIds(f)
        OBVIOUS
      <4> QED  BY ONLY <3>1, <4>1, FoldedFacts
    <3> HIDE DEF i, j
    <3> QED  BY <1>2, <3>1
  <2>2. Simpler(ranges, i) = i
    BY <1>3, SimplerFacts
  <2> QED  BY <1>2, <2>1, <2>2 DEF FoldedInstruction
<1>5. CASE t = Nil
  BY <1>4, <1>5
<1>6. CASE t # Nil
  <2> DEFINE range == ranges[i.args[1]]
             x == e[i.args[1]]
  <2>1. i.op = "branch" /\ t \in NodeIds(f)
    BY <1>6, SoleTargetFacts
  <2>2. t = IF range \in {Interval(0, 0), Bottom} THEN i.targets[2]
            ELSE IF IsConstant(range) THEN i.targets[1] ELSE Nil
    BY <2>1 DEF SoleTarget
  <2> HIDE DEF i, j, t
  <2>3. i.args \in Seq(Variables(f)) /\ Len(i.args) = 1
    BY <1>3, <2>1 DEF InstructionSet, HasItsOperands
  <2>4. i.args[1] \in DOMAIN e /\ DOMAIN e \subseteq Variables(f) /\ \A v \in DOMAIN e : e[v] \in NoMin .. NoMax
    BY <2>3, EnvironmentFacts DEF Allowed, ToSet, i
  <2>5. range \in RangeFacts /\ AllowsRange(range, x) /\ x \in NoMin .. NoMax
    BY <2>4 DEF Allowed
  <2>6. Target(i, e) = IF x # 0 THEN i.targets[1] ELSE i.targets[2]
    BY <2>1 DEF Target
  <2>7. Target(j, e) = t
    BY <1>4, <1>6, <2>1, JumpFacts DEF Target
  <2> HIDE DEF range, x
  <2>8. range # Bottom
    BY <2>5, IntervalFacts
  <2>9. CASE range = Interval(0, 0)
    <3>1. IsConstant(range) /\ ValueOf(range) = 0
      BY <2>9, IntervalFacts
    <3>2. x = 0
      BY <2>5, <3>1, WithinBounds
    <3> QED  BY <2>2, <2>6, <2>7, <2>9, <3>2 DEF i, j
  <2>10. CASE range # Interval(0, 0)
    <3>1. IsConstant(range) /\ t = i.targets[1]
      BY <1>6, <2>2, <2>8, <2>10
    <3>2. range # Top
      BY <3>1 DEF IsConstant, Top
    <3>3. PICK p \in Int, q \in Int : range = Interval(p, q)
      BY <2>5, <2>8, <3>2 DEF RangeFacts
    <3>4. p = q /\ ValueOf(range) = p
      BY <3>1, <3>3, IntervalFacts
    <3>5. x = p
      BY <2>5, <3>1, <3>4, WithinBounds
    <3>6. x # 0
      BY <2>10, <3>3, <3>4, <3>5
    <3> QED  BY <2>6, <2>7, <3>1, <3>6 DEF i, j
  <2> QED  BY <2>9, <2>10
<1> QED  BY <1>5, <1>6

(* The phis take what they took. *)
LEMMA FoldedEnters ==
  ASSUME NEW f, IsVerified(f), NEW ranges, NEW h, h = Folded(f, ranges),
         NEW r, ExecInv(h, r), r.at # Nil, CanEnter(h, r)
  PROVE  CanEnter(f, r) /\ EnterBlock(f, r) = EnterBlock(h, r)
<1> DEFINE b == r.at
           p == r.from
           a == SsaCfg(h)
<1>1. /\ b \in ReachableFrom(a, 0) /\ (p = Nil => b = 0)
      /\ p # Nil => p \in ReachableFrom(a, 0) /\ b \in SuccessorSet(a, p)
  BY DEF ExecInv
<1>2. b \in ReachableFrom(SsaCfg(f), 0) /\ b \in NodeIds(f) /\ ReachableFrom(a, 0) \subseteq NodeIds(f)
  BY <1>1, FoldedEdges, VerifiedFacts
<1>3. IsVerified(h) /\ OneOperand(h, b) /\ OneOperand(f, b)
  BY <1>1, <1>2, FoldedVerified, VerifiedOneOperand
<1>4. /\ h \in Shapes(f) /\ HaveSameNames(f, h) /\ f \in Shapes(f) /\ IsFunction(f)
      /\ f.phis[b] \in Seq(PhiSet(f)) /\ h.phis[b] \in Seq(PhiSet(h))
  BY <1>2, <1>3, FoldedFacts, VerifiedShape, VerifiedFacts, ShapeFacts, FoldedEdges
<1>5. PhiResults(h, b) = PhiResults(f, b) /\ DOMAIN h.phis[b] = DOMAIN f.phis[b]
  <2>1. /\ IsFunction(f) /\ f \in Shapes(f) /\ h \in Shapes(f) /\ HaveSameNames(f, h)
        /\ b \in NodeIds(f) /\ f.phis[b] \in Seq(PhiSet(f)) /\ h.phis[b] \in Seq(PhiSet(h))
    BY <1>2, <1>4
  <2> HIDE DEF b
  <2>2. PhiResults(h, b) = PhiResults(f, b)
    BY ONLY <2>1, SameNames
  <2>3. Len(h.phis[b]) = Len(f.phis[b])
    BY ONLY <2>1 DEF HaveSameNames
  <2>4. DOMAIN h.phis[b] = 1 .. Len(h.phis[b]) /\ DOMAIN f.phis[b] = 1 .. Len(f.phis[b])
    BY ONLY <2>1
  <2> QED  BY ONLY <2>2, <2>3, <2>4
<1>6. ASSUME NEW phi \in ToSet(f.phis[b])
      PROVE  \E psi \in ToSet(h.phis[b]) :
                psi.result = phi.result /\ \A o : o \in OperandsFrom(phi, p) <=> o \in OperandsFrom(psi, p)
  <2>1. PICK m \in DOMAIN f.phis[b] : phi = f.phis[b][m]
    BY DEF ToSet
  <2>2. PICK psi : psi = h.phis[b][m]
    OBVIOUS
  <2>3. /\ b # 0 /\ psi.result = phi.result /\ ToSet(psi.operands) \subseteq ToSet(phi.operands)
        /\ \A o \in ToSet(phi.operands) : o.pred \in PredecessorSet(a, b) => o \in ToSet(psi.operands)
    <3> DEFINE c == b
    <3>1. phi = f.phis[c][m] /\ psi = h.phis[c][m]
      BY <2>1, <2>2
    <3>3. c \in ReachableFrom(SsaCfg(h), 0) /\ m \in DOMAIN f.phis[c]
      BY <1>1, <2>1
    <3> SUFFICES /\ c # 0 /\ psi.result = phi.result /\ ToSet(psi.operands) \subseteq ToSet(phi.operands)
                 /\ \A o \in ToSet(phi.operands) :
                       o.pred \in PredecessorSet(SsaCfg(h), c) => o \in ToSet(psi.operands)
      OBVIOUS
    <3> HIDE DEF c
    <3>2. /\ c # 0 /\ h.phis[c][m].result = f.phis[c][m].result
          /\ ToSet(h.phis[c][m].operands) \subseteq ToSet(f.phis[c][m].operands)
          /\ \A o \in ToSet(f.phis[c][m].operands) :
                o.pred \in PredecessorSet(SsaCfg(h), c) => o \in ToSet(h.phis[c][m].operands)
      <4>1. IsVerified(f) /\ h = Folded(f, ranges)
        OBVIOUS
      <4>2. c # 0 /\ h.phis[c][m].result = f.phis[c][m].result
        BY ONLY <3>3, <4>1, FoldedPhi
      <4>3. ToSet(h.phis[c][m].operands) \subseteq ToSet(f.phis[c][m].operands)
        BY ONLY <3>3, <4>1, FoldedPhi
      <4>4. ASSUME NEW o \in ToSet(f.phis[c][m].operands), o.pred \in PredecessorSet(SsaCfg(h), c)
            PROVE  o \in ToSet(h.phis[c][m].operands)
        BY ONLY <3>3, <4>1, <4>4, FoldedPhi
      <4> QED  BY ONLY <4>2, <4>3, <4>4
    <3> QED  BY <3>1, <3>2
  <2>4. psi \in ToSet(h.phis[b])
    BY <1>5, <2>1, <2>2 DEF ToSet
  <2>5. p \in PredecessorSet(a, b)
    BY <1>1, <1>2, <2>3, FoldedEdges DEF PredecessorSet
  <2>6. \A o : o \in OperandsFrom(phi, p) <=> o \in OperandsFrom(psi, p)
    BY <2>3, <2>5 DEF OperandsFrom
  <2> QED  BY <2>3, <2>4, <2>6
<1>7. CanEnter(f, r)
  <2> SUFFICES ASSUME NEW phi \in ToSet(f.phis[b])
               PROVE  /\ OperandsFrom(phi, p) # {}
                      /\ \A o \in OperandsFrom(phi, p) : o.value \in DOMAIN r.env
    BY DEF CanEnter
  <2>1. PICK psi \in ToSet(h.phis[b]) :
           psi.result = phi.result /\ \A o : o \in OperandsFrom(phi, p) <=> o \in OperandsFrom(psi, p)
    BY <1>6
  <2>2. OperandsFrom(psi, p) # {} /\ \A o \in OperandsFrom(psi, p) : o.value \in DOMAIN r.env
    BY DEF CanEnter
  <2> QED  BY <2>1, <2>2
<1> DEFINE e == EnterBlock(f, r)
           c == EnterBlock(h, r)
           R == PhiResults(f, b)
<1>8. IsMap(e) /\ IsMap(c) /\ DOMAIN e = R \cup DOMAIN r.env /\ DOMAIN c = R \cup DOMAIN r.env
  BY <1>5, EnterValues
<1>9. ASSUME NEW v \in R PROVE e[v] = c[v]
  <2>1. PICK phi \in ToSet(f.phis[b]) : phi.result = v
    BY DEF PhiResults
  <2>2. PICK psi \in ToSet(h.phis[b]) :
           psi.result = phi.result /\ \A o : o \in OperandsFrom(phi, p) <=> o \in OperandsFrom(psi, p)
    BY <1>6
  <2>3. PICK o : o \in OperandsFrom(phi, p)
    BY <1>7 DEF CanEnter
  <2>4. EnterBlock(f, r)[phi.result] = r.env[o.value]
    BY <1>3, <2>3, EnterPhi
  <2>5. EnterBlock(h, r)[psi.result] = r.env[o.value]
    BY <1>3, <2>2, <2>3, EnterPhi
  <2> QED  BY <2>1, <2>2, <2>4, <2>5
<1>10. ASSUME NEW v \in DOMAIN r.env \ R PROVE e[v] = c[v]
  <2>1. EnterBlock(f, r)[v] = r.env[v]
    BY EnterOther
  <2>2. EnterBlock(h, r)[v] = r.env[v]
    BY <1>5, EnterOther
  <2> QED  BY <2>1, <2>2
<1> HIDE DEF e, c, R
<1>11. e = c
  <2>1. e = [v \in DOMAIN e |-> e[v]] /\ c = [v \in DOMAIN c |-> c[v]] /\ DOMAIN e = DOMAIN c
    BY <1>8 DEF IsMap
  <2>2. \A v \in DOMAIN e : e[v] = c[v]
    BY <1>8, <1>9, <1>10
  <2> QED  BY <2>1, <2>2
<1> QED  BY <1>7, <1>11 DEF e, c

(* What is allowed, in the two ways it is said. *)
LEMMA AllowedExplained ==
  ASSUME NEW f, NEW s, s.facts \in [Variables(f) -> RangeFacts], NEW e
  PROVE  Allowed(f, s.facts, e) <=> e \in Environments(f) /\ e \in Explained(f, "ranges", s)
<1>1. \A n \in NoMin .. NoMax : n \in Int
  OBVIOUS
<1>2. \A v : Allows("ranges", s.facts[v], e[v]) <=> AllowsRange(s.facts[v], e[v])
  BY DEF Allows
<1>3. /\ e \in Environments(f) <=>
            /\ e = [v \in DOMAIN e |-> e[v]] /\ DOMAIN e \subseteq Variables(f)
            /\ \A v \in DOMAIN e : e[v] \in NoMin .. NoMax
      /\ e \in Explained(f, "ranges", s) <=>
            /\ e = [v \in DOMAIN e |-> e[v]] /\ DOMAIN e \subseteq Variables(f)
            /\ \A v \in DOMAIN e : e[v] \in Int /\ Allows("ranges", s.facts[v], e[v])
  BY EnvironmentFacts, ExplainedFacts
<1> QED  BY <1>1, <1>2, <1>3 DEF Allowed

(* The analysis and the function it was made of, and a block both can be in. *)
IsFolding(f, s, h, b) ==
    /\ IsVerified(f) /\ Signed(f) /\ Accounts(f, "ranges", s) /\ h = Folded(f, s.facts)
    /\ b \in ReachableFrom(SsaCfg(h), 0) /\ b \in s.blocks

(* What follows from that. *)
LEMMA FoldingFacts ==
  ASSUME NEW f, NEW s, NEW h, NEW b, IsFolding(f, s, h, b)
  PROVE  /\ IsExecutable(f) /\ IsVerified(h) /\ h \in Shapes(f) /\ HaveSameNames(f, h)
         /\ s.facts \in [Variables(f) -> RangeFacts]
         /\ b \in NodeIds(f) /\ b \in ReachableFrom(SsaCfg(f), 0)
         /\ f.body[b] \in Seq(InstructionSet(f)) /\ h.body[b] \in Seq(InstructionSet(f))
         /\ Len(h.body[b]) = Len(f.body[b])
         /\ Variables(h) = Variables(f) /\ Nil \notin Variables(f)
<1>1. IsVerified(f) /\ h = Folded(f, s.facts) /\ b \in ReachableFrom(SsaCfg(h), 0)
  BY DEF IsFolding
<1>2. /\ IsVerified(h) /\ h \in Shapes(f) /\ HaveSameNames(f, h) /\ f \in Shapes(f)
      /\ b \in ReachableFrom(SsaCfg(f), 0)
  BY <1>1, FoldedVerified, FoldedFacts, VerifiedShape, FoldedEdges
<1>3. IsExecutable(f) /\ b \in NodeIds(f) /\ f.body[b] \in Seq(InstructionSet(f)) /\ Nil \notin Variables(f)
  BY <1>1, <1>2, VerifiedFacts
<1>4. h.body[b] \in Seq(InstructionSet(f)) /\ Len(h.body[b]) = Len(f.body[b])
  BY <1>1, <1>2, <1>3, ShapeFacts, VerifiedFacts DEF HaveSameNames
<1>5. Variables(h) = Variables(f)
  BY <1>1, <1>2, SameNames, VerifiedFacts
<1>6. s.facts \in [Variables(f) -> RangeFacts]
  BY DEF IsFolding, Accounts, SparseStates, FactsOf
<1> QED  BY <1>1, <1>2, <1>3, <1>4, <1>5, <1>6

(* One instruction, in the function and as it was folded. *)
LEMMA FoldedStep ==
  ASSUME NEW f, NEW s, NEW h, NEW b, IsFolding(f, s, h, b), NEW k \in DOMAIN f.body[b],
         NEW e, Ready(h, b, k, e), Allowed(f, s.facts, e)
  PROVE  /\ Execute(h.body[b][k], e) = Execute(f.body[b][k], e)
         /\ \A y \in Execute(f.body[b][k], e) : Ready(h, b, k + 1, y) /\ Allowed(f, s.facts, y)
<1>1. /\ IsVerified(f) /\ Signed(f) /\ Accounts(f, "ranges", s) /\ h = Folded(f, s.facts)
      /\ b \in ReachableFrom(SsaCfg(h), 0) /\ b \in s.blocks
  BY DEF IsFolding
<1>2. /\ IsExecutable(f) /\ IsVerified(h) /\ s.facts \in [Variables(f) -> RangeFacts]
      /\ b \in NodeIds(f) /\ b \in ReachableFrom(SsaCfg(f), 0)
      /\ f.body[b] \in Seq(InstructionSet(f)) /\ h.body[b] \in Seq(InstructionSet(f))
      /\ Len(h.body[b]) = Len(f.body[b]) /\ Nil \notin Variables(f)
  BY FoldingFacts
<1>3. k \in 1 .. Len(f.body[b]) + 1 /\ k \in DOMAIN h.body[b] /\ f.body[b][k] \in ToSet(f.body[b])
  BY <1>2 DEF ToSet
<1>4. ToSet(f.body[b][k].args) \subseteq DOMAIN e
  <2>1. ToSet(f.body[b][k].args) \subseteq DefinedBefore(f, b, k)
    BY <1>1, <1>2 DEF IsVerified, IsStrict
  <2>2. ToSet(f.body[b][k].args) \subseteq Variables(f)
    BY <1>2, <1>3, InstructionFacts
  <2>3. DefinedBefore(f, b, k) \subseteq DefinedBefore(h, b, k)
    BY <1>1, <1>3, FoldedBefore
  <2> QED  BY <1>2, <2>1, <2>2, <2>3 DEF Ready
<1>5. Execute(h.body[b][k], e) = Execute(f.body[b][k], e)
  BY <1>1, <1>2, <1>4, FoldedExecutes
<1>6. \A y \in Execute(h.body[b][k], e) : Ready(h, b, k + 1, y)
  BY <1>1, <1>2, <1>3, ExecuteReady
<1>7. ASSUME NEW y \in Execute(f.body[b][k], e) PROVE Allowed(f, s.facts, y)
  <2> DEFINE i == f.body[b][k]
  <2>1. i \in ToSet(f.body[b]) /\ y \in Execute(i, e)
    BY <1>3
  <2>2. i \in InstructionSet(f) /\ HasItsOperands(i) /\ (i.dest # Nil => i.op \in ValueOps)
    <3> HIDE DEF i
    <3> QED  BY <1>2, <2>1, InstructionFacts
  <2>3. e \in Environments(f) /\ e \in Explained(f, "ranges", s)
    BY <1>2, AllowedExplained
  <2> HIDE DEF i
  <2>4. y \in Environments(f)
    BY <2>1, <2>2, <2>3, ExecuteFacts
  <2>5. y \in Explained(f, "ranges", s)
    BY <1>1, <1>2, <2>1, <2>3, ExecuteCore DEF Domains
  <2> QED  BY <1>2, <2>4, <2>5, AllowedExplained
<1> QED  BY <1>5, <1>6, <1>7

(* All of them. *)
LEMMA FoldedRuns ==
  ASSUME NEW f, NEW s, NEW h, NEW b, IsFolding(f, s, h, b),
         NEW e, Ready(h, b, 1, e), Allowed(f, s.facts, e)
  PROVE  /\ RunAll({e}, h.body[b]) = RunAll({e}, f.body[b])
         /\ \A y \in RunAll({e}, f.body[b]) : Allowed(f, s.facts, y)
<1> DEFINE n == Len(f.body[b])
           u == f.body[b]
           w == h.body[b]
           G == Environments(f)
           A == SUBSET G
           T == {i \in InstructionSet(f) : HasItsOperands(i) /\ (i.dest # Nil => i.op \in ValueOps)}
           x == {e}
           Rel == [k \in 0 .. n |-> {p \in A \X A :
                      p[1] = p[2] /\ \A c \in p[1] : Ready(h, b, k + 1, c) /\ Allowed(f, s.facts, c)}]
<1>1. /\ IsExecutable(f) /\ IsVerified(h) /\ IsExecutable(h) /\ h \in Shapes(f) /\ HaveSameNames(f, h)
      /\ b \in NodeIds(f) /\ b \in NodeIds(h) /\ u \in Seq(InstructionSet(f)) /\ w \in Seq(InstructionSet(f))
      /\ Len(w) = n /\ n \in Nat
  <2>1. IsVerified(h) /\ b \in ReachableFrom(SsaCfg(h), 0)
    BY FoldingFacts DEF IsFolding
  <2>2. b \in NodeIds(h) /\ IsExecutable(h)
    BY <2>1, VerifiedFacts
  <2> QED  BY <2>1, <2>2, FoldingFacts
<1>2. u \in Seq(T) /\ w \in Seq(T)
  <2>1. \A k \in DOMAIN u : u[k] \in T
    <3> SUFFICES ASSUME NEW k \in DOMAIN u PROVE u[k] \in T
      OBVIOUS
    <3> DEFINE i == u[k]
    <3>1. i \in ToSet(f.body[b])
      BY DEF ToSet
    <3> HIDE DEF i
    <3>2. i \in T
      BY <1>1, <3>1, InstructionFacts
    <3> QED  BY <3>2 DEF i
  <2>2. \A k \in DOMAIN w : w[k] \in T
    <3> SUFFICES ASSUME NEW k \in DOMAIN w PROVE w[k] \in T
      OBVIOUS
    <3> DEFINE i == w[k]
    <3>1. i \in ToSet(h.body[b]) /\ i \in InstructionSet(f)
      BY <1>1 DEF ToSet
    <3> HIDE DEF i
    <3>2. i \in T
      BY <1>1, <3>1, InstructionFacts
    <3> QED  BY <3>2 DEF i
  <2> HIDE DEF T, u, w
  <2> QED  BY <1>1, <2>1, <2>2
<1>3. ASSUME NEW envs \in A, NEW i \in T PROVE Executed(i, envs) \in A
  <2> SUFFICES ASSUME NEW c \in envs, NEW y \in Execute(i, c) PROVE y \in G
    BY DEF Executed
  <2> QED  BY ExecuteFacts
<1>4. x \in A /\ <<x, x>> \in Rel[0]
  <2>1. e \in G
    BY DEF Allowed
  <2>2. 0 \in 0 .. n
    BY <1>1
  <2> HIDE DEF G, n
  <2> QED  BY <2>1, <2>2
<1>5. ASSUME NEW k \in 1 .. n, NEW a \in A, NEW c \in A, <<a, c>> \in Rel[k - 1]
      PROVE  <<Executed(w[k], a), Executed(u[k], c)>> \in Rel[k]
  <2>1. k \in 0 .. n /\ k - 1 \in 0 .. n /\ (k - 1) + 1 = k /\ k \in DOMAIN f.body[b] /\ u[k] \in T /\ w[k] \in T
    BY <1>1, <1>2
  <2>2. a = c /\ \A z \in a : Ready(h, b, k, z) /\ Allowed(f, s.facts, z)
    <3> HIDE DEF A, n
    <3> QED  BY <1>5, <2>1
  <2> DEFINE p == Executed(w[k], a)
             q == Executed(u[k], a)
  <2>3. \A z \in a : /\ Execute(w[k], z) = Execute(u[k], z)
                     /\ \A y \in Execute(u[k], z) : Ready(h, b, k + 1, y) /\ Allowed(f, s.facts, y)
    BY <2>1, <2>2, FoldedStep
  <2>4. p \in A /\ q \in A
    BY <1>3, <2>1
  <2>5. p = q /\ \A y \in q : Ready(h, b, k + 1, y) /\ Allowed(f, s.facts, y)
    BY <2>3 DEF Executed
  <2> HIDE DEF p, q, A, n, u, w
  <2>6. <<p, q>> \in Rel[k]
    BY <2>1, <2>4, <2>5
  <2> QED  BY <2>2, <2>6 DEF p, q
<1>6. <<RunAll(x, w), RunAll(x, u)>> \in Rel[n]
  <2>1. \A envs \in A : \A i \in T : Executed(i, envs) \in A
    BY <1>3
  <2>2. \A k \in 1 .. Len(w) : \A a \in A : \A c \in A :
           <<a, c>> \in Rel[k - 1] => <<Executed(w[k], a), Executed(u[k], c)>> \in Rel[k]
    BY <1>1, <1>5
  <2>3. Len(u) = Len(w) /\ Len(w) = n
    BY <1>1
  <2> HIDE DEF A, T, x, u, w, Rel, n
  <2> QED  BY <1>2, <1>4, <2>1, <2>2, <2>3, RunTogether
<1> HIDE DEF A, n
<1>7. RunAll(x, w) = RunAll(x, u) /\ \A y \in RunAll(x, u) : Allowed(f, s.facts, y)
  <2>1. n \in 0 .. n
    BY <1>1
  <2> HIDE DEF x, u, w
  <2> QED  BY <1>6, <2>1
<1> QED  BY <1>7

(* What the folded function can do is what the function can do. *)
LEMMA FoldedOutcomes ==
  ASSUME NEW f, NEW s, NEW h, NEW r, r.at # Nil, IsFolding(f, s, h, r.at),
         RunInv(f, "ranges", s, r), ExecInv(h, r), AgreeInv(h, r)
  PROVE  Outcomes(h, r) = Outcomes(f, r)
<1> DEFINE b == r.at
           e == EnterBlock(f, r)
<1>1. /\ IsVerified(f) /\ IsExecutable(f) /\ IsVerified(h) /\ h = Folded(f, s.facts)
      /\ Accounts(f, "ranges", s) /\ b \in s.blocks /\ b \in NodeIds(f)
      /\ s.facts \in [Variables(f) -> RangeFacts] /\ Variables(h) = Variables(f)
  BY FoldingFacts DEF IsFolding
<1>2. CanEnter(h, r) /\ Ready(h, b, 1, EnterBlock(h, r))
  BY <1>1, EnterReady
<1>3. CanEnter(f, r) /\ EnterBlock(f, r) = EnterBlock(h, r)
  BY <1>1, <1>2, FoldedEnters
<1>4. Ready(h, b, 1, e) /\ e \in Environments(f)
  BY <1>1, <1>2, <1>3 DEF Ready, Environments
<1>5. e \in Explained(f, "ranges", s)
  BY <1>1, <1>3, EnterCore DEF CanEnter, Domains
<1>6. Allowed(f, s.facts, e)
  BY <1>1, <1>4, <1>5, AllowedExplained
<1>7. /\ RunAll({e}, h.body[b]) = RunAll({e}, f.body[b])
      /\ \A y \in RunAll({e}, f.body[b]) : Allowed(f, s.facts, y)
  <2> DEFINE x == e
             c == b
  <2>1. IsFolding(f, s, h, c) /\ Ready(h, c, 1, x) /\ Allowed(f, s.facts, x)
    BY <1>4, <1>6
  <2> HIDE DEF x, c
  <2>2. /\ RunAll({x}, h.body[c]) = RunAll({x}, f.body[c])
        /\ \A y \in RunAll({x}, f.body[c]) : Allowed(f, s.facts, y)
    BY <2>1, FoldedRuns
  <2> QED  BY <2>2 DEF x, c
<1>8. ASSUME NEW y \in RunAll({e}, f.body[b])
      PROVE  Target(Terminator(h, b), y) = Target(Terminator(f, b), y)
  <2> DEFINE x == e
             c == b
  <2>1. x \in Explained(f, "ranges", s) /\ c \in s.blocks /\ y \in RunAll({x}, f.body[c])
    BY <1>1, <1>5
  <2>2. Allowed(f, s.facts, y) /\ c \in NodeIds(f)
    BY <1>1, <1>7
  <2> HIDE DEF x, c
  <2>3. ToSet(Terminator(f, c).args) \subseteq DOMAIN y
    BY <1>1, <2>1, BodyCore DEF Domains
  <2>4. Target(Terminator(h, c), y) = Target(Terminator(f, c), y)
    BY <1>1, <2>2, <2>3, FoldedLeads
  <2> QED  BY <2>4 DEF c
<1>9. Outcomes(f, r) = {[at |-> Target(Terminator(f, b), y), from |-> b, env |-> y] :
                           y \in RunAll({e}, f.body[b])}
  BY <1>3, OutcomesAre
<1>10. Outcomes(h, r) = {[at |-> Target(Terminator(h, b), y), from |-> b, env |-> y] :
                            y \in RunAll({e}, h.body[b])}
  BY <1>2, <1>3, OutcomesAre
<1> HIDE DEF e, b
<1> QED  BY <1>7, <1>8, <1>9, <1>10

-----------------------------------------------------------------------------
(* The repair *)

(* What one step does, taken n times. *)
LEMMA IteratesExist ==
  ASSUME NEW n \in Nat, NEW A, NEW base \in A, NEW next \in [A -> A]
  PROVE  \E C : C = [k \in 0 .. n |-> IF k = 0 THEN base ELSE next[C[k - 1]]] /\ \A k \in 0 .. n : C[k] \in A
<1> DEFINE steps == [k \in 1 .. n |-> next]
<1>1. IsSteps(steps, n, A)
  BY DEF IsSteps
<1>2. PICK C : IsRun(C, steps, n, A, base)
  <2> HIDE DEF steps
  <2> QED  BY <1>1, RunExists
<1>3. C \in [0 .. n -> A] /\ C[0] = base /\ \A k \in 1 .. n : C[k] = next[C[k - 1]]
  BY <1>2 DEF IsRun
<1>4. \A k \in 0 .. n : C[k] = IF k = 0 THEN base ELSE next[C[k - 1]]
  <2>1. \A k \in 0 .. n : k = 0 \/ k \in 1 .. n
    OBVIOUS
  <2> QED  BY <1>3, <2>1
<1> QED  BY <1>3, <1>4

(* They can start anywhere. *)
LEMMA IteratesFrom ==
  ASSUME NEW n \in Nat, NEW A, NEW next \in [A -> A]
  PROVE  \A B \in A : \E C : C = [k \in 0 .. n |-> IF k = 0 THEN B ELSE next[C[k - 1]]] /\ \A k \in 0 .. n : C[k] \in A
<1> TAKE B \in A
<1> QED  BY IteratesExist

(* An iteration stays where every step stays. *)
LEMMA IteratesIn ==
  ASSUME NEW n \in Nat, NEW A, NEW C, C[0] \in A, \A k \in 1 .. n : C[k - 1] \in A => C[k] \in A
  PROVE  \A k \in 0 .. n : C[k] \in A
<1> DEFINE S == {k \in Nat : k <= n => C[k] \in A}
<1>1. 0 \in S
  OBVIOUS
<1>2. ASSUME NEW k \in S PROVE k + 1 \in S
  <2> SUFFICES ASSUME k + 1 <= n PROVE C[k + 1] \in A
    OBVIOUS
  <2>1. k + 1 \in 1 .. n /\ (k + 1) - 1 = k /\ C[k] \in A
    OBVIOUS
  <2> QED  BY <2>1
<1>3. S = Nat
  <2>1. S \in SUBSET Nat
    OBVIOUS
  <2> HIDE DEF S
  <2> QED  BY <1>1, <1>2, <2>1, Induction
<1> QED  BY <1>3

(* The image of a finite set is finite. *)
LEMMA FiniteImage ==
  ASSUME NEW S, IsFiniteSet(S), NEW F
  PROVE  IsFiniteSet({F[x] : x \in S})
<1> DEFINE T == {F[x] : x \in S}
           G == [x \in S |-> F[x]]
<1>1. G \in Surjection(S, T)
  BY DEF Surjection
<1> HIDE DEF G, T
<1>2. IsFiniteSet(T)
  BY <1>1, FS_Surjection
<1> QED  BY <1>2 DEF T

(* A sequence has finitely many elements. *)
LEMMA FiniteRange ==
  ASSUME NEW T, NEW s \in Seq(T)
  PROVE  IsFiniteSet(ToSet(s))
<1>1. IsFiniteSet(DOMAIN s)
  BY FS_Interval
<1>2. IsFiniteSet({s[k] : k \in DOMAIN s})
  BY <1>1, FiniteImage
<1> QED  BY <1>2 DEF ToSet

(* Only so many phis, and values they read. *)
LEMMA PhisAreFinite ==
  ASSUME NEW f, IsFunction(f), NEW g \in Shapes(f)
  PROVE  /\ IsFiniteSet(Phis(g)) /\ Cardinality(Phis(g)) \in Nat
         /\ \A phi \in Phis(g) : /\ \E b \in NodeIds(f) : phi \in ToSet(g.phis[b])
                                 /\ IsFiniteSet(Values(phi)) /\ phi \in PhiSet(f)
<1>1. /\ NodeIds(g) = NodeIds(f) /\ g.phis \in [NodeIds(f) -> Seq(PhiSet(f))] /\ f.count \in Nat
  BY ShapeFacts DEF IsFunction
<1> DEFINE rows == [b \in NodeIds(f) |-> ToSet(g.phis[b])]
           R == {rows[b] : b \in NodeIds(f)}
<1>2. IsFiniteSet(NodeIds(f))
  <2>1. f.count - 1 \in Int
    BY <1>1
  <2> QED  BY <2>1, FS_Interval DEF NodeIds
<1>3. \A b \in NodeIds(f) : g.phis[b] \in Seq(PhiSet(f)) /\ rows[b] = ToSet(g.phis[b])
  BY <1>1
<1>4. \A b \in NodeIds(f) : IsFiniteSet(ToSet(g.phis[b]))
  BY <1>3, FiniteRange
<1>5. Phis(g) = UNION R
  BY <1>1 DEF Phis
<1>6. IsFiniteSet(R) /\ \A X \in R : IsFiniteSet(X)
  <2>1. IsFiniteSet(R)
    <3> HIDE DEF rows
    <3> QED  BY <1>2, FiniteImage
  <2>2. \A X \in R : IsFiniteSet(X)
    BY <1>3, <1>4
  <2> QED  BY <2>1, <2>2
<1>7. IsFiniteSet(Phis(g))
  <2> HIDE DEF R
  <2> QED  BY <1>5, <1>6, FS_UNION
<1>8. ASSUME NEW phi \in Phis(g)
      PROVE  /\ \E b \in NodeIds(f) : phi \in ToSet(g.phis[b])
             /\ IsFiniteSet(Values(phi)) /\ phi \in PhiSet(f)
  <2>1. PICK b \in NodeIds(f) : phi \in ToSet(g.phis[b])
    BY <1>1 DEF Phis
  <2>2. PICK m \in DOMAIN g.phis[b] : phi = g.phis[b][m]
    BY <2>1 DEF ToSet
  <2>3. phi \in PhiSet(f)
    BY <1>3, <2>2
  <2> DEFINE O == [pred : NodeIds(f), value : Variables(f)]
             s == phi.operands
             F == [o \in ToSet(s) |-> o.value]
  <2>4. s \in Seq(O)
    BY <2>3 DEF PhiSet
  <2>5. IsFiniteSet(ToSet(s))
    <3> HIDE DEF s, O
    <3> QED  BY <2>4, FiniteRange
  <2>6. Values(phi) = {F[o] : o \in ToSet(s)}
    BY DEF Values
  <2>7. IsFiniteSet(Values(phi))
    <3> HIDE DEF F, s
    <3> QED  BY <2>5, <2>6, FiniteImage
  <2> QED  BY <2>1, <2>3, <2>7
<1> QED  BY <1>7, <1>8, FS_CardinalityType

(* Some phis dropped. *)
LEMMA WithoutFacts ==
  ASSUME NEW f, IsFunction(f), NEW g \in Shapes(f), NEW results, NEW h, h = WithoutPhis(g, results)
  PROVE  /\ h \in Shapes(f) /\ h.targets = g.targets /\ h.body = g.body /\ h.initial = g.initial
         /\ \A b \in NodeIds(f) : \A phi :
               phi \in ToSet(h.phis[b]) <=> phi \in ToSet(g.phis[b]) /\ phi.result \notin results
<1> DEFINE N == NodeIds(f)
           P == Seq(PhiSet(f))
           new == [b \in N |-> Keep(g.phis[b], {phi \in ToSet(g.phis[b]) : phi.result \notin results})]
<1>1. /\ g.count = f.count /\ NodeIds(g) = N /\ g.initial = f.initial /\ g.clauses = f.clauses
      /\ g.phis \in [N -> P]
      /\ g = [count |-> g.count, targets |-> g.targets, clauses |-> g.clauses,
              initial |-> g.initial, phis |-> g.phis, body |-> g.body]
  BY ShapeFacts
<1>2. h = [g EXCEPT !.phis = new]
  BY <1>1 DEF WithoutPhis
<1>3. ASSUME NEW b \in N
      PROVE  /\ new[b] \in P
             /\ \A phi : phi \in ToSet(new[b]) <=> phi \in ToSet(g.phis[b]) /\ phi.result \notin results
  <2> DEFINE s == g.phis[b]
             S == {phi \in ToSet(s) : phi.result \notin results}
             U == PhiSet(f) \cap S
             w == Keep(s, S)
  <2>1. s \in P
    BY <1>1
  <2>2. w \in Seq(U) /\ ToSet(w) = ToSet(s) \cap S
    <3> HIDE DEF s, S
    <3> QED  BY <2>1, KeepFacts
  <2>3. U \subseteq PhiSet(f)
    OBVIOUS
  <2>4. new[b] = w
    OBVIOUS
  <2>5. w \in P
    <3> HIDE DEF w, U
    <3> QED  BY <2>2, <2>3
  <2>6. \A phi : phi \in ToSet(w) <=> phi \in ToSet(s) /\ phi.result \notin results
    <3> HIDE DEF w
    <3> QED  BY <2>2
  <2> HIDE DEF w, new
  <2> QED  BY <2>4, <2>5, <2>6
<1>4. new \in [N -> P]
  <2>1. new = [b \in N |-> new[b]]
    OBVIOUS
  <2> HIDE DEF new, P
  <2> QED  BY <1>3, <2>1
<1> HIDE DEF new, P
<1>5. /\ h.phis = new /\ h.targets = g.targets /\ h.body = g.body /\ h.initial = g.initial
      /\ h \in Shapes(f)
  <2>1. /\ h.phis = new /\ h.targets = g.targets /\ h.body = g.body /\ h.initial = g.initial
    BY <1>1, <1>2
  <2> DEFINE X == [N -> Seq(N)]
             Y == [N -> P]
             Z == [N -> Seq(InstructionSet(f))]
  <2>2. g \in [count : {f.count}, targets : X, clauses : {f.clauses}, initial : {f.initial},
               phis : Y, body : Z]
    BY DEF Shapes, P
  <2>3. new \in Y
    BY <1>4
  <2> HIDE DEF X, Y, Z, N
  <2>4. h \in [count : {f.count}, targets : X, clauses : {f.clauses}, initial : {f.initial},
               phis : Y, body : Z]
    BY <1>2, <2>2, <2>3
  <2> QED  BY <2>1, <2>4 DEF Shapes, X, Y, Z, N, P
<1> QED  BY <1>3, <1>5

(* An instruction, and a phi, that reads for what h reads what stands for it. *)
ReadsSame(h, i, j) ==
    /\ j.op = i.op /\ j.dest = i.dest /\ j.value = i.value /\ j.targets = i.targets
    /\ Len(j.args) = Len(i.args)
    /\ \A m \in DOMAIN i.args : Stands(h, i.args[m], j.args[m])
(* A phi that merges, edge by edge, what another one merges. *)
MergesSame(h, phi, psi) ==
    /\ psi.result = phi.result
    /\ \A o \in ToSet(phi.operands) :
          \E p \in ToSet(psi.operands) : p.pred = o.pred /\ Stands(h, o.value, p.value)
    /\ \A p \in ToSet(psi.operands) :
          \E o \in ToSet(phi.operands) : p.pred = o.pred /\ Stands(h, o.value, p.value)

(* A rewriting does what h does, with the phis it has left; the repair goes
   through those that define all they read. *)
IsRewrite(h, g) ==
    /\ g \in Shapes(h) /\ g.targets = h.targets
    /\ \A b \in NodeIds(h) :
          /\ Len(g.body[b]) = Len(h.body[b])
          /\ \A k \in DOMAIN h.body[b] :
                /\ ReadsSame(h, h.body[b][k], g.body[b][k])
                /\ ToSet(g.body[b][k].args) \subseteq Variables(g)
          /\ \A psi \in ToSet(g.phis[b]) : \E phi \in ToSet(h.phis[b]) : MergesSame(h, phi, psi)
(* A rewritten function whose phis read what it has. *)
IsRepair(h, g) ==
    /\ IsRewrite(h, g)
    /\ \A b \in NodeIds(h) : \A psi \in ToSet(g.phis[b]) : Values(psi) \subseteq Variables(g)

(* A function is a rewriting of itself. *)
LEMMA RepairStarts ==
  ASSUME NEW h, IsVerified(h)
  PROVE  IsRepair(h, h)
<1>1. h \in Shapes(h)
  BY VerifiedShape
<1>2. \A x : Stands(h, x, x)
  BY DEF Stands, StandsIn
<1>3. ASSUME NEW b \in NodeIds(h), NEW k \in DOMAIN h.body[b]
      PROVE  ReadsSame(h, h.body[b][k], h.body[b][k]) /\ ToSet(h.body[b][k].args) \subseteq Variables(h)
  <2>1. h.body[b][k] \in ToSet(h.body[b])
    BY DEF ToSet
  <2> QED  BY <1>2, <2>1, InstructionFacts DEF ReadsSame, IsVerified
<1>4. ASSUME NEW b \in NodeIds(h), NEW psi \in ToSet(h.phis[b])
      PROVE  MergesSame(h, psi, psi) /\ Values(psi) \subseteq Variables(h)
  <2>1. \A o \in ToSet(psi.operands) : o.value \in Variables(h)
    BY InstructionFacts DEF IsVerified
  <2> QED  BY <1>2, <2>1 DEF MergesSame, Values
<1> QED  BY <1>1, <1>3, <1>4 DEF IsRepair, IsRewrite

(* A phi that is retired stands for its source. *)
LEMMA TrivialStands ==
  ASSUME NEW h, IsVerified(h), NEW g, IsRepair(h, g), NEW psi \in Phis(g), Source(g, psi) # Nil
  PROVE  /\ Stands(h, psi.result, Source(g, psi))
         /\ psi.result \in Variables(g) /\ Source(g, psi) \in Variables(g)
<1> DEFINE x == psi.result
           y == Source(g, psi)
           others == Values(psi) \ {x}
<1>1. g \in Shapes(h) /\ IsFunction(h) /\ NodeIds(g) = NodeIds(h)
  BY ShapeFacts, VerifiedFacts DEF IsRepair, IsRewrite
<1>2. PICK b \in NodeIds(h) : psi \in ToSet(g.phis[b])
  BY <1>1, PhisAreFinite
<1>3. x \in Variables(g) /\ Values(psi) \subseteq Variables(g)
  <2>1. x \in PhiResults(g, b)
    BY <1>2 DEF PhiResults
  <2> QED  BY <1>1, <1>2, <2>1 DEF Variables, DefinedIn, IsRepair
<1>4. y = x \/ (y # x /\ others = {y})
  <2>1. CASE others = {} /\ psi.operands # <<>>
    <3>1. y = psi.result
      BY <2>1 DEF Source
    <3> QED  BY <3>1
  <2>2. CASE ~(others = {} /\ psi.operands # <<>>)
    <3>1. Cardinality(others) = 1 /\ y = CHOOSE v \in others : TRUE
      BY <2>2 DEF Source
    <3>2. IsFiniteSet(others)
      BY <1>1, PhisAreFinite, FS_Subset
    <3>3. PICK z : others = {z}
      BY <3>1, <3>2, FS_Singleton
    <3> HIDE DEF others
    <3>4. y = z
      BY <3>1, <3>3
    <3>5. others = {y}
      BY <3>3, <3>4
    <3> QED  BY <3>5 DEF others
  <2> QED  BY <2>1, <2>2
<1>5. CASE y = x
  BY <1>3, <1>5 DEF Stands, StandsIn
<1>6. CASE y # x /\ others = {y}
  <2>1. y \in Values(psi)
    BY <1>6
  <2>2. PICK phi \in ToSet(h.phis[b]) : MergesSame(h, phi, psi)
    BY <1>2 DEF IsRepair, IsRewrite
  <2>3. phi.result = x
    BY <2>2 DEF MergesSame
  <2>4. \A o \in ToSet(phi.operands) : Stands(h, o.value, y) \/ Stands(h, o.value, x)
    <3> SUFFICES ASSUME NEW o \in ToSet(phi.operands)
                 PROVE  Stands(h, o.value, y) \/ Stands(h, o.value, x)
      OBVIOUS
    <3>1. PICK p \in ToSet(psi.operands) : Stands(h, o.value, p.value)
      BY <2>2 DEF MergesSame
    <3>2. p.value \in Values(psi)
      BY DEF Values
    <3>3. p.value = x \/ p.value = y
      BY <1>6, <3>2
    <3> QED  BY <3>1, <3>3
  <2>5. y \in Variables(h)
    <3>1. PICK p \in ToSet(psi.operands) : p.value = y
      BY <2>1 DEF Values
    <3>2. psi \in PhiSet(h)
      BY <1>1, PhisAreFinite
    <3>3. psi.operands \in Seq([pred : NodeIds(h), value : Variables(h)])
      BY <3>2 DEF PhiSet
    <3>4. PICK m \in DOMAIN psi.operands : p = psi.operands[m]
      BY DEF ToSet
    <3> DEFINE s == psi.operands
               O == [pred : NodeIds(h), value : Variables(h)]
    <3>5. s \in Seq(O) /\ m \in DOMAIN s /\ p = s[m]
      BY <3>3, <3>4
    <3>6. p \in O
      <4> HIDE DEF s, O
      <4> QED  BY <3>5
    <3> QED  BY <3>1, <3>6
  <2> HIDE DEF x, y
  <2>6. Stands(h, phi.result, y)
    BY <1>6, <2>3, <2>4, <2>5, TrivialIsEqual
  <2> QED  BY <1>3, <2>1, <2>3, <2>6 DEF x, y
<1> QED  BY <1>4, <1>5, <1>6

(* So does what a chain of them ends with. *)
LEMMA ChainStands ==
  ASSUME NEW h, IsVerified(h), NEW V, NEW trivial, IsFiniteSet(trivial),
         \A t \in trivial : t[2] \in V /\ Stands(h, t[1], t[2]),
         NEW v \in V
  PROVE  ChainEnd(trivial, v) \in V /\ Stands(h, v, ChainEnd(trivial, v))
<1> DEFINE n == Cardinality(trivial)
           Sources(x) == {t[2] : t \in {u \in trivial : u[1] = x}} \ {x}
           Further(x) == IF Sources(x) = {} THEN x ELSE CHOOSE y \in Sources(x) : TRUE
           A == {x \in V : Stands(h, v, x)}
           next == [x \in A |-> Further(x)]
           Def(C) == C = [k \in 0 .. n |-> IF k = 0 THEN v ELSE
                                           IF Sources(C[k - 1]) = {} THEN C[k - 1]
                                           ELSE CHOOSE y \in Sources(C[k - 1]) : TRUE]
<1>1. ChainEnd(trivial, v) = (CHOOSE C : Def(C))[n]
  BY Zenon DEF ChainEnd
<1>2. n \in Nat
  BY FS_CardinalityType
<1>3. v \in A
  BY DEF Stands, StandsIn
<1>4. ASSUME NEW x \in A PROVE Further(x) \in A
  <2>1. CASE Sources(x) = {}
    BY <2>1
  <2>2. CASE Sources(x) # {}
    <3>1. PICK y : y = Further(x)
      OBVIOUS
    <3>2. y \in Sources(x)
      <4> HIDE DEF Sources
      <4> QED  BY <2>2, <3>1
    <3>3. PICK t \in trivial : t[1] = x /\ t[2] = y
      BY <3>2
    <3>4. y \in V /\ Stands(h, x, y)
      BY <3>3
    <3>5. Stands(h, v, y)
      BY <3>4, StandsTransitive
    <3> QED  BY <3>1, <3>4, <3>5
  <2> QED  BY <2>1, <2>2
<1>5. next \in [A -> A]
  BY <1>4
<1>6. \E C : Def(C)
  <2> HIDE DEF next, A, n
  <2>1. PICK C : C = [k \in 0 .. n |-> IF k = 0 THEN v ELSE next[C[k - 1]]] /\ \A k \in 0 .. n : C[k] \in A
    <3>1. \A B \in A : \E C : C = [k \in 0 .. n |-> IF k = 0 THEN B ELSE next[C[k - 1]]] /\ \A k \in 0 .. n : C[k] \in A
      BY ONLY <1>2, <1>5, IteratesFrom
    <3> QED  BY ONLY <1>3, <3>1, Zenon
  <2>2. ASSUME NEW k \in 0 .. n, k # 0 PROVE next[C[k - 1]] = Further(C[k - 1])
    <3>1. k - 1 \in 0 .. n
      BY <1>2, <2>2
    <3>2. C[k - 1] \in A
      BY <2>1, <3>1
    <3> QED  BY <3>2 DEF next
  <2>3. Def(C)
    <3> HIDE DEF Sources
    <3> QED  BY <2>1, <2>2
  <2> QED  BY <2>3
<1> DEFINE C == CHOOSE C : Def(C)
<1>7. Def(C)
  BY <1>6
<1>8. /\ C[0] = v
      /\ \A k \in 0 .. n : k # 0 => C[k] = Further(C[k - 1])
  <2> HIDE DEF C, n
  <2>1. 0 \in 0 .. n
    BY <1>2
  <2>2. \A k \in 0 .. n : C[k] = IF k = 0 THEN v ELSE IF Sources(C[k - 1]) = {} THEN C[k - 1]
                                                   ELSE CHOOSE y \in Sources(C[k - 1]) : TRUE
    BY <1>7, Zenon
  <2> HIDE DEF Sources
  <2> QED  BY <2>1, <2>2
<1> HIDE DEF Def, C, Further, A
<1>9. \A k \in 0 .. n : C[k] \in A
  <2>1. \A k \in 1 .. n : k \in 0 .. n /\ k # 0
    BY <1>2
  <2>2. C[0] \in A /\ \A k \in 1 .. n : C[k - 1] \in A => C[k] \in A
    BY <1>3, <1>4, <1>8, <2>1
  <2> HIDE DEF n
  <2> QED  BY <1>2, <2>2, IteratesIn
<1>10. ChainEnd(trivial, v) \in A
  BY <1>1, <1>2, <1>9 DEF C
<1> QED  BY <1>10 DEF A

(* One round of eliminate_trivial_phis, in parts. *)
TrivialOf(g) == {<<phi.result, Source(g, phi)>> : phi \in {p \in Phis(g) : Source(g, p) # Nil}}
(* What is read for v. *)
ReadFor(g, v) == IF v \in {t[1] : t \in TrivialOf(g)} THEN ChainEnd(TrivialOf(g), v) ELSE v
(* An instruction, an operand and a phi after the replacement. *)
ReadInstruction(g, i) == [i EXCEPT !.args = [j \in DOMAIN @ |-> ReadFor(g, @[j])]]
(* The replacement leaves an operand that would be the phi itself. *)
ReadOperand(g, phi, o) ==
    IF ReadFor(g, o.value) = phi.result THEN o ELSE [o EXCEPT !.value = ReadFor(g, @)]
(* A phi reads its operands anew. *)
ReadPhi(g, phi) == [phi EXCEPT !.operands = [j \in DOMAIN @ |-> ReadOperand(g, phi, @[j])]]
(* The function after the replacement, before phis are dropped. *)
Replaced(g) ==
    [g EXCEPT !.body = [b \in NodeIds(g) |-> [k \in DOMAIN @[b] |-> ReadInstruction(g, @[b][k])]],
              !.phis = [b \in NodeIds(g) |-> [k \in DOMAIN @[b] |-> ReadPhi(g, @[b][k])]]]
(* What is read anywhere. *)
AllRead(g) ==
    (UNION {ToSet(i.args) : i \in Instructions(g)}) \cup UNION {Values(phi) : phi \in Phis(g)}

(* A round of eliminate_trivial_phis is these parts. *)
LEMMA RetireInParts ==
  ASSUME NEW g
  PROVE  RetireTrivialPhis(g) = WithoutPhis(Replaced(g), {t[1] : t \in TrivialOf(g)} \ AllRead(Replaced(g)))
BY Zenon DEF RetireTrivialPhis, TrivialOf, ReadFor, ReadInstruction, ReadOperand, ReadPhi, Replaced, AllRead

(* What is read instead. *)
LEMMA ReadForFacts ==
  ASSUME NEW h, IsVerified(h), NEW g, IsRepair(h, g), NEW v \in Variables(g)
  PROVE  ReadFor(g, v) \in Variables(g) /\ Stands(h, v, ReadFor(g, v))
<1> DEFINE S == {p \in Phis(g) : Source(g, p) # Nil}
           F == [phi \in Phis(g) |-> <<phi.result, Source(g, phi)>>]
           T == TrivialOf(g)
<1>1. IsFiniteSet(Phis(g))
  BY VerifiedFacts, PhisAreFinite DEF IsRepair, IsRewrite
<1>2. IsFiniteSet(T)
  <2>1. IsFiniteSet(S)
    BY <1>1, FS_Subset
  <2>2. T = {F[phi] : phi \in S}
    BY DEF TrivialOf
  <2> HIDE DEF S, F, T
  <2> QED  BY <2>1, <2>2, FiniteImage
<1>3. \A t \in T : t[2] \in Variables(g) /\ Stands(h, t[1], t[2])
  <2> SUFFICES ASSUME NEW t \in T PROVE t[2] \in Variables(g) /\ Stands(h, t[1], t[2])
    OBVIOUS
  <2>1. PICK phi \in Phis(g) : Source(g, phi) # Nil /\ t = <<phi.result, Source(g, phi)>>
    BY DEF TrivialOf
  <2>2. Stands(h, phi.result, Source(g, phi)) /\ Source(g, phi) \in Variables(g)
    BY <2>1, TrivialStands
  <2> QED  BY <2>1, <2>2
<1> HIDE DEF T
<1>4. ChainEnd(T, v) \in Variables(g) /\ Stands(h, v, ChainEnd(T, v))
  BY <1>2, <1>3, ChainStands
<1>5. Stands(h, v, v)
  BY DEF Stands, StandsIn
<1> QED  BY <1>4, <1>5 DEF ReadFor, T

(* Instructions and phis that read it. *)
LEMMA ReadInstructionFacts ==
  ASSUME NEW f, NEW g, NEW i \in InstructionSet(f), \A v \in ToSet(i.args) : ReadFor(g, v) \in Variables(f),
         NEW j, j = ReadInstruction(g, i)
  PROVE  /\ j \in InstructionSet(f)
         /\ j.op = i.op /\ j.dest = i.dest /\ j.value = i.value /\ j.targets = i.targets
         /\ Len(j.args) = Len(i.args) /\ \A m \in DOMAIN i.args : j.args[m] = ReadFor(g, i.args[m])
<1> DEFINE A == Seq(Variables(f))
           a == i.args
           w == [m \in DOMAIN a |-> ReadFor(g, a[m])]
           B == Seq(NodeIds(f))
           C == ValueOps \cup ControlOps
           D == Variables(f) \cup {Nil}
           E == Lowest .. Highest
<1>1. i \in [op : C, dest : D, args : A, value : E, targets : B]
  BY DEF InstructionSet
<1>2. a \in A
  <2> HIDE DEF A, B, C, D, E
  <2> QED  BY <1>1
<1>3. w \in A /\ Len(w) = Len(a) /\ \A m \in DOMAIN a : w[m] = ReadFor(g, a[m])
  <2> DEFINE V == Variables(f)
             F(m) == ReadFor(g, a[m])
             n == Len(a)
  <2>1. a \in Seq(V) /\ DOMAIN a = 1 .. n /\ n \in Nat
    BY <1>2
  <2>2. \A m \in 1 .. n : F(m) \in V
    BY <2>1 DEF ToSet
  <2>3. w = [m \in 1 .. n |-> F(m)]
    BY <2>1
  <2> HIDE DEF V, F, n, w, a
  <2>4. w \in Seq(V) /\ Len(w) = n /\ \A m \in 1 .. n : w[m] = F(m)
    BY <2>1, <2>2, <2>3
  <2> QED  BY <2>1, <2>4 DEF V, F, n
<1>4. j = [i EXCEPT !.args = w]
  BY DEF ReadInstruction
<1> HIDE DEF A, B, C, D, E, w
<1>5. /\ j \in [op : C, dest : D, args : A, value : E, targets : B]
      /\ j.op = i.op /\ j.dest = i.dest /\ j.value = i.value /\ j.targets = i.targets /\ j.args = w
  BY <1>1, <1>3, <1>4
<1> QED  BY <1>3, <1>5 DEF InstructionSet, A, B, C, D, E

(* A phi after the replacement is a phi with the same result. *)
LEMMA ReadPhiFacts ==
  ASSUME NEW f, NEW g, NEW phi \in PhiSet(f), \A v \in Values(phi) : ReadFor(g, v) \in Variables(f),
         NEW psi, psi = ReadPhi(g, phi)
  PROVE  /\ psi \in PhiSet(f) /\ psi.result = phi.result
         /\ \A p \in ToSet(psi.operands) : \E o \in ToSet(phi.operands) : p = ReadOperand(g, phi, o)
         /\ \A o \in ToSet(phi.operands) : ReadOperand(g, phi, o) \in ToSet(psi.operands)
<1> DEFINE O == [pred : NodeIds(f), value : Variables(f)]
           a == phi.operands
           w == [m \in DOMAIN a |-> ReadOperand(g, phi, a[m])]
           Q == Seq(O)
<1>1. phi \in [result : Variables(f), operands : Q]
  BY DEF PhiSet
<1>2. a \in Q
  <2> HIDE DEF Q
  <2> QED  BY <1>1
<1>3. ASSUME NEW o \in ToSet(a) PROVE ReadOperand(g, phi, o) \in O
  <2>1. o \in O
    <3> HIDE DEF O, a
    <3> QED  BY <1>2 DEF ToSet
  <2>2. ReadFor(g, o.value) \in Variables(f)
    BY DEF Values
  <2> QED  BY <2>1, <2>2 DEF ReadOperand
<1>4. w \in Q /\ DOMAIN w = DOMAIN a /\ \A m \in DOMAIN a : w[m] = ReadOperand(g, phi, a[m])
  <2> DEFINE F(m) == ReadOperand(g, phi, a[m])
             n == Len(a)
  <2>1. DOMAIN a = 1 .. n /\ n \in Nat
    BY <1>2
  <2>2. \A m \in 1 .. n : F(m) \in O
    BY <1>3, <2>1 DEF ToSet
  <2>3. w = [m \in 1 .. n |-> F(m)]
    BY <2>1
  <2> HIDE DEF O, F, n, w, a
  <2>4. w \in Seq(O) /\ DOMAIN w = 1 .. n /\ \A m \in 1 .. n : w[m] = F(m)
    BY <2>1, <2>2, <2>3
  <2> QED  BY <2>1, <2>4 DEF F, n
<1>5. psi = [phi EXCEPT !.operands = w]
  BY DEF ReadPhi
<1>6. /\ psi \in [result : Variables(f), operands : Q]
      /\ psi.result = phi.result /\ psi.operands = w
  <2> HIDE DEF Q, w
  <2> QED  BY <1>1, <1>4, <1>5
<1>7. \A p \in ToSet(w) : \E o \in ToSet(a) : p = ReadOperand(g, phi, o)
  <2> HIDE DEF w, a
  <2> QED  BY <1>4 DEF ToSet
<1>8. \A o \in ToSet(a) : ReadOperand(g, phi, o) \in ToSet(w)
  <2> HIDE DEF w, a
  <2> QED  BY <1>4 DEF ToSet
<1> HIDE DEF w
<1> QED  BY <1>6, <1>7, <1>8 DEF PhiSet

(* What a repair leaves reads only what it has. *)
LEMMA RepairReads ==
  ASSUME NEW h, IsVerified(h), NEW g, IsRepair(h, g)
  PROVE  /\ g \in Shapes(h) /\ NodeIds(g) = NodeIds(h) /\ Variables(g) \subseteq Variables(h)
         /\ \A b \in NodeIds(h) :
               /\ g.body[b] \in Seq(InstructionSet(h)) /\ g.phis[b] \in Seq(PhiSet(h))
               /\ DOMAIN g.body[b] = DOMAIN h.body[b]
               /\ \A k \in DOMAIN g.body[b] :
                     g.body[b][k] \in InstructionSet(h) /\ ToSet(g.body[b][k].args) \subseteq Variables(g)
               /\ \A phi \in ToSet(g.phis[b]) :
                     phi \in PhiSet(h) /\ phi \in Phis(g) /\ Values(phi) \subseteq Variables(g)
<1>1. /\ IsFunction(h) /\ g \in Shapes(h)
      /\ \A b \in NodeIds(h) : h.body[b] \in Seq(InstructionSet(h))
  BY VerifiedFacts DEF IsRepair, IsRewrite
<1>2. NodeIds(g) = NodeIds(h) /\ g.initial = h.initial
      /\ g.phis \in [NodeIds(h) -> Seq(PhiSet(h))] /\ g.body \in [NodeIds(h) -> Seq(InstructionSet(h))]
  BY <1>1, ShapeFacts
<1>3. \A b \in NodeIds(h) : g.body[b] \in Seq(InstructionSet(h)) /\ g.phis[b] \in Seq(PhiSet(h))
  BY <1>2
<1>4. \A b \in NodeIds(h) : Len(g.body[b]) = Len(h.body[b])
  BY DEF IsRepair, IsRewrite
<1>5. \A b \in NodeIds(h) : DOMAIN g.body[b] = DOMAIN h.body[b]
  BY <1>1, <1>3, <1>4
<1>6. \A b \in NodeIds(h) : \A k \in DOMAIN g.body[b] :
         g.body[b][k] \in InstructionSet(h) /\ ToSet(g.body[b][k].args) \subseteq Variables(g)
  BY <1>3, <1>5 DEF IsRepair, IsRewrite
<1>7. \A b \in NodeIds(h) : \A phi \in ToSet(g.phis[b]) :
         phi \in PhiSet(h) /\ phi \in Phis(g) /\ Values(phi) \subseteq Variables(g)
  BY <1>2, <1>3 DEF IsRepair, Phis, ToSet
<1>8. Variables(g) \subseteq Variables(h)
  <2> SUFFICES ASSUME NEW v \in Variables(g), v \notin h.initial.supplied PROVE v \in Variables(h)
    BY DEF Variables
  <2>1. PICK b \in NodeIds(h) : v \in DefinedIn(g, b)
    BY <1>2 DEF Variables
  <2>2. CASE v \in PhiResults(g, b)
    <3>1. PICK phi \in ToSet(g.phis[b]) : phi.result = v
      BY <2>2 DEF PhiResults
    <3> QED  BY <1>7, <3>1 DEF PhiSet
  <2>3. CASE v \in Dests(g, b)
    <3>1. PICK i \in ToSet(g.body[b]) : i.dest = v /\ v # Nil
      BY <2>3 DEF Dests
    <3>2. i \in InstructionSet(h)
      BY <1>6, <3>1 DEF ToSet
    <3>3. i.dest \in Variables(h) \cup {Nil}
      BY <3>2 DEF InstructionSet
    <3> QED  BY <3>1, <3>3
  <2> QED  BY <2>1, <2>2, <2>3 DEF DefinedIn
<1> QED  BY <1>1, <1>2, <1>3, <1>5, <1>6, <1>7, <1>8

(* Every use replaced. *)
LEMMA ReplacedFacts ==
  ASSUME NEW h, IsVerified(h), NEW g, IsRepair(h, g), NEW n, n = Replaced(g)
  PROVE  /\ n \in Shapes(h) /\ n.targets = g.targets /\ n.initial = g.initial
         /\ \A b \in NodeIds(h) :
               /\ Len(n.body[b]) = Len(g.body[b]) /\ Len(n.phis[b]) = Len(g.phis[b])
               /\ \A k \in DOMAIN g.body[b] : n.body[b][k] = ReadInstruction(g, g.body[b][k])
               /\ \A m \in DOMAIN g.phis[b] : n.phis[b][m] = ReadPhi(g, g.phis[b][m])
<1> DEFINE N == NodeIds(h)
           P == Seq(PhiSet(h))
           Q == Seq(InstructionSet(h))
           body == [b \in N |-> [k \in DOMAIN g.body[b] |-> ReadInstruction(g, g.body[b][k])]]
           phis == [b \in N |-> [k \in DOMAIN g.phis[b] |-> ReadPhi(g, g.phis[b][k])]]
<1>1. /\ g.count = h.count /\ NodeIds(g) = N /\ g.initial = h.initial /\ g.clauses = h.clauses
      /\ g = [count |-> g.count, targets |-> g.targets, clauses |-> g.clauses,
              initial |-> g.initial, phis |-> g.phis, body |-> g.body]
      /\ g \in Shapes(h)
  BY ShapeFacts, VerifiedFacts DEF IsRepair, IsRewrite
<1>2. n = [g EXCEPT !.body = body, !.phis = phis]
  BY <1>1 DEF Replaced
<1>3. \A v \in Variables(g) : ReadFor(g, v) \in Variables(h)
  BY ReadForFacts, RepairReads
<1>4. ASSUME NEW b \in N
      PROVE  /\ body[b] \in Q /\ Len(body[b]) = Len(g.body[b])
             /\ \A k \in DOMAIN g.body[b] : body[b][k] = ReadInstruction(g, g.body[b][k])
  <2> DEFINE s == g.body[b]
             F(k) == ReadInstruction(g, s[k])
             l == Len(s)
             I == InstructionSet(h)
  <2>1. s \in Seq(I) /\ DOMAIN s = 1 .. l /\ l \in Nat
    BY RepairReads
  <2>2. \A k \in 1 .. l : F(k) \in I
    <3> SUFFICES ASSUME NEW k \in 1 .. l PROVE F(k) \in I
      OBVIOUS
    <3>1. s[k] \in I /\ ToSet(s[k].args) \subseteq Variables(g)
      BY <2>1, RepairReads
    <3> QED  BY <1>3, <3>1, ReadInstructionFacts
  <2>3. body[b] = [k \in 1 .. l |-> F(k)]
    BY <2>1
  <2> HIDE DEF s, F, l, I, body
  <2>4. body[b] \in Seq(I) /\ Len(body[b]) = l /\ \A k \in 1 .. l : body[b][k] = F(k)
    BY <2>1, <2>2, <2>3
  <2> QED  BY <2>1, <2>4 DEF I, l, F, s
<1>5. ASSUME NEW b \in N
      PROVE  /\ phis[b] \in P /\ Len(phis[b]) = Len(g.phis[b])
             /\ \A k \in DOMAIN g.phis[b] : phis[b][k] = ReadPhi(g, g.phis[b][k])
  <2> DEFINE s == g.phis[b]
             F(k) == ReadPhi(g, s[k])
             l == Len(s)
             I == PhiSet(h)
  <2>1. s \in Seq(I) /\ DOMAIN s = 1 .. l /\ l \in Nat
    BY RepairReads
  <2>2. \A k \in 1 .. l : F(k) \in I
    <3> SUFFICES ASSUME NEW k \in 1 .. l PROVE F(k) \in I
      OBVIOUS
    <3>1. s[k] \in I /\ Values(s[k]) \subseteq Variables(g)
      BY <2>1, RepairReads DEF ToSet
    <3> QED  BY <1>3, <3>1, ReadPhiFacts
  <2>3. phis[b] = [k \in 1 .. l |-> F(k)]
    BY <2>1
  <2> HIDE DEF s, F, l, I, phis
  <2>4. phis[b] \in Seq(I) /\ Len(phis[b]) = l /\ \A k \in 1 .. l : phis[b][k] = F(k)
    BY <2>1, <2>2, <2>3
  <2> QED  BY <2>1, <2>4 DEF I, l, F, s
<1>6. body \in [N -> Q] /\ phis \in [N -> P]
  <2>1. body = [b \in N |-> body[b]] /\ phis = [b \in N |-> phis[b]]
    OBVIOUS
  <2> HIDE DEF body, phis, P, Q
  <2> QED  BY <1>4, <1>5, <2>1
<1> HIDE DEF body, phis, P, Q
<1>7. /\ n.body = body /\ n.phis = phis /\ n.targets = g.targets /\ n.initial = g.initial
      /\ n \in Shapes(h)
  <2>1. n.body = body /\ n.phis = phis /\ n.targets = g.targets /\ n.initial = g.initial
    BY <1>1, <1>2
  <2> DEFINE X == [N -> Seq(N)]
             Y == [N -> P]
             Z == [N -> Q]
  <2>2. g \in [count : {h.count}, targets : X, clauses : {h.clauses}, initial : {h.initial},
               phis : Y, body : Z]
    BY <1>1 DEF Shapes, P, Q
  <2>3. phis \in Y /\ body \in Z
    BY <1>6
  <2> HIDE DEF X, Y, Z, N
  <2>4. n \in [count : {h.count}, targets : X, clauses : {h.clauses}, initial : {h.initial},
               phis : Y, body : Z]
    BY <1>2, <2>2, <2>3
  <2> QED  BY <2>1, <2>4 DEF Shapes, X, Y, Z, N, P, Q
<1> QED  BY <1>4, <1>5, <1>7

(* What is read after the uses are replaced stands for what was read. *)
LEMMA ReplacedReads ==
  ASSUME NEW h, IsVerified(h), NEW g, IsRepair(h, g), NEW n, n = Replaced(g), NEW b \in NodeIds(h)
  PROVE  /\ \A k \in DOMAIN h.body[b] :
               /\ ReadsSame(h, h.body[b][k], n.body[b][k])
               /\ ToSet(n.body[b][k].args) \subseteq Variables(g)
         /\ \A psi \in ToSet(n.phis[b]) :
               /\ Values(psi) \subseteq Variables(g)
               /\ \E phi \in ToSet(h.phis[b]) : MergesSame(h, phi, psi)
<1>1. /\ DOMAIN g.body[b] = DOMAIN h.body[b] /\ g.phis[b] \in Seq(PhiSet(h))
      /\ \A k \in DOMAIN g.body[b] :
            g.body[b][k] \in InstructionSet(h) /\ ToSet(g.body[b][k].args) \subseteq Variables(g)
      /\ \A phi \in ToSet(g.phis[b]) : phi \in PhiSet(h) /\ Values(phi) \subseteq Variables(g)
      /\ Variables(g) \subseteq Variables(h)
  BY RepairReads
<1>2. /\ Len(n.phis[b]) = Len(g.phis[b])
      /\ \A k \in DOMAIN g.body[b] : n.body[b][k] = ReadInstruction(g, g.body[b][k])
      /\ \A m \in DOMAIN g.phis[b] : n.phis[b][m] = ReadPhi(g, g.phis[b][m])
      /\ n.phis[b] \in Seq(PhiSet(h))
  <2>1. n \in Shapes(h)
    BY ReplacedFacts
  <2>2. n.phis[b] \in Seq(PhiSet(h))
    BY <2>1, ShapeFacts, VerifiedFacts
  <2> QED  BY <2>2, ReplacedFacts
<1>3. \A v \in Variables(g) : ReadFor(g, v) \in Variables(g) /\ Stands(h, v, ReadFor(g, v))
  BY ReadForFacts
<1>4. ASSUME NEW k \in DOMAIN h.body[b]
      PROVE  /\ ReadsSame(h, h.body[b][k], n.body[b][k])
             /\ ToSet(n.body[b][k].args) \subseteq Variables(g)
  <2> DEFINE o == h.body[b][k]
             i == g.body[b][k]
             j == n.body[b][k]
  <2>1. i \in InstructionSet(h) /\ ToSet(i.args) \subseteq Variables(g) /\ ReadsSame(h, o, i)
    BY <1>1 DEF IsRepair, IsRewrite
  <2>2. j = ReadInstruction(g, i)
    BY <1>1, <1>2
  <2> HIDE DEF o, i, j
  <2>3. \A v \in ToSet(i.args) : ReadFor(g, v) \in Variables(h)
    BY <1>1, <1>3, <2>1
  <2>4. /\ j.op = i.op /\ j.dest = i.dest /\ j.value = i.value /\ j.targets = i.targets
        /\ Len(j.args) = Len(i.args) /\ \A m \in DOMAIN i.args : j.args[m] = ReadFor(g, i.args[m])
        /\ j \in InstructionSet(h)
    BY <2>1, <2>2, <2>3, ReadInstructionFacts
  <2>5. o \in InstructionSet(h)
    <3>1. o \in ToSet(h.body[b])
      BY DEF ToSet, o
    <3> QED  BY <3>1, InstructionFacts, VerifiedFacts
  <2>6. DOMAIN o.args = DOMAIN i.args /\ DOMAIN j.args = DOMAIN i.args
    <3>1. o.args \in Seq(Variables(h)) /\ i.args \in Seq(Variables(h)) /\ j.args \in Seq(Variables(h))
      BY <2>1, <2>4, <2>5 DEF InstructionSet
    <3> QED  BY <2>1, <2>4, <3>1 DEF ReadsSame
  <2>7. \A m \in DOMAIN o.args : j.args[m] \in Variables(g) /\ Stands(h, o.args[m], j.args[m])
    <3> SUFFICES ASSUME NEW m \in DOMAIN o.args
                 PROVE  j.args[m] \in Variables(g) /\ Stands(h, o.args[m], j.args[m])
      OBVIOUS
    <3>1. m \in DOMAIN i.args /\ i.args[m] \in Variables(g)
      BY <2>1, <2>6 DEF ToSet
    <3>2. j.args[m] = ReadFor(g, i.args[m])
      BY <2>4, <3>1
    <3>3. Stands(h, o.args[m], i.args[m])
      BY <2>1 DEF ReadsSame
    <3>4. Stands(h, i.args[m], j.args[m]) /\ j.args[m] \in Variables(g)
      BY <1>3, <3>1, <3>2
    <3> QED  BY <3>3, <3>4, StandsTransitive
  <2>8. ReadsSame(h, o, j)
    BY <2>1, <2>4, <2>7 DEF ReadsSame
  <2>9. ToSet(j.args) \subseteq Variables(g)
    BY <2>6, <2>7 DEF ToSet
  <2> QED  BY <2>8, <2>9 DEF o, j
<1>5. ASSUME NEW psi \in ToSet(n.phis[b])
      PROVE  /\ Values(psi) \subseteq Variables(g)
             /\ \E phi \in ToSet(h.phis[b]) : MergesSame(h, phi, psi)
  <2>1. PICK m \in DOMAIN n.phis[b] : psi = n.phis[b][m]
    BY DEF ToSet
  <2>2. m \in DOMAIN g.phis[b]
    BY <1>1, <1>2, <2>1
  <2>3. PICK chi : chi = g.phis[b][m]
    OBVIOUS
  <2>4. chi \in ToSet(g.phis[b]) /\ psi = ReadPhi(g, chi)
    BY <1>2, <2>1, <2>2, <2>3 DEF ToSet
  <2>5. chi \in PhiSet(h) /\ Values(chi) \subseteq Variables(g)
    BY <1>1, <2>4
  <2>6. \A v \in Values(chi) : ReadFor(g, v) \in Variables(h)
    BY <1>1, <1>3, <2>5
  <2>7. /\ psi.result = chi.result
        /\ \A p \in ToSet(psi.operands) : \E o \in ToSet(chi.operands) : p = ReadOperand(g, chi, o)
        /\ \A o \in ToSet(chi.operands) : ReadOperand(g, chi, o) \in ToSet(psi.operands)
    BY <2>4, <2>5, <2>6, ReadPhiFacts
  <2>8. \A o \in ToSet(chi.operands) :
           /\ ReadOperand(g, chi, o).pred = o.pred
           /\ ReadOperand(g, chi, o).value \in Variables(g)
           /\ Stands(h, o.value, ReadOperand(g, chi, o).value)
    <3> SUFFICES ASSUME NEW o \in ToSet(chi.operands)
                 PROVE  /\ ReadOperand(g, chi, o).pred = o.pred
                        /\ ReadOperand(g, chi, o).value \in Variables(g)
                        /\ Stands(h, o.value, ReadOperand(g, chi, o).value)
      OBVIOUS
    <3>1. o.value \in Variables(g)
      BY <2>5 DEF Values
    <3>2. o \in [pred : NodeIds(h), value : Variables(h)]
      <4> DEFINE O == [pred : NodeIds(h), value : Variables(h)]
                 s == chi.operands
      <4>1. s \in Seq(O)
        BY <2>5 DEF PhiSet
      <4>2. o \in ToSet(s)
        OBVIOUS
      <4> HIDE DEF O, s
      <4>3. o \in O
        BY <4>1, <4>2 DEF ToSet
      <4> QED  BY <4>3 DEF O
    <3>3. CASE ReadFor(g, o.value) = chi.result
      BY <3>1, <3>3 DEF ReadOperand, Stands, StandsIn
    <3>4. CASE ReadFor(g, o.value) # chi.result
      <4>1. /\ ReadOperand(g, chi, o).pred = o.pred
            /\ ReadOperand(g, chi, o).value = ReadFor(g, o.value)
        BY <3>2, <3>4 DEF ReadOperand
      <4> QED  BY <1>3, <3>1, <4>1
    <3> QED  BY <3>3, <3>4
  <2>9. Values(psi) \subseteq Variables(g)
    BY <2>7, <2>8 DEF Values
  <2>10. PICK phi \in ToSet(h.phis[b]) : MergesSame(h, phi, chi)
    BY <2>4 DEF IsRepair, IsRewrite
  <2>11. \A o \in ToSet(phi.operands) :
            \E p \in ToSet(psi.operands) : p.pred = o.pred /\ Stands(h, o.value, p.value)
    <3> SUFFICES ASSUME NEW o \in ToSet(phi.operands)
                 PROVE  \E p \in ToSet(psi.operands) : p.pred = o.pred /\ Stands(h, o.value, p.value)
      OBVIOUS
    <3>1. PICK q \in ToSet(chi.operands) : q.pred = o.pred /\ Stands(h, o.value, q.value)
      BY <2>10 DEF MergesSame
    <3>2. PICK p \in ToSet(psi.operands) : p = ReadOperand(g, chi, q)
      BY <2>7, <3>1
    <3>3. p.pred = q.pred /\ Stands(h, q.value, p.value)
      BY <2>8, <3>1, <3>2
    <3> QED  BY <3>1, <3>2, <3>3, StandsTransitive
  <2>12. \A p \in ToSet(psi.operands) :
            \E o \in ToSet(phi.operands) : p.pred = o.pred /\ Stands(h, o.value, p.value)
    <3> SUFFICES ASSUME NEW p \in ToSet(psi.operands)
                 PROVE  \E o \in ToSet(phi.operands) : p.pred = o.pred /\ Stands(h, o.value, p.value)
      OBVIOUS
    <3>1. PICK q \in ToSet(chi.operands) : p = ReadOperand(g, chi, q)
      BY <2>7
    <3>2. PICK o \in ToSet(phi.operands) : q.pred = o.pred /\ Stands(h, o.value, q.value)
      BY <2>10, <3>1 DEF MergesSame
    <3>3. p.pred = q.pred /\ Stands(h, q.value, p.value)
      BY <2>8, <3>1
    <3> QED  BY <3>2, <3>3, StandsTransitive
  <2>13. MergesSame(h, phi, psi)
    BY <2>7, <2>10, <2>11, <2>12 DEF MergesSame
  <2> QED  BY <2>9, <2>10, <2>13
<1> QED  BY <1>4, <1>5

(* What dropping phis leaves defined. *)
LEMMA LeftVariables ==
  ASSUME NEW h, IsFunction(h), NEW g \in Shapes(h), NEW results, NEW n, n = WithoutPhis(g, results)
  PROVE  \A v : v \in Variables(g) /\ v \notin results => v \in Variables(n)
<1>1. /\ n \in Shapes(h) /\ n.body = g.body /\ n.initial = g.initial
      /\ \A b \in NodeIds(h) : \A phi :
            phi \in ToSet(n.phis[b]) <=> phi \in ToSet(g.phis[b]) /\ phi.result \notin results
  BY WithoutFacts
<1>2. NodeIds(n) = NodeIds(h) /\ NodeIds(g) = NodeIds(h)
  BY <1>1, ShapeFacts
<1> SUFFICES ASSUME NEW v \in Variables(g), v \notin results, v \notin g.initial.supplied PROVE v \in Variables(n)
  BY <1>1 DEF Variables
<1>3. PICK b \in NodeIds(h) : v \in DefinedIn(g, b)
  BY <1>2 DEF Variables
<1>4. v \in DefinedIn(n, b)
  <2>1. CASE v \in PhiResults(g, b)
    <3>1. PICK phi \in ToSet(g.phis[b]) : phi.result = v
      BY <2>1 DEF PhiResults
    <3>2. phi \in ToSet(n.phis[b])
      BY <1>1, <3>1
    <3> QED  BY <3>1, <3>2 DEF DefinedIn, PhiResults
  <2>2. CASE v \in Dests(g, b)
    BY <1>1, <2>2 DEF DefinedIn, Dests
  <2> QED  BY <1>3, <2>1, <2>2 DEF DefinedIn
<1> QED  BY <1>2, <1>3, <1>4 DEF Variables

(* Replacing defines what was defined. *)
LEMMA ReplacedVariables ==
  ASSUME NEW h, IsVerified(h), NEW g, IsRepair(h, g), NEW n, n = Replaced(g)
  PROVE  Variables(g) \subseteq Variables(n)
<1>1. /\ n \in Shapes(h) /\ n.initial = g.initial
      /\ \A b \in NodeIds(h) :
            /\ Len(n.body[b]) = Len(g.body[b]) /\ Len(n.phis[b]) = Len(g.phis[b])
            /\ \A k \in DOMAIN g.body[b] : n.body[b][k] = ReadInstruction(g, g.body[b][k])
            /\ \A m \in DOMAIN g.phis[b] : n.phis[b][m] = ReadPhi(g, g.phis[b][m])
  BY ReplacedFacts
<1>2. NodeIds(n) = NodeIds(h) /\ NodeIds(g) = NodeIds(h)
      /\ n.body \in [NodeIds(h) -> Seq(InstructionSet(h))] /\ n.phis \in [NodeIds(h) -> Seq(PhiSet(h))]
      /\ g.body \in [NodeIds(h) -> Seq(InstructionSet(h))] /\ g.phis \in [NodeIds(h) -> Seq(PhiSet(h))]
  BY <1>1, ShapeFacts, VerifiedFacts, RepairReads
<1> SUFFICES ASSUME NEW v \in Variables(g), v \notin g.initial.supplied PROVE v \in Variables(n)
  BY <1>1 DEF Variables
<1>3. PICK b \in NodeIds(h) : v \in DefinedIn(g, b)
  BY <1>2 DEF Variables
<1>4. /\ g.body[b] \in Seq(InstructionSet(h)) /\ n.body[b] \in Seq(InstructionSet(h))
      /\ g.phis[b] \in Seq(PhiSet(h)) /\ n.phis[b] \in Seq(PhiSet(h))
  BY <1>2
<1>5. DOMAIN n.body[b] = DOMAIN g.body[b] /\ DOMAIN n.phis[b] = DOMAIN g.phis[b]
  BY <1>1, <1>4
<1>6. v \in DefinedIn(n, b)
  <2>1. CASE v \in PhiResults(g, b)
    <3>1. PICK phi \in ToSet(g.phis[b]) : phi.result = v
      BY <2>1 DEF PhiResults
    <3>2. PICK m \in DOMAIN g.phis[b] : phi = g.phis[b][m]
      BY DEF ToSet
    <3>3. PICK psi : psi = n.phis[b][m]
      OBVIOUS
    <3>4. psi \in ToSet(n.phis[b]) /\ psi = ReadPhi(g, phi)
      BY <1>1, <1>5, <3>2, <3>3 DEF ToSet
    <3>7. phi \in PhiSet(h)
      BY <1>4, <3>2
    <3>5. phi \in [result : Variables(h), operands : Seq([pred : NodeIds(h), value : Variables(h)])]
      BY <3>7 DEF PhiSet
    <3>6. psi.result = phi.result
      BY <3>4, <3>5 DEF ReadPhi
    <3> QED  BY <3>1, <3>4, <3>6 DEF DefinedIn, PhiResults
  <2>2. CASE v \in Dests(g, b)
    <3>1. PICK i \in ToSet(g.body[b]) : i.dest = v /\ v # Nil
      BY <2>2 DEF Dests
    <3>2. PICK m \in DOMAIN g.body[b] : i = g.body[b][m]
      BY DEF ToSet
    <3>3. PICK j : j = n.body[b][m]
      OBVIOUS
    <3>4. j \in ToSet(n.body[b]) /\ j = ReadInstruction(g, i)
      BY <1>1, <1>5, <3>2, <3>3 DEF ToSet
    <3>5. i \in InstructionSet(h)
      BY <1>4, <3>2
    <3>6. j.dest = i.dest
      BY <3>4, <3>5 DEF ReadInstruction, InstructionSet
    <3> QED  BY <3>1, <3>4, <3>6 DEF DefinedIn, Dests
  <2> QED  BY <1>3, <2>1, <2>2 DEF DefinedIn
<1> QED  BY <1>2, <1>3, <1>6 DEF Variables

(* What a rewritten function reads, it still has after a round that drops
   the phis nothing reads. *)
LEMMA StillRead ==
  ASSUME NEW h, IsVerified(h), NEW g, IsRepair(h, g), NEW m, m = Replaced(g),
         NEW gone, gone \cap AllRead(m) = {}, NEW n, n = WithoutPhis(m, gone)
  PROVE  /\ n \in Shapes(h) /\ n.targets = m.targets /\ n.body = m.body /\ n.initial = m.initial
         /\ AllRead(m) \cap Variables(g) \subseteq Variables(n)
         /\ \A b \in NodeIds(h) : \A psi \in ToSet(n.phis[b]) : psi \in ToSet(m.phis[b])
         /\ \A b \in NodeIds(h) : \A psi \in ToSet(m.phis[b]) : Values(psi) \subseteq AllRead(m)
         /\ \A b \in NodeIds(h) : \A k \in DOMAIN m.body[b] : ToSet(m.body[b][k].args) \subseteq AllRead(m)
<1>1. m \in Shapes(h) /\ IsFunction(h)
  BY ReplacedFacts, VerifiedFacts
<1>2. /\ n \in Shapes(h) /\ n.targets = m.targets /\ n.body = m.body /\ n.initial = m.initial
      /\ \A b \in NodeIds(h) : \A psi :
            psi \in ToSet(n.phis[b]) <=> psi \in ToSet(m.phis[b]) /\ psi.result \notin gone
  BY <1>1, WithoutFacts
<1>3. Variables(g) \subseteq Variables(m)
  BY ReplacedVariables
<1>4. \A v : v \in Variables(m) /\ v \notin gone => v \in Variables(n)
  BY <1>1, LeftVariables
<1>5. NodeIds(m) = NodeIds(h)
  BY <1>1, ShapeFacts
<1>6. \A b \in NodeIds(h) : \A psi \in ToSet(m.phis[b]) : Values(psi) \subseteq AllRead(m)
  <2> SUFFICES ASSUME NEW b \in NodeIds(h), NEW psi \in ToSet(m.phis[b]) PROVE Values(psi) \subseteq AllRead(m)
    OBVIOUS
  <2>1. psi \in Phis(m)
    BY <1>5 DEF Phis
  <2>2. Values(psi) \subseteq UNION {Values(phi) : phi \in Phis(m)}
    BY <2>1, Zenon
  <2> DEFINE A == UNION {ToSet(i.args) : i \in Instructions(m)}
             B == UNION {Values(phi) : phi \in Phis(m)}
  <2>4. AllRead(m) = A \cup B
    BY Zenon DEF AllRead
  <2> HIDE DEF A
  <2>3. UNION {Values(phi) : phi \in Phis(m)} \subseteq AllRead(m)
    BY <2>4
  <2> QED  BY <2>2, <2>3, Zenon
<1>7. \A b \in NodeIds(h) : \A k \in DOMAIN m.body[b] : ToSet(m.body[b][k].args) \subseteq AllRead(m)
  <2> SUFFICES ASSUME NEW b \in NodeIds(h), NEW k \in DOMAIN m.body[b]
               PROVE  ToSet(m.body[b][k].args) \subseteq AllRead(m)
    OBVIOUS
  <2>1. PICK i : i = m.body[b][k]
    OBVIOUS
  <2>2. i \in Instructions(m)
    BY <1>5, <2>1 DEF Instructions, ToSet
  <2>3. ToSet(i.args) \subseteq UNION {ToSet(j.args) : j \in Instructions(m)}
    BY <2>2, Zenon
  <2> QED  BY <2>1, <2>3 DEF AllRead
<1> QED  BY <1>2, <1>3, <1>4, <1>6, <1>7

(* A round of eliminate_trivial_phis changes nothing of what is computed. *)
LEMMA RetireKeeps ==
  ASSUME NEW h, IsVerified(h), NEW g, IsRepair(h, g)
  PROVE  IsRepair(h, RetireTrivialPhis(g))
<1>1. PICK m : m = Replaced(g)
  OBVIOUS
<1>2. PICK results : results = {t[1] : t \in TrivialOf(g)}
  OBVIOUS
<1>13. PICK gone : gone = results \ AllRead(m)
  OBVIOUS
<1>14. gone \cap AllRead(m) = {}
  BY <1>13
<1>3. PICK n : n = WithoutPhis(m, gone)
  OBVIOUS
<1>4. n = RetireTrivialPhis(g)
  BY <1>1, <1>2, <1>3, <1>13, RetireInParts
<1>5. /\ m \in Shapes(h) /\ m.targets = g.targets
      /\ \A b \in NodeIds(h) : Len(m.body[b]) = Len(g.body[b])
  BY <1>1, ReplacedFacts
<1>6. \A b \in NodeIds(h) :
         /\ \A k \in DOMAIN h.body[b] :
               /\ ReadsSame(h, h.body[b][k], m.body[b][k])
               /\ ToSet(m.body[b][k].args) \subseteq Variables(g)
         /\ \A psi \in ToSet(m.phis[b]) :
               /\ Values(psi) \subseteq Variables(g)
               /\ \E phi \in ToSet(h.phis[b]) : MergesSame(h, phi, psi)
  BY <1>1, ReplacedReads
<1>7. /\ n \in Shapes(h) /\ n.targets = m.targets /\ n.body = m.body /\ n.initial = m.initial
      /\ AllRead(m) \cap Variables(g) \subseteq Variables(n)
      /\ \A b \in NodeIds(h) : \A psi \in ToSet(n.phis[b]) : psi \in ToSet(m.phis[b])
      /\ \A b \in NodeIds(h) : \A psi \in ToSet(m.phis[b]) : Values(psi) \subseteq AllRead(m)
      /\ \A b \in NodeIds(h) : \A k \in DOMAIN m.body[b] : ToSet(m.body[b][k].args) \subseteq AllRead(m)
  BY <1>1, <1>3, <1>14, StillRead
<1>8. /\ g.targets = h.targets
      /\ \A b \in NodeIds(h) : Len(g.body[b]) = Len(h.body[b])
  BY DEF IsRepair, IsRewrite
<1>9. \A b \in NodeIds(h) : DOMAIN m.body[b] = DOMAIN h.body[b]
  BY <1>5, <1>8, RepairReads, ReplacedFacts, VerifiedFacts, ShapeFacts
<1>10. \A b \in NodeIds(h) : \A k \in DOMAIN h.body[b] :
          ReadsSame(h, h.body[b][k], n.body[b][k]) /\ ToSet(n.body[b][k].args) \subseteq Variables(n)
  BY <1>6, <1>7, <1>9
<1>11. \A b \in NodeIds(h) : \A psi \in ToSet(n.phis[b]) :
          /\ Values(psi) \subseteq Variables(n)
          /\ \E phi \in ToSet(h.phis[b]) : MergesSame(h, phi, psi)
  BY <1>6, <1>7
<1>12. IsRewrite(h, n)
  BY <1>5, <1>7, <1>8, <1>10, <1>11 DEF IsRewrite
<1> QED  BY <1>4, <1>11, <1>12 DEF IsRepair

(* The rounds of eliminate_trivial_phis change nothing either. *)
LEMMA TrivialKeeps ==
  ASSUME NEW h, IsVerified(h), NEW g, IsRepair(h, g)
  PROVE  IsRepair(h, EliminateTrivialPhis(g))
<1> DEFINE N == Cardinality(Phis(g))
           A == {x \in Shapes(h) : IsRepair(h, x)}
           next == [x \in A |-> RetireTrivialPhis(x)]
           Def(C) == C = [k \in 0 .. N |-> IF k = 0 THEN g ELSE RetireTrivialPhis(C[k - 1])]
<1>1. N \in Nat /\ g \in Shapes(h)
  BY PhisAreFinite, VerifiedFacts, RepairReads
<1>2. g \in A /\ \A x \in A : RetireTrivialPhis(x) \in A
  BY <1>1, RetireKeeps, RepairReads
<1>3. next \in [A -> A]
  BY <1>2
<1>4. \A x \in A : next[x] = RetireTrivialPhis(x)
  OBVIOUS
<1>5. EliminateTrivialPhis(g) = (CHOOSE C : Def(C))[N]
  BY Zenon DEF EliminateTrivialPhis
<1> HIDE DEF N, A, next
<1>6. \E C : C = [k \in 0 .. N |-> IF k = 0 THEN g ELSE next[C[k - 1]]] /\ \A k \in 0 .. N : C[k] \in A
  BY <1>1, <1>2, <1>3, IteratesExist
<1>7. PICK C : C = [k \in 0 .. N |-> IF k = 0 THEN g ELSE next[C[k - 1]]] /\ \A k \in 0 .. N : C[k] \in A
  BY <1>6
<1>8. \A k \in 0 .. N : (IF k = 0 THEN g ELSE next[C[k - 1]]) = (IF k = 0 THEN g ELSE RetireTrivialPhis(C[k - 1]))
  <2> SUFFICES ASSUME NEW k \in 0 .. N, k # 0 PROVE next[C[k - 1]] = RetireTrivialPhis(C[k - 1])
    BY Zenon
  <2>1. k - 1 \in 0 .. N
    BY <1>1
  <2> QED  BY <1>4, <1>7, <2>1
<1>9. Def(C)
  BY <1>7, <1>8, Zenon
<1>10. PICK D : D = (CHOOSE X : Def(X))
  OBVIOUS
<1>11. Def(D)
  BY <1>9, <1>10, Zenon
<1>12. \A k \in 0 .. N : D[k] = IF k = 0 THEN g ELSE RetireTrivialPhis(D[k - 1])
  BY <1>11, Zenon
<1>13. D[0] \in A /\ \A k \in 1 .. N : D[k - 1] \in A => D[k] \in A
  BY <1>1, <1>2, <1>12
<1>14. D[N] \in A
  BY <1>1, <1>13, IteratesIn
<1> QED  BY <1>5, <1>10, <1>14 DEF A

(* eliminate_dead_phis keeps every phi an instruction reads. *)
LEMMA DeadKeeps ==
  ASSUME NEW h, IsVerified(h), NEW g, IsRepair(h, g)
  PROVE  IsRewrite(h, EliminateDeadPhis(g))
<1> DEFINE N == Cardinality(Phis(g))
           base == UNION {ToSet(i.args) : i \in Instructions(g)}
           grow(s) == s \cup UNION {Values(p) : p \in {q \in Phis(g) : q.result \in s}}
           U == base \cup UNION {Values(p) : p \in Phis(g)}
           A == {s \in SUBSET U : base \subseteq s}
           next == [s \in A |-> grow(s)]
           Def(C) == C = [k \in 0 .. N |-> IF k = 0 THEN base ELSE grow(C[k - 1])]
<1>1. N \in Nat /\ g \in Shapes(h) /\ IsFunction(h)
  BY PhisAreFinite, VerifiedFacts, RepairReads
<1>2. base \in A /\ \A s \in A : grow(s) \in A
  OBVIOUS
<1>3. next \in [A -> A] /\ \A s \in A : next[s] = grow(s)
  BY <1>2
<1>4. EliminateDeadPhis(g) = WithoutPhis(g, {phi.result : phi \in Phis(g)} \ ((CHOOSE C : Def(C))[N]))
  BY Zenon DEF EliminateDeadPhis
<1> HIDE DEF N, A, next, base, grow, U
<1>5. next \in [A -> A] /\ base \in A
  BY <1>2, <1>3
<1>25. \A B \in A : \E C : C = [k \in 0 .. N |-> IF k = 0 THEN B ELSE next[C[k - 1]]] /\ \A k \in 0 .. N : C[k] \in A
  <2>1. N \in Nat /\ next \in [A -> A]
    BY <1>1, <1>5
  <2> QED  BY ONLY <2>1, IteratesFrom
<1>6. \E C : C = [k \in 0 .. N |-> IF k = 0 THEN base ELSE next[C[k - 1]]] /\ \A k \in 0 .. N : C[k] \in A
  BY <1>5, <1>25, Zenon
<1>7. PICK C : C = [k \in 0 .. N |-> IF k = 0 THEN base ELSE next[C[k - 1]]] /\ \A k \in 0 .. N : C[k] \in A
  BY <1>6
<1>8. \A k \in 0 .. N : (IF k = 0 THEN base ELSE next[C[k - 1]]) = (IF k = 0 THEN base ELSE grow(C[k - 1]))
  <2> SUFFICES ASSUME NEW k \in 0 .. N, k # 0 PROVE next[C[k - 1]] = grow(C[k - 1])
    BY Zenon
  <2>1. k - 1 \in 0 .. N
    BY <1>1
  <2> QED  BY <1>3, <1>7, <2>1
<1>9. Def(C)
  BY <1>7, <1>8, Zenon
<1>10. PICK D : D = (CHOOSE X : Def(X))
  OBVIOUS
<1>11. Def(D)
  BY <1>9, <1>10, Zenon
<1>12. \A k \in 0 .. N : D[k] = IF k = 0 THEN base ELSE grow(D[k - 1])
  BY <1>11, Zenon
<1>13. D[0] \in A /\ \A k \in 1 .. N : D[k - 1] \in A => D[k] \in A
  BY <1>1, <1>2, <1>12
<1>14. D[N] \in A
  BY <1>1, <1>13, IteratesIn
<1>15. base \subseteq D[N]
  BY <1>14 DEF A
<1>16. PICK results : results = {phi.result : phi \in Phis(g)} \ D[N]
  OBVIOUS
<1>17. PICK n : n = WithoutPhis(g, results)
  OBVIOUS
<1>18. n = EliminateDeadPhis(g)
  BY <1>4, <1>10, <1>16, <1>17
<1>19. /\ n \in Shapes(h) /\ n.targets = g.targets /\ n.body = g.body /\ n.initial = g.initial
       /\ \A b \in NodeIds(h) : \A phi :
             phi \in ToSet(n.phis[b]) <=> phi \in ToSet(g.phis[b]) /\ phi.result \notin results
  BY <1>1, <1>17, WithoutFacts
<1>20. \A v : v \in Variables(g) /\ v \notin results => v \in Variables(n)
  BY <1>1, <1>17, LeftVariables
<1>21. NodeIds(g) = NodeIds(h) /\ \A b \in NodeIds(h) : DOMAIN g.body[b] = DOMAIN h.body[b]
  BY RepairReads
<1>22. \A b \in NodeIds(h) : \A k \in DOMAIN h.body[b] : ToSet(g.body[b][k].args) \subseteq base
  BY <1>21 DEF base, Instructions, ToSet
<1>23. IsRewrite(h, g)
  BY DEF IsRepair
<1>24. \A b \in NodeIds(h) : \A k \in DOMAIN h.body[b] : ToSet(n.body[b][k].args) \subseteq Variables(n)
  BY <1>15, <1>16, <1>19, <1>20, <1>22, <1>23 DEF IsRewrite
<1> QED  BY <1>18, <1>19, <1>23, <1>24 DEF IsRewrite

(* repair_ssa changes nothing of what is computed. *)
LEMMA RepairKeeps ==
  ASSUME NEW h, IsVerified(h)
  PROVE  IsRewrite(h, RepairSsa(h))
BY RepairStarts, TrivialKeeps, DeadKeeps DEF RepairSsa

-----------------------------------------------------------------------------
(* The repaired function and the folded one, side by side *)

(* The values of V, as far as they are known, are the same. *)
AgreeOn(V, e, y) ==
    \A v \in V : /\ v \in DOMAIN e <=> v \in DOMAIN y
                 /\ v \in DOMAIN e => e[v] = y[v]

(* One instruction computes what the other does. *)
DoesSame(i, e, j, y) ==
    /\ j.op = i.op /\ j.dest = i.dest /\ j.value = i.value /\ DOMAIN j.args = DOMAIN i.args
    /\ ToSet(i.args) \subseteq DOMAIN e /\ ToSet(j.args) \subseteq DOMAIN y
    /\ \A m \in DOMAIN i.args : e[i.args[m]] = y[j.args[m]]

(* What one instruction may leave, the other one may. *)
LEMMA StepsAgree ==
  ASSUME NEW V, NEW i, NEW e, NEW j, NEW y, DoesSame(i, e, j, y), AgreeOn(V, e, y), NEW c \in Execute(i, e)
  PROVE  \E d \in Execute(j, y) : AgreeOn(V, c, d)
<1> DEFINE Arg(k) == IF k \in DOMAIN i.args THEN e[i.args[k]] ELSE 0
           Brg(k) == IF k \in DOMAIN j.args THEN y[j.args[k]] ELSE 0
<1>1. Arg(1) = Brg(1) /\ Arg(2) = Brg(2)
  BY DEF DoesSame
<1>2. ToSet(i.args) \subseteq DOMAIN e /\ ToSet(j.args) \subseteq DOMAIN y
  BY DEF DoesSame
<1>3. CASE i.dest = Nil
  <2>1. c = e /\ y \in Execute(j, y)
    BY <1>2, <1>3 DEF Execute, DoesSame
  <2> QED  BY <2>1
<1>4. CASE i.dest # Nil
  <2> DEFINE W(env, x) == [v \in DOMAIN env \cup {i.dest} |-> IF v = i.dest THEN x ELSE env[v]]
  <2>1. Execute(i, e) = {W(e, x) : x \in Computed(i.op, i.value, Arg(1), Arg(2))}
    BY <1>2, <1>4, Zenon DEF Execute
  <2>2. Execute(j, y) = {W(y, x) : x \in Computed(i.op, i.value, Brg(1), Brg(2))}
    <3>1. j.dest # Nil /\ j.dest = i.dest /\ j.op = i.op /\ j.value = i.value
      BY <1>4 DEF DoesSame
    <3>2. Execute(j, y) = {[v \in DOMAIN y \cup {j.dest} |-> IF v = j.dest THEN x ELSE y[v]] :
                              x \in Computed(j.op, j.value, Brg(1), Brg(2))}
      BY <1>2, <3>1, Zenon DEF Execute
    <3> QED  BY <3>1, <3>2
  <2> HIDE DEF Arg, Brg
  <2>3. PICK x \in Computed(i.op, i.value, Arg(1), Arg(2)) : c = W(e, x)
    BY <2>1
  <2>4. W(y, x) \in Execute(j, y)
    BY <1>1, <2>2, <2>3
  <2>5. AgreeOn(V, W(e, x), W(y, x))
    BY DEF AgreeOn
  <2> QED  BY <2>3, <2>4, <2>5
<1> QED  BY <1>3, <1>4

(* Agreement has no direction. *)
LEMMA AgreeSymmetric ==
  ASSUME NEW V, NEW e, NEW y, AgreeOn(V, e, y)
  PROVE  AgreeOn(V, y, e)
BY DEF AgreeOn

(* Nor has doing the same. *)
LEMMA DoesSameSymmetric ==
  ASSUME NEW i, NEW e, NEW j, NEW y, DoesSame(i, e, j, y)
  PROVE  DoesSame(j, y, i, e)
BY DEF DoesSame

(* A terminator goes where the other one does. *)
LEMMA TargetsAgree ==
  ASSUME NEW i, NEW e, NEW j, NEW y, DoesSame(i, e, j, y), HasItsOperands(i), j.targets = i.targets,
         DOMAIN i.args = 1 .. Len(i.args)
  PROVE  Target(i, e) = Target(j, y)
<1>1. i.op \in {"branch", "switch"} => 1 \in DOMAIN i.args
  BY DEF HasItsOperands
<1>2. i.op \in {"branch", "switch"} => e[i.args[1]] = y[j.args[1]]
  BY <1>1 DEF DoesSame
<1>3. j.op = i.op
  BY DEF DoesSame
<1> QED  BY <1>2, <1>3 DEF Target

(* An instruction that reads what is equal does the same. *)
LEMMA ReadsAgree ==
  ASSUME NEW h, IsVerified(h), NEW b \in ReachableFrom(SsaCfg(h), 0), NEW k \in Nat, k <= Len(h.body[b]) + 1,
         NEW e, Ready(h, b, k, e), NEW i \in InstructionSet(h), ToSet(i.args) \subseteq DefinedBefore(h, b, k) \ {Nil},
         NEW j \in InstructionSet(h), ReadsSame(h, i, j), NEW V, ToSet(j.args) \subseteq V,
         NEW y, AgreeOn(V, e, y)
  PROVE  DoesSame(i, e, j, y)
<1>1. i.args \in Seq(Variables(h)) /\ j.args \in Seq(Variables(h))
  BY DEF InstructionSet
<1>2. DOMAIN i.args = DOMAIN j.args
  BY <1>1 DEF ReadsSame
<1>3. ASSUME NEW m \in DOMAIN i.args
      PROVE  i.args[m] \in DOMAIN e /\ j.args[m] \in DOMAIN y /\ e[i.args[m]] = y[j.args[m]]
  <2>1. i.args[m] \in DefinedBefore(h, b, k) /\ i.args[m] # Nil /\ j.args[m] \in V
    BY <1>2 DEF ToSet
  <2>2. Stands(h, i.args[m], j.args[m])
    BY DEF ReadsSame
  <2>3. i.args[m] \in DOMAIN e /\ j.args[m] \in DOMAIN e /\ e[i.args[m]] = e[j.args[m]]
    BY <2>1, <2>2, ReadyStands
  <2> QED  BY <2>1, <2>3 DEF AgreeOn
<1>4. ToSet(i.args) \subseteq DOMAIN e /\ ToSet(j.args) \subseteq DOMAIN y
  BY <1>2, <1>3 DEF ToSet
<1> QED  BY <1>2, <1>3, <1>4 DEF DoesSame, ReadsSame

(* A phi takes the value of one of its operands. *)
LEMMA EnterSome ==
  ASSUME NEW f, NEW r, CanEnter(f, r), NEW v \in PhiResults(f, r.at)
  PROVE  \E phi \in ToSet(f.phis[r.at]) :
            phi.result = v /\ \E o \in OperandsFrom(phi, r.from) : EnterBlock(f, r)[v] = r.env[o.value]
<1> DEFINE phi == CHOOSE p \in ToSet(f.phis[r.at]) : p.result = v
           o == CHOOSE q \in OperandsFrom(phi, r.from) : TRUE
<1>1. phi \in ToSet(f.phis[r.at]) /\ phi.result = v
  BY DEF PhiResults
<1>2. EnterBlock(f, r)[v] = r.env[o.value]
  BY DEF EnterBlock
<1> HIDE DEF phi
<1>3. o \in OperandsFrom(phi, r.from)
  BY <1>1 DEF CanEnter
<1> HIDE DEF o
<1> QED  BY <1>1, <1>2, <1>3

(* On the way into a block the operand of a phi and what it stands for are equal. *)
LEMMA OperandsAgree ==
  ASSUME NEW h, IsVerified(h), NEW r, ExecInv(h, r), AgreeInv(h, r), r.at # Nil,
         NEW phi \in ToSet(h.phis[r.at]), NEW o \in ToSet(phi.operands), o.pred = r.from,
         NEW v, Stands(h, o.value, v)
  PROVE  o.value \in DOMAIN r.env /\ v \in DOMAIN r.env /\ r.env[o.value] = r.env[v]
<1> DEFINE b == r.at
           p == r.from
           env == r.env
           n == Len(h.body[p]) + 1
<1>1. /\ b \in ReachableFrom(SsaCfg(h), 0)
      /\ p = Nil => b = 0
      /\ p # Nil => p \in ReachableFrom(SsaCfg(h), 0)
  BY DEF ExecInv
<1>2. b # 0 /\ (o.pred \in ReachableFrom(SsaCfg(h), 0) => IsThere(h, o.value, o.pred))
  BY <1>1, OperandIsThere
<1>3. p # Nil
  BY <1>1, <1>2
<1>4. Ready(h, p, n, env) /\ p \in ReachableFrom(SsaCfg(h), 0) /\ IsThere(h, o.value, p)
  BY <1>1, <1>2, <1>3 DEF AgreeInv
<1>5. n \in Nat /\ n <= Len(h.body[p]) + 1
  BY <1>4, VerifiedFacts
<1>6. o.value \in DefinedBefore(h, p, n) /\ o.value # Nil
  BY <1>4, ThereFacts
<1> HIDE DEF b, p, env, n
<1>7. o.value \in DOMAIN env /\ v \in DOMAIN env /\ env[o.value] = env[v]
  BY <1>4, <1>5, <1>6, ReadyStands
<1> QED  BY <1>7 DEF env

(* A phi the repaired function still has a definition of is still there. *)
LEMMA PhiIsLeft ==
  ASSUME NEW h, IsVerified(h), NEW n, IsRewrite(h, n), NEW b \in NodeIds(h),
         NEW v \in Variables(n), v \in PhiResults(h, b)
  PROVE  v \in PhiResults(n, b)
<1>1. n \in Shapes(h) /\ IsFunction(h)
  BY VerifiedFacts DEF IsRewrite
<1>2. /\ NodeIds(n) = NodeIds(h) /\ n.initial = h.initial
      /\ n.body \in [NodeIds(h) -> Seq(InstructionSet(h))]
      /\ h.body \in [NodeIds(h) -> Seq(InstructionSet(h))]
  BY <1>1, ShapeFacts, VerifiedFacts DEF IsExecutable
<1>3. v \in DefinedIn(h, b)
  BY DEF DefinedIn
<1>4. v \notin h.initial.supplied /\ \A d \in NodeIds(h) : v \in DefinedIn(h, d) => d = b
  BY <1>3, DefinedOnce
<1>5. PICK d \in NodeIds(h) : v \in DefinedIn(n, d)
  BY <1>2, <1>4 DEF Variables
<1>6. CASE v \in PhiResults(n, d)
  <2>1. PICK psi \in ToSet(n.phis[d]) : psi.result = v
    BY <1>6 DEF PhiResults
  <2>2. PICK phi \in ToSet(h.phis[d]) : phi.result = psi.result
    BY <2>1 DEF IsRewrite, MergesSame
  <2>3. v \in DefinedIn(h, d)
    BY <2>1, <2>2 DEF DefinedIn, PhiResults
  <2> QED  BY <1>4, <1>6, <2>3
<1>7. CASE v \in Dests(n, d)
  <2>1. PICK j \in ToSet(n.body[d]) : j.dest = v /\ v # Nil
    BY <1>7 DEF Dests
  <2>2. PICK k \in DOMAIN n.body[d] : j = n.body[d][k]
    BY DEF ToSet
  <2>3. Len(n.body[d]) = Len(h.body[d])
    BY DEF IsRewrite
  <2>4. k \in DOMAIN h.body[d]
    <3>1. n.body[d] \in Seq(InstructionSet(h)) /\ h.body[d] \in Seq(InstructionSet(h))
      BY <1>2
    <3> QED  BY <2>2, <2>3, <3>1
  <2>5. h.body[d][k].dest = v
    BY <2>1, <2>2, <2>4 DEF IsRewrite, ReadsSame
  <2>6. v \in Dests(h, d)
    BY <2>1, <2>4, <2>5 DEF Dests, ToSet
  <2>7. d = b
    BY <1>4, <2>6 DEF DefinedIn
  <2>8. PhiResults(h, b) \cap Dests(h, b) = {}
    BY VerifiedFacts DEF IsSingleAssignment
  <2> QED  BY <2>6, <2>7, <2>8
<1> QED  BY <1>5, <1>6, <1>7 DEF DefinedIn

(* The repaired function can be entered, and has the same values then. *)
LEMMA EnterAgrees ==
  ASSUME NEW h, IsVerified(h), NEW n, IsRewrite(h, n),
         NEW r, ExecInv(h, r), AgreeInv(h, r), r.at # Nil
  PROVE  /\ CanEnter(n, r) /\ EnterBlock(n, r) \in Environments(h)
         /\ AgreeOn(Variables(n), EnterBlock(h, r), EnterBlock(n, r))
<1> DEFINE b == r.at
           p == r.from
           env == r.env
           e == EnterBlock(h, r)
           y == EnterBlock(n, r)
<1>1. CanEnter(h, r) /\ Ready(h, r.at, 1, EnterBlock(h, r))
  BY EnterReady
<1>2. r.at \in ReachableFrom(SsaCfg(h), 0) /\ r.at \in NodeIds(h) /\ r.env \in Environments(h)
  BY VerifiedFacts DEF ExecInv
<1>3. OneOperand(h, r.at)
  BY <1>2, VerifiedOneOperand
<1>4. ASSUME NEW psi \in ToSet(n.phis[r.at])
      PROVE  \E phi \in ToSet(h.phis[r.at]) : MergesSame(h, phi, psi)
  BY <1>2 DEF IsRewrite
<1>5. ASSUME NEW psi \in ToSet(n.phis[r.at]), NEW q \in OperandsFrom(psi, r.from)
      PROVE  q.value \in DOMAIN r.env /\ EnterBlock(h, r)[psi.result] = r.env[q.value]
  <2>1. PICK phi \in ToSet(h.phis[r.at]) : MergesSame(h, phi, psi)
    BY <1>4
  <2>2. q \in ToSet(psi.operands) /\ q.pred = r.from
    BY DEF OperandsFrom
  <2>3. PICK o \in ToSet(phi.operands) : q.pred = o.pred /\ Stands(h, o.value, q.value)
    BY <2>1, <2>2 DEF MergesSame
  <2>4. o.value \in DOMAIN r.env /\ q.value \in DOMAIN r.env /\ r.env[o.value] = r.env[q.value]
    <3>1. phi \in ToSet(h.phis[r.at]) /\ o \in ToSet(phi.operands) /\ o.pred = r.from
      BY <2>1, <2>2, <2>3
    <3>2. Stands(h, o.value, q.value)
      BY <2>3
    <3> QED  BY <3>1, <3>2, OperandsAgree
  <2>5. o \in OperandsFrom(phi, r.from) /\ psi.result = phi.result
    BY <2>1, <2>2, <2>3 DEF OperandsFrom, MergesSame
  <2>6. EnterBlock(h, r)[phi.result] = r.env[o.value]
    BY <1>3, <2>5, EnterPhi
  <2> QED  BY <2>4, <2>5, <2>6
<1>6. CanEnter(n, r)
  <2> SUFFICES ASSUME NEW psi \in ToSet(n.phis[r.at]) PROVE OperandsFrom(psi, r.from) # {}
    BY <1>5 DEF CanEnter
  <2>1. PICK phi \in ToSet(h.phis[r.at]) : MergesSame(h, phi, psi)
    BY <1>4
  <2>2. PICK o \in ToSet(phi.operands) : o.pred = r.from
    BY <1>1 DEF CanEnter, OperandsFrom
  <2> QED  BY <2>1, <2>2 DEF MergesSame, OperandsFrom
<1>7. PhiResults(n, r.at) \subseteq PhiResults(h, r.at)
  <2> SUFFICES ASSUME NEW psi \in ToSet(n.phis[r.at]) PROVE psi.result \in PhiResults(h, r.at)
    BY DEF PhiResults
  <2> QED  BY <1>4 DEF MergesSame, PhiResults
<1>8. \A v \in Variables(n) : v \in PhiResults(h, r.at) => v \in PhiResults(n, r.at)
  BY <1>2, PhiIsLeft
<1>9. /\ DOMAIN EnterBlock(h, r) = PhiResults(h, r.at) \cup DOMAIN r.env
      /\ DOMAIN EnterBlock(n, r) = PhiResults(n, r.at) \cup DOMAIN r.env
      /\ IsMap(EnterBlock(n, r))
  BY EnterValues
<1>10. \A v \in PhiResults(n, r.at) : EnterBlock(n, r)[v] = EnterBlock(h, r)[v]
  <2> SUFFICES ASSUME NEW v \in PhiResults(n, r.at) PROVE EnterBlock(n, r)[v] = EnterBlock(h, r)[v]
    OBVIOUS
  <2>1. PICK psi \in ToSet(n.phis[r.at]) :
           psi.result = v /\ \E q \in OperandsFrom(psi, r.from) : EnterBlock(n, r)[v] = r.env[q.value]
    BY <1>6, EnterSome
  <2> QED  BY <1>5, <2>1
<1>11. \A v \in DOMAIN r.env \ PhiResults(n, r.at) : EnterBlock(n, r)[v] = r.env[v]
  BY EnterOther
<1>12. \A v \in DOMAIN r.env \ PhiResults(h, r.at) : EnterBlock(h, r)[v] = r.env[v]
  BY EnterOther
<1>13. AgreeOn(Variables(n), EnterBlock(h, r), EnterBlock(n, r))
  <2> SUFFICES ASSUME NEW v \in Variables(n)
               PROVE  /\ v \in DOMAIN e <=> v \in DOMAIN y
                      /\ v \in DOMAIN e => e[v] = y[v]
    BY DEF AgreeOn
  <2>1. CASE v \in PhiResults(h, r.at)
    BY <1>8, <1>9, <1>10, <2>1
  <2>2. CASE v \notin PhiResults(h, r.at)
    BY <1>7, <1>9, <1>11, <1>12, <2>2
  <2> QED  BY <2>1, <2>2
<1>14. EnterBlock(n, r) \in Environments(h)
  <2> HIDE DEF e, y
  <2>1. /\ DOMAIN e \subseteq Variables(h) /\ \A v \in DOMAIN e : e[v] \in NoMin .. NoMax
        /\ DOMAIN env \subseteq Variables(h) /\ \A v \in DOMAIN env : env[v] \in NoMin .. NoMax
    BY <1>1, <1>2, EnvironmentFacts DEF Ready, e
  <2>2. DOMAIN y \subseteq DOMAIN e
    BY <1>7, <1>9 DEF e, y
  <2>3. \A v \in DOMAIN y : y[v] \in NoMin .. NoMax
    <3> SUFFICES ASSUME NEW v \in DOMAIN y PROVE y[v] \in NoMin .. NoMax
      OBVIOUS
    <3>1. CASE v \in PhiResults(n, r.at)
      BY <1>10, <2>1, <2>2, <3>1 DEF e, y
    <3>2. CASE v \notin PhiResults(n, r.at)
      BY <1>9, <1>11, <2>1, <3>2 DEF y
    <3> QED  BY <3>1, <3>2
  <2>4. y = [v \in DOMAIN y |-> y[v]]
    BY <1>9 DEF IsMap, y
  <2>5. y \in Environments(h)
    BY <2>1, <2>2, <2>3, <2>4, EnvironmentFacts
  <2> QED  BY <2>5 DEF y
<1> QED  BY <1>6, <1>13, <1>14

(* Values that agree on V, whichever of the two one begins with. *)
BothAgree(V, E, F) ==
    /\ \A e \in E : \E y \in F : AgreeOn(V, e, y)
    /\ \A y \in F : \E e \in E : AgreeOn(V, e, y)

(* An instruction of the folded function, and what became of it. *)
IsStep(h, n, b, k) ==
    /\ h.body[b][k] \in InstructionSet(h) /\ n.body[b][k] \in InstructionSet(h)
    /\ ReadsSame(h, h.body[b][k], n.body[b][k])
    /\ ToSet(n.body[b][k].args) \subseteq Variables(n)
    /\ ToSet(h.body[b][k].args) \subseteq DefinedBefore(h, b, k) \ {Nil}

(* Every instruction became one that does the same. *)
LEMMA RewriteSteps ==
  ASSUME NEW h, IsVerified(h), NEW n, IsRewrite(h, n), NEW b \in ReachableFrom(SsaCfg(h), 0)
  PROVE  /\ b \in NodeIds(h) /\ h.body[b] \in Seq(InstructionSet(h)) /\ n.body[b] \in Seq(InstructionSet(h))
         /\ Len(n.body[b]) = Len(h.body[b])
         /\ \A k \in DOMAIN h.body[b] : IsStep(h, n, b, k)
<1>1. /\ b \in NodeIds(h) /\ IsFunction(h) /\ n \in Shapes(h) /\ IsExecutable(h) /\ Nil \notin Variables(h)
      /\ h.body[b] \in Seq(InstructionSet(h))
  BY VerifiedFacts DEF IsRewrite
<1>2. n.body[b] \in Seq(InstructionSet(h))
  BY <1>1, ShapeFacts
<1>3. Len(n.body[b]) = Len(h.body[b]) /\ DOMAIN n.body[b] = DOMAIN h.body[b]
  BY <1>1, <1>2 DEF IsRewrite
<1>4. ASSUME NEW k \in DOMAIN h.body[b] PROVE IsStep(h, n, b, k)
  <2>1. h.body[b][k] \in InstructionSet(h) /\ n.body[b][k] \in InstructionSet(h)
    BY <1>1, <1>2, <1>3
  <2>2. ToSet(h.body[b][k].args) \subseteq DefinedBefore(h, b, k)
    BY DEF IsVerified, IsStrict
  <2>3. ToSet(h.body[b][k].args) \subseteq Variables(h)
    <3> DEFINE i == h.body[b][k]
    <3>1. i \in ToSet(h.body[b])
      BY DEF ToSet
    <3> HIDE DEF i
    <3>2. ToSet(i.args) \subseteq Variables(h)
      BY <1>1, <3>1, InstructionFacts
    <3> QED  BY <3>2 DEF i
  <2> QED  BY <1>1, <2>1, <2>2, <2>3 DEF IsStep, IsRewrite
<1> QED  BY <1>1, <1>2, <1>3, <1>4

(* The instructions of a block leave values that agree. *)
LEMMA RunsAgree ==
  ASSUME NEW h, IsVerified(h), NEW n, IsRewrite(h, n), NEW b \in ReachableFrom(SsaCfg(h), 0),
         NEW e, Ready(h, b, 1, e), NEW y \in Environments(h), AgreeOn(Variables(n), e, y)
  PROVE  BothAgree(Variables(n), RunAll({e}, h.body[b]), RunAll({y}, n.body[b]))
<1> DEFINE s == h.body[b]
           t == n.body[b]
           G == Environments(h)
           A == SUBSET G
           V == Variables(n)
           T == {i \in InstructionSet(h) : HasItsOperands(i) /\ (i.dest # Nil => i.op \in ValueOps)}
           Good(k, E, F) == (\A x \in E : Ready(h, b, k + 1, x)) /\ BothAgree(V, E, F)
           Rel == [k \in 0 .. Len(s) |-> {w \in A \X A : Good(k, w[1], w[2])}]
<1>1. /\ b \in NodeIds(h) /\ s \in Seq(InstructionSet(h)) /\ t \in Seq(InstructionSet(h)) /\ Len(t) = Len(s)
      /\ \A k \in DOMAIN s : IsStep(h, n, b, k)
  BY RewriteSteps
<1>2. \A k \in DOMAIN s : s[k] \in T /\ t[k] \in T
  <2> SUFFICES ASSUME NEW k \in DOMAIN s PROVE s[k] \in T /\ t[k] \in T
    OBVIOUS
  <2>1. IsStep(h, n, b, k)
    BY <1>1
  <2>2. s[k] \in ToSet(s)
    BY DEF ToSet
  <2>3. HasItsOperands(s[k]) /\ (s[k].dest # Nil => s[k].op \in ValueOps)
    BY <1>1, <2>2, VerifiedFacts, InstructionFacts
  <2> DEFINE i == s[k]
             j == t[k]
  <2>4. /\ i \in InstructionSet(h) /\ j \in InstructionSet(h) /\ ReadsSame(h, i, j)
        /\ HasItsOperands(i) /\ (i.dest # Nil => i.op \in ValueOps)
    BY <2>1, <2>3 DEF IsStep
  <2> SUFFICES i \in T /\ j \in T
    OBVIOUS
  <2> HIDE DEF i, j
  <2>5. HasItsOperands(j) /\ (j.dest # Nil => j.op \in ValueOps)
    BY <2>4 DEF ReadsSame, HasItsOperands
  <2> QED  BY <2>4, <2>5
<1>3. s \in Seq(T) /\ t \in Seq(T)
  <2> HIDE DEF s, t, T
  <2>1. DOMAIN s = 1 .. Len(s) /\ DOMAIN t = 1 .. Len(t)
    BY <1>1
  <2> QED  BY <1>1, <1>2, <2>1
<1>4. \A i \in T : \A x \in G : Execute(i, x) \subseteq G
  BY ExecuteFacts
<1>5. \A envs \in A : \A i \in T : Executed(i, envs) \in A
  <2> HIDE DEF T, G
  <2> QED  BY <1>4 DEF Executed
<1>6. e \in G /\ {e} \in A /\ {y} \in A
  BY DEF Ready
<1>7. ASSUME NEW k \in DOMAIN s, NEW x \in G, Ready(h, b, k, x), NEW z, AgreeOn(V, x, z)
      PROVE  DoesSame(s[k], x, t[k], z)
  <2>1. k \in Nat /\ k <= Len(h.body[b]) + 1
    BY <1>1
  <2>2. IsStep(h, n, b, k)
    BY <1>1
  <2> DEFINE i == s[k]
             j == t[k]
  <2>3. /\ i \in InstructionSet(h) /\ j \in InstructionSet(h) /\ ReadsSame(h, i, j)
        /\ ToSet(j.args) \subseteq V /\ ToSet(i.args) \subseteq DefinedBefore(h, b, k) \ {Nil}
    BY <2>2 DEF IsStep
  <2> SUFFICES DoesSame(i, x, j, z)
    OBVIOUS
  <2> HIDE DEF i, j, V
  <2> QED  BY <1>7, <2>1, <2>3, ReadsAgree
<1>8. ASSUME NEW k \in DOMAIN s, NEW x, Ready(h, b, k, x), NEW z \in Execute(s[k], x)
      PROVE  Ready(h, b, k + 1, z)
  BY <1>8, ExecuteReady
<1> HIDE DEF s, t, G, V, T
<1>9. DOMAIN s = 1 .. Len(s) /\ Len(s) \in Nat
  BY <1>1
<1>10. ASSUME NEW k \in 1 .. Len(s), NEW E \in A, NEW F \in A, <<E, F>> \in Rel[k - 1]
       PROVE  <<Executed(s[k], E), Executed(t[k], F)>> \in Rel[k]
  <2>1. k \in DOMAIN s /\ k \in 0 .. Len(s) /\ k - 1 \in 0 .. Len(s) /\ (k - 1) + 1 = k
    BY <1>9
  <2>2. (\A x \in E : Ready(h, b, k, x)) /\ BothAgree(V, E, F)
    BY <1>10, <2>1
  <2> DEFINE X == Executed(s[k], E)
             Y == Executed(t[k], F)
  <2>3. X \in A /\ Y \in A
    <3>1. s[k] \in T /\ t[k] \in T
      BY <1>2, <2>1
    <3> QED  BY <1>5, <3>1
  <2>4. \A x \in X : Ready(h, b, k + 1, x)
    BY <1>8, <2>1, <2>2 DEF Executed
  <2>5. ASSUME NEW x \in X PROVE \E z \in Y : AgreeOn(V, x, z)
    <3>1. PICK v \in E : x \in Execute(s[k], v)
      BY DEF Executed
    <3>2. PICK w \in F : AgreeOn(V, v, w)
      BY <2>2, <3>1 DEF BothAgree
    <3>3. v \in G
      BY <3>1
    <3>4. DoesSame(s[k], v, t[k], w)
      BY <1>7, <2>1, <2>2, <3>1, <3>2, <3>3
    <3>5. PICK z \in Execute(t[k], w) : AgreeOn(V, x, z)
      BY <3>1, <3>2, <3>4, StepsAgree
    <3> QED  BY <3>2, <3>5 DEF Executed
  <2>6. ASSUME NEW z \in Y PROVE \E x \in X : AgreeOn(V, x, z)
    <3>1. PICK w \in F : z \in Execute(t[k], w)
      BY DEF Executed
    <3>2. PICK v \in E : AgreeOn(V, v, w)
      BY <2>2, <3>1 DEF BothAgree
    <3>3. v \in G
      BY <3>2
    <3>4. DoesSame(s[k], v, t[k], w)
      BY <1>7, <2>1, <2>2, <3>2, <3>3
    <3>5. DoesSame(t[k], w, s[k], v) /\ AgreeOn(V, w, v)
      BY <3>2, <3>4, DoesSameSymmetric, AgreeSymmetric
    <3>6. PICK x \in Execute(s[k], v) : AgreeOn(V, z, x)
      BY <3>1, <3>5, StepsAgree
    <3>7. AgreeOn(V, x, z)
      BY <3>6, AgreeSymmetric
    <3> QED  BY <3>2, <3>6, <3>7 DEF Executed
  <2> HIDE DEF X, Y
  <2>7. BothAgree(V, X, Y)
    BY <2>5, <2>6 DEF BothAgree
  <2>8. <<X, Y>> \in Rel[k]
    BY <2>1, <2>3, <2>4, <2>7
  <2> QED  BY <2>8 DEF X, Y
<1>11. <<{e}, {y}>> \in Rel[0]
  <2>1. BothAgree(V, {e}, {y})
    BY DEF BothAgree, V
  <2>2. 0 \in 0 .. Len(s) /\ 0 + 1 = 1
    BY <1>9
  <2> DEFINE x == {e}
             z == {y}
  <2>3. Good(0, x, z) /\ x \in A /\ z \in A
    BY <1>6, <2>1, <2>2
  <2> HIDE DEF x, z, A, Good
  <2>4. <<x, z>> \in Rel[0]
    BY <2>2, <2>3
  <2> QED  BY <2>4 DEF x, z
<1>12. <<RunAll({e}, s), RunAll({y}, t)>> \in Rel[Len(s)]
  <2> DEFINE x == {e}
             z == {y}
  <2>1. x \in A /\ z \in A /\ <<x, z>> \in Rel[0] /\ Len(t) = Len(s)
    BY <1>1, <1>6, <1>11
  <2>2. \A k \in 1 .. Len(s) : \A E \in A : \A F \in A :
           <<E, F>> \in Rel[k - 1] => <<Executed(s[k], E), Executed(t[k], F)>> \in Rel[k]
    BY <1>10
  <2>3. \A E \in A : \A i \in T : Executed(i, E) \in A
    BY <1>5
  <2> SUFFICES <<RunAll(x, s), RunAll(z, t)>> \in Rel[Len(s)]
    OBVIOUS
  <2> HIDE DEF x, z, A, Rel
  <2> QED  BY <1>3, <2>1, <2>2, <2>3, RunTogether
<1>13. Len(s) \in 0 .. Len(s)
  BY <1>9
<1>14. BothAgree(V, RunAll({e}, s), RunAll({y}, t))
  <2> DEFINE X == RunAll({e}, s)
             Y == RunAll({y}, t)
  <2>1. <<X, Y>> \in Rel[Len(s)]
    BY <1>12
  <2> HIDE DEF X, Y
  <2>2. BothAgree(V, X, Y)
    BY <1>13, <2>1
  <2> QED  BY <2>2 DEF X, Y
<1> QED  BY <1>14 DEF s, t, V

(* Where the folded function goes with the values of a run, the repaired one
   goes with values that agree. *)
LEMMA LeadsAgree ==
  ASSUME NEW h, IsVerified(h), NEW n, IsRewrite(h, n), NEW b \in ReachableFrom(SsaCfg(h), 0),
         NEW e, Ready(h, b, Len(h.body[b]) + 1, e), NEW y, AgreeOn(Variables(n), e, y)
  PROVE  Target(Terminator(h, b), e) = Target(Terminator(n, b), y)
<1> DEFINE s == h.body[b]
           t == n.body[b]
           k == Len(s)
<1>1. /\ b \in NodeIds(h) /\ s \in Seq(InstructionSet(h)) /\ t \in Seq(InstructionSet(h)) /\ Len(t) = Len(s)
      /\ \A m \in DOMAIN s : IsStep(h, n, b, m)
  BY RewriteSteps
<1>2. s # <<>> /\ HasItsOperands(Terminator(h, b))
  BY <1>1, VerifiedFacts, InstructionFacts
<1>3. k \in DOMAIN s /\ k \in Nat /\ k + 1 \in Nat
  <2> HIDE DEF s
  <2> QED  BY <1>1, <1>2
<1>4. IsStep(h, n, b, k)
  BY <1>1, <1>3
<1>5. Terminator(h, b) = s[k] /\ Terminator(n, b) = t[k]
  BY <1>1 DEF Terminator, Last
<1> DEFINE i == s[k]
           j == t[k]
<1>6. /\ i \in InstructionSet(h) /\ j \in InstructionSet(h) /\ ReadsSame(h, i, j)
      /\ ToSet(j.args) \subseteq Variables(n) /\ ToSet(i.args) \subseteq DefinedBefore(h, b, k) \ {Nil}
  BY <1>4 DEF IsStep
<1>7. DefinedBefore(h, b, k) \subseteq DefinedBefore(h, b, k + 1)
  <2>1. 1 .. k - 1 \subseteq 1 .. (k + 1) - 1
    BY <1>3
  <2> QED  BY <1>1, <2>1, BeforeFacts
<1>8. Ready(h, b, k + 1, e) /\ k + 1 <= Len(h.body[b]) + 1
  BY <1>3
<1> HIDE DEF s, t, i, j, k
<1>9. DoesSame(i, e, j, y)
  BY <1>3, <1>6, <1>7, <1>8, ReadsAgree
<1>10. HasItsOperands(i) /\ j.targets = i.targets /\ DOMAIN i.args = 1 .. Len(i.args)
  <2>1. i.args \in Seq(Variables(h))
    BY <1>6 DEF InstructionSet
  <2>2. HasItsOperands(i)
    BY <1>2, <1>5 DEF i
  <2> QED  BY <1>6, <2>1, <2>2 DEF ReadsSame
<1>11. Target(i, e) = Target(j, y)
  BY <1>9, <1>10, TargetsAgree
<1> QED  BY <1>5, <1>11 DEF i, j

(* What is left of an outcome where only the variables of V are looked at. *)
Visible(V, o) == [o EXCEPT !.env = Restrict(@, DOMAIN @ \cap V)]

(* Values that agree look the same. *)
LEMMA VisibleAgrees ==
  ASSUME NEW V, NEW e, NEW y, AgreeOn(V, e, y), NEW at, NEW from
  PROVE  Visible(V, [at |-> at, from |-> from, env |-> e]) = Visible(V, [at |-> at, from |-> from, env |-> y])
<1>1. Restrict(e, DOMAIN e \cap V) = [v \in DOMAIN e \cap V |-> e[v]]
  BY DEF Restrict
<1>2. Restrict(y, DOMAIN y \cap V) = [v \in DOMAIN y \cap V |-> y[v]]
  BY DEF Restrict
<1>3. DOMAIN e \cap V = DOMAIN y \cap V /\ \A v \in DOMAIN e \cap V : e[v] = y[v]
  BY DEF AgreeOn
<1>4. Restrict(e, DOMAIN e \cap V) = Restrict(y, DOMAIN y \cap V)
  BY <1>1, <1>2, <1>3
<1> QED  BY <1>4 DEF Visible

(* The repaired function goes on as the folded one does. *)
LEMMA RewriteOutcomes ==
  ASSUME NEW h, IsVerified(h), NEW n, IsRewrite(h, n),
         NEW r, ExecInv(h, r), AgreeInv(h, r), r.at # Nil
  PROVE  \A x : (\E o \in Outcomes(n, r) : x = Visible(Variables(n), o))
                   <=> \E o \in Outcomes(h, r) : x = Visible(Variables(n), o)
<1> DEFINE b == r.at
           e == EnterBlock(h, r)
           y == EnterBlock(n, r)
           V == Variables(n)
           E == RunAll({e}, h.body[b])
           F == RunAll({y}, n.body[b])
           Out(f, z) == [at |-> Target(Terminator(f, b), z), from |-> b, env |-> z]
<1>1. CanEnter(h, r) /\ Ready(h, b, 1, e)
  BY EnterReady
<1>2. CanEnter(n, r) /\ y \in Environments(h) /\ AgreeOn(V, e, y)
  BY EnterAgrees
<1>3. b \in ReachableFrom(SsaCfg(h), 0)
  BY DEF ExecInv
<1>4. Outcomes(h, r) = {Out(h, z) : z \in E}
  BY <1>1, OutcomesAre, Zenon
<1>5. Outcomes(n, r) = {Out(n, z) : z \in F}
  BY <1>2, OutcomesAre, Zenon
<1>6. BothAgree(V, E, F) /\ \A z \in E : Ready(h, b, Len(h.body[b]) + 1, z)
  <2> DEFINE c == b
             u == e
             w == y
  <2>1. /\ c \in ReachableFrom(SsaCfg(h), 0) /\ Ready(h, c, 1, u)
        /\ w \in Environments(h) /\ AgreeOn(Variables(n), u, w)
    BY <1>1, <1>2, <1>3
  <2> SUFFICES /\ BothAgree(Variables(n), RunAll({u}, h.body[c]), RunAll({w}, n.body[c]))
               /\ \A z \in RunAll({u}, h.body[c]) : Ready(h, c, Len(h.body[c]) + 1, z)
    OBVIOUS
  <2> HIDE DEF c, u, w
  <2> QED  BY <2>1, RunsAgree, BodyReady
<1>7. ASSUME NEW z \in E, NEW w \in F, AgreeOn(V, z, w)
      PROVE  Visible(V, Out(h, z)) = Visible(V, Out(n, w))
  <2> DEFINE c == b
             U == V
             at == Target(Terminator(h, c), z)
  <2>1. c \in ReachableFrom(SsaCfg(h), 0) /\ Ready(h, c, Len(h.body[c]) + 1, z) /\ AgreeOn(Variables(n), z, w)
    BY <1>3, <1>6, <1>7
  <2>2. at = Target(Terminator(n, c), w)
    <3> SUFFICES Target(Terminator(h, c), z) = Target(Terminator(n, c), w)
      OBVIOUS
    <3> HIDE DEF c, E, F, V
    <3> QED  BY <2>1, LeadsAgree
  <2>3. Out(h, z) = [at |-> at, from |-> c, env |-> z] /\ Out(n, w) = [at |-> at, from |-> c, env |-> w]
    BY <2>2
  <2> HIDE DEF at, c, E, F, Out
  <2> QED  BY <1>7, <2>3, VisibleAgrees
<1> HIDE DEF E, F, Out, V, b
<1>8. \A x : (\E o \in Outcomes(n, r) : x = Visible(V, o)) <=> \E o \in Outcomes(h, r) : x = Visible(V, o)
  BY <1>4, <1>5, <1>6, <1>7 DEF BothAgree
<1> QED  BY <1>8 DEF V

-----------------------------------------------------------------------------
(* The rewriting, and the run it is compared with: the function runs as the
   folded one does, which can always go on with what it needs. *)
IsFoldable == Trusted /\ analysis = "ranges" /\ Signed(function)

(* The inductive invariant of the rewriting: what was rewritten, and how the
   function is running. *)
RewriteInv ==
    IsSparse =>
        /\ step \in {"ready", "run"} =>
              rewritten = IF analysis = "ranges" /\ Proved THEN Simplified(function, sparse.facts)
                          ELSE function
        /\ step = "run" /\ IsFoldable =>
              /\ ExecInv(Folded(function, sparse.facts), run)
              /\ AgreeInv(Folded(function, sparse.facts), run)

(* A running function does what the folded one does. *)
LEMMA RunsAsFolded ==
  ASSUME PropagationInv, RewriteInv, IsSparse, step = "run", IsFoldable, run.at # Nil,
         NEW h, h = Folded(function, sparse.facts)
  PROVE  Outcomes(h, run) = Outcomes(function, run)
<1>1. PICK f, s, r : f = function /\ s = sparse /\ r = run
  OBVIOUS
<1>2. /\ IsVerified(f) /\ IsExecutable(f) /\ SparseInv(f, "ranges", s, {}, {}, {})
      /\ RunInv(f, "ranges", s, r) /\ Signed(f)
  BY <1>1 DEF PropagationInv, IsFoldable, IsVerified
<1>3. ExecInv(h, r) /\ AgreeInv(h, r) /\ r.at # Nil /\ h = Folded(f, s.facts)
  BY <1>1 DEF RewriteInv
<1>4. s.flow = <<>> /\ s.variables = <<>> /\ CoveredFacts(f, s)
  BY <1>1 DEF IsFoldable, Trusted, Proved, IsConverged, WideningCovers, CoveredFacts
<1>5. Accounts(f, "ranges", s)
  BY <1>2, <1>4, ConvergedAccounts DEF Domains
<1>6. r.at \in ReachableFrom(SsaCfg(h), 0) /\ r.at \in s.blocks
  BY <1>2, <1>3 DEF ExecInv, RunInv
<1>7. IsFolding(f, s, h, r.at)
  BY <1>2, <1>3, <1>5, <1>6 DEF IsFolding
<1> QED  BY <1>1, <1>2, <1>3, <1>7, FoldedOutcomes

(* It holds at first. *)
LEMMA RewriteInvInit == Init => RewriteInv
BY DEF Init, RewriteInv

(* Every action keeps it. *)
LEMMA RewriteInvNext == PropagationInv /\ RewriteInv /\ [Next]_vars => RewriteInv'
<1> SUFFICES ASSUME PropagationInv, RewriteInv, [Next]_vars, IsSparse' PROVE RewriteInv'
  BY DEF RewriteInv
<1>1. analysis' = analysis /\ function' = function /\ IsSparse
  BY DEF Next, AttachRoots, AttachNext, Expand, FallBack, BeginSolving, Solve, BeginPropagating,
         Propagate, Rewrite, Start, RunBlock, ehVars, vars, IsSparse
<1>2. IsVerified(function)
  BY <1>1 DEF PropagationInv
<1>3. CASE AttachRoots \/ BeginSolving \/ Solve \/ BeginPropagating \/ Propagate
  <2>1. step' \notin {"ready", "run"}
    BY <1>3 DEF AttachRoots, BeginSolving, Solve, BeginPropagating, Propagate
  <2> QED  BY <2>1 DEF RewriteInv
<1>4. CASE Rewrite
  <2>1. /\ rewritten' = IF analysis = "ranges" /\ Proved THEN Simplified(function, sparse.facts) ELSE function
        /\ step' = "ready" /\ sparse' = sparse
    BY <1>4 DEF Rewrite
  <2>2. Proved' = Proved
    BY <2>1 DEF Proved, IsConverged
  <2> QED  BY <1>1, <2>1, <2>2 DEF RewriteInv
<1>5. CASE Start \/ RunBlock \/ UNCHANGED vars
  <2>1. /\ sparse' = sparse /\ rewritten' = rewritten
        /\ step' \in {"ready", "run"} => step \in {"ready", "run"}
    BY <1>5 DEF Start, RunBlock, vars, machineVars, ehVars
  <2>2. Proved' = Proved /\ IsFoldable' = IsFoldable
    BY <1>1, <2>1 DEF IsFoldable, Trusted, Proved, IsConverged, BranchesAreKnown, WideningCovers
  <2>3. step' \in {"ready", "run"} =>
           rewritten' = IF analysis' = "ranges" /\ Proved' THEN Simplified(function', sparse'.facts)
                        ELSE function'
    BY <1>1, <2>1, <2>2 DEF RewriteInv
  <2>4. ASSUME step' = "run", IsFoldable
        PROVE  ExecInv(Folded(function, sparse.facts), run') /\ AgreeInv(Folded(function, sparse.facts), run')
    <3>1. PICK h : h = Folded(function, sparse.facts)
      OBVIOUS
    <3>2. IsVerified(h) /\ h.initial = function.initial
      <4>1. h \in Shapes(function) /\ IsVerified(h)
        BY <1>2, <3>1, FoldedFacts, FoldedVerified
      <4> QED  BY <4>1 DEF Shapes
    <3> SUFFICES ExecInv(h, run') /\ AgreeInv(h, run')
      BY <3>1
    <3>3. CASE Start
      <4>1. PICK env \in [h.initial.supplied -> Opaque] : run' = [at |-> 0, from |-> Nil, env |-> env]
        BY <3>2, <3>3 DEF Start, ArgumentValues
      <4> QED  BY <3>2, <4>1, StartFacts, StartAgrees
    <3>4. CASE RunBlock
      <4>1. step = "run" /\ run.at # Nil /\ run' \in Outcomes(function, run)
        BY <3>4 DEF RunBlock
      <4>2. run' \in Outcomes(h, run)
        BY <1>1, <2>4, <3>1, <4>1, RunsAsFolded
      <4>3. ExecInv(h, run) /\ AgreeInv(h, run)
        BY <1>1, <2>4, <3>1, <4>1 DEF RewriteInv
      <4>4. PICK r, o : r = run /\ o = run'
        OBVIOUS
      <4>5. ExecInv(h, o) /\ AgreeInv(h, o)
        BY <3>2, <4>1, <4>2, <4>3, <4>4, OutcomeFacts, OutcomeAgrees
      <4> QED  BY <4>4, <4>5
    <3>5. CASE UNCHANGED vars
      <4>1. run' = run /\ step = "run"
        BY <2>4, <3>5 DEF vars, machineVars
      <4> QED  BY <1>1, <2>4, <3>1, <4>1 DEF RewriteInv
    <3> QED  BY <1>5, <3>3, <3>4, <3>5
  <2> QED  BY <1>1, <2>1, <2>2, <2>3, <2>4 DEF RewriteInv
<1> QED  BY <1>3, <1>4, <1>5 DEF Next

(* The rewriting is right, for every function, whatever way it runs while
   nothing throws: with its branches and comparisons folded and its phis repaired it goes on from every
   state to the same blocks with the same values of the variables it still has
   -- under the premises RewriteKeepsBehavior names. *)
THEOREM RewriteSound == Spec => []RewriteKeepsBehavior
<1>1. PropagationInv /\ RewriteInv => RewriteKeepsBehavior
  <2> SUFFICES ASSUME PropagationInv, RewriteInv, step = "run", run.at # Nil, analysis = "ranges",
                      BranchesAreKnown, WideningCovers, Signed(function)
               PROVE  {[o EXCEPT !.env = Restrict(@, DOMAIN @ \cap Variables(rewritten))] :
                          o \in Outcomes(rewritten, run)}
                        = {[o EXCEPT !.env = Restrict(@, DOMAIN @ \cap Variables(rewritten))] :
                              o \in Outcomes(function, run)}
    BY Zenon DEF RewriteKeepsBehavior
  <2>1. IsSparse
    BY DEF IsSparse
  <2>2. CASE rewritten = function
    BY <2>2
  <2>3. CASE rewritten # function
    <3>1. Proved /\ rewritten = Simplified(function, sparse.facts)
      BY <2>1, <2>3 DEF RewriteInv
    <3>2. PICK h : h = Folded(function, sparse.facts)
      OBVIOUS
    <3>3. rewritten = IF h = function THEN function ELSE RepairSsa(h)
      BY <3>1, <3>2 DEF Simplified, Folded
    <3>4. PICK n : n = rewritten
      OBVIOUS
    <3>5. n = RepairSsa(h)
      BY <2>3, <3>3, <3>4
    <3>6. IsVerified(h)
      BY <2>1, <3>2, FoldedVerified DEF PropagationInv
    <3>7. IsRewrite(h, n)
      BY <3>5, <3>6, RepairKeeps
    <3>8. IsFoldable
      BY <3>1 DEF IsFoldable, Trusted
    <3>9. ExecInv(h, run) /\ AgreeInv(h, run)
      BY <2>1, <3>2, <3>8 DEF RewriteInv
    <3>10. Outcomes(h, run) = Outcomes(function, run)
      BY <2>1, <3>2, <3>8, RunsAsFolded
    <3>11. \A x : (\E o \in Outcomes(n, run) : x = Visible(Variables(n), o))
                     <=> \E o \in Outcomes(h, run) : x = Visible(Variables(n), o)
      BY <3>6, <3>7, <3>9, RewriteOutcomes
    <3>12. {Visible(Variables(n), o) : o \in Outcomes(n, run)}
             = {Visible(Variables(n), o) : o \in Outcomes(function, run)}
      BY <3>10, <3>11
    <3> QED  BY <3>4, <3>12, Zenon DEF Visible
  <2> QED  BY <2>2, <2>3
<1> QED
  BY <1>1, DataflowInvInit, DataflowInvNext, PropagationInvInit, PropagationInvNext,
     RewriteInvInit, RewriteInvNext, PTL DEF Spec
=============================================================================
