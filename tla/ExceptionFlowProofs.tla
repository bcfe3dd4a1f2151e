-------------------------- MODULE ExceptionFlowProofs --------------------------
(*****************************************************************************)
(* The exception-aware graph, for every function and every exception         *)
(* table. First what the provers do not know: the operators of the model     *)
(* that are recursive functions or folds (Keep, Max, FoldLeft, FlattenSeq,   *)
(* ReachableAvoiding) are each shown to exist and then, by one induction     *)
(* lemma, to be what they are named for. ReachableIsLeast is the one all     *)
(* of dominance is stated with. Then FunctionRoots and EhCfg::new:           *)
(* whatever a call adds to the graph, the invariant EhCore keeps every       *)
(* block that was found reachable and every block that was not found         *)
(* hanging from a root.                                                      *)
(*****************************************************************************)
EXTENDS ExceptionFlow, FiniteSetTheorems, TLAPS

(* Induction over the naturals, for a set instead of a predicate. *)
LEMMA Induction ==
  ASSUME NEW S \in SUBSET Nat, 0 \in S, \A n \in S : n + 1 \in S
  PROVE  S = Nat
<1> SUFFICES ASSUME NEW m \in Nat, m \notin S PROVE FALSE
  OBVIOUS
<1> DEFINE Upto(k) == 0 .. k
           T == {Upto(k) : k \in Nat \ S}
           R == StrictSubsetOrdering(Nat)
<1>1. IsWellFoundedOn(R, FiniteSubsetsOf(Nat))
  BY FS_StrictSubsetOrderingWellFounded
<1>2. \A k \in Nat : IsFiniteSet(0 .. k)
  BY FS_Interval
<1>3. T \subseteq FiniteSubsetsOf(Nat) /\ T # {}
  BY <1>2 DEF FiniteSubsetsOf
<1>4. PICK B \in T : \A A \in T : <<A, B>> \notin R
  <2> HIDE DEF T, R
  <2> QED  BY <1>1, <1>3, WFMin
<1>5. PICK k \in Nat \ S : B = 0 .. k
  BY <1>4
<1>6. k # 0 /\ k - 1 \in Nat \ S
  BY <1>5
<1>7. 0 .. k - 1 \in T
  BY <1>6
<1>8. (0 .. k - 1) \subseteq (0 .. k) /\ k \in (0 .. k) /\ k \notin (0 .. k - 1)
  BY <1>6
<1>9. <<0 .. k - 1, 0 .. k>> \in R
  BY <1>8 DEF StrictSubsetOrdering
<1> QED  BY <1>4, <1>5, <1>7, <1>9

(* R runs through n steps from base, the k-th of which is the function step[k]. *)
IsSteps(step, n, A) == step \in [1 .. n -> [A -> A]]
IsRun(R, step, n, A, base) ==
    R \in [0 .. n -> A] /\ R[0] = base /\ \A k \in 1 .. n : R[k] = step[k][R[k - 1]]

(* A function defined by recursion on 0 .. n exists, so that the CHOOSE its
   definition stands for has the value the definition says. *)
LEMMA RunExists ==
  ASSUME NEW n \in Nat, NEW A, NEW base \in A, NEW step, IsSteps(step, n, A)
  PROVE  \E R : IsRun(R, step, n, A, base)
<1> DEFINE S == {m \in Nat : m <= n => \E R : IsRun(R, step, m, A, base)}
<1>1. 0 \in S
  <2> DEFINE R == [k \in 0 .. 0 |-> base]
  <2>1. IsRun(R, step, 0, A, base)
    BY DEF IsRun
  <2> QED  BY <2>1
<1>2. ASSUME NEW m \in S PROVE m + 1 \in S
  <2> SUFFICES ASSUME m + 1 <= n PROVE \E R : IsRun(R, step, m + 1, A, base)
    OBVIOUS
  <2>1. PICK R : IsRun(R, step, m, A, base)
    BY <1>2
  <2> DEFINE R2 == [k \in 0 .. m + 1 |-> IF k <= m THEN R[k] ELSE step[m + 1][R[m]]]
  <2>2. R2 \in [0 .. m + 1 -> A]
    <3>1. m + 1 \in 1 .. n /\ R[m] \in A
      BY <1>2, <2>1 DEF IsRun
    <3>2. step[m + 1][R[m]] \in A
      BY <3>1 DEF IsSteps
    <3> QED  BY <2>1, <3>2 DEF IsRun
  <2>3. ASSUME NEW k \in 1 .. m + 1
        PROVE  R2[k] = step[k][R2[k - 1]]
    <3>1. CASE k <= m
      <4>1. R[k] = step[k][R[k - 1]]
        BY <2>1, <3>1 DEF IsRun
      <4>2. R2[k] = R[k] /\ R2[k - 1] = R[k - 1]
        BY <3>1
      <4> QED  BY <4>1, <4>2
    <3>2. CASE k = m + 1
      BY <3>2
    <3> QED  BY <3>1, <3>2
  <2>4. R2[0] = base
    BY <2>1 DEF IsRun
  <2> HIDE DEF R2
  <2>5. IsRun(R2, step, m + 1, A, base)
    BY <2>2, <2>3, <2>4 DEF IsRun
  <2> QED  BY <2>5
<1>3. S = Nat
  <2> HIDE DEF S
  <2>1. S \in SUBSET Nat
    BY DEF S
  <2> QED  BY <1>1, <1>2, <2>1, Induction
<1>4. n \in S
  <2> HIDE DEF S
  <2> QED  BY <1>3
<1> QED  BY <1>4

-----------------------------------------------------------------------------
(* Keep *)
LEMMA AppendElements ==
  ASSUME NEW T, NEW s \in Seq(T), NEW x \in T
  PROVE  Append(s, x) \in Seq(T) /\ ToSet(Append(s, x)) = ToSet(s) \cup {x}
<1>1. Append(s, x) \in Seq(T) /\ Len(Append(s, x)) = Len(s) + 1 /\ Len(s) \in Nat
  OBVIOUS
<1>2. \A i \in 1 .. Len(s) + 1 : Append(s, x)[i] = IF i <= Len(s) THEN s[i] ELSE x
  OBVIOUS
<1>3. DOMAIN s = 1 .. Len(s) /\ DOMAIN Append(s, x) = 1 .. Len(s) + 1
  BY <1>1
<1>4. ASSUME NEW y \in ToSet(Append(s, x)) PROVE y \in ToSet(s) \cup {x}
  BY <1>1, <1>2, <1>3 DEF ToSet
<1>5. ASSUME NEW y \in ToSet(s) PROVE y \in ToSet(Append(s, x))
  <2>1. PICK i \in 1 .. Len(s) : y = s[i]
    BY <1>3 DEF ToSet
  <2>2. i \in 1 .. Len(s) + 1 /\ Append(s, x)[i] = y
    BY <1>1, <1>2, <2>1
  <2> QED  BY <1>3, <2>2 DEF ToSet
<1>6. x \in ToSet(Append(s, x))
  <2>1. Len(s) + 1 \in 1 .. Len(s) + 1 /\ Append(s, x)[Len(s) + 1] = x
    BY <1>1, <1>2
  <2> QED  BY <1>3, <2>1 DEF ToSet
<1> QED  BY <1>1, <1>4, <1>5, <1>6

IsKeeping(K, s, S) ==
    /\ K[0] = <<>>
    /\ \A k \in 1 .. Len(s) : K[k] = IF s[k] \in S THEN Append(K[k - 1], s[k]) ELSE K[k - 1]

LEMMA KeepRuns ==
  ASSUME NEW T, NEW s \in Seq(T), NEW S
  PROVE  \E K : IsKeeping(K, s, S) /\ Keep(s, S) = K[Len(s)]
<1> DEFINE n == Len(s)
           A == Seq(T \cap S)
           Def(K) == K = [k \in 0 .. n |-> IF k = 0 THEN <<>>
                            ELSE IF s[k] \in S THEN Append(K[k - 1], s[k]) ELSE K[k - 1]]
           step == [k \in 1 .. n |-> [a \in A |-> IF s[k] \in S THEN Append(a, s[k]) ELSE a]]
<1>1. n \in Nat /\ \A k \in 1 .. n : s[k] \in T
  OBVIOUS
<1>2. \E K : Def(K)
  <2>1. IsSteps(step, n, A)
    BY <1>1 DEF IsSteps
  <2>2. PICK K : IsRun(K, step, n, A, <<>>)
    <3>1. <<>> \in A
      OBVIOUS
    <3> HIDE DEF step, A, n
    <3> QED  BY <1>1, <2>1, <3>1, RunExists
  <2>3. ASSUME NEW k \in 0 .. n
        PROVE  K[k] = IF k = 0 THEN <<>>
                            ELSE IF s[k] \in S THEN Append(K[k - 1], s[k]) ELSE K[k - 1]
    <3>1. CASE k = 0
      BY <2>2, <3>1 DEF IsRun
    <3>2. CASE k \in 1 .. n
      <4>1. K[k - 1] \in A /\ K[k] = step[k][K[k - 1]]
        <5> HIDE DEF step, A, n
        <5>1. k - 1 \in 0 .. n
          BY <1>1, <3>2
        <5> QED  BY <2>2, <3>2, <5>1 DEF IsRun
      <4> QED  BY <3>2, <4>1
    <3> QED  BY <3>1, <3>2
  <2>4. Def(K)
    <3>1. K = [k \in 0 .. n |-> K[k]]
      BY <2>2 DEF IsRun
    <3> QED  BY <2>3, <3>1
  <2> QED  BY <2>4
<1> DEFINE K == CHOOSE K : Def(K)
<1>3. Def(K) /\ Keep(s, S) = K[n]
  BY <1>2 DEF Keep
<1>0. /\ K[0] = <<>>
      /\ \A k \in 1 .. n : K[k] = IF s[k] \in S THEN Append(K[k - 1], s[k]) ELSE K[k - 1]
  <2> HIDE DEF K, n
  <2>1. ASSUME NEW k \in 0 .. n
        PROVE  K[k] = IF k = 0 THEN <<>>
                      ELSE IF s[k] \in S THEN Append(K[k - 1], s[k]) ELSE K[k - 1]
    BY <1>3
  <2>2. 0 \in 0 .. n /\ \A k \in 1 .. n : k \in 0 .. n /\ k # 0
    BY <1>1
  <2> HIDE <1>3
  <2>3. K[0] = <<>>
    BY <2>1, <2>2
  <2>4. \A k \in 1 .. n : K[k] = IF s[k] \in S THEN Append(K[k - 1], s[k]) ELSE K[k - 1]
    BY <2>1, <2>2
  <2> QED  BY <2>3, <2>4
<1> QED  BY <1>0, <1>3 DEF IsKeeping

LEMMA KeepFacts ==
  ASSUME NEW T, NEW s \in Seq(T), NEW S
  PROVE  /\ Keep(s, S) \in Seq(T \cap S)
         /\ ToSet(Keep(s, S)) = ToSet(s) \cap S
<1> DEFINE n == Len(s)
           A == Seq(T \cap S)
<1>1. n \in Nat /\ \A k \in 1 .. n : s[k] \in T
  OBVIOUS
<1>3. PICK K : IsKeeping(K, s, S) /\ Keep(s, S) = K[n]
  BY KeepRuns
<1>0. /\ K[0] = <<>>
      /\ \A k \in 1 .. n : K[k] = IF s[k] \in S THEN Append(K[k - 1], s[k]) ELSE K[k - 1]
  BY <1>3 DEF IsKeeping
<1> DEFINE Good == {k \in Nat : k <= n => /\ K[k] \in A
                                        /\ ToSet(K[k]) = {s[j] : j \in 1 .. k} \cap S}
<1>4. 0 \in Good
  <2>1. ToSet(<<>>) = {} /\ {s[j] : j \in 1 .. 0} = {}
    BY DEF ToSet
  <2>2. <<>> \in A
    OBVIOUS
  <2> HIDE DEF A
  <2> QED  BY <1>0, <2>1, <2>2
<1>5. ASSUME NEW k \in Good PROVE k + 1 \in Good
  <2> SUFFICES ASSUME k + 1 <= n
               PROVE  K[k + 1] \in A /\ ToSet(K[k + 1]) = {s[j] : j \in 1 .. k + 1} \cap S
    OBVIOUS
  <2>1. K[k] \in A /\ ToSet(K[k]) = {s[j] : j \in 1 .. k} \cap S
    BY <1>1
  <2>2. K[k + 1] = IF s[k + 1] \in S THEN Append(K[k], s[k + 1]) ELSE K[k]
    BY <1>0, <1>1
  <2>3. {s[j] : j \in 1 .. k + 1} = {s[j] : j \in 1 .. k} \cup {s[k + 1]}
    BY <1>1
  <2>4. CASE s[k + 1] \in S
    <3>1. s[k + 1] \in T \cap S
      BY <1>1, <2>4
    <3>2. K[k + 1] \in A /\ ToSet(K[k + 1]) = ToSet(K[k]) \cup {s[k + 1]}
      <4> DEFINE old == K[k]
                 x == s[k + 1]
      <4>1. old \in A /\ x \in T \cap S
        BY <2>1, <3>1
      <4>2. Append(old, x) \in A /\ ToSet(Append(old, x)) = ToSet(old) \cup {x}
        <5> HIDE DEF old, x
        <5> QED  BY <4>1, AppendElements
      <4> QED  BY <2>2, <2>4, <4>2
    <3> QED  BY <2>1, <2>3, <2>4, <3>2
  <2>5. CASE s[k + 1] \notin S
    BY <2>1, <2>2, <2>3, <2>5
  <2> QED  BY <2>4, <2>5
<1>6. Good = Nat
  <2> HIDE DEF Good
  <2>1. Good \in SUBSET Nat
    BY DEF Good
  <2> QED  BY <1>4, <1>5, <2>1, Induction
<1>7. K[n] \in A /\ ToSet(K[n]) = {s[j] : j \in 1 .. n} \cap S
  <2>1. n \in Good
    BY <1>1, <1>6
  <2> QED  BY <1>1, <2>1
<1>8. ToSet(s) = {s[j] : j \in 1 .. n}
  BY DEF ToSet
<1> QED  BY <1>3, <1>7, <1>8

-----------------------------------------------------------------------------
(* FoldLeft runs over the subsets of the sequence's domain. *)
IsFold(iter, step, n, A, base) ==
    /\ iter \in [SUBSET (1 .. n) -> A]
    /\ iter[{}] = base
    /\ \A t \in SUBSET (1 .. n) : t # {} => iter[t] = step[Max(t)][iter[t \ {Max(t)}]]

LEMMA MaxFacts ==
  ASSUME NEW n \in Nat, NEW t \in SUBSET (1 .. n)
  PROVE  t # {} => Max(t) \in t /\ \A y \in t : Max(t) >= y
<1> DEFINE S == {m \in Nat : \A u \in SUBSET (1 .. m) : u # {} => \E x \in u : \A y \in u : x >= y}
<1>1. 0 \in S
  <2>1. \A u \in SUBSET (1 .. 0) : u = {}
    OBVIOUS
  <2> QED  BY <2>1
<1>2. ASSUME NEW m \in S PROVE m + 1 \in S
  <2> SUFFICES ASSUME NEW u \in SUBSET (1 .. m + 1), u # {}
               PROVE  \E x \in u : \A y \in u : x >= y
    OBVIOUS
  <2>1. CASE m + 1 \in u
    BY <2>1
  <2>2. CASE m + 1 \notin u
    <3>1. u \in SUBSET (1 .. m)
      BY <2>2
    <3> QED  BY <1>2, <3>1
  <2> QED  BY <2>1, <2>2
<1>3. S = Nat
  <2> HIDE DEF S
  <2>1. S \in SUBSET Nat
    BY DEF S
  <2> QED  BY <1>1, <1>2, <2>1, Induction
<1>4. n \in S
  BY <1>3
<1> QED  BY <1>4 DEF Max

LEMMA MaxUpto ==
  ASSUME NEW k \in Nat \ {0}
  PROVE  Max(1 .. k) = k /\ (1 .. k) \ {k} = 1 .. k - 1
<1>1. Max(1 .. k) \in 1 .. k /\ \A y \in 1 .. k : Max(1 .. k) >= y
  <2>1. k \in 1 .. k /\ (1 .. k) \in SUBSET (1 .. k) /\ (1 .. k) # {}
    OBVIOUS
  <2> QED  BY <2>1, MaxFacts
<1> QED  BY <1>1

LEMMA FoldExists ==
  ASSUME NEW n \in Nat, NEW A, NEW base \in A, NEW step, IsSteps(step, n, A)
  PROVE  \E iter : IsFold(iter, step, n, A, base)
<1> DEFINE S == {m \in Nat : m <= n => \E iter : IsFold(iter, step, m, A, base)}
<1>1. 0 \in S
  <2> DEFINE iter == [t \in SUBSET (1 .. 0) |-> base]
  <2>1. IsFold(iter, step, 0, A, base)
    <3>1. \A t \in SUBSET (1 .. 0) : t = {}
      OBVIOUS
    <3>2. iter \in [SUBSET (1 .. 0) -> A] /\ iter[{}] = base
      OBVIOUS
    <3> HIDE DEF iter
    <3> QED  BY <3>1, <3>2 DEF IsFold
  <2> QED  BY <2>1
<1>2. ASSUME NEW m \in S PROVE m + 1 \in S
  <2> SUFFICES ASSUME m + 1 <= n PROVE \E iter : IsFold(iter, step, m + 1, A, base)
    OBVIOUS
  <2>1. PICK iter : IsFold(iter, step, m, A, base)
    BY <1>2
  <2> DEFINE next == [t \in SUBSET (1 .. m + 1) |->
                        IF m + 1 \in t THEN step[m + 1][iter[t \ {m + 1}]] ELSE iter[t]]
  <2>2. ASSUME NEW t \in SUBSET (1 .. m + 1)
        PROVE  /\ m + 1 \in t => t \ {m + 1} \in SUBSET (1 .. m)
               /\ m + 1 \notin t => t \in SUBSET (1 .. m)
    OBVIOUS
  <2>3. next \in [SUBSET (1 .. m + 1) -> A]
    <3>1. ASSUME NEW t \in SUBSET (1 .. m + 1) PROVE next[t] \in A
      <4>1. CASE m + 1 \in t
        <5>1. iter[t \ {m + 1}] \in A
          BY <2>1, <2>2, <4>1 DEF IsFold
        <5>2. m + 1 \in 1 .. n
          BY <1>2
        <5>3. step[m + 1][iter[t \ {m + 1}]] \in A
          BY <5>1, <5>2 DEF IsSteps
        <5> QED  BY <4>1, <5>3
      <4>2. CASE m + 1 \notin t
        BY <2>1, <2>2, <4>2 DEF IsFold
      <4> QED  BY <4>1, <4>2
    <3> QED  BY <3>1
  <2>4. next[{}] = base
    BY <2>1 DEF IsFold
  <2>5. ASSUME NEW t \in SUBSET (1 .. m + 1), t # {}
        PROVE  next[t] = step[Max(t)][next[t \ {Max(t)}]]
    <3>1. Max(t) \in t /\ \A y \in t : Max(t) >= y
      <4>1. m + 1 \in Nat
        BY <1>2
      <4> QED  BY <2>5, <4>1, MaxFacts
    <3>2. CASE m + 1 \in t
      <4>1. Max(t) = m + 1
        <5>1. Max(t) \in 1 .. m + 1 /\ Max(t) >= m + 1
          BY <3>1, <3>2
        <5> QED  BY <5>1
      <4>2. next[t \ {m + 1}] = iter[t \ {m + 1}]
        BY <2>2, <3>2
      <4> QED  BY <3>2, <4>1, <4>2
    <3>3. CASE m + 1 \notin t
      <4>1. t \in SUBSET (1 .. m) /\ next[t] = iter[t]
        BY <2>2, <3>3
      <4>2. next[t \ {Max(t)}] = iter[t \ {Max(t)}]
        BY <3>3
      <4> QED  BY <2>1, <2>5, <4>1, <4>2 DEF IsFold
    <3> QED  BY <3>2, <3>3
  <2> HIDE DEF next
  <2>6. IsFold(next, step, m + 1, A, base)
    BY <2>3, <2>4, <2>5 DEF IsFold
  <2> QED  BY <2>6
<1>3. S = Nat
  <2> HIDE DEF S
  <2>1. S \in SUBSET Nat
    BY DEF S
  <2> QED  BY <1>1, <1>2, <2>1, Induction
<1>4. n \in S
  <2> HIDE DEF S
  <2> QED  BY <1>3
<1> QED  BY <1>4

(* What a fold hands on from element to element is a run. *)
LEMMA FoldIsRun ==
  ASSUME NEW n \in Nat, NEW A, NEW base \in A, NEW step, IsSteps(step, n, A),
         NEW iter, iter[{}] = base,
         \A k \in 1 .. n : iter[1 .. k - 1] \in A
                             => iter[1 .. k] = step[k][iter[1 .. k - 1]]
  PROVE  IsRun([k \in 0 .. n |-> iter[1 .. k]], step, n, A, base)
<1> DEFINE S == {k \in Nat : k <= n => iter[1 .. k] \in A}
<1>1. 0 \in S
  <2>1. 1 .. 0 = {}
    OBVIOUS
  <2> QED  BY <2>1
<1>2. ASSUME NEW k \in S PROVE k + 1 \in S
  <2> SUFFICES ASSUME k + 1 <= n PROVE iter[1 .. k + 1] \in A
    OBVIOUS
  <2>1. k + 1 \in 1 .. n /\ (k + 1) - 1 = k /\ iter[1 .. k] \in A
    OBVIOUS
  <2>2. iter[1 .. k + 1] = step[k + 1][iter[1 .. k]]
    BY <2>1
  <2> QED  BY <2>1, <2>2 DEF IsSteps
<1>3. S = Nat
  <2>1. S \in SUBSET Nat
    OBVIOUS
  <2> HIDE DEF S
  <2> QED  BY <1>1, <1>2, <2>1, Induction
<1> DEFINE R == [k \in 0 .. n |-> iter[1 .. k]]
<1>4. R \in [0 .. n -> A]
  <2>1. \A k \in 0 .. n : iter[1 .. k] \in A
    BY <1>3
  <2> QED  BY <2>1
<1>5. R[0] = base
  <2>1. 1 .. 0 = {} /\ 0 \in 0 .. n
    OBVIOUS
  <2> QED  BY <2>1
<1>6. ASSUME NEW k \in 1 .. n PROVE R[k] = step[k][R[k - 1]]
  <2>1. k - 1 \in 0 .. n /\ k \in 0 .. n
    OBVIOUS
  <2>2. R[k - 1] \in A /\ R[k - 1] = iter[1 .. k - 1] /\ R[k] = iter[1 .. k]
    BY <1>4, <2>1
  <2> QED  BY <2>2
<1> QED  BY <1>4, <1>5, <1>6 DEF IsRun

(* Where a run ends: what each step hands on, the next one starts from. *)
LEMMA RunInvariant ==
  ASSUME NEW n \in Nat, NEW A, NEW base, NEW step, NEW R, IsRun(R, step, n, A, base),
         NEW P \in [0 .. n -> SUBSET A], base \in P[0],
         \A k \in 1 .. n : \A a \in P[k - 1] : step[k][a] \in P[k]
  PROVE  R[n] \in P[n]
<1> DEFINE S == {k \in Nat : k <= n => R[k] \in P[k]}
<1>1. 0 \in S
  BY DEF IsRun
<1>2. ASSUME NEW k \in S PROVE k + 1 \in S
  <2> SUFFICES ASSUME k + 1 <= n PROVE R[k + 1] \in P[k + 1]
    OBVIOUS
  <2>1. k + 1 \in 1 .. n /\ (k + 1) - 1 = k /\ R[k] \in P[k]
    OBVIOUS
  <2>2. R[k + 1] = step[k + 1][R[k]]
    BY <2>1 DEF IsRun
  <2> QED  BY <2>1, <2>2
<1>3. S = Nat
  <2>1. S \in SUBSET Nat
    OBVIOUS
  <2> HIDE DEF S
  <2> QED  BY <1>1, <1>2, <2>1, Induction
<1> QED  BY <1>3

-----------------------------------------------------------------------------
(* ReachableAvoiding *)
Grows(g, closed, X) == X \cup ((UNION {SuccessorSet(g, v) : v \in X}) \ closed)
IsClosed(g, closed, X) == \A v \in X : SuccessorSet(g, v) \ closed \subseteq X

LEMMA SuccessorsAreNodes ==
  ASSUME NEW g, IsGraph(g), NEW v \in NodeIds(g)
  PROVE  SuccessorSet(g, v) \subseteq NodeIds(g)
<1>1. g.succ[v] \in Seq(NodeIds(g))
  BY DEF IsGraph
<1> QED  BY <1>1 DEF SuccessorSet, ToSet

IsRounds(R, g, starts, closed) ==
    /\ R \in [0 .. g.count -> SUBSET NodeIds(g)]
    /\ R[0] = starts \ closed
    /\ \A k \in 1 .. g.count : R[k] = Grows(g, closed, R[k - 1])

(* The rounds of ReachableAvoiding. *)
LEMMA ReachableRounds ==
  ASSUME NEW g, IsGraph(g), NEW starts \in SUBSET NodeIds(g), NEW closed
  PROVE  \E R : /\ IsRounds(R, g, starts, closed)
               /\ ReachableAvoiding(g, starts, closed) = R[g.count]
<1> DEFINE n == g.count
           A == SUBSET NodeIds(g)
           Def(R) == R = [k \in 0 .. n |->
               IF k = 0 THEN starts \ closed
               ELSE R[k - 1] \cup ((UNION {SuccessorSet(g, v) : v \in R[k - 1]}) \ closed)]
           step == [k \in 1 .. n |-> [X \in A |-> Grows(g, closed, X)]]
<1>1. n \in Nat
  BY DEF IsGraph
<1>2. ASSUME NEW X \in A PROVE Grows(g, closed, X) \in A
  <2>1. \A v \in X : SuccessorSet(g, v) \subseteq NodeIds(g)
    BY SuccessorsAreNodes
  <2> QED  BY <2>1 DEF Grows
<1>3. \E R : Def(R)
  <2>1. IsSteps(step, n, A)
    BY <1>2 DEF IsSteps
  <2>2. PICK R : IsRun(R, step, n, A, starts \ closed)
    <3>1. starts \ closed \in A
      OBVIOUS
    <3> HIDE DEF step, A, n
    <3> QED  BY <1>1, <2>1, <3>1, RunExists
  <2>3. ASSUME NEW k \in 0 .. n
        PROVE  R[k] = IF k = 0 THEN starts \ closed ELSE Grows(g, closed, R[k - 1])
    <3>1. CASE k = 0
      BY <2>2, <3>1 DEF IsRun
    <3>2. CASE k \in 1 .. n
      <4>1. R[k - 1] \in A /\ R[k] = step[k][R[k - 1]]
        <5> HIDE DEF step, A, n
        <5>1. k - 1 \in 0 .. n
          BY <1>1, <3>2
        <5> QED  BY <2>2, <3>2, <5>1 DEF IsRun
      <4> QED  BY <3>2, <4>1
    <3> QED  BY <3>1, <3>2
  <2>4. Def(R)
    <3>1. R = [k \in 0 .. n |-> R[k]]
      BY <2>2 DEF IsRun
    <3> QED  BY <2>3, <3>1 DEF Grows
  <2> QED  BY <2>4
<1> DEFINE R == CHOOSE R : Def(R)
<1>4. Def(R) /\ ReachableAvoiding(g, starts, closed) = R[n]
  BY <1>3 DEF ReachableAvoiding
<1>5. /\ R[0] = starts \ closed
      /\ \A k \in 1 .. n : R[k] = Grows(g, closed, R[k - 1])
      /\ R = [k \in 0 .. n |-> R[k]]
  <2> HIDE DEF R, n
  <2>1. ASSUME NEW k \in 0 .. n
        PROVE  R[k] = IF k = 0 THEN starts \ closed ELSE Grows(g, closed, R[k - 1])
    BY <1>4 DEF Grows
  <2>2. R = [k \in 0 .. n |-> R[k]]
    BY <1>4
  <2>3. 0 \in 0 .. n /\ \A k \in 1 .. n : k \in 0 .. n /\ k # 0
    BY <1>1
  <2>4. R[0] = starts \ closed
    BY <2>1, <2>3
  <2>5. \A k \in 1 .. n : R[k] = Grows(g, closed, R[k - 1])
    BY <2>1, <2>3
  <2> QED  BY <2>2, <2>4, <2>5
<1> HIDE DEF R
<1> DEFINE Good == {k \in Nat : k <= n => R[k] \in A}
<1>6. Good = Nat
  <2>1. 0 \in Good
    BY <1>5
  <2>2. ASSUME NEW k \in Good PROVE k + 1 \in Good
    <3>1. ASSUME k + 1 <= n PROVE R[k + 1] \in A
      <4>1. k \in Nat /\ k <= n /\ R[k] \in A
        BY <1>1, <3>1
      <4>2. R[k + 1] = Grows(g, closed, R[k])
        <5>1. k + 1 \in 1 .. n /\ (k + 1) - 1 = k
          BY <1>1, <3>1, <4>1
        <5> QED  BY <1>5, <5>1
      <4> QED  BY <1>2, <4>1, <4>2
    <3> QED  BY <3>1
  <2>3. Good \in SUBSET Nat
    OBVIOUS
  <2> HIDE DEF Good
  <2> QED  BY <2>1, <2>2, <2>3, Induction
<1>7. R \in [0 .. n -> A]
  <2>1. \A k \in 0 .. n : R[k] \in A
    BY <1>1, <1>6
  <2> HIDE DEF A
  <2> QED  BY <1>5, <2>1
<1>8. IsRounds(R, g, starts, closed)
  BY <1>5, <1>7 DEF IsRounds
<1> QED  BY <1>4, <1>8

(* What is reachable is the least set with the starts that is closed under the
   edges: the rounds stop growing before they are over, because every round
   that is not the last adds a node. *)
LEMMA ReachableIsLeast ==
  ASSUME NEW g, IsGraph(g), NEW starts \in SUBSET NodeIds(g), NEW closed
  PROVE  LET X == ReachableAvoiding(g, starts, closed)
         IN  /\ X \subseteq NodeIds(g) \ closed
             /\ starts \ closed \subseteq X
             /\ IsClosed(g, closed, X)
             /\ \A Y : starts \ closed \subseteq Y
                        /\ (\A v \in X \cap Y : SuccessorSet(g, v) \ closed \subseteq Y)
                     => X \subseteq Y
<1> DEFINE n == g.count
           X == ReachableAvoiding(g, starts, closed)
<1>0. PICK R : IsRounds(R, g, starts, closed) /\ X = R[n]
  BY ReachableRounds
<1>1. /\ R \in [0 .. n -> SUBSET NodeIds(g)]
      /\ R[0] = starts \ closed
      /\ \A k \in 1 .. n : R[k] = Grows(g, closed, R[k - 1])
      /\ X = R[n]
  BY <1>0 DEF IsRounds
<1>2. n \in Nat
  BY DEF IsGraph
<1>3. ASSUME NEW k \in Nat, k + 1 <= n
      PROVE  R[k] \in SUBSET NodeIds(g) /\ R[k + 1] = Grows(g, closed, R[k])
  <2>1. k + 1 \in 1 .. n /\ (k + 1) - 1 = k /\ k \in 0 .. n
    BY <1>2, <1>3
  <2> QED  BY <1>1, <2>1
<1> DEFINE Inside == {k \in Nat : k <= n => R[k] \cap closed = {} /\ starts \ closed \subseteq R[k]}
<1>4. Inside = Nat
  <2>1. 0 \in Inside
    BY <1>1
  <2>2. ASSUME NEW k \in Inside PROVE k + 1 \in Inside
    <3>1. k \in Nat /\ (k + 1 <= n => k <= n)
      BY <1>2
    <3> QED  BY <1>3, <3>1 DEF Grows
  <2>3. Inside \in SUBSET Nat
    OBVIOUS
  <2> HIDE DEF Inside
  <2> QED  BY <2>1, <2>2, <2>3, Induction
<1>5. R[n] \subseteq NodeIds(g) \ closed /\ starts \ closed \subseteq R[n]
  <2>1. n \in Inside /\ n <= n /\ n \in 0 .. n
    BY <1>2, <1>4
  <2>2. R[n] \in SUBSET NodeIds(g)
    BY <1>1, <2>1
  <2> QED  BY <2>1, <2>2
<1> DEFINE Full == {k \in Nat : k <= n => IsClosed(g, closed, R[k]) \/ Cardinality(R[k]) >= k + 1}
<1>6. \A S \in SUBSET NodeIds(g) : IsFiniteSet(S) /\ Cardinality(S) \in Nat /\ Cardinality(S) <= n
  <2>1. IsFiniteSet(NodeIds(g)) /\ Cardinality(NodeIds(g)) = n
    <3>1. n - 1 \in Int /\ NodeIds(g) = 0 .. n - 1
      BY <1>2 DEF NodeIds
    <3>2. IsFiniteSet(NodeIds(g)) /\ Cardinality(NodeIds(g)) = IF 0 > n - 1 THEN 0 ELSE (n - 1) - 0 + 1
      BY <3>1, FS_Interval
    <3> QED  BY <1>2, <3>2
  <2> QED  BY <2>1, FS_Subset, FS_CardinalityType
<1>7. Full = Nat
  <2>1. 0 \in Full
    <3>1. R[0] \in SUBSET NodeIds(g)
      BY <1>1
    <3>2. CASE R[0] = {}
      BY <3>2 DEF IsClosed
    <3>3. CASE R[0] # {}
      <4>1. Cardinality(R[0]) # 0 /\ Cardinality(R[0]) \in Nat
        BY <1>6, <3>1, <3>3, FS_EmptySet
      <4> QED  BY <4>1
    <3> QED  BY <3>2, <3>3
  <2>2. ASSUME NEW k \in Full PROVE k + 1 \in Full
    <3> SUFFICES ASSUME k + 1 <= n
                 PROVE  IsClosed(g, closed, R[k + 1]) \/ Cardinality(R[k + 1]) >= k + 1 + 1
      OBVIOUS
    <3>1. /\ k \in Nat /\ R[k] \in SUBSET NodeIds(g) /\ R[k + 1] = Grows(g, closed, R[k])
          /\ R[k + 1] \in SUBSET NodeIds(g)
      <4>1. k \in Nat /\ k + 1 \in 0 .. n
        BY <1>2
      <4> QED  BY <1>1, <1>3, <4>1
    <3>2. CASE IsClosed(g, closed, R[k])
      <4>1. R[k + 1] = R[k]
        BY <3>1, <3>2 DEF IsClosed, Grows
      <4> QED  BY <3>2, <4>1
    <3>3. CASE ~IsClosed(g, closed, R[k])
      <4>1. Cardinality(R[k]) >= k + 1
        BY <1>2, <3>1, <3>3
      <4>2. R[k] \subseteq R[k + 1] /\ R[k] # R[k + 1]
        BY <3>1, <3>3 DEF IsClosed, Grows
      <4>3. Cardinality(R[k]) <= Cardinality(R[k + 1]) /\ Cardinality(R[k]) # Cardinality(R[k + 1])
        BY <1>6, <3>1, <4>2, FS_Subset
      <4> QED  BY <1>6, <3>1, <4>1, <4>3
    <3> QED  BY <3>2, <3>3
  <2>3. Full \in SUBSET Nat
    OBVIOUS
  <2> HIDE DEF Full
  <2> QED  BY <2>1, <2>2, <2>3, Induction
<1>8. IsClosed(g, closed, R[n])
  <2>1. n \in Full /\ n \in 0 .. n
    BY <1>2, <1>7
  <2>2. Cardinality(R[n]) <= n /\ Cardinality(R[n]) \in Nat
    BY <1>1, <1>6, <2>1
  <2> QED  BY <1>2, <2>1, <2>2
<1>9. ASSUME NEW Y, starts \ closed \subseteq Y,
             \A v \in R[n] \cap Y : SuccessorSet(g, v) \ closed \subseteq Y
      PROVE  R[n] \subseteq Y
  <2> DEFINE Below == {k \in Nat : k <= n => R[k] \subseteq Y \cap R[n]}
  <2>1. 0 \in Below
    BY <1>5, <1>1, <1>9
  <2>2. ASSUME NEW k \in Below PROVE k + 1 \in Below
    <3> SUFFICES ASSUME k + 1 <= n PROVE R[k + 1] \subseteq Y \cap R[n]
      OBVIOUS
    <3>1. k \in Nat /\ R[k] \subseteq Y \cap R[n] /\ R[k + 1] = Grows(g, closed, R[k])
      BY <1>2, <1>3
    <3>2. \A v \in R[k] : SuccessorSet(g, v) \ closed \subseteq Y \cap R[n]
      BY <1>8, <1>9, <3>1 DEF IsClosed
    <3> QED  BY <3>1, <3>2 DEF Grows
  <2>3. Below \in SUBSET Nat
    OBVIOUS
  <2>4. Below = Nat
    <3> HIDE DEF Below
    <3> QED  BY <2>1, <2>2, <2>3, Induction
  <2> QED  BY <1>2, <2>4
<1> QED  BY <1>1, <1>5, <1>8, <1>9

LEMMA ReachableFacts ==
  ASSUME NEW g, IsGraph(g), NEW starts \in SUBSET NodeIds(g), NEW closed,
         NEW X, X = ReachableAvoiding(g, starts, closed)
  PROVE  /\ X \subseteq NodeIds(g) \ closed
         /\ starts \ closed \subseteq X
         /\ IsClosed(g, closed, X)
         /\ \A Y : starts \ closed \subseteq Y
                    /\ (\A v \in X \cap Y : SuccessorSet(g, v) \ closed \subseteq Y)
                 => X \subseteq Y
BY ReachableIsLeast, Zenon

LEMMA ReachFacts ==
  ASSUME NEW g, IsGraph(g), NEW v \in NodeIds(g)
  PROVE  /\ ReachableFrom(g, v) \subseteq NodeIds(g) /\ v \in ReachableFrom(g, v)
         /\ \A w \in ReachableFrom(g, v) : SuccessorSet(g, w) \subseteq ReachableFrom(g, v)
         /\ \A Y : v \in Y /\ (\A w \in ReachableFrom(g, v) \cap Y : SuccessorSet(g, w) \subseteq Y)
                     => ReachableFrom(g, v) \subseteq Y
<1> DEFINE starts == {v}
           closed == {}
           X == ReachableFrom(g, v)
<1>1. starts \in SUBSET NodeIds(g) /\ X = ReachableAvoiding(g, starts, closed)
  BY DEF ReachableFrom
<1> HIDE DEF X, starts, closed
<1>2. /\ X \subseteq NodeIds(g) \ closed /\ starts \ closed \subseteq X /\ IsClosed(g, closed, X)
      /\ \A Y : starts \ closed \subseteq Y /\ (\A w \in X \cap Y : SuccessorSet(g, w) \ closed \subseteq Y)
                  => X \subseteq Y
  BY <1>1, ReachableFacts
<1> QED  BY <1>2 DEF X, starts, closed, IsClosed

LEMMA ReachTransitive ==
  ASSUME NEW g, IsGraph(g), NEW v \in NodeIds(g), NEW w \in ReachableFrom(g, v)
  PROVE  w \in NodeIds(g) /\ ReachableFrom(g, w) \subseteq ReachableFrom(g, v)
<1>1. w \in NodeIds(g)
  BY ReachFacts
<1> DEFINE X == ReachableFrom(g, v)
<1>2. w \in X /\ \A x \in ReachableFrom(g, w) \cap X : SuccessorSet(g, x) \subseteq X
  BY ReachFacts
<1> HIDE DEF X
<1>3. ReachableFrom(g, w) \subseteq X
  BY <1>1, <1>2, ReachFacts
<1> QED  BY <1>1, <1>3 DEF X

LEMMA HeadTailElements ==
  ASSUME NEW T, NEW s \in Seq(T), s # <<>>
  PROVE  /\ Head(s) \in T /\ Tail(s) \in Seq(T)
         /\ ToSet(s) = {Head(s)} \cup ToSet(Tail(s))
<1>1. /\ Len(s) \in Nat \ {0} /\ Tail(s) \in Seq(T) /\ Len(Tail(s)) = Len(s) - 1
      /\ Head(s) = s[1] /\ s[1] \in T
  OBVIOUS
<1>2. \A i \in 1 .. Len(s) - 1 : Tail(s)[i] = s[i + 1]
  OBVIOUS
<1>3. DOMAIN s = 1 .. Len(s) /\ DOMAIN Tail(s) = 1 .. Len(s) - 1
  BY <1>1
<1>4. ASSUME NEW y \in ToSet(s) PROVE y \in {Head(s)} \cup ToSet(Tail(s))
  <2>1. PICK i \in 1 .. Len(s) : y = s[i]
    BY <1>3 DEF ToSet
  <2>2. CASE i = 1
    BY <1>1, <2>1, <2>2
  <2>3. CASE i # 1
    <3>1. i - 1 \in 1 .. Len(s) - 1 /\ (i - 1) + 1 = i
      BY <1>1, <2>1, <2>3
    <3>2. Tail(s)[i - 1] = y
      BY <1>2, <2>1, <3>1
    <3> QED  BY <1>3, <3>1, <3>2 DEF ToSet
  <2> QED  BY <2>2, <2>3
<1>5. ASSUME NEW y \in ToSet(Tail(s)) PROVE y \in ToSet(s)
  <2>1. PICK i \in 1 .. Len(s) - 1 : y = Tail(s)[i]
    BY <1>3 DEF ToSet
  <2>2. i + 1 \in 1 .. Len(s) /\ s[i + 1] = y
    BY <1>1, <1>2, <2>1
  <2> QED  BY <1>3, <2>2 DEF ToSet
<1>6. Head(s) \in ToSet(s)
  <2>1. 1 \in 1 .. Len(s)
    BY <1>1
  <2> QED  BY <1>1, <1>3, <2>1 DEF ToSet
<1> QED  BY <1>1, <1>4, <1>5, <1>6

-----------------------------------------------------------------------------
(* FlattenSeq *)
LEMMA ConcatElements ==
  ASSUME NEW T, NEW s \in Seq(T), NEW t \in Seq(T)
  PROVE  s \o t \in Seq(T) /\ ToSet(s \o t) = ToSet(s) \cup ToSet(t)
<1>1. /\ s \o t \in Seq(T) /\ Len(s) \in Nat /\ Len(t) \in Nat
      /\ Len(s \o t) = Len(s) + Len(t)
  OBVIOUS
<1>2. \A i \in 1 .. Len(s) + Len(t) : (s \o t)[i] = IF i <= Len(s) THEN s[i] ELSE t[i - Len(s)]
  OBVIOUS
<1>3. /\ DOMAIN s = 1 .. Len(s) /\ DOMAIN t = 1 .. Len(t)
      /\ DOMAIN (s \o t) = 1 .. Len(s) + Len(t)
  BY <1>1
<1>4. ASSUME NEW y \in ToSet(s \o t) PROVE y \in ToSet(s) \cup ToSet(t)
  <2>1. PICK i \in 1 .. Len(s) + Len(t) : y = (s \o t)[i]
    BY <1>3 DEF ToSet
  <2>2. CASE i <= Len(s)
    BY <1>1, <1>2, <1>3, <2>1, <2>2 DEF ToSet
  <2>3. CASE i > Len(s)
    <3>1. i - Len(s) \in 1 .. Len(t) /\ y = t[i - Len(s)]
      BY <1>1, <1>2, <2>1, <2>3
    <3> QED  BY <1>3, <3>1 DEF ToSet
  <2> QED  BY <1>1, <2>2, <2>3
<1>5. ASSUME NEW y \in ToSet(s) PROVE y \in ToSet(s \o t)
  <2>1. PICK i \in 1 .. Len(s) : y = s[i]
    BY <1>3 DEF ToSet
  <2>2. i \in 1 .. Len(s) + Len(t) /\ (s \o t)[i] = y
    BY <1>1, <1>2, <2>1
  <2> QED  BY <1>3, <2>2 DEF ToSet
<1>6. ASSUME NEW y \in ToSet(t) PROVE y \in ToSet(s \o t)
  <2>1. PICK i \in 1 .. Len(t) : y = t[i]
    BY <1>3 DEF ToSet
  <2>2. i + Len(s) \in 1 .. Len(s) + Len(t) /\ ~(i + Len(s) <= Len(s)) /\ (i + Len(s)) - Len(s) = i
    BY <1>1, <2>1
  <2>3. (s \o t)[i + Len(s)] = y
    BY <1>2, <2>1, <2>2
  <2> QED  BY <1>3, <2>2, <2>3 DEF ToSet
<1> QED  BY <1>1, <1>4, <1>5, <1>6

IsFlattening(F, seqs) ==
    F[0] = <<>> /\ \A k \in 1 .. Len(seqs) : F[k] = F[k - 1] \o seqs[k]

LEMMA FlattenRuns ==
  ASSUME NEW T, NEW seqs \in Seq(Seq(T))
  PROVE  \E F : IsFlattening(F, seqs) /\ FlattenSeq(seqs) = F[Len(seqs)]
<1> DEFINE n == Len(seqs)
           A == Seq(T)
           Def(F) == F = [i \in 1 .. n |-> IF i = 1 THEN seqs[i] ELSE F[i - 1] \o seqs[i]]
           step == [k \in 1 .. n |-> [a \in A |-> a \o seqs[k]]]
<1>1. n \in Nat /\ DOMAIN seqs = 1 .. n /\ \A k \in 1 .. n : seqs[k] \in A
  OBVIOUS
<1>2. CASE n = 0
  <2> DEFINE F == [k \in 0 .. 0 |-> <<>>]
  <2>1. FlattenSeq(seqs) = seqs /\ seqs = <<>>
    BY <1>2 DEF FlattenSeq
  <2>2. F[0] = <<>> /\ IsFlattening(F, seqs)
    BY <1>2 DEF IsFlattening
  <2> QED  BY <1>2, <2>1, <2>2
<1>3. CASE n # 0
  <2>1. \E F : Def(F)
    <3>1. IsSteps(step, n, A)
      <4>1. \A k \in 1 .. n : \A a \in A : a \o seqs[k] \in A
        BY <1>1
      <4> HIDE DEF n, A
      <4> QED  BY <4>1 DEF IsSteps
    <3>2. PICK R : IsRun(R, step, n, A, <<>>)
      <4>1. <<>> \in A
        OBVIOUS
      <4> HIDE DEF step, A, n
      <4> QED  BY <1>1, <3>1, <4>1, RunExists
    <3> DEFINE F == [i \in 1 .. n |-> R[i]]
    <3>3. ASSUME NEW i \in 1 .. n
          PROVE  F[i] = IF i = 1 THEN seqs[i] ELSE F[i - 1] \o seqs[i]
      <4>1. i - 1 \in 0 .. n /\ (i = 1 => i - 1 = 0) /\ (i # 1 => i - 1 \in 1 .. n)
        BY <1>1
      <4>2. R[i - 1] \in A /\ R[i] = step[i][R[i - 1]] /\ R[0] = <<>>
        BY <3>2, <4>1 DEF IsRun
      <4>3. R[i] = R[i - 1] \o seqs[i]
        BY <4>2
      <4>4. <<>> \o seqs[i] = seqs[i]
        BY <1>1
      <4> HIDE DEF n, A, step
      <4>5. CASE i = 1
        BY <4>1, <4>2, <4>3, <4>4, <4>5
      <4>6. CASE i # 1
        BY <4>1, <4>3, <4>6
      <4> QED  BY <4>5, <4>6
    <3> HIDE DEF n
    <3>4. Def(F)
      BY <3>3
    <3> QED  BY <3>4
  <2> DEFINE F == CHOOSE F : Def(F)
  <2>2. Def(F) /\ FlattenSeq(seqs) = F[n]
    BY <1>3, <2>1 DEF FlattenSeq
  <2>3. \A i \in 1 .. n : F[i] = IF i = 1 THEN seqs[i] ELSE F[i - 1] \o seqs[i]
    <3> HIDE DEF F, n
    <3> QED  BY <2>2
  <2> HIDE DEF F
  <2> DEFINE G == [k \in 0 .. n |-> IF k = 0 THEN <<>> ELSE F[k]]
  <2>4. G[0] = <<>> /\ G[n] = F[n]
    BY <1>1, <1>3
  <2>5. ASSUME NEW k \in 1 .. n PROVE G[k] = G[k - 1] \o seqs[k]
    <3>1. k \in 0 .. n /\ k # 0 /\ k - 1 \in 0 .. n /\ G[k] = F[k]
      BY <1>1
    <3>2. CASE k = 1
      <4>1. G[k - 1] = <<>> /\ F[k] = seqs[k] /\ seqs[k] \in Seq(T)
        BY <1>1, <2>3, <3>1, <3>2
      <4>2. <<>> \o seqs[k] = seqs[k]
        BY <4>1
      <4> HIDE DEF G
      <4> QED  BY <3>1, <4>1, <4>2
    <3>3. CASE k # 1
      <4>0. k - 1 # 0
        BY <3>3
      <4>1. G[k - 1] = F[k - 1] /\ F[k] = F[k - 1] \o seqs[k]
        BY <2>3, <3>1, <3>3, <4>0
      <4> HIDE DEF G
      <4> QED  BY <3>1, <4>1
    <3> QED  BY <3>2, <3>3
  <2> HIDE DEF G
  <2> QED  BY <2>2, <2>4, <2>5 DEF IsFlattening
<1> QED  BY <1>2, <1>3

LEMMA FlattenFacts ==
  ASSUME NEW T, NEW seqs \in Seq(Seq(T))
  PROVE  /\ FlattenSeq(seqs) \in Seq(T)
         /\ ToSet(FlattenSeq(seqs)) = UNION {ToSet(seqs[i]) : i \in DOMAIN seqs}
<1> DEFINE n == Len(seqs)
           A == Seq(T)
           Good(F, k) == /\ F[k] \in A
                         /\ ToSet(F[k]) = UNION {ToSet(seqs[i]) : i \in 1 .. k}
<1>1. n \in Nat /\ DOMAIN seqs = 1 .. n /\ \A k \in 1 .. n : seqs[k] \in A
  OBVIOUS
<1>2. PICK F : IsFlattening(F, seqs) /\ FlattenSeq(seqs) = F[n]
  BY FlattenRuns
<1>3. F[0] = <<>> /\ \A k \in 1 .. n : F[k] = F[k - 1] \o seqs[k]
  BY <1>2 DEF IsFlattening
<1> DEFINE S == {k \in Nat : k <= n => Good(F, k)}
<1>4. 0 \in S
  <2>1. ToSet(<<>>) = {} /\ <<>> \in Seq(T) /\ 1 .. 0 = {}
    BY DEF ToSet
  <2> QED  BY <1>3, <2>1
<1>5. ASSUME NEW k \in S PROVE k + 1 \in S
  <2> SUFFICES ASSUME k + 1 <= n PROVE Good(F, k + 1)
    OBVIOUS
  <2>1. k + 1 \in 1 .. n /\ (k + 1) - 1 = k /\ Good(F, k)
    BY <1>1
  <2>2. F[k + 1] = F[k] \o seqs[k + 1]
    BY <1>3, <2>1
  <2>3. F[k + 1] \in A /\ ToSet(F[k + 1]) = ToSet(F[k]) \cup ToSet(seqs[k + 1])
    <3> DEFINE s == F[k]
               t == seqs[k + 1]
    <3>1. s \in Seq(T) /\ t \in Seq(T)
      BY <1>1, <2>1
    <3> HIDE DEF s, t
    <3>2. s \o t \in Seq(T) /\ ToSet(s \o t) = ToSet(s) \cup ToSet(t)
      BY <3>1, ConcatElements
    <3> QED  BY <2>2, <3>2 DEF s, t
  <2>4. \A i : i \in 1 .. k + 1 <=> i \in 1 .. k \/ i = k + 1
    BY <2>1
  <2>5. UNION {ToSet(seqs[i]) : i \in 1 .. k + 1}
            = (UNION {ToSet(seqs[i]) : i \in 1 .. k}) \cup ToSet(seqs[k + 1])
    BY <2>4
  <2> QED  BY <2>1, <2>3, <2>5
<1>6. S = Nat
  <2>1. S \in SUBSET Nat
    OBVIOUS
  <2> HIDE DEF S
  <2> QED  BY <1>4, <1>5, <2>1, Induction
<1>7. Good(F, n)
  <2>1. n \in S
    <3> HIDE DEF S, n
    <3> QED  BY <1>1, <1>6
  <2> QED  BY <1>1, <2>1
<1> QED  BY <1>1, <1>2, <1>7

-----------------------------------------------------------------------------
(* Two places of s hold members of S. *)
Twice(s, S) == \E i, j \in DOMAIN s : i # j /\ s[i] \in S /\ s[j] \in S
Meets(s, S) == ToSet(s) \cap S # {}

LEMMA TwiceIsLong ==
  ASSUME NEW T, NEW s \in Seq(T)
  PROVE  Len(s) >= 2 <=> Twice(s, T)
<1>1. Len(s) \in Nat /\ DOMAIN s = 1 .. Len(s) /\ \A i \in 1 .. Len(s) : s[i] \in T
  OBVIOUS
<1>2. ASSUME Len(s) >= 2 PROVE Twice(s, T)
  <2>1. 1 \in DOMAIN s /\ 2 \in DOMAIN s /\ 1 # 2
    BY <1>1, <1>2
  <2> QED  BY <1>1, <2>1 DEF Twice
<1>3. ASSUME Twice(s, T) PROVE Len(s) >= 2
  <2>1. PICK i \in 1 .. Len(s) : \E j \in 1 .. Len(s) : i # j
    BY <1>1, <1>3 DEF Twice
  <2> QED  BY <1>1, <2>1
<1> QED  BY <1>2, <1>3

LEMMA TwiceJoins ==
  ASSUME NEW T, NEW s \in Seq(T), NEW t \in Seq(T), NEW U
  PROVE  Twice(s \o t, U) <=> Twice(s, U) \/ Twice(t, U) \/ (Meets(s, U) /\ Meets(t, U))
<1> DEFINE m == Len(s)
           n == Len(t)
           c == s \o t
<1>1. /\ m \in Nat /\ n \in Nat /\ DOMAIN s = 1 .. m /\ DOMAIN t = 1 .. n /\ DOMAIN c = 1 .. m + n
      /\ \A i \in 1 .. m : c[i] = s[i]
      /\ \A i \in 1 .. n : c[m + i] = t[i]
  OBVIOUS
<1> HIDE DEF c, m, n
<1>2. ASSUME Twice(s, U) PROVE Twice(c, U)
  <2>1. PICK i, j \in 1 .. m : i # j /\ s[i] \in U /\ s[j] \in U
    BY <1>1, <1>2 DEF Twice
  <2>2. i \in 1 .. m + n /\ j \in 1 .. m + n /\ c[i] = s[i] /\ c[j] = s[j]
    BY <1>1
  <2> QED  BY <1>1, <2>1, <2>2 DEF Twice
<1>3. ASSUME Twice(t, U) PROVE Twice(c, U)
  <2>1. PICK i, j \in 1 .. n : i # j /\ t[i] \in U /\ t[j] \in U
    BY <1>1, <1>3 DEF Twice
  <2>2. m + i \in 1 .. m + n /\ m + j \in 1 .. m + n /\ c[m + i] = t[i] /\ c[m + j] = t[j] /\ m + i # m + j
    BY <1>1, <2>1
  <2> QED  BY <1>1, <2>1, <2>2 DEF Twice
<1>4. ASSUME Meets(s, U), Meets(t, U) PROVE Twice(c, U)
  <2>1. PICK i \in 1 .. m : s[i] \in U
    BY <1>1, <1>4 DEF Meets, ToSet
  <2>2. PICK j \in 1 .. n : t[j] \in U
    BY <1>1, <1>4 DEF Meets, ToSet
  <2>3. i \in 1 .. m + n /\ m + j \in 1 .. m + n /\ c[i] = s[i] /\ c[m + j] = t[j] /\ i # m + j
    BY <1>1
  <2> QED  BY <1>1, <2>1, <2>2, <2>3 DEF Twice
<1>5. ASSUME Twice(c, U) PROVE Twice(s, U) \/ Twice(t, U) \/ (Meets(s, U) /\ Meets(t, U))
  <2>1. PICK i \in 1 .. m + n : \E j \in 1 .. m + n : i < j /\ c[i] \in U /\ c[j] \in U
    <3>1. PICK i, j \in 1 .. m + n : i # j /\ c[i] \in U /\ c[j] \in U
      BY <1>1, <1>5 DEF Twice
    <3>2. i < j \/ j < i
      BY <1>1, <3>1
    <3> QED  BY <3>1, <3>2
  <2>2. PICK j \in 1 .. m + n : i < j /\ c[i] \in U /\ c[j] \in U
    BY <2>1
  <2>3. CASE j <= m
    <3>1. i \in 1 .. m /\ j \in 1 .. m /\ i # j
      BY <1>1, <2>2, <2>3
    <3> QED  BY <1>1, <2>2, <3>1 DEF Twice
  <2>4. CASE m < i
    <3>1. i - m \in 1 .. n /\ j - m \in 1 .. n /\ i - m # j - m /\ m + (i - m) = i /\ m + (j - m) = j
      BY <1>1, <2>2, <2>4
    <3>2. c[i] = t[i - m] /\ c[j] = t[j - m]
      BY <1>1, <3>1
    <3> QED  BY <1>1, <2>2, <3>1, <3>2 DEF Twice
  <2>5. CASE i <= m /\ m < j
    <3>1. i \in 1 .. m /\ j - m \in 1 .. n /\ m + (j - m) = j
      BY <1>1, <2>2, <2>5
    <3>2. c[i] = s[i] /\ c[j] = t[j - m]
      BY <1>1, <3>1
    <3> QED  BY <1>1, <2>2, <3>1, <3>2 DEF Meets, ToSet
  <2> QED  BY <1>1, <2>3, <2>4, <2>5
<1> QED  BY <1>2, <1>3, <1>4, <1>5 DEF c

LEMMA SingleFacts ==
  ASSUME NEW T, NEW x \in T, NEW U
  PROVE  <<x>> \in Seq(T) /\ ~Twice(<<x>>, U) /\ (Meets(<<x>>, U) <=> x \in U)
<1>1. <<x>> \in Seq(T) /\ DOMAIN <<x>> = 1 .. 1 /\ <<x>>[1] = x
  OBVIOUS
<1>2. \A i, j \in 1 .. 1 : i = j
  OBVIOUS
<1>3. ToSet(<<x>>) = {x}
  <2>1. \A i \in DOMAIN <<x>> : i = 1
    BY <1>1
  <2>2. 1 \in DOMAIN <<x>>
    BY <1>1
  <2> QED  BY <1>1, <2>1, <2>2 DEF ToSet
<1> QED  BY <1>1, <1>2, <1>3 DEF Twice, Meets

LEMMA TwiceAppended ==
  ASSUME NEW T, NEW s \in Seq(T), NEW x \in T, NEW U
  PROVE  Twice(Append(s, x), U) <=> Twice(s, U) \/ (Meets(s, U) /\ x \in U)
<1>1. Append(s, x) = s \o <<x>>
  OBVIOUS
<1> DEFINE t == <<x>>
<1>2. t \in Seq(T) /\ ~Twice(t, U) /\ (Meets(t, U) <=> x \in U)
  BY SingleFacts
<1> HIDE DEF t
<1>3. Twice(s \o t, U) <=> Twice(s, U) \/ (Meets(s, U) /\ x \in U)
  BY <1>2, TwiceJoins
<1> QED  BY <1>1, <1>3 DEF t

(* What Keep keeps twice, s holds twice. *)
LEMMA KeepTwice ==
  ASSUME NEW T, NEW s \in Seq(T), NEW S, NEW U
  PROVE  Twice(Keep(s, S), U) <=> Twice(s, S \cap U)
<1> DEFINE n == Len(s)
           V == S \cap U
           Two(k) == \E i, j \in 1 .. k : i # j /\ s[i] \in V /\ s[j] \in V
           Has(k) == \E i \in 1 .. k : s[i] \in V
<1>1. n \in Nat /\ DOMAIN s = 1 .. n /\ \A k \in 1 .. n : s[k] \in T
  OBVIOUS
<1>2. PICK K : IsKeeping(K, s, S) /\ Keep(s, S) = K[n]
  BY KeepRuns
<1>3. /\ K[0] = <<>>
      /\ \A k \in 1 .. n : K[k] = IF s[k] \in S THEN Append(K[k - 1], s[k]) ELSE K[k - 1]
  BY <1>2 DEF IsKeeping
<1> DEFINE Good == {k \in Nat : k <= n => /\ K[k] \in Seq(T)
                                          /\ Meets(K[k], U) <=> Has(k)
                                          /\ Twice(K[k], U) <=> Two(k)}
<1>4. 0 \in Good
  <2>1. ToSet(<<>>) = {} /\ <<>> \in Seq(T) /\ ~Twice(<<>>, U)
    BY DEF ToSet, Twice
  <2>2. ~Meets(<<>>, U)
    BY <2>1 DEF Meets
  <2>3. ~Has(0) /\ ~Two(0)
    OBVIOUS
  <2> HIDE DEF Has, Two
  <2> QED  BY <1>3, <2>1, <2>2, <2>3
<1>5. ASSUME NEW k \in Good PROVE k + 1 \in Good
  <2> SUFFICES ASSUME k + 1 <= n
               PROVE  /\ K[k + 1] \in Seq(T)
                      /\ Meets(K[k + 1], U) <=> Has(k + 1)
                      /\ Twice(K[k + 1], U) <=> Two(k + 1)
    OBVIOUS
  <2> DEFINE x == s[k + 1]
             old == K[k]
  <2>1. /\ k + 1 \in 1 .. n /\ (k + 1) - 1 = k /\ x \in T /\ old \in Seq(T)
        /\ Meets(old, U) <=> Has(k)
        /\ Twice(old, U) <=> Two(k)
    BY <1>1
  <2>2. K[k + 1] = IF x \in S THEN Append(old, x) ELSE old
    BY <1>3, <2>1
  <2>3. \A i : i \in 1 .. k + 1 <=> i \in 1 .. k \/ i = k + 1
    BY <2>1
  <2>4. Has(k + 1) <=> Has(k) \/ x \in V
    BY <2>3
  <2>5. Two(k + 1) <=> Two(k) \/ (Has(k) /\ x \in V)
    <3>1. k + 1 \notin 1 .. k
      BY <2>1
    <3> QED  BY <2>3, <3>1
  <2> HIDE DEF Two, Has
  <2>6. CASE x \in S
    <3> HIDE DEF x, old
    <3>1. Append(old, x) \in Seq(T) /\ ToSet(Append(old, x)) = ToSet(old) \cup {x}
      BY <2>1, AppendElements
    <3>2. Twice(Append(old, x), U) <=> Twice(old, U) \/ (Meets(old, U) /\ x \in U)
      BY <2>1, TwiceAppended
    <3>3. Meets(Append(old, x), U) <=> Meets(old, U) \/ x \in U
      BY <3>1 DEF Meets
    <3>4. K[k + 1] = Append(old, x)
      BY <2>2, <2>6
    <3> QED  BY <2>1, <2>4, <2>5, <2>6, <3>1, <3>2, <3>3, <3>4
  <2>7. CASE x \notin S
    <3> HIDE DEF x, old
    <3> QED  BY <2>1, <2>2, <2>4, <2>5, <2>7
  <2> QED  BY <2>6, <2>7
<1>6. Good = Nat
  <2>1. Good \in SUBSET Nat
    OBVIOUS
  <2> HIDE DEF Good
  <2> QED  BY <1>4, <1>5, <2>1, Induction
<1>7. n \in Good
  <2> HIDE DEF Good
  <2> QED  BY <1>1, <1>6
<1>8. Twice(K[n], U) <=> Two(n)
  <2> HIDE DEF Two, Has, n
  <2> QED  BY <1>1, <1>7
<1>9. Two(n) <=> Twice(s, S \cap U)
  BY <1>1 DEF Twice
<1> QED  BY <1>2, <1>8, <1>9

(* What lies twice in a flattened sequence lies twice in a row or in two rows. *)
TwoRows(rows, U) ==
    \E i, j \in DOMAIN rows : i # j /\ Meets(rows[i], U) /\ Meets(rows[j], U)

LEMMA FlattenTwice ==
  ASSUME NEW T, NEW rows \in Seq(Seq(T)), NEW U
  PROVE  Twice(FlattenSeq(rows), U) <=> TwoRows(rows, U) \/ \E i \in DOMAIN rows : Twice(rows[i], U)
<1> DEFINE n == Len(rows)
           Has(k) == \E i \in 1 .. k : Meets(rows[i], U)
           Two(k) == \/ \E i \in 1 .. k : Twice(rows[i], U)
                     \/ \E i, j \in 1 .. k : i # j /\ Meets(rows[i], U) /\ Meets(rows[j], U)
<1>1. n \in Nat /\ DOMAIN rows = 1 .. n /\ \A k \in 1 .. n : rows[k] \in Seq(T)
  OBVIOUS
<1>2. PICK F : IsFlattening(F, rows) /\ FlattenSeq(rows) = F[n]
  BY FlattenRuns
<1>3. F[0] = <<>> /\ \A k \in 1 .. n : F[k] = F[k - 1] \o rows[k]
  BY <1>2 DEF IsFlattening
<1> DEFINE Good == {k \in Nat : k <= n => /\ F[k] \in Seq(T)
                                          /\ Meets(F[k], U) <=> Has(k)
                                          /\ Twice(F[k], U) <=> Two(k)}
<1>4. 0 \in Good
  <2>1. ToSet(<<>>) = {} /\ <<>> \in Seq(T) /\ ~Twice(<<>>, U)
    BY DEF ToSet, Twice
  <2>2. ~Meets(<<>>, U)
    BY <2>1 DEF Meets
  <2>3. ~Has(0) /\ ~Two(0)
    OBVIOUS
  <2> HIDE DEF Has, Two
  <2> QED  BY <1>3, <2>1, <2>2, <2>3
<1>5. ASSUME NEW k \in Good PROVE k + 1 \in Good
  <2> SUFFICES ASSUME k + 1 <= n
               PROVE  /\ F[k + 1] \in Seq(T)
                      /\ Meets(F[k + 1], U) <=> Has(k + 1)
                      /\ Twice(F[k + 1], U) <=> Two(k + 1)
    OBVIOUS
  <2> DEFINE x == rows[k + 1]
             old == F[k]
  <2>1. /\ k + 1 \in 1 .. n /\ (k + 1) - 1 = k /\ x \in Seq(T) /\ old \in Seq(T)
        /\ Meets(old, U) <=> Has(k)
        /\ Twice(old, U) <=> Two(k)
    BY <1>1
  <2>2. F[k + 1] = old \o x
    BY <1>3, <2>1
  <2>3. \A i : i \in 1 .. k + 1 <=> i \in 1 .. k \/ i = k + 1
    BY <2>1
  <2>4. Has(k + 1) <=> Has(k) \/ Meets(x, U)
    BY <2>3
  <2>5. Two(k + 1) <=> Two(k) \/ Twice(x, U) \/ (Has(k) /\ Meets(x, U))
    <3>1. k + 1 \notin 1 .. k
      BY <2>1
    <3> QED  BY <2>3, <3>1
  <2> HIDE DEF Two, Has, x, old
  <2>6. old \o x \in Seq(T) /\ ToSet(old \o x) = ToSet(old) \cup ToSet(x)
    BY <2>1, ConcatElements
  <2>7. Twice(old \o x, U) <=> Twice(old, U) \/ Twice(x, U) \/ (Meets(old, U) /\ Meets(x, U))
    BY <2>1, TwiceJoins
  <2>8. Meets(old \o x, U) <=> Meets(old, U) \/ Meets(x, U)
    BY <2>6 DEF Meets
  <2> QED  BY <2>1, <2>2, <2>4, <2>5, <2>6, <2>7, <2>8
<1>6. Good = Nat
  <2>1. Good \in SUBSET Nat
    OBVIOUS
  <2> HIDE DEF Good
  <2> QED  BY <1>4, <1>5, <2>1, Induction
<1>7. n \in Good
  <2> HIDE DEF Good
  <2> QED  BY <1>1, <1>6
<1>8. Twice(F[n], U) <=> Two(n)
  <2> HIDE DEF Two, Has, n
  <2> QED  BY <1>1, <1>7
<1>9. Two(n) <=> TwoRows(rows, U) \/ \E i \in DOMAIN rows : Twice(rows[i], U)
  BY <1>1 DEF TwoRows
<1> QED  BY <1>2, <1>8, <1>9

-----------------------------------------------------------------------------
(* Ascending, predecessors, and functions defined by recursion along a link *)

(* A set of numbers has a least one. *)
LEMMA LeastElement ==
  ASSUME NEW X \in SUBSET Nat, X # {}
  PROVE  \E e \in X : \A x \in X : e <= x
<1> SUFFICES ASSUME \A e \in X : \E x \in X : ~(e <= x) PROVE FALSE
  OBVIOUS
<1> DEFINE S == {n \in Nat : \A x \in X : n <= x}
<1>1. 0 \in S
  OBVIOUS
<1>2. ASSUME NEW n \in S PROVE n + 1 \in S
  <2>1. n \notin X
    OBVIOUS
  <2> QED  BY <2>1
<1>3. S = Nat
  <2>1. S \in SUBSET Nat
    OBVIOUS
  <2> HIDE DEF S
  <2> QED  BY <1>1, <1>2, <2>1, Induction
<1>4. PICK x \in X : TRUE
  OBVIOUS
<1>5. x + 1 \in S
  BY <1>3, <1>4
<1> QED  BY <1>4, <1>5

(* A set of nodes in ascending order. *)
LEMMA AscendingFacts ==
  ASSUME NEW g, IsGraph(g), NEW S \in SUBSET NodeIds(g)
  PROVE  Ascending(g, S) \in Seq(S) /\ ToSet(Ascending(g, S)) = S
<1> DEFINE all == [k \in 1 .. g.count |-> k - 1]
<1>1. g.count \in Nat
  BY DEF IsGraph
<1>2. all \in Seq(NodeIds(g)) /\ ToSet(all) = NodeIds(g)
  <2>1. \A k \in 1 .. g.count : k - 1 \in NodeIds(g)
    BY <1>1 DEF NodeIds
  <2>2. all \in Seq(NodeIds(g))
    BY <1>1, <2>1
  <2>3. \A x \in NodeIds(g) : x + 1 \in 1 .. g.count /\ all[x + 1] = x
    BY <1>1 DEF NodeIds
  <2>4. DOMAIN all = 1 .. g.count
    OBVIOUS
  <2> QED  BY <2>1, <2>2, <2>3, <2>4 DEF ToSet
<1> HIDE DEF all
<1>3. Keep(all, S) \in Seq(NodeIds(g) \cap S) /\ ToSet(Keep(all, S)) = ToSet(all) \cap S
  BY <1>2, KeepFacts
<1>4. NodeIds(g) \cap S = S
  OBVIOUS
<1> QED  BY <1>2, <1>3, <1>4 DEF Ascending, all

(* The predecessors of a node are the nodes with an edge to it. *)
LEMMA PredecessorsType ==
  ASSUME NEW g, IsGraph(g), NEW v \in NodeIds(g)
  PROVE  /\ Predecessors(g, v) \in Seq(NodeIds(g))
         /\ ToSet(Predecessors(g, v)) = PredecessorSet(g, v)
<1> DEFINE row(k) == [j \in 1 .. Len(Keep(g.succ[k - 1], {v})) |-> k - 1]
           rows == [k \in 1 .. g.count |-> row(k)]
<1>1. g.count \in Nat
  BY DEF IsGraph
<1>2. ASSUME NEW k \in 1 .. g.count
      PROVE  /\ row(k) \in Seq(NodeIds(g))
             /\ ToSet(row(k)) = IF v \in SuccessorSet(g, k - 1) THEN {k - 1} ELSE {}
  <2>1. k - 1 \in NodeIds(g)
    BY <1>1 DEF NodeIds
  <2> DEFINE s == g.succ[k - 1]
             kept == Keep(s, {v})
             n == Len(kept)
  <2>2. s \in Seq(NodeIds(g))
    BY <2>1 DEF IsGraph
  <2>3. kept \in Seq(NodeIds(g) \cap {v}) /\ ToSet(kept) = ToSet(s) \cap {v}
    <3> HIDE DEF s
    <3> QED  BY <2>2, KeepFacts
  <2>4. n \in Nat /\ (n = 0 <=> ToSet(kept) = {})
    <3>1. kept \in Seq(NodeIds(g))
      BY <2>3
    <3> HIDE DEF kept
    <3>2. n \in Nat /\ DOMAIN kept = 1 .. n
      BY <3>1
    <3>3. n # 0 => kept[1] \in ToSet(kept)
      <4>1. n # 0 => 1 \in 1 .. n
        BY <3>2
      <4> QED  BY <3>2, <4>1 DEF ToSet
    <3>4. n = 0 => ToSet(kept) = {}
      BY <3>2 DEF ToSet
    <3> QED  BY <3>2, <3>3, <3>4
  <2> HIDE DEF n
  <2>5. row(k) = [j \in 1 .. n |-> k - 1]
    BY DEF n
  <2>6. row(k) \in Seq(NodeIds(g))
    BY <2>1, <2>4, <2>5
  <2>7. ToSet(row(k)) = {k - 1 : j \in 1 .. n}
    BY <2>4, <2>5 DEF ToSet
  <2>8. CASE v \in SuccessorSet(g, k - 1)
    <3>1. n # 0
      BY <2>3, <2>4, <2>8 DEF SuccessorSet
    <3>2. 1 \in 1 .. n
      BY <2>4, <3>1
    <3> QED  BY <2>6, <2>7, <2>8, <3>2
  <2>9. CASE v \notin SuccessorSet(g, k - 1)
    <3>1. n = 0
      BY <2>3, <2>4, <2>9 DEF SuccessorSet
    <3>2. 1 .. n = {}
      BY <3>1
    <3> QED  BY <2>6, <2>7, <2>9, <3>2
  <2> QED  BY <2>8, <2>9
<1>3. rows \in Seq(Seq(NodeIds(g))) /\ DOMAIN rows = 1 .. g.count
  <2> HIDE DEF row
  <2> QED  BY <1>1, <1>2
<1>4. /\ FlattenSeq(rows) \in Seq(NodeIds(g))
      /\ ToSet(FlattenSeq(rows)) = UNION {ToSet(rows[i]) : i \in DOMAIN rows}
  <2> HIDE DEF rows
  <2> QED  BY <1>3, FlattenFacts
<1>5. Predecessors(g, v) = FlattenSeq(rows)
  BY DEF Predecessors
<1>6. UNION {ToSet(rows[i]) : i \in DOMAIN rows} = PredecessorSet(g, v)
  <2>1. \A i \in 1 .. g.count : rows[i] = row(i)
    OBVIOUS
  <2> HIDE DEF rows, row
  <2>2. ASSUME NEW u \in PredecessorSet(g, v)
        PROVE  u \in UNION {ToSet(rows[i]) : i \in DOMAIN rows}
    <3>1. u + 1 \in 1 .. g.count /\ (u + 1) - 1 = u /\ v \in SuccessorSet(g, u)
      BY <1>1 DEF PredecessorSet, NodeIds
    <3>2. u \in ToSet(rows[u + 1])
      BY <1>2, <2>1, <3>1
    <3> QED  BY <1>3, <3>1, <3>2
  <2>3. ASSUME NEW i \in 1 .. g.count, NEW u \in ToSet(rows[i])
        PROVE  u \in PredecessorSet(g, v)
    <3>1. u = i - 1 /\ v \in SuccessorSet(g, i - 1)
      BY <1>2, <2>1, <2>3
    <3> QED  BY <1>1, <3>1 DEF PredecessorSet, NodeIds
  <2> QED  BY <1>3, <2>2, <2>3
<1> QED  BY <1>4, <1>5, <1>6

(* A node's predecessors are listed once per edge. *)
LEMMA PredecessorsTwice ==
  ASSUME NEW g, IsGraph(g), NEW v \in NodeIds(g), NEW U
  PROVE  Twice(Predecessors(g, v), U)
            <=> \/ \E a, b \in NodeIds(g) \cap U : /\ a # b
                                                   /\ v \in SuccessorSet(g, a) /\ v \in SuccessorSet(g, b)
                \/ \E a \in NodeIds(g) \cap U : Twice(g.succ[a], {v})
<1> DEFINE n == g.count
           N == NodeIds(g)
           row(k) == [j \in 1 .. Len(Keep(g.succ[k - 1], {v})) |-> k - 1]
           rows == [k \in 1 .. n |-> row(k)]
<1>1. n \in Nat /\ N = 0 .. n - 1
  BY DEF IsGraph, NodeIds
<1>2. ASSUME NEW k \in 1 .. n
      PROVE  /\ row(k) \in Seq(N) /\ k - 1 \in N
             /\ Meets(row(k), U) <=> k - 1 \in U /\ v \in SuccessorSet(g, k - 1)
             /\ Twice(row(k), U) <=> k - 1 \in U /\ Twice(g.succ[k - 1], {v})
  <2>1. k - 1 \in N
    BY <1>1
  <2> DEFINE s == g.succ[k - 1]
             kept == Keep(s, {v})
             m == Len(kept)
             x == k - 1
             one == N \cap {v}
  <2>2. s \in Seq(N)
    BY <2>1 DEF IsGraph
  <2>3. kept \in Seq(one) /\ ToSet(kept) = ToSet(s) \cap {v}
    <3> HIDE DEF s, N
    <3> QED  BY <2>2, KeepFacts DEF one
  <2>4. m \in Nat /\ (m # 0 <=> v \in ToSet(s))
    <3> HIDE DEF kept, s, one
    <3>1. m \in Nat /\ DOMAIN kept = 1 .. m
      BY <2>3
    <3>2. m # 0 <=> ToSet(kept) # {}
      BY <3>1 DEF ToSet
    <3> QED  BY <2>3, <3>1, <3>2
  <2>5. m >= 2 <=> Twice(s, {v})
    <3>1. m >= 2 <=> Twice(kept, one)
      <4> HIDE DEF kept, one
      <4> QED  BY <2>3, TwiceIsLong
    <3>2. Twice(kept, one) <=> Twice(s, {v} \cap one)
      <4> HIDE DEF s, one, N
      <4> QED  BY <2>2, KeepTwice
    <3>3. {v} \cap one = {v}
      OBVIOUS
    <3> QED  BY <3>1, <3>2, <3>3
  <2> HIDE DEF m, s, kept
  <2> DEFINE r == [j \in 1 .. m |-> x]
  <2>6. r \in Seq(N) /\ DOMAIN r = 1 .. m /\ \A j \in 1 .. m : r[j] = x
    BY <2>1, <2>4
  <2>7. row(k) = r
    BY DEF m, kept, s
  <2> HIDE DEF r, x
  <2>8. Meets(r, U) <=> x \in U /\ m # 0
    <3>1. m # 0 => 1 \in 1 .. m
      BY <2>4
    <3>2. m = 0 => 1 .. m = {}
      OBVIOUS
    <3> QED  BY <2>6, <3>1, <3>2 DEF Meets, ToSet
  <2>9. Twice(r, U) <=> x \in U /\ m >= 2
    <3>1. m >= 2 => 1 \in 1 .. m /\ 2 \in 1 .. m
      BY <2>4
    <3>2. \A i, j \in 1 .. m : i # j => m >= 2
      BY <2>4
    <3> QED  BY <2>6, <3>1, <3>2 DEF Twice
  <2> QED  BY <2>1, <2>4, <2>5, <2>6, <2>7, <2>8, <2>9 DEF x, s, SuccessorSet
<1> HIDE DEF row
<1>3. rows \in Seq(Seq(N)) /\ DOMAIN rows = 1 .. n /\ \A k \in 1 .. n : rows[k] = row(k)
  <2> HIDE DEF N
  <2> QED  BY <1>1, <1>2
<1>4. Predecessors(g, v) = FlattenSeq(rows)
  BY DEF Predecessors, row
<1> HIDE DEF rows
<1>5. Twice(FlattenSeq(rows), U) <=> TwoRows(rows, U) \/ \E i \in 1 .. n : Twice(rows[i], U)
  BY <1>3, FlattenTwice
<1>6. TwoRows(rows, U) <=> \E a, b \in N \cap U : a # b /\ v \in SuccessorSet(g, a) /\ v \in SuccessorSet(g, b)
  <2>1. ASSUME TwoRows(rows, U)
        PROVE \E a, b \in N \cap U : a # b /\ v \in SuccessorSet(g, a) /\ v \in SuccessorSet(g, b)
    <3>1. PICK i \in 1 .. n : \E j \in 1 .. n : i # j /\ Meets(row(i), U) /\ Meets(row(j), U)
      BY <1>3, <2>1 DEF TwoRows
    <3>2. PICK j \in 1 .. n : i # j /\ Meets(row(i), U) /\ Meets(row(j), U)
      BY <3>1
    <3>3. i - 1 # j - 1
      BY <3>2
    <3> QED  BY <1>2, <3>2, <3>3
  <2>2. ASSUME NEW a \in N \cap U, NEW b \in N \cap U, a # b, v \in SuccessorSet(g, a), v \in SuccessorSet(g, b)
        PROVE  TwoRows(rows, U)
    <3>1. a + 1 \in 1 .. n /\ b + 1 \in 1 .. n /\ a + 1 # b + 1 /\ (a + 1) - 1 = a /\ (b + 1) - 1 = b
      BY <1>1, <2>2
    <3>2. Meets(row(a + 1), U) /\ Meets(row(b + 1), U)
      BY <1>2, <2>2, <3>1
    <3> QED  BY <1>3, <3>1, <3>2 DEF TwoRows
  <2> QED  BY <2>1, <2>2
<1>7. (\E i \in 1 .. n : Twice(rows[i], U)) <=> \E a \in N \cap U : Twice(g.succ[a], {v})
  <2>1. ASSUME NEW i \in 1 .. n, Twice(rows[i], U) PROVE \E a \in N \cap U : Twice(g.succ[a], {v})
    BY <1>2, <1>3, <2>1
  <2>2. ASSUME NEW a \in N \cap U, Twice(g.succ[a], {v}) PROVE \E i \in 1 .. n : Twice(rows[i], U)
    <3>1. a + 1 \in 1 .. n /\ (a + 1) - 1 = a
      BY <1>1
    <3> QED  BY <1>2, <1>3, <2>2, <3>1
  <2> QED  BY <2>1, <2>2
<1> HIDE DEF N
<1> QED  BY <1>4, <1>5, <1>6, <1>7 DEF N

(* A function defined by recursion along `next`, which lowers a number. *)
IsRecursive(f, D, comp, next, base, step) ==
    /\ DOMAIN f = D /\ f = [u \in D |-> f[u]]
    /\ \A u \in D : f[u] = IF u \in comp THEN step[u][f[next[u]]] ELSE base[u]

(* There is one function that recursion along a link defines. *)
LEMMA RecursionExists ==
  ASSUME NEW D, NEW V, NEW comp \in SUBSET D, NEW next \in [comp -> D], NEW base \in [D -> V],
         NEW step \in [comp -> [V -> V]], NEW n \in Nat, NEW num \in [D -> 0 .. n],
         \A u \in comp : num[next[u]] < num[u]
  PROVE  \E f \in [D -> V] : IsRecursive(f, D, comp, next, base, step)
<1> DEFINE A == [D -> V]
           Round(X) == [u \in D |-> IF u \in comp THEN step[u][X[next[u]]] ELSE base[u]]
           rounds == [k \in 1 .. n + 1 |-> [X \in A |-> Round(X)]]
<1>1. ASSUME NEW X \in A PROVE Round(X) \in A
  <2>1. \A u \in comp : next[u] \in D /\ X[next[u]] \in V /\ step[u] \in [V -> V]
    OBVIOUS
  <2> QED  BY <2>1
<1>2. IsSteps(rounds, n + 1, A) /\ n + 1 \in Nat
  BY <1>1 DEF IsSteps
<1>3. PICK R : IsRun(R, rounds, n + 1, A, base)
  <2> HIDE DEF rounds
  <2> QED  BY <1>2, RunExists
<1>4. R \in [0 .. n + 1 -> A] /\ \A k \in 1 .. n + 1 : R[k] = Round(R[k - 1])
  <2>1. R \in [0 .. n + 1 -> A] /\ \A k \in 1 .. n + 1 : R[k] = rounds[k][R[k - 1]]
    <3> HIDE DEF rounds, A
    <3> QED  BY <1>3 DEF IsRun
  <2>2. \A k \in 1 .. n + 1 : k - 1 \in 0 .. n + 1 /\ R[k - 1] \in A
    BY <2>1
  <2> HIDE DEF A, Round
  <2> QED  BY <2>1, <2>2
<1> HIDE DEF rounds
<1> DEFINE Stable(k) == \A u \in D : num[u] < k => R[k][u] = R[k - 1][u]
           Good == {k \in Nat : k \in 1 .. n => \A u \in D : num[u] < k => R[k + 1][u] = R[k][u]}
<1>5. \A k \in 1 .. n + 1 : \A u \in D :
          R[k][u] = IF u \in comp THEN step[u][R[k - 1][next[u]]] ELSE base[u]
  <2> SUFFICES ASSUME NEW k \in 1 .. n + 1, NEW u \in D
               PROVE  R[k][u] = IF u \in comp THEN step[u][R[k - 1][next[u]]] ELSE base[u]
    OBVIOUS
  <2> DEFINE X == R[k - 1]
  <2>1. R[k] = Round(X)
    BY <1>4
  <2> HIDE DEF X
  <2>2. R[k][u] = IF u \in comp THEN step[u][X[next[u]]] ELSE base[u]
    BY <2>1
  <2> QED  BY <2>2 DEF X
<1>6. 0 \in Good
  OBVIOUS
<1>7. ASSUME NEW k \in Good PROVE k + 1 \in Good
  <2> SUFFICES ASSUME k + 1 \in 1 .. n, NEW u \in D, num[u] < k + 1
               PROVE  R[k + 1 + 1][u] = R[k + 1][u]
    OBVIOUS
  <2>1. /\ k + 1 \in 1 .. n + 1 /\ k + 1 + 1 \in 1 .. n + 1 /\ (k + 1) - 1 = k /\ (k + 1 + 1) - 1 = k + 1
        /\ k \in Nat
    OBVIOUS
  <2>2. CASE u \notin comp
    BY <1>5, <2>1, <2>2
  <2>3. CASE u \in comp
    <3>1. next[u] \in D /\ num[next[u]] < num[u] /\ num[u] \in Nat /\ num[next[u]] \in Nat
      BY <2>3
    <3>2. R[k + 1][next[u]] = R[k][next[u]]
      <4>1. num[next[u]] < k /\ k # 0
        BY <2>1, <3>1
      <4>2. k \in 1 .. n
        BY <2>1, <4>1
      <4> QED  BY <1>7, <3>1, <4>1, <4>2
    <3> QED  BY <1>5, <2>1, <2>3, <3>2
  <2> QED  BY <2>2, <2>3
<1>8. Good = Nat
  <2>1. Good \in SUBSET Nat
    OBVIOUS
  <2> HIDE DEF Good
  <2> QED  BY <1>6, <1>7, <2>1, Induction
<1>9. ASSUME NEW u \in comp PROVE R[n + 1][next[u]] = R[n][next[u]]
  <2>1. next[u] \in D /\ num[next[u]] < n /\ n # 0
    <3>1. next[u] \in D /\ num[next[u]] < num[u] /\ num[u] \in 0 .. n /\ num[next[u]] \in 0 .. n
      OBVIOUS
    <3> QED  BY <3>1
  <2>2. n \in Good /\ n \in 1 .. n
    BY <1>8, <2>1
  <2> QED  BY <2>1, <2>2
<1> DEFINE f == R[n + 1]
<1>10. f \in A /\ n + 1 \in 1 .. n + 1 /\ (n + 1) - 1 = n
  BY <1>4
<1>11. \A u \in D : f[u] = IF u \in comp THEN step[u][f[next[u]]] ELSE base[u]
  BY <1>5, <1>9, <1>10
<1> HIDE DEF f
<1>12. DOMAIN f = D /\ f = [u \in D |-> f[u]]
  BY <1>10
<1> QED  BY <1>10, <1>11, <1>12 DEF IsRecursive

-----------------------------------------------------------------------------
(* FunctionRoots *)
Root(f) == [block : NodeIds(f), guard : NodeIds(f) \cup {Nil}, region : SUBSET NodeIds(f)]
NamedRoot(f) == [block : Nat, guard : NodeIds(f) \cup {Nil}, region : SUBSET NodeIds(f)]

LEMMA ClauseRootsType ==
  ASSUME NEW f, IsFunction(f), NEW c \in [start : Nat, end : Nat, entries : Seq(Nat)]
  PROVE  ClauseRoots(f, c) \in Seq(NamedRoot(f))
<1> DEFINE g == Guard(f, c)
           r == IF g = Nil THEN {} ELSE Region(f, c)
           e == c.entries
<1>1. g \in NodeIds(f) \cup {Nil}
  BY DEF Guard, NodeIds, IsFunction
<1>2. r \subseteq NodeIds(f)
  BY DEF Region
<1>3. e \in Seq(Nat)
  OBVIOUS
<1> HIDE DEF g, r, e
<1>4. [k \in DOMAIN e |-> [block |-> e[k], guard |-> g, region |-> r]] \in Seq(NamedRoot(f))
  <2>1. \A k \in DOMAIN e : [block |-> e[k], guard |-> g, region |-> r] \in NamedRoot(f)
    BY <1>1, <1>2, <1>3 DEF NamedRoot
  <2>2. DOMAIN e = 1 .. Len(e) /\ Len(e) \in Nat
    BY <1>3
  <2> HIDE DEF NamedRoot
  <2> QED  BY <2>1, <2>2
<1> QED  BY <1>4 DEF ClauseRoots, g, r, e

AllRoots(f) == FlattenSeq([i \in DOMAIN f.clauses |-> ClauseRoots(f, f.clauses[i])])

(* `roots` is what is kept of the first k elements of all: some of them, and of
   every block of the function one. *)
IsCollected(f, all, k, roots) ==
    /\ roots \in Seq(Root(f)) /\ ToSet(roots) \subseteq ToSet(all)
    /\ \A j \in 1 .. k : all[j].block < f.count => \E r \in ToSet(roots) : r.block = all[j].block

LEMMA FlowRootsFacts ==
  ASSUME NEW f, IsFunction(f)
  PROVE  /\ FlowRoots(f) \in Seq(Root(f))
         /\ AllRoots(f) \in Seq(NamedRoot(f))
         /\ ToSet(AllRoots(f)) = UNION {ToSet(ClauseRoots(f, f.clauses[i])) : i \in DOMAIN f.clauses}
         /\ IsCollected(f, AllRoots(f), Len(AllRoots(f)), FlowRoots(f))
<1> DEFINE flat == FlattenSeq([i \in DOMAIN f.clauses |-> ClauseRoots(f, f.clauses[i])])
           A == Seq(Root(f))
           Def(iter) == iter =
              [t \in SUBSET (DOMAIN flat) |->
                  IF t = {} THEN <<>>
                  ELSE IF flat[Max(t)].block >= f.count
                           \/ \E r \in ToSet(iter[t \ {Max(t)}]) : r.block = flat[Max(t)].block
                       THEN iter[t \ {Max(t)}]
                       ELSE Append(iter[t \ {Max(t)}], flat[Max(t)])]
<1>1. FlowRoots(f) = (CHOOSE iter : Def(iter))[DOMAIN flat]
  BY Zenon DEF FlowRoots, FoldLeft, MapThenFoldSet
<1> DEFINE n == Len(flat)
           Take(a, x) == IF x.block >= f.count \/ \E r \in ToSet(a) : r.block = x.block
                         THEN a ELSE Append(a, x)
           step == [k \in 1 .. n |-> [a \in A |-> Take(a, flat[k])]]
<1>2. /\ flat \in Seq(NamedRoot(f)) /\ flat = AllRoots(f)
      /\ ToSet(flat) = UNION {ToSet(ClauseRoots(f, f.clauses[i])) : i \in DOMAIN f.clauses}
  <2> DEFINE seqs == [i \in DOMAIN f.clauses |-> ClauseRoots(f, f.clauses[i])]
  <2>1. \A i \in DOMAIN f.clauses : ClauseRoots(f, f.clauses[i]) \in Seq(NamedRoot(f))
    <3>1. \A i \in DOMAIN f.clauses : f.clauses[i] \in [start : Nat, end : Nat, entries : Seq(Nat)]
      <4> DEFINE c == f.clauses
                 C == [start : Nat, end : Nat, entries : Seq(Nat)]
      <4>1. c \in Seq(C)
        BY DEF IsFunction
      <4> HIDE DEF c, C
      <4>2. \A i \in DOMAIN c : c[i] \in C
        BY <4>1
      <4> QED  BY <4>2 DEF c, C
    <3> QED  BY <3>1, ClauseRootsType
  <2>2. DOMAIN f.clauses = 1 .. Len(f.clauses) /\ Len(f.clauses) \in Nat
    BY DEF IsFunction
  <2>3. seqs \in Seq(Seq(NamedRoot(f)))
    BY <2>1, <2>2
  <2> HIDE DEF seqs
  <2>4. /\ FlattenSeq(seqs) \in Seq(NamedRoot(f))
        /\ ToSet(FlattenSeq(seqs)) = UNION {ToSet(seqs[i]) : i \in DOMAIN seqs}
    BY <2>3, FlattenFacts
  <2> QED  BY <2>4 DEF seqs, AllRoots
<1>3. n \in Nat /\ DOMAIN flat = 1 .. n /\ \A k \in 1 .. n : flat[k] \in NamedRoot(f)
  <2> HIDE DEF flat
  <2> QED  BY <1>2
<1> HIDE DEF flat
<1>4. ASSUME NEW k \in 1 .. n, NEW a \in A
      PROVE  Take(a, flat[k]) \in A
  <2> DEFINE x == flat[k]
  <2>1. x \in NamedRoot(f) /\ f.count \in Nat
    BY <1>3 DEF IsFunction
  <2> HIDE DEF x
  <2>2. x.block < f.count => x \in Root(f)
    BY <2>1 DEF NamedRoot, Root, NodeIds
  <2>3. x.block \in Nat
    BY <2>1 DEF NamedRoot
  <2>4. Take(a, x) \in A
    <3>1. CASE x.block < f.count
      BY <2>2, <3>1
    <3>2. CASE x.block >= f.count
      BY <3>2
    <3> QED  BY <2>1, <2>3, <3>1, <3>2
  <2> QED  BY <2>4 DEF x
<1>13. ASSUME NEW k \in Nat, k + 1 \in 1 .. n, NEW a, IsCollected(f, flat, k, a)
       PROVE  IsCollected(f, flat, k + 1, Take(a, flat[k + 1]))
  <2> DEFINE x == flat[k + 1]
  <2>1. a \in A /\ x \in NamedRoot(f) /\ x.block \in Nat /\ f.count \in Nat /\ x \in ToSet(flat)
    BY <1>3, <1>13 DEF IsCollected, IsFunction, NamedRoot, ToSet
  <2>2. Take(a, x) \in A
    BY <1>4, <2>1, <1>13
  <2>3. \A j \in 1 .. k + 1 : j \in 1 .. k \/ j = k + 1
    BY <1>13
  <2>4. \A j \in 1 .. k : flat[j].block < f.count => \E r \in ToSet(a) : r.block = flat[j].block
    BY <1>13 DEF IsCollected
  <2>6. ToSet(a) \subseteq ToSet(flat)
    BY <1>13 DEF IsCollected
  <2>5. CASE x.block >= f.count \/ \E r \in ToSet(a) : r.block = x.block
    <3>1. Take(a, x) = a
      BY <2>5
    <3>2. x.block < f.count => \E r \in ToSet(a) : r.block = x.block
      BY <2>1, <2>5
    <3> HIDE DEF A, Take
    <3>3. \A j \in 1 .. k + 1 : flat[j].block < f.count => \E r \in ToSet(a) : r.block = flat[j].block
      BY <2>3, <2>4, <3>2
    <3>4. a \in Seq(Root(f))
      BY <2>1 DEF A
    <3> HIDE DEF x
    <3>5. IsCollected(f, flat, k + 1, a)
      BY <2>6, <3>3, <3>4 DEF IsCollected
    <3>6. Take(a, flat[k + 1]) = a
      BY <3>1 DEF x
    <3> QED  BY <3>5, <3>6
  <2>7. CASE ~(x.block >= f.count \/ \E r \in ToSet(a) : r.block = x.block)
    <3> DEFINE b == Take(a, x)
    <3>1. b = Append(a, x)
      BY <2>7
    <3>2. x \in Root(f)
      BY <2>1, <2>7 DEF NamedRoot, Root, NodeIds
    <3>3. ToSet(Append(a, x)) = ToSet(a) \cup {x}
      <4> HIDE DEF x
      <4> QED  BY <2>1, <3>2, AppendElements
    <3> HIDE DEF x, Take, b
    <3>4. b \in Seq(Root(f)) /\ ToSet(b) = ToSet(a) \cup {x}
      BY <2>1, <3>1, <3>2, <3>3
    <3>5. \A j \in 1 .. k + 1 : flat[j].block < f.count => \E r \in ToSet(b) : r.block = flat[j].block
      <4> SUFFICES ASSUME NEW j \in 1 .. k + 1, flat[j].block < f.count
                   PROVE  \E r \in ToSet(b) : r.block = flat[j].block
        OBVIOUS
      <4>1. CASE j \in 1 .. k
        BY <2>4, <3>4, <4>1
      <4>2. CASE j = k + 1
        BY <3>4, <4>2 DEF x
      <4> QED  BY <2>3, <4>1, <4>2
    <3>6. IsCollected(f, flat, k + 1, b)
      BY <2>1, <2>6, <3>4, <3>5 DEF IsCollected
    <3> QED  BY <3>6 DEF b, x
  <2> QED  BY <2>5, <2>7
<1> HIDE DEF Take
<1>5. \E iter : Def(iter)
  <2>1. IsSteps(step, n, A)
    <3> HIDE DEF A, n
    <3> QED  BY <1>4 DEF IsSteps
  <2>2. PICK iter : IsFold(iter, step, n, A, <<>>)
    <3>1. <<>> \in A
      OBVIOUS
    <3> HIDE DEF step, A, n
    <3> QED  BY <1>3, <2>1, <3>1, FoldExists
  <2>3. ASSUME NEW t \in SUBSET (1 .. n)
        PROVE  iter[t] = IF t = {} THEN <<>> ELSE Take(iter[t \ {Max(t)}], flat[Max(t)])
    <3>1. CASE t = {}
      BY <2>2, <3>1 DEF IsFold
    <3>2. CASE t # {}
      <4>1. iter[t] = step[Max(t)][iter[t \ {Max(t)}]] /\ iter \in [SUBSET (1 .. n) -> A]
        BY <2>2, <3>2 DEF IsFold
      <4>2. Max(t) \in 1 .. n
        BY <1>3, <3>2, MaxFacts
      <4>3. t \ {Max(t)} \in SUBSET (1 .. n)
        OBVIOUS
      <4>4. iter[t \ {Max(t)}] \in A
        BY <4>1, <4>3
      <4> HIDE DEF n, A
      <4> QED  BY <3>2, <4>1, <4>2, <4>4
    <3> QED  BY <3>1, <3>2
  <2>4. iter = [t \in SUBSET (1 .. n) |-> iter[t]]
    BY <2>2 DEF IsFold
  <2>5. Def(iter)
    BY <1>3, <2>3, <2>4 DEF Take
  <2> QED  BY <2>5
<1> DEFINE iter == CHOOSE iter : Def(iter)
<1>6. Def(iter)
  BY <1>5
<1>7. \A t \in SUBSET (1 .. n) :
        iter[t] = IF t = {} THEN <<>> ELSE Take(iter[t \ {Max(t)}], flat[Max(t)])
  <2> HIDE DEF iter, n
  <2> QED  BY <1>3, <1>6 DEF Take
<1> HIDE DEF iter
<1> DEFINE S == {k \in Nat : k <= n => IsCollected(f, flat, k, iter[1 .. k])}
<1>8. 0 \in S
  <2>1. 1 .. 0 = {} /\ {} \in SUBSET (1 .. n) /\ <<>> \in Seq(Root(f)) /\ ToSet(<<>>) = {}
    BY DEF ToSet
  <2> HIDE DEF A, n
  <2>2. iter[1 .. 0] = <<>>
    BY <1>7, <2>1
  <2>3. IsCollected(f, flat, 0, <<>>)
    BY <2>1 DEF IsCollected
  <2> QED  BY <2>2, <2>3
<1>9. ASSUME NEW k \in S PROVE k + 1 \in S
  <2> SUFFICES ASSUME k + 1 <= n PROVE IsCollected(f, flat, k + 1, iter[1 .. k + 1])
    OBVIOUS
  <2>1. k \in Nat /\ k + 1 \in 1 .. n /\ IsCollected(f, flat, k, iter[1 .. k])
    BY <1>3
  <2>2. Max(1 .. k + 1) = k + 1 /\ (1 .. k + 1) \ {k + 1} = 1 .. k
    <3>1. k + 1 \in Nat \ {0} /\ (k + 1) - 1 = k
      BY <2>1
    <3> QED  BY <3>1, MaxUpto
  <2>3. (1 .. k + 1) \in SUBSET (1 .. n) /\ 1 .. k + 1 # {}
    <3> HIDE DEF n
    <3>1. 1 \in 1 .. k + 1 /\ \A j \in 1 .. k + 1 : j \in 1 .. n
      BY <1>3, <2>1
    <3> QED  BY <3>1
  <2>4. iter[1 .. k + 1] = Take(iter[1 .. k], flat[k + 1])
    BY <1>7, <2>2, <2>3
  <2> HIDE DEF n
  <2> QED  BY <1>13, <2>1, <2>4
<1>10. S = Nat
  <2>1. S \in SUBSET Nat
    OBVIOUS
  <2> HIDE DEF S
  <2> QED  BY <1>8, <1>9, <2>1, Induction
<1>11. FlowRoots(f) = iter[1 .. n]
  <2> HIDE DEF A, n
  <2> QED  BY <1>1, <1>3 DEF iter
<1>12. n \in S /\ n <= n
  <2> HIDE DEF S, n
  <2> QED  BY <1>3, <1>10
<1>14. IsCollected(f, flat, n, FlowRoots(f))
  <2> HIDE DEF n
  <2> QED  BY <1>11, <1>12
<1> QED  BY <1>2, <1>14 DEF IsCollected

LEMMA FlowRootsType ==
  ASSUME NEW f, IsFunction(f)
  PROVE  FlowRoots(f) \in Seq(Root(f))
BY FlowRootsFacts

-----------------------------------------------------------------------------
(* EhCfg::new *)
LEMMA SsaCfgIsGraph ==
  ASSUME NEW f, IsFunction(f)
  PROVE  /\ IsGraph(SsaCfg(f)) /\ NodeIds(SsaCfg(f)) = NodeIds(f)
         /\ \A b \in NodeIds(f) :
               /\ SsaCfg(f).succ[b] \in Seq(NodeIds(f))
               /\ SuccessorSet(SsaCfg(f), b) = ToSet(f.targets[b]) \cap NodeIds(f)
<1>1. ASSUME NEW b \in NodeIds(f)
      PROVE  /\ Keep(f.targets[b], NodeIds(f)) \in Seq(NodeIds(f))
             /\ ToSet(Keep(f.targets[b], NodeIds(f))) = ToSet(f.targets[b]) \cap NodeIds(f)
  <2>1. f.targets[b] \in Seq(Nat)
    BY DEF IsFunction
  <2>2. Nat \cap NodeIds(f) = NodeIds(f)
    BY DEF NodeIds, IsFunction
  <2> QED  BY <2>1, <2>2, KeepFacts
<1>2. f.count \in Nat
  BY DEF IsFunction
<1>3. SsaCfg(f).count = f.count /\ NodeIds(SsaCfg(f)) = NodeIds(f)
  BY DEF SsaCfg, NodeIds
<1>4. SsaCfg(f).succ = [b \in NodeIds(f) |-> Keep(f.targets[b], NodeIds(f))]
  BY DEF SsaCfg
<1> QED  BY <1>1, <1>2, <1>3, <1>4 DEF IsGraph, SuccessorSet

Eh(f) ==
    [worklist : Seq(NodeIds(f)), reachable : SUBSET NodeIds(f),
     attached : SUBSET DOMAIN FlowRoots(f), extra : [NodeIds(f) -> Seq(NodeIds(f))]]

(* The blocks an edge of the terminators or an attached one leads to. *)
Known(x, b) == SuccessorSet(SsaCfg(function), b) \cup ToSet(x.extra[b])

(* What the traversal has to keep true at every block but the open ones: it has
   found nothing the edges do not lead to, and expanded all it has found and
   does not hold in its worklist. *)
EhSound(x) ==
    /\ 0 \in x.reachable /\ ToSet(x.worklist) \subseteq x.reachable
    /\ \A b \in NodeIds(function) : ToSet(x.extra[b]) \subseteq x.reachable
    /\ \A Y : 0 \in Y /\ (\A v \in Y \cap NodeIds(function) : Known(x, v) \subseteq Y)
               => x.reachable \subseteq Y
EhExpanded(x, open) ==
    \A b \in x.reachable \ (ToSet(x.worklist) \cup open) :
        /\ SuccessorSet(SsaCfg(function), b) \subseteq x.reachable
        /\ \A i \in DOMAIN FlowRoots(function) : FlowRoots(function)[i].guard = b => i \in x.attached

(* The blocks that are reached before a root is attached to the entry for want
   of a better place: those the terminators and the guards lead to. *)
Early(f) ==
    {v \in NodeIds(f) :
        \A Y : /\ 0 \in Y
               /\ \A b \in Y \cap NodeIds(f) : SuccessorSet(SsaCfg(f), b) \subseteq Y
               /\ \A i \in DOMAIN FlowRoots(f) :
                      FlowRoots(f)[i].guard \in Y => FlowRoots(f)[i].block \in Y
            => v \in Y}

EhHanging(x) ==
    \A i \in x.attached :
        LET root == FlowRoots(function)[i]
        IN  /\ root.block \in x.reachable
            /\ root.guard \in Early(function) => root.block \in Known(x, root.guard)
EhCore(x, open) == x \in Eh(function) /\ EhSound(x) /\ EhExpanded(x, open) /\ EhHanging(x)
EhInv == IsFunction(function) /\ EhCore(eh, {})

LEMMA FunctionHasEntry ==
  ASSUME NEW f, IsFunction(f)
  PROVE  0 \in NodeIds(f)
BY DEF IsFunction, NodeIds

LEMMA ReachType ==
  ASSUME NEW x \in Eh(function), NEW b \in NodeIds(function)
  PROVE  Reach(x, b) \in Eh(function)
<1>1. CASE b \in x.reachable
  BY <1>1 DEF Reach
<1>2. CASE b \notin x.reachable
  <2> DEFINE y == Reach(x, b)
  <2>1. x.worklist \in Seq(NodeIds(function)) /\ x.reachable \cup {b} \in SUBSET NodeIds(function)
    BY DEF Eh
  <2>2. Append(x.worklist, b) \in Seq(NodeIds(function))
    BY <2>1
  <2>3. y = [x EXCEPT !.reachable = x.reachable \cup {b}, !.worklist = Append(x.worklist, b)]
    BY <1>2 DEF Reach
  <2> HIDE DEF y
  <2>4. y \in Eh(function)
    BY <2>1, <2>2, <2>3 DEF Eh
  <2> QED  BY <2>4 DEF y
<1> QED  BY <1>1, <1>2

LEMMA AttachType ==
  ASSUME IsFunction(function), NEW x \in Eh(function), NEW from \in NodeIds(function),
         NEW i \in DOMAIN FlowRoots(function)
  PROVE  AttachRoot(x, from, i) \in Eh(function)
<1> DEFINE to == FlowRoots(function)[i].block
           known == ToSet(SsaCfg(function).succ[from]) \cup ToSet(x.extra[from])
           y == [x EXCEPT !.attached = @ \cup {i},
                          !.extra[from] = IF to \in known THEN @ ELSE Append(@, to)]
<1>1. to \in NodeIds(function)
  <2>1. FlowRoots(function) \in Seq(Root(function))
    BY FlowRootsType
  <2>2. FlowRoots(function)[i] \in Root(function)
    BY <2>1
  <2> QED  BY <2>2 DEF Root
<1>2. AttachRoot(x, from, i) = Reach(y, to)
  BY DEF AttachRoot
<1>3. x.extra[from] \in Seq(NodeIds(function))
  BY DEF Eh
<1>4. (IF to \in known THEN x.extra[from] ELSE Append(x.extra[from], to)) \in Seq(NodeIds(function))
  BY <1>1, <1>3
<1>5. y \in Eh(function)
  <2> HIDE DEF known, to
  <2> QED  BY <1>4 DEF Eh
<1> HIDE DEF y, to
<1> QED  BY <1>1, <1>2, <1>5, ReachType

LEMMA NewEhCore ==
  ASSUME IsFunction(function)
  PROVE  EhCore(NewEh(function), {})
<1> DEFINE x == NewEh(function)
<1>1. /\ x.worklist = <<0>> /\ x.reachable = {0} /\ x.attached = {}
      /\ \A b \in NodeIds(function) : x.extra[b] = <<>>
  BY DEF NewEh
<1>2. 0 \in NodeIds(function)
  BY FunctionHasEntry
<1>3. ToSet(<<0>>) = {0} /\ ToSet(<<>>) = {}
  BY DEF ToSet
<1>4. x \in Eh(function)
  BY <1>2 DEF NewEh, Eh
<1> HIDE DEF x
<1>5. EhSound(x) /\ EhExpanded(x, {}) /\ EhHanging(x)
  BY <1>1, <1>3 DEF EhSound, EhExpanded, EhHanging
<1> QED  BY <1>4, <1>5 DEF EhCore, x

LEMMA ReachCore ==
  ASSUME IsFunction(function), NEW x, NEW open, EhCore(x, open),
         NEW b \in NodeIds(function), NEW a \in x.reachable, b \in Known(x, a)
  PROVE  /\ EhCore(Reach(x, b), open)
         /\ Reach(x, b).reachable = x.reachable \cup {b}
         /\ Reach(x, b).attached = x.attached
         /\ Reach(x, b).extra = x.extra
<1> DEFINE y == Reach(x, b)
<1>1. CASE b \in x.reachable
  <2>1. y = x
    BY <1>1 DEF Reach
  <2> QED  BY <1>1, <2>1
<1>2. CASE b \notin x.reachable
  <2>0. x \in Eh(function)
    BY DEF EhCore
  <2>1. /\ y.reachable = x.reachable \cup {b} /\ y.attached = x.attached /\ y.extra = x.extra
        /\ y.worklist = Append(x.worklist, b)
    BY <1>2, <2>0 DEF Reach, Eh
  <2>2. y \in Eh(function)
    BY <2>0, ReachType
  <2>3. ToSet(y.worklist) = ToSet(x.worklist) \cup {b}
    <3>1. x.worklist \in Seq(NodeIds(function))
      BY <2>0 DEF Eh
    <3> QED  BY <2>1, <3>1, AppendElements
  <2>4. \A v : Known(y, v) = Known(x, v)
    BY <2>1 DEF Known
  <2> HIDE DEF y
  <2>5. EhSound(y)
    <3>0. x.reachable \subseteq NodeIds(function)
      BY <2>0 DEF Eh
    <3>1. ASSUME NEW Y, 0 \in Y, \A v \in Y \cap NodeIds(function) : Known(y, v) \subseteq Y
          PROVE  y.reachable \subseteq Y
      <4>1. x.reachable \subseteq Y
        BY <2>4, <3>1 DEF EhCore, EhSound
      <4>2. b \in Y
        BY <2>4, <3>0, <3>1, <4>1
      <4> QED  BY <2>1, <4>1, <4>2
    <3> QED  BY <2>1, <2>3, <3>1 DEF EhCore, EhSound
  <2>6. EhExpanded(y, open)
    BY <2>1, <2>3 DEF EhCore, EhExpanded
  <2>7. EhHanging(y)
    BY <2>1, <2>4 DEF EhCore, EhHanging
  <2> QED  BY <2>1, <2>2, <2>5, <2>6, <2>7 DEF EhCore, y
<1> QED  BY <1>1, <1>2

LEMMA AttachCore ==
  ASSUME IsFunction(function), NEW x, NEW open, EhCore(x, open),
         NEW from \in x.reachable, NEW i \in DOMAIN FlowRoots(function),
         \/ FlowRoots(function)[i].guard = from
         \/ FlowRoots(function)[i].guard \notin Early(function)
  PROVE  /\ EhCore(AttachRoot(x, from, i), open)
         /\ x.reachable \subseteq AttachRoot(x, from, i).reachable
         /\ AttachRoot(x, from, i).attached = x.attached \cup {i}
<1> DEFINE to == FlowRoots(function)[i].block
           known == ToSet(SsaCfg(function).succ[from]) \cup ToSet(x.extra[from])
           y == [x EXCEPT !.attached = @ \cup {i},
                          !.extra[from] = IF to \in known THEN @ ELSE Append(@, to)]
<1>0. x \in Eh(function) /\ from \in NodeIds(function)
  BY DEF EhCore, Eh
<1>1. to \in NodeIds(function)
  <2>1. FlowRoots(function) \in Seq(Root(function))
    BY FlowRootsType
  <2>2. FlowRoots(function)[i] \in Root(function)
    BY <2>1
  <2> QED  BY <2>2 DEF Root
<1>2. AttachRoot(x, from, i) = Reach(y, to)
  BY DEF AttachRoot
<1>3. x.extra[from] \in Seq(NodeIds(function)) /\ x.extra \in [NodeIds(function) -> Seq(NodeIds(function))]
  BY <1>0 DEF Eh
<1>4. /\ y.worklist = x.worklist /\ y.reachable = x.reachable
      /\ y.attached = x.attached \cup {i}
      /\ y.extra = [x.extra EXCEPT ![from] = IF to \in known THEN @ ELSE Append(@, to)]
  BY <1>0 DEF Eh
<1>5. y \in Eh(function)
  <2>1. (IF to \in known THEN x.extra[from] ELSE Append(x.extra[from], to)) \in Seq(NodeIds(function))
    BY <1>1, <1>3
  <2> HIDE DEF known, to
  <2> QED  BY <1>0, <2>1 DEF Eh
<1>6. \A v \in NodeIds(function) : Known(y, v) = IF v = from THEN Known(x, v) \cup {to} ELSE Known(x, v)
  <2>1. ToSet(Append(x.extra[from], to)) = ToSet(x.extra[from]) \cup {to}
    BY <1>1, <1>3, AppendElements
  <2>2. ToSet(y.extra[from]) \cup ToSet(SsaCfg(function).succ[from]) = known \cup {to}
    BY <1>0, <1>3, <1>4, <2>1
  <2>3. \A v \in NodeIds(function) \ {from} : y.extra[v] = x.extra[v]
    BY <1>3, <1>4
  <2> HIDE DEF y, to
  <2> QED  BY <1>0, <2>2, <2>3 DEF Known, SuccessorSet
<1> HIDE DEF y, known, to
(* The edge is there, the block it leads to not yet found. *)
<1> DEFINE z == Reach(y, to)
<1>7. /\ z \in Eh(function) /\ z.reachable = x.reachable \cup {to} /\ z.attached = x.attached \cup {i}
      /\ z.extra = y.extra /\ ToSet(z.worklist) = ToSet(x.worklist) \cup ({to} \ x.reachable)
  <2>1. CASE to \in x.reachable
    BY <1>4, <1>5, <2>1 DEF Reach
  <2>2. CASE to \notin x.reachable
    <3>1. /\ z.worklist = Append(y.worklist, to) /\ z.reachable = y.reachable \cup {to}
          /\ z.attached = y.attached /\ z.extra = y.extra
      BY <1>4, <1>5, <2>2 DEF Reach, Eh
    <3>2. z \in Eh(function)
      BY <1>1, <1>5, ReachType
    <3>3. x.worklist \in Seq(NodeIds(function))
      BY <1>0 DEF Eh
    <3>4. ToSet(z.worklist) = ToSet(x.worklist) \cup {to}
      <4>1. ToSet(Append(x.worklist, to)) = ToSet(x.worklist) \cup {to}
        BY <1>1, <3>3, AppendElements
      <4> QED  BY <1>4, <3>1, <4>1
    <3> QED  BY <1>4, <2>2, <3>1, <3>2, <3>4
  <2> QED  BY <2>1, <2>2
<1>8. \A v \in NodeIds(function) : Known(z, v) = IF v = from THEN Known(x, v) \cup {to} ELSE Known(x, v)
  BY <1>6, <1>7 DEF Known
<1>9. EhSound(z)
  <2>1. ASSUME NEW Y, 0 \in Y, \A v \in Y \cap NodeIds(function) : Known(z, v) \subseteq Y
        PROVE  z.reachable \subseteq Y
    <3>1. \A v \in Y \cap NodeIds(function) : Known(x, v) \subseteq Y
      BY <1>8, <2>1
    <3>2. x.reachable \subseteq Y
      BY <2>1, <3>1 DEF EhCore, EhSound
    <3>3. to \in Y
      BY <1>0, <1>8, <2>1, <3>2
    <3> QED  BY <1>7, <3>2, <3>3
  <2>2. \A b \in NodeIds(function) : ToSet(z.extra[b]) \subseteq z.reachable
    <3>1. ASSUME NEW b \in NodeIds(function) PROVE ToSet(z.extra[b]) \subseteq z.reachable
      <4>1. ToSet(x.extra[b]) \subseteq x.reachable
        BY DEF EhCore, EhSound
      <4>2. CASE b = from
        <5>1. ToSet(y.extra[from]) \subseteq ToSet(x.extra[from]) \cup {to}
          <6>1. ToSet(Append(x.extra[from], to)) = ToSet(x.extra[from]) \cup {to}
            BY <1>1, <1>3, AppendElements
          <6> QED  BY <1>0, <1>3, <1>4, <6>1
        <5> QED  BY <1>7, <4>1, <4>2, <5>1
      <4>3. CASE b # from
        <5>1. y.extra[b] = x.extra[b]
          BY <1>3, <1>4, <4>3
        <5> QED  BY <1>7, <4>1, <5>1
      <4> QED  BY <4>2, <4>3
    <3> QED  BY <3>1
  <2> HIDE DEF z
  <2> QED  BY <1>7, <2>1, <2>2 DEF EhCore, EhSound
<1>10. EhExpanded(z, open)
  <2> HIDE DEF z
  <2> QED  BY <1>7 DEF EhCore, EhExpanded
<1>11. EhHanging(z)
  <2>1. ASSUME NEW j \in z.attached
        PROVE  LET root == FlowRoots(function)[j]
               IN  /\ root.block \in z.reachable
                   /\ root.guard \in Early(function) => root.block \in Known(z, root.guard)
    <3>1. CASE j = i
      BY <1>0, <1>7, <1>8, <3>1 DEF to
    <3>2. CASE j # i
      <4>1. j \in x.attached
        BY <1>7, <3>2
      <4>2. Early(function) \subseteq NodeIds(function)
        BY DEF Early
      <4> HIDE DEF z
      <4> QED  BY <1>7, <1>8, <4>1, <4>2 DEF EhCore, EhHanging
    <3> QED  BY <3>1, <3>2
  <2> QED  BY <2>1 DEF EhHanging
<1> QED  BY <1>2, <1>7, <1>9, <1>10, <1>11 DEF EhCore

LEMMA ReachFold ==
  ASSUME IsFunction(function), NEW x, NEW open, EhCore(x, open), NEW a \in x.reachable,
         NEW s \in Seq(NodeIds(function)), ToSet(s) \subseteq Known(x, a)
  PROVE  LET y == FoldLeft(Reach, x, s)
         IN  /\ EhCore(y, open)
             /\ x.reachable \cup ToSet(s) \subseteq y.reachable
             /\ y.attached = x.attached
<1> DEFINE n == Len(s)
           A == Eh(function)
           Def(iter) == iter = [t \in SUBSET (DOMAIN s) |->
                                  IF t = {} THEN x ELSE Reach(iter[t \ {Max(t)}], s[Max(t)])]
           step == [k \in 1 .. n |-> [e \in A |-> Reach(e, s[k])]]
<1>1. FoldLeft(Reach, x, s) = (CHOOSE iter : Def(iter))[DOMAIN s]
  BY Zenon DEF FoldLeft, MapThenFoldSet
<1>2. n \in Nat /\ DOMAIN s = 1 .. n /\ (\A k \in 1 .. n : s[k] \in NodeIds(function)) /\ x \in A
  BY DEF EhCore
<1>3. ASSUME NEW e \in A, NEW b \in NodeIds(function) PROVE Reach(e, b) \in A
  BY <1>3, ReachType
<1>4. IsSteps(step, n, A)
  <2> HIDE DEF A, n
  <2> QED  BY <1>2, <1>3 DEF IsSteps
<1>5. \E iter : Def(iter)
  <2>1. PICK iter : IsFold(iter, step, n, A, x)
    <3> HIDE DEF step, A, n
    <3> QED  BY <1>2, <1>4, FoldExists
  <2>2. ASSUME NEW t \in SUBSET (1 .. n)
        PROVE  iter[t] = IF t = {} THEN x ELSE Reach(iter[t \ {Max(t)}], s[Max(t)])
    <3>1. CASE t = {}
      BY <2>1, <3>1 DEF IsFold
    <3>2. CASE t # {}
      <4>1. iter[t] = step[Max(t)][iter[t \ {Max(t)}]] /\ iter \in [SUBSET (1 .. n) -> A]
        BY <2>1, <3>2 DEF IsFold
      <4>2. Max(t) \in 1 .. n
        BY <1>2, <3>2, MaxFacts
      <4>3. t \ {Max(t)} \in SUBSET (1 .. n)
        OBVIOUS
      <4>4. iter[t \ {Max(t)}] \in A
        BY <4>1, <4>3
      <4> HIDE DEF n, A
      <4> QED  BY <3>2, <4>1, <4>2, <4>4
    <3> QED  BY <3>1, <3>2
  <2>3. iter = [t \in SUBSET (1 .. n) |-> iter[t]]
    BY <2>1 DEF IsFold
  <2>4. Def(iter)
    BY <1>2, <2>2, <2>3
  <2> QED  BY <2>4
<1> DEFINE iter == CHOOSE iter : Def(iter)
<1>6. Def(iter)
  BY <1>5
<1>7. \A t \in SUBSET (1 .. n) :
        iter[t] = IF t = {} THEN x ELSE Reach(iter[t \ {Max(t)}], s[Max(t)])
  <2> HIDE DEF iter, n
  <2> QED  BY <1>2, <1>6
<1>8. FoldLeft(Reach, x, s) = iter[1 .. n]
  <2> HIDE DEF A, n
  <2> QED  BY <1>1, <1>2 DEF iter
<1> HIDE DEF iter
<1>9. iter[{}] = x
  <2>1. {} \in SUBSET (1 .. n)
    OBVIOUS
  <2> QED  BY <1>7, <2>1
<1>10. ASSUME NEW k \in 1 .. n PROVE iter[1 .. k] = Reach(iter[1 .. k - 1], s[k])
  <2>1. Max(1 .. k) = k /\ (1 .. k) \ {k} = 1 .. k - 1
    <3>1. k \in Nat \ {0}
      BY <1>2
    <3> QED  BY <3>1, MaxUpto
  <2>2. (1 .. k) \in SUBSET (1 .. n) /\ 1 .. k # {}
    <3> HIDE DEF n
    <3>1. 1 \in 1 .. k /\ \A j \in 1 .. k : j \in 1 .. n
      BY <1>2
    <3> QED  BY <3>1
  <2> QED  BY <1>7, <2>1, <2>2
<1>11. \A k \in 1 .. n : iter[1 .. k - 1] \in A => iter[1 .. k] = step[k][iter[1 .. k - 1]]
  <2> HIDE DEF A, n
  <2> QED  BY <1>10
<1> DEFINE R == [k \in 0 .. n |-> iter[1 .. k]]
           P == [k \in 0 .. n |-> {e \in A : /\ EhCore(e, open)
                                             /\ x.reachable \cup {s[j] : j \in 1 .. k} \subseteq e.reachable
                                             /\ e.attached = x.attached
                                             /\ e.extra = x.extra}]
<1>12. IsRun(R, step, n, A, x)
  <2> HIDE DEF A, n, step
  <2> QED  BY <1>2, <1>4, <1>9, <1>11, FoldIsRun
<1>13. P \in [0 .. n -> SUBSET A] /\ x \in P[0]
  <2> HIDE DEF n
  <2>1. {s[j] : j \in 1 .. 0} = {} /\ 0 \in 0 .. n
    BY <1>2
  <2> QED  BY <1>2, <2>1
<1>14. ASSUME NEW k \in 1 .. n, NEW e \in P[k - 1] PROVE step[k][e] \in P[k]
  <2> HIDE DEF n
  <2>1. k - 1 \in 0 .. n /\ k \in 0 .. n /\ {s[j] : j \in 1 .. k} = {s[j] : j \in 1 .. k - 1} \cup {s[k]}
    <3>1. \A j : j \in 1 .. k <=> j \in 1 .. k - 1 \/ j = k
      BY <1>2
    <3> QED  BY <1>2, <3>1
  <2>2. /\ e \in A /\ EhCore(e, open) /\ e.attached = x.attached /\ e.extra = x.extra
        /\ x.reachable \cup {s[j] : j \in 1 .. k - 1} \subseteq e.reachable
    BY <1>14, <2>1
  <2>3. s[k] \in Known(e, a)
    <3>1. s[k] \in ToSet(s)
      BY <1>2 DEF ToSet
    <3> QED  BY <2>2, <3>1 DEF Known
  <2>4. /\ EhCore(Reach(e, s[k]), open) /\ Reach(e, s[k]).reachable = e.reachable \cup {s[k]}
        /\ Reach(e, s[k]).attached = e.attached /\ Reach(e, s[k]).extra = e.extra
    <3> HIDE DEF P
    <3> QED  BY <1>2, <2>2, <2>3, ReachCore
  <2>5. step[k][e] = Reach(e, s[k]) /\ Reach(e, s[k]) \in A
    <3> HIDE DEF A
    <3> QED  BY <1>2, <1>3, <2>2
  <2> HIDE DEF A, step
  <2> QED  BY <2>1, <2>2, <2>4, <2>5
<1>15. R[n] \in P[n]
  <2> HIDE DEF A, n, step, P, R
  <2> QED  BY <1>2, <1>12, <1>13, <1>14, RunInvariant
<1>16. n \in 0 .. n /\ ToSet(s) = {s[j] : j \in 1 .. n}
  BY <1>2 DEF ToSet
<1> HIDE DEF A, n
<1> QED  BY <1>8, <1>15, <1>16
AttachAll(x, from, s) == LET Attach(e, i) == AttachRoot(e, from, i) IN FoldLeft(Attach, x, s)

LEMMA AttachFold ==
  ASSUME IsFunction(function), NEW x, NEW open, EhCore(x, open), NEW from \in x.reachable,
         NEW s \in Seq({i \in DOMAIN FlowRoots(function) : FlowRoots(function)[i].guard = from})
  PROVE  LET y == AttachAll(x, from, s)
         IN  /\ EhCore(y, open)
             /\ x.reachable \subseteq y.reachable
             /\ x.attached \cup ToSet(s) \subseteq y.attached
<1> DEFINE Attach(e, i) == AttachRoot(e, from, i)
           I == {i \in DOMAIN FlowRoots(function) : FlowRoots(function)[i].guard = from}
           n == Len(s)
           A == Eh(function)
           Def(iter) == iter = [t \in SUBSET (DOMAIN s) |->
                                  IF t = {} THEN x ELSE Attach(iter[t \ {Max(t)}], s[Max(t)])]
           step == [k \in 1 .. n |-> [e \in A |-> Attach(e, s[k])]]
<1>1. AttachAll(x, from, s) = (CHOOSE iter : Def(iter))[DOMAIN s]
  BY Zenon DEF AttachAll, FoldLeft, MapThenFoldSet
<1>2. n \in Nat /\ DOMAIN s = 1 .. n /\ (\A k \in 1 .. n : s[k] \in I) /\ x \in A
  BY DEF EhCore
<1>0. from \in NodeIds(function)
  BY DEF EhCore, Eh
<1>3. ASSUME NEW e \in A, NEW b \in I PROVE Attach(e, b) \in A
  BY <1>0, <1>3, AttachType
<1>4. IsSteps(step, n, A)
  <2> HIDE DEF A, n, I, Attach
  <2> QED  BY <1>2, <1>3 DEF IsSteps
<1>5. \E iter : Def(iter)
  <2>1. PICK iter : IsFold(iter, step, n, A, x)
    <3> HIDE DEF step, A, n
    <3> QED  BY <1>2, <1>4, FoldExists
  <2>2. ASSUME NEW t \in SUBSET (1 .. n)
        PROVE  iter[t] = IF t = {} THEN x ELSE Attach(iter[t \ {Max(t)}], s[Max(t)])
    <3>1. CASE t = {}
      BY <2>1, <3>1 DEF IsFold
    <3>2. CASE t # {}
      <4>1. iter[t] = step[Max(t)][iter[t \ {Max(t)}]] /\ iter \in [SUBSET (1 .. n) -> A]
        BY <2>1, <3>2 DEF IsFold
      <4>2. Max(t) \in 1 .. n
        BY <1>2, <3>2, MaxFacts
      <4>3. t \ {Max(t)} \in SUBSET (1 .. n)
        OBVIOUS
      <4>4. iter[t \ {Max(t)}] \in A
        BY <4>1, <4>3
      <4> HIDE DEF n, A
      <4> QED  BY <3>2, <4>1, <4>2, <4>4
    <3> QED  BY <3>1, <3>2
  <2>3. iter = [t \in SUBSET (1 .. n) |-> iter[t]]
    BY <2>1 DEF IsFold
  <2>4. Def(iter)
    BY <1>2, <2>2, <2>3
  <2> QED  BY <2>4
<1> DEFINE iter == CHOOSE iter : Def(iter)
<1>6. Def(iter)
  BY <1>5
<1>7. \A t \in SUBSET (1 .. n) :
        iter[t] = IF t = {} THEN x ELSE Attach(iter[t \ {Max(t)}], s[Max(t)])
  <2> HIDE DEF iter, n
  <2> QED  BY <1>2, <1>6
<1>8. AttachAll(x, from, s) = iter[1 .. n]
  <2> HIDE DEF A, n
  <2> QED  BY <1>1, <1>2 DEF iter
<1> HIDE DEF iter
<1>9. iter[{}] = x
  <2>1. {} \in SUBSET (1 .. n)
    OBVIOUS
  <2> QED  BY <1>7, <2>1
<1>10. ASSUME NEW k \in 1 .. n PROVE iter[1 .. k] = Attach(iter[1 .. k - 1], s[k])
  <2>1. Max(1 .. k) = k /\ (1 .. k) \ {k} = 1 .. k - 1
    <3>1. k \in Nat \ {0}
      BY <1>2
    <3> QED  BY <3>1, MaxUpto
  <2>2. (1 .. k) \in SUBSET (1 .. n) /\ 1 .. k # {}
    <3> HIDE DEF n
    <3>1. 1 \in 1 .. k /\ \A j \in 1 .. k : j \in 1 .. n
      BY <1>2
    <3> QED  BY <3>1
  <2> QED  BY <1>7, <2>1, <2>2
<1>11. \A k \in 1 .. n : iter[1 .. k - 1] \in A => iter[1 .. k] = step[k][iter[1 .. k - 1]]
  <2> HIDE DEF A, n
  <2> QED  BY <1>10
<1> DEFINE R == [k \in 0 .. n |-> iter[1 .. k]]
           P == [k \in 0 .. n |-> {e \in A : /\ EhCore(e, open)
                                             /\ x.reachable \subseteq e.reachable
                                             /\ x.attached \cup {s[j] : j \in 1 .. k} \subseteq e.attached}]
<1>12. IsRun(R, step, n, A, x)
  <2> HIDE DEF A, n, step
  <2> QED  BY <1>2, <1>4, <1>9, <1>11, FoldIsRun
<1>13. P \in [0 .. n -> SUBSET A] /\ x \in P[0]
  <2> HIDE DEF n
  <2>1. {s[j] : j \in 1 .. 0} = {} /\ 0 \in 0 .. n
    BY <1>2
  <2> QED  BY <1>2, <2>1
<1>14. ASSUME NEW k \in 1 .. n, NEW e \in P[k - 1] PROVE step[k][e] \in P[k]
  <2> HIDE DEF n
  <2>1. k - 1 \in 0 .. n /\ k \in 0 .. n /\ {s[j] : j \in 1 .. k} = {s[j] : j \in 1 .. k - 1} \cup {s[k]}
    <3>1. \A j : j \in 1 .. k <=> j \in 1 .. k - 1 \/ j = k
      BY <1>2
    <3> QED  BY <1>2, <3>1
  <2>2. /\ e \in A /\ EhCore(e, open) /\ x.reachable \subseteq e.reachable
        /\ x.attached \cup {s[j] : j \in 1 .. k - 1} \subseteq e.attached
    BY <1>14, <2>1
  <2>4. /\ EhCore(Attach(e, s[k]), open) /\ e.reachable \subseteq Attach(e, s[k]).reachable
        /\ Attach(e, s[k]).attached = e.attached \cup {s[k]}
    <3>1. s[k] \in DOMAIN FlowRoots(function) /\ FlowRoots(function)[s[k]].guard = from
      BY <1>2
    <3> HIDE DEF P
    <3> QED  BY <2>2, <3>1, AttachCore
  <2>5. step[k][e] = Attach(e, s[k]) /\ Attach(e, s[k]) \in A
    <3> HIDE DEF A, Attach, I
    <3> QED  BY <1>2, <1>3, <2>2
  <2> HIDE DEF A, step, Attach
  <2> QED  BY <2>1, <2>2, <2>4, <2>5
<1>15. R[n] \in P[n]
  <2> HIDE DEF A, n, step, P, R
  <2> QED  BY <1>2, <1>12, <1>13, <1>14, RunInvariant
<1>16. n \in 0 .. n /\ ToSet(s) = {s[j] : j \in 1 .. n}
  BY <1>2 DEF ToSet
<1> HIDE DEF A, n
<1> QED  BY <1>8, <1>15, <1>16

LEMMA ExpandCore ==
  ASSUME EhInv, Expand
  PROVE  EhCore(eh', {})
<1> DEFINE block == Head(eh.worklist)
           popped == [eh EXCEPT !.worklist = Tail(@)]
           expanded == FoldLeft(Reach, popped, SsaCfg(function).succ[block])
           roots == FlowRoots(function)
           waiting == Keep([i \in DOMAIN roots |-> i],
                           {i \in Unattached(eh) : roots[i].guard = block})
<1>1. IsFunction(function) /\ EhCore(eh, {}) /\ eh \in Eh(function) /\ eh.worklist # <<>>
  BY DEF EhInv, EhCore, Expand
<1>2. eh' = AttachAll(expanded, block, waiting)
  BY DEF Expand, AttachAll
<1>3. /\ block \in NodeIds(function) /\ Tail(eh.worklist) \in Seq(NodeIds(function))
      /\ ToSet(eh.worklist) = {block} \cup ToSet(Tail(eh.worklist))
  <2> DEFINE w == eh.worklist
  <2>1. w \in Seq(NodeIds(function)) /\ w # <<>>
    BY <1>1 DEF Eh
  <2> HIDE DEF w
  <2> QED  BY <2>1, HeadTailElements DEF w
<1>4. EhCore(popped, {block}) /\ block \in popped.reachable /\ popped.attached = eh.attached
  <2>1. /\ popped.worklist = Tail(eh.worklist) /\ popped.reachable = eh.reachable
        /\ popped.attached = eh.attached /\ popped.extra = eh.extra
    BY <1>1 DEF Eh
  <2>2. popped \in Eh(function)
    BY <1>1, <1>3 DEF Eh
  <2> HIDE DEF popped, block
  <2>3. \A v : Known(popped, v) = Known(eh, v)
    BY <2>1 DEF Known
  <2>4. EhSound(popped)
    BY <1>1, <1>3, <2>1, <2>3 DEF EhCore, EhSound
  <2>5. EhExpanded(popped, {block})
    BY <1>1, <1>3, <2>1 DEF EhCore, EhExpanded
  <2>6. EhHanging(popped)
    BY <1>1, <2>1, <2>3 DEF EhCore, EhHanging
  <2>7. block \in popped.reachable
    BY <1>1, <1>3, <2>1 DEF EhCore, EhSound
  <2> QED  BY <2>1, <2>2, <2>4, <2>5, <2>6, <2>7 DEF EhCore
<1>5. /\ EhCore(expanded, {block}) /\ expanded.attached = eh.attached
      /\ popped.reachable \cup SuccessorSet(SsaCfg(function), block) \subseteq expanded.reachable
  <2> DEFINE s == SsaCfg(function).succ[block]
  <2>1. s \in Seq(NodeIds(function))
    BY <1>1, <1>3, SsaCfgIsGraph
  <2>2. ToSet(s) \subseteq Known(popped, block)
    BY DEF Known, SuccessorSet
  <2> HIDE DEF s, popped, block
  <2>3. LET y == FoldLeft(Reach, popped, s)
        IN  /\ EhCore(y, {block})
            /\ popped.reachable \cup ToSet(s) \subseteq y.reachable
            /\ y.attached = popped.attached
    BY <1>1, <1>4, <2>1, <2>2, ReachFold
  <2> QED  BY <1>4, <2>3 DEF s, SuccessorSet
<1>6. /\ waiting \in Seq({i \in DOMAIN roots : roots[i].guard = block})
      /\ ToSet(waiting) = {i \in Unattached(eh) : roots[i].guard = block}
  <2> DEFINE W == {i \in Unattached(eh) : roots[i].guard = block}
             ids == [i \in DOMAIN roots |-> i]
  <2>1. roots \in Seq(Root(function))
    BY <1>1, FlowRootsType
  <2>2. DOMAIN roots = 1 .. Len(roots) /\ Len(roots) \in Nat
    BY <2>1
  <2>3. ids \in Seq(DOMAIN roots) /\ ToSet(ids) = DOMAIN roots
    BY <2>2 DEF ToSet
  <2>4. W \subseteq DOMAIN roots
    BY DEF Unattached
  <2>5. Keep(ids, W) \in Seq(DOMAIN roots \cap W) /\ ToSet(Keep(ids, W)) = ToSet(ids) \cap W
    <3> HIDE DEF ids, W
    <3> QED  BY <2>3, KeepFacts
  <2>6. DOMAIN roots \cap W \subseteq {i \in DOMAIN roots : roots[i].guard = block}
    OBVIOUS
  <2> HIDE DEF W, ids, roots
  <2> QED  BY <2>3, <2>4, <2>5, <2>6 DEF W, ids
<1>7. /\ EhCore(eh', {block}) /\ expanded.reachable \subseteq eh'.reachable
      /\ eh.attached \cup ToSet(waiting) \subseteq eh'.attached
  <2> HIDE DEF popped, block, waiting, expanded
  <2>1. block \in expanded.reachable
    BY <1>4, <1>5
  <2>2. LET y == AttachAll(expanded, block, waiting)
        IN  /\ EhCore(y, {block})
            /\ expanded.reachable \subseteq y.reachable
            /\ expanded.attached \cup ToSet(waiting) \subseteq y.attached
    BY <1>1, <1>5, <1>6, <2>1, AttachFold
  <2> QED  BY <1>2, <1>5, <2>2
<1>8. EhExpanded(eh', {})
  <2> HIDE DEF popped, block, waiting, expanded
  <2>1. SuccessorSet(SsaCfg(function), block) \subseteq eh'.reachable
    BY <1>5, <1>7
  <2>2. \A i \in DOMAIN roots : roots[i].guard = block => i \in eh'.attached
    BY <1>6, <1>7 DEF Unattached
  <2>3. EhExpanded(eh', {block})
    BY <1>7 DEF EhCore
  <2> QED  BY <2>1, <2>2, <2>3 DEF EhExpanded
<1> QED  BY <1>7, <1>8 DEF EhCore

LEMMA FallBackCore ==
  ASSUME EhInv, FallBack
  PROVE  EhCore(eh', {})
<1>1. PICK i \in Unattached(eh) : eh' = AttachRoot(eh, 0, i)
  BY DEF FallBack
<1>2. /\ IsFunction(function) /\ EhCore(eh, {}) /\ 0 \in eh.reachable
      /\ i \in DOMAIN FlowRoots(function) /\ i \notin eh.attached
  BY DEF EhInv, EhCore, EhSound, Unattached
<1>3. Early(function) \subseteq eh.reachable
  <2>1. eh.worklist = <<>> /\ ToSet(<<>>) = {}
    BY DEF FallBack, ToSet
  <2>2. \A v \in eh.reachable : SuccessorSet(SsaCfg(function), v) \subseteq eh.reachable
    BY <1>2, <2>1 DEF EhCore, EhExpanded
  <2>3. \A j \in DOMAIN FlowRoots(function) :
           FlowRoots(function)[j].guard \in eh.reachable => FlowRoots(function)[j].block \in eh.reachable
    BY <1>2, <2>1 DEF EhCore, EhExpanded, EhHanging
  <2> QED  BY <1>2, <2>2, <2>3 DEF Early
<1>4. FlowRoots(function)[i].guard \notin eh.reachable
  <2>1. eh.worklist = <<>> /\ ToSet(<<>>) = {}
    BY DEF FallBack, ToSet
  <2> QED  BY <1>2, <2>1 DEF EhCore, EhExpanded
<1> QED  BY <1>1, <1>2, <1>3, <1>4, AttachCore

LEMMA EhCfgIsGraph ==
  ASSUME EhInv
  PROVE  /\ IsGraph(EhCfg) /\ NodeIds(EhCfg) = NodeIds(function)
         /\ \A b \in NodeIds(function) : SuccessorSet(EhCfg, b) = Known(eh, b)
<1>1. IsFunction(function) /\ eh \in Eh(function)
  BY DEF EhInv, EhCore
<1>2. EhCfg.count = function.count /\ function.count \in Nat /\ NodeIds(EhCfg) = NodeIds(function)
  BY <1>1 DEF EhCfg, NodeIds, IsFunction
<1>3. ASSUME NEW b \in NodeIds(function)
      PROVE  /\ SsaCfg(function).succ[b] \o eh.extra[b] \in Seq(NodeIds(function))
             /\ ToSet(SsaCfg(function).succ[b] \o eh.extra[b]) = Known(eh, b)
  <2>1. SsaCfg(function).succ[b] \in Seq(NodeIds(function)) /\ eh.extra[b] \in Seq(NodeIds(function))
    BY <1>1, SsaCfgIsGraph DEF Eh
  <2> QED  BY <2>1, ConcatElements DEF Known, SuccessorSet
<1>4. EhCfg.succ = [b \in NodeIds(function) |-> SsaCfg(function).succ[b] \o eh.extra[b]]
  BY DEF EhCfg
<1> QED  BY <1>2, <1>3, <1>4 DEF IsGraph, SuccessorSet

LEMMA EarlyReaches ==
  ASSUME NEW f, IsFunction(f)
  PROVE  ReachableFrom(SsaCfg(f), 0) \subseteq Early(f)
<1> DEFINE X == ReachableFrom(SsaCfg(f), 0)
<1>1. {0} \in SUBSET NodeIds(SsaCfg(f)) /\ IsGraph(SsaCfg(f)) /\ NodeIds(SsaCfg(f)) = NodeIds(f)
  BY SsaCfgIsGraph, FunctionHasEntry
<1>2. /\ X \subseteq NodeIds(f)
      /\ \A Y : {0} \subseteq Y /\ (\A v \in X \cap Y : SuccessorSet(SsaCfg(f), v) \ {} \subseteq Y) => X \subseteq Y
  BY <1>1, ReachableIsLeast DEF ReachableFrom
<1> HIDE DEF X
<1>3. ASSUME NEW Y, 0 \in Y, \A b \in Y \cap NodeIds(f) : SuccessorSet(SsaCfg(f), b) \subseteq Y
      PROVE  X \subseteq Y
  BY <1>2, <1>3
<1> QED  BY <1>2, <1>3 DEF Early, X

LEMMA RootsReachable ==
  ASSUME EhInv
  PROVE  RootsAreReachable
<1> SUFFICES ASSUME Attached, DOMAIN eh.extra = NodeIds(function)
             PROVE  /\ \A r \in ToSet(FlowRoots(function)) :
                          /\ r.block \in ReachableFrom(EhCfg, 0)
                          /\ r.guard \in ReachableFrom(SsaCfg(function), 0) =>
                                 r.block \in SuccessorSet(EhCfg, r.guard)
                    /\ eh.reachable = ReachableFrom(EhCfg, 0)
  BY DEF RootsAreReachable
<1> DEFINE reach == ReachableFrom(EhCfg, 0)
<1>1. /\ IsFunction(function) /\ EhCore(eh, {}) /\ eh \in Eh(function)
      /\ ToSet(eh.worklist) = {} /\ DOMAIN FlowRoots(function) \subseteq eh.attached
  BY DEF EhInv, EhCore, Attached, Unattached, ToSet
<1>2. {0} \in SUBSET NodeIds(EhCfg) /\ IsGraph(EhCfg)
  BY <1>1, EhCfgIsGraph, FunctionHasEntry
<1>3. /\ reach \subseteq NodeIds(function) /\ 0 \in reach
      /\ \A v \in reach : Known(eh, v) \subseteq reach
      /\ \A Y : 0 \in Y /\ (\A v \in reach \cap Y : Known(eh, v) \subseteq Y) => reach \subseteq Y
  <2>1. NodeIds(EhCfg) = NodeIds(function) /\ \A b \in NodeIds(function) : SuccessorSet(EhCfg, b) = Known(eh, b)
    BY EhCfgIsGraph
  <2>2. reach \subseteq NodeIds(function) /\ 0 \in reach
    BY <1>2, <2>1, ReachableIsLeast DEF ReachableFrom
  <2>3. \A v \in reach : Known(eh, v) \subseteq reach
    BY <1>2, <2>1, <2>2, ReachableIsLeast DEF ReachableFrom, IsClosed
  <2>4. ASSUME NEW Y, 0 \in Y, \A v \in reach \cap Y : Known(eh, v) \subseteq Y PROVE reach \subseteq Y
    <3>1. \A v \in reach \cap Y : SuccessorSet(EhCfg, v) \ {} \subseteq Y
      BY <2>1, <2>2, <2>4
    <3>2. {0} \ {} \subseteq Y
      BY <2>4
    <3> QED  BY <1>2, <3>1, <3>2, ReachableIsLeast DEF ReachableFrom
  <2> QED  BY <2>2, <2>3, <2>4
<1> HIDE DEF reach
<1>4. eh.reachable \subseteq reach
  BY <1>1, <1>3 DEF EhCore, EhSound
<1>5. reach \subseteq eh.reachable
  <2>1. \A v \in eh.reachable : Known(eh, v) \subseteq eh.reachable
    BY <1>1 DEF EhCore, EhSound, EhExpanded, Known, Eh
  <2> QED  BY <1>1, <1>3, <2>1 DEF EhCore, EhSound
<1>6. ASSUME NEW r \in ToSet(FlowRoots(function))
      PROVE  /\ r.block \in reach
             /\ r.guard \in ReachableFrom(SsaCfg(function), 0) => r.block \in SuccessorSet(EhCfg, r.guard)
  <2>1. PICK i \in DOMAIN FlowRoots(function) : r = FlowRoots(function)[i]
    BY DEF ToSet
  <2>2. r.guard \in ReachableFrom(SsaCfg(function), 0) => r.guard \in Early(function) \cap NodeIds(function)
    BY <1>1, EarlyReaches DEF Early
  <2>3. i \in eh.attached
    BY <1>1
  <2> QED  BY <1>1, <1>4, <2>1, <2>2, <2>3, EhCfgIsGraph DEF EhCore, EhHanging
<1> QED  BY <1>4, <1>5, <1>6 DEF reach
====
