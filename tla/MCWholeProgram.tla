--------------------------- MODULE MCWholeProgram ---------------------------
(***************************************************************************)
(* Instances of WholeProgram for TLC: call graphs of four methods, and     *)
(* analyses whose summary is the depth of the calls below a method, which  *)
(* is its limit where recursion makes it unbounded.                        *)
(***************************************************************************)
EXTENDS WholeProgram, TLC

CONSTANT ext

Size(w) == Cardinality({e \in Method \X Method : e[2] \in w[e[1]]})
LoopFree(w) == \A m \in Method : m \notin w[m]

(* All graphs of the first three methods, the sparser loop-free ones of four,
   and one with calls that leave the program. *)
mWorlds ==
    {w \in [Method -> SUBSET (1..3)] : w[4] = {}}
    \cup {w \in [Method -> SUBSET Method] : LoopFree(w) /\ Size(w) <= 5}
    \cup {[m \in Method |-> IF m = 4 THEN {4, ext} ELSE {ext, m + 1}]}

mEntries == {{1}}
mDead == {{}, {2, 3}}

(* One more than the largest of the callees' depths, and at most the limit. *)
mLimit(m) == IF m = 2 THEN Height - 1 ELSE Height
Depth(m, E, f) ==
    Cardinality({n \in 1..mLimit(m) : n = 1 \/ \E w \in E : f[w] >= n - 1})

Larger(x, y) == IF x < y THEN y ELSE x

(* Depths; depths that the callees get to know as well; and a judgement that a
   method makes against its callees', which recursion never brings to rest. *)
mTransfer(a, m, E, f) ==
    CASE a = "returns" -> [f EXCEPT ![m] = Depth(m, E, f)]
      [] a = "arguments" ->
            [w \in Method |-> IF w = m THEN Larger(f[m], Depth(m, E, f))
                              ELSE IF w \in E THEN Larger(f[w], f[m]) ELSE f[w]]
      [] a = "opposes" -> [f EXCEPT ![m] = IF \E w \in E : f[w] > 0 THEN 0 ELSE 1]

mCalls == {<<"returns", 0>>, <<"returns", 3>>, <<"arguments", 2>>, <<"opposes", 3>>}
=============================================================================
