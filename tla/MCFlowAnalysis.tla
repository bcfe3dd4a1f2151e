---------------------------- MODULE MCFlowAnalysis ----------------------------
(* Instances of FlowAnalysis: small functions, and what is asked about them. *)
EXTENDS FlowAnalysis

Function(targets, clauses) ==
    [count |-> Cardinality(DOMAIN targets), targets |-> targets, clauses |-> clauses]
Plain(targets) == Function(targets, <<>>)

Returns == {<<>>}
Jumps(bs) == {<<a>> : a \in bs}
Branches(bs) == {<<a, b>> : a \in bs, b \in bs}
Rising(bs) == {t \in Branches(bs) : t[1] < t[2]}

(* Every block but the first is entered from an earlier one: up to the names of
   the blocks, all functions without unreachable blocks. *)
InOrder(f) == \A b \in 1 .. f.count - 1 : \E a \in 0 .. b - 1 : b \in ToSet(f.targets[a])

FourBlocks ==
    {f \in {Plain(t) : t \in [0 .. 3 -> Returns \cup Jumps(0 .. 3) \cup Rising(0 .. 3)]} : InOrder(f)}

(* Branches in either order and with both arms on one block. *)
ThreeBlocks ==
    {f \in {Plain(t) : t \in [0 .. 2 -> Returns \cup Jumps(0 .. 2) \cup Branches(0 .. 2)]} : InOrder(f)}

(* Blocks nothing enters. *)
Unreachable ==
    {Plain(t @@ (2 :> <<1>> @@ 3 :> u)) :
        t \in [0 .. 1 -> {<<>>, <<1>>, <<0, 1>>, <<1, 1>>}], u \in {<<1>>, <<2>>, <<2, 3>>, <<0, 3>>}}

(* A chain of five blocks with up to two more edges. *)
Chains ==
    {Plain([b \in 0 .. 4 |->
        (IF b < 4 THEN <<b + 1>> ELSE <<>>) \o SetToSeq({e[2] : e \in {x \in extra : x[1] = b}})]) :
        extra \in {{e1, e2} : e1 \in (0 .. 4) \X (0 .. 4), e2 \in (0 .. 4) \X (0 .. 4)}}

Clause(start, end, entries) == [start |-> start, end |-> end, entries |-> entries]
Tables ==
    {<<Clause(1, 2, <<3>>)>>, <<Clause(1, 3, <<3>>)>>, <<Clause(1, 2, <<3, 4>>)>>,
     <<Clause(0, 3, <<3>>)>>, <<Clause(3, 4, <<4>>), Clause(1, 2, <<3>>)>>,
     <<Clause(3, 4, <<4>>), Clause(4, 5, <<3>>)>>, <<Clause(9, 9, <<3>>), Clause(1, 2, <<3, 7>>)>>,
     <<Clause(1, 3, <<4>>), Clause(2, 3, <<3>>)>>,      \* nested
     <<Clause(2, 4, <<4>>), Clause(1, 2, <<3>>)>>,      \* a handler in a region
     <<Clause(2, 3, <<3>>), Clause(1, 2, <<3>>)>>}      \* a shared handler
Guarded ==
    {Function(0 :> <<1>> @@ 1 :> t1 @@ 2 :> t2 @@ 3 :> t3 @@ 4 :> t4, table) :
        t1 \in {<<2>>, <<2, 4>>, <<>>}, t2 \in {<<>>, <<4>>, <<1, 4>>},
        t3 \in {<<>>, <<4>>, <<1>>, <<3, 4>>}, t4 \in {<<>>, <<2>>}, table \in Tables}

MCQuestions ==
    ({"dominance"} \X (FourBlocks \cup Chains \cup Unreachable \cup Guarded))
        \cup ({"dependence"} \X (FourBlocks \cup ThreeBlocks \cup Unreachable))
        \cup ({"canonicalize"} \X (FourBlocks \cup ThreeBlocks \cup Chains))
=============================================================================
