----------------------------- MODULE MCDataflow -----------------------------
(* Instances of Dataflow: small functions with one source variable. *)
EXTENDS Dataflow

(* A plan gives the terminators' targets, what each block does to the variable,
   and the condition of its branch.  `InSsa` names the values: block b's phi is
   10b + 1, what it computes 10b + 2, its condition 10b + 3, its constants
   10b + 4 and 10b + 5, and 0 is the argument the variable starts from. *)
Plan(targets, does, test) ==
    [count |-> Cardinality(DOMAIN targets), targets |-> targets, does |-> does, test |-> test]

InSsa(plan, clauses) ==
    LET f == [count |-> plan.count, targets |-> plan.targets, clauses |-> clauses]
        preds(b) == PredecessorSet(SsaCfg(f), b)
        In[k \in 0 .. plan.count, b \in NodeIds(f)] ==
            IF Cardinality(preds(b)) > 1 THEN 10 * b + 1
            ELSE IF preds(b) = {} \/ k = 0 THEN 0
            ELSE LET p == CHOOSE p \in preds(b) : TRUE
                 IN  IF plan.does[p] = "none" THEN In[k - 1, p] ELSE 10 * p + 2
        Before(b) == In[plan.count, b]
        After(b) == IF plan.does[b] = "none" THEN Before(b) ELSE 10 * b + 2
        Work(b) ==
            CASE plan.does[b] = "none" -> <<>>
              [] plan.does[b] = "add" ->
                    <<Instruction("const", 10 * b + 4, <<>>, 1),
                      Instruction("add", 10 * b + 2, <<Before(b), 10 * b + 4>>, 0)>>
              [] plan.does[b] = "copy" -> <<Instruction("copy", 10 * b + 2, <<0>>, 0)>>
              [] plan.does[b] \in {"opaque", "length"} ->
                    <<Instruction(plan.does[b], 10 * b + 2, <<>>, 0)>>
              [] OTHER -> <<Instruction("const", 10 * b + 2, <<>>,
                                        CASE plan.does[b] = "zero" -> 0 [] plan.does[b] = "one" -> 1
                                          [] plan.does[b] = "two" -> 2)>>
        Test(b) ==
            IF Len(plan.targets[b]) # 2 \/ plan.test[b] \in {"value", "argument"} THEN <<>>
            ELSE <<Instruction("const", 10 * b + 5, <<>>, 1),
                   Instruction(plan.test[b], 10 * b + 3, <<After(b), 10 * b + 5>>, 0)>>
        Leave(b) ==
            LET t == plan.targets[b]
            IN  CASE Len(t) = 0 -> Control("return", <<After(b)>>, t)
                  [] Len(t) = 1 -> Control("jump", <<>>, t)
                  [] Len(t) > 2 -> Control("switch", <<After(b)>>, t)
                  [] plan.test[b] = "value" -> Control("branch", <<After(b)>>, t)
                  [] plan.test[b] = "argument" -> Control("branch", <<0>>, t)
                  [] OTHER -> Control("branch", <<10 * b + 3>>, t)
        Merge(b) ==
            [result |-> 10 * b + 1,
             operands |-> [k \in 1 .. Cardinality(preds(b)) |->
                 LET p == SetToSortSeq(preds(b), <)[k]
                 IN  [pred |-> p, value |-> After(p)]]]
    IN  [count |-> plan.count, targets |-> plan.targets, clauses |-> clauses,
         initial |-> [supplied |-> {0}, arguments |-> {0}, locals |-> {}],
         phis |-> [b \in NodeIds(f) |-> IF Cardinality(preds(b)) > 1 THEN <<Merge(b)>> ELSE <<>>],
         body |-> [b \in NodeIds(f) |-> Work(b) \o Test(b) \o <<Leave(b)>>]]

(* The same function when 0 is a live-in; when it is an initialized local; and
   when a builder gave every phi the origin of an argument and every other
   definition that of a local. *)
WithLiveIn(f) == [f EXCEPT !.initial.arguments = {}]
WithLocal(f) == [f EXCEPT !.initial.arguments = {}, !.initial.locals = {0}]
AsBuilt(f) ==
    [f EXCEPT !.initial.arguments = @ \cup UNION {PhiResults(f, b) : b \in NodeIds(f)},
              !.initial.locals = UNION {Dests(f, b) : b \in NodeIds(f)}]
Variants(functions) ==
    UNION {{WithLiveIn(f), WithLocal(f), AsBuilt(f)} : f \in functions}

(* Every choice of work for the blocks that go on somewhere. *)
Functions(shapes, works, tests) ==
    UNION {{InSsa(Plan(s, d @@ [b \in DOMAIN s |-> "none"], [b \in DOMAIN s |-> t]), <<>>) :
               d \in [{b \in DOMAIN s : s[b] # <<>>} -> works], t \in tests} : s \in shapes}

Diamond == 0 :> <<1, 2>> @@ 1 :> <<3>> @@ 2 :> <<3>> @@ 3 :> <<>>
EntryLoop == 0 :> <<1>> @@ 1 :> <<2, 3>> @@ 2 :> <<0>> @@ 3 :> <<>>
Loop == 0 :> <<1>> @@ 1 :> <<2, 3>> @@ 2 :> <<1>> @@ 3 :> <<>>
Skip == 0 :> <<1, 2>> @@ 1 :> <<2>> @@ 2 :> <<3, 4>> @@ 3 :> <<>> @@ 4 :> <<>>
Dispatch == 0 :> <<1, 2, 3>> @@ 1 :> <<4>> @@ 2 :> <<4>> @@ 3 :> <<4>> @@ 4 :> <<>>
SplitLoop == 0 :> <<1>> @@ 1 :> <<2, 5>> @@ 2 :> <<3, 4>> @@ 3 :> <<4>> @@ 4 :> <<1>> @@ 5 :> <<>>

ElseIf == 0 :> <<1, 4>> @@ 1 :> <<2, 3>> @@ 2 :> <<4>> @@ 3 :> <<>> @@ 4 :> <<>>

SparseFunctions ==
    Functions({Diamond, Loop}, {"none", "one", "add"}, {"clt", "value"})
        \cup Functions({Diamond}, {"zero", "one", "opaque", "length"}, {"clt", "ceq", "argument"})
        \cup Functions({Loop}, {"zero", "copy", "add", "opaque"}, {"clt", "ceq", "clt_un"})
        \cup Functions({Skip}, {"none", "zero", "one"}, {"clt", "argument", "value"})
        \cup Functions({ElseIf}, {"zero", "one", "opaque"}, {"clt", "value"})
        \cup Functions({Dispatch}, {"one", "two", "add", "opaque"}, {"clt"})
        \cup Functions({SplitLoop}, {"none", "one"}, {"clt", "value"})
        \cup Functions({SplitLoop}, {"zero", "add"}, {"clt", "value"})

(* All graphs of four blocks that return, jump or branch, every block but the
   first entered from an earlier one and none leading back to the first. *)
FourBlocks ==
    {t \in [0 .. 3 -> {<<>>} \cup {<<a>> : a \in 1 .. 3}
                         \cup {<<1, 2>>, <<1, 3>>, <<3, 2>>}] :
        \A b \in 1 .. 3 : \E a \in 0 .. b - 1 : b \in ToSet(t[a])}

Clause(start, end, entry) == [start |-> start, end |-> end, entries |-> <<entry>>]
Guarded ==
    {InSsa(Plan(0 :> <<1>> @@ 1 :> t1 @@ 2 :> t2 @@ 3 :> t3 @@ 4 :> <<>>,
                [b \in 0 .. 4 |-> d[b % 2]], [b \in 0 .. 4 |-> "clt"]), <<c>>) :
        t1 \in {<<2>>, <<2, 4>>}, t2 \in {<<>>, <<4>>, <<1, 4>>}, t3 \in {<<>>, <<4>>, <<1>>},
        c \in {Clause(1, 2, 3), Clause(1, 3, 3), Clause(0, 1, 3)},
        d \in [0 .. 1 -> {"none", "add"}]}

SolverFunctions ==
    Functions(FourBlocks, {"add"}, {"clt"}) \cup Functions({Loop, Skip}, {"none", "add"}, {"clt"})
        \cup Functions({EntryLoop}, {"none"}, {"clt"}) \cup Guarded

MCOpaque == {Lowest, 0, Highest}

SparseVariants ==
    Variants(Functions({Diamond}, {"zero", "one", "none"}, {"clt", "argument"})
                 \cup Functions({Loop}, {"zero", "copy", "add"}, {"clt", "ceq"}))

MCInquiries ==
    ({"constants", "ranges"} \X (SparseFunctions \cup SparseVariants))
        \cup ({"liveness", "reaching"} \X SolverFunctions)
        \cup ({"reaching"} \X Variants(SolverFunctions))

(* Four ways to one join, three of them constants, the last one a length. *)
FourWays ==
    0 :> <<1, 2, 3, 4>> @@ 1 :> <<5>> @@ 2 :> <<5>> @@ 3 :> <<5>> @@ 4 :> <<5>> @@ 5 :> <<>>
MCLateLength ==
    {"ranges"} \X {InSsa(Plan(FourWays, 0 :> "opaque" @@ 1 :> a @@ 2 :> b @@ 3 :> c
                                        @@ 4 :> "length" @@ 5 :> "none",
                              [n \in 0 .. 5 |-> "clt"]), <<>>) :
                       a \in {"zero", "one"}, b \in {"zero", "one"}, c \in {"zero", "one"}}

(* A second branch on the argument, inside an arm of the first one. *)
MCElseIf == {"ranges"} \X Functions({ElseIf}, {"zero", "one"}, {"argument"})
=============================================================================
