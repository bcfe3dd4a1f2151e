------------------------------ MODULE RangePass ------------------------------
(***************************************************************************)
(* What passes/ranges.rs makes of the ranges it found: `run` folds the     *)
(* branches and comparisons they decide, and ValueRanges::range_at refines *)
(* a range by the branches that guard a block.                             *)
(***************************************************************************)
EXTENDS SparsePropagation, PhiRepair

(* ranges_overlap: where a bound is missing they may. *)
Overlap(a, b) ==
    \/ Top \in {a, b}
    \/ /\ Bottom \notin {a, b}
       /\ \/ \E r \in {a, b} : MinOf(r) = NoMin \/ MaxOf(r) = NoMax
          \/ MaxOf(a) >= MinOf(b) /\ MinOf(a) <= MaxOf(b)

(* try_simplify_comparison: the value the comparison always has, or Nil.  It
   does not ask whether the comparison is unsigned. *)
Decided(ranges, i) ==
    LET l == ranges[i.args[1]]
        r == ranges[i.args[2]]
    IN  IF i.op = "ceq"
        THEN CASE IsConstant(l) /\ IsConstant(r) -> Truth(ValueOf(l) = ValueOf(r))
               [] ~Overlap(l, r) -> 0
               [] OTHER -> Nil
        ELSE CASE MaxOf(l) < MinOf(r) -> 1
               [] MinOf(l) >= MaxOf(r) -> 0
               [] OTHER -> Nil

(* Mutant of LostSuccessors: the block the branch is folded to is not spared. *)
LostSuccessorsAll(f, b, target) == SuccessorSet(SsaCfg(f), b)

(* The blocks an edge leads to no longer. *)
LostSuccessors(f, b, target) == SuccessorSet(SsaCfg(f), b) \ {target}

(* fold_terminator_pruning_phis: the blocks the branch no longer leads to lose
   its operands, and no phi is left without one. *)
FoldBranch(f, b, target) ==
    LET Pruned(c, phi) ==
            LET others == Keep(phi.operands, {o \in ToSet(phi.operands) : o.pred # b})
            IN  IF c \notin LostSuccessors(f, b, target) \/ others = <<>>
                THEN phi ELSE [phi EXCEPT !.operands = others]
    IN  [f EXCEPT !.targets[b] = <<target>>,
                  !.body[b][Len(f.body[b])] = Control("jump", <<>>, <<target>>),
                  !.phis = [c \in NodeIds(f) |-> [k \in DOMAIN @[c] |-> Pruned(c, @[c][k])]]]

(* The target block b of f goes on to whenever it is left, or Nil. *)
SoleTarget(f, ranges, b) ==
    LET t == Terminator(f, b)
        range == ranges[t.args[1]]
    IN  IF t.op # "branch" THEN Nil
        ELSE IF range \in {Interval(0, 0), Bottom} THEN t.targets[2]
        ELSE IF IsConstant(range) THEN t.targets[1]
        ELSE Nil

(* The decisions are all taken from the function as it was. *)
FoldBranches(f, ranges) ==
    LET Fold(g, b) ==
            IF SoleTarget(f, ranges, b) = Nil THEN g
            ELSE FoldBranch(g, b, SoleTarget(f, ranges, b))
    IN  FoldLeft(Fold, f, [k \in 1 .. f.count |-> k - 1])

(* A comparison the ranges decide is a constant. *)
Simpler(ranges, i) ==
    IF IsComparison(i.op) /\ Decided(ranges, i) # Nil
    THEN Instruction("const", i.dest, <<>>, Decided(ranges, i)) ELSE i

FoldComparisons(f, ranges) ==
    [f EXCEPT !.body =
        [b \in NodeIds(f) |-> [k \in DOMAIN @[b] |-> Simpler(ranges, @[b][k])]]]

(* run, with the repair at the end of its edit session *)
Simplified(f, ranges) ==
    LET folded == FoldComparisons(FoldBranches(f, ranges), ranges)
    IN  IF folded = f THEN f ELSE RepairSsa(folded)

-----------------------------------------------------------------------------
(* ValueRanges::range_at *)

Below(range) == IF MaxOf(range) = NoMax THEN Top ELSE Interval(NoMin, MaxOf(range) - 1)
AtMost(range) == IF MaxOf(range) = NoMax THEN Top ELSE Interval(NoMin, MaxOf(range))
Above(range) == IF MinOf(range) = NoMin THEN Top ELSE Interval(MinOf(range) + 1, NoMax)
AtLeast(range) == IF MinOf(range) = NoMin THEN Top ELSE Interval(MinOf(range), NoMax)

(* refine_from_comparison *)
Refined(ranges, i, v, taken) ==
    LET l == ranges[i.args[1]]
        r == ranges[i.args[2]]
        on(k) == i.args[k] = v /\ (k = 2 => i.args[1] # v)
        isOrder == i.op \in {"clt", "clt_un"}
    IN  CASE isOrder /\ on(1) -> IF taken THEN Below(r) ELSE AtLeast(r)
          [] isOrder /\ on(2) -> IF taken THEN Above(l) ELSE AtMost(l)
          [] i.op = "ceq" /\ taken /\ on(1) -> r
          [] i.op = "ceq" /\ taken /\ on(2) -> l
          [] OTHER -> Top

(* refine_through_edge: by which arm every path from the branch comes.  The
   target of an arm counts as reached through it, even where the other arm
   leads there too. *)
RefinedThrough(f, ranges, behind, v, parent, child) ==
    LET t == Terminator(f, parent)
        Via(k) == child \in behind[t.targets[k]]
        definition == {i \in Instructions(f) : i.dest = t.args[1]}
    IN  IF t.op # "branch" \/ Via(1) = Via(2) \/ definition = {} THEN Top
        ELSE Refined(ranges, CHOOSE i \in definition : TRUE, v, Via(1))

(* Up the dominator tree of graph g, which `behind` stands for. *)
RangeAt(f, g, ranges, v, b) ==
    LET behind == Behind(g, 0)
        StrictDoms(c) == {a \in NodeIds(g) \ {c} : c \in behind[a]}
        Parents(c) == {a \in StrictDoms(c) : StrictDoms(c) \subseteq StrictDoms(a) \cup {a}}
        Climbed(x) ==
            IF Parents(x.current) = {} THEN x
            ELSE LET parent == CHOOSE a \in Parents(x.current) : TRUE
                 IN  [range |-> MeetRanges(x.range, RefinedThrough(f, ranges, behind, v,
                                                                   parent, x.current)),
                      current |-> parent]
        climb[k \in 0 .. f.count] ==
            IF k = 0 THEN [range |-> ranges[v], current |-> b] ELSE Climbed(climb[k - 1])
    IN  climb[f.count].range
=============================================================================
