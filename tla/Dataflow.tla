------------------------------- MODULE Dataflow -------------------------------
(***************************************************************************)
(* The data-flow analyses of a function.  Every one of them begins with    *)
(* the exception-aware graph of module ExceptionFlow.                      *)
(*                                                                         *)
(*   "liveness", "reaching"   analysis/dataflow/liveness.rs and            *)
(*          reaching.rs: a problem for the worklist solver;                *)
(*   "constants", "ranges"    sccp.rs, and passes/ranges.rs with its       *)
(*          rewriting: a sparse propagation.  When it has ended, the       *)
(*          function itself runs, a block a step: what the analysis says   *)
(*          is compared with what happens.                                 *)
(***************************************************************************)
EXTENDS ExceptionFlow, RangePass, DataflowSolver

CONSTANTS Inquiries     \* pairs of an analysis and a function

VARIABLES
    analysis,
    step,       \* the call that is running
    rewritten,  \* the function as the range pass leaves it
    run         \* the running function: the block it enters, from where,
                \* and the values of its variables

machineVars == <<rewritten, run>>
vars == <<ehVars, solverVars, sparse, analysis, step, machineVars>>

IsSparse == analysis \in {"constants", "ranges"}

-----------------------------------------------------------------------------
(* The place of a block in a traversal; one it does not visit comes last. *)
PositionIn(order, b) ==
    IF b \in ToSet(order) THEN CHOOSE k \in DOMAIN order : order[k] = b ELSE Len(order) + 1

(* LiveVariables::new: what a block reads before it defines it, and the
   operands of the phis after it, which are read on the edge. *)

PhiOut(f) ==
    [b \in NodeIds(f) |->
        {o.value : o \in UNION {OperandsFrom(phi, b) : phi \in Phis(f)}}]

Reads(f, b) ==
    UNION {ToSet(f.body[b][k].args)
               \ (PhiResults(f, b) \cup {f.body[b][j].dest : j \in 1 .. k - 1}) :
           k \in DOMAIN f.body[b]}

(* SsaCfg::exits, which EhCfg does not override: a terminator leads nowhere. *)
LivenessProblem(f, g) ==
    [blocks |-> NodeIds(f), facts |-> Variables(f),
     inflow |-> [b \in NodeIds(f) |-> SuccessorSet(g, b)],
     fixed |-> Exits(SsaCfg(f)), boundary |-> {},
     gen |-> [b \in NodeIds(f) |-> Reads(f, b) \cup (PhiOut(f)[b] \ DefinedIn(f, b))],
     kill |-> [b \in NodeIds(f) |-> DefinedIn(f, b)],
     start |-> ReachableFrom(g, 0),
     priority |-> [b \in NodeIds(f) |-> PositionIn(Postorder(g, 0), b)]]

(* ReachingDefinitions.  Its boundary takes every version 0 of an argument or a
   local for a definition at the entry, the ones the body defines included, and
   no live-in.  (A row of the variable table that nothing defines any more is no
   variable of the model.) *)
InitialDefinitions(f) == (f.initial.arguments \cup f.initial.locals) \cap Variables(f)

ReachingProblem(f, g) ==
    [blocks |-> NodeIds(f), facts |-> Variables(f),
     inflow |-> [b \in NodeIds(f) |-> PredecessorSet(g, b)],
     fixed |-> {0}, boundary |-> InitialDefinitions(f),
     gen |-> [b \in NodeIds(f) |-> DefinedIn(f, b)],
     kill |-> [b \in NodeIds(f) |-> {}],
     start |-> ReachableFrom(g, 0),
     priority |-> [b \in NodeIds(f) |-> PositionIn(Reverse(Postorder(g, 0)), b)]]

(* What the analyses take a function in SSA form to be: it has an entry, and
   reads no variable that nothing defines. *)
IsSsaFunction(f) ==
    /\ IsFunction(f)
    /\ \A b \in NodeIds(f) : Reads(f, b) \cup PhiOut(f)[b] \subseteq Variables(f)

ASSUME InquiriesAssumption ==
    \A q \in Inquiries :
        /\ q[1] \in {"liveness", "reaching", "constants", "ranges"}
        /\ IsSsaFunction(q[2])
        /\ q[1] \in {"constants", "ranges"} =>
              IsExecutable(q[2]) /\ IsSingleAssignment(q[2]) /\ IsStrict(q[2])

NoProblem ==
    [blocks |-> {}, facts |-> {}, inflow |-> <<>>, fixed |-> {}, boundary |-> {},
     gen |-> <<>>, kill |-> <<>>, start |-> {}, priority |-> <<>>]

(* LiveVariables::live_out *)
LiveOut(b) == before[b] \cup PhiOut(function)[b]

-----------------------------------------------------------------------------
(* The function, running: the entry's variables have any values, and nothing
   throws.  A phi takes the operand of the edge control came by, all phis of a
   block at once. *)

ArgumentValues(f, values) == [f.initial.supplied -> values]

EnterBlock(f, r) ==
    LET Operand(v) ==
            CHOOSE o \in OperandsFrom(CHOOSE phi \in ToSet(f.phis[r.at]) : phi.result = v, r.from) :
                TRUE
    IN  [v \in PhiResults(f, r.at) \cup DOMAIN r.env |->
            IF v \in PhiResults(f, r.at) THEN r.env[Operand(v).value] ELSE r.env[v]]

Execute(i, env) ==
    LET Arg(k) == IF k \in DOMAIN i.args THEN env[i.args[k]] ELSE 0
    IN  IF ~(ToSet(i.args) \subseteq DOMAIN env) THEN {}
        ELSE IF i.dest = Nil THEN {env}
        ELSE {[v \in DOMAIN env \cup {i.dest} |-> IF v = i.dest THEN x ELSE env[v]] :
                 x \in Computed(i.op, i.value, Arg(1), Arg(2))}

Target(t, env) ==
    CASE t.op = "jump" -> t.targets[1]
      [] t.op = "branch" -> IF env[t.args[1]] # 0 THEN t.targets[1] ELSE t.targets[2]
      [] t.op = "switch" -> SwitchTarget(t.targets, env[t.args[1]])
      [] OTHER -> Nil

(* What may happen in the block r enters; nothing, where a phi has no operand
   for the edge, or it or an instruction reads what was never computed. *)
Outcomes(f, r) ==
    LET CanEnter ==
            \A phi \in ToSet(f.phis[r.at]) :
                /\ OperandsFrom(phi, r.from) # {}
                /\ \A o \in OperandsFrom(phi, r.from) : o.value \in DOMAIN r.env
        After(envs, i) == UNION {Execute(i, env) : env \in envs}
        done == FoldLeft(After, {EnterBlock(f, r)}, f.body[r.at])
    IN  IF CanEnter
        THEN {[at |-> Target(Terminator(f, r.at), env), from |-> r.at, env |-> env] : env \in done}
        ELSE {}

NotRunning == [at |-> Nil, from |-> Nil, env |-> <<>>]

-----------------------------------------------------------------------------
Init ==
    /\ \E q \in Inquiries : analysis = q[1] /\ function = q[2]
    /\ eh = NewEh(function)
    /\ step = "attach"
    /\ problem = NoProblem /\ before = <<>> /\ after = <<>> /\ pending = {}
    /\ sparse = [done |-> FALSE]
    /\ rewritten = function
    /\ run = NotRunning

AttachRoots ==
    /\ step = "attach" /\ AttachNext
    /\ UNCHANGED <<solverVars, sparse, analysis, step, machineVars>>

BeginSolving ==
    /\ step = "attach" /\ Attached /\ ~IsSparse
    /\ StartSolver(IF analysis = "liveness" THEN LivenessProblem(function, EhCfg)
                   ELSE ReachingProblem(function, EhCfg))
    /\ step' = "solve"
    /\ UNCHANGED <<ehVars, sparse, analysis, machineVars>>

Solve ==
    /\ step = "solve" /\ SolverNext
    /\ UNCHANGED <<ehVars, sparse, analysis, step, machineVars>>

BeginPropagating ==
    /\ step = "attach" /\ Attached /\ IsSparse
    /\ sparse' = NewSparse(analysis, function, EhCfg)
    /\ step' = "propagate"
    /\ UNCHANGED <<ehVars, solverVars, analysis, machineVars>>

Propagate ==
    /\ step = "propagate" /\ SparseNext(function, EhCfg)
    /\ UNCHANGED <<ehVars, solverVars, analysis, step, machineVars>>

(* An analysis that did not converge proves nothing, and rewrites nothing. *)
Proved == sparse.done /\ IsConverged

Rewrite ==
    /\ step = "propagate" /\ sparse.done
    /\ rewritten' = IF analysis = "ranges" /\ Proved THEN Simplified(function, sparse.facts)
                    ELSE function
    /\ step' = "ready"
    /\ UNCHANGED <<ehVars, solverVars, sparse, analysis, run>>

Start ==
    /\ step = "ready"
    /\ \E env \in ArgumentValues(function, Opaque) : run' = [at |-> 0, from |-> Nil, env |-> env]
    /\ step' = "run"
    /\ UNCHANGED <<ehVars, solverVars, sparse, analysis, rewritten>>

RunBlock ==
    /\ step = "run" /\ run.at # Nil
    /\ \E o \in Outcomes(function, run) : run' = o
    /\ UNCHANGED <<ehVars, solverVars, sparse, analysis, step, rewritten>>

Next ==
    \/ AttachRoots \/ BeginSolving \/ Solve
    \/ BeginPropagating \/ Propagate \/ Rewrite \/ Start \/ RunBlock

Spec == Init /\ [][Next]_vars

-----------------------------------------------------------------------------
(* What the solver's analyses mean.  A variable is live after a block when a
   path from its end comes to a read of it with no definition of it on the way;
   before a block, when the block reads it first or does not define it and it
   is live after.  Control leaves a function at an exit block, whatever the
   exception table says of it. *)
Leaving(f, g) ==
    [g EXCEPT !.succ = [b \in NodeIds(f) |-> IF b \in Exits(SsaCfg(f)) THEN <<>> ELSE @[b]]]

Defining(f, v) == {b \in NodeIds(f) : v \in DefinedIn(f, b)}

IsLiveAfter(f, g, v, b) ==
    LET Edge(c) == v \in PhiOut(f)[c]
        through == ReachableAvoiding(Leaving(f, g), SuccessorSet(Leaving(f, g), b), Defining(f, v))
        stops == ReachableAvoiding(Leaving(f, g), SuccessorSet(Leaving(f, g), b), {})
                     \cap Defining(f, v)
        ends == {c \in stops : PredecessorSet(Leaving(f, g), c) \cap (through \cup {b}) # {}}
    IN  \/ Edge(b)
        \/ \E c \in through : v \in Reads(f, c) \/ Edge(c)
        \/ \E c \in ends : v \in Reads(f, c)

IsLiveBefore(f, g, v, b) ==
    v \in Reads(f, b) \/ (v \notin DefinedIn(f, b) /\ IsLiveAfter(f, g, v, b))

(* A variable reaches a block when a path leads there from the block that
   defines it, or, an initial definition, from the entry. *)
HasReached(f, g, v, b) ==
    \/ \E d \in Defining(f, v) \cap ReachableFrom(g, 0) :
          \E c \in SuccessorSet(g, d) : b \in ReachableFrom(g, c)
    \/ v \in InitialDefinitions(f)

(* The worklist has the right answer when it is empty: live_out and the state
   at the top of a block are exactly the live variables, a reaching state
   exactly the definitions with a path to the block.  (An entry that is also
   returned to gets the boundary state and nothing else.) *)
ResultsAreExact ==
    step = "solve" /\ IsSolved =>
        \A b \in ReachableFrom(EhCfg, 0) : \A v \in Variables(function) :
            IF analysis = "liveness"
            THEN /\ v \in LiveOut(b) <=> IsLiveAfter(function, EhCfg, v, b)
                 /\ v \in after[b] <=> IsLiveBefore(function, EhCfg, v, b)
            ELSE PredecessorSet(EhCfg, 0) = {} =>
                     (v \in before[b] <=> HasReached(function, EhCfg, v, b))

-----------------------------------------------------------------------------
(* While a function runs, and does not throw, no block runs and no variable has a value the
   analysis ruled out. *)
ConstantsHold ==
    /\ run.at # Nil => run.at \in sparse.blocks
    /\ \A v \in DOMAIN run.env : AllowsConstant(sparse.facts[v], run.env[v])

RangesHold == \A v \in DOMAIN run.env : AllowsRange(sparse.facts[v], run.env[v])

(* What range_at says of a block about to be entered, where no arm of a branch
   leads to a block control also comes to otherwise, the entry included. *)
GuardedRangesHold ==
    run.at # Nil => \A v \in DOMAIN run.env :
        AllowsRange(RangeAt(function, EhCfg, sparse.facts, v, run.at), run.env[v])

ArmsAreUnshared(f) ==
    \A b \in NodeIds(f) :
        Terminator(f, b).op = "branch" =>
            \A c \in ToSet(f.targets[b]) : c # 0 /\ PredecessorSet(SsaCfg(f), c) = {b}

(* Where the ranges can be trusted: no comparison is unsigned, no branch but
   the entry's was left with a condition nothing is known of, and a fact revised
   so often that it may have been widened still contains what its definition
   evaluates to. *)
BranchesAreKnown ==
    \A b \in sparse.blocks \ {0} :
        Terminator(function, b).op = "branch" =>
            sparse.facts[Terminator(function, b).args[1]] # Top
WideningCovers ==
    LET Includes(range, new) == JoinRanges(range, new) = range
    IN  \A b \in sparse.blocks :
            /\ \A phi \in ToSet(function.phis[b]) :
                  sparse.revisions[phi.result] = WidenAfter
                      => Includes(sparse.facts[phi.result], EvaluatePhi(sparse, phi, b))
            /\ \A i \in ToSet(function.body[b]) :
                  i.dest # Nil /\ sparse.revisions[i.dest] = WidenAfter
                      => Includes(sparse.facts[i.dest], Evaluate(sparse, i))
Signed(f) == \A i \in Instructions(f) : i.op # "clt_un"

(* Where the constants can be: sccp.rs starts an argument as unknown, and leaves
   a live-in or an initialized local, which no instruction defines either, where
   it starts what it has not evaluated yet. *)
OnlyArguments(f) == f.initial.supplied \subseteq f.initial.arguments

FactsHold ==
    step = "run" /\ Proved =>
        /\ analysis = "constants" /\ OnlyArguments(function) => ConstantsHold
        /\ analysis = "ranges" /\ BranchesAreKnown /\ WideningCovers =>
              /\ RangesHold
              /\ ArmsAreUnshared(function) /\ Signed(function) => GuardedRangesHold

(* The rewriting changes nothing that happens: whatever state the function is
   in, the rewritten one goes on to the same block with the same values of the
   variables it still has. *)
RewriteKeepsBehavior ==
    step = "run" /\ run.at # Nil /\ analysis = "ranges"
        /\ BranchesAreKnown /\ WideningCovers /\ Signed(function) =>
        LET Seen(o) == [o EXCEPT !.env = Restrict(@, DOMAIN @ \cap Variables(rewritten))]
        IN  {Seen(o) : o \in Outcomes(rewritten, run)} = {Seen(o) : o \in Outcomes(function, run)}

(* What the documentation of RangeAnalysis::propagate promises of every
   function, "its conclusions are only sound at the fixpoint": there they are. *)
FixpointIsSound == step = "run" /\ analysis = "ranges" /\ Proved => RangesHold
=============================================================================
