----------------------------- MODULE SummarySolve -----------------------------
(***************************************************************************)
(* interproc/summary.rs: `solve` drives a transfer over the components,    *)
(* callees first, and iterates a recursive component until nothing changes *)
(* or the cap is reached.  A summary is a number of a finite chain, 0 for  *)
(* none.  A visit gets the whole store and may change any of it: facts may *)
(* go up from callees to a caller, or down, as the arguments' types do.    *)
(***************************************************************************)
EXTENDS StrongComponents

CONSTANTS
    Height,               \* the largest summary
    Analysis,             \* implementations of SummaryTransfer
    Transfer(_, _, _, _), \* visit: analysis, method, its callees, store -> store
    Calls                 \* pairs of an analysis and a max_iterations

Summary == 0..Height
Store == [Method -> Summary]

ASSUME HeightAssumption == Height \in Nat
ASSUME CallsAssumption == Calls \subseteq Analysis \X Nat
ASSUME TransferAssumption ==
    \A a \in Analysis, m \in Method, E \in SUBSET Method, f \in Store :
        Transfer(a, m, E, f) \in Store

VARIABLES
    analysis, maxIterations,    \* what solve is called with
    summary,    \* the SummaryStore
    comp,       \* the component being solved
    round,      \* its iteration
    pos,        \* the member to visit next
    changed,    \* a visit of this round reported a change
    capped      \* history: components left while still changing

callVars == <<analysis, maxIterations>>
solveVars == <<callVars, summary, comp, round, pos, changed, capped>>

SolveInit ==
    /\ \E call \in Calls : analysis = call[1] /\ maxIterations = call[2]
    /\ summary = [m \in Method |-> 0]
    /\ comp = 1 /\ round = 1 /\ pos = 1
    /\ changed = FALSE
    /\ capped = {}

IsRecursive(component) ==
    Len(component) > 1 \/ (component # <<>> /\ component[1] \in selfCalls)

Iterations == IF IsRecursive(sccs[comp]) THEN maxIterations ELSE 1

(* What a visit of method m makes of store f. *)
Result(m, f) == Transfer(analysis, m, edges[m], f)

Solving == comp <= Len(sccs)

VisitMember ==
    /\ Solving /\ round <= Iterations /\ pos <= Len(sccs[comp])
    /\ summary' = Result(sccs[comp][pos], summary)
    /\ changed' = (changed \/ summary' # summary)
    /\ pos' = pos + 1
    /\ UNCHANGED <<callVars, comp, round, capped>>

LeaveComponent(isCapped) ==
    /\ comp' = comp + 1 /\ round' = 1 /\ pos' = 1 /\ changed' = FALSE
    /\ capped' = IF isCapped THEN capped \cup {comp} ELSE capped

RoundOver == Solving /\ round <= Iterations /\ pos > Len(sccs[comp])

(* Mutant of NextRound: a component is iterated until nothing changes. *)
NextRoundUncapped ==
    /\ RoundOver /\ changed
    /\ pos' = 1 /\ changed' = FALSE
    /\ UNCHANGED <<callVars, summary, comp, round, capped>>

(* The round changed something, and another one is allowed. *)
NextRound ==
    /\ RoundOver /\ changed /\ round < Iterations
    /\ round' = round + 1 /\ pos' = 1 /\ changed' = FALSE
    /\ UNCHANGED <<callVars, summary, comp, capped>>

(* Mutant of Settle: a component is left after its first round. *)
SettleEarly ==
    /\ RoundOver
    /\ LeaveComponent(FALSE)
    /\ UNCHANGED <<callVars, summary>>

(* Nothing changed, or the one visit of a component that is not recursive. *)
Settle ==
    /\ RoundOver
    /\ ~changed \/ ~IsRecursive(sccs[comp])
    /\ LeaveComponent(FALSE)
    /\ UNCHANGED <<callVars, summary>>

(* Mutant of GiveUp: the members of the component get the largest summary. *)
GiveUpTop ==
    /\ Solving /\ IsRecursive(sccs[comp])
    /\ \/ RoundOver /\ changed /\ round >= Iterations
       \/ round > Iterations
    /\ LeaveComponent(TRUE)
    /\ summary' = [m \in Method |-> IF m \in Members(comp) THEN Height ELSE summary[m]]
    /\ UNCHANGED callVars

(* The cap is reached while the summaries still change; with a cap of zero the
   component is not visited at all. *)
GiveUp ==
    /\ Solving /\ IsRecursive(sccs[comp])
    /\ \/ RoundOver /\ changed /\ round >= Iterations
       \/ round > Iterations
    /\ LeaveComponent(TRUE)
    /\ UNCHANGED <<callVars, summary>>

SolveStep == VisitMember \/ NextRound \/ Settle \/ GiveUp

-----------------------------------------------------------------------------
(* Properties. *)

SolveTypeOK ==
    /\ analysis \in Analysis /\ maxIterations \in Nat
    /\ summary \in Store
    /\ comp \in Nat \ {0} /\ round \in Nat \ {0} /\ pos \in Nat \ {0}
    /\ changed \in BOOLEAN /\ capped \subseteq Nat

(* Analyses that carry facts up only: a visit rewrites the method's own summary,
   and makes it from nothing but the callees'. *)
Upward == {a \in Analysis :
    \A m \in Method, E \in SUBSET Method, f \in Store :
        LET below == [w \in Method |-> IF w \in E THEN f[w] ELSE 0]
        IN  Transfer(a, m, E, f) = [f EXCEPT ![m] = Transfer(a, m, E, below)[m]]}

(* "Their callees are already final, so a second visit could not change
   anything."  When solve goes on because a round changed nothing, no visit of
   the component would change anything in the store, whatever the analysis.  That
   the component stays so, and that one round is enough where there is no
   recursion, is true of an analysis that carries facts up: the components
   visited later are not below it. *)
SolvedStaysSolved ==
    /\ RoundOver /\ ~changed =>
          \A m \in Members(comp) : Result(m, summary) = summary
    /\ analysis \in Upward =>
          \A k \in 1..(comp - 1) :
              k \notin capped => \A m \in Members(k) : Result(m, summary) = summary

Leq(f, g) == \A m \in Method : f[m] <= g[m]

(* "Monotonicity is the caller's obligation." *)
Monotone == {a \in Analysis :
    \A f, g \in Store : Leq(f, g) =>
        \A m \in Method, E \in SUBSET Method :
            Leq(Transfer(a, m, E, f), Transfer(a, m, E, g))}

Satisfied(f) == \A m \in Method : Leq(Result(m, f), f)

(* No summary ever claims more than the equations justify, whichever way a
   monotone analysis carries its facts: the store stays below every solution,
   also with the partial summaries of a component that was given up. *)
NeverAboveASolution ==
    analysis \in Monotone =>
        \A f \in Store : ~ Leq(summary, f) => ~ Satisfied(f)
=============================================================================
