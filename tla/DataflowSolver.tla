---------------------------- MODULE DataflowSolver ----------------------------
(***************************************************************************)
(* analysis/dataflow/solver.rs: the worklist solver.  Both directions are  *)
(* one machine here.  A problem says, in the direction of the analysis,    *)
(* from which blocks facts flow into a block; `before` is the state a      *)
(* block's transfer function is given and `after` the one it returns, so   *)
(* a forward analysis has its in_states in `before` and a backward one its *)
(* out_states.  The lattice is a powerset under union and a transfer       *)
(* function a gen and a kill set, as in both analyses that use the solver. *)
(* One step processes the block with the least traversal priority.         *)
(***************************************************************************)
EXTENDS Integers

VARIABLES
    problem,
    before, after,
    pending         \* worklist and in_worklist

solverVars == <<problem, before, after, pending>>

(* The priorities only decide which pending block is next. *)
IsProblem(p) ==
    /\ p.inflow \in [p.blocks -> SUBSET p.blocks]
    /\ p.fixed \subseteq p.blocks           \* the entry, or the exit blocks
    /\ p.boundary \subseteq p.facts         \* what holds there
    /\ p.gen \in [p.blocks -> SUBSET p.facts]
    /\ p.kill \in [p.blocks -> SUBSET p.facts]
    /\ p.start \subseteq p.blocks           \* those the traversal visits

Base(p, b) == IF b \in p.fixed THEN p.boundary ELSE {}

(* initialize *)
StartSolver(p) ==
    /\ problem' = p
    /\ before' = [b \in p.blocks |-> Base(p, b)]
    /\ after' = [b \in p.blocks |-> {}]
    /\ pending' = p.start

Input(b) ==
    IF b \in problem.fixed \/ problem.inflow[b] = {} THEN before[b]
    ELSE UNION {after[c] : c \in problem.inflow[b]}

Transfer(b, input) == problem.gen[b] \cup (input \ problem.kill[b])

(* Mutant of Affected: against the direction of the analysis. *)
AffectedBackwards(b) == problem.inflow[b]

Affected(b) == {c \in problem.blocks : b \in problem.inflow[c]}

IsNext(b) ==
    \A c \in pending : \/ problem.priority[b] < problem.priority[c]
                       \/ problem.priority[b] = problem.priority[c] /\ b <= c

(* process_forward and process_backward, and add_affected_to_worklist *)
Process(b) ==
    /\ b \in pending /\ IsNext(b)
    /\ before' = [before EXCEPT ![b] = Input(b)]
    /\ after' = [after EXCEPT ![b] = Transfer(b, Input(b))]
    /\ pending' = (pending \ {b}) \cup (IF after'[b] # after[b] THEN Affected(b) ELSE {})
    /\ UNCHANGED problem

SolverNext == \E b \in pending : Process(b)

IsSolved == pending = {}

SolverSpec(problems) ==
    /\ problem \in problems
    /\ before = [b \in problem.blocks |-> Base(problem, b)]
    /\ after = [b \in problem.blocks |-> {}]
    /\ pending = problem.start
    /\ [][SolverNext]_solverVars

-----------------------------------------------------------------------------
(* What the solver promises when its worklist is empty: at every block it was
   to visit, the state before is what flows in, and the state after what the
   transfer function makes of it. *)
Balanced(b) == before[b] = Input(b) /\ after[b] = Transfer(b, before[b])
SolvedIsBalanced == IsSolved => \A b \in problem.start : Balanced(b)

(* S assigns every block a state that satisfies the inequations of problem p;
   no state the solver ever holds exceeds such an assignment. *)
IsSolution(p, S) ==
    \A b \in p.blocks :
        LET input == IF b \in p.fixed \/ p.inflow[b] = {} THEN Base(p, b)
                     ELSE UNION {S[c] : c \in p.inflow[b]}
        IN  p.gen[b] \cup (input \ p.kill[b]) \subseteq S[b]

IsBelow(S) == \A b \in problem.blocks : after[b] \subseteq S[b]
=============================================================================
