---------------------------- MODULE WholeProgram ----------------------------
(***************************************************************************)
(* The whole-program part of one batch, in the order run_layer_passes_once *)
(* runs it: the call graph is built and its components ordered for the     *)
(* method lists, the global pass DeadMethodEliminationPass marks dead      *)
(* methods, and a global analysis drives interproc::solve.                 *)
(***************************************************************************)
EXTENDS DeadMethods, SummarySolve

vars == <<graphVars, phase, tarjanVars, markVars, solveVars>>

Init == GraphInit /\ TarjanInit /\ MarkInit /\ SolveInit

Build ==
    /\ phase = "build" /\ phase' = "components"
    /\ FromEdges
    /\ UNCHANGED <<tarjanVars, markVars, solveVars>>

Components ==
    /\ phase = "components"
    /\ TarjanStep
    /\ UNCHANGED <<graphVars, phase, markVars, solveVars>>

StartMarking ==
    /\ phase = "components" /\ TarjanDone /\ phase' = "mark"
    /\ StartWalk
    /\ UNCHANGED <<graphVars, tarjanVars, solveVars>>

Marking ==
    /\ phase = "mark"
    /\ \/ Walk /\ UNCHANGED phase
       \/ MarkDead /\ phase' = "solve"
    /\ UNCHANGED <<graphVars, tarjanVars, solveVars>>

Solve ==
    /\ phase = "solve"
    /\ SolveStep
    /\ UNCHANGED <<graphVars, phase, tarjanVars, markVars>>

Return ==
    /\ phase = "solve" /\ ~Solving /\ phase' = "done"
    /\ UNCHANGED <<graphVars, tarjanVars, markVars, solveVars>>

Finished == phase = "done" /\ UNCHANGED vars

Step == Build \/ Components \/ StartMarking \/ Marking \/ Solve \/ Return

Next == Step \/ Finished

Spec == Init /\ [][Next]_vars

(* The batch is sequential code. *)
FairSpec == Spec /\ WF_vars(Step)

TypeOK == GraphTypeOK /\ TarjanTypeOK /\ MarkTypeOK /\ SolveTypeOK

(* All three loops end: the walk marks a method live once, a frame looks at
   each successor once, and a component whose analysis comes to no rest is given
   up: "a transfer that reports change on every call will run to the iteration
   cap" (interproc/summary.rs). *)
Terminates == <>(phase = "done")
=============================================================================
