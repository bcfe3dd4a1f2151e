-------------------------- MODULE MCPassTransaction --------------------------
(***************************************************************************)
(* Instances of PassTransaction for TLC.  The passes stand for the ways    *)
(* src/passes opens sessions and reports on them:                          *)
(*   checked   verifies and restores (licm, copying, predicates)           *)
(*   plain     neither, and reports a failure (algebraic, strength, ...)   *)
(*   silent    neither, and may report nothing (deadcode, loopcanon, the   *)
(*             coalescing of blockmerge)                                   *)
(***************************************************************************)
EXTENDS PassTransaction

mPass == {"plain", "checked", "silent"}
mOrder == <<"silent", "plain", "checked">>
mProfile ==
    [checked |-> [rollback |-> "OnFailure", verify |-> TRUE,  honest |-> TRUE],
     plain   |-> [rollback |-> "Never",     verify |-> FALSE, honest |-> TRUE],
     silent  |-> [rollback |-> "Never",     verify |-> FALSE, honest |-> FALSE]]
=============================================================================
