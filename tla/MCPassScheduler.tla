--------------------------- MODULE MCPassScheduler ---------------------------
(***************************************************************************)
(* Instances of PassScheduler for TLC.                                     *)
(*                                                                         *)
(* Fault*: a pipeline with a global pass, a pass that repairs its own SSA, *)
(* reads its peers and scans fully, and passes that fail, panic or leave   *)
(* SSA their scope does not describe; short loops, verify_hard both ways,  *)
(* and the degenerate configurations (no iteration, no phase, a cycle).    *)
(*                                                                         *)
(* Fix*: passes of every scope that keep their contract, two of which undo  *)
(* each other's changes, with caps high enough for everything else to come  *)
(* to rest, and with the lowest ones.                                       *)
(***************************************************************************)
EXTENDS PassScheduler, TLC

CONSTANTS m1, m2, ext   \* two hosted methods and one without a body

mMethod == {m1, m2, ext}
mHosted == {m1, m2}
mUnreachable == {m2}


Decl(global, scope, repairs, readsPeer, fullScan, skips) ==
    [global |-> global, scope |-> scope, repairs |-> repairs,
     readsPeer |-> readsPeer, fullScan |-> fullScan, skips |-> skips]

FaultPass == {"dme", "unflatten", "inline", "dce"}
FaultMeta ==
    ("dme"       :> Decl(TRUE,  "CfgModifying", FALSE, FALSE, FALSE, {})) @@
    ("unflatten" :> Decl(FALSE, "CfgModifying", FALSE, FALSE, FALSE, {})) @@
    ("inline"    :> Decl(FALSE, "CfgModifying", TRUE,  TRUE,  TRUE, {m2})) @@
    ("dce"       :> Decl(FALSE, "InstructionsOnly", FALSE, FALSE, FALSE, {}))
FaultLayers == <<<<"dme", "unflatten">>, <<"inline">>>>
FaultNormalize == <<"dce">>

Cfg(iters, stable, phase, verify, acyclic) ==
    [maxIterations |-> iters, stableIterations |-> stable, maxPhase |-> phase,
     verifyHard |-> verify, acyclic |-> acyclic]

FaultConfigs == {Cfg(2, 1, 2, v, a) : v \in BOOLEAN, a \in {TRUE}}
   \cup {Cfg(1,1,1,TRUE,FALSE), Cfg(0,1,1,TRUE,TRUE), Cfg(2,2,0,TRUE,TRUE)}

FixPass == {"simplify", "licm", "gvn"}
FixMeta ==
    ("simplify" :> Decl(FALSE, "CfgModifying", FALSE, FALSE, FALSE, {})) @@
    ("licm"     :> Decl(FALSE, "InstructionsOnly", FALSE, TRUE, FALSE, {})) @@
    ("gvn"      :> Decl(FALSE, "UsesOnly", FALSE, FALSE, FALSE, {m2}))
FixLayers == <<<<"simplify">>, <<"licm">>>>
FixNormalize == <<"gvn">>
FixRivals == {<<"simplify", "gvn">>, <<"gvn", "simplify">>}
FixConfigs == {Cfg(6, s, 5, FALSE, TRUE) : s \in {1, 2}}
   \cup {Cfg(1, 1, n, FALSE, TRUE) : n \in {1, 5}}
=============================================================================
