------------------------ MODULE PassSchedulerProofs -------------------------
(***************************************************************************)
(* Proofs about PassScheduler, for every set of methods and passes, every  *)
(* assignment of layers, every configuration and every number of surprises.*)
(***************************************************************************)
EXTENDS PassScheduler, TLAPS

InBatch == pc \in {"open", "global", "dispatch", "run"}

(* The layer whose passes a batch runs, or a later round will run, exists. *)
LayerInRange ==
    InBatch /\ loop.ctx \in {"layer", "between"} => loop.layer <= Len(Layers)

(* While workers run, there is a per-method pass they run. *)
PassInHand == pc = "run" => todo # <<>> /\ IsLocal(Current)

TInv == TypeOK /\ LayerInRange /\ PassInHand

LEMMA FormsAreBodies == Fresh \in Body /\ NoBody \in Body /\ IdleJob \in Job
  BY DEF Fresh, NoBody, Body, Form, IdleJob, Job, Stage, Outcome

(* repair_ssa and rebuild_ssa return bodies. *)
LEMMA RepairReturnsBody ==
  ASSUME NEW b \in Body
  PROVE  Repaired(b) \in Body /\ Rebuilt(b) \in Body
  BY DEF Repaired, Rebuilt, Body, Form

LEMMA DamageIsForm ==
  ASSUME NEW p \in Pass
  PROVE  Damage(p) \in {"ssa", "insts", "cfg"}
  BY MetaAssumption DEF Damage, PassMeta, ScopeKind

LEMMA EditedIsBody ==
  ASSUME NEW b \in Body, NEW f \in Form
  PROVE  Edited(b, f) \in Body
  BY DEF Edited, Body

LEMMA BatchIsSeq ==
  ASSUME TypeOK, LayerInRange, InBatch
  PROVE  Batch \in Seq(Pass)
  BY LayersAssumption DEF TypeOK, LayerInRange, Batch, Loop, Context

LEMMA InitTInv == Init => TInv
<1> SUFFICES ASSUME Init PROVE TInv
  OBVIOUS
<1>1. config \in Config /\ store \in [Method -> Body] /\ job \in [Method -> Job]
  BY FormsAreBodies, ConfigAssumption DEF Init
<1>2. loop \in Loop /\ LayerInRange
  BY DEF Init, Loop, Context, LayerInRange, InBatch
<1>3. orders \in [all: SUBSET Method, dirty: SUBSET Method] /\ todo \in Seq(Pass)
  BY DEF Init
<1>4. work \subseteq Pass \X Method /\ surprises \in Nat /\ pc \in PC
  <2>1. Pass \X Hosted \subseteq Pass \X Method
    BY HostAssumption
  <2> QED
    BY <2>1 DEF Init, PC
<1> QED
  BY <1>1, <1>2, <1>3, <1>4 DEF Init, TInv, TypeOK, PassInHand

(* The loops' bookkeeping keeps loop well typed and its layer in range. *)
LEMMA LeaveLayerStep ==
  ASSUME TInv, NEW c \in BOOLEAN, LeaveLayer(c)
  PROVE  pc' \in PC /\ loop' \in Loop /\ LayerInRange'
<1>1. loop \in Loop /\ pc' = "layer"
  BY DEF TInv, TypeOK, LeaveLayer
<1>2. loop.layer + 1 \in Nat \ {0} /\ "layer" \in Context
  BY <1>1 DEF Loop, Context
<1>3. (loop.iterChanged \/ c) \in BOOLEAN
  OBVIOUS
<1>4. loop' \in Loop
  BY <1>1, <1>2, <1>3 DEF LeaveLayer, Loop
<1> QED
  BY <1>1, <1>4 DEF PC, LayerInRange, InBatch

LEMMA NormalizeAtStep ==
  ASSUME TInv, NEW c \in {"between", "tail", "first"}, NormalizeAt(c),
         c = "between" => loop.layer <= Len(Layers)
  PROVE  pc' \in PC /\ loop' \in Loop /\ LayerInRange'
  BY DEF TInv, TypeOK, LayerInRange, InBatch, NormalizeAt, Loop, Context, PC

LEMMA NextRoundStep ==
  ASSUME TInv, NextRound, loop.layer <= Len(Layers)
  PROVE  pc' \in PC /\ loop' \in Loop /\ LayerInRange'
<1>1. CASE loop.round < config.maxPhase
  <2>1. loop \in Loop /\ pc' = "open"
    BY <1>1 DEF TInv, TypeOK, NextRound
  <2>2. loop.round + 1 \in Nat /\ "layer" \in Context
    BY <2>1 DEF Loop, Context
  <2>3. loop' \in Loop /\ loop'.layer = loop.layer
    BY <1>1, <2>1, <2>2 DEF NextRound, Loop
  <2> QED
    BY <2>1, <2>3 DEF PC, LayerInRange, InBatch
<1>2. CASE ~(loop.round < config.maxPhase)
  BY <1>2, LeaveLayerStep DEF NextRound
<1> QED
  BY <1>1, <1>2

(* A worker's record stays well typed. *)
LEMMA JobDone ==
  ASSUME job \in [Method -> Job], NEW m \in Method
  PROVE  [job EXCEPT ![m] = IdleJob] \in [Method -> Job]
  BY FormsAreBodies

LEMMA JobTaken ==
  ASSUME job \in [Method -> Job], NEW m \in Method, NEW b \in Body
  PROVE  [job EXCEPT ![m].at = "taken", ![m].body = b, ![m].before = b] \in [Method -> Job]
  BY DEF Job, Stage

LEMMA JobRan ==
  ASSUME job \in [Method -> Job], NEW m \in Method, NEW b \in Body, NEW o \in Outcome
  PROVE  [job EXCEPT ![m].at = "ran", ![m].body = b, ![m].outcome = o] \in [Method -> Job]
  BY DEF Job, Stage

LEMMA BoundaryIsBody ==
  ASSUME TInv, NEW m \in Method
  PROVE  Boundary(m) \in Body /\ job[m].body \in Body /\ job[m].before \in Body
<1>1. job[m].body \in Body /\ job[m].before \in Body
  BY DEF TInv, TypeOK, Job
<1> QED
  BY <1>1, RepairReturnsBody DEF Boundary

(* Only pc and loop matter to LayerInRange. *)
LEMMA LayerFrame ==
  ASSUME LayerInRange, UNCHANGED loop, InBatch' => InBatch
  PROVE  LayerInRange'
  BY DEF LayerInRange

(* Only Dispatch starts workers. *)
LEMMA ControlPassInHand == Control => PassInHand'
<1> SUFFICES ASSUME Control PROVE PassInHand'
  OBVIOUS
<1>1. CASE Dispatch
  BY <1>1 DEF Dispatch, batchVars, PassInHand, Current
<1>2. CASE Start \/ Open \/ RunGlobals \/ PassOver \/ Join \/ HookFails \/ IterationBoundary
  BY <1>2 DEF Start, Open, RunGlobals, PassOver, Join, HookFails, IterationBoundary, PassInHand
<1>3. CASE EnterLayer \/ AfterLayers
  BY <1>3 DEF EnterLayer, AfterLayers, LeaveLayer, NormalizeAt, PassInHand
<1>4. CASE Close
  BY <1>4 DEF Close, AfterLayerBatch, AfterNormalizeBatch, NextRound, LeaveLayer,
     NormalizeAt, PassInHand
<1> QED
  BY <1>1, <1>2, <1>3, <1>4 DEF Control

LEMMA ControlTInv == TInv /\ Control => TInv'
<1> SUFFICES ASSUME TInv, Control PROVE TypeOK' /\ LayerInRange'
  BY ControlPassInHand DEF TInv
<1> USE DEF TInv
<1>1. CASE Start
  BY <1>1, LayerFrame DEF Start, TypeOK, PC, Terminal, Present, InBatch,
     hostVars, envVars, batchVars, jobVars
<1>2. CASE EnterLayer
  <2>1. loop' \in Loop /\ pc' \in PC /\ LayerInRange'
    <3>1. CASE config.maxPhase = 0 \/ Layers[loop.layer] = <<>>
      BY <1>2, <3>1, LeaveLayerStep DEF EnterLayer
    <3>2. CASE ~(config.maxPhase = 0 \/ Layers[loop.layer] = <<>>)
      BY <1>2, <3>2 DEF EnterLayer, TypeOK, PC, LayerInRange
    <3> QED
      BY <3>1, <3>2
  <2> QED
    BY <1>2, <2>1 DEF EnterLayer, TypeOK, hostVars, envVars, batchVars, jobVars
<1>3. CASE AfterLayers
  <2>1. loop' \in Loop /\ pc' \in PC /\ LayerInRange'
    BY <1>3, NormalizeAtStep DEF AfterLayers, TypeOK, PC, LayerInRange, InBatch
  <2> QED
    BY <1>3, <2>1 DEF AfterLayers, TypeOK, hostVars, envVars, batchVars, jobVars
<1>4. CASE Open
  <2>1. Batch \in Seq(Pass)
    BY <1>4, BatchIsSeq DEF Open, InBatch
  <2>2. Present \subseteq Method
    BY DEF Present
  <2> QED
    BY <1>4, <2>1, <2>2, HostAssumption, LayerFrame
    DEF Open, TypeOK, PC, InBatch, hostVars, envVars, jobVars
<1>5. CASE RunGlobals
  BY <1>5, HostAssumption, LayerFrame DEF RunGlobals, TypeOK, PC, InBatch, envVars, jobVars
<1>6. CASE PassOver
  BY <1>6, LayerFrame DEF PassOver, TypeOK, InBatch, hostVars, envVars, jobVars
<1>7. CASE Dispatch
  <2>1. [IdleJob EXCEPT !.at = "ready"] \in Job
    BY FormsAreBodies DEF Job, Stage
  <2>2. job' \in [Method -> Job]
    BY <1>7, <2>1, FormsAreBodies DEF Dispatch
  <2> QED
    BY <1>7, <2>2, LayerFrame
    DEF Dispatch, TypeOK, PC, InBatch, hostVars, envVars, batchVars
<1>8. CASE Join
  <2>1. todo' \in Seq(Pass) /\ pc' \in PC
    <3>1. todo # <<>> /\ todo \in Seq(Pass)
      BY <1>8 DEF Join, TypeOK, PassInHand
    <3>2. Tail(todo) \in Seq(Pass)
      BY <3>1
    <3> QED
      BY <1>8, <3>1, <3>2 DEF Join, PC, Terminal
  <2> QED
    BY <1>8, <2>1, LayerFrame DEF Join, TypeOK, InBatch, hostVars, envVars, jobVars
<1>9. CASE Close
  <2>1. loop.ctx = "layer" => loop.layer <= Len(Layers)
    BY <1>9 DEF Close, LayerInRange, InBatch
  <2>2. loop.ctx = "between" => loop.layer <= Len(Layers)
    BY <1>9 DEF Close, LayerInRange, InBatch
  <2>3. loop.phaseChanged \in BOOLEAN /\ loop.ctx \in Context
    BY DEF TypeOK, Loop
  <2>4. loop' \in Loop /\ pc' \in PC /\ LayerInRange'
    <3>1. CASE loop.ctx = "layer"
      <4>1. AfterLayerBatch
        BY <1>9, <3>1 DEF Close
      <4> QED
        BY <2>1, <2>3, <3>1, <4>1, NextRoundStep, NormalizeAtStep, LeaveLayerStep
        DEF AfterLayerBatch
    <3>2. CASE loop.ctx # "layer" /\ anyChanged /\ loop.nround < config.maxPhase
      <4>1. pc' = "open" /\ loop' = [loop EXCEPT !.nround = @ + 1, !.normChanged = TRUE]
        BY <1>9, <3>2 DEF Close, AfterNormalizeBatch
      <4>2. loop.nround + 1 \in Nat /\ loop \in Loop
        BY DEF TypeOK, Loop
      <4>3. loop' \in Loop /\ loop'.ctx = loop.ctx /\ loop'.layer = loop.layer
        BY <4>1, <4>2 DEF Loop
      <4> QED
        BY <2>2, <3>2, <4>1, <4>3 DEF PC, LayerInRange
    <3>3. CASE loop.ctx # "layer" /\ ~(anyChanged /\ loop.nround < config.maxPhase)
      <4>1. CASE loop.ctx = "first"
        <5>1. /\ pc' = "boundary"
              /\ loop' = [loop EXCEPT !.iterChanged = loop.normChanged \/ anyChanged]
          BY <1>9, <3>3, <4>1 DEF Close, AfterNormalizeBatch
        <5>2. loop.normChanged \/ anyChanged \in BOOLEAN
          BY DEF TypeOK, Loop
        <5>3. loop' \in Loop
          BY <5>1, <5>2 DEF TypeOK, Loop
        <5> QED
          BY <5>1, <5>3 DEF PC, LayerInRange, InBatch
      <4>2. CASE loop.ctx = "between"
        <5>1. NextRound
          BY <1>9, <3>3, <4>2 DEF Close, AfterNormalizeBatch
        <5> QED
          BY <2>2, <4>2, <5>1, NextRoundStep
      <4>3. CASE loop.ctx = "tail"
        <5>1. LeaveLayer(loop.phaseChanged)
          BY <1>9, <3>3, <4>3 DEF Close, AfterNormalizeBatch
        <5> QED
          BY <2>3, <5>1, LeaveLayerStep
      <4> QED
        BY <2>3, <3>3, <4>1, <4>2, <4>3 DEF Context
    <3> QED
      BY <3>1, <3>2, <3>3
  <2> QED
    BY <1>9, <2>4 DEF Close, TypeOK, hostVars, envVars, batchVars, jobVars
<1>10. CASE HookFails
  BY <1>10, LayerFrame
  DEF HookFails, TypeOK, PC, Terminal, InBatch, hostVars, envVars, batchVars, jobVars
<1>11. CASE IterationBoundary
  <2>1. loop' \in Loop /\ modified' \subseteq Method
    <3>1. CASE UNCHANGED <<loop, modified>>
      BY <3>1 DEF TypeOK
    <3>2. CASE \E s \in Nat : NextIteration(s)
      <4>1. PICK s \in Nat : NextIteration(s)
        BY <3>2
      <4>2. loop.iteration + 1 \in Nat /\ "layer" \in Context /\ 1 \in Nat \ {0}
        BY DEF TypeOK, Loop, Context
      <4> QED
        BY <4>1, <4>2 DEF NextIteration, TypeOK, Loop
    <3>3. loop.stable + 1 \in Nat
      BY DEF TypeOK, Loop
    <3> QED
      BY <1>11, <3>1, <3>2, <3>3 DEF IterationBoundary
  <2>2. pc' \in PC /\ pc' \in {"stable", "exhausted", "layer"}
    BY <1>11 DEF IterationBoundary, PC, Terminal
  <2>3. dirty' \subseteq Method
    BY <1>11 DEF IterationBoundary, NextDirty, TypeOK
  <2> QED
    BY <1>11, <2>1, <2>2, <2>3
    DEF IterationBoundary, TypeOK, LayerInRange, InBatch, envVars, batchVars, jobVars
<1> QED
  BY <1>1, <1>2, <1>3, <1>4, <1>5, <1>6, <1>7, <1>8, <1>9, <1>10, <1>11 DEF Control

(* A worker's step leaves the sequential part alone. *)
LEMMA WorkFrame ==
  ASSUME NEW m \in Method, Work(m)
  PROVE  UNCHANGED seqVars /\ pc = "run"
  BY DEF Work, Skip, Take, RunUnchanged, RunChanged, RunFaulty, FinishFailed,
     FinishRejected, FinishKept, PutBack, Insert, Ran

LEMMA WorkTInv == ASSUME TInv, NEW m \in Method, Work(m) PROVE TInv'
<1> USE DEF TInv
<1>1. LayerInRange' /\ PassInHand'
  BY WorkFrame, LayerFrame DEF seqVars, PassInHand, InBatch, Current
<1>2. /\ config' \in Config /\ dead' \subseteq Method /\ pc' \in PC /\ loop' \in Loop
      /\ todo' \in Seq(Pass) /\ orders' \in [all: SUBSET Method, dirty: SUBSET Method]
  BY WorkFrame DEF seqVars, TypeOK
<1>3. todo # <<>> /\ Current \in Pass
  BY WorkFrame DEF PassInHand, TypeOK, Current
<1>4. job[m].body \in Body /\ job[m].before \in Body /\ Boundary(m) \in Body
      /\ store[m] \in Body /\ job \in [Method -> Job]
  BY BoundaryIsBody DEF TypeOK
<1>5. CASE Skip(m)
  BY <1>1, <1>2, <1>4, <1>5, JobDone DEF Skip, TypeOK, envVars
<1>6. CASE Take(m)
  <2>1. job' \in [Method -> Job]
    BY <1>4, <1>6, JobTaken DEF Take
  <2>2. store' \in [Method -> Body]
    BY <1>6, FormsAreBodies DEF Take, TypeOK
  <2> QED
    BY <1>1, <1>2, <1>6, <2>1, <2>2 DEF Take, TypeOK, envVars
<1>7. CASE RunUnchanged(m)
  <2>1. job' \in [Method -> Job]
    BY <1>4, <1>7, JobRan DEF RunUnchanged, Ran, Outcome
  <2> QED
    BY <1>1, <1>2, <1>7, <2>1 DEF RunUnchanged, Ran, TypeOK, envVars
<1>8. CASE RunChanged(m)
  <2>1. Edited(job[m].body, Damage(Current)) \in Body
    BY <1>3, <1>4, DamageIsForm, EditedIsBody DEF Form
  <2>2. job' \in [Method -> Job]
    BY <1>4, <1>8, <2>1, JobRan DEF RunChanged, Ran, Outcome
  <2>3. /\ work' \subseteq Pass \X Method
        /\ surprises' \in Nat /\ dirty' \subseteq Method
    <3>1. \A q \in Pass : (work \ {<<Current, m>>}) \cup {<<q, m>>} \subseteq Pass \X Method
      BY DEF TypeOK
    <3>2. \/ work' \subseteq work /\ UNCHANGED <<surprises, dirty>>
          \/ \E q \in Pass : /\ work' = (work \ {<<Current, m>>}) \cup {<<q, m>>}
                             /\ UNCHANGED <<surprises, dirty>>
          \/ \E q \in Pass, n \in IF Current \in Discovers THEN orders.all ELSE {m} :
                /\ work' = (work \ {<<Current, m>>}) \cup {<<q, n>>}
                /\ surprises' = surprises + 1
                /\ dirty' = IF n = m THEN dirty ELSE dirty \cup {n}
      BY <1>8 DEF RunChanged
    <3>3. orders.all \subseteq Method
      BY DEF TypeOK
    <3> QED
      BY <3>1, <3>2, <3>3 DEF TypeOK
  <2> QED
    BY <1>1, <1>2, <1>8, <2>2, <2>3 DEF RunChanged, Ran, TypeOK
<1>9. CASE RunFaulty(m)
  <2>1. PICK body \in {job[m].body} \cup {Edited(job[m].body, f) : f \in Damaged},
             outcome \in {"unchanged", "changed", "failed"} : Ran(m, body, outcome)
    BY <1>9 DEF RunFaulty
  <2>2. body \in Body
    BY <1>4, EditedIsBody DEF Damaged, Form
  <2>3. job' \in [Method -> Job]
    BY <1>4, <2>1, <2>2, JobRan DEF Ran, Outcome
  <2> QED
    BY <1>1, <1>2, <1>9, <2>1, <2>3 DEF RunFaulty, Ran, TypeOK
<1>10. CASE FinishFailed(m) \/ FinishRejected(m)
  <2>1. PICK b \in Body : PutBack(m, b)
    BY <1>4, <1>10 DEF FinishFailed, FinishRejected
  <2>2. job' \in [Method -> Job] /\ store' \in [Method -> Body]
    BY <1>4, <2>1, JobDone DEF PutBack, Insert, TypeOK
  <2> QED
    BY <1>1, <1>2, <2>1, <2>2 DEF PutBack, Insert, TypeOK, envVars
<1>11. CASE FinishKept(m)
  <2>1. job' \in [Method -> Job] /\ store' \in [Method -> Body]
    BY <1>4, <1>11, JobDone DEF FinishKept, Insert, TypeOK
  <2>2. anyChanged' \in BOOLEAN /\ processed' \subseteq Method /\ modified' \subseteq Method
    BY <1>11 DEF FinishKept, TypeOK
  <2> QED
    BY <1>1, <1>2, <1>11, <2>1, <2>2 DEF FinishKept, Insert, TypeOK, envVars
<1> QED
  BY <1>5, <1>6, <1>7, <1>8, <1>9, <1>10, <1>11 DEF Work

LEMMA StutterTInv == TInv /\ UNCHANGED vars => TInv'
  BY DEF TInv, TypeOK, LayerInRange, InBatch, PassInHand, Current, vars, hostVars, envVars,
     batchVars, jobVars

LEMMA NextTInv == TInv /\ [Next]_vars => TInv'
  BY ControlTInv, WorkTInv, StutterTInv DEF Next, Step, Returned

LEMMA TInvInvariant == Spec => []TInv
  BY InitTInv, NextTInv, PTL DEF Spec

(* Every reachable state of the pipeline is well typed. *)
THEOREM TypeCorrect == Spec => []TypeOK
  BY TInvInvariant, PTL DEF TInv

-----------------------------------------------------------------------------
(* Custody of the bodies. *)

SlotsOK ==
    \A m \in Method :
        /\ store[m].form = "absent" <=> store[m] = NoBody
        /\ m \notin Hosted => store[m] = NoBody

WorkersOK ==
    /\ pc # "run" => AllIdle
    /\ \A m \in Method : InHand(m) =>
           /\ m \in Hosted
           /\ job[m].before.form # "absent" /\ job[m].body.form # "absent"

CInv == TInv /\ SlotsOK /\ WorkersOK /\ BodiesKept

LEMMA InitCInv == Init => SlotsOK /\ WorkersOK /\ BodiesKept
  BY HostAssumption DEF Init, SlotsOK, WorkersOK, BodiesKept, AllIdle, InHand, IdleJob, NoBody, Fresh

(* A step of the sequential part happens with every worker idle, and ends with
   no body in a worker's hands. *)
LEMMA ControlNoneInHand ==
  ASSUME TInv, WorkersOK, Control
  PROVE  /\ UNCHANGED <<config, store, work, surprises, processed>>
         /\ AllIdle
         /\ \A m \in Method : ~InHand(m) /\ ~InHand(m)'
         /\ pc' # "run" => AllIdle'
<1>1. UNCHANGED <<config, store, work, surprises, processed>>
  BY DEF Control, Start, EnterLayer, AfterLayers, Open, RunGlobals, PassOver, Dispatch, Join,
     Close, HookFails, IterationBoundary, hostVars, envVars
<1>2. AllIdle
  BY DEF Control, Start, EnterLayer, AfterLayers, Open, RunGlobals, PassOver, Dispatch, Join,
     Close, HookFails, IterationBoundary, WorkersOK
<1>3. CASE Dispatch
  BY <1>1, <1>2, <1>3 DEF Dispatch, IdleJob, InHand, AllIdle
<1>4. CASE ~Dispatch
  <2>1. UNCHANGED job
    BY <1>4 DEF Control, Start, EnterLayer, AfterLayers, Open, RunGlobals, PassOver, Join,
       Close, HookFails, IterationBoundary, jobVars
  <2> QED
    BY <1>1, <1>2, <2>1 DEF InHand, AllIdle
<1> QED
  BY <1>3, <1>4

LEMMA ControlCInv ==
  ASSUME CInv, Control
  PROVE  SlotsOK' /\ WorkersOK' /\ BodiesKept'
<1>1. /\ UNCHANGED store
      /\ \A m \in Method : ~InHand(m) /\ ~InHand(m)'
      /\ pc' # "run" => AllIdle'
  BY ControlNoneInHand DEF CInv
<1> QED
  BY <1>1, HostAssumption DEF CInv, SlotsOK, WorkersOK, BodiesKept

(* What a worker inserts is a body. *)
LEMMA BoundaryPresent ==
  ASSUME NEW m \in Method, job[m].body.form # "absent"
  PROVE  Boundary(m).form # "absent"
  BY DEF Boundary, Rebuilt, Repaired

(* The two ways a worker's step touches the store: it takes or clones a body,
   or it inserts one; the others leave the store alone. *)
LEMMA WorkCInv ==
  ASSUME CInv, NEW m \in Method, Work(m)
  PROVE  SlotsOK' /\ WorkersOK' /\ BodiesKept'
<1>1. /\ pc = "run" /\ UNCHANGED <<pc, todo>>
      /\ store \in [Method -> Body] /\ job \in [Method -> Job]
  BY WorkFrame DEF seqVars, CInv, TInv, TypeOK
<1>2. ASSUME \A n \in Method \ {m} : store'[n] = store[n] /\ job'[n] = job[n],
             store'[m].form = "absent" <=> store'[m] = NoBody,
             m \notin Hosted => store'[m] = NoBody,
             InHand(m)' => /\ m \in Hosted
                           /\ job'[m].before.form # "absent"
                           /\ job'[m].body.form # "absent",
             m \in Hosted => (store'[m] = NoBody <=> InHand(m)' /\ ~Meta[Current].readsPeer)
      PROVE  SlotsOK' /\ WorkersOK' /\ BodiesKept'
  <2>1. \A n \in Method \ {m} : InHand(n)' <=> InHand(n)
    BY <1>2 DEF InHand
  <2>2. SlotsOK'
    BY <1>2 DEF CInv, SlotsOK
  <2>3. WorkersOK'
    BY <1>1, <1>2, <2>1 DEF CInv, WorkersOK
  <2>4. BodiesKept'
    BY <1>1, <1>2, <2>1, HostAssumption DEF CInv, BodiesKept, Current
  <2> QED
    BY <2>2, <2>3, <2>4
<1>3. CASE Skip(m)
  BY <1>1, <1>2, <1>3 DEF Skip, IdleJob, InHand, CInv, SlotsOK, BodiesKept
<1>4. CASE Take(m)
  BY <1>1, <1>2, <1>4, ZenonT(40) DEF Take, InHand, CInv, SlotsOK, BodiesKept, Job, NoBody
<1>5. ASSUME NEW b \in Body, NEW o \in Outcome, Ran(m, b, o), b.form # "absent",
             job[m].at = "taken"
      PROVE  SlotsOK' /\ WorkersOK' /\ BodiesKept'
  BY <1>1, <1>2, <1>5, ZenonT(40) DEF Ran, InHand, CInv, SlotsOK, WorkersOK, BodiesKept, Job
<1>6. InHand(m) => job[m].body \in Body /\ job[m].body.form # "absent"
  BY <1>1 DEF CInv, WorkersOK, Job
<1>7. CASE RunUnchanged(m)
  BY <1>5, <1>6, <1>7 DEF RunUnchanged, InHand, Outcome
<1>8. CASE RunChanged(m)
  <2>1. Damage(Current) \in {"ssa", "insts", "cfg"}
    BY <1>1, DamageIsForm DEF CInv, TInv, TypeOK, PassInHand, Current
  <2>2. Edited(job[m].body, Damage(Current)) \in Body
    BY <1>6, <1>8, <2>1, EditedIsBody DEF RunChanged, InHand, Form
  <2> QED
    BY <1>5, <1>8, <2>1, <2>2 DEF RunChanged, Edited, Outcome
<1>9. CASE RunFaulty(m)
  <2>1. PICK body \in {job[m].body} \cup {Edited(job[m].body, f) : f \in Damaged},
             outcome \in {"unchanged", "changed", "failed"} : Ran(m, body, outcome)
    BY <1>9 DEF RunFaulty
  <2>2. job[m].at = "taken"
    BY <1>9 DEF RunFaulty
  <2>3. job[m].body \in Body /\ job[m].body.form # "absent"
    BY <1>6, <2>2 DEF InHand
  <2>4. body \in Body /\ body.form # "absent"
    <3>1. \A f \in Damaged : /\ Edited(job[m].body, f) \in Body
                             /\ Edited(job[m].body, f).form # "absent"
      BY <2>3, EditedIsBody DEF Damaged, Form, Edited
    <3> QED
      BY <2>1, <2>3, <3>1
  <2> QED
    BY <1>5, <2>1, <2>2, <2>4 DEF Outcome
<1>10. ASSUME NEW b \in Body, Insert(m, b), b.form # "absent", InHand(m)
       PROVE  SlotsOK' /\ WorkersOK' /\ BodiesKept'
  <2>1. store' = [store EXCEPT ![m] = b] /\ job' = [job EXCEPT ![m] = IdleJob]
    BY <1>10 DEF Insert
  <2>2. m \in Hosted /\ ~InHand(m)' /\ store'[m] # NoBody
    BY <1>1, <1>10, <2>1 DEF CInv, WorkersOK, InHand, IdleJob, NoBody
  <2> QED
    BY <1>1, <1>2, <1>10, <2>1, <2>2
<1>11. InHand(m) =>
         /\ job[m].before \in Body /\ job[m].before.form # "absent"
         /\ Boundary(m) \in Body /\ Boundary(m).form # "absent"
  BY BoundaryIsBody, BoundaryPresent DEF CInv, WorkersOK
<1>12. CASE FinishFailed(m) \/ FinishRejected(m)
  BY <1>6, <1>10, <1>11, <1>12 DEF FinishFailed, FinishRejected, PutBack, InHand
<1>13. CASE FinishKept(m)
  BY <1>10, <1>11, <1>13 DEF FinishKept, InHand
<1> QED
  BY <1>3, <1>4, <1>7, <1>8, <1>9, <1>12, <1>13 DEF Work

LEMMA NextCInv == CInv /\ [Next]_vars => CInv'
<1>1. CInv /\ UNCHANGED vars => SlotsOK' /\ WorkersOK' /\ BodiesKept'
  BY DEF CInv, SlotsOK, WorkersOK, BodiesKept, AllIdle, InHand, Current, vars, hostVars,
     batchVars, jobVars
<1> QED
  BY <1>1, NextTInv, ControlCInv, WorkCInv DEF CInv, Next, Step, Returned

LEMMA CInvInvariant == Spec => []CInv
  BY InitTInv, InitCInv, NextCInv, PTL DEF Spec, CInv

(* For any number of methods, passes, faults and threads, no method loses its
   body, and a pass that reads its peers finds every one of them. *)
THEOREM NoBodyLost == Spec => []BodiesKept
  BY CInvInvariant, PTL DEF CInv

-----------------------------------------------------------------------------
(* What is stored under verify_hard, and what is stored if passes keep their
   contract. *)

(* The body a worker falls back to is verified, too. *)
VInv ==
    config.verifyHard =>
        \A m \in Method :
            /\ store[m] # NoBody => VerifierAccepts(store[m])
            /\ InHand(m) => VerifierAccepts(job[m].before)

(* Without faulty passes, what a worker holds is valid SSA until a pass reports
   a change, and then only as damaged as the pass's declaration says. *)
SInv ==
    Faulty = {} =>
        \A m \in Method :
            /\ store[m] # NoBody => VerifierAccepts(store[m])
            /\ InHand(m) => VerifierAccepts(job[m].before)
            /\ job[m].at = "taken" => VerifierAccepts(job[m].body)
            /\ job[m].at = "ran" =>
                  \/ job[m].outcome = "unchanged" /\ VerifierAccepts(job[m].body)
                  \/ job[m].outcome = "changed" /\ job[m].body.form = Damage(Current)

LEMMA InitVSInv == Init => VInv /\ SInv
  BY HostAssumption DEF Init, VInv, SInv, VerifierAccepts, InHand, IdleJob, NoBody, Fresh

LEMMA ControlVSInv ==
  ASSUME CInv, VInv, SInv, Control
  PROVE  VInv' /\ SInv'
  BY ControlNoneInHand DEF CInv, VInv, SInv, InHand

LEMMA WorkVInv ==
  ASSUME CInv, VInv, NEW m \in Method, Work(m)
  PROVE  VInv'
<1>1. /\ pc = "run" /\ UNCHANGED config
      /\ store \in [Method -> Body] /\ job \in [Method -> Job]
  BY WorkFrame DEF seqVars, CInv, TInv, TypeOK
<1>2. CASE Skip(m)
  BY <1>1, <1>2 DEF Skip, VInv, InHand, IdleJob
<1>3. CASE Take(m)
  BY <1>1, <1>3 DEF Take, VInv, InHand, Job
<1>4. CASE \E b, o : job[m].at = "taken" /\ Ran(m, b, o)
  BY <1>1, <1>4 DEF Ran, VInv, InHand, Job
<1>5. CASE RunUnchanged(m) \/ RunChanged(m) \/ RunFaulty(m)
  BY <1>4, <1>5 DEF RunUnchanged, RunChanged, RunFaulty
<1>6. CASE FinishFailed(m) \/ FinishRejected(m)
  BY <1>1, <1>6 DEF FinishFailed, FinishRejected, PutBack, Insert, VInv, InHand, IdleJob
<1>7. CASE FinishKept(m)
  BY <1>1, <1>7 DEF FinishKept, Rejected, Insert, VInv, InHand, IdleJob
<1> QED
  BY <1>2, <1>3, <1>5, <1>6, <1>7 DEF Work

(* The repair chosen from the declared scope undoes the declared damage. *)
LEMMA ScopedRepair ==
  ASSUME NEW m \in Method, Current \in Pass,
         job[m].outcome = "changed", job[m].body \in Body,
         job[m].body.form = Damage(Current)
  PROVE  ~Failed(m) /\ VerifierAccepts(Boundary(m))
<1>1. Meta[Current] \in PassMeta
  BY MetaAssumption
<1>2. CASE Meta[Current].repairs
  BY <1>2 DEF Damage, Failed, NeedsRebuild, NeedsRepair, VerifierAccepts, Boundary
<1>3. CASE ~Meta[Current].repairs /\ Meta[Current].scope = "UsesOnly"
  BY <1>3 DEF Damage, Failed, NeedsRebuild, NeedsRepair, VerifierAccepts, Boundary, Repaired
<1>4. CASE ~Meta[Current].repairs /\ Meta[Current].scope = "InstructionsOnly"
  <2>1. job[m].body.form = "insts"
    BY <1>4 DEF Damage
  <2> QED
    BY <1>4, <2>1
    DEF Failed, NeedsRebuild, NeedsRepair, VerifierAccepts, Boundary, Repaired, Body
<1>5. CASE ~Meta[Current].repairs /\ Meta[Current].scope = "CfgModifying"
  <2>1. job[m].body.form = "cfg"
    BY <1>5 DEF Damage
  <2> QED
    BY <1>5, <2>1
    DEF Failed, NeedsRebuild, NeedsRepair, VerifierAccepts, Boundary, Rebuilt, RebuildFails, Body
<1> QED
  BY <1>1, <1>2, <1>3, <1>4, <1>5 DEF PassMeta, ScopeKind

LEMMA WorkSInv ==
  ASSUME CInv, SInv, NEW m \in Method, Work(m)
  PROVE  SInv'
<1> SUFFICES ASSUME Faulty = {} PROVE SInv'
  BY DEF SInv
<1>1. /\ pc = "run" /\ Current \in Pass /\ Current' = Current
      /\ store \in [Method -> Body] /\ job \in [Method -> Job]
  BY WorkFrame DEF seqVars, CInv, TInv, TypeOK, PassInHand, Current
<1>2. CASE Skip(m)
  BY <1>1, <1>2 DEF Skip, SInv, InHand, IdleJob
<1>3. CASE Take(m)
  BY <1>1, <1>3 DEF Take, SInv, InHand, Job
<1>4. CASE RunUnchanged(m)
  BY <1>1, <1>4 DEF RunUnchanged, Ran, SInv, InHand, Job
<1>5. CASE RunChanged(m)
  <2>1. Edited(job[m].body, Damage(Current)).form = Damage(Current)
    BY DEF Edited
  <2>2. Ran(m, Edited(job[m].body, Damage(Current)), "changed") /\ job[m].at = "taken"
    BY <1>5 DEF RunChanged
  <2> HIDE <1>5
  <2> QED
    BY <1>1, <2>1, <2>2 DEF Ran, SInv, InHand, Job
<1>6. CASE RunFaulty(m)
  BY <1>6 DEF RunFaulty
<1>7. job[m].at = "ran" => ~Failed(m) /\ VerifierAccepts(Boundary(m))
  <2>1. job[m].body \in Body
    BY <1>1 DEF Job
  <2>2. CASE job[m].outcome = "unchanged" /\ VerifierAccepts(job[m].body)
    BY <2>2 DEF Failed, NeedsRebuild, NeedsRepair, Boundary
  <2>3. CASE job[m].outcome = "changed" /\ job[m].body.form = Damage(Current)
    BY <1>1, <2>1, <2>3, ScopedRepair
  <2> QED
    BY <2>2, <2>3 DEF SInv
<1>8. CASE FinishFailed(m) \/ FinishRejected(m)
  BY <1>7, <1>8 DEF FinishFailed, FinishRejected, Rejected
<1>9. CASE FinishKept(m)
  BY <1>1, <1>7, <1>9 DEF FinishKept, Insert, SInv, InHand, IdleJob
<1> QED
  BY <1>2, <1>3, <1>4, <1>5, <1>6, <1>8, <1>9 DEF Work

LEMMA NextVSInv == CInv /\ VInv /\ SInv /\ [Next]_vars => VInv' /\ SInv'
<1>1. VInv /\ SInv /\ UNCHANGED vars => VInv' /\ SInv'
  BY DEF VInv, SInv, InHand, Current, vars, hostVars, batchVars, jobVars
<1> QED
  BY <1>1, ControlVSInv, WorkVInv, WorkSInv DEF Next, Step, Returned

LEMMA VSInvInvariant == Spec => [](VInv /\ SInv)
  BY InitVSInv, NextVSInv, CInvInvariant, PTL DEF Spec

(* With verify_hard, only valid SSA is ever visible in the store. *)
THEOREM VerifyHardHolds == Spec => []OnlyVerifiedVisible
<1>1. VInv => OnlyVerifiedVisible
  BY HostAssumption DEF VInv, OnlyVerifiedVisible
<1> QED
  BY <1>1, VSInvInvariant, PTL

(* Without faulty passes the same holds in every configuration. *)
THEOREM RepairSuffices == Spec => []ScopedRepairSuffices
<1>1. SInv => ScopedRepairSuffices
  BY HostAssumption DEF SInv, ScopedRepairSuffices
<1> QED
  BY <1>1, VSInvInvariant, PTL

-----------------------------------------------------------------------------
(* No change is lost on its way to run_pipeline's iteration_changed: wherever
   the loops are, a modified method is known to one of their flags. *)

Known ==
    \/ loop.iterChanged
    \/ InBatch /\ loop.phaseChanged
    \/ pc \in {"dispatch", "run"} /\ anyChanged
    \/ InBatch /\ loop.ctx = "first" /\ loop.normChanged

(* Normalization inside a layer only runs after a change in it; normalization
   on its own only runs if no layer changed anything. *)
FlagsOK ==
    /\ pc \in {"start", "layer", "boundary"} => ~loop.phaseChanged
    /\ pc \in {"start", "layer"} => loop.ctx = "layer"
    /\ InBatch /\ loop.ctx \in {"between", "tail"} => loop.phaseChanged
    /\ InBatch /\ loop.ctx = "first" => ~loop.iterChanged /\ ~loop.phaseChanged

KInv == FlagsOK /\ (pc # "failed" /\ modified # {} => Known)

LEMMA InitKInv == Init => KInv
  BY DEF Init, KInv, FlagsOK, InBatch

LEMMA WorkKInv == ASSUME KInv, TInv, NEW m \in Method, Work(m) PROVE KInv'
<1>1. pc = "run" /\ UNCHANGED <<pc, loop>>
  BY WorkFrame DEF seqVars
<1>2. \/ UNCHANGED <<modified, anyChanged>>
      \/ anyChanged' = TRUE
  BY DEF Work, Skip, Take, RunUnchanged, RunChanged, RunFaulty, FinishFailed,
     FinishRejected, FinishKept, PutBack, Insert, Ran
<1> QED
  BY <1>1, <1>2 DEF KInv, FlagsOK, Known, InBatch

LEMMA ControlKInv == ASSUME KInv, TInv, Control PROVE KInv'
<1>0. loop \in Loop
  BY DEF TInv, TypeOK
<1>1. CASE Start \/ Open \/ RunGlobals \/ PassOver \/ Dispatch \/ Join \/ HookFails
  BY <1>1 DEF Start, Open, RunGlobals, PassOver, Dispatch, Join, HookFails, KInv, FlagsOK,
     Known, InBatch, batchVars, Terminal
<1>2. CASE EnterLayer
  <2>1. /\ pc = "layer" /\ UNCHANGED modified
        /\ \/ pc' = "open" /\ UNCHANGED loop
           \/ /\ pc' = "layer"
              /\ loop'.iterChanged = loop.iterChanged
              /\ loop'.phaseChanged = FALSE /\ loop'.ctx = "layer"
    BY <1>0, <1>2 DEF EnterLayer, LeaveLayer, Loop
  <2>2. modified # {} => loop.iterChanged
    BY <2>1 DEF KInv, Known, InBatch
  <2> QED
    BY <2>1, <2>2 DEF KInv, FlagsOK, Known, InBatch
<1>3. CASE AfterLayers
  BY <1>0, <1>3 DEF AfterLayers, NormalizeAt, KInv, FlagsOK, Known, InBatch, Loop
<1>4. CASE Close
  <2>1. pc = "dispatch" /\ InBatch /\ UNCHANGED modified
    BY <1>4 DEF Close, InBatch
  <2>2. CASE loop.ctx = "layer"
    BY <1>0, <1>4, <2>1, <2>2, ZenonT(40) DEF Close, AfterLayerBatch, NextRound, NormalizeAt, LeaveLayer,
       KInv, FlagsOK, Known, InBatch, Loop
  <2>3. CASE loop.ctx # "layer"
    BY <1>0, <1>4, <2>1, <2>3 DEF Close, AfterNormalizeBatch, NextRound, LeaveLayer, KInv,
       FlagsOK, Known, InBatch, Loop, Context
  <2> QED
    BY <2>2, <2>3
<1>5. CASE IterationBoundary
  BY <1>0, <1>5 DEF IterationBoundary, NextIteration, KInv, FlagsOK, Known, InBatch, Loop
<1> QED
  BY <1>1, <1>2, <1>3, <1>4, <1>5 DEF Control

LEMMA NextKInv == TInv /\ KInv /\ [Next]_vars => KInv'
<1>1. KInv /\ UNCHANGED vars => KInv'
  BY DEF KInv, FlagsOK, Known, InBatch, vars, batchVars
<1> QED
  BY <1>1, ControlKInv, WorkKInv DEF Next, Step, Returned

(* Whatever the caps, the layers and the passes, run_pipeline never clears the
   dirty marks of an iteration that changed a method. *)
THEOREM NoChangeLost == Spec => []ChangeReachesBoundary
<1>1. KInv => ChangeReachesBoundary
  BY DEF KInv, Known, InBatch, ChangeReachesBoundary
<1> QED
  BY <1>1, InitKInv, NextKInv, TInvInvariant, PTL DEF Spec

-----------------------------------------------------------------------------
(***************************************************************************)
(* PassScheduler implements AtomicPasses: the batches, the worker threads  *)
(* and the bodies taken out of the store are not visible to the host.      *)
(***************************************************************************)

AbsBodies == [m \in Hosted |-> IF InHand(m) THEN job[m].before ELSE store[m]]
AbsOutcome == CASE pc \in {"stable", "exhausted"} -> "ok"
                [] pc = "failed" -> "error"
                [] OTHER -> "running"

(* A worker's error is still to be looked at, and that worker is done. *)
ErrorsOK ==
    /\ errors # {} => pc \in {"run", "failed"}
    /\ \A m \in errors : job[m].at = "idle"

(* What a worker holds is what it was given, or one edit away from it, and a
   pass that keeps its contract reports which. *)
EditsOK ==
    \A m \in Method :
        /\ job[m].at = "taken" => job[m].body = job[m].before
        /\ job[m].at = "ran" =>
              \/ job[m].body = job[m].before
              \/ job[m].body.rev = job[m].before.rev + 1
        /\ job[m].at = "ran" /\ Faulty = {} =>
              \/ job[m].outcome = "unchanged" /\ job[m].body = job[m].before
              \/ job[m].outcome = "changed" /\ job[m].body.rev = job[m].before.rev + 1

RInv == CInv /\ VInv /\ ErrorsOK /\ EditsOK

LEMMA InitRInv == Init => ErrorsOK /\ EditsOK
  BY DEF Init, ErrorsOK, EditsOK, IdleJob

LEMMA ControlRInv ==
  ASSUME RInv, Control
  PROVE  ErrorsOK' /\ EditsOK'
<1>1. pc # "failed"
  BY DEF Control, Start, EnterLayer, AfterLayers, Open, RunGlobals, PassOver, Dispatch, Join,
     Close, HookFails, IterationBoundary
<1>2. CASE Dispatch
  BY <1>2 DEF Dispatch, ErrorsOK, EditsOK, IdleJob
<1>3. CASE Join
  BY <1>3 DEF Join, RInv, ErrorsOK, EditsOK, jobVars
<1>4. CASE Control /\ ~Dispatch /\ ~Join
  <2>1. pc # "run" /\ UNCHANGED <<job, errors>>
    BY <1>4 DEF Control, Start, EnterLayer, AfterLayers, Open, RunGlobals, PassOver, Close,
       HookFails, IterationBoundary, jobVars
  <2> QED
    BY <1>1, <2>1 DEF RInv, ErrorsOK, EditsOK
<1> QED
  BY <1>2, <1>3, <1>4

LEMMA WorkRInv ==
  ASSUME RInv, NEW m \in Method, Work(m)
  PROVE  ErrorsOK' /\ EditsOK'
<1>1. /\ pc = "run" /\ UNCHANGED pc
      /\ store \in [Method -> Body] /\ job \in [Method -> Job] /\ errors \subseteq Method
  BY WorkFrame DEF seqVars, RInv, CInv, TInv, TypeOK
<1>2. CASE Skip(m)
  BY <1>1, <1>2 DEF Skip, RInv, ErrorsOK, EditsOK, IdleJob
<1>3. CASE Take(m)
  BY <1>1, <1>3 DEF Take, RInv, ErrorsOK, EditsOK, Job
<1>4. CASE RunUnchanged(m)
  BY <1>1, <1>4 DEF RunUnchanged, Ran, RInv, ErrorsOK, EditsOK, Job
<1>5. ASSUME NEW b, NEW o, job[m].at = "taken", Ran(m, b, o),
             b = job[m].body \/ b.rev = job[m].body.rev + 1,
             Faulty = {} => o = "changed" /\ b.rev = job[m].body.rev + 1
      PROVE  ErrorsOK' /\ EditsOK'
  BY <1>1, <1>5 DEF Ran, RInv, ErrorsOK, EditsOK, Job
<1>6. CASE RunChanged(m)
  <2>1. job[m].at = "taken" /\ Ran(m, Edited(job[m].body, Damage(Current)), "changed")
    BY <1>6 DEF RunChanged
  <2>2. Edited(job[m].body, Damage(Current)).rev = job[m].body.rev + 1
    BY DEF Edited
  <2> QED
    BY <1>5, <2>1, <2>2
<1>7. CASE RunFaulty(m)
  <2>1. PICK body \in {job[m].body} \cup {Edited(job[m].body, f) : f \in Damaged},
             outcome \in {"unchanged", "changed", "failed"} : Ran(m, body, outcome)
    BY <1>7 DEF RunFaulty
  <2>2. job[m].at = "taken" /\ Faulty # {}
    BY <1>7 DEF RunFaulty
  <2>3. body = job[m].body \/ body.rev = job[m].body.rev + 1
    BY <2>1 DEF Edited
  <2> QED
    BY <1>5, <2>1, <2>2, <2>3
<1>8. CASE FinishFailed(m) \/ FinishRejected(m)
  BY <1>1, <1>8
  DEF FinishFailed, FinishRejected, PutBack, Insert, RInv, ErrorsOK, EditsOK, IdleJob
<1>9. CASE FinishKept(m)
  BY <1>1, <1>9 DEF FinishKept, Insert, RInv, ErrorsOK, EditsOK, IdleJob
<1> QED
  BY <1>2, <1>3, <1>4, <1>6, <1>7, <1>8, <1>9 DEF Work

LEMMA NextRInv == RInv /\ CInv' /\ VInv' /\ [Next]_vars => RInv'
<1>1. RInv /\ UNCHANGED vars => ErrorsOK' /\ EditsOK'
  BY DEF RInv, ErrorsOK, EditsOK, vars, jobVars
<1> QED
  BY <1>1, ControlRInv, WorkRInv DEF RInv, Next, Step, Returned

LEMMA RInvInvariant == Spec => []RInv
<1>1. Init /\ CInv /\ VInv => RInv
  BY InitRInv DEF RInv
<1> QED
  BY <1>1, NextRInv, CInvInvariant, VSInvInvariant, PTL DEF Spec

-----------------------------------------------------------------------------
LEMMA InitRefines == Init => Atomic!AInit
<1> SUFFICES ASSUME Init PROVE Atomic!AInit
  OBVIOUS
<1>1. AbsBodies = [m \in Hosted |-> Fresh]
  BY HostAssumption DEF Init, AbsBodies, InHand, IdleJob
<1>2. config.verifyHard \in BOOLEAN
  BY ConfigAssumption DEF Init, Config
<1>3. AbsOutcome = "running"
  BY DEF Init, AbsOutcome
<1> QED
  BY <1>1, <1>2, <1>3 DEF Init, Atomic!AInit, AbsBodies, AbsOutcome

(* A step of the sequential part returns, or cannot be seen. *)
LEMMA ControlRefines ==
  ASSUME RInv, Control
  PROVE  [Atomic!ANext]_(Atomic!avars)
<1>1. UNCHANGED <<AbsBodies, processed, config>>
  <2>1. /\ UNCHANGED <<config, store, processed>>
        /\ \A m \in Method : ~InHand(m) /\ ~InHand(m)'
    BY ControlNoneInHand DEF RInv, CInv
  <2> QED
    BY <2>1, HostAssumption DEF AbsBodies
<1>2. pc \notin Terminal /\ AbsOutcome = "running"
  BY DEF Control, Start, EnterLayer, AfterLayers, Open, RunGlobals, PassOver, Dispatch, Join,
     Close, HookFails, IterationBoundary, AbsOutcome, Terminal
<1>3. CASE pc' = "failed"
  <2>1. AbsOutcome' = "error" /\ UNCHANGED errors
    BY <1>3 DEF AbsOutcome, Control, Start, EnterLayer, AfterLayers, Open, RunGlobals,
       PassOver, Dispatch, Join, Close, HookFails, IterationBoundary, jobVars
  <2> QED
    BY <1>1, <1>2, <2>1 DEF Atomic!ANext, Atomic!Fail, AbsBodies, AbsOutcome
<1>4. CASE pc' \in {"stable", "exhausted"}
  <2>1. AbsOutcome' = "ok"
    BY <1>4 DEF AbsOutcome
  <2>2. pc # "run" /\ UNCHANGED errors
    BY <1>4 DEF Control, Start, EnterLayer, AfterLayers, Open, RunGlobals, PassOver, Dispatch,
       Join, Close, HookFails, IterationBoundary, jobVars, LeaveLayer, NormalizeAt,
       AfterLayerBatch, AfterNormalizeBatch, NextRound
  <2>3. errors = {}
    BY <1>2, <2>2 DEF RInv, ErrorsOK, Terminal
  <2> QED
    BY <1>1, <1>2, <2>1, <2>2, <2>3 DEF Atomic!ANext, Atomic!Succeed, AbsBodies, AbsOutcome
<1>5. CASE pc' \notin Terminal
  <2>1. AbsOutcome' = "running"
    BY <1>5 DEF AbsOutcome, Terminal
  <2>2. UNCHANGED errors
    <3>1. CASE Dispatch
      BY <3>1 DEF Dispatch, RInv, ErrorsOK
    <3>2. CASE ~Dispatch
      BY <3>2 DEF Control, Start, EnterLayer, AfterLayers, Open, RunGlobals, PassOver, Join,
         Close, HookFails, IterationBoundary, jobVars
    <3> QED
      BY <3>1, <3>2
  <2> QED
    BY <1>1, <1>2, <2>1, <2>2 DEF Atomic!avars, AbsBodies, AbsOutcome
<1> QED
  BY <1>3, <1>4, <1>5 DEF Terminal

(* A worker's step that inserts a body rewrites or rejects; the others cannot
   be seen. *)
LEMMA WorkRefines ==
  ASSUME RInv, NEW m \in Method, Work(m)
  PROVE  [Atomic!ANext]_(Atomic!avars)
<1>1. /\ pc = "run" /\ UNCHANGED <<pc, config>>
      /\ store \in [Method -> Body] /\ job \in [Method -> Job] /\ errors \subseteq Method
  BY WorkFrame DEF seqVars, RInv, CInv, TInv, TypeOK
<1>2. AbsOutcome = "running" /\ AbsOutcome' = "running"
  BY <1>1 DEF AbsOutcome
<1>3. ASSUME UNCHANGED <<AbsBodies, processed, errors>>
      PROVE  [Atomic!ANext]_(Atomic!avars)
  BY <1>1, <1>2, <1>3 DEF Atomic!avars, AbsBodies, AbsOutcome
<1>4. CASE Skip(m)
  <2>1. UNCHANGED AbsBodies
    BY <1>1, <1>4 DEF Skip, AbsBodies, InHand, IdleJob
  <2> QED
    BY <1>3, <1>4, <2>1 DEF Skip
<1>5. CASE Take(m)
  <2>1. /\ ~InHand(m) /\ InHand(m)' /\ job'[m].before = store[m]
        /\ \A n \in Method \ {m} : job'[n] = job[n] /\ store'[n] = store[n]
    BY <1>1, <1>5 DEF Take, InHand, Job
  <2>2. UNCHANGED AbsBodies
    BY <2>1, HostAssumption DEF AbsBodies, InHand
  <2> QED
    BY <1>3, <1>5, <2>2 DEF Take
<1>6. ASSUME NEW b, NEW o, job[m].at = "taken", Ran(m, b, o)
      PROVE  [Atomic!ANext]_(Atomic!avars)
  <2>1. /\ InHand(m) /\ InHand(m)' /\ job'[m].before = job[m].before
        /\ UNCHANGED store /\ \A n \in Method \ {m} : job'[n] = job[n]
    BY <1>1, <1>6 DEF Ran, InHand, Job
  <2>2. UNCHANGED AbsBodies
    BY <2>1, HostAssumption DEF AbsBodies, InHand
  <2> QED
    BY <1>3, <1>6, <2>2 DEF Ran
<1>7. CASE RunUnchanged(m) \/ RunChanged(m) \/ RunFaulty(m)
  <2>1. PICK b, o : job[m].at = "taken" /\ Ran(m, b, o)
    BY <1>7 DEF RunUnchanged, RunChanged, RunFaulty
  <2> QED
    BY <1>6, <2>1
<1>8. ASSUME job[m].at = "ran"
      PROVE  /\ m \in Hosted /\ m \notin errors /\ InHand(m)
             /\ AbsBodies[m] = job[m].before
             /\ job[m].body \in Body /\ job[m].before \in Body
             /\ Boundary(m) \in Body /\ Boundary(m).rev = job[m].body.rev
             /\ job[m].outcome = "unchanged" => Boundary(m) = job[m].body
  <2>1. m \in Hosted /\ m \notin errors /\ InHand(m)
    BY <1>8 DEF RInv, CInv, WorkersOK, ErrorsOK, InHand
  <2>2. job[m].body \in Body /\ job[m].before \in Body /\ Boundary(m) \in Body
    BY BoundaryIsBody DEF RInv, CInv
  <2>3. Boundary(m).rev = job[m].body.rev
    BY <2>2 DEF Boundary, Rebuilt, Repaired, Body
  <2>4. job[m].outcome = "unchanged" => Boundary(m) = job[m].body
    BY DEF Boundary, NeedsRebuild, NeedsRepair
  <2> QED
    BY <2>1, <2>2, <2>3, <2>4 DEF AbsBodies
<1>9. ASSUME NEW b, Insert(m, b), job[m].at = "ran"
      PROVE  AbsBodies' = [AbsBodies EXCEPT ![m] = b]
  BY <1>1, <1>8, <1>9, HostAssumption DEF Insert, AbsBodies, InHand, IdleJob
(* What a worker makes of its body is one of the edits. *)
<1>10. ASSUME NEW b \in Body, b.rev = job[m].body.rev, job[m].at = "ran"
       PROVE  /\ b \in Atomic!Edits(m)
              /\ Atomic!Edit(m, b) = [AbsBodies EXCEPT ![m] = b]
  <2>1. job[m].body.rev \in {job[m].before.rev, job[m].before.rev + 1}
    BY <1>10 DEF RInv, EditsOK
  <2>2. b = [rev |-> b.rev, form |-> b.form] /\ b.form \in Form
    BY <1>10 DEF Body
  <2>3. b.rev \in {AbsBodies[m].rev, AbsBodies[m].rev + 1}
    BY <1>8, <1>10, <2>1
  <2> QED
    BY <2>2, <2>3 DEF Atomic!Edits, Atomic!Edit, AbsBodies
<1>11. ASSUME NEW b \in Body, PutBack(m, b), job[m].at = "ran", b.rev = job[m].body.rev
       PROVE  [Atomic!ANext]_(Atomic!avars)
  <2>1. errors' = errors \cup {m} /\ UNCHANGED processed
    BY <1>11 DEF PutBack
  <2>2. CASE config.verifyHard
    <3>1. AbsBodies' = AbsBodies
      BY <1>8, <1>9, <1>11, <2>2 DEF PutBack, AbsBodies
    <3> QED
      BY <1>1, <1>2, <1>8, <1>11, <2>1, <3>1
      DEF Atomic!ANext, Atomic!Reject, AbsBodies, AbsOutcome
  <2>3. CASE ~config.verifyHard
    <3>1. AbsBodies' = [AbsBodies EXCEPT ![m] = b]
      BY <1>9, <1>11, <2>3 DEF PutBack
    <3>2. b \in Atomic!Edits(m) /\ AbsBodies' = Atomic!Edit(m, b)
      BY <1>10, <1>11, <2>3, <3>1
    <3> QED
      BY <1>1, <1>2, <1>8, <1>11, <2>1, <2>3, <3>2
      DEF Atomic!ANext, Atomic!Reject, AbsBodies, AbsOutcome
  <2> QED
    BY <2>2, <2>3
<1>12. CASE FinishFailed(m)
  <2>1. job[m].at = "ran" /\ PutBack(m, job[m].body)
    BY <1>12 DEF FinishFailed
  <2> QED
    BY <1>8, <1>11, <2>1
<1>13. CASE FinishRejected(m)
  <2>1. job[m].at = "ran" /\ PutBack(m, Boundary(m))
    BY <1>13 DEF FinishRejected
  <2> QED
    BY <1>8, <1>11, <2>1
<1>14. CASE FinishKept(m)
  <2>1. /\ job[m].at = "ran" /\ Insert(m, Boundary(m)) /\ UNCHANGED errors
        /\ config.verifyHard => VerifierAccepts(Boundary(m))
    BY <1>14 DEF FinishKept, Rejected
  <2>2. AbsBodies' = [AbsBodies EXCEPT ![m] = Boundary(m)]
    BY <1>9, <2>1
  <2>3. Boundary(m) \in Atomic!Edits(m) /\ AbsBodies' = Atomic!Edit(m, Boundary(m))
    BY <1>8, <1>10, <2>1, <2>2
  <2>4. processed' \in {processed, processed \cup {m}}
    BY <1>14 DEF FinishKept
  <2> QED
    BY <1>1, <1>2, <1>8, <2>1, <2>3, <2>4
    DEF Atomic!ANext, Atomic!Rewrite, AbsBodies, AbsOutcome
<1> QED
  BY <1>4, <1>5, <1>7, <1>12, <1>13, <1>14 DEF Work

LEMMA NextRefines == RInv /\ [Next]_vars => [Atomic!ANext]_(Atomic!avars)
<1>1. UNCHANGED vars => UNCHANGED Atomic!avars
  BY DEF vars, hostVars, jobVars, Atomic!avars, InHand
<1> QED
  BY <1>1, ControlRefines, WorkRefines DEF Next, Step, Returned

(* For any host, any passes and any faults, the pipeline is one of atomic
   rewrites: no rejected rewrite leaves a trace under verify_hard, and a
   pipeline in which one was rejected reports an error. *)
THEOREM Refines == Spec => AtomicSpec
  BY InitRefines, NextRefines, RInvInvariant, PTL DEF Spec, AtomicSpec, Atomic!ASpec

-----------------------------------------------------------------------------
(***************************************************************************)
(* That PassScheduler loses no work: what is changed is marked processed,  *)
(* work left is on dirty methods, and a stable pipeline has none left.     *)
(* For passes that keep their contract, in any number of layers, of        *)
(* methods and of surprises.                                               *)
(***************************************************************************)

-----------------------------------------------------------------------------
(* A worker whose pass keeps its contract inserts what the pass made. *)
LEMMA HonestIsKept ==
  ASSUME CInv, SInv, Faulty = {}, NEW m \in Method, pc = "run", job[m].at = "ran"
  PROVE  ~Failed(m) /\ ~Rejected(m)
<1>1. Current \in Pass /\ job[m] \in Job
  BY DEF CInv, TInv, TypeOK, PassInHand, Current
<1>2. job[m].body \in Body
  BY <1>1 DEF Job
<1>3. ~Failed(m) /\ VerifierAccepts(Boundary(m))
  <2>1. CASE job[m].outcome = "unchanged" /\ VerifierAccepts(job[m].body)
    BY <2>1 DEF Failed, NeedsRebuild, NeedsRepair, Boundary
  <2>2. CASE job[m].outcome = "changed" /\ job[m].body.form = Damage(Current)
    BY <1>1, <1>2, <2>2, ScopedRepair
  <2> QED
    BY <2>1, <2>2 DEF SInv
<1> QED
  BY <1>3 DEF Rejected

(* The processed mark tells whether the stored body, or the one a worker was
   given, is the one the pipeline began with. *)
MarkedBody(m, body) == body.rev > 0 <=> m \in processed

MarksOK ==
    \A m \in Method :
        /\ store[m] # NoBody => MarkedBody(m, store[m])
        /\ InHand(m) => MarkedBody(m, job[m].before)

LEMMA InitMarksOK == Init => MarksOK
  BY HostAssumption DEF Init, MarksOK, MarkedBody, InHand, IdleJob, NoBody, Fresh

LEMMA BoundaryRevision ==
  ASSUME NEW m \in Method, job[m].body \in Body
  PROVE  Boundary(m).rev = job[m].body.rev
  BY DEF Boundary, Rebuilt, Repaired, Body

LEMMA WorkMarksOK ==
  ASSUME RInv, SInv, MarksOK, Faulty = {}, NEW m \in Method, Work(m)
  PROVE  MarksOK'
<1>1. /\ pc = "run"
      /\ store \in [Method -> Body] /\ job \in [Method -> Job]
  BY WorkFrame DEF RInv, CInv, TInv, TypeOK
<1>2. CASE Skip(m)
  BY <1>1, <1>2 DEF Skip, MarksOK, MarkedBody, InHand, IdleJob
<1>3. CASE Take(m)
  BY <1>1, <1>3 DEF Take, MarksOK, MarkedBody, InHand, Job
<1>4. ASSUME NEW b, NEW o, job[m].at = "taken", Ran(m, b, o) PROVE MarksOK'
  BY <1>1, <1>4 DEF Ran, MarksOK, MarkedBody, InHand, Job
<1>5. CASE RunUnchanged(m) \/ RunChanged(m) \/ RunFaulty(m)
  BY <1>4, <1>5 DEF RunUnchanged, RunChanged, RunFaulty
<1>6. CASE FinishFailed(m) \/ FinishRejected(m)
  BY <1>1, <1>6, HonestIsKept DEF FinishFailed, FinishRejected, RInv
<1>7. CASE FinishKept(m)
  <2>1. /\ job[m].at = "ran" /\ InHand(m)
        /\ job[m].body \in Body /\ job[m].before \in Body
    BY <1>1, <1>7 DEF FinishKept, InHand, Job
  <2>2. Boundary(m).rev = job[m].body.rev
    BY <2>1, BoundaryRevision
  <2>3. /\ store' = [store EXCEPT ![m] = Boundary(m)]
        /\ job' = [job EXCEPT ![m] = IdleJob]
    BY <1>7 DEF FinishKept, Insert
  <2>4. CASE job[m].outcome = "changed"
    <3>1. job[m].body.rev > 0
      BY <2>1, <2>4 DEF RInv, EditsOK, Body
    <3>2. processed' = processed \cup {m}
      BY <1>7, <2>4 DEF FinishKept
    <3> QED
      BY <1>1, <2>2, <2>3, <3>1, <3>2 DEF MarksOK, MarkedBody, InHand, IdleJob
  <2>5. CASE job[m].outcome # "changed"
    <3>1. job[m].body = job[m].before
      BY <2>1, <2>5 DEF RInv, EditsOK, SInv
    <3>2. processed' = processed
      BY <1>7, <2>5 DEF FinishKept
    <3> QED
      BY <1>1, <2>1, <2>2, <2>3, <3>1, <3>2 DEF MarksOK, MarkedBody, InHand, IdleJob
  <2> QED
    BY <2>4, <2>5
<1> QED
  BY <1>2, <1>3, <1>5, <1>6, <1>7 DEF Work

PInv == Faulty = {} => MarksOK

LEMMA NextPInv == RInv /\ SInv /\ PInv /\ [Next]_vars => PInv'
<1> SUFFICES ASSUME RInv, SInv, MarksOK, [Next]_vars, Faulty = {} PROVE MarksOK'
  BY DEF PInv
<1>1. CASE UNCHANGED vars
  BY <1>1 DEF MarksOK, MarkedBody, InHand, vars, hostVars, jobVars
<1>2. CASE Control
  BY <1>2, ControlNoneInHand DEF RInv, CInv, MarksOK, MarkedBody
<1> QED
  BY <1>1, <1>2, WorkMarksOK DEF Next, Step, Returned

(* For every pipeline of passes that keep their contract, the processed set a
   host regenerates code from is exactly the set of methods whose body changed. *)
THEOREM ProcessedIsExact == Spec => []ProcessedIsChanged
<1>1. PInv => ProcessedIsChanged
  BY HostAssumption DEF PInv, MarksOK, MarkedBody, ProcessedIsChanged
<1>2. Init => PInv
  BY InitMarksOK DEF PInv
<1> QED
  BY <1>1, <1>2, NextPInv, RInvInvariant, VSInvInvariant, PTL DEF Spec

-----------------------------------------------------------------------------
(* Where work may be left.  Targets are the methods the host lists and has a
   body for. *)

Targets == Hosted \cap Listed
HasWork(p, m) == <<p, m>> \in work
NormalizeSet == {Normalize[i] : i \in DOMAIN Normalize}
LayerSet(l) == {Layers[l][i] : i \in DOMAIN Layers[l]}

Running == pc \notin Terminal \cup {"start"}
BatchRuns == pc \in {"global", "dispatch", "run"}

(* A method changed in this iteration; a change in this batch. *)
ChangeInHand(m) == job[m].at = "ran" /\ job[m].outcome = "changed"
Touched(m) == m \in modified \/ ChangeInHand(m)
Stirred == anyChanged \/ \E m \in Method : ChangeInHand(m)

(* While a batch runs: nothing happened to m since the batch began. *)
Settled(m) == ~Touched(m) \/ ~Stirred

(* Passes only have work they would do. *)
WorkOK == \A w \in work : IsLocal(w[1]) /\ w[2] \notin Meta[w[1]].skips

(* Work is on dirty methods, and a batch visits all of those. *)
DirtyOK ==
    Running => \A p \in Registered, m \in Targets : HasWork(p, m) => m \in dirty
OrdersOK ==
    BatchRuns => \A m \in Targets \cap dirty : m \in orders.all /\ m \in orders.dirty

(* A pass of the batch is still to run, or left no work on a settled method;
   the current one is still to run on the methods it has work on. *)
BatchOK ==
    BatchRuns =>
        /\ \A k \in DOMAIN todo : todo[k] \in BatchSet
        /\ \A p \in BatchSet :
              \/ \E k \in DOMAIN todo : todo[k] = p
              \/ \A m \in Targets : Settled(m) => ~HasWork(p, m)
CurrentOK ==
    pc = "run" => \A m \in Targets :
        Settled(m) /\ HasWork(Current, m) => job[m].at \in {"ready", "taken"}

(* The layers this iteration is done with left no work on untouched methods. *)
IsBehind(l) ==
    \/ l < loop.layer
    \/ l = loop.layer /\ InBatch /\ loop.ctx \in {"between", "tail"}
LayersOK ==
    /\ Running => \A l \in DOMAIN Layers : IsBehind(l) =>
          \A p \in LayerSet(l), m \in Targets : ~Touched(m) => ~HasWork(p, m)
    /\ pc = "boundary" \/ (InBatch /\ loop.ctx = "first") => loop.layer > Len(Layers)

(* After a change, or after the first iteration, normalization has no work
   left unless a batch just changed something. *)
NoNormalWork == \A p \in NormalizeSet, m \in Targets : ~HasWork(p, m)
Normalized == loop.iteration > 1 \/ loop.iterChanged \/ loop.phaseChanged
NormalOK ==
    /\ pc = "boundary" => NoNormalWork
    /\ pc = "layer" /\ Normalized => NoNormalWork
    /\ InBatch /\ loop.ctx = "layer" /\ Normalized =>
          NoNormalWork \/ (pc \in {"dispatch", "run"} /\ Stirred)

(* No normalization is cut off by the cap on its rounds. *)
Uncapped ==
    /\ config.maxPhase > 0
    /\ pc = "dispatch" /\ todo = <<>> /\ loop.ctx # "layer" /\ anyChanged =>
          loop.nround < config.maxPhase

StartOK ==
    /\ loop.iteration >= 1
    /\ pc = "start" => loop.iteration = 1 /\ loop.layer = 1 /\ ~loop.iterChanged

(* The loop over a batch begins with all of it. *)
GlobalOK == pc = "global" => todo = Batch

FInv ==
    /\ StartOK /\ GlobalOK
    /\ WorkOK /\ DirtyOK /\ OrdersOK /\ BatchOK /\ CurrentOK /\ LayersOK /\ NormalOK
    /\ pc = "stable" => Pending = {}

LEMMA InitFInv == Init => FInv
  BY DEF Init, FInv, StartOK, GlobalOK, WorkOK, DirtyOK, OrdersOK, BatchOK, CurrentOK, LayersOK, NormalOK,
     Running, BatchRuns, InBatch

-----------------------------------------------------------------------------
(* A step of a worker.  New work is only found by a change, on the method that
   changed; and a worker does not pass by a method its pass has work on. *)

KeepsMarks(m) ==
    /\ \A n \in Method : Touched(n) => Touched(n)'
    /\ Stirred => Stirred'
    /\ \A n \in Method \ {m} : job'[n] = job[n]
    /\ dirty' = dirty

FindsOnly(m) ==
    \A p \in Pass, n \in Method : HasWork(p, n)' =>
        HasWork(p, n) \/ (n = m /\ HasWork(Current, m) /\ Touched(m)' /\ Stirred')

LEMMA WorkKeepsMarks ==
  ASSUME CInv, SInv, Faulty = {}, Discovers = {}, NEW m \in Method, Work(m)
  PROVE  KeepsMarks(m)
<1>1. pc = "run" /\ job \in [Method -> Job]
  BY WorkFrame DEF CInv, TInv, TypeOK
<1>2. CASE Skip(m)
  BY <1>1, <1>2 DEF Skip, KeepsMarks, Touched, Stirred, ChangeInHand, IdleJob
<1>3. CASE Take(m)
  BY <1>1, <1>3 DEF Take, KeepsMarks, Touched, Stirred, ChangeInHand, Job
<1>4. ASSUME NEW b, NEW o, job[m].at = "taken", Ran(m, b, o), dirty' = dirty
      PROVE  KeepsMarks(m)
  BY <1>1, <1>4 DEF Ran, KeepsMarks, Touched, Stirred, ChangeInHand, Job
<1>5. CASE RunUnchanged(m) \/ RunFaulty(m)
  BY <1>4, <1>5 DEF RunUnchanged, RunFaulty
<1>6. CASE RunChanged(m)
  <2>1. dirty' = dirty
    BY <1>6 DEF RunChanged
  <2> QED
    BY <1>4, <1>6, <2>1 DEF RunChanged
<1>7. CASE FinishFailed(m) \/ FinishRejected(m)
  BY <1>1, <1>7, HonestIsKept DEF FinishFailed, FinishRejected
<1>8. CASE FinishKept(m)
  BY <1>1, <1>8 DEF FinishKept, Insert, KeepsMarks, Touched, Stirred, ChangeInHand, IdleJob
<1> QED
  BY <1>2, <1>3, <1>5, <1>6, <1>7, <1>8 DEF Work

LEMMA WorkFindsOnly ==
  ASSUME CInv, SInv, Faulty = {}, Discovers = {}, WorkOK, NEW m \in Method, Work(m)
  PROVE  FindsOnly(m) /\ WorkOK'
<1>1. pc = "run" /\ job \in [Method -> Job]
  BY WorkFrame DEF CInv, TInv, TypeOK
<1>2. CASE RunChanged(m)
  <2>1. HasWork(Current, m)
    BY <1>2 DEF RunChanged, HasWork
  <2>2. \/ work' \subseteq work
        \/ \E q \in Pass : /\ work' \subseteq work \cup {<<q, m>>}
                           /\ IsLocal(q) /\ m \notin Meta[q].skips
    BY <1>2 DEF RunChanged
  <2>3. ChangeInHand(m)'
    BY <1>1, <1>2 DEF RunChanged, Ran, ChangeInHand, Job
  <2>4. Touched(m)' /\ Stirred'
    BY <2>3 DEF Touched, Stirred
  <2> QED
    BY <2>1, <2>2, <2>4 DEF FindsOnly, HasWork, WorkOK
<1>3. CASE UNCHANGED work
  BY <1>3 DEF FindsOnly, HasWork, WorkOK
<1> QED
  BY <1>2, <1>3 DEF Work, Skip, Take, RunUnchanged, RunFaulty, FinishFailed, FinishRejected,
     FinishKept, PutBack, Insert, Ran, envVars

LEMMA SettledOnly ==
  ASSUME NEW m \in Method, KeepsMarks(m), FindsOnly(m), NEW n \in Method, NEW p \in Pass
  PROVE  /\ Settled(n)' => Settled(n)
         /\ Settled(n)' /\ HasWork(p, n)' => HasWork(p, n)
         /\ ~Touched(n)' => ~Touched(n)
         /\ ~Touched(n)' /\ HasWork(p, n)' => HasWork(p, n)
  BY DEF KeepsMarks, FindsOnly, Settled

LEMMA PassSets ==
  /\ NormalizeSet \subseteq Pass /\ Registered \subseteq Pass
  /\ \A l \in DOMAIN Layers : LayerSet(l) \subseteq Registered
  /\ NormalizeSet \subseteq Registered
  /\ \A l \in DOMAIN Layers : LayerSet(l) \subseteq Pass
  BY LayersAssumption DEF NormalizeSet, Registered, LayerSet

LEMMA BatchIsRegistered ==
  ASSUME TInv, InBatch
  PROVE  BatchSet \subseteq Registered
<1>1. loop.ctx = "layer" => loop.layer \in DOMAIN Layers
  BY LayersAssumption DEF TInv, TypeOK, LayerInRange, Loop
<1>2. CASE loop.ctx = "layer"
  <2>1. BatchSet = LayerSet(loop.layer)
    BY <1>2 DEF BatchSet, Batch, LayerSet
  <2> QED
    BY <1>1, <1>2, <2>1, PassSets
<1>3. CASE loop.ctx # "layer"
  BY <1>3, PassSets DEF BatchSet, Batch, NormalizeSet
<1> QED
  BY <1>2, <1>3

LEMMA CurrentTarget ==
  ASSUME FInv, CInv, pc = "run", NEW m \in Targets, HasWork(Current, m)
  PROVE  m \in dirty /\ Current \in Registered
<1>1. Current \in Registered
  <2>1. todo # <<>> /\ todo \in Seq(Pass)
    BY DEF CInv, TInv, TypeOK, PassInHand
  <2>2. Current \in BatchSet
    BY <2>1 DEF FInv, BatchOK, BatchRuns, Current
  <2> QED
    BY <2>2, BatchIsRegistered DEF CInv, InBatch
<1> QED
  BY <1>1 DEF FInv, DirtyOK, Running, Terminal

(* The current pass is not done with a method it has work on. *)
LEMMA CurrentStays ==
  ASSUME CInv, SInv, FInv, Faulty = {}, Discovers = {}, NEW m \in Method, Work(m),
         NEW n \in Targets, Settled(n)', HasWork(Current, n)', HasWork(Current, n), Settled(n)
  PROVE  job'[n].at \in {"ready", "taken"}
<1>1. pc = "run" /\ job \in [Method -> Job] /\ n \in Method /\ n \in Hosted
  BY WorkFrame, HostAssumption DEF CInv, TInv, TypeOK, Targets
<1>2. job[n].at \in {"ready", "taken"}
  BY <1>1 DEF FInv, CurrentOK
<1>3. CASE n # m
  BY <1>1, <1>2, <1>3, WorkKeepsMarks DEF KeepsMarks
<1>4. CASE n = m
  <2>1. ~Skip(m)
    <3>1. <<Current, m>> \in work
      BY <1>4 DEF HasWork
    <3>2. m \notin Meta[Current].skips
      BY <3>1 DEF FInv, WorkOK
    <3>3. job[m].at = "ready" => store[m] # NoBody
      BY <1>1, <1>4 DEF CInv, BodiesKept, InHand
    <3> QED
      BY <3>2, <3>3 DEF Skip
  <2>2. CASE Take(m)
    BY <1>1, <1>4, <2>2 DEF Take, Job
  <2>3. ~RunUnchanged(m)
    BY <1>4 DEF RunUnchanged, HasWork
  <2>4. ~RunChanged(m)
    <3>1. SUFFICES ASSUME RunChanged(m) PROVE FALSE
      OBVIOUS
    <3>2. ChangeInHand(m)'
      BY <1>1, <3>1 DEF RunChanged, Ran, ChangeInHand, Job
    <3> QED
      BY <1>4, <3>2 DEF Settled, Touched, Stirred
  <2>5. ~RunFaulty(m)
    BY DEF RunFaulty
  <2>6. ~FinishFailed(m) /\ ~FinishRejected(m) /\ ~FinishKept(m)
    BY <1>2, <1>4 DEF FinishFailed, FinishRejected, FinishKept
  <2> QED
    BY <2>1, <2>2, <2>3, <2>4, <2>5, <2>6 DEF Work
<1> QED
  BY <1>3, <1>4

LEMMA WorkFInv ==
  ASSUME CInv, SInv, FInv, Faulty = {}, Discovers = {}, NEW m \in Method, Work(m)
  PROVE  FInv'
<1>1. /\ pc = "run" /\ pc' = "run"
      /\ UNCHANGED <<config, loop, todo, orders>>
  BY WorkFrame DEF seqVars
<1>2. KeepsMarks(m) /\ FindsOnly(m) /\ WorkOK'
  BY WorkKeepsMarks, WorkFindsOnly DEF FInv
<1>3. /\ Current' = Current /\ BatchSet' = BatchSet /\ Batch' = Batch
      /\ InBatch /\ InBatch' /\ Running /\ Running' /\ BatchRuns /\ BatchRuns'
  BY <1>1 DEF Current, BatchSet, Batch, InBatch, Running, BatchRuns, Terminal
<1>4. Current \in Pass /\ Targets \subseteq Method /\ BatchSet \subseteq Pass
  BY <1>1, <1>3, HostAssumption, BatchIsRegistered, PassSets
  DEF CInv, TInv, TypeOK, PassInHand, Current, Targets
<1>5. StartOK' /\ GlobalOK'
  BY <1>1 DEF FInv, StartOK, GlobalOK
<1>6. DirtyOK'
  <2>1. SUFFICES ASSUME NEW p \in Registered, NEW n \in Targets, HasWork(p, n)'
                 PROVE  n \in dirty
    BY <1>2, <1>3 DEF DirtyOK, KeepsMarks
  <2>2. HasWork(p, n) \/ (n = m /\ HasWork(Current, m))
    BY <1>2, <1>4, <2>1, PassSets DEF FindsOnly
  <2> QED
    BY <1>1, <1>3, <2>1, <2>2, CurrentTarget DEF FInv, DirtyOK
<1>7. OrdersOK'
  BY <1>1, <1>2, <1>3 DEF FInv, OrdersOK, KeepsMarks
<1>8. BatchOK'
  <2>1. \A p \in BatchSet, n \in Targets :
           (Settled(n) => ~HasWork(p, n)) => (Settled(n)' => ~HasWork(p, n)')
    BY <1>2, <1>4, SettledOnly
  <2> QED
    BY <1>1, <1>3, <2>1 DEF FInv, BatchOK
<1>9. CurrentOK'
  <2>1. SUFFICES ASSUME NEW n \in Targets, Settled(n)', HasWork(Current, n)'
                 PROVE  job'[n].at \in {"ready", "taken"}
    BY DEF CurrentOK
  <2>2. Settled(n) /\ HasWork(Current, n)
    BY <1>2, <1>3, <1>4, <2>1, SettledOnly DEF HasWork
  <2> QED
    BY <2>1, <2>2, CurrentStays
<1>10. LayersOK'
  <2>1. \A l \in DOMAIN Layers : \A p \in LayerSet(l), n \in Targets :
           (~Touched(n) => ~HasWork(p, n)) => (~Touched(n)' => ~HasWork(p, n)')
    BY <1>2, <1>4, SettledOnly, PassSets
  <2>2. \A l : IsBehind(l)' <=> IsBehind(l)
    BY <1>1, <1>3 DEF IsBehind
  <2> QED
    BY <1>1, <1>3, <2>1, <2>2 DEF FInv, LayersOK
<1>11. NormalOK'
  <2>1. NoNormalWork => NoNormalWork' \/ Stirred'
    BY <1>2, <1>4, PassSets DEF NoNormalWork, FindsOnly
  <2>2. Stirred => Stirred'
    BY <1>2 DEF KeepsMarks
  <2>3. Normalized' <=> Normalized
    BY <1>1 DEF Normalized
  <2> QED
    BY <1>1, <1>3, <2>1, <2>2, <2>3 DEF FInv, NormalOK
<1> QED
  BY <1>1, <1>2, <1>5, <1>6, <1>7, <1>8, <1>9, <1>10, <1>11 DEF FInv

-----------------------------------------------------------------------------
(* A step of the sequential part happens between the workers' steps: the work
   stays, and what counts is in modified and anyChanged alone. *)

LEMMA ControlQuiet ==
  ASSUME CInv, Control
  PROVE  /\ work' = work /\ store' = store /\ config' = config
         /\ \A m \in Method : (Touched(m) <=> m \in modified) /\ (Touched(m)' <=> m \in modified')
         /\ (Stirred <=> anyChanged) /\ (Stirred' <=> anyChanged')
         /\ \A p, m : HasWork(p, m)' <=> HasWork(p, m)
         /\ WorkOK => WorkOK'
         /\ NoNormalWork => NoNormalWork'
<1>1. /\ work' = work /\ store' = store /\ config' = config
      /\ \A m \in Method : ~InHand(m) /\ ~InHand(m)'
  BY ControlNoneInHand DEF CInv
<1>2. \A m \in Method : ~ChangeInHand(m) /\ ~ChangeInHand(m)'
  BY <1>1 DEF InHand, ChangeInHand
<1> QED
  BY <1>1, <1>2 DEF Touched, Stirred, HasWork, WorkOK, NoNormalWork

(* When no worker runs, the host has the bodies of its methods. *)
LEMMA TargetsPresent ==
  ASSUME CInv, AllIdle
  PROVE  Hosted \subseteq Present
  BY HostAssumption DEF CInv, BodiesKept, AllIdle, InHand, Present

LEMMA StartFInv ==
  ASSUME CInv, KInv, FInv, Start
  PROVE  FInv'
<1>0. Control
  BY DEF Control
<1>1. /\ pc = "start" /\ pc' \in {"failed", "exhausted", "layer"}
      /\ dirty' = dirty \cup Present /\ UNCHANGED <<loop, modified>>
  BY DEF Start
<1>2. Hosted \subseteq dirty'
  BY <1>0, <1>1, ControlNoneInHand, TargetsPresent DEF CInv
<1>3. DirtyOK'
  BY <1>2 DEF DirtyOK, Targets
<1>4. loop.iteration = 1 /\ loop.layer = 1 /\ ~loop.iterChanged /\ ~loop.phaseChanged
  BY <1>1 DEF FInv, StartOK, KInv, FlagsOK
<1>5. StartOK' /\ GlobalOK'
  BY <1>1, <1>4 DEF StartOK, GlobalOK
<1>6. LayersOK'
  BY <1>1, <1>4, LayersAssumption DEF LayersOK, IsBehind, InBatch
<1>7. NormalOK'
  BY <1>1, <1>4 DEF NormalOK, Normalized, InBatch
<1>8. OrdersOK' /\ BatchOK' /\ CurrentOK' /\ (pc' # "stable")
  BY <1>1 DEF OrdersOK, BatchOK, CurrentOK, BatchRuns
<1> QED
  BY <1>0, <1>3, <1>5, <1>6, <1>7, <1>8, ControlQuiet DEF FInv

(* What a step between two batches or inside one leaves alone. *)
BatchFrame ==
    /\ pc' # "failed" => InBatch /\ InBatch'
    /\ pc' \notin {"start", "stable"}
    /\ UNCHANGED <<loop, modified, dirty>>

LEMMA BatchFrameHolds ==
  ASSUME Open \/ RunGlobals \/ PassOver \/ Dispatch \/ Join \/ HookFails
  PROVE  Control /\ BatchFrame
  BY DEF Control, BatchFrame, InBatch, Open, RunGlobals, PassOver, Dispatch, Join, HookFails,
     hostVars

LEMMA BatchFrameFInv ==
  ASSUME CInv, FInv, Control, BatchFrame
  PROVE  /\ WorkOK' /\ StartOK' /\ DirtyOK' /\ LayersOK' /\ (pc' # "stable")
         /\ \A m \in Targets : Touched(m)' <=> Touched(m)
<1>1. WorkOK' /\ StartOK' /\ DirtyOK'
  BY ControlQuiet DEF BatchFrame, FInv, StartOK, DirtyOK, Running, InBatch, Terminal
<1>2. Targets \subseteq Method
  BY HostAssumption DEF Targets
<1>3. \A m \in Targets : Touched(m)' <=> Touched(m)
  BY <1>2, ControlQuiet DEF BatchFrame
<1>4. CASE pc' = "failed"
  BY <1>1, <1>3, <1>4 DEF LayersOK, Running, Terminal, InBatch
<1>5. CASE pc' # "failed"
  <2>1. \A l : IsBehind(l)' <=> IsBehind(l)
    BY <1>5 DEF BatchFrame, IsBehind
  <2>2. LayersOK'
    BY <1>3, <1>5, <2>1, ControlQuiet DEF BatchFrame, FInv, LayersOK, Running, InBatch, Terminal
  <2> QED
    BY <1>1, <1>3, <2>2 DEF BatchFrame
<1> QED
  BY <1>4, <1>5

LEMMA OpenFInv ==
  ASSUME CInv, FInv, Open
  PROVE  FInv'
<1>0. Control /\ BatchFrame
  BY BatchFrameHolds
<1>1. /\ pc = "open" /\ pc' = "global" /\ AllIdle
      /\ todo' = Batch /\ UNCHANGED <<loop, dirty>>
      /\ orders' = [all |-> IF Listed = {} THEN Present ELSE Listed \cap Present,
                    dirty |-> (IF Listed = {} THEN Present ELSE Listed \cap Present) \cap dirty]
  BY <1>0, ControlNoneInHand DEF Open, CInv, hostVars
<1>2. \A m \in Targets : m \in orders'.all /\ (m \in dirty => m \in orders'.dirty)
  BY <1>1, TargetsPresent DEF Targets
<1>3. OrdersOK' /\ CurrentOK'
  BY <1>1, <1>2 DEF OrdersOK, CurrentOK
<1>4. BatchOK' /\ GlobalOK'
  BY <1>1 DEF BatchOK, BatchSet, Batch, GlobalOK
<1>5. NormalOK'
  BY <1>0, <1>1, ControlQuiet DEF FInv, NormalOK, Normalized, InBatch
<1> QED
  BY <1>0, <1>3, <1>4, <1>5, BatchFrameFInv DEF FInv

LEMMA RunGlobalsFInv ==
  ASSUME CInv, FInv, RunGlobals
  PROVE  FInv'
<1>0. Control /\ BatchFrame
  BY BatchFrameHolds
<1>1. /\ pc = "global" /\ pc' = "dispatch"
      /\ UNCHANGED <<loop, orders, todo, dirty>>
  BY DEF RunGlobals
<1>2. OrdersOK' /\ CurrentOK' /\ GlobalOK'
  BY <1>1 DEF FInv, OrdersOK, CurrentOK, BatchRuns, GlobalOK
<1>3. BatchOK'
  <2>1. \A p \in BatchSet : \E k \in DOMAIN todo : todo[k] = p
    BY <1>1 DEF FInv, GlobalOK, BatchSet
  <2>2. BatchSet' = BatchSet
    BY <1>1 DEF BatchSet, Batch
  <2> QED
    BY <1>1, <2>1, <2>2 DEF FInv, BatchOK, BatchRuns
<1>4. NormalOK'
  BY <1>0, <1>1, ControlQuiet DEF FInv, NormalOK, Normalized, InBatch
<1> QED
  BY <1>0, <1>2, <1>3, <1>4, BatchFrameFInv DEF FInv

LEMMA TailIndex ==
  ASSUME NEW q \in Seq(Pass), q # <<>>
  PROVE  /\ \A k \in DOMAIN q : k = 1 \/ (k - 1 \in DOMAIN Tail(q) /\ Tail(q)[k - 1] = q[k])
         /\ \A k \in DOMAIN Tail(q) : k + 1 \in DOMAIN q /\ Tail(q)[k] = q[k + 1]
  OBVIOUS

(* The loop goes on to the next pass: the current one left no work. *)
LEMMA TailFInv ==
  ASSUME CInv, FInv, PassOver \/ (Join /\ errors = {})
  PROVE  FInv'
<1>0. Control /\ BatchFrame
  BY BatchFrameHolds
<1>1. /\ pc \in {"dispatch", "run"} /\ pc' = "dispatch" /\ AllIdle
      /\ todo # <<>> /\ todo \in Seq(Pass) /\ todo' = Tail(todo)
      /\ UNCHANGED <<loop, orders, dirty, anyChanged>>
  BY <1>0, ControlNoneInHand DEF PassOver, Join, CInv, TInv, TypeOK, PassInHand, hostVars
<1>2. OrdersOK' /\ CurrentOK' /\ GlobalOK'
  BY <1>1 DEF FInv, OrdersOK, CurrentOK, BatchRuns, GlobalOK
<1>3. \A m \in Targets : Settled(m)' <=> Settled(m)
  BY <1>0, <1>1, BatchFrameFInv, ControlQuiet DEF Settled
<1>4. \A m \in Targets : Settled(m) => ~HasWork(Current, m)
  <2>1. CASE PassOver
    BY <2>1 DEF PassOver, FInv, WorkOK, HasWork
  <2>2. CASE Join
    BY <1>1, <2>2, HostAssumption DEF Join, FInv, CurrentOK, AllIdle, Targets
  <2> QED
    BY <2>1, <2>2
<1>5. BatchOK'
  <2>1. BatchSet' = BatchSet
    BY <1>1 DEF BatchSet, Batch
  <2>2. \A k \in DOMAIN todo' : todo'[k] \in BatchSet
    BY <1>1, TailIndex DEF FInv, BatchOK, BatchRuns
  <2>3. ASSUME NEW p \in BatchSet
        PROVE  \/ \E k \in DOMAIN todo' : todo'[k] = p
               \/ \A m \in Targets : Settled(m) => ~HasWork(p, m)
    <3>1. CASE \E k \in DOMAIN todo : todo[k] = p
      <4>1. p = Current \/ \E k \in DOMAIN todo' : todo'[k] = p
        <5>1. PICK k \in DOMAIN todo : todo[k] = p
          BY <3>1
        <5>2. CASE k = 1
          BY <1>1, <5>1, <5>2 DEF Current
        <5>3. CASE k # 1
          BY <1>1, <5>1, <5>3, TailIndex
        <5> QED
          BY <5>2, <5>3
      <4> QED
        BY <1>4, <4>1
    <3>2. CASE ~ \E k \in DOMAIN todo : todo[k] = p
      BY <1>1, <3>2 DEF FInv, BatchOK, BatchRuns
    <3> QED
      BY <3>1, <3>2
  <2> QED
    BY <1>0, <1>1, <1>3, <2>1, <2>2, <2>3, ControlQuiet DEF BatchOK
<1>6. NormalOK'
  BY <1>0, <1>1, ControlQuiet DEF FInv, NormalOK, Normalized, InBatch
<1> QED
  BY <1>0, <1>2, <1>5, <1>6, BatchFrameFInv DEF FInv

LEMMA DispatchFInv ==
  ASSUME CInv, FInv, Dispatch
  PROVE  FInv'
<1>0. Control /\ BatchFrame
  BY BatchFrameHolds
<1>1. /\ pc = "dispatch" /\ pc' = "run"
      /\ todo # <<>> /\ todo \in Seq(Pass)
      /\ UNCHANGED <<loop, orders, dirty, anyChanged, todo>>
  BY DEF Dispatch, CInv, TInv, TypeOK, hostVars, batchVars
<1>2. OrdersOK' /\ GlobalOK'
  BY <1>1 DEF FInv, OrdersOK, BatchRuns, GlobalOK
<1>3. Current' = Current /\ BatchSet' = BatchSet
  BY <1>1 DEF Current, BatchSet, Batch
<1>4. \A m \in Targets : Settled(m)' <=> Settled(m)
  BY <1>0, <1>1, BatchFrameFInv, ControlQuiet DEF Settled
<1>5. BatchOK'
  BY <1>0, <1>1, <1>3, <1>4, ControlQuiet DEF FInv, BatchOK, BatchRuns
<1>6. CurrentOK'
  <2>1. Current \in Registered
    <3>1. Current \in BatchSet
      BY <1>1 DEF FInv, BatchOK, BatchRuns, Current
    <3> QED
      BY <1>1, <3>1, BatchIsRegistered DEF CInv, InBatch
  <2>2. SUFFICES ASSUME NEW m \in Targets, HasWork(Current, m)' PROVE job'[m].at = "ready"
    BY DEF CurrentOK
  <2>3. HasWork(Current, m)
    BY <1>0, <1>3, <2>2, ControlQuiet DEF HasWork
  <2>4. m \in dirty /\ m \in Method
    BY <1>1, <2>1, <2>3, HostAssumption DEF FInv, DirtyOK, Running, Terminal, Targets
  <2>5. m \in orders.all /\ m \in orders.dirty
    BY <1>1, <2>4 DEF FInv, OrdersOK, BatchRuns
  <2> QED
    BY <2>4, <2>5 DEF Dispatch, IdleJob
<1>7. NormalOK'
  BY <1>0, <1>1, ControlQuiet DEF FInv, NormalOK, Normalized, InBatch
<1> QED
  BY <1>0, <1>2, <1>5, <1>6, <1>7, BatchFrameFInv DEF FInv

LEMMA FailFInv ==
  ASSUME CInv, FInv, HookFails \/ (Join /\ errors # {})
  PROVE  FInv'
<1>0. Control /\ BatchFrame
  BY BatchFrameHolds
<1>1. pc' = "failed"
  BY DEF HookFails, Join
<1>2. OrdersOK' /\ BatchOK' /\ CurrentOK' /\ GlobalOK' /\ NormalOK'
  BY <1>1 DEF OrdersOK, BatchOK, CurrentOK, GlobalOK, NormalOK, BatchRuns, InBatch
<1> QED
  BY <1>0, <1>2, BatchFrameFInv DEF FInv

-----------------------------------------------------------------------------
(* The loops around the batches. *)

(* When a batch closes, its passes left no work on methods the iteration has
   not changed, and, if it changed nothing, none at all. *)
LEMMA ClosedBatch ==
  ASSUME CInv, FInv, Close
  PROVE  /\ \A p \in BatchSet, m \in Targets : m \notin modified => ~HasWork(p, m)
         /\ ~anyChanged => \A p \in BatchSet, m \in Targets : ~HasWork(p, m)
<1>1. Control /\ pc = "dispatch" /\ todo = <<>>
  BY DEF Close, Control
<1>2. \A p \in BatchSet, m \in Targets : Settled(m) => ~HasWork(p, m)
  BY <1>1 DEF FInv, BatchOK, BatchRuns
<1> QED
  BY <1>1, <1>2, ControlQuiet, HostAssumption DEF Settled, Targets

(* A step that only moves from one loop to the next. *)
LoopFrame ==
    /\ pc' \in {"layer", "open", "boundary"} /\ pc \in {"layer", "dispatch"}
    /\ UNCHANGED <<modified, dirty>>
    /\ loop'.iteration = loop.iteration

LEMMA LoopFrameFInv ==
  ASSUME CInv, FInv, Control, LoopFrame, LayersOK', NormalOK'
  PROVE  FInv'
<1>1. WorkOK' /\ StartOK' /\ GlobalOK'
  BY ControlQuiet DEF FInv, LoopFrame, StartOK, GlobalOK
<1>2. DirtyOK'
  BY ControlQuiet DEF FInv, LoopFrame, DirtyOK, Running, Terminal
<1>3. OrdersOK' /\ BatchOK' /\ CurrentOK' /\ pc' # "stable"
  BY DEF LoopFrame, OrdersOK, BatchOK, CurrentOK, BatchRuns
<1> QED
  BY <1>1, <1>2, <1>3 DEF FInv

(* LayersOK, when no worker runs. *)
CleanLayer(l) == \A p \in LayerSet(l), m \in Targets : m \notin modified => ~HasWork(p, m)

LEMMA CleanLayers ==
  ASSUME CInv, Control
  PROVE  /\ LayersOK <=>
               /\ Running => \A l \in DOMAIN Layers : IsBehind(l) => CleanLayer(l)
               /\ pc = "boundary" \/ (InBatch /\ loop.ctx = "first") => loop.layer > Len(Layers)
         /\ LayersOK' <=>
               /\ Running' => \A l \in DOMAIN Layers : IsBehind(l)' => CleanLayer(l)'
               /\ pc' = "boundary" \/ (InBatch' /\ loop'.ctx = "first")
                     => loop'.layer > Len(Layers)
<1>1. \A m \in Targets : (Touched(m) <=> m \in modified) /\ (Touched(m)' <=> m \in modified')
  BY ControlQuiet, HostAssumption DEF Targets
<1>2. \A l : CleanLayer(l) <=> \A p \in LayerSet(l), m \in Targets : ~Touched(m) => ~HasWork(p, m)
  BY <1>1 DEF CleanLayer
<1>3. \A l : CleanLayer(l)'
               <=> \A p \in LayerSet(l), m \in Targets : ~Touched(m)' => ~HasWork(p, m)'
  BY <1>1 DEF CleanLayer
<1> QED
  BY <1>2, <1>3 DEF LayersOK

LEMMA EmptyLayer ==
  ASSUME NEW l \in DOMAIN Layers, Layers[l] = <<>>
  PROVE  CleanLayer(l)
  BY DEF CleanLayer, LayerSet

LEMMA EmptyNormalize == Normalize = <<>> => NoNormalWork
  BY DEF NoNormalWork, NormalizeSet

(* A step to the next loop, in terms of the state it starts from. *)
LEMMA LoopStepFInv ==
  ASSUME CInv, FInv, Control, LoopFrame,
         \A l \in DOMAIN Layers : IsBehind(l)' => CleanLayer(l),
         pc' = "boundary" \/ (InBatch' /\ loop'.ctx = "first") => loop'.layer > Len(Layers),
         \/ NoNormalWork
         \/ pc' = "layer" /\ ~Normalized'
         \/ pc' = "open" /\ (loop'.ctx = "layer" => ~Normalized')
  PROVE  FInv'
<1>1. \A l : CleanLayer(l) => CleanLayer(l)'
  BY ControlQuiet DEF CleanLayer, LoopFrame
<1>2. LayersOK'
  BY <1>1, CleanLayers
<1>3. NormalOK'
  BY ControlQuiet DEF NormalOK, InBatch
<1> QED
  BY <1>2, <1>3, LoopFrameFInv

(* The layers before this one are clean. *)
LEMMA BehindIsClean ==
  ASSUME CInv, FInv, Control, pc \notin Terminal \cup {"start"},
         NEW l \in DOMAIN Layers, IsBehind(l)
  PROVE  CleanLayer(l)
  BY CleanLayers DEF FInv, Running

(* The batch that closed was the layer's, or normalization's. *)
LEMMA ClosedSets ==
  ASSUME CInv, FInv, Close
  PROVE  /\ loop.ctx = "layer" => loop.layer \in DOMAIN Layers /\ CleanLayer(loop.layer)
         /\ loop.ctx # "layer" /\ ~anyChanged => NoNormalWork
<1>1. InBatch /\ loop.layer \in Nat \ {0}
  BY DEF Close, InBatch, CInv, TInv, TypeOK, Loop
<1>2. loop.ctx = "layer" => BatchSet = LayerSet(loop.layer) /\ loop.layer \in DOMAIN Layers
  BY <1>1, LayersAssumption DEF CInv, TInv, LayerInRange, BatchSet, Batch, LayerSet
<1>3. loop.ctx # "layer" => BatchSet = NormalizeSet
  BY DEF BatchSet, Batch, NormalizeSet
<1> QED
  BY <1>2, <1>3, ClosedBatch DEF CleanLayer, NoNormalWork

LEMMA EnterLayerFInv ==
  ASSUME CInv, KInv, FInv, Uncapped, EnterLayer
  PROVE  FInv'
<1>0. Control /\ loop \in Loop /\ config \in Config
  BY DEF Control, CInv, TInv, TypeOK
<1>1. /\ pc = "layer" /\ loop.layer \in DOMAIN Layers
      /\ UNCHANGED <<modified, dirty>>
  BY <1>0, LayersAssumption DEF EnterLayer, Loop, hostVars
<1>2. ~loop.phaseChanged /\ loop.ctx = "layer"
  BY <1>1 DEF KInv, FlagsOK
<1>3. \A l \in DOMAIN Layers : l < loop.layer => CleanLayer(l)
  BY <1>0, <1>1, BehindIsClean DEF IsBehind, Terminal
<1>4. Normalized => NoNormalWork
  BY <1>1 DEF FInv, NormalOK
<1>5. CASE Layers[loop.layer] = <<>>
  <2>1. /\ pc' = "layer" /\ loop'.layer = loop.layer + 1 /\ loop'.iteration = loop.iteration
        /\ loop'.iterChanged = loop.iterChanged /\ loop'.phaseChanged = FALSE
    BY <1>0, <1>5 DEF EnterLayer, LeaveLayer, Loop
  <2>2. \A l \in DOMAIN Layers : IsBehind(l)' => l < loop.layer \/ l = loop.layer
    BY <1>0, <2>1, LayersAssumption DEF IsBehind, InBatch, Loop
  <2>3. \A l \in DOMAIN Layers : IsBehind(l)' => CleanLayer(l)
    BY <1>1, <1>3, <1>5, <2>2, EmptyLayer
  <2> QED
    BY <1>0, <1>1, <1>2, <1>4, <2>1, <2>3, LoopStepFInv DEF LoopFrame, Normalized, InBatch
<1>6. CASE Layers[loop.layer] # <<>>
  <2>1. pc' = "open" /\ UNCHANGED loop
    <3>1. config.maxPhase # 0
      BY <1>0 DEF Uncapped, Config
    <3> QED
      BY <1>6, <3>1 DEF EnterLayer
  <2>2. \A l \in DOMAIN Layers : IsBehind(l)' => CleanLayer(l)
    BY <1>2, <1>3, <2>1 DEF IsBehind
  <2> QED
    BY <1>0, <1>1, <1>2, <1>4, <2>1, <2>2, LoopStepFInv DEF LoopFrame, Normalized
<1> QED
  BY <1>5, <1>6

LEMMA AfterLayersFInv ==
  ASSUME CInv, KInv, FInv, Uncapped, AfterLayers
  PROVE  FInv'
<1>0. Control /\ loop \in Loop
  BY DEF Control, CInv, TInv, TypeOK
<1>1. /\ pc = "layer" /\ loop.layer > Len(Layers)
      /\ UNCHANGED <<modified, dirty>>
  BY DEF AfterLayers, hostVars
<1>2. ~loop.phaseChanged /\ loop.iteration >= 1
  BY <1>1 DEF KInv, FlagsOK, FInv, StartOK
<1>3. \A l \in DOMAIN Layers : CleanLayer(l)
  BY <1>0, <1>1, BehindIsClean, LayersAssumption DEF IsBehind, Terminal, Loop
<1>4. CASE pc' = "open"
  <2>1. /\ loop'.layer = loop.layer /\ loop'.iteration = loop.iteration /\ loop'.ctx = "first"
    BY <1>0, <1>4 DEF AfterLayers, NormalizeAt, Loop
  <2> QED
    BY <1>0, <1>1, <1>3, <1>4, <2>1, LoopStepFInv DEF LoopFrame
<1>5. CASE pc' # "open"
  <2>1. pc' = "boundary" /\ UNCHANGED loop
        /\ ~(loop.iteration = 1 /\ ~loop.iterChanged /\ Normalize # <<>>)
    BY <1>5 DEF AfterLayers, NormalizeAt, Uncapped
  <2>2. NoNormalWork
    <3>1. loop.iteration > 1 \/ loop.iterChanged \/ Normalize = <<>>
      BY <1>0, <1>2, <2>1 DEF Loop
    <3> QED
      BY <1>1, <3>1, EmptyNormalize DEF FInv, NormalOK, Normalized
  <2> QED
    BY <1>0, <1>1, <1>3, <2>1, <2>2, LoopStepFInv DEF LoopFrame, InBatch
<1> QED
  BY <1>4, <1>5

(* layer_to_fixpoint ends a layer it has cleaned. *)
LEMMA LeaveLayerFInv ==
  ASSUME CInv, FInv, Close, NEW c \in BOOLEAN, LeaveLayer(c),
         \A l \in DOMAIN Layers : l <= loop.layer => CleanLayer(l),
         NoNormalWork \/ ~(loop.iteration > 1 \/ loop.iterChanged \/ c)
  PROVE  FInv'
<1>0. Control /\ loop \in Loop
  BY DEF Control, CInv, TInv, TypeOK
<1>1. /\ pc = "dispatch" /\ pc' = "layer" /\ UNCHANGED <<modified, dirty>>
      /\ loop'.layer = loop.layer + 1 /\ loop'.iteration = loop.iteration
      /\ loop'.iterChanged = (loop.iterChanged \/ c) /\ ~loop'.phaseChanged
  BY <1>0 DEF Close, LeaveLayer, Loop, hostVars
<1>2. \A l \in DOMAIN Layers : IsBehind(l)' => l <= loop.layer
  BY <1>0, <1>1, LayersAssumption DEF IsBehind, InBatch, Loop
<1>3. NoNormalWork \/ ~Normalized'
  BY <1>1 DEF Normalized
<1> QED
  BY <1>0, <1>1, <1>2, <1>3, LoopStepFInv DEF LoopFrame, InBatch

LEMMA NextRoundFInv ==
  ASSUME CInv, FInv, Close, NextRound, NoNormalWork,
         \A l \in DOMAIN Layers : l <= loop.layer => CleanLayer(l)
  PROVE  FInv'
<1>0. Control /\ loop \in Loop
  BY DEF Control, CInv, TInv, TypeOK
<1>1. CASE loop.round < config.maxPhase
  <2>1. /\ pc = "dispatch" /\ pc' = "open" /\ UNCHANGED <<modified, dirty>>
        /\ loop'.layer = loop.layer /\ loop'.iteration = loop.iteration
        /\ loop'.ctx = "layer"
    BY <1>0, <1>1 DEF Close, NextRound, Loop, hostVars
  <2>2. \A l \in DOMAIN Layers : IsBehind(l)' => l <= loop.layer
    BY <1>0, <2>1, LayersAssumption DEF IsBehind, Loop
  <2> QED
    BY <1>0, <2>1, <2>2, LoopStepFInv DEF LoopFrame
<1>2. CASE ~(loop.round < config.maxPhase)
  BY <1>2, LeaveLayerFInv DEF NextRound
<1> QED
  BY <1>1, <1>2

LEMMA NormalizeAtFInv ==
  ASSUME CInv, FInv, Close, NEW c \in {"between", "tail"}, NormalizeAt(c),
         \A l \in DOMAIN Layers : l <= loop.layer => CleanLayer(l)
  PROVE  FInv'
<1>0. Control /\ loop \in Loop
  BY DEF Control, CInv, TInv, TypeOK
<1>1. /\ pc = "dispatch" /\ pc' = "open" /\ UNCHANGED <<modified, dirty>>
      /\ loop'.layer = loop.layer /\ loop'.iteration = loop.iteration
      /\ loop'.ctx = c
  BY <1>0 DEF Close, NormalizeAt, Loop, hostVars
<1>2. \A l \in DOMAIN Layers : IsBehind(l)' => l <= loop.layer
  BY <1>0, <1>1, LayersAssumption DEF IsBehind, Loop
<1> QED
  BY <1>0, <1>1, <1>2, LoopStepFInv DEF LoopFrame

LEMMA CloseFInv ==
  ASSUME CInv, FInv, Uncapped, Close
  PROVE  FInv'
<1>0. Control /\ loop \in Loop /\ config \in Config /\ anyChanged \in BOOLEAN
  BY DEF Control, CInv, TInv, TypeOK
<1>1. /\ pc = "dispatch" /\ todo = <<>> /\ InBatch
      /\ UNCHANGED <<modified, dirty>>
  BY DEF Close, InBatch, hostVars
<1>2. \A l \in DOMAIN Layers :
         l < loop.layer \/ (l = loop.layer /\ loop.ctx \in {"between", "tail"}) => CleanLayer(l)
  BY <1>0, <1>1, BehindIsClean DEF IsBehind, Terminal
<1>3. loop.ctx \in {"layer", "between", "tail"} =>
         \A l \in DOMAIN Layers : l <= loop.layer => CleanLayer(l)
  <2>1. \A l \in DOMAIN Layers : l <= loop.layer => l < loop.layer \/ l = loop.layer
    BY <1>0, LayersAssumption DEF Loop
  <2> QED
    BY <1>2, <2>1, ClosedSets
<1>4. CASE loop.ctx = "layer"
  <2>1. anyChanged \/ NoNormalWork \/ ~Normalized
    BY <1>0, <1>1, <1>4, ControlQuiet DEF FInv, NormalOK
  <2>2. AfterLayerBatch
    BY <1>4 DEF Close
  <2>3. CASE anyChanged /\ Normalize = <<>>
    BY <1>3, <1>4, <2>2, <2>3, EmptyNormalize, NextRoundFInv DEF AfterLayerBatch
  <2>4. CASE \E c \in {"between", "tail"} : NormalizeAt(c)
    BY <1>3, <1>4, <2>4, NormalizeAtFInv
  <2>5. CASE ~anyChanged /\ LeaveLayer(loop.phaseChanged)
    <3>1. loop.phaseChanged \in BOOLEAN
      BY <1>0 DEF Loop
    <3>2. NoNormalWork \/ ~(loop.iteration > 1 \/ loop.iterChanged \/ loop.phaseChanged)
      BY <2>1, <2>5 DEF Normalized
    <3> QED
      BY <1>3, <1>4, <2>5, <3>1, <3>2, LeaveLayerFInv
  <2> QED
    BY <2>2, <2>3, <2>4, <2>5 DEF AfterLayerBatch
<1>5. CASE loop.ctx # "layer" /\ anyChanged
  <2>1. loop.nround < config.maxPhase
    BY <1>1, <1>5 DEF Uncapped
  <2>2. /\ pc' = "open" /\ loop'.layer = loop.layer /\ loop'.ctx = loop.ctx
        /\ loop'.iteration = loop.iteration
    BY <1>0, <1>5, <2>1 DEF Close, AfterNormalizeBatch, Loop
  <2>3. \A l \in DOMAIN Layers : IsBehind(l)' => CleanLayer(l)
    BY <1>2, <2>2 DEF IsBehind
  <2>4. loop.ctx = "first" => loop.layer > Len(Layers)
    BY <1>1 DEF FInv, LayersOK
  <2> QED
    BY <1>0, <1>1, <1>5, <2>2, <2>3, <2>4, LoopStepFInv DEF LoopFrame
<1>6. CASE loop.ctx # "layer" /\ ~anyChanged
  <2>1. NoNormalWork /\ AfterNormalizeBatch
    BY <1>6, ClosedSets DEF Close
  <2>2. CASE loop.ctx = "first"
    <3>1. /\ pc' = "boundary" /\ loop'.layer = loop.layer
          /\ loop'.iteration = loop.iteration
      BY <1>0, <1>6, <2>1, <2>2 DEF AfterNormalizeBatch, Loop
    <3>2. loop.layer > Len(Layers)
      BY <1>1, <2>2 DEF FInv, LayersOK
    <3>3. \A l \in DOMAIN Layers : CleanLayer(l)
      BY <1>0, <1>2, <3>2, LayersAssumption DEF Loop
    <3> QED
      BY <1>0, <1>1, <2>1, <3>1, <3>2, <3>3, LoopStepFInv DEF LoopFrame
  <2>3. CASE loop.ctx = "between"
    BY <1>3, <1>6, <2>1, <2>3, NextRoundFInv DEF AfterNormalizeBatch
  <2>4. CASE loop.ctx = "tail"
    <3>1. LeaveLayer(loop.phaseChanged) /\ loop.phaseChanged \in BOOLEAN
      BY <1>0, <1>6, <2>1, <2>4 DEF AfterNormalizeBatch, Loop
    <3> QED
      BY <1>3, <2>1, <2>4, <3>1, LeaveLayerFInv
  <2> QED
    BY <1>0, <1>6, <2>2, <2>3, <2>4 DEF Loop, Context
<1> QED
  BY <1>0, <1>4, <1>5, <1>6

-----------------------------------------------------------------------------
(* The iteration boundary.  Work is only left on modified methods, and those
   are the next dirty set; if nothing is modified, none is left. *)

LEMMA BoundaryWork ==
  ASSUME CInv, FInv, Control, pc = "boundary"
  PROVE  \A p \in Registered, m \in Targets : HasWork(p, m) => m \in modified
<1>1. NoNormalWork /\ loop.layer > Len(Layers)
  BY DEF FInv, NormalOK, LayersOK
<1>2. \A l \in DOMAIN Layers : IsBehind(l)
  BY <1>1, LayersAssumption DEF IsBehind, CInv, TInv, TypeOK, Loop
<1>3. \A l \in DOMAIN Layers : CleanLayer(l)
  BY <1>2, BehindIsClean DEF Terminal
<1>4. \A p \in Registered : p \in NormalizeSet \/ \E l \in DOMAIN Layers : p \in LayerSet(l)
  BY DEF Registered, NormalizeSet, LayerSet
<1> QED
  BY <1>1, <1>3, <1>4 DEF NoNormalWork, CleanLayer

LEMMA NoWorkNoPending ==
  ASSUME TypeOK, \A p \in Registered, m \in Targets : ~HasWork(p, m)
  PROVE  Pending = {}
<1>1. \A w \in work : w = <<w[1], w[2]>>
  BY DEF TypeOK
<1> QED
  BY <1>1 DEF Pending, HasWork, Targets

LEMMA IterationBoundaryFInv ==
  ASSUME CInv, KInv, FInv, IterationBoundary
  PROVE  FInv'
<1>0. Control /\ TInv' /\ loop \in Loop /\ pc = "boundary"
  BY ControlTInv DEF Control, CInv, TInv, TypeOK, IterationBoundary
<1>1. \A p \in Registered, m \in Targets : HasWork(p, m) => m \in modified
  BY <1>0, BoundaryWork
<1>2. ~loop.iterChanged => modified = {}
  BY <1>0 DEF KInv, FlagsOK, Known, InBatch
<1>3. \A p \in Registered, m \in Targets : HasWork(p, m)' => m \in dirty'
  BY <1>0, <1>1, <1>2, ControlQuiet DEF IterationBoundary, NextDirty
<1>4. /\ pc' \in {"stable", "exhausted", "layer"}
      /\ pc' = "stable" => ~loop.iterChanged
      /\ pc' = "layer" => loop'.layer = 1 /\ loop'.iteration = loop.iteration + 1
      /\ pc' # "layer" => loop' = loop
  BY <1>0 DEF IterationBoundary, NextIteration, Loop
<1>5. pc' = "stable" => Pending' = {}
  <2>1. pc' = "stable" => \A p \in Registered, m \in Targets : ~HasWork(p, m)
    BY <1>1, <1>2, <1>4
  <2>2. pc' = "stable" => Pending = {}
    BY <2>1, NoWorkNoPending DEF CInv, TInv
  <2> QED
    BY <1>0, <2>2, ControlQuiet DEF Pending
<1>6. WorkOK' /\ StartOK' /\ GlobalOK' /\ DirtyOK'
  BY <1>0, <1>3, <1>4, ControlQuiet DEF FInv, StartOK, GlobalOK, DirtyOK, Loop
<1>7. OrdersOK' /\ BatchOK' /\ CurrentOK'
  BY <1>4 DEF OrdersOK, BatchOK, CurrentOK, BatchRuns
<1>8. NormalOK'
  BY <1>0, <1>4, ControlQuiet DEF FInv, NormalOK, InBatch
<1>9. LayersOK'
  <2>1. pc' = "layer" => \A l \in DOMAIN Layers : ~IsBehind(l)'
    BY <1>4, LayersAssumption DEF IsBehind, InBatch
  <2> QED
    BY <1>4, <2>1 DEF LayersOK, Running, InBatch, Terminal
<1> QED
  BY <1>5, <1>6, <1>7, <1>8, <1>9 DEF FInv

LEMMA ControlFInv ==
  ASSUME CInv, KInv, FInv, Uncapped, Control
  PROVE  FInv'
<1>1. CASE Start \/ Open \/ RunGlobals \/ Dispatch \/ IterationBoundary
  BY <1>1, StartFInv, OpenFInv, RunGlobalsFInv, DispatchFInv, IterationBoundaryFInv
<1>2. CASE EnterLayer \/ AfterLayers \/ Close
  BY <1>2, EnterLayerFInv, AfterLayersFInv, CloseFInv
<1>3. CASE PassOver \/ Join \/ HookFails
  BY <1>3, TailFInv, FailFInv
<1> QED
  BY <1>1, <1>2, <1>3 DEF Control

LEMMA StutterFInv == FInv /\ UNCHANGED vars => FInv'
<1> SUFFICES ASSUME FInv, UNCHANGED vars PROVE FInv'
  OBVIOUS
<1>1. /\ UNCHANGED <<config, dirty, work, pc, loop, modified, todo, orders, anyChanged, job>>
  BY DEF vars, hostVars, envVars, batchVars, jobVars
<1>2. StartOK' /\ GlobalOK' /\ WorkOK'
  BY <1>1 DEF FInv, StartOK, GlobalOK, WorkOK, Batch
<1>3. DirtyOK' /\ OrdersOK' /\ CurrentOK'
  BY <1>1 DEF FInv, DirtyOK, OrdersOK, CurrentOK, Running, BatchRuns, HasWork, Settled, Touched,
     Stirred, ChangeInHand, Current
<1>4. BatchOK'
  BY <1>1 DEF FInv, BatchOK, BatchRuns, BatchSet, Batch, HasWork, Settled, Touched, Stirred,
     ChangeInHand
<1>5. LayersOK' /\ NormalOK'
  BY <1>1 DEF FInv, LayersOK, NormalOK, Running, IsBehind, InBatch, Touched, ChangeInHand,
     HasWork, NoNormalWork, Normalized, Stirred
<1>6. pc' = "stable" => Pending' = {}
  BY <1>1 DEF FInv, Pending
<1> QED
  BY <1>2, <1>3, <1>4, <1>5, <1>6 DEF FInv

(* Passes keep their contract, and change only the method they run on. *)
Contract == Faulty = {} /\ Discovers = {}

LEMMA NextFInv ==
  CInv /\ KInv /\ SInv /\ Uncapped /\ (Contract => FInv) /\ [Next]_vars => (Contract => FInv)'
<1> SUFFICES ASSUME CInv, KInv, SInv, Uncapped, Contract, FInv, [Next]_vars PROVE FInv'
  BY DEF Contract
<1>1. CASE UNCHANGED vars
  BY <1>1, StutterFInv
<1>2. CASE Control
  BY <1>2, ControlFInv
<1>3. CASE \E m \in Method : Work(m)
  BY <1>3, WorkFInv DEF Contract
<1> QED
  BY <1>1, <1>2, <1>3 DEF Next, Step, Returned

LEMMA KInvInvariant == Spec => []KInv
  BY InitKInv, NextKInv, TInvInvariant, PTL DEF Spec

LEMMA FInvInvariant == Spec /\ []Uncapped => [](Contract => FInv)
<1>1. Init => (Contract => FInv)
  BY InitFInv
<1> QED
  BY <1>1, NextFInv, CInvInvariant, VSInvInvariant, KInvInvariant, PTL DEF Spec

(* If passes keep their contract and change only the method they run on, and no
   normalization is cut off by the cap on its rounds, then every method a pass
   has work on is dirty when an iteration begins: run_pipeline's boundary
   clears no mark that is still needed.  A layer may be cut off. *)
THEOREM NoWorkForgotten == Spec /\ []Uncapped => [](Contract => WorkIsDirty)
<1>1. CInv /\ (Contract => FInv) => (Contract => WorkIsDirty)
  <2> SUFFICES ASSUME CInv, FInv, pc = "layer", NEW w \in Pending PROVE w[2] \in dirty
    BY DEF WorkIsDirty
  <2>1. w = <<w[1], w[2]>>
    BY DEF Pending, CInv, TInv, TypeOK
  <2> QED
    BY <2>1 DEF FInv, DirtyOK, Running, Terminal, Pending, HasWork, Targets
<1> QED
  BY <1>1, FInvInvariant, CInvInvariant, PTL

(* Under the same conditions, and for any stable_iterations, a pipeline that
   stops because it is stable is at the global fixpoint: no registered pass
   would change any method. *)
THEOREM StableIsGlobalFixpoint == Spec /\ []Uncapped => [](Contract => StableIsFixpoint)
<1>1. (Contract => FInv) => (Contract => StableIsFixpoint)
  BY DEF FInv, StableIsFixpoint
<1> QED
  BY <1>1, FInvInvariant, PTL
=============================================================================
