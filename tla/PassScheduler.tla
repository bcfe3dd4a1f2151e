---------------------------- MODULE PassScheduler ----------------------------
(***************************************************************************)
(* The pass pipeline of scheduling/scheduler.rs: `run_pipeline` and the    *)
(* loops under it, `run_single_pass`'s parallel section over the methods,  *)
(* and the host state they share (`SsaStore`, `DirtySet`, `World`).        *)
(*                                                                         *)
(* A body is abstracted to a revision and a form.  What a pass computes is *)
(* abstracted to `work`, the (pass, method) pairs on which the pass would  *)
(* still report a change: a pass that runs on a method it has work on      *)
(* consumes that pair, and may expose another one.  A rival of the pass     *)
(* always may take the change back, so that rivals alone never come to rest;*)
(* MaxSurprises bounds how often, over the whole run, any other change      *)
(* exposes new work or a pass misbehaves.                                   *)
(***************************************************************************)
EXTENDS Integers, Sequences, FiniteSets

LOCAL Sets == INSTANCE FiniteSetsExt

CONSTANTS
    Method,     \* methods the host knows
    Hosted,     \* those of them the store has a body for
    Pass,       \* registered passes
    Meta,       \* pass -> what its SsaPass implementation declares
    Layers,     \* run_pipeline's layer_indices: non-empty layers, ascending
    Normalize,  \* normalization passes, in registration order
    Listed,     \* methods World::methods_reverse_topological returns
    Unreachable,\* methods dead-method elimination finds no caller for
    Configs,    \* PipelineConfig values the run may be started with
    Faulty,     \* passes that may fail, panic, or leave invalid SSA
    Fragile,    \* passes whose initialize, run_global or finalize may fail
    Discovers,  \* passes that may mark another method dirty
    Rivals,     \* pairs of passes, the second of which undoes the first
    MaxSurprises\* bound: how often a change exposes work or a pass misbehaves

ScopeKind == {"UsesOnly", "InstructionsOnly", "CfgModifying"}

PassMeta == [global: BOOLEAN, scope: ScopeKind, repairs: BOOLEAN,
             readsPeer: BOOLEAN, fullScan: BOOLEAN, skips: SUBSET Method]

Config == [maxIterations: Nat, stableIterations: Nat, maxPhase: Nat,
           verifyHard: BOOLEAN, acyclic: BOOLEAN]

ASSUME MetaAssumption == Meta \in [Pass -> PassMeta]
ASSUME LayersAssumption ==
    /\ Layers \in Seq(Seq(Pass))
    /\ Normalize \in Seq(Pass)
ASSUME HostAssumption ==
    /\ Hosted \subseteq Method
    /\ Listed \subseteq Method
    /\ Unreachable \subseteq Method
ASSUME ConfigAssumption == Configs \subseteq Config
ASSUME EnvironmentAssumption ==
    /\ Faulty \subseteq Pass
    /\ Fragile \subseteq Pass
    /\ Discovers \subseteq Pass
    /\ Rivals \subseteq Pass \X Pass
    /\ MaxSurprises \in Nat

(***************************************************************************)
(* Bodies.  "ssa" is valid SSA; "insts" is what instruction edits leave    *)
(* before repair_ssa, "cfg" what control-flow edits leave before           *)
(* rebuild_ssa, "broken" what neither can mend.                            *)
(***************************************************************************)
Form == {"ssa", "insts", "cfg", "broken", "absent"}
Body == [rev: Nat, form: Form]
NoBody == [rev |-> 0, form |-> "absent"]
Fresh == [rev |-> 0, form |-> "ssa"]

Repaired(body) ==
    IF body.form = "insts" THEN [body EXCEPT !.form = "ssa"] ELSE body

Rebuilt(body) ==
    IF body.form \in {"insts", "cfg"} THEN [body EXCEPT !.form = "ssa"] ELSE body

RebuildFails(body) == body.form = "broken"

VerifierAccepts(body) == body.form = "ssa"

(* The form an honest change leaves: passes that repair their own SSA and
   passes that only replace uses leave valid SSA. *)
Damage(p) ==
    IF Meta[p].repairs THEN "ssa"
    ELSE CASE Meta[p].scope = "UsesOnly" -> "ssa"
           [] Meta[p].scope = "InstructionsOnly" -> "insts"
           [] Meta[p].scope = "CfgModifying" -> "cfg"

VARIABLES
    config,     \* the PipelineConfig of this run
    store,      \* SsaStore: method -> body, NoBody where the slot is empty
    dirty,      \* DirtySet, dirty part
    processed,  \* DirtySet, processed part
    dead,       \* World: methods marked dead
    work,       \* pass contract: pairs on which a change is still to come
    surprises,  \* how many surprises there have been so far
    pc,         \* where run_pipeline is
    loop,       \* the counters and flags of the nested loops
    modified,   \* run_pipeline's iteration_modified
    todo,       \* passes of the batch still to dispatch
    orders,     \* method_orders, computed once per batch
    anyChanged, \* the batch's any_changed
    job,        \* one worker per method: stage, body in hand, outcome
    errors      \* methods whose worker pushed an error in this dispatch

hostVars == <<store, dirty, processed, dead>>
envVars == <<work, surprises>>
jobVars == <<job, errors>>
batchVars == <<todo, orders, anyChanged>>
vars == <<config, hostVars, envVars, pc, loop, modified, batchVars, jobVars>>

Stage == {"idle", "ready", "taken", "ran"}
Outcome == {"none", "unchanged", "changed", "failed"}
Job == [at: Stage, body: Body, before: Body, outcome: Outcome]
IdleJob == [at |-> "idle", body |-> NoBody, before |-> NoBody, outcome |-> "none"]

(* Where a batch is called from: a layer's round, normalization between two
   rounds, after a layer's last round, or first thing after the layers. *)
Context == {"layer", "between", "tail", "first"}

(* iteration, stable_count, the layer's index and rounds; phase_changed,
   normalize_to_fixpoint's any_changed, iteration_changed. *)
Loop == [iteration: Nat, stable: Nat, layer: Nat \ {0}, round: Nat, nround: Nat,
         ctx: Context, phaseChanged: BOOLEAN, normChanged: BOOLEAN,
         iterChanged: BOOLEAN]

Terminal == {"stable", "exhausted", "failed"}
PC == {"start", "layer", "open", "global", "dispatch", "run", "boundary"}
      \cup Terminal

Current == Head(todo)
IsLocal(p) == ~Meta[p].global
Batch == IF loop.ctx = "layer" THEN Layers[loop.layer] ELSE Normalize
BatchSet == {Batch[i] : i \in DOMAIN Batch}
Present == {m \in Method : store[m] # NoBody}

-----------------------------------------------------------------------------
Init ==
    /\ config \in Configs
    /\ store = [m \in Method |-> IF m \in Hosted THEN Fresh ELSE NoBody]
    /\ dirty = {} /\ processed = {} /\ dead = {}
    /\ work \in SUBSET {w \in Pass \X Hosted :
                           IsLocal(w[1]) /\ w[2] \notin Meta[w[1]].skips}
    /\ surprises = 0
    /\ pc = "start"
    /\ loop = [iteration |-> 1, stable |-> 0, layer |-> 1, round |-> 1, nround |-> 1,
               ctx |-> "layer", phaseChanged |-> FALSE, normChanged |-> FALSE,
               iterChanged |-> FALSE]
    /\ modified = {}
    /\ todo = <<>> /\ anyChanged = FALSE
    /\ orders = [all |-> {}, dirty |-> {}]
    /\ job = [m \in Method |-> IdleJob]
    /\ errors = {}

(* run_pipeline seeds the dirty set before it computes the layers, so a
   capability cycle is reported with the marks already made. *)
Start ==
    /\ pc = "start"
    /\ dirty' = dirty \cup Present
    /\ pc' = IF ~config.acyclic THEN "failed"
             ELSE IF config.maxIterations = 0 THEN "exhausted" ELSE "layer"
    /\ UNCHANGED <<config, store, processed, dead, envVars, loop, modified,
                   batchVars, jobVars>>

-----------------------------------------------------------------------------
(* The loops: which batch of passes comes next.  Each operator gives pc' and
   loop'. *)

(* Mutant of LeaveLayer: the last layer's result overwrites the others'. *)
LeaveLayerForgetful(changed) ==
    /\ pc' = "layer"
    /\ loop' = [loop EXCEPT !.layer = @ + 1, !.iterChanged = changed,
                  !.phaseChanged = FALSE, !.ctx = "layer", !.round = 1]

(* layer_to_fixpoint returns to run_pipeline's loop over the layers. *)
LeaveLayer(changed) ==
    /\ pc' = "layer"
    /\ loop' = [loop EXCEPT !.layer = @ + 1, !.iterChanged = @ \/ changed,
                  !.phaseChanged = FALSE, !.ctx = "layer", !.round = 1]

(* normalize_to_fixpoint starts at call site c. *)
NormalizeAt(c) ==
    /\ pc' = "open"
    /\ loop' = [loop EXCEPT !.ctx = c, !.nround = 1, !.normChanged = FALSE,
                  !.phaseChanged = (@ \/ c = "between")]

(* Mutant of NextRound: rounds are repeated until one changes nothing. *)
NextRoundUncapped ==
    /\ pc' = "open"
    /\ loop' = [loop EXCEPT !.ctx = "layer", !.round = @ + 1, !.phaseChanged = TRUE]

(* A round of layer_to_fixpoint that changed something is over. *)
NextRound ==
    IF loop.round < config.maxPhase
    THEN /\ pc' = "open"
         /\ loop' = [loop EXCEPT !.ctx = "layer", !.round = @ + 1,
                                 !.phaseChanged = TRUE]
    ELSE LeaveLayer(TRUE)

(* What layer_to_fixpoint does with pass_changed. *)
AfterLayerBatch ==
    IF anyChanged
    THEN IF Normalize = <<>> THEN NextRound ELSE NormalizeAt("between")
    ELSE IF loop.phaseChanged /\ Normalize # <<>> THEN NormalizeAt("tail")
    ELSE LeaveLayer(loop.phaseChanged)

(* What normalize_to_fixpoint, and then its caller, do with changed. *)
AfterNormalizeBatch ==
    IF anyChanged /\ loop.nround < config.maxPhase
    THEN /\ pc' = "open"
         /\ loop' = [loop EXCEPT !.nround = @ + 1, !.normChanged = TRUE]
    ELSE CASE loop.ctx = "first" ->
                /\ pc' = "boundary"
                /\ loop' = [loop EXCEPT !.iterChanged = loop.normChanged \/ anyChanged]
           [] loop.ctx = "between" -> NextRound
           [] OTHER -> LeaveLayer(loop.phaseChanged)

EnterLayer ==
    /\ pc = "layer" /\ loop.layer <= Len(Layers)
    /\ IF config.maxPhase = 0 \/ Layers[loop.layer] = <<>>
       THEN LeaveLayer(FALSE)
       ELSE pc' = "open" /\ UNCHANGED loop
    /\ UNCHANGED <<config, hostVars, envVars, modified, batchVars, jobVars>>

(* Mutant of AfterLayers: no normalization of its own on the first iteration. *)
AfterLayersBare ==
    /\ pc = "layer" /\ loop.layer > Len(Layers)
    /\ pc' = "boundary"
    /\ UNCHANGED <<config, hostVars, envVars, loop, modified, batchVars, jobVars>>

(* After the last layer; on the first iteration normalization runs once even
   if no layer changed anything. *)
AfterLayers ==
    /\ pc = "layer" /\ loop.layer > Len(Layers)
    /\ IF /\ loop.iteration = 1 /\ ~loop.iterChanged
          /\ Normalize # <<>> /\ config.maxPhase > 0
       THEN NormalizeAt("first")
       ELSE pc' = "boundary" /\ UNCHANGED loop
    /\ UNCHANGED <<config, hostVars, envVars, modified, batchVars, jobVars>>

-----------------------------------------------------------------------------
(* One batch: run_layer_passes_once and run_passes_once. *)

(* initialize every pass, then compute both method orders once. *)
Open ==
    /\ pc = "open"
    /\ pc' = "global"
    /\ LET all == IF Listed = {} THEN Present ELSE Listed \cap Present
       IN  orders' = [all |-> all, dirty |-> all \cap dirty]
    /\ todo' = Batch /\ anyChanged' = FALSE
    /\ UNCHANGED <<config, hostVars, envVars, loop, modified, jobVars>>

(* The batch's global passes run first: dead-method elimination marks what no
   entry point reaches and reports a change if a mark is new. *)
RunGlobals ==
    /\ pc = "global"
    /\ pc' = "dispatch"
    /\ IF \E p \in BatchSet : ~IsLocal(p)
       THEN /\ dead' = dead \cup Unreachable
            /\ anyChanged' = (dead' # dead)
       ELSE UNCHANGED <<dead, anyChanged>>
    /\ UNCHANGED <<config, store, dirty, processed, envVars, loop, modified,
                   todo, orders, jobVars>>

(* The loop over the per-method passes: global ones are passed over. *)
PassOver ==
    /\ pc = "dispatch" /\ todo # <<>> /\ ~IsLocal(Current)
    /\ todo' = Tail(todo)
    /\ UNCHANGED <<config, hostVars, envVars, pc, loop, modified, orders, anyChanged,
                   jobVars>>

Dispatch ==
    /\ pc = "dispatch" /\ todo # <<>> /\ IsLocal(Current)
    /\ pc' = "run"
    /\ LET methods == IF Meta[Current].fullScan THEN orders.all ELSE orders.dirty
       IN  job' = [m \in Method |-> IF m \in methods
                                    THEN [IdleJob EXCEPT !.at = "ready"] ELSE IdleJob]
    /\ errors' = {}
    /\ UNCHANGED <<config, hostVars, envVars, loop, modified, batchVars>>

AllIdle == \A m \in Method : job[m].at = "idle"

(* Mutant of Join: errors are collected and not looked at. *)
JoinDeaf ==
    /\ pc = "run" /\ AllIdle
    /\ pc' = "dispatch" /\ todo' = Tail(todo)
    /\ UNCHANGED <<config, hostVars, envVars, loop, modified, orders, anyChanged, jobVars>>

(* The join of the parallel section: the first error ends the pipeline, and no
   pass of the batch is finalized. *)
Join ==
    /\ pc = "run" /\ AllIdle
    /\ IF errors # {}
       THEN pc' = "failed" /\ UNCHANGED todo
       ELSE pc' = "dispatch" /\ todo' = Tail(todo)
    /\ UNCHANGED <<config, hostVars, envVars, loop, modified, orders, anyChanged, jobVars>>

(* finalize every pass, then the caller decides on any_changed. *)
Close ==
    /\ pc = "dispatch" /\ todo = <<>>
    /\ IF loop.ctx = "layer" THEN AfterLayerBatch ELSE AfterNormalizeBatch
    /\ UNCHANGED <<config, hostVars, envVars, modified, batchVars, jobVars>>

(* initialize, run_global or finalize returns Err: the pipeline ends at once. *)
HookFails ==
    /\ pc \in {"open", "global"} \/ (pc = "dispatch" /\ todo = <<>>)
    /\ \E p \in BatchSet \cap Fragile : pc = "global" => ~IsLocal(p)
    /\ pc' = "failed"
    /\ UNCHANGED <<config, hostVars, envVars, loop, modified, batchVars, jobVars>>

-----------------------------------------------------------------------------
(* One method's closure in run_single_pass's parallel section.  None of these
   actions touches the variables of the sequential part. *)
seqVars == <<config, dead, pc, loop, todo, orders>>

Skip(m) ==
    /\ pc = "run" /\ job[m].at = "ready"
    /\ m \in Meta[Current].skips \/ store[m] = NoBody
    /\ job' = [job EXCEPT ![m] = IdleJob]
    /\ UNCHANGED <<seqVars, store, dirty, processed, envVars, errors, anyChanged, modified>>

(* clone_ssa for a pass that reads its peers, take_ssa for the others.
   `before` is `original` where the configuration keeps one, and otherwise
   only records what the pass was given. *)
Take(m) ==
    /\ pc = "run" /\ job[m].at = "ready"
    /\ m \notin Meta[Current].skips /\ store[m] # NoBody
    /\ job' = [job EXCEPT ![m].at = "taken", ![m].body = store[m], ![m].before = store[m]]
    /\ store' = IF Meta[Current].readsPeer THEN store
                ELSE [store EXCEPT ![m] = NoBody]
    /\ UNCHANGED <<seqVars, dirty, processed, envVars, errors, anyChanged, modified>>

(* run_on_method returns. *)
Ran(m, body, outcome) ==
    /\ job' = [job EXCEPT ![m].at = "ran", ![m].body = body, ![m].outcome = outcome]
    /\ UNCHANGED <<seqVars, store, processed, errors, anyChanged, modified>>

Edited(body, form) == [rev |-> body.rev + 1, form |-> form]
Damaged == {"ssa", "insts", "cfg", "broken"}

(* It found nothing to do. *)
RunUnchanged(m) ==
    /\ pc = "run" /\ job[m].at = "taken"
    /\ <<Current, m>> \notin work
    /\ Ran(m, job[m].body, "unchanged")
    /\ UNCHANGED <<dirty, envVars>>

(* It rewrote the method; the change may expose work for a pass on the same
   method, or on another one, which it then marks dirty. *)
RunChanged(m) ==
    /\ pc = "run" /\ job[m].at = "taken"
    /\ <<Current, m>> \in work
    /\ Ran(m, Edited(job[m].body, Damage(Current)), "changed")
    /\ \/ /\ work' = work \ {<<Current, m>>}
          /\ UNCHANGED <<surprises, dirty>>
       \/ \E q \in Pass :
             /\ <<Current, q>> \in Rivals
             /\ IsLocal(q) /\ m \notin Meta[q].skips
             /\ work' = (work \ {<<Current, m>>}) \cup {<<q, m>>}
             /\ UNCHANGED <<surprises, dirty>>
       \/ \E q \in Pass, n \in IF Current \in Discovers THEN orders.all ELSE {m} :
             /\ surprises < MaxSurprises
             /\ IsLocal(q) /\ n \notin Meta[q].skips
             /\ work' = (work \ {<<Current, m>>}) \cup {<<q, n>>}
             /\ surprises' = surprises + 1
             /\ dirty' = IF n = m THEN dirty ELSE dirty \cup {n}

(* It left the body in any state - untouched, validly rewritten, in want of a
   repair or beyond it - and whatever it did, it returned Err or panicked, or
   returned Ok and claimed a change, or none. *)
RunFaulty(m) ==
    /\ pc = "run" /\ job[m].at = "taken"
    /\ Current \in Faulty
    /\ surprises < MaxSurprises /\ surprises' = surprises + 1
    /\ \E body \in {job[m].body} \cup {Edited(job[m].body, f) : f \in Damaged},
          outcome \in {"unchanged", "changed", "failed"} :
             Ran(m, body, outcome)
    /\ UNCHANGED <<dirty, work>>

(* The worker inserts a body and is done. *)
Insert(m, body) ==
    /\ store' = [store EXCEPT ![m] = body]
    /\ job' = [job EXCEPT ![m] = IdleJob]
    /\ UNCHANGED <<seqVars, dirty, envVars>>

(* Mutant of PutBack: the error is pushed and the body is not inserted. *)
PutBackLost(m, body) ==
    /\ job' = [job EXCEPT ![m] = IdleJob]
    /\ errors' = errors \cup {m}
    /\ UNCHANGED <<seqVars, store, dirty, envVars, processed, anyChanged, modified>>

(* Mutant of PutBack: what the pass left is inserted, not the original. *)
PutBackPartial(m, body) ==
    /\ Insert(m, body)
    /\ errors' = errors \cup {m}
    /\ UNCHANGED <<processed, anyChanged, modified>>

(* The method failed: the original is inserted if one was kept. *)
PutBack(m, body) ==
    /\ Insert(m, IF config.verifyHard THEN job[m].before ELSE body)
    /\ errors' = errors \cup {m}
    /\ UNCHANGED <<processed, anyChanged, modified>>

NeedsRepair(m) == job[m].outcome = "changed" /\ ~Meta[Current].repairs

(* Mutant of NeedsRebuild: every scope gets the light repair. *)
NeverRebuild(m) == FALSE

NeedsRebuild(m) == NeedsRepair(m) /\ Meta[Current].scope = "CfgModifying"

(* The body as the scheduler's own repair leaves it. *)
Boundary(m) ==
    IF NeedsRebuild(m) THEN Rebuilt(job[m].body)
    ELSE IF NeedsRepair(m) THEN Repaired(job[m].body)
    ELSE job[m].body

(* The pass failed or panicked, or what it left cannot be rebuilt. *)
Failed(m) ==
    \/ job[m].outcome = "failed"
    \/ NeedsRebuild(m) /\ RebuildFails(job[m].body)

Rejected(m) == config.verifyHard /\ ~VerifierAccepts(Boundary(m))

FinishFailed(m) ==
    /\ pc = "run" /\ job[m].at = "ran"
    /\ Failed(m)
    /\ PutBack(m, job[m].body)

FinishRejected(m) ==
    /\ pc = "run" /\ job[m].at = "ran"
    /\ ~Failed(m) /\ Rejected(m)
    /\ PutBack(m, Boundary(m))

(* Mutant of FinishKept: every method the pass ran on is marked processed. *)
FinishKeptAll(m) ==
    /\ pc = "run" /\ job[m].at = "ran"
    /\ ~Failed(m) /\ ~Rejected(m)
    /\ Insert(m, Boundary(m))
    /\ processed' = processed \cup {m}
    /\ IF job[m].outcome = "changed"
       THEN anyChanged' = TRUE /\ modified' = modified \cup {m}
       ELSE UNCHANGED <<anyChanged, modified>>
    /\ UNCHANGED errors

(* insert_ssa, and for a change any_changed, mark_processed and
   iteration_modified.  Nothing reads those three before the join, so the
   insertion and the marks are one step. *)
FinishKept(m) ==
    /\ pc = "run" /\ job[m].at = "ran"
    /\ ~Failed(m) /\ ~Rejected(m)
    /\ Insert(m, Boundary(m))
    /\ IF job[m].outcome = "changed"
       THEN /\ anyChanged' = TRUE
            /\ processed' = processed \cup {m}
            /\ modified' = modified \cup {m}
       ELSE UNCHANGED <<anyChanged, processed, modified>>
    /\ UNCHANGED errors

-----------------------------------------------------------------------------
(* The iteration boundary: dirty tracking, stability, the iteration cap. *)

(* Mutant of NextDirty: the membership test is inverted. *)
NextDirtyInverted == IF loop.iterChanged THEN dirty \ modified ELSE {}

(* Methods not modified in this iteration are cleared, modified ones marked. *)
NextDirty == IF loop.iterChanged THEN (dirty \cap modified) \cup modified ELSE {}

(* Mutant of NextIteration: the index of the first layer is off by one. *)
NextIterationZero(stable) ==
    /\ loop' = [loop EXCEPT !.iteration = @ + 1, !.stable = stable, !.layer = 0,
                            !.iterChanged = FALSE, !.ctx = "layer"]
    /\ modified' = {}

NextIteration(stable) ==
    /\ loop' = [loop EXCEPT !.iteration = @ + 1, !.stable = stable, !.layer = 1,
                            !.iterChanged = FALSE, !.ctx = "layer"]
    /\ modified' = {}

IterationBoundary ==
    /\ pc = "boundary"
    /\ dirty' = NextDirty
    /\ LET stable == IF loop.iterChanged THEN 0 ELSE loop.stable + 1
           isStable == ~loop.iterChanged /\ stable >= config.stableIterations
           isLast == loop.iteration >= config.maxIterations
       IN  /\ pc' = IF isStable THEN "stable" ELSE IF isLast THEN "exhausted" ELSE "layer"
           /\ IF isStable \/ isLast THEN UNCHANGED <<loop, modified>>
              ELSE NextIteration(stable)
    /\ UNCHANGED <<config, store, processed, dead, envVars, batchVars, jobVars>>

Work(m) ==
    \/ Skip(m) \/ Take(m)
    \/ RunUnchanged(m) \/ RunChanged(m) \/ RunFaulty(m)
    \/ FinishFailed(m) \/ FinishRejected(m) \/ FinishKept(m)

Control ==
    \/ Start \/ EnterLayer \/ AfterLayers
    \/ Open \/ RunGlobals \/ PassOver \/ Dispatch \/ Join \/ Close \/ HookFails
    \/ IterationBoundary

Step == Control \/ \E m \in Method : Work(m)

(* The pipeline has returned. *)
Returned == pc \in Terminal /\ UNCHANGED vars

Next == Step \/ Returned

Spec == Init /\ [][Next]_vars

(* The threads of the pool run, and every pass returns. *)
FairSpec == Spec /\ WF_vars(Step)

-----------------------------------------------------------------------------
(* Properties. *)

TypeOK ==
    /\ config \in Config
    /\ store \in [Method -> Body]
    /\ dirty \subseteq Method /\ processed \subseteq Method /\ dead \subseteq Method
    /\ work \subseteq Pass \X Method /\ surprises \in Nat
    /\ pc \in PC /\ loop \in Loop /\ modified \subseteq Method
    /\ todo \in Seq(Pass) /\ anyChanged \in BOOLEAN
    /\ orders \in [all: SUBSET Method, dirty: SUBSET Method]
    /\ job \in [Method -> Job]
    /\ errors \subseteq Method

InHand(m) == job[m].at \in {"taken", "ran"}

(* No method loses its body: the slot of a hosted method is empty exactly while
   a worker owns its body, and never while a pass that reads its peers runs.
   run_single_pass: every path from take_ssa reaches an insert_ssa. *)
BodiesKept ==
    \A m \in Hosted :
        store[m] = NoBody <=> InHand(m) /\ ~Meta[Current].readsPeer

(* Under verify_hard nothing but valid SSA is ever visible in the store,
   whatever a pass did, returned or left behind when it panicked. *)
OnlyVerifiedVisible ==
    config.verifyHard =>
        \A m \in Hosted : store[m] # NoBody => VerifierAccepts(store[m])

(* If passes keep their contract, the repair chosen from the declared scope is
   enough: valid SSA reaches the store without verify_hard too. *)
ScopedRepairSuffices ==
    Faulty = {} =>
        \A m \in Hosted : store[m] # NoBody => VerifierAccepts(store[m])

(* The processed set a host regenerates code from is exactly the set of methods
   whose stored body differs from the one the pipeline was given. *)
ProcessedIsChanged ==
    Faulty = {} =>
        \A m \in Hosted : store[m] # NoBody => (store[m].rev > 0 <=> m \in processed)

(* A change made anywhere in an iteration - in a layer, in normalization between
   or after its rounds, in the first normalization - is known to run_pipeline
   at the boundary, which otherwise drops the dirty marks of the methods. *)
ChangeReachesBoundary ==
    pc = "boundary" /\ modified # {} => loop.iterChanged

Registered == {p \in Pass :
    \/ \E i \in DOMAIN Normalize : Normalize[i] = p
    \/ \E l \in DOMAIN Layers : \E i \in DOMAIN Layers[l] : Layers[l][i] = p}

Pending == {w \in work : w[1] \in Registered /\ w[2] \in Hosted \cap Listed}

(* When an iteration begins, every method on which a pass has work left is
   dirty: no work can be forgotten between two iterations. *)
WorkIsDirty ==
    pc = "layer" /\ loop.layer = 1 => \A w \in Pending : w[2] \in dirty

(* "The entire pipeline repeats until global fixpoint": when it stops because it
   is stable, no registered pass would change any method. *)
StableIsFixpoint == pc = "stable" => Pending = {}

(* The comment in run_single_pass: a method whose pass panicked or failed is
   stored again as it was before the pass. *)
FailedMethodRestored ==
    [][\A m \in errors' \ errors :
          job[m].outcome = "failed" => store'[m] = job[m].before]_vars

(* How often the passes of a batch run on m. *)
Runs(m, batch) ==
    Cardinality({i \in DOMAIN batch : IsLocal(batch[i]) /\ m \notin Meta[batch[i]].skips})

(* How often passes can run on m at all: each of a layer's rounds is followed by
   one normalization.  Only a pipeline without layers adds the first one. *)
MostRuns(m) ==
    LET normalization == config.maxPhase * Runs(m, Normalize)
        rounds(l) == config.maxPhase * (Runs(m, Layers[l]) + normalization)
    IN  IF Layers = <<>> THEN normalization
        ELSE config.maxIterations * Sets!MapThenSumSet(rounds, DOMAIN Layers)

(* However passes undo each other's changes or find their own again, the nested
   caps on iterations, rounds and normalization bound how often a method is
   rewritten: run_pipeline comes to an end where stability never would. *)
RewritesBounded ==
    \A m \in Hosted :
        store[m].rev <= MostRuns(m) /\ job[m].body.rev <= MostRuns(m)

(* The pipeline as atomic rewrites: a body in a worker's hands still counts as
   the body the worker was given. *)
Atomic == INSTANCE AtomicPasses WITH
    Valid <- VerifierAccepts,
    bodies <- [m \in Hosted |-> IF InHand(m) THEN job[m].before ELSE store[m]],
    rewritten <- processed,
    rejected <- errors,
    outcome <- CASE pc \in {"stable", "exhausted"} -> "ok"
                 [] pc = "failed" -> "error"
                 [] OTHER -> "running",
    strict <- config.verifyHard

AtomicSpec == Atomic!ASpec
=============================================================================
