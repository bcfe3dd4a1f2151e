--------------------------- MODULE PassTransaction ---------------------------
(***************************************************************************)
(* Transactional pass execution: src/scheduling/transaction.rs on top of   *)
(* the checked edit sessions of src/ir/function/editor.rs.                 *)
(*                                                                         *)
(* A worker owns one PassTransaction, whose snapshot buffer it reuses for  *)
(* every function.  It runs a group of passes on a function under one      *)
(* snapshot; when the group is rolled back it runs the passes again one at *)
(* a time (run_one), each under a snapshot of its own.  A pass changes the *)
(* function through edit sessions (SsaFunction::edit): a closure edits,    *)
(* the boundary repairs, an optional verifier judges, and a failure either *)
(* restores the function or, under SsaRollbackPolicy::Never, leaves it.    *)
(*                                                                         *)
(* The IR is abstracted to what the outcome of a group depends on: whose   *)
(* rewrites it holds, which classes of SSA damage it has, and the          *)
(* edit_dirty flag.                                                        *)
(***************************************************************************)
EXTENDS Naturals, Sequences, FiniteSets

CONSTANTS
    Fun,        \* the functions the worker processes
    Pass,       \* the passes of the group
    Order,      \* the order in which the group runs them
    Profile,    \* how each pass opens its sessions and reports on them
    Culprits,   \* passes that may damage the IR, fail or panic
    Abandons,   \* culprits whose edit closure may return Err after an edit
    Wound,      \* the classes of damage that occur
    GroupLevel  \* post_group_verify_level(): Quick in release, Standard else

Levels == [Quick |-> 1, Standard |-> 2, Full |-> 3]
Scopes == [None |-> 0, UsesOnly |-> 1, InstructionsOnly |-> 2,
           CfgModifying |-> 3]

(***************************************************************************)
(* Each class of damage: the cheapest verifier level that reports it, and  *)
(* the cheapest edit scope whose boundary repairs it (4: no boundary).     *)
(*   future_use  a use above its definition in the block                   *)
(*   phi         a phi operand missing for a predecessor                   *)
(*   dominance   a use its definition does not dominate                    *)
(*   structure   a terminator that is not last in its block                *)
(*   clause      an exception clause that names no block                   *)
(***************************************************************************)
SeenAt == [future_use |-> 1, phi |-> 2, dominance |-> 3, structure |-> 1,
           clause |-> 1]
HealedBy == [future_use |-> 2, phi |-> 3, dominance |-> 3, structure |-> 4,
             clause |-> 4]

\* What is left for the verifier at the end of rebuild_ssa to object to: it
\* runs at Standard and filters malformed exception clauses out.
RebuildRejects(wounds) ==
    \E d \in wounds \ {"clause"} : HealedBy[d] = 4 /\ SeenAt[d] <= 2

ASSUME PassAssumption ==
    /\ Order \in Seq(Pass)
    /\ Profile \in [Pass -> [rollback : {"Never", "OnFailure"},
                             verify   : BOOLEAN,
                             honest   : BOOLEAN]]

ASSUME CulpritAssumption ==
    /\ Culprits \subseteq Pass
    /\ Abandons \subseteq Culprits

ASSUME LevelAssumption ==
    /\ Wound \subseteq DOMAIN SeenAt
    /\ GroupLevel \in {"Quick", "Standard"}

IR == [rewrites : SUBSET Pass, wounds : SUBSET Wound, dirty : BOOLEAN]
NoIR == [rewrites |-> {}, wounds |-> {}, dirty |-> FALSE]

VARIABLES
    ssa,        \* the functions
    snapshot,   \* the buffer of the PassTransaction
    pending,    \* functions the worker has not processed yet
    fun,        \* the function being processed
    group,      \* passes the running closure still has to run
    alone,      \* passes to run one at a time after a rollback
    single,     \* the running closure is one pass, not the group
    claim,      \* whether a pass of the closure reported a rewrite
    session,    \* the open edit session
    pc,
    outcome,    \* how the last group on fun ended
    before,     \* history: fun as it was when the last group began
    landed      \* history: innocent passes whose last session succeeded

vars == <<ssa, snapshot, pending, fun, group, alone, single, claim, session,
          pc, outcome, before, landed>>

Body == ssa[fun]
Current == Head(group)
Sees(level, body) == {w \in body.wounds : SeenAt[w] <= Levels[level]} # {}
Replaced(body) == [ssa EXCEPT ![fun] = body]

NoSession == [original |-> NoIR, changed |-> FALSE, scope |-> 0]

TypeOK ==
    /\ ssa \in [Fun -> IR]
    /\ snapshot \in IR /\ before \in IR
    /\ pending \subseteq Fun
    /\ fun \in Fun
    /\ group \in Seq(Pass) /\ alone \in Seq(Pass)
    /\ claim \in BOOLEAN /\ single \in BOOLEAN
    /\ session \in [original : IR, changed : BOOLEAN, scope : 0..3]
    /\ pc \in {"idle", "pass", "edit", "boundary", "verify"}
    /\ outcome \in {"none", "Unchanged", "Applied", "RolledBack"}
    /\ landed \subseteq Pass
    /\ pc \in {"edit", "boundary", "verify"} => group # <<>>

Init ==
    /\ ssa = [f \in Fun |-> NoIR]
    /\ snapshot = NoIR /\ before = NoIR
    /\ pending = Fun
    /\ fun \in Fun
    /\ group = <<>> /\ alone = <<>>
    /\ claim = FALSE /\ single = FALSE
    /\ session = NoSession
    /\ pc = "idle"
    /\ outcome = "none"
    /\ landed = {}

-----------------------------------------------------------------------------
(* run_group: snapshot, then the closure.                                  *)

\* A mutation: run_one rolls back to the snapshot of the group.
BeginGroupStale(f, passes) ==
    /\ pc = "idle"
    /\ snapshot' = IF passes = Order THEN ssa[f] ELSE snapshot
    /\ before' = ssa[f]
    /\ fun' = f
    /\ group' = passes
    /\ claim' = FALSE
    /\ pc' = "pass"
    /\ UNCHANGED <<ssa, session, outcome>>

BeginGroup(f, passes) ==
    /\ pc = "idle"
    /\ snapshot' = ssa[f]
    /\ before' = ssa[f]
    /\ fun' = f
    /\ group' = passes
    /\ claim' = FALSE
    /\ pc' = "pass"
    /\ UNCHANGED <<ssa, session, outcome>>

\* A function not processed yet: the whole group under one snapshot.
RunGroup(f) ==
    /\ alone = <<>>
    /\ f \in pending
    /\ BeginGroup(f, Order)
    /\ pending' = pending \ {f}
    /\ single' = FALSE
    /\ landed' = {}
    /\ UNCHANGED alone

\* run_one: after a rollback, the next pass under a snapshot of its own.
RunOne ==
    /\ alone # <<>>
    /\ BeginGroup(fun, <<Head(alone)>>)
    /\ alone' = Tail(alone)
    /\ single' = TRUE
    /\ UNCHANGED <<pending, landed>>

-----------------------------------------------------------------------------
(* A pass: edit sessions, and what it reports.                             *)

InnocentWounds(w, scope) == \A d \in w : HealedBy[d] <= Scopes[scope]

\* SsaFunction::edit: clone the original only if it may have to be restored.
OpenSession ==
    /\ pc = "pass" /\ group # <<>>
    /\ session' = [original |-> IF Profile[Current].rollback = "OnFailure"
                                THEN Body ELSE NoIR,
                   changed |-> FALSE, scope |-> Scopes["None"]]
    /\ pc' = "edit"
    /\ UNCHANGED <<ssa, snapshot, pending, fun, group, alone, single, claim,
                   outcome, before, landed>>

\* A mutation: scopes add up instead of widening.
EditAdds(scope, w) ==
    /\ pc = "edit"
    /\ Current \notin Culprits => InnocentWounds(w, scope)
    /\ ssa' = [ssa EXCEPT ![fun].rewrites = @ \cup {Current},
                          ![fun].wounds = @ \cup w]
    /\ session' = [session EXCEPT !.changed = TRUE,
                                  !.scope = @ + Scopes[scope]]
    /\ UNCHANGED <<snapshot, pending, fun, group, alone, single, claim, pc,
                   outcome, before, landed>>

\* An editor operation: mark_changed widens the scope.  An innocent pass does
\* only damage that its scope repairs.
Edit(scope, w) ==
    /\ pc = "edit"
    /\ Current \notin Culprits => InnocentWounds(w, scope)
    /\ ssa' = [ssa EXCEPT ![fun].rewrites = @ \cup {Current},
                          ![fun].wounds = @ \cup w]
    /\ session' = [session EXCEPT !.changed = TRUE,
                     !.scope = IF @ < Scopes[scope] THEN Scopes[scope] ELSE @]
    /\ UNCHANGED <<snapshot, pending, fun, group, alone, single, claim, pc,
                   outcome, before, landed>>

\* The closure returns Ok: the flag is set before the boundary can fail.
ClosureOk ==
    /\ pc = "edit"
    /\ ssa' = [ssa EXCEPT ![fun].dirty = @ \/ session.changed]
    /\ pc' = IF session.changed THEN "boundary" ELSE "verify"
    /\ UNCHANGED <<snapshot, pending, fun, group, alone, single, claim,
                   session, outcome, before, landed>>

\* What the pass reports of the session that just ended: an honest pass
\* reports a failure it did not roll back as a change.
Reports(ok) ==
    IF Profile[Current].honest
      THEN {IF ok THEN session.changed
                  ELSE Profile[Current].rollback = "Never"}
      ELSE BOOLEAN

EndSession(ok) ==
    /\ \E r \in Reports(ok) : claim' = (claim \/ r)
    /\ landed' = IF ok /\ session.changed /\ Current \notin Culprits
                 THEN landed \cup {Current} ELSE landed
    /\ session' = NoSession
    /\ pc' = "pass"
    /\ UNCHANGED <<snapshot, pending, fun, group, alone, single, outcome,
                   before>>

\* A mutation: the restored original comes back with its flag cleared.
RestoredClean(body) ==
    IF Profile[Current].rollback = "OnFailure"
      THEN [session.original EXCEPT !.dirty = FALSE] ELSE body

\* restore_on_failure, on the body the failing step left.
Restored(body) ==
    IF Profile[Current].rollback = "OnFailure" THEN session.original ELSE body

\* The closure returns Err: nothing is repaired, and the flag is not set.
ClosureErr ==
    /\ pc = "edit"
    /\ Current \in Abandons
    /\ ssa' = Replaced(Restored(Body))
    /\ EndSession(FALSE)

\* A mutation: a scope skips the repair it was introduced for.
RepairShort ==
    /\ pc = "boundary"
    /\ ~(session.scope = Scopes["CfgModifying"] /\ RebuildRejects(Body.wounds))
    /\ ssa' = [ssa EXCEPT ![fun].wounds =
                  {d \in @ : HealedBy[d] >= session.scope}]
    /\ pc' = "verify"
    /\ UNCHANGED <<snapshot, pending, fun, group, alone, single, claim,
                   session, outcome, before, landed>>

\* finish_edit_scope repairs what the accumulated scope covers ...
Repair ==
    /\ pc = "boundary"
    /\ ~(session.scope = Scopes["CfgModifying"] /\ RebuildRejects(Body.wounds))
    /\ ssa' = [ssa EXCEPT ![fun].wounds =
                  {d \in @ : HealedBy[d] > session.scope}]
    /\ pc' = "verify"
    /\ UNCHANGED <<snapshot, pending, fun, group, alone, single, claim,
                   session, outcome, before, landed>>

\* ... or rebuild_ssa fails, and leaves the function in the middle of it.
RebuildErr(w) ==
    /\ pc = "boundary"
    /\ session.scope = Scopes["CfgModifying"]
    /\ Current \in Culprits \/ RebuildRejects(Body.wounds)
    /\ ssa' = Replaced(Restored([Body EXCEPT !.wounds = w]))
    /\ EndSession(FALSE)

\* The optional verification of the session, at its default level, Full.
SessionVerified ==
    /\ pc = "verify"
    /\ LET rejected == Profile[Current].verify /\ Sees("Full", Body)
       IN  /\ ssa' = IF rejected THEN Replaced(Restored(Body)) ELSE ssa
           /\ EndSession(~rejected)

\* A pass may also write to the function outside a session (loop
\* canonicalization ends with ssa.canonicalize()), and then reports it.
WriteDirectly(w) ==
    /\ pc = "pass" /\ group # <<>>
    /\ Profile[Current].honest
    /\ Current \in Culprits \/ w = {}
    /\ ssa' = [ssa EXCEPT ![fun].rewrites = @ \cup {Current},
                          ![fun].wounds = @ \cup w]
    /\ claim' = TRUE
    /\ landed' = IF Current \in Culprits THEN landed
                 ELSE landed \cup {Current}
    /\ UNCHANGED <<snapshot, pending, fun, group, alone, single, session, pc,
                   outcome, before>>

PassReturns ==
    /\ pc = "pass" /\ group # <<>>
    /\ group' = Tail(group)
    /\ UNCHANGED <<ssa, snapshot, pending, fun, alone, single, claim, session,
                   pc, outcome, before, landed>>

-----------------------------------------------------------------------------
(* The rest of run_group.                                                  *)

\* A group that was rolled back is run again pass by pass; a single pass that
\* was rolled back is given up.
Conclude(result) ==
    /\ outcome' = result
    /\ pc' = "idle"
    /\ group' = <<>>
    /\ session' = NoSession
    /\ IF result = "RolledBack" /\ ~single
         THEN alone' = Order /\ landed' = {}
         ELSE UNCHANGED <<alone, landed>>
    /\ UNCHANGED <<pending, fun, single, claim, before>>

\* The rejected body becomes the buffer.
RollBack(body) ==
    /\ ssa' = Replaced(snapshot)
    /\ snapshot' = body
    /\ Conclude("RolledBack")

\* catch_unwind: a panic anywhere in the closure, open session included.
Panic ==
    /\ pc \in {"pass", "edit", "boundary"} /\ group # <<>>
    /\ Current \in Culprits
    /\ RollBack(Body)

\* A mutation: the group is judged by what its passes claim.
JudgeByClaim ==
    /\ pc = "pass" /\ group = <<>>
    /\ LET taken == [Body EXCEPT !.dirty = FALSE]
       IN  IF ~claim
             THEN ssa' = Replaced(taken) /\ Conclude("Unchanged")
                  /\ UNCHANGED snapshot
             ELSE IF Sees(GroupLevel, Body)
             THEN RollBack(taken)
             ELSE ssa' = Replaced(taken) /\ Conclude("Applied")
                  /\ UNCHANGED snapshot

\* A mutation: the flag is read and not taken.
JudgePeeking ==
    /\ pc = "pass" /\ group = <<>>
    /\ IF ~claim /\ ~Body.dirty
         THEN Conclude("Unchanged") /\ UNCHANGED <<ssa, snapshot>>
         ELSE IF Sees(GroupLevel, Body)
         THEN RollBack(Body)
         ELSE Conclude("Applied") /\ UNCHANGED <<ssa, snapshot>>

\* take_edit_dirty clears the flag; the group counts as changed if a pass
\* says so or the flag does.
Judge ==
    /\ pc = "pass" /\ group = <<>>
    /\ LET taken == [Body EXCEPT !.dirty = FALSE]
       IN  IF ~claim /\ ~Body.dirty
             THEN ssa' = Replaced(taken) /\ Conclude("Unchanged")
                  /\ UNCHANGED snapshot
             ELSE IF Sees(GroupLevel, Body)
             THEN RollBack(taken)
             ELSE ssa' = Replaced(taken) /\ Conclude("Applied")
                  /\ UNCHANGED snapshot

Finished ==
    /\ pc = "idle" /\ pending = {} /\ alone = <<>>
    /\ UNCHANGED vars

Next ==
    \/ \E f \in Fun : RunGroup(f)
    \/ RunOne
    \/ OpenSession
    \/ \E scope \in DOMAIN Scopes \ {"None"}, w \in SUBSET Wound :
          Edit(scope, w)
    \/ ClosureOk
    \/ ClosureErr
    \/ Repair
    \/ \E w \in SUBSET Wound : RebuildErr(w)
    \/ SessionVerified
    \/ \E w \in SUBSET Wound : WriteDirectly(w)
    \/ PassReturns
    \/ Panic
    \/ Judge
    \/ Finished

Spec == Init /\ [][Next]_vars

-----------------------------------------------------------------------------
(* Properties.                                                             *)

\* Between groups no function carries damage that the verifier of run_group
\* reports: whatever sessions failed, were rolled back or were not, whatever
\* the passes claimed, and whichever of them panicked.
NoDamageKept ==
    pc = "idle" => \A f \in Fun : ~Sees(GroupLevel, ssa[f])

\* "No pass reported a rewrite.  The IR is untouched and was not verified": a
\* group that ends Unchanged has left the function as it found it, also when a
\* pass lied about a session that failed half way.
UnchangedIsUntouched ==
    pc = "idle" /\ outcome = "Unchanged" => ssa[fun] = before

\* A rollback restores the function the group began with: the buffer is reused
\* across functions and holds rejected bodies, and none of them comes back.
RollbackIsExact ==
    pc = "idle" /\ outcome = "RolledBack" => ssa[fun] = before

\* The edit_dirty flag of a group does not outlive it, rolled back or not: a
\* later group is judged on its own edits.
FlagNotCarriedOver ==
    pc = "idle" => \A f \in Fun : ~ssa[f].dirty

\* Running the passes one by one isolates the culprit: whatever the others
\* did, the rewrites of an innocent pass whose session succeeded are in the
\* function in the end.
InnocentRewritesLand ==
    pc = "idle" => landed \subseteq ssa[fun].rewrites

=============================================================================
