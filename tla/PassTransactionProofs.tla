------------------------ MODULE PassTransactionProofs ------------------------
(***************************************************************************)
(* Proofs about PassTransaction, for every set of functions, every group   *)
(* of passes, every way they open sessions and every class of damage.      *)
(***************************************************************************)
EXTENDS PassTransaction, TLAPS

(* A pass whose closure may give up half way is restored by its session,   *)
(* or reports the failure as a change.                                     *)
Truthful ==
    \A p \in Abandons : Profile[p].rollback = "OnFailure" \/ Profile[p].honest

Running == pc \in {"edit", "boundary", "verify"}

LEMMA CurrentIsPass ==
  ASSUME TypeOK, group # <<>>
  PROVE  /\ Current \in Pass
         /\ Tail(group) \in Seq(Pass)
         /\ Profile[Current].rollback \in {"Never", "OnFailure"}
         /\ Profile[Current].verify \in BOOLEAN
         /\ Profile[Current].honest \in BOOLEAN
<1>1. Current \in Pass /\ Tail(group) \in Seq(Pass)
  BY DEF TypeOK, Current
<1> QED
  BY <1>1, PassAssumption

LEMMA ReplacedTyped ==
  ASSUME TypeOK, NEW b \in IR
  PROVE  /\ Replaced(b) \in [Fun -> IR]
         /\ Replaced(b)[fun] = b
         /\ \A f \in Fun \ {fun} : Replaced(b)[f] = ssa[f]
  BY DEF TypeOK, Replaced

LEMMA BodyTyped == TypeOK => Body \in IR
  BY DEF TypeOK, Body

LEMMA NoIRTyped == NoIR \in IR
  BY DEF NoIR, IR

(* An editing step on the function: only its rewrites and wounds grow.     *)
LEMMA EditedTyped ==
  ASSUME TypeOK, group # <<>>, NEW w \in SUBSET Wound,
         ssa' = [ssa EXCEPT ![fun].rewrites = @ \cup {Current},
                            ![fun].wounds = @ \cup w]
  PROVE  /\ ssa' \in [Fun -> IR]
         /\ ssa'[fun].dirty = ssa[fun].dirty
         /\ \A f \in Fun \ {fun} : ssa'[f] = ssa[f]
<1>1. Current \in Pass
  BY CurrentIsPass
<1>2. ssa[fun].rewrites \cup {Current} \in SUBSET Pass
      /\ ssa[fun].wounds \cup w \in SUBSET Wound
  BY <1>1 DEF TypeOK, IR
<1> QED
  BY <1>2 DEF TypeOK, IR

(* How a session ends, whatever it left in ssa.                            *)
LEMMA EndSessionTyped ==
  ASSUME TypeOK, group # <<>>, NEW ok \in BOOLEAN, EndSession(ok),
         ssa' \in [Fun -> IR]
  PROVE  TypeOK' /\ claim' \in BOOLEAN /\ (claim => claim')
<1>1. claim' \in BOOLEAN /\ (claim => claim')
  <2>1. PICK r \in Reports(ok) : claim' = (claim \/ r)
    BY DEF EndSession
  <2> QED
    BY <2>1 DEF TypeOK
<1>2. session' \in [original : IR, changed : BOOLEAN, scope : 0..3]
  BY NoIRTyped DEF EndSession, NoSession
<1>3. landed' \subseteq Pass
  BY CurrentIsPass DEF EndSession, TypeOK
<1> QED
  BY <1>1, <1>2, <1>3 DEF EndSession, TypeOK

LEMMA ConcludeTyped ==
  ASSUME TypeOK, NEW result \in {"Unchanged", "Applied", "RolledBack"},
         Conclude(result), ssa' \in [Fun -> IR], snapshot' \in IR
  PROVE  TypeOK'
<1>1. session' \in [original : IR, changed : BOOLEAN, scope : 0..3]
  BY NoIRTyped DEF Conclude, NoSession
<1>2. group' \in Seq(Pass) /\ group' = <<>>
  BY DEF Conclude
<1>3. alone' \in Seq(Pass) /\ landed' \subseteq Pass
  BY PassAssumption DEF Conclude, TypeOK
<1> QED
  BY <1>1, <1>2, <1>3 DEF Conclude, TypeOK

LEMMA InitTyped == Init => TypeOK
<1> SUFFICES ASSUME Init PROVE TypeOK
  OBVIOUS
<1>1. ssa \in [Fun -> IR] /\ snapshot \in IR /\ before \in IR
  BY NoIRTyped DEF Init
<1>2. session \in [original : IR, changed : BOOLEAN, scope : 0..3]
  BY NoIRTyped DEF Init, NoSession
<1>3. group \in Seq(Pass) /\ alone \in Seq(Pass)
  BY DEF Init
<1>4. claim \in BOOLEAN /\ single \in BOOLEAN
  BY DEF Init
<1>5. pending \subseteq Fun /\ fun \in Fun /\ landed \subseteq Pass
  BY DEF Init
<1>6. pc = "idle" /\ outcome = "none"
  BY DEF Init
<1> QED
  BY <1>1, <1>2, <1>3, <1>4, <1>5, <1>6 DEF TypeOK

LEMMA BeginTyped ==
  ASSUME TypeOK, NEW f \in Fun, NEW passes \in Seq(Pass),
         BeginGroup(f, passes), pending' \subseteq Fun, alone' \in Seq(Pass),
         single' \in BOOLEAN, landed' \subseteq Pass
  PROVE  TypeOK'
  BY DEF BeginGroup, TypeOK

LEMMA StepTyped == TypeOK /\ [Next]_vars => TypeOK'
<1> SUFFICES ASSUME TypeOK, [Next]_vars PROVE TypeOK'
  OBVIOUS
<1>1. ASSUME NEW f \in Fun, RunGroup(f) PROVE TypeOK'
  BY <1>1, BeginTyped, PassAssumption DEF RunGroup, TypeOK
<1>2. CASE RunOne
  <2>1. <<Head(alone)>> \in Seq(Pass) /\ Tail(alone) \in Seq(Pass)
    BY <1>2 DEF RunOne, TypeOK
  <2>2. pending' \subseteq Fun /\ landed' \subseteq Pass /\ fun \in Fun
    BY <1>2 DEF RunOne, TypeOK
  <2> QED
    BY <1>2, <2>1, <2>2, BeginTyped DEF RunOne
<1>3. CASE OpenSession
  <2>1. session' \in [original : IR, changed : BOOLEAN, scope : 0..3]
    BY <1>3, NoIRTyped, BodyTyped DEF OpenSession, Scopes
  <2> QED
    BY <1>3, <2>1 DEF OpenSession, TypeOK
<1>4. ASSUME NEW scope \in DOMAIN Scopes \ {"None"}, NEW w \in SUBSET Wound,
             Edit(scope, w)
      PROVE  TypeOK'
  <2>1. group # <<>>
    BY <1>4 DEF Edit, TypeOK
  <2>2. ssa' \in [Fun -> IR]
    BY <1>4, <2>1, EditedTyped DEF Edit
  <2>3. Scopes[scope] \in 0..3
    BY DEF Scopes
  <2>4. session' \in [original : IR, changed : BOOLEAN, scope : 0..3]
    BY <1>4, <2>3 DEF Edit, TypeOK
  <2> QED
    BY <1>4, <2>1, <2>2, <2>4 DEF Edit, TypeOK
<1>5. CASE ClosureOk
  <2>1. (ssa[fun].dirty \/ session.changed) \in BOOLEAN
    BY DEF TypeOK, IR
  <2>2. ssa' \in [Fun -> IR]
    BY <1>5, <2>1 DEF ClosureOk, TypeOK, IR
  <2>3. group # <<>> /\ pc' \in {"boundary", "verify"}
    BY <1>5 DEF ClosureOk, TypeOK
  <2> QED
    BY <1>5, <2>2, <2>3 DEF ClosureOk, TypeOK
<1>6. CASE ClosureErr
  <2>1. group # <<>>
    BY <1>6 DEF ClosureErr, TypeOK
  <2>2. Restored(Body) \in IR
    BY BodyTyped DEF Restored, TypeOK
  <2> QED
    BY <1>6, <2>1, <2>2, ReplacedTyped, EndSessionTyped DEF ClosureErr
<1>7. CASE Repair
  <2>1. {d \in ssa[fun].wounds : HealedBy[d] > session.scope} \in SUBSET Wound
    BY DEF TypeOK, IR
  <2>2. ssa' \in [Fun -> IR]
    BY <1>7, <2>1 DEF Repair, TypeOK, IR
  <2> QED
    BY <1>7, <2>2 DEF Repair, TypeOK
<1>8. ASSUME NEW w \in SUBSET Wound, RebuildErr(w) PROVE TypeOK'
  <2>1. group # <<>>
    BY <1>8 DEF RebuildErr, TypeOK
  <2>2. [Body EXCEPT !.wounds = w] \in IR
    BY BodyTyped DEF IR
  <2>3. Restored([Body EXCEPT !.wounds = w]) \in IR
    BY <2>2 DEF Restored, TypeOK
  <2> QED
    BY <1>8, <2>1, <2>3, ReplacedTyped, EndSessionTyped DEF RebuildErr
<1>9. CASE SessionVerified
  <2> DEFINE rejected == Profile[Current].verify /\ Sees("Full", Body)
  <2>1. group # <<>>
    BY <1>9 DEF SessionVerified, TypeOK
  <2>2. Restored(Body) \in IR
    BY BodyTyped DEF Restored, TypeOK
  <2>3. ssa' \in [Fun -> IR]
    BY <1>9, <2>2, ReplacedTyped DEF SessionVerified, TypeOK
  <2>4. (~rejected) \in BOOLEAN /\ EndSession(~rejected)
    BY <1>9 DEF SessionVerified
  <2> HIDE DEF rejected
  <2> QED
    BY <2>1, <2>3, <2>4, EndSessionTyped
<1>10. ASSUME NEW w \in SUBSET Wound, WriteDirectly(w) PROVE TypeOK'
  <2>1. group # <<>>
    BY <1>10 DEF WriteDirectly
  <2>2. ssa' \in [Fun -> IR]
    BY <1>10, <2>1, EditedTyped DEF WriteDirectly
  <2>3. landed' \subseteq Pass
    BY <1>10, <2>1, CurrentIsPass DEF WriteDirectly, TypeOK
  <2> QED
    BY <1>10, <2>2, <2>3 DEF WriteDirectly, TypeOK
<1>11. CASE PassReturns
  BY <1>11, CurrentIsPass DEF PassReturns, TypeOK
<1>12. CASE Panic
  <2>1. ssa' \in [Fun -> IR] /\ snapshot' \in IR
    BY <1>12, BodyTyped, ReplacedTyped DEF Panic, RollBack, TypeOK
  <2> QED
    BY <1>12, <2>1, ConcludeTyped DEF Panic, RollBack
<1>13. CASE Judge
  <2> DEFINE taken == [Body EXCEPT !.dirty = FALSE]
  <2>1. taken \in IR
    BY BodyTyped DEF IR
  <2>2. Replaced(taken) \in [Fun -> IR] /\ Replaced(snapshot) \in [Fun -> IR]
    BY <2>1, ReplacedTyped DEF TypeOK
  <2>3. \E result \in {"Unchanged", "Applied", "RolledBack"} :
           Conclude(result) /\ ssa' \in [Fun -> IR] /\ snapshot' \in IR
    BY <1>13, <2>1, <2>2 DEF Judge, RollBack, TypeOK
  <2> QED
    BY <2>3, ConcludeTyped
<1>14. CASE Finished
  BY <1>14 DEF Finished, vars, TypeOK
<1>15. CASE UNCHANGED vars
  BY <1>15 DEF vars, TypeOK
<1> QED
  BY <1>1, <1>2, <1>3, <1>4, <1>5, <1>6, <1>7, <1>8, <1>9, <1>10, <1>11,
     <1>12, <1>13, <1>14, <1>15 DEF Next

(* Every state of the worker and the functions is well formed.             *)
THEOREM TypeCorrect == Spec => []TypeOK
<1> QED
  BY InitTyped, StepTyped, PTL DEF Spec

-----------------------------------------------------------------------------
(* No group escapes judgement.  An IR is tracked when, if nothing says that *)
(* the function changed, it still is what the group began with.            *)

Tracked(body) == ~claim /\ ~body.dirty => body = snapshot

Restores == Profile[Current].rollback = "OnFailure"

Sound(body) == ~Sees(GroupLevel, body) /\ ~body.dirty

SnapshotSound == pc # "idle" => snapshot = before /\ Sound(snapshot)

OthersSound == \A f \in Fun : pc = "idle" \/ f # fun => Sound(ssa[f])

EditsTracked ==
    /\ pc = "pass" => Tracked(Body)
    /\ pc = "edit" /\ ~session.changed => Tracked(Body)
    /\ pc = "boundary" => Body.dirty
    /\ pc = "verify" => Tracked(Body)
    /\ Running /\ Restores => Tracked(session.original)

OutcomeExact ==
    pc = "idle" /\ outcome \in {"Unchanged", "RolledBack"} => ssa[fun] = before

TxInv == TypeOK /\ SnapshotSound /\ OthersSound /\ EditsTracked /\ OutcomeExact

LEMMA InitTx == Init => TxInv
<1> SUFFICES ASSUME Init PROVE TxInv
  OBVIOUS
<1>1. Sound(NoIR)
  BY DEF Sound, Sees, NoIR
<1>2. OthersSound
  BY <1>1 DEF Init, OthersSound
<1>3. SnapshotSound /\ EditsTracked /\ OutcomeExact
  BY DEF Init, SnapshotSound, EditsTracked, OutcomeExact, Running
<1> QED
  BY <1>2, <1>3, InitTyped DEF TxInv

(* A session that ends with a tracked body leaves the invariant true.      *)
LEMMA EndSessionTx ==
  ASSUME TxInv, TypeOK', group # <<>>, pc # "idle", NEW ok \in BOOLEAN,
         EndSession(ok), claim => claim',
         \A f \in Fun \ {fun} : ssa'[f] = ssa[f],
         ~claim' /\ ~ssa'[fun].dirty => ssa'[fun] = snapshot
  PROVE  TxInv'
<1>1. pc' = "pass" /\ UNCHANGED <<snapshot, fun, before>>
  BY DEF EndSession
<1>2. SnapshotSound'
  BY <1>1 DEF TxInv, SnapshotSound, Sound, Sees
<1>3. OthersSound'
  BY <1>1 DEF TxInv, OthersSound, Sound, Sees
<1>4. EditsTracked'
  BY <1>1 DEF EditsTracked, Tracked, Body, Running
<1>5. OutcomeExact'
  BY <1>1 DEF OutcomeExact
<1> QED
  BY <1>2, <1>3, <1>4, <1>5 DEF TxInv

(* A group whose function ends up sound leaves the invariant true.         *)
LEMMA ConcludeTx ==
  ASSUME TxInv, TypeOK', pc # "idle",
         NEW result \in {"Unchanged", "Applied", "RolledBack"},
         Conclude(result),
         \A f \in Fun \ {fun} : ssa'[f] = ssa[f],
         Sound(ssa'[fun]),
         result # "Applied" => ssa'[fun] = before
  PROVE  TxInv'
<1>1. /\ pc' = "idle" /\ outcome' = result
      /\ UNCHANGED <<fun, before>>
  BY DEF Conclude
<1>2. SnapshotSound'
  BY <1>1 DEF SnapshotSound
<1>3. OthersSound'
  BY <1>1 DEF TxInv, OthersSound, Sound, Sees
<1>4. EditsTracked'
  BY <1>1 DEF EditsTracked, Running
<1>5. OutcomeExact'
  BY <1>1 DEF OutcomeExact
<1> QED
  BY <1>2, <1>3, <1>4, <1>5 DEF TxInv

LEMMA BeginTx ==
  ASSUME TxInv, TypeOK', NEW f \in Fun, NEW passes \in Seq(Pass),
         BeginGroup(f, passes)
  PROVE  TxInv'
<1>1. /\ snapshot' = ssa[f] /\ before' = ssa[f] /\ fun' = f
      /\ pc' = "pass" /\ ssa' = ssa /\ pc = "idle"
  BY DEF BeginGroup
<1>2. \A g \in Fun : Sound(ssa[g])
  BY <1>1 DEF TxInv, OthersSound
<1>3. SnapshotSound'
  BY <1>1, <1>2 DEF SnapshotSound, Sound, Sees
<1>4. OthersSound'
  BY <1>1, <1>2 DEF OthersSound, Sound, Sees
<1>5. EditsTracked'
  BY <1>1 DEF EditsTracked, Tracked, Body, Running
<1>6. OutcomeExact'
  BY <1>1 DEF OutcomeExact
<1> QED
  BY <1>3, <1>4, <1>5, <1>6 DEF TxInv

(* A step inside an open session or a pass changes only the function.      *)
LEMMA InsideTx ==
  ASSUME TxInv, TypeOK', pc # "idle", pc' # "idle",
         UNCHANGED <<snapshot, before, fun>>,
         \A f \in Fun \ {fun} : ssa'[f] = ssa[f],
         EditsTracked'
  PROVE  TxInv'
<1>1. SnapshotSound'
  BY DEF TxInv, SnapshotSound, Sound, Sees
<1>2. OthersSound'
  BY DEF TxInv, OthersSound, Sound, Sees
<1>3. OutcomeExact'
  BY DEF OutcomeExact
<1> QED
  BY <1>1, <1>2, <1>3 DEF TxInv

(* What restore_on_failure leaves behind is tracked, if the body was, or   *)
(* if the failure is reported.                                             *)
LEMMA RestoredTracked ==
  ASSUME TxInv, Running, group # <<>>, NEW body,
         claim => claim',
         Restores \/ claim' \/ body.dirty \/ Tracked(body)
  PROVE  ~claim' /\ ~Restored(body).dirty => Restored(body) = snapshot
<1>1. CASE Restores
  BY <1>1 DEF TxInv, EditsTracked, Restores, Restored, Tracked
<1>2. CASE ~Restores
  BY <1>2 DEF Restores, Restored, Tracked
<1> QED
  BY <1>1, <1>2

LEMMA ErrReported ==
  ASSUME TypeOK, group # <<>>, EndSession(FALSE), ~Restores,
         Profile[Current].honest
  PROVE  claim'
<1>1. Profile[Current].rollback = "Never"
  BY CurrentIsPass DEF Restores
<1>2. Reports(FALSE) = {TRUE}
  BY <1>1 DEF Reports
<1> QED
  BY <1>2 DEF EndSession

LEMMA StepTx == Truthful /\ TxInv /\ [Next]_vars => TxInv'
<1> SUFFICES ASSUME Truthful, TxInv, [Next]_vars PROVE TxInv'
  OBVIOUS
<1>t. TypeOK /\ TypeOK'
  BY StepTyped DEF TxInv
<1>1. ASSUME NEW f \in Fun, RunGroup(f) PROVE TxInv'
  BY <1>1, <1>t, BeginTx, PassAssumption DEF RunGroup
<1>2. CASE RunOne
  <2>1. <<Head(alone)>> \in Seq(Pass) /\ fun \in Fun
    BY <1>2, <1>t DEF RunOne, TypeOK
  <2> QED
    BY <1>2, <1>t, <2>1, BeginTx DEF RunOne
<1>3. CASE OpenSession
  <2>1. /\ pc = "pass" /\ pc' = "edit" /\ ssa' = ssa /\ group' = group
        /\ UNCHANGED <<snapshot, before, fun, claim>>
        /\ session'.changed = FALSE
        /\ Profile[Current].rollback = "OnFailure"
              => session'.original = Body
    BY <1>3 DEF OpenSession
  <2>2. EditsTracked'
    BY <2>1 DEF TxInv, EditsTracked, Tracked, Body, Running, Restores, Current
  <2> QED
    BY <2>1, <2>2, <1>t, InsideTx
<1>4. ASSUME NEW scope \in DOMAIN Scopes \ {"None"}, NEW w \in SUBSET Wound,
             Edit(scope, w)
      PROVE  TxInv'
  <2>1. /\ pc = "edit" /\ pc' = "edit" /\ group' = group
        /\ UNCHANGED <<snapshot, before, fun, claim>>
    BY <1>4 DEF Edit
  <2>2. group # <<>> /\ \A f \in Fun \ {fun} : ssa'[f] = ssa[f]
    BY <1>4, <1>t, EditedTyped DEF Edit, TypeOK
  <2>3. session'.changed = TRUE /\ session'.original = session.original
    BY <1>4, <1>t DEF Edit, TypeOK
  <2>4. EditsTracked'
    BY <2>1, <2>3 DEF TxInv, EditsTracked, Tracked, Running, Restores, Current
  <2> QED
    BY <2>1, <2>2, <2>4, <1>t, InsideTx
<1>5. CASE ClosureOk
  <2>1. /\ pc = "edit" /\ pc' \in {"boundary", "verify"} /\ group' = group
        /\ session.changed => pc' = "boundary"
        /\ ~session.changed => pc' = "verify"
        /\ UNCHANGED <<snapshot, before, fun, claim, session>>
    BY <1>5, <1>t DEF ClosureOk, TypeOK
  <2>2. \A f \in Fun \ {fun} : ssa'[f] = ssa[f]
    BY <1>5, <1>t DEF ClosureOk, TypeOK
  <2>3. session.changed => ssa'[fun].dirty
    BY <1>5, <1>t DEF ClosureOk, TypeOK, IR
  <2>4. ~session.changed => ssa'[fun] = ssa[fun]
    BY <1>5, <1>t DEF ClosureOk, TypeOK, IR
  <2>5. EditsTracked'
    BY <2>1, <2>3, <2>4
       DEF TxInv, EditsTracked, Tracked, Body, Running, Restores, Current
  <2> QED
    BY <2>1, <2>2, <2>5, <1>t, InsideTx
<1>6. CASE ClosureErr
  <2>1. group # <<>> /\ Running /\ pc # "idle" /\ EndSession(FALSE)
    BY <1>6, <1>t DEF ClosureErr, TypeOK, Running
  <2>2. Restored(Body) \in IR /\ ssa' = Replaced(Restored(Body))
    BY <1>6, <1>t, BodyTyped DEF ClosureErr, Restored, TypeOK
  <2>3. /\ ssa'[fun] = Restored(Body)
        /\ \A f \in Fun \ {fun} : ssa'[f] = ssa[f]
        /\ claim => claim'
    BY <1>t, <2>1, <2>2, ReplacedTyped, EndSessionTyped
  <2>4. Restores \/ claim'
    BY <1>6, <1>t, <2>1, ErrReported DEF ClosureErr, Truthful, Restores
  <2> QED
    BY <1>t, <2>1, <2>3, <2>4, RestoredTracked, EndSessionTx
<1>7. CASE Repair
  <2>1. /\ pc = "boundary" /\ pc' = "verify" /\ group' = group
        /\ UNCHANGED <<snapshot, before, fun, claim, session>>
    BY <1>7 DEF Repair
  <2>2. /\ \A f \in Fun \ {fun} : ssa'[f] = ssa[f]
        /\ ssa'[fun].dirty = ssa[fun].dirty
    BY <1>7, <1>t DEF Repair, TypeOK, IR
  <2>3. EditsTracked'
    BY <2>1, <2>2
       DEF TxInv, EditsTracked, Tracked, Body, Running, Restores, Current
  <2> QED
    BY <2>1, <2>2, <2>3, <1>t, InsideTx
<1>8. ASSUME NEW w \in SUBSET Wound, RebuildErr(w) PROVE TxInv'
  <2> DEFINE halfway == [Body EXCEPT !.wounds = w]
  <2>1. group # <<>> /\ Running /\ pc = "boundary" /\ EndSession(FALSE)
    BY <1>8, <1>t DEF RebuildErr, TypeOK, Running
  <2>2. halfway \in IR /\ halfway.dirty = Body.dirty
    BY <1>t, BodyTyped DEF IR
  <2>3. Restored(halfway) \in IR /\ ssa' = Replaced(Restored(halfway))
    BY <1>8, <1>t, <2>2 DEF RebuildErr, Restored, TypeOK
  <2>4. /\ ssa'[fun] = Restored(halfway)
        /\ \A f \in Fun \ {fun} : ssa'[f] = ssa[f]
        /\ claim => claim'
    BY <1>t, <2>1, <2>3, ReplacedTyped, EndSessionTyped
  <2>5. halfway.dirty
    BY <2>1, <2>2 DEF TxInv, EditsTracked
  <2> HIDE DEF halfway
  <2> QED
    BY <1>t, <2>1, <2>4, <2>5, RestoredTracked, EndSessionTx
<1>9. CASE SessionVerified
  <2> DEFINE rejected == Profile[Current].verify /\ Sees("Full", Body)
  <2>1. group # <<>> /\ Running /\ pc = "verify"
    BY <1>9, <1>t DEF SessionVerified, TypeOK, Running
  <2>2. (~rejected) \in BOOLEAN /\ EndSession(~rejected)
    BY <1>9 DEF SessionVerified
  <2>3. Restored(Body) \in IR
    BY <1>t, BodyTyped DEF Restored, TypeOK
  <2>4. /\ \A f \in Fun \ {fun} : ssa'[f] = ssa[f]
        /\ rejected => ssa'[fun] = Restored(Body)
        /\ ~rejected => ssa'[fun] = Body
        /\ ssa' \in [Fun -> IR]
    BY <1>9, <1>t, <2>3, ReplacedTyped DEF SessionVerified, TypeOK, Body
  <2>5. Tracked(Body)
    BY <2>1 DEF TxInv, EditsTracked
  <2> HIDE DEF rejected
  <2>6. claim => claim'
    BY <1>t, <2>1, <2>2, <2>4, EndSessionTyped
  <2>7. ~claim' /\ ~Restored(Body).dirty => Restored(Body) = snapshot
    BY <1>t, <2>1, <2>5, <2>6, RestoredTracked
  <2>8. ~claim' /\ ~ssa'[fun].dirty => ssa'[fun] = snapshot
    BY <2>4, <2>5, <2>6, <2>7 DEF Tracked
  <2> QED
    BY <1>t, <2>1, <2>2, <2>4, <2>6, <2>8, EndSessionTx
<1>10. ASSUME NEW w \in SUBSET Wound, WriteDirectly(w) PROVE TxInv'
  <2>1. /\ pc = "pass" /\ pc' = "pass" /\ claim' = TRUE /\ group # <<>>
        /\ UNCHANGED <<snapshot, before, fun>>
    BY <1>10 DEF WriteDirectly
  <2>2. \A f \in Fun \ {fun} : ssa'[f] = ssa[f]
    BY <1>10, <1>t, <2>1, EditedTyped DEF WriteDirectly
  <2>3. EditsTracked'
    BY <2>1 DEF EditsTracked, Tracked, Running
  <2> QED
    BY <2>1, <2>2, <2>3, <1>t, InsideTx
<1>11. CASE PassReturns
  <2>1. /\ pc = "pass" /\ pc' = "pass" /\ ssa' = ssa
        /\ UNCHANGED <<snapshot, before, fun, claim>>
    BY <1>11 DEF PassReturns
  <2>2. EditsTracked'
    BY <2>1 DEF TxInv, EditsTracked, Tracked, Body, Running
  <2> QED
    BY <2>1, <2>2, <1>t, InsideTx
<1>12. CASE Panic
  <2>1. pc # "idle" /\ ssa' = Replaced(snapshot) /\ Conclude("RolledBack")
    BY <1>12 DEF Panic, RollBack
  <2>2. snapshot = before /\ Sound(snapshot) /\ snapshot \in IR
    BY <2>1, <1>t DEF TxInv, SnapshotSound, TypeOK
  <2>3. ssa'[fun] = snapshot /\ \A f \in Fun \ {fun} : ssa'[f] = ssa[f]
    BY <2>1, <2>2, <1>t, ReplacedTyped
  <2> QED
    BY <2>1, <2>2, <2>3, <1>t, ConcludeTx
<1>13. CASE Judge
  <2> DEFINE taken == [Body EXCEPT !.dirty = FALSE]
  <2>1. /\ pc = "pass" /\ pc # "idle"
        /\ snapshot = before /\ Sound(snapshot) /\ snapshot \in IR
    BY <1>13, <1>t DEF Judge, TxInv, SnapshotSound, TypeOK
  <2>2. taken \in IR /\ ~taken.dirty /\ taken.wounds = Body.wounds
    BY <1>t, BodyTyped DEF IR
  <2>3. ~Body.dirty => taken = Body
    BY <1>t, BodyTyped DEF IR
  <2>4. CASE ~claim /\ ~Body.dirty
    <3>1. ssa' = Replaced(taken) /\ Conclude("Unchanged")
      BY <1>13, <2>4 DEF Judge
    <3>2. taken = snapshot
      BY <2>1, <2>3, <2>4 DEF TxInv, EditsTracked, Tracked
    <3>3. ssa'[fun] = taken /\ \A f \in Fun \ {fun} : ssa'[f] = ssa[f]
      BY <3>1, <2>2, <1>t, ReplacedTyped
    <3> QED
      BY <3>1, <3>2, <3>3, <2>1, <1>t, ConcludeTx
  <2>5. CASE ~(~claim /\ ~Body.dirty) /\ Sees(GroupLevel, Body)
    <3>1. ssa' = Replaced(snapshot) /\ Conclude("RolledBack")
      BY <1>13, <2>5 DEF Judge, RollBack
    <3>2. ssa'[fun] = snapshot /\ \A f \in Fun \ {fun} : ssa'[f] = ssa[f]
      BY <3>1, <2>1, <1>t, ReplacedTyped
    <3> QED
      BY <3>1, <3>2, <2>1, <1>t, ConcludeTx
  <2>6. CASE ~(~claim /\ ~Body.dirty) /\ ~Sees(GroupLevel, Body)
    <3>1. ssa' = Replaced(taken) /\ Conclude("Applied")
      BY <1>13, <2>6 DEF Judge
    <3>2. ssa'[fun] = taken /\ \A f \in Fun \ {fun} : ssa'[f] = ssa[f]
      BY <3>1, <2>2, <1>t, ReplacedTyped
    <3>3. Sound(taken)
      BY <2>2, <2>6 DEF Sound, Sees
    <3> QED
      BY <3>1, <3>2, <3>3, <2>1, <1>t, ConcludeTx
  <2> QED
    BY <2>4, <2>5, <2>6
<1>14. CASE Finished \/ UNCHANGED vars
  <2>1. UNCHANGED vars
    BY <1>14 DEF Finished
  <2> QED
    BY <2>1, <1>t DEF vars, TxInv, SnapshotSound, OthersSound, EditsTracked,
       OutcomeExact, Sound, Sees, Tracked, Body, Running, Restores, Current
<1> QED
  BY <1>1, <1>2, <1>3, <1>4, <1>5, <1>6, <1>7, <1>8, <1>9, <1>10, <1>11,
     <1>12, <1>13, <1>14 DEF Next

LEMMA TxHolds == Truthful /\ Spec => []TxInv
<1>1. ASSUME Truthful PROVE Spec => []TxInv
  <2>1. TxInv /\ [Next]_vars => TxInv'
    BY <1>1, StepTx
  <2> QED
    BY InitTx, <2>1, PTL DEF Spec
<1> QED
  BY <1>1

(* Between groups no function carries damage the verifier of run_group     *)
(* would have reported, provided passes that give up half way say so or    *)
(* are restored.                                                           *)
THEOREM NothingEscapes == Truthful => (Spec => []NoDamageKept)
<1>1. TxInv => NoDamageKept
  BY DEF TxInv, OthersSound, Sound, NoDamageKept
<1> QED
  BY <1>1, TxHolds, PTL

(* A group that ends Unchanged left its function as it found it.           *)
THEOREM UnchangedIsExact == Truthful => (Spec => []UnchangedIsUntouched)
<1>1. TxInv => UnchangedIsUntouched
  BY DEF TxInv, OutcomeExact, UnchangedIsUntouched
<1> QED
  BY <1>1, TxHolds, PTL

(* A group that was rolled back left its function as it found it.          *)
THEOREM RollbackRestores == Truthful => (Spec => []RollbackIsExact)
<1>1. TxInv => RollbackIsExact
  BY DEF TxInv, OutcomeExact, RollbackIsExact
<1> QED
  BY <1>1, TxHolds, PTL

(* No edit_dirty flag outlives the group that set it.                      *)
THEOREM FlagIsTaken == Truthful => (Spec => []FlagNotCarriedOver)
<1>1. TxInv => FlagNotCarriedOver
  BY DEF TxInv, OthersSound, Sound, FlagNotCarriedOver
<1> QED
  BY <1>1, TxHolds, PTL

-----------------------------------------------------------------------------
(* Nothing innocent is lost.  What landed is in the function and in what a  *)
(* session would restore; and a pass that runs alone either is a culprit,   *)
(* so that what landed was there when it began, or leaves no damage that    *)
(* run_group's verifier sees, so that it is not rolled back.                *)

Mended(body, scope) ==
    \A d \in body.wounds : SeenAt[d] <= Levels[GroupLevel] => HealedBy[d] <= scope

LandedKept ==
    /\ landed \subseteq Body.rewrites
    /\ Running /\ session.changed => Current \in Body.rewrites
    /\ Running /\ Restores => landed \subseteq session.original.rewrites
    /\ pc = "edit" /\ ~session.changed => session.scope = 0

InnocentClean ==
    /\ pc \in {"pass", "verify"} => Mended(Body, 0)
    /\ pc \in {"edit", "boundary"} => Mended(Body, session.scope)
    /\ Running /\ Restores => Mended(session.original, 0)

HeldBySnapshot == landed \subseteq snapshot.rewrites

AloneOK ==
    single /\ pc # "idle" =>
        /\ group # <<>> => Tail(group) = <<>>
        /\ group = <<>> => HeldBySnapshot \/ Mended(Body, 0)
        /\ group # <<>> /\ Current \in Culprits => HeldBySnapshot
        /\ group # <<>> /\ Current \notin Culprits => InnocentClean

LandInv == LandedKept /\ AloneOK

LEMMA WoundRanges ==
  /\ \A d \in Wound : SeenAt[d] \in 1..3 /\ HealedBy[d] \in 2..4
  /\ Levels[GroupLevel] \in 1..2
  BY LevelAssumption DEF SeenAt, HealedBy, Levels

LEMMA MendedUnseen ==
  ASSUME NEW body \in IR
  PROVE  Mended(body, 0) <=> ~Sees(GroupLevel, body)
<1>1. \A d \in body.wounds : SeenAt[d] \in 1..3 /\ HealedBy[d] \in 2..4
  BY WoundRanges DEF IR
<1> QED
  BY <1>1, WoundRanges DEF Mended, Sees

(* rebuild_ssa cannot fail on what an innocent pass did. *)
LEMMA InnocentRebuilds ==
  ASSUME NEW body \in IR, Mended(body, 3)
  PROVE  ~RebuildRejects(body.wounds)
<1> SUFFICES ASSUME NEW d \in body.wounds, d # "clause", HealedBy[d] = 4, SeenAt[d] <= 2
             PROVE  FALSE
  BY DEF RebuildRejects
<1>1. d \in DOMAIN SeenAt
  BY LevelAssumption DEF IR
<1>2. SeenAt[d] = 1
  BY <1>1 DEF SeenAt, HealedBy
<1>3. HealedBy[d] <= 3
  BY <1>2, WoundRanges DEF Mended
<1> QED
  BY <1>3

LEMMA InitLand == Init => LandInv
  BY DEF Init, LandInv, LandedKept, AloneOK, Running, Body

(* A session ends; if it was refused, the body is what was restored. *)
LEMMA EndSessionLand ==
  ASSUME TypeOK, LandInv, group # <<>>, Running, NEW ok \in BOOLEAN, EndSession(ok),
         ssa' \in [Fun -> IR],
         landed \subseteq ssa'[fun].rewrites,
         ok => ssa' = ssa,
         Current \notin Culprits /\ single => Mended(ssa'[fun], 0)
  PROVE  LandInv'
<1>1. /\ pc' = "pass" /\ pc # "idle"
      /\ UNCHANGED <<snapshot, fun, group, single>>
      /\ landed' = IF ok /\ session.changed /\ Current \notin Culprits
                   THEN landed \cup {Current} ELSE landed
  BY DEF EndSession, Running
<1>2. landed' \subseteq ssa'[fun].rewrites
  BY <1>1 DEF LandInv, LandedKept, Body
<1>3. LandedKept'
  BY <1>1, <1>2 DEF LandedKept, Running, Body
<1>4. Current' = Current /\ Body' = ssa'[fun]
  BY <1>1 DEF Current, Body
<1>5. InnocentClean' <=> Mended(ssa'[fun], 0)
  BY <1>1, <1>4 DEF InnocentClean, Running, Mended
<1>6. AloneOK'
  BY <1>1, <1>4, <1>5 DEF LandInv, AloneOK, HeldBySnapshot
<1> QED
  BY <1>3, <1>6 DEF LandInv

(* What restore_on_failure leaves, for a pass that is not a culprit and one
   that is. *)
LEMMA RestoredLand ==
  ASSUME TypeOK, LandInv, group # <<>>, Running, NEW body \in IR,
         landed \subseteq body.rewrites
  PROVE  /\ landed \subseteq Restored(body).rewrites
         /\ Current \notin Culprits /\ single /\ Mended(body, 0)
               => Mended(Restored(body), 0)
  BY DEF LandInv, LandedKept, AloneOK, InnocentClean, Restored, Restores, Running

(* The group ends with its function as it is, or with the snapshot. *)
LEMMA ConcludeLand ==
  ASSUME LandInv, pc # "idle", NEW result \in {"Unchanged", "Applied", "RolledBack"},
         Conclude(result),
         \/ ssa'[fun].rewrites = Body.rewrites /\ result # "RolledBack"
         \/ ssa'[fun] = snapshot /\ result = "RolledBack" /\ (single => HeldBySnapshot)
  PROVE  LandInv'
<1>1. /\ pc' = "idle" /\ fun' = fun
      /\ landed' = landed \/ (result = "RolledBack" /\ ~single /\ landed' = {})
      /\ result = "RolledBack" /\ ~single => landed' = {}
  BY DEF Conclude
<1>2. landed' \subseteq ssa'[fun].rewrites
  BY <1>1 DEF LandInv, LandedKept, HeldBySnapshot
<1> QED
  BY <1>1, <1>2 DEF LandInv, LandedKept, AloneOK, Running, Body

LEMMA StepLand == TxInv /\ LandInv /\ [Next]_vars => LandInv'
<1> SUFFICES ASSUME TxInv, LandInv, [Next]_vars PROVE LandInv'
  OBVIOUS
<1>t. TypeOK /\ TypeOK' /\ Body \in IR /\ Body = ssa[fun]
  BY StepTyped, BodyTyped DEF TxInv, Body
<1>1. ASSUME NEW f \in Fun, RunGroup(f) PROVE LandInv'
  BY <1>1 DEF RunGroup, BeginGroup, LandInv, LandedKept, AloneOK, Running
<1>2. CASE RunOne
  <2>1. /\ pc = "idle" /\ pc' = "pass" /\ snapshot' = Body /\ Body' = Body
        /\ group' = <<Head(alone)>> /\ UNCHANGED landed
    BY <1>2 DEF RunOne, BeginGroup, Body
  <2>2. landed \subseteq Body.rewrites /\ Mended(Body, 0)
    <3>1. ~Sees(GroupLevel, Body)
      BY <1>t, <2>1 DEF TxInv, OthersSound, Sound, TypeOK
    <3> QED
      BY <1>t, <3>1, MendedUnseen DEF LandInv, LandedKept
  <2>3. Tail(group') = <<>> /\ HeldBySnapshot'
    BY <2>1, <2>2 DEF HeldBySnapshot
  <2>4. InnocentClean'
    BY <2>1, <2>2 DEF InnocentClean, Running, Mended
  <2> QED
    BY <2>1, <2>2, <2>3, <2>4 DEF LandInv, LandedKept, AloneOK, Running
<1>3. CASE OpenSession
  <2>1. /\ pc = "pass" /\ group # <<>> /\ pc' = "edit"
        /\ UNCHANGED <<ssa, snapshot, fun, group, single, landed>>
        /\ Current' = Current /\ Body' = Body /\ (Restores' <=> Restores)
        /\ Restores => session'.original = Body
        /\ session'.changed = FALSE /\ session'.scope = 0
    BY <1>3 DEF OpenSession, Current, Body, Restores, Scopes
  <2>2. LandedKept'
    BY <2>1 DEF LandInv, LandedKept
  <2>3. InnocentClean => InnocentClean'
    BY <2>1 DEF InnocentClean, Mended
  <2> QED
    BY <2>1, <2>2, <2>3 DEF LandInv, AloneOK, HeldBySnapshot
<1>4. ASSUME NEW scope \in DOMAIN Scopes \ {"None"}, NEW w \in SUBSET Wound,
             Edit(scope, w)
      PROVE  LandInv'
  <2>1. /\ pc = "edit" /\ pc' = "edit" /\ group # <<>> /\ fun \in Fun
        /\ UNCHANGED <<snapshot, fun, group, single, landed>>
        /\ Current' = Current /\ (Restores' <=> Restores)
    BY <1>4, <1>t DEF Edit, TypeOK, Current, Restores
  <2>2. /\ Body'.rewrites = Body.rewrites \cup {Current}
        /\ Body'.wounds = Body.wounds \cup w
    BY <1>4, <1>t, <2>1 DEF Edit, TypeOK, IR, Body
  <2>3. /\ session'.changed = TRUE /\ session'.original = session.original
        /\ session'.scope = IF session.scope < Scopes[scope] THEN Scopes[scope]
                            ELSE session.scope
        /\ session.scope \in Nat /\ Scopes[scope] \in Nat
    BY <1>4, <1>t DEF Edit, TypeOK, Scopes
  <2>4. LandedKept'
    BY <2>1, <2>2, <2>3 DEF LandInv, LandedKept, Running
  <2>5. Current \notin Culprits /\ InnocentClean => InnocentClean'
    <3> SUFFICES ASSUME Current \notin Culprits, InnocentClean PROVE InnocentClean'
      OBVIOUS
    <3>1. \A d \in w : HealedBy[d] <= Scopes[scope]
      BY <1>4 DEF Edit, InnocentWounds
    <3>2. Mended(Body, session.scope)
      BY <2>1 DEF InnocentClean
    <3>3. \A d \in Body.wounds \cup w : HealedBy[d] \in Nat
      BY <1>t, WoundRanges DEF IR
    <3>4. Mended(Body', session'.scope)
      BY <2>2, <2>3, <3>1, <3>2, <3>3 DEF Mended
    <3>5. Restores => Mended(session'.original, 0)
      BY <2>1, <2>3 DEF InnocentClean, Running
    <3> QED
      BY <2>1, <3>4, <3>5 DEF InnocentClean, Mended
  <2> QED
    BY <2>1, <2>4, <2>5 DEF LandInv, AloneOK, HeldBySnapshot
<1>5. CASE ClosureOk \/ Repair
  <2>1. /\ pc \in {"edit", "boundary"} /\ pc' \in {"boundary", "verify"} /\ group # <<>>
        /\ UNCHANGED <<snapshot, fun, group, single, landed, session>> /\ fun \in Fun
        /\ Current' = Current /\ (Restores' <=> Restores)
    BY <1>5, <1>t DEF ClosureOk, Repair, TypeOK, Current, Restores
  <2>2. Body'.rewrites = Body.rewrites
    BY <1>5, <1>t, <2>1 DEF ClosureOk, Repair, TypeOK, IR, Body
  <2>3. LandedKept'
    BY <2>1, <2>2 DEF LandInv, LandedKept, Running
  <2>4. InnocentClean => InnocentClean'
    <3> SUFFICES ASSUME InnocentClean PROVE InnocentClean'
      OBVIOUS
    <3>1. CASE ClosureOk
      <4>1. /\ pc' = (IF session.changed THEN "boundary" ELSE "verify") /\ pc = "edit"
            /\ Body'.wounds = Body.wounds
        BY <1>t, <2>1, <3>1 DEF ClosureOk, TypeOK, IR, Body
      <4>2. ~session.changed => session.scope = 0
        BY <4>1 DEF LandInv, LandedKept
      <4> QED
        BY <2>1, <4>1, <4>2 DEF InnocentClean, Mended, Running
    <3>2. CASE Repair
      <4>1. /\ pc' = "verify" /\ pc = "boundary"
            /\ Body'.wounds = {d \in Body.wounds : HealedBy[d] > session.scope}
        BY <1>t, <2>1, <3>2 DEF Repair, TypeOK, IR, Body
      <4>2. \A d \in Body.wounds : HealedBy[d] \in Nat
        BY <1>t, WoundRanges DEF IR
      <4>3. session.scope \in Nat
        BY <1>t DEF TypeOK
      <4>4. Mended(Body', 0)
        BY <4>1, <4>2, <4>3 DEF InnocentClean, Mended
      <4> QED
        BY <2>1, <4>1, <4>4 DEF InnocentClean, Mended, Running
    <3> QED
      BY <1>5, <3>1, <3>2
  <2> QED
    BY <2>1, <2>3, <2>4 DEF LandInv, AloneOK, HeldBySnapshot
<1>6. CASE ClosureErr
  <2>1. group # <<>> /\ Running /\ EndSession(FALSE) /\ Current \in Culprits
    BY <1>6, <1>t, CulpritAssumption DEF ClosureErr, TypeOK, Running
  <2>2. Restored(Body) \in IR
    BY <1>t DEF Restored, TypeOK
  <2>3. ssa' \in [Fun -> IR] /\ ssa'[fun] = Restored(Body)
    BY <1>6, <1>t, <2>2, ReplacedTyped DEF ClosureErr
  <2>4. landed \subseteq Restored(Body).rewrites
    BY <1>t, <2>1, RestoredLand DEF LandInv, LandedKept
  <2> QED
    BY <1>t, <2>1, <2>3, <2>4, EndSessionLand
<1>7. ASSUME NEW w \in SUBSET Wound, RebuildErr(w) PROVE LandInv'
  <2> DEFINE halfway == [Body EXCEPT !.wounds = w]
  <2>1. group # <<>> /\ Running /\ pc = "boundary" /\ EndSession(FALSE) /\ session.scope = 3
    BY <1>7, <1>t DEF RebuildErr, TypeOK, Running, Scopes
  <2>2. halfway \in IR /\ halfway.rewrites = Body.rewrites
    BY <1>t DEF IR
  <2>3. Restored(halfway) \in IR /\ ssa' = Replaced(Restored(halfway))
    BY <1>7, <1>t, <2>2 DEF RebuildErr, Restored, TypeOK
  <2>4. ssa' \in [Fun -> IR] /\ ssa'[fun] = Restored(halfway)
    BY <1>t, <2>3, ReplacedTyped
  <2>5. single => Current \in Culprits
    <3> SUFFICES ASSUME single, Current \notin Culprits PROVE FALSE
      OBVIOUS
    <3>1. Mended(Body, 3)
      BY <2>1 DEF LandInv, AloneOK, InnocentClean
    <3> QED
      BY <1>7, <1>t, <3>1, InnocentRebuilds DEF RebuildErr
  <2> HIDE DEF halfway
  <2>6. landed \subseteq Restored(halfway).rewrites
    BY <1>t, <2>1, <2>2, RestoredLand DEF LandInv, LandedKept
  <2> QED
    BY <1>t, <2>1, <2>4, <2>5, <2>6, EndSessionLand
<1>8. CASE SessionVerified
  <2> DEFINE rejected == Profile[Current].verify /\ Sees("Full", Body)
  <2>1. group # <<>> /\ Running /\ pc = "verify"
    BY <1>8, <1>t DEF SessionVerified, TypeOK, Running
  <2>2. (~rejected) \in BOOLEAN /\ EndSession(~rejected)
    BY <1>8 DEF SessionVerified
  <2>3. Restored(Body) \in IR
    BY <1>t DEF Restored, TypeOK
  <2>4. /\ rejected => ssa'[fun] = Restored(Body)
        /\ ~rejected => ssa' = ssa
        /\ ssa' \in [Fun -> IR]
    BY <1>8, <1>t, <2>3, ReplacedTyped DEF SessionVerified, TypeOK
  <2>5. landed \subseteq Body.rewrites
    BY DEF LandInv, LandedKept
  <2>6. single /\ Current \notin Culprits => Mended(Body, 0)
    BY <2>1 DEF LandInv, AloneOK, InnocentClean
  <2> HIDE DEF rejected
  <2>7. /\ landed \subseteq Restored(Body).rewrites
        /\ single /\ Current \notin Culprits => Mended(Restored(Body), 0)
    BY <1>t, <2>1, <2>5, <2>6, RestoredLand
  <2>8. /\ landed \subseteq ssa'[fun].rewrites
        /\ single /\ Current \notin Culprits => Mended(ssa'[fun], 0)
    BY <1>t, <2>4, <2>5, <2>6, <2>7
  <2> QED
    BY <1>t, <2>1, <2>2, <2>4, <2>8, EndSessionLand
<1>9. ASSUME NEW w \in SUBSET Wound, WriteDirectly(w) PROVE LandInv'
  <2>1. /\ pc = "pass" /\ pc' = "pass" /\ group # <<>> /\ fun \in Fun
        /\ UNCHANGED <<snapshot, fun, group, single>> /\ Current' = Current
        /\ landed' = IF Current \in Culprits THEN landed ELSE landed \cup {Current}
    BY <1>9, <1>t DEF WriteDirectly, TypeOK, Current
  <2>2. /\ Body'.rewrites = Body.rewrites \cup {Current}
        /\ Current \notin Culprits => Body'.wounds = Body.wounds
    BY <1>9, <1>t, <2>1 DEF WriteDirectly, TypeOK, IR, Body
  <2>3. LandedKept'
    BY <2>1, <2>2 DEF LandInv, LandedKept, Running
  <2>4. Current \notin Culprits /\ InnocentClean => InnocentClean'
    BY <2>1, <2>2 DEF InnocentClean, Running, Mended
  <2> QED
    BY <2>1, <2>3, <2>4 DEF LandInv, AloneOK, HeldBySnapshot
<1>10. CASE PassReturns
  <2>1. /\ pc = "pass" /\ pc' = "pass" /\ group # <<>> /\ group' = Tail(group)
        /\ UNCHANGED <<snapshot, fun, single, landed>> /\ Body' = Body
    BY <1>10 DEF PassReturns, Body
  <2>2. LandedKept'
    BY <2>1 DEF LandInv, LandedKept, Running
  <2>3. single => group' = <<>> /\ (HeldBySnapshot \/ Mended(Body, 0))
    BY <2>1 DEF LandInv, AloneOK, InnocentClean
  <2> QED
    BY <2>1, <2>2, <2>3 DEF LandInv, AloneOK, HeldBySnapshot, Mended
<1>11. CASE Panic
  <2>1. /\ pc # "idle" /\ ssa' = Replaced(snapshot) /\ Conclude("RolledBack")
        /\ single => HeldBySnapshot
    BY <1>11 DEF Panic, RollBack, LandInv, AloneOK
  <2>2. ssa'[fun] = snapshot
    BY <1>t, <2>1, ReplacedTyped DEF TypeOK
  <2> QED
    BY <2>1, <2>2, ConcludeLand
<1>12. CASE Judge
  <2> DEFINE taken == [Body EXCEPT !.dirty = FALSE]
  <2>1. pc # "idle" /\ pc = "pass" /\ group = <<>>
    BY <1>12 DEF Judge
  <2>2. taken \in IR /\ taken.rewrites = Body.rewrites /\ snapshot \in IR
    BY <1>t DEF IR, TypeOK
  <2>3. CASE ssa' = Replaced(taken) /\ (Conclude("Unchanged") \/ Conclude("Applied"))
    <3>1. ssa'[fun] = taken
      BY <1>t, <2>2, <2>3, ReplacedTyped
    <3> QED
      BY <2>1, <2>2, <2>3, <3>1, ConcludeLand
  <2>4. CASE Sees(GroupLevel, Body) /\ RollBack(taken)
    <3>1. single => HeldBySnapshot
      BY <1>t, <2>1, <2>4, MendedUnseen DEF LandInv, AloneOK
    <3>2. ssa'[fun] = snapshot
      BY <1>t, <2>2, <2>4, ReplacedTyped DEF RollBack
    <3> QED
      BY <2>1, <2>4, <3>1, <3>2, ConcludeLand DEF RollBack
  <2> QED
    BY <1>12, <2>3, <2>4 DEF Judge
<1>13. CASE Finished \/ UNCHANGED vars
  <2>1. UNCHANGED <<ssa, snapshot, fun, group, single, session, pc, landed>>
    BY <1>13 DEF Finished, vars
  <2> QED
    BY <2>1 DEF LandInv, LandedKept, AloneOK, InnocentClean, HeldBySnapshot, Mended, Running,
       Restores, Current, Body
<1> QED
  BY <1>1, <1>2, <1>3, <1>4, <1>5, <1>6, <1>7, <1>8, <1>9, <1>10, <1>11, <1>12, <1>13 DEF Next

LEMMA LandHolds == Truthful /\ Spec => []LandInv
<1>1. ASSUME Truthful PROVE Spec => []LandInv
  <2>1. Spec => []TxInv
    BY <1>1, TxHolds
  <2> QED
    BY <2>1, InitLand, StepLand, PTL DEF Spec
<1> QED
  BY <1>1

(* Running the passes one at a time after a rollback keeps what the innocent *)
(* ones did: what a successful session of an innocent pass rewrote is in the *)
(* function when the worker leaves it, whatever the culprits do before and   *)
(* after it.                                                                 *)
THEOREM InnocentsLand == Truthful => (Spec => []InnocentRewritesLand)
<1>1. LandInv => InnocentRewritesLand
  BY DEF LandInv, LandedKept, InnocentRewritesLand, Body
<1> QED
  BY <1>1, LandHolds, PTL
=============================================================================
