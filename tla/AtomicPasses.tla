---------------------------- MODULE AtomicPasses -----------------------------
(***************************************************************************)
(* What scheduling/scheduler.rs promises its host, without taking a body   *)
(* out of the store, without worker threads and without loops: every       *)
(* hosted method always has one body, a pass rewrites one body at a time   *)
(* in one step, a rejected rewrite is remembered, and the pipeline reports *)
(* success only if none was rejected.  A strict pipeline (`verify_hard`)   *)
(* only ever stores valid SSA, and a rejected rewrite leaves no trace.  No  *)
(* pipeline knows of a rewrite its pass did not report.                     *)
(***************************************************************************)
EXTENDS Naturals

CONSTANTS Hosted, Form, Valid(_), Fresh

VARIABLES bodies, rewritten, rejected, outcome, strict

avars == <<bodies, rewritten, rejected, outcome, strict>>

(* What one run of a pass makes of m's body: one edit or none, and any form. *)
Edit(m, body) == [bodies EXCEPT ![m] = body]
Edits(m) == [rev : {bodies[m].rev, bodies[m].rev + 1}, form : Form]

AInit ==
    /\ bodies = [m \in Hosted |-> Fresh]
    /\ rewritten = {} /\ rejected = {}
    /\ outcome = "running"
    /\ strict \in BOOLEAN

(* A kept rewrite.  The pass may have reported it or not, and a pass may report
   one it did not make; what a strict pipeline keeps is valid in each case. *)
Rewrite(m) ==
    /\ outcome = "running" /\ m \notin rejected
    /\ \E b \in Edits(m) : (strict => Valid(b)) /\ bodies' = Edit(m, b)
    /\ rewritten' \in {rewritten, rewritten \cup {m}}
    /\ UNCHANGED <<rejected, outcome, strict>>

Reject(m) ==
    /\ outcome = "running" /\ m \notin rejected
    /\ rejected' = rejected \cup {m}
    /\ \/ UNCHANGED bodies
       \/ ~strict /\ \E b \in Edits(m) : bodies' = Edit(m, b)
    /\ UNCHANGED <<rewritten, outcome, strict>>

Succeed ==
    /\ outcome = "running" /\ rejected = {}
    /\ outcome' = "ok"
    /\ UNCHANGED <<bodies, rewritten, rejected, strict>>

(* Besides a rejection, a capability cycle or a failing hook ends in an error. *)
Fail ==
    /\ outcome = "running"
    /\ outcome' = "error"
    /\ UNCHANGED <<bodies, rewritten, rejected, strict>>

ANext == Succeed \/ Fail \/ \E m \in Hosted : Rewrite(m) \/ Reject(m)

ASpec == AInit /\ [][ANext]_avars
=============================================================================
