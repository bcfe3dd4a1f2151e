----------------------------- MODULE DeadMethods -----------------------------
(***************************************************************************)
(* deadcode::run_global: a breadth-first walk of World::callees from the   *)
(* entry points, then one pass over all methods that marks the rest dead.  *)
(* The walk also enters methods outside the program, which call nobody.    *)
(***************************************************************************)
EXTENDS CallGraph

CONSTANTS
    EntrySets,  \* what World::entry_points may answer
    DeadSets    \* methods an earlier run of the pass may have marked

ASSUME EntriesAssumption ==
    /\ EntrySets \subseteq SUBSET Method
    /\ DeadSets \subseteq SUBSET Method

VARIABLES
    entries,    \* World::entry_points
    live,
    worklist,   \* the VecDeque
    dead,       \* methods marked dead
    wasDead,    \* history: methods dead when the pass started
    marked      \* what run_global returns

markVars == <<entries, live, worklist, dead, wasDead, marked>>

MarkInit ==
    /\ entries \in EntrySets
    /\ live = {} /\ worklist = <<>>
    /\ dead = {} /\ wasDead = {}
    /\ marked = FALSE

(* The sequence of a set's elements, in any order. *)
Listings(S) == {s \in [1..Cardinality(S) -> S] : \A x \in S : \E i \in DOMAIN s : s[i] = x}

(* The pass starts.  An earlier run of it may have marked methods, also some
   that can be reached now: a mark is never taken back. *)
StartWalk ==
    /\ live' = entries
    /\ worklist' \in Listings(entries)
    /\ dead' \in DeadSets /\ wasDead' = dead'
    /\ marked' = FALSE
    /\ UNCHANGED entries

CalleesOf(m) == IF m \in Method THEN callees[m] ELSE {}

(* Mutant of Walk: callees are live but not queued. *)
WalkShallow ==
    /\ worklist # <<>>
    /\ live' = live \cup CalleesOf(Head(worklist))
    /\ worklist' = Tail(worklist)
    /\ UNCHANGED <<entries, dead, wasDead, marked>>

(* The front of the queue: each callee that becomes live is queued. *)
Walk ==
    /\ worklist # <<>>
    /\ LET fresh == CalleesOf(Head(worklist)) \ live
       IN  /\ live' = live \cup fresh
           /\ \E order \in Listings(fresh) : worklist' = Tail(worklist) \o order
    /\ UNCHANGED <<entries, dead, wasDead, marked>>

(* Mutant of MarkDead: a method marked before is reported as a change again. *)
MarkDeadAgain ==
    /\ worklist = <<>>
    /\ dead' = dead \cup (Method \ live)
    /\ marked' = (Method \ live # {})
    /\ UNCHANGED <<entries, live, worklist, wasDead>>

MarkDead ==
    /\ worklist = <<>>
    /\ LET newly == Method \ (live \cup dead)
       IN  dead' = dead \cup newly /\ marked' = (newly # {})
    /\ UNCHANGED <<entries, live, worklist, wasDead>>

-----------------------------------------------------------------------------
(* Properties. *)

MarkTypeOK ==
    /\ entries \subseteq Method /\ live \subseteq Method \cup Outside
    /\ worklist \in Seq(Method \cup Outside)
    /\ dead \subseteq Method /\ wasDead \subseteq Method
    /\ marked \in BOOLEAN

MarksMade == phase \in {"solve", "done"}

(* A method is dead in the end if and only if it was, or no entry point reaches
   it: nothing that can be called is ever marked. *)
DeadIsUnreachable ==
    MarksMade => dead = wasDead \cup {m \in Method : \A e \in entries : ~Reaches(e, m)}

(* The pass reports a change if and only if it marked a method: a false report
   would keep the scheduler's rounds from ending. *)
ReportsNewMarks == MarksMade => (marked <=> dead # wasDead)
=============================================================================
