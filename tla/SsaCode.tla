------------------------------- MODULE SsaCode -------------------------------
(***************************************************************************)
(* The body of an SsaFunction, as the value analyses read it.  To the      *)
(* control flow of module ExceptionFlow a function adds                    *)
(*                                                                         *)
(*   phis[b]    the phis of block b: a result, and an operand for each     *)
(*              block control may come from;                               *)
(*   body[b]    its instructions, the last of which is its terminator;     *)
(*   initial    what its variable table says of version 0: `supplied`, the *)
(*              variables the entry defines, which are arguments, live-ins   *)
(*              and initialized locals; and those whose origin is one of the *)
(*              `arguments` or one of the `locals`, which an instruction or  *)
(*              a phi may define: the builder gives version 0 to the first   *)
(*              definition of each origin.                                   *)
(*                                                                         *)
(* An instruction has an operation, the variable it defines (or Nil), the  *)
(* variables it reads, a constant, and the targets of a terminator.        *)
(***************************************************************************)
EXTENDS ControlFlow, ValueDomains

Instruction(op, dest, args, value) ==
    [op |-> op, dest |-> dest, args |-> args, value |-> value, targets |-> <<>>]
Control(op, args, targets) ==
    [op |-> op, dest |-> Nil, args |-> args, value |-> 0, targets |-> targets]

IsTerminator(i) == i.op \in {"jump", "branch", "switch", "return"}
Terminator(f, b) == Last(f.body[b])

OperandsFrom(phi, b) == {o \in ToSet(phi.operands) : o.pred = b}
OperandsReading(phi, v) == {o \in ToSet(phi.operands) : o.value = v}

PhiResults(f, b) == {phi.result : phi \in ToSet(f.phis[b])}
Dests(f, b) == {i.dest : i \in ToSet(f.body[b])} \ {Nil}
DefinedIn(f, b) == PhiResults(f, b) \cup Dests(f, b)
Variables(f) == f.initial.supplied \cup UNION {DefinedIn(f, b) : b \in NodeIds(f)}

(* What a function is that can run: a block ends with its only terminator, an
   operation has the operands its type gives it, a branch its two targets, and
   a phi names blocks and variables the function has. *)
ValueOps == {"const", "copy", "add", "clt", "clt_un", "ceq", "length", "opaque"}
ControlOps == {"jump", "branch", "switch", "return"}

InstructionSet(f) ==
    [op : ValueOps \cup ControlOps, dest : Variables(f) \cup {Nil},
     args : Seq(Variables(f)), value : Lowest .. Highest, targets : Seq(NodeIds(f))]
PhiSet(f) ==
    [result : Variables(f), operands : Seq([pred : NodeIds(f), value : Variables(f)])]

HasItsOperands(i) ==
    /\ i.op \in {"copy", "branch", "switch"} => Len(i.args) = 1
    /\ i.op \in {"add", "clt", "clt_un", "ceq"} => Len(i.args) = 2
    /\ i.op = "branch" => Len(i.targets) = 2
    /\ i.op \in {"jump", "switch"} => i.targets # <<>>

IsExecutable(f) ==
    /\ f = [count |-> f.count, targets |-> f.targets, clauses |-> f.clauses,
            initial |-> f.initial, phis |-> f.phis, body |-> f.body]
    /\ Nil \notin Variables(f)
    /\ f.phis \in [NodeIds(f) -> Seq(PhiSet(f))]
    /\ f.body \in [NodeIds(f) -> Seq(InstructionSet(f))]
    /\ \A b \in NodeIds(f) :
        /\ f.body[b] # <<>>
        /\ \A k \in DOMAIN f.body[b] :
              /\ HasItsOperands(f.body[b][k])
              /\ IsTerminator(f.body[b][k]) <=> k = Len(f.body[b])
              /\ IsTerminator(f.body[b][k]) => f.body[b][k].dest = Nil
        /\ Terminator(f, b).targets = f.targets[b]

(* check_single_definition: no two places define a variable. *)
IsSingleAssignment(f) ==
    \A b, c \in NodeIds(f) :
        /\ \A k \in DOMAIN f.body[b], l \in DOMAIN f.body[c] :
              f.body[b][k].dest = f.body[c][l].dest /\ f.body[b][k].dest # Nil => b = c /\ k = l
        /\ \A k \in DOMAIN f.phis[b], l \in DOMAIN f.phis[c] :
              f.phis[b][k].result = f.phis[c][l].result => b = c /\ k = l
        /\ PhiResults(f, b) \cap Dests(f, c) = {}
        /\ f.initial.supplied \cap DefinedIn(f, b) = {}

(* What has been defined wherever control comes to the k-th instruction of b. *)
DefinedBefore(f, b, k) ==
    f.initial.supplied \cup PhiResults(f, b) \cup {f.body[b][j].dest : j \in 1 .. k - 1}
        \cup UNION {DefinedIn(f, d) :
                       d \in {a \in NodeIds(f) \ {b} : b \in Behind(SsaCfg(f), 0)[a]}}

(* check_phi_operands, check_block_structure and check_dominance: a phi has one
   operand for each block that leads there, and a definition dominates its uses;
   the use of an operand is at the end of the block it comes from. The entry has no
   phi, as its comment says: no operand could stand for the call. *)
IsStrict(f) ==
    /\ f.phis[0] = <<>>
    /\ \A b \in ReachableFrom(SsaCfg(f), 0) :
        /\ \A k \in DOMAIN f.body[b] : ToSet(f.body[b][k].args) \subseteq DefinedBefore(f, b, k)
        /\ \A phi \in ToSet(f.phis[b]) :
              /\ {o.pred : o \in ToSet(phi.operands)} = PredecessorSet(SsaCfg(f), b)
              /\ \A o, p \in ToSet(phi.operands) : o.pred = p.pred => o = p
              /\ \A o \in ToSet(phi.operands) :
                    o.pred \in ReachableFrom(SsaCfg(f), 0)
                        => o.value \in DefinedBefore(f, o.pred, Len(f.body[o.pred]) + 1)

(* recompute_uses: block by block, the instructions before the phis, one site
   per operand. *)
UseSites(f, v) ==
    LET Sites(b) ==
            FlattenSeq([k \in DOMAIN f.body[b] |->
                [j \in 1 .. Len(Keep(f.body[b][k].args, {v})) |->
                    [block |-> b, index |-> k, isPhi |-> FALSE]]])
            \o FlattenSeq([k \in DOMAIN f.phis[b] |->
                [j \in 1 .. Len(Keep(f.phis[b][k].operands, OperandsReading(f.phis[b][k], v))) |->
                    [block |-> b, index |-> k, isPhi |-> TRUE]]])
    IN  FlattenSeq([k \in 1 .. f.count |-> Sites(k - 1)])
=============================================================================
