------------------------------ MODULE PhiRepair ------------------------------
(***************************************************************************)
(* The part of SsaFunction::repair_ssa that changes what a function says   *)
(* (ir/function/transforms.rs): the boundary of an edit session that       *)
(* changed instructions replaces a phi all of whose operands are one value *)
(* by that value and drops the phis no instruction needs.                  *)
(***************************************************************************)
EXTENDS SsaCode

Phis(f) == UNION {ToSet(f.phis[b]) : b \in NodeIds(f)}
Instructions(f) == UNION {ToSet(f.body[b]) : b \in NodeIds(f)}
Values(phi) == {o.value : o \in ToSet(phi.operands)}

WithoutPhis(f, results) ==
    [f EXCEPT !.phis = [b \in NodeIds(f) |->
                           Keep(@[b], {phi \in ToSet(@[b]) : phi.result \notin results})]]

(* would_create_self_reference: the definition of the source reads the phi. *)
DefinitionReads(f, v, read) ==
    \E i \in Instructions(f) : i.dest = v /\ read \in ToSet(i.args)

(* The value a phi stands for, or itself when it merges nothing else. *)
Source(f, phi) ==
    LET others == Values(phi) \ {phi.result}
    IN  CASE others = {} /\ phi.operands # <<>> -> phi.result
          [] Cardinality(others) = 1
                /\ ~DefinitionReads(f, CHOOSE v \in others : TRUE, phi.result)
                -> CHOOSE v \in others : TRUE
          [] OTHER -> Nil

(* The end of the chain of trivial phis that begins at v. *)
ChainEnd(trivial, v) ==
    LET sources(x) == {t[2] : t \in {u \in trivial : u[1] = x}} \ {x}
        C[k \in 0 .. Cardinality(trivial)] ==
            IF k = 0 THEN v
            ELSE IF sources(C[k - 1]) = {} THEN C[k - 1]
            ELSE CHOOSE y \in sources(C[k - 1]) : TRUE
    IN  C[Cardinality(trivial)]

(* One round of eliminate_trivial_phis, in repair mode.  The checked
   replacement refuses no use that control can reach: the one value a phi
   merges dominates it. *)
RetireTrivialPhis(f) ==
    LET trivial == {<<phi.result, Source(f, phi)>> :
                       phi \in {p \in Phis(f) : Source(f, p) # Nil}}
        Resolved(v) == IF v \in {t[1] : t \in trivial} THEN ChainEnd(trivial, v) ELSE v
        Instead(i) == [i EXCEPT !.args = [j \in DOMAIN @ |-> Resolved(@[j])]]
        Through(phi, o) ==
            IF Resolved(o.value) = phi.result THEN o ELSE [o EXCEPT !.value = Resolved(@)]
        Merging(phi) == [phi EXCEPT !.operands = [j \in DOMAIN @ |-> Through(phi, @[j])]]
        replaced ==
            [f EXCEPT
               !.body = [b \in NodeIds(f) |-> [k \in DOMAIN @[b] |-> Instead(@[b][k])]],
               !.phis = [b \in NodeIds(f) |-> [k \in DOMAIN @[b] |-> Merging(@[b][k])]]]
        read == (UNION {ToSet(i.args) : i \in Instructions(replaced)})
                    \cup UNION {Values(phi) : phi \in Phis(replaced)}
    IN  WithoutPhis(replaced, {t[1] : t \in trivial} \ read)

EliminateTrivialPhis(f) ==
    LET R[k \in 0 .. Cardinality(Phis(f))] == IF k = 0 THEN f ELSE RetireTrivialPhis(R[k - 1])
    IN  R[Cardinality(Phis(f))]

(* A phi is needed by an instruction, or by a phi that is needed. *)
EliminateDeadPhis(f) ==
    LET L[k \in 0 .. Cardinality(Phis(f))] ==
            IF k = 0 THEN UNION {ToSet(i.args) : i \in Instructions(f)}
            ELSE L[k - 1] \cup UNION {Values(p) : p \in {q \in Phis(f) : q.result \in L[k - 1]}}
        needed == L[Cardinality(Phis(f))]
    IN  WithoutPhis(f, {phi.result : phi \in Phis(f)} \ needed)

RepairSsa(f) == EliminateDeadPhis(EliminateTrivialPhis(f))
=============================================================================
