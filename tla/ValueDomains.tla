---------------------------- MODULE ValueDomains ----------------------------
(***************************************************************************)
(* What an instruction computes, and what the two value analyses say about *)
(* it: the lattice of analysis/dataflow/sccp.rs, in which Top is "nothing  *)
(* known yet" and Bottom "any value", and the intervals of                 *)
(* analysis/range.rs, in which Top is any value and Bottom none.  An       *)
(* integer has Width bits and wraps; an interval's bounds are wider, as    *)
(* the i64 bounds are wider than the 32-bit values.                        *)
(***************************************************************************)
EXTENDS Integers, Sequences

CONSTANTS Width,    \* of a value, in bits
          Opaque    \* the values a call or a load may return

Lowest == -(2 ^ (Width - 1))
Highest == 2 ^ (Width - 1) - 1
Wrap(n) == ((n - Lowest) % (2 ^ Width)) + Lowest
Unsigned(n) == n % (2 ^ Width)
Truth(p) == IF p THEN 1 ELSE 0

Top == <<"top">>
Bottom == <<"bottom">>
Constant(c) == <<"constant", c>>
Interval(min, max) == <<"interval", min, max>>

NoMin == -1000      \* a bound an interval does not have
NoMax == 1000

(* The second part follows from the first; the provers know nothing of powers. *)
ASSUME WidthAssumption ==
    /\ Width \in Nat \ {0, 1}
    /\ 2 ^ (Width - 1) > 1 /\ 2 ^ Width = 2 * 2 ^ (Width - 1)
    /\ NoMin < Lowest /\ Highest < NoMax
ASSUME OpaqueAssumption == Opaque \subseteq Lowest .. Highest

IsConstant(fact) ==
    \/ fact[1] = "constant"
    \/ fact[1] = "interval" /\ fact[2] = fact[3]
ValueOf(fact) == fact[2]

MinOf(range) == IF range[1] = "interval" THEN range[2] ELSE NoMin
MaxOf(range) == IF range[1] = "interval" THEN range[3] ELSE NoMax

Least(a, b) == IF a < b THEN a ELSE b
Greatest(a, b) == IF a > b THEN a ELSE b

-----------------------------------------------------------------------------
(* The instructions, on values: what a result may be. *)
Computed(op, value, x, y) ==
    CASE op = "const" -> {value}
      [] op = "copy" -> {x}
      [] op = "add" -> {Wrap(x + y)}
      [] op = "clt" -> {Truth(x < y)}
      [] op = "clt_un" -> {Truth(Unsigned(x) < Unsigned(y))}
      [] op = "ceq" -> {Truth(x = y)}
      [] op = "length" -> {v \in Opaque : v >= 0}
      [] OTHER -> Opaque

IsComparison(op) == op \in {"clt", "clt_un", "ceq"}

-----------------------------------------------------------------------------
(* sccp.rs: ScalarValue::meet, and evaluate_instruction with
   evaluate_const_op: the operands are read in order, up to the first one that
   is no constant. *)
MeetConstants(a, b) ==
    CASE a = Top -> b
      [] b = Top -> a
      [] a = b -> a
      [] OTHER -> Bottom

EvaluateConstant(op, value, x, y) ==
    CASE op = "copy" -> x
      [] op = "const" -> Constant(value)
      [] op \in {"length", "opaque"} -> Bottom
      [] OTHER -> IF ~IsConstant(x) THEN x
                  ELSE IF ~IsConstant(y) THEN y
                  ELSE Constant(CHOOSE c \in Computed(op, value, ValueOf(x), ValueOf(y)) : TRUE)

-----------------------------------------------------------------------------
(* range.rs: ValueRange::join, meet and widen, on intervals *)
JoinRanges(a, b) ==
    CASE a = Bottom -> b
      [] b = Bottom -> a
      [] Top \in {a, b} -> Top
      [] OTHER -> Interval(Least(a[2], b[2]), Greatest(a[3], b[3]))

MeetRanges(a, b) ==
    CASE Bottom \in {a, b} -> Bottom
      [] a = Top -> b
      [] b = Top -> a
      [] OTHER -> LET min == Greatest(a[2], b[2])
                      max == Least(a[3], b[3])
                  IN  IF min > max THEN Bottom ELSE Interval(min, max)

(* A bound that grows is dropped; a bound the other range does not have is not
   compared, so the old one stays. *)
Widen(a, b) ==
    CASE a = Bottom -> b
      [] b = Bottom -> a
      [] Top \in {a, b} -> Top
      [] OTHER -> Interval(IF b[2] # NoMin /\ b[2] < a[2] THEN NoMin ELSE a[2],
                           IF b[3] # NoMax /\ b[3] > a[3] THEN NoMax ELSE a[3])

(* wrap_to_width: an interval that leaves the width has wrapped. *)
WrapToWidth(range) ==
    IF range = Bottom \/ MinOf(range) < Lowest \/ MaxOf(range) > Highest THEN Top ELSE range

EvaluateRange(op, value, x, y) ==
    CASE op = "const" -> Interval(value, value)
      [] op = "copy" -> x
      [] op = "add" -> WrapToWidth(
             IF Bottom \in {x, y} THEN Bottom
             ELSE IF Top \in {x, y} THEN Top
             ELSE Interval(x[2] + y[2], x[3] + y[3]))
      [] IsComparison(op) -> Interval(0, 1)
      [] op = "length" -> Interval(0, NoMax)
      [] OTHER -> Top

(* The values a fact allows. *)
AllowsConstant(fact, v) == fact = Bottom \/ fact = Constant(v)
AllowsRange(range, v) ==
    range = Top \/ (range[1] = "interval" /\ range[2] <= v /\ v <= range[3])
=============================================================================
