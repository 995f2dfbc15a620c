------------------------------ MODULE BitVectors ------------------------------
(***************************************************************************)
(* Fixed-width integers as the constant folder computes them               *)
(* (ConstantExpr in klee/lib/Expr/Expr.cpp, IntEvaluation.h): a value of   *)
(* width w is a number in 0..2^w-1, and every result is truncated to its   *)
(* width.                                                                  *)
(***************************************************************************)
EXTENDS Integers, Bitwise

\* The value of a term whose computation the program leaves undefined.
Undef == -1

Truncate(v, w) == v % 2^w
Signed(v, w) == IF v < 2^(w - 1) THEN v ELSE v - 2^w

\* Signed division truncates towards zero, and the remainder has the sign of
\* the dividend.
Quotient(a, b) ==
  LET Abs(x) == IF x < 0 THEN -x ELSE x
      q == Abs(a) \div Abs(b)
  IN IF (a < 0) # (b < 0) THEN -q ELSE q

Bit(p) == IF p THEN 1 ELSE 0

\* A shift by the width or more leaves no bit of the operand.
Shift(op, a, b, w) ==
  CASE op = "Shl"  -> IF b >= w THEN 0 ELSE Truncate(a * 2^b, w)
    [] op = "LShr" -> IF b >= w THEN 0 ELSE a \div 2^b
    [] op = "AShr" -> IF b >= w THEN Truncate(IF Signed(a, w) < 0 THEN -1 ELSE 0, w)
                      ELSE Truncate(Signed(a, w) \div 2^b, w)

Arithmetic == {"Add", "Sub", "Mul", "UDiv", "SDiv", "URem", "SRem"}
Logic      == {"And", "Or", "Xor"}
Shifts     == {"Shl", "LShr", "AShr"}
Compares   == {"Eq", "Ne", "Ult", "Ule", "Ugt", "Uge", "Slt", "Sle", "Sgt", "Sge"}

Divides == {"UDiv", "SDiv", "URem", "SRem"}

\* The program guards these with klee_div_zero_check and klee_overshift_check.
IsUndefined(op, b, w) == (op \in Divides /\ b = 0) \/ (op \in Shifts /\ b >= w)

\* The binary operations of ConstantExpr on operands of width w.
Compute(op, a, b, w) ==
  LET sa == Signed(a, w)
      sb == Signed(b, w)
  IN CASE op = "Add"  -> Truncate(a + b, w)
       [] op = "Sub"  -> Truncate(a - b, w)
       [] op = "Mul"  -> Truncate(a * b, w)
       [] op = "UDiv" -> a \div b
       [] op = "URem" -> a % b
       [] op = "SDiv" -> Truncate(Quotient(sa, sb), w)
       [] op = "SRem" -> Truncate(sa - sb * Quotient(sa, sb), w)
       [] op = "And"  -> a & b
       [] op = "Or"   -> a | b
       [] op = "Xor"  -> a ^^ b
       [] op \in Shifts -> Shift(op, a, b, w)
       [] op = "Eq"   -> Bit(a = b)
       [] op = "Ne"   -> Bit(a # b)
       [] op = "Ult"  -> Bit(a < b)
       [] op = "Ule"  -> Bit(a <= b)
       [] op = "Ugt"  -> Bit(a > b)
       [] op = "Uge"  -> Bit(a >= b)
       [] op = "Slt"  -> Bit(sa < sb)
       [] op = "Sle"  -> Bit(sa <= sb)
       [] op = "Sgt"  -> Bit(sa > sb)
       [] op = "Sge"  -> Bit(sa >= sb)

Complement(a, w) == 2^w - 1 - a
ExtractBits(a, off, w) == Truncate(a \div 2^off, w)
SignExtend(a, from, to) == Truncate(Signed(a, from), to)

=============================================================================
