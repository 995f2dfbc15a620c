----------------------------- MODULE ExprBuilders -----------------------------
(***************************************************************************)
(* The expression builders of kleaver (klee/lib/Expr/ExprBuilder.cpp): the *)
(* default builder allocates what it is asked for, the folding builder     *)
(* moves constants outwards and folds them, and the simplifying builder,   *)
(* put on top of the folding one, removes negations and half of the        *)
(* comparisons.                                                            *)
(***************************************************************************)
EXTENDS ExprTerms

Builders == {"default", "folding", "simplifying"}

Neg(c) == Const(Truncate(-c.v, c.w), c.w)
Other(e, c) == IF Left(e) = c THEN Right(e) ELSE Left(e)

RECURSIVE Build(_, _, _, _), BuildNot(_, _)

\* ConstantFoldingBuilder::Add(constant, non constant).
FoldAddConstant(c, r) ==
  IF c.v = 0 THEN r
  ELSE IF r.k \notin {"Add", "Sub"} THEN Alloc("Add", c, r)
  ELSE IF IsConst(Left(r)) THEN Build("folding", r.k, Fold("Add", c, Left(r)), Right(r))
  ELSE IF IsConst(Right(r)) THEN Build("folding", "Add", Fold(r.k, c, Right(r)), Left(r))
  ELSE Alloc("Add", c, r)

\* ConstantFoldingBuilder::Add(non constant, non constant).
FoldAdd(l, r) ==
  IF l.k = "Add" THEN Build("folding", "Add", Left(l), Build("folding", "Add", Right(l), r))
  ELSE IF l.k = "Sub" THEN Build("folding", "Add", Left(l), Build("folding", "Sub", r, Right(l)))
  ELSE IF r.k \notin {"Add", "Sub"} THEN Alloc("Add", l, r)
  ELSE IF IsConst(Left(r)) THEN Build("folding", "Add", Left(r), Build("folding", r.k, l, Right(r)))
  ELSE IF IsConst(Right(r))
       THEN Build("folding", "Add", IF r.k = "Add" THEN Right(r) ELSE Neg(Right(r)),
                  Build("folding", "Add", l, Left(r)))
  ELSE Alloc("Add", l, r)

\* ConstantFoldingBuilder::Sub(constant, non constant).
FoldSubConstant(c, r) ==
  IF r.k = "Add" /\ (IsConst(Left(r)) \/ IsConst(Right(r)))
  THEN LET d == IF IsConst(Left(r)) THEN Left(r) ELSE Right(r)
       IN Build("folding", "Sub", Fold("Sub", c, d), Other(r, d))
  ELSE IF r.k = "Sub" /\ IsConst(Left(r))
       THEN Build("folding", "Add", Fold("Sub", c, Left(r)), Right(r))
  ELSE IF r.k = "Sub" /\ IsConst(Right(r))
       THEN Build("folding", "Sub", Fold("Add", c, Right(r)), Left(r))
  ELSE Alloc("Sub", c, r)

\* ConstantFoldingBuilder::Sub(non constant, non constant).
FoldSub(l, r) ==
  IF l.k = "Add" THEN Build("folding", "Add", Left(l), Build("folding", "Sub", Right(l), r))
  ELSE IF l.k = "Sub" THEN Build("folding", "Sub", Left(l), Build("folding", "Add", Right(l), r))
  ELSE IF r.k = "Add" /\ (IsConst(Left(r)) \/ IsConst(Right(r)))
       THEN LET d == IF IsConst(Left(r)) THEN Left(r) ELSE Right(r)
            IN Build("folding", "Add", Neg(d), Build("folding", "Sub", l, Other(r, d)))
  ELSE IF r.k = "Sub" /\ IsConst(Left(r))
       THEN Build("folding", "Add", Neg(Left(r)), Build("folding", "Add", l, Right(r)))
  ELSE IF r.k = "Sub" /\ IsConst(Right(r))
       THEN Build("folding", "Add", Right(r), Build("folding", "Sub", l, Left(r)))
  ELSE Alloc("Sub", l, r)

\* The folding builder's Mul, And, Or, Xor and Eq with one constant operand.
FoldConstant(op, c, r) ==
  CASE op = "Mul" -> IF c.v = 0 THEN c ELSE IF c.v = 1 THEN r ELSE Alloc(op, c, r)
    [] op = "And" -> IF c.v = 0 THEN c ELSE IF AllOnes(c) THEN r ELSE Alloc(op, c, r)
    [] op = "Or"  -> IF c.v = 0 THEN r ELSE IF AllOnes(c) THEN c ELSE Alloc(op, c, r)
    [] op = "Xor" -> IF c.v = 0 THEN r ELSE Alloc(op, c, r)
    [] op = "Eq"  -> IF c.w # Bool THEN Alloc(op, c, r)
                     ELSE IF c.v = 1 THEN r ELSE AllocNot(r)

\* A constant right operand is moved to the left.
FoldBinary(op, l, r) ==
  CASE op = "Add" -> IF IsConst(l) THEN FoldAddConstant(l, r)
                     ELSE IF IsConst(r) THEN FoldAddConstant(r, l) ELSE FoldAdd(l, r)
    [] op = "Sub" -> IF IsConst(l) THEN FoldSubConstant(l, r)
                     ELSE IF IsConst(r) THEN FoldAddConstant(Neg(r), l) ELSE FoldSub(l, r)
    [] op \in Logic \cup {"Mul", "Eq"} -> IF IsConst(l) THEN FoldConstant(op, l, r)
                                          ELSE IF IsConst(r) THEN FoldConstant(op, r, l)
                                          ELSE Alloc(op, l, r)
    [] OTHER -> Alloc(op, l, r)

\* ChainedBuilder: what the simplifying builder has no rule for goes to its
\* base, the folding builder.
Chained(op, l, r) == Build("folding", op, l, r)

\* SimplifyingBuilder.
SimplifyBinary(op, l, r) ==
  LET c == IF IsConst(l) THEN l ELSE r
      e == IF IsConst(l) THEN r ELSE l
  IN CASE op = "Eq" ->
            IF IsConst(c)
            THEN IF c.w # Bool THEN Chained("Eq", c, e)
                 ELSE IF c.v = 1 THEN e ELSE BuildNot("folding", e)
            ELSE IF l = r THEN Const(1, Bool) ELSE Chained("Eq", l, r)
       [] op = "Ne"  -> BuildNot("simplifying", Build("simplifying", "Eq", l, r))
       [] op = "Ugt" -> Build("simplifying", "Ult", r, l)
       [] op = "Uge" -> Build("simplifying", "Ule", r, l)
       [] op = "Sgt" -> Build("simplifying", "Slt", r, l)
       [] op = "Sge" -> Build("simplifying", "Sle", r, l)
       [] OTHER -> Chained(op, l, r)

Rule(b, op, l, r) == IF b = "folding" THEN FoldBinary(op, l, r) ELSE SimplifyBinary(op, l, r)

\* ConstantSpecializedExprBuilder: two constants are folded, and a builder's
\* rules are asked else.
SpecializeArithmetic(b, op, l, r) ==
  IF IsConst(l) /\ IsConst(r) THEN Const(Compute(op, l.v, r.v, l.w), l.w) ELSE Rule(b, op, l, r)
SpecializeBitwise(b, op, l, r) ==
  IF IsConst(l) /\ IsConst(r) THEN Const(Compute(op, l.v, r.v, l.w), l.w) ELSE Rule(b, op, l, r)
SpecializeCompare(b, op, l, r) ==
  IF IsConst(l) /\ IsConst(r) THEN Const(Compute(op, l.v, r.v, l.w), Bool) ELSE Rule(b, op, l, r)

\* DefaultExprBuilder allocates.
Build(b, op, l, r) ==
  IF b = "default" THEN Alloc(op, l, r)
  ELSE IF op \in Arithmetic THEN SpecializeArithmetic(b, op, l, r)
  ELSE IF op \in Logic \cup Shifts THEN SpecializeBitwise(b, op, l, r)
  ELSE SpecializeCompare(b, op, l, r)

\* !!X is X, and the simplifying builder pushes a negation into a disjunction.
BuildNot(b, e) ==
  IF b = "default" THEN AllocNot(e)
  ELSE IF e.k = "Not" THEN Left(e)
  ELSE IF IsConst(e) THEN Const(Complement(e.v, e.w), e.w)
  ELSE IF b = "simplifying" /\ e.k = "Or"
       THEN Build(b, "And", BuildNot(b, Left(e)), BuildNot(b, Right(e)))
  ELSE AllocNot(e)

\* ConstantSpecializedExprBuilder's Concat, Extract, ZExt, SExt and Select.
BuildConcat(b, l, r) ==
  IF b # "default" /\ IsConst(l) /\ IsConst(r) THEN Const(l.v * 2^r.w + r.v, l.w + r.w)
  ELSE AllocConcat(l, r)
BuildExtract(b, e, off, w) ==
  IF b # "default" /\ IsConst(e) THEN Const(ExtractBits(e.v, off, w), w) ELSE AllocExtract(e, off, w)
BuildExt(b, k, e, w) ==
  IF b # "default" /\ IsConst(e) THEN Const(IF k = "SExt" THEN SignExtend(e.v, e.w, w) ELSE e.v, w)
  ELSE AllocExt(k, e, w)
BuildSelect(b, c, t, f) ==
  IF b # "default" /\ IsConst(c) THEN IF c.v = 1 THEN t ELSE f
  ELSE AllocSelect(c, t, f)

RECURSIVE BuildRead(_, _, _, _)

\* Read drops the updates that are certainly of another index.
BuildRead(b, root, ups, i) ==
  IF b # "default" /\ ups # <<>>
  THEN LET same == Build(b, "Eq", i, Head(ups).i)
       IN IF IsConst(same) /\ same.v = 0 THEN BuildRead(b, root, Tail(ups), i)
          ELSE AllocRead(root, ups, i)
  ELSE AllocRead(root, ups, i)

=============================================================================
