------------------------------ MODULE ExprTerms ------------------------------
(***************************************************************************)
(* Expressions and their construction (klee/lib/Expr/Expr.cpp): the create *)
(* functions fold constants and rewrite what they are given.  A term is a  *)
(* record: its kind k, its width w and its kids; a constant has its value  *)
(* v, an extract its offset off, a read its array root and the updates     *)
(* written to it, newest first.  References to equal terms are equal.      *)
(***************************************************************************)
EXTENDS BitVectors, Sequences

CONSTANTS
  Arrays,          \* names of arrays
  ArraySize,       \* their size in bytes
  ConstantArrays,  \* name -> values, of the arrays with constant contents
  ByteWidth,       \* Expr::Int8, the range of an array
  IndexWidth,      \* Expr::Int32, the domain of an array
  ConstArrayOpt    \* --const-array-opt

ASSUME TermAssumption ==
  /\ {ArraySize, ByteWidth, IndexWidth} \subseteq Nat \ {0}
  /\ DOMAIN ConstantArrays \subseteq Arrays
  /\ ConstArrayOpt \in BOOLEAN

Bool == 1       \* Expr::Bool

Const(v, w) == [k |-> "Const", w |-> w, kids |-> <<>>, v |-> v]
IsConst(e)  == e.k = "Const"
Node(k, w, kids) == [k |-> k, w |-> w, kids |-> kids]
Left(e)  == e.kids[1]
Right(e) == e.kids[2]

\* BinaryExpr::alloc; a comparison has the width of a truth value.
Alloc(op, l, r) == Node(op, IF op \in Compares THEN Bool ELSE l.w, <<l, r>>)
AllocRead(root, ups, i) == [k |-> "Read", w |-> ByteWidth, kids |-> <<i>>, root |-> root, ups |-> ups]
AllocExtract(e, off, w) == [k |-> "Extract", w |-> w, kids |-> <<e>>, off |-> off]
AllocConcat(l, r) == Node("Concat", l.w + r.w, <<l, r>>)
AllocSelect(c, t, f) == Node("Select", t.w, <<c, t, f>>)
AllocNot(e) == Node("Not", e.w, <<e>>)
AllocExt(k, e, w) == Node(k, w, <<e>>)
Update(i, v) == [i |-> i, v |-> v]

-----------------------------------------------------------------------------
(* Evaluation (ExprEvaluator.cpp) in a world, which gives every byte of    *)
(* every symbolic array a value.                                           *)

Index == 0..(ArraySize - 1)
World == [Arrays \ DOMAIN ConstantArrays -> [Index -> 0..(2^ByteWidth - 1)]]

RECURSIVE Eval(_, _), EvalRead(_, _, _, _)

\* ExprEvaluator::evalRead: the newest update of the index, or the array.
EvalRead(root, ups, i, wd) ==
  IF i = Undef \/ i \notin Index THEN Undef
  ELSE IF ups = <<>>
       THEN IF root \in DOMAIN ConstantArrays THEN ConstantArrays[root][i + 1] ELSE wd[root][i]
       ELSE LET at == Eval(Head(ups).i, wd)
            IN IF at = Undef THEN Undef
               ELSE IF at = i THEN Eval(Head(ups).v, wd)
               ELSE EvalRead(root, Tail(ups), i, wd)

\* What a kind computes from the values of its kids.
Apply(e, vs) ==
  CASE e.k = "NotOptimized" -> vs[1]
    [] e.k = "Select"  -> IF vs[1] = 1 THEN vs[2] ELSE vs[3]
    [] e.k = "Concat"  -> vs[1] * 2^Right(e).w + vs[2]
    [] e.k = "Extract" -> ExtractBits(vs[1], e.off, e.w)
    [] e.k = "ZExt"    -> Truncate(vs[1], e.w)
    [] e.k = "SExt"    -> SignExtend(vs[1], Left(e).w, e.w)
    [] e.k = "Not"     -> Complement(vs[1], e.w)
    [] OTHER -> IF IsUndefined(e.k, vs[2], Left(e).w) THEN Undef
                ELSE Compute(e.k, vs[1], vs[2], Left(e).w)

Eval(e, wd) ==
  IF IsConst(e) THEN e.v
  ELSE IF e.k = "Read" THEN EvalRead(e.root, e.ups, Eval(e.kids[1], wd), wd)
  ELSE LET vs == [i \in DOMAIN e.kids |-> Eval(e.kids[i], wd)]
       IN IF \E i \in DOMAIN vs : vs[i] = Undef THEN Undef ELSE Apply(e, vs)

-----------------------------------------------------------------------------
(* The create functions.                                                   *)

RECURSIVE Create(_, _, _), CreateExtract(_, _, _), EqPartialR(_, _)

IsKind(e, k) == e.k = k /\ IsConst(Left(e))      \* k(constant, ...)
AllOnes(c) == c.v = 2^c.w - 1
IsZero(e) == Create("Eq", e, Const(0, e.w))      \* Expr::createIsZero

\* ConstantExpr::Add ... Sge.
Fold(op, l, r) == Const(Compute(op, l.v, r.v, l.w), IF op \in Compares THEN Bool ELSE l.w)

XorPartialR(c, r) ==
  IF c.v = 0 THEN r
  ELSE IF c.w = Bool THEN Create("Eq", Const(0, Bool), r)
  ELSE Alloc("Xor", c, r)

\* Defective: A + (B - c) is taken for A + (B + c).
AddPartialRSign(c, r) ==
  IF c.w = Bool THEN XorPartialR(c, r)
  ELSE IF c.v = 0 THEN r
  ELSE IF IsKind(r, "Add") \/ IsKind(r, "Sub")
       THEN Create("Add", Create("Add", c, Left(r)), Right(r))
  ELSE Alloc("Add", c, r)

AddPartialR(c, r) ==
  IF c.w = Bool THEN XorPartialR(c, r)
  ELSE IF c.v = 0 THEN r
  ELSE IF IsKind(r, "Add") \/ IsKind(r, "Sub")      \* A + (B +- c) = (A + B) +- c
       THEN Create(r.k, Create("Add", c, Left(r)), Right(r))
  ELSE Alloc("Add", c, r)

AddCreate(l, r) ==
  IF l.w = Bool THEN Alloc("Xor", l, r)
  ELSE IF IsKind(l, "Add") THEN Create("Add", Left(l), Create("Add", Right(l), r))
  ELSE IF IsKind(l, "Sub") THEN Create("Add", Left(l), Create("Sub", r, Right(l)))
  ELSE IF IsKind(r, "Add") THEN Create("Add", Left(r), Create("Add", l, Right(r)))
  ELSE IF IsKind(r, "Sub") THEN Create("Add", Left(r), Create("Sub", l, Right(r)))
  ELSE Alloc("Add", l, r)

SubPartialR(c, r) ==
  IF c.w = Bool THEN XorPartialR(c, r)
  ELSE IF IsKind(r, "Add") THEN Create("Sub", Create("Sub", c, Left(r)), Right(r))
  ELSE IF IsKind(r, "Sub") THEN Create("Add", Create("Sub", c, Left(r)), Right(r))
  ELSE Alloc("Sub", c, r)

SubPartial(l, c) == AddPartialR(Const(Truncate(-c.v, c.w), c.w), l)      \* l - c = l + (-c)

SubCreate(l, r) ==
  IF l.w = Bool THEN Alloc("Xor", l, r)
  ELSE IF l = r THEN Const(0, l.w)
  ELSE IF IsKind(l, "Add") THEN Create("Add", Left(l), Create("Sub", Right(l), r))
  ELSE IF IsKind(l, "Sub") THEN Create("Sub", Left(l), Create("Add", Right(l), r))
  ELSE IF IsKind(r, "Add") THEN Create("Sub", Create("Sub", l, Right(r)), Left(r))
  ELSE IF IsKind(r, "Sub") THEN Create("Sub", Create("Add", l, Right(r)), Left(r))
  ELSE Alloc("Sub", l, r)

AndPartial(l, c) == IF AllOnes(c) THEN l ELSE IF c.v = 0 THEN c ELSE Alloc("And", l, c)
OrPartial(l, c)  == IF AllOnes(c) THEN c ELSE IF c.v = 0 THEN l ELSE Alloc("Or", l, c)

MulPartialR(c, r) ==
  IF c.w = Bool THEN AndPartial(r, c)
  ELSE IF c.v = 1 THEN r
  ELSE IF c.v = 0 THEN c
  ELSE Alloc("Mul", c, r)

\* UDiv, SDiv, URem, SRem, Shl, LShr, AShr, which do not look for constants.
\* On a truth value a divisor must be 1, and so must a shift be 0.
RestCreate(op, l, r) ==
  IF l.w # Bool THEN Alloc(op, l, r)
  ELSE CASE op \in {"UDiv", "SDiv", "AShr"} -> l
         [] op \in {"URem", "SRem"} -> Const(0, Bool)
         [] op \in {"Shl", "LShr"} -> Create("And", l, IsZero(r))

\* UltExpr_create and its like; on truth values, as logic.
CompareCreate(op, l, r) ==
  IF l.w # Bool THEN Alloc(op, l, r)
  ELSE CASE op = "Ult" -> Create("And", IsZero(l), r)
         [] op = "Ule" -> Create("Or", IsZero(l), r)
         [] op = "Slt" -> Create("And", l, IsZero(r))
         [] op = "Sle" -> Create("Or", l, IsZero(r))

EqCreate(l, r) == IF l = r THEN Const(1, Bool) ELSE Alloc("Eq", l, r)

\* TryConstArrayOpt: a read of a constant array equals c at these indices.
ConstArrayEq(c, rd) ==
  IF rd.root \notin DOMAIN ConstantArrays \/ rd.ups # <<>> THEN EqCreate(c, rd)
  ELSE LET F[n \in 0..ArraySize] ==
             IF n = 0 THEN Const(0, Bool)
             ELSE IF ConstantArrays[rd.root][n] # c.v THEN F[n - 1]
             ELSE Create("Or", F[n - 1], Create("Eq", Left(rd), Const(n - 1, Left(rd).w)))
       IN F[ArraySize]

\* The constant is compared with the operand of an extension, when it is one
\* that the extension can give.
EqExtended(c, r) ==
  LET src   == Left(r)
      trunc == Const(Truncate(c.v, src.w), src.w)
      back  == IF r.k = "SExt" THEN SignExtend(trunc.v, src.w, c.w) ELSE trunc.v
  IN IF c.v = back THEN Create("Eq", src, trunc) ELSE Const(0, Bool)

EqPartialR(c, r) ==
  IF c.w = Bool
  THEN IF c.v = 1 THEN r
       ELSE IF r.k = "Eq" /\ IsConst(Left(r)) /\ Left(r).w = Bool /\ Left(r).v = 0 THEN Right(r)
       ELSE IF r.k = "Or" THEN Create("And", IsZero(Left(r)), IsZero(Right(r)))
       ELSE EqCreate(c, r)
  ELSE IF r.k \in {"SExt", "ZExt"} THEN EqExtended(c, r)
  ELSE IF IsKind(r, "Add") THEN EqPartialR(Fold("Sub", c, Left(r)), Right(r))
  ELSE IF IsKind(r, "Sub") THEN EqPartialR(Fold("Sub", Left(r), c), Right(r))
  ELSE IF r.k = "Read" /\ ConstArrayOpt THEN ConstArrayEq(c, r)
  ELSE EqCreate(c, r)

\* One operand is the constant c (BCREATE_R, CMPCREATE_T), on the left or on
\* the right of e.
Partial(op, c, e, onLeft) ==
  CASE op = "Add" -> AddPartialR(c, e)
    [] op = "Sub" -> IF onLeft THEN SubPartialR(c, e) ELSE SubPartial(e, c)
    [] op = "Mul" -> MulPartialR(c, e)
    [] op = "And" -> AndPartial(e, c)
    [] op = "Or"  -> OrPartial(e, c)
    [] op = "Xor" -> XorPartialR(c, e)
    [] op = "Eq"  -> EqPartialR(c, e)

\* No operand is constant, or it does not matter.
General(op, l, r) ==
  CASE op = "Add" -> AddCreate(l, r)
    [] op = "Sub" -> SubCreate(l, r)
    [] op = "Mul" -> Alloc(IF l.w = Bool THEN "And" ELSE "Mul", l, r)
    [] op \in Logic -> Alloc(op, l, r)
    [] op = "Eq" -> EqCreate(l, r)
    [] op \in Divides \cup Shifts -> RestCreate(op, l, r)
    [] OTHER -> CompareCreate(op, l, r)

\* AddExpr::create ... SgeExpr::create.
Create(op, l, r) ==
  IF op = "Ne" THEN Create("Eq", Const(0, Bool), Create("Eq", l, r))
  ELSE IF op \in {"Ugt", "Uge", "Sgt", "Sge"}
  THEN Create([Ugt |-> "Ult", Uge |-> "Ule", Sgt |-> "Slt", Sge |-> "Sle"][op], r, l)
  ELSE IF IsConst(l) /\ IsConst(r) THEN Fold(op, l, r)
  ELSE IF op \in {"Add", "Sub", "Mul", "Eq"} \cup Logic /\ IsConst(l) THEN Partial(op, l, r, TRUE)
  ELSE IF op \in {"Add", "Sub", "Mul", "Eq"} \cup Logic /\ IsConst(r) THEN Partial(op, r, l, FALSE)
  ELSE General(op, l, r)

CreateNot(e) == IF IsConst(e) THEN Const(Complement(e.v, e.w), e.w) ELSE AllocNot(e)
CreateNotOptimized(e) == Node("NotOptimized", e.w, <<e>>)

\* ConcatExpr::create merges extracts of adjacent bits.
CreateConcat(l, r) ==
  IF IsConst(l) /\ IsConst(r) THEN Const(l.v * 2^r.w + r.v, l.w + r.w)
  ELSE IF l.k = "Extract" /\ r.k = "Extract" /\ Left(l) = Left(r) /\ r.off + r.w = l.off
       THEN CreateExtract(Left(l), r.off, l.w + r.w)
  ELSE AllocConcat(l, r)

\* ExtractExpr::create looks into a concatenation.
CreateExtract(e, off, w) ==
  IF w = e.w THEN e
  ELSE IF IsConst(e) THEN Const(ExtractBits(e.v, off, w), w)
  ELSE IF e.k # "Concat" THEN AllocExtract(e, off, w)
  ELSE LET rw == Right(e).w
       IN IF off >= rw THEN CreateExtract(Left(e), off - rw, w)
          ELSE IF off + w <= rw THEN CreateExtract(Right(e), off, w)
          ELSE CreateConcat(CreateExtract(Left(e), 0, w - rw + off),
                            CreateExtract(Right(e), off, rw - off))

\* ZExtExpr::create and SExtExpr::create, which also truncate.
CreateExt(k, e, w) ==
  IF w = e.w THEN e
  ELSE IF w < e.w THEN CreateExtract(e, 0, w)
  ELSE IF IsConst(e) THEN Const(IF k = "SExt" THEN SignExtend(e.v, e.w, w) ELSE e.v, w)
  ELSE AllocExt(k, e, w)

\* SelectExpr::create: on truth values, as logic when a side is constant.
CreateSelect(c, t, f) ==
  IF IsConst(c) THEN IF c.v = 1 THEN t ELSE f
  ELSE IF t = f THEN t
  ELSE IF t.w = Bool /\ IsConst(t)
       THEN IF t.v = 1 THEN Create("Or", c, f) ELSE Create("And", IsZero(c), f)
  ELSE IF t.w = Bool /\ IsConst(f)
       THEN IF f.v = 1 THEN Create("Or", IsZero(c), t) ELSE Create("And", c, t)
  ELSE AllocSelect(c, t, f)

RECURSIVE CreateRead(_, _, _, _)

\* ReadExpr::create: as long as it is certain whether the index is the one of
\* an update, the list is searched; what is read keeps the whole list.
CreateRead(root, ups, i, all) ==
  IF ups = <<>> THEN AllocRead(root, all, i)
  ELSE LET same == Create("Eq", i, Head(ups).i)
       IN IF ~IsConst(same) THEN AllocRead(root, all, i)
          ELSE IF same.v = 1 THEN Head(ups).v
          ELSE CreateRead(root, Tail(ups), i, all)

=============================================================================
