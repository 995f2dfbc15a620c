---------------------------- MODULE SolverBuilders ----------------------------
(***************************************************************************)
(* The translation of expressions for the core solvers: STPBuilder.cpp,    *)
(* Z3Builder.cpp and MetaSMTBuilder.h in klee/lib/Solver.  A translation   *)
(* is given by its value: what the formula the builder makes evaluates to  *)
(* when the solver gives the arrays the contents of a world.  The solvers' *)
(* own operations are external: Compute, Shift and Apply stand for them.   *)
(***************************************************************************)
EXTENDS ExprTerms

CONSTANTS
  WordWidth,        \* 32: the width the division by constants is made for
  OptimizeDivides   \* --optimize-divides

ASSUME WordAssumption == WordWidth \in Nat \ {0} /\ OptimizeDivides \in BOOLEAN

-----------------------------------------------------------------------------
(* ConstantDivision.cpp: the constants with which a multiplication or a    *)
(* division by a known number is done with shifts and additions.           *)

LongWidth == 2 * WordWidth      \* 64

\* APInt::getActiveBits.
ActiveBits(n) == CHOOSE b \in 0..(n + 1) : n < 2^b /\ (b = 0 \/ 2^(b - 1) <= n)

RightmostBit(x) == CHOOSE b \in 0..LongWidth : x % 2^(b + 1) = 2^b
IsPowerOfTwo(x) == x > 0 /\ x = 2^RightmostBit(x)

RECURSIVE MultConstants(_, _, _)

\* ComputeMultConstants64: the bits to add and the bits to subtract, one region
\* of ones at a time.  The carry of the last region may leave the word.
MultConstants(x, add, sub) ==
  IF x = 0 THEN [add |-> add, sub |-> sub]
  ELSE LET low  == RightmostBit(x)
           p    == Truncate(x + 2^low, LongWidth)
           high == IF p = 0 THEN LongWidth ELSE RightmostBit(p)
           rest == IF p = 0 THEN 0 ELSE p - 2^high
           up   == IF high = LongWidth THEN {} ELSE {high}
       IN IF high = low + 1 THEN MultConstants(rest, add \cup {low}, sub)
          ELSE IF low > 0 /\ (low - 1) \in add
          THEN MultConstants(rest, (add \ {low - 1}) \cup up, sub \cup {low - 1})
          ELSE MultConstants(rest, add \cup up, sub \cup {low})

Log2Ceil(d) == ActiveBits(d - 1)
ExpBase2(n) == IF n < WordWidth THEN 2^n ELSE 0

\* Defective: the second shift is not one less than the logarithm.
UDivConstantsShift(d) ==
  LET l == Log2Ceil(d)
      mid == Truncate(ExpBase2(l) - d, WordWidth)
  IN [m |-> Truncate((2^WordWidth * mid) \div d + 1, WordWidth), sh1 |-> 1, sh2 |-> l]

\* ComputeUDivConstants32.
UDivConstants(d) ==
  LET l   == Log2Ceil(d)
      mid == Truncate(ExpBase2(l) - d, WordWidth)
  IN [m |-> Truncate((2^WordWidth * mid) \div d + 1, WordWidth),
      sh1 |-> IF l < 1 THEN l ELSE 1,
      sh2 |-> IF l - 1 > 0 THEN l - 1 ELSE 0]

\* ComputeSDivConstants32, of a divisor as a signed number.
SDivConstants(d) ==
  LET abs == IF d < 0 THEN -d ELSE d
      log == Log2Ceil(Truncate(abs, WordWidth))
      l   == IF abs = 2^(WordWidth - 1) THEN WordWidth - 1 ELSE IF log > 1 THEN log ELSE 1
      m   == (2^WordWidth * ExpBase2(l - 1)) \div abs + 1
  IN [m |-> Signed(Truncate(m - 2^WordWidth, WordWidth), WordWidth),
      sign |-> IF d < 0 THEN 2^WordWidth - 1 ELSE 0,
      post |-> l - 1]

-----------------------------------------------------------------------------
(* What the builders share.                                                *)

Solvers == {"STP", "Z3", "MetaSMT"}

\* The result of a failed assertion, "uncanonicalized add" and its like.
Abort == -2

Uncanonical == {"Ne", "Ugt", "Uge", "Sgt", "Sge"}

\* A concatenation of truth values has no sort the solvers know.
JoinsTruth(e) == e.k = "Concat" /\ \E i \in DOMAIN e.kids : e.kids[i].w = Bool

-----------------------------------------------------------------------------
(* STPBuilder                                                              *)

StpLeftShift(v, s, w)  == IF s >= w THEN 0 ELSE ExtractBits(v, 0, w - s) * 2^s
StpRightShift(v, s, w) == IF s >= w THEN 0 ELSE ExtractBits(v, s, w - s)
StpAShrByConstant(v, s, w) ==
  IF s = 0 THEN v
  ELSE IF s >= w THEN 0
  ELSE IF v >= 2^(w - 1) THEN (2^s - 1) * 2^(w - s) + ExtractBits(v, s, w - s)
  ELSE StpRightShift(v, s, w)

\* The bits of the amount that a shift of this width can use.
StpPartialShift(s, w) == Truncate(s, ActiveBits(w))

\* One case per amount; an amount beyond them shifts to zero.
StpVarLeftShift(v, s, w) ==
  LET used == StpPartialShift(s, w)
  IN IF s < w /\ used \in 0..(w - 1) THEN StpLeftShift(v, used, w) ELSE 0
StpVarRightShift(v, s, w) ==
  LET used == StpPartialShift(s, w)
  IN IF s < w /\ used \in 0..(w - 1) THEN StpRightShift(v, used, w) ELSE 0
\* The cases start from the shift by w-1, which has no case of its own.
StpVarArithRightShift(v, s, w) ==
  LET used == StpPartialShift(s, w)
  IN IF s >= w THEN 0
     ELSE StpAShrByConstant(v, IF used \in 0..(w - 2) THEN used ELSE w - 1, w)

RECURSIVE StpSum(_, _, _)
StpSum(v, w, bits) ==
  IF bits = {} THEN 0
  ELSE LET b == CHOOSE b \in bits : TRUE
       IN Truncate(StpLeftShift(v, b, w) + StpSum(v, w, bits \ {b}), w)

\* The bits above the width are dropped.
StpMulByConstant(v, w, x) ==
  LET mc    == MultConstants(x, {}, {})
      below == 0..(w - 1)
  IN IF mc.add \cap mc.sub # {} THEN Abort      \* "invalid mult constants"
     ELSE Truncate(StpSum(v, w, mc.add \cap below) - StpSum(v, w, mc.sub \cap below), w)

StpUDivByConstant(n, d) ==
  LET c  == UDivConstants(d)
      w  == WordWidth
      t1 == ExtractBits(StpMulByConstant(n, LongWidth, c.m), w, w)
  IN StpVarRightShift(Truncate(StpVarRightShift(Truncate(n - t1, w), c.sh1, w) + t1, w), c.sh2, w)

StpSDivByConstant(n, d) ==
  LET w    == WordWidth
      c    == SDivConstants(Signed(d, w))
      mult == StpMulByConstant(SignExtend(n, w, LongWidth), LongWidth, Truncate(c.m, LongWidth))
      npm  == Truncate(n + ExtractBits(mult, w, w), w)
      post == Truncate(StpVarRightShift(SignExtend(npm, w, LongWidth), c.post, LongWidth), w)
      xs   == IF n >= 2^(w - 1) THEN 2^w - 1 ELSE 0
  IN Truncate((Truncate(post - xs, w) ^^ c.sign) - c.sign, w)

StpArithmetic(e, l, r) ==
  IF e.w = Bool THEN Abort
  ELSE IF e.k = "Mul" /\ IsConst(Left(e)) THEN StpMulByConstant(r, e.w, l)
  ELSE Compute(e.k, l, r, e.w)

\* By a power of two as bits, by another constant of a word without a division.
StpDivide(e, l, r) ==
  LET w    == e.w
      pow  == IsConst(Right(e)) /\ IsPowerOfTwo(r)
      fast == IsConst(Right(e)) /\ OptimizeDivides /\ w = WordWidth
  IN CASE w = Bool -> Abort
       [] e.k = "UDiv" /\ pow -> StpRightShift(l, RightmostBit(r), w)
       [] e.k = "UDiv" /\ fast /\ ~pow -> StpUDivByConstant(l, r)
       [] e.k = "URem" /\ pow -> ExtractBits(l, 0, RightmostBit(r))
       [] e.k = "URem" /\ fast /\ ~pow ->
            Truncate(l - StpMulByConstant(StpUDivByConstant(l, r), w, r), w)
       [] e.k = "SDiv" /\ fast /\ r \notin {1, 2^w - 1} -> StpSDivByConstant(l, r)
       [] OTHER -> Compute(e.k, l, r, w)

\* Exclusive or of truth values is an if-then-else.
StpBitwise(e, l, r) ==
  IF e.w = Bool /\ e.k = "Xor" THEN IF l = 1 THEN 1 - r ELSE r ELSE Compute(e.k, l, r, e.w)

StpShift(e, l, r) ==
  LET c == IsConst(Right(e))
  IN CASE e.w = Bool -> Abort
       [] e.k = "Shl"  -> IF c THEN StpLeftShift(l, r, e.w) ELSE StpVarLeftShift(l, r, e.w)
       [] e.k = "LShr" -> IF c THEN StpRightShift(l, r, e.w) ELSE StpVarRightShift(l, r, e.w)
       [] e.k = "AShr" -> IF c THEN StpAShrByConstant(l, r, e.w) ELSE StpVarArithRightShift(l, r, e.w)

StpCompare(e, l, r) ==
  CASE Left(e).w # Bool -> Compute(e.k, l, r, Left(e).w)
    [] e.k # "Eq" -> Abort
    [] IsConst(Left(e)) -> IF l = 1 THEN r ELSE 1 - r
    [] OTHER -> Bit(l = r)

\* NotOptimized, Select, Concat, Extract, ZExt, SExt and Not.
StpOther(e, vs) ==
  CASE JoinsTruth(e) -> Abort
    [] e.k = "SExt" /\ Left(e).w = Bool -> IF vs[1] = 1 THEN 2^e.w - 1 ELSE 0
    [] OTHER -> Apply(e, vs)

-----------------------------------------------------------------------------
(* Z3Builder: no multiplication or division by constants but by powers of  *)
(* two, and the whole amount of a shift is compared.                       *)

Z3LeftShift(v, s, w)  == IF s >= w THEN 0 ELSE ExtractBits(v, 0, w - s) * 2^s
Z3RightShift(v, s, w) == IF s >= w THEN 0 ELSE ExtractBits(v, s, w - s)
Z3AShrByConstant(v, s, w) ==
  IF s = 0 THEN v
  ELSE IF s >= w THEN 0
  ELSE IF v >= 2^(w - 1) THEN (2^s - 1) * 2^(w - s) + ExtractBits(v, s, w - s)
  ELSE Z3RightShift(v, s, w)

Z3VarLeftShift(v, s, w)  == IF s \in 0..(w - 1) THEN Z3LeftShift(v, s, w) ELSE 0
Z3VarRightShift(v, s, w) == IF s \in 0..(w - 1) THEN Z3RightShift(v, s, w) ELSE 0
Z3VarArithRightShift(v, s, w) ==
  IF s >= w THEN 0 ELSE Z3AShrByConstant(v, IF s \in 0..(w - 2) THEN s ELSE w - 1, w)

Z3Arithmetic(e, l, r) == IF e.w = Bool THEN Abort ELSE Compute(e.k, l, r, e.w)

Z3Divide(e, l, r) ==
  LET pow == IsConst(Right(e)) /\ IsPowerOfTwo(r)
  IN CASE e.w = Bool -> Abort
       [] e.k = "UDiv" /\ pow -> Z3RightShift(l, RightmostBit(r), e.w)
       [] e.k = "URem" /\ pow -> ExtractBits(l, 0, RightmostBit(r))
       [] OTHER -> Compute(e.k, l, r, e.w)

Z3Bitwise(e, l, r) ==
  IF e.w = Bool /\ e.k = "Xor" THEN IF l = 1 THEN 1 - r ELSE r ELSE Compute(e.k, l, r, e.w)

Z3Shift(e, l, r) ==
  LET c == IsConst(Right(e))
  IN CASE e.w = Bool -> Abort
       [] e.k = "Shl"  -> IF c THEN Z3LeftShift(l, r, e.w) ELSE Z3VarLeftShift(l, r, e.w)
       [] e.k = "LShr" -> IF c THEN Z3RightShift(l, r, e.w) ELSE Z3VarRightShift(l, r, e.w)
       [] e.k = "AShr" -> IF c THEN Z3AShrByConstant(l, r, e.w) ELSE Z3VarArithRightShift(l, r, e.w)

Z3Compare(e, l, r) ==
  CASE Left(e).w # Bool -> Compute(e.k, l, r, Left(e).w)
    [] e.k # "Eq" -> Abort
    [] IsConst(Left(e)) -> IF l = 1 THEN r ELSE 1 - r
    [] OTHER -> Bit(l = r)

Z3Other(e, vs) ==
  CASE JoinsTruth(e) -> Abort
    [] e.k = "SExt" /\ Left(e).w = Bool -> IF vs[1] = 1 THEN 2^e.w - 1 ELSE 0
    [] OTHER -> Apply(e, vs)

-----------------------------------------------------------------------------
(* MetaSMTBuilder: the constants of STP, the solver's own variable shifts. *)

MetaLeftShift(v, s, w)  == IF s >= w THEN 0 ELSE ExtractBits(v, 0, w - s) * 2^s
MetaRightShift(v, s, w) == IF s >= w THEN 0 ELSE ExtractBits(v, s, w - s)
MetaAShrByConstant(v, s, w) ==
  IF s = 0 THEN v
  ELSE IF s >= w THEN 0
  ELSE IF v >= 2^(w - 1) THEN (2^s - 1) * 2^(w - s) + ExtractBits(v, s, w - s)
  ELSE MetaRightShift(v, s, w)
MetaVarShift(op, v, s, w) == IF s >= w THEN 0 ELSE Shift(op, v, s, w)

RECURSIVE MetaSum(_, _, _)
MetaSum(v, w, bits) ==
  IF bits = {} THEN 0
  ELSE LET b == CHOOSE b \in bits : TRUE
       IN Truncate(MetaLeftShift(v, b, w) + MetaSum(v, w, bits \ {b}), w)

MetaMulByConstant(v, w, x) ==
  LET mc    == MultConstants(x, {}, {})
      below == 0..(w - 1)
  IN IF mc.add \cap mc.sub # {} THEN Abort
     ELSE Truncate(MetaSum(v, w, mc.add \cap below) - MetaSum(v, w, mc.sub \cap below), w)

MetaUDivByConstant(n, d) ==
  LET c  == UDivConstants(d)
      w  == WordWidth
      t1 == ExtractBits(MetaMulByConstant(n, LongWidth, c.m), w, w)
  IN MetaVarShift("LShr", Truncate(MetaVarShift("LShr", Truncate(n - t1, w), c.sh1, w) + t1, w), c.sh2, w)

MetaSDivByConstant(n, d) ==
  LET w    == WordWidth
      c    == SDivConstants(Signed(d, w))
      mult == MetaMulByConstant(SignExtend(n, w, LongWidth), LongWidth, Truncate(c.m, LongWidth))
      npm  == Truncate(n + ExtractBits(mult, w, w), w)
      post == Truncate(MetaVarShift("LShr", SignExtend(npm, w, LongWidth), c.post, LongWidth), w)
      xs   == IF n >= 2^(w - 1) THEN 2^w - 1 ELSE 0
  IN Truncate((Truncate(post - xs, w) ^^ c.sign) - c.sign, w)

MetaArithmetic(e, l, r) ==
  IF e.w = Bool THEN Abort
  ELSE IF e.k = "Mul" /\ IsConst(Left(e)) THEN MetaMulByConstant(r, e.w, l)
  ELSE Compute(e.k, l, r, e.w)

\* The remainder by a power of two is made, and then made again without it.
MetaDivide(e, l, r) ==
  LET w    == e.w
      pow  == IsConst(Right(e)) /\ IsPowerOfTwo(r)
      fast == IsConst(Right(e)) /\ OptimizeDivides /\ w = WordWidth
  IN CASE w = Bool -> Abort
       [] e.k = "UDiv" /\ pow -> MetaRightShift(l, RightmostBit(r), w)
       [] e.k = "UDiv" /\ fast /\ ~pow -> MetaUDivByConstant(l, r)
       [] e.k = "URem" /\ fast ->
            Truncate(l - MetaMulByConstant(MetaUDivByConstant(l, r), w, r), w)
       [] e.k = "URem" /\ pow /\ ~fast -> ExtractBits(l, 0, RightmostBit(r))
       [] e.k = "SDiv" /\ fast /\ r \notin {1, 2^w - 1} -> MetaSDivByConstant(l, r)
       [] OTHER -> Compute(e.k, l, r, w)

MetaBitwise(e, l, r) == Compute(e.k, l, r, e.w)

MetaShift(e, l, r) ==
  CASE e.w = Bool -> Abort
    [] ~IsConst(Right(e)) -> MetaVarShift(e.k, l, r, e.w)
    [] e.k = "Shl"  /\ IsConst(Right(e)) -> MetaLeftShift(l, r, e.w)
    [] e.k = "LShr" /\ IsConst(Right(e)) -> MetaRightShift(l, r, e.w)
    [] e.k = "AShr" /\ IsConst(Right(e)) -> MetaAShrByConstant(l, r, e.w)

MetaCompare(e, l, r) ==
  CASE Left(e).w # Bool -> Compute(e.k, l, r, Left(e).w)
    [] e.k # "Eq" -> Abort
    [] IsConst(Left(e)) -> IF l = 1 THEN r ELSE 1 - r
    [] OTHER -> Bit(l = r)

MetaOther(e, vs) ==
  CASE JoinsTruth(e) -> Abort
    [] e.k = "SExt" /\ Left(e).w = Bool -> IF vs[1] = 1 THEN 2^e.w - 1 ELSE 0
    [] OTHER -> Apply(e, vs)

-----------------------------------------------------------------------------
(* construct                                                               *)

\* constructActual of a binary kind, by the class of the kind.
ConstructBinary(sv, e, l, r) ==
  LET of(stp(_, _, _), z3(_, _, _), meta(_, _, _)) ==
        CASE sv = "STP" -> stp(e, l, r) [] sv = "Z3" -> z3(e, l, r) [] sv = "MetaSMT" -> meta(e, l, r)
  IN CASE e.k \in Uncanonical -> Abort
       [] IsUndefined(e.k, r, Left(e).w) -> IF Left(e).w = Bool THEN Abort ELSE Undef
       [] e.k \in Divides /\ ~IsUndefined(e.k, r, Left(e).w) -> of(StpDivide, Z3Divide, MetaDivide)
       [] e.k \in Arithmetic \ Divides -> of(StpArithmetic, Z3Arithmetic, MetaArithmetic)
       [] e.k \in Logic -> of(StpBitwise, Z3Bitwise, MetaBitwise)
       [] e.k \in Shifts /\ ~IsUndefined(e.k, r, Left(e).w) -> of(StpShift, Z3Shift, MetaShift)
       [] e.k \in Compares \ Uncanonical -> of(StpCompare, Z3Compare, MetaCompare)

ConstructOther(sv, e, vs) ==
  CASE sv = "STP" -> StpOther(e, vs) [] sv = "Z3" -> Z3Other(e, vs) [] sv = "MetaSMT" -> MetaOther(e, vs)

RECURSIVE Construct(_, _, _), ArrayValue(_, _, _, _, _)

\* getArrayForUpdate and getInitialArray: stores over the array's contents.
ArrayValue(sv, root, ups, i, wd) ==
  IF i \notin Index THEN Undef
  ELSE IF ups = <<>>
  THEN IF root \in DOMAIN ConstantArrays THEN ConstantArrays[root][i + 1] ELSE wd[root][i]
  ELSE LET at == Construct(sv, Head(ups).i, wd)
       IN IF at < 0 THEN at
          ELSE IF at = i THEN Construct(sv, Head(ups).v, wd)
          ELSE ArrayValue(sv, root, Tail(ups), i, wd)

Construct(sv, e, wd) ==
  IF IsConst(e) THEN e.v
  ELSE IF e.k = "Read"
  THEN LET i == Construct(sv, e.kids[1], wd)
       IN IF i < 0 THEN i ELSE ArrayValue(sv, e.root, e.ups, i, wd)
  ELSE LET vs == [i \in DOMAIN e.kids |-> Construct(sv, e.kids[i], wd)]
       IN IF \E i \in DOMAIN vs : vs[i] = Abort THEN Abort
          ELSE IF \E i \in DOMAIN vs : vs[i] = Undef THEN Undef
          ELSE IF Len(e.kids) = 2 /\ e.k # "Concat" THEN ConstructBinary(sv, e, vs[1], vs[2])
          ELSE ConstructOther(sv, e, vs)

=============================================================================
