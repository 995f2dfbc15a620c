------------------------------- MODULE FastCex -------------------------------
(***************************************************************************)
(* The fast counterexample solver (klee/lib/Solver/FastCexSolver.cpp and   *)
(* ExprRangeEvaluator.h): ranges of values are propagated from the         *)
(* constraints to the bytes of the arrays.  `possible' ranges are guesses  *)
(* from which a counterexample is tried, `exact' ranges must hold; the     *)
(* query is answered when the guess is a counterexample or the exact bytes *)
(* decide it.                                                              *)
(***************************************************************************)
EXTENDS ExprRewriting, SolverBuilders, TLC

-----------------------------------------------------------------------------
(* ValueRange, and the range of an expression.                             *)

Range2(lo, hi) == [lo |-> lo, hi |-> hi]
Fixed(v)   == Range2(v, v)
MaxValue(bits) == 2^bits - 1
FullRange(bits) == Range2(0, MaxValue(bits))
EmptyRange == Range2(1, 0)

IsEmpty(r) == r.lo > r.hi
IsFixed(r) == r.lo = r.hi
Lower(a, b)  == IF a < b THEN a ELSE b
Higher(a, b) == IF a > b THEN a ELSE b
Meet(r, s)  == Range2(Higher(r.lo, s.lo), Lower(r.hi, s.hi))
Cover(r, s) == Range2(Lower(r.lo, s.lo), Higher(r.hi, s.hi))
MustEqual(r, s) == IsFixed(r) /\ IsFixed(s) /\ r.lo = s.lo
MayEqual(r, s)  == ~IsEmpty(Meet(r, s))

\* set_difference: of two pieces, the bottom one.
Difference(r, s) ==
  IF IsEmpty(s) \/ s.lo > r.hi \/ s.hi < r.lo THEN r
  ELSE IF s.lo <= r.lo /\ s.hi >= r.hi THEN EmptyRange
  ELSE IF s.lo <= r.lo THEN Range2(s.hi + 1, r.hi)
  ELSE Range2(r.lo, s.lo - 1)

-----------------------------------------------------------------------------
(* The bounds of a disjunction and of a conjunction of ranges a..b, c..d,  *)
(* found from the topmost bit down (i is a bit).                           *)

Has(x, i) == (x \div 2^i) % 2 = 1
\* x with the bit i set and those below cleared, and the other way round.
SetUp(x, i)   == (x \div 2^(i + 1)) * 2^(i + 1) + 2^i
SetDown(x, i) == (x \div 2^(i + 1)) * 2^(i + 1) + 2^i - 1

RECURSIVE MinOr(_, _, _, _, _), MaxOr(_, _, _, _, _), MinAnd(_, _, _, _, _), MaxAnd(_, _, _, _, _)

MinOr(a, b, c, d, i) ==
  IF i < 0 THEN a | c
  ELSE IF ~Has(a, i) /\ Has(c, i) /\ SetUp(a, i) <= b THEN SetUp(a, i) | c
  ELSE IF Has(a, i) /\ ~Has(c, i) /\ SetUp(c, i) <= d THEN a | SetUp(c, i)
  ELSE MinOr(a, b, c, d, i - 1)

MaxOr(a, b, c, d, i) ==
  IF i < 0 THEN b | d
  ELSE IF Has(b, i) /\ Has(d, i) /\ SetDown(b, i) >= a THEN SetDown(b, i) | d
  ELSE IF Has(b, i) /\ Has(d, i) /\ SetDown(d, i) >= c THEN b | SetDown(d, i)
  ELSE MaxOr(a, b, c, d, i - 1)

MinAnd(a, b, c, d, i) ==
  IF i < 0 THEN a & c
  ELSE IF ~Has(a, i) /\ ~Has(c, i) /\ SetUp(a, i) <= b THEN SetUp(a, i) & c
  ELSE IF ~Has(a, i) /\ ~Has(c, i) /\ SetUp(c, i) <= d THEN a & SetUp(c, i)
  ELSE MinAnd(a, b, c, d, i - 1)

MaxAnd(a, b, c, d, i) ==
  IF i < 0 THEN b & d
  ELSE IF Has(b, i) /\ ~Has(d, i) /\ SetDown(b, i) >= a THEN SetDown(b, i) & d
  ELSE IF ~Has(b, i) /\ Has(d, i) /\ SetDown(d, i) >= c THEN b & SetDown(d, i)
  ELSE MaxAnd(a, b, c, d, i - 1)

TopBit == LongWidth - 1

RangeAnd(r, s) ==
  IF IsFixed(r) /\ IsFixed(s) THEN Fixed(r.lo & s.lo)
  ELSE Range2(MinAnd(r.lo, r.hi, s.lo, s.hi, TopBit), MaxAnd(r.lo, r.hi, s.lo, s.hi, TopBit))
RangeOr(r, s) ==
  IF IsFixed(r) /\ IsFixed(s) THEN Fixed(r.lo | s.lo)
  ELSE Range2(MinOr(r.lo, r.hi, s.lo, s.hi, TopBit), MaxOr(r.lo, r.hi, s.lo, s.hi, TopBit))
RangeXor(r, s) ==
  IF IsFixed(r) /\ IsFixed(s) THEN Fixed(r.lo ^^ s.lo)
  ELSE FullRange(ActiveBits(r.hi | s.hi))

ShiftedLeft(r, n)  == Range2(Truncate(r.lo * 2^n, LongWidth), Truncate(r.hi * 2^n, LongWidth))
ShiftedRight(r, n) == Range2(r.lo \div 2^n, r.hi \div 2^n)
RangeExtract(r, low, top) == RangeAnd(ShiftedRight(r, low), Fixed(MaxValue(top - low)))

\* What minSigned and maxSigned assert; TLC stops where it is not so.
Within(r, w) ==
  Assert(r.lo < 2^w /\ r.hi < 2^w, "range is outside given number of bits")

MinSigned(r, w) ==
  IF Within(r, w) /\ r.hi >= 2^(w - 1) THEN -(2^(w - 1)) ELSE r.lo
MaxSigned(r, w) ==
  IF Within(r, w) /\ r.lo < 2^(w - 1) /\ r.hi >= 2^(w - 1)
  THEN 2^(w - 1) - 1 ELSE Signed(r.hi, w)

-----------------------------------------------------------------------------
(* ExprRangeEvaluator::evaluate                                            *)

RECURSIVE RangeOf(_), RangeOfRead(_, _, _, _)

\* evalRead starts from the empty range 1..0, and a union with it reaches from
\* at most 1 on.
RangeOfRead(root, ups, at, res) ==
  IF ups = <<>>
  THEN Cover(res, IF root \in DOMAIN ConstantArrays /\ IsFixed(at) /\ at.lo < ArraySize
                  THEN Fixed(ConstantArrays[root][at.lo + 1]) ELSE FullRange(ByteWidth))
  ELSE LET ui  == RangeOf(Head(ups).i)
           new == Cover(res, RangeOf(Head(ups).v))
       IN IF MustEqual(ui, at) THEN new
          ELSE IF ~MayEqual(ui, at) THEN RangeOfRead(root, Tail(ups), at, res)
          ELSE IF new = FullRange(ByteWidth) THEN new
          ELSE RangeOfRead(root, Tail(ups), at, new)

\* 1 if yes, 0 if no, and else either.
Decided(yes, no) == IF yes THEN Fixed(1) ELSE IF no THEN Fixed(0) ELSE FullRange(Bool)

RangeOfBinary(k, w, l, r) ==
  CASE k = "And" -> RangeAnd(l, r)
    [] k = "Or"  -> RangeOr(l, r)
    [] k = "Xor" -> RangeXor(l, r)
    [] k = "Eq"  -> Decided(MustEqual(l, r), ~MayEqual(l, r))
    [] k = "Ult" -> Decided(l.hi < r.lo, l.lo >= r.hi)
    [] k = "Ule" -> Decided(l.hi <= r.lo, l.lo > r.hi)
    [] k = "Slt" -> Decided(MaxSigned(l, w) < MinSigned(r, w), MinSigned(l, w) >= MaxSigned(r, w))
    [] k = "Sle" -> Decided(MaxSigned(l, w) <= MinSigned(r, w), MinSigned(l, w) > MaxSigned(r, w))
    [] OTHER -> FullRange(w)

\* A concatenation is taken to be of bytes: its left kid is shifted by the width
\* of one, however wide the right kid is.
RangeOf(e) ==
  CASE IsConst(e) -> Fixed(e.v)
    [] e.k = "Read" -> RangeOfRead(e.root, e.ups, RangeOf(e.kids[1]), EmptyRange)
    [] e.k = "Select" ->
         LET c == RangeOf(e.kids[1])
         IN IF c = Fixed(1) THEN RangeOf(e.kids[2])
            ELSE IF c = Fixed(0) THEN RangeOf(e.kids[3])
            ELSE Cover(RangeOf(e.kids[2]), RangeOf(e.kids[3]))
    [] e.k = "Concat" -> RangeOr(ShiftedLeft(RangeOf(Left(e)), ByteWidth), RangeOf(Right(e)))
    [] e.k \in {"NotOptimized", "Extract", "ZExt", "SExt", "Not"} -> FullRange(e.w)
    [] OTHER -> RangeOfBinary(e.k, Left(e).w, RangeOf(Left(e)), RangeOf(Right(e)))

-----------------------------------------------------------------------------
(* Propagation and the answer.                                             *)

\* CexData: a range per byte, possible and exact; ok becomes FALSE when an
\* assertion of the code fails.
FreshData ==
  LET all == [a \in Arrays |-> [i \in Index |-> FullRange(ByteWidth)]]
  IN [possible |-> all, exact |-> all, ok |-> TRUE]
Broken(cd) == [cd EXCEPT !.ok = FALSE]

RECURSIVE PropPossible(_, _, _), PropExact(_, _, _), ExactRead(_, _, _, _, _)

\* A read of a constant index narrows its byte, if something is left; a fixed
\* value is taken whatever was known.
PossibleRead(cd, e, r) ==
  LET i == e.kids[1]
  IN IF ~IsConst(i) \/ i.v \notin Index THEN cd
     ELSE IF IsFixed(r)
     THEN [cd EXCEPT !.possible[e.root][i.v] = Fixed(Truncate(r.lo, ByteWidth))]
     ELSE LET new == Meet(cd.possible[e.root][i.v], r)
          IN IF IsEmpty(new) THEN cd ELSE [cd EXCEPT !.possible[e.root][i.v] = new]

\* extract() asserts that there is something left to extract from.
PossibleConcat(cd, e, r) ==
  LET w   == Right(e).w
      top == ShiftedRight(r, w)
      one == IF IsEmpty(top) THEN Broken(cd)
             ELSE PropPossible(cd, Left(e), RangeExtract(r, w, w + w))
  IN IF ~one.ok THEN one
     ELSE IF IsEmpty(r) THEN Broken(one)
     ELSE PropPossible(one, Right(e), RangeExtract(r, 0, w))

\* An extended value cannot lie between the positive and the negative ones.
PossibleSExt(cd, e, r) ==
  LET in  == Left(e).w
      out == Difference(r, Range2(2^(in - 1), MaxValue(e.w) - MaxValue(in - 1) - 1))
  IN IF IsEmpty(out) THEN Broken(cd)
     ELSE PropPossible(cd, Left(e), RangeAnd(out, Fixed(MaxValue(in))))

PossibleAdd(cd, e, r) ==
  LET c   == Left(e)
      new == Range2(Truncate(r.lo - c.v, c.w), Truncate(r.hi - c.v, c.w))
  IN IF ~IsConst(c) \/ IsEmpty(r) \/ IsEmpty(new) THEN cd ELSE PropPossible(cd, Right(e), new)

\* And (v = 0) and Or (v = 1) of truth values: v is the value that one operand
\* alone decides.  The range of the left one is looked at again, but the
\* propagation has not changed it.
PossibleLogic(cd, e, r, v) ==
  LET l == RangeOf(Left(e))
      s == RangeOf(Right(e))
  IN IF e.w # Bool \/ ~IsFixed(r) THEN cd
     ELSE IF r.lo = v
     THEN IF l = Fixed(v) \/ s = Fixed(v) THEN cd
          ELSE LET one == PropPossible(cd, Left(e), Fixed(v))
               IN IF l = Fixed(1) \/ ~one.ok THEN one ELSE PropPossible(one, Right(e), Fixed(v))
     ELSE LET one == IF l = Fixed(1 - v) THEN cd ELSE PropPossible(cd, Left(e), Fixed(1 - v))
          IN IF s = Fixed(1 - v) \/ ~one.ok THEN one ELSE PropPossible(one, Right(e), Fixed(1 - v))

PossibleEq(cd, e, r) ==
  LET c == Left(e)
  IN IF ~IsFixed(r) \/ ~IsConst(c) THEN cd
     ELSE IF r.lo = 1 THEN PropPossible(cd, Right(e), Fixed(c.v))
     ELSE PropPossible(cd, Right(e), IF c.v = 0 THEN Range2(1, MaxValue(c.w)) ELSE Range2(0, c.v - 1))

\* Ult and Ule: the operand that is fixed bounds the other.  A bound may leave
\* the word.
PossibleCompare(cd, e, r) ==
  LET l   == RangeOf(Left(e))
      s   == RangeOf(Right(e))
      top == MaxValue(Right(e).w)
      strict == (e.k = "Ult") = (r.lo = 1)      \* the bound itself is excluded
      below(v) == IF strict THEN Truncate(v - 1, LongWidth) ELSE v
      above(v) == IF strict THEN v + 1 ELSE v
  IN IF ~IsFixed(r) THEN cd
     ELSE IF IsFixed(l)
     THEN PropPossible(cd, Right(e), IF r.lo = 1 THEN Range2(above(l.lo), top) ELSE Range2(0, below(l.lo)))
     ELSE IF IsFixed(s)
     THEN PropPossible(cd, Left(e), IF r.lo = 1 THEN Range2(0, below(s.lo)) ELSE Range2(above(s.lo), top))
     ELSE cd

PossibleSelect(cd, e, r) ==
  LET c == RangeOf(e.kids[1])
      one == PropPossible(cd, e.kids[2], r)
  IN IF IsFixed(c) THEN PropPossible(cd, IF c.lo = 1 THEN e.kids[2] ELSE e.kids[3], r)
     ELSE IF ~one.ok THEN one ELSE PropPossible(one, e.kids[3], r)

\* CexData::propogatePossibleValues.
PropPossible(cd, e, r) ==
  CASE e.k = "Read"   -> PossibleRead(cd, e, r)
    [] e.k = "Select" -> PossibleSelect(cd, e, r)
    [] e.k = "Concat" -> PossibleConcat(cd, e, r)
    [] e.k = "ZExt"   -> PropPossible(cd, Left(e), Meet(r, FullRange(Left(e).w)))
    [] e.k = "SExt"   -> PossibleSExt(cd, e, r)
    [] e.k = "Add"    -> PossibleAdd(cd, e, r)
    [] e.k = "And"    -> PossibleLogic(cd, e, r, 0)
    [] e.k = "Or"     -> PossibleLogic(cd, e, r, 1)
    [] e.k = "Eq"     -> PossibleEq(cd, e, r)
    [] e.k = "Not" /\ e.w = Bool -> IF IsFixed(r) THEN PropPossible(cd, Left(e), Fixed(1 - r.lo)) ELSE cd
    [] e.k \in {"Ult", "Ule"} -> PossibleCompare(cd, e, r)
    [] OTHER -> cd

\* The initial byte: the asserts are that the bounds do not cross.
ExactByte(cd, root, i, r) ==
  LET c   == cd.exact[root][i]
      mid == IF r.lo > c.lo THEN Range2(r.lo, c.hi) ELSE c
      new == IF r.hi < mid.hi THEN Range2(mid.lo, r.hi) ELSE mid
  IN IF IsEmpty(mid) \/ IsEmpty(new) THEN Broken(cd) ELSE [cd EXCEPT !.exact[root][i] = new]

\* Past the updates that cannot be of this index.
ExactRead(cd, e, ups, at, r) ==
  IF ups # <<>>
  THEN LET ui == RangeOf(Head(ups).i)
       IN IF ~MayEqual(ui, at) THEN ExactRead(cd, e, Tail(ups), at, r)
          ELSE IF MustEqual(ui, at) \/ e.kids[1] = Head(ups).i THEN PropExact(cd, Head(ups).v, r)
          ELSE cd
  ELSE IF ~IsFixed(at) \/ e.root \in DOMAIN ConstantArrays THEN cd
  ELSE IF at.lo \notin Index THEN Broken(cd)      \* beyond the vector
  ELSE ExactByte(cd, e.root, at.lo, r)

\* CexData::propogateExactValues.
PropExact(cd, e, r) ==
  IF e.k = "Read" THEN ExactRead(cd, e, e.ups, RangeOf(e.kids[1]), r)
  ELSE IF e.k = "Eq" /\ IsFixed(r) /\ IsConst(Left(e))
  THEN IF r.lo = 1 THEN PropExact(cd, Right(e), Fixed(Left(e).v))
       ELSE IF Right(e).w = Bool THEN PropExact(cd, Right(e), Fixed(1 - Left(e).v))
       ELSE cd
  ELSE IF e.k = "Not" /\ e.w = Bool /\ IsFixed(r) THEN PropExact(cd, Left(e), Fixed(1 - r.lo))
  ELSE cd

Propagate(cd, e, v) ==
  LET one == PropPossible(cd, e, Fixed(v))
  IN IF ~cd.ok THEN cd ELSE IF ~one.ok THEN one ELSE PropExact(one, e, Fixed(v))

RECURSIVE PropagateAll(_, _)
PropagateAll(cd, cs) == IF cs = <<>> THEN cd ELSE PropagateAll(Propagate(cd, Head(cs), 1), Tail(cs))

-----------------------------------------------------------------------------

\* getPossibleValue, the middle; an exact byte counts when it is fixed.
Guess(cd) ==
  [a \in Arrays |-> [i \in Index |->
     LET r == cd.possible[a][i] IN r.lo + (r.hi - r.lo) \div 2]]
Known(cd) ==
  [a \in Arrays |-> [i \in Index |-> IF IsFixed(cd.exact[a][i]) THEN cd.exact[a][i].lo ELSE Undef]]

Is(e, v) == IsConst(e) /\ e.v = v

\* Defective: the guess is not tried on the constraints.
VerdictUnchecked(cd, cs, e, check) ==
  IF ~cd.ok THEN "Abort"
  ELSE IF check /\ Is(Evaluate(Known(cd), e), 1) THEN "Valid"
  ELSE IF check => Is(Evaluate(Guess(cd), e), 0) THEN "Invalid"
  ELSE "None"

\* propogateValues: the query, or without check the constraints alone.  What a
\* false constraint implies is anything.
Verdict(cd, cs, e, check) ==
  IF ~cd.ok THEN "Abort"
  ELSE IF \/ check /\ Is(Evaluate(Known(cd), e), 1)
          \/ \E i \in DOMAIN cs : Is(Evaluate(Known(cd), cs[i]), 0)
  THEN "Valid"
  ELSE IF /\ check => Is(Evaluate(Guess(cd), e), 0)
          /\ \A i \in DOMAIN cs : Is(Evaluate(Guess(cd), cs[i]), 1)
  THEN "Invalid"
  ELSE "None"
Propagated(cs, e, check) ==
  LET cd == PropagateAll(FreshData, cs) IN IF check THEN Propagate(cd, e, 0) ELSE cd

ComputeTruth(cs, e) ==
  [Abort |-> "Abort", Valid |-> "MustBeTrue", Invalid |-> "MayBeFalse", None |-> "None"]
    [Verdict(Propagated(cs, e, TRUE), cs, e, TRUE)]

\* computeValue: the value in the guess, if the guess is a model; else none.
ComputeValue(cs, e) ==
  LET cd == Propagated(cs, e, FALSE)
      v  == Evaluate(Guess(cd), e)
  IN IF Verdict(cd, cs, e, FALSE) = "Invalid" /\ IsConst(v) THEN v ELSE Null

\* computeInitialValues: the bytes of the guess, if it is a counterexample.
ComputeInitialValues(cs, e) ==
  LET cd == Propagated(cs, e, TRUE)
      verdict == Verdict(cd, cs, e, TRUE)
  IN [verdict |-> verdict, values |-> IF verdict = "Invalid" THEN Guess(cd) ELSE <<>>]

-----------------------------------------------------------------------------
(* IncompleteSolver.cpp: a query is asked both ways, and the staged solver *)
(* asks the next one, here one that is right about the models, for what is *)
(* left open.                                                              *)

\* IncompleteSolver::computeValidity.
ComputeValidity(cs, e) ==
  LET yes == ComputeTruth(cs, e)
      no  == ComputeTruth(cs, IsZero(e))      \* negateExpr
  IN CASE "Abort" \in {yes, no} /\ yes # "MustBeTrue" -> "Abort"
       [] yes = "MustBeTrue" -> "MustBeTrue"
       [] no = "MustBeTrue" /\ yes \notin {"Abort", "MustBeTrue"} -> "MustBeFalse"
       [] yes = "MayBeFalse" /\ no = "MayBeFalse" -> "TrueOrFalse"
       [] yes = "MayBeFalse" /\ no = "None" -> "MayBeFalse"
       [] yes = "None" /\ no = "MayBeFalse" -> "MayBeTrue"
       [] yes = "None" /\ no = "None" -> "None"

\* StagedSolverImpl::computeTruth and computeValidity; valid and invalid are the
\* next solver's answers for the query and for its negation.
StagedTruth(cs, e, valid) ==
  LET t == ComputeTruth(cs, e) IN IF t = "None" THEN valid ELSE t = "MustBeTrue"
StagedValidity(cs, e, valid, invalid) ==
  LET v == ComputeValidity(cs, e)
  IN CASE v = "MustBeTrue"  -> "True"
       [] v = "MustBeFalse" -> "False"
       [] v = "TrueOrFalse" -> "Unknown"
       [] v = "MayBeTrue"   -> IF valid THEN "True" ELSE "Unknown"
       [] v = "MayBeFalse"  -> IF invalid THEN "False" ELSE "Unknown"
       [] v = "None" -> IF valid THEN "True" ELSE IF invalid THEN "False" ELSE "Unknown"
       [] v = "Abort" -> "Abort"

=============================================================================
