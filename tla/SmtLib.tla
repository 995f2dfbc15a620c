-------------------------------- MODULE SmtLib --------------------------------
(***************************************************************************)
(* Printing of queries as SMT-LIB (klee/lib/Expr/ExprSMTLIBPrinter.cpp).   *)
(* What is printed is given by its value in a world: expressions are bit   *)
(* vectors or truth values, and are cast where the other sort is needed;   *)
(* expressions met twice are bound by nested lets.  Layout, options and    *)
(* the display of constants are left out.                                  *)
(***************************************************************************)
EXTENDS ExprTerms, SequencesExt

Modes == {"none", "let"}      \* abbreviationMode; a name (ABBR_NAMED) stands for what it names

RECURSIVE SortOf(_)
SortOf(e) ==
  CASE e.k = "NotOptimized" -> SortOf(e.kids[1])
    [] e.k \in Compares -> "bool"
    [] e.k \in Logic \cup {"Const", "Not"} -> IF e.w = Bool THEN "bool" ELSE "bv"
    [] OTHER -> "bv"

\* The SMT-LIB operators, which are total: what KLEE leaves undefined has some
\* value.
SmtApply(k, a, b, w) == IF IsUndefined(k, b, w) THEN 0 ELSE Compute(k, a, b, w)

RECURSIVE SmtValue(_, _, _, _), SmtFull(_, _, _, _), SmtSelect(_, _, _, _, _)

\* (select (store ...) i), printUpdatesAndArray.  Outside the array the solver
\* is free; the array itself must be one that wd gives values to.
SmtSelect(bound, root, ups, i, wd) ==
  IF ups # <<>>
  THEN IF SmtValue(bound, Head(ups).i, "bv", wd) = i THEN SmtValue(bound, Head(ups).v, "bv", wd)
       ELSE SmtSelect(bound, root, Tail(ups), i, wd)
  ELSE IF i \notin Index THEN 0
  ELSE wd[root][i]

\* printExpression: the cast from a truth value is an ite, the one to a truth
\* value compares with zero.
SmtValue(bound, e, sort, wd) ==
  IF SortOf(e) # sort
  THEN LET v == SmtValue(bound, e, SortOf(e), wd) IN IF sort = "bv" THEN v ELSE Bit(v > 0)
  ELSE IF e \in DOMAIN bound THEN bound[e]
  ELSE SmtFull(bound, e, sort, wd)

\* Defective: the difference between ashr and bvashr is overlooked the other
\* way round, and the shift is printed with its operands swapped.
SmtAShrSwapped(bound, e, wd) ==
  LET v == SmtValue(bound, Left(e), "bv", wd)
      s == SmtValue(bound, Right(e), "bv", wd)
  IN IF s >= Left(e).w THEN 0 ELSE SmtApply("AShr", s, v, Left(e).w)

\* printAShrExpr: zero on an overshift.
SmtAShr(bound, e, wd) ==
  LET v == SmtValue(bound, Left(e), "bv", wd)
      s == SmtValue(bound, Right(e), "bv", wd)
  IN IF s >= Left(e).w THEN 0 ELSE SmtApply("AShr", v, s, Left(e).w)

\* printCastExpr says how many bits to add.
SmtCast(e, v) ==
  LET extra == e.w - Left(e).w
  IN IF e.k = "SExt" THEN SignExtend(v, Left(e).w, Left(e).w + extra) ELSE v

\* The sort the kids are printed in.
KidSort(e, sort) ==
  CASE e.k \in {"Eq", "Ne"} -> SortOf(e.kids[1])
    [] e.k \in Logic \cup {"Not", "NotOptimized"} -> sort
    [] OTHER -> "bv"

SmtFull(bound, e, sort, wd) ==
  LET kid(j) == SmtValue(bound, e.kids[j], KidSort(e, sort), wd)
  IN CASE IsConst(e) -> e.v
       [] e.k = "NotOptimized" -> kid(1)
       [] e.k = "Read"    -> SmtSelect(bound, e.root, e.ups, kid(1), wd)
       [] e.k = "Extract" -> LET high == e.off + e.w - 1 IN ExtractBits(kid(1), e.off, high - e.off + 1)
       [] e.k \in {"ZExt", "SExt"} -> SmtCast(e, kid(1))
       [] e.k = "Select"  -> IF SmtValue(bound, e.kids[1], "bool", wd) = 1
                             THEN SmtValue(bound, e.kids[2], sort, wd)
                             ELSE SmtValue(bound, e.kids[3], sort, wd)
       [] e.k = "Concat"  -> kid(1) * 2^Right(e).w + kid(2)
       [] e.k = "Not"     -> Complement(kid(1), e.w)
       [] e.k = "AShr"    -> SmtAShr(bound, e, wd)
       [] OTHER -> SmtApply(e.k, kid(1), kid(2), Left(e).w)

-----------------------------------------------------------------------------
(* scan: an expression met a second time is bound; of the update lists of  *)
(* an array only the one it is met with first is scanned.                  *)

RECURSIVE SmtScan(_, _)
SmtScan(sc, e) ==
  IF IsConst(e) THEN sc
  ELSE IF e \in sc.seen THEN [sc EXCEPT !.bindings = @ \cup {e}]
  ELSE LET met  == [sc EXCEPT !.seen = @ \cup {e}]
           scanAll(s, es) == FoldLeft(LAMBDA t, x : SmtScan(t, x), s, es)
           used == IF e.k # "Read" \/ e.root \in met.arrays THEN met
                   ELSE FoldLeft(LAMBDA t, u : scanAll(t, <<u.i, u.v>>),
                                 [met EXCEPT !.arrays = @ \cup {e.root}], e.ups)
       IN scanAll(used, e.kids)
ScanQuery(cs, q) ==
  FoldLeft(LAMBDA t, x : SmtScan(t, x), [seen |-> {}, bindings |-> {}, arrays |-> {}], Append(cs, q))

RECURSIVE Uses(_, _), Levels(_, _)

\* The bound expressions an expression uses directly (its kids' updates aside).
Uses(e, bindings) ==
  UNION {IF e.kids[j] \in bindings THEN {e.kids[j]} ELSE Uses(e.kids[j], bindings) : j \in DOMAIN e.kids}

\* scanBindingExprDeps: a level binds what uses only the earlier levels.
Levels(done, bindings) ==
  LET free == {e \in bindings \ done : Uses(e, bindings) \subseteq done}
  IN IF free = {} THEN <<>> ELSE <<free>> \o Levels(done \cup free, bindings)

\* printAssert: let after let, each printed with the bindings outside of it.
LetValues(levels, wd) ==
  FoldLeft(LAMBDA bound, level : bound @@ [e \in level |-> SmtValue(bound, e, SortOf(e), wd)], <<>>, levels)

\* printQueryInSingleAssert: the constraints and the negated query.
Asserted(cs, q) == FoldLeft(LAMBDA all, c : Create("And", all, c), IsZero(q), cs)

\* generateOutput: the arrays that scan has met are declared, no others.
SmtText(mode, cs, q) ==
  LET sc == ScanQuery(cs, q)
  IN [arrays |-> sc.arrays,
      levels |-> IF mode = "let" THEN Levels({}, sc.bindings) ELSE <<>>,
      claim  |-> Asserted(cs, q)]

\* printArrayDeclarations: the text speaks of the declared arrays, and asserts
\* the bytes of those among them that are constant.
DeclaredArrays(text, wd) ==
  [a \in text.arrays |->
     IF a \in DOMAIN ConstantArrays THEN [i \in Index |-> ConstantArrays[a][i + 1]] ELSE wd[a]]

\* What the text asserts of a world.
SmtHolds(text, wd) ==
  LET given == DeclaredArrays(text, wd)
  IN SmtValue(LetValues(text.levels, given), text.claim, "bool", given) = 1

=============================================================================
