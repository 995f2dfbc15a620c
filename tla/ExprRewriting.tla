---------------------------- MODULE ExprRewriting ----------------------------
(***************************************************************************)
(* What walks over expressions and rebuilds them: the evaluator under a    *)
(* partial assignment (ExprVisitor.cpp, ExprEvaluator.cpp, Assignment.h),  *)
(* the constraint manager (Constraints.cpp), implied values                *)
(* (ImpliedValue.cpp) and the search for reads (ExprUtil.cpp).             *)
(***************************************************************************)
EXTENDS ExprTerms

\* Expr::rebuild: the create function of the kind, on new kids.
Rebuild(e, kids) ==
  CASE e.k = "NotOptimized" -> CreateNotOptimized(kids[1])
    [] e.k = "Read"    -> CreateRead(e.root, e.ups, kids[1], e.ups)
    [] e.k = "Select"  -> CreateSelect(kids[1], kids[2], kids[3])
    [] e.k = "Concat"  -> CreateConcat(kids[1], kids[2])
    [] e.k = "Extract" -> CreateExtract(kids[1], e.off, e.w)
    [] e.k \in {"ZExt", "SExt"} -> CreateExt(e.k, kids[1], e.w)
    [] e.k = "Not"     -> CreateNot(kids[1])
    [] OTHER -> Create(e.k, kids[1], kids[2])

\* ExprVisitor::visitActual's DoChildren: rebuilt only if a kid has changed.
WithKids(e, kids) == IF kids = e.kids THEN e ELSE Rebuild(e, kids)

-----------------------------------------------------------------------------
(* ExprEvaluator.  An assignment gives a byte a value, or Undef when it    *)
(* leaves it free.                                                         *)

\* Assignment::evaluate of one byte, with allowFreeValues.
InitialValue(asg, root, i, wi) ==
  IF i \in Index /\ asg[root][i] # Undef THEN Const(asg[root][i], ByteWidth)
  ELSE AllocRead(root, <<>>, Const(i, wi))

RECURSIVE Evaluate(_, _), EvaluateRead(_, _, _, _), EvaluateReadPast(_, _, _, _)

\* Defective: an update of an unknown index is passed over.
EvaluateReadPast(asg, root, ups, i) ==
  IF ups = <<>> THEN InitialValue(asg, root, i.v, i.w)
  ELSE IF Evaluate(asg, Head(ups).i) = i THEN Evaluate(asg, Head(ups).v)
  ELSE EvaluateReadPast(asg, root, Tail(ups), i)

\* ExprEvaluator::evalRead: an update of an unknown index may be this one.
EvaluateRead(asg, root, ups, i) ==
  IF ups = <<>>
  THEN IF root \in DOMAIN ConstantArrays /\ i.v < ArraySize
       THEN Const(ConstantArrays[root][i.v + 1], ByteWidth)
       ELSE InitialValue(asg, root, i.v, i.w)
  ELSE LET at == Evaluate(asg, Head(ups).i)
       IN IF ~IsConst(at) THEN CreateRead(root, ups, i, ups)
          ELSE IF at.v = i.v THEN Evaluate(asg, Head(ups).v)
          ELSE EvaluateRead(asg, root, Tail(ups), i)

\* protectedDivOperation: a divisor that became zero is left as it was.
EvaluateDivide(asg, e) ==
  LET d    == Evaluate(asg, Right(e))
      kids == <<Evaluate(asg, Left(e)), IF IsConst(d) /\ d.v = 0 THEN Right(e) ELSE d>>
  IN WithKids(e, kids)

Evaluate(asg, e) ==
  IF IsConst(e) THEN e
  ELSE IF e.k # "Read" /\ \A i \in DOMAIN e.kids : IsConst(e.kids[i]) THEN Rebuild(e, e.kids)
  ELSE IF e.k \in Divides THEN EvaluateDivide(asg, e)
  ELSE LET kids == [i \in DOMAIN e.kids |-> Evaluate(asg, e.kids[i])]
       IN IF e.k = "Read" /\ IsConst(kids[1]) THEN EvaluateRead(asg, e.root, e.ups, kids[1])
          ELSE IF e.k = "NotOptimized" THEN kids[1]
          ELSE WithKids(e, kids)

-----------------------------------------------------------------------------
(* ConstraintManager.  Constraints are a sequence.                         *)

RECURSIVE Replace(_, _, _), ReplaceEach(_, _)

\* ExprReplaceVisitor: src becomes dst, before or after the kids are visited.
\* Updates are not visited.
Replace(e, src, dst) ==
  IF IsConst(e) THEN e
  ELSE IF e = src THEN dst
  ELSE LET new == WithKids(e, [i \in DOMAIN e.kids |-> Replace(e.kids[i], src, dst)])
       IN IF new = src THEN dst ELSE new

\* ExprReplaceVisitor2, which visits again what it has rebuilt.
ReplaceEach(e, eqs) ==
  IF IsConst(e) THEN e
  ELSE LET kids == [i \in DOMAIN e.kids |-> ReplaceEach(e.kids[i], eqs)]
           new  == IF kids = e.kids THEN e ELSE ReplaceEach(Rebuild(e, kids), eqs)
       IN IF new \in DOMAIN eqs THEN eqs[new] ELSE new

\* The equalities simplifyExpr draws from the constraints; the first one of an
\* expression counts.
Subject(c) == IF c.k = "Eq" /\ IsConst(Left(c)) THEN Right(c) ELSE c
Equalities(cs) ==
  [s \in {Subject(cs[i]) : i \in DOMAIN cs} |->
     LET first == CHOOSE i \in DOMAIN cs :
                    Subject(cs[i]) = s /\ \A j \in DOMAIN cs : Subject(cs[j]) = s => i <= j
     IN IF s = cs[first] THEN Const(1, Bool) ELSE Left(cs[first])]

SimplifyExpr(cs, e) == IF IsConst(e) THEN e ELSE ReplaceEach(e, Equalities(cs))

\* What addConstraintInternal makes of a false constraint: the assertion
\* "attempt to add invalid (false) constraint" fails.
Failed == <<Const(0, Bool)>>

RECURSIVE AddInternal(_, _), Rewrite(_, _, _, _)

\* Defective: what a replacement changes is forgotten.
RewriteDrops(done, old, src, dst) ==
  SelectSeq(old, LAMBDA c : Replace(c, src, dst) = c)

\* rewriteConstraints: what a replacement changes is added anew.
Rewrite(done, old, src, dst) ==
  IF old = <<>> \/ done = Failed THEN done
  ELSE LET new == Replace(Head(old), src, dst)
       IN Rewrite(IF new = Head(old) THEN Append(done, new) ELSE AddInternal(done, new),
                  Tail(old), src, dst)

AddInternal(cs, e) ==
  IF cs = Failed THEN Failed
  ELSE IF IsConst(e) THEN IF e.v = 1 THEN cs ELSE Failed
  ELSE IF e.k = "And" THEN AddInternal(AddInternal(cs, Left(e)), Right(e))
  ELSE IF e.k = "Eq" /\ IsConst(Left(e))
  THEN LET new == Rewrite(<<>>, cs, Right(e), Left(e))
       IN IF new = Failed THEN Failed ELSE Append(new, e)
  ELSE Append(cs, e)

AddConstraint(cs, e) == AddInternal(cs, SimplifyExpr(cs, e))

-----------------------------------------------------------------------------
(* ImpliedValue::getImpliedValues, as a set of <<read, value>>.  The null  *)
(* reference is handed on for the operands of an Or that is zero; using it *)
(* crashes.                                                                *)

Null  == Const(Undef, 0)
Crash == {<<Null, Null>>}

Dereferences(e) ==
  \/ e.k \in {"Const", "Concat", "ZExt", "SExt", "Or", "Eq"}
  \/ e.k \in {"Add", "Sub", "Xor"} /\ IsConst(Left(e))
  \/ e.k = "And" /\ e.w = Bool
  \/ e.k = "Select" /\ IsConst(e.kids[2]) /\ IsConst(e.kids[3]) /\ e.kids[2] # e.kids[3]

RECURSIVE ImpliedValues(_, _)
ImpliedValues(e, c) ==
  IF e.k = "Read" THEN {<<e, c>>}
  ELSE IF c = Null THEN IF Dereferences(e) THEN Crash ELSE {}
  ELSE
  CASE e.k = "Select" ->
         IF ~Dereferences(e) THEN {} ELSE ImpliedValues(e.kids[1], Const(Bit(c = e.kids[2]), Bool))
    [] e.k = "Concat" ->
         LET rw == Right(e).w
         IN ImpliedValues(Left(e), Const(ExtractBits(c.v, rw, Left(e).w), Left(e).w))
              \cup ImpliedValues(Right(e), Const(ExtractBits(c.v, 0, rw), rw))
    [] e.k \in {"ZExt", "SExt"} ->
         ImpliedValues(Left(e), Const(ExtractBits(c.v, 0, Left(e).w), Left(e).w))
    [] e.k = "Add" -> IF IsConst(Left(e)) THEN ImpliedValues(Right(e), Fold("Sub", c, Left(e))) ELSE {}
    [] e.k = "Sub" -> IF IsConst(Left(e)) THEN ImpliedValues(Right(e), Fold("Sub", Left(e), c)) ELSE {}
    [] e.k = "Xor" -> IF IsConst(Left(e)) THEN ImpliedValues(Right(e), Fold("Xor", c, Left(e))) ELSE {}
    [] e.k = "And" -> IF e.w = Bool /\ c.v = 1 THEN ImpliedValues(Left(e), c) \cup ImpliedValues(Right(e), c)
                      ELSE {}
    [] e.k = "Or"  -> IF c.v = 0 THEN ImpliedValues(Left(e), Null) \cup ImpliedValues(Right(e), Null)
                      ELSE {}
    [] e.k = "Eq"  -> IF ~IsConst(Left(e)) THEN {}
                      ELSE IF c.v = 1 THEN ImpliedValues(Right(e), Left(e))
                      ELSE IF Left(e).w = Bool THEN ImpliedValues(Right(e), CreateNot(Left(e)))
                      ELSE {}
    [] OTHER -> {}

-----------------------------------------------------------------------------
(* ExprUtil.cpp                                                            *)

RECURSIVE FindReads(_)

\* findReads, updates included: the reads, also those in their indices and in
\* the updates they see.
FindReads(e) ==
  (IF e.k = "Read"
   THEN {e} \cup UNION {FindReads(e.ups[i].i) \cup FindReads(e.ups[i].v) : i \in DOMAIN e.ups}
   ELSE {})
    \cup UNION {FindReads(e.kids[i]) : i \in DOMAIN e.kids}

\* findSymbolicObjects: the arrays that are read and have no constant contents.
FindSymbolicObjects(e) == {r.root : r \in FindReads(e)} \ DOMAIN ConstantArrays

=============================================================================
