------------------------------- MODULE ExprLab -------------------------------
(***************************************************************************)
(* An expression as it grows: `built` is what the program's constructors   *)
(* made of it, `meaning` what it is to evaluate to in each world, Undef    *)
(* where the program leaves the result undefined.                          *)
(***************************************************************************)
EXTENDS KQueryParser, SmtLib, FastCex, MultiCycles

CONSTANTS
  Makers,       \* who builds: "expr" (Expr.cpp) or a builder of kleaver
  Operands,     \* the expressions an operand is taken from
  UpdateLists,  \* the updates a read may see
  Extents,      \* <<offset, width>> of the extracts
  ExtWidths,    \* widths to extend to
  Paths,        \* path constraints, sequences of expressions
  SavedPaths,   \* constraints saved before the one that is built
  Stores,       \* the values a path stores into "tmp", one after the other
  MaxSteps      \* bound on the constructors applied

ASSUME LabAssumption == Makers \subseteq Builders \cup {"expr"} /\ MaxSteps \in Nat

VARIABLES maker, built, meaning, steps
vars == <<maker, built, meaning, steps>>

MakeBinary(op, l, r) == IF maker = "expr" THEN Create(op, l, r) ELSE Build(maker, op, l, r)
MakeNot(e) == IF maker = "expr" THEN CreateNot(e) ELSE BuildNot(maker, e)
MakeConcat(l, r) == IF maker = "expr" THEN CreateConcat(l, r) ELSE BuildConcat(maker, l, r)
MakeExtract(e, off, w) ==
  IF maker = "expr" THEN CreateExtract(e, off, w) ELSE BuildExtract(maker, e, off, w)
MakeExt(k, e, w) == IF maker = "expr" THEN CreateExt(k, e, w) ELSE BuildExt(maker, k, e, w)
MakeSelect(c, t, f) == IF maker = "expr" THEN CreateSelect(c, t, f) ELSE BuildSelect(maker, c, t, f)
MakeRead(root, ups, i) ==
  IF maker = "expr" THEN CreateRead(root, ups, i, ups) ELSE BuildRead(maker, root, ups, i)

Init ==
  /\ maker \in Makers
  /\ built \in Operands
  /\ meaning = [wd \in World |-> Eval(built, wd)]
  /\ steps = 0

\* One more constructor; f(wd) is the value its node has by definition.
Grow(term, f(_)) ==
  /\ steps < MaxSteps
  /\ steps' = steps + 1
  /\ built' = term
  /\ meaning' = [wd \in World |-> f(wd)]
  /\ UNCHANGED maker

\* The value of an allocated node whose kids have the values vs.
Strict(node, vs) == IF \E i \in DOMAIN vs : vs[i] = Undef THEN Undef ELSE Apply(node, vs)

\* The divisor and the shift of constants have been checked by the program.
Checked(op, l, r) == ~(IsConst(l) /\ IsConst(r) /\ IsUndefined(op, r.v, l.w))

BinaryLeft(op, e) ==
  /\ e.w = built.w /\ Checked(op, built, e)
  /\ Grow(MakeBinary(op, built, e),
          LAMBDA wd : Strict(Alloc(op, built, e), <<meaning[wd], Eval(e, wd)>>))
BinaryRight(op, e) ==
  /\ e.w = built.w /\ Checked(op, e, built)
  /\ Grow(MakeBinary(op, e, built),
          LAMBDA wd : Strict(Alloc(op, e, built), <<Eval(e, wd), meaning[wd]>>))
Negate ==
  Grow(MakeNot(built), LAMBDA wd : Strict(AllocNot(built), <<meaning[wd]>>))
\* Executor::replaceReadWithSymbolic guards what depends on a new symbol.
Guard == ~IsConst(built) /\ Grow(CreateNotOptimized(built), LAMBDA wd : meaning[wd])
ConcatLeft(e) ==
  Grow(MakeConcat(built, e),
       LAMBDA wd : Strict(AllocConcat(built, e), <<meaning[wd], Eval(e, wd)>>))
ConcatRight(e) ==
  Grow(MakeConcat(e, built),
       LAMBDA wd : Strict(AllocConcat(e, built), <<Eval(e, wd), meaning[wd]>>))
Extract(off, w) ==
  /\ off + w <= built.w
  /\ Grow(MakeExtract(built, off, w),
          LAMBDA wd : Strict(AllocExtract(built, off, w), <<meaning[wd]>>))
Extend(k, w) ==
  /\ w >= built.w
  /\ Grow(MakeExt(k, built, w), LAMBDA wd : Strict(AllocExt(k, built, w), <<meaning[wd]>>))
SelectOn(t, f) ==
  /\ built.w = Bool /\ t.w = f.w
  /\ Grow(MakeSelect(built, t, f),
          LAMBDA wd : Strict(AllocSelect(built, t, f),
                             <<meaning[wd], Eval(t, wd), Eval(f, wd)>>))
SelectTrue(c, f) ==
  /\ c.w = Bool /\ built.w = f.w
  /\ Grow(MakeSelect(c, built, f),
          LAMBDA wd : Strict(AllocSelect(c, built, f),
                             <<Eval(c, wd), meaning[wd], Eval(f, wd)>>))
ReadAt(root, ups) ==
  /\ built.w = IndexWidth
  /\ Grow(MakeRead(root, ups, built), LAMBDA wd : EvalRead(root, ups, meaning[wd], wd))

Next ==
  \/ \E op \in Arithmetic \cup Logic \cup Shifts \cup Compares, e \in Operands :
       BinaryLeft(op, e) \/ BinaryRight(op, e)
  \/ Negate \/ Guard
  \/ \E e \in Operands : ConcatLeft(e) \/ ConcatRight(e)
  \/ \E x \in Extents : Extract(x[1], x[2])
  \/ \E k \in {"ZExt", "SExt"}, w \in ExtWidths : Extend(k, w)
  \/ \E e, f \in Operands : SelectOn(e, f) \/ SelectTrue(e, f)
  \/ \E root \in Arrays, ups \in UpdateLists : ReadAt(root, ups)

Spec == Init /\ [][Next]_vars

-----------------------------------------------------------------------------
(* Constraints from file to file.                                          *)

\* What the KQuery language cannot say: a guard, and a constant on the left of a
\* concatenation, which is printed without its width.  Reads of consecutive
\* bytes are printed as one even if they are of different arrays.
RECURSIVE Sayable(_)
Sayable(e) ==
  /\ e.k # "NotOptimized"
  /\ e.k = "Concat" => ~IsConst(Left(e))
  /\ e.k = "Concat" /\ (OrderedReads(e, -1) \/ OrderedReads(e, 1)) =>
       \A r \in ToSet(Chain(e)) : r.root = Head(Chain(e)).root /\ r.ups = Head(Chain(e)).ups
  /\ \A i \in DOMAIN e.kids : Sayable(e.kids[i])
  /\ e.k = "Read" => \A i \in DOMAIN e.ups : Sayable(e.ups[i].i) /\ Sayable(e.ups[i].v)

\* An internal state is declared with one byte or with all of them.
Byte(a, i) == AllocRead(a, <<>>, Const(i, IndexWidth))
Signals(w) ==
  {IF w = ByteWidth THEN Byte(a, 0) ELSE AllocConcat(Byte(a, 0), Byte(a, 1)) :
     a \in {a \in Arrays : GetIndex(a) # 0}}

\* What replaceReadExpr can rebuild: internal states are read as a whole, never
\* in an index or an update, a concatenation that starts with one is the state
\* itself, extracts start at the lowest bit, and no Not, which createFromKind
\* does not know.
RECURSIVE Replaceable(_, _)
Replaceable(e, w) ==
  /\ e.k # "Not"
  /\ e.k = "Extract" => e.off = 0
  /\ e.k = "Concat" => Left(e) \notin Signals(ByteWidth)
  /\ e.k = "Read" => \A r \in FindReads(e) : GetIndex(r.root) = 0
  /\ \A i \in DOMAIN e.kids : e.kids[i] \in Signals(w) \/ Replaceable(e.kids[i], w)

\* The world at the end of the cycle, in which an internal state has the value
\* that was stored for it last.
After(wd, stores, w) ==
  [a \in DOMAIN wd |->
     IF GetIndex(a) = 0 THEN wd[a]
     ELSE LET v == Eval(stores[Len(stores) - Len(InternalStates) + 1 + GetIndex(a)], wd)
          IN IF w = ByteWidth THEN [wd[a] EXCEPT ![0] = Truncate(v, ByteWidth)]
             ELSE [i \in Index |-> ExtractBits(v, (1 - i) * ByteWidth, ByteWidth)]]

\* A path of the cycle before ends: the constraints saved, read back from their
\* file, are put in terms of the states at its start.
Substitute(cs, stores) ==
  LET saved == ParseText("default", PrintQuery(Query(cs, Const(0, Bool), <<>>, <<>>)))
      F[n \in 0..Len(stores)] ==
        IF n = 0 THEN <<>> ELSE RetrieveConstraints(F[n - 1], stores[n])
  IN ToSatisfy(saved.query.cs, F[Len(stores)])

-----------------------------------------------------------------------------

Models(cs) == {wd \in World : \A i \in DOMAIN cs : Eval(cs[i], wd) = 1}
PathModels == [cs \in Paths |-> Models(cs)]

\* What the constructors made evaluates, wherever the result is defined, to
\* what was asked for: no folding, reordering or rewriting of Expr.cpp or of
\* the builders changes the value of an expression.
ConstructionKeepsMeaning ==
  \A wd \in World : meaning[wd] # Undef => Eval(built, wd) = meaning[wd]

RECURSIVE JoinsBits(_)
JoinsBits(e) ==
  \/ e.k = "Concat" /\ \E i \in DOMAIN e.kids : e.kids[i].w = Bool
  \/ \E i \in DOMAIN e.kids : JoinsBits(e.kids[i])

\* Every core solver is asked the same question: the formula its builder makes
\* of an expression has the expression's value in every world, divisions and
\* shifts by constants included, and no "uncanonicalized" assertion fails.
TranslationKeepsMeaning ==
  maker = "expr" /\ ~JoinsBits(built) =>
    \A sv \in Solvers, wd \in World :
      meaning[wd] # Undef => Construct(sv, built, wd) = meaning[wd]

(* The rest is asked of each operand and of what each step makes: e is the  *)
(* expression, m its meaning.                                              *)

\* A world of which only the bytes known of the arrays as are given.
Partially(wd, as, known) ==
  [a \in Arrays |-> [i \in Index |-> IF a \in as /\ i \in known THEN wd[a][i] ELSE Undef]]

Evaluated(e, m) ==
  maker = "expr" =>
    \A wd \in World, known \in {{}, {0}, Index} :
      m[wd] # Undef =>
        LET r == Evaluate(Partially(wd, FindSymbolicObjects(e), known), e)
        IN Eval(r, wd) = m[wd] /\ (known = Index => IsConst(r))

\* Evaluating under a partial assignment rewrites an expression into one of the
\* same value, and into a constant once the bytes of the arrays that
\* findSymbolicObjects finds are known: the caches, the seeds and the incomplete
\* solver may trust what Assignment::evaluate says.
EvaluatorAgrees == Evaluated(built, meaning) /\ [][Evaluated(built', meaning')]_vars

Asked(e, m) ==
  maker = "expr" /\ e.w = Bool =>
    \A cs \in Paths :
      LET answer == ComputeTruth(cs, e)
          bytes  == ComputeInitialValues(cs, e)
          value  == ComputeValue(cs, e)
          all    == PathModels[cs]
          next(q) == \A wd \in all : Eval(q, wd) = 1
          may(v) == \E wd \in all : m[wd] \in {v, Undef}
          must(v) == \A wd \in all : m[wd] \in {v, Undef}
      IN /\ CASE answer \in {"MustBeTrue", "Abort"} -> must(1)
              [] answer = "MayBeFalse" -> may(0)
              [] OTHER -> TRUE
         /\ (\A wd \in World : m[wd] # Undef) =>
              /\ bytes.verdict = "Invalid" =>
                   LET wd == [a \in Arrays \ DOMAIN ConstantArrays |-> bytes.values[a]]
                   IN wd \in all /\ m[wd] = 0
              /\ value # Null => may(value.v)
              /\ answer # "Abort" => (StagedTruth(cs, e, next(e)) <=> must(1))
              /\ StagedValidity(cs, e, next(e), next(IsZero(e))) \in
                   {"Abort", IF must(1) THEN "True" ELSE IF must(0) THEN "False" ELSE "Unknown"}

\* FastCexSolver's answers are right: what it calls valid holds in every model
\* of the path, what it calls invalid fails in one, its bytes are a
\* counterexample and its value one the expression has, and a staged solver
\* that asks it first answers as the next solver alone would.  Its assertions
\* on conflicting values fail only on queries that are valid.
FastCexIsRight == Asked(built, meaning) /\ [][Asked(built', meaning')]_vars

Added(e, m) ==
  maker = "expr" /\ e.w = Bool =>
    \A cs \in Paths :
      LET both == {wd \in PathModels[cs] : Eval(e, wd) = 1}
          new  == AddConstraint(cs, e)
      IN (both # {} /\ \A wd \in World : m[wd] # Undef) =>
           /\ new # Failed /\ Models(new) = both
           /\ \A rv \in ImpliedValues(e, Const(1, Bool)) :
                rv[2] # Null => \A wd \in both : Eval(rv[1], wd) = rv[2].v

Replaced(e, m) ==
  maker = "expr" /\ e.w = Bool =>
    \A st \in Stores, cs \in SavedPaths :
      (\A c \in ToSet(Append(cs, e)) : Sayable(c) /\ Replaceable(c, st.w)) =>
        LET new == Substitute(Append(cs, e), st.values)
        IN \A wd \in World :
             LET after == After(wd, st.values, st.w)
                 vs == {Eval(cs[i], after) : i \in DOMAIN cs} \cup {m[after]}
             IN Undef \notin vs =>
                  (vs = {1} <=> new # Failed /\ \A i \in DOMAIN new : Eval(new[i], wd) = 1)

\* Adding a constraint that can hold keeps the models of the path: what is
\* simplified by the others, split at conjunctions or rewritten by a new
\* equality still says the same together, the assertion against a false
\* constraint does not fail, and the values the constraint is said to imply
\* are the ones the reads have.  And at the end of a cycle, with the values a
\* path stored in place of the internal states that are read, saved constraints
\* hold where they are true of the states at the cycle's end.
ConstraintsKeepModels ==
  /\ Added(built, meaning) /\ Replaced(built, meaning)
  /\ [][Added(built', meaning') /\ Replaced(built', meaning')]_vars

Same(es, fs) ==
  /\ Len(es) = Len(fs)
  /\ \A i \in DOMAIN es, wd \in World : Eval(es[i], wd) # Undef => Eval(fs[i], wd) = Eval(es[i], wd)

Printed(e) ==
  maker = "expr" /\ Sayable(e) =>
    \A cs \in IF e.w = Bool THEN Paths ELSE {<<>>} :
      LET qu == IF e.w = Bool THEN Query(cs, e, <<>>, <<"A">>)
                ELSE Query(cs, Const(0, Bool), <<e>>, <<>>)
          r  == ParseText("default", PrintQuery(qu))
      IN /\ r.ps.errors = 0 /\ r.ps.ok /\ r.ps.toks = <<>>
         /\ Same(Append(qu.cs, qu.q) \o qu.values, Append(r.query.cs, r.query.q) \o r.query.values)
         /\ Len(r.query.cs) = Len(cs) /\ r.query.objects = qu.objects

\* A query that is printed reads back as the same query: with the widths that
\* were left out, the labels of shared expressions and update lists, and the
\* bytes that were read as one.
PrintedReadsBack == Printed(built) /\ [][Printed(built')]_vars

\* The arrays some expressions read, in their update lists too.
ArraysIn(es) == {r.root : r \in UNION {FindReads(e) : e \in es}}
ListArrays(r) == ArraysIn(UNION {{r.ups[i].i, r.ups[i].v} : i \in DOMAIN r.ups})

\* No array is read through two lists of which one reads another array: of the
\* second list the SMT-LIB printer would not find the arrays.
OneListEach(es) ==
  \A r, s \in UNION {FindReads(e) : e \in es} :
    r.root = s.root /\ r.ups # s.ups => ListArrays(r) \subseteq {r.root}

\* The SMT-LIB text of a query declares every array it names, those included
\* that only an update reads, unless an array has a second list that reads
\* another one (ExprSMTLIBPrinter.cpp:706: nothing but its first list is
\* scanned).  Text that declares its arrays is satisfied by the counterexamples
\* of the query and by nothing else, with and without lets, whatever the
\* solver makes of an array that is constant here.
SmtTextMeansTheQuery ==
  maker = "expr" /\ built.w = Bool =>
    \A mode \in Modes, cs \in Paths :
      LET text == SmtText(mode, cs, built)
          said == {text.claim} \cup UNION ToSet(text.levels)
          declared == ArraysIn(said) \subseteq text.arrays
      IN /\ OneListEach(ToSet(Append(cs, built))) => declared
         /\ declared =>
              \A wd \in World :
                meaning[wd] # Undef => (SmtHolds(text, wd) <=> wd \in PathModels[cs] /\ meaning[wd] = 0)

=============================================================================
