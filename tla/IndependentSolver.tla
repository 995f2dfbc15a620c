--------------------------- MODULE IndependentSolver ---------------------------
(***************************************************************************)
(* IndependentSolver reduces a query to the constraints that matter.  For  *)
(* truth, validity and a value it slices: it collects the constraints that *)
(* share a cell with the expression, or with a constraint collected        *)
(* before.  For initial values it splits the path into independent factors.*)
(* Both scan a list against an element set that grows while they do, and   *)
(* start over until a pass changes nothing.  One step is one iteration of  *)
(* the inner loop.                                                         *)
(***************************************************************************)
EXTENDS Queries

VARIABLES
  query,      \* the query being reduced, or NoQuery
  stage,      \* where the reduction is
  current,    \* eltsClosure with the collected constraints; the current factor
  work,       \* what this scan has still to compare with it
  rest,       \* newWorklist, keep: compared, and independent so far
  factors,    \* done, a list of factors
  settled     \* done, doneLoop: nothing has grown in this pass

vars == <<query, stage, current, work, rest, factors, settled>>

NoQuery == [kind |-> "none"]

\* IndependentElementSet, and its copy constructors and operators.
NoElements == [exprs |-> << >>, reads |-> {}]

Elements(e) == [exprs |-> <<e>>, reads |-> e.reads]
Intersects(a, b) == a.reads \cap b.reads # {}

\* Defective: the elements that come with the expressions are forgotten.
AddExprs(a, b) == [exprs |-> a.exprs \o b.exprs, reads |-> a.reads]

Add(a, b) == [exprs |-> a.exprs \o b.exprs, reads |-> a.reads \cup b.reads]

ElementsOf(p) == [i \in DOMAIN p |-> Elements(p[i])]

-----------------------------------------------------------------------------
Init ==
  /\ query = NoQuery
  /\ stage = "idle"
  /\ current = NoElements
  /\ work = << >>
  /\ rest = << >>
  /\ factors = << >>
  /\ settled = TRUE

\* getIndependentConstraints: the closure starts from what the query reads.
StartSlice(q) ==
  /\ query' = q
  /\ stage' = "slice"
  /\ current' = [exprs |-> << >>, reads |-> q.expr.reads]
  /\ work' = ElementsOf(q.path)
  /\ UNCHANGED <<rest, factors, settled>>

\* A pass of getAllIndependentConstraintsSets over a list of factors.
Pass(list) ==
  IF list = << >>
  THEN current' = NoElements /\ work' = << >>
  ELSE current' = Head(list) /\ work' = Tail(list)

\* getAllIndependentConstraintsSets(query), for a query with the expression
\* false, which adds no factor.
StartFactors(q) ==
  /\ query' = q
  /\ stage' = IF q.path = << >> THEN "factored" ELSE "factor"
  /\ Pass(ElementsOf(q.path))
  /\ UNCHANGED <<rest, factors, settled>>

Ask ==
  /\ stage = "idle"
  /\ \E q \in Query : IF q.kind = "values" THEN StartFactors(q) ELSE StartSlice(q)

\* Defective: a set that has grown does not call for another pass.
AlwaysSettled(a, b) == settled

\* doneLoop and done after a has been given b.
StillSettled(a, b) == settled /\ Add(a, b).reads = a.reads

\* One comparison: what intersects is added, the rest is kept.
Scan ==
  /\ stage \in {"slice", "factor"}
  /\ work # << >>
  /\ work' = Tail(work)
  /\ IF Intersects(current, Head(work))
     THEN /\ current' = Add(current, Head(work))
          /\ settled' = StillSettled(current, Head(work))
          /\ rest' = rest
     ELSE /\ rest' = Append(rest, Head(work))
          /\ UNCHANGED <<current, settled>>
  /\ UNCHANGED <<query, stage, factors>>

\* Defective: the flag is not set again before the next pass.
NextSlicePassUnsettled ==
  /\ stage = "slice"
  /\ work = << >>
  /\ ~settled
  /\ work' = rest
  /\ rest' = << >>
  /\ UNCHANGED <<query, stage, current, factors, settled>>

\* Another pass over the constraints that were left out, since the closure grew.
NextSlicePass ==
  /\ stage = "slice"
  /\ work = << >>
  /\ ~settled
  /\ work' = rest
  /\ rest' = << >>
  /\ settled' = TRUE
  /\ UNCHANGED <<query, stage, current, factors>>

SliceEnds ==
  /\ stage = "slice"
  /\ work = << >>
  /\ settled
  /\ stage' = "sliced"
  /\ UNCHANGED <<query, current, work, rest, factors, settled>>

\* The current factor is done with in this pass; the next one is taken from
\* what was kept.
NextFactor ==
  /\ stage = "factor"
  /\ work = << >>
  /\ rest # << >>
  /\ factors' = Append(factors, current)
  /\ Pass(rest)
  /\ rest' = << >>
  /\ UNCHANGED <<query, stage, settled>>

\* Another pass over the factors, since one of them grew.
NextFactorPass ==
  /\ stage = "factor"
  /\ work = << >>
  /\ rest = << >>
  /\ ~settled
  /\ Pass(Append(factors, current))
  /\ factors' = << >>
  /\ settled' = TRUE
  /\ UNCHANGED <<query, stage, rest>>

FactorsEnd ==
  /\ stage = "factor"
  /\ work = << >>
  /\ rest = << >>
  /\ settled
  /\ stage' = "factored"
  /\ factors' = Append(factors, current)
  /\ Pass(<< >>)
  /\ UNCHANGED <<query, rest, settled>>

\* The query has been answered, from the slice or from the factors.
Answered ==
  /\ query' = NoQuery
  /\ stage' = "idle"
  /\ current' = NoElements
  /\ work' = << >>
  /\ rest' = << >>
  /\ factors' = << >>
  /\ settled' = TRUE

Reduce == Scan \/ NextSlicePass \/ SliceEnds \/ NextFactor \/ NextFactorPass \/ FactorsEnd

Next == Ask \/ Reduce \/ (stage \in {"sliced", "factored"} /\ Answered)

Spec == Init /\ [][Next]_vars

-----------------------------------------------------------------------------
ElementSet == [exprs : Seq(Expr), reads : SUBSET Cell]

TypeOK ==
  /\ query \in Query \cup {NoQuery}
  /\ stage \in {"idle", "slice", "sliced", "factor", "factored"}
  /\ current \in ElementSet
  /\ work \in Seq(ElementSet)
  /\ rest \in Seq(ElementSet)
  /\ factors \in Seq(ElementSet)
  /\ settled \in BOOLEAN

ExprsOf(list) == UNION {ToSet(x.exprs) : x \in ToSet(list)}
ReadsOf(es) == UNION {e.reads : e \in es}

\* getIndependentConstraints returns a closed slice: no constraint it leaves
\* out reads a cell that the expression or a required constraint reads.
SliceIsClosed ==
  stage = "sliced" =>
    \A c \in ToSet(query.path) \ ToSet(current.exprs) :
      /\ c.reads \cap query.expr.reads = {}
      /\ \A d \in ToSet(current.exprs) : c.reads \cap d.reads = {}

\* getAllIndependentConstraintsSets loses no constraint, and no two of its
\* factors have constraints that read the same cell.
FactorsAreIndependent ==
  stage = "factored" =>
    /\ ExprsOf(factors) = ToSet(query.path)
    /\ \A i, j \in DOMAIN factors :
         i # j => ReadsOf(ToSet(factors[i].exprs)) \cap
                  ReadsOf(ToSet(factors[j].exprs)) = {}

-----------------------------------------------------------------------------
(* The inductive invariant: no constraint is lost between the lists, every *)
(* element set knows what its expressions read, and as long as a pass has  *)
(* changed nothing, what has been compared is independent.                 *)

Disjoint(a, b) == ~Intersects(a, b)
Exact(x) == x.reads = ReadsOf(ToSet(x.exprs))
AllExact(list) == \A x \in ToSet(list) : Exact(x)
Apart(a, list) == \A x \in ToSet(list) : Disjoint(a, x)
PairwiseApart(list) == \A i, j \in DOMAIN list : i # j => Disjoint(list[i], list[j])

IdleInv ==
  stage = "idle" => /\ query = NoQuery
                    /\ work = << >> /\ rest = << >> /\ factors = << >>
                    /\ settled

SliceInv ==
  stage \in {"slice", "sliced"} =>
    /\ query \in Query /\ query.kind # "values"
    /\ ToSet(query.path) = ToSet(current.exprs) \cup ExprsOf(work) \cup ExprsOf(rest)
    /\ current.reads = query.expr.reads \cup ReadsOf(ToSet(current.exprs))
    /\ AllExact(work) /\ AllExact(rest)
    /\ settled => Apart(current, rest)
    /\ stage = "sliced" => work = << >> /\ settled

FactorInv ==
  stage \in {"factor", "factored"} =>
    /\ query \in Query /\ query.kind = "values"
    /\ ToSet(query.path) =
         ToSet(current.exprs) \cup ExprsOf(work) \cup ExprsOf(rest) \cup ExprsOf(factors)
    /\ Exact(current) /\ AllExact(work) /\ AllExact(rest) /\ AllExact(factors)
    /\ settled => /\ Apart(current, rest) /\ Apart(current, factors)
                  /\ \A f \in ToSet(factors) : Apart(f, work) /\ Apart(f, rest)
                  /\ PairwiseApart(factors)
    /\ stage = "factored" =>
         settled /\ current = NoElements /\ work = << >> /\ rest = << >>

IInv == TypeOK /\ IdleInv /\ SliceInv /\ FactorInv
=============================================================================
