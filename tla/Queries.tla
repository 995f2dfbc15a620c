------------------------------- MODULE Queries -------------------------------
(***************************************************************************)
(* What the solver chain is asked.  A world gives a byte to every cell, a  *)
(* byte of a symbolic array.  An expression is the cells it reads and the  *)
(* worlds in which it is true; a ReadExpr at a symbolic index reads every  *)
(* cell of its array.  A path is the constraint vector of a state; the     *)
(* executor adds only constraints that may be true, so it is satisfiable.  *)
(***************************************************************************)
EXTENDS Sequences, SequencesExt

CONSTANTS
  Cell, Array, ArrayOf,  \* the bytes of the symbolic arrays
  Byte, Zero,
  Expr,                  \* the boolean expressions that are not constants
  Path                   \* the constraints of the states that ask

World == [Cell -> Byte]

\* Expr::createIsZero of a boolean expression.
Not(e) == [reads |-> e.reads, holds |-> World \ e.holds]

Agree(v, w, cs) == \A c \in cs : v[c] = w[c]

\* An expression depends on nothing but the cells it reads.
WellFormed(e) ==
  \A v, w \in World : Agree(v, w, e.reads) => (v \in e.holds <=> w \in e.holds)

\* Assignment::satisfies, for a set of expressions.
Satisfies(w, es) == \A e \in es : w \in e.holds
Satisfiable(es) == \E w \in World : Satisfies(w, es)
Entails(es, e) == \A w \in World : Satisfies(w, es) => w \in e.holds

ASSUME QueryAssumption ==
  /\ ArrayOf \in [Cell -> Array]
  /\ Zero \in Byte
  /\ Expr \subseteq [reads : SUBSET Cell, holds : SUBSET World]
  /\ \A e \in Expr : Not(e) \in Expr /\ WellFormed(e)
  /\ Path \subseteq Seq(Expr)
  /\ \A p \in Path : Satisfiable(ToSet(p))

CellsOf(arrays) == {c \in Cell : ArrayOf[c] \in arrays}

-----------------------------------------------------------------------------
\* The four queries of SolverImpl.  Initial values are asked of a state for
\* some of its arrays.
Query ==
  [kind : {"truth", "validity", "value"}, path : Path, expr : Expr]
    \cup [kind : {"values"}, path : Path, objects : SUBSET Array]

\* The answers that are right, by the definitions in Solver.h.
RightTruth(p, e) == {Entails(ToSet(p), e)}

RightValidity(p, e) ==
  {CASE Entails(ToSet(p), e) -> "True"
     [] Entails(ToSet(p), Not(e)) -> "False"
     [] OTHER -> "Unknown"}

RightValue(p, e) ==
  {b \in BOOLEAN : Satisfiable(ToSet(p) \cup {IF b THEN e ELSE Not(e)})}

RightValues(p, arrays) ==
  {[c \in CellsOf(arrays) |-> w[c]] : w \in {v \in World : Satisfies(v, ToSet(p))}}

Right(q) ==
  CASE q.kind = "truth" -> RightTruth(q.path, q.expr)
    [] q.kind = "validity" -> RightValidity(q.path, q.expr)
    [] q.kind = "value" -> RightValue(q.path, q.expr)
    [] q.kind = "values" -> RightValues(q.path, q.objects)
=============================================================================
