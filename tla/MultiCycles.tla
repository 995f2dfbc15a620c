----------------------------- MODULE MultiCycles -----------------------------
(***************************************************************************)
(* The backward search over clock cycles (ExecutorMultiCycles.cpp): the    *)
(* path constraints saved for a cycle speak of the internal states at its  *)
(* start; when a path of the cycle before ends, the values it stored into  *)
(* those states are put in their place, and what results has to hold too.  *)
(***************************************************************************)
EXTENDS ExprRewriting, SequencesExt

CONSTANT InternalStates    \* OR1200InternalStates: names of arrays, "null" first

\* retrieveConstraints, on every store into "tmp": the list starts over when it
\* has a value for each name.
RetrieveConstraints(stored, value) ==
  IF Len(stored) = Len(InternalStates) - 1 THEN <<value>> ELSE Append(stored, value)

\* getIndex: a name that is not listed gets the index of "null".
GetIndex(name) ==
  IF \E n \in DOMAIN InternalStates : InternalStates[n] = name
  THEN (CHOOSE n \in DOMAIN InternalStates : InternalStates[n] = name) - 1
  ELSE 0

\* A value wider than the byte it stands for was extended when it was stored.
\* The list keeps the adjusted value.
Fit(value, w) ==
  IF value.w = w THEN value
  ELSE IF value.k \in {"ZExt", "SExt"} THEN Left(value)
  ELSE IF IsConst(value) THEN Const(Truncate(value.v, w), w)
  ELSE value

RECURSIVE ReplaceReadExpr(_, _)

\* The kids are replaced from left to right, never a itself, in the expression
\* e and with the list stored as it was left.  A rebuilt extract takes its offset
\* from an extract below it, or else loses it.
ReplaceReadExpr(a, stored) ==
  LET Arg(list, kid) ==
        IF kid.kids = <<>> THEN [e |-> kid, stored |-> list]
        ELSE IF kid.k = "Concat" /\ Left(kid).k = "Read" /\ GetIndex(Left(kid).root) # 0
        THEN [e |-> list[GetIndex(Left(kid).root)], stored |-> list]
        ELSE IF kid.k = "Read" /\ GetIndex(kid.root) = 0
        THEN [e |-> kid, stored |-> list]
        ELSE IF kid.k = "Read"
        THEN LET n == GetIndex(kid.root) IN LET fitted == Fit(list[n], kid.w)
             IN [e |-> fitted, stored |-> [list EXCEPT ![n] = fitted]]
        ELSE ReplaceReadExpr(kid, list)
      all == FoldLeft(LAMBDA done, kid : LET arg == Arg(done.stored, kid)
                                         IN [kids |-> Append(done.kids, arg.e), stored |-> arg.stored],
                      [kids |-> <<>>, stored |-> stored], a.kids)
      made == IF IsConst(a) THEN a
              ELSE IF a.k = "Extract"
              THEN CreateExtract(all.kids[1], IF Left(a).k = "Extract" THEN Left(a).off ELSE 0, a.w)
              ELSE Rebuild(a, all.kids)
  IN [e |-> made, stored |-> all.stored]

\* pathConstraintSatisfied: the constraints to satisfy, Failed as soon as one is
\* the constant false.
ToSatisfy(saved, stored) ==
  LET Step(sat, c) ==
        LET new == ReplaceReadExpr(c, sat.stored)
        IN IF sat.cs = Failed THEN sat
           ELSE [cs |-> IF IsConst(new.e) /\ new.e.v = 0 THEN Failed
                        ELSE AddConstraint(sat.cs, new.e),
                 stored |-> new.stored]
  IN FoldLeft(Step, [cs |-> <<>>, stored |-> stored], saved).cs

=============================================================================
