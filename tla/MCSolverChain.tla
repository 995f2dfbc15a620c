---------------------------- MODULE MCSolverChain ----------------------------
(* Two arrays, A of two cells and B of one, and three expressions over them *)
(* with their negations: a slice may need two passes, an array may be split *)
(* over two factors, and a constraint may link the arrays.                  *)
EXTENDS SolverChain

CONSTANTS a1, a2, b1, A, B

MCCell == {a1, a2, b1}
MCArrayOf == [c \in MCCell |-> IF c = b1 THEN B ELSE A]
MCWorld == [MCCell -> {0, 1}]

E(cs, ws) == [reads |-> cs, holds |-> ws]
X == E({a1}, {w \in MCWorld : w[a1] = 1})
XY == E({a1, a2}, {w \in MCWorld : w[a1] <= w[a2]})
YZ == E({a2, b1}, {w \in MCWorld : w[a2] <= w[b1]})
No(e) == E(e.reads, MCWorld \ e.holds)

MCExpr == {X, XY, YZ} \cup {No(e) : e \in {X, XY, YZ}}
MCPath == {<<>>, <<X, YZ>>, <<YZ, XY>>, <<X, YZ, XY>>}

\* The defaults, the two ways to look further, and the experimental option.
MCOptions == {[tryAll |-> all, superSet |-> all, exp |-> FALSE] : all \in BOOLEAN}
             \cup {[tryAll |-> FALSE, superSet |-> TRUE, exp |-> TRUE]}
=============================================================================
