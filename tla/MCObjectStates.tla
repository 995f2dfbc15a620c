---------------------------- MODULE MCObjectStates ----------------------------
EXTENDS ObjectStates, ExprTerms

\* Array 0 is symbolic; the others are the constant arrays of three bytes.
MCArrays == 0..64
MCConstantArrays ==
  SubSeq([a \in 1..64 |-> <<(a - 1) % 4, ((a - 1) \div 4) % 4, (a - 1) \div 16>>], 1, 64)

\* The expressions are those of ExprTerms.
MCWorlds == World
MCConstantExpr(v, w) == Const(v, w)
MCIsConstant(e) == IsConst(e)
MCBinaryExpr(op, l, r) == Create(op, l, r)
MCCastExpr(k, e, w) == CreateExt(k, e, w)
MCExtractExpr(e, off, w) == CreateExtract(e, off, w)
MCConcatExpr(l, r) == CreateConcat(l, r)
MCReadExpr(root, ups, i, all) == CreateRead(root, ups, i, all)
MCValueOf(e, wd) == Eval(e, wd)

X == AllocRead(0, <<>>, Const(0, IndexWidth))
Y == AllocRead(0, <<>>, Const(1, IndexWidth))
Z == AllocRead(0, <<>>, Const(2, IndexWidth))
MCEntry ==
  Alloc("And", Alloc("Eq", Y, Alloc("Or", Const(2, ByteWidth), X)), Alloc("Eq", Const(1, ByteWidth), Z))
MCOffsets == {Const(0, 4), Const(1, 4), AllocExt("ZExt", X, 4)}
MCValues == {Const(1, ByteWidth), AllocConcat(X, Y), Const(13, 4), Alloc("Ult", X, Y)}
MCWidths == {Bool, ByteWidth, 2 * ByteWidth}

\* The constructors of ExprTerms are what the proofs ask for, on the terms and
\* the lists these accesses start from.
SomeTerms ==
  LET made == MCOffsets \cup MCValues \cup {X, Y, Z} \cup {Const(b, ByteWidth) : b \in Byte}
      sums == {Plus(t, i) : t \in {X, Y, Narrow(AllocExt("ZExt", X, 4))}, i \in Position}
  IN made \cup sums \cup {ConcatExpr(a, b) : a \in {X, Y}, b \in Of(sums, ByteWidth)}
SomeLists ==
  LET ups == [i : {Const(1, IndexWidth), X}, v : {Const(1, ByteWidth), Y}]
  IN {<<>>} \cup {<<u>> : u \in ups} \cup {<<u, v>> : u, v \in ups}

ASSUME LanguageAssumption ==
  /\ ConstantsAreRight(SomeTerms)
  /\ \A wd \in {v \in World : v[0][2] = 1} : ValuesAreRight(SomeTerms, wd)
  /\ \A wd \in {v \in World : v[0][1] = 2 /\ v[0][2] = 1} :
       ReadsAreRight({X, Z, Const(1, IndexWidth)}, SomeLists, wd)
=============================================================================
