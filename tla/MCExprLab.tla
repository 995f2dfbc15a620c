------------------------------ MODULE MCExprLab ------------------------------
EXTENDS ExprLab

MCConstantArrays == [K |-> <<1, 3>>]
X == AllocRead("A", <<>>, Const(0, IndexWidth))
Y == AllocRead("A", <<>>, Const(1, IndexWidth))
XY == AllocConcat(X, Y)
MCOperands ==
  {X, Const(3, 2), XY, Const(11, 4), Alloc("Ult", X, Y), Const(0, Bool)}
FromTable == AllocRead("K", <<>>, AllocExt("ZExt", AllocExtract(X, 0, 1), IndexWidth))
MCUpdateLists == {<<>>, <<Update(Const(1, 2), FromTable)>>, <<Update(Y, Const(3, 2)), Update(Const(0, 2), Y)>>}
MCExtents == {<<0, 2>>, <<2, 2>>, <<1, 2>>, <<0, 1>>}
MCExtWidths == {2, 4}
MCPaths ==
  {<<>>, <<Alloc("Ult", Const(0, 2), X), Alloc("Eq", Const(1, 2), Alloc("And", X, Y))>>,
   <<Alloc("Eq", Const(3, 2), Y), Alloc("Eq", Const(0, Bool), Alloc("Eq", Const(1, 2), X))>>}

MCInternalStates == <<"null", "B", "A">>
MCSavedPaths == {<<>>, <<Alloc("Ult", Const(2, 4), XY)>>, <<Alloc("Eq", Const(3, 2), X)>>}
MCStores ==
  {[w |-> 4, values |-> <<Y, Const(7, 4), X, Alloc("Add", Const(3, 4), XY)>>],
   [w |-> 2, values |-> <<X, Const(11, 4)>>],
   [w |-> 2, values |-> <<Y, Y, X, AllocExt("ZExt", Alloc("Sub", Y, X), 4)>>]}

=============================================================================
