---------------------------- MODULE KQueryPrinter ----------------------------
(***************************************************************************)
(* Printing of queries in the KQuery language                              *)
(* (klee/lib/Expr/ExprPPrinter.cpp) as a sequence of tokens: expressions   *)
(* and update lists met twice get a label where they are printed first,    *)
(* widths are left out where they are one bit, and those of constants      *)
(* nearly everywhere.  Layout is left out.                                 *)
(***************************************************************************)
EXTENDS ExprTerms, SequencesExt

Token(kind, text, n) == [kind |-> kind, text |-> <<text, n>>]
Punct(kind)     == Token(kind, "", 0)
Ident(text, n)  == Token("Identifier", text, n)
Width(w)        == Token("KWWidth", "w", w)
Numeral(v)      == Token("Number", "", v)

-----------------------------------------------------------------------------
(* PPrinter::scan: what occurs, and what occurs more than once.            *)

NoScan == [exprs |-> {}, shared |-> {}, lists |-> {}, sharedLists |-> {}, arrays |-> {}]

RECURSIVE Scan(_, _), ScanUpdate(_, _, _)

ScanUpdate(sc, root, ups) ==
  IF ups = <<>> THEN sc
  ELSE IF <<root, ups>> \in sc.lists THEN [sc EXCEPT !.sharedLists = @ \cup {<<root, ups>>}]
  ELSE LET next == ScanUpdate([sc EXCEPT !.lists = @ \cup {<<root, ups>>}], root, Tail(ups))
       IN Scan(Scan(next, Head(ups).i), Head(ups).v)

Scan(sc, e) ==
  IF IsConst(e) THEN sc
  ELSE IF e \in sc.exprs THEN [sc EXCEPT !.shared = @ \cup {e}]
  ELSE LET kids == FoldLeft(LAMBDA s, kid : Scan(s, kid), [sc EXCEPT !.exprs = @ \cup {e}], e.kids)
       IN IF e.k # "Read" THEN kids
          ELSE ScanUpdate([kids EXCEPT !.arrays = @ \cup {e.root}], e.root, e.ups)

-----------------------------------------------------------------------------
(* Reads of consecutive bytes are printed as one.                          *)

RECURSIVE Chain(_)
Chain(e) == IF e.k = "Concat" THEN <<Left(e)>> \o Chain(Right(e)) ELSE <<e>>

\* hasOrderedReads: the indices follow the stride; that the reads are of the
\* same array and see the same updates is not asked.
OrderedReads(e, stride) ==
  LET reads == Chain(e)
  IN /\ \A j \in DOMAIN reads : reads[j].k = "Read"
     /\ \A j \in 2..Len(reads) :
          Create("Sub", reads[j].kids[1], reads[1].kids[1])
            = Const(Truncate((j - 1) * stride, IndexWidth), reads[1].kids[1].w)

\* The read a multibyte read is printed from, and its name.
BaseRead(e) ==
  IF OrderedReads(e, -1) THEN [name |-> "ReadLSB", read |-> Last(Chain(e))]
  ELSE [name |-> "ReadMSB", read |-> Head(Chain(e))]

-----------------------------------------------------------------------------
(* The text so far, and the labels given.                                  *)

NoText == [out |-> <<>>, names |-> <<>>, lists |-> <<>>]
Emit(pr, tokens) == [pr EXCEPT !.out = @ \o tokens]

PrintWidth(e) == IF e.w = Bool THEN <<>> ELSE <<Width(e.w)>>

PrintConst(c, withWidth) ==
  IF c.w = Bool THEN <<Punct(IF c.v = 1 THEN "KWTrue" ELSE "KWFalse")>>
  ELSE IF withWidth THEN <<Punct("LParen"), Width(c.w), Numeral(c.v), Punct("RParen")>>
  ELSE <<Numeral(c.v)>>

LabelExpr(pr, e) ==
  LET n == Cardinality(DOMAIN pr.names)
  IN [Emit(pr, <<Ident("N", n), Punct("Colon")>>) EXCEPT !.names = (e :> n) @@ @]
LabelList(pr, list) ==
  LET n == Cardinality(DOMAIN pr.lists)
  IN [Emit(pr, <<Ident("U", n), Punct("Colon")>>) EXCEPT !.lists = (list :> n) @@ @]

RECURSIVE Print1(_, _, _, _), PrintWrites(_, _, _, _, _)

\* printUpdateList past its first node; opened says that a bracket is open.
PrintWrites(sc, pr, root, ups, opened) ==
  LET list  == <<root, ups>>
      close == IF opened THEN <<Punct("RSquare"), Punct("At")>> ELSE <<>>
      fresh == list \in sc.sharedLists
      named == IF fresh THEN LabelList(Emit(pr, close), list) ELSE pr
      comma == Emit(named, <<Punct(IF opened /\ ~fresh THEN "Comma" ELSE "LSquare")>>)
      index == Emit(Print1(sc, comma, Head(ups).i, FALSE), <<Punct("Equals")>>)
  IN IF ups = <<>> THEN Emit(pr, <<Punct("RSquare"), Punct("At"), Ident(root, 0)>>)
     ELSE IF list \in DOMAIN pr.lists THEN Emit(pr, close \o <<Ident("U", pr.lists[list])>>)
     ELSE PrintWrites(sc, Print1(sc, index, Head(ups).v, FALSE), root, Tail(ups), TRUE)

PrintUpdateList(sc, pr, root, ups) ==
  IF ups = <<>> THEN Emit(pr, <<Ident(root, 0)>>) ELSE PrintWrites(sc, pr, root, ups, FALSE)

PrintRead(sc, pr, e) == PrintUpdateList(sc, Print1(sc, pr, e.kids[1], FALSE), e.root, e.ups)

\* printExpr: the widths of constants only for the kids after the first.
PrintKids(sc, pr, e) ==
  LET first == Print1(sc, pr, e.kids[1], FALSE)
  IN FoldLeft(LAMBDA p, kid : Print1(sc, p, kid, e.k \in {"Concat", "SExt"}), first, Tail(e.kids))

\* What is between the parentheses.
PrintNode(sc, pr, e) ==
  LET many == e.k = "Concat" /\ (OrderedReads(e, -1) \/ OrderedReads(e, 1))
      name == IF many THEN BaseRead(e).name ELSE e.k
      head == Emit(pr, <<Ident(name, 0)>> \o PrintWidth(e))
  IN IF many THEN PrintRead(sc, head, BaseRead(e).read)
     ELSE IF e.k = "Read" THEN PrintRead(sc, head, e)
     ELSE IF e.k = "Extract" THEN Print1(sc, Emit(head, <<Numeral(e.off)>>), e.kids[1], FALSE)
     ELSE PrintKids(sc, head, e)

Print1(sc, pr, e, withWidth) ==
  IF IsConst(e) THEN Emit(pr, PrintConst(e, withWidth))
  ELSE IF e \in DOMAIN pr.names THEN Emit(pr, <<Ident("N", pr.names[e])>>)
  ELSE LET named == IF e \in sc.shared THEN LabelExpr(pr, e) ELSE pr
       IN Emit(PrintNode(sc, Emit(named, <<Punct("LParen")>>), e), <<Punct("RParen")>>)

-----------------------------------------------------------------------------

\* The declaration of an array.
PrintArray(a) ==
  <<Punct("KWArray"), Ident(a, 0), Punct("LSquare"), Numeral(ArraySize), Punct("RSquare"), Punct("Colon"),
    Width(IndexWidth), Punct("Arrow"), Width(ByteWidth), Punct("Equals")>>
  \o IF a \notin DOMAIN ConstantArrays THEN <<Punct("KWSymbolic")>>
     ELSE <<Punct("LSquare")>> \o [j \in 1..ArraySize |-> Numeral(ConstantArrays[a][j])] \o <<Punct("RSquare")>>

\* A query: constraints, the expression, and what to give values of.
Query(cs, q, values, objects) == [cs |-> cs, q |-> q, values |-> values, objects |-> objects]

\* ExprPPrinter::printQuery.
PrintQuery(qu) ==
  LET scan   == FoldLeft(LAMBDA s, e : Scan(s, e), NoScan, qu.cs \o <<qu.q>> \o qu.values)
      arrays == SetToSeq(scan.arrays \cup Range(qu.objects))
      decls  == FoldLeft(LAMBDA p, a : Emit(p, PrintArray(a)), NoText, arrays)
      open   == Emit(decls, <<Punct("LParen"), Punct("KWQuery"), Punct("LSquare")>>)
      cs     == FoldLeft(LAMBDA p, e : Print1(scan, p, e, FALSE), open, qu.cs)
      q      == Print1(scan, Emit(cs, <<Punct("RSquare")>>), qu.q, FALSE)
      values == FoldLeft(LAMBDA p, e : Print1(scan, p, e, TRUE), Emit(q, <<Punct("LSquare")>>), qu.values)
      asked  == IF qu.values = <<>> /\ qu.objects = <<>> THEN q ELSE Emit(values, <<Punct("RSquare")>>)
      names  == [j \in DOMAIN qu.objects |-> Ident(qu.objects[j], 0)]
      done   == IF qu.objects = <<>> THEN asked
                ELSE Emit(asked, <<Punct("LSquare")>> \o names \o <<Punct("RSquare")>>)
  IN Emit(done, <<Punct("RParen")>>).out

=============================================================================
