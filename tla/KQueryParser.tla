----------------------------- MODULE KQueryParser -----------------------------
(***************************************************************************)
(* The parser of the KQuery language (klee/lib/Expr/Parser.cpp), from      *)
(* tokens to expressions that a builder makes.  The parser's state ps is   *)
(* what is left to read, the depth of the parentheses, the symbol tables,  *)
(* the number of errors reported, and ok: no assertion has failed.  A      *)
(* production returns the new state and a value, None if it is invalid.    *)
(***************************************************************************)
EXTENDS KQueryPrinter, ExprBuilders

None == Const(Undef, 0)
Untyped == 0      \* the type cannot be inferred from the context

Tok(ps) == IF ps.toks = <<>> THEN Punct("EndOfFile") ELSE Head(ps.toks)
At(ps, kinds) == Tok(ps).kind \in kinds
Result(ps, v) == [ps |-> ps, val |-> v]

Initialize(tokens) ==
  [toks |-> tokens, paren |-> 0, exprs |-> <<>>, versions |-> <<>>, arrays |-> <<>>, errors |-> 0, ok |-> TRUE]

\* ConsumeAnyToken and ConsumeExpectedToken.
Eat(ps) ==
  [ps EXCEPT !.toks = IF @ = <<>> THEN @ ELSE Tail(@),
             !.paren = CASE At(ps, {"LParen"}) -> @ + 1
                         [] At(ps, {"RParen"}) /\ @ > 0 -> @ - 1
                         [] OTHER -> @]
Expect(ps, kind) == IF At(ps, {kind}) THEN Eat(ps) ELSE [Eat(ps) EXCEPT !.ok = FALSE]
Error(ps) == [ps EXCEPT !.errors = @ + 1]

RECURSIVE SkipUntil(_, _, _)
SkipUntil(ps, kind, level) ==
  IF At(ps, {"EndOfFile"}) THEN ps
  ELSE IF At(ps, {kind}) /\ ps.paren = level THEN Eat(ps)
  ELSE SkipUntil(Eat(ps), kind, level)
\* An error, and on to what follows the parenthesis.
Abandon(ps) == SkipUntil(Error(ps), "RParen", ps.paren)

\* ExpectRParen, ExpectRSquare.
Close(ps, kind) ==
  IF At(ps, {"EndOfFile"}) THEN Error(ps)
  ELSE IF At(ps, {kind}) THEN Eat(ps)
  ELSE SkipUntil(Error(ps), kind, ps.paren)

\* ParseNumberToken: a decimal number is computed in four bits per digit, then
\* truncated or extended.
Digits(v) == CHOOSE n \in 1..(v + 1) : v < 10^n /\ (n = 1 \/ 10^(n - 1) <= v)
ParseNumberToken(t, w) == Const(Truncate(Truncate(t.text[2], 4 * Digits(t.text[2])), w), w)
ParseNumber(ps, w) == Result(Expect(ps, "Number"), ParseNumberToken(Tok(ps), w))
ParseTypeSpecifier(ps) == Result(Expect(ps, "KWWidth"), Tok(ps).text[2])

DefineExpr(ps, label, e) == IF label = <<>> THEN ps ELSE [ps EXCEPT !.exprs = @ @@ (label :> e)]
DefineVersion(ps, label, v) == IF label = <<>> THEN ps ELSE [ps EXCEPT !.versions = @ @@ (label :> v)]

-----------------------------------------------------------------------------
(* Expressions; b is the builder.                                          *)

RECURSIVE ParseExpr(_, _, _), ParseParenExpr(_, _), ParseVersionSpecifier(_, _), ParseVersion(_, _),
          ParseWrites(_, _, _), ParseConcatKids(_, _, _)

\* A number whose type is not known yet stays a token.
ParseNumberOrExpr(b, ps) ==
  IF At(ps, {"Number"}) THEN [ps |-> Eat(ps), val |-> None, number |-> Tok(ps), isNumber |-> TRUE]
  ELSE LET r == ParseExpr(b, ps, Untyped)
       IN [ps |-> r.ps, val |-> r.val, number |-> Tok(ps), isNumber |-> FALSE]
Typed(r, w) == IF r.isNumber THEN ParseNumberToken(r.number, w) ELSE r.val

\* [<identifier>:] paren-expr, after the label.
ParseLabelled(b, ps, label, want) ==
  LET r == ParseParenExpr(b, ps)
  IN IF r.val = None
     THEN Result(IF want = Untyped THEN r.ps ELSE DefineExpr(r.ps, label, Const(0, want)), None)
     ELSE IF want # Untyped /\ r.val.w # want THEN Result(Error(r.ps), None)
     ELSE Result(DefineExpr(r.ps, label, r.val), r.val)

ParseExpr(b, ps, want) ==
  LET t == Tok(ps)
      after == Eat(ps)
  IN CASE t.kind = "EndOfFile" -> Result(Error(ps), None)
       [] t.kind \in {"KWTrue", "KWFalse"} -> Result(after, Const(Bit(t.kind = "KWTrue"), Bool))
       [] t.kind = "Number" -> IF want = Untyped THEN Result(Error(after), None) ELSE ParseNumber(ps, want)
       [] t.kind = "Identifier" ->
            IF ~At(after, {"Colon"})
            THEN IF t.text \in DOMAIN ps.exprs THEN Result(after, ps.exprs[t.text])
                 ELSE Result(Error(after), None)
            ELSE IF t.text \in DOMAIN ps.exprs THEN ParseLabelled(b, Error(Eat(after)), <<>>, want)
            ELSE ParseLabelled(b, Eat(after), t.text, want)
       [] OTHER -> ParseLabelled(b, ps, <<>>, want)

\* Both arguments have one type: the expected one, or the one that either has.
ParseMatchedBinaryArgs(b, ps, want) ==
  LET l == IF want = Untyped THEN ParseNumberOrExpr(b, ps)
           ELSE LET r == ParseExpr(b, ps, want)
                IN [ps |-> r.ps, val |-> r.val, number |-> Tok(ps), isNumber |-> FALSE]
      r == IF want # Untyped THEN ParseExpr(b, l.ps, want)
           ELSE IF l.isNumber THEN ParseExpr(b, l.ps, Untyped)
           ELSE IF l.val = None THEN ParseExpr(b, l.ps, Untyped)
           ELSE ParseExpr(b, l.ps, l.val.w)
      lv == IF l.isNumber /\ r.val # None THEN ParseNumberToken(l.number, r.val.w) ELSE l.val
  IN IF At(ps, {"RParen"}) THEN [ps |-> Eat(Error(ps)), left |-> None, right |-> None]
     ELSE IF At(l.ps, {"RParen"}) THEN [ps |-> Eat(Error(l.ps)), left |-> l.val, right |-> None]
     ELSE [ps |-> Close(r.ps, "RParen"), left |-> lv, right |-> r.val]

ParseUnaryParenExpr(b, ps, name, w) ==
  LET r   == ParseExpr(b, ps, IF name = "Not" THEN w ELSE Untyped)
      arg == IF r.val = None THEN Const(0, w) ELSE r.val
  IN IF At(ps, {"RParen"}) THEN Result(Eat(Error(ps)), Const(0, w))
     ELSE Result(Close(r.ps, "RParen"), IF name = "Not" THEN BuildNot(b, arg) ELSE BuildExt(b, name, arg, w))

ParseBinaryParenExpr(b, ps, name, w) ==
  LET r == ParseMatchedBinaryArgs(b, ps, IF name \in Compares THEN Untyped ELSE w)
  IN IF r.left = None \/ r.right = None THEN Result(r.ps, Const(0, w))
     ELSE IF r.left.w # r.right.w THEN Result(Error(r.ps), Const(0, w))
     ELSE Result(r.ps, Build(b, name, r.left, r.right))

ParseSelectParenExpr(b, ps, w) ==
  LET c == ParseExpr(b, ps, Bool)
      r == ParseMatchedBinaryArgs(b, c.ps, w)
  IN IF At(ps, {"RParen"}) THEN Result(Eat(Error(ps)), Const(0, w))
     ELSE IF None \in {c.val, r.left, r.right} THEN Result(r.ps, Const(0, w))
     ELSE Result(r.ps, BuildSelect(b, c.val, r.left, r.right))

\* ConcatExpr::createN.
CreateN(kids) == FoldRight(LAMBDA kid, e : CreateConcat(kid, e), Front(kids), Last(kids))

ParseConcatKids(b, ps, kids) ==
  LET r == ParseExpr(b, ps, Untyped)
  IN IF At(ps, {"RParen"}) THEN [ps |-> Eat(ps), kids |-> kids]
     ELSE IF r.val = None THEN [ps |-> SkipUntil(r.ps, "RParen", r.ps.paren), kids |-> <<>>]
     ELSE ParseConcatKids(b, r.ps, Append(kids, r.val))
ParseConcatParenExpr(b, ps, w) ==
  LET r   == ParseConcatKids(b, ps, <<>>)
      sum == FoldLeft(LAMBDA n, kid : n + kid.w, 0, r.kids)
  IN IF r.kids = <<>> THEN Result(r.ps, Const(0, w))
     ELSE IF sum # w THEN Result(Error(r.ps), Const(0, w))
     ELSE Result(r.ps, CreateN(r.kids))

ParseExtractParenExpr(b, ps, w) ==
  LET off == ParseNumber(ps, IndexWidth)
      r   == ParseExpr(b, off.ps, Untyped)
      end == Close(r.ps, "RParen")
  IN IF r.val = None THEN Result(end, Const(0, w))
     ELSE IF off.val.v + w > r.val.w THEN Result(Error(end), Const(0, w))
     ELSE Result(end, BuildExtract(b, r.val, off.val.v, w))

\* Defective: the bytes of a least significant first read are not reversed.
OrderedKidsMSB(b, name, v, i, w) ==
  [j \in 1..(w \div ByteWidth) |->
     BuildRead(b, v.root, v.ups, IF j = 1 THEN i ELSE Create("Add", i, Const(j - 1, IndexWidth)))]

\* The reads of a multibyte read, most significant first.
OrderedKids(b, name, v, i, w) ==
  LET n == w \div ByteWidth
      kids == [j \in 1..n |->
                 BuildRead(b, v.root, v.ups, IF j = 1 THEN i ELSE Create("Add", i, Const(j - 1, IndexWidth)))]
  IN IF name = "ReadLSB" THEN Reverse(kids) ELSE kids

ParseAnyReadParenExpr(b, ps, name, w) ==
  LET at  == ParseNumberOrExpr(b, ps)
      v   == ParseVersionSpecifier(b, at.ps)
      end == Close(v.ps, "RParen")
      i   == Typed(at, IndexWidth)
  IN IF ~v.valid \/ i = None THEN Result(end, Const(0, w))
     ELSE IF i.w # IndexWidth THEN Result(Error(end), Const(0, w))
     ELSE IF name = "Read" THEN Result(end, BuildRead(b, v.val.root, v.val.ups, i))
     ELSE IF w % ByteWidth # 0 THEN Result(Error(end), Const(0, w))
     ELSE Result(end, CreateN(OrderedKids(b, name, v.val, i, w)))

\* A kind the parser knows, with its type already read.
ParseKind(b, ps, name, w) ==
  CASE name = "Concat"  -> ParseConcatParenExpr(b, ps, w)
    [] name = "Extract" -> ParseExtractParenExpr(b, ps, w)
    [] name = "Select"  -> ParseSelectParenExpr(b, ps, w)
    [] name \in {"Read", "ReadLSB", "ReadMSB"} -> ParseAnyReadParenExpr(b, ps, name, w)
    [] name \in {"Not", "ZExt", "SExt"} -> ParseUnaryParenExpr(b, ps, name, w)
    [] OTHER -> ParseBinaryParenExpr(b, ps, name, w)

\* LookupExprInfo; NotOptimized is not a kind of the language.
Kinds == Arithmetic \cup Logic \cup Shifts \cup Compares
           \cup {"Concat", "Extract", "Select", "Read", "ReadLSB", "ReadMSB", "Not", "ZExt", "SExt"}

\* (w32 11): a number with its type.
ParseCoercion(ps) ==
  LET type == ParseTypeSpecifier(ps)
      num  == ParseNumber(type.ps, type.val)
  IN IF ~At(type.ps, {"Number"}) THEN Result(Abandon(type.ps), None)
     ELSE Result(Close(num.ps, "RParen"), num.val)

ParseParenExpr(b, ps) ==
  LET in   == Eat(ps)
      name == Tok(in).text[1]
      type == IF At(Eat(in), {"KWWidth"}) THEN ParseTypeSpecifier(Eat(in)) ELSE Result(Eat(in), Bool)
  IN IF ~At(ps, {"LParen"}) THEN Result(Error(in), None)
     ELSE IF At(in, {"KWWidth"}) THEN ParseCoercion(in)
     ELSE IF ~At(in, {"Identifier"}) THEN Result(Abandon(in), None)
     ELSE IF name \notin Kinds THEN Result(Abandon(type.ps), None)
     ELSE ParseKind(b, type.ps, name, type.val)

-----------------------------------------------------------------------------
(* Versions of arrays: update lists, labelled or not.                      *)

Version(root, ups) == [root |-> root, ups |-> ups]
NoVersion(ps) == [ps |-> ps, val |-> Version("", <<>>), valid |-> FALSE]

ParseWrites(b, ps, writes) ==
  LET l == ParseNumberOrExpr(b, ps)
      r == ParseNumberOrExpr(b, Eat(l.ps))
      all == Append(writes, [l |-> l, r |-> r])
  IN IF ~At(l.ps, {"Equals"}) THEN [ps |-> Error(l.ps), writes |-> writes]
     ELSE IF At(r.ps, {"Comma"}) THEN ParseWrites(b, Eat(r.ps), all)
     ELSE [ps |-> r.ps, writes |-> all]

\* A write is put on the list if its index and its value have the right types.
Extended(writes, base) ==
  FoldRight(LAMBDA wr, v :
              LET i == Typed(wr.l, IndexWidth)
                  x == Typed(wr.r, ByteWidth)
              IN IF i.w = IndexWidth /\ x.w = ByteWidth THEN [v EXCEPT !.ups = <<Update(i, x)>> \o @] ELSE v,
            writes, base)

ParseVersion(b, ps) ==
  LET w    == ParseWrites(b, Eat(ps), <<>>)
      end  == Close(w.ps, "RSquare")
      base == ParseVersionSpecifier(b, Eat(end))
  IN IF ~At(ps, {"LSquare"}) THEN NoVersion(ps)
     ELSE IF ~At(end, {"At"}) THEN NoVersion(Error(end))
     ELSE IF ~base.valid THEN base
     ELSE [base EXCEPT !.val = Extended(w.writes, @)]

ParseVersionSpecifier(b, ps) ==
  LET t     == Tok(ps)
      colon == At(Eat(ps), {"Colon"})
      known == t.text \in DOMAIN ps.versions
      label == IF t.kind = "Identifier" /\ ~known THEN t.text ELSE <<>>
      start == IF t.kind # "Identifier" THEN ps
               ELSE IF known THEN Error(Eat(Eat(ps))) ELSE Eat(Eat(ps))
      r     == ParseVersion(b, start)
  IN IF t.kind = "Identifier" /\ ~colon
     THEN IF known THEN [ps |-> Eat(ps), val |-> ps.versions[t.text], valid |-> TRUE]
          ELSE NoVersion(Error(Eat(ps)))
     ELSE [r EXCEPT !.ps = DefineVersion(@, label, r.val), !.valid = TRUE]

-----------------------------------------------------------------------------
(* Declarations.                                                           *)

RECURSIVE ParseNumbers(_, _, _), ParseList(_, _, _, _), ParseObjects(_, _), ParseDecls(_, _)

ParseNumbers(ps, w, values) ==
  IF At(ps, {"RSquare", "EndOfFile"}) THEN [ps |-> ps, values |-> values]
  ELSE LET r == ParseNumber(ps, w) IN ParseNumbers(r.ps, w, Append(values, r.val.v))

\* ParseArrayDecl of a declaration of the right form: the array and its initial
\* version are entered.
ParseArrayDecl(ps) ==
  LET name   == Tok(Eat(ps))
      size   == Tok(Eat(Eat(Eat(ps))))      \* of 64 bits
      domain == ParseTypeSpecifier(Expect(Expect(Expect(Eat(Eat(Eat(ps))), "Number"), "RSquare"), "Colon"))
      range  == ParseTypeSpecifier(Expect(domain.ps, "Arrow"))
      init   == Expect(range.ps, "Equals")
      values == ParseNumbers(Eat(init), range.val, <<>>)
      end    == IF At(init, {"KWSymbolic"}) THEN Eat(init) ELSE Expect(values.ps, "RSquare")
      wrong  == domain.val # IndexWidth \/ range.val # ByteWidth
                  \/ (~At(init, {"KWSymbolic"}) /\ Len(values.values) # size.text[2])
      entry  == [size |-> size.text[2], values |-> IF At(init, {"KWSymbolic"}) THEN <<>> ELSE values.values]
  IN DefineVersion([(IF wrong THEN Error(end) ELSE end) EXCEPT !.arrays = (name.text :> entry) @@ @],
                   name.text, Version(name.text[1], <<>>))

\* A list of expressions up to the bracket; an invalid one is left out.
ParseList(b, ps, want, es) ==
  IF At(ps, {"RSquare"}) THEN [ps |-> Eat(ps), es |-> es]
  ELSE IF At(ps, {"EndOfFile"}) THEN [ps |-> Error(ps), es |-> es]
  ELSE LET r == ParseExpr(b, ps, want)
       IN ParseList(b, r.ps, want, IF r.val = None THEN es ELSE Append(es, r.val))

ParseObjects(ps, os) ==
  IF At(ps, {"RSquare"}) THEN [ps |-> Eat(ps), os |-> os]
  ELSE IF At(ps, {"EndOfFile"}) THEN [ps |-> Error(ps), os |-> os]
  ELSE IF ~At(ps, {"Identifier"}) THEN ParseObjects(Error(Expect(ps, Tok(ps).kind)), os)
  ELSE IF Tok(ps).text \in DOMAIN ps.arrays THEN ParseObjects(Eat(ps), Append(os, Tok(ps).text[1]))
  ELSE ParseObjects(Error(Eat(ps)), os)

\* ParseQueryCommand: labels are forgotten, arrays are not.
ParseQueryCommand(b, ps) ==
  LET start  == [ps EXCEPT !.exprs = <<>>, !.versions = [t \in DOMAIN ps.arrays |-> Version(t[1], <<>>)]]
      cs     == ParseList(b, Expect(Eat(Eat(start)), "LSquare"), Bool, <<>>)
      q      == ParseExpr(b, cs.ps, Bool)
      values == IF At(q.ps, {"LSquare"}) THEN ParseList(b, Eat(q.ps), Untyped, <<>>) ELSE [ps |-> q.ps, es |-> <<>>]
      objs   == IF At(values.ps, {"LSquare"}) THEN ParseObjects(Eat(values.ps), <<>>)
                ELSE [ps |-> values.ps, os |-> <<>>]
  IN [ps |-> Close(objs.ps, "RParen"),
      query |-> Query(cs.es, IF q.val = None THEN Const(0, Bool) ELSE q.val, values.es, objs.os)]

\* ParseTopLevelDecl, up to the first query.
ParseDecls(b, ps) ==
  IF At(ps, {"KWArray"}) THEN ParseDecls(b, ParseArrayDecl(ps)) ELSE ParseQueryCommand(b, ps)

ParseText(b, tokens) == ParseDecls(b, Initialize(tokens))

=============================================================================
