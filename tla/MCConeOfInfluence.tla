-------------------------- MODULE MCConeOfInfluence --------------------------
EXTENDS ConeOfInfluence

Ins(op, args) == [op |-> op, args |-> args, var |-> "", to |-> 0]
Gep(v, base) == [Ins("gep", <<base>>) EXCEPT !.var = v]
Go(op, args, to) == [Ins(op, args) EXCEPT !.to = to]

\* The pointer to the registers, kept in a local and fetched through Syms.
Prologue == <<Ins("alloca", <<>>), Ins("store", <<0, 1>>), Ins("load", <<1>>), Gep("Syms", 3), Ins("load", <<4>>)>>

\* to := not from (or a constant), at instruction n + 1.
Assign(to, from, n) ==
  IF from = "" THEN <<Gep(to, 5), Ins("store", <<0, n + 1>>)>>
  ELSE <<Gep(from, 5), Ins("load", <<n + 1>>), Ins("not", <<n + 2>>), Gep(to, 5), Ins("store", <<n + 3, n + 4>>)>>

\* if (c) to := not from
Add(code, a) ==
  LET n == Len(code)
      body == Assign(a.to, a.from, n + 3)
      after == n + 3 + Len(body) + 2
  IN IF a.if = "" THEN code \o Assign(a.to, a.from, n)
     ELSE code \o <<Gep(a.if, 5), Ins("load", <<n + 1>>), Go("br", <<n + 2>>, after)>>
               \o body \o <<Go("jump", <<>>, after)>>

Function(name, as, firstId) ==
  [name |-> name, firstId |-> firstId, code |-> Append(FoldLeft(Add, Prologue, as), Ins("ret", <<>>))]

Main(vs) ==
  FoldLeft(LAMBDA code, v : code \o <<Gep(v, 0), Ins("load", <<Len(code) + 1>>), Go("br", <<Len(code) + 2>>, 0)>>,
           [i \in 1..EvalCalls |-> Ins("eval", <<>>)], vs)

Statements(to) == {[to |-> to, from |-> v, if |-> c] : v, c \in Vars \cup {""}}
Module(fs, firstId) == [n \in DOMAIN fs |-> Function(fs[n][1], fs[n][2], firstId + 40 * n)]

\* One function for each register; one with two statements; two that may write
\* the same register, with ids that start at 1 or 40, where nothing writes the
\* first register that is asserted; two that may write the register that the
\* asserted one is computed from.
Design(fs, eval, firstId, vs) ==
  [funcs |-> Module(fs, firstId), eval |-> eval, main |-> Main(vs)]
Apart ==
  {Design(<<<<"f", <<p>>>>, <<"g", <<q>>>>, <<"h", <<r>>>>>>, eval, 0, <<"p">>) :
     p \in Statements("p"), q \in Statements("q"), r \in Statements("r"),
     eval \in {<<"f", "g", "h">>, <<"h", Other, "f", Other, "g">>}}
Together ==
  {Design(<<<<"f", <<p, q>>>>, <<"g", <<r>>>>>>, <<"f", Other, "g">>, 0, <<"r">>) :
     p \in Statements("p"), q \in Statements("q"), r \in Statements("r")}
Shared ==
  {Design(<<<<"f", <<p>>>>, <<"g", <<q>>>>>>, <<"f", Other, "g">>, firstId, <<"r", "p">>) :
     p \in Statements("p"), q \in Statements("p") \cup Statements("q"), firstId \in {-39, 0}}
Twice ==
  {Design(<<<<"f", <<[to |-> "p", from |-> "q", if |-> ""]>>>>, <<"g", <<q>>>>, <<"h", <<r>>>>>>,
          <<"g", "h", "f">>, 0, <<"p">>) :
     q \in Statements("q"), r \in Statements("q") \cup Statements("r")}
MCDesigns == Apart \cup Together \cup Shared \cup Twice

=============================================================================
