-------------------------- MODULE SolverChainProofs --------------------------
(***************************************************************************)
(* IndependentSolver: its passes end in a closed slice, or in independent  *)
(* factors that together are the path, for any path over any cells; and a  *)
(* closed slice decides its expression as the path does.                   *)
(*                                                                         *)
(* The solver chain for every set of expressions, arrays and paths, any    *)
(* sequence of queries and any choice of the caching options: both caches  *)
(* hold only facts, and every answer is right for the whole path.  First   *)
(* what one call of each cache returns, then the steps of the chain.       *)
(***************************************************************************)
EXTENDS SolverChain, TLAPS

-----------------------------------------------------------------------------
(* Sequences as the sets of their elements.                                *)

\* Appending an element.
LEMMA AppendSet ==
  ASSUME NEW S, NEW s \in Seq(S), NEW x \in S
  PROVE  Append(s, x) \in Seq(S) /\ ToSet(Append(s, x)) = ToSet(s) \cup {x}
<1>1. Append(s, x) \in Seq(S) /\ DOMAIN Append(s, x) = 1..(Len(s) + 1)
  OBVIOUS
<1>2. \A i \in DOMAIN s : i \in DOMAIN Append(s, x) /\ Append(s, x)[i] = s[i]
  OBVIOUS
<1>3. Len(s) + 1 \in DOMAIN Append(s, x) /\ Append(s, x)[Len(s) + 1] = x
  OBVIOUS
<1>4. \A i \in DOMAIN Append(s, x) : i = Len(s) + 1 \/ i \in DOMAIN s
  OBVIOUS
<1>5. ToSet(Append(s, x)) \subseteq ToSet(s) \cup {x}
  BY <1>2, <1>3, <1>4 DEF ToSet
<1>6. ToSet(s) \cup {x} \subseteq ToSet(Append(s, x))
  BY <1>2, <1>3 DEF ToSet
<1> QED BY <1>1, <1>5, <1>6

\* Taking the first element of a list that has one.
LEMMA HeadTailSet ==
  ASSUME NEW S, NEW s \in Seq(S), s # << >>
  PROVE  /\ Head(s) \in S /\ Tail(s) \in Seq(S)
         /\ ToSet(s) = {Head(s)} \cup ToSet(Tail(s))
<1>1. Head(s) \in S /\ Tail(s) \in Seq(S)
  OBVIOUS
<1>2. ToSet(s) \subseteq {Head(s)} \cup ToSet(Tail(s))
  <2> SUFFICES ASSUME NEW i \in DOMAIN s, s[i] # Head(s)
               PROVE  s[i] \in ToSet(Tail(s))
    BY DEF ToSet
  <2>1. i \in 2..Len(s)
    OBVIOUS
  <2>2. i - 1 \in DOMAIN Tail(s) /\ Tail(s)[i - 1] = s[i]
    BY <2>1
  <2> QED BY <2>2 DEF ToSet
<1>3. {Head(s)} \cup ToSet(Tail(s)) \subseteq ToSet(s)
  <2>1. Head(s) = s[1] /\ 1 \in DOMAIN s
    OBVIOUS
  <2>2. \A i \in DOMAIN Tail(s) : i + 1 \in DOMAIN s /\ Tail(s)[i] = s[i + 1]
    OBVIOUS
  <2> QED BY <2>1, <2>2 DEF ToSet
<1> QED BY <1>1, <1>2, <1>3

\* Concatenating two lists.
LEMMA ConcatSet ==
  ASSUME NEW S, NEW s \in Seq(S), NEW t \in Seq(S)
  PROVE  s \o t \in Seq(S) /\ ToSet(s \o t) = ToSet(s) \cup ToSet(t)
<1>1. s \o t \in Seq(S) /\ Len(s \o t) = Len(s) + Len(t)
  OBVIOUS
<1>2. \A i \in DOMAIN s : i \in DOMAIN (s \o t) /\ (s \o t)[i] = s[i]
  OBVIOUS
<1>3. \A i \in DOMAIN t : Len(s) + i \in DOMAIN (s \o t) /\ (s \o t)[Len(s) + i] = t[i]
  OBVIOUS
<1>4. \A i \in DOMAIN (s \o t) : (s \o t)[i] \in ToSet(s) \cup ToSet(t)
  <2> TAKE i \in DOMAIN (s \o t)
  <2>1. CASE i <= Len(s)
    BY <2>1, <1>2 DEF ToSet
  <2>2. CASE i > Len(s)
    <3>1. i - Len(s) \in DOMAIN t /\ (s \o t)[i] = t[i - Len(s)]
      BY <2>2, <1>1, <1>3
    <3> QED BY <3>1 DEF ToSet
  <2> QED BY <2>1, <2>2, <1>1
<1>5. ToSet(s \o t) \subseteq ToSet(s) \cup ToSet(t)
  BY <1>4 DEF ToSet
<1>6. ToSet(s) \subseteq ToSet(s \o t)
  BY <1>2 DEF ToSet
<1>7. ToSet(t) \subseteq ToSet(s \o t)
  BY <1>3 DEF ToSet
<1> QED BY <1>1, <1>5, <1>6, <1>7

LEMMA EmptySet == ToSet(<< >>) = {} /\ ExprsOf(<< >>) = {}
BY DEF ToSet, ExprsOf

\* The expressions of a list follow its set of elements.
LEMMA ExprsOfUnion ==
  ASSUME NEW s, NEW t, NEW x, ToSet(s) = {x} \cup ToSet(t)
  PROVE  ExprsOf(s) = ToSet(x.exprs) \cup ExprsOf(t)
BY DEF ExprsOf

-----------------------------------------------------------------------------
(* Element sets.                                                           *)

\* What is added to an element set that knows its reads leaves it knowing them.
LEMMA AddElements ==
  ASSUME NEW a \in ElementSet, NEW b \in ElementSet
  PROVE  /\ Add(a, b) \in ElementSet
         /\ ToSet(Add(a, b).exprs) = ToSet(a.exprs) \cup ToSet(b.exprs)
         /\ Add(a, b).reads = a.reads \cup b.reads
<1>1. a.exprs \in Seq(Expr) /\ b.exprs \in Seq(Expr)
  BY DEF ElementSet
<1>2. /\ a.exprs \o b.exprs \in Seq(Expr)
      /\ ToSet(a.exprs \o b.exprs) = ToSet(a.exprs) \cup ToSet(b.exprs)
  BY <1>1, ConcatSet
<1> QED BY <1>2 DEF Add, ElementSet

LEMMA ReadsOfUnion ==
  ASSUME NEW A, NEW B
  PROVE  ReadsOf(A \cup B) = ReadsOf(A) \cup ReadsOf(B)
BY DEF ReadsOf

\* The constraints of a path, each as an element set of its own.
LEMMA PathElements ==
  ASSUME NEW p \in Path
  PROVE  /\ ElementsOf(p) \in Seq(ElementSet)
         /\ ExprsOf(ElementsOf(p)) = ToSet(p)
         /\ AllExact(ElementsOf(p))
         /\ (p # << >> => ElementsOf(p) # << >>)
<1>1. p \in Seq(Expr) /\ \A e \in Expr : e.reads \subseteq Cell
  BY QueryAssumption
<1>2. \A e \in Expr : Elements(e) \in ElementSet /\ ToSet(Elements(e).exprs) = {e}
  BY <1>1 DEF Elements, ElementSet, ToSet
<1>3. /\ DOMAIN ElementsOf(p) = DOMAIN p
      /\ \A i \in DOMAIN p : ElementsOf(p)[i] = Elements(p[i]) /\ p[i] \in Expr
  BY <1>1 DEF ElementsOf
<1>4. DOMAIN p = 1..Len(p) /\ Len(p) \in Nat
  BY <1>1
<1>5. ElementsOf(p) \in [1..Len(p) -> ElementSet]
  BY <1>2, <1>3, <1>4 DEF ElementsOf
<1>6. ElementsOf(p) \in Seq(ElementSet)
  BY <1>4, <1>5
<1>7. ToSet(ElementsOf(p)) = {Elements(p[i]) : i \in DOMAIN p}
  BY <1>3 DEF ToSet
<1>8. ExprsOf(ElementsOf(p)) = ToSet(p)
  <2>1. \A i \in DOMAIN p : ToSet(Elements(p[i]).exprs) = {p[i]}
    BY <1>2, <1>3
  <2>2. ExprsOf(ElementsOf(p)) = UNION {{p[i]} : i \in DOMAIN p}
    BY <1>7, <2>1 DEF ExprsOf
  <2> QED BY <2>2 DEF ToSet
<1>9. AllExact(ElementsOf(p))
  <2> SUFFICES ASSUME NEW i \in DOMAIN p
               PROVE  Exact(Elements(p[i]))
    BY <1>7 DEF AllExact
  <2>1. ToSet(Elements(p[i]).exprs) = {p[i]}
    BY <1>2, <1>3
  <2>2. Elements(p[i]).reads = p[i].reads
    BY DEF Elements
  <2> QED BY <2>1, <2>2 DEF Exact, ReadsOf
<1>10. p # << >> => ElementsOf(p) # << >>
  BY <1>1, <1>3, <1>4
<1> QED BY <1>6, <1>8, <1>9, <1>10

\* The types of a query's parts.
LEMMA QueryParts ==
  ASSUME NEW q \in Query
  PROVE  /\ q.path \in Path
         /\ q.kind # "values" => q.expr \in Expr /\ q.expr.reads \subseteq Cell
         /\ q # NoQuery
BY QueryAssumption DEF Query, NoQuery

\* A factor that is apart from a list of factors can join it.
LEMMA AppendApart ==
  ASSUME NEW list \in Seq(ElementSet), NEW a \in ElementSet,
         PairwiseApart(list), Apart(a, list)
  PROVE  PairwiseApart(Append(list, a))
<1>1. /\ DOMAIN Append(list, a) = 1..(Len(list) + 1)
      /\ \A i \in 1..Len(list) : Append(list, a)[i] = list[i]
      /\ Append(list, a)[Len(list) + 1] = a
  OBVIOUS
<1>2. \A i \in 1..Len(list) : Disjoint(a, list[i]) /\ Disjoint(list[i], a)
  BY DEF Apart, Disjoint, Intersects, ToSet
<1>3. \A i, j \in 1..Len(list) : i # j => Disjoint(list[i], list[j])
  BY DEF PairwiseApart
<1>4. \A i \in DOMAIN Append(list, a) : i \in 1..Len(list) \/ i = Len(list) + 1
  BY <1>1
<1> SUFFICES ASSUME NEW i \in DOMAIN Append(list, a), NEW j \in DOMAIN Append(list, a),
                    i # j
             PROVE  Disjoint(Append(list, a)[i], Append(list, a)[j])
  BY DEF PairwiseApart
<1> QED BY <1>1, <1>2, <1>3, <1>4

-----------------------------------------------------------------------------
(* The inductive invariant, one lemma per action.                          *)

LEMMA InitInductive == Init => IInv
<1> SUFFICES ASSUME Init PROVE IInv
  OBVIOUS
<1>1. << >> \in Seq(ElementSet) /\ << >> \in Seq(Expr)
  OBVIOUS
<1>2. TypeOK
  BY <1>1 DEF Init, TypeOK, NoElements, ElementSet
<1> QED BY <1>2 DEF Init, IInv, IdleInv, SliceInv, FactorInv

LEMMA AskInductive == IInv /\ Ask => IInv'
<1> SUFFICES ASSUME IInv, Ask PROVE IInv'
  OBVIOUS
<1>1. stage = "idle" /\ rest = << >> /\ factors = << >> /\ settled = TRUE
  BY DEF IInv, IdleInv, TypeOK, Ask
<1>2. PICK q \in Query : IF q.kind = "values" THEN StartFactors(q) ELSE StartSlice(q)
  BY DEF Ask
<1> DEFINE es == ElementsOf(q.path)
<1>3. /\ q.path \in Path
      /\ q.kind # "values" => q.expr \in Expr /\ q.expr.reads \subseteq Cell
      /\ q # NoQuery
  BY QueryParts
<1>4. /\ es \in Seq(ElementSet)
      /\ ExprsOf(es) = ToSet(q.path)
      /\ AllExact(es)
      /\ (q.path # << >> => es # << >>)
  BY <1>3, PathElements
<1>5. /\ ToSet(<< >>) = {} /\ ExprsOf(<< >>) = {}
  BY EmptySet
<1>6. CASE q.kind # "values"
  <2>1. /\ query' = q /\ stage' = "slice" /\ work' = es
        /\ current' = [exprs |-> << >>, reads |-> q.expr.reads]
        /\ rest' = << >> /\ factors' = << >> /\ settled' = TRUE
    BY <1>1, <1>2, <1>6 DEF StartSlice
  <2> HIDE DEF es
  <2>2. current' \in ElementSet /\ << >> \in Seq(ElementSet)
    BY <2>1, <1>3, <1>6 DEF ElementSet
  <2>3. TypeOK'
    BY <2>1, <2>2, <1>4 DEF TypeOK
  <2>4. SliceInv'
    <3>1. ToSet(current'.exprs) = {} /\ ReadsOf({}) = {}
      BY <2>1, <1>5 DEF ReadsOf
    <3> QED BY <2>1, <3>1, <1>4, <1>5, <1>6 DEF SliceInv, AllExact, Apart
  <2> QED BY <2>1, <2>3, <2>4 DEF IInv, IdleInv, FactorInv
<1>7. CASE q.kind = "values"
  <2>1. /\ query' = q /\ Pass(es)
        /\ stage' = IF q.path = << >> THEN "factored" ELSE "factor"
        /\ rest' = << >> /\ factors' = << >> /\ settled' = TRUE
    BY <1>1, <1>2, <1>7 DEF StartFactors
  <2> HIDE DEF es
  <2>2. CASE q.path = << >>
    <3>1. ToSet(q.path) = {}
      BY <2>2, <1>5
    <3>2. es = << >>
      BY <2>2, <1>3, QueryAssumption DEF es, ElementsOf
    <3>3. stage' = "factored" /\ current' = NoElements /\ work' = << >>
      BY <2>1, <2>2, <3>2 DEF Pass
    <3>4. TypeOK'
      BY <2>1, <3>3 DEF TypeOK, NoElements, ElementSet
    <3>5. ToSet(NoElements.exprs) = {} /\ Exact(NoElements)
      BY <1>5 DEF NoElements, Exact, ReadsOf
    <3>6. FactorInv'
      BY <2>1, <3>1, <3>3, <3>5, <1>5, <1>7
      DEF FactorInv, AllExact, Apart, PairwiseApart
    <3> QED BY <2>1, <3>3, <3>4, <3>6 DEF IInv, IdleInv, SliceInv
  <2>3. CASE q.path # << >>
    <3>1. stage' = "factor" /\ current' = Head(es) /\ work' = Tail(es)
      BY <2>1, <2>3, <1>4 DEF Pass
    <3>2. /\ Head(es) \in ElementSet /\ Tail(es) \in Seq(ElementSet)
          /\ ToSet(es) = {Head(es)} \cup ToSet(Tail(es))
      BY <2>3, <1>4, HeadTailSet
    <3>3. ExprsOf(es) = ToSet(Head(es).exprs) \cup ExprsOf(Tail(es))
      BY <3>2, ExprsOfUnion
    <3>4. TypeOK'
      BY <2>1, <3>1, <3>2 DEF TypeOK
    <3>5. Exact(current)' /\ AllExact(work)'
      BY <1>4, <3>1, <3>2 DEF AllExact, Exact
    <3>6. FactorInv'
      BY <2>1, <3>1, <3>3, <3>5, <1>4, <1>5, <1>7
      DEF FactorInv, AllExact, Apart, PairwiseApart
    <3> QED BY <2>1, <3>1, <3>4, <3>6 DEF IInv, IdleInv, SliceInv
  <2> QED BY <2>2, <2>3
<1> QED BY <1>6, <1>7

\* One comparison, in a slice or in a pass over the factors.
LEMMA ScanInductive == IInv /\ Scan => IInv'
<1> SUFFICES ASSUME IInv, Scan PROVE IInv'
  OBVIOUS
<1> DEFINE h == Head(work)
<1>1. /\ stage \in {"slice", "factor"} /\ work # << >> /\ work' = Tail(work)
      /\ query' = query /\ stage' = stage /\ factors' = factors
  BY DEF Scan
<1>2. TypeOK /\ SliceInv /\ FactorInv
  BY DEF IInv
<1>3. /\ h \in ElementSet /\ work' \in Seq(ElementSet)
      /\ ToSet(work) = {h} \cup ToSet(work')
  BY <1>1, <1>2, HeadTailSet DEF TypeOK
<1>4. ExprsOf(work) = ToSet(h.exprs) \cup ExprsOf(work')
  <2>1. ToSet(work) = {h} \cup ToSet(work')
    BY <1>3
  <2> HIDE DEF h
  <2> QED BY <2>1, ExprsOfUnion
<1>5. AllExact(work) => AllExact(work') /\ Exact(h)
  BY <1>3 DEF AllExact
<1>6. \A f \in ElementSet : Apart(f, work) => Apart(f, work') /\ Disjoint(f, h)
  BY <1>3 DEF Apart
<1>7. CASE Intersects(current, h)
  <2>1. /\ current' = Add(current, h) /\ rest' = rest
        /\ settled' = (settled /\ Add(current, h).reads = current.reads)
    BY <1>7 DEF Scan, StillSettled
  <2> HIDE DEF h
  <2>2. /\ current' \in ElementSet
        /\ ToSet(current'.exprs) = ToSet(current.exprs) \cup ToSet(h.exprs)
        /\ current'.reads = current.reads \cup h.reads
    BY <1>2, <1>3, <2>1, AddElements DEF TypeOK
  <2>3. ReadsOf(ToSet(current'.exprs)) = ReadsOf(ToSet(current.exprs)) \cup ReadsOf(ToSet(h.exprs))
    BY <2>2, ReadsOfUnion
  <2>4. /\ settled' \in BOOLEAN
        /\ settled' => settled /\ current'.reads = current.reads
    BY <2>1, <1>2 DEF TypeOK
  <2>5. TypeOK'
    BY <1>1, <1>2, <1>3, <2>1, <2>2, <2>4 DEF TypeOK
  <2>6. settled' => /\ Apart(current, rest) => Apart(current', rest)
                    /\ Apart(current, factors) => Apart(current', factors)
    BY <2>4 DEF Apart, Disjoint, Intersects
  <2>7. CASE stage = "slice"
    <3>1. /\ query \in Query /\ query.kind # "values"
          /\ ToSet(query.path) = ToSet(current.exprs) \cup ExprsOf(work) \cup ExprsOf(rest)
          /\ current.reads = query.expr.reads \cup ReadsOf(ToSet(current.exprs))
          /\ AllExact(work) /\ AllExact(rest)
          /\ settled => Apart(current, rest)
      BY <1>2, <2>7 DEF SliceInv
    <3>2. /\ ToSet(query.path) = ToSet(current'.exprs) \cup ExprsOf(work') \cup ExprsOf(rest)
          /\ current'.reads = query.expr.reads \cup ReadsOf(ToSet(current'.exprs))
      BY <3>1, <1>4, <1>5, <2>2, <2>3 DEF Exact
    <3>3. settled' => Apart(current', rest)
      BY <3>1, <2>4, <2>6
    <3>4. SliceInv'
      BY <1>1, <1>5, <2>1, <2>7, <3>1, <3>2, <3>3 DEF SliceInv
    <3> QED BY <1>1, <2>5, <2>7, <3>4 DEF IInv, IdleInv, FactorInv
  <2>8. CASE stage = "factor"
    <3>1. /\ query \in Query /\ query.kind = "values"
          /\ ToSet(query.path) =
               ToSet(current.exprs) \cup ExprsOf(work) \cup ExprsOf(rest) \cup ExprsOf(factors)
          /\ Exact(current) /\ AllExact(work) /\ AllExact(rest) /\ AllExact(factors)
          /\ settled => /\ Apart(current, rest) /\ Apart(current, factors)
                        /\ \A f \in ToSet(factors) : Apart(f, work) /\ Apart(f, rest)
                        /\ PairwiseApart(factors)
      BY <1>2, <2>8 DEF FactorInv
    <3>2. /\ ToSet(query.path) =
               ToSet(current'.exprs) \cup ExprsOf(work') \cup ExprsOf(rest) \cup ExprsOf(factors)
          /\ Exact(current')
      BY <3>1, <1>4, <1>5, <2>2, <2>3 DEF Exact
    <3>3. ToSet(factors) \subseteq ElementSet
      BY <1>2 DEF TypeOK, ToSet
    <3>4. settled' => /\ Apart(current', rest) /\ Apart(current', factors)
                      /\ \A f \in ToSet(factors) : Apart(f, work') /\ Apart(f, rest)
                      /\ PairwiseApart(factors)
      BY <3>1, <3>3, <1>6, <2>4, <2>6
    <3>5. FactorInv'
      BY <1>1, <1>5, <2>1, <2>8, <3>1, <3>2, <3>4 DEF FactorInv
    <3> QED BY <1>1, <2>5, <2>8, <3>5 DEF IInv, IdleInv, SliceInv
  <2> QED BY <1>1, <2>7, <2>8
<1>8. CASE ~Intersects(current, h)
  <2>1. rest' = Append(rest, h) /\ current' = current /\ settled' = settled
    BY <1>8 DEF Scan
  <2> HIDE DEF h
  <2>2. rest' \in Seq(ElementSet) /\ ToSet(rest') = ToSet(rest) \cup {h}
    BY <1>2, <1>3, <2>1, AppendSet DEF TypeOK
  <2>3. ExprsOf(rest') = ToSet(h.exprs) \cup ExprsOf(rest)
    BY <2>2, ExprsOfUnion
  <2>4. TypeOK'
    BY <1>1, <1>2, <1>3, <2>1, <2>2 DEF TypeOK
  <2>5. Apart(current, rest) => Apart(current, rest')
    BY <1>8, <2>2 DEF Apart, Disjoint
  <2>6. AllExact(work) /\ AllExact(rest) => AllExact(rest')
    BY <1>5, <2>2 DEF AllExact
  <2>7. CASE stage = "slice"
    <3>1. /\ query \in Query /\ query.kind # "values"
          /\ ToSet(query.path) = ToSet(current.exprs) \cup ExprsOf(work) \cup ExprsOf(rest)
          /\ current.reads = query.expr.reads \cup ReadsOf(ToSet(current.exprs))
          /\ AllExact(work) /\ AllExact(rest)
          /\ settled => Apart(current, rest)
      BY <1>2, <2>7 DEF SliceInv
    <3>2. ToSet(query.path) = ToSet(current.exprs) \cup ExprsOf(work') \cup ExprsOf(rest')
      BY <3>1, <1>4, <2>3
    <3>3. SliceInv'
      BY <1>1, <1>5, <2>1, <2>5, <2>6, <2>7, <3>1, <3>2 DEF SliceInv
    <3> QED BY <1>1, <2>4, <2>7, <3>3 DEF IInv, IdleInv, FactorInv
  <2>8. CASE stage = "factor"
    <3>1. /\ query \in Query /\ query.kind = "values"
          /\ ToSet(query.path) =
               ToSet(current.exprs) \cup ExprsOf(work) \cup ExprsOf(rest) \cup ExprsOf(factors)
          /\ Exact(current) /\ AllExact(work) /\ AllExact(rest) /\ AllExact(factors)
          /\ settled => /\ Apart(current, rest) /\ Apart(current, factors)
                        /\ \A f \in ToSet(factors) : Apart(f, work) /\ Apart(f, rest)
                        /\ PairwiseApart(factors)
      BY <1>2, <2>8 DEF FactorInv
    <3>2. ToSet(query.path) =
            ToSet(current.exprs) \cup ExprsOf(work') \cup ExprsOf(rest') \cup ExprsOf(factors)
      BY <3>1, <1>4, <2>3
    <3>3. ToSet(factors) \subseteq ElementSet
      BY <1>2 DEF TypeOK, ToSet
    <3>4. settled => \A f \in ToSet(factors) : Apart(f, work') /\ Apart(f, rest')
      BY <3>1, <3>3, <1>6, <2>2 DEF Apart
    <3>5. FactorInv'
      BY <1>1, <1>5, <2>1, <2>5, <2>6, <2>8, <3>1, <3>2, <3>4 DEF FactorInv
    <3> QED BY <1>1, <2>4, <2>8, <3>5 DEF IInv, IdleInv, SliceInv
  <2> QED BY <1>1, <2>7, <2>8
<1> QED BY <1>7, <1>8

\* What was left out is scanned again.
LEMMA NextSlicePassInductive == IInv /\ NextSlicePass => IInv'
<1> SUFFICES ASSUME IInv, NextSlicePass PROVE IInv'
  OBVIOUS
<1>1. ToSet(<< >>) = {} /\ ExprsOf(<< >>) = {} /\ << >> \in Seq(ElementSet)
  BY EmptySet
<1>2. TypeOK'
  BY <1>1 DEF IInv, TypeOK, NextSlicePass
<1>3. SliceInv'
  BY <1>1 DEF IInv, SliceInv, NextSlicePass, AllExact, Apart
<1> QED BY <1>2, <1>3 DEF IInv, IdleInv, FactorInv, NextSlicePass

\* The slice is done.
LEMMA SliceEndsInductive == IInv /\ SliceEnds => IInv'
<1> SUFFICES ASSUME IInv, SliceEnds PROVE IInv'
  OBVIOUS
<1>1. TypeOK'
  BY DEF IInv, TypeOK, SliceEnds
<1>2. SliceInv'
  BY DEF IInv, SliceInv, SliceEnds
<1> QED BY <1>1, <1>2 DEF IInv, IdleInv, FactorInv, SliceEnds

\* The current factor joins those that are done, and the first one kept becomes
\* the current one.
LEMMA NextFactorInductive == IInv /\ NextFactor => IInv'
<1> SUFFICES ASSUME IInv, NextFactor PROVE IInv'
  OBVIOUS
<1>1. /\ stage = "factor" /\ stage' = "factor" /\ query' = query /\ settled' = settled
      /\ work = << >> /\ rest # << >> /\ rest' = << >>
      /\ factors' = Append(factors, current)
      /\ current' = Head(rest) /\ work' = Tail(rest)
  BY DEF NextFactor, Pass
<1>2. TypeOK /\ FactorInv
  BY DEF IInv
<1>3. /\ current' \in ElementSet /\ work' \in Seq(ElementSet)
      /\ ToSet(rest) = {current'} \cup ToSet(work')
  BY <1>1, <1>2, HeadTailSet DEF TypeOK
<1>4. factors' \in Seq(ElementSet) /\ ToSet(factors') = ToSet(factors) \cup {current}
  BY <1>1, <1>2, AppendSet DEF TypeOK
<1>5. /\ ExprsOf(rest) = ToSet(current'.exprs) \cup ExprsOf(work')
      /\ ExprsOf(factors') = ToSet(current.exprs) \cup ExprsOf(factors)
  BY <1>3, <1>4, ExprsOfUnion
<1>6. ToSet(<< >>) = {} /\ ExprsOf(<< >>) = {} /\ << >> \in Seq(ElementSet)
  BY EmptySet
<1>7. TypeOK'
  BY <1>1, <1>2, <1>3, <1>4, <1>6 DEF TypeOK
<1>8. /\ query \in Query /\ query.kind = "values"
      /\ ToSet(query.path) =
           ToSet(current.exprs) \cup ExprsOf(work) \cup ExprsOf(rest) \cup ExprsOf(factors)
      /\ Exact(current) /\ AllExact(rest) /\ AllExact(factors)
      /\ settled => /\ Apart(current, rest) /\ Apart(current, factors)
                    /\ \A f \in ToSet(factors) : Apart(f, rest)
                    /\ PairwiseApart(factors)
  BY <1>1, <1>2 DEF FactorInv
<1>9. ToSet(query.path) =
        ToSet(current'.exprs) \cup ExprsOf(work') \cup ExprsOf(rest') \cup ExprsOf(factors')
  BY <1>1, <1>5, <1>6, <1>8
<1>10. Exact(current') /\ AllExact(work') /\ AllExact(rest') /\ AllExact(factors')
  BY <1>1, <1>3, <1>4, <1>6, <1>8 DEF AllExact
<1>11. ASSUME settled
       PROVE  /\ Apart(current', rest') /\ Apart(current', factors')
              /\ \A f \in ToSet(factors') : Apart(f, work') /\ Apart(f, rest')
              /\ PairwiseApart(factors')
  <2>1. \A f \in ToSet(factors') : Apart(f, rest)
    BY <1>4, <1>8, <1>11
  <2>2. \A f \in ToSet(factors') : Disjoint(f, current') /\ Apart(f, work')
    BY <1>3, <2>1 DEF Apart
  <2>3. Apart(current', factors')
    BY <2>2 DEF Apart, Disjoint, Intersects
  <2>4. PairwiseApart(factors')
    BY <1>1, <1>2, <1>8, <1>11, AppendApart DEF TypeOK
  <2> QED BY <1>1, <1>6, <2>2, <2>3, <2>4 DEF Apart
<1>12. FactorInv'
  BY <1>1, <1>8, <1>9, <1>10, <1>11 DEF FactorInv
<1> QED BY <1>1, <1>7, <1>12 DEF IInv, IdleInv, SliceInv

\* Another pass over all the factors.
LEMMA NextFactorPassInductive == IInv /\ NextFactorPass => IInv'
<1> SUFFICES ASSUME IInv, NextFactorPass PROVE IInv'
  OBVIOUS
<1> DEFINE list == Append(factors, current)
<1>1. /\ stage = "factor" /\ stage' = "factor" /\ query' = query /\ settled' = TRUE
      /\ work = << >> /\ rest = << >> /\ rest' = << >> /\ factors' = << >>
      /\ Pass(list)
  BY DEF NextFactorPass
<1>2. TypeOK /\ FactorInv
  BY DEF IInv
<1>3. list \in Seq(ElementSet) /\ ToSet(list) = ToSet(factors) \cup {current}
  BY <1>2, AppendSet DEF TypeOK
<1>4. list # << >>
  BY <1>2 DEF TypeOK
<1> HIDE DEF list
<1>5. current' = Head(list) /\ work' = Tail(list)
  BY <1>1, <1>4 DEF Pass
<1>6. /\ current' \in ElementSet /\ work' \in Seq(ElementSet)
      /\ ToSet(list) = {current'} \cup ToSet(work')
  BY <1>3, <1>4, <1>5, HeadTailSet
<1>7. /\ ExprsOf(list) = ToSet(current'.exprs) \cup ExprsOf(work')
      /\ ExprsOf(list) = ToSet(current.exprs) \cup ExprsOf(factors)
  BY <1>3, <1>6, ExprsOfUnion
<1>8. ToSet(<< >>) = {} /\ ExprsOf(<< >>) = {} /\ << >> \in Seq(ElementSet)
  BY EmptySet
<1>9. TypeOK'
  BY <1>1, <1>2, <1>6, <1>8 DEF TypeOK
<1>10. /\ query \in Query /\ query.kind = "values"
       /\ ToSet(query.path) =
            ToSet(current.exprs) \cup ExprsOf(work) \cup ExprsOf(rest) \cup ExprsOf(factors)
       /\ Exact(current) /\ AllExact(factors)
  BY <1>1, <1>2 DEF FactorInv
<1>11. ToSet(query.path) =
         ToSet(current'.exprs) \cup ExprsOf(work') \cup ExprsOf(rest') \cup ExprsOf(factors')
  BY <1>1, <1>7, <1>8, <1>10
<1>12. Exact(current') /\ AllExact(work') /\ AllExact(rest') /\ AllExact(factors')
  BY <1>1, <1>3, <1>6, <1>8, <1>10 DEF AllExact
<1>13. /\ Apart(current', rest') /\ Apart(current', factors')
       /\ \A f \in ToSet(factors') : Apart(f, work') /\ Apart(f, rest')
       /\ PairwiseApart(factors')
  BY <1>1, <1>8 DEF Apart, PairwiseApart
<1>14. FactorInv'
  BY <1>1, <1>10, <1>11, <1>12, <1>13 DEF FactorInv
<1> QED BY <1>1, <1>9, <1>14 DEF IInv, IdleInv, SliceInv

\* The factors are done.
LEMMA FactorsEndInductive == IInv /\ FactorsEnd => IInv'
<1> SUFFICES ASSUME IInv, FactorsEnd PROVE IInv'
  OBVIOUS
<1>1. /\ stage = "factor" /\ stage' = "factored" /\ query' = query
      /\ settled /\ settled' = settled
      /\ work = << >> /\ rest = << >> /\ rest' = << >>
      /\ factors' = Append(factors, current)
      /\ current' = NoElements /\ work' = << >>
  BY DEF FactorsEnd, Pass
<1>2. TypeOK /\ FactorInv
  BY DEF IInv
<1>3. factors' \in Seq(ElementSet) /\ ToSet(factors') = ToSet(factors) \cup {current}
  BY <1>1, <1>2, AppendSet DEF TypeOK
<1>4. ExprsOf(factors') = ToSet(current.exprs) \cup ExprsOf(factors)
  BY <1>3, ExprsOfUnion
<1>5. ToSet(<< >>) = {} /\ ExprsOf(<< >>) = {} /\ << >> \in Seq(ElementSet)
  BY EmptySet
<1>6. /\ NoElements \in ElementSet /\ ToSet(NoElements.exprs) = {}
      /\ NoElements.reads = {} /\ Exact(NoElements)
  BY <1>5 DEF NoElements, ElementSet, Exact, ReadsOf
<1>7. TypeOK'
  BY <1>1, <1>2, <1>3, <1>5, <1>6 DEF TypeOK
<1>8. /\ query \in Query /\ query.kind = "values"
      /\ ToSet(query.path) =
           ToSet(current.exprs) \cup ExprsOf(work) \cup ExprsOf(rest) \cup ExprsOf(factors)
      /\ Exact(current) /\ AllExact(factors)
      /\ Apart(current, factors) /\ PairwiseApart(factors)
  BY <1>1, <1>2 DEF FactorInv
<1>9. ToSet(query.path) =
        ToSet(current'.exprs) \cup ExprsOf(work') \cup ExprsOf(rest') \cup ExprsOf(factors')
  BY <1>1, <1>4, <1>5, <1>6, <1>8
<1>10. Exact(current') /\ AllExact(work') /\ AllExact(rest') /\ AllExact(factors')
  BY <1>1, <1>3, <1>5, <1>6, <1>8 DEF AllExact
<1>11. PairwiseApart(factors')
  BY <1>1, <1>2, <1>8, AppendApart DEF TypeOK
<1>12. /\ Apart(current', rest') /\ Apart(current', factors')
       /\ \A f \in ToSet(factors') : Apart(f, work') /\ Apart(f, rest')
  BY <1>1, <1>5, <1>6 DEF Apart, Disjoint, Intersects
<1>13. FactorInv'
  BY <1>1, <1>8, <1>9, <1>10, <1>11, <1>12 DEF FactorInv
<1> QED BY <1>1, <1>7, <1>13 DEF IInv, IdleInv, SliceInv

\* The answer returns everything to its initial value.
LEMMA AnsweredInductive == Answered => IInv'
<1> SUFFICES ASSUME Answered PROVE IInv'
  OBVIOUS
<1>1. TypeOK'
  BY DEF Answered, TypeOK, NoElements, ElementSet
<1> QED BY <1>1 DEF Answered, IInv, IdleInv, SliceInv, FactorInv

LEMMA NextInductive == IInv /\ [Next]_vars => IInv'
<1> SUFFICES ASSUME IInv, [Next]_vars PROVE IInv'
  OBVIOUS
<1>1. CASE UNCHANGED vars
  BY <1>1 DEF vars, IInv, TypeOK, IdleInv, SliceInv, FactorInv
<1>2. CASE Next
  BY <1>2, AskInductive, ScanInductive, NextSlicePassInductive, SliceEndsInductive,
     NextFactorInductive, NextFactorPassInductive, FactorsEndInductive, AnsweredInductive
  DEF Next, Reduce
<1> QED BY <1>1, <1>2

-----------------------------------------------------------------------------
(* The results.                                                            *)

\* The invariant of getIndependentConstraints and
\* getAllIndependentConstraintsSets holds at every iteration of their loops.
THEOREM Inductive == Spec => []IInv
<1> QED BY InitInductive, NextInductive, PTL DEF Spec

\* What has been compared and left out is independent of the closed slice.
LEMMA ClosedFromInv == IInv => SliceIsClosed
<1> SUFFICES ASSUME IInv, stage = "sliced",
                    NEW c \in ToSet(query.path) \ ToSet(current.exprs)
             PROVE  /\ c.reads \cap query.expr.reads = {}
                    /\ \A d \in ToSet(current.exprs) : c.reads \cap d.reads = {}
  BY DEF SliceIsClosed
<1>1. /\ ToSet(query.path) = ToSet(current.exprs) \cup ExprsOf(work) \cup ExprsOf(rest)
      /\ current.reads = query.expr.reads \cup ReadsOf(ToSet(current.exprs))
      /\ AllExact(rest) /\ Apart(current, rest) /\ work = << >>
  BY DEF IInv, SliceInv
<1>2. PICK x \in ToSet(rest) : c \in ToSet(x.exprs)
  BY <1>1, EmptySet DEF ExprsOf
<1>3. c.reads \subseteq x.reads
  BY <1>1, <1>2 DEF AllExact, Exact, ReadsOf
<1>4. current.reads \cap x.reads = {}
  BY <1>1, <1>2 DEF Apart, Disjoint, Intersects
<1>5. c.reads \cap current.reads = {}
  BY <1>3, <1>4
<1> QED BY <1>1, <1>5 DEF ReadsOf

\* A slice is closed: getIndependentConstraints leaves out no constraint that
\* shares a cell with the expression or with a required constraint.
THEOREM SlicesAreClosed == Spec => []SliceIsClosed
BY ClosedFromInv, Inductive, PTL

\* What has been compared and kept apart shares no cell.
LEMMA ApartFromInv == IInv => FactorsAreIndependent
<1> SUFFICES ASSUME IInv, stage = "factored"
             PROVE  /\ ExprsOf(factors) = ToSet(query.path)
                    /\ \A i, j \in DOMAIN factors :
                         i # j => ReadsOf(ToSet(factors[i].exprs)) \cap
                                  ReadsOf(ToSet(factors[j].exprs)) = {}
  BY DEF FactorsAreIndependent
<1>1. /\ ToSet(query.path) =
           ToSet(current.exprs) \cup ExprsOf(work) \cup ExprsOf(rest) \cup ExprsOf(factors)
      /\ AllExact(factors) /\ PairwiseApart(factors)
      /\ current = NoElements /\ work = << >> /\ rest = << >>
  BY DEF IInv, FactorInv
<1>2. ExprsOf(factors) = ToSet(query.path)
  BY <1>1, EmptySet DEF NoElements
<1>3. ASSUME NEW i \in DOMAIN factors
      PROVE  factors[i].reads = ReadsOf(ToSet(factors[i].exprs))
  <2>1. factors[i] \in ToSet(factors)
    BY DEF ToSet
  <2>2. Exact(factors[i])
    BY <1>1, <2>1 DEF AllExact
  <2> QED BY <2>2 DEF Exact
<1>4. \A i, j \in DOMAIN factors : i # j => factors[i].reads \cap factors[j].reads = {}
  BY <1>1 DEF PairwiseApart, Disjoint, Intersects
<1> QED BY <1>2, <1>3, <1>4

\* getAllIndependentConstraintsSets loses no constraint, and its factors read
\* different cells.
THEOREM FactorsAreApart == Spec => []FactorsAreIndependent
BY ApartFromInv, Inductive, PTL

\* Why slicing is sound: under satisfiable constraints, a closed slice entails
\* an expression if and only if the whole path does.  A world that refutes the
\* expression in the slice is glued to one that satisfies the path.
THEOREM ClosedSliceDecides ==
  ASSUME NEW p \in Path, NEW e \in Expr, NEW S \in SUBSET ToSet(p),
         \A c \in ToSet(p) \ S : /\ c.reads \cap e.reads = {}
                                /\ \A d \in S : c.reads \cap d.reads = {}
  PROVE  Entails(ToSet(p), e) <=> Entails(S, e)
<1>1. ASSUME Entails(S, e) PROVE Entails(ToSet(p), e)
  BY <1>1 DEF Entails, Satisfies
<1>2. ASSUME Entails(ToSet(p), e) PROVE Entails(S, e)
  <2> SUFFICES ASSUME NEW w \in World, Satisfies(w, S), w \notin e.holds
               PROVE  FALSE
    BY DEF Entails
  <2>1. PICK v \in World : Satisfies(v, ToSet(p))
    BY QueryAssumption DEF Satisfiable
  <2> DEFINE K == e.reads \cup ReadsOf(S)
             u == [c \in Cell |-> IF c \in K THEN w[c] ELSE v[c]]
  <2>2. u \in World
    BY DEF World
  <2>3. ToSet(p) \subseteq Expr /\ \A d \in Expr : WellFormed(d) /\ d.reads \subseteq Cell
    BY QueryAssumption DEF ToSet
  <2>4. ASSUME NEW d \in S PROVE u \in d.holds
    <3>1. Agree(u, w, d.reads)
      BY <2>3 DEF Agree, ReadsOf
    <3>2. w \in d.holds
      BY DEF Satisfies
    <3> QED BY <2>2, <2>3, <3>1, <3>2 DEF WellFormed
  <2>5. ASSUME NEW d \in ToSet(p) \ S PROVE u \in d.holds
    <3>1. d.reads \cap K = {}
      BY DEF ReadsOf
    <3>2. Agree(u, v, d.reads)
      BY <2>3, <3>1 DEF Agree
    <3>3. v \in d.holds
      BY <2>1 DEF Satisfies
    <3> QED BY <2>1, <2>2, <2>3, <3>2, <3>3 DEF WellFormed
  <2>6. u \notin e.holds
    <3>1. Agree(u, w, e.reads)
      BY <2>3 DEF Agree
    <3> QED BY <2>2, <2>3, <3>1 DEF WellFormed
  <2>7. Satisfies(u, ToSet(p))
    BY <2>4, <2>5 DEF Satisfies
  <2> QED BY <1>2, <2>2, <2>6, <2>7 DEF Entails
<1> QED BY <1>1, <1>2

-----------------------------------------------------------------------------
(* The chain.                                                              *)

USE DEF Outcome, Failure, Abort, Report, NoReport

-----------------------------------------------------------------------------
(* Expressions and worlds.                                                 *)

LEMMA NotNot ==
  ASSUME NEW e \in Expr
  PROVE  /\ Not(e) \in Expr /\ Not(Not(e)) = e /\ Not(e).reads = e.reads
         /\ \A w \in World : w \in Not(e).holds <=> w \notin e.holds
<1>1. e \in [reads : SUBSET Cell, holds : SUBSET World] /\ Not(e) \in Expr
  BY QueryAssumption
<1>2. Not(Not(e)) = e
  <2>1. World \ (World \ e.holds) = e.holds
    BY <1>1
  <2> QED BY <1>1, <2>1 DEF Not
<1> QED BY <1>1, <1>2 DEF Not

\* A solution of the constraints and an expression refutes the negation.
LEMMA EntailsIs ==
  ASSUME NEW es, NEW e \in Expr
  PROVE  /\ Entails(es, e) <=> ~Satisfiable(es \cup {Not(e)})
         /\ Entails(es, Not(e)) <=> ~Satisfiable(es \cup {e})
BY NotNot DEF Entails, Satisfiable, Satisfies

LEMMA SubsetSatisfiable ==
  ASSUME NEW es, NEW fs \in SUBSET es, Satisfiable(es)
  PROVE  Satisfiable(fs)
BY DEF Satisfiable, Satisfies

-----------------------------------------------------------------------------
(* CexCachingSolver.                                                       *)

\* What a sound cache answers of a key, or the core solver does.
AnswersKey(a, key) ==
  a \in SUBSET World /\ IF a = {} THEN ~Satisfiable(key) ELSE Fits(a, key)

\* A search of the cache, for the key itself, its supersets and subsets or any
\* assignment, finds only what answers the key.
LEMMA FoundAnswers ==
  ASSUME NEW o, NEW cx, CexTyped(cx), CexSound(cx), NEW key, NEW a \in Found(o, cx, key)
  PROVE  AnswersKey(a, key)
<1>1. CASE key \in DOMAIN cx /\ a = cx[key]
  BY <1>1 DEF CexTyped, CexSound, AnswersKey
<1>2. CASE a \in FromSupersets(cx, key)
  <2>1. PICK l \in DOMAIN cx : key \subseteq l /\ cx[l] # {} /\ a = cx[l]
    BY <1>2 DEF FromSupersets
  <2> QED BY <2>1 DEF CexTyped, CexSound, AnswersKey, Fits, Satisfies
<1>3. ASSUME NEW b, a \in FromSubsets(cx, key, b)
      PROVE  AnswersKey(a, key)
  <2>1. PICK l \in DOMAIN cx : l \subseteq key /\ (cx[l] = {} \/ Fits(cx[l], key)) /\ a = cx[l]
    BY <1>3 DEF FromSubsets
  <2>2. a \in SUBSET World
    BY <2>1 DEF CexTyped
  <2>3. CASE cx[l] = {}
    BY <2>1, <2>2, <2>3, SubsetSatisfiable DEF CexSound, AnswersKey
  <2>4. CASE Fits(cx[l], key)
    BY <2>1, <2>2, <2>4 DEF AnswersKey, Fits
  <2> QED BY <2>1, <2>3, <2>4
<1>4. CASE a \in FromTable(cx, key)
  BY <1>4 DEF FromTable, Range, CexTyped, AnswersKey, Fits
<1>5. \/ key \in DOMAIN cx /\ a = cx[key]
      \/ a \in FromSupersets(cx, key) \/ a \in FromSubsets(cx, key, ~o.tryAll)
      \/ a \in FromTable(cx, key)
  BY DEF Found
<1> QED BY <1>1, <1>2, <1>3, <1>4, <1>5

\* getAssignment answers its key and caches nothing wrong, or it fails.
LEMMA AssignmentIsRight ==
  ASSUME NEW o, NEW cx, CexTyped(cx), CexSound(cx), NEW key,
         NEW r \in GetAssignment(o, cx, key)
  PROVE  /\ CexTyped(r.cex) /\ CexSound(r.cex)
         /\ r.status \in {"done", "failed"}
         /\ r.status = "done" => AnswersKey(r.result, key)
<1>1. CASE Found(o, cx, key) # {}
  <2>1. PICK a \in Found(o, cx, key) : r = Outcome(a, cx)
    BY <1>1 DEF GetAssignment
  <2> QED BY <2>1, FoundAnswers
<1>2. CASE r = Failure(cx)
  BY <1>2
<1>3. ASSUME NEW a \in Solutions(key), r = Outcome(a, CexInsert(cx, key, a))
      PROVE  /\ AnswersKey(a, key)
             /\ CexTyped(CexInsert(cx, key, a)) /\ CexSound(CexInsert(cx, key, a))
  <2>1. AnswersKey(a, key)
    BY DEF Solutions, AnswersKey, Fits
  <2> QED BY <2>1 DEF CexInsert, CexTyped, CexSound, AnswersKey
<1> QED BY <1>1, <1>2, <1>3 DEF GetAssignment

\* computeTruth: the negation has no solution exactly if the expression is
\* entailed.
LEMMA TruthIsRight ==
  ASSUME NEW o, NEW cx, CexTyped(cx), CexSound(cx), NEW es, NEW e \in Expr,
         NEW r \in CexTruth(o, cx, es, e)
  PROVE  /\ CexTyped(r.cex) /\ CexSound(r.cex)
         /\ r.status \in {"done", "failed"}
         /\ r.status = "done" => r.result = Entails(es, e)
<1>1. CASE r = Failure(cx)
  BY <1>1
<1>2. CASE r # Failure(cx)
  <2>1. PICK s \in GetAssignment(o, cx, es \cup {Not(e)}) :
          r = IF s.status = "done" THEN Outcome(s.result = {}, s.cex) ELSE s
    BY <1>2 DEF CexTruth, Bind
  <2>2. /\ CexTyped(s.cex) /\ CexSound(s.cex) /\ s.status \in {"done", "failed"}
        /\ s.status = "done" => AnswersKey(s.result, es \cup {Not(e)})
    BY AssignmentIsRight
  <2>3. ASSUME s.status = "done" PROVE (s.result = {}) <=> Entails(es, e)
    <3>1. (s.result = {}) <=> ~Satisfiable(es \cup {Not(e)})
      BY <2>2, <2>3 DEF AnswersKey, Fits, Satisfiable
    <3> QED BY <3>1, EntailsIs
  <2>4. CASE s.status = "done"
    <3>1. r = [status |-> "done", result |-> (s.result = {}), cex |-> s.cex]
      BY <2>1, <2>4
    <3>2. (s.result = {}) = Entails(es, e)
      BY <2>3, <2>4 DEF Entails
    <3> QED BY <2>2, <3>1, <3>2
  <2>5. CASE s.status # "done"
    BY <2>1, <2>2, <2>5
  <2> QED BY <2>4, <2>5
<1> QED BY <1>1, <1>2

\* The answer of computeValidity, for constraints es.
SaysValidity(v, es, e) ==
  \/ v = "True" /\ Entails(es, e)
  \/ v = "False" /\ Entails(es, Not(e))
  \/ v = "Unknown" /\ ~Entails(es, e) /\ ~Entails(es, Not(e))

\* computeValidity: whichever side the first assignment shows to be possible,
\* the second question settles the other; its assertion holds.
LEMMA ValidityIsRight ==
  ASSUME NEW o, NEW cx, CexTyped(cx), CexSound(cx), NEW es, Satisfiable(es),
         NEW e \in Expr, NEW r \in CexValidity(o, cx, es, e)
  PROVE  /\ CexTyped(r.cex) /\ CexSound(r.cex)
         /\ r.status \in {"done", "failed"}
         /\ r.status = "done" => SaysValidity(r.result, es, e)
<1> DEFINE Second(q, d, known, other) ==
             \E s \in GetAssignment(o, q.cex, es \cup {d}) :
               r = IF s.status = "done"
                   THEN Outcome(IF s.result = {} THEN known ELSE other, s.cex)
                   ELSE s
           Seconds(q, d, known, other) ==
             UNION {IF s.status = "done"
                    THEN {Outcome(IF s.result = {} THEN known ELSE other, s.cex)}
                    ELSE {s} : s \in GetAssignment(o, q.cex, es \cup {d})}
           Rest(q) == IF q.result = {} THEN {Abort(q.cex)}
                      ELSE IF q.result \subseteq e.holds
                      THEN Seconds(q, Not(e), "True", "Unknown")
                      ELSE Seconds(q, e, "False", "Unknown")
<1>1. CexValidity(o, cx, es, e) =
        UNION {IF q.status = "done" THEN Rest(q) ELSE {q} : q \in GetAssignment(o, cx, es)}
  BY DEF CexValidity, Bind
<1>2. ASSUME NEW q, NEW d, NEW known, NEW other, r \in Seconds(q, d, known, other)
      PROVE  Second(q, d, known, other)
  <2>1. PICK s \in GetAssignment(o, q.cex, es \cup {d}) :
          r \in IF s.status = "done"
                THEN {Outcome(IF s.result = {} THEN known ELSE other, s.cex)}
                ELSE {s}
    BY <1>2
  <2>2. r = IF s.status = "done"
            THEN Outcome(IF s.result = {} THEN known ELSE other, s.cex)
            ELSE s
    BY <2>1
  <2> QED BY <2>2
<1> HIDE DEF Seconds, Second
<1>3. PICK q \in GetAssignment(o, cx, es) :
        r \in IF q.status = "done" THEN Rest(q) ELSE {q}
  <2> HIDE DEF Rest
  <2> QED BY <1>1
<1>4. IF q.status # "done" THEN r = q
      ELSE IF q.result = {} THEN r = Abort(q.cex)
      ELSE IF q.result \subseteq e.holds THEN Second(q, Not(e), "True", "Unknown")
      ELSE Second(q, e, "False", "Unknown")
  BY <1>2, <1>3
<1> USE DEF Second
<1>5. /\ CexTyped(q.cex) /\ CexSound(q.cex) /\ q.status \in {"done", "failed"}
      /\ q.status = "done" => AnswersKey(q.result, es)
  BY AssignmentIsRight
<1>6. ASSUME NEW d \in Expr, NEW known, NEW other, Second(q, d, known, other)
      PROVE  /\ CexTyped(r.cex) /\ CexSound(r.cex) /\ r.status \in {"done", "failed"}
             /\ r.status = "done" =>
                  r.result = IF Satisfiable(es \cup {d}) THEN other ELSE known
  <2>1. PICK s \in GetAssignment(o, q.cex, es \cup {d}) :
          r = IF s.status = "done"
              THEN Outcome(IF s.result = {} THEN known ELSE other, s.cex) ELSE s
    BY <1>6
  <2>2. /\ CexTyped(s.cex) /\ CexSound(s.cex) /\ s.status \in {"done", "failed"}
        /\ s.status = "done" => AnswersKey(s.result, es \cup {d})
    BY <1>5, AssignmentIsRight
  <2>3. s.status = "done" => ((s.result = {}) <=> ~Satisfiable(es \cup {d}))
    BY <2>2 DEF AnswersKey, Fits, Satisfiable
  <2>4. CASE s.status = "done"
    <3>1. r = [status |-> "done", cex |-> s.cex,
               result |-> IF s.result = {} THEN known ELSE other]
      BY <2>1, <2>4
    <3> QED BY <2>2, <2>3, <2>4, <3>1
  <2>5. CASE s.status # "done"
    BY <2>1, <2>2, <2>5
  <2> QED BY <2>4, <2>5
<1> HIDE DEF Second
<1>7. CASE q.status # "done"
  BY <1>4, <1>5, <1>7
<1>8. CASE q.status = "done" /\ q.result \subseteq e.holds
  <2>1. q.result # {} /\ Fits(q.result, es) /\ q.result \in SUBSET World
    BY <1>5, <1>8 DEF AnswersKey
  <2>2. Satisfiable(es \cup {e})
    BY <1>8, <2>1 DEF Fits, Satisfiable, Satisfies
  <2>3. Second(q, Not(e), "True", "Unknown")
    BY <1>4, <1>8, <2>1
  <2>4. Not(e) \in Expr
    BY NotNot
  <2>5. /\ CexTyped(r.cex) /\ CexSound(r.cex) /\ r.status \in {"done", "failed"}
        /\ r.status = "done" =>
             r.result = IF Satisfiable(es \cup {Not(e)}) THEN "Unknown" ELSE "True"
    BY <1>6, <2>3, <2>4
  <2>6. /\ Entails(es, e) <=> ~Satisfiable(es \cup {Not(e)})
        /\ Entails(es, Not(e)) <=> ~Satisfiable(es \cup {e})
    BY NotNot, EntailsIs
  <2> QED BY <2>2, <2>5, <2>6 DEF SaysValidity
<1>9. CASE q.status = "done" /\ ~(q.result \subseteq e.holds)
  <2>1. q.result # {} /\ Fits(q.result, es) /\ q.result \in SUBSET World
    BY <1>5, <1>9 DEF AnswersKey
  <2>2. PICK w \in q.result : w \notin e.holds
    BY <1>9
  <2>3. w \in World /\ Satisfies(w, es \cup {Not(e)})
    BY <2>1, <2>2, NotNot DEF Fits, Satisfies
  <2>4. Satisfiable(es \cup {Not(e)})
    BY <2>3 DEF Satisfiable
  <2>5. Second(q, e, "False", "Unknown")
    BY <1>4, <1>9, <2>1
  <2>6. /\ CexTyped(r.cex) /\ CexSound(r.cex) /\ r.status \in {"done", "failed"}
        /\ r.status = "done" =>
             r.result = IF Satisfiable(es \cup {e}) THEN "Unknown" ELSE "False"
    BY <1>6, <2>5
  <2>7. /\ Entails(es, e) <=> ~Satisfiable(es \cup {Not(e)})
        /\ Entails(es, Not(e)) <=> ~Satisfiable(es \cup {e})
    BY NotNot, EntailsIs
  <2> QED BY <2>4, <2>6, <2>7 DEF SaysValidity
<1>10. CASE q.status = "done" /\ q.result = {}
  BY <1>5, <1>10 DEF AnswersKey
<1> QED BY <1>7, <1>8, <1>9, <1>10

\* computeValue: the value of the expression in an assignment that satisfies
\* the constraints; its assertion holds.
LEMMA ValueIsRight ==
  ASSUME NEW o, NEW cx, CexTyped(cx), CexSound(cx), NEW es, Satisfiable(es),
         NEW e \in Expr, NEW r \in CexValue(o, cx, es, e)
  PROVE  /\ CexTyped(r.cex) /\ CexSound(r.cex)
         /\ r.status \in {"done", "failed"}
         /\ r.status = "done" =>
              /\ r.result \in BOOLEAN
              /\ Satisfiable(es \cup {IF r.result THEN e ELSE Not(e)})
<1>1. PICK q \in GetAssignment(o, cx, es) :
        r = IF q.status # "done" THEN q
            ELSE IF q.result = {} THEN Abort(q.cex)
            ELSE Outcome(q.result \subseteq e.holds, q.cex)
  BY DEF CexValue, Bind
<1>2. /\ CexTyped(q.cex) /\ CexSound(q.cex) /\ q.status \in {"done", "failed"}
      /\ q.status = "done" => AnswersKey(q.result, es)
  BY AssignmentIsRight
<1>3. CASE q.status # "done"
  BY <1>1, <1>2, <1>3
<1>4. CASE q.status = "done"
  <2>1. q.result # {} /\ Fits(q.result, es) /\ q.result \in SUBSET World
    BY <1>2, <1>4 DEF AnswersKey
  <2>2. r = [status |-> "done", result |-> (q.result \subseteq e.holds), cex |-> q.cex]
    BY <1>1, <1>4, <2>1
  <2>3. ASSUME q.result \subseteq e.holds PROVE Satisfiable(es \cup {e})
    BY <2>1, <2>3 DEF Fits, Satisfiable, Satisfies
  <2>4. ASSUME ~(q.result \subseteq e.holds) PROVE Satisfiable(es \cup {Not(e)})
    <3>1. PICK w \in q.result : w \notin e.holds
      BY <2>4
    <3>2. w \in World /\ Satisfies(w, es \cup {Not(e)})
      BY <2>1, <3>1, NotNot DEF Fits, Satisfies
    <3> QED BY <3>2 DEF Satisfiable
  <2>5. (q.result \subseteq e.holds) \in BOOLEAN
    OBVIOUS
  <2> QED BY <1>2, <2>2, <2>3, <2>4, <2>5
<1> QED BY <1>3, <1>4

-----------------------------------------------------------------------------
(* CachingSolver.                                                          *)

\* What is known of an expression is known of its negation, the other way round.
LEMMA NegateHolds ==
  ASSUME NEW e \in Expr, NEW es, NEW pv \in PartialValidity
  PROVE  /\ Negate(pv) \in PartialValidity
         /\ Holds(Negate(pv), es, Not(e)) <=> Holds(pv, es, e)
<1>1. Not(Not(e)) = e
  BY NotNot
<1>2. CASE pv = "MustBeTrue"
  BY <1>1, <1>2 DEF Negate, Holds, PartialValidity
<1>3. CASE pv = "MustBeFalse"
  BY <1>1, <1>3 DEF Negate, Holds, PartialValidity
<1>4. CASE pv = "MayBeTrue"
  BY <1>1, <1>4 DEF Negate, Holds, PartialValidity
<1>5. CASE pv = "MayBeFalse"
  BY <1>1, <1>5 DEF Negate, Holds, PartialValidity
<1>6. CASE pv = "TrueOrFalse"
  BY <1>1, <1>6 DEF Negate, Holds, PartialValidity
<1> QED BY <1>2, <1>3, <1>4, <1>5, <1>6 DEF PartialValidity

\* canonicalizeQuery and the negation of the result undo each other, both when
\* an entry is read and when it is written.
LEMMA OrientedHolds ==
  ASSUME NEW e \in Expr, NEW es, NEW pv \in PartialValidity
  PROVE  /\ Canonical(e) \in Expr /\ Oriented(e, pv) \in PartialValidity
         /\ Holds(pv, es, Canonical(e)) => Holds(Oriented(e, pv), es, e)
         /\ Holds(pv, es, e) => Holds(Oriented(e, pv), es, Canonical(e))
<1>1. Canonical(e) \in {e, Not(e)}
  BY DEF Canonical
<1>2. Not(e) \in Expr /\ Not(Not(e)) = e
  BY NotNot
<1>3. CASE Canonical(e) = e
  BY <1>3 DEF Oriented
<1>4. CASE Canonical(e) # e
  <2>1. Canonical(e) = Not(e) /\ Oriented(e, pv) = Negate(pv)
    BY <1>1, <1>4 DEF Oriented
  <2>2. Holds(Negate(pv), es, Not(Not(e))) <=> Holds(pv, es, Not(e))
    BY <1>2, NegateHolds
  <2> QED BY <1>2, <2>1, <2>2, NegateHolds
<1> QED BY <1>3, <1>4

LEMMA KnownHolds ==
  ASSUME NEW ca, CacheTyped(ca), CacheSound(ca), NEW p \in Seq(Expr), NEW e \in Expr
  PROVE  \/ Known(ca, p, e) = "None"
         \/ Known(ca, p, e) \in PartialValidity /\ Holds(Known(ca, p, e), ToSet(p), e)
<1> SUFFICES ASSUME Entry(p, e) \in DOMAIN ca
             PROVE  /\ Known(ca, p, e) \in PartialValidity
                    /\ Holds(Known(ca, p, e), ToSet(p), e)
  BY DEF Known
<1> DEFINE k == Entry(p, e)
<1>1. k[1] = p /\ k[2] = Canonical(e)
  BY DEF Entry
<1>2. ca[k] \in PartialValidity /\ Holds(ca[k], ToSet(p), Canonical(e))
  BY <1>1 DEF CacheTyped, CacheSound
<1>3. Known(ca, p, e) = Oriented(e, ca[k])
  BY DEF Known
<1> QED BY <1>2, <1>3, OrientedHolds

\* Inserting what holds leaves only what holds.
LEMMA InsertKeeps ==
  ASSUME NEW ca, CacheTyped(ca), CacheSound(ca), NEW p \in Seq(Expr), NEW e \in Expr,
         NEW pv \in PartialValidity, Holds(pv, ToSet(p), e)
  PROVE  CacheTyped(Insert(ca, p, e, pv)) /\ CacheSound(Insert(ca, p, e, pv))
<1> DEFINE k == Entry(p, e)
           N == [x \in DOMAIN ca \cup {k} |-> IF x = k THEN Oriented(e, pv) ELSE ca[x]]
<1>1. k = <<p, Canonical(e)>> /\ k[1] = p /\ k[2] = Canonical(e)
  BY DEF Entry
<1>2. /\ Canonical(e) \in Expr /\ Oriented(e, pv) \in PartialValidity
      /\ Holds(Oriented(e, pv), ToSet(p), Canonical(e))
  BY OrientedHolds
<1>3. Insert(ca, p, e, pv) \in {ca, N}
  BY DEF Insert
<1> HIDE DEF k
<1>4. CacheTyped(N)
  BY <1>1, <1>2 DEF CacheTyped
<1>5. CacheSound(N)
  BY <1>1, <1>2 DEF CacheSound
<1> QED BY <1>3, <1>4, <1>5

\* The caches c and cx hold only facts.
Sound(c, cx) == CacheTyped(c) /\ CacheSound(c) /\ CexTyped(cx) /\ CexSound(cx)

\* computeTruth, from the cache or from the CexCachingSolver.
LEMMA CachedTruthIsRight ==
  ASSUME NEW o, NEW ca, NEW cx, Sound(ca, cx), NEW p \in Seq(Expr), NEW e \in Expr,
         Satisfiable(ToSet(p)), NEW r \in CachedTruth(o, ca, cx, p, e)
  PROVE  /\ Sound(r.cache, r.cex) /\ r.status \in {"done", "failed"}
         /\ r.status = "done" => r.result = Entails(ToSet(p), e)
<1> DEFINE pv == Known(ca, p, e)
           Learn(valid) == IF valid THEN "MustBeTrue"
                           ELSE IF pv = "MayBeTrue" THEN "TrueOrFalse" ELSE "MayBeFalse"
<1>1. pv = "None" \/ (pv \in PartialValidity /\ Holds(pv, ToSet(p), e))
  BY KnownHolds DEF Sound
<1> HIDE DEF pv
<1>2. CASE pv \notin {"None", "MayBeTrue"}
  <2>1. r = [status |-> "done", result |-> (pv = "MustBeTrue"), cache |-> ca, cex |-> cx]
    BY <1>2 DEF CachedTruth, pv
  <2>2. (pv = "MustBeTrue") <=> Entails(ToSet(p), e)
    <3>1. ~(Entails(ToSet(p), e) /\ Entails(ToSet(p), Not(e)))
      BY NotNot DEF Entails, Satisfiable
    <3> QED BY <1>1, <1>2, <3>1 DEF PartialValidity, Holds
  <2> QED BY <2>1, <2>2 DEF Entails
<1>3. CASE pv \in {"None", "MayBeTrue"}
  <2>1. PICK s \in CexTruth(o, cx, ToSet(p), e) :
          r = IF s.status = "done"
              THEN Report(s.result, Insert(ca, p, e, Learn(s.result)), s.cex)
              ELSE NoReport(s, ca)
    BY <1>3 DEF CachedTruth, Relay, pv
  <2>2. /\ CexTyped(s.cex) /\ CexSound(s.cex) /\ s.status \in {"done", "failed"}
        /\ s.status = "done" => s.result = Entails(ToSet(p), e)
    BY TruthIsRight DEF Sound
  <2>3. CASE s.status # "done"
    BY <2>1, <2>2, <2>3 DEF Sound
  <2>4. CASE s.status = "done"
    <3>1. Learn(s.result) \in PartialValidity /\ Holds(Learn(s.result), ToSet(p), e)
      BY <1>1, <2>2, <2>4 DEF PartialValidity, Holds
    <3> HIDE DEF Learn
    <3>2. /\ CacheTyped(Insert(ca, p, e, Learn(s.result)))
          /\ CacheSound(Insert(ca, p, e, Learn(s.result)))
      BY <3>1, InsertKeeps DEF Sound
    <3>3. r = [status |-> "done", result |-> s.result, cex |-> s.cex,
               cache |-> Insert(ca, p, e, Learn(s.result))]
      BY <2>1, <2>4
    <3> QED BY <2>2, <2>4, <3>2, <3>3 DEF Sound
  <2> QED BY <2>3, <2>4
<1> QED BY <1>2, <1>3

\* computeValidity; what was half known spares one of the two questions.
LEMMA CachedValidityIsRight ==
  ASSUME NEW o, NEW ca, NEW cx, Sound(ca, cx), NEW p \in Seq(Expr), NEW e \in Expr,
         Satisfiable(ToSet(p)), NEW r \in CachedValidity(o, ca, cx, p, e)
  PROVE  /\ Sound(r.cache, r.cex) /\ r.status \in {"done", "failed"}
         /\ r.status = "done" => SaysValidity(r.result, ToSet(p), e)
<1> DEFINE pv == Known(ca, p, e)
           Tell(v, c) == Report(v, Insert(ca, p, e, Decided(v)), c)
<1>1. pv = "None" \/ (pv \in PartialValidity /\ Holds(pv, ToSet(p), e))
  BY KnownHolds DEF Sound
<1>2. ASSUME NEW v, SaysValidity(v, ToSet(p), e)
      PROVE  /\ CacheTyped(Insert(ca, p, e, Decided(v)))
             /\ CacheSound(Insert(ca, p, e, Decided(v)))
  <2>1. Decided(v) \in PartialValidity /\ Holds(Decided(v), ToSet(p), e)
    BY <1>2 DEF SaysValidity, Decided, PartialValidity, Holds
  <2> QED BY <2>1, InsertKeeps DEF Sound
<1>3. ASSUME NEW v, NEW c, SaysValidity(v, ToSet(p), e), CexTyped(c), CexSound(c), r = Tell(v, c)
      PROVE  /\ Sound(r.cache, r.cex) /\ r.status = "done"
             /\ SaysValidity(r.result, ToSet(p), e)
  BY <1>2, <1>3 DEF Sound
<1>4. ASSUME NEW s, CexTyped(s.cex), CexSound(s.cex), s.status = "failed", r = NoReport(s, ca)
      PROVE  Sound(r.cache, r.cex) /\ r.status = "failed"
  BY <1>4 DEF Sound
<1> HIDE DEF pv, Tell
<1>5. CASE pv \in {"MustBeTrue", "MustBeFalse", "TrueOrFalse"}
  <2>1. PICK v : r = Report(v, ca, cx) /\ v = CASE pv = "MustBeTrue" -> "True"
                                               [] pv = "MustBeFalse" -> "False"
                                               [] pv = "TrueOrFalse" -> "Unknown"
    BY <1>5 DEF CachedValidity, pv
  <2>2. SaysValidity(v, ToSet(p), e)
    BY <1>1, <1>5, <2>1 DEF SaysValidity, Holds
  <2> QED BY <2>1, <2>2
<1>6. CASE pv = "MayBeTrue"
  <2>1. PICK s \in CexTruth(o, cx, ToSet(p), e) :
          r = IF s.status = "done" THEN Tell(IF s.result THEN "True" ELSE "Unknown", s.cex)
              ELSE NoReport(s, ca)
    BY <1>6 DEF CachedValidity, Relay, pv, Tell
  <2>2. /\ CexTyped(s.cex) /\ CexSound(s.cex) /\ s.status \in {"done", "failed"}
        /\ s.status = "done" => s.result = Entails(ToSet(p), e)
    BY TruthIsRight DEF Sound
  <2>3. s.status = "done" => SaysValidity(IF s.result THEN "True" ELSE "Unknown", ToSet(p), e)
    BY <1>1, <1>6, <2>2 DEF SaysValidity, Holds
  <2> QED BY <1>3, <1>4, <2>1, <2>2, <2>3
<1>7. CASE pv = "MayBeFalse"
  <2>1. PICK s \in CexTruth(o, cx, ToSet(p), Not(e)) :
          r = IF s.status = "done" THEN Tell(IF s.result THEN "False" ELSE "Unknown", s.cex)
              ELSE NoReport(s, ca)
    BY <1>7 DEF CachedValidity, Relay, pv, Tell
  <2>2. /\ CexTyped(s.cex) /\ CexSound(s.cex) /\ s.status \in {"done", "failed"}
        /\ s.status = "done" => s.result = Entails(ToSet(p), Not(e))
    BY TruthIsRight, NotNot DEF Sound
  <2>3. s.status = "done" => SaysValidity(IF s.result THEN "False" ELSE "Unknown", ToSet(p), e)
    BY <1>1, <1>7, <2>2 DEF SaysValidity, Holds
  <2> QED BY <1>3, <1>4, <2>1, <2>2, <2>3
<1>8. CASE pv = "None"
  <2>1. PICK s \in CexValidity(o, cx, ToSet(p), e) :
          r = IF s.status = "done" THEN Tell(s.result, s.cex) ELSE NoReport(s, ca)
    BY <1>8 DEF CachedValidity, Relay, pv, Tell
  <2>2. /\ CexTyped(s.cex) /\ CexSound(s.cex) /\ s.status \in {"done", "failed"}
        /\ s.status = "done" => SaysValidity(s.result, ToSet(p), e)
    BY ValidityIsRight DEF Sound
  <2> QED BY <1>3, <1>4, <2>1, <2>2
<1> QED BY <1>1, <1>5, <1>6, <1>7, <1>8 DEF PartialValidity

LEMMA CachedValueIsRight ==
  ASSUME NEW o, NEW ca, NEW cx, Sound(ca, cx), NEW p \in Seq(Expr), NEW e \in Expr,
         Satisfiable(ToSet(p)), NEW r \in CachedValue(o, ca, cx, p, e)
  PROVE  /\ Sound(r.cache, r.cex) /\ r.status \in {"done", "failed"}
         /\ r.status = "done" =>
              /\ r.result \in BOOLEAN
              /\ Satisfiable(ToSet(p) \cup {IF r.result THEN e ELSE Not(e)})
<1>1. PICK s \in CexValue(o, cx, ToSet(p), e) :
        r = IF s.status = "done" THEN Report(s.result, ca, s.cex) ELSE NoReport(s, ca)
  BY DEF CachedValue, Relay
<1>2. /\ CexTyped(s.cex) /\ CexSound(s.cex) /\ s.status \in {"done", "failed"}
      /\ s.status = "done" =>
           /\ s.result \in BOOLEAN
           /\ Satisfiable(ToSet(p) \cup {IF s.result THEN e ELSE Not(e)})
  BY ValueIsRight DEF Sound
<1>3. CASE s.status = "done"
  <2>1. r = [status |-> "done", result |-> s.result, cache |-> ca, cex |-> s.cex]
    BY <1>1, <1>3
  <2> QED BY <1>2, <1>3, <2>1 DEF Sound
<1>4. CASE s.status # "done"
  BY <1>1, <1>2, <1>4 DEF Sound
<1> QED BY <1>3, <1>4

-----------------------------------------------------------------------------
(* The steps of the chain.                                                 *)

\* The chain drives the reduction of IndependentSolver as it allows.
LEMMA ChainStepIsStep == [ChainNext]_chainVars => [Next]_vars
BY DEF ChainNext, ChainAsk, ChainReduce, AnswerSlice, SolveFactor, GiveUp,
       AnswerValues, chainVars, Next

\* The constraints of a query are expressions, and can be satisfied together.
LEMMA QueryFacts ==
  ASSUME NEW q \in Query
  PROVE  /\ q # NoQuery /\ q.path \in Path /\ q.path \in Seq(Expr)
         /\ ToSet(q.path) \subseteq Expr /\ Satisfiable(ToSet(q.path))
         /\ q.kind \in {"truth", "validity", "value", "values"}
         /\ q.kind # "values" => q.expr \in Expr
         /\ q.kind = "values" => q.objects \in SUBSET Array
<1>1. /\ q.path \in Path /\ q.kind \in {"truth", "validity", "value", "values"}
      /\ q.kind # "values" => q.expr \in Expr
      /\ q.kind = "values" => q.objects \in SUBSET Array
  BY DEF Query
<1>2. q # NoQuery
  BY <1>1 DEF NoQuery
<1>3. q.path \in Seq(Expr) /\ Satisfiable(ToSet(q.path))
  BY <1>1, QueryAssumption
<1> QED BY <1>1, <1>2, <1>3 DEF ToSet

\* The slice may be asked instead of the path.
LEMMA SliceFacts ==
  ASSUME IInv, stage = "sliced"
  PROVE  /\ query \in Query /\ query.kind \in {"truth", "validity", "value"}
         /\ query.expr \in Expr
         /\ current.exprs \in Seq(Expr) /\ Satisfiable(ToSet(current.exprs))
         /\ \A d \in {query.expr, Not(query.expr)} :
              Entails(ToSet(query.path), d) <=> Entails(ToSet(current.exprs), d)
<1> DEFINE S == ToSet(current.exprs)
<1>1. /\ query \in Query /\ query.kind # "values" /\ current.exprs \in Seq(Expr)
      /\ S \in SUBSET ToSet(query.path)
  BY DEF IInv, TypeOK, SliceInv, ElementSet
<1>2. /\ query.expr \in Expr /\ query.path \in Path /\ Satisfiable(ToSet(query.path))
      /\ query.kind \in {"truth", "validity", "value", "values"}
  BY <1>1, QueryFacts
<1>3. \A c \in ToSet(query.path) \ S :
        /\ c.reads \cap query.expr.reads = {} /\ \A d \in S : c.reads \cap d.reads = {}
  BY ClosedFromInv DEF SliceIsClosed
<1>4. Not(query.expr) \in Expr /\ Not(query.expr).reads = query.expr.reads
  BY <1>2, NotNot
<1> HIDE DEF S
<1>5. ASSUME NEW d \in {query.expr, Not(query.expr)}
      PROVE  Entails(ToSet(query.path), d) <=> Entails(S, d)
  BY <1>1, <1>2, <1>3, <1>4, ClosedSliceDecides
<1>6. Satisfiable(S)
  BY <1>1, <1>2, SubsetSatisfiable
<1> QED BY <1>1, <1>2, <1>5, <1>6 DEF S

\* truth, validity and value: what is answered of the slice is right for the
\* path, and the caches stay sound.
LEMMA SliceAnswered ==
  ASSUME IInv, Sound(cache, cex), AnswerSlice
  PROVE  /\ Sound(cache', cex')
         /\ answer' \in {Done(x) : x \in Right(query)} \cup {Failed}
<1> DEFINE S == ToSet(current.exprs)
           P == ToSet(query.path)
           e == query.expr
<1>1. stage = "sliced"
  BY DEF AnswerSlice
<1>2. PICK r \in SliceOutcomes :
        /\ answer' = IF r.status = "done" THEN Done(r.result) ELSE [status |-> r.status]
        /\ cache' = r.cache /\ cex' = r.cex
  BY DEF AnswerSlice
<1>3. /\ query.kind \in {"truth", "validity", "value"} /\ e \in Expr
      /\ current.exprs \in Seq(Expr) /\ Satisfiable(S)
      /\ Entails(P, e) <=> Entails(S, e)
      /\ Entails(P, Not(e)) <=> Entails(S, Not(e))
  BY <1>1, SliceFacts
<1> HIDE DEF S, P, e
<1>4. ASSUME r.status = "failed" PROVE answer' = Failed
  BY <1>2, <1>4 DEF Failed
<1>5. CASE query.kind = "truth"
  <2>1. r \in CachedTruth(options, cache, cex, current.exprs, e)
    BY <1>5 DEF SliceOutcomes, e
  <2>2. /\ Sound(r.cache, r.cex) /\ r.status \in {"done", "failed"}
        /\ r.status = "done" => r.result = Entails(S, e)
    BY <1>3, <2>1, CachedTruthIsRight DEF S
  <2>3. Right(query) = {Entails(P, e)}
    BY <1>5 DEF Right, RightTruth, P, e
  <2>4. Entails(S, e) = Entails(P, e)
    BY <1>3 DEF Entails
  <2> QED BY <1>2, <1>4, <2>2, <2>3, <2>4
<1>6. CASE query.kind = "validity"
  <2>1. r \in CachedValidity(options, cache, cex, current.exprs, e)
    BY <1>6 DEF SliceOutcomes, e
  <2>2. /\ Sound(r.cache, r.cex) /\ r.status \in {"done", "failed"}
        /\ r.status = "done" => SaysValidity(r.result, S, e)
    BY <1>3, <2>1, CachedValidityIsRight DEF S
  <2>3. Right(query) = RightValidity(query.path, e)
    BY <1>6 DEF Right, e
  <2>4. ~(Entails(S, e) /\ Entails(S, Not(e)))
    BY <1>3, NotNot DEF Entails, Satisfiable
  <2>5. r.status = "done" => r.result \in Right(query)
    BY <1>3, <2>2, <2>3, <2>4 DEF SaysValidity, RightValidity, P
  <2> QED BY <1>2, <1>4, <2>2, <2>5
<1>7. CASE query.kind = "value"
  <2>1. r \in CachedValue(options, cache, cex, current.exprs, e)
    BY <1>7 DEF SliceOutcomes, e
  <2>2. /\ Sound(r.cache, r.cex) /\ r.status \in {"done", "failed"}
        /\ r.status = "done" =>
             r.result \in BOOLEAN /\ Satisfiable(S \cup {IF r.result THEN e ELSE Not(e)})
    BY <1>3, <2>1, CachedValueIsRight DEF S
  <2>3. Right(query) = RightValue(query.path, e)
    BY <1>7 DEF Right, e
  <2>4. /\ Satisfiable(S \cup {e}) => Satisfiable(P \cup {e})
        /\ Satisfiable(S \cup {Not(e)}) => Satisfiable(P \cup {Not(e)})
    BY <1>3, EntailsIs
  <2>5. r.status = "done" => r.result \in Right(query)
    BY <2>2, <2>3, <2>4 DEF RightValue, P
  <2> QED BY <1>2, <1>4, <2>2, <2>5
<1> QED BY <1>3, <1>5, <1>6, <1>7

\* What the factors of a finished reduction are.
LEMMA FactorFacts ==
  ASSUME IInv, stage = "factored"
  PROVE  /\ query \in Query /\ query.kind = "values"
         /\ ToSet(query.path) = ExprsOf(factors)
         /\ Len(factors) \in Nat
         /\ \A i \in 1..Len(factors) :
              /\ factors[i].reads = ReadsOf(ToSet(factors[i].exprs))
              /\ factors[i].reads \subseteq Cell
              /\ ToSet(factors[i].exprs) \subseteq ToSet(query.path)
         /\ \A i, j \in 1..Len(factors) :
              i # j => factors[i].reads \cap factors[j].reads = {}
<1>1. /\ query \in Query /\ query.kind = "values" /\ factors \in Seq(ElementSet)
      /\ AllExact(factors) /\ PairwiseApart(factors)
  BY DEF IInv, TypeOK, FactorInv
<1>2. ToSet(query.path) = ExprsOf(factors)
  BY ApartFromInv DEF FactorsAreIndependent
<1>3. Len(factors) \in Nat /\ DOMAIN factors = 1..Len(factors)
  BY <1>1
<1>4. ASSUME NEW i \in 1..Len(factors)
      PROVE  /\ factors[i].reads = ReadsOf(ToSet(factors[i].exprs))
             /\ factors[i].reads \subseteq Cell
             /\ ToSet(factors[i].exprs) \subseteq ToSet(query.path)
  <2>1. factors[i] \in ElementSet
    BY <1>1
  <2>2. factors[i] \in ToSet(factors)
    BY <1>3 DEF ToSet
  <2> QED BY <1>1, <1>2, <2>1, <2>2 DEF AllExact, Exact, ElementSet, ExprsOf
<1>5. \A i, j \in 1..Len(factors) : i # j => factors[i].reads \cap factors[j].reads = {}
  BY <1>1, <1>3 DEF PairwiseApart, Disjoint, Intersects
<1> QED BY <1>1, <1>2, <1>3, <1>4, <1>5

\* A world that agrees with a solution on what a factor reads is one as well.
LEMMA AgreeSatisfies ==
  ASSUME NEW es \in SUBSET Expr, NEW v \in World, NEW w \in World,
         Satisfies(v, es), Agree(w, v, ReadsOf(es))
  PROVE  Satisfies(w, es)
<1>1. ASSUME NEW e \in es PROVE w \in e.holds
  <2>1. WellFormed(e)
    BY QueryAssumption
  <2>2. Agree(w, v, e.reads) /\ v \in e.holds
    BY DEF Agree, ReadsOf, Satisfies
  <2> QED BY <2>1, <2>2 DEF WellFormed
<1> QED BY <1>1 DEF Satisfies

\* A factor is solved, or skipped because it reads no array; what the other
\* factors have settled stays.
LEMMA FactorSolved ==
  ASSUME ChainInv, SolveFactor
  PROVE  /\ CexTyped(cex') /\ CexSound(cex')
         /\ \/ Answered /\ answer' = Failed /\ solved' = 0 /\ retMap' = NoValues
            \/ /\ UNCHANGED <<vars, answer>>
               /\ solved' = solved + 1
               /\ DOMAIN retMap' \subseteq Cell
               /\ \A c \in DOMAIN retMap' : retMap'[c] \in Byte
               /\ SolvedInv'
<1> DEFINE j == solved + 1
           f == factors[j]
           es == ToSet(f.exprs)
<1>1. /\ stage = "factored" /\ IInv /\ solved \in Nat /\ solved < Len(factors)
      /\ CexTyped(cex) /\ CexSound(cex) /\ SolvedInv
      /\ DOMAIN retMap \subseteq Cell /\ \A c \in DOMAIN retMap : retMap[c] \in Byte
  BY DEF SolveFactor, ChainInv, ChainTypeOK, CachesAreSound
<1>2. /\ query \in Query /\ Len(factors) \in Nat
      /\ \A i \in 1..Len(factors) :
           /\ factors[i].reads = ReadsOf(ToSet(factors[i].exprs))
           /\ factors[i].reads \subseteq Cell
           /\ ToSet(factors[i].exprs) \subseteq ToSet(query.path)
      /\ \A i, k \in 1..Len(factors) : i # k => factors[i].reads \cap factors[k].reads = {}
  BY <1>1, FactorFacts
<1>3. j \in 1..Len(factors) /\ 1..j = (1..solved) \cup {j} /\ j \notin 1..solved
      /\ 1..solved \subseteq 1..Len(factors)
  BY <1>1, <1>2
<1>4. f.reads = ReadsOf(es) /\ f.reads \subseteq Cell /\ es \subseteq Expr /\ Satisfiable(es)
  <2>1. ToSet(query.path) \subseteq Expr /\ Satisfiable(ToSet(query.path))
    BY <1>2, QueryFacts
  <2>2. es \in SUBSET ToSet(query.path)
    BY <1>2, <1>3
  <2>3. f.reads = ReadsOf(es) /\ f.reads \subseteq Cell
    BY <1>2, <1>3
  <2> HIDE DEF es
  <2> QED BY <2>1, <2>2, <2>3, SubsetSatisfiable
<1> HIDE DEF es
<1>5. CASE f.reads = {}
  <2>1. /\ solved' = j /\ UNCHANGED <<vars, cex, retMap, answer>>
    BY <1>5 DEF SolveFactor
  <2>2. \A w \in World : Satisfies(w, es)
    <3>1. PICK v \in World : Satisfies(v, es)
      BY <1>4 DEF Satisfiable
    <3>2. es \in SUBSET Expr /\ \A w \in World : Agree(w, v, ReadsOf(es))
      BY <1>4, <1>5 DEF Agree
    <3> QED BY <3>1, <3>2, AgreeSatisfies
  <2>3. SolvedInv'
    BY <1>1, <1>3, <1>5, <2>1, <2>2 DEF SolvedInv, vars, es
  <2> QED BY <1>1, <2>1, <2>3
<1>6. CASE f.reads # {}
  <2>1. PICK r \in GetAssignment(options, cex, es) :
          /\ cex' = r.cex
          /\ IF r.status # "done" \/ r.result = {}
             THEN GiveUp
             ELSE /\ \E w \in r.result : retMap' = Merge(retMap, f, w)
                  /\ solved' = j
                  /\ UNCHANGED <<vars, answer>>
    BY <1>6 DEF SolveFactor, es
  <2>2. /\ CexTyped(cex') /\ CexSound(cex')
        /\ r.status = "done" => AnswersKey(r.result, es)
    BY <1>1, <2>1, AssignmentIsRight
  <2>3. CASE r.status # "done" \/ r.result = {}
    BY <2>1, <2>2, <2>3 DEF GiveUp
  <2>4. CASE ~(r.status # "done" \/ r.result = {})
    <3>1. PICK w \in r.result : retMap' = Merge(retMap, f, w)
      BY <2>1, <2>4
    <3>2. solved' = j /\ UNCHANGED <<vars, answer>>
      BY <2>1, <2>4
    <3>3. w \in World /\ Satisfies(w, es)
      BY <2>2, <2>4 DEF AnswersKey, Fits
    <3>4. /\ DOMAIN retMap' = DOMAIN retMap \cup CellsOf(ArraysOf(es))
          /\ \A c \in DOMAIN retMap' :
               retMap'[c] = IF c \in f.reads \/ c \notin DOMAIN retMap THEN w[c] ELSE retMap[c]
      BY <3>1 DEF Merge, es
    <3>5. CellsOf(ArraysOf(es)) \subseteq Cell
      BY DEF CellsOf
    <3>6. f.reads \subseteq CellsOf(ArraysOf(es))
      BY <1>4 DEF CellsOf, ArraysOf, ReadsOf
    <3>7. /\ DOMAIN retMap' \subseteq Cell
          /\ \A c \in DOMAIN retMap' : retMap'[c] \in Byte
      BY <1>1, <3>3, <3>4, <3>5 DEF World
    <3>8. ASSUME NEW i \in 1..solved
          PROVE  /\ factors[i].reads \subseteq DOMAIN retMap'
                 /\ \A u \in World : Agree(u, retMap', factors[i].reads)
                                       => Satisfies(u, ToSet(factors[i].exprs))
      <4>1. /\ factors[i].reads \subseteq DOMAIN retMap
            /\ \A u \in World : Agree(u, retMap, factors[i].reads)
                                  => Satisfies(u, ToSet(factors[i].exprs))
        BY <1>1 DEF SolvedInv
      <4>2. factors[i].reads \cap f.reads = {}
        BY <1>2, <1>3
      <4>3. \A c \in factors[i].reads : retMap'[c] = retMap[c]
        BY <3>4, <4>1, <4>2
      <4> QED BY <3>4, <4>1, <4>3 DEF Agree
    <3>9. /\ f.reads \subseteq DOMAIN retMap'
          /\ \A u \in World : Agree(u, retMap', f.reads) => Satisfies(u, es)
      <4>1. f.reads \subseteq DOMAIN retMap' /\ \A c \in f.reads : retMap'[c] = w[c]
        BY <3>4, <3>6
      <4> QED BY <1>4, <3>3, <4>1, AgreeSatisfies DEF Agree
    <3>10. SolvedInv'
      BY <1>3, <3>2, <3>8, <3>9 DEF SolvedInv, vars, es
    <3> QED BY <2>2, <3>2, <3>7, <3>10
  <2> QED BY <2>3, <2>4
<1> QED BY <1>5, <1>6

\* Initial values: the bytes the factors agreed on, and 0 elsewhere, satisfy
\* the whole path.
LEMMA ValuesAnswered ==
  ASSUME ChainInv, AnswerValues
  PROVE  answer' \in {Done(x) : x \in Right(query)}
<1> DEFINE u == [c \in Cell |-> IF c \in DOMAIN retMap THEN retMap[c] ELSE Zero]
<1>1. /\ stage = "factored" /\ IInv /\ solved = Len(factors) /\ SolvedInv
      /\ \A c \in DOMAIN retMap : retMap[c] \in Byte
  BY DEF AnswerValues, ChainInv, ChainTypeOK
<1>2. query.kind = "values" /\ ToSet(query.path) = ExprsOf(factors) /\ Len(factors) \in Nat
      /\ \A i \in 1..Len(factors) : factors[i].reads \subseteq Cell
  BY <1>1, FactorFacts
<1>3. u \in World
  BY <1>1, QueryAssumption DEF World
<1>4. ASSUME NEW e \in ToSet(query.path) PROVE u \in e.holds
  <2>1. PICK i \in 1..Len(factors) : e \in ToSet(factors[i].exprs)
    <3>1. PICK x \in ToSet(factors) : e \in ToSet(x.exprs)
      BY <1>2 DEF ExprsOf
    <3>2. factors \in Seq(ElementSet)
      BY <1>1 DEF IInv, TypeOK
    <3> QED BY <3>1, <3>2 DEF ToSet
  <2>2. factors[i].reads \subseteq DOMAIN retMap
    BY <1>1, <2>1 DEF SolvedInv
  <2>3. Agree(u, retMap, factors[i].reads)
    BY <1>2, <2>2 DEF Agree
  <2>4. Satisfies(u, ToSet(factors[i].exprs))
    BY <1>1, <1>3, <2>3 DEF SolvedInv
  <2> QED BY <2>1, <2>4 DEF Satisfies
<1>5. Satisfies(u, ToSet(query.path))
  BY <1>4 DEF Satisfies
<1>6. answer' = Done([c \in CellsOf(query.objects) |->
                        IF c \in DOMAIN retMap THEN retMap[c] ELSE Zero])
  BY DEF AnswerValues
<1>7. [c \in CellsOf(query.objects) |-> IF c \in DOMAIN retMap THEN retMap[c] ELSE Zero]
        = [c \in CellsOf(query.objects) |-> u[c]]
  BY DEF CellsOf
<1> HIDE DEF u
<1>8. [c \in CellsOf(query.objects) |-> u[c]] \in Right(query)
  BY <1>2, <1>3, <1>5 DEF Right, RightValues
<1> QED BY <1>6, <1>7, <1>8

LEMMA ChainInitInv == ChainInit => ChainInv
<1> SUFFICES ASSUME ChainInit PROVE ChainInv
  OBVIOUS
<1>1. IInv
  BY InitInductive DEF ChainInit
<1>2. /\ options \in Options /\ cache = NoCache /\ cex = NoCex /\ solved = 0
      /\ retMap = NoValues /\ factors = << >> /\ stage = "idle"
  BY DEF ChainInit, Init
<1>3. DOMAIN cache = {} /\ DOMAIN cex = {} /\ DOMAIN retMap = {} /\ Len(factors) = 0
  BY <1>2 DEF NoCache, NoCex, NoValues
<1>4. ChainTypeOK /\ CachesAreSound
  BY <1>2, <1>3 DEF ChainTypeOK, CacheTyped, CexTyped, CachesAreSound, CacheSound, CexSound
<1>5. SolvedInv
  BY <1>2 DEF SolvedInv
<1> QED BY <1>1, <1>2, <1>4, <1>5 DEF ChainInv

\* A step that leaves the caches alone and has collected nothing.
LEMMA NothingSolved ==
  ASSUME IInv', options' \in Options, Sound(cache', cex'), solved' = 0, retMap' = NoValues
  PROVE  ChainInv'
<1>1. factors' \in Seq(ElementSet)
  BY DEF IInv, TypeOK
<1>2. DOMAIN (retMap') = {} /\ 0 \in 0..Len(factors')
  BY <1>1 DEF NoValues
<1>3. ChainTypeOK' /\ CachesAreSound'
  BY <1>2 DEF ChainTypeOK, CachesAreSound, Sound
<1>4. SolvedInv'
  BY DEF SolvedInv
<1> QED BY <1>3, <1>4 DEF ChainInv

LEMMA ChainInvStep == ChainInv /\ [ChainNext]_chainVars => ChainInv'
<1> SUFFICES ASSUME ChainInv, [ChainNext]_chainVars PROVE ChainInv'
  OBVIOUS
<1>1. IInv'
  BY ChainStepIsStep, NextInductive DEF ChainInv
<1>2. options \in Options /\ Sound(cache, cex) /\ IInv
  BY DEF ChainInv, ChainTypeOK, CachesAreSound, Sound
<1>3. CASE ChainAsk
  <2>1. UNCHANGED <<options, cache, cex, solved, retMap>> /\ stage = "idle"
    BY <1>3 DEF ChainAsk, caches, Ask
  <2>2. solved = 0 /\ retMap = NoValues
    BY <2>1 DEF ChainInv
  <2> QED BY <1>1, <1>2, <2>1, <2>2, NothingSolved
<1>4. CASE ChainReduce
  <2>1. UNCHANGED <<options, cache, cex, solved, retMap>> /\ stage \in {"slice", "factor"}
    BY <1>4 DEF ChainReduce, caches, reply, Reduce, Scan, NextSlicePass, SliceEnds,
         NextFactor, NextFactorPass, FactorsEnd
  <2>2. solved = 0 /\ retMap = NoValues
    BY <2>1 DEF ChainInv
  <2> QED BY <1>1, <1>2, <2>1, <2>2, NothingSolved
<1>5. CASE AnswerSlice
  <2>1. UNCHANGED <<options, solved, retMap>> /\ stage = "sliced"
    BY <1>5 DEF AnswerSlice
  <2>2. solved = 0 /\ retMap = NoValues
    BY <2>1 DEF ChainInv
  <2> QED BY <1>1, <1>2, <1>5, <2>1, <2>2, NothingSolved, SliceAnswered
<1>6. CASE SolveFactor
  <2>1. UNCHANGED <<options, cache>> /\ stage = "factored" /\ solved < Len(factors)
    BY <1>6 DEF SolveFactor
  <2>2. Sound(cache', cex')
    BY <1>2, <1>6, <2>1, FactorSolved DEF Sound
  <2>3. CASE solved' = 0 /\ retMap' = NoValues
    BY <1>1, <1>2, <2>1, <2>2, <2>3, NothingSolved
  <2>4. CASE /\ UNCHANGED <<vars, answer>> /\ solved' = solved + 1
             /\ DOMAIN retMap' \subseteq Cell /\ SolvedInv'
             /\ \A c \in DOMAIN retMap' : retMap'[c] \in Byte
    <3>1. stage' = "factored" /\ factors' = factors
      BY <2>1, <2>4 DEF vars
    <3>2. solved \in 0..Len(factors) /\ Len(factors) \in Nat
      BY <1>2, <2>1, FactorFacts DEF ChainInv, ChainTypeOK
    <3>3. solved' \in 0..Len(factors')
      BY <2>1, <2>4, <3>1, <3>2
    <3>4. ChainTypeOK' /\ CachesAreSound'
      BY <1>2, <2>1, <2>2, <2>4, <3>3 DEF ChainTypeOK, CachesAreSound, Sound
    <3> QED BY <1>1, <2>4, <3>1, <3>4 DEF ChainInv
  <2> QED BY <1>6, <2>3, <2>4, FactorSolved
<1>7. CASE AnswerValues
  BY <1>1, <1>2, <1>7, NothingSolved DEF AnswerValues, caches
<1>8. CASE UNCHANGED chainVars
  BY <1>1, <1>8 DEF chainVars, caches, reply, vars, ChainInv, ChainTypeOK,
       CachesAreSound, SolvedInv
<1> QED BY <1>3, <1>4, <1>5, <1>6, <1>7, <1>8 DEF ChainNext

-----------------------------------------------------------------------------
(* The results.                                                            *)

THEOREM ChainInductive == ChainSpec => []ChainInv
BY ChainInitInv, ChainInvStep, PTL DEF ChainSpec

\* Both caches hold only facts, however long they are kept and whatever
\* queries, of whichever states, filled them.
THEOREM CachesStaySound == ChainSpec => []CachesAreSound
BY ChainInductive, PTL DEF ChainInv

\* The chain's reduction is IndependentSolver's: slices are closed and factors
\* are apart in the chain as well.
THEOREM ChainReduces == ChainSpec => [](SliceIsClosed /\ FactorsAreIndependent)
<1>1. IInv => SliceIsClosed /\ FactorsAreIndependent
  BY ClosedFromInv, ApartFromInv
<1> QED BY <1>1, ChainInductive, PTL DEF ChainInv

\* What Oracle calls a right answer is what the chain's queries call one.
LEMMA OracleTerms ==
  /\ Unreduced!NoQuery = NoQuery /\ Unreduced!NoAnswer = NoAnswer
  /\ Unreduced!Failed = Failed /\ \A x : Unreduced!Done(x) = Done(x)
BY DEF Unreduced!NoQuery, NoQuery, Unreduced!NoAnswer, NoAnswer, Unreduced!Failed,
       Failed, Unreduced!Done, Done

\* The right answers of Oracle are those of the queries.
LEMMA RightIs == /\ Unreduced!Query = Query
                 /\ \A q : Unreduced!Right(q) = Right(q)
BY DEF Unreduced!Query, Query, Unreduced!Right, Right, Unreduced!RightTruth, RightTruth,
       Unreduced!RightValidity, RightValidity, Unreduced!RightValue, RightValue,
       Unreduced!RightValues, RightValues, Unreduced!Entails, Entails,
       Unreduced!Satisfiable, Satisfiable, Unreduced!Satisfies, Satisfies,
       Unreduced!Not, Not, Unreduced!World, World, Unreduced!CellsOf, CellsOf,
       Unreduced!ToSet, ToSet

\* Every answer the chain gives is an answer Oracle gives: slices, factors and
\* the caches are invisible to the executor.
THEOREM ChainIsAnOracle == ChainSpec => OracleImplemented
<1>1. ChainInit => Unreduced!Init
  BY OracleTerms DEF ChainInit, Init, Unreduced!Init
<1>2. ASSUME ChainInv, [ChainNext]_chainVars
      PROVE  [Unreduced!Next]_<<query, answer>>
  <2>1. IInv /\ Sound(cache, cex)
    BY <1>2 DEF ChainInv, ChainTypeOK, CachesAreSound, Sound
  <2>2. ASSUME query \in Query, query' = NoQuery,
               answer' \in {Done(x) : x \in Right(query)} \cup {Failed}
        PROVE  Unreduced!Reply
    BY <2>2, OracleTerms, QueryFacts, RightIs DEF Unreduced!Reply
  <2>3. CASE ChainAsk
    <3>1. query = NoQuery /\ answer' = NoAnswer
      BY <2>1, <2>3 DEF ChainAsk, Ask, IInv, IdleInv
    <3>2. query' \in Query
      BY <2>3 DEF ChainAsk, Ask, StartFactors, StartSlice
    <3> QED BY <3>1, <3>2, OracleTerms, RightIs DEF Unreduced!Ask, Unreduced!Next
  <2>4. CASE ChainReduce
    BY <2>4 DEF ChainReduce, reply, Reduce, Scan, NextSlicePass, SliceEnds,
         NextFactor, NextFactorPass, FactorsEnd
  <2>5. CASE AnswerSlice
    <3>1. stage = "sliced" /\ query' = NoQuery
      BY <2>5 DEF AnswerSlice, Answered
    <3> QED BY <2>1, <2>2, <2>5, <3>1, SliceFacts, SliceAnswered DEF Unreduced!Next
  <2>6. CASE SolveFactor
    <3>1. stage = "factored" /\ query \in Query
      BY <2>1, <2>6, FactorFacts DEF SolveFactor
    <3>2. CASE Answered /\ answer' = Failed
      BY <2>2, <3>1, <3>2 DEF Answered, Unreduced!Next
    <3>3. CASE UNCHANGED <<vars, answer>>
      BY <3>3 DEF vars
    <3> QED BY <1>2, <2>6, <3>2, <3>3, FactorSolved
  <2>7. CASE AnswerValues
    <3>1. stage = "factored" /\ query' = NoQuery
      BY <2>7 DEF AnswerValues, Answered
    <3> QED BY <1>2, <2>1, <2>2, <2>7, <3>1, FactorFacts, ValuesAnswered DEF Unreduced!Next
  <2>8. CASE UNCHANGED chainVars
    BY <2>8 DEF chainVars, vars, reply
  <2> QED BY <1>2, <2>3, <2>4, <2>5, <2>6, <2>7, <2>8 DEF ChainNext
<1> QED BY <1>1, <1>2, ChainInductive, PTL DEF ChainSpec, OracleImplemented, Unreduced!Spec

=============================================================================
