-------------------------- MODULE SearcherStackProofs --------------------------
(***************************************************************************)
(* The searchers for every set of states and every stack in which the      *)
(* random-path searcher is not under iterative deepening: there the code   *)
(* does run into an assertion.  Lemmas about lists without repetitions     *)
(* come first, then what update does to one searcher, then the steps.      *)
(***************************************************************************)
EXTENDS SearcherStack, FiniteSetTheorems, TLAPS

USE StackAssumption

-----------------------------------------------------------------------------
(* Lists without repetitions.                                              *)

\* The place of i among the numbers of K.
RankIn(K, i) == Cardinality({j \in K : j <= i})

\* The ranks of the elements of a finite set of numbers number it.
LEMMA RankNumbers ==
  ASSUME NEW m \in Nat, NEW K \in SUBSET (1..m)
  PROVE  /\ Cardinality(K) \in Nat
         /\ \A i \in K : RankIn(K, i) \in 1..Cardinality(K)
         /\ \A i, k \in K : RankIn(K, i) = RankIn(K, k) => i = k
         /\ \A n \in 1..Cardinality(K) : \E i \in K : RankIn(K, i) = n
<1> DEFINE Upto(i) == {j \in K : j <= i}
           r == [i \in K |-> RankIn(K, i)]
<1>1. IsFiniteSet(K) /\ Cardinality(K) \in Nat
  <2>1. IsFiniteSet(1..m)
    BY FS_Interval
  <2> QED BY <2>1, FS_Subset, FS_CardinalityType
<1>2. ASSUME NEW i \in K
      PROVE  /\ IsFiniteSet(Upto(i)) /\ RankIn(K, i) = Cardinality(Upto(i))
             /\ RankIn(K, i) \in 1..Cardinality(K)
  <2>1. IsFiniteSet(Upto(i)) /\ Cardinality(Upto(i)) <= Cardinality(K)
    BY <1>1, FS_Subset
  <2>2. Cardinality(Upto(i)) \in Nat
    BY <2>1, FS_CardinalityType
  <2>3. i \in Upto(i)
    OBVIOUS
  <2>4. Cardinality(Upto(i)) # 0
    BY <2>1, <2>3, FS_EmptySet
  <2>5. RankIn(K, i) = Cardinality(Upto(i))
    BY DEF RankIn
  <2> HIDE DEF Upto
  <2> QED BY <1>1, <2>1, <2>2, <2>4, <2>5
<1>3. ASSUME NEW i \in K, NEW k \in K, i < k
      PROVE  RankIn(K, i) # RankIn(K, k)
  <2>1. i \in Int /\ k \in Int /\ \A j \in K : j \in Int
    OBVIOUS
  <2>2. \A j \in K : j <= i => j <= k
    BY <1>3, <2>1
  <2>3. k <= k /\ ~(k <= i)
    BY <1>3, <2>1
  <2>4. Upto(i) \in SUBSET Upto(k) /\ k \in Upto(k) /\ k \notin Upto(i)
    BY <2>2, <2>3
  <2>5. Upto(i) # Upto(k)
    BY <2>4
  <2> HIDE DEF Upto
  <2>6. Cardinality(Upto(k)) = Cardinality(Upto(i)) => Upto(k) = Upto(i)
    BY <1>2, <2>4, FS_Subset
  <2> QED BY <1>2, <2>5, <2>6
<1>4. \A i, k \in K : RankIn(K, i) = RankIn(K, k) => i = k
  BY <1>3
<1>5. r \in Injection(K, 1..Cardinality(K))
  BY <1>2, <1>4 DEF Injection, IsInjective
<1>6. IsFiniteSet(1..Cardinality(K)) /\ Cardinality(1..Cardinality(K)) = Cardinality(K)
  BY <1>1, FS_Interval
<1>7. r \in Surjection(K, 1..Cardinality(K))
  BY <1>5, <1>6, FS_Injection
<1> QED BY <1>1, <1>2, <1>4, <1>7 DEF Surjection

\* Removing states from a list leaves the others, each once.
LEMMA WithoutKeeps ==
  ASSUME NEW these, NEW h, Keeps(h, these), NEW removed \in SUBSET these
  PROVE  Keeps(Without(h, removed), these \ removed)
<1> DEFINE K     == {i \in DOMAIN h : h[i] \notin removed}
           c     == Cardinality(K)
           At(n) == CHOOSE i \in K : RankIn(K, i) = n
           q     == [n \in 1..c |-> h[At(n)]]
<1>1. h \in Seq(State) /\ Len(h) \in Nat /\ DOMAIN h = 1..Len(h)
  BY DEF Keeps
<1>2. /\ c \in Nat
      /\ \A i \in K : RankIn(K, i) \in 1..c
      /\ \A i, k \in K : RankIn(K, i) = RankIn(K, k) => i = k
      /\ \A n \in 1..c : \E i \in K : RankIn(K, i) = n
  <2>1. K \in SUBSET (1..Len(h))
    BY <1>1
  <2> HIDE DEF K
  <2> QED BY <1>1, <2>1, RankNumbers
<1>3. ASSUME NEW n \in 1..c PROVE At(n) \in K /\ RankIn(K, At(n)) = n
  <2>1. \E i \in K : RankIn(K, i) = n
    BY <1>2
  <2> QED BY <2>1
<1>4. Without(h, removed) = q
  <2>1. removed \subseteq ToSet(h)
    BY DEF Keeps
  <2> QED BY <2>1 DEF Without, RankIn
<1> HIDE DEF At, c
<1>5. q \in Seq(State) /\ DOMAIN q = 1..c
  <2>1. ASSUME NEW n \in 1..c PROVE h[At(n)] \in State
    <3>1. At(n) \in 1..Len(h)
      BY <1>1, <1>3
    <3> QED BY <1>1, <3>1
  <2>2. q \in [1..c -> State]
    BY <2>1
  <2> HIDE DEF q
  <2> QED BY <1>2, <2>2
<1>6. IsInjective(q)
  <2> SUFFICES ASSUME NEW a \in 1..c, NEW b \in 1..c, h[At(a)] = h[At(b)]
               PROVE  a = b
    BY <1>5 DEF IsInjective
  <2>1. At(a) = At(b)
    BY <1>1, <1>3 DEF Keeps, IsInjective
  <2> QED BY <1>3, <2>1
<1>7. ToSet(q) = these \ removed
  <2>1. ToSet(q) \subseteq these \ removed
    BY <1>3, <1>5 DEF ToSet, Keeps
  <2>2. ASSUME NEW s \in these \ removed PROVE s \in ToSet(q)
    <3>1. PICK i \in K : h[i] = s
      BY DEF Keeps, ToSet
    <3>2. RankIn(K, i) \in 1..c /\ At(RankIn(K, i)) = i
      BY <1>2, <1>3
    <3> QED BY <1>5, <3>1, <3>2 DEF ToSet
  <2> QED BY <2>1, <2>2
<1> QED BY <1>4, <1>5, <1>6, <1>7 DEF Keeps

\* Appending new states, each once, to a list that holds none of them.
LEMMA AppendKeeps ==
  ASSUME NEW A, NEW B, NEW g, NEW h, Keeps(g, A), Keeps(h, B), A \cap B = {}
  PROVE  Keeps(g \o h, A \cup B)
<1>1. /\ g \in Seq(State) /\ h \in Seq(State) /\ Len(g) \in Nat /\ Len(h) \in Nat
      /\ DOMAIN g = 1..Len(g) /\ DOMAIN h = 1..Len(h)
  BY DEF Keeps
<1>2. /\ g \o h \in Seq(State) /\ Len(g \o h) = Len(g) + Len(h)
      /\ DOMAIN (g \o h) = 1..(Len(g) + Len(h))
      /\ \A i \in 1..Len(g) : (g \o h)[i] = g[i]
      /\ \A i \in 1..Len(h) : (g \o h)[Len(g) + i] = h[i]
  BY <1>1
<1>3. ASSUME NEW i \in 1..(Len(g) + Len(h))
      PROVE  /\ i \in 1..Len(g) => (g \o h)[i] = g[i] /\ g[i] \in A
             /\ i \notin 1..Len(g) =>
                  /\ (g \o h)[i] \in B
                  /\ \E k \in 1..Len(h) : i = Len(g) + k /\ (g \o h)[i] = h[k]
  <2>1. CASE i \in 1..Len(g)
    BY <1>1, <1>2, <2>1 DEF Keeps, ToSet
  <2>2. CASE i \notin 1..Len(g)
    <3>1. i - Len(g) \in 1..Len(h) /\ i = Len(g) + (i - Len(g))
      BY <1>1, <2>2
    <3> QED BY <1>1, <1>2, <2>2, <3>1 DEF Keeps, ToSet
  <2> QED BY <2>1, <2>2
<1>4. IsInjective(g \o h)
  <2> SUFFICES ASSUME NEW i \in 1..(Len(g) + Len(h)), NEW k \in 1..(Len(g) + Len(h)),
                      (g \o h)[i] = (g \o h)[k]
               PROVE  i = k
    BY <1>2 DEF IsInjective
  <2>1. CASE i \in 1..Len(g) /\ k \in 1..Len(g)
    BY <1>1, <1>2, <2>1 DEF Keeps, IsInjective
  <2>2. CASE i \in 1..Len(g) /\ k \notin 1..Len(g)
    <3>1. (g \o h)[i] \in A /\ (g \o h)[k] \in B
      BY <1>3, <2>2
    <3> QED BY <3>1
  <2>3. CASE i \notin 1..Len(g) /\ k \in 1..Len(g)
    <3>1. (g \o h)[i] \in B /\ (g \o h)[k] \in A
      BY <1>3, <2>3
    <3> QED BY <3>1
  <2>4. CASE i \notin 1..Len(g) /\ k \notin 1..Len(g)
    <3>1. PICK a \in 1..Len(h) : i = Len(g) + a /\ (g \o h)[i] = h[a]
      BY <1>3, <2>4
    <3>2. PICK b \in 1..Len(h) : k = Len(g) + b /\ (g \o h)[k] = h[b]
      BY <1>3, <2>4
    <3>3. a = b
      BY <1>1, <3>1, <3>2 DEF Keeps, IsInjective
    <3> QED BY <3>1, <3>2, <3>3
  <2> QED BY <2>1, <2>2, <2>3, <2>4
<1>5. ToSet(g \o h) = A \cup B
  <2>1. ToSet(g \o h) \subseteq A \cup B
    BY <1>2, <1>3 DEF ToSet
  <2>2. ASSUME NEW s \in A PROVE s \in ToSet(g \o h)
    <3>1. PICK i \in 1..Len(g) : g[i] = s
      BY <1>1 DEF Keeps, ToSet
    <3> QED BY <1>1, <1>2, <3>1 DEF ToSet
  <2>3. ASSUME NEW s \in B PROVE s \in ToSet(g \o h)
    <3>1. PICK i \in 1..Len(h) : h[i] = s
      BY <1>1 DEF Keeps, ToSet
    <3>2. Len(g) + i \in DOMAIN (g \o h)
      BY <1>1, <1>2
    <3> QED BY <1>2, <3>1, <3>2 DEF ToSet
  <2> QED BY <2>1, <2>2, <2>3
<1> QED BY <1>2, <1>4, <1>5 DEF Keeps

\* Any order of a set of states lists each of them once.
LEMMA OrderKeeps ==
  ASSUME NEW these \in SUBSET State, NEW order \in SetToSeqs(these)
  PROVE  Keeps(order, these)
<1> DEFINE c == Cardinality(these)
<1>1. IsFiniteSet(these) /\ c \in Nat
  BY FS_Subset, FS_CardinalityType
<1>2. /\ order \in [1..c -> these]
      /\ \A i, j \in 1..c : i # j => order[i] # order[j]
  BY DEF SetToSeqs
<1>3. order \in Injection(1..c, these)
  BY <1>2 DEF Injection, IsInjective
<1>4. IsFiniteSet(1..c) /\ Cardinality(1..c) = c
  BY <1>1, FS_Interval
<1>5. order \in Surjection(1..c, these)
  BY <1>1, <1>3, <1>4, FS_Injection
<1>6. ToSet(order) = these
  BY <1>2, <1>5 DEF ToSet, Surjection
<1>7. order \in Seq(State)
  <2>1. order \in [1..c -> State]
    BY <1>2
  <2> QED BY <1>1, <2>1
<1> QED BY <1>3, <1>6, <1>7 DEF Keeps, Injection

\* The empty list.
LEMMA EmptyKeeps == Keeps(<<>>, {}) /\ \A these : Keeps(<<>>, these) => these = {}
<1>1. <<>> \in Seq(State) /\ DOMAIN <<>> = {}
  OBVIOUS
<1> QED BY <1>1 DEF Keeps, IsInjective, ToSet

-----------------------------------------------------------------------------
(* One searcher, and the searchers of a stack.                             *)

\* update, told of new states, of held or new ones that go, and of a current
\* state that it holds, meets no assertion and holds the right states after it.
LEMMA UpdateHolds ==
  ASSUME NEW kind, kind # "random-path",
         NEW these \in SUBSET State, NEW h, Keeps(h, these),
         NEW fresh, NEW added, Keeps(added, fresh), fresh \cap these = {},
         NEW removed \in SUBSET (these \cup fresh),
         NEW current, current # NoState => current \in these
  PROVE  Keeps(UpdateKind(kind, h, current, added, removed), (these \cup fresh) \ removed)
<1>1. h # Failed
  BY DEF Keeps
<1>2. ToSet(h) = these /\ ToSet(added) = fresh
  BY DEF Keeps
<1>3. UpdateKind(kind, h, current, added, removed) = Without(h \o added, removed)
  BY <1>1, <1>2 DEF UpdateKind
<1>4. Keeps(h \o added, these \cup fresh)
  <2>1. these \cap fresh = {}
    OBVIOUS
  <2> QED BY <2>1, AppendKeeps
<1> QED BY <1>3, <1>4, WithoutKeeps

LEMMA UpdateCoreHolds ==
  ASSUME NEW these \in SUBSET State, NEW hs, Holds(hs, these),
         NEW fresh, NEW added, Keeps(added, fresh), fresh \cap these = {},
         NEW removed \in SUBSET (these \cup fresh),
         NEW current, current # NoState => current \in these
  PROVE  Holds(UpdateCore(hs, current, added, removed), (these \cup fresh) \ removed)
<1> DEFINE told == UpdateCore(hs, current, added, removed)
<1>1. DOMAIN told = Core
  BY DEF UpdateCore
<1>2. ASSUME NEW i \in Core, CoreSearch[i] = "random-path" PROVE told[i] = <<>>
  <2>1. hs[i] = <<>> /\ <<>> \in Seq(State)
    BY <1>2 DEF Holds
  <2>2. told[i] = UpdateKind("random-path", <<>>, current, added, removed)
    BY <1>2, <2>1 DEF UpdateCore
  <2> QED BY <2>1, <2>2 DEF UpdateKind
<1>3. ASSUME NEW i \in Core, CoreSearch[i] # "random-path"
      PROVE  Keeps(told[i], (these \cup fresh) \ removed)
  <2>1. Keeps(hs[i], these)
    BY <1>3 DEF Holds
  <2>2. told[i] = UpdateKind(CoreSearch[i], hs[i], current, added, removed)
    BY DEF UpdateCore
  <2> QED BY <1>3, <2>1, <2>2, UpdateHolds
<1> HIDE DEF told
<1>4. Holds(told, (these \cup fresh) \ removed)
  BY <1>1, <1>2, <1>3 DEF Holds
<1> QED BY <1>4 DEF told

\* A base searcher whose first core searcher is empty holds nothing.
LEMMA CoreEmptyHolds ==
  ASSUME NEW these, NEW hs, Holds(hs, these), CoreSearch \in Seq(Kinds), CoreSearch # <<>>,
         CoreSearch[1] # "random-path", CoreEmpty(hs)
  PROVE  these = {}
<1>1. 1 \in Core
  BY DEF Core
<1>2. Keeps(hs[1], these) /\ hs[1] = <<>>
  BY <1>1 DEF Holds, CoreEmpty
<1> QED BY <1>2, EmptyKeeps

LEMMA CoreNotEmptyHolds ==
  ASSUME NEW these, NEW hs, Holds(hs, these), CoreSearch \in Seq(Kinds), CoreSearch # <<>>,
         CoreSearch[1] # "random-path", ~CoreEmpty(hs)
  PROVE  these # {}
<1>1. 1 \in Core
  BY DEF Core
<1>2. Keeps(hs[1], these) /\ hs[1] # <<>>
  BY <1>1 DEF Holds, CoreEmpty
<1>3. Head(hs[1]) \in ToSet(hs[1])
  BY <1>2 DEF Keeps, ToSet
<1> QED BY <1>2, <1>3 DEF Keeps

-----------------------------------------------------------------------------
(* The steps.                                                              *)

\* The random-path searcher cannot be told of a pause (see SearchPaused.cfg).
NoPathUnderDeepening ==
  \A k \in Stacks :
    k.deepening => \A i \in DOMAIN k.core : k.core[i] # "random-path"

LEMMA StackFacts ==
  ASSUME TypeOK, NoPathUnderDeepening
  PROVE  /\ CoreSearch \in Seq(Kinds) /\ CoreSearch # <<>> /\ Core = DOMAIN CoreSearch
         /\ UseIterativeDeepening => \A i \in Core : CoreSearch[i] # "random-path"
         /\ 1 \in Core /\ Len(CoreSearch) \in Core
<1>1. stack \in Stacks
  BY DEF TypeOK
<1>2. CoreSearch \in Seq(Kinds) /\ CoreSearch # <<>>
  BY <1>1 DEF CoreSearch
<1>3. Core = DOMAIN CoreSearch
  BY <1>2 DEF Core
<1>4. 1 \in Core /\ Len(CoreSearch) \in Core
  BY <1>2 DEF Core
<1>5. UseIterativeDeepening => \A i \in Core : CoreSearch[i] # "random-path"
  BY <1>1, <1>3 DEF NoPathUnderDeepening, UseIterativeDeepening, CoreSearch
<1> QED BY <1>2, <1>3, <1>4, <1>5

LEMMA StackAtStart ==
  ASSUME NoPathUnderDeepening, Init
  PROVE  StackInv
<1>1. TypeOK
  <2>1. stack.core \in Seq(Kinds) /\ stack.core # <<>>
    BY DEF Init
  <2>2. 1 \in Core
    BY <2>1 DEF Core, CoreSearch
  <2> QED BY <2>2 DEF Init, TypeOK
<1>2. PICK order \in SetToSeqs(states) : held = UpdateCore([i \in Core |-> <<>>], NoState, order, {})
  BY DEF Init
<1>3. Holds([i \in Core |-> <<>>], {})
  BY EmptyKeeps DEF Holds
<1>4. states \in SUBSET State /\ Keeps(order, states)
  BY <1>1, OrderKeeps DEF TypeOK
<1>5. Holds(held, ({} \cup states) \ {})
  BY <1>2, <1>3, <1>4, UpdateCoreHolds
<1>6. paused = {} /\ ({} \cup states) \ {} = states \ paused
  BY DEF Init
<1> QED BY <1>1, <1>5, <1>6 DEF StackInv, Init

\* Every core searcher that could be asked has a state to return, and no paused one.
LEMMA CandidatesAre ==
  ASSUME StackInv, NoPathUnderDeepening, NEW i \in Core
  PROVE  /\ Candidates(i) \subseteq states \ paused
         /\ states # {} => Candidates(i) # {}
<1>1. CASE CoreSearch[i] = "random-path"
  <2>1. Candidates(i) = states
    BY <1>1 DEF Candidates
  <2>2. ~UseIterativeDeepening
    BY <1>1, StackFacts DEF StackInv
  <2> QED BY <2>1, <2>2 DEF StackInv
<1>2. CASE CoreSearch[i] # "random-path" /\ held[i] = <<>>
  <2>1. Candidates(i) = {}
    BY <1>2 DEF Candidates
  <2>2. states \ paused = {}
    BY <1>2, EmptyKeeps DEF StackInv, Holds
  <2> QED BY <2>1, <2>2 DEF StackInv
<1>3. CASE CoreSearch[i] # "random-path" /\ held[i] # <<>>
  <2>1. Keeps(held[i], states \ paused)
    BY <1>3 DEF StackInv, Holds
  <2>2. /\ Head(held[i]) \in ToSet(held[i]) /\ Last(held[i]) \in ToSet(held[i])
        /\ ToSet(held[i]) = states \ paused
    BY <1>3, <2>1 DEF Keeps, ToSet, Last
  <2>3. \/ Candidates(i) = {Head(held[i])} \/ Candidates(i) = {Last(held[i])}
        \/ Candidates(i) = ToSet(held[i])
    BY <1>3 DEF Candidates
  <2> QED BY <2>2, <2>3
<1> QED BY <1>1, <1>2, <1>3

\* A selection leaves the containers alone, and returns a state they hold.
LEMMA Selection ==
  ASSUME StackInv, NoPathUnderDeepening, SelectState
  PROVE  StackInv' /\ selected' \in states \ paused
<1>1. PICK s \in State : (Batched(s) \/ NewBatch(s)) /\ selected' = s
  BY DEF SelectState
<1>2. UNCHANGED <<stack, states, held, paused>>
  BY DEF SelectState
<1>3. /\ CoreSearch \in Seq(Kinds) /\ CoreSearch # <<>> /\ Core = DOMAIN CoreSearch
      /\ 1 \in Core /\ Len(CoreSearch) \in Core /\ index \in Core
  BY StackFacts DEF StackInv, TypeOK
<1>4. CASE Batched(s)
  <2>1. s \in states \ paused
    BY <1>4 DEF Batched, StackInv
  <2> QED BY <1>1, <1>2, <1>4, <2>1
          DEF StackInv, TypeOK, Batched, Holds, Core, CoreSearch, UseIterativeDeepening
<1>5. CASE NewBatch(s)
  <2>1. SelectKind(index, s) /\ index' = IF index = 1 THEN Len(CoreSearch) ELSE index - 1
    BY <1>5 DEF NewBatch, SelectCore
  <2>2. s \in states \ paused
    BY <1>3, <2>1, CandidatesAre DEF SelectKind
  <2>3. index' \in Core
    BY <1>3, <2>1 DEF Core
  <2>4. lastState' = IF UseBatchingSearch THEN s ELSE NoState
    BY <1>5 DEF NewBatch
  <2> QED BY <1>1, <1>2, <2>2, <2>3, <2>4
          DEF StackInv, TypeOK, Holds, Core, CoreSearch, UseIterativeDeepening
<1> QED BY <1>1, <1>4, <1>5

\* A state that is kept for the batch is still held by the base searcher.
LEMMA BatchStays ==
  ASSUME NEW gone, NEW these, lastState # NoState => lastState \in these
  PROVE  KeepBatch(gone) # NoState => KeepBatch(gone) = lastState /\ KeepBatch(gone) \in these \ gone
BY DEF KeepBatch

\* An update without deepening: the searchers are told all of it.
LEMMA PlainUpdate ==
  ASSUME StackInv, ~UseIterativeDeepening,
         NEW fresh \in SUBSET (State \ states), NEW removed \in SUBSET states,
         NEW added \in SetToSeqs(fresh), Update(added, removed)
  PROVE  StackInv'
<1> DEFINE now == (states \cup fresh) \ removed
<1>1. Keeps(added, fresh) /\ ToSet(added) = fresh
  BY OrderKeeps DEF Keeps
<1>2. /\ paused = {} /\ paused' = {} /\ selected \in states /\ selected' = NoState
      /\ held' = UpdateCore(held, selected, added, removed)
      /\ lastState' = KeepBatch(removed) /\ states' = now
      /\ UNCHANGED <<stack, index>>
  BY <1>1 DEF Update, StackInv
<1>3. Holds(held, states) /\ (lastState # NoState => lastState \in states)
  BY <1>2 DEF StackInv
<1>4. Holds(held', now)
  BY <1>1, <1>2, <1>3, UpdateCoreHolds DEF StackInv, TypeOK
<1>5. lastState' # NoState => lastState' \in now
  BY <1>2, <1>3, BatchStays
<1> HIDE DEF now
<1>6. now \in SUBSET State
  BY <1>2 DEF now, StackInv, TypeOK
<1>7. now # {} => now \ paused' # {}
  BY <1>2
<1> QED BY <1>2, <1>4, <1>5, <1>6, <1>7
        DEF StackInv, TypeOK, Holds, Core, CoreSearch, UseIterativeDeepening

\* Under deepening: what is paused is no longer held, and what is given back is
\* everything that was paused.
LEMMA PausingUpdate ==
  ASSUME StackInv, NoPathUnderDeepening, UseIterativeDeepening,
         NEW fresh \in SUBSET (State \ states), NEW removed \in SUBSET states,
         NEW added \in SetToSeqs(fresh), Update(added, removed)
  PROVE  StackInv'
<1> DEFINE now   == (states \cup fresh) \ removed
           told  == UpdateCore(held, selected, added, removed \ paused)
           base  == ((states \ paused) \cup fresh) \ (removed \ paused)
           still == StillPaused(removed)
<1>1. Keeps(added, fresh) /\ ToSet(added) = fresh
  BY OrderKeeps DEF Keeps
<1>2. /\ selected \in states \ paused /\ selected' = NoState /\ states' = now
      /\ paused \in SUBSET states /\ states \in SUBSET State
      /\ UNCHANGED <<stack, index>>
  BY <1>1 DEF Update, StackInv, TypeOK
<1>3. PICK pause \in (IF selected \in removed THEN {{}} ELSE {{}, {selected}}) :
        LET hs == IF pause = {} THEN told ELSE UpdateCore(told, NoState, <<>>, pause)
        IN IF CoreEmpty(hs)
           THEN /\ \E order \in SetToSeqs(still \cup pause) :
                     held' = UpdateCore(hs, NoState, order, {})
                /\ paused' = {}
                /\ lastState' = KeepBatch((removed \ paused) \cup pause)
           ELSE /\ held' = hs
                /\ paused' = still \cup pause
                /\ lastState' = KeepBatch((removed \ paused) \cup pause)
  BY DEF Update, DeepeningUpdate
<1> DEFINE hs == IF pause = {} THEN told ELSE UpdateCore(told, NoState, <<>>, pause)
<1>4. Holds(told, base)
  <2>1. Holds(held, states \ paused)
    BY DEF StackInv
  <2>2. states \ paused \in SUBSET State /\ fresh \cap (states \ paused) = {}
    BY <1>2
  <2>3. removed \ paused \in SUBSET ((states \ paused) \cup fresh)
    OBVIOUS
  <2> QED BY <1>1, <1>2, <2>1, <2>2, <2>3, UpdateCoreHolds
<1>5. base \in SUBSET State /\ pause \in SUBSET base /\ pause \in SUBSET {selected}
  BY <1>2
<1>6. now = base \cup still /\ base \cap still = {} /\ still \in SUBSET State
  BY <1>2 DEF StillPaused
<1>7. selected \in pause => selected \notin removed
  OBVIOUS
<1> HIDE DEF told, still, base, now
<1>8. Holds(hs, base \ pause)
  <2>1. CASE pause = {}
    <3>1. base \ pause = base
      BY <2>1
    <3> QED BY <1>4, <2>1, <3>1
  <2>2. CASE pause # {}
    <3>1. Keeps(<<>>, {}) /\ {} \cap base = {} /\ pause \in SUBSET (base \cup {})
      BY <1>5, EmptyKeeps
    <3>2. Holds(UpdateCore(told, NoState, <<>>, pause), (base \cup {}) \ pause)
      BY <1>4, <1>5, <3>1, UpdateCoreHolds
    <3>3. (base \cup {}) \ pause = base \ pause
      OBVIOUS
    <3> QED BY <2>2, <3>2, <3>3
  <2> QED BY <2>1, <2>2
<1>9. lastState' # NoState => lastState' \in base \ pause
  <2>1. lastState' = KeepBatch((removed \ paused) \cup pause)
    BY <1>3
  <2>2. lastState # NoState => lastState \in states \ paused
    BY DEF StackInv
  <2> QED BY <2>1, <2>2, BatchStays DEF base
<1> HIDE DEF hs
<1>10. Holds(held', now \ paused') /\ paused' \in SUBSET now
       /\ (lastState' # NoState => lastState' \in now \ paused')
       /\ (now # {} => now \ paused' # {})
  <2>1. CASE CoreEmpty(hs)
    <3>1. PICK order \in SetToSeqs(still \cup pause) : held' = UpdateCore(hs, NoState, order, {})
      BY <1>3, <2>1 DEF hs
    <3>2. paused' = {}
      BY <1>3, <2>1 DEF hs
    <3>3. base \ pause = {}
      BY <1>8, <2>1, CoreEmptyHolds, StackFacts DEF StackInv
    <3>4. Keeps(order, still \cup pause)
      BY <1>5, <1>6, OrderKeeps
    <3>5. Holds(hs, {})
      BY <1>8, <3>3
    <3>6. Holds(held', ({} \cup (still \cup pause)) \ {})
      BY <3>1, <3>4, <3>5, UpdateCoreHolds
    <3>7. ({} \cup (still \cup pause)) \ {} = now \ paused'
      BY <1>5, <1>6, <3>2, <3>3
    <3> QED BY <1>9, <3>2, <3>3, <3>6, <3>7
  <2>2. CASE ~CoreEmpty(hs)
    <3>1. held' = hs /\ paused' = still \cup pause
      BY <1>3, <2>2 DEF hs
    <3>2. base \ pause = now \ paused' /\ paused' \in SUBSET now
      BY <1>5, <1>6, <3>1
    <3>3. base \ pause # {}
      BY <1>8, <2>2, CoreNotEmptyHolds, StackFacts DEF StackInv
    <3> QED BY <1>8, <1>9, <3>1, <3>2, <3>3
  <2> QED BY <2>1, <2>2
<1>11. now \in SUBSET State
  BY <1>5, <1>6
<1> QED BY <1>2, <1>10, <1>11
        DEF StackInv, TypeOK, Holds, Core, CoreSearch, UseIterativeDeepening

-----------------------------------------------------------------------------
(* The theorems.                                                           *)

LEMMA StackStep ==
  ASSUME NoPathUnderDeepening, StackInv, [Next]_vars
  PROVE  StackInv' /\ [S!Next]_<<states, selected>>
<1>1. CASE SelectState
  <2>1. StackInv' /\ selected' \in states \ paused
    BY <1>1, Selection
  <2> QED BY <1>1, <2>1 DEF SelectState, S!Next, S!SelectState
<1>2. ASSUME NEW fresh \in SUBSET (State \ states), NEW removed \in SUBSET states,
             NEW added \in SetToSeqs(fresh), Update(added, removed)
      PROVE  StackInv' /\ [S!Next]_<<states, selected>>
  <2>1. StackInv'
    BY <1>2, PlainUpdate, PausingUpdate
  <2>2. ToSet(added) = fresh
    BY OrderKeeps DEF Keeps
  <2>3. S!Update(fresh, removed)
    BY <1>2, <2>2 DEF Update, S!Update
  <2> QED BY <2>1, <2>3 DEF S!Next
<1>3. CASE UNCHANGED vars
  BY <1>3 DEF vars, StackInv, TypeOK, Holds, Core, CoreSearch, UseIterativeDeepening
<1> QED BY <1>1, <1>2, <1>3 DEF Next

\* The searchers hold exactly the states that are not paused, and what is
\* selected, batched or paused is a state of the executor: Searcher.cpp's
\* containers and Executor::states never come apart.
THEOREM StackInductive ==
  ASSUME NoPathUnderDeepening
  PROVE  Spec => []StackInv
<1>1. Init => StackInv
  BY StackAtStart
<1>2. StackInv /\ [Next]_vars => StackInv'
  BY StackStep
<1> QED BY <1>1, <1>2, PTL DEF Spec

\* No sequence of selections, forks, terminations and pauses loses a state or
\* makes a searcher hold one twice, or lets a batch go on with a dead one.
THEOREM ContainersFollow ==
  ASSUME NoPathUnderDeepening
  PROVE  Spec => []HoldsTheStates
<1>1. StackInv => HoldsTheStates
  BY DEF StackInv, TypeOK, Holds, Keeps, HoldsTheStates
<1> QED BY <1>1, StackInductive, PTL

\* The assertions of DiscretePDF.inc and Searcher.cpp on the states they are
\* told to update or remove are never met.
THEOREM AssertionsHold ==
  ASSUME NoPathUnderDeepening
  PROVE  Spec => []NoAssertFails
<1>1. StackInv => NoAssertFails
  <2> SUFFICES ASSUME StackInv, NEW i \in Core PROVE held[i] # Failed
    BY DEF NoAssertFails, AssertFailed
  <2>1. <<>> \in Seq(State)
    OBVIOUS
  <2>2. held[i] \in Seq(State)
    BY <2>1 DEF StackInv, Holds, Keeps
  <2> QED BY <2>2
<1> QED BY <1>1, StackInductive, PTL

\* As long as there are states, selectState of the searcher whose turn it is
\* finds its container filled and returns a state that is not paused.
THEOREM AlwaysSelectable ==
  ASSUME NoPathUnderDeepening
  PROVE  Spec => []NeverStuck
<1>1. StackInv => NeverStuck
  <2> SUFFICES ASSUME StackInv PROVE NeverStuck
    OBVIOUS
  <2>1. index \in Core
    BY DEF StackInv, TypeOK
  <2> QED BY <2>1, CandidatesAre DEF NeverStuck
<1> QED BY <1>1, StackInductive, PTL

\* Whatever searchers are stacked, the run loop sees one that returns states it
\* was told of and has not been told to forget.
THEOREM StackIsSearcher ==
  ASSUME NoPathUnderDeepening
  PROVE  Spec => IsSearcher
<1>1. Init => S!Init
  BY StackAtStart DEF Init, StackInv, TypeOK, S!Init
<1>2. StackInv /\ [Next]_vars => [S!Next]_<<states, selected>>
  BY StackStep
<1> QED BY <1>1, <1>2, StackInductive, PTL DEF Spec, IsSearcher, S!Spec

=============================================================================
