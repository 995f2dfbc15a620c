-------------------------- MODULE ExecutorTreeProofs --------------------------
(***************************************************************************)
(* The process tree and the states agree, for every set of states and any  *)
(* flags: lemmas about prefixes, then about PTree's split and remove on a  *)
(* tree that matches a set of states, then the steps of the run loop.      *)
(***************************************************************************)
EXTENDS ExecutorTree, ExecutorStatesProofs

Ways == Seq({"left", "right"})

-----------------------------------------------------------------------------
(* Ways from the root.                                                     *)

\* A prefix agrees with the longer way as far as it goes.
LEMMA PrefixIs ==
  ASSUME NEW m \in Ways, NEW n \in Ways
  PROVE  IsPrefix(m, n) <=> Len(m) <= Len(n) /\ \A i \in 1..Len(m) : m[i] = n[i]
<1>1. SubSeq(m, 1, Len(m)) = m
  BY DEF Ways
<1>2. ASSUME Len(m) <= Len(n)
      PROVE  /\ SubSeq(n, 1, Len(m)) \in Ways
             /\ Len(SubSeq(n, 1, Len(m))) = Len(m)
             /\ \A i \in 1..Len(m) : SubSeq(n, 1, Len(m))[i] = n[i]
  BY <1>2 DEF Ways
<1>3. ASSUME Len(m) <= Len(n), \A i \in 1..Len(m) : m[i] = n[i]
      PROVE  m = SubSeq(n, 1, Len(m))
  <2> DEFINE q == SubSeq(n, 1, Len(m))
  <2>1. q \in Ways /\ Len(q) = Len(m) /\ \A i \in 1..Len(m) : q[i] = m[i]
    BY <1>2, <1>3
  <2> HIDE DEF q
  <2>2. m = q
    BY <2>1 DEF Ways
  <2> QED BY <2>2 DEF q
<1> QED BY <1>1, <1>2, <1>3 DEF IsPrefix

LEMMA PrefixReflexive ==
  ASSUME NEW n \in Ways
  PROVE  IsPrefix(n, n)
BY PrefixIs DEF Ways

LEMMA PrefixTransitive ==
  ASSUME NEW a \in Ways, NEW b \in Ways, NEW c \in Ways,
         IsPrefix(a, b), IsPrefix(b, c)
  PROVE  IsPrefix(a, c)
<1>1. Len(a) \in Nat /\ Len(b) \in Nat /\ Len(c) \in Nat
  BY DEF Ways
<1> QED BY <1>1, PrefixIs

\* A longer way goes on to the left or to the right.
LEMMA PrefixGoesOn ==
  ASSUME NEW m \in Ways, NEW n \in Ways, IsPrefix(m, n), m # n
  PROVE  IsPrefix(LeftOf(m), n) \/ IsPrefix(RightOf(m), n)
<1>1. Len(m) <= Len(n) /\ \A i \in 1..Len(m) : m[i] = n[i]
  BY PrefixIs
<1>2. Len(m) \in Nat /\ Len(n) \in Nat
  BY DEF Ways
<1>3. Len(m) # Len(n)
  BY <1>1 DEF Ways
<1>4. n[Len(m) + 1] \in {"left", "right"}
  BY <1>1, <1>2, <1>3 DEF Ways
<1>5. ASSUME NEW d \in {"left", "right"}, n[Len(m) + 1] = d
      PROVE  IsPrefix(Append(m, d), n)
  <2>1. /\ Append(m, d) \in Ways /\ Len(Append(m, d)) = Len(m) + 1
        /\ Append(m, d)[Len(m) + 1] = d
        /\ \A i \in 1..Len(m) : Append(m, d)[i] = m[i]
    BY DEF Ways
  <2>2. Len(m) + 1 <= Len(n)
    BY <1>1, <1>2, <1>3
  <2>3. \A i \in 1..(Len(m) + 1) : Append(m, d)[i] = n[i]
    BY <1>1, <1>2, <1>5, <2>1
  <2> QED BY <2>1, <2>2, <2>3, PrefixIs
<1> QED BY <1>4, <1>5 DEF LeftOf, RightOf

\* What leads to a child is the child or leads to its parent.
LEMMA PrefixOfChild ==
  ASSUME NEW m \in Ways, NEW n \in Ways, NEW d \in {"left", "right"},
         IsPrefix(m, Append(n, d))
  PROVE  m = Append(n, d) \/ IsPrefix(m, n)
<1>1. /\ Append(n, d) \in Ways /\ Len(Append(n, d)) = Len(n) + 1
      /\ \A i \in 1..Len(n) : Append(n, d)[i] = n[i]
  BY DEF Ways
<1>2. Len(m) <= Len(n) + 1 /\ \A i \in 1..Len(m) : m[i] = Append(n, d)[i]
  BY <1>1, PrefixIs
<1>3. Len(m) \in Nat /\ Len(n) \in Nat
  BY DEF Ways
<1>4. CASE Len(m) = Len(n) + 1
  BY <1>1, <1>2, <1>4 DEF Ways
<1>5. CASE Len(m) <= Len(n)
  <2>1. \A i \in 1..Len(m) : m[i] = n[i]
    BY <1>1, <1>2, <1>3, <1>5
  <2> QED BY <1>5, <2>1, PrefixIs
<1> QED BY <1>2, <1>3, <1>4, <1>5

\* The children of a node are two nodes below it.
LEMMA ChildOf ==
  ASSUME NEW n \in Ways
  PROVE  /\ LeftOf(n) \in Ways /\ RightOf(n) \in Ways
         /\ IsPrefix(n, LeftOf(n)) /\ IsPrefix(n, RightOf(n))
         /\ n # LeftOf(n) /\ n # RightOf(n) /\ LeftOf(n) # RightOf(n)
<1>1. ASSUME NEW d \in {"left", "right"}
      PROVE  /\ Append(n, d) \in Ways /\ Len(Append(n, d)) = Len(n) + 1
             /\ Append(n, d)[Len(n) + 1] = d
             /\ \A i \in 1..Len(n) : n[i] = Append(n, d)[i]
  BY DEF Ways
<1>2. Len(n) \in Nat
  BY DEF Ways
<1>3. ASSUME NEW d \in {"left", "right"}
      PROVE  IsPrefix(n, Append(n, d)) /\ n # Append(n, d)
  <2>1. n # Append(n, d)
    BY <1>1, <1>2
  <2>2. Append(n, d) \in Ways /\ Len(n) <= Len(Append(n, d))
    BY <1>1, <1>2
  <2>3. \A i \in 1..Len(n) : n[i] = Append(n, d)[i]
    BY <1>1
  <2> QED BY <2>1, <2>2, <2>3, PrefixIs
<1>4. Append(n, "left") # Append(n, "right")
  <2>1. Append(n, "left")[Len(n) + 1] = "left" /\ Append(n, "right")[Len(n) + 1] = "right"
    BY <1>1
  <2> QED BY <2>1
<1>5. "left" \in {"left", "right"} /\ "right" \in {"left", "right"}
  OBVIOUS
<1> QED BY <1>1, <1>3, <1>4, <1>5 DEF LeftOf, RightOf

\* Two nodes have no child in common.
LEMMA ParentOf ==
  ASSUME NEW m \in Ways, NEW n \in Ways,
         NEW d \in {"left", "right"}, NEW e \in {"left", "right"},
         Append(m, d) = Append(n, e)
  PROVE  m = n
<1>1. /\ Len(Append(m, d)) = Len(m) + 1 /\ \A i \in 1..Len(m) : Append(m, d)[i] = m[i]
      /\ Len(Append(n, e)) = Len(n) + 1 /\ \A i \in 1..Len(n) : Append(n, e)[i] = n[i]
  BY DEF Ways
<1>2. Len(m) \in Nat /\ Len(n) \in Nat
  BY DEF Ways
<1>3. Len(m) = Len(n)
  BY <1>1, <1>2
<1>4. \A i \in 1..Len(m) : m[i] = n[i]
  BY <1>1, <1>3
<1> QED BY <1>3, <1>4 DEF Ways

-----------------------------------------------------------------------------
(* A tree T whose leaves carry the states of L, at the nodes p.            *)

Grounded(T) ==
  /\ DOMAIN T \subseteq Ways
  /\ \A n \in DOMAIN T : \A m \in Ways : IsPrefix(m, n) => m \in DOMAIN T

Matches(T, L, p) ==
  /\ \A s \in L : IsLeafOf(T, p[s]) /\ T[p[s]] = s
  /\ \A n \in DOMAIN T : IF T[n] = NoData THEN Children(T, n) # {}
                                          ELSE T[n] \in L /\ p[T[n]] = n

\* No node lies below one that has no child.
LEMMA LeafEnds ==
  ASSUME NEW T, Grounded(T), NEW n \in DOMAIN T, Children(T, n) = {},
         NEW m \in DOMAIN T, IsPrefix(n, m)
  PROVE  m = n
<1> SUFFICES ASSUME m # n PROVE FALSE
  OBVIOUS
<1>1. n \in Ways /\ m \in Ways
  BY DEF Grounded
<1>2. IsPrefix(LeftOf(n), m) \/ IsPrefix(RightOf(n), m)
  BY <1>1, PrefixGoesOn
<1>3. LeftOf(n) \in Ways /\ RightOf(n) \in Ways
  BY <1>1, ChildOf
<1> QED BY <1>2, <1>3 DEF Grounded, Children

\* PTree::split at the leaf of s: the tree carries s and the new state t.
LEMMA SplitKeeps ==
  ASSUME NEW T, NEW L, NEW p, Grounded(T), Matches(T, L, p), NoData \notin L,
         NEW s \in L, NEW t, t \notin L, t # NoData,
         NEW left, NEW right, {left, right} = {s, t}, NEW q,
         \A x \in L \cup {t} : q[x] = IF x = left THEN LeftOf(p[s])
                                      ELSE IF x = right THEN RightOf(p[s])
                                      ELSE p[x]
  PROVE  LET U == SplitNode(T, p[s], left, right)
         IN Grounded(U) /\ Matches(U, L \cup {t}, q)
<1> DEFINE n == p[s]
           U == SplitNode(T, n, left, right)
<1>1. n \in DOMAIN T /\ n \in Ways /\ Children(T, n) = {} /\ T[n] = s
  BY DEF Matches, Grounded, IsLeafOf
<1>2. /\ LeftOf(n) \in Ways /\ RightOf(n) \in Ways
      /\ IsPrefix(n, LeftOf(n)) /\ IsPrefix(n, RightOf(n))
      /\ n # LeftOf(n) /\ n # RightOf(n) /\ LeftOf(n) # RightOf(n)
  BY <1>1, ChildOf
<1>3. LeftOf(n) \notin DOMAIN T /\ RightOf(n) \notin DOMAIN T
  BY <1>1 DEF Children
<1>4. /\ DOMAIN U = DOMAIN T \cup {LeftOf(n), RightOf(n)}
      /\ U[LeftOf(n)] = left /\ U[RightOf(n)] = right /\ U[n] = NoData
      /\ \A m \in DOMAIN T \ {n} : U[m] = T[m]
  BY <1>1, <1>2, <1>3 DEF SplitNode
<1>5. left # right /\ left # NoData /\ right # NoData
  OBVIOUS
<1> HIDE DEF n, U
<1>6. Grounded(U)
  <2> SUFFICES ASSUME NEW k \in DOMAIN U, NEW m \in Ways, IsPrefix(m, k)
               PROVE  m \in DOMAIN U
    BY <1>2, <1>4 DEF Grounded
  <2>1. CASE k \in DOMAIN T
    BY <1>4, <2>1 DEF Grounded
  <2>2. CASE k \in {LeftOf(n), RightOf(n)}
    <3>1. m = k \/ IsPrefix(m, n)
      <4>1. PICK d \in {"left", "right"} : k = Append(n, d)
        BY <2>2 DEF LeftOf, RightOf
      <4> QED BY <1>1, <4>1, PrefixOfChild
    <3> QED BY <1>1, <1>4, <2>2, <3>1 DEF Grounded
  <2> QED BY <1>4, <2>1, <2>2
\* A node that has no child yet, and is not n, gets none.
<1>7. ASSUME NEW m \in DOMAIN T, m # n
      PROVE  Children(U, m) = Children(T, m)
  <2>1. m \in Ways
    BY DEF Grounded
  <2>2. LeftOf(m) \notin {LeftOf(n), RightOf(n)} /\ RightOf(m) \notin {LeftOf(n), RightOf(n)}
    BY <1>1, <1>7, <2>1, ParentOf DEF LeftOf, RightOf
  <2> QED BY <1>4, <2>2 DEF Children
\* A child of one of the two new leaves would go over that leaf.
<1>8. Children(U, LeftOf(n)) = {} /\ Children(U, RightOf(n)) = {}
  <2>1. ASSUME NEW c \in {LeftOf(n), RightOf(n)}, NEW k \in {LeftOf(c), RightOf(c)}
        PROVE  k \notin DOMAIN U
    <3>1. c \in Ways /\ k \in Ways /\ IsPrefix(c, k) /\ c # n
      BY <1>2, <2>1, ChildOf
    <3>2. k \notin DOMAIN T
      BY <1>3, <2>1, <3>1 DEF Grounded
    <3>3. k \notin {LeftOf(n), RightOf(n)}
      BY <1>1, <2>1, <3>1, ParentOf DEF LeftOf, RightOf
    <3> QED BY <1>4, <3>2, <3>3
  <2> QED BY <2>1 DEF Children
<1>9. ASSUME NEW x \in L \cup {t}
      PROVE  IsLeafOf(U, q[x]) /\ U[q[x]] = x
  <2>1. CASE x \in {left, right}
    BY <1>4, <1>5, <1>8, <2>1 DEF IsLeafOf, n
  <2>2. CASE x \notin {left, right}
    <3>1. x \in L /\ x # s /\ q[x] = p[x]
      BY <2>2
    <3>2. p[x] \in DOMAIN T /\ Children(T, p[x]) = {} /\ T[p[x]] = x
      BY <3>1 DEF Matches, IsLeafOf
    <3>3. p[x] # n
      BY <1>1, <3>1, <3>2
    <3> QED BY <1>4, <1>7, <3>1, <3>2, <3>3 DEF IsLeafOf
  <2> QED BY <2>1, <2>2
<1>10. ASSUME NEW m \in DOMAIN U
       PROVE  IF U[m] = NoData THEN Children(U, m) # {}
                               ELSE U[m] \in L \cup {t} /\ q[U[m]] = m
  <2>1. CASE m = n
    BY <1>4, <2>1 DEF Children
  <2>2. CASE m \in {LeftOf(n), RightOf(n)}
    BY <1>4, <1>5, <2>2 DEF n
  <2>3. CASE m \in DOMAIN T \ {n}
    <3>1. U[m] = T[m] /\ Children(U, m) = Children(T, m)
      BY <1>4, <1>7, <2>3
    <3>2. IF T[m] = NoData THEN Children(T, m) # {} ELSE T[m] \in L /\ p[T[m]] = m
      BY <2>3 DEF Matches
    <3>3. ASSUME T[m] # NoData PROVE q[T[m]] = m
      BY <2>3, <3>2, <3>3 DEF n
    <3> QED BY <3>1, <3>2, <3>3
  <2> QED BY <1>4, <2>1, <2>2, <2>3
<1> QED BY <1>6, <1>9, <1>10 DEF Matches, U, n

\* PTree::remove of the leaves of D: the tree carries the other states.
LEMMA RemoveKeeps ==
  ASSUME NEW T, NEW L, NEW p, Grounded(T), Matches(T, L, p), NoData \notin L,
         NEW D \in SUBSET L, NEW q, \A x \in L \ D : q[x] = p[x]
  PROVE  LET U == RemoveNodes(T, {p[x] : x \in D})
         IN Grounded(U) /\ Matches(U, L \ D, q)
<1> DEFINE N == {p[x] : x \in D}
           U == RemoveNodes(T, N)
           Stays(m) == \E k \in DOMAIN T : IsPrefix(m, k) /\ \A n \in N : ~IsPrefix(k, n)
<1>1. /\ DOMAIN U = {m \in DOMAIN T : Stays(m)}
      /\ \A m \in DOMAIN U : U[m] = T[m]
  BY DEF RemoveNodes
<1>2. \A n \in N : n \in DOMAIN T /\ Children(T, n) = {} /\ T[n] \in D
  BY DEF Matches, IsLeafOf
<1>3. \A n \in DOMAIN T : n \in Ways
  BY DEF Grounded
<1> HIDE DEF N, U
<1>4. Grounded(U)
  <2> SUFFICES ASSUME NEW n \in DOMAIN U, NEW m \in Ways, IsPrefix(m, n)
               PROVE  m \in DOMAIN U
    BY <1>1, <1>3 DEF Grounded
  <2>1. m \in DOMAIN T
    BY <1>1 DEF Grounded
  <2>2. PICK k \in DOMAIN T : IsPrefix(n, k) /\ \A x \in N : ~IsPrefix(k, x)
    BY <1>1
  <2>3. IsPrefix(m, k)
    BY <1>1, <1>3, <2>2, PrefixTransitive
  <2> QED BY <1>1, <2>1, <2>2, <2>3
<1>5. ASSUME NEW s \in L \ D
      PROVE  IsLeafOf(U, q[s]) /\ U[q[s]] = s
  <2>1. q[s] \in DOMAIN T /\ Children(T, q[s]) = {} /\ T[q[s]] = s
    BY DEF Matches, IsLeafOf
  <2>2. \A n \in N : ~IsPrefix(q[s], n)
    BY <1>2, <2>1, LeafEnds
  <2>3. IsPrefix(q[s], q[s])
    BY <1>3, <2>1, PrefixReflexive
  <2> QED BY <1>1, <2>1, <2>2, <2>3 DEF IsLeafOf, Children
<1>6. ASSUME NEW n \in DOMAIN U
      PROVE  IF U[n] = NoData THEN Children(U, n) # {}
                              ELSE U[n] \in L \ D /\ q[U[n]] = n
  <2>1. n \in DOMAIN T /\ U[n] = T[n] /\ n \in Ways
    BY <1>1, <1>3
  <2>2. PICK k \in DOMAIN T : IsPrefix(n, k) /\ \A x \in N : ~IsPrefix(k, x)
    BY <1>1
  <2>3. k \in Ways
    BY <1>3
  <2>4. CASE T[n] = NoData
    <3>1. PICK c \in {LeftOf(n), RightOf(n)} :
            c \in DOMAIN T /\ \E j \in DOMAIN T : IsPrefix(c, j) /\ \A x \in N : ~IsPrefix(j, x)
      <4>1. CASE k = n
        <5>1. PICK c \in {LeftOf(n), RightOf(n)} : c \in DOMAIN T
          BY <2>1, <2>4 DEF Matches, Children
        <5>2. IsPrefix(n, c) /\ IsPrefix(c, c) /\ c \in Ways
          BY <1>3, <2>1, <5>1, ChildOf, PrefixReflexive
        <5>3. \A x \in N : ~IsPrefix(c, x)
          BY <1>2, <1>3, <2>1, <2>2, <4>1, <5>2, PrefixTransitive
        <5> QED BY <5>1, <5>2, <5>3
      <4>2. CASE k # n
        <5>1. PICK c \in {LeftOf(n), RightOf(n)} : IsPrefix(c, k)
          BY <2>1, <2>2, <2>3, <4>2, PrefixGoesOn
        <5>2. c \in DOMAIN T
          BY <2>1, <5>1, ChildOf DEF Grounded
        <5> QED BY <2>2, <5>1, <5>2
      <4> QED BY <4>1, <4>2
    <3>2. c \in DOMAIN U
      BY <1>1, <3>1
    <3> QED BY <2>1, <2>4, <3>1, <3>2 DEF Children
  <2>5. CASE T[n] # NoData
    <3>1. T[n] \in L /\ p[T[n]] = n
      BY <2>1, <2>5 DEF Matches
    <3>2. Children(T, n) = {}
      BY <3>1 DEF Matches, IsLeafOf
    <3>3. k = n
      BY <2>1, <2>2, <3>2, LeafEnds
    <3>4. n \notin N
      BY <2>1, <2>2, <3>3, PrefixReflexive
    <3>5. T[n] \notin D
      BY <3>1, <3>4 DEF N
    <3> QED BY <2>1, <2>5, <3>1, <3>5
  <2> QED BY <2>4, <2>5
<1> QED BY <1>4, <1>5, <1>6 DEF Matches, U, N

-----------------------------------------------------------------------------
(* The steps of the run loop.                                              *)

\* A way is a node when it is the beginning of the way to a node.
LEMMA GroundedIs ==
  ASSUME NEW T
  PROVE  Grounded(T) <=>
           /\ DOMAIN T \subseteq Seq({"left", "right"})
           /\ \A n \in DOMAIN T : \A i \in 0..Len(n) : SubSeq(n, 1, i) \in DOMAIN T
<1>1. ASSUME NEW n \in Ways, NEW i \in 0..Len(n)
      PROVE  SubSeq(n, 1, i) \in Ways /\ IsPrefix(SubSeq(n, 1, i), n)
  <2>1. /\ SubSeq(n, 1, i) \in Ways /\ Len(SubSeq(n, 1, i)) = i
        /\ \A j \in 1..i : SubSeq(n, 1, i)[j] = n[j]
    BY DEF Ways
  <2>2. Len(n) \in Nat
    BY DEF Ways
  <2> DEFINE q == SubSeq(n, 1, i)
  <2>3. q \in Ways /\ Len(q) = i /\ \A j \in 1..i : q[j] = n[j]
    BY <2>1
  <2> HIDE DEF q
  <2>4. IsPrefix(q, n)
    BY <2>2, <2>3, PrefixIs
  <2> QED BY <2>3, <2>4 DEF q
<1>2. ASSUME NEW n \in Ways, NEW m \in Ways, IsPrefix(m, n)
      PROVE  Len(m) \in 0..Len(n) /\ m = SubSeq(n, 1, Len(m))
  <2>1. SubSeq(m, 1, Len(m)) = m /\ Len(m) \in Nat /\ Len(n) \in Nat
    BY DEF Ways
  <2> QED BY <1>2, <2>1 DEF IsPrefix
<1> QED BY <1>1, <1>2 DEF Grounded, Ways

LEMMA TreeInvIs ==
  /\ TreeInv <=> /\ Grounded(tree) /\ DOMAIN ptreeNode = Live
                 /\ Matches(tree, Live, ptreeNode)
  /\ TreeInv' <=> /\ Grounded(tree') /\ DOMAIN (ptreeNode') = Live'
                  /\ Matches(tree', Live', ptreeNode')
BY GroundedIs DEF TreeInv, TreeMatchesStates, Matches

\* Only fork and branch bring a new state to life.
LEMMA LiveShrinks ==
  ASSUME IInv, OtherStep \/ Interrupt \/ UNCHANGED vars
  PROVE  Live' \subseteq Live
<1>1. ASSUME NEW T, NEW seeds, Terminate(T, addedStates, seeds), UNCHANGED states
      PROVE  Live' \subseteq Live
  BY <1>1 DEF Terminate, Live
<1>2. CASE UNCHANGED <<states, addedStates>>
  BY <1>2 DEF Live
<1>3. CASE ApplyUpdate
  BY <1>3 DEF ApplyUpdate, Live
<1>4. ASSUME NEW s \in State,
             \/ SelectDuplicate(s) \/ SelectInvalidPath(s) \/ TerminateActive(s)
             \/ DumpState(s)
      PROVE  Live' \subseteq Live
  BY <1>1, <1>4 DEF SelectDuplicate, SelectInvalidPath, TerminateActive, DumpState
<1>5. ASSUME NEW s \in State,
             Select(s) \/ SeedSelect(s) \/ (\E n \in 2..MaxConditions : Branch(s, n))
      PROVE  Live' \subseteq Live
  BY <1>2, <1>5 DEF Select, SeedSelect, Branch
<1>6. ASSUME NEW s \in State, BranchInhibited(s)
      PROVE  Live' \subseteq Live
  BY <1>1, <1>6 DEF BranchInhibited
<1>7. CASE BranchSeeds
  BY <1>1, <1>7 DEF BranchSeeds
<1>8. CASE TimerKill \/ (\E K \in SUBSET states : MemoryKill(K))
  BY <1>1, <1>8 DEF TimerKill, MemoryKill
<1>9. CASE UpdateStates \/ DumpDone
  BY <1>2, <1>3, <1>9 DEF UpdateStates, DumpDone
<1>10. CASE \/ SeedingDone \/ LeaveLoop \/ EndInstruction \/ Timers \/ CheckMemory
            \/ UpdateAssertFails \/ Interrupt \/ UNCHANGED vars
  BY <1>2, <1>10 DEF SeedingDone, LeaveLoop, EndInstruction, Timers, CheckMemory,
       UpdateAssertFails, Interrupt, vars
<1> QED
  BY <1>4, <1>5, <1>6, <1>7, <1>8, <1>9, <1>10 DEF OtherStep

\* Fork and branch split a live state into itself and a new one.
LEMMA LiveSplits ==
  ASSUME IInv, NEW s \in State, NEW t \in State, Fork(s, t) \/ BranchFork(s, t)
  PROVE  s \in Live /\ t \notin Live /\ Live' \subseteq Live \cup {t}
<1>1. s \in Live /\ t \notin Live
  BY DEF Fork, BranchFork, IInv, QueueInv, LoopInv, InIteration, Active, Live
<1>2. CASE BranchFork(s, t)
  BY <1>1, <1>2 DEF BranchFork, Live
<1>3. CASE Fork(s, t)
  BY <1>1, <1>3 DEF Fork, Terminate, Live
<1> QED BY <1>1, <1>2, <1>3

\* The two sides of a fork take the two children, whichever way round.
LEMMA SplitTreeKeeps ==
  ASSUME IInv, TreeInv, NEW s \in State, NEW t \in State,
         Fork(s, t) \/ BranchFork(s, t),
         NEW left, NEW right, {left, right} = {s, t}, SplitTree(s, t, left, right)
  PROVE  TreeInv'
<1> DEFINE n     == ptreeNode[s]
           split == SplitNode(tree, n, left, right)
           nodes == [x \in Live \cup {t} |-> IF x = left THEN LeftOf(n)
                                             ELSE IF x = right THEN RightOf(n)
                                             ELSE ptreeNode[x]]
           All   == Live \cup {t}
<1>1. s \in Live /\ t \notin Live /\ Live' \subseteq All
  BY LiveSplits
<1>2. NoData \notin Live /\ t # NoData
  BY TreeAssumption DEF Live, IInv, TypeOK
<1>3. Grounded(tree) /\ Matches(tree, Live, ptreeNode)
  BY TreeInvIs
<1>4. Grounded(split) /\ Matches(split, All, nodes)
  <2>1. \A x \in All : nodes[x] = IF x = left THEN LeftOf(ptreeNode[s])
                                  ELSE IF x = right THEN RightOf(ptreeNode[s])
                                  ELSE ptreeNode[x]
    OBVIOUS
  <2> HIDE DEF nodes
  <2> QED BY <1>1, <1>2, <1>3, <2>1, SplitKeeps
<1>5. /\ tree' = RemoveNodes(split, {nodes[x] : x \in Deleted(t)})
      /\ ptreeNode' = [x \in Live' |-> nodes[x]]
  BY DEF SplitTree
<1>6. Deleted(t) = All \ Live'
  BY DEF Deleted
<1> HIDE DEF n, split, nodes
<1>7. NoData \notin All /\ Deleted(t) \in SUBSET All /\ All \ Deleted(t) = Live'
  BY <1>1, <1>2, <1>6
<1>8. \A x \in All \ Deleted(t) : (ptreeNode')[x] = nodes[x]
  BY <1>5, <1>7
<1> HIDE DEF All
<1>9. Grounded(tree') /\ Matches(tree', Live', ptreeNode')
  BY <1>4, <1>5, <1>7, <1>8, RemoveKeeps
<1> QED BY <1>5, <1>9, TreeInvIs

\* A step of the loop with its tree is a step of the loop.
LEMMA TreeStepIsStep == [TreeNext]_treeVars => [Next]_vars
BY DEF TreeNext, TreeFork, TreeBranchFork, TreeOther, treeVars, Next, Step, SplitStep

LEMMA TreeInvStep == IInv /\ TreeInv /\ [TreeNext]_treeVars => TreeInv'
<1> SUFFICES ASSUME IInv, TreeInv, [TreeNext]_treeVars PROVE TreeInv'
  OBVIOUS
<1>1. ASSUME NEW s \in State, NEW t \in State, TreeFork(s, t) PROVE TreeInv'
  <2>1. Fork(s, t) /\ (SplitTree(s, t, t, s) \/ SplitTree(s, t, s, t))
    BY <1>1 DEF TreeFork
  <2> QED BY <2>1, SplitTreeKeeps
<1>2. ASSUME NEW s \in State, NEW t \in State, TreeBranchFork(s, t) PROVE TreeInv'
  <2>1. BranchFork(s, t) /\ SplitTree(s, t, t, s)
    BY <1>2 DEF TreeBranchFork
  <2> QED BY <2>1, SplitTreeKeeps
<1>3. CASE TreeOther
  <2> DEFINE D == Live \ Live'
  <2>1. OtherStep \/ Interrupt
    BY <1>3 DEF TreeOther
  <2>2. Live \ D = Live' /\ NoData \notin Live
    BY <2>1, LiveShrinks, TreeAssumption DEF Live, IInv, TypeOK
  <2>3. Grounded(tree) /\ Matches(tree, Live, ptreeNode)
    BY TreeInvIs
  <2>4. /\ tree' = RemoveNodes(tree, {ptreeNode[x] : x \in D})
        /\ ptreeNode' = [x \in Live' |-> ptreeNode[x]]
    BY <1>3 DEF TreeOther
  <2>5. D \in SUBSET Live
    OBVIOUS
  <2> HIDE DEF D
  <2>6. \A x \in Live \ D : (ptreeNode')[x] = ptreeNode[x]
    BY <2>2, <2>4
  <2> DEFINE U == RemoveNodes(tree, {ptreeNode[x] : x \in D})
  <2>7. Grounded(U) /\ Matches(U, Live \ D, ptreeNode')
    BY <2>2, <2>3, <2>5, <2>6, RemoveKeeps
  <2> HIDE DEF U
  <2>8. tree' = U
    BY <2>4 DEF U
  <2> QED BY <2>2, <2>4, <2>7, <2>8, TreeInvIs
<1>4. CASE UNCHANGED treeVars
  BY <1>4 DEF treeVars, vars, TreeInv, TreeMatchesStates, Live
<1> QED BY <1>1, <1>2, <1>3, <1>4 DEF TreeNext

LEMMA TreeInitInv == TreeInit => TreeInv
<1> SUFFICES ASSUME TreeInit PROVE TreeInv
  OBVIOUS
<1>1. /\ Live = {InitialState} /\ ptreeNode = [s \in {InitialState} |-> Root]
      /\ tree = [n \in {Root} |-> InitialState]
  BY DEF TreeInit, Init, Live, NewTree
<1>2. Root \in Ways /\ Len(Root) = 0
  BY DEF Root, Ways
<1>3. Grounded(tree)
  <2> SUFFICES ASSUME NEW m \in Ways, IsPrefix(m, Root) PROVE m = Root
    BY <1>1, <1>2 DEF Grounded
  <2>1. Len(m) <= 0
    BY <1>2, PrefixIs
  <2>2. Len(m) = 0
    BY <2>1 DEF Ways
  <2> QED BY <2>2 DEF Ways, Root
<1>4. Children(tree, Root) = {}
  BY <1>1, <1>2, ChildOf DEF Children
<1>5. Matches(tree, Live, ptreeNode)
  <2>1. InitialState # NoData
    BY TreeAssumption, ConfigAssumption DEF ConfigAssumption
  <2>2. /\ DOMAIN tree = {Root} /\ tree[Root] = InitialState
        /\ ptreeNode[InitialState] = Root
    BY <1>1
  <2>3. IsLeafOf(tree, Root)
    BY <1>4, <2>2 DEF IsLeafOf
  <2>4. Live = {InitialState}
    BY <1>1
  <2> QED BY <2>1, <2>2, <2>3, <2>4 DEF Matches
<1> QED BY <1>1, <1>3, <1>5, TreeInvIs

\* The run loop with its process tree is the run loop: what is proved of the
\* one holds of the other.
THEOREM TreeRunsAreRuns == TreeSpec => Spec
BY TreeStepIsStep, PTL DEF TreeSpec, Spec, TreeInit

THEOREM TreeInductive == TreeSpec => [](IInv /\ TreeInv)
BY TreeRunsAreRuns, Inductive, TreeInitInv, TreeInvStep, PTL DEF TreeSpec

\* No assertion of PTree::split and PTree::remove fails, whatever instruction,
\* timer or dump deletes which state: node and state point at each other.
THEOREM TreeIsExact == TreeSpec => []TreeMatchesStates
BY TreeInductive, PTL DEF TreeInv

\* The random walk from the root ends, at any state the searcher holds and at
\* no other, although RandomPathSearcher::update does nothing.
THEOREM RandomWalkIsExact == TreeSpec => []RandomPathAgrees
<1>1. ASSUME IInv, TreeInv, SearcherAgrees PROVE RandomPathAgrees
  <2> SUFFICES ASSUME phase = "select", ~seeding
               PROVE  WalkIsTotal(tree) /\ WalkEnds(tree) = pool
    BY DEF RandomPathAgrees
  <2>1. Live = pool
    BY <1>1 DEF SearcherAgrees, Live
  <2>2. Grounded(tree) /\ Matches(tree, Live, ptreeNode)
    BY <1>1, TreeInvIs
  <2>3. WalkIsTotal(tree)
    BY <2>2 DEF WalkIsTotal, Visited, Matches
  <2>4. WalkEnds(tree) \subseteq Live
    BY <2>2 DEF WalkEnds, Visited, Matches
  <2>5. ASSUME NEW s \in Live PROVE s \in WalkEnds(tree)
    <3>1. ptreeNode[s] \in DOMAIN tree /\ tree[ptreeNode[s]] = s
      BY <2>2 DEF Matches, IsLeafOf
    <3>2. ASSUME NEW m \in DOMAIN tree, IsStrictPrefix(m, ptreeNode[s])
          PROVE  tree[m] = NoData
      <4>1. Children(tree, m) # {}
        BY <2>2, <3>1, <3>2, LeafEnds DEF IsStrictPrefix
      <4> QED BY <2>2, <4>1 DEF Matches, IsLeafOf
    <3>3. s # NoData
      BY <1>1, TreeAssumption, <2>5 DEF Live, IInv, TypeOK
    <3> QED BY <3>1, <3>2, <3>3 DEF WalkEnds, Visited
  <2> QED BY <2>1, <2>3, <2>4, <2>5
<1> QED BY <1>1, TreeInductive, TreeRunsAreRuns, SearcherIsExact, PTL

=============================================================================
