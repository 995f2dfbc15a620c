----------------------------- MODULE ExecutorTree -----------------------------
(***************************************************************************)
(* The run loop with its process tree (Executor::processTree): fork and    *)
(* branch split the node of the forked state, terminateState and           *)
(* updateStates remove the nodes of the states they delete.  The           *)
(* RandomPathSearcher is never told of any change: it reads this tree.     *)
(* The assertions of split and remove (the node they are given has no      *)
(* child) are part of TreeMatchesStates.                                   *)
(***************************************************************************)
EXTENDS ExecutorStates, PTree

CONSTANT RandomizeFork     \* --randomize-fork

ASSUME TreeAssumption == NoData \notin State /\ RandomizeFork \in BOOLEAN

VARIABLES
  tree,          \* the nodes of processTree and their data
  ptreeNode      \* ExecutionState::ptreeNode, of the live states

treeVars == <<vars, tree, ptreeNode>>

TreeInit ==
  /\ Init
  /\ tree = NewTree(InitialState)
  /\ ptreeNode = [s \in {InitialState} |-> Root]

\* The objects deleted by the step, and their nodes.
Deleted(t) == (Live \cup {t}) \ Live'

\* Defective: the nodes of the two sides are assigned the wrong way round.
SplitTreeCrossed(s, t, left, right) ==
  LET n     == ptreeNode[s]
      split == SplitNode(tree, n, left, right)
      nodes == [x \in Live \cup {t} |-> IF x = left THEN RightOf(n)
                                        ELSE IF x = right THEN LeftOf(n)
                                        ELSE ptreeNode[x]]
  IN /\ tree' = RemoveNodes(split, {nodes[x] : x \in Deleted(t)})
     /\ ptreeNode' = [x \in Live' |-> nodes[x]]

\* fork() and branch() on the tree: s splits into left and right, one of them
\* the new state t; fork may delete some of the two (--max-depth) at once.
SplitTree(s, t, left, right) ==
  LET n     == ptreeNode[s]
      split == SplitNode(tree, n, left, right)
      nodes == [x \in Live \cup {t} |-> IF x = left THEN LeftOf(n)
                                        ELSE IF x = right THEN RightOf(n)
                                        ELSE ptreeNode[x]]
  IN /\ tree' = RemoveNodes(split, {nodes[x] : x \in Deleted(t)})
     /\ ptreeNode' = [x \in Live' |-> nodes[x]]

\* fork(): the false side goes left; --randomize-fork swaps the sides.
TreeFork(s, t) ==
  /\ Fork(s, t)
  /\ \/ SplitTree(s, t, t, s)
     \/ RandomizeFork /\ SplitTree(s, t, s, t)

\* branch(): the new state goes left.
TreeBranchFork(s, t) == BranchFork(s, t) /\ SplitTree(s, t, t, s)

\* Every other step only removes the nodes of the states it deletes.
TreeOther ==
  /\ OtherStep \/ Interrupt
  /\ tree' = RemoveNodes(tree, {ptreeNode[x] : x \in Live \ Live'})
  /\ ptreeNode' = [x \in Live' |-> ptreeNode[x]]

TreeNext ==
  \/ \E s, t \in State : TreeFork(s, t) \/ TreeBranchFork(s, t)
  \/ TreeOther

TreeSpec == TreeInit /\ [][TreeNext]_treeVars

-----------------------------------------------------------------------------
\* Node and state point at each other, every other node is an inner one with
\* a child: what the assertions of split and remove need at any later step.
TreeMatchesStates ==
  /\ DOMAIN ptreeNode = Live
  /\ \A s \in Live : /\ IsLeafOf(tree, ptreeNode[s])
                     /\ tree[ptreeNode[s]] = s
  /\ \A n \in DOMAIN tree :
       IF tree[n] = NoData THEN Children(tree, n) # {}
                           ELSE tree[n] \in Live /\ ptreeNode[tree[n]] = n

\* The RandomPathSearcher can return the states the other searchers hold, all
\* of them and no other, although its update() does nothing.
RandomPathAgrees ==
  phase = "select" /\ ~seeding => WalkIsTotal(tree) /\ WalkEnds(tree) = pool

-----------------------------------------------------------------------------
\* The inductive invariant of the tree: every way to a node goes over nodes.
TreeInv ==
  /\ DOMAIN tree \subseteq Seq({"left", "right"})
  /\ \A n \in DOMAIN tree : \A i \in 0..Len(n) : SubSeq(n, 1, i) \in DOMAIN tree
  /\ TreeMatchesStates

=============================================================================
