-------------------------------- MODULE PTree --------------------------------
(***************************************************************************)
(* klee/lib/Core/PTree.cpp: the binary tree of forks.  A node is named by  *)
(* the way to it from the root; a tree maps its nodes to the state they    *)
(* carry, or to NoData.                                                    *)
(***************************************************************************)
EXTENDS SequencesExt

CONSTANT NoData      \* PTreeNode::data == 0

Root == <<>>

\* PTree::PTree.
NewTree(s) == [n \in {Root} |-> s]

LeftOf(n)  == Append(n, "left")
RightOf(n) == Append(n, "right")

Children(T, n) == {LeftOf(n), RightOf(n)} \cap DOMAIN T

\* What split and remove assert of the node they are given.
IsLeafOf(T, n) == n \in DOMAIN T /\ Children(T, n) = {}

\* The node's data is cleared by the caller, then PTree::split.
SplitNode(T, n, leftData, rightData) ==
  [m \in DOMAIN T \cup {LeftOf(n), RightOf(n)} |->
     CASE m = LeftOf(n)  -> leftData
       [] m = RightOf(n) -> rightData
       [] m = n          -> NoData
       [] OTHER          -> T[m]]

\* Defective: only the nodes themselves are deleted, not the parents left childless.
RemoveNodesOnly(T, N) == [m \in DOMAIN T \ N |-> T[m]]

\* PTree::remove of each node of N, in any order: the node goes, and with it
\* every ancestor that is left without a child.  What stays leads to a node
\* that is not on the way to any of N.
RemoveNodes(T, N) ==
  LET Stays(m) == \E k \in DOMAIN T : IsPrefix(m, k) /\ \A n \in N : ~IsPrefix(k, n)
  IN [m \in {m \in DOMAIN T : Stays(m)} |-> T[m]]

\* RandomPathSearcher::selectState walks down from the root to the first node
\* with data: the nodes it may visit, and the states it may return.
Visited(T)  == {n \in DOMAIN T : \A m \in DOMAIN T :
                                   IsStrictPrefix(m, n) => T[m] = NoData}
WalkEnds(T) == {T[n] : n \in Visited(T)} \ {NoData}

\* The walk never dereferences a null pointer.
WalkIsTotal(T) == \A n \in Visited(T) : T[n] = NoData => Children(T, n) # {}

=============================================================================
