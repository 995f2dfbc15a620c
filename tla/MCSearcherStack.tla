--------------------------- MODULE MCSearcherStack ---------------------------
(* Stacks of searchers for TLC. *)
EXTENDS SearcherStack

StateSymmetry == Permutations(State)

Stack(core, batching, deepening) ==
  [core |-> core, batching |-> batching, deepening |-> deepening]

\* Every kind of core searcher; random-path only where it can be used.
SoundStacks == {Stack(<<"dfs", "bfs", "nurs:covnew">>, TRUE, TRUE),
                Stack(<<"random-state", "nurs:depth">>, FALSE, TRUE),
                Stack(<<"hardware">>, FALSE, FALSE),
                Stack(<<"random-path", "nurs:covnew">>, TRUE, FALSE)}

\* The default --search with --use-iterative-deepening-time-search.
DefaultDeepening == {Stack(<<"random-path", "nurs:covnew">>, FALSE, TRUE)}
=============================================================================
