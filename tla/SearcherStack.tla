---------------------------- MODULE SearcherStack ----------------------------
(***************************************************************************)
(* The searchers constructUserSearcher (UserSearcher.cpp) builds, merging  *)
(* aside: the core searchers of --search, interleaved when there are       *)
(* several, optionally under a BatchingSearcher and, outermost, an         *)
(* IterativeDeepeningTimeSearcher.  Wall-clock comparisons may go either   *)
(* way; weights are left out, so a WeightedRandomSearcher picks any of the *)
(* states in its DiscretePDF.                                              *)
(***************************************************************************)
EXTENDS Integers, SequencesExt

CONSTANTS
  State, NoState,
  Failed,             \* the contents of a searcher whose assertion failed
  Stacks,             \* the command lines: core (--search), batching, deepening
  bfsSwitchCounts, dfsSwitchCounts    \* of the HardwareSearcher

Kinds == {"dfs", "bfs", "random-state", "random-path", "nurs:depth",
          "nurs:covnew", "hardware"}

ASSUME StackAssumption ==
  /\ NoState \notin State /\ Failed \notin Seq(State)
  /\ IsFiniteSet(State)
  /\ \A k \in Stacks : /\ k.core \in Seq(Kinds) /\ k.core # <<>>
                       /\ {k.batching, k.deepening} \subseteq BOOLEAN
  /\ {bfsSwitchCounts, dfsSwitchCounts} \subseteq Nat

VARIABLES
  stack,          \* the command line in use, chosen once
  states,         \* Executor::states, which the random-path searcher reads
  selected,       \* the state being executed, NoState between instructions
  held,           \* what each core searcher holds, oldest first
  index,          \* InterleavedSearcher::index
  lastState,      \* BatchingSearcher::lastState
  paused,         \* IterativeDeepeningTimeSearcher::pausedStates
  searchMode, bfsCount, dfsCount      \* HardwareSearcher

hardware == <<searchMode, bfsCount, dfsCount>>
vars == <<stack, states, selected, held, index, lastState, paused, hardware>>

CoreSearch            == stack.core
UseBatchingSearch     == stack.batching
UseIterativeDeepening == stack.deepening

Core == 1..Len(CoreSearch)

-----------------------------------------------------------------------------
(* update of the core searchers.                                           *)

\* Defective: update returns after the first removed state.
WithoutFirst(h, removed) ==
  IF removed = {} THEN h ELSE RemoveFirst(h, CHOOSE s \in removed : TRUE)

\* "invalid state removed": every searcher that keeps a container of states
\* asserts that it finds the states it is told to remove; the others stay, in
\* their order.
Without(h, removed) ==
  LET kept   == {i \in DOMAIN h : h[i] \notin removed}
      Rank(i) == Cardinality({j \in kept : j <= i})
  IN IF removed \subseteq ToSet(h)
     THEN [n \in 1..Cardinality(kept) |-> h[CHOOSE i \in kept : Rank(i) = n]]
     ELSE Failed

\* DFS, BFS, Random and HardwareSearcher::update, which append the added
\* states; WeightedRandomSearcher::update, which also asserts that the current
\* state is in its tree and that the added ones are not.
UpdateKind(kind, h, current, added, removed) ==
  CASE h = Failed -> Failed
    [] kind = "random-path" -> h
    [] kind = "nurs:covnew" /\ current # NoState /\ current \notin removed
         /\ current \notin ToSet(h) -> Failed
    [] kind \in {"nurs:covnew", "nurs:depth"}
         /\ ToSet(h) \cap ToSet(added) # {} -> Failed
    [] OTHER -> Without(h \o added, removed)

\* InterleavedSearcher::update.
UpdateCore(hs, current, added, removed) ==
  [i \in Core |-> UpdateKind(CoreSearch[i], hs[i], current, added, removed)]

\* Defective: the executor is asked, as the random-path searcher does.
CoreEmptyOfExecutor(hs) == states = {}

\* empty() of the base: the first core searcher is asked.
CoreEmpty(hs) ==
  IF CoreSearch[1] = "random-path" THEN states = {} ELSE hs[1] = <<>>

AssertFailed == \E i \in Core : held[i] = Failed

-----------------------------------------------------------------------------
Init ==
  /\ stack \in Stacks
  /\ states \in (SUBSET State) \ {{}}
  /\ \E order \in SetToSeqs(states) :
       held = UpdateCore([i \in Core |-> <<>>], NoState, order, {})
  /\ selected = NoState
  /\ index = 1
  /\ lastState = NoState
  /\ paused = {}
  /\ searchMode = 1 /\ bfsCount = 0 /\ dfsCount = 0

\* Defective: the count of a DFS phase is kept when the phase is over.
SwitchModeKeepsCount ==
  LET toDfs == searchMode = 1 /\ bfsCount > bfsSwitchCounts
      mode1 == IF toDfs THEN 0 ELSE searchMode
  IN [mode |-> IF mode1 = 0 /\ dfsCount > dfsSwitchCounts THEN 1 ELSE mode1,
      bfs  |-> IF toDfs THEN 0 ELSE bfsCount,
      dfs  |-> dfsCount]

\* HardwareSearcher::selectState, before the count of the mode goes up: a mode
\* whose count is past its limit hands over to the other one.
SwitchMode ==
  LET toDfs == searchMode = 1 /\ bfsCount > bfsSwitchCounts
      mode1 == IF toDfs THEN 0 ELSE searchMode
      toBfs == mode1 = 0 /\ dfsCount > dfsSwitchCounts
  IN [mode |-> IF toBfs THEN 1 ELSE mode1,
      bfs  |-> IF toDfs THEN 0 ELSE bfsCount,
      dfs  |-> IF toBfs THEN 0 ELSE dfsCount]

\* What selectState of core searcher i may return.
Candidates(i) ==
  IF CoreSearch[i] = "random-path" THEN states
  ELSE IF held[i] = <<>> THEN {}
  ELSE CASE CoreSearch[i] = "dfs" -> {Last(held[i])}
         [] CoreSearch[i] = "bfs" -> {Head(held[i])}
         [] CoreSearch[i] = "hardware" ->
              {IF SwitchMode.mode = 1 THEN Head(held[i]) ELSE Last(held[i])}
         [] OTHER -> ToSet(held[i])

\* The mode that is on counts its selections.
CountSelection ==
  LET m == SwitchMode IN
  /\ searchMode' = m.mode
  /\ bfsCount' = IF m.mode = 1 THEN m.bfs + 1 ELSE m.bfs
  /\ dfsCount' = IF m.mode = 1 THEN m.dfs ELSE m.dfs + 1

\* selectState of core searcher i returns s.
SelectKind(i, s) ==
  /\ s \in Candidates(i)
  /\ IF CoreSearch[i] = "hardware" THEN CountSelection ELSE UNCHANGED hardware

\* InterleavedSearcher::selectState: the searchers take turns, last one first.
SelectCore(s) ==
  /\ SelectKind(index, s)
  /\ index' = IF index = 1 THEN Len(CoreSearch) ELSE index - 1

\* A batch may go on (BatchingSearcher::selectState) only within its budget.
Batched(s) ==
  /\ UseBatchingSearch /\ lastState # NoState
  /\ s = lastState
  /\ UNCHANGED <<index, lastState, hardware>>

NewBatch(s) ==
  /\ SelectCore(s)
  /\ lastState' = IF UseBatchingSearch THEN s ELSE NoState

SelectState ==
  /\ selected = NoState /\ states # {} /\ ~AssertFailed
  /\ \E s \in State : /\ Batched(s) \/ NewBatch(s)
                      /\ selected' = s
  /\ UNCHANGED <<stack, states, held, paused>>

\* Defective: a batch goes on with a state that was removed.
KeepBatchAnyway(removed) == lastState

\* BatchingSearcher::update forgets a removed state.
KeepBatch(removed) == IF lastState \in removed THEN NoState ELSE lastState

\* Defective: removed states stay among the paused ones.
StillPausedAll(removed) == paused

\* IterativeDeepeningTimeSearcher::update: removed states stop being paused.
StillPaused(removed) == paused \ removed

\* The base searcher is told of the removed states that were not paused; then
\* the current state is paused if it used up its time; and when that leaves
\* the base empty, all the paused states are given back.
DeepeningUpdate(added, removed) ==
  LET told  == UpdateCore(held, selected, added, removed \ paused)
      still == StillPaused(removed)
      late  == IF selected \in removed THEN {{}} ELSE {{}, {selected}}
  IN \E pause \in late :
       LET hs == IF pause = {} THEN told
                 ELSE UpdateCore(told, NoState, <<>>, pause)
       IN IF CoreEmpty(hs)
          THEN /\ \E order \in SetToSeqs(still \cup pause) :
                    held' = UpdateCore(hs, NoState, order, {})
               /\ paused' = {}
               /\ lastState' = KeepBatch((removed \ paused) \cup pause)
          ELSE /\ held' = hs
               /\ paused' = still \cup pause
               /\ lastState' = KeepBatch((removed \ paused) \cup pause)

\* Executor::updateStates: the searcher first, then Executor::states.
Update(added, removed) ==
  /\ selected # NoState /\ ~AssertFailed
  /\ IF UseIterativeDeepening THEN DeepeningUpdate(added, removed)
     ELSE /\ held' = UpdateCore(held, selected, added, removed)
          /\ lastState' = KeepBatch(removed)
          /\ UNCHANGED paused
  /\ states' = (states \cup ToSet(added)) \ removed
  /\ selected' = NoState
  /\ UNCHANGED <<stack, index, hardware>>

Next ==
  \/ SelectState
  \/ \E fresh \in SUBSET (State \ states), removed \in SUBSET states :
       \E added \in SetToSeqs(fresh) : Update(added, removed)

Spec == Init /\ [][Next]_vars

\* The run loop selects, executes and updates without ever waiting.
FairSpec == Spec /\ WF_vars(Next)

-----------------------------------------------------------------------------
\* Every searcher that keeps states keeps exactly those of the executor, each
\* once, except for the paused ones: none is lost and none is held twice, and a
\* batch goes on with a state that they still hold.
HoldsTheStates ==
  /\ lastState # NoState => lastState \in states \ paused
  /\ selected = NoState =>
    \A i \in Core : CoreSearch[i] # "random-path" =>
      /\ IsInjective(held[i])
      /\ ToSet(held[i]) = states \ paused
      /\ paused \subseteq states

\* As long as there are states, the searcher whose turn it is has one: its
\* selectState is never called on an empty container, and returns no state that
\* is paused.
NeverStuck ==
  selected = NoState /\ states # {} =>
    Candidates(index) # {} /\ Candidates(index) \subseteq states \ paused

\* DiscretePDF.inc:156 and Searcher.cpp:94: "argument(item) not in tree" and
\* "invalid state removed" are never met.
NoAssertFails == ~AssertFailed

\* The HardwareSearcher serves both ends of its list for ever, although each
\* mode looks at one end only and updates move the ends: the oldest state is not
\* starved by those that DFS goes on with, and DFS comes back to the newest one
\* however many states BFS has still to go through.
OldestSelected == CoreSearch = <<"hardware">> /\ states # {} => selected = Head(held[1])
NewestSelected == CoreSearch = <<"hardware">> /\ states # {} => selected = Last(held[1])

BothEndsServed == []<>OldestSelected /\ []<>NewestSelected

\* Any stack is a searcher as the run loop expects it.
S == INSTANCE Searcher WITH pool <- states
IsSearcher == S!Spec

-----------------------------------------------------------------------------
(* The inductive invariant.                                                *)

Keeps(h, these) == h \in Seq(State) /\ IsInjective(h) /\ ToSet(h) = these

\* The base searcher holds these states.
Holds(hs, these) ==
  /\ DOMAIN hs = Core
  /\ \A i \in Core : IF CoreSearch[i] = "random-path" THEN hs[i] = <<>>
                                                      ELSE Keeps(hs[i], these)

TypeOK ==
  /\ stack \in Stacks
  /\ states \in SUBSET State
  /\ paused \in SUBSET states
  /\ selected \in State \cup {NoState} /\ lastState \in State \cup {NoState}
  /\ index \in Core

StackInv ==
  /\ TypeOK
  /\ ~UseIterativeDeepening => paused = {}
  /\ selected # NoState => selected \in states \ paused
  /\ lastState # NoState => lastState \in states \ paused
  /\ Holds(held, states \ paused)
  /\ states # {} => states \ paused # {}
=============================================================================
