------------------------------- MODULE Searcher -------------------------------
(***************************************************************************)
(* What the run loop expects of any Searcher (klee/lib/Core/Searcher.h):   *)
(* selectState returns one of the states it was told of by update, and     *)
(* update is called once after every selection with the states that the    *)
(* instruction added and removed.  ExecutorStates is written against this  *)
(* contract: its variable pool.                                            *)
(***************************************************************************)
CONSTANTS State, NoState

VARIABLES
  pool,         \* the states the searcher was told of
  selected      \* the state being executed, NoState between two instructions

\* run: searcher->update(0, states, {}) with the states left by seeding.
Init ==
  /\ pool \in SUBSET State
  /\ selected = NoState

\* Searcher::selectState; the loop does not call it once no state is left.
SelectState ==
  /\ selected = NoState
  /\ selected' \in pool
  /\ UNCHANGED pool

\* Searcher::update(current, addedStates, removedStates).
Update(added, removed) ==
  /\ selected # NoState
  /\ pool' = (pool \cup added) \ removed
  /\ selected' = NoState

Next ==
  \/ SelectState
  \/ \E added \in SUBSET (State \ pool), removed \in SUBSET pool :
       Update(added, removed)

Spec == Init /\ [][Next]_<<pool, selected>>
=============================================================================
