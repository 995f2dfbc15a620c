--------------------------- MODULE MergingSearchers ---------------------------
(***************************************************************************)
(* MergingSearcher (--use-merge) and BumpMergingSearcher (--use-bump-merge) *)
(* of Searcher.cpp over any base searcher, driven by the run loop.  The    *)
(* program is a straight line of instructions 0..End whose last one exits; *)
(* each may fork or end the state, and those of MergePoints are calls of   *)
(* klee_merge.  Whether two states at one place can be merged (same stack  *)
(* and symbolics, and the memory of both expressible: ExecutionState.cpp)  *)
(* is left open.  One iteration of the loops of selectState is one step.   *)
(***************************************************************************)
EXTENDS Integers, FiniteSets, Functions

CONSTANTS
  State, NoState,
  End, MergePoints,
  Mergers,            \* the options tried: "merge", "bump"
  MemoryLimit         \* whether checkMemoryUsage may kill states

ASSUME MergingAssumption ==
  /\ NoState \notin State
  /\ End \in Nat /\ MergePoints \subseteq 0..(End - 1)
  /\ Mergers \subseteq {"merge", "bump"} /\ MemoryLimit \in BOOLEAN

VARIABLES
  merger,             \* the option in use
  pc, prevPC,         \* of every state
  states,             \* Executor::states
  removals,           \* how often each state is in Executor::removedStates
  selected,           \* the state selectState returned, NoState inside it
  base,               \* the states of the base searcher
  statesAtMerge,      \* MergingSearcher: the states parked at a merge point
  merges,             \* MergingSearcher: the groups still to be merged
  bumpAt,             \* BumpMergingSearcher: merge point -> the parked state
  assertion,          \* the assertion that failed, "none"
  killedAgain         \* history: whom the memory check terminated although the
                      \* searcher or the instruction already had

places == <<pc, prevPC>>
vars == <<merger, places, states, removals, selected, base, statesAtMerge,
          merges, bumpAt, assertion, killedAgain>>

PC == 0..(End + 1)
NULL == -1

Dead == {s \in State : removals[s] > 0}
Running == selected = NoState /\ states # {} /\ assertion = "none"

\* getMergePoint: the call of klee_merge a state stands at.
MergePoint(s) == IF pc[s] \in MergePoints THEN pc[s] ELSE NULL

\* baseSearcher->update or removeState ("invalid state removed").
AssertionOf(removed) ==
  IF removed \subseteq base THEN "none" ELSE "invalid state removed"

\* Executor::terminateState of states that the searcher knows.
TerminateStates(ts, from) ==
  /\ pc' = [s \in State |-> IF s \in ts THEN prevPC[s] ELSE from[s]]
  /\ removals' = [s \in State |-> removals[s] + IF s \in ts THEN 1 ELSE 0]

-----------------------------------------------------------------------------
Init ==
  /\ merger \in Mergers
  /\ \E s \in State : states = {s} /\ base = {s}
  /\ pc = [s \in State |-> 0] /\ prevPC = [s \in State |-> 0]
  /\ removals = [s \in State |-> 0]
  /\ selected = NoState
  /\ statesAtMerge = {} /\ merges = {}
  /\ bumpAt = <<>>
  /\ assertion = "none" /\ killedAgain = {}

\* selectState of either: the base's choice is not at a merge point.
Return ==
  /\ Running /\ merges = {}
  /\ \E s \in base : MergePoint(s) = NULL /\ selected' = s
  /\ UNCHANGED <<merger, places, states, removals, base, statesAtMerge,
                 merges, bumpAt, assertion, killedAgain>>

-----------------------------------------------------------------------------
(* MergingSearcher::selectState                                            *)

\* The base's choice has reached a merge point: it waits there.
Park ==
  /\ merger = "merge" /\ Running /\ merges = {}
  /\ \E s \in base : /\ MergePoint(s) # NULL
                     /\ base' = base \ {s}
                     /\ statesAtMerge' = statesAtMerge \cup {s}
  /\ UNCHANGED <<merger, places, states, removals, selected, merges, bumpAt,
                 assertion, killedAgain>>

\* Every state waits: "build map of merge point -> state list".
AllAtMerge ==
  /\ merger = "merge" /\ Running /\ merges = {}
  /\ base = {} /\ statesAtMerge # {}
  /\ merges' = {{s \in statesAtMerge : MergePoint(s) = mp} :
                  mp \in {MergePoint(s) : s \in statesAtMerge}}
  /\ UNCHANGED <<merger, places, states, removals, selected, base,
                 statesAtMerge, bumpAt, assertion, killedAgain>>

\* Defective: the state merged into is terminated along with the others.
MergedOfAll(group, kept) == {s \in group : pc[s] = pc[kept]}

\* The states of a group that merge() may have merged into the kept one.
Merged(group, kept) == {s \in group \ {kept} : pc[s] = pc[kept]}

\* Defective: the kept state is given back at the merge point.
SteppedPastNot(s) == pc

\* ++pc: "step past merge".
SteppedPast(s) == [pc EXCEPT ![s] = @ + 1]

\* One pass of "while (!toMerge.empty())": a state takes in others of its
\* group, which are terminated but stay in statesAtMerge until update.
MergeGroup ==
  /\ merger = "merge" /\ Running
  /\ \E group \in merges :
       \E kept \in group :
         \E toErase \in SUBSET Merged(group, kept) :
           /\ TerminateStates(toErase, SteppedPast(kept))
           /\ statesAtMerge' = statesAtMerge \ {kept}
           /\ base' = base \cup {kept}
           /\ merges' = ((merges \ {group}) \cup
                           {group \ (toErase \cup {kept})}) \ {{}}
  /\ UNCHANGED <<merger, prevPC, states, selected, bumpAt, assertion, killedAgain>>

-----------------------------------------------------------------------------
(* BumpMergingSearcher::selectState                                        *)

\* "out of base states, pick one to pop".
Pop ==
  /\ merger = "bump" /\ Running /\ base = {}
  /\ \E mp \in DOMAIN bumpAt :
       /\ pc' = SteppedPast(bumpAt[mp])
       /\ base' = {bumpAt[mp]}
       /\ bumpAt' = Restrict(bumpAt, DOMAIN bumpAt \ {mp})
  /\ UNCHANGED <<merger, prevPC, states, removals, selected, statesAtMerge,
                 merges, assertion, killedAgain>>

\* The first one at a merge point waits there for the next.
BumpPark ==
  /\ merger = "bump" /\ Running
  /\ \E s \in base :
       LET mp == MergePoint(s) IN
       /\ mp # NULL /\ mp \notin DOMAIN bumpAt
       /\ base' = base \ {s}
       /\ bumpAt' = [p \in DOMAIN bumpAt \cup {mp} |->
                       IF p = mp THEN s ELSE bumpAt[p]]
  /\ UNCHANGED <<merger, places, states, removals, selected, statesAtMerge,
                 merges, assertion, killedAgain>>

\* The parked state takes it in.  "hack, because we are terminating the state
\* we need to let the baseSearcher know about it again": it stays in the base.
BumpMerge ==
  /\ merger = "bump" /\ Running
  /\ \E s \in base :
       LET mp == MergePoint(s) IN
       /\ mp \in DOMAIN bumpAt /\ pc[bumpAt[mp]] = pc[s]
       /\ TerminateStates({s}, pc)
  /\ UNCHANGED <<merger, prevPC, states, selected, base, statesAtMerge,
                 merges, bumpAt, assertion, killedAgain>>

\* "the bump": they cannot be merged, and the newcomer takes the place.
Bump ==
  /\ merger = "bump" /\ Running
  /\ \E s \in base :
       LET mp == MergePoint(s) IN
       /\ mp \in DOMAIN bumpAt
       /\ bumpAt' = [bumpAt EXCEPT ![mp] = s]
       /\ pc' = SteppedPast(bumpAt[mp])
       /\ base' = (base \ {s}) \cup {bumpAt[mp]}
  /\ UNCHANGED <<merger, prevPC, states, removals, selected, statesAtMerge,
                 merges, assertion, killedAgain>>

-----------------------------------------------------------------------------
(* The run loop: one instruction, the memory check, updateStates.          *)

\* Defective: update passes every removed state on to the base.
NotParkedAll(removed) == removed

\* MergingSearcher::update, alt: the base hears only of states it may hold.
\* BumpMergingSearcher::update passes them all on.
NotParked(removed) ==
  IF merger = "merge" THEN removed \ statesAtMerge ELSE removed

\* Defective: removed states stay parked.
StillParkedAll(removed) == statesAtMerge

\* MergingSearcher::update: removed states are no longer parked.
StillParked(removed) == statesAtMerge \ removed

\* The selected state executes one instruction, which may fork it or end it;
\* checkMemoryUsage may kill any states, those included that the searcher or the
\* instruction has just terminated; then Executor::updateStates.  Whom it finds
\* in removedStates twice, the base searcher or Executor.cpp:2716 asserts on.
Instruction(forked, ends, killed) ==
  LET s       == selected
      now     == pc[s]
      ended   == IF ends THEN {s} ELSE {}
      gone    == killed \cup ended
      removed == Dead \cup gone
      told    == NotParked(removed)
      moved   == {s} \cup forked
      twice   == {t \in State : removals[t] > 1} \cup (Dead \cap gone)
                   \cup (killed \cap ended)
  IN /\ ends => forked = {}
     /\ now >= End => ends
     /\ pc' = [t \in State |->
                 IF t \in gone THEN (IF t = s THEN now ELSE prevPC[t])
                 ELSE IF t \in moved THEN now + 1 ELSE pc[t]]
     /\ prevPC' = [t \in State |-> IF t \in moved THEN now ELSE prevPC[t]]
     /\ base' = (base \cup forked) \ told
     /\ statesAtMerge' = StillParked(removed)
     /\ states' = (states \cup forked) \ removed
     /\ assertion' = IF twice # {} THEN "removed twice" ELSE AssertionOf(told)
     /\ killedAgain' = killed \cap (Dead \cup ended)

Execute ==
  /\ selected # NoState /\ assertion = "none"
  /\ \E forked \in SUBSET (State \ states), ends \in BOOLEAN, killed \in SUBSET states :
       /\ Cardinality(forked) <= 1
       /\ killed = {} \/ MemoryLimit
       /\ Instruction(forked, ends, killed)
  /\ removals' = [s \in State |-> 0]
  /\ selected' = NoState
  /\ UNCHANGED <<merger, merges, bumpAt>>

Next == \/ Return \/ Execute
        \/ Park \/ AllAtMerge \/ MergeGroup
        \/ Pop \/ BumpPark \/ BumpMerge \/ Bump

Spec == Init /\ [][Next]_vars

\* The run loop and the searcher are one sequential program: it goes on.
FairSpec == Spec /\ WF_vars(Next)

-----------------------------------------------------------------------------
\* selectState and update of either searcher lose no state and hold none
\* twice: each state of the executor is in the base or waits at one place, and
\* MergingSearcher hands the run loop no state that it has just terminated.
EachInOnePlace ==
  assertion = "none" =>
    /\ merger = "merge" => selected \notin Dead
    /\ states = base \cup statesAtMerge \cup Range(bumpAt)
    /\ base \cap (statesAtMerge \cup Range(bumpAt)) = {}
    /\ IsInjective(bumpAt)

\* With --use-merge "invalid state removed" of the base searcher and
\* Executor.cpp:2716 fail in one way only: the memory check has picked a state
\* that selectState had merged, or the instruction ended, in this iteration.
MergeAssertsOnlyFromMemoryCheck ==
  merger = "merge" /\ assertion # "none" => MemoryLimit /\ killedAgain # {}

\* A state that a searcher terminates has been merged into another one at the
\* same klee_merge, which lives on past it: no path is dropped.
MergedIntoLive ==
  [][\A s \in State :
       selected = NoState /\ removals'[s] > removals[s] =>
         \E t \in states : removals'[t] = 0 /\ t # s
                           /\ pc[t] = pc[s] /\ MergePoint(s) # NULL]_vars

\* selectState comes back with a state: its loops and its recursion end.
SelectionReturns ==
  Running ~> (selected # NoState \/ assertion # "none")

\* Nobody waits at a merge point for ever (here every path is finite), as long
\* as the run goes on.
NobodyWaitsForEver ==
  \A s \in State :
    s \in statesAtMerge ~> s \notin statesAtMerge \/ assertion # "none"

-----------------------------------------------------------------------------
(* The inductive invariant, as long as no assertion has failed.            *)

TypeOK ==
  /\ merger \in Mergers
  /\ pc \in [State -> Int] /\ prevPC \in [State -> Int]
  /\ removals \in [State -> Nat]
  /\ selected \in State \cup {NoState}
  /\ states \in SUBSET State
  /\ DOMAIN bumpAt \in SUBSET MergePoints

\* EachInOnePlace, and a state being executed is in the base
\* and not at a merge point.
PlacesInv ==
  /\ states = base \cup statesAtMerge \cup Range(bumpAt)
  /\ base \cap (statesAtMerge \cup Range(bumpAt)) = {}
  /\ IsInjective(bumpAt)
  /\ selected # NoState => selected \in base /\ pc[selected] \notin MergePoints

\* MergingSearcher: who is parked is alive and at a merge point, or was merged
\* in this selectState; then the others are still in a group or already past it.
MergeInv ==
  /\ bumpAt = <<>>
  /\ Dead \in SUBSET statesAtMerge
  /\ \A s \in State : removals[s] <= 1
  /\ \A s \in statesAtMerge \ Dead : pc[s] \in MergePoints
  /\ UNION merges \in SUBSET (statesAtMerge \ Dead)
  /\ \A g, h \in merges : g \cap h # {} => g = h
  /\ selected # NoState => merges = {}
  /\ Dead # {} \/ merges # {} =>
       /\ \A s \in base : pc[s] \notin MergePoints
       /\ statesAtMerge = Dead \cup UNION merges
       /\ merges = {} => base # {}

\* BumpMergingSearcher: a state that was merged is in the base, and not at a
\* merge point, because nobody executes one; only the very first may be there.
BumpInv ==
  /\ statesAtMerge = {} /\ merges = {}
  /\ Dead \in SUBSET base
  /\ \A s \in Dead : pc[s] \notin MergePoints
  /\ \A s \in states : prevPC[s] \in MergePoints => states = {s}

MergingInv ==
  /\ merger = "merge" => assertion = "none" \/ (MemoryLimit /\ killedAgain # {})
  /\ assertion = "none" => /\ TypeOK /\ PlacesInv
                           /\ merger = "merge" => MergeInv
                           /\ merger = "bump" => BumpInv
=============================================================================
