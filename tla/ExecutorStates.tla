--------------------------- MODULE ExecutorStates ---------------------------
(***************************************************************************)
(* The life of execution states in klee/lib/Core/Executor.cpp: how the     *)
(* interpreter loop of Executor::run selects a state, lets one instruction *)
(* fork, branch or terminate states, and only then, in updateStates, makes *)
(* the effects visible to the set `states' and to the searcher.            *)
(*                                                                         *)
(* The executor is single threaded; what makes it hard is that an          *)
(* instruction, the timers and the memory check each queue work on the     *)
(* vectors addedStates and removedStates without looking at one another,   *)
(* and that a state which is still in addedStates is deleted at once while *)
(* any other one is deleted later.                                         *)
(*                                                                         *)
(* Abstractions.  A state is an identity: one that is deleted may be       *)
(* allocated again.  The vector removedStates is the number of entries it  *)
(* holds for each state (its order is used by no assertion), addedStates   *)
(* is a set (every entry is a fresh object).  The solver answers anything; *)
(* an instruction is any sequence of the calls it can make on the states   *)
(* it still owns.  The searcher is the set of the states it was given: the *)
(* module Searcher states what it relies on, SearcherStack refines it.      *)
(***************************************************************************)
EXTENDS Integers, FiniteSets

CONSTANTS
  State,             \* identities (addresses) of ExecutionState objects
  InitialState,      \* the state main() starts in
  Seeds,             \* test cases that --seed-out may give
  OnlyReplaySeeds, OnlySeed, DumpStatesOnHalt,      \* command line flags
  StatePrune, FindDynamicInvalid,                   \* Coppelia's flags
  MaxMemoryInhibit,
  InstructionTimeLimit,  \* MaxInstructionTime > 0
  MemoryLimit,       \* MaxMemory # 0, and the process can outgrow it
  MaxForks,          \* --max-forks; beyond ForkCap it stands for ~0u
  MaxDepth,          \* --max-depth; 0 is off
  MaxConditions,     \* BOUND: the most conditions branch() is called with
  ForkCap            \* BOUND: forks after which no further fork is modelled

ASSUME ConfigAssumption ==
  /\ InitialState \in State
  /\ IsFiniteSet(State)
  /\ {OnlyReplaySeeds, OnlySeed, DumpStatesOnHalt, StatePrune,
      FindDynamicInvalid, MaxMemoryInhibit, InstructionTimeLimit,
      MemoryLimit} \subseteq BOOLEAN
  /\ {MaxForks, MaxDepth, MaxConditions, ForkCap} \subseteq Nat
  /\ Cardinality(State) > ForkCap      \* the allocator never runs out

VARIABLES
  phase,           \* where Executor::run stands
  seeding,         \* inside the seeding loop: no searcher exists yet
  current,         \* the state being executed
  states,          \* Executor::states
  addedStates,     \* Executor::addedStates
  removals,        \* entries of Executor::removedStates, per state
  pool,            \* the states the searcher holds
  seedMap,         \* Executor::seedMap; {} when the state has no entry
  depth,           \* ExecutionState::depth
  result, todo,    \* branch(): its result vector, and the forks left to do
  forks,           \* stats::forks
  pathsExplored,   \* KleeHandler's count of incPathsExplored() calls
  atMemoryLimit, haltExecution

vars == <<phase, seeding, current, states, addedStates, removals, pool,
          seedMap, depth, result, todo, forks, pathsExplored,
          atMemoryLimit, haltExecution>>

Phases == {"select", "execute", "branch", "timers", "memory", "update",
           "dump", "done", "crashed"}

TypeOK ==
  /\ phase \in Phases
  /\ seeding \in BOOLEAN
  /\ current \in State
  /\ states \in SUBSET State
  /\ addedStates \in SUBSET State
  /\ removals \in [State -> Nat]
  /\ pool \in SUBSET State
  /\ seedMap \in [State -> SUBSET Seeds]
  /\ depth \in [State -> Nat]
  /\ result \in SUBSET State
  /\ todo \in Nat
  /\ forks \in Nat
  /\ pathsExplored \in Nat
  /\ atMemoryLimit \in BOOLEAN
  /\ haltExecution \in BOOLEAN

-----------------------------------------------------------------------------
(* Objects that exist, those queued for deletion, those still executing.   *)

Live    == states \cup addedStates
Removed == {s \in State : removals[s] > 0}
Running == Live \ Removed

\* The states the instruction being executed may still fork or terminate:
\* the selected one and those it created itself.
Active == ({current} \cup addedStates) \ Removed

\* The run loop starts in seeding mode when usingSeeds is set (run, 2872-2883),
\* the seeds being given to the initial state; otherwise the searcher is built
\* from the initial state at once (2943-2945).
Init ==
  /\ phase = "select"
  /\ \E usingSeeds \in SUBSET Seeds :
       /\ seeding = (usingSeeds # {})
       /\ seedMap = [s \in State |-> IF s = InitialState THEN usingSeeds ELSE {}]
       /\ pool = IF usingSeeds # {} THEN {} ELSE {InitialState}
  /\ current = InitialState
  /\ states = {InitialState}
  /\ addedStates = {}
  /\ removals = [s \in State |-> 0]
  /\ depth = [s \in State |-> 0]
  /\ result = {}
  /\ todo = 0
  /\ forks = 0
  /\ pathsExplored = 0
  /\ atMemoryLimit = FALSE
  /\ haltExecution = FALSE

\* haltExecution is only ever set by the run loop's callees: shouldExitOn,
\* StopAfterNTests, StopAfterNInstructions, the HaltTimer, a fired assertion.
MayHalt == haltExecution' \in {haltExecution, TRUE}

\* Defective: a state deleted at once is not counted as explored.
TerminateCountsQueued(T, added, seeds) ==
  /\ pathsExplored' = pathsExplored + Cardinality(T \ added)
  /\ addedStates' = added \ T
  /\ removals' = [s \in State |-> IF s \in T \ added THEN removals[s] + 1
                                                     ELSE removals[s]]
  /\ seedMap' = [s \in State |-> IF s \in T \cap added THEN {} ELSE seeds[s]]
  /\ MayHalt

\* terminateState on every state of T: one that no searcher has seen is
\* deleted at once, with its seeds; any other is queued in removedStates.
\* `added' and `seeds' are addedStates and seedMap as they are by then.
Terminate(T, added, seeds) ==
  /\ pathsExplored' = pathsExplored + Cardinality(T)
  /\ addedStates' = added \ T
  /\ removals' = [s \in State |-> IF s \in T \ added THEN removals[s] + 1
                                                     ELSE removals[s]]
  /\ seedMap' = [s \in State |-> IF s \in T \cap added THEN {} ELSE seeds[s]]
  /\ MayHalt

-----------------------------------------------------------------------------
(* The head of the run loop.                                               *)

\* Defective: the loop condition does not look at haltExecution.
CanSelectHalted == phase = "select" /\ ~seeding /\ states # {}

CanSelect == phase = "select" /\ ~seeding /\ ~haltExecution /\ states # {}

\* searcher->selectState, stepInstruction.
Select(s) ==
  /\ CanSelect
  /\ s \in pool
  /\ current' = s
  /\ phase' = "execute"
  /\ MayHalt
  /\ UNCHANGED <<seeding, states, addedStates, removals, pool, seedMap, depth,
                 result, todo, forks, pathsExplored, atMemoryLimit>>

\* Defective: the pruned state is left for the next call of updateStates.
SelectDuplicateContinues(s) ==
  /\ CanSelect
  /\ StatePrune
  /\ s \in pool
  /\ Cardinality(states) > 1
  /\ current' = s
  /\ phase' = "select"
  /\ Terminate({s}, addedStates, seedMap)
  /\ UNCHANGED <<seeding, states, pool, depth, result, todo, forks,
                 atMemoryLimit>>

\* statePrune: the snapshot of the selected state is in the history; the
\* state is terminated and the loop goes straight to updateStates.
SelectDuplicate(s) ==
  /\ CanSelect
  /\ StatePrune
  /\ s \in pool
  /\ Cardinality(states) > 1
  /\ current' = s
  /\ phase' = "update"
  /\ Terminate({s}, addedStates, seedMap)
  /\ UNCHANGED <<seeding, states, pool, depth, result, todo, forks,
                 atMemoryLimit>>

\* findDynamicInvalid: the selected state is terminated as INVALID PATH, and
\* then stepped and executed all the same: its instruction is a call of a
\* defined function, which neither forks nor terminates.
SelectInvalidPath(s) ==
  /\ CanSelect
  /\ FindDynamicInvalid
  /\ s \in pool
  /\ current' = s
  /\ phase' = "timers"
  /\ Terminate({s}, addedStates, seedMap)
  /\ UNCHANGED <<seeding, states, pool, depth, result, todo, forks,
                 atMemoryLimit>>

\* The seeding loop picks any state that still has seeds.
SeedSelect(s) ==
  /\ phase = "select" /\ seeding /\ ~haltExecution
  /\ seedMap[s] # {}
  /\ current' = s
  /\ phase' = "execute"
  /\ MayHalt
  /\ UNCHANGED <<seeding, states, addedStates, removals, pool, seedMap, depth,
                 result, todo, forks, pathsExplored, atMemoryLimit>>

\* After the seeding loop: doDumpStates, or a searcher over what remains.
LeaveSeeding ==
  /\ seeding' = FALSE
  /\ IF OnlySeed THEN /\ phase' = "dump"
                      /\ pool' = pool
                 ELSE /\ phase' = "select"
                      /\ pool' = states'

SeedingDone ==
  /\ phase = "select" /\ seeding /\ ~haltExecution
  /\ \A s \in State : seedMap[s] = {}
  /\ UNCHANGED states
  /\ LeaveSeeding
  /\ UNCHANGED <<current, addedStates, removals, seedMap, depth, result, todo,
                 forks, pathsExplored, atMemoryLimit, haltExecution>>

\* Defective: run returns on haltExecution without doDumpStates.
LeaveLoopReturns ==
  /\ phase = "select"
  /\ haltExecution \/ (~seeding /\ states = {})
  /\ phase' = "done"
  /\ seeding' = FALSE
  /\ pool' = {}
  /\ UNCHANGED <<current, states, addedStates, removals, seedMap, depth,
                 result, todo, forks, pathsExplored, atMemoryLimit,
                 haltExecution>>

\* Either loop ends on haltExecution; the main one also when no state is
\* left.  The searcher is deleted and doDumpStates runs.
LeaveLoop ==
  /\ phase = "select"
  /\ haltExecution \/ (~seeding /\ states = {})
  /\ phase' = "dump"
  /\ seeding' = FALSE
  /\ pool' = {}
  /\ UNCHANGED <<current, states, addedStates, removals, seedMap, depth,
                 result, todo, forks, pathsExplored, atMemoryLimit,
                 haltExecution>>

-----------------------------------------------------------------------------
(* What an instruction can do to states: fork, branch, terminateState.     *)

\* fork() refuses to split outside seeding at the memory cap and at
\* --max-forks; with OnlyReplaySeeds a seeded state splits only when both
\* sides have a seed.
MaySplit(s, seeds1, seeds2) ==
  IF seedMap[s] = {}
  THEN ~(MaxMemoryInhibit /\ atMemoryLimit) /\ forks < MaxForks
  ELSE OnlyReplaySeeds => seeds1 # {} /\ seeds2 # {}

\* fork(), both sides feasible: a new state t, the seeds shared out by the
\* side they satisfy, and both states terminated early at --max-depth.
Fork(s, t) ==
  /\ phase = "execute"
  /\ s \in Active /\ t \in State \ Live
  /\ forks < ForkCap
  /\ \E moved \in SUBSET seedMap[s] :
       LET kept  == seedMap[s] \ moved
           seeds == [seedMap EXCEPT ![s] = kept, ![t] = moved]
           d     == depth[s] + 1
           dead  == IF MaxDepth # 0 /\ MaxDepth <= d THEN {s, t} ELSE {}
       IN /\ MaySplit(s, kept, moved)
          /\ depth' = [depth EXCEPT ![s] = d, ![t] = d]
          /\ Terminate(dead, addedStates \cup {t}, seeds)
  /\ forks' = forks + 1
  /\ UNCHANGED <<phase, seeding, current, states, pool, result, todo,
                 atMemoryLimit>>

\* terminateState*, from a solver timeout in fork() or executeMemoryOperation,
\* an error, a special function or the return from main.
TerminateActive(s) ==
  /\ phase = "execute"
  /\ s \in Active
  /\ Terminate({s}, addedStates, seedMap)
  /\ UNCHANGED <<phase, seeding, current, states, pool, depth, result, todo,
                 forks, atMemoryLimit>>

\* branch() on n conditions: the forks are counted first, then done one by
\* one, each from a random earlier result.
Branch(s, n) ==
  /\ phase = "execute"
  /\ s \in Active
  /\ forks < MaxForks /\ forks + n - 1 <= ForkCap
  /\ result' = {s} /\ todo' = n - 1
  /\ current' = current
  /\ forks' = forks + n - 1
  /\ phase' = "branch"
  /\ UNCHANGED <<seeding, states, addedStates, removals, pool, seedMap, depth,
                 pathsExplored, atMemoryLimit, haltExecution>>

\* One of those forks: the depth of both sides goes up.
BranchFork(s, t) ==
  /\ phase = "branch" /\ todo > 0
  /\ s \in result /\ t \in State \ Live
  /\ addedStates' = addedStates \cup {t}
  /\ result' = result \cup {t}
  /\ todo' = todo - 1
  /\ depth' = [depth EXCEPT ![s] = depth[s] + 1, ![t] = depth[s] + 1]
  /\ UNCHANGED <<phase, seeding, current, states, removals, pool, seedMap,
                 forks, pathsExplored, atMemoryLimit, haltExecution>>

\* The seeds of the branching state are dealt to the results by the condition
\* they satisfy; with OnlyReplaySeeds a result without a seed is terminated.
BranchSeeds ==
  /\ phase = "branch" /\ todo = 0
  /\ LET pot == UNION {seedMap[s] : s \in result} IN
     \E deal \in [pot -> result] :
       LET seeds == [s \in State |-> IF s \in result
                                     THEN {x \in pot : deal[x] = s}
                                     ELSE seedMap[s]]
           dead  == IF pot # {} /\ OnlyReplaySeeds
                    THEN {s \in result : seeds[s] = {}} ELSE {}
       IN Terminate(dead, addedStates, seeds)
  /\ result' = {}
  /\ phase' = "execute"
  /\ UNCHANGED <<seeding, current, states, pool, depth, todo, forks,
                 atMemoryLimit>>

\* branch() once --max-forks is reached: one condition is kept at random, and
\* the seeds that satisfy another one are dropped.
BranchInhibited(s) ==
  /\ phase = "execute"
  /\ s \in Active
  /\ forks >= MaxForks
  /\ seedMap[s] # {}
  /\ \E kept \in SUBSET seedMap[s] :
       Terminate(IF kept = {} /\ OnlyReplaySeeds THEN {s} ELSE {},
                 addedStates, [seedMap EXCEPT ![s] = kept])
  /\ UNCHANGED <<phase, seeding, current, states, pool, depth, result, todo,
                 forks, atMemoryLimit>>

EndInstruction ==
  /\ phase = "execute"
  /\ phase' = "timers"
  /\ UNCHANGED <<seeding, current, states, addedStates, removals, pool,
                 seedMap, depth, result, todo, forks, pathsExplored,
                 atMemoryLimit, haltExecution>>

-----------------------------------------------------------------------------
(* What follows the instruction: timers, the memory check, updateStates.   *)

AfterTimers == phase' = IF seeding THEN "update" ELSE "memory"

\* processTimers with nothing to do for the state, perhaps the HaltTimer.
Timers ==
  /\ phase = "timers"
  /\ AfterTimers
  /\ MayHalt
  /\ UNCHANGED <<seeding, current, states, addedStates, removals, pool,
                 seedMap, depth, result, todo, forks, pathsExplored,
                 atMemoryLimit>>

\* Defective: removedStates is not searched before the state is killed.
TimerKillAgain ==
  /\ phase = "timers"
  /\ InstructionTimeLimit
  /\ Terminate({current}, addedStates, seedMap)
  /\ AfterTimers
  /\ UNCHANGED <<seeding, current, states, pool, depth, result, todo, forks,
                 atMemoryLimit>>

\* processTimers, max-instruction-time exceeded: the state is killed unless
\* the instruction has already queued it for removal.
TimerKill ==
  /\ phase = "timers"
  /\ InstructionTimeLimit
  /\ current \notin Removed
  /\ Terminate({current}, addedStates, seedMap)
  /\ AfterTimers
  /\ UNCHANGED <<seeding, current, states, pool, depth, result, todo, forks,
                 atMemoryLimit>>

\* checkMemoryUsage below the hard cap: atMemoryLimit follows the usage, or is
\* left alone on the instructions that do not look.
CheckMemory ==
  /\ phase = "memory"
  /\ phase' = "update"
  /\ atMemoryLimit' \in IF MemoryLimit THEN BOOLEAN ELSE {atMemoryLimit}
  /\ UNCHANGED <<seeding, current, states, addedStates, removals, pool,
                 seedMap, depth, result, todo, forks, pathsExplored,
                 haltExecution>>

\* checkMemoryUsage 100 MB over the cap: some states of the set `states' are
\* terminated, whatever removedStates holds by then.
MemoryKill(K) ==
  /\ phase = "memory"
  /\ MemoryLimit
  /\ K # {}
  /\ Terminate(K, addedStates, seedMap)
  /\ atMemoryLimit' = TRUE
  /\ phase' = "update"
  /\ UNCHANGED <<seeding, current, states, pool, depth, result, todo, forks>>

\* Every entry of removedStates is found exactly once: what the searchers'
\* "invalid state removed" and the assertion on states.find both demand.
RemovalsFound ==
  \A s \in Removed : /\ removals[s] = 1
                     /\ s \in Live
                     /\ ~seeding => s \in pool \cup addedStates

\* Defective: removedStates is cleared before its states are erased.
ApplyUpdateKeepsRemoved ==
  /\ states' = states \cup addedStates
  /\ addedStates' = {}
  /\ removals' = [s \in State |-> 0]
  /\ seedMap' = [s \in State |-> IF s \in Removed THEN {} ELSE seedMap[s]]

\* Defective: seedMap keeps the entries of deleted states.
ApplyUpdateKeepsSeeds ==
  /\ states' = (states \cup addedStates) \ Removed
  /\ addedStates' = {}
  /\ removals' = [s \in State |-> 0]
  /\ seedMap' = seedMap

\* The whole of updateStates but its assertions.
ApplyUpdate ==
  /\ states' = (states \cup addedStates) \ Removed
  /\ addedStates' = {}
  /\ removals' = [s \in State |-> 0]
  /\ seedMap' = [s \in State |-> IF s \in Removed THEN {} ELSE seedMap[s]]

\* Defective: the searcher is not told of the added states.
UpdateStatesHidesAdded ==
  /\ phase = "update"
  /\ RemovalsFound
  /\ ApplyUpdate
  /\ \/ /\ phase' = "select"
        /\ pool' = IF seeding THEN pool ELSE pool \ Removed
        /\ UNCHANGED seeding
     \/ seeding /\ LeaveSeeding
  /\ UNCHANGED <<current, depth, result, todo, forks, pathsExplored,
                 atMemoryLimit, haltExecution>>

\* updateStates(&state) at the end of a loop iteration; the seeding loop may
\* then give up on SeedTime.
UpdateStates ==
  /\ phase = "update"
  /\ RemovalsFound
  /\ ApplyUpdate
  /\ \/ /\ phase' = "select"
        /\ pool' = IF seeding THEN pool ELSE (pool \cup addedStates) \ Removed
        /\ UNCHANGED seeding
     \/ seeding /\ LeaveSeeding
  /\ UNCHANGED <<current, depth, result, todo, forks, pathsExplored,
                 atMemoryLimit, haltExecution>>

\* One iteration of doDumpStates.
DumpState(s) ==
  /\ phase = "dump"
  /\ DumpStatesOnHalt
  /\ s \in states \ Removed
  /\ Terminate({s}, addedStates, seedMap)
  /\ UNCHANGED <<phase, seeding, current, states, pool, depth, result, todo,
                 forks, atMemoryLimit>>

\* updateStates(0) after the dump, when there is no searcher any more.
DumpDone ==
  /\ phase = "dump"
  /\ IF DumpStatesOnHalt
     THEN /\ states \subseteq Removed
          /\ \A s \in Removed : removals[s] = 1
          /\ ApplyUpdate
     ELSE UNCHANGED <<states, addedStates, removals, seedMap>>
  /\ phase' = "done"
  /\ UNCHANGED <<seeding, current, pool, depth, result, todo, forks,
                 pathsExplored, atMemoryLimit, haltExecution>>

\* An assertion of updateStates or of the searcher it calls fails.
UpdateAssertFails ==
  /\ phase = "update"
  /\ ~RemovalsFound
  /\ phase' = "crashed"
  /\ UNCHANGED <<seeding, current, states, addedStates, removals, pool,
                 seedMap, depth, result, todo, forks, pathsExplored,
                 atMemoryLimit, haltExecution>>

\* SIGINT: halt_execution() runs in the signal handler, at any point.
Interrupt ==
  /\ phase \notin {"done", "crashed"}
  /\ haltExecution' = TRUE
  /\ UNCHANGED <<phase, seeding, current, states, addedStates, removals, pool,
                 seedMap, depth, result, todo, forks, pathsExplored,
                 atMemoryLimit>>

-----------------------------------------------------------------------------
\* Steps that may create a state, and all the others.
SplitStep == \E s, t \in State : Fork(s, t) \/ BranchFork(s, t)

OtherStep ==
  \/ \E s \in State : \/ Select(s)
                      \/ SelectDuplicate(s)
                      \/ SelectInvalidPath(s)
                      \/ SeedSelect(s)
                      \/ TerminateActive(s)
                      \/ BranchInhibited(s)
                      \/ DumpState(s)
  \/ \E s \in State, n \in 2..MaxConditions : Branch(s, n)
  \/ \E K \in SUBSET states : MemoryKill(K)
  \/ SeedingDone
  \/ LeaveLoop
  \/ BranchSeeds
  \/ EndInstruction
  \/ Timers
  \/ TimerKill
  \/ CheckMemory
  \/ UpdateStates
  \/ UpdateAssertFails
  \/ DumpDone

Step == SplitStep \/ OtherStep

Next == Step \/ Interrupt

Spec == Init /\ [][Next]_vars

\* The loop is a sequential program: it never stops between two steps.
FairSpec == Spec /\ WF_vars(Step)

-----------------------------------------------------------------------------
(* Properties.                                                             *)

\* Executor.h:201,206: addedStates and removedStates are disjoint, and
\* removedStates is a subset of states, at every point of an instruction.
QueuesDisjoint == Removed \cap addedStates = {} /\ Removed \subseteq states

\* Outside an instruction the searcher, `states' and the queues agree.
SearcherAgrees ==
  phase = "select" => /\ addedStates = {} /\ Removed = {}
                      /\ ~seeding => pool = states

\* Every path that was ever forked is either still running or has been counted
\* by incPathsExplored exactly once; branch() counts its forks ahead.
PathAccounting ==
  pathsExplored + Cardinality(Running) + todo = 1 + forks

\* A seed drives one state only, and never a state that has been deleted.
SeedOwnership ==
  \A s \in State : seedMap[s] # {} =>
    /\ s \in Live
    /\ \A t \in State \ {s} : seedMap[s] \cap seedMap[t] = {}

\* --dump-states-on-halt: when run() returns, every path has been explored or
\* dumped, none is lost.
AllPathsAccounted ==
  phase = "done" /\ DumpStatesOnHalt => states = {} /\ pathsExplored = 1 + forks

\* A state that was terminated is never selected again, by a later iteration or
\* by the seeding loop: it stays queued until it is deleted.
NoResurrection ==
  [][ /\ \A s \in Removed : removals'[s] > 0 \/ s \notin states'
      /\ phase = "select" /\ phase' = "execute"
           => current' \in states /\ removals[current'] = 0 ]_vars

\* What the assertions at Executor.cpp:2716 and Searcher.cpp:94 say: an entry of
\* removedStates is found, because no state is ever queued twice although the
\* instruction, the timers, the memory check and the dump each call
\* terminateState on their own.
NeverCrashes == phase # "crashed"

\* Once halting is requested the run ends: it returns, or an assertion fails.
HaltEndsRun == haltExecution ~> phase \in {"done", "crashed"}

\* The one way updateStates can meet an assertion failure: the memory check
\* terminated the selected state, which the iteration had already terminated.
CrashOnlyFromMemoryCheck ==
  phase = "crashed" => MemoryLimit /\ {s \in State : removals[s] > 1} = {current}

-----------------------------------------------------------------------------
(* The inductive invariant behind the safety properties.                   *)

InIteration == {"execute", "branch", "timers", "memory", "update"}

\* Who may be queued: between iterations nobody; during one the selected
\* state, once; the memory check adds states of its own choice.
QueueInv ==
  /\ addedStates \cap states = {} /\ Removed \subseteq states
  /\ phase \notin InIteration \cup {"crashed"} => addedStates = {}
  /\ phase \in {"select", "done"} => Removed = {}
  /\ phase = "dump" /\ ~DumpStatesOnHalt => Removed = {}
  /\ phase \in InIteration => current \in states
  /\ phase \in {"execute", "branch", "timers", "memory"} =>
       Removed \subseteq {current}
  /\ \A s \in State :
       removals[s] > 1 => /\ MemoryLimit /\ s = current
                          /\ phase \in {"update", "crashed"}

\* Where the searcher, branch() and a crash can be.
LoopInv ==
  /\ phase \in InIteration \cup {"select"} /\ ~seeding => pool = states
  /\ seeding => phase \in {"select", "execute", "branch", "timers", "update",
                           "crashed"}
  /\ result \subseteq Active
  /\ phase # "branch" => result = {} /\ todo = 0
  /\ phase = "crashed" => MemoryLimit /\ removals[current] > 1

IInv == TypeOK /\ QueueInv /\ LoopInv /\ SeedOwnership

=============================================================================
