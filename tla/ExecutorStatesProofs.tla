------------------------ MODULE ExecutorStatesProofs ------------------------
(***************************************************************************)
(* What ExecutorStates promises for every set of states, every set of      *)
(* seeds and every combination of flags.                                   *)
(***************************************************************************)
EXTENDS ExecutorStates, FiniteSetTheorems, TLAPS

USE ConfigAssumption DEF ConfigAssumption

\* What a call of terminateState leaves in the variables it writes.
LEMMA TerminateType ==
  ASSUME TypeOK, NEW T \in SUBSET State, NEW added \in SUBSET State,
         NEW seeds \in [State -> SUBSET Seeds], Terminate(T, added, seeds)
  PROVE  /\ addedStates' \in SUBSET State
         /\ removals' \in [State -> Nat]
         /\ seedMap' \in [State -> SUBSET Seeds]
         /\ pathsExplored' \in Nat
         /\ haltExecution' \in BOOLEAN
<1>1. Cardinality(T) \in Nat
  BY FS_Subset, FS_CardinalityType
<1>2. pathsExplored' \in Nat
  BY <1>1 DEF Terminate, TypeOK
<1>3. removals' \in [State -> Nat]
  BY DEF Terminate, TypeOK
<1>4. QED
  BY <1>2, <1>3 DEF Terminate, TypeOK, MayHalt

\* No step of the run loop leaves the types of its variables.
LEMMA TypeStep == TypeOK /\ [Next]_vars => TypeOK'
<1> SUFFICES ASSUME TypeOK, [Next]_vars PROVE TypeOK'
  OBVIOUS
<1>1. ASSUME NEW s \in State, Select(s) PROVE TypeOK'
  BY <1>1 DEF Select, MayHalt, TypeOK, Phases
<1>2. ASSUME NEW s \in State, SelectDuplicate(s) PROVE TypeOK'
  <2>1. Terminate({s}, addedStates, seedMap)
    BY <1>2 DEF SelectDuplicate
  <2>2. QED
    BY <1>2, <2>1, TerminateType DEF SelectDuplicate, TypeOK, Phases
<1>3. ASSUME NEW s \in State, SelectInvalidPath(s) PROVE TypeOK'
  <2>1. Terminate({s}, addedStates, seedMap)
    BY <1>3 DEF SelectInvalidPath
  <2>2. QED
    BY <1>3, <2>1, TerminateType DEF SelectInvalidPath, TypeOK, Phases
<1>4. ASSUME NEW s \in State, SeedSelect(s) PROVE TypeOK'
  BY <1>4 DEF SeedSelect, MayHalt, TypeOK, Phases
<1>5. CASE SeedingDone
  BY <1>5 DEF SeedingDone, LeaveSeeding, TypeOK, Phases
<1>6. CASE LeaveLoop
  BY <1>6 DEF LeaveLoop, TypeOK, Phases
<1>7. ASSUME NEW s \in State, NEW t \in State, Fork(s, t) PROVE TypeOK'
  <2>1. PICK moved \in SUBSET seedMap[s] :
          LET kept  == seedMap[s] \ moved
              seeds == [seedMap EXCEPT ![s] = kept, ![t] = moved]
              d     == depth[s] + 1
              dead  == IF MaxDepth # 0 /\ MaxDepth <= d THEN {s, t} ELSE {}
          IN /\ depth' = [depth EXCEPT ![s] = d, ![t] = d]
             /\ Terminate(dead, addedStates \cup {t}, seeds)
    BY <1>7 DEF Fork
  <2> DEFINE seeds == [seedMap EXCEPT ![s] = seedMap[s] \ moved, ![t] = moved]
             dead  == IF MaxDepth # 0 /\ MaxDepth <= depth[s] + 1
                      THEN {s, t} ELSE {}
  <2>2. /\ Terminate(dead, addedStates \cup {t}, seeds)
        /\ depth' \in [State -> Nat]
    BY <2>1 DEF TypeOK
  <2>3. /\ dead \in SUBSET State
        /\ addedStates \cup {t} \in SUBSET State
        /\ seeds \in [State -> SUBSET Seeds]
    BY DEF TypeOK
  <2> HIDE DEF seeds, dead
  <2>4. /\ addedStates' \in SUBSET State
        /\ removals' \in [State -> Nat]
        /\ seedMap' \in [State -> SUBSET Seeds]
        /\ pathsExplored' \in Nat
        /\ haltExecution' \in BOOLEAN
    BY <2>2, <2>3, TerminateType
  <2>5. QED
    BY <1>7, <2>2, <2>4 DEF Fork, TypeOK, Phases
<1>8. ASSUME NEW s \in State, TerminateActive(s) PROVE TypeOK'
  <2>1. Terminate({s}, addedStates, seedMap)
    BY <1>8 DEF TerminateActive
  <2>2. QED
    BY <1>8, <2>1, TerminateType DEF TerminateActive, TypeOK, Phases
<1>9. ASSUME NEW s \in State, NEW n \in 2..MaxConditions, Branch(s, n)
      PROVE  TypeOK'
  BY <1>9 DEF Branch, TypeOK, Phases
<1>10. ASSUME NEW s \in State, NEW t \in State, BranchFork(s, t)
       PROVE  TypeOK'
  BY <1>10 DEF BranchFork, TypeOK, Phases
<1>11. CASE BranchSeeds
  <2> DEFINE pot == UNION {seedMap[s] : s \in result}
             Seeded(deal) == [s \in State |-> IF s \in result
                                              THEN {x \in pot : deal[x] = s}
                                              ELSE seedMap[s]]
  <2>1. PICK deal \in [pot -> result] :
          Terminate(IF pot # {} /\ OnlyReplaySeeds
                    THEN {s \in result : Seeded(deal)[s] = {}} ELSE {},
                    addedStates, Seeded(deal))
    BY <1>11 DEF BranchSeeds
  <2>2. Seeded(deal) \in [State -> SUBSET Seeds]
    <3>1. pot \subseteq Seeds
      BY DEF TypeOK
    <3>2. \A s \in State : seedMap[s] \subseteq Seeds
      BY DEF TypeOK
    <3> HIDE DEF pot
    <3>3. QED
      BY <3>1, <3>2
  <2>3. (IF pot # {} /\ OnlyReplaySeeds
         THEN {s \in result : Seeded(deal)[s] = {}} ELSE {}) \in SUBSET State
    BY DEF TypeOK
  <2>4. addedStates \in SUBSET State
    BY DEF TypeOK
  <2> HIDE DEF Seeded, pot
  <2>5. /\ addedStates' \in SUBSET State
        /\ removals' \in [State -> Nat]
        /\ seedMap' \in [State -> SUBSET Seeds]
        /\ pathsExplored' \in Nat
        /\ haltExecution' \in BOOLEAN
    BY <2>1, <2>2, <2>3, <2>4, TerminateType
  <2>6. QED
    BY <1>11, <2>5 DEF BranchSeeds, TypeOK, Phases
<1>12. ASSUME NEW s \in State, BranchInhibited(s) PROVE TypeOK'
  <2>1. PICK kept \in SUBSET seedMap[s] :
          Terminate(IF kept = {} /\ OnlyReplaySeeds THEN {s} ELSE {},
                    addedStates, [seedMap EXCEPT ![s] = kept])
    BY <1>12 DEF BranchInhibited
  <2>2. /\ [seedMap EXCEPT ![s] = kept] \in [State -> SUBSET Seeds]
        /\ addedStates \in SUBSET State
        /\ (IF kept = {} /\ OnlyReplaySeeds THEN {s} ELSE {})
              \in SUBSET State
    BY DEF TypeOK
  <2>3. /\ addedStates' \in SUBSET State
        /\ removals' \in [State -> Nat]
        /\ seedMap' \in [State -> SUBSET Seeds]
        /\ pathsExplored' \in Nat
        /\ haltExecution' \in BOOLEAN
    BY <2>1, <2>2, TerminateType
  <2>4. QED
    BY <1>12, <2>3 DEF BranchInhibited, TypeOK, Phases
<1>13. CASE EndInstruction
  BY <1>13 DEF EndInstruction, TypeOK, Phases
<1>14. CASE Timers
  BY <1>14 DEF Timers, AfterTimers, MayHalt, TypeOK, Phases
<1>15. CASE TimerKill
  <2>1. Terminate({current}, addedStates, seedMap)
    BY <1>15 DEF TimerKill
  <2>2. QED
    BY <1>15, <2>1, TerminateType DEF TimerKill, AfterTimers, TypeOK, Phases
<1>16. CASE CheckMemory
  BY <1>16 DEF CheckMemory, TypeOK, Phases
<1>17. ASSUME NEW K \in SUBSET states, MemoryKill(K) PROVE TypeOK'
  <2>1. Terminate(K, addedStates, seedMap) /\ K \in SUBSET State
    BY <1>17 DEF MemoryKill, TypeOK
  <2>2. QED
    BY <1>17, <2>1, TerminateType DEF MemoryKill, TypeOK, Phases
<1>18. ASSUME ApplyUpdate
       PROVE  /\ states' \in SUBSET State
              /\ addedStates' \in SUBSET State
              /\ removals' \in [State -> Nat]
              /\ seedMap' \in [State -> SUBSET Seeds]
  BY <1>18 DEF ApplyUpdate, TypeOK
<1>19. CASE UpdateStates
  BY <1>18, <1>19 DEF UpdateStates, LeaveSeeding, TypeOK, Phases
<1>20. CASE UpdateAssertFails
  BY <1>20 DEF UpdateAssertFails, TypeOK, Phases
<1>21. ASSUME NEW s \in State, DumpState(s) PROVE TypeOK'
  <2>1. Terminate({s}, addedStates, seedMap)
    BY <1>21 DEF DumpState
  <2>2. QED
    BY <1>21, <2>1, TerminateType DEF DumpState, TypeOK, Phases
<1>22. CASE DumpDone
  BY <1>18, <1>22 DEF DumpDone, TypeOK, Phases
<1>23. CASE Interrupt
  BY <1>23 DEF Interrupt, TypeOK, Phases
<1>24. CASE UNCHANGED vars
  BY <1>24 DEF vars, TypeOK
<1>25. QED
  BY <1>1, <1>2, <1>3, <1>4, <1>5, <1>6, <1>7, <1>8, <1>9, <1>10, <1>11,
     <1>12, <1>13, <1>14, <1>15, <1>16, <1>17, <1>19, <1>20, <1>21, <1>22,
     <1>23, <1>24
  DEF Next, Step, SplitStep, OtherStep

\* The variables start with their types.
LEMMA InitType == Init => TypeOK
<1> SUFFICES ASSUME Init PROVE TypeOK
  OBVIOUS
<1>1. seeding \in BOOLEAN
  BY Zenon DEF Init
<1>2. pool \in SUBSET State /\ states \in SUBSET State
  BY DEF Init
<1>3. seedMap \in [State -> SUBSET Seeds]
  <2>1. PICK usingSeeds \in SUBSET Seeds :
          seedMap = [s \in State |-> IF s = InitialState THEN usingSeeds
                                                        ELSE {}]
    BY Zenon DEF Init
  <2>2. QED
    BY <2>1
<1>4. /\ phase \in Phases /\ current \in State
      /\ addedStates \in SUBSET State /\ result \in SUBSET State
      /\ removals \in [State -> Nat] /\ depth \in [State -> Nat]
  BY DEF Init, Phases
<1>5. /\ todo \in Nat /\ forks \in Nat /\ pathsExplored \in Nat
      /\ atMemoryLimit \in BOOLEAN /\ haltExecution \in BOOLEAN
  BY DEF Init
<1>6. QED
  BY <1>1, <1>2, <1>3, <1>4, <1>5 DEF TypeOK

\* Every variable keeps its type in every behaviour.
THEOREM TypeCorrect == Spec => []TypeOK
BY InitType, TypeStep, PTL DEF Spec

-----------------------------------------------------------------------------
\* The queues and the searcher agree from the first state on.
LEMMA InitInv == Init => QueueInv /\ LoopInv
<1> SUFFICES ASSUME Init PROVE QueueInv /\ LoopInv
  OBVIOUS
<1>1. /\ phase = "select" /\ addedStates = {} /\ result = {} /\ todo = 0
      /\ \A s \in State : removals[s] = 0
  BY DEF Init
<1>2. ~seeding => pool = states
  <2>1. PICK usingSeeds \in SUBSET Seeds :
          /\ seeding = (usingSeeds # {})
          /\ pool = IF usingSeeds # {} THEN {} ELSE {InitialState}
    BY Zenon DEF Init
  <2>2. CASE usingSeeds = {}
    BY <2>1, <2>2 DEF Init
  <2>3. CASE usingSeeds # {}
    BY Zenon, <2>1, <2>3
  <2>4. QED
    BY <2>2, <2>3
<1>3. Removed = {}
  BY <1>1 DEF Removed
<1>4. QueueInv
  BY <1>1, <1>3 DEF QueueInv, InIteration
<1>5. LoopInv
  BY <1>1, <1>2, <1>3 DEF LoopInv, InIteration
<1>6. QED
  BY <1>4, <1>5

\* terminateState on states the instruction owns keeps the queues apart:
\* a state of addedStates leaves it, only the selected one is queued.
LEMMA TerminateOwned ==
  ASSUME TypeOK, QueueInv, LoopInv,
         phase \in {"execute", "branch", "timers"},
         NEW T \in SUBSET State, NEW added \in SUBSET State, NEW seeds,
         T \subseteq (added \cup {current}) \ Removed,
         added \cap states = {},
         Terminate(T, added, seeds), UNCHANGED <<states, current>>
  PROVE  /\ addedStates' \cap states' = {}
         /\ addedStates' = added \ T
         /\ Removed' = Removed \cup (T \ added)
         /\ Removed' \subseteq {current'} /\ current' \in states'
         /\ \A s \in State : removals'[s] <= 1
<1>1. \A s \in State : removals'[s] = IF s \in T \ added
                                      THEN removals[s] + 1 ELSE removals[s]
  BY DEF Terminate
<1>2. \A s \in State : s \in T => removals[s] = 0
  BY DEF Removed, TypeOK
<1>3. /\ Removed \subseteq {current} /\ current \in states
      /\ \A s \in State : removals[s] <= 1
  BY DEF QueueInv, InIteration, TypeOK
<1>4. Removed' = Removed \cup (T \ added)
  BY <1>1, <1>2 DEF Removed, TypeOK
<1>5. \A s \in State : removals'[s] <= 1
  BY <1>1, <1>2, <1>3 DEF TypeOK
<1>6. QED
  BY <1>3, <1>4, <1>5 DEF Terminate

\* Actions that write neither the queues nor `states'.
QueuesUnchanged == UNCHANGED <<states, addedStates, removals>>

LEMMA InvStep == IInv /\ [Next]_vars => (QueueInv /\ LoopInv)'
<1> SUFFICES ASSUME TypeOK, QueueInv, LoopInv, SeedOwnership, [Next]_vars
             PROVE  (QueueInv /\ LoopInv)'
  BY DEF IInv
<1> USE DEF InIteration
<1>0. ASSUME QueuesUnchanged
      PROVE  Removed' = Removed /\ Live' = Live
  BY <1>0 DEF QueuesUnchanged, Removed, Live
<1>1. ASSUME NEW s \in State, Select(s) PROVE (QueueInv /\ LoopInv)'
  <2>1. Removed' = Removed /\ Live' = Live
    BY <1>0, <1>1 DEF Select, QueuesUnchanged
  <2>2. Removed = {} /\ s \in states /\ pool = states
    BY <1>1 DEF Select, CanSelect, QueueInv, LoopInv
  <2>3. QED
    BY <1>1, <2>1, <2>2 DEF Select, CanSelect, QueueInv, LoopInv
<1>2. ASSUME NEW s \in State, SelectDuplicate(s) \/ SelectInvalidPath(s)
      PROVE  (QueueInv /\ LoopInv)'
  <2>1. /\ phase = "select" /\ ~seeding /\ pool = states /\ s \in states
        /\ addedStates = {} /\ Removed = {} /\ result = {}
    BY <1>2 DEF SelectDuplicate, SelectInvalidPath, CanSelect, QueueInv,
                LoopInv
  <2>2. /\ current' = s /\ UNCHANGED <<states, pool, seeding, result, todo>>
        /\ phase' \in {"update", "timers"}
        /\ Terminate({s}, addedStates, seedMap)
    BY <1>2 DEF SelectDuplicate, SelectInvalidPath
  <2>3. \A x \in State : removals[x] = 0
    BY <2>1 DEF Removed, TypeOK
  <2>4. /\ addedStates' = {} /\ Removed' = {s}
        /\ \A x \in State : removals'[x] <= 1
    BY <2>1, <2>2, <2>3 DEF Terminate, Removed
  <2>5. QueueInv'
    BY <2>1, <2>2, <2>4 DEF QueueInv, TypeOK, Terminate
  <2>6. LoopInv'
    BY <2>1, <2>2, <2>4 DEF LoopInv
  <2>7. QED
    BY <2>5, <2>6
<1>3. ASSUME NEW s \in State, SeedSelect(s) PROVE (QueueInv /\ LoopInv)'
  <2>1. Removed' = Removed /\ Live' = Live
    BY <1>0, <1>3 DEF SeedSelect, QueuesUnchanged
  <2>2. Removed = {} /\ s \in states
    BY <1>3 DEF SeedSelect, QueueInv, SeedOwnership, Live
  <2>3. QED
    BY <1>3, <2>1, <2>2 DEF SeedSelect, QueueInv, LoopInv
<1>4. CASE SeedingDone
  <2>1. Removed' = Removed /\ Live' = Live
    BY <1>0, <1>4 DEF SeedingDone, QueuesUnchanged
  <2>2. QED
    BY <1>4, <2>1 DEF SeedingDone, LeaveSeeding, QueueInv, LoopInv
<1>5. CASE LeaveLoop
  <2>1. Removed' = Removed /\ Live' = Live
    BY <1>0, <1>5 DEF LeaveLoop, QueuesUnchanged
  <2>2. QED
    BY <1>5, <2>1 DEF LeaveLoop, QueueInv, LoopInv
<1>6. ASSUME NEW s \in State, NEW t \in State, Fork(s, t)
      PROVE  (QueueInv /\ LoopInv)'
  <2>1. PICK dead, seeds :
          /\ dead \in SUBSET {s, t}
          /\ Terminate(dead, addedStates \cup {t}, seeds)
    <3>1. PICK moved \in SUBSET seedMap[s] :
            Terminate(IF MaxDepth # 0 /\ MaxDepth <= depth[s] + 1
                      THEN {s, t} ELSE {}, addedStates \cup {t},
                      [seedMap EXCEPT ![s] = seedMap[s] \ moved,
                                      ![t] = moved])
      BY <1>6 DEF Fork
    <3>2. (IF MaxDepth # 0 /\ MaxDepth <= depth[s] + 1
           THEN {s, t} ELSE {}) \in SUBSET {s, t}
      OBVIOUS
    <3>3. QED
      BY <3>1, <3>2
  <2>2. /\ phase = "execute" /\ s \in Active /\ t \notin Live
        /\ UNCHANGED <<phase, seeding, current, states, pool, result, todo>>
    BY <1>6 DEF Fork
  <2>3. /\ dead \in SUBSET State
        /\ addedStates \cup {t} \in SUBSET State
        /\ dead \subseteq (addedStates \cup {t} \cup {current}) \ Removed
        /\ (addedStates \cup {t}) \cap states = {}
    BY <2>1, <2>2 DEF Active, Live, QueueInv, TypeOK
  <2>4. /\ addedStates' \cap states' = {}
        /\ Removed' \subseteq {current'} /\ current' \in states'
        /\ \A x \in State : removals'[x] <= 1
    BY <2>1, <2>2, <2>3, TerminateOwned
  <2>5. QueueInv'
    BY <2>2, <2>4, TypeStep DEF QueueInv, TypeOK
  <2>6. LoopInv'
    BY <2>2 DEF LoopInv
  <2>7. QED
    BY <2>5, <2>6
<1>7. ASSUME NEW s \in State, TerminateActive(s) PROVE (QueueInv /\ LoopInv)'
  <2>1. /\ phase = "execute" /\ s \in Active
        /\ UNCHANGED <<phase, seeding, current, states, pool, result, todo>>
        /\ Terminate({s}, addedStates, seedMap)
    BY <1>7 DEF TerminateActive
  <2>2. {s} \subseteq (addedStates \cup {current}) \ Removed
    BY <2>1 DEF Active
  <2>3. addedStates \in SUBSET State /\ addedStates \cap states = {}
    BY DEF QueueInv, TypeOK
  <2>4. /\ addedStates' \cap states' = {}
        /\ Removed' \subseteq {current'} /\ current' \in states'
        /\ \A x \in State : removals'[x] <= 1
    BY <2>1, <2>2, <2>3, TerminateOwned
  <2>5. QueueInv'
    BY <2>1, <2>4, TypeStep DEF QueueInv, TypeOK
  <2>6. LoopInv'
    BY <2>1 DEF LoopInv
  <2>7. QED
    BY <2>5, <2>6
<1>8. ASSUME NEW s \in State, NEW n \in 2..MaxConditions, Branch(s, n)
      PROVE  (QueueInv /\ LoopInv)'
  <2>1. Removed' = Removed /\ Live' = Live
    BY <1>0, <1>8 DEF Branch, QueuesUnchanged
  <2>2. s \in Active /\ Active' = Active
    BY <1>8, <2>1 DEF Branch, Active
  <2>3. QED
    BY <1>8, <2>1, <2>2 DEF Branch, QueueInv, LoopInv
<1>9. ASSUME NEW s \in State, NEW t \in State, BranchFork(s, t)
      PROVE  (QueueInv /\ LoopInv)'
  <2>1. Removed' = Removed /\ Live' = Live \cup {t}
    BY <1>9 DEF BranchFork, Removed, Live
  <2>2. t \notin Live /\ t \notin Removed /\ t \notin states
    BY <1>9 DEF BranchFork, QueueInv, Live
  <2>3. Active' = Active \cup {t}
    BY <1>9, <2>1, <2>2 DEF BranchFork, Active
  <2>4. QED
    BY <1>9, <2>1, <2>2, <2>3 DEF BranchFork, QueueInv, LoopInv
<1>10. CASE BranchSeeds
  <2>1. PICK dead, seeds :
          /\ dead \in SUBSET result
          /\ Terminate(dead, addedStates, seeds)
    <3> DEFINE pot == UNION {seedMap[s] : s \in result}
               Seeded(deal) == [s \in State |-> IF s \in result
                                                THEN {x \in pot : deal[x] = s}
                                                ELSE seedMap[s]]
               Dead(deal) == IF pot # {} /\ OnlyReplaySeeds
                             THEN {s \in result : Seeded(deal)[s] = {}}
                             ELSE {}
    <3>1. PICK deal \in [pot -> result] :
            Terminate(Dead(deal), addedStates, Seeded(deal))
      BY <1>10 DEF BranchSeeds
    <3>2. Dead(deal) \in SUBSET result
      OBVIOUS
    <3>3. QED
      BY <3>1, <3>2
  <2>2. /\ phase = "branch" /\ phase' = "execute" /\ result' = {}
        /\ todo' = 0 /\ UNCHANGED <<seeding, current, states, pool>>
    BY <1>10 DEF BranchSeeds
  <2>3. /\ dead \in SUBSET State /\ addedStates \in SUBSET State
        /\ addedStates \cap states = {}
    BY <2>1 DEF QueueInv, TypeOK
  <2>4. dead \subseteq (addedStates \cup {current}) \ Removed
    BY <2>1 DEF LoopInv, Active
  <2>5. /\ addedStates' \cap states' = {}
        /\ Removed' \subseteq {current'} /\ current' \in states'
        /\ \A x \in State : removals'[x] <= 1
    BY <2>1, <2>2, <2>3, <2>4, TerminateOwned
  <2>6. QueueInv'
    BY <2>2, <2>5, TypeStep DEF QueueInv, TypeOK
  <2>7. LoopInv'
    BY <2>2 DEF LoopInv
  <2>8. QED
    BY <2>6, <2>7
<1>11. ASSUME NEW s \in State, BranchInhibited(s) PROVE (QueueInv /\ LoopInv)'
  <2>1. PICK dead, seeds :
          /\ dead \in SUBSET {s}
          /\ Terminate(dead, addedStates, seeds)
    <3>1. PICK kept \in SUBSET seedMap[s] :
            Terminate(IF kept = {} /\ OnlyReplaySeeds THEN {s} ELSE {},
                      addedStates, [seedMap EXCEPT ![s] = kept])
      BY <1>11 DEF BranchInhibited
    <3>2. (IF kept = {} /\ OnlyReplaySeeds THEN {s} ELSE {}) \in SUBSET {s}
      OBVIOUS
    <3>3. QED
      BY <3>1, <3>2
  <2>2. /\ phase = "execute" /\ s \in Active
        /\ UNCHANGED <<phase, seeding, current, states, pool, result, todo>>
    BY <1>11 DEF BranchInhibited
  <2>3. /\ dead \subseteq (addedStates \cup {current}) \ Removed
        /\ dead \in SUBSET State /\ addedStates \in SUBSET State
        /\ addedStates \cap states = {}
    BY <2>1, <2>2 DEF Active, QueueInv, TypeOK
  <2>4. /\ addedStates' \cap states' = {}
        /\ Removed' \subseteq {current'} /\ current' \in states'
        /\ \A x \in State : removals'[x] <= 1
    BY <2>1, <2>2, <2>3, TerminateOwned
  <2>5. QueueInv'
    BY <2>2, <2>4, TypeStep DEF QueueInv, TypeOK
  <2>6. LoopInv'
    BY <2>2 DEF LoopInv
  <2>7. QED
    BY <2>5, <2>6
<1>12. CASE EndInstruction \/ Timers \/ CheckMemory
  <2>1. Removed' = Removed /\ Live' = Live
    BY <1>0, <1>12 DEF EndInstruction, Timers, CheckMemory, QueuesUnchanged
  <2>2. QED
    BY <1>12, <2>1 DEF EndInstruction, Timers, CheckMemory, AfterTimers,
                       QueueInv, LoopInv, TypeOK
<1>13. CASE TimerKill
  <2>1. /\ phase = "timers" /\ current \notin Removed /\ AfterTimers
        /\ UNCHANGED <<seeding, current, states, pool, result, todo>>
        /\ Terminate({current}, addedStates, seedMap)
    BY <1>13 DEF TimerKill
  <2>2. {current} \subseteq (addedStates \cup {current}) \ Removed
    BY <2>1
  <2>3. /\ {current} \in SUBSET State /\ addedStates \in SUBSET State
        /\ addedStates \cap states = {}
    BY DEF QueueInv, TypeOK
  <2>4. /\ addedStates' \cap states' = {}
        /\ Removed' \subseteq {current'} /\ current' \in states'
        /\ \A x \in State : removals'[x] <= 1
    BY <2>1, <2>2, <2>3, TerminateOwned
  <2>5. QueueInv'
    BY <2>1, <2>4, TypeStep DEF QueueInv, AfterTimers, TypeOK
  <2>6. LoopInv'
    BY <2>1 DEF LoopInv, AfterTimers
  <2>7. QED
    BY <2>5, <2>6
<1>14. ASSUME NEW K \in SUBSET states, MemoryKill(K)
       PROVE  (QueueInv /\ LoopInv)'
  <2>1. /\ phase = "memory" /\ phase' = "update" /\ MemoryLimit
        /\ UNCHANGED <<seeding, current, states, pool, result, todo>>
        /\ Terminate(K, addedStates, seedMap)
    BY <1>14 DEF MemoryKill
  <2>2. /\ addedStates' = addedStates
        /\ \A x \in State : removals'[x] = IF x \in K THEN removals[x] + 1
                                                      ELSE removals[x]
    BY <2>1 DEF Terminate, QueueInv, TypeOK
  <2>3. Removed' \subseteq Removed \cup K
    BY <2>2 DEF Removed, TypeOK
  <2>4. \A x \in State : removals'[x] > 1 => x = current
    BY <2>1, <2>2 DEF QueueInv, Removed, TypeOK
  <2>5. QueueInv'
    BY <2>1, <2>2, <2>3, <2>4 DEF QueueInv
  <2>6. LoopInv'
    BY <2>1 DEF LoopInv
  <2>7. QED
    BY <2>5, <2>6
<1>15. CASE UpdateStates
  <2>1. /\ phase = "update" /\ ApplyUpdate
        /\ UNCHANGED <<current, result, todo>>
    BY <1>15 DEF UpdateStates
  <2>2. Removed' = {} /\ addedStates' = {}
    BY <2>1 DEF ApplyUpdate, Removed
  <2>3. \A x \in State : removals'[x] = 0
    BY <2>1 DEF ApplyUpdate
  <2>4. /\ phase' \in {"select", "dump"}
        /\ seeding' => phase' = "select"
        /\ phase' = "select" /\ ~seeding' => pool' = states'
    BY <1>15, <2>1 DEF UpdateStates, LeaveSeeding, ApplyUpdate, LoopInv
  <2>5. QueueInv'
    BY <2>2, <2>3, <2>4 DEF QueueInv
  <2>6. LoopInv'
    BY <2>1, <2>2, <2>4 DEF LoopInv
  <2>7. QED
    BY <2>5, <2>6
<1>16. CASE UpdateAssertFails
  <2>1. Removed' = Removed /\ Live' = Live
    BY <1>0, <1>16 DEF UpdateAssertFails, QueuesUnchanged
  <2>2. PICK s \in Removed : removals[s] > 1
    BY <1>16 DEF UpdateAssertFails, RemovalsFound, QueueInv, LoopInv, Live,
                 Removed, TypeOK
  <2>3. MemoryLimit /\ s = current
    BY <2>2 DEF QueueInv, Removed
  <2>4. QED
    BY <1>16, <2>1, <2>2, <2>3 DEF UpdateAssertFails, QueueInv, LoopInv
<1>17. ASSUME NEW s \in State, DumpState(s) PROVE (QueueInv /\ LoopInv)'
  <2>1. /\ phase = "dump" /\ s \in states \ Removed
        /\ UNCHANGED <<phase, seeding, current, states, pool, result, todo>>
        /\ Terminate({s}, addedStates, seedMap)
    BY <1>17 DEF DumpState
  <2>2. /\ addedStates = {} /\ addedStates' = {}
        /\ \A x \in State : removals'[x] = IF x = s THEN removals[x] + 1
                                                    ELSE removals[x]
    BY <2>1 DEF Terminate, QueueInv
  <2>3. removals[s] = 0
    BY <2>1 DEF Removed, TypeOK
  <2>4. Removed' = Removed \cup {s}
    BY <2>2, <2>3 DEF Removed, TypeOK
  <2>5. \A x \in State : removals'[x] <= 1
    BY <2>1, <2>2, <2>3 DEF QueueInv, TypeOK
  <2>6. DumpStatesOnHalt
    BY <1>17 DEF DumpState
  <2>7. QueueInv'
    BY <2>1, <2>2, <2>4, <2>5, <2>6, TypeStep DEF QueueInv, TypeOK
  <2>8. LoopInv'
    BY <2>1 DEF LoopInv
  <2>9. QED
    BY <2>7, <2>8
<1>18. CASE DumpDone
  <2>1. phase = "dump" /\ phase' = "done" /\ UNCHANGED <<seeding, result, todo>>
    BY <1>18 DEF DumpDone
  <2>2. CASE DumpStatesOnHalt
    <3>1. ApplyUpdate
      BY <1>18, <2>2 DEF DumpDone
    <3>2. /\ Removed' = {} /\ addedStates' = {}
          /\ \A x \in State : removals'[x] = 0
      BY <3>1 DEF ApplyUpdate, Removed
    <3>3. QED
      BY <2>1, <3>2 DEF QueueInv, LoopInv
  <2>3. CASE ~DumpStatesOnHalt
    <3>1. QueuesUnchanged
      BY <1>18, <2>3 DEF DumpDone, QueuesUnchanged
    <3>2. Removed' = Removed /\ Live' = Live
      BY <1>0, <3>1
    <3>3. Removed = {} /\ addedStates = {}
      BY <2>1, <2>3 DEF QueueInv
    <3>4. QueueInv'
      BY <2>1, <3>1, <3>2, <3>3 DEF QueuesUnchanged, QueueInv, TypeOK
    <3>5. LoopInv'
      BY <2>1 DEF LoopInv
    <3>6. QED
      BY <3>4, <3>5
  <2>4. QED
    BY <2>2, <2>3
<1>19. CASE Interrupt
  <2>1. Removed' = Removed /\ Live' = Live
    BY <1>0, <1>19 DEF Interrupt, QueuesUnchanged
  <2>2. Active' = Active
    BY <1>19, <2>1 DEF Interrupt, Active
  <2>3. QED
    BY <1>19, <2>1, <2>2 DEF Interrupt, QueueInv, LoopInv
<1>20. CASE UNCHANGED vars
  <2>1. Removed' = Removed /\ Live' = Live
    BY <1>0, <1>20 DEF vars, QueuesUnchanged
  <2>2. Active' = Active
    BY <1>20, <2>1 DEF vars, Active
  <2>3. QED
    BY <1>20, <2>1, <2>2 DEF vars, QueueInv, LoopInv
<1>21. QED
  BY <1>1, <1>2, <1>3, <1>4, <1>5, <1>6, <1>7, <1>8, <1>9, <1>10, <1>11,
     <1>12, <1>13, <1>14, <1>15, <1>16, <1>17, <1>18, <1>19, <1>20
  DEF Next, Step, SplitStep, OtherStep

-----------------------------------------------------------------------------
(* Seeds: who drives whom.                                                 *)

\* terminateState drops the seeds of a state it deletes: it keeps an
\* assignment of the seeds to existing states disjoint.
LEMMA TerminateSeeds ==
  ASSUME NEW T \in SUBSET State, NEW added \in SUBSET State,
         NEW seeds \in [State -> SUBSET Seeds],
         Terminate(T, added, seeds), UNCHANGED states,
         \A s \in State : seeds[s] # {} =>
           /\ s \in states \cup added
           /\ \A t \in State \ {s} : seeds[s] \cap seeds[t] = {}
  PROVE  SeedOwnership'
<1>1. /\ addedStates' = added \ T
      /\ \A s \in State : seedMap'[s] = IF s \in T \cap added THEN {}
                                                              ELSE seeds[s]
  BY DEF Terminate
<1>2. QED
  BY <1>1 DEF SeedOwnership, Live

\* A step that neither hands out seeds nor forgets a live state.
LEMMA SameSeeds ==
  ASSUME SeedOwnership, UNCHANGED seedMap, Live \subseteq Live'
  PROVE  SeedOwnership'
BY DEF SeedOwnership

\* updateStates deletes the queued states together with their seeds.
LEMMA UpdateSeeds ==
  ASSUME SeedOwnership, TypeOK, ApplyUpdate
  PROVE  SeedOwnership'
<1>1. \A s \in State : seedMap'[s] = IF s \in Removed THEN {} ELSE seedMap[s]
  BY DEF ApplyUpdate
<1>2. Live' = Live \ Removed
  BY DEF ApplyUpdate, Live
<1>3. QED
  BY <1>1, <1>2 DEF SeedOwnership

\* The seeds of the initial state are everybody's.
LEMMA InitSeeds == Init => SeedOwnership
BY DEF Init, SeedOwnership, Live

LEMMA SeedStep == IInv /\ [Next]_vars => SeedOwnership'
<1> SUFFICES ASSUME TypeOK, QueueInv, LoopInv, SeedOwnership, [Next]_vars
             PROVE  SeedOwnership'
  BY DEF IInv
<1>1. /\ seedMap \in [State -> SUBSET Seeds] /\ addedStates \in SUBSET State
      /\ current \in State /\ result \in SUBSET State
  BY DEF TypeOK
<1>2. ASSUME NEW T \in SUBSET State, Terminate(T, addedStates, seedMap),
             UNCHANGED states
      PROVE  SeedOwnership'
  BY <1>1, <1>2, TerminateSeeds DEF SeedOwnership, Live
<1>3. ASSUME NEW s \in State, \/ Select(s) \/ SeedSelect(s)
      PROVE  SeedOwnership'
  BY <1>3, SameSeeds DEF Select, SeedSelect, Live
<1>4. ASSUME NEW s \in State,
             \/ SelectDuplicate(s) \/ SelectInvalidPath(s)
             \/ TerminateActive(s) \/ DumpState(s)
      PROVE  SeedOwnership'
  BY <1>2, <1>4 DEF SelectDuplicate, SelectInvalidPath, TerminateActive,
                    DumpState
<1>5. CASE SeedingDone \/ LeaveLoop \/ EndInstruction \/ Timers
           \/ CheckMemory \/ UpdateAssertFails \/ Interrupt
  BY <1>5, SameSeeds DEF SeedingDone, LeaveSeeding, LeaveLoop,
       EndInstruction, Timers, CheckMemory, UpdateAssertFails, Interrupt, Live
<1>6. ASSUME NEW s \in State, NEW t \in State, Fork(s, t)
      PROVE  SeedOwnership'
  <2>1. PICK moved \in SUBSET seedMap[s] :
          Terminate(IF MaxDepth # 0 /\ MaxDepth <= depth[s] + 1
                    THEN {s, t} ELSE {}, addedStates \cup {t},
                    [seedMap EXCEPT ![s] = seedMap[s] \ moved, ![t] = moved])
    BY <1>6 DEF Fork
  <2> DEFINE seeds == [seedMap EXCEPT ![s] = seedMap[s] \ moved, ![t] = moved]
             dead  == IF MaxDepth # 0 /\ MaxDepth <= depth[s] + 1
                      THEN {s, t} ELSE {}
  <2>2. /\ s \in Live /\ t \notin Live /\ UNCHANGED states
        /\ seedMap[t] = {}
    BY <1>6 DEF Fork, Active, Live, QueueInv, InIteration, SeedOwnership
  <2>3. \A x \in State : seeds[x] = IF x = t THEN moved
                                    ELSE IF x = s THEN seedMap[s] \ moved
                                    ELSE seedMap[x]
    BY <1>1, <2>2
  <2>4. /\ seeds \in [State -> SUBSET Seeds] /\ dead \in SUBSET State
        /\ addedStates \cup {t} \in SUBSET State
    BY <1>1
  <2>5. Terminate(dead, addedStates \cup {t}, seeds)
    BY <2>1
  <2> HIDE DEF seeds, dead
  <2>6. \A x \in State : seeds[x] # {} =>
           /\ x \in states \cup (addedStates \cup {t})
           /\ \A y \in State \ {x} : seeds[x] \cap seeds[y] = {}
    BY <2>2, <2>3 DEF SeedOwnership, Live
  <2>7. QED
    BY <2>2, <2>4, <2>5, <2>6, TerminateSeeds
<1>7. ASSUME NEW s \in State, NEW n \in 2..MaxConditions, Branch(s, n)
      PROVE  SeedOwnership'
  BY <1>7, SameSeeds DEF Branch, Live
<1>8. ASSUME NEW s \in State, NEW t \in State, BranchFork(s, t)
      PROVE  SeedOwnership'
  BY <1>8, SameSeeds DEF BranchFork, Live
<1>9. CASE BranchSeeds
  <2> DEFINE pot == UNION {seedMap[s] : s \in result}
             Seeded(deal) == [s \in State |-> IF s \in result
                                              THEN {x \in pot : deal[x] = s}
                                              ELSE seedMap[s]]
             Dead(deal) == IF pot # {} /\ OnlyReplaySeeds
                           THEN {s \in result : Seeded(deal)[s] = {}} ELSE {}
  <2>1. PICK deal \in [pot -> result] :
          Terminate(Dead(deal), addedStates, Seeded(deal))
    BY <1>9 DEF BranchSeeds
  <2>2. UNCHANGED states /\ result \subseteq Live
    BY <1>9 DEF BranchSeeds, LoopInv, QueueInv, InIteration, Active, Live
  <2>3. pot \subseteq Seeds /\ \A s \in State : seedMap[s] \subseteq Seeds
    BY <1>1
  <2>4. ASSUME NEW s \in State \ result PROVE seedMap[s] \cap pot = {}
    <3>1. ASSUME NEW x \in seedMap[s], x \in pot PROVE FALSE
      <4>1. PICK t \in result : x \in seedMap[t]
        BY <3>1
      <4>2. t \in State \ {s} /\ seedMap[s] # {}
        BY <1>1
      <4>3. QED
        BY <4>1, <4>2 DEF SeedOwnership
    <3>2. QED
      BY <3>1
  <2>5. \A s \in State : Seeded(deal)[s] = IF s \in result
                                           THEN {x \in pot : deal[x] = s}
                                           ELSE seedMap[s]
    OBVIOUS
  <2> HIDE DEF pot
  <2>6. Seeded(deal) \in [State -> SUBSET Seeds]
    BY <2>3
  <2>7. Dead(deal) \in SUBSET State
    BY <1>1
  <2> HIDE DEF Seeded, Dead
  <2>8. ASSUME NEW s \in State, Seeded(deal)[s] # {}
        PROVE  s \in states \cup addedStates
    <3>1. CASE s \in result
      BY <2>2, <3>1 DEF Live
    <3>2. CASE s \notin result
      BY <2>5, <2>8, <3>2 DEF SeedOwnership, Live
    <3>3. QED
      BY <3>1, <3>2
  <2>9. ASSUME NEW s \in State, NEW t \in State \ {s}
        PROVE  Seeded(deal)[s] \cap Seeded(deal)[t] = {}
    <3>1. CASE s \in result /\ t \in result
      BY <2>5, <3>1
    <3>2. CASE s \in result /\ t \notin result
      BY <2>4, <2>5, <3>2
    <3>3. CASE s \notin result /\ t \in result
      BY <2>4, <2>5, <3>3
    <3>4. CASE s \notin result /\ t \notin result
      BY <2>5, <3>4 DEF SeedOwnership
    <3>5. QED
      BY <3>1, <3>2, <3>3, <3>4
  <2>10. QED
    BY <1>1, <2>1, <2>2, <2>6, <2>7, <2>8, <2>9, TerminateSeeds
<1>10. ASSUME NEW s \in State, BranchInhibited(s) PROVE SeedOwnership'
  <2>1. PICK kept \in SUBSET seedMap[s] :
          Terminate(IF kept = {} /\ OnlyReplaySeeds THEN {s} ELSE {},
                    addedStates, [seedMap EXCEPT ![s] = kept])
    BY <1>10 DEF BranchInhibited
  <2> DEFINE seeds == [seedMap EXCEPT ![s] = kept]
             dead  == IF kept = {} /\ OnlyReplaySeeds THEN {s} ELSE {}
  <2>2. \A x \in State : seeds[x] \subseteq seedMap[x]
    BY <1>1
  <2>3. /\ seeds \in [State -> SUBSET Seeds] /\ dead \in SUBSET State
        /\ UNCHANGED states
    BY <1>1, <1>10 DEF BranchInhibited
  <2>4. Terminate(dead, addedStates, seeds)
    BY <2>1
  <2> HIDE DEF seeds, dead
  <2>5. \A x \in State : seeds[x] # {} =>
           /\ x \in states \cup addedStates
           /\ \A y \in State \ {x} : seeds[x] \cap seeds[y] = {}
    BY <2>2 DEF SeedOwnership, Live
  <2>6. QED
    BY <1>1, <2>3, <2>4, <2>5, TerminateSeeds
<1>11. CASE TimerKill
  BY <1>1, <1>2, <1>11 DEF TimerKill
<1>12. ASSUME NEW K \in SUBSET states, MemoryKill(K) PROVE SeedOwnership'
  BY <1>2, <1>12 DEF MemoryKill, TypeOK
<1>13. CASE UpdateStates
  BY <1>13, UpdateSeeds DEF UpdateStates
<1>14. CASE DumpDone
  <2>1. CASE DumpStatesOnHalt
    BY <1>14, <2>1, UpdateSeeds DEF DumpDone
  <2>2. CASE ~DumpStatesOnHalt
    BY <1>14, <2>2, SameSeeds DEF DumpDone, Live
  <2>3. QED
    BY <2>1, <2>2
<1>15. CASE UNCHANGED vars
  BY <1>15, SameSeeds DEF vars, Live
<1>16. QED
  BY <1>3, <1>4, <1>5, <1>6, <1>7, <1>8, <1>9, <1>10, <1>11, <1>12, <1>13,
     <1>14, <1>15 DEF Next, Step, SplitStep, OtherStep

-----------------------------------------------------------------------------
\* The inductive invariant holds throughout, whatever the flags.
THEOREM Inductive == Spec => []IInv
<1>1. Init => IInv
  <2>1. Init => QueueInv /\ LoopInv /\ SeedOwnership
    BY InitInv, InitSeeds
  <2>2. Init => TypeOK
    BY InitType
  <2>3. QED
    BY <2>1, <2>2 DEF IInv
<1>2. IInv /\ [Next]_vars => IInv'
  BY TypeStep, InvStep, SeedStep DEF IInv
<1>3. QED
  BY <1>1, <1>2, PTL DEF Spec

\* Executor.h:201,206: the two queues are disjoint and removedStates only ever
\* names members of `states', at every point of an instruction.
THEOREM QueuesAreDisjoint == Spec => []QueuesDisjoint
<1>1. IInv => QueuesDisjoint
  BY DEF IInv, QueueInv, QueuesDisjoint
<1>2. QED
  BY <1>1, Inductive, PTL

\* Between two instructions the searcher holds exactly the live states.
THEOREM SearcherIsExact == Spec => []SearcherAgrees
<1>1. IInv => SearcherAgrees
  BY DEF IInv, QueueInv, LoopInv, SearcherAgrees, InIteration
<1>2. QED
  BY <1>1, Inductive, PTL

\* A seed has at most one owner, and it is a live state.
THEOREM SeedsHaveOneOwner == Spec => []SeedOwnership
<1>1. IInv => SeedOwnership
  BY DEF IInv
<1>2. QED
  BY <1>1, Inductive, PTL

\* updateStates can only fail because the memory check terminated the selected
\* state a second time.
THEOREM OnlyMemoryCheckCrashes == Spec => []CrashOnlyFromMemoryCheck
<1>1. IInv => CrashOnlyFromMemoryCheck
  BY DEF IInv, TypeOK, QueueInv, LoopInv, CrashOnlyFromMemoryCheck
<1>2. QED
  BY <1>1, Inductive, PTL

\* Without a memory limit no assertion of updateStates fails: nothing is ever
\* removed twice.
THEOREM NoDoubleRemoval ==
  ASSUME ~MemoryLimit
  PROVE  Spec => []NeverCrashes
<1>1. IInv => NeverCrashes
  BY DEF IInv, LoopInv, NeverCrashes
<1>2. QED
  BY <1>1, Inductive, PTL

-----------------------------------------------------------------------------
(* Counting paths, and the fate of terminated states.                      *)

\* terminateState moves states from the running ones to the explored ones.
LEMMA TerminateCount ==
  ASSUME TypeOK, NEW T \in SUBSET State, NEW added \in SUBSET State, NEW seeds,
         Terminate(T, added, seeds), UNCHANGED states,
         states \cap added = {}, T \subseteq (states \cup added) \ Removed
  PROVE  pathsExplored' + Cardinality(Running') =
           pathsExplored + Cardinality((states \cup added) \ Removed)
<1> DEFINE run == (states \cup added) \ Removed
<1>1. \A s \in State : removals'[s] = IF s \in T \ added
                                      THEN removals[s] + 1 ELSE removals[s]
  BY DEF Terminate
<1>2. Running' = run \ T
  BY <1>1 DEF Terminate, Running, Live, Removed, TypeOK
<1>3. run \in SUBSET State /\ run \cap T = T
  BY DEF TypeOK
<1>4. IsFiniteSet(run) /\ IsFiniteSet(T)
  BY <1>3, FS_Subset
<1>5. Cardinality(run) \in Nat /\ Cardinality(T) \in Nat
  BY <1>4, FS_CardinalityType
<1>6. Cardinality(run \ T) = Cardinality(run) - Cardinality(T)
  BY <1>3, <1>4, FS_Difference
<1>7. pathsExplored' = pathsExplored + Cardinality(T)
  BY DEF Terminate
<1>8. QED
  BY <1>2, <1>5, <1>6, <1>7 DEF TypeOK

\* One more state among the running ones.
LEMMA RunningPlusOne ==
  ASSUME TypeOK, NEW t \in State \ Live, NEW added, added = addedStates \cup {t}
  PROVE  /\ Cardinality(Running) \in Nat
         /\ t \notin Removed => Cardinality((states \cup added) \ Removed) =
                                 Cardinality(Running) + 1
<1>1. IsFiniteSet(Running)
  BY FS_Subset DEF Running, Live, TypeOK
<1>2. t \notin Running
  BY DEF Running
<1>3. t \notin Removed => (states \cup added) \ Removed = Running \cup {t}
  BY DEF Running, Live
<1>4. Cardinality(Running \cup {t}) = Cardinality(Running) + 1
  BY <1>1, <1>2, FS_AddElement
<1>5. QED
  BY <1>1, <1>3, <1>4, FS_CardinalityType

\* Without a memory limit nothing is counted twice.
LEMMA AccountStep ==
  ASSUME ~MemoryLimit
  PROVE  IInv /\ PathAccounting /\ [Next]_vars => PathAccounting'
<1> SUFFICES ASSUME TypeOK, QueueInv, LoopInv, PathAccounting, [Next]_vars
             PROVE  PathAccounting'
  BY DEF IInv
<1>1. /\ states \cap addedStates = {} /\ addedStates \in SUBSET State
      /\ Running = (states \cup addedStates) \ Removed
      /\ Cardinality(Running) \in Nat
  <2>1. Running \in SUBSET State
    BY DEF Running, Live, TypeOK
  <2>2. Cardinality(Running) \in Nat
    BY <2>1, FS_Subset, FS_CardinalityType
  <2>3. QED
    BY <2>2 DEF Running, Live, QueueInv, TypeOK
<1>2. ASSUME NEW T \in SUBSET State, Terminate(T, addedStates, seedMap),
             T \subseteq Running, UNCHANGED <<states, todo, forks>>
      PROVE  PathAccounting'
  BY <1>1, <1>2, TerminateCount DEF PathAccounting
<1>3. ASSUME Running' = Running, UNCHANGED <<pathsExplored, todo, forks>>
      PROVE  PathAccounting'
  BY <1>3 DEF PathAccounting
<1>4. ASSUME UNCHANGED <<states, addedStates, removals>>
      PROVE  Running' = Running
  BY <1>4 DEF Running, Live, Removed
<1>5. ASSUME ApplyUpdate PROVE Running' = Running
  BY <1>5 DEF ApplyUpdate, Running, Live, Removed
<1>6. ASSUME NEW s \in State, \/ Select(s) \/ SeedSelect(s)
      PROVE  PathAccounting'
  BY <1>3, <1>4, <1>6 DEF Select, SeedSelect
<1>7. ASSUME NEW s \in State, SelectDuplicate(s) \/ SelectInvalidPath(s)
      PROVE  PathAccounting'
  <2>1. s \in states /\ s \notin Removed
    BY <1>7 DEF SelectDuplicate, SelectInvalidPath, CanSelect, QueueInv, LoopInv
  <2>2. QED
    BY <1>1, <1>2, <1>7, <2>1 DEF SelectDuplicate, SelectInvalidPath
<1>8. CASE SeedingDone \/ LeaveLoop \/ EndInstruction \/ Timers
           \/ CheckMemory \/ UpdateAssertFails \/ Interrupt
  BY <1>3, <1>4, <1>8 DEF SeedingDone, LeaveSeeding, LeaveLoop,
       EndInstruction, Timers, CheckMemory, UpdateAssertFails, Interrupt
<1>9. ASSUME NEW s \in State, NEW t \in State, Fork(s, t)
      PROVE  PathAccounting'
  <2>1. PICK dead, seeds :
          /\ dead \in SUBSET {s, t}
          /\ Terminate(dead, addedStates \cup {t}, seeds)
    <3>1. PICK moved \in SUBSET seedMap[s] :
            Terminate(IF MaxDepth # 0 /\ MaxDepth <= depth[s] + 1
                      THEN {s, t} ELSE {}, addedStates \cup {t},
                      [seedMap EXCEPT ![s] = seedMap[s] \ moved,
                                      ![t] = moved])
      BY <1>9 DEF Fork
    <3>2. (IF MaxDepth # 0 /\ MaxDepth <= depth[s] + 1
           THEN {s, t} ELSE {}) \in SUBSET {s, t}
      OBVIOUS
    <3>3. QED
      BY <3>1, <3>2
  <2>2. /\ phase = "execute" /\ s \in Active /\ t \in State \ Live
        /\ forks' = forks + 1 /\ UNCHANGED <<states, todo>>
    BY <1>9 DEF Fork
  <2>3. t \notin Removed /\ s \in Running
    BY <2>2 DEF QueueInv, Active, Running, Live, InIteration
  <2>4. /\ dead \in SUBSET State /\ addedStates \cup {t} \in SUBSET State
        /\ states \cap (addedStates \cup {t}) = {}
        /\ dead \subseteq (states \cup (addedStates \cup {t})) \ Removed
    BY <1>1, <2>1, <2>2, <2>3 DEF Live
  <2>5. pathsExplored' + Cardinality(Running') =
          pathsExplored
            + Cardinality((states \cup (addedStates \cup {t})) \ Removed)
    BY <2>1, <2>2, <2>4, TerminateCount
  <2>6. Cardinality((states \cup (addedStates \cup {t})) \ Removed) =
          Cardinality(Running) + 1
    BY <2>2, <2>3, RunningPlusOne
  <2>7. QED
    BY <1>1, <2>2, <2>5, <2>6 DEF PathAccounting, TypeOK
<1>10. ASSUME NEW s \in State, TerminateActive(s) PROVE PathAccounting'
  <2>1. s \in Running
    BY <1>10 DEF TerminateActive, Active, Running, Live, QueueInv, InIteration
  <2>2. QED
    BY <1>2, <1>10, <2>1 DEF TerminateActive
<1>11. ASSUME NEW s \in State, NEW n \in 2..MaxConditions, Branch(s, n)
       PROVE  PathAccounting'
  <2>1. Running' = Running
    BY <1>4, <1>11 DEF Branch
  <2>2. todo = 0 /\ todo' = n - 1 /\ forks' = forks + n - 1
    BY <1>11 DEF Branch, LoopInv
  <2>3. pathsExplored' = pathsExplored /\ n \in Nat
    BY <1>11 DEF Branch
  <2>4. QED
    BY <1>1, <2>1, <2>2, <2>3 DEF PathAccounting, TypeOK
<1>12. ASSUME NEW s \in State, NEW t \in State, BranchFork(s, t)
       PROVE  PathAccounting'
  <2>1. /\ addedStates' = addedStates \cup {t} /\ t \in State \ Live
        /\ todo' = todo - 1
        /\ UNCHANGED <<states, removals, pathsExplored, forks>>
    BY <1>12 DEF BranchFork
  <2>2. t \notin Removed
    BY <2>1 DEF QueueInv, Live
  <2>3. Running' = (states \cup (addedStates \cup {t})) \ Removed
    BY <2>1 DEF Running, Live, Removed
  <2>4. Cardinality(Running') = Cardinality(Running) + 1
    BY <2>1, <2>2, <2>3, RunningPlusOne
  <2>5. QED
    BY <1>1, <2>1, <2>4 DEF PathAccounting, TypeOK
<1>13. CASE BranchSeeds
  <2>1. PICK dead, seeds :
          /\ dead \in SUBSET result
          /\ Terminate(dead, addedStates, seeds)
    <3> DEFINE pot == UNION {seedMap[s] : s \in result}
               Seeded(deal) == [s \in State |-> IF s \in result
                                                THEN {x \in pot : deal[x] = s}
                                                ELSE seedMap[s]]
    <3>1. PICK deal \in [pot -> result] :
            Terminate(IF pot # {} /\ OnlyReplaySeeds
                      THEN {s \in result : Seeded(deal)[s] = {}} ELSE {},
                      addedStates, Seeded(deal))
      BY <1>13 DEF BranchSeeds
    <3>2. (IF pot # {} /\ OnlyReplaySeeds
           THEN {s \in result : Seeded(deal)[s] = {}} ELSE {})
             \in SUBSET result
      OBVIOUS
    <3> HIDE DEF Seeded, pot
    <3>3. QED
      BY <3>1, <3>2
  <2>2. /\ phase = "branch" /\ todo = 0 /\ todo' = 0
        /\ UNCHANGED <<states, forks>>
    BY <1>13 DEF BranchSeeds
  <2>3. result \subseteq Running /\ result \in SUBSET State
    BY <2>2 DEF LoopInv, Active, Running, Live, QueueInv, InIteration, TypeOK
  <2>4. pathsExplored' + Cardinality(Running') =
          pathsExplored + Cardinality(Running)
    BY <1>1, <2>1, <2>2, <2>3, TerminateCount
  <2>5. QED
    BY <2>2, <2>4 DEF PathAccounting
<1>14. ASSUME NEW s \in State, BranchInhibited(s) PROVE PathAccounting'
  <2>1. PICK dead, seeds :
          /\ dead \in SUBSET {s}
          /\ Terminate(dead, addedStates, seeds)
    <3>1. PICK kept \in SUBSET seedMap[s] :
            Terminate(IF kept = {} /\ OnlyReplaySeeds THEN {s} ELSE {},
                      addedStates, [seedMap EXCEPT ![s] = kept])
      BY <1>14 DEF BranchInhibited
    <3>2. (IF kept = {} /\ OnlyReplaySeeds THEN {s} ELSE {}) \in SUBSET {s}
      OBVIOUS
    <3>3. QED
      BY <3>1, <3>2
  <2>2. s \in Running /\ UNCHANGED <<states, forks, todo>>
    BY <1>14 DEF BranchInhibited, Active, Running, Live, QueueInv, InIteration
  <2>3. pathsExplored' + Cardinality(Running') =
          pathsExplored + Cardinality(Running)
    BY <1>1, <2>1, <2>2, TerminateCount
  <2>4. QED
    BY <2>2, <2>3 DEF PathAccounting
<1>15. CASE TimerKill
  <2>1. current \in Running /\ {current} \in SUBSET State
    BY <1>15 DEF TimerKill, Running, Live, QueueInv, InIteration, TypeOK
  <2>2. QED
    BY <1>2, <1>15, <2>1 DEF TimerKill
<1>16. ASSUME NEW K \in SUBSET states, MemoryKill(K) PROVE PathAccounting'
  BY <1>16 DEF MemoryKill
<1>17. CASE UpdateStates
  BY <1>3, <1>5, <1>17 DEF UpdateStates
<1>18. ASSUME NEW s \in State, DumpState(s) PROVE PathAccounting'
  <2>1. s \in Running
    BY <1>18 DEF DumpState, Running, Live
  <2>2. QED
    BY <1>2, <1>18, <2>1 DEF DumpState
<1>19. CASE DumpDone
  BY <1>3, <1>4, <1>5, <1>19 DEF DumpDone
<1>20. CASE UNCHANGED vars
  BY <1>3, <1>4, <1>20 DEF vars
<1>21. QED
  BY <1>6, <1>7, <1>8, <1>9, <1>10, <1>11, <1>12, <1>13, <1>14, <1>15, <1>16,
     <1>17, <1>18, <1>19, <1>20 DEF Next, Step, SplitStep, OtherStep

\* Without a memory limit every path is counted once: those explored and those
\* still running are the initial one and the forked ones.
THEOREM PathsAreCounted ==
  ASSUME ~MemoryLimit
  PROVE  Spec => []PathAccounting
<1>1. Init => PathAccounting
  <2> SUFFICES ASSUME Init PROVE PathAccounting
    OBVIOUS
  <2>1. /\ states = {InitialState} /\ addedStates = {} /\ todo = 0
        /\ forks = 0 /\ pathsExplored = 0
        /\ \A s \in State : removals[s] = 0
    BY DEF Init
  <2>2. Running = {InitialState}
    BY <2>1 DEF Running, Live, Removed
  <2>3. Cardinality(Running) = 1
    BY <2>2, FS_Singleton
  <2>4. QED
    BY <2>1, <2>3 DEF PathAccounting
<1>2. QED
  BY <1>1, AccountStep, Inductive, PTL DEF Spec

\* --dump-states-on-halt: run() returns only when the dump has terminated every
\* state that was left and updateStates has deleted it.
LEMMA DumpLeavesNothing ==
  Spec => [](phase = "done" /\ DumpStatesOnHalt => states = {})
<1> DEFINE Emptied == phase = "done" /\ DumpStatesOnHalt => states = {}
<1>1. Init => Emptied
  BY DEF Init
<1>2. IInv /\ Emptied /\ [Next]_vars => Emptied'
  <2> SUFFICES ASSUME IInv, Emptied, [Next]_vars, phase' = "done", DumpStatesOnHalt
               PROVE  states' = {}
    OBVIOUS
  <2>1. CASE DumpDone
    BY <2>1 DEF DumpDone, ApplyUpdate, IInv, QueueInv, InIteration
  <2>2. CASE UNCHANGED vars
    BY <2>2 DEF vars
  <2>3. ASSUME NEW s \in State,
               \/ Select(s) \/ SelectDuplicate(s) \/ SelectInvalidPath(s)
               \/ SeedSelect(s) \/ TerminateActive(s) \/ BranchInhibited(s)
               \/ DumpState(s) \/ (\E n \in 2..MaxConditions : Branch(s, n))
               \/ (\E t \in State : Fork(s, t) \/ BranchFork(s, t))
        PROVE  FALSE
    BY <2>3 DEF Select, SelectDuplicate, SelectInvalidPath, SeedSelect,
         TerminateActive, BranchInhibited, DumpState, Branch, Fork, BranchFork
  <2>4. CASE \/ SeedingDone \/ LeaveLoop \/ BranchSeeds \/ EndInstruction
             \/ Timers \/ TimerKill \/ CheckMemory \/ UpdateStates
             \/ UpdateAssertFails \/ Interrupt
             \/ (\E K \in SUBSET states : MemoryKill(K))
    BY <2>4 DEF SeedingDone, LeaveSeeding, LeaveLoop, BranchSeeds,
         EndInstruction, Timers, TimerKill, AfterTimers, CheckMemory,
         UpdateStates, UpdateAssertFails, Interrupt, MemoryKill
  <2>5. QED
    BY <2>1, <2>2, <2>3, <2>4 DEF Next, Step, SplitStep, OtherStep
<1>3. QED
  BY <1>1, <1>2, Inductive, PTL DEF Spec

\* With --dump-states-on-halt, when run() returns, every path that was ever
\* forked has been explored or dumped.
THEOREM NoPathIsLost ==
  ASSUME ~MemoryLimit
  PROVE  Spec => []AllPathsAccounted
<1>1. ASSUME IInv, PathAccounting,
             phase = "done" /\ DumpStatesOnHalt => states = {}
      PROVE  AllPathsAccounted
  <2> SUFFICES ASSUME phase = "done", DumpStatesOnHalt
               PROVE  states = {} /\ pathsExplored = 1 + forks
    BY DEF AllPathsAccounted
  <2>1. states = {} /\ addedStates = {} /\ todo = 0
    BY <1>1 DEF IInv, QueueInv, LoopInv, InIteration
  <2>2. Cardinality(Running) = 0
    BY <2>1, FS_EmptySet DEF Running, Live
  <2>3. QED
    BY <1>1, <2>1, <2>2 DEF PathAccounting, IInv, TypeOK
<1>2. QED
  BY <1>1, PathsAreCounted, DumpLeavesNothing, Inductive, PTL

\* A terminated state stays queued until it is deleted, and is not selected.
THEOREM TerminatedStatesStayDead == Spec => NoResurrection
<1> DEFINE Dead == /\ \A s \in Removed : removals'[s] > 0 \/ s \notin states'
                   /\ phase = "select" /\ phase' = "execute"
                        => current' \in states /\ removals[current'] = 0
<1>1. IInv /\ [Next]_vars => [Dead]_vars
  <2> SUFFICES ASSUME TypeOK, QueueInv, LoopInv, SeedOwnership, Next
               PROVE  Dead
    BY DEF IInv
  <2>1. ASSUME removals' = removals PROVE \A s \in Removed : removals'[s] > 0
    BY <2>1 DEF Removed
  <2>2. ASSUME NEW T, NEW added, NEW seeds, Terminate(T, added, seeds)
        PROVE  \A s \in Removed : removals'[s] > 0
    BY <2>2 DEF Terminate, Removed, TypeOK
  <2>3. ASSUME ApplyUpdate PROVE \A s \in Removed : s \notin states'
    BY <2>3 DEF ApplyUpdate
  <2>4. ASSUME NEW s \in State, Select(s) PROVE Dead
    <3>1. s \in states /\ s \notin Removed /\ current' = s
      BY <2>4 DEF Select, CanSelect, QueueInv, LoopInv
    <3>2. removals[s] = 0
      BY <3>1 DEF Removed, TypeOK
    <3>3. QED
      BY <2>1, <2>4, <3>1, <3>2 DEF Select
  <2>5. ASSUME NEW s \in State, SeedSelect(s) PROVE Dead
    <3>1. s \in states /\ s \notin Removed /\ current' = s
      <4>1. addedStates = {} /\ Removed = {} /\ seedMap[s] # {}
        BY <2>5 DEF SeedSelect, QueueInv, InIteration
      <4>2. s \in Live
        BY <4>1 DEF SeedOwnership
      <4>3. QED
        BY <2>5, <4>1, <4>2 DEF SeedSelect, Live
    <3>2. removals[s] = 0
      BY <3>1 DEF Removed, TypeOK
    <3>3. QED
      BY <2>1, <2>5, <3>1, <3>2 DEF SeedSelect
  <2>6. ASSUME NEW s \in State,
               \/ SelectDuplicate(s) \/ SelectInvalidPath(s)
               \/ TerminateActive(s) \/ DumpState(s)
        PROVE  Dead
    BY <2>2, <2>6 DEF SelectDuplicate, SelectInvalidPath, TerminateActive,
                      DumpState
  <2>7. CASE SeedingDone \/ LeaveLoop \/ EndInstruction \/ Timers
             \/ CheckMemory \/ UpdateAssertFails \/ Interrupt
    BY <2>1, <2>7 DEF SeedingDone, LeaveSeeding, LeaveLoop, EndInstruction,
         Timers, AfterTimers, CheckMemory, UpdateAssertFails, Interrupt
  <2>8. ASSUME NEW s \in State, NEW t \in State, Fork(s, t) PROVE Dead
    <3>1. phase = "execute"
      BY <2>8 DEF Fork
    <3>2. PICK moved \in SUBSET seedMap[s] :
            Terminate(IF MaxDepth # 0 /\ MaxDepth <= depth[s] + 1
                      THEN {s, t} ELSE {}, addedStates \cup {t},
                      [seedMap EXCEPT ![s] = seedMap[s] \ moved,
                                      ![t] = moved])
      BY <2>8 DEF Fork
    <3>3. QED
      BY <2>2, <3>1, <3>2
  <2>9. ASSUME NEW s \in State, NEW t \in State, BranchFork(s, t) PROVE Dead
    BY <2>1, <2>9 DEF BranchFork
  <2>10. ASSUME NEW s \in State, NEW n \in 2..MaxConditions, Branch(s, n)
         PROVE  Dead
    BY <2>1, <2>10 DEF Branch
  <2>11. CASE BranchSeeds
    <3> DEFINE pot == UNION {seedMap[s] : s \in result}
               Seeded(deal) == [s \in State |-> IF s \in result
                                                THEN {x \in pot : deal[x] = s}
                                                ELSE seedMap[s]]
    <3>1. PICK deal \in [pot -> result] :
            Terminate(IF pot # {} /\ OnlyReplaySeeds
                      THEN {s \in result : Seeded(deal)[s] = {}} ELSE {},
                      addedStates, Seeded(deal))
      BY <2>11 DEF BranchSeeds
    <3>2. phase = "branch"
      BY <2>11 DEF BranchSeeds
    <3> HIDE DEF Seeded, pot
    <3>3. QED
      BY <2>2, <3>1, <3>2
  <2>12. ASSUME NEW s \in State, BranchInhibited(s) PROVE Dead
    <3>1. PICK kept \in SUBSET seedMap[s] :
            Terminate(IF kept = {} /\ OnlyReplaySeeds THEN {s} ELSE {},
                      addedStates, [seedMap EXCEPT ![s] = kept])
      BY <2>12 DEF BranchInhibited
    <3>2. phase = "execute"
      BY <2>12 DEF BranchInhibited
    <3>3. QED
      BY <2>2, <3>1, <3>2
  <2>13. CASE TimerKill
    BY <2>2, <2>13 DEF TimerKill, AfterTimers
  <2>14. ASSUME NEW K \in SUBSET states, MemoryKill(K) PROVE Dead
    BY <2>2, <2>14 DEF MemoryKill
  <2>15. CASE UpdateStates
    BY <2>3, <2>15 DEF UpdateStates, LeaveSeeding
  <2>16. CASE DumpDone
    BY <2>1, <2>3, <2>16 DEF DumpDone
  <2>17. QED
    BY <2>4, <2>5, <2>6, <2>7, <2>8, <2>9, <2>10, <2>11, <2>12, <2>13, <2>14,
       <2>15, <2>16 DEF Next, Step, SplitStep, OtherStep
<1>2. QED
  BY <1>1, Inductive, PTL DEF Spec, NoResurrection

=============================================================================
