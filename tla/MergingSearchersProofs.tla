------------------------ MODULE MergingSearchersProofs ------------------------
(***************************************************************************)
(* The merging searchers for any number of states, any length of program   *)
(* and any merge points, of which MergingSearcher needs two calls of       *)
(* klee_merge never to follow one another directly.                        *)
(***************************************************************************)
EXTENDS MergingSearchers, TLAPS

USE MergingAssumption

\* With two calls in a row the states merged at the first one are grouped, and
\* terminated, again when the others wait at the second.
MergesApart ==
  "merge" \in Mergers => \A p \in MergePoints : p + 1 \notin MergePoints

-----------------------------------------------------------------------------
(* The pieces of a step.                                                   *)

LEMMA MergePointFacts ==
  ASSUME NEW s
  PROVE  /\ MergePoint(s) # NULL <=> pc[s] \in MergePoints
         /\ pc[s] \in MergePoints => MergePoint(s) = pc[s]
         /\ NULL \notin MergePoints
BY DEF MergePoint, NULL

\* terminateState adds the states to the removed ones and moves them back.
LEMMA TerminateFacts ==
  ASSUME removals \in [State -> Nat], prevPC \in [State -> Int],
         NEW ts \in SUBSET State, NEW from \in [State -> Int], TerminateStates(ts, from)
  PROVE  /\ pc' \in [State -> Int] /\ removals' \in [State -> Nat]
         /\ Dead' = Dead \cup ts
         /\ \A s \in State : pc'[s] = IF s \in ts THEN prevPC[s] ELSE from[s]
         /\ \A s \in State : removals'[s] = removals[s] + IF s \in ts THEN 1 ELSE 0
<1>1. pc' \in [State -> Int] /\ removals' \in [State -> Nat]
  BY DEF TerminateStates
<1>2. /\ \A s \in State : pc'[s] = IF s \in ts THEN prevPC[s] ELSE from[s]
      /\ \A s \in State : removals'[s] = removals[s] + IF s \in ts THEN 1 ELSE 0
  BY DEF TerminateStates
<1>3. Dead' = Dead \cup ts
  BY <1>2 DEF Dead
<1> QED BY <1>1, <1>2, <1>3

LEMMA SteppedPastFacts ==
  ASSUME pc \in [State -> Int], NEW s \in State
  PROVE  /\ SteppedPast(s) \in [State -> Int]
         /\ \A t \in State : SteppedPast(s)[t] = IF t = s THEN pc[s] + 1 ELSE pc[t]
BY DEF SteppedPast

-----------------------------------------------------------------------------
(* The invariant at the start and after each step.                         *)

LEMMA MergingAtStart == Init => MergingInv
<1> SUFFICES ASSUME Init PROVE MergingInv
  OBVIOUS
<1>1. PICK s0 \in State : states = {s0} /\ base = {s0}
  BY DEF Init
<1>2. Dead = {}
  BY DEF Init, Dead
<1>3. TypeOK
  BY <1>1 DEF Init, TypeOK
<1>4. PlacesInv
  BY <1>1 DEF Init, PlacesInv, Range, IsInjective
<1>5. MergeInv
  BY <1>2 DEF Init, MergeInv
<1>6. BumpInv
  BY <1>1, <1>2 DEF Init, BumpInv
<1> QED BY <1>3, <1>4, <1>5, <1>6 DEF Init, MergingInv

LEMMA ReturnKeeps ==
  ASSUME MergingInv, Return
  PROVE  MergingInv'
<1>1. PICK s \in base : MergePoint(s) = NULL /\ selected' = s
  BY DEF Return
<1>2. /\ assertion = "none" /\ selected = NoState /\ merges = {}
      /\ UNCHANGED <<merger, pc, prevPC, states, removals, base, statesAtMerge,
                     merges, bumpAt, assertion, killedAgain>>
  BY DEF Return, Running, places
<1>3. TypeOK' /\ PlacesInv'
  <2>1. TypeOK /\ PlacesInv
    BY <1>2 DEF MergingInv
  <2>2. s \in State /\ selected' \in base' /\ pc'[selected'] \notin MergePoints
    BY <1>1, <1>2, <2>1, MergePointFacts DEF TypeOK, PlacesInv
  <2>3. TypeOK'
    BY <1>1, <1>2, <2>1, <2>2 DEF TypeOK
  <2>4. PlacesInv'
    BY <1>2, <2>1, <2>2 DEF PlacesInv
  <2> QED BY <2>3, <2>4
<1>4. MergeInv => MergeInv'
  BY <1>2 DEF MergeInv, Dead
<1>5. BumpInv => BumpInv'
  BY <1>2 DEF BumpInv, Dead
<1> QED BY <1>2, <1>3, <1>4, <1>5 DEF MergingInv

LEMMA ParkKeeps ==
  ASSUME MergingInv, Park
  PROVE  MergingInv'
<1>1. PICK s \in base : /\ MergePoint(s) # NULL
                        /\ base' = base \ {s}
                        /\ statesAtMerge' = statesAtMerge \cup {s}
  BY DEF Park
<1>2. /\ merger = "merge" /\ assertion = "none" /\ selected = NoState /\ merges = {}
      /\ UNCHANGED <<merger, pc, prevPC, states, removals, selected, merges, bumpAt, assertion, killedAgain>>
  BY DEF Park, Running, places
<1>3. TypeOK /\ PlacesInv /\ MergeInv
  BY <1>2 DEF MergingInv
<1>4. pc[s] \in MergePoints
  BY <1>1, MergePointFacts
<1>5. Dead = {} /\ Dead' = {}
  BY <1>1, <1>2, <1>3, <1>4 DEF MergeInv, Dead
<1>6. TypeOK'
  BY <1>2, <1>3 DEF TypeOK
<1>7. PlacesInv'
  BY <1>1, <1>2, <1>3 DEF PlacesInv
<1>8. MergeInv'
  <2>1. \A t \in statesAtMerge : pc[t] \in MergePoints
    BY <1>3, <1>5 DEF MergeInv
  <2> QED BY <1>1, <1>2, <1>3, <1>4, <1>5, <2>1 DEF MergeInv
<1> QED BY <1>2, <1>6, <1>7, <1>8 DEF MergingInv

LEMMA AllAtMergeKeeps ==
  ASSUME MergingInv, AllAtMerge
  PROVE  MergingInv'
<1>1. /\ merger = "merge" /\ assertion = "none" /\ selected = NoState /\ merges = {}
      /\ base = {}
      /\ merges' = {{s \in statesAtMerge : MergePoint(s) = mp} :
                      mp \in {MergePoint(s) : s \in statesAtMerge}}
      /\ UNCHANGED <<merger, pc, prevPC, states, removals, selected, base,
                     statesAtMerge, bumpAt, assertion, killedAgain>>
  BY DEF AllAtMerge, Running, places
<1>2. TypeOK /\ PlacesInv /\ MergeInv
  BY <1>1 DEF MergingInv
<1>3. Dead = {} /\ Dead' = {}
  BY <1>1, <1>2 DEF MergeInv, Dead
<1>4. UNION merges' = statesAtMerge
  BY <1>1
<1>5. ASSUME NEW g \in merges', NEW h \in merges', NEW s \in g \cap h
      PROVE  g = h
  <2>1. PICK a : g = {t \in statesAtMerge : MergePoint(t) = a}
    BY <1>1
  <2>2. PICK b : h = {t \in statesAtMerge : MergePoint(t) = b}
    BY <1>1
  <2> QED BY <2>1, <2>2
<1>7. TypeOK' /\ PlacesInv'
  BY <1>1, <1>2 DEF TypeOK, PlacesInv
<1>8. MergeInv'
  <2>1. merges' # {}
    BY <1>4 DEF AllAtMerge
  <2>2. \A g, h \in merges' : g \cap h # {} => g = h
    BY <1>5
  <2>3. \A s \in statesAtMerge : pc[s] \in MergePoints
    BY <1>2, <1>3 DEF MergeInv
  <2> QED BY <1>1, <1>2, <1>3, <1>4, <2>1, <2>2, <2>3 DEF MergeInv
<1> QED BY <1>1, <1>7, <1>8 DEF MergingInv

LEMMA MergeGroupKeeps ==
  ASSUME MergesApart, MergingInv, MergeGroup
  PROVE  MergingInv'
<1>a. PICK group \in merges : \E kept \in group : \E toErase \in SUBSET Merged(group, kept) :
        /\ TerminateStates(toErase, SteppedPast(kept))
        /\ statesAtMerge' = statesAtMerge \ {kept}
        /\ base' = base \cup {kept}
        /\ merges' = ((merges \ {group}) \cup {group \ (toErase \cup {kept})}) \ {{}}
  BY DEF MergeGroup
<1>b. PICK kept \in group : \E toErase \in SUBSET Merged(group, kept) :
        /\ TerminateStates(toErase, SteppedPast(kept))
        /\ statesAtMerge' = statesAtMerge \ {kept}
        /\ base' = base \cup {kept}
        /\ merges' = ((merges \ {group}) \cup {group \ (toErase \cup {kept})}) \ {{}}
  BY <1>a
<1>1. PICK toErase \in SUBSET Merged(group, kept) :
        /\ TerminateStates(toErase, SteppedPast(kept))
        /\ statesAtMerge' = statesAtMerge \ {kept}
        /\ base' = base \cup {kept}
        /\ merges' = ((merges \ {group}) \cup {group \ (toErase \cup {kept})}) \ {{}}
  BY <1>b
<1>2. /\ merger = "merge" /\ assertion = "none" /\ selected = NoState
      /\ UNCHANGED <<merger, prevPC, states, selected, bumpAt, assertion, killedAgain>>
  BY DEF MergeGroup, Running
<1>3. TypeOK /\ PlacesInv /\ MergeInv /\ merger \in Mergers
  BY <1>2 DEF MergingInv, TypeOK
<1>4. toErase \in SUBSET (group \ {kept})
  BY DEF Merged
<1>5. /\ group \in SUBSET (statesAtMerge \ Dead)
      /\ kept \in statesAtMerge \ Dead /\ toErase \in SUBSET (statesAtMerge \ Dead)
      /\ group \in SUBSET State
  BY <1>3, <1>4 DEF MergeInv, PlacesInv, TypeOK
<1>6. /\ SteppedPast(kept) \in [State -> Int]
      /\ \A s \in State : SteppedPast(kept)[s] = IF s = kept THEN pc[kept] + 1 ELSE pc[s]
  BY <1>3, <1>5, SteppedPastFacts DEF TypeOK
<1>7. /\ pc' \in [State -> Int] /\ removals' \in [State -> Nat]
      /\ Dead' = Dead \cup toErase
      /\ \A s \in State : pc'[s] = IF s \in toErase THEN prevPC[s] ELSE SteppedPast(kept)[s]
      /\ \A s \in State : removals'[s] = removals[s] + IF s \in toErase THEN 1 ELSE 0
  <2>1. toErase \in SUBSET State
    BY <1>4, <1>5
  <2>2. removals \in [State -> Nat] /\ prevPC \in [State -> Int]
    BY <1>3 DEF TypeOK
  <2> QED BY <1>1, <1>6, <2>1, <2>2, TerminateFacts
<1>8. TypeOK'
  BY <1>2, <1>3, <1>7 DEF TypeOK
<1>9. PlacesInv'
  <2>1. Range(bumpAt) = {} /\ Range(bumpAt') = {}
    BY <1>2, <1>3 DEF MergeInv, Range
  <2> QED BY <1>1, <1>2, <1>3, <1>5, <2>1 DEF PlacesInv
<1>10. pc'[kept] \notin MergePoints /\ kept \notin toErase
  <2>1. pc[kept] \in MergePoints
    BY <1>3, <1>5 DEF MergeInv
  <2>2. pc[kept] + 1 \notin MergePoints
    BY <1>2, <1>3, <2>1 DEF MergesApart
  <2>3. kept \notin toErase /\ kept \in State
    BY <1>4, <1>5
  <2> QED BY <1>6, <1>7, <2>2, <2>3
<1>11. UNION merges' = (UNION merges) \ (toErase \cup {kept})
  <2> DEFINE gone == toErase \cup {kept}
  <2>1. gone \in SUBSET group
    BY <1>4
  <2>2. \A g \in merges \ {group} : g \cap gone = {}
    BY <1>3, <2>1 DEF MergeInv
  <2>3. merges' = ((merges \ {group}) \cup {group \ gone}) \ {{}}
    BY <1>1
  <2> HIDE DEF gone
  <2>4. ASSUME NEW s \in UNION merges' PROVE s \in (UNION merges) \ gone
    <3>1. PICK g \in merges' : s \in g
      OBVIOUS
    <3>2. g = group \ gone \/ g \in merges \ {group}
      BY <2>3
    <3> QED BY <2>2, <3>1, <3>2
  <2>5. ASSUME NEW s \in (UNION merges) \ gone PROVE s \in UNION merges'
    <3>1. PICK g \in merges : s \in g
      OBVIOUS
    <3>2. CASE g = group
      <4>1. group \ gone \in merges'
        BY <2>3, <3>1, <3>2
      <4> QED BY <3>1, <3>2, <4>1
    <3>3. CASE g # group
      <4>1. g \in merges'
        BY <2>3, <3>1, <3>3
      <4> QED BY <3>1, <4>1
    <3> QED BY <3>2, <3>3
  <2>6. UNION merges' = (UNION merges) \ gone
    BY <2>4, <2>5
  <2> QED BY <2>6 DEF gone
<1>12. \A g, h \in merges' : g \cap h # {} => g = h
  <2>1. \A g, h \in merges : g \cap h # {} => g = h
    BY <1>3 DEF MergeInv
  <2> QED BY <1>1, <2>1
<1>13. /\ \A s \in base : pc[s] \notin MergePoints
       /\ statesAtMerge = Dead \cup UNION merges
  BY <1>3 DEF MergeInv
<1>14. MergeInv'
  <2>1. Dead' \in SUBSET statesAtMerge'
    BY <1>1, <1>3, <1>5, <1>7, <1>10 DEF MergeInv
  <2>2. ASSUME NEW s \in State PROVE removals'[s] <= 1
    <3>1. s \in toErase => removals[s] = 0
      BY <1>3, <1>5 DEF Dead, TypeOK
    <3>2. removals[s] <= 1 /\ removals[s] \in Nat
      BY <1>3 DEF MergeInv, TypeOK
    <3> QED BY <1>7, <3>1, <3>2
  <2>3. ASSUME NEW s \in statesAtMerge' \ Dead' PROVE pc'[s] \in MergePoints
    <3>1. s \in statesAtMerge \ Dead /\ s # kept /\ s \notin toErase /\ s \in State
      BY <1>1, <1>3, <1>7 DEF PlacesInv, TypeOK
    <3>2. pc'[s] = pc[s]
      BY <1>6, <1>7, <3>1
    <3> QED BY <1>3, <3>1, <3>2 DEF MergeInv
  <2>4. UNION merges' \in SUBSET (statesAtMerge' \ Dead')
    BY <1>1, <1>3, <1>7, <1>11 DEF MergeInv
  <2>5. ASSUME NEW s \in base' PROVE pc'[s] \notin MergePoints
    <3>1. CASE s = kept
      BY <1>10, <3>1
    <3>2. CASE s # kept
      <4>1. s \in base /\ s \in State /\ s \notin toErase
        BY <1>1, <1>3, <1>5, <3>2 DEF PlacesInv, TypeOK
      <4> QED BY <1>6, <1>7, <1>13, <3>2, <4>1
    <3> QED BY <3>1, <3>2
  <2>6. statesAtMerge' = Dead' \cup UNION merges'
    BY <1>1, <1>5, <1>7, <1>10, <1>11, <1>13
  <2>7. base' # {}
    BY <1>1
  <2> QED BY <1>2, <1>3, <1>12, <2>1, <2>2, <2>3, <2>4, <2>5, <2>6, <2>7 DEF MergeInv
<1> QED BY <1>2, <1>8, <1>9, <1>14 DEF MergingInv

LEMMA PopKeeps ==
  ASSUME MergingInv, Pop
  PROVE  MergingInv'
<1>1. PICK mp \in DOMAIN bumpAt : /\ pc' = SteppedPast(bumpAt[mp])
                                  /\ base' = {bumpAt[mp]}
                                  /\ bumpAt' = Restrict(bumpAt, DOMAIN bumpAt \ {mp})
  BY DEF Pop
<1>2. /\ merger = "bump" /\ assertion = "none" /\ selected = NoState /\ base = {}
      /\ UNCHANGED <<merger, prevPC, states, removals, selected, statesAtMerge, merges, assertion, killedAgain>>
  BY DEF Pop, Running
<1>3. TypeOK /\ PlacesInv /\ BumpInv
  BY <1>2 DEF MergingInv
<1>4. /\ DOMAIN bumpAt' = DOMAIN bumpAt \ {mp}
      /\ \A p \in DOMAIN bumpAt' : bumpAt'[p] = bumpAt[p]
  BY <1>1 DEF Restrict
<1>5. bumpAt[mp] \in State
  BY <1>3 DEF PlacesInv, TypeOK, Range
<1>6. TypeOK'
  BY <1>1, <1>2, <1>3, <1>4, <1>5, SteppedPastFacts DEF TypeOK
<1>7. PlacesInv'
  <2>1. Range(bumpAt) = Range(bumpAt') \cup {bumpAt[mp]}
    BY <1>4 DEF Range
  <2>2. bumpAt[mp] \notin Range(bumpAt')
    BY <1>3, <1>4 DEF PlacesInv, IsInjective, Range
  <2>3. IsInjective(bumpAt')
    BY <1>3, <1>4 DEF PlacesInv, IsInjective
  <2>4. states' = Range(bumpAt') \cup {bumpAt[mp]} /\ statesAtMerge' = {}
    BY <1>2, <1>3, <2>1, Zenon DEF PlacesInv, BumpInv
  <2> QED BY <1>1, <1>2, <2>2, <2>3, <2>4 DEF PlacesInv
<1>8. BumpInv'
  BY <1>2, <1>3 DEF BumpInv, Dead
<1> QED BY <1>2, <1>6, <1>7, <1>8 DEF MergingInv

LEMMA BumpParkKeeps ==
  ASSUME MergingInv, BumpPark
  PROVE  MergingInv'
<1>1. PICK s \in base : /\ MergePoint(s) # NULL /\ MergePoint(s) \notin DOMAIN bumpAt
                        /\ base' = base \ {s}
                        /\ bumpAt' = [p \in DOMAIN bumpAt \cup {MergePoint(s)} |->
                                        IF p = MergePoint(s) THEN s ELSE bumpAt[p]]
  BY DEF BumpPark
<1>2. /\ merger = "bump" /\ assertion = "none" /\ selected = NoState
      /\ UNCHANGED <<merger, pc, prevPC, states, removals, selected, statesAtMerge, merges,
                     assertion, killedAgain>>
  BY DEF BumpPark, Running, places
<1>3. TypeOK /\ PlacesInv /\ BumpInv
  BY <1>2 DEF MergingInv
<1>4. pc[s] \in MergePoints /\ MergePoint(s) = pc[s]
  BY <1>1, MergePointFacts
<1>5. s \notin Dead
  BY <1>3, <1>4 DEF BumpInv
<1>6. TypeOK'
  BY <1>1, <1>2, <1>3, <1>4 DEF TypeOK
<1>7. PlacesInv'
  <2>1. Range(bumpAt') = Range(bumpAt) \cup {s}
    BY <1>1 DEF Range
  <2>2. s \notin Range(bumpAt)
    BY <1>3 DEF PlacesInv
  <2>3. IsInjective(bumpAt')
    BY <1>1, <1>3, <2>2 DEF PlacesInv, IsInjective, Range
  <2> QED BY <1>1, <1>2, <1>3, <2>1, <2>2, <2>3 DEF PlacesInv
<1>8. BumpInv'
  BY <1>1, <1>2, <1>3, <1>5 DEF BumpInv, Dead
<1> QED BY <1>2, <1>6, <1>7, <1>8 DEF MergingInv

\* Both states are there, so neither is the first one before it ever ran, and
\* the one taken in goes back to an instruction that it executed.
LEMMA BumpMergeKeeps ==
  ASSUME MergingInv, BumpMerge
  PROVE  MergingInv'
<1>1. PICK s \in base : /\ MergePoint(s) \in DOMAIN bumpAt
                        /\ TerminateStates({s}, pc)
  BY DEF BumpMerge
<1>2. /\ merger = "bump" /\ assertion = "none" /\ selected = NoState
      /\ UNCHANGED <<merger, prevPC, states, selected, base, statesAtMerge, merges, bumpAt,
                     assertion, killedAgain>>
  BY DEF BumpMerge, Running
<1>3. TypeOK /\ PlacesInv /\ BumpInv
  BY <1>2 DEF MergingInv
<1>4. s \in states /\ s \in State
  BY <1>3 DEF PlacesInv, TypeOK
<1>5. prevPC[s] \notin MergePoints
  <2>1. bumpAt[MergePoint(s)] \in states /\ bumpAt[MergePoint(s)] # s
    BY <1>1, <1>3 DEF PlacesInv, Range
  <2> QED BY <1>3, <1>4, <2>1 DEF BumpInv
<1>6. /\ pc' \in [State -> Int] /\ removals' \in [State -> Nat]
      /\ Dead' = Dead \cup {s}
      /\ \A t \in State : pc'[t] = IF t \in {s} THEN prevPC[t] ELSE pc[t]
  <2>1. /\ pc' = [t \in State |-> IF t \in {s} THEN prevPC[t] ELSE pc[t]]
        /\ removals' = [t \in State |-> removals[t] + IF t \in {s} THEN 1 ELSE 0]
    BY <1>1 DEF TerminateStates
  <2>2. removals \in [State -> Nat] /\ prevPC \in [State -> Int] /\ pc \in [State -> Int]
    BY <1>3 DEF TypeOK
  <2> QED BY <1>4, <2>1, <2>2 DEF Dead
<1>7. TypeOK' /\ PlacesInv'
  BY <1>2, <1>3, <1>6 DEF TypeOK, PlacesInv
<1>8. BumpInv'
  <2>1. ASSUME NEW t \in Dead' PROVE pc'[t] \notin MergePoints
    <3>1. t \in State
      BY DEF Dead
    <3> QED BY <1>3, <1>5, <1>6, <3>1 DEF BumpInv
  <2> QED BY <1>2, <1>3, <1>6, <2>1 DEF BumpInv
<1> QED BY <1>2, <1>7, <1>8 DEF MergingInv

LEMMA BumpKeeps ==
  ASSUME MergingInv, Bump
  PROVE  MergingInv'
<1>1. PICK s \in base : /\ MergePoint(s) \in DOMAIN bumpAt
                        /\ bumpAt' = [bumpAt EXCEPT ![MergePoint(s)] = s]
                        /\ pc' = SteppedPast(bumpAt[MergePoint(s)])
                        /\ base' = (base \ {s}) \cup {bumpAt[MergePoint(s)]}
  BY DEF Bump
<1>2. /\ merger = "bump" /\ assertion = "none" /\ selected = NoState
      /\ UNCHANGED <<merger, prevPC, states, removals, selected, statesAtMerge, merges, assertion, killedAgain>>
  BY DEF Bump, Running
<1>3. TypeOK /\ PlacesInv /\ BumpInv
  BY <1>2 DEF MergingInv
<1> DEFINE parked == bumpAt[MergePoint(s)]
<1>4. parked \in Range(bumpAt) /\ parked \in State /\ parked \notin base /\ s # parked
  BY <1>1, <1>3 DEF PlacesInv, TypeOK, Range
<1>5. pc[s] \in MergePoints
  <2>1. MergePoint(s) \in MergePoints
    BY <1>1, <1>3 DEF TypeOK
  <2> QED BY <2>1, MergePointFacts
<1>6. s \notin Dead /\ s \notin Range(bumpAt)
  BY <1>3, <1>5 DEF BumpInv, PlacesInv
<1>7. pc' \in [State -> Int] /\ \A t \in State : t # parked => pc'[t] = pc[t]
  BY <1>1, <1>3, <1>4, SteppedPastFacts DEF TypeOK
<1>8. TypeOK'
  BY <1>1, <1>2, <1>3, <1>7 DEF TypeOK
<1>9. PlacesInv'
  <2>1. /\ DOMAIN bumpAt' = DOMAIN bumpAt
        /\ \A p \in DOMAIN bumpAt : bumpAt'[p] = IF p = MergePoint(s) THEN s ELSE bumpAt[p]
    BY <1>1
  <2>2. Range(bumpAt') = (Range(bumpAt) \ {parked}) \cup {s}
    BY <1>1, <1>3, <2>1 DEF PlacesInv, IsInjective, Range
  <2>3. IsInjective(bumpAt')
    BY <1>3, <1>6, <2>1 DEF PlacesInv, IsInjective, Range
  <2>4. /\ base' = (base \ {s}) \cup {parked} /\ states' = states
        /\ statesAtMerge' = statesAtMerge /\ selected' = NoState
    BY <1>1, <1>2
  <2> HIDE DEF parked
  <2>5. states' = base' \cup statesAtMerge' \cup Range(bumpAt')
    BY <1>1, <1>3, <1>4, <2>2, <2>4 DEF PlacesInv
  <2>6. base' \cap (statesAtMerge' \cup Range(bumpAt')) = {}
    BY <1>2, <1>3, <1>4, <2>2, <2>4 DEF PlacesInv, BumpInv
  <2> QED BY <2>3, <2>4, <2>5, <2>6 DEF PlacesInv
<1>10. BumpInv'
  <2>1. Dead' = Dead
    BY <1>2 DEF Dead
  <2>2. parked \notin Dead
    BY <1>3, <1>4 DEF BumpInv
  <2>3. \A t \in Dead : t \in State
    BY DEF Dead
  <2> QED BY <1>1, <1>2, <1>3, <1>4, <1>6, <1>7, <2>1, <2>2, <2>3 DEF BumpInv
<1> QED BY <1>2, <1>8, <1>9, <1>10 DEF MergingInv

\* One instruction, and updateStates: nobody is removed who is in the base
\* without the base hearing of it, or parked without being forgotten.
LEMMA ExecuteKeeps ==
  ASSUME MergingInv, Execute
  PROVE  MergingInv'
<1>1. PICK forked \in SUBSET (State \ states), ends \in BOOLEAN, killed \in SUBSET states :
        (killed = {} \/ MemoryLimit) /\ Instruction(forked, ends, killed)
  BY DEF Execute
<1>2. /\ selected # NoState /\ assertion = "none"
      /\ removals' = [s \in State |-> 0] /\ selected' = NoState
      /\ UNCHANGED <<merger, merges, bumpAt>>
  BY DEF Execute
<1>3. TypeOK /\ PlacesInv
  BY <1>2 DEF MergingInv
<1>4. selected \in base /\ selected \in states /\ selected \in State /\ pc[selected] \notin MergePoints
  BY <1>2, <1>3 DEF PlacesInv, TypeOK
<1>5. Dead' = {}
  BY <1>2 DEF Dead
<1> DEFINE ended   == IF ends THEN {selected} ELSE {}
           gone    == killed \cup ended
           removed == Dead \cup gone
           told    == NotParked(removed)
           moved   == {selected} \cup forked
           twice   == {t \in State : removals[t] > 1} \cup (Dead \cap gone)
                        \cup (killed \cap ended)
<1>6. /\ pc' = [t \in State |->
                  IF t \in gone THEN (IF t = selected THEN pc[selected] ELSE prevPC[t])
                  ELSE IF t \in moved THEN pc[selected] + 1 ELSE pc[t]]
      /\ prevPC' = [t \in State |-> IF t \in moved THEN pc[selected] ELSE prevPC[t]]
      /\ base' = (base \cup forked) \ told
      /\ statesAtMerge' = statesAtMerge \ removed
      /\ states' = (states \cup forked) \ removed
      /\ assertion' = IF twice # {} THEN "removed twice" ELSE AssertionOf(told)
      /\ killedAgain' = killed \cap (Dead \cup ended)
  BY <1>1 DEF Instruction, StillParked
<1>7. /\ told = IF merger = "merge" THEN removed \ statesAtMerge ELSE removed
      /\ forked \cap states = {} /\ gone \in SUBSET states
      /\ ended \in SUBSET {selected} /\ gone = killed \cup ended
      /\ removed = Dead \cup gone /\ moved = {selected} \cup forked
  BY <1>4 DEF NotParked
<1> HIDE DEF told, removed, moved, gone, ended
<1>a. /\ pc' \in [State -> Int] /\ prevPC' \in [State -> Int]
      /\ \A t \in State : t \notin gone /\ t \notin moved => pc'[t] = pc[t]
      /\ \A t \in State : prevPC'[t] = IF t \in moved THEN pc[selected] ELSE prevPC[t]
  <2>1. /\ pc[selected] \in Int /\ pc[selected] + 1 \in Int
        /\ \A t \in State : pc[t] \in Int /\ prevPC[t] \in Int
    BY <1>3, <1>4 DEF TypeOK
  <2> DEFINE there(t) == IF t \in gone THEN (IF t = selected THEN pc[selected] ELSE prevPC[t])
                         ELSE IF t \in moved THEN pc[selected] + 1 ELSE pc[t]
  <2>2. pc' = [t \in State |-> there(t)]
    BY <1>6
  <2>3. \A t \in State : there(t) \in Int
    BY <2>1
  <2>4. \A t \in State : t \notin gone /\ t \notin moved => there(t) = pc[t]
    OBVIOUS
  <2> HIDE DEF there
  <2>5. pc' \in [State -> Int] /\ \A t \in State : t \notin gone /\ t \notin moved => pc'[t] = pc[t]
    BY <2>2, <2>3, <2>4
  <2>6. prevPC' \in [State -> Int]
        /\ \A t \in State : prevPC'[t] = IF t \in moved THEN pc[selected] ELSE prevPC[t]
    BY <1>6, <2>1
  <2> QED BY <2>5, <2>6
<1>8. TypeOK'
  <2>1. states' \in SUBSET State
    BY <1>3, <1>6 DEF TypeOK
  <2>2. removals' \in [State -> Nat]
    BY <1>2
  <2> QED BY <1>2, <1>3, <1>a, <2>1, <2>2 DEF TypeOK
<1>9. CASE merger = "merge"
  <2>1. MergeInv
    BY <1>2, <1>9 DEF MergingInv
  <2>2. merges = {} /\ Range(bumpAt) = {} /\ Range(bumpAt') = {}
    BY <1>2, <2>1 DEF MergeInv, Range
  <2>3. states = base \cup statesAtMerge /\ base \cap statesAtMerge = {}
    BY <1>3, <2>2 DEF PlacesInv
  <2>4. told = removed \ statesAtMerge /\ told \in SUBSET base
    <3>1. removed \in SUBSET states
      BY <1>7, <2>1, <2>3 DEF MergeInv
    <3> QED BY <1>7, <1>9, <2>3, <3>1
  <2>5. assertion' = "none" \/ (MemoryLimit /\ killedAgain' # {})
    <3> SUFFICES ASSUME killedAgain' = {} PROVE assertion' = "none"
      BY <1>1, <1>6
    <3>1. \A t \in State : ~(removals[t] > 1)
      BY <1>3, <2>1 DEF MergeInv, TypeOK
    <3>2. selected \notin Dead
      BY <1>4, <2>1, <2>3 DEF MergeInv
    <3>3. killed \cap (Dead \cup ended) = {}
      BY <1>6
    <3>4. twice = {}
      BY <1>7, <3>1, <3>2, <3>3
    <3>5. AssertionOf(told) = "none"
      BY <2>4 DEF AssertionOf
    <3> QED BY <1>6, <3>4, <3>5
  <2>6. PlacesInv'
    <3>1. states' = base' \cup statesAtMerge' /\ base' \cap statesAtMerge' = {}
      BY <1>6, <1>7, <2>3, <2>4
    <3> QED BY <1>2, <1>3, <2>2, <3>1 DEF PlacesInv
  <2>7. MergeInv'
    <3>1. ASSUME NEW t \in statesAtMerge' PROVE pc'[t] \in MergePoints
      <4>1. t \in statesAtMerge \ Dead /\ t \notin gone /\ t \in states /\ t \in State
        BY <1>3, <1>6, <1>7, <2>3 DEF TypeOK
      <4>2. t \notin moved
        BY <1>4, <1>7, <2>3, <4>1
      <4> QED BY <1>a, <2>1, <4>1, <4>2 DEF MergeInv
    <3>2. \A s \in State : removals'[s] <= 1
      BY <1>2
    <3> QED BY <1>2, <1>5, <2>1, <2>2, <3>1, <3>2 DEF MergeInv
  <2> QED BY <1>2, <1>8, <1>9, <2>5, <2>6, <2>7 DEF MergingInv
<1>10. CASE merger = "bump"
  <2> SUFFICES ASSUME assertion' = "none" PROVE PlacesInv' /\ BumpInv'
    BY <1>2, <1>8, <1>10 DEF MergingInv
  <2>1. BumpInv
    BY <1>2, <1>10 DEF MergingInv
  <2>2. told = removed /\ removed \in SUBSET base
    BY <1>6, <1>7, <1>10 DEF AssertionOf
  <2>3. states = base \cup Range(bumpAt) /\ base \cap Range(bumpAt) = {}
    BY <1>3, <2>1 DEF PlacesInv, BumpInv
  <2>4. statesAtMerge' = {} /\ Range(bumpAt') = Range(bumpAt)
    BY <1>2, <1>6, <2>1 DEF BumpInv
  <2>5. PlacesInv'
    <3>1. states' = base' \cup Range(bumpAt) /\ base' \cap Range(bumpAt) = {}
      BY <1>6, <1>7, <2>2, <2>3
    <3> QED BY <1>2, <1>3, <2>4, <3>1 DEF PlacesInv
  <2>6. BumpInv'
    <3>1. ASSUME NEW t \in states' PROVE prevPC'[t] \notin MergePoints
      <4>1. t \in State /\ t \in states \cup forked
        BY <1>3, <1>6 DEF TypeOK
      <4>2. CASE t \in moved
        BY <1>4, <1>a, <4>1, <4>2
      <4>3. CASE t \notin moved
        <5>1. t \in states /\ t # selected
          BY <1>7, <4>1, <4>3
        <5> QED BY <1>4, <1>a, <2>1, <4>1, <4>3, <5>1 DEF BumpInv
      <4> QED BY <4>2, <4>3
    <3> QED BY <1>2, <1>5, <2>1, <2>4, <3>1 DEF BumpInv
  <2> QED BY <2>5, <2>6
<1> QED BY <1>3, <1>9, <1>10 DEF TypeOK

LEMMA MergingStep ==
  ASSUME MergesApart, MergingInv, [Next]_vars
  PROVE  MergingInv'
<1>1. CASE UNCHANGED vars
  <2>1. Dead' = Dead
    BY <1>1 DEF vars, places, Dead
  <2>2. (TypeOK => TypeOK') /\ (PlacesInv => PlacesInv')
    BY <1>1 DEF vars, places, TypeOK, PlacesInv
  <2>3. (MergeInv => MergeInv') /\ (BumpInv => BumpInv')
    BY <1>1, <2>1 DEF vars, places, MergeInv, BumpInv
  <2> QED BY <1>1, <2>2, <2>3 DEF vars, MergingInv
<1> QED BY <1>1, ReturnKeeps, ExecuteKeeps, ParkKeeps, AllAtMergeKeeps, MergeGroupKeeps,
           PopKeeps, BumpParkKeeps, BumpMergeKeeps, BumpKeeps DEF Next

-----------------------------------------------------------------------------
(* The theorems.                                                           *)

\* Who waits where, who was merged in this selectState and who is past it.
THEOREM MergingInductive ==
  ASSUME MergesApart
  PROVE  Spec => []MergingInv
<1>1. Init => MergingInv
  BY MergingAtStart
<1>2. MergingInv /\ [Next]_vars => MergingInv'
  BY MergingStep
<1> QED BY <1>1, <1>2, PTL DEF Spec

\* Neither merging searcher loses a state or holds one in two places, and
\* MergingSearcher never returns one that it has just terminated.
THEOREM NobodyIsLost ==
  ASSUME MergesApart
  PROVE  Spec => []EachInOnePlace
<1>1. MergingInv => EachInOnePlace
  <2> SUFFICES ASSUME MergingInv, assertion = "none" PROVE EachInOnePlace
    BY DEF EachInOnePlace
  <2>1. PlacesInv
    BY DEF MergingInv
  <2>2. ASSUME merger = "merge" PROVE selected \notin Dead
    <3>1. Dead \in SUBSET statesAtMerge
      BY <2>2 DEF MergingInv, MergeInv
    <3> QED BY <2>1, <3>1 DEF PlacesInv, Dead
  <2> QED BY <2>1, <2>2 DEF PlacesInv, EachInOnePlace
<1> QED BY <1>1, MergingInductive, PTL

\* With --use-merge the base searcher is told of a state it does not hold, or
\* updateStates finds one in removedStates twice, only if checkMemoryUsage has
\* picked a state already terminated; without --max-memory never.
THEOREM OnlyMemoryCheckFailsMerge ==
  ASSUME MergesApart
  PROVE  Spec => []MergeAssertsOnlyFromMemoryCheck
<1>1. MergingInv => MergeAssertsOnlyFromMemoryCheck
  BY DEF MergingInv, MergeAssertsOnlyFromMemoryCheck
<1> QED BY <1>1, MergingInductive, PTL

\* A state that selectState terminates was taken in by a live one at the same
\* call of klee_merge: its paths are still explored.
THEOREM MergesKeepAPath ==
  ASSUME MergesApart
  PROVE  Spec => MergedIntoLive
<1> DEFINE Kept(s) == selected = NoState /\ removals'[s] > removals[s] =>
                        \E t \in states : removals'[t] = 0 /\ t # s
                                          /\ pc[t] = pc[s] /\ MergePoint(s) # NULL
<1>1. MergingInv /\ [Next]_vars => [\A s \in State : Kept(s)]_vars
  <2> SUFFICES ASSUME MergingInv, Next, NEW s \in State, selected = NoState,
                      removals'[s] > removals[s]
               PROVE  \E t \in states : removals'[t] = 0 /\ t # s
                                        /\ pc[t] = pc[s] /\ MergePoint(s) # NULL
    OBVIOUS
  <2>1. assertion = "none" => TypeOK /\ PlacesInv
    BY DEF MergingInv
  <2>2. CASE MergeGroup
    <3>1. PICK group \in merges : \E kept \in group : \E toErase \in SUBSET Merged(group, kept) :
            TerminateStates(toErase, SteppedPast(kept))
      BY <2>2 DEF MergeGroup
    <3>2. PICK kept \in group : \E toErase \in SUBSET Merged(group, kept) :
            TerminateStates(toErase, SteppedPast(kept))
      BY <3>1
    <3>3. PICK toErase \in SUBSET Merged(group, kept) : TerminateStates(toErase, SteppedPast(kept))
      BY <3>2
    <3>4. TypeOK /\ PlacesInv /\ MergeInv
      BY <2>2 DEF MergeGroup, Running, MergingInv
    <3>5. \A t \in State : removals[t] \in Nat
                           /\ removals'[t] = removals[t] + IF t \in toErase THEN 1 ELSE 0
      BY <3>3, <3>4 DEF TerminateStates, TypeOK
    <3>6. s \in toErase
      BY <3>5
    <3>7. s \in group /\ s # kept /\ pc[kept] = pc[s] /\ kept \notin toErase
      BY <3>6 DEF Merged
    <3>8. s \in statesAtMerge \ Dead /\ kept \in statesAtMerge \ Dead
      BY <3>4, <3>7 DEF MergeInv
    <3>9. kept \in states /\ kept \in State /\ removals[kept] = 0
      BY <3>4, <3>5, <3>8 DEF PlacesInv, TypeOK, Dead
    <3>10. MergePoint(s) # NULL
      BY <3>4, <3>8, MergePointFacts DEF MergeInv
    <3> QED BY <3>5, <3>7, <3>9, <3>10
  <2>3. CASE BumpMerge
    <3>1. PICK s1 \in base : /\ MergePoint(s1) \in DOMAIN bumpAt
                             /\ pc[bumpAt[MergePoint(s1)]] = pc[s1]
                             /\ TerminateStates({s1}, pc)
      BY <2>3 DEF BumpMerge
    <3>2. TypeOK /\ PlacesInv /\ BumpInv
      BY <2>3 DEF BumpMerge, Running, MergingInv
    <3>3. \A t \in State : removals[t] \in Nat
                           /\ removals'[t] = removals[t] + IF t = s1 THEN 1 ELSE 0
      BY <3>1, <3>2 DEF TerminateStates, TypeOK
    <3>4. s = s1
      BY <3>3
    <3>5. bumpAt[MergePoint(s)] \in states \ base
      BY <3>1, <3>2, <3>4 DEF PlacesInv, Range
    <3>6. removals[bumpAt[MergePoint(s)]] = 0 /\ bumpAt[MergePoint(s)] \in State
      BY <3>2, <3>3, <3>5 DEF BumpInv, Dead, TypeOK
    <3>7. MergePoint(s) # NULL
      BY <3>1, <3>2, <3>4, MergePointFacts DEF TypeOK
    <3> QED BY <3>1, <3>3, <3>4, <3>5, <3>6, <3>7
  <2>4. CASE Execute
    BY <2>4 DEF Execute
  <2>5. CASE removals' = removals
    <3>1. Next => assertion = "none"
      BY DEF Next, Return, Execute, Park, AllAtMerge, MergeGroup, Pop, BumpPark, BumpMerge, Bump,
             Running
    <3>2. removals[s] \in Nat
      BY <2>1, <3>1 DEF TypeOK
    <3> QED BY <2>5, <3>2
  <2> QED BY <2>2, <2>3, <2>4, <2>5 DEF Next, Return, Park, AllAtMerge, Pop, BumpPark, Bump
<1> QED BY <1>1, MergingInductive, PTL DEF Spec, MergedIntoLive

=============================================================================
