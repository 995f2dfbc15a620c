------------------------ MODULE AddressSpaceCowProofs ------------------------
(***************************************************************************)
(* Copy-on-write is invisible: for any number of spaces, objects and cells *)
(* AddressSpaceCow implements Memories.                                    *)
(***************************************************************************)
EXTENDS AddressSpaceCow, TLAPS

IInv == TypeOK /\ OwnersAreOld /\ OwnedAlone /\ ReadOnlyIsShared

\* A cell that a space refers to is kept, with the fields the step gives it.
LEMMA KeptFields ==
  ASSUME NEW owner, NEW ro, NEW values, Fields(owner, ro, values),
         NEW t \in live', NEW p \in Bound(t)', objects'[t][p] \in Cell
  PROVE  /\ copyOnWriteOwner'[objects'[t][p]] = owner[objects'[t][p]]
         /\ readOnly'[objects'[t][p]] <=> ro[objects'[t][p]]
         /\ contents'[objects'[t][p]] = values[objects'[t][p]]
<1>1. objects'[t][p] \in Allocated'
  BY DEF Allocated, CellsOf, Bound
<1>2. QED
  BY <1>1 DEF Fields

\* The fields stay of their types, whatever is deleted.
LEMMA FieldTypes ==
  ASSUME NEW owner \in [Cell -> Nat], NEW ro, NEW values \in [Cell -> Value],
         \A c \in Cell : ro[c] \in BOOLEAN,
         Fields(owner, ro, values)
  PROVE  /\ copyOnWriteOwner' \in [Cell -> Nat]
         /\ readOnly' \in [Cell -> BOOLEAN]
         /\ contents' \in [Cell -> Value]
<1>1. AnyValue \in Value
  BY CowAssumption DEF AnyValue
<1>2. copyOnWriteOwner' \in [Cell -> Nat]
  BY DEF Fields
<1>3. readOnly' \in [Cell -> BOOLEAN]
  <2>1. readOnly' = [c \in Cell |-> c \in Allocated' /\ ro[c]]
    BY DEF Fields
  <2>2. \A c \in Cell : (c \in Allocated' /\ ro[c]) \in BOOLEAN
    OBVIOUS
  <2>3. QED
    BY <2>1, <2>2
<1>4. contents' \in [Cell -> Value]
  BY <1>1 DEF Fields
<1>5. QED
  BY <1>2, <1>3, <1>4

-----------------------------------------------------------------------------
\* Init establishes the invariant and maps to Memories' initial states.
LEMMA InitEstablishes == Init => IInv
<1> SUFFICES ASSUME Init PROVE IInv
  OBVIOUS
<1>1. PICK s \in Space : live = {s}
  BY DEF Init
<1>2. \A t \in Space : Bound(t) = {} /\ objects[t] \in [{} -> Cell]
  BY DEF Init, Bound, NoObjects
<1>3. AnyValue \in Value
  BY CowAssumption DEF AnyValue
<1>4. TypeOK
  <2>1. /\ live \subseteq Space /\ cowKey \in [Space -> Nat \ {0}]
        /\ DOMAIN objects = Space
    BY <1>1 DEF Init
  <2>2. \A t \in Space : Bound(t) \subseteq Object /\ objects[t] \in [Bound(t) -> Cell]
    BY <1>2
  <2>3. /\ copyOnWriteOwner \in [Cell -> Nat] /\ readOnly \in [Cell -> BOOLEAN]
        /\ contents \in [Cell -> Value]
    BY <1>3 DEF Init
  <2> QED BY <2>1, <2>2, <2>3 DEF TypeOK
<1>5. QED
  BY <1>1, <1>2, <1>4 DEF IInv, OwnersAreOld, OwnedAlone, ReadOnlyIsShared

LEMMA InitMaps == Init => M!Init
<1> SUFFICES ASSUME Init PROVE M!Init
  OBVIOUS
<1>1. PICK s \in Space : live = {s}
  BY DEF Init
<1>2. Bound(s) = {}
  BY DEF Init, Bound, NoObjects
<1>3. memory = [t \in {s} |-> [o \in {} |-> CHOOSE v \in Value : TRUE]]
  BY <1>1, <1>2 DEF memory
<1>4. QED
  BY <1>3 DEF M!Init

-----------------------------------------------------------------------------
\* A new cell in one space: for a new object, or for a bound one that no space
\* holds read-only.
MayBind(s, o, ro) ==
  \/ \A t \in live : o \notin Bound(t)
  \/ ~ro /\ o \in Bound(s) /\ ~readOnly[objects[s][o]]

Stored(s, o, v) ==
  memory' = [memory EXCEPT ![s] = [p \in DOMAIN @ \cup {o} |-> IF p = o THEN v ELSE @[p]]]

LEMMA BindKeeps ==
  ASSUME IInv, NEW s \in live, NEW o \in Object, NEW c \in Cell,
         NEW v \in Value, NEW ro \in BOOLEAN, Bind(s, o, c, v, ro), MayBind(s, o, ro)
  PROVE  IInv' /\ Stored(s, o, v)
<1> DEFINE owner  == [copyOnWriteOwner EXCEPT ![c] = cowKey[s]]
           ros    == [readOnly EXCEPT ![c] = ro]
           values == [contents EXCEPT ![c] = v]
<1>0. s \in Space /\ live' = live /\ cowKey' = cowKey /\ Fields(owner, ros, values)
  BY DEF Bind, IInv, TypeOK
<1>1. /\ \A t \in Space \ {s} : Bound(t)' = Bound(t) /\ objects'[t] = objects[t]
      /\ Bound(s)' = Bound(s) \cup {o}
      /\ objects'[s] = [p \in Bound(s) \cup {o} |-> IF p = o THEN c ELSE objects[s][p]]
      /\ DOMAIN objects' = Space
  BY <1>0 DEF Bind, IInv, TypeOK, Bound
<1>2. \A t \in live : \A p \in Bound(t) : objects[t][p] \in Cell /\ objects[t][p] # c
  BY DEF Bind, Unused, Allocated, CellsOf, IInv, TypeOK, Bound
<1>3. TypeOK'
  <2>1. owner \in [Cell -> Nat] /\ values \in [Cell -> Value]
    BY <1>0 DEF IInv, TypeOK
  <2>2. ros \in [Cell -> BOOLEAN]
    BY DEF IInv, TypeOK
  <2>3. /\ copyOnWriteOwner' \in [Cell -> Nat]
        /\ readOnly' \in [Cell -> BOOLEAN]
        /\ contents' \in [Cell -> Value]
    <3> HIDE DEF owner, ros, values
    <3> QED BY <1>0, <2>1, <2>2, FieldTypes
  <2>4. \A t \in Space : Bound(t)' \subseteq Object /\ objects'[t] \in [Bound(t)' -> Cell]
    <3>1. \A t \in Space : Bound(t) \subseteq Object /\ objects[t] \in [Bound(t) -> Cell]
      BY DEF IInv, TypeOK
    <3>2. Bound(s)' \subseteq Object /\ objects'[s] \in [Bound(s)' -> Cell]
      BY <1>0, <1>1, <3>1
    <3> QED BY <1>1, <3>1, <3>2
  <2>5. QED
    BY <1>0, <1>1, <2>3, <2>4 DEF IInv, TypeOK
<1>4. \A t \in live : \A p \in Bound(t)' :
        /\ copyOnWriteOwner'[objects'[t][p]] = owner[objects'[t][p]]
        /\ readOnly'[objects'[t][p]] <=> ros[objects'[t][p]]
        /\ contents'[objects'[t][p]] = values[objects'[t][p]]
  <2> HIDE DEF owner, ros, values
  <2> TAKE t \in live
  <2> TAKE p \in Bound(t)'
  <2>1. objects'[t][p] \in Cell /\ t \in live'
    BY <1>0, <1>3 DEF TypeOK
  <2> QED BY <1>0, <2>1, KeptFields
<1>5. \A t \in live : \A p \in Bound(t)' :
        \/ /\ t = s /\ p = o /\ objects'[t][p] = c
           /\ copyOnWriteOwner'[c] = cowKey[s]
           /\ readOnly'[c] <=> ro
           /\ contents'[c] = v
        \/ /\ t # s \/ p # o
           /\ p \in Bound(t)
           /\ objects'[t][p] = objects[t][p] /\ objects[t][p] # c
           /\ copyOnWriteOwner'[objects[t][p]] = copyOnWriteOwner[objects[t][p]]
           /\ readOnly'[objects[t][p]] <=> readOnly[objects[t][p]]
           /\ contents'[objects[t][p]] = contents[objects[t][p]]
  <2> TAKE t \in live
  <2> TAKE p \in Bound(t)'
  <2>1. t \in Space
    BY DEF IInv, TypeOK
  <2>2. CASE t = s /\ p = o
    <3>1. objects'[t][p] = c
      BY <1>1, <2>2
    <3>2. owner[c] = cowKey[s] /\ ros[c] = ro /\ values[c] = v
      BY DEF IInv, TypeOK
    <3> QED BY <1>4, <2>2, <3>1, <3>2
  <2>3. CASE t # s \/ p # o
    <3>1. p \in Bound(t) /\ objects'[t][p] = objects[t][p]
      BY <1>1, <2>1, <2>3
    <3>2. objects[t][p] \in Cell /\ objects[t][p] # c
      BY <1>2, <3>1
    <3>3. /\ owner[objects[t][p]] = copyOnWriteOwner[objects[t][p]]
          /\ ros[objects[t][p]] = readOnly[objects[t][p]]
          /\ values[objects[t][p]] = contents[objects[t][p]]
      BY <3>2 DEF IInv, TypeOK
    <3> QED BY <1>4, <2>3, <3>1, <3>2, <3>3
  <2> QED BY <2>2, <2>3
<1>6. OwnersAreOld'
  BY <1>0, <1>5 DEF IInv, TypeOK, OwnersAreOld
<1>7. OwnedAlone'
  BY <1>0, <1>5 DEF IInv, OwnedAlone
<1>8. ReadOnlyIsShared'
  <2> SUFFICES ASSUME NEW t \in live, NEW u \in live,
                      NEW p \in Bound(t)' \cap Bound(u)',
                      readOnly'[objects'[t][p]]
               PROVE  objects'[t][p] = objects'[u][p]
    BY <1>0 DEF ReadOnlyIsShared
  <2>1. CASE p # o
    BY <1>5, <2>1 DEF IInv, ReadOnlyIsShared
  <2>2. CASE p = o /\ \A w \in live : o \notin Bound(w)
    BY <1>5, <2>2
  <2>3. CASE p = o /\ ~ro /\ o \in Bound(s) /\ ~readOnly[objects[s][o]]
    BY <1>5, <2>3 DEF IInv, ReadOnlyIsShared
  <2> QED BY <2>1, <2>2, <2>3 DEF MayBind
<1>9. Stored(s, o, v)
  <2>1. \A t \in live : t # s =>
          [p \in Bound(t)' |-> contents'[objects'[t][p]]] =
          [p \in Bound(t) |-> contents[objects[t][p]]]
    BY <1>1, <1>5 DEF IInv, TypeOK
  <2>2. [p \in Bound(s)' |-> contents'[objects'[s][p]]] =
        [p \in Bound(s) \cup {o} |->
           IF p = o THEN v ELSE contents[objects[s][p]]]
    BY <1>1, <1>5
  <2>3. QED
    BY <1>0, <2>1, <2>2 DEF memory, Stored
<1> QED BY <1>3, <1>6, <1>7, <1>8, <1>9 DEF IInv

-----------------------------------------------------------------------------
\* Writes through getWriteable change the memory of their space and no other.
LEMMA WriteKeeps ==
  ASSUME IInv, NEW s \in live, NEW W \in SUBSET Writable(s),
         NEW values \in [W -> Value], WriteAll(s, values),
         live' = live, cowKey' = cowKey
  PROVE  /\ IInv'
         /\ \E m \in [Bound(s) -> Value] : memory' = [memory EXCEPT ![s] = m]
<1>0. s \in Space /\ DOMAIN values = W /\ W \subseteq Bound(s)
  BY DEF IInv, TypeOK, Writable
<1>1. PICK copy \in [DOMAIN values \cap Shared(s) -> Unused] :
        LET cellOf == [o \in Bound(s) |->
                         IF o \in DOMAIN copy THEN copy[o] ELSE objects[s][o]]
            Copied(c)  == \E o \in DOMAIN copy : copy[o] = c
            Written(c) == {o \in DOMAIN values : cellOf[o] = c}
        IN /\ \A o, p \in DOMAIN copy : copy[o] = copy[p] => o = p
           /\ objects' = [objects EXCEPT ![s] = cellOf]
           /\ Fields([c \in Cell |->
                        IF Copied(c) THEN cowKey[s] ELSE copyOnWriteOwner[c]],
                     [c \in Cell |-> readOnly[c] /\ ~Copied(c)],
                     [c \in Cell |-> IF Written(c) = {} THEN contents[c]
                                     ELSE values[CHOOSE o \in Written(c) : TRUE]])
  BY DEF WriteAll
<1> DEFINE cellOf == [o \in Bound(s) |->
                        IF o \in DOMAIN copy THEN copy[o] ELSE objects[s][o]]
           Copied(c)  == \E o \in DOMAIN copy : copy[o] = c
           Written(c) == {o \in DOMAIN values : cellOf[o] = c}
           owner == [c \in Cell |->
                       IF Copied(c) THEN cowKey[s] ELSE copyOnWriteOwner[c]]
           ros == [c \in Cell |-> readOnly[c] /\ ~Copied(c)]
           wrote == [c \in Cell |-> IF Written(c) = {} THEN contents[c]
                                    ELSE values[CHOOSE o \in Written(c) : TRUE]]
<1>2. /\ \A o, p \in DOMAIN copy : copy[o] = copy[p] => o = p
      /\ objects' = [objects EXCEPT ![s] = cellOf]
      /\ Fields(owner, ros, wrote)
  BY <1>1
<1>3. /\ \A t \in Space \ {s} : Bound(t)' = Bound(t) /\ objects'[t] = objects[t]
      /\ Bound(s)' = Bound(s) /\ objects'[s] = cellOf
      /\ DOMAIN objects' = Space
  BY <1>0, <1>2 DEF IInv, TypeOK, Bound
<1>4. \A t \in live : \A p \in Bound(t) :
        objects[t][p] \in Cell /\ ~Copied(objects[t][p])
  BY DEF Unused, Allocated, CellsOf, IInv, TypeOK, Bound
<1>5. /\ DOMAIN copy \subseteq W
      /\ \A o \in DOMAIN copy : copy[o] \in Cell
      /\ \A o \in W : o \notin DOMAIN copy => copyOnWriteOwner[objects[s][o]] = cowKey[s]
  BY <1>0 DEF Unused, Shared
<1> HIDE DEF owner, ros, wrote, cellOf, Copied
<1>6. \A o \in Bound(s) :
        /\ cellOf[o] = IF o \in DOMAIN copy THEN copy[o] ELSE objects[s][o]
        /\ cellOf[o] \in Cell
        /\ Copied(cellOf[o]) <=> o \in DOMAIN copy
  <2> TAKE o \in Bound(s)
  <2>1. cellOf[o] = IF o \in DOMAIN copy THEN copy[o] ELSE objects[s][o]
    BY DEF cellOf
  <2>2. CASE o \in DOMAIN copy
    BY <1>5, <2>1, <2>2 DEF Copied
  <2>3. CASE o \notin DOMAIN copy
    BY <1>4, <2>1, <2>3
  <2> QED BY <2>1, <2>2, <2>3
\* Two objects of s have different cells, the copied ones included.
<1>7. \A o \in Bound(s) : \A p \in Bound(s) : cellOf[o] = cellOf[p] => o = p
  <2> SUFFICES ASSUME NEW o \in Bound(s), NEW p \in Bound(s), cellOf[o] = cellOf[p]
               PROVE  o = p
    OBVIOUS
  <2>1. o \in DOMAIN copy <=> p \in DOMAIN copy
    BY <1>6
  <2>2. CASE o \in DOMAIN copy
    BY <1>2, <1>6, <2>1, <2>2
  <2>3. CASE o \notin DOMAIN copy
    BY <1>6, <2>1, <2>3 DEF IInv, OwnedAlone
  <2> QED BY <2>2, <2>3
\* What is written is not in another space.
<1>8. \A t \in live : \A p \in Bound(t) :
        t # s => Written(objects[t][p]) = {}
  <2> SUFFICES ASSUME NEW t \in live, NEW p \in Bound(t), t # s,
                      NEW o \in W, cellOf[o] = objects[t][p]
               PROVE  FALSE
    BY <1>0
  <2>1. o \in Bound(s) /\ o \notin DOMAIN copy
    BY <1>0, <1>4, <1>6
  <2> QED BY <1>5, <1>6, <2>1 DEF IInv, OwnedAlone
<1>9. /\ owner \in [Cell -> Nat]
      /\ \A c \in Cell : ros[c] \in BOOLEAN
      /\ wrote \in [Cell -> Value]
  <2>1. owner \in [Cell -> Nat]
    BY <1>0 DEF owner, IInv, TypeOK
  <2>2. \A c \in Cell : ros[c] \in BOOLEAN
    BY DEF ros, IInv, TypeOK
  <2>3. \A c \in Cell : Written(c) # {} => values[CHOOSE o \in Written(c) : TRUE] \in Value
    BY <1>0
  <2>4. wrote \in [Cell -> Value]
    <3>1. contents \in [Cell -> Value]
      BY DEF IInv, TypeOK
    <3> HIDE DEF Written
    <3> QED BY <2>3, <3>1 DEF wrote
  <2> QED BY <2>1, <2>2, <2>4
<1>10. TypeOK'
  <2>1. /\ copyOnWriteOwner' \in [Cell -> Nat]
        /\ readOnly' \in [Cell -> BOOLEAN]
        /\ contents' \in [Cell -> Value]
    BY <1>2, <1>9, FieldTypes
  <2>2. \A t \in Space : Bound(t) \subseteq Object /\ objects[t] \in [Bound(t) -> Cell]
    BY DEF IInv, TypeOK
  <2>3. cellOf \in [Bound(s) -> Cell]
    BY <1>6 DEF cellOf
  <2>4. \A t \in Space : Bound(t)' \subseteq Object /\ objects'[t] \in [Bound(t)' -> Cell]
    BY <1>0, <1>3, <2>2, <2>3
  <2> QED BY <1>0, <1>3, <2>1, <2>4 DEF IInv, TypeOK
<1>11. \A t \in live : \A p \in Bound(t)' :
         /\ objects'[t][p] \in Cell
         /\ copyOnWriteOwner'[objects'[t][p]] = owner[objects'[t][p]]
         /\ readOnly'[objects'[t][p]] <=> ros[objects'[t][p]]
         /\ contents'[objects'[t][p]] = wrote[objects'[t][p]]
  <2> TAKE t \in live
  <2> TAKE p \in Bound(t)'
  <2>1. objects'[t][p] \in Cell /\ t \in live'
    BY <1>10 DEF TypeOK
  <2> QED BY <1>2, <2>1, KeptFields
\* A bound cell is a copy, or the same as before but for what was written.
<1>12. \A t \in live : \A p \in Bound(t)' :
         /\ p \in Bound(t) /\ objects'[t][p] \in Cell
         /\ \/ /\ t = s /\ p \in DOMAIN copy /\ objects'[t][p] = copy[p]
               /\ copyOnWriteOwner'[objects'[t][p]] = cowKey[s]
               /\ ~readOnly'[objects'[t][p]]
            \/ /\ objects'[t][p] = objects[t][p]
               /\ t = s => p \notin DOMAIN copy
               /\ ~Copied(objects[t][p])
               /\ copyOnWriteOwner'[objects[t][p]] = copyOnWriteOwner[objects[t][p]]
               /\ readOnly'[objects[t][p]] <=> readOnly[objects[t][p]]
  <2> TAKE t \in live
  <2> TAKE p \in Bound(t)'
  <2>1. p \in Bound(t) /\ t \in Space
    BY <1>3 DEF IInv, TypeOK
  <2>2. CASE t = s /\ p \in DOMAIN copy
    <3>1. objects'[t][p] = copy[p] /\ Copied(copy[p]) /\ copy[p] \in Cell
      BY <1>3, <1>6, <2>1, <2>2
    <3>2. owner[copy[p]] = cowKey[s] /\ ~ros[copy[p]]
      BY <3>1 DEF owner, ros
    <3> QED BY <1>11, <2>1, <2>2, <3>1, <3>2
  <2>3. CASE ~(t = s /\ p \in DOMAIN copy)
    <3>1. objects'[t][p] = objects[t][p]
      BY <1>3, <1>6, <2>1, <2>3
    <3>2. objects[t][p] \in Cell /\ ~Copied(objects[t][p])
      BY <1>4, <2>1
    <3>3. /\ owner[objects[t][p]] = copyOnWriteOwner[objects[t][p]]
          /\ ros[objects[t][p]] <=> readOnly[objects[t][p]]
      BY <3>2 DEF owner, ros
    <3> QED BY <1>11, <2>1, <2>3, <3>1, <3>2, <3>3
  <2> QED BY <2>2, <2>3
<1>13. OwnersAreOld'
  BY <1>0, <1>12 DEF IInv, TypeOK, OwnersAreOld
<1>14. OwnedAlone'
  <2> SUFFICES ASSUME NEW t \in live, NEW u \in live,
                      NEW o \in Bound(t)', NEW p \in Bound(u)',
                      objects'[t][o] = objects'[u][p]
               PROVE  o = p /\ (t = u \/ copyOnWriteOwner'[objects'[t][o]] # cowKey[t])
    BY DEF OwnedAlone
  <2>1. CASE t = s /\ o \in DOMAIN copy
    <3>1. objects'[t][o] = copy[o] /\ Copied(copy[o])
      BY <1>12, <2>1 DEF Copied
    <3>2. CASE u = s /\ p \in DOMAIN copy
      <4>1. objects'[u][p] = copy[p]
        BY <1>12, <3>2 DEF Copied
      <4> QED BY <1>2, <2>1, <3>1, <3>2, <4>1
    <3>3. CASE ~(u = s /\ p \in DOMAIN copy)
      <4>1. objects'[u][p] = objects[u][p] /\ ~Copied(objects[u][p])
        BY <1>12, <3>3
      <4> QED BY <3>1, <4>1 DEF Copied
    <3> QED BY <3>2, <3>3
  <2>2. CASE ~(t = s /\ o \in DOMAIN copy)
    <3>1. /\ objects'[t][o] = objects[t][o] /\ ~Copied(objects[t][o])
          /\ copyOnWriteOwner'[objects[t][o]] = copyOnWriteOwner[objects[t][o]]
      BY <1>12, <2>2
    <3>2. ASSUME u = s, p \in DOMAIN copy PROVE FALSE
      <4>1. objects'[u][p] = copy[p]
        BY <1>12, <3>2
      <4> QED BY <3>1, <3>2, <4>1 DEF Copied
    <3>3. p \in Bound(u) /\ objects'[u][p] = objects[u][p]
      BY <1>12, <3>2
    <3>4. o \in Bound(t) /\ objects[t][o] = objects[u][p]
      BY <1>12, <3>1, <3>3
    <3>5. OwnedAlone
      BY DEF IInv
    <3>6. o = p /\ (t = u \/ copyOnWriteOwner[objects[t][o]] # cowKey[t])
      BY <3>3, <3>4, <3>5 DEF OwnedAlone
    <3> QED BY <3>1, <3>6
  <2> QED BY <2>1, <2>2
<1>15. ReadOnlyIsShared'
  <2> SUFFICES ASSUME NEW t \in live, NEW u \in live,
                      NEW p \in Bound(t)' \cap Bound(u)',
                      readOnly'[objects'[t][p]]
               PROVE  objects'[t][p] = objects'[u][p]
    BY DEF ReadOnlyIsShared
  <2>1. /\ p \in Bound(t) /\ p \in Bound(u)
        /\ objects'[t][p] = objects[t][p] /\ readOnly[objects[t][p]]
    BY <1>12
  <2>2. objects[u][p] = objects[t][p]
    BY <2>1 DEF IInv, ReadOnlyIsShared
  <2>3. ~(u = s /\ p \in DOMAIN copy)
    BY <1>5, <2>1, <2>2 DEF Writable
  <2> QED BY <1>12, <2>1, <2>2, <2>3
<1>16. \E m \in [Bound(s) -> Value] : memory' = [memory EXCEPT ![s] = m]
  <2> DEFINE m == [o \in Bound(s) |-> contents'[objects'[s][o]]]
  <2>1. m \in [Bound(s) -> Value]
    BY <1>3, <1>10, <1>11 DEF TypeOK
  <2>2. \A t \in live : t # s =>
          [p \in Bound(t)' |-> contents'[objects'[t][p]]] =
          [p \in Bound(t) |-> contents[objects[t][p]]]
    <3> SUFFICES ASSUME NEW t \in live, t # s
                 PROVE  /\ Bound(t)' = Bound(t)
                        /\ \A p \in Bound(t) : contents'[objects'[t][p]] = contents[objects[t][p]]
      OBVIOUS
    <3>1. Bound(t)' = Bound(t) /\ objects'[t] = objects[t]
      BY <1>3 DEF IInv, TypeOK
    <3>2. \A p \in Bound(t) : contents'[objects[t][p]] = wrote[objects[t][p]]
      BY <1>11, <3>1
    <3>3. \A p \in Bound(t) : wrote[objects[t][p]] = contents[objects[t][p]]
      BY <1>4, <1>8 DEF wrote
    <3> QED BY <3>1, <3>2, <3>3
  <2>3. memory' = [memory EXCEPT ![s] = m]
    <3>1. memory' = [t \in live |-> [p \in Bound(t)' |-> contents'[objects'[t][p]]]]
      BY DEF memory
    <3>2. [p \in Bound(s)' |-> contents'[objects'[s][p]]] = m
      BY <1>3
    <3>3. memory = [t \in live |-> [p \in Bound(t) |-> contents[objects[t][p]]]]
      BY DEF memory
    <3> HIDE DEF m
    <3> QED BY <2>2, <3>1, <3>2, <3>3
  <2> QED BY <2>1, <2>3
<1> QED BY <1>10, <1>13, <1>14, <1>15, <1>16 DEF IInv

-----------------------------------------------------------------------------
\* What a step that only drops bindings or spaces does: every binding left was
\* there before, with the same cell and fields.
LEMMA DropKeeps ==
  ASSUME IInv, live' \subseteq live, cowKey' \in [Space -> Nat \ {0}],
         \A t \in live' : cowKey'[t] = cowKey[t],
         DOMAIN objects' = Space,
         \A t \in Space : Bound(t)' \subseteq Bound(t)
                          /\ objects'[t] = [o \in Bound(t)' |-> objects[t][o]],
         Fields(copyOnWriteOwner, readOnly, contents)
  PROVE  /\ IInv'
         /\ \A t \in live' : memory'[t] = [o \in Bound(t)' |-> memory[t][o]]
<1>1. TypeOK'
  <2>1. /\ copyOnWriteOwner' \in [Cell -> Nat]
        /\ readOnly' \in [Cell -> BOOLEAN]
        /\ contents' \in [Cell -> Value]
    BY FieldTypes DEF IInv, TypeOK
  <2>2. \A t \in Space : Bound(t)' \subseteq Object /\ objects'[t] \in [Bound(t)' -> Cell]
    BY DEF IInv, TypeOK
  <2> QED BY <2>1, <2>2 DEF IInv, TypeOK
<1>2. \A t \in live' : \A p \in Bound(t)' :
        /\ t \in live /\ p \in Bound(t) /\ objects'[t][p] = objects[t][p]
        /\ copyOnWriteOwner'[objects[t][p]] = copyOnWriteOwner[objects[t][p]]
        /\ readOnly'[objects[t][p]] <=> readOnly[objects[t][p]]
        /\ contents'[objects[t][p]] = contents[objects[t][p]]
  <2> TAKE t \in live'
  <2> TAKE p \in Bound(t)'
  <2>1. t \in Space /\ t \in live /\ p \in Bound(t) /\ objects'[t][p] = objects[t][p]
    BY DEF IInv, TypeOK
  <2>2. objects'[t][p] \in Cell
    BY <2>1 DEF IInv, TypeOK
  <2> QED BY <2>1, <2>2, KeptFields
<1>3. OwnersAreOld'
  BY <1>2 DEF IInv, OwnersAreOld
<1>4. OwnedAlone'
  BY <1>2 DEF IInv, OwnedAlone
<1>5. ReadOnlyIsShared'
  BY <1>2 DEF IInv, ReadOnlyIsShared
<1>6. \A t \in live' : memory'[t] = [o \in Bound(t)' |-> memory[t][o]]
  <2> TAKE t \in live'
  <2>1. memory'[t] = [o \in Bound(t)' |-> contents'[objects'[t][o]]]
    BY DEF memory
  <2>2. memory[t] = [o \in Bound(t) |-> contents[objects[t][o]]]
    BY DEF memory
  <2>3. Bound(t)' \subseteq Bound(t)
    BY DEF IInv, TypeOK
  <2> QED BY <1>2, <2>1, <2>2, <2>3
<1> QED BY <1>1, <1>3, <1>4, <1>5, <1>6 DEF IInv

LEMMA FreeKeeps ==
  ASSUME IInv, NEW s \in live, Free(s)
  PROVE  IInv' /\ M!Free(s)
<1>1. PICK o \in Bound(s) :
        objects' = [objects EXCEPT ![s] = [p \in DOMAIN @ \ {o} |-> @[p]]]
  BY DEF Free
<1>2. /\ s \in Space /\ live' = live /\ cowKey' = cowKey
      /\ Fields(copyOnWriteOwner, readOnly, contents)
  BY DEF Free, IInv, TypeOK
<1>3. /\ DOMAIN objects' = Space
      /\ objects'[s] = [p \in Bound(s) \ {o} |-> objects[s][p]]
      /\ Bound(s)' = Bound(s) \ {o}
      /\ \A t \in Space \ {s} : objects'[t] = objects[t] /\ Bound(t)' = Bound(t)
  BY <1>1, <1>2 DEF IInv, TypeOK, Bound
<1>4. \A t \in Space : Bound(t)' \subseteq Bound(t)
                       /\ objects'[t] = [p \in Bound(t)' |-> objects[t][p]]
  BY <1>2, <1>3 DEF IInv, TypeOK
<1>5. /\ IInv'
      /\ \A t \in live : memory'[t] = [p \in Bound(t)' |-> memory[t][p]]
  BY <1>2, <1>3, <1>4, DropKeeps DEF IInv, TypeOK
<1>6. \A t \in live : memory[t] = [p \in Bound(t) |-> contents[objects[t][p]]]
  BY DEF memory
<1>7. memory' = [memory EXCEPT ![s] = [p \in DOMAIN @ \ {o} |-> @[p]]]
  <2>1. \A t \in live : t # s => memory'[t] = memory[t]
    <3> SUFFICES ASSUME NEW t \in live, t # s PROVE memory'[t] = memory[t]
      OBVIOUS
    <3>1. Bound(t)' = Bound(t)
      BY <1>3 DEF IInv, TypeOK
    <3>2. memory'[t] = [p \in Bound(t) |-> memory[t][p]]
      BY <1>5, <3>1
    <3> QED BY <1>6, <3>2
  <2>2. memory'[s] = [p \in DOMAIN memory[s] \ {o} |-> memory[s][p]]
    BY <1>3, <1>5, <1>6
  <2>3. DOMAIN memory' = live /\ DOMAIN memory = live
    BY <1>2 DEF memory
  <2>4. memory' = [t \in live |-> memory'[t]]
    BY <1>2 DEF memory
  <2> QED BY <2>1, <2>2, <2>3, <2>4
<1>8. o \in DOMAIN memory[s]
  BY <1>6
<1> QED BY <1>5, <1>7, <1>8 DEF M!Free

LEMMA TerminateKeeps ==
  ASSUME IInv, NEW s \in live, Terminate(s)
  PROVE  IInv' /\ M!Terminate(s)
<1>1. /\ s \in Space /\ live' = live \ {s}
      /\ cowKey' = [cowKey EXCEPT ![s] = 1]
      /\ objects' = [objects EXCEPT ![s] = NoObjects]
      /\ Fields(copyOnWriteOwner, readOnly, contents)
  BY DEF Terminate, IInv, TypeOK
<1>2. cowKey' \in [Space -> Nat \ {0}]
  BY <1>1 DEF IInv, TypeOK
<1>3. /\ DOMAIN objects' = Space
      /\ objects'[s] = NoObjects /\ Bound(s)' = {}
      /\ \A t \in Space \ {s} : objects'[t] = objects[t] /\ Bound(t)' = Bound(t)
  BY <1>1 DEF IInv, TypeOK, Bound, NoObjects
<1>4. \A t \in Space : Bound(t)' \subseteq Bound(t)
                       /\ objects'[t] = [p \in Bound(t)' |-> objects[t][p]]
  BY <1>1, <1>3 DEF IInv, TypeOK, NoObjects
<1>5. \A t \in live' : cowKey'[t] = cowKey[t]
  BY <1>1 DEF IInv, TypeOK
<1>6. /\ IInv'
      /\ \A t \in live' : memory'[t] = [p \in Bound(t)' |-> memory[t][p]]
  BY <1>1, <1>2, <1>3, <1>4, <1>5, DropKeeps
<1>7. memory' = [t \in live \ {s} |-> memory[t]]
  <2>1. \A t \in live' : memory'[t] = memory[t]
    <3> TAKE t \in live'
    <3>1. t \in live /\ Bound(t)' = Bound(t)
      BY <1>1, <1>3 DEF IInv, TypeOK
    <3>2. memory'[t] = [p \in Bound(t) |-> memory[t][p]]
      BY <1>6, <3>1
    <3>3. memory[t] = [p \in Bound(t) |-> contents[objects[t][p]]]
      BY <3>1 DEF memory
    <3> QED BY <3>2, <3>3
  <2>2. memory' = [t \in live' |-> memory'[t]]
    BY DEF memory
  <2> QED BY <1>1, <2>1, <2>2
<1>8. DOMAIN memory = live
  BY DEF memory
<1> QED BY <1>6, <1>7, <1>8 DEF M!Terminate, M!Live

LEMMA ForkKeeps ==
  ASSUME IInv, NEW s \in live, Fork(s)
  PROVE  IInv' /\ M!Fork(s)
<1>1. PICK t \in Space \ live :
        /\ live' = live \cup {t}
        /\ cowKey' = NewKeys(s, t)
        /\ objects' = [objects EXCEPT ![t] = objects[s]]
        /\ UNCHANGED cells
  BY DEF Fork
<1>2. /\ s \in Space /\ s # t /\ cowKey[s] \in Nat \ {0}
      /\ cowKey'[s] = cowKey[s] + 1 /\ cowKey'[t] = cowKey[s] + 1
      /\ \A u \in Space \ {s, t} : cowKey'[u] = cowKey[u]
      /\ cowKey' \in [Space -> Nat \ {0}]
  BY <1>1 DEF IInv, TypeOK, NewKeys
<1>3. /\ DOMAIN objects' = Space
      /\ objects'[t] = objects[s] /\ Bound(t)' = Bound(s)
      /\ \A u \in Space \ {t} : objects'[u] = objects[u] /\ Bound(u)' = Bound(u)
  BY <1>1 DEF IInv, TypeOK, Bound
<1>4. TypeOK'
  BY <1>1, <1>2, <1>3 DEF IInv, TypeOK, cells
\* The new space is the old one under another name and with a newer key.
<1>5. PICK from \in [live' -> live] : \A u \in live' :
        /\ Bound(u)' = Bound(from[u]) /\ objects'[u] = objects[from[u]]
        /\ from[u] = s => cowKey'[u] = cowKey[s] + 1 /\ u \in {s, t}
        /\ from[u] # s => cowKey'[u] = cowKey[u] /\ from[u] = u
  <2> DEFINE f == [u \in live' |-> IF u = t THEN s ELSE u]
  <2>1. f \in [live' -> live]
    BY <1>1
  <2>2. \A u \in live' :
          /\ Bound(u)' = Bound(f[u]) /\ objects'[u] = objects[f[u]]
          /\ f[u] = s => cowKey'[u] = cowKey[s] + 1 /\ u \in {s, t}
          /\ f[u] # s => cowKey'[u] = cowKey[u] /\ f[u] = u
    BY <1>1, <1>2, <1>3 DEF IInv, TypeOK
  <2> HIDE DEF f
  <2> QED BY <2>1, <2>2
<1>6. OwnersAreOld'
  <2> SUFFICES ASSUME NEW u \in live', NEW o \in Bound(u)'
               PROVE  copyOnWriteOwner'[objects'[u][o]] <= cowKey'[u]
    BY DEF OwnersAreOld
  <2>1. /\ copyOnWriteOwner[objects[from[u]][o]] <= cowKey[from[u]]
        /\ copyOnWriteOwner'[objects'[u][o]] = copyOnWriteOwner[objects[from[u]][o]]
    BY <1>1, <1>5 DEF IInv, OwnersAreOld, cells
  <2>2. copyOnWriteOwner[objects[from[u]][o]] \in Nat /\ cowKey[from[u]] \in Nat
    BY <1>5 DEF IInv, TypeOK
  <2> QED BY <1>5, <2>1, <2>2
<1>7. OwnedAlone'
  <2> SUFFICES ASSUME NEW u \in live', NEW w \in live',
                      NEW o \in Bound(u)', NEW p \in Bound(w)',
                      objects'[u][o] = objects'[w][p]
               PROVE  o = p /\ (u = w \/ copyOnWriteOwner'[objects'[u][o]] # cowKey'[u])
    BY DEF OwnedAlone
  <2>1. /\ o \in Bound(from[u]) /\ p \in Bound(from[w])
        /\ from[u] \in live /\ from[w] \in live
        /\ objects[from[u]][o] = objects[from[w]][p]
        /\ objects'[u][o] = objects[from[u]][o]
    BY <1>5
  <2>2. /\ o = p
        /\ from[u] = from[w] \/ copyOnWriteOwner[objects[from[u]][o]] # cowKey[from[u]]
    BY <2>1 DEF IInv, OwnedAlone
  <2>3. copyOnWriteOwner'[objects'[u][o]] = copyOnWriteOwner[objects[from[u]][o]]
    BY <1>1, <2>1 DEF cells
  <2>4. /\ copyOnWriteOwner[objects[from[u]][o]] <= cowKey[from[u]]
        /\ copyOnWriteOwner[objects[from[u]][o]] \in Nat
    BY <2>1 DEF IInv, OwnersAreOld, TypeOK
  <2>5. CASE from[u] = s
    <3>1. copyOnWriteOwner[objects[from[u]][o]] # cowKey'[u]
      BY <1>2, <1>5, <2>4, <2>5
    <3> QED BY <2>2, <2>3, <3>1
  <2>6. CASE from[u] # s
    <3>1. cowKey'[u] = cowKey[from[u]] /\ from[u] = u
      BY <1>5, <2>6
    <3>2. from[u] = from[w] => u = w
      BY <1>5, <2>6
    <3> QED BY <2>2, <2>3, <3>1, <3>2
  <2> QED BY <2>5, <2>6
<1>8. ReadOnlyIsShared'
  BY <1>1, <1>5 DEF IInv, ReadOnlyIsShared, cells
<1>9. memory' = [u \in live \cup {t} |-> IF u = t THEN memory[s] ELSE memory[u]]
  <2>1. \A u \in live : memory[u] = [o \in Bound(u) |-> contents[objects[u][o]]]
    BY DEF memory
  <2>2. \A u \in live' : memory'[u] = [o \in Bound(u)' |-> contents'[objects'[u][o]]]
    BY DEF memory
  <2>3. \A u \in live : memory'[u] = memory[u]
    <3> TAKE u \in live
    <3>1. u \in live' /\ objects'[u] = objects[u] /\ Bound(u)' = Bound(u)
      BY <1>1, <1>3 DEF IInv, TypeOK
    <3>2. contents' = contents
      BY <1>1 DEF cells
    <3>3. memory'[u] = [o \in Bound(u) |-> contents[objects[u][o]]]
      BY <2>2, <3>1, <3>2
    <3> QED BY <2>1, <3>3
  <2>4. memory'[t] = memory[s]
    <3>1. t \in live' /\ objects'[t] = objects[s] /\ Bound(t)' = Bound(s)
      BY <1>1, <1>3
    <3>2. contents' = contents
      BY <1>1 DEF cells
    <3>3. memory'[t] = [o \in Bound(s) |-> contents[objects[s][o]]]
      BY <2>2, <3>1, <3>2
    <3> QED BY <2>1, <3>3
  <2>5. memory' = [u \in live' |-> memory'[u]]
    BY DEF memory
  <2> QED BY <1>1, <2>3, <2>4, <2>5
<1>10. DOMAIN memory = live
  BY DEF memory
<1> QED BY <1>1, <1>4, <1>6, <1>7, <1>8, <1>9, <1>10 DEF IInv, M!Fork, M!Live

-----------------------------------------------------------------------------
\* Every step keeps the invariant, and is a step of Memories in one space.
LEMMA StepKeeps ==
  ASSUME IInv, [Next]_vars
  PROVE  IInv' /\ [M!Next]_memory
<1>1. CASE UNCHANGED vars
  <2>1. memory' = memory
    BY <1>1 DEF vars, cells, memory, Bound
  <2>2. IInv'
    BY <1>1 DEF vars, cells, IInv, TypeOK, OwnersAreOld, OwnedAlone,
                ReadOnlyIsShared, Bound
  <2> QED BY <2>1, <2>2
<1>2. ASSUME NEW s \in live, Alloc(s)
      PROVE  IInv' /\ M!Allocate(s)
  <2>1. PICK o \in Object, c \in Cell, v \in Value, ro \in BOOLEAN :
          (\A t \in live : o \notin Bound(t)) /\ Bind(s, o, c, v, ro)
    BY <1>2 DEF Alloc
  <2>2. DOMAIN memory[s] = Bound(s)
    BY DEF memory
  <2>3. /\ IInv'
        /\ memory' = [memory EXCEPT ![s] =
                        [p \in DOMAIN @ \cup {o} |-> IF p = o THEN v ELSE @[p]]]
    <3>1. MayBind(s, o, ro)
      BY <2>1 DEF MayBind
    <3>2. IInv' /\ Stored(s, o, v)
      BY <2>1, <3>1, BindKeeps
    <3> QED BY <3>2 DEF Stored
  <2> QED BY <2>1, <2>2, <2>3 DEF M!Allocate
<1>3. ASSUME NEW s \in live, MakeSymbolic(s)
      PROVE  IInv' /\ M!Store(s)
  <2>1. PICK o \in Bound(s), c \in Cell, v \in Value :
          ~readOnly[objects[s][o]] /\ Bind(s, o, c, v, FALSE)
    BY <1>3 DEF MakeSymbolic
  <2>2. /\ memory[s] = [p \in Bound(s) |-> contents[objects[s][p]]]
        /\ memory[s] \in [Bound(s) -> Value] /\ o \in Object
    BY DEF memory, IInv, TypeOK
  <2>3. /\ IInv'
        /\ memory' = [memory EXCEPT ![s] =
                        [p \in DOMAIN @ \cup {o} |-> IF p = o THEN v ELSE @[p]]]
    <3>1. PICK ro \in BOOLEAN : ro = FALSE
      OBVIOUS
    <3>2. ~ro /\ Bind(s, o, c, v, ro)
      BY <2>1, <3>1, Zenon
    <3>3. o \in Object /\ o \in Bound(s) /\ ~readOnly[objects[s][o]]
      BY <2>1, <2>2
    <3>4. MayBind(s, o, ro)
      BY <3>2, <3>3 DEF MayBind
    <3>5. IInv' /\ Stored(s, o, v)
      BY <3>2, <3>3, <3>4, BindKeeps
    <3> QED BY <3>5 DEF Stored
  <2>4. DOMAIN memory[s] = Bound(s) /\ Bound(s) \cup {o} = Bound(s)
    BY <2>2
  <2> DEFINE m == [p \in Bound(s) |-> IF p = o THEN v ELSE memory[s][p]]
  <2>5. m \in [DOMAIN memory[s] -> Value]
    BY <2>2
  <2>6. memory' = [memory EXCEPT ![s] = m]
    BY <2>3, <2>4
  <2> HIDE DEF m
  <2> QED BY <2>3, <2>5, <2>6 DEF M!Store
<1>4. ASSUME NEW s \in live, NEW W \in SUBSET Writable(s),
             NEW values \in [W -> Value], WriteAll(s, values),
             UNCHANGED <<live, cowKey>>
      PROVE  IInv' /\ M!Store(s)
  <2>1. DOMAIN memory[s] = Bound(s)
    BY DEF memory
  <2> QED BY <1>4, <2>1, WriteKeeps DEF M!Store
<1>5. ASSUME NEW s \in live, Write(s)
      PROVE  IInv' /\ M!Store(s)
  <2>1. PICK o \in Writable(s), v \in Value : WriteAll(s, [p \in {o} |-> v])
    BY <1>5 DEF Write
  <2>2. {o} \in SUBSET Writable(s) /\ [p \in {o} |-> v] \in [{o} -> Value]
    OBVIOUS
  <2>3. UNCHANGED <<live, cowKey>>
    BY <1>5 DEF Write
  <2> QED BY <1>4, <2>1, <2>2, <2>3
<1>6. ASSUME NEW s \in live, ExternalCall(s)
      PROVE  IInv' /\ M!Store(s)
  BY <1>4, <1>6 DEF ExternalCall
<1>7. ASSUME NEW s \in live, Merge(s)
      PROVE  IInv' /\ M!Store(s)
  <2>1. PICK t \in live \ {s} :
          /\ Bound(s) = Bound(t)
          /\ UNCHANGED <<live, cowKey>>
          /\ \E values \in [Mutated(s, t) -> Value] : WriteAll(s, values)
    BY <1>7 DEF Merge
  <2>2. Mutated(s, t) \in SUBSET Writable(s)
    <3>1. \A o \in Bound(s) : readOnly[objects[s][o]] => objects[s][o] = objects[t][o]
      BY <2>1 DEF IInv, ReadOnlyIsShared
    <3> QED BY <3>1 DEF Mutated, Writable
  <2> QED BY <1>4, <2>1, <2>2
<1>8. SUFFICES ASSUME NEW s \in live,
                      \/ Alloc(s) \/ MakeSymbolic(s) \/ Free(s) \/ Write(s)
                      \/ ExternalCall(s) \/ ExternalFails(s) \/ Merge(s)
                      \/ Fork(s) \/ Terminate(s)
               PROVE  IInv' /\ M!Next
  BY <1>1 DEF Next
<1>9. ExternalFails(s) => Terminate(s)
  BY DEF ExternalFails
<1>10. IInv' /\ (M!Allocate(s) \/ M!Store(s) \/ M!Free(s) \/ M!Fork(s) \/ M!Terminate(s))
  BY <1>2, <1>3, <1>5, <1>6, <1>7, <1>8, <1>9,
     FreeKeeps, ForkKeeps, TerminateKeeps
<1>11. M!Live = live
  BY DEF M!Live, memory
<1> QED BY <1>10, <1>11 DEF M!Next

-----------------------------------------------------------------------------
\* The invariant behind the results below.
THEOREM Inductive == Spec => []IInv
BY InitEstablishes, StepKeeps, PTL DEF Spec

\* The address spaces and the cells are of their types.
THEOREM TypeCorrect == Spec => []TypeOK
<1>1. IInv => TypeOK
  BY DEF IInv
<1> QED BY <1>1, Inductive, PTL

\* AddressSpace.h:51: no bound cell has an owner newer than the space.
THEOREM OwnersNeverNewer == Spec => []OwnersAreOld
<1>1. IInv => OwnersAreOld
  BY DEF IInv
<1> QED BY <1>1, Inductive, PTL

\* A write in place is seen in one space only.
THEOREM WritesInPlaceArePrivate == Spec => []OwnedAlone
<1>1. IInv => OwnedAlone
  BY DEF IInv
<1> QED BY <1>1, Inductive, PTL

\* ExecutionState.cpp:330 holds: merge never writes a read-only object.
THEOREM MergeNeverWritesReadOnly == Spec => []ReadOnlyIsShared
<1>1. IInv => ReadOnlyIsShared
  BY DEF IInv
<1> QED BY <1>1, Inductive, PTL

\* Forked states have memories of their own: copy-on-write implements Memories.
THEOREM CowIsInvisible == Spec => IndependentMemories
<1>1. IInv /\ [Next]_vars => [M!Next]_memory
  BY StepKeeps
<1> QED BY <1>1, InitMaps, Inductive, PTL DEF Spec, IndependentMemories, M!Spec
=============================================================================
