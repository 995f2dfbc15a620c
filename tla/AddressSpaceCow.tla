--------------------------- MODULE AddressSpaceCow ---------------------------
(***************************************************************************)
(* AddressSpace: copy-on-write memory of the execution states.  A space    *)
(* maps objects to ObjectStates (cells here), which forked spaces share.   *)
(* A cell belongs to the space whose cowKey equals its copyOnWriteOwner;   *)
(* only that one may write it in place.  A cell lives as long as some map  *)
(* holds it (the reference counts of ObjectHolder and of the map's nodes), *)
(* and the contents of an object are one value.                            *)
(***************************************************************************)
EXTENDS Integers

CONSTANTS
  Space, Object,
  Cell,               \* the identities of ObjectStates
  Value,
  KeyLimit            \* bound on cowKey: a fork past it is left out

ASSUME CowAssumption == KeyLimit \in Nat \ {0} /\ Value # {}

VARIABLES
  live,               \* the address spaces in existence
  cowKey,             \* AddressSpace::cowKey
  objects,            \* AddressSpace::objects, a map from objects to cells
  copyOnWriteOwner, readOnly, contents      \* of the ObjectStates

cells == <<copyOnWriteOwner, readOnly, contents>>
vars == <<live, cowKey, objects, cells>>

Bound(s) == DOMAIN objects[s]

\* The cells some live space refers to; the others can be (re)allocated.
CellsOf(s) == {objects[s][o] : o \in Bound(s)}
Allocated == UNION {CellsOf(s) : s \in live}
Unused == Cell \ Allocated

NoObjects == [o \in {} |-> CHOOSE c \in Cell : TRUE]
AnyValue == CHOOSE v \in Value : TRUE

-----------------------------------------------------------------------------
Init ==
  /\ \E s \in Space : live = {s}
  /\ cowKey = [s \in Space |-> 1]
  /\ objects = [s \in Space |-> NoObjects]
  /\ copyOnWriteOwner = [c \in Cell |-> 0]
  /\ readOnly = [c \in Cell |-> FALSE]
  /\ contents = [c \in Cell |-> AnyValue]

\* ObjectHolder: the new fields of the cells still referred to; the others are
\* deleted.
Fields(owner, ro, values) ==
  /\ copyOnWriteOwner' = [c \in Cell |-> IF c \in Allocated' THEN owner[c] ELSE 0]
  /\ readOnly' = [c \in Cell |-> c \in Allocated' /\ ro[c]]
  /\ contents' = [c \in Cell |-> IF c \in Allocated' THEN values[c] ELSE AnyValue]

\* A new ObjectState c, which bindObject gives to the space.
Bind(s, o, c, v, ro) ==
  /\ c \in Unused
  /\ objects' = [objects EXCEPT ![s] =
                   [p \in DOMAIN @ \cup {o} |-> IF p = o THEN c ELSE @[p]]]
  /\ UNCHANGED <<live, cowKey>>
  /\ Fields([copyOnWriteOwner EXCEPT ![c] = cowKey[s]],
            [readOnly EXCEPT ![c] = ro], [contents EXCEPT ![c] = v])

\* executeAlloc, and addExternalObject, which may make the object read-only:
\* a MemoryObject that no space has yet.
Alloc(s) ==
  \E o \in Object, c \in Cell, v \in Value, ro \in BOOLEAN :
    /\ \A t \in live : o \notin Bound(t)
    /\ Bind(s, o, c, v, ro)

\* handleMakeSymbolic and executeMakeSymbolic: a bound object that is not
\* read-only gets a new ObjectState "instead of a copy".
MakeSymbolic(s) ==
  \E o \in Bound(s), c \in Cell, v \in Value :
    /\ ~readOnly[objects[s][o]]
    /\ Bind(s, o, c, v, FALSE)

\* executeFree and popFrame.
Free(s) ==
  \E o \in Bound(s) : /\ objects' = [objects EXCEPT ![s] =
                                      [p \in DOMAIN @ \ {o} |-> @[p]]]
                      /\ UNCHANGED <<live, cowKey>>
                      /\ Fields(copyOnWriteOwner, readOnly, contents)

\* Defective: only a key above the space's makes a cell somebody else's.
SharedByOrder(s) == {o \in Bound(s) : copyOnWriteOwner[objects[s][o]] > cowKey[s]}

\* The objects whose cell the space does not own: getWriteable copies it.
Shared(s) == {o \in Bound(s) : copyOnWriteOwner[objects[s][o]] # cowKey[s]}

\* Writes values to some objects of s, each through getWriteable: the copies
\* of a cell belong to the space.
WriteAll(s, values) ==
  \E copy \in [DOMAIN values \cap Shared(s) -> Unused] :
    LET cellOf == [o \in Bound(s) |->
                     IF o \in DOMAIN copy THEN copy[o] ELSE objects[s][o]]
        Copied(c)  == \E o \in DOMAIN copy : copy[o] = c
        Written(c) == {o \in DOMAIN values : cellOf[o] = c}
    IN /\ \A o, p \in DOMAIN copy : copy[o] = copy[p] => o = p
       /\ objects' = [objects EXCEPT ![s] = cellOf]
       /\ Fields([c \in Cell |->
                    IF Copied(c) THEN cowKey[s] ELSE copyOnWriteOwner[c]],
                 [c \in Cell |-> readOnly[c] /\ ~Copied(c)],
                 [c \in Cell |-> IF Written(c) = {} THEN contents[c]
                                 ELSE values[CHOOSE o \in Written(c) : TRUE]])

\* Defective: read-only objects may be written as well.
WritableAll(s) == Bound(s)

\* The objects that are not read-only.
Writable(s) == {o \in Bound(s) : ~readOnly[objects[s][o]]}

\* executeMemoryOperation: a write in bounds to an object that is writable.
Write(s) ==
  /\ UNCHANGED <<live, cowKey>>
  /\ \E o \in Writable(s), v \in Value : WriteAll(s, [p \in {o} |-> v])

\* callExternalFunction: copyOutConcretes, the call, and copyInConcretes, which
\* writes what the call changed.
ExternalCall(s) ==
  /\ UNCHANGED <<live, cowKey>>
  /\ \E changed \in SUBSET Writable(s) :
       \E values \in [changed -> Value] : WriteAll(s, values)

\* ~ExecutionState.
Terminate(s) ==
  /\ live' = live \ {s}
  /\ cowKey' = [cowKey EXCEPT ![s] = 1]
  /\ objects' = [objects EXCEPT ![s] = NoObjects]
  /\ Fields(copyOnWriteOwner, readOnly, contents)

\* copyInConcretes meets a read-only object that was changed, and the state is
\* terminated: what was copied in until then goes with it.
ExternalFails(s) == Writable(s) # Bound(s) /\ Terminate(s)

\* The objects ExecutionState::merge finds mutated: same maps but other cells.
Mutated(s, t) == {o \in Bound(s) : objects[s][o] # objects[t][o]}

\* ExecutionState::merge(t): a select over both contents for what differs.  Its
\* assertion, that those are not read-only, is ReadOnlyIsShared.
Merge(s) ==
  \E t \in live \ {s} :
    /\ Bound(s) = Bound(t)
    /\ UNCHANGED <<live, cowKey>>
    /\ \E values \in [Mutated(s, t) -> Value] : WriteAll(s, values)

\* Defective: only the new space gets a new key.
NewKeyForCopy(s, t) == [cowKey EXCEPT ![t] = cowKey[s] + 1]

\* Defective: the copy starts at the first key again.
NewKeyRestarts(s, t) == [cowKey EXCEPT ![s] = @ + 1, ![t] = 1]

\* AddressSpace(const AddressSpace &b) : cowKey(++b.cowKey).
NewKeys(s, t) == [cowKey EXCEPT ![s] = @ + 1, ![t] = cowKey[s] + 1]

\* ExecutionState::branch.
Fork(s) ==
  \E t \in Space \ live :
    /\ cowKey[s] < KeyLimit
    /\ live' = live \cup {t}
    /\ cowKey' = NewKeys(s, t)
    /\ objects' = [objects EXCEPT ![t] = objects[s]]
    /\ UNCHANGED cells

Next ==
  \E s \in live : \/ Alloc(s) \/ MakeSymbolic(s) \/ Free(s) \/ Write(s)
                  \/ ExternalCall(s) \/ ExternalFails(s) \/ Merge(s)
                  \/ Fork(s) \/ Terminate(s)

Spec == Init /\ [][Next]_vars

-----------------------------------------------------------------------------
TypeOK ==
  /\ live \subseteq Space
  /\ cowKey \in [Space -> Nat \ {0}]
  /\ DOMAIN objects = Space
  /\ \A s \in Space : Bound(s) \subseteq Object /\ objects[s] \in [Bound(s) -> Cell]
  /\ copyOnWriteOwner \in [Cell -> Nat]
  /\ readOnly \in [Cell -> BOOLEAN]
  /\ contents \in [Cell -> Value]

\* AddressSpace.h:51, "forall o in objects, o->copyOnWriteOwner <= cowKey".
OwnersAreOld ==
  \A s \in live : \A o \in Bound(s) : copyOnWriteOwner[objects[s][o]] <= cowKey[s]

\* A cell stands for one object only, and one that a space owns is in no other
\* space: a write in place is seen by its owner alone.
OwnedAlone ==
  \A s, t \in live : \A o \in Bound(s), p \in Bound(t) :
    objects[s][o] = objects[t][p] =>
      o = p /\ (s = t \/ copyOnWriteOwner[objects[s][o]] # cowKey[s])

\* A read-only object has one cell in all the spaces: merge never finds it
\* mutated ("objects mutated but not writable in merging state").
ReadOnlyIsShared ==
  \A s, t \in live : \A o \in Bound(s) \cap Bound(t) :
    readOnly[objects[s][o]] => objects[s][o] = objects[t][o]

\* The spaces are memories of their own (Memories).
memory == [s \in live |-> [o \in Bound(s) |-> contents[objects[s][o]]]]
M == INSTANCE Memories
IndependentMemories == M!Spec

=============================================================================
