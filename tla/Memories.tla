------------------------------- MODULE Memories -------------------------------
(***************************************************************************)
(* What the address spaces promise to the states that own them: each state *)
(* has a memory of its own, a map from objects to their contents.  A fork  *)
(* copies it, and nothing one state does changes the memory of another.    *)
(***************************************************************************)
CONSTANTS Space, Object, Value

VARIABLE memory       \* the live spaces, each with its objects' contents

Live == DOMAIN memory

Init == \E s \in Space : memory = [t \in {s} |-> [o \in {} |-> CHOOSE v \in Value : TRUE]]

\* A new object, with whatever contents.
Allocate(s) ==
  \E o \in Object \ DOMAIN memory[s], v \in Value :
    memory' = [memory EXCEPT ![s] =
                 [p \in DOMAIN @ \cup {o} |-> IF p = o THEN v ELSE @[p]]]

\* Other contents for the same objects.
Store(s) ==
  \E m \in [DOMAIN memory[s] -> Value] : memory' = [memory EXCEPT ![s] = m]

Free(s) ==
  \E o \in DOMAIN memory[s] :
    memory' = [memory EXCEPT ![s] = [p \in DOMAIN @ \ {o} |-> @[p]]]

Fork(s) ==
  \E t \in Space \ Live :
    memory' = [u \in Live \cup {t} |-> IF u = t THEN memory[s] ELSE memory[u]]

Terminate(s) == memory' = [u \in Live \ {s} |-> memory[u]]

Next == \E s \in Live : Allocate(s) \/ Store(s) \/ Free(s) \/ Fork(s) \/ Terminate(s)

Spec == Init /\ [][Next]_memory
=============================================================================
