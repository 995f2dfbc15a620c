-------------------------------- MODULE Oracle --------------------------------
(***************************************************************************)
(* What a Solver promises to the executor: it answers one query at a time, *)
(* rightly, or it fails ("return True on success").  Which query is asked  *)
(* next, and what was asked before, make no difference.                    *)
(***************************************************************************)
EXTENDS Queries

VARIABLES query, answer

NoQuery == [kind |-> "none"]
NoAnswer == [status |-> "none"]
Failed == [status |-> "failed"]
Done(r) == [status |-> "done", result |-> r]

Init == query = NoQuery /\ answer = NoAnswer

Ask == /\ query = NoQuery
       /\ query' \in Query
       /\ answer' = NoAnswer

Reply == /\ query # NoQuery
         /\ query' = NoQuery
         /\ answer' \in {Done(r) : r \in Right(query)} \cup {Failed}

Next == Ask \/ Reply

Spec == Init /\ [][Next]_<<query, answer>>
===============================================================================
