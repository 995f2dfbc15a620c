----------------------------- MODULE SolverChain -----------------------------
(***************************************************************************)
(* The chain that constructSolverChain builds by default: IndependentSolver*)
(* reduces a query, CachingSolver and CexCachingSolver answer the slice or *)
(* the factors from their caches or with the core solver.  The caches are  *)
(* shared by all the states of the executor and are never emptied.         *)
(***************************************************************************)
EXTENDS IndependentSolver, SolverCaches, Integers

CONSTANT CacheLimit   \* bound on the cached queries: no new query past it

ASSUME ChainAssumption == CacheLimit \in Nat

VARIABLES
  options,    \* the command line
  cache,      \* CachingSolver::cache
  cex,        \* CexCachingSolver::cache
  solved,     \* how many of the factors have been solved
  retMap,     \* their solutions, by cell
  answer      \* of the last query

caches == <<cache, cex>>
reply == <<solved, retMap, answer>>
chainVars == <<vars, options, caches, reply>>

NoAnswer == [status |-> "none"]
Failed == [status |-> "failed"]
Done(r) == [status |-> "done", result |-> r]

NoValues == [c \in {} |-> Zero]
NoCache == [k \in {} |-> "None"]
NoCex == [k \in {} |-> {}]

-----------------------------------------------------------------------------
ChainInit ==
  /\ Init
  /\ options \in Options
  /\ cache = NoCache
  /\ cex = NoCex
  /\ solved = 0
  /\ retMap = NoValues
  /\ answer = NoAnswer

ChainAsk ==
  /\ Cardinality(DOMAIN cache) + Cardinality(DOMAIN cex) < CacheLimit
  /\ Ask
  /\ answer' = NoAnswer
  /\ UNCHANGED <<options, caches, solved, retMap>>

ChainReduce ==
  /\ Reduce
  /\ UNCHANGED <<options, caches, reply>>

\* The outcomes of the call that computeTruth, computeValidity and computeValue
\* make with the required constraints.
SliceOutcomes ==
  CASE query.kind = "truth" -> CachedTruth(options, cache, cex, current.exprs, query.expr)
    [] query.kind = "validity" -> CachedValidity(options, cache, cex, current.exprs, query.expr)
    [] query.kind = "value" -> CachedValue(options, cache, cex, current.exprs, query.expr)

AnswerSlice ==
  /\ stage = "sliced"
  /\ \E r \in SliceOutcomes :
       /\ answer' = IF r.status = "done" THEN Done(r.result) ELSE [status |-> r.status]
       /\ cache' = r.cache
       /\ cex' = r.cex
  /\ Answered
  /\ UNCHANGED <<options, solved, retMap>>

\* The bytes of a factor's solution: an array seen for the first time is taken
\* whole, in one seen before only the factor's own bytes are replaced.
Merge(values, factor, w) ==
  [c \in DOMAIN values \cup CellsOf(ArraysOf(ToSet(factor.exprs))) |->
     IF c \in factor.reads \/ c \notin DOMAIN values THEN w[c] ELSE values[c]]

\* computeInitialValues gives up: values.clear(), and false or no solution.
GiveUp ==
  /\ answer' = Failed
  /\ Answered
  /\ solved' = 0
  /\ retMap' = NoValues

\* One factor's initial values; a factor that reads no array is skipped.
SolveFactor ==
  /\ stage = "factored"
  /\ solved < Len(factors)
  /\ LET factor == factors[solved + 1]
     IN IF factor.reads = {}
        THEN solved' = solved + 1 /\ UNCHANGED <<vars, cex, retMap, answer>>
        ELSE \E r \in GetAssignment(options, cex, ToSet(factor.exprs)) :
               /\ cex' = r.cex
               /\ IF r.status # "done" \/ r.result = {}
                  THEN GiveUp
                  ELSE /\ \E w \in r.result : retMap' = Merge(retMap, factor, w)
                       /\ solved' = solved + 1
                       /\ UNCHANGED <<vars, answer>>
  /\ UNCHANGED <<options, cache>>

\* The values of the arrays asked for, 0 for those no constraint reads.
AnswerValues ==
  /\ stage = "factored"
  /\ solved = Len(factors)
  /\ answer' = Done([c \in CellsOf(query.objects) |->
                       IF c \in DOMAIN retMap THEN retMap[c] ELSE Zero])
  /\ Answered
  /\ solved' = 0
  /\ retMap' = NoValues
  /\ UNCHANGED <<options, caches>>

ChainNext == ChainAsk \/ ChainReduce \/ AnswerSlice \/ SolveFactor \/ AnswerValues

ChainSpec == ChainInit /\ [][ChainNext]_chainVars

\* A query is a call: the solver runs until it returns.
FairSpec == ChainSpec /\ WF_chainVars(ChainReduce \/ AnswerSlice \/ SolveFactor \/ AnswerValues)

-----------------------------------------------------------------------------
\* Both caches hold only facts: a partial validity is true of its constraints
\* and expression, an assignment satisfies its key, and a key with the null
\* pointer has no solution.
CachesAreSound == CacheSound(cache) /\ CexSound(cex)

\* For the executor the chain is a solver without caches, slices or factors:
\* every answer is right for the whole path, whatever was asked before.
Unreduced == INSTANCE Oracle
OracleImplemented == Unreduced!Spec

\* Every query is answered: the passes over slices and factors end.
EveryQueryAnswered == (query # NoQuery) ~> (query = NoQuery)

-----------------------------------------------------------------------------
(* The inductive invariant: IInv of the reduction, the caches sound, and    *)
(* whoever agrees with the bytes collected so far satisfies the factors     *)
(* solved so far.                                                           *)

CacheTyped(c) ==
  /\ DOMAIN c \subseteq Seq(Expr) \X Expr
  /\ \A k \in DOMAIN c : c[k] \in PartialValidity

CexTyped(c) == \A key \in DOMAIN c : c[key] \in SUBSET World

ChainTypeOK ==
  /\ options \in Options
  /\ CacheTyped(cache) /\ CexTyped(cex)
  /\ solved \in 0..Len(factors)
  /\ DOMAIN retMap \subseteq Cell /\ \A c \in DOMAIN retMap : retMap[c] \in Byte

SolvedInv ==
  \A j \in 1..solved :
    /\ factors[j].reads \subseteq DOMAIN retMap
    /\ \A w \in World : Agree(w, retMap, factors[j].reads)
                          => Satisfies(w, ToSet(factors[j].exprs))

ChainInv ==
  /\ IInv /\ ChainTypeOK /\ CachesAreSound
  /\ stage # "factored" => solved = 0 /\ retMap = NoValues
  /\ SolvedInv

=============================================================================
