----------------------------- MODULE SolverCaches -----------------------------
(***************************************************************************)
(* CachingSolver over CexCachingSolver over the core solver.  Each         *)
(* operator gives the set of outcomes of one call: its status, its result  *)
(* and the caches it leaves behind.  Several outcomes are possible because *)
(* the core solver may fail (a timeout) and may return any solution, and   *)
(* because a search of the counterexample cache may hit more than once.    *)
(***************************************************************************)
EXTENDS Queries, Functions

CONSTANT Options    \* --cex-cache-try-all, --cex-cache-superset, --cex-cache-exp

ASSUME OptionAssumption ==
  Options \subseteq [tryAll : BOOLEAN, superSet : BOOLEAN, exp : BOOLEAN]

-----------------------------------------------------------------------------
(* CexCachingSolver: a map from sets of expressions to an assignment of    *)
(* them, {w}, or to the null pointer {} when there is none.                *)

\* Assignment::evaluate gives 0 to the arrays without a binding.
ArraysOf(es) == {ArrayOf[c] : c \in UNION {e.reads : e \in es}}
Binds(w, es) == \A c \in Cell : ArrayOf[c] \notin ArraysOf(es) => w[c] = Zero

\* The core solver's computeInitialValues for the arrays of a key.
Solutions(es) ==
  IF Satisfiable(es)
  THEN {{w} : w \in {v \in World : Satisfies(v, es) /\ Binds(v, es)}}
  ELSE {{}}

Fits(a, es) == a # {} /\ \A w \in a : Satisfies(w, es)

\* Defective: also supersets with the null pointer.
FromAnySupersets(cex, key) == {cex[k] : k \in {l \in DOMAIN cex : key \subseteq l}}

\* MapOfSets::findSuperset with NonNullAssignment.
FromSupersets(cex, key) ==
  {cex[k] : k \in {l \in DOMAIN cex : key \subseteq l /\ cex[l] # {}}}

\* MapOfSets::findSubset with NullAssignment, or NullOrSatisfyingAssignment.
FromSubsets(cex, key, satisfying) ==
  {cex[k] : k \in {l \in DOMAIN cex :
                     /\ l \subseteq key
                     /\ cex[l] = {} \/ (satisfying /\ Fits(cex[l], key))}}

\* Any assignment in assignmentsTable that satisfies the key.
FromTable(cex, key) == {a \in Range(cex) : Fits(a, key)}

\* searchForAssignment.
Found(o, cex, key) ==
  LET supersets == IF o.superSet THEN FromSupersets(cex, key) ELSE {}
      subsets == FromSubsets(cex, key, ~o.tryAll)
  IN CASE key \in DOMAIN cex -> {cex[key]}
       [] OTHER -> IF supersets # {} THEN supersets
                   ELSE IF subsets # {} \/ ~o.tryAll THEN subsets
                   ELSE FromTable(cex, key)

\* MapOfSets::insert.
CexInsert(cex, key, a) ==
  [k \in DOMAIN cex \cup {key} |-> IF k = key THEN a ELSE cex[k]]

Outcome(result, cex) == [status |-> "done", result |-> result, cex |-> cex]
Failure(cex) == [status |-> "failed", cex |-> cex]
Abort(cex) == [status |-> "aborted", cex |-> cex]      \* an assertion fails

\* getAssignment: a cached answer, or the core solver's, which is cached.
GetAssignment(o, cex, key) ==
  IF Found(o, cex, key) # {}
  THEN {Outcome(a, cex) : a \in Found(o, cex, key)}
  ELSE {Failure(cex)} \cup
       {Outcome(a, CexInsert(cex, key, a)) : a \in Solutions(key)}

\* A call that goes on with Then if an earlier one succeeded.
Bind(outcomes, Then(_)) ==
  UNION {IF r.status = "done" THEN Then(r) ELSE {r} : r \in outcomes}

\* computeTruth.  With --cex-cache-exp a negation known to be impossible is
\* reported with `return false`, the sign of a failure.
CexTruth(o, cex, es, e) ==
  IF o.exp /\ {} \in Found(o, cex, es \cup {e})
  THEN {Failure(cex)}
  ELSE Bind(GetAssignment(o, cex, es \cup {Not(e)}),
            LAMBDA r : {Outcome(r.result = {}, r.cex)})

\* computeValidity: an assignment of the constraints decides which side is
\* known to be possible, and the other one is asked.
CexValidity(o, cex, es, e) ==
  Bind(GetAssignment(o, cex, es),
       LAMBDA r :
         IF r.result = {} THEN {Abort(r.cex)}
         ELSE IF r.result \subseteq e.holds
         THEN Bind(GetAssignment(o, r.cex, es \cup {Not(e)}),
                   LAMBDA s : {Outcome(IF s.result = {} THEN "True" ELSE "Unknown", s.cex)})
         ELSE Bind(GetAssignment(o, r.cex, es \cup {e}),
                   LAMBDA s : {Outcome(IF s.result = {} THEN "False" ELSE "Unknown", s.cex)}))

\* computeValue of a boolean expression.
CexValue(o, cex, es, e) ==
  Bind(GetAssignment(o, cex, es),
       LAMBDA r : {IF r.result = {} THEN Abort(r.cex)
                   ELSE Outcome(r.result \subseteq e.holds, r.cex)})

-----------------------------------------------------------------------------
(* CachingSolver: a map from constraints and an expression, or its         *)
(* negation, to what is known of it.                                       *)
PartialValidity == {"MustBeTrue", "MustBeFalse", "MayBeTrue", "MayBeFalse", "TrueOrFalse"}

Negate(pv) ==
  CASE pv = "MustBeTrue" -> "MustBeFalse"
    [] pv = "MustBeFalse" -> "MustBeTrue"
    [] pv = "MayBeTrue" -> "MayBeFalse"
    [] pv = "MayBeFalse" -> "MayBeTrue"
    [] OTHER -> pv

\* canonicalizeQuery: the smaller of an expression and its negation.
Canonical(e) == CHOOSE c \in {e, Not(e)} : TRUE
Entry(p, e) == <<p, Canonical(e)>>

\* Defective: what is known of the negation is taken for the expression.
Unoriented(e, pv) == pv

\* negatePartialValidity if canonicalizeQuery used the negation.
Oriented(e, pv) == IF Canonical(e) = e THEN pv ELSE Negate(pv)

Known(cache, p, e) ==
  IF Entry(p, e) \in DOMAIN cache THEN Oriented(e, cache[Entry(p, e)]) ELSE "None"

\* cacheInsert: unordered_map::insert leaves an entry that exists as it is.
Insert(cache, p, e, pv) ==
  IF Entry(p, e) \in DOMAIN cache THEN cache
  ELSE [k \in DOMAIN cache \cup {Entry(p, e)} |->
          IF k = Entry(p, e) THEN Oriented(e, pv) ELSE cache[k]]

Report(result, cache, cex) ==
  [status |-> "done", result |-> result, cache |-> cache, cex |-> cex]
NoReport(r, cache) == [status |-> r.status, cache |-> cache, cex |-> r.cex]

\* What the CexCachingSolver answered, given to the caller unless it failed.
Relay(cache, outcomes, Then(_)) ==
  {IF r.status = "done" THEN Then(r) ELSE NoReport(r, cache) : r \in outcomes}

\* computeTruth.
CachedTruth(o, cache, cex, p, e) ==
  LET pv == Known(cache, p, e)
      Learn(valid) == IF valid THEN "MustBeTrue"
                      ELSE IF pv = "MayBeTrue" THEN "TrueOrFalse" ELSE "MayBeFalse"
  IN IF pv \notin {"None", "MayBeTrue"}
     THEN {Report(pv = "MustBeTrue", cache, cex)}
     ELSE Relay(cache, CexTruth(o, cex, ToSet(p), e),
                LAMBDA r : Report(r.result,
                                  Insert(cache, p, e, Learn(r.result)), r.cex))

\* computeValidity.
Decided(v) == CASE v = "True" -> "MustBeTrue" [] v = "False" -> "MustBeFalse"
                [] OTHER -> "TrueOrFalse"

CachedValidity(o, cache, cex, p, e) ==
  LET pv == Known(cache, p, e)
      Tell(v, c) == Report(v, Insert(cache, p, e, Decided(v)), c)
  IN CASE pv = "MustBeTrue" -> {Report("True", cache, cex)}
       [] pv = "MustBeFalse" -> {Report("False", cache, cex)}
       [] pv = "TrueOrFalse" -> {Report("Unknown", cache, cex)}
       [] pv = "MayBeTrue" ->
            Relay(cache, CexTruth(o, cex, ToSet(p), e),
                  LAMBDA r : Tell(IF r.result THEN "True" ELSE "Unknown", r.cex))
       [] pv = "MayBeFalse" ->
            Relay(cache, CexTruth(o, cex, ToSet(p), Not(e)),
                  LAMBDA r : Tell(IF r.result THEN "False" ELSE "Unknown", r.cex))
       [] OTHER -> Relay(cache, CexValidity(o, cex, ToSet(p), e),
                         LAMBDA r : Tell(r.result, r.cex))

\* computeValue, which only passes the query on.
CachedValue(o, cache, cex, p, e) ==
  Relay(cache, CexValue(o, cex, ToSet(p), e),
        LAMBDA r : Report(r.result, cache, r.cex))

-----------------------------------------------------------------------------
\* Nothing in the caches is wrong.
Holds(pv, es, e) ==
  CASE pv = "MustBeTrue" -> Entails(es, e)
    [] pv = "MustBeFalse" -> Entails(es, Not(e))
    [] pv = "MayBeTrue" -> ~Entails(es, Not(e))
    [] pv = "MayBeFalse" -> ~Entails(es, e)
    [] pv = "TrueOrFalse" -> ~Entails(es, e) /\ ~Entails(es, Not(e))

CexSound(cex) ==
  \A key \in DOMAIN cex : IF cex[key] = {} THEN ~Satisfiable(key) ELSE Fits(cex[key], key)

CacheSound(cache) ==
  \A k \in DOMAIN cache : Holds(cache[k], ToSet(k[1]), k[2])
=============================================================================
