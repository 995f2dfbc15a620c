--------------------------- MODULE ConeOfInfluence ---------------------------
(***************************************************************************)
(* The cone of influence (--coi-prune): before the run, the functions that *)
(* the design's _eval calls are searched for what the assertions of the    *)
(* test bench depend on (ExecutorCoI.cpp, DependencyGraph.cpp,             *)
(* VarAnalysis.cpp); during the run, calls of the others are skipped.      *)
(*                                                                         *)
(* A design is its functions in the order of the module, the instructions  *)
(* of _eval (names of functions called, or Other), those of __user_main,   *)
(* and the id of the module's first instruction that it models.  A         *)
(* function's code is a sequence of instructions with operator op, the     *)
(* indices args of its operands (0 is a constant), the register var a      *)
(* getelementptr points to, and the instruction `to` a branch may go to.   *)
(***************************************************************************)
EXTENDS Integers, SequencesExt

CONSTANTS
  Vars,        \* (class, register) pairs: instances of a class are not told apart
  Designs,
  EvalCalls    \* 2 * (simCycles + rstCycles) of getKleeAssertVars

Other == "other"            \* an instruction that is no call
NotFound == "Not Found"
Names(d) == {d.funcs[n].name : n \in DOMAIN d.funcs}

VARIABLES
  design,
  phase,       \* "asserts", "graph", "mark", then "run"
  pc,          \* position in _eval
  asserts,     \* assertVarSet
  nodes,       \* dgNodeSet: what each called function writes
  marked,      \* the asserted variables that have been looked at
  targets,     \* targetNodes, never cleared
  todo,        \* the target nodes left to track from
  queue,       \* btQueue: sets of variables
  tracked,     \* trackedVars
  remainInstr, \* remainInstrSet
  remainFunc,  \* remainFuncSet
  evals,       \* calls of _eval that have ended
  skipped,     \* the instruction before was a call that was skipped
  full, pruned \* what memory holds without and with pruning, by initial memory

analysis == <<asserts, nodes, marked, targets, todo, queue, tracked, remainInstr, remainFunc>>
execution == <<evals, skipped, full, pruned>>
vars == <<design, phase, pc, analysis, execution>>

-----------------------------------------------------------------------------
(* VarAnalysis.cpp                                                         *)

\* The registers that the walk from operand p up its operands ends at.
RECURSIVE Geps(_, _)
Geps(code, p) ==
  IF p = 0 \/ code[p].op = "alloca" THEN {}
  ELSE IF code[p].op = "gep" THEN {code[p].var}
  ELSE UNION {Geps(code, code[p].args[i]) : i \in DOMAIN code[p].args}

IsAlloca(code, p) == p # 0 /\ code[p].op = "alloca"
Stores(code) ==
  {i \in DOMAIN code : code[i].op = "store" /\ \A n \in {1, 2} : ~IsAlloca(code, code[i].args[n])}

\* runVarAnalysis, of what the dependence search uses: the registers written.
ToSetOf(code) == UNION {Geps(code, code[i].args[2]) : i \in Stores(code)}

\* isinRemainInstrSet looks an index within the function up among ids.
IsInRemain(a, i) == i - 1 \in a.instrs
AddToRemain(a, f, i) ==
  [a EXCEPT !.instrs = @ \cup {f.firstId + i - 1}, !.funcs = @ \cup {f.name}]

\* getDataDependVarsInstr: everything the operands in q are computed from.
RECURSIVE GetDataDependVarsInstr(_, _, _)
GetDataDependVarsInstr(f, q, a) ==
  IF q = <<>> THEN a
  ELSE IF Head(q) = 0 THEN GetDataDependVarsInstr(f, Tail(q), [a EXCEPT !.funcs = @ \cup {f.name}])
  ELSE IF IsInRemain(a, Head(q)) THEN GetDataDependVarsInstr(f, Tail(q), a)
  ELSE LET ins == f.code[Head(q)]
           new == IF ins.op = "gep" /\ ins.var # "Syms" THEN {ins.var} ELSE {}
           b   == [AddToRemain(a, f, Head(q)) EXCEPT !.deps = @ \cup new]
       IN GetDataDependVarsInstr(f, Tail(q) \o SelectSeq(ins.args, LAMBDA p : p # 0), b)

\* isVarsInLabel: the block that starts at n mentions one of the variables.
IsVarsInLabel(code, n, deps) ==
  \E i \in n..Len(code) :
    /\ code[i].op = "gep" /\ code[i].var \in deps
    /\ \A j \in n..(i - 1) : code[j].op \notin {"br", "jump", "ret"}

Labels(code, i) == IF code[i].op = "br" THEN {i + 1, code[i].to} ELSE {code[i].to}
Positions(f) == [i \in DOMAIN f.code |-> i]

\* Defective: the conditions of branches are not followed.
CtrlDependLabels(f, a) ==
  LET Branch(b, i) ==
        IF f.code[i].op \notin {"br", "jump"} \/ IsInRemain(b, i) THEN b
        ELSE IF \E l \in Labels(f.code, i) : IsVarsInLabel(f.code, l, b.deps)
        THEN AddToRemain(b, f, i) ELSE b
  IN FoldLeft(Branch, a, Positions(f))

\* getCtrlDependVarsInstr: the condition of every branch of the function, and
\* the branches to blocks that mention what is depended on.
GetCtrlDependVarsInstr(f, a) ==
  LET Branch(b, i) ==
        IF f.code[i].op \notin {"br", "jump"} \/ IsInRemain(b, i) THEN b
        ELSE LET c == IF f.code[i].op = "br" THEN GetDataDependVarsInstr(f, f.code[i].args, b) ELSE b
             IN IF \E l \in Labels(f.code, i) : IsVarsInLabel(f.code, l, c.deps)
                THEN AddToRemain(c, f, i) ELSE c
  IN FoldLeft(Branch, a, Positions(f))

\* runDepAnalysisInFunc: from the stores to the target, then the branches.
RunDepAnalysisInFunc(f, target, a) ==
  LET Store(b, i) ==
        IF i \notin Stores(f.code) THEN b
        ELSE LET ptr == f.code[f.code[i].args[2]]
             IN IF ptr.op # "gep" \/ ptr.var # target THEN b
                ELSE GetDataDependVarsInstr(f, <<f.code[i].args[1]>>,
                       [b EXCEPT !.instrs = @ \cup {f.firstId + i - 1}])
  IN GetCtrlDependVarsInstr(f, FoldLeft(Store, a, Positions(f)))

-----------------------------------------------------------------------------
(* ExecutorCoI.cpp and DependencyGraph.cpp                                 *)

Start(d) ==
  /\ design = d /\ phase = "asserts" /\ pc = 1
  /\ asserts = <<>> /\ nodes = <<>> /\ marked = 0 /\ targets = <<>> /\ todo = <<>> /\ queue = <<>>
  /\ tracked = {} /\ remainInstr = {} /\ remainFunc = {}

\* getKleeAssertVars, getBrCondVars: the registers in the conditions of the
\* branches of __user_main that follow the EvalCalls-th call of eval.
GetKleeAssertVars ==
  LET main == design.main
      Evals(i) == Cardinality({j \in 1..i : main[j].op = "eval"})
      Collect(vs, i) ==
        IF Evals(i) = EvalCalls /\ main[i].op = "br"
        THEN vs \o SetToSeq(UNION {Geps(main, main[i].args[n]) : n \in DOMAIN main[i].args})
        ELSE vs
  IN /\ phase = "asserts"
     /\ phase' = "graph"
     /\ asserts' = FoldLeft(Collect, <<>>, [i \in DOMAIN main |-> i])
     /\ UNCHANGED <<design, pc, nodes, marked, targets, todo, queue, tracked, remainInstr, remainFunc, execution>>

\* locateFunc: the module's first function if there is none of that name.
LocateFunc(name) ==
  IF name \in Names(design)
  THEN design.funcs[CHOOSE n \in DOMAIN design.funcs : design.funcs[n].name = name]
  ELSE design.funcs[1]

\* One instruction of _eval in coiAnalysis: a node for a call.
DgAddNode ==
  LET callee == design.eval[pc]
      last   == pc = Len(design.eval)
  IN /\ phase = "graph"
     /\ phase' = IF last THEN "mark" ELSE phase
     /\ pc' = IF last THEN 1 ELSE pc + 1
     /\ nodes' = IF callee = Other THEN nodes
                 ELSE Append(nodes, [name |-> callee, to |-> ToSetOf(LocateFunc(callee).code)])
     /\ UNCHANGED <<design, asserts, marked, targets, todo, queue, tracked, remainInstr, remainFunc, execution>>

Enter(ts, name) == IF name \in ToSet(ts) THEN ts ELSE Append(ts, name)

\* locateTargetVar, and markInstr's turn to the next asserted variable.
LocateTargetVar ==
  LET v == asserts[marked + 1]
      writers == SelectSeq(nodes, LAMBDA node : v \in node.to)
      found == FoldLeft(LAMBDA ts, node : Enter(ts, node.name), targets, writers)
  IN /\ phase = "mark" /\ todo = <<>> /\ queue = <<>> /\ marked < Len(asserts)
     /\ marked' = marked + 1
     /\ targets' = IF found = <<>> THEN <<NotFound>> ELSE found
     /\ todo' = IF targets' = <<NotFound>> THEN <<>> ELSE targets'
     /\ UNCHANGED <<design, phase, pc, asserts, nodes, queue, tracked, remainInstr, remainFunc, execution>>

Remaining == [deps |-> {}, instrs |-> remainInstr, funcs |-> remainFunc]

\* dgBackwardTrackingVars up to its loop: the target in one of its writers.
TrackTarget ==
  LET v == asserts[marked]
      a == RunDepAnalysisInFunc(LocateFunc(Head(todo)), v, Remaining)
  IN /\ phase = "mark" /\ queue = <<>> /\ todo # <<>>
     /\ todo' = Tail(todo)
     /\ queue' = <<a.deps>>
     /\ tracked' = tracked \cup {v}
     /\ remainInstr' = a.instrs /\ remainFunc' = a.funcs
     /\ UNCHANGED <<design, phase, pc, asserts, nodes, marked, targets, execution>>

\* One turn of its loop: each variable of the set in the first node that writes
\* it, if it has not been tracked.
TrackDependences ==
  LET Node(v, t, node) ==
        IF v \notin node.to \/ v \in t.tracked THEN t
        ELSE LET a == RunDepAnalysisInFunc(LocateFunc(node.name), v,
                        [deps |-> {}, instrs |-> t.instrs, funcs |-> t.funcs])
             IN [queue |-> Append(t.queue, a.deps), tracked |-> t.tracked \cup {v},
                 instrs |-> a.instrs, funcs |-> a.funcs]
      Each(t, v) == FoldLeft(LAMBDA u, node : Node(v, u, node), t, nodes)
      start == [queue |-> Tail(queue), tracked |-> tracked, instrs |-> remainInstr, funcs |-> remainFunc]
      end   == FoldLeft(Each, start, SetToSeq(Head(queue)))
  IN /\ phase = "mark" /\ queue # <<>>
     /\ queue' = end.queue /\ tracked' = end.tracked
     /\ remainInstr' = end.instrs /\ remainFunc' = end.funcs
     /\ UNCHANGED <<design, phase, pc, asserts, nodes, marked, targets, todo, execution>>

EndAnalysis ==
  /\ phase = "mark" /\ todo = <<>> /\ queue = <<>> /\ marked = Len(asserts)
  /\ phase' = "run"
  /\ UNCHANGED <<design, pc, analysis, execution>>

-----------------------------------------------------------------------------
(* The run.  Memory holds a bit in every register; "Syms" and "local" are  *)
(* the pointers a function finds its registers by.                         *)

Memory == {m \in [Vars \cup {"Syms", "local"} -> {0, 1}] : m["Syms"] = 1 /\ m["local"] = 1}

\* executeInstruction, from instruction i of a function to its return.
RECURSIVE RunFrom(_, _, _, _)
RunFrom(code, i, regs, mem) ==
  LET ins  == code[i]
      V(n) == IF ins.args[n] = 0 THEN 1 ELSE regs[ins.args[n]]
      Set(v) == RunFrom(code, i + 1, [regs EXCEPT ![i] = v], mem)
  IN CASE ins.op = "ret"    -> mem
       [] ins.op = "alloca" -> Set("local")
       [] ins.op = "gep"    -> Set(ins.var)
       [] ins.op = "load"   -> Set(mem[V(1)])
       [] ins.op = "not"    -> Set(1 - V(1))
       [] ins.op = "store"  -> RunFrom(code, i + 1, regs, [mem EXCEPT ![V(2)] = V(1)])
       [] ins.op = "br"     -> RunFrom(code, IF V(1) = 1 THEN i + 1 ELSE ins.to, regs, mem)
       [] ins.op = "jump"   -> RunFrom(code, ins.to, regs, mem)

Call(name, mems) ==
  LET code == LocateFunc(name).code
  IN [m \in Memory |-> RunFrom(code, 1, [i \in DOMAIN code |-> 0], mems[m])]

\* getCalledFuncName
FuncNameSet == ToSet(design.eval) \ {Other}
IsOutOfCoI(name) == name \notin remainFunc /\ name \in FuncNameSet

Advance ==
  LET last == pc = Len(design.eval)
  IN /\ phase = "run" /\ evals < EvalCalls
     /\ pc' = IF last THEN 1 ELSE pc + 1
     /\ evals' = IF last THEN evals + 1 ELSE evals
     /\ full' = IF design.eval[pc] = Other THEN full ELSE Call(design.eval[pc], full)
     /\ UNCHANGED <<design, phase, analysis>>

\* The call is stepped over, and the instruction that follows it is executed
\* without being looked at.
SkipCall ==
  /\ ~skipped /\ IsOutOfCoI(design.eval[pc])
  /\ Advance
  /\ skipped' = (pc # Len(design.eval))
  /\ UNCHANGED pruned

Execute ==
  /\ skipped \/ ~IsOutOfCoI(design.eval[pc])
  /\ Advance
  /\ skipped' = FALSE
  /\ pruned' = IF design.eval[pc] = Other THEN pruned ELSE Call(design.eval[pc], pruned)

Init ==
  /\ \E d \in Designs : Start(d)
  /\ evals = 0 /\ skipped = FALSE
  /\ full = [m \in Memory |-> m] /\ pruned = full

Next ==
  \/ GetKleeAssertVars \/ DgAddNode \/ LocateTargetVar \/ TrackTarget \/ TrackDependences
  \/ EndAnalysis \/ SkipCall \/ Execute

Spec == Init /\ [][Next]_vars

-----------------------------------------------------------------------------

\* Variables that are depended on are looked for in the first function that
\* writes them only.
OneWriter ==
  \A v \in Vars \ ToSet(asserts) :
    \A n, k \in DOMAIN nodes : v \in nodes[n].to \cap nodes[k].to => nodes[n].name = nodes[k].name

\* An id of the set that is the index of another instruction hides it.
IdsAreNoIndices ==
  \A n, k \in DOMAIN design.funcs : design.funcs[n].firstId >= Len(design.funcs[k].code)

\* Skipping what is out of the cone keeps the assertions' verdicts: as long as
\* no two functions write a variable and no id is an index, the registers the
\* assertions look at hold what they would hold if every call were executed,
\* through all the calls of eval and from every initial memory.
ConeKeepsTheAssertion ==
  phase = "run" /\ OneWriter /\ IdsAreNoIndices =>
    \A m \in Memory, v \in ToSet(asserts) : pruned[m][v] = full[m][v]

=============================================================================
