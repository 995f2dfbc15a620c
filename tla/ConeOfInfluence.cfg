CONSTANTS
  Vars = {"p", "q", "r"}
  Designs <- MCDesigns
  EvalCalls = 4
SPECIFICATION Spec
INVARIANT ConeKeepsTheAssertion
CHECK_DEADLOCK FALSE
