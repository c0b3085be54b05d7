SPECIFICATION Spec

CONSTANTS
  X = X
  Y = Y
  None = None
  Main = main
  Tasks = {main, worker}
  Calls <- MCCalls
  Callers <- MCCallers
  NodeKinds = {"tool", "call"}
  MaxSpans = 3
  MaxBlocks = 3
  MaxSignals = 1

INVARIANTS
  ContextsAgree
  ChildrenStay
  MarksReachRoot

CHECK_DEADLOCK FALSE
