SPECIFICATION Spec
CONSTANTS
  Functions <- MCFunctions
  Main = "main"
  Vars <- MCVars
  Values <- MCValues
  Exprs <- MCExprs
  Eval <- MCEval
  Answer <- MCAnswer
  Sites <- MCSites
  NoVar = 0
  NoSite = NoSite
  MaxDepth = 3
  Arity <- MCArity
  Pages = 6
INVARIANT StackGrowsUpwards
CHECK_DEADLOCK FALSE
