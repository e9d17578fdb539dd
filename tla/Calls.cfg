SPECIFICATION Spec
CONSTANTS
  Functions <- MCFunctions
  Main = "main"
  Vars <- MCVars
  Values <- MCValues
  Exprs <- MCExprs
  Eval <- MCEval
  Answer <- MCAnswer
  Sites <- MCSites
  NoVar = 0
  NoSite = NoSite
  MaxDepth = 4
  ModuleOf <- MCModuleOf
  Traitors <- MCTraitors
  Letters <- MCLetters
INVARIANTS TypeOK FramesApart ReturnsToCaller
PROPERTY Implements
CHECK_DEADLOCK FALSE
