SPECIFICATION FairSpec
CONSTANTS
  Cells <- MCCells
  Images <- MCImages
  OpenBus = 255
  AluOut <- MCAluOut
  Slow <- MCSlow
  Noise <- MCNoise
  PointerWaits = FALSE
  Code <- MCCode
INVARIANTS TypeOK StrobeInPhase PipelineInv
PROPERTIES ImplementsIsa StrobeHoldsBus InstructionEnds
CHECK_DEADLOCK FALSE
