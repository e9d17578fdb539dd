SPECIFICATION FairSpec
CONSTANTS
  AddrSpace = 16
  Layouts <- MCLayouts
  Programs <- MCPrograms
INVARIANTS TypeOK PlacedApart HolesFree SimpleKeepsOrder SectionsInSegments RomComplete
PROPERTY LinkerEnds
CHECK_DEADLOCK FALSE
