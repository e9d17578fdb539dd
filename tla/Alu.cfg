SPECIFICATION Spec
CONSTANT W = 4
INVARIANTS TypeOK AgreesWithEmulator ComparesWide
