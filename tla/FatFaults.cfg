SPECIFICATION FairSpec
CONSTANTS
  n1 = n1
  n2 = n2
  Names <- MCNames
  None = None
  Fds <- MCOneFd
  BlockSize = 2
  BlocksPerCluster = 1
  Entries = 3
  Sectors = 2
  NFats = 2
  Lens <- MCLens
  MaxSize = 3
  MaxFaults = 1
  ReuseTruncated = FALSE
INVARIANTS FilesWhole CacheFresh ChainsApart
PROPERTIES TransferInPlace CallReturns
CHECK_DEADLOCK FALSE
