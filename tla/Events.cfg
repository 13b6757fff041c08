\* Three registrations of three pairs, calls at any moment.
SPECIFICATION Spec

CONSTANTS
  Pairs <- MCPairs
  MaxEntries = 3
  FD_SETSIZE = 3

INVARIANTS
  SetsMatchList
  OwnDeletionIsSafe

PROPERTIES
  LoopProgresses
