\* Three calls, two signals and four faults.
SPECIFICATION NtpSpec

CONSTANTS
  MaxCalls = 3
  MaxSignals = 2
  MaxFaults = 4

INVARIANTS
  SyncedUnlessHindered

PROPERTIES
  SetByOwnAnswer
  CallReturns

\* After the last call nothing is left to do.
CHECK_DEADLOCK FALSE
