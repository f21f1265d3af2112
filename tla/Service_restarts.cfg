SPECIFICATION FairServiceSpec
CONSTANTS
  MaxSegments = 3
  MaxSegNo = 4
  MaxOthers = 1
  MaxMisreads = 1
  InitSegNos = {0, 2, 3}
  MaxInterfaces = 2
INVARIANT TypeOK
INVARIANT ServiceTypeOK
INVARIANT BudgetHolds
INVARIANT NewestOnDisk
INVARIANT LedgerCurrent
INVARIANT FailedStartsCostOneEach
PROPERTY ImplementsStore
PROPERTY RotationCompletes
PROPERTY AttachesInTheEnd
