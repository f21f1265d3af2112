SPECIFICATION Spec
CONSTANTS
  TcpFlags = {0, 2}
  Bodies = {5}
  Payloads <- MCPayloads
  MaxOrig = 2
  MaxRecords = 2
INVARIANT NoSilentBadRecord
INVARIANT Resumable
CHECK_DEADLOCK FALSE
