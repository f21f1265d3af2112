SPECIFICATION Spec
CONSTANTS
  Keep = 1
  Matching = {1, 3}
  MaxSegNo = 2
  MaxRecords = 3
INVARIANT TypeOK
INVARIANT OutputsArePrefixes
INVARIANT FinishedOutputsSurvive
INVARIANT OkMeansAllConverted
