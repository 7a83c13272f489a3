CONSTANTS
  Start <- SmallStart
  TmpMax = 3
  DWL_RETRIES = 2
  Chunks = {1, 3, 6}
  LastErrors <- RealErrors
  HttpErrors <- NoResponse
  Faults = {}
  MaxSessions = 1
SPECIFICATION Spec
INVARIANT DownloadedMeansStored
CHECK_DEADLOCK FALSE
