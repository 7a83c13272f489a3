CONSTANTS
  Start <- SmallStart
  TmpMax = 3
  DWL_RETRIES = 2
  Chunks = {1, 3, 6}
  LastErrors <- DownloaderResults
  HttpErrors <- HttpFailures
  Faults = {}
  MaxSessions = 3
SPECIFICATION Spec
INVARIANTS
  PositionMatchesRemaining
  DownloadedMeansStored
  ResumeIsAccepted
  DownloadingIsVisible
  DownloadingMeansOnGoing
CHECK_DEADLOCK FALSE
