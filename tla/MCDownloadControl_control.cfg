\* Two packages of two buffers; three URLs written, two suspensions or breaks, one power loss.
SPECIFICATION FairSpec
CONSTANTS
  Urls = {a, b}
  NoUrl = NoUrl
  Chunks = 2
  Overlaps = {}
  MaxRequests = 3
  MaxStops = 2
  MaxCrashes = 1
INVARIANTS
  OnlyWantedIsStored
  DownloadedIsWhole
PROPERTIES
  ResumesItsPackage
  NotStuck
CHECK_DEADLOCK FALSE
