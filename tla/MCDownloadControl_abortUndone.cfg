\* The server aborts, or the package is complete.
SPECIFICATION Spec
CONSTANTS
  Urls = {a, b}
  NoUrl = NoUrl
  Chunks = 2
  Overlaps = {}
  MaxRequests = 2
  MaxStops = 0
  MaxCrashes = 0
INVARIANTS
  AbortedIsIdle
CHECK_DEADLOCK FALSE
