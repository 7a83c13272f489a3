CONSTANTS
  FwUrls = {u1, u2}
  SwUrls = {s1}
  NoUrl = NoUrl
  DownloadErrors = {"COMMUNICATION_ERROR", "INVALID_URI"}
  Faults <- AllFaults
SPECIFICATION FairSpec
PROPERTIES
  RequestSettles
