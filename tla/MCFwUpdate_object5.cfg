CONSTANTS
  FwUrls = {u1, u2}
  SwUrls = {s1}
  NoUrl = NoUrl
  DownloadErrors = {"COMMUNICATION_ERROR", "INVALID_URI"}
  Faults <- HarmlessFaults
SPECIFICATION Spec
INVARIANTS
  DownloadedIsInstallable
  DownloadingHasUrl
  StoredUrlIsWanted
PROPERTIES
  OutcomeReported
  ImplementsObject5
