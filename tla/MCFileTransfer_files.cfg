\* Two URLs, room for two files of three; three commands, two faults.  The power may be lost
\* between any two writes of a handler.
SPECIFICATION FairSpec
CONSTANTS
  Urls = {a, b}
  NoUrl = NoUrl
  FileIds = {1, 2, 3}
  MaxFiles = 2
  Deviations = {"torn"}
  MaxRequests = 3
  MaxFaults = 2
INVARIANTS
  ServerSeesList
PROPERTIES
  EndsWithResult
  HandlersAgree
  CommandRepairs
  UrlIsDealtWith
CHECK_DEADLOCK FALSE
