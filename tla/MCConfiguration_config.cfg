\* Two servers, two instances of object 2, one power loss.
SPECIFICATION FairSpec
CONSTANTS
  DmServers = {1, 2}
  Lifetimes = {2}
  Bootstrapped = {1}
  AclIds = {0, 1}
  Deviations <- Usual
  MaxCrashes = 1
INVARIANTS
  StoredAgrees
  AclStoredAgrees
  ListedIsConfigured
  LifetimeIsStored
PROPERTIES
  NewServersHaveKeys
  StartsWhole
  BootstrapServerReturns
CHECK_DEADLOCK FALSE
