CONSTANTS
  Slot = {s1}
  MaxRetries = 1
  MaxAsked = 1
SPECIFICATION Spec
INVARIANTS
  TypeOK
  OfflineIsRetried
  OneSyncPerRequest
PROPERTIES
  SyncingEnds
  StatusFollowsServer
  PendingIsServed
