SPECIFICATION Spec
CONSTANTS
  m1 = m1
  m2 = m2
  t1 = t1
  t2 = t2
  NoOne = NoOne
  NoOp = NoOp
  Absent = Absent
  Nobody = Nobody
  None = None
  Members = {m1, m2}
  MaxRemovals = 2
  MaxRetries = 2
  MaxPasses = 2
  MaxTimeouts = 1
  MaxLostOpks = 1
  MaxRefreshes = 1
  MaxReloads = 1
  MaxEvents = 3
  MaxEdits = 1
  MaxReactions = 1
  MaxSessions = 1
  MaxSetbacks = 1
  Builds = {{}, {"edit", "react", "del"}}
  Transfers = {t1, t2}
  PeerOf <- MCPeerOf
  Chunks = 3
  Window = 2
  MaxPerPeer = 1
  MaxTotal = 1
  Acking = {t1}
  Blocked = {t2}
  Records = 3
  Identity = 2
  AckWindow = 2
  MaxCalls = 2
  MaxChanges = 2
  MaxDeviceReloads = 1
  Devices = {"a", "b"}
  Ephemerals = 2
  Skew = 1
  NonceTtl = 2
  RegistryTtl = 2
  MaxKeys = 2
  MaxEntries = 3
  MaxMinutes = 3
  MaxRequests = 2
  Relays = {"r1", "r2"}
  Reporting = {"r2"}
  Heartbeat = 2
  Fresh = 3
  Ttl = 5
  MaxMoves = 2
  MaxLookups = 2
  Tokens = {"k1", "k2", "k3"}
  ClientOf <- MCClientOf
  MaxTunnels = 2
  MaxTunnelsPerClient = 1
SYMMETRY MCSymmetry
CONSTRAINT ConvBound
INVARIANTS
  TypeOK
  RemovedLearnsNoNewKey CountedKeysWereStored OneEnvelopePerGeneration
  SettledCopiesAgree ConfirmedDeletionHolds
  DeliveredFileStored SlotsMatchTransfers WindowKeepsMoving
  AccountSurvives NoHalfAccount
  AcceptedOnce IdentityListed RegistryBounded
  MovedDeviceFound
  TunnelsCounted
CHECK_DEADLOCK FALSE
