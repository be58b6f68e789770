SPECIFICATION AllFairSpec
CONSTANTS
  u1 = u1
  u2 = u2
  u3 = u3
  b1 = b1
  m1 = m1
  n1 = n1
  n2 = n2
  w1 = w1
  p1 = p1
  a1 = a1
  Uploads = {u1, u2, u3}
  Blobs = {b1}
  BlobOf <- OneBlob
  Size = 2
  Quota = 2
  Letters = {m1}
  NoLetter = NoLetter
  MaxFileFaults = 1
  MaxCrashes = 2
  TeamNames = {n1, n2}
  MaxAsks = 2
  MaxFaults = 1
  MaxDeaths = 2
  Web = {w1}
  Peers = {p1}
  Agents = {a1}
  Kinds = {"update", "restart", "shutdown", "demote"}
  MaxTasks = 2
  MaxMoves = 2
CHECK_DEADLOCK FALSE
INVARIANTS HostSound NeverStuck
PROPERTIES BlobsSound OneGeneration RestoreDecided
