SPECIFICATION AllSpec
CONSTANTS
  p1 = p1
  p2 = p2
  People = {p1, p2}
  Host = Host
  Servers = {srv}
  MaxBoots = 2
  MaxSessions = 3
  MaxGen = 1
  MaxInvites = 1
  MaxClaims = 2
  MaxGrants = 2
  MaxMishaps = 1
  MaxRequests = 4
  MaxVersion = 2
  HubNode = 2
  Peers = {1}
  Beating = {1}
  Lease = 4
  WriteEvery = 2
  MaxBinds = 2
  MaxLetters = 1
  PerPage = 2
  o = o
  m = m
  a = a
  MaxMsgs = 3
  Limit = 1
  Window = 2
  PageSize = 1
SYMMETRY Symmetry
CHECK_DEADLOCK FALSE
INVARIANTS MailExact BoardWhole CacheSound
PROPERTIES AccessSound MarksForward DirectoryTrue
