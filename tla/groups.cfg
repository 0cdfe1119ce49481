CONSTANTS
  Daemon = {1, 2, 3}
  Client = {1, 3}
  Active = {3}
  Home <- MCHome
  Group = {g1}
  Joined = {1}
  BufSize = 1
  MaxConf = 2
  MaxFlight = 2
  MaxRequests = 1
  ReliableData = TRUE
SPECIFICATION GroupsSpec
INVARIANTS GroupsAgree ListsConsistent ViewsAgree VirtualSynchrony
PROPERTY FatalOnlyByReliable
CHECK_DEADLOCK FALSE
