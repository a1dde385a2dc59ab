SPECIFICATION FairSpec
CONSTANTS
  c1 = c1
  c2 = c2
  c3 = c3
  Clients = {c1, c2, c3}
  Ip <- MCIp
  Fds = {1, 2}
  Backlog = 1
  NoFile = NoFile
  AcceptsInWindow = TRUE
PROPERTIES
  ConnectionsAreAccepted
