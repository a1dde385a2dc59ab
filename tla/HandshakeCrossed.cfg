SPECIFICATION Spec
CONSTANTS
  c1 = c1
  c2 = c2
  c3 = c3
  Clients = {c1, c2, c3}
  Ip <- MCIp
  Fds = {1, 2, 3, 4, 5}
  Backlog = 1
  NoFile = NoFile
  AcceptsInWindow = TRUE
INVARIANTS
  RefusedOnlyIfDenied
