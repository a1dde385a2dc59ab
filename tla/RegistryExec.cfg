SPECIFICATION Spec
CONSTANTS
  Ips = {i1, i2}
  Pids = {p1, p2}
  NoIp = NoIp
  NoPid = NoPid
PROPERTIES
  CheckedChildRunsShell
