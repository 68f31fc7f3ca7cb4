CONSTANTS
  Sockets = {s1, s2}
  s1 = s1
  s2 = s2
  Setups <- SomeSetups
  RECV = 4
  INBUF = 8
  SNDBUF = 3
SPECIFICATION Spec
PROPERTY GuardSeesStatus
