\* Three clients with answered calls: the file system's free of its driver's
\* answer cuts a request out of its mailbox.
CONSTANTS
  Clients = {c1, c2, c3}
  FS = fs
  Driver = drv
  Idle = idle
  Msgs = {m1, m2, m3, m4}
  Requests = {"SYS_READ"}
  MaxIrqs = 0
  HARDWARE = hw
  ANYONE = any
  NULL = null
SPECIFICATION Spec
INVARIANT NothingLost
SYMMETRY Symm
CHECK_DEADLOCK FALSE
