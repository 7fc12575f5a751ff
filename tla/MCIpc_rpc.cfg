\* Two clients with calls that are answered.
CONSTANTS
  Clients = {c1, c2}
  FS = fs
  Driver = drv
  Idle = idle
  Msgs = {m1, m2, m3}
  Requests = {"SYS_READ"}
  MaxIrqs = 0
  HARDWARE = hw
  ANYONE = any
  NULL = null
SPECIFICATION Spec
INVARIANT NothingLost
PROPERTIES AnswersOwnCall ImplementsMailbox
SYMMETRY Symm
CHECK_DEADLOCK FALSE
