\* Wakeups under fair scheduling.
CONSTANTS
  Clients = {c1}
  FS = fs
  Driver = drv
  Idle = idle
  Msgs = {m1, m2}
  Requests = {"SYS_READ", "SYS_SYNC"}
  MaxIrqs = 0
  HARDWARE = hw
  ANYONE = any
  NULL = null
SPECIFICATION FairSpec
PROPERTY PendingWake
CHECK_DEADLOCK FALSE
