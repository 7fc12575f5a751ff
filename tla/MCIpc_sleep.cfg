\* The race msg_receive documents.
CONSTANTS
  Clients = {c1}
  FS = fs
  Driver = drv
  Idle = idle
  Msgs = {m1, m2}
  Requests = {"SYS_READ"}
  MaxIrqs = 0
  HARDWARE = hw
  ANYONE = any
  NULL = null
SPECIFICATION Spec
INVARIANT NoSleepOnMail
SYMMETRY Symm
CHECK_DEADLOCK FALSE
