\* Interrupts under fair scheduling.
CONSTANTS
  Clients = {}
  FS = fs
  Driver = drv
  Idle = idle
  Msgs = {m1, m2}
  Requests = {"SYS_READ"}
  MaxIrqs = 1
  HARDWARE = hw
  ANYONE = any
  NULL = null
SPECIFICATION FairSpec
PROPERTY IrqReported
CHECK_DEADLOCK FALSE
