\* Requests and interrupts that are freed by who receives them.
CONSTANTS
  Clients = {c1}
  FS = fs
  Driver = drv
  Idle = idle
  Msgs = {m1, m2, m3}
  Requests = {"SYS_SYNC"}
  MaxIrqs = 1
  HARDWARE = hw
  ANYONE = any
  NULL = null
SPECIFICATION Spec
INVARIANTS TypeOK OneOwner RingsLinked RallyTold
SYMMETRY Symm
CHECK_DEADLOCK FALSE
