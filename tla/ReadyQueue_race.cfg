\* The code as it is: interrupts are enabled inside proc_sched.
CONSTANTS
  NumProcs = 4
  Preemptible = TRUE
  NULL = null
SPECIFICATION Spec
INVARIANT PicksReady
CHECK_DEADLOCK FALSE
