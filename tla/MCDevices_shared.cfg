CONSTANTS
  FDC = "fdc"
  TTY = "tty"
  TRIES = 2
  fdc_ticks <- MCTicks
  beep_ticks = 1
  MaxQueued = 0
  MaxKeys = 1
  SHARED_MSG = TRUE
SPECIFICATION DevicesSpec
INVARIANT OwnMessage
CHECK_DEADLOCK FALSE
