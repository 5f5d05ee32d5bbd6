\* Three devices: a and c dial b, through which a's operations reach c.
CONSTANTS
  a = a  b = b  c = c
  Device = {a, b, c}
  Dials <- Row
  Quota <- RowQuota
  FastOps <- Ahead
  Fragile <- RowFragile
  Inert <- Dropped
  MaxFaults = 1
  None = None
SPECIFICATION Spec
INVARIANTS TypeOK OneLineEach NoHoles ConfirmedIsDurable FloorIsEarned
CHECK_DEADLOCK TRUE
PROPERTIES Converges FallsQuiet ImplementsLogExchange
