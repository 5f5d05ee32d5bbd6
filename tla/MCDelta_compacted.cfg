\* Two devices and no other fault: one compacts its own log after an exchange.
CONSTANTS
  a = a  b = b  c = c
  Device = {a, b}
  Dials <- Pair
  Quota <- PairQuota
  FastOps = {}
  Fragile = {}
  Inert <- Dropped
  MaxFaults = 1
  None = None
SPECIFICATION Spec
PROPERTY QuietAfterCompaction
