CONSTANTS
  a = a
  b = b
  c = c
  Device = {a, b, c}
  Paired <- Couple
  Meets <- Visits
  Console = {c}
  MaxIds = 3
  Budget <- Few
  MaxActs = 3
  None = None

SPECIFICATION Spec
\* A device that lists nobody waits for its user.
CHECK_DEADLOCK FALSE

INVARIANTS
  TypeOK
  RemovalHolds
  PairingKept
  LockedOut
  ShutOut

PROPERTIES
  Discovery
  AddressHeals
