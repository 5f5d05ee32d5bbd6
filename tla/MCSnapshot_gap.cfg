\* Peer operations may arrive with a gap that is filled later.
CONSTANTS
  Actor = {1, 2}
  Me = 1
  Ts = {1, 2, 3}
  None = None
  Torn = Torn
  Reloader = {r1}
  Gaps = TRUE
  MaxJobs = 1
SPECIFICATION Spec
INVARIANT NothingHidden
