\* Two reloads at a time: the length of the log is compared across a swap.
CONSTANTS
  Actor = {1, 2}
  Me = 1
  Ts = {1, 2, 3}
  None = None
  Torn = Torn
  Reloader = {r1, r2}
  Gaps = FALSE
  MaxJobs = 1
SPECIFICATION Spec
INVARIANT LocalOpsShown
