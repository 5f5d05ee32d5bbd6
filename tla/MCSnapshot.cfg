\* One reload at a time, peer logs arriving in order: appends may fail,
\* peer bodies may be early, files may be damaged, the process may die.
CONSTANTS
  Actor = {1, 2}
  Me = 1
  Ts = {1, 2, 3}
  None = None
  Torn = Torn
  Reloader = {r1}
  Gaps = FALSE
  MaxJobs = 1
SPECIFICATION Spec
INVARIANTS TypeOK NothingHidden ViewIsReplay LocalOpsShown
