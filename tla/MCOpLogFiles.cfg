CONSTANTS
  block = block  page = page  me = me  peer = peer
  Node = {block, page}  Root = root  Trash = trash  None = none
  Pos = {p}  Key = {}  Val = {}
  Ts = {1, 2, 3, 4}  Author <- Authors  Me = me
  LocalOps <- Ops  Storage = {w, r}  Owner <- OneProcess  MaxFaults = 2
SPECIFICATION Spec
INVARIANTS TypeOK NothingDurableLost IndexIsWhole OffsetsTrue DiskReplaysHistory
SYMMETRY Alike
CHECK_DEADLOCK FALSE
