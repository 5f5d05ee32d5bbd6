\* Three blocks, from an empty tree and from a loaded one, and three operations
\* by replicas with seeded clocks: cycles of length two and three, the trash,
\* repeated Creates, parents that arrive late, registers, every order of
\* delivery.
CONSTANTS
  a = a  b = b  c = c
  Node = {a, b, c}  Root = root  Trash = trash  None = none
  Pos = {p}  Key = {k}  Val = {v}
  Replica = {r1, r2}  Ts = {1, 2, 3}
  LocalOps <- Chosen  Base <- BaseShapes  Seeded = TRUE
SPECIFICATION Spec
SYMMETRY Symmetry
INVARIANTS TypeOK LogSorted TreeValid Convergence RootedOnceDelivered UndoExact
PROPERTIES ImplementsConvergentTree NothingForgotten
