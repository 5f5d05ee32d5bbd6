\* One change of another device arrives: a client and a daemon project it.
SPECIFICATION Spec
CONSTANTS
  None = None
  client = client
  serve = serve
  Process = {client, serve}
  Client = {client}
  Unplaced = {3}
  MaxOrphans = 1
  MaxText = 4
  MaxAppends <- Appends
  FirstText <- First
  Scenes <- OnePeer
CHECK_DEADLOCK FALSE
PROPERTIES
  ReconcileIsNoOp
