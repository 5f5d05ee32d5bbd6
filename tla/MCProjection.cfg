\* One page, a client alone and beside a daemon.
SPECIFICATION Spec
CONSTANTS
  None = None
  client = client
  serve = serve
  Process = {client, serve}
  Client = {client}
  Unplaced = {3}
  MaxOrphans = 1
  MaxText = 4
  MaxAppends <- Appends
  FirstText <- First
  Scenes <- Happens
CHECK_DEADLOCK FALSE
INVARIANTS
  TypeOK
  HashIsEarned
PROPERTIES
  GatesKeepLines
  Settles
