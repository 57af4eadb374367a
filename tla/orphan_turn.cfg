SPECIFICATION Spec
CONSTANTS
  q1 = q1
  q2 = q2
  q3 = q3
  w1 = w1
  k1 = k1
  k2 = k2
  NumSteps = 1
  Requests <- OneRequest
  Workspaces <- OneWorkspace
  WorkspaceOf <- AllInW1
  Keys = {k1, k2}
  KeyOf <- Retried
  Unattended <- OneRequest
  Cancelable <- NoneOf
  Archivable <- NoneOf
  WithShutdown = FALSE
  MaxRestarts = 0
INVARIANTS NoOrphanTurn
CHECK_DEADLOCK FALSE
