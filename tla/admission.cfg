SPECIFICATION FairSpec
CONSTANTS
  q1 = q1
  q2 = q2
  q3 = q3
  w1 = w1
  k1 = k1
  k2 = k2
  NumSteps = 1
  Requests <- ThreeRequests
  Workspaces <- OneWorkspace
  WorkspaceOf <- AllInW1
  Keys = {k1, k2}
  KeyOf <- Retried
  Unattended <- NoneOf
  Cancelable <- NoneOf
  Archivable <- NoneOf
  WithShutdown = FALSE
  MaxRestarts = 0
INVARIANTS OneActiveRunPerWorkspace IndInv IdempotentAdmission
 
CHECK_DEADLOCK FALSE
