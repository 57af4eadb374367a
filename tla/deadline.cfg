SPECIFICATION FairSpec
CONSTANTS
  q1 = q1
  q2 = q2
  q3 = q3
  w1 = w1
  k1 = k1
  k2 = k2
  NumSteps = 2
  Requests <- OneRequest
  Workspaces <- OneWorkspace
  WorkspaceOf <- AllInW1
  Keys = {k1, k2}
  KeyOf <- Retried
  Unattended <- OneRequest
  Cancelable <- OneRequest
  Archivable <- NoneOf
  WithShutdown = FALSE
  MaxRestarts = 1
INVARIANTS OutcomeMatchesTermination  RecordsValid
PROPERTIES PromptAdmittedSafely TerminalRecordFrozen 
CHECK_DEADLOCK FALSE
