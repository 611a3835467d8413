\* Every saga of up to five steps.
CONSTANTS
  MaxSteps = 5

SPECIFICATION Spec

INVARIANTS
  CompensationMirrorsExecution
  AbortCompensatesAll

PROPERTIES
  NoStepAfterAbort
  PromiseKept
