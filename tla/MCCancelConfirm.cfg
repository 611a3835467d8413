\* OrderCancel and ConfirmOrder, one after the other.
CONSTANTS
  r1 = r1
  r2 = r2
  r3 = r3
  Requests = {r1, r2, r3}
  Flows <- MCCancelConfirm
  NIL = NIL
  StepOutcomes = {"ok"}
  RepairOutcomes = {"ok"}
  Expiring = {}
  MaxCrashes = 0

SPECIFICATION OneByOne

PROPERTIES
  CancelIsFinal
