\* A client repeats ConfirmOrder.
CONSTANTS
  r1 = r1
  r2 = r2
  r3 = r3
  Requests = {r1, r2, r3}
  Flows <- MCConfirmTwice
  NIL = NIL
  StepOutcomes = {"ok"}
  RepairOutcomes = {"ok"}
  Expiring = {}
  MaxCrashes = 0

SPECIFICATION Spec

INVARIANTS
  PaidAtMostOnce
