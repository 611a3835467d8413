\* A request or a token payment alone against the expiry job and a crash.
CONSTANTS
  r1 = r1
  r2 = r2
  r3 = r3
  Requests = {r1, r2}
  Flows <- MCExpiring
  Expiring <- MCExpiring
  NIL = NIL
  StepOutcomes = {"ok", "err", "lost"}
  RepairOutcomes = {"ok", "err", "lost"}
  MaxCrashes = 1

SPECIFICATION FairSpec

INVARIANTS
  SuccessIsPaid

PROPERTIES
  StaysClosed
  EventuallyClosed
  EventuallyEnds
