\* The wallet flows alone, OTPs and tokens, and pairs on a placed order.
CONSTANTS
  r1 = r1
  r2 = r2
  r3 = r3
  Requests = {r1, r2, r3}
  Flows <- MCRequests
  NIL = NIL
  StepOutcomes = {"ok", "err", "lost"}
  RepairOutcomes = {"ok"}
  Expiring <- MCPlaced
  MaxCrashes = 0

SPECIFICATION Spec

INVARIANTS
  TypeOK
  ChargedNeverFailed
  UnknownKeepsHold
  UnknownIsParked
  HoldReleased
  RollbackClosesOrder
  VoucherFollowsOrder
  LixiErrorIsUnpaid
  WrongOtpKeepsHold
  ChargeAfterDelivery
  GoodsAfterBankPaid
  SuccessIsPaid

PROPERTIES
  RefinesCoordinator
