\* NAPAS, credit card and international payments, two answers each.
CONSTANTS
  r1 = r1
  r2 = r2
  r3 = r3
  Requests = {r1, r2, r3}
  Flows <- MCSettled
  Expiring <- MCSettledLate
  NIL = NIL
  StepOutcomes = {"ok", "err", "lost"}
  RepairOutcomes = {"ok"}
  MaxCrashes = 1
  Serial <- MCSerial
  NapasCoded <- MCNapasCoded

SYMMETRY MCSymmetry

SPECIFICATION SettleSpec

INVARIANTS
  ChargedIsBankPaid
  ReleasedForAReason
  GoodsTwiceNeedsPanic

PROPERTIES
  UnpaidForAReason
