\* Three users, budgets of up to three; passes are cut off twice, a read fails once.
CONSTANTS
  Users = 3
  MaxAmount = 3
  MaxActivations = 1
  MaxForgets = 2
  MaxBlind = 1

SPECIFICATION Spec

INVARIANTS
  PaidOncePerUser
  BudgetKept

CHECK_DEADLOCK FALSE
