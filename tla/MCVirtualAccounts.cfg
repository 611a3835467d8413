\* Two requests on an account, new or old, one after the other, and payments into it,
\* three events in all.
CONSTANTS
  Messages = {m1, m2}
  Consumers = {main, q1, q2}
  Requests = {q1, q2}
  Main = main
  NIL = NIL
  MaxFaults = 1
  Accounts <- MCAccounts
  Kinds = {"create", "update", "close", "reopen"}
  Outcomes = {"ok", "err", "lost"}
  AtOnce = 1
  MaxEvents = 3

SYMMETRY MCSymmetry

SPECIFICATION Spec

INVARIANTS
  BalanceIsCredits
  CreditedPerDelivery
  NoOrphanRow
  LatestWins
  OverlapNeedsCut

CHECK_DEADLOCK FALSE
