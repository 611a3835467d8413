\* A refund, two confirmations and a cancellation of it, with failures.
CONSTANTS
  Asker = ask
  Confirmers = {con1, con2}
  Cancellers = {can}
  NIL = NIL
  Outcomes = {"ok", "err", "lost"}
  MaxCrashes = 1

SPECIFICATION Spec

INVARIANTS
  SuccessIsConfirmed
  ConfirmedIsSent
  RecordsAgree
