------------------------- MODULE MCBankSettlement -------------------------
(***************************************************************************)
(* The opening requests and the answers TLC lets meet on one order.        *)
(***************************************************************************)
EXTENDS BankSettlement, TLC

CONSTANTS r1, r2, r3

\* The flows of r1 to r3.
Settled3(opening, first, second) == (r1 :> opening) @@ (r2 :> first) @@ (r3 :> second)

MCCashIn == {Settled3("NapasInitCashIn", "CashInNAPAS", "CashInNAPAS")}

\* A link answered twice in time, or once while the order runs out.
MCLink == {Settled3("NapasInitLink", "CashInNAPAS", "CashInNAPAS")}
MCLinkLate ==
  {Settled3("NapasInitLink", "CashInNAPAS", "NoRequest"),
   Settled3("NapasInitLink", "NoRequest", "CashInNAPAS")}

\* An order of another type or bank code runs out beside an answer.
MCOtherCode ==
  {Settled3("NapasInitCashIn", "CashInNAPAS", "NoRequest"),
   Settled3("NapasInitCashIn", "NoRequest", "CashInNAPAS")}

\* A card answered twice in time, once while the order runs out, or once beside an
\* update of the order.
MCCard == {Settled3("ProcessCreditPayment", "UpdateCreditPayment", "UpdateCreditPayment")}
MCCardLate ==
  {Settled3("ProcessCreditPayment", "UpdateCreditPayment", "NoRequest"),
   Settled3("ProcessCreditPayment", "NoRequest", "UpdateCreditPayment")}
MCUpdated ==
  {Settled3("ProcessCreditPayment", "UpdateCreditPayment", "OrderUpdate"),
   Settled3("ProcessCreditPayment", "OrderUpdate", "UpdateCreditPayment")}

\* Each kind of message once: which request made the order does not matter to it.
MCBankStatus ==
  {Settled3("PayInternational", a, a) : a \in {"BankStatusCard", "BankStatusOther"}}
    \cup {Settled3("PayInternationalPlaced", a, a) : a \in {"BankStatusTopUp", "BankStatusBill"}}

MCSettledLate == MCCashIn \cup MCLinkLate \cup MCOtherCode \cup MCCardLate
MCSettled == MCSettledLate \cup MCLink \cup MCCard \cup MCUpdated \cup MCBankStatus

MCNapasCoded == MCCashIn \cup MCLink \cup MCLinkLate

\* Bank status messages wait their turn in the queue; the other answers are calls.
MCSerial == BankStatuses

\* r2 and r3 are of the same flow, or come in both orders.
MCSymmetry == Permutations({r2, r3})
=============================================================================
