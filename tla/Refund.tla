------------------------------- MODULE Refund -------------------------------
(***************************************************************************)
(* One refund: the call that asks for it (InitRefundTrans), the calls that *)
(* confirm it (ConfirmRefundTrans) and cancel it (CancelRefundTrans), its  *)
(* order document, its record in the transaction service, and the bank.    *)
(*                                                                         *)
(* The calls are no sagas: each makes its remote calls one after the other *)
(* and returns at the first error, and none of them looks at the status of *)
(* the order.  The expiry job leaves refunds alone.                        *)
(*                                                                         *)
(* A remote call answers "ok", fails without effect ("err") or takes       *)
(* effect while the caller sees an error ("lost").                         *)
(***************************************************************************)
EXTENDS Integers, FiniteSets

CONSTANTS
  Asker,       \* the call of InitRefundTrans
  Confirmers,  \* the calls of ConfirmRefundTrans
  Cancellers,  \* the calls of CancelRefundTrans
  NIL,
  Outcomes,    \* how a remote call may end
  MaxCrashes   \* bound on process crashes

Calls == {Asker} \cup Confirmers \cup Cancellers

ASSUME CallsAssumption ==
  /\ Asker \notin Confirmers \cup Cancellers
  /\ Confirmers \cap Cancellers = {}
  /\ IsFiniteSet(Calls)
ASSUME RefundOutcomesAssumption == "ok" \in Outcomes /\ Outcomes \subseteq {"ok", "err", "lost"}
ASSUME CrashesAssumption == MaxCrashes \in Nat

VARIABLES
  asked,    \* who asks, whether the payment is settled, and how it is to be paid back
  way,      \* way[c]: how call c pays back, "API" (by the bank) or "INDIRECT"
  at,       \* at[c]: the remote call c makes next, or how it ended
  copy,     \* copy[c]: the order as call c holds it
  doc,      \* the order document: its status, and whether it names the refund
  refund,   \* the refund in the transaction service
  by,       \* the call that confirmed it
  sent,     \* how often the bank has sent the money
  acted,    \* the calls that asked bank or service to pay or to cancel
  mishap,   \* has a remote call not answered "ok", or has the process crashed?
  crashes

vars == <<asked, way, at, copy, doc, refund, by, sent, acted, mishap, crashes>>

Ways == {"API", "INDIRECT"}
Requests == [merchant : BOOLEAN, settled : BOOLEAN, type : Ways]
Over == {"done", "failed", "crashed"}

\* The order: its status, and whether it names the refund.
Orders == [status : {"PENDING", "PROCESSING", "SUCCESS", "FAILED"}, linked : BOOLEAN]

ASSUME NilAssumption == NIL \notin Orders

Init ==
  /\ asked \in Requests
  /\ way = [c \in Calls |-> IF c = Asker THEN asked.type ELSE NIL]
  /\ at = [c \in Calls |-> "idle"]
  /\ copy = [c \in Calls |-> NIL]
  /\ doc = NIL
  /\ refund = "NONE"
  /\ by = NIL
  /\ sent = 0
  /\ acted = {}
  /\ mishap = FALSE
  /\ crashes = 0

Goes(c, place) == at' = [at EXCEPT ![c] = place]

\* How a remote call of c ends.
Answers(c, outcome) ==
  /\ outcome \in Outcomes
  /\ mishap' = (mishap \/ outcome # "ok")

\* The service does to the refund what c asks for, if it is still undecided.
Decides(c, outcome, status) ==
  /\ IF refund = "INITIAL" THEN Answers(c, outcome) ELSE outcome = "err" /\ UNCHANGED mishap
  /\ refund' = IF outcome = "err" THEN refund ELSE status
  /\ acted' = acted \cup {c}

\* ReplaceByID; nobody looks at the answer.
Closes(c, status) ==
  \E outcome \in Outcomes :
    /\ Answers(c, outcome)
    /\ doc' = IF outcome = "err" THEN doc ELSE [copy[c] EXCEPT !.status = status]

-----------------------------------------------------------------------------
(* The calls arrive.  A refund the service has is seen by the admins.      *)

BeginAsk ==
  /\ at[Asker] = "idle"
  /\ Goes(Asker, "initOrder")
  /\ UNCHANGED <<asked, way, copy, doc, refund, by, sent, acted, mishap, crashes>>

\* GetOrderByRefundId finds the order once it names the refund.
BeginConfirm(c) ==
  /\ c \in Confirmers /\ at[c] = "idle" /\ refund # "NONE"
  /\ \E w \in Ways, outcome \in Outcomes :
       IF doc.linked /\ outcome = "ok"
       THEN /\ way' = [way EXCEPT ![c] = w]
            /\ copy' = [copy EXCEPT ![c] = doc]
            /\ Goes(c, IF w = "API" THEN "bank" ELSE "confirm")
       ELSE Goes(c, "failed") /\ UNCHANGED <<way, copy>>
  /\ UNCHANGED <<asked, doc, refund, by, sent, acted, mishap, crashes>>

BeginCancel(c) ==
  /\ c \in Cancellers /\ at[c] = "idle" /\ refund # "NONE"
  /\ Goes(c, "cancel")
  /\ UNCHANGED <<asked, way, copy, doc, refund, by, sent, acted, mishap, crashes>>

-----------------------------------------------------------------------------
(* What InitRefundTrans does before it pays.                               *)

InitOrder(c) ==
  /\ at[c] = "initOrder"
  /\ \E outcome \in Outcomes :
       /\ Answers(c, outcome)
       /\ doc' = IF outcome = "err" THEN doc ELSE [status |-> "PENDING", linked |-> FALSE]
       /\ copy' = [copy EXCEPT ![c] = IF outcome = "ok" THEN doc' ELSE NIL]
       /\ Goes(c, IF outcome = "ok" THEN "findTrans" ELSE "failed")
  /\ UNCHANGED <<asked, way, refund, by, sent, acted, crashes>>

\* A settled payment from a wallet cannot be paid back by the bank: an error.
FindTrans(c) ==
  /\ at[c] = "findTrans"
  /\ \E outcome \in Outcomes :
       /\ Answers(c, outcome)
       /\ \/ Goes(c, IF outcome = "ok" THEN "refund" ELSE "failed")
          \/ asked.settled /\ asked.type = "API" /\ Goes(c, "failed")
  /\ UNCHANGED <<asked, way, copy, doc, refund, by, sent, acted, crashes>>

RefundTransaction(c) ==
  /\ at[c] = "refund"
  /\ \E outcome \in Outcomes :
       /\ Answers(c, outcome)
       /\ refund' = IF outcome = "err" THEN refund ELSE "INITIAL"
       /\ Goes(c, IF outcome = "ok" THEN "funds" ELSE "fail")
  /\ UNCHANGED <<asked, way, copy, doc, by, sent, acted, crashes>>

\* The payment must have succeeded, and the merchant must have the money.
CheckFunds(c) ==
  /\ at[c] = "funds"
  /\ \/ Goes(c, "failed") /\ UNCHANGED <<copy, mishap>>
     \/ Goes(c, "unfunded") /\ UNCHANGED <<copy, mishap>>
     \/ /\ \E outcome \in Outcomes \ {"ok"} : Answers(c, outcome)
        /\ Goes(c, "failed")
        /\ UNCHANGED copy
     \/ /\ asked.merchant \/ asked.settled
        /\ copy' = [copy EXCEPT ![c].linked = TRUE]
        /\ Goes(c, "processing")
        /\ UNCHANGED mishap
     \/ /\ ~ asked.merchant /\ ~ asked.settled
        /\ Goes(c, IF asked.type = "API" THEN "bank" ELSE "confirm")
        /\ UNCHANGED <<copy, mishap>>
  /\ UNCHANGED <<asked, way, doc, refund, by, sent, acted, crashes>>

\* What a merchant asks for may be paid at once; the rest waits for an admin.
ProcessingOrder(c) ==
  /\ at[c] = "processing"
  /\ \E outcome \in Outcomes :
       /\ Answers(c, outcome)
       /\ LET entity == [copy[c] EXCEPT !.status = "PROCESSING"] IN
          /\ doc' = IF outcome = "err" THEN doc ELSE entity
          /\ copy' = [copy EXCEPT ![c] = IF outcome = "ok" THEN entity ELSE NIL]
       /\ Goes(c, IF outcome # "ok" THEN "failed" ELSE IF asked.merchant THEN "config" ELSE "done")
  /\ UNCHANGED <<asked, way, refund, by, sent, acted, crashes>>

\* An active setting of the merchant says whether, and how, to pay at once.
RefundConfig(c) ==
  /\ at[c] = "config"
  /\ \/ Goes(c, "done") /\ UNCHANGED way
     \/ \E w \in Ways :
          /\ way' = [way EXCEPT ![c] = w]
          /\ Goes(c, IF w = "API" THEN "bank" ELSE "confirm")
  /\ UNCHANGED <<asked, copy, doc, refund, by, sent, acted, mishap, crashes>>

-----------------------------------------------------------------------------
(* Paying back, the same three times over.                                 *)

\* Mutant: the error of the bank is not looked at.
AskBankAnyway(c) ==
  /\ at[c] = "bank"
  /\ \E outcome \in Outcomes :
       /\ Answers(c, outcome)
       /\ sent' = IF outcome = "err" THEN sent ELSE sent + 1
  /\ acted' = acted \cup {c}
  /\ Goes(c, "confirm")
  /\ UNCHANGED <<asked, way, copy, doc, refund, by, crashes>>

\* ReFund carries the paid order's id and the amount, nothing of the refund.
AskBank(c) ==
  /\ at[c] = "bank"
  /\ \E outcome \in Outcomes :
       /\ Answers(c, outcome)
       /\ sent' = IF outcome = "err" THEN sent ELSE sent + 1
       /\ Goes(c, IF outcome = "ok" THEN "confirm" ELSE "withdraw")
  /\ acted' = acted \cup {c}
  /\ UNCHANGED <<asked, way, copy, doc, refund, by, crashes>>

\* CancelRefundTransaction after an error of the bank, for want of money, or by
\* an admin.  Only for want of money is the order failed.
Withdraw(c) ==
  /\ at[c] \in {"withdraw", "unfunded", "cancel"}
  /\ \E outcome \in {"ok", "err", "lost"} :
       /\ Decides(c, outcome, "CANCELLED")
       /\ Goes(c, IF at[c] = "unfunded" THEN "fail"
                  ELSE IF at[c] = "cancel" /\ outcome = "ok" THEN "done" ELSE "failed")
  /\ UNCHANGED <<asked, way, copy, doc, by, sent, crashes>>

\* Mutant: the error of the service is not looked at.
ConfirmRefundAnyway(c) ==
  /\ at[c] = "confirm"
  /\ \E outcome \in {"ok", "err", "lost"} :
       /\ Decides(c, outcome, "CONFIRMED")
       /\ by' = IF outcome = "err" THEN by ELSE c
  /\ Goes(c, "notify")
  /\ UNCHANGED <<asked, way, copy, doc, sent, crashes>>

ConfirmRefund(c) ==
  /\ at[c] = "confirm"
  /\ \E outcome \in {"ok", "err", "lost"} :
       /\ Decides(c, outcome, "CONFIRMED")
       /\ by' = IF outcome = "err" THEN by ELSE c
       /\ Goes(c, IF outcome = "ok" THEN "notify" ELSE "fail")
  /\ UNCHANGED <<asked, way, copy, doc, sent, crashes>>

\* sendRefundMqttNotify reads the transaction.  Its error ends the call before
\* the order is closed, but for a merchant's refund that is paid at once.
Notify(c) ==
  /\ at[c] = "notify"
  /\ \E outcome \in Outcomes :
       /\ Answers(c, outcome)
       /\ Goes(c, IF outcome = "ok" \/ (c = Asker /\ asked.merchant) THEN "success" ELSE "failed")
  /\ UNCHANGED <<asked, way, copy, doc, refund, by, sent, acted, crashes>>

\* Mutant: every order is closed as failed.
CloseOrderAlwaysFails(c) ==
  /\ at[c] \in {"success", "fail"}
  /\ Closes(c, "FAILED")
  /\ Goes(c, IF at[c] = "success" THEN "done" ELSE "failed")
  /\ UNCHANGED <<asked, way, copy, refund, by, sent, acted, crashes>>

\* The order of a refund that is paid at once for Gpay names the refund only here.
CloseOrder(c) ==
  /\ \/ /\ at[c] = "success"
        /\ \E outcome \in Outcomes :
             /\ Answers(c, outcome)
             /\ doc' = IF outcome = "err" THEN doc ELSE [status |-> "SUCCESS", linked |-> TRUE]
        /\ Goes(c, "done")
     \/ /\ at[c] = "fail"
        /\ Closes(c, "FAILED")
        /\ Goes(c, "failed")
  /\ UNCHANGED <<asked, way, copy, refund, by, sent, acted, crashes>>

Crash ==
  /\ crashes < MaxCrashes
  /\ crashes' = crashes + 1
  /\ at' = [c \in Calls |-> IF at[c] \in Over \cup {"idle"} THEN at[c] ELSE "crashed"]
  /\ mishap' = TRUE
  /\ UNCHANGED <<asked, way, copy, doc, refund, by, sent, acted>>

\* No call is under way.
Quiet == \A c \in Calls : at[c] \in Over \cup {"idle"}

Work(c) ==
  \/ InitOrder(c) \/ FindTrans(c) \/ RefundTransaction(c) \/ CheckFunds(c)
  \/ ProcessingOrder(c) \/ RefundConfig(c)
  \/ AskBank(c) \/ Withdraw(c) \/ ConfirmRefund(c) \/ Notify(c) \/ CloseOrder(c)

Next ==
  \/ BeginAsk
  \/ \E c \in Calls : BeginConfirm(c) \/ BeginCancel(c) \/ Work(c)
  \/ Crash
  \/ Quiet /\ UNCHANGED vars

Spec == Init /\ [][Next]_vars

-----------------------------------------------------------------------------
(* Properties.                                                             *)

\* The order is shown as refunded only if the refund is confirmed, whatever
\* confirmations and cancellations race for it.
SuccessIsConfirmed == doc # NIL /\ doc.status = "SUCCESS" => refund = "CONFIRMED"

\* A refund that is confirmed as paid by the bank has been paid by the bank.
ConfirmedIsSent == by # NIL /\ way[by] = "API" => sent > 0

\* As long as one call at most decides on the refund and nothing fails, order,
\* record and bank agree once the calls are over.
RecordsAgree ==
  Quiet /\ ~ mishap /\ Cardinality(acted) <= 1 =>
    CASE refund = "NONE" -> sent = 0 /\ (doc = NIL \/ doc.status = "PENDING")
      [] refund = "INITIAL" -> sent = 0 /\ doc.status \in {"PENDING", "PROCESSING"}
      [] refund = "CONFIRMED" -> doc.status = "SUCCESS" /\ sent = IF way[by] = "API" THEN 1 ELSE 0
      [] refund = "CANCELLED" -> sent = 0 /\ doc.status # "SUCCESS"
=============================================================================
