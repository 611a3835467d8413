--------------------------- MODULE BankSettlement ---------------------------
(***************************************************************************)
(* Payments the bank settles after the request that opened them has        *)
(* returned: NAPAS cash in, credit cards and international cards.          *)
(*                                                                         *)
(* The opening request sends the payer to the bank.  What the bank decides *)
(* comes back as an answer: a message of the topic UpdateBankStatus, which *)
(* may come more than once (module Broker), or a call of the bank gateway, *)
(* which may be repeated or never made.  Expired NAPAS orders are settled  *)
(* by the expiry job, which asks the bank.  Requests, order document and   *)
(* services are those of module PaymentSaga.                               *)
(***************************************************************************)
EXTENDS PaymentSaga

CONSTANTS
  Serial,      \* the answers of an order that are handled one after the other
  NapasCoded   \* the flows whose opening asks for a cash in by the bank code of NAPAS

NapasOpenings == {"NapasInitCashIn", "NapasInitLink"}

\* Type and bank code of an order are the opening request's, which may ask for others.
ASSUME SerialAssumption == Serial \subseteq AnswerFlows
ASSUME CodedAssumption == \A f \in NapasCoded : \E r \in Requests : f[r] \in NapasOpenings

\* The module is about one payment that is settled later: the answers and the job
\* do not say which opening request they are about.
ASSUME SettledAssumption ==
  \A f \in Flows :
    /\ \A r \in Requests : f[r] \in LaterFlows \cup {"NoRequest"}
    /\ \A r, q \in Requests : {f[r], f[q]} \subseteq LaterOpenings => r = q

Opens(r) == flow[r] \in LaterOpenings

\* The answers tell what the bank decided, which it does once.
BankPaid == \E o \in Requests : Opens(o) /\ bank[o] = "delivered"
BankDecided == \E o \in Requests : Opens(o) /\ bank[o] \in {"delivered", "refused"}
BankAsked == \E o \in Requests : Opens(o) /\ bank[o] # "idle"

\* The payer pays or gives up.
BankDecides(o) ==
  /\ Opens(o) /\ bank[o] = "unknown"
  /\ \E did \in {"delivered", "refused"} : bank' = [bank EXCEPT ![o] = did]
  /\ UNCHANGED <<flow, control, copies, doc, service, voucher, provider, around>>

\* Mutant: messages do not wait for each other.
BeginAnswerAtOnce(r) ==
  /\ flow[r] \in AnswerFlows
  /\ BankDecided \/ (flow[r] = "UpdateCreditPayment" /\ BankAsked)
  /\ Begin(r)

\* An answer.  Only UpdateCreditPayment may say that nothing is decided yet.
BeginAnswer(r) ==
  /\ flow[r] \in AnswerFlows
  /\ BankDecided \/ (flow[r] = "UpdateCreditPayment" /\ BankAsked)
  /\ flow[r] \in Serial => \A q \in Requests \ {r} : flow[q] \in Serial => ~ Active(q)
  /\ Begin(r)

-----------------------------------------------------------------------------
(* The steps of the opening requests.                                      *)

\* _, err = us.ProcessingOrder(...): the copy stays.
ProcessingKept(r) ==
  /\ AtStep(r, "ProcessingKept")
  /\ LET entity == [Linked(r) EXCEPT !.status = "PROCESSING"] IN
     \E outcome \in IF timeUp THEN {"err"} ELSE StepOutcomes :
       /\ doc' = IF outcome = "err" THEN doc ELSE entity
       /\ order' = [order EXCEPT ![r] = entity]
       /\ StepEnds(r, outcome)
  /\ UNCHANGED <<flow, trans, flag, service, voucher, outside, around>>

\* FAIL_CASE_FRAUD: a card on the black list is refused on the spot.
CheckFraud(r) ==
  /\ AtStep(r, "CheckFraud")
  /\ \/ StepOK(r) /\ UNCHANGED <<doc, order, service>>
     \/ /\ \E outcome \in {"ok", "err", "lost"} :
             /\ CancelEnds(trans[r].id, outcome)
             /\ IF outcome = "ok" THEN ClosesOrder(r, "FAILED") ELSE UNCHANGED <<doc, order>>
        /\ StepFails(r)
  /\ UNCHANGED <<flow, trans, flag, voucher, outside, around>>

\* Which codes of the gateway its client turns into an error.  CashInNapas only
\* looks for the fours: it lets "5xx" through.
CashInNapasEnds(code) == IF code \in {"449", "453", "4xx"} THEN "err" ELSE "ok"
LinkEnds(code) == IF code = "453" \/ IsSuccess(code) THEN "ok" ELSE "err"
CreditPaymentEnds(code) == IF code = "102" \/ IsSuccess(code) THEN "ok" ELSE "err"

AskEnds(f, code) ==
  CASE f = "NapasInitLink" -> LinkEnds(code)
    [] f = "ProcessCreditPayment" -> CreditPaymentEnds(code)
    [] OTHER -> CashInNapasEnds(code)

\* Unless the bank refuses, the payer may pay from here on.
AskBank(r) ==
  /\ AtStep(r, "AskBank")
  /\ \E outcome \in {"ok", "err"} :
       /\ \/ \E code \in BankCodes \ {"449"} :
               /\ outcome = AskEnds(flow[r], code)
               /\ outcome = "err" => "err" \in StepOutcomes
               /\ BankAnswers(r, IF BankDid(code) = "refused" THEN "refused" ELSE "unknown",
                              "none", outcome)
          \/ "lost" \in StepOutcomes /\ outcome = "err" /\ BankAnswers(r, "unknown", "none", "err")
       /\ order' = IF outcome = "ok" THEN order ELSE [order EXCEPT ![r] = Linked(r)]
  /\ UNCHANGED <<flow, trans, doc, service, voucher, around>>

-----------------------------------------------------------------------------
(* The steps of the answers.                                               *)

\* Mutant: the error code is not looked at.
FailBankStatusNever(r) ==
  /\ AtStep(r, "FailBankStatus")
  /\ StepOK(r)
  /\ UNCHANGED <<flow, copies, doc, service, voucher, outside, around>>

\* FAIL BANK STATUS: the transaction of a payment that failed is cancelled, and
\* the order is marked a success for as long as the rollback takes.
FailBankStatus(r) ==
  /\ AtStep(r, "FailBankStatus")
  /\ \/ BankPaid /\ StepOK(r) /\ UNCHANGED <<doc, order, service>>
     \/ /\ ~ BankPaid
        /\ \E outcome \in {"ok", "err", "lost"} :
             /\ CancelEnds(trans[r].id, outcome)
             /\ IF outcome = "ok" THEN ClosesOrder(r, "SUCCESS") ELSE UNCHANGED <<doc, order>>
        /\ StepFails(r)
  /\ UNCHANGED <<flow, trans, flag, voucher, outside, around>>

\* Cancel what the copy does not say is failed or pending, then fail the order
\* if it is open.
RefusePayment(r) ==
  /\ IF trans[r].status \notin {"FAILED", "PENDING"}
     THEN CancelTransaction(r) ELSE UNCHANGED <<trans, service>>
  /\ IF order[r].status \notin {"VERIFYING", "FAILED"}
     THEN ClosesOrder(r, "FAILED") ELSE UNCHANGED <<doc, order>>

\* CHECK AMOUNT: an amount that differs parks order and transaction, and the
\* next step goes on with them.
CheckAmount(r) ==
  /\ AtStep(r, "CheckAmount")
  /\ \/ StepOK(r) /\ UNCHANGED <<doc, order, trans, tx, flag>>
     \/ /\ MarkPending(r)
        /\ ClosesOrder(r, "VERIFYING")
        /\ flag' = [flag EXCEPT ![r] = "verifying"]
        /\ IF trans'[r] = NIL THEN StepFails(r) ELSE StepOK(r)
  /\ UNCHANGED <<flow, state, voucher, outside, around>>

\* The transaction on hold is applied; the answer says whether to go on.
ConfirmEnds(t, outcome) ==
  IF t # NIL /\ state[t] = "INITIAL"
  THEN /\ outcome \in StepOutcomes
       /\ tx' = IF outcome = "err" THEN tx ELSE [tx EXCEPT ![t] = "FINISH"]
       /\ state' = IF outcome = "err" THEN state ELSE [state EXCEPT ![t] = "APPLIED"]
  ELSE /\ outcome = "err"
       /\ UNCHANGED service

\* FINALIZATION_PAYMENT of CashInNAPAS.
SettleNapas(r) ==
  /\ AtStep(r, "SettleNapas")
  /\ \/ /\ BankPaid
        /\ \E outcome \in {"ok", "err", "lost"} :
             /\ ConfirmEnds(trans[r].id, outcome)
             /\ trans' = [trans EXCEPT ![r] = IF outcome = "ok" THEN [@ EXCEPT !.status = "FINISH"]
                                              ELSE NIL]
             /\ \/ /\ outcome # "ok"
                   /\ StepFails(r)
                   /\ UNCHANGED <<doc, order>>
                \/ /\ outcome = "ok"
                   /\ order' = [order EXCEPT ![r].status = "SUCCESS"]
                   /\ \E written \in StepOutcomes :
                        /\ doc' = IF written = "err" THEN doc ELSE [order[r] EXCEPT !.status = "SUCCESS"]
                        /\ StepEnds(r, written)
     \/ /\ ~ BankPaid /\ RefusePayment(r)
        /\ IF trans'[r] = NIL THEN StepFails(r) ELSE StepOK(r)
  /\ UNCHANGED <<flow, flag, voucher, outside, around>>

\* Mutant: a payment the bank is verifying counts as refused.
CreditStatusPessimistic(r) ==
  /\ AtStep(r, "CreditStatus")
  /\ \/ /\ BankPaid
        /\ flag' = [flag EXCEPT ![r] = "bypass"]
        /\ StepOK(r)
        /\ UNCHANGED <<doc, order, trans, service>>
     \/ /\ ~ BankPaid
        /\ RefusePayment(r)
        /\ StepOK(r)
        /\ UNCHANGED flag
  /\ UNCHANGED <<flow, voucher, outside, around>>

\* UpdateCreditPaymentOrder looks at the status it was sent.  FAILED refuses, and no
\* error is returned.  VERIFYING makes it ask the bank; unless the bank says it has
\* paid, all is parked, and what is returned is how the write of the order ended.
CreditStatus(r) ==
  /\ AtStep(r, "CreditStatus")
  /\ \/ /\ BankPaid
        /\ flag' = [flag EXCEPT ![r] = "bypass"]
        /\ StepOK(r)
        /\ UNCHANGED <<doc, order, trans, service>>
     \/ /\ BankDecided /\ ~ BankPaid
        /\ RefusePayment(r)
        /\ StepOK(r)
        /\ UNCHANGED flag
     \/ /\ BankPaid => "err" \in StepOutcomes
        /\ \E outcome \in StepOutcomes :
             /\ tx' = IF outcome = "err" THEN tx ELSE [tx EXCEPT ![trans[r].id] = "PENDING"]
             /\ trans' = [trans EXCEPT ![r] = IF outcome = "ok" THEN [@ EXCEPT !.status = "PENDING"]
                                              ELSE NIL]
        /\ order' = [order EXCEPT ![r].status = "VERIFYING"]
        /\ \E outcome \in StepOutcomes :
             /\ doc' = IF outcome = "err" THEN doc ELSE [order[r] EXCEPT !.status = "VERIFYING"]
             /\ StepEnds(r, outcome)
        /\ UNCHANGED <<flag, state>>
  /\ UNCHANGED <<flow, voucher, outside, around>>

\* OrderUpdate: the request may set any status.
ReplaceOrder(r) ==
  /\ AtStep(r, "ReplaceOrder")
  /\ \E status \in OrderStatus, outcome \in StepOutcomes :
       StepWrites(r, [order[r] EXCEPT !.status = status], outcome)
  /\ UNCHANGED <<flow, trans, flag, service, voucher, outside, around>>

Settle(r) ==
  \/ ProcessingKept(r) \/ CheckFraud(r) \/ AskBank(r)
  \/ FailBankStatus(r) \/ CheckAmount(r) \/ SettleNapas(r) \/ CreditStatus(r)
  \/ ReplaceOrder(r)

-----------------------------------------------------------------------------
(* The expiry job on an order paid through NAPAS: it asks the bank if type *)
(* and code say so, and fails the order like any other if they do not.     *)

IsNapas == flow \in NapasCoded

JobGoes(at) == job' = IF at = "idle" THEN [at |-> "idle", read |-> NIL] ELSE [job EXCEPT !.at = at]

JobReadNapas ==
  /\ IsNapas /\ job.at = "idle"
  /\ timeUp /\ doc.status \in {"PENDING", "PROCESSING"}
  /\ job' = [at |-> "retrieve", read |-> doc]
  /\ UNCHANGED <<flow, control, copies, doc, service, voucher, outside, timeUp, crashes>>

\* RetrieveOrderStatus.  The order is given up when the bank does not know it and
\* when the call fails, whatever the bank has decided.  It is looked at again later
\* while the bank is verifying, or when its transaction cannot be found.
JobRetrieve ==
  /\ job.at = "retrieve"
  /\ \/ ~ BankAsked /\ JobGoes("giveUp")
     \/ "err" \in StepOutcomes /\ JobGoes("unanswered")
     \/ /\ BankAsked
        /\ ~ BankDecided \/ job.read.tran = NIL \/ "err" \in StepOutcomes
        /\ JobGoes("idle")
     \/ /\ BankDecided /\ job.read.tran # NIL
        /\ JobGoes(IF BankPaid THEN "confirm" ELSE "refuse")
  /\ UNCHANGED <<flow, control, copies, doc, service, voucher, outside, timeUp, crashes>>

\* Nobody looks at the answer of a call the job makes.
JobConfirm ==
  /\ job.at = "confirm"
  /\ \E outcome \in {"ok", "err", "lost"} : ConfirmEnds(job.read.tran, outcome)
  /\ JobGoes("success")
  /\ UNCHANGED <<flow, control, copies, doc, voucher, outside, timeUp, crashes>>

JobRelease ==
  /\ job.at \in {"refuse", "release"}
  /\ \E outcome \in {"ok", "err", "lost"} : CancelEnds(job.read.tran, outcome)
  /\ JobGoes(IF job.at = "refuse" THEN "refused" ELSE "idle")
  /\ UNCHANGED <<flow, control, copies, doc, voucher, outside, timeUp, crashes>>

\* Mutant: every order the job takes up is failed.
JobWritesFailed ==
  /\ job.at \in {"success", "refused", "giveUp", "unanswered"}
  /\ doc' = [job.read EXCEPT !.status = "FAILED"]
  /\ JobGoes(IF job.at \in {"giveUp", "unanswered"} /\ job.read.tran # NIL THEN "release" ELSE "idle")
  /\ UNCHANGED <<flow, control, copies, service, voucher, outside, timeUp, crashes>>

JobWrites ==
  /\ job.at \in {"success", "refused", "giveUp", "unanswered"}
  /\ \E outcome \in RepairOutcomes :
       doc' = IF outcome = "err" THEN doc
              ELSE [job.read EXCEPT !.status = IF job.at = "success" THEN "SUCCESS" ELSE "FAILED"]
  /\ JobGoes(IF job.at \in {"giveUp", "unanswered"} /\ job.read.tran # NIL THEN "release" ELSE "idle")
  /\ UNCHANGED <<flow, control, copies, service, voucher, outside, timeUp, crashes>>

NapasJob == JobReadNapas \/ JobRetrieve \/ JobConfirm \/ JobRelease \/ JobWrites

OtherJob ==
  \/ ~ IsNapas /\ JobRead
  \/ \E outcome \in RepairOutcomes : JobFail(outcome)
  \/ JobCancel

SettleNext ==
  \/ \E r \in Requests :
       \/ flow[r] \notin AnswerFlows /\ Begin(r)
       \/ BeginAnswer(r) \/ Work(r) \/ Settle(r) \/ BankDecides(r)
  \/ Tick
  \/ NapasJob
  \/ OtherJob
  \/ Crash
  \/ Quiescent

SettleSpec == Init /\ [][SettleNext]_vars

-----------------------------------------------------------------------------
(* Properties.                                                             *)

\* Only what the bank has paid is charged, whatever answers, job and requests
\* race for the transaction.
ChargedIsBankPaid == \A t \in Requests : Charged(t) /\ Opens(t) => bank[t] = "delivered"

\* Answers handled one after the other deliver goods twice only if one of them
\* panicked or died on its way.
GoodsTwiceNeedsPanic ==
  \A q, r \in Requests :
    /\ q # r /\ {flow[q], flow[r]} \subseteq Serial
    /\ provider[q] = "delivered" /\ provider[r] = "delivered"
    => "panic" \in {phase[q], phase[r]} \/ "crashed" \in {phase[q], phase[r]}

\* What the bank has paid is given back only if the opening request failed, the
\* order expired, or an answer failed before it tried to charge the payer.
ReleasedForAReason ==
  \A t \in Requests :
    Opens(t) /\ bank[t] = "delivered" /\ state[t] = "RELEASED" =>
      \/ timeUp \/ failedAt[t] # 0
      \/ \E r \in Requests, op \in {"AccountVoucher", "CallProvider"} :
           FailedOp(r, op)

PaidOrder == doc # NIL /\ doc.status = "SUCCESS" /\ \E t \in Requests : Charged(t)

NapasOrder == \E r \in Requests : flow[r] \in NapasOpenings

\* The status of an order paid through NAPAS is taken back only by the expiry job,
\* which fails what it read before, and only when its question to the bank failed or
\* type and bank code kept it from asking; by an answer with a different amount; or
\* where the opening request had failed.  A pass that was answered leaves it paid.
UnpaidForAReason ==
  [][NapasOrder /\ PaidOrder /\ ~ PaidOrder' =>
       \/ job.at = "unanswered" \/ (job.at = "fail" /\ ~ IsNapas)
       \/ \E r \in Requests : flag'[r] = "verifying" \/ (Opens(r) /\ failedAt[r] # 0)]_vars
=============================================================================
