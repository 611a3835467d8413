---------------------------- MODULE PaymentSaga ----------------------------
(***************************************************************************)
(* The payment requests of orders-system on one order.                     *)
(*                                                                         *)
(* Each request plays the steps of its flow (module OrderFlows) on its own *)
(* goroutine and keeps its own copies of the order and of the transaction. *)
(* They share the order document in MongoDB, the transaction service, the  *)
(* promotion service, and the card, bill and bank providers; the expiry    *)
(* job works on the same document.  An action is one Func or one           *)
(* CompensateFunc, with all the calls it makes.                            *)
(*                                                                         *)
(* A remote call answers "ok", fails without effect ("err") or takes       *)
(* effect while the caller sees an error ("lost": a timeout or a broken    *)
(* connection).  A nil pointer dereference is a panic, which the gRPC      *)
(* recovery interceptor turns into an error of that request alone.         *)
(***************************************************************************)
EXTENDS Integers, OrderFlows

CONSTANTS
  Requests,        \* the requests made on the order
  Flows,           \* the assignments of flows to requests to consider
  NIL,             \* Go's nil; also "no such document", "no transaction id"
  StepOutcomes,    \* how a call made by a step may end
  RepairOutcomes,  \* how a call made to close the order may end: by a compensation,
                   \* by "FAIL ORDER" or by the job
  Expiring,        \* those of them in which expired_at may pass while the requests run
  MaxCrashes       \* bound on process crashes

ASSUME FlowsAssumption == Flows \subseteq [Requests -> FlowNames] /\ Expiring \subseteq Flows
ASSUME OutcomesAssumption ==
  /\ "ok" \in StepOutcomes /\ StepOutcomes \subseteq {"ok", "err", "lost"}
  /\ "ok" \in RepairOutcomes /\ RepairOutcomes \subseteq {"ok", "err", "lost"}
\* Every InitOrder makes a document with an id of its own: two requests that
\* create an order are not requests on one order.
ASSUME OneCreator ==
  \A f \in Flows : \A r, q \in Requests :
    HasOp(f[r], "InitOrder") /\ HasOp(f[q], "InitOrder") => r = q
ASSUME BoundsAssumption == MaxCrashes \in Nat

VARIABLES
  flow,       \* flow[r]: the flow request r runs
  phase,      \* phase[r]: where request r is
  pc,         \* pc[r]: the step to run next, or the one to compensate next
  failedAt,   \* failedAt[r]: the step that returned an error, 0 for none
  order,      \* order[r]: order_dto, the request's copy of the order
  trans,      \* trans[r]: the request's copy of its transaction
  flag,       \* flag[r]: what the steps noted of an outside answer: "pending" and
              \* "verifying" (isPendingSrvCard, isTimeOutBank), "failed"
              \* (isFailedOrder), "bypass" (isByPassOtp, status "200": the bank has paid)
  doc,        \* the order document
  tx,         \* tx[r]: status of the transaction r opened, in the service
  state,      \* state[r]: what became of the amount it holds
  voucher,    \* the use of the voucher traced by the order's id
  provider,   \* provider[r]: what the card, bill or transfer service did for r
  bank,       \* bank[r]: what the payer's bank did when r asked it for the money
  timeUp,     \* has expired_at passed?
  job,        \* the expiry job: what it does next and the order it read
  crashes     \* process crashes so far

control == <<phase, pc, failedAt>>
copies == <<order, trans, flag>>
service == <<tx, state>>
around == <<timeUp, job, crashes>>
outside == <<provider, bank>>
vars == <<flow, control, copies, doc, service, voucher, outside, around>>

OrderStatus == {"PENDING", "PROCESSING", "SUCCESS", "FAILED", "CANCEL", "VERIFYING"}
TransactionStatus == {"NONE", "PROCESSING", "PENDING", "FINISH", "FAILED"}

\* INITIAL: on hold.  APPLIED: charged.  RELEASED: given back to the payer.
TransactionState == {"NONE", "INITIAL", "APPLIED", "RELEASED"}

Orders == [status : OrderStatus, tran : Requests \cup {NIL}, expired : BOOLEAN]
Transactions == [id : Requests \cup {NIL}, status : TransactionStatus]

ASSUME NilAssumption == NIL \notin Requests \cup Orders \cup Transactions

\* Mutant: InitOrder forgets the status.
UnsetOrder == [status |-> "", tran |-> NIL, expired |-> FALSE]

\* What InitOrder stores: a pending order that runs out ten minutes later.
NewOrder == [status |-> "PENDING", tran |-> NIL, expired |-> FALSE]

Active(r) == phase[r] \in {"run", "abort"}
Ended(r) == phase[r] \in {"done", "failed", "refused", "panic", "crashed"}

Init ==
  /\ flow \in Flows
  /\ phase = [r \in Requests |-> "idle"]
  /\ pc = [r \in Requests |-> 1]
  /\ failedAt = [r \in Requests |-> 0]
  /\ order = [r \in Requests |-> NIL]
  /\ trans = [r \in Requests |-> NIL]
  /\ flag = [r \in Requests |-> "none"]
  \* No request creates the order: InitOrderAndTrans has placed it.
  /\ doc = IF \E r \in Requests : HasOp(flow[r], "InitOrder") THEN NIL ELSE NewOrder
  /\ tx = [r \in Requests |-> "NONE"]
  /\ state = [r \in Requests |-> "NONE"]
  /\ voucher = "unused"
  /\ provider = [r \in Requests |-> "idle"]
  /\ bank = [r \in Requests |-> "idle"]
  /\ timeUp = FALSE
  /\ job = [at |-> "idle", read |-> NIL]
  /\ crashes = 0

-----------------------------------------------------------------------------
(* The saga coordinator, as the flows see it (module SagaCoordinator).     *)

Steps(r) == Flow[flow[r]]
Cur(r) == Steps(r)[pc[r]]

AtStep(r, op) ==
  phase[r] = "run" /\ pc[r] <= Len(Steps(r)) /\ Cur(r).op = op

AtComp(r, comp) ==
  phase[r] = "abort" /\ pc[r] > 0 /\ Cur(r).comp = comp

StepOK(r) ==
  /\ pc' = [pc EXCEPT ![r] = @ + 1]
  /\ UNCHANGED <<phase, failedAt>>

\* Mutant: the failing step itself is not compensated.
StepFailsUncompensated(r) ==
  /\ phase' = [phase EXCEPT ![r] = "abort"]
  /\ failedAt' = [failedAt EXCEPT ![r] = pc[r]]
  /\ pc' = [pc EXCEPT ![r] = @ - 1]

\* The failing step is the first one compensated.
StepFails(r) ==
  /\ phase' = [phase EXCEPT ![r] = "abort"]
  /\ failedAt' = [failedAt EXCEPT ![r] = pc[r]]
  /\ UNCHANGED pc

StepEnds(r, outcome) == IF outcome = "ok" THEN StepOK(r) ELSE StepFails(r)

Compensated(r) ==
  /\ pc' = [pc EXCEPT ![r] = @ - 1]
  /\ UNCHANGED <<phase, failedAt>>

\* The rest of the compensations is never called.
Panics(r) ==
  /\ phase' = [phase EXCEPT ![r] = "panic"]
  /\ UNCHANGED <<pc, failedAt>>

\* Mutant: a request that was rolled back starts over.
ReturnRetries(r) ==
  /\ \/ /\ phase[r] = "run" /\ pc[r] > Len(Steps(r))
        /\ phase' = [phase EXCEPT ![r] = "done"]
        /\ UNCHANGED <<pc, failedAt>>
     \/ /\ phase[r] = "abort" /\ pc[r] = 0
        /\ phase' = [phase EXCEPT ![r] = "idle"]
        /\ pc' = [pc EXCEPT ![r] = 1]
        /\ failedAt' = [failedAt EXCEPT ![r] = 0]
  /\ UNCHANGED <<flow, copies, doc, service, voucher, outside, around>>

\* Play returns and with it the request.
Return(r) ==
  /\ \/ /\ phase[r] = "run" /\ pc[r] > Len(Steps(r))
        /\ phase' = [phase EXCEPT ![r] = "done"]
     \/ /\ phase[r] = "abort" /\ pc[r] = 0
        /\ phase' = [phase EXCEPT ![r] = "failed"]
  /\ UNCHANGED <<flow, pc, failedAt, copies, doc, service, voucher, outside, around>>

-----------------------------------------------------------------------------
(* The order document.                                                     *)

GetValidOrder(d) ==
  /\ d # NIL
  /\ d.status \notin {"VERIFYING", "SUCCESS", "FAILED"}
  /\ ~ d.expired

\* order_dto, err = us.XOrder(...): on an error the copy becomes nil.
StepWrites(r, entity, outcome) ==
  /\ doc' = IF outcome = "err" THEN doc ELSE entity
  /\ order' = [order EXCEPT ![r] = IF outcome = "ok" THEN entity ELSE NIL]
  /\ StepEnds(r, outcome)

\* us.XOrder(...) in a compensation: the copy has the new status whether or not
\* the document got it.
ClosesOrder(r, status) ==
  /\ order' = [order EXCEPT ![r].status = status]
  /\ \E outcome \in RepairOutcomes :
       doc' = IF outcome = "err" THEN doc ELSE [order[r] EXCEPT !.status = status]

CompensationWrites(r, status) == ClosesOrder(r, status) /\ Compensated(r)

\* The order part of a compensation: nothing to do when the copy already has a
\* status in skip, a panic when there is no copy.
CompensationMoves(r, status, skip) ==
  \/ /\ order[r] = NIL
     /\ Panics(r)
     /\ UNCHANGED <<doc, order>>
  \/ /\ order[r] # NIL
     /\ order[r].status \in skip
     /\ Compensated(r)
     /\ UNCHANGED <<doc, order>>
  \/ /\ order[r] # NIL
     /\ order[r].status \notin skip
     /\ CompensationWrites(r, status)

\* Mutant: no look at IsVerifying.
FailIfNotFailed(r) == CompensationMoves(r, "FAILED", {"FAILED"})

\* Mutant: an order that is being processed counts as closed.
FailIfPending(r) == CompensationMoves(r, "FAILED", {"PROCESSING", "VERIFYING", "FAILED"})

FailIfOpen(r) == CompensationMoves(r, "FAILED", {"VERIFYING", "FAILED"})
CancelIfOpen(r) == CompensationMoves(r, "CANCEL", {"VERIFYING", "FAILED"})
FailAlways(r) == CompensationMoves(r, "FAILED", {})
VerifyIfNot(r) == CompensationMoves(r, "VERIFYING", {"VERIFYING"})

-----------------------------------------------------------------------------
(* The transaction service.  It is not part of the repository: a hold can  *)
(* be confirmed or cancelled once, and whatever is not on hold is refused. *)

\* A call that cancels transaction t, and how it ends for the caller.
CancelEnds(t, outcome) ==
  IF t # NIL /\ state[t] = "INITIAL"
  THEN /\ outcome \in RepairOutcomes
       /\ tx' = IF outcome = "err" THEN tx ELSE [tx EXCEPT ![t] = "FAILED"]
       /\ state' = IF outcome = "err" THEN state ELSE [state EXCEPT ![t] = "RELEASED"]
  ELSE /\ outcome = "err"
       /\ UNCHANGED service

\* Mutant: the transaction is looked up by the order's TransactionID.
CancelByOrder(r) ==
  \E outcome \in {"ok", "err", "lost"} :
    /\ CancelEnds(IF order[r] = NIL THEN NIL ELSE order[r].tran, outcome)
    /\ trans' = [trans EXCEPT ![r] = IF outcome = "ok" THEN [@ EXCEPT !.status = "FAILED"]
                                     ELSE NIL]

\* trans, err = us.serviceTransactionCancel(ctx, trans): nil on an error.
CancelTransaction(r) ==
  \E outcome \in {"ok", "err", "lost"} :
    /\ CancelEnds(trans[r].id, outcome)
    /\ trans' = [trans EXCEPT ![r] = IF outcome = "ok" THEN [@ EXCEPT !.status = "FAILED"]
                                     ELSE NIL]

\* OrderCancel and the expiry job read the transaction and cancel it if its
\* State is INITIAL; they do not look at the answer.
CancelIfInitial(t) ==
  IF t # NIL /\ state[t] = "INITIAL"
  THEN \E outcome \in RepairOutcomes : CancelEnds(t, outcome)
  ELSE UNCHANGED service

\* UpdateTransaction with status PENDING, unless the copy says it is pending.
MarkPending(r) ==
  \/ /\ trans[r].status = "PENDING"
     /\ UNCHANGED <<tx, trans>>
  \/ /\ trans[r].status # "PENDING"
     /\ \E outcome \in RepairOutcomes :
          /\ tx' = IF outcome = "err" THEN tx ELSE [tx EXCEPT ![trans[r].id] = "PENDING"]
          /\ trans' = [trans EXCEPT ![r] = IF outcome = "ok" THEN [@ EXCEPT !.status = "PENDING"]
                                           ELSE NIL]

-----------------------------------------------------------------------------
(* The steps that look things up.                                          *)

\* ConfirmOrder and OrderCancel call GetValidOrder before they do anything
\* else, and return its error.  A token's OTP comes with the order id and the
\* bank's trace id, which the client has from InitPayByToken's response.
Begin(r) ==
  /\ phase[r] = "idle" /\ flow[r] \notin TokenByPass \cup {"NoRequest"}
  /\ flow[r] \in TokenOtp => \E q \in Requests : flow[q] \in TokenInit /\ phase[q] = "done"
  /\ \/ /\ flow[r] \in Validated => GetValidOrder(doc)
        /\ phase' = [phase EXCEPT ![r] = "run"]
        /\ order' = [order EXCEPT ![r] = IF flow[r] \in Validated THEN doc ELSE NIL]
     \/ /\ flow[r] \in Validated
        /\ GetValidOrder(doc) => "err" \in StepOutcomes
        /\ phase' = [phase EXCEPT ![r] = "refused"]
        /\ UNCHANGED order
  /\ UNCHANGED <<flow, pc, failedAt, trans, flag, doc, service, voucher, outside, around>>

\* A ByPass request calls InitPayByToken, which is request q here, returns its
\* error, and goes on with its order, its transaction and the bank's status.
BeginByPass(r) ==
  /\ phase[r] = "idle" /\ flow[r] \in TokenByPass
  /\ \E q \in Requests :
       /\ flow[q] \in TokenInit /\ Ended(q)
       /\ \/ /\ phase[q] = "done"
             /\ phase' = [phase EXCEPT ![r] = "run"]
             /\ order' = [order EXCEPT ![r] = order[q]]
             /\ trans' = [trans EXCEPT ![r] = trans[q]]
             /\ flag' = [flag EXCEPT ![r] = flag[q]]
          \/ /\ phase[q] # "done"
             /\ phase' = [phase EXCEPT ![r] = "refused"]
             /\ UNCHANGED copies
  /\ UNCHANGED <<flow, pc, failedAt, doc, service, voucher, outside, around>>

FindOrder(r) ==
  /\ AtStep(r, "FindOrder")
  /\ \/ /\ GetValidOrder(doc)
        /\ order' = [order EXCEPT ![r] = doc]
        /\ StepOK(r)
     \/ /\ GetValidOrder(doc) => "err" \in StepOutcomes
        /\ UNCHANGED order
        /\ StepFails(r)
  /\ UNCHANGED <<flow, trans, flag, doc, service, voucher, outside, around>>

\* InitPayByToken opens a transaction unless its order has one already.
FindTransaction(r) ==
  /\ \/ AtStep(r, "FindTransaction")
     \/ AtStep(r, "FindOrInitPayment") /\ order[r].tran # NIL
  /\ LET t == order[r].tran IN
     \/ /\ t # NIL
        /\ trans' = [trans EXCEPT ![r] = [id |-> t, status |-> tx[t]]]
        /\ StepOK(r)
     \/ /\ t # NIL => "err" \in StepOutcomes
        /\ UNCHANGED trans
        /\ StepFails(r)
  /\ UNCHANGED <<flow, order, flag, doc, service, voucher, outside, around>>

\* The checks before the order exists, and BuyCard's lookup of the vendor's
\* discount after the cards have been bought: nothing but an error matters.
Check(r) ==
  /\ AtStep(r, "Check") \/ AtStep(r, "VendorFee")
  /\ \E outcome \in StepOutcomes : StepEnds(r, outcome)
  /\ UNCHANGED <<flow, copies, doc, service, voucher, outside, around>>

-----------------------------------------------------------------------------
(* The steps that move the order.                                          *)

InitOrder(r) ==
  /\ AtStep(r, "InitOrder")
  /\ \E outcome \in StepOutcomes : StepWrites(r, NewOrder, outcome)
  /\ UNCHANGED <<flow, trans, flag, service, voucher, outside, around>>

\* Mutant: the filter has no expired_at.
ProcessingIgnoresExpiry(r) ==
  /\ AtStep(r, "ProcessingOrder")
  /\ \E outcome \in StepOutcomes :
       StepWrites(r, [order[r] EXCEPT !.status = "PROCESSING"], outcome)
  /\ UNCHANGED <<flow, trans, flag, service, voucher, outside, around>>

\* ProcessingOrderByID matches on expired_at and on nothing else.  Past it
\* nothing is modified: an error, but the copy is not nil.
ProcessingOrder(r) ==
  /\ AtStep(r, "ProcessingOrder")
  /\ LET entity == [order[r] EXCEPT !.status = "PROCESSING"] IN
     \/ \E outcome \in StepOutcomes :
          /\ timeUp => outcome = "err"
          /\ StepWrites(r, entity, outcome)
     \/ /\ timeUp
        /\ order' = [order EXCEPT ![r] = entity]
        /\ UNCHANGED doc
        /\ StepFails(r)
  /\ UNCHANGED <<flow, trans, flag, service, voucher, outside, around>>

\* order_dto with the transaction id, if this step stores it.
Linked(r) == IF Cur(r).link THEN [order[r] EXCEPT !.tran = trans[r].id] ELSE order[r]

SuccessOrder(r) ==
  /\ AtStep(r, "SuccessOrder") \/ (AtStep(r, "SuccessIfBypass") /\ flag[r] = "bypass")
  /\ \E outcome \in StepOutcomes :
       StepWrites(r, [Linked(r) EXCEPT !.status = "SUCCESS"], outcome)
  /\ UNCHANGED <<flow, trans, flag, service, voucher, outside, around>>

CancelOrder(r) ==
  /\ AtStep(r, "CancelOrder")
  /\ \E outcome \in StepOutcomes :
       StepWrites(r, [order[r] EXCEPT !.status = "CANCEL"], outcome)
  /\ UNCHANGED <<flow, trans, flag, service, voucher, outside, around>>

CancelInitial(r) ==
  /\ AtStep(r, "CancelInitial")
  /\ CancelIfInitial(order[r].tran)
  /\ StepOK(r)
  /\ UNCHANGED <<flow, copies, doc, voucher, outside, around>>

-----------------------------------------------------------------------------
(* The steps that move money, vouchers and goods.                          *)

\* An order without a voucher skips the call.
AccountVoucher(r) ==
  /\ AtStep(r, "AccountVoucher")
  /\ \/ UNCHANGED voucher /\ StepOK(r)
     \/ \E outcome \in StepOutcomes :
          /\ voucher' = IF outcome = "err" THEN voucher ELSE "used"
          /\ StepEnds(r, outcome)
  /\ UNCHANGED <<flow, copies, doc, service, outside, around>>

\* The fees are looked up first: when the merchant's fee fails trans is not nil
\* but an empty transaction.
InitPayment(r) ==
  /\ \/ AtStep(r, "InitPayment")
     \/ AtStep(r, "FindOrInitPayment") /\ order[r].tran = NIL
  /\ \/ \E outcome \in StepOutcomes :
          /\ tx' = IF outcome = "err" THEN tx ELSE [tx EXCEPT ![r] = "PROCESSING"]
          /\ state' = IF outcome = "err" THEN state ELSE [state EXCEPT ![r] = "INITIAL"]
          /\ trans' = [trans EXCEPT ![r] = IF outcome = "ok"
                                           THEN [id |-> r, status |-> "PROCESSING"] ELSE NIL]
          /\ order' = IF outcome = "ok" /\ Cur(r).link
                      THEN [order EXCEPT ![r].tran = r] ELSE order
          /\ StepEnds(r, outcome)
     \/ /\ "err" \in StepOutcomes
        /\ trans' = [trans EXCEPT ![r] = [id |-> NIL, status |-> "NONE"]]
        /\ StepFails(r)
        /\ UNCHANGED <<service, order>>
  /\ UNCHANGED <<flow, flag, doc, voucher, outside, around>>

\* Mutant: the error of ConfirmTransaction is dropped.
ConfirmIgnoresError(r) ==
  /\ AtStep(r, "ConfirmTrans") \/ (AtStep(r, "ConfirmIfBypass") /\ flag[r] = "bypass")
  /\ order' = [order EXCEPT ![r] = Linked(r)]
  /\ \E outcome \in StepOutcomes :
       LET applied == state[trans[r].id] = "INITIAL" /\ outcome # "err" IN
       /\ tx' = IF applied THEN [tx EXCEPT ![trans[r].id] = "FINISH"] ELSE tx
       /\ state' = IF applied THEN [state EXCEPT ![trans[r].id] = "APPLIED"] ELSE state
  /\ StepOK(r)
  /\ UNCHANGED <<flow, trans, flag, doc, voucher, outside, around>>

\* The transaction id is stored before the call.  The service applies what is
\* on hold and refuses the rest.
ConfirmTrans(r) ==
  /\ AtStep(r, "ConfirmTrans") \/ (AtStep(r, "ConfirmIfBypass") /\ flag[r] = "bypass")
  /\ order' = [order EXCEPT ![r] = Linked(r)]
  /\ LET t == trans[r].id IN
     \/ /\ state[t] = "INITIAL"
        /\ \E outcome \in StepOutcomes :
             /\ tx' = IF outcome = "err" THEN tx ELSE [tx EXCEPT ![t] = "FINISH"]
             /\ state' = IF outcome = "err" THEN state ELSE [state EXCEPT ![t] = "APPLIED"]
             /\ trans' = [trans EXCEPT ![r] = IF outcome = "ok" THEN [@ EXCEPT !.status = "FINISH"]
                                              ELSE NIL]
             /\ StepEnds(r, outcome)
     \/ /\ state[t] # "INITIAL"
        /\ trans' = [trans EXCEPT ![r] = NIL]
        /\ StepFails(r)
        /\ UNCHANGED service
  /\ UNCHANGED <<flow, flag, doc, voucher, outside, around>>

\* A step whose Func has nothing to do for this order.
SkipStep(r) ==
  /\ \/ AtStep(r, "SkipProvider")
     \/ AtStep(r, "ConfirmIfBypass") /\ flag[r] # "bypass"
     \/ AtStep(r, "SuccessIfBypass") /\ flag[r] # "bypass"
  /\ StepOK(r)
  /\ UNCHANGED <<flow, copies, doc, service, voucher, outside, around>>

\* What the provider did, what the step noted of it, and whether it failed.
Answers(r, did, noted, outcome) ==
  /\ provider' = [provider EXCEPT ![r] = did]
  /\ flag' = [flag EXCEPT ![r] = noted]
  /\ StepEnds(r, outcome)
  /\ UNCHANGED bank

\* The card, top up or bill service delivers, refuses, or answers that the order
\* is pending; its answer may be lost.
CallProvider(r) ==
  /\ AtStep(r, "CallProvider") /\ flow[r] \notin BankTransfers
  /\ \/ Answers(r, "delivered", "none", "ok")
     \/ "err" \in StepOutcomes /\ Answers(r, "refused", "none", "err")
     \/ "lost" \in StepOutcomes /\ Answers(r, "delivered", "none", "err")
     \/ Answers(r, "unknown", "pending", "err")
  /\ UNCHANGED <<flow, order, trans, doc, service, voucher, around>>

-----------------------------------------------------------------------------
(* The payer's bank.  Its gateway answers with a code: "200" and other     *)
(* codes "2xx" mean paid, "453" that an OTP is wanted, "449" that it was   *)
(* wrong, "102" that the bank is still verifying; "4xx" and "5xx" are the  *)
(* other refusals.                                                         *)

BankCodes == {"200", "2xx", "453", "449", "102", "4xx", "5xx"}
IsSuccess(code) == code \in {"200", "2xx"}

BankDid(code) ==
  CASE IsSuccess(code) -> "delivered"
    [] code = "453" -> "idle"
    [] code \in {"449", "4xx", "5xx"} -> "refused"
    [] code = "102" -> "unknown"

\* The client turns every other code into an error, "102" too.
CashInEnds(code) == IF code = "453" \/ IsSuccess(code) THEN "ok" ELSE "err"

\* Mutant: the client returns no error for any code.
NoCodeIsError(code) == "ok"

\* The client passes "102" and "449" on: the step looks at them.
VerifyOTPEnds(code) ==
  IF code \in {"102", "449"} \/ IsSuccess(code) THEN "ok" ELSE "err"

\* The clients of the two transfers pass "102" on.
CashOutEnds(code) == IF code = "102" \/ IsSuccess(code) THEN "ok" ELSE "err"
IBFTTransferEnds(code) == IF code = "102" \/ IsSuccess(code) THEN "ok" ELSE "err"

\* A transfer to the payee's bank.  "102" makes the step fail and note that the
\* payment is pending.
CallTransfer(r) ==
  /\ AtStep(r, "CallProvider") /\ flow[r] \in BankTransfers
  /\ \/ \E code \in BankCodes \ {"449", "453"} :
          LET returned == IF flow[r] = "CashOut" THEN CashOutEnds(code) ELSE IBFTTransferEnds(code)
              pending == returned = "ok" /\ code = "102"
          IN /\ returned = "err" => "err" \in StepOutcomes
             /\ Answers(r, BankDid(code), IF pending THEN "pending" ELSE "none",
                        IF pending THEN "err" ELSE returned)
     \/ "lost" \in StepOutcomes /\ Answers(r, "delivered", "none", "err")
  /\ UNCHANGED <<flow, order, trans, doc, service, voucher, around>>

BankAnswers(r, did, noted, outcome) ==
  /\ bank' = [bank EXCEPT ![r] = did]
  /\ flag' = [flag EXCEPT ![r] = noted]
  /\ StepEnds(r, outcome)
  /\ UNCHANGED provider

\* The step notes whether the code says that no OTP is needed.
CashIn(r, noOtp) ==
  \/ \E code \in BankCodes \ {"449"} :
       BankAnswers(r, BankDid(code), IF code \in noOtp THEN "bypass" ELSE "none", CashInEnds(code))
  \/ "lost" \in StepOutcomes /\ BankAnswers(r, "delivered", "none", "err")

CashInRequest(r) ==
  /\ AtStep(r, "CashInRequest")
  /\ CashIn(r, {"200", "2xx"})
  /\ UNCHANGED <<flow, order, trans, doc, service, voucher, around>>

\* InitPayByToken hands the code back; its callers compare it with "200".
CashInBankGW(r) ==
  /\ AtStep(r, "CashInBankGW")
  /\ CashIn(r, {"200"})
  /\ UNCHANGED <<flow, order, trans, doc, service, voucher, around>>

\* Mutant: the status of the cash in is not looked at.
FailUnpaidIgnoresStatus(r) ==
  /\ AtStep(r, "FailUnpaid")
  /\ StepOK(r)
  /\ UNCHANGED <<flow, copies, doc, service, voucher, outside, around>>

\* "FAIL ORDER": unless the bank has paid, cancel the transaction, fail the
\* order and end the request.  An error of the first call skips the second.
FailUnpaid(r) ==
  /\ AtStep(r, "FailUnpaid")
  /\ \/ /\ flag[r] = "bypass"
        /\ StepOK(r)
        /\ UNCHANGED <<doc, order, service>>
     \/ /\ flag[r] # "bypass"
        /\ \E outcome \in {"ok", "err", "lost"} :
             /\ CancelEnds(trans[r].id, outcome)
             /\ IF outcome = "ok" THEN ClosesOrder(r, "FAILED") ELSE UNCHANGED <<doc, order>>
        /\ StepFails(r)
  /\ UNCHANGED <<flow, trans, flag, voucher, outside, around>>

\* A wrong OTP leaves order and transaction as they are, for another try.
VerifyOtp(r) ==
  /\ AtStep(r, "VerifyOtp")
  /\ \/ \E code \in BankCodes \ {"453"} :
          LET returned == VerifyOTPEnds(code) IN
          BankAnswers(r, BankDid(code),
                      CASE returned = "err" -> "failed"
                        [] returned = "ok" /\ code = "102" -> "verifying"
                        [] OTHER -> "none",
                      IF returned = "ok" /\ code \in {"102", "449"} THEN "err" ELSE returned)
     \/ "lost" \in StepOutcomes /\ BankAnswers(r, "delivered", "failed", "err")
  /\ UNCHANGED <<flow, order, trans, doc, service, voucher, around>>

Execute(r) ==
  \/ FindOrder(r) \/ FindTransaction(r) \/ Check(r)
  \/ InitOrder(r) \/ ProcessingOrder(r) \/ SuccessOrder(r)
  \/ CancelOrder(r) \/ CancelInitial(r)
  \/ AccountVoucher(r) \/ InitPayment(r) \/ ConfirmTrans(r) \/ SkipStep(r)
  \/ CallProvider(r) \/ CallTransfer(r) \/ CashInRequest(r) \/ CashInBankGW(r) \/ FailUnpaid(r) \/ VerifyOtp(r)

-----------------------------------------------------------------------------
(* The compensations.                                                      *)

CompensateNone(r) ==
  /\ AtComp(r, "None")
  /\ Compensated(r)
  /\ UNCHANGED <<flow, copies, doc, service, voucher, outside, around>>

CompensateOrder(r) ==
  /\ \/ AtComp(r, "FailOpen") /\ FailIfOpen(r)
     \/ AtComp(r, "CancelOpen") /\ CancelIfOpen(r)
     \/ AtComp(r, "UndoCashIn") /\ FailAlways(r)
     \/ AtComp(r, "ParkOrder") /\ VerifyIfNot(r)
  /\ UNCHANGED <<flow, trans, flag, service, voucher, outside, around>>

\* Mutant: the voucher of an order that is already failed is forgotten.
ReverseIfOpen(r) ==
  voucher' = IF order[r] = NIL \/ order[r].status = "FAILED" \/ voucher # "used" THEN voucher
             ELSE "reversed"

\* ReverseWallet for the order's id; an order that is nil has none.
ReverseVoucher(r) ==
  voucher' \in IF order[r] = NIL \/ voucher # "used" THEN {voucher}
               ELSE {IF outcome = "err" THEN "used" ELSE "reversed" : outcome \in RepairOutcomes}

CompensateVoucher(r) ==
  /\ ReverseVoucher(r)
  /\ \/ /\ AtComp(r, "Reverse")
        /\ IF order[r] = NIL THEN Panics(r) ELSE Compensated(r)
        /\ UNCHANGED <<doc, order>>
     \/ AtComp(r, "ReverseFail") /\ FailIfOpen(r)
  /\ UNCHANGED <<flow, trans, flag, service, outside, around>>

CancelPayment(r) ==
  /\ AtComp(r, "CancelPayment")
  /\ IF trans[r] # NIL /\ trans[r].status \notin {"FAILED", "PENDING"}
     THEN CancelTransaction(r)
     ELSE UNCHANGED <<trans, service>>
  /\ FailIfOpen(r)
  /\ UNCHANGED <<flow, flag, voucher, outside, around>>

\* The compensation reads a field of trans, which is nil.
TransIsNil(r) ==
  /\ trans[r] = NIL
  /\ Panics(r)
  /\ UNCHANGED <<trans, service, doc, order>>

ParkPending(r) ==
  /\ trans[r] # NIL
  /\ MarkPending(r)
  /\ VerifyIfNot(r)
  /\ UNCHANGED state

\* Mutant: isPendingSrvCard and isTimeOutBank are not looked at.
UndoProviderIgnoresPending(r) ==
  /\ AtComp(r, "UndoProvider")
  /\ \/ TransIsNil(r)
     \/ trans[r] # NIL /\ CancelTransaction(r) /\ FailAlways(r)
  /\ UNCHANGED <<flow, flag, voucher, outside, around>>

\* An order the provider may still carry out is parked; any other is undone,
\* with no look at what became of it since.
UndoProvider(r) ==
  /\ AtComp(r, "UndoProvider")
  /\ \/ TransIsNil(r)
     \/ flag[r] = "pending" /\ ParkPending(r)
     \/ flag[r] # "pending" /\ trans[r] # NIL /\ CancelTransaction(r) /\ FailAlways(r)
  /\ UNCHANGED <<flow, flag, voucher, outside, around>>

\* The token flows store the bank's trace id in trans before they look at
\* anything else.
AtUndoOtp(r) == AtComp(r, "UndoOtp") \/ (AtComp(r, "UndoTokenOtp") /\ trans[r] # NIL)

\* Mutant: a wrong OTP is undone like any other failure.
UndoOtpAlways(r) ==
  /\ AtUndoOtp(r)
  /\ \/ flag[r] = "verifying" /\ ParkPending(r)
     \/ flag[r] # "verifying" /\ CancelTransaction(r) /\ FailAlways(r)
  /\ UNCHANGED <<flow, flag, voucher, outside, around>>

\* Nothing is undone after a wrong OTP, nor once the transaction has moved on.
UndoOtp(r) ==
  /\ \/ AtComp(r, "UndoTokenOtp") /\ TransIsNil(r)
     \/ AtUndoOtp(r) /\ flag[r] = "verifying" /\ ParkPending(r)
     \/ /\ AtUndoOtp(r)
        /\ flag[r] = "failed" /\ trans[r].status \notin {"PENDING", "FINISH", "FAILED"}
        /\ CancelTransaction(r)
        /\ FailAlways(r)
     \/ /\ AtUndoOtp(r)
        /\ flag[r] = "failed" => trans[r].status \in {"PENDING", "FINISH", "FAILED"}
        /\ flag[r] # "verifying"
        /\ Compensated(r)
        /\ UNCHANGED <<trans, service, doc, order>>
  /\ UNCHANGED <<flow, flag, voucher, outside, around>>

\* Mutant: every flow looks whether trans is nil.
ParkNeverPanics(r) ==
  /\ AtComp(r, "Park") \/ AtComp(r, "ParkGuarded")
  /\ \/ ParkPending(r)
     \/ /\ trans[r] = NIL
        /\ VerifyIfNot(r)
        /\ UNCHANGED <<trans, service>>
  /\ UNCHANGED <<flow, flag, voucher, outside, around>>

\* FINALIZATION_PAYMENT and SUCCESS_ORDER: park what may have been paid.  Only
\* some of the flows look whether trans is nil.
Park(r) ==
  /\ \/ AtComp(r, "Park") /\ TransIsNil(r)
     \/ (AtComp(r, "Park") \/ AtComp(r, "ParkGuarded")) /\ ParkPending(r)
     \/ /\ AtComp(r, "ParkGuarded") /\ trans[r] = NIL
        /\ VerifyIfNot(r)
        /\ UNCHANGED <<trans, service>>
  /\ UNCHANGED <<flow, flag, voucher, outside, around>>

Compensate(r) ==
  \/ CompensateNone(r) \/ CompensateOrder(r) \/ CompensateVoucher(r)
  \/ CancelPayment(r) \/ UndoProvider(r) \/ UndoOtp(r) \/ Park(r)

-----------------------------------------------------------------------------
(* Around the requests: time, the expiry job, crashes.                     *)

Tick ==
  /\ flow \in Expiring
  /\ doc # NIL /\ ~ timeUp
  /\ timeUp' = TRUE
  /\ UNCHANGED <<flow, control, copies, doc, service, voucher, outside, job, crashes>>

\* Mutant: the query finds pending orders only.
JobReadPending ==
  /\ job.at = "idle"
  /\ timeUp /\ doc.status = "PENDING"
  /\ job' = [at |-> "fail", read |-> doc]
  /\ UNCHANGED <<flow, control, copies, doc, service, voucher, outside, timeUp, crashes>>

JobRead ==
  /\ job.at = "idle"
  /\ timeUp /\ doc.status \in {"PENDING", "PROCESSING"}
  /\ job' = [at |-> "fail", read |-> doc]
  /\ UNCHANGED <<flow, control, copies, doc, service, voucher, outside, timeUp, crashes>>

\* The job replaces the document by what it read, failed and expired.
JobFail(outcome) ==
  /\ job.at = "fail"
  /\ doc' = IF outcome = "err" THEN doc
            ELSE [job.read EXCEPT !.status = "FAILED", !.expired = TRUE]
  /\ job' = IF outcome = "ok" THEN [job EXCEPT !.at = "cancel"] ELSE [at |-> "idle", read |-> NIL]
  /\ UNCHANGED <<flow, control, copies, service, voucher, outside, timeUp, crashes>>

JobCancel ==
  /\ job.at = "cancel"
  /\ CancelIfInitial(job.read.tran)
  /\ job' = [at |-> "idle", read |-> NIL]
  /\ UNCHANGED <<flow, control, copies, doc, voucher, outside, timeUp, crashes>>

\* The process goes down: the copies and the saga log were in its memory.
Crash ==
  /\ crashes < MaxCrashes
  /\ crashes' = crashes + 1
  /\ phase' = [r \in Requests |-> IF Active(r) THEN "crashed" ELSE phase[r]]
  /\ job' = [at |-> "idle", read |-> NIL]
  /\ UNCHANGED <<flow, pc, failedAt, copies, doc, service, voucher, outside, timeUp>>

\* No request is under way and the job finds nothing.
Quiescent ==
  /\ \A r \in Requests : ~ Active(r)
  /\ job.at = "idle"
  /\ UNCHANGED vars

Work(r) == Execute(r) \/ Compensate(r) \/ Return(r)

Next ==
  \/ \E r \in Requests : Begin(r) \/ BeginByPass(r) \/ Work(r)
  \/ Tick
  \/ JobRead
  \/ \E outcome \in RepairOutcomes : JobFail(outcome)
  \/ JobCancel
  \/ Crash
  \/ Quiescent

Spec == Init /\ [][Next]_vars

\* A request's goroutine runs on; nobody has to send a request.  Time passes,
\* the job runs every five seconds and its write does not fail for ever.
FairSpec ==
  /\ Spec
  /\ \A r \in Requests : WF_vars(Work(r))
  /\ WF_vars(Tick)
  /\ WF_vars(JobRead)
  /\ WF_vars(\E outcome \in RepairOutcomes : JobFail(outcome))
  /\ SF_vars(JobFail("ok"))
  /\ WF_vars(JobCancel)

-----------------------------------------------------------------------------
(* What a request does is an execution of the coordinator (module          *)
(* SagaCoordinator) on the steps of its flow.  A crash ends it midway.     *)
(* The errors of compensations are only collected; no flow reads them.     *)

Executed(r) == IF failedAt[r] = 0 THEN pc[r] - 1 ELSE failedAt[r]

ExecEntry(r, k) ==
  [type |-> "SagaStepExec", step |-> k, err |-> IF k = failedAt[r] THEN "error" ELSE "nil"]

PlayPhase(r) ==
  CASE phase[r] \in {"idle", "refused"} -> "new"
    [] phase[r] \in {"done", "failed"} -> "complete"
    [] phase[r] = "panic" -> "panicked"
    [] phase[r] \in {"run", "abort", "crashed"} ->
         IF failedAt[r] = 0 THEN "running" ELSE "aborting"

\* The compensation that panicked is in the log too.
CompensatedSteps(r) ==
  IF failedAt[r] = 0 THEN 0 ELSE failedAt[r] - pc[r] + (IF phase[r] = "panic" THEN 1 ELSE 0)

SagaLog(r) ==
  IF PlayPhase(r) = "new" THEN <<>>
  ELSE <<[type |-> "StartSaga", step |-> 0, err |-> "nil"]>>
       \o [k \in 1 .. Executed(r) |-> ExecEntry(r, k)]
       \o (IF failedAt[r] = 0 THEN <<>>
           ELSE <<[type |-> "SagaAbort", step |-> failedAt[r], err |-> "nil"]>>)
       \o [k \in 1 .. CompensatedSteps(r) |->
             [type |-> "SagaStepCompensate", step |-> failedAt[r] + 1 - k, err |-> "nil"]]
       \o (IF PlayPhase(r) = "complete"
           THEN <<[type |-> "SagaComplete", step |-> 0, err |-> "nil"]>> ELSE <<>>)

ToCompensate(r) ==
  IF failedAt[r] = 0 THEN <<>> ELSE [k \in 1 .. pc[r] |-> ExecEntry(r, pc[r] + 1 - k)]

Coordinator(r) == INSTANCE SagaCoordinator WITH
  MaxSteps <- LongestFlow,
  n <- Len(Steps(r)),
  log <- SagaLog(r),
  phase <- PlayPhase(r),
  i <- IF failedAt[r] = 0 THEN pc[r] ELSE failedAt[r],
  todo <- ToCompensate(r),
  executionError <- failedAt[r],
  compensateErrors <- {}

-----------------------------------------------------------------------------
(* Properties.                                                             *)

TypeOK ==
  /\ flow \in Flows
  /\ phase \in [Requests -> {"idle", "run", "abort", "done", "failed", "refused",
                             "panic", "crashed"}]
  /\ \A r \in Requests : pc[r] \in 0 .. Len(Steps(r)) + 1 /\ failedAt[r] \in 0 .. Len(Steps(r))
  /\ order \in [Requests -> Orders \cup {NIL}]
  /\ trans \in [Requests -> Transactions \cup {NIL}]
  /\ flag \in [Requests -> {"none", "pending", "verifying", "failed", "bypass"}]
  /\ doc \in Orders \cup {NIL}
  /\ tx \in [Requests -> TransactionStatus]
  /\ state \in [Requests -> TransactionState]
  /\ voucher \in {"unused", "used", "reversed"}
  /\ provider \in [Requests -> {"idle", "delivered", "refused", "unknown"}]
  /\ bank \in [Requests -> {"idle", "delivered", "refused", "unknown"}]
  /\ timeUp \in BOOLEAN
  /\ job.at \in {"idle", "fail", "cancel", "retrieve", "confirm", "success", "refuse", "refused",
                "giveUp", "unanswered", "release"}
  /\ job.read \in Orders \cup {NIL}
  /\ crashes \in 0 .. MaxCrashes

Charged(t) == state[t] = "APPLIED"
FailedOp(r, op) == failedAt[r] # 0 /\ Steps(r)[failedAt[r]].op = op
Settled(r) == phase[r] \in {"done", "failed"}

\* An order is shown as paid only when a payment of it was applied, whatever
\* requests, job and crashes did to the document in between.
SuccessIsPaid ==
  doc # NIL /\ doc.status = "SUCCESS" => \E t \in Requests : Charged(t)

\* The goods that transaction t pays for come from a provider: so they do when every
\* request that could settle a transaction of InitPayByToken calls one.
BuysGoods(t) ==
  \/ HasOp(flow[t], "CallProvider")
  \/ /\ flow[t] \in TokenInit
     /\ \A r \in Requests \ {t} : HasOp(flow[r], "ConfirmTrans") => HasOp(flow[r], "CallProvider")

AsksBank(f) == f = "CashIn" \/ f \in TokenInit

\* The payer is charged only after the provider has delivered, and where the
\* money comes from a bank only after the bank has paid.
ChargeAfterDelivery ==
  \A t \in Requests :
    Charged(t) =>
      /\ BuysGoods(t) => \E r \in Requests : provider[r] = "delivered"
      /\ AsksBank(flow[t]) => \E r \in Requests : bank[r] = "delivered"

\* Nothing is ordered from a provider on a token before the bank has paid,
\* neither with an OTP nor past it.
GoodsAfterBankPaid ==
  \A r \in Requests :
    flow[r] \in TokenFlows /\ provider[r] # "idle" =>
      \E q \in Requests : bank[q] = "delivered"

\* One payment is made of the order, by one request or by InitPayByToken and the
\* request that goes on from it; the order has not run out meanwhile.
OnePayment ==
  /\ ~ timeUp
  /\ \A q, r \in {p \in Requests : flow[p] # "NoRequest"} :
       \/ q = r
       \/ flow[q] \in TokenInit /\ flow[r] \in TokenOtp \cup TokenByPass
       \/ flow[r] \in TokenInit /\ flow[q] \in TokenOtp \cup TokenByPass

\* A payment undisturbed by others never fails or cancels an order it was made
\* for: the parked status survives the rest of the rollback.
ChargedNeverFailed ==
  OnePayment =>
    \A r \in Requests : Charged(r) => doc.status \notin {"FAILED", "CANCEL"}

\* The transaction request r works on, which may be another request's.
Payment(r) == IF HasOp(flow[r], "InitPayment") \/ order[r] = NIL THEN r ELSE order[r].tran

\* While the provider, or the bank, may still carry the order out the amount
\* stays on hold: what the request itself has put on hold whatever other requests
\* and the expiry job do, what InitPayByToken has while they leave it alone.
UnknownKeepsHold ==
  \A r \in Requests :
    /\ flag[r] \in {"pending", "verifying"}
    /\ Payment(r) = r \/ (OnePayment /\ Payment(r) # NIL)
    => state[Payment(r)] # "RELEASED"

\* A payment that was answered "pending" or "verifying" leaves the order parked,
\* never failed: later compensations see that it is verifying.
UnknownIsParked ==
  OnePayment =>
    \A r \in Requests :
      flag[r] \in {"pending", "verifying"} /\ Settled(r) => doc.status = "VERIFYING"

\* A rollback that ran to its end has given the amount back, unless the order
\* was parked or the reply to InitTransaction never came.
HoldReleased ==
  \A r \in Requests :
    phase[r] = "failed" /\ state[r] = "INITIAL" =>
      \/ order[r].status = "VERIFYING"
      \/ trans[r] = NIL /\ (FailedOp(r, "InitPayment") \/ FailedOp(r, "FindOrInitPayment"))

\* A rollback that ran to its end leaves the order failed or parked; an order
\* that is not there was never created.  TransferGpayWallet and Lixi have no
\* compensation for an insert whose reply was lost, the token flows none that
\* closes the order, VerifyOTP none for a transaction it does not find, and
\* OrderCancel, which is no saga, none at all.
RollbackClosesOrder ==
  OnePayment =>
    \A r \in Requests :
      phase[r] = "failed" /\ flow[r] \notin TokenFlows \cup {"OrderCancel", "VerifyOTP"} /\ doc # NIL =>
        doc.status \in {"FAILED", "VERIFYING"} \/ FailedOp(r, "InitOrder")

\* The voucher of a failed order is the user's again, that of a paid one is not.
VoucherFollowsOrder ==
  OnePayment =>
    /\ \A r \in Requests :
         phase[r] = "failed" /\ doc # NIL /\ doc.status = "FAILED" => voucher # "used"
    /\ doc # NIL /\ doc.status = "SUCCESS" => voucher # "reversed"

\* LixiOrchestrator returns an error only if the user was not paid, which is what
\* JobLixi takes it for (job_lixi.go:55): a confirmation that may have been
\* carried out makes it panic instead.
LixiErrorIsUnpaid ==
  \A r \in Requests :
    flow[r] = "Lixi" /\ Settled(r) => (phase[r] = "done" <=> Charged(r))

Closed == doc # NIL /\ doc.status \notin {"PENDING", "PROCESSING"}

\* Past expired_at no request opens a closed order again.
StaysClosed == [][timeUp /\ Closed => Closed']_vars

\* Every order is closed in the end, whatever becomes of its requests.
EventuallyClosed == doc # NIL ~> []Closed

\* While the bank only ever answered "wrong OTP" the order can still be paid, by
\* another try before it runs out.
WrongOtpKeepsHold ==
  \A c \in Requests :
    /\ AsksBank(flow[c]) /\ phase[c] = "done" /\ bank[c] = "idle" /\ ~ timeUp
    /\ \A v \in Requests \ {c} :
         /\ flow[v] \in TokenOtp \cup {"VerifyOTP", "NoRequest"}
         /\ flag[v] = "none" /\ bank[v] \in {"idle", "refused"}
    => state[c] = "INITIAL" /\ doc.status = "PROCESSING" /\ doc.tran = c

\* A cancelled order is not taken up again.
CancelIsFinal == [][doc # NIL /\ doc.status = "CANCEL" => doc'.status = "CANCEL"]_vars

\* An order is paid at most once.
PaidAtMostOnce == \A s, t \in Requests : Charged(s) /\ Charged(t) => s = t

\* Every request that begins ends.
EventuallyEnds == \A r \in Requests : phase[r] # "idle" ~> Ended(r)

\* Every request implements the coordinator: \A r \in Requests : Coordinator(r)!Spec,
\* written as one initial condition and one action property.  What a request is to
\* the coordinator depends on four variables alone; a step that leaves them as they
\* are is a stutter of the request.
RefinesCoordinator ==
  /\ \A r \in Requests : Coordinator(r)!Init
  /\ [][\A r \in Requests :
         \/ UNCHANGED <<flow, phase[r], pc[r], failedAt[r]>>
         \/ [Coordinator(r)!Next]_(Coordinator(r)!vars)]_vars
=============================================================================
