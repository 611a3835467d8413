# A TLA+ model of orders-system

orders-system is the service that takes an order of the GPay wallet from "placed" to "paid": it
creates the order document, has the transaction service hold the amount, calls the provider that
delivers (cards, top-ups, bills, bank transfers), has the amount applied and marks the order paid.
Each such request is a *saga*: a list of steps with compensations, played by `utils/saga`. Around
them are payments the bank settles later, refunds, virtual accounts, two background jobs and a
message broker. This directory models these parts, checks them with TLC, and proves with TLAPS the
main safety properties of the coordinator, the payment flows, refunds, virtual accounts, the lucky
money job, the identifiers and the broker.

## The system

| part | source | state | operations |
|---|---|---|---|
| saga coordinator | `utils/saga/coordinator.go`, `saga.go` | step list, `aborted`, errors | `Play`, `execStep`, `abort`, `compensateStep` |
| saga log store | `utils/saga/memory.go`, `log.go` | one map of logs for the process | `AppendLog`, `GetStepLogsToCompensate` |
| order service, repository | `application/service_order.go`, `get_valid_order.go`, `database_mgo/order` | the order document | create, process, succeed, fail, cancel, park; find valid; find expired |
| payment flows | `application/*_orchestrator.go`, `confirm_order.go`, merchants, transfer | copies of order and transaction, flags (`isTimeOutBank`, ...) | one request each |
| cash in and OTP | `cash_in_orchestrator.go`, `verify_otp_orchestrator.go` | the same, over two requests | `CashIn`, `VerifyOTP` |
| cancel, update | `cancel_order.go`, `update_order.go` | the document | `OrderCancel`, `OrderUpdate` |
| expiry job | `job_expired_order.go`, `cmd/api/main.go` | none between passes | every 5 s: read up to ten expired orders, fail each, cancel its hold |
| clients | `service_transaction.go`, `service_promotion.go`, `bank_service` | external: transaction status and State, vouchers, deliveries | init / confirm / cancel / pending; use / reverse; call |
| payment-token flows | `*_with_token*.go` | as the wallet flows, with the bank's answer, over two requests | `InitPayByToken`, then one of five payments with the OTP or past it |
| payments settled later | `napas_init_cash_in.go`, `link_bank.go`, `pay_internaltional.go`, `processCreditPayment.go`, `deposit_napas_orchestrator.go`, `update_credit_payment_orchestrator.go`, `order_consumer.go` | the order, the hold, what the bank decided | an opening request, then answers by call or message, or the expiry job's question |
| refund | `refund_transaction.go` | order, refund record, money sent | ask, confirm, cancel |
| virtual accounts | `va.go`, `order_consumer.go`, `database_mgo/va_VCCB` | account at the bank, its row and balance | create, update, close, reopen; a balance message |
| identifiers | `order_collection.go`, `va_vccb.go` | counter documents | find and increment, or insert |
| broker | `infrastructure/rabbitmq` | queued, unacknowledged and buffered messages | register, deliver, handle, acknowledge |
| lucky money job | `job_lixi.go`, `lixi_orchestrator.go` | the campaign's totals, the job's copy of them | every 3 s: pay the users of each active campaign, store the totals |
| sagav2 | `utils/sagav2` | topics, one worker per step and compensation | `Play` over Kafka; unused so far |

How they interact: a gRPC handler runs one flow on its own goroutine. The flow's steps and
compensations are closures over `order_dto` and `trans`, the request's private copies. Every write
of the order replaces the whole document by the copy. Requests on the same order and the expiry job
share nothing but that document, the transaction service and the voucher; there is no lock and no
version. A nil dereference in a compensation unwinds `Play` and is turned into an error by the
recovery interceptor. The saga's log is in memory, so a crash loses the rollback.

What is hard: what a rollback leaves behind when the failing call did take effect; copies that are
nil because of the very failure being compensated; two requests and the job with stale copies;
an answer "pending" from the provider; crashes between two steps; closing every order in the end;
answers that are early, late, repeated or never come; messages handled twice; totals stored after
the payments they count.
`PROJECT.json` lists these hazards at their lines with the properties aimed at them.

## Modules

**SagaCoordinator** is one execution of `Play`. A step or compensation is opaque: it succeeds,
returns an error or panics. `log` is the execution's entry in the log store, `todo` the rest of
`toCompensateLogs`, `i` the loop index (1-based). Actions: `Play`, `ExecStepOK`, `ExecStepFails`
(which logs the step, reads the log back and appends the abort entry, as `execStep` and `abort` do
before the first compensation is called), `ExecStepPanics`, `CompensateStep`,
`CompensateStepPanics`, `Complete`. The number of steps `n` is fixed but arbitrary.

**OrderFlows** is data: for each orchestrator the sequence of its steps, a step being what `Func`
does, what `CompensateFunc` does, and whether `Func` stores the transaction id in the order. Two
orchestrators that differ only in the order of steps, or in whether a compensation looks for a nil
`trans` (`Park` and `ParkGuarded`), differ here. Amounts, fees, names and messages are left out.
The token flows are `InitPayByToken` on a new and on a placed order, and each of buy card, pay bill,
top up, open wallet and confirm order with an OTP and past it (`ByPass`). The `BANK_ATM` branches
inside `BuyCard` and `PayBill` are left out: the presenters send those requests to the token flows.
`PayBillZota` (`presenters/grpc.go:438`), which calls `PayBill` whatever the source of fund, is a
method of no service: no file under `proto/` declares or registers it, so no client can call it.
`NoRequest` is the flow of a request nobody makes, so that one run can hold instances of one, two and
three requests.

**PaymentSaga** runs flows on one order. Its shared state is the document `doc`, the transaction
service (`tx`: status, `state`: State), the `voucher` traced by the order's id, what each
`provider` did and what the payer's `bank` did. A request `r` has its copies `order[r]`, `trans[r]`, its `flag[r]`, and the control
state `phase[r]`, `pc[r]`, `failedAt[r]`. There is one action per kind of step (`InitOrder`,
`ProcessingOrder`, `InitPayment`, `CallProvider`, `ConfirmTrans`, `SuccessOrder`, ...) and per kind
of compensation (`CancelPayment`, `UndoProvider`, `UndoOtp`, `Park`, ...); each is the whole
closure with all its calls. A call ends "ok", "err" (no effect) or "lost" (effect, but the caller
sees an error). `JobRead`, `JobFail`, `JobCancel` are the expiry job's pass over this order with
its snapshot in `job`; `Tick` lets `expired_at` pass, in the instances named by `Expiring`; `Crash` takes the process down
(`deployment.yaml` runs one replica). Two details carry much of the behaviour:

* `order_dto, err = us.XOrder(...)` makes the copy nil on an error (`StepWrites`), while a
  compensation sets the status of the copy first and ignores the result (`CompensationWrites`), so
  a failed write there is not repeated by the compensations before it.
* `ProcessingOrderByID` on an expired order is an error with a copy that is not nil.

PaymentSaga composes SagaCoordinator and OrderFlows: its steps come from OrderFlows, and `RefinesCoordinator` says
that what each request does is an execution of SagaCoordinator, through the mapping `Coordinator(r)`
that rebuilds the saga's log from `pc` and `failedAt`. It assumes that at most one of the requests
creates the order (`OneCreator`): every `InitOrder` makes a document of its own, with its own
identifier, and the module is about one document.

A payment with a bank token takes two requests. With an OTP they are two calls of the client, the
second of which begins only after `InitPayByToken` returned, because the order id and the bank's
trace id come from its response. Past the OTP the paying request itself calls `InitPayByToken`:
here that call is a request of its own, and `BeginByPass` takes over its order, transaction and the
bank's status, or returns its error. `BankCodes`, `CashInEnds` and `VerifyOTPEnds` say which of the
gateway's codes the client in `bank_gw.go` turns into errors and which flag the flow keeps; `CashIn`
treats 102, "verifying", as a failure, `VerifyOTP` parks the order. `FailUnpaid` is the by-pass
flows' FAIL ORDER path; its calls end as `RepairOutcomes` allows, like those of a compensation.

External services are modelled from how `src/` uses them. The transaction service holds an amount
(State INITIAL), applies or releases it once, and refuses to confirm or cancel what is not on hold;
`UpdateTransaction` sets the status and leaves the State alone. ReverseWallet undoes the use of a
voucher. A provider delivers, refuses, or answers that it does not know yet.

**BankSettlement** extends PaymentSaga by payments the bank settles later. `bank[r]` of an opening
request goes from "unknown" to "delivered" or "refused" when the payer decides (`BankDecides`). An
answer is a request of its own that begins once there is something to tell (`BeginAnswer`), any
number of times; `Serial` names the answers that wait for each other, as messages of one consumer do.
`AskBank`, `CheckFraud`, `FailBankStatus`, `CheckAmount`, `SettleNapas`, `CreditStatus` are the
steps that are new, `ReplaceOrder` is `OrderUpdate`. `CashInNapasEnds`, `LinkEnds` and
`CreditPaymentEnds` say which codes the gateway's client reports as errors; `CashInNapas` lets a
refusal "5xx" through. `JobReadNapas` to `JobWrites` are the job's branch for NAPAS orders, one
action per remote call. The job takes it by the order's type and bank code
(`job_expired_order.go:18`), and both come from the opening request (`napas_init_cash_in.go:36-50`):
the constant `NapasCoded` says in which runs it asked for a cash in by the code of NAPAS, and an
order of another type or code is failed like any other (`OtherJob`). When the job asks the bank, it
leaves the order alone while the bank is verifying, and when the order has no transaction: a
`NapasInitLink` or `NapasInitCashIn` that dies between asking the bank and storing the transaction
leaves an order the job never closes unless its question fails. When the question itself fails, the
job fails the order it read before and then tries to cancel its transaction ("unanswered" in
`JobRetrieve`), whatever has happened meanwhile.

**ExpiryQueue** is the job over many orders that are open or closed: a pass takes any `Limit` of
the expired ones. **LixiJob** is a campaign: a pass copies the document (`mem`), pays one phone
after the other, and stores the copy at the end; a panic kills the job until the process restarts.
What a payment of it can end in is `LixiErrorIsUnpaid`, checked where its saga is modelled.
`payments` is a history variable, the number of payments made, as `total` in VirtualAccounts is the
sum of the amounts credited; the code keeps neither, and the properties compare with them.

**Refund** has one call that asks for a refund and calls that confirm or cancel it, each a sequence
of remote calls with the places between them in `at`. `sent` counts what the bank paid, `acted` who
decided.

**Broker** is a topic with the consumers `WithConsumerTopic` registers: `unacked` is what the broker
thinks, `buffer` and `current` what the consumer does, and they differ after a lost connection.
**VirtualAccounts** is built on it: the requests on one account as a sequence of calls to the bank
and the database, and `UpdateBalanceVA` as the consumers' handler, whose actions are Broker's with
the account's state added. `account` is the provider and the type the create asks for; the account
may also be there from the start. The row holds the type an account has now: an update at MSB sets it
(`Updated`), a payment is followed by the close of the row if it read ONCE (`IncrementBalance`), and a
reopen costs a fee if it read MANY (`AfterUpdate`).

**IdCounter** is `incrementID` for orders (a document per day, under a unique index) and
`IncrementID` for MSB account numbers (`AccountKey`: one document, no index), and how numbers become
strings. **UniqueIds** is what the callers rely on for orders.

**SagaPromise** is what the caller of a saga is promised. SagaCoordinator and **SagaV2** both
implement it (`PromiseKept`): the steps that ran are the first so many, one more is added while
nothing has failed, what is undone is the last so many of them, and the verdict fits both. SagaV2 has one worker per step and compensation, waiting on a topic
each, and timers that may fire at any wait.

**MCPaymentSaga**, **MCBankSettlement**, **MCVirtualAccounts** and **MCIdCounter** name the requests
and prefixes the configurations let meet, and the symmetries. The theorems about a module are in the
module of that name with **Proofs** added: SagaCoordinatorProofs, PaymentSagaProofs, RefundProofs,
BankSettlementProofs, VirtualAccountsProofs, LixiJobProofs, IdCounterProofs and SagaV2Proofs; those
about Broker are with the virtual accounts, which its queue feeds.

Definitions commented "Mutant" are variants with a plausible bug; each property is known to fail
for one of them.

## Runs

| run | cfg | question |
|---|---|---|
| coordinator | `SagaCoordinator.cfg` | any saga of up to 5 steps, with failures and panics anywhere |
| requests | `MCRequests.cfg` | each wallet flow alone; a cash in or a token payment with its OTPs; two requests and the job on a placed order; every call of a step failing with or without effect |
| expiry | `MCExpiry.cfg` | any flow or token payment against the job and a crash, compensations failing too |
| settlement | `MCBankSettlement.cfg` | a NAPAS, card or international payment, two answers or an answer and `OrderUpdate`, the job and a crash |
| virtual_accounts | `MCVirtualAccounts.cfg` | an account of either bank, new or old, three requests and payments in all, failing calls and a fault |
| identifiers | `MCIdCounter.cfg` | four requests for numbers of orders, over midnight, and of MSB accounts |
| refund | `Refund.cfg` | a refund, two confirmations, a cancellation, failing calls and a crash |
| lucky_money | `LixiJob.cfg` | every campaign for three users, started twice, with everything that fails |
| expiry_queue | `ExpiryQueue.cfg` | four orders and a query for two |
| saga_v2 | `SagaV2.cfg` | sagas of up to three steps, with everything that fails |
| confirm_twice | `MCConfirmTwice.cfg` | violation: an order is paid twice |
| cancel_confirm | `MCCancelConfirm.cfg` | violation: a cancelled order is paid |

*coordinator* shows that the log mirrors around the abort entry (`CompensationMirrorsExecution`),
that a returned error means everything that ran was compensated even when compensations failed
(`AbortCompensatesAll`), that nothing runs after an abort (`NoStepAfterAbort`), and that all this
amounts to the abstract promise (`PromiseKept`).

*requests* asks what requests leave behind. A paid order is never failed by the request that paid it
(`ChargedNeverFailed`); after "pending" from provider or bank the hold stays and the order is parked
(`UnknownKeepsHold`, `UnknownIsParked`); a rollback that ends has released the hold except when the
reply to `InitTransaction` was lost (`HoldReleased`), and has closed the order, except for an INIT_ORDER
whose own reply was lost and for the flows that have no compensation for it (`RollbackClosesOrder`: the
token flows, OrderCancel, a VerifyOTP that finds no transaction); the voucher goes with the order
(`VoucherFollowsOrder`). Rollbacks do panic: after a failed `FINALIZATION_PAYMENT` most flows park
nothing, and after a failed `SUCCESS_ORDER` all of them leave the order PROCESSING, because the error
has made a copy nil. Such a rollback has not ended, and the properties above say so.
`LixiErrorIsUnpaid` is what the lucky money job builds on: an error means that the user was not paid.
Any sequence of wrong OTPs leaves the order payable (`WrongOtpKeepsHold`). With a token, goods are
ordered only after the bank has paid (`GoodsAfterBankPaid`), and every flow applies the hold only
after delivery (`ChargeAfterDelivery`). SUCCESS in the document always has a charge behind it, whoever
races (`SuccessIsPaid`). `RefinesCoordinator` says that each request is an execution of
SagaCoordinator.

What does *not* hold and is not claimed: that a paid order stays SUCCESS, since the job, or a second
request's rollback, may overwrite the status from a stale copy; and that a token payment which fails
before it reaches the bank closes its order. Nothing in the repository promises either. Some
properties are about an order with a single payment (`OnePayment`): with two, the one that fails does
undo what belongs to the other. Compensations are reliable in this run because the properties are
about the rollback's logic; with a failing `CancelTransaction` a hold of course remains.

*expiry* adds what no request can repair. Every order is closed for good in the end
(`EventuallyClosed`), also after crashes, panics and failing compensations, because
`ProcessingOrderByID` refuses expired orders (`StaysClosed`) and the job's query finds both open
statuses; every request ends (`EventuallyEnds`), and `SuccessIsPaid` holds through all of it. That
includes the orders token payments leave open.

*settlement* lets answers race with the opening request, with each other and with the job. Only what
the bank paid is charged (`ChargedIsBankPaid`). Money the bank paid is given back only if the opening
request failed, the order expired, or an answer failed before it tried to charge
(`ReleasedForAReason`). A paid NAPAS order does not stay paid whatever happens, and
`UnpaidForAReason` lists what can take its status back. The job does so in two cases: its question to
the bank failed, or type and bank code kept it from asking. In both it writes FAILED over the order
from what it read before, although an answer has charged the payer and written SUCCESS since;
nothing repairs this, and the transaction stays applied. An answer does so that names another
amount: it parks the order and confirms it all the same. And so does the rollback of an opening
request. Nothing else does: no pass of the job that was answered, and no answer that comes late or
twice. A message that is
redelivered delivers goods twice only if the first handler panicked or died
(`GoodsTwiceNeedsPanic`); handlers of the same message that run at the same time are excluded there
(`Serial`), and Broker says when that happens.

*virtual_accounts*: no amount is lost, whatever meets (`BalanceIsCredits`); one message is credited
more than once only after a fault (`CreditedPerDelivery`), and two handlers of one message run at
once only after a lost connection (`OverlapNeedsCut`); a refused create leaves no row
(`NoOrphanRow`); a request that succeeds makes bank and row agree again (`LatestWins`). The last is
said for requests that do not overlap (`AtOnce = 1`); when they do, the row may follow one and the
bank the other. It has one exception, which is what the code does: a payment counted while the
account was ONCE closes the row, and since the handler acts on what it read
(`order_consumer.go:65-66`) it does so even after an update to MANY and a reopen have both finished.
Then the bank has the account open, the row says CLOSE and the type is MANY, with no requests that
overlap. The exception (`EverOnce`) covers the accounts that have been ONCE; on any other nothing
but the request itself changes the status. A panic or a lost connection removes a consumer for good, and with the last one gone
messages stay in the queue: that everything is handled is not claimed.

*identifiers*: orders get unique numbers, with lost replies and over midnight (`IssuesUniqueIds`).
Without the index an MSB number is shared by as many accounts as documents were inserted
(`SharedByDocuments`). Different numbers give different strings, for accounts while they fit their
width (`IdentifiersApart`).

*refund*: the order is shown as refunded only if the refund is confirmed (`SuccessIsConfirmed`), and a
refund by the bank is confirmed only if the bank has paid (`ConfirmedIsSent`). That record, order
and bank all agree (`RecordsAgree`) holds only when one call decides and nothing fails: two
confirmations can send the money twice, and a cancellation can overtake one.

*lucky_money*: a user gets money once, and once more for every failed read nobody notices
(`PaidOncePerUser`); budget and places are kept up to one more time for every pass that was cut off
or not stored (`BudgetKept`).

*expiry_queue*: `DrainedUnlessFull`. Orders the job cannot close use up places of its query; while
there are fewer of them than places, every other order is closed, whichever the query picks, and
with as many of them as places possibly none.

*saga_v2*: the promise of the first coordinator is kept (`PromiseKept`), with time-outs and errors of
Kafka counting as no answer.

The two violation runs are findings. `errors/error.go` has an error for an order that is already
paid and one for an order that is cancelled. `GetValidOrder` reads the status once, before the saga,
and the write that follows does not compare it, so two concurrent `ConfirmOrder` both charge
(*confirm_twice*). And `GetValidOrder` lets a cancelled order through, the error for it being
returned nowhere (*cancel_confirm*). No race is needed for the second: the run's specification
`OneByOne` has one request under way at a time, `OrderCancel` has returned, and a `ConfirmOrder` sent
after that takes the order up. With CANCEL among the statuses `GetValidOrder` refuses, the property
holds there.

### Bounds

`MaxSteps = 5`: the coordinator treats all steps alike, and the theorems cover every length. One
request is enough for properties of a rollback; two requests and the job on a placed order are the
smallest race, and a third would only repeat a role; an OTP has three requests because two tries at
one transaction are what can disagree; a token payment is two. `Expiring` names the instances of a
run whose orders may expire: in *requests* the races on a placed order, in *settlement* those with
NAPAS and card answers, in *expiry* all. `MaxCrashes = 1`: a crash ends every running request, and
requests may begin after it. One order is enough since no code path of these flows touches two.

A payment settled later has one opening request and two answers, the smallest number that can
disagree; of the NAPAS payments, which differ in when the order gets its transaction, a link that
expires has one, and so have a card payment that expires and an order of another type or bank code
(`MCOtherCode`). The calls of
*settlement* that go forward, the job's question among them, may fail or lose their reply
(`StepOutcomes`), the repairs succeed. The token payments of *expiry* are those the client's screens lead to, while
*requests* has every OTP request after either way to begin. `MaxEvents = 3` bounds requests and
payments of a virtual account together, at most two of each: two requests and a payment on a new
account or on an old one, where a payment, an update and a reopen are what it takes to act on a stale
type, or a request and two payments. An old account is what a create that succeeded leaves behind. `MCAccounts` has an account of MSB that begins as MANY and one of VCCB, which
stays ONCE; the theorems cover the other two. Every request brings a consumer of its own, so up to
three of them compete. One fault is enough for a redelivery that meets the first handler.
`expiry_queue` has twice as many orders as places, so that the query can pick wrong. `LixiJob` has
budgets from nothing to what all users get, and two passes that are forgotten, one before and one
after a payment that counts. Identifiers are written in base 2, so that numbers outgrow their width.
`MaxForgets`, `MaxBlind`, `MaxFaults` and `MaxFails` appear in the properties or are passed in the
runs.

Requests, payments and callers that are interchangeable are symmetric in *settlement*,
*virtual_accounts* and *identifiers*, whose properties are all safety properties.

### Fairness

`PaymentSaga!FairSpec` (run *expiry*) has weak fairness per running request: every call a step makes
returns sooner or later, the bank's HTTP client giving up after 3 minutes and 5 seconds. There is
none of `Begin`, since no client must send anything. Time passes and the job goes on, whose loop runs
every five seconds; and a job write that is tried for ever succeeds in the end (strong fairness):
MongoDB does not refuse the same write for ever. `ExpiryQueue!FairSpec` is weak fairness of the job's
loop, and assumes nothing about the order in which MongoDB returns documents. No other run needs
fairness.

## Proofs

TLC looks at the instances above; the theorems hold for every value of the constants that the
assumptions below allow. Each proof has the same plan: an inductive invariant, which TLC checked
first, then one lemma per action that it is kept, then the properties read off it.

| module | theorem | property | holds for |
|---|---|---|---|
| SagaCoordinatorProofs | `Shape`, `TypeCorrect`, `SuccessComplete` | `IInv`, `TypeOK`, `SuccessRanEveryStep` | any number of steps |
| | `MirrorCorrect` | `CompensationMirrorsExecution` | |
| | `AbortComplete` | `AbortCompensatesAll` | |
| | `AbortIsFinal` | `NoStepAfterAbort` (action) | |
| | `PromiseHolds` | `PromiseKept` (refinement) | |
| SagaV2Proofs | `V2Invariant` | | any number of steps, errors that have a text |
| | `V2KeepsPromise` | `PromiseKept` (refinement) | |
| PaymentSagaProofs | `PaymentInvariant`, `PaymentTypeCorrect` | `PayInv`, `TypeOK` | any requests, on any of the 43 flows, any outcomes and number of crashes |
| | `SuccessWasCharged` | `SuccessIsPaid` | |
| | `BankPaysFirst` | `GoodsAfterBankPaid` | |
| | `ExpiredStaysClosed` | `StaysClosed` (action) | |
| | `RequestsAreExecutions` | `RefinesCoordinator` (refinement) | |
| | `RollbackInvariant` | | |
| | `PaidOrdersStand` | `ChargedNeverFailed` | |
| | `LixiFailsUnpaid` | `LixiErrorIsUnpaid` | |
| | `UnknownStaysOnHold` | `UnknownKeepsHold` | |
| | `WrongOtpsKeepHold` | `WrongOtpKeepsHold` | |
| | `ChargesFollowDelivery` | `ChargeAfterDelivery` | |
| | `RepairInvariant` | | |
| | `UnknownGetsParked` | `UnknownIsParked` | as above, if no call of a compensation fails without an effect |
| | `VouchersFollow` | `VoucherFollowsOrder` | the same |
| | `RollbacksRelease` | `HoldReleased` | the same, and no request is of a flow settled later |
| | `RollbacksClose` | `RollbackClosesOrder` | the same |
| BankSettlementProofs | `SettlementInvariant` | | one opening request, any number of answers and updates, any flows settled later, any outcomes and crashes |
| | `OnlyPaidIsCharged` | `ChargedIsBankPaid` | |
| | `GivenBackForAReason` | `ReleasedForAReason` | |
| | `GoodsTwiceOnlyBroken` | `GoodsTwiceNeedsPanic` | as above, if no compensation fails without an effect and queued messages (`Serial`) meet on card payments only (`CardFlows`) |
| | `UnpaidOnlyForAReason` | `UnpaidForAReason` (action) | as `OnlyPaidIsCharged`, if a NAPAS order is answered by `CashInNAPAS` only (`NapasOnly`) |
| RefundProofs | `RefundInvariant` | | any calls that decide, any number of crashes |
| | `ShownIsConfirmed` | `SuccessIsConfirmed` | |
| | `ConfirmedWasSent` | `ConfirmedIsSent` | |
| | `RefundRecordsAgree` | `RecordsAgree` | |
| VirtualAccountsProofs | `AccountInvariant` | | any requests, payments, amounts and finitely many consumers |
| | `NoAmountLost` | `BalanceIsCredits` | |
| | `CreditedOncePerDelivery` | `CreditedPerDelivery` | |
| | `RefusedCreateTakenBack` | `NoOrphanRow` | |
| | `LatestRequestWins` | `LatestWins` | |
| | `BalanceOverlapNeedsCut` | `OverlapNeedsCut` | |
| | `BrokerDeliversToOne`, `AckedAfterHandling`, `RedeliveriesAreFaults`, `NothingDropped` | | any messages, consumers and faults |
| | `OverlapOnlyAfterCut` | `OverlapNeedsCut` | |
| LixiJobProofs | `PaidOnce` | `PaidOncePerUser` | any users, budget and number of passes |
| | `BudgetIsKept` | `BudgetKept` | |
| IdCounterProofs | `CounterTypeCorrect`, `OrdersNumberedApart` | `NumbersDistinct` | any days, prefixes and finitely many callers |
| | `CountersIssueUniqueIds` | `IssuesUniqueIds` (refinement) | |
| | `NumberedPerDocument` | `SharedByDocuments` | |

**The coordinator.** `IInv` describes the log completely by `n`, `i`, `phase` and `Len(todo)`: a start
entry, the executed steps in order, and after a failure at step k an abort entry at position k + 2
followed by compensations that count down from k; `todo` is the executed entries not yet compensated,
last first. The mirror property is not inductive by itself: that the next compensation is at the right
distance from the abort entry follows only from `todo` being the right suffix, and that `todo` starts
out right needs the whole shape of the log. The central lemmas are about `GetStepLogsToCompensate`: on
a log of that shape it returns the executed entries in reverse. The other theorems read the log
through the same shape: the execution at place p has its compensation at 2i + 4 - p; after success
there is nothing but the start entry, executions without an error and the last entry
(`PrefixEntry`); and a log with an abort entry is not one of a running saga, so whatever is appended
is no execution (`AppendOther`). For `PromiseHolds` the sets of the promise are computed from the
shape: `ran` is an interval from 1, `undone` one that ends where `ran` does. The only assumption is
`MaxSteps \in Nat`.

**Saga v2.** The first coordinator sees the whole log; here a worker sees one message, so `V2Inv` says
what each message tells of the rest (`Tells`): one to execute, that the step before has succeeded; one
to compensate, that a step has failed and all that ran after this one are undone (`IsNext`); the last
one, that all succeeded or that the first step was compensated. A worker takes one message only
(`WorksOnce`), which is why a step that is late, or whose message was lost, cannot run after the
compensations have begun (`NoneRuns`), and why Play, which knows nothing but the last message, is
right. The theorem needs that no error of a step has an empty text, `NoText \notin ErrorTexts`: Play
takes such an error for a success, which is the code's behaviour and not the promise. Timers may go off
at any time, and any message may be lost.

**The payment flows.** Seven layers, the last four of them below. `SoundFlow` says what the order of
the steps of a flow guarantees: an order or a transaction is looked up or made before it is used, a
transaction is opened once, the bank asked once, no SUCCESS_ORDER comes before a confirmation, and
with a token no provider before the bank's answer. `FlowsSound` proves it for each flow of
OrderFlows, one case per flow; it is the only place where the flows' contents matter. `PayInv` ties
that to the state: a request that goes on and has passed such a step has its copy of the order
(`HasOrder`) or of the transaction (`HasTrans`), somebody is charged (`Confirmed`), the bank has
paid (`PaidByBank`); a request that has not yet passed them has opened nothing and asked nobody; and
nobody has a copy of an order that is not stored (`Creation`). `SuccessIsPaid` needs this because
the document may be overwritten from any copy: that no copy, and no snapshot of the job, ever brings
SUCCESS back without a charge is an argument over all requests at once. `Sound(r)`, finally, is what
one step of request r may do to the state; every step and every compensation is shown to do no more
(`...IsSound`), and `SoundKeeps` shows once that this keeps `PayInv`. Beginning, returning, time,
the job and crashes have lemmas of their own. The assumptions are that flows and outcomes are from
the known sets, `OneCreator`, and that `NIL` is no request, order or transaction.

`RequestsAreExecutions` rests on the same invariant, of which it needs `Control`: the log that
`Coordinator(r)` rebuilds is cut into parts (`LogOf`), each step is shown to add the entry that the
coordinator would add, and what `GetStepLogsToCompensate` finds in it is what the request goes on to
compensate (`FoundAtFailure`). So what is proved of the coordinator is proved of the requests.

**What a rollback leaves.** A compensation may overwrite the order from a copy and release whatever
transaction its order names, so what a payment keeps depends on who else could hold a copy of it.
`RollInv` has six parts, on top of `PayInv`. `LoneInv`: where there is one payment, nobody runs beside
it but an `InitPayByToken` that has returned (`Alone`). `RestInv`: a rollback that starts at a
settlement step parks the order or panics before it reaches a compensation that would fail the order,
and one whose step ended unknown has parked it or has no transaction to cancel. `OwnInv`: a flow that
makes its own order and transaction is the only one to name them, so nobody else's compensation finds
them, with or without `OnePayment`. `LixiInv`, `PayerInv` and `HoldInv` are the three properties with
what makes them inductive: a lucky money payment is charged exactly after its `CONFIRM_TRANS`; behind
a charge there is one payer who has not been undone (`Pays`); and nothing is released while no request
has failed, or while one has ended unknown. `RollbackStep` and `OwnStep`, parts of `SoundFlow`, say
what this needs of a flow's compensations. The theorems allow compensations that fail and any number of crashes, more than
the runs do.

`RepairInv` is the other half: what a rollback does undo, when its own calls succeed. A compensation
that gets an error goes on to the next one, so without `"err" \notin RepairOutcomes` the four properties
are false, of the code as of the model; calls whose reply is lost, requests that meet and crashes are
all allowed, more than in *requests*. Every part says that as long as something is to be undone
the compensation that undoes it is still ahead (`Until`), which `RepairStep`, again a part of
`SoundFlow`, gives at the step that fails. `CopyInv`: a rollback works with a copy of the order that is
still open until it has closed it itself, since the compensations look at their copy and not at the
document; with `RestInv` the first one after an unknown answer parks the order and the later ones
see that (`ParkedInv`). `HeldInv`: an amount on hold is the request's own, known by its transaction,
and `CancelPayment` is ahead. `ShutInv`: the order is closed or a `Closers` compensation is ahead.
`VoucherInv`: who used the voucher has its compensation ahead; a voucher that is given back was given
back by a rollback; and behind SUCCESS there is a payer with nothing left to do, or one whose last step
failed and whose rollback panics for want of the order, so that the voucher of a paid order stays used
whatever fails. Flows settled later are left out of two theorems: some of them compensate nothing
(`ProcessCreditPayment`), the answers work on a hold that another request opened, and *settlement* asks
its own questions about them (`ReleasedForAReason`).

**The OTP and the charge.** Two invariants on top of `PayInv` and `RollInv`, without assumptions of
their own. A wrong OTP leaves the payment waiting for the next one, and what keeps it is that nobody
else fails in a step whose compensation would undo it. `WaitInv` says what the request that asks the
bank has left behind at each of its places (`Placed`: the amount on hold, the order processing with
the transaction in it) as long as every other request is one that brings an OTP and none was right
(`Waits`); `TryInv`, that whoever is past the OTP was paid for, so that none of them has got to a
step with something to undo. Neither a failure nor a crash in the middle changes that, and the
theorem covers both. `ChargeInv` is about where a charge comes from: `ConfirmTransaction` takes the
identifier from the request's copy of the transaction, which in a flow that opens one is its own
(`OwnsTrans`), and whoever gets that far has had the goods delivered (`Called`) or, where the money
comes from a bank, has seen the bank pay (`Confirmed` of `PayInv`). A request that finds somebody
else's transaction is therefore the difficult case: the token flows and ConfirmOrder, which charge
the payment of an `InitPayByToken` or of an opened order. `SettleFlow` says which steps of a flow
come before the charge, and `FlowsSettle` proves it for each flow. `BuysGoods` asks for a provider
only where the payer's own flow calls one.

**Settlement by the bank.** `ChargedIsBankPaid` looks simple, but the answers do not carry their
evidence with them: a bank status message charges in its last step but one, by when all it has is that
`FailBankStatus` let it pass; a card answer charges if its flag says "bypass"; the job if it reads so
from the place it is at. `LaterInv` says what each of these knows of the bank: who is past
`FailBankStatus` or has the flag has seen it paid (`PassedIsPaid`), an answer begins after the
decision (`AnswersTell`), and the job after its call (`JobKnows`); the bank decides once, and is asked
once (`AskedOnce`), so what they know stays true. For `ReleasedForAReason` the argument is the other
way round, from a compensation to the step that failed: a message that failed where it charges the
payer, or after, would give the money back in the rollback of an earlier step, but has lost its copy of
transaction or order by then, and the compensation of the same step panics (`WhyUndone`); one that
failed before it found the transaction has none to give back (`NoTransYet`). `Acts(r)` is to
`LaterInv` what `Sound(r)` is to `PayInv`, and `LaterFlow` what `SoundFlow` is. `PayInv` itself cannot be
used: its `OneCreator` is not what the job and `ReplaceOrder` keep. The assumption
`SettledAssumption` is that all requests are of flows settled later, with at most one that opens a
payment: the answers and the job's question to the bank do not say which opening they are about.

The other two properties are about the order, which every request overwrites from a copy of its own.
`CopiesInv` says when there is a copy at all (`CopyKept`), and that a NAPAS opening knows its own
transaction (`OpenerKnows`); `ActsOnCopy(r)` is what a step may do to it. None of this holds beside
an `OrderUpdate`, which may set any status, so it is proved of the payments without one.

For `GoodsTwiceNeedsPanic`, `GoodsInv` follows a bank status message from the delivery to its end:
goods delivered mean that the order is closed (VERIFYING, SUCCESS or FAILED) by the time the message
is through, or that its rollback is about to close it, or has panicked (`ShutAfter`, with one case
per place of `ClosedAfter`); two such messages are never under way together, for they wait in the
queue (`OneAtATime`); so the second one, which looks at the order first, is past its look only if
the first one broke (`InTurn`). That the rollback closes the order is where it needs `"err" \notin
RepairOutcomes`: with a failed write the order stays open and the redelivered message buys again.
`CardFlows` says that where two queued messages meet, there is neither a NAPAS opening nor an
`OrderUpdate`; it is so for every flow of *settlement*.

For `UnpaidForAReason`, `NapasInv` says who can reach the order of a NAPAS opening. Until the opening
has stored its transaction in it, no answer and no snapshot of the job names the transaction, and
nobody is charged (`Untouched`): a charge therefore comes after the last time the opening writes the
order. After that the order is written by an answer, which writes SUCCESS once the bank has paid
unless the amount is off, and by the job. A pass that got an answer fails the order only if the bank
has refused (`JobRefused`) or was never asked (`GivenUp`); but the opening asks the bank before it
stores the order (`AskedFirst`), and a bank that has paid has not refused. The generic pass fails no
order whose type and code make the job ask (`NoOtherJob`). All exceptions in the property are real,
and dropping any of the job's makes *settlement* fail. Calls that fail, of the job and of the
compensations too, are allowed without bound. The theorem assumes `NapasOnly` (an order opened through NAPAS is
answered by `CashInNAPAS` alone), which is so in *settlement*. Neither theorem bounds the number of
answers, duplicates and crashes.

**Refund.** The invariant says for each place in a call what the call has done before: who is past the
bank's answer has sent the money, who is past the confirmation has the record confirmed. Order,
record and bank are written in that order, so each property follows from the place before. For
`RecordsAgree` it also tells which calls can be under way when one call alone decides.

**Virtual accounts.** Balance and `total` agree up to the amount that a handler has read and not yet
written; that a redelivered message is credited once per delivery needs Broker's invariant, since a
second handler exists only after a fault. `LatestWins` follows from where the one running request is,
and from what a handler that is about to close the row knows: there was a payment, and the account was
ONCE when the handler read it (`RowForOnce`).
The finite set of consumers is needed for the sum over them.

**The lucky money job.** What the pass has in memory differs from the document by the payments since it
was read, and a pass that is cut off or not stored is counted by `forgets`; `payments` exceeds the
totals by at most one pass for each of them. The bound multiplies a variable by a constant, so the
arithmetic is done in lemmas of its own.

**Identifiers.** A day has one document (the index), it has counted at least as far as any number
handed out, and a request has no number before its last call: without the second, an increment could
hand out a number that is taken. For accounts, whose collection has no index, the requests that share
a number map one to one to documents (`SharedByDocuments`), which needs finitely many callers.

**The broker.** `BrokerInv` relates the two views of a message: a consumer that is up buffers and
handles only what the broker counts as its own, and a message that is queued again has a fault behind
every delivery.

### Only model-checked

* Liveness: `EventuallyClosed`, `EventuallyEnds`, `DrainedUnlessFull`. Fairness and ENABLED are out of
  the prover's reach.
* `IdentifiersApart`: that different numbers have different digits is an induction over a recursive
  function.

## Not modelled, and the plan

Every safety property of the passing runs is proved but `IdentifiersApart`. Left to prove: what
becomes of `GoodsTwiceNeedsPanic` when a compensation's own write fails, which is a statement about
what the next message repairs.

Checked nowhere, although the modules could say it: that a NAPAS order is closed in the end. The job
asks the bank and leaves the order alone while the bank is verifying, so it holds only if the bank
decides, and not after a crash in the place described with BankSettlement.

Not modelled, and why:

* the gRPC presenters copy fields and choose the flow; linking a bank other than through NAPAS,
  inquiries, lists and the payment gateway's calls pass one request on and keep no state;
* notifications (MQTT, Telegram, Firebase) and logging: nothing reads their results;
* amounts, fees, discounts and quotas, except the budget of a campaign and the balance of an account;
* the worker pool (`utils/gpooling`): `Submit` passes the task to the vendored ants pool. The tasks of
  jobs and consumers never end and so occupy workers for good; the tasks of requests are notifications;
* the map of the saga log store: executions have their own ids, and two writes at once end the
  process, which is PaymentSaga's `Crash`;
* `utils/gen_ids`, which is initialised and never called, and the fraud service's HTTP client;
* the clients and messages generated from `proto/` (three fifths of the repository's Go code outside
  `vendor/`), the mocks generated from the interfaces, and vendored code.
