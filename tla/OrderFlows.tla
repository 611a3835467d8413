---------------------------- MODULE OrderFlows ----------------------------
(***************************************************************************)
(* The steps each orchestrator of application/ registers with AddStep, in  *)
(* the order it registers them.  A step is what its Func does (op), what   *)
(* its CompensateFunc does (comp) and whether Func stores trans's id in    *)
(* the order's TransactionID (link).  The operations and compensations     *)
(* themselves are the actions of module PaymentSaga.                       *)
(*                                                                         *)
(* op    FindOrder, FindTransaction, Check, InitOrder, ProcessingOrder,    *)
(*       AccountVoucher, InitPayment, CallProvider, SkipProvider,          *)
(*       VendorFee, CashInRequest, VerifyOtp, ConfirmTrans, SuccessOrder,  *)
(*       ConfirmIfBypass, SuccessIfBypass, CancelOrder, CancelInitial,     *)
(*       FindOrInitPayment, CashInBankGW, FailUnpaid; of module            *)
(*       BankSettlement ReplaceOrder, ProcessingKept, CheckFraud, AskBank, *)
(*       FailBankStatus, CheckAmount, SettleNapas, CreditStatus            *)
(* comp  None, FailOpen, CancelOpen, Reverse, ReverseFail, CancelPayment,  *)
(*       UndoProvider, UndoCashIn, UndoOtp, UndoTokenOtp, Park,            *)
(*       ParkGuarded, ParkOrder                                            *)
(***************************************************************************)
EXTENDS Integers, Sequences

Step(op, comp) == [op |-> op, comp |-> comp, link |-> FALSE]
Linking(op, comp) == [op |-> op, comp |-> comp, link |-> TRUE]

\* The first two steps of almost every wallet flow.
OpenOrder ==
  <<Step("InitOrder", "FailOpen"), Step("ProcessingOrder", "FailOpen")>>

-----------------------------------------------------------------------------
(* Flows that create their order and settle it in one request.             *)

BuyCardOpening ==
  OpenOrder \o <<Step("AccountVoucher", "ReverseFail"),
                 Step("InitPayment", "CancelPayment")>>

BuyCardSettlement ==
  <<Step("CallProvider", "UndoProvider"), Step("VendorFee", "None"),
    Step("ConfirmTrans", "Park"), Linking("SuccessOrder", "Park")>>

TopUpOpening ==
  OpenOrder \o <<Step("AccountVoucher", "ReverseFail"),
                 Step("InitPayment", "CancelPayment")>>

TopUpSettlement ==
  <<Step("CallProvider", "UndoProvider"), Step("ConfirmTrans", "ParkGuarded"),
    Step("SuccessOrder", "Park")>>

PayBillOpening ==
  <<Step("Check", "None")>> \o OpenOrder
    \o <<Step("AccountVoucher", "ReverseFail"), Step("InitPayment", "CancelPayment")>>

PayBillSettlement ==
  <<Step("CallProvider", "UndoProvider"), Step("ConfirmTrans", "Park"),
    Step("SuccessOrder", "Park")>>

CashOutOpening ==
  <<Step("Check", "None")>> \o OpenOrder \o <<Linking("InitPayment", "CancelPayment")>>

CashOutSettlement ==
  <<Step("CallProvider", "UndoProvider"), Step("ConfirmTrans", "Park"),
    Step("SuccessOrder", "Park")>>

IBFTransferOpening ==
  OpenOrder \o <<Step("AccountVoucher", "ReverseFail"),
                 Step("InitPayment", "CancelPayment")>>

IBFTransferSettlement ==
  <<Step("CallProvider", "UndoProvider"), Step("ConfirmTrans", "Park"),
    Step("SuccessOrder", "Park")>>

FundWal2BankOpening == OpenOrder \o <<Linking("InitPayment", "CancelPayment")>>

FundWal2BankSettlement ==
  <<Step("CallProvider", "UndoProvider"), Step("ConfirmTrans", "Park"),
    Step("SuccessOrder", "Park")>>

FundWal2WalOpening ==
  OpenOrder \o <<Step("AccountVoucher", "ReverseFail"),
                 Linking("InitPayment", "CancelPayment")>>

FundWal2WalSettlement ==
  <<Step("ConfirmTrans", "Park"), Step("SuccessOrder", "Park")>>

StaticQROpening ==
  OpenOrder \o <<Step("AccountVoucher", "ReverseFail"),
                 Step("InitPayment", "CancelPayment")>>

StaticQRSettlement ==
  <<Step("ConfirmTrans", "ParkGuarded"), Step("SuccessOrder", "Park")>>

WithdrawMerchant ==
  OpenOrder \o <<Step("InitPayment", "CancelPayment"),
                 Step("ConfirmTrans", "ParkGuarded"), Step("SuccessOrder", "Park")>>

DepositMerchant ==
  OpenOrder \o <<Step("InitPayment", "CancelPayment"),
                 Step("ConfirmTrans", "ParkGuarded"), Step("SuccessOrder", "Park")>>

TransferGpayWallet ==
  <<Step("InitOrder", "None"), Step("ProcessingOrder", "FailOpen"),
    Linking("InitPayment", "CancelPayment"),
    Step("ConfirmTrans", "Park"), Step("SuccessOrder", "ParkOrder")>>

LixiOrchestrator ==
  <<Step("InitOrder", "None"), Step("ProcessingOrder", "FailOpen"),
    Step("InitPayment", "CancelPayment"),
    Step("ConfirmTrans", "Park"), Step("SuccessOrder", "Park")>>

-----------------------------------------------------------------------------
(* Cash in: the first request asks the bank, and settles only when the     *)
(* bank does not want an OTP; the second brings the OTP.                   *)

CashInOpening ==
  <<Step("Check", "None"), Step("InitOrder", "FailOpen"),
    Linking("InitPayment", "CancelPayment"), Step("ProcessingOrder", "CancelOpen")>>

CashInSettlement ==
  <<Step("CashInRequest", "UndoCashIn"),
    Step("ConfirmIfBypass", "Park"), Step("SuccessIfBypass", "Park")>>

VerifyOTPOpening ==
  <<Step("FindOrder", "None"), Step("FindTransaction", "None"),
    Step("VerifyOtp", "UndoOtp")>>

VerifyOTPSettlement ==
  <<Step("ConfirmTrans", "Park"), Linking("SuccessOrder", "Park")>>

-----------------------------------------------------------------------------
(* Requests on an order that InitOrderAndTrans placed earlier.  They call  *)
(* GetValidOrder before anything else.                                     *)

ConfirmOrderOpening ==
  <<Step("ProcessingOrder", "FailOpen"), Step("AccountVoucher", "Reverse"),
    Step("InitPayment", "CancelPayment")>>

ConfirmOrderSettlement ==
  <<Linking("ConfirmTrans", "ParkGuarded"), Step("SuccessOrder", "Park")>>

\* "OPEN WALLET" calls the bank only for OPENWAL_TRANSFERTOBANK orders; its
\* compensation is registered for all of them.
OpenWalletCall == Step("CallProvider", "UndoProvider")
OpenWalletSkip == Step("SkipProvider", "UndoProvider")

\* OrderCancel is not a saga: CancelOrder fails the request, the rest cannot.
OrderCancel == <<Step("CancelOrder", "None"), Step("CancelInitial", "None")>>

-----------------------------------------------------------------------------
(* Payments with a bank token.  InitPayByToken opens the order and the     *)
(* transaction and asks the bank.  If the bank wants an OTP, the client    *)
(* sends it with a second request (Otp); if not, one request calls         *)
(* InitPayByToken itself and then plays a saga of its own (ByPass).        *)

\* LinkInfo, and the checks of the ByPass callers, come before the order.
InitPayByToken ==
  <<Step("Check", "None"), Step("InitOrder", "None"),
    Linking("FindOrInitPayment", "None"), Step("CashInBankGW", "CancelPayment"),
    Step("ProcessingOrder", "None")>>

\* The same with an OrderId: the order was placed by InitOrderAndTrans.
InitPayByTokenPlaced ==
  <<Step("Check", "None"), Step("FindOrder", "None"),
    Linking("FindOrInitPayment", "None"), Step("CashInBankGW", "CancelPayment"),
    Step("ProcessingOrder", "None")>>

OtpOpening ==
  <<Step("FindOrder", "None"), Step("FindTransaction", "None"),
    Step("AccountVoucher", "Reverse"), Step("VerifyOtp", "UndoTokenOtp")>>

ByPassOpening == <<Step("FailUnpaid", "None"), Step("AccountVoucher", "Reverse")>>

Finalization == <<Step("ConfirmTrans", "Park"), Step("SuccessOrder", "Park")>>

BuyCardOtpOpening == OtpOpening
BuyCardByPassOpening == ByPassOpening
BuyCardTokenSettlement ==
  <<Step("CallProvider", "UndoProvider"), Step("VendorFee", "None")>> \o Finalization

TopUpOtpOpening == OtpOpening
TopUpByPassOpening == ByPassOpening
TopUpTokenSettlement ==
  <<Step("CallProvider", "UndoProvider"), Step("VendorFee", "None")>> \o Finalization

PaidBillOtpOpening == OtpOpening
PaidBillByPassOpening == ByPassOpening
PaidBillTokenSettlement == <<Step("CallProvider", "UndoProvider")>> \o Finalization

StaticQROtpOpening == OtpOpening
StaticQRByPassOpening == ByPassOpening
StaticQRTokenSettlement == Finalization

ConfirmOrderOtpOpening == OtpOpening
ConfirmOrderByPassOpening == ByPassOpening
ConfirmOrderTokenSettlement == Finalization

-----------------------------------------------------------------------------
(* Payments the bank settles later.  An opening request sends the payer to *)
(* the bank; an answer brings what became of it, by a message of the topic *)
(* (UpdateBankStatus) or by a call of the bank gateway.                    *)

NapasInitCashIn ==
  <<Step("InitOrder", "None"), Linking("InitPayment", "None"),
    Step("AskBank", "CancelPayment"), Step("ProcessingKept", "None")>>

\* The transaction is stored in the order only after the bank was asked.
NapasInitLink ==
  <<Step("InitOrder", "None"), Step("InitPayment", "None"),
    Linking("AskBank", "CancelPayment"), Linking("ProcessingKept", "None")>>

PayInternationalOpening(first) ==
  <<Step("Check", "None"), Step(first, "None"),
    Linking("FindOrInitPayment", "CancelPayment")>>

PayInternational(first) ==
  PayInternationalOpening(first)
    \o <<Step("ProcessingOrder", "None"), Step("AskBank", "None")>>

\* None of its steps is compensated.
ProcessCreditPayment ==
  <<Step("Check", "None"), Step("FindOrder", "None"), Linking("FindOrInitPayment", "None"),
    Step("ProcessingOrder", "None"), Step("CheckFraud", "None"), Step("AskBank", "None")>>

CashInNAPAS ==
  <<Step("FindOrder", "None"), Step("FindTransaction", "None"),
    Step("CheckAmount", "None"), Step("SettleNapas", "None")>>

\* The last two steps are registered only if the bank has paid.
UpdateCreditPayment ==
  <<Step("FindOrder", "None"), Step("FindTransaction", "None"), Step("CreditStatus", "None"),
    Step("ConfirmIfBypass", "ParkGuarded"), Step("SuccessIfBypass", "Park")>>

\* BuyCard, TOP_UP and PAID_BILL each act on orders of their own kind, but are
\* compensated for all.  The vendor's fee cannot fail here.
BankStatusOpening ==
  <<Step("FindOrder", "None"), Step("FindTransaction", "CancelPayment"),
    Step("FailBankStatus", "None"), Step("AccountVoucher", "Reverse")>>

BankStatusBuyCard(card) == <<Step(card, "UndoProvider"), Step("SkipProvider", "None")>>

BankStatusTopUpBill(topup, bill) ==
  <<Step(topup, "UndoProvider"), Step(bill, "UndoProvider")>>

BankStatusSettlement == <<Step("ConfirmTrans", "Park"), Step("SuccessOrder", "Park")>>

UpdateBankStatus(card, topup, bill) ==
  BankStatusOpening \o BankStatusBuyCard(card) \o BankStatusTopUpBill(topup, bill)
    \o BankStatusSettlement

\* The payment into a virtual account is applied at once.
UpdateBalanceVA ==
  OpenOrder \o <<Step("InitPayment", "CancelPayment"), Step("ConfirmTrans", "Park"),
                 Linking("SuccessOrder", "Park")>>

\* OrderUpdate is not a saga.
OrderUpdate == <<Step("ReplaceOrder", "None")>>

\* NoRequest stands for a request that nobody makes.

Flow ==
  [ BuyCard            |-> BuyCardOpening \o BuyCardSettlement,
    TopUp              |-> TopUpOpening \o TopUpSettlement,
    PayBill            |-> PayBillOpening \o PayBillSettlement,
    CashOut            |-> CashOutOpening \o CashOutSettlement,
    IBFTransfer        |-> IBFTransferOpening \o IBFTransferSettlement,
    FundWal2Bank       |-> FundWal2BankOpening \o FundWal2BankSettlement,
    FundWal2Wal        |-> FundWal2WalOpening \o FundWal2WalSettlement,
    StaticQR           |-> StaticQROpening \o StaticQRSettlement,
    WithdrawMerchant   |-> WithdrawMerchant,
    DepositMerchant    |-> DepositMerchant,
    TransferGpayWallet |-> TransferGpayWallet,
    Lixi               |-> LixiOrchestrator,
    CashIn             |-> CashInOpening \o CashInSettlement,
    VerifyOTP          |-> VerifyOTPOpening \o VerifyOTPSettlement,
    ConfirmOrder       |-> ConfirmOrderOpening \o <<OpenWalletSkip>> \o ConfirmOrderSettlement,
    ConfirmOpenWallet  |-> ConfirmOrderOpening \o <<OpenWalletCall>> \o ConfirmOrderSettlement,
    OrderCancel        |-> OrderCancel,
    InitPayByToken       |-> InitPayByToken,
    InitPayByTokenPlaced |-> InitPayByTokenPlaced,
    BuyCardOtp         |-> BuyCardOtpOpening \o BuyCardTokenSettlement,
    BuyCardByPass      |-> BuyCardByPassOpening \o BuyCardTokenSettlement,
    TopUpOtp           |-> TopUpOtpOpening \o TopUpTokenSettlement,
    TopUpByPass        |-> TopUpByPassOpening \o TopUpTokenSettlement,
    PaidBillOtp        |-> PaidBillOtpOpening \o PaidBillTokenSettlement,
    PaidBillByPass     |-> PaidBillByPassOpening \o PaidBillTokenSettlement,
    StaticQROtp        |-> StaticQROtpOpening \o StaticQRTokenSettlement,
    StaticQRByPass     |-> StaticQRByPassOpening \o StaticQRTokenSettlement,
    ConfirmOrderOtp    |-> ConfirmOrderOtpOpening \o ConfirmOrderTokenSettlement,
    ConfirmOrderByPass |-> ConfirmOrderByPassOpening \o ConfirmOrderTokenSettlement,
    NapasInitCashIn    |-> NapasInitCashIn,
    NapasInitLink      |-> NapasInitLink,
    PayInternational   |-> PayInternational("InitOrder"),
    PayInternationalPlaced |-> PayInternational("FindOrder"),
    ProcessCreditPayment |-> ProcessCreditPayment,
    CashInNAPAS        |-> CashInNAPAS,
    UpdateCreditPayment |-> UpdateCreditPayment,
    BankStatusCard     |-> UpdateBankStatus("CallProvider", "SkipProvider", "SkipProvider"),
    BankStatusTopUp    |-> UpdateBankStatus("SkipProvider", "CallProvider", "SkipProvider"),
    BankStatusBill     |-> UpdateBankStatus("SkipProvider", "SkipProvider", "CallProvider"),
    BankStatusOther    |-> UpdateBankStatus("SkipProvider", "SkipProvider", "SkipProvider"),
    UpdateBalanceVA    |-> UpdateBalanceVA,
    OrderUpdate        |-> OrderUpdate,
    NoRequest          |-> <<>> ]

FlowNames == DOMAIN Flow

LongestFlow ==
  CHOOSE k \in {Len(Flow[f]) : f \in FlowNames} : \A f \in FlowNames : Len(Flow[f]) <= k

\* The requests that look the order up before they register any step.
Validated == {"ConfirmOrder", "ConfirmOpenWallet", "OrderCancel", "OrderUpdate"}

\* The requests whose provider is the payee's bank.
BankTransfers == {"CashOut", "IBFTransfer", "FundWal2Bank", "ConfirmOpenWallet"}

TokenInit == {"InitPayByToken", "InitPayByTokenPlaced"}
TokenOtp == {"BuyCardOtp", "TopUpOtp", "PaidBillOtp", "StaticQROtp", "ConfirmOrderOtp"}
TokenByPass ==
  {"BuyCardByPass", "TopUpByPass", "PaidBillByPass", "StaticQRByPass", "ConfirmOrderByPass"}
TokenFlows == TokenInit \cup TokenOtp \cup TokenByPass

LaterOpenings ==
  {"NapasInitCashIn", "NapasInitLink", "PayInternational", "PayInternationalPlaced",
   "ProcessCreditPayment"}
BankStatuses == {"BankStatusCard", "BankStatusTopUp", "BankStatusBill", "BankStatusOther"}
AnswerFlows == {"CashInNAPAS", "UpdateCreditPayment"} \cup BankStatuses
LaterFlows == LaterOpenings \cup AnswerFlows \cup {"OrderUpdate"}

HasOp(f, op) == \E k \in DOMAIN Flow[f] : Flow[f][k].op = op
=============================================================================
