------------------------- MODULE PaymentSagaProofs -------------------------
(***************************************************************************)
(* Proofs about the payment requests of module PaymentSaga, for every set  *)
(* of requests and every assignment of flows to them.                      *)
(*                                                                         *)
(* The argument has seven layers.  SoundFlow says what the order of the     *)
(* steps of a flow guarantees (no SUCCESS_ORDER before a confirmation, no  *)
(* provider before the bank's answer on a token, ...); every flow of       *)
(* OrderFlows is sound.  PayInv ties that to the state: a request that has *)
(* passed a step has what the step leaves behind.  Sound(r) is what one    *)
(* step of request r may do to the state; each step of a flow and each     *)
(* compensation is shown to do no more, and that is enough for PayInv.     *)
(*                                                                         *)
(* RollInv is about what a roll-back must not undo: a payment is           *)
(* the only request that touches its order and its transaction, a failed   *)
(* settlement is parked or panics, and no other compensation takes back    *)
(* what a charge has settled.                                              *)
(*                                                                         *)
(* RepairInv is about what it does undo when its own calls succeed: as     *)
(* long as an amount is on hold, the order open or the voucher used, the   *)
(* compensation that puts it right is still ahead (Until), or there is a   *)
(* reason why none must.                                                   *)
(*                                                                         *)
(* WaitInv is about a payment that waits for its OTP: while every OTP was  *)
(* wrong nothing is rolled back.  ChargeInv is about what a charge comes   *)
(* after: the transaction that ConfirmTransaction finds is that of the     *)
(* payment whose goods were delivered.                                     *)
(***************************************************************************)
EXTENDS PaymentSaga, FiniteSetTheorems, TLAPS

-----------------------------------------------------------------------------
(* What the steps of a flow come after.                                    *)

OrderOps == {"InitOrder", "FindOrder"}
OpeningOps == {"InitPayment", "FindOrInitPayment"}
TransOps == {"InitPayment", "FindOrInitPayment", "FindTransaction"}
BankOps == {"CashInRequest", "CashInBankGW", "VerifyOtp"}
PaidOps == {"VerifyOtp", "FailUnpaid"}

\* The requests that start with a copy of the order, and the steps that need
\* one of the order, or of the transaction.
KnowsOrder == Validated \cup TokenByPass
NeedsOrder ==
  {"ProcessingOrder", "SuccessOrder", "SuccessIfBypass", "ConfirmTrans", "ConfirmIfBypass",
   "CancelOrder", "CancelInitial", "FindTransaction", "FindOrInitPayment", "InitPayment",
   "FailUnpaid"}
NeedsTrans ==
  {"ConfirmTrans", "ConfirmIfBypass", "SuccessOrder", "SuccessIfBypass", "FailUnpaid", "VerifyOtp"}

Earlier(s, k, ops) == \E j \in 1 .. k - 1 : s[j].op \in ops
Once(s, ops) == \A j, k \in 1 .. Len(s) : s[j].op \in ops /\ s[k].op \in ops => j = k

SoundStep(f, s, k) ==
  /\ s[k].op \in NeedsOrder => f \in KnowsOrder \/ Earlier(s, k, OrderOps)
  /\ s[k].op \in NeedsTrans => f \in TokenByPass \/ Earlier(s, k, TransOps)
  /\ s[k].op = "SuccessOrder" => Earlier(s, k, {"ConfirmTrans"})
  /\ s[k].op = "SuccessIfBypass" => Earlier(s, k, {"ConfirmIfBypass"})
  /\ s[k].op \in BankOps \cup {"CallProvider"} => ~ Earlier(s, k, {"ConfirmIfBypass"})
  /\ s[k].op = "CallProvider" /\ f \in TokenFlows => Earlier(s, k, PaidOps)
  /\ s[k].comp = "UndoOtp" => s[k].op = "VerifyOtp"

\* The steps that settle a payment, and those that ask somebody who may still
\* carry it out.  A payment of its own is opened and carried out by one request.
ConfirmOps == {"ConfirmTrans", "ConfirmIfBypass"}
FinalOps == ConfirmOps \cup {"SuccessOrder", "SuccessIfBypass"}
AskOps == {"CallProvider", "VerifyOtp"}
OwnFlows ==
  {"BuyCard", "TopUp", "PayBill", "CashOut", "IBFTransfer", "FundWal2Bank", "ConfirmOpenWallet"}

\* What a rollback relies on.
RollbackStep(f, s, k) ==
  /\ s[k].op \in FinalOps => s[k].comp \in {"Park", "ParkGuarded", "ParkOrder"}
  /\ s[k].op \notin FinalOps => ~ Earlier(s, k, FinalOps)
  /\ s[k].comp = "UndoCashIn" => f = "CashIn"
  /\ s[k].op \in FinalOps /\ f \in {"CashIn", "Lixi"} => s[k].comp = "Park"
  /\ s[k].op \in ConfirmOps => f \notin TokenInit \cup {"NoRequest", "OrderCancel"}
  /\ s[k].op \in {"CancelOrder", "CancelInitial"} => f = "OrderCancel"
  /\ s[k].op = "CallProvider" => s[k].comp = "UndoProvider"
  /\ s[k].op = "VerifyOtp" => s[k].comp \in {"UndoOtp", "UndoTokenOtp"}
  /\ s[k].comp = "UndoProvider" => ~ \E j \in k .. Len(s) : s[j].op = "VerifyOtp"
  /\ s[k].op \in AskOps =>
       /\ f \notin TokenInit \cup {"OrderCancel", "CashIn"}
       /\ f \in OwnFlows \/ ~ Earlier(s, Len(s) + 1, OpeningOps)

\* Lixi's transaction is its own, and so is that of a payment in OwnFlows.
OwnStep(f, s, k) ==
  /\ f = "Lixi" => ~ s[k].link /\ s[k].op # "ConfirmIfBypass"
  /\ f \in OwnFlows \cup {"Lixi"} =>
       s[k].op \notin {"FindTransaction", "FindOrInitPayment", "FailUnpaid"}
  /\ f \in OwnFlows =>
       /\ s[k].comp # "CancelOpen"
       /\ s[k].link => s[k].op \in FinalOps \cup {"InitPayment"}
       /\ s[k].op \in {"InitOrder", "ProcessingOrder"} => ~ Earlier(s, k, OpeningOps)

\* What compensations that succeed rely on.  A flow not in Unclosed makes its
\* order, or looked it up before its first step, and closes it when it fails.
ParkComps == {"Park", "ParkGuarded", "ParkOrder"}
VoucherComps == {"Reverse", "ReverseFail"}
Closers == {"FailOpen", "ReverseFail", "CancelPayment"}
SuccessOps == {"SuccessOrder", "SuccessIfBypass"}
Unclosed == TokenFlows \cup LaterFlows \cup {"OrderCancel", "VerifyOTP"}

Until(s, k, comps) == \E j \in 1 .. k : s[j].comp \in comps

RepairStep(f, s, k) ==
  /\ s[k].comp \in ParkComps => s[k].op \in FinalOps
  /\ f \notin LaterFlows /\ Earlier(s, k, OpeningOps) =>
       s[k].op # "FindTransaction" /\ Until(s, k, {"CancelPayment"})
  /\ f \notin Unclosed /\ (f \in Validated \/ Earlier(s, k, {"InitOrder"})) =>
       s[k].op = "InitOrder" \/ Until(s, k, Closers)
  /\ s[k].op = "AccountVoucher" => s[k].comp \in VoucherComps
  /\ s[k].comp \in VoucherComps => f \notin TokenInit
  /\ s[k].op \in SuccessOps => k = Len(s) /\ f \notin TokenInit
  /\ s[k].op = "FailUnpaid" => f \in TokenByPass

SoundFlow(f, s) ==
  /\ Len(s) \in 0 .. 10 /\ DOMAIN s = 1 .. Len(s)
  /\ \A k \in 1 .. Len(s) :
       SoundStep(f, s, k) /\ RollbackStep(f, s, k) /\ OwnStep(f, s, k) /\ RepairStep(f, s, k)
  /\ Once(s, OpeningOps) /\ Once(s, {"InitOrder"}) /\ Once(s, BankOps)
  /\ f \in TokenInit => Earlier(s, Len(s) + 1, OrderOps) /\ Earlier(s, Len(s) + 1, TransOps)
  /\ f = "Lixi" => Earlier(s, Len(s) + 1, {"ConfirmTrans"})
  /\ f \notin Unclosed \cup Validated \cup {"NoRequest"} => Earlier(s, Len(s) + 1, {"InitOrder"})

\* The flows one by one.
LEMMA FlowTable ==
  /\ Flow["BuyCard"] = BuyCardOpening \o BuyCardSettlement
  /\ Flow["TopUp"] = TopUpOpening \o TopUpSettlement
  /\ Flow["PayBill"] = PayBillOpening \o PayBillSettlement
  /\ Flow["CashOut"] = CashOutOpening \o CashOutSettlement
  /\ Flow["IBFTransfer"] = IBFTransferOpening \o IBFTransferSettlement
  /\ Flow["FundWal2Bank"] = FundWal2BankOpening \o FundWal2BankSettlement
  /\ Flow["FundWal2Wal"] = FundWal2WalOpening \o FundWal2WalSettlement
  /\ Flow["StaticQR"] = StaticQROpening \o StaticQRSettlement
  /\ Flow["WithdrawMerchant"] = WithdrawMerchant
  /\ Flow["DepositMerchant"] = DepositMerchant
  /\ Flow["TransferGpayWallet"] = TransferGpayWallet
  /\ Flow["Lixi"] = LixiOrchestrator
  /\ Flow["CashIn"] = CashInOpening \o CashInSettlement
  /\ Flow["VerifyOTP"] = VerifyOTPOpening \o VerifyOTPSettlement
  /\ Flow["ConfirmOrder"] = ConfirmOrderOpening \o <<OpenWalletSkip>> \o ConfirmOrderSettlement
  /\ Flow["ConfirmOpenWallet"] = ConfirmOrderOpening \o <<OpenWalletCall>> \o ConfirmOrderSettlement
  /\ Flow["OrderCancel"] = OrderCancel
  /\ Flow["InitPayByToken"] = InitPayByToken
  /\ Flow["InitPayByTokenPlaced"] = InitPayByTokenPlaced
  /\ Flow["BuyCardOtp"] = BuyCardOtpOpening \o BuyCardTokenSettlement
  /\ Flow["BuyCardByPass"] = BuyCardByPassOpening \o BuyCardTokenSettlement
  /\ Flow["TopUpOtp"] = TopUpOtpOpening \o TopUpTokenSettlement
  /\ Flow["TopUpByPass"] = TopUpByPassOpening \o TopUpTokenSettlement
  /\ Flow["PaidBillOtp"] = PaidBillOtpOpening \o PaidBillTokenSettlement
  /\ Flow["PaidBillByPass"] = PaidBillByPassOpening \o PaidBillTokenSettlement
  /\ Flow["StaticQROtp"] = StaticQROtpOpening \o StaticQRTokenSettlement
  /\ Flow["StaticQRByPass"] = StaticQRByPassOpening \o StaticQRTokenSettlement
  /\ Flow["ConfirmOrderOtp"] = ConfirmOrderOtpOpening \o ConfirmOrderTokenSettlement
  /\ Flow["ConfirmOrderByPass"] = ConfirmOrderByPassOpening \o ConfirmOrderTokenSettlement
  /\ Flow["NapasInitCashIn"] = NapasInitCashIn
  /\ Flow["NapasInitLink"] = NapasInitLink
  /\ Flow["PayInternational"] = PayInternational("InitOrder")
  /\ Flow["PayInternationalPlaced"] = PayInternational("FindOrder")
  /\ Flow["ProcessCreditPayment"] = ProcessCreditPayment
  /\ Flow["CashInNAPAS"] = CashInNAPAS
  /\ Flow["UpdateCreditPayment"] = UpdateCreditPayment
  /\ Flow["BankStatusCard"] = UpdateBankStatus("CallProvider", "SkipProvider", "SkipProvider")
  /\ Flow["BankStatusTopUp"] = UpdateBankStatus("SkipProvider", "CallProvider", "SkipProvider")
  /\ Flow["BankStatusBill"] = UpdateBankStatus("SkipProvider", "SkipProvider", "CallProvider")
  /\ Flow["BankStatusOther"] = UpdateBankStatus("SkipProvider", "SkipProvider", "SkipProvider")
  /\ Flow["UpdateBalanceVA"] = UpdateBalanceVA
  /\ Flow["OrderUpdate"] = OrderUpdate
  /\ Flow["NoRequest"] = <<>>
BY ZenonT(120) DEF Flow

\* There are no other flows.
LEMMA FlowNamesAre ==
  FlowNames =
    {"BuyCard", "TopUp", "PayBill", "CashOut", "IBFTransfer", "FundWal2Bank", "FundWal2Wal",
     "StaticQR", "WithdrawMerchant", "DepositMerchant", "TransferGpayWallet", "Lixi", "CashIn",
     "VerifyOTP", "ConfirmOrder", "ConfirmOpenWallet", "OrderCancel", "InitPayByToken",
     "InitPayByTokenPlaced", "BuyCardOtp", "BuyCardByPass", "TopUpOtp", "TopUpByPass",
     "PaidBillOtp", "PaidBillByPass", "StaticQROtp", "StaticQRByPass", "ConfirmOrderOtp",
     "ConfirmOrderByPass", "NapasInitCashIn", "NapasInitLink", "PayInternational",
     "PayInternationalPlaced", "ProcessCreditPayment", "CashInNAPAS", "UpdateCreditPayment",
     "BankStatusCard", "BankStatusTopUp", "BankStatusBill", "BankStatusOther",
     "UpdateBalanceVA", "OrderUpdate", "NoRequest"}
BY ZenonT(60) DEF FlowNames, Flow

\* Every orchestrator registers its steps in a sound order.
LEMMA FlowsSound == \A f \in FlowNames : SoundFlow(f, Flow[f])
<1> USE DEF SoundStep, RollbackStep, OwnStep, RepairStep, ParkComps, VoucherComps, Closers,
            SuccessOps, Unclosed, Until, LaterFlows, LaterOpenings, AnswerFlows, BankStatuses,
            ConfirmOps, FinalOps, AskOps, OwnFlows,
            OrderOps, OpeningOps, TransOps, BankOps, PaidOps, KnowsOrder, NeedsOrder,
            NeedsTrans, Earlier, Once, Validated, TokenByPass, TokenFlows, TokenInit, TokenOtp,
            Step, Linking, OpenOrder
<1>1. SoundFlow("BuyCard", BuyCardOpening \o BuyCardSettlement)
  BY SMTT(60) DEF SoundFlow, BuyCardOpening, BuyCardSettlement
<1>2. SoundFlow("TopUp", TopUpOpening \o TopUpSettlement)
  BY SMTT(60) DEF SoundFlow, TopUpOpening, TopUpSettlement
<1>3. SoundFlow("PayBill", PayBillOpening \o PayBillSettlement)
  BY SMTT(60) DEF SoundFlow, PayBillOpening, PayBillSettlement
<1>4. SoundFlow("CashOut", CashOutOpening \o CashOutSettlement)
  BY SMTT(60) DEF SoundFlow, CashOutOpening, CashOutSettlement
<1>5. SoundFlow("IBFTransfer", IBFTransferOpening \o IBFTransferSettlement)
  BY SMTT(60) DEF SoundFlow, IBFTransferOpening, IBFTransferSettlement
<1>6. SoundFlow("FundWal2Bank", FundWal2BankOpening \o FundWal2BankSettlement)
  BY SMTT(60) DEF SoundFlow, FundWal2BankOpening, FundWal2BankSettlement
<1>7. SoundFlow("FundWal2Wal", FundWal2WalOpening \o FundWal2WalSettlement)
  BY SMTT(60) DEF SoundFlow, FundWal2WalOpening, FundWal2WalSettlement
<1>8. SoundFlow("StaticQR", StaticQROpening \o StaticQRSettlement)
  BY SMTT(60) DEF SoundFlow, StaticQROpening, StaticQRSettlement
<1>9. SoundFlow("WithdrawMerchant", WithdrawMerchant)
  BY SMTT(60) DEF SoundFlow, WithdrawMerchant
<1>10. SoundFlow("DepositMerchant", DepositMerchant)
  BY SMTT(60) DEF SoundFlow, DepositMerchant
<1>11. SoundFlow("TransferGpayWallet", TransferGpayWallet)
  BY SMTT(60) DEF SoundFlow, TransferGpayWallet
<1>12. SoundFlow("Lixi", LixiOrchestrator)
  BY SMTT(60) DEF SoundFlow, LixiOrchestrator
<1>13. SoundFlow("CashIn", CashInOpening \o CashInSettlement)
  BY SMTT(60) DEF SoundFlow, CashInOpening, CashInSettlement
<1>14. SoundFlow("VerifyOTP", VerifyOTPOpening \o VerifyOTPSettlement)
  BY SMTT(60) DEF SoundFlow, VerifyOTPOpening, VerifyOTPSettlement
<1>15. SoundFlow("ConfirmOrder",
      ConfirmOrderOpening \o <<OpenWalletSkip>> \o ConfirmOrderSettlement)
  BY SMTT(60) DEF SoundFlow, ConfirmOrderOpening, OpenWalletSkip, ConfirmOrderSettlement
<1>16. SoundFlow("ConfirmOpenWallet",
      ConfirmOrderOpening \o <<OpenWalletCall>> \o ConfirmOrderSettlement)
  BY SMTT(60) DEF SoundFlow, ConfirmOrderOpening, OpenWalletCall, ConfirmOrderSettlement
<1>17. SoundFlow("OrderCancel", OrderCancel)
  BY SMTT(60) DEF SoundFlow, OrderCancel
<1>18. SoundFlow("InitPayByToken", InitPayByToken)
  BY SMTT(60) DEF SoundFlow, InitPayByToken
<1>19. SoundFlow("InitPayByTokenPlaced", InitPayByTokenPlaced)
  BY SMTT(60) DEF SoundFlow, InitPayByTokenPlaced
<1>20. SoundFlow("BuyCardOtp", BuyCardOtpOpening \o BuyCardTokenSettlement)
  BY SMTT(60) DEF SoundFlow, BuyCardOtpOpening, OtpOpening, BuyCardTokenSettlement, Finalization
<1>21. SoundFlow("BuyCardByPass", BuyCardByPassOpening \o BuyCardTokenSettlement)
  BY SMTT(60) DEF SoundFlow, BuyCardByPassOpening, ByPassOpening, BuyCardTokenSettlement,
     Finalization
<1>22. SoundFlow("TopUpOtp", TopUpOtpOpening \o TopUpTokenSettlement)
  BY SMTT(60) DEF SoundFlow, TopUpOtpOpening, OtpOpening, TopUpTokenSettlement, Finalization
<1>23. SoundFlow("TopUpByPass", TopUpByPassOpening \o TopUpTokenSettlement)
  BY SMTT(60) DEF SoundFlow, TopUpByPassOpening, ByPassOpening, TopUpTokenSettlement, Finalization
<1>24. SoundFlow("PaidBillOtp", PaidBillOtpOpening \o PaidBillTokenSettlement)
  BY SMTT(60) DEF SoundFlow, PaidBillOtpOpening, OtpOpening, PaidBillTokenSettlement, Finalization
<1>25. SoundFlow("PaidBillByPass", PaidBillByPassOpening \o PaidBillTokenSettlement)
  BY SMTT(60) DEF SoundFlow, PaidBillByPassOpening, ByPassOpening, PaidBillTokenSettlement,
     Finalization
<1>26. SoundFlow("StaticQROtp", StaticQROtpOpening \o StaticQRTokenSettlement)
  BY SMTT(60) DEF SoundFlow, StaticQROtpOpening, OtpOpening, StaticQRTokenSettlement, Finalization
<1>27. SoundFlow("StaticQRByPass", StaticQRByPassOpening \o StaticQRTokenSettlement)
  BY SMTT(60) DEF SoundFlow, StaticQRByPassOpening, ByPassOpening, StaticQRTokenSettlement,
     Finalization
<1>28. SoundFlow("ConfirmOrderOtp", ConfirmOrderOtpOpening \o ConfirmOrderTokenSettlement)
  BY SMTT(60) DEF SoundFlow, ConfirmOrderOtpOpening, OtpOpening, ConfirmOrderTokenSettlement,
     Finalization
<1>29. SoundFlow("ConfirmOrderByPass", ConfirmOrderByPassOpening \o ConfirmOrderTokenSettlement)
  BY SMTT(60) DEF SoundFlow, ConfirmOrderByPassOpening, ByPassOpening,
     ConfirmOrderTokenSettlement, Finalization
<1>30. SoundFlow("NapasInitCashIn", NapasInitCashIn)
  BY SMTT(60) DEF SoundFlow, NapasInitCashIn
<1>31. SoundFlow("NapasInitLink", NapasInitLink)
  BY SMTT(60) DEF SoundFlow, NapasInitLink
<1>32. SoundFlow("PayInternational", PayInternational("InitOrder"))
  BY SMTT(60) DEF SoundFlow, PayInternational, PayInternationalOpening
<1>33. SoundFlow("PayInternationalPlaced", PayInternational("FindOrder"))
  BY SMTT(60) DEF SoundFlow, PayInternational, PayInternationalOpening
<1>34. SoundFlow("ProcessCreditPayment", ProcessCreditPayment)
  BY SMTT(60) DEF SoundFlow, ProcessCreditPayment
<1>35. SoundFlow("CashInNAPAS", CashInNAPAS)
  BY SMTT(60) DEF SoundFlow, CashInNAPAS
<1>36. SoundFlow("UpdateCreditPayment", UpdateCreditPayment)
  BY SMTT(60) DEF SoundFlow, UpdateCreditPayment
<1>37. SoundFlow("BankStatusCard",
      UpdateBankStatus("CallProvider", "SkipProvider", "SkipProvider"))
  BY SMTT(60) DEF SoundFlow, UpdateBankStatus, BankStatusOpening, BankStatusBuyCard,
     BankStatusTopUpBill, BankStatusSettlement
<1>38. SoundFlow("BankStatusTopUp",
      UpdateBankStatus("SkipProvider", "CallProvider", "SkipProvider"))
  BY SMTT(60) DEF SoundFlow, UpdateBankStatus, BankStatusOpening, BankStatusBuyCard,
     BankStatusTopUpBill, BankStatusSettlement
<1>39. SoundFlow("BankStatusBill",
      UpdateBankStatus("SkipProvider", "SkipProvider", "CallProvider"))
  BY SMTT(60) DEF SoundFlow, UpdateBankStatus, BankStatusOpening, BankStatusBuyCard,
     BankStatusTopUpBill, BankStatusSettlement
<1>40. SoundFlow("BankStatusOther",
      UpdateBankStatus("SkipProvider", "SkipProvider", "SkipProvider"))
  BY SMTT(60) DEF SoundFlow, UpdateBankStatus, BankStatusOpening, BankStatusBuyCard,
     BankStatusTopUpBill, BankStatusSettlement
<1>41. SoundFlow("UpdateBalanceVA", UpdateBalanceVA)
  BY SMTT(60) DEF SoundFlow, UpdateBalanceVA
<1>42. SoundFlow("OrderUpdate", OrderUpdate)
  BY SMTT(60) DEF SoundFlow, OrderUpdate
<1>43. SoundFlow("NoRequest", <<>>)
  BY SMTT(60) DEF SoundFlow
<1> HIDE DEF SoundStep, RollbackStep, OwnStep, RepairStep, ParkComps, VoucherComps, Closers,
             SuccessOps, Unclosed, Until, LaterFlows, LaterOpenings, AnswerFlows, BankStatuses,
            ConfirmOps, FinalOps, AskOps, OwnFlows,
             OrderOps, OpeningOps, TransOps, BankOps, PaidOps, KnowsOrder, NeedsOrder,
             NeedsTrans, Earlier, Once, Validated, TokenByPass, TokenFlows, TokenInit, TokenOtp,
             Step, Linking, OpenOrder
<1>44. SUFFICES ASSUME NEW f \in FlowNames PROVE SoundFlow(f, Flow[f])
  OBVIOUS
<1>45. QED
  BY <1>1, <1>2, <1>3, <1>4, <1>5, <1>6, <1>7, <1>8, <1>9, <1>10, <1>11, <1>12, <1>13, <1>14,
     <1>15, <1>16, <1>17, <1>18, <1>19, <1>20, <1>21, <1>22, <1>23, <1>24, <1>25, <1>26, <1>27,
     <1>28, <1>29, <1>30, <1>31, <1>32, <1>33, <1>34, <1>35, <1>36, <1>37, <1>38, <1>39, <1>40,
     <1>41, <1>42, <1>43, FlowNamesAre, FlowTable, ZenonT(60)

-----------------------------------------------------------------------------
(* The inductive invariant.                                                *)

Phases == {"idle", "run", "abort", "done", "failed", "refused", "panic", "crashed"}
Flags == {"none", "pending", "verifying", "failed", "bypass"}
Deeds == {"idle", "delivered", "refused", "unknown"}
JobAts ==
  {"idle", "fail", "cancel", "retrieve", "confirm", "success", "refuse", "refused", "giveUp",
   "unanswered", "release"}

\* TypeOK with the domains of the functions and the shape of job.
Typed ==
  /\ flow \in Flows
  /\ phase \in [Requests -> Phases]
  /\ pc \in [Requests -> Nat] /\ failedAt \in [Requests -> Nat]
  /\ \A r \in Requests : pc[r] <= Len(Steps(r)) + 1 /\ failedAt[r] <= Len(Steps(r))
  /\ order \in [Requests -> Orders \cup {NIL}]
  /\ trans \in [Requests -> Transactions \cup {NIL}]
  /\ flag \in [Requests -> Flags]
  /\ doc \in Orders \cup {NIL}
  /\ tx \in [Requests -> TransactionStatus] /\ state \in [Requests -> TransactionState]
  /\ voucher \in {"unused", "used", "reversed"}
  /\ provider \in [Requests -> Deeds] /\ bank \in [Requests -> Deeds]
  /\ timeUp \in BOOLEAN
  /\ job \in [at : JobAts, read : Orders \cup {NIL}]
  /\ crashes \in 0 .. MaxCrashes

\* One of these operations is behind request r.
Past(r, ops) == Earlier(Steps(r), pc[r], ops)

SomeCharged == \E t \in Requests : Charged(t)
SomePaid == \E q \in Requests : bank[q] = "delivered"

Going(r) == phase[r] \in {"run", "done"}
Ahead(r) == phase[r] \in {"idle", "run"}

\* Where a request is tells how far it has come.
Control ==
  \A r \in Requests :
    /\ phase[r] \in {"idle", "refused"} => pc[r] = 1 /\ failedAt[r] = 0
    /\ phase[r] = "run" => pc[r] >= 1 /\ failedAt[r] = 0
    /\ phase[r] = "done" => pc[r] = Len(Steps(r)) + 1 /\ failedAt[r] = 0
    /\ phase[r] = "abort" => failedAt[r] >= 1 /\ pc[r] <= failedAt[r]

\* A request that goes on has the copies that its steps work on.
HoldsTrans(r) == trans[r] # NIL /\ trans[r].id \in Requests

HasOrder ==
  \A r \in Requests :
    Going(r) /\ (flow[r] \in KnowsOrder \/ Past(r, OrderOps)) => order[r] # NIL

HasTrans ==
  \A r \in Requests :
    Going(r) /\ (flow[r] \in TokenByPass \/ Past(r, TransOps)) => HoldsTrans(r)

\* After an OTP that the bank refused the transaction is there to be cancelled.
FailedOtp ==
  \A r \in Requests :
    flag[r] = "failed" =>
      /\ phase[r] \in {"abort", "failed", "panic", "crashed"}
      /\ phase[r] = "abort" =>
           /\ Steps(r)[failedAt[r]].op = "VerifyOtp"
           /\ pc[r] = failedAt[r] => trans[r] # NIL

\* A request opens its transaction once, and asks the bank once.
OpensOnce ==
  \A r \in Requests : Ahead(r) /\ ~ Past(r, OpeningOps) => state[r] = "NONE"

AsksOnce ==
  \A r \in Requests : Ahead(r) /\ ~ Past(r, BankOps) => bank[r] = "idle"

\* Who has passed a confirmation has seen a charge.
Confirmed ==
  \A r \in Requests :
    /\ phase[r] = "run"
    /\ Past(r, {"ConfirmTrans"}) \/ (Past(r, {"ConfirmIfBypass"}) /\ flag[r] = "bypass")
    => SomeCharged

\* Who has passed the bank's answer, or noted that it paid, was paid for.
PaidByBank ==
  \A r \in Requests :
    /\ phase[r] = "run" /\ Past(r, PaidOps) => SomePaid
    /\ flag[r] = "bypass" => SomePaid

\* The order is there once its creator has stored it, and nobody has a copy before.
Creation ==
  /\ \A r \in Requests :
       Ahead(r) /\ HasOp(flow[r], "InitOrder") /\ ~ Past(r, {"InitOrder"}) => doc = NIL
  /\ doc = NIL => \A r \in Requests : order[r] = NIL
  /\ timeUp => doc # NIL
  /\ job.at # "idle" => job.read # NIL /\ doc # NIL

PayInv ==
  /\ Typed /\ Control /\ HasOrder /\ HasTrans /\ FailedOtp /\ OpensOnce /\ AsksOnce
  /\ Confirmed /\ PaidByBank /\ Creation /\ GoodsAfterBankPaid /\ SuccessIsPaid

-----------------------------------------------------------------------------
(* What a step of request r may do.                                        *)

Runs(r) == phase[r] = "run" /\ pc[r] <= Len(Steps(r))

Advances(r) ==
  Runs(r) /\ phase'[r] = "run" /\ pc'[r] = pc[r] + 1 /\ failedAt'[r] = failedAt[r]
Fails(r) ==
  Runs(r) /\ phase'[r] = "abort" /\ pc'[r] = pc[r] /\ failedAt'[r] = pc[r]
Undoes(r) ==
  /\ phase[r] = "abort" /\ pc[r] > 0 /\ failedAt'[r] = failedAt[r]
  /\ \/ phase'[r] = "abort" /\ pc'[r] = pc[r] - 1
     \/ phase'[r] = "panic" /\ pc'[r] = pc[r]

SoundControl(r) ==
  /\ phase' \in [Requests -> Phases]
  /\ pc' \in [Requests -> Nat] /\ failedAt' \in [Requests -> Nat]
  /\ \A q \in Requests \ {r} :
       phase'[q] = phase[q] /\ pc'[q] = pc[q] /\ failedAt'[q] = failedAt[q]
  /\ Advances(r) \/ Fails(r) \/ Undoes(r)

\* The copy of the order is not lost on the way, and only SuccessOrder, which
\* comes after a confirmation, writes SUCCESS.
SoundOrder(r) ==
  /\ order' \in [Requests -> Orders \cup {NIL}]
  /\ \A q \in Requests \ {r} : order'[q] = order[q]
  /\ Advances(r) /\ (order[r] # NIL \/ Cur(r).op \in OrderOps) => order'[r] # NIL
  /\ doc' \in Orders \cup {NIL}
  /\ doc # NIL => doc' # NIL
  /\ doc' = NIL => order'[r] = NIL
  /\ doc = NIL /\ doc' # NIL => Runs(r) /\ Cur(r).op = "InitOrder"
  /\ doc' # NIL /\ doc'.status = "SUCCESS" => SomeCharged
  /\ timeUp /\ Closed => Closed'

SoundTrans(r) ==
  /\ trans' \in [Requests -> Transactions \cup {NIL}]
  /\ \A q \in Requests \ {r} : trans'[q] = trans[q]
  /\ Advances(r) /\ (HoldsTrans(r) \/ Cur(r).op \in TransOps) => HoldsTrans(r)'

\* What is charged stays charged.
SoundService(r) ==
  /\ tx' \in [Requests -> TransactionStatus] /\ state' \in [Requests -> TransactionState]
  /\ \A t \in Requests :
       /\ state[t] = "APPLIED" => state'[t] = "APPLIED"
       /\ state[t] = "NONE" /\ state'[t] # "NONE" =>
            t = r /\ Runs(r) /\ Cur(r).op \in OpeningOps
  /\ Advances(r) /\ Cur(r).op = "ConfirmTrans" => SomeCharged'
  /\ Advances(r) /\ Cur(r).op = "ConfirmIfBypass" /\ flag[r] = "bypass" => SomeCharged'

\* A provider and a bank are asked by the steps made for it.
SoundOutside(r) ==
  /\ flag' \in [Requests -> Flags]
  /\ provider' \in [Requests -> Deeds] /\ bank' \in [Requests -> Deeds]
  /\ \A q \in Requests \ {r} :
       flag'[q] = flag[q] /\ provider'[q] = provider[q] /\ bank'[q] = bank[q]
  /\ bank'[r] # bank[r] => Runs(r) /\ Cur(r).op \in BankOps
  /\ provider'[r] # provider[r] => Runs(r) /\ Cur(r).op = "CallProvider"
  /\ flag'[r] # flag[r] => Runs(r) /\ Cur(r).op \in BankOps \cup {"CallProvider"}
  /\ flag'[r] = "bypass" => flag[r] = "bypass" \/ bank'[r] = "delivered"
  /\ flag'[r] = "failed" =>
       flag[r] = "failed" \/ (Fails(r) /\ Cur(r).op = "VerifyOtp" /\ trans'[r] = trans[r])
  /\ Advances(r) /\ Cur(r).op \in PaidOps => bank'[r] = "delivered" \/ flag[r] = "bypass"

SoundRest ==
  /\ voucher' \in {"unused", "used", "reversed"}
  /\ UNCHANGED <<flow, around>>

Sound(r) ==
  /\ SoundControl(r) /\ SoundOrder(r) /\ SoundTrans(r) /\ SoundService(r) /\ SoundOutside(r)
  /\ SoundRest

\* What the state has ready for the step at pc.
Ready(r) ==
  /\ Cur(r).op \in NeedsOrder => order[r] \in Orders
  /\ Cur(r).op \in NeedsTrans => trans[r] \in Transactions /\ trans[r].id \in Requests
  /\ Cur(r).op = "SuccessOrder" => SomeCharged
  /\ Cur(r).op = "SuccessIfBypass" /\ flag[r] = "bypass" => SomeCharged
  /\ Cur(r).op \in OpeningOps => state[r] = "NONE"
  /\ Cur(r).op \in BankOps => bank[r] = "idle"
  /\ Cur(r).op = "InitOrder" => doc = NIL
  /\ Cur(r).op = "CallProvider" /\ flow[r] \in TokenFlows => SomePaid
  /\ Cur(r).op \in BankOps \cup {"CallProvider"} => ~ Past(r, {"ConfirmIfBypass"})

\* The flow of a request is sound.
LEMMA StepsSound ==
  ASSUME flow \in Flows, NEW r \in Requests
  PROVE  SoundFlow(flow[r], Steps(r))
BY FlowsSound, FlowsAssumption DEF Steps

\* The step about to run finds what it needs: the flow has put the steps that
\* provide it before this one.
LEMMA IsReady ==
  ASSUME PayInv, NEW r \in Requests, Runs(r)
  PROVE  Ready(r)
<1> DEFINE k == pc[r]
<1>1. /\ SoundStep(flow[r], Steps(r), k)
      /\ Once(Steps(r), OpeningOps) /\ Once(Steps(r), {"InitOrder"}) /\ Once(Steps(r), BankOps)
      /\ k \in 1 .. Len(Steps(r)) /\ DOMAIN Steps(r) = 1 .. Len(Steps(r))
  <2>1. pc[r] \in Nat /\ pc[r] >= 1 /\ flow \in Flows
    BY DEF PayInv, Typed, Control, Runs
  <2>2. QED
    BY <2>1, StepsSound DEF SoundFlow, Runs
<1>2. phase[r] = "run"
  BY DEF Runs
<1>3. Cur(r).op \in NeedsOrder => order[r] \in Orders
  <2>1. HasOrder /\ order[r] \in Orders \cup {NIL}
    BY DEF PayInv, Typed
  <2>2. QED
    BY <1>1, <1>2, <2>1 DEF SoundStep, HasOrder, Going, Past, Cur
<1>4. Cur(r).op \in NeedsTrans => trans[r] \in Transactions /\ trans[r].id \in Requests
  <2>1. HasTrans /\ trans[r] \in Transactions \cup {NIL}
    BY DEF PayInv, Typed
  <2>2. QED
    BY <1>1, <1>2, <2>1 DEF SoundStep, HasTrans, HoldsTrans, Going, Past, Cur
<1>5. /\ Cur(r).op = "SuccessOrder" => SomeCharged
      /\ Cur(r).op = "SuccessIfBypass" /\ flag[r] = "bypass" => SomeCharged
  <2>1. Confirmed
    BY DEF PayInv
  <2>2. QED
    BY <1>1, <1>2, <2>1 DEF SoundStep, Confirmed, Past, Cur
<1>6. Cur(r).op \in OpeningOps => state[r] = "NONE"
  <2>1. OpensOnce
    BY DEF PayInv
  <2>2. Cur(r).op \in OpeningOps => ~ Past(r, OpeningOps)
    BY <1>1 DEF Once, Past, Earlier, Cur
  <2>3. QED
    BY <1>2, <2>1, <2>2 DEF OpensOnce, Ahead
<1>7. Cur(r).op \in BankOps => bank[r] = "idle"
  <2>1. AsksOnce
    BY DEF PayInv
  <2>2. Cur(r).op \in BankOps => ~ Past(r, BankOps)
    BY <1>1 DEF Once, Past, Earlier, Cur
  <2>3. QED
    BY <1>2, <2>1, <2>2 DEF AsksOnce, Ahead
<1>8. Cur(r).op = "InitOrder" => doc = NIL
  <2>1. Creation
    BY DEF PayInv
  <2>2. Cur(r).op = "InitOrder" => ~ Past(r, {"InitOrder"})
    BY <1>1 DEF Once, Past, Earlier, Cur
  <2>3. Cur(r).op = "InitOrder" => HasOp(flow[r], "InitOrder")
    BY <1>1 DEF HasOp, Cur, Steps
  <2>4. QED
    BY <1>2, <2>1, <2>2, <2>3 DEF Creation, Ahead
<1>9. Cur(r).op = "CallProvider" /\ flow[r] \in TokenFlows => SomePaid
  <2>1. PaidByBank
    BY DEF PayInv
  <2>2. QED
    BY <1>1, <1>2, <2>1 DEF SoundStep, PaidByBank, Past, Cur
<1>10. Cur(r).op \in BankOps \cup {"CallProvider"} => ~ Past(r, {"ConfirmIfBypass"})
  BY <1>1 DEF SoundStep, Past, Cur
<1>11. QED
  BY <1>3, <1>4, <1>5, <1>6, <1>7, <1>8, <1>9, <1>10 DEF Ready

\* The compensation of VerifyOtp finds the transaction it cancels: it is the
\* first one called, since a flow asks the bank once.
LEMMA UndoIsReady ==
  ASSUME PayInv, NEW r \in Requests, phase[r] = "abort", pc[r] > 0,
         Cur(r).comp = "UndoOtp", flag[r] = "failed"
  PROVE  trans[r] \in Transactions
<1>1. /\ pc[r] \in 1 .. Len(Steps(r)) /\ failedAt[r] \in 1 .. Len(Steps(r))
      /\ Steps(r)[failedAt[r]].op = "VerifyOtp"
      /\ pc[r] = failedAt[r] => trans[r] # NIL
      /\ trans[r] \in Transactions \cup {NIL}
  <2>1. flow \in Flows
    BY DEF PayInv, Typed
  <2>2. Len(Steps(r)) \in Nat
    BY <2>1, StepsSound DEF SoundFlow
  <2>3. QED
    BY <2>2 DEF PayInv, Typed, Control, FailedOtp
<1>2. Cur(r).op = "VerifyOtp" /\ Once(Steps(r), BankOps)
  BY <1>1, StepsSound DEF SoundFlow, SoundStep, Cur, PayInv, Typed
<1>3. pc[r] = failedAt[r]
  BY <1>1, <1>2 DEF Once, BankOps, Cur
<1>4. QED
  BY <1>1, <1>3

-----------------------------------------------------------------------------
(* A sound step keeps the invariant.                                       *)

\* The operations behind a request that does not move are the same.
LEMMA PastStays ==
  ASSUME NEW r \in Requests, NEW CONSTANT ops, flow' = flow, pc'[r] = pc[r]
  PROVE  Past(r, ops)' <=> Past(r, ops)
BY DEF Past, Earlier, Steps

\* A step that advances leaves its own operation behind.
LEMMA PastGrows ==
  ASSUME NEW r \in Requests, NEW CONSTANT ops, flow' = flow,
         pc[r] \in Nat, pc[r] >= 1, pc'[r] = pc[r] + 1
  PROVE  Past(r, ops)' <=> Past(r, ops) \/ Cur(r).op \in ops
<1>1. Past(r, ops)' <=> \E j \in 1 .. pc[r] : Steps(r)[j].op \in ops
  BY DEF Past, Earlier, Steps
<1>2. Past(r, ops) <=> \E j \in 1 .. pc[r] - 1 : Steps(r)[j].op \in ops
  BY DEF Past, Earlier
<1>3. QED
  BY <1>1, <1>2 DEF Cur

-----------------------------------------------------------------------------
(* The parts of a step: what the coordinator does with it, and what the    *)
(* calls it makes do.                                                      *)

\* A step that succeeds goes on to the next one.
LEMMA OkIsSound ==
  ASSUME PayInv, NEW r \in Requests, Runs(r), StepOK(r)
  PROVE  SoundControl(r) /\ Advances(r)
BY DEF PayInv, Typed, StepOK, SoundControl, Advances, Runs

\* A step that fails starts the rollback.
LEMMA FailIsSound ==
  ASSUME PayInv, NEW r \in Requests, Runs(r), StepFails(r)
  PROVE  SoundControl(r) /\ Fails(r) /\ ~ Advances(r)
BY DEF PayInv, Typed, StepFails, SoundControl, Fails, Advances, Runs, Phases

\* A step advances if and only if its call answered "ok".
LEMMA EndIsSound ==
  ASSUME PayInv, NEW r \in Requests, NEW outcome, Runs(r), StepEnds(r, outcome)
  PROVE  /\ SoundControl(r)
         /\ outcome = "ok" => Advances(r)
         /\ outcome # "ok" => Fails(r) /\ ~ Advances(r)
BY OkIsSound, FailIsSound DEF StepEnds

\* A compensation goes on to the one before it.
LEMMA UndoIsSound ==
  ASSUME PayInv, NEW r \in Requests, phase[r] = "abort", pc[r] > 0, Compensated(r)
  PROVE  SoundControl(r)
BY DEF PayInv, Typed, Compensated, SoundControl, Undoes

\* A panic ends the rollback.
LEMMA PanicIsSound ==
  ASSUME PayInv, NEW r \in Requests, phase[r] = "abort", pc[r] > 0, Panics(r)
  PROVE  SoundControl(r)
BY DEF PayInv, Typed, Panics, SoundControl, Undoes, Phases

\* A step that leaves the order alone.
LEMMA OrderKept ==
  ASSUME PayInv, NEW r \in Requests, UNCHANGED <<doc, order>>,
         ~ Advances(r) \/ Cur(r).op \notin OrderOps
  PROVE  SoundOrder(r)
<1>1. doc' = doc /\ order' = order
  OBVIOUS
<1>2. Closed' <=> Closed
  BY <1>1 DEF Closed
<1>3. doc # NIL /\ doc.status = "SUCCESS" => SomeCharged
  BY DEF PayInv, SuccessIsPaid, SomeCharged
<1>4. QED
  BY <1>1, <1>2, <1>3 DEF PayInv, Typed, Creation, SoundOrder

\* A step that leaves its copy of the transaction alone.
LEMMA TransKept ==
  ASSUME PayInv, NEW r \in Requests, UNCHANGED trans,
         ~ Advances(r) \/ Cur(r).op \notin TransOps
  PROVE  SoundTrans(r)
BY DEF PayInv, Typed, SoundTrans, HoldsTrans

\* A step that makes no call to the transaction service.
LEMMA ServiceKept ==
  ASSUME PayInv, NEW r \in Requests, UNCHANGED service,
         \/ ~ Advances(r)
         \/ Cur(r).op \notin {"ConfirmTrans", "ConfirmIfBypass"}
         \/ Cur(r).op = "ConfirmIfBypass" /\ flag[r] # "bypass"
  PROVE  SoundService(r)
BY DEF PayInv, Typed, SoundService, service

\* A step that asks neither a provider nor the bank.
LEMMA OutsideKept ==
  ASSUME PayInv, NEW r \in Requests, UNCHANGED flag, UNCHANGED outside,
         ~ Advances(r) \/ Cur(r).op \notin PaidOps \/ flag[r] = "bypass"
  PROVE  SoundOutside(r)
BY DEF PayInv, Typed, SoundOutside, outside

\* A step that leaves the voucher alone too.
LEMMA RestKept ==
  ASSUME PayInv, UNCHANGED <<flow, voucher, around>>
  PROVE  SoundRest
BY DEF PayInv, Typed, SoundRest

\* A step that stores an order: its copy is what it stored, or nil.
LEMMA WriteIsSound ==
  ASSUME PayInv, NEW r \in Requests, NEW entity \in Orders, NEW outcome, Runs(r),
         StepWrites(r, entity, outcome),
         doc # NIL \/ Cur(r).op = "InitOrder",
         entity.status = "SUCCESS" => SomeCharged,
         timeUp /\ outcome # "err" => entity.status \notin {"PENDING", "PROCESSING"} \/ doc = NIL
  PROVE  SoundControl(r) /\ SoundOrder(r)
<1> USE NilAssumption
<1>1. SoundControl(r) /\ (outcome # "ok" => ~ Advances(r))
  BY EndIsSound DEF StepWrites
<1>2. /\ doc' = IF outcome = "err" THEN doc ELSE entity
      /\ order' = [order EXCEPT ![r] = IF outcome = "ok" THEN entity ELSE NIL]
  BY DEF StepWrites
<1>3. /\ doc \in Orders \cup {NIL} /\ order \in [Requests -> Orders \cup {NIL}]
      /\ doc = NIL => order[r] = NIL
      /\ doc # NIL /\ doc.status = "SUCCESS" => SomeCharged
  BY DEF PayInv, Typed, Creation, SuccessIsPaid, SomeCharged
<1>4. timeUp /\ Closed => Closed'
  BY <1>2 DEF Closed
<1>5. QED
  BY <1>1, <1>2, <1>3, <1>4 DEF SoundOrder, Runs

\* A compensation, or "FAIL ORDER", that closes the order.
LEMMA CloseIsSound ==
  ASSUME PayInv, NEW r \in Requests, NEW status \in {"FAILED", "CANCEL", "VERIFYING"},
         order[r] \in Orders, ClosesOrder(r, status), ~ Advances(r)
  PROVE  SoundOrder(r)
<1> USE NilAssumption
<1>1. /\ order' = [order EXCEPT ![r].status = status]
      /\ doc' \in {doc, [order[r] EXCEPT !.status = status]}
  BY DEF ClosesOrder
<1>2. /\ doc \in Orders \cup {NIL} /\ order \in [Requests -> Orders \cup {NIL}]
      /\ doc # NIL
      /\ doc # NIL /\ doc.status = "SUCCESS" => SomeCharged
  BY DEF PayInv, Typed, Creation, SuccessIsPaid, SomeCharged
<1>3. [order[r] EXCEPT !.status = status] \in Orders /\ [order[r] EXCEPT !.status = status].status = status
  BY DEF Orders, OrderStatus
<1>4. timeUp /\ Closed => Closed'
  BY <1>1, <1>3 DEF Closed
<1>5. order' \in [Requests -> Orders \cup {NIL}]
  BY <1>1, <1>2, <1>3
<1>6. QED
  BY <1>1, <1>2, <1>3, <1>4, <1>5 DEF SoundOrder

\* The order part of a compensation, skipped, panicking or carried out.
LEMMA MoveIsSound ==
  ASSUME PayInv, NEW r \in Requests, phase[r] = "abort", pc[r] > 0,
         NEW status \in {"FAILED", "CANCEL", "VERIFYING"}, NEW skip,
         CompensationMoves(r, status, skip)
  PROVE  SoundControl(r) /\ SoundOrder(r)
<1>1. ~ Advances(r)
  BY DEF Advances, Runs
<1>2. CASE order[r] = NIL
  BY <1>1, <1>2, PanicIsSound, OrderKept DEF CompensationMoves
<1>3. CASE order[r] # NIL
  <2>1. order[r] \in Orders
    BY <1>3 DEF PayInv, Typed
  <2>2. Compensated(r) /\ (UNCHANGED <<doc, order>> \/ ClosesOrder(r, status))
    BY <1>3 DEF CompensationMoves, CompensationWrites
  <2>3. QED
    BY <1>1, <2>1, <2>2, UndoIsSound, OrderKept, CloseIsSound
<1>4. QED
  BY <1>2, <1>3

\* A cancellation gives back what is on hold and nothing else.
LEMMA CancelIsSound ==
  ASSUME PayInv, NEW t \in Requests \cup {NIL}, NEW outcome, CancelEnds(t, outcome)
  PROVE  /\ tx' \in [Requests -> TransactionStatus] /\ state' \in [Requests -> TransactionState]
         /\ \A s \in Requests : state'[s] # state[s] => state[s] = "INITIAL"
<1>1. tx \in [Requests -> TransactionStatus] /\ state \in [Requests -> TransactionState]
  BY DEF PayInv, Typed
<1>2. CASE t # NIL /\ state[t] = "INITIAL"
  BY <1>1, <1>2 DEF CancelEnds, TransactionStatus, TransactionState
<1>3. CASE ~ (t # NIL /\ state[t] = "INITIAL")
  BY <1>1, <1>3 DEF CancelEnds, service
<1>4. QED
  BY <1>2, <1>3

\* A compensation that cancels the request's transaction.
LEMMA CancelTransactionIsSound ==
  ASSUME PayInv, NEW r \in Requests, trans[r] \in Transactions, CancelTransaction(r), ~ Advances(r),
         ~ Runs(r)
  PROVE  SoundTrans(r) /\ SoundService(r)
<1>1. PICK outcome \in {"ok", "err", "lost"} :
        /\ CancelEnds(trans[r].id, outcome)
        /\ trans' = [trans EXCEPT ![r] = IF outcome = "ok" THEN [@ EXCEPT !.status = "FAILED"]
                                         ELSE NIL]
  BY DEF CancelTransaction
<1>2. trans[r].id \in Requests \cup {NIL}
  BY DEF Transactions
<1>3. /\ tx' \in [Requests -> TransactionStatus] /\ state' \in [Requests -> TransactionState]
      /\ \A s \in Requests : state'[s] # state[s] => state[s] = "INITIAL"
  BY <1>1, <1>2, CancelIsSound
<1>4. SoundService(r)
  BY <1>3 DEF SoundService
<1>5. [trans[r] EXCEPT !.status = "FAILED"] \in Transactions
  BY DEF Transactions, TransactionStatus
<1>6. trans' \in [Requests -> Transactions \cup {NIL}] /\ \A q \in Requests \ {r} : trans'[q] = trans[q]
  BY <1>1, <1>5 DEF PayInv, Typed
<1>7. QED
  BY <1>4, <1>6 DEF SoundTrans

\* A compensation that parks the request's transaction.
LEMMA MarkIsSound ==
  ASSUME PayInv, NEW r \in Requests, trans[r] \in Transactions, MarkPending(r), UNCHANGED state,
         ~ Advances(r), ~ Runs(r)
  PROVE  SoundTrans(r) /\ SoundService(r)
<1>1. [trans[r] EXCEPT !.status = "PENDING"] \in Transactions
  BY DEF Transactions, TransactionStatus
<1>2. /\ trans \in [Requests -> Transactions \cup {NIL}] /\ tx \in [Requests -> TransactionStatus]
      /\ state \in [Requests -> TransactionState]
  BY DEF PayInv, Typed
<1>3. trans' \in [Requests -> Transactions \cup {NIL}] /\ \A q \in Requests \ {r} : trans'[q] = trans[q]
  BY <1>1, <1>2 DEF MarkPending
<1>4. tx' \in [Requests -> TransactionStatus]
  BY <1>2 DEF MarkPending, TransactionStatus
<1>5. QED
  BY <1>2, <1>3, <1>4 DEF SoundTrans, SoundService

-----------------------------------------------------------------------------
(* The steps of the flows, one by one.                                     *)

\* A copy of the order with the transaction's id in it is an order.
LEMMA LinkedIsOrder ==
  ASSUME NEW r \in Requests, order[r] \in Orders, trans[r] \in Transactions
  PROVE  Linked(r) \in Orders
BY DEF Linked, Orders, Transactions

\* "FIND ORDER" and the lookup in InitPayByToken.
LEMMA FindOrderIsSound ==
  ASSUME PayInv, NEW r \in Requests, FindOrder(r)
  PROVE  Sound(r)
<1>1. Runs(r) /\ Cur(r).op = "FindOrder"
  BY DEF FindOrder, AtStep, Runs
<1>2. SoundTrans(r) /\ SoundService(r) /\ SoundOutside(r) /\ SoundRest
  BY <1>1, TransKept, ServiceKept, OutsideKept, RestKept
     DEF FindOrder, TransOps, PaidOps, service, outside, around
<1>3. CASE GetValidOrder(doc) /\ order' = [order EXCEPT ![r] = doc] /\ StepOK(r)
  <2>1. doc' = doc
    BY DEF FindOrder
  <2>2. /\ doc \in Orders /\ order \in [Requests -> Orders \cup {NIL}]
        /\ doc.status = "SUCCESS" => SomeCharged
    BY <1>3 DEF PayInv, Typed, GetValidOrder, SuccessIsPaid, SomeCharged
  <2>3. Closed => Closed'
    BY <2>1 DEF Closed
  <2>4. SoundOrder(r)
    BY <1>3, <2>1, <2>2, <2>3, NilAssumption DEF SoundOrder
  <2>5. QED
    BY <1>1, <1>2, <1>3, <2>4, OkIsSound DEF Sound
<1>4. CASE UNCHANGED order /\ StepFails(r)
  BY <1>1, <1>2, <1>4, FailIsSound, OrderKept DEF Sound, FindOrder
<1>5. QED
  BY <1>3, <1>4 DEF FindOrder

\* "FIND TRANSACTION": the copy has the id that the order names.
LEMMA FindTransactionIsSound ==
  ASSUME PayInv, NEW r \in Requests, FindTransaction(r)
  PROVE  Sound(r)
<1>1. Runs(r) /\ Cur(r).op \in {"FindTransaction", "FindOrInitPayment"}
  BY DEF FindTransaction, AtStep, Runs
<1>2. order[r] \in Orders
  BY <1>1, IsReady DEF Ready, NeedsOrder
<1>3. SoundOrder(r) /\ SoundService(r) /\ SoundOutside(r) /\ SoundRest
  BY <1>1, OrderKept, ServiceKept, OutsideKept, RestKept
     DEF FindTransaction, OrderOps, PaidOps, service, outside, around
<1> DEFINE t == order[r].tran
<1>4. CASE /\ t # NIL
           /\ trans' = [trans EXCEPT ![r] = [id |-> t, status |-> tx[t]]]
           /\ StepOK(r)
  <2>1. t \in Requests /\ tx[t] \in TransactionStatus
    BY <1>2, <1>4 DEF Orders, PayInv, Typed
  <2>2. [id |-> t, status |-> tx[t]] \in Transactions
    BY <2>1 DEF Transactions
  <2>3. trans \in [Requests -> Transactions \cup {NIL}]
    BY DEF PayInv, Typed
  <2>4. HoldsTrans(r)'
    BY <1>4, <2>1, <2>2, <2>3, NilAssumption DEF HoldsTrans
  <2>5. SoundTrans(r)
    BY <1>4, <2>2, <2>3, <2>4 DEF SoundTrans
  <2>6. QED
    BY <1>1, <1>3, <1>4, <2>5, OkIsSound DEF Sound
<1>5. CASE UNCHANGED trans /\ StepFails(r)
  BY <1>1, <1>3, <1>5, FailIsSound, TransKept DEF Sound
<1>6. QED
  BY <1>4, <1>5 DEF FindTransaction

\* The checks before the order, and the vendor's fee.
LEMMA CheckIsSound ==
  ASSUME PayInv, NEW r \in Requests, Check(r)
  PROVE  Sound(r)
<1>1. Runs(r) /\ Cur(r).op \in {"Check", "VendorFee"}
  BY DEF Check, AtStep, Runs
<1>2. SoundOrder(r) /\ SoundTrans(r) /\ SoundService(r) /\ SoundOutside(r) /\ SoundRest
  BY <1>1, OrderKept, TransKept, ServiceKept, OutsideKept, RestKept
     DEF Check, copies, OrderOps, TransOps, PaidOps, service, outside, around
<1>3. QED
  BY <1>1, <1>2, EndIsSound DEF Check, Sound

\* "INIT ORDER": the creator stores the order before anyone has seen it.
LEMMA InitOrderIsSound ==
  ASSUME PayInv, NEW r \in Requests, InitOrder(r)
  PROVE  Sound(r)
<1>1. Runs(r) /\ Cur(r).op = "InitOrder"
  BY DEF InitOrder, AtStep, Runs
<1>2. SoundTrans(r) /\ SoundService(r) /\ SoundOutside(r) /\ SoundRest
  BY <1>1, TransKept, ServiceKept, OutsideKept, RestKept
     DEF InitOrder, TransOps, PaidOps, service, outside, around
<1>3. doc = NIL
  BY <1>1, IsReady DEF Ready
<1>4. NewOrder \in Orders /\ NewOrder.status = "PENDING"
  BY DEF NewOrder, Orders, OrderStatus
<1>5. PICK outcome \in StepOutcomes : StepWrites(r, NewOrder, outcome)
  BY DEF InitOrder
<1>6. SoundControl(r) /\ SoundOrder(r)
  BY <1>1, <1>3, <1>4, <1>5, WriteIsSound
<1>7. QED
  BY <1>2, <1>6 DEF Sound

\* "PROCESSING ORDER": refused past expired_at.
LEMMA ProcessingOrderIsSound ==
  ASSUME PayInv, NEW r \in Requests, ProcessingOrder(r)
  PROVE  Sound(r)
<1>1. Runs(r) /\ Cur(r).op = "ProcessingOrder"
  BY DEF ProcessingOrder, AtStep, Runs
<1>2. SoundTrans(r) /\ SoundService(r) /\ SoundOutside(r) /\ SoundRest
  BY <1>1, TransKept, ServiceKept, OutsideKept, RestKept
     DEF ProcessingOrder, TransOps, PaidOps, service, outside, around
<1> DEFINE entity == [order[r] EXCEPT !.status = "PROCESSING"]
<1>3. order[r] \in Orders /\ doc # NIL
  <2>1. order[r] \in Orders
    BY <1>1, IsReady DEF Ready, NeedsOrder
  <2>2. QED
    BY <2>1, NilAssumption DEF PayInv, Creation
<1>4. entity \in Orders /\ entity.status = "PROCESSING"
  BY <1>3 DEF Orders, OrderStatus
<1> HIDE DEF entity
<1>5. CASE \E outcome \in StepOutcomes :
             (timeUp => outcome = "err") /\ StepWrites(r, entity, outcome)
  <2>1. PICK outcome \in StepOutcomes : (timeUp => outcome = "err") /\ StepWrites(r, entity, outcome)
    BY <1>5
  <2>2. SoundControl(r) /\ SoundOrder(r)
    BY <1>1, <1>3, <1>4, <2>1, WriteIsSound
  <2>3. QED
    BY <1>2, <2>2 DEF Sound
<1>6. CASE timeUp /\ order' = [order EXCEPT ![r] = entity] /\ UNCHANGED doc /\ StepFails(r)
  <2>1. SoundControl(r) /\ ~ Advances(r)
    BY <1>1, <1>6, FailIsSound
  <2>2. /\ doc \in Orders \cup {NIL} /\ order \in [Requests -> Orders \cup {NIL}]
        /\ doc # NIL /\ doc.status = "SUCCESS" => SomeCharged
    BY DEF PayInv, Typed, SuccessIsPaid, SomeCharged
  <2>3. Closed => Closed'
    BY <1>6 DEF Closed
  <2>4. SoundOrder(r)
    BY <1>3, <1>4, <1>6, <2>1, <2>2, <2>3 DEF SoundOrder
  <2>5. QED
    BY <1>2, <2>1, <2>4 DEF Sound
<1>7. QED
  BY <1>5, <1>6 DEF ProcessingOrder, entity

\* "SUCCESS ORDER": the steps before it have confirmed the transaction.
LEMMA SuccessOrderIsSound ==
  ASSUME PayInv, NEW r \in Requests, SuccessOrder(r)
  PROVE  Sound(r)
<1>1. /\ Runs(r) /\ Cur(r).op \in {"SuccessOrder", "SuccessIfBypass"}
      /\ Cur(r).op = "SuccessIfBypass" => flag[r] = "bypass"
  BY DEF SuccessOrder, AtStep, Runs
<1>2. SoundTrans(r) /\ SoundService(r) /\ SoundOutside(r) /\ SoundRest
  BY <1>1, TransKept, ServiceKept, OutsideKept, RestKept
     DEF SuccessOrder, TransOps, PaidOps, service, outside, around
<1> DEFINE entity == [Linked(r) EXCEPT !.status = "SUCCESS"]
<1>3. order[r] \in Orders /\ trans[r] \in Transactions /\ SomeCharged
  BY <1>1, IsReady DEF Ready, NeedsOrder, NeedsTrans
<1>4. doc # NIL
  BY <1>3, NilAssumption DEF PayInv, Creation
<1>5. entity \in Orders /\ entity.status = "SUCCESS"
  <2>1. Linked(r) \in Orders
    BY <1>3, LinkedIsOrder
  <2>2. QED
    BY <2>1 DEF Orders, OrderStatus
<1> HIDE DEF entity
<1>6. PICK outcome \in StepOutcomes : StepWrites(r, entity, outcome)
  BY DEF SuccessOrder, entity
<1>7. SoundControl(r) /\ SoundOrder(r)
  BY <1>1, <1>3, <1>4, <1>5, <1>6, WriteIsSound
<1>8. QED
  BY <1>2, <1>7 DEF Sound

\* OrderCancel stores CANCEL.
LEMMA CancelOrderIsSound ==
  ASSUME PayInv, NEW r \in Requests, CancelOrder(r)
  PROVE  Sound(r)
<1>1. Runs(r) /\ Cur(r).op = "CancelOrder"
  BY DEF CancelOrder, AtStep, Runs
<1>2. SoundTrans(r) /\ SoundService(r) /\ SoundOutside(r) /\ SoundRest
  BY <1>1, TransKept, ServiceKept, OutsideKept, RestKept
     DEF CancelOrder, TransOps, PaidOps, service, outside, around
<1> DEFINE entity == [order[r] EXCEPT !.status = "CANCEL"]
<1>3. order[r] \in Orders
  BY <1>1, IsReady DEF Ready, NeedsOrder
<1>4. doc # NIL
  BY <1>3, NilAssumption DEF PayInv, Creation
<1>5. entity \in Orders /\ entity.status = "CANCEL"
  BY <1>3 DEF Orders, OrderStatus
<1> HIDE DEF entity
<1>6. PICK outcome \in StepOutcomes : StepWrites(r, entity, outcome)
  BY DEF CancelOrder, entity
<1>7. SoundControl(r) /\ SoundOrder(r)
  BY <1>1, <1>4, <1>5, <1>6, WriteIsSound
<1>8. QED
  BY <1>2, <1>7 DEF Sound

\* OrderCancel gives back what is on hold.
LEMMA CancelInitialIsSound ==
  ASSUME PayInv, NEW r \in Requests, CancelInitial(r)
  PROVE  Sound(r)
<1>1. Runs(r) /\ Cur(r).op = "CancelInitial"
  BY DEF CancelInitial, AtStep, Runs
<1>2. SoundOrder(r) /\ SoundTrans(r) /\ SoundOutside(r) /\ SoundRest
  BY <1>1, OrderKept, TransKept, OutsideKept, RestKept
     DEF CancelInitial, copies, OrderOps, TransOps, PaidOps, outside, around
<1>3. order[r].tran \in Requests \cup {NIL}
  <2>1. order[r] \in Orders
    BY <1>1, IsReady DEF Ready, NeedsOrder
  <2>2. QED
    BY <2>1 DEF Orders
<1>4. /\ tx' \in [Requests -> TransactionStatus] /\ state' \in [Requests -> TransactionState]
      /\ \A s \in Requests : state'[s] # state[s] => state[s] = "INITIAL"
  <2>1. CASE UNCHANGED service
    BY <2>1 DEF service, PayInv, Typed
  <2>2. CASE \E outcome \in RepairOutcomes : CancelEnds(order[r].tran, outcome)
    BY <1>3, <2>2, CancelIsSound
  <2>3. QED
    BY <2>1, <2>2 DEF CancelInitial, CancelIfInitial
<1>5. SoundService(r)
  BY <1>1, <1>4 DEF SoundService
<1>6. QED
  BY <1>1, <1>2, <1>5, OkIsSound DEF CancelInitial, Sound

\* "ACCOUNTING VOUCHER".
LEMMA AccountVoucherIsSound ==
  ASSUME PayInv, NEW r \in Requests, AccountVoucher(r)
  PROVE  Sound(r)
<1>1. Runs(r) /\ Cur(r).op = "AccountVoucher"
  BY DEF AccountVoucher, AtStep, Runs
<1>2. SoundOrder(r) /\ SoundTrans(r) /\ SoundService(r) /\ SoundOutside(r)
  BY <1>1, OrderKept, TransKept, ServiceKept, OutsideKept
     DEF AccountVoucher, copies, OrderOps, TransOps, PaidOps, service, outside
<1>3. SoundRest
  BY DEF AccountVoucher, SoundRest, around, PayInv, Typed
<1>4. SoundControl(r)
  BY <1>1, OkIsSound, EndIsSound DEF AccountVoucher
<1>5. QED
  BY <1>2, <1>3, <1>4 DEF Sound

\* "INIT PAYMENT": the request's own transaction, which it has not opened before.
LEMMA InitPaymentIsSound ==
  ASSUME PayInv, NEW r \in Requests, InitPayment(r)
  PROVE  Sound(r)
<1> USE NilAssumption
<1>1. Runs(r) /\ Cur(r).op \in OpeningOps
  BY DEF InitPayment, AtStep, Runs, OpeningOps
<1>2. Cur(r).op \notin OrderOps /\ Cur(r).op \notin PaidOps
      /\ Cur(r).op \notin {"ConfirmTrans", "ConfirmIfBypass"}
  BY <1>1 DEF OpeningOps, OrderOps, PaidOps
<1>3. order[r] \in Orders /\ state[r] = "NONE"
  <2>1. Cur(r).op \in NeedsOrder
    BY <1>1 DEF OpeningOps, NeedsOrder
  <2>2. QED
    BY <1>1, <2>1, IsReady DEF Ready
<1>4. SoundOutside(r) /\ SoundRest
  BY <1>2, OutsideKept, RestKept DEF InitPayment, outside, around
<1>5. /\ doc' = doc /\ doc # NIL
      /\ doc \in Orders \cup {NIL} /\ order \in [Requests -> Orders \cup {NIL}]
      /\ doc.status = "SUCCESS" => SomeCharged
      /\ trans \in [Requests -> Transactions \cup {NIL}]
      /\ tx \in [Requests -> TransactionStatus] /\ state \in [Requests -> TransactionState]
  BY <1>3 DEF InitPayment, PayInv, Typed, Creation, SuccessIsPaid, SomeCharged
<1>6. Closed => Closed'
  BY <1>5 DEF Closed
<1>7. CASE /\ trans' = [trans EXCEPT ![r] = [id |-> NIL, status |-> "NONE"]]
           /\ StepFails(r)
           /\ UNCHANGED <<service, order>>
  <2>1. SoundControl(r) /\ ~ Advances(r)
    BY <1>1, <1>7, FailIsSound
  <2>2. SoundOrder(r) /\ SoundService(r)
    BY <1>5, <1>7, <2>1, OrderKept, ServiceKept
  <2>3. [id |-> NIL, status |-> "NONE"] \in Transactions
    BY DEF Transactions, TransactionStatus
  <2>4. SoundTrans(r)
    BY <1>5, <1>7, <2>1, <2>3 DEF SoundTrans
  <2>5. QED
    BY <1>4, <2>1, <2>2, <2>4 DEF Sound
<1>8. ASSUME NEW outcome \in StepOutcomes,
             tx' = IF outcome = "err" THEN tx ELSE [tx EXCEPT ![r] = "PROCESSING"],
             state' = IF outcome = "err" THEN state ELSE [state EXCEPT ![r] = "INITIAL"],
             trans' = [trans EXCEPT ![r] = IF outcome = "ok"
                                           THEN [id |-> r, status |-> "PROCESSING"] ELSE NIL],
             order' = IF outcome = "ok" /\ Cur(r).link
                      THEN [order EXCEPT ![r].tran = r] ELSE order,
             StepEnds(r, outcome)
      PROVE  Sound(r)
  <2>1. SoundControl(r) /\ (outcome # "ok" => ~ Advances(r))
    BY <1>1, <1>8, EndIsSound
  <2>2. SoundService(r)
    <3>1. tx' \in [Requests -> TransactionStatus] /\ state' \in [Requests -> TransactionState]
      BY <1>5, <1>8 DEF TransactionStatus, TransactionState
    <3>2. \A t \in Requests : t # r => state'[t] = state[t]
      BY <1>5, <1>8
    <3>3. QED
      BY <1>1, <1>2, <1>3, <3>1, <3>2 DEF SoundService
  <2>3. [id |-> r, status |-> "PROCESSING"] \in Transactions
    BY DEF Transactions, TransactionStatus
  <2>4. SoundTrans(r)
    <3>1. outcome = "ok" => HoldsTrans(r)'
      BY <1>5, <1>8, <2>3 DEF HoldsTrans
    <3>2. QED
      BY <1>5, <1>8, <2>1, <2>3, <3>1 DEF SoundTrans
  <2>5. [order[r] EXCEPT !.tran = r] \in Orders
    BY <1>3 DEF Orders
  <2>6. SoundOrder(r)
    BY <1>2, <1>3, <1>5, <1>6, <1>8, <2>5 DEF SoundOrder
  <2>7. QED
    BY <1>4, <2>1, <2>2, <2>4, <2>6 DEF Sound
<1>9. QED
  BY <1>7, <1>8 DEF InitPayment

\* "FINALIZATION PAYMENT": it goes on only when the amount was applied.
LEMMA ConfirmTransIsSound ==
  ASSUME PayInv, NEW r \in Requests, ConfirmTrans(r)
  PROVE  Sound(r)
<1> USE NilAssumption
<1>1. Runs(r) /\ Cur(r).op \in {"ConfirmTrans", "ConfirmIfBypass"}
  BY DEF ConfirmTrans, AtStep, Runs
<1>2. order[r] \in Orders /\ trans[r] \in Transactions /\ trans[r].id \in Requests
  BY <1>1, IsReady DEF Ready, NeedsOrder, NeedsTrans
<1>3. Cur(r).op \notin OrderOps /\ Cur(r).op \notin TransOps /\ Cur(r).op \notin PaidOps
  BY <1>1 DEF OrderOps, TransOps, PaidOps
<1>4. SoundOutside(r) /\ SoundRest
  BY <1>3, OutsideKept, RestKept DEF ConfirmTrans, outside, around
<1>5. /\ doc' = doc /\ doc # NIL
      /\ doc \in Orders \cup {NIL} /\ order \in [Requests -> Orders \cup {NIL}]
      /\ doc.status = "SUCCESS" => SomeCharged
      /\ trans \in [Requests -> Transactions \cup {NIL}]
      /\ tx \in [Requests -> TransactionStatus] /\ state \in [Requests -> TransactionState]
  BY <1>2 DEF ConfirmTrans, PayInv, Typed, Creation, SuccessIsPaid, SomeCharged
<1>6. SoundOrder(r)
  <2>1. Closed => Closed'
    BY <1>5 DEF Closed
  <2>2. Linked(r) \in Orders /\ order' = [order EXCEPT ![r] = Linked(r)]
    BY <1>2, LinkedIsOrder DEF ConfirmTrans
  <2>3. QED
    BY <1>5, <2>1, <2>2 DEF SoundOrder
<1> DEFINE t == trans[r].id
<1>7. CASE state[t] # "INITIAL" /\ trans' = [trans EXCEPT ![r] = NIL] /\ StepFails(r)
           /\ UNCHANGED service
  <2>1. SoundControl(r) /\ ~ Advances(r)
    BY <1>1, <1>7, FailIsSound
  <2>2. SoundTrans(r) /\ SoundService(r)
    BY <1>5, <1>7, <2>1, ServiceKept DEF SoundTrans
  <2>3. QED
    BY <1>4, <1>6, <2>1, <2>2 DEF Sound
<1>8. ASSUME state[t] = "INITIAL", NEW outcome \in StepOutcomes,
             tx' = IF outcome = "err" THEN tx ELSE [tx EXCEPT ![t] = "FINISH"],
             state' = IF outcome = "err" THEN state ELSE [state EXCEPT ![t] = "APPLIED"],
             trans' = [trans EXCEPT ![r] = IF outcome = "ok" THEN [@ EXCEPT !.status = "FINISH"]
                                           ELSE NIL],
             StepEnds(r, outcome)
      PROVE  Sound(r)
  <2>1. SoundControl(r) /\ (outcome # "ok" => ~ Advances(r))
    BY <1>1, <1>8, EndIsSound
  <2>2. SoundService(r)
    <3>1. tx' \in [Requests -> TransactionStatus] /\ state' \in [Requests -> TransactionState]
      BY <1>2, <1>5, <1>8 DEF TransactionStatus, TransactionState
    <3>2. \A s \in Requests : state'[s] # state[s] => s = t
      BY <1>2, <1>5, <1>8
    <3>3. outcome = "ok" => SomeCharged'
      BY <1>2, <1>5, <1>8 DEF SomeCharged, Charged
    <3>4. QED
      BY <1>8, <2>1, <3>1, <3>2, <3>3 DEF SoundService
  <2>3. [trans[r] EXCEPT !.status = "FINISH"] \in Transactions
        /\ [trans[r] EXCEPT !.status = "FINISH"].id = t
    BY <1>2 DEF Transactions, TransactionStatus
  <2>4. SoundTrans(r)
    <3>1. outcome = "ok" => HoldsTrans(r)'
      BY <1>2, <1>5, <1>8, <2>3 DEF HoldsTrans
    <3>2. QED
      BY <1>5, <1>8, <2>1, <2>3, <3>1 DEF SoundTrans
  <2>5. QED
    BY <1>4, <1>6, <2>1, <2>2, <2>4 DEF Sound
<1>9. QED
  BY <1>7, <1>8 DEF ConfirmTrans

\* A Func that has nothing to do.
LEMMA SkipStepIsSound ==
  ASSUME PayInv, NEW r \in Requests, SkipStep(r)
  PROVE  Sound(r)
<1>1. /\ Runs(r) /\ Cur(r).op \in {"SkipProvider", "ConfirmIfBypass", "SuccessIfBypass"}
      /\ Cur(r).op = "ConfirmIfBypass" => flag[r] # "bypass"
  BY DEF SkipStep, AtStep, Runs
<1>2. SoundOrder(r) /\ SoundTrans(r) /\ SoundService(r) /\ SoundOutside(r) /\ SoundRest
  BY <1>1, OrderKept, TransKept, ServiceKept, OutsideKept, RestKept
     DEF SkipStep, copies, OrderOps, TransOps, PaidOps, service, outside, around
<1>3. QED
  BY <1>1, <1>2, OkIsSound DEF SkipStep, Sound

\* A provider's answer, with what the step noted of it.
LEMMA AnswerIsSound ==
  ASSUME PayInv, NEW r \in Requests, Runs(r), Cur(r).op = "CallProvider",
         NEW did \in Deeds, NEW noted \in {"none", "pending"}, NEW outcome,
         Answers(r, did, noted, outcome)
  PROVE  SoundControl(r) /\ SoundOutside(r)
<1>1. SoundControl(r)
  BY EndIsSound DEF Answers
<1>2. /\ flag \in [Requests -> Flags] /\ provider \in [Requests -> Deeds]
      /\ bank \in [Requests -> Deeds]
  BY DEF PayInv, Typed
<1>3. QED
  BY <1>1, <1>2 DEF Answers, SoundOutside, Flags, PaidOps

\* A step that asks a provider touches nothing else.
LEMMA ProviderIsSound ==
  ASSUME PayInv, NEW r \in Requests, Cur(r).op \in BankOps \cup {"CallProvider"},
         UNCHANGED <<flow, order, trans, doc, service, voucher, around>>,
         SoundControl(r), SoundOutside(r)
  PROVE  Sound(r)
<1>1. SoundOrder(r)
  BY OrderKept DEF BankOps, OrderOps
<1>2. SoundTrans(r)
  BY TransKept DEF BankOps, TransOps
<1>3. SoundService(r)
  BY ServiceKept DEF BankOps
<1>4. SoundRest
  BY RestKept
<1>5. QED
  BY <1>1, <1>2, <1>3, <1>4 DEF Sound

\* The card, top up and bill services.
LEMMA CallProviderIsSound ==
  ASSUME PayInv, NEW r \in Requests, CallProvider(r)
  PROVE  Sound(r)
<1>1. Runs(r) /\ Cur(r).op = "CallProvider"
  BY DEF CallProvider, AtStep, Runs
<1>2. \E did \in Deeds, noted \in {"none", "pending"}, outcome \in {"ok", "err"} :
        Answers(r, did, noted, outcome)
  BY DEF CallProvider, Deeds
<1>3. SoundControl(r) /\ SoundOutside(r)
  BY <1>1, <1>2, AnswerIsSound
<1>4. QED
  BY <1>1, <1>3, ProviderIsSound DEF CallProvider

\* The transfers to the payee's bank.
LEMMA CallTransferIsSound ==
  ASSUME PayInv, NEW r \in Requests, CallTransfer(r)
  PROVE  Sound(r)
<1>1. Runs(r) /\ Cur(r).op = "CallProvider"
  BY DEF CallTransfer, AtStep, Runs
<1>2. \A code \in BankCodes : BankDid(code) \in Deeds
  BY DEF BankCodes, BankDid, IsSuccess, Deeds
<1>3. \E did \in Deeds, noted \in {"none", "pending"}, outcome \in {"ok", "err"} :
        Answers(r, did, noted, outcome)
  <2>1. CASE "lost" \in StepOutcomes /\ Answers(r, "delivered", "none", "err")
    BY <2>1 DEF Deeds
  <2>2. CASE \E code \in BankCodes \ {"449", "453"} :
               \E noted \in {"none", "pending"}, outcome \in {"ok", "err"} :
                 Answers(r, BankDid(code), noted, outcome)
    BY <1>2, <2>2
  <2>3. QED
    BY <2>1, <2>2 DEF CallTransfer, CashOutEnds, IBFTTransferEnds
<1>4. SoundControl(r) /\ SoundOutside(r)
  BY <1>1, <1>3, AnswerIsSound
<1>5. QED
  BY <1>1, <1>4, ProviderIsSound DEF CallTransfer

\* The answer of the payer's bank, which is asked for the first time: what the
\* step noted as paid the bank has paid.
LEMMA BankAnswerIsSound ==
  ASSUME PayInv, NEW r \in Requests, Runs(r), Cur(r).op \in BankOps,
         NEW did \in Deeds, NEW noted \in Flags, NEW outcome,
         BankAnswers(r, did, noted, outcome), UNCHANGED trans,
         noted = "bypass" => did = "delivered",
         noted = "failed" => Cur(r).op = "VerifyOtp" /\ outcome # "ok",
         Cur(r).op = "VerifyOtp" /\ outcome = "ok" => did = "delivered"
  PROVE  SoundControl(r) /\ SoundOutside(r)
<1>1. /\ SoundControl(r)
      /\ outcome = "ok" => Advances(r)
      /\ outcome # "ok" => Fails(r) /\ ~ Advances(r)
  BY EndIsSound DEF BankAnswers
<1>2. /\ flag \in [Requests -> Flags] /\ provider \in [Requests -> Deeds]
      /\ bank \in [Requests -> Deeds]
  BY DEF PayInv, Typed
<1>3. Cur(r).op \in PaidOps => Cur(r).op = "VerifyOtp"
  BY DEF BankOps, PaidOps
<1>4. /\ bank' = [bank EXCEPT ![r] = did] /\ flag' = [flag EXCEPT ![r] = noted]
      /\ provider' = provider
  BY DEF BankAnswers
<1>5. QED
  BY <1>1, <1>2, <1>3, <1>4 DEF SoundOutside

\* What the gateway's codes say of the bank.
LEMMA CodesAre ==
  /\ \A code \in BankCodes : BankDid(code) \in Deeds
  /\ \A code \in BankCodes : IsSuccess(code) => BankDid(code) = "delivered"
BY DEF BankCodes, BankDid, IsSuccess, Deeds

\* "CASH IN": paid, refused, or an OTP is wanted.
LEMMA CashInIsSound ==
  ASSUME PayInv, NEW r \in Requests, Runs(r), Cur(r).op \in {"CashInRequest", "CashInBankGW"},
         NEW noOtp \in SUBSET {"200", "2xx"}, CashIn(r, noOtp), UNCHANGED trans
  PROVE  SoundControl(r) /\ SoundOutside(r)
<1>1. Cur(r).op \in BankOps /\ Cur(r).op # "VerifyOtp"
  BY DEF BankOps
<1>2. "delivered" \in Deeds /\ "none" \in Flags /\ "bypass" \in Flags
  BY DEF Deeds, Flags
<1>3. CASE BankAnswers(r, "delivered", "none", "err")
  BY <1>1, <1>2, <1>3, BankAnswerIsSound
<1>4. ASSUME NEW code \in BankCodes \ {"449"},
             BankAnswers(r, BankDid(code), IF code \in noOtp THEN "bypass" ELSE "none",
                         CashInEnds(code))
      PROVE  SoundControl(r) /\ SoundOutside(r)
  <2> DEFINE noted == IF code \in noOtp THEN "bypass" ELSE "none"
             did == BankDid(code)
             outcome == CashInEnds(code)
  <2>1. noted \in Flags /\ noted # "failed" /\ did \in Deeds
    BY <1>2, CodesAre
  <2>2. noted = "bypass" => did = "delivered"
    BY CodesAre DEF IsSuccess
  <2>3. BankAnswers(r, did, noted, outcome)
    BY <1>4
  <2> HIDE DEF noted, did, outcome
  <2>4. QED
    BY <1>1, <2>1, <2>2, <2>3, BankAnswerIsSound
<1>5. QED
  BY <1>3, <1>4 DEF CashIn

\* "CASH IN REQUEST".
LEMMA CashInRequestIsSound ==
  ASSUME PayInv, NEW r \in Requests, CashInRequest(r)
  PROVE  Sound(r)
<1>1. Runs(r) /\ Cur(r).op = "CashInRequest"
  BY DEF CashInRequest, AtStep, Runs
<1>2. SoundControl(r) /\ SoundOutside(r)
  BY <1>1, CashInIsSound DEF CashInRequest
<1>3. QED
  BY <1>1, <1>2, ProviderIsSound DEF CashInRequest, BankOps

\* InitPayByToken's call of the bank.
LEMMA CashInBankGWIsSound ==
  ASSUME PayInv, NEW r \in Requests, CashInBankGW(r)
  PROVE  Sound(r)
<1>1. Runs(r) /\ Cur(r).op = "CashInBankGW"
  BY DEF CashInBankGW, AtStep, Runs
<1>2. SoundControl(r) /\ SoundOutside(r)
  BY <1>1, CashInIsSound DEF CashInBankGW
<1>3. QED
  BY <1>1, <1>2, ProviderIsSound DEF CashInBankGW, BankOps

\* "FAIL ORDER": only a payment that the bank made goes past it.
LEMMA FailUnpaidIsSound ==
  ASSUME PayInv, NEW r \in Requests, FailUnpaid(r)
  PROVE  Sound(r)
<1>1. Runs(r) /\ Cur(r).op = "FailUnpaid"
  BY DEF FailUnpaid, AtStep, Runs
<1>2. order[r] \in Orders /\ trans[r] \in Transactions
  BY <1>1, IsReady DEF Ready, NeedsOrder, NeedsTrans
<1>3. SoundTrans(r) /\ SoundRest
  BY <1>1, TransKept, RestKept DEF FailUnpaid, TransOps
<1>4. CASE flag[r] = "bypass" /\ StepOK(r) /\ UNCHANGED <<doc, order, service>>
  <2>1. SoundControl(r)
    BY <1>1, <1>4, OkIsSound
  <2>2. SoundOrder(r) /\ SoundService(r) /\ SoundOutside(r)
    BY <1>1, <1>4, OrderKept, ServiceKept, OutsideKept DEF FailUnpaid, OrderOps
  <2>3. QED
    BY <1>3, <2>1, <2>2 DEF Sound
<1>5. ASSUME StepFails(r), NEW outcome \in {"ok", "err", "lost"}, CancelEnds(trans[r].id, outcome),
             IF outcome = "ok" THEN ClosesOrder(r, "FAILED") ELSE UNCHANGED <<doc, order>>
      PROVE  Sound(r)
  <2>1. SoundControl(r) /\ ~ Advances(r)
    BY <1>1, <1>5, FailIsSound
  <2>2. SoundOutside(r)
    BY <2>1, OutsideKept DEF FailUnpaid
  <2>3. SoundOrder(r)
    BY <1>2, <1>5, <2>1, OrderKept, CloseIsSound
  <2>4. trans[r].id \in Requests \cup {NIL}
    BY <1>2 DEF Transactions
  <2>5. /\ tx' \in [Requests -> TransactionStatus] /\ state' \in [Requests -> TransactionState]
        /\ \A s \in Requests : state'[s] # state[s] => state[s] = "INITIAL"
    BY <1>5, <2>4, CancelIsSound
  <2>6. SoundService(r)
    BY <2>1, <2>5 DEF SoundService
  <2>7. QED
    BY <1>3, <2>1, <2>2, <2>3, <2>6 DEF Sound
<1>6. QED
  BY <1>4, <1>5 DEF FailUnpaid

\* "VERIFY OTP": only an OTP with which the bank has paid goes on.
LEMMA VerifyOtpIsSound ==
  ASSUME PayInv, NEW r \in Requests, VerifyOtp(r)
  PROVE  Sound(r)
<1>1. Runs(r) /\ Cur(r).op = "VerifyOtp" /\ Cur(r).op \in BankOps
  BY DEF VerifyOtp, AtStep, Runs, BankOps
<1>2. "delivered" \in Deeds /\ "failed" \in Flags
  BY DEF Deeds, Flags
<1>3. CASE BankAnswers(r, "delivered", "failed", "err")
  <2>1. SoundControl(r) /\ SoundOutside(r)
    BY <1>1, <1>2, <1>3, BankAnswerIsSound DEF VerifyOtp
  <2>2. QED
    BY <1>1, <2>1, ProviderIsSound DEF VerifyOtp
<1>4. ASSUME NEW code \in BankCodes \ {"453"},
             BankAnswers(r, BankDid(code),
                         CASE VerifyOTPEnds(code) = "err" -> "failed"
                           [] VerifyOTPEnds(code) = "ok" /\ code = "102" -> "verifying"
                           [] OTHER -> "none",
                         IF VerifyOTPEnds(code) = "ok" /\ code \in {"102", "449"} THEN "err"
                         ELSE VerifyOTPEnds(code))
      PROVE  Sound(r)
  <2> DEFINE noted == CASE VerifyOTPEnds(code) = "err" -> "failed"
                        [] VerifyOTPEnds(code) = "ok" /\ code = "102" -> "verifying"
                        [] OTHER -> "none"
             did == BankDid(code)
             outcome == IF VerifyOTPEnds(code) = "ok" /\ code \in {"102", "449"} THEN "err"
                        ELSE VerifyOTPEnds(code)
  <2>1. VerifyOTPEnds(code) \in {"ok", "err"}
    BY DEF VerifyOTPEnds
  <2>2. noted \in Flags /\ noted # "bypass" /\ (noted = "failed" => VerifyOTPEnds(code) = "err")
    BY <2>1 DEF Flags
  <2>3. noted = "failed" => outcome # "ok"
    BY <2>2
  <2>4. did \in Deeds /\ (outcome = "ok" => did = "delivered")
    BY CodesAre DEF VerifyOTPEnds
  <2>5. BankAnswers(r, did, noted, outcome)
    BY <1>4
  <2> HIDE DEF noted, did, outcome
  <2>6. SoundControl(r) /\ SoundOutside(r)
    BY <1>1, <2>2, <2>3, <2>4, <2>5, BankAnswerIsSound DEF VerifyOtp
  <2>7. QED
    BY <1>1, <2>6, ProviderIsSound DEF VerifyOtp
<1>5. QED
  BY <1>3, <1>4 DEF VerifyOtp

-----------------------------------------------------------------------------
(* The compensations.                                                      *)

\* A compensation finds the request in its rollback.
LEMMA InRollback ==
  ASSUME NEW r \in Requests, NEW comp, AtComp(r, comp)
  PROVE  phase[r] = "abort" /\ pc[r] > 0 /\ ~ Runs(r) /\ ~ Advances(r) /\ Cur(r).comp = comp
BY DEF AtComp, Runs, Advances

\* A step without a CompensateFunc.
LEMMA CompensateNoneIsSound ==
  ASSUME PayInv, NEW r \in Requests, CompensateNone(r)
  PROVE  Sound(r)
<1>1. phase[r] = "abort" /\ pc[r] > 0 /\ ~ Advances(r)
  BY InRollback DEF CompensateNone
<1>2. SoundOrder(r) /\ SoundTrans(r) /\ SoundService(r) /\ SoundOutside(r) /\ SoundRest
  BY <1>1, OrderKept, TransKept, ServiceKept, OutsideKept, RestKept DEF CompensateNone, copies
<1>3. QED
  BY <1>1, <1>2, UndoIsSound DEF CompensateNone, Sound

\* The compensations that only move the order.
LEMMA CompensateOrderIsSound ==
  ASSUME PayInv, NEW r \in Requests, CompensateOrder(r)
  PROVE  Sound(r)
<1>1. phase[r] = "abort" /\ pc[r] > 0 /\ ~ Advances(r)
  BY InRollback DEF CompensateOrder
<1>2. SoundTrans(r) /\ SoundService(r) /\ SoundOutside(r) /\ SoundRest
  BY <1>1, TransKept, ServiceKept, OutsideKept, RestKept DEF CompensateOrder
<1>3. SoundControl(r) /\ SoundOrder(r)
  BY <1>1, MoveIsSound DEF CompensateOrder, FailIfOpen, CancelIfOpen, FailAlways, VerifyIfNot
<1>4. QED
  BY <1>2, <1>3 DEF Sound

\* The compensations that give the voucher back.
LEMMA CompensateVoucherIsSound ==
  ASSUME PayInv, NEW r \in Requests, CompensateVoucher(r)
  PROVE  Sound(r)
<1>1. phase[r] = "abort" /\ pc[r] > 0 /\ ~ Advances(r)
  BY InRollback DEF CompensateVoucher
<1>2. SoundTrans(r) /\ SoundService(r) /\ SoundOutside(r)
  BY <1>1, TransKept, ServiceKept, OutsideKept DEF CompensateVoucher
<1>3. SoundRest
  BY DEF CompensateVoucher, ReverseVoucher, SoundRest, PayInv, Typed
<1>4. SoundControl(r) /\ SoundOrder(r)
  <2>1. CASE (IF order[r] = NIL THEN Panics(r) ELSE Compensated(r)) /\ UNCHANGED <<doc, order>>
    BY <1>1, <2>1, PanicIsSound, UndoIsSound, OrderKept
  <2>2. CASE FailIfOpen(r)
    BY <1>1, <2>2, MoveIsSound DEF FailIfOpen
  <2>3. QED
    BY <2>1, <2>2 DEF CompensateVoucher
<1>5. QED
  BY <1>2, <1>3, <1>4 DEF Sound

\* The compensation of "INIT PAYMENT".
LEMMA CancelPaymentIsSound ==
  ASSUME PayInv, NEW r \in Requests, CancelPayment(r)
  PROVE  Sound(r)
<1>1. phase[r] = "abort" /\ pc[r] > 0 /\ ~ Runs(r) /\ ~ Advances(r)
  BY InRollback DEF CancelPayment
<1>2. SoundOutside(r) /\ SoundRest
  BY <1>1, OutsideKept, RestKept DEF CancelPayment
<1>3. SoundControl(r) /\ SoundOrder(r)
  BY <1>1, MoveIsSound DEF CancelPayment, FailIfOpen
<1>4. SoundTrans(r) /\ SoundService(r)
  <2>1. CASE UNCHANGED <<trans, service>>
    BY <1>1, <2>1, TransKept, ServiceKept
  <2>2. CASE trans[r] # NIL /\ CancelTransaction(r)
    <3>1. trans[r] \in Transactions
      BY <2>2 DEF PayInv, Typed
    <3>2. QED
      BY <1>1, <2>2, <3>1, CancelTransactionIsSound
  <2>3. QED
    BY <2>1, <2>2 DEF CancelPayment
<1>5. QED
  BY <1>2, <1>3, <1>4 DEF Sound

\* The ways in which a compensation deals with the transaction and the order
\* together: it panics, parks them, undoes them, or does nothing.
LEMMA RollbackIsSound ==
  ASSUME PayInv, NEW r \in Requests, phase[r] = "abort", pc[r] > 0,
         UNCHANGED <<flow, flag, voucher, outside, around>>,
         \/ TransIsNil(r)
         \/ ParkPending(r)
         \/ trans[r] \in Transactions /\ CancelTransaction(r) /\ FailAlways(r)
         \/ Compensated(r) /\ UNCHANGED <<trans, service, doc, order>>
         \/ VerifyIfNot(r) /\ UNCHANGED <<trans, service>>
  PROVE  Sound(r)
<1>1. ~ Runs(r) /\ ~ Advances(r)
  BY DEF Runs, Advances
<1>2. SoundOutside(r) /\ SoundRest
  BY <1>1, OutsideKept, RestKept
<1>3. CASE TransIsNil(r)
  <2>1. SoundControl(r)
    BY <1>3, PanicIsSound DEF TransIsNil
  <2>2. SoundOrder(r) /\ SoundTrans(r) /\ SoundService(r)
    BY <1>1, <1>3, OrderKept, TransKept, ServiceKept DEF TransIsNil
  <2>3. QED
    BY <1>2, <2>1, <2>2 DEF Sound
<1>4. CASE ParkPending(r)
  <2>1. SoundControl(r) /\ SoundOrder(r)
    BY <1>4, MoveIsSound DEF ParkPending, VerifyIfNot
  <2>2. trans[r] \in Transactions
    BY <1>4 DEF ParkPending, PayInv, Typed
  <2>3. SoundTrans(r) /\ SoundService(r)
    BY <1>1, <1>4, <2>2, MarkIsSound DEF ParkPending
  <2>4. QED
    BY <1>2, <2>1, <2>3 DEF Sound
<1>5. CASE trans[r] \in Transactions /\ CancelTransaction(r) /\ FailAlways(r)
  <2>1. SoundControl(r) /\ SoundOrder(r)
    BY <1>5, MoveIsSound DEF FailAlways
  <2>2. SoundTrans(r) /\ SoundService(r)
    BY <1>1, <1>5, CancelTransactionIsSound
  <2>3. QED
    BY <1>2, <2>1, <2>2 DEF Sound
<1>6. CASE Compensated(r) /\ UNCHANGED <<trans, service, doc, order>>
  <2>1. SoundControl(r)
    BY <1>6, UndoIsSound
  <2>2. SoundOrder(r) /\ SoundTrans(r) /\ SoundService(r)
    BY <1>1, <1>6, OrderKept, TransKept, ServiceKept
  <2>3. QED
    BY <1>2, <2>1, <2>2 DEF Sound
<1>7. CASE VerifyIfNot(r) /\ UNCHANGED <<trans, service>>
  <2>1. SoundControl(r) /\ SoundOrder(r)
    BY <1>7, MoveIsSound DEF VerifyIfNot
  <2>2. SoundTrans(r) /\ SoundService(r)
    BY <1>1, <1>7, TransKept, ServiceKept
  <2>3. QED
    BY <1>2, <2>1, <2>2 DEF Sound
<1>8. QED
  BY <1>3, <1>4, <1>5, <1>6, <1>7

\* The compensation of a provider's call.
LEMMA UndoProviderIsSound ==
  ASSUME PayInv, NEW r \in Requests, UndoProvider(r)
  PROVE  Sound(r)
<1>1. phase[r] = "abort" /\ pc[r] > 0
  BY InRollback DEF UndoProvider
<1>2. trans[r] # NIL => trans[r] \in Transactions
  BY DEF PayInv, Typed
<1>3. QED
  BY <1>1, <1>2, RollbackIsSound DEF UndoProvider

\* The compensation of "VERIFY OTP".
LEMMA UndoOtpIsSound ==
  ASSUME PayInv, NEW r \in Requests, UndoOtp(r)
  PROVE  Sound(r)
<1>1. /\ phase[r] = "abort" /\ pc[r] > 0
      /\ Cur(r).comp = "UndoOtp" \/ Cur(r).comp = "UndoTokenOtp"
  BY InRollback DEF UndoOtp, AtUndoOtp
<1>2. trans[r] # NIL => trans[r] \in Transactions
  BY DEF PayInv, Typed
<1>3. AtUndoOtp(r) /\ flag[r] = "failed" => trans[r] \in Transactions
  BY <1>1, <1>2, UndoIsReady DEF AtUndoOtp, AtComp
<1>4. QED
  BY <1>1, <1>3, RollbackIsSound DEF UndoOtp

\* The compensations of "FINALIZATION PAYMENT" and "SUCCESS ORDER".
LEMMA ParkIsSound ==
  ASSUME PayInv, NEW r \in Requests, Park(r)
  PROVE  Sound(r)
<1>1. phase[r] = "abort" /\ pc[r] > 0
  BY InRollback DEF Park
<1>2. QED
  BY <1>1, RollbackIsSound DEF Park

\* Every step and every compensation is sound.
LEMMA WorkIsSound ==
  ASSUME PayInv, NEW r \in Requests, Execute(r) \/ Compensate(r)
  PROVE  Sound(r)
<1>1. CASE Execute(r)
  BY <1>1, FindOrderIsSound, FindTransactionIsSound, CheckIsSound, InitOrderIsSound,
     ProcessingOrderIsSound, SuccessOrderIsSound, CancelOrderIsSound, CancelInitialIsSound,
     AccountVoucherIsSound, InitPaymentIsSound, ConfirmTransIsSound, SkipStepIsSound,
     CallProviderIsSound, CallTransferIsSound, CashInRequestIsSound, CashInBankGWIsSound,
     FailUnpaidIsSound, VerifyOtpIsSound
     DEF Execute
<1>2. CASE Compensate(r)
  BY <1>2, CompensateNoneIsSound, CompensateOrderIsSound, CompensateVoucherIsSound,
     CancelPaymentIsSound, UndoProviderIsSound, UndoOtpIsSound, ParkIsSound
     DEF Compensate
<1>3. QED
  BY <1>1, <1>2

\* A sound step keeps the invariant.
LEMMA SoundKeeps ==
  ASSUME PayInv, NEW r \in Requests, Sound(r)
  PROVE  PayInv'
<1>1. /\ flow' = flow
      /\ \A q \in Requests \ {r} :
           phase'[q] = phase[q] /\ pc'[q] = pc[q] /\ failedAt'[q] = failedAt[q]
      /\ Advances(r) \/ Fails(r) \/ Undoes(r)
  BY DEF Sound, SoundControl, SoundRest
<1>2. \A q \in Requests : Steps(q)' = Steps(q) /\ flow'[q] = flow[q]
  BY <1>1 DEF Steps
<1>3. \A q \in Requests : Len(Steps(q)) \in Nat /\ pc[q] \in Nat /\ failedAt[q] \in Nat
  BY StepsSound DEF SoundFlow, PayInv, Typed
<1>4. Runs(r) => Ready(r) /\ pc[r] >= 1
  BY IsReady DEF PayInv, Control, Runs
<1>5. \A q \in Requests \ {r} :
        /\ Past(q, OrderOps)' <=> Past(q, OrderOps)
        /\ Past(q, TransOps)' <=> Past(q, TransOps)
        /\ Past(q, OpeningOps)' <=> Past(q, OpeningOps)
        /\ Past(q, BankOps)' <=> Past(q, BankOps)
        /\ Past(q, PaidOps)' <=> Past(q, PaidOps)
        /\ Past(q, {"ConfirmTrans"})' <=> Past(q, {"ConfirmTrans"})
        /\ Past(q, {"ConfirmIfBypass"})' <=> Past(q, {"ConfirmIfBypass"})
        /\ Past(q, {"InitOrder"})' <=> Past(q, {"InitOrder"})
  BY <1>1, PastStays, Zenon
<1>6. Advances(r) =>
        /\ Past(r, OrderOps)' <=> Past(r, OrderOps) \/ Cur(r).op \in OrderOps
        /\ Past(r, TransOps)' <=> Past(r, TransOps) \/ Cur(r).op \in TransOps
        /\ Past(r, OpeningOps)' <=> Past(r, OpeningOps) \/ Cur(r).op \in OpeningOps
        /\ Past(r, BankOps)' <=> Past(r, BankOps) \/ Cur(r).op \in BankOps
        /\ Past(r, PaidOps)' <=> Past(r, PaidOps) \/ Cur(r).op \in PaidOps
        /\ Past(r, {"ConfirmTrans"})' <=>
             Past(r, {"ConfirmTrans"}) \/ Cur(r).op \in {"ConfirmTrans"}
        /\ Past(r, {"ConfirmIfBypass"})' <=>
             Past(r, {"ConfirmIfBypass"}) \/ Cur(r).op \in {"ConfirmIfBypass"}
        /\ Past(r, {"InitOrder"})' <=> Past(r, {"InitOrder"}) \/ Cur(r).op \in {"InitOrder"}
  <2>1. SUFFICES ASSUME Advances(r) PROVE \A ops : Past(r, ops)' <=> Past(r, ops) \/ Cur(r).op \in ops
    BY Zenon
  <2>2. pc[r] >= 1 /\ pc'[r] = pc[r] + 1
    BY <1>4, <2>1 DEF Advances
  <2>3. QED
    BY <1>1, <1>3, <2>2, PastGrows, Zenon
<1>7. /\ Advances(r) => phase[r] = "run" /\ phase'[r] = "run"
      /\ Fails(r) => phase[r] = "run" /\ phase'[r] = "abort"
      /\ Undoes(r) => phase[r] = "abort" /\ phase'[r] \in {"abort", "panic"}
  BY DEF Advances, Fails, Undoes, Runs
<1>8. SomeCharged => SomeCharged'
  BY DEF Sound, SoundService, SomeCharged, Charged
<1>9. SomePaid => SomePaid'
  <2>1. \A q \in Requests : bank[q] = "delivered" => bank'[q] = "delivered"
    BY <1>4 DEF Ready, Sound, SoundOutside
  <2>2. QED
    BY <2>1 DEF SomePaid
<1>10. Typed'
  <2>1. \A q \in Requests : pc'[q] <= Len(Steps(q)') + 1 /\ failedAt'[q] <= Len(Steps(q)')
    <3>1. \A q \in Requests : pc[q] <= Len(Steps(q)) + 1 /\ failedAt[q] <= Len(Steps(q))
      BY DEF PayInv, Typed
    <3>2. pc'[r] <= Len(Steps(r)) + 1 /\ failedAt'[r] <= Len(Steps(r))
      BY <1>1, <1>3, <3>1 DEF Advances, Fails, Undoes, Runs
    <3>3. QED
      BY <1>1, <1>2, <3>1, <3>2
  <2>2. flow' \in Flows /\ timeUp' \in BOOLEAN /\ crashes' \in 0 .. MaxCrashes
        /\ job' \in [at : JobAts, read : Orders \cup {NIL}]
    BY DEF PayInv, Typed, Sound, SoundRest, around
  <2>3. QED
    BY <2>1, <2>2 DEF Typed, Sound, SoundControl, SoundOrder, SoundTrans, SoundService,
                      SoundOutside, SoundRest
<1>11. Control'
  <2>1. SUFFICES ASSUME NEW q \in Requests
                 PROVE  /\ phase'[q] \in {"idle", "refused"} => pc'[q] = 1 /\ failedAt'[q] = 0
                        /\ phase'[q] = "run" => pc'[q] >= 1 /\ failedAt'[q] = 0
                        /\ phase'[q] = "done" => pc'[q] = Len(Steps(q)') + 1 /\ failedAt'[q] = 0
                        /\ phase'[q] = "abort" => failedAt'[q] >= 1 /\ pc'[q] <= failedAt'[q]
    BY DEF Control
  <2>2. CASE q # r
    BY <1>1, <1>2, <2>2 DEF PayInv, Control
  <2>3. CASE q = r
    BY <1>1, <1>2, <1>3, <1>4, <2>3 DEF PayInv, Control, Advances, Fails, Undoes, Runs
  <2>4. QED
    BY <2>2, <2>3
<1>12. HasOrder'
  <2>1. SUFFICES ASSUME NEW q \in Requests, Going(q)', flow[q] \in KnowsOrder \/ Past(q, OrderOps)'
                 PROVE  order'[q] # NIL
    BY <1>2 DEF HasOrder
  <2>2. CASE q # r
    BY <1>1, <1>5, <2>1, <2>2 DEF PayInv, HasOrder, Going, Sound, SoundOrder
  <2>3. CASE q = r
    BY <1>1, <1>6, <1>7, <2>1, <2>3 DEF PayInv, HasOrder, Going, Sound, SoundOrder
  <2>4. QED
    BY <2>2, <2>3
<1>13. HasTrans'
  <2>1. SUFFICES ASSUME NEW q \in Requests, Going(q)', flow[q] \in TokenByPass \/ Past(q, TransOps)'
                 PROVE  HoldsTrans(q)'
    BY <1>2 DEF HasTrans
  <2>2. CASE q # r
    BY <1>1, <1>5, <2>1, <2>2 DEF PayInv, HasTrans, HoldsTrans, Going, Sound, SoundTrans
  <2>3. CASE q = r
    BY <1>1, <1>6, <1>7, <2>1, <2>3 DEF PayInv, HasTrans, Going, Sound, SoundTrans
  <2>4. QED
    BY <2>2, <2>3
<1>14. FailedOtp'
  <2>1. SUFFICES ASSUME NEW q \in Requests, flag'[q] = "failed"
                 PROVE  /\ phase'[q] \in {"abort", "failed", "panic", "crashed"}
                        /\ phase'[q] = "abort" =>
                             /\ Steps(q)[failedAt'[q]].op = "VerifyOtp"
                             /\ pc'[q] = failedAt'[q] => trans'[q] # NIL
    BY <1>2 DEF FailedOtp
  <2>2. CASE q # r
    BY <1>1, <2>1, <2>2 DEF PayInv, FailedOtp, Sound, SoundOutside, SoundTrans
  <2>3. CASE q = r /\ flag[r] = "failed"
    <3>1. Undoes(r)
      BY <1>1, <1>7, <2>3 DEF PayInv, FailedOtp
    <3>2. pc'[r] = failedAt'[r] => phase'[r] # "abort"
      BY <1>3, <3>1 DEF Undoes, PayInv, Control
    <3>3. QED
      BY <2>3, <3>1, <3>2 DEF Undoes, PayInv, FailedOtp
  <2>4. CASE q = r /\ flag[r] # "failed"
    <3>1. Fails(r) /\ Cur(r).op = "VerifyOtp" /\ trans'[r] = trans[r]
      BY <2>1, <2>4 DEF Sound, SoundOutside
    <3>2. trans[r] # NIL
      BY <1>4, <3>1, NilAssumption DEF Fails, Ready, NeedsTrans
    <3>3. QED
      BY <2>4, <3>1, <3>2 DEF Fails, Cur
  <2>5. QED
    BY <2>2, <2>3, <2>4
<1>15. OpensOnce'
  <2>1. SUFFICES ASSUME NEW q \in Requests, Ahead(q)', ~ Past(q, OpeningOps)'
                 PROVE  state'[q] = "NONE"
    BY DEF OpensOnce
  <2>2. CASE q # r
    BY <1>1, <1>5, <2>1, <2>2 DEF PayInv, OpensOnce, Ahead, Sound, SoundService
  <2>3. CASE q = r
    BY <1>1, <1>6, <1>7, <2>1, <2>3 DEF PayInv, OpensOnce, Ahead, Sound, SoundService
  <2>4. QED
    BY <2>2, <2>3
<1>16. AsksOnce'
  <2>1. SUFFICES ASSUME NEW q \in Requests, Ahead(q)', ~ Past(q, BankOps)'
                 PROVE  bank'[q] = "idle"
    BY DEF AsksOnce
  <2>2. CASE q # r
    BY <1>1, <1>5, <2>1, <2>2 DEF PayInv, AsksOnce, Ahead, Sound, SoundOutside
  <2>3. CASE q = r
    BY <1>1, <1>6, <1>7, <2>1, <2>3 DEF PayInv, AsksOnce, Ahead, Sound, SoundOutside
  <2>4. QED
    BY <2>2, <2>3
<1>17. Confirmed'
  <2>1. SUFFICES ASSUME NEW q \in Requests, phase'[q] = "run",
                        \/ Past(q, {"ConfirmTrans"})'
                        \/ Past(q, {"ConfirmIfBypass"})' /\ flag'[q] = "bypass"
                 PROVE  SomeCharged'
    BY DEF Confirmed
  <2>2. CASE q # r
    BY <1>1, <1>5, <1>8, <2>1, <2>2 DEF PayInv, Confirmed, Sound, SoundOutside
  <2>3. CASE q = r
    <3>1. Advances(r) /\ Runs(r) /\ Ready(r)
      BY <1>1, <1>4, <1>7, <2>1, <2>3 DEF Advances
    <3>2. CASE Past(r, {"ConfirmTrans"})
      BY <1>7, <1>8, <3>1, <3>2 DEF PayInv, Confirmed
    <3>3. CASE Past(r, {"ConfirmIfBypass"}) /\ flag'[r] = "bypass"
      <4>1. flag[r] = "bypass"
        BY <3>1, <3>3 DEF Ready, Sound, SoundOutside
      <4>2. QED
        BY <1>7, <1>8, <3>1, <3>3, <4>1 DEF PayInv, Confirmed
    <3>4. CASE Cur(r).op = "ConfirmTrans"
      BY <3>1, <3>4 DEF Sound, SoundService
    <3>5. CASE Cur(r).op = "ConfirmIfBypass" /\ flag'[r] = "bypass"
      <4>1. flag[r] = "bypass"
        BY <3>5 DEF Sound, SoundOutside, BankOps
      <4>2. QED
        BY <3>1, <3>5, <4>1 DEF Sound, SoundService
    <3>6. QED
      BY <1>6, <2>1, <2>3, <3>1, <3>2, <3>3, <3>4, <3>5
  <2>4. QED
    BY <2>2, <2>3
<1>18. PaidByBank'
  <2>1. SUFFICES ASSUME NEW q \in Requests
                 PROVE  /\ phase'[q] = "run" /\ Past(q, PaidOps)' => SomePaid'
                        /\ flag'[q] = "bypass" => SomePaid'
    BY DEF PaidByBank
  <2>2. CASE q # r
    BY <1>1, <1>5, <1>9, <2>2 DEF PayInv, PaidByBank, Sound, SoundOutside
  <2>3. CASE q = r
    <3>1. bank'[r] = "delivered" => SomePaid'
      BY DEF SomePaid
    <3>2. flag'[r] = "bypass" => SomePaid'
      BY <1>9, <3>1 DEF PayInv, PaidByBank, Sound, SoundOutside
    <3>3. phase'[r] = "run" /\ Past(r, PaidOps)' => SomePaid'
      BY <1>1, <1>6, <1>7, <1>9, <3>1 DEF PayInv, PaidByBank, Sound, SoundOutside
    <3>4. QED
      BY <2>3, <3>2, <3>3
  <2>4. QED
    BY <2>2, <2>3
<1>19. Creation'
  <2>1. ASSUME NEW q \in Requests, Ahead(q)', HasOp(flow[q], "InitOrder"), ~ Past(q, {"InitOrder"})'
        PROVE  doc' = NIL
    <3>1. CASE q = r
      <4>1. Advances(r)
        BY <1>1, <1>7, <2>1, <3>1 DEF Ahead
      <4>2. ~ Past(r, {"InitOrder"}) /\ Cur(r).op # "InitOrder"
        BY <1>6, <2>1, <3>1, <4>1
      <4>3. doc = NIL
        BY <1>7, <2>1, <3>1, <4>1, <4>2 DEF PayInv, Creation, Ahead
      <4>4. QED
        BY <4>2, <4>3 DEF Sound, SoundOrder
    <3>2. CASE q # r
      <4>1. doc = NIL
        BY <1>1, <1>5, <2>1, <3>2 DEF PayInv, Creation, Ahead
      <4>2. ASSUME Runs(r), Cur(r).op = "InitOrder"
            PROVE  FALSE
        <5>1. pc[r] \in DOMAIN Steps(r)
          BY <1>3, <1>4, <4>2, StepsSound DEF Runs, SoundFlow, PayInv, Typed
        <5>2. HasOp(flow[r], "InitOrder")
          BY <4>2, <5>1 DEF HasOp, Cur, Steps
        <5>3. QED
          BY <2>1, <3>2, <5>2, OneCreator DEF PayInv, Typed
      <4>3. QED
        BY <4>1, <4>2 DEF Sound, SoundOrder
    <3>3. QED
      BY <3>1, <3>2
  <2>2. ASSUME doc' = NIL, NEW q \in Requests
        PROVE  order'[q] = NIL
    BY <2>2 DEF Sound, SoundOrder, PayInv, Creation
  <2>3. (timeUp' => doc' # NIL) /\ (job'.at # "idle" => job'.read # NIL /\ doc' # NIL)
    BY DEF Sound, SoundOrder, SoundRest, around, PayInv, Creation
  <2>4. QED
    BY <1>2, <2>1, <2>2, <2>3 DEF Creation
<1>20. GoodsAfterBankPaid'
  <2>1. SUFFICES ASSUME NEW q \in Requests, flow[q] \in TokenFlows, provider'[q] # "idle"
                 PROVE  SomePaid'
    BY <1>2 DEF GoodsAfterBankPaid, SomePaid
  <2>2. CASE provider[q] # "idle"
    BY <1>9, <2>1, <2>2 DEF PayInv, GoodsAfterBankPaid, SomePaid
  <2>3. CASE provider[q] = "idle"
    <3>1. q = r /\ Runs(r) /\ Cur(r).op = "CallProvider"
      BY <2>1, <2>3 DEF Sound, SoundOutside
    <3>2. QED
      BY <1>4, <1>9, <2>1, <3>1 DEF Ready
  <2>4. QED
    BY <2>2, <2>3
<1>21. SuccessIsPaid'
  <2>1. doc' # NIL /\ doc'.status = "SUCCESS" => SomeCharged'
    BY <1>8 DEF Sound, SoundOrder
  <2>2. QED
    BY <2>1 DEF SuccessIsPaid, SomeCharged
<1>22. QED
  BY <1>10, <1>11, <1>12, <1>13, <1>14, <1>15, <1>16, <1>17, <1>18, <1>19, <1>20, <1>21 DEF PayInv

-----------------------------------------------------------------------------
(* The beginning and the end of a request.                                 *)

\* The requests are where they were.
LEMMA PastSame ==
  ASSUME flow' = flow, pc' = pc
  PROVE  \A q \in Requests :
           /\ Past(q, OrderOps)' <=> Past(q, OrderOps)
           /\ Past(q, TransOps)' <=> Past(q, TransOps)
           /\ Past(q, OpeningOps)' <=> Past(q, OpeningOps)
           /\ Past(q, BankOps)' <=> Past(q, BankOps)
           /\ Past(q, PaidOps)' <=> Past(q, PaidOps)
           /\ Past(q, {"ConfirmTrans"})' <=> Past(q, {"ConfirmTrans"})
           /\ Past(q, {"ConfirmIfBypass"})' <=> Past(q, {"ConfirmIfBypass"})
           /\ Past(q, {"InitOrder"})' <=> Past(q, {"InitOrder"})
BY PastStays, Zenon

\* What a request that begins may do: take copies of what is there.
Enters(r) ==
  /\ UNCHANGED <<flow, pc, failedAt, doc, service, voucher, outside, around>>
  /\ phase[r] = "idle"
  /\ \E p \in {"run", "refused"} : phase' = [phase EXCEPT ![r] = p]
  /\ order' \in [Requests -> Orders \cup {NIL}] /\ trans' \in [Requests -> Transactions \cup {NIL}]
  /\ flag' \in [Requests -> Flags]
  /\ \A q \in Requests \ {r} : order'[q] = order[q] /\ trans'[q] = trans[q] /\ flag'[q] = flag[q]
  /\ doc = NIL => order'[r] = NIL
  /\ phase'[r] = "run" /\ flow[r] \in KnowsOrder => order'[r] # NIL
  /\ phase'[r] = "run" /\ flow[r] \in TokenByPass => HoldsTrans(r)'
  /\ flag'[r] # "failed" /\ (flag'[r] = "bypass" => SomePaid)

\* The requests that look their order up themselves.
LEMMA BeginEnters ==
  ASSUME PayInv, NEW r \in Requests, Begin(r)
  PROVE  Enters(r)
<1>1. /\ phase[r] = "idle" /\ flow[r] \notin TokenByPass
      /\ phase \in [Requests -> Phases] /\ order \in [Requests -> Orders \cup {NIL}]
      /\ doc \in Orders \cup {NIL}
      /\ doc = NIL => order[r] = NIL
      /\ trans' = trans /\ flag' = flag
  BY DEF Begin, PayInv, Typed, Creation
<1>2. flag[r] # "failed" /\ (flag[r] = "bypass" => SomePaid)
  BY <1>1 DEF PayInv, FailedOtp, PaidByBank
<1>3. trans' \in [Requests -> Transactions \cup {NIL}] /\ flag' \in [Requests -> Flags]
  BY <1>1 DEF PayInv, Typed
<1>4. CASE /\ flow[r] \in Validated => GetValidOrder(doc)
           /\ phase' = [phase EXCEPT ![r] = "run"]
           /\ order' = [order EXCEPT ![r] = IF flow[r] \in Validated THEN doc ELSE NIL]
  <2>1. flow[r] \in KnowsOrder => order'[r] # NIL
    BY <1>1, <1>4 DEF GetValidOrder, KnowsOrder
  <2>2. QED
    BY <1>1, <1>2, <1>3, <1>4, <2>1 DEF Begin, Enters
<1>5. CASE phase' = [phase EXCEPT ![r] = "refused"] /\ UNCHANGED order
  BY <1>1, <1>2, <1>3, <1>5 DEF Begin, Enters
<1>6. QED
  BY <1>4, <1>5 DEF Begin

\* The requests that go on from InitPayByToken, once it has returned.
LEMMA BeginByPassEnters ==
  ASSUME PayInv, NEW r \in Requests, BeginByPass(r)
  PROVE  Enters(r)
<1>1. /\ phase[r] = "idle"
      /\ phase \in [Requests -> Phases] /\ order \in [Requests -> Orders \cup {NIL}]
      /\ trans \in [Requests -> Transactions \cup {NIL}] /\ flag \in [Requests -> Flags]
      /\ doc = NIL => \A q \in Requests : order[q] = NIL
      /\ flow \in Flows
  BY DEF BeginByPass, PayInv, Typed, Creation
<1>2. \A q \in Requests : flag[q] = "bypass" => SomePaid
  BY DEF PayInv, PaidByBank
<1>3. ASSUME NEW q \in Requests, flow[q] \in TokenInit, phase[q] = "done",
             phase' = [phase EXCEPT ![r] = "run"],
             order' = [order EXCEPT ![r] = order[q]],
             trans' = [trans EXCEPT ![r] = trans[q]],
             flag' = [flag EXCEPT ![r] = flag[q]]
      PROVE  Enters(r)
  <2>1. pc[q] = Len(Steps(q)) + 1
    BY <1>3 DEF PayInv, Control
  <2>2. Past(q, OrderOps) /\ Past(q, TransOps)
    BY <1>1, <1>3, <2>1, StepsSound DEF SoundFlow, Past
  <2>3. order[q] # NIL /\ HoldsTrans(q)
    BY <1>3, <2>2 DEF PayInv, HasOrder, HasTrans, Going
  <2>4. HoldsTrans(r)'
    BY <1>1, <1>3, <2>3 DEF HoldsTrans
  <2>5. flag[q] # "failed"
    BY <1>3 DEF PayInv, FailedOtp
  <2>6. QED
    BY <1>1, <1>2, <1>3, <2>3, <2>4, <2>5 DEF BeginByPass, Enters
<1>4. CASE phase' = [phase EXCEPT ![r] = "refused"] /\ UNCHANGED copies
  <2>1. flag[r] # "failed"
    BY <1>1 DEF PayInv, FailedOtp
  <2>2. QED
    BY <1>1, <1>2, <1>4, <2>1 DEF BeginByPass, Enters, copies
<1>5. QED
  BY <1>3, <1>4 DEF BeginByPass

\* A request that begins keeps the invariant.
LEMMA EntersKeeps ==
  ASSUME PayInv, NEW r \in Requests, Enters(r)
  PROVE  PayInv'
<1>1. /\ flow' = flow /\ pc' = pc /\ failedAt' = failedAt /\ doc' = doc /\ tx' = tx /\ state' = state
      /\ voucher' = voucher /\ provider' = provider /\ bank' = bank /\ timeUp' = timeUp
      /\ job' = job /\ crashes' = crashes
  BY DEF Enters, service, outside, around
<1>2. /\ phase \in [Requests -> Phases] /\ phase[r] = "idle" /\ phase'[r] \in {"run", "refused"}
      /\ \A q \in Requests \ {r} : phase'[q] = phase[q]
      /\ phase' \in [Requests -> Phases]
  BY DEF Enters, PayInv, Typed, Phases
<1>3. \A q \in Requests : Steps(q)' = Steps(q)
  BY <1>1 DEF Steps
<1>4. pc[r] = 1 /\ failedAt[r] = 0
  BY <1>2 DEF PayInv, Control
<1>5. ~ Past(r, OrderOps) /\ ~ Past(r, TransOps) /\ ~ Past(r, PaidOps)
      /\ ~ Past(r, {"ConfirmTrans"}) /\ ~ Past(r, {"ConfirmIfBypass"})
  BY <1>4 DEF Past, Earlier
<1>6. \A q \in Requests :
        /\ Past(q, OrderOps)' <=> Past(q, OrderOps)
        /\ Past(q, TransOps)' <=> Past(q, TransOps)
        /\ Past(q, OpeningOps)' <=> Past(q, OpeningOps)
        /\ Past(q, BankOps)' <=> Past(q, BankOps)
        /\ Past(q, PaidOps)' <=> Past(q, PaidOps)
        /\ Past(q, {"ConfirmTrans"})' <=> Past(q, {"ConfirmTrans"})
        /\ Past(q, {"ConfirmIfBypass"})' <=> Past(q, {"ConfirmIfBypass"})
        /\ Past(q, {"InitOrder"})' <=> Past(q, {"InitOrder"})
  BY <1>1, PastSame, Zenon
<1>7. SomePaid' = SomePaid /\ SomeCharged' = SomeCharged
  BY <1>1 DEF SomePaid, SomeCharged, Charged
<1>8. Typed'
  BY <1>1, <1>2, <1>3 DEF PayInv, Typed, Enters
<1>9. Control'
  BY <1>1, <1>2, <1>3, <1>4 DEF PayInv, Control
<1>10. HasOrder'
  BY <1>1, <1>2, <1>5, <1>6 DEF PayInv, HasOrder, Going, Enters
<1>11. HasTrans'
  <2>1. SUFFICES ASSUME NEW q \in Requests, Going(q)', flow[q] \in TokenByPass \/ Past(q, TransOps)'
                 PROVE  HoldsTrans(q)'
    BY <1>1 DEF HasTrans
  <2>2. CASE q # r
    BY <1>1, <1>2, <1>6, <2>1, <2>2 DEF PayInv, HasTrans, HoldsTrans, Going, Enters
  <2>3. CASE q = r
    BY <1>2, <1>5, <1>6, <2>1, <2>3 DEF Going, Enters
  <2>4. QED
    BY <2>2, <2>3
<1>12. FailedOtp'
  BY <1>1, <1>2, <1>3 DEF PayInv, FailedOtp, Enters
<1>13. OpensOnce' /\ AsksOnce'
  BY <1>1, <1>2, <1>6 DEF PayInv, OpensOnce, AsksOnce, Ahead
<1>14. Confirmed'
  BY <1>2, <1>5, <1>6, <1>7 DEF PayInv, Confirmed, Enters
<1>15. PaidByBank'
  BY <1>2, <1>5, <1>6, <1>7 DEF PayInv, PaidByBank, Enters
<1>16. Creation'
  BY <1>1, <1>2, <1>6 DEF PayInv, Creation, Ahead, Enters
<1>17. GoodsAfterBankPaid' /\ SuccessIsPaid'
  BY <1>1 DEF PayInv, GoodsAfterBankPaid, SuccessIsPaid, Charged
<1>18. QED
  BY <1>8, <1>9, <1>10, <1>11, <1>12, <1>13, <1>14, <1>15, <1>16, <1>17 DEF PayInv

\* Play returns.
LEMMA ReturnKeeps ==
  ASSUME PayInv, NEW r \in Requests, Return(r)
  PROVE  PayInv'
<1>1. /\ flow' = flow /\ pc' = pc /\ failedAt' = failedAt /\ doc' = doc /\ tx' = tx /\ state' = state
      /\ voucher' = voucher /\ provider' = provider /\ bank' = bank /\ timeUp' = timeUp
      /\ job' = job /\ crashes' = crashes /\ order' = order /\ trans' = trans /\ flag' = flag
  BY DEF Return, copies, service, outside, around
<1>2. /\ phase \in [Requests -> Phases]
      /\ \/ phase[r] = "run" /\ pc[r] > Len(Steps(r)) /\ phase'[r] = "done"
         \/ phase[r] = "abort" /\ phase'[r] = "failed"
      /\ \A q \in Requests \ {r} : phase'[q] = phase[q]
      /\ phase' \in [Requests -> Phases]
  BY DEF Return, PayInv, Typed, Phases
<1>3. \A q \in Requests : Steps(q)' = Steps(q)
  BY <1>1 DEF Steps
<1>4. \A q \in Requests :
        /\ Past(q, OrderOps)' <=> Past(q, OrderOps)
        /\ Past(q, TransOps)' <=> Past(q, TransOps)
        /\ Past(q, OpeningOps)' <=> Past(q, OpeningOps)
        /\ Past(q, BankOps)' <=> Past(q, BankOps)
        /\ Past(q, PaidOps)' <=> Past(q, PaidOps)
        /\ Past(q, {"ConfirmTrans"})' <=> Past(q, {"ConfirmTrans"})
        /\ Past(q, {"ConfirmIfBypass"})' <=> Past(q, {"ConfirmIfBypass"})
        /\ Past(q, {"InitOrder"})' <=> Past(q, {"InitOrder"})
  BY <1>1, PastSame, Zenon
<1>5. SomePaid' = SomePaid /\ SomeCharged' = SomeCharged
  BY <1>1 DEF SomePaid, SomeCharged, Charged
<1>6. Typed'
  BY <1>1, <1>2, <1>3 DEF PayInv, Typed
<1>7. Control'
  <2>1. Len(Steps(r)) \in Nat /\ pc[r] \in Nat /\ pc[r] <= Len(Steps(r)) + 1
    BY StepsSound DEF SoundFlow, PayInv, Typed
  <2>2. phase'[r] = "done" => pc[r] = Len(Steps(r)) + 1 /\ failedAt[r] = 0
    BY <1>2, <2>1 DEF PayInv, Control
  <2>3. QED
    BY <1>1, <1>2, <1>3, <2>2 DEF PayInv, Control
<1>8. HasOrder'
  BY <1>1, <1>2, <1>4 DEF PayInv, HasOrder, Going
<1>9. HasTrans'
  BY <1>1, <1>2, <1>4 DEF PayInv, HasTrans, HoldsTrans, Going
<1>10. FailedOtp'
  BY <1>1, <1>2, <1>3 DEF PayInv, FailedOtp
<1>11. OpensOnce' /\ AsksOnce'
  BY <1>1, <1>2, <1>4 DEF PayInv, OpensOnce, AsksOnce, Ahead
<1>12. Confirmed' /\ PaidByBank'
  BY <1>1, <1>2, <1>4, <1>5 DEF PayInv, Confirmed, PaidByBank
<1>13. Creation'
  BY <1>1, <1>2, <1>4 DEF PayInv, Creation, Ahead
<1>14. GoodsAfterBankPaid' /\ SuccessIsPaid'
  BY <1>1 DEF PayInv, GoodsAfterBankPaid, SuccessIsPaid, Charged
<1>15. QED
  BY <1>6, <1>7, <1>8, <1>9, <1>10, <1>11, <1>12, <1>13, <1>14 DEF PayInv

-----------------------------------------------------------------------------
(* Time, the expiry job and crashes.                                       *)

\* What happens around the requests: it may close the order and give back what
\* is on hold, and it may take requests down.
Around ==
  /\ UNCHANGED <<flow, pc, failedAt, copies, voucher, outside>>
  /\ phase' \in [Requests -> Phases]
  /\ \A r \in Requests : phase'[r] # phase[r] => phase'[r] = "crashed"
  /\ doc' \in Orders \cup {NIL} /\ (doc' = NIL <=> doc = NIL)
  /\ doc' # doc => doc'.status = "FAILED"
  /\ tx' \in [Requests -> TransactionStatus] /\ state' \in [Requests -> TransactionState]
  /\ \A s \in Requests : state'[s] # state[s] => state[s] = "INITIAL"
  /\ timeUp' \in BOOLEAN /\ (timeUp' => doc # NIL)
  /\ job' \in [at : JobAts, read : Orders \cup {NIL}]
  /\ job'.at # "idle" => job'.read # NIL /\ doc # NIL
  /\ crashes' \in 0 .. MaxCrashes

\* Time, the job and a crash do no more than that.
LEMMA AroundSteps ==
  ASSUME PayInv,
         \/ Tick \/ JobRead \/ (\E outcome \in RepairOutcomes : JobFail(outcome))
         \/ JobCancel \/ Crash
  PROVE  Around
<1> USE NilAssumption
<1>1. /\ phase \in [Requests -> Phases] /\ doc \in Orders \cup {NIL}
      /\ tx \in [Requests -> TransactionStatus] /\ state \in [Requests -> TransactionState]
      /\ timeUp \in BOOLEAN /\ job \in [at : JobAts, read : Orders \cup {NIL}]
      /\ crashes \in 0 .. MaxCrashes
      /\ timeUp => doc # NIL
      /\ job.at # "idle" => job.read # NIL /\ doc # NIL
  BY DEF PayInv, Typed, Creation
<1>2. [at |-> "idle", read |-> NIL] \in [at : JobAts, read : Orders \cup {NIL}]
  BY DEF JobAts
<1>3. CASE Tick
  BY <1>1, <1>3 DEF Tick, Around, control, service
<1>4. CASE JobRead
  <2>1. [at |-> "fail", read |-> doc] \in [at : JobAts, read : Orders \cup {NIL}]
    BY <1>1 DEF JobAts
  <2>2. QED
    BY <1>1, <1>4, <2>1 DEF JobRead, Around, control, service
<1>5. ASSUME NEW outcome \in RepairOutcomes, JobFail(outcome)
      PROVE  Around
  <2>1. job.read \in Orders
    BY <1>1, <1>5 DEF JobFail
  <2>2. /\ [job.read EXCEPT !.status = "FAILED", !.expired = TRUE] \in Orders
        /\ [job.read EXCEPT !.status = "FAILED", !.expired = TRUE].status = "FAILED"
    BY <2>1 DEF Orders, OrderStatus
  <2>3. doc # NIL
    BY <1>1, <1>5 DEF JobFail
  <2>4. [job EXCEPT !.at = "cancel"] \in [at : JobAts, read : Orders \cup {NIL}]
        /\ [job EXCEPT !.at = "cancel"].read = job.read
    BY <1>1 DEF JobAts
  <2>5. /\ phase' = phase /\ tx' = tx /\ state' = state /\ timeUp' = timeUp /\ crashes' = crashes
        /\ doc' \in {doc, [job.read EXCEPT !.status = "FAILED", !.expired = TRUE]}
        /\ job' \in {[job EXCEPT !.at = "cancel"], [at |-> "idle", read |-> NIL]}
    BY <1>5 DEF JobFail, control, service
  <2>6. UNCHANGED <<flow, pc, failedAt, copies, voucher, outside>>
    BY <1>5 DEF JobFail, control
  <2>7. doc' \in Orders /\ (doc' # doc => doc'.status = "FAILED")
    BY <1>1, <2>2, <2>3, <2>5, Zenon
  <2>8. job' \in [at : JobAts, read : Orders \cup {NIL}] /\ (job'.at # "idle" => job'.read # NIL)
    BY <1>2, <2>1, <2>4, <2>5
  <2>9. QED
    BY <1>1, <2>3, <2>5, <2>6, <2>7, <2>8 DEF Around
<1>6. CASE JobCancel
  <2>1. job.read.tran \in Requests \cup {NIL}
    BY <1>1, <1>6 DEF JobCancel, Orders
  <2>2. /\ tx' \in [Requests -> TransactionStatus] /\ state' \in [Requests -> TransactionState]
        /\ \A s \in Requests : state'[s] # state[s] => state[s] = "INITIAL"
    <3>1. CASE UNCHANGED service
      BY <1>1, <3>1 DEF service
    <3>2. CASE \E outcome \in RepairOutcomes : CancelEnds(job.read.tran, outcome)
      BY <2>1, <3>2, CancelIsSound
    <3>3. QED
      BY <1>6, <3>1, <3>2 DEF JobCancel, CancelIfInitial
  <2>3. QED
    BY <1>1, <1>2, <1>6, <2>2 DEF JobCancel, Around, control
<1>7. CASE Crash
  <2>1. crashes' \in 0 .. MaxCrashes
    BY <1>1, <1>7, BoundsAssumption DEF Crash
  <2>2. phase' \in [Requests -> Phases]
        /\ \A r \in Requests : phase'[r] # phase[r] => phase'[r] = "crashed"
    BY <1>1, <1>7 DEF Crash, Phases
  <2>3. QED
    BY <1>1, <1>2, <1>7, <2>1, <2>2 DEF Crash, Around, service
<1>8. QED
  BY <1>3, <1>4, <1>5, <1>6, <1>7

\* What happens around the requests keeps the invariant.
LEMMA AroundKeeps ==
  ASSUME PayInv, Around
  PROVE  PayInv'
<1>1. /\ flow' = flow /\ pc' = pc /\ failedAt' = failedAt /\ voucher' = voucher
      /\ provider' = provider /\ bank' = bank /\ order' = order /\ trans' = trans /\ flag' = flag
  BY DEF Around, copies, outside
<1>2. /\ phase' \in [Requests -> Phases]
      /\ \A r \in Requests : phase'[r] = phase[r] \/ phase'[r] = "crashed"
  BY DEF Around
<1>3. \A q \in Requests : Steps(q)' = Steps(q)
  BY <1>1 DEF Steps
<1>4. \A q \in Requests :
        /\ Past(q, OrderOps)' <=> Past(q, OrderOps)
        /\ Past(q, TransOps)' <=> Past(q, TransOps)
        /\ Past(q, OpeningOps)' <=> Past(q, OpeningOps)
        /\ Past(q, BankOps)' <=> Past(q, BankOps)
        /\ Past(q, PaidOps)' <=> Past(q, PaidOps)
        /\ Past(q, {"ConfirmTrans"})' <=> Past(q, {"ConfirmTrans"})
        /\ Past(q, {"ConfirmIfBypass"})' <=> Past(q, {"ConfirmIfBypass"})
        /\ Past(q, {"InitOrder"})' <=> Past(q, {"InitOrder"})
  BY <1>1, PastSame, Zenon
<1>5. SomePaid' = SomePaid /\ (SomeCharged => SomeCharged')
  BY <1>1 DEF SomePaid, SomeCharged, Charged, Around
<1>6. Typed'
  BY <1>1, <1>2, <1>3 DEF PayInv, Typed, Around
<1>7. Control'
  BY <1>1, <1>2, <1>3 DEF PayInv, Control
<1>8. HasOrder'
  BY <1>1, <1>2, <1>4 DEF PayInv, HasOrder, Going
<1>9. HasTrans'
  BY <1>1, <1>2, <1>4 DEF PayInv, HasTrans, HoldsTrans, Going
<1>10. FailedOtp'
  BY <1>1, <1>2, <1>3 DEF PayInv, FailedOtp
<1>11. OpensOnce' /\ AsksOnce'
  BY <1>1, <1>2, <1>4 DEF PayInv, OpensOnce, AsksOnce, Ahead, Around
<1>12. Confirmed' /\ PaidByBank'
  BY <1>1, <1>2, <1>4, <1>5 DEF PayInv, Confirmed, PaidByBank
<1>13. Creation'
  BY <1>1, <1>2, <1>4 DEF PayInv, Creation, Ahead, Around
<1>14. GoodsAfterBankPaid'
  BY <1>1 DEF PayInv, GoodsAfterBankPaid
<1>15. SuccessIsPaid'
  <2>1. doc # NIL /\ doc.status = "SUCCESS" => SomeCharged
    BY DEF PayInv, SuccessIsPaid, SomeCharged
  <2>2. doc' # NIL /\ doc'.status = "SUCCESS" => SomeCharged'
    BY <1>5, <2>1 DEF Around
  <2>3. QED
    BY <2>2 DEF SuccessIsPaid, SomeCharged
<1>16. QED
  BY <1>6, <1>7, <1>8, <1>9, <1>10, <1>11, <1>12, <1>13, <1>14, <1>15 DEF PayInv

-----------------------------------------------------------------------------
(* The theorems.                                                           *)

\* The invariant holds before any request is made.
LEMMA InitPayInv == Init => PayInv
<1>1. SUFFICES ASSUME Init PROVE PayInv
  OBVIOUS
<1>2. \A r \in Requests : /\ pc[r] = 1 /\ failedAt[r] = 0 /\ phase[r] = "idle" /\ order[r] = NIL
                          /\ trans[r] = NIL /\ flag[r] = "none" /\ state[r] = "NONE"
                          /\ bank[r] = "idle" /\ provider[r] = "idle"
  BY <1>1 DEF Init
<1>3. \A r \in Requests : Len(Steps(r)) \in Nat
  BY <1>1, StepsSound DEF Init, SoundFlow
<1>4. NewOrder \in Orders /\ NewOrder.status = "PENDING"
  BY DEF NewOrder, Orders, OrderStatus
<1>5. Typed
  <2>1. job \in [at : JobAts, read : Orders \cup {NIL}]
    BY <1>1 DEF Init, JobAts
  <2>2. doc \in Orders \cup {NIL} /\ crashes \in 0 .. MaxCrashes
    BY <1>1, <1>4, BoundsAssumption DEF Init
  <2>3. /\ phase \in [Requests -> Phases] /\ flag \in [Requests -> Flags]
        /\ pc \in [Requests -> Nat] /\ failedAt \in [Requests -> Nat]
        /\ order \in [Requests -> Orders \cup {NIL}] /\ trans \in [Requests -> Transactions \cup {NIL}]
    BY <1>1 DEF Init, Phases, Flags
  <2>4. /\ tx \in [Requests -> TransactionStatus] /\ state \in [Requests -> TransactionState]
        /\ provider \in [Requests -> Deeds] /\ bank \in [Requests -> Deeds]
    BY <1>1 DEF Init, Deeds, TransactionStatus, TransactionState
  <2>5. \A r \in Requests : pc[r] <= Len(Steps(r)) + 1 /\ failedAt[r] <= Len(Steps(r))
    BY <1>2, <1>3
  <2>6. flow \in Flows /\ voucher \in {"unused", "used", "reversed"} /\ timeUp \in BOOLEAN
    BY <1>1 DEF Init
  <2>7. QED
    BY <2>1, <2>2, <2>3, <2>4, <2>5, <2>6 DEF Typed
<1>6. Control
  BY <1>2 DEF Control
<1>7. HasOrder /\ HasTrans /\ FailedOtp /\ OpensOnce /\ AsksOnce
  BY <1>2 DEF HasOrder, HasTrans, FailedOtp, OpensOnce, AsksOnce, Going
<1>8. Confirmed /\ PaidByBank /\ GoodsAfterBankPaid
  BY <1>2 DEF Confirmed, PaidByBank, GoodsAfterBankPaid
<1>9. Creation
  BY <1>1, <1>2 DEF Creation, Init
<1>10. SuccessIsPaid
  BY <1>1, <1>4 DEF SuccessIsPaid, Init
<1>11. QED
  BY <1>5, <1>6, <1>7, <1>8, <1>9, <1>10 DEF PayInv

\* A step that changes nothing keeps it.
LEMMA StutterKeeps == PayInv /\ UNCHANGED vars => PayInv'
<1>1. SUFFICES ASSUME PayInv, UNCHANGED vars PROVE PayInv'
  OBVIOUS
<1>2. Around
  BY <1>1 DEF Around, vars, control, copies, service, outside, around, PayInv, Typed, Creation
<1>3. QED
  BY <1>1, <1>2, AroundKeeps

\* Every step keeps it.
LEMMA NextKeepsPayInv == PayInv /\ [Next]_vars => PayInv'
<1>1. SUFFICES ASSUME PayInv, [Next]_vars PROVE PayInv'
  OBVIOUS
<1>2. ASSUME NEW r \in Requests, Begin(r) \/ BeginByPass(r)
      PROVE  PayInv'
  BY <1>1, <1>2, BeginEnters, BeginByPassEnters, EntersKeeps
<1>3. ASSUME NEW r \in Requests, Work(r)
      PROVE  PayInv'
  BY <1>1, <1>3, WorkIsSound, SoundKeeps, ReturnKeeps DEF Work
<1>4. CASE \/ Tick \/ JobRead \/ (\E outcome \in RepairOutcomes : JobFail(outcome))
           \/ JobCancel \/ Crash
  BY <1>1, <1>4, AroundSteps, AroundKeeps
<1>5. CASE Quiescent \/ UNCHANGED vars
  BY <1>1, <1>5, StutterKeeps DEF Quiescent
<1>6. QED
  BY <1>1, <1>2, <1>3, <1>4, <1>5 DEF Next

\* The inductive invariant holds for every set of requests and every flow they run.
THEOREM PaymentInvariant == Spec => []PayInv
BY InitPayInv, NextKeepsPayInv, PTL DEF Spec

\* TypeOK: no step, compensation or job ever builds an order, a transaction or a
\* position in a flow that is none, nil dereferences included.
THEOREM PaymentTypeCorrect == Spec => []TypeOK
<1>1. PayInv => TypeOK
  <2>1. SUFFICES ASSUME PayInv PROVE TypeOK
    OBVIOUS
  <2>2. \A r \in Requests : Len(Steps(r)) \in Nat
    BY <2>1, StepsSound DEF SoundFlow, PayInv, Typed
  <2>3. \A r \in Requests : pc[r] \in 0 .. Len(Steps(r)) + 1 /\ failedAt[r] \in 0 .. Len(Steps(r))
    BY <2>1, <2>2 DEF PayInv, Typed
  <2>4. QED
    BY <2>1, <2>3 DEF PayInv, Typed, TypeOK, Phases, Flags, Deeds, JobAts
<1>2. QED
  BY <1>1, PaymentInvariant, PTL

\* SuccessIsPaid: an order that the document shows as paid was charged, whatever
\* requests, rollbacks, job and crashes meet on it.
THEOREM SuccessWasCharged == Spec => []SuccessIsPaid
<1>1. PayInv => SuccessIsPaid
  BY DEF PayInv
<1>2. QED
  BY <1>1, PaymentInvariant, PTL

\* GoodsAfterBankPaid: no provider is asked on a bank token before the bank has paid.
THEOREM BankPaysFirst == Spec => []GoodsAfterBankPaid
<1>1. PayInv => GoodsAfterBankPaid
  BY DEF PayInv
<1>2. QED
  BY <1>1, PaymentInvariant, PTL

\* StaysClosed: past expired_at a closed order is not opened again, neither by a
\* request that read it while it was open nor by the job.
THEOREM ExpiredStaysClosed == Spec => StaysClosed
<1>1. PayInv /\ [Next]_vars => [timeUp /\ Closed => Closed']_vars
  <2>1. SUFFICES ASSUME PayInv, [Next]_vars, timeUp, Closed PROVE Closed' \/ UNCHANGED vars
    BY Zenon
  <2>2. ASSUME NEW r \in Requests, Begin(r) \/ BeginByPass(r) \/ Return(r)
        PROVE  Closed'
    BY <2>1, <2>2 DEF Begin, BeginByPass, Return, Closed
  <2>3. ASSUME NEW r \in Requests, Execute(r) \/ Compensate(r)
        PROVE  Closed'
    BY <2>1, <2>3, WorkIsSound DEF Sound, SoundOrder
  <2>4. CASE \/ Tick \/ JobRead \/ (\E outcome \in RepairOutcomes : JobFail(outcome))
             \/ JobCancel \/ Crash
    <3>1. Around
      BY <2>1, <2>4, AroundSteps
    <3>2. QED
      BY <2>1, <3>1 DEF Around, Closed
  <2>5. CASE Quiescent
    BY <2>5 DEF Quiescent
  <2>6. QED
    BY <2>1, <2>2, <2>3, <2>4, <2>5 DEF Next, Work
<1>2. QED
  BY <1>1, PaymentInvariant, PTL DEF Spec, StaysClosed

-----------------------------------------------------------------------------
(* What each request does is an execution of the coordinator: every step   *)
(* of the request is a step of SagaCoordinator under the mapping of        *)
(* PaymentSaga, or changes nothing the coordinator sees.                   *)

\* No flow has more steps than LongestFlow.
LEMMA LongestIsLongest ==
  ASSUME flow \in Flows, NEW r \in Requests
  PROVE  Len(Steps(r)) \in 0 .. LongestFlow
<1>1. \A f \in FlowNames : Len(Flow[f]) \in 0 .. 10
  BY FlowsSound DEF SoundFlow
<1>0. \A f \in FlowNames : Len(Flow[f]) <= 10
  <2>1. \A k \in 0 .. 10 : k <= 10
    OBVIOUS
  <2>2. QED
    BY <1>1, <2>1, Zenon
<1>2. "BankStatusCard" \in FlowNames
  BY FlowNamesAre
<1>3. Len(Flow["BankStatusCard"]) = 10
  <2>1. Flow["BankStatusCard"] = UpdateBankStatus("CallProvider", "SkipProvider", "SkipProvider")
    BY FlowTable, Zenon
  <2>2. Len(UpdateBankStatus("CallProvider", "SkipProvider", "SkipProvider")) = 10
    BY SMTT(30) DEF UpdateBankStatus, BankStatusOpening, BankStatusBuyCard, BankStatusTopUpBill,
       BankStatusSettlement, Step
  <2>3. QED
    BY <2>1, <2>2
<1>4. LongestFlow \in {Len(Flow[f]) : f \in FlowNames}
      /\ \A f \in FlowNames : Len(Flow[f]) <= LongestFlow
  <2> DEFINE lengths == {Len(Flow[f]) : f \in FlowNames}
             Bounds(k) == \A f \in FlowNames : Len(Flow[f]) <= k
  <2>1. \E k \in lengths : Bounds(k)
    <3>1. 10 \in lengths
      BY <1>2, <1>3
    <3>2. Bounds(10)
      BY <1>0, Zenon
    <3>3. QED
      BY <3>1, <3>2, Zenon
  <2>2. LongestFlow = CHOOSE k \in lengths : Bounds(k)
    BY Zenon DEF LongestFlow
  <2> HIDE DEF lengths, Bounds
  <2>3. LongestFlow \in lengths /\ Bounds(LongestFlow)
    BY <2>1, <2>2, Zenon
  <2>4. QED
    BY <2>3 DEF lengths, Bounds
<1>5. flow[r] \in FlowNames
  BY FlowsAssumption
<1>6. QED
  BY <1>1, <1>4, <1>5 DEF Steps

\* The parts of a log, by where the request is (ph), its step (p) and the step
\* that failed (f, or 0).
Entries ==
  [type : {"StartSaga", "SagaStepExec", "SagaAbort", "SagaStepCompensate", "SagaComplete"},
   step : Nat, err : {"nil", "error"}]

PlayOf(ph, f) ==
  CASE ph \in {"idle", "refused"} -> "new"
    [] ph \in {"done", "failed"} -> "complete"
    [] ph = "panic" -> "panicked"
    [] ph \in {"run", "abort", "crashed"} -> IF f = 0 THEN "running" ELSE "aborting"

Ran(p, f) == IF f = 0 THEN p - 1 ELSE f
Undone(ph, p, f) == IF f = 0 THEN 0 ELSE f - p + (IF ph = "panic" THEN 1 ELSE 0)

ExecOf(f, k) == [type |-> "SagaStepExec", step |-> k, err |-> IF k = f THEN "error" ELSE "nil"]
CompOf(f, k) == [type |-> "SagaStepCompensate", step |-> f + 1 - k, err |-> "nil"]
StartEntry == [type |-> "StartSaga", step |-> 0, err |-> "nil"]
AbortEntry(f) == [type |-> "SagaAbort", step |-> f, err |-> "nil"]
EndEntry == [type |-> "SagaComplete", step |-> 0, err |-> "nil"]

Execs(p, f) == [k \in 1 .. Ran(p, f) |-> ExecOf(f, k)]
Aborts(f) == IF f = 0 THEN <<>> ELSE <<AbortEntry(f)>>
Comps(ph, p, f) == [k \in 1 .. Undone(ph, p, f) |-> CompOf(f, k)]
Ends(ph, f) == IF PlayOf(ph, f) = "complete" THEN <<EndEntry>> ELSE <<>>

LogOf(ph, p, f) ==
  IF PlayOf(ph, f) = "new" THEN <<>>
  ELSE <<StartEntry>> \o Execs(p, f) \o Aborts(f) \o Comps(ph, p, f) \o Ends(ph, f)

ToDo(p, f) == IF f = 0 THEN <<>> ELSE [k \in 1 .. p |-> ExecOf(f, p + 1 - k)]

\* They are what the coordinator sees of a request, before and after a step.
LEMMA SeenOfRequest ==
  ASSUME NEW r \in Requests
  PROVE  /\ PlayPhase(r) = PlayOf(phase[r], failedAt[r])
         /\ PlayPhase(r)' = PlayOf(phase'[r], failedAt'[r])
         /\ SagaLog(r) = LogOf(phase[r], pc[r], failedAt[r])
         /\ SagaLog(r)' = LogOf(phase'[r], pc'[r], failedAt'[r])
         /\ ToCompensate(r) = ToDo(pc[r], failedAt[r])
         /\ ToCompensate(r)' = ToDo(pc'[r], failedAt'[r])
<1>1. PlayPhase(r) = PlayOf(phase[r], failedAt[r]) /\ PlayPhase(r)' = PlayOf(phase'[r], failedAt'[r])
  BY Zenon DEF PlayPhase, PlayOf
<1>2. SagaLog(r) = LogOf(phase[r], pc[r], failedAt[r])
  BY Zenon DEF SagaLog, LogOf, PlayPhase, PlayOf, Executed, Ran, CompensatedSteps, Undone,
     ExecEntry,
     ExecOf, CompOf, StartEntry, AbortEntry, EndEntry, Execs, Aborts, Comps, Ends
<1>3. SagaLog(r)' = LogOf(phase'[r], pc'[r], failedAt'[r])
  BY Zenon DEF SagaLog, LogOf, PlayPhase, PlayOf, Executed, Ran, CompensatedSteps, Undone,
     ExecEntry,
     ExecOf, CompOf, StartEntry, AbortEntry, EndEntry, Execs, Aborts, Comps, Ends
<1>4. ToCompensate(r) = ToDo(pc[r], failedAt[r]) /\ ToCompensate(r)' = ToDo(pc'[r], failedAt'[r])
  BY Zenon DEF ToCompensate, ToDo, ExecEntry, ExecOf
<1>5. QED
  BY <1>1, <1>2, <1>3, <1>4, Zenon

\* The phases of the coordinator.
LEMMA PlayOfIs ==
  ASSUME NEW f \in Nat
  PROVE  /\ PlayOf("idle", f) = "new" /\ PlayOf("refused", f) = "new"
         /\ PlayOf("done", f) = "complete" /\ PlayOf("failed", f) = "complete"
         /\ PlayOf("panic", f) = "panicked"
         /\ PlayOf("run", f) = IF f = 0 THEN "running" ELSE "aborting"
         /\ PlayOf("abort", f) = IF f = 0 THEN "running" ELSE "aborting"
         /\ PlayOf("crashed", f) = IF f = 0 THEN "running" ELSE "aborting"
BY DEF PlayOf

\* An empty part leaves the log as it is.
LEMMA NoTail ==
  ASSUME NEW S, NEW s \in Seq(S)
  PROVE  s \o <<>> = s
OBVIOUS

\* A part of one entry is appended.
LEMMA OneTail ==
  ASSUME NEW S, NEW s \in Seq(S), NEW e \in S
  PROVE  s \o <<e>> = Append(s, e)
OBVIOUS

\* A last part that gets one entry longer makes the log one entry longer.
LEMMA LongerTail ==
  ASSUME NEW S, NEW s \in Seq(S), NEW g \in Seq(S), NEW h \in Seq(S), Len(h) = Len(g) + 1,
         \A k \in 1 .. Len(g) : h[k] = g[k]
  PROVE  s \o h = Append(s \o g, h[Len(h)])
<1>1. /\ s \o h \in Seq(S) /\ s \o g \in Seq(S) /\ h[Len(h)] \in S
      /\ Len(s) \in Nat /\ Len(g) \in Nat
  OBVIOUS
<1>2. Append(s \o g, h[Len(h)]) \in Seq(S)
      /\ Len(Append(s \o g, h[Len(h)])) = Len(s) + Len(g) + 1 /\ Len(s \o h) = Len(s) + Len(g) + 1
  BY <1>1
<1>3. ASSUME NEW k \in 1 .. Len(s) + Len(g) + 1
      PROVE  (s \o h)[k] = Append(s \o g, h[Len(h)])[k]
  <2>1. CASE k <= Len(s)
    BY <1>1, <2>1
  <2>2. CASE k > Len(s) /\ k <= Len(s) + Len(g)
    BY <1>1, <2>2
  <2>3. CASE k = Len(s) + Len(g) + 1
    BY <1>1, <2>3
  <2>4. QED
    BY <1>1, <2>1, <2>2, <2>3
<1>4. QED
  BY <1>1, <1>2, <1>3

\* The entries.
LEMMA EntriesAre ==
  /\ StartEntry \in Entries /\ EndEntry \in Entries
  /\ \A f \in Nat : AbortEntry(f) \in Entries
  /\ \A f, k \in Nat : ExecOf(f, k) \in Entries
  /\ \A f, k \in Nat : k <= f + 1 => CompOf(f, k) \in Entries
BY DEF Entries, StartEntry, EndEntry, AbortEntry, ExecOf, CompOf

\* The parts are sequences of entries.
LEMMA ExecsAreLogs ==
  ASSUME NEW p \in Nat, NEW f \in Nat, f = 0 => p >= 1
  PROVE  /\ <<StartEntry>> \in Seq(Entries) /\ Aborts(f) \in Seq(Entries)
         /\ Execs(p, f) \in Seq(Entries) /\ Len(Execs(p, f)) = Ran(p, f) /\ Ran(p, f) \in Nat
<1>1. Ran(p, f) \in Nat
  BY DEF Ran
<1>2. \A k \in 1 .. Ran(p, f) : ExecOf(f, k) \in Entries
  BY <1>1, EntriesAre
<1>3. Execs(p, f) \in Seq(Entries) /\ Len(Execs(p, f)) = Ran(p, f)
  BY <1>1, <1>2 DEF Execs
<1>4. <<StartEntry>> \in Seq(Entries) /\ Aborts(f) \in Seq(Entries)
  BY EntriesAre DEF Aborts
<1>5. QED
  BY <1>1, <1>3, <1>4

\* So are the compensations.
LEMMA CompsAreLogs ==
  ASSUME NEW ph, NEW p \in Nat, NEW f \in Nat, f > 0 => p <= f
  PROVE  /\ Comps(ph, p, f) \in Seq(Entries) /\ Len(Comps(ph, p, f)) = Undone(ph, p, f)
         /\ Undone(ph, p, f) \in Nat
<1>1. Undone(ph, p, f) \in Nat /\ Undone(ph, p, f) <= f + 1
  BY DEF Undone
<1>2. \A k \in 1 .. Undone(ph, p, f) : CompOf(f, k) \in Entries
  BY <1>1, EntriesAre
<1>3. Comps(ph, p, f) \in Seq(Entries) /\ Len(Comps(ph, p, f)) = Undone(ph, p, f)
  BY <1>1, <1>2 DEF Comps
<1>4. QED
  BY <1>1, <1>3

\* The log while the steps run.
LEMMA RunningLog ==
  ASSUME NEW p \in Nat, p >= 1
  PROVE  /\ LogOf("run", p, 0) = <<StartEntry>> \o Execs(p, 0)
         /\ LogOf("run", p, 0) \in Seq(Entries)
<1>1. PlayOf("run", 0) = "running"
  BY PlayOfIs
<1>2. Aborts(0) = <<>> /\ Ends("run", 0) = <<>>
  BY <1>1 DEF Aborts, Ends
<1>3. Comps("run", p, 0) = <<>>
  BY DEF Comps, Undone
<1>4. <<StartEntry>> \o Execs(p, 0) \in Seq(Entries)
  <2>1. <<StartEntry>> \in Seq(Entries) /\ Execs(p, 0) \in Seq(Entries)
    BY ExecsAreLogs, CompsAreLogs
  <2>2. QED
    BY <2>1
<1>5. QED
  BY <1>1, <1>2, <1>3, <1>4, NoTail DEF LogOf

\* The log while the steps are undone.
LEMMA AbortingLog ==
  ASSUME NEW ph \in {"abort", "panic"}, NEW p \in Nat, NEW f \in Nat, f >= 1, p <= f
  PROVE  /\ LogOf(ph, p, f) = <<StartEntry>> \o Execs(p, f) \o Aborts(f) \o Comps(ph, p, f)
         /\ <<StartEntry>> \o Execs(p, f) \o Aborts(f) \in Seq(Entries)
         /\ LogOf(ph, p, f) \in Seq(Entries)
<1>1. PlayOf(ph, f) \in {"aborting", "panicked"}
  BY PlayOfIs
<1>2. Ends(ph, f) = <<>>
  BY <1>1 DEF Ends
<1>3. <<StartEntry>> \o Execs(p, f) \o Aborts(f) \in Seq(Entries)
  <2>1. /\ <<StartEntry>> \in Seq(Entries) /\ Execs(p, f) \in Seq(Entries)
        /\ Aborts(f) \in Seq(Entries)
    BY ExecsAreLogs, CompsAreLogs
  <2>2. QED
    BY <2>1
<1>4. <<StartEntry>> \o Execs(p, f) \o Aborts(f) \o Comps(ph, p, f) \in Seq(Entries)
  BY <1>3, ExecsAreLogs, CompsAreLogs
<1>5. QED
  BY <1>1, <1>2, <1>3, <1>4, NoTail DEF LogOf

\* Play starts the log.
LEMMA LogStarts == LogOf("idle", 1, 0) = <<>> /\ LogOf("run", 1, 0) = Append(<<>>, StartEntry)
<1>1. LogOf("idle", 1, 0) = <<>>
  BY PlayOfIs DEF LogOf
<1>2. Execs(1, 0) = <<>>
  BY DEF Execs, Ran
<1>3. <<StartEntry>> \o <<>> = Append(<<>>, StartEntry)
  BY EntriesAre
<1>4. LogOf("run", 1, 0) = <<StartEntry>> \o Execs(1, 0)
  <2>1. 1 \in Nat /\ 1 >= 1
    OBVIOUS
  <2>2. QED
    BY <2>1, RunningLog, Zenon
<1>5. QED
  BY <1>1, <1>2, <1>3, <1>4, Zenon

\* A step that succeeds is logged.
LEMMA LogAdvances ==
  ASSUME NEW p \in Nat, p >= 1
  PROVE  LogOf("run", p + 1, 0) =
           Append(LogOf("run", p, 0), [type |-> "SagaStepExec", step |-> p, err |-> "nil"])
<1>1. Execs(p, 0) \in Seq(Entries) /\ Len(Execs(p, 0)) = p - 1
  BY ExecsAreLogs, CompsAreLogs DEF Ran
<1>2. Execs(p + 1, 0) \in Seq(Entries) /\ Len(Execs(p + 1, 0)) = p
  <2>1. p + 1 \in Nat /\ p + 1 >= 1
    OBVIOUS
  <2>2. QED
    BY <2>1, ExecsAreLogs, CompsAreLogs DEF Ran
<1>3. \A k \in 1 .. p - 1 : Execs(p + 1, 0)[k] = Execs(p, 0)[k]
  BY DEF Execs, Ran
<1>4. Execs(p + 1, 0)[p] = [type |-> "SagaStepExec", step |-> p, err |-> "nil"]
  BY DEF Execs, Ran, ExecOf
<1>5. <<StartEntry>> \in Seq(Entries)
  BY EntriesAre
<1>6. <<StartEntry>> \o Execs(p + 1, 0) = Append(<<StartEntry>> \o Execs(p, 0), Execs(p + 1, 0)[p])
  BY <1>1, <1>2, <1>3, <1>5, LongerTail
<1>7. LogOf("run", p + 1, 0) = <<StartEntry>> \o Execs(p + 1, 0)
  <2>1. p + 1 \in Nat /\ p + 1 >= 1
    OBVIOUS
  <2>2. QED
    BY <2>1, RunningLog, Zenon
<1>8. LogOf("run", p, 0) = <<StartEntry>> \o Execs(p, 0)
  BY RunningLog
<1>9. QED
  BY <1>4, <1>6, <1>7, <1>8, Zenon

\* A step that fails is logged, then the abort.
LEMMA LogFails ==
  ASSUME NEW p \in Nat, p >= 1
  PROVE  /\ <<StartEntry>> \o Execs(p, p) =
              Append(LogOf("run", p, 0), [type |-> "SagaStepExec", step |-> p, err |-> "error"])
         /\ LogOf("abort", p, p) = Append(<<StartEntry>> \o Execs(p, p), AbortEntry(p))
<1>1. Execs(p, 0) \in Seq(Entries) /\ Len(Execs(p, 0)) = p - 1
  BY ExecsAreLogs, CompsAreLogs DEF Ran
<1>0. p <= p /\ (p = 0 => p >= 1)
  OBVIOUS
<1>2. Execs(p, p) \in Seq(Entries) /\ Len(Execs(p, p)) = p
  <2>1. Execs(p, p) \in Seq(Entries) /\ Len(Execs(p, p)) = Ran(p, p)
    BY <1>0, ExecsAreLogs, CompsAreLogs, Zenon
  <2>2. QED
    BY <2>1 DEF Ran
<1>3. \A k \in 1 .. p - 1 : Execs(p, p)[k] = Execs(p, 0)[k]
  BY DEF Execs, Ran, ExecOf
<1>4. Execs(p, p)[p] = [type |-> "SagaStepExec", step |-> p, err |-> "error"]
  BY DEF Execs, Ran, ExecOf
<1>5. <<StartEntry>> \in Seq(Entries)
  BY EntriesAre
<1>6. <<StartEntry>> \o Execs(p, p) = Append(<<StartEntry>> \o Execs(p, 0), Execs(p, p)[p])
  BY <1>1, <1>2, <1>3, <1>5, LongerTail
<1>7. LogOf("run", p, 0) = <<StartEntry>> \o Execs(p, 0)
  BY RunningLog
<1>8. Aborts(p) = <<AbortEntry(p)>>
  BY DEF Aborts
<1>9. Comps("abort", p, p) = <<>>
  BY DEF Comps, Undone
<1>10. <<StartEntry>> \o Execs(p, p) \in Seq(Entries) /\ AbortEntry(p) \in Entries
  BY <1>2, <1>5, EntriesAre
<1>11. <<StartEntry>> \o Execs(p, p) \o <<AbortEntry(p)>>
         = Append(<<StartEntry>> \o Execs(p, p), AbortEntry(p))
  BY <1>10, OneTail
<1>12. LogOf("abort", p, p) = <<StartEntry>> \o Execs(p, p) \o <<AbortEntry(p)>>
  <2>1. LogOf("abort", p, p) = <<StartEntry>> \o Execs(p, p) \o Aborts(p) \o Comps("abort", p, p)
    BY <1>0, AbortingLog, Zenon
  <2>2. <<StartEntry>> \o Execs(p, p) \o Aborts(p) \in Seq(Entries)
    BY <1>0, AbortingLog, Zenon
  <2>3. QED
    BY <1>8, <1>9, <2>1, <2>2, NoTail
<1>13. QED
  BY <1>4, <1>6, <1>7, <1>11, <1>12, Zenon

\* A compensation is logged, whether it returns or panics.
LEMMA LogUndoes ==
  ASSUME NEW p \in Nat, NEW f \in Nat, p >= 1, p <= f
  PROVE  /\ LogOf("abort", p - 1, f) = Append(LogOf("abort", p, f), CompOf(f, f - p + 1))
         /\ LogOf("panic", p, f) = Append(LogOf("abort", p, f), CompOf(f, f - p + 1))
<1>1. p - 1 \in Nat /\ p - 1 <= f /\ f >= 1 /\ f - p \in Nat
  OBVIOUS
<1>2. Comps("abort", p, f) \in Seq(Entries) /\ Len(Comps("abort", p, f)) = f - p
  <2>1. /\ Comps("abort", p, f) \in Seq(Entries)
        /\ Len(Comps("abort", p, f)) = Undone("abort", p, f)
    BY CompsAreLogs, Zenon
  <2>2. QED
    BY <2>1, <1>1 DEF Undone
<1>3. Comps("abort", p - 1, f) \in Seq(Entries) /\ Len(Comps("abort", p - 1, f)) = f - p + 1
  <2>1. f > 0 => p - 1 <= f
    BY <1>1
  <2>2. /\ Comps("abort", p - 1, f) \in Seq(Entries)
        /\ Len(Comps("abort", p - 1, f)) = Undone("abort", p - 1, f)
    BY <1>1, <2>1, CompsAreLogs, Zenon
  <2>3. QED
    BY <2>2, <1>1 DEF Undone
<1>4. Comps("panic", p, f) = Comps("abort", p - 1, f)
  BY <1>1 DEF Comps, Undone
<1>5. \A k \in 1 .. f - p : Comps("abort", p - 1, f)[k] = Comps("abort", p, f)[k]
  BY <1>1 DEF Comps, Undone
<1>6. Comps("abort", p - 1, f)[f - p + 1] = CompOf(f, f - p + 1)
  BY <1>1 DEF Comps, Undone
<1>7. Execs(p - 1, f) = Execs(p, f)
  BY <1>1 DEF Execs, Ran
<1>8. <<StartEntry>> \o Execs(p, f) \o Aborts(f) \in Seq(Entries)
  BY <1>1, AbortingLog
<1>9. <<StartEntry>> \o Execs(p, f) \o Aborts(f) \o Comps("abort", p - 1, f)
        = Append(<<StartEntry>> \o Execs(p, f) \o Aborts(f) \o Comps("abort", p, f),
                 Comps("abort", p - 1, f)[f - p + 1])
  <2> DEFINE s == <<StartEntry>> \o Execs(p, f) \o Aborts(f)
             g == Comps("abort", p, f)
             h == Comps("abort", p - 1, f)
  <2>1. s \in Seq(Entries) /\ g \in Seq(Entries) /\ h \in Seq(Entries) /\ Len(h) = Len(g) + 1
        /\ \A k \in 1 .. Len(g) : h[k] = g[k]
    BY <1>2, <1>3, <1>5, <1>8
  <2>2. Len(h) = f - p + 1
    BY <1>3
  <2> HIDE DEF s, g, h
  <2>3. s \o h = Append(s \o g, h[Len(h)])
    BY <2>1, LongerTail, Zenon
  <2>4. QED
    BY <2>2, <2>3, Zenon DEF s, g, h
<1>10. LogOf("abort", p, f) = <<StartEntry>> \o Execs(p, f) \o Aborts(f) \o Comps("abort", p, f)
  BY <1>1, AbortingLog
<1>11. LogOf("panic", p, f) = <<StartEntry>> \o Execs(p, f) \o Aborts(f) \o Comps("panic", p, f)
  BY <1>1, AbortingLog
<1>12. LogOf("abort", p - 1, f)
         = <<StartEntry>> \o Execs(p - 1, f) \o Aborts(f) \o Comps("abort", p - 1, f)
  BY <1>1, AbortingLog
<1>13. QED
  BY <1>4, <1>6, <1>7, <1>9, <1>10, <1>11, <1>12, Zenon

\* The end is logged.
LEMMA LogEnds ==
  ASSUME NEW p \in Nat, NEW f \in Nat
  PROVE  /\ f = 0 /\ p >= 1 => LogOf("done", p, f) = Append(LogOf("run", p, f), EndEntry)
         /\ f >= 1 /\ p <= f => LogOf("failed", p, f) = Append(LogOf("abort", p, f), EndEntry)
<1>1. ASSUME NEW ph \in {"run", "abort"}, NEW q \in {"done", "failed"},
             f = 0 => p >= 1, f > 0 => p <= f
      PROVE  LogOf(q, p, f) = Append(LogOf(ph, p, f), EndEntry)
  <2> DEFINE body == <<StartEntry>> \o Execs(p, f) \o Aborts(f) \o Comps(ph, p, f)
  <2>1. body \in Seq(Entries)
    BY <1>1, ExecsAreLogs, CompsAreLogs
  <2>2. Comps(q, p, f) = Comps(ph, p, f)
    BY DEF Comps, Undone
  <2>3. PlayOf(q, f) = "complete" /\ PlayOf(ph, f) \in {"running", "aborting"}
    BY PlayOfIs
  <2>4. Ends(q, f) = <<EndEntry>> /\ Ends(ph, f) = <<>>
    BY <2>3 DEF Ends
  <2>5. LogOf(q, p, f) = body \o <<EndEntry>> /\ LogOf(ph, p, f) = body \o <<>>
    BY <2>2, <2>3, <2>4, Zenon DEF LogOf
  <2> HIDE DEF body
  <2>6. QED
    BY <2>1, <2>5, NoTail, OneTail, EntriesAre
<1>2. QED
  BY <1>1

\* The instance counts as FiniteSets does.
LEMMA CardinalityIs ==
  ASSUME NEW r \in Requests, NEW S
  PROVE  Coordinator(r)!Cardinality(S) = Cardinality(S)
BY DEF Coordinator!Cardinality, Cardinality

\* What abort() finds in a log that holds the start and k executions.
LEMMA StepLogsFound ==
  ASSUME NEW r \in Requests, NEW k \in Nat, NEW l \in Seq(Entries), Len(l) = k + 1,
         l[1].type = "StartSaga", \A s \in 1 .. k : l[s + 1].type = "SagaStepExec"
  PROVE  Coordinator(r)!GetStepLogsToCompensate(l) = [j \in 1 .. k |-> l[k + 2 - j]]
<1>1. Coordinator(r)!ExecAt(l) = 2 .. k + 1
  <2>1. DOMAIN l = 1 .. k + 1
    OBVIOUS
  <2>2. ASSUME NEW p \in 2 .. k + 1 PROVE l[p].type = "SagaStepExec"
    <3>1. p - 1 \in 1 .. k /\ (p - 1) + 1 = p
      OBVIOUS
    <3>2. QED
      BY <3>1
  <2>3. QED
    BY <2>1, <2>2 DEF Coordinator!ExecAt
<1>2. Cardinality(Coordinator(r)!ExecAt(l)) = k
  <2>1. Cardinality(2 .. k + 1) = IF 2 > k + 1 THEN 0 ELSE (k + 1) - 2 + 1
    BY FS_Interval
  <2>2. QED
    BY <1>1, <2>1
<1>3. ASSUME NEW p \in 2 .. k + 1 PROVE Coordinator(r)!ExecAfter(l, p) = k + 1 - p
  <2>1. {q \in Coordinator(r)!ExecAt(l) : q > p} = (p + 1) .. (k + 1)
    BY <1>1
  <2>2. Cardinality((p + 1) .. (k + 1)) = IF p + 1 > k + 1 THEN 0 ELSE (k + 1) - (p + 1) + 1
    BY FS_Interval
  <2>3. Coordinator(r)!ExecAfter(l, p) = Cardinality((p + 1) .. (k + 1))
    BY <2>1, CardinalityIs, Zenon DEF Coordinator!ExecAfter
  <2>4. QED
    BY <2>2, <2>3
<1>4. ASSUME NEW j \in 1 .. k
      PROVE  (CHOOSE p \in Coordinator(r)!ExecAt(l) : Coordinator(r)!ExecAfter(l, p) = j - 1)
               = k + 2 - j
  <2>1. k + 2 - j \in Coordinator(r)!ExecAt(l) /\ Coordinator(r)!ExecAfter(l, k + 2 - j) = j - 1
    BY <1>1, <1>3
  <2>2. \A p \in Coordinator(r)!ExecAt(l) : Coordinator(r)!ExecAfter(l, p) = j - 1 => p = k + 2 - j
    BY <1>1, <1>3
  <2>3. QED
    BY <2>1, <2>2
<1>5. Coordinator(r)!GetStepLogsToCompensate(l) =
        [j \in 1 .. k |-> l[CHOOSE p \in Coordinator(r)!ExecAt(l) :
                               Coordinator(r)!ExecAfter(l, p) = j - 1]]
  BY <1>2, CardinalityIs DEF Coordinator!GetStepLogsToCompensate
<1>6. ASSUME NEW j \in 1 .. k
      PROVE  l[CHOOSE p \in Coordinator(r)!ExecAt(l) : Coordinator(r)!ExecAfter(l, p) = j - 1]
               = l[k + 2 - j]
  BY <1>4
<1>7. QED
  BY <1>5, <1>6, Zenon

\* What abort() finds when step p has failed: it and all steps before it.
LEMMA FoundAtFailure ==
  ASSUME NEW r \in Requests, NEW p \in Nat, p >= 1
  PROVE  /\ Coordinator(r)!GetStepLogsToCompensate(<<StartEntry>> \o Execs(p, p)) = ToDo(p, p)
         /\ Len(ToDo(p, p)) = p
<1> DEFINE l == <<StartEntry>> \o Execs(p, p)
<1>1. Execs(p, p) \in Seq(Entries) /\ Len(Execs(p, p)) = p /\ <<StartEntry>> \in Seq(Entries)
  <2>1. p = 0 => p >= 1
    OBVIOUS
  <2>2. /\ Execs(p, p) \in Seq(Entries) /\ Len(Execs(p, p)) = Ran(p, p)
        /\ <<StartEntry>> \in Seq(Entries)
    BY <2>1, ExecsAreLogs, Zenon
  <2>3. QED
    BY <2>2 DEF Ran
<1>2. l \in Seq(Entries) /\ Len(l) = p + 1 /\ l[1] = StartEntry
  BY <1>1
<1>3. \A s \in 1 .. p : l[s + 1] = Execs(p, p)[s]
  BY <1>1
<1>4. \A s \in 1 .. p : Execs(p, p)[s] = ExecOf(p, s)
  BY DEF Execs, Ran
<1>5. \A s \in 1 .. p : l[s + 1] = ExecOf(p, s)
  BY <1>3, <1>4, Zenon
<1> HIDE DEF l
<1>6. l[1].type = "StartSaga" /\ \A s \in 1 .. p : l[s + 1].type = "SagaStepExec"
  <2>1. StartEntry.type = "StartSaga" /\ \A s \in 1 .. p : ExecOf(p, s).type = "SagaStepExec"
    BY DEF StartEntry, ExecOf
  <2>2. QED
    BY <1>2, <1>5, <2>1, Zenon
<1>7. Coordinator(r)!GetStepLogsToCompensate(l) = [j \in 1 .. p |-> l[p + 2 - j]]
  BY <1>2, <1>6, StepLogsFound
<1>8. \A j \in 1 .. p : l[p + 2 - j] = ExecOf(p, p + 1 - j)
  <2>1. \A j \in 1 .. p : p + 1 - j \in 1 .. p /\ (p + 1 - j) + 1 = p + 2 - j
    OBVIOUS
  <2>2. QED
    BY <1>5, <2>1
<1>9. ToDo(p, p) = [j \in 1 .. p |-> ExecOf(p, p + 1 - j)]
  BY DEF ToDo
<1>10. [j \in 1 .. p |-> l[p + 2 - j]] = [j \in 1 .. p |-> ExecOf(p, p + 1 - j)]
  BY <1>8, Zenon
<1>11. Len([j \in 1 .. p |-> ExecOf(p, p + 1 - j)]) = p
  OBVIOUS
<1>12. QED
  BY <1>7, <1>9, <1>10, <1>11, Zenon DEF l

\* What is still to be compensated.
LEMMA ToDoIs ==
  ASSUME NEW p \in Nat, NEW f \in Nat, f >= 1
  PROVE  /\ p = 0 => ToDo(p, f) = <<>>
         /\ p >= 1 => /\ ToDo(p, f) # <<>>
                      /\ Head(ToDo(p, f)).step = p
                      /\ Tail(ToDo(p, f)) = ToDo(p - 1, f)
<1>1. \A q \in Nat : ToDo(q, f) = [k \in 1 .. q |-> ExecOf(f, q + 1 - k)]
  BY DEF ToDo
<1>2. \A q \in Nat : ToDo(q, f) \in Seq(Entries) /\ Len(ToDo(q, f)) = q
  <2>1. ASSUME NEW q \in Nat PROVE ToDo(q, f) \in Seq(Entries) /\ Len(ToDo(q, f)) = q
    <3>1. \A k \in 1 .. q : ExecOf(f, q + 1 - k) \in Entries
      BY EntriesAre
    <3>2. QED
      BY <1>1, <3>1
  <2>2. QED
    BY <2>1
<1>3. ASSUME p = 0 PROVE ToDo(p, f) = <<>>
  BY <1>2, <1>3
<1>4. ASSUME p >= 1
      PROVE  ToDo(p, f) # <<>> /\ Head(ToDo(p, f)).step = p /\ Tail(ToDo(p, f)) = ToDo(p - 1, f)
  <2>1. p - 1 \in Nat
    BY <1>4
  <2>2. ToDo(p, f)[1] = ExecOf(f, p)
    BY <1>1, <1>4
  <2>3. \A k \in 1 .. p - 1 : ToDo(p, f)[k + 1] = ToDo(p - 1, f)[k]
    BY <1>1, <2>1
  <2>4. ToDo(p, f) # <<>> /\ Head(ToDo(p, f)) = ToDo(p, f)[1]
    BY <1>2, <1>4
  <2>5. Tail(ToDo(p, f)) = ToDo(p - 1, f)
    <3>1. /\ Tail(ToDo(p, f)) \in Seq(Entries) /\ Len(Tail(ToDo(p, f))) = p - 1
          /\ \A k \in 1 .. p - 1 : Tail(ToDo(p, f))[k] = ToDo(p, f)[k + 1]
      BY <1>2, <1>4
    <3>2. ToDo(p - 1, f) \in Seq(Entries) /\ Len(ToDo(p - 1, f)) = p - 1
      BY <1>2, <2>1
    <3>3. QED
      BY <2>3, <3>1, <3>2
  <2>6. QED
    BY <2>2, <2>4, <2>5 DEF ExecOf
<1>5. QED
  BY <1>3, <1>4

\* A request nobody has made is an execution that has not begun.
LEMMA InitRefines ==
  ASSUME Init
  PROVE  \A r \in Requests : Coordinator(r)!Init
<1>1. TAKE r \in Requests
<1>2. failedAt[r] = 0 /\ pc[r] = 1 /\ phase[r] = "idle" /\ flow \in Flows
  BY DEF Init
<1>3. Len(Steps(r)) \in 0 .. LongestFlow
  BY <1>2, LongestIsLongest
<1>4. PlayPhase(r) = "new" /\ SagaLog(r) = <<>>
  BY <1>2, SeenOfRequest, LogStarts, PlayOfIs
<1>5. ToCompensate(r) = <<>>
  BY <1>2 DEF ToCompensate
<1>6. QED
  BY <1>2, <1>3, <1>4, <1>5 DEF Coordinator!Init

\* What a step of the coordinator leaves alone.
Stays(r) == Len(Steps(r))' = Len(Steps(r))

\* A request that is let in calls Play.
LEMMA BeginPlays ==
  ASSUME NEW r \in Requests, Stays(r), phase[r] = "idle", phase'[r] = "run", pc[r] = 1,
         pc'[r] = 1, failedAt[r] = 0, failedAt'[r] = 0
  PROVE  Coordinator(r)!Next
<1>1. PlayPhase(r) = "new" /\ PlayPhase(r)' = "running"
  BY SeenOfRequest, PlayOfIs
<1>2. SagaLog(r) = <<>> /\ SagaLog(r)' = Append(<<>>, StartEntry)
  BY SeenOfRequest, LogStarts
<1>3. ToCompensate(r) = <<>> /\ ToCompensate(r)' = <<>>
  BY DEF ToCompensate
<1>4. SagaLog(r)' = Coordinator(r)!AppendLog(SagaLog(r), Coordinator(r)!Entry("StartSaga", 0, "nil"))
  BY <1>2 DEF Coordinator!AppendLog, Coordinator!Entry, StartEntry
<1>5. Coordinator(r)!Play
  BY <1>1, <1>3, <1>4 DEF Coordinator!Play, Stays
<1>6. QED
  BY <1>5, Zenon DEF Coordinator!Next

\* A step that succeeds.
LEMMA AdvanceExecs ==
  ASSUME NEW r \in Requests, Stays(r), Advances(r), pc[r] \in Nat, pc[r] >= 1, failedAt[r] = 0
  PROVE  Coordinator(r)!Next
<1>1. PlayPhase(r) = "running" /\ PlayPhase(r)' = "running"
  BY SeenOfRequest, PlayOfIs DEF Advances, Runs
<1>2. SagaLog(r)' = Append(SagaLog(r), [type |-> "SagaStepExec", step |-> pc[r], err |-> "nil"])
  <2>1. SagaLog(r) = LogOf("run", pc[r], 0) /\ SagaLog(r)' = LogOf("run", pc[r] + 1, 0)
    BY SeenOfRequest DEF Advances, Runs
  <2>2. QED
    BY <2>1, LogAdvances
<1>3. ToCompensate(r) = <<>> /\ ToCompensate(r)' = <<>>
  BY DEF ToCompensate, Advances
<1>4. SagaLog(r)' =
        Coordinator(r)!AppendLog(SagaLog(r), Coordinator(r)!Entry("SagaStepExec", pc[r], "nil"))
  BY <1>2 DEF Coordinator!AppendLog, Coordinator!Entry
<1>5. Coordinator(r)!ExecStepOK
  BY <1>1, <1>3, <1>4 DEF Coordinator!ExecStepOK, Stays, Advances, Runs
<1>6. QED
  BY <1>5, Zenon DEF Coordinator!Next

\* A step that fails.
LEMMA FailAborts ==
  ASSUME NEW r \in Requests, Stays(r), Fails(r), pc[r] \in Nat, pc[r] >= 1, failedAt[r] = 0
  PROVE  Coordinator(r)!Next
<1>1. PlayPhase(r) = "running" /\ PlayPhase(r)' = "aborting"
  BY SeenOfRequest, PlayOfIs DEF Fails, Runs
<1> DEFINE executed == <<StartEntry>> \o Execs(pc[r], pc[r])
<1>2. executed = Append(SagaLog(r), [type |-> "SagaStepExec", step |-> pc[r], err |-> "error"])
      /\ SagaLog(r)' = Append(executed, AbortEntry(pc[r]))
  <2>1. SagaLog(r) = LogOf("run", pc[r], 0) /\ SagaLog(r)' = LogOf("abort", pc[r], pc[r])
    BY SeenOfRequest DEF Fails, Runs
  <2>2. QED
    BY <2>1, LogFails, Zenon
<1>3. /\ Coordinator(r)!GetStepLogsToCompensate(executed) = ToCompensate(r)'
      /\ Len(ToCompensate(r)') = pc[r]
  <2>1. ToCompensate(r)' = ToDo(pc[r], pc[r])
    BY SeenOfRequest DEF Fails
  <2>2. QED
    BY <2>1, FoundAtFailure, Zenon
<1> HIDE DEF executed
<1>4. executed =
        Coordinator(r)!AppendLog(SagaLog(r), Coordinator(r)!Entry("SagaStepExec", pc[r], "error"))
  BY <1>2 DEF Coordinator!AppendLog, Coordinator!Entry
<1>5. SagaLog(r)' = Coordinator(r)!AppendLog(executed, Coordinator(r)!Entry("SagaAbort", pc[r], "nil"))
  BY <1>2 DEF Coordinator!AppendLog, Coordinator!Entry, AbortEntry
<1>6. Coordinator(r)!ExecStepFails
  BY <1>1, <1>3, <1>4, <1>5 DEF Coordinator!ExecStepFails, Stays, Fails, Runs
<1>7. QED
  BY <1>6, Zenon DEF Coordinator!Next

\* A compensation that returns, and one that panics.
LEMMA UndoCompensates ==
  ASSUME NEW r \in Requests, Stays(r), Undoes(r), pc[r] \in Nat, failedAt[r] \in Nat,
         failedAt[r] >= 1, pc[r] <= failedAt[r]
  PROVE  Coordinator(r)!Next
<1>1. pc[r] >= 1 /\ failedAt'[r] = failedAt[r] /\ phase[r] = "abort" /\ pc[r] - 1 \in Nat
  BY DEF Undoes
<1>2. PlayPhase(r) = "aborting"
  BY <1>1, SeenOfRequest, PlayOfIs
<1>3. ToCompensate(r) # <<>> /\ Head(ToCompensate(r)).step = pc[r]
      /\ Tail(ToCompensate(r)) = ToDo(pc[r] - 1, failedAt[r])
  BY <1>1, SeenOfRequest, ToDoIs
<1>4. SagaLog(r) = LogOf("abort", pc[r], failedAt[r])
  BY <1>1, SeenOfRequest
<1>5. CompOf(failedAt[r], failedAt[r] - pc[r] + 1) =
        Coordinator(r)!Entry("SagaStepCompensate", pc[r], "nil")
  BY DEF CompOf, Coordinator!Entry
<1>6. ASSUME SagaLog(r)' = Append(SagaLog(r), CompOf(failedAt[r], failedAt[r] - pc[r] + 1))
      PROVE  Coordinator(r)!LogCompensation
  BY <1>3, <1>5, <1>6, Zenon DEF Coordinator!LogCompensation, Coordinator!AppendLog
<1>7. CASE phase'[r] = "abort" /\ pc'[r] = pc[r] - 1
  <2>1. PlayPhase(r)' = "aborting"
    BY <1>1, <1>7, SeenOfRequest, PlayOfIs
  <2>2. ToCompensate(r)' = Tail(ToCompensate(r))
    BY <1>1, <1>3, <1>7, SeenOfRequest
  <2>3. SagaLog(r)' = LogOf("abort", pc[r] - 1, failedAt[r])
    BY <1>1, <1>7, SeenOfRequest
  <2>4. Coordinator(r)!LogCompensation
    BY <1>1, <1>4, <1>6, <2>3, LogUndoes
  <2>5. Coordinator(r)!CompensateStep
    BY <1>1, <1>2, <1>3, <2>1, <2>2, <2>4 DEF Coordinator!CompensateStep, Stays
  <2>6. QED
    BY <2>5, Zenon DEF Coordinator!Next
<1>8. CASE phase'[r] = "panic" /\ pc'[r] = pc[r]
  <2>1. PlayPhase(r)' = "panicked"
    BY <1>1, <1>8, SeenOfRequest, PlayOfIs
  <2>2. ToCompensate(r)' = ToCompensate(r)
    BY <1>1, <1>8, SeenOfRequest
  <2>3. SagaLog(r)' = LogOf("panic", pc[r], failedAt[r])
    BY <1>1, <1>8, SeenOfRequest
  <2>4. Coordinator(r)!LogCompensation
    BY <1>1, <1>4, <1>6, <2>3, LogUndoes
  <2>5. Coordinator(r)!CompensateStepPanics
    BY <1>1, <1>2, <1>3, <2>1, <2>2, <2>4 DEF Coordinator!CompensateStepPanics, Stays
  <2>6. QED
    BY <2>5, Zenon DEF Coordinator!Next
<1>9. QED
  BY <1>7, <1>8 DEF Undoes

\* Play returns.
LEMMA ReturnCompletes ==
  ASSUME NEW r \in Requests, Stays(r), pc[r] \in Nat, failedAt[r] \in Nat,
         pc'[r] = pc[r], failedAt'[r] = failedAt[r],
         \/ /\ phase[r] = "run" /\ phase'[r] = "done" /\ pc[r] >= 1 /\ failedAt[r] = 0
            /\ pc[r] > Len(Steps(r))
         \/ /\ phase[r] = "abort" /\ phase'[r] = "failed" /\ failedAt[r] >= 1 /\ pc[r] = 0
  PROVE  Coordinator(r)!Next
<1>1. ToCompensate(r)' = ToCompensate(r)
  BY SeenOfRequest
<1>2. PlayPhase(r)' = "complete"
  BY SeenOfRequest, PlayOfIs
<1>3. SagaLog(r)' = Append(SagaLog(r), EndEntry)
  <2>1. CASE phase[r] = "run"
    <3>1. LogOf("done", pc[r], 0) = Append(LogOf("run", pc[r], 0), EndEntry)
      BY <2>1, LogEnds
    <3>2. QED
      BY <2>1, <3>1, SeenOfRequest
  <2>2. CASE phase[r] = "abort"
    <3>1. pc[r] <= failedAt[r] /\ failedAt[r] >= 1
      BY <2>2
    <3>2. LogOf("failed", pc[r], failedAt[r]) = Append(LogOf("abort", pc[r], failedAt[r]), EndEntry)
      BY <3>1, LogEnds
    <3>3. QED
      BY <2>2, <3>2, SeenOfRequest
  <2>3. QED
    BY <2>1, <2>2
<1>4. SagaLog(r)' =
        Coordinator(r)!AppendLog(SagaLog(r), Coordinator(r)!Entry("SagaComplete", 0, "nil"))
  BY <1>3 DEF Coordinator!AppendLog, Coordinator!Entry, EndEntry
<1>5. \/ PlayPhase(r) = "running" /\ failedAt[r] = 0 /\ pc[r] > Len(Steps(r))
      \/ PlayPhase(r) = "aborting" /\ ToCompensate(r) = <<>>
  BY SeenOfRequest, PlayOfIs, ToDoIs
<1>6. Coordinator(r)!Complete
  BY <1>1, <1>2, <1>4, <1>5 DEF Coordinator!Complete, Stays
<1>7. QED
  BY <1>6, Zenon DEF Coordinator!Next

\* A request that is turned away, and one that a crash takes down, show the
\* coordinator nothing.
LEMMA UnseenSteps ==
  ASSUME NEW r \in Requests, Stays(r), pc'[r] = pc[r], failedAt'[r] = failedAt[r], failedAt[r] \in Nat,
         \/ phase[r] = "idle" /\ phase'[r] = "refused"
         \/ phase[r] \in {"run", "abort"} /\ phase'[r] = "crashed"
  PROVE  UNCHANGED Coordinator(r)!vars
<1>1. PlayPhase(r)' = PlayPhase(r)
  BY SeenOfRequest, PlayOfIs
<1>2. ToCompensate(r)' = ToCompensate(r)
  BY SeenOfRequest
<1>3. SagaLog(r)' = SagaLog(r)
  <2>1. PlayOf(phase'[r], failedAt[r]) = PlayOf(phase[r], failedAt[r])
    BY PlayOfIs
  <2>2. Ends(phase'[r], failedAt[r]) = Ends(phase[r], failedAt[r])
    BY <2>1, Zenon DEF Ends
  <2>3. Comps(phase'[r], pc[r], failedAt[r]) = Comps(phase[r], pc[r], failedAt[r])
    BY DEF Comps, Undone
  <2>4. LogOf(phase'[r], pc[r], failedAt[r]) = LogOf(phase[r], pc[r], failedAt[r])
    BY <2>1, <2>2, <2>3, Zenon DEF LogOf
  <2>5. QED
    BY <2>4, SeenOfRequest, Zenon
<1>4. QED
  BY <1>1, <1>2, <1>3 DEF Coordinator!vars, Stays

\* What a step is for one request.
Refined(r) ==
  \/ UNCHANGED <<flow, phase[r], pc[r], failedAt[r]>>
  \/ [Coordinator(r)!Next]_(Coordinator(r)!vars)

\* The request that enters plays, the others see nothing.
LEMMA EnterRefines ==
  ASSUME PayInv, NEW q \in Requests, Enters(q), NEW r \in Requests
  PROVE  Refined(r)
<1>1. /\ flow' = flow /\ pc' = pc /\ failedAt' = failedAt /\ phase \in [Requests -> Phases]
      /\ phase[q] = "idle" /\ pc[q] = 1 /\ failedAt[q] = 0
      /\ \E p \in {"run", "refused"} : phase' = [phase EXCEPT ![q] = p]
  BY DEF Enters, PayInv, Typed, Control
<1>2. Stays(r)
  BY <1>1 DEF Stays, Steps
<1>3. CASE r # q
  BY <1>1, <1>3 DEF Refined
<1>4. CASE r = q /\ phase'[r] = "run"
  <2>1. Coordinator(r)!Next
    BY <1>1, <1>2, <1>4, BeginPlays
  <2>2. QED
    BY <2>1, Zenon DEF Refined
<1>5. CASE r = q /\ phase'[r] = "refused"
  <2>1. UNCHANGED Coordinator(r)!vars
    BY <1>1, <1>2, <1>5, UnseenSteps
  <2>2. QED
    BY <2>1, Zenon DEF Refined
<1>6. QED
  BY <1>1, <1>3, <1>4, <1>5

\* So does the request that executes or compensates.
LEMMA SoundRefines ==
  ASSUME PayInv, NEW q \in Requests, Sound(q), NEW r \in Requests
  PROVE  Refined(r)
<1>1. /\ flow' = flow
      /\ \A s \in Requests \ {q} :
           phase'[s] = phase[s] /\ pc'[s] = pc[s] /\ failedAt'[s] = failedAt[s]
      /\ Advances(q) \/ Fails(q) \/ Undoes(q)
  BY DEF Sound, SoundControl, SoundRest
<1>2. Stays(r)
  BY <1>1 DEF Stays, Steps
<1>3. CASE r # q
  BY <1>1, <1>3 DEF Refined
<1>4. CASE r = q
  <2>1. /\ pc[r] \in Nat /\ failedAt[r] \in Nat
        /\ phase[r] = "run" => pc[r] >= 1 /\ failedAt[r] = 0
        /\ phase[r] = "abort" => failedAt[r] >= 1 /\ pc[r] <= failedAt[r]
    BY DEF PayInv, Typed, Control
  <2>2. CASE Advances(r)
    <3>1. phase[r] = "run"
      BY <2>2 DEF Advances, Runs
    <3>2. QED
      BY <1>2, <2>1, <2>2, <3>1, AdvanceExecs, Zenon DEF Refined
  <2>3. CASE Fails(r)
    <3>1. phase[r] = "run"
      BY <2>3 DEF Fails, Runs
    <3>2. QED
      BY <1>2, <2>1, <2>3, <3>1, FailAborts, Zenon DEF Refined
  <2>4. CASE Undoes(r)
    <3>1. phase[r] = "abort"
      BY <2>4 DEF Undoes
    <3>2. QED
      BY <1>2, <2>1, <2>4, <3>1, UndoCompensates, Zenon DEF Refined
  <2>5. QED
    BY <1>1, <1>4, <2>2, <2>3, <2>4
<1>5. QED
  BY <1>3, <1>4

\* The request whose Play returns completes its execution.
LEMMA ReturnRefines ==
  ASSUME PayInv, NEW q \in Requests, Return(q), NEW r \in Requests
  PROVE  Refined(r)
<1>1. flow' = flow /\ pc' = pc /\ failedAt' = failedAt /\ phase \in [Requests -> Phases]
  BY DEF Return, PayInv, Typed
<1>2. Stays(r)
  BY <1>1 DEF Stays, Steps
<1>3. CASE r # q
  <2>1. phase'[r] = phase[r]
    BY <1>1, <1>3 DEF Return
  <2>2. QED
    BY <1>1, <2>1 DEF Refined
<1>4. CASE r = q
  <2>1. \/ phase[r] = "run" /\ phase'[r] = "done" /\ pc[r] > Len(Steps(r))
        \/ phase[r] = "abort" /\ phase'[r] = "failed" /\ pc[r] = 0
    BY <1>1, <1>4 DEF Return
  <2>2. /\ pc[r] \in Nat /\ failedAt[r] \in Nat
        /\ phase[r] = "run" => pc[r] >= 1 /\ failedAt[r] = 0
        /\ phase[r] = "abort" => failedAt[r] >= 1
    BY DEF PayInv, Typed, Control
  <2>3. Coordinator(r)!Next
    BY <1>1, <1>2, <2>1, <2>2, ReturnCompletes
  <2>4. QED
    BY <2>3, Zenon DEF Refined
<1>5. QED
  BY <1>3, <1>4

\* What happens around the requests is seen by none of their executions.
LEMMA AroundRefines ==
  ASSUME PayInv,
         \/ Tick \/ JobRead \/ (\E outcome \in RepairOutcomes : JobFail(outcome))
         \/ JobCancel \/ Crash \/ UNCHANGED vars,
         NEW r \in Requests
  PROVE  Refined(r)
<1>1. /\ flow' = flow /\ pc' = pc /\ failedAt' = failedAt
      /\ \/ phase'[r] = phase[r]
         \/ phase[r] \in {"run", "abort"} /\ phase'[r] = "crashed"
  BY DEF Tick, JobRead, JobFail, JobCancel, Crash, Active, control, vars
<1>2. CASE phase'[r] = phase[r]
  BY <1>1, <1>2 DEF Refined
<1>3. CASE phase[r] \in {"run", "abort"} /\ phase'[r] = "crashed"
  <2>1. Stays(r) /\ failedAt[r] \in Nat
    BY <1>1 DEF Stays, Steps, PayInv, Typed
  <2>2. UNCHANGED Coordinator(r)!vars
    BY <1>1, <1>3, <2>1, UnseenSteps
  <2>3. QED
    BY <2>2, Zenon DEF Refined
<1>4. QED
  BY <1>1, <1>2, <1>3

\* RefinesCoordinator: whatever its flow, every request is an execution of the
\* coordinator, so what SagaCoordinatorProofs proves of an execution (the log is
\* mirrored, every step that ran is undone, a Result without an error ran them
\* all) holds of the requests.
THEOREM RequestsAreExecutions == Spec => RefinesCoordinator
<1>1. PayInv /\ [Next]_vars => [\A r \in Requests : Refined(r)]_vars
  <2>1. SUFFICES ASSUME PayInv, [Next]_vars, NEW r \in Requests PROVE Refined(r)
    BY Zenon
  <2>2. ASSUME NEW q \in Requests, Begin(q) \/ BeginByPass(q) PROVE Refined(r)
    BY <2>1, <2>2, BeginEnters, BeginByPassEnters, EnterRefines
  <2>3. ASSUME NEW q \in Requests, Execute(q) \/ Compensate(q) PROVE Refined(r)
    BY <2>1, <2>3, WorkIsSound, SoundRefines
  <2>4. ASSUME NEW q \in Requests, Return(q) PROVE Refined(r)
    BY <2>1, <2>4, ReturnRefines
  <2>5. CASE \/ Tick \/ JobRead \/ (\E outcome \in RepairOutcomes : JobFail(outcome))
             \/ JobCancel \/ Crash \/ UNCHANGED vars
    BY <2>1, <2>5, AroundRefines
  <2>6. CASE Quiescent
    BY <2>1, <2>6, AroundRefines DEF Quiescent
  <2>7. QED
    BY <2>1, <2>2, <2>3, <2>4, <2>5, <2>6 DEF Next, Work
<1>2. Init => \A r \in Requests : Coordinator(r)!Init
  BY InitRefines
<1>3. QED
  BY <1>1, <1>2, PaymentInvariant, PTL DEF Spec, RefinesCoordinator, Refined

-----------------------------------------------------------------------------
(* Rollbacks: what a request that goes on, and one that is rolled back, may *)
(* do to the order, to the money and to the transactions they name.         *)

FailedStep(r) == Steps(r)[failedAt[r]].op
TranOf(o) == IF o = NIL THEN NIL ELSE o.tran
IdOf(t) == IF t = NIL THEN NIL ELSE t.id

\* The provider, or the bank, may still carry out what the request asked for.
Unknown(r) == flag[r] \in {"pending", "verifying"}

\* The request failed while it settled the payment.
FailedFinally(r) == phase[r] = "abort" /\ FailedStep(r) \in FinalOps

\* The transactions a step may write into the order.
Names(r, t) == t \in {NIL, TranOf(order[r])} \/ (Cur(r).link /\ t = IdOf(trans[r]))

RunsDoc(r) ==
  doc' # doc =>
    /\ doc' \in Orders /\ Names(r, doc'.tran)
    /\ doc'.status = "PENDING" => Cur(r).op = "InitOrder"
    /\ doc'.status = "PROCESSING" => Cur(r).op = "ProcessingOrder"
    /\ doc'.status = "SUCCESS" => Cur(r).op \in FinalOps
    /\ doc'.status = "CANCEL" => Cur(r).op = "CancelOrder"
    /\ doc'.status = "FAILED" => Cur(r).op = "FailUnpaid" /\ Fails(r)
    /\ doc'.status # "VERIFYING"

RunsOrder(r) ==
  \/ Names(r, TranOf(order'[r]))
  \/ GetValidOrder(doc) /\ order'[r] = doc
  \/ Cur(r).op \in OpeningOps /\ Cur(r).link /\ TranOf(order'[r]) = r

RunsTrans(r) ==
  \/ IdOf(trans'[r]) \in {NIL, IdOf(trans[r])}
  \/ Cur(r).op \in OpeningOps /\ IdOf(trans'[r]) = r
  \/ Cur(r).op \in {"FindTransaction", "FindOrInitPayment"} /\ IdOf(trans'[r]) = TranOf(order[r])

RunsMoney(r) ==
  /\ \A t \in Requests :
       /\ Charged(t)' /\ ~ Charged(t) => Cur(r).op \in ConfirmOps /\ t = IdOf(trans[r]) /\ doc # NIL
       /\ state'[t] = "RELEASED" /\ state[t] # "RELEASED" =>
            \/ Cur(r).op = "FailUnpaid" /\ Fails(r) /\ t = IdOf(trans[r])
            \/ Cur(r).op = "CancelInitial" /\ t = TranOf(order[r])
  /\ Cur(r).op = "ConfirmTrans" /\ Advances(r) => IdOf(trans[r]) \in Requests /\ state'[IdOf(trans[r])] = "APPLIED"

RunsFlag(r) ==
  /\ flag'[r] # flag[r] /\ flag'[r] = "pending" =>
       Fails(r) /\ Cur(r).op = "CallProvider" /\ UNCHANGED <<doc, order, trans, state>>
  /\ flag'[r] # flag[r] /\ flag'[r] = "verifying" =>
       Fails(r) /\ Cur(r).op = "VerifyOtp" /\ UNCHANGED <<doc, order, trans, state>>

RunsFinal(r) == Fails(r) /\ Cur(r).op \in FinalOps => order'[r] = NIL \/ trans'[r] = NIL

RunStep(r) ==
  /\ Runs(r) /\ RunsDoc(r) /\ RunsOrder(r) /\ RunsTrans(r) /\ RunsMoney(r) /\ RunsFlag(r)
  /\ RunsFinal(r)

\* A step that leaves the money alone.
LEMMA MoneyLeft ==
  ASSUME NEW r \in Requests, UNCHANGED state, Cur(r).op # "ConfirmTrans"
  PROVE  RunsMoney(r)
BY DEF RunsMoney, Charged

\* A step that leaves the order and the transaction alone.
LEMMA CopiesKept ==
  ASSUME NEW r \in Requests, UNCHANGED <<doc, order, trans>>
  PROVE  RunsDoc(r) /\ RunsOrder(r) /\ RunsTrans(r)
BY DEF RunsDoc, RunsOrder, RunsTrans, Names

\* A step that stores an order.
LEMMA WriteRuns ==
  ASSUME PayInv, NEW r \in Requests, Runs(r), NEW entity \in Orders, NEW outcome,
         StepWrites(r, entity, outcome), Names(r, entity.tran),
         \/ entity.status = "PENDING" /\ Cur(r).op = "InitOrder"
         \/ entity.status = "PROCESSING" /\ Cur(r).op = "ProcessingOrder"
         \/ entity.status = "SUCCESS" /\ Cur(r).op \in FinalOps
         \/ entity.status = "CANCEL" /\ Cur(r).op = "CancelOrder"
  PROVE  RunsDoc(r) /\ RunsOrder(r) /\ RunsFinal(r)
<1>1. order \in [Requests -> Orders \cup {NIL}]
  BY DEF PayInv, Typed
<1>2. /\ doc' \in {doc, entity}
      /\ order'[r] \in {entity, NIL}
      /\ outcome # "ok" => order'[r] = NIL
      /\ StepEnds(r, outcome)
  BY <1>1 DEF StepWrites
<1>3. RunsDoc(r)
  BY <1>2 DEF RunsDoc
<1>4. TranOf(order'[r]) \in {NIL, entity.tran}
  BY <1>2 DEF TranOf
<1>5. RunsOrder(r)
  BY <1>4 DEF RunsOrder, Names
<1>6. outcome = "ok" => ~ Fails(r)
  BY <1>2, OkIsSound DEF StepEnds, Fails, Advances
<1>7. QED
  BY <1>2, <1>3, <1>5, <1>6 DEF RunsFinal

\* FIND_ORDER copies the stored order only while it is valid.
LEMMA FindOrderRuns ==
  ASSUME PayInv, NEW r \in Requests, FindOrder(r)
  PROVE  RunStep(r)
<1>1. Runs(r) /\ Cur(r).op = "FindOrder"
  BY DEF FindOrder, AtStep, Runs
<1>2. RunsMoney(r) /\ RunsFlag(r) /\ RunsFinal(r)
  BY <1>1, MoneyLeft DEF FindOrder, service, RunsFlag, RunsFinal, FinalOps, ConfirmOps
<1>3. RunsDoc(r) /\ RunsTrans(r)
  BY DEF FindOrder, RunsDoc, RunsTrans
<1>4. RunsOrder(r)
  BY DEF FindOrder, RunsOrder, Names, PayInv, Typed
<1>5. QED
  BY <1>1, <1>2, <1>3, <1>4 DEF RunStep

\* FIND_TRANSACTION takes up the transaction that the order's copy names.
LEMMA FindTransactionRuns ==
  ASSUME PayInv, NEW r \in Requests, FindTransaction(r)
  PROVE  RunStep(r)
<1>1. Runs(r) /\ Cur(r).op \in {"FindTransaction", "FindOrInitPayment"}
  BY DEF FindTransaction, AtStep, Runs
<1>2. RunsMoney(r) /\ RunsFlag(r) /\ RunsFinal(r)
  BY <1>1, MoneyLeft DEF FindTransaction, service, RunsFlag, RunsFinal, FinalOps, ConfirmOps
<1>3. RunsDoc(r) /\ RunsOrder(r)
  BY DEF FindTransaction, RunsDoc, RunsOrder, Names
<1>4. order[r] # NIL
  BY <1>1, IsReady, NilAssumption DEF Ready, NeedsOrder
<1>5. RunsTrans(r)
  <2>1. CASE trans' = [trans EXCEPT ![r] = [id |-> order[r].tran, status |-> tx[order[r].tran]]]
    <3>1. trans'[r] = [id |-> order[r].tran, status |-> tx[order[r].tran]]
      BY <2>1 DEF PayInv, Typed
    <3>2. IdOf(trans'[r]) \in {NIL, TranOf(order[r])}
      BY <1>4, <3>1 DEF IdOf, TranOf
    <3>3. QED
      BY <1>1, <3>2 DEF RunsTrans
  <2>2. CASE UNCHANGED trans
    BY <2>2 DEF RunsTrans
  <2>3. QED
    BY <2>1, <2>2 DEF FindTransaction
<1>6. QED
  BY <1>1, <1>2, <1>3, <1>5 DEF RunStep

\* The steps that touch neither the order nor the money.
LEMMA IdleRuns ==
  ASSUME PayInv, NEW r \in Requests, Check(r) \/ AccountVoucher(r) \/ SkipStep(r)
  PROVE  RunStep(r)
<1>1. /\ Runs(r) /\ Cur(r).op # "ConfirmTrans"
      /\ UNCHANGED <<doc, order, trans, state, flag>>
      /\ Cur(r).op \in FinalOps => StepOK(r)
  BY DEF Check, AccountVoucher, SkipStep, AtStep, Runs, service, copies, FinalOps, ConfirmOps
<1>2. RunsMoney(r) /\ RunsDoc(r) /\ RunsOrder(r) /\ RunsTrans(r) /\ RunsFlag(r)
  BY <1>1, MoneyLeft, CopiesKept DEF RunsFlag
<1>3. StepOK(r) => ~ Fails(r)
  BY DEF StepOK, Fails, Runs
<1>4. QED
  BY <1>1, <1>2, <1>3 DEF RunStep, RunsFinal

\* INIT_ORDER stores a pending order that names no transaction.
LEMMA InitOrderRuns ==
  ASSUME PayInv, NEW r \in Requests, InitOrder(r)
  PROVE  RunStep(r)
<1>1. Runs(r) /\ Cur(r).op = "InitOrder"
  BY DEF InitOrder, AtStep, Runs
<1>2. RunsMoney(r) /\ RunsFlag(r) /\ RunsTrans(r)
  BY <1>1, MoneyLeft DEF InitOrder, service, RunsFlag, RunsTrans
<1>3. NewOrder \in Orders /\ NewOrder.status = "PENDING" /\ NewOrder.tran = NIL
  BY DEF NewOrder, Orders, OrderStatus
<1>4. RunsDoc(r) /\ RunsOrder(r) /\ RunsFinal(r)
  <2>1. Names(r, NewOrder.tran)
    BY <1>3 DEF Names
  <2>2. PICK outcome \in StepOutcomes : StepWrites(r, NewOrder, outcome)
    BY DEF InitOrder
  <2>3. QED
    BY <1>1, <1>3, <2>1, <2>2, WriteRuns
<1>5. QED
  BY <1>1, <1>2, <1>4 DEF RunStep

\* A copy of the order with another status.
LEMMA WithStatus ==
  ASSUME NEW o \in Orders, NEW status \in OrderStatus
  PROVE  /\ [o EXCEPT !.status = status] \in Orders
         /\ [o EXCEPT !.status = status].status = status
         /\ [o EXCEPT !.status = status].tran = o.tran
BY DEF Orders

\* PROCESSING_ORDER stores the copy, with the transaction it named before.
LEMMA ProcessingOrderRuns ==
  ASSUME PayInv, NEW r \in Requests, ProcessingOrder(r)
  PROVE  RunStep(r)
<1>1. Runs(r) /\ Cur(r).op = "ProcessingOrder"
  BY DEF ProcessingOrder, AtStep, Runs
<1>2. RunsMoney(r) /\ RunsFlag(r) /\ RunsTrans(r)
  BY <1>1, MoneyLeft DEF ProcessingOrder, service, RunsFlag, RunsTrans
<1> DEFINE entity == [order[r] EXCEPT !.status = "PROCESSING"]
<1>3. order[r] \in Orders /\ TranOf(order[r]) = order[r].tran
  BY <1>1, IsReady, NilAssumption DEF Ready, NeedsOrder, TranOf
<1>4. entity \in Orders /\ entity.status = "PROCESSING" /\ Names(r, entity.tran)
  BY <1>3, WithStatus DEF OrderStatus, Names
<1> HIDE DEF entity
<1>5. CASE \E outcome \in StepOutcomes : StepWrites(r, entity, outcome)
  BY <1>1, <1>2, <1>4, <1>5, WriteRuns DEF RunStep
<1>6. CASE order' = [order EXCEPT ![r] = entity] /\ UNCHANGED doc /\ StepFails(r)
  <2>1. order'[r] = entity
    BY <1>6 DEF PayInv, Typed
  <2>2. TranOf(order'[r]) = entity.tran
    BY <1>4, <2>1, NilAssumption DEF TranOf
  <2>3. RunsDoc(r) /\ RunsOrder(r) /\ RunsFinal(r)
    BY <1>1, <1>4, <1>6, <2>2 DEF RunsDoc, RunsOrder, RunsFinal, FinalOps, ConfirmOps
  <2>4. QED
    BY <1>1, <1>2, <2>3 DEF RunStep
<1>7. QED
  BY <1>5, <1>6 DEF ProcessingOrder, entity

\* A linking step names the transaction of the request.
LEMMA LinkedNames ==
  ASSUME NEW r \in Requests, order[r] \in Orders, trans[r] \in Transactions
  PROVE  Names(r, Linked(r).tran)
BY NilAssumption DEF Names, Linked, TranOf, IdOf, Orders

\* SUCCESS_ORDER is one of the steps that settle a payment.
LEMMA SuccessOrderRuns ==
  ASSUME PayInv, NEW r \in Requests, SuccessOrder(r)
  PROVE  RunStep(r)
<1>1. Runs(r) /\ Cur(r).op \in {"SuccessOrder", "SuccessIfBypass"}
  BY DEF SuccessOrder, AtStep, Runs
<1>2. RunsMoney(r) /\ RunsFlag(r) /\ RunsTrans(r)
  BY <1>1, MoneyLeft DEF SuccessOrder, service, RunsFlag, RunsTrans
<1> DEFINE entity == [Linked(r) EXCEPT !.status = "SUCCESS"]
<1>3. order[r] \in Orders /\ trans[r] \in Transactions
  BY <1>1, IsReady DEF Ready, NeedsOrder, NeedsTrans
<1>4. entity \in Orders /\ entity.status = "SUCCESS" /\ Names(r, entity.tran)
  BY <1>3, WithStatus, LinkedIsOrder, LinkedNames DEF OrderStatus
<1> HIDE DEF entity
<1>5. PICK outcome \in StepOutcomes : StepWrites(r, entity, outcome)
  BY DEF SuccessOrder, entity
<1>6. RunsDoc(r) /\ RunsOrder(r) /\ RunsFinal(r)
  BY <1>1, <1>4, <1>5, WriteRuns DEF FinalOps
<1>7. QED
  BY <1>1, <1>2, <1>6 DEF RunStep

\* OrderCancel alone stores CANCEL.
LEMMA CancelOrderRuns ==
  ASSUME PayInv, NEW r \in Requests, CancelOrder(r)
  PROVE  RunStep(r)
<1>1. Runs(r) /\ Cur(r).op = "CancelOrder"
  BY DEF CancelOrder, AtStep, Runs
<1>2. RunsMoney(r) /\ RunsFlag(r) /\ RunsTrans(r)
  BY <1>1, MoneyLeft DEF CancelOrder, service, RunsFlag, RunsTrans
<1> DEFINE entity == [order[r] EXCEPT !.status = "CANCEL"]
<1>3. order[r] \in Orders /\ TranOf(order[r]) = order[r].tran
  BY <1>1, IsReady, NilAssumption DEF Ready, NeedsOrder, TranOf
<1>4. entity \in Orders /\ entity.status = "CANCEL" /\ Names(r, entity.tran)
  BY <1>3, WithStatus DEF OrderStatus, Names
<1> HIDE DEF entity
<1>5. PICK outcome \in StepOutcomes : StepWrites(r, entity, outcome)
  BY DEF CancelOrder, entity
<1>6. RunsDoc(r) /\ RunsOrder(r) /\ RunsFinal(r)
  BY <1>1, <1>4, <1>5, WriteRuns
<1>7. QED
  BY <1>1, <1>2, <1>6 DEF RunStep

\* A cancellation releases its own transaction, and nothing is charged by it.
LEMMA CancelReleases ==
  ASSUME PayInv, NEW t, NEW outcome, CancelEnds(t, outcome)
  PROVE  \A s \in Requests :
           /\ state'[s] # state[s] => s = t /\ state'[s] = "RELEASED"
           /\ Charged(s)' => Charged(s)
<1>1. state \in [Requests -> TransactionState]
  BY DEF PayInv, Typed
<1>2. state' = state \/ state' = [state EXCEPT ![t] = "RELEASED"]
  BY DEF CancelEnds, service
<1>3. QED
  BY <1>1, <1>2 DEF Charged

\* OrderCancel gives back what its order names.
LEMMA CancelInitialRuns ==
  ASSUME PayInv, NEW r \in Requests, CancelInitial(r)
  PROVE  RunStep(r)
<1>1. Runs(r) /\ Cur(r).op = "CancelInitial"
  BY DEF CancelInitial, AtStep, Runs
<1>2. RunsDoc(r) /\ RunsOrder(r) /\ RunsTrans(r) /\ RunsFlag(r) /\ RunsFinal(r)
  BY <1>1, CopiesKept DEF CancelInitial, copies, RunsFlag, RunsFinal, FinalOps, ConfirmOps
<1>3. \A t \in Requests :
        /\ Charged(t)' => Charged(t)
        /\ state'[t] # state[t] => t = TranOf(order[r])
  <2>1. CASE UNCHANGED service
    BY <2>1 DEF service, Charged
  <2>2. CASE \E outcome \in RepairOutcomes : CancelEnds(order[r].tran, outcome)
    <3>1. order[r] # NIL
      BY <1>1, IsReady, NilAssumption DEF Ready, NeedsOrder
    <3>2. QED
      BY <2>2, <3>1, CancelReleases DEF TranOf
  <2>3. QED
    BY <2>1, <2>2 DEF CancelInitial, CancelIfInitial
<1>4. RunsMoney(r)
  BY <1>1, <1>3 DEF RunsMoney
<1>5. QED
  BY <1>1, <1>2, <1>4 DEF RunStep

\* INIT_PAYMENT opens a transaction of its own and gives nothing back.
LEMMA InitPaymentRuns ==
  ASSUME PayInv, NEW r \in Requests, InitPayment(r)
  PROVE  RunStep(r)
<1> USE NilAssumption
<1>1. Runs(r) /\ Cur(r).op \in OpeningOps
  BY DEF InitPayment, AtStep, Runs, OpeningOps
<1>2. Cur(r).op \notin FinalOps
  BY <1>1 DEF OpeningOps, FinalOps, ConfirmOps
<1>3. order[r] \in Orders
  <2>1. Cur(r).op \in NeedsOrder
    BY <1>1 DEF OpeningOps, NeedsOrder
  <2>2. QED
    BY <1>1, <2>1, IsReady DEF Ready
<1>4. RunsDoc(r) /\ RunsFlag(r) /\ RunsFinal(r)
  BY <1>2 DEF InitPayment, RunsDoc, RunsFlag, RunsFinal
<1>5. /\ order \in [Requests -> Orders \cup {NIL}] /\ trans \in [Requests -> Transactions \cup {NIL}]
      /\ state \in [Requests -> TransactionState]
  BY DEF PayInv, Typed
<1>6. RunsMoney(r)
  <2>1. state' = state \/ state' = [state EXCEPT ![r] = "INITIAL"]
    BY DEF InitPayment, service
  <2>2. \A t \in Requests :
          (Charged(t)' => Charged(t)) /\ (state'[t] = "RELEASED" => state[t] = "RELEASED")
    BY <1>5, <2>1 DEF Charged
  <2>3. QED
    BY <1>2, <2>2 DEF RunsMoney, FinalOps, ConfirmOps
<1>7. RunsTrans(r)
  <2>1. \/ trans'[r] \in {NIL, [id |-> NIL, status |-> "NONE"]}
        \/ trans'[r] = [id |-> r, status |-> "PROCESSING"]
    BY <1>5 DEF InitPayment
  <2>2. IdOf(trans'[r]) \in {NIL, r}
    BY <2>1 DEF IdOf
  <2>3. QED
    BY <1>1, <2>2 DEF RunsTrans
<1>8. RunsOrder(r)
  <2>1. CASE order' = order
    BY <2>1 DEF RunsOrder, Names
  <2>2. CASE Cur(r).link /\ order' = [order EXCEPT ![r].tran = r]
    <3>1. order'[r] = [order[r] EXCEPT !.tran = r]
      BY <1>5, <2>2
    <3>2. [order[r] EXCEPT !.tran = r] \in Orders /\ [order[r] EXCEPT !.tran = r].tran = r
      BY <1>3 DEF Orders
    <3>3. TranOf(order'[r]) = r
      BY <3>1, <3>2 DEF TranOf
    <3>4. QED
      BY <1>1, <2>2, <3>3 DEF RunsOrder
  <2>3. QED
    BY <2>1, <2>2 DEF InitPayment
<1>9. QED
  BY <1>1, <1>4, <1>6, <1>7, <1>8 DEF RunStep

\* CONFIRM_TRANSACTION charges the transaction the request holds, or loses its copy.
LEMMA ConfirmTransRuns ==
  ASSUME PayInv, NEW r \in Requests, ConfirmTrans(r)
  PROVE  RunStep(r)
<1> USE NilAssumption
<1>1. Runs(r) /\ Cur(r).op \in ConfirmOps
  BY DEF ConfirmTrans, AtStep, Runs, ConfirmOps
<1>2. order[r] \in Orders /\ trans[r] \in Transactions /\ trans[r].id \in Requests
  BY <1>1, IsReady DEF Ready, NeedsOrder, NeedsTrans, ConfirmOps
<1>3. RunsDoc(r) /\ RunsFlag(r)
  BY DEF ConfirmTrans, RunsDoc, RunsFlag
<1>4. /\ order \in [Requests -> Orders \cup {NIL}] /\ trans \in [Requests -> Transactions \cup {NIL}]
      /\ state \in [Requests -> TransactionState]
      /\ doc # NIL
  BY <1>2 DEF PayInv, Typed, Creation
<1>5. RunsOrder(r)
  <2>1. order'[r] = Linked(r)
    BY <1>4 DEF ConfirmTrans
  <2>2. Linked(r) \in Orders /\ Names(r, Linked(r).tran)
    BY <1>2, LinkedIsOrder, LinkedNames
  <2>3. QED
    BY <2>1, <2>2 DEF RunsOrder, TranOf
<1> DEFINE t == trans[r].id
<1>6. t = IdOf(trans[r])
  BY <1>2 DEF IdOf
<1>7. RunsTrans(r)
  <2>1. trans'[r] = NIL \/ trans'[r] = [trans[r] EXCEPT !.status = "FINISH"]
    BY <1>4 DEF ConfirmTrans
  <2>2. [trans[r] EXCEPT !.status = "FINISH"].id = trans[r].id
    BY <1>2 DEF Transactions
  <2>3. [trans[r] EXCEPT !.status = "FINISH"] \in Transactions
    BY <1>2 DEF Transactions, TransactionStatus
  <2>4. IdOf(trans'[r]) \in {NIL, IdOf(trans[r])}
    BY <1>6, <2>1, <2>2, <2>3 DEF IdOf
  <2>5. QED
    BY <2>4 DEF RunsTrans
<1>8. /\ state' = state \/ state' = [state EXCEPT ![t] = "APPLIED"]
      /\ Advances(r) => state' = [state EXCEPT ![t] = "APPLIED"]
      /\ Fails(r) => trans'[r] = NIL
  <2>1. CASE StepFails(r) /\ UNCHANGED service /\ trans' = [trans EXCEPT ![r] = NIL]
    BY <1>1, <1>4, <2>1, FailIsSound DEF service
  <2>2. ASSUME NEW outcome \in StepOutcomes,
               state' = IF outcome = "err" THEN state ELSE [state EXCEPT ![t] = "APPLIED"],
               trans' = [trans EXCEPT ![r] = IF outcome = "ok" THEN [@ EXCEPT !.status = "FINISH"]
                                             ELSE NIL],
               StepEnds(r, outcome)
        PROVE  <1>8!1 /\ <1>8!2 /\ <1>8!3
    <3>1. /\ outcome = "ok" => Advances(r)
          /\ outcome # "ok" => ~ Advances(r)
      BY <1>1, <2>2, EndIsSound
    <3>2. ~ (Advances(r) /\ Fails(r))
      BY DEF Advances, Fails
    <3>3. QED
      BY <1>4, <2>2, <3>1, <3>2
  <2>3. QED
    BY <2>1, <2>2 DEF ConfirmTrans
<1>9. RunsMoney(r)
  <2>1. \A s \in Requests : state'[s] # state[s] => s = t /\ state'[s] = "APPLIED"
    BY <1>4, <1>8
  <2>2. Advances(r) => state'[t] = "APPLIED"
    BY <1>2, <1>4, <1>8
  <2>3. QED
    BY <1>1, <1>2, <1>4, <1>6, <2>1, <2>2 DEF RunsMoney, Charged
<1>10. RunsFinal(r)
  BY <1>8 DEF RunsFinal
<1>11. QED
  BY <1>1, <1>3, <1>5, <1>7, <1>9, <1>10 DEF RunStep

\* The steps that ask the provider or the bank: what they note of a pending
\* answer comes with an error.
LEMMA AskRuns ==
  ASSUME PayInv, NEW r \in Requests, Runs(r), Cur(r).op \in BankOps \cup {"CallProvider"},
         UNCHANGED <<order, trans, doc, service>>,
         NEW noted \in Flags, NEW outcome, flag' = [flag EXCEPT ![r] = noted],
         StepEnds(r, outcome),
         noted = "pending" => Cur(r).op = "CallProvider" /\ outcome # "ok",
         noted = "verifying" => Cur(r).op = "VerifyOtp" /\ outcome # "ok"
  PROVE  RunStep(r)
<1>1. Cur(r).op \notin FinalOps
  BY DEF BankOps, FinalOps, ConfirmOps
<1>2. UNCHANGED <<doc, order, trans, state>>
  BY DEF service
<1>3. RunsDoc(r) /\ RunsOrder(r) /\ RunsTrans(r) /\ RunsMoney(r) /\ RunsFinal(r)
  BY <1>1, <1>2, CopiesKept, MoneyLeft DEF RunsFinal, FinalOps, ConfirmOps
<1>4. flag'[r] = noted
  BY DEF PayInv, Typed
<1>5. outcome # "ok" => Fails(r)
  BY EndIsSound
<1>6. QED
  BY <1>2, <1>3, <1>4, <1>5 DEF RunStep, RunsFlag

\* The calls to a provider: "pending" comes with an error.
LEMMA CallProviderRuns ==
  ASSUME PayInv, NEW r \in Requests, CallProvider(r) \/ CallTransfer(r)
  PROVE  RunStep(r)
<1>1. /\ Runs(r) /\ Cur(r).op = "CallProvider"
      /\ UNCHANGED <<order, trans, doc, service>>
  BY DEF CallProvider, CallTransfer, AtStep, Runs
<1>2. \E did \in Deeds, noted \in Flags, outcome \in {"ok", "err"} :
        /\ Answers(r, did, noted, outcome)
        /\ noted = "pending" => outcome # "ok"
        /\ noted # "verifying"
  <2>1. CASE CallProvider(r)
    BY <2>1 DEF CallProvider, Flags, Deeds
  <2>2. CASE CallTransfer(r)
    BY <2>2, CodesAre DEF CallTransfer, CashOutEnds, IBFTTransferEnds, Flags, Deeds
  <2>3. QED
    BY <2>1, <2>2
<1>3. QED
  BY <1>1, <1>2, AskRuns DEF Answers

\* The cash in notes neither "pending" nor "verifying".
LEMMA CashInRuns ==
  ASSUME PayInv, NEW r \in Requests, CashInRequest(r) \/ CashInBankGW(r)
  PROVE  RunStep(r)
<1>1. /\ Runs(r) /\ Cur(r).op \in BankOps
      /\ UNCHANGED <<order, trans, doc, service>>
  BY DEF CashInRequest, CashInBankGW, AtStep, Runs, BankOps
<1>2. \E did \in Deeds, noted \in {"none", "bypass"}, outcome \in {"ok", "err"} :
        BankAnswers(r, did, noted, outcome)
  BY CodesAre DEF CashInRequest, CashInBankGW, CashIn, CashInEnds, Deeds
<1>3. QED
  BY <1>1, <1>2, AskRuns DEF BankAnswers, Flags

\* The OTP: "verifying" comes with an error.
LEMMA VerifyOtpRuns ==
  ASSUME PayInv, NEW r \in Requests, VerifyOtp(r)
  PROVE  RunStep(r)
<1>1. /\ Runs(r) /\ Cur(r).op = "VerifyOtp" /\ Cur(r).op \in BankOps
      /\ UNCHANGED <<order, trans, doc, service>>
  BY DEF VerifyOtp, AtStep, Runs, BankOps
<1>2. \E did \in Deeds, noted \in Flags, outcome \in {"ok", "err"} :
        /\ BankAnswers(r, did, noted, outcome)
        /\ noted = "verifying" => outcome # "ok"
        /\ noted # "pending"
  <2>1. CASE BankAnswers(r, "delivered", "failed", "err")
    BY <2>1 DEF Flags, Deeds
  <2>2. ASSUME NEW code \in BankCodes \ {"453"},
               BankAnswers(r, BankDid(code),
                           CASE VerifyOTPEnds(code) = "err" -> "failed"
                             [] VerifyOTPEnds(code) = "ok" /\ code = "102" -> "verifying"
                             [] OTHER -> "none",
                           IF VerifyOTPEnds(code) = "ok" /\ code \in {"102", "449"} THEN "err"
                           ELSE VerifyOTPEnds(code))
        PROVE  <1>2
    <3> DEFINE noted == CASE VerifyOTPEnds(code) = "err" -> "failed"
                          [] VerifyOTPEnds(code) = "ok" /\ code = "102" -> "verifying"
                          [] OTHER -> "none"
               outcome == IF VerifyOTPEnds(code) = "ok" /\ code \in {"102", "449"} THEN "err"
                          ELSE VerifyOTPEnds(code)
    <3>1. VerifyOTPEnds(code) \in {"ok", "err"}
      BY DEF VerifyOTPEnds
    <3>2. /\ noted \in Flags /\ noted # "pending"
          /\ noted = "verifying" => outcome # "ok"
      BY <3>1 DEF Flags
    <3>3. BankAnswers(r, BankDid(code), noted, outcome)
      BY <2>2
    <3>4. outcome \in {"ok", "err"} /\ BankDid(code) \in Deeds
      BY <3>1, CodesAre
    <3> HIDE DEF noted, outcome
    <3>5. QED
      BY <3>2, <3>3, <3>4
  <2>3. QED
    BY <2>1, <2>2 DEF VerifyOtp
<1>3. QED
  BY <1>1, <1>2, AskRuns DEF BankAnswers

\* "FAIL ORDER" gives back the transaction it holds and ends the request.
LEMMA FailUnpaidRuns ==
  ASSUME PayInv, NEW r \in Requests, FailUnpaid(r)
  PROVE  RunStep(r)
<1> USE NilAssumption
<1>1. Runs(r) /\ Cur(r).op = "FailUnpaid" /\ trans' = trans /\ flag' = flag
  BY DEF FailUnpaid, AtStep, Runs
<1>2. order[r] \in Orders
  BY <1>1, IsReady DEF Ready, NeedsOrder
<1>3. RunsTrans(r) /\ RunsFlag(r) /\ RunsFinal(r)
  BY <1>1 DEF RunsTrans, RunsFlag, RunsFinal, FinalOps, ConfirmOps
<1>4. CASE UNCHANGED <<doc, order, service>>
  BY <1>1, <1>3, <1>4, CopiesKept, MoneyLeft DEF RunStep, service
<1>5. ASSUME StepFails(r), NEW outcome \in {"ok", "err", "lost"}, CancelEnds(trans[r].id, outcome),
             IF outcome = "ok" THEN ClosesOrder(r, "FAILED") ELSE UNCHANGED <<doc, order>>
      PROVE  RunStep(r)
  <2>1. Fails(r)
    BY <1>1, <1>5, FailIsSound
  <2>2. RunsMoney(r)
    <3>1. trans[r].id = IdOf(trans[r])
      BY <1>1, IsReady DEF Ready, NeedsTrans, IdOf
    <3>2. QED
      BY <1>1, <1>5, <2>1, <3>1, CancelReleases DEF RunsMoney
  <2>3. RunsDoc(r) /\ RunsOrder(r)
    <3>1. CASE UNCHANGED <<doc, order>>
      BY <3>1 DEF RunsDoc, RunsOrder, Names
    <3>2. CASE ClosesOrder(r, "FAILED")
      <4> DEFINE failed == [order[r] EXCEPT !.status = "FAILED"]
      <4>1. failed \in Orders /\ failed.status = "FAILED" /\ failed.tran = order[r].tran
        BY <1>2, WithStatus DEF OrderStatus
      <4>2. order'[r] = failed /\ doc' \in {doc, failed}
        BY <3>2 DEF ClosesOrder, PayInv, Typed
      <4> HIDE DEF failed
      <4>3. QED
        BY <1>1, <1>2, <2>1, <4>1, <4>2 DEF RunsDoc, RunsOrder, Names, TranOf
    <3>3. QED
      BY <1>5, <3>1, <3>2
  <2>4. QED
    BY <1>1, <1>3, <2>2, <2>3 DEF RunStep
<1>6. QED
  BY <1>4, <1>5 DEF FailUnpaid

\* Every step of a request that goes on.
LEMMA ExecuteRuns ==
  ASSUME PayInv, NEW r \in Requests, Execute(r)
  PROVE  RunStep(r)
BY FindOrderRuns, FindTransactionRuns, IdleRuns, InitOrderRuns, ProcessingOrderRuns,
   SuccessOrderRuns, CancelOrderRuns, CancelInitialRuns, InitPaymentRuns, ConfirmTransRuns,
   CallProviderRuns, CashInRuns, FailUnpaidRuns, VerifyOtpRuns
   DEF Execute

-----------------------------------------------------------------------------
(* What a compensation may do.                                             *)

UndoDoc(r) ==
  doc' # doc =>
    /\ doc' \in Orders /\ doc'.tran = TranOf(order[r])
    /\ doc'.status \in {"VERIFYING", "FAILED"} \/ (doc'.status = "CANCEL" /\ Cur(r).comp = "CancelOpen")

UndoOrder(r) == TranOf(order'[r]) = TranOf(order[r])

UndoTrans(r) == IdOf(trans'[r]) \in {NIL, IdOf(trans[r])}

UndoMoney(r) ==
  \A t \in Requests :
    /\ Charged(t)' => Charged(t)
    /\ state'[t] = "RELEASED" /\ state[t] # "RELEASED" => t = IdOf(trans[r])

UndoStep(r) ==
  /\ phase[r] = "abort" /\ pc[r] > 0
  /\ UndoDoc(r) /\ UndoOrder(r) /\ UndoTrans(r) /\ UndoMoney(r) /\ flag' = flag

\* The order part of a compensation.
LEMMA MoveUndoes ==
  ASSUME PayInv, NEW r \in Requests,
         NEW status \in {"FAILED", "CANCEL", "VERIFYING"}, NEW skip,
         CompensationMoves(r, status, skip), status = "CANCEL" => Cur(r).comp = "CancelOpen"
  PROVE  UndoDoc(r) /\ UndoOrder(r)
<1>1. CASE UNCHANGED <<doc, order>>
  BY <1>1 DEF UndoDoc, UndoOrder
<1>2. CASE order[r] # NIL /\ ClosesOrder(r, status)
  <2> DEFINE closed == [order[r] EXCEPT !.status = status]
  <2>1. order[r] \in Orders
    BY <1>2 DEF PayInv, Typed
  <2>2. closed \in Orders /\ closed.status = status /\ closed.tran = order[r].tran
    <3>1. status \in OrderStatus
      BY DEF OrderStatus
    <3>2. QED
      BY <2>1, <3>1, WithStatus, Zenon
  <2>3. order'[r] = closed /\ doc' \in {doc, closed}
    BY <1>2 DEF ClosesOrder, PayInv, Typed
  <2> HIDE DEF closed
  <2>4. QED
    BY <2>1, <2>2, <2>3, NilAssumption DEF UndoDoc, UndoOrder, TranOf
<1>3. QED
  BY <1>1, <1>2 DEF CompensationMoves, CompensationWrites

\* The transaction part.
LEMMA CancelUndoes ==
  ASSUME PayInv, NEW r \in Requests, trans[r] \in Transactions, CancelTransaction(r)
  PROVE  UndoTrans(r) /\ UndoMoney(r)
<1>1. PICK outcome \in {"ok", "err", "lost"} :
        /\ CancelEnds(trans[r].id, outcome)
        /\ trans' = [trans EXCEPT ![r] = IF outcome = "ok" THEN [@ EXCEPT !.status = "FAILED"]
                                         ELSE NIL]
  BY DEF CancelTransaction
<1>2. trans[r].id = IdOf(trans[r])
  BY NilAssumption DEF IdOf
<1>3. UndoMoney(r)
  BY <1>1, <1>2, CancelReleases DEF UndoMoney
<1>4. trans'[r] \in {NIL, [trans[r] EXCEPT !.status = "FAILED"]}
  BY <1>1 DEF PayInv, Typed
<1>5. [trans[r] EXCEPT !.status = "FAILED"].id = trans[r].id
  BY DEF Transactions
<1>6. UndoTrans(r)
  BY <1>2, <1>4, <1>5 DEF UndoTrans, IdOf
<1>7. QED
  BY <1>3, <1>6

\* Marking the transaction pending leaves it on hold.
LEMMA MarkUndoes ==
  ASSUME PayInv, NEW r \in Requests, trans[r] \in Transactions, MarkPending(r)
  PROVE  UndoTrans(r) /\ (trans'[r] = NIL \/ trans'[r].status = "PENDING")
<1>1. CASE trans' = trans /\ trans[r].status = "PENDING"
  BY <1>1 DEF UndoTrans
<1>2. CASE \E outcome \in RepairOutcomes :
             trans' = [trans EXCEPT ![r] = IF outcome = "ok" THEN [@ EXCEPT !.status = "PENDING"]
                                           ELSE NIL]
  <2>1. trans'[r] \in {NIL, [trans[r] EXCEPT !.status = "PENDING"]}
    BY <1>2 DEF PayInv, Typed
  <2>2. [trans[r] EXCEPT !.status = "PENDING"].id = trans[r].id
        /\ [trans[r] EXCEPT !.status = "PENDING"].status = "PENDING"
    BY DEF Transactions
  <2>3. trans[r].id = IdOf(trans[r])
    BY NilAssumption DEF IdOf
  <2>4. QED
    BY <2>1, <2>2, <2>3 DEF UndoTrans, IdOf
<1>3. QED
  BY <1>1, <1>2 DEF MarkPending

\* A compensation that makes no call to the transaction service.
LEMMA MoneyUndone ==
  ASSUME NEW r \in Requests, UNCHANGED state
  PROVE  UndoMoney(r)
BY DEF UndoMoney, Charged

\* The ways of RollbackIsSound.
LEMMA RollbackUndoes ==
  ASSUME PayInv, NEW r \in Requests, phase[r] = "abort", pc[r] > 0, UNCHANGED flag,
         \/ TransIsNil(r)
         \/ ParkPending(r)
         \/ trans[r] \in Transactions /\ CancelTransaction(r) /\ FailAlways(r)
         \/ Compensated(r) /\ UNCHANGED <<trans, service, doc, order>>
         \/ VerifyIfNot(r) /\ UNCHANGED <<trans, service>>
  PROVE  UndoStep(r)
<1>1. CASE UNCHANGED <<trans, service, doc, order>>
  BY <1>1, MoneyUndone DEF UndoStep, UndoDoc, UndoOrder, UndoTrans, service
<1>2. CASE ParkPending(r)
  <2>1. trans[r] \in Transactions
    BY <1>2 DEF ParkPending, PayInv, Typed
  <2>2. QED
    BY <1>2, <2>1, MoveUndoes, MarkUndoes, MoneyUndone DEF UndoStep, ParkPending, VerifyIfNot
<1>3. CASE trans[r] \in Transactions /\ CancelTransaction(r) /\ FailAlways(r)
  BY <1>3, MoveUndoes, CancelUndoes DEF UndoStep, FailAlways
<1>4. CASE VerifyIfNot(r) /\ UNCHANGED <<trans, service>>
  BY <1>4, MoveUndoes, MoneyUndone DEF UndoStep, UndoTrans, VerifyIfNot, service
<1>5. QED
  BY <1>1, <1>2, <1>3, <1>4 DEF TransIsNil

\* Every compensation.
LEMMA CompensateUndoes ==
  ASSUME PayInv, NEW r \in Requests, Compensate(r)
  PROVE  UndoStep(r)
<1>1. trans[r] # NIL => trans[r] \in Transactions
  BY DEF PayInv, Typed
<1>2. CASE CompensateNone(r)
  <2>1. phase[r] = "abort" /\ pc[r] > 0
    BY <1>2, InRollback DEF CompensateNone
  <2>2. QED
    BY <1>2, <2>1, RollbackUndoes DEF CompensateNone, copies
<1>3. CASE CompensateOrder(r)
  <2>1. phase[r] = "abort" /\ pc[r] > 0
    BY <1>3, InRollback DEF CompensateOrder
  <2>2. UndoDoc(r) /\ UndoOrder(r)
    BY <1>3, MoveUndoes DEF CompensateOrder, AtComp, FailIfOpen, CancelIfOpen, FailAlways,
       VerifyIfNot
  <2>3. QED
    BY <1>3, <2>1, <2>2, MoneyUndone DEF CompensateOrder, UndoStep, UndoTrans, service
<1>4. CASE CompensateVoucher(r)
  <2>1. phase[r] = "abort" /\ pc[r] > 0
    BY <1>4, InRollback DEF CompensateVoucher
  <2>2. UndoDoc(r) /\ UndoOrder(r)
    <3>1. CASE UNCHANGED <<doc, order>>
      BY <3>1 DEF UndoDoc, UndoOrder
    <3>2. CASE FailIfOpen(r)
      BY <3>2, MoveUndoes DEF FailIfOpen
    <3>3. QED
      BY <1>4, <3>1, <3>2 DEF CompensateVoucher
  <2>3. QED
    BY <1>4, <2>1, <2>2, MoneyUndone DEF CompensateVoucher, UndoStep, UndoTrans, service
<1>5. CASE CancelPayment(r)
  <2>1. phase[r] = "abort" /\ pc[r] > 0
    BY <1>5, InRollback DEF CancelPayment
  <2>2. UndoDoc(r) /\ UndoOrder(r)
    BY <1>5, MoveUndoes DEF CancelPayment, FailIfOpen
  <2>3. UndoTrans(r) /\ UndoMoney(r)
    BY <1>1, <1>5, CancelUndoes, MoneyUndone DEF CancelPayment, UndoTrans, service
  <2>4. QED
    BY <1>5, <2>1, <2>2, <2>3 DEF CancelPayment, UndoStep
<1>6. CASE UndoProvider(r)
  <2>1. phase[r] = "abort" /\ pc[r] > 0
    BY <1>6, InRollback DEF UndoProvider
  <2>2. QED
    BY <1>1, <1>6, <2>1, RollbackUndoes DEF UndoProvider
<1>7. CASE UndoOtp(r)
  <2>1. /\ phase[r] = "abort" /\ pc[r] > 0
        /\ Cur(r).comp = "UndoOtp" \/ Cur(r).comp = "UndoTokenOtp"
    BY <1>7, InRollback DEF UndoOtp, AtUndoOtp
  <2>2. AtUndoOtp(r) /\ flag[r] = "failed" => trans[r] \in Transactions
    BY <1>1, <2>1, UndoIsReady DEF AtUndoOtp, AtComp
  <2>3. QED
    BY <1>7, <2>1, <2>2, RollbackUndoes DEF UndoOtp
<1>8. CASE Park(r)
  <2>1. phase[r] = "abort" /\ pc[r] > 0
    BY <1>8, InRollback DEF Park
  <2>2. QED
    BY <1>8, <2>1, RollbackUndoes DEF Park
<1>9. QED
  BY <1>2, <1>3, <1>4, <1>5, <1>6, <1>7, <1>8 DEF Compensate

-----------------------------------------------------------------------------
(* A rollback of the settlement parks the order or panics.                 *)

\* What is left after the first compensation: the order parked, and no
\* transaction that the ones before it could cancel.
FinalRest(r) ==
  \/ pc[r] = failedAt[r] /\ (order[r] = NIL \/ trans[r] = NIL)
  \/ /\ pc[r] < failedAt[r] /\ order[r] # NIL /\ order[r].status = "VERIFYING" /\ trans[r] = NIL
     /\ Steps(r)[failedAt[r]].comp # "Park"

ParksFinal == \A r \in Requests : FailedFinally(r) => FinalRest(r)

\* The facts about the step at pc, and the one that failed.
LEMMA RollbackFacts ==
  ASSUME PayInv, NEW r \in Requests, phase[r] = "abort", pc[r] > 0
  PROVE  /\ pc[r] \in 1 .. Len(Steps(r)) /\ failedAt[r] \in 1 .. Len(Steps(r))
         /\ pc[r] <= failedAt[r] /\ DOMAIN Steps(r) = 1 .. Len(Steps(r))
         /\ \A k \in 1 .. Len(Steps(r)) :
              /\ RollbackStep(flow[r], Steps(r), k) /\ OwnStep(flow[r], Steps(r), k)
              /\ RepairStep(flow[r], Steps(r), k)
<1>1. flow \in Flows /\ pc[r] \in Nat /\ failedAt[r] \in Nat /\ pc[r] <= failedAt[r]
      /\ failedAt[r] <= Len(Steps(r)) /\ failedAt[r] >= 1
  BY DEF PayInv, Typed, Control
<1>2. SoundFlow(flow[r], Steps(r))
  BY <1>1, StepsSound
<1>3. QED
  BY <1>1, <1>2 DEF SoundFlow

\* Rewinding, or giving up, with everything else as it was.
Passes(r) ==
  UNCHANGED <<doc, order, trans, state>> /\ (Compensated(r) \/ Panics(r))

Parks(r) ==
  /\ UNCHANGED <<trans, state>> /\ Compensated(r)
  /\ doc' # doc => doc'.status = "VERIFYING"
  /\ order'[r] # NIL /\ order'[r].status = "VERIFYING"

\* A compensation that verifies the order.
LEMMA VerifyParks ==
  ASSUME PayInv, NEW r \in Requests, VerifyIfNot(r), UNCHANGED <<trans, state>>
  PROVE  /\ order[r] = NIL => Passes(r) /\ Panics(r)
         /\ order[r] # NIL /\ order[r].status = "VERIFYING" => Passes(r)
         /\ order[r] # NIL => Parks(r)
<1>1. CASE order[r] = NIL
  BY <1>1 DEF VerifyIfNot, CompensationMoves, Passes
<1>2. CASE order[r] # NIL /\ order[r].status = "VERIFYING"
  BY <1>2 DEF VerifyIfNot, CompensationMoves, Passes, Parks
<1>3. CASE order[r] # NIL /\ order[r].status # "VERIFYING"
  <2> DEFINE closed == [order[r] EXCEPT !.status = "VERIFYING"]
  <2>1. order[r] \in Orders
    BY <1>3 DEF PayInv, Typed
  <2>2. closed \in Orders /\ closed.status = "VERIFYING"
    BY <2>1, WithStatus DEF OrderStatus
  <2>3. order'[r] = closed /\ doc' \in {doc, closed} /\ Compensated(r)
    BY <1>3 DEF VerifyIfNot, CompensationMoves, CompensationWrites, ClosesOrder, PayInv, Typed
  <2> HIDE DEF closed
  <2>4. QED
    BY <1>3, <2>2, <2>3, NilAssumption DEF Parks
<1>4. QED
  BY <1>1, <1>2, <1>3

\* A compensation that skips an order that is being verified.
LEMMA MovePasses ==
  ASSUME NEW r \in Requests, NEW status, NEW skip, CompensationMoves(r, status, skip),
         order[r] # NIL, order[r].status \in skip
  PROVE  UNCHANGED <<doc, order>> /\ Compensated(r)
BY DEF CompensationMoves

\* The compensation of the step that failed.
LEMMA FirstParks ==
  ASSUME PayInv, NEW r \in Requests, Compensate(r), FailedFinally(r), pc[r] > 0,
         pc[r] = failedAt[r], order[r] = NIL \/ trans[r] = NIL
  PROVE  /\ state' = state /\ (doc' # doc => doc'.status = "VERIFYING")
         /\ Panics(r) \/ (Parks(r) /\ trans[r] = NIL /\ Cur(r).comp # "Park")
<1>1. phase[r] = "abort" /\ FailedStep(r) = Cur(r).op /\ FailedStep(r) \in FinalOps
  BY DEF FailedFinally, FailedStep, Cur
<1>2. Cur(r).comp \in {"Park", "ParkGuarded", "ParkOrder"}
  BY <1>1, RollbackFacts DEF RollbackStep, Cur
<1>3. (CompensateOrder(r) /\ VerifyIfNot(r)) \/ Park(r)
  BY <1>2 DEF Compensate, CompensateNone, CompensateOrder, CompensateVoucher, CancelPayment,
     UndoProvider, UndoOtp, AtUndoOtp, AtComp
<1>4. CASE CompensateOrder(r) /\ VerifyIfNot(r)
  <2>1. UNCHANGED <<trans, state>>
    BY <1>4 DEF CompensateOrder, service
  <2>2. Cur(r).comp # "Park"
    BY <1>4 DEF CompensateOrder, AtComp
  <2>3. QED
    BY <1>4, <2>1, <2>2, VerifyParks DEF Passes, Parks
<1>5. CASE Park(r)
  <2>1. CASE TransIsNil(r)
    BY <2>1 DEF TransIsNil, service
  <2>2. CASE ParkPending(r)
    BY <2>2 DEF ParkPending, VerifyIfNot, CompensationMoves
  <2>3. CASE AtComp(r, "ParkGuarded") /\ trans[r] = NIL /\ VerifyIfNot(r) /\ UNCHANGED <<trans, service>>
    BY <2>3, VerifyParks DEF AtComp, service, Passes, Parks
  <2>4. QED
    BY <1>5, <2>1, <2>2, <2>3 DEF Park
<1>6. QED
  BY <1>3, <1>4, <1>5

\* The compensations before it find nothing to do, or panic.
LEMMA LaterPasses ==
  ASSUME PayInv, NEW r \in Requests, Compensate(r), FailedFinally(r), pc[r] > 0, pc[r] < failedAt[r],
         order[r] # NIL, order[r].status = "VERIFYING", trans[r] = NIL,
         Steps(r)[failedAt[r]].comp # "Park"
  PROVE  Passes(r)
<1>1. phase[r] = "abort" /\ FailedStep(r) \in FinalOps
  BY DEF FailedFinally
<1>2. Cur(r).comp # "UndoCashIn"
  BY <1>1, RollbackFacts DEF RollbackStep, Cur, FailedStep
<1>3. flag[r] # "failed"
  BY <1>1 DEF PayInv, FailedOtp, FailedStep, FinalOps, ConfirmOps
<1>4. CASE CompensateNone(r)
  BY <1>4 DEF CompensateNone, Passes, copies, service
<1>5. CASE CompensateOrder(r)
  <2>1. UNCHANGED <<trans, state>>
    BY <1>5 DEF CompensateOrder, service
  <2>2. FailIfOpen(r) \/ CancelIfOpen(r) \/ VerifyIfNot(r)
    BY <1>2, <1>5 DEF CompensateOrder, AtComp
  <2>3. QED
    BY <2>1, <2>2, MovePasses DEF FailIfOpen, CancelIfOpen, VerifyIfNot, Passes
<1>6. CASE CompensateVoucher(r)
  <2>1. UNCHANGED <<trans, state>>
    BY <1>6 DEF CompensateVoucher, service
  <2>2. UNCHANGED <<doc, order>> /\ Compensated(r)
    BY <1>6, MovePasses DEF CompensateVoucher, FailIfOpen
  <2>3. QED
    BY <2>1, <2>2 DEF Passes
<1>7. CASE CancelPayment(r)
  BY <1>7, MovePasses DEF CancelPayment, FailIfOpen, Passes, service
<1>8. CASE UndoProvider(r)
  BY <1>8 DEF UndoProvider, ParkPending, TransIsNil, Passes, service
<1>9. CASE UndoOtp(r)
  BY <1>3, <1>9 DEF UndoOtp, ParkPending, TransIsNil, Passes, service
<1>10. CASE Park(r)
  <2>1. CASE TransIsNil(r)
    BY <2>1 DEF TransIsNil, Passes, service
  <2>2. CASE VerifyIfNot(r) /\ UNCHANGED <<trans, service>>
    BY <2>2, VerifyParks DEF service
  <2>3. QED
    BY <1>10, <2>1, <2>2 DEF Park, ParkPending
<1>11. QED
  BY <1>4, <1>5, <1>6, <1>7, <1>8, <1>9, <1>10 DEF Compensate

\* So the rollback of the settlement takes nothing back.
LEMMA FinalUndoes ==
  ASSUME PayInv, NEW r \in Requests, Compensate(r), FailedFinally(r), pc[r] > 0, FinalRest(r)
  PROVE  /\ state' = state /\ (doc' # doc => doc'.status = "VERIFYING")
         /\ FailedFinally(r)' => FinalRest(r)'
<1>1. /\ pc[r] \in Nat /\ failedAt[r] \in Nat /\ pc \in [Requests -> Nat] /\ phase \in [Requests -> Phases]
      /\ flow' = flow
  BY WorkIsSound DEF PayInv, Typed, Sound, SoundRest
<1>2. Panics(r) => ~ FailedFinally(r)'
  BY <1>1 DEF Panics, FailedFinally
<1>3. Compensated(r) => pc'[r] = pc[r] - 1 /\ failedAt'[r] = failedAt[r]
  BY <1>1 DEF Compensated
<1>4. Steps(r)' = Steps(r)
  BY <1>1 DEF Steps
<1>5. CASE pc[r] = failedAt[r] /\ (order[r] = NIL \/ trans[r] = NIL)
  <2>1. /\ state' = state /\ (doc' # doc => doc'.status = "VERIFYING")
        /\ Panics(r) \/ (Parks(r) /\ trans[r] = NIL /\ Cur(r).comp # "Park")
    BY <1>5, FirstParks
  <2>2. CASE Parks(r) /\ trans[r] = NIL /\ Cur(r).comp # "Park"
    BY <1>1, <1>3, <1>4, <1>5, <2>1, <2>2 DEF Parks, FinalRest, Cur
  <2>3. QED
    BY <1>2, <2>1, <2>2
<1>6. CASE /\ pc[r] < failedAt[r] /\ order[r] # NIL /\ order[r].status = "VERIFYING" /\ trans[r] = NIL
           /\ Steps(r)[failedAt[r]].comp # "Park"
  <2>1. Passes(r)
    BY <1>6, LaterPasses
  <2>2. Compensated(r) => FinalRest(r)'
    BY <1>1, <1>3, <1>4, <1>6, <2>1 DEF Passes, FinalRest
  <2>3. QED
    BY <1>2, <2>1, <2>2 DEF Passes
<1>7. QED
  BY <1>5, <1>6 DEF FinalRest

-----------------------------------------------------------------------------
(* A rollback after an unknown answer keeps the amount on hold.            *)

Calm(r) == trans[r] = NIL \/ trans[r].status = "PENDING"

Rests(r) ==
  /\ phase[r] \in {"abort", "failed", "panic", "crashed"}
  /\ flow[r] \notin TokenInit \cup {"OrderCancel"}
  /\ phase[r] = "abort" =>
       /\ FailedStep(r) = IF flag[r] = "pending" THEN "CallProvider" ELSE "VerifyOtp"
       /\ pc[r] = failedAt[r] \/ Calm(r)

UnknownRests == \A r \in Requests : Unknown(r) => Rests(r)

\* So no compensation of such a rollback gives anything back.
LEMMA UnknownUndoes ==
  ASSUME PayInv, NEW r \in Requests, Compensate(r), phase[r] = "abort", pc[r] > 0, Unknown(r), Rests(r)
  PROVE  state' = state /\ (Panics(r) \/ (trans'[r] = NIL \/ trans'[r].status = "PENDING"))
<1>1. trans[r] # NIL => trans[r] \in Transactions
  BY DEF PayInv, Typed
<1>2. flag[r] # "failed" /\ flag[r] \in {"pending", "verifying"}
  BY DEF Unknown
<1>3. flag[r] = "verifying" => Cur(r).comp # "UndoProvider"
  BY RollbackFacts DEF Rests, FailedStep, RollbackStep, Cur
<1>4. pc[r] = failedAt[r] =>
        /\ flag[r] = "pending" => Cur(r).comp = "UndoProvider"
        /\ flag[r] = "verifying" => Cur(r).comp \in {"UndoOtp", "UndoTokenOtp"}
  BY RollbackFacts DEF Rests, FailedStep, RollbackStep, Cur
<1>5. CASE Calm(r) /\ UNCHANGED <<trans, state>>
  BY <1>5 DEF Calm
<1>6. CASE ParkPending(r)
  BY <1>1, <1>6, MarkUndoes DEF ParkPending
<1>7. CASE TransIsNil(r)
  BY <1>7 DEF TransIsNil, service
<1>8. Cur(r).comp \notin {"UndoProvider", "UndoOtp", "UndoTokenOtp"} => Calm(r)
  BY <1>2, <1>4 DEF Rests
<1>9. CASE CompensateNone(r) \/ CompensateOrder(r) \/ CompensateVoucher(r)
  <2>1. UNCHANGED <<trans, state>> /\ Cur(r).comp \notin {"UndoProvider", "UndoOtp", "UndoTokenOtp"}
    BY <1>9 DEF CompensateNone, CompensateOrder, CompensateVoucher, AtComp, copies, service
  <2>2. QED
    BY <1>5, <1>8, <2>1
<1>10. CASE CancelPayment(r)
  <2>1. Calm(r)
    BY <1>8, <1>10 DEF CancelPayment, AtComp
  <2>2. UNCHANGED <<trans, state>>
    BY <1>10, <2>1 DEF CancelPayment, Calm, service
  <2>3. QED
    BY <1>5, <2>1, <2>2
<1>11. CASE UndoProvider(r)
  BY <1>2, <1>3, <1>6, <1>7, <1>11 DEF UndoProvider, AtComp
<1>12. CASE UndoOtp(r)
  <2>1. CASE UNCHANGED <<trans, service>> /\ flag[r] # "verifying"
    BY <1>2, <1>4, <1>5, <1>12, <2>1 DEF UndoOtp, AtUndoOtp, AtComp, Rests, service
  <2>2. QED
    BY <1>2, <1>6, <1>7, <1>12, <2>1 DEF UndoOtp
<1>13. CASE Park(r)
  <2>1. CASE trans[r] = NIL /\ UNCHANGED <<trans, service>>
    BY <1>5, <2>1 DEF Calm, service
  <2>2. QED
    BY <1>6, <1>7, <1>13, <2>1 DEF Park
<1>14. QED
  BY <1>9, <1>10, <1>11, <1>12, <1>13 DEF Compensate

-----------------------------------------------------------------------------
(* What every step leaves alone, and what it may change.                   *)

\* A step of request r is no step of any other.
Others(r) ==
  /\ flow' = flow
  /\ \A q \in Requests \ {r} :
       /\ phase'[q] = phase[q] /\ pc'[q] = pc[q] /\ failedAt'[q] = failedAt[q]
       /\ order'[q] = order[q] /\ trans'[q] = trans[q] /\ flag'[q] = flag[q]

\* The copies a request begins with: the stored order, or those of the
\* InitPayByToken it goes on from.
EnterCopies(r) ==
  /\ \/ order'[r] \in {order[r], NIL}
     \/ GetValidOrder(doc) /\ order'[r] = doc
     \/ /\ flow[r] \in TokenByPass
        /\ \E q \in Requests : flow[q] \in TokenInit /\ phase[q] = "done" /\ order'[r] = order[q]
  /\ \/ trans'[r] = trans[r]
     \/ flow[r] \in TokenByPass /\ \E q \in Requests : flow[q] \in TokenInit /\ trans'[r] = trans[q]
  /\ flag'[r] = flag[r] \/ \E q \in Requests : phase[q] = "done" /\ flag'[r] = flag[q]

EnterStep(r) ==
  /\ Others(r) /\ EnterCopies(r) /\ UNCHANGED <<pc, failedAt, doc, state, timeUp, job>>
  /\ phase[r] = "idle" /\ phase'[r] \in {"run", "refused"} /\ flow[r] # "NoRequest"
  /\ phase'[r] = "run" /\ flow[r] \in TokenOtp \cup TokenByPass =>
       \E q \in Requests : flow[q] \in TokenInit /\ phase[q] = "done"

EndStep(r) ==
  /\ Others(r) /\ UNCHANGED <<pc, failedAt, order, trans, flag, doc, state, timeUp, job>>
  /\ \/ phase[r] = "run" /\ phase'[r] = "done" /\ pc[r] = Len(Steps(r)) + 1
     \/ phase[r] = "abort" /\ phase'[r] = "failed" /\ pc[r] = 0

\* The job closes the order it read once it has expired, and gives back what
\* that order names; a crash takes down what is under way.
AroundStep ==
  /\ UNCHANGED <<flow, pc, failedAt, order, trans, flag>>
  /\ \A r \in Requests :
       phase'[r] # phase[r] => phase[r] \in {"run", "abort"} /\ phase'[r] = "crashed"
  /\ doc' # doc => job.at # "idle" /\ doc' \in Orders /\ doc'.status = "FAILED" /\ doc'.tran = TranOf(job.read)
  /\ \A t \in Requests : state'[t] # state[t] =>
       job.at # "idle" /\ t = TranOf(job.read) /\ state[t] = "INITIAL" /\ state'[t] = "RELEASED"
  /\ timeUp => timeUp'
  /\ job'.at # "idle" => job.at # "idle" \/ timeUp
  /\ job'.read \in {NIL, job.read} \/ (job'.read = doc /\ doc.status \in {"PENDING", "PROCESSING"})

\* A request that is let in, or refused, takes copies and does nothing else.
LEMMA BeginIsEnter ==
  ASSUME PayInv, NEW r \in Requests, Begin(r) \/ BeginByPass(r)
  PROVE  EnterStep(r)
<1>1. /\ phase \in [Requests -> Phases] /\ order \in [Requests -> Orders \cup {NIL}]
      /\ trans \in [Requests -> Transactions \cup {NIL}] /\ flag \in [Requests -> Flags]
      /\ doc = NIL => order[r] = NIL
  BY DEF PayInv, Typed, Creation
<1>2. /\ flow' = flow /\ UNCHANGED <<pc, failedAt, doc, state, timeUp, job>>
      /\ phase[r] = "idle" /\ \E p \in {"run", "refused"} : phase' = [phase EXCEPT ![r] = p]
  BY DEF Begin, BeginByPass, service, around
<1>3. CASE Begin(r)
  <2>1. flow[r] # "NoRequest" /\ flow[r] \notin TokenByPass
    BY <1>3 DEF Begin
  <2>2. flow[r] \in TokenOtp => \E q \in Requests : flow[q] \in TokenInit /\ phase[q] = "done"
    BY <1>3 DEF Begin
  <2>3. \/ UNCHANGED order
        \/ order' = [order EXCEPT ![r] = NIL]
        \/ GetValidOrder(doc) /\ order' = [order EXCEPT ![r] = doc]
    BY <1>3 DEF Begin
  <2>4. UNCHANGED <<trans, flag>>
    BY <1>3 DEF Begin
  <2>5. EnterCopies(r)
    BY <1>1, <2>3, <2>4 DEF EnterCopies
  <2>6. Others(r)
    BY <1>1, <1>2, <2>3, <2>4 DEF Others
  <2>7. QED
    BY <1>1, <1>2, <2>1, <2>2, <2>5, <2>6 DEF EnterStep
<1>4. CASE BeginByPass(r)
  <2>1. flow[r] \in TokenByPass /\ flow[r] # "NoRequest"
    BY <1>4 DEF BeginByPass, TokenByPass
  <2>2. PICK q \in Requests :
          /\ flow[q] \in TokenInit
          /\ \/ /\ phase[q] = "done"
                /\ order' = [order EXCEPT ![r] = order[q]]
                /\ trans' = [trans EXCEPT ![r] = trans[q]]
                /\ flag' = [flag EXCEPT ![r] = flag[q]]
             \/ phase' = [phase EXCEPT ![r] = "refused"] /\ UNCHANGED copies
    BY <1>4 DEF BeginByPass
  <2>3. EnterCopies(r) /\ Others(r)
    BY <1>1, <1>2, <2>1, <2>2 DEF EnterCopies, Others, copies
  <2>4. phase'[r] = "run" => phase[q] = "done"
    BY <1>1, <2>2
  <2>5. QED
    BY <1>1, <1>2, <2>1, <2>2, <2>3, <2>4 DEF EnterStep
<1>5. QED
  BY <1>3, <1>4

\* A Play that returns changes nothing but where the request is.
LEMMA ReturnIsEnd ==
  ASSUME PayInv, NEW r \in Requests, Return(r)
  PROVE  EndStep(r)
<1>1. /\ phase \in [Requests -> Phases] /\ pc[r] \in Nat /\ Len(Steps(r)) \in Nat
      /\ pc[r] <= Len(Steps(r)) + 1
  BY StepsSound DEF PayInv, Typed, SoundFlow
<1>2. flow' = flow /\ UNCHANGED <<pc, failedAt, order, trans, flag, doc, state, timeUp, job>>
  BY DEF Return, copies, service, around
<1>3. \/ phase[r] = "run" /\ pc[r] > Len(Steps(r)) /\ phase' = [phase EXCEPT ![r] = "done"]
      \/ phase[r] = "abort" /\ pc[r] = 0 /\ phase' = [phase EXCEPT ![r] = "failed"]
  BY DEF Return
<1>4. QED
  BY <1>1, <1>2, <1>3 DEF EndStep, Others

\* Time, the job, a crash and a stutter.
LEMMA AroundIsAround ==
  ASSUME PayInv,
         \/ Tick \/ JobRead \/ (\E outcome \in RepairOutcomes : JobFail(outcome))
         \/ JobCancel \/ Crash \/ UNCHANGED vars
  PROVE  AroundStep
<1> USE NilAssumption
<1>1. /\ phase \in [Requests -> Phases] /\ doc \in Orders \cup {NIL}
      /\ job \in [at : JobAts, read : Orders \cup {NIL}]
      /\ job.at # "idle" => job.read # NIL
      /\ state \in [Requests -> TransactionState]
  BY DEF PayInv, Typed, Creation
<1>2. CASE Tick \/ UNCHANGED vars
  BY <1>2 DEF Tick, AroundStep, vars, control, copies, service, around
<1>3. CASE JobRead
  BY <1>3 DEF JobRead, AroundStep, control, copies, service
<1>4. ASSUME NEW outcome \in RepairOutcomes, JobFail(outcome)
      PROVE  AroundStep
  <2> DEFINE failed == [job.read EXCEPT !.status = "FAILED", !.expired = TRUE]
  <2>1. job.read \in Orders /\ job.at = "fail"
    BY <1>1, <1>4 DEF JobFail
  <2>2. failed \in Orders /\ failed.status = "FAILED" /\ failed.tran = job.read.tran
    BY <2>1 DEF Orders, OrderStatus
  <2>3. TranOf(job.read) = job.read.tran
    BY <2>1 DEF TranOf
  <2>4. doc' \in {doc, failed}
    BY <1>4 DEF JobFail
  <2>5. job'.read \in {NIL, job.read}
    BY <1>1, <1>4 DEF JobFail
  <2>6. UNCHANGED <<flow, pc, failedAt, order, trans, flag, phase, state, timeUp>>
    BY <1>4 DEF JobFail, control, copies, service
  <2> HIDE DEF failed
  <2>7. QED
    BY <2>1, <2>2, <2>3, <2>4, <2>5, <2>6 DEF AroundStep
<1>5. CASE JobCancel
  <2>1. job.at = "cancel" /\ job.read # NIL /\ TranOf(job.read) = job.read.tran
    BY <1>1, <1>5 DEF JobCancel, TranOf
  <2>2. \A t \in Requests :
          state'[t] # state[t] => t = job.read.tran /\ state[t] = "INITIAL" /\ state'[t] = "RELEASED"
    <3>1. CASE UNCHANGED service
      BY <3>1 DEF service
    <3>2. ASSUME job.read.tran # NIL /\ state[job.read.tran] = "INITIAL",
                 NEW outcome \in RepairOutcomes, CancelEnds(job.read.tran, outcome)
          PROVE  <2>2
      BY <3>2, CancelReleases
    <3>3. QED
      BY <1>5, <3>1, <3>2 DEF JobCancel, CancelIfInitial
  <2>3. UNCHANGED <<flow, pc, failedAt, order, trans, flag, phase, doc, timeUp>> /\ job'.read = NIL
    BY <1>5 DEF JobCancel, control, copies
  <2>4. QED
    BY <2>1, <2>2, <2>3 DEF AroundStep
<1>6. CASE Crash
  <2>1. \A r \in Requests :
          phase'[r] # phase[r] => phase[r] \in {"run", "abort"} /\ phase'[r] = "crashed"
    BY <1>6 DEF Crash, Active
  <2>2. UNCHANGED <<flow, pc, failedAt, order, trans, flag, doc, state, timeUp>>
        /\ job' = [at |-> "idle", read |-> NIL]
    BY <1>6 DEF Crash, copies, service
  <2>3. QED
    BY <2>1, <2>2 DEF AroundStep
<1>7. QED
  BY <1>2, <1>3, <1>4, <1>5, <1>6

\* The facts about a step that a request executes, and about the step it is.
ExecuteStep(r) ==
  /\ Others(r) /\ RunStep(r) /\ SoundService(r) /\ UNCHANGED <<timeUp, job>>
  /\ Advances(r) \/ Fails(r)

UndoesStep(r) ==
  /\ Others(r) /\ UndoStep(r) /\ SoundService(r) /\ UNCHANGED <<timeUp, job>>
  /\ Undoes(r)

\* Every step of a request that goes on.
LEMMA ExecuteIs ==
  ASSUME PayInv, NEW r \in Requests, Execute(r)
  PROVE  ExecuteStep(r)
<1>1. Sound(r) /\ RunStep(r)
  BY WorkIsSound, ExecuteRuns
<1>2. ~ Undoes(r)
  BY <1>1 DEF RunStep, Runs, Undoes
<1>3. QED
  BY <1>1, <1>2 DEF ExecuteStep, Others, Sound, SoundControl, SoundOrder, SoundTrans, SoundOutside,
     SoundRest, around

\* Every compensation.
LEMMA CompensateIs ==
  ASSUME PayInv, NEW r \in Requests, Compensate(r)
  PROVE  UndoesStep(r)
<1>1. Sound(r) /\ UndoStep(r)
  BY WorkIsSound, CompensateUndoes
<1>2. Undoes(r)
  BY <1>1 DEF UndoStep, Sound, SoundControl, Advances, Fails, Runs
<1>3. QED
  BY <1>1, <1>2 DEF UndoesStep, Others, Sound, SoundControl, SoundOrder, SoundTrans, SoundOutside,
     SoundRest, around

\* The step at pc is sound.
LEMMA RunFacts ==
  ASSUME PayInv, NEW r \in Requests, Runs(r)
  PROVE  /\ pc[r] \in 1 .. Len(Steps(r)) /\ Len(Steps(r)) \in Nat
         /\ SoundStep(flow[r], Steps(r), pc[r])
         /\ RollbackStep(flow[r], Steps(r), pc[r]) /\ OwnStep(flow[r], Steps(r), pc[r])
         /\ RepairStep(flow[r], Steps(r), pc[r])
<1>1. flow \in Flows /\ pc[r] \in Nat /\ pc[r] >= 1
  BY DEF PayInv, Typed, Control, Runs
<1>2. SoundFlow(flow[r], Steps(r))
  BY <1>1, StepsSound
<1>3. QED
  BY <1>1, <1>2 DEF SoundFlow, Runs

-----------------------------------------------------------------------------
(* Who else is there: a payment made alone.                                *)

LoneInv ==
  /\ \A r \in Requests : flow[r] = "NoRequest" => phase[r] = "idle"
  /\ \A r \in Requests :
       flow[r] \in TokenOtp \cup TokenByPass /\ phase[r] \notin {"idle", "refused"} =>
         \E q \in Requests : flow[q] \in TokenInit /\ phase[q] = "done"
  /\ ~ timeUp => job.at = "idle"

\* Beside the one that makes the payment there is at most the InitPayByToken it
\* goes on from, which has returned.
LEMMA Alone ==
  ASSUME LoneInv, OnePayment, NEW p \in Requests, phase[p] \notin {"idle", "refused"},
         flow[p] \notin TokenInit, NEW q \in Requests, q # p
  PROVE  \/ phase[q] = "idle" /\ flow[q] = "NoRequest"
         \/ phase[q] = "done" /\ flow[q] \in TokenInit
<1>1. flow[p] # "NoRequest"
  BY DEF LoneInv
<1>2. CASE flow[q] = "NoRequest"
  BY <1>2 DEF LoneInv
<1>3. CASE flow[q] # "NoRequest"
  <2>1. flow[q] \in TokenInit /\ flow[p] \in TokenOtp \cup TokenByPass
    BY <1>1, <1>3 DEF OnePayment
  <2>2. PICK i \in Requests : flow[i] \in TokenInit /\ phase[i] = "done"
    BY <2>1 DEF LoneInv
  <2>3. flow[i] # "NoRequest"
    BY <2>2 DEF TokenInit
  <2>4. flow[q] \notin TokenOtp \cup TokenByPass /\ flow[i] \notin TokenOtp \cup TokenByPass
    BY <2>1, <2>2 DEF TokenInit, TokenOtp, TokenByPass
  <2>5. i = q
    BY <1>3, <2>1, <2>2, <2>3, <2>4 DEF OnePayment
  <2>6. QED
    BY <2>1, <2>2, <2>5
<1>4. QED
  BY <1>2, <1>3

\* So it is the only one that takes a step.
LEMMA OnlyOne ==
  ASSUME LoneInv, OnePayment, NEW p \in Requests, phase[p] \notin {"idle", "refused"},
         flow[p] \notin TokenInit, NEW q \in Requests, EnterStep(q) \/ Active(q)
  PROVE  q = p
BY Alone DEF EnterStep, Active

\* No step brings another request in, or the job before the order runs out.
LEMMA LoneKept ==
  ASSUME PayInv, LoneInv,
         \/ \E r \in Requests : EnterStep(r) \/ ExecuteStep(r) \/ UndoesStep(r) \/ EndStep(r)
         \/ AroundStep
  PROVE  LoneInv'
<1>1. ASSUME NEW r \in Requests, EnterStep(r)
      PROVE  LoneInv'
  BY <1>1 DEF LoneInv, EnterStep, Others
<1>2. ASSUME NEW r \in Requests, ExecuteStep(r) \/ UndoesStep(r)
      PROVE  LoneInv'
  <2>1. phase[r] \in {"run", "abort"} /\ phase'[r] \in {"run", "abort", "panic"}
    BY <1>2 DEF ExecuteStep, UndoesStep, Advances, Fails, Undoes, Runs
  <2>2. Others(r) /\ timeUp' = timeUp /\ job' = job
    BY <1>2 DEF ExecuteStep, UndoesStep
  <2>3. QED
    BY <2>1, <2>2 DEF LoneInv, Others
<1>3. ASSUME NEW r \in Requests, EndStep(r)
      PROVE  LoneInv'
  BY <1>3 DEF LoneInv, EndStep, Others
<1>4. CASE AroundStep
  BY <1>4 DEF LoneInv, AroundStep
<1>5. QED
  BY <1>1, <1>2, <1>3, <1>4

-----------------------------------------------------------------------------
(* The rollbacks under way.                                                *)

RestInv == ParksFinal /\ UnknownRests

\* A request that takes no step rests as it did.
LEMMA RestSame ==
  ASSUME NEW q \in Requests, flow' = flow,
         phase'[q] = phase[q] \/ (phase[q] \in {"run", "abort"} /\ phase'[q] = "crashed"),
         pc'[q] = pc[q], failedAt'[q] = failedAt[q],
         order'[q] = order[q], trans'[q] = trans[q], flag'[q] = flag[q],
         FailedFinally(q) => FinalRest(q), Unknown(q) => Rests(q)
  PROVE  (FailedFinally(q) => FinalRest(q))' /\ (Unknown(q) => Rests(q))'
<1>1. Steps(q)' = Steps(q)
  BY DEF Steps
<1>2. FailedStep(q)' = FailedStep(q)
  BY <1>1 DEF FailedStep
<1>3. (FailedFinally(q) => FinalRest(q))'
  BY <1>1, <1>2 DEF FailedFinally, FinalRest
<1>4. (Unknown(q) => Rests(q))'
  BY <1>2 DEF Unknown, Rests, Calm
<1>5. QED
  BY <1>3, <1>4

\* A request that begins is in no rollback.
LEMMA EnterRests ==
  ASSUME PayInv, RestInv, NEW r \in Requests, EnterStep(r)
  PROVE  RestInv'
<1>1. SUFFICES ASSUME NEW q \in Requests
               PROVE  (FailedFinally(q) => FinalRest(q))' /\ (Unknown(q) => Rests(q))'
  BY Zenon DEF RestInv, ParksFinal, UnknownRests
<1>2. (FailedFinally(q) => FinalRest(q)) /\ (Unknown(q) => Rests(q))
  BY DEF RestInv, ParksFinal, UnknownRests
<1>3. CASE q # r
  BY <1>2, <1>3, RestSame DEF EnterStep, Others
<1>4. CASE q = r
  <2>1. ~ FailedFinally(q)'
    BY <1>4 DEF EnterStep, FailedFinally
  <2>2. ~ Unknown(r)
    BY <1>2, <1>4 DEF EnterStep, Rests
  <2>3. \A p \in Requests : phase[p] = "done" => ~ Unknown(p)
    BY DEF RestInv, UnknownRests, Rests
  <2>4. ~ Unknown(r)'
    BY <2>2, <2>3 DEF EnterStep, EnterCopies, Unknown
  <2>5. QED
    BY <1>4, <2>1, <2>4
<1>5. QED
  BY <1>3, <1>4

\* A step that fails begins a rollback that is at rest.
LEMMA ExecuteRests ==
  ASSUME PayInv, RestInv, NEW r \in Requests, ExecuteStep(r)
  PROVE  RestInv'
<1>1. SUFFICES ASSUME NEW q \in Requests
               PROVE  (FailedFinally(q) => FinalRest(q))' /\ (Unknown(q) => Rests(q))'
  BY Zenon DEF RestInv, ParksFinal, UnknownRests
<1>2. (FailedFinally(q) => FinalRest(q)) /\ (Unknown(q) => Rests(q))
  BY DEF RestInv, ParksFinal, UnknownRests
<1>3. CASE q # r
  BY <1>2, <1>3, RestSame DEF ExecuteStep, Others
<1>4. CASE q = r
  <2>1. Runs(r) /\ phase[r] = "run" /\ Steps(r)' = Steps(r)
    BY DEF ExecuteStep, RunStep, Runs, Others, Steps
  <2>2. Fails(r) => FailedStep(r)' = Cur(r).op
    BY <2>1 DEF Fails, FailedStep, Cur
  <2>3. ~ Unknown(r)
    BY <1>2, <1>4, <2>1 DEF Rests
  <2>4. CASE Advances(r)
    <3>1. ~ FailedFinally(r)'
      BY <2>4 DEF Advances, FailedFinally
    <3>2. ~ Fails(r)
      BY <2>4 DEF Advances, Fails
    <3>3. ~ Unknown(r)'
      BY <2>3, <3>2 DEF ExecuteStep, RunStep, RunsFlag, Unknown
    <3>4. QED
      BY <1>4, <3>1, <3>3
  <2>5. CASE Fails(r)
    <3>1. phase'[r] = "abort" /\ pc'[r] = pc[r] /\ failedAt'[r] = pc[r]
      BY <2>5 DEF Fails
    <3>2. (FailedFinally(r) => FinalRest(r))'
      BY <2>2, <2>5, <3>1 DEF FailedFinally, FinalRest, ExecuteStep, RunStep, RunsFinal
    <3>3. ASSUME Unknown(r)' PROVE Rests(r)'
      <4>1. Cur(r).op = IF flag'[r] = "pending" THEN "CallProvider" ELSE "VerifyOtp"
        BY <2>3, <3>3 DEF ExecuteStep, RunStep, RunsFlag, Unknown
      <4>2. flow[r] \notin TokenInit \cup {"OrderCancel"}
        BY <2>1, <4>1, RunFacts DEF RollbackStep, AskOps, Cur
      <4>3. FailedStep(r)' = IF flag'[r] = "pending" THEN "CallProvider" ELSE "VerifyOtp"
        BY <2>2, <2>5, <4>1
      <4>4. flow' = flow
        BY DEF ExecuteStep, Others
      <4>5. QED
        BY <3>1, <4>2, <4>3, <4>4 DEF Rests
    <3>4. QED
      BY <1>4, <3>2, <3>3
  <2>6. QED
    BY <2>4, <2>5 DEF ExecuteStep
<1>5. QED
  BY <1>3, <1>4

\* A compensation leaves its rollback at rest.
LEMMA CompensateRests ==
  ASSUME PayInv, RestInv, NEW r \in Requests, Compensate(r)
  PROVE  RestInv'
<1>1. SUFFICES ASSUME NEW q \in Requests
               PROVE  (FailedFinally(q) => FinalRest(q))' /\ (Unknown(q) => Rests(q))'
  BY Zenon DEF RestInv, ParksFinal, UnknownRests
<1>2. \A p \in Requests : (FailedFinally(p) => FinalRest(p)) /\ (Unknown(p) => Rests(p))
  BY DEF RestInv, ParksFinal, UnknownRests
<1>3. UndoesStep(r)
  BY CompensateIs
<1>4. CASE q # r
  BY <1>2, <1>3, <1>4, RestSame DEF UndoesStep, Others
<1>5. CASE q = r
  <2>1. /\ phase[r] = "abort" /\ pc[r] > 0 /\ failedAt'[r] = failedAt[r] /\ flag' = flag /\ flow' = flow
        /\ phase'[r] \in {"abort", "panic"} /\ Steps(r)' = Steps(r)
    BY <1>3 DEF UndoesStep, UndoStep, Undoes, Others, Steps
  <2>2. FailedStep(r)' = FailedStep(r)
    BY <2>1 DEF FailedStep
  <2>3. (FailedFinally(r) => FinalRest(r))'
    <3>1. FailedFinally(r)' => FailedFinally(r)
      BY <2>1, <2>2 DEF FailedFinally
    <3>2. QED
      BY <1>2, <2>1, <3>1, FinalUndoes
  <2>4. (Unknown(r) => Rests(r))'
    <3>1. Unknown(r)' => Unknown(r) /\ Rests(r)
      BY <1>2, <2>1 DEF Unknown
    <3>2. Unknown(r) /\ Rests(r) => Panics(r) \/ Calm(r)'
      BY <2>1, UnknownUndoes DEF Calm
    <3>3. Panics(r) => phase'[r] = "panic"
      BY DEF Panics, PayInv, Typed
    <3>4. QED
      BY <2>1, <2>2, <3>1, <3>2, <3>3 DEF Rests
  <2>5. QED
    BY <1>5, <2>3, <2>4
<1>6. QED
  BY <1>4, <1>5

\* So does the end of Play.
LEMMA EndRests ==
  ASSUME PayInv, RestInv, NEW r \in Requests, EndStep(r)
  PROVE  RestInv'
<1>1. SUFFICES ASSUME NEW q \in Requests
               PROVE  (FailedFinally(q) => FinalRest(q))' /\ (Unknown(q) => Rests(q))'
  BY Zenon DEF RestInv, ParksFinal, UnknownRests
<1>2. (FailedFinally(q) => FinalRest(q)) /\ (Unknown(q) => Rests(q))
  BY DEF RestInv, ParksFinal, UnknownRests
<1>3. CASE q # r
  BY <1>2, <1>3, RestSame DEF EndStep, Others
<1>4. CASE q = r
  <2>1. ~ FailedFinally(q)'
    BY <1>4 DEF EndStep, FailedFinally
  <2>2. phase[r] = "run" => ~ Unknown(r)
    BY <1>2, <1>4 DEF Rests
  <2>3. (Unknown(r) => Rests(r))'
    BY <1>2, <1>4, <2>2 DEF EndStep, Others, Unknown, Rests
  <2>4. QED
    BY <1>4, <2>1, <2>3
<1>5. QED
  BY <1>3, <1>4

\* Neither job nor crash touches the copies of a rollback.
LEMMA AroundRests ==
  ASSUME PayInv, RestInv, AroundStep
  PROVE  RestInv'
<1>1. SUFFICES ASSUME NEW q \in Requests
               PROVE  (FailedFinally(q) => FinalRest(q))' /\ (Unknown(q) => Rests(q))'
  BY Zenon DEF RestInv, ParksFinal, UnknownRests
<1>2. (FailedFinally(q) => FinalRest(q)) /\ (Unknown(q) => Rests(q))
  BY DEF RestInv, ParksFinal, UnknownRests
<1>3. phase'[q] = phase[q] \/ (phase[q] \in {"run", "abort"} /\ phase'[q] = "crashed")
  BY DEF AroundStep
<1>4. UNCHANGED <<flow, pc, failedAt, order, trans, flag>>
  BY DEF AroundStep
<1>5. QED
  BY <1>2, <1>3, <1>4, RestSame

-----------------------------------------------------------------------------
(* The transaction of a payment in OwnFlows, or of Lixi, is its own.       *)

\* Nobody else names it, and the order does so only once it is settled.
Own(r) ==
  /\ IdOf(trans[r]) \in {NIL, r}
  /\ TranOf(job.read) # r
  /\ \A q \in Requests \ {r} : TranOf(order[q]) # r /\ IdOf(trans[q]) # r
  /\ TranOf(doc) = r => flow[r] # "Lixi" /\ doc.status \in {"VERIFYING", "FAILED", "SUCCESS"}
  /\ flow[r] = "Lixi" \/ (Ahead(r) /\ ~ Past(r, OpeningOps)) => TranOf(order[r]) # r

OwnInv == \A r \in Requests : flow[r] \in OwnFlows \cup {"Lixi"} => Own(r)

\* A request that begins does not take up another's transaction.
LEMMA EnterOwn ==
  ASSUME PayInv, OwnInv, NEW q \in Requests, EnterStep(q)
  PROVE  OwnInv'
<1> USE NilAssumption
<1>1. SUFFICES ASSUME NEW r \in Requests, flow[r] \in OwnFlows \cup {"Lixi"}, Own(r) PROVE Own(r)'
  BY DEF OwnInv, EnterStep, Others
<1>2. /\ flow' = flow /\ job' = job /\ doc' = doc /\ pc' = pc /\ Others(q)
      /\ phase[q] = "idle" /\ phase'[q] \in {"run", "refused"}
  BY DEF EnterStep, Others
<1>3. flow[r] \notin TokenInit /\ flow[r] \notin TokenByPass
  BY <1>1 DEF OwnFlows, TokenInit, TokenByPass
<1>4. TranOf(doc) = r => ~ GetValidOrder(doc)
  BY <1>1 DEF Own, GetValidOrder, TranOf
<1>5. \A p \in Requests : flow[p] \in TokenInit => TranOf(order[p]) # r /\ IdOf(trans[p]) # r
  BY <1>1, <1>3 DEF Own
<1>6. TranOf(order'[q]) = r => TranOf(order[q]) = r
  BY <1>4, <1>5 DEF EnterStep, EnterCopies, TranOf
<1>7. IdOf(trans'[q]) = IdOf(trans[q]) \/ (q # r /\ IdOf(trans'[q]) # r)
  BY <1>3, <1>5 DEF EnterStep, EnterCopies
<1>8. Ahead(r)' => Ahead(r)
  BY <1>2 DEF Ahead, Others
<1>9. Past(r, OpeningOps)' <=> Past(r, OpeningOps)
  BY <1>2, PastSame
<1>10. IdOf(trans[r])' \in {NIL, r}
  BY <1>1, <1>2, <1>7 DEF Own, Others
<1>11. \A p \in Requests \ {r} : TranOf(order'[p]) # r /\ IdOf(trans'[p]) # r
  BY <1>1, <1>2, <1>6, <1>7 DEF Own, Others
<1>12. TranOf(order'[r]) = r => TranOf(order[r]) = r
  BY <1>2, <1>6 DEF Others
<1>13. QED
  BY <1>1, <1>2, <1>8, <1>9, <1>10, <1>11, <1>12 DEF Own

\* No step of anybody names it, but its own settlement.
LEMMA ExecuteOwn ==
  ASSUME PayInv, OwnInv, NEW q \in Requests, ExecuteStep(q)
  PROVE  OwnInv'
<1> USE NilAssumption
<1>1. SUFFICES ASSUME NEW r \in Requests, flow[r] \in OwnFlows \cup {"Lixi"}, Own(r) PROVE Own(r)'
  BY DEF OwnInv, ExecuteStep, Others
<1>2. /\ flow' = flow /\ job' = job /\ Others(q) /\ Runs(q) /\ phase[q] = "run"
      /\ RunsDoc(q) /\ RunsOrder(q) /\ RunsTrans(q)
      /\ Advances(q) \/ Fails(q)
  BY DEF ExecuteStep, Others, RunStep, Runs
<1>3. TranOf(doc) = r => ~ GetValidOrder(doc)
  BY <1>1 DEF Own, GetValidOrder, TranOf
<1>4. CASE q # r
  <2>1. TranOf(order[q]) # r /\ IdOf(trans[q]) # r
    BY <1>1, <1>4 DEF Own
  <2>2. \A t : Names(q, t) => t # r
    BY <2>1 DEF Names
  <2>3. doc' # doc => TranOf(doc') # r
    BY <1>2, <2>2 DEF RunsDoc, TranOf
  <2>4. TranOf(order'[q]) # r
    BY <1>2, <1>3, <1>4, <2>2 DEF RunsOrder
  <2>5. IdOf(trans'[q]) # r
    BY <1>2, <1>4, <2>1 DEF RunsTrans
  <2>6. /\ phase'[r] = phase[r] /\ order'[r] = order[r] /\ trans'[r] = trans[r] /\ pc'[r] = pc[r]
        /\ \A p \in Requests \ {q} : order'[p] = order[p] /\ trans'[p] = trans[p]
    BY <1>2, <1>4 DEF Others
  <2>7. Past(r, OpeningOps)' <=> Past(r, OpeningOps)
    BY <1>2, <2>6, PastStays
  <2>8. \A p \in Requests \ {r} : TranOf(order'[p]) # r /\ IdOf(trans'[p]) # r
    BY <1>1, <2>4, <2>5, <2>6 DEF Own
  <2>9. TranOf(doc') = r => flow[r] # "Lixi" /\ doc'.status \in {"VERIFYING", "FAILED", "SUCCESS"}
    BY <1>1, <2>3 DEF Own
  <2>10. QED
    BY <1>1, <1>2, <2>6, <2>7, <2>8, <2>9 DEF Own, Ahead
<1>5. CASE q = r
  <2>1. /\ OwnStep(flow[r], Steps(r), pc[r]) /\ RollbackStep(flow[r], Steps(r), pc[r])
        /\ SoundStep(flow[r], Steps(r), pc[r])
    BY <1>2, <1>5, RunFacts
  <2>2. /\ flow[r] = "Lixi" => ~ Cur(r).link
        /\ Cur(r).op \notin {"FindTransaction", "FindOrInitPayment", "CancelOrder"}
        /\ flow[r] # "Lixi" =>
             /\ Cur(r).link => Cur(r).op \in FinalOps \cup {"InitPayment"}
             /\ Cur(r).op \in {"InitOrder", "ProcessingOrder"} => ~ Past(r, OpeningOps)
    BY <1>1, <2>1 DEF OwnStep, RollbackStep, OwnFlows, Cur, Past
  <2>3. Ahead(r)
    BY <1>2, <1>5 DEF Ahead
  <2>4. Cur(r).op \in FinalOps => Past(r, OpeningOps) \/ flow[r] = "Lixi"
    <3>1. SUFFICES ASSUME Cur(r).op \in FinalOps, flow[r] # "Lixi" PROVE Past(r, OpeningOps)
      OBVIOUS
    <3>2. Earlier(Steps(r), pc[r], TransOps)
      BY <1>1, <2>1, <3>1 DEF SoundStep, Cur, NeedsTrans, FinalOps, ConfirmOps, OwnFlows,
         TokenByPass
    <3>3. PICK j \in 1 .. pc[r] - 1 : Steps(r)[j].op \in TransOps
      BY <3>2 DEF Earlier
    <3>4. j \in 1 .. Len(Steps(r)) /\ SoundFlow(flow[r], Steps(r))
      BY <1>2, <1>5, RunFacts, StepsSound DEF PayInv, Typed
    <3>5. Steps(r)[j].op # "FindTransaction"
      BY <1>1, <3>4 DEF SoundFlow, OwnStep
    <3>6. Steps(r)[j].op \in OpeningOps
      BY <3>3, <3>5 DEF TransOps, OpeningOps
    <3>7. QED
      BY <3>3, <3>6 DEF Past, Earlier
  <2>5. \A p \in Requests \ {r} : order'[p] = order[p] /\ trans'[p] = trans[p]
    BY <1>2, <1>5 DEF Others
  <2>6. IdOf(trans'[r]) \in {NIL, r}
    BY <1>1, <1>2, <1>5, <2>2 DEF RunsTrans, Own
  <2>7. \A t : Names(r, t) /\ t = r =>
           TranOf(order[r]) = r \/ (flow[r] # "Lixi" /\ Cur(r).op \in FinalOps \cup {"InitPayment"})
    BY <2>2 DEF Names
  <2>8. TranOf(doc') = r => flow[r] # "Lixi" /\ doc'.status \in {"VERIFYING", "FAILED", "SUCCESS"}
    <3>1. CASE doc' = doc
      BY <1>1, <3>1 DEF Own
    <3>2. CASE doc' # doc
      <4>1. SUFFICES ASSUME TranOf(doc') = r PROVE <2>8!2
        OBVIOUS
      <4>2. doc' \in Orders /\ doc'.tran = r /\ Names(r, doc'.tran)
        BY <1>2, <1>5, <3>2, <4>1 DEF RunsDoc, TranOf
      <4>3. flow[r] # "Lixi"
        BY <1>1, <2>7, <4>2 DEF Own
      <4>4. doc'.status \notin {"PENDING", "PROCESSING"}
        BY <1>1, <1>2, <1>5, <2>2, <2>3, <2>7, <3>2, <4>2, <4>3 DEF RunsDoc, Own, FinalOps,
           ConfirmOps
      <4>5. doc'.status # "CANCEL" /\ doc'.status \in OrderStatus
        BY <1>2, <1>5, <2>2, <3>2, <4>2 DEF RunsDoc, Orders
      <4>6. QED
        BY <4>3, <4>4, <4>5 DEF OrderStatus
    <3>3. QED
      BY <3>1, <3>2
  <2>9. flow[r] = "Lixi" => TranOf(order'[r]) # r
    BY <1>1, <1>2, <1>3, <1>5, <2>2, <2>7 DEF RunsOrder, Own
  <2>10. ASSUME flow[r] # "Lixi", Ahead(r)', ~ Past(r, OpeningOps)' PROVE TranOf(order'[r]) # r
    <3>1. Advances(r)
      BY <1>2, <1>5, <2>10 DEF Fails, Ahead
    <3>2. ~ Past(r, OpeningOps) /\ Cur(r).op \notin OpeningOps
      <4>1. pc[r] \in Nat /\ pc[r] >= 1 /\ pc'[r] = pc[r] + 1
        BY <1>2, <1>5, <3>1, RunFacts DEF Advances
      <4>2. QED
        BY <1>2, <2>10, <4>1, PastGrows
    <3>3. TranOf(order[r]) # r
      BY <1>1, <2>3, <3>2 DEF Own
    <3>4. Cur(r).op \notin FinalOps \cup {"InitPayment"}
      BY <2>4, <2>10, <3>2 DEF OpeningOps
    <3>5. QED
      BY <1>2, <1>3, <1>5, <2>7, <3>2, <3>3, <3>4 DEF RunsOrder
  <2>11. QED
    BY <1>1, <1>2, <2>5, <2>6, <2>8, <2>9, <2>10 DEF Own
<1>6. QED
  BY <1>4, <1>5

\* A compensation writes the order it has a copy of, closed.
LEMMA UndoOwn ==
  ASSUME PayInv, OwnInv, NEW q \in Requests, UndoesStep(q)
  PROVE  OwnInv'
<1> USE NilAssumption
<1>1. SUFFICES ASSUME NEW r \in Requests, flow[r] \in OwnFlows \cup {"Lixi"}, Own(r) PROVE Own(r)'
  BY DEF OwnInv, UndoesStep, Others
<1>2. /\ flow' = flow /\ job' = job /\ Others(q) /\ phase[q] = "abort" /\ pc[q] > 0
      /\ phase'[q] \in {"abort", "panic"}
      /\ UndoDoc(q) /\ UndoOrder(q) /\ UndoTrans(q)
  BY DEF UndoesStep, Others, UndoStep, Undoes
<1>3. \A p \in Requests : TranOf(order'[p]) = TranOf(order[p]) /\ IdOf(trans'[p]) \in {NIL, IdOf(trans[p])}
  BY <1>2 DEF Others, UndoOrder, UndoTrans
<1>4. doc' # doc => TranOf(doc') = TranOf(order[q])
  BY <1>2 DEF UndoDoc, TranOf
<1>5. CASE q # r
  <2>1. TranOf(order[q]) # r
    BY <1>1, <1>5 DEF Own
  <2>2. phase'[r] = phase[r] /\ pc'[r] = pc[r]
    BY <1>2, <1>5 DEF Others
  <2>3. Past(r, OpeningOps)' <=> Past(r, OpeningOps)
    BY <1>2, <2>2, PastStays
  <2>4. TranOf(doc') = r => doc' = doc
    BY <1>4, <2>1
  <2>5. QED
    BY <1>1, <1>2, <1>3, <2>2, <2>3, <2>4 DEF Own, Ahead
<1>6. CASE q = r
  <2>1. ~ Ahead(r)'
    BY <1>2, <1>6 DEF Ahead
  <2>2. flow[r] # "Lixi" => Cur(r).comp # "CancelOpen"
    BY <1>1, <1>2, <1>6, RollbackFacts DEF OwnStep, Cur
  <2>3. ASSUME TranOf(doc') = r, doc' # doc
        PROVE  flow[r] # "Lixi" /\ doc'.status \in {"VERIFYING", "FAILED", "SUCCESS"}
    <3>1. TranOf(order[r]) = r
      BY <1>4, <1>6, <2>3
    <3>2. flow[r] # "Lixi"
      BY <1>1, <3>1 DEF Own
    <3>3. QED
      BY <1>2, <1>6, <2>2, <2>3, <3>2 DEF UndoDoc
  <2>4. QED
    BY <1>1, <1>2, <1>3, <2>1, <2>3 DEF Own
<1>7. QED
  BY <1>5, <1>6

\* The end of Play names nothing.
LEMMA EndOwn ==
  ASSUME PayInv, OwnInv, NEW q \in Requests, EndStep(q)
  PROVE  OwnInv'
<1>1. SUFFICES ASSUME NEW r \in Requests, flow[r] \in OwnFlows \cup {"Lixi"}, Own(r) PROVE Own(r)'
  BY DEF OwnInv, EndStep, Others
<1>2. UNCHANGED <<flow, pc, order, trans, doc, job>>
  BY DEF EndStep, Others
<1>3. Ahead(r)' => Ahead(r)
  BY DEF EndStep, Others, Ahead
<1>4. Past(r, OpeningOps)' <=> Past(r, OpeningOps)
  BY <1>2, PastSame
<1>5. QED
  BY <1>1, <1>2, <1>3, <1>4 DEF Own

\* The job reads open orders only, and those do not name it.
LEMMA AroundOwn ==
  ASSUME PayInv, OwnInv, AroundStep
  PROVE  OwnInv'
<1> USE NilAssumption
<1>1. SUFFICES ASSUME NEW r \in Requests, flow[r] \in OwnFlows \cup {"Lixi"}, Own(r) PROVE Own(r)'
  BY DEF OwnInv, AroundStep
<1>2. UNCHANGED <<flow, pc, order, trans>>
  BY DEF AroundStep
<1>3. Ahead(r)' => Ahead(r)
  BY DEF AroundStep, Ahead
<1>4. Past(r, OpeningOps)' <=> Past(r, OpeningOps)
  BY <1>2, PastSame
<1>5. TranOf(doc') = r => doc' = doc
  BY <1>1 DEF AroundStep, Own, TranOf
<1>6. TranOf(job'.read) # r
  BY <1>1 DEF AroundStep, Own, TranOf
<1>7. QED
  BY <1>1, <1>2, <1>3, <1>4, <1>5, <1>6 DEF Own

-----------------------------------------------------------------------------
(* Lixi is charged once it has confirmed, and when it fails it was not.    *)

LixiCharged(r) ==
  /\ (phase[r] = "run" /\ Past(r, {"ConfirmTrans"})) \/ phase[r] = "done" => Charged(r)
  /\ Charged(r) =>
       /\ phase[r] \notin {"idle", "refused", "failed"}
       /\ phase[r] = "run" => Past(r, {"ConfirmTrans"})
       /\ phase[r] = "abort" => FailedFinally(r)

LixiInv == \A r \in Requests : flow[r] = "Lixi" => LixiCharged(r)

\* Somebody else's step does not move its money.
LEMMA LixiSame ==
  ASSUME NEW r \in Requests, LixiCharged(r), Charged(r)' <=> Charged(r), flow' = flow,
         phase'[r] = phase[r] \/ (phase[r] \in {"run", "abort"} /\ phase'[r] = "crashed"),
         pc'[r] = pc[r], failedAt'[r] = failedAt[r]
  PROVE  LixiCharged(r)'
<1>1. Past(r, {"ConfirmTrans"})' <=> Past(r, {"ConfirmTrans"})
  BY PastStays
<1>2. FailedFinally(r)' <=> FailedFinally(r) /\ phase'[r] = "abort"
  BY DEF FailedFinally, FailedStep, Steps
<1>3. QED
  BY <1>1, <1>2 DEF LixiCharged

\* Its confirmation, and nothing else, charges it.
LEMMA ExecuteLixi ==
  ASSUME PayInv, OwnInv, LixiInv, NEW q \in Requests, ExecuteStep(q)
  PROVE  LixiInv'
<1> USE NilAssumption
<1>1. SUFFICES ASSUME NEW r \in Requests, flow[r] = "Lixi", LixiCharged(r) PROVE LixiCharged(r)'
  BY DEF LixiInv, ExecuteStep, Others
<1>2. /\ flow' = flow /\ Others(q) /\ Runs(q) /\ phase[q] = "run" /\ RunsMoney(q)
      /\ Advances(q) \/ Fails(q)
      /\ Charged(r) => Charged(r)'
      /\ Own(r)
  BY <1>1 DEF ExecuteStep, Others, RunStep, Runs, SoundService, Charged, OwnInv
<1>3. ~ Charged(r) /\ Charged(r)' => q = r /\ Cur(q).op \in ConfirmOps
  BY <1>2 DEF RunsMoney, Own
<1>4. CASE q # r
  <2>1. Charged(r)' <=> Charged(r)
    BY <1>2, <1>3, <1>4
  <2>2. QED
    BY <1>1, <1>2, <1>4, <2>1, LixiSame DEF Others
<1>5. CASE q = r
  <2>1. /\ OwnStep(flow[r], Steps(r), pc[r]) /\ RollbackStep(flow[r], Steps(r), pc[r])
        /\ pc[r] \in Nat /\ pc[r] >= 1
    BY <1>2, <1>5, RunFacts
  <2>2. /\ Cur(r).op # "ConfirmIfBypass"
        /\ Past(r, {"ConfirmTrans"}) => Cur(r).op \in FinalOps
    BY <1>1, <2>1 DEF OwnStep, RollbackStep, Cur, Past, Earlier, FinalOps, ConfirmOps
  <2>3. CASE Advances(r)
    <3>1. Past(r, {"ConfirmTrans"})' <=> Past(r, {"ConfirmTrans"}) \/ Cur(r).op = "ConfirmTrans"
      BY <1>2, <2>1, <2>3, PastGrows DEF Advances
    <3>2. Cur(r).op = "ConfirmTrans" => Charged(r)'
      BY <1>2, <1>5, <2>3 DEF RunsMoney, Own, Charged
    <3>3. Charged(r)' => Charged(r) \/ Cur(r).op = "ConfirmTrans"
      BY <1>3, <1>5, <2>2 DEF ConfirmOps
    <3>4. phase[r] = "run" /\ phase'[r] = "run"
      BY <1>2, <1>5, <2>3 DEF Advances
    <3>5. QED
      BY <1>1, <1>2, <3>1, <3>2, <3>3, <3>4 DEF LixiCharged
  <2>4. CASE Fails(r)
    <3>1. phase'[r] = "abort" /\ failedAt'[r] = pc[r]
      BY <2>4 DEF Fails
    <3>2. Charged(r)' => Cur(r).op \in FinalOps
      BY <1>1, <1>2, <1>3, <1>5, <2>2 DEF LixiCharged, FinalOps
    <3>3. FailedFinally(r)' <=> Cur(r).op \in FinalOps
      BY <1>2, <3>1 DEF FailedFinally, FailedStep, Cur, Steps
    <3>4. QED
      BY <3>1, <3>2, <3>3 DEF LixiCharged
  <2>5. QED
    BY <1>2, <1>5, <2>3, <2>4
<1>6. QED
  BY <1>4, <1>5

\* No compensation charges or takes back what is charged.
LEMMA UndoLixi ==
  ASSUME PayInv, LixiInv, NEW q \in Requests, UndoesStep(q)
  PROVE  LixiInv'
<1>1. SUFFICES ASSUME NEW r \in Requests, flow[r] = "Lixi", LixiCharged(r) PROVE LixiCharged(r)'
  BY DEF LixiInv, UndoesStep, Others
<1>2. Charged(r)' <=> Charged(r)
  BY DEF UndoesStep, UndoStep, UndoMoney, SoundService, Charged
<1>3. CASE q # r
  BY <1>1, <1>2, <1>3, LixiSame DEF UndoesStep, Others
<1>4. CASE q = r
  <2>1. phase[r] = "abort" /\ phase'[r] \in {"abort", "panic"} /\ failedAt'[r] = failedAt[r] /\ flow' = flow
    BY <1>4 DEF UndoesStep, Undoes, Others
  <2>2. phase'[r] = "abort" => (FailedFinally(r)' <=> FailedFinally(r))
    BY <2>1 DEF FailedFinally, FailedStep, Steps
  <2>3. QED
    BY <1>1, <1>2, <2>1, <2>2 DEF LixiCharged
<1>5. QED
  BY <1>3, <1>4

\* Once it may have been charged the rollback panics: it does not return.
LEMMA EndLixi ==
  ASSUME PayInv, RestInv, LixiInv, NEW q \in Requests, EndStep(q)
  PROVE  LixiInv'
<1>1. SUFFICES ASSUME NEW r \in Requests, flow[r] = "Lixi", LixiCharged(r) PROVE LixiCharged(r)'
  BY DEF LixiInv, EndStep, Others
<1>2. (Charged(r)' <=> Charged(r)) /\ flow' = flow
  BY DEF EndStep, Charged, Others
<1>3. CASE q # r
  BY <1>1, <1>2, <1>3, LixiSame DEF EndStep, Others
<1>4. CASE q = r /\ phase[r] = "run"
  <2>1. phase'[r] = "done" /\ pc[r] = Len(Steps(r)) + 1
    BY <1>4 DEF EndStep
  <2>2. Earlier(Steps(r), Len(Steps(r)) + 1, {"ConfirmTrans"})
    BY <1>1, StepsSound DEF SoundFlow, PayInv, Typed
  <2>3. Past(r, {"ConfirmTrans"})
    BY <2>1, <2>2 DEF Past
  <2>4. QED
    BY <1>1, <1>2, <1>4, <2>1, <2>3 DEF LixiCharged
<1>5. CASE q = r /\ phase[r] = "abort"
  <2>1. phase'[r] = "failed" /\ pc[r] = 0
    BY <1>5 DEF EndStep
  <2>2. failedAt[r] \in 1 .. Len(Steps(r)) /\ SoundFlow(flow[r], Steps(r))
    <3>1. failedAt[r] \in Nat /\ failedAt[r] >= 1 /\ failedAt[r] <= Len(Steps(r)) /\ flow \in Flows
      BY <1>5 DEF PayInv, Typed, Control
    <3>2. QED
      BY <3>1, StepsSound DEF SoundFlow
  <2>3. ~ FailedFinally(r)
    <3>1. SUFFICES ASSUME FailedFinally(r) PROVE FALSE
      OBVIOUS
    <3>2. Steps(r)[failedAt[r]].comp = "Park"
      BY <1>1, <2>2, <3>1 DEF SoundFlow, RollbackStep, FailedFinally, FailedStep
    <3>3. pc[r] = failedAt[r]
      BY <3>1, <3>2 DEF RestInv, ParksFinal, FinalRest
    <3>4. QED
      BY <2>1, <2>2, <3>3
  <2>4. QED
    BY <1>1, <1>2, <1>5, <2>1, <2>3 DEF LixiCharged
<1>6. QED
  BY <1>3, <1>4, <1>5 DEF EndStep

\* Before it begins it is not charged.
LEMMA EnterLixi ==
  ASSUME PayInv, LixiInv, NEW q \in Requests, EnterStep(q)
  PROVE  LixiInv'
<1>1. SUFFICES ASSUME NEW r \in Requests, flow[r] = "Lixi", LixiCharged(r) PROVE LixiCharged(r)'
  BY DEF LixiInv, EnterStep, Others
<1>2. (Charged(r)' <=> Charged(r)) /\ flow' = flow /\ pc' = pc
  BY DEF EnterStep, Charged, Others
<1>3. CASE q # r
  BY <1>1, <1>2, <1>3, LixiSame DEF EnterStep, Others
<1>4. CASE q = r
  <2>1. ~ Charged(r) /\ phase'[r] \in {"run", "refused"}
    BY <1>1, <1>4 DEF EnterStep, LixiCharged
  <2>2. pc[r] = 1
    BY <1>4 DEF EnterStep, PayInv, Control
  <2>3. ~ Past(r, {"ConfirmTrans"})'
    BY <1>2, <2>2 DEF Past, Earlier
  <2>4. QED
    BY <1>2, <2>1, <2>3 DEF LixiCharged
<1>5. QED
  BY <1>3, <1>4

\* The job cannot give back what is charged.
LEMMA AroundLixi ==
  ASSUME PayInv, LixiInv, AroundStep
  PROVE  LixiInv'
<1>1. SUFFICES ASSUME NEW r \in Requests, flow[r] = "Lixi", LixiCharged(r) PROVE LixiCharged(r)'
  BY DEF LixiInv, AroundStep
<1>2. Charged(r)' <=> Charged(r)
  BY DEF AroundStep, Charged
<1>3. QED
  BY <1>1, <1>2, LixiSame DEF AroundStep

-----------------------------------------------------------------------------
(* Who paid, and the order that was paid for.                              *)

Pays(p) ==
  /\ phase[p] \notin {"idle", "refused"} /\ flow[p] \notin TokenInit \cup {"OrderCancel"}
  /\ phase[p] = "run" => Past(p, ConfirmOps)
  /\ phase[p] = "abort" => FailedFinally(p)

DocFine == doc = NIL \/ doc.status \notin {"FAILED", "CANCEL"}

\* Nobody has failed or cancels the order.
NoneFailed ==
  \A q \in Requests : phase[q] \in {"idle", "refused", "run", "done"} /\ flow[q] # "OrderCancel"

PayerInv ==
  /\ SomeCharged => doc # NIL /\ \E p \in Requests : Pays(p)
  /\ OnePayment /\ (NoneFailed \/ SomeCharged) => DocFine

\* While a payment made alone goes on nobody has failed.
LEMMA AloneGoesOn ==
  ASSUME LoneInv, OnePayment, NEW p \in Requests, phase[p] \in {"run", "done"},
         flow[p] \notin TokenInit \cup {"OrderCancel"}
  PROVE  NoneFailed
BY Alone DEF NoneFailed, TokenInit

\* The payer that somebody else's step leaves alone.
LEMMA PaysSame ==
  ASSUME NEW p \in Requests, Pays(p), flow' = flow,
         phase'[p] = phase[p] \/ (phase[p] \in {"run", "abort"} /\ phase'[p] = "crashed"),
         pc'[p] = pc[p], failedAt'[p] = failedAt[p]
  PROVE  Pays(p)'
<1>1. Past(p, ConfirmOps)' <=> Past(p, ConfirmOps)
  BY PastStays
<1>2. FailedFinally(p)' <=> FailedFinally(p) /\ phase'[p] = "abort"
  BY DEF FailedFinally, FailedStep, Steps
<1>3. QED
  BY <1>1, <1>2 DEF Pays

\* Once it has confirmed a request only settles the order.
LEMMA PaysFinally ==
  ASSUME PayInv, NEW p \in Requests, Pays(p), Runs(p)
  PROVE  Cur(p).op \in FinalOps
BY RunFacts DEF Pays, Runs, RollbackStep, Cur, Past, Earlier, FinalOps

\* A payment that is alone after a step was so before it.
LEMMA OnePaymentWas ==
  ASSUME flow' = flow, timeUp => timeUp', OnePayment'
  PROVE  OnePayment /\ ~ timeUp'
BY DEF OnePayment

\* Nobody pays by beginning.
LEMMA EnterPayer ==
  ASSUME PayInv, PayerInv, NEW r \in Requests, EnterStep(r)
  PROVE  PayerInv'
<1>1. flow' = flow /\ UNCHANGED <<pc, failedAt, doc, state, timeUp>>
  BY DEF EnterStep, Others
<1>2. (SomeCharged' <=> SomeCharged) /\ (DocFine' <=> DocFine) /\ (OnePayment' => OnePayment)
  BY <1>1 DEF SomeCharged, Charged, DocFine, OnePayment
<1>3. NoneFailed' => NoneFailed
  BY DEF NoneFailed, EnterStep, Others
<1>4. ASSUME NEW p \in Requests, Pays(p) PROVE Pays(p)'
  <2>1. p # r
    BY <1>4 DEF Pays, EnterStep
  <2>2. QED
    BY <1>4, <2>1, PaysSame DEF EnterStep, Others
<1>5. QED
  BY <1>1, <1>2, <1>3, <1>4 DEF PayerInv

\* A payer that returns has paid.
LEMMA EndPayer ==
  ASSUME PayInv, PayerInv, NEW r \in Requests, EndStep(r)
  PROVE  PayerInv'
<1>1. flow' = flow /\ UNCHANGED <<pc, failedAt, doc, state, timeUp>>
  BY DEF EndStep, Others
<1>2. (SomeCharged' <=> SomeCharged) /\ (DocFine' <=> DocFine) /\ (OnePayment' => OnePayment)
  BY <1>1 DEF SomeCharged, Charged, DocFine, OnePayment
<1>3. NoneFailed' => NoneFailed
  BY DEF NoneFailed, EndStep, Others
<1>4. ASSUME NEW p \in Requests, Pays(p) PROVE Pays(p)'
  <2>1. CASE p # r
    BY <1>4, <2>1, PaysSame DEF EndStep, Others
  <2>2. CASE p = r
    BY <1>1, <1>4, <2>2 DEF EndStep, Pays
  <2>3. QED
    BY <2>1, <2>2
<1>5. QED
  BY <1>1, <1>2, <1>3, <1>4 DEF PayerInv

\* The job keeps off an order that has not run out.
LEMMA AroundPayer ==
  ASSUME PayInv, LoneInv, PayerInv, AroundStep
  PROVE  PayerInv'
<1>1. flow' = flow /\ UNCHANGED <<pc, failedAt>> /\ (timeUp => timeUp')
  BY DEF AroundStep
<1>2. SomeCharged' <=> SomeCharged
  BY DEF AroundStep, SomeCharged, Charged
<1>3. NoneFailed' => NoneFailed
  BY DEF NoneFailed, AroundStep
<1>4. ASSUME NEW p \in Requests, Pays(p) PROVE Pays(p)'
  BY <1>4, PaysSame DEF AroundStep
<1>5. OnePayment' => OnePayment /\ doc' = doc
  BY <1>1, OnePaymentWas DEF AroundStep, LoneInv, OnePayment
<1>6. doc # NIL => doc' # NIL
  BY NilAssumption DEF AroundStep
<1>7. QED
  BY <1>2, <1>3, <1>4, <1>5, <1>6 DEF PayerInv, DocFine

\* Whoever charges is the payer, and past its confirmation it only settles.
LEMMA ExecutePayer ==
  ASSUME PayInv, LoneInv, PayerInv, NEW r \in Requests, ExecuteStep(r)
  PROVE  PayerInv'
<1>1. /\ flow' = flow /\ timeUp' = timeUp /\ Others(r) /\ Runs(r) /\ phase[r] = "run"
      /\ Advances(r) \/ Fails(r)
      /\ RunsDoc(r) /\ RunsMoney(r)
      /\ SomeCharged => SomeCharged'
  BY DEF ExecuteStep, Others, RunStep, Runs, SoundService, SomeCharged, Charged
<1>2. pc[r] \in Nat /\ pc[r] >= 1 /\ RollbackStep(flow[r], Steps(r), pc[r])
  BY <1>1, RunFacts
<1>3. Cur(r).op \in ConfirmOps => flow[r] \notin TokenInit \cup {"OrderCancel"}
  BY <1>2 DEF RollbackStep, Cur
<1>4. \A t \in Requests : Charged(t)' /\ ~ Charged(t) => Cur(r).op \in ConfirmOps /\ doc # NIL
  BY <1>1 DEF RunsMoney
<1>5. doc # NIL => doc' # NIL
  BY <1>1, NilAssumption DEF RunsDoc
<1>6. Pays(r) \/ Cur(r).op \in ConfirmOps => Cur(r).op \in FinalOps
  BY <1>1, PaysFinally DEF FinalOps
<1>7. Pays(r) \/ Cur(r).op \in ConfirmOps => Pays(r)'
  <2>1. SUFFICES ASSUME Pays(r) \/ Cur(r).op \in ConfirmOps PROVE Pays(r)'
    OBVIOUS
  <2>2. flow[r] \notin TokenInit \cup {"OrderCancel"}
    BY <1>3, <2>1 DEF Pays
  <2>3. CASE Advances(r)
    <3>1. Past(r, ConfirmOps)' <=> Past(r, ConfirmOps) \/ Cur(r).op \in ConfirmOps
      BY <1>1, <1>2, <2>3, PastGrows DEF Advances
    <3>2. Past(r, ConfirmOps)'
      BY <1>1, <2>1, <3>1 DEF Pays
    <3>3. QED
      BY <1>1, <2>2, <2>3, <3>2 DEF Advances, Pays
  <2>4. CASE Fails(r)
    <3>1. FailedFinally(r)'
      BY <1>1, <1>6, <2>1, <2>4 DEF Fails, FailedFinally, FailedStep, Cur, Steps
    <3>2. QED
      BY <1>1, <2>2, <2>4, <3>1 DEF Fails, Pays
  <2>5. QED
    BY <1>1, <2>3, <2>4
<1>8. SomeCharged' => doc' # NIL /\ \E p \in Requests : Pays(p)'
  <2>1. SUFFICES ASSUME SomeCharged' PROVE doc # NIL /\ \E p \in Requests : Pays(p)'
    BY <1>5
  <2>2. CASE SomeCharged
    <3>1. PICK p \in Requests : Pays(p)
      BY <2>2 DEF PayerInv
    <3>2. p # r => Pays(p)'
      BY <1>1, <3>1, PaysSame DEF Others
    <3>3. QED
      BY <1>7, <2>2, <3>1, <3>2 DEF PayerInv
  <2>3. CASE ~ SomeCharged
    BY <1>4, <1>7, <2>1, <2>3 DEF SomeCharged
  <2>4. QED
    BY <2>2, <2>3
<1>9. ASSUME OnePayment', NoneFailed' \/ SomeCharged' PROVE DocFine'
  <2>1. OnePayment
    BY <1>1, <1>9, OnePaymentWas
  <2>2. doc' # doc => /\ doc'.status = "FAILED" => Cur(r).op = "FailUnpaid" /\ Fails(r)
                      /\ doc'.status = "CANCEL" => Cur(r).op = "CancelOrder"
    BY <1>1 DEF RunsDoc
  <2>3. CASE SomeCharged'
    <3>1. Cur(r).op \in FinalOps /\ DocFine
      <4>1. CASE SomeCharged
        <5>1. PICK p \in Requests : Pays(p)
          BY <4>1 DEF PayerInv
        <5>2. p = r
          BY <1>1, <2>1, <5>1, OnlyOne DEF Pays, Active
        <5>3. QED
          BY <1>6, <2>1, <4>1, <5>1, <5>2 DEF PayerInv
      <4>2. CASE ~ SomeCharged
        <5>1. Cur(r).op \in ConfirmOps
          BY <1>4, <2>3, <4>2 DEF SomeCharged
        <5>2. NoneFailed
          BY <1>1, <1>3, <2>1, <5>1, AloneGoesOn
        <5>3. QED
          BY <1>6, <2>1, <5>1, <5>2 DEF PayerInv
      <4>3. QED
        BY <4>1, <4>2
    <3>2. QED
      BY <2>2, <3>1 DEF DocFine, FinalOps, ConfirmOps
  <2>4. CASE NoneFailed'
    <3>1. NoneFailed
      BY <1>1, <2>4 DEF NoneFailed, Others
    <3>2. ~ Fails(r)
      BY <2>4 DEF NoneFailed, Fails
    <3>3. Cur(r).op # "CancelOrder"
      BY <1>2, <3>1 DEF NoneFailed, RollbackStep, Cur
    <3>4. QED
      BY <2>1, <2>2, <3>1, <3>2, <3>3 DEF PayerInv, DocFine
  <2>5. QED
    BY <1>9, <2>3, <2>4
<1>10. QED
  BY <1>8, <1>9 DEF PayerInv

\* The rollback of a payer parks the order.
LEMMA CompensatePayer ==
  ASSUME PayInv, LoneInv, RestInv, PayerInv, NEW r \in Requests, Compensate(r)
  PROVE  PayerInv'
<1>1. UndoesStep(r)
  BY CompensateIs
<1>2. /\ flow' = flow /\ timeUp' = timeUp /\ Others(r) /\ phase[r] = "abort" /\ pc[r] > 0
      /\ phase'[r] \in {"abort", "panic"} /\ failedAt'[r] = failedAt[r]
      /\ UndoDoc(r) /\ UndoMoney(r)
  BY <1>1 DEF UndoesStep, Undoes, UndoStep, Others
<1>3. SomeCharged' <=> SomeCharged
  BY <1>1 DEF UndoesStep, UndoStep, UndoMoney, SoundService, SomeCharged, Charged
<1>4. ~ NoneFailed'
  BY <1>2 DEF NoneFailed
<1>5. doc # NIL => doc' # NIL
  BY <1>2, NilAssumption DEF UndoDoc
<1>6. ASSUME NEW p \in Requests, Pays(p) PROVE Pays(p)'
  <2>1. CASE p # r
    BY <1>2, <1>6, <2>1, PaysSame DEF Others
  <2>2. CASE p = r
    <3>1. phase'[r] = "abort" => FailedFinally(r)'
      BY <1>2, <1>6, <2>2 DEF Pays, FailedFinally, FailedStep, Steps
    <3>2. QED
      BY <1>2, <1>6, <2>2, <3>1 DEF Pays
  <2>3. QED
    BY <2>1, <2>2
<1>7. ASSUME OnePayment', SomeCharged PROVE DocFine'
  <2>1. OnePayment
    BY <1>2, <1>7, OnePaymentWas
  <2>2. PICK p \in Requests : Pays(p)
    BY <1>7 DEF PayerInv
  <2>3. p = r
    BY <1>2, <2>1, <2>2, OnlyOne DEF Pays, Active
  <2>4. FailedFinally(r) /\ FinalRest(r)
    BY <1>2, <2>2, <2>3 DEF Pays, RestInv, ParksFinal
  <2>5. doc' # doc => doc'.status = "VERIFYING"
    BY <1>2, <2>4, FinalUndoes
  <2>6. QED
    BY <1>7, <2>1, <2>5 DEF PayerInv, DocFine
<1>8. QED
  BY <1>3, <1>4, <1>5, <1>6, <1>7 DEF PayerInv

-----------------------------------------------------------------------------
(* What stays on hold while somebody may still carry the order out.        *)

NoneReleased == \A t \in Requests : state[t] # "RELEASED"
OwnKept == \A r \in Requests : flow[r] \in OwnFlows /\ (Ahead(r) \/ Unknown(r)) => state[r] # "RELEASED"
OthersNone == \A r \in Requests : flow[r] \notin OwnFlows /\ Unknown(r) => state[r] = "NONE"

HoldInv ==
  /\ OnePayment /\ (NoneFailed \/ \E r \in Requests : Unknown(r)) => NoneReleased
  /\ OwnKept /\ OthersNone

\* A step that neither gives an amount back nor notes anything.
LEMMA HoldSame ==
  ASSUME HoldInv, flow' = flow, timeUp => timeUp', state' = state,
         \A r \in Requests : phase'[r] = phase[r] \/ phase[r] \in {"idle", "run", "abort"},
         \A r \in Requests : Ahead(r)' => Ahead(r), NoneFailed' => NoneFailed,
         \A r \in Requests : Unknown(r)' => Unknown(r)
  PROVE  HoldInv'
<1>1. OnePayment' => OnePayment
  BY OnePaymentWas
<1>2. OwnKept' /\ OthersNone'
  BY DEF HoldInv, OwnKept, OthersNone
<1>3. (OnePayment /\ (NoneFailed \/ \E r \in Requests : Unknown(r)) => NoneReleased)'
  BY <1>1 DEF HoldInv, NoneReleased
<1>4. QED
  BY <1>2, <1>3 DEF HoldInv

\* A request that begins gives nothing back.
LEMMA EnterHold ==
  ASSUME PayInv, RestInv, HoldInv, NEW r \in Requests, EnterStep(r)
  PROVE  HoldInv'
<1>1. flow' = flow /\ timeUp' = timeUp /\ state' = state /\ Others(r)
      /\ phase[r] = "idle" /\ phase'[r] \in {"run", "refused"}
  BY DEF EnterStep, Others
<1>2. \A q \in Requests : Unknown(q) => phase[q] \notin {"done", "idle"}
  BY DEF RestInv, UnknownRests, Rests
<1>3. \A q \in Requests : Unknown(q)' => Unknown(q)
  BY <1>1, <1>2 DEF Others, Unknown, EnterStep, EnterCopies
<1>4. NoneFailed' => NoneFailed
  BY <1>1 DEF NoneFailed, Others
<1>5. \A q \in Requests : Ahead(q)' => Ahead(q)
  BY <1>1 DEF Ahead, Others
<1>6. QED
  BY <1>1, <1>3, <1>4, <1>5, HoldSame DEF Others

\* Nor does one that ends.
LEMMA EndHold ==
  ASSUME PayInv, HoldInv, NEW r \in Requests, EndStep(r)
  PROVE  HoldInv'
<1>1. flow' = flow /\ timeUp' = timeUp /\ state' = state /\ flag' = flag /\ Others(r)
  BY DEF EndStep, Others
<1>2. phase[r] \in {"run", "abort"} /\ phase'[r] \in {"done", "failed"}
      /\ (phase'[r] = "done" => phase[r] = "run")
  BY DEF EndStep
<1>3. NoneFailed' => NoneFailed
  BY <1>1, <1>2 DEF NoneFailed, Others
<1>4. \A q \in Requests : Ahead(q)' => Ahead(q)
  BY <1>1, <1>2 DEF Ahead, Others
<1>5. \A q \in Requests : Unknown(q)' => Unknown(q)
  BY <1>1 DEF Unknown
<1>6. QED
  BY <1>1, <1>2, <1>3, <1>4, <1>5, HoldSame DEF Others

\* The job gives back what its order names, never a payment's own.
LEMMA AroundHold ==
  ASSUME PayInv, LoneInv, OwnInv, HoldInv, AroundStep
  PROVE  HoldInv'
<1>1. flow' = flow /\ (timeUp => timeUp') /\ flag' = flag
  BY DEF AroundStep
<1>2. NoneFailed' => NoneFailed
  BY DEF NoneFailed, AroundStep
<1>3. \A q \in Requests : (Ahead(q)' => Ahead(q)) /\ (Unknown(q)' => Unknown(q))
  BY <1>1 DEF Ahead, Unknown, AroundStep
<1>4. OnePayment' => OnePayment /\ \A t \in Requests : state'[t] = state[t]
  <2>1. OnePayment' => OnePayment /\ job.at = "idle"
    BY <1>1, OnePaymentWas DEF AroundStep, LoneInv, OnePayment
  <2>2. job.at = "idle" => \A t \in Requests : state'[t] = state[t]
    BY DEF AroundStep
  <2>3. QED
    BY <2>1, <2>2
<1>5. (OnePayment /\ (NoneFailed \/ \E r \in Requests : Unknown(r)) => NoneReleased)'
  BY <1>2, <1>3, <1>4 DEF HoldInv, NoneReleased
<1>6. OwnKept'
  BY <1>1, <1>3 DEF HoldInv, OwnKept, AroundStep, OwnInv, Own
<1>7. OthersNone'
  BY <1>1, <1>3 DEF HoldInv, OthersNone, AroundStep
<1>8. QED
  BY <1>5, <1>6, <1>7 DEF HoldInv

\* Who is told that the answer is unknown goes on alone, and has failed nothing.
LEMMA ExecuteHold ==
  ASSUME PayInv, LoneInv, RestInv, OwnInv, HoldInv, NEW r \in Requests, ExecuteStep(r)
  PROVE  HoldInv'
<1> USE NilAssumption
<1>1. /\ flow' = flow /\ timeUp' = timeUp /\ Others(r) /\ Runs(r) /\ phase[r] = "run"
      /\ phase'[r] \in {"run", "abort"} /\ (Advances(r) \/ Fails(r))
      /\ RunsMoney(r) /\ RunsFlag(r) /\ SoundService(r)
  BY DEF ExecuteStep, Others, RunStep, Runs, Advances, Fails
<1>2. /\ RollbackStep(flow[r], Steps(r), pc[r]) /\ OwnStep(flow[r], Steps(r), pc[r])
      /\ pc[r] \in 1 .. Len(Steps(r)) /\ Len(Steps(r)) \in Nat
  BY <1>1, RunFacts
<1>3. ~ Unknown(r)
  BY <1>1 DEF RestInv, UnknownRests, Rests
<1>4. Unknown(r)' => Cur(r).op \in AskOps /\ state' = state
  BY <1>1, <1>3 DEF RunsFlag, Unknown, AskOps
<1>5. Cur(r).op \in AskOps =>
        /\ flow[r] \notin TokenInit \cup {"OrderCancel"}
        /\ flow[r] \in OwnFlows \/ ~ Past(r, OpeningOps)
  BY <1>2 DEF RollbackStep, Cur, Past, Earlier
<1>6. \A q \in Requests \ {r} : (Unknown(q)' <=> Unknown(q)) /\ (Ahead(q)' <=> Ahead(q))
  BY <1>1 DEF Others, Unknown, Ahead
<1>7. Ahead(r)
  BY <1>1 DEF Ahead
<1>8. OwnKept'
  <2>1. SUFFICES ASSUME NEW q \in Requests, flow[q] \in OwnFlows, Ahead(q)' \/ Unknown(q)',
                        state[q] # "RELEASED", state'[q] = "RELEASED"
                 PROVE  FALSE
    BY <1>1, <1>6, <1>7 DEF HoldInv, OwnKept
  <2>2. Own(q)
    BY <2>1 DEF OwnInv
  <2>3. Cur(r).op = "FailUnpaid" => flow[r] \notin OwnFlows
    BY <1>2 DEF OwnStep, Cur
  <2>4. Cur(r).op = "CancelInitial" => flow[r] \notin OwnFlows
    BY <1>2 DEF RollbackStep, Cur, OwnFlows
  <2>5. q # r => TranOf(order[r]) # q /\ IdOf(trans[r]) # q
    BY <2>2 DEF Own
  <2>6. QED
    BY <1>1, <2>1, <2>3, <2>4, <2>5 DEF RunsMoney
<1>9. OthersNone'
  <2>1. SUFFICES ASSUME NEW q \in Requests, flow[q] \notin OwnFlows, Unknown(q)' PROVE state'[q] = "NONE"
    BY <1>1 DEF OthersNone
  <2>2. CASE q = r
    <3>1. state[r] = "NONE" /\ state' = state
      BY <1>4, <1>5, <1>7, <2>1, <2>2 DEF PayInv, OpensOnce
    <3>2. QED
      BY <2>2, <3>1
  <2>3. CASE q # r
    <3>1. state[q] = "NONE"
      BY <1>6, <2>1, <2>3 DEF HoldInv, OthersNone
    <3>2. QED
      BY <1>1, <2>3, <3>1 DEF SoundService
  <2>4. QED
    BY <2>2, <2>3
<1>10. ASSUME OnePayment', NoneFailed' \/ \E q \in Requests : Unknown(q)' PROVE NoneReleased'
  <2>1. OnePayment
    BY <1>1, <1>10, OnePaymentWas
  <2>2. CASE NoneFailed'
    <3>1. NoneFailed /\ ~ Fails(r)
      BY <1>1, <2>2 DEF NoneFailed, Others, Fails
    <3>2. Cur(r).op # "CancelInitial"
      BY <1>2, <3>1 DEF NoneFailed, RollbackStep, Cur
    <3>3. NoneReleased
      BY <2>1, <3>1 DEF HoldInv
    <3>4. QED
      BY <1>1, <3>1, <3>2, <3>3 DEF RunsMoney, NoneReleased
  <2>3. ASSUME NEW q \in Requests, Unknown(q)' PROVE NoneReleased'
    <3>1. CASE q = r
      <4>1. state' = state /\ flow[r] \notin TokenInit \cup {"OrderCancel"}
        BY <1>4, <1>5, <2>3, <3>1
      <4>2. NoneFailed
        BY <1>1, <2>1, <4>1, AloneGoesOn
      <4>3. QED
        BY <2>1, <4>1, <4>2 DEF HoldInv, NoneReleased
    <3>2. CASE q # r
      <4>1. Unknown(q)
        BY <1>6, <2>3, <3>2
      <4>2. phase[q] \notin {"idle", "refused"} /\ flow[q] \notin TokenInit
        BY <4>1 DEF RestInv, UnknownRests, Rests
      <4>3. r = q
        BY <1>1, <2>1, <4>2, OnlyOne DEF Active
      <4>4. QED
        BY <3>2, <4>3
    <3>3. QED
      BY <3>1, <3>2
  <2>4. QED
    BY <1>10, <2>2, <2>3
<1>11. QED
  BY <1>8, <1>9, <1>10 DEF HoldInv

\* A rollback after an unknown answer gives nothing back, and it goes on alone.
LEMMA CompensateHold ==
  ASSUME PayInv, LoneInv, RestInv, OwnInv, HoldInv, NEW r \in Requests, Compensate(r)
  PROVE  HoldInv'
<1> USE NilAssumption
<1>1. UndoesStep(r)
  BY CompensateIs
<1>2. /\ flow' = flow /\ timeUp' = timeUp /\ flag' = flag /\ Others(r) /\ phase[r] = "abort" /\ pc[r] > 0
      /\ phase'[r] \in {"abort", "panic"}
      /\ UndoMoney(r) /\ SoundService(r)
  BY <1>1 DEF UndoesStep, Undoes, UndoStep, Others
<1>3. Unknown(r) => state' = state
  BY <1>2, UnknownUndoes DEF RestInv, UnknownRests
<1>4. \A q \in Requests : (Unknown(q)' <=> Unknown(q)) /\ (Ahead(q)' => Ahead(q) /\ q # r)
  BY <1>2 DEF Others, Unknown, Ahead
<1>5. ~ NoneFailed'
  BY <1>2 DEF NoneFailed
<1>6. OwnKept'
  <2>1. SUFFICES ASSUME NEW q \in Requests, flow[q] \in OwnFlows, Ahead(q)' \/ Unknown(q)',
                        state[q] # "RELEASED", state'[q] = "RELEASED"
                 PROVE  FALSE
    BY <1>2, <1>4 DEF HoldInv, OwnKept
  <2>2. q # r => IdOf(trans[r]) # q
    BY <2>1 DEF OwnInv, Own
  <2>3. QED
    BY <1>2, <1>3, <1>4, <2>1, <2>2 DEF UndoMoney
<1>7. OthersNone'
  BY <1>2, <1>4 DEF HoldInv, OthersNone, SoundService, Runs
<1>8. ASSUME OnePayment', NEW q \in Requests, Unknown(q)' PROVE NoneReleased'
  <2>1. OnePayment /\ Unknown(q)
    BY <1>2, <1>4, <1>8, OnePaymentWas
  <2>2. phase[q] \notin {"idle", "refused"} /\ flow[q] \notin TokenInit
    BY <2>1 DEF RestInv, UnknownRests, Rests
  <2>3. r = q
    BY <1>2, <2>1, <2>2, OnlyOne DEF Active
  <2>4. QED
    BY <1>3, <2>1, <2>3 DEF HoldInv, NoneReleased
<1>9. QED
  BY <1>5, <1>6, <1>7, <1>8 DEF HoldInv

-----------------------------------------------------------------------------
(* The theorems about rollbacks.                                           *)

RollInv == LoneInv /\ RestInv /\ OwnInv /\ LixiInv /\ PayerInv /\ HoldInv

\* Before any request is made nobody rolls back.
LEMMA InitRollInv == Init => RollInv
<1> USE NilAssumption
<1>1. SUFFICES ASSUME Init PROVE RollInv
  OBVIOUS
<1>2. \A r \in Requests : /\ pc[r] = 1 /\ failedAt[r] = 0 /\ phase[r] = "idle" /\ order[r] = NIL
                          /\ trans[r] = NIL /\ flag[r] = "none" /\ state[r] = "NONE"
  BY <1>1 DEF Init
<1>3. job.at = "idle" /\ job.read = NIL
  BY <1>1 DEF Init
<1>4. doc = NIL \/ (doc.tran = NIL /\ doc.status = "PENDING")
  BY <1>1 DEF Init, NewOrder
<1>5. LoneInv /\ RestInv
  BY <1>2, <1>3 DEF LoneInv, RestInv, ParksFinal, UnknownRests, FailedFinally, Unknown
<1>6. OwnInv
  BY <1>2, <1>3, <1>4 DEF OwnInv, Own, TranOf, IdOf
<1>7. LixiInv
  BY <1>2 DEF LixiInv, LixiCharged, Charged
<1>8. PayerInv /\ HoldInv
  BY <1>2, <1>4 DEF PayerInv, HoldInv, SomeCharged, Charged, DocFine, NoneReleased, OwnKept,
     OthersNone, Unknown
<1>9. QED
  BY <1>5, <1>6, <1>7, <1>8 DEF RollInv

\* Every step keeps it.
LEMMA NextKeepsRollInv == PayInv /\ RollInv /\ [Next]_vars => RollInv'
<1>1. SUFFICES ASSUME PayInv, RollInv, [Next]_vars PROVE RollInv'
  OBVIOUS
<1>2. LoneInv /\ RestInv /\ OwnInv /\ LixiInv /\ PayerInv /\ HoldInv
  BY <1>1 DEF RollInv
<1>3. ASSUME NEW r \in Requests, Begin(r) \/ BeginByPass(r)
      PROVE  RollInv'
  <2>1. EnterStep(r)
    BY <1>1, <1>3, BeginIsEnter
  <2>2. QED
    BY <1>1, <1>2, <2>1, LoneKept, EnterRests, EnterOwn, EnterLixi, EnterPayer,
       EnterHold DEF RollInv
<1>4. ASSUME NEW r \in Requests, Execute(r)
      PROVE  RollInv'
  <2>1. ExecuteStep(r)
    BY <1>1, <1>4, ExecuteIs
  <2>2. QED
    BY <1>1, <1>2, <2>1, LoneKept, ExecuteRests, ExecuteOwn, ExecuteLixi, ExecutePayer, ExecuteHold
       DEF RollInv
<1>5. ASSUME NEW r \in Requests, Compensate(r)
      PROVE  RollInv'
  <2>1. UndoesStep(r)
    BY <1>1, <1>5, CompensateIs
  <2>2. QED
    BY <1>1, <1>2, <1>5, <2>1, LoneKept, CompensateRests, UndoOwn, UndoLixi, CompensatePayer,
       CompensateHold DEF RollInv
<1>6. ASSUME NEW r \in Requests, Return(r)
      PROVE  RollInv'
  <2>1. EndStep(r)
    BY <1>1, <1>6, ReturnIsEnd
  <2>2. QED
    BY <1>1, <1>2, <2>1, LoneKept, EndRests, EndOwn, EndLixi, EndPayer, EndHold DEF RollInv
<1>7. CASE \/ Tick \/ JobRead \/ (\E outcome \in RepairOutcomes : JobFail(outcome))
           \/ JobCancel \/ Crash \/ UNCHANGED vars
  <2>1. AroundStep
    BY <1>1, <1>7, AroundIsAround
  <2>2. QED
    BY <1>1, <1>2, <2>1, LoneKept, AroundRests, AroundOwn, AroundLixi, AroundPayer, AroundHold
       DEF RollInv
<1>8. QED
  BY <1>1, <1>3, <1>4, <1>5, <1>6, <1>7 DEF Next, Work, Quiescent

\* The two invariants together.
LEMMA RollbackInvariant == Spec => [](PayInv /\ RollInv)
<1>1. Init => PayInv /\ RollInv
  BY InitPayInv, InitRollInv
<1>2. PayInv /\ RollInv /\ [Next]_vars => (PayInv /\ RollInv)'
  BY NextKeepsPayInv, NextKeepsRollInv
<1>3. QED
  BY <1>1, <1>2, PTL DEF Spec

\* ChargedNeverFailed: an order paid for, by a payment that no other disturbs, is never
\* failed or cancelled: a failed settlement parks it and the later compensations see
\* that, or the rollback panics before it gets to them.
THEOREM PaidOrdersStand == Spec => []ChargedNeverFailed
<1>1. PayInv /\ RollInv => ChargedNeverFailed
  BY DEF RollInv, PayerInv, DocFine, SomeCharged, ChargedNeverFailed
<1>2. QED
  BY <1>1, RollbackInvariant, PTL

\* LixiErrorIsUnpaid: an error of LixiOrchestrator means that the user was not paid;
\* where it might have been, the nil transaction makes the rollback panic first.
THEOREM LixiFailsUnpaid == Spec => []LixiErrorIsUnpaid
<1>1. PayInv /\ RollInv => LixiErrorIsUnpaid
  BY DEF RollInv, LixiInv, LixiCharged, LixiErrorIsUnpaid, Settled
<1>2. QED
  BY <1>1, RollbackInvariant, PTL

\* UnknownKeepsHold: while the provider or the bank may still carry the order out no
\* compensation, job or cancel gives the amount back.
THEOREM UnknownStaysOnHold == Spec => []UnknownKeepsHold
<1>1. PayInv /\ RollInv => UnknownKeepsHold
  <2>1. SUFFICES ASSUME PayInv, RollInv, NEW r \in Requests, Unknown(r),
                        Payment(r) = r \/ (OnePayment /\ Payment(r) # NIL)
                 PROVE  state[Payment(r)] # "RELEASED"
    BY DEF UnknownKeepsHold, Unknown
  <2>2. CASE Payment(r) = r
    BY <2>1, <2>2 DEF RollInv, HoldInv, OwnKept, OthersNone
  <2>3. CASE OnePayment /\ Payment(r) # NIL
    <3>1. Payment(r) \in Requests
      BY <2>1, <2>3 DEF Payment, PayInv, Typed, Orders
    <3>2. QED
      BY <2>1, <2>3, <3>1 DEF RollInv, HoldInv, NoneReleased
  <2>4. QED
    BY <2>1, <2>2, <2>3
<1>2. QED
  BY <1>1, RollbackInvariant, PTL

-----------------------------------------------------------------------------
(* What compensations that succeed leave behind an unknown answer.         *)

OpenCopy(o) == o = NIL \/ o.status \notin {"VERIFYING", "FAILED"}
Verifying(o) == o # NIL /\ o.status = "VERIFYING"

\* Nobody takes up an order that is closed: the only copies of one are those of
\* the rollback that closed it.
Fresh(r) ==
  \/ OpenCopy(order[r])
  \/ phase[r] \in {"failed", "panic", "crashed"}
  \/ phase[r] = "abort" /\ (pc[r] < failedAt[r] \/ FailedStep(r) = "FailUnpaid")

\* The rollback has begun to compensate, and an unknown answer has been parked.
Rolled(r) == phase[r] = "failed" \/ (phase[r] = "abort" /\ pc[r] < failedAt[r])

CopyInv == \A r \in Requests : Fresh(r) /\ (Unknown(r) /\ Rolled(r) => Verifying(order[r]))

\* The copy a step leaves is open if the one before it was.
LEMMA ExecuteCopies ==
  ASSUME PayInv, NEW r \in Requests, Execute(r), OpenCopy(order[r])
  PROVE  OpenCopy(order'[r]) \/ (Fails(r) /\ Cur(r).op = "FailUnpaid")
<1> USE NilAssumption
<1>1. order \in [Requests -> Orders \cup {NIL}]
  BY DEF PayInv, Typed
<1>2. ASSUME NEW entity, NEW outcome, StepWrites(r, entity, outcome), entity.status \notin {"VERIFYING", "FAILED"}
      PROVE  OpenCopy(order'[r])
  BY <1>1, <1>2 DEF StepWrites, OpenCopy
<1>3. CASE order' = order
  BY <1>3
<1>4. CASE FindOrder(r)
  BY <1>1, <1>4 DEF FindOrder, GetValidOrder, OpenCopy
<1>5. CASE InitOrder(r)
  BY <1>2, <1>5 DEF InitOrder, NewOrder
<1>7. \A status : order[r] \in Orders => [order[r] EXCEPT !.status = status].status = status
  BY DEF Orders
<1>8. CASE ProcessingOrder(r)
  <2>1. order[r] \in Orders
    BY <1>1, <1>8, IsReady DEF ProcessingOrder, AtStep, Runs, Ready, NeedsOrder
  <2>2. [order[r] EXCEPT !.status = "PROCESSING"].status = "PROCESSING"
    BY <1>7, <2>1
  <2>3. QED
    BY <1>1, <1>2, <1>8, <2>2 DEF ProcessingOrder, OpenCopy
<1>9. CASE CancelOrder(r)
  <2>1. order[r] \in Orders
    BY <1>1, <1>9, IsReady DEF CancelOrder, AtStep, Runs, Ready, NeedsOrder
  <2>2. [order[r] EXCEPT !.status = "CANCEL"].status = "CANCEL"
    BY <1>7, <2>1
  <2>3. QED
    BY <1>2, <1>9, <2>2 DEF CancelOrder
<1>10. CASE SuccessOrder(r)
  <2>1. order[r] \in Orders
    BY <1>1, <1>10, IsReady DEF SuccessOrder, AtStep, Runs, Ready, NeedsOrder
  <2>2. [Linked(r) EXCEPT !.status = "SUCCESS"].status = "SUCCESS"
    BY <2>1 DEF Linked, Orders
  <2>3. QED
    BY <1>2, <1>10, <2>2 DEF SuccessOrder
<1>11. CASE ConfirmTrans(r)
  <2>1. order[r] \in Orders
    BY <1>1, <1>11, IsReady DEF ConfirmTrans, AtStep, Runs, Ready, NeedsOrder
  <2>2. order'[r] = Linked(r) /\ Linked(r).status = order[r].status
    BY <1>1, <1>11, <2>1 DEF ConfirmTrans, Linked, Orders
  <2>3. QED
    BY <2>1, <2>2 DEF OpenCopy
<1>12. CASE InitPayment(r)
  <2>1. order[r] \in Orders
    BY <1>1, <1>12, IsReady DEF InitPayment, AtStep, Runs, Ready, NeedsOrder
  <2>2. order'[r] = order[r] \/ order'[r].status = order[r].status
    BY <1>1, <1>12, <2>1 DEF InitPayment, Orders
  <2>3. QED
    BY <2>1, <2>2 DEF OpenCopy
<1>13. CASE FailUnpaid(r)
  <2>1. order' = order \/ StepFails(r)
    BY <1>13 DEF FailUnpaid
  <2>2. Runs(r) /\ Cur(r).op = "FailUnpaid"
    BY <1>13 DEF FailUnpaid, AtStep, Runs
  <2>3. StepFails(r) => Fails(r)
    BY <2>2 DEF StepFails, Fails, PayInv, Typed
  <2>4. QED
    BY <2>1, <2>2, <2>3
<1>14. \/ FindTransaction(r) \/ Check(r) \/ AccountVoucher(r) \/ SkipStep(r) \/ CallProvider(r)
       \/ CallTransfer(r) \/ CashInRequest(r) \/ CashInBankGW(r) \/ VerifyOtp(r) \/ CancelInitial(r)
       => order' = order
  BY DEF FindTransaction, Check, AccountVoucher, SkipStep, CallProvider, CallTransfer,
     CashInRequest, CashInBankGW, VerifyOtp, CancelInitial, copies
<1>15. QED
  BY <1>3, <1>4, <1>5, <1>8, <1>9, <1>10, <1>11, <1>12, <1>13, <1>14 DEF Execute

\* A request that takes no step keeps its copy.
LEMMA CopySame ==
  ASSUME NEW q \in Requests, Fresh(q), Unknown(q) /\ Rolled(q) => Verifying(order[q]), flow' = flow,
         order'[q] = order[q], pc'[q] = pc[q], failedAt'[q] = failedAt[q], flag'[q] = flag[q],
         \/ phase'[q] = phase[q]
         \/ phase[q] = "run" /\ phase'[q] \in {"done", "crashed"}
         \/ phase[q] = "abort" /\ phase'[q] = "crashed"
         \/ phase[q] = "abort" /\ phase'[q] = "failed" /\ pc[q] < failedAt[q]
  PROVE  (Fresh(q) /\ (Unknown(q) /\ Rolled(q) => Verifying(order[q])))'
<1>1. FailedStep(q)' = FailedStep(q)
  BY DEF FailedStep, Steps
<1>2. Fresh(q)'
  BY <1>1 DEF Fresh, OpenCopy
<1>3. (Unknown(q) /\ Rolled(q) => Verifying(order[q]))'
  BY DEF Unknown, Rolled, Verifying
<1>4. QED
  BY <1>2, <1>3

\* A request that begins takes up the stored order if it is open, or the copy of
\* an InitPayByToken that went well.
LEMMA EnterCopy ==
  ASSUME PayInv, CopyInv, NEW r \in Requests, EnterStep(r)
  PROVE  CopyInv'
<1>1. \A p \in Requests : Fresh(p) /\ (Unknown(p) /\ Rolled(p) => Verifying(order[p]))
  BY DEF CopyInv
<1>2. ASSUME NEW q \in Requests, q # r
      PROVE  (Fresh(q) /\ (Unknown(q) /\ Rolled(q) => Verifying(order[q])))'
  BY <1>1, <1>2, CopySame DEF EnterStep, Others
<1>3. OpenCopy(order[r]) /\ \A p \in Requests : phase[p] = "done" => OpenCopy(order[p])
  BY <1>1 DEF Fresh, EnterStep
<1>4. OpenCopy(order'[r])
  BY <1>3 DEF EnterStep, EnterCopies, OpenCopy, GetValidOrder
<1>5. Fresh(r)' /\ ~ Rolled(r)'
  BY <1>4 DEF Fresh, OpenCopy, Rolled, EnterStep
<1>6. QED
  BY <1>2, <1>5 DEF CopyInv

\* A compensation that verifies the order does so, or panics.
LEMMA VerifyVerifies ==
  ASSUME PayInv, NEW r \in Requests, VerifyIfNot(r), OpenCopy(order[r])
  PROVE  \/ Panics(r)
         \/ Verifying(order'[r]) /\ ("err" \notin RepairOutcomes => Verifying(doc'))
<1> USE NilAssumption
<1>1. CASE order[r] = NIL
  BY <1>1 DEF VerifyIfNot, CompensationMoves
<1>2. CASE order[r] # NIL
  <2> DEFINE closed == [order[r] EXCEPT !.status = "VERIFYING"]
  <2>1. order[r] \in Orders
    BY <1>2 DEF PayInv, Typed
  <2>2. closed \in Orders /\ closed.status = "VERIFYING"
    BY <2>1, WithStatus DEF OrderStatus
  <2>3. order'[r] = closed /\ ("err" \notin RepairOutcomes => doc' = closed)
    BY <1>2 DEF VerifyIfNot, CompensationMoves, CompensationWrites, ClosesOrder, OpenCopy, PayInv, Typed
  <2> HIDE DEF closed
  <2>4. QED
    BY <2>2, <2>3 DEF Verifying
<1>3. QED
  BY <1>1, <1>2

\* The compensation of the step that got no answer.
LEMMA FirstVerifies ==
  ASSUME PayInv, NEW r \in Requests, Compensate(r), phase[r] = "abort", pc[r] > 0, pc[r] = failedAt[r],
         Unknown(r), Rests(r), OpenCopy(order[r])
  PROVE  \/ Panics(r)
         \/ Verifying(order'[r]) /\ ("err" \notin RepairOutcomes => Verifying(doc'))
<1>1. flag[r] \in {"pending", "verifying"}
  BY DEF Unknown
<1>2. \/ flag[r] = "pending" /\ Cur(r).comp = "UndoProvider"
      \/ flag[r] = "verifying" /\ Cur(r).comp \in {"UndoOtp", "UndoTokenOtp"}
  BY <1>1, RollbackFacts DEF Rests, FailedStep, RollbackStep, Cur
<1>3. TransIsNil(r) \/ ParkPending(r)
  BY <1>2 DEF Compensate, CompensateNone, CompensateOrder, CompensateVoucher, CancelPayment,
     UndoProvider, UndoOtp, AtUndoOtp, Park, AtComp
<1>4. QED
  BY <1>3, VerifyVerifies DEF TransIsNil, ParkPending

\* The compensations before it see that it is parked.
LEMMA LaterKeeps ==
  ASSUME PayInv, NEW r \in Requests, Compensate(r), phase[r] = "abort", pc[r] > 0,
         Unknown(r), Rests(r), Verifying(order[r])
  PROVE  UNCHANGED <<doc, order>>
<1>1. flag[r] # "failed" /\ flag[r] \in {"pending", "verifying"}
  BY DEF Unknown
<1>2. /\ flag[r] = "verifying" => Cur(r).comp # "UndoProvider"
      /\ Cur(r).comp # "UndoCashIn"
  BY <1>1, RollbackFacts DEF Rests, FailedStep, RollbackStep, Cur, AskOps
<1>3. ASSUME NEW status, NEW skip, CompensationMoves(r, status, skip), "VERIFYING" \in skip
      PROVE  UNCHANGED <<doc, order>>
  BY <1>3 DEF CompensationMoves, Verifying
<1>4. FailIfOpen(r) \/ CancelIfOpen(r) \/ VerifyIfNot(r) => UNCHANGED <<doc, order>>
  BY <1>3 DEF FailIfOpen, CancelIfOpen, VerifyIfNot
<1>5. CASE CompensateNone(r)
  BY <1>5 DEF CompensateNone, copies
<1>6. CASE CompensateOrder(r)
  BY <1>2, <1>4, <1>6 DEF CompensateOrder, AtComp
<1>7. CASE CompensateVoucher(r)
  BY <1>4, <1>7 DEF CompensateVoucher
<1>8. CASE CancelPayment(r)
  BY <1>4, <1>8 DEF CancelPayment
<1>9. CASE UndoProvider(r)
  BY <1>1, <1>2, <1>4, <1>9 DEF UndoProvider, AtComp, TransIsNil, ParkPending
<1>10. CASE UndoOtp(r)
  BY <1>1, <1>4, <1>10 DEF UndoOtp, TransIsNil, ParkPending
<1>11. CASE Park(r)
  BY <1>4, <1>11 DEF Park, TransIsNil, ParkPending
<1>12. QED
  BY <1>5, <1>6, <1>7, <1>8, <1>9, <1>10, <1>11 DEF Compensate

\* The steps of a request.
LEMMA ExecuteCopy ==
  ASSUME PayInv, CopyInv, NEW r \in Requests, Execute(r)
  PROVE  CopyInv'
<1>1. \A p \in Requests : Fresh(p) /\ (Unknown(p) /\ Rolled(p) => Verifying(order[p]))
  BY DEF CopyInv
<1>2. ExecuteStep(r)
  BY ExecuteIs
<1>3. ASSUME NEW q \in Requests, q # r
      PROVE  (Fresh(q) /\ (Unknown(q) /\ Rolled(q) => Verifying(order[q])))'
  BY <1>1, <1>2, <1>3, CopySame DEF ExecuteStep, Others
<1>4. phase[r] = "run" /\ pc[r] \in Nat /\ (Advances(r) \/ Fails(r)) /\ Steps(r)' = Steps(r)
  BY <1>2 DEF ExecuteStep, RunStep, Runs, Others, Steps, PayInv, Typed
<1>5. OpenCopy(order'[r]) \/ (Fails(r) /\ Cur(r).op = "FailUnpaid")
  BY <1>1, <1>4, ExecuteCopies DEF Fresh
<1>6. Fresh(r)'
  <2>1. CASE OpenCopy(order'[r])
    BY <2>1 DEF Fresh, OpenCopy
  <2>2. CASE Fails(r) /\ Cur(r).op = "FailUnpaid"
    BY <1>4, <2>2 DEF Fresh, Fails, FailedStep, Cur
  <2>3. QED
    BY <1>5, <2>1, <2>2
<1>7. ~ Rolled(r)'
  BY <1>4 DEF Rolled, Advances, Fails
<1>8. QED
  BY <1>3, <1>6, <1>7 DEF CopyInv

\* A compensation leaves the copy closed, and after an unknown answer the first one
\* has parked it.
LEMMA CompensateCopy ==
  ASSUME PayInv, RestInv, CopyInv, NEW r \in Requests, Compensate(r)
  PROVE  CopyInv'
<1>1. \A p \in Requests : Fresh(p) /\ (Unknown(p) /\ Rolled(p) => Verifying(order[p]))
  BY DEF CopyInv
<1>2. UndoesStep(r)
  BY CompensateIs
<1>3. ASSUME NEW q \in Requests, q # r
      PROVE  (Fresh(q) /\ (Unknown(q) /\ Rolled(q) => Verifying(order[q])))'
  BY <1>1, <1>2, <1>3, CopySame DEF UndoesStep, Others
<1>4. Undoes(r) /\ flag' = flag /\ phase[r] = "abort" /\ pc[r] > 0
  BY <1>2 DEF UndoesStep, UndoStep, Undoes
<1>5. pc[r] <= failedAt[r] /\ pc[r] \in Nat /\ failedAt[r] \in Nat
  BY <1>4, RollbackFacts
<1>6. Fresh(r)'
  BY <1>4, <1>5 DEF Fresh, Undoes
<1>7. ASSUME Unknown(r)', Rolled(r)' PROVE Verifying(order'[r])
  <2>1. Unknown(r) /\ Rests(r)
    BY <1>4, <1>7 DEF Unknown, RestInv, UnknownRests
  <2>2. Panics(r) => phase'[r] = "panic"
    BY DEF Panics, PayInv, Typed
  <2>3. CASE pc[r] = failedAt[r]
    <3>1. FailedStep(r) # "FailUnpaid"
      BY <1>4, <2>1 DEF Rests
    <3>2. OpenCopy(order[r])
      BY <1>1, <1>4, <1>5, <2>3, <3>1 DEF Fresh
    <3>3. Panics(r) \/ Verifying(order'[r])
      BY <1>4, <2>1, <2>3, <3>2, FirstVerifies
    <3>4. QED
      BY <1>7, <2>2, <3>3 DEF Rolled
  <2>4. CASE pc[r] < failedAt[r]
    <3>1. Verifying(order[r])
      BY <1>1, <1>4, <2>1, <2>4 DEF Rolled
    <3>2. order' = order
      BY <1>4, <2>1, <3>1, LaterKeeps
    <3>3. QED
      BY <3>1, <3>2
  <2>5. QED
    BY <1>5, <2>3, <2>4
<1>8. QED
  BY <1>3, <1>6, <1>7 DEF CopyInv, Verifying

\* The end of a request, the job and a crash leave the copies alone.
LEMMA EndCopy ==
  ASSUME PayInv, CopyInv, (\E r \in Requests : EndStep(r)) \/ AroundStep
  PROVE  CopyInv'
<1>1. SUFFICES ASSUME NEW q \in Requests
               PROVE  (Fresh(q) /\ (Unknown(q) /\ Rolled(q) => Verifying(order[q])))'
  BY Zenon DEF CopyInv
<1>2. Fresh(q) /\ (Unknown(q) /\ Rolled(q) => Verifying(order[q]))
  BY DEF CopyInv
<1>3. phase[q] = "abort" => failedAt[q] > 0 /\ failedAt[q] \in Nat
  BY DEF PayInv, Typed, Control
<1>4. CASE AroundStep
  BY <1>2, <1>4, CopySame DEF AroundStep
<1>5. ASSUME NEW r \in Requests, EndStep(r)
      PROVE  (Fresh(q) /\ (Unknown(q) /\ Rolled(q) => Verifying(order[q])))'
  <2>1. CASE q = r
    BY <1>2, <1>3, <1>5, <2>1, CopySame DEF EndStep, Others
  <2>2. CASE q # r
    BY <1>2, <1>5, <2>2, CopySame DEF EndStep, Others
  <2>3. QED
    BY <2>1, <2>2
<1>6. QED
  BY <1>4, <1>5

-----------------------------------------------------------------------------
(* The order after an unknown answer.                                      *)

\* The compensation of the step that failed has parked the order, and nobody
\* touches it any more.
ParkedInv ==
  "err" \notin RepairOutcomes /\ OnePayment =>
    \A r \in Requests : Unknown(r) /\ Rolled(r) => Verifying(doc)

\* After an unknown answer, in a payment made alone, nobody else takes a step.
LEMMA ParkedAlone ==
  ASSUME LoneInv, RestInv, OnePayment, NEW r \in Requests, Unknown(r), NEW q \in Requests,
         EnterStep(q) \/ Active(q)
  PROVE  q = r
BY OnlyOne DEF RestInv, UnknownRests, Rests

\* Whoever gets no answer is about to park.
LEMMA ExecuteParked ==
  ASSUME PayInv, LoneInv, RestInv, ParkedInv, NEW r \in Requests, ExecuteStep(r)
  PROVE  ParkedInv'
<1>1. /\ flow' = flow /\ timeUp' = timeUp /\ Others(r) /\ Runs(r) /\ phase[r] = "run"
      /\ Advances(r) \/ Fails(r)
  BY DEF ExecuteStep, Others, RunStep, Runs, Advances, Fails
<1>2. SUFFICES ASSUME OnePayment', NEW q \in Requests, Unknown(q)', Rolled(q)' PROVE Verifying(doc')
  BY DEF ParkedInv
<1>3. OnePayment
  BY <1>1, <1>2, OnePaymentWas
<1>4. CASE q # r
  <2>1. Unknown(q)
    BY <1>1, <1>2, <1>4 DEF Others, Unknown
  <2>2. QED
    BY <1>1, <1>3, <1>4, <2>1, ParkedAlone DEF Active
<1>5. CASE q = r
  <2>1. pc[r] \in Nat
    BY DEF PayInv, Typed
  <2>2. QED
    BY <1>1, <1>2, <1>5, <2>1 DEF Rolled, Advances, Fails
<1>6. QED
  BY <1>4, <1>5

\* The first compensation after an unknown answer parks the order, the later ones
\* leave it.
LEMMA CompensateParked ==
  ASSUME PayInv, LoneInv, RestInv, CopyInv, ParkedInv, NEW r \in Requests, Compensate(r)
  PROVE  ParkedInv'
<1>1. UndoesStep(r)
  BY CompensateIs
<1>2. /\ flow' = flow /\ timeUp' = timeUp /\ flag' = flag /\ Others(r) /\ phase[r] = "abort" /\ pc[r] > 0
      /\ phase'[r] \in {"abort", "panic"}
  BY <1>1 DEF UndoesStep, Undoes, UndoStep, Others
<1>3. SUFFICES ASSUME "err" \notin RepairOutcomes, OnePayment', NEW q \in Requests, Unknown(q)', Rolled(q)'
               PROVE Verifying(doc')
  BY DEF ParkedInv
<1>4. OnePayment /\ Unknown(q)
  BY <1>2, <1>3, OnePaymentWas DEF Unknown
<1>5. q = r
  BY <1>2, <1>4, ParkedAlone DEF Active
<1>6. /\ Rests(r) /\ Fresh(r) /\ (Rolled(r) => Verifying(order[r]) /\ Verifying(doc))
  BY <1>3, <1>4, <1>5 DEF RestInv, UnknownRests, ParkedInv, CopyInv
<1>7. pc[r] <= failedAt[r] /\ pc[r] \in Nat /\ failedAt[r] \in Nat
  BY <1>2, RollbackFacts
<1>8. Panics(r) => phase'[r] = "panic"
  BY DEF Panics, PayInv, Typed
<1>9. Panics(r) \/ (Verifying(order'[r]) /\ Verifying(doc'))
  <2>1. CASE pc[r] = failedAt[r]
    <3>1. FailedStep(r) # "FailUnpaid"
      BY <1>2, <1>6 DEF Rests
    <3>2. OpenCopy(order[r])
      BY <1>2, <1>6, <1>7, <2>1, <3>1 DEF Fresh
    <3>3. QED
      BY <1>2, <1>3, <1>4, <1>5, <1>6, <2>1, <3>2, FirstVerifies
  <2>2. CASE pc[r] < failedAt[r]
    <3>1. Verifying(order[r]) /\ Verifying(doc)
      BY <1>2, <1>6, <2>2 DEF Rolled
    <3>2. UNCHANGED <<doc, order>>
      BY <1>2, <1>4, <1>5, <1>6, <3>1, LaterKeeps
    <3>3. QED
      BY <3>1, <3>2
  <2>3. QED
    BY <1>7, <2>1, <2>2
<1>10. QED
  BY <1>2, <1>3, <1>5, <1>8, <1>9 DEF Rolled, Verifying

\* Nobody begins while an order is parked in a payment made alone.
LEMMA EnterParked ==
  ASSUME LoneInv, RestInv, ParkedInv, NEW r \in Requests, EnterStep(r)
  PROVE  ParkedInv'
<1>1. flow' = flow /\ timeUp' = timeUp /\ Others(r)
  BY DEF EnterStep, Others
<1>2. SUFFICES ASSUME OnePayment', NEW q \in Requests, Unknown(q)', Rolled(q)' PROVE Verifying(doc')
  BY DEF ParkedInv
<1>3. OnePayment
  BY <1>1, <1>2, OnePaymentWas
<1>4. q = r
  <2>1. q # r => Unknown(q)
    BY <1>1, <1>2 DEF Others, Unknown
  <2>2. QED
    BY <1>3, <2>1, ParkedAlone
<1>5. QED
  BY <1>2, <1>4 DEF EnterStep, Rolled

\* A rollback that ends has compensated all its steps, so it has parked.
LEMMA EndParked ==
  ASSUME PayInv, LoneInv, RestInv, ParkedInv, NEW r \in Requests, EndStep(r)
  PROVE  ParkedInv'
<1>1. /\ flow' = flow /\ UNCHANGED <<pc, failedAt, order, flag, doc, timeUp>> /\ Others(r)
      /\ \/ phase[r] = "run" /\ phase'[r] = "done"
         \/ phase[r] = "abort" /\ phase'[r] = "failed" /\ pc[r] = 0
  BY DEF EndStep, Others
<1>2. SUFFICES ASSUME "err" \notin RepairOutcomes, OnePayment', NEW q \in Requests, Unknown(q)', Rolled(q)'
               PROVE Verifying(doc')
  BY DEF ParkedInv
<1>3. OnePayment /\ Unknown(q)
  BY <1>1, <1>2, OnePaymentWas DEF Unknown
<1>4. q = r
  BY <1>1, <1>2, <1>3, ParkedAlone DEF Active
<1>5. phase[r] = "abort" => failedAt[r] > 0
  BY DEF PayInv, Typed, Control
<1>6. Rolled(r)
  BY <1>1, <1>2, <1>4, <1>5 DEF Rolled
<1>7. QED
  BY <1>1, <1>2, <1>3, <1>4, <1>6 DEF ParkedInv, Verifying

\* The job does not meet a payment made alone.
LEMMA AroundParked ==
  ASSUME PayInv, LoneInv, ParkedInv, AroundStep
  PROVE  ParkedInv'
<1>1. flow' = flow /\ UNCHANGED <<pc, failedAt, order, flag>> /\ (timeUp => timeUp')
  BY DEF AroundStep
<1>2. OnePayment' => OnePayment /\ doc' = doc
  BY <1>1, OnePaymentWas DEF AroundStep, LoneInv, OnePayment
<1>3. ASSUME NEW r \in Requests, Unknown(r)', Rolled(r)' PROVE Unknown(r) /\ Rolled(r)
  BY <1>1, <1>3 DEF Rolled, Unknown, AroundStep
<1>4. QED
  BY <1>1, <1>2, <1>3 DEF ParkedInv, Verifying

-----------------------------------------------------------------------------
(* What compensations that succeed give back.                              *)

\* The transaction the request opened, which nothing has settled yet.
Mine(r) == trans[r] # NIL /\ trans[r].id = r /\ trans[r].status = "PROCESSING"

\* The reply to InitTransaction never came: there is no id to cancel.
Unopened(r) == trans[r] = NIL /\ FailedStep(r) \in OpeningOps

\* What keeps an amount on hold: the request is still at it, it cannot or must not
\* give it back, or the compensation that does is yet to come.
Held(r) ==
  /\ phase[r] = "run" => Mine(r)
  /\ phase[r] = "abort" =>
       FailedFinally(r) \/ Unknown(r) \/ Unopened(r) \/ (Mine(r) /\ Until(Steps(r), pc[r], {"CancelPayment"}))
  /\ phase[r] = "failed" => Verifying(order[r]) \/ Unopened(r)

HeldInv ==
  "err" \notin RepairOutcomes =>
    \A r \in Requests : flow[r] \notin LaterFlows /\ state[r] = "INITIAL" => Held(r)

\* An amount is put on hold by the request that holds it, which knows it by its
\* transaction unless the reply was lost.
LEMMA ExecuteOpens ==
  ASSUME PayInv, NEW r \in Requests, Execute(r),
         NEW t \in Requests, state'[t] = "INITIAL", state[t] # "INITIAL"
  PROVE  /\ t = r /\ Cur(r).op \in OpeningOps
         /\ (Advances(r) /\ Mine(r)') \/ (Fails(r) /\ trans'[r] = NIL)
<1> USE NilAssumption
<1>1. /\ state \in [Requests -> TransactionState] /\ trans \in [Requests -> Transactions \cup {NIL}]
  BY DEF PayInv, Typed
<1>2. CASE InitPayment(r)
  <2>1. Runs(r) /\ Cur(r).op \in OpeningOps
    BY <1>2 DEF InitPayment, AtStep, Runs, OpeningOps
  <2>2. PICK outcome \in StepOutcomes :
          /\ state' = IF outcome = "err" THEN state ELSE [state EXCEPT ![r] = "INITIAL"]
          /\ trans' = [trans EXCEPT ![r] = IF outcome = "ok"
                                           THEN [id |-> r, status |-> "PROCESSING"] ELSE NIL]
          /\ StepEnds(r, outcome)
    BY <1>2 DEF InitPayment, service
  <2>3. t = r
    BY <1>1, <2>2
  <2>4. CASE outcome = "ok"
    <3>1. trans'[r] = [id |-> r, status |-> "PROCESSING"] /\ Advances(r)
      BY <1>1, <2>1, <2>2, <2>4, EndIsSound
    <3>2. [id |-> r, status |-> "PROCESSING"] \in Transactions
      BY DEF Transactions, TransactionStatus
    <3>3. QED
      BY <2>1, <2>3, <3>1, <3>2 DEF Mine
  <2>5. CASE outcome # "ok"
    BY <1>1, <2>1, <2>2, <2>3, <2>5, EndIsSound
  <2>6. QED
    BY <2>4, <2>5
<1>3. CASE ConfirmTrans(r)
  <2>1. state' = state \/ state' = [state EXCEPT ![trans[r].id] = "APPLIED"]
    BY <1>3 DEF ConfirmTrans, service
  <2>2. QED
    BY <1>1, <2>1
<1>4. CASE CancelInitial(r)
  <2>1. UNCHANGED service \/ \E outcome : CancelEnds(order[r].tran, outcome)
    BY <1>4 DEF CancelInitial, CancelIfInitial
  <2>2. QED
    BY <2>1, CancelReleases DEF service
<1>5. CASE FailUnpaid(r)
  <2>1. UNCHANGED service \/ \E outcome : CancelEnds(trans[r].id, outcome)
    BY <1>5 DEF FailUnpaid
  <2>2. QED
    BY <2>1, CancelReleases DEF service
<1>6. \/ FindOrder(r) \/ FindTransaction(r) \/ Check(r) \/ InitOrder(r) \/ ProcessingOrder(r)
      \/ SuccessOrder(r) \/ CancelOrder(r) \/ AccountVoucher(r) \/ SkipStep(r) \/ CallProvider(r)
      \/ CallTransfer(r) \/ CashInRequest(r) \/ CashInBankGW(r) \/ VerifyOtp(r)
      => state' = state
  BY DEF FindOrder, FindTransaction, Check, InitOrder, ProcessingOrder, SuccessOrder, CancelOrder,
     AccountVoucher, SkipStep, CallProvider, CallTransfer, CashInRequest, CashInBankGW, VerifyOtp,
     service
<1>7. QED
  BY <1>2, <1>3, <1>4, <1>5, <1>6 DEF Execute

\* It keeps that transaction until it confirms it.
LEMMA ExecuteKeepsMine ==
  ASSUME PayInv, NEW r \in Requests, Execute(r), flow[r] \notin LaterFlows,
         Mine(r), state[r] = "INITIAL", state'[r] = "INITIAL"
  PROVE  trans'[r] = trans[r] \/ (Fails(r) /\ Cur(r).op \in FinalOps)
<1>1. /\ state \in [Requests -> TransactionState] /\ trans \in [Requests -> Transactions \cup {NIL}]
      /\ Runs(r) /\ phase[r] = "run"
  BY ExecuteIs DEF PayInv, Typed, ExecuteStep, RunStep, Runs
<1>2. Past(r, OpeningOps)
  BY <1>1 DEF PayInv, OpensOnce, Ahead
<1>3. Cur(r).op \notin OpeningOps
  BY <1>1, IsReady DEF Ready
<1>4. Cur(r).op # "FindTransaction"
  BY <1>1, <1>2, RunFacts DEF RepairStep, Past, Cur
<1>5. ~ FindTransaction(r) /\ ~ InitPayment(r)
  BY <1>3, <1>4 DEF FindTransaction, InitPayment, AtStep, OpeningOps
<1>6. CASE ConfirmTrans(r)
  <2>1. Cur(r).op \in FinalOps
    BY <1>6 DEF ConfirmTrans, AtStep, FinalOps, ConfirmOps
  <2>2. PICK outcome \in StepOutcomes :
          /\ state' = IF outcome = "err" THEN state ELSE [state EXCEPT ![r] = "APPLIED"]
          /\ StepEnds(r, outcome)
    BY <1>6 DEF ConfirmTrans, Mine
  <2>3. outcome = "err"
    BY <1>1, <2>2
  <2>4. Fails(r)
    BY <1>1, <2>2, <2>3, EndIsSound
  <2>5. QED
    BY <2>1, <2>4
<1>7. \/ FindOrder(r) \/ Check(r) \/ InitOrder(r) \/ ProcessingOrder(r) \/ SuccessOrder(r)
      \/ CancelOrder(r) \/ CancelInitial(r) \/ AccountVoucher(r) \/ SkipStep(r) \/ CallProvider(r)
      \/ CallTransfer(r) \/ CashInRequest(r) \/ CashInBankGW(r) \/ FailUnpaid(r) \/ VerifyOtp(r)
      => trans' = trans
  BY DEF FindOrder, Check, InitOrder, ProcessingOrder, SuccessOrder, CancelOrder, CancelInitial,
     AccountVoucher, SkipStep, CallProvider, CallTransfer, CashInRequest, CashInBankGW, FailUnpaid,
     VerifyOtp, copies
<1>8. QED
  BY <1>5, <1>6, <1>7 DEF Execute

\* No compensation puts anything on hold.
LEMMA CompensateOpens ==
  ASSUME PayInv, NEW r \in Requests, Compensate(r), NEW t \in Requests, state'[t] = "INITIAL"
  PROVE  state[t] = "INITIAL"
<1>1. CancelTransaction(r) => \E outcome : CancelEnds(trans[r].id, outcome)
  BY DEF CancelTransaction
<1>2. CancelTransaction(r) \/ state' = state
  BY DEF Compensate, CompensateNone, CompensateOrder, CompensateVoucher, CancelPayment,
     UndoProvider, UndoOtp, Park, TransIsNil, ParkPending, service
<1>3. QED
  BY <1>1, <1>2, CancelReleases

\* Nothing is known of a transaction whose reply was lost, and nothing will be.
LEMMA CompensateUnopened ==
  ASSUME PayInv, NEW r \in Requests, Compensate(r), phase[r] = "abort", Unopened(r)
  PROVE  trans'[r] = NIL \/ Panics(r)
<1>1. flag[r] # "failed"
  BY DEF PayInv, FailedOtp, Unopened, FailedStep, OpeningOps
<1>2. trans' = trans \/ TransIsNil(r)
  BY <1>1 DEF Unopened, Compensate, CompensateNone, CompensateOrder, CompensateVoucher,
     CancelPayment, UndoProvider, UndoOtp, Park, ParkPending, copies
<1>3. QED
  BY <1>2 DEF TransIsNil, Unopened

\* A call that cancels the transaction gives its amount back.
LEMMA CancelGivesBack ==
  ASSUME PayInv, NEW r \in Requests, "err" \notin RepairOutcomes, Mine(r), state[r] = "INITIAL",
         CancelTransaction(r)
  PROVE  state'[r] = "RELEASED"
BY NilAssumption DEF CancelTransaction, CancelEnds, Mine, PayInv, Typed

\* Any other transaction is cancelled on the way back.
LEMMA CompensateReleases ==
  ASSUME PayInv, NEW r \in Requests, Compensate(r), phase[r] = "abort", pc[r] > 0,
         "err" \notin RepairOutcomes, ~ FailedFinally(r), ~ Unknown(r), Mine(r), state'[r] = "INITIAL"
  PROVE  trans'[r] = trans[r] /\ Cur(r).comp # "CancelPayment"
<1>1. state[r] = "INITIAL"
  BY CompensateOpens
<1>2. ~ CancelTransaction(r)
  BY <1>1, CancelGivesBack
<1>3. flag[r] \notin {"pending", "verifying"} /\ trans[r] # NIL /\ trans[r].status = "PROCESSING"
  BY DEF Unknown, Mine
<1>4. Cur(r).comp \notin ParkComps
  <2>1. Cur(r).op \in FinalOps => FailedStep(r) \in FinalOps
    BY RollbackFacts DEF RollbackStep, Cur, FailedStep, Earlier
  <2>2. Cur(r).op \notin FinalOps
    BY <2>1 DEF FailedFinally
  <2>3. QED
    BY <2>2, RollbackFacts DEF RepairStep, Cur
<1>5. ~ CancelPayment(r) /\ ~ UndoProvider(r)
  BY <1>2, <1>3 DEF CancelPayment, UndoProvider, TransIsNil
<1>6. ~ Park(r)
  BY <1>4 DEF Park, AtComp, ParkComps
<1>7. CASE UndoOtp(r)
  BY <1>2, <1>3, <1>7 DEF UndoOtp, TransIsNil, AtUndoOtp, AtComp
<1>8. CASE CompensateNone(r) \/ CompensateOrder(r) \/ CompensateVoucher(r)
  BY <1>8 DEF CompensateNone, CompensateOrder, CompensateVoucher, AtComp, copies
<1>9. QED
  BY <1>5, <1>6, <1>7, <1>8 DEF Compensate

\* An amount held by a request that takes no step.
LEMMA HeldSame ==
  ASSUME NEW q \in Requests, Held(q), flow' = flow, order'[q] = order[q], trans'[q] = trans[q],
         pc'[q] = pc[q], failedAt'[q] = failedAt[q], flag'[q] = flag[q],
         phase'[q] = phase[q] \/ phase'[q] \in {"done", "crashed"}
  PROVE  Held(q)'
<1>1. FailedStep(q)' = FailedStep(q) /\ Steps(q)' = Steps(q)
  BY DEF FailedStep, Steps
<1>2. Mine(q)' = Mine(q) /\ Unopened(q)' = Unopened(q) /\ Unknown(q)' = Unknown(q)
      /\ Verifying(order[q])' = Verifying(order[q])
  BY <1>1 DEF Mine, Unopened, Unknown, Verifying
<1>3. Until(Steps(q), pc[q], {"CancelPayment"})' = Until(Steps(q), pc[q], {"CancelPayment"})
  BY <1>1
<1>4. phase'[q] = "abort" => FailedFinally(q)' = FailedFinally(q)
  BY <1>1 DEF FailedFinally
<1>5. QED
  BY <1>2, <1>3, <1>4 DEF Held

\* A step of request r that leaves the money of the others alone.
LEMMA HeldOthers ==
  ASSUME HeldInv, NEW r \in Requests, Others(r),
         \A t \in Requests \ {r} : state'[t] = "INITIAL" => state[t] = "INITIAL",
         "err" \notin RepairOutcomes /\ flow[r] \notin LaterFlows /\ state'[r] = "INITIAL" => Held(r)'
  PROVE  HeldInv'
<1>1. SUFFICES ASSUME "err" \notin RepairOutcomes, NEW q \in Requests, q # r,
                      flow[q] \notin LaterFlows, state'[q] = "INITIAL"
               PROVE  Held(q)'
  BY DEF HeldInv, Others
<1>2. Held(q)
  BY <1>1 DEF HeldInv
<1>3. QED
  BY <1>1, <1>2, HeldSame DEF Others

\* A request that begins has nothing on hold.
LEMMA EnterHeld ==
  ASSUME PayInv, HeldInv, NEW r \in Requests, EnterStep(r)
  PROVE  HeldInv'
<1>1. state[r] = "NONE"
  <2>1. phase[r] = "idle" /\ pc[r] = 1
    BY DEF EnterStep, PayInv, Control
  <2>2. ~ Past(r, OpeningOps)
    BY <2>1 DEF Past, Earlier
  <2>3. QED
    BY <2>1, <2>2 DEF PayInv, OpensOnce, Ahead
<1>2. QED
  BY <1>1, HeldOthers DEF EnterStep

\* A step opens the transaction, or keeps the copy of it until something is settled.
LEMMA ExecuteHeld ==
  ASSUME PayInv, HeldInv, NEW r \in Requests, Execute(r)
  PROVE  HeldInv'
<1>1. ExecuteStep(r)
  BY ExecuteIs
<1>2. Others(r) /\ flow' = flow /\ Runs(r) /\ phase[r] = "run" /\ Steps(r)' = Steps(r)
      /\ (Advances(r) \/ Fails(r))
  BY <1>1 DEF ExecuteStep, RunStep, Runs, Others, Steps
<1>3. Fails(r) => FailedStep(r)' = Cur(r).op
  BY <1>2 DEF Fails, FailedStep, Cur
<1>4. ASSUME "err" \notin RepairOutcomes, flow[r] \notin LaterFlows, state'[r] = "INITIAL"
      PROVE  Held(r)'
  <2>1. CASE state[r] # "INITIAL"
    <3>1. /\ Cur(r).op \in OpeningOps
          /\ (Advances(r) /\ Mine(r)') \/ (Fails(r) /\ trans'[r] = NIL)
      BY <1>4, <2>1, ExecuteOpens
    <3>2. CASE Advances(r) /\ Mine(r)'
      BY <3>2 DEF Held, Advances
    <3>3. CASE Fails(r) /\ trans'[r] = NIL
      BY <1>3, <3>1, <3>3 DEF Held, Fails, Unopened
    <3>4. QED
      BY <3>1, <3>2, <3>3
  <2>2. CASE state[r] = "INITIAL"
    <3>1. Mine(r)
      BY <1>2, <1>4, <2>2 DEF HeldInv, Held
    <3>2. CASE Fails(r) /\ Cur(r).op \in FinalOps
      BY <1>3, <3>2 DEF Held, Fails, FailedFinally
    <3>3. CASE trans'[r] = trans[r]
      <4>1. Mine(r)'
        BY <3>1, <3>3 DEF Mine
      <4>2. CASE Advances(r)
        BY <4>1, <4>2 DEF Held, Advances
      <4>3. CASE Fails(r)
        <5>1. Past(r, OpeningOps)
          BY <1>2, <2>2 DEF PayInv, OpensOnce, Ahead
        <5>2. Until(Steps(r), pc[r], {"CancelPayment"})
          BY <1>2, <1>4, <5>1, RunFacts DEF RepairStep, Past
        <5>3. Until(Steps(r), pc[r], {"CancelPayment"})'
          BY <1>2, <4>3, <5>2 DEF Fails
        <5>4. QED
          BY <4>1, <4>3, <5>3 DEF Held, Fails
      <4>4. QED
        BY <1>2, <4>2, <4>3
    <3>4. QED
      BY <1>4, <2>2, <3>1, <3>2, <3>3, ExecuteKeepsMine
  <2>3. QED
    BY <2>1, <2>2
<1>5. \A t \in Requests \ {r} : state'[t] = "INITIAL" => state[t] = "INITIAL"
  BY ExecuteOpens
<1>6. QED
  BY <1>2, <1>4, <1>5, HeldOthers

\* A compensation gives the amount back, or one that does is yet to come.
LEMMA CompensateHeld ==
  ASSUME PayInv, HeldInv, NEW r \in Requests, Compensate(r)
  PROVE  HeldInv'
<1>1. UndoesStep(r)
  BY CompensateIs
<1>2. Others(r) /\ flow' = flow /\ flag' = flag /\ phase[r] = "abort" /\ pc[r] > 0 /\ Steps(r)' = Steps(r)
      /\ failedAt'[r] = failedAt[r]
      /\ \/ phase'[r] = "abort" /\ pc'[r] = pc[r] - 1
         \/ phase'[r] = "panic"
  BY <1>1 DEF UndoesStep, UndoStep, Undoes, Others, Steps
<1>3. FailedStep(r)' = FailedStep(r)
  BY <1>2 DEF FailedStep
<1>4. \A t \in Requests : state'[t] = "INITIAL" => state[t] = "INITIAL"
  BY CompensateOpens
<1>5. ASSUME "err" \notin RepairOutcomes, flow[r] \notin LaterFlows, state'[r] = "INITIAL"
      PROVE  Held(r)'
  <2>1. CASE phase'[r] = "panic"
    BY <2>1 DEF Held
  <2>2. CASE phase'[r] = "abort" /\ pc'[r] = pc[r] - 1
    <3>1. FailedFinally(r)' = FailedFinally(r) /\ Unknown(r)' = Unknown(r)
      BY <1>2, <1>3, <2>2 DEF FailedFinally, Unknown
    <3>2. \/ FailedFinally(r) \/ Unknown(r) \/ Unopened(r)
          \/ Mine(r) /\ Until(Steps(r), pc[r], {"CancelPayment"})
      BY <1>2, <1>4, <1>5 DEF HeldInv, Held
    <3>3. CASE FailedFinally(r) \/ Unknown(r)
      BY <2>2, <3>1, <3>3 DEF Held
    <3>4. CASE Unopened(r)
      <4>1. ~ Panics(r)
        BY <2>2 DEF Panics, PayInv, Typed
      <4>2. Unopened(r)'
        BY <1>2, <1>3, <3>4, <4>1, CompensateUnopened DEF Unopened
      <4>3. QED
        BY <2>2, <4>2 DEF Held
    <3>5. CASE /\ ~ FailedFinally(r) /\ ~ Unknown(r)
               /\ Mine(r) /\ Until(Steps(r), pc[r], {"CancelPayment"})
      <4>1. trans'[r] = trans[r] /\ Cur(r).comp # "CancelPayment"
        BY <1>2, <1>5, <3>5, CompensateReleases
      <4>2. pc[r] \in Nat
        BY DEF PayInv, Typed
      <4>3. Until(Steps(r), pc[r] - 1, {"CancelPayment"})
        BY <1>2, <3>5, <4>1, <4>2 DEF Until, Cur
      <4>4. Until(Steps(r), pc[r], {"CancelPayment"})'
        BY <1>2, <2>2, <4>3
      <4>5. Mine(r)'
        BY <3>5, <4>1 DEF Mine
      <4>6. QED
        BY <2>2, <4>4, <4>5 DEF Held
    <3>6. QED
      BY <3>2, <3>3, <3>4, <3>5
  <2>3. QED
    BY <1>2, <2>1, <2>2
<1>6. QED
  BY <1>2, <1>4, <1>5, HeldOthers

\* When a rollback ends no compensation is yet to come.
LEMMA EndHeld ==
  ASSUME PayInv, RestInv, CopyInv, HeldInv, NEW r \in Requests, EndStep(r)
  PROVE  HeldInv'
<1>1. Others(r) /\ flow' = flow /\ UNCHANGED <<pc, failedAt, order, trans, flag, state>>
  BY DEF EndStep, Others
<1>2. ASSUME "err" \notin RepairOutcomes, flow[r] \notin LaterFlows, state'[r] = "INITIAL"
      PROVE  Held(r)'
  <2>1. Held(r)
    BY <1>1, <1>2 DEF HeldInv
  <2>2. CASE phase'[r] = "done"
    BY <2>2 DEF Held
  <2>3. CASE phase[r] = "abort" /\ phase'[r] = "failed" /\ pc[r] = 0
    <3>1. failedAt[r] > 0 /\ Rolled(r)
      BY <2>3 DEF PayInv, Typed, Control, Rolled
    <3>2. ~ Until(Steps(r), pc[r], {"CancelPayment"})
      BY <2>3 DEF Until
    <3>3. Unknown(r) => Verifying(order[r])
      BY <3>1 DEF CopyInv
    <3>4. FailedFinally(r) => Verifying(order[r])
      BY <2>3, <3>1 DEF RestInv, ParksFinal, FinalRest, Verifying
    <3>5. Verifying(order[r]) \/ Unopened(r)
      BY <2>1, <2>3, <3>2, <3>3, <3>4 DEF Held
    <3>6. (Verifying(order[r]) \/ Unopened(r))'
      BY <1>1, <3>5 DEF Verifying, Unopened, FailedStep, Steps
    <3>7. QED
      BY <2>3, <3>6 DEF Held
  <2>4. QED
    BY <2>2, <2>3 DEF EndStep
<1>3. QED
  BY <1>1, <1>2, HeldOthers

\* The job and a crash put nothing on hold.
LEMMA AroundHeld ==
  ASSUME HeldInv, AroundStep
  PROVE  HeldInv'
<1>1. SUFFICES ASSUME "err" \notin RepairOutcomes, NEW q \in Requests, flow[q] \notin LaterFlows,
                      state'[q] = "INITIAL"
               PROVE  Held(q)'
  BY DEF HeldInv, AroundStep
<1>2. Held(q)
  BY <1>1 DEF HeldInv, AroundStep
<1>3. QED
  BY <1>1, <1>2, HeldSame DEF AroundStep

-----------------------------------------------------------------------------
(* What compensations that succeed leave of the order.                     *)

Shut(o) == o # NIL /\ o.status \in {"VERIFYING", "FAILED"}

\* There was no order to close: it was not there yet, or its insert failed.
Unmade(r) == doc = NIL \/ FailedStep(r) = "InitOrder"

\* The order is closed, or the compensation that closes it is yet to come.
Shuts(r) ==
  /\ phase[r] = "abort" =>
       \/ Unmade(r)
       \/ Shut(doc) /\ Shut(order[r])
       \/ OpenCopy(order[r]) /\ Until(Steps(r), pc[r], Closers)
  /\ phase[r] = "failed" => Unmade(r) \/ Shut(doc)

ShutInv ==
  "err" \notin RepairOutcomes /\ OnePayment =>
    \A r \in Requests : flow[r] \notin Unclosed => Shuts(r)

\* The order part of a compensation whose calls succeed.
LEMMA MoveShuts ==
  ASSUME PayInv, "err" \notin RepairOutcomes, NEW r \in Requests,
         NEW status \in {"FAILED", "VERIFYING"}, NEW skip, skip \subseteq {"VERIFYING", "FAILED"},
         CompensationMoves(r, status, skip)
  PROVE  \/ Panics(r)
         \/ UNCHANGED <<doc, order>> /\ Shut(order[r])
         \/ Shut(doc') /\ Shut(order'[r])
<1> USE NilAssumption
<1>1. CASE order[r] = NIL
  BY <1>1 DEF CompensationMoves
<1>2. CASE order[r] # NIL /\ order[r].status \in skip
  BY <1>2 DEF CompensationMoves, Shut
<1>3. CASE order[r] # NIL /\ order[r].status \notin skip
  <2> DEFINE closed == [order[r] EXCEPT !.status = status]
  <2>1. order[r] \in Orders
    BY <1>3 DEF PayInv, Typed
  <2>2. closed \in Orders /\ closed.status = status
    <3>1. status \in OrderStatus
      BY DEF OrderStatus
    <3>2. QED
      BY <2>1, <3>1, WithStatus, Zenon
  <2>3. order'[r] = closed /\ doc' = closed
    BY <1>3 DEF CompensationMoves, CompensationWrites, ClosesOrder, PayInv, Typed
  <2> HIDE DEF closed
  <2>4. QED
    BY <2>2, <2>3 DEF Shut
<1>4. QED
  BY <1>1, <1>2, <1>3

\* CancelOpen cancels an open order; the compensations before it fail it.
LEMMA CancelShuts ==
  ASSUME PayInv, NEW r \in Requests, CancelIfOpen(r)
  PROVE  \/ Panics(r)
         \/ UNCHANGED <<doc, order>>
         \/ OpenCopy(order[r]) /\ OpenCopy(order'[r])
<1> USE NilAssumption
<1>1. CASE order[r] = NIL \/ order[r].status \in {"VERIFYING", "FAILED"}
  BY <1>1 DEF CancelIfOpen, CompensationMoves
<1>2. CASE order[r] # NIL /\ order[r].status \notin {"VERIFYING", "FAILED"}
  <2> DEFINE closed == [order[r] EXCEPT !.status = "CANCEL"]
  <2>1. order[r] \in Orders
    BY <1>2 DEF PayInv, Typed
  <2>2. closed.status = "CANCEL"
    BY <2>1, WithStatus DEF OrderStatus
  <2>3. order'[r] = closed
    BY <1>2 DEF CancelIfOpen, CompensationMoves, CompensationWrites, ClosesOrder, PayInv, Typed
  <2> HIDE DEF closed
  <2>4. QED
    BY <1>2, <2>2, <2>3 DEF OpenCopy
<1>3. QED
  BY <1>1, <1>2

\* A compensation closes the order, or finds it closed, or is none of those that
\* close it.
LEMMA CompensateShuts ==
  ASSUME PayInv, "err" \notin RepairOutcomes, NEW r \in Requests, Compensate(r)
  PROVE  \/ Panics(r)
         \/ UNCHANGED <<doc, order>> /\ (Shut(order[r]) \/ Cur(r).comp \notin Closers)
         \/ Shut(doc') /\ Shut(order'[r])
         \/ OpenCopy(order[r]) /\ OpenCopy(order'[r]) /\ Cur(r).comp \notin Closers
<1>1. FailIfOpen(r) \/ FailAlways(r) \/ VerifyIfNot(r) =>
        \/ Panics(r)
        \/ UNCHANGED <<doc, order>> /\ Shut(order[r])
        \/ Shut(doc') /\ Shut(order'[r])
  BY MoveShuts DEF FailIfOpen, FailAlways, VerifyIfNot
<1>2. CASE CompensateNone(r)
  BY <1>2 DEF CompensateNone, AtComp, Closers, copies
<1>3. CASE CompensateOrder(r)
  <2>1. CASE AtComp(r, "CancelOpen") /\ CancelIfOpen(r)
    BY <2>1, CancelShuts DEF AtComp, Closers
  <2>2. QED
    BY <1>1, <1>3, <2>1 DEF CompensateOrder
<1>4. CASE CompensateVoucher(r)
  <2>1. CASE AtComp(r, "Reverse") /\ UNCHANGED <<doc, order>>
    BY <2>1 DEF AtComp, Closers
  <2>2. QED
    BY <1>1, <1>4, <2>1 DEF CompensateVoucher
<1>5. CASE CancelPayment(r)
  BY <1>1, <1>5 DEF CancelPayment
<1>6. CASE UndoProvider(r)
  BY <1>1, <1>6 DEF UndoProvider, TransIsNil, ParkPending
<1>7. CASE UndoOtp(r)
  <2>1. Cur(r).comp \notin Closers
    BY <1>7 DEF UndoOtp, AtUndoOtp, AtComp, Closers
  <2>2. QED
    BY <1>1, <1>7, <2>1 DEF UndoOtp, TransIsNil, ParkPending
<1>8. CASE Park(r)
  BY <1>1, <1>8 DEF Park, TransIsNil, ParkPending
<1>9. QED
  BY <1>2, <1>3, <1>4, <1>5, <1>6, <1>7, <1>8 DEF Compensate

\* Who rolls back, or has, a payment made alone takes the only steps there are.
LEMMA ShutAlone ==
  ASSUME LoneInv, OnePayment, NEW r \in Requests, phase[r] \in {"abort", "failed"},
         flow[r] \notin Unclosed, NEW q \in Requests, EnterStep(q) \/ Active(q)
  PROVE  q = r
BY OnlyOne DEF Unclosed, TokenFlows

\* A request that takes no step, while nobody touches the order.
LEMMA ShutSame ==
  ASSUME NEW q \in Requests, Shuts(q), flow' = flow, doc' = doc, order'[q] = order[q],
         pc'[q] = pc[q], failedAt'[q] = failedAt[q],
         phase'[q] = phase[q] \/ phase'[q] \notin {"abort", "failed"}
  PROVE  Shuts(q)'
<1>1. Steps(q)' = Steps(q) /\ FailedStep(q)' = FailedStep(q)
  BY DEF FailedStep, Steps
<1>2. Until(Steps(q), pc[q], Closers)' = Until(Steps(q), pc[q], Closers)
  BY <1>1
<1>3. QED
  BY <1>1, <1>2 DEF Shuts, Unmade, Shut, OpenCopy

\* So a step of r is about r alone.
LEMMA ShutOthers ==
  ASSUME LoneInv, ShutInv, NEW r \in Requests, Others(r), timeUp => timeUp',
         EnterStep(r) \/ Active(r),
         "err" \notin RepairOutcomes /\ OnePayment /\ flow[r] \notin Unclosed => Shuts(r)'
  PROVE  ShutInv'
<1>1. flow' = flow
  BY DEF Others
<1>2. SUFFICES ASSUME "err" \notin RepairOutcomes, OnePayment', NEW q \in Requests,
                      flow[q] \notin Unclosed
               PROVE  Shuts(q)'
  BY <1>1 DEF ShutInv
<1>3. OnePayment
  BY <1>1, <1>2, OnePaymentWas
<1>4. CASE q = r
  BY <1>2, <1>3, <1>4
<1>5. CASE q # r
  <2>1. phase[q] \notin {"abort", "failed"}
    BY <1>2, <1>3, <1>5, ShutAlone
  <2>2. phase'[q] = phase[q]
    BY <1>5 DEF Others
  <2>3. QED
    BY <2>1, <2>2 DEF Shuts
<1>6. QED
  BY <1>4, <1>5

\* A request that begins rolls nothing back.
LEMMA EnterShut ==
  ASSUME LoneInv, ShutInv, NEW r \in Requests, EnterStep(r)
  PROVE  ShutInv'
<1>1. Shuts(r)'
  BY DEF EnterStep, Shuts
<1>2. QED
  BY <1>1, ShutOthers DEF EnterStep

\* Before the order is made nobody else makes it.
LEMMA NothingToShut ==
  ASSUME PayInv, NEW r \in Requests, Execute(r), Fails(r), flow[r] \notin Unclosed \cup Validated \cup {"NoRequest"},
         ~ Past(r, {"InitOrder"}), Cur(r).op # "InitOrder"
  PROVE  doc' = NIL
<1>1. SoundOrder(r)
  BY WorkIsSound DEF Sound
<1>2. SoundFlow(flow[r], Steps(r)) /\ flow \in Flows
  BY StepsSound DEF PayInv, Typed
<1>3. HasOp(flow[r], "InitOrder")
  BY <1>2 DEF SoundFlow, Earlier, HasOp, Steps
<1>4. doc = NIL
  BY <1>3 DEF PayInv, Creation, Ahead, Fails, Runs
<1>5. doc' = NIL
  BY <1>1, <1>4 DEF SoundOrder
<1>6. QED
  BY <1>5

\* A step that fails once there is an order has behind it a step whose compensation
\* closes one.
LEMMA ExecuteShut ==
  ASSUME PayInv, LoneInv, CopyInv, ShutInv, NEW r \in Requests, Execute(r)
  PROVE  ShutInv'
<1>1. ExecuteStep(r)
  BY ExecuteIs
<1>2. /\ Others(r) /\ flow' = flow /\ timeUp' = timeUp /\ Runs(r) /\ phase[r] = "run" /\ Steps(r)' = Steps(r)
      /\ Advances(r) \/ Fails(r)
  BY <1>1 DEF ExecuteStep, RunStep, Runs, Others, Steps
<1>3. ASSUME flow[r] \notin Unclosed PROVE Shuts(r)'
  <2>1. CASE Advances(r)
    BY <2>1 DEF Shuts, Advances
  <2>2. CASE Fails(r)
    <3>1. phase'[r] = "abort" /\ FailedStep(r)' = Cur(r).op /\ pc'[r] = pc[r]
      BY <1>2, <2>2 DEF Fails, FailedStep, Cur
    <3>2. RepairStep(flow[r], Steps(r), pc[r])
      BY <1>2, RunFacts
    <3>3. CASE Cur(r).op = "InitOrder"
      BY <3>1, <3>3 DEF Shuts, Unmade
    <3>4. CASE Until(Steps(r), pc[r], Closers)
      <4>1. OpenCopy(order[r])
        BY <1>2 DEF CopyInv, Fresh
      <4>2. Cur(r).op # "FailUnpaid"
        BY <1>3, <3>2 DEF RepairStep, Cur, Unclosed, TokenFlows
      <4>3. OpenCopy(order'[r])
        BY <4>1, <4>2, ExecuteCopies
      <4>4. Until(Steps(r), pc[r], Closers)' /\ OpenCopy(order[r])'
        BY <1>2, <3>1, <3>4, <4>3 DEF OpenCopy
      <4>5. QED
        BY <3>1, <4>4 DEF Shuts
    <3>5. CASE Cur(r).op # "InitOrder" /\ ~ Until(Steps(r), pc[r], Closers)
      <4>1. flow[r] \notin Validated /\ ~ Past(r, {"InitOrder"})
        BY <1>3, <3>2, <3>5 DEF RepairStep, Cur, Past
      <4>2. flow[r] # "NoRequest"
        BY <1>2 DEF LoneInv
      <4>3. doc' = NIL
        BY <1>3, <2>2, <3>5, <4>1, <4>2, NothingToShut
      <4>4. QED
        BY <3>1, <4>3 DEF Shuts, Unmade
    <3>6. QED
      BY <3>3, <3>4, <3>5
  <2>3. QED
    BY <1>2, <2>1, <2>2
<1>4. QED
  BY <1>2, <1>3, ShutOthers DEF Active

\* A compensation closes the order, or one that does is yet to come.
LEMMA CompensateShut ==
  ASSUME PayInv, LoneInv, ShutInv, NEW r \in Requests, Compensate(r)
  PROVE  ShutInv'
<1>1. UndoesStep(r) /\ SoundOrder(r)
  BY CompensateIs, WorkIsSound DEF Sound
<1>2. /\ Others(r) /\ flow' = flow /\ timeUp' = timeUp /\ phase[r] = "abort" /\ pc[r] > 0
      /\ Steps(r)' = Steps(r) /\ failedAt'[r] = failedAt[r]
      /\ \/ phase'[r] = "abort" /\ pc'[r] = pc[r] - 1
         \/ phase'[r] = "panic"
  BY <1>1 DEF UndoesStep, UndoStep, Undoes, Others, Steps
<1>3. ASSUME "err" \notin RepairOutcomes, OnePayment, flow[r] \notin Unclosed, phase'[r] = "abort"
      PROVE  Shuts(r)'
  <2>1. ~ Panics(r) /\ pc'[r] = pc[r] - 1
    BY <1>2, <1>3 DEF Panics, PayInv, Typed
  <2>2. FailedStep(r)' = FailedStep(r)
    BY <1>2 DEF FailedStep
  <2>3. CASE Unmade(r)
    <3>1. doc = NIL => doc' = NIL
      BY <1>1, <1>2 DEF SoundOrder, Runs
    <3>2. QED
      BY <1>3, <2>2, <2>3, <3>1 DEF Unmade, Shuts
  <2>4. CASE Shut(doc) /\ Shut(order[r])
    <3>1. ~ OpenCopy(order[r])
      BY <2>4 DEF Shut, OpenCopy
    <3>2. Shut(doc') /\ Shut(order'[r])
      BY <1>3, <2>1, <2>4, <3>1, CompensateShuts
    <3>3. QED
      BY <1>3, <3>2 DEF Shuts, Shut
  <2>5. CASE OpenCopy(order[r]) /\ Until(Steps(r), pc[r], Closers)
    <3>1. ~ Shut(order[r])
      BY <2>5 DEF Shut, OpenCopy
    <3>2. CASE Shut(doc') /\ Shut(order'[r])
      BY <1>3, <3>2 DEF Shuts, Shut
    <3>3. CASE Cur(r).comp \notin Closers /\ OpenCopy(order'[r])
      <4>1. pc[r] \in Nat
        BY DEF PayInv, Typed
      <4>2. Until(Steps(r), pc[r] - 1, Closers)
        BY <1>2, <2>5, <3>3, <4>1 DEF Until, Cur
      <4>3. Until(Steps(r), pc[r], Closers)' /\ OpenCopy(order[r])'
        BY <1>2, <2>1, <3>3, <4>2 DEF OpenCopy
      <4>4. QED
        BY <1>3, <4>3 DEF Shuts
    <3>4. order' = order => OpenCopy(order'[r])
      BY <2>5
    <3>5. QED
      BY <1>3, <2>1, <3>1, <3>2, <3>3, <3>4, CompensateShuts
  <2>6. QED
    BY <1>2, <1>3, <2>3, <2>4, <2>5 DEF ShutInv, Shuts
<1>4. phase'[r] # "abort" => Shuts(r)'
  BY <1>2 DEF Shuts
<1>5. QED
  BY <1>2, <1>3, <1>4, ShutOthers DEF Active

\* When a rollback ends no compensation is yet to come.
LEMMA EndShut ==
  ASSUME PayInv, LoneInv, ShutInv, NEW r \in Requests, EndStep(r)
  PROVE  ShutInv'
<1>1. Others(r) /\ flow' = flow /\ UNCHANGED <<pc, failedAt, order, doc, timeUp>> /\ Active(r)
  BY DEF EndStep, Others, Active
<1>2. ASSUME "err" \notin RepairOutcomes, OnePayment, flow[r] \notin Unclosed PROVE Shuts(r)'
  <2>1. Shuts(r)
    BY <1>2 DEF ShutInv
  <2>2. CASE phase'[r] = "done"
    BY <2>2 DEF Shuts
  <2>3. CASE phase[r] = "abort" /\ phase'[r] = "failed" /\ pc[r] = 0
    <3>1. ~ Until(Steps(r), pc[r], Closers)
      BY <2>3 DEF Until
    <3>2. Unmade(r) \/ Shut(doc)
      BY <2>1, <2>3, <3>1 DEF Shuts
    <3>3. (Unmade(r) \/ Shut(doc))'
      BY <1>1, <3>2 DEF Unmade, Shut, FailedStep, Steps
    <3>4. QED
      BY <2>3, <3>3 DEF Shuts
  <2>4. QED
    BY <2>2, <2>3 DEF EndStep
<1>3. QED
  BY <1>1, <1>2, ShutOthers

\* The job does not meet a payment made alone.
LEMMA AroundShut ==
  ASSUME LoneInv, ShutInv, AroundStep
  PROVE  ShutInv'
<1>1. SUFFICES ASSUME "err" \notin RepairOutcomes, OnePayment', NEW q \in Requests,
                      flow[q] \notin Unclosed
               PROVE  Shuts(q)'
  BY DEF ShutInv, AroundStep
<1>2. OnePayment /\ ~ timeUp
  BY <1>1, OnePaymentWas DEF AroundStep, OnePayment
<1>3. Shuts(q) /\ doc' = doc
  BY <1>1, <1>2 DEF ShutInv, AroundStep, LoneInv
<1>4. QED
  BY <1>3, ShutSame DEF AroundStep

-----------------------------------------------------------------------------
(* The voucher of the order.                                               *)

\* Whoever used the voucher has not been rolled back past that.
Uses(p) ==
  /\ flow[p] \notin TokenInit /\ phase[p] \notin {"idle", "refused", "failed"}
  /\ phase[p] = "run" => Past(p, {"AccountVoucher"})
  /\ phase[p] = "abort" => Until(Steps(p), pc[p], VoucherComps)

UsedInv ==
  "err" \notin RepairOutcomes /\ voucher = "used" => \E p \in Requests : Uses(p)

\* A voucher is reversed by a rollback alone.
Reverses(p) == flow[p] \notin TokenInit /\ phase[p] \in {"abort", "failed", "panic", "crashed"}

ReversedInv == voucher = "reversed" => \E p \in Requests : Reverses(p)

\* Whoever has stored SUCCESS has nothing left to do, or nothing to roll back with.
Succeeds(p) ==
  /\ flow[p] \notin TokenInit /\ phase[p] \in {"run", "done", "abort", "panic", "crashed"}
  /\ phase[p] = "run" => pc[p] = Len(Steps(p)) + 1
  /\ phase[p] = "abort" => pc[p] = failedAt[p] /\ FailedStep(p) \in SuccessOps /\ order[p] = NIL

SuccessInv ==
  OnePayment /\ doc # NIL /\ doc.status = "SUCCESS" =>
    voucher # "reversed" /\ \E p \in Requests : Succeeds(p)

VoucherInv == UsedInv /\ ReversedInv /\ SuccessInv

\* A step that uses the voucher, or finds that it cannot.
LEMMA ExecuteVoucher ==
  ASSUME PayInv, NEW r \in Requests, Execute(r)
  PROVE  /\ voucher' \in {voucher, "used"}
         /\ voucher' # voucher => Cur(r).op = "AccountVoucher"
<1>1. CASE AccountVoucher(r)
  BY <1>1 DEF AccountVoucher, AtStep
<1>2. \/ FindOrder(r) \/ FindTransaction(r) \/ Check(r) \/ InitOrder(r) \/ ProcessingOrder(r)
      \/ SuccessOrder(r) \/ CancelOrder(r) \/ CancelInitial(r) \/ InitPayment(r) \/ ConfirmTrans(r)
      \/ SkipStep(r) \/ CallProvider(r) \/ CallTransfer(r) \/ CashInRequest(r) \/ CashInBankGW(r)
      \/ FailUnpaid(r) \/ VerifyOtp(r)
      => voucher' = voucher
  BY DEF FindOrder, FindTransaction, Check, InitOrder, ProcessingOrder, SuccessOrder, CancelOrder,
     CancelInitial, InitPayment, ConfirmTrans, SkipStep, CallProvider, CallTransfer, CashInRequest,
     CashInBankGW, FailUnpaid, VerifyOtp
<1>3. QED
  BY <1>1, <1>2 DEF Execute

\* A step that stores SUCCESS is the last one of its flow.
LEMMA ExecuteSucceeds ==
  ASSUME PayInv, NEW r \in Requests, Execute(r), doc' # doc, doc'.status = "SUCCESS"
  PROVE  Cur(r).op \in SuccessOps /\ (Advances(r) \/ (Fails(r) /\ order'[r] = NIL))
<1>1. ExecuteStep(r)
  BY ExecuteIs
<1>2. Runs(r) /\ Cur(r).op \in FinalOps /\ order \in [Requests -> Orders \cup {NIL}]
  BY <1>1 DEF ExecuteStep, RunStep, RunsDoc, PayInv, Typed
<1>3. SuccessOrder(r)
  BY <1>2 DEF Execute, FindOrder, FindTransaction, Check, InitOrder, ProcessingOrder, CancelOrder,
     CancelInitial, AccountVoucher, InitPayment, ConfirmTrans, SkipStep, CallProvider, CallTransfer,
     CashInRequest, CashInBankGW, FailUnpaid, VerifyOtp, AtStep, FinalOps, ConfirmOps, copies
<1>4. PICK entity, outcome : StepWrites(r, entity, outcome)
  BY <1>3 DEF SuccessOrder
<1>5. CASE outcome = "ok"
  BY <1>2, <1>3, <1>4, <1>5, EndIsSound DEF StepWrites, SuccessOrder, AtStep, SuccessOps
<1>6. CASE outcome # "ok"
  <2>1. Fails(r)
    BY <1>2, <1>4, <1>6, EndIsSound DEF StepWrites
  <2>2. order'[r] = NIL
    BY <1>2, <1>4, <1>6 DEF StepWrites
  <2>3. QED
    BY <1>3, <2>1, <2>2 DEF SuccessOrder, AtStep, SuccessOps
<1>7. QED
  BY <1>5, <1>6

\* A compensation of AccountVoucher gives the voucher back, or panics for want of
\* an order; no other touches it.
LEMMA CompensateVouchers ==
  ASSUME PayInv, NEW r \in Requests, Compensate(r)
  PROVE  /\ voucher' # voucher =>
              voucher' = "reversed" /\ Cur(r).comp \in VoucherComps /\ order[r] # NIL
         /\ "err" \notin RepairOutcomes /\ Cur(r).comp \in VoucherComps =>
              voucher' # "used" \/ Panics(r)
<1>1. CASE CompensateVoucher(r)
  <2>1. Cur(r).comp \in VoucherComps
    BY <1>1 DEF CompensateVoucher, AtComp, VoucherComps
  <2>2. voucher' # voucher => voucher' = "reversed" /\ order[r] # NIL
    BY <1>1 DEF CompensateVoucher, ReverseVoucher
  <2>3. order[r] = NIL => Panics(r)
    BY <1>1 DEF CompensateVoucher, FailIfOpen, CompensationMoves
  <2>4. "err" \notin RepairOutcomes /\ order[r] # NIL => voucher' # "used"
    BY <1>1 DEF CompensateVoucher, ReverseVoucher
  <2>5. QED
    BY <2>1, <2>2, <2>3, <2>4
<1>2. CASE \/ CompensateNone(r) \/ CompensateOrder(r) \/ CancelPayment(r) \/ UndoProvider(r)
           \/ UndoOtp(r) \/ Park(r)
  <2>1. voucher' = voucher
    BY <1>2 DEF CompensateNone, CompensateOrder, CancelPayment, UndoProvider, UndoOtp, Park
  <2>2. Cur(r).comp \notin VoucherComps
    BY <1>2 DEF CompensateNone, CompensateOrder, CancelPayment, UndoProvider, UndoOtp, Park,
       AtUndoOtp, AtComp, VoucherComps
  <2>3. QED
    BY <2>1, <2>2
<1>3. QED
  BY <1>1, <1>2 DEF Compensate

\* Without a copy of the order the settlement cannot be rolled back.
LEMMA SuccessPanics ==
  ASSUME PayInv, NEW r \in Requests, Compensate(r), Succeeds(r)
  PROVE  Panics(r)
<1>1. phase[r] = "abort" /\ pc[r] > 0 /\ pc[r] = failedAt[r] /\ FailedStep(r) \in SuccessOps
      /\ order[r] = NIL
  BY CompensateIs DEF UndoesStep, UndoStep, Succeeds
<1>2. FailedFinally(r)
  BY <1>1 DEF FailedFinally, SuccessOps, FinalOps
<1>3. Panics(r) \/ Parks(r)
  BY <1>1, <1>2, FirstParks
<1>4. Parks(r) => order'[r] # order[r]
  BY <1>1 DEF Parks
<1>5. ~ Parks(r)
  <2>1. Cur(r).comp \in ParkComps
    BY <1>1, <1>2, RollbackFacts DEF RollbackStep, FailedFinally, FailedStep, Cur, ParkComps
  <2>2. VerifyIfNot(r) => Panics(r) /\ order' = order
    BY <1>1 DEF VerifyIfNot, CompensationMoves
  <2>3. order' = order
    BY <2>1, <2>2 DEF Compensate, CompensateNone, CompensateOrder, CompensateVoucher, CancelPayment,
       UndoProvider, UndoOtp, Park, AtUndoOtp, AtComp, TransIsNil, ParkPending, ParkComps, copies
  <2>4. QED
    BY <1>4, <2>3
<1>6. QED
  BY <1>3, <1>5

\* What the three say of a request that takes no step.
LEMMA VoucherSame ==
  ASSUME NEW p \in Requests, flow' = flow, order'[p] = order[p], pc'[p] = pc[p], failedAt'[p] = failedAt[p],
         \/ phase'[p] = phase[p]
         \/ phase[p] \in {"run", "abort"} /\ phase'[p] = "crashed"
  PROVE  /\ Uses(p) => Uses(p)'
         /\ Reverses(p) => Reverses(p)'
         /\ Succeeds(p) => Succeeds(p)'
<1>1. Steps(p)' = Steps(p) /\ FailedStep(p)' = FailedStep(p)
  BY DEF FailedStep, Steps
<1>2. Past(p, {"AccountVoucher"})' = Past(p, {"AccountVoucher"})
      /\ Until(Steps(p), pc[p], VoucherComps)' = Until(Steps(p), pc[p], VoucherComps)
  BY <1>1 DEF Past
<1>3. QED
  BY <1>1, <1>2 DEF Uses, Reverses, Succeeds

\* The steps that leave the voucher and the order alone.
LEMMA VoucherKept ==
  ASSUME VoucherInv, flow' = flow, voucher' = voucher, timeUp => timeUp', OnePayment' => doc' = doc,
         \A p \in Requests : /\ Uses(p) => Uses(p)'
                             /\ Reverses(p) => Reverses(p)'
                             /\ Succeeds(p) => Succeeds(p)'
  PROVE  VoucherInv'
<1>1. UsedInv' /\ ReversedInv'
  BY DEF VoucherInv, UsedInv, ReversedInv
<1>2. SuccessInv'
  <2>1. SUFFICES ASSUME OnePayment', doc' # NIL, doc'.status = "SUCCESS"
                 PROVE  voucher' # "reversed" /\ \E p \in Requests : Succeeds(p)'
    BY DEF SuccessInv
  <2>2. OnePayment /\ doc' = doc
    BY <2>1, OnePaymentWas
  <2>3. QED
    BY <2>1, <2>2 DEF VoucherInv, SuccessInv
<1>3. QED
  BY <1>1, <1>2 DEF VoucherInv

\* A request that begins leaves the voucher and the order alone.
LEMMA EnterVoucher ==
  ASSUME VoucherInv, NEW r \in Requests, EnterStep(r), voucher' = voucher
  PROVE  VoucherInv'
<1>1. ASSUME NEW p \in Requests
      PROVE  /\ Uses(p) => Uses(p)' /\ p # r
             /\ Reverses(p) => Reverses(p)' /\ p # r
             /\ Succeeds(p) => Succeeds(p)' /\ p # r
  <2>1. CASE p = r
    BY <2>1 DEF EnterStep, Uses, Reverses, Succeeds
  <2>2. CASE p # r
    BY <2>2, VoucherSame DEF EnterStep, Others
  <2>3. QED
    BY <2>1, <2>2
<1>2. QED
  BY <1>1, VoucherKept DEF EnterStep, Others

\* When a rollback ends the compensation of AccountVoucher is behind it, and it began
\* at a step.
LEMMA EndVoucher ==
  ASSUME PayInv, VoucherInv, NEW r \in Requests, EndStep(r), voucher' = voucher
  PROVE  VoucherInv'
<1>1. Others(r) /\ flow' = flow /\ UNCHANGED <<pc, failedAt, doc, timeUp>> /\ failedAt[r] \in Nat /\ pc[r] \in Nat
  BY DEF EndStep, Others, PayInv, Typed
<1>2. ASSUME NEW p \in Requests
      PROVE  /\ Uses(p) => Uses(p)'
             /\ Reverses(p) => Reverses(p)'
             /\ Succeeds(p) => Succeeds(p)'
  <2>1. CASE p # r
    BY <1>1, <2>1, VoucherSame DEF EndStep, Others
  <2>2. CASE p = r /\ phase[r] = "run" /\ phase'[r] = "done"
    BY <1>1, <2>2 DEF Uses, Reverses, Succeeds
  <2>3. CASE p = r /\ phase[r] = "abort" /\ phase'[r] = "failed" /\ pc[r] = 0
    <3>1. ~ Until(Steps(r), pc[r], VoucherComps)
      BY <2>3 DEF Until
    <3>2. failedAt[r] >= 1
      BY <2>3 DEF PayInv, Control
    <3>3. QED
      BY <1>1, <2>3, <3>1, <3>2 DEF Uses, Reverses, Succeeds
  <2>4. QED
    BY <2>1, <2>2, <2>3 DEF EndStep
<1>3. QED
  BY <1>1, <1>2, VoucherKept

\* The job does not meet a payment made alone, and does not touch the voucher.
LEMMA AroundVoucher ==
  ASSUME LoneInv, VoucherInv, AroundStep, voucher' = voucher
  PROVE  VoucherInv'
<1>1. OnePayment' => doc' = doc
  BY OnePaymentWas DEF AroundStep, LoneInv, OnePayment
<1>2. \A p \in Requests : /\ Uses(p) => Uses(p)'
                          /\ Reverses(p) => Reverses(p)'
                          /\ Succeeds(p) => Succeeds(p)'
  BY VoucherSame DEF AroundStep
<1>3. QED
  BY <1>1, <1>2, VoucherKept DEF AroundStep

\* A payment made alone that succeeds has not been rolled back before.
LEMMA NotReversed ==
  ASSUME LoneInv, ReversedInv, OnePayment, NEW r \in Requests, phase[r] = "run"
  PROVE  voucher # "reversed"
<1>1. SUFFICES ASSUME NEW p \in Requests, Reverses(p) PROVE FALSE
  BY DEF ReversedInv
<1>2. p = r
  BY <1>1, OnlyOne DEF Reverses, Active
<1>3. QED
  BY <1>1, <1>2 DEF Reverses

\* Who uses the voucher, or stores SUCCESS, is the one the invariant asks for.
LEMMA ExecuteVouches ==
  ASSUME PayInv, LoneInv, VoucherInv, NEW r \in Requests, Execute(r)
  PROVE  VoucherInv'
<1>1. ExecuteStep(r)
  BY ExecuteIs
<1>2. /\ Others(r) /\ flow' = flow /\ timeUp' = timeUp /\ Runs(r) /\ phase[r] = "run" /\ Steps(r)' = Steps(r)
      /\ Advances(r) \/ Fails(r)
      /\ pc[r] \in 1 .. Len(Steps(r)) /\ Len(Steps(r)) \in Nat /\ pc[r] \in Nat /\ pc[r] >= 1
  BY <1>1, RunFacts DEF ExecuteStep, RunStep, Runs, Others, Steps, PayInv, Typed, Control
<1>3. RepairStep(flow[r], Steps(r), pc[r]) /\ SoundFlow(flow[r], Steps(r))
  BY <1>2, RunFacts, StepsSound DEF PayInv, Typed
<1>4. \A p \in Requests \ {r} : /\ Uses(p) => Uses(p)'
                                /\ Reverses(p) => Reverses(p)'
                                /\ Succeeds(p) => Succeeds(p)'
  BY <1>2, VoucherSame DEF Others
<1>5. ASSUME Past(r, {"AccountVoucher"}) \/ Cur(r).op = "AccountVoucher" PROVE Uses(r)'
  <2>1. PICK j \in 1 .. pc[r] : Steps(r)[j].op = "AccountVoucher"
    BY <1>2, <1>5 DEF Past, Earlier, Cur
  <2>2. Steps(r)[j].comp \in VoucherComps /\ flow[r] \notin TokenInit
    <3>1. j \in 1 .. Len(Steps(r))
      BY <1>2
    <3>2. RepairStep(flow[r], Steps(r), j)
      BY <1>3, <3>1 DEF SoundFlow
    <3>3. QED
      BY <2>1, <3>2 DEF RepairStep
  <2>3. CASE Advances(r)
    <3>1. Past(r, {"AccountVoucher"})'
      BY <1>2, <1>5, <2>3, PastGrows DEF Advances
    <3>2. QED
      BY <1>2, <2>2, <2>3, <3>1 DEF Uses, Advances
  <2>4. CASE Fails(r)
    <3>1. Until(Steps(r), pc[r], VoucherComps)
      BY <2>1, <2>2 DEF Until
    <3>2. Until(Steps(r), pc[r], VoucherComps)'
      BY <1>2, <2>4, <3>1 DEF Fails
    <3>3. QED
      BY <1>2, <2>2, <2>4, <3>2 DEF Uses, Fails
  <2>5. QED
    BY <1>2, <2>3, <2>4
<1>6. UsedInv'
  <2>1. SUFFICES ASSUME "err" \notin RepairOutcomes, voucher' = "used" PROVE \E p \in Requests : Uses(p)'
    BY DEF UsedInv
  <2>2. CASE voucher = "used"
    <3>1. PICK p \in Requests : Uses(p)
      BY <2>1, <2>2 DEF VoucherInv, UsedInv
    <3>2. CASE p = r
      BY <1>2, <1>5, <3>1, <3>2 DEF Uses
    <3>3. QED
      BY <1>4, <3>1, <3>2
  <2>3. CASE voucher # "used"
    BY <1>5, <2>1, <2>3, ExecuteVoucher
  <2>4. QED
    BY <2>2, <2>3
<1>7. ReversedInv'
  <2>1. \A p \in Requests : Reverses(p) => p # r
    BY <1>2 DEF Reverses
  <2>2. voucher' = "reversed" => voucher = "reversed"
    BY ExecuteVoucher
  <2>3. QED
    BY <1>4, <2>1, <2>2 DEF VoucherInv, ReversedInv
<1>8. SuccessInv'
  <2>1. SUFFICES ASSUME OnePayment', doc' # NIL, doc'.status = "SUCCESS"
                 PROVE  voucher' # "reversed" /\ \E p \in Requests : Succeeds(p)'
    BY DEF SuccessInv
  <2>2. OnePayment
    BY <1>2, <2>1, OnePaymentWas
  <2>3. voucher' # "reversed"
    BY <1>2, <2>2, NotReversed, ExecuteVoucher DEF VoucherInv
  <2>4. CASE doc' = doc
    <3>1. PICK p \in Requests : Succeeds(p)
      BY <2>1, <2>2, <2>4 DEF VoucherInv, SuccessInv
    <3>2. p # r
      BY <1>2, <3>1 DEF Succeeds
    <3>3. QED
      BY <1>4, <2>3, <3>1, <3>2
  <2>5. CASE doc' # doc
    <3>1. Cur(r).op \in SuccessOps /\ (Advances(r) \/ (Fails(r) /\ order'[r] = NIL))
      BY <2>1, <2>5, ExecuteSucceeds
    <3>2. pc[r] = Len(Steps(r)) /\ flow[r] \notin TokenInit
      BY <1>3, <3>1 DEF RepairStep, Cur
    <3>3. ASSUME Advances(r) PROVE Succeeds(r)'
      <4>1. phase'[r] = "run" /\ pc'[r] = Len(Steps(r)) + 1
        BY <3>2, <3>3 DEF Advances
      <4>2. QED
        BY <1>2, <3>2, <4>1 DEF Succeeds
    <3>4. ASSUME Fails(r), order'[r] = NIL PROVE Succeeds(r)'
      <4>1. FailedStep(r)' \in SuccessOps
        BY <1>2, <3>1, <3>4 DEF Fails, FailedStep, Cur
      <4>2. phase'[r] = "abort" /\ pc'[r] = failedAt'[r]
        BY <3>4 DEF Fails
      <4>3. QED
        BY <1>2, <3>2, <3>4, <4>1, <4>2 DEF Succeeds
    <3>5. Succeeds(r)'
      BY <3>1, <3>3, <3>4
    <3>6. QED
      BY <2>3, <3>5
  <2>6. QED
    BY <2>4, <2>5
<1>9. QED
  BY <1>6, <1>7, <1>8 DEF VoucherInv

\* The voucher is given back before the rollback leaves the step that used it, and no
\* rollback goes on after SUCCESS.
LEMMA CompensateVouches ==
  ASSUME PayInv, LoneInv, VoucherInv, NEW r \in Requests, Compensate(r)
  PROVE  VoucherInv'
<1>1. UndoesStep(r)
  BY CompensateIs
<1>2. /\ Others(r) /\ flow' = flow /\ timeUp' = timeUp /\ phase[r] = "abort" /\ pc[r] > 0
      /\ Steps(r)' = Steps(r) /\ failedAt'[r] = failedAt[r] /\ pc[r] \in Nat
      /\ \/ phase'[r] = "abort" /\ pc'[r] = pc[r] - 1
         \/ phase'[r] = "panic"
  BY <1>1 DEF UndoesStep, UndoStep, Undoes, Others, Steps, PayInv, Typed
<1>3. Panics(r) => phase'[r] = "panic"
  BY DEF Panics, PayInv, Typed
<1>4. \A p \in Requests \ {r} : /\ Uses(p) => Uses(p)'
                                /\ Reverses(p) => Reverses(p)'
                                /\ Succeeds(p) => Succeeds(p)'
  BY <1>2, VoucherSame DEF Others
<1>5. UsedInv'
  <2>1. SUFFICES ASSUME "err" \notin RepairOutcomes, voucher' = "used" PROVE \E p \in Requests : Uses(p)'
    BY DEF UsedInv
  <2>2. voucher = "used"
    BY <2>1, CompensateVouchers
  <2>3. PICK p \in Requests : Uses(p)
    BY <2>1, <2>2 DEF VoucherInv, UsedInv
  <2>4. CASE p = r
    <3>1. CASE phase'[r] = "panic"
      BY <1>2, <2>3, <2>4, <3>1 DEF Uses
    <3>2. CASE phase'[r] = "abort" /\ pc'[r] = pc[r] - 1
      <4>1. Cur(r).comp \notin VoucherComps
        BY <1>3, <2>1, <3>2, CompensateVouchers
      <4>2. Until(Steps(r), pc[r] - 1, VoucherComps)
        BY <1>2, <2>3, <2>4, <4>1 DEF Uses, Until, Cur
      <4>3. Until(Steps(r), pc[r], VoucherComps)'
        BY <1>2, <3>2, <4>2
      <4>4. QED
        BY <1>2, <2>3, <2>4, <3>2, <4>3 DEF Uses
    <3>3. QED
      BY <1>2, <3>1, <3>2
  <2>5. QED
    BY <1>4, <2>3, <2>4
<1>6. ReversedInv'
  <2>1. SUFFICES ASSUME voucher' = "reversed" PROVE \E p \in Requests : Reverses(p)'
    BY DEF ReversedInv
  <2>2. flow[r] \notin TokenInit => Reverses(r)'
    BY <1>2 DEF Reverses
  <2>3. CASE voucher' # voucher
    <3>1. Cur(r).comp \in VoucherComps
      BY <2>3, CompensateVouchers
    <3>2. flow[r] \notin TokenInit
      BY <1>2, <3>1, RollbackFacts DEF RepairStep, Cur
    <3>3. QED
      BY <2>2, <3>2
  <2>4. CASE voucher' = voucher
    <3>1. PICK p \in Requests : Reverses(p)
      BY <2>1, <2>4 DEF VoucherInv, ReversedInv
    <3>2. QED
      BY <1>4, <2>2, <3>1 DEF Reverses
  <2>5. QED
    BY <2>3, <2>4
<1>7. SuccessInv'
  <2>1. SUFFICES ASSUME OnePayment', doc' # NIL, doc'.status = "SUCCESS"
                 PROVE  voucher' # "reversed" /\ \E p \in Requests : Succeeds(p)'
    BY DEF SuccessInv
  <2>2. OnePayment
    BY <1>2, <2>1, OnePaymentWas
  <2>3. doc' = doc
    BY <1>1, <2>1 DEF UndoesStep, UndoStep, UndoDoc
  <2>4. PICK p \in Requests : Succeeds(p)
    BY <2>1, <2>2, <2>3 DEF VoucherInv, SuccessInv
  <2>5. p = r
    BY <1>2, <2>2, <2>4, OnlyOne DEF Succeeds, Active
  <2>6. Panics(r) /\ order[r] = NIL
    BY <1>2, <2>4, <2>5, SuccessPanics DEF Succeeds
  <2>7. Succeeds(r)'
    BY <1>2, <1>3, <2>4, <2>5, <2>6 DEF Succeeds
  <2>8. voucher' = voucher
    BY <2>6, CompensateVouchers
  <2>9. QED
    BY <2>1, <2>2, <2>3, <2>7, <2>8 DEF VoucherInv, SuccessInv
<1>8. QED
  BY <1>5, <1>6, <1>7 DEF VoucherInv

-----------------------------------------------------------------------------
(* What a rollback leaves once its own calls succeed.                      *)

\* A rollback that ran to its end began at the step that failed.
FailedSome == \A r \in Requests : phase[r] = "failed" => failedAt[r] # 0

RepairInv == FailedSome /\ CopyInv /\ ParkedInv /\ HeldInv /\ ShutInv /\ VoucherInv

\* A step that ends no rollback.
LEMMA FailedSomeSame ==
  ASSUME FailedSome,
         \A r \in Requests : phase'[r] = "failed" => phase[r] = "failed" /\ failedAt'[r] = failedAt[r]
  PROVE  FailedSome'
BY DEF FailedSome

\* Nothing has begun at first, and no amount is on hold.
LEMMA InitRepairInv == Init => RepairInv
<1> USE NilAssumption
<1>1. SUFFICES ASSUME Init PROVE RepairInv
  OBVIOUS
<1>2. \A r \in Requests : /\ phase[r] = "idle" /\ order[r] = NIL /\ trans[r] = NIL
                          /\ flag[r] = "none" /\ state[r] = "NONE"
  BY <1>1 DEF Init
<1>3. voucher = "unused" /\ (doc = NIL \/ doc.status = "PENDING")
  BY <1>1 DEF Init, NewOrder
<1>4. CopyInv /\ ParkedInv /\ FailedSome
  BY <1>2 DEF CopyInv, ParkedInv, FailedSome, Fresh, OpenCopy, Unknown
<1>5. HeldInv /\ ShutInv
  BY <1>2 DEF HeldInv, ShutInv, Held, Shuts
<1>6. VoucherInv
  BY <1>3 DEF VoucherInv, UsedInv, ReversedInv, SuccessInv
<1>7. QED
  BY <1>4, <1>5, <1>6 DEF RepairInv

\* Every step keeps it.
LEMMA NextKeepsRepairInv == PayInv /\ RollInv /\ RepairInv /\ [Next]_vars => RepairInv'
<1>1. SUFFICES ASSUME PayInv, RollInv, RepairInv, [Next]_vars PROVE RepairInv'
  OBVIOUS
<1>2. LoneInv /\ RestInv /\ FailedSome /\ CopyInv /\ ParkedInv /\ HeldInv /\ ShutInv /\ VoucherInv
  BY <1>1 DEF RollInv, RepairInv
<1>3. ASSUME NEW r \in Requests, Begin(r) \/ BeginByPass(r)
      PROVE  RepairInv'
  <2>1. EnterStep(r)
    BY <1>1, <1>3, BeginIsEnter
  <2>2. voucher' = voucher
    BY <1>3 DEF Begin, BeginByPass, service
  <2>3. FailedSome'
    BY <1>2, <2>1, FailedSomeSame DEF EnterStep, Others
  <2>4. QED
    BY <1>1, <1>2, <2>1, <2>2, <2>3, EnterCopy, EnterParked, EnterHeld, EnterShut, EnterVoucher
       DEF RepairInv
<1>4. ASSUME NEW r \in Requests, Execute(r)
      PROVE  RepairInv'
  <2>1. ExecuteStep(r)
    BY <1>1, <1>4, ExecuteIs
  <2>2. FailedSome'
    BY <1>2, <2>1, FailedSomeSame DEF ExecuteStep, Others, Advances, Fails
  <2>3. QED
    BY <1>1, <1>2, <1>4, <2>1, <2>2, ExecuteCopy, ExecuteParked, ExecuteHeld, ExecuteShut,
       ExecuteVouches DEF RepairInv
<1>5. ASSUME NEW r \in Requests, Compensate(r)
      PROVE  RepairInv'
  <2>1. UndoesStep(r)
    BY <1>1, <1>5, CompensateIs
  <2>2. FailedSome'
    BY <1>2, <2>1, FailedSomeSame DEF UndoesStep, Others, Undoes
  <2>3. QED
    BY <1>1, <1>2, <1>5, <2>2, CompensateCopy, CompensateParked, CompensateHeld, CompensateShut,
       CompensateVouches DEF RepairInv
<1>6. ASSUME NEW r \in Requests, Return(r)
      PROVE  RepairInv'
  <2>1. EndStep(r)
    BY <1>1, <1>6, ReturnIsEnd
  <2>2. voucher' = voucher
    BY <1>6 DEF Return, service
  <2>3. phase[r] = "abort" => failedAt[r] # 0
    BY <1>1 DEF PayInv, Control
  <2>4. FailedSome'
    BY <1>2, <2>1, <2>3 DEF EndStep, Others, FailedSome
  <2>5. QED
    BY <1>1, <1>2, <2>1, <2>2, <2>4, EndCopy, EndParked, EndHeld, EndShut, EndVoucher DEF RepairInv
<1>7. CASE \/ Tick \/ JobRead \/ (\E outcome \in RepairOutcomes : JobFail(outcome))
           \/ JobCancel \/ Crash \/ UNCHANGED vars
  <2>1. AroundStep
    BY <1>1, <1>7, AroundIsAround
  <2>2. voucher' = voucher
    BY <1>7 DEF Tick, JobRead, JobFail, JobCancel, Crash, vars, service
  <2>3. FailedSome'
    BY <1>2, <2>1, FailedSomeSame DEF AroundStep
  <2>4. QED
    BY <1>1, <1>2, <2>1, <2>2, <2>3, EndCopy, AroundParked, AroundHeld, AroundShut, AroundVoucher
       DEF RepairInv
<1>8. QED
  BY <1>1, <1>3, <1>4, <1>5, <1>6, <1>7 DEF Next, Work, Quiescent

\* The three invariants together.
LEMMA RepairInvariant == Spec => [](PayInv /\ RollInv /\ RepairInv)
<1>1. Init => PayInv /\ RollInv /\ RepairInv
  BY InitPayInv, InitRollInv, InitRepairInv
<1>2. PayInv /\ RollInv /\ RepairInv /\ [Next]_vars => (PayInv /\ RollInv /\ RepairInv)'
  BY NextKeepsPayInv, NextKeepsRollInv, NextKeepsRepairInv
<1>3. QED
  BY <1>1, <1>2, PTL DEF Spec

\* UnknownIsParked: when no call of a rollback fails without having any effect, an
\* order whose payment was answered "pending" or "verifying" is left verifying: the
\* first compensation parks it and each one after that sees so in its own copy.
THEOREM UnknownGetsParked ==
  ASSUME "err" \notin RepairOutcomes
  PROVE  Spec => []UnknownIsParked
<1>1. PayInv /\ RollInv /\ RepairInv => UnknownIsParked
  <2>1. SUFFICES ASSUME RollInv, RepairInv, OnePayment, NEW r \in Requests, Unknown(r), Settled(r)
                 PROVE  doc.status = "VERIFYING"
    BY DEF UnknownIsParked, Unknown
  <2>2. phase[r] = "failed"
    BY <2>1 DEF RollInv, RestInv, UnknownRests, Rests, Settled
  <2>3. QED
    BY <2>1, <2>2 DEF RepairInv, ParkedInv, Rolled, Verifying
<1>2. QED
  BY <1>1, RepairInvariant, PTL

\* HoldReleased: under the same assumption, a rollback of a flow that answers at once
\* gives back the amount it has put on hold, unless it parked the order or never
\* learnt the identifier of the transaction.
THEOREM RollbacksRelease ==
  ASSUME "err" \notin RepairOutcomes, \A f \in Flows : \A r \in Requests : f[r] \notin LaterFlows
  PROVE  Spec => []HoldReleased
<1>1. PayInv /\ RollInv /\ RepairInv => HoldReleased
  <2>1. SUFFICES ASSUME PayInv, RepairInv, NEW r \in Requests, phase[r] = "failed", state[r] = "INITIAL"
                 PROVE  \/ order[r].status = "VERIFYING"
                        \/ trans[r] = NIL /\ (FailedOp(r, "InitPayment") \/ FailedOp(r, "FindOrInitPayment"))
    BY DEF HoldReleased
  <2>2. flow[r] \notin LaterFlows /\ failedAt[r] # 0
    BY <2>1 DEF PayInv, Typed, RepairInv, FailedSome
  <2>3. Verifying(order[r]) \/ Unopened(r)
    BY <2>1, <2>2 DEF RepairInv, HeldInv, Held
  <2>4. QED
    BY <2>2, <2>3 DEF Verifying, Unopened, FailedStep, OpeningOps, FailedOp
<1>2. QED
  BY <1>1, RepairInvariant, PTL

\* RollbackClosesOrder: under the same assumption, a rollback of such a flow that ran
\* to its end has failed or parked the order it created or took up.
THEOREM RollbacksClose ==
  ASSUME "err" \notin RepairOutcomes, \A f \in Flows : \A r \in Requests : f[r] \notin LaterFlows
  PROVE  Spec => []RollbackClosesOrder
<1>1. PayInv /\ RollInv /\ RepairInv => RollbackClosesOrder
  <2>1. SUFFICES ASSUME PayInv, RepairInv, OnePayment, NEW r \in Requests, phase[r] = "failed",
                        flow[r] \notin TokenFlows \cup {"OrderCancel", "VerifyOTP"}, doc # NIL
                 PROVE  doc.status \in {"FAILED", "VERIFYING"} \/ FailedOp(r, "InitOrder")
    BY DEF RollbackClosesOrder
  <2>2. flow[r] \notin Unclosed /\ failedAt[r] # 0
    BY <2>1 DEF PayInv, Typed, RepairInv, FailedSome, Unclosed
  <2>3. Unmade(r) \/ Shut(doc)
    BY <2>1, <2>2 DEF RepairInv, ShutInv, Shuts
  <2>4. QED
    BY <2>1, <2>2, <2>3 DEF Unmade, Shut, FailedStep, FailedOp
<1>2. QED
  BY <1>1, RepairInvariant, PTL

\* VoucherFollowsOrder: under the same assumption, a rollback that fails the order has
\* given the voucher back; and, whatever fails, that of a paid order stays used.
THEOREM VouchersFollow ==
  ASSUME "err" \notin RepairOutcomes
  PROVE  Spec => []VoucherFollowsOrder
<1>1. PayInv /\ RollInv /\ RepairInv => VoucherFollowsOrder
  <2>1. SUFFICES ASSUME RollInv, RepairInv, OnePayment PROVE VoucherFollowsOrder
    BY DEF VoucherFollowsOrder
  <2>2. doc # NIL /\ doc.status = "SUCCESS" => voucher # "reversed"
    BY <2>1 DEF RepairInv, VoucherInv, SuccessInv
  <2>3. ASSUME NEW r \in Requests, phase[r] = "failed", voucher = "used" PROVE FALSE
    <3>1. PICK p \in Requests : Uses(p)
      BY <2>1, <2>3 DEF RepairInv, VoucherInv, UsedInv
    <3>2. p # r /\ phase[p] \notin {"idle", "refused"} /\ flow[p] \notin TokenInit
      BY <2>3, <3>1 DEF Uses
    <3>3. QED
      BY <2>1, <2>3, <3>2, Alone DEF RollInv
  <2>4. QED
    BY <2>2, <2>3 DEF VoucherFollowsOrder
<1>2. QED
  BY <1>1, RepairInvariant, PTL

-----------------------------------------------------------------------------
(* A wrong OTP: a request that asks the bank, and those that bring an OTP. *)

AskFlows == {"CashIn"} \cup TokenInit
OtpFlows == TokenOtp \cup {"VerifyOTP"}

\* The order and the amount are placed before the order is taken up, with the
\* transaction in it; past that the flow settles only what the bank has paid.
AskFlow(s) ==
  /\ Earlier(s, Len(s) + 1, {"ProcessingOrder"}) /\ Earlier(s, Len(s) + 1, OpeningOps)
  /\ \A k \in 1 .. Len(s) :
       /\ s[k].op \in {"Check", "InitOrder", "FindOrder", "InitPayment", "FindOrInitPayment",
                       "ProcessingOrder", "CashInRequest", "CashInBankGW", "ConfirmIfBypass",
                       "SuccessIfBypass"}
       /\ s[k].op \in OrderOps \cup OpeningOps => ~ Earlier(s, k, OpeningOps \cup {"ProcessingOrder"})
       /\ s[k].op \in OpeningOps => s[k].link
       /\ s[k].op = "ProcessingOrder" => Earlier(s, k, OpeningOps)

\* Until the OTP is accepted a flow only looks things up, but for the voucher.
OtpFlow(s) ==
  \A k \in 1 .. Len(s) :
    /\ ~ Earlier(s, k, {"VerifyOtp"}) =>
         /\ s[k].op \in {"FindOrder", "FindTransaction", "AccountVoucher", "VerifyOtp"}
         /\ s[k].comp \in {"None", "Reverse", "UndoOtp", "UndoTokenOtp"}
    /\ s[k].op \in BankOps => s[k].op = "VerifyOtp"

\* The three flows that ask the bank.
LEMMA AskFlowsAsk == \A f \in AskFlows : AskFlow(Flow[f])
<1> USE DEF AskFlow, Earlier, OrderOps, OpeningOps, Step, Linking
<1>1. AskFlow(CashInOpening \o CashInSettlement)
  BY SMTT(60) DEF CashInOpening, CashInSettlement
<1>2. AskFlow(InitPayByToken)
  BY SMTT(60) DEF InitPayByToken
<1>3. AskFlow(InitPayByTokenPlaced)
  BY SMTT(60) DEF InitPayByTokenPlaced
<1> HIDE DEF AskFlow, Earlier, OrderOps, OpeningOps, Step, Linking
<1>4. QED
  BY <1>1, <1>2, <1>3, FlowTable, Zenon DEF AskFlows, TokenInit

\* The six flows that bring an OTP.
LEMMA OtpFlowsTry == \A f \in OtpFlows : OtpFlow(Flow[f])
<1> USE DEF OtpFlow, Earlier, BankOps, Step, Linking, OtpOpening, Finalization
<1>1. OtpFlow(VerifyOTPOpening \o VerifyOTPSettlement)
  BY SMTT(60) DEF VerifyOTPOpening, VerifyOTPSettlement
<1>2. OtpFlow(BuyCardOtpOpening \o BuyCardTokenSettlement)
  BY SMTT(60) DEF BuyCardOtpOpening, BuyCardTokenSettlement
<1>3. OtpFlow(TopUpOtpOpening \o TopUpTokenSettlement)
  BY SMTT(60) DEF TopUpOtpOpening, TopUpTokenSettlement
<1>4. OtpFlow(PaidBillOtpOpening \o PaidBillTokenSettlement)
  BY SMTT(60) DEF PaidBillOtpOpening, PaidBillTokenSettlement
<1>5. OtpFlow(StaticQROtpOpening \o StaticQRTokenSettlement)
  BY SMTT(60) DEF StaticQROtpOpening, StaticQRTokenSettlement
<1>6. OtpFlow(ConfirmOrderOtpOpening \o ConfirmOrderTokenSettlement)
  BY SMTT(60) DEF ConfirmOrderOtpOpening, ConfirmOrderTokenSettlement
<1> HIDE DEF OtpFlow, Earlier, BankOps, Step, Linking, OtpOpening, Finalization
<1>7. QED
  BY <1>1, <1>2, <1>3, <1>4, <1>5, <1>6, FlowTable, Zenon DEF OtpFlows, TokenOtp

\* Whoever has passed the OTP was paid for, and one that has not asked the bank
\* has noted nothing; the cash in is past its OTP once the bank has paid.
TryInv ==
  \A r \in Requests :
    /\ flow[r] \in OtpFlows /\ Past(r, {"VerifyOtp"}) => bank[r] = "delivered"
    /\ flow[r] \in OtpFlows /\ bank[r] = "idle" => flag[r] = "none"
    /\ flow[r] \in AskFlows /\ flag[r] = "bypass" => bank[r] = "delivered"

\* The bank wants an OTP, and every OTP it was given was wrong.
Waits(c) ==
  /\ flow[c] \in AskFlows /\ bank[c] = "idle" /\ ~ timeUp
  /\ \A v \in Requests \ {c} :
       /\ flow[v] \in OtpFlows \cup {"NoRequest"}
       /\ flag[v] = "none" /\ bank[v] \in {"idle", "refused"}

\* What a request that asks the bank leaves for the OTP.
Placed(c) ==
  /\ Past(c, OpeningOps) => state[c] = "INITIAL" /\ order[c] # NIL /\ order[c].tran = c
  /\ ~ Past(c, OpeningOps) => TranOf(order[c]) = NIL
  /\ Past(c, {"ProcessingOrder"}) => doc # NIL /\ doc.status = "PROCESSING" /\ doc.tran = c
  /\ ~ Past(c, {"ProcessingOrder"}) => TranOf(doc) = NIL

WaitInv ==
  \A c \in Requests : Waits(c) /\ phase[c] \in {"idle", "run", "done"} => Placed(c)

\* No answer to an OTP asks for another one.
LEMMA OtpIsAnswered ==
  ASSUME PayInv, NEW r \in Requests, Execute(r), Cur(r).op = "VerifyOtp"
  PROVE  bank'[r] # "idle"
<1>1. VerifyOtp(r)
  BY DEF Execute, FindOrder, FindTransaction, Check, InitOrder, ProcessingOrder, SuccessOrder,
     CancelOrder, CancelInitial, AccountVoucher, InitPayment, ConfirmTrans, SkipStep, CallProvider,
     CallTransfer, CashInRequest, CashInBankGW, FailUnpaid, AtStep
<1>2. bank \in [Requests -> Deeds]
  BY DEF PayInv, Typed
<1>3. \A code \in BankCodes \ {"453"} : BankDid(code) # "idle"
  BY DEF BankCodes, BankDid, IsSuccess
<1>4. PICK did \in Deeds \ {"idle"} : bank' = [bank EXCEPT ![r] = did]
  <2>1. CASE \E code \in BankCodes \ {"453"} : bank' = [bank EXCEPT ![r] = BankDid(code)]
    BY <1>3, <2>1, CodesAre
  <2>2. CASE bank' = [bank EXCEPT ![r] = "delivered"]
    BY <2>2 DEF Deeds
  <2>3. QED
    BY <1>1, <2>1, <2>2 DEF VerifyOtp, BankAnswers
<1>5. QED
  BY <1>2, <1>4

\* The flows of the requests in question.
LEMMA OtpFacts ==
  ASSUME PayInv, NEW r \in Requests
  PROVE  /\ flow[r] \in AskFlows => AskFlow(Steps(r))
         /\ flow[r] \in OtpFlows => OtpFlow(Steps(r))
BY AskFlowsAsk, OtpFlowsTry DEF Steps

\* Where no request moves on and nothing is answered the answers tell the same.
LEMMA TrySame ==
  ASSUME TryInv, flow' = flow, pc' = pc, bank' = bank,
         \A r \in Requests : flow[r] \in AskFlows \cup OtpFlows => flag'[r] = flag[r]
  PROVE  TryInv'
<1>1. \A r \in Requests : Past(r, {"VerifyOtp"})' <=> Past(r, {"VerifyOtp"})
  BY PastStays
<1>2. QED
  BY <1>1 DEF TryInv

\* A step of a request keeps what its answers tell.
LEMMA WorkTries ==
  ASSUME PayInv, TryInv, NEW q \in Requests, Execute(q) \/ Compensate(q)
  PROVE  TryInv'
<1>1. Sound(q)
  BY WorkIsSound
<1>2. /\ flow' = flow /\ SoundOutside(q)
      /\ Advances(q) \/ Fails(q) \/ Undoes(q)
      /\ \A p \in Requests \ {q} : pc'[p] = pc[p] /\ flag'[p] = flag[p] /\ bank'[p] = bank[p]
      /\ pc[q] \in Nat
  BY <1>1 DEF Sound, SoundControl, SoundOutside, SoundRest, PayInv, Typed
<1>3. SUFFICES ASSUME NEW r \in Requests
      PROVE  /\ flow[r] \in OtpFlows /\ Past(r, {"VerifyOtp"})' => bank'[r] = "delivered"
             /\ flow[r] \in OtpFlows /\ bank'[r] = "idle" => flag'[r] = "none"
             /\ flow[r] \in AskFlows /\ flag'[r] = "bypass" => bank'[r] = "delivered"
  BY <1>2 DEF TryInv
<1>4. /\ flow[r] \in OtpFlows /\ Past(r, {"VerifyOtp"}) => bank[r] = "delivered"
      /\ flow[r] \in OtpFlows /\ bank[r] = "idle" => flag[r] = "none"
      /\ flow[r] \in AskFlows /\ flag[r] = "bypass" => bank[r] = "delivered"
  BY DEF TryInv
<1>5. CASE r # q
  <2>1. pc'[r] = pc[r] /\ flag'[r] = flag[r] /\ bank'[r] = bank[r]
    BY <1>2, <1>5
  <2>2. Past(r, {"VerifyOtp"})' <=> Past(r, {"VerifyOtp"})
    BY <1>2, <2>1, PastStays
  <2>3. QED
    BY <1>4, <2>1, <2>2
<1>6. CASE r = q
  <2>1. bank'[r] # bank[r] => bank[r] = "idle"
    BY <1>2, <1>6, IsReady DEF SoundOutside, Ready
  <2>2. flow[r] \in AskFlows /\ flag'[r] = "bypass" => bank'[r] = "delivered"
    BY <1>2, <1>4, <1>6, <2>1 DEF SoundOutside
  <2>3. ASSUME Runs(r) PROVE ~ Undoes(r) /\ pc[r] \in 1 .. Len(Steps(r)) /\ pc[r] >= 1
    BY <2>3, RunFacts DEF Undoes, Runs
  <2>4. ASSUME flow[r] \in OtpFlows, Past(r, {"VerifyOtp"})' PROVE bank'[r] = "delivered"
    <3>1. CASE Past(r, {"VerifyOtp"})
      BY <1>4, <2>1, <2>4, <3>1
    <3>2. CASE ~ Past(r, {"VerifyOtp"})
      <4>1. Advances(r)
        <5>1. Fails(r) => ~ Past(r, {"VerifyOtp"})'
          BY <1>2, <3>2, PastStays DEF Fails
        <5>2. Undoes(r) => ~ Past(r, {"VerifyOtp"})'
          BY <1>2, <1>6, <3>2 DEF Undoes, Past, Earlier, Steps
        <5>3. QED
          BY <1>2, <1>6, <2>4, <5>1, <5>2
      <4>2. Runs(r) /\ pc'[r] = pc[r] + 1
        BY <4>1 DEF Advances
      <4>3. Cur(r).op = "VerifyOtp"
        BY <1>2, <1>6, <2>3, <2>4, <3>2, <4>2, PastGrows
      <4>4. bank[r] = "idle"
        BY <4>2, <4>3, IsReady DEF Ready, BankOps
      <4>5. flag[r] # "bypass"
        BY <1>4, <2>4, <4>4
      <4>6. QED
        BY <1>2, <1>6, <4>1, <4>3, <4>5 DEF SoundOutside, PaidOps
    <3>3. QED
      BY <3>1, <3>2
  <2>5. ASSUME flow[r] \in OtpFlows, bank'[r] = "idle" PROVE flag'[r] = "none"
    <3>1. bank[r] = "idle" /\ flag[r] = "none"
      BY <1>4, <2>1, <2>5
    <3>2. ASSUME flag'[r] # flag[r] PROVE FALSE
      <4>1. Runs(r) /\ Cur(r).op \in BankOps \cup {"CallProvider"}
        BY <1>2, <1>6, <3>2 DEF SoundOutside
      <4>2. pc[r] \in 1 .. Len(Steps(r)) /\ OtpFlow(Steps(r)) /\ ~ Past(r, {"VerifyOtp"})
        BY <1>4, <2>3, <2>5, <3>1, <4>1, OtpFacts
      <4>3. Cur(r).op = "VerifyOtp"
        BY <4>1, <4>2 DEF OtpFlow, Past, Cur
      <4>4. Execute(r)
        BY <1>6, <4>1 DEF Compensate, CompensateNone, CompensateOrder, CompensateVoucher,
           CancelPayment, UndoProvider, UndoOtp, Park, AtComp, AtUndoOtp, Runs
      <4>5. QED
        BY <2>5, <4>3, <4>4, OtpIsAnswered
    <3>3. QED
      BY <3>1, <3>2
  <2>6. QED
    BY <2>2, <2>4, <2>5
<1>7. QED
  BY <1>5, <1>6

\* Every step keeps it.
LEMMA NextKeepsTryInv == PayInv /\ TryInv /\ [Next]_vars => TryInv'
<1>1. SUFFICES ASSUME PayInv, TryInv, [Next]_vars PROVE TryInv'
  OBVIOUS
<1>2. ASSUME NEW r \in Requests, Begin(r) \/ BeginByPass(r) PROVE TryInv'
  <2>1. UNCHANGED <<flow, pc, bank>>
    BY <1>2 DEF Begin, BeginByPass, outside
  <2>2. flow[r] \in TokenByPass => flow[r] \notin AskFlows \cup OtpFlows
    BY DEF TokenByPass, AskFlows, OtpFlows, TokenInit, TokenOtp
  <2>3. \A q \in Requests : flow[q] \in AskFlows \cup OtpFlows => flag'[q] = flag[q]
    <3>1. CASE Begin(r)
      BY <3>1 DEF Begin
    <3>2. CASE BeginByPass(r)
      <4>1. \A q \in Requests \ {r} : flag'[q] = flag[q]
        BY <1>1, <3>2, BeginByPassEnters DEF Enters
      <4>2. QED
        BY <2>2, <3>2, <4>1 DEF BeginByPass
    <3>3. QED
      BY <1>2, <3>1, <3>2
  <2>4. QED
    BY <1>1, <2>1, <2>3, TrySame
<1>3. ASSUME NEW r \in Requests, Execute(r) \/ Compensate(r) PROVE TryInv'
  BY <1>1, <1>3, WorkTries
<1>4. ASSUME NEW r \in Requests, Return(r) PROVE TryInv'
  BY <1>1, <1>4, TrySame DEF Return, outside, copies
<1>5. CASE \/ Tick \/ JobRead \/ (\E outcome \in RepairOutcomes : JobFail(outcome))
           \/ JobCancel \/ Crash \/ UNCHANGED vars
  <2>1. UNCHANGED <<flow, pc, bank, flag>>
    BY <1>5 DEF Tick, JobRead, JobFail, JobCancel, Crash, vars, outside, copies, control
  <2>2. QED
    BY <1>1, <2>1, TrySame
<1>6. QED
  BY <1>1, <1>2, <1>3, <1>4, <1>5 DEF Next, Work, Quiescent


\* What a step that goes on does to the order and the amount before the bank has paid.
AskStep(c) ==
  \/ /\ Cur(c).op \notin OrderOps \cup OpeningOps \cup {"ProcessingOrder"}
     /\ UNCHANGED <<order, doc, state>>
  \/ /\ Cur(c).op \in OrderOps
     /\ order'[c] = doc' /\ doc' \in {doc, NewOrder} /\ state' = state
  \/ /\ Cur(c).op \in OpeningOps
     /\ TranOf(order[c]) = NIL =>
          doc' = doc /\ state'[c] = "INITIAL" /\ order'[c] # NIL /\ order'[c].tran = c
  \/ /\ Cur(c).op = "ProcessingOrder"
     /\ order'[c] = [order[c] EXCEPT !.status = "PROCESSING"] /\ doc' = order'[c] /\ state' = state

\* The steps of the three flows.
LEMMA AskExecutes ==
  ASSUME PayInv, NEW c \in Requests, Execute(c), Advances(c), flow[c] \in AskFlows, flag[c] # "bypass"
  PROVE  AskStep(c)
<1> USE NilAssumption
<1>1. Runs(c) /\ ~ Fails(c)
  BY DEF Advances, Fails
<1>2. AskFlow(Steps(c)) /\ pc[c] \in 1 .. Len(Steps(c))
  BY <1>1, OtpFacts, RunFacts
<1>3. /\ Cur(c).op \in {"Check", "InitOrder", "FindOrder", "InitPayment", "FindOrInitPayment",
                        "ProcessingOrder", "CashInRequest", "CashInBankGW", "ConfirmIfBypass",
                        "SuccessIfBypass"}
      /\ Cur(c).op \in OpeningOps => Cur(c).link
  BY <1>2 DEF AskFlow, Cur
<1>4. order \in [Requests -> Orders \cup {NIL}] /\ state \in [Requests -> TransactionState]
  BY DEF PayInv, Typed
<1>5. Cur(c).op \in NeedsOrder => order[c] \in Orders
  BY <1>1, IsReady DEF Ready
<1>6. \A outcome : StepEnds(c, outcome) => outcome = "ok"
  BY <1>1, EndIsSound
<1>7. ~ StepFails(c)
  BY <1>1, FailIsSound
<1>8. CASE FindOrder(c)
  BY <1>4, <1>7, <1>8 DEF FindOrder, AskStep, AtStep, OrderOps, service
<1>9. CASE FindTransaction(c)
  BY <1>3, <1>5, <1>9 DEF FindTransaction, AskStep, AtStep, OpeningOps, NeedsOrder, TranOf
<1>10. CASE Check(c) \/ SkipStep(c) \/ CashInRequest(c) \/ CashInBankGW(c)
  BY <1>10 DEF Check, SkipStep, CashInRequest, CashInBankGW, AskStep, AtStep, OrderOps, OpeningOps,
     copies, service
<1>11. CASE InitOrder(c)
  BY <1>4, <1>6, <1>11 DEF InitOrder, StepWrites, AskStep, AtStep, OrderOps, service
<1>12. CASE ProcessingOrder(c)
  <2>1. Cur(c).op = "ProcessingOrder" /\ state' = state
    BY <1>12 DEF ProcessingOrder, AtStep, service
  <2>2. \E outcome : StepWrites(c, [order[c] EXCEPT !.status = "PROCESSING"], outcome)
    BY <1>7, <1>12 DEF ProcessingOrder
  <2>3. order'[c] = [order[c] EXCEPT !.status = "PROCESSING"] /\ doc' = order'[c]
    BY <1>4, <1>6, <2>2 DEF StepWrites
  <2>4. QED
    BY <2>1, <2>3 DEF AskStep
<1>13. CASE InitPayment(c)
  <2>1. Cur(c).op \in OpeningOps /\ Cur(c).link /\ order[c] \in Orders /\ doc' = doc
    BY <1>3, <1>5, <1>13 DEF InitPayment, AtStep, OpeningOps, NeedsOrder
  <2>2. state' = [state EXCEPT ![c] = "INITIAL"] /\ order' = [order EXCEPT ![c].tran = c]
    BY <1>6, <1>7, <1>13, <2>1 DEF InitPayment
  <2>3. order'[c] = [order[c] EXCEPT !.tran = c] /\ state'[c] = "INITIAL"
    BY <1>4, <2>2
  <2>4. order'[c] \in Orders /\ order'[c].tran = c
    BY <2>1, <2>3 DEF Orders
  <2>5. QED
    BY <2>1, <2>3, <2>4 DEF AskStep
<1>14. ~ (SuccessOrder(c) \/ ConfirmTrans(c) \/ CancelOrder(c) \/ CancelInitial(c) \/ AccountVoucher(c)
          \/ CallProvider(c) \/ CallTransfer(c) \/ FailUnpaid(c) \/ VerifyOtp(c))
  BY <1>3 DEF SuccessOrder, ConfirmTrans, CancelOrder, CancelInitial, AccountVoucher, CallProvider,
     CallTransfer, FailUnpaid, VerifyOtp, AtStep
<1>15. QED
  BY <1>8, <1>9, <1>10, <1>11, <1>12, <1>13, <1>14 DEF Execute

\* A request that has not passed its OTP touches neither order nor amount.
LEMMA TryLeaves ==
  ASSUME PayInv, NEW v \in Requests, flow[v] \in OtpFlows, flag[v] = "none", ~ Past(v, {"VerifyOtp"}),
         Execute(v) \/ Compensate(v)
  PROVE  doc' = doc /\ state' = state
<1>1. OtpFlow(Steps(v))
  BY OtpFacts
<1>2. CASE Execute(v)
  <2>1. pc[v] \in 1 .. Len(Steps(v))
    BY <1>2, ExecuteRuns, RunFacts DEF RunStep
  <2>2. Cur(v).op \in {"FindOrder", "FindTransaction", "AccountVoucher", "VerifyOtp"}
    BY <1>1, <2>1 DEF OtpFlow, Past, Cur
  <2>3. FindOrder(v) \/ FindTransaction(v) \/ AccountVoucher(v) \/ VerifyOtp(v)
    BY <1>2, <2>2 DEF Execute, Check, InitOrder, ProcessingOrder, SuccessOrder, CancelOrder,
       CancelInitial, InitPayment, ConfirmTrans, SkipStep, CallProvider, CallTransfer,
       CashInRequest, CashInBankGW, FailUnpaid, AtStep
  <2>4. QED
    BY <2>3 DEF FindOrder, FindTransaction, AccountVoucher, VerifyOtp, service
<1>3. CASE Compensate(v)
  <2>1. phase[v] = "abort" /\ pc[v] > 0
    BY <1>3, CompensateIs DEF UndoesStep, UndoStep
  <2>2. Cur(v).comp \in {"None", "Reverse", "UndoOtp", "UndoTokenOtp"}
    BY <1>1, <2>1, RollbackFacts DEF OtpFlow, Past, Cur
  <2>3. CompensateNone(v) \/ CompensateVoucher(v) \/ UndoOtp(v)
    BY <1>3, <2>2 DEF Compensate, CompensateOrder, CancelPayment, UndoProvider, Park, AtComp
  <2>4. CASE CompensateNone(v)
    BY <2>4 DEF CompensateNone, service
  <2>5. CASE CompensateVoucher(v)
    BY <2>2, <2>5 DEF CompensateVoucher, AtComp, service
  <2>6. CASE UndoOtp(v)
    BY <2>6 DEF UndoOtp, TransIsNil, service
  <2>7. QED
    BY <2>3, <2>4, <2>5, <2>6
<1>4. QED
  BY <1>2, <1>3

\* What a step does not wait for, nobody waited for before.
LEMMA WaitedBefore ==
  ASSUME PayInv, LoneInv, TryInv, NEW q \in Requests, Execute(q) \/ Compensate(q),
         NEW c \in Requests, Waits(c)'
  PROVE  Waits(c)
<1>1. /\ flow' = flow /\ timeUp' = timeUp /\ SoundOutside(q)
      /\ \A p \in Requests \ {q} : flag'[p] = flag[p] /\ bank'[p] = bank[p]
  BY WorkIsSound DEF Sound, SoundOutside, SoundRest, around
<1>2. bank'[q] # bank[q] => bank[q] = "idle"
  BY <1>1, IsReady DEF SoundOutside, Ready
<1>3. \A p \in Requests : bank'[p] \in {"idle", "refused"} => bank[p] \in {"idle", bank'[p]}
  BY <1>1, <1>2
<1>4. ASSUME flow[q] \in OtpFlows, bank'[q] \in {"idle", "refused"}, flag'[q] = "none"
      PROVE  flag[q] = "none"
  <2>1. SUFFICES ASSUME flag'[q] # flag[q] PROVE FALSE
    BY <1>4
  <2>2. Runs(q) /\ Cur(q).op \in BankOps \cup {"CallProvider"}
    BY <1>1, <2>1 DEF SoundOutside
  <2>3. Cur(q).op \notin BankOps
    <3>1. Cur(q).op \in BankOps => bank[q] = "idle"
      BY <2>2, IsReady DEF Ready
    <3>2. QED
      BY <1>4, <2>1, <3>1 DEF TryInv
  <2>4. bank[q] = bank'[q]
    BY <1>1, <2>3 DEF SoundOutside
  <2>5. ~ Past(q, {"VerifyOtp"})
    BY <1>4, <2>4 DEF TryInv
  <2>6. OtpFlow(Steps(q)) /\ pc[q] \in 1 .. Len(Steps(q))
    BY <1>4, <2>2, OtpFacts, RunFacts
  <2>7. QED
    BY <2>2, <2>3, <2>5, <2>6 DEF OtpFlow, Past, Cur
<1>5. flow[q] # "NoRequest"
  <2>1. phase[q] \in {"run", "abort"}
    BY WorkIsSound DEF Sound, SoundControl, Advances, Fails, Undoes, Runs
  <2>2. QED
    BY <2>1 DEF LoneInv
<1>6. QED
  BY <1>1, <1>2, <1>3, <1>4, <1>5 DEF Waits

\* Requests that leave order and amount alone keep what is placed.
LEMMA PlacedSame ==
  ASSUME NEW c \in Requests, Placed(c), flow' = flow, pc'[c] = pc[c], order'[c] = order[c],
         doc' = doc, state' = state
  PROVE  Placed(c)'
<1>1. /\ Past(c, OpeningOps)' <=> Past(c, OpeningOps)
      /\ Past(c, {"ProcessingOrder"})' <=> Past(c, {"ProcessingOrder"})
  BY PastStays
<1>2. QED
  BY <1>1 DEF Placed

\* Each step of the request itself places what it is there for.
LEMMA AskPlaces ==
  ASSUME PayInv, NEW c \in Requests, Execute(c), Advances(c), flow[c] \in AskFlows, flag[c] # "bypass",
         Placed(c)
  PROVE  Placed(c)'
<1> USE NilAssumption
<1>1. AskStep(c)
  BY AskExecutes
<1>2. Runs(c) /\ pc'[c] = pc[c] + 1 /\ pc[c] \in Nat /\ pc[c] >= 1 /\ flow' = flow
  BY ExecuteIs DEF Advances, Runs, PayInv, Typed, Control, ExecuteStep, Others
<1>3. AskFlow(Steps(c)) /\ pc[c] \in 1 .. Len(Steps(c))
  BY <1>2, OtpFacts, RunFacts
<1>4. /\ Past(c, OpeningOps)' <=> Past(c, OpeningOps) \/ Cur(c).op \in OpeningOps
      /\ Past(c, {"ProcessingOrder"})' <=> Past(c, {"ProcessingOrder"}) \/ Cur(c).op = "ProcessingOrder"
  BY <1>2, PastGrows
<1>5. /\ Cur(c).op \in OrderOps \cup OpeningOps =>
           ~ Past(c, OpeningOps) /\ ~ Past(c, {"ProcessingOrder"})
      /\ Cur(c).op = "ProcessingOrder" => Past(c, OpeningOps)
  BY <1>3 DEF AskFlow, Past, Cur, Earlier
<1>6. order[c] \in Orders \cup {NIL} /\ TranOf(NewOrder) = NIL
  BY DEF PayInv, Typed, TranOf, NewOrder
<1>7. CASE /\ Cur(c).op \notin OrderOps \cup OpeningOps \cup {"ProcessingOrder"}
           /\ UNCHANGED <<order, doc, state>>
  BY <1>4, <1>7 DEF Placed
<1>8. CASE /\ Cur(c).op \in OrderOps
           /\ order'[c] = doc' /\ doc' \in {doc, NewOrder} /\ state' = state
  BY <1>4, <1>5, <1>6, <1>8 DEF Placed, OrderOps, OpeningOps
<1>9. CASE /\ Cur(c).op \in OpeningOps
           /\ TranOf(order[c]) = NIL =>
                doc' = doc /\ state'[c] = "INITIAL" /\ order'[c] # NIL /\ order'[c].tran = c
  BY <1>4, <1>5, <1>9 DEF Placed, OpeningOps
<1>10. CASE /\ Cur(c).op = "ProcessingOrder"
            /\ order'[c] = [order[c] EXCEPT !.status = "PROCESSING"] /\ doc' = order'[c] /\ state' = state
  <2>1. order[c] \in Orders /\ order[c].tran = c
    BY <1>5, <1>6, <1>10 DEF Placed
  <2>2. order'[c] \in Orders /\ order'[c].tran = c /\ order'[c].status = "PROCESSING"
    BY <1>10, <2>1 DEF Orders, OrderStatus
  <2>3. QED
    BY <1>4, <1>5, <1>10, <2>2 DEF Placed
<1>11. QED
  BY <1>1, <1>7, <1>8, <1>9, <1>10 DEF AskStep

\* A step of a request keeps what the OTP needs.
LEMMA WorkWaits ==
  ASSUME PayInv, LoneInv, TryInv, WaitInv, NEW q \in Requests, Execute(q) \/ Compensate(q)
  PROVE  WaitInv'
<1>1. SUFFICES ASSUME NEW c \in Requests, Waits(c)', phase'[c] \in {"idle", "run", "done"}
               PROVE  Placed(c)'
  BY DEF WaitInv
<1>2. Waits(c)
  BY <1>1, WaitedBefore
<1>3. Sound(q)
  BY WorkIsSound
<1>4. flow' = flow /\ (q # c => phase'[c] = phase[c] /\ pc'[c] = pc[c] /\ order'[c] = order[c])
  BY <1>3 DEF Sound, SoundControl, SoundOrder, SoundRest
<1>5. CASE q # c
  <2>1. Placed(c)
    BY <1>1, <1>2, <1>4, <1>5 DEF WaitInv
  <2>2. phase[q] \in {"run", "abort"}
    BY <1>3 DEF Sound, SoundControl, Advances, Fails, Undoes, Runs
  <2>3. flow[q] \in OtpFlows /\ flag[q] = "none" /\ bank[q] # "delivered"
    BY <1>2, <1>5, <2>2 DEF Waits, LoneInv
  <2>4. ~ Past(q, {"VerifyOtp"})
    BY <2>3 DEF TryInv
  <2>5. doc' = doc /\ state' = state
    BY <2>3, <2>4, TryLeaves
  <2>6. QED
    BY <1>4, <1>5, <2>1, <2>5, PlacedSame
<1>6. CASE q = c
  <2>1. Advances(c)
    BY <1>1, <1>3, <1>6 DEF Sound, SoundControl, Fails, Undoes
  <2>2. phase[c] = "run"
    BY <2>1 DEF Advances, Runs
  <2>3. Placed(c) /\ flow[c] \in AskFlows /\ flag[c] # "bypass"
    BY <1>2, <2>2 DEF WaitInv, Waits, TryInv
  <2>4. Execute(c)
    BY <1>6, <2>2 DEF Compensate, CompensateNone, CompensateOrder, CompensateVoucher,
       CancelPayment, UndoProvider, UndoOtp, Park, AtComp, AtUndoOtp
  <2>5. QED
    BY <2>1, <2>3, <2>4, AskPlaces
<1>7. QED
  BY <1>5, <1>6


\* A request that begins has placed nothing yet.
LEMMA EnterWaits ==
  ASSUME PayInv, LoneInv, WaitInv, NEW r \in Requests, Begin(r) \/ BeginByPass(r)
  PROVE  WaitInv'
<1> USE NilAssumption
<1>1. Enters(r)
  BY BeginEnters, BeginByPassEnters
<1>2. SUFFICES ASSUME NEW c \in Requests, Waits(c)', phase'[c] \in {"idle", "run", "done"}
               PROVE  Placed(c)'
  BY DEF WaitInv
<1>3. /\ UNCHANGED <<flow, pc, doc, state, bank, timeUp>> /\ phase[r] = "idle"
      /\ \A q \in Requests \ {r} : order'[q] = order[q] /\ flag'[q] = flag[q] /\ phase'[q] = phase[q]
  BY <1>1 DEF Enters, service, outside, around, PayInv, Typed
<1>4. flow[r] \notin TokenByPass => flag' = flag
  BY DEF Begin, BeginByPass
<1>5. Waits(c)
  <2>1. \A v \in Requests \ {c} : flow[v] \in OtpFlows \cup {"NoRequest"} => flag'[v] = flag[v]
    BY <1>3, <1>4 DEF OtpFlows, TokenOtp, TokenByPass
  <2>2. QED
    BY <1>2, <1>3, <2>1 DEF Waits
<1>6. Placed(c)
  BY <1>2, <1>3, <1>5 DEF WaitInv
<1>7. CASE c # r
  BY <1>3, <1>6, <1>7, PlacedSame
<1>8. CASE c = r
  <2>1. flow[c] \notin Validated \cup TokenByPass
    BY <1>2, <1>3 DEF Waits, AskFlows, TokenInit, Validated, TokenByPass
  <2>2. order'[c] \in {NIL, order[c]}
    BY <1>8, <2>1 DEF Begin, BeginByPass, PayInv, Typed
  <2>3. pc[c] = 1
    BY <1>3, <1>8 DEF PayInv, Control
  <2>4. ~ Past(c, OpeningOps) /\ ~ Past(c, {"ProcessingOrder"})
    BY <2>3 DEF Past, Earlier
  <2>5. ~ Past(c, OpeningOps)' /\ ~ Past(c, {"ProcessingOrder"})'
    BY <1>3, <2>4, PastStays
  <2>6. TranOf(order[c]) = NIL /\ TranOf(doc) = NIL
    BY <1>6, <2>4 DEF Placed
  <2>7. TranOf(order[c])' = NIL /\ TranOf(doc)' = NIL
    BY <1>3, <2>2, <2>6 DEF TranOf
  <2>8. QED
    BY <2>5, <2>7 DEF Placed
<1>9. QED
  BY <1>7, <1>8

\* Until the order runs out only the requests work on it.
LEMMA StillWaits ==
  ASSUME WaitInv, UNCHANGED <<flow, pc, order, flag, bank>>,
         ~ timeUp' => ~ timeUp /\ UNCHANGED <<doc, state>>,
         \A q \in Requests : phase'[q] \in {"idle", "run", "done"} => phase[q] \in {"idle", "run", "done"}
  PROVE  WaitInv'
<1>1. SUFFICES ASSUME NEW c \in Requests, Waits(c)', phase'[c] \in {"idle", "run", "done"}
               PROVE  Placed(c)'
  BY DEF WaitInv
<1>2. Waits(c) /\ UNCHANGED <<doc, state>>
  BY <1>1 DEF Waits
<1>3. Placed(c)
  BY <1>1, <1>2 DEF WaitInv
<1>4. QED
  BY <1>2, <1>3, PlacedSame

\* Every step keeps it.
LEMMA NextKeepsWaitInv == PayInv /\ LoneInv /\ TryInv /\ WaitInv /\ [Next]_vars => WaitInv'
<1>1. SUFFICES ASSUME PayInv, LoneInv, TryInv, WaitInv, [Next]_vars PROVE WaitInv'
  OBVIOUS
<1>2. ASSUME NEW r \in Requests, Begin(r) \/ BeginByPass(r) PROVE WaitInv'
  BY <1>1, <1>2, EnterWaits
<1>3. ASSUME NEW r \in Requests, Execute(r) \/ Compensate(r) PROVE WaitInv'
  BY <1>1, <1>3, WorkWaits
<1>4. ASSUME NEW r \in Requests, Return(r) PROVE WaitInv'
  <2>1. EndStep(r)
    BY <1>1, <1>4, ReturnIsEnd
  <2>2. bank' = bank
    BY <1>4 DEF Return, outside
  <2>3. \A q \in Requests :
          phase'[q] \in {"idle", "run", "done"} => phase[q] \in {"idle", "run", "done"}
    BY <2>1 DEF EndStep, Others
  <2>4. QED
    BY <1>1, <2>1, <2>2, <2>3, StillWaits DEF EndStep, Others
<1>5. CASE \/ Tick \/ JobRead \/ (\E outcome \in RepairOutcomes : JobFail(outcome))
           \/ JobCancel \/ Crash \/ UNCHANGED vars
  <2>1. AroundStep
    BY <1>1, <1>5, AroundIsAround
  <2>2. bank' = bank
    BY <1>5 DEF Tick, JobRead, JobFail, JobCancel, Crash, vars, outside
  <2>3. ASSUME ~ timeUp' PROVE ~ timeUp /\ doc' = doc /\ state' = state
    <3>1. ~ timeUp /\ job.at = "idle"
      BY <1>1, <2>1, <2>3 DEF AroundStep, LoneInv
    <3>2. UNCHANGED <<doc, state>>
      BY <1>5, <3>1 DEF Tick, JobRead, JobFail, JobCancel, Crash, vars, service
    <3>3. QED
      BY <3>1, <3>2
  <2>4. \A q \in Requests :
          phase'[q] \in {"idle", "run", "done"} => phase[q] \in {"idle", "run", "done"}
    BY <2>1 DEF AroundStep
  <2>5. QED
    BY <1>1, <2>1, <2>2, <2>3, <2>4, StillWaits DEF AroundStep
<1>6. QED
  BY <1>1, <1>2, <1>3, <1>4, <1>5 DEF Next, Work, Quiescent

\* At first nothing is placed and nobody was answered.
LEMMA InitWaitInv == Init => TryInv /\ WaitInv
<1> USE NilAssumption
<1>1. SUFFICES ASSUME Init PROVE TryInv /\ WaitInv
  OBVIOUS
<1>2. \A r \in Requests : pc[r] = 1 /\ order[r] = NIL /\ flag[r] = "none"
  BY <1>1 DEF Init
<1>3. \A r \in Requests : ~ Past(r, {"VerifyOtp"}) /\ ~ Past(r, OpeningOps) /\ ~ Past(r, {"ProcessingOrder"})
  BY <1>2 DEF Past, Earlier
<1>4. TranOf(doc) = NIL
  BY <1>1 DEF Init, TranOf, NewOrder
<1>5. TryInv
  BY <1>2, <1>3 DEF TryInv
<1>6. WaitInv
  BY <1>2, <1>3, <1>4 DEF WaitInv, Placed, TranOf
<1>7. QED
  BY <1>5, <1>6

\* The invariants together.
LEMMA WaitInvariant == Spec => [](PayInv /\ RollInv /\ TryInv /\ WaitInv)
<1>1. Init => PayInv /\ RollInv /\ TryInv /\ WaitInv
  BY InitPayInv, InitRollInv, InitWaitInv
<1>2. PayInv /\ RollInv /\ TryInv /\ WaitInv /\ [Next]_vars => (PayInv /\ RollInv /\ TryInv /\ WaitInv)'
  BY NextKeepsPayInv, NextKeepsRollInv, NextKeepsTryInv, NextKeepsWaitInv DEF RollInv
<1>3. QED
  BY <1>1, <1>2, PTL DEF Spec

\* WrongOtpKeepsHold: while every OTP was wrong and the order has not run out, the
\* amount of a cash in or of InitPayByToken is on hold and the order is open, with
\* the transaction in it: VerifyOTP and the token's OTPs roll nothing back, whatever
\* fails in them and whenever the process goes down.
THEOREM WrongOtpsKeepHold == Spec => []WrongOtpKeepsHold
<1>1. PayInv /\ RollInv /\ TryInv /\ WaitInv => WrongOtpKeepsHold
  <2>1. SUFFICES ASSUME PayInv, WaitInv, NEW c \in Requests,
                        AsksBank(flow[c]), phase[c] = "done", bank[c] = "idle", ~ timeUp,
                        \A v \in Requests \ {c} :
                          /\ flow[v] \in TokenOtp \cup {"VerifyOTP", "NoRequest"}
                          /\ flag[v] = "none" /\ bank[v] \in {"idle", "refused"}
                 PROVE  state[c] = "INITIAL" /\ doc.status = "PROCESSING" /\ doc.tran = c
    BY DEF WrongOtpKeepsHold
  <2>2. Waits(c)
    BY <2>1 DEF Waits, AskFlows, OtpFlows, AsksBank
  <2>3. Placed(c)
    BY <2>1, <2>2 DEF WaitInv
  <2>4. Past(c, OpeningOps) /\ Past(c, {"ProcessingOrder"})
    <3>1. AskFlow(Steps(c)) /\ pc[c] = Len(Steps(c)) + 1
      BY <2>1, <2>2, OtpFacts DEF Waits, PayInv, Control
    <3>2. QED
      BY <3>1 DEF AskFlow, Past
  <2>5. QED
    BY <2>3, <2>4 DEF Placed
<1>2. QED
  BY <1>1, WaitInvariant, PTL


-----------------------------------------------------------------------------
(* A charge: who settles a payment has called the provider, and the bank.  *)

\* Who confirms has opened the transaction or learnt that it was paid; who opens
\* one of its own takes up no other; a provider is called once.
SettleFlow(s) ==
  /\ Once(s, {"CallProvider"})
  /\ \A k \in 1 .. Len(s) :
       /\ s[k].op = "ConfirmTrans" =>
            Earlier(s, k, {"InitPayment", "VerifyOtp", "FailUnpaid", "FailBankStatus"})
       /\ s[k].op = "ConfirmIfBypass" => Earlier(s, k, {"InitPayment", "CreditStatus"})
       /\ s[k].op = "InitPayment" =>
            ~ Earlier(s, Len(s) + 1, {"FindTransaction", "FindOrInitPayment"})

\* Every orchestrator settles that way.
LEMMA FlowsSettle == \A f \in FlowNames : SettleFlow(Flow[f])
<1> USE DEF SettleFlow, Earlier, Once, Step, Linking, OpenOrder
<1>1. SettleFlow(BuyCardOpening \o BuyCardSettlement)
  BY SMTT(60) DEF BuyCardOpening, BuyCardSettlement
<1>2. SettleFlow(TopUpOpening \o TopUpSettlement)
  BY SMTT(60) DEF TopUpOpening, TopUpSettlement
<1>3. SettleFlow(PayBillOpening \o PayBillSettlement)
  BY SMTT(60) DEF PayBillOpening, PayBillSettlement
<1>4. SettleFlow(CashOutOpening \o CashOutSettlement)
  BY SMTT(60) DEF CashOutOpening, CashOutSettlement
<1>5. SettleFlow(IBFTransferOpening \o IBFTransferSettlement)
  BY SMTT(60) DEF IBFTransferOpening, IBFTransferSettlement
<1>6. SettleFlow(FundWal2BankOpening \o FundWal2BankSettlement)
  BY SMTT(60) DEF FundWal2BankOpening, FundWal2BankSettlement
<1>7. SettleFlow(FundWal2WalOpening \o FundWal2WalSettlement)
  BY SMTT(60) DEF FundWal2WalOpening, FundWal2WalSettlement
<1>8. SettleFlow(StaticQROpening \o StaticQRSettlement)
  BY SMTT(60) DEF StaticQROpening, StaticQRSettlement
<1>9. SettleFlow(WithdrawMerchant)
  BY SMTT(60) DEF WithdrawMerchant
<1>10. SettleFlow(DepositMerchant)
  BY SMTT(60) DEF DepositMerchant
<1>11. SettleFlow(TransferGpayWallet)
  BY SMTT(60) DEF TransferGpayWallet
<1>12. SettleFlow(LixiOrchestrator)
  BY SMTT(60) DEF LixiOrchestrator
<1>13. SettleFlow(CashInOpening \o CashInSettlement)
  BY SMTT(60) DEF CashInOpening, CashInSettlement
<1>14. SettleFlow(VerifyOTPOpening \o VerifyOTPSettlement)
  BY SMTT(60) DEF VerifyOTPOpening, VerifyOTPSettlement
<1>15. SettleFlow(ConfirmOrderOpening \o <<OpenWalletSkip>> \o ConfirmOrderSettlement)
  BY SMTT(60) DEF ConfirmOrderOpening, OpenWalletSkip, ConfirmOrderSettlement
<1>16. SettleFlow(ConfirmOrderOpening \o <<OpenWalletCall>> \o ConfirmOrderSettlement)
  BY SMTT(60) DEF ConfirmOrderOpening, OpenWalletCall, ConfirmOrderSettlement
<1>17. SettleFlow(OrderCancel)
  BY SMTT(60) DEF OrderCancel
<1>18. SettleFlow(InitPayByToken)
  BY SMTT(60) DEF InitPayByToken
<1>19. SettleFlow(InitPayByTokenPlaced)
  BY SMTT(60) DEF InitPayByTokenPlaced
<1>20. SettleFlow(BuyCardOtpOpening \o BuyCardTokenSettlement)
  BY SMTT(60) DEF BuyCardOtpOpening, OtpOpening, BuyCardTokenSettlement, Finalization
<1>21. SettleFlow(BuyCardByPassOpening \o BuyCardTokenSettlement)
  BY SMTT(60) DEF BuyCardByPassOpening, ByPassOpening, BuyCardTokenSettlement, Finalization
<1>22. SettleFlow(TopUpOtpOpening \o TopUpTokenSettlement)
  BY SMTT(60) DEF TopUpOtpOpening, OtpOpening, TopUpTokenSettlement, Finalization
<1>23. SettleFlow(TopUpByPassOpening \o TopUpTokenSettlement)
  BY SMTT(60) DEF TopUpByPassOpening, ByPassOpening, TopUpTokenSettlement, Finalization
<1>24. SettleFlow(PaidBillOtpOpening \o PaidBillTokenSettlement)
  BY SMTT(60) DEF PaidBillOtpOpening, OtpOpening, PaidBillTokenSettlement, Finalization
<1>25. SettleFlow(PaidBillByPassOpening \o PaidBillTokenSettlement)
  BY SMTT(60) DEF PaidBillByPassOpening, ByPassOpening, PaidBillTokenSettlement, Finalization
<1>26. SettleFlow(StaticQROtpOpening \o StaticQRTokenSettlement)
  BY SMTT(60) DEF StaticQROtpOpening, OtpOpening, StaticQRTokenSettlement, Finalization
<1>27. SettleFlow(StaticQRByPassOpening \o StaticQRTokenSettlement)
  BY SMTT(60) DEF StaticQRByPassOpening, ByPassOpening, StaticQRTokenSettlement, Finalization
<1>28. SettleFlow(ConfirmOrderOtpOpening \o ConfirmOrderTokenSettlement)
  BY SMTT(60) DEF ConfirmOrderOtpOpening, OtpOpening, ConfirmOrderTokenSettlement, Finalization
<1>29. SettleFlow(ConfirmOrderByPassOpening \o ConfirmOrderTokenSettlement)
  BY SMTT(60) DEF ConfirmOrderByPassOpening, ByPassOpening, ConfirmOrderTokenSettlement,
     Finalization
<1>30. SettleFlow(NapasInitCashIn)
  BY SMTT(60) DEF NapasInitCashIn
<1>31. SettleFlow(NapasInitLink)
  BY SMTT(60) DEF NapasInitLink
<1>32. SettleFlow(PayInternational("InitOrder"))
  BY SMTT(60) DEF PayInternational, PayInternationalOpening
<1>33. SettleFlow(PayInternational("FindOrder"))
  BY SMTT(60) DEF PayInternational, PayInternationalOpening
<1>34. SettleFlow(ProcessCreditPayment)
  BY SMTT(60) DEF ProcessCreditPayment
<1>35. SettleFlow(CashInNAPAS)
  BY SMTT(60) DEF CashInNAPAS
<1>36. SettleFlow(UpdateCreditPayment)
  BY SMTT(60) DEF UpdateCreditPayment
<1>37. SettleFlow(UpdateBankStatus("CallProvider", "SkipProvider", "SkipProvider"))
  BY SMTT(60) DEF UpdateBankStatus, BankStatusOpening, BankStatusBuyCard, BankStatusTopUpBill,
     BankStatusSettlement
<1>38. SettleFlow(UpdateBankStatus("SkipProvider", "CallProvider", "SkipProvider"))
  BY SMTT(60) DEF UpdateBankStatus, BankStatusOpening, BankStatusBuyCard, BankStatusTopUpBill,
     BankStatusSettlement
<1>39. SettleFlow(UpdateBankStatus("SkipProvider", "SkipProvider", "CallProvider"))
  BY SMTT(60) DEF UpdateBankStatus, BankStatusOpening, BankStatusBuyCard, BankStatusTopUpBill,
     BankStatusSettlement
<1>40. SettleFlow(UpdateBankStatus("SkipProvider", "SkipProvider", "SkipProvider"))
  BY SMTT(60) DEF UpdateBankStatus, BankStatusOpening, BankStatusBuyCard, BankStatusTopUpBill,
     BankStatusSettlement
<1>41. SettleFlow(UpdateBalanceVA)
  BY SMTT(60) DEF UpdateBalanceVA
<1>42. SettleFlow(OrderUpdate)
  BY SMTT(60) DEF OrderUpdate
<1>43. SettleFlow(<<>>)
  BY SMTT(60)
<1> HIDE DEF SettleFlow, Earlier, Once, Step, Linking, OpenOrder
<1>44. SUFFICES ASSUME NEW f \in FlowNames PROVE SettleFlow(Flow[f])
  OBVIOUS
<1>45. QED
  BY <1>1, <1>2, <1>3, <1>4, <1>5, <1>6, <1>7, <1>8, <1>9, <1>10, <1>11, <1>12, <1>13, <1>14, <1>15,
     <1>16, <1>17, <1>18, <1>19, <1>20, <1>21, <1>22, <1>23, <1>24, <1>25, <1>26, <1>27, <1>28,
     <1>29, <1>30, <1>31, <1>32, <1>33, <1>34, <1>35, <1>36, <1>37, <1>38, <1>39, <1>40, <1>41,
     <1>42, <1>43, FlowNamesAre, FlowTable, ZenonT(60)


\* A transaction of its own is all a request names, and only who opens one has one.
OwnsTrans == \A r \in Requests : HasOp(flow[r], "InitPayment") => IdOf(trans[r]) \in {NIL, r}
Opened == \A t \in Requests : state[t] # "NONE" => Earlier(Steps(t), Len(Steps(t)) + 1, OpeningOps)

\* The steps of module BankSettlement are not made here.
Unanswered == \A r \in Requests : ~ Past(r, {"FailBankStatus", "CreditStatus"})

\* Who has passed the provider got the goods, and who has not got there none.
Called ==
  \A r \in Requests :
    /\ phase[r] = "run" /\ Past(r, {"CallProvider"}) => provider[r] = "delivered"
    /\ Ahead(r) /\ ~ Past(r, {"CallProvider"}) => provider[r] = "idle"

\* What is known of a charge.
ChargeInv == OwnsTrans /\ Opened /\ Unanswered /\ Called /\ ChargeAfterDelivery

\* A step puts nothing behind a request but what it has just done.
LEMMA PastOf ==
  ASSUME PayInv, NEW q \in Requests, Sound(q), NEW CONSTANT ops
  PROVE  /\ Past(q, ops)' => Past(q, ops) \/ (Advances(q) /\ Cur(q).op \in ops)
         /\ Advances(q) => (Past(q, ops)' <=> Past(q, ops) \/ Cur(q).op \in ops)
         /\ \A p \in Requests \ {q} : Past(p, ops)' <=> Past(p, ops)
<1>1. flow' = flow /\ (Advances(q) \/ Fails(q) \/ Undoes(q)) /\ pc[q] \in Nat
      /\ \A p \in Requests \ {q} : pc'[p] = pc[p]
  BY DEF Sound, SoundControl, SoundRest, PayInv, Typed
<1>2. \A p \in Requests \ {q} : Past(p, ops)' <=> Past(p, ops)
  BY <1>1, PastStays
<1>3. Advances(q) => (Past(q, ops)' <=> Past(q, ops) \/ Cur(q).op \in ops)
  <2>1. SUFFICES ASSUME Advances(q) PROVE Past(q, ops)' <=> Past(q, ops) \/ Cur(q).op \in ops
    OBVIOUS
  <2>2. pc[q] >= 1 /\ pc'[q] = pc[q] + 1
    BY <2>1 DEF Advances, Runs, PayInv, Control
  <2>3. QED
    BY <1>1, <2>2, PastGrows
<1>4. Fails(q) => (Past(q, ops)' <=> Past(q, ops))
  BY <1>1, PastStays DEF Fails
<1>5. Undoes(q) => (Past(q, ops)' => Past(q, ops))
  BY <1>1 DEF Undoes, Past, Earlier, Steps
<1>6. QED
  BY <1>1, <1>2, <1>3, <1>4, <1>5

\* A provider that lets a request go on has delivered.
LEMMA ProviderDelivers ==
  ASSUME PayInv, NEW q \in Requests, Execute(q), Advances(q), Cur(q).op = "CallProvider"
  PROVE  provider'[q] = "delivered"
<1>1. Runs(q) /\ provider \in [Requests -> Deeds]
  BY DEF Advances, PayInv, Typed
<1>2. \A outcome : StepEnds(q, outcome) => outcome = "ok"
  BY <1>1, EndIsSound DEF Advances, Fails
<1>3. \A did, noted, outcome : Answers(q, did, noted, outcome) => outcome = "ok" /\ provider'[q] = did
  BY <1>1, <1>2 DEF Answers
<1>4. CallProvider(q) \/ CallTransfer(q)
  BY DEF Execute, FindOrder, FindTransaction, Check, InitOrder, ProcessingOrder, SuccessOrder,
     CancelOrder, CancelInitial, AccountVoucher, InitPayment, ConfirmTrans, SkipStep,
     CashInRequest, CashInBankGW, FailUnpaid, VerifyOtp, AtStep
<1>5. CASE CallProvider(q)
  BY <1>3, <1>5 DEF CallProvider
<1>6. CASE CallTransfer(q)
  <2>1. CASE Answers(q, "delivered", "none", "err")
    BY <1>3, <2>1
  <2>2. ASSUME NEW code \in BankCodes \ {"449", "453"},
               NEW returned, NEW noted, returned \in {CashOutEnds(code), IBFTTransferEnds(code)},
               Answers(q, BankDid(code), noted, IF returned = "ok" /\ code = "102" THEN "err" ELSE returned)
        PROVE  provider'[q] = "delivered"
    <3>1. returned = "ok" /\ code # "102" /\ provider'[q] = BankDid(code)
      BY <1>3, <2>2
    <3>2. IsSuccess(code)
      BY <2>2, <3>1 DEF CashOutEnds, IBFTTransferEnds
    <3>3. QED
      BY <2>2, <3>1, <3>2, CodesAre
  <2>3. QED
    BY <1>6, <2>1, <2>2 DEF CallTransfer
<1>7. QED
  BY <1>4, <1>5, <1>6

\* No step of this module is one of module BankSettlement.
LEMMA NoAnswers ==
  ASSUME NEW q \in Requests, Execute(q)
  PROVE  Cur(q).op \notin {"FailBankStatus", "CreditStatus"}
BY DEF Execute, FindOrder, FindTransaction, Check, InitOrder, ProcessingOrder, SuccessOrder,
   CancelOrder, CancelInitial, AccountVoucher, InitPayment, ConfirmTrans, SkipStep, CallProvider,
   CallTransfer, CashInRequest, CashInBankGW, FailUnpaid, VerifyOtp, AtStep

\* The flow of a request settles.
LEMMA StepsSettle ==
  ASSUME PayInv, NEW r \in Requests
  PROVE  SettleFlow(Steps(r)) /\ DOMAIN Steps(r) = 1 .. Len(Steps(r)) /\ Len(Steps(r)) \in Nat
<1>1. flow \in Flows
  BY DEF PayInv, Typed
<1>2. QED
  BY <1>1, FlowsSettle, FlowsAssumption, StepsSound DEF Steps, SoundFlow

\* What a request names and what it has opened.
LEMMA WorkOwns ==
  ASSUME PayInv, OwnsTrans, Opened, Unanswered, NEW q \in Requests, Execute(q) \/ Compensate(q)
  PROVE  OwnsTrans' /\ Opened' /\ Unanswered'
<1> USE NilAssumption
<1>1. Sound(q)
  BY WorkIsSound
<1>2. /\ flow' = flow /\ \A p \in Requests \ {q} : trans'[p] = trans[p]
      /\ \A p \in Requests : Steps(p)' = Steps(p)
  BY <1>1 DEF Sound, SoundTrans, SoundRest, Steps
<1>3. SettleFlow(Steps(q)) /\ DOMAIN Steps(q) = 1 .. Len(Steps(q)) /\ Len(Steps(q)) \in Nat
  BY StepsSettle
<1>4. Runs(q) => pc[q] \in 1 .. Len(Steps(q))
  BY RunFacts
<1>5. OwnsTrans'
  <2>1. ASSUME HasOp(flow[q], "InitPayment") PROVE IdOf(trans'[q]) \in {NIL, q}
    <3>1. IdOf(trans[q]) \in {NIL, q}
      BY <2>1 DEF OwnsTrans
    <3>2. CASE Execute(q)
      <4>1. Runs(q) /\ RunsTrans(q)
        BY <3>2, ExecuteRuns DEF RunStep
      <4>2. PICK j \in 1 .. Len(Steps(q)) : Steps(q)[j].op = "InitPayment"
        BY <1>3, <2>1 DEF HasOp, Steps
      <4>3. Cur(q).op \notin {"FindTransaction", "FindOrInitPayment"}
        BY <1>3, <1>4, <4>1, <4>2 DEF SettleFlow, Earlier, Cur
      <4>4. QED
        BY <3>1, <4>1, <4>3 DEF RunsTrans
    <3>3. CASE Compensate(q)
      BY <3>1, <3>3, CompensateUndoes DEF UndoStep, UndoTrans
    <3>4. QED
      BY <3>2, <3>3
  <2>2. QED
    BY <1>2, <2>1 DEF OwnsTrans
<1>6. Opened'
  <2>1. SUFFICES ASSUME NEW t \in Requests, state'[t] # "NONE"
                 PROVE  Earlier(Steps(t), Len(Steps(t)) + 1, OpeningOps)
    BY <1>2 DEF Opened
  <2>2. CASE state[t] # "NONE"
    BY <2>2 DEF Opened
  <2>3. CASE state[t] = "NONE"
    <3>1. t = q /\ Runs(q) /\ Cur(q).op \in OpeningOps
      BY <1>1, <2>1, <2>3 DEF Sound, SoundService
    <3>2. QED
      BY <1>3, <1>4, <3>1 DEF Earlier, Cur
  <2>4. QED
    BY <2>2, <2>3
<1>7. Unanswered'
  <2>1. Advances(q) => Execute(q)
    BY CompensateIs DEF UndoesStep, Undoes, Advances, Runs
  <2>2. ~ Past(q, {"FailBankStatus", "CreditStatus"})'
    BY <1>1, <2>1, PastOf, NoAnswers DEF Unanswered
  <2>3. QED
    BY <1>1, <2>2, PastOf DEF Unanswered
<1>8. QED
  BY <1>5, <1>6, <1>7

\* Where a request is tells what the provider did.
LEMMA WorkCalls ==
  ASSUME PayInv, Called, NEW q \in Requests, Execute(q) \/ Compensate(q)
  PROVE  Called'
<1>1. Sound(q)
  BY WorkIsSound
<1>2. /\ \A p \in Requests \ {q} : phase'[p] = phase[p] /\ provider'[p] = provider[p]
      /\ provider'[q] # provider[q] => Cur(q).op = "CallProvider"
      /\ Advances(q) \/ Fails(q) \/ Undoes(q)
  BY <1>1 DEF Sound, SoundControl, SoundOutside
<1>3. ASSUME NEW p \in Requests \ {q}
      PROVE  /\ phase'[p] = "run" /\ Past(p, {"CallProvider"})' => provider'[p] = "delivered"
             /\ Ahead(p)' /\ ~ Past(p, {"CallProvider"})' => provider'[p] = "idle"
  <2>1. Past(p, {"CallProvider"})' <=> Past(p, {"CallProvider"})
    BY <1>1, PastOf
  <2>2. QED
    BY <1>2, <2>1 DEF Called, Ahead
<1>4. ASSUME Ahead(q)'
      PROVE  /\ Past(q, {"CallProvider"})' => provider'[q] = "delivered"
             /\ ~ Past(q, {"CallProvider"})' => provider'[q] = "idle"
  <2>1. Advances(q) /\ phase[q] = "run"
    BY <1>2, <1>4 DEF Ahead, Fails, Undoes, Advances, Runs
  <2>2. Execute(q)
    BY <2>1, CompensateIs DEF UndoesStep, Undoes
  <2>3. Past(q, {"CallProvider"})' <=> Past(q, {"CallProvider"}) \/ Cur(q).op = "CallProvider"
    BY <1>1, <2>1, PastOf
  <2>4. CASE Cur(q).op = "CallProvider"
    BY <2>1, <2>2, <2>3, <2>4, ProviderDelivers
  <2>5. CASE Cur(q).op # "CallProvider"
    BY <1>2, <2>1, <2>3, <2>5 DEF Called, Ahead
  <2>6. QED
    BY <2>4, <2>5
<1>5. QED
  BY <1>3, <1>4 DEF Called, Ahead

\* What was delivered stays delivered, and what the bank has paid stays paid.
LEMMA DeedsStay ==
  ASSUME PayInv, Called, NEW q \in Requests, Execute(q) \/ Compensate(q), NEW p \in Requests
  PROVE  /\ provider[p] = "delivered" => provider'[p] = "delivered"
         /\ bank[p] = "delivered" => bank'[p] = "delivered"
<1>1. SoundOutside(q)
  BY WorkIsSound DEF Sound
<1>2. CASE p # q
  BY <1>1, <1>2 DEF SoundOutside
<1>3. CASE p = q
  <2>1. bank'[p] # bank[p] => bank[p] = "idle"
    BY <1>1, <1>3, IsReady DEF SoundOutside, Ready
  <2>2. provider'[p] # provider[p] => provider[p] = "idle"
    <3>1. SUFFICES ASSUME Runs(p), Cur(p).op = "CallProvider" PROVE provider[p] = "idle"
      BY <1>1, <1>3 DEF SoundOutside
    <3>2. Once(Steps(p), {"CallProvider"}) /\ pc[p] \in 1 .. Len(Steps(p))
      BY <3>1, StepsSettle, RunFacts DEF SettleFlow
    <3>3. ~ Past(p, {"CallProvider"})
      BY <3>1, <3>2 DEF Once, Past, Earlier, Cur
    <3>4. QED
      BY <3>1, <3>3 DEF Called, Ahead, Runs
  <2>3. QED
    BY <2>1, <2>2
<1>4. QED
  BY <1>2, <1>3


\* Who confirms has called its provider, if it has one.
LEMMA ConfirmsAfterCall ==
  ASSUME PayInv, Called, NEW q \in Requests, Runs(q), Cur(q).op \in ConfirmOps,
         HasOp(flow[q], "CallProvider")
  PROVE  provider[q] = "delivered"
<1>1. /\ pc[q] \in 1 .. Len(Steps(q)) /\ DOMAIN Steps(q) = 1 .. Len(Steps(q)) /\ SoundFlow(flow[q], Steps(q))
      /\ Len(Steps(q)) \in Nat
  BY RunFacts, StepsSound DEF SoundFlow, PayInv, Typed
<1>2. PICK j \in 1 .. Len(Steps(q)) : Steps(q)[j].op = "CallProvider"
  BY <1>1 DEF HasOp, Steps
<1>3. j # pc[q]
  BY <1>2 DEF Cur, ConfirmOps
<1>4. ~ pc[q] < j
  <2>1. ~ Earlier(Steps(q), j, FinalOps)
    BY <1>1, <1>2 DEF SoundFlow, RollbackStep, FinalOps, ConfirmOps
  <2>2. QED
    BY <1>1, <2>1 DEF Earlier, Cur, FinalOps
<1>5. Past(q, {"CallProvider"})
  BY <1>1, <1>2, <1>3, <1>4 DEF Past, Earlier
<1>6. QED
  BY <1>5 DEF Called, Runs

\* Who charges a payment made with goods has got them.
LEMMA ChargesGoods ==
  ASSUME PayInv, OwnInv, ChargeInv, NEW q \in Requests, Execute(q), Opened',
         NEW t \in Requests, Charged(t)', ~ Charged(t), BuysGoods(t)
  PROVE  provider[q] = "delivered"
<1> USE NilAssumption
<1>1. Runs(q) /\ Cur(q).op \in ConfirmOps /\ t = IdOf(trans[q]) /\ flow' = flow
  BY ExecuteIs DEF ExecuteStep, RunStep, RunsMoney, Others
<1>2. pc[q] \in 1 .. Len(Steps(q)) /\ RollbackStep(flow[q], Steps(q), pc[q])
      /\ SettleFlow(Steps(q)) /\ DOMAIN Steps(q) = 1 .. Len(Steps(q))
  BY <1>1, RunFacts, StepsSettle
<1>3. OwnsTrans /\ Unanswered /\ Called
  BY DEF ChargeInv
<1>4. CASE HasOp(flow[t], "CallProvider")
  <2>1. SoundFlow(flow[t], Steps(t))
    BY StepsSound DEF PayInv, Typed
  <2>2. PICK j \in 1 .. Len(Steps(t)) : Steps(t)[j].op = "CallProvider"
    BY <1>4, <2>1 DEF HasOp, Steps, SoundFlow
  <2>3. Earlier(Steps(t), Len(Steps(t)) + 1, OpeningOps)
    <3>1. state'[t] # "NONE"
      BY DEF Charged
    <3>2. QED
      BY <1>1, <3>1 DEF Opened, Steps
  <2>4. flow[t] \in OwnFlows
    BY <2>1, <2>2, <2>3 DEF SoundFlow, RollbackStep, AskOps
  <2>5. t = q
    BY <1>1, <2>4 DEF OwnInv, Own
  <2>6. QED
    BY <1>1, <1>3, <1>4, <2>5, ConfirmsAfterCall
<1>5. CASE /\ flow[t] \in TokenInit
           /\ \A r \in Requests \ {t} : HasOp(flow[r], "ConfirmTrans") => HasOp(flow[r], "CallProvider")
  <2>1. q # t
    BY <1>1, <1>2, <1>5 DEF RollbackStep, Cur
  <2>2. CASE Cur(q).op = "ConfirmTrans"
    <3>1. HasOp(flow[q], "ConfirmTrans")
      BY <1>2, <2>2 DEF HasOp, Cur, Steps
    <3>2. QED
      BY <1>1, <1>3, <1>5, <2>1, <3>1, ConfirmsAfterCall
  <2>3. CASE Cur(q).op = "ConfirmIfBypass"
    <3>1. PICK j \in 1 .. pc[q] - 1 : Steps(q)[j].op \in {"InitPayment", "CreditStatus"}
      BY <1>2, <2>3 DEF SettleFlow, Earlier, Cur
    <3>2. Steps(q)[j].op = "InitPayment"
      BY <1>3, <3>1 DEF Unanswered, Past, Earlier
    <3>3. HasOp(flow[q], "InitPayment")
      BY <1>2, <3>1, <3>2 DEF HasOp, Steps
    <3>4. QED
      BY <1>1, <1>3, <2>1, <3>3 DEF OwnsTrans
  <2>4. QED
    BY <1>1, <2>2, <2>3 DEF ConfirmOps
<1>6. QED
  BY <1>4, <1>5 DEF BuysGoods

\* Who charges a payment made through a bank has learnt that the bank has paid.
LEMMA ChargesPaid ==
  ASSUME PayInv, OwnsTrans, Unanswered, NEW q \in Requests, Execute(q),
         NEW t \in Requests, Charged(t)', ~ Charged(t), AsksBank(flow[t])
  PROVE  SomePaid
<1> USE NilAssumption
<1>1. Runs(q) /\ Cur(q).op \in ConfirmOps /\ t = IdOf(trans[q]) /\ flow' = flow
  BY ExecuteIs DEF ExecuteStep, RunStep, RunsMoney, Others
<1>2. pc[q] \in 1 .. Len(Steps(q)) /\ SettleFlow(Steps(q)) /\ DOMAIN Steps(q) = 1 .. Len(Steps(q))
      /\ phase[q] = "run"
  BY <1>1, RunFacts, StepsSettle DEF Runs
<1>3. CASE Cur(q).op = "ConfirmIfBypass"
  <2>1. state' # state
    BY DEF Charged
  <2>2. flag[q] = "bypass"
    <3>1. ~ (\/ FindOrder(q) \/ FindTransaction(q) \/ Check(q) \/ InitOrder(q) \/ ProcessingOrder(q)
             \/ SuccessOrder(q) \/ CancelOrder(q) \/ CancelInitial(q) \/ AccountVoucher(q)
             \/ InitPayment(q) \/ CallProvider(q) \/ CallTransfer(q) \/ CashInRequest(q)
             \/ CashInBankGW(q) \/ FailUnpaid(q) \/ VerifyOtp(q))
      BY <1>3 DEF FindOrder, FindTransaction, Check, InitOrder, ProcessingOrder,
         SuccessOrder, CancelOrder, CancelInitial, AccountVoucher, InitPayment, CallProvider,
         CallTransfer, CashInRequest, CashInBankGW, FailUnpaid, VerifyOtp, AtStep
    <3>2. ConfirmTrans(q) \/ SkipStep(q)
      BY <3>1 DEF Execute
    <3>3. ~ SkipStep(q)
      BY <2>1 DEF SkipStep, service
    <3>4. QED
      BY <1>3, <3>2, <3>3 DEF ConfirmTrans, AtStep
  <2>3. QED
    BY <2>2 DEF PayInv, PaidByBank
<1>4. CASE Cur(q).op = "ConfirmTrans"
  <2>1. PICK j \in 1 .. pc[q] - 1 :
              Steps(q)[j].op \in {"InitPayment", "VerifyOtp", "FailUnpaid", "FailBankStatus"}
    BY <1>2, <1>4 DEF SettleFlow, Earlier, Cur
  <2>2. Steps(q)[j].op # "FailBankStatus"
    BY <2>1 DEF Unanswered, Past, Earlier
  <2>3. Steps(q)[j].op # "InitPayment"
    <3>1. SUFFICES ASSUME Steps(q)[j].op = "InitPayment" PROVE FALSE
      OBVIOUS
    <3>2. HasOp(flow[q], "InitPayment")
      BY <1>2, <2>1, <3>1 DEF HasOp, Steps
    <3>3. q = t
      BY <1>1, <3>2 DEF OwnsTrans
    <3>4. AskFlow(Steps(q))
      BY <3>3, OtpFacts DEF AsksBank, AskFlows
    <3>5. QED
      BY <1>2, <1>4, <3>4 DEF AskFlow, Cur
  <2>4. Past(q, PaidOps)
    BY <2>1, <2>2, <2>3 DEF Past, Earlier, PaidOps
  <2>5. QED
    BY <1>2, <2>4 DEF PayInv, PaidByBank
<1>5. QED
  BY <1>1, <1>3, <1>4 DEF ConfirmOps

\* A step of a request keeps all of it.
LEMMA WorkCharges ==
  ASSUME PayInv, OwnInv, ChargeInv, NEW q \in Requests, Execute(q) \/ Compensate(q)
  PROVE  ChargeInv'
<1>1. OwnsTrans' /\ Opened' /\ Unanswered' /\ Called'
  BY WorkOwns, WorkCalls DEF ChargeInv
<1>2. flow' = flow
  BY WorkIsSound DEF Sound, SoundRest
<1>3. SUFFICES ASSUME NEW t \in Requests, Charged(t)'
      PROVE  /\ BuysGoods(t) => \E r \in Requests : provider'[r] = "delivered"
             /\ AsksBank(flow[t]) => \E r \in Requests : bank'[r] = "delivered"
  BY <1>1, <1>2 DEF ChargeInv, ChargeAfterDelivery, BuysGoods
<1>4. \A r \in Requests : /\ provider[r] = "delivered" => provider'[r] = "delivered"
                          /\ bank[r] = "delivered" => bank'[r] = "delivered"
  BY DeedsStay DEF ChargeInv
<1>5. CASE Charged(t)
  BY <1>4, <1>5 DEF ChargeInv, ChargeAfterDelivery
<1>6. CASE ~ Charged(t)
  <2>1. Execute(q)
    BY <1>3, <1>6, CompensateUndoes DEF UndoStep, UndoMoney
  <2>2. BuysGoods(t) => provider[q] = "delivered"
    BY <1>1, <1>3, <1>6, <2>1, ChargesGoods
  <2>3. AsksBank(flow[t]) => SomePaid
    BY <1>3, <1>6, <2>1, ChargesPaid DEF ChargeInv
  <2>4. QED
    BY <1>4, <2>2, <2>3 DEF SomePaid
<1>7. QED
  BY <1>5, <1>6

\* Around the steps of the requests nothing is charged or delivered.
LEMMA ChargesSame ==
  ASSUME ChargeInv, UNCHANGED <<flow, pc, provider, bank>>,
         \A r \in Requests : /\ phase'[r] = "run" => phase[r] = "run" \/ (phase[r] = "idle" /\ pc[r] = 1)
                             /\ phase'[r] = "idle" => phase[r] = "idle"
                             /\ HasOp(flow[r], "InitPayment") => trans'[r] = trans[r]
                             /\ state'[r] # state[r] => state[r] = "INITIAL" /\ state'[r] = "RELEASED"
  PROVE  ChargeInv'
<1>1. \A r \in Requests : /\ Past(r, {"CallProvider"})' <=> Past(r, {"CallProvider"})
                          /\ Past(r, {"FailBankStatus", "CreditStatus"})' <=>
                               Past(r, {"FailBankStatus", "CreditStatus"})
                          /\ Steps(r)' = Steps(r)
  BY PastStays DEF Steps
<1>2. OwnsTrans' /\ Unanswered'
  BY <1>1 DEF ChargeInv, OwnsTrans, Unanswered
<1>3. Opened'
  BY <1>1 DEF ChargeInv, Opened
<1>4. Called'
  <2>1. \A r \in Requests : pc[r] = 1 => ~ Past(r, {"CallProvider"})
    BY DEF Past, Earlier
  <2>2. QED
    BY <1>1, <2>1 DEF ChargeInv, Called, Ahead
<1>5. ChargeAfterDelivery'
  <2>1. \A t \in Requests : Charged(t)' => Charged(t)
    BY DEF Charged
  <2>2. \A t \in Requests : BuysGoods(t)' <=> BuysGoods(t)
    BY DEF BuysGoods
  <2>3. QED
    BY <2>1, <2>2 DEF ChargeInv, ChargeAfterDelivery
<1>6. QED
  BY <1>2, <1>3, <1>4, <1>5 DEF ChargeInv

\* No flow that goes on from InitPayByToken opens a transaction.
LEMMA ByPassOpensNone == \A f \in TokenByPass : ~ HasOp(f, "InitPayment")
<1> DEFINE None(s) == \A k \in DOMAIN s : s[k].op # "InitPayment"
<1> USE DEF Step, Linking, ByPassOpening, Finalization
<1>1. None(BuyCardByPassOpening \o BuyCardTokenSettlement)
  BY SMTT(60) DEF BuyCardByPassOpening, BuyCardTokenSettlement
<1>2. None(TopUpByPassOpening \o TopUpTokenSettlement)
  BY SMTT(60) DEF TopUpByPassOpening, TopUpTokenSettlement
<1>3. None(PaidBillByPassOpening \o PaidBillTokenSettlement)
  BY SMTT(60) DEF PaidBillByPassOpening, PaidBillTokenSettlement
<1>4. None(StaticQRByPassOpening \o StaticQRTokenSettlement)
  BY SMTT(60) DEF StaticQRByPassOpening, StaticQRTokenSettlement
<1>5. None(ConfirmOrderByPassOpening \o ConfirmOrderTokenSettlement)
  BY SMTT(60) DEF ConfirmOrderByPassOpening, ConfirmOrderTokenSettlement
<1> HIDE DEF Step, Linking, ByPassOpening, Finalization, None
<1>6. \A f \in TokenByPass : None(Flow[f])
  BY <1>1, <1>2, <1>3, <1>4, <1>5, FlowTable, Zenon DEF TokenByPass
<1>7. QED
  BY <1>6, Zenon DEF HasOp, None

\* Every step keeps it.
LEMMA NextKeepsChargeInv == PayInv /\ OwnInv /\ ChargeInv /\ [Next]_vars => ChargeInv'
<1>1. SUFFICES ASSUME PayInv, OwnInv, ChargeInv, [Next]_vars PROVE ChargeInv'
  OBVIOUS
<1>2. ASSUME NEW r \in Requests, Begin(r) \/ BeginByPass(r) PROVE ChargeInv'
  <2>1. Enters(r)
    BY <1>1, <1>2, BeginEnters, BeginByPassEnters
  <2>2. /\ UNCHANGED <<flow, pc, provider, bank, state>> /\ phase[r] = "idle" /\ pc[r] = 1
        /\ phase'[r] \in {"run", "refused"}
        /\ \A q \in Requests \ {r} : phase'[q] = phase[q] /\ trans'[q] = trans[q]
    BY <1>1, <2>1 DEF Enters, service, outside, PayInv, Typed, Control
  <2>3. HasOp(flow[r], "InitPayment") => trans'[r] = trans[r]
    BY <1>2, ByPassOpensNone DEF Begin, BeginByPass
  <2>4. QED
    BY <1>1, <2>2, <2>3, ChargesSame
<1>3. ASSUME NEW r \in Requests, Execute(r) \/ Compensate(r) PROVE ChargeInv'
  BY <1>1, <1>3, WorkCharges
<1>4. ASSUME NEW r \in Requests, Return(r) PROVE ChargeInv'
  <2>1. EndStep(r) /\ UNCHANGED <<provider, bank>>
    BY <1>1, <1>4, ReturnIsEnd DEF Return, outside
  <2>2. \A q \in Requests : phase'[q] \in {"run", "idle"} => phase'[q] = phase[q]
    BY <2>1 DEF EndStep, Others
  <2>3. QED
    BY <1>1, <2>1, <2>2, ChargesSame DEF EndStep, Others
<1>5. CASE \/ Tick \/ JobRead \/ (\E outcome \in RepairOutcomes : JobFail(outcome))
           \/ JobCancel \/ Crash \/ UNCHANGED vars
  <2>1. AroundStep
    BY <1>1, <1>5, AroundIsAround
  <2>2. UNCHANGED <<provider, bank>>
    BY <1>5 DEF Tick, JobRead, JobFail, JobCancel, Crash, vars, outside
  <2>3. \A q \in Requests : phase'[q] \in {"run", "idle"} => phase'[q] = phase[q]
    BY <2>1 DEF AroundStep
  <2>4. QED
    BY <1>1, <2>1, <2>2, <2>3, ChargesSame DEF AroundStep
<1>6. QED
  BY <1>1, <1>2, <1>3, <1>4, <1>5 DEF Next, Work, Quiescent

\* At first nobody has done anything.
LEMMA InitChargeInv == Init => ChargeInv
<1> USE NilAssumption
<1>1. SUFFICES ASSUME Init PROVE ChargeInv
  OBVIOUS
<1>2. \A r \in Requests : pc[r] = 1 /\ trans[r] = NIL /\ state[r] = "NONE" /\ provider[r] = "idle"
  BY <1>1 DEF Init
<1>3. \A r \in Requests : ~ Past(r, {"CallProvider"}) /\ ~ Past(r, {"FailBankStatus", "CreditStatus"})
  BY <1>2 DEF Past, Earlier
<1>4. QED
  BY <1>2, <1>3 DEF ChargeInv, OwnsTrans, IdOf, Opened, Unanswered, Called, ChargeAfterDelivery, Charged

\* ChargeAfterDelivery: whatever requests run on the order, and whatever fails or
\* goes down, ConfirmTransaction charges a payment for goods only when a provider has
\* delivered, and one made through a bank only when the bank has paid.
THEOREM ChargesFollowDelivery == Spec => []ChargeAfterDelivery
<1>1. Init => PayInv /\ RollInv /\ ChargeInv
  BY InitPayInv, InitRollInv, InitChargeInv
<1>2. PayInv /\ RollInv /\ ChargeInv /\ [Next]_vars => (PayInv /\ RollInv /\ ChargeInv)'
  BY NextKeepsPayInv, NextKeepsRollInv, NextKeepsChargeInv DEF RollInv
<1>3. ChargeInv => ChargeAfterDelivery
  BY DEF ChargeInv
<1>4. QED
  BY <1>1, <1>2, <1>3, PTL DEF Spec
=============================================================================
