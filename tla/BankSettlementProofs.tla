------------------------ MODULE BankSettlementProofs ------------------------
(***************************************************************************)
(* Proofs about payments the bank settles later, module BankSettlement,    *)
(* for every set of requests and every assignment of flows with one        *)
(* opening request.                                                        *)
(*                                                                         *)
(* LaterInv says what a request that has come so far knows of the bank: an *)
(* answer begins after the bank has decided, goes past FAIL BANK STATUS    *)
(* only if the bank has paid, and when it is rolled back after it tried to *)
(* charge the payer, it panics before it gives anything back.  Acts(r) is  *)
(* what one step of request r may do to the state; each step of the flows  *)
(* and each compensation does no more, and that is enough for LaterInv.    *)
(*                                                                         *)
(* GoodsInv is about messages that are handled one after the other: goods  *)
(* that were delivered have the order closed before the next one looks,    *)
(* unless the message broke.  NapasInv is about an order opened through    *)
(* NAPAS: until the opening request has stored its transaction nobody can  *)
(* charge it, and then the job knows from the bank what it does to it.     *)
(* Both rest on CopiesInv, what is known of the copies of the order.       *)
(***************************************************************************)
EXTENDS BankSettlement, PaymentSagaProofs

-----------------------------------------------------------------------------
(* The flows of payments that are settled later.                           *)

LaterOps ==
  {"InitOrder", "InitPayment", "FindOrInitPayment", "ProcessingOrder", "ProcessingKept", "Check",
   "FindOrder", "FindTransaction", "CheckFraud", "AskBank", "CheckAmount", "SettleNapas",
   "CreditStatus", "ConfirmIfBypass", "SuccessIfBypass", "FailBankStatus", "AccountVoucher",
   "CallProvider", "SkipProvider", "ConfirmTrans", "SuccessOrder", "ReplaceOrder"}
LaterComps == {"None", "CancelPayment", "Reverse", "UndoProvider", "Park", "ParkGuarded"}

\* The steps of a bank status message.
StatusOps ==
  {"FindOrder", "FindTransaction", "FailBankStatus", "AccountVoucher", "CallProvider",
   "SkipProvider", "ConfirmTrans", "SuccessOrder"}

LaterStep(f, s, k) ==
  /\ s[k].op \in LaterOps /\ s[k].comp \in LaterComps
  /\ s[k].op \in {"AskBank", "CheckFraud"} => f \in LaterOpenings
  /\ s[k].op = "AskBank" => ~ Earlier(s, k, {"AskBank"})
  /\ s[k].op = "SettleNapas" => f = "CashInNAPAS"
  /\ s[k].op \in {"FailBankStatus", "ConfirmTrans"} => f \in BankStatuses
  /\ s[k].op = "ConfirmTrans" => Earlier(s, k, {"FailBankStatus"})
  /\ s[k].comp = "CancelPayment" => f \in LaterOpenings \cup BankStatuses
  /\ s[k].comp = "UndoProvider" => f \in BankStatuses
  /\ f \in BankStatuses =>
       /\ s[k].op \in StatusOps
       /\ s[k].op = "FindOrder" <=> k = 1
       /\ s[k].op = "FindTransaction" <=> k = 2
       /\ s[k].op \in {"ConfirmTrans", "SuccessOrder"} => s[k].comp = "Park"

LaterFlow(f, s) == \A k \in 1 .. Len(s) : LaterStep(f, s, k)

\* Each of these flows registers its steps in that order.
LEMMA LaterFlowsAre == \A f \in LaterFlows \cup {"NoRequest"} : LaterFlow(f, Flow[f])
<1> USE DEF LaterFlow, LaterStep, LaterOps, LaterComps, StatusOps, Earlier, LaterOpenings,
            BankStatuses, Step, Linking
<1>1. LaterFlow("NapasInitCashIn", NapasInitCashIn)
  BY SMTT(60) DEF NapasInitCashIn
<1>2. LaterFlow("NapasInitLink", NapasInitLink)
  BY SMTT(60) DEF NapasInitLink
<1>3. LaterFlow("PayInternational", PayInternational("InitOrder"))
  BY SMTT(60) DEF PayInternational, PayInternationalOpening
<1>4. LaterFlow("PayInternationalPlaced", PayInternational("FindOrder"))
  BY SMTT(60) DEF PayInternational, PayInternationalOpening
<1>5. LaterFlow("ProcessCreditPayment", ProcessCreditPayment)
  BY SMTT(60) DEF ProcessCreditPayment
<1>6. LaterFlow("CashInNAPAS", CashInNAPAS)
  BY SMTT(60) DEF CashInNAPAS
<1>7. LaterFlow("UpdateCreditPayment", UpdateCreditPayment)
  BY SMTT(60) DEF UpdateCreditPayment
<1>8. LaterFlow("BankStatusCard",
      UpdateBankStatus("CallProvider", "SkipProvider", "SkipProvider"))
  BY SMTT(60) DEF UpdateBankStatus, BankStatusOpening, BankStatusBuyCard, BankStatusTopUpBill,
     BankStatusSettlement
<1>9. LaterFlow("BankStatusTopUp",
      UpdateBankStatus("SkipProvider", "CallProvider", "SkipProvider"))
  BY SMTT(60) DEF UpdateBankStatus, BankStatusOpening, BankStatusBuyCard, BankStatusTopUpBill,
     BankStatusSettlement
<1>10. LaterFlow("BankStatusBill",
      UpdateBankStatus("SkipProvider", "SkipProvider", "CallProvider"))
  BY SMTT(60) DEF UpdateBankStatus, BankStatusOpening, BankStatusBuyCard, BankStatusTopUpBill,
     BankStatusSettlement
<1>11. LaterFlow("BankStatusOther",
      UpdateBankStatus("SkipProvider", "SkipProvider", "SkipProvider"))
  BY SMTT(60) DEF UpdateBankStatus, BankStatusOpening, BankStatusBuyCard, BankStatusTopUpBill,
     BankStatusSettlement
<1>12. LaterFlow("OrderUpdate", OrderUpdate)
  BY SMTT(60) DEF OrderUpdate
<1>13. LaterFlow("NoRequest", <<>>)
  BY SMTT(60)
<1> HIDE DEF LaterFlow, LaterOpenings, BankStatuses
<1>14. QED
  BY <1>1, <1>2, <1>3, <1>4, <1>5, <1>6, <1>7, <1>8, <1>9, <1>10, <1>11, <1>12, <1>13, FlowTable, ZenonT(60) DEF LaterFlows, LaterOpenings,
     AnswerFlows, BankStatuses

-----------------------------------------------------------------------------
(* The inductive invariant.                                                *)

OnRequests(f) == f = [q \in Requests |-> f[q]]

\* The shape of the state, as far as it matters here.
Shaped ==
  /\ flow \in Flows
  /\ phase \in [Requests -> Phases]
  /\ pc \in [Requests -> Nat] /\ failedAt \in [Requests -> Nat]
  /\ \A r \in Requests : failedAt[r] <= Len(Steps(r))
  /\ state \in [Requests -> TransactionState]
  /\ bank \in [Requests -> Deeds]
  /\ OnRequests(flag) /\ OnRequests(trans) /\ OnRequests(order)
  /\ job = [at |-> job.at, read |-> job.read]

Places ==
  \A r \in Requests :
    /\ phase[r] \in {"idle", "refused"} => pc[r] = 1 /\ failedAt[r] = 0
    /\ phase[r] = "run" => pc[r] >= 1 /\ failedAt[r] = 0
    /\ phase[r] = "abort" => failedAt[r] >= 1 /\ pc[r] <= failedAt[r]

BankRefused == BankDecided /\ ~ BankPaid

\* The bank is asked once, by the opening request.
AskedOnce == \A r \in Requests : Ahead(r) /\ ~ Past(r, {"AskBank"}) => bank[r] = "idle"

\* What requests and job know of the bank.
AnswersTell ==
  \A r \in Requests :
    flow[r] \in AnswerFlows \ {"UpdateCreditPayment"} /\ phase[r] # "idle" => BankDecided
PassedIsPaid ==
  \A r \in Requests :
    /\ phase[r] = "run" /\ Past(r, {"FailBankStatus"}) => BankPaid
    /\ flag[r] = "bypass" => BankPaid
JobKnows ==
  /\ job.at # "idle" => timeUp
  /\ job.at = "confirm" => BankPaid

\* A bank status message has no transaction before it has found one.
NoTransYet ==
  \A r \in Requests :
    /\ flow[r] \in BankStatuses
    /\ \/ phase[r] \in {"idle", "run"} /\ pc[r] <= 2
       \/ phase[r] = "abort" /\ failedAt[r] <= 2
    => trans[r] = NIL

\* Why a bank status message is rolled back, and that it panics when it has tried
\* to charge the payer.
WhyUndone ==
  \A r \in Requests :
    flow[r] \in BankStatuses /\ phase[r] = "abort" =>
      /\ FailedStep(r) # "SkipProvider"
      /\ FailedStep(r) = "FailBankStatus" => BankRefused
      /\ FailedStep(r) = "ConfirmTrans" => pc[r] = failedAt[r] /\ trans[r] = NIL
      /\ FailedStep(r) = "SuccessOrder" => pc[r] = failedAt[r] /\ order[r] = NIL

\* A reason to give transaction t back.
Reason(t) ==
  \/ timeUp \/ failedAt[t] # 0
  \/ \E r \in Requests, op \in {"AccountVoucher", "CallProvider"} : FailedOp(r, op)

ReleasedUnlessRefused ==
  \A t \in Requests : Opens(t) /\ state[t] = "RELEASED" /\ bank[t] # "refused" => Reason(t)

LaterInv ==
  /\ Shaped /\ Places /\ AskedOnce /\ AnswersTell /\ PassedIsPaid /\ JobKnows /\ NoTransYet
  /\ WhyUndone /\ ChargedIsBankPaid /\ ReleasedUnlessRefused

-----------------------------------------------------------------------------
(* What a step of request r may do.                                        *)

OnlyAt(f, g, r) == g = [f EXCEPT ![r] = g[r]]

\* Why transactions may be given back in this step.
Grounds == BankRefused \/ \A t \in Requests : Opens(t) => Reason(t)'

ActsOnCopies(r) ==
  OnlyAt(order, order', r) /\ OnlyAt(trans, trans', r) /\ OnlyAt(flag, flag', r)

ActsOnMoney ==
  /\ state' \in [Requests -> TransactionState]
  /\ \A t \in Requests :
       /\ state'[t] = "APPLIED" => state[t] = "APPLIED" \/ BankPaid
       /\ state'[t] = "RELEASED" => state[t] = "RELEASED" \/ Grounds

ActsOnBank(r) ==
  /\ OnlyAt(bank, bank', r)
  /\ bank'[r] # bank[r] =>
       Runs(r) /\ Cur(r).op = "AskBank" /\ bank'[r] \in {"refused", "unknown"}
  /\ flag'[r] = "bypass" => flag[r] = "bypass" \/ BankPaid
  /\ Advances(r) /\ Cur(r).op = "FailBankStatus" => BankPaid

\* What a bank status message leaves behind when it fails and is rolled back.
ActsOnFailure(r) ==
  /\ Runs(r) /\ Cur(r).op = "FindOrder" => trans'[r] = trans[r]
  /\ Fails(r) =>
       /\ Cur(r).op = "FindTransaction" => trans'[r] = trans[r]
       /\ Cur(r).op # "SkipProvider"
       /\ Cur(r).op = "FailBankStatus" => BankRefused
       /\ Cur(r).op = "ConfirmTrans" => trans'[r] = NIL
       /\ Cur(r).op = "SuccessOrder" => order'[r] = NIL
  /\ Undoes(r) =>
       /\ trans[r] = NIL => trans'[r] = NIL
       /\ flow[r] \in BankStatuses /\ FailedStep(r) \in {"ConfirmTrans", "SuccessOrder"} =>
            phase'[r] = "panic"

Acts(r) ==
  /\ SoundControl(r) /\ UNCHANGED <<flow, around>>
  /\ ActsOnCopies(r) /\ ActsOnMoney /\ ActsOnBank(r) /\ ActsOnFailure(r)

\* The steps of the requests are those of such a flow.
LEMMA LaterSteps ==
  ASSUME flow \in Flows, NEW r \in Requests
  PROVE  /\ flow[r] \in LaterFlows \cup {"NoRequest"}
         /\ LaterFlow(flow[r], Steps(r))
         /\ Len(Steps(r)) \in Nat
<1>1. flow[r] \in LaterFlows \cup {"NoRequest"}
  BY SettledAssumption
<1>2. LaterFlow(flow[r], Steps(r))
  BY <1>1, LaterFlowsAre, Zenon DEF Steps
<1>3. Len(Steps(r)) \in Nat
  BY StepsSound DEF SoundFlow
<1>4. QED
  BY <1>1, <1>2, <1>3

\* There is one opening request.
LEMMA OneOpening ==
  ASSUME flow \in Flows, NEW r \in Requests, NEW t \in Requests, Opens(r), Opens(t)
  PROVE  r = t
BY SettledAssumption DEF Opens

\* The step a request is at is one of its flow.
LEMMA LaterCur ==
  ASSUME LaterInv, NEW r \in Requests, Runs(r) \/ (phase[r] = "abort" /\ pc[r] > 0)
  PROVE  LaterStep(flow[r], Steps(r), pc[r]) /\ pc[r] \in 1 .. Len(Steps(r))
<1>1. /\ flow \in Flows /\ pc[r] \in Nat /\ failedAt[r] \in Nat /\ failedAt[r] <= Len(Steps(r))
      /\ phase[r] = "run" => pc[r] >= 1
      /\ phase[r] = "abort" => pc[r] <= failedAt[r]
  BY DEF LaterInv, Shaped, Places
<1>2. Len(Steps(r)) \in Nat
  BY <1>1, LaterSteps
<1>3. pc[r] \in 1 .. Len(Steps(r))
  BY <1>1, <1>2 DEF Runs
<1>4. QED
  BY <1>1, <1>3, LaterSteps, Zenon DEF LaterFlow

\* The step a rollback started at is one of its flow.
LEMMA LaterFailed ==
  ASSUME LaterInv, NEW r \in Requests, phase[r] = "abort"
  PROVE  LaterStep(flow[r], Steps(r), failedAt[r]) /\ failedAt[r] \in 1 .. Len(Steps(r))
<1>1. flow \in Flows /\ failedAt[r] \in Nat /\ failedAt[r] <= Len(Steps(r)) /\ failedAt[r] >= 1
  BY DEF LaterInv, Shaped, Places
<1>2. Len(Steps(r)) \in Nat
  BY <1>1, LaterSteps
<1>3. failedAt[r] \in 1 .. Len(Steps(r))
  BY <1>1, <1>2
<1>4. QED
  BY <1>1, <1>3, LaterSteps, Zenon DEF LaterFlow

\* A step that succeeds goes on to the next one.
LEMMA OkActs ==
  ASSUME LaterInv, NEW r \in Requests, Runs(r), StepOK(r)
  PROVE  SoundControl(r) /\ Advances(r) /\ ~ Fails(r) /\ ~ Undoes(r)
BY DEF LaterInv, Shaped, StepOK, SoundControl, Advances, Fails, Undoes, Runs

\* A step that fails starts the rollback.
LEMMA FailActs ==
  ASSUME LaterInv, NEW r \in Requests, Runs(r), StepFails(r)
  PROVE  SoundControl(r) /\ Fails(r) /\ ~ Advances(r) /\ ~ Undoes(r)
BY DEF LaterInv, Shaped, StepFails, SoundControl, Fails, Advances, Undoes, Runs, Phases

\* A step advances if its call answered "ok", and fails if it did not.
LEMMA EndActs ==
  ASSUME LaterInv, NEW r \in Requests, NEW outcome, Runs(r), StepEnds(r, outcome)
  PROVE  /\ SoundControl(r) /\ ~ Undoes(r)
         /\ outcome = "ok" => Advances(r) /\ ~ Fails(r)
         /\ outcome # "ok" => Fails(r) /\ ~ Advances(r)
BY OkActs, FailActs DEF StepEnds

\* A compensation goes on to the one before it.
LEMMA UndoActs ==
  ASSUME LaterInv, NEW r \in Requests, phase[r] = "abort", pc[r] > 0, Compensated(r)
  PROVE  SoundControl(r)
BY DEF LaterInv, Shaped, Compensated, SoundControl, Undoes

\* A panic ends the rollback.
LEMMA PanicActs ==
  ASSUME LaterInv, NEW r \in Requests, phase[r] = "abort", pc[r] > 0, Panics(r)
  PROVE  SoundControl(r) /\ phase'[r] = "panic"
BY DEF LaterInv, Shaped, Panics, SoundControl, Undoes, Phases

-----------------------------------------------------------------------------
(* The parts of a step.                                                    *)

\* A copy that is written, or not, is written at one request.
LEMMA WrittenAt ==
  ASSUME NEW f, OnRequests(f), NEW r \in Requests
  PROVE  OnlyAt(f, f, r) /\ \A x : OnlyAt(f, [f EXCEPT ![r] = x], r)
<1>1. f = [f EXCEPT ![r] = f[r]]
  BY DEF OnRequests
<1>2. ASSUME NEW x PROVE [f EXCEPT ![r] = x][r] = x
  BY DEF OnRequests
<1>3. QED
  BY <1>1, <1>2 DEF OnlyAt

\* The copies and the bank are such functions.
LEMMA CopiesAre ==
  ASSUME LaterInv
  PROVE  /\ OnRequests(order) /\ OnRequests(trans) /\ OnRequests(flag) /\ OnRequests(bank)
         /\ flow \in Flows
BY DEF LaterInv, Shaped, OnRequests

\* A step that neither charges nor gives back.
LEMMA MoneyKept ==
  ASSUME LaterInv, UNCHANGED state
  PROVE  ActsOnMoney
BY DEF LaterInv, Shaped, ActsOnMoney

\* A step that puts an amount on hold.
LEMMA MoneyHeld ==
  ASSUME LaterInv, NEW t, state' = [state EXCEPT ![t] = "INITIAL"]
  PROVE  ActsOnMoney
BY DEF LaterInv, Shaped, ActsOnMoney, TransactionState

\* A call that cancels a transaction.
LEMMA MoneyGiven ==
  ASSUME LaterInv, NEW t, NEW outcome, CancelEnds(t, outcome), Grounds
  PROVE  ActsOnMoney
<1>1. state \in [Requests -> TransactionState]
  BY DEF LaterInv, Shaped
<1>2. state' = state \/ state' = [state EXCEPT ![t] = "RELEASED"]
  BY DEF CancelEnds, service
<1>3. QED
  BY <1>1, <1>2 DEF ActsOnMoney, TransactionState

\* A step that cancels the request's transaction.
LEMMA TransactionGiven ==
  ASSUME LaterInv, NEW r \in Requests, CancelTransaction(r), Grounds
  PROVE  ActsOnMoney /\ OnlyAt(trans, trans', r)
<1>1. PICK outcome \in {"ok", "err", "lost"} :
        /\ CancelEnds(trans[r].id, outcome)
        /\ trans' = [trans EXCEPT ![r] = IF outcome = "ok" THEN [@ EXCEPT !.status = "FAILED"]
                                         ELSE NIL]
  BY DEF CancelTransaction
<1>2. ActsOnMoney
  BY <1>1, MoneyGiven
<1>3. OnlyAt(trans, trans', r)
  BY <1>1, CopiesAre, WrittenAt
<1>4. QED
  BY <1>2, <1>3

\* A call that charges the payer, once the bank has paid.
LEMMA MoneyCharged ==
  ASSUME LaterInv, NEW t, BankPaid, state' \in {state, [state EXCEPT ![t] = "APPLIED"]}
  PROVE  ActsOnMoney
BY DEF LaterInv, Shaped, ActsOnMoney, TransactionState

\* A step that does not ask the bank.
LEMMA BankKept ==
  ASSUME LaterInv, NEW r \in Requests, UNCHANGED bank,
         flag'[r] = "bypass" => flag[r] = "bypass" \/ BankPaid,
         Advances(r) /\ Cur(r).op = "FailBankStatus" => BankPaid
  PROVE  ActsOnBank(r)
BY CopiesAre, WrittenAt DEF ActsOnBank

\* A step that stores an order: its copy is what it stored, or nil.
LEMMA WriteActs ==
  ASSUME LaterInv, NEW r \in Requests, NEW entity, NEW outcome, Runs(r),
         StepWrites(r, entity, outcome)
  PROVE  /\ SoundControl(r) /\ ~ Undoes(r) /\ OnlyAt(order, order', r)
         /\ Fails(r) => order'[r] = NIL
<1>1. /\ order' = [order EXCEPT ![r] = IF outcome = "ok" THEN entity ELSE NIL]
      /\ SoundControl(r) /\ ~ Undoes(r)
      /\ Fails(r) => outcome # "ok"
  BY EndActs DEF StepWrites
<1>2. OnlyAt(order, order', r)
  BY <1>1, CopiesAre, WrittenAt
<1>3. Fails(r) => order'[r] = NIL
  BY <1>1, CopiesAre DEF OnRequests
<1>4. QED
  BY <1>1, <1>2, <1>3

\* A call that closes the order.
LEMMA CloseActs ==
  ASSUME LaterInv, NEW r \in Requests, NEW status, ClosesOrder(r, status)
  PROVE  OnlyAt(order, order', r)
<1>1. order' = [order EXCEPT ![r] = [order[r] EXCEPT !.status = status]]
  BY DEF ClosesOrder
<1>2. QED
  BY <1>1, CopiesAre, WrittenAt

\* The order part of a compensation panics without a copy of the order.
LEMMA MoveActs ==
  ASSUME LaterInv, NEW r \in Requests, phase[r] = "abort", pc[r] > 0, NEW status, NEW skip,
         CompensationMoves(r, status, skip)
  PROVE  /\ SoundControl(r) /\ OnlyAt(order, order', r)
         /\ order[r] = NIL => phase'[r] = "panic"
<1>1. CASE order[r] = NIL
  BY <1>1, PanicActs, CopiesAre, WrittenAt DEF CompensationMoves
<1>2. CASE order[r] # NIL
  BY <1>2, UndoActs, CopiesAre, WrittenAt, CloseActs DEF CompensationMoves, CompensationWrites
<1>3. QED
  BY <1>1, <1>2

\* A step that touches no transaction and does not ask the bank.
LEMMA QuietActs ==
  ASSUME LaterInv, NEW r \in Requests, SoundControl(r),
         UNCHANGED <<flow, trans, flag, state, bank, around>>, OnlyAt(order, order', r),
         Advances(r) => Cur(r).op # "FailBankStatus",
         Fails(r) =>
           /\ Cur(r).op \notin {"FailBankStatus", "ConfirmTrans", "SkipProvider"}
           /\ Cur(r).op = "SuccessOrder" => order'[r] = NIL,
         Undoes(r) /\ flow[r] \in BankStatuses =>
           FailedStep(r) \notin {"ConfirmTrans", "SuccessOrder"} \/ phase'[r] = "panic"
  PROVE  Acts(r)
<1>1. ActsOnCopies(r)
  BY CopiesAre, WrittenAt DEF ActsOnCopies
<1>2. ActsOnMoney
  BY MoneyKept
<1>3. ActsOnBank(r)
  BY BankKept
<1>4. ActsOnFailure(r)
  BY DEF ActsOnFailure
<1>5. QED
  BY <1>1, <1>2, <1>3, <1>4 DEF Acts

-----------------------------------------------------------------------------
(* The steps of the flows.                                                 *)

\* A step that is at its place runs.
LEMMA AtRuns ==
  ASSUME NEW r \in Requests, NEW op, AtStep(r, op)
  PROVE  Runs(r) /\ Cur(r).op = op /\ ~ Undoes(r)
BY DEF AtStep, Runs, Undoes

\* The steps that look at or store the order.
LEMMA OrderSteps ==
  ASSUME LaterInv, NEW r \in Requests,
         \/ FindOrder(r) \/ InitOrder(r) \/ ProcessingOrder(r) \/ ProcessingKept(r)
         \/ SuccessOrder(r) \/ ReplaceOrder(r)
  PROVE  Acts(r)
<1>1. CASE FindOrder(r)
  <2>1. Runs(r) /\ Cur(r).op = "FindOrder" /\ ~ Undoes(r)
    BY <1>1, AtRuns DEF FindOrder
  <2>2. SoundControl(r) /\ OnlyAt(order, order', r)
    BY <1>1, <2>1, OkActs, FailActs, CopiesAre, WrittenAt DEF FindOrder
  <2>3. UNCHANGED <<flow, trans, flag, state, bank, around>>
    BY <1>1 DEF FindOrder, service, outside
  <2>4. QED
    BY <2>1, <2>2, <2>3, QuietActs
<1>2. CASE InitOrder(r)
  <2>1. Runs(r) /\ Cur(r).op = "InitOrder" /\ ~ Undoes(r)
    BY <1>2, AtRuns DEF InitOrder
  <2>2. SoundControl(r) /\ OnlyAt(order, order', r)
    BY <1>2, <2>1, WriteActs DEF InitOrder
  <2>3. UNCHANGED <<flow, trans, flag, state, bank, around>>
    BY <1>2 DEF InitOrder, service, outside
  <2>4. QED
    BY <2>1, <2>2, <2>3, QuietActs
<1>3. CASE ProcessingOrder(r)
  <2>1. Runs(r) /\ Cur(r).op = "ProcessingOrder" /\ ~ Undoes(r)
    BY <1>3, AtRuns DEF ProcessingOrder
  <2>2. SoundControl(r) /\ OnlyAt(order, order', r)
    BY <1>3, <2>1, WriteActs, FailActs, CopiesAre, WrittenAt DEF ProcessingOrder
  <2>3. UNCHANGED <<flow, trans, flag, state, bank, around>>
    BY <1>3 DEF ProcessingOrder, service, outside
  <2>4. QED
    BY <2>1, <2>2, <2>3, QuietActs
<1>4. CASE ProcessingKept(r)
  <2>1. Runs(r) /\ Cur(r).op = "ProcessingKept" /\ ~ Undoes(r)
    BY <1>4, AtRuns DEF ProcessingKept
  <2>2. SoundControl(r) /\ OnlyAt(order, order', r)
    <3>1. PICK outcome \in {"ok", "err", "lost"} :
            /\ order' = [order EXCEPT ![r] = [Linked(r) EXCEPT !.status = "PROCESSING"]]
            /\ StepEnds(r, outcome)
      BY <1>4, OutcomesAssumption DEF ProcessingKept
    <3>2. SoundControl(r)
      BY <2>1, <3>1, EndActs
    <3>3. QED
      BY <3>1, <3>2, CopiesAre, WrittenAt
  <2>3. UNCHANGED <<flow, trans, flag, state, bank, around>>
    BY <1>4 DEF ProcessingKept, service, outside
  <2>4. QED
    BY <2>1, <2>2, <2>3, QuietActs
<1>5. CASE SuccessOrder(r)
  <2>1. Runs(r) /\ Cur(r).op \in {"SuccessOrder", "SuccessIfBypass"} /\ ~ Undoes(r)
    BY <1>5, AtRuns DEF SuccessOrder
  <2>2. SoundControl(r) /\ OnlyAt(order, order', r) /\ (Fails(r) => order'[r] = NIL)
    BY <1>5, <2>1, WriteActs DEF SuccessOrder
  <2>3. UNCHANGED <<flow, trans, flag, state, bank, around>>
    BY <1>5 DEF SuccessOrder, service, outside
  <2>4. QED
    BY <2>1, <2>2, <2>3, QuietActs
<1>6. CASE ReplaceOrder(r)
  <2>1. Runs(r) /\ Cur(r).op = "ReplaceOrder" /\ ~ Undoes(r)
    BY <1>6, AtRuns DEF ReplaceOrder
  <2>2. SoundControl(r) /\ OnlyAt(order, order', r)
    BY <1>6, <2>1, WriteActs DEF ReplaceOrder
  <2>3. UNCHANGED <<flow, trans, flag, state, bank, around>>
    BY <1>6 DEF ReplaceOrder, service, outside
  <2>4. QED
    BY <2>1, <2>2, <2>3, QuietActs
<1>7. QED
  BY <1>1, <1>2, <1>3, <1>4, <1>5, <1>6

\* The checks, the voucher and the steps that are skipped.
LEMMA PlainSteps ==
  ASSUME LaterInv, NEW r \in Requests, Check(r) \/ AccountVoucher(r) \/ SkipStep(r)
  PROVE  Acts(r)
<1>1. OnlyAt(order, order, r)
  BY CopiesAre, WrittenAt
<1>2. CASE Check(r)
  <2>1. Runs(r) /\ Cur(r).op \in {"Check", "VendorFee"} /\ ~ Undoes(r)
    BY <1>2, AtRuns DEF Check
  <2>2. SoundControl(r)
    BY <1>2, <2>1, EndActs DEF Check
  <2>3. UNCHANGED <<flow, trans, flag, state, bank, around, order>>
    BY <1>2 DEF Check, service, outside, copies
  <2>4. QED
    BY <1>1, <2>1, <2>2, <2>3, QuietActs
<1>3. CASE AccountVoucher(r)
  <2>1. Runs(r) /\ Cur(r).op = "AccountVoucher" /\ ~ Undoes(r)
    BY <1>3, AtRuns DEF AccountVoucher
  <2>2. SoundControl(r)
    BY <1>3, <2>1, EndActs, OkActs DEF AccountVoucher
  <2>3. UNCHANGED <<flow, trans, flag, state, bank, around, order>>
    BY <1>3 DEF AccountVoucher, service, outside, copies
  <2>4. QED
    BY <1>1, <2>1, <2>2, <2>3, QuietActs
<1>4. CASE SkipStep(r)
  <2>1. /\ Runs(r) /\ ~ Undoes(r)
        /\ Cur(r).op \in {"SkipProvider", "ConfirmIfBypass", "SuccessIfBypass"}
    BY <1>4, AtRuns DEF SkipStep
  <2>2. SoundControl(r) /\ ~ Fails(r)
    BY <1>4, <2>1, OkActs DEF SkipStep
  <2>3. UNCHANGED <<flow, trans, flag, state, bank, around, order>>
    BY <1>4 DEF SkipStep, service, outside, copies
  <2>4. QED
    BY <1>1, <2>1, <2>2, <2>3, QuietActs
<1>5. QED
  BY <1>2, <1>3, <1>4

\* The transaction is looked up.
LEMMA FindTransactionActs ==
  ASSUME LaterInv, NEW r \in Requests, FindTransaction(r)
  PROVE  Acts(r)
<1>1. Runs(r) /\ Cur(r).op \in {"FindTransaction", "FindOrInitPayment"} /\ ~ Undoes(r)
  BY AtRuns DEF FindTransaction
<1>2. UNCHANGED <<flow, order, flag, state, bank, around>>
  BY DEF FindTransaction, service, outside
<1>3. \/ StepOK(r) /\ OnlyAt(trans, trans', r)
      \/ StepFails(r) /\ UNCHANGED trans
  BY CopiesAre, WrittenAt DEF FindTransaction
<1>4. SoundControl(r) /\ (Fails(r) => UNCHANGED trans)
  BY <1>1, <1>3, OkActs, FailActs
<1>5. ActsOnCopies(r)
  BY <1>2, <1>3, CopiesAre, WrittenAt DEF ActsOnCopies
<1>6. ActsOnMoney /\ ActsOnBank(r)
  BY <1>1, <1>2, MoneyKept, BankKept
<1>7. ActsOnFailure(r)
  BY <1>1, <1>4 DEF ActsOnFailure
<1>8. QED
  BY <1>2, <1>4, <1>5, <1>6, <1>7 DEF Acts

\* The transaction is opened.
LEMMA InitPaymentActs ==
  ASSUME LaterInv, NEW r \in Requests, InitPayment(r)
  PROVE  Acts(r)
<1>1. Runs(r) /\ Cur(r).op \in {"InitPayment", "FindOrInitPayment"} /\ ~ Undoes(r)
  BY AtRuns DEF InitPayment
<1>2. UNCHANGED <<flow, flag, bank, around>>
  BY DEF InitPayment, outside
<1>3. \/ \E outcome \in StepOutcomes :
           /\ state' = state \/ state' = [state EXCEPT ![r] = "INITIAL"]
           /\ OnlyAt(trans, trans', r)
           /\ order' = order \/ order' = [order EXCEPT ![r] = [order[r] EXCEPT !.tran = r]]
           /\ StepEnds(r, outcome)
      \/ StepFails(r) /\ OnlyAt(trans, trans', r) /\ UNCHANGED <<service, order>>
  BY CopiesAre, WrittenAt DEF InitPayment
<1>4. SoundControl(r)
  BY <1>1, <1>3, EndActs, FailActs
<1>5. OnlyAt(order, order', r) /\ OnlyAt(trans, trans', r)
  BY <1>3, CopiesAre, WrittenAt
<1>6. ActsOnCopies(r)
  BY <1>2, <1>5, CopiesAre, WrittenAt DEF ActsOnCopies
<1>7. ActsOnMoney
  BY <1>3, MoneyKept, MoneyHeld DEF service
<1>8. ActsOnBank(r)
  BY <1>1, <1>2, BankKept
<1>9. ActsOnFailure(r)
  BY <1>1 DEF ActsOnFailure
<1>10. QED
  BY <1>2, <1>4, <1>6, <1>7, <1>8, <1>9 DEF Acts

\* The payer is charged only by a message that has passed FAIL BANK STATUS, or by
\* an answer that has been told that the bank has paid.
LEMMA ConfirmTransActs ==
  ASSUME LaterInv, NEW r \in Requests, ConfirmTrans(r)
  PROVE  Acts(r)
<1>1. /\ Runs(r) /\ ~ Undoes(r)
      /\ Cur(r).op = "ConfirmTrans" \/ (Cur(r).op = "ConfirmIfBypass" /\ flag[r] = "bypass")
  BY AtRuns DEF ConfirmTrans
<1>2. BankPaid
  <2>1. CASE Cur(r).op = "ConfirmTrans"
    <3>1. Past(r, {"FailBankStatus"})
      BY <1>1, <2>1, LaterCur DEF LaterStep, Past, Cur
    <3>2. QED
      BY <1>1, <3>1 DEF LaterInv, PassedIsPaid, Runs
  <2>2. CASE flag[r] = "bypass"
    BY <2>2 DEF LaterInv, PassedIsPaid
  <2>3. QED
    BY <1>1, <2>1, <2>2
<1>3. UNCHANGED <<flow, flag, bank, around>> /\ order' = [order EXCEPT ![r] = Linked(r)]
  BY DEF ConfirmTrans, outside
<1>4. \/ \E outcome \in StepOutcomes :
           /\ state' \in {state, [state EXCEPT ![trans[r].id] = "APPLIED"]}
           /\ trans' = [trans EXCEPT ![r] = IF outcome = "ok" THEN [@ EXCEPT !.status = "FINISH"]
                                            ELSE NIL]
           /\ StepEnds(r, outcome)
      \/ trans' = [trans EXCEPT ![r] = NIL] /\ StepFails(r) /\ UNCHANGED service
  BY DEF ConfirmTrans
<1>5. SoundControl(r) /\ OnlyAt(trans, trans', r) /\ (Fails(r) => trans'[r] = NIL)
  <2>1. CASE StepFails(r) /\ trans' = [trans EXCEPT ![r] = NIL]
    <3>1. SoundControl(r)
      BY <1>1, <2>1, FailActs
    <3>2. QED
      BY <2>1, <3>1, CopiesAre, WrittenAt DEF OnRequests
  <2>2. ASSUME NEW outcome \in StepOutcomes, StepEnds(r, outcome),
               trans' = [trans EXCEPT ![r] = IF outcome = "ok" THEN [@ EXCEPT !.status = "FINISH"]
                                             ELSE NIL]
        PROVE  SoundControl(r) /\ OnlyAt(trans, trans', r) /\ (Fails(r) => trans'[r] = NIL)
    <3>1. SoundControl(r) /\ (Fails(r) => outcome # "ok")
      BY <1>1, <2>2, EndActs
    <3>2. OnlyAt(trans, trans', r)
      BY <2>2, CopiesAre, WrittenAt
    <3>3. QED
      BY <2>2, <3>1, <3>2, CopiesAre DEF OnRequests
  <2>3. QED
    BY <1>4, <2>1, <2>2
<1>6. ActsOnCopies(r)
  BY <1>3, <1>5, CopiesAre, WrittenAt DEF ActsOnCopies
<1>7. ActsOnMoney
  BY <1>2, <1>4, MoneyKept, MoneyCharged DEF service
<1>8. ActsOnBank(r)
  BY <1>2, <1>3, BankKept
<1>9. ActsOnFailure(r)
  BY <1>1, <1>5 DEF ActsOnFailure
<1>10. QED
  BY <1>3, <1>5, <1>6, <1>7, <1>8, <1>9 DEF Acts

\* The provider is called.
LEMMA CallProviderActs ==
  ASSUME LaterInv, NEW r \in Requests, CallProvider(r)
  PROVE  Acts(r)
<1>1. Runs(r) /\ Cur(r).op = "CallProvider" /\ ~ Undoes(r)
  BY AtRuns DEF CallProvider
<1>2. UNCHANGED <<flow, order, trans, state, bank, around>>
  BY DEF CallProvider, service, Answers
<1>3. PICK outcome \in {"ok", "err"}, noted \in {"none", "pending"} :
        StepEnds(r, outcome) /\ flag' = [flag EXCEPT ![r] = noted]
  BY DEF CallProvider, Answers
<1>4. SoundControl(r)
  BY <1>1, <1>3, EndActs
<1>5. OnlyAt(flag, flag', r) /\ flag'[r] # "bypass"
  BY <1>3, CopiesAre, WrittenAt DEF OnRequests
<1>6. ActsOnCopies(r)
  BY <1>2, <1>5, CopiesAre, WrittenAt DEF ActsOnCopies
<1>7. ActsOnMoney /\ ActsOnBank(r)
  BY <1>1, <1>2, <1>5, MoneyKept, BankKept
<1>8. ActsOnFailure(r)
  BY <1>1 DEF ActsOnFailure
<1>9. QED
  BY <1>2, <1>4, <1>6, <1>7, <1>8 DEF Acts

\* The bank is asked: it refuses, or the payer may pay from here on.
LEMMA AskBankActs ==
  ASSUME LaterInv, NEW r \in Requests, AskBank(r)
  PROVE  Acts(r)
<1>1. Runs(r) /\ Cur(r).op = "AskBank" /\ ~ Undoes(r)
  BY AtRuns DEF AskBank
<1>2. UNCHANGED <<flow, trans, state, around>>
  BY DEF AskBank, service
<1>3. PICK outcome \in {"ok", "err"}, did \in {"refused", "unknown"} :
        /\ BankAnswers(r, did, "none", outcome)
        /\ order' = IF outcome = "ok" THEN order ELSE [order EXCEPT ![r] = Linked(r)]
  BY DEF AskBank
<1>4. SoundControl(r)
  BY <1>1, <1>3, EndActs DEF BankAnswers
<1>5. /\ flag' = [flag EXCEPT ![r] = "none"] /\ bank' = [bank EXCEPT ![r] = did]
  BY <1>3 DEF BankAnswers
<1>6. /\ OnlyAt(flag, flag', r) /\ flag'[r] = "none"
      /\ OnlyAt(bank, bank', r) /\ bank'[r] = did
  BY <1>5, CopiesAre, WrittenAt DEF OnRequests
<1>7. OnlyAt(order, order', r)
  BY <1>3, CopiesAre, WrittenAt
<1>8. ActsOnCopies(r)
  BY <1>2, <1>6, <1>7, CopiesAre, WrittenAt DEF ActsOnCopies
<1>9. ActsOnMoney
  BY <1>2, MoneyKept
<1>10. ActsOnBank(r)
  BY <1>1, <1>6 DEF ActsOnBank
<1>11. ActsOnFailure(r)
  BY <1>1 DEF ActsOnFailure
<1>12. QED
  BY <1>2, <1>4, <1>8, <1>9, <1>10, <1>11 DEF Acts

-----------------------------------------------------------------------------
(* The steps that give back, and those of the answers.                     *)

\* The opening request may give back what it has put on hold when it fails.
LEMMA OpeningGrounds ==
  ASSUME LaterInv, NEW r \in Requests, Opens(r), failedAt'[r] # 0
  PROVE  Grounds
<1>1. \A t \in Requests : Opens(t) => t = r
  BY OneOpening, CopiesAre
<1>2. QED
  BY <1>1 DEF Grounds, Reason

\* An answer that did not begin with the payment knows of the bank's decision.
LEMMA AnswerGrounds ==
  ASSUME LaterInv, NEW r \in Requests, phase[r] # "idle", ~ BankPaid,
         flow[r] \in AnswerFlows \ {"UpdateCreditPayment"}
  PROVE  BankRefused /\ Grounds
<1>1. BankDecided
  BY DEF LaterInv, AnswersTell
<1>2. QED
  BY <1>1 DEF BankRefused, Grounds

\* The order is closed, or not, when a payment has been refused.
LEMMA RefuseActs ==
  ASSUME LaterInv, NEW r \in Requests, RefusePayment(r), Runs(r), Grounds
  PROVE  ActsOnMoney /\ OnlyAt(trans, trans', r) /\ OnlyAt(order, order', r)
<1>1. ActsOnMoney /\ OnlyAt(trans, trans', r)
  <2>1. CancelTransaction(r) \/ UNCHANGED <<trans, service>>
    BY DEF RefusePayment
  <2>2. UNCHANGED <<trans, service>> => UNCHANGED state
    BY DEF service
  <2>3. QED
    BY <2>1, <2>2, TransactionGiven, MoneyKept, CopiesAre, WrittenAt
<1>2. OnlyAt(order, order', r)
  <2>1. ClosesOrder(r, "FAILED") \/ UNCHANGED <<doc, order>>
    BY DEF RefusePayment
  <2>2. QED
    BY <2>1, CloseActs, CopiesAre, WrittenAt
<1>3. QED
  BY <1>1, <1>2

\* A card on the black list is refused.
LEMMA CheckFraudActs ==
  ASSUME LaterInv, NEW r \in Requests, CheckFraud(r)
  PROVE  Acts(r)
<1>1. Runs(r) /\ Cur(r).op = "CheckFraud" /\ ~ Undoes(r)
  BY AtRuns DEF CheckFraud
<1>2. UNCHANGED <<flow, trans, flag, bank, around>>
  BY DEF CheckFraud, outside
<1>3. \/ StepOK(r) /\ UNCHANGED <<doc, order, service>>
      \/ /\ \E outcome \in {"ok", "err", "lost"} : CancelEnds(trans[r].id, outcome)
         /\ ClosesOrder(r, "FAILED") \/ UNCHANGED <<doc, order>>
         /\ StepFails(r)
  BY DEF CheckFraud
<1>4. SoundControl(r)
  BY <1>1, <1>3, OkActs, FailActs
<1>5. OnlyAt(order, order', r)
  BY <1>3, CloseActs, CopiesAre, WrittenAt
<1>6. ActsOnMoney
  <2>1. CASE UNCHANGED service
    BY <2>1, MoneyKept DEF service
  <2>2. CASE StepFails(r) /\ \E outcome \in {"ok", "err", "lost"} : CancelEnds(trans[r].id, outcome)
    <3>1. Opens(r)
      BY <1>1, LaterCur DEF LaterStep, Cur, Opens
    <3>2. failedAt'[r] # 0
      BY <1>1, <2>2, FailActs, LaterCur DEF Fails
    <3>3. Grounds
      BY <3>1, <3>2, OpeningGrounds
    <3>4. QED
      BY <2>2, <3>3, MoneyGiven
  <2>3. QED
    BY <1>3, <2>1, <2>2
<1>7. ActsOnCopies(r)
  BY <1>2, <1>5, CopiesAre, WrittenAt DEF ActsOnCopies
<1>8. ActsOnBank(r)
  BY <1>1, <1>2, BankKept
<1>9. ActsOnFailure(r)
  BY <1>1 DEF ActsOnFailure
<1>10. QED
  BY <1>2, <1>4, <1>6, <1>7, <1>8, <1>9 DEF Acts

\* FAIL BANK STATUS lets a payment through only if the bank has paid.
LEMMA FailBankStatusActs ==
  ASSUME LaterInv, NEW r \in Requests, FailBankStatus(r)
  PROVE  Acts(r)
<1>1. Runs(r) /\ Cur(r).op = "FailBankStatus" /\ ~ Undoes(r)
  BY AtRuns DEF FailBankStatus
<1>2. UNCHANGED <<flow, trans, flag, bank, around>>
  BY DEF FailBankStatus, outside
<1>3. \/ BankPaid /\ StepOK(r) /\ UNCHANGED <<doc, order, service>>
      \/ /\ ~ BankPaid
         /\ \E outcome \in {"ok", "err", "lost"} : CancelEnds(trans[r].id, outcome)
         /\ ClosesOrder(r, "SUCCESS") \/ UNCHANGED <<doc, order>>
         /\ StepFails(r)
  BY DEF FailBankStatus
<1>4. SoundControl(r) /\ (Advances(r) => BankPaid) /\ (Fails(r) => ~ BankPaid)
  BY <1>1, <1>3, OkActs, FailActs
<1>5. ~ BankPaid => BankRefused /\ Grounds
  <2>1. flow[r] \in BankStatuses /\ phase[r] # "idle"
    BY <1>1, LaterCur DEF LaterStep, Cur, Runs
  <2>2. flow[r] \in AnswerFlows \ {"UpdateCreditPayment"}
    BY <2>1 DEF AnswerFlows, BankStatuses
  <2>3. QED
    BY <2>1, <2>2, AnswerGrounds
<1>6. OnlyAt(order, order', r)
  BY <1>3, CloseActs, CopiesAre, WrittenAt
<1>7. ActsOnMoney
  BY <1>3, <1>5, MoneyKept, MoneyGiven DEF service
<1>8. ActsOnCopies(r)
  BY <1>2, <1>6, CopiesAre, WrittenAt DEF ActsOnCopies
<1>9. ActsOnBank(r)
  BY <1>1, <1>2, <1>4, BankKept
<1>10. ActsOnFailure(r)
  BY <1>1, <1>4, <1>5 DEF ActsOnFailure
<1>11. QED
  BY <1>2, <1>4, <1>7, <1>8, <1>9, <1>10 DEF Acts

\* A transaction that is parked is neither charged nor given back.
LEMMA MarkActs ==
  ASSUME LaterInv, NEW r \in Requests, MarkPending(r)
  PROVE  OnlyAt(trans, trans', r)
<1>1. \/ UNCHANGED trans
      \/ \E x : trans' = [trans EXCEPT ![r] = x]
  BY DEF MarkPending
<1>2. QED
  BY <1>1, CopiesAre, WrittenAt

\* An answer with a different amount parks the payment.
LEMMA CheckAmountActs ==
  ASSUME LaterInv, NEW r \in Requests, CheckAmount(r)
  PROVE  Acts(r)
<1>1. Runs(r) /\ Cur(r).op = "CheckAmount" /\ ~ Undoes(r)
  BY AtRuns DEF CheckAmount
<1>2. UNCHANGED <<flow, state, bank, around>>
  BY DEF CheckAmount, outside
<1>3. \/ StepOK(r) /\ UNCHANGED <<order, trans, flag>>
      \/ /\ MarkPending(r) /\ ClosesOrder(r, "VERIFYING")
         /\ flag' = [flag EXCEPT ![r] = "verifying"]
         /\ StepFails(r) \/ StepOK(r)
  BY DEF CheckAmount
<1>4. SoundControl(r)
  BY <1>1, <1>3, OkActs, FailActs
<1>5. OnlyAt(order, order', r) /\ OnlyAt(trans, trans', r)
  BY <1>3, CloseActs, MarkActs, CopiesAre, WrittenAt
<1>6. OnlyAt(flag, flag', r) /\ (flag'[r] = "bypass" => flag[r] = "bypass")
  BY <1>3, CopiesAre, WrittenAt DEF OnRequests
<1>7. ActsOnCopies(r)
  BY <1>5, <1>6 DEF ActsOnCopies
<1>8. ActsOnMoney /\ ActsOnBank(r)
  BY <1>1, <1>2, <1>6, MoneyKept, BankKept
<1>9. ActsOnFailure(r)
  BY <1>1 DEF ActsOnFailure
<1>10. QED
  BY <1>2, <1>4, <1>7, <1>8, <1>9 DEF Acts

\* FINALIZATION_PAYMENT of CashInNAPAS.
LEMMA SettleNapasActs ==
  ASSUME LaterInv, NEW r \in Requests, SettleNapas(r)
  PROVE  Acts(r)
<1>1. Runs(r) /\ Cur(r).op = "SettleNapas" /\ ~ Undoes(r)
  BY AtRuns DEF SettleNapas
<1>2. UNCHANGED <<flow, flag, bank, around>>
  BY DEF SettleNapas, outside
<1>3. ActsOnMoney /\ OnlyAt(trans, trans', r) /\ OnlyAt(order, order', r) /\ SoundControl(r)
  <2>1. CASE BankPaid
    <3>1. PICK outcome \in {"ok", "err", "lost"} :
            /\ ConfirmEnds(trans[r].id, outcome)
            /\ trans' = [trans EXCEPT ![r] = IF outcome = "ok" THEN [@ EXCEPT !.status = "FINISH"]
                                             ELSE NIL]
            /\ \/ StepFails(r) /\ UNCHANGED <<doc, order>>
               \/ /\ order' = [order EXCEPT ![r] = [order[r] EXCEPT !.status = "SUCCESS"]]
                  /\ \E written \in StepOutcomes : StepEnds(r, written)
      BY <2>1 DEF SettleNapas
    <3>2. state' \in {state, [state EXCEPT ![trans[r].id] = "APPLIED"]}
      BY <3>1 DEF ConfirmEnds, service
    <3>3. ActsOnMoney
      BY <2>1, <3>2, MoneyCharged
    <3>4. OnlyAt(trans, trans', r) /\ OnlyAt(order, order', r)
      BY <3>1, CopiesAre, WrittenAt
    <3>5. SoundControl(r)
      BY <1>1, <3>1, FailActs, EndActs
    <3>6. QED
      BY <3>3, <3>4, <3>5
  <2>2. CASE ~ BankPaid
    <3>1. flow[r] = "CashInNAPAS" /\ phase[r] # "idle"
      BY <1>1, LaterCur DEF LaterStep, Cur, Runs
    <3>2. flow[r] \in AnswerFlows \ {"UpdateCreditPayment"}
      BY <3>1 DEF AnswerFlows
    <3>3. RefusePayment(r) /\ (StepOK(r) \/ StepFails(r))
      BY <2>2 DEF SettleNapas
    <3>4. SoundControl(r)
      BY <1>1, <3>3, OkActs, FailActs
    <3>5. QED
      BY <1>1, <2>2, <3>1, <3>2, <3>3, <3>4, AnswerGrounds, RefuseActs
  <2>3. QED
    BY <2>1, <2>2
<1>4. ActsOnCopies(r)
  BY <1>2, <1>3, CopiesAre, WrittenAt DEF ActsOnCopies
<1>5. ActsOnBank(r)
  BY <1>1, <1>2, BankKept
<1>6. ActsOnFailure(r)
  BY <1>1 DEF ActsOnFailure
<1>7. QED
  BY <1>2, <1>3, <1>4, <1>5, <1>6 DEF Acts

\* UpdateCreditPaymentOrder goes by the status it was sent.
LEMMA CreditStatusActs ==
  ASSUME LaterInv, NEW r \in Requests, CreditStatus(r)
  PROVE  Acts(r)
<1>1. Runs(r) /\ Cur(r).op = "CreditStatus" /\ ~ Undoes(r)
  BY AtRuns DEF CreditStatus
<1>2. UNCHANGED <<flow, bank, around>>
  BY DEF CreditStatus, outside
<1>3. /\ ActsOnMoney /\ OnlyAt(trans, trans', r) /\ OnlyAt(order, order', r) /\ SoundControl(r)
      /\ OnlyAt(flag, flag', r)
      /\ flag'[r] = "bypass" => flag[r] = "bypass" \/ BankPaid
  <2>1. CASE /\ BankPaid
             /\ flag' = [flag EXCEPT ![r] = "bypass"]
             /\ StepOK(r)
             /\ UNCHANGED <<doc, order, trans, service>>
    <3>1. UNCHANGED state
      BY <2>1 DEF service
    <3>2. OnlyAt(trans, trans', r) /\ OnlyAt(order, order', r) /\ OnlyAt(flag, flag', r)
      BY <2>1, CopiesAre, WrittenAt
    <3>3. ActsOnMoney /\ SoundControl(r)
      BY <1>1, <2>1, <3>1, OkActs, MoneyKept
    <3>4. QED
      BY <2>1, <3>2, <3>3
  <2>2. CASE BankDecided /\ ~ BankPaid /\ RefusePayment(r) /\ StepOK(r) /\ UNCHANGED flag
    <3>1. Grounds
      BY <2>2 DEF Grounds, BankRefused
    <3>2. SoundControl(r)
      BY <1>1, <2>2, OkActs
    <3>3. QED
      BY <1>1, <2>2, <3>1, <3>2, RefuseActs, CopiesAre, WrittenAt
  <2>3. CASE /\ \E outcome \in StepOutcomes :
                  trans' = [trans EXCEPT ![r] = IF outcome = "ok" THEN [@ EXCEPT !.status = "PENDING"]
                                                ELSE NIL]
             /\ \E outcome \in StepOutcomes : StepEnds(r, outcome)
             /\ order' = [order EXCEPT ![r].status = "VERIFYING"]
             /\ UNCHANGED <<flag, state>>
    <3>1. \E x : trans' = [trans EXCEPT ![r] = x]
      BY <2>3
    <3>2. OnlyAt(trans, trans', r)
      BY <3>1, CopiesAre, WrittenAt
    <3>3. OnlyAt(flag, flag, r)
      BY CopiesAre, WrittenAt
    <3>4. OnlyAt(order, order', r)
      BY <2>3, CopiesAre, WrittenAt
    <3>5. ActsOnMoney /\ SoundControl(r)
      BY <1>1, <2>3, EndActs, MoneyKept
    <3>6. QED
      BY <2>3, <3>2, <3>3, <3>4, <3>5
  <2>4. QED
    BY <2>1, <2>2, <2>3 DEF CreditStatus
<1>4. ActsOnCopies(r)
  BY <1>3 DEF ActsOnCopies
<1>5. ActsOnBank(r)
  BY <1>1, <1>2, <1>3, BankKept
<1>6. ActsOnFailure(r)
  BY <1>1 DEF ActsOnFailure
<1>7. QED
  BY <1>2, <1>3, <1>4, <1>5, <1>6 DEF Acts

-----------------------------------------------------------------------------
(* The compensations.                                                      *)

\* A rollback that may panic: the step it is at is the one that failed.
LEMMA PanicsAtPark ==
  ASSUME LaterInv, NEW r \in Requests, phase[r] = "abort", pc[r] > 0, flow[r] \in BankStatuses,
         FailedStep(r) \in {"ConfirmTrans", "SuccessOrder"}
  PROVE  /\ Cur(r).comp = "Park"
         /\ trans[r] = NIL \/ order[r] = NIL
<1>1. pc[r] = failedAt[r] /\ (trans[r] = NIL \/ order[r] = NIL)
  BY DEF LaterInv, WhyUndone
<1>2. LaterStep(flow[r], Steps(r), failedAt[r])
  BY LaterFailed
<1>3. Cur(r).op \in {"ConfirmTrans", "SuccessOrder"} /\ LaterStep(flow[r], Steps(r), pc[r])
  BY <1>1, <1>2 DEF FailedStep, Cur
<1>4. QED
  BY <1>1, <1>3 DEF LaterStep, Cur

\* A bank status message that is rolled back gives back what it has found only
\* after the bank refused, or when it failed before it tried to charge the payer.
LEMMA StatusGrounds ==
  ASSUME LaterInv, NEW r \in Requests, phase[r] = "abort", pc[r] > 0, flow[r] \in BankStatuses,
         Cur(r).comp # "Park", trans[r] # NIL, UNCHANGED <<flow, failedAt>>
  PROVE  Grounds
<1>1. LaterStep(flow[r], Steps(r), failedAt[r]) /\ failedAt[r] \in Nat
  BY LaterFailed DEF LaterInv, Shaped
<1>2. failedAt[r] > 2
  BY <1>1 DEF LaterInv, NoTransYet
<1>3. FailedStep(r) \in StatusOps \ {"FindOrder", "FindTransaction"}
  BY <1>1, <1>2 DEF LaterStep, FailedStep
<1>4. FailedStep(r) \notin {"ConfirmTrans", "SuccessOrder"}
  BY PanicsAtPark
<1>5. FailedStep(r) # "SkipProvider" /\ (FailedStep(r) = "FailBankStatus" => BankRefused)
  BY DEF LaterInv, WhyUndone
<1>6. CASE BankRefused
  BY <1>6 DEF Grounds
<1>7. CASE FailedStep(r) \in {"AccountVoucher", "CallProvider"}
  <2>1. ASSUME NEW CONSTANT op, op = FailedStep(r) PROVE FailedOp(r, op)'
    BY <1>1, <1>2, <2>1 DEF FailedOp, FailedStep, Steps
  <2>2. \A t \in Requests : Reason(t)'
    BY <1>7, <2>1 DEF Reason
  <2>3. QED
    BY <2>2 DEF Grounds
<1>8. QED
  BY <1>3, <1>4, <1>5, <1>6, <1>7 DEF StatusOps

\* The parts of an undo that gives back or parks.
LEMMA UndoneActs ==
  ASSUME LaterInv, NEW r \in Requests, phase[r] = "abort", pc[r] > 0, SoundControl(r),
         UNCHANGED <<flow, flag, bank, around>>, OnlyAt(order, order', r), OnlyAt(trans, trans', r),
         ActsOnMoney, trans[r] = NIL => trans'[r] = NIL,
         flow[r] \in BankStatuses =>
           FailedStep(r) \notin {"ConfirmTrans", "SuccessOrder"} \/ phase'[r] = "panic"
  PROVE  Acts(r)
<1>1. ~ Runs(r) /\ ~ Advances(r) /\ ~ Fails(r)
  BY DEF Runs, Advances, Fails
<1>2. ActsOnCopies(r)
  BY CopiesAre, WrittenAt DEF ActsOnCopies
<1>3. ActsOnBank(r)
  BY <1>1, BankKept
<1>4. ActsOnFailure(r)
  BY <1>1 DEF ActsOnFailure
<1>5. QED
  BY <1>2, <1>3, <1>4 DEF Acts

\* Nothing to undo, or a voucher.
LEMMA PlainUndos ==
  ASSUME LaterInv, NEW r \in Requests, CompensateNone(r) \/ CompensateVoucher(r)
  PROVE  Acts(r)
<1>1. /\ phase[r] = "abort" /\ pc[r] > 0 /\ Cur(r).comp # "Park"
      /\ Cur(r).comp = "ReverseFail" \/ CompensateNone(r) \/ AtComp(r, "Reverse")
  BY InRollback DEF CompensateNone, CompensateVoucher
<1>2. Cur(r).comp # "ReverseFail"
  BY <1>1, LaterCur DEF LaterStep, LaterComps, Cur
<1>3. /\ Compensated(r) \/ Panics(r)
      /\ UNCHANGED <<flow, order, trans, flag, service, bank, around>>
  BY <1>1, <1>2, InRollback, Zenon DEF CompensateNone, CompensateVoucher, copies, outside
<1>4. SoundControl(r)
  BY <1>1, <1>3, UndoActs, PanicActs
<1>5. OnlyAt(order, order', r) /\ OnlyAt(trans, trans', r) /\ ActsOnMoney
  BY <1>3, CopiesAre, WrittenAt, MoneyKept DEF service
<1>6. flow[r] \in BankStatuses => FailedStep(r) \notin {"ConfirmTrans", "SuccessOrder"}
  BY <1>1, PanicsAtPark
<1>7. QED
  BY <1>1, <1>3, <1>4, <1>5, <1>6, UndoneActs

\* The compensation of "INIT PAYMENT".
LEMMA CancelPaymentActs ==
  ASSUME LaterInv, NEW r \in Requests, CancelPayment(r)
  PROVE  Acts(r)
<1>1. phase[r] = "abort" /\ pc[r] > 0 /\ Cur(r).comp = "CancelPayment"
  BY InRollback DEF CancelPayment
<1>2. SoundControl(r) /\ OnlyAt(order, order', r) /\ UNCHANGED failedAt
  <2>1. CompensationMoves(r, "FAILED", {"VERIFYING", "FAILED"})
    BY DEF CancelPayment, FailIfOpen
  <2>2. UNCHANGED failedAt
    BY <2>1 DEF CompensationMoves, CompensationWrites, Compensated, Panics
  <2>3. QED
    BY <1>1, <2>1, <2>2, MoveActs
<1>3. UNCHANGED <<flow, flag, bank, around>>
  BY DEF CancelPayment, outside
<1>4. \/ UNCHANGED <<trans, service>>
      \/ trans[r] # NIL /\ CancelTransaction(r)
  BY DEF CancelPayment
<1>5. trans[r] # NIL => Grounds
  <2>1. CASE flow[r] \in BankStatuses
    BY <1>1, <1>2, <1>3, <2>1, StatusGrounds
  <2>2. CASE flow[r] \in LaterOpenings
    <3>1. failedAt'[r] # 0
      BY <1>1, <1>2 DEF LaterInv, Places, Shaped
    <3>2. QED
      BY <2>2, <3>1, OpeningGrounds DEF Opens
  <2>3. QED
    BY <1>1, <2>1, <2>2, LaterCur DEF LaterStep, Cur
<1>6. ActsOnMoney /\ OnlyAt(trans, trans', r) /\ (trans[r] = NIL => trans'[r] = NIL)
  <2>1. CASE UNCHANGED <<trans, service>>
    BY <2>1, MoneyKept, CopiesAre, WrittenAt DEF service
  <2>2. CASE trans[r] # NIL /\ CancelTransaction(r)
    BY <1>5, <2>2, TransactionGiven
  <2>3. QED
    BY <1>4, <2>1, <2>2
<1>7. flow[r] \in BankStatuses => FailedStep(r) \notin {"ConfirmTrans", "SuccessOrder"}
  BY <1>1, PanicsAtPark
<1>8. QED
  BY <1>1, <1>2, <1>3, <1>6, <1>7, UndoneActs

\* The payment is parked: nothing without a copy of the transaction or the order.
LEMMA ParkPendingActs ==
  ASSUME LaterInv, NEW r \in Requests, phase[r] = "abort", pc[r] > 0, ParkPending(r)
  PROVE  /\ SoundControl(r) /\ OnlyAt(order, order', r) /\ OnlyAt(trans, trans', r) /\ ActsOnMoney
         /\ trans[r] # NIL /\ (order[r] = NIL => phase'[r] = "panic")
<1>1. CompensationMoves(r, "VERIFYING", {"VERIFYING"}) /\ trans[r] # NIL
  BY DEF ParkPending, VerifyIfNot
<1>2. OnlyAt(trans, trans', r) /\ ActsOnMoney
  BY MarkActs, MoneyKept DEF ParkPending
<1>3. QED
  BY <1>1, <1>2, MoveActs

\* The compensation of a provider's call.
LEMMA UndoProviderActs ==
  ASSUME LaterInv, NEW r \in Requests, UndoProvider(r)
  PROVE  Acts(r)
<1>1. phase[r] = "abort" /\ pc[r] > 0 /\ Cur(r).comp = "UndoProvider"
  BY InRollback DEF UndoProvider
<1>2. UNCHANGED <<flow, flag, bank, around>>
  BY DEF UndoProvider, outside
<1>3. flow[r] \in BankStatuses
  BY <1>1, LaterCur DEF LaterStep, Cur
<1>4. FailedStep(r) \notin {"ConfirmTrans", "SuccessOrder"}
  BY <1>1, <1>3, PanicsAtPark
<1>5. /\ SoundControl(r) /\ OnlyAt(order, order', r) /\ OnlyAt(trans, trans', r) /\ ActsOnMoney
      /\ trans[r] = NIL => trans'[r] = NIL
  <2>1. CASE TransIsNil(r)
    BY <1>1, <2>1, PanicActs, MoneyKept, CopiesAre, WrittenAt DEF TransIsNil, service
  <2>2. CASE ParkPending(r)
    BY <1>1, <2>2, ParkPendingActs
  <2>3. CASE trans[r] # NIL /\ CancelTransaction(r) /\ FailAlways(r)
    <3>1. CompensationMoves(r, "FAILED", {})
      BY <2>3 DEF FailAlways
    <3>2. UNCHANGED failedAt
      BY <3>1 DEF CompensationMoves, CompensationWrites, Compensated, Panics
    <3>3. Grounds
      BY <1>1, <1>2, <1>3, <2>3, <3>2, StatusGrounds
    <3>4. QED
      BY <1>1, <2>3, <3>1, <3>3, MoveActs, TransactionGiven
  <2>4. QED
    BY <2>1, <2>2, <2>3 DEF UndoProvider
<1>6. QED
  BY <1>1, <1>2, <1>4, <1>5, UndoneActs

\* The compensations of "FINALIZATION PAYMENT" and "SUCCESS ORDER".
LEMMA ParkActs ==
  ASSUME LaterInv, NEW r \in Requests, Park(r)
  PROVE  Acts(r)
<1>1. /\ phase[r] = "abort" /\ pc[r] > 0
      /\ \/ Cur(r).comp = "Park" /\ TransIsNil(r)
         \/ ParkPending(r)
         \/ /\ Cur(r).comp = "ParkGuarded" /\ trans[r] = NIL
            /\ VerifyIfNot(r) /\ UNCHANGED <<trans, service>>
  BY InRollback DEF Park
<1>2. UNCHANGED <<flow, flag, bank, around>>
  BY DEF Park, outside
<1>3. CASE TransIsNil(r)
  <2>1. SoundControl(r) /\ phase'[r] = "panic"
    BY <1>1, <1>3, PanicActs DEF TransIsNil
  <2>2. OnlyAt(order, order', r) /\ OnlyAt(trans, trans', r) /\ ActsOnMoney
    BY <1>3, MoneyKept, CopiesAre, WrittenAt DEF TransIsNil, service
  <2>3. trans'[r] = trans[r]
    BY <1>3 DEF TransIsNil
  <2>4. QED
    BY <1>1, <1>2, <2>1, <2>2, <2>3, UndoneActs
<1>4. CASE ParkPending(r)
  <2>1. /\ SoundControl(r) /\ OnlyAt(order, order', r) /\ OnlyAt(trans, trans', r) /\ ActsOnMoney
        /\ trans[r] # NIL /\ (order[r] = NIL => phase'[r] = "panic")
    BY <1>1, <1>4, ParkPendingActs
  <2>2. flow[r] \in BankStatuses =>
          FailedStep(r) \notin {"ConfirmTrans", "SuccessOrder"} \/ phase'[r] = "panic"
    BY <1>1, <2>1, PanicsAtPark
  <2>3. QED
    BY <1>1, <1>2, <2>1, <2>2, UndoneActs
<1>5. CASE /\ Cur(r).comp = "ParkGuarded" /\ trans[r] = NIL
           /\ VerifyIfNot(r) /\ UNCHANGED <<trans, service>>
  <2>1. SoundControl(r) /\ OnlyAt(order, order', r)
    BY <1>1, <1>5, MoveActs DEF VerifyIfNot
  <2>2. OnlyAt(trans, trans', r) /\ ActsOnMoney
    BY <1>5, MoneyKept, CopiesAre, WrittenAt DEF service
  <2>3. flow[r] \in BankStatuses => FailedStep(r) \notin {"ConfirmTrans", "SuccessOrder"}
    BY <1>1, <1>5, PanicsAtPark
  <2>4. QED
    BY <1>1, <1>2, <1>5, <2>1, <2>2, <2>3, UndoneActs
<1>6. QED
  BY <1>1, <1>3, <1>4, <1>5

\* Every step of these flows, and every compensation, does no more.
LEMMA WorkActs ==
  ASSUME LaterInv, NEW r \in Requests, Execute(r) \/ Settle(r) \/ Compensate(r)
  PROVE  Acts(r)
<1>1. \A op : AtStep(r, op) => op \in LaterOps
  <2>1. Runs(r) => Cur(r).op \in LaterOps
    BY LaterCur DEF LaterStep, Cur
  <2>2. QED
    BY <2>1, AtRuns DEF LaterOps
<1>2. \A comp : AtComp(r, comp) => comp \in LaterComps
  <2>1. phase[r] = "abort" /\ pc[r] > 0 => Cur(r).comp \in LaterComps
    BY LaterCur DEF LaterStep, Cur
  <2>2. QED
    BY <2>1, InRollback DEF LaterComps
<1>3. CASE Execute(r)
  <2>1. /\ ~ CancelOrder(r) /\ ~ CancelInitial(r) /\ ~ CashInRequest(r) /\ ~ CashInBankGW(r)
        /\ ~ FailUnpaid(r) /\ ~ VerifyOtp(r)
    BY <1>1 DEF CancelOrder, CancelInitial, CashInRequest, CashInBankGW, FailUnpaid, VerifyOtp,
       LaterOps
  <2>2. ~ CallTransfer(r)
    <3>1. flow[r] \in LaterFlows \cup {"NoRequest"}
      BY CopiesAre, LaterSteps
    <3>2. QED
      BY <3>1 DEF CallTransfer, BankTransfers, LaterFlows, LaterOpenings, AnswerFlows, BankStatuses
  <2>3. QED
    BY <1>3, <2>1, <2>2, OrderSteps, PlainSteps, FindTransactionActs, InitPaymentActs,
       ConfirmTransActs, CallProviderActs DEF Execute
<1>4. CASE Settle(r)
  BY <1>4, OrderSteps, CheckFraudActs, AskBankActs, FailBankStatusActs, CheckAmountActs,
     SettleNapasActs, CreditStatusActs DEF Settle
<1>5. CASE Compensate(r)
  <2>1. ~ CompensateOrder(r) /\ ~ UndoOtp(r)
    BY <1>2 DEF CompensateOrder, UndoOtp, AtUndoOtp, LaterComps
  <2>2. QED
    BY <1>5, <2>1, PlainUndos, CancelPaymentActs, UndoProviderActs, ParkActs DEF Compensate
<1>6. QED
  BY <1>3, <1>4, <1>5

-----------------------------------------------------------------------------
(* Such a step keeps the invariant.                                        *)

\* What the bank has decided stays: it is asked once.
LEMMA ActsKeepBank ==
  ASSUME LaterInv, NEW r \in Requests, Acts(r)
  PROVE  /\ \A o \in Requests : bank[o] # "idle" => bank'[o] = bank[o]
         /\ BankPaid' <=> BankPaid
         /\ BankDecided => BankDecided'
         /\ BankRefused => BankRefused'
<1>1. /\ \A o \in Requests \ {r} : bank'[o] = bank[o]
      /\ bank'[r] # bank[r] =>
           Runs(r) /\ Cur(r).op = "AskBank" /\ bank'[r] \in {"refused", "unknown"}
      /\ flow' = flow
  BY CopiesAre DEF Acts, ActsOnBank, OnlyAt, OnRequests
<1>2. ASSUME Runs(r), Cur(r).op = "AskBank" PROVE bank[r] = "idle" /\ Opens(r)
  <2>1. ~ Past(r, {"AskBank"}) /\ flow[r] \in LaterOpenings
    BY <1>2, LaterCur DEF LaterStep, Cur, Past
  <2>2. QED
    BY <1>2, <2>1 DEF LaterInv, AskedOnce, Ahead, Runs, Opens
<1>3. \A o \in Requests : bank[o] # "idle" => bank'[o] = bank[o]
  BY <1>1, <1>2
<1>4. \A o \in Requests : bank'[o] = "delivered" <=> bank[o] = "delivered"
  BY <1>1, <1>2
<1>5. \A o \in Requests : Opens(o)' <=> Opens(o)
  BY <1>1 DEF Opens
<1>6. BankPaid' <=> BankPaid
  BY <1>4, <1>5 DEF BankPaid
<1>7. BankDecided => BankDecided'
  BY <1>3, <1>5 DEF BankDecided
<1>8. QED
  BY <1>3, <1>6, <1>7 DEF BankRefused

\* A reason stays.
LEMMA ReasonStays ==
  ASSUME flow' = flow, timeUp => timeUp',
         \A q \in Requests : failedAt[q] # 0 => failedAt'[q] = failedAt[q],
         NEW t \in Requests, Reason(t)
  PROVE  Reason(t)'
BY DEF Reason, FailedOp, Steps

\* A request that has failed keeps what it failed at.
LEMMA FailedStays ==
  ASSUME LaterInv, NEW r \in Requests, Acts(r)
  PROVE  \A q \in Requests : failedAt[q] # 0 => failedAt'[q] = failedAt[q]
<1>1. /\ \A q \in Requests \ {r} : failedAt'[q] = failedAt[q]
      /\ Advances(r) \/ Fails(r) \/ Undoes(r)
  BY DEF Acts, SoundControl
<1>2. failedAt[r] # 0 => failedAt'[r] = failedAt[r]
  BY <1>1 DEF Advances, Fails, Undoes, Runs, LaterInv, Places
<1>3. QED
  BY <1>1, <1>2

\* Shape and places.
LEMMA ActsKeepShape ==
  ASSUME LaterInv, NEW r \in Requests, Acts(r)
  PROVE  Shaped' /\ Places'
<1>1. /\ SoundControl(r) /\ flow' = flow /\ job' = job
      /\ \A q \in Requests : Steps(q)' = Steps(q)
      /\ Shaped /\ Places
  BY DEF Acts, around, LaterInv, Steps
<1>2. /\ OnRequests(order)' /\ OnRequests(trans)' /\ OnRequests(flag)' /\ OnRequests(bank)'
  BY CopiesAre DEF Acts, ActsOnCopies, ActsOnBank, OnlyAt, OnRequests
<1>3. bank' \in [Requests -> Deeds]
  <2>1. \A q \in Requests : bank'[q] \in Deeds
    BY CopiesAre DEF Acts, ActsOnBank, OnlyAt, OnRequests, LaterInv, Shaped, Deeds
  <2>2. QED
    BY <1>2, <2>1 DEF OnRequests
<1>4. \A q \in Requests : failedAt'[q] <= Len(Steps(q))'
  <2>1. CASE Fails(r)
    <3>1. failedAt'[r] <= Len(Steps(r))
      BY <2>1 DEF Fails, Runs
    <3>2. QED
      BY <1>1, <3>1 DEF SoundControl, Shaped
  <2>2. CASE Advances(r) \/ Undoes(r)
    BY <1>1, <2>2 DEF SoundControl, Shaped, Advances, Undoes
  <2>3. QED
    BY <1>1, <2>1, <2>2 DEF SoundControl
<1>5. Shaped'
  BY <1>1, <1>2, <1>3, <1>4 DEF Shaped, SoundControl, Acts, ActsOnMoney
<1>6. Places'
  <2>1. ASSUME NEW q \in Requests \ {r}
        PROVE  /\ phase'[q] \in {"idle", "refused"} => pc'[q] = 1 /\ failedAt'[q] = 0
               /\ phase'[q] = "run" => pc'[q] >= 1 /\ failedAt'[q] = 0
               /\ phase'[q] = "abort" => failedAt'[q] >= 1 /\ pc'[q] <= failedAt'[q]
    BY <1>1, <2>1 DEF SoundControl, Places
  <2>2. /\ phase'[r] \in {"idle", "refused"} => pc'[r] = 1 /\ failedAt'[r] = 0
        /\ phase'[r] = "run" => pc'[r] >= 1 /\ failedAt'[r] = 0
        /\ phase'[r] = "abort" => failedAt'[r] >= 1 /\ pc'[r] <= failedAt'[r]
    BY <1>1 DEF SoundControl, Places, Shaped, Advances, Fails, Undoes, Runs
  <2>3. QED
    BY <2>1, <2>2 DEF Places
<1>7. QED
  BY <1>5, <1>6

\* Where the requests are, seen from the step AskBank or FailBankStatus.
LEMMA ActsPast ==
  ASSUME LaterInv, NEW r \in Requests, Acts(r), NEW CONSTANT ops
  PROVE  /\ \A q \in Requests \ {r} : Past(q, ops)' <=> Past(q, ops)
         /\ Advances(r) => (Past(r, ops)' <=> Past(r, ops) \/ Cur(r).op \in ops)
         /\ \A q \in Requests \ {r} : phase'[q] = phase[q]
<1>1. /\ flow' = flow
      /\ \A q \in Requests \ {r} : pc'[q] = pc[q] /\ phase'[q] = phase[q]
  BY DEF Acts, SoundControl
<1>2. Advances(r) => pc[r] \in Nat /\ pc[r] >= 1 /\ pc'[r] = pc[r] + 1
  BY DEF LaterInv, Shaped, Places, Advances, Runs
<1>3. \A q \in Requests \ {r} : Past(q, ops)' <=> Past(q, ops)
  BY <1>1, PastStays, Zenon
<1>4. Advances(r) => (Past(r, ops)' <=> Past(r, ops) \/ Cur(r).op \in ops)
  BY <1>1, <1>2, PastGrows, Zenon
<1>5. QED
  BY <1>1, <1>3, <1>4

\* What is known of the bank.
LEMMA ActsKeepKnowledge ==
  ASSUME LaterInv, NEW r \in Requests, Acts(r)
  PROVE  AskedOnce' /\ AnswersTell' /\ PassedIsPaid' /\ JobKnows'
<1>1. /\ flow' = flow /\ UNCHANGED <<timeUp, job>>
      /\ Advances(r) \/ Fails(r) \/ Undoes(r)
      /\ ActsOnCopies(r) /\ ActsOnBank(r)
  BY DEF Acts, SoundControl, around
<1>2. /\ BankPaid' <=> BankPaid
      /\ BankDecided => BankDecided'
  BY ActsKeepBank
<1>3. \A q \in Requests \ {r} :
        phase'[q] = phase[q] /\ bank'[q] = bank[q] /\ flag'[q] = flag[q]
  BY <1>1, ActsPast, CopiesAre DEF ActsOnCopies, ActsOnBank, OnlyAt, OnRequests
<1>4. AskedOnce'
  <2>1. SUFFICES ASSUME NEW q \in Requests, Ahead(q)', ~ Past(q, {"AskBank"})'
                 PROVE  bank'[q] = "idle"
    BY DEF AskedOnce
  <2>2. CASE q # r
    <3>1. Ahead(q) /\ ~ Past(q, {"AskBank"})
      BY <1>3, <2>1, <2>2, ActsPast DEF Ahead
    <3>2. QED
      BY <1>3, <2>2, <3>1 DEF LaterInv, AskedOnce
  <2>3. CASE q = r
    <3>1. Advances(r)
      BY <1>1, <2>1, <2>3 DEF Ahead, Fails, Undoes
    <3>2. Ahead(r) /\ ~ Past(r, {"AskBank"}) /\ Cur(r).op # "AskBank"
      BY <2>1, <2>3, <3>1, ActsPast DEF Ahead, Advances, Runs
    <3>3. QED
      BY <1>1, <2>3, <3>2 DEF LaterInv, AskedOnce, ActsOnBank
  <2>4. QED
    BY <2>2, <2>3
<1>5. AnswersTell'
  <2>1. phase[r] # "idle"
    BY <1>1 DEF Advances, Fails, Undoes, Runs
  <2>2. QED
    BY <1>1, <1>2, <1>3, <2>1 DEF LaterInv, AnswersTell
<1>6. PassedIsPaid'
  <2>1. ASSUME NEW q \in Requests, phase'[q] = "run", Past(q, {"FailBankStatus"})'
        PROVE  BankPaid'
    <3>1. CASE q # r
      <4>1. phase[q] = "run" /\ Past(q, {"FailBankStatus"})
        BY <1>3, <2>1, <3>1, ActsPast
      <4>2. QED
        BY <1>2, <4>1 DEF LaterInv, PassedIsPaid
    <3>2. CASE q = r
      <4>1. Advances(r) /\ phase[r] = "run"
        BY <1>1, <2>1, <3>2 DEF Advances, Fails, Undoes, Runs
      <4>2. Past(r, {"FailBankStatus"}) \/ Cur(r).op = "FailBankStatus"
        BY <2>1, <3>2, <4>1, ActsPast
      <4>3. QED
        BY <1>1, <1>2, <4>1, <4>2 DEF LaterInv, PassedIsPaid, ActsOnBank
    <3>3. QED
      BY <3>1, <3>2
  <2>2. ASSUME NEW q \in Requests, flag'[q] = "bypass" PROVE BankPaid'
    BY <1>1, <1>2, <1>3, <2>2 DEF LaterInv, PassedIsPaid, ActsOnBank
  <2>3. QED
    BY <2>1, <2>2 DEF PassedIsPaid
<1>7. JobKnows'
  BY <1>1, <1>2 DEF LaterInv, JobKnows
<1>8. QED
  BY <1>4, <1>5, <1>6, <1>7

\* What a bank status message knows when it is rolled back.
LEMMA ActsKeepFailure ==
  ASSUME LaterInv, NEW r \in Requests, Acts(r)
  PROVE  NoTransYet' /\ WhyUndone'
<1>1. /\ flow' = flow
      /\ \A q \in Requests : Steps(q)' = Steps(q)
      /\ Advances(r) \/ Fails(r) \/ Undoes(r)
      /\ \A q \in Requests \ {r} :
           phase'[q] = phase[q] /\ pc'[q] = pc[q] /\ failedAt'[q] = failedAt[q]
      /\ ActsOnCopies(r) /\ ActsOnFailure(r)
  BY DEF Acts, SoundControl, Steps
<1>2. \A q \in Requests \ {r} : trans'[q] = trans[q] /\ order'[q] = order[q]
  BY <1>1, CopiesAre DEF ActsOnCopies, OnlyAt, OnRequests
<1>3. BankRefused => BankRefused'
  BY ActsKeepBank
<1>4. pc[r] \in Nat /\ failedAt[r] \in Nat
  BY DEF LaterInv, Shaped
<1>5. flow[r] \in BankStatuses /\ Runs(r) =>
        (Cur(r).op = "FindOrder" <=> pc[r] = 1) /\ (Cur(r).op = "FindTransaction" <=> pc[r] = 2)
  BY LaterCur DEF LaterStep, Cur
<1>6. Runs(r) => pc[r] >= 1
  BY DEF LaterInv, Places, Runs
<1>7. NoTransYet'
  <2>1. ASSUME NEW q \in Requests \ {r}, flow[q] \in BankStatuses,
               \/ phase'[q] \in {"idle", "run"} /\ pc'[q] <= 2
               \/ phase'[q] = "abort" /\ failedAt'[q] <= 2
        PROVE  trans'[q] = NIL
    BY <1>1, <1>2, <2>1 DEF LaterInv, NoTransYet
  <2>2. ASSUME flow[r] \in BankStatuses,
               \/ phase'[r] \in {"idle", "run"} /\ pc'[r] <= 2
               \/ phase'[r] = "abort" /\ failedAt'[r] <= 2
        PROVE  trans'[r] = NIL
    <3>1. CASE Advances(r)
      <4>1. Runs(r) /\ pc[r] = 1 /\ phase[r] = "run"
        BY <1>4, <1>6, <2>2, <3>1 DEF Advances, Runs
      <4>2. trans[r] = NIL
        BY <2>2, <4>1 DEF LaterInv, NoTransYet
      <4>3. QED
        BY <1>1, <1>5, <2>2, <4>1, <4>2 DEF ActsOnFailure
    <3>2. CASE Fails(r)
      <4>1. Runs(r) /\ pc[r] \in {1, 2} /\ phase[r] = "run"
        BY <1>4, <1>6, <2>2, <3>2 DEF Fails, Runs
      <4>2. trans[r] = NIL
        BY <2>2, <4>1 DEF LaterInv, NoTransYet
      <4>3. QED
        BY <1>1, <1>5, <2>2, <3>2, <4>1, <4>2 DEF ActsOnFailure
    <3>3. CASE Undoes(r)
      <4>1. phase[r] = "abort" /\ failedAt[r] <= 2
        BY <2>2, <3>3 DEF Undoes
      <4>2. trans[r] = NIL
        BY <2>2, <4>1 DEF LaterInv, NoTransYet
      <4>3. QED
        BY <1>1, <3>3, <4>2 DEF ActsOnFailure
    <3>4. QED
      BY <1>1, <3>1, <3>2, <3>3
  <2>3. QED
    BY <1>1, <2>1, <2>2 DEF NoTransYet
<1>8. WhyUndone'
  <2>1. SUFFICES ASSUME NEW q \in Requests, flow[q] \in BankStatuses, phase'[q] = "abort"
                 PROVE  /\ FailedStep(q)' # "SkipProvider"
                        /\ FailedStep(q)' = "FailBankStatus" => BankRefused'
                        /\ FailedStep(q)' = "ConfirmTrans" =>
                             pc'[q] = failedAt'[q] /\ trans'[q] = NIL
                        /\ FailedStep(q)' = "SuccessOrder" =>
                             pc'[q] = failedAt'[q] /\ order'[q] = NIL
    BY <1>1 DEF WhyUndone
  <2>2. CASE q # r
    <3>1. FailedStep(q)' = FailedStep(q) /\ phase[q] = "abort"
      BY <1>1, <2>1, <2>2 DEF FailedStep
    <3>2. QED
      BY <1>1, <1>2, <1>3, <2>1, <2>2, <3>1 DEF LaterInv, WhyUndone
  <2>3. CASE q = r /\ Fails(r)
    <3>1. FailedStep(r)' = Cur(r).op /\ pc'[r] = failedAt'[r]
      BY <1>1, <2>3 DEF FailedStep, Fails, Cur
    <3>2. QED
      BY <1>1, <1>3, <2>3, <3>1 DEF ActsOnFailure
  <2>4. CASE q = r /\ Undoes(r)
    <3>1. FailedStep(r)' = FailedStep(r) /\ phase[r] = "abort"
      BY <1>1, <2>4 DEF FailedStep, Undoes
    <3>2. FailedStep(r) \notin {"ConfirmTrans", "SuccessOrder"}
      BY <1>1, <2>1, <2>4 DEF ActsOnFailure
    <3>3. QED
      BY <1>3, <2>1, <2>4, <3>1, <3>2 DEF LaterInv, WhyUndone
  <2>5. QED
    BY <1>1, <2>1, <2>2, <2>3, <2>4 DEF Advances
<1>9. QED
  BY <1>7, <1>8

\* Only what the bank has paid is charged, and nothing is given back without a reason.
LEMMA ActsKeepMoney ==
  ASSUME LaterInv, NEW r \in Requests, Acts(r)
  PROVE  ChargedIsBankPaid' /\ ReleasedUnlessRefused'
<1>1. flow' = flow /\ timeUp' = timeUp /\ ActsOnMoney
  BY DEF Acts, around
<1>2. \A o \in Requests : bank[o] # "idle" => bank'[o] = bank[o]
  BY ActsKeepBank
<1>3. \A t \in Requests : Opens(t)' <=> Opens(t)
  BY <1>1 DEF Opens
<1>4. \A t, o \in Requests : Opens(t) /\ Opens(o) => t = o
  BY OneOpening, CopiesAre
<1>5. ChargedIsBankPaid'
  <2>1. SUFFICES ASSUME NEW t \in Requests, state'[t] = "APPLIED", Opens(t)
                 PROVE  bank'[t] = "delivered"
    BY <1>3 DEF ChargedIsBankPaid, Charged
  <2>2. bank[t] = "delivered"
    BY <1>1, <1>4, <2>1 DEF ActsOnMoney, BankPaid, LaterInv, ChargedIsBankPaid, Charged
  <2>3. QED
    BY <1>2, <2>2
<1>6. ReleasedUnlessRefused'
  <2>1. SUFFICES ASSUME NEW t \in Requests, Opens(t), state'[t] = "RELEASED", bank'[t] # "refused"
                 PROVE  Reason(t)'
    BY <1>3 DEF ReleasedUnlessRefused
  <2>2. bank[t] # "refused"
    BY <1>2, <2>1
  <2>3. CASE state[t] = "RELEASED"
    <3>1. Reason(t)
      BY <2>1, <2>2, <2>3 DEF LaterInv, ReleasedUnlessRefused
    <3>2. QED
      BY <1>1, <3>1, FailedStays, ReasonStays
  <2>4. CASE Grounds
    <3>1. ~ BankRefused
      BY <1>4, <2>1, <2>2 DEF BankRefused, BankDecided, BankPaid
    <3>2. QED
      BY <2>1, <2>4, <3>1 DEF Grounds
  <2>5. QED
    BY <1>1, <2>1, <2>3, <2>4 DEF ActsOnMoney
<1>7. QED
  BY <1>5, <1>6

\* Together: the invariant.
LEMMA ActsKeep ==
  ASSUME LaterInv, NEW r \in Requests, Acts(r)
  PROVE  LaterInv'
BY ActsKeepShape, ActsKeepKnowledge, ActsKeepFailure, ActsKeepMoney DEF LaterInv

-----------------------------------------------------------------------------
(* Beginnings, ends, crashes, the bank, the job and time.                  *)

\* Requests begin, return or die: no step of theirs is taken.
LEMMA PhasesKeep ==
  ASSUME LaterInv, UNCHANGED <<flow, pc, failedAt, trans, flag, state, bank, timeUp>>,
         OnRequests(order)', phase' \in [Requests -> Phases],
         job' = job \/ job' = [at |-> "idle", read |-> NIL],
         \A q \in Requests :
           /\ phase'[q] = "run" => phase[q] \in {"idle", "run"}
           /\ phase'[q] \in {"idle", "abort"} => phase'[q] = phase[q] /\ order'[q] = order[q]
           /\ phase'[q] = "refused" => phase[q] \in {"idle", "refused"}
           /\ phase[q] = "idle" /\ phase'[q] # "idle"
                /\ flow[q] \in AnswerFlows \ {"UpdateCreditPayment"} => BankDecided
  PROVE  LaterInv'
<1>1. /\ \A q \in Requests : Steps(q)' = Steps(q)
      /\ \A q \in Requests : Opens(q)' <=> Opens(q)
      /\ \A q \in Requests : FailedStep(q)' = FailedStep(q)
      /\ \A q \in Requests : Reason(q) => Reason(q)'
  <2>1. flow' = flow /\ failedAt' = failedAt /\ timeUp' = timeUp
    OBVIOUS
  <2>2. \A q \in Requests : Steps(q)' = Steps(q)
    BY <2>1 DEF Steps
  <2>3. \A q \in Requests : Reason(q) => Reason(q)'
    BY <2>1, ReasonStays
  <2>4. QED
    BY <2>1, <2>2, <2>3 DEF FailedStep, Opens
<1>2. /\ BankPaid' <=> BankPaid
      /\ BankDecided' <=> BankDecided
  BY <1>1 DEF BankPaid, BankDecided
<1>3. BankRefused' <=> BankRefused
  BY <1>2 DEF BankRefused
<1>4. /\ \A q \in Requests : Past(q, {"AskBank"})' <=> Past(q, {"AskBank"})
      /\ \A q \in Requests : Past(q, {"FailBankStatus"})' <=> Past(q, {"FailBankStatus"})
  BY PastStays, Zenon
<1>5. \A q \in Requests : phase[q] = "idle" => pc[q] = 1 /\ failedAt[q] = 0
  BY DEF LaterInv, Places
<1>6. Shaped'
  BY <1>1 DEF LaterInv, Shaped, OnRequests
<1>7. Places'
  BY <1>5 DEF LaterInv, Places, Shaped
<1>8. AskedOnce'
  BY <1>4 DEF LaterInv, AskedOnce, Ahead
<1>9. AnswersTell'
  BY <1>2 DEF LaterInv, AnswersTell
<1>10. PassedIsPaid'
  <2>1. ASSUME NEW q \in Requests, phase'[q] = "run", Past(q, {"FailBankStatus"})'
        PROVE  BankPaid
    <3>1. CASE phase[q] = "run"
      BY <1>4, <2>1, <3>1 DEF LaterInv, PassedIsPaid
    <3>2. CASE phase[q] = "idle"
      <4>1. pc[q] = 1 /\ Past(q, {"FailBankStatus"})
        BY <1>4, <1>5, <2>1, <3>2
      <4>2. QED
        BY <4>1 DEF Past, Earlier
    <3>3. QED
      BY <2>1, <3>1, <3>2
  <2>2. QED
    BY <1>2, <2>1 DEF LaterInv, PassedIsPaid
<1>11. JobKnows'
  BY <1>2 DEF LaterInv, JobKnows
<1>12. NoTransYet'
  BY DEF LaterInv, NoTransYet
<1>13. WhyUndone'
  BY <1>1, <1>3 DEF LaterInv, WhyUndone
<1>14. ChargedIsBankPaid' /\ ReleasedUnlessRefused'
  BY <1>1 DEF LaterInv, ChargedIsBankPaid, ReleasedUnlessRefused, Charged
<1>15. QED
  BY <1>6, <1>7, <1>8, <1>9, <1>10, <1>11, <1>12, <1>13, <1>14 DEF LaterInv

\* A request begins; an answer begins when the bank has decided.
LEMMA BeginKeeps ==
  ASSUME LaterInv, NEW r \in Requests,
         (flow[r] \notin AnswerFlows /\ Begin(r)) \/ BeginAnswer(r)
  PROVE  LaterInv'
<1>1. /\ Begin(r)
      /\ flow[r] \in AnswerFlows \ {"UpdateCreditPayment"} => BankDecided
  BY DEF BeginAnswer
<1>2. /\ phase[r] = "idle"
      /\ \/ phase' = [phase EXCEPT ![r] = "run"] /\ \E d : order' = [order EXCEPT ![r] = d]
         \/ phase' = [phase EXCEPT ![r] = "refused"] /\ UNCHANGED order
      /\ UNCHANGED <<flow, pc, failedAt, trans, flag, state, bank, timeUp, job>>
  BY <1>1 DEF Begin, service, outside, around
<1>3. phase \in [Requests -> Phases] /\ OnRequests(order)
  BY DEF LaterInv, Shaped
<1>4. phase' \in [Requests -> Phases] /\ (\A q \in Requests \ {r} : phase'[q] = phase[q])
      /\ phase'[r] \in {"run", "refused"}
  BY <1>2, <1>3 DEF Phases
<1>5. OnRequests(order)' /\ \A q \in Requests \ {r} : order'[q] = order[q]
  BY <1>2, <1>3 DEF OnRequests
<1>6. QED
  BY <1>1, <1>2, <1>4, <1>5, PhasesKeep

\* A request returns.
LEMMA ReturnKeepsLater ==
  ASSUME LaterInv, NEW r \in Requests, Return(r)
  PROVE  LaterInv'
<1>1. /\ phase' = [phase EXCEPT ![r] = "done"] \/ phase' = [phase EXCEPT ![r] = "failed"]
      /\ UNCHANGED <<flow, pc, failedAt, order, trans, flag, state, bank, timeUp, job>>
  BY DEF Return, copies, service, outside, around
<1>2. phase \in [Requests -> Phases] /\ OnRequests(order)
  BY DEF LaterInv, Shaped
<1>3. phase' \in [Requests -> Phases] /\ (\A q \in Requests \ {r} : phase'[q] = phase[q])
      /\ phase'[r] \in {"done", "failed"}
  BY <1>1, <1>2 DEF Phases
<1>4. phase[r] # "idle" /\ OnRequests(order)'
  BY <1>1, <1>2 DEF Return, OnRequests
<1>5. QED
  BY <1>1, <1>3, <1>4, PhasesKeep

\* The process goes down.
LEMMA CrashKeeps ==
  ASSUME LaterInv, Crash
  PROVE  LaterInv'
<1>1. /\ phase' = [q \in Requests |-> IF Active(q) THEN "crashed" ELSE phase[q]]
      /\ job' = [at |-> "idle", read |-> NIL]
      /\ UNCHANGED <<flow, pc, failedAt, order, trans, flag, state, bank, timeUp>>
  BY DEF Crash, copies, service, outside
<1>2. phase \in [Requests -> Phases] /\ OnRequests(order)
  BY DEF LaterInv, Shaped
<1>3. phase' \in [Requests -> Phases] /\ OnRequests(order)'
  BY <1>1, <1>2 DEF Phases, OnRequests
<1>4. \A q \in Requests : phase'[q] = phase[q] \/ (Active(q) /\ phase'[q] = "crashed")
  BY <1>1
<1>5. QED
  BY <1>1, <1>3, <1>4, PhasesKeep DEF Active

\* Nothing happens.
LEMMA NothingKeeps ==
  ASSUME LaterInv, UNCHANGED vars
  PROVE  LaterInv'
<1>1. /\ phase' = phase /\ order' = order
      /\ UNCHANGED <<flow, pc, failedAt, trans, flag, state, bank, timeUp, job>>
  BY DEF vars, control, copies, service, outside, around
<1>2. phase' \in [Requests -> Phases] /\ OnRequests(order)'
  BY <1>1 DEF LaterInv, Shaped, OnRequests
<1>3. QED
  BY <1>1, <1>2, PhasesKeep

\* The bank decides, once.
LEMMA BankDecidesKeeps ==
  ASSUME LaterInv, NEW o \in Requests, BankDecides(o)
  PROVE  LaterInv'
<1>1. /\ Opens(o) /\ bank[o] = "unknown"
      /\ \E did \in {"delivered", "refused"} : bank' = [bank EXCEPT ![o] = did]
      /\ UNCHANGED <<flow, phase, pc, failedAt, order, trans, flag, state, timeUp, job>>
  BY DEF BankDecides, control, copies, service, around
<1>2. bank \in [Requests -> Deeds]
  BY DEF LaterInv, Shaped
<1>3. /\ bank' \in [Requests -> Deeds]
      /\ \A q \in Requests \ {o} : bank'[q] = bank[q]
      /\ bank'[o] \in {"delivered", "refused"}
  BY <1>1, <1>2 DEF Deeds
<1>4. \A q \in Requests : Opens(q)' <=> Opens(q)
  BY <1>1 DEF Opens
<1>5. ~ BankDecided /\ ~ BankRefused /\ ~ BankPaid
  <2>1. \A q \in Requests : Opens(q) => q = o
    BY <1>1, OneOpening, CopiesAre
  <2>2. QED
    BY <1>1, <2>1 DEF BankDecided, BankRefused, BankPaid
<1>6. BankDecided => BankDecided'
  BY <1>5
<1>7. \A q \in Requests : Steps(q)' = Steps(q) /\ FailedStep(q)' = FailedStep(q)
  BY <1>1 DEF Steps, FailedStep
<1>8. Shaped' /\ Places'
  BY <1>1, <1>3, <1>7 DEF LaterInv, Shaped, Places, OnRequests
<1>9. AskedOnce'
  <2>1. \A q \in Requests : Past(q, {"AskBank"})' <=> Past(q, {"AskBank"})
    BY <1>1, PastStays, Zenon
  <2>2. QED
    BY <1>1, <1>3, <2>1 DEF LaterInv, AskedOnce, Ahead
<1>10. AnswersTell' /\ JobKnows'
  BY <1>1, <1>5 DEF LaterInv, AnswersTell, JobKnows
<1>11. PassedIsPaid'
  <2>1. \A q \in Requests : Past(q, {"FailBankStatus"})' <=> Past(q, {"FailBankStatus"})
    BY <1>1, PastStays, Zenon
  <2>2. QED
    BY <1>1, <1>5, <2>1 DEF LaterInv, PassedIsPaid
<1>12. NoTransYet' /\ WhyUndone'
  BY <1>1, <1>5, <1>7 DEF LaterInv, NoTransYet, WhyUndone
<1>13. ChargedIsBankPaid'
  BY <1>1, <1>3, <1>4 DEF LaterInv, ChargedIsBankPaid, Charged
<1>14. ReleasedUnlessRefused'
  <2>1. \A t \in Requests : Reason(t) => Reason(t)'
    BY <1>1, ReasonStays
  <2>2. QED
    BY <1>1, <1>3, <1>4, <2>1 DEF LaterInv, ReleasedUnlessRefused
<1>15. QED
  BY <1>8, <1>9, <1>10, <1>11, <1>12, <1>13, <1>14 DEF LaterInv

\* What the job may do: once the time is up, it charges what the bank has paid and
\* gives back what it wants.
JobActs ==
  /\ UNCHANGED <<flow, phase, pc, failedAt, order, trans, flag, bank>>
  /\ job' = [at |-> job'.at, read |-> job'.read]
  /\ timeUp => timeUp'
  /\ job'.at # "idle" => timeUp'
  /\ job'.at = "confirm" => BankPaid
  /\ state' \in [Requests -> TransactionState]
  /\ \A t \in Requests :
       /\ state'[t] = "APPLIED" => state[t] = "APPLIED" \/ BankPaid
       /\ state'[t] = "RELEASED" => state[t] = "RELEASED" \/ timeUp

\* That much keeps the invariant.
LEMMA JobActsKeep ==
  ASSUME LaterInv, JobActs
  PROVE  LaterInv'
<1>1. /\ UNCHANGED <<flow, phase, pc, failedAt, order, trans, flag, bank>>
      /\ timeUp => timeUp'
  BY DEF JobActs
<1>2. /\ \A q \in Requests : Opens(q)' <=> Opens(q)
      /\ \A q \in Requests : Steps(q)' = Steps(q) /\ FailedStep(q)' = FailedStep(q)
  BY <1>1 DEF Opens, Steps, FailedStep
<1>3. /\ BankPaid' <=> BankPaid
      /\ BankDecided' <=> BankDecided
      /\ BankRefused' <=> BankRefused
  BY <1>1, <1>2 DEF BankPaid, BankDecided, BankRefused
<1>4. /\ \A q \in Requests : Past(q, {"AskBank"})' <=> Past(q, {"AskBank"})
      /\ \A q \in Requests : Past(q, {"FailBankStatus"})' <=> Past(q, {"FailBankStatus"})
  BY <1>1, PastStays, Zenon
<1>5. Shaped' /\ Places'
  BY <1>1, <1>2 DEF LaterInv, Shaped, Places, OnRequests, JobActs
<1>6. AskedOnce' /\ AnswersTell' /\ PassedIsPaid'
  BY <1>1, <1>3, <1>4 DEF LaterInv, AskedOnce, AnswersTell, PassedIsPaid, Ahead
<1>7. JobKnows'
  BY <1>3 DEF JobKnows, JobActs
<1>8. NoTransYet' /\ WhyUndone'
  BY <1>1, <1>2, <1>3 DEF LaterInv, NoTransYet, WhyUndone
<1>9. ChargedIsBankPaid'
  <2>1. \A t, o \in Requests : Opens(t) /\ Opens(o) => t = o
    BY OneOpening, CopiesAre
  <2>2. QED
    BY <1>1, <1>2, <2>1 DEF LaterInv, ChargedIsBankPaid, Charged, BankPaid, JobActs
<1>10. ReleasedUnlessRefused'
  <2>1. \A t \in Requests : Reason(t) => Reason(t)'
    BY <1>1, ReasonStays
  <2>2. timeUp => \A t \in Requests : Reason(t)
    BY DEF Reason
  <2>3. QED
    BY <1>1, <1>2, <2>1, <2>2 DEF LaterInv, ReleasedUnlessRefused, JobActs
<1>11. QED
  BY <1>5, <1>6, <1>7, <1>8, <1>9, <1>10 DEF LaterInv

\* The job does no more, whether or not it asks the bank, nor does the clock.
LEMMA JobDoes ==
  ASSUME LaterInv, NapasJob \/ OtherJob \/ Tick
  PROVE  JobActs
<1>1. /\ job = [at |-> job.at, read |-> job.read]
      /\ state \in [Requests -> TransactionState]
      /\ job.at # "idle" => timeUp
      /\ job.at = "confirm" => BankPaid
  BY DEF LaterInv, Shaped, JobKnows
<1>2. UNCHANGED <<flow, phase, pc, failedAt, order, trans, flag, bank>>
  BY DEF NapasJob, OtherJob, JobReadNapas, JobRetrieve, JobConfirm, JobRelease, JobWrites, JobRead,
     JobFail, JobCancel, Tick, control, copies, outside
<1>3. CASE Tick
  BY <1>1, <1>2, <1>3 DEF Tick, JobActs, service
<1>4. CASE ~ Tick
  <2>1. timeUp' = timeUp
    BY <1>4 DEF NapasJob, OtherJob, JobReadNapas, JobRetrieve, JobConfirm, JobRelease, JobWrites,
       JobRead, JobFail, JobCancel
  <2>2. /\ job' = [at |-> job'.at, read |-> job'.read]
        /\ job'.at # "idle" => timeUp
        /\ job'.at = "confirm" => BankPaid
    <3>1. ASSUME NEW at, JobGoes(at), job.at # "idle"
          PROVE  job' = [at |-> job'.at, read |-> job'.read] /\ job'.at = at /\ timeUp
      BY <1>1, <3>1 DEF JobGoes
    <3>2. CASE JobReadNapas \/ JobRead
      BY <3>2 DEF JobReadNapas, JobRead
    <3>3. CASE JobRetrieve
      <4>1. \/ JobGoes("giveUp") \/ JobGoes("unanswered") \/ JobGoes("idle") \/ JobGoes("refuse")
            \/ JobGoes("confirm") /\ BankPaid
        BY <3>3 DEF JobRetrieve
      <4>2. job.at # "idle"
        BY <3>3 DEF JobRetrieve
      <4>3. QED
        BY <3>1, <4>1, <4>2
    <3>4. CASE JobConfirm
      BY <3>1, <3>4 DEF JobConfirm
    <3>5. CASE JobRelease
      BY <3>1, <3>5 DEF JobRelease
    <3>6. CASE JobWrites
      BY <3>1, <3>6 DEF JobWrites
    <3>7. CASE (\E outcome \in RepairOutcomes : JobFail(outcome)) \/ JobCancel
      BY <1>1, <3>7 DEF JobFail, JobCancel
    <3>8. QED
      BY <1>4, <3>2, <3>3, <3>4, <3>5, <3>6, <3>7 DEF NapasJob, OtherJob
  <2>3. \/ state' = state
        \/ BankPaid /\ \E t : state' = [state EXCEPT ![t] = "APPLIED"]
        \/ timeUp /\ \E t : state' = [state EXCEPT ![t] = "RELEASED"]
    <3>1. CASE JobReadNapas \/ JobRead \/ JobRetrieve \/ JobWrites
               \/ \E outcome \in RepairOutcomes : JobFail(outcome)
      BY <3>1 DEF JobReadNapas, JobRead, JobRetrieve, JobWrites, JobFail, service
    <3>2. CASE JobConfirm
      BY <1>1, <3>2 DEF JobConfirm, ConfirmEnds, service
    <3>3. CASE JobRelease
      BY <1>1, <3>3 DEF JobRelease, CancelEnds, service
    <3>4. CASE JobCancel
      BY <1>1, <3>4 DEF JobCancel, CancelIfInitial, CancelEnds, service
    <3>5. QED
      BY <1>4, <3>1, <3>2, <3>3, <3>4 DEF NapasJob, OtherJob
  <2>4. /\ state' \in [Requests -> TransactionState]
        /\ \A t \in Requests :
             /\ state'[t] = "APPLIED" => state[t] = "APPLIED" \/ BankPaid
             /\ state'[t] = "RELEASED" => state[t] = "RELEASED" \/ timeUp
    BY <1>1, <2>3 DEF TransactionState
  <2>5. QED
    BY <1>2, <2>1, <2>2, <2>4 DEF JobActs
<1>5. QED
  BY <1>3, <1>4

-----------------------------------------------------------------------------
(* The theorems.                                                           *)

\* At first nothing is known and nothing has been done.
LEMMA InitLater == Init => LaterInv
<1>1. SUFFICES ASSUME Init PROVE LaterInv
  OBVIOUS
<1>2. /\ flow \in Flows
      /\ phase = [r \in Requests |-> "idle"] /\ pc = [r \in Requests |-> 1]
      /\ failedAt = [r \in Requests |-> 0] /\ trans = [r \in Requests |-> NIL]
      /\ order = [r \in Requests |-> NIL] /\ flag = [r \in Requests |-> "none"]
      /\ state = [r \in Requests |-> "NONE"] /\ bank = [r \in Requests |-> "idle"]
      /\ job = [at |-> "idle", read |-> NIL]
  BY <1>1 DEF Init
<1>3. \A r \in Requests : Len(Steps(r)) \in Nat
  BY <1>2, LaterSteps
<1>4. Shaped /\ Places
  BY <1>2, <1>3 DEF Shaped, Places, OnRequests, Phases, TransactionState, Deeds
<1>5. AskedOnce /\ AnswersTell /\ PassedIsPaid /\ JobKnows
  BY <1>2 DEF AskedOnce, AnswersTell, PassedIsPaid, JobKnows
<1>6. NoTransYet /\ WhyUndone /\ ChargedIsBankPaid /\ ReleasedUnlessRefused
  BY <1>2 DEF NoTransYet, WhyUndone, ChargedIsBankPaid, Charged, ReleasedUnlessRefused
<1>7. QED
  BY <1>4, <1>5, <1>6 DEF LaterInv

\* Every step keeps the invariant.
LEMMA SettleKeeps == LaterInv /\ [SettleNext]_vars => LaterInv'
<1>1. SUFFICES ASSUME LaterInv, [SettleNext]_vars PROVE LaterInv'
  OBVIOUS
<1>2. ASSUME NEW r \in Requests, (flow[r] \notin AnswerFlows /\ Begin(r)) \/ BeginAnswer(r)
      PROVE  LaterInv'
  BY <1>1, <1>2, BeginKeeps
<1>3. ASSUME NEW r \in Requests, Work(r) \/ Settle(r) PROVE LaterInv'
  BY <1>1, <1>3, WorkActs, ActsKeep, ReturnKeepsLater DEF Work
<1>4. ASSUME NEW r \in Requests, BankDecides(r) PROVE LaterInv'
  BY <1>1, <1>4, BankDecidesKeeps
<1>5. CASE Tick \/ NapasJob \/ OtherJob
  BY <1>1, <1>5, JobDoes, JobActsKeep
<1>6. CASE Crash
  BY <1>1, <1>6, CrashKeeps
<1>7. CASE Quiescent \/ UNCHANGED vars
  BY <1>1, <1>7, NothingKeeps DEF Quiescent
<1>8. QED
  BY <1>1, <1>2, <1>3, <1>4, <1>5, <1>6, <1>7 DEF SettleNext

\* What requests, answers and job know of the bank, whatever their order.
THEOREM SettlementInvariant == SettleSpec => []LaterInv
<1>1. QED
  BY InitLater, SettleKeeps, PTL DEF SettleSpec

\* Only what the bank has paid is charged: an answer that comes twice, late or
\* against the expiry job charges nobody whom the bank refused.
THEOREM OnlyPaidIsCharged == SettleSpec => []ChargedIsBankPaid
<1>1. LaterInv => ChargedIsBankPaid
  BY DEF LaterInv
<1>2. QED
  BY <1>1, SettlementInvariant, PTL

\* What the bank has paid is given back only for a reason: the opening request
\* failed, the order expired, or an answer failed before it charged the payer.
THEOREM GivenBackForAReason == SettleSpec => []ReleasedForAReason
<1>1. LaterInv => ReleasedForAReason
  BY DEF LaterInv, ReleasedUnlessRefused, ReleasedForAReason, Reason
<1>2. QED
  BY <1>1, SettlementInvariant, PTL

-----------------------------------------------------------------------------
(* The order, its copies and the goods.  OrderUpdate may set any status,   *)
(* so it is left out from here on.                                         *)

CopyOps == {"InitOrder", "FindOrder"}

\* What is special about step k of a flow for the order and its copies.
DocStep(f, s, k) ==
  /\ s[k].op # "ReplaceOrder"
  /\ s[k].op \notin CopyOps \cup {"Check"} => Earlier(s, k, CopyOps)
  /\ s[k].op \in {"InitOrder", "ProcessingOrder"} => f \in LaterOpenings /\ ~ Earlier(s, k, {"AskBank"})
  /\ s[k].op \in {"InitPayment", "ProcessingKept"} => f \in NapasOpenings
  /\ s[k].op \in {"InitPayment", "FindOrInitPayment"} => f \in LaterOpenings
  /\ s[k].link =>
       \/ s[k].op \in {"InitPayment", "FindOrInitPayment"}
       \/ /\ s[k].op \in {"AskBank", "ProcessingKept"} /\ f \in NapasOpenings
          /\ Earlier(s, k, {"InitPayment"})
  /\ f \in NapasOpenings /\ Earlier(s, k, {"InitPayment"}) => s[k].op \in {"AskBank", "ProcessingKept"}
  /\ s[k].op = "CallProvider" => f \in BankStatuses /\ s[k].comp = "UndoProvider"
  /\ s[k].op = "CallProvider" => ~ Earlier(s, k, {"SuccessOrder"})
  /\ Earlier(s, k, {"CallProvider"}) => s[k].op \in {"SkipProvider", "ConfirmTrans", "SuccessOrder"}

\* A bank status message begins and ends with the order.
DocFlow(f, s) ==
  /\ \A k \in 1 .. Len(s) : DocStep(f, s, k)
  /\ f \in BankStatuses => Len(s) = 10 /\ s[1].op = "FindOrder" /\ s[10].op = "SuccessOrder"

\* The steps of a bank status message, one by one.
LEMMA StatusSteps ==
  ASSUME NEW c, NEW t, NEW b, NEW s, s = UpdateBankStatus(c, t, b)
  PROVE  /\ Len(s) = 10
         /\ s[1] = Step("FindOrder", "None") /\ s[2] = Step("FindTransaction", "CancelPayment")
         /\ s[3] = Step("FailBankStatus", "None") /\ s[4] = Step("AccountVoucher", "Reverse")
         /\ s[5] = Step(c, "UndoProvider") /\ s[6] = Step("SkipProvider", "None")
         /\ s[7] = Step(t, "UndoProvider") /\ s[8] = Step(b, "UndoProvider")
         /\ s[9] = Step("ConfirmTrans", "Park") /\ s[10] = Step("SuccessOrder", "Park")
BY DEF UpdateBankStatus, BankStatusOpening, BankStatusBuyCard, BankStatusTopUpBill,
     BankStatusSettlement

\* At most one of them calls a provider.
LEMMA StatusFlows ==
  ASSUME NEW f \in BankStatuses, NEW c, NEW t, NEW b,
         <<c, t, b>> \in {<<"CallProvider", "SkipProvider", "SkipProvider">>,
                         <<"SkipProvider", "CallProvider", "SkipProvider">>,
                         <<"SkipProvider", "SkipProvider", "CallProvider">>,
                         <<"SkipProvider", "SkipProvider", "SkipProvider">>}
  PROVE  DocFlow(f, UpdateBankStatus(c, t, b))
<1> DEFINE s == UpdateBankStatus(c, t, b)
<1>1. /\ Len(s) = 10
      /\ s[1] = Step("FindOrder", "None") /\ s[2] = Step("FindTransaction", "CancelPayment")
      /\ s[3] = Step("FailBankStatus", "None") /\ s[4] = Step("AccountVoucher", "Reverse")
      /\ s[5] = Step(c, "UndoProvider") /\ s[6] = Step("SkipProvider", "None")
      /\ s[7] = Step(t, "UndoProvider") /\ s[8] = Step(b, "UndoProvider")
      /\ s[9] = Step("ConfirmTrans", "Park") /\ s[10] = Step("SuccessOrder", "Park")
  BY StatusSteps
<1>2. {c, t, b} \subseteq {"CallProvider", "SkipProvider"}
  OBVIOUS
<1>3. f \notin LaterOpenings /\ f \notin NapasOpenings
  BY DEF BankStatuses, LaterOpenings, NapasOpenings
<1> HIDE DEF s
<1>4. ASSUME NEW k \in 1 .. 10 PROVE DocStep(f, s, k)
  <2>1. k = 1 \/ Earlier(s, k, CopyOps)
    BY <1>1 DEF Earlier, CopyOps, Step
  <2>2. s[k].op \in {"FindOrder", "FindTransaction", "FailBankStatus", "AccountVoucher", "CallProvider",
                      "SkipProvider", "ConfirmTrans", "SuccessOrder"}
        /\ ~ s[k].link /\ (s[k].op = "CallProvider" => s[k].comp = "UndoProvider")
        /\ (k = 1 => s[k].op = "FindOrder")
    BY <1>1, <1>2 DEF Step
  <2>3. Earlier(s, k, {"CallProvider"}) => s[k].op \in {"SkipProvider", "ConfirmTrans", "SuccessOrder"}
    <3>1. ASSUME NEW j \in 1 .. k - 1, s[j].op = "CallProvider"
          PROVE  s[k].op \in {"SkipProvider", "ConfirmTrans", "SuccessOrder"}
      BY <1>1, <3>1 DEF Step
    <3>2. QED
      BY <3>1 DEF Earlier
  <2>4. s[k].op = "CallProvider" => ~ Earlier(s, k, {"SuccessOrder"})
    <3>1. ASSUME NEW j \in 1 .. k - 1, s[j].op = "SuccessOrder" PROVE s[k].op # "CallProvider"
      BY <1>1, <1>2, <3>1 DEF Step
    <3>2. QED
      BY <3>1 DEF Earlier
  <2>5. QED
    BY <1>3, <2>1, <2>2, <2>3, <2>4 DEF DocStep, CopyOps
<1>5. QED
  BY <1>1, <1>4 DEF DocFlow, Step, s

\* Each of these flows looks its order up or makes it before all else, and those
\* that open it do so before they ask the bank.
LEMMA DocFlowsAre == \A f \in (LaterFlows \cup {"NoRequest"}) \ {"OrderUpdate"} : DocFlow(f, Flow[f])
<1> USE DEF DocFlow, DocStep, CopyOps, NapasOpenings, Earlier, LaterOpenings, BankStatuses, Step, Linking
<1>1. DocFlow("NapasInitCashIn", NapasInitCashIn)
  BY SMTT(60) DEF NapasInitCashIn
<1>2. DocFlow("NapasInitLink", NapasInitLink)
  BY SMTT(60) DEF NapasInitLink
<1>3. DocFlow("PayInternational", PayInternational("InitOrder"))
  BY SMTT(60) DEF PayInternational, PayInternationalOpening
<1>4. DocFlow("PayInternationalPlaced", PayInternational("FindOrder"))
  BY SMTT(60) DEF PayInternational, PayInternationalOpening
<1>5. DocFlow("ProcessCreditPayment", ProcessCreditPayment)
  BY SMTT(60) DEF ProcessCreditPayment
<1>6. DocFlow("CashInNAPAS", CashInNAPAS)
  BY SMTT(60) DEF CashInNAPAS
<1>7. DocFlow("UpdateCreditPayment", UpdateCreditPayment)
  BY SMTT(60) DEF UpdateCreditPayment
<1>8. DocFlow("BankStatusCard",
      UpdateBankStatus("CallProvider", "SkipProvider", "SkipProvider"))
  BY StatusFlows
<1>9. DocFlow("BankStatusTopUp",
      UpdateBankStatus("SkipProvider", "CallProvider", "SkipProvider"))
  BY StatusFlows
<1>10. DocFlow("BankStatusBill",
      UpdateBankStatus("SkipProvider", "SkipProvider", "CallProvider"))
  BY StatusFlows
<1>11. DocFlow("BankStatusOther",
      UpdateBankStatus("SkipProvider", "SkipProvider", "SkipProvider"))
  BY StatusFlows
<1>12. DocFlow("NoRequest", <<>>)
  BY SMTT(60)
<1> HIDE DEF DocFlow, LaterOpenings, BankStatuses
<1>13. QED
  BY <1>1, <1>2, <1>3, <1>4, <1>5, <1>6, <1>7, <1>8, <1>9, <1>10, <1>11, <1>12, FlowTable, ZenonT(60)
     DEF LaterFlows, LaterOpenings, AnswerFlows, BankStatuses

\* Nobody sets the status at will.
NoUpdate == \A r \in Requests : flow[r] # "OrderUpdate"

\* The step a request is at is one of its flow.
LEMMA DocCur ==
  ASSUME LaterInv, NoUpdate, NEW r \in Requests, Runs(r) \/ (phase[r] = "abort" /\ pc[r] > 0)
  PROVE  DocStep(flow[r], Steps(r), pc[r]) /\ pc[r] \in 1 .. Len(Steps(r))
<1>1. pc[r] \in 1 .. Len(Steps(r))
  BY LaterCur
<1>2. flow[r] \in (LaterFlows \cup {"NoRequest"}) \ {"OrderUpdate"}
  BY LaterSteps, CopiesAre DEF NoUpdate
<1>3. DocFlow(flow[r], Steps(r))
  BY <1>2, DocFlowsAre, Zenon DEF Steps
<1>4. QED
  BY <1>1, <1>3 DEF DocFlow

\* Orders, and no order.
MaybeOrder == Orders \cup {NIL}

\* The order is closed.
Finished(d) == d # NIL /\ d.status \in {"VERIFYING", "SUCCESS", "FAILED"}

\* What is kept of the order, and what an opening knows of its transaction.
CopiesTyped ==
  /\ \A r \in Requests : order[r] \in MaybeOrder
  /\ doc \in MaybeOrder /\ job.read \in MaybeOrder
  /\ job.at # "idle" => job.read # NIL
  /\ timeUp => doc # NIL
  /\ OnRequests(provider)
CopyKept == \A r \in Requests : phase[r] = "run" /\ Past(r, CopyOps) => order[r] # NIL
OpenerKnows ==
  \A r \in Requests :
    flow[r] \in NapasOpenings /\ phase[r] = "run" /\ Past(r, {"InitPayment"}) => trans[r].id = r

\* What is known of the copies.
CopiesInv == CopiesTyped /\ CopyKept /\ OpenerKnows

\* What a step of request r may do to the order, to its copy and with the provider.
ActsOnDoc(r) ==
  /\ order'[r] \in MaybeOrder /\ doc' \in MaybeOrder /\ (doc # NIL => doc' # NIL)
  /\ \/ doc' = doc \/ Finished(doc')
     \/ Runs(r) /\ Cur(r).op \in {"InitOrder", "ProcessingOrder", "ProcessingKept"}
  /\ Undoes(r) /\ Cur(r).comp = "UndoProvider" /\ flag[r] # "pending"
       /\ "err" \notin RepairOutcomes
     => phase'[r] = "panic" \/ Finished(doc')

\* What a step of request r may do to its own copy,
ActsOnKept(r) ==
  Advances(r) =>
    /\ Cur(r).op \in CopyOps \/ order[r] # NIL => order'[r] # NIL
    /\ Cur(r).op = "FindOrder" => ~ Finished(doc)
    /\ Cur(r).op = "SuccessOrder" => Finished(doc')
    /\ Cur(r).op = "InitPayment" => trans'[r].id = r
    /\ Cur(r).op \in {"AskBank", "ProcessingKept"} => trans'[r] = trans[r]

\* to the goods,
ActsOnProvider(r) ==
  /\ OnlyAt(provider, provider', r)
  /\ provider'[r] # provider[r] => Runs(r) /\ Cur(r).op = "CallProvider"
  /\ Fails(r) /\ Cur(r).op = "CallProvider" /\ provider'[r] = "delivered" => flag'[r] # "pending"

\* and in all.
ActsOnCopy(r) == ActsOnDoc(r) /\ ActsOnKept(r) /\ ActsOnProvider(r)

\* An order with another status, or transaction, is an order.
LEMMA Restated ==
  ASSUME NEW o \in Orders
  PROVE  /\ \A s \in OrderStatus :
              /\ [o EXCEPT !.status = s] \in Orders /\ [o EXCEPT !.status = s] # NIL
              /\ [o EXCEPT !.status = s].status = s /\ [o EXCEPT !.status = s].tran = o.tran
         /\ \A t \in Requests : [o EXCEPT !.tran = t] \in Orders /\ [o EXCEPT !.tran = t] # NIL
<1>1. NIL \notin Orders
  BY NilAssumption
<1>2. ASSUME NEW s \in OrderStatus
      PROVE  [o EXCEPT !.status = s] \in Orders /\ [o EXCEPT !.status = s].status = s
             /\ [o EXCEPT !.status = s].tran = o.tran
  BY DEF Orders
<1>3. ASSUME NEW t \in Requests PROVE [o EXCEPT !.tran = t] \in Orders
  BY DEF Orders
<1>4. QED
  BY <1>1, <1>2, <1>3

\* Past the first steps a request has its copy.
LEMMA CopyHeld ==
  ASSUME LaterInv, NoUpdate, CopiesInv, NEW r \in Requests, Runs(r),
         Cur(r).op \notin CopyOps \cup {"Check"}
  PROVE  order[r] \in Orders
<1>1. Past(r, CopyOps)
  BY DocCur DEF DocStep, Past, Cur
<1>2. QED
  BY <1>1 DEF CopiesInv, CopiesTyped, CopyKept, MaybeOrder, Runs

\* A step that calls no provider.
LEMMA ProviderKept ==
  ASSUME CopiesInv, NEW r \in Requests, UNCHANGED provider, Fails(r) => Cur(r).op # "CallProvider"
  PROVE  ActsOnProvider(r)
BY WrittenAt DEF ActsOnProvider, CopiesInv, CopiesTyped

\* A step that leaves order and copy alone.
LEMMA DocLeft ==
  ASSUME CopiesInv, NEW r \in Requests, UNCHANGED <<order, doc, provider>>, Runs(r),
         ~ Undoes(r), Cur(r).op \notin CopyOps \cup {"SuccessOrder", "CallProvider"},
         Advances(r) =>
           /\ Cur(r).op = "InitPayment" => trans'[r].id = r
           /\ Cur(r).op \in {"AskBank", "ProcessingKept"} => trans'[r] = trans[r]
  PROVE  ActsOnCopy(r)
<1>1. order[r] \in MaybeOrder /\ doc \in MaybeOrder
  BY DEF CopiesInv, CopiesTyped
<1>2. ActsOnDoc(r)
  BY <1>1 DEF ActsOnDoc
<1>3. ActsOnKept(r)
  BY DEF ActsOnKept, CopyOps
<1>4. QED
  BY <1>2, <1>3, ProviderKept DEF ActsOnCopy

\* A step that stores an order.
LEMMA WritesDoc ==
  ASSUME LaterInv, CopiesInv, NEW r \in Requests, NEW entity \in Orders, NEW outcome \in StepOutcomes,
         Runs(r), StepWrites(r, entity, outcome)
  PROVE  /\ order'[r] \in MaybeOrder /\ doc' \in {doc, entity}
         /\ Advances(r) => order'[r] = entity /\ doc' = entity
         /\ ~ Undoes(r) /\ entity # NIL
<1>1. /\ doc' = IF outcome = "err" THEN doc ELSE entity
      /\ order' = [order EXCEPT ![r] = IF outcome = "ok" THEN entity ELSE NIL]
      /\ StepEnds(r, outcome)
  BY DEF StepWrites
<1>2. ~ Undoes(r) /\ (Advances(r) => outcome = "ok")
  BY <1>1, EndActs
<1>3. order'[r] = IF outcome = "ok" THEN entity ELSE NIL
  BY <1>1, CopiesAre DEF OnRequests
<1>4. QED
  BY <1>1, <1>2, <1>3, NilAssumption DEF MaybeOrder

\* A call that closes the order.
LEMMA ClosesDoc ==
  ASSUME LaterInv, NEW r \in Requests, order[r] \in Orders, doc \in MaybeOrder,
         NEW status \in {"VERIFYING", "SUCCESS", "FAILED"}, ClosesOrder(r, status)
  PROVE  /\ order'[r] \in MaybeOrder /\ order'[r] # NIL
         /\ doc' \in MaybeOrder /\ (doc # NIL => doc' # NIL)
         /\ doc' = doc \/ Finished(doc')
         /\ "err" \notin RepairOutcomes => Finished(doc')
<1> DEFINE closed == [order[r] EXCEPT !.status = status]
<1>1. PICK outcome \in RepairOutcomes :
        /\ order' = [order EXCEPT ![r] = closed]
        /\ doc' = IF outcome = "err" THEN doc ELSE closed
  BY DEF ClosesOrder
<1>2. closed \in Orders /\ closed # NIL /\ closed.status = status
  <2>1. status \in OrderStatus
    BY DEF OrderStatus
  <2>2. QED
    BY <2>1, Restated, Zenon
<1> HIDE DEF closed
<1>3. order'[r] = closed
  BY <1>1, CopiesAre DEF OnRequests
<1>4. QED
  BY <1>1, <1>2, <1>3 DEF MaybeOrder, Finished

\* The order part of a compensation.
LEMMA MovesDoc ==
  ASSUME LaterInv, CopiesInv, NEW r \in Requests,
         NEW status \in {"VERIFYING", "SUCCESS", "FAILED"}, NEW skip,
         CompensationMoves(r, status, skip)
  PROVE  /\ order'[r] \in MaybeOrder
         /\ doc' \in MaybeOrder /\ (doc # NIL => doc' # NIL)
         /\ doc' = doc \/ Finished(doc')
         /\ "err" \notin RepairOutcomes /\ skip = {} => phase'[r] = "panic" \/ Finished(doc')
<1>1. order[r] \in MaybeOrder /\ doc \in MaybeOrder
  BY DEF CopiesInv, CopiesTyped
<1>2. CASE UNCHANGED <<doc, order>> /\ (skip = {} => Panics(r))
  <2>1. Panics(r) => phase'[r] = "panic"
    BY DEF Panics, LaterInv, Shaped
  <2>2. QED
    BY <1>1, <1>2, <2>1
<1>3. CASE order[r] # NIL /\ ClosesOrder(r, status)
  BY <1>1, <1>3, ClosesDoc DEF MaybeOrder
<1>4. QED
  BY <1>2, <1>3 DEF CompensationMoves, CompensationWrites

\* What a step stores is an order with its transaction.
LEMMA LinkedFits ==
  ASSUME LaterInv, NoUpdate, CopiesInv, NEW r \in Requests, Runs(r),
         Cur(r).op \notin CopyOps \cup {"Check", "InitPayment", "FindOrInitPayment"}
  PROVE  Linked(r) \in Orders
<1>1. order[r] \in Orders
  BY CopyHeld
<1>2. CASE Cur(r).link
  <2>1. flow[r] \in NapasOpenings /\ Past(r, {"InitPayment"})
    BY <1>2, DocCur DEF DocStep, Past, Cur
  <2>2. trans[r].id = r
    BY <2>1 DEF CopiesInv, OpenerKnows, Runs
  <2>3. QED
    BY <1>1, <1>2, <2>2, Restated DEF Linked
<1>3. CASE ~ Cur(r).link
  BY <1>1, <1>3 DEF Linked
<1>4. QED
  BY <1>2, <1>3

\* The steps that look at the order or store it.
LEMMA FindOrderOnCopy ==
  ASSUME LaterInv, NoUpdate, CopiesInv, NEW r \in Requests, FindOrder(r)
  PROVE  ActsOnCopy(r)
<1>1. Runs(r) /\ Cur(r).op = "FindOrder" /\ ~ Undoes(r)
  BY AtRuns DEF FindOrder
<1>2. UNCHANGED <<doc, provider>>
  BY DEF FindOrder, outside
<1>3. order[r] \in MaybeOrder /\ doc \in MaybeOrder
  BY DEF CopiesInv, CopiesTyped
<1>4. CASE GetValidOrder(doc) /\ order' = [order EXCEPT ![r] = doc] /\ StepOK(r)
  <2>1. order'[r] = doc /\ doc # NIL /\ ~ Finished(doc)
    BY <1>4, CopiesAre DEF GetValidOrder, Finished, OnRequests
  <2>2. ActsOnDoc(r)
    BY <1>1, <1>2, <1>3, <2>1 DEF ActsOnDoc
  <2>3. ActsOnKept(r)
    BY <1>1, <2>1 DEF ActsOnKept
  <2>4. QED
    BY <1>1, <1>2, <2>2, <2>3, ProviderKept DEF ActsOnCopy
<1>5. CASE UNCHANGED order /\ StepFails(r)
  <2>1. ~ Advances(r)
    BY <1>1, <1>5, FailActs
  <2>2. ActsOnDoc(r)
    BY <1>1, <1>2, <1>3, <1>5 DEF ActsOnDoc
  <2>3. QED
    BY <1>1, <1>2, <2>1, <2>2, ProviderKept DEF ActsOnCopy, ActsOnKept
<1>6. QED
  BY <1>4, <1>5 DEF FindOrder

LEMMA InitOrderOnCopy ==
  ASSUME LaterInv, NoUpdate, CopiesInv, NEW r \in Requests, InitOrder(r)
  PROVE  ActsOnCopy(r)
<1>1. Runs(r) /\ Cur(r).op = "InitOrder" /\ ~ Undoes(r)
  BY AtRuns DEF InitOrder
<1>2. UNCHANGED provider
  BY DEF InitOrder, outside
<1>3. doc \in MaybeOrder
  BY DEF CopiesInv, CopiesTyped
<1>4. NewOrder \in Orders
  BY DEF NewOrder, Orders, OrderStatus
<1>5. /\ order'[r] \in MaybeOrder /\ doc' \in {doc, NewOrder} /\ NewOrder # NIL
      /\ Advances(r) => order'[r] = NewOrder
  BY <1>1, <1>4, WritesDoc DEF InitOrder
<1>6. ActsOnDoc(r)
  BY <1>1, <1>3, <1>4, <1>5 DEF ActsOnDoc, MaybeOrder
<1>7. ActsOnKept(r)
  BY <1>1, <1>5 DEF ActsOnKept
<1>8. QED
  BY <1>1, <1>2, <1>6, <1>7, ProviderKept DEF ActsOnCopy

LEMMA ProcessingOnCopy ==
  ASSUME LaterInv, NoUpdate, CopiesInv, NEW r \in Requests, ProcessingOrder(r) \/ ProcessingKept(r)
  PROVE  ActsOnCopy(r)
<1>1. Runs(r) /\ Cur(r).op \in {"ProcessingOrder", "ProcessingKept"} /\ ~ Undoes(r)
  BY AtRuns DEF ProcessingOrder, ProcessingKept
<1>2. UNCHANGED <<trans, provider>>
  BY DEF ProcessingOrder, ProcessingKept, outside
<1>3. doc \in MaybeOrder
  BY DEF CopiesInv, CopiesTyped
<1>4. order[r] \in Orders /\ Linked(r) \in Orders
  BY <1>1, CopyHeld, LinkedFits DEF CopyOps
<1>5. PICK entity \in Orders :
        \/ \E outcome \in StepOutcomes : StepWrites(r, entity, outcome)
        \/ order' = [order EXCEPT ![r] = entity] /\ doc' \in {doc, entity}
  <2>1. \A o \in Orders : [o EXCEPT !.status = "PROCESSING"] \in Orders
    BY Restated DEF OrderStatus
  <2>2. CASE ProcessingOrder(r)
    BY <1>4, <2>1, <2>2 DEF ProcessingOrder
  <2>3. CASE ProcessingKept(r)
    BY <1>4, <2>1, <2>3 DEF ProcessingKept
  <2>4. QED
    BY <2>2, <2>3
<1>6. entity # NIL
  BY NilAssumption
<1>7. order'[r] \in MaybeOrder /\ doc' \in {doc, entity} /\ (Advances(r) => order'[r] # NIL)
  <2>1. CASE order' = [order EXCEPT ![r] = entity] /\ doc' \in {doc, entity}
    <3>1. order'[r] = entity
      BY <2>1, CopiesAre DEF OnRequests
    <3>2. QED
      BY <1>6, <2>1, <3>1 DEF MaybeOrder
  <2>2. ASSUME NEW outcome \in StepOutcomes, StepWrites(r, entity, outcome)
        PROVE  order'[r] \in MaybeOrder /\ doc' \in {doc, entity} /\ (Advances(r) => order'[r] # NIL)
    BY <1>1, <1>6, <2>2, WritesDoc
  <2>3. QED
    BY <1>5, <2>1, <2>2
<1>8. ActsOnDoc(r)
  BY <1>1, <1>3, <1>6, <1>7 DEF ActsOnDoc, MaybeOrder
<1>9. ActsOnKept(r)
  BY <1>1, <1>2, <1>7 DEF ActsOnKept
<1>10. QED
  BY <1>1, <1>2, <1>8, <1>9, ProviderKept DEF ActsOnCopy

LEMMA SuccessOnCopy ==
  ASSUME LaterInv, NoUpdate, CopiesInv, NEW r \in Requests, SuccessOrder(r)
  PROVE  ActsOnCopy(r)
<1> DEFINE entity == [Linked(r) EXCEPT !.status = "SUCCESS"]
<1>1. Runs(r) /\ Cur(r).op \in {"SuccessOrder", "SuccessIfBypass"} /\ ~ Undoes(r)
  BY AtRuns DEF SuccessOrder
<1>2. UNCHANGED provider
  BY DEF SuccessOrder, outside
<1>3. doc \in MaybeOrder
  BY DEF CopiesInv, CopiesTyped
<1>4. entity \in Orders /\ entity # NIL /\ entity.status = "SUCCESS"
  <2>1. Linked(r) \in Orders
    BY <1>1, LinkedFits DEF CopyOps
  <2>2. QED
    BY <2>1, Restated DEF OrderStatus
<1>5. PICK outcome \in StepOutcomes : StepWrites(r, entity, outcome)
  BY DEF SuccessOrder
<1> HIDE DEF entity
<1>6. /\ order'[r] \in MaybeOrder /\ doc' \in {doc, entity}
      /\ Advances(r) => order'[r] = entity /\ doc' = entity
  BY <1>1, <1>4, <1>5, WritesDoc
<1>7. ActsOnDoc(r)
  BY <1>1, <1>3, <1>4, <1>6 DEF ActsOnDoc, MaybeOrder, Finished
<1>8. ActsOnKept(r)
  BY <1>1, <1>4, <1>6 DEF ActsOnKept, Finished
<1>9. QED
  BY <1>1, <1>2, <1>7, <1>8, ProviderKept DEF ActsOnCopy

\* The steps that leave the order alone, or put their transaction into the copy.
LEMMA PlainOnCopy ==
  ASSUME LaterInv, NoUpdate, CopiesInv, NEW r \in Requests,
         Check(r) \/ AccountVoucher(r) \/ SkipStep(r) \/ FindTransaction(r)
  PROVE  ActsOnCopy(r)
<1>1. /\ Runs(r) /\ ~ Undoes(r)
      /\ Cur(r).op \in {"Check", "VendorFee", "AccountVoucher", "SkipProvider", "ConfirmIfBypass",
                       "SuccessIfBypass", "FindTransaction", "FindOrInitPayment"}
  BY AtRuns DEF Check, AccountVoucher, SkipStep, FindTransaction
<1>2. UNCHANGED <<order, doc, provider>>
  BY DEF Check, AccountVoucher, SkipStep, FindTransaction, copies, outside
<1>3. QED
  BY <1>1, <1>2, DocLeft DEF CopyOps

LEMMA InitPaymentOnCopy ==
  ASSUME LaterInv, NoUpdate, CopiesInv, NEW r \in Requests, InitPayment(r)
  PROVE  ActsOnCopy(r)
<1>1. Runs(r) /\ Cur(r).op \in {"InitPayment", "FindOrInitPayment"} /\ ~ Undoes(r)
  BY AtRuns DEF InitPayment
<1>2. UNCHANGED <<doc, provider>>
  BY DEF InitPayment, outside
<1>3. doc \in MaybeOrder /\ order[r] \in Orders
  BY <1>1, CopyHeld DEF CopiesInv, CopiesTyped, CopyOps
<1>4. order' = order \/ order' = [order EXCEPT ![r] = [order[r] EXCEPT !.tran = r]]
  BY DEF InitPayment
<1>5. order'[r] \in Orders /\ order'[r] # NIL
  <2>1. [order[r] EXCEPT !.tran = r] \in Orders
    BY <1>3, Restated
  <2>2. order'[r] \in Orders
    BY <1>3, <1>4, <2>1, CopiesAre DEF OnRequests
  <2>3. QED
    BY <2>2, NilAssumption
<1>6. Advances(r) => trans'[r].id = r
  <2>1. ASSUME NEW outcome \in StepOutcomes, StepEnds(r, outcome), Advances(r),
               trans' = [trans EXCEPT ![r] = IF outcome = "ok"
                                             THEN [id |-> r, status |-> "PROCESSING"] ELSE NIL]
        PROVE  trans'[r].id = r
    <3>1. outcome = "ok"
      BY <1>1, <2>1, EndActs
    <3>2. trans'[r] = [id |-> r, status |-> "PROCESSING"]
      BY <2>1, <3>1, CopiesAre DEF OnRequests
    <3>3. QED
      BY <3>2
  <2>2. StepFails(r) => ~ Advances(r)
    BY <1>1, FailActs
  <2>3. QED
    BY <2>1, <2>2 DEF InitPayment
<1>7. ActsOnDoc(r)
  BY <1>1, <1>2, <1>3, <1>5 DEF ActsOnDoc, MaybeOrder
<1>8. ActsOnKept(r)
  BY <1>1, <1>5, <1>6 DEF ActsOnKept
<1>9. QED
  BY <1>1, <1>2, <1>7, <1>8, ProviderKept DEF ActsOnCopy

LEMMA ConfirmOnCopy ==
  ASSUME LaterInv, NoUpdate, CopiesInv, NEW r \in Requests, ConfirmTrans(r)
  PROVE  ActsOnCopy(r)
<1>1. Runs(r) /\ Cur(r).op \in {"ConfirmTrans", "ConfirmIfBypass"} /\ ~ Undoes(r)
  BY AtRuns DEF ConfirmTrans
<1>2. UNCHANGED <<doc, provider>> /\ order' = [order EXCEPT ![r] = Linked(r)]
  BY DEF ConfirmTrans, outside
<1>3. doc \in MaybeOrder /\ Linked(r) \in Orders
  BY <1>1, LinkedFits DEF CopiesInv, CopiesTyped, CopyOps
<1>4. order'[r] \in Orders /\ order'[r] # NIL
  BY <1>2, <1>3, CopiesAre, NilAssumption DEF OnRequests
<1>5. ActsOnDoc(r)
  BY <1>1, <1>2, <1>3, <1>4 DEF ActsOnDoc, MaybeOrder
<1>6. ActsOnKept(r)
  BY <1>1, <1>4 DEF ActsOnKept, CopyOps
<1>7. QED
  BY <1>1, <1>2, <1>5, <1>6, ProviderKept DEF ActsOnCopy

LEMMA AskBankOnCopy ==
  ASSUME LaterInv, NoUpdate, CopiesInv, NEW r \in Requests, AskBank(r)
  PROVE  ActsOnCopy(r)
<1>1. Runs(r) /\ Cur(r).op = "AskBank" /\ ~ Undoes(r)
  BY AtRuns DEF AskBank
<1>2. /\ UNCHANGED <<doc, trans, provider>>
      /\ order' = order \/ order' = [order EXCEPT ![r] = Linked(r)]
  BY DEF AskBank, BankAnswers
<1>3. doc \in MaybeOrder /\ order[r] \in Orders /\ Linked(r) \in Orders
  BY <1>1, CopyHeld, LinkedFits DEF CopiesInv, CopiesTyped, CopyOps
<1>4. order'[r] \in Orders /\ order'[r] # NIL
  BY <1>2, <1>3, CopiesAre, NilAssumption DEF OnRequests
<1>5. ActsOnDoc(r)
  BY <1>1, <1>2, <1>3, <1>4 DEF ActsOnDoc, MaybeOrder
<1>6. ActsOnKept(r)
  BY <1>1, <1>2, <1>4 DEF ActsOnKept
<1>7. QED
  BY <1>1, <1>2, <1>5, <1>6, ProviderKept DEF ActsOnCopy

\* A provider that delivered, if its answer is lost, has not said that it is pending.
LEMMA CallProviderOnCopy ==
  ASSUME LaterInv, NoUpdate, CopiesInv, NEW r \in Requests, CallProvider(r)
  PROVE  ActsOnCopy(r)
<1>1. Runs(r) /\ Cur(r).op = "CallProvider" /\ ~ Undoes(r)
  BY AtRuns DEF CallProvider
<1>2. UNCHANGED <<order, doc>>
  BY DEF CallProvider
<1>3. PICK did \in Deeds, noted \in {"none", "pending"} :
        /\ provider' = [provider EXCEPT ![r] = did] /\ flag' = [flag EXCEPT ![r] = noted]
        /\ noted = "pending" => did = "unknown"
  BY DEF CallProvider, Answers, Deeds
<1>4. order[r] \in Orders /\ order[r] # NIL /\ doc \in MaybeOrder /\ OnRequests(provider)
  BY <1>1, CopyHeld, NilAssumption DEF CopiesInv, CopiesTyped, CopyOps
<1>5. OnlyAt(provider, provider', r) /\ provider'[r] = did /\ flag'[r] = noted
  BY <1>3, <1>4, CopiesAre, WrittenAt DEF OnRequests
<1>6. ActsOnProvider(r)
  BY <1>1, <1>3, <1>5 DEF ActsOnProvider
<1>7. ActsOnDoc(r)
  BY <1>1, <1>2, <1>4 DEF ActsOnDoc, MaybeOrder
<1>8. ActsOnKept(r)
  BY <1>1, <1>2, <1>4 DEF ActsOnKept
<1>9. QED
  BY <1>6, <1>7, <1>8 DEF ActsOnCopy

\* The steps that close the order when a payment was refused, or settled.
ClosingOps == {"CheckFraud", "FailBankStatus", "CheckAmount", "SettleNapas", "CreditStatus"}

LEMMA ClosingOnCopy ==
  ASSUME LaterInv, NoUpdate, CopiesInv, NEW r \in Requests, Runs(r), ~ Undoes(r),
         Cur(r).op \in ClosingOps, UNCHANGED provider,
         \/ UNCHANGED <<doc, order>>
         \/ \E status \in {"VERIFYING", "SUCCESS", "FAILED"} : ClosesOrder(r, status)
         \/ \E status \in {"VERIFYING", "SUCCESS"} :
              /\ order' = [order EXCEPT ![r].status = status]
              /\ doc' \in {doc, [order[r] EXCEPT !.status = status]}
  PROVE  ActsOnCopy(r)
<1>1. order[r] \in Orders /\ order[r] # NIL /\ doc \in MaybeOrder
  BY CopyHeld, NilAssumption DEF CopiesInv, CopiesTyped, CopyOps, ClosingOps
<1>2. /\ order'[r] \in MaybeOrder /\ order'[r] # NIL
      /\ doc' \in MaybeOrder /\ (doc # NIL => doc' # NIL)
      /\ doc' = doc \/ Finished(doc')
  <2>1. CASE UNCHANGED <<doc, order>>
    BY <1>1, <2>1 DEF MaybeOrder
  <2>2. CASE \E status \in {"VERIFYING", "SUCCESS", "FAILED"} : ClosesOrder(r, status)
    BY <1>1, <2>2, ClosesDoc
  <2>3. ASSUME NEW status \in {"VERIFYING", "SUCCESS"},
               order' = [order EXCEPT ![r].status = status],
               doc' \in {doc, [order[r] EXCEPT !.status = status]}
        PROVE  /\ order'[r] \in MaybeOrder /\ order'[r] # NIL
               /\ doc' \in MaybeOrder /\ (doc # NIL => doc' # NIL)
               /\ doc' = doc \/ Finished(doc')
    <3>1. PICK closed \in Orders : closed = [order[r] EXCEPT !.status = status]
                                  /\ closed.status = status /\ closed # NIL
      <4>1. status \in OrderStatus
        BY DEF OrderStatus
      <4>2. /\ [order[r] EXCEPT !.status = status] \in Orders
            /\ [order[r] EXCEPT !.status = status].status = status
            /\ [order[r] EXCEPT !.status = status] # NIL
        BY <1>1, <4>1, Restated, Zenon
      <4>3. QED
        BY <4>2, Zenon
    <3>2. order' = [order EXCEPT ![r] = closed] /\ doc' \in {doc, closed}
      BY <2>3, <3>1
    <3>3. order'[r] = closed
      BY <3>2, CopiesAre DEF OnRequests
    <3>4. QED
      BY <1>1, <3>1, <3>2, <3>3 DEF MaybeOrder, Finished
  <2>4. QED
    BY <2>1, <2>2, <2>3
<1>3. ActsOnDoc(r)
  BY <1>2 DEF ActsOnDoc
<1>4. ActsOnKept(r)
  BY <1>2 DEF ActsOnKept, ClosingOps
<1>5. QED
  BY <1>3, <1>4, ProviderKept DEF ActsOnCopy, ClosingOps

LEMMA ClosersOnCopy ==
  ASSUME LaterInv, NoUpdate, CopiesInv, NEW r \in Requests,
         \/ CheckFraud(r) \/ FailBankStatus(r) \/ CheckAmount(r) \/ SettleNapas(r) \/ CreditStatus(r)
  PROVE  ActsOnCopy(r)
<1>1. Runs(r) /\ Cur(r).op \in ClosingOps /\ ~ Undoes(r)
  BY AtRuns DEF CheckFraud, FailBankStatus, CheckAmount, SettleNapas, CreditStatus, ClosingOps
<1>2. UNCHANGED provider
  BY DEF CheckFraud, FailBankStatus, CheckAmount, SettleNapas, CreditStatus, outside
<1>3. RefusePayment(r) => UNCHANGED <<doc, order>> \/ ClosesOrder(r, "FAILED")
  BY DEF RefusePayment
<1>4. \/ UNCHANGED <<doc, order>>
      \/ ClosesOrder(r, "VERIFYING") \/ ClosesOrder(r, "SUCCESS") \/ ClosesOrder(r, "FAILED")
      \/ \E status \in {"VERIFYING", "SUCCESS"} :
           /\ order' = [order EXCEPT ![r].status = status]
           /\ doc' \in {doc, [order[r] EXCEPT !.status = status]}
  <2>1. CASE CheckFraud(r) \/ FailBankStatus(r)
    BY <2>1 DEF CheckFraud, FailBankStatus
  <2>2. CASE CheckAmount(r) \/ CreditStatus(r)
    BY <1>3, <2>2 DEF CheckAmount, CreditStatus
  <2>3. CASE SettleNapas(r)
    BY <1>3, <2>3 DEF SettleNapas
  <2>4. QED
    BY <2>1, <2>2, <2>3
<1>5. QED
  BY <1>1, <1>2, <1>4, ClosingOnCopy

\* The compensations.
LEMMA UndosOnCopy ==
  ASSUME LaterInv, NoUpdate, CopiesInv, NEW r \in Requests, Compensate(r), Acts(r)
  PROVE  ActsOnCopy(r)
<1>1. /\ phase[r] = "abort" /\ pc[r] > 0 /\ ~ Runs(r) /\ ~ Advances(r) /\ ~ Fails(r)
      /\ Cur(r).comp \in LaterComps
  <2>1. phase[r] = "abort" /\ pc[r] > 0
    BY InRollback DEF Compensate, CompensateNone, CompensateOrder, CompensateVoucher, CancelPayment,
       UndoProvider, UndoOtp, AtUndoOtp, Park
  <2>2. QED
    BY <2>1, LaterCur DEF Runs, Advances, Fails, LaterStep, Cur
<1>2. UNCHANGED provider
  BY DEF Compensate, CompensateNone, CompensateOrder, CompensateVoucher, CancelPayment,
     UndoProvider, UndoOtp, Park, outside
<1>3. ActsOnKept(r) /\ ActsOnProvider(r)
  BY <1>1, <1>2, ProviderKept DEF ActsOnKept
<1>4. order[r] \in MaybeOrder /\ doc \in MaybeOrder
  BY DEF CopiesInv, CopiesTyped
<1>5. CASE CompensateNone(r) \/ CompensateVoucher(r)
  <2>1. Cur(r).comp \in {"None", "Reverse", "ReverseFail"} /\ Cur(r).comp # "ReverseFail"
    BY <1>1, <1>5, InRollback DEF CompensateNone, CompensateVoucher, LaterComps
  <2>2. UNCHANGED <<doc, order>>
    BY <1>5, <2>1, InRollback DEF CompensateNone, CompensateVoucher, copies
  <2>3. QED
    BY <1>1, <1>3, <1>4, <2>1, <2>2 DEF ActsOnDoc, ActsOnCopy
<1>6. CASE CancelPayment(r) \/ Park(r)
  <2>1. Cur(r).comp \in {"CancelPayment", "Park", "ParkGuarded"}
    BY <1>6, InRollback DEF CancelPayment, Park
  <2>2. \/ UNCHANGED <<doc, order>>
        \/ CompensationMoves(r, "FAILED", {"VERIFYING", "FAILED"})
        \/ CompensationMoves(r, "VERIFYING", {"VERIFYING"})
    BY <1>6 DEF CancelPayment, Park, FailIfOpen, TransIsNil, ParkPending, VerifyIfNot
  <2>3. /\ order'[r] \in MaybeOrder /\ doc' \in MaybeOrder /\ (doc # NIL => doc' # NIL)
        /\ doc' = doc \/ Finished(doc')
    BY <1>4, <2>2, MovesDoc
  <2>4. QED
    BY <1>1, <1>3, <2>1, <2>3 DEF ActsOnDoc, ActsOnCopy
<1>7. CASE UndoProvider(r)
  <2>1. \/ TransIsNil(r) \/ (flag[r] = "pending" /\ CompensationMoves(r, "VERIFYING", {"VERIFYING"}))
        \/ CompensationMoves(r, "FAILED", {})
    BY <1>7 DEF UndoProvider, ParkPending, VerifyIfNot, FailAlways
  <2>2. TransIsNil(r) => UNCHANGED <<doc, order>> /\ phase'[r] = "panic"
    BY DEF TransIsNil, Panics, LaterInv, Shaped
  <2>3. /\ order'[r] \in MaybeOrder /\ doc' \in MaybeOrder /\ (doc # NIL => doc' # NIL)
        /\ doc' = doc \/ Finished(doc')
    BY <1>4, <2>1, <2>2, MovesDoc
  <2>4. flag[r] # "pending" /\ "err" \notin RepairOutcomes => phase'[r] = "panic" \/ Finished(doc')
    BY <2>1, <2>2, MovesDoc
  <2>5. QED
    BY <1>1, <1>3, <2>3, <2>4 DEF ActsOnDoc, ActsOnCopy
<1>8. CASE CompensateOrder(r) \/ UndoOtp(r)
  BY <1>1, <1>8, InRollback DEF CompensateOrder, UndoOtp, AtUndoOtp, LaterComps
<1>9. QED
  BY <1>5, <1>6, <1>7, <1>8 DEF Compensate

\* Every step does no more.
LEMMA WorkOnCopy ==
  ASSUME LaterInv, NoUpdate, CopiesInv, NEW r \in Requests, Execute(r) \/ Settle(r) \/ Compensate(r)
  PROVE  Acts(r) /\ ActsOnCopy(r)
<1>1. Acts(r)
  BY WorkActs
<1>2. \A op : AtStep(r, op) => op \in LaterOps \ {"ReplaceOrder"}
  <2>1. Runs(r) => Cur(r).op \in LaterOps /\ Cur(r).op # "ReplaceOrder"
    BY LaterCur, DocCur DEF LaterStep, DocStep, Cur
  <2>2. QED
    BY <2>1, AtRuns DEF LaterOps
<1>3. CASE Execute(r)
  <2>1. /\ ~ CancelOrder(r) /\ ~ CancelInitial(r) /\ ~ CashInRequest(r) /\ ~ CashInBankGW(r)
        /\ ~ FailUnpaid(r) /\ ~ VerifyOtp(r)
    BY <1>2 DEF CancelOrder, CancelInitial, CashInRequest, CashInBankGW, FailUnpaid, VerifyOtp,
       LaterOps
  <2>2. ~ CallTransfer(r)
    <3>1. flow[r] \in LaterFlows \cup {"NoRequest"}
      BY CopiesAre, LaterSteps
    <3>2. QED
      BY <3>1 DEF CallTransfer, BankTransfers, LaterFlows, LaterOpenings, AnswerFlows, BankStatuses
  <2>3. QED
    BY <1>1, <1>3, <2>1, <2>2, FindOrderOnCopy, InitOrderOnCopy, ProcessingOnCopy, SuccessOnCopy,
       PlainOnCopy, InitPaymentOnCopy, ConfirmOnCopy, CallProviderOnCopy DEF Execute
<1>4. CASE Settle(r)
  <2>1. ~ ReplaceOrder(r)
    BY <1>2 DEF ReplaceOrder
  <2>2. QED
    BY <1>1, <1>4, <2>1, ProcessingOnCopy, AskBankOnCopy, ClosersOnCopy DEF Settle
<1>5. CASE Compensate(r)
  BY <1>1, <1>5, UndosOnCopy
<1>6. QED
  BY <1>3, <1>4, <1>5

\* Such a step keeps order and copies.
LEMMA WorkKeepsCopies ==
  ASSUME LaterInv, NoUpdate, CopiesInv, NEW r \in Requests, Acts(r), ActsOnCopy(r)
  PROVE  CopiesInv'
<1>1. /\ flow' = flow /\ UNCHANGED <<timeUp, job>>
      /\ Advances(r) \/ Fails(r) \/ Undoes(r)
  BY DEF Acts, SoundControl, around
<1>2. \A q \in Requests \ {r} : phase'[q] = phase[q] /\ order'[q] = order[q] /\ trans'[q] = trans[q]
  BY CopiesAre DEF Acts, SoundControl, ActsOnCopies, OnlyAt, OnRequests
<1>3. OnRequests(provider)'
  BY DEF ActsOnCopy, ActsOnProvider, OnlyAt, OnRequests, CopiesInv, CopiesTyped
<1>4. CopiesTyped'
  BY <1>1, <1>2, <1>3 DEF CopiesInv, CopiesTyped, ActsOnCopy, ActsOnDoc
<1>5. phase'[r] = "run" => Advances(r)
  BY <1>1 DEF Fails, Undoes
<1>6. CopyKept'
  <2>1. SUFFICES ASSUME NEW q \in Requests, phase'[q] = "run", Past(q, CopyOps)'
                 PROVE  order'[q] # NIL
    BY DEF CopyKept
  <2>2. CASE q # r
    BY <1>2, <2>1, <2>2, ActsPast DEF CopiesInv, CopyKept
  <2>3. CASE q = r
    <3>1. Past(r, CopyOps) \/ Cur(r).op \in CopyOps
      BY <1>5, <2>1, <2>3, ActsPast
    <3>2. order[r] # NIL \/ Cur(r).op \in CopyOps
      BY <1>5, <2>1, <2>3, <3>1 DEF CopiesInv, CopyKept, Advances, Runs
    <3>3. QED
      BY <1>5, <2>1, <2>3, <3>2 DEF ActsOnCopy, ActsOnKept
  <2>4. QED
    BY <2>2, <2>3
<1>7. OpenerKnows'
  <2>1. SUFFICES ASSUME NEW q \in Requests, flow[q] \in NapasOpenings, phase'[q] = "run",
                        Past(q, {"InitPayment"})'
                 PROVE  trans'[q].id = q
    BY <1>1 DEF OpenerKnows
  <2>2. CASE q # r
    BY <1>2, <2>1, <2>2, ActsPast DEF CopiesInv, OpenerKnows
  <2>3. CASE q = r /\ Cur(r).op = "InitPayment"
    BY <1>5, <2>1, <2>3 DEF ActsOnCopy, ActsOnKept
  <2>4. CASE q = r /\ Cur(r).op # "InitPayment"
    <3>1. Past(r, {"InitPayment"}) /\ Runs(r)
      BY <1>5, <2>1, <2>4, ActsPast DEF Advances
    <3>2. Cur(r).op \in {"AskBank", "ProcessingKept"}
      BY <2>1, <2>4, <3>1, DocCur DEF DocStep, Past, Cur
    <3>3. QED
      BY <1>5, <2>1, <2>4, <3>1, <3>2 DEF ActsOnCopy, ActsOnKept, CopiesInv, OpenerKnows, Runs
  <2>5. QED
    BY <2>2, <2>3, <2>4
<1>8. QED
  BY <1>4, <1>6, <1>7 DEF CopiesInv

\* So does what happens between the steps.
LEMMA RestKeepsCopies ==
  ASSUME CopiesInv, UNCHANGED <<flow, pc, trans, provider>>,
         \A q \in Requests : order'[q] \in MaybeOrder,
         doc' \in MaybeOrder, doc # NIL => doc' # NIL,
         job'.read \in MaybeOrder, job'.at # "idle" => job'.read # NIL,
         timeUp' => timeUp \/ doc # NIL,
         \A q \in Requests :
           phase'[q] = "run" => (phase[q] = "run" /\ order'[q] = order[q]) \/ pc[q] = 1
  PROVE  CopiesInv'
<1>1. CopiesTyped'
  BY DEF CopiesInv, CopiesTyped, OnRequests
<1>2. flow' = flow /\ \A q \in Requests : pc'[q] = pc[q]
  OBVIOUS
<1>3. \A q \in Requests : pc[q] = 1 => ~ Past(q, CopyOps) /\ ~ Past(q, {"InitPayment"})
  BY DEF Past, Earlier
<1>4. ASSUME NEW q \in Requests, phase'[q] = "run", Past(q, CopyOps) \/ Past(q, {"InitPayment"})
      PROVE  phase[q] = "run" /\ order'[q] = order[q]
  <2>1. pc[q] # 1
    BY <1>3, <1>4, Zenon
  <2>2. QED
    BY <1>4, <2>1
<1>5. CopyKept'
  <2>1. SUFFICES ASSUME NEW q \in Requests, phase'[q] = "run", Past(q, CopyOps)'
                 PROVE  order'[q] # NIL
    BY DEF CopyKept
  <2>2. Past(q, CopyOps)
    <3>1. flow' = flow /\ pc'[q] = pc[q]
      BY <1>2
    <3>2. QED
      BY <2>1, <3>1, PastStays, Zenon DEF CopyOps
  <2>3. phase[q] = "run" /\ order'[q] = order[q]
    BY <1>4, <2>1, <2>2
  <2>4. QED
    BY <2>2, <2>3 DEF CopiesInv, CopyKept
<1>6. OpenerKnows'
  <2>1. SUFFICES ASSUME NEW q \in Requests, flow[q] \in NapasOpenings, phase'[q] = "run",
                        Past(q, {"InitPayment"})'
                 PROVE  trans[q].id = q
    BY DEF OpenerKnows
  <2>2. Past(q, {"InitPayment"})
    <3>1. flow' = flow /\ pc'[q] = pc[q]
      BY <1>2
    <3>2. QED
      BY <2>1, <3>1, PastStays, Zenon
  <2>3. phase[q] = "run"
    BY <1>4, <2>1, <2>2
  <2>4. QED
    BY <2>1, <2>2, <2>3 DEF CopiesInv, OpenerKnows
<1>7. QED
  BY <1>1, <1>5, <1>6 DEF CopiesInv

\* A request begins, without a copy.
LEMMA BeginKeepsCopies ==
  ASSUME LaterInv, NoUpdate, CopiesInv, NEW r \in Requests, Begin(r)
  PROVE  /\ CopiesInv' /\ phase[r] = "idle" /\ phase' = [phase EXCEPT ![r] = "run"]
         /\ UNCHANGED <<flow, pc, failedAt, trans, flag, doc, service, outside, around>>
<1>1. flow[r] \notin Validated
  <2>1. flow[r] \in (LaterFlows \cup {"NoRequest"}) \ {"OrderUpdate"}
    BY LaterSteps, CopiesAre DEF NoUpdate
  <2>2. QED
    BY <2>1 DEF Validated, LaterFlows, LaterOpenings, AnswerFlows, BankStatuses
<1>2. /\ phase[r] = "idle" /\ phase' = [phase EXCEPT ![r] = "run"]
      /\ order' = [order EXCEPT ![r] = NIL]
      /\ UNCHANGED <<flow, pc, failedAt, trans, flag, doc, service, outside, around>>
  BY <1>1 DEF Begin
<1>3. pc[r] = 1 /\ phase \in [Requests -> Phases]
  BY <1>2 DEF LaterInv, Places, Shaped
<1>4. \A q \in Requests : order'[q] \in MaybeOrder /\ (q # r => order'[q] = order[q])
  BY <1>2, CopiesAre DEF CopiesInv, CopiesTyped, MaybeOrder, OnRequests
<1>5. \A q \in Requests :
        phase'[q] = "run" => (phase[q] = "run" /\ order'[q] = order[q]) \/ pc[q] = 1
  BY <1>2, <1>3, <1>4
<1>6. /\ doc \in MaybeOrder /\ job.read \in MaybeOrder /\ (job.at # "idle" => job.read # NIL)
  BY DEF CopiesInv, CopiesTyped
<1>7. UNCHANGED <<provider, job, timeUp>>
  BY <1>2 DEF outside, around
<1>8. CopiesInv'
  BY <1>2, <1>4, <1>5, <1>6, <1>7, RestKeepsCopies
<1>9. QED
  BY <1>2, <1>8

\* A request returns and leaves its copy.
LEMMA ReturnKeepsCopies ==
  ASSUME LaterInv, CopiesInv, NEW r \in Requests, Return(r)
  PROVE  CopiesInv'
<1>1. /\ phase'[r] \in {"done", "failed"} /\ (\A q \in Requests \ {r} : phase'[q] = phase[q])
      /\ UNCHANGED <<flow, pc, order, trans, doc, provider, job, timeUp>>
  BY DEF Return, copies, outside, around, LaterInv, Shaped
<1>2. /\ \A q \in Requests : order'[q] \in MaybeOrder
      /\ doc' \in MaybeOrder /\ (doc # NIL => doc' # NIL)
      /\ job'.read \in MaybeOrder /\ (job'.at # "idle" => job'.read # NIL)
  BY <1>1 DEF CopiesInv, CopiesTyped
<1>3. /\ \A q \in Requests : phase'[q] = "run" => phase[q] = "run" /\ order'[q] = order[q]
      /\ UNCHANGED <<flow, pc, trans, provider>> /\ (timeUp' => timeUp)
  BY <1>1
<1>4. QED
  BY <1>2, <1>3, RestKeepsCopies

\* A crash loses the requests and what the job has read.
LEMMA CrashKeepsCopies ==
  ASSUME LaterInv, CopiesInv, Crash
  PROVE  CopiesInv'
<1>1. /\ \A q \in Requests : phase'[q] = "run" => phase[q] = "run"
      /\ job' = [at |-> "idle", read |-> NIL]
      /\ UNCHANGED <<flow, pc, order, trans, doc, provider, timeUp>>
  BY DEF Crash, copies, outside
<1>2. /\ \A q \in Requests : order'[q] \in MaybeOrder
      /\ doc' \in MaybeOrder /\ (doc # NIL => doc' # NIL)
      /\ job'.read \in MaybeOrder /\ (job'.at # "idle" => job'.read # NIL)
  BY <1>1 DEF CopiesInv, CopiesTyped, MaybeOrder
<1>3. /\ \A q \in Requests : phase'[q] = "run" => phase[q] = "run" /\ order'[q] = order[q]
      /\ UNCHANGED <<flow, pc, trans, provider>> /\ (timeUp' => timeUp)
  BY <1>1
<1>4. QED
  BY <1>2, <1>3, RestKeepsCopies

\* Nor is a copy touched by what leaves requests and job alone.
LEMMA StillCopies ==
  ASSUME LaterInv, CopiesInv, UNCHANGED <<flow, phase, pc, order, trans, doc, provider, job, timeUp>>
  PROVE  CopiesInv'
<1>1. /\ \A q \in Requests : order'[q] \in MaybeOrder
      /\ doc' \in MaybeOrder /\ (doc # NIL => doc' # NIL)
      /\ job'.read \in MaybeOrder /\ (job'.at # "idle" => job'.read # NIL)
  BY DEF CopiesInv, CopiesTyped
<1>2. /\ UNCHANGED <<flow, pc, trans, provider>> /\ (timeUp' => timeUp)
      /\ \A q \in Requests : phase'[q] = "run" => phase[q] = "run" /\ order'[q] = order[q]
  OBVIOUS
<1>3. QED
  BY <1>1, <1>2, RestKeepsCopies

\* The job works with what it read, and closes the order with it.
LEMMA JobOnCopies ==
  ASSUME LaterInv, CopiesInv, NapasJob \/ OtherJob \/ Tick
  PROVE  CopiesInv' /\ (doc' = doc \/ Finished(doc'))
<1>1. UNCHANGED <<flow, control, copies, provider, bank>>
  BY DEF NapasJob, OtherJob, JobReadNapas, JobRetrieve, JobConfirm, JobRelease, JobWrites, JobRead,
     JobFail, JobCancel, Tick, outside
<1>2. /\ \A q \in Requests : order[q] \in MaybeOrder
      /\ doc \in MaybeOrder /\ job.read \in MaybeOrder
      /\ job.at # "idle" => job.read # NIL
      /\ timeUp => doc # NIL
  BY DEF CopiesInv, CopiesTyped
<1>3. job = [at |-> job.at, read |-> job.read]
  BY DEF LaterInv, Shaped
<1>4. /\ doc' \in MaybeOrder /\ (doc # NIL => doc' # NIL) /\ (doc' = doc \/ Finished(doc'))
  <2>1. CASE UNCHANGED doc
    BY <1>2, <2>1
  <2>2. CASE JobWrites
    <3>1. job.read \in Orders
      BY <1>2, <2>2 DEF JobWrites, MaybeOrder
    <3>2. \A s \in {"SUCCESS", "FAILED"} :
            [job.read EXCEPT !.status = s] \in Orders /\ Finished([job.read EXCEPT !.status = s])
      <4>1. SUFFICES ASSUME NEW s \in {"SUCCESS", "FAILED"}
                     PROVE  /\ [job.read EXCEPT !.status = s] \in Orders
                            /\ Finished([job.read EXCEPT !.status = s])
        OBVIOUS
      <4>2. s \in OrderStatus
        BY DEF OrderStatus
      <4>3. /\ [job.read EXCEPT !.status = s] \in Orders /\ [job.read EXCEPT !.status = s] # NIL
            /\ [job.read EXCEPT !.status = s].status = s
        BY <3>1, <4>2, Restated, Zenon
      <4>4. QED
        BY <4>3, Zenon DEF Finished
    <3>3. doc' \in {doc, [job.read EXCEPT !.status = "SUCCESS"], [job.read EXCEPT !.status = "FAILED"]}
      <4>1. PICK outcome \in RepairOutcomes :
              doc' = IF outcome = "err" THEN doc
                     ELSE [job.read EXCEPT !.status = IF job.at = "success" THEN "SUCCESS" ELSE "FAILED"]
        BY <2>2 DEF JobWrites
      <4>2. CASE job.at = "success"
        BY <4>1, <4>2
      <4>3. CASE job.at # "success"
        BY <4>1, <4>3
      <4>4. QED
        BY <4>2, <4>3
    <3>4. QED
      BY <1>2, <3>2, <3>3 DEF MaybeOrder, Finished
  <2>3. ASSUME NEW outcome \in RepairOutcomes, JobFail(outcome)
        PROVE  doc' \in MaybeOrder /\ (doc # NIL => doc' # NIL) /\ (doc' = doc \/ Finished(doc'))
    <3>1. job.read \in Orders
      BY <1>2, <2>3 DEF JobFail, MaybeOrder
    <3>2. /\ [job.read EXCEPT !.status = "FAILED", !.expired = TRUE] \in Orders
          /\ [job.read EXCEPT !.status = "FAILED", !.expired = TRUE].status = "FAILED"
      BY <3>1 DEF Orders, OrderStatus
    <3>3. doc' \in {doc, [job.read EXCEPT !.status = "FAILED", !.expired = TRUE]}
      BY <2>3 DEF JobFail
    <3>4. QED
      BY <1>2, <3>2, <3>3, NilAssumption DEF MaybeOrder, Finished
  <2>4. JobReadNapas \/ JobRetrieve \/ JobConfirm \/ JobRelease \/ JobRead \/ JobCancel \/ Tick
          => UNCHANGED doc
    BY DEF JobReadNapas, JobRetrieve, JobConfirm, JobRelease, JobRead, JobCancel, Tick
  <2>5. QED
    BY <2>1, <2>2, <2>3, <2>4 DEF NapasJob, OtherJob
<1>5. job'.read \in MaybeOrder /\ (job'.at # "idle" => job'.read # NIL)
  <2>1. CASE \/ job' = job \/ job' = [at |-> "idle", read |-> NIL]
             \/ \E at : job' = [job EXCEPT !.at = at] /\ job.at # "idle"
    BY <1>2, <1>3, <2>1 DEF MaybeOrder
  <2>2. CASE JobReadNapas \/ JobRead
    BY <1>2, <2>2 DEF JobReadNapas, JobRead
  <2>3. ASSUME NEW at, JobGoes(at), job.at # "idle"
        PROVE  job' = [at |-> "idle", read |-> NIL] \/ job' = [job EXCEPT !.at = at]
    BY <2>3 DEF JobGoes
  <2>4. JobRetrieve \/ JobConfirm \/ JobRelease \/ JobWrites => job.at # "idle" /\ \E at : JobGoes(at)
    BY DEF JobRetrieve, JobConfirm, JobRelease, JobWrites
  <2>5. (\E outcome \in RepairOutcomes : JobFail(outcome)) \/ JobCancel
          => job' = [at |-> "idle", read |-> NIL] \/ (job.at # "idle" /\ \E at : job' = [job EXCEPT !.at = at])
    BY DEF JobFail, JobCancel
  <2>6. Tick => job' = job
    BY DEF Tick
  <2>7. QED
    BY <2>1, <2>2, <2>3, <2>4, <2>5, <2>6 DEF NapasJob, OtherJob
<1>6. timeUp' => timeUp \/ doc # NIL
  BY DEF NapasJob, OtherJob, JobReadNapas, JobRetrieve, JobConfirm, JobRelease, JobWrites, JobRead,
     JobFail, JobCancel, Tick
<1>7. UNCHANGED <<flow, pc, phase, order, trans, provider>>
  BY <1>1 DEF control, copies
<1>8. CopiesInv'
  BY <1>2, <1>4, <1>5, <1>6, <1>7, RestKeepsCopies
<1>9. QED
  BY <1>4, <1>8

-----------------------------------------------------------------------------
(* The goods.  Bank status messages that are handled one after the other   *)
(* find the order closed once one of them has had the goods delivered.     *)

\* Nobody pays through NAPAS.
NoNapas == \A r \in Requests : flow[r] \notin NapasOpenings

\* Two messages about one payment.
Paired(q, r) ==
  /\ q # r /\ {flow[q], flow[r]} \subseteq Serial
  /\ flow[q] \in BankStatuses /\ flow[r] \in BankStatuses

\* The message was not handled to its end.
Broken(r) == phase[r] \in {"panic", "crashed"}

\* They are handled one after the other.
OneAtATime == \A q, r \in Requests : Paired(q, r) => ~ (Active(q) /\ Active(r))

\* Goods are delivered by a message that calls the provider.
DeliveredBy ==
  \A r \in Requests : provider[r] = "delivered" =>
    /\ flow[r] \in BankStatuses /\ phase[r] \notin {"idle", "refused"}
    /\ phase[r] = "run" => Past(r, {"CallProvider"})

\* An order whose goods are delivered is closed before the message is through,
\* or about to be closed by its rollback, or its rollback panics.
ClosedAfter(r) ==
  /\ phase[r] \in {"done", "failed"} => Finished(doc)
  /\ phase[r] = "run" /\ Past(r, {"SuccessOrder"}) => Finished(doc)
  /\ phase[r] = "abort" =>
       \/ Finished(doc)
       \/ FailedStep(r) \in {"ConfirmTrans", "SuccessOrder"}
       \/ FailedStep(r) = "CallProvider" /\ pc[r] = failedAt[r] /\ flag[r] # "pending"

\* Goods that are delivered have the order closed by then.
ShutAfter == \A r \in Requests : provider[r] = "delivered" => ClosedAfter(r)

\* The next message begins when the one before has ended.
InTurn ==
  \A q, r \in Requests :
    Paired(q, r) /\ phase[q] = "run" /\ pc[q] >= 2 /\ provider[r] = "delivered" => Broken(r)

\* Only one message delivers, unless one of them broke.
OneDelivers ==
  \A q, r \in Requests :
    Paired(q, r) /\ provider[q] = "delivered" /\ provider[r] = "delivered" => Broken(q) \/ Broken(r)

\* What is known of the goods.
GoodsInv == OneAtATime /\ DeliveredBy /\ ShutAfter /\ InTurn /\ OneDelivers

\* What is paid for by card is not reopened after the bank has decided.
LEMMA FinishedStays ==
  ASSUME LaterInv, NoUpdate, NoNapas, NEW r \in Requests, Acts(r), ActsOnCopy(r),
         BankDecided, Finished(doc)
  PROVE  Finished(doc')
<1>1. doc' = doc => Finished(doc')
  BY DEF Finished
<1>2. ASSUME Runs(r), Cur(r).op \in {"InitOrder", "ProcessingOrder", "ProcessingKept"} PROVE FALSE
  <2>1. Opens(r) /\ ~ Past(r, {"AskBank"})
    BY <1>2, DocCur DEF DocStep, Past, Cur, Opens, NoNapas
  <2>2. bank[r] = "idle"
    BY <1>2, <2>1 DEF LaterInv, AskedOnce, Ahead, Opens, Runs
  <2>3. PICK o \in Requests : Opens(o) /\ bank[o] \in {"delivered", "refused"}
    BY DEF BankDecided
  <2>4. o = r
    BY <2>1, <2>3, OneOpening, CopiesAre
  <2>5. QED
    BY <2>2, <2>3, <2>4
<1>3. QED
  BY <1>1, <1>2 DEF ActsOnCopy, ActsOnDoc

\* Who has the goods delivered is a message that tells what the bank decided.
LEMMA DeliveredIsDecided ==
  ASSUME LaterInv, GoodsInv, NEW r \in Requests, provider[r] = "delivered"
  PROVE  BankDecided
<1>1. flow[r] \in BankStatuses /\ phase[r] # "idle"
  BY DEF GoodsInv, DeliveredBy
<1>2. flow[r] \in AnswerFlows \ {"UpdateCreditPayment"}
  BY <1>1 DEF AnswerFlows, BankStatuses
<1>3. QED
  BY <1>1, <1>2 DEF LaterInv, AnswersTell

\* The first step of a bank status message looks the order up.
LEMMA FirstFinds ==
  ASSUME LaterInv, NoUpdate, NEW r \in Requests, flow[r] \in BankStatuses
  PROVE  Len(Steps(r)) = 10 /\ Steps(r)[1].op = "FindOrder" /\ Steps(r)[10].op = "SuccessOrder"
<1>1. flow[r] \in (LaterFlows \cup {"NoRequest"}) \ {"OrderUpdate"}
  BY LaterSteps, CopiesAre DEF NoUpdate
<1>2. DocFlow(flow[r], Steps(r))
  BY <1>1, DocFlowsAre, Zenon DEF Steps
<1>3. QED
  BY <1>2 DEF DocFlow

\* What a step of request r leaves of the others.
LEMMA OthersStay ==
  ASSUME LaterInv, CopiesInv, NEW r \in Requests, Acts(r), ActsOnCopy(r), NEW q \in Requests \ {r}
  PROVE  /\ phase'[q] = phase[q] /\ pc'[q] = pc[q] /\ failedAt'[q] = failedAt[q]
         /\ provider'[q] = provider[q] /\ flag'[q] = flag[q]
<1>1. phase'[q] = phase[q] /\ pc'[q] = pc[q] /\ failedAt'[q] = failedAt[q]
  BY DEF Acts, SoundControl
<1>2. provider'[q] = provider[q]
  BY DEF ActsOnCopy, ActsOnProvider, OnlyAt, OnRequests, CopiesInv, CopiesTyped
<1>3. flag'[q] = flag[q]
  BY DEF Acts, ActsOnCopies, OnlyAt, OnRequests, LaterInv, Shaped
<1>4. QED
  BY <1>1, <1>2, <1>3

\* The phases a step of request r goes through.
LEMMA ActorPhases ==
  ASSUME LaterInv, NEW r \in Requests, Acts(r)
  PROVE  /\ phase[r] \in {"run", "abort"} /\ phase'[r] \in {"run", "abort", "panic"}
         /\ phase'[r] = "run" => Advances(r)
         /\ phase'[r] = "abort" => Fails(r) \/ Undoes(r)
         /\ Undoes(r) => phase[r] = "abort" /\ pc[r] > 0 /\ failedAt'[r] = failedAt[r]
         /\ Fails(r) => Runs(r) /\ pc'[r] = pc[r] /\ failedAt'[r] = pc[r]
         /\ Advances(r) => Runs(r) /\ pc'[r] = pc[r] + 1
BY DEF Acts, SoundControl, Advances, Fails, Undoes, Runs

\* The message that has had the goods delivered closes the order.
LEMMA ActorCloses ==
  ASSUME LaterInv, NoUpdate, NoNapas, GoodsInv, "err" \notin RepairOutcomes,
         NEW r \in Requests, Acts(r), ActsOnCopy(r), provider'[r] = "delivered"
  PROVE  ClosedAfter(r)'
<1>1. flow' = flow /\ Steps(r)' = Steps(r)
  BY DEF Acts, Steps
<1>2. provider[r] = "delivered" \/ (Runs(r) /\ Cur(r).op = "CallProvider")
  BY DEF ActsOnCopy, ActsOnProvider
<1>3. provider[r] = "delivered" /\ Finished(doc) => Finished(doc')
  BY FinishedStays, DeliveredIsDecided
<1>4. phase'[r] = "run" /\ Past(r, {"SuccessOrder"})' => Finished(doc')
  <2>1. SUFFICES ASSUME phase'[r] = "run", Past(r, {"SuccessOrder"})' PROVE Finished(doc')
    OBVIOUS
  <2>2. Advances(r) /\ Runs(r) /\ phase[r] = "run"
    BY <2>1, ActorPhases DEF Runs
  <2>3. Past(r, {"SuccessOrder"}) \/ Cur(r).op = "SuccessOrder"
    BY <2>1, <2>2, ActsPast
  <2>4. CASE Cur(r).op = "SuccessOrder"
    BY <2>2, <2>4 DEF ActsOnCopy, ActsOnKept
  <2>5. CASE Past(r, {"SuccessOrder"})
    <3>1. Cur(r).op # "CallProvider"
      BY <2>2, <2>5, DocCur DEF DocStep, Past, Cur
    <3>2. provider[r] = "delivered"
      BY <1>2, <3>1
    <3>3. Finished(doc)
      BY <2>2, <2>5, <3>2 DEF GoodsInv, ShutAfter, ClosedAfter
    <3>4. QED
      BY <1>3, <3>2, <3>3
  <2>6. QED
    BY <2>3, <2>4, <2>5
<1>5. ASSUME Fails(r)
      PROVE  \/ FailedStep(r)' \in {"ConfirmTrans", "SuccessOrder"}
             \/ FailedStep(r)' = "CallProvider" /\ pc'[r] = failedAt'[r] /\ flag'[r] # "pending"
  <2>1. FailedStep(r)' = Cur(r).op /\ pc'[r] = failedAt'[r] /\ Runs(r) /\ phase[r] = "run"
    BY <1>1, <1>5, ActorPhases DEF FailedStep, Cur, Steps, Runs
  <2>2. CASE Cur(r).op = "CallProvider"
    BY <1>5, <2>1, <2>2 DEF ActsOnCopy, ActsOnProvider
  <2>3. CASE Cur(r).op # "CallProvider"
    <3>1. provider[r] = "delivered"
      BY <1>2, <2>3
    <3>2. Past(r, {"CallProvider"})
      BY <2>1, <3>1 DEF GoodsInv, DeliveredBy
    <3>3. Cur(r).op \in {"SkipProvider", "ConfirmTrans", "SuccessOrder"}
      BY <2>1, <3>2, DocCur DEF DocStep, Past, Cur
    <3>4. QED
      BY <1>5, <2>1, <3>3 DEF Acts, ActsOnFailure
  <2>4. QED
    BY <2>2, <2>3
<1>6. ASSUME Undoes(r), phase'[r] = "abort"
      PROVE  Finished(doc') \/ FailedStep(r)' \in {"ConfirmTrans", "SuccessOrder"}
  <2>1. /\ phase[r] = "abort" /\ pc[r] > 0 /\ failedAt'[r] = failedAt[r]
        /\ FailedStep(r)' = FailedStep(r)
    BY <1>1, <1>6, ActorPhases DEF FailedStep
  <2>2. provider[r] = "delivered"
    BY <1>2, <2>1 DEF Runs
  <2>3. CASE FailedStep(r) = "CallProvider" /\ pc[r] = failedAt[r] /\ flag[r] # "pending"
    <3>1. Cur(r).op = "CallProvider"
      BY <2>3 DEF FailedStep, Cur
    <3>2. Cur(r).comp = "UndoProvider"
      BY <2>1, <3>1, DocCur DEF DocStep, Cur
    <3>3. QED
      BY <1>6, <2>3, <3>2 DEF ActsOnCopy, ActsOnDoc
  <2>4. QED
    BY <1>3, <2>1, <2>2, <2>3 DEF GoodsInv, ShutAfter, ClosedAfter
<1>7. QED
  BY <1>4, <1>5, <1>6, ActorPhases DEF ClosedAfter

\* A step of a request keeps the invariant.
LEMMA WorkKeepsGoods ==
  ASSUME LaterInv, NoUpdate, NoNapas, CopiesInv, GoodsInv, "err" \notin RepairOutcomes,
         NEW p \in Requests, Acts(p), ActsOnCopy(p)
  PROVE  GoodsInv'
<1>1. flow' = flow /\ \A q, r \in Requests : Paired(q, r)' <=> Paired(q, r)
  BY DEF Acts, Paired
<1>2. \A q \in Requests \ {p} :
        /\ phase'[q] = phase[q] /\ pc'[q] = pc[q] /\ failedAt'[q] = failedAt[q]
        /\ provider'[q] = provider[q] /\ flag'[q] = flag[q]
  BY OthersStay
<1>3. Active(p) /\ \A q \in Requests : Active(q)' => Active(q)
  BY <1>2, ActorPhases DEF Active
<1>4. \A q \in Requests : Broken(q) => Broken(q)' /\ q # p
  BY <1>2, ActorPhases DEF Broken
<1>5. OneAtATime'
  BY <1>1, <1>3 DEF GoodsInv, OneAtATime
<1>6. provider'[p] = "delivered" => provider[p] = "delivered" \/ (Runs(p) /\ Cur(p).op = "CallProvider")
  BY DEF ActsOnCopy, ActsOnProvider
<1>7. DeliveredBy'
  <2>1. SUFFICES ASSUME NEW r \in Requests, provider'[r] = "delivered"
                 PROVE  /\ flow[r] \in BankStatuses /\ phase'[r] \notin {"idle", "refused"}
                        /\ phase'[r] = "run" => Past(r, {"CallProvider"})'
    BY <1>1 DEF DeliveredBy
  <2>2. CASE r # p
    BY <1>2, <2>1, <2>2, ActsPast DEF GoodsInv, DeliveredBy
  <2>3. CASE r = p
    <3>1. flow[p] \in BankStatuses
      BY <1>6, <2>1, <2>3, DocCur DEF DocStep, Cur, GoodsInv, DeliveredBy
    <3>2. phase'[p] \notin {"idle", "refused"}
      BY ActorPhases
    <3>3. ASSUME phase'[p] = "run" PROVE Past(p, {"CallProvider"})'
      <4>1. Advances(p) /\ Runs(p) /\ phase[p] = "run"
        BY <3>3, ActorPhases DEF Runs
      <4>2. Past(p, {"CallProvider"}) \/ Cur(p).op = "CallProvider"
        BY <1>6, <2>1, <2>3, <4>1 DEF GoodsInv, DeliveredBy
      <4>3. QED
        BY <4>1, <4>2, ActsPast
    <3>4. QED
      BY <2>3, <3>1, <3>2, <3>3
  <2>4. QED
    BY <2>2, <2>3
<1>8. ShutAfter'
  <2>1. SUFFICES ASSUME NEW r \in Requests, provider'[r] = "delivered" PROVE ClosedAfter(r)'
    BY DEF ShutAfter
  <2>2. CASE r = p
    BY <2>1, <2>2, ActorCloses
  <2>3. CASE r # p
    <3>1. provider[r] = "delivered" /\ ClosedAfter(r)
      BY <1>2, <2>1, <2>3 DEF GoodsInv, ShutAfter
    <3>2. Finished(doc) => Finished(doc')
      BY <3>1, FinishedStays, DeliveredIsDecided
    <3>3. Past(r, {"SuccessOrder"})' <=> Past(r, {"SuccessOrder"})
      BY <2>3, ActsPast
    <3>4. FailedStep(r)' = FailedStep(r)
      BY <1>1, <1>2, <2>3 DEF FailedStep, Steps
    <3>5. QED
      BY <1>2, <2>3, <3>1, <3>2, <3>3, <3>4 DEF ClosedAfter
  <2>4. QED
    BY <2>2, <2>3
<1>9. \A q \in Requests : phase[q] = "run" /\ pc[q] = 1 /\ flow[q] \in BankStatuses => Cur(q).op = "FindOrder"
  BY FirstFinds DEF Cur
<1>10. InTurn'
  <2>1. SUFFICES ASSUME NEW q \in Requests, NEW r \in Requests, Paired(q, r), phase'[q] = "run",
                        pc'[q] >= 2, provider'[r] = "delivered"
                 PROVE  Broken(r)'
    BY <1>1 DEF InTurn
  <2>2. phase[q] = "run" /\ Active(q) /\ q # r
    BY <1>2, <2>1, ActorPhases DEF Active, Paired, Runs
  <2>3. r # p /\ provider[r] = "delivered"
    BY <1>2, <1>3, <2>1, <2>2 DEF GoodsInv, OneAtATime, Paired
  <2>4. CASE pc[q] >= 2
    BY <1>4, <2>1, <2>2, <2>3, <2>4 DEF GoodsInv, InTurn
  <2>5. CASE ~ (pc[q] >= 2)
    <3>1. pc[q] \in Nat /\ pc[q] >= 1 /\ phase[r] \in Phases
      BY <2>2 DEF LaterInv, Shaped, Places
    <3>2. q = p /\ pc[q] = 1
      BY <1>2, <2>1, <2>5, <3>1
    <3>3. Advances(p) /\ Cur(p).op = "FindOrder"
      BY <1>9, <2>1, <2>2, <3>2, ActorPhases DEF Paired
    <3>4. ~ Finished(doc)
      BY <3>3 DEF ActsOnCopy, ActsOnKept
    <3>5. phase[r] \notin {"idle", "refused", "done", "failed"}
      BY <2>3, <3>4 DEF GoodsInv, DeliveredBy, ShutAfter, ClosedAfter
    <3>6. ~ Active(r)
      BY <2>1, <2>2 DEF GoodsInv, OneAtATime
    <3>7. Broken(r)
      BY <3>1, <3>5, <3>6 DEF Broken, Active, Phases
    <3>8. QED
      BY <1>4, <3>7
  <2>6. QED
    BY <2>4, <2>5
<1>11. OneDelivers'
  <2>1. ASSUME NEW q \in Requests, NEW r \in Requests, Paired(q, r) \/ Paired(r, q),
               provider'[q] = "delivered", provider'[r] = "delivered", provider[q] # "delivered"
        PROVE  Broken(r)'
    <3>1. q = p /\ Runs(p) /\ Cur(p).op = "CallProvider" /\ q # r
      BY <1>2, <1>6, <2>1 DEF Paired
    <3>2. provider[r] = "delivered" /\ Paired(q, r)
      BY <1>2, <2>1, <3>1 DEF Paired
    <3>3. phase[q] = "run" /\ pc[q] \in Nat /\ pc[q] >= 1
      BY <3>1 DEF LaterInv, Shaped, Places, Runs
    <3>4. pc[q] # 1
      BY <1>9, <3>1, <3>2, <3>3 DEF Paired
    <3>5. pc[q] >= 2
      BY <3>3, <3>4
    <3>6. Broken(r)
      BY <3>2, <3>3, <3>5 DEF GoodsInv, InTurn
    <3>7. QED
      BY <1>4, <3>6
  <2>2. QED
    BY <1>1, <1>4, <2>1 DEF GoodsInv, OneDelivers
<1>12. QED
  BY <1>5, <1>7, <1>8, <1>10, <1>11 DEF GoodsInv

\* Nor does what happens between the steps.
LEMMA RestKeepsGoods ==
  ASSUME GoodsInv, UNCHANGED <<flow, pc, failedAt, flag, provider>>, OneAtATime',
         doc' = doc \/ Finished(doc'),
         \A q \in Requests :
           \/ phase'[q] = phase[q]
           \/ phase[q] = "idle" /\ phase'[q] = "run" /\ pc[q] = 1
           \/ Active(q) /\ phase'[q] = "crashed"
           \/ /\ Active(q) /\ phase'[q] \in {"done", "failed"}
              /\ provider[q] = "delivered" => Finished(doc)
  PROVE  GoodsInv'
<1>1. \A q, r \in Requests : Paired(q, r)' <=> Paired(q, r)
  BY DEF Paired
<1>2. Finished(doc) => Finished(doc')
  BY DEF Finished
<1>3. /\ \A q \in Requests : Broken(q) => Broken(q)'
      /\ \A q \in Requests : phase'[q] \in {"run", "abort"} => phase'[q] = phase[q] \/ phase[q] = "idle"
      /\ \A q \in Requests : phase'[q] = "run" => phase[q] = "run" \/ pc[q] = 1
  BY DEF Broken, Active
<1>4. \A r \in Requests : provider[r] = "delivered" => phase[r] \notin {"idle", "refused"}
  BY DEF GoodsInv, DeliveredBy
<1>5. DeliveredBy'
  <2>1. SUFFICES ASSUME NEW r \in Requests, provider[r] = "delivered"
                 PROVE  /\ flow[r] \in BankStatuses /\ phase'[r] \notin {"idle", "refused"}
                        /\ phase'[r] = "run" => Past(r, {"CallProvider"})'
    BY DEF DeliveredBy
  <2>2. flow' = flow /\ pc'[r] = pc[r]
    OBVIOUS
  <2>3. Past(r, {"CallProvider"})' <=> Past(r, {"CallProvider"})
    BY <2>2, PastStays, Zenon
  <2>4. phase'[r] = "run" => phase[r] = "run"
    BY <1>3, <1>4, <2>1
  <2>5. phase'[r] \notin {"idle", "refused"}
    BY <1>4, <2>1
  <2>6. QED
    BY <2>1, <2>3, <2>4, <2>5 DEF GoodsInv, DeliveredBy
<1>6. ShutAfter'
  <2>1. SUFFICES ASSUME NEW r \in Requests, provider[r] = "delivered" PROVE ClosedAfter(r)'
    BY DEF ShutAfter
  <2>2. ClosedAfter(r)
    BY <2>1 DEF GoodsInv, ShutAfter
  <2>3. flow' = flow /\ pc'[r] = pc[r] /\ failedAt'[r] = failedAt[r] /\ flag'[r] = flag[r]
    OBVIOUS
  <2>4. Past(r, {"SuccessOrder"})' <=> Past(r, {"SuccessOrder"})
    BY <2>3, PastStays, Zenon
  <2>5. FailedStep(r)' = FailedStep(r)
    BY <2>3 DEF FailedStep, Steps
  <2>6. /\ phase'[r] \in {"run", "abort"} => phase'[r] = phase[r]
        /\ phase'[r] \in {"done", "failed"} => phase'[r] = phase[r] \/ Finished(doc)
    BY <1>3, <1>4, <2>1
  <2>7. QED
    BY <1>2, <2>2, <2>3, <2>4, <2>5, <2>6 DEF ClosedAfter
<1>7. InTurn'
  <2>1. SUFFICES ASSUME NEW q \in Requests, NEW r \in Requests, Paired(q, r), phase'[q] = "run",
                        pc[q] >= 2, provider[r] = "delivered"
                 PROVE  Broken(r)'
    BY <1>1 DEF InTurn
  <2>2. phase[q] = "run"
    BY <1>3, <2>1
  <2>3. QED
    BY <1>3, <2>1, <2>2 DEF GoodsInv, InTurn
<1>8. OneDelivers'
  BY <1>1, <1>3 DEF GoodsInv, OneDelivers
<1>9. QED
  BY <1>5, <1>6, <1>7, <1>8 DEF GoodsInv

\* The invariant of card payments.
CardInv == LaterInv /\ CopiesInv /\ GoodsInv

\* A message begins when no other is under way.
LEMMA BeginKeepsGoods ==
  ASSUME LaterInv, NoUpdate, CopiesInv, GoodsInv, NEW r \in Requests,
         (flow[r] \notin AnswerFlows /\ Begin(r)) \/ BeginAnswer(r)
  PROVE  CopiesInv' /\ GoodsInv'
<1>1. Begin(r)
  BY DEF BeginAnswer
<1>2. /\ CopiesInv' /\ phase[r] = "idle" /\ phase' = [phase EXCEPT ![r] = "run"]
      /\ UNCHANGED <<flow, pc, failedAt, trans, flag, doc, service, outside, around>>
  BY <1>1, BeginKeepsCopies
<1>3. UNCHANGED <<flow, pc, failedAt, flag, provider>> /\ doc' = doc
  BY <1>2 DEF outside
<1>4. /\ phase'[r] = "run" /\ \A q \in Requests \ {r} : phase'[q] = phase[q]
      /\ pc[r] = 1
  BY <1>2 DEF LaterInv, Shaped, Places
<1>5. OneAtATime'
  <2>1. SUFFICES ASSUME NEW p \in Requests, NEW q \in Requests, Paired(p, q) \/ Paired(q, p), p # r,
                        Active(p)', Active(q)'
                 PROVE  FALSE
    BY <1>3 DEF OneAtATime, Paired
  <2>2. Active(p)
    BY <1>4, <2>1 DEF Active
  <2>3. CASE q # r
    BY <1>4, <2>1, <2>2, <2>3 DEF Active, GoodsInv, OneAtATime, Paired
  <2>4. CASE q = r
    <3>1. flow[r] \in BankStatuses /\ flow[r] \in Serial /\ flow[p] \in Serial
      BY <2>1, <2>4 DEF Paired
    <3>2. BeginAnswer(r)
      BY <3>1 DEF AnswerFlows, BankStatuses
    <3>3. QED
      BY <2>1, <2>2, <3>1, <3>2 DEF BeginAnswer
  <2>5. QED
    BY <2>3, <2>4
<1>6. GoodsInv'
  BY <1>2, <1>3, <1>4, <1>5, RestKeepsGoods
<1>7. QED
  BY <1>2, <1>6

\* What leaves fewer requests under way leaves messages one at a time.
LEMMA FewerActive ==
  ASSUME OneAtATime, flow' = flow, \A q \in Requests : Active(q)' => Active(q)
  PROVE  OneAtATime'
BY DEF OneAtATime, Paired

\* A message returns with the order closed.
LEMMA ReturnKeepsGoods ==
  ASSUME LaterInv, NoUpdate, CopiesInv, GoodsInv, NEW r \in Requests, Return(r)
  PROVE  CopiesInv' /\ GoodsInv'
<1>1. /\ \/ phase[r] = "run" /\ pc[r] > Len(Steps(r)) /\ phase' = [phase EXCEPT ![r] = "done"]
         \/ phase[r] = "abort" /\ pc[r] = 0 /\ phase' = [phase EXCEPT ![r] = "failed"]
      /\ UNCHANGED <<flow, pc, failedAt, order, trans, flag, doc, provider, job, timeUp>>
  BY DEF Return, copies, outside, around
<1>2. /\ phase'[r] \in {"done", "failed"} /\ (\A q \in Requests \ {r} : phase'[q] = phase[q])
      /\ Active(r)
  BY <1>1 DEF LaterInv, Shaped, Active
<1>3. ASSUME provider[r] = "delivered" PROVE Finished(doc)
  <2>1. flow[r] \in BankStatuses /\ ClosedAfter(r)
    BY <1>3 DEF GoodsInv, DeliveredBy, ShutAfter
  <2>2. CASE phase[r] = "run" /\ pc[r] > Len(Steps(r))
    <3>1. Steps(r)[10].op = "SuccessOrder" /\ Len(Steps(r)) = 10 /\ pc[r] \in Nat
      BY <2>1, FirstFinds DEF LaterInv, Shaped
    <3>2. Past(r, {"SuccessOrder"})
      BY <2>2, <3>1 DEF Past, Earlier
    <3>3. QED
      BY <2>1, <2>2, <3>2 DEF ClosedAfter
  <2>3. CASE phase[r] = "abort" /\ pc[r] = 0
    <3>1. failedAt[r] >= 1
      BY <2>3 DEF LaterInv, Places
    <3>2. FailedStep(r) \notin {"ConfirmTrans", "SuccessOrder"}
      BY <2>1, <2>3, <3>1 DEF LaterInv, WhyUndone
    <3>3. QED
      BY <2>1, <2>3, <3>1, <3>2 DEF ClosedAfter
  <2>4. QED
    BY <1>1, <2>2, <2>3
<1>4. CopiesInv'
  BY ReturnKeepsCopies
<1>5. OneAtATime'
  <2>1. \A q \in Requests : Active(q)' => Active(q)
    BY <1>2 DEF Active
  <2>2. QED
    BY <1>1, <2>1, FewerActive DEF GoodsInv
<1>6. GoodsInv'
  <2>1. UNCHANGED <<flow, pc, failedAt, flag, provider>> /\ doc' = doc
    BY <1>1
  <2>2. QED
    BY <1>2, <1>3, <1>5, <2>1, RestKeepsGoods
<1>7. QED
  BY <1>4, <1>6

\* A crash leaves what was under way where it was.
LEMMA CrashKeepsGoods ==
  ASSUME LaterInv, CopiesInv, GoodsInv, Crash
  PROVE  CopiesInv' /\ GoodsInv'
<1>1. /\ phase' = [q \in Requests |-> IF Active(q) THEN "crashed" ELSE phase[q]]
      /\ job' = [at |-> "idle", read |-> NIL]
      /\ UNCHANGED <<flow, pc, failedAt, order, trans, flag, doc, provider, timeUp>>
  BY DEF Crash, copies, outside
<1>2. \A q \in Requests : phase'[q] = phase[q] \/ (Active(q) /\ phase'[q] = "crashed")
  BY <1>1
<1>3. CopiesInv'
  BY CrashKeepsCopies
<1>4. OneAtATime'
  <2>1. \A q \in Requests : Active(q)' => Active(q)
    BY <1>2 DEF Active
  <2>2. QED
    BY <1>1, <2>1, FewerActive DEF GoodsInv
<1>5. UNCHANGED <<flow, pc, failedAt, flag, provider>> /\ doc' = doc
  BY <1>1
<1>6. QED
  BY <1>2, <1>3, <1>4, <1>5, RestKeepsGoods

\* The bank, the job, time, or nothing.
LEMMA StillGoods ==
  ASSUME LaterInv, GoodsInv, UNCHANGED <<flow, phase, pc, failedAt, flag, provider>>,
         doc' = doc \/ Finished(doc')
  PROVE  GoodsInv'
<1>1. flow' = flow /\ \A q \in Requests : Active(q)' => Active(q)
  BY DEF Active
<1>2. OneAtATime'
  BY <1>1, FewerActive DEF GoodsInv
<1>3. \A q \in Requests : phase'[q] = phase[q]
  OBVIOUS
<1>4. QED
  BY <1>2, <1>3, RestKeepsGoods

\* None of these touches a message or its goods.
LEMMA RestKeepsCard ==
  ASSUME CardInv,
         \/ NapasJob \/ OtherJob \/ Tick \/ Quiescent \/ UNCHANGED vars
         \/ \E o \in Requests : BankDecides(o)
  PROVE  CopiesInv' /\ GoodsInv'
<1>1. LaterInv /\ CopiesInv /\ GoodsInv
  BY DEF CardInv
<1>2. CASE NapasJob \/ OtherJob \/ Tick
  <2>1. CopiesInv' /\ (doc' = doc \/ Finished(doc'))
    BY <1>1, <1>2, JobOnCopies
  <2>2. UNCHANGED <<flow, phase, pc, failedAt, flag>>
    BY <1>1, <1>2, JobDoes DEF JobActs
  <2>3. provider' = provider
    BY <1>2 DEF NapasJob, OtherJob, JobReadNapas, JobRetrieve, JobConfirm, JobRelease, JobWrites,
       JobRead, JobFail, JobCancel, Tick, outside
  <2>4. QED
    BY <1>1, <2>1, <2>2, <2>3, StillGoods
<1>3. CASE Quiescent \/ UNCHANGED vars
  <2>1. UNCHANGED <<flow, phase, pc, failedAt, order, trans, flag, doc, provider, job, timeUp>>
    BY <1>3 DEF Quiescent, vars, control, copies, outside, around
  <2>2. QED
    BY <1>1, <2>1, StillGoods, StillCopies
<1>4. CASE \E o \in Requests : BankDecides(o)
  <2>1. UNCHANGED <<flow, phase, pc, failedAt, order, trans, flag, doc, provider, job, timeUp>>
    BY <1>4 DEF BankDecides, control, copies, around
  <2>2. QED
    BY <1>1, <2>1, StillGoods, StillCopies
<1>5. QED
  BY <1>2, <1>3, <1>4

\* At first there is no order, or a new one.
LEMMA InitCopies == Init => CopiesInv
<1>1. SUFFICES ASSUME Init PROVE CopiesInv
  OBVIOUS
<1>2. /\ phase = [r \in Requests |-> "idle"] /\ provider = [r \in Requests |-> "idle"]
      /\ order = [r \in Requests |-> NIL] /\ doc \in {NIL, NewOrder} /\ timeUp = FALSE
      /\ job = [at |-> "idle", read |-> NIL]
  BY <1>1 DEF Init
<1>3. NewOrder \in Orders
  BY DEF NewOrder, Orders, OrderStatus
<1>4. QED
  BY <1>2, <1>3 DEF CopiesInv, CopiesTyped, CopyKept, OpenerKnows, MaybeOrder, OnRequests

\* At first nothing is delivered.
LEMMA InitCard == Init => CardInv
<1>1. SUFFICES ASSUME Init PROVE CardInv
  OBVIOUS
<1>2. phase = [r \in Requests |-> "idle"] /\ provider = [r \in Requests |-> "idle"]
  BY <1>1 DEF Init
<1>3. GoodsInv
  BY <1>2 DEF GoodsInv, OneAtATime, DeliveredBy, ShutAfter, InTurn, OneDelivers, Active
<1>4. QED
  BY <1>1, <1>3, InitLater, InitCopies DEF CardInv

\* A request stays of its flow.
LEMMA FlowStays == LaterInv /\ [SettleNext]_vars => flow' = flow
<1>1. SUFFICES ASSUME LaterInv, [SettleNext]_vars PROVE flow' = flow
  OBVIOUS
<1>2. ASSUME NEW r \in Requests, Begin(r) \/ BeginAnswer(r) \/ Return(r) \/ BankDecides(r)
      PROVE  flow' = flow
  BY <1>2 DEF Begin, BeginAnswer, Return, BankDecides
<1>3. ASSUME NEW r \in Requests, Execute(r) \/ Settle(r) \/ Compensate(r) PROVE flow' = flow
  <2>1. Acts(r)
    BY <1>1, <1>3, WorkActs
  <2>2. QED
    BY <2>1 DEF Acts
<1>4. CASE Tick \/ NapasJob \/ OtherJob
  BY <1>1, <1>4, JobDoes DEF JobActs
<1>5. CASE Crash \/ Quiescent \/ UNCHANGED vars
  BY <1>5 DEF Crash, Quiescent, vars
<1>6. QED
  BY <1>1, <1>2, <1>3, <1>4, <1>5 DEF SettleNext, Work

\* Messages that are handled one after the other are about a card payment, whose
\* status nobody sets at will.
CardFlows ==
  \A f \in Flows, q, r \in Requests :
    q # r /\ {f[q], f[r]} \subseteq Serial =>
      \A t \in Requests : f[t] \notin NapasOpenings \cup {"OrderUpdate"}

\* The invariant, where the payment is by card.
SerialInv == LaterInv /\ (NoUpdate /\ NoNapas => CopiesInv /\ GoodsInv)

\* Every step keeps what is known of a card payment.
LEMMA CardKeeps ==
  ASSUME NoUpdate, NoNapas, "err" \notin RepairOutcomes, CardInv, [SettleNext]_vars
  PROVE  CopiesInv' /\ GoodsInv'
<1>1. LaterInv /\ CopiesInv /\ GoodsInv
  BY DEF CardInv
<1>2. ASSUME NEW r \in Requests, (flow[r] \notin AnswerFlows /\ Begin(r)) \/ BeginAnswer(r)
      PROVE  CopiesInv' /\ GoodsInv'
  BY <1>1, <1>2, BeginKeepsGoods
<1>3. ASSUME NEW r \in Requests, Return(r) PROVE CopiesInv' /\ GoodsInv'
  BY <1>1, <1>3, ReturnKeepsGoods
<1>4. ASSUME NEW r \in Requests, Execute(r) \/ Settle(r) \/ Compensate(r)
      PROVE  CopiesInv' /\ GoodsInv'
  <2>1. Acts(r) /\ ActsOnCopy(r)
    BY <1>1, <1>4, WorkOnCopy
  <2>2. CopiesInv'
    BY <1>1, <2>1, WorkKeepsCopies
  <2>3. GoodsInv'
    BY <1>1, <2>1, WorkKeepsGoods
  <2>4. QED
    BY <2>2, <2>3
<1>5. CASE Crash
  BY <1>1, <1>5, CrashKeepsGoods
<1>6. CASE \/ NapasJob \/ OtherJob \/ Tick \/ Quiescent \/ UNCHANGED vars
           \/ \E o \in Requests : BankDecides(o)
  BY <1>6, RestKeepsCard
<1>7. ASSUME NEW r \in Requests, Work(r) \/ Settle(r) PROVE CopiesInv' /\ GoodsInv'
  BY <1>3, <1>4, <1>7 DEF Work
<1>8. CASE SettleNext
  BY <1>2, <1>5, <1>6, <1>7, <1>8 DEF SettleNext
<1>9. QED
  BY <1>6, <1>8

\* Every step keeps the invariant.
LEMMA SerialKeeps ==
  ASSUME "err" \notin RepairOutcomes
  PROVE  SerialInv /\ [SettleNext]_vars => SerialInv'
<1>1. SUFFICES ASSUME SerialInv, [SettleNext]_vars PROVE SerialInv'
  OBVIOUS
<1>2. LaterInv /\ LaterInv' /\ flow' = flow
  BY <1>1, SettleKeeps, FlowStays DEF SerialInv
<1>3. (NoUpdate' => NoUpdate) /\ (NoNapas' => NoNapas)
  BY <1>2 DEF NoUpdate, NoNapas
<1>4. NoUpdate /\ NoNapas => CopiesInv' /\ GoodsInv'
  BY <1>1, <1>2, CardKeeps DEF SerialInv, CardInv
<1>5. QED
  BY <1>2, <1>3, <1>4 DEF SerialInv

\* Messages that are handled one after the other have the goods delivered twice
\* only if one of them panicked or died on its way, when the rollback can store
\* the order (repairs do not fail).
THEOREM GoodsTwiceOnlyBroken ==
  ASSUME CardFlows, "err" \notin RepairOutcomes
  PROVE  SettleSpec => []GoodsTwiceNeedsPanic
<1>1. Init => SerialInv
  BY InitCard DEF SerialInv, CardInv
<1>2. SerialInv => GoodsTwiceNeedsPanic
  <2>1. SUFFICES ASSUME SerialInv, NEW q \in Requests, NEW r \in Requests,
                        q # r, {flow[q], flow[r]} \subseteq Serial,
                        provider[q] = "delivered", provider[r] = "delivered"
                 PROVE  Broken(q) \/ Broken(r)
    BY DEF GoodsTwiceNeedsPanic, Broken
  <2>2. flow \in Flows
    BY <2>1, CopiesAre DEF SerialInv
  <2>3. NoUpdate /\ NoNapas
    BY <2>1, <2>2 DEF CardFlows, NoUpdate, NoNapas
  <2>4. QED
    BY <2>1, <2>3 DEF SerialInv, GoodsInv, OneDelivers, DeliveredBy, Paired
<1>3. SerialInv /\ [SettleNext]_vars => SerialInv'
  BY SerialKeeps
<1>4. QED
  BY <1>1, <1>2, <1>3, PTL DEF SettleSpec


-----------------------------------------------------------------------------
(* Orders paid through NAPAS.  Until the opening request has stored the    *)
(* transaction in the order nobody finds it; from then on it is over.      *)

\* What is special about step k of a flow through NAPAS: the opening request
\* stores the order last, and an answer finds the transaction before it settles.
NapasStep(f, s, k) ==
  /\ f \in NapasOpenings =>
       /\ s[k].op \in {"InitOrder", "InitPayment", "AskBank", "ProcessingKept"}
       /\ s[k].comp \in {"None", "CancelPayment"}
       /\ ~ Earlier(s, k, {"ProcessingKept"})
       /\ s[k].op = "ProcessingKept" => Earlier(s, k, {"AskBank", "ProcessingKept"})
  /\ f = "CashInNAPAS" =>
       /\ s[k].op \in {"FindOrder", "FindTransaction", "CheckAmount", "SettleNapas"}
       /\ s[k].comp = "None"
       /\ s[k].op \in {"CheckAmount", "SettleNapas"} => Earlier(s, k, {"FindTransaction"})

\* The flows through NAPAS, and such a flow as a whole.
NapasFlows == NapasOpenings \cup {"CashInNAPAS", "NoRequest"}
NapasFlow(f, s) == \A k \in 1 .. Len(s) : NapasStep(f, s, k)

\* These flows are short.
LEMMA NapasFlowsAre == \A f \in NapasFlows : NapasFlow(f, Flow[f])
<1> USE DEF NapasFlow, NapasStep, NapasOpenings, Earlier, Step, Linking
<1>1. NapasFlow("NapasInitCashIn", NapasInitCashIn)
  BY SMTT(60) DEF NapasInitCashIn
<1>2. NapasFlow("NapasInitLink", NapasInitLink)
  BY SMTT(60) DEF NapasInitLink
<1>3. NapasFlow("CashInNAPAS", CashInNAPAS)
  BY SMTT(60) DEF CashInNAPAS
<1>4. NapasFlow("NoRequest", <<>>)
  OBVIOUS
<1> HIDE DEF NapasFlow, NapasOpenings
<1>5. QED
  BY <1>1, <1>2, <1>3, <1>4, FlowTable, Zenon DEF NapasFlows, NapasOpenings

\* Every request goes through NAPAS.
OnlyNapas == \A r \in Requests : flow[r] \in NapasFlows

\* The step a request is at is one of these.
LEMMA NapasCur ==
  ASSUME LaterInv, OnlyNapas, NEW r \in Requests, Runs(r) \/ (phase[r] = "abort" /\ pc[r] > 0)
  PROVE  NapasStep(flow[r], Steps(r), pc[r]) /\ pc[r] \in 1 .. Len(Steps(r))
<1>1. pc[r] \in 1 .. Len(Steps(r))
  BY LaterCur
<1>2. NapasFlow(flow[r], Steps(r))
  BY NapasFlowsAre, Zenon DEF Steps, OnlyNapas
<1>3. QED
  BY <1>1, <1>2 DEF NapasFlow

\* Who opens and who answers.
LEMMA NapasRoles ==
  ASSUME OnlyNapas, NEW r \in Requests
  PROVE  /\ flow[r] # "OrderUpdate"
         /\ Opens(r) <=> flow[r] \in NapasOpenings
         /\ flow[r] # "NoRequest" => Opens(r) \/ flow[r] = "CashInNAPAS"
         /\ flow[r] = "CashInNAPAS" => ~ Opens(r)
BY DEF OnlyNapas, NapasFlows, NapasOpenings, Opens, LaterOpenings

\* None of them sets the order's status at will.
LEMMA NoUpdateNapas == ASSUME OnlyNapas PROVE NoUpdate
BY NapasRoles DEF NoUpdate

\* The order names no transaction.
NoTran(d) == d = NIL \/ d.tran = NIL

\* The opening request has not stored its transaction in the order yet.
NotYet(o) == failedAt[o] = 0 /\ ~ Past(o, {"ProcessingKept"})

\* Nobody has read a transaction in the order, and nobody is charged.
Unlinked ==
  /\ NoTran(doc) /\ NoTran(job.read) /\ \A t \in Requests : state[t] # "APPLIED"
  /\ \A r \in Requests : flow[r] = "CashInNAPAS" =>
       NoTran(order[r]) /\ (phase[r] = "run" => ~ Past(r, {"FindTransaction"}))

\* Before the opening request has stored its transaction nobody finds it.
Untouched == \A o \in Requests : Opens(o) /\ NotYet(o) => Unlinked

\* The job gives an order up that the bank was not asked about; the time is up
\* then, and the opening request will not store anything.
GivenUp == job.at = "giveUp" => \A o \in Requests : Opens(o) => failedAt[o] # 0 \/ NotYet(o)

\* It has asked the bank before that.
AskedFirst ==
  \A o \in Requests :
    Opens(o) /\ failedAt[o] = 0 /\ Past(o, {"AskBank", "ProcessingKept"}) => bank[o] # "idle"

\* The job gives nothing back that the bank has not refused.
JobRefused == job.at \in {"refuse", "refused"} => BankRefused

\* The job does not fail an order unasked whose type and bank code make it ask.
NoOtherJob == job.at \in {"fail", "cancel"} => ~ IsNapas

\* Only the opening request has a transaction.
OwnHold == \A t \in Requests : state[t] # "NONE" => Opens(t)

\* What is known of an order paid through NAPAS.
NapasInv == Untouched /\ GivenUp /\ AskedFirst /\ JobRefused /\ NoOtherJob /\ OwnHold

\* What a step of request r may do to payment and order.
ActsOnPaid(r) ==
  /\ \A t \in Requests :
       /\ state[t] = "NONE" => state'[t] = "NONE" \/ (t = r /\ Opens(r))
       /\ state[t] = "APPLIED" =>
            state'[t] = "APPLIED" \/ (Runs(r) /\ Cur(r).op = "InitPayment" /\ t = r)
       /\ state'[t] = "APPLIED" => state[t] = "APPLIED" \/ (Runs(r) /\ Cur(r).op = "SettleNapas")
  /\ Opens(r) =>
       /\ Advances(r) /\ Cur(r).op = "AskBank" => bank'[r] # "idle"
       /\ Advances(r) /\ Cur(r).op = "ProcessingKept" => ~ timeUp
       /\ Runs(r) /\ Cur(r).op # "ProcessingKept" => doc' = doc \/ NoTran(doc')
  /\ flow[r] = "CashInNAPAS" =>
       /\ Advances(r) /\ Cur(r).op = "FindTransaction" => ~ NoTran(order[r])
       /\ Undoes(r) \/ Cur(r).op \in {"FindOrder", "FindTransaction"} =>
            doc' = doc /\ order'[r] \in {order[r], doc}
       /\ Runs(r) /\ Cur(r).op = "CheckAmount" => doc' = doc \/ flag'[r] = "verifying"
       /\ Runs(r) /\ Cur(r).op = "SettleNapas" /\ BankPaid =>
            doc' = doc \/ (doc' # NIL /\ doc'.status = "SUCCESS")

\* Which request takes a step, seen from the step.
LEMMA NapasActor ==
  ASSUME LaterInv, OnlyNapas, NEW r \in Requests, Runs(r)
  PROVE  \/ /\ Opens(r) /\ flow[r] \in NapasOpenings /\ flow[r] # "CashInNAPAS"
            /\ Cur(r).op \in {"InitOrder", "InitPayment", "AskBank", "ProcessingKept"}
            /\ ~ Past(r, {"ProcessingKept"})
            /\ Cur(r).op = "ProcessingKept" => Past(r, {"AskBank", "ProcessingKept"})
         \/ /\ ~ Opens(r) /\ flow[r] = "CashInNAPAS"
            /\ Cur(r).op \in {"FindOrder", "FindTransaction", "CheckAmount", "SettleNapas"}
            /\ Cur(r).op \in {"CheckAmount", "SettleNapas"} => Past(r, {"FindTransaction"})
<1>1. NapasStep(flow[r], Steps(r), pc[r])
  BY NapasCur
<1>2. flow[r] # "NoRequest"
  <2>1. flow[r] = "NoRequest" => Steps(r) = <<>>
    BY FlowTable, Zenon DEF Steps
  <2>2. pc[r] \in 1 .. Len(Steps(r))
    BY NapasCur
  <2>3. QED
    BY <2>1, <2>2
<1>3. CASE flow[r] \in NapasOpenings
  BY <1>1, <1>3, NapasRoles DEF NapasStep, Past, Cur
<1>4. CASE flow[r] = "CashInNAPAS"
  BY <1>1, <1>4, NapasRoles DEF NapasStep, Past, Cur
<1>5. QED
  BY <1>2, <1>3, <1>4, NapasRoles

\* Who is rolled back.
LEMMA NapasUndoes ==
  ASSUME LaterInv, OnlyNapas, NEW r \in Requests, phase[r] = "abort", pc[r] > 0
  PROVE  /\ Cur(r).comp \in {"None", "CancelPayment"}
         /\ flow[r] = "CashInNAPAS" => Cur(r).comp = "None"
         /\ Opens(r) \/ flow[r] = "CashInNAPAS"
<1>1. NapasStep(flow[r], Steps(r), pc[r]) /\ pc[r] \in 1 .. Len(Steps(r))
  BY NapasCur
<1>2. flow[r] # "NoRequest"
  <2>1. flow[r] = "NoRequest" => Steps(r) = <<>>
    BY FlowTable, Zenon DEF Steps
  <2>2. QED
    BY <1>1, <2>1
<1>3. QED
  BY <1>1, <1>2, NapasRoles DEF NapasStep, Cur

\* The steps of the opening request.
LEMMA InitOrderOnPaid ==
  ASSUME LaterInv, OnlyNapas, NEW r \in Requests, InitOrder(r)
  PROVE  ActsOnPaid(r)
<1>1. Runs(r) /\ Cur(r).op = "InitOrder"
  BY AtRuns DEF InitOrder
<1>2. Opens(r) /\ flow[r] # "CashInNAPAS"
  BY <1>1, NapasActor
<1>3. UNCHANGED state
  BY DEF InitOrder, service
<1>4. doc' = doc \/ doc' = NewOrder
  BY DEF InitOrder, StepWrites
<1>5. doc' = doc \/ NoTran(doc')
  BY <1>4 DEF NoTran, NewOrder
<1>6. QED
  BY <1>1, <1>2, <1>3, <1>5 DEF ActsOnPaid

\* It asks for its transaction,
LEMMA InitPaymentOnPaid ==
  ASSUME LaterInv, OnlyNapas, NEW r \in Requests, InitPayment(r)
  PROVE  ActsOnPaid(r)
<1>1. Runs(r) /\ Cur(r).op \in {"InitPayment", "FindOrInitPayment"}
  BY AtRuns DEF InitPayment
<1>2. Opens(r) /\ flow[r] # "CashInNAPAS" /\ Cur(r).op = "InitPayment"
  BY <1>1, NapasActor
<1>3. UNCHANGED doc /\ (UNCHANGED state \/ state' = [state EXCEPT ![r] = "INITIAL"])
  BY DEF InitPayment, service
<1>4. state \in [Requests -> TransactionState]
  BY DEF LaterInv, Shaped
<1>5. QED
  BY <1>1, <1>2, <1>3, <1>4 DEF ActsOnPaid

\* has the bank asked,
LEMMA AskBankOnPaid ==
  ASSUME LaterInv, OnlyNapas, NEW r \in Requests, AskBank(r)
  PROVE  ActsOnPaid(r)
<1>1. Runs(r) /\ Cur(r).op = "AskBank"
  BY AtRuns DEF AskBank
<1>2. Opens(r) /\ flow[r] # "CashInNAPAS"
  BY <1>1, NapasActor
<1>3. UNCHANGED doc /\ UNCHANGED state
  BY DEF AskBank, service
<1>4. bank'[r] # "idle"
  <2>1. \E did \in {"refused", "unknown"} : bank' = [bank EXCEPT ![r] = did]
    BY DEF AskBank, BankAnswers
  <2>2. bank \in [Requests -> Deeds]
    BY DEF LaterInv, Shaped
  <2>3. QED
    BY <2>1, <2>2
<1>5. QED
  BY <1>1, <1>2, <1>3, <1>4 DEF ActsOnPaid

\* and stores the order while it is time.
LEMMA ProcessingKeptOnPaid ==
  ASSUME LaterInv, OnlyNapas, NEW r \in Requests, ProcessingKept(r)
  PROVE  ActsOnPaid(r)
<1>1. Runs(r) /\ Cur(r).op = "ProcessingKept"
  BY AtRuns DEF ProcessingKept
<1>2. Opens(r) /\ flow[r] # "CashInNAPAS"
  BY <1>1, NapasActor
<1>3. UNCHANGED state
  BY DEF ProcessingKept, service
<1>4. timeUp => ~ Advances(r)
  <2>1. timeUp => StepEnds(r, "err")
    BY DEF ProcessingKept
  <2>2. QED
    BY <1>1, <2>1, EndActs
<1>5. QED
  BY <1>1, <1>2, <1>3, <1>4 DEF ActsOnPaid

\* The steps of an answer.
LEMMA FindOrderOnPaid ==
  ASSUME LaterInv, OnlyNapas, NEW r \in Requests, FindOrder(r)
  PROVE  ActsOnPaid(r)
<1>1. Runs(r) /\ Cur(r).op = "FindOrder"
  BY AtRuns DEF FindOrder
<1>2. flow[r] = "CashInNAPAS" /\ ~ Opens(r)
  BY <1>1, NapasActor
<1>3. UNCHANGED <<doc, state>> /\ order'[r] \in {order[r], doc}
  BY CopiesAre DEF FindOrder, service, OnRequests
<1>4. QED
  BY <1>1, <1>2, <1>3 DEF ActsOnPaid

\* It reads the transaction in its copy of the order,
LEMMA FindTransactionOnPaid ==
  ASSUME LaterInv, OnlyNapas, CopiesInv, NEW r \in Requests, FindTransaction(r)
  PROVE  ActsOnPaid(r)
<1>1. Runs(r) /\ Cur(r).op \in {"FindTransaction", "FindOrInitPayment"}
  BY AtRuns DEF FindTransaction
<1>2. flow[r] = "CashInNAPAS" /\ ~ Opens(r) /\ Cur(r).op = "FindTransaction"
  BY <1>1, NapasActor
<1>3. UNCHANGED <<doc, order, state>>
  BY DEF FindTransaction, service
<1>4. ASSUME Advances(r) PROVE ~ NoTran(order[r])
  <2>1. order[r].tran # NIL
    <3>1. ~ StepFails(r)
      BY <1>1, <1>4, FailActs
    <3>2. QED
      BY <3>1 DEF FindTransaction
  <2>2. order[r] # NIL
    BY <1>1, <1>2, NoUpdateNapas, CopyHeld, NilAssumption DEF CopyOps
  <2>3. QED
    BY <2>1, <2>2 DEF NoTran
<1>5. QED
  BY <1>1, <1>2, <1>3, <1>4 DEF ActsOnPaid

\* What a call that cancels a transaction does to the money.
LEMMA CancelKeepsPaid ==
  ASSUME LaterInv, NEW id, NEW outcome, CancelEnds(id, outcome)
  PROVE  \A t \in Requests :
           /\ state[t] = "NONE" => state'[t] = "NONE"
           /\ state[t] = "APPLIED" => state'[t] = "APPLIED"
           /\ state'[t] = "APPLIED" => state[t] = "APPLIED"
<1>1. state' = state \/ (state[id] = "INITIAL" /\ state' = [state EXCEPT ![id] = "RELEASED"])
  BY DEF CancelEnds, service
<1>2. state \in [Requests -> TransactionState]
  BY DEF LaterInv, Shaped
<1>3. QED
  BY <1>1, <1>2

\* compares the amounts,
LEMMA CheckAmountOnPaid ==
  ASSUME LaterInv, OnlyNapas, NEW r \in Requests, CheckAmount(r)
  PROVE  ActsOnPaid(r)
<1>1. Runs(r) /\ Cur(r).op = "CheckAmount"
  BY AtRuns DEF CheckAmount
<1>2. flow[r] = "CashInNAPAS" /\ ~ Opens(r) /\ ~ Undoes(r)
  BY <1>1, NapasActor DEF Runs, Undoes
<1>3. UNCHANGED state
  BY DEF CheckAmount
<1>4. doc' = doc \/ flag'[r] = "verifying"
  <2>1. doc' = doc \/ flag' = [flag EXCEPT ![r] = "verifying"]
    BY DEF CheckAmount
  <2>2. QED
    BY <2>1, CopiesAre DEF OnRequests
<1>5. QED
  BY <1>1, <1>2, <1>3, <1>4 DEF ActsOnPaid

\* and charges the payer, or gives up.
LEMMA SettleNapasOnPaid ==
  ASSUME LaterInv, OnlyNapas, CopiesInv, NEW r \in Requests, SettleNapas(r)
  PROVE  ActsOnPaid(r)
<1>1. Runs(r) /\ Cur(r).op = "SettleNapas"
  BY AtRuns DEF SettleNapas
<1>2. flow[r] = "CashInNAPAS" /\ ~ Opens(r) /\ ~ Undoes(r)
  BY <1>1, NapasActor DEF Runs, Undoes
<1>3. \A t \in Requests :
        /\ state[t] = "NONE" => state'[t] = "NONE"
        /\ state[t] = "APPLIED" => state'[t] = "APPLIED"
  <2>1. CASE BankPaid /\ \E outcome \in {"ok", "err", "lost"} : ConfirmEnds(trans[r].id, outcome)
    <3>1. LET id == trans[r].id IN
            state' = state \/ (state[id] = "INITIAL" /\ state' = [state EXCEPT ![id] = "APPLIED"])
      BY <2>1 DEF ConfirmEnds, service
    <3>2. state \in [Requests -> TransactionState]
      BY DEF LaterInv, Shaped
    <3>3. QED
      BY <3>1, <3>2
  <2>2. CASE RefusePayment(r)
    <3>1. UNCHANGED service \/ \E outcome \in {"ok", "err", "lost"} : CancelEnds(trans[r].id, outcome)
      BY <2>2 DEF RefusePayment, CancelTransaction
    <3>2. CASE UNCHANGED service
      BY <3>2 DEF service
    <3>3. ASSUME NEW outcome \in {"ok", "err", "lost"}, CancelEnds(trans[r].id, outcome)
          PROVE  \A t \in Requests :
                   /\ state[t] = "NONE" => state'[t] = "NONE"
                   /\ state[t] = "APPLIED" => state'[t] = "APPLIED"
      BY <3>3, CancelKeepsPaid
    <3>4. QED
      BY <3>1, <3>2, <3>3
  <2>3. QED
    BY <2>1, <2>2 DEF SettleNapas
<1>4. ASSUME BankPaid PROVE doc' = doc \/ (doc' # NIL /\ doc'.status = "SUCCESS")
  <2>1. order[r] \in Orders
    BY <1>1, NoUpdateNapas, CopyHeld DEF CopyOps
  <2>2. doc' = doc \/ doc' = [order[r] EXCEPT !.status = "SUCCESS"]
    BY <1>4 DEF SettleNapas
  <2>3. "SUCCESS" \in OrderStatus
    BY DEF OrderStatus
  <2>4. [order[r] EXCEPT !.status = "SUCCESS"] # NIL
        /\ [order[r] EXCEPT !.status = "SUCCESS"].status = "SUCCESS"
    BY <2>1, <2>3, Restated, Zenon
  <2>5. QED
    BY <2>2, <2>4, Zenon
<1>5. QED
  BY <1>1, <1>2, <1>3, <1>4 DEF ActsOnPaid

\* The compensations.
LEMMA UndoOnPaid ==
  ASSUME LaterInv, OnlyNapas, NEW r \in Requests, Compensate(r)
  PROVE  ActsOnPaid(r)
<1>1. phase[r] = "abort" /\ pc[r] > 0 /\ ~ Runs(r) /\ ~ Advances(r)
  <2>1. \E comp : AtComp(r, comp)
    BY DEF Compensate, CompensateNone, CompensateOrder, CompensateVoucher, CancelPayment,
       UndoProvider, UndoOtp, AtUndoOtp, Park
  <2>2. QED
    BY <2>1, InRollback
<1>2. \A comp : AtComp(r, comp) => comp \in {"None", "CancelPayment"}
  BY <1>1, NapasUndoes, InRollback
<1>3. CompensateNone(r) \/ CancelPayment(r)
  BY <1>2 DEF Compensate, CompensateOrder, CompensateVoucher, UndoProvider, UndoOtp, AtUndoOtp, Park
<1>4. CASE CompensateNone(r)
  <2>1. UNCHANGED <<doc, order, state>>
    BY <1>4 DEF CompensateNone, copies, service
  <2>2. Cur(r).op \in {"FindOrder", "FindTransaction"} \/ Undoes(r) => order'[r] = order[r]
    BY <2>1
  <2>3. QED
    BY <1>1, <2>1 DEF ActsOnPaid
<1>5. CASE CancelPayment(r)
  <2>1. flow[r] # "CashInNAPAS"
    BY <1>1, <1>5, NapasUndoes, InRollback DEF CancelPayment
  <2>2. \A t \in Requests :
          /\ state[t] = "NONE" => state'[t] = "NONE"
          /\ state[t] = "APPLIED" => state'[t] = "APPLIED"
          /\ state'[t] = "APPLIED" => state[t] = "APPLIED"
    <3>1. UNCHANGED service \/ \E outcome \in {"ok", "err", "lost"} : CancelEnds(trans[r].id, outcome)
      BY <1>5 DEF CancelPayment, CancelTransaction
    <3>2. CASE UNCHANGED service
      BY <3>2 DEF service
    <3>3. QED
      BY <3>1, <3>2, CancelKeepsPaid
  <2>3. QED
    BY <1>1, <2>1, <2>2 DEF ActsOnPaid
<1>6. QED
  BY <1>3, <1>4, <1>5

\* Every step does no more.
LEMMA WorkOnPaid ==
  ASSUME LaterInv, OnlyNapas, CopiesInv, NEW r \in Requests, Execute(r) \/ Settle(r) \/ Compensate(r)
  PROVE  ActsOnPaid(r)
<1>1. \A op : AtStep(r, op) =>
        op \in {"InitOrder", "InitPayment", "AskBank", "ProcessingKept", "FindOrder",
                "FindTransaction", "CheckAmount", "SettleNapas"}
  BY NapasActor, AtRuns
<1>2. CASE Execute(r)
  <2>1. /\ ~ Check(r) /\ ~ ProcessingOrder(r) /\ ~ SuccessOrder(r) /\ ~ CancelOrder(r)
        /\ ~ CancelInitial(r) /\ ~ AccountVoucher(r) /\ ~ ConfirmTrans(r) /\ ~ SkipStep(r)
        /\ ~ CallProvider(r) /\ ~ CallTransfer(r) /\ ~ CashInRequest(r) /\ ~ CashInBankGW(r)
        /\ ~ FailUnpaid(r) /\ ~ VerifyOtp(r)
    BY <1>1 DEF Check, ProcessingOrder, SuccessOrder, CancelOrder, CancelInitial, AccountVoucher,
       ConfirmTrans, SkipStep, CallProvider, CallTransfer, CashInRequest, CashInBankGW, FailUnpaid,
       VerifyOtp
  <2>2. QED
    BY <1>2, <2>1, FindOrderOnPaid, FindTransactionOnPaid, InitOrderOnPaid, InitPaymentOnPaid
       DEF Execute
<1>3. CASE Settle(r)
  <2>1. ~ CheckFraud(r) /\ ~ FailBankStatus(r) /\ ~ CreditStatus(r) /\ ~ ReplaceOrder(r)
    BY <1>1 DEF CheckFraud, FailBankStatus, CreditStatus, ReplaceOrder
  <2>2. QED
    BY <1>3, <2>1, ProcessingKeptOnPaid, AskBankOnPaid, CheckAmountOnPaid, SettleNapasOnPaid
       DEF Settle
<1>4. CASE Compensate(r)
  BY <1>4, UndoOnPaid
<1>5. QED
  BY <1>2, <1>3, <1>4

-----------------------------------------------------------------------------
(* Such a step keeps what is known of the order.                           *)

\* An opening request that has not failed, and fails in no step, goes on.
LEMMA StillOpening ==
  ASSUME LaterInv, NEW r \in Requests, Acts(r), NEW o \in Requests, failedAt'[o] = 0
  PROVE  failedAt[o] = 0 /\ (o = r => Advances(r))
<1>1. failedAt[o] = 0
  BY FailedStays
<1>2. ASSUME o = r PROVE Advances(r)
  <2>1. ~ Fails(r)
    BY <1>2, ActorPhases DEF Runs, LaterInv, Places
  <2>2. ~ Undoes(r)
    BY <1>1, <1>2, ActorPhases DEF LaterInv, Places
  <2>3. QED
    BY <2>1, <2>2 DEF Acts, SoundControl
<1>3. QED
  BY <1>1, <1>2

\* Whoever has not stored the order after a step had not before.
LEMMA StillNotYet ==
  ASSUME LaterInv, NEW r \in Requests, Acts(r), NEW o \in Requests, NotYet(o)'
  PROVE  NotYet(o) /\ (o = r => Advances(r) /\ Cur(r).op # "ProcessingKept")
<1>1. failedAt'[o] = 0 /\ ~ Past(o, {"ProcessingKept"})'
  BY DEF NotYet
<1>2. failedAt[o] = 0 /\ (o = r => Advances(r))
  BY <1>1, StillOpening
<1>3. CASE o # r
  BY <1>1, <1>2, <1>3, ActsPast DEF NotYet
<1>4. CASE o = r
  <2>1. ~ (Past(r, {"ProcessingKept"}) \/ Cur(r).op \in {"ProcessingKept"})
    BY <1>1, <1>2, <1>4, ActsPast
  <2>2. QED
    BY <1>2, <1>4, <2>1 DEF NotYet
<1>5. QED
  BY <1>3, <1>4

\* Nobody finds a transaction that is not stored.
LEMMA WorkKeepsUntouched ==
  ASSUME LaterInv, OnlyNapas, NapasInv, NEW r \in Requests, Acts(r), ActsOnPaid(r)
  PROVE  Untouched'
<1>1. /\ flow' = flow /\ job' = job
      /\ \A q \in Requests \ {r} : order'[q] = order[q] /\ phase'[q] = phase[q]
      /\ Advances(r) \/ Fails(r) \/ Undoes(r)
  BY CopiesAre DEF Acts, SoundControl, ActsOnCopies, OnlyAt, OnRequests, around
<1>2. SUFFICES ASSUME NEW o \in Requests, Opens(o), NotYet(o)' PROVE Unlinked'
  BY <1>1 DEF Untouched, Opens
<1>3. NotYet(o) /\ (o = r => Advances(r) /\ Cur(r).op # "ProcessingKept")
  BY <1>2, StillNotYet
<1>4. Unlinked
  BY <1>2, <1>3 DEF NapasInv, Untouched
<1>5. /\ Runs(r) => phase[r] = "run"
      /\ Advances(r) \/ Fails(r) => Runs(r)
      /\ phase'[r] = "run" => Advances(r)
  BY ActorPhases DEF Runs
<1>6. o = r \/ flow[r] = "CashInNAPAS"
  <2>1. Opens(r) \/ flow[r] = "CashInNAPAS"
    BY <1>1, <1>5, NapasActor, NapasUndoes, ActorPhases
  <2>2. Opens(r) => o = r
    BY <1>2, OneOpening, CopiesAre
  <2>3. QED
    BY <2>1, <2>2
<1>7. CASE o = r
  <2>1. flow[r] # "CashInNAPAS" /\ Runs(r) /\ Cur(r).op \notin {"ProcessingKept", "SettleNapas"}
    BY <1>2, <1>3, <1>5, <1>7, NapasActor, NapasRoles
  <2>2. doc' = doc \/ NoTran(doc')
    BY <1>2, <1>7, <2>1 DEF ActsOnPaid
  <2>3. NoTran(doc') /\ NoTran(job'.read) /\ \A t \in Requests : state'[t] # "APPLIED"
    BY <1>1, <1>4, <2>1, <2>2 DEF Unlinked, ActsOnPaid
  <2>4. ASSUME NEW q \in Requests, flow[q] = "CashInNAPAS"
        PROVE  NoTran(order'[q]) /\ (phase'[q] = "run" => ~ Past(q, {"FindTransaction"})')
    <3>1. q # r
      BY <2>1, <2>4
    <3>2. /\ order'[q] = order[q] /\ phase'[q] = phase[q]
          /\ Past(q, {"FindTransaction"})' <=> Past(q, {"FindTransaction"})
      BY <1>1, <3>1, ActsPast
    <3>3. QED
      BY <1>4, <2>4, <3>2 DEF Unlinked
  <2>5. QED
    BY <1>1, <2>3, <2>4 DEF Unlinked, NoTran
<1>8. CASE o # r
  <2>1. flow[r] = "CashInNAPAS"
    BY <1>6, <1>8
  <2>2. Undoes(r) \/ Cur(r).op \in {"FindOrder", "FindTransaction"}
    <3>1. ASSUME Runs(r) PROVE Cur(r).op \in {"FindOrder", "FindTransaction"}
      <4>1. ~ Past(r, {"FindTransaction"})
        BY <1>4, <1>5, <2>1, <3>1 DEF Unlinked
      <4>2. QED
        BY <2>1, <3>1, <4>1, NapasActor
    <3>2. QED
      BY <1>1, <1>5, <3>1
  <2>3. Advances(r) => Cur(r).op = "FindOrder" /\ ~ Past(r, {"FindTransaction"})'
    <3>1. SUFFICES ASSUME Advances(r) PROVE Cur(r).op = "FindOrder" /\ ~ Past(r, {"FindTransaction"})'
      OBVIOUS
    <3>2. Cur(r).op = "FindOrder"
      <4>1. Cur(r).op # "FindTransaction"
        BY <1>4, <2>1, <3>1 DEF Unlinked, ActsOnPaid
      <4>2. Runs(r) /\ ~ Undoes(r)
        BY <1>5, <3>1 DEF Runs, Undoes
      <4>3. QED
        BY <2>2, <4>1, <4>2
    <3>3. ~ Past(r, {"FindTransaction"})
      BY <1>4, <1>5, <2>1, <3>1 DEF Unlinked
    <3>4. QED
      BY <3>1, <3>2, <3>3, ActsPast
  <2>4. doc' = doc /\ order'[r] \in {order[r], doc}
    BY <2>1, <2>2 DEF ActsOnPaid
  <2>5. \A t \in Requests : state'[t] # "APPLIED"
    <3>1. ~ (Runs(r) /\ Cur(r).op = "SettleNapas")
      BY <2>2 DEF Runs, Undoes
    <3>2. QED
      BY <1>4, <3>1 DEF Unlinked, ActsOnPaid
  <2>6. ASSUME NEW q \in Requests, flow[q] = "CashInNAPAS"
        PROVE  NoTran(order'[q]) /\ (phase'[q] = "run" => ~ Past(q, {"FindTransaction"})')
    <3>1. CASE q = r
      BY <1>4, <1>5, <2>1, <2>3, <2>4, <3>1 DEF Unlinked
    <3>2. CASE q # r
      <4>1. order'[q] = order[q] /\ phase'[q] = phase[q]
            /\ (Past(q, {"FindTransaction"})' <=> Past(q, {"FindTransaction"}))
        BY <1>1, <3>2, ActsPast
      <4>2. QED
        BY <1>4, <2>6, <4>1 DEF Unlinked
    <3>3. QED
      BY <3>1, <3>2
  <2>7. NoTran(doc') /\ NoTran(job'.read)
    BY <1>1, <1>4, <2>4 DEF Unlinked
  <2>8. QED
    BY <1>1, <2>5, <2>6, <2>7 DEF Unlinked, NoTran
<1>9. QED
  BY <1>7, <1>8

\* And what is known of the job and the bank.
LEMMA WorkKeepsNapas ==
  ASSUME LaterInv, OnlyNapas, NapasInv, NEW r \in Requests, Acts(r), ActsOnPaid(r)
  PROVE  NapasInv'
<1>1. flow' = flow /\ UNCHANGED <<timeUp, job>>
  BY DEF Acts, around
<1>2. \A o \in Requests : Opens(o)' <=> Opens(o)
  BY <1>1 DEF Opens
<1>3. Untouched'
  BY WorkKeepsUntouched
<1>4. GivenUp'
  <2>1. SUFFICES ASSUME job.at = "giveUp", NEW o \in Requests, Opens(o), failedAt'[o] = 0
                 PROVE  NotYet(o)'
    BY <1>1, <1>2 DEF GivenUp
  <2>2. timeUp
    BY <2>1 DEF LaterInv, JobKnows
  <2>3. failedAt[o] = 0 /\ (o = r => Advances(r))
    BY <2>1, StillOpening
  <2>4. ~ Past(o, {"ProcessingKept"})
    BY <2>1, <2>3 DEF NapasInv, GivenUp, NotYet
  <2>5. ~ Past(o, {"ProcessingKept"})'
    <3>1. CASE o # r
      BY <2>4, <3>1, ActsPast
    <3>2. CASE o = r
      <4>1. Cur(r).op # "ProcessingKept"
        BY <2>1, <2>2, <2>3, <3>2 DEF ActsOnPaid
      <4>2. ~ (Past(r, {"ProcessingKept"}) \/ Cur(r).op \in {"ProcessingKept"})
        BY <2>4, <3>2, <4>1
      <4>3. QED
        BY <2>3, <3>2, <4>2, ActsPast
    <3>3. QED
      BY <3>1, <3>2
  <2>6. QED
    BY <2>1, <2>5 DEF NotYet
<1>5. AskedFirst'
  <2>1. SUFFICES ASSUME NEW o \in Requests, Opens(o), failedAt'[o] = 0,
                        Past(o, {"AskBank", "ProcessingKept"})'
                 PROVE  bank'[o] # "idle"
    BY <1>2 DEF AskedFirst
  <2>2. failedAt[o] = 0 /\ (o = r => Advances(r))
    BY <2>1, StillOpening
  <2>3. CASE Past(o, {"AskBank", "ProcessingKept"})
    <3>1. bank[o] # "idle"
      BY <2>1, <2>2, <2>3 DEF NapasInv, AskedFirst
    <3>2. QED
      BY <3>1, ActsKeepBank
  <2>4. CASE ~ Past(o, {"AskBank", "ProcessingKept"})
    <3>1. o = r /\ Advances(r)
      BY <2>1, <2>2, <2>4, ActsPast
    <3>2. Cur(r).op \in {"AskBank", "ProcessingKept"}
      BY <2>1, <2>4, <3>1, ActsPast
    <3>3. Cur(r).op # "ProcessingKept"
      <4>1. Runs(r)
        BY <3>1 DEF Advances
      <4>2. QED
        BY <2>4, <3>1, <3>2, <4>1, NapasActor
    <3>4. QED
      BY <2>1, <3>1, <3>2, <3>3 DEF ActsOnPaid
  <2>5. QED
    BY <2>3, <2>4
<1>6. JobRefused'
  BY <1>1, ActsKeepBank DEF NapasInv, JobRefused
<1>7. NoOtherJob'
  BY <1>1 DEF NapasInv, NoOtherJob, IsNapas
<1>8. OwnHold'
  BY <1>2 DEF NapasInv, OwnHold, ActsOnPaid
<1>9. QED
  BY <1>3, <1>4, <1>5, <1>6, <1>7, <1>8 DEF NapasInv

-----------------------------------------------------------------------------
(* Between the steps.                                                      *)

\* A beginning, an end, a crash, the bank and time.
LEMMA RestKeepsNapas ==
  ASSUME LaterInv, NapasInv, UNCHANGED <<flow, pc, failedAt, doc, state>>,
         job' = job \/ job' = [at |-> "idle", read |-> NIL],
         \A q \in Requests : order'[q] = order[q] \/ order'[q] = NIL,
         \A q \in Requests : phase'[q] = "run" => phase[q] = "run" \/ pc[q] = 1,
         \A q \in Requests : bank[q] # "idle" => bank'[q] # "idle",
         BankRefused => BankRefused'
  PROVE  NapasInv'
<1>1. /\ \A o \in Requests : Opens(o)' <=> Opens(o)
      /\ flow' = flow /\ \A q \in Requests : pc'[q] = pc[q] /\ failedAt'[q] = failedAt[q]
  BY DEF Opens
<1>2. ASSUME NEW q \in Requests, NEW CONSTANT ops PROVE Past(q, ops)' <=> Past(q, ops)
  BY <1>1, PastStays, Zenon
<1>3. \A q \in Requests : NotYet(q)' <=> NotYet(q)
  BY <1>1, <1>2 DEF NotYet
<1>4. Untouched'
  <2>1. SUFFICES ASSUME NEW o \in Requests, Opens(o), NotYet(o) PROVE Unlinked'
    BY <1>1, <1>3 DEF Untouched
  <2>2. Unlinked
    BY <2>1 DEF NapasInv, Untouched
  <2>3. NoTran(doc') /\ NoTran(job'.read) /\ \A t \in Requests : state'[t] # "APPLIED"
    BY <2>2 DEF Unlinked, NoTran
  <2>4. ASSUME NEW q \in Requests, flow[q] = "CashInNAPAS"
        PROVE  NoTran(order'[q]) /\ (phase'[q] = "run" => ~ Past(q, {"FindTransaction"})')
    <3>1. NoTran(order'[q])
      BY <2>2, <2>4 DEF Unlinked, NoTran
    <3>2. pc[q] = 1 => ~ Past(q, {"FindTransaction"})
      BY DEF Past, Earlier
    <3>3. phase'[q] = "run" => ~ Past(q, {"FindTransaction"})
      BY <2>2, <2>4, <3>2 DEF Unlinked
    <3>4. QED
      BY <1>2, <3>1, <3>3
  <2>5. QED
    BY <1>1, <2>3, <2>4 DEF Unlinked, NoTran
<1>5. GivenUp'
  BY <1>1, <1>3 DEF NapasInv, GivenUp
<1>6. AskedFirst'
  <2>1. SUFFICES ASSUME NEW o \in Requests, Opens(o), failedAt[o] = 0,
                        Past(o, {"AskBank", "ProcessingKept"})'
                 PROVE  bank'[o] # "idle"
    BY <1>1 DEF AskedFirst
  <2>2. Past(o, {"AskBank", "ProcessingKept"})
    BY <1>2, <2>1
  <2>3. QED
    BY <2>1, <2>2 DEF NapasInv, AskedFirst
<1>7. JobRefused' /\ NoOtherJob'
  BY DEF NapasInv, JobRefused, NoOtherJob, IsNapas
<1>8. OwnHold'
  BY <1>1 DEF NapasInv, OwnHold
<1>9. QED
  BY <1>4, <1>5, <1>6, <1>7, <1>8 DEF NapasInv

\* What the job does with an order paid through NAPAS.
JobOnPaid ==
  /\ UNCHANGED <<flow, phase, pc, failedAt, order, bank>>
  /\ \A t \in Requests :
       /\ state[t] = "NONE" => state'[t] = "NONE"
       /\ state[t] = "APPLIED" => state'[t] = "APPLIED"
       /\ state'[t] = "APPLIED" => state[t] = "APPLIED" \/ ~ NoTran(job.read)
  /\ NoTran(job.read) /\ NoTran(doc) => NoTran(doc') /\ NoTran(job'.read)
  /\ job'.at = "giveUp" => job.at = "giveUp" \/ ~ BankAsked
  /\ job'.at \in {"refuse", "refused"} => BankRefused
  /\ job'.at \in {"fail", "cancel"} => ~ IsNapas
  /\ \/ doc' = doc \/ (doc' # NIL /\ doc'.status = "SUCCESS")
     \/ job.at \in {"giveUp", "refused", "unanswered"} \/ (job.at = "fail" /\ ~ IsNapas)

\* The job does no more.
LEMMA JobDoesPaid ==
  ASSUME LaterInv, CopiesInv, NapasInv, NapasJob \/ OtherJob \/ Tick
  PROVE  JobOnPaid
<1>1. UNCHANGED <<flow, phase, pc, failedAt, order, bank>>
  BY JobDoes DEF JobActs
<1>2. /\ job = [at |-> job.at, read |-> job.read]
      /\ job.at # "idle" => job.read \in Orders
      /\ job.at \in {"refuse", "refused"} => BankRefused
      /\ job.at \in {"fail", "cancel"} => ~ IsNapas
      /\ state \in [Requests -> TransactionState]
  BY DEF LaterInv, Shaped, CopiesInv, CopiesTyped, MaybeOrder, NapasInv, JobRefused, NoOtherJob
<1>3. ASSUME NEW at, JobGoes(at), job.at # "idle"
      PROVE  job'.at = at /\ (job'.read = job.read \/ job'.read = NIL)
  BY <1>2, <1>3 DEF JobGoes
<1>4. CASE JobReadNapas
  <2>1. UNCHANGED <<doc, state>> /\ job' = [at |-> "retrieve", read |-> doc]
    BY <1>4 DEF JobReadNapas, service
  <2>2. QED
    BY <1>1, <2>1 DEF JobOnPaid
<1>5. CASE JobRetrieve
  <2>1. UNCHANGED <<doc, state>> /\ job.at # "idle"
    BY <1>5 DEF JobRetrieve, service
  <2>2. \/ ~ BankAsked /\ JobGoes("giveUp")
        \/ JobGoes("unanswered") \/ JobGoes("idle") \/ JobGoes("confirm")
        \/ BankRefused /\ JobGoes("refuse")
    BY <1>5 DEF JobRetrieve, BankRefused
  <2>3. /\ job'.read = job.read \/ job'.read = NIL
        /\ job'.at = "giveUp" => ~ BankAsked
        /\ job'.at \in {"refuse", "refused"} => BankRefused
        /\ job'.at \notin {"fail", "cancel"}
    BY <1>3, <2>1, <2>2
  <2>4. NoTran(job.read) => NoTran(job'.read)
    BY <2>3 DEF NoTran
  <2>5. QED
    BY <1>1, <2>1, <2>3, <2>4 DEF JobOnPaid
<1>6. CASE JobConfirm
  <2>1. UNCHANGED doc /\ job.at # "idle" /\ JobGoes("success")
    BY <1>6 DEF JobConfirm
  <2>2. job'.at = "success" /\ (job'.read = job.read \/ job'.read = NIL)
    BY <1>3, <2>1
  <2>3. LET id == job.read.tran IN
          state' = state \/ (id # NIL /\ state[id] = "INITIAL" /\ state' = [state EXCEPT ![id] = "APPLIED"])
    BY <1>6 DEF JobConfirm, ConfirmEnds, service
  <2>4. job.read.tran # NIL => ~ NoTran(job.read)
    BY <1>2, <2>1, NilAssumption DEF NoTran
  <2>5. \A t \in Requests :
          /\ state[t] = "NONE" => state'[t] = "NONE"
          /\ state[t] = "APPLIED" => state'[t] = "APPLIED"
          /\ state'[t] = "APPLIED" => state[t] = "APPLIED" \/ ~ NoTran(job.read)
    BY <1>2, <2>3, <2>4
  <2>6. NoTran(job.read) => NoTran(job'.read)
    BY <2>2 DEF NoTran
  <2>7. QED
    BY <1>1, <2>1, <2>2, <2>5, <2>6 DEF JobOnPaid
<1>7. CASE JobRelease
  <2>1. /\ UNCHANGED doc /\ job.at # "idle"
        /\ JobGoes("idle") \/ (job.at = "refuse" /\ JobGoes("refused"))
    BY <1>7 DEF JobRelease
  <2>2. /\ job'.at = "idle" \/ (job.at = "refuse" /\ job'.at = "refused")
        /\ job'.read = job.read \/ job'.read = NIL
    BY <1>3, <2>1
  <2>3. \A t \in Requests :
          /\ state[t] = "NONE" => state'[t] = "NONE"
          /\ state[t] = "APPLIED" => state'[t] = "APPLIED"
          /\ state'[t] = "APPLIED" => state[t] = "APPLIED"
    BY <1>7, CancelKeepsPaid DEF JobRelease
  <2>4. NoTran(job.read) => NoTran(job'.read)
    BY <2>2 DEF NoTran
  <2>5. QED
    BY <1>1, <1>2, <2>1, <2>2, <2>3, <2>4 DEF JobOnPaid
<1>8. CASE JobWrites
  <2>1. /\ UNCHANGED state /\ job.at \in {"success", "refused", "giveUp", "unanswered"}
        /\ JobGoes("idle") \/ JobGoes("release")
    BY <1>8 DEF JobWrites, service
  <2>2. /\ job'.at \in {"idle", "release"}
        /\ job'.read = job.read \/ job'.read = NIL
    BY <1>3, <2>1
  <2>3. \E status \in {"SUCCESS", "FAILED"} :
          /\ doc' = doc \/ doc' = [job.read EXCEPT !.status = status]
          /\ job.at = "success" => status = "SUCCESS"
    BY <1>8 DEF JobWrites
  <2>4. PICK status \in {"SUCCESS", "FAILED"} :
          /\ doc' = doc \/ doc' = [job.read EXCEPT !.status = status]
          /\ job.at = "success" => status = "SUCCESS"
    BY <2>3
  <2>5. job.read \in Orders /\ status \in OrderStatus
    BY <1>2, <2>1 DEF OrderStatus
  <2>6. /\ [job.read EXCEPT !.status = status] # NIL
        /\ [job.read EXCEPT !.status = status].status = status
        /\ [job.read EXCEPT !.status = status].tran = job.read.tran
    BY <2>5, Restated, Zenon
  <2>7. NoTran(job.read) => NoTran([job.read EXCEPT !.status = status])
    BY <2>5, <2>6, NilAssumption DEF NoTran
  <2>8. NoTran(job.read) /\ NoTran(doc) => NoTran(doc')
    <3>1. CASE doc' = doc
      BY <3>1 DEF NoTran
    <3>2. CASE doc' = [job.read EXCEPT !.status = status]
      BY <2>7, <3>2 DEF NoTran
    <3>3. QED
      BY <2>4, <3>1, <3>2
  <2>9. NoTran(job.read) => NoTran(job'.read)
    BY <2>2 DEF NoTran
  <2>10. \/ doc' = doc \/ (doc' # NIL /\ doc'.status = "SUCCESS")
         \/ job.at \in {"giveUp", "refused", "unanswered"}
    BY <2>1, <2>4, <2>6, Zenon
  <2>11. QED
    BY <1>1, <2>1, <2>2, <2>8, <2>9, <2>10 DEF JobOnPaid
<1>9. CASE Tick
  <2>1. UNCHANGED <<doc, state, job>>
    BY <1>9 DEF Tick, service
  <2>2. QED
    BY <1>1, <1>2, <2>1 DEF JobOnPaid
<1>10. CASE ~ IsNapas /\ JobRead
  <2>1. UNCHANGED <<doc, state>> /\ job' = [at |-> "fail", read |-> doc]
    BY <1>10 DEF JobRead, service
  <2>2. QED
    BY <1>1, <1>10, <2>1 DEF JobOnPaid
<1>11. CASE \E outcome \in RepairOutcomes : JobFail(outcome)
  <2>1. /\ UNCHANGED state /\ job.at = "fail"
        /\ job' = [job EXCEPT !.at = "cancel"] \/ job' = [at |-> "idle", read |-> NIL]
        /\ doc' = doc \/ doc' = [job.read EXCEPT !.status = "FAILED", !.expired = TRUE]
    BY <1>11 DEF JobFail, service
  <2>2. /\ job'.at \in {"cancel", "idle"}
        /\ job'.read = job.read \/ job'.read = NIL
    BY <1>2, <2>1
  <2>3. job.read \in Orders /\ ~ IsNapas
    BY <1>2, <2>1
  <2>4. NoTran(job.read) => NoTran([job.read EXCEPT !.status = "FAILED", !.expired = TRUE])
    BY <2>3, NilAssumption DEF NoTran, Orders
  <2>5. NoTran(job.read) /\ NoTran(doc) => NoTran(doc')
    BY <2>1, <2>4, Zenon DEF NoTran
  <2>6. NoTran(job.read) => NoTran(job'.read)
    BY <2>2 DEF NoTran
  <2>7. QED
    BY <1>1, <2>1, <2>2, <2>3, <2>5, <2>6 DEF JobOnPaid
<1>12. CASE JobCancel
  <2>1. /\ UNCHANGED doc /\ job' = [at |-> "idle", read |-> NIL]
        /\ UNCHANGED state \/ \E outcome \in RepairOutcomes : CancelEnds(job.read.tran, outcome)
    BY <1>12 DEF JobCancel, CancelIfInitial, service
  <2>2. \A t \in Requests :
          /\ state[t] = "NONE" => state'[t] = "NONE"
          /\ state[t] = "APPLIED" => state'[t] = "APPLIED"
          /\ state'[t] = "APPLIED" => state[t] = "APPLIED"
    BY <2>1, CancelKeepsPaid
  <2>3. QED
    BY <1>1, <2>1, <2>2 DEF JobOnPaid, NoTran
<1>13. QED
  BY <1>4, <1>5, <1>6, <1>7, <1>8, <1>9, <1>10, <1>11, <1>12 DEF NapasJob, OtherJob

\* The job keeps what is known of the order.
LEMMA JobKeepsNapas ==
  ASSUME LaterInv, NapasInv, JobOnPaid
  PROVE  NapasInv'
<1>1. /\ \A o \in Requests : Opens(o)' <=> Opens(o)
      /\ flow' = flow /\ \A q \in Requests : pc'[q] = pc[q] /\ failedAt'[q] = failedAt[q]
      /\ UNCHANGED <<phase, order, bank>>
  BY DEF Opens, JobOnPaid
<1>2. ASSUME NEW q \in Requests, NEW CONSTANT ops PROVE Past(q, ops)' <=> Past(q, ops)
  BY <1>1, PastStays, Zenon
<1>3. \A q \in Requests : NotYet(q)' <=> NotYet(q)
  BY <1>1, <1>2 DEF NotYet
<1>4. Untouched'
  <2>1. SUFFICES ASSUME NEW o \in Requests, Opens(o), NotYet(o) PROVE Unlinked'
    BY <1>1, <1>3 DEF Untouched
  <2>2. Unlinked
    BY <2>1 DEF NapasInv, Untouched
  <2>3. NoTran(doc') /\ NoTran(job'.read) /\ \A t \in Requests : state'[t] # "APPLIED"
    BY <2>2 DEF Unlinked, JobOnPaid
  <2>4. ASSUME NEW q \in Requests, flow[q] = "CashInNAPAS"
        PROVE  NoTran(order'[q]) /\ (phase'[q] = "run" => ~ Past(q, {"FindTransaction"})')
    BY <1>1, <1>2, <2>2, <2>4 DEF Unlinked, NoTran
  <2>5. QED
    BY <1>1, <2>3, <2>4 DEF Unlinked, NoTran
<1>5. GivenUp'
  <2>1. SUFFICES ASSUME job'.at = "giveUp", NEW o \in Requests, Opens(o), failedAt[o] = 0
                 PROVE  NotYet(o)
    BY <1>1, <1>3 DEF GivenUp
  <2>2. CASE job.at = "giveUp"
    BY <2>1, <2>2 DEF NapasInv, GivenUp
  <2>3. CASE ~ BankAsked
    <3>1. bank[o] = "idle"
      BY <2>1, <2>3 DEF BankAsked
    <3>2. ~ Past(o, {"AskBank", "ProcessingKept"})
      BY <2>1, <3>1 DEF NapasInv, AskedFirst
    <3>3. QED
      BY <2>1, <3>2 DEF NotYet, Past, Earlier
  <2>4. QED
    BY <2>1, <2>2, <2>3 DEF JobOnPaid
<1>6. AskedFirst'
  <2>1. SUFFICES ASSUME NEW o \in Requests, Opens(o), failedAt[o] = 0,
                        Past(o, {"AskBank", "ProcessingKept"})'
                 PROVE  bank[o] # "idle"
    BY <1>1 DEF AskedFirst
  <2>2. Past(o, {"AskBank", "ProcessingKept"})
    BY <1>2, <2>1
  <2>3. QED
    BY <2>1, <2>2 DEF NapasInv, AskedFirst
<1>7. JobRefused' /\ NoOtherJob'
  <2>1. BankRefused' <=> BankRefused
    BY <1>1 DEF BankRefused, BankDecided, BankPaid
  <2>2. QED
    BY <1>1, <2>1 DEF JobRefused, NoOtherJob, JobOnPaid, IsNapas
<1>8. OwnHold'
  BY <1>1 DEF NapasInv, OwnHold, JobOnPaid
<1>9. QED
  BY <1>4, <1>5, <1>6, <1>7, <1>8 DEF NapasInv

-----------------------------------------------------------------------------
(* A paid order.                                                           *)

\* Nothing in a step is off: no answer disagrees, the opening has not failed, and
\* the job does not write what it decided without an answer of the bank.
NothingOff ==
  /\ \A r \in Requests : flag'[r] # "verifying" /\ (Opens(r) => failedAt[r] = 0)
  /\ job.at # "unanswered" /\ ~ (job.at = "fail" /\ ~ IsNapas)

\* Whose payment it is, and how far its request and the job are.
LEMMA PaidBy ==
  ASSUME LaterInv, NapasInv, PaidOrder, \A r \in Requests : Opens(r) => failedAt[r] = 0
  PROVE  /\ \E t \in Requests : Opens(t) /\ state[t] = "APPLIED"
         /\ \A o \in Requests : Opens(o) => ~ NotYet(o)
         /\ BankPaid /\ ~ BankRefused /\ job.at \notin {"giveUp", "refused"}
<1>1. PICK t \in Requests : state[t] = "APPLIED"
  BY DEF PaidOrder, Charged
<1>2. Opens(t)
  BY <1>1 DEF NapasInv, OwnHold
<1>3. \A o \in Requests : Opens(o) => ~ NotYet(o)
  BY <1>1 DEF NapasInv, Untouched, Unlinked
<1>4. BankPaid /\ ~ BankRefused
  BY <1>1, <1>2 DEF LaterInv, ChargedIsBankPaid, Charged, BankPaid, BankRefused
<1>5. job.at # "giveUp"
  BY <1>2, <1>3 DEF NapasInv, GivenUp
<1>6. job.at # "refused"
  BY <1>4 DEF NapasInv, JobRefused
<1>7. QED
  BY <1>1, <1>2, <1>3, <1>4, <1>5, <1>6

\* No step of a request undoes it.
LEMMA WorkKeepsPaid ==
  ASSUME LaterInv, OnlyNapas, NapasInv, PaidOrder, NothingOff,
         NEW r \in Requests, Acts(r), ActsOnPaid(r)
  PROVE  PaidOrder'
<1>1. PICK t \in Requests : Opens(t) /\ state[t] = "APPLIED"
  BY PaidBy DEF NothingOff
<1>2. BankPaid /\ \A o \in Requests : Opens(o) => ~ NotYet(o)
  BY PaidBy DEF NothingOff
<1>3. doc # NIL /\ doc.status = "SUCCESS" /\ flag'[r] # "verifying"
  BY DEF PaidOrder, NothingOff
<1>4. Runs(r) => phase[r] = "run" /\ flow[r] = "CashInNAPAS" /\ ~ Opens(r)
  <2>1. SUFFICES ASSUME Runs(r) PROVE phase[r] = "run" /\ flow[r] = "CashInNAPAS" /\ ~ Opens(r)
    OBVIOUS
  <2>2. Opens(r) => NotYet(r)
    BY <2>1, NapasActor, NapasRoles DEF NotYet, NothingOff
  <2>3. QED
    BY <1>2, <2>1, <2>2, NapasActor DEF Runs
<1>5. Undoes(r) => flow[r] = "CashInNAPAS"
  <2>1. SUFFICES ASSUME Undoes(r) PROVE flow[r] = "CashInNAPAS"
    OBVIOUS
  <2>2. phase[r] = "abort" /\ pc[r] > 0 /\ failedAt[r] >= 1
    BY <2>1, ActorPhases DEF LaterInv, Places
  <2>3. ~ Opens(r)
    BY <2>2 DEF NothingOff
  <2>4. QED
    BY <2>2, <2>3, NapasUndoes
<1>6. Runs(r) \/ Undoes(r)
  BY DEF Acts, SoundControl, Advances, Fails
<1>7. flow[r] = "CashInNAPAS"
  BY <1>4, <1>5, <1>6
<1>8. Cur(r).op \in {"FindOrder", "FindTransaction", "CheckAmount", "SettleNapas"} \/ Undoes(r)
  BY <1>4, <1>6, NapasActor
<1>9. doc' # NIL /\ doc'.status = "SUCCESS"
  <2>1. CASE Undoes(r) \/ Cur(r).op \in {"FindOrder", "FindTransaction"}
    BY <1>3, <1>7, <2>1 DEF ActsOnPaid
  <2>2. CASE Runs(r) /\ Cur(r).op = "CheckAmount"
    BY <1>3, <1>7, <2>2 DEF ActsOnPaid
  <2>3. CASE Runs(r) /\ Cur(r).op = "SettleNapas"
    BY <1>2, <1>3, <1>7, <2>3 DEF ActsOnPaid
  <2>4. QED
    BY <1>6, <1>8, <2>1, <2>2, <2>3
<1>10. state'[t] = "APPLIED"
  <2>1. ~ (Runs(r) /\ Cur(r).op = "InitPayment" /\ t = r)
    BY <1>1, <1>4
  <2>2. QED
    BY <1>1, <2>1 DEF ActsOnPaid
<1>11. QED
  BY <1>9, <1>10 DEF PaidOrder, Charged

\* Nor does the job.
LEMMA JobKeepsPaid ==
  ASSUME LaterInv, NapasInv, PaidOrder, NothingOff, JobOnPaid
  PROVE  PaidOrder'
<1>1. PICK t \in Requests : Opens(t) /\ state[t] = "APPLIED"
  BY PaidBy DEF NothingOff
<1>2. job.at \notin {"giveUp", "refused"}
  BY PaidBy DEF NothingOff
<1>3. doc' # NIL /\ doc'.status = "SUCCESS"
  BY <1>2 DEF PaidOrder, JobOnPaid, NothingOff
<1>4. state'[t] = "APPLIED"
  BY <1>1 DEF JobOnPaid
<1>5. QED
  BY <1>3, <1>4 DEF PaidOrder, Charged

\* An order opened through NAPAS is answered by NAPAS alone.
NapasOnly ==
  \A f \in Flows :
    (\E r \in Requests : f[r] \in NapasOpenings) => \A r \in Requests : f[r] \in NapasFlows

\* The invariant of paid orders.
PaidInv == LaterInv /\ (NapasOrder => CopiesInv /\ NapasInv)

\* At first nothing is paid for.
LEMMA InitPaid == Init => PaidInv
<1>1. SUFFICES ASSUME Init PROVE PaidInv
  OBVIOUS
<1>2. /\ phase = [r \in Requests |-> "idle"] /\ pc = [r \in Requests |-> 1]
      /\ order = [r \in Requests |-> NIL] /\ state = [r \in Requests |-> "NONE"]
      /\ job = [at |-> "idle", read |-> NIL] /\ doc \in {NIL, NewOrder}
  BY <1>1 DEF Init
<1>3. Untouched
  BY <1>2 DEF Untouched, Unlinked, NoTran, NewOrder
<1>4. \A o \in Requests, ops \in {{"AskBank", "ProcessingKept"}} : ~ Past(o, ops)
  BY <1>2 DEF Past, Earlier
<1>5. GivenUp /\ AskedFirst /\ JobRefused /\ NoOtherJob /\ OwnHold
  BY <1>2, <1>4 DEF GivenUp, AskedFirst, JobRefused, NoOtherJob, OwnHold
<1>6. QED
  BY <1>1, <1>3, <1>5, InitLater, InitCopies DEF PaidInv, NapasInv

\* A step that is neither a request's nor the job's.
LEMMA OthersKeepNapas ==
  ASSUME LaterInv, OnlyNapas, CopiesInv, NapasInv,
         \/ \E r \in Requests :
              \/ flow[r] \notin AnswerFlows /\ Begin(r)
              \/ BeginAnswer(r) \/ Return(r) \/ BankDecides(r)
         \/ Crash \/ Quiescent \/ UNCHANGED vars
  PROVE  CopiesInv' /\ NapasInv' /\ (PaidOrder => PaidOrder')
<1>1. ASSUME UNCHANGED <<doc, state>> PROVE PaidOrder => PaidOrder'
  BY <1>1 DEF PaidOrder, Charged
<1>2. ASSUME NEW r \in Requests, Begin(r)
      PROVE  CopiesInv' /\ NapasInv' /\ (PaidOrder => PaidOrder')
  <2>1. /\ CopiesInv' /\ phase[r] = "idle" /\ phase' = [phase EXCEPT ![r] = "run"]
        /\ UNCHANGED <<flow, pc, failedAt, trans, flag, doc, service, outside, around>>
    BY <1>2, NoUpdateNapas, BeginKeepsCopies
  <2>2. UNCHANGED <<flow, pc, failedAt, doc, state, job, bank>>
    BY <2>1 DEF service, outside, around
  <2>3. order' = order \/ \E d \in {doc, NIL} : order' = [order EXCEPT ![r] = d]
    BY <1>2 DEF Begin
  <2>4. flow[r] \notin Validated
    BY NapasRoles DEF Validated, OnlyNapas, NapasFlows, NapasOpenings
  <2>5. order' = [order EXCEPT ![r] = NIL]
    BY <1>2, <2>4 DEF Begin
  <2>6. \A q \in Requests : order'[q] = order[q] \/ order'[q] = NIL
    BY <2>5, CopiesAre DEF OnRequests
  <2>7. \A q \in Requests : phase'[q] = "run" => phase[q] = "run" \/ pc[q] = 1
    BY <2>1 DEF LaterInv, Shaped, Places
  <2>8. BankRefused' <=> BankRefused
    BY <2>2 DEF BankRefused, BankDecided, BankPaid, Opens
  <2>9. NapasInv'
    BY <2>2, <2>6, <2>7, <2>8, RestKeepsNapas
  <2>10. QED
    BY <1>1, <2>1, <2>2, <2>9
<1>3. ASSUME UNCHANGED <<flow, pc, failedAt, doc, state, order, bank>>,
             job' = job \/ job' = [at |-> "idle", read |-> NIL],
             \A q \in Requests : phase'[q] = "run" => phase[q] = "run"
      PROVE  NapasInv' /\ (PaidOrder => PaidOrder')
  <2>1. BankRefused' <=> BankRefused
    BY <1>3 DEF BankRefused, BankDecided, BankPaid, Opens
  <2>2. NapasInv'
    BY <1>3, <2>1, RestKeepsNapas
  <2>3. QED
    BY <1>1, <1>3, <2>2
<1>4. ASSUME NEW r \in Requests, Return(r)
      PROVE  CopiesInv' /\ NapasInv' /\ (PaidOrder => PaidOrder')
  <2>1. UNCHANGED <<flow, pc, failedAt, doc, state, order, bank, job>>
    BY <1>4 DEF Return, copies, service, outside, around
  <2>2. \A q \in Requests : phase'[q] = "run" => phase[q] = "run"
    BY <1>4 DEF Return, LaterInv, Shaped
  <2>3. QED
    BY <1>3, <1>4, <2>1, <2>2, ReturnKeepsCopies
<1>5. CASE Crash
  <2>1. UNCHANGED <<flow, pc, failedAt, doc, state, order, bank>>
        /\ job' = [at |-> "idle", read |-> NIL]
    BY <1>5 DEF Crash, copies, service, outside
  <2>2. \A q \in Requests : phase'[q] = "run" => phase[q] = "run"
    BY <1>5 DEF Crash
  <2>3. QED
    BY <1>3, <1>5, <2>1, <2>2, CrashKeepsCopies
<1>6. CASE Quiescent \/ UNCHANGED vars
  <2>1. UNCHANGED <<flow, phase, pc, failedAt, order, trans, flag, doc, state, provider, bank, job, timeUp>>
    BY <1>6 DEF Quiescent, vars, control, copies, service, outside, around
  <2>2. QED
    BY <1>3, <2>1, StillCopies
<1>7. ASSUME NEW o \in Requests, BankDecides(o)
      PROVE  CopiesInv' /\ NapasInv' /\ (PaidOrder => PaidOrder')
  <2>1. UNCHANGED <<flow, phase, pc, failedAt, order, trans, doc, state, provider, job, timeUp>>
    BY <1>7 DEF BankDecides, control, copies, service, around
  <2>2. /\ Opens(o) /\ bank[o] = "unknown"
        /\ \E did \in {"delivered", "refused"} : bank' = [bank EXCEPT ![o] = did]
        /\ bank \in [Requests -> Deeds]
    BY <1>7 DEF BankDecides, LaterInv, Shaped
  <2>3. \A q \in Requests : bank[q] # "idle" => bank'[q] # "idle"
    BY <2>2
  <2>4. ~ BankRefused
    <3>1. \A q \in Requests : Opens(q) => q = o
      BY <2>2, OneOpening, CopiesAre
    <3>2. QED
      BY <2>2, <3>1 DEF BankRefused, BankDecided
  <2>5. NapasInv'
    BY <2>1, <2>3, <2>4, RestKeepsNapas
  <2>6. QED
    BY <1>1, <2>1, <2>5, StillCopies
<1>8. QED
  BY <1>2, <1>4, <1>5, <1>6, <1>7 DEF BeginAnswer

\* Every step keeps what is known of an order with NAPAS, and the order paid for.
LEMMA NapasKeeps ==
  ASSUME LaterInv, OnlyNapas, CopiesInv, NapasInv, [SettleNext]_vars
  PROVE  CopiesInv' /\ NapasInv' /\ (PaidOrder /\ NothingOff => PaidOrder')
<1>1. ASSUME NEW r \in Requests,
             \/ flow[r] \notin AnswerFlows /\ Begin(r)
             \/ BeginAnswer(r) \/ Return(r) \/ BankDecides(r)
      PROVE  CopiesInv' /\ NapasInv' /\ (PaidOrder /\ NothingOff => PaidOrder')
  BY <1>1, OthersKeepNapas
<1>2. ASSUME NEW r \in Requests, Execute(r) \/ Settle(r) \/ Compensate(r)
      PROVE  CopiesInv' /\ NapasInv' /\ (PaidOrder /\ NothingOff => PaidOrder')
  <2>1. Acts(r) /\ ActsOnCopy(r) /\ CopiesInv'
    BY <1>2, NoUpdateNapas, WorkOnCopy, WorkKeepsCopies
  <2>2. ActsOnPaid(r)
    BY <1>2, WorkOnPaid
  <2>3. NapasInv'
    BY <2>1, <2>2, WorkKeepsNapas
  <2>4. PaidOrder /\ NothingOff => PaidOrder'
    BY <2>1, <2>2, WorkKeepsPaid
  <2>5. QED
    BY <2>1, <2>3, <2>4
<1>3. CASE Tick \/ NapasJob \/ OtherJob
  <2>1. JobOnPaid /\ CopiesInv'
    BY <1>3, JobDoesPaid, JobOnCopies
  <2>2. QED
    BY <2>1, JobKeepsNapas, JobKeepsPaid
<1>4. CASE Crash \/ Quiescent \/ UNCHANGED vars
  BY <1>4, OthersKeepNapas
<1>5. QED
  BY <1>1, <1>2, <1>3, <1>4 DEF SettleNext, Work

\* Every step keeps the invariant.
LEMMA PaidKeeps ==
  ASSUME NapasOnly
  PROVE  PaidInv /\ [SettleNext]_vars =>
           PaidInv' /\ (NapasOrder /\ PaidOrder /\ NothingOff => PaidOrder')
<1>1. SUFFICES ASSUME PaidInv, [SettleNext]_vars
               PROVE  PaidInv' /\ (NapasOrder /\ PaidOrder /\ NothingOff => PaidOrder')
  OBVIOUS
<1>2. LaterInv /\ LaterInv' /\ flow' = flow
  BY <1>1, SettleKeeps, FlowStays DEF PaidInv
<1>3. NapasOrder' => NapasOrder
  BY <1>2 DEF NapasOrder
<1>4. NapasOrder => OnlyNapas
  BY <1>2, CopiesAre DEF NapasOrder, NapasOnly, OnlyNapas
<1>5. NapasOrder => CopiesInv' /\ NapasInv' /\ (PaidOrder /\ NothingOff => PaidOrder')
  BY <1>1, <1>2, <1>4, NapasKeeps DEF PaidInv
<1>6. QED
  BY <1>2, <1>3, <1>5 DEF PaidInv

\* An order paid through NAPAS stays paid, whatever answers come late or twice,
\* whatever type and bank code it was opened with and whichever calls fail or lose
\* their reply, unless the job fails it without an answer of the bank (its question
\* failed, or type and code kept it from asking), an answer disagrees about the
\* amount, or the opening request had failed.
THEOREM UnpaidOnlyForAReason ==
  ASSUME NapasOnly
  PROVE  SettleSpec => UnpaidForAReason
<1>1. PaidInv /\ [SettleNext]_vars =>
        PaidInv' /\ (NapasOrder /\ PaidOrder /\ NothingOff => PaidOrder')
  BY PaidKeeps
<1>2. SettleSpec => [][NapasOrder /\ PaidOrder /\ NothingOff => PaidOrder']_vars
  BY <1>1, InitPaid, PTL DEF SettleSpec
<1>3. (NapasOrder /\ PaidOrder /\ NothingOff => PaidOrder') =>
        (NapasOrder /\ PaidOrder /\ ~ PaidOrder' =>
           \/ job.at = "unanswered" \/ (job.at = "fail" /\ ~ IsNapas)
           \/ \E r \in Requests : flag'[r] = "verifying" \/ (Opens(r) /\ failedAt[r] # 0))
  BY DEF NothingOff
<1>4. QED
  BY <1>2, <1>3, PTL DEF UnpaidForAReason
=============================================================================
