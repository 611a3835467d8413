---------------------------- MODULE RefundProofs ----------------------------
(***************************************************************************)
(* The safety properties of Refund, for any number of confirmations,       *)
(* cancellations, failures and crashes.                                    *)
(***************************************************************************)
EXTENDS Refund, FiniteSetTheorems, TLAPS

-----------------------------------------------------------------------------
(* The inductive invariant.                                                *)

Statuses == {"PENDING", "PROCESSING", "SUCCESS", "FAILED"}

\* The places of a call: before the refund is opened, before the order names it,
\* while paying, while the call has an order, and after the decision.
Before == {"idle", "initOrder", "findTrans", "refund"}
Early == Before \cup {"funds", "processing"}
Paying == {"bank", "confirm", "withdraw", "notify", "success", "fail"}
Holding == {"findTrans", "refund", "funds", "processing", "unfunded", "config"} \cup Paying
After == {"notify", "success", "fail"} \cup Over
Places == Holding \cup Over \cup {"idle", "initOrder", "cancel"}

TypeOK ==
  /\ asked \in Requests
  /\ way \in [Calls -> Ways \cup {NIL}]
  /\ at \in [Calls -> Places]
  /\ copy \in [Calls -> Orders \cup {NIL}]
  /\ doc \in Orders \cup {NIL}
  /\ refund \in {"NONE", "INITIAL", "CONFIRMED", "CANCELLED"}
  /\ by \in Calls \cup {NIL}
  /\ sent \in Nat
  /\ acted \subseteq Calls
  /\ mishap \in BOOLEAN
  /\ crashes \in 0 .. MaxCrashes

\* Who is where: a confirmation only pays, a cancellation only cancels.
Roles ==
  /\ at[Asker] # "cancel"
  /\ \A c \in Confirmers : at[c] \in Paying \cup Over \cup {"idle"}
  /\ \A c \in Cancellers : at[c] \in Over \cup {"idle", "cancel"}

\* Until InitRefundTrans has opened the refund nobody has done anything.
Recorded ==
  /\ at[Asker] \in Before => refund = "NONE"
  /\ refund = "NONE" =>
       /\ at[Asker] \in Before \cup {"fail"} \cup Over
       /\ \A c \in Confirmers \cup Cancellers : at[c] = "idle"
       /\ acted = {} /\ sent = 0

\* A call that works on an order has one, and the document exists.
HasOrder ==
  /\ \A c \in Calls : at[c] \in Holding => copy[c] \in Orders /\ doc \in Orders
  /\ refund # "NONE" => doc \in Orders

\* Who closes the order as refunded, or has closed it, has a confirmed refund.
Shown ==
  /\ \A c \in Calls : at[c] \in {"notify", "success"} => refund = "CONFIRMED"
  /\ doc \in Orders /\ doc.status = "SUCCESS" => refund = "CONFIRMED"

\* The call that confirmed is past its decision, and paid if it pays by the bank.
Decided == by # NIL => by \in Calls /\ at[by] \in After /\ (way[by] = "API" => sent > 0)

\* A call goes to the bank exactly if that is its way, and confirms after it.
PayWay ==
  /\ at[Asker] \in Early => way[Asker] = asked.type
  /\ \A c \in Calls : at[c] = "bank" => way[c] = "API"
  /\ \A c \in Calls : at[c] = "confirm" =>
       /\ way[c] = "API" <=> c \in acted
       /\ c \in acted => sent > 0

\* A call that acted does not go back to the bank.
OneAct == \A c \in acted : at[c] \in {"confirm", "withdraw"} \cup After

\* While InitRefundTrans prepares the order, it does not name the refund, and no
\* confirmation can have found it.
LinkedLate ==
  at[Asker] \in Early =>
    /\ refund # "CONFIRMED"
    /\ doc \in Orders => ~ doc.linked
    /\ \A c \in Confirmers : at[c] \in {"idle"} \cup Over

\* What order, record and bank say as long as x alone has acted and nothing failed.
Agree(x) ==
  /\ refund = "NONE" => doc = NIL \/ doc.status = "PENDING"
  /\ refund = "INITIAL" =>
       /\ doc.status \in {"PENDING", "PROCESSING"}
       /\ \/ sent = 0 /\ acted = {}
          \/ acted = {x} /\ at[x] = "confirm" /\ sent = 1
  /\ refund = "CONFIRMED" =>
       /\ acted = {x} /\ by = x
       /\ sent = IF way[x] = "API" THEN 1 ELSE 0
       /\ at[x] \in {"notify", "success"} \/ (at[x] = "done" /\ doc.status = "SUCCESS")
  /\ refund = "CANCELLED" => acted = {x} /\ sent = 0
  /\ \A c \in Calls : at[c] = "fail" => acted = {c} /\ refund = "CANCELLED"
  /\ \A c \in Calls : at[c] # "withdraw" /\ (at[c] \in {"notify", "success"} => by = c)

Agreement == ~ mishap => \A x \in Calls : acted \subseteq {x} => Agree(x)

IInv ==
  /\ TypeOK /\ Roles /\ Recorded /\ HasOrder /\ Shown /\ Decided
  /\ PayWay /\ OneAct /\ LinkedLate /\ Agreement

-----------------------------------------------------------------------------
(* The invariant is inductive: one lemma per action.                       *)

\* No call has arrived and there is no order (refund_transaction.go).
LEMMA InitIInv == Init => IInv
<1> SUFFICES ASSUME Init PROVE IInv
  OBVIOUS
<1> USE NilAssumption, CallsAssumption, CrashesAssumption
<1> USE DEF Init, Calls, Over, Places, Holding, Paying, After, Early, Before
<1>1. TypeOK
  <2>1. asked \in Requests /\ asked.type \in Ways
    BY DEF Requests
  <2>2. way \in [Calls -> Ways \cup {NIL}]
    BY <2>1
  <2>3. at \in [Calls -> Places] /\ copy \in [Calls -> Orders \cup {NIL}]
    OBVIOUS
  <2>4. crashes \in 0 .. MaxCrashes /\ sent \in Nat
    OBVIOUS
  <2>5. /\ doc \in Orders \cup {NIL} /\ by \in Calls \cup {NIL} /\ acted \subseteq Calls
        /\ refund \in {"NONE", "INITIAL", "CONFIRMED", "CANCELLED"} /\ mishap \in BOOLEAN
    BY Zenon DEF Init
  <2> QED BY <2>1, <2>2, <2>3, <2>4, <2>5, Zenon DEF TypeOK
<1>2. Roles /\ Recorded /\ HasOrder
  BY DEF Roles, Recorded, HasOrder
<1>3. Shown /\ Decided /\ PayWay /\ OneAct /\ LinkedLate
  BY DEF Shown, Decided, PayWay, OneAct, LinkedLate
<1>4. Agreement
  BY DEF Agreement, Agree
<1> QED BY <1>1, <1>2, <1>3, <1>4 DEF IInv

\* Writing the status of an order keeps the rest of it (service_order.go).
LEMMA StatusWritten ==
  ASSUME NEW o \in Orders, NEW s \in Statuses
  PROVE  /\ [o EXCEPT !.status = s] \in Orders
         /\ [o EXCEPT !.status = s].status = s
         /\ [o EXCEPT !.status = s].linked = o.linked
  BY DEF Orders, Statuses

\* InitRefundTrans starts (refund_transaction.go:21).
LEMMA BeginAskIInv ==
  ASSUME IInv, BeginAsk
  PROVE  IInv'
<1> USE NilAssumption, CallsAssumption, RefundOutcomesAssumption, CrashesAssumption
<1> USE DEF IInv, BeginAsk, Goes, Answers,
        Calls, Over, Places, Holding, Paying, After, Early, Before
<1>1. TypeOK'
  BY DEF TypeOK, Ways, Orders, Statuses, HasOrder, Roles
<1>2. Roles' /\ Recorded'
  BY DEF Roles, Recorded, TypeOK
<1>3. HasOrder' /\ Shown'
  BY DEF HasOrder, Shown, Orders, Statuses, TypeOK, Recorded, Roles
<1>4. Decided' /\ OneAct'
  BY DEF Decided, OneAct, TypeOK
<1>5. PayWay'
  BY DEF PayWay, OneAct, Requests, Ways, TypeOK, Recorded
<1>6. LinkedLate'
  BY DEF LinkedLate, TypeOK, Roles, Recorded, HasOrder, Orders
<1>7. Agreement'
  BY DEF Agreement, Agree, TypeOK, Roles, Recorded, HasOrder, Shown, Decided,
      PayWay, OneAct, LinkedLate, Orders, Statuses
<1> QED BY <1>1, <1>2, <1>3, <1>4, <1>5, <1>6, <1>7

\* A confirmation starts with the order as it is, or finds none
\* (refund_transaction.go:63).
LEMMA BeginConfirmIInv ==
  ASSUME IInv, NEW c \in Calls, BeginConfirm(c)
  PROVE  IInv'
<1> USE NilAssumption, CallsAssumption, RefundOutcomesAssumption, CrashesAssumption
<1> USE DEF IInv, BeginConfirm, Goes, Answers,
        Calls, Over, Places, Holding, Paying, After, Early, Before
<1>1. TypeOK'
  BY DEF TypeOK, Ways, Orders, Statuses, HasOrder, Roles
<1>2. Roles' /\ Recorded'
  BY DEF Roles, Recorded, TypeOK
<1>3. HasOrder' /\ Shown'
  BY DEF HasOrder, Shown, Orders, Statuses, TypeOK, Recorded, Roles
<1>4. Decided' /\ OneAct'
  BY DEF Decided, OneAct, TypeOK
<1>5. PayWay'
  BY DEF PayWay, OneAct, Requests, Ways, TypeOK, Recorded
<1>6. LinkedLate'
  BY DEF LinkedLate, TypeOK, Roles, Recorded, HasOrder, Orders
<1>7. Agreement'
  BY DEF Agreement, Agree, TypeOK, Roles, Recorded, HasOrder, Shown, Decided,
      PayWay, OneAct, LinkedLate, Orders, Statuses
<1> QED BY <1>1, <1>2, <1>3, <1>4, <1>5, <1>6, <1>7

\* A cancellation starts (refund_transaction.go:121).
LEMMA BeginCancelIInv ==
  ASSUME IInv, NEW c \in Calls, BeginCancel(c)
  PROVE  IInv'
<1> USE NilAssumption, CallsAssumption, RefundOutcomesAssumption, CrashesAssumption
<1> USE DEF IInv, BeginCancel, Goes, Answers,
        Calls, Over, Places, Holding, Paying, After, Early, Before
<1>1. TypeOK'
  BY DEF TypeOK, Ways, Orders, Statuses, HasOrder, Roles
<1>2. Roles' /\ Recorded'
  BY DEF Roles, Recorded, TypeOK
<1>3. HasOrder' /\ Shown'
  BY DEF HasOrder, Shown, Orders, Statuses, TypeOK, Recorded, Roles
<1>4. Decided' /\ OneAct'
  BY DEF Decided, OneAct, TypeOK
<1>5. PayWay'
  BY DEF PayWay, OneAct, Requests, Ways, TypeOK, Recorded
<1>6. LinkedLate'
  BY DEF LinkedLate, TypeOK, Roles, Recorded, HasOrder, Orders
<1>7. Agreement'
  BY DEF Agreement, Agree, TypeOK, Roles, Recorded, HasOrder, Shown, Decided,
      PayWay, OneAct, LinkedLate, Orders, Statuses
<1> QED BY <1>1, <1>2, <1>3, <1>4, <1>5, <1>6, <1>7

\* The order of the refund is made (refund_transaction.go:35).
LEMMA InitOrderIInv ==
  ASSUME IInv, NEW c \in Calls, InitOrder(c)
  PROVE  IInv'
<1> USE NilAssumption, CallsAssumption, RefundOutcomesAssumption, CrashesAssumption
<1> USE DEF IInv, InitOrder, Goes, Answers,
        Calls, Over, Places, Holding, Paying, After, Early, Before
<1>0. c = Asker
  BY DEF Roles
<1>1. TypeOK'
  BY <1>0 DEF TypeOK, Ways, Orders, Statuses, HasOrder, Roles
<1>2. Roles' /\ Recorded'
  BY <1>0 DEF Roles, Recorded, TypeOK
<1>3. HasOrder' /\ Shown'
  BY <1>0 DEF HasOrder, Shown, Orders, Statuses, TypeOK, Recorded, Roles
<1>4. Decided' /\ OneAct'
  BY <1>0 DEF Decided, OneAct, TypeOK
<1>5. PayWay'
  BY <1>0 DEF PayWay, OneAct, Requests, Ways, TypeOK, Recorded
<1>6. LinkedLate'
  BY <1>0 DEF LinkedLate, TypeOK, Roles, Recorded, HasOrder, Orders
<1>7. Agreement'
  BY <1>0 DEF Agreement, Agree, TypeOK, Roles, Recorded, HasOrder, Shown,
      Decided, PayWay, OneAct, LinkedLate, Orders, Statuses
<1> QED BY <1>1, <1>2, <1>3, <1>4, <1>5, <1>6, <1>7

\* The payment is looked up (refund_transaction.go:41).
LEMMA FindTransIInv ==
  ASSUME IInv, NEW c \in Calls, FindTrans(c)
  PROVE  IInv'
<1> USE NilAssumption, CallsAssumption, RefundOutcomesAssumption, CrashesAssumption
<1> USE DEF IInv, FindTrans, Goes, Answers,
        Calls, Over, Places, Holding, Paying, After, Early, Before
<1>0. c = Asker
  BY DEF Roles
<1>1. TypeOK'
  BY <1>0 DEF TypeOK, Ways, Orders, Statuses, HasOrder, Roles
<1>2. Roles' /\ Recorded'
  BY <1>0 DEF Roles, Recorded, TypeOK
<1>3. HasOrder' /\ Shown'
  BY <1>0 DEF HasOrder, Shown, Orders, Statuses, TypeOK, Recorded, Roles
<1>4. Decided' /\ OneAct'
  BY <1>0 DEF Decided, OneAct, TypeOK
<1>5. PayWay'
  BY <1>0 DEF PayWay, OneAct, Requests, Ways, TypeOK, Recorded
<1>6. LinkedLate'
  BY <1>0 DEF LinkedLate, TypeOK, Roles, Recorded, HasOrder, Orders
<1>7. Agreement'
  BY <1>0 DEF Agreement, Agree, TypeOK, Roles, Recorded, HasOrder, Shown,
      Decided, PayWay, OneAct, LinkedLate, Orders, Statuses
<1> QED BY <1>1, <1>2, <1>3, <1>4, <1>5, <1>6, <1>7

\* The service opens the refund (refund_transaction.go:150).
LEMMA RefundTransactionIInv ==
  ASSUME IInv, NEW c \in Calls, RefundTransaction(c)
  PROVE  IInv'
<1> USE NilAssumption, CallsAssumption, RefundOutcomesAssumption, CrashesAssumption
<1> USE DEF IInv, RefundTransaction, Goes, Answers,
        Calls, Over, Places, Holding, Paying, After, Early, Before
<1>0. c = Asker
  BY DEF Roles
<1>1. TypeOK'
  BY <1>0 DEF TypeOK, Ways, Orders, Statuses, HasOrder, Roles
<1>2. Roles' /\ Recorded'
  BY <1>0 DEF Roles, Recorded, TypeOK
<1>3. HasOrder' /\ Shown'
  BY <1>0 DEF HasOrder, Shown, Orders, Statuses, TypeOK, Recorded, Roles
<1>4. Decided' /\ OneAct'
  BY <1>0 DEF Decided, OneAct, TypeOK
<1>5. PayWay'
  BY <1>0 DEF PayWay, OneAct, Requests, Ways, TypeOK, Recorded
<1>6. LinkedLate'
  BY <1>0 DEF LinkedLate, TypeOK, Roles, Recorded, HasOrder, Orders
<1>7. Agreement'
  <2> SUFFICES ASSUME ~ mishap', NEW x \in Calls, acted' \subseteq {x} PROVE Agree(x)'
    BY DEF Agreement
  <2>1. ~ mishap /\ Agree(x)
    BY DEF Agreement, TypeOK
  <2>2. refund = "NONE" /\ refund' = "INITIAL" /\ acted = {} /\ sent = 0
    BY <1>0 DEF Recorded
  <2>3. doc \in Orders /\ doc.status = "PENDING"
    BY <2>1, <2>2 DEF HasOrder, Agree
  <2>4. \A d \in Calls : at'[d] \notin {"fail", "withdraw", "notify", "success"}
    BY <1>0, <2>2 DEF TypeOK, Recorded
  <2> QED BY <2>2, <2>3, <2>4 DEF Agree
<1> QED BY <1>1, <1>2, <1>3, <1>4, <1>5, <1>6, <1>7

\* The merchant's money is looked at (refund_transaction.go:186).
LEMMA CheckFundsIInv ==
  ASSUME IInv, NEW c \in Calls, CheckFunds(c)
  PROVE  IInv'
<1> USE NilAssumption, CallsAssumption, RefundOutcomesAssumption, CrashesAssumption
<1> USE DEF IInv, CheckFunds, Goes, Answers,
        Calls, Over, Places, Holding, Paying, After, Early, Before
<1>0. c = Asker
  BY DEF Roles
<1>a. ASSUME NEW o \in Orders
      PROVE  [o EXCEPT !.linked = TRUE] \in Orders
  BY DEF Orders
<1>b. /\ copy[c] \in Orders
      /\ \/ copy' = copy
         \/ copy' = [copy EXCEPT ![c] = [copy[c] EXCEPT !.linked = TRUE]]
  BY DEF HasOrder
<1>1. TypeOK'
  <2>1. copy' \in [Calls -> Orders \cup {NIL}]
    BY <1>a, <1>b DEF TypeOK
  <2>2. at' \in [Calls -> Places]
    BY DEF TypeOK
  <2>3. mishap' \in BOOLEAN
    BY DEF TypeOK
  <2> QED BY <2>1, <2>2, <2>3 DEF TypeOK
<1>2. Roles' /\ Recorded'
  BY <1>0, <1>a, <1>b DEF Roles, Recorded, TypeOK
<1>3. HasOrder' /\ Shown'
  BY <1>0, <1>a, <1>b DEF HasOrder, Shown, Orders, Statuses, TypeOK, Recorded,
      Roles
<1>4. Decided' /\ OneAct'
  BY <1>0, <1>a, <1>b DEF Decided, OneAct, TypeOK
<1>5. PayWay'
  BY <1>0, <1>a, <1>b DEF PayWay, OneAct, Requests, Ways, TypeOK, Recorded
<1>6. LinkedLate'
  BY <1>0, <1>a, <1>b DEF LinkedLate, TypeOK, Roles, Recorded, HasOrder, Orders
<1>7. Agreement'
  BY <1>0, <1>a, <1>b DEF Agreement, Agree, TypeOK, Roles, Recorded, HasOrder,
      Shown, Decided, PayWay, OneAct, LinkedLate, Orders, Statuses
<1> QED BY <1>1, <1>2, <1>3, <1>4, <1>5, <1>6, <1>7

\* The order names the refund and waits (refund_transaction.go:287).
LEMMA ProcessingOrderIInv ==
  ASSUME IInv, NEW c \in Calls, ProcessingOrder(c)
  PROVE  IInv'
<1> USE NilAssumption, CallsAssumption, RefundOutcomesAssumption, CrashesAssumption
<1> USE DEF IInv, ProcessingOrder, Goes, Answers,
        Calls, Over, Places, Holding, Paying, After, Early, Before
<1>0. c = Asker
  BY DEF Roles
<1>1. TypeOK'
  BY <1>0 DEF TypeOK, Ways, Orders, Statuses, HasOrder, Roles
<1>2. Roles' /\ Recorded'
  BY <1>0 DEF Roles, Recorded, TypeOK
<1>3. HasOrder' /\ Shown'
  BY <1>0 DEF HasOrder, Shown, Orders, Statuses, TypeOK, Recorded, Roles
<1>4. Decided' /\ OneAct'
  BY <1>0 DEF Decided, OneAct, TypeOK
<1>5. PayWay'
  BY <1>0 DEF PayWay, OneAct, Requests, Ways, TypeOK, Recorded
<1>6. LinkedLate'
  BY <1>0 DEF LinkedLate, TypeOK, Roles, Recorded, HasOrder, Orders
<1>7. Agreement'
  BY <1>0 DEF Agreement, Agree, TypeOK, Roles, Recorded, HasOrder, Shown,
      Decided, PayWay, OneAct, LinkedLate, Orders, Statuses
<1> QED BY <1>1, <1>2, <1>3, <1>4, <1>5, <1>6, <1>7

\* The merchant's setting chooses the way (refund_transaction.go:295).
LEMMA RefundConfigIInv ==
  ASSUME IInv, NEW c \in Calls, RefundConfig(c)
  PROVE  IInv'
<1> USE NilAssumption, CallsAssumption, RefundOutcomesAssumption, CrashesAssumption
<1> USE DEF IInv, RefundConfig, Goes, Answers,
        Calls, Over, Places, Holding, Paying, After, Early, Before
<1>0. c = Asker
  BY DEF Roles
<1>1. TypeOK'
  BY <1>0 DEF TypeOK, Ways, Orders, Statuses, HasOrder, Roles
<1>2. Roles' /\ Recorded'
  BY <1>0 DEF Roles, Recorded, TypeOK
<1>3. HasOrder' /\ Shown'
  BY <1>0 DEF HasOrder, Shown, Orders, Statuses, TypeOK, Recorded, Roles
<1>4. Decided' /\ OneAct'
  BY <1>0 DEF Decided, OneAct, TypeOK
<1>5. PayWay'
  BY <1>0 DEF PayWay, OneAct, Requests, Ways, TypeOK, Recorded
<1>6. LinkedLate'
  BY <1>0 DEF LinkedLate, TypeOK, Roles, Recorded, HasOrder, Orders
<1>7. Agreement'
  BY <1>0 DEF Agreement, Agree, TypeOK, Roles, Recorded, HasOrder, Shown,
      Decided, PayWay, OneAct, LinkedLate, Orders, Statuses
<1> QED BY <1>1, <1>2, <1>3, <1>4, <1>5, <1>6, <1>7

\* The bank is asked for the money (bank_gw.go ReFund).
LEMMA AskBankIInv ==
  ASSUME IInv, NEW c \in Calls, AskBank(c)
  PROVE  IInv'
<1> USE NilAssumption, CallsAssumption, RefundOutcomesAssumption, CrashesAssumption
<1> USE DEF IInv, AskBank, Goes, Answers,
        Calls, Over, Places, Holding, Paying, After, Early, Before
<1>1. TypeOK'
  BY DEF TypeOK, Ways, Orders, Statuses, HasOrder, Roles
<1>2. Roles' /\ Recorded'
  BY DEF Roles, Recorded, TypeOK
<1>3. HasOrder' /\ Shown'
  BY DEF HasOrder, Shown, Orders, Statuses, TypeOK, Recorded, Roles
<1>4. Decided' /\ OneAct'
  BY DEF Decided, OneAct, TypeOK
<1>5. PayWay'
  BY DEF PayWay, OneAct, Requests, Ways, TypeOK, Recorded
<1>6. LinkedLate'
  BY DEF LinkedLate, TypeOK, Roles, Recorded, HasOrder, Orders
<1>7. Agreement'
  <2> SUFFICES ASSUME ~ mishap', NEW x \in Calls, acted' \subseteq {x} PROVE Agree(x)'
    BY DEF Agreement
  <2>1. ~ mishap /\ Agree(x)
    BY DEF Agreement, TypeOK
  <2>2. c = x /\ acted' = {x} /\ c \notin acted /\ at[x] = "bank" /\ acted = {}
    BY DEF OneAct
  <2>3. refund = "INITIAL" /\ doc.status \in {"PENDING", "PROCESSING"} /\ sent = 0
    BY <2>1, <2>2 DEF TypeOK, Recorded, Roles, Agree
  <2>4. at' = [at EXCEPT ![x] = "confirm"] /\ sent' = 1
    <3> HIDE DEF IInv, Calls, Over, Places, Holding, Paying, After, Early, Before
    <3>1. PICK outcome \in Outcomes :
            /\ mishap' = (mishap \/ outcome # "ok")
            /\ sent' = IF outcome = "err" THEN sent ELSE sent + 1
            /\ at' = [at EXCEPT ![c] = IF outcome = "ok" THEN "confirm" ELSE "withdraw"]
      OBVIOUS
    <3>2. outcome = "ok"
      BY <3>1
    <3>3. sent' = sent + 1
      BY <3>1, <3>2
    <3>4. at' = [at EXCEPT ![x] = "confirm"]
      BY <2>2, <3>1, <3>2, Zenon
    <3>5. sent' = 1
      BY <2>3, <3>3
    <3> QED BY <3>4, <3>5, Zenon
  <2>5. \A d \in Calls : at'[d] \notin {"fail", "withdraw", "notify", "success"}
    BY <2>1, <2>3, <2>4 DEF TypeOK, Shown, Agree
  <2> QED BY <2>2, <2>3, <2>4, <2>5 DEF Agree, TypeOK
<1> QED BY <1>1, <1>2, <1>3, <1>4, <1>5, <1>6, <1>7

\* The refund is cancelled (refund_transaction.go:205).
LEMMA WithdrawIInv ==
  ASSUME IInv, NEW c \in Calls, Withdraw(c)
  PROVE  IInv'
<1> USE NilAssumption, CallsAssumption, RefundOutcomesAssumption, CrashesAssumption
<1> USE DEF IInv, Withdraw, Goes, Answers, Decides,
        Calls, Over, Places, Holding, Paying, After, Early, Before
<1>1. TypeOK'
  <2>1. at' \in [Calls -> Places]
    BY DEF TypeOK
  <2>2. mishap' \in BOOLEAN /\ refund' \in {"NONE", "INITIAL", "CONFIRMED", "CANCELLED"}
    BY DEF TypeOK
  <2>3. acted' \subseteq Calls
    BY DEF TypeOK
  <2> QED BY <2>1, <2>2, <2>3 DEF TypeOK
<1>2. Roles' /\ Recorded'
  BY DEF Roles, Recorded, TypeOK
<1>3. HasOrder' /\ Shown'
  BY DEF HasOrder, Shown, Orders, Statuses, TypeOK, Recorded, Roles
<1>4. Decided' /\ OneAct'
  BY DEF Decided, OneAct, TypeOK
<1>5. PayWay'
  BY DEF PayWay, OneAct, Requests, Ways, TypeOK, Recorded
<1>6. LinkedLate'
  BY DEF LinkedLate, TypeOK, Roles, Recorded, HasOrder, Orders
<1>7. Agreement'
  <2> SUFFICES ASSUME ~ mishap', NEW x \in Calls, acted' \subseteq {x} PROVE Agree(x)'
    BY DEF Agreement
  <2>1. ~ mishap /\ Agree(x)
    BY DEF Agreement, TypeOK
  <2>2. c = x /\ acted' = {x} /\ at[c] # "withdraw"
    BY <2>1 DEF Agree
  <2>3. acted = {} /\ c \notin acted
    BY <2>2 DEF OneAct
  <2>4. refund = "INITIAL" /\ doc.status \in {"PENDING", "PROCESSING"} /\ sent = 0
    BY <2>1, <2>2, <2>3 DEF TypeOK, Recorded, Roles, Agree
  <2>5. refund' = "CANCELLED" /\ sent' = 0 /\ by' = by
    BY <2>4
  <2>6. \A d \in Calls : at[d] \notin {"fail", "withdraw", "notify", "success"}
    BY <2>1, <2>4 DEF Shown, Agree
  <2>7. \A d \in Calls : at'[d] \notin {"withdraw", "notify", "success"}
    BY <2>6 DEF TypeOK
  <2>8. \A d \in Calls : at'[d] = "fail" => d = x
    BY <2>2, <2>6 DEF TypeOK
  <2> QED BY <2>2, <2>5, <2>7, <2>8 DEF Agree
<1> QED BY <1>1, <1>2, <1>3, <1>4, <1>5, <1>6, <1>7

\* The refund is confirmed (refund_transaction.go:253).
LEMMA ConfirmRefundIInv ==
  ASSUME IInv, NEW c \in Calls, ConfirmRefund(c)
  PROVE  IInv'
<1> USE NilAssumption, CallsAssumption, RefundOutcomesAssumption, CrashesAssumption
<1> USE DEF IInv, ConfirmRefund, Goes, Answers, Decides,
        Calls, Over, Places, Holding, Paying, After, Early, Before
<1>1. TypeOK'
  <2>1. at' \in [Calls -> Places]
    BY DEF TypeOK
  <2>2. mishap' \in BOOLEAN /\ refund' \in {"NONE", "INITIAL", "CONFIRMED", "CANCELLED"}
    BY DEF TypeOK
  <2>3. acted' \subseteq Calls /\ by' \in Calls \cup {NIL}
    BY DEF TypeOK
  <2> QED BY <2>1, <2>2, <2>3 DEF TypeOK
<1>2. Roles' /\ Recorded'
  BY DEF Roles, Recorded, TypeOK
<1>3. HasOrder' /\ Shown'
  BY DEF HasOrder, Shown, Orders, Statuses, TypeOK, Recorded, Roles
<1>4. Decided' /\ OneAct'
  <2>1. at' = [at EXCEPT ![c] = at'[c]] /\ at'[c] \in {"notify", "fail"}
    BY DEF TypeOK
  <2>2. c \in acted => sent > 0
    BY DEF PayWay
  <2>3. way[c] = "API" => sent > 0
    BY DEF PayWay
  <2>4. by' = by \/ by' = c
    OBVIOUS
  <2>5. Decided'
    BY <2>1, <2>3, <2>4 DEF Decided, TypeOK
  <2>6. OneAct'
    BY <2>1 DEF OneAct, TypeOK
  <2> QED BY <2>5, <2>6
<1>5. PayWay'
  BY DEF PayWay, OneAct, Requests, Ways, TypeOK, Recorded
<1>6. LinkedLate'
  BY DEF LinkedLate, TypeOK, Roles, Recorded, HasOrder, Orders
<1>7. Agreement'
  <2> SUFFICES ASSUME ~ mishap', NEW x \in Calls, acted' \subseteq {x} PROVE Agree(x)'
    BY DEF Agreement
  <2>1. ~ mishap /\ Agree(x)
    BY DEF Agreement, TypeOK
  <2>2. c = x /\ acted' = {x} /\ at[x] = "confirm"
    OBVIOUS
  <2>3. way[x] = "API" <=> x \in acted
    BY <2>2 DEF PayWay
  <2>4. x \in acted => sent > 0
    BY <2>2 DEF PayWay
  <2>5. refund = "INITIAL"
    <3>1. refund # "NONE"
      BY <2>2 DEF Recorded
    <3>2. refund # "CONFIRMED"
      BY <2>1, <2>2 DEF Agree
    <3>3. refund # "CANCELLED"
      BY <2>1, <2>4 DEF Agree
    <3> QED BY <3>1, <3>2, <3>3 DEF TypeOK
  <2>6. /\ refund' = "CONFIRMED" /\ by' = x /\ at' = [at EXCEPT ![x] = "notify"]
        /\ sent' = sent /\ way' = way
    BY <2>2, <2>5
  <2>7. sent = IF way[x] = "API" THEN 1 ELSE 0
    BY <2>1, <2>3, <2>5 DEF Agree
  <2>8. \A d \in Calls : at[d] \notin {"fail", "withdraw", "notify", "success"}
    BY <2>1, <2>5 DEF Shown, Agree
  <2>9. \A d \in Calls :
          /\ at'[d] \notin {"fail", "withdraw"}
          /\ at'[d] \in {"notify", "success"} => d = x
    BY <2>6, <2>8 DEF TypeOK
  <2>10. at'[x] = "notify"
    BY <2>6 DEF TypeOK
  <2> QED BY <2>2, <2>6, <2>7, <2>9, <2>10 DEF Agree
<1> QED BY <1>1, <1>2, <1>3, <1>4, <1>5, <1>6, <1>7

\* The user is told (refund_transaction.go:431).
LEMMA NotifyIInv ==
  ASSUME IInv, NEW c \in Calls, Notify(c)
  PROVE  IInv'
<1> USE NilAssumption, CallsAssumption, RefundOutcomesAssumption, CrashesAssumption
<1> USE DEF IInv, Notify, Goes, Answers,
        Calls, Over, Places, Holding, Paying, After, Early, Before
<1>1. TypeOK'
  BY DEF TypeOK, Ways, Orders, Statuses, HasOrder, Roles
<1>2. Roles' /\ Recorded'
  BY DEF Roles, Recorded, TypeOK
<1>3. HasOrder' /\ Shown'
  BY DEF HasOrder, Shown, Orders, Statuses, TypeOK, Recorded, Roles
<1>4. Decided' /\ OneAct'
  BY DEF Decided, OneAct, TypeOK
<1>5. PayWay'
  BY DEF PayWay, OneAct, Requests, Ways, TypeOK, Recorded
<1>6. LinkedLate'
  BY DEF LinkedLate, TypeOK, Roles, Recorded, HasOrder, Orders
<1>7. Agreement'
  <2> SUFFICES ASSUME ~ mishap', NEW x \in Calls, acted' \subseteq {x} PROVE Agree(x)'
    BY DEF Agreement
  <2>1. ~ mishap /\ Agree(x)
    BY DEF Agreement, TypeOK
  <2>2. at[c] = "notify" /\ at' = [at EXCEPT ![c] = "success"]
    OBVIOUS
  <2>3. refund = "CONFIRMED" /\ by = c
    BY <2>1, <2>2 DEF Shown, Agree
  <2>4. acted = {x} /\ by = x /\ sent = IF way[x] = "API" THEN 1 ELSE 0
    BY <2>1, <2>3 DEF Agree
  <2>5. at'[x] = "success"
    BY <2>2, <2>3, <2>4 DEF TypeOK
  <2>6. \A d \in Calls :
          /\ at'[d] \notin {"fail", "withdraw"}
          /\ at'[d] \in {"notify", "success"} => by = d
    BY <2>1, <2>2, <2>3 DEF TypeOK, Agree
  <2>7. refund' = refund /\ acted' = acted /\ by' = by /\ sent' = sent /\ way' = way
    OBVIOUS
  <2> HIDE DEF IInv, Notify, Calls, Over, Places, Holding, Paying, After, Early, Before
  <2> QED BY <2>3, <2>4, <2>5, <2>6, <2>7, Zenon DEF Agree
<1> QED BY <1>1, <1>2, <1>3, <1>4, <1>5, <1>6, <1>7

\* The order is closed (service_order.go SuccessOrder, FailedOrder).
LEMMA CloseOrderIInv ==
  ASSUME IInv, NEW c \in Calls, CloseOrder(c)
  PROVE  IInv'
<1> USE NilAssumption, CallsAssumption, RefundOutcomesAssumption, CrashesAssumption
<1> USE DEF IInv, CloseOrder, Goes, Answers, Closes,
        Calls, Over, Places, Holding, Paying, After, Early, Before
<1>a. copy[c] \in Orders /\ doc \in Orders
  BY DEF HasOrder
<1>b. \/ /\ at[c] = "success" /\ at' = [at EXCEPT ![c] = "done"]
         /\ doc' = doc \/ doc' = [status |-> "SUCCESS", linked |-> TRUE]
      \/ /\ at[c] = "fail" /\ at' = [at EXCEPT ![c] = "failed"]
         /\ doc' = doc \/ doc' = [copy[c] EXCEPT !.status = "FAILED"]
  OBVIOUS
<1>c. /\ doc' \in Orders
      /\ (doc' # doc => doc'.status = IF at[c] = "success" THEN "SUCCESS" ELSE "FAILED")
  <2>1. [status |-> "SUCCESS", linked |-> TRUE] \in Orders
    BY DEF Orders
  <2>2. /\ [copy[c] EXCEPT !.status = "FAILED"] \in Orders
        /\ [copy[c] EXCEPT !.status = "FAILED"].status = "FAILED"
    <3>1. "FAILED" \in Statuses
      BY DEF Statuses
    <3> QED BY <1>a, <3>1, StatusWritten, Zenon
  <2>3. CASE at[c] = "success"
    <3>1. doc' = doc \/ doc' = [status |-> "SUCCESS", linked |-> TRUE]
      BY <1>b, <2>3
    <3>2. [status |-> "SUCCESS", linked |-> TRUE].status = "SUCCESS"
      OBVIOUS
    <3> QED BY <1>a, <2>1, <2>3, <3>1, <3>2, Zenon
  <2>4. CASE at[c] = "fail"
    BY <1>a, <1>b, <2>2, <2>4
  <2> QED BY <1>b, <2>3, <2>4
<1>1. TypeOK'
  <2>1. at' \in [Calls -> Places]
    BY <1>b DEF TypeOK
  <2>2. mishap' \in BOOLEAN
    BY DEF TypeOK
  <2> QED BY <1>c, <2>1, <2>2 DEF TypeOK
<1>2. Roles' /\ Recorded'
  BY <1>a, <1>b, <1>c DEF Roles, Recorded, TypeOK
<1>3. HasOrder' /\ Shown'
  BY <1>a, <1>b, <1>c DEF HasOrder, Shown, Orders, Statuses, TypeOK, Recorded,
      Roles
<1>4. Decided' /\ OneAct'
  BY <1>a, <1>b, <1>c DEF Decided, OneAct, TypeOK
<1>5. PayWay'
  BY <1>a, <1>b, <1>c DEF PayWay, OneAct, Requests, Ways, TypeOK, Recorded
<1>6. LinkedLate'
  BY <1>a, <1>b, <1>c DEF LinkedLate, TypeOK, Roles, Recorded, HasOrder, Orders
<1>7. Agreement'
  <2> SUFFICES ASSUME ~ mishap', NEW x \in Calls, acted' \subseteq {x} PROVE Agree(x)'
    BY DEF Agreement
  <2>1. ~ mishap /\ Agree(x)
    BY DEF Agreement, TypeOK
  <2>2. \A d \in Calls : at'[d] \notin Over => at'[d] = at[d] /\ d # c
    BY <1>b DEF TypeOK
  <2>3. \A d \in Calls :
          /\ at'[d] # "withdraw"
          /\ at'[d] = "fail" => acted = {d} /\ refund = "CANCELLED"
          /\ at'[d] \in {"notify", "success"} => by = d
    BY <2>1, <2>2 DEF Agree
  <2>6. refund' = refund /\ acted' = acted /\ by' = by /\ sent' = sent /\ way' = way
    OBVIOUS
  <2>4. CASE at[c] = "success"
    <3>1. refund = "CONFIRMED" /\ c = x
      BY <2>1, <2>4 DEF Shown, Agree
    <3>2. at'[x] = "done"
      BY <2>4, <3>1 DEF TypeOK
    <3>3. doc'.status = "SUCCESS"
      <4>1. PICK outcome \in Outcomes :
              /\ mishap' = (mishap \/ outcome # "ok")
              /\ doc' = IF outcome = "err" THEN doc ELSE [status |-> "SUCCESS", linked |-> TRUE]
        BY <2>4
      <4> QED BY <4>1
    <3>4. acted = {x} /\ by = x /\ sent = IF way[x] = "API" THEN 1 ELSE 0
      BY <2>1, <3>1, Zenon DEF Agree
    <3> QED BY <2>3, <2>6, <3>1, <3>2, <3>3, <3>4, Zenon DEF Agree
  <2>5. CASE at[c] = "fail"
    <3>1. refund = "CANCELLED"
      BY <2>1, <2>5 DEF Agree
    <3>2. acted = {x} /\ sent = 0
      BY <2>1, <3>1, Zenon DEF Agree
    <3> QED BY <2>3, <2>6, <3>1, <3>2, Zenon DEF Agree
  <2> QED BY <1>b, <2>4, <2>5
<1> QED BY <1>1, <1>2, <1>3, <1>4, <1>5, <1>6, <1>7

\* The process crashes between two remote calls.
LEMMA CrashIInv ==
  ASSUME IInv, Crash
  PROVE  IInv'
<1> USE NilAssumption, CallsAssumption, RefundOutcomesAssumption, CrashesAssumption
<1> USE DEF IInv, Crash, Goes, Answers,
        Calls, Over, Places, Holding, Paying, After, Early, Before
<1>1. TypeOK'
  BY DEF TypeOK, Ways, Orders, Statuses, HasOrder, Roles
<1>2. Roles' /\ Recorded'
  BY DEF Roles, Recorded, TypeOK
<1>3. HasOrder' /\ Shown'
  BY DEF HasOrder, Shown, Orders, Statuses, TypeOK, Recorded, Roles
<1>4. Decided' /\ OneAct'
  BY DEF Decided, OneAct, TypeOK
<1>5. PayWay'
  BY DEF PayWay, OneAct, Requests, Ways, TypeOK, Recorded
<1>6. LinkedLate'
  BY DEF LinkedLate, TypeOK, Roles, Recorded, HasOrder, Orders
<1>7. Agreement'
  BY DEF Agreement, Agree, TypeOK, Roles, Recorded, HasOrder, Shown, Decided,
      PayWay, OneAct, LinkedLate, Orders, Statuses
<1> QED BY <1>1, <1>2, <1>3, <1>4, <1>5, <1>6, <1>7

\* A step that changes nothing keeps the invariant.
LEMMA StutterIInv == IInv /\ UNCHANGED vars => IInv'
<1> SUFFICES ASSUME IInv, UNCHANGED vars PROVE IInv'
  OBVIOUS
<1> USE DEF vars
<1>1. (TypeOK /\ Roles /\ Recorded /\ HasOrder /\ Shown)'
  BY DEF IInv, TypeOK, Roles, Recorded, HasOrder, Shown
<1>2. (Decided /\ PayWay /\ OneAct /\ LinkedLate)'
  BY DEF IInv, Decided, PayWay, OneAct, LinkedLate
<1>3. Agreement'
  BY DEF IInv, Agreement, Agree
<1> QED BY <1>1, <1>2, <1>3 DEF IInv

\* Every step of a call, of the service, of the bank, and a crash keep the
\* invariant (refund_transaction.go).
LEMMA NextIInv == IInv /\ [Next]_vars => IInv'
  BY BeginAskIInv, BeginConfirmIInv, BeginCancelIInv, InitOrderIInv, FindTransIInv,
     RefundTransactionIInv, CheckFundsIInv, ProcessingOrderIInv, RefundConfigIInv,
     AskBankIInv, WithdrawIInv, ConfirmRefundIInv, NotifyIInv, CloseOrderIInv,
     CrashIInv, StutterIInv DEF Next, Work

-----------------------------------------------------------------------------
(* The properties.                                                         *)

\* Every reachable state of a refund satisfies the invariant.
THEOREM RefundInvariant == Spec => []IInv
  BY InitIInv, NextIInv, PTL DEF Spec

\* For any number of confirmations and cancellations: the order is shown as
\* refunded only if the service holds the refund as confirmed
\* (refund_transaction.go ConfirmRefundTrans).
THEOREM ShownIsConfirmed == Spec => []SuccessIsConfirmed
<1>1. IInv => SuccessIsConfirmed
  BY DEF IInv, Shown, TypeOK, SuccessIsConfirmed
<1> QED BY <1>1, RefundInvariant, PTL

\* For any number of confirmations and cancellations: a refund confirmed as paid
\* by the bank was sent by it (refund_transaction.go ConfirmRefundTrans).
THEOREM ConfirmedWasSent == Spec => []ConfirmedIsSent
<1>1. IInv => ConfirmedIsSent
  BY DEF IInv, Decided, ConfirmedIsSent
<1> QED BY <1>1, RefundInvariant, PTL

\* At most one call acted.
LEMMA OneActor ==
  ASSUME acted \subseteq Calls, Cardinality(acted) <= 1
  PROVE  \E x \in Calls : acted \subseteq {x}
<1>1. IsFiniteSet(acted)
  BY CallsAssumption, FS_Subset
<1>2. Cardinality(acted) \in Nat
  BY <1>1, FS_CardinalityType
<1>3. CASE Cardinality(acted) = 0
  <2>1. acted = {}
    BY <1>1, <1>3, FS_EmptySet
  <2> QED BY <2>1 DEF Calls
<1>4. CASE Cardinality(acted) = 1
  <2>1. \E x : acted = {x}
    BY <1>1, <1>4, FS_Singleton
  <2> QED BY <2>1
<1> QED BY <1>2, <1>3, <1>4

\* For any number of calls: when nothing failed, one call at most decided on the
\* refund and all are over, the order, the record in the service and the bank say
\* the same (refund_transaction.go, the three ways of paying back).
THEOREM RefundRecordsAgree == Spec => []RecordsAgree
<1>1. IInv => RecordsAgree
  <2> SUFFICES ASSUME IInv, Quiet, ~ mishap, Cardinality(acted) <= 1
               PROVE  CASE refund = "NONE" ->
                             sent = 0 /\ (doc = NIL \/ doc.status = "PENDING")
                        [] refund = "INITIAL" ->
                             sent = 0 /\ doc.status \in {"PENDING", "PROCESSING"}
                        [] refund = "CONFIRMED" ->
                             doc.status = "SUCCESS" /\ sent = IF way[by] = "API" THEN 1 ELSE 0
                        [] refund = "CANCELLED" -> sent = 0 /\ doc.status # "SUCCESS"
    BY DEF RecordsAgree
  <2>1. PICK x \in Calls : acted \subseteq {x}
    BY OneActor DEF IInv, TypeOK
  <2>2. Agree(x)
    BY <2>1 DEF IInv, Agreement
  <2>3. at[x] \notin {"confirm", "notify", "success"}
    BY DEF Quiet, Over
  <2>4. CASE refund = "NONE"
    BY <2>2, <2>4 DEF Agree, IInv, Recorded
  <2>5. CASE refund = "INITIAL"
    BY <2>2, <2>3, <2>5 DEF Agree
  <2>6. CASE refund = "CONFIRMED"
    BY <2>2, <2>3, <2>6 DEF Agree
  <2>7. CASE refund = "CANCELLED"
    BY <2>2, <2>7 DEF Agree, IInv, HasOrder, Shown
  <2> QED BY <2>4, <2>5, <2>6, <2>7 DEF IInv, TypeOK
<1> QED BY <1>1, RefundInvariant, PTL
=============================================================================
