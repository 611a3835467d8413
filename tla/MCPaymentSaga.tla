--------------------------- MODULE MCPaymentSaga ---------------------------
(***************************************************************************)
(* The requests TLC lets meet on one order.                                *)
(***************************************************************************)
EXTENDS PaymentSaga, TLC

CONSTANTS r1, r2, r3

\* The flows some of the requests run; nobody makes the others.
Made(flows) == [r \in Requests |-> IF r \in DOMAIN flows THEN flows[r] ELSE "NoRequest"]

\* One request, of any wallet flow or of any flow that can come first.
MCWallet ==
  {Made(r1 :> f) : f \in FlowNames \ ({"CashIn", "VerifyOTP", "OrderCancel", "NoRequest"}
                                         \cup TokenFlows \cup LaterFlows)}
MCEvery == MCWallet \cup {Made(r1 :> f) : f \in {"CashIn", "OrderCancel"} \cup TokenInit}

\* The requests a client may send twice, or against each other, on an order
\* that is already placed.  Which of the two is r1 makes no difference.
MCPlaced ==
  LET names == <<"ConfirmOrder", "ConfirmOpenWallet", "OrderCancel", "InitPayByTokenPlaced">>
  IN {Made((r1 :> names[p[1]]) @@ (r2 :> names[p[2]])) : p \in {p \in (1 .. 4) \X (1 .. 4) : p[1] <= p[2]}}
MCConfirmTwice == {Made((r1 :> "ConfirmOrder") @@ (r2 :> "ConfirmOrder"))}
MCCancelConfirm == {Made((r1 :> "OrderCancel") @@ (r2 :> "ConfirmOrder"))}

\* A cash in or a token payment and two tries at its OTP.
MCOtp ==
  {Made((r1 :> "CashIn") @@ (r2 :> "VerifyOTP") @@ (r3 :> "VerifyOTP")),
   Made((r1 :> "InitPayByToken") @@ (r2 :> "TopUpOtp") @@ (r3 :> "TopUpOtp"))}

\* InitPayByToken and the request that pays with its order: the client's, with
\* the OTP, or the one that called it.
MCTokenNew ==
  {Made((r1 :> "InitPayByToken") @@ (r2 :> f)) :
     f \in (TokenOtp \cup TokenByPass) \ {"ConfirmOrderOtp", "ConfirmOrderByPass"}}
MCTokenPlaced ==
  {Made((r1 :> "InitPayByTokenPlaced") @@ (r2 :> f)) : f \in {"ConfirmOrderOtp", "ConfirmOrderByPass"}}

\* Nothing keeps a client from going on with a request of another kind.
MCTokenMixed ==
  {Made((r1 :> i) @@ (r2 :> f)) : i \in TokenInit, f \in TokenOtp}
MCToken == MCTokenNew \cup MCTokenPlaced \cup MCTokenMixed

MCRequests == MCWallet \cup MCOtp \cup MCToken \cup MCPlaced
MCExpiring == MCEvery \cup MCTokenNew \cup MCTokenPlaced

\* The client waits for the answer to one request before it sends the next.
OneAtATime == \A q, r \in Requests : Active(q) /\ Active(r) => q = r
OneByOne == Init /\ [][Next /\ OneAtATime']_vars
=============================================================================
