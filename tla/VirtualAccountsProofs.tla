----------------------- MODULE VirtualAccountsProofs -----------------------
(***************************************************************************)
(* What holds of a virtual account, and of the queue its requests come     *)
(* through, for every number of requests, payments and faults.             *)
(*                                                                         *)
(* BrokerInv ties the two views of a delivery together: what a consumer    *)
(* that is up has buffered, or works on, is unacknowledged on its channel, *)
(* and a consumer that is cut or gone holds nothing there.  On top of it   *)
(* the invariant of the account says where the one create is, which is     *)
(* what ties the row, the bank and the balance together, and that every    *)
(* credit is paid for by a delivery that no consumer has still to work on. *)
(***************************************************************************)
EXTENDS VirtualAccounts, FiniteSetTheorems, TLAPS

-----------------------------------------------------------------------------
(* The broker: what the topic promises, for every set of messages and      *)
(* consumers and every number of faults.                                   *)

UpHoldsItsWork ==
  \A c \in Consumers :
    /\ consumer[c] = "up" => buffer[c] \subseteq unacked[c]
    /\ consumer[c] = "up" /\ current[c] # NIL => current[c] \in unacked[c]
    /\ consumer[c] # "up" => unacked[c] = {}
    /\ consumer[c] = "none" => current[c] = NIL /\ buffer[c] = {}
    /\ current[c] \notin buffer[c]

DeliveryCount ==
  \A m \in Messages :
    /\ m \in ready => delivered[m] <= faults
    /\ m \notin Queued => delivered[m] = 0
    /\ delivered[m] <= 1 + faults

BrokerInv == BrokerTypeOK /\ DeliveredToOne /\ UpHoldsItsWork /\ AckedWasHandled /\ DeliveryCount

USE DEF Fault, Requeue, Gone

LEMMA InitBrokerInv == BrokerInit => BrokerInv
BY BrokerAssumption
   DEF BrokerInit, BrokerInv, BrokerTypeOK, DeliveredToOne, UpHoldsItsWork, AckedWasHandled,
       DeliveryCount

-----------------------------------------------------------------------------
(* A lemma per action.                                                     *)

LEMMA PublishKeeps ==
  ASSUME BrokerInv, NEW m \in Messages, Publish(m) PROVE BrokerInv'
<1>0. m \notin acked /\ \A c \in Consumers : m \notin unacked[c]
  <2>1. acked \subseteq Queued /\ \A c \in Consumers : unacked[c] \subseteq Queued
    BY DEF Queued
  <2>2. m \notin Queued
    BY DEF Publish
  <2>3. QED
    BY <2>1, <2>2
<1>1. BrokerTypeOK' /\ DeliveredToOne'
  BY <1>0 DEF Publish, BrokerInv, BrokerTypeOK, DeliveredToOne
<1>2. UpHoldsItsWork' /\ AckedWasHandled'
  BY DEF Publish, BrokerInv, UpHoldsItsWork, AckedWasHandled
<1>3. DeliveryCount'
  BY DEF Publish, Queued, BrokerInv, BrokerTypeOK, DeliveryCount
<1>4. QED
  BY <1>1, <1>2, <1>3 DEF BrokerInv

LEMMA RegisterKeeps ==
  ASSUME BrokerInv, NEW c \in Consumers, WithConsumerTopic(c) PROVE BrokerInv'
BY DEF WithConsumerTopic, BrokerInv, BrokerTypeOK, DeliveredToOne, UpHoldsItsWork, AckedWasHandled,
   DeliveryCount, Queued

LEMMA DeliverKeeps ==
  ASSUME BrokerInv, NEW c \in Consumers, NEW m \in Messages, Deliver(c, m) PROVE BrokerInv'
<1>1. BrokerTypeOK'
  BY DEF Deliver, BrokerInv, BrokerTypeOK
<1>2. DeliveredToOne'
  BY DEF Deliver, BrokerInv, BrokerTypeOK, DeliveredToOne
<1>3. UpHoldsItsWork' /\ AckedWasHandled'
  <2>1. current[c] # m
    BY BrokerAssumption DEF Deliver, BrokerInv, DeliveredToOne, UpHoldsItsWork
  <2>2. QED
    BY <2>1 DEF Deliver, BrokerInv, BrokerTypeOK, UpHoldsItsWork, AckedWasHandled
<1>4. Queued' = Queued
  <2>1. \A n : n \in (UNION {unacked'[d] : d \in Consumers}) <=>
               n = m \/ n \in (UNION {unacked[d] : d \in Consumers})
    BY DEF Deliver, BrokerInv, BrokerTypeOK
  <2>2. QED
    BY <2>1 DEF Deliver, Queued
<1>5. DeliveryCount'
  BY <1>4 DEF Deliver, BrokerInv, BrokerTypeOK, DeliveryCount, Queued
<1>6. QED
  BY <1>1, <1>2, <1>3, <1>5 DEF BrokerInv

LEMMA TakeKeeps ==
  ASSUME BrokerInv, NEW c \in Consumers, NEW m \in Messages, Take(c, m) PROVE BrokerInv'
BY DEF Take, BrokerInv, BrokerTypeOK, DeliveredToOne, UpHoldsItsWork, AckedWasHandled,
   DeliveryCount, Queued

LEMMA ReturnDropsNothing ==
  ASSUME BrokerTypeOK, NEW c \in Consumers, Return(c) PROVE Queued \subseteq Queued'
<1> SUFFICES ASSUME NEW n \in Queued PROVE n \in Queued'
  OBVIOUS
<1>1. CASE n \in ready \cup acked
  BY <1>1 DEF Return, Queued
<1>2. ASSUME NEW d \in Consumers, n \in unacked[d] PROVE n \in Queued'
  <2>1. n \in unacked'[d] \/ n \in acked'
    BY <1>2 DEF Return, BrokerTypeOK
  <2>2. unacked'[d] \subseteq Queued' /\ acked' \subseteq Queued'
    BY DEF Queued
  <2>3. QED
    BY <2>1, <2>2
<1>3. QED
  BY <1>1, <1>2 DEF Queued

LEMMA ReturnKeeps ==
  ASSUME BrokerInv, NEW c \in Consumers, Return(c) PROVE BrokerInv'
<1>1. current[c] \in Messages
  BY DEF Return, BrokerInv, BrokerTypeOK
<1>2. BrokerTypeOK'
  BY <1>1 DEF Return, BrokerInv, BrokerTypeOK
<1>3. DeliveredToOne'
  BY <1>1 DEF Return, BrokerInv, BrokerTypeOK, DeliveredToOne
<1>4. UpHoldsItsWork'
  BY <1>1, BrokerAssumption DEF Return, BrokerInv, BrokerTypeOK, UpHoldsItsWork
<1>5. AckedWasHandled'
  BY <1>1 DEF Return, BrokerInv, BrokerTypeOK, AckedWasHandled
<1>6. Queued \subseteq Queued'
  BY ReturnDropsNothing DEF BrokerInv
<1>7. DeliveryCount'
  BY <1>6 DEF Return, BrokerInv, BrokerTypeOK, DeliveryCount
<1>8. QED
  BY <1>2, <1>3, <1>4, <1>5, <1>7 DEF BrokerInv

\* Requeueing what a set of consumers holds, at the price of a fault.
LEMMA RequeueKeeps ==
  ASSUME BrokerInv, NEW cs \in SUBSET Consumers, Fault, Requeue(cs),
         UNCHANGED <<acked, returns, delivered>>
  PROVE  /\ ready' \in SUBSET Messages /\ unacked' \in [Consumers -> SUBSET Messages]
         /\ faults' \in 0 .. MaxFaults
         /\ DeliveredToOne' /\ AckedWasHandled' /\ DeliveryCount' /\ Queued' = Queued
<1>1. /\ ready' \in SUBSET Messages /\ unacked' \in [Consumers -> SUBSET Messages]
      /\ faults' \in 0 .. MaxFaults
  BY BrokerAssumption DEF BrokerInv, BrokerTypeOK
<1>2. DeliveredToOne' /\ AckedWasHandled'
  BY DEF BrokerInv, BrokerTypeOK, DeliveredToOne, AckedWasHandled
<1>3. Queued' = Queued
  <2>1. \A n : n \in ready' \cup (UNION {unacked'[d] : d \in Consumers}) <=>
               n \in ready \cup (UNION {unacked[d] : d \in Consumers})
    BY DEF BrokerInv, BrokerTypeOK
  <2>2. QED
    BY <2>1 DEF Queued
<1>4. DeliveryCount'
  <2>1. ASSUME NEW m \in Messages, m \in ready' PROVE delivered[m] <= faults'
    BY <2>1 DEF BrokerInv, BrokerTypeOK, DeliveryCount
  <2>2. QED
    BY <1>3, <2>1 DEF BrokerInv, BrokerTypeOK, DeliveryCount
<1>5. QED
  BY <1>1, <1>2, <1>3, <1>4

LEMMA GoneKeeps ==
  ASSUME BrokerInv, NEW cs \in SUBSET Consumers, Fault, Requeue(cs), Gone(cs),
         UNCHANGED <<acked, returns, delivered>>
  PROVE  BrokerInv'
<1>1. BrokerTypeOK'
  BY RequeueKeeps DEF BrokerInv, BrokerTypeOK
<1>2. UpHoldsItsWork'
  BY DEF BrokerInv, BrokerTypeOK, UpHoldsItsWork
<1>3. QED
  BY <1>1, <1>2, RequeueKeeps DEF BrokerInv

LEMMA CutKeeps ==
  ASSUME BrokerInv, NEW c \in Consumers, Cut(c) PROVE BrokerInv'
<1>0. /\ ready' \in SUBSET Messages /\ unacked' \in [Consumers -> SUBSET Messages]
      /\ faults' \in 0 .. MaxFaults
      /\ DeliveredToOne' /\ AckedWasHandled' /\ DeliveryCount'
  <2>1. {c} \in SUBSET Consumers /\ Fault /\ Requeue({c}) /\ UNCHANGED <<acked, returns, delivered>>
    BY DEF Cut
  <2>2. QED
    BY ONLY BrokerInv, <2>1, RequeueKeeps
<1>1. BrokerTypeOK'
  BY <1>0 DEF Cut, BrokerInv, BrokerTypeOK
<1>2. UpHoldsItsWork'
  BY DEF Cut, BrokerInv, BrokerTypeOK, UpHoldsItsWork
<1>3. QED
  BY <1>0, <1>1, <1>2 DEF BrokerInv

LEMMA RangeEndsKeeps ==
  ASSUME BrokerInv, NEW c \in Consumers, RangeEnds(c) PROVE BrokerInv'
BY DEF RangeEnds, BrokerInv, BrokerTypeOK, DeliveredToOne, UpHoldsItsWork, AckedWasHandled,
   DeliveryCount, Queued

LEMMA NextKeepsBrokerInv == BrokerInv /\ [BrokerNext]_brokerVars => BrokerInv'
<1> SUFFICES ASSUME BrokerInv, [BrokerNext]_brokerVars PROVE BrokerInv'
  OBVIOUS
<1>1. CASE Around
  <2>1. CASE Crash
    BY <2>1, GoneKeeps DEF Crash
  <2>2. QED
    BY <1>1, <2>1, PublishKeeps, RegisterKeeps, CutKeeps, RangeEndsKeeps, DeliverKeeps DEF Around
<1>2. ASSUME NEW c \in Consumers, Panic(c) PROVE BrokerInv'
  <2>1. {c} \in SUBSET Consumers
    BY <1>2
  <2>2. QED
    BY <1>2, <2>1, GoneKeeps DEF Panic
<1>3. CASE UNCHANGED brokerVars
  BY <1>3 DEF brokerVars, BrokerInv, BrokerTypeOK, DeliveredToOne, UpHoldsItsWork, AckedWasHandled,
     DeliveryCount, Queued
<1>4. QED
  BY <1>1, <1>2, <1>3, TakeKeeps, ReturnKeeps DEF BrokerNext

LEMMA BrokerInvOverlap == BrokerInv => OverlapNeedsCut
BY DEF BrokerInv, BrokerTypeOK, DeliveredToOne, UpHoldsItsWork, OverlapNeedsCut

\* The broker never has a message out with two consumers.
THEOREM BrokerDeliversToOne == BrokerSpec => []DeliveredToOne
BY InitBrokerInv, NextKeepsBrokerInv, PTL DEF BrokerSpec, BrokerInv

\* Two calls of fn with the same message overlap only after a lost connection.
THEOREM OverlapOnlyAfterCut == BrokerSpec => []OverlapNeedsCut
BY InitBrokerInv, NextKeepsBrokerInv, BrokerInvOverlap, PTL DEF BrokerSpec

\* Nothing is acknowledged before fn has returned for it.
THEOREM AckedAfterHandling == BrokerSpec => []AckedWasHandled
BY InitBrokerInv, NextKeepsBrokerInv, PTL DEF BrokerSpec, BrokerInv

\* A message is delivered at most once more than there were faults.
THEOREM RedeliveriesAreFaults == BrokerSpec => []RedeliveryNeedsFault
<1>1. BrokerInv => RedeliveryNeedsFault
  BY DEF BrokerInv, DeliveryCount, RedeliveryNeedsFault
<1>2. QED
  BY <1>1, InitBrokerInv, NextKeepsBrokerInv, PTL DEF BrokerSpec

\* No step of the broker, of a consumer or of a fault drops a message.
THEOREM NothingDropped == BrokerSpec => NeverDropped
<1>1. BrokerInv /\ [BrokerNext]_brokerVars => [Queued \subseteq Queued']_brokerVars
  <2> SUFFICES ASSUME BrokerInv, BrokerNext PROVE Queued \subseteq Queued'
    OBVIOUS
  <2>1. ASSUME NEW cs \in SUBSET Consumers, Requeue(cs), acked' = acked
        PROVE  Queued \subseteq Queued'
    <3>1. \A d \in Consumers : \A n \in unacked[d] : n \in unacked'[d] \/ n \in ready'
      BY <2>1 DEF BrokerInv, BrokerTypeOK
    <3>2. QED
      BY <2>1, <3>1 DEF Queued
  <2>2. ASSUME NEW c \in Consumers, Return(c) PROVE Queued \subseteq Queued'
    BY <2>2, ReturnDropsNothing DEF BrokerInv
  <2>3. ASSUME NEW c \in Consumers, NEW m \in Messages, Deliver(c, m)
        PROVE  Queued \subseteq Queued'
    <3>1. \A d \in Consumers : unacked[d] \subseteq unacked'[d]
      BY <2>3 DEF Deliver, BrokerInv, BrokerTypeOK
    <3>2. m \in unacked'[c] /\ ready \subseteq ready' \cup {m} /\ acked' = acked
      BY <2>3 DEF Deliver, BrokerInv, BrokerTypeOK
    <3>3. QED
      BY <3>1, <3>2 DEF Queued
  <2>4. CASE UNCHANGED <<unacked, acked>> /\ ready \subseteq ready'
    BY <2>4 DEF Queued
  <2>5. ASSUME NEW c \in Consumers PROVE {c} \in SUBSET Consumers
    OBVIOUS
  <2>6. ASSUME NEW c \in Consumers, Cut(c) \/ Panic(c) PROVE Queued \subseteq Queued'
    BY <2>1, <2>5, <2>6 DEF Cut, Panic
  <2>7. CASE Crash
    BY <2>1, <2>7 DEF Crash
  <2>8. QED
    BY <2>2, <2>3, <2>4, <2>6, <2>7
       DEF BrokerNext, Around, Publish, WithConsumerTopic, RangeEnds, Take
<1>2. QED
  BY <1>1, InitBrokerInv, NextKeepsBrokerInv, PTL DEF BrokerSpec, NeverDropped

-----------------------------------------------------------------------------
(* The account.                                                            *)


AccountTypes ==
  /\ account \in [provider : {"MSB", "VCCB"}, type : Types]
  /\ bank \in {"none", "OPEN", "CLOSE"}
  /\ row \in Rows \cup {NIL}
  /\ kind \in [Requests -> Kinds \cup {NIL}]
  /\ place \in [Requests -> {"idle", "insert", "bank", "row", "delete", "fee",
                             "done", "failed", "lost", "kept", "crashed"}]
  /\ latest \in Requests \cup {NIL}
  /\ fees \in Nat /\ total \in Nat

HandlerTypes ==
  /\ fresh \in SUBSET Consumers
  /\ at \in [Consumers -> {"idle", "increment", "close", "saga", "return"}]
  /\ credited \in [Messages -> Nat]
  /\ paid \in [Messages -> Nat]

\* Which requests are where: the row is inserted first, and deleted, at MSB only.
Places ==
  \A q \in Requests :
    /\ place[q] = "idle" <=> kind[q] = NIL
    /\ place[q] \in {"insert", "delete"} => kind[q] = "create" /\ account.provider = "MSB"
    /\ place[q] = "row" /\ kind[q] = "create" => account.provider = "VCCB"

OneCreate ==
  \A p, q \in Requests : kind[p] = "create" /\ kind[q] = "create" => p = q

\* Request q has got as far as inserting the row.
Created(q) ==
  /\ kind[q] = "create" /\ place[q] \notin {"insert", "row"}
  /\ place[q] = "bank" => account.provider = "MSB"

\* The account was there before the requests.
Existed == bank # "none" /\ \A q \in Requests : kind[q] # "create"

\* No row, and nothing added to one, before the create inserts it.
NoRowYet == row # NIL \/ total > 0 => Existed \/ \E q \in Requests : Created(q)

\* A row for a single payment was created as one, or updated to one.
RowForOnce == row # NIL /\ row.type = "ONCE" => EverOnce

\* The bank has the account of a create that ended well, and of every row at VCCB.
BankHasIt ==
  /\ row # NIL /\ account.provider = "VCCB" => bank # "none"
  /\ \A q \in Requests : kind[q] = "create" =>
       /\ place[q] \in {"row", "fee", "done"} => bank # "none"
       /\ place[q] = "failed" /\ row # NIL => bank # "none"

\* A handler works on a message, and closes an account only after a payment.
Working ==
  \A c \in Consumers :
    /\ at[c] # "idle" => current[c] # NIL
    /\ at[c] = "close" => total > 0 /\ EverOnce

\* The consumers that have m still to add.
Pending(m) ==
  {c \in Consumers : m \in buffer[c] \/ (current[c] = m /\ at[c] = "increment")}

CreditsOwed == \A m \in Messages : credited[m] + Cardinality(Pending(m)) <= delivered[m]

\* A row in this status, but for the payment that may have closed it.
RowIs(status) ==
  /\ row # NIL
  /\ \/ row.status = status
     \/ row.status = "CLOSE" /\ total > 0 /\ EverOnce

\* Requests that do not meet: only the latest runs, and what it has done stands.
LatestRuns == AtOnce = 1 => \A q \in Requests : Running(q) => q = latest

LatestStands ==
  AtOnce = 1 /\ latest # NIL /\ kind[latest] # "update" =>
    /\ place[latest] = "bank" /\ kind[latest] = "create" /\ account.provider = "MSB" => RowIs("OPEN")
    /\ place[latest] = "row" => bank = IF kind[latest] = "close" THEN "CLOSE" ELSE "OPEN"
    /\ place[latest] \in {"fee", "done"} => RowIs(bank)

AccountInv ==
  /\ AccountTypes /\ Places /\ OneCreate /\ NoRowYet /\ BankHasIt /\ BalanceIsCredits
  /\ RowForOnce /\ LatestRuns /\ LatestStands

HandlerInv == HandlerTypes /\ Working /\ CreditsOwed

\* What a request asks for is never taken back.
LEMMA OnceStays ==
  ASSUME AccountInv, NEW q \in Requests, NEW k \in Kinds, kind[q] = NIL,
         kind' = [kind EXCEPT ![q] = k], UNCHANGED account
  PROVE  EverOnce => EverOnce'
<1>1. NIL # "update"
  BY AccountAssumption
<1>2. ASSUME NEW p \in Requests, kind[p] = "update" PROVE kind'[p] = "update"
  BY <1>1, <1>2 DEF AccountInv, AccountTypes
<1>3. QED
  BY <1>2 DEF EverOnce

\* The bank is called; an error of MSB's create goes on to the delete.
LEMMA CallBankKeeps ==
  ASSUME AccountInv, NEW q \in Requests, CallBank(q)
  PROVE  AccountInv'
<1>0. place[q] = "bank" /\ UNCHANGED <<account, row, kind, latest, fees, total>>
  BY DEF CallBank, handlerVars
<1>1. PICK outcome \in Outcomes :
         /\ bank' = IF outcome = "err" THEN bank ELSE BankStatus(kind[q])
         /\ IF outcome # "ok" /\ kind[q] = "create" /\ account.provider = "MSB"
            THEN Goes(q, "delete")
            ELSE Ends(q, outcome, AfterBank(kind[q]))
  BY DEF CallBank
<1>2. outcome \in {"ok", "err", "lost"} /\ kind[q] \in {"create", "update", "close", "reopen"}
  BY <1>0, AccountAssumption DEF AccountInv, AccountTypes, Places
<1>3. PICK next \in {"delete", "fee", "row", "done", "failed", "lost"} :
         /\ place' = [place EXCEPT ![q] = next]
         /\ next = "delete" => kind[q] = "create" /\ account.provider = "MSB"
         /\ next \in {"fee", "row", "done"} =>
              /\ bank' = BankStatus(kind[q])
              /\ next # "row" <=> kind[q] = "create" /\ account.provider = "MSB"
         /\ next = "failed" => ~ (kind[q] = "create" /\ account.provider = "MSB")
  BY <1>1, <1>2 DEF Goes, Ends, AfterBank, AfterOpening
<1>4. bank' \in {"none", "OPEN", "CLOSE"} /\ (bank # "none" => bank' # "none")
  BY <1>1, <1>2 DEF BankStatus, AccountInv, AccountTypes
<1>5. next \in {"fee", "row", "done"} /\ kind[q] # "update" =>
        bank' = IF kind[q] = "close" THEN "CLOSE" ELSE "OPEN"
  BY <1>2, <1>3 DEF BankStatus
<1>6. kind[q] = "create" /\ next = "failed" => row = NIL
  BY <1>0, <1>2, <1>3 DEF AccountInv, AccountTypes, OneCreate, NoRowYet, Existed, Created
<1>7. AccountTypes'
  BY <1>0, <1>2, <1>3, <1>4, <1>5, <1>6 DEF AccountInv, AccountTypes
<1>8. Places'
  BY <1>0, <1>2, <1>3, <1>4, <1>5, <1>6 DEF AccountInv, AccountTypes, Places
<1>9. OneCreate'
  BY <1>0, <1>2, <1>3, <1>4, <1>5, <1>6 DEF AccountInv, AccountTypes, OneCreate
<1>10. NoRowYet'
  BY <1>0, <1>2, <1>3, <1>4, <1>5, <1>6 DEF AccountInv, AccountTypes, NoRowYet, Existed, Created
<1>11. BankHasIt'
  BY <1>0, <1>2, <1>3, <1>4, <1>5, <1>6 DEF AccountInv, AccountTypes, BankHasIt
<1>12. BalanceIsCredits'
  BY <1>0, <1>2, <1>3, <1>4, <1>5, <1>6 DEF AccountInv, AccountTypes, BalanceIsCredits
<1>once. EverOnce' = EverOnce
  BY <1>0 DEF EverOnce
<1>row. RowForOnce'
  BY <1>once, <1>0, <1>2, <1>3, <1>4, <1>5, <1>6 DEF AccountInv, AccountTypes, RowForOnce
<1>13. LatestRuns'
  BY <1>0, <1>2, <1>3, <1>4, <1>5, <1>6 DEF AccountInv, AccountTypes, LatestRuns, Running
<1>14. LatestStands'
  <2>1. CASE q # latest
    BY <1>once, <2>1, <1>0, <1>2, <1>3, <1>4, <1>5
       DEF AccountInv, AccountTypes, LatestRuns, Running, LatestStands, RowIs
  <2>2. CASE q = latest
    BY <1>once, <2>2, <1>0, <1>2, <1>3, <1>4, <1>5 DEF AccountInv, AccountTypes, LatestStands, RowIs
  <2>3. QED
    BY <2>1, <2>2
<1>15. QED
  BY <1>7, <1>8, <1>9, <1>10, <1>11, <1>12, <1>13, <1>14, <1>row DEF AccountInv

\* The create inserts the row, before the bank at MSB and after it at VCCB.
LEMMA InsertRowKeeps ==
  ASSUME AccountInv, NEW q \in Requests, InsertRow(q)
  PROVE  AccountInv'
<1>0. UNCHANGED <<account, bank, kind, latest, fees, total>>
  BY DEF InsertRow, handlerVars
<1>1. /\ kind[q] = "create" /\ place[q] \in {"insert", "row"}
      /\ place[q] = "insert" <=> account.provider = "MSB"
  BY DEF InsertRow, AccountInv, AccountTypes, Places
<1>2. row = NIL /\ total = 0
  BY <1>1 DEF AccountInv, AccountTypes, OneCreate, NoRowYet, Existed, Created
<1>3. /\ NewRow \in Rows /\ NewRow # NIL /\ NewRow.balance = 0 /\ NewRow.status = "OPEN"
      /\ NewRow.type = account.type
  BY AccountAssumption DEF NewRow, Rows, AccountInv, AccountTypes
<1>4. PICK next \in {"bank", "fee", "done", "failed", "lost"} :
        /\ place' = [place EXCEPT ![q] = next]
        /\ row' = IF next = "failed" THEN NIL ELSE NewRow
        /\ next = "bank" => account.provider = "MSB"
        /\ next \in {"fee", "done"} => account.provider = "VCCB"
  BY <1>1, <1>2, AccountAssumption
     DEF InsertRow, Goes, Ends, AfterOpening, AccountInv, AccountTypes
<1>5. AccountTypes'
  BY <1>0, <1>1, <1>2, <1>3, <1>4 DEF AccountInv, AccountTypes
<1>6. Places'
  BY <1>0, <1>1, <1>2, <1>3, <1>4 DEF AccountInv, AccountTypes, Places
<1>7. OneCreate'
  BY <1>0, <1>1, <1>2, <1>3, <1>4 DEF AccountInv, AccountTypes, OneCreate
<1>8. NoRowYet'
  BY <1>0, <1>1, <1>2, <1>3, <1>4 DEF AccountInv, AccountTypes, NoRowYet, Existed, Created
<1>9. BankHasIt'
  <2>1. account.provider = "VCCB" => bank # "none"
    BY <1>1 DEF AccountInv, AccountTypes, BankHasIt
  <2>2. QED
    BY <1>0, <1>1, <1>2, <1>4, <2>1 DEF AccountInv, AccountTypes, OneCreate, BankHasIt
<1>10. BalanceIsCredits'
  BY <1>0, <1>1, <1>2, <1>3, <1>4 DEF AccountInv, AccountTypes, BalanceIsCredits
<1>once. EverOnce' = EverOnce
  BY <1>0 DEF EverOnce
<1>row. RowForOnce'
  BY <1>once, <1>0, <1>1, <1>2, <1>3, <1>4 DEF AccountInv, AccountTypes, RowForOnce, EverOnce
<1>11. LatestRuns'
  BY <1>0, <1>1, <1>2, <1>3, <1>4 DEF AccountInv, AccountTypes, LatestRuns, Running
<1>12. LatestStands'
  <2>1. CASE q # latest
    BY <1>once, <2>1, <1>0, <1>1, <1>2, <1>3, <1>4
       DEF AccountInv, AccountTypes, LatestRuns, Running, LatestStands, RowIs
  <2>2. CASE q = latest
    BY <1>once, <2>2, <1>0, <1>1, <1>2, <1>3, <1>4 DEF AccountInv, AccountTypes, LatestStands, RowIs
  <2>3. QED
    BY <2>1, <2>2
<1>13. QED
  BY <1>5, <1>6, <1>7, <1>8, <1>9, <1>10, <1>11, <1>12, <1>row DEF AccountInv

\* The row's status or type is set; its balance is not.
LEMMA UpdateRowKeeps ==
  ASSUME AccountInv, NEW q \in Requests, UpdateRow(q)
  PROVE  AccountInv'
<1>0. UNCHANGED <<account, bank, kind, latest, fees, total>> /\ place[q] = "row"
  BY DEF UpdateRow, handlerVars
<1>1. kind[q] \in {"update", "close", "reopen"}
  BY <1>0, AccountAssumption DEF UpdateRow, AccountInv, AccountTypes, Places
<1>2. PICK next \in {"fee", "done", "failed", "lost"} :
        /\ place' = [place EXCEPT ![q] = next]
        /\ \/ row' = row /\ next \notin {"fee", "done"}
           \/ row # NIL /\ row' \in Updated(kind[q])
  BY AccountAssumption DEF UpdateRow, Goes, Ends, AfterUpdate, AfterOpening
<1>3. row # NIL => row \in Rows
  BY DEF AccountInv, AccountTypes
<1>4. ASSUME row # NIL, row' \in Updated(kind[q])
      PROVE  /\ row' \in Rows /\ row' # NIL /\ row'.balance = row.balance
             /\ kind[q] # "update" => row'.status = IF kind[q] = "close" THEN "CLOSE" ELSE "OPEN"
             /\ row'.type = "ONCE" => row.type = "ONCE" \/ EverOnce
  <2>1. CASE kind[q] = "update" /\ account.provider = "MSB"
    <3>1. PICK type \in Types : row' = [row EXCEPT !.type = type]
      BY <1>4, <2>1 DEF Updated
    <3>2. EverOnce
      BY <2>1 DEF EverOnce
    <3>3. QED
      BY <1>3, <1>4, <2>1, <3>1, <3>2, AccountAssumption DEF Rows
  <2>2. CASE kind[q] = "update" /\ account.provider = "VCCB"
    BY <1>3, <1>4, <2>2, AccountAssumption DEF Updated
  <2>3. CASE kind[q] \in {"close", "reopen"}
    <3>1. row' = [row EXCEPT !.status = IF kind[q] = "close" THEN "CLOSE" ELSE "OPEN"]
      BY <1>4, <2>3 DEF Updated, BankStatus
    <3>2. QED
      BY <1>3, <1>4, <2>3, <3>1, AccountAssumption DEF Rows
  <2>4. QED
    BY <1>1, <2>1, <2>2, <2>3 DEF AccountInv, AccountTypes
<1>5. next \in {"fee", "done"} => row # NIL /\ row' \in Updated(kind[q])
  BY <1>2
<1>6. /\ row' \in Rows \cup {NIL} /\ (row = NIL <=> row' = NIL)
      /\ row # NIL => row'.balance = row.balance
      /\ next \in {"fee", "done"} /\ kind[q] # "update" =>
           row # NIL /\ row'.status = IF kind[q] = "close" THEN "CLOSE" ELSE "OPEN"
      /\ row # NIL /\ row'.type = "ONCE" => row.type = "ONCE" \/ EverOnce
      /\ next \in {"fee", "done"} => row # NIL
  BY <1>2, <1>3, <1>4, <1>5
<1>7. AccountTypes'
  BY <1>0, <1>1, <1>2, <1>6 DEF AccountInv, AccountTypes
<1>8. Places'
  BY <1>0, <1>1, <1>2, <1>6 DEF AccountInv, AccountTypes, Places
<1>9. OneCreate'
  BY <1>0, <1>1, <1>2, <1>6 DEF AccountInv, AccountTypes, OneCreate
<1>10. NoRowYet'
  BY <1>0, <1>1, <1>2, <1>6 DEF AccountInv, AccountTypes, NoRowYet, Existed, Created
<1>11. BankHasIt'
  BY <1>0, <1>1, <1>2, <1>6 DEF AccountInv, AccountTypes, BankHasIt
<1>12. BalanceIsCredits'
  BY <1>0, <1>1, <1>2, <1>6 DEF AccountInv, AccountTypes, BalanceIsCredits
<1>once. EverOnce' = EverOnce
  BY <1>0 DEF EverOnce
<1>row. RowForOnce'
  BY <1>once, <1>0, <1>1, <1>2, <1>6 DEF AccountInv, AccountTypes, RowForOnce
<1>13. LatestRuns'
  BY <1>0, <1>1, <1>2, <1>6 DEF AccountInv, AccountTypes, LatestRuns, Running
<1>14. LatestStands'
  <2>1. CASE q # latest
    BY <1>once, <2>1, <1>0, <1>1, <1>2, <1>6
       DEF AccountInv, AccountTypes, LatestRuns, Running, LatestStands, RowIs
  <2>2. CASE q = latest
    BY <1>once, <2>2, <1>0, <1>1, <1>2, <1>6 DEF AccountInv, AccountTypes, LatestStands, RowIs
  <2>3. QED
    BY <2>1, <2>2
<1>15. QED
  BY <1>7, <1>8, <1>9, <1>10, <1>11, <1>12, <1>13, <1>14, <1>row DEF AccountInv

\* The row of a create that MSB refused is deleted.
LEMMA DeleteRowKeeps ==
  ASSUME AccountInv, NEW q \in Requests, DeleteRow(q)
  PROVE  AccountInv'
<1>0. UNCHANGED <<account, bank, kind, latest, fees, total>> /\ place[q] = "delete"
  BY DEF DeleteRow, handlerVars
<1>1. kind[q] = "create" /\ account.provider = "MSB"
  BY <1>0 DEF AccountInv, AccountTypes, Places
<1>2. PICK next \in {"failed", "kept"} :
        /\ place' = [place EXCEPT ![q] = next]
        /\ next = "failed" => row' = NIL
        /\ row' \in {row, NIL}
  BY DEF DeleteRow, Goes
<1>3. AccountTypes'
  BY <1>0, <1>1, <1>2 DEF AccountInv, AccountTypes
<1>4. Places'
  BY <1>0, <1>1, <1>2 DEF AccountInv, AccountTypes, Places
<1>5. OneCreate'
  BY <1>0, <1>1, <1>2 DEF AccountInv, AccountTypes, OneCreate
<1>6. NoRowYet'
  BY <1>0, <1>1, <1>2 DEF AccountInv, AccountTypes, NoRowYet, Existed, Created
<1>7. BankHasIt'
  BY <1>0, <1>1, <1>2 DEF AccountInv, AccountTypes, BankHasIt
<1>8. BalanceIsCredits'
  BY <1>0, <1>1, <1>2 DEF AccountInv, AccountTypes, BalanceIsCredits
<1>once. EverOnce' = EverOnce
  BY <1>0 DEF EverOnce
<1>row. RowForOnce'
  BY <1>once, <1>0, <1>1, <1>2 DEF AccountInv, AccountTypes, RowForOnce
<1>9. LatestRuns'
  BY <1>0, <1>1, <1>2 DEF AccountInv, AccountTypes, LatestRuns, Running
<1>10. LatestStands'
  <2>1. CASE q # latest
    BY <1>once, <2>1, <1>0, <1>1, <1>2
       DEF AccountInv, AccountTypes, LatestRuns, Running, LatestStands, RowIs
  <2>2. CASE q = latest
    BY <1>once, <2>2, <1>0, <1>1, <1>2 DEF AccountInv, AccountTypes, LatestStands, RowIs
  <2>3. QED
    BY <2>1, <2>2
<1>11. QED
  BY <1>3, <1>4, <1>5, <1>6, <1>7, <1>8, <1>9, <1>10, <1>row DEF AccountInv

\* The fee is logged, or not.
LEMMA LogFeeKeeps ==
  ASSUME AccountInv, NEW q \in Requests, LogFee(q)
  PROVE  AccountInv'
<1>0. UNCHANGED <<account, bank, row, kind, latest, total>> /\ place[q] = "fee"
  BY DEF LogFee, handlerVars
<1>1. PICK next \in {"done", "failed", "lost"} : place' = [place EXCEPT ![q] = next]
  BY AccountAssumption DEF LogFee, Goes, Ends
<1>2. fees' \in Nat
  BY DEF LogFee, AccountInv, AccountTypes
<1>3. AccountTypes'
  BY <1>0, <1>1, <1>2 DEF AccountInv, AccountTypes
<1>4. Places'
  BY <1>0, <1>1, <1>2 DEF AccountInv, AccountTypes, Places
<1>5. OneCreate'
  BY <1>0, <1>1, <1>2 DEF AccountInv, AccountTypes, OneCreate
<1>6. NoRowYet'
  BY <1>0, <1>1, <1>2 DEF AccountInv, AccountTypes, NoRowYet, Existed, Created
<1>7. BankHasIt'
  BY <1>0, <1>1, <1>2 DEF AccountInv, AccountTypes, BankHasIt
<1>8. BalanceIsCredits'
  BY <1>0, <1>1, <1>2 DEF AccountInv, AccountTypes, BalanceIsCredits
<1>once. EverOnce' = EverOnce
  BY <1>0 DEF EverOnce
<1>row. RowForOnce'
  BY <1>once, <1>0, <1>1, <1>2 DEF AccountInv, AccountTypes, RowForOnce
<1>9. LatestRuns'
  BY <1>0, <1>1, <1>2 DEF AccountInv, AccountTypes, LatestRuns, Running
<1>10. LatestStands'
  <2>1. CASE q # latest
    BY <1>once, <2>1, <1>0, <1>1, <1>2
       DEF AccountInv, AccountTypes, LatestRuns, Running, LatestStands, RowIs
  <2>2. CASE q = latest
    BY <1>once, <2>2, <1>0, <1>1, <1>2 DEF AccountInv, AccountTypes, LatestStands, RowIs
  <2>3. QED
    BY <2>1, <2>2
<1>11. QED
  BY <1>3, <1>4, <1>5, <1>6, <1>7, <1>8, <1>9, <1>10, <1>row DEF AccountInv

\* A request begins: a create only when there was none.
LEMMA BeginKeeps ==
  ASSUME AccountInv, NEW q \in Requests, NEW k \in Kinds, Begin(q, k)
  PROVE  AccountInv'
<1>0. /\ place[q] = "idle" /\ UNCHANGED <<account, bank, row, fees, total>>
      /\ kind' = [kind EXCEPT ![q] = k] /\ latest' = q
  BY DEF Begin, handlerVars
<1>1. kind[q] = NIL /\ k # NIL /\ NIL # "create" /\ k \in {"create", "update", "close", "reopen"}
  BY <1>0, AccountAssumption DEF AccountInv, AccountTypes, Places
<1>2. k = "create" => bank = "none" /\ \A p \in Requests : kind[p] # "create"
  BY DEF Begin
<1>3. k = "create" => row = NIL /\ total = 0
  BY <1>2 DEF AccountInv, AccountTypes, NoRowYet, Existed, Created
<1>4. PICK next \in {"insert", "bank", "failed"} :
        /\ place' = [place EXCEPT ![q] = next]
        /\ k = "create" /\ next # "failed" => (next = "insert" <=> account.provider = "MSB")
        /\ next = "insert" => k = "create"
  BY DEF Begin, Goes, FirstCall
<1>5. AccountTypes'
  BY <1>0, <1>1, <1>2, <1>3, <1>4 DEF AccountInv, AccountTypes
<1>6. Places'
  BY <1>0, <1>1, <1>2, <1>3, <1>4 DEF AccountInv, AccountTypes, Places
<1>7. OneCreate'
  BY <1>0, <1>1, <1>2, <1>3, <1>4 DEF AccountInv, AccountTypes, OneCreate
<1>8. NoRowYet'
  BY <1>0, <1>1, <1>2, <1>3, <1>4 DEF AccountInv, AccountTypes, NoRowYet, Existed, Created
<1>9. BankHasIt'
  BY <1>0, <1>1, <1>2, <1>3, <1>4 DEF AccountInv, AccountTypes, BankHasIt
<1>10. BalanceIsCredits'
  BY <1>0, <1>1, <1>2, <1>3, <1>4 DEF AccountInv, AccountTypes, BalanceIsCredits
<1>once. EverOnce => EverOnce'
  BY <1>0, <1>1, OnceStays
<1>row. RowForOnce'
  BY <1>once, <1>0, <1>1, <1>2, <1>3, <1>4 DEF AccountInv, AccountTypes, RowForOnce
<1>11. LatestRuns'
  <2>1. ASSUME AtOnce = 1 PROVE \A p \in Requests : ~ Running(p)
    <3> DEFINE R == {p \in Requests : Running(p)}
    <3>1. IsFiniteSet(Requests)
      BY AccountAssumption, FS_Subset
    <3>2. IsFiniteSet(R)
      BY <3>1, FS_Subset
    <3>3. Cardinality(R) \in Nat /\ Cardinality(R) < 1
      BY <2>1, <3>2, FS_CardinalityType DEF Begin
    <3>4. R = {}
      BY <3>2, <3>3, FS_EmptySet
    <3>5. QED
      BY <3>4
  <2>2. QED
    BY <1>0, <1>4, <2>1 DEF AccountInv, AccountTypes, LatestRuns, Running
<1>12. LatestStands'
  BY <1>once, <1>0, <1>1, <1>2, <1>3, <1>4 DEF AccountInv, AccountTypes, LatestStands, RowIs
<1>13. QED
  BY <1>5, <1>6, <1>7, <1>8, <1>9, <1>10, <1>11, <1>12, <1>row DEF AccountInv

\* An amount is added to the row there is.
LEMMA IncrementKeeps ==
  ASSUME AccountInv, NEW c \in Consumers, IncrementBalance(c)
  PROVE  AccountInv'
<1>0. UNCHANGED <<account, bank, kind, place, latest, fees>>
  BY DEF IncrementBalance
<1>1. \/ UNCHANGED <<row, total>>
      \/ row # NIL /\ row' = [row EXCEPT !.balance = @ + 1] /\ total' = total + 1
  BY DEF IncrementBalance
<1>2. row # NIL => row \in Rows
  BY DEF AccountInv, AccountTypes
<1>3. /\ row' \in Rows \cup {NIL} /\ (row = NIL <=> row' = NIL)
      /\ row # NIL => /\ row'.status = row.status /\ row'.type = row.type
                     /\ row'.balance - row.balance = total' - total
      /\ total' \in {total, total + 1} /\ (row = NIL => total' = total)
  BY <1>1, <1>2, AccountAssumption DEF Rows, AccountInv, AccountTypes
<1>4. AccountTypes'
  BY <1>0, <1>3 DEF AccountInv, AccountTypes
<1>5. Places'
  BY <1>0, <1>3 DEF AccountInv, AccountTypes, Places
<1>6. OneCreate'
  BY <1>0, <1>3 DEF AccountInv, AccountTypes, OneCreate
<1>7. NoRowYet'
  BY <1>0, <1>3 DEF AccountInv, AccountTypes, NoRowYet, Existed, Created
<1>8. BankHasIt'
  BY <1>0, <1>3 DEF AccountInv, AccountTypes, BankHasIt
<1>9. BalanceIsCredits'
  <2>1. row # NIL => row.balance \in Nat /\ row'.balance \in Nat
    BY <1>2, <1>3 DEF Rows
  <2>2. QED
    BY <1>3, <2>1 DEF AccountInv, AccountTypes, BalanceIsCredits
<1>once. EverOnce' = EverOnce
  BY <1>0 DEF EverOnce
<1>row. RowForOnce'
  BY <1>once, <1>0, <1>3 DEF AccountInv, AccountTypes, RowForOnce
<1>10. LatestRuns'
  BY <1>0, <1>3 DEF AccountInv, AccountTypes, LatestRuns, Running
<1>11. LatestStands'
  BY <1>once, <1>0, <1>3 DEF AccountInv, AccountTypes, LatestStands, RowIs
<1>12. QED
  BY <1>4, <1>5, <1>6, <1>7, <1>8, <1>9, <1>10, <1>11, <1>row DEF AccountInv

\* The account of a single payment is closed in its row, after the payment.
LEMMA CloseOnceKeeps ==
  ASSUME AccountInv, NEW c \in Consumers, HandlerInv, CloseOnce(c)
  PROVE  AccountInv'
<1>0. UNCHANGED <<account, bank, kind, place, latest, fees, total>>
  BY DEF CloseOnce
<1>1. total > 0 /\ EverOnce
  BY DEF CloseOnce, HandlerInv, Working
<1>2. row' = row \/ (row # NIL /\ row' = [row EXCEPT !.status = "CLOSE"])
  BY DEF CloseOnce
<1>3. row # NIL => row \in Rows
  BY DEF AccountInv, AccountTypes
<1>4. /\ row' \in Rows \cup {NIL} /\ (row = NIL <=> row' = NIL)
      /\ row # NIL => /\ row'.balance = row.balance /\ row'.type = row.type
                     /\ row'.status \in {row.status, "CLOSE"}
  BY <1>2, <1>3, AccountAssumption DEF Rows
<1>5. AccountTypes'
  BY <1>0, <1>1, <1>4 DEF AccountInv, AccountTypes
<1>6. Places'
  BY <1>0, <1>1, <1>4 DEF AccountInv, AccountTypes, Places
<1>7. OneCreate'
  BY <1>0, <1>1, <1>4 DEF AccountInv, AccountTypes, OneCreate
<1>8. NoRowYet'
  BY <1>0, <1>1, <1>4 DEF AccountInv, AccountTypes, NoRowYet, Existed, Created
<1>9. BankHasIt'
  BY <1>0, <1>1, <1>4 DEF AccountInv, AccountTypes, BankHasIt
<1>10. BalanceIsCredits'
  BY <1>0, <1>1, <1>4 DEF AccountInv, AccountTypes, BalanceIsCredits
<1>once. EverOnce' = EverOnce
  BY <1>0 DEF EverOnce
<1>row. RowForOnce'
  BY <1>once, <1>0, <1>1, <1>4 DEF AccountInv, AccountTypes, RowForOnce
<1>11. LatestRuns'
  BY <1>0, <1>1, <1>4 DEF AccountInv, AccountTypes, LatestRuns, Running
<1>12. LatestStands'
  BY <1>once, <1>0, <1>1, <1>4 DEF AccountInv, AccountTypes, LatestStands, RowIs
<1>13. QED
  BY <1>5, <1>6, <1>7, <1>8, <1>9, <1>10, <1>11, <1>12, <1>row DEF AccountInv

\* The process dies: what ran has crashed.
LEMMA CrashKeeps ==
  ASSUME AccountInv, CrashAll
  PROVE  AccountInv'
<1>0. UNCHANGED <<account, bank, row, kind, latest, fees, total>>
  BY DEF CrashAll
<1>1. \A q \in Requests : place'[q] = IF Running(q) THEN "crashed" ELSE place[q]
  BY DEF CrashAll
<1>2. place' \in [Requests -> {"idle", "insert", "bank", "row", "delete", "fee",
                              "done", "failed", "lost", "kept", "crashed"}]
  BY DEF CrashAll, AccountInv, AccountTypes
<1>3. AccountTypes'
  BY <1>0, <1>1, <1>2 DEF AccountInv, AccountTypes
<1>4. Places'
  BY <1>0, <1>1, <1>2 DEF AccountInv, AccountTypes, Places, Running
<1>5. OneCreate'
  BY <1>0, <1>1, <1>2 DEF AccountInv, AccountTypes, OneCreate
<1>6. NoRowYet'
  BY <1>0, <1>1, <1>2 DEF AccountInv, AccountTypes, NoRowYet, Existed, Created, Running
<1>7. BankHasIt'
  BY <1>0, <1>1, <1>2 DEF AccountInv, AccountTypes, BankHasIt, Running
<1>8. BalanceIsCredits'
  BY <1>0, <1>1, <1>2 DEF AccountInv, AccountTypes, BalanceIsCredits
<1>once. EverOnce' = EverOnce
  BY <1>0 DEF EverOnce
<1>row. RowForOnce'
  BY <1>once, <1>0, <1>1, <1>2 DEF AccountInv, AccountTypes, RowForOnce
<1>9. LatestRuns'
  BY <1>1 DEF LatestRuns, Running
<1>10. LatestStands'
  BY <1>once, <1>0, <1>1, <1>2 DEF AccountInv, AccountTypes, LatestStands, RowIs, Running
<1>11. QED
  BY <1>3, <1>4, <1>5, <1>6, <1>7, <1>8, <1>9, <1>10, <1>row DEF AccountInv

-----------------------------------------------------------------------------
(* The broker, and the handlers.                                           *)

\* Every step of the account is a step of the broker, or none of its business.
LEMMA BrokerSteps == [Next]_vars => [BrokerNext]_brokerVars
BY DEF Next, Begin, Request, CallBank, InsertRow, UpdateRow, DeleteRow, LogFee, Pay,
   DeliverBalance, TakeBalance, RegisterConsumerTopic, LoseConnection, Handler, IncrementBalance,
   CloseOnce, PlaySaga, ReturnBalance, PanicBalance, CrashAll, BrokerNext, Around, vars

\* How far the number of consumers in a set can be moved.
LEMMA Counting ==
  ASSUME NEW P \in SUBSET Consumers, NEW Q \in SUBSET Consumers, NEW c \in Consumers
  PROVE  /\ Cardinality(P) \in Nat /\ Cardinality(Q) \in Nat
         /\ Q \subseteq P => Cardinality(Q) <= Cardinality(P)
         /\ Q \subseteq P \cup {c} => Cardinality(Q) <= Cardinality(P) + 1
         /\ c \in P /\ Q \subseteq P \ {c} => Cardinality(Q) + 1 <= Cardinality(P)
<1>1. IsFiniteSet(P) /\ IsFiniteSet(Q)
  BY AccountAssumption, FS_Subset
<1>2. Cardinality(P) \in Nat /\ Cardinality(Q) \in Nat
  BY <1>1, FS_CardinalityType
<1>3. Q \subseteq P => Cardinality(Q) <= Cardinality(P)
  BY <1>1, FS_Subset
<1>4. ASSUME Q \subseteq P \cup {c} PROVE Cardinality(Q) <= Cardinality(P) + 1
  <2>1. /\ IsFiniteSet(P \cup {c})
        /\ Cardinality(P \cup {c}) = IF c \in P THEN Cardinality(P) ELSE Cardinality(P) + 1
    BY <1>1, FS_AddElement
  <2>2. Cardinality(Q) <= Cardinality(P \cup {c})
    BY <1>4, <2>1, FS_Subset
  <2>3. QED
    BY <1>2, <2>1, <2>2
<1>5. ASSUME c \in P, Q \subseteq P \ {c} PROVE Cardinality(Q) + 1 <= Cardinality(P)
  <2>1. IsFiniteSet(P \ {c}) /\ Cardinality(P \ {c}) = Cardinality(P) - 1
    BY <1>1, <1>5, FS_RemoveElement
  <2>2. Cardinality(Q) <= Cardinality(P \ {c})
    BY <1>5, <2>1, FS_Subset
  <2>3. QED
    BY <1>2, <2>1, <2>2
<1>6. QED
  BY <1>2, <1>3, <1>4, <1>5

\* Nothing is added and no consumer takes a message on.
LEMMA OwedStays ==
  ASSUME CreditsOwed, UNCHANGED <<credited, delivered>>,
         HandlerTypes, BrokerTypeOK, \A m \in Messages : Pending(m)' \subseteq Pending(m)
  PROVE  CreditsOwed'
<1> SUFFICES ASSUME NEW m \in Messages
             PROVE  credited[m] + Cardinality(Pending(m)') <= delivered[m]
  BY DEF CreditsOwed
<1>1. /\ Pending(m) \in SUBSET Consumers /\ Pending(m)' \in SUBSET Consumers
      /\ Pending(m)' \subseteq Pending(m)
  BY DEF Pending
<1>2. /\ Cardinality(Pending(m)') <= Cardinality(Pending(m))
      /\ Cardinality(Pending(m)) \in Nat /\ Cardinality(Pending(m)') \in Nat
  <2>1. Main \in Consumers
    BY AccountAssumption
  <2>2. QED
    BY <1>1, <2>1, Counting
<1>3. /\ credited[m] \in Nat /\ delivered[m] \in Nat
      /\ credited[m] + Cardinality(Pending(m)) <= delivered[m]
  BY DEF CreditsOwed, HandlerTypes, BrokerTypeOK
<1>4. QED
  BY <1>2, <1>3

\* A delivery adds the one consumer it goes to.
LEMMA DeliverOwes ==
  ASSUME AccountInv, HandlerInv, BrokerInv,
         NEW c \in Consumers, NEW n \in Messages, DeliverBalance(c, n)
  PROVE  CreditsOwed'
<1> SUFFICES ASSUME NEW m \in Messages
             PROVE  credited'[m] + Cardinality(Pending(m)') <= delivered'[m]
  BY DEF CreditsOwed
<1>1. Pending(m) \in SUBSET Consumers /\ Pending(m)' \in SUBSET Consumers
  BY DEF Pending
<1>2. /\ UNCHANGED <<credited, current, at>>
      /\ delivered' = [delivered EXCEPT ![n] = @ + 1]
      /\ buffer' = [buffer EXCEPT ![c] = @ \cup {n}]
  BY DEF DeliverBalance, Deliver, handlerVars
<1>3. /\ credited[m] \in Nat /\ delivered[m] \in Nat
      /\ credited[m] + Cardinality(Pending(m)) <= delivered[m]
  BY DEF HandlerInv, CreditsOwed, HandlerTypes, BrokerInv, BrokerTypeOK
<1>4. CASE m = n
  <2>1. Pending(m)' \subseteq Pending(m) \cup {c}
    BY <1>2 DEF Pending, BrokerInv, BrokerTypeOK
  <2>2. /\ Cardinality(Pending(m)') <= Cardinality(Pending(m)) + 1
        /\ Cardinality(Pending(m)') \in Nat /\ Cardinality(Pending(m)) \in Nat
    BY <1>1, <2>1, Counting
  <2>3. delivered'[m] = delivered[m] + 1
    BY <1>2, <1>4 DEF BrokerInv, BrokerTypeOK
  <2>4. QED
    BY <1>2, <1>3, <2>2, <2>3
<1>5. CASE m # n
  <2>1. Pending(m)' \subseteq Pending(m)
    BY <1>2, <1>5 DEF Pending, BrokerInv, BrokerTypeOK
  <2>2. /\ Cardinality(Pending(m)') <= Cardinality(Pending(m))
        /\ Cardinality(Pending(m)') \in Nat /\ Cardinality(Pending(m)) \in Nat
    BY <1>1, <2>1, Counting
  <2>3. delivered'[m] = delivered[m]
    BY <1>2, <1>5 DEF BrokerInv, BrokerTypeOK
  <2>4. QED
    BY <1>2, <1>3, <2>2, <2>3
<1>6. QED
  BY <1>4, <1>5

\* An increment takes the consumer off the ones that have the message to add.
LEMMA IncrementOwes ==
  ASSUME AccountInv, HandlerInv, BrokerInv, NEW c \in Consumers, IncrementBalance(c)
  PROVE  CreditsOwed'
<1> SUFFICES ASSUME NEW m \in Messages
             PROVE  credited'[m] + Cardinality(Pending(m)') <= delivered'[m]
  BY DEF CreditsOwed
<1>1. Pending(m) \in SUBSET Consumers /\ Pending(m)' \in SUBSET Consumers
  BY DEF Pending
<1>2. /\ UNCHANGED <<delivered, current, buffer>>
      /\ credited' \in {credited, [credited EXCEPT ![current[c]] = @ + 1]}
      /\ at[c] = "increment"
  BY DEF IncrementBalance, brokerVars
<1>3. /\ credited[m] \in Nat /\ delivered[m] \in Nat
      /\ credited[m] + Cardinality(Pending(m)) <= delivered[m]
  BY DEF HandlerInv, CreditsOwed, HandlerTypes, BrokerInv, BrokerTypeOK
<1>4. PICK next \in {"return", "close", "saga"} : at' = [at EXCEPT ![c] = next]
  BY DEF IncrementBalance, Proceeds
<1>5. Pending(m)' \subseteq Pending(m)
  BY <1>2, <1>4 DEF Pending, HandlerInv, HandlerTypes
<1>6. /\ Cardinality(Pending(m)) \in Nat /\ Cardinality(Pending(m)') \in Nat
      /\ Cardinality(Pending(m)') <= Cardinality(Pending(m))
  BY <1>1, <1>5, Counting
<1>7. CASE m = current[c]
  <2>1. c \in Pending(m) /\ c \notin Pending(m)'
    BY <1>2, <1>4, <1>7 DEF Pending, BrokerInv, UpHoldsItsWork, HandlerInv, HandlerTypes
  <2>2. Pending(m)' \subseteq Pending(m) \ {c}
    BY <1>5, <2>1
  <2>3. Cardinality(Pending(m)') + 1 <= Cardinality(Pending(m))
    BY <1>1, <2>1, <2>2, Counting
  <2>4. credited'[m] \in {credited[m], credited[m] + 1}
    BY <1>2, <1>7 DEF HandlerInv, HandlerTypes
  <2>5. QED
    BY <1>2, <1>3, <1>6, <2>3, <2>4
<1>8. CASE m # current[c]
  <2>1. credited'[m] = credited[m]
    BY <1>2, <1>8 DEF HandlerInv, HandlerTypes
  <2>2. QED
    BY <1>2, <1>3, <1>6, <2>1
<1>9. QED
  BY <1>7, <1>8

\* The other steps only take messages off the consumers.
LEMMA OthersOwe ==
  ASSUME AccountInv, HandlerInv, BrokerInv, Next, UNCHANGED <<credited, delivered>>
  PROVE  CreditsOwed'
<1>1. ASSUME NEW m \in Messages PROVE Pending(m)' \subseteq Pending(m)
  <2> USE DEF Pending, BrokerInv, BrokerTypeOK, HandlerInv, HandlerTypes
  <2>1. CASE UNCHANGED <<buffer, current, at>>
    BY <2>1
  <2>2. ASSUME NEW c \in Consumers, NEW n \in Messages, TakeBalance(c, n)
        PROVE  Pending(m)' \subseteq Pending(m)
    BY <2>2 DEF TakeBalance, Take, Proceeds
  <2>3. ASSUME NEW c \in Consumers, NEW next \in {"idle", "return", "saga", "close"},
               at' = [at EXCEPT ![c] = next], UNCHANGED buffer,
               current' = [current EXCEPT ![c] = NIL] \/ current' = current
        PROVE  Pending(m)' \subseteq Pending(m)
    BY <2>3, BrokerAssumption
  <2>4. ASSUME NEW cs \in SUBSET Consumers, Gone(cs),
               \A c \in Consumers : at'[c] \in {"idle", at[c]}
        PROVE  Pending(m)' \subseteq Pending(m)
    BY <2>4, BrokerAssumption DEF Gone
  <2>5. CASE CrashAll
    BY <2>4, <2>5 DEF CrashAll, Crash
  <2>6. ASSUME NEW c \in Consumers, PanicBalance(c) PROVE Pending(m)' \subseteq Pending(m)
    <3>1. {c} \in SUBSET Consumers /\ Gone({c}) /\ \A d \in Consumers : at'[d] \in {"idle", at[d]}
      BY <2>6 DEF PanicBalance, Panic, Proceeds
    <3>2. QED
      BY <2>4, <3>1
  <2>7. ASSUME NEW c \in Consumers, LoseConnection(c) PROVE Pending(m)' \subseteq Pending(m)
    <3>1. CASE Cut(c)
      BY <2>1, <2>7, <3>1 DEF LoseConnection, Cut, handlerVars
    <3>2. CASE RangeEnds(c)
      <4>1. {c} \in SUBSET Consumers /\ Gone({c}) /\ at' = at
        BY <2>7, <3>2 DEF LoseConnection, RangeEnds, handlerVars
      <4>2. QED
        BY <2>4, <4>1
    <3>3. QED
      BY <2>7, <3>1, <3>2 DEF LoseConnection
  <2>8. ASSUME NEW c \in Consumers, Handler(c) PROVE Pending(m)' \subseteq Pending(m)
    <3>1. CASE IncrementBalance(c)
      <4>1. PICK next \in {"return", "close", "saga"} : at' = [at EXCEPT ![c] = next]
        BY <3>1 DEF IncrementBalance, Proceeds
      <4>2. QED
        BY <2>3, <3>1, <4>1 DEF IncrementBalance, brokerVars
    <3>2. CASE CloseOnce(c) \/ PlaySaga(c)
      BY <2>3, <3>2 DEF CloseOnce, PlaySaga, Proceeds, brokerVars
    <3>3. CASE ReturnBalance(c)
      BY <2>3, <3>3 DEF ReturnBalance, Return, Proceeds
    <3>4. QED
      BY <2>8, <3>1, <3>2, <3>3 DEF Handler
  <2>9. ASSUME NEW c \in Consumers, NEW n \in Messages, DeliverBalance(c, n)
        PROVE  FALSE
    <3>1. delivered'[n] = delivered[n] + 1 /\ delivered[n] \in Nat
      BY <2>9 DEF DeliverBalance, Deliver
    <3>2. QED
      BY <3>1
  <2>10. ASSUME NEW q \in Requests, Request(q) PROVE UNCHANGED <<buffer, current, at>>
    BY <2>10
       DEF Request, CallBank, InsertRow, UpdateRow, DeleteRow, LogFee, brokerVars, handlerVars
  <2>11. QED
    BY <2>1, <2>2, <2>5, <2>6, <2>7, <2>8, <2>9, <2>10
       DEF Next, Begin, Pay, Publish, RegisterConsumerTopic, WithConsumerTopic, brokerVars, handlerVars
<1>2. QED
  BY <1>1, OwedStays DEF HandlerInv, BrokerInv

\* Every step keeps the types of the handlers, and what they know of their work.
LEMMA HandlersWork ==
  ASSUME AccountInv, HandlerInv, BrokerInv, BrokerInv', Next
  PROVE  HandlerTypes' /\ Working'
<1>0. EverOnce => EverOnce'
  <2>1. CASE UNCHANGED <<account, kind>>
    BY <2>1 DEF EverOnce
  <2>2. ASSUME NEW q \in Requests, NEW k \in Kinds, Begin(q, k) PROVE EverOnce => EverOnce'
    <3>1. kind[q] = NIL /\ kind' = [kind EXCEPT ![q] = k] /\ UNCHANGED account
      BY <2>2 DEF Begin, AccountInv, Places
    <3>2. QED
      BY <3>1, OnceStays
  <2>3. ASSUME NEW q \in Requests, Request(q) PROVE UNCHANGED <<account, kind>>
    BY <2>3 DEF Request, CallBank, InsertRow, UpdateRow, DeleteRow, LogFee
  <2>4. ASSUME NEW c \in Consumers, Handler(c) PROVE UNCHANGED <<account, kind>>
    BY <2>4 DEF Handler, IncrementBalance, CloseOnce, PlaySaga, ReturnBalance, accountVars
  <2>5. QED
    BY <2>1, <2>2, <2>3, <2>4
       DEF Next, Pay, DeliverBalance, TakeBalance, RegisterConsumerTopic, LoseConnection,
           PanicBalance, CrashAll, accountVars
<1> USE DEF HandlerInv, HandlerTypes, Working
<1>1. ASSUME NEW c \in Consumers, IncrementBalance(c) PROVE HandlerTypes' /\ Working'
  <2>1. /\ UNCHANGED <<current, account, fresh, paid>> /\ at[c] = "increment"
        /\ credited' \in {credited, [credited EXCEPT ![current[c]] = @ + 1]}
    BY <1>1 DEF IncrementBalance, brokerVars
  <2>2. PICK next \in {"return", "close", "saga"} :
          /\ at' = [at EXCEPT ![c] = next]
          /\ next = "close" => row # NIL /\ row.type = "ONCE" /\ total' = total + 1
    BY <1>1, AccountAssumption DEF IncrementBalance, Proceeds
  <2>3. total \in Nat /\ total' \in {total, total + 1}
    BY <1>1 DEF IncrementBalance, AccountInv, AccountTypes
  <2>4. current[c] \in Messages
    BY <2>1 DEF BrokerInv, BrokerTypeOK
  <2>5. HandlerTypes'
    BY <2>1, <2>2, <2>4
  <2>6. Working'
    <3>1. next = "close" => EverOnce
      BY <2>2 DEF AccountInv, RowForOnce
    <3>2. QED
      BY <1>0, <2>1, <2>2, <2>3, <3>1
  <2>7. QED
    BY <2>5, <2>6
<1>2. ASSUME NEW c \in Consumers, NEW next \in {"saga", "return"}, at[c] # "idle",
             at' = [at EXCEPT ![c] = next], UNCHANGED <<current, account, total, fresh, credited>>,
             paid' \in [Messages -> Nat]
      PROVE  HandlerTypes' /\ Working'
  BY <1>0, <1>2
<1>3. ASSUME NEW c \in Consumers, PlaySaga(c) PROVE HandlerTypes' /\ Working'
  <2>1. current[c] \in Messages /\ at[c] = "saga"
    BY <1>3 DEF PlaySaga, BrokerInv, BrokerTypeOK
  <2>2. paid' \in [Messages -> Nat]
    BY <1>3, <2>1 DEF PlaySaga
  <2>3. QED
    BY <1>2, <1>3, <2>1, <2>2 DEF PlaySaga, Proceeds, brokerVars, accountVars
<1>4. ASSUME NEW c \in Consumers, CloseOnce(c) PROVE HandlerTypes' /\ Working'
  BY <1>2, <1>4 DEF CloseOnce, Proceeds, brokerVars
<1>5. ASSUME NEW c \in Consumers, NEW n \in Messages, TakeBalance(c, n) PROVE HandlerTypes' /\ Working'
  BY <1>0, <1>5, BrokerAssumption
     DEF TakeBalance, Take, Proceeds, accountVars, BrokerInv, BrokerTypeOK
<1>6. ASSUME NEW c \in Consumers, ReturnBalance(c) PROVE HandlerTypes' /\ Working'
  BY <1>0, <1>6 DEF ReturnBalance, Return, Proceeds, accountVars, BrokerInv, BrokerTypeOK
<1>7. ASSUME NEW c \in Consumers, PanicBalance(c) PROVE HandlerTypes' /\ Working'
  BY <1>0, <1>7 DEF PanicBalance, Panic, Gone, Proceeds, accountVars, BrokerInv, BrokerTypeOK
<1>8. CASE CrashAll
  BY <1>8, AccountAssumption DEF CrashAll
<1>9. ASSUME UNCHANGED <<account, total, at, credited, paid>>, fresh' \in SUBSET Consumers,
             \A c \in Consumers : current'[c] = current[c] \/ at[c] = "idle"
      PROVE  HandlerTypes' /\ Working'
  BY <1>0, <1>9
<1>10. ASSUME NEW q \in Requests, Request(q) PROVE HandlerTypes' /\ Working'
  BY <1>9, <1>10
     DEF Request, CallBank, InsertRow, UpdateRow, DeleteRow, LogFee, brokerVars, handlerVars
<1>11. ASSUME NEW q \in Requests, NEW k \in Kinds, Begin(q, k) PROVE HandlerTypes' /\ Working'
  BY <1>9, <1>11, AccountAssumption DEF Begin, brokerVars, handlerVars
<1>12. ASSUME NEW c \in Consumers, LoseConnection(c) PROVE HandlerTypes' /\ Working'
  <2>1. \A d \in Consumers : current'[d] = current[d] \/ at[d] = "idle"
    BY <1>12 DEF LoseConnection, Cut, RangeEnds, Gone
  <2>2. QED
    BY <1>9, <1>12, <2>1 DEF LoseConnection, accountVars, handlerVars
<1>13. ASSUME NEW c \in Consumers, RegisterConsumerTopic(c) PROVE HandlerTypes' /\ Working'
  BY <1>9, <1>13 DEF RegisterConsumerTopic, WithConsumerTopic, accountVars, handlerVars
<1>14. ASSUME NEW c \in Consumers, NEW m \in Messages, DeliverBalance(c, m) PROVE HandlerTypes' /\ Working'
  BY <1>9, <1>14 DEF DeliverBalance, Deliver, accountVars, handlerVars
<1>15. ASSUME NEW m \in Messages, Pay(m) PROVE HandlerTypes' /\ Working'
  BY <1>9, <1>15 DEF Pay, Publish, accountVars, handlerVars
<1> HIDE DEF HandlerInv, HandlerTypes, Working
<1>16. QED
  BY <1>1, <1>3, <1>4, <1>5, <1>6, <1>7, <1>8, <1>10, <1>11, <1>12, <1>13, <1>14, <1>15
     DEF Next, Handler

-----------------------------------------------------------------------------
(* All of it.                                                              *)

IInv == BrokerInv /\ AccountInv /\ HandlerInv

\* Where nothing of the account moves, its invariant stays.
LEMMA AccountStays ==
  ASSUME AccountInv, UNCHANGED <<accountVars, total>>
  PROVE  AccountInv'
BY DEF accountVars, AccountInv, AccountTypes, Places, OneCreate, NoRowYet, Existed, Created, BankHasIt,
   BalanceIsCredits, RowForOnce, EverOnce, LatestRuns, Running, LatestStands, RowIs

\* At the start there is neither row nor account, or both.
LEMMA InitIInv == Init => IInv
<1> SUFFICES ASSUME Init PROVE IInv
  OBVIOUS
<1>1. BrokerInv
  BY InitBrokerInv DEF Init
<1>2. AccountInv
  BY AccountAssumption
     DEF Init, AccountInv, AccountTypes, Places, OneCreate, NoRowYet, BankHasIt,
     BalanceIsCredits, RowForOnce, EverOnce, LatestRuns, Running, LatestStands, NewRow, Rows,
     Existed, Created
<1>3. HandlerTypes /\ Working
  BY AccountAssumption DEF Init, HandlerTypes, Working
<1>4. CreditsOwed
  <2> SUFFICES ASSUME NEW m \in Messages PROVE credited[m] + Cardinality(Pending(m)) <= delivered[m]
    BY DEF CreditsOwed
  <2>1. Pending(m) = {}
    BY DEF Init, BrokerInit, Pending
  <2>2. QED
    BY <2>1, FS_EmptySet DEF Init, BrokerInit
<1>5. QED
  BY <1>1, <1>2, <1>3, <1>4 DEF IInv, HandlerInv

\* Every step of a request, a consumer, the bank or the process keeps the invariant.
LEMMA NextKeepsIInv == IInv /\ [Next]_vars => IInv'
<1> SUFFICES ASSUME IInv, [Next]_vars PROVE IInv'
  OBVIOUS
<1>0. BrokerInv /\ AccountInv /\ HandlerInv
  BY DEF IInv
<1>1. BrokerInv'
  BY <1>0, BrokerSteps, NextKeepsBrokerInv
<1>2. AccountInv'
  <2>1. CASE UNCHANGED <<accountVars, total>>
    BY <1>0, <2>1, AccountStays
  <2>2. ASSUME NEW q \in Requests, Request(q) PROVE AccountInv'
    BY <1>0, <2>2, CallBankKeeps, InsertRowKeeps, UpdateRowKeeps, DeleteRowKeeps, LogFeeKeeps
       DEF Request
  <2>3. ASSUME NEW c \in Consumers, Handler(c) PROVE AccountInv'
    BY <1>0, <2>1, <2>3, IncrementKeeps, CloseOnceKeeps DEF Handler, PlaySaga, ReturnBalance
  <2>4. QED
    BY <1>0, <2>1, <2>2, <2>3, BeginKeeps, CrashKeeps
       DEF Next, Pay, DeliverBalance, TakeBalance, RegisterConsumerTopic, LoseConnection,
           PanicBalance, vars, handlerVars
<1>3. HandlerInv'
  <2>1. CASE UNCHANGED vars
    <3>1. \A m \in Messages : Pending(m)' = Pending(m)
      BY <2>1 DEF vars, brokerVars, handlerVars, Pending
    <3>2. CreditsOwed'
      BY <1>0, <2>1, <3>1, OwedStays DEF HandlerInv, BrokerInv, vars, brokerVars, handlerVars
    <3>3. HandlerTypes' /\ Working'
      BY <1>0, <2>1
         DEF HandlerInv, HandlerTypes, Working, EverOnce, vars, brokerVars, accountVars, handlerVars
    <3>4. QED
      BY <3>2, <3>3 DEF HandlerInv
  <2>2. CASE Next
    <3>1. HandlerTypes' /\ Working'
      BY <1>0, <1>1, <2>2, HandlersWork
    <3>2. CASE UNCHANGED <<credited, delivered>>
      BY <1>0, <2>2, <3>1, <3>2, OthersOwe DEF HandlerInv
    <3>3. ASSUME NEW c \in Consumers, NEW m \in Messages, DeliverBalance(c, m) PROVE CreditsOwed'
      BY <1>0, <3>3, DeliverOwes
    <3>4. ASSUME NEW c \in Consumers, IncrementBalance(c) PROVE CreditsOwed'
      BY <1>0, <3>4, IncrementOwes
    <3>5. \/ UNCHANGED <<credited, delivered>>
          \/ \E c \in Consumers, m \in Messages : DeliverBalance(c, m)
          \/ \E c \in Consumers : IncrementBalance(c)
      <4>1. ASSUME NEW q \in Requests, Request(q) PROVE UNCHANGED <<credited, delivered>>
        BY <4>1
           DEF Request, CallBank, InsertRow, UpdateRow, DeleteRow, LogFee, brokerVars, handlerVars
      <4>2. ASSUME NEW c \in Consumers, Handler(c)
            PROVE  IncrementBalance(c) \/ UNCHANGED <<credited, delivered>>
        BY <4>2 DEF Handler, CloseOnce, PlaySaga, ReturnBalance, Return, brokerVars
      <4>3. ASSUME NEW c \in Consumers, RegisterConsumerTopic(c) \/ LoseConnection(c) \/ PanicBalance(c)
            PROVE  UNCHANGED <<credited, delivered>>
        BY <4>3 DEF RegisterConsumerTopic, LoseConnection, PanicBalance, WithConsumerTopic, Cut,
           RangeEnds, Panic, handlerVars
      <4>4. QED
        BY <2>2, <4>1, <4>2, <4>3
           DEF Next, Begin, Pay, Publish, TakeBalance, Take, CrashAll, Crash, brokerVars, handlerVars
    <3>6. QED
      BY <3>1, <3>2, <3>3, <3>4, <3>5 DEF HandlerInv
  <2>3. QED
    BY <2>1, <2>2
<1>4. QED
  BY <1>1, <1>2, <1>3 DEF IInv

\* The invariant holds of every behaviour of the account.
THEOREM AccountInvariant == Spec => []IInv
BY InitIInv, NextKeepsIInv, PTL DEF Spec

\* The balance is what the messages have added: UpdateVA, CreateVA and
\* DeleteVAAccount, however they meet IncrementBalanceVA, lose no amount.
THEOREM NoAmountLost == Spec => []BalanceIsCredits
<1>1. IInv => BalanceIsCredits
  BY DEF IInv, AccountInv
<1>2. QED
  BY <1>1, AccountInvariant, PTL

\* UpdateBalanceVA adds an amount at most once per delivery of its message, and
\* there is at most one delivery more than there were faults.
THEOREM CreditedOncePerDelivery == Spec => []CreditedPerDelivery
<1>1. IInv => CreditedPerDelivery
  <2> SUFFICES ASSUME IInv, NEW m \in Messages
               PROVE  credited[m] <= delivered[m] /\ delivered[m] <= 1 + faults
    BY DEF CreditedPerDelivery
  <2>1. delivered[m] <= 1 + faults
    BY DEF IInv, BrokerInv, DeliveryCount
  <2>2. /\ credited[m] \in Nat /\ delivered[m] \in Nat
        /\ credited[m] + Cardinality(Pending(m)) <= delivered[m]
    BY DEF IInv, HandlerInv, CreditsOwed, HandlerTypes, BrokerInv, BrokerTypeOK
  <2>3. Cardinality(Pending(m)) \in Nat
    <3>1. Pending(m) \in SUBSET Consumers
      BY DEF Pending
    <3>2. Main \in Consumers
      BY AccountAssumption
    <3>3. QED
      BY <3>1, <3>2, Counting
  <2>4. QED
    BY <2>1, <2>2, <2>3
<1>2. QED
  BY <1>1, AccountInvariant, PTL

\* A create that the bank refused in good order leaves no row behind.
THEOREM RefusedCreateTakenBack == Spec => []NoOrphanRow
<1>1. IInv => NoOrphanRow
  <2> SUFFICES ASSUME IInv, row # NIL, bank = "none"
               PROVE  /\ account.provider = "MSB"
                      /\ \E q \in Requests : kind[q] = "create" /\ place[q] \notin {"done", "failed"}
    BY DEF NoOrphanRow
  <2>1. PICK q \in Requests : Created(q)
    BY DEF IInv, AccountInv, NoRowYet, Existed
  <2>2. QED
    BY <2>1 DEF IInv, AccountInv, AccountTypes, BankHasIt, Created
<1>2. QED
  BY <1>1, AccountInvariant, PTL

\* Requests that do not meet leave bank and row in agreement, once the latest has
\* come to its end, whatever failed or crashed before it, and whatever type the
\* updates gave the account: only a payment counted while it was for a single
\* payment closes the row after them (order_consumer.go:65-66).
THEOREM LatestRequestWins == Spec => []LatestWins
<1>1. IInv => LatestWins
  BY DEF IInv, AccountInv, LatestStands, LatestWins, RowIs
<1>2. QED
  BY <1>1, AccountInvariant, PTL

\* Two consumers add the same message at once only after a lost connection.
THEOREM BalanceOverlapNeedsCut == Spec => []OverlapNeedsCut
<1>1. IInv => OverlapNeedsCut
  BY BrokerInvOverlap DEF IInv
<1>2. QED
  BY <1>1, AccountInvariant, PTL
=============================================================================
