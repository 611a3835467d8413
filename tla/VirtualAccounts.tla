-------------------------- MODULE VirtualAccounts --------------------------
(***************************************************************************)
(* One virtual account: its state at the bank and its row in MongoDB, the  *)
(* requests that create, update, close and reopen it, and the consumer of  *)
(* the bank's balance messages (UpdateBalanceVA) on top of module Broker.  *)
(*                                                                         *)
(* A request calls the bank and the database one after the other, with no  *)
(* lock and, but for the create at MSB, nothing that takes a call back.    *)
(* initVAStrategy builds an application for every request and so registers *)
(* one more consumer of the balance messages.                              *)
(***************************************************************************)
EXTENDS Broker

CONSTANTS
  Requests,     \* the requests on the account; each owns a consumer
  Main,         \* the consumer main registers
  Accounts,     \* the accounts to consider: their provider and their first type
  Kinds,        \* the requests to consider, out of "create", "update", "close", "reopen"
  Outcomes,     \* how a call may end: "ok", "err" without effect, "lost" with
  AtOnce,       \* bound on the requests that run at the same time
  MaxEvents     \* bound on the requests and the payments into the account, together

Types == {"ONCE", "MANY"}

\* What a row may hold.
Rows == [status : {"OPEN", "CLOSE"}, type : Types, balance : Nat]

ASSUME AccountAssumption ==
  /\ IsFiniteSet(Consumers)
  /\ Consumers = Requests \cup {Main} /\ Main \notin Requests
  /\ Accounts \subseteq [provider : {"MSB", "VCCB"}, type : Types]
  /\ Kinds \subseteq {"create", "update", "close", "reopen"}
  /\ "ok" \in Outcomes /\ Outcomes \subseteq {"ok", "err", "lost"}
  /\ AtOnce \in Nat /\ MaxEvents \in Nat
  /\ NIL \notin Rows /\ NIL \notin {"create", "update", "close", "reopen"}

VARIABLES
  account,   \* the account's provider, and the type its create asks for
  bank,      \* the account at the bank
  row,       \* its row: status, type and balance
  kind,      \* kind[q]: what request q asks for
  place,     \* place[q]: the call q makes next, or how it ended
  latest,    \* the request that began last
  fees,      \* management fees logged for the account
  fresh,     \* the consumers that are about to be registered
  at,        \* at[c]: the call of UpdateBalanceVA consumer c makes next
  credited,  \* credited[m]: how often the amount of m was added to the balance
  total,     \* the amounts that were added to the balance, together
  paid       \* paid[m]: how often the merchant was paid for m

accountVars == <<account, bank, row, kind, place, latest, fees>>
handlerVars == <<at, credited, total, paid>>
vars == <<brokerVars, accountVars, fresh, handlerVars>>

NewRow == [status |-> "OPEN", type |-> account.type, balance |-> 0]

Init ==
  /\ BrokerInit
  /\ account \in Accounts
  \* There is no account yet, or one that was created before.
  /\ \/ bank = "none" /\ row = NIL
     \/ bank = "OPEN" /\ row = NewRow
  /\ kind = [q \in Requests |-> NIL]
  /\ place = [q \in Requests |-> "idle"]
  /\ latest = NIL
  /\ fees = 0
  /\ fresh = {Main}
  /\ at = [c \in Consumers |-> "idle"]
  /\ credited = [m \in Messages |-> 0]
  /\ total = 0
  /\ paid = [m \in Messages |-> 0]

-----------------------------------------------------------------------------
(* The requests.                                                           *)

Running(q) == place[q] \in {"insert", "bank", "row", "delete", "fee"}

Goes(q, next) == place' = [place EXCEPT ![q] = next]

\* A call of q: it moves on after "ok", and gives up after any other outcome.
Ends(q, outcome, next) ==
  Goes(q, CASE outcome = "ok" -> next [] outcome = "err" -> "failed" [] OTHER -> "lost")

\* MSB wants a number first, from the row; at VCCB the bank chooses it.
FirstCall(k) == IF k = "create" /\ account.provider = "MSB" THEN "insert" ELSE "bank"

Events == Cardinality({q \in Requests : place[q] # "idle"}) + Cardinality(Queued)

\* initVAStrategy registers the consumers before it looks for the merchant's
\* provider, and panics without one.  All but a create then look the account up,
\* and fail when it is not there or another merchant's.
Begin(q, k) ==
  /\ place[q] = "idle" /\ Events < MaxEvents
  /\ Cardinality({p \in Requests : Running(p)}) < AtOnce
  /\ k = "create" => bank = "none" /\ \A p \in Requests : kind[p] # "create"
  /\ kind' = [kind EXCEPT ![q] = k]
  /\ latest' = q
  /\ fresh' = fresh \cup {q}
  /\ \/ Goes(q, IF k # "create" /\ row = NIL THEN "failed" ELSE FirstCall(k))
     \/ "err" \in Outcomes /\ Goes(q, "failed")
  /\ UNCHANGED <<brokerVars, account, bank, row, fees, handlerVars>>

\* What the bank makes of the account.  MSB's update sends Status "1", active.
BankStatus(k) ==
  CASE k \in {"create", "reopen"} -> "OPEN"
    [] k = "close" -> "CLOSE"
    [] OTHER -> IF account.provider = "MSB" THEN "OPEN" ELSE bank

\* Opening an account of type MANY costs a fee.
AfterOpening(type) == IF type = "MANY" THEN "fee" ELSE "done"

AfterBank(k) ==
  IF k = "create" /\ account.provider = "MSB" THEN AfterOpening(account.type) ELSE "row"

\* The clients of va/create, update, close and reopen return an error for every
\* code but "2xx", although after "102" the bank may do what it was asked; so it
\* may when no answer comes.
ActionVA(code) == CASE code = "2xx" -> "ok" [] code = "102" -> "lost" [] OTHER -> "err"

\* Mutant: the row of a create the bank refused stays.
CallBankKeepsRow(q) ==
  /\ place[q] = "bank"
  /\ \E outcome \in Outcomes :
       /\ bank' = IF outcome = "err" THEN bank ELSE BankStatus(kind[q])
       /\ Ends(q, outcome, AfterBank(kind[q]))
  /\ UNCHANGED <<brokerVars, account, row, kind, latest, fees, fresh, handlerVars>>

\* An error of MSB's create takes the row back.
CallBank(q) ==
  /\ place[q] = "bank"
  /\ \E outcome \in Outcomes \cap {ActionVA(code) : code \in {"2xx", "102", "4xx"}} :
       /\ bank' = IF outcome = "err" THEN bank ELSE BankStatus(kind[q])
       /\ IF outcome # "ok" /\ kind[q] = "create" /\ account.provider = "MSB"
          THEN Goes(q, "delete")
          ELSE Ends(q, outcome, AfterBank(kind[q]))
  /\ UNCHANGED <<brokerVars, account, row, kind, latest, fees, fresh, handlerVars>>

\* IVA.CreateVA: before the bank at MSB, after it at VCCB.
InsertRow(q) ==
  /\ \/ place[q] = "insert"
     \/ place[q] = "row" /\ kind[q] = "create"
  /\ \E outcome \in Outcomes :
       /\ row' = IF outcome = "err" THEN row ELSE NewRow
       /\ Ends(q, outcome, IF place[q] = "insert" THEN "bank" ELSE AfterOpening(account.type))
  /\ UNCHANGED <<brokerVars, account, bank, kind, latest, fees, fresh, handlerVars>>

\* What IVA.UpdateVA may make of the row: an update at MSB sets the type to the
\* one it asks for, close and reopen set the status.
Updated(k) ==
  CASE k = "update" /\ account.provider = "MSB" -> {[row EXCEPT !.type = type] : type \in Types}
    [] k = "update" /\ account.provider = "VCCB" -> {row}
    [] OTHER -> {[row EXCEPT !.status = BankStatus(k)]}

\* A reopen logs its fee by the row it read back.
AfterUpdate(k) == IF k = "reopen" THEN AfterOpening(row.type) ELSE "done"

\* Mutant: the row is replaced, balance and all.
UpdateReplacesRow(q) ==
  /\ place[q] = "row" /\ kind[q] # "create" /\ row # NIL
  /\ \E updated \in Updated(kind[q]) : row' = [updated EXCEPT !.balance = 0]
  /\ Goes(q, AfterUpdate(kind[q]))
  /\ UNCHANGED <<brokerVars, account, bank, kind, latest, fees, fresh, handlerVars>>

\* Mutant: the status is not among the fields a reopen sets.
UpdateForgetsReopen(q) ==
  /\ place[q] = "row" /\ kind[q] # "create" /\ row # NIL
  /\ \E updated \in Updated(kind[q]) : row' = IF kind[q] = "reopen" THEN row ELSE updated
  /\ Goes(q, AfterUpdate(kind[q]))
  /\ UNCHANGED <<brokerVars, account, bank, kind, latest, fees, fresh, handlerVars>>

\* IVA.UpdateVA sets single fields, then reads the row.  A row that is gone is an
\* error of the read.
UpdateRow(q) ==
  /\ place[q] = "row" /\ kind[q] # "create"
  /\ \/ row = NIL /\ Goes(q, "failed") /\ UNCHANGED row
     \/ /\ row # NIL
        /\ \E outcome \in Outcomes, updated \in Updated(kind[q]) :
             /\ row' = IF outcome = "err" THEN row ELSE updated
             /\ Ends(q, outcome, AfterUpdate(kind[q]))
  /\ UNCHANGED <<brokerVars, account, bank, kind, latest, fees, fresh, handlerVars>>

\* DeleteVAAccount; its own error leaves the row in place.
DeleteRow(q) ==
  /\ place[q] = "delete"
  /\ \E outcome \in Outcomes :
       /\ row' = IF outcome = "err" THEN row ELSE NIL
       /\ Goes(q, IF outcome = "ok" THEN "failed" ELSE "kept")
  /\ UNCHANGED <<brokerVars, account, bank, kind, latest, fees, fresh, handlerVars>>

\* LogVAManagementFee; its error is returned although the account is open.
LogFee(q) ==
  /\ place[q] = "fee"
  /\ \E outcome \in Outcomes :
       /\ fees' = IF outcome = "err" THEN fees ELSE fees + 1
       /\ Ends(q, outcome, "done")
  /\ UNCHANGED <<brokerVars, account, bank, row, kind, latest, fresh, handlerVars>>

Request(q) ==
  CallBank(q) \/ InsertRow(q) \/ UpdateRow(q) \/ DeleteRow(q) \/ LogFee(q)

-----------------------------------------------------------------------------
(* UpdateBalanceVA, as the fn of the topic's consumers.                    *)

Proceeds(c, next) == at' = [at EXCEPT ![c] = next]

TakeBalance(c, m) ==
  /\ Take(c, m)
  /\ Proceeds(c, "increment")
  /\ UNCHANGED <<accountVars, fresh, credited, total, paid>>

\* Mutant: an increment is tried again when its reply is lost.
IncrementRetries(c) ==
  /\ at[c] = "increment"
  /\ row # NIL => credited[current[c]] < 3
  /\ row' = IF row = NIL THEN NIL ELSE [row EXCEPT !.balance = @ + 1]
  /\ credited' = IF row = NIL THEN credited ELSE [credited EXCEPT ![current[c]] = @ + 1]
  /\ total' = IF row = NIL THEN total ELSE total + 1
  /\ \/ Proceeds(c, IF row = NIL THEN "return" ELSE "saga")
     \/ UNCHANGED at
  /\ UNCHANGED <<brokerVars, account, bank, kind, place, latest, fees, fresh, paid>>

\* IncrementBalanceVA adds, then reads the row; an error ends the handler.  For
\* an account without a row there is nothing to add to: the read fails.  The type
\* that is read decides whether the account is closed, whatever it is by then.
IncrementBalance(c) ==
  /\ at[c] = "increment"
  /\ \/ /\ row = NIL
        /\ Proceeds(c, "return")
        /\ UNCHANGED <<row, credited, total>>
     \/ /\ row # NIL
        /\ \E outcome \in Outcomes :
             /\ row' = IF outcome = "err" THEN row ELSE [row EXCEPT !.balance = @ + 1]
             /\ credited' = IF outcome = "err" THEN credited
                            ELSE [credited EXCEPT ![current[c]] = @ + 1]
             /\ total' = IF outcome = "err" THEN total ELSE total + 1
             /\ Proceeds(c, CASE outcome # "ok" -> "return"
                              [] outcome = "ok" /\ row.type = "ONCE" -> "close"
                              [] OTHER -> "saga")
  /\ UNCHANGED <<brokerVars, account, bank, kind, place, latest, fees, fresh, paid>>

\* The account of a single payment is closed, in the row only; an error is
\* overwritten by the next assignment.
CloseOnce(c) ==
  /\ at[c] = "close"
  /\ \E outcome \in Outcomes :
       row' = IF outcome = "err" \/ row = NIL THEN row ELSE [row EXCEPT !.status = "CLOSE"]
  /\ Proceeds(c, "saga")
  /\ UNCHANGED <<brokerVars, account, bank, kind, place, latest, fees, fresh, credited, total, paid>>

\* Play: a new order and a new transaction for the merchant, whatever came of
\* earlier deliveries (flow UpdateBalanceVA of module PaymentSaga).
PlaySaga(c) ==
  /\ at[c] = "saga"
  /\ \E applied \in BOOLEAN :
       /\ ~ applied => "err" \in Outcomes
       /\ paid' = IF applied THEN [paid EXCEPT ![current[c]] = @ + 1] ELSE paid
  /\ Proceeds(c, "return")
  /\ UNCHANGED <<brokerVars, accountVars, fresh, credited, total>>

ReturnBalance(c) ==
  /\ at[c] = "return"
  /\ Return(c)
  /\ Proceeds(c, "idle")
  /\ UNCHANGED <<accountVars, fresh, credited, total, paid>>

\* A compensation of the saga runs into a nil pointer.
PanicBalance(c) ==
  /\ at[c] = "saga"
  /\ Panic(c)
  /\ Proceeds(c, "idle")
  /\ UNCHANGED <<accountVars, fresh, credited, total, paid>>

Handler(c) ==
  IncrementBalance(c) \/ CloseOnce(c) \/ PlaySaga(c) \/ ReturnBalance(c)

-----------------------------------------------------------------------------
(* The broker, the process and the bank's payers.                          *)

\* A payer can only pay into an account the bank has.
Pay(m) ==
  /\ bank # "none" /\ Events < MaxEvents
  /\ Publish(m)
  /\ UNCHANGED <<accountVars, fresh, handlerVars>>

RegisterConsumerTopic(c) ==
  /\ c \in fresh
  /\ WithConsumerTopic(c)
  /\ fresh' = fresh \ {c}
  /\ UNCHANGED <<accountVars, handlerVars>>

DeliverBalance(c, m) ==
  /\ Deliver(c, m)
  /\ UNCHANGED <<accountVars, fresh, handlerVars>>

LoseConnection(c) ==
  /\ Cut(c) \/ RangeEnds(c)
  /\ UNCHANGED <<accountVars, fresh, handlerVars>>

\* The process dies and is started again.
CrashAll ==
  /\ Crash
  /\ place' = [q \in Requests |-> IF Running(q) THEN "crashed" ELSE place[q]]
  /\ fresh' = {Main}
  /\ at' = [c \in Consumers |-> "idle"]
  /\ UNCHANGED <<account, bank, row, kind, latest, fees, credited, total, paid>>

Next ==
  \/ \E q \in Requests, k \in Kinds : Begin(q, k)
  \/ \E q \in Requests : Request(q)
  \/ \E m \in Messages : Pay(m)
  \/ \E c \in Consumers, m \in Messages : DeliverBalance(c, m) \/ TakeBalance(c, m)
  \/ \E c \in Consumers :
       RegisterConsumerTopic(c) \/ LoseConnection(c) \/ Handler(c) \/ PanicBalance(c)
  \/ CrashAll

Spec == Init /\ [][Next]_vars

-----------------------------------------------------------------------------
(* Properties.                                                             *)

\* The balance is what the messages have added to it: no request, however it
\* meets them, loses an amount.
BalanceIsCredits == row # NIL => row.balance = total

\* An amount is added once per delivery at most: a second time only after a
\* panic, a lost connection or a crash had the message delivered again.
CreditedPerDelivery ==
  \A m \in Messages : credited[m] <= delivered[m] /\ delivered[m] <= 1 + faults

\* An account the bank does not have keeps a row only while MSB is asked, or when
\* the create was cut short by a crash, a lost reply or a delete that failed: a
\* create that is refused in good order is taken back.
NoOrphanRow ==
  row # NIL /\ bank = "none" =>
    /\ account.provider = "MSB"
    /\ \E q \in Requests : kind[q] = "create" /\ place[q] \notin {"done", "failed"}

\* A payment may have read the account as one for a single payment.
EverOnce ==
  \/ account.type = "ONCE"
  \/ account.provider = "MSB" /\ \E q \in Requests : kind[q] = "update"

\* Once a create, close or reopen has come to its end and nothing else began
\* since, bank and row agree, whatever went wrong before it, unless a payment into
\* an account that was for a single payment when the payment was counted has closed
\* the row, as it does however late, and of whatever type the account is by then.
\* This holds for requests that do not meet.
LatestWins ==
  /\ AtOnce = 1 /\ latest # NIL
  /\ kind[latest] # "update" /\ place[latest] \in {"fee", "done"}
  => /\ row # NIL
     /\ \/ row.status = bank
        \/ row.status = "CLOSE" /\ total > 0 /\ EverOnce
=============================================================================
