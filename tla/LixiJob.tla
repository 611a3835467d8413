------------------------------ MODULE LixiJob ------------------------------
(***************************************************************************)
(* The lucky money job on one campaign.  Every three seconds JobLixi reads *)
(* the active campaigns, pays the users of each one after the other, and   *)
(* stores what it has spent after the last.                                *)
(*                                                                         *)
(* A payment is a saga (LixiOrchestrator, a flow of module PaymentSaga).   *)
(* Its first step refuses a user who has an order of this campaign.  An    *)
(* error of its result means that nothing was paid (LixiErrorIsUnpaid): a  *)
(* write to the order or a confirmation that fails makes a compensation    *)
(* panic, whether or not the user was paid.  A panic ends the job's task   *)
(* in the pool, and nothing starts it again before the process restarts.   *)
(***************************************************************************)
EXTENDS Integers

CONSTANTS
  Users,           \* the number of phones of the campaign
  MaxAmount,       \* bound on the money of a campaign
  MaxActivations,  \* bound on how often it is started again
  MaxForgets,      \* bound on passes that are cut off or not stored
  MaxBlind         \* bound on reads of the user's order that fail

ASSUME LixiAssumption ==
  /\ Users \in Nat /\ MaxAmount \in Nat
  /\ MaxActivations \in Nat /\ MaxForgets \in Nat /\ MaxBlind \in Nat

VARIABLES
  campaign,     \* what does not change: method, amount, maxUser, choices
  doc,          \* the campaign as it is stored: status, used, scan
  job,          \* where the job is
  mem,          \* the job's copy of doc
  at,           \* the phone it has come to
  orders,       \* orders[u]: the orders of this campaign user u has
  paid,         \* paid[u]: how often user u got money
  spent,        \* how much they got together
  payments,     \* and in how many payments
  activations, forgets, blind   \* how often each has happened

vars == <<campaign, doc, job, mem, at, orders, paid, spent, payments,
          activations, forgets, blind>>

\* choices: FixAmount, or the amounts FindRandomAmount draws from.
Campaigns ==
  [method : {"FIXED"}, amount : 0 .. MaxAmount, maxUser : 0 .. Users,
   choices : {{a} : a \in 1 .. MaxAmount}]
  \cup
  [method : {"RANDOM"}, amount : 0 .. MaxAmount, maxUser : 0 .. Users,
   choices : SUBSET (1 .. MaxAmount)]

Init ==
  /\ campaign \in Campaigns
  /\ doc = [status |-> "ACTIVE", used |-> 0, scan |-> 0]
  /\ job = "idle"
  /\ mem = doc
  /\ at = 1
  /\ orders = [u \in 1 .. Users |-> 0]
  /\ paid = [u \in 1 .. Users |-> 0]
  /\ spent = 0 /\ payments = 0
  /\ activations = 0 /\ forgets = 0 /\ blind = 0

-----------------------------------------------------------------------------
(* A pass of the job.                                                      *)

FindStarted ==
  /\ job = "idle" /\ doc.status = "ACTIVE"
  /\ job' = "paying"
  /\ mem' = doc
  /\ at' = 1
  /\ UNCHANGED <<campaign, doc, orders, paid, spent, payments, activations, forgets, blind>>

HasPlace == mem.scan < campaign.maxUser

Fits(a) == campaign.amount - mem.used - a >= 0

\* The campaign is full, the phone is of no user or there is no amount; any phone
\* may be of no user.
SkipUser ==
  /\ job = "paying" /\ at <= Users
  /\ at' = at + 1
  /\ UNCHANGED <<campaign, doc, job, mem, orders, paid, spent, payments,
                 activations, forgets, blind>>

\* break job_user: an amount that is too large ends the pass for everybody.
OutOfMoney ==
  /\ job = "paying" /\ at <= Users /\ HasPlace
  /\ \E a \in campaign.choices : ~ Fits(a)
  /\ at' = Users + 1
  /\ UNCHANGED <<campaign, doc, job, mem, orders, paid, spent, payments,
                 activations, forgets, blind>>

\* LixiOrchestrator begins: CheckLuckyMoney finds no order, or its error is
\* taken for that, and an order is created.
CreatesOrder(u) ==
  /\ \/ orders[u] = 0 /\ UNCHANGED blind
     \/ orders[u] > 0 /\ blind < MaxBlind /\ blind' = blind + 1
  /\ orders' = [orders EXCEPT ![u] = @ + 1]

GetsMoney(u, a) ==
  /\ paid' = [paid EXCEPT ![u] = @ + 1]
  /\ spent' = spent + a
  /\ payments' = payments + 1

Counted(a) == [mem EXCEPT !.used = @ + a, !.scan = @ + 1]

\* Mutant: an order of the same campaign is no obstacle.
PayAgain ==
  /\ job = "paying" /\ at <= Users /\ HasPlace
  /\ \E a \in campaign.choices :
       /\ Fits(a)
       /\ orders' = [orders EXCEPT ![at] = 1]
       /\ GetsMoney(at, a)
       /\ mem' = Counted(a)
  /\ at' = at + 1
  /\ UNCHANGED <<campaign, doc, job, activations, forgets, blind>>

Pay ==
  /\ job = "paying" /\ at <= Users /\ HasPlace
  /\ \E a \in campaign.choices :
       /\ Fits(a)
       /\ CreatesOrder(at)
       /\ GetsMoney(at, a)
       /\ mem' = Counted(a)
  /\ at' = at + 1
  /\ UNCHANGED <<campaign, doc, job, activations, forgets>>

\* The result has an error: there is an order already, it could not be created,
\* or the transaction was refused.
Refused ==
  /\ job = "paying" /\ at <= Users /\ HasPlace
  /\ \E a \in campaign.choices : Fits(a)
  /\ CreatesOrder(at) \/ UNCHANGED <<orders, blind>>
  /\ at' = at + 1
  /\ UNCHANGED <<campaign, doc, job, mem, paid, spent, payments, activations, forgets>>

\* The saga panics over an order or a transaction that is nil.
PayPanics ==
  /\ job = "paying" /\ at <= Users /\ HasPlace
  /\ forgets < MaxForgets /\ forgets' = forgets + 1
  /\ \E a \in campaign.choices :
       /\ Fits(a)
       /\ CreatesOrder(at)
       /\ GetsMoney(at, a) \/ UNCHANGED <<paid, spent, payments>>
  /\ job' = "dead"
  /\ UNCHANGED <<campaign, doc, mem, at, activations>>

\* Mutant: only the status is stored.
StoreForgets ==
  /\ job = "paying" /\ at > Users
  /\ doc' = [doc EXCEPT !.status = "PAUSED"]
  /\ job' = "idle"
  /\ UNCHANGED <<campaign, mem, at, orders, paid, spent, payments,
                 activations, forgets, blind>>

\* UpdateOne replaces the document; its error is for nobody.
Store ==
  /\ job = "paying" /\ at > Users
  /\ \/ doc' = [mem EXCEPT !.status = "PAUSED"] /\ UNCHANGED forgets
     \/ forgets < MaxForgets /\ forgets' = forgets + 1 /\ UNCHANGED doc
  /\ job' = "idle"
  /\ UNCHANGED <<campaign, mem, at, orders, paid, spent, payments,
                 activations, blind>>

-----------------------------------------------------------------------------
(* Around the job.                                                         *)

\* The process dies, or a query of the job fails: FindStarted and
\* FindRandomAmount then close a cursor that is nil, which panics.
Dies ==
  /\ job # "dead"
  /\ forgets < MaxForgets /\ forgets' = forgets + 1
  /\ job' = "dead"
  /\ UNCHANGED <<campaign, doc, mem, at, orders, paid, spent, payments,
                 activations, blind>>

Restart ==
  /\ job = "dead"
  /\ job' = "idle"
  /\ UNCHANGED <<campaign, doc, mem, at, orders, paid, spent, payments,
                 activations, forgets, blind>>

\* The promotion service starts the campaign again.
Activate ==
  /\ doc.status = "PAUSED" /\ job # "paying"
  /\ activations < MaxActivations /\ activations' = activations + 1
  /\ doc' = [doc EXCEPT !.status = "ACTIVE"]
  /\ UNCHANGED <<campaign, job, mem, at, orders, paid, spent, payments, forgets, blind>>

JobLixi ==
  FindStarted \/ SkipUser \/ OutOfMoney \/ Pay \/ Refused \/ PayPanics \/ Store

Next == JobLixi \/ Dies \/ Restart \/ Activate

Spec == Init /\ [][Next]_vars

-----------------------------------------------------------------------------
(* Properties.                                                             *)

\* However often a campaign runs, a user is paid once, and once more for every
\* read of the orders that failed without anybody noticing (InitOrder).
PaidOncePerUser == \A u \in 1 .. Users : paid[u] <= 1 + blind

\* However often a campaign runs it spends its budget and fills its places once,
\* and at most once more for every pass that was cut off or not stored: the next
\* one starts from the totals of the document (job_lixi.go:106).
BudgetKept ==
  /\ spent <= campaign.amount * (1 + forgets)
  /\ payments <= campaign.maxUser * (1 + forgets)
=============================================================================
