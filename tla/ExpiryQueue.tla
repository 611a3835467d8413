---------------------------- MODULE ExpiryQueue ----------------------------
(***************************************************************************)
(* The expiry job over all the orders.  Every five seconds it reads a few  *)
(* of the open orders that have expired, in no particular order, and works *)
(* through them.  What it does to one order is the subject of PaymentSaga  *)
(* and BankSettlement; here an order is open or closed.                    *)
(*                                                                         *)
(* A NAPAS order is closed when the bank says how the payment ended and    *)
(* its transaction is found, or when the bank cannot be asked.  Any other  *)
(* NAPAS order stays as it is and is read again: IsRetrievedOrder is set   *)
(* in the job's copy and never stored.                                     *)
(***************************************************************************)
EXTENDS Integers, FiniteSets, FiniteSetsExt

CONSTANTS
  Orders,
  Limit,      \* of the job's query
  MaxFails,   \* bound on calls that fail
  MaxCrashes  \* bound on crashes

ASSUME QueueAssumption ==
  /\ IsFiniteSet(Orders)
  /\ Limit \in Nat \ {0} /\ MaxFails \in Nat /\ MaxCrashes \in Nat

VARIABLES
  napas,    \* the NAPAS orders
  known,    \* those whose payment has ended, with the transaction found
  order,    \* order[o]: "fresh", "late" (open and expired) or "closed"
  batch,    \* what is left of the orders the job has read
  fails, crashes

vars == <<napas, known, order, batch, fails, crashes>>

Init ==
  /\ napas \in SUBSET Orders
  /\ known = {}
  /\ order = [o \in Orders |-> "fresh"]
  /\ batch = {}
  /\ fails = 0 /\ crashes = 0

Late == {o \in Orders : order[o] = "late"}

\* Nothing the job can do about them.
Stuck == (Late \cap napas) \ known

-----------------------------------------------------------------------------
(* The job.                                                                *)

\* Mutant: one order less than the query allows.
GetExpiredOrderFewer ==
  /\ batch = {} /\ Late # {}
  /\ batch' \in {b \in SUBSET Late : Cardinality(b) = Min({Limit - 1, Cardinality(Late)})}
  /\ UNCHANGED <<napas, known, order, fails, crashes>>

GetExpiredOrder ==
  /\ batch = {} /\ Late # {}
  /\ batch' \in {b \in SUBSET Late : Cardinality(b) = Min({Limit, Cardinality(Late)})}
  /\ UNCHANGED <<napas, known, order, fails, crashes>>

\* One order of the batch: its status is written, or that fails and it will be
\* read again.
Close(o) ==
  /\ o \in batch /\ o \notin napas \ known
  /\ batch' = batch \ {o}
  /\ \/ order' = [order EXCEPT ![o] = "closed"] /\ UNCHANGED fails
     \/ fails < MaxFails /\ fails' = fails + 1 /\ UNCHANGED order
  /\ UNCHANGED <<napas, known, crashes>>

\* The bank is verifying, or the transaction is not found; or the bank cannot be
\* asked, and the order is failed.
Retrieve(o) ==
  /\ o \in batch /\ o \in napas \ known
  /\ batch' = batch \ {o}
  /\ \/ UNCHANGED <<order, fails>>
     \/ fails < MaxFails /\ fails' = fails + 1 /\ order' = [order EXCEPT ![o] = "closed"]
  /\ UNCHANGED <<napas, known, crashes>>

Crash ==
  /\ crashes < MaxCrashes /\ crashes' = crashes + 1
  /\ batch' = {}
  /\ UNCHANGED <<napas, known, order, fails>>

-----------------------------------------------------------------------------
(* Around the job.                                                         *)

Expire(o) ==
  /\ order[o] = "fresh"
  /\ order' = [order EXCEPT ![o] = "late"]
  /\ UNCHANGED <<napas, known, batch, fails, crashes>>

\* A request, or the bank's answer, closes the order; after expired_at no
\* request opens it again (PaymentSaga, StaysClosed).
Request(o) ==
  /\ order[o] # "closed"
  /\ order' = [order EXCEPT ![o] = "closed"]
  /\ UNCHANGED <<napas, known, batch, fails, crashes>>

BankDecides(o) ==
  /\ o \in napas \ known
  /\ known' = known \cup {o}
  /\ UNCHANGED <<napas, order, batch, fails, crashes>>

JobCancelExpiredOrder == GetExpiredOrder \/ \E o \in Orders : Close(o) \/ Retrieve(o)

Next ==
  \/ JobCancelExpiredOrder
  \/ Crash
  \/ \E o \in Orders : Expire(o) \/ Request(o) \/ BankDecides(o)

Spec == Init /\ [][Next]_vars

\* The job ticks on.  Nobody else has to do anything.
FairSpec == Spec /\ WF_vars(JobCancelExpiredOrder)

-----------------------------------------------------------------------------
(* Properties.                                                             *)

\* Orders that cannot be closed use up places of the query.  While there are
\* fewer of them than places, every other expired order is closed in the end,
\* whichever ones the query picks; with as many, none may ever be.
DrainedUnlessFull ==
  <>[](Cardinality(Stuck) < Limit) =>
    \A o \in Orders : <>[](o \in Late => o \in Stuck)
=============================================================================
