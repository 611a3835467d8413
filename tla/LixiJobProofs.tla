--------------------------- MODULE LixiJobProofs ---------------------------
(***************************************************************************)
(* The safety properties of LixiJob, for campaigns of any size, however    *)
(* often they run, are cut off or are not stored.                          *)
(***************************************************************************)
EXTENDS LixiJob, TLAPS

-----------------------------------------------------------------------------
(* The inductive invariant.                                                *)

Totals == [status : {"ACTIVE", "PAUSED"}, used : Nat, scan : Nat]

TypeOK ==
  /\ campaign \in Campaigns
  /\ doc \in Totals /\ mem \in Totals
  /\ job \in {"idle", "paying", "dead"}
  /\ at \in 1 .. Users + 1
  /\ orders \in [1 .. Users -> Nat] /\ paid \in [1 .. Users -> Nat]
  /\ spent \in Nat /\ payments \in Nat
  /\ activations \in Nat /\ forgets \in Nat /\ blind \in Nat

\* A payment needs an order, and a second order of a user a read that failed.
OrderPerPayment == \A u \in 1 .. Users : paid[u] <= orders[u] /\ orders[u] <= 1 + blind

\* What the pass reckons with: its own totals, and between passes the stored ones.
Known == IF job = "paying" THEN mem ELSE doc

Within(totals) == totals.used <= campaign.amount /\ totals.scan <= campaign.maxUser

\* The totals stay within the campaign, and what they do not know of is at most
\* one full campaign for each pass that was forgotten.
Reckoned ==
  /\ Within(doc) /\ Within(Known)
  /\ spent <= Known.used + campaign.amount * forgets
  /\ payments <= Known.scan + campaign.maxUser * forgets

IInv == TypeOK /\ OrderPerPayment /\ Reckoned

-----------------------------------------------------------------------------
(* The invariant is inductive.                                             *)

\* A forgotten pass adds one full campaign to what may be missing.
LEMMA OneMore == ASSUME NEW x \in Nat, NEW f \in Nat PROVE x * (f + 1) = x * f + x
  OBVIOUS

\* The products are natural numbers.
LEMMA Product == ASSUME NEW x \in Nat, NEW f \in Nat PROVE x * f \in Nat
  OBVIOUS

\* The amounts of a campaign are natural numbers.
LEMMA CampaignTypes ==
  ASSUME TypeOK
  PROVE  /\ campaign.amount \in Nat /\ campaign.maxUser \in Nat
         /\ \A a \in campaign.choices : a \in Nat
  BY LixiAssumption DEF TypeOK, Campaigns

\* A new campaign has paid nobody (lixi_entity.go).
LEMMA InitIInv == Init => IInv
<1> SUFFICES ASSUME Init PROVE IInv
  OBVIOUS
<1> USE LixiAssumption DEF Init
<1>1. TypeOK
  BY DEF TypeOK, Totals
<1>2. OrderPerPayment
  BY DEF OrderPerPayment
<1>3. campaign.amount \in Nat /\ campaign.maxUser \in Nat
  BY <1>1, CampaignTypes
<1>4. campaign.amount * 0 = 0 /\ campaign.maxUser * 0 = 0
  BY <1>3
<1>5. Reckoned
  BY <1>3, <1>4 DEF Reckoned, Known, Within
<1> QED BY <1>1, <1>2, <1>5 DEF IInv

\* A user who gets an order has none, or has one that was not seen
\* (service_order.go InitOrder); a payment comes with such an order.
LEMMA OrderFirst ==
  ASSUME TypeOK, OrderPerPayment, NEW u \in 1 .. Users, CreatesOrder(u),
         \/ paid' = paid
         \/ paid' = [paid EXCEPT ![u] = @ + 1]
  PROVE  OrderPerPayment' /\ orders' \in [1 .. Users -> Nat] /\ blind' \in Nat
<1>1. orders' \in [1 .. Users -> Nat] /\ blind' \in Nat /\ blind' >= blind
  BY DEF CreatesOrder, TypeOK
<1>2. ASSUME NEW v \in 1 .. Users
      PROVE  paid'[v] <= orders'[v] /\ orders'[v] <= 1 + blind'
  <2>1. /\ paid[v] \in Nat /\ orders[v] \in Nat /\ blind \in Nat
        /\ paid[v] <= orders[v] /\ orders[v] <= 1 + blind
    BY DEF TypeOK, OrderPerPayment
  <2>2. CASE v = u
    <3>1. orders'[v] = orders[v] + 1 /\ (paid'[v] = paid[v] \/ paid'[v] = paid[v] + 1)
      BY <2>2 DEF CreatesOrder, TypeOK
    <3>2. (orders[v] = 0 /\ blind' = blind) \/ blind' = blind + 1
      BY <2>2 DEF CreatesOrder
    <3> QED BY <2>1, <3>1, <3>2
  <2>3. CASE v # u
    <3>1. orders'[v] = orders[v] /\ paid'[v] = paid[v]
      BY <2>3 DEF CreatesOrder, TypeOK
    <3> QED BY <1>1, <2>1, <3>1
  <2> QED BY <2>2, <2>3
<1> QED BY <1>1, <1>2 DEF OrderPerPayment

\* The totals after a payment (job_lixi.go:55).
LEMMA CountedTotals ==
  ASSUME mem \in Totals, NEW a \in Nat
  PROVE  /\ Counted(a) \in Totals
         /\ Counted(a).used = mem.used + a
         /\ Counted(a).scan = mem.scan + 1
<1>1. PICK m : m = [mem EXCEPT !.used = @ + a]
  OBVIOUS
<1>2. m \in Totals /\ m.used = mem.used + a /\ m.scan = mem.scan
  BY <1>1 DEF Totals
<1>3. Counted(a) = [m EXCEPT !.scan = @ + 1]
  BY <1>1 DEF Counted, Totals
<1> QED BY <1>2, <1>3 DEF Totals

\* A payment that is counted stays within the campaign and is known
\* (job_lixi.go:55).
LEMMA PayIInv == IInv /\ Pay => IInv'
<1> SUFFICES ASSUME IInv, Pay PROVE IInv'
  OBVIOUS
<1> USE LixiAssumption
<1>1. /\ TypeOK /\ OrderPerPayment /\ Reckoned /\ job = "paying" /\ at \in 1 .. Users
      /\ HasPlace /\ at' = at + 1
      /\ UNCHANGED <<campaign, doc, job, activations, forgets>>
  BY DEF IInv, Pay, TypeOK
<1>2. PICK a \in campaign.choices :
        Fits(a) /\ CreatesOrder(at) /\ GetsMoney(at, a) /\ mem' = Counted(a)
  BY DEF Pay
<1>3. /\ a \in Nat /\ campaign.amount \in Nat /\ campaign.maxUser \in Nat
      /\ mem \in Totals /\ mem.used \in Nat /\ mem.scan \in Nat /\ spent \in Nat
      /\ payments \in Nat /\ forgets \in Nat
  BY <1>1, CampaignTypes DEF TypeOK, Totals
<1>4. /\ mem' \in Totals /\ mem'.used = mem.used + a /\ mem'.scan = mem.scan + 1
      /\ spent' = spent + a /\ payments' = payments + 1
  BY <1>2, <1>3, CountedTotals DEF GetsMoney
<1>5. OrderPerPayment' /\ orders' \in [1 .. Users -> Nat] /\ blind' \in Nat
  BY <1>1, <1>2, OrderFirst DEF GetsMoney
<1>6. paid' \in [1 .. Users -> Nat]
  BY <1>1, <1>2 DEF TypeOK, GetsMoney
<1>7. TypeOK'
  <2>1. at' \in 1 .. Users + 1 /\ spent' \in Nat /\ payments' \in Nat
    BY <1>1, <1>3, <1>4
  <2>2. /\ campaign' \in Campaigns /\ doc' \in Totals /\ job' \in {"idle", "paying", "dead"}
        /\ activations' \in Nat /\ forgets' \in Nat
    BY <1>1, Zenon DEF TypeOK
  <2> QED BY <1>4, <1>5, <1>6, <2>1, <2>2, Zenon DEF TypeOK
<1>8. Reckoned'
  <2>1. mem.used + a <= campaign.amount /\ mem.scan + 1 <= campaign.maxUser
    BY <1>1, <1>2, <1>3 DEF Fits, HasPlace
  <2>2. PICK s \in Nat, p \in Nat :
          s = campaign.amount * forgets /\ p = campaign.maxUser * forgets
    BY <1>3, Product
  <2>3. spent <= mem.used + s /\ payments <= mem.scan + p
    BY <1>1, <2>2 DEF Reckoned, Known
  <2>4. spent' <= mem'.used + s /\ payments' <= mem'.scan + p
    BY <1>3, <1>4, <2>2, <2>3
  <2>5. Within(doc)' /\ Within(mem)'
    BY <1>1, <1>4, <2>1 DEF Reckoned, Within
  <2> QED BY <1>1, <2>2, <2>4, <2>5 DEF Reckoned, Known
<1> QED BY <1>5, <1>7, <1>8 DEF IInv

\* A pass that ends without its totals being stored was within the campaign: what
\* it paid is one full campaign at most.
LEMMA Forgotten ==
  ASSUME TypeOK, Reckoned, job = "paying", job' # "paying", forgets' = forgets + 1,
         UNCHANGED <<campaign, doc>>,
         NEW a \in Nat, NEW k \in Nat, spent' \in Nat, payments' \in Nat,
         spent' <= spent + a, payments' <= payments + k,
         mem.used + a <= campaign.amount, mem.scan + k <= campaign.maxUser
  PROVE  Reckoned'
<1>1. /\ campaign.amount \in Nat /\ campaign.maxUser \in Nat /\ forgets \in Nat
      /\ mem.used \in Nat /\ mem.scan \in Nat /\ doc.used \in Nat /\ doc.scan \in Nat
      /\ spent \in Nat /\ payments \in Nat
  BY CampaignTypes DEF TypeOK, Totals
<1>2. PICK s \in Nat, p \in Nat :
        s = campaign.amount * forgets /\ p = campaign.maxUser * forgets
  BY <1>1, Product
<1>3. spent <= mem.used + s /\ payments <= mem.scan + p
  BY <1>2 DEF Reckoned, Known
<1>4. /\ (campaign.amount * forgets)' = s + campaign.amount
      /\ (campaign.maxUser * forgets)' = p + campaign.maxUser
  BY <1>1, <1>2, OneMore
<1>5. /\ spent' <= doc.used + (s + campaign.amount)
      /\ payments' <= doc.scan + (p + campaign.maxUser)
  BY <1>1, <1>3
<1>6. Within(doc)'
  BY DEF Reckoned, Within
<1> QED BY <1>4, <1>5, <1>6 DEF Reckoned, Known

\* A payment that panics was within the campaign, but nobody counts it
\* (lixi_orchestrator.go:49).
LEMMA PayPanicsIInv == IInv /\ PayPanics => IInv'
<1> SUFFICES ASSUME IInv, PayPanics PROVE IInv'
  OBVIOUS
<1> USE LixiAssumption
<1>1. /\ TypeOK /\ OrderPerPayment /\ Reckoned /\ job = "paying" /\ at \in 1 .. Users
      /\ HasPlace /\ job' = "dead" /\ forgets' = forgets + 1
      /\ UNCHANGED <<campaign, doc, mem, at, activations>>
  BY DEF IInv, PayPanics, TypeOK
<1>2. PICK a \in campaign.choices :
        Fits(a) /\ CreatesOrder(at) /\ (GetsMoney(at, a) \/ UNCHANGED <<paid, spent, payments>>)
  BY DEF PayPanics
<1>3. /\ a \in Nat /\ campaign.amount \in Nat /\ campaign.maxUser \in Nat
      /\ mem.used \in Nat /\ mem.scan \in Nat /\ doc.used \in Nat /\ doc.scan \in Nat
      /\ spent \in Nat /\ payments \in Nat /\ forgets \in Nat
  BY <1>1, CampaignTypes DEF TypeOK, Totals
<1>4. /\ spent' \in Nat /\ payments' \in Nat
      /\ spent' <= spent + a /\ payments' <= payments + 1
  BY <1>2, <1>3 DEF GetsMoney
<1>5. OrderPerPayment' /\ orders' \in [1 .. Users -> Nat] /\ blind' \in Nat
  BY <1>1, <1>2, OrderFirst DEF GetsMoney
<1>6. paid' \in [1 .. Users -> Nat]
  BY <1>1, <1>2 DEF TypeOK, GetsMoney
<1>7. TypeOK'
  <2>1. forgets' \in Nat
    BY <1>1, <1>3
  <2>2. /\ campaign' \in Campaigns /\ doc' \in Totals /\ mem' \in Totals
        /\ job' \in {"idle", "paying", "dead"} /\ activations' \in Nat /\ at' \in 1 .. Users + 1
    BY <1>1, Zenon DEF TypeOK
  <2> QED BY <1>4, <1>5, <1>6, <2>1, <2>2, Zenon DEF TypeOK
<1>8. mem.used + a <= campaign.amount /\ mem.scan + 1 <= campaign.maxUser
  BY <1>1, <1>2, <1>3 DEF Fits, HasPlace
<1>9. Reckoned'
  BY <1>1, <1>3, <1>4, <1>8, Forgotten
<1> QED BY <1>5, <1>7, <1>9 DEF IInv

\* A step that leaves users, payments and the campaign alone.
LEMMA BookkeepingIInv ==
  ASSUME IInv, UNCHANGED <<campaign, paid, spent, payments>>,
         doc' \in Totals, mem' \in Totals, job' \in {"idle", "paying", "dead"},
         at' \in 1 .. Users + 1, activations' \in Nat, forgets' \in Nat,
         \/ UNCHANGED <<orders, blind>>
         \/ \E u \in 1 .. Users : CreatesOrder(u),
         Reckoned'
  PROVE  IInv'
<1>1. OrderPerPayment' /\ orders' \in [1 .. Users -> Nat] /\ blind' \in Nat
  <2>1. CASE UNCHANGED <<orders, blind>>
    BY <2>1 DEF IInv, OrderPerPayment, TypeOK
  <2>2. CASE \E u \in 1 .. Users : CreatesOrder(u)
    BY <2>2, OrderFirst DEF IInv
  <2> QED BY <2>1, <2>2
<1>2. /\ campaign' \in Campaigns /\ paid' \in [1 .. Users -> Nat]
      /\ spent' \in Nat /\ payments' \in Nat
  BY DEF IInv, TypeOK
<1> QED BY <1>1, <1>2, Zenon DEF IInv, TypeOK

\* The other steps pay nobody: they move on, read or store the totals, forget a
\* pass, or start the campaign again (job_lixi.go JobLixi).
LEMMA NextIInv == IInv /\ [Next]_vars => IInv'
<1> SUFFICES ASSUME IInv, [Next]_vars PROVE IInv'
  OBVIOUS
<1> USE LixiAssumption
<1>1. /\ doc \in Totals /\ mem \in Totals /\ job \in {"idle", "paying", "dead"}
      /\ at \in 1 .. Users + 1 /\ activations \in Nat /\ forgets \in Nat
      /\ spent \in Nat /\ payments \in Nat /\ TypeOK /\ Reckoned
  BY DEF IInv, TypeOK
<1>2. /\ [mem EXCEPT !.status = "PAUSED"] \in Totals
      /\ [mem EXCEPT !.status = "PAUSED"].used = mem.used
      /\ [mem EXCEPT !.status = "PAUSED"].scan = mem.scan
  BY <1>1 DEF Totals
<1>3. /\ [doc EXCEPT !.status = "ACTIVE"] \in Totals
      /\ [doc EXCEPT !.status = "ACTIVE"].used = doc.used
      /\ [doc EXCEPT !.status = "ACTIVE"].scan = doc.scan
  BY <1>1 DEF Totals
<1>4. CASE FindStarted
  <2>1. Reckoned'
    BY <1>1, <1>4 DEF FindStarted, Reckoned, Known, Within
  <2>2. at' \in 1 .. Users + 1
    BY <1>4 DEF FindStarted
  <2> QED BY <1>1, <1>4, <2>1, <2>2, BookkeepingIInv DEF FindStarted
<1>5. CASE SkipUser \/ OutOfMoney \/ Refused
  <2>1. /\ job = "paying" /\ at \in 1 .. Users /\ at' \in 1 .. Users + 1
        /\ UNCHANGED <<campaign, doc, job, mem, paid, spent, payments, activations, forgets>>
        /\ CreatesOrder(at) \/ UNCHANGED <<orders, blind>>
    BY <1>1, <1>5 DEF SkipUser, OutOfMoney, Refused
  <2>2. Reckoned'
    BY <1>1, <2>1 DEF Reckoned, Known, Within
  <2> QED BY <1>1, <2>1, <2>2, BookkeepingIInv
<1>6. CASE Store \/ Dies
  <2>1. /\ UNCHANGED <<campaign, mem, at, orders, paid, spent, payments, activations, blind>>
        /\ job' \in {"idle", "dead"}
        /\ \/ forgets' = forgets + 1 /\ doc' = doc
           \/ forgets' = forgets /\ doc' = [mem EXCEPT !.status = "PAUSED"] /\ job = "paying"
    BY <1>6 DEF Store, Dies
  <2>2. doc' \in Totals /\ forgets' \in Nat
    BY <1>1, <1>2, <2>1
  <2>3. Reckoned'
    <3>1. CASE forgets' = forgets + 1 /\ doc' = doc /\ job = "paying"
      <4>1. /\ spent' <= spent + 0 /\ payments' <= payments + 0
            /\ mem.used + 0 <= campaign.amount /\ mem.scan + 0 <= campaign.maxUser
        BY <1>1, <2>1, <3>1 DEF Reckoned, Known, Within, Totals
      <4> QED BY <1>1, <2>1, <3>1, <4>1, Forgotten
    <3>2. CASE forgets' = forgets + 1 /\ doc' = doc /\ job # "paying"
      <4>1. /\ campaign.amount \in Nat /\ campaign.maxUser \in Nat
            /\ doc.used \in Nat /\ doc.scan \in Nat
        BY <1>1, CampaignTypes DEF Totals
      <4>2. /\ (campaign.amount * forgets)' = campaign.amount * forgets + campaign.amount
            /\ (campaign.maxUser * forgets)' = campaign.maxUser * forgets + campaign.maxUser
        BY <1>1, <2>1, <3>2, <4>1, OneMore
      <4>3. PICK s \in Nat, p \in Nat :
              s = campaign.amount * forgets /\ p = campaign.maxUser * forgets
        BY <1>1, <4>1, Product
      <4>4. spent <= doc.used + s /\ payments <= doc.scan + p
        BY <1>1, <3>2, <4>3 DEF Reckoned, Known
      <4>5. /\ spent <= doc.used + (s + campaign.amount)
            /\ payments <= doc.scan + (p + campaign.maxUser)
        BY <1>1, <4>1, <4>4
      <4>6. Within(doc)'
        BY <1>1, <2>1, <3>2 DEF Reckoned, Within
      <4>7. Known' = doc
        BY <2>1, <3>2 DEF Known
      <4> QED BY <2>1, <3>2, <4>2, <4>3, <4>5, <4>6, <4>7 DEF Reckoned, Within
    <3>3. CASE forgets' = forgets /\ doc' = [mem EXCEPT !.status = "PAUSED"] /\ job = "paying"
      <4>1. doc'.used = mem.used /\ doc'.scan = mem.scan
        BY <1>1, <1>2, <3>3
      <4> QED BY <1>1, <2>1, <3>3, <4>1 DEF Reckoned, Known, Within
    <3> QED BY <2>1, <3>1, <3>2, <3>3
  <2> QED BY <1>1, <2>1, <2>2, <2>3, BookkeepingIInv
<1>7. CASE Restart
  <2>1. Reckoned'
    BY <1>1, <1>7 DEF Restart, Reckoned, Known, Within
  <2> QED BY <1>1, <1>7, <2>1, BookkeepingIInv DEF Restart
<1>8. CASE Activate
  <2>1. doc' \in Totals /\ doc'.used = doc.used /\ doc'.scan = doc.scan /\ activations' \in Nat
    <3>1. doc' = [doc EXCEPT !.status = "ACTIVE"] /\ activations' = activations + 1
      BY <1>8 DEF Activate
    <3> QED BY <1>1, <1>3, <3>1
  <2>2. Reckoned'
    BY <1>1, <1>8, <2>1 DEF Activate, Reckoned, Known, Within
  <2> QED BY <1>1, <1>8, <2>1, <2>2, BookkeepingIInv DEF Activate
<1>9. CASE UNCHANGED vars
  BY <1>9 DEF vars, IInv, TypeOK, OrderPerPayment, Reckoned, Known, Within
<1> QED
  BY <1>4, <1>5, <1>6, <1>7, <1>8, <1>9, PayIInv, PayPanicsIInv DEF Next, JobLixi

-----------------------------------------------------------------------------
(* The properties.                                                         *)

\* Every reachable state of a campaign satisfies the invariant.
THEOREM LixiInvariant == Spec => []IInv
  BY InitIInv, NextIInv, PTL DEF Spec

\* A user is paid once, and once more at most for every read of the orders that
\* failed unseen, for campaigns of any size (service_order.go InitOrder).
THEOREM PaidOnce == Spec => []PaidOncePerUser
<1>1. IInv => PaidOncePerUser
  <2> SUFFICES ASSUME IInv, NEW u \in 1 .. Users PROVE paid[u] <= 1 + blind
    BY DEF PaidOncePerUser
  <2>1. /\ paid[u] \in Nat /\ orders[u] \in Nat /\ blind \in Nat
        /\ paid[u] <= orders[u] /\ orders[u] <= 1 + blind
    BY DEF IInv, TypeOK, OrderPerPayment
  <2> QED BY <2>1
<1> QED BY <1>1, LixiInvariant, PTL

\* A campaign spends its budget and fills its places once, and once more at most
\* for every pass that was cut off or not stored, for campaigns of any size
\* (job_lixi.go JobLixi).
THEOREM BudgetIsKept == Spec => []BudgetKept
<1>1. IInv => BudgetKept
  <2> SUFFICES ASSUME IInv PROVE BudgetKept
    OBVIOUS
  <2>1. /\ campaign.amount \in Nat /\ campaign.maxUser \in Nat /\ forgets \in Nat
        /\ spent \in Nat /\ payments \in Nat /\ Known \in Totals
    BY CampaignTypes DEF IInv, TypeOK, Known
  <2>2. PICK s \in Nat, p \in Nat :
          s = campaign.amount * forgets /\ p = campaign.maxUser * forgets
    BY <2>1, Product
  <2>3. /\ spent <= Known.used + s /\ payments <= Known.scan + p
        /\ Known.used <= campaign.amount /\ Known.scan <= campaign.maxUser
    BY <2>2 DEF IInv, Reckoned, Within
  <2>4. Known.used \in Nat /\ Known.scan \in Nat
    BY <2>1 DEF Totals
  <2>5. spent <= s + campaign.amount /\ payments <= p + campaign.maxUser
    BY <2>1, <2>3, <2>4
  <2>6. /\ campaign.amount * (1 + forgets) = s + campaign.amount
        /\ campaign.maxUser * (1 + forgets) = p + campaign.maxUser
    <3>1. 1 + forgets = forgets + 1
      BY <2>1
    <3> QED BY <2>1, <2>2, <3>1, OneMore
  <2> QED BY <2>5, <2>6 DEF BudgetKept
<1> QED BY <1>1, LixiInvariant, PTL
============================================================================
