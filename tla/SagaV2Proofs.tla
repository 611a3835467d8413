--------------------------- MODULE SagaV2Proofs ---------------------------
(***************************************************************************)
(* utils/sagav2 keeps the promise of SagaPromise, for every number of      *)
(* steps.                                                                  *)
(*                                                                         *)
(* Nobody there knows the saga as a whole: a worker has the message it     *)
(* took and knows nothing of the others.  The invariant says what each     *)
(* message tells of the steps that came before it.                         *)
(***************************************************************************)
EXTENDS SagaV2, TLAPS

Steps == 1 .. MaxSteps
Outcomes == {"no", "ok", "failed", "panicked"}

Typed ==
  /\ n \in 0 .. MaxSteps
  /\ worker \in [Topics -> {"new", "waiting", "gone"}]
  /\ ran \in [Steps -> Outcomes]
  /\ undone \in [Steps -> Outcomes]
  /\ play \in {"new", "started", "waiting", "kafka error", "ok", "error", "timeout"}

\* A worker takes one message.
WorksOnce ==
  \A k \in Steps :
    /\ ran[k] # "no" => worker[[do |-> "exec", step |-> k]] = "gone"
    /\ undone[k] # "no" => worker[[do |-> "undo", step |-> k]] = "gone"

\* The steps run in order, and each after the one before has succeeded.
InOrder == \A k \in Steps : ran[k] # "no" => k <= n /\ \A j \in 1 .. k - 1 : ran[j] = "ok"

AllRan == n > 0 /\ ran[n] = "ok"
Broke == \E k \in Steps : ran[k] = "failed"

\* Step k can be compensated: one has failed, and the ones after k are done with.
IsNext(k) ==
  /\ k \in Steps /\ ran[k] # "no" /\ Broke
  /\ \A j \in k + 1 .. MaxSteps : ran[j] # "no" => undone[j] = "ok"

BackInOrder == \A k \in Steps : undone[k] # "no" => IsNext(k)

\* What a message tells.
Tells(m) ==
  /\ m.do = "exec" => m.step = 1 \/ (m.step - 1 \in Steps /\ ran[m.step - 1] = "ok")
  /\ m.do = "undo" => IsNext(m.step) /\ m.err # NoText
  /\ m.do = "complete" => IF m.err = NoText THEN AllRan ELSE 1 \in Steps /\ undone[1] # "no"

MessagesTell == \A m \in topics : Tells(m)

\* What Play has been told.
PlayKnows ==
  /\ play = "ok" => AllRan
  /\ play = "error" => 1 \in Steps /\ undone[1] # "no"

V2Inv == Typed /\ WorksOnce /\ InOrder /\ BackInOrder /\ MessagesTell /\ PlayKnows

\* The saga at the beginning: nobody has said or done anything.
LEMMA InitV2 == Init => V2Inv
BY StepsAssumption DEF Init, V2Inv, Typed, Topics, Steps, Outcomes, WorksOnce, InOrder, BackInOrder,
   MessagesTell, PlayKnows

\* How many steps there are.
LEMMA Bounds ==
  ASSUME V2Inv
  PROVE  /\ n \in Nat /\ MaxSteps \in Nat /\ n <= MaxSteps
         /\ \A k \in 1 .. n : k \in Nat /\ 1 <= k /\ k <= n
         /\ \A k \in Steps : k \in Nat
<1>1. n \in 0 .. MaxSteps /\ MaxSteps \in Nat
  BY StepsAssumption DEF V2Inv, Typed
<1>2. QED
  BY <1>1 DEF Steps

\* Once a step has failed no other one runs: they run in order.
LEMMA NoneRuns ==
  ASSUME V2Inv, NEW k \in Nat, 1 <= k, k <= n, ran[k] = "no", k = 1 \/ ran[k - 1] = "ok"
  PROVE  /\ \A j \in 1 .. k - 1 : ran[j] = "ok"
         /\ \A j \in k .. MaxSteps : ran[j] = "no"
         /\ ~ Broke /\ ~ AllRan /\ \A j \in Steps : undone[j] = "no"
<1>1. n \in Nat /\ MaxSteps \in Nat /\ n <= MaxSteps /\ k \in Steps
  BY Bounds DEF Steps
<1>2. \A j \in 1 .. k - 1 : ran[j] = "ok"
  BY <1>1 DEF V2Inv, InOrder, Steps
<1>3. \A j \in k .. MaxSteps : ran[j] = "no"
  BY <1>1 DEF V2Inv, InOrder, Steps
<1>4. ~ Broke /\ ~ AllRan
  BY <1>1, <1>2, <1>3 DEF Broke, AllRan, Steps
<1>5. QED
  BY <1>2, <1>3, <1>4 DEF V2Inv, BackInOrder, IsNext

\* A worker takes a message that is there for it.
LEMMA TakesOne ==
  ASSUME V2Inv, NEW t \in Topics, NEW m, Takes(t, m)
  PROVE  /\ Tells(m) /\ m.do = t.do /\ m.step = t.step
         /\ worker[t] = "waiting"
         /\ worker' = [worker EXCEPT ![t] = "gone"]
         /\ worker' \in [Topics -> {"new", "waiting", "gone"}]
         /\ worker'[t] = "gone" /\ \A u \in Topics : worker[u] = "gone" => worker'[u] = "gone"
BY DEF Takes, V2Inv, MessagesTell, Typed

\* A step runs: its message tells that the ones before have succeeded.
LEMMA ExecTakes ==
  ASSUME V2Inv, NEW k \in Nat, 1 <= k, k <= n, ExecStep(k)
  PROVE  /\ k \in Steps /\ ran[k] = "no" /\ (k = 1 \/ ran[k - 1] = "ok")
         /\ worker' \in [Topics -> {"new", "waiting", "gone"}]
         /\ worker'[[do |-> "exec", step |-> k]] = "gone"
         /\ \A u \in Topics : worker[u] = "gone" => worker'[u] = "gone"
<1>1. k \in Steps /\ [do |-> "exec", step |-> k] \in Topics
  BY Bounds DEF Topics, Steps
<1>2. PICK m \in topics : Takes([do |-> "exec", step |-> k], m)
  BY DEF ExecStep
<1>3. /\ Tells(m) /\ m.do = "exec" /\ m.step = k
      /\ worker[[do |-> "exec", step |-> k]] = "waiting"
      /\ worker' \in [Topics -> {"new", "waiting", "gone"}]
      /\ worker'[[do |-> "exec", step |-> k]] = "gone"
      /\ \A u \in Topics : worker[u] = "gone" => worker'[u] = "gone"
  BY <1>1, <1>2, TakesOne
<1>4. ran[k] = "no"
  BY <1>1, <1>3 DEF V2Inv, WorksOnce
<1>5. QED
  BY <1>1, <1>3, <1>4 DEF Tells

\* The invariant after a step has run.
LEMMA ExecKeeps ==
  ASSUME V2Inv, NEW k \in Nat, 1 <= k, k <= n, ExecStep(k), NoText \notin ErrorTexts
  PROVE  V2Inv'
<1>1. /\ k \in Steps /\ ran[k] = "no" /\ (k = 1 \/ ran[k - 1] = "ok")
      /\ worker' \in [Topics -> {"new", "waiting", "gone"}]
      /\ worker'[[do |-> "exec", step |-> k]] = "gone"
      /\ \A u \in Topics : worker[u] = "gone" => worker'[u] = "gone"
  BY ExecTakes
<1>2. /\ \A j \in 1 .. k - 1 : ran[j] = "ok"
      /\ \A j \in k .. MaxSteps : ran[j] = "no"
      /\ ~ Broke /\ ~ AllRan /\ \A j \in Steps : undone[j] = "no"
  BY <1>1, NoneRuns
<1>3. UNCHANGED <<n, undone, play>>
  BY DEF ExecStep
<1>4. /\ n \in Nat /\ MaxSteps \in Nat /\ n <= MaxSteps /\ k \in Nat /\ 1 <= k /\ k <= n
      /\ ran \in [Steps -> Outcomes] /\ undone \in [Steps -> Outcomes]
  BY Bounds DEF V2Inv, Typed
<1>5. PICK did \in {"ok", "failed", "panicked"} :
        /\ ran' = [ran EXCEPT ![k] = did]
        /\ \/ topics' = topics
           \/ did = "ok" /\ k = n /\ topics' = topics \cup {Complete(NoText)}
           \/ did = "ok" /\ k < n /\ topics' = topics \cup {Message("exec", k + 1, NoText)}
           \/ did = "failed" /\ \E err \in ErrorTexts : topics' = topics \cup {Message("undo", k, err)}
  <2>1. k = n \/ k < n
    BY <1>4
  <2>2. \/ /\ ran' = [ran EXCEPT ![k] = "ok"]
           /\ Send(IF k = n THEN Complete(NoText) ELSE Message("exec", k + 1, NoText))
        \/ /\ ran' = [ran EXCEPT ![k] = "failed"]
           /\ \E err \in ErrorTexts : Send(Message("undo", k, err))
        \/ /\ ran' = [ran EXCEPT ![k] = "panicked"]
           /\ UNCHANGED topics
    BY Zenon DEF ExecStep
  <2>3. QED
    BY <2>1, <2>2, Zenon DEF Send
<1>6. /\ ran'[k] = did /\ \A j \in Steps \ {k} : ran'[j] = ran[j]
      /\ ran' \in [Steps -> Outcomes]
  BY <1>1, <1>4, <1>5 DEF Outcomes
<1>7. Typed'
  BY <1>1, <1>3, <1>6 DEF V2Inv, Typed
<1>8. WorksOnce'
  <2>1. \A j \in Steps : [do |-> "exec", step |-> j] \in Topics /\ [do |-> "undo", step |-> j] \in Topics
    BY DEF Topics, Steps
  <2>2. QED
    BY <1>1, <1>3, <1>6, <2>1 DEF V2Inv, WorksOnce
<1>9. InOrder'
  <2>1. SUFFICES ASSUME NEW j \in Steps, ran'[j] # "no"
                 PROVE  j <= n /\ \A i \in 1 .. j - 1 : ran'[i] = "ok"
    BY <1>3 DEF InOrder
  <2>2. j \in Nat /\ 1 <= j /\ j <= k
    <3>1. j \in Nat /\ 1 <= j /\ j <= MaxSteps
      BY <1>4 DEF Steps
    <3>2. j = k \/ ran[j] # "no"
      BY <1>6, <2>1
    <3>3. QED
      BY <1>2, <1>4, <3>1, <3>2
  <2>3. \A i \in 1 .. j - 1 : i \in 1 .. k - 1 /\ i \in Steps \ {k}
    BY <1>4, <2>2 DEF Steps
  <2>4. QED
    BY <1>2, <1>4, <1>6, <2>2, <2>3
<1>10. BackInOrder' /\ PlayKnows'
  BY <1>2, <1>3, <1>4 DEF BackInOrder, PlayKnows, V2Inv
<1>11. \A m \in topics : Tells(m)'
  <2>1. SUFFICES ASSUME NEW m \in topics PROVE Tells(m)'
    OBVIOUS
  <2>2. Tells(m) /\ m.do # "undo" /\ m.do # "complete"
    BY <1>2 DEF V2Inv, MessagesTell, Tells, IsNext
  <2>3. m.step - 1 \in Steps /\ ran[m.step - 1] = "ok" => m.step - 1 # k
    BY <1>1
  <2>4. QED
    BY <1>6, <2>2, <2>3 DEF Tells
<1>12. ASSUME did = "ok", k = n, NEW p, p = Complete(NoText) PROVE Tells(p)'
  BY <1>3, <1>4, <1>6, <1>12 DEF Tells, Complete, Message, AllRan
<1>13. ASSUME did = "ok", k < n, NEW p, p = Message("exec", k + 1, NoText) PROVE Tells(p)'
  <2>1. k + 1 - 1 = k
    BY <1>4
  <2>2. QED
    BY <1>1, <1>6, <1>13, <2>1 DEF Tells, Message
<1>14. ASSUME did = "failed", NEW err \in ErrorTexts, NEW p, p = Message("undo", k, err)
       PROVE  Tells(p)'
  <2>1. Broke'
    BY <1>1, <1>6, <1>14 DEF Broke
  <2>2. \A j \in k + 1 .. MaxSteps : ran'[j] = "no"
    BY <1>2, <1>4, <1>6 DEF Steps
  <2>3. IsNext(k)'
    BY <1>1, <1>6, <1>14, <2>1, <2>2 DEF IsNext
  <2>4. QED
    BY <1>14, <2>3 DEF Tells, Message
<1>15. MessagesTell'
  <2>1. SUFFICES ASSUME NEW p \in topics' PROVE Tells(p)'
    BY DEF MessagesTell
  <2>2. \/ p \in topics
        \/ did = "ok" /\ k = n /\ p = Complete(NoText)
        \/ did = "ok" /\ k < n /\ p = Message("exec", k + 1, NoText)
        \/ did = "failed" /\ \E err \in ErrorTexts : p = Message("undo", k, err)
    BY <1>5, Zenon
  <2>3. QED
    BY <1>11, <1>12, <1>13, <1>14, <2>2, Zenon
<1>16. QED
  BY <1>7, <1>8, <1>9, <1>10, <1>15 DEF V2Inv

\* A compensation runs: the ones after it are done with.
LEMMA UndoTakes ==
  ASSUME V2Inv, NEW k \in Nat, 1 <= k, k <= n, NEW m \in topics, Takes([do |-> "undo", step |-> k], m)
  PROVE  /\ k \in Steps /\ IsNext(k) /\ m.err # NoText /\ undone[k] = "no"
         /\ worker' \in [Topics -> {"new", "waiting", "gone"}]
         /\ worker'[[do |-> "undo", step |-> k]] = "gone"
         /\ \A u \in Topics : worker[u] = "gone" => worker'[u] = "gone"
<1>1. k \in Steps /\ [do |-> "undo", step |-> k] \in Topics
  BY Bounds DEF Topics, Steps
<1>2. /\ Tells(m) /\ m.do = "undo" /\ m.step = k
      /\ worker[[do |-> "undo", step |-> k]] = "waiting"
      /\ worker' \in [Topics -> {"new", "waiting", "gone"}]
      /\ worker'[[do |-> "undo", step |-> k]] = "gone"
      /\ \A u \in Topics : worker[u] = "gone" => worker'[u] = "gone"
  BY <1>1, TakesOne
<1>3. undone[k] = "no"
  BY <1>1, <1>2 DEF V2Inv, WorksOnce
<1>4. QED
  BY <1>1, <1>2, <1>3 DEF Tells

\* The invariant after a compensation has run.
LEMMA UndoKeeps ==
  ASSUME V2Inv, NEW k \in Nat, 1 <= k, k <= n, CompensateStep(k)
  PROVE  V2Inv'
<1>1. PICK m \in topics :
        /\ Takes([do |-> "undo", step |-> k], m)
        /\ \/ /\ undone' = [undone EXCEPT ![k] = "ok"]
              /\ Send(IF k = 1 THEN Complete(m.err) ELSE Message("undo", k - 1, m.err))
           \/ /\ undone' = [undone EXCEPT ![k] = "failed"]
              /\ IF k = 1 THEN Send(Complete(m.err)) ELSE UNCHANGED topics
           \/ /\ undone' = [undone EXCEPT ![k] = "panicked"]
              /\ UNCHANGED topics
  BY DEF CompensateStep
<1>2. UNCHANGED <<n, ran, play>>
  BY DEF CompensateStep
<1>3. /\ k \in Steps /\ IsNext(k) /\ m.err # NoText /\ undone[k] = "no"
      /\ worker' \in [Topics -> {"new", "waiting", "gone"}]
      /\ worker'[[do |-> "undo", step |-> k]] = "gone"
      /\ \A u \in Topics : worker[u] = "gone" => worker'[u] = "gone"
  BY <1>1, UndoTakes
<1>4. /\ n \in Nat /\ MaxSteps \in Nat /\ n <= MaxSteps /\ k \in Nat /\ 1 <= k /\ k <= n
      /\ ran \in [Steps -> Outcomes] /\ undone \in [Steps -> Outcomes]
  BY Bounds DEF V2Inv, Typed
<1>5. PICK did \in {"ok", "failed", "panicked"} :
        /\ undone' = [undone EXCEPT ![k] = did]
        /\ \/ topics' = topics
           \/ k = 1 /\ topics' = topics \cup {Complete(m.err)}
           \/ did = "ok" /\ k > 1 /\ topics' = topics \cup {Message("undo", k - 1, m.err)}
  BY <1>1, <1>4 DEF Send
<1>6. /\ undone'[k] = did /\ \A j \in Steps \ {k} : undone'[j] = undone[j]
      /\ undone' \in [Steps -> Outcomes]
  BY <1>3, <1>4, <1>5 DEF Outcomes
<1>7. \A j \in Steps : IsNext(j) => IsNext(j)'
  BY <1>2, <1>3, <1>4, <1>6 DEF IsNext, Broke, Steps
<1>8. Typed'
  BY <1>2, <1>3, <1>6 DEF V2Inv, Typed
<1>9. WorksOnce'
  <2>1. \A j \in Steps : [do |-> "exec", step |-> j] \in Topics /\ [do |-> "undo", step |-> j] \in Topics
    BY DEF Topics, Steps
  <2>2. QED
    BY <1>2, <1>3, <1>6, <2>1 DEF V2Inv, WorksOnce
<1>10. InOrder'
  BY <1>2 DEF V2Inv, InOrder
<1>11. BackInOrder'
  BY <1>3, <1>6, <1>7 DEF V2Inv, BackInOrder
<1>12. PlayKnows'
  BY <1>2, <1>6 DEF V2Inv, PlayKnows, AllRan
<1>13. \A p \in topics : Tells(p)'
  <2>1. SUFFICES ASSUME NEW p \in topics PROVE Tells(p)'
    OBVIOUS
  <2>2. Tells(p)
    BY DEF V2Inv, MessagesTell
  <2>3. p.do = "undo" => IsNext(p.step)'
    BY <1>7, <2>2 DEF Tells, IsNext
  <2>4. undone[1] # "no" /\ 1 \in Steps => undone'[1] # "no"
    BY <1>6
  <2>5. QED
    BY <1>2, <2>2, <2>3, <2>4 DEF Tells, AllRan
<1>14. ASSUME k = 1, NEW p, p = Complete(m.err) PROVE Tells(p)'
  BY <1>3, <1>6, <1>14 DEF Tells, Complete, Message
<1>15. ASSUME did = "ok", k > 1, NEW p, p = Message("undo", k - 1, m.err) PROVE Tells(p)'
  <2>1. k - 1 \in Steps /\ ran[k - 1] = "ok"
    <3>1. ran[k] # "no"
      BY <1>3 DEF IsNext
    <3>2. k - 1 \in Steps /\ k - 1 \in 1 .. k - 1
      BY <1>4, <1>15 DEF Steps
    <3>3. QED
      BY <1>3, <3>1, <3>2 DEF V2Inv, InOrder
  <2>2. ASSUME NEW j \in k .. MaxSteps, ran[j] # "no" PROVE undone'[j] = "ok"
    <3>1. j = k \/ (j \in k + 1 .. MaxSteps /\ j \in Steps \ {k})
      BY <1>4 DEF Steps
    <3>2. j # k => undone[j] = "ok"
      BY <1>3, <2>2, <3>1 DEF IsNext
    <3>3. QED
      BY <1>6, <1>15, <3>1, <3>2
  <2>3. k - 1 + 1 = k /\ Broke'
    BY <1>2, <1>3, <1>4 DEF IsNext, Broke
  <2>4. IsNext(k - 1)'
    BY <1>2, <2>1, <2>2, <2>3 DEF IsNext
  <2>5. QED
    BY <1>3, <1>15, <2>4 DEF Tells, Message
<1>16. MessagesTell'
  <2>1. SUFFICES ASSUME NEW p \in topics' PROVE Tells(p)'
    BY DEF MessagesTell
  <2>2. \/ p \in topics
        \/ k = 1 /\ p = Complete(m.err)
        \/ did = "ok" /\ k > 1 /\ p = Message("undo", k - 1, m.err)
    BY <1>5, Zenon
  <2>3. QED
    BY <1>13, <1>14, <1>15, <2>2, Zenon
<1>17. QED
  BY <1>8, <1>9, <1>10, <1>11, <1>12, <1>16 DEF V2Inv

\* The invariant after what Play does, and after a wait has ended.
LEMMA OthersKeep ==
  ASSUME V2Inv,
         \/ PlayStarts \/ PlaySubscribes \/ PlayReturns \/ PlayTimesOut \/ UNCHANGED vars
         \/ \E t \in Topics : Subscribe(t) \/ WaitEnds(t)
  PROVE  V2Inv'
<1>1. UNCHANGED <<n, ran, undone>>
  BY DEF PlayStarts, PlaySubscribes, PlayReturns, PlayTimesOut, Subscribe, WaitEnds, vars
<1>2. /\ worker' \in [Topics -> {"new", "waiting", "gone"}]
      /\ \A u \in Topics : worker[u] = "gone" => worker'[u] = "gone"
  <2>1. worker \in [Topics -> {"new", "waiting", "gone"}]
    BY DEF V2Inv, Typed
  <2>2. worker' = worker \/ \E t \in Topics : \E w \in {"waiting", "gone"} :
                              worker[t] # "gone" /\ worker' = [worker EXCEPT ![t] = w]
    BY DEF PlayStarts, PlaySubscribes, PlayReturns, PlayTimesOut, Subscribe, WaitEnds, vars
  <2>3. QED
    BY <2>1, <2>2
<1>3. topics' = topics \/ topics' = topics \cup {Message("exec", 1, NoText)}
  BY DEF PlayStarts, PlaySubscribes, PlayReturns, PlayTimesOut, Subscribe, WaitEnds, vars, Send
<1>4. /\ play' \in {"new", "started", "waiting", "kafka error", "ok", "error", "timeout"}
      /\ PlayKnows
  BY DEF V2Inv, Typed, PlayStarts, PlaySubscribes, PlayReturns, PlayTimesOut, Subscribe, WaitEnds, vars
<1>5. play' = play \/ play' \in {"started", "waiting", "kafka error", "timeout"} \/ PlayReturns
  BY DEF PlayStarts, PlaySubscribes, PlayTimesOut, Subscribe, WaitEnds, vars
<1>6. PlayReturns => \E m \in topics : /\ Tells(m) /\ m.do = "complete"
                                       /\ play' = IF m.err # NoText THEN "error" ELSE "ok"
  BY DEF PlayReturns, V2Inv, MessagesTell
<1>7. PlayKnows'
  BY <1>1, <1>4, <1>5, <1>6 DEF PlayKnows, Tells, AllRan
<1>8. Typed'
  BY <1>1, <1>2, <1>4 DEF V2Inv, Typed
<1>9. WorksOnce'
  <2>1. \A j \in Steps : [do |-> "exec", step |-> j] \in Topics /\ [do |-> "undo", step |-> j] \in Topics
    BY DEF Topics, Steps
  <2>2. QED
    BY <1>1, <1>2, <2>1 DEF V2Inv, WorksOnce
<1>10. InOrder' /\ BackInOrder'
  BY <1>1 DEF V2Inv, InOrder, BackInOrder, IsNext, Broke
<1>11. MessagesTell'
  <2>1. \A m : Tells(m) => Tells(m)'
    BY <1>1 DEF Tells, IsNext, Broke, AllRan
  <2>2. Tells(Message("exec", 1, NoText))'
    BY DEF Tells, Message
  <2>3. QED
    BY <1>3, <2>1, <2>2 DEF V2Inv, MessagesTell
<1>12. QED
  BY <1>7, <1>8, <1>9, <1>10, <1>11 DEF V2Inv

\* Every step keeps the invariant.
LEMMA NextKeepsV2 ==
  ASSUME NoText \notin ErrorTexts
  PROVE  V2Inv /\ [Next]_vars => V2Inv'
<1>1. ASSUME V2Inv, NEW k \in 1 .. n, ExecStep(k) \/ CompensateStep(k) PROVE V2Inv'
  BY <1>1, Bounds, ExecKeeps, UndoKeeps
<1>2. QED
  BY <1>1, OthersKeep DEF Next, Work

\* What each wait, message and worker knows of the saga.
THEOREM V2Invariant == ASSUME NoText \notin ErrorTexts PROVE Spec => []V2Inv
BY InitV2, NextKeepsV2, PTL DEF Spec

-----------------------------------------------------------------------------
(* The promise.                                                            *)

\* What the refinement mapping of Promise puts for ran, undone and verdict.
Ran == {k \in 1 .. MaxSteps : ran[k] # "no"}
Undid == {k \in 1 .. MaxSteps : undone[k] # "no"}
Failed == \E k \in 1 .. MaxSteps : ran[k] = "failed"
Verdict == IF ~ Returned THEN "none" ELSE IF play \in {"ok", "error"} THEN play ELSE "unknown"

\* At first nothing has been promised.
LEMMA PromiseInit == Init => Promise!Init
<1> SUFFICES ASSUME Init PROVE Promise!Init
  OBVIOUS
<1>1. Ran = {} /\ Undid = {} /\ ~ Failed /\ Verdict = "none"
  BY DEF Init, Ran, Undid, Failed, Verdict, Returned
<1>2. n \in 0 .. MaxSteps
  BY DEF Init
<1>3. QED
  BY <1>1, <1>2 DEF Promise!Init, Ran, Undid, Failed, Verdict

\* Who was told of success or of an error is told of nothing else.
LEMMA ToldLast ==
  ASSUME V2Inv
  PROVE  /\ Verdict \in {"none", "unknown", "ok", "error"}
         /\ Verdict = "ok" <=> play = "ok"
         /\ Verdict = "error" <=> play = "error"
BY DEF V2Inv, Typed, Verdict, Returned

\* When all ran none failed, and none is undone.
LEMMA AllRanIsAll ==
  ASSUME V2Inv, AllRan
  PROVE  ~ Failed /\ Ran = 1 .. n
<1>1. n \in Nat /\ MaxSteps \in Nat /\ n <= MaxSteps /\ n \in Steps /\ ran[n] = "ok"
  BY Bounds DEF AllRan, Steps
<1>2. \A j \in 1 .. n : ran[j] = "ok"
  BY <1>1 DEF V2Inv, InOrder
<1>3. \A j \in Steps : ran[j] # "no" => j <= n
  BY DEF V2Inv, InOrder
<1>4. QED
  BY <1>1, <1>2, <1>3 DEF Ran, Failed, Steps

\* When the first step is undone all of them are.
LEMMA FirstIsLast ==
  ASSUME V2Inv, 1 \in Steps, undone[1] # "no"
  PROVE  Failed /\ Undid = Ran
<1>1. IsNext(1)
  BY DEF V2Inv, BackInOrder
<1>2. \A j \in Steps : ran[j] # "no" => undone[j] # "no"
  BY <1>1, StepsAssumption DEF IsNext, Steps
<1>3. \A j \in Steps : undone[j] # "no" => ran[j] # "no"
  BY DEF V2Inv, BackInOrder, IsNext
<1>4. QED
  BY <1>1, <1>2, <1>3 DEF IsNext, Broke, Failed, Ran, Undid, Steps

\* A step that runs is the next one.
LEMMA ExecIsRun ==
  ASSUME V2Inv, NEW k \in Nat, 1 <= k, k <= n, ExecStep(k)
  PROVE  Promise!Run
<1>1. k \in Steps /\ ran[k] = "no" /\ (k = 1 \/ ran[k - 1] = "ok")
  BY ExecTakes
<1>2. /\ \A j \in 1 .. k - 1 : ran[j] = "ok"
      /\ \A j \in k .. MaxSteps : ran[j] = "no"
      /\ ~ Broke /\ ~ AllRan /\ \A j \in Steps : undone[j] = "no"
  BY <1>1, NoneRuns
<1>3. n \in Nat /\ MaxSteps \in Nat /\ n <= MaxSteps /\ ran \in [Steps -> Outcomes]
  BY Bounds DEF V2Inv, Typed
<1>4. Ran = 1 .. k - 1
  BY <1>2, <1>3 DEF Ran, Steps
<1>5. \E did \in {"ok", "failed", "panicked"} : ran' = [ran EXCEPT ![k] = did]
  BY DEF ExecStep
<1>6. Ran' = Ran \cup {k}
  BY <1>1, <1>3, <1>5 DEF Ran, Steps
<1>7. UNCHANGED <<n, Undid, Verdict>>
  BY DEF ExecStep, Undid, Verdict, Returned
<1>8. Verdict \in {"none", "unknown"}
  BY <1>1, <1>2, ToldLast DEF V2Inv, PlayKnows
<1>9. ~ Failed /\ Failed' \in BOOLEAN
  BY <1>2 DEF Failed, Broke, Steps
<1>10. QED
  BY <1>3, <1>4, <1>6, <1>7, <1>8, <1>9 DEF Promise!Run, Ran, Undid, Failed, Verdict

\* A compensation is that of the last step left.
LEMMA CompensateIsUndo ==
  ASSUME V2Inv, NEW k \in Nat, 1 <= k, k <= n, CompensateStep(k)
  PROVE  Promise!Undo
<1>1. PICK m \in topics : /\ Takes([do |-> "undo", step |-> k], m)
                          /\ \E did \in {"ok", "failed", "panicked"} : undone' = [undone EXCEPT ![k] = did]
  BY DEF CompensateStep
<1>2. k \in Steps /\ IsNext(k) /\ undone[k] = "no"
  BY <1>1, UndoTakes
<1>3. n \in Nat /\ MaxSteps \in Nat /\ n <= MaxSteps /\ undone \in [Steps -> Outcomes]
  BY Bounds DEF V2Inv, Typed
<1>4. k \in Ran \ Undid
  BY <1>2 DEF Ran, Undid, IsNext, Steps
<1>5. \A j \in Ran \ Undid : j <= k
  BY <1>2, <1>3 DEF Ran, Undid, IsNext, Steps
<1>6. Undid' = Undid \cup {k}
  BY <1>1, <1>2, <1>3 DEF Undid, Steps
<1>7. UNCHANGED <<n, Ran, Failed, Verdict>>
  BY DEF CompensateStep, Ran, Failed, Verdict, Returned
<1>8. Failed
  BY <1>2 DEF IsNext, Broke, Failed, Steps
<1>9. Verdict \in {"none", "unknown"}
  <2>1. play # "ok"
    BY <1>8, AllRanIsAll DEF V2Inv, PlayKnows
  <2>2. play # "error"
    BY <1>4, FirstIsLast DEF V2Inv, PlayKnows
  <2>3. QED
    BY <2>1, <2>2, ToldLast
<1>10. QED
  BY <1>4, <1>5, <1>6, <1>7, <1>8, <1>9 DEF Promise!Undo, Ran, Undid, Failed, Verdict

\* What Play returns is what it was told.
LEMMA ReturnIsConclude ==
  ASSUME V2Inv, PlayReturns
  PROVE  Promise!Conclude
<1>1. PICK m \in topics : /\ m.do = "complete" /\ Tells(m)
                          /\ play' = IF m.err # NoText THEN "error" ELSE "ok"
  BY DEF PlayReturns, V2Inv, MessagesTell
<1>2. UNCHANGED <<n, Ran, Failed, Undid>> /\ Verdict = "none"
  BY DEF PlayReturns, Ran, Failed, Undid, Verdict, Returned
<1>3. CASE m.err = NoText
  <2>1. ~ Failed /\ Ran = 1 .. n
    BY <1>1, <1>3, AllRanIsAll DEF Tells
  <2>2. Verdict' = "ok"
    BY <1>1, <1>3 DEF Verdict, Returned
  <2>3. QED
    BY <1>2, <2>1, <2>2 DEF Promise!Conclude, Ran, Undid, Failed, Verdict
<1>4. CASE m.err # NoText
  <2>1. Failed /\ Undid = Ran
    BY <1>1, <1>4, FirstIsLast DEF Tells
  <2>2. Verdict' = "error"
    BY <1>1, <1>4 DEF Verdict, Returned
  <2>3. QED
    BY <1>2, <2>1, <2>2 DEF Promise!Conclude, Ran, Undid, Failed, Verdict
<1>5. QED
  BY <1>3, <1>4

\* Every step is one of the promise, or is not seen.
LEMMA PromiseNext == V2Inv /\ [Next]_vars => [Promise!Next]_(Promise!vars)
<1> SUFFICES ASSUME V2Inv, [Next]_vars PROVE [Promise!Next]_(Promise!vars)
  OBVIOUS
<1>1. ASSUME NEW k \in 1 .. n, ExecStep(k) PROVE Promise!Next
  BY <1>1, Bounds, ExecIsRun DEF Promise!Next
<1>2. ASSUME NEW k \in 1 .. n, CompensateStep(k) PROVE Promise!Next
  BY <1>2, Bounds, CompensateIsUndo DEF Promise!Next
<1>3. CASE PlayReturns
  BY <1>3, ReturnIsConclude DEF Promise!Next
<1>4. ASSUME UNCHANGED <<n, ran, undone>>, play' = play \/ ~ (Returned \/ Returned')
      PROVE  UNCHANGED Promise!vars
  BY <1>4 DEF Promise!vars, Returned
<1>5. CASE PlayTimesOut \/ PlaySubscribes
  <2>1. UNCHANGED <<n, Ran, Failed, Undid>> /\ Verdict = "none"
    BY <1>5 DEF PlayTimesOut, PlaySubscribes, Ran, Failed, Undid, Verdict, Returned
  <2>2. Verdict' \in {"none", "unknown"}
    BY <1>5 DEF PlayTimesOut, PlaySubscribes, Verdict, Returned
  <2>3. QED
    BY <2>1, <2>2 DEF Promise!Next, Promise!Abandon, Promise!vars, Ran, Failed, Undid, Verdict
<1>6. CASE PlayStarts \/ UNCHANGED vars \/ \E t \in Topics : Subscribe(t) \/ WaitEnds(t)
  <2>1. UNCHANGED <<n, ran, undone>> /\ (play' = play \/ ~ (Returned \/ Returned'))
    BY <1>6 DEF PlayStarts, Subscribe, WaitEnds, vars, Returned
  <2>2. QED
    BY <1>4, <2>1
<1>7. QED
  BY <1>1, <1>2, <1>3, <1>5, <1>6 DEF Next, Work

\* PromiseKept: sagas over topics keep the promise of Play too, whatever message
\* is lost, whichever worker is late and whatever panics, as long as the errors of
\* steps have a text (sagav2 Play takes an error without one for a success).
THEOREM V2KeepsPromise == ASSUME NoText \notin ErrorTexts PROVE Spec => PromiseKept
BY PromiseInit, PromiseNext, V2Invariant, PTL DEF Spec, PromiseKept, Promise!Spec
=============================================================================
