----------------------- MODULE SagaCoordinatorProofs -----------------------
(***************************************************************************)
(* The safety properties of SagaCoordinator, for sagas of any length.      *)
(***************************************************************************)
EXTENDS SagaCoordinator, FiniteSetTheorems, TLAPS

-----------------------------------------------------------------------------
(* What abort() reads from the log.                                        *)

\* On a log that holds the start entry and then k executions,
\* GetStepLogsToCompensate (memory.go) returns those k entries, last first.
LEMMA StepLogsReversed ==
  ASSUME NEW k \in Nat, NEW l \in Seq(Logs), Len(l) = k + 1,
         l[1].type # "SagaStepExec",
         \A s \in 1 .. k : l[s + 1].type = "SagaStepExec"
  PROVE  GetStepLogsToCompensate(l) = [j \in 1 .. k |-> l[k + 2 - j]]
<1>1. ExecAt(l) = 2 .. k + 1
  <2>1. DOMAIN l = 1 .. k + 1
    OBVIOUS
  <2>2. ASSUME NEW p \in 2 .. k + 1 PROVE l[p].type = "SagaStepExec"
    <3>1. p - 1 \in 1 .. k /\ (p - 1) + 1 = p
      OBVIOUS
    <3> QED BY <3>1
  <2> QED BY <2>1, <2>2 DEF ExecAt
<1>2. Cardinality(ExecAt(l)) = k
  <2>1. Cardinality(2 .. k + 1) = IF 2 > k + 1 THEN 0 ELSE (k + 1) - 2 + 1
    BY FS_Interval
  <2> QED BY <2>1, <1>1
<1>3. ASSUME NEW p \in 2 .. k + 1 PROVE ExecAfter(l, p) = k + 1 - p
  <2>1. {q \in ExecAt(l) : q > p} = (p + 1) .. (k + 1)
    BY <1>1
  <2>2. Cardinality((p + 1) .. (k + 1)) =
          IF p + 1 > k + 1 THEN 0 ELSE (k + 1) - (p + 1) + 1
    BY FS_Interval
  <2>3. ExecAfter(l, p) = Cardinality((p + 1) .. (k + 1))
    BY <2>1, Zenon DEF ExecAfter
  <2> QED BY <2>2, <2>3
<1>4. ASSUME NEW j \in 1 .. k
      PROVE  (CHOOSE p \in ExecAt(l) : ExecAfter(l, p) = j - 1) = k + 2 - j
  <2>1. k + 2 - j \in ExecAt(l) /\ ExecAfter(l, k + 2 - j) = j - 1
    BY <1>1, <1>3
  <2>2. \A p \in ExecAt(l) : ExecAfter(l, p) = j - 1 => p = k + 2 - j
    BY <1>1, <1>3
  <2> QED BY <2>1, <2>2
<1>5. GetStepLogsToCompensate(l) =
        [j \in 1 .. k |-> l[CHOOSE p \in ExecAt(l) : ExecAfter(l, p) = j - 1]]
  BY <1>2 DEF GetStepLogsToCompensate
<1>6. ASSUME NEW j \in 1 .. k
      PROVE  l[CHOOSE p \in ExecAt(l) : ExecAfter(l, p) = j - 1] = l[k + 2 - j]
  BY <1>4
<1> QED BY <1>5, <1>6, Zenon

-----------------------------------------------------------------------------
(* The inductive invariant: the exact shape of the log in each phase.      *)

\* The log begins with the start entry and the first k executions.
Executed(k) ==
  /\ k + 1 <= Len(log)
  /\ log[1].type = "StartSaga"
  /\ \A s \in 1 .. k : log[s + 1].type = "SagaStepExec" /\ log[s + 1].step = s

\* After the k executions the log holds the abort entry and the compensations
\* of steps k down to t + 1.
Undone(k, t) ==
  /\ k + 2 <= Len(log)
  /\ log[k + 2].type = "SagaAbort"
  /\ \A p \in k + 3 .. 2 * k + 2 - t :
       /\ p <= Len(log)
       /\ log[p].type = "SagaStepCompensate"
       /\ log[p].step = 2 * k + 3 - p

\* The steps that ran returned no error.
NoneFailed == \A s \in 1 .. i - 1 : log[s + 1] = Entry("SagaStepExec", s, "nil")

\* The entries left to compensate are those of steps Len(todo) down to 1.
TodoIsPrefix ==
  /\ Len(todo) <= i
  /\ \A j \in 1 .. Len(todo) : todo[j].step = Len(todo) + 1 - j

RunningShape ==
  /\ executionError = 0
  /\ todo = <<>>
  /\ i <= n + 1
  /\ Len(log) = i
  /\ Executed(i - 1)
  /\ NoneFailed

AbortingShape(done) ==
  /\ executionError = i
  /\ i <= n
  /\ TodoIsPrefix
  /\ Executed(i)
  /\ Undone(i, Len(todo) - done)
  /\ Len(log) = 2 * i + 2 - Len(todo) + done

LogShape ==
  /\ phase = "new" => log = <<>> /\ i = 1 /\ todo = <<>> /\ executionError = 0
  /\ phase = "running" => RunningShape
  /\ phase = "aborting" => AbortingShape(0)
  /\ phase = "panicked" =>
       \/ RunningShape
       \/ Len(todo) > 0 /\ AbortingShape(1)
  /\ phase = "complete" =>
       /\ todo = <<>>
       /\ \/ /\ executionError = 0 /\ i = n + 1 /\ Len(log) = n + 2
             /\ Executed(n) /\ NoneFailed
             /\ log[n + 2].type = "SagaComplete"
          \/ /\ executionError = i /\ i <= n /\ Len(log) = 2 * i + 3
             /\ Executed(i) /\ Undone(i, 0)
             /\ log[2 * i + 3].type = "SagaComplete"

IInv == TypeOK /\ LogShape

-----------------------------------------------------------------------------
(* The invariant is inductive.                                             *)

\* A coordinator that has not played has an empty log (coordinator.go
\* NewCoordinator).
LEMMA InitIInv == Init => IInv
  BY MaxStepsAssumption DEF Init, IInv, TypeOK, LogShape, Logs

\* A step that returns nil extends the executed prefix by one.
LEMMA ExecStepOKIInv == IInv /\ ExecStepOK => IInv'
<1> SUFFICES ASSUME IInv, ExecStepOK PROVE IInv'
  OBVIOUS
<1> USE MaxStepsAssumption
<1>1. /\ TypeOK /\ RunningShape /\ phase' = "running" /\ i <= n
      /\ log' = AppendLog(log, Entry("SagaStepExec", i, "nil")) /\ i' = i + 1
      /\ n' = n /\ todo' = todo /\ executionError' = executionError
      /\ compensateErrors' = compensateErrors
  BY DEF IInv, LogShape, ExecStepOK
<1>2. PICK e : e = Entry("SagaStepExec", i, "nil")
  OBVIOUS
<1>3. /\ log \in Seq(Logs) /\ Len(log) = i /\ i \in 1 .. MaxSteps
      /\ n \in 0 .. MaxSteps /\ i <= n
  BY <1>1 DEF TypeOK, RunningShape
<1>4. e \in Logs /\ e.type = "SagaStepExec" /\ e.step = i
  BY <1>2, <1>3 DEF Entry, Logs, LogTypes
<1>5. /\ log' \in Seq(Logs) /\ Len(log') = i + 1 /\ log'[i + 1] = e
      /\ \A p \in 1 .. i : log'[p] = log[p]
  BY <1>1, <1>2, <1>3, <1>4 DEF AppendLog
<1>6. TypeOK'
  BY <1>1, <1>3, <1>5 DEF TypeOK
<1>7. Executed(i - 1)'
  <2>1. /\ log[1].type = "StartSaga"
        /\ \A s \in 1 .. i - 1 : log[s + 1].type = "SagaStepExec" /\ log[s + 1].step = s
    BY <1>1 DEF RunningShape, Executed
  <2>2. ASSUME NEW s \in 1 .. i
        PROVE  log'[s + 1].type = "SagaStepExec" /\ log'[s + 1].step = s
    <3>1. CASE s = i
      BY <1>4, <1>5, <3>1
    <3>2. CASE s \in 1 .. i - 1
      BY <1>3, <1>5, <2>1, <3>2
    <3> QED BY <1>3, <3>1, <3>2
  <2> QED BY <1>1, <1>3, <1>5, <2>1, <2>2 DEF Executed
<1>8. NoneFailed'
  <2>1. ASSUME NEW s \in 1 .. i PROVE log'[s + 1] = Entry("SagaStepExec", s, "nil")
    <3>1. CASE s = i
      BY <1>2, <1>5, <3>1
    <3>2. CASE s \in 1 .. i - 1
      BY <1>1, <1>3, <1>5, <3>2 DEF RunningShape, NoneFailed
    <3> QED BY <1>3, <3>1, <3>2
  <2> QED BY <1>1, <1>3, <2>1 DEF NoneFailed
<1>9. RunningShape'
  BY <1>1, <1>3, <1>5, <1>7, <1>8 DEF RunningShape
<1> QED BY <1>1, <1>6, <1>9 DEF IInv, LogShape

\* A log that holds the start entry and the executions of steps 1 to k.
ExecutedPrefix(l, k) ==
  /\ l[1].type = "StartSaga"
  /\ \A s \in 1 .. k : l[s + 1].type = "SagaStepExec" /\ l[s + 1].step = s

\* Logging the execution of step k (coordinator.go:96) makes the prefix one longer.
LEMMA PrefixGrows ==
  ASSUME NEW k \in Nat \ {0}, NEW l \in Seq(Logs), Len(l) = k, ExecutedPrefix(l, k - 1),
         NEW e \in Logs, e.type = "SagaStepExec", e.step = k
  PROVE  /\ AppendLog(l, e) \in Seq(Logs)
         /\ Len(AppendLog(l, e)) = k + 1
         /\ ExecutedPrefix(AppendLog(l, e), k)
<1>1. PICK m : m = AppendLog(l, e)
  OBVIOUS
<1>2. /\ m \in Seq(Logs) /\ Len(m) = k + 1 /\ m[k + 1] = e
      /\ \A p \in 1 .. k : m[p] = l[p]
  BY <1>1 DEF AppendLog
<1>3. m[1].type = "StartSaga"
  BY <1>2 DEF ExecutedPrefix
<1>4. ASSUME NEW s \in 1 .. k
      PROVE  m[s + 1].type = "SagaStepExec" /\ m[s + 1].step = s
  <2>1. CASE s = k
    BY <1>2, <2>1
  <2>2. CASE s \in 1 .. k - 1
    BY <1>2, <2>2 DEF ExecutedPrefix
  <2> QED BY <2>1, <2>2
<1> QED BY <1>1, <1>2, <1>3, <1>4 DEF ExecutedPrefix

\* What abort() finds in such a log: the steps k down to 1 (coordinator.go:114).
LEMMA FoundSteps ==
  ASSUME NEW k \in Nat, NEW l \in Seq(Logs), Len(l) = k + 1, ExecutedPrefix(l, k)
  PROVE  /\ GetStepLogsToCompensate(l) \in Seq(Logs)
         /\ Len(GetStepLogsToCompensate(l)) = k
         /\ \A j \in 1 .. k : GetStepLogsToCompensate(l)[j].step = k + 1 - j
<1>1. GetStepLogsToCompensate(l) = [j \in 1 .. k |-> l[k + 2 - j]]
  BY StepLogsReversed DEF ExecutedPrefix
<1>2. ASSUME NEW j \in 1 .. k
      PROVE  l[k + 2 - j] \in Logs /\ l[k + 2 - j].step = k + 1 - j
  <2>1. k + 1 - j \in 1 .. k /\ (k + 1 - j) + 1 = k + 2 - j /\ k + 2 - j \in 1 .. Len(l)
    OBVIOUS
  <2>2. l[(k + 1 - j) + 1].step = k + 1 - j
    BY <2>1 DEF ExecutedPrefix
  <2> QED BY <2>1, <2>2
<1> QED BY <1>1, <1>2

\* The abort entry (coordinator.go:118) stands right after the executions.
LEMMA AbortEntry ==
  ASSUME NEW k \in 1 .. MaxSteps, NEW l \in Seq(Logs), Len(l) = k + 1, ExecutedPrefix(l, k)
  PROVE  LET r == AppendLog(l, Entry("SagaAbort", k, "nil"))
         IN  /\ r \in Seq(Logs) /\ Len(r) = k + 2
             /\ ExecutedPrefix(r, k)
             /\ r[k + 2].type = "SagaAbort"
<1> USE MaxStepsAssumption
<1>1. PICK a : a = Entry("SagaAbort", k, "nil")
  OBVIOUS
<1>2. a \in Logs /\ a.type = "SagaAbort"
  BY <1>1 DEF Entry, Logs, LogTypes
<1>3. PICK r : r = AppendLog(l, a)
  OBVIOUS
<1>4. /\ r \in Seq(Logs) /\ Len(r) = k + 2 /\ r[k + 2] = a
      /\ \A p \in 1 .. k + 1 : r[p] = l[p]
  BY <1>2, <1>3 DEF AppendLog
<1>5. ExecutedPrefix(r, k)
  BY <1>4 DEF ExecutedPrefix
<1> QED BY <1>1, <1>2, <1>3, <1>4, <1>5

\* A step that fails turns the executed prefix into the list to compensate.
LEMMA ExecStepFailsIInv == IInv /\ ExecStepFails => IInv'
<1> SUFFICES ASSUME IInv, ExecStepFails PROVE IInv'
  OBVIOUS
<1> USE MaxStepsAssumption
<1>1. /\ phase = "running" /\ i <= n /\ i' = i /\ n' = n /\ executionError' = i
      /\ phase' = "aborting" /\ compensateErrors' = compensateErrors
  BY DEF ExecStepFails
<1>2. /\ log \in Seq(Logs) /\ Len(log) = i /\ i \in 1 .. MaxSteps /\ n \in 0 .. MaxSteps
      /\ ExecutedPrefix(log, i - 1)
  BY <1>1 DEF IInv, TypeOK, LogShape, RunningShape, Executed, ExecutedPrefix
<1>3. PICK e, m :
        /\ e = Entry("SagaStepExec", i, "error")
        /\ m = AppendLog(log, e)
        /\ todo' = GetStepLogsToCompensate(m)
        /\ log' = AppendLog(m, Entry("SagaAbort", Len(todo'), "nil"))
  BY Zenon DEF ExecStepFails
<1>4. m \in Seq(Logs) /\ Len(m) = i + 1 /\ ExecutedPrefix(m, i)
  <2>1. e \in Logs /\ e.type = "SagaStepExec" /\ e.step = i
    BY <1>2, <1>3 DEF Entry, Logs, LogTypes
  <2>2. i \in Nat \ {0}
    BY <1>2
  <2> QED BY <1>2, <1>3, <2>1, <2>2, PrefixGrows, Zenon
<1>5. /\ todo' \in Seq(Logs) /\ Len(todo') = i
      /\ \A j \in 1 .. i : todo'[j].step = i + 1 - j
  <2>1. i \in Nat
    BY <1>2
  <2> QED BY <1>3, <1>4, <2>1, FoundSteps, Zenon
<1>9. /\ log' \in Seq(Logs) /\ Len(log') = i + 2
      /\ ExecutedPrefix(log', i) /\ log'[i + 2].type = "SagaAbort"
  <2>1. log' = AppendLog(m, Entry("SagaAbort", i, "nil"))
    BY <1>3, <1>5, Zenon
  <2> QED BY <1>2, <1>4, <2>1, AbortEntry, Zenon
<1>6. TypeOK'
  BY <1>1, <1>2, <1>5, <1>9 DEF IInv, TypeOK
<1>7. Executed(i)' /\ Undone(i, Len(todo) - 0)' /\ TodoIsPrefix'
  <2>1. Executed(i)'
    BY <1>1, <1>2, <1>9 DEF Executed, ExecutedPrefix
  <2>2. Undone(i, Len(todo) - 0)'
    BY <1>1, <1>2, <1>5, <1>9 DEF Undone
  <2>3. TodoIsPrefix'
    BY <1>1, <1>2, <1>5 DEF TodoIsPrefix
  <2> QED BY <2>1, <2>2, <2>3
<1>8. AbortingShape(0)'
  BY <1>1, <1>2, <1>5, <1>7, <1>9 DEF AbortingShape
<1> QED BY <1>1, <1>6, <1>8 DEF IInv, LogShape

\* Logging the compensation of the head of todo (coordinator.go:175) extends the
\* undone part by one, whatever the compensation then does.
LEMMA LogCompensationShape ==
  ASSUME TypeOK, AbortingShape(0), todo # <<>>, LogCompensation, i' = i
  PROVE  /\ Len(todo) \in 1 .. i
         /\ log' \in Seq(Logs) /\ Len(log') = 2 * i + 3 - Len(todo)
         /\ Executed(i)'
         /\ \A u \in Nat : u = Len(todo) - 1 => Undone(i, u)'
<1> USE MaxStepsAssumption
<1>1. /\ log \in Seq(Logs) /\ todo \in Seq(Logs) /\ i \in 1 .. MaxSteps
      /\ Executed(i)
  BY DEF TypeOK, AbortingShape
<1>2. PICK t \in 1 .. i : t = Len(todo)
  <2>1. Len(todo) \in Nat /\ Len(todo) # 0
    BY <1>1
  <2>2. Len(todo) <= i
    BY DEF AbortingShape, TodoIsPrefix
  <2> QED BY <1>1, <2>1, <2>2
<1>3. Len(log) = 2 * i + 2 - t /\ Undone(i, t)
  <2>1. Len(log) = 2 * i + 2 - Len(todo) + 0 /\ Undone(i, Len(todo) - 0)
    BY DEF AbortingShape
  <2>2. Len(todo) - 0 = t /\ 2 * i + 2 - Len(todo) + 0 = 2 * i + 2 - t
    BY <1>1, <1>2
  <2> QED BY <2>1, <2>2
<1>4. Head(todo).step = t
  <2>1. todo[1].step = t + 1 - 1
    BY <1>1, <1>2 DEF AbortingShape, TodoIsPrefix
  <2>2. Head(todo) = todo[1]
    BY <1>1, <1>2
  <2> QED BY <1>2, <2>1, <2>2
<1>5. PICK e : e = Entry("SagaStepCompensate", t, "nil")
  OBVIOUS
<1>6. e \in Logs /\ e.type = "SagaStepCompensate" /\ e.step = t
  BY <1>1, <1>2, <1>5 DEF Entry, Logs, LogTypes
<1>7. log' = AppendLog(log, e)
  BY <1>4, <1>5, Zenon DEF LogCompensation
<1>8. /\ log' \in Seq(Logs) /\ Len(log') = Len(log) + 1 /\ log'[Len(log) + 1] = e
      /\ \A p \in 1 .. Len(log) : log'[p] = log[p]
  BY <1>1, <1>6, <1>7 DEF AppendLog
<1>9. Executed(i)'
  <2>1. /\ i + 1 <= Len(log) /\ log[1].type = "StartSaga"
        /\ \A s \in 1 .. i : log[s + 1].type = "SagaStepExec" /\ log[s + 1].step = s
    BY <1>1, Zenon DEF Executed
  <2>2. /\ Len(log) \in Nat /\ 1 \in 1 .. Len(log)
        /\ \A s \in 1 .. i : s + 1 \in 1 .. Len(log)
    BY <1>1, <2>1
  <2>3. \A s \in 1 .. i : log'[s + 1] = log[s + 1]
    BY <1>8, <2>2
  <2>4. i + 1 <= Len(log') /\ log'[1] = log[1]
    BY <1>1, <1>8, <2>1, <2>2
  <2> QED BY <2>1, <2>3, <2>4 DEF Executed
<1>10. i + 2 <= Len(log') /\ log'[i + 2].type = "SagaAbort"
  BY <1>1, <1>2, <1>3, <1>8 DEF Undone
<1>11. ASSUME NEW p \in i + 3 .. 2 * i + 2 - (t - 1)
       PROVE  /\ p <= Len(log') /\ log'[p].type = "SagaStepCompensate"
              /\ log'[p].step = 2 * i + 3 - p
  <2>1. CASE p = Len(log) + 1
    <3>1. p = 2 * i + 3 - t
      BY <1>3, <2>1, <1>1
    <3> QED BY <1>1, <1>2, <1>6, <1>8, <2>1, <3>1
  <2>2. CASE p <= Len(log)
    <3>1. p \in 1 .. Len(log) /\ p \in i + 3 .. 2 * i + 2 - t /\ p <= Len(log) + 1
      BY <1>1, <1>2, <1>3, <2>2
    <3>2. log[p].type = "SagaStepCompensate" /\ log[p].step = 2 * i + 3 - p
      BY <1>3, <3>1, Zenon DEF Undone
    <3> QED BY <1>8, <3>1, <3>2
  <2> QED BY <1>1, <1>2, <1>3, <2>1, <2>2
<1>12. ASSUME NEW u \in Nat, u = Len(todo) - 1 PROVE Undone(i, u)'
  <2>1. u = t - 1
    BY <1>2, <1>12
  <2> QED BY <1>10, <1>11, <2>1 DEF Undone
<1>13. Len(log') = 2 * i + 3 - Len(todo)
  <2>1. Len(log') = Len(log) + 1
    BY <1>8, Zenon
  <2>2. Len(log) = 2 * i + 2 - t
    BY <1>3
  <2>3. t = Len(todo) /\ t \in Int /\ i \in Int
    BY <1>1, <1>2
  <2> QED BY <2>1, <2>2, <2>3
<1> QED BY <1>2, <1>8, <1>9, <1>12, <1>13

\* A compensation that returns, with or without an error, takes its step off
\* the list.
LEMMA CompensateStepIInv == IInv /\ CompensateStep => IInv'
<1> SUFFICES ASSUME IInv, CompensateStep PROVE IInv'
  OBVIOUS
<1> USE MaxStepsAssumption
<1>1. /\ TypeOK /\ AbortingShape(0) /\ todo # <<>> /\ LogCompensation
      /\ i' = i /\ n' = n /\ phase' = "aborting" /\ executionError' = executionError
      /\ todo' = Tail(todo)
  BY DEF IInv, LogShape, CompensateStep
<1>2. /\ Len(todo) \in 1 .. i
      /\ log' \in Seq(Logs) /\ Len(log') = 2 * i + 3 - Len(todo)
      /\ Executed(i)'
      /\ \A t \in Nat : t = Len(todo) - 1 => Undone(i, t)'
  BY <1>1, LogCompensationShape, Zenon
<1>3. /\ todo \in Seq(Logs) /\ todo' \in Seq(Logs) /\ Len(todo') = Len(todo) - 1
      /\ \A j \in 1 .. Len(todo') : todo'[j] = todo[j + 1]
      /\ i \in 1 .. MaxSteps + 1
  BY <1>1, <1>2 DEF TypeOK
<1>4. TodoIsPrefix'
  <2>1. PICK t \in Nat : t = Len(todo) /\ t <= i
    BY <1>1, <1>3 DEF AbortingShape, TodoIsPrefix
  <2>2. Len(todo') = t - 1 /\ t - 1 \in Nat
    BY <1>2, <1>3, <2>1
  <2>3. ASSUME NEW j \in 1 .. t - 1 PROVE todo'[j].step = (t - 1) + 1 - j
    <3>1. j + 1 \in 1 .. t
      BY <2>1
    <3>2. todo[j + 1].step = t + 1 - (j + 1)
      BY <1>1, <2>1, <3>1 DEF AbortingShape, TodoIsPrefix
    <3>3. todo'[j] = todo[j + 1]
      BY <1>3, <2>2
    <3> QED BY <2>1, <3>2, <3>3
  <2> QED BY <1>1, <1>3, <2>1, <2>2, <2>3 DEF TodoIsPrefix
<1>5. Undone(i, Len(todo) - 0)'
  <2>1. Len(todo) - 1 \in Nat /\ Len(todo)' - 0 = Len(todo) - 1
    <3>1. Len(todo) \in 1 .. i /\ i \in 1 .. MaxSteps + 1 /\ Len(todo') = Len(todo) - 1
      BY <1>2, <1>3, Zenon
    <3> QED BY <3>1
  <2>2. PICK t \in Nat : t = Len(todo) - 1
    BY <2>1, Zenon
  <2>3. Undone(i, t)'
    BY <1>2, <2>2, Zenon
  <2>4. (Len(todo) - 0)' = t
    BY <2>1, <2>2
  <2> QED BY <2>3, <2>4 DEF Undone
<1>6. AbortingShape(0)'
  <2>1. executionError' = i' /\ i' <= n'
    BY <1>1 DEF AbortingShape
  <2>2. Len(log') = 2 * i' + 2 - Len(todo') + 0
    <3>1. /\ Len(log') = 2 * i + 3 - Len(todo) /\ Len(todo') = Len(todo) - 1 /\ i' = i
          /\ Len(todo) \in 1 .. i /\ i \in 1 .. MaxSteps + 1
      BY <1>1, <1>2, <1>3, Zenon
    <3> QED BY <3>1
  <2> QED BY <1>1, <1>2, <1>4, <1>5, <2>1, <2>2 DEF AbortingShape
<1>7. compensateErrors' \subseteq 1 .. MaxSteps
  <2>1. /\ todo \in Seq(Logs) /\ todo # <<>> /\ Len(todo) \in 1 .. i
        /\ i \in 1 .. MaxSteps + 1 /\ i <= n /\ n \in 0 .. MaxSteps
    BY <1>1, <1>2, <1>3, ZenonT(60) DEF AbortingShape, TypeOK
  <2>2. todo[1].step = Len(todo) + 1 - 1
    BY <1>1, <2>1 DEF AbortingShape, TodoIsPrefix
  <2>3. Head(todo) = todo[1]
    BY <2>1
  <2>4. Head(todo).step \in 1 .. MaxSteps
    <3>1. Head(todo).step = Len(todo) + 1 - 1
      BY <2>2, <2>3, Zenon
    <3>2. Len(todo) \in 1 .. MaxSteps
      <4>1. Len(todo) \in 1 .. i /\ i <= n /\ n \in 0 .. MaxSteps /\ i \in 1 .. MaxSteps + 1
        BY <2>1, Zenon
      <4> QED BY <4>1
    <3>3. Len(todo) + 1 - 1 = Len(todo)
      BY <3>2
    <3> QED BY <3>1, <3>2, <3>3, Zenon
  <2> QED BY <2>4 DEF CompensateStep, IInv, TypeOK
<1>8. TypeOK'
  BY <1>1, <1>2, <1>3, <1>7, ZenonT(60) DEF TypeOK
<1> QED BY <1>1, <1>6, <1>8 DEF IInv, LogShape

\* A compensation that panics leaves its step on the list, already logged.
LEMMA CompensateStepPanicsIInv == IInv /\ CompensateStepPanics => IInv'
<1> SUFFICES ASSUME IInv, CompensateStepPanics PROVE IInv'
  OBVIOUS
<1> USE MaxStepsAssumption
<1>1. /\ TypeOK /\ AbortingShape(0) /\ todo # <<>> /\ LogCompensation
      /\ i' = i /\ n' = n /\ phase' = "panicked" /\ executionError' = executionError
      /\ todo' = todo /\ compensateErrors' = compensateErrors
  BY DEF IInv, LogShape, CompensateStepPanics
<1>2. /\ Len(todo) \in 1 .. i
      /\ log' \in Seq(Logs) /\ Len(log') = 2 * i + 3 - Len(todo)
      /\ Executed(i)'
      /\ \A t \in Nat : t = Len(todo) - 1 => Undone(i, t)'
  BY <1>1, LogCompensationShape, Zenon
<1>3. i \in 1 .. MaxSteps + 1 /\ Len(todo) \in Nat
  BY <1>1, <1>2 DEF TypeOK
<1>4. Undone(i, Len(todo) - 1)'
  <2>1. Len(todo) - 1 \in Nat
    <3>1. Len(todo) \in 1 .. i /\ i \in 1 .. MaxSteps + 1
      BY <1>2, <1>3, Zenon
    <3> QED BY <3>1
  <2>2. PICK t \in Nat : t = Len(todo) - 1
    BY <2>1, Zenon
  <2>3. Undone(i, t)'
    BY <1>2, <2>2, Zenon
  <2>4. (Len(todo) - 1)' = t
    BY <1>1, <2>2
  <2> QED BY <2>3, <2>4 DEF Undone
<1>5. AbortingShape(1)' /\ Len(todo') > 0
  BY <1>1, <1>2, <1>3, <1>4 DEF AbortingShape, TodoIsPrefix
<1>6. TypeOK'
  BY <1>1, <1>2 DEF TypeOK
<1> QED BY <1>1, <1>5, <1>6 DEF IInv, LogShape

\* SagaComplete is the last entry, after a full run or a full rollback.
LEMMA CompleteIInv == IInv /\ Complete => IInv'
<1> SUFFICES ASSUME IInv, Complete PROVE IInv'
  OBVIOUS
<1> USE MaxStepsAssumption
<1>1. /\ TypeOK /\ phase' = "complete"
      /\ n' = n /\ i' = i /\ todo' = todo /\ executionError' = executionError
      /\ compensateErrors' = compensateErrors
  BY DEF IInv, Complete
<1>2. PICK e : e = Entry("SagaComplete", 0, "nil")
  OBVIOUS
<1>3. e \in Logs /\ e.type = "SagaComplete"
  BY <1>2 DEF Entry, Logs, LogTypes
<1>4. /\ log \in Seq(Logs)
      /\ log' \in Seq(Logs) /\ Len(log') = Len(log) + 1 /\ log'[Len(log) + 1] = e
      /\ \A p \in 1 .. Len(log) : log'[p] = log[p]
  <2>1. log' = AppendLog(log, e) /\ log \in Seq(Logs)
    BY <1>2 DEF Complete, IInv, TypeOK
  <2> QED BY <1>3, <2>1 DEF AppendLog
<1>5. TypeOK'
  BY <1>1, <1>4 DEF TypeOK
<1>6. CASE phase = "running" /\ i > n
  <2>1. RunningShape /\ i \in Nat /\ n \in Nat
    BY <1>6 DEF IInv, LogShape, TypeOK
  <2>2. i = n + 1 /\ Len(log) = n + 1 /\ Executed(n)
    BY <1>6, <2>1 DEF RunningShape, Executed
  <2>3. Executed(n)' /\ NoneFailed'
    BY <1>1, <1>4, <2>1, <2>2, SMTT(60) DEF Executed, RunningShape, NoneFailed
  <2> QED BY <1>1, <1>3, <1>4, <1>5, <2>1, <2>2, <2>3 DEF IInv, LogShape, RunningShape
<1>7. CASE phase = "aborting" /\ todo = <<>>
  <2>1. AbortingShape(0) /\ i \in Nat /\ n \in Nat /\ Len(todo) = 0
    BY <1>7 DEF IInv, LogShape, TypeOK
  <2>2. i <= n /\ Len(log) = 2 * i + 2 /\ executionError = i /\ Executed(i) /\ Undone(i, 0)
    BY <2>1 DEF AbortingShape, Undone
  <2>3. Executed(i)'
    BY <1>1, <1>4, <2>1, <2>2 DEF Executed
  <2>4. Undone(i, 0)'
    BY <1>1, <1>4, <2>1, <2>2 DEF Undone
  <2> QED BY <1>1, <1>3, <1>4, <1>5, <2>1, <2>2, <2>3, <2>4 DEF IInv, LogShape
<1> QED BY <1>6, <1>7 DEF Complete

\* Every step of the coordinator keeps the shape of the log.
LEMMA NextIInv == IInv /\ [Next]_vars => IInv'
<1> SUFFICES ASSUME IInv, [Next]_vars PROVE IInv'
  OBVIOUS
<1> USE MaxStepsAssumption
<1>1. CASE Play
  BY <1>1 DEF Play, IInv, TypeOK, LogShape, RunningShape, Executed, NoneFailed,
     Logs, LogTypes, Entry, AppendLog
<1>2. CASE ExecStepPanics
  BY <1>2 DEF ExecStepPanics, IInv, TypeOK, LogShape, RunningShape, Executed, NoneFailed
<1>3. CASE UNCHANGED vars
  BY <1>3 DEF vars, IInv, TypeOK, LogShape, RunningShape, AbortingShape, Executed,
     Undone, NoneFailed, TodoIsPrefix
<1> QED
  BY <1>1, <1>2, <1>3, ExecStepOKIInv, ExecStepFailsIInv, CompensateStepIInv,
     CompensateStepPanicsIInv, CompleteIInv DEF Next, Done

-----------------------------------------------------------------------------
(* The properties.                                                         *)

\* Every reachable log has the shape of IInv.
THEOREM Shape == Spec => []IInv
  BY InitIInv, NextIInv, PTL DEF Spec

\* The coordinator's state is well typed: the step counter and the log never
\* leave the bounds set by the number of registered steps (coordinator.go Play).
THEOREM TypeCorrect == Spec => []TypeOK
<1>1. IInv => TypeOK
  BY DEF IInv
<1> QED BY <1>1, Shape, PTL

\* No compensation stands among the executions.
LEMMA NoneInPrefix ==
  ASSUME NEW k \in Nat, Executed(k), log \in Seq(Logs),
         NEW p \in 1 .. k + 1, log[p].type = "SagaStepCompensate"
  PROVE  FALSE
<1>1. CASE p = 1
  BY <1>1 DEF Executed
<1>2. CASE p # 1
  <2>1. p - 1 \in 1 .. k /\ (p - 1) + 1 = p
    BY <1>2
  <2>2. log[(p - 1) + 1].type = "SagaStepExec"
    BY <2>1, Zenon DEF Executed
  <2> QED BY <2>1, <2>2
<1> QED BY <1>1, <1>2

\* In a log that is a prefix of a full rollback of k steps, a compensation has
\* its execution as mirror image.
LEMMA MirrorImage ==
  ASSUME NEW k \in Nat, NEW t \in Nat, Executed(k), Undone(k, t), log \in Seq(Logs),
         NEW p \in 1 .. Len(log), p <= 2 * k + 2 - t, log[p].type = "SagaStepCompensate"
  PROVE  /\ k + 2 \in 1 .. p
         /\ log[k + 2].type = "SagaAbort"
         /\ 2 * (k + 2) - p \in DOMAIN log
         /\ log[2 * (k + 2) - p].type = "SagaStepExec"
         /\ log[2 * (k + 2) - p].step = log[p].step
<1>1. k + 2 <= Len(log) /\ log[k + 2].type = "SagaAbort"
  BY Zenon DEF Undone
<1>2. p > k + 2
  <2>1. ~ (p \in 1 .. k + 1)
    BY NoneInPrefix
  <2>2. p # k + 2
    BY <1>1
  <2> QED BY <2>1, <2>2
<1>3. p \in k + 3 .. 2 * k + 2 - t
  BY <1>2
<1>4. log[p].step = 2 * k + 3 - p
  BY <1>3, Zenon DEF Undone
<1>5. 2 * k + 3 - p \in 1 .. k /\ (2 * k + 3 - p) + 1 = 2 * (k + 2) - p
  BY <1>3
<1>6. /\ log[(2 * k + 3 - p) + 1].type = "SagaStepExec"
      /\ log[(2 * k + 3 - p) + 1].step = 2 * k + 3 - p
  BY <1>5, Zenon DEF Executed
<1>7. 2 * (k + 2) - p \in 1 .. Len(log)
  BY <1>1, <1>3, SMTT(60)
<1>8. k + 2 \in 1 .. p
  BY <1>2
<1> QED BY <1>1, <1>4, <1>5, <1>6, <1>7, <1>8, SMTT(60)

\* abort() compensates only what was executed, in the reverse order, once
\* (coordinator.go abort, memory.go GetStepLogsToCompensate).
THEOREM MirrorCorrect == Spec => []CompensationMirrorsExecution
<1>1. IInv => CompensationMirrorsExecution
  <2> SUFFICES ASSUME IInv, NEW p \in DOMAIN log, log[p].type = "SagaStepCompensate"
               PROVE  \E a \in 1 .. p :
                        /\ log[a].type = "SagaAbort"
                        /\ 2 * a - p \in DOMAIN log
                        /\ log[2 * a - p].type = "SagaStepExec"
                        /\ log[2 * a - p].step = log[p].step
    BY DEF CompensationMirrorsExecution
  <2> USE MaxStepsAssumption
  <2>1. /\ log \in Seq(Logs) /\ p \in 1 .. Len(log) /\ Len(log) \in Nat
        /\ i \in Nat \ {0} /\ i - 1 \in Nat /\ n \in Nat /\ Len(todo) \in Nat
    BY DEF IInv, TypeOK
  <2>2. \E t \in Nat : Executed(i) /\ Undone(i, t) /\ p <= 2 * i + 2 - t
    <3>1. ~ RunningShape
      <4>1. SUFFICES ASSUME RunningShape PROVE FALSE
        OBVIOUS
      <4>2. Executed(i - 1) /\ p \in 1 .. (i - 1) + 1
        BY <2>1, <4>1 DEF RunningShape
      <4> QED BY <2>1, <4>2, NoneInPrefix, Zenon
    <3>2. CASE phase = "new"
      BY <2>1, <3>2 DEF IInv, LogShape
    <3>3. CASE phase = "running"
      BY <3>1, <3>3 DEF IInv, LogShape
    <3>4. CASE phase = "aborting"
      <4>1. AbortingShape(0)
        BY <3>4 DEF IInv, LogShape
      <4>2. /\ Executed(i) /\ Undone(i, Len(todo) - 0)
            /\ Len(log) = 2 * i + 2 - Len(todo) + 0
        BY <4>1, Zenon DEF AbortingShape
      <4>3. Len(todo) - 0 \in Nat /\ p <= 2 * i + 2 - (Len(todo) - 0)
        BY <2>1, <4>2
      <4> QED BY <4>2, <4>3, Zenon
    <3>5. CASE phase = "panicked"
      <4>1. Len(todo) > 0 /\ AbortingShape(1)
        BY <3>1, <3>5 DEF IInv, LogShape
      <4>2. /\ Executed(i) /\ Undone(i, Len(todo) - 1)
            /\ Len(log) = 2 * i + 2 - Len(todo) + 1
        BY <4>1, Zenon DEF AbortingShape
      <4>3. Len(todo) - 1 \in Nat /\ p <= 2 * i + 2 - (Len(todo) - 1)
        BY <2>1, <4>1, <4>2
      <4> QED BY <4>2, <4>3, Zenon
    <3>6. CASE phase = "complete"
      <4>1. CASE Executed(n) /\ Len(log) = n + 2 /\ log[n + 2].type = "SagaComplete"
        <5>1. p \in 1 .. n + 1
          BY <2>1, <4>1
        <5> QED BY <2>1, <4>1, <5>1, NoneInPrefix, Zenon
      <4>2. CASE /\ Executed(i) /\ Undone(i, 0) /\ Len(log) = 2 * i + 3
                 /\ log[2 * i + 3].type = "SagaComplete"
        <5>1. p <= 2 * i + 2 - 0
          BY <2>1, <4>2
        <5> QED BY <4>2, <5>1
      <4> QED BY <3>6, <4>1, <4>2 DEF IInv, LogShape
    <3> QED BY <3>2, <3>3, <3>4, <3>5, <3>6 DEF IInv, TypeOK
  <2>3. PICK t \in Nat : Executed(i) /\ Undone(i, t) /\ p <= 2 * i + 2 - t
    BY <2>2
  <2>4. i \in Nat /\ log \in Seq(Logs) /\ p \in 1 .. Len(log)
    BY <2>1
  <2>5. /\ i + 2 \in 1 .. p
        /\ log[i + 2].type = "SagaAbort"
        /\ 2 * (i + 2) - p \in DOMAIN log
        /\ log[2 * (i + 2) - p].type = "SagaStepExec"
        /\ log[2 * (i + 2) - p].step = log[p].step
    BY <2>3, <2>4, MirrorImage, ZenonT(60)
  <2> QED BY <2>5, Zenon
<1> QED BY <1>1, Shape, PTL

\* An entry among the first k + 1 is the start entry or the execution of the
\* step before its place.
LEMMA PrefixEntry ==
  ASSUME NEW k \in Nat, Executed(k), NEW p \in 1 .. k + 1
  PROVE  \/ p = 1 /\ log[p].type = "StartSaga"
         \/ p # 1 /\ log[p].type = "SagaStepExec" /\ log[p].step = p - 1
<1>1. CASE p = 1
  BY <1>1 DEF Executed
<1>2. CASE p # 1
  <2>1. p - 1 \in 1 .. k /\ (p - 1) + 1 = p
    BY <1>2
  <2>2. log[(p - 1) + 1].type = "SagaStepExec" /\ log[(p - 1) + 1].step = p - 1
    BY <2>1, Zenon DEF Executed
  <2> QED BY <1>2, <2>1, <2>2
<1> QED BY <1>1, <1>2

\* When Play returns an error every step that ran has been compensated after it
\* ran, the failing one too, whatever the compensations returned
\* (coordinator.go abort).
THEOREM AbortComplete == Spec => []AbortCompensatesAll
<1>1. IInv => AbortCompensatesAll
  <2> SUFFICES ASSUME IInv, phase = "complete", executionError # 0, NEW p \in ExecAt(log)
               PROVE  \E c \in DOMAIN log :
                        /\ log[c].type = "SagaStepCompensate"
                        /\ log[c].step = log[p].step
                        /\ c > p
    BY DEF AbortCompensatesAll
  <2> USE MaxStepsAssumption
  <2>1. i \in Nat /\ log \in Seq(Logs) /\ Len(log) \in Nat
    BY DEF IInv, TypeOK
  <2>2. /\ Len(log) = 2 * i + 3 /\ Executed(i) /\ Undone(i, 0)
        /\ log[2 * i + 3].type = "SagaComplete"
    BY DEF IInv, LogShape
  <2>3. p \in 1 .. 2 * i + 3 /\ log[p].type = "SagaStepExec"
    BY <2>1, <2>2 DEF ExecAt
  <2>4. log[i + 2].type = "SagaAbort"
    BY <2>2 DEF Undone
  <2>5. ASSUME NEW c \in i + 3 .. 2 * i + 2
        PROVE  log[c].type = "SagaStepCompensate" /\ log[c].step = 2 * i + 3 - c
    <3>1. c \in i + 3 .. 2 * i + 2 - 0
      BY <2>1
    <3> QED BY <2>2, <3>1, Zenon DEF Undone
  <2>6. p \in 1 .. i + 1
    BY <2>1, <2>2, <2>3, <2>4, <2>5
  <2>7. p # 1 /\ log[p].step = p - 1
    BY <2>1, <2>2, <2>3, <2>6, PrefixEntry
  <2>8. 2 * i + 4 - p \in i + 3 .. 2 * i + 2
    BY <2>1, <2>6, <2>7
  <2>9. /\ log[2 * i + 4 - p].type = "SagaStepCompensate"
        /\ log[2 * i + 4 - p].step = 2 * i + 3 - (2 * i + 4 - p)
    BY <2>5, <2>8
  <2>10. /\ 2 * i + 4 - p \in DOMAIN log
         /\ 2 * i + 3 - (2 * i + 4 - p) = p - 1
         /\ 2 * i + 4 - p > p
    BY <2>1, <2>2, <2>6, <2>8
  <2> QED BY <2>7, <2>9, <2>10
<1> QED BY <1>1, Shape, PTL

\* When Play returns no error all the steps ran, in order and without an error,
\* and none was compensated (coordinator.go Play).
THEOREM SuccessComplete == Spec => []SuccessRanEveryStep
<1>1. IInv => SuccessRanEveryStep
  <2> SUFFICES ASSUME IInv, phase = "complete", executionError = 0
               PROVE  /\ \A s \in 1 .. n : log[s + 1] = Entry("SagaStepExec", s, "nil")
                      /\ \A p \in DOMAIN log :
                           log[p].type \notin {"SagaAbort", "SagaStepCompensate"}
    BY DEF SuccessRanEveryStep
  <2> USE MaxStepsAssumption
  <2>1. i \in Nat \ {0} /\ n \in Nat /\ log \in Seq(Logs)
    BY DEF IInv, TypeOK
  <2>2. /\ i = n + 1 /\ Len(log) = n + 2 /\ Executed(n) /\ NoneFailed
        /\ log[n + 2].type = "SagaComplete"
    BY <2>1 DEF IInv, LogShape
  <2>3. \A s \in 1 .. n : log[s + 1] = Entry("SagaStepExec", s, "nil")
    <3>1. i - 1 = n
      BY <2>1, <2>2
    <3> QED BY <2>2, <3>1 DEF NoneFailed
  <2>4. ASSUME NEW p \in DOMAIN log
        PROVE  log[p].type \notin {"SagaAbort", "SagaStepCompensate"}
    <3>1. p \in 1 .. n + 1 \/ p = n + 2
      BY <2>1, <2>2
    <3>2. CASE p \in 1 .. n + 1
      BY <2>1, <2>2, <3>2, PrefixEntry
    <3>3. CASE p = n + 2
      BY <2>2, <3>3
    <3> QED BY <3>1, <3>2, <3>3
  <2> QED BY <2>3, <2>4
<1> QED BY <1>1, Shape, PTL

\* A log entry that is not an execution leaves the executions as they are.
LEMMA AppendOther ==
  ASSUME NEW e \in Logs, log \in Seq(Logs), e.type # "SagaStepExec", log' = Append(log, e)
  PROVE  ExecAt(log') = ExecAt(log)
<1>1. DOMAIN log' = 1 .. Len(log) + 1 /\ DOMAIN log = 1 .. Len(log) /\ Len(log) \in Nat
  OBVIOUS
<1>2. \A p \in 1 .. Len(log) : log'[p] = log[p]
  OBVIOUS
<1>3. log'[Len(log) + 1] = e
  OBVIOUS
<1> QED BY <1>1, <1>2, <1>3 DEF ExecAt

\* Once a step has failed no later step is executed, although Play's loop goes
\* on to the last one (coordinator.go execStep).
THEOREM AbortIsFinal == Spec => NoStepAfterAbort
<1> DEFINE Aborted == \E p \in DOMAIN log : log[p].type = "SagaAbort"
<1>1. IInv /\ [Next]_vars => [Aborted => ExecAt(log') = ExecAt(log)]_vars
  <2> SUFFICES ASSUME IInv, Next, Aborted PROVE ExecAt(log') = ExecAt(log)
    BY DEF vars
  <2> USE MaxStepsAssumption
  <2>1. i \in Nat \ {0} /\ log \in Seq(Logs) /\ todo \in Seq(Logs)
    BY DEF IInv, TypeOK
  <2>2. phase # "new"
    BY DEF IInv, LogShape
  <2>3. phase # "running"
    <3> SUFFICES ASSUME phase = "running" PROVE FALSE
      OBVIOUS
    <3>1. Len(log) = i /\ Executed(i - 1)
      BY DEF IInv, LogShape, RunningShape
    <3>2. PICK p \in DOMAIN log : log[p].type = "SagaAbort"
      OBVIOUS
    <3>3. i - 1 \in Nat /\ p \in 1 .. (i - 1) + 1
      BY <2>1, <3>1
    <3> QED BY <3>1, <3>2, <3>3, PrefixEntry
  <2>4. CASE CompensateStep \/ CompensateStepPanics
    <3> DEFINE e == Entry("SagaStepCompensate", Head(todo).step, "nil")
    <3>1. todo # <<>> /\ log' = Append(log, e)
      BY <2>4 DEF CompensateStep, CompensateStepPanics, LogCompensation, AppendLog
    <3>2. Head(todo) \in Logs
      BY <2>1, <3>1
    <3>3. e \in Logs /\ e.type # "SagaStepExec"
      BY <3>2 DEF Entry, Logs, LogTypes
    <3> HIDE DEF e
    <3> QED BY <2>1, <3>1, <3>3, AppendOther
  <2>5. CASE Complete
    <3> DEFINE e == Entry("SagaComplete", 0, "nil")
    <3>1. log' = Append(log, e)
      BY <2>5 DEF Complete, AppendLog
    <3>2. e \in Logs /\ e.type # "SagaStepExec"
      BY DEF Entry, Logs, LogTypes
    <3> HIDE DEF e
    <3> QED BY <2>1, <3>1, <3>2, AppendOther
  <2>6. CASE UNCHANGED log
    BY <2>6
  <2> QED
    BY <2>2, <2>3, <2>4, <2>5, <2>6
       DEF Next, Play, ExecStepOK, ExecStepFails, ExecStepPanics, Done, vars
<1> QED BY <1>1, Shape, PTL DEF Spec, NoStepAfterAbort

-----------------------------------------------------------------------------
(* The promise to the caller: SagaCoordinator implements SagaPromise.  The *)
(* log is the abstract state: what ran and what was undone are intervals   *)
(* of step numbers, and a step of Play moves one end of one of them.       *)

\* What the refinement mapping of Promise puts for ran, undone and verdict.
Ran == Logged("SagaStepExec")
Called == Logged("SagaStepCompensate")
ToDo == {todo[j].step : j \in DOMAIN todo}
Undid == Called \ ToDo
Verdict ==
  IF phase = "panicked" THEN "unknown"
  ELSE IF phase # "complete" THEN "none"
  ELSE IF executionError = 0 THEN "ok" ELSE "error"

\* The steps 1 .. RanUpTo ran; of those, the steps above LeftOf are undone.
RanUpTo == IF executionError # 0 THEN i ELSE i - 1
LeftOf == IF executionError # 0 THEN Len(todo) ELSE i - 1

\* A log whose executions are its first k entries after the start ran 1 .. k.
LEMMA RanFromLog ==
  ASSUME NEW k \in Nat, log \in Seq(Logs), Executed(k),
         \A p \in k + 2 .. Len(log) : log[p].type # "SagaStepExec"
  PROVE  Ran = 1 .. k
<1>1. Len(log) \in Nat /\ DOMAIN log = 1 .. Len(log) /\ k + 1 <= Len(log)
  BY DEF Executed
<1>2. ASSUME NEW s \in Ran PROVE s \in 1 .. k
  <2>1. PICK p \in 1 .. Len(log) : log[p].type = "SagaStepExec" /\ s = log[p].step
    BY <1>1 DEF Ran, Logged
  <2>2. p \in 1 .. k + 1
    BY <1>1, <2>1
  <2>3. p # 1 /\ log[p].step = p - 1
    BY <2>1, <2>2, PrefixEntry
  <2> QED BY <2>1, <2>2, <2>3
<1>3. ASSUME NEW s \in 1 .. k PROVE s \in Ran
  <2>1. s + 1 \in 1 .. Len(log)
    BY <1>1
  <2>2. log[s + 1].type = "SagaStepExec" /\ log[s + 1].step = s
    BY DEF Executed
  <2> QED BY <1>1, <2>1, <2>2 DEF Ran, Logged
<1> QED BY <1>2, <1>3

\* A log that undoes k steps down to t + 1 called the compensations t + 1 .. k.
LEMMA CalledFromLog ==
  ASSUME NEW k \in Nat, NEW t \in 0 .. k, log \in Seq(Logs), Executed(k), Undone(k, t),
         \A p \in 2 * k + 3 - t .. Len(log) : log[p].type # "SagaStepCompensate"
  PROVE  Called = t + 1 .. k
<1>1. Len(log) \in Nat /\ DOMAIN log = 1 .. Len(log) /\ k + 2 <= Len(log)
  BY DEF Undone
<1>2. ASSUME NEW s \in Called PROVE s \in t + 1 .. k
  <2>1. PICK p \in 1 .. Len(log) : log[p].type = "SagaStepCompensate" /\ s = log[p].step
    BY <1>1 DEF Called, Logged
  <2>2. p \in k + 3 .. 2 * k + 2 - t
    <3>1. ~ (p \in 1 .. k + 1)
      BY <2>1, NoneInPrefix
    <3>2. p # k + 2
      BY <2>1 DEF Undone
    <3>3. ~ (p \in 2 * k + 3 - t .. Len(log))
      BY <2>1
    <3> QED BY <1>1, <3>1, <3>2, <3>3
  <2>3. log[p].step = 2 * k + 3 - p
    BY <2>2, Zenon DEF Undone
  <2> QED BY <2>1, <2>2, <2>3
<1>3. ASSUME NEW s \in t + 1 .. k PROVE s \in Called
  <2>1. 2 * k + 3 - s \in k + 3 .. 2 * k + 2 - t /\ 2 * k + 3 - (2 * k + 3 - s) = s
        /\ 2 * k + 3 - s >= 1
    OBVIOUS
  <2>2. /\ 2 * k + 3 - s <= Len(log) /\ log[2 * k + 3 - s].type = "SagaStepCompensate"
        /\ log[2 * k + 3 - s].step = s
    BY <2>1 DEF Undone
  <2>3. 2 * k + 3 - s \in DOMAIN log
    BY <1>1, <2>1, <2>2
  <2> QED BY <2>2, <2>3 DEF Called, Logged
<1> QED BY <1>2, <1>3

\* A log without an entry of compensateStep called no compensation.
LEMMA NoneCalled ==
  ASSUME NEW k \in Nat, log \in Seq(Logs), Executed(k),
         \A p \in k + 2 .. Len(log) : log[p].type # "SagaStepCompensate"
  PROVE  Called = {}
<1>1. Len(log) \in Nat /\ DOMAIN log = 1 .. Len(log)
  OBVIOUS
<1>2. ASSUME NEW p \in 1 .. Len(log), log[p].type = "SagaStepCompensate" PROVE FALSE
  <2>1. ~ (p \in 1 .. k + 1)
    BY <1>2, NoneInPrefix
  <2> QED BY <1>1, <1>2, <2>1
<1> QED BY <1>1, <1>2 DEF Called, Logged

\* The steps still on toCompensateLogs are the first ones.
LEMMA TodoSteps ==
  ASSUME todo \in Seq(Logs), TodoIsPrefix
  PROVE  ToDo = 1 .. Len(todo)
<1>1. PICK t \in Nat : t = Len(todo) /\ DOMAIN todo = 1 .. t
  OBVIOUS
<1>2. \A j \in 1 .. t : todo[j].step = t + 1 - j
  BY <1>1 DEF TodoIsPrefix
<1>3. ASSUME NEW s \in 1 .. t PROVE s \in ToDo
  <2>1. t + 1 - s \in 1 .. t /\ t + 1 - (t + 1 - s) = s
    OBVIOUS
  <2> QED BY <1>1, <1>2, <2>1 DEF ToDo
<1>4. ASSUME NEW s \in ToDo PROVE s \in 1 .. t
  <2>1. PICK j \in 1 .. t : s = todo[j].step
    BY <1>1 DEF ToDo
  <2> QED BY <1>2, <2>1
<1> QED BY <1>1, <1>3, <1>4

Intervals ==
  /\ RanUpTo \in Nat /\ LeftOf \in 0 .. RanUpTo
  /\ Ran = 1 .. RanUpTo
  /\ Undid = LeftOf + 1 .. RanUpTo

\* The log and toCompensateLogs show those two intervals in every phase of Play.
LEMMA View == IInv => Intervals
<1> SUFFICES ASSUME IInv PROVE Intervals
  OBVIOUS
<1> USE MaxStepsAssumption
<1>1. /\ log \in Seq(Logs) /\ Len(log) \in Nat /\ i \in Nat \ {0} /\ i - 1 \in Nat
      /\ n \in Nat /\ todo \in Seq(Logs) /\ Len(todo) \in Nat
  BY DEF IInv, TypeOK
<1>2. CASE RunningShape
  <2>1. /\ Executed(i - 1) /\ Len(log) = i /\ todo = <<>> /\ executionError = 0
    BY <1>2 DEF RunningShape
  <2>2. \A p \in (i - 1) + 2 .. Len(log) : FALSE
    BY <1>1, <2>1
  <2>3. Ran = 1 .. i - 1
    BY <1>1, <2>1, <2>2, RanFromLog
  <2>4. Called = {}
    BY <1>1, <2>1, <2>2, NoneCalled
  <2>5. Undid = (i - 1) + 1 .. i - 1
    BY <1>1, <2>4 DEF Undid
  <2> QED BY <1>1, <2>1, <2>3, <2>5 DEF Intervals, RanUpTo, LeftOf
<1>3. ASSUME NEW done \in {0, 1}, done <= Len(todo), AbortingShape(done)
      PROVE  Intervals
  <2>1. /\ executionError = i /\ TodoIsPrefix /\ Executed(i)
        /\ Undone(i, Len(todo) - done)
        /\ Len(log) = 2 * i + 2 - Len(todo) + done
    BY <1>3 DEF AbortingShape
  <2>2. PICK u \in 0 .. i : u = Len(todo) - done
    <3>1. Len(todo) <= i
      BY <2>1, Zenon DEF TodoIsPrefix
    <3>2. Len(todo) - done \in 0 .. i
      BY <1>1, <1>3, <3>1
    <3> QED BY <3>2
  <2>3. \A p \in 2 * i + 3 - u .. Len(log) : FALSE
    BY <1>1, <1>3, <2>1, <2>2
  <2>4. Called = u + 1 .. i
    BY <1>1, <2>1, <2>2, <2>3, CalledFromLog
  <2>5. \A p \in i + 2 .. Len(log) : log[p].type # "SagaStepExec"
    <3>1. SUFFICES ASSUME NEW p \in i + 2 .. Len(log) PROVE log[p].type # "SagaStepExec"
      OBVIOUS
    <3>2. p = i + 2 \/ p \in i + 3 .. 2 * i + 2 - u
      BY <1>1, <1>3, <2>1, <2>2
    <3> QED BY <2>1, <2>2, <3>2 DEF Undone
  <2>6. Ran = 1 .. i
    BY <1>1, <2>1, <2>5, RanFromLog
  <2>7. ToDo = 1 .. Len(todo)
    BY <1>1, <2>1, TodoSteps
  <2>8. Undid = Len(todo) + 1 .. i
    BY <1>1, <1>3, <2>2, <2>4, <2>7 DEF Undid
  <2>9. Len(todo) \in 0 .. i
    BY <1>1, <2>1 DEF TodoIsPrefix
  <2> QED BY <1>1, <2>1, <2>6, <2>8, <2>9 DEF Intervals, RanUpTo, LeftOf
<1>4. CASE phase = "new"
  <2>1. log = <<>> /\ i = 1 /\ todo = <<>> /\ executionError = 0
    BY <1>4 DEF IInv, LogShape
  <2>2. Ran = {} /\ Called = {}
    BY <2>1 DEF Ran, Called, Logged
  <2> QED BY <2>1, <2>2 DEF Intervals, RanUpTo, LeftOf, Undid
<1>5. CASE phase = "complete" /\ executionError = 0
  <2>1. /\ i = n + 1 /\ Len(log) = n + 2 /\ Executed(n) /\ todo = <<>>
        /\ log[n + 2].type = "SagaComplete"
    BY <1>1, <1>5 DEF IInv, LogShape
  <2>2. \A p \in n + 2 .. Len(log) : p = n + 2
    BY <1>1, <2>1
  <2>3. Ran = 1 .. n
    BY <1>1, <2>1, <2>2, RanFromLog
  <2>4. Called = {}
    BY <1>1, <2>1, <2>2, NoneCalled
  <2>5. Undid = n + 1 .. n
    BY <1>1, <2>4 DEF Undid
  <2> QED BY <1>1, <1>5, <2>1, <2>3, <2>5 DEF Intervals, RanUpTo, LeftOf
<1>6. CASE phase = "complete" /\ executionError # 0
  <2>1. /\ executionError = i /\ Len(log) = 2 * i + 3 /\ Executed(i) /\ Undone(i, 0)
        /\ log[2 * i + 3].type = "SagaComplete" /\ todo = <<>>
    BY <1>1, <1>6 DEF IInv, LogShape
  <2>2. \A p \in 2 * i + 3 - 0 .. Len(log) : p = 2 * i + 3
    BY <1>1, <2>1
  <2>3. Called = 0 + 1 .. i
    BY <1>1, <2>1, <2>2, CalledFromLog
  <2>4. \A p \in i + 2 .. Len(log) : log[p].type # "SagaStepExec"
    <3>1. SUFFICES ASSUME NEW p \in i + 2 .. Len(log) PROVE log[p].type # "SagaStepExec"
      OBVIOUS
    <3>2. p = i + 2 \/ p \in i + 3 .. 2 * i + 2 - 0 \/ p = 2 * i + 3
      BY <1>1, <2>1
    <3> QED BY <2>1, <3>2 DEF Undone
  <2>5. Ran = 1 .. i
    BY <1>1, <2>1, <2>4, RanFromLog
  <2>6. ToDo = {}
    BY <2>1 DEF ToDo
  <2> QED BY <1>1, <1>6, <2>1, <2>3, <2>5, <2>6 DEF Intervals, RanUpTo, LeftOf, Undid
<1>7. CASE phase = "panicked"
  <2>1. RunningShape \/ (1 <= Len(todo) /\ AbortingShape(1))
    BY <1>1, <1>7 DEF IInv, LogShape
  <2> QED BY <1>2, <1>3, <2>1
<1>8. CASE phase = "aborting"
  <2>1. 0 <= Len(todo) /\ AbortingShape(0)
    BY <1>1, <1>8 DEF IInv, LogShape
  <2> QED BY <1>3, <2>1
<1>9. CASE phase = "running"
  BY <1>2, <1>9 DEF IInv, LogShape
<1> QED BY <1>4, <1>5, <1>6, <1>7, <1>8, <1>9 DEF IInv, TypeOK

\* Before Play nothing ran and nothing was promised (coordinator.go NewCoordinator).
LEMMA PromiseInit == Init => Promise!Init
<1> SUFFICES ASSUME Init PROVE Promise!Init
  OBVIOUS
<1>1. Logged("SagaStepExec") = {} /\ Logged("SagaStepCompensate") = {}
  BY DEF Init, Logged
<1> QED BY <1>1 DEF Promise!Init, Init

\* A step of Play is a step of the promise or is not seen by the caller: execStep
\* runs the next step, compensateStep undoes the last one left, a panic abandons
\* the saga, and the SagaComplete entry concludes it (coordinator.go Play).
LEMMA PromiseNext == IInv /\ IInv' /\ [Next]_vars => [Promise!Next]_(Promise!vars)
<1> SUFFICES ASSUME IInv, IInv', [Next]_vars PROVE [Promise!Next]_(Promise!vars)
  OBVIOUS
<1> USE MaxStepsAssumption
<1>1. /\ RanUpTo \in Nat /\ LeftOf \in 0 .. RanUpTo
      /\ Ran = 1 .. RanUpTo /\ Undid = LeftOf + 1 .. RanUpTo
  BY View DEF Intervals
<1>2. /\ RanUpTo' \in Nat /\ LeftOf' \in 0 .. RanUpTo'
      /\ Ran' = 1 .. RanUpTo' /\ Undid' = LeftOf' + 1 .. RanUpTo'
  <2>1. Intervals'
    BY View, PTL
  <2> QED BY <2>1 DEF Intervals
<1>3. /\ i \in Nat \ {0} /\ n \in Nat /\ todo \in Seq(Logs)
      /\ i' \in Nat \ {0} /\ todo' \in Seq(Logs)
  BY DEF IInv, TypeOK
<1> DEFINE failed == executionError # 0
<1> USE DEF Ran, Undid, Called, ToDo, Verdict
<1>4. CASE UNCHANGED <<n, Ran, failed, Undid, Verdict>>
  BY <1>4 DEF Promise!vars
<1>5. CASE /\ ~ failed /\ Verdict = "none" /\ RanUpTo < n
           /\ Ran' = Ran \cup {RanUpTo + 1}
           /\ UNCHANGED <<n, Undid, Verdict>>
  <2>1. RanUpTo + 1 \in 1 .. n /\ Ran = 1 .. (RanUpTo + 1) - 1
    BY <1>1, <1>3, <1>5
  <2>2. (executionError # 0)' \in BOOLEAN
    OBVIOUS
  <2>3. Promise!Run
    BY <1>5, <2>1, <2>2 DEF Promise!Run
  <2> QED BY <2>3 DEF Promise!Next
<1>6. CASE /\ failed /\ Verdict = "none"
           /\ \E k \in Ran \ Undid : (\A j \in Ran \ Undid : j <= k) /\ Undid' = Undid \cup {k}
           /\ UNCHANGED <<n, Ran, failed, Verdict>>
  <2>1. Promise!Undo
    BY <1>6 DEF Promise!Undo
  <2> QED BY <2>1 DEF Promise!Next
<1>7. CASE /\ Verdict = "none"
           /\ \/ ~ failed /\ Ran = 1 .. n /\ Verdict' = "ok"
              \/ failed /\ Undid = Ran /\ Verdict' = "error"
           /\ UNCHANGED <<n, Ran, failed, Undid>>
  <2>1. Promise!Conclude
    BY <1>7 DEF Promise!Conclude
  <2> QED BY <2>1 DEF Promise!Next
<1>8. CASE Verdict = "none" /\ Verdict' = "unknown" /\ UNCHANGED <<n, Ran, failed, Undid>>
  <2>1. Promise!Abandon
    BY <1>8 DEF Promise!Abandon
  <2> QED BY <2>1 DEF Promise!Next
<1>9. CASE Play
  <2>1. executionError' = 0 /\ executionError = 0 /\ i' = i /\ n' = n
        /\ phase = "new" /\ phase' = "running"
    BY <1>9 DEF Play, IInv, LogShape
  <2>2. RanUpTo' = RanUpTo /\ LeftOf' = LeftOf
    BY <2>1 DEF Intervals, RanUpTo, LeftOf
  <2>3. Ran' = Ran /\ Undid' = Undid /\ Verdict' = Verdict
    <3> HIDE DEF Ran, Undid
    <3> QED BY <1>1, <1>2, <2>1, <2>2
  <2> QED BY <1>4, <2>1, <2>3
<1>10. CASE ExecStepOK
  <2>1. executionError' = 0 /\ executionError = 0 /\ i' = i + 1 /\ n' = n /\ i <= n
        /\ phase = "running" /\ phase' = "running"
    BY <1>10 DEF ExecStepOK, IInv, LogShape, RunningShape
  <2>2. RanUpTo' = RanUpTo + 1 /\ LeftOf' = LeftOf + 1 /\ LeftOf = RanUpTo /\ RanUpTo < n
    BY <1>3, <2>1 DEF Intervals, RanUpTo, LeftOf
  <2>3. Ran' = Ran \cup {RanUpTo + 1} /\ Undid' = Undid /\ Verdict' = Verdict
    <3> HIDE DEF Ran, Undid
    <3> QED BY <1>1, <1>2, <2>1, <2>2
  <2>4. ~ failed /\ Verdict = "none"
    BY <2>1
  <2> QED BY <1>5, <2>1, <2>2, <2>3, <2>4
<1>11. CASE ExecStepFails
  <2>1. executionError' = i /\ executionError = 0 /\ i' = i /\ n' = n /\ i <= n
        /\ phase = "running" /\ phase' = "aborting"
    BY <1>11 DEF ExecStepFails, IInv, LogShape, RunningShape
  <2>2. Len(todo') = i
    <3>1. PICK m, found :
            /\ m = Append(log, Entry("SagaStepExec", i, "error"))
            /\ log' = Append(m, Entry("SagaAbort", Len(found), "nil"))
      BY <1>11, Zenon DEF ExecStepFails, AppendLog
    <3>2. log \in Seq(Logs) /\ Len(log) = i /\ log' \in Seq(Logs)
      BY <2>1 DEF IInv, TypeOK, LogShape, RunningShape
    <3>3. i \in 1 .. MaxSteps
      BY <2>1 DEF IInv, TypeOK
    <3>4. Entry("SagaStepExec", i, "error") \in Logs
      BY <3>3 DEF Entry, Logs, LogTypes
    <3>5. m \in Seq(Logs) /\ Len(m) = i + 1
      <4> HIDE DEF Ran, Undid, Called, ToDo, Verdict
      <4> QED BY <3>1, <3>2, <3>4
    <3>6. Len(log') = i + 2
      <4>1. \A e : Len(Append(m, e)) = Len(m) + 1
        BY <3>5
      <4> QED BY <1>3, <3>1, <3>5, <4>1
    <3>7. Len(log') = 2 * i + 2 - Len(todo') + 0
      BY <2>1 DEF IInv, LogShape, AbortingShape
    <3>8. Len(todo') \in Nat
      BY <1>3
    <3> QED BY <1>3, <3>6, <3>7, <3>8
  <2>3. RanUpTo' = RanUpTo + 1 /\ LeftOf' = RanUpTo' /\ LeftOf = RanUpTo /\ RanUpTo < n
    BY <1>3, <2>1, <2>2 DEF RanUpTo, LeftOf
  <2>4. Ran' = Ran \cup {RanUpTo + 1} /\ Undid' = Undid /\ Verdict' = Verdict
    <3> HIDE DEF Ran, Undid
    <3> QED BY <1>1, <1>2, <2>1, <2>3
  <2>5. ~ failed /\ Verdict = "none"
    BY <2>1
  <2> QED BY <1>5, <2>1, <2>3, <2>4, <2>5
<1>12. CASE ExecStepPanics
  <2>1. executionError' = executionError /\ i' = i /\ n' = n /\ todo' = todo /\ log' = log
        /\ phase = "running" /\ phase' = "panicked"
    BY <1>12 DEF ExecStepPanics
  <2>2. Verdict = "none" /\ Verdict' = "unknown" /\ failed' = failed
    BY <2>1
  <2>3. Ran' = Ran /\ Undid' = Undid
    BY <2>1 DEF Logged
  <2> QED BY <1>8, <2>1, <2>2, <2>3
<1>13. CASE CompensateStep
  <2>1. executionError' = executionError /\ executionError = i /\ i' = i /\ n' = n
        /\ todo # <<>> /\ todo' = Tail(todo)
        /\ phase = "aborting" /\ phase' = "aborting"
    BY <1>13 DEF CompensateStep, IInv, LogShape, AbortingShape
  <2>2. Len(todo) \in Nat \ {0} /\ Len(todo') = Len(todo) - 1
    BY <1>3, <2>1
  <2>3. /\ RanUpTo' = RanUpTo /\ LeftOf' = LeftOf - 1 /\ LeftOf >= 1
    BY <1>3, <2>1, <2>2 DEF RanUpTo, LeftOf
  <2>4. /\ LeftOf \in Ran \ Undid /\ \A j \in Ran \ Undid : j <= LeftOf
        /\ Undid' = Undid \cup {LeftOf} /\ Ran' = Ran
    <3> HIDE DEF Ran, Undid
    <3> QED BY <1>1, <1>2, <2>3
  <2>5. failed /\ Verdict = "none" /\ failed' = failed /\ Verdict' = Verdict
    BY <1>3, <2>1
  <2> QED BY <1>6, <2>1, <2>4, <2>5
<1>14. CASE CompensateStepPanics
  <2>1. executionError' = executionError /\ i' = i /\ n' = n /\ todo' = todo
        /\ phase = "aborting" /\ phase' = "panicked"
    BY <1>14 DEF CompensateStepPanics
  <2>2. RanUpTo' = RanUpTo /\ LeftOf' = LeftOf
    BY <2>1 DEF RanUpTo, LeftOf
  <2>3. Ran' = Ran /\ Undid' = Undid
    <3> HIDE DEF Ran, Undid
    <3> QED BY <1>1, <1>2, <2>2
  <2>4. Verdict = "none" /\ Verdict' = "unknown" /\ failed' = failed
    BY <2>1
  <2> QED BY <1>8, <2>1, <2>3, <2>4
<1>15. CASE Complete
  <2>1. executionError' = executionError /\ i' = i /\ n' = n /\ todo' = todo
        /\ phase' = "complete"
    BY <1>15 DEF Complete
  <2>2. RanUpTo' = RanUpTo /\ LeftOf' = LeftOf
    BY <2>1 DEF RanUpTo, LeftOf
  <2>3. Ran' = Ran /\ Undid' = Undid
    <3> HIDE DEF Ran, Undid
    <3> QED BY <1>1, <1>2, <2>2
  <2>4. CASE phase = "running" /\ i > n
    <3>1. executionError = 0 /\ i = n + 1
      BY <1>3, <2>4 DEF IInv, LogShape, RunningShape
    <3>2. Ran = 1 .. n
      <4> HIDE DEF Ran
      <4>1. RanUpTo = n
        BY <1>3, <3>1 DEF RanUpTo
      <4> QED BY <1>1, <4>1
    <3>3. ~ failed /\ Verdict = "none" /\ Verdict' = "ok" /\ failed' = failed
      BY <2>1, <2>4, <3>1
    <3> QED BY <1>7, <2>1, <2>3, <3>2, <3>3
  <2>5. CASE phase = "aborting" /\ todo = <<>>
    <3>1. executionError = i
      BY <2>5 DEF IInv, LogShape, AbortingShape
    <3>2. Undid = Ran
      <4> HIDE DEF Ran, Undid
      <4>1. LeftOf = 0
        BY <1>3, <2>5, <3>1 DEF LeftOf
      <4> QED BY <1>1, <4>1
    <3>3. failed /\ Verdict = "none" /\ Verdict' = "error" /\ failed' = failed
      BY <1>3, <2>1, <2>5, <3>1
    <3> QED BY <1>7, <2>1, <2>3, <3>2, <3>3
  <2> QED BY <1>15, <2>4, <2>5 DEF Complete
<1>16. CASE UNCHANGED vars
  <2>1. UNCHANGED <<n, Ran, failed, Undid, Verdict>>
    BY <1>16 DEF vars, Logged
  <2> QED BY <1>4, <2>1
<1> QED
  BY <1>9, <1>10, <1>11, <1>12, <1>13, <1>14, <1>15, <1>16 DEF Next, Done

\* The caller of Play gets what SagaPromise says, for sagas of any length: the
\* coordinator implements the abstract specification (coordinator.go Play, abort).
THEOREM PromiseHolds == Spec => PromiseKept
  BY PromiseInit, PromiseNext, Shape, PTL DEF Spec, PromiseKept, Promise!Spec
=============================================================================
