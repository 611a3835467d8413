-------------------------- MODULE SagaCoordinator --------------------------
(***************************************************************************)
(* One execution of utils/saga: the ExecutionCoordinator plays the steps   *)
(* of a Saga in order, keeps its history in the log store, and when a step *)
(* returns an error compensates what the log says was executed.            *)
(*                                                                         *)
(* A step and its compensation are opaque callbacks: each returns nil,     *)
(* returns an error or panics.  What the callbacks of the payment flows do *)
(* is the subject of module PaymentSaga, which implements this one.        *)
(***************************************************************************)
EXTENDS Integers, Sequences, FiniteSets

CONSTANT MaxSteps   \* bound on the number of steps AddStep has registered

ASSUME MaxStepsAssumption == MaxSteps \in Nat

VARIABLES
  n,                \* len(saga.steps), fixed when Play is called
  log,              \* logStore.m[ExecutionID]
  phase,            \* where Play is, or how it was left
  i,                \* the step execStep will run next (1-based)
  todo,             \* toCompensateLogs still to be compensated
  executionError,   \* the step whose error Result carries, 0 for nil
  compensateErrors  \* the steps whose compensation returned an error

vars == <<n, log, phase, i, todo, executionError, compensateErrors>>

LogTypes == {"StartSaga", "SagaStepExec", "SagaAbort",
             "SagaStepCompensate", "SagaComplete"}

\* A log entry: its type, StepNumber (0 when absent) and StepError.
Entry(type, step, err) == [type |-> type, step |-> step, err |-> err]

Logs == [type : LogTypes, step : 0 .. MaxSteps, err : {"nil", "error"}]

Init ==
  /\ n \in 0 .. MaxSteps
  /\ log = <<>>
  /\ phase = "new"
  /\ i = 1
  /\ todo = <<>>
  /\ executionError = 0
  /\ compensateErrors = {}

-----------------------------------------------------------------------------
(* The log store.                                                          *)

AppendLog(l, entry) == Append(l, entry)

ExecAt(l) == {p \in DOMAIN l : l[p].type = "SagaStepExec"}

\* How many executed steps the log holds after position p.
ExecAfter(l, p) == Cardinality({q \in ExecAt(l) : q > p})

\* Mutant: the entries in the order they were appended.
GetStepLogsForward(l) ==
  [j \in 1 .. Cardinality(ExecAt(l)) |->
     l[CHOOSE p \in ExecAt(l) : ExecAfter(l, p) = Cardinality(ExecAt(l)) - j]]

\* The SagaStepExec entries, last first: entry j has j - 1 of them after it.
GetStepLogsToCompensate(l) ==
  [j \in 1 .. Cardinality(ExecAt(l)) |->
     l[CHOOSE p \in ExecAt(l) : ExecAfter(l, p) = j - 1]]

-----------------------------------------------------------------------------
(* The coordinator.                                                        *)

Play ==
  /\ phase = "new"
  /\ phase' = "running"
  /\ log' = AppendLog(log, Entry("StartSaga", 0, "nil"))
  /\ UNCHANGED <<n, i, todo, executionError, compensateErrors>>

\* Mutant: execStep does not look at c.aborted.
ExecStepIgnoresAborted ==
  /\ phase \in {"running", "aborting"}
  /\ i <= n
  /\ log' = AppendLog(log, Entry("SagaStepExec", i, "nil"))
  /\ i' = i + 1
  /\ UNCHANGED <<n, phase, todo, executionError, compensateErrors>>

ExecStepOK ==
  /\ phase = "running"
  /\ i <= n
  /\ log' = AppendLog(log, Entry("SagaStepExec", i, "nil"))
  /\ i' = i + 1
  /\ UNCHANGED <<n, phase, todo, executionError, compensateErrors>>

\* Mutant: abort() runs before the failing step is logged.
ExecStepFailsUnlogged ==
  /\ phase = "running"
  /\ i <= n
  /\ executionError' = i
  /\ LET found == GetStepLogsToCompensate(log)
     IN  /\ todo' = found
         /\ log' = AppendLog(AppendLog(log, Entry("SagaAbort", Len(found), "nil")),
                             Entry("SagaStepExec", i, "error"))
  /\ phase' = "aborting"
  /\ UNCHANGED <<n, i, compensateErrors>>

\* The failing step is logged as executed before abort() reads the log, so it
\* is compensated too.
ExecStepFails ==
  /\ phase = "running"
  /\ i <= n
  /\ executionError' = i
  /\ LET executed == AppendLog(log, Entry("SagaStepExec", i, "error"))
         found    == GetStepLogsToCompensate(executed)
     IN  /\ todo' = found
         /\ log' = AppendLog(executed, Entry("SagaAbort", Len(found), "nil"))
  /\ phase' = "aborting"
  /\ UNCHANGED <<n, i, compensateErrors>>

\* A panic in a step unwinds Play: nothing is logged, nothing is compensated.
ExecStepPanics ==
  /\ phase = "running"
  /\ i <= n
  /\ phase' = "panicked"
  /\ UNCHANGED <<n, log, i, todo, executionError, compensateErrors>>

\* The entry is appended before the compensation is called, so it is there
\* whatever the compensation does.
LogCompensation ==
  log' = AppendLog(log, Entry("SagaStepCompensate", Head(todo).step, "nil"))

CompensateStep ==
  /\ phase = "aborting"
  /\ todo # <<>>
  /\ LogCompensation
  /\ todo' = Tail(todo)
  /\ \/ UNCHANGED compensateErrors
     \/ compensateErrors' = compensateErrors \cup {Head(todo).step}
  /\ UNCHANGED <<n, phase, i, executionError>>

CompensateStepPanics ==
  /\ phase = "aborting"
  /\ todo # <<>>
  /\ LogCompensation
  /\ phase' = "panicked"
  /\ UNCHANGED <<n, i, todo, executionError, compensateErrors>>

Complete ==
  /\ \/ phase = "running" /\ i > n
     \/ phase = "aborting" /\ todo = <<>>
  /\ phase' = "complete"
  /\ log' = AppendLog(log, Entry("SagaComplete", 0, "nil"))
  /\ UNCHANGED <<n, i, todo, executionError, compensateErrors>>

Returned == phase \in {"complete", "panicked"}

\* The caller has its Result (or its panic); the execution is over.
Done == Returned /\ UNCHANGED vars

Next ==
  \/ Play
  \/ ExecStepOK
  \/ ExecStepFails
  \/ ExecStepPanics
  \/ CompensateStep
  \/ CompensateStepPanics
  \/ Complete
  \/ Done

Spec == Init /\ [][Next]_vars

-----------------------------------------------------------------------------
(* Properties.                                                             *)

TypeOK ==
  /\ n \in 0 .. MaxSteps
  /\ log \in Seq(Logs)
  /\ phase \in {"new", "running", "aborting", "complete", "panicked"}
  /\ i \in 1 .. MaxSteps + 1
  /\ todo \in Seq(Logs)
  /\ executionError \in 0 .. MaxSteps
  /\ compensateErrors \subseteq 1 .. MaxSteps

\* The abort entry is a mirror: a compensation stands as far behind it as the
\* execution of the same step stands before it.  abort() therefore undoes only
\* what ran, each step once, the last one first (coordinator.go abort,
\* memory.go GetStepLogsToCompensate).
CompensationMirrorsExecution ==
  \A p \in DOMAIN log : log[p].type = "SagaStepCompensate" =>
    \E a \in 1 .. p :
      /\ log[a].type = "SagaAbort"
      /\ 2 * a - p \in DOMAIN log
      /\ log[2 * a - p].type = "SagaStepExec"
      /\ log[2 * a - p].step = log[p].step

\* When Play returns a Result with an error, every step that ran, the failing
\* one included, has been compensated, however many compensations returned
\* errors on the way (coordinator.go:145).
AbortCompensatesAll ==
  phase = "complete" /\ executionError # 0 =>
    \A p \in ExecAt(log) :
      \E c \in DOMAIN log :
        /\ log[c].type = "SagaStepCompensate"
        /\ log[c].step = log[p].step
        /\ c > p

\* A Result without an error means all n steps ran in order and nothing was
\* compensated (coordinator.go Play).
SuccessRanEveryStep ==
  phase = "complete" /\ executionError = 0 =>
    /\ \A s \in 1 .. n : log[s + 1] = Entry("SagaStepExec", s, "nil")
    /\ \A p \in DOMAIN log : log[p].type \notin {"SagaAbort", "SagaStepCompensate"}

\* Once a step has failed no later step is executed (coordinator.go:67).
NoStepAfterAbort ==
  [][(\E p \in DOMAIN log : log[p].type = "SagaAbort") => ExecAt(log') = ExecAt(log)]_vars

Logged(type) == {log[p].step : p \in {q \in DOMAIN log : log[q].type = type}}

\* The promise of module SagaPromise is kept: steps run in order, those that ran
\* are undone in the opposite order, and a Result says which of the two happened.
\* A panic leaves Play without one; the compensation it stops is in the log, but
\* still to be done.
Promise == INSTANCE SagaPromise WITH
  ran <- Logged("SagaStepExec"),
  failed <- executionError # 0,
  undone <- Logged("SagaStepCompensate") \ {todo[j].step : j \in DOMAIN todo},
  verdict <- IF phase = "panicked" THEN "unknown"
             ELSE IF phase # "complete" THEN "none"
             ELSE IF executionError = 0 THEN "ok" ELSE "error"

PromiseKept == Promise!Spec
=============================================================================
