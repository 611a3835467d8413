------------------------------- MODULE SagaV2 -------------------------------
(***************************************************************************)
(* One execution of utils/sagav2: the steps of a saga wait, each on a      *)
(* worker of the pool, for a message of a Kafka topic of their own, and so *)
(* do their compensations.  Play sends the first message and waits for the *)
(* last.  Every wait ends after five minutes, and nobody looks whether a   *)
(* message was sent.                                                       *)
(*                                                                         *)
(* Steps are numbered from 1 here, from 0 in the code.                     *)
(***************************************************************************)
EXTENDS Integers, FiniteSets

CONSTANTS
  MaxSteps,    \* bound on the number of steps
  ErrorTexts   \* the texts of the errors of steps

ASSUME StepsAssumption == MaxSteps \in Nat

VARIABLES
  n,        \* len(sg.steps)
  topics,   \* the messages waiting in topics; a topic is an action and a step
  worker,   \* worker[t]: the worker that waits for topic t
  ran,      \* ran[k]: what step k returned
  undone,   \* undone[k]: what its compensation returned
  play      \* where Play is, or what it returned

vars == <<n, topics, worker, ran, undone, play>>

Topics == [do : {"exec", "undo"}, step : 1 .. MaxSteps]

\* StepError of a step that returned none, and of an error without a text.
NoText == ""

\* A Log as it is sent: action and step name the topic, err is StepError.
Message(do, k, err) == [do |-> do, step |-> k, err |-> err]
Complete(err) == Message("complete", n + 1, err)

Init ==
  /\ n \in 0 .. MaxSteps
  /\ topics = {}
  /\ worker = [t \in Topics |-> IF t.step <= n THEN "new" ELSE "gone"]
  /\ ran = [k \in 1 .. MaxSteps |-> "no"]
  /\ undone = [k \in 1 .. MaxSteps |-> "no"]
  /\ play = "new"

\* appendLog: the error is for nobody.
Send(m) == \/ topics' = topics \cup {m}
           \/ UNCHANGED topics

-----------------------------------------------------------------------------
(* The workers.                                                            *)

\* ConsumePartition from the oldest message on: nothing sent before is missed.
Subscribe(t) ==
  /\ worker[t] = "new"
  /\ \/ worker' = [worker EXCEPT ![t] = "waiting"]
     \/ worker' = [worker EXCEPT ![t] = "gone"]
  /\ UNCHANGED <<n, topics, ran, undone, play>>

\* The worker of topic t takes a message, and is free again afterwards.
Takes(t, m) ==
  /\ worker[t] = "waiting"
  /\ m \in topics /\ m.do = t.do /\ m.step = t.step
  /\ worker' = [worker EXCEPT ![t] = "gone"]

\* Mutant: the compensations start with the step before the one that failed.
ExecStepSkipsUndo(k) ==
  /\ \E m \in topics : Takes([do |-> "exec", step |-> k], m)
  /\ \/ /\ ran' = [ran EXCEPT ![k] = "ok"]
        /\ Send(IF k = n THEN Complete(NoText) ELSE Message("exec", k + 1, NoText))
     \/ /\ ran' = [ran EXCEPT ![k] = "failed"]
        /\ Send(IF k = 1 THEN Complete("text") ELSE Message("undo", k - 1, "text"))
  /\ UNCHANGED <<n, undone, play>>

\* A step runs; the next one, its own compensation or Play is told.  After a panic,
\* which the pool logs, nobody is.
ExecStep(k) ==
  /\ \E m \in topics : Takes([do |-> "exec", step |-> k], m)
  /\ \/ /\ ran' = [ran EXCEPT ![k] = "ok"]
        /\ Send(IF k = n THEN Complete(NoText) ELSE Message("exec", k + 1, NoText))
     \/ /\ ran' = [ran EXCEPT ![k] = "failed"]
        /\ \E err \in ErrorTexts : Send(Message("undo", k, err))
     \/ /\ ran' = [ran EXCEPT ![k] = "panicked"]
        /\ UNCHANGED topics
  /\ UNCHANGED <<n, undone, play>>

\* A compensation runs; the one before it is told, unless it failed.  The first
\* step's tells Play, failed or not (its message to step 0 is for nobody).
CompensateStep(k) ==
  /\ \E m \in topics :
       /\ Takes([do |-> "undo", step |-> k], m)
       /\ \/ /\ undone' = [undone EXCEPT ![k] = "ok"]
             /\ Send(IF k = 1 THEN Complete(m.err) ELSE Message("undo", k - 1, m.err))
          \/ /\ undone' = [undone EXCEPT ![k] = "failed"]
             /\ IF k = 1 THEN Send(Complete(m.err)) ELSE UNCHANGED topics
          \/ /\ undone' = [undone EXCEPT ![k] = "panicked"]
             /\ UNCHANGED topics
  /\ UNCHANGED <<n, ran, play>>

\* Five minutes are over.
WaitEnds(t) ==
  /\ worker[t] = "waiting"
  /\ worker' = [worker EXCEPT ![t] = "gone"]
  /\ UNCHANGED <<n, topics, ran, undone, play>>

-----------------------------------------------------------------------------
(* Play.                                                                   *)

\* The first message is sent before anybody waits for the last one.
PlayStarts ==
  /\ play = "new"
  /\ Send(Message("exec", 1, NoText))
  /\ play' = "started"
  /\ UNCHANGED <<n, worker, ran, undone>>

PlaySubscribes ==
  /\ play = "started"
  /\ \/ play' = "waiting"
     \/ play' = "kafka error"
  /\ UNCHANGED <<n, topics, worker, ran, undone>>

PlayReturns ==
  /\ play = "waiting"
  /\ \E m \in topics :
       /\ m.do = "complete"
       /\ play' = IF m.err # NoText THEN "error" ELSE "ok"
  /\ UNCHANGED <<n, topics, worker, ran, undone>>

PlayTimesOut ==
  /\ play = "waiting"
  /\ play' = "timeout"
  /\ UNCHANGED <<n, topics, worker, ran, undone>>

Work ==
  \/ PlayStarts \/ PlaySubscribes \/ PlayReturns
  \/ \E t \in Topics : Subscribe(t)
  \/ \E k \in 1 .. n : ExecStep(k) \/ CompensateStep(k)

Next ==
  \/ Work
  \/ PlayTimesOut
  \/ \E t \in Topics : WaitEnds(t)

Spec == Init /\ [][Next]_vars

-----------------------------------------------------------------------------
(* Properties.                                                             *)

Returned == play \in {"ok", "error", "timeout", "kafka error"}

\* The promise of module SagaPromise is kept: a timeout, or an error of Kafka,
\* is a result that says nothing.  It takes errors that have a text: Play takes
\* one without for a success.
Promise == INSTANCE SagaPromise WITH
  ran <- {k \in 1 .. MaxSteps : ran[k] # "no"},
  failed <- \E k \in 1 .. MaxSteps : ran[k] = "failed",
  undone <- {k \in 1 .. MaxSteps : undone[k] # "no"},
  verdict <- IF ~ Returned THEN "none"
             ELSE IF play \in {"ok", "error"} THEN play ELSE "unknown"

PromiseKept == Promise!Spec
=============================================================================
