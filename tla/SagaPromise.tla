---------------------------- MODULE SagaPromise ----------------------------
(***************************************************************************)
(* What the caller of Play is promised, by utils/saga and by utils/sagav2  *)
(* alike.  The steps run in order until one fails; after that, those that  *)
(* ran are compensated, the last one first.  A result without an error     *)
(* means that all of them ran, the error of a step that all of those that  *)
(* ran were compensated, and anything else (a panic, a timeout) nothing.   *)
(***************************************************************************)
EXTENDS Integers

CONSTANT MaxSteps

VARIABLES
  n,       \* the number of steps
  ran,     \* the steps that ran, the failing one included
  failed,  \* has one of them failed?
  undone,  \* the steps whose compensation was called
  verdict  \* what the caller was told

vars == <<n, ran, failed, undone, verdict>>

Init ==
  /\ n \in 0 .. MaxSteps
  /\ ran = {}
  /\ failed = FALSE
  /\ undone = {}
  /\ verdict = "none"

Run ==
  /\ ~ failed /\ verdict \in {"none", "unknown"}
  /\ \E k \in 1 .. n : ran = 1 .. k - 1 /\ ran' = ran \cup {k}
  /\ failed' \in BOOLEAN
  /\ UNCHANGED <<n, undone, verdict>>

Undo ==
  /\ failed /\ verdict \in {"none", "unknown"}
  /\ \E k \in ran \ undone :
       /\ \A j \in ran \ undone : j <= k
       /\ undone' = undone \cup {k}
  /\ UNCHANGED <<n, ran, failed, verdict>>

Conclude ==
  /\ verdict = "none"
  /\ \/ ~ failed /\ ran = 1 .. n /\ verdict' = "ok"
     \/ failed /\ undone = ran /\ verdict' = "error"
  /\ UNCHANGED <<n, ran, failed, undone>>

Abandon ==
  /\ verdict = "none"
  /\ verdict' = "unknown"
  /\ UNCHANGED <<n, ran, failed, undone>>

Next == Run \/ Undo \/ Conclude \/ Abandon

Spec == Init /\ [][Next]_vars
=============================================================================
