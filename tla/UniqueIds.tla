----------------------------- MODULE UniqueIds -----------------------------
(***************************************************************************)
(* What a caller of incrementID relies on: an identifier, once issued, is  *)
(* its own and is never issued again.  A call may also end without one.    *)
(***************************************************************************)
CONSTANTS Callers, Ids, NIL

VARIABLE issued   \* issued[c]: the identifier c was given, NIL for none

Init == issued = [c \in Callers |-> NIL]

Issue(c) ==
  /\ issued[c] = NIL
  /\ issued'[c] \in Ids
  /\ issued'[c] \notin {issued[d] : d \in Callers}
  /\ issued' = [issued EXCEPT ![c] = issued'[c]]

Next == \E c \in Callers : Issue(c)

Spec == Init /\ [][Next]_issued
=============================================================================
