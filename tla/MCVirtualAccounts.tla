------------------------- MODULE MCVirtualAccounts -------------------------
(***************************************************************************)
(* The requests on a virtual account are interchangeable, and so are the   *)
(* payments into it.                                                       *)
(***************************************************************************)
EXTENDS VirtualAccounts, TLC

\* At MSB an update makes the other type; an account of type MANY at VCCB does
\* less than one of type ONCE, whose row a payment closes.
MCAccounts == {[provider |-> "MSB", type |-> "MANY"], [provider |-> "VCCB", type |-> "ONCE"]}

MCSymmetry == Permutations(Requests) \cup Permutations(Messages)
=============================================================================
