---------------------------- MODULE MCIdCounter ----------------------------
(***************************************************************************)
(* Identifiers for TLC.  Numbers are written in base two and padded to two *)
(* digits, so that four requests are enough to outgrow the width.          *)
(***************************************************************************)
EXTENDS IdCounter, TLC

\* conf.Prefix, or "GPOS".
MCOrderPrefix == <<9>>

\* VaMsb.GpayIdentifier and the identifiers of two merchants, one of which
\* continues the other.
MCAccountPrefixes == {<<1>>, <<1, 1>>}

MCSymmetry == Permutations(Callers)
=============================================================================
