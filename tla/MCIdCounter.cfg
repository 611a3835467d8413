\* Orders of two days and MSB accounts, four requests in all.
CONSTANTS
  Callers = {c1, c2, c3, c4}
  NIL = NIL
  OrderPrefix <- MCOrderPrefix
  AccountPrefixes <- MCAccountPrefixes
  Base = 2
  Width = 2
  Outcomes = {"ok", "err", "lost"}
  MaxDay = 1

SYMMETRY MCSymmetry

SPECIFICATION Spec

INVARIANTS
  SharedByDocuments
  IdentifiersApart

PROPERTIES
  IssuesUniqueIds
