\* Four orders and a query for two.
CONSTANTS
  Orders = {o1, o2, o3, o4}
  Limit = 2
  MaxFails = 1
  MaxCrashes = 1

SPECIFICATION FairSpec

PROPERTIES
  DrainedUnlessFull

CHECK_DEADLOCK FALSE
