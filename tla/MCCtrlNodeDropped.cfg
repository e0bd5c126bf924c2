\* The lidar closes the connection between connecting and setMode.
CONSTANTS
  Families = {"airy"}
  MaxCalls = 1
  MaxRequests = 1
SPECIFICATION NodeSpec
INVARIANTS NeverCrashes
