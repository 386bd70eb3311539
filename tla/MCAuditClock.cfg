\* The clock of Linux counts nanoseconds, the column microseconds.
SPECIFICATION Spec
CONSTANTS
  Requests = {r1, r2}
  Nobody = Nobody
  Genesis = Genesis
  Times = {0, 1, 2}
  Resolution = 2
INVARIANT VerifyIntact
