\* Three concurrent requests, a clock finer than the column as Linux's is.
SPECIFICATION FairSpec
CONSTANTS
  Requests = {r1, r2, r3}
  Nobody = Nobody
  Genesis = Genesis
  Times = {0, 1}
  Resolution = 2
INVARIANTS
  TypeOK
  ChainLinked
  OneEntryPerRequest
PROPERTIES
  AppendOnly
  AppendEnds
