\* Two goroutines, two clients, one token a second; the clock outlasts a bucket.
SPECIFICATION Spec
CONSTANTS
  Clients = {"c1", "c2"}
  Second = 2
  Cost = 2
  Idle = 6
  Skew = 1
  NoCredential = ""
  Token <- MCToken
  Unusable = {"k3"}
  KeySets <- MCKeySets
  Handlers = {h1, h2}
  NoRequest = NoRequest
  Configs <- MCConfigs
SYMMETRY Symmetry
INVARIANTS
  TypeOK
  WindowBound
PROPERTIES
  FairRefusal
  ServedWithRole
  EntitledIsServed
