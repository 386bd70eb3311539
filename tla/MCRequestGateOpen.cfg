\* Production whose key list has no usable entry.
SPECIFICATION Spec
CONSTANTS
  Clients = {"c1", "c2"}
  Second = 2
  Cost = 2
  Idle = 6
  Skew = 1
  NoCredential = ""
  Token <- MCToken
  Unusable = {"k3"}
  KeySets <- MCKeySets
  Handlers = {h1, h2}
  NoRequest = NoRequest
  Configs <- MisspeltConfigs
PROPERTY ProductionNeverOpen
