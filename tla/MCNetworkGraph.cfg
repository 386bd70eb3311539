\* Two peers of one /24, two scans, one request of any kind and one failure
\* anywhere.
SPECIFICATION Spec
CONSTANTS
  Assets = {a1, a2}
  NoAsset = NoAsset
  Subnets = {{a1, a2}}
  Scans = {s1, s2}
  Syncs = {q1}
  Calls = {c1}
  MaxRequests = 1
  MaxFindings = 1
  MaxFailures = 1
SYMMETRY Symmetry
INVARIANTS
  TypeOK
  VulnsAreStored
  SyncIsComplete
  SubnetMeshed
  TopologyAttaches
