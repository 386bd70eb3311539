\* Two hosts that may share one or both of two credentials, two scans of two findings, one
\* request and one failure anywhere; a score within and one at the limit of both weights.
SPECIFICATION Spec
CONSTANTS
  Hosts = {h1, h2}
  NoHost = NoHost
  Creds = {k1, k2}
  NoCred = NoCred
  Risks = {400, 1000}
  Weights = {0}
  Scans = {s1, s2}
  Calls = {c1}
  MaxFindings = 2
  MaxFailures = 1
SYMMETRY Symmetry
INVARIANTS
  TypeOK
  EscalationCheapest
  ReuseComplete
  ReuseJustified
  LateralPathFound
  CreatedIsThere
