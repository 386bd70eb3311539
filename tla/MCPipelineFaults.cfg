\* Two jobs, two workers, the quick profile in development mode, every fault
\* but a duplicated push.
SPECIFICATION Spec
CONSTANTS
  lan = lan
  public = public
  mixed = mixed
  range = range
  repo = repo
  Assets = {lan}
  Answers <- MCAnswers
  Spans <- MCSpans
  RepoAssets = {}
  Production = FALSE
  AllowLiveScan = TRUE
  ScanAuthorized = FALSE
  Installed = {"nmap"}
  MaxFindings = 1
  Jobs = {j1, j2}
  Workers = {w1, w2}
  NoJob = NoJob
  Faults <- AllButRetry
  Asked = {"quick"}
  Governed = {}
  MaxStops = 2
SYMMETRY Symmetry
INVARIANTS
  TypeOK
  SingleDelivery
PROPERTY JobLife
