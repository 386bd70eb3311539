\* A scanner that cannot run beside one that can.
SPECIFICATION Spec
CONSTANTS
  lan = lan
  public = public
  mixed = mixed
  range = range
  repo = repo
  Assets = {lan}
  Answers <- MCAnswers
  Spans <- MCSpans
  RepoAssets = {}
  Production = TRUE
  AllowLiveScan = TRUE
  ScanAuthorized = FALSE
  Installed = {"nmap"}
  MaxFindings = 1
  Jobs = {j1}
  Workers = {w1}
  NoJob = NoJob
  Faults <- NoFaults
  Asked = {"critical"}
  Governed = {}
  MaxStops = 0
INVARIANT ScannerErrorFailsTheJob
