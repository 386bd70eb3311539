\* Targets that are private by one answer or by their host alone, never authorised.
SPECIFICATION Spec
CONSTANTS
  lan = lan
  public = public
  mixed = mixed
  range = range
  repo = repo
  Assets = {mixed, range}
  Answers <- MCAnswers
  Spans <- MCSpans
  RepoAssets = {}
  Production = TRUE
  AllowLiveScan = TRUE
  ScanAuthorized = FALSE
  Installed = {"nmap"}
  MaxFindings = 1
  Jobs = {j1}
  Workers = {w1}
  NoJob = NoJob
  Faults <- NoFaults
  Asked = {"critical"}
  Governed = {}
  MaxStops = 0
INVARIANT ThirdPartiesNeverTouched
