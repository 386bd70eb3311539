\* One job of any profile on any kind of asset, in production mode with every
\* tool installed, every fault (the job may be delivered twice, one after the
\* other), while an admin grants and revokes the authorization.
SPECIFICATION Spec
CONSTANTS
  lan = lan
  public = public
  mixed = mixed
  range = range
  repo = repo
  Assets = {mixed, public, repo}
  Answers <- MCAnswers
  Spans <- MCSpans
  RepoAssets = {repo}
  Production = TRUE
  AllowLiveScan = TRUE
  ScanAuthorized = FALSE
  Installed = {"nmap", "nuclei", "secrets"}
  MaxFindings = 1
  Jobs = {j1}
  Workers = {w1}
  NoJob = NoJob
  Faults <- FaultKinds
  Asked = {"web", "critical", "other"}
  Governed = {public}
  MaxStops = 1
INVARIANTS
  DeliveredJobsExist
  FindingsOnlyOfStartedJobs
  CompletedRanSomething
  ProductionNeverFabricates
  UnauthorisedNeverTouched
  CleanMeansNothingFound
