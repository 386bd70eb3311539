\* Two jobs of the critical profile on a repository, in development mode without
\* live scans of networks: canned reports of three scanners and a real or canned one of
\* the fourth.  Errors of the database, deadlines and a termination, but no dead
\* worker, no lost pop and no failure of the last MarkFailed.
SPECIFICATION FairSpec
CONSTANTS
  lan = lan
  public = public
  mixed = mixed
  range = range
  repo = repo
  Assets = {repo}
  Answers <- MCAnswers
  Spans <- MCSpans
  RepoAssets = {repo}
  Production = FALSE
  AllowLiveScan = FALSE
  ScanAuthorized = FALSE
  Installed = {"secrets"}
  MaxFindings = 1
  Jobs = {j1, j2}
  Workers = {w1}
  NoJob = NoJob
  Faults <- Recoverable
  Asked = {"critical"}
  Governed = {}
  MaxStops = 1
INVARIANT MockIsDeclared
PROPERTY AcceptedIsDecided
