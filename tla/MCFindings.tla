----------------------------- MODULE MCFindings -----------------------------
(***************************************************************************)
(* Small scopes of Findings for TLC: paths, pages, scores and deadlines    *)
(* are explored apart, because they share the table and nothing else.      *)
(***************************************************************************)
EXTENDS Findings

MCCriticality == [a \in {"a1", "a2", "a3"} |->
                    CASE a = "a1" -> "low" [] a = "a2" -> "medium" [] a = "a3" -> "critical"]

Port(service)          == [format |-> "nmap-xml", open |-> TRUE, service |-> service]
Line(severity, cves)   == [format |-> "nuclei-jsonl", json |-> TRUE, severity |-> severity,
                           cves |-> cves]

AllItems ==
  {Port(s) : s \in DOMAIN SensitiveServices \cup {"http"}} \cup
  {Line(s, c) : s \in Severities \cup {"unknown"}, c \in {{}, {"cve1"}, {"cve1", "kev1"}}} \cup
  {[format |-> "crypto-json", weakTLS |-> t, weakRSA |-> k] : t, k \in BOOLEAN} \cup
  {[format |-> "secrets-json"], [Port("ssh") EXCEPT !.open = FALSE],
   [Line("high", {}) EXCEPT !.json = FALSE]}

Nothing ==
  [assets |-> DOMAIN MCCriticality, edges |-> {}, items |-> {}, rows |-> 0, times |-> {1},
   statuses |-> {"open"}, limits |-> {}, instants |-> {}, minRisks |-> {}, hops |-> {}]

\* Every topology of three assets, and any of them exploitable (9.5 scores 7.1 on the
\* least critical).
Paths ==
  {[Nothing EXCEPT !.edges = e, !.items = {Line("critical", {})}, !.rows = 3,
                   !.minRisks = {70}, !.hops = {0, 1, 2, 9}] :
     e \in SUBSET {d \in {"a1", "a2", "a3"} \X {"a1", "a2", "a3"} : d[1] # d[2]}}

\* Walks of pages of 1, 2 (also the default) and 3 rows, over findings that share their
\* risk, their time or both, while rows come, or come and change.
Walks ==
  LET walk == [Nothing EXCEPT !.assets = {"a1", "a2"}, !.items = {Port("redis")}]
  IN  {[walk EXCEPT !.rows = 4, !.times = {1, 2}, !.limits = {0, 1, 9}],
       [walk EXCEPT !.rows = 3, !.times = {1, 2, 3}, !.limits = {0, 1},
                    !.statuses = {"open", "remediated"}]}

\* Any two findings on any two assets.
Scores == {[Nothing EXCEPT !.items = AllItems, !.rows = 2]}

\* One finding of any severity around each deadline.
Deadlines ==
  {[Nothing EXCEPT !.items = AllItems, !.rows = 1, !.statuses = Statuses,
                   !.instants = UNION {{d * Day - 25, d * Day - 24, d * Day - 1, d * Day,
                                        d * Day + 1, d * Day + 24, d * Day + 25} :
                                       d \in {7, 30, 90, 180, 365}}]}

MCScopes == Paths \cup Walks \cup Scores \cup Deadlines
=============================================================================
