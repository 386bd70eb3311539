------------------------------ MODULE Scoring ------------------------------
(***************************************************************************)
(* What a scanner's output becomes: the severity and CVSS of a finding     *)
(* (normalize), its risk score (risk), and its remediation deadline (sla). *)
(*                                                                         *)
(* CVSS and risk are in tenths, 0..100, and times in hours.  An item is    *)
(* one thing a scanner reports; titles, evidence, CWE and the compliance   *)
(* texts are left out.                                                     *)
(***************************************************************************)
EXTENDS Integers

CONSTANT Kev  \* CVEs that the feed of the scoring process knows to be exploited

Severities == {"info", "low", "medium", "high", "critical"}

-----------------------------------------------------------------------------
(* internal/risk.                                                          *)

\* In hundredths.  Mutant: an unknown criticality, and "medium", fall below "low".
Forgetful(crit) ==
  CASE crit = "critical" -> 150 [] crit = "high" -> 125 [] crit = "low" -> 75 [] OTHER -> 50
CriticalityWeight(crit) ==
  CASE crit = "critical" -> 150 [] crit = "high" -> 125 [] crit = "low" -> 75 [] OTHER -> 100

KnownExploited(cves) == cves \cap Kev # {}

\* In tenths.
ThreatFactor(cves) == IF KnownExploited(cves) THEN 13 ELSE 10

\* Mutant: no clamp.
Unclamped(p) == p
Clamped(p)   == IF p > 100000 THEN 100000 ELSE p

\* Clamped, then rounded half up to a tenth, in exact arithmetic.
Score(cvss, cves, crit) ==
  (Clamped(cvss * CriticalityWeight(crit) * ThreatFactor(cves)) + 500) \div 1000

SeverityToCVSS(sev) ==
  CASE sev = "critical" -> 95 [] sev = "high" -> 75 [] sev = "medium" -> 50
    [] sev = "low" -> 30 [] OTHER -> 10

-----------------------------------------------------------------------------
(* internal/normalize.                                                     *)

SensitiveServices ==
  [s \in {"ssh", "mysql", "mssql", "postgresql", "redis", "mongodb", "telnet", "ftp", "rdp"} |->
     CASE s = "ssh" -> 40 [] s \in {"mysql", "mssql"} -> 65 [] s = "postgresql" -> 60
       [] s \in {"redis", "mongodb"} -> 70 [] s = "telnet" -> 80 [] s = "ftp" -> 55
       [] s = "rdp" -> 75]

SeverityFromCVSS(cvss) ==
  CASE cvss >= 90 -> "critical" [] cvss >= 70 -> "high" [] cvss >= 40 -> "medium"
    [] cvss > 0 -> "low" [] OTHER -> "info"

ParseSeverity(s) == IF s \in Severities THEN s ELSE "info"

Draft(sev, cvss, cves) == [sev |-> sev, cvss |-> cvss, cves |-> cves]

\* What a scanner can report.
Items ==
  [format : {"nmap-xml"}, open : BOOLEAN, service : STRING] \cup
  [format : {"nuclei-jsonl"}, json : BOOLEAN, severity : STRING, cves : SUBSET STRING] \cup
  [format : {"crypto-json"}, weakTLS : BOOLEAN, weakRSA : BOOLEAN] \cup
  [format : {"secrets-json"}]

\* A closed port and a line that is not JSON yield nothing; a crypto report yields up
\* to two findings.
Parse(item) ==
  CASE item.format = "nmap-xml" ->
         IF ~item.open THEN {}
         ELSE IF item.service \in DOMAIN SensitiveServices
              THEN LET cvss == SensitiveServices[item.service]
                   IN  {Draft(SeverityFromCVSS(cvss), cvss, {})}
              ELSE {Draft("info", 0, {})}
    [] item.format = "nuclei-jsonl" ->
         IF item.json THEN {Draft(ParseSeverity(item.severity), 0, item.cves)} ELSE {}
    [] item.format = "crypto-json" ->
         (IF item.weakTLS THEN {Draft("high", 74, {})} ELSE {}) \cup
         (IF item.weakRSA THEN {Draft("medium", 59, {})} ELSE {})
    [] item.format = "secrets-json" -> {Draft("high", 82, {})}

\* What enrich adds: a CVSS where the tool gave none, the score, the open status.
Enrich(d, crit) ==
  LET cvss == IF d.cvss = 0 THEN SeverityToCVSS(d.sev) ELSE d.cvss
  IN  [sev |-> d.sev, cvss |-> cvss, cves |-> d.cves, status |-> "open",
       risk |-> Score(cvss, d.cves, crit)]

-----------------------------------------------------------------------------
(* internal/sla.                                                           *)

Day == 24

Window(sev) ==
  Day * (CASE sev = "critical" -> 7 [] sev = "high" -> 30 [] sev = "low" -> 180
           [] sev = "info" -> 365 [] OTHER -> 90)

DueDate(sev, created) == created + Window(sev)

\* Mutant: the whole last day counts as in time, and a day more.
Lenient(status, sev, created, now) ==
  status \notin {"false_positive", "remediated"} /\ now > DueDate(sev, created) + Day
Breached(status, sev, created, now) ==
  status \notin {"false_positive", "remediated"} /\ now > DueDate(sev, created)

\* int() cuts towards zero.
DaysRemaining(sev, created, now) ==
  LET left == DueDate(sev, created) - now
  IN  IF left >= 0 THEN left \div Day ELSE -((-left) \div Day)
=============================================================================
