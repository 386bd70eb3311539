-------------------------- MODULE ScannerAdapters --------------------------
(***************************************************************************)
(* internal/scanner: what one run of a tool adapter can return.            *)
(*                                                                         *)
(* An adapter either runs the real tool against the asset or falls back:   *)
(* to an error in production, to canned mock output in development.  The   *)
(* bytes of a report are abstracted to what the pipeline tells apart: the  *)
(* kind of result, which addresses were really contacted, whether          *)
(* normalize can parse the report, and how many findings it holds.         *)
(*                                                                         *)
(* An address is "private" (loopback or RFC1918) or "public".  A target is *)
(* free text: isSafeTarget cuts a host out of it and looks it up, the tool *)
(* gets the target as it is and looks its host up once more.  So a target  *)
(* is what the lookups of its host may answer, each time anew, and the     *)
(* addresses the uncut text spans besides (a range in CIDR notation).      *)
(***************************************************************************)
EXTENDS Naturals, Sequences

CONSTANTS
  Assets,          \* rows of the assets table
  Answers,         \* Answers[a]: what a lookup of the host of a may answer, {} when it fails
  Spans,           \* Spans[a]: addresses the target of a names besides its host
  RepoAssets,      \* assets of type repo
  Production,      \* AMANKAN_ENV=production
  AllowLiveScan,   \* AMANKAN_ALLOW_LIVE_SCAN
  ScanAuthorized,  \* AMANKAN_SCAN_AUTHORIZED, the global authorization
  Installed,       \* scanners whose binary exec.LookPath finds
  MaxFindings      \* bound: findings one report yields

Scanners == {"nmap", "nuclei", "crypto", "secrets"}
Profiles == {"quick", "web", "critical", "other"}
Addresses == {"private", "public"}

ASSUME AdapterAssumption ==
  /\ Answers \in [Assets -> (SUBSET SUBSET Addresses) \ {{}}]
  /\ Spans \in [Assets -> SUBSET Addresses]
  /\ RepoAssets \subseteq Assets
  /\ {Production, AllowLiveScan, ScanAuthorized} \subseteq BOOLEAN
  /\ Installed \subseteq Scanners \ {"crypto"}
  /\ MaxFindings \in Nat \ {0}

\* A profile the API was not told about scans like quick.
ForProfile(p) ==
  CASE p = "web"      -> <<"nuclei">>
    [] p = "critical" -> <<"nmap", "nuclei", "crypto", "secrets">>
    [] OTHER          -> <<"nmap">>

\* isSafeTarget: one private address among the answers is enough.
IsSafeTarget(seen) == "private" \in seen

\* Mutant of liveAllowed: an installed tool may always be run.
LiveAllowedOnceInstalled(seen, authorised) == AllowLiveScan

LiveAllowed(seen, authorised) ==
  AllowLiveScan /\ (ScanAuthorized \/ authorised \/ IsSafeTarget(seen))

-----------------------------------------------------------------------------
(* Results of one run.                                                     *)

Outcome == [kind : {"error", "mock", "live"}, touched : SUBSET Addresses,
            parsed : BOOLEAN, n : 0..MaxFindings]

Error(touched) == [kind |-> "error", touched |-> touched, parsed |-> FALSE, n |-> 0]
Mock(touched)  == [kind |-> "mock", touched |-> touched, parsed |-> TRUE, n |-> MaxFindings]
Report(n, touched)  == [kind |-> "live", touched |-> touched, parsed |-> TRUE, n |-> n]
Garbled(n, touched) == [kind |-> "live", touched |-> touched, parsed |-> FALSE, n |-> n]

\* What normalize hands on: a report it cannot parse yields nothing, whatever it holds.
Yield(o) == IF o.parsed THEN o.n ELSE 0

\* The shared fallback, and the checks each adapter makes by itself: crypto's when
\* the policy forbids it, and each one's when the tool ran without a result.
Fallback          == IF Production THEN Error({}) ELSE Mock({})
NmapFailed(t)     == IF Production THEN Error(t) ELSE Mock(t)
NucleiFailed(t)   == IF Production THEN Error(t) ELSE Mock(t)
NucleiSilent(t)   == IF Production THEN Report(0, t) ELSE Mock(t)
CryptoForbidden   == IF Production THEN Error({}) ELSE Mock({})

\* Mutant of crypto's check: a probe that fails falls through to the mock.
CryptoFellThrough(t) == Mock(t)
CryptoFailed(t)   == IF Production THEN Error(t) ELSE Mock(t)
SecretsFailed     == IF Production THEN Error({}) ELSE Fallback

-----------------------------------------------------------------------------
(* The adapters.                                                           *)

\* The addresses a run reaches, none when the lookup or the network fails.
Contacts(a, besides) == UNION {SUBSET (seen \cup besides) : seen \in Answers[a]}

\* Nothing is found where nothing was reached.
Findings(touched) == IF touched = {} THEN {0} ELSE 0..MaxFindings

Runnable(s, seen, authorised) == s \in Installed /\ LiveAllowed(seen, authorised)

\* exec.CommandContext: a context already done keeps the tool from starting, a live
\* one lets it report or fail (also when the context ends meanwhile).  Only nmap's
\* report can fail to parse: parseNuclei skips malformed lines, and the crypto and
\* secrets reports are marshalled by the adapters themselves.
NmapScan(a, seen, authorised, ctxDone) ==
  IF ~Runnable("nmap", seen, authorised) THEN {Fallback}
  ELSE IF ctxDone THEN {NmapFailed({})}
  ELSE UNION {{NmapFailed(t)} \cup {Report(n, t) : n \in Findings(t)}
                              \cup {Garbled(n, t) : n \in Findings(t)}
              : t \in Contacts(a, Spans[a])}

\* nuclei prints nothing when it finds nothing.
NucleiScan(a, seen, authorised, ctxDone) ==
  IF ~Runnable("nuclei", seen, authorised) THEN {Fallback}
  ELSE IF ctxDone THEN {NucleiFailed({})}
  ELSE UNION {{NucleiFailed(t), NucleiSilent(t)} \cup {Report(n, t) : n \in Findings(t)}
              : t \in Contacts(a, Spans[a])}

\* The TLS probe dials the host alone and without the context; it finds at most a
\* weak protocol version (WeakRSA is only ever set by the mock).
CryptoScan(a, seen, authorised) ==
  IF ~LiveAllowed(seen, authorised) THEN {CryptoForbidden}
  ELSE {CryptoFailed(t) : t \in Contacts(a, {})}
       \cup {Report(n, t) : n \in {0, 1}, t \in Contacts(a, {}) \ {{}}}

\* gitleaks reads a directory: it does not ask liveAllowed and contacts nobody.
SecretsScan(a, ctxDone) ==
  IF a \notin RepoAssets THEN {Report(0, {})}
  ELSE IF "secrets" \notin Installed THEN {Fallback}
  ELSE IF ctxDone THEN {SecretsFailed}
  ELSE {SecretsFailed} \cup {Report(n, {}) : n \in 0..MaxFindings}

\* Each adapter asks liveAllowed by itself, with a lookup of its own.
ScanOutcomes(s, a, authorised, ctxDone) ==
  UNION {CASE s = "nmap"   -> NmapScan(a, seen, authorised, ctxDone)
           [] s = "nuclei" -> NucleiScan(a, seen, authorised, ctxDone)
           [] s = "crypto" -> CryptoScan(a, seen, authorised)
           [] OTHER        -> SecretsScan(a, ctxDone)
         : seen \in Answers[a]}
=============================================================================
