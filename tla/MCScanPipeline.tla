--------------------------- MODULE MCScanPipeline ---------------------------
(***************************************************************************)
(* Small instances of ScanPipeline for TLC.                                *)
(***************************************************************************)
EXTENDS ScanPipeline, TLC

CONSTANTS lan, public, mixed, range, repo

AllButRetry  == FaultKinds \ {"retry"}
Recoverable  == {"db", "deadline", "sigterm"}
NoFaults     == {}

\* lan: a private address.  public: a name that resolves to a public address, or not
\* at all.  mixed: a name with a private and a public address, or only one of them.
\* range: private by its host, a range beyond it.  repo: a path, which is no host.
HostAnswers ==
  [a \in {lan, public, mixed, range, repo} |->
     CASE a = public -> {{"public"}, {}}
       [] a = mixed  -> {{"private", "public"}, {"private"}, {"public"}}
       [] a = repo   -> {{}}
       [] OTHER      -> {{"private"}}]
MCAnswers == [a \in Assets |-> HostAnswers[a]]
MCSpans   == [a \in Assets |-> IF a = range THEN Addresses ELSE {}]

Symmetry == Permutations(Jobs) \cup Permutations(Workers)
=============================================================================
