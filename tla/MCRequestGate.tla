--------------------------- MODULE MCRequestGate ---------------------------
(***************************************************************************)
(* Small deployments of RequestGate for TLC: each stresses one part of the *)
(* chain, and only its own traffic reaches it.                             *)
(***************************************************************************)
EXTENDS RequestGate, TLC

Symmetry == Permutations(Handlers)

Viewer  == {"amankan-viewer"}
Both    == {"amankan-viewer", "amankan-analyst"}
Good    == [alg |-> "RS256", kid |-> "k1", signer |-> "k1", exp |-> 0, iss |-> TRUE,
            aud |-> TRUE, roles |-> Both]

\* k1 is published throughout, k2 is rotated, k3 is not usable, k0 is not the issuer's.
MCToken ==
  [c \in {"good", "expires", "rotated", "broken", "forged", "none", "elsewhere", "viewer",
          "stranger"} |->
     CASE c = "good"      -> Good
       [] c = "expires"   -> [Good EXCEPT !.exp = 1]
       [] c = "rotated"   -> [Good EXCEPT !.kid = "k2", !.signer = "k2"]
       [] c = "broken"    -> [Good EXCEPT !.kid = "k3", !.signer = "k3"]
       [] c = "forged"    -> [Good EXCEPT !.signer = "k0"]
       [] c = "none"      -> [Good EXCEPT !.alg = "none"]
       [] c = "elsewhere" -> [Good EXCEPT !.aud = FALSE]
       [] c = "viewer"    -> [Good EXCEPT !.roles = Viewer]
       [] c = "stranger"  -> [Good EXCEPT !.roles = {"offline_access"}]]

MCKeySets == {{"k1", "k3"}, {"k1", "k2"}}

Req(client, cred, min) ==
  [client |-> client, cred |-> cred, min |-> min, preflight |-> FALSE]

Key(secret, role) == [parts |-> 3, secret |-> secret, role |-> role]

Dev ==
  [production |-> FALSE, issuer |-> FALSE, audience |-> TRUE, keySpec |-> <<>>,
   wildcard |-> FALSE, plainDB |-> FALSE, defaultPass |-> FALSE, noTLS |-> FALSE,
   limited |-> FALSE, until |-> 0, traffic |-> {Req("c1", "", RoleViewer)}]

\* Two clients at the limiter, for longer than a bucket is kept.
Limited ==
  [Dev EXCEPT !.limited = TRUE, !.until = 8,
     !.traffic = {Req("c1", "", RoleNone), Req("c2", "", RoleNone)}]

\* The usual production: API keys behind the limiter, a preflight, and entries that
\* do not parse, that repeat a secret, or that name no role.
Production ==
  [Dev EXCEPT !.production = TRUE, !.limited = TRUE, !.until = 2,
     !.keySpec = <<Key("s1", RoleAdmin), Key("s1", RoleViewer), Key("s2", RoleAnalyst),
                   Key("s3", RoleNone), [Key("s4", RoleAdmin) EXCEPT !.parts = 2]>>,
     !.traffic = {Req("c1", "s1", RoleAnalyst), Req("c1", "s2", RoleAnalyst),
                  Req("c1", "s3", RoleViewer), Req("c1", "s4", RoleViewer),
                  [Req("c1", "", RoleAdmin) EXCEPT !.preflight = TRUE]}]

\* Every credential at an OIDC verifier, while keys rotate.
Oidc ==
  [Dev EXCEPT !.issuer = TRUE, !.until = 2,
     !.traffic = {Req("c1", cred, RoleAnalyst) : cred \in DOMAIN MCToken \cup {""}}
                 \cup {Req("c1", "", RoleNone)}]

\* Production with a list of keys that holds one entry, whose role does not exist.
Misspelt ==
  [Production EXCEPT !.keySpec = <<Key("s3", RoleNone)>>]
MisspeltConfigs == {Misspelt}

MCConfigs ==
  {Limited, Production, Misspelt, Oidc, Dev,
   [Production EXCEPT !.keySpec = <<>>], [Production EXCEPT !.limited = FALSE],
   [Production EXCEPT !.noTLS = TRUE], [Production EXCEPT !.plainDB = TRUE],
   [Dev EXCEPT !.keySpec = <<Key("s3", RoleNone)>>]}
=============================================================================
