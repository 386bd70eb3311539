----------------------------- MODULE RequestGate -----------------------------
(***************************************************************************)
(* What a request passes before its handler runs: the middleware chain of  *)
(* Router, in its order: CORS, the rate limiter, Authenticate, Require.    *)
(* The deployment, chosen when the process starts, says which limiter and  *)
(* which identity provider are in the chain.                               *)
(*                                                                         *)
(* Every request has a goroutine.  They share the limiter's buckets and    *)
(* the verifier's key set, each under its own mutex.                       *)
(***************************************************************************)
EXTENDS RateLimiter, Identity

CONSTANTS
  Handlers,   \* goroutines
  NoRequest,  \* a goroutine that has served nothing
  Configs     \* the deployments: what config.Load reads, and the traffic they get

Roles == RoleNone..RoleAdmin

\* With an issuer every credential is read as a token.
ASSUME GateAssumption ==
  \A c \in Configs :
    /\ {c.production, c.issuer, c.audience, c.limited} \subseteq BOOLEAN
    /\ c.until \in Nat
    /\ Len(c.keySpec) \in Nat /\ DOMAIN c.keySpec = 1..Len(c.keySpec)
    /\ \A i \in DOMAIN c.keySpec : c.keySpec[i].role \in Roles
    /\ \A req \in c.traffic :
         /\ req.client \in Clients /\ req.min \in Roles /\ req.preflight \in BOOLEAN
         /\ c.issuer => req.cred \in DOMAIN Token \cup {NoCredential}

VARIABLES
  config,     \* the deployment that runs
  handler     \* each goroutine: [pc, req, at, got, status]

vars == <<limiter, identity, config, handler>>

\* Problems found by config.Validate.
Insecure(c) == c.production /\ (c.keySpec = <<>> \/ c.wildcard \/ c.plainDB
                                \/ c.defaultPass \/ c.noTLS \/ ~c.limited)

Fresh == [pc |-> "answered", req |-> NoRequest, at |-> 0, got |-> {}, status |-> 0]

Init ==
  /\ config \in {c \in Configs : ~Insecure(c)}
  /\ handler = [h \in Handlers |-> Fresh]
  /\ LimiterInit
  /\ IdentityInit

-----------------------------------------------------------------------------
(* The chain.                                                              *)

Goto(h, p)   == handler' = [handler EXCEPT ![h].pc = p]
Answer(h, s) == handler' = [handler EXCEPT ![h] = [Fresh EXCEPT !.status = s]]
Tok(h)       == Token[handler[h].req.cred]
Table        == ParseKeys(config.keySpec)

\* Public routes have no Authenticate and no Require.
Public(req) == req.min = RoleNone

Enter(h, req, p, t) ==
  handler' = [handler EXCEPT ![h] = [Fresh EXCEPT !.req = req, !.pc = p, !.at = t]]

\* Behind the limiter.
PassOn(h, req) == IF Public(req) THEN Answer(h, 200) ELSE Enter(h, req, "auth", 0)

\* CORS answers a preflight itself; a limited request reads the clock.
Arrive(h) ==
  /\ handler[h].pc = "answered"
  /\ \E req \in config.traffic :
       IF req.preflight THEN Answer(h, 204)
       ELSE IF config.limited THEN Enter(h, req, "limit", clock)
       ELSE PassOn(h, req)
  /\ UNCHANGED <<limiter, identity, config>>

Limit(h) ==
  /\ handler[h].pc = "limit"
  /\ LET ip == handler[h].req.client
         t  == handler[h].at
     IN  /\ Allow(ip, t)
         /\ Count(ip, Allowed(ip, t))
         /\ IF Allowed(ip, t) THEN PassOn(h, handler[h].req) ELSE Answer(h, 429)
  /\ UNCHANGED <<clock, identity, config>>

Meets(role, min) == role >= min

\* The answer to an authenticated caller, by Require.
Permit(h, role) == Answer(h, IF Meets(role, handler[h].req.min) THEN 200 ELSE 403)

\* The API-key Authenticator; without keys it lets everything pass.
CheckKey(h) ==
  /\ handler[h].pc = "auth" /\ ~config.issuer
  /\ LET cred == handler[h].req.cred
     IN  IF ~Enabled(Table) THEN Answer(h, 200)
         ELSE IF cred \in DOMAIN Table THEN Permit(h, Table[cred])
         ELSE Answer(h, 401)
  /\ UNCHANGED <<limiter, identity, config>>

\* The verifier: keyForKid reads the keys and fetched together.
LookupKey(h) ==
  /\ handler[h].pc = "auth" /\ config.issuer
  /\ IF handler[h].req.cred = NoCredential \/ Tok(h).alg # "RS256" THEN Answer(h, 401)
     ELSE IF Tok(h).kid \in keys THEN Goto(h, "verify")
     ELSE IF ~fetched THEN Goto(h, "fetch")
     ELSE Answer(h, 401)
  /\ UNCHANGED <<limiter, identity, config>>

\* Mutant: fetched is set before the answer is known.
Premature == fetched' = TRUE
Untouched == fetched' = fetched

\* refreshKeys, without a lock: the issuer answers with the set it publishes now, or
\* the call fails (external).
Fetch(h) ==
  /\ handler[h].pc = "fetch"
  /\ \/ Answer(h, 401)
     \/ handler' = [handler EXCEPT ![h].pc = "install", ![h].got = published \ Unusable]
  /\ Untouched
  /\ UNCHANGED <<limiter, published, issued, keys, config>>

Install(h) ==
  /\ handler[h].pc = "install"
  /\ keys' = handler[h].got
  /\ fetched' = TRUE
  /\ handler' = [handler EXCEPT ![h].pc = "recheck", ![h].got = {}]
  /\ UNCHANGED <<limiter, published, issued, config>>

Recheck(h) ==
  /\ handler[h].pc = "recheck"
  /\ IF Tok(h).kid \in keys THEN Goto(h, "verify") ELSE Answer(h, 401)
  /\ UNCHANGED <<limiter, identity, config>>

Verify(h) ==
  /\ handler[h].pc = "verify"
  /\ LET role == VerifiedRole(Tok(h), clock, config.audience)
     IN  IF role = RoleNone THEN Answer(h, 401) ELSE Permit(h, role)
  /\ UNCHANGED <<limiter, identity, config>>

-----------------------------------------------------------------------------

\* A request waits for the mutex for at most Skew ticks.
Tick ==
  /\ clock < config.until
  /\ \A h \in Handlers : handler[h].pc = "limit" => clock - handler[h].at < Skew
  /\ clock' = clock + 1
  /\ Earn
  /\ UNCHANGED <<buckets, identity, config, handler>>

RotateKeys ==
  /\ config.issuer
  /\ \E set \in KeySets : Rotate(set)
  /\ UNCHANGED <<limiter, config, handler>>

Step(h) == \/ Limit(h) \/ CheckKey(h) \/ LookupKey(h) \/ Fetch(h)
           \/ Install(h) \/ Recheck(h) \/ Verify(h)

Next ==
  \/ \E h \in Handlers : Arrive(h) \/ Step(h)
  \/ Tick
  \/ RotateKeys

Spec == Init /\ [][Next]_vars

-----------------------------------------------------------------------------
(* Properties.                                                             *)

Requests == UNION {c.traffic : c \in Configs}

TypeOK ==
  /\ config \in Configs
  /\ BucketsOK
  /\ published \in KeySets /\ issued \subseteq UNION KeySets
  /\ keys \subseteq issued \ Unusable
  /\ fetched \in BOOLEAN
  /\ handler \in [Handlers ->
       [pc : {"limit", "auth", "fetch", "install", "recheck", "verify", "answered"},
        req : Requests \cup {NoRequest}, at : 0..clock, got : SUBSET (issued \ Unusable),
        status : {0, 200, 204, 401, 403, 429}]]

Answered(h, s) ==
  handler[h].pc # "answered" /\ handler'[h].pc = "answered" /\ handler'[h].status = s

\* A request is turned away only if its client has, but for Skew, used up its burst:
\* neither the refill nor an eviction nor a late clock reading takes credit away.
FairRefusal ==
  [][\A h \in Handlers : Answered(h, 429) =>
       meter[handler[h].req.client] > Burst - Cost - Skew]_vars

\* What the administrators granted: entry e of the list is the one that counts for
\* its secret.
Grants(e, cred, min) ==
  /\ WellFormed(config.keySpec[e])
  /\ config.keySpec[e].secret = cred /\ config.keySpec[e].role >= min
  /\ \A f \in DOMAIN config.keySpec : f > e /\ config.keySpec[f].secret = cred
                                       => ~WellFormed(config.keySpec[f])

\* What the issuer granted, if the token's key is one of a set.
Vouches(tok, min, trusted) ==
  /\ tok.alg = "RS256" /\ tok.signer = tok.kid /\ tok.kid \in trusted
  /\ tok.exp = 0 \/ clock < tok.exp
  /\ tok.iss /\ (tok.aud \/ ~config.audience)
  /\ \E n \in tok.roles \cap DOMAIN DefaultRoleMap : DefaultRoleMap[n] >= min

Entitled(req, trusted) ==
  IF config.issuer
  THEN req.cred # NoCredential /\ Vouches(Token[req.cred], req.min, trusted)
  ELSE \E e \in DOMAIN config.keySpec : Grants(e, req.cred, req.min)

\* Somebody is asked who he is: there is an issuer, or a usable entry in the key list.
Authenticating ==
  config.issuer \/ \E e \in DOMAIN config.keySpec : WellFormed(config.keySpec[e])

\* Where anybody is authenticated, a handler runs only for a caller whose role the key
\* list or the issuer granted, by a key the issuer has published, whatever requests fetch
\* keys at the same time and however the issuer rotates them: no entry that fails to
\* parse, no second entry of a secret and no key of another set opens a route.
ServedWithRole ==
  [][\A h \in Handlers : Authenticating /\ Answered(h, 200) =>
       Public(handler[h].req) \/ Entitled(handler[h].req, issued)]_vars

\* config.go: in production Validate refuses insecure defaults "so the platform cannot be
\* deployed wide-open by accident".  Contradicted: a list of which ParseKeys accepts no
\* entry is not empty, and production starts with everybody let in.
ProductionNeverOpen ==
  [][\A h \in Handlers : config.production /\ Answered(h, 200) =>
       Public(handler[h].req) \/ Entitled(handler[h].req, issued)]_vars

\* The keys in every set the issuer publishes.
Lasting == {k \in UNION KeySets : \A set \in KeySets : k \in set} \ Unusable

\* A caller with the role the route asks for, and a key the issuer keeps publishing, is
\* refused only if the fetch his own request made failed: no failure of another request
\* and no order of two fetches takes the access away.
EntitledIsServed ==
  [][\A h \in Handlers :
       (Answered(h, 401) \/ Answered(h, 403)) /\ Entitled(handler[h].req, Lasting)
       => handler[h].pc = "fetch"]_vars
=============================================================================
