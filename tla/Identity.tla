------------------------------ MODULE Identity ------------------------------
(***************************************************************************)
(* Who a caller is: the API-key table of auth.ParseKeys, the OIDC verifier *)
(* with the key set it fetches from the issuer, and the roles.             *)
(*                                                                         *)
(* A credential is a name: as an API key it is the secret, as a bearer     *)
(* token it stands for the JWT Token[credential].  A key is named by its   *)
(* kid.  The issuer (external) changes the set it publishes at any time.   *)
(***************************************************************************)
EXTENDS Integers, Sequences

CONSTANTS
  NoCredential, \* neither an Authorization nor an X-API-Key header
  Token,        \* credential -> [alg, kid, signer, exp, iss, aud, roles]
  Unusable,     \* kids whose JWK is not RSA or does not decode
  KeySets       \* the sets of kids the issuer may publish

ASSUME TokenAssumption ==
  \A c \in DOMAIN Token : /\ Token[c].exp \in Int
                          /\ {Token[c].iss, Token[c].aud} \subseteq BOOLEAN

RoleNone    == 0
RoleViewer  == 1
RoleAnalyst == 2
RoleAdmin   == 3

VARIABLES
  published, \* the key set the issuer publishes
  issued,    \* the keys it has ever published (history)
  keys,      \* the key set the verifier holds
  fetched    \* the verifier has fetched one

identity == <<published, issued, keys, fetched>>

IdentityInit ==
  /\ published \in KeySets
  /\ issued = published
  /\ keys = {}
  /\ fetched = FALSE

\* The issuer publishes another set.
Rotate(set) ==
  /\ published' = set
  /\ issued' = issued \cup set
  /\ UNCHANGED <<keys, fetched>>

-----------------------------------------------------------------------------
(* API keys.  An entry is [parts, secret, role]; parts is how many fields  *)
(* it has.                                                                 *)

WellFormed(e) == e.parts = 3 /\ e.secret # NoCredential /\ e.role # RoleNone

\* secret -> role.  A later entry of a secret overwrites an earlier one.
ParseKeys(spec) ==
  LET used    == {i \in DOMAIN spec : WellFormed(spec[i])}
      last(s) == CHOOSE i \in used : /\ spec[i].secret = s
                                     /\ \A j \in used : j > i => spec[j].secret # s
  IN  [s \in {spec[i].secret : i \in used} |-> spec[last(s)].role]

Enabled(table) == DOMAIN table # {}

-----------------------------------------------------------------------------
(* Tokens.                                                                 *)

DefaultRoleMap ==
  [n \in {"amankan-admin", "amankan-analyst", "amankan-viewer"} |->
     CASE n = "amankan-admin"   -> RoleAdmin
       [] n = "amankan-analyst" -> RoleAnalyst
       [] n = "amankan-viewer"  -> RoleViewer]

MapRoles(roles) ==
  LET mapped == {DefaultRoleMap[n] : n \in roles \cap DOMAIN DefaultRoleMap}
  IN  IF mapped = {} THEN RoleNone ELSE CHOOSE r \in mapped : \A q \in mapped : r >= q

\* Mutant: the expiry is not looked at.
Timeless(tok, now) == FALSE
Expired(tok, now)  == tok.exp # 0 /\ now >= tok.exp

\* The role that verify returns for a token, with the key found for its kid;
\* RoleNone stands for every error.
VerifiedRole(tok, now, audience) ==
  IF /\ tok.signer = tok.kid
     /\ ~Expired(tok, now)
     /\ tok.iss
     /\ audience => tok.aud
  THEN MapRoles(tok.roles) ELSE RoleNone
=============================================================================
