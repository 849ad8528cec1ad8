----------------------------- MODULE TokenGrants -----------------------------
(***************************************************************************)
(* Authorization codes and refresh tokens: the stores of the mock identity *)
(* provider (internal/mockidp) and the requests of the two plugins that    *)
(* work on them concurrently, /oauth2/token and /oidc/token, with the      *)
(* authorize and revoke endpoints.                                         *)
(*                                                                         *)
(* A token request is a process r.  It touches the stores twice, under two *)
(* separate holds of MockIdP.mu: it validates and consumes what it was     *)
(* given, then stores the new refresh token.  Users and clients are        *)
(* fixed at start-up, so authenticating the caller reads no state that     *)
(* changes.  Time is the choice of the moment a lifetime is over.          *)
(***************************************************************************)
EXTENDS FiniteSets

CONSTANTS
  Clients,    \* registered clients with a redirect URI: demo-app, public-app
  Codes,      \* authorization codes the generator may draw, each once
  Tokens,     \* refresh tokens the JWT service may sign, each with its own jti
  Requests,   \* calls of the two token endpoints
  None

ASSUME TGAssumption == None \notin Clients \cup Codes \cup Tokens

VARIABLES
  authCodes,      \* keys of MockIdP.authCodes
  codeClient,     \* codeClient[k]: AuthorizationCode.ClientID
  refreshTokens,  \* keys of MockIdP.refreshTokens
  tokenClient,    \* tokenClient[t]: RefreshToken.ClientID
  grant,          \* grant[t]: the code whose user and scope the token carries
  expired,        \* codes and tokens whose ExpiresAt is past
  stage,          \* stage[r]: where the request is
  endpoint,       \* endpoint[r]: which issuing code runs for it
  caller,         \* caller[r]: the authenticated client
  subject,        \* subject[r]: the grant of the code or token it consumed
  fresh,          \* fresh[r]: the refresh token it stored
  held,           \* tokens that reached a client in a response
  revoked         \* history: tokens for which "Token Revoked" was emitted

storeVars   == <<authCodes, codeClient, refreshTokens, tokenClient, grant>>
requestVars == <<stage, endpoint, caller, subject, fresh>>
vars == <<storeVars, expired, requestVars, held, revoked>>

TypeOK ==
  /\ authCodes \subseteq Codes
  /\ codeClient \in [Codes -> Clients \cup {None}]
  /\ refreshTokens \subseteq Tokens
  /\ tokenClient \in [Tokens -> Clients \cup {None}]
  /\ grant \in [Tokens -> Codes \cup {None}]
  /\ expired \subseteq Codes \cup Tokens
  /\ stage \in [Requests -> {"idle", "validated", "stored", "answered", "refused", "failed"}]
  /\ endpoint \in [Requests -> {"none", "oauth2", "oidc_code", "oidc_refresh"}]
  /\ caller \in [Requests -> Clients \cup {None}]
  /\ subject \in [Requests -> Codes \cup {None}]
  /\ fresh \in [Requests -> Tokens \cup {None}]
  /\ held \subseteq Tokens
  /\ revoked \subseteq Tokens

Init ==
  /\ authCodes = {} /\ refreshTokens = {} /\ expired = {} /\ held = {} /\ revoked = {}
  /\ codeClient  = [k \in Codes |-> None]
  /\ tokenClient = [t \in Tokens |-> None]
  /\ grant       = [t \in Tokens |-> None]
  /\ stage       = [r \in Requests |-> "idle"]
  /\ endpoint    = [r \in Requests |-> "none"]
  /\ caller      = [r \in Requests |-> None]
  /\ subject     = [r \in Requests |-> None]
  /\ fresh       = [r \in Requests |-> None]

-----------------------------------------------------------------------------
(* The identity provider. *)

CreateAuthorizationCode(k, c) ==
  /\ codeClient[k] = None
  /\ authCodes'  = authCodes \cup {k}
  /\ codeClient' = [codeClient EXCEPT ![k] = c]
  /\ UNCHANGED <<refreshTokens, tokenClient, grant>>

\* The call of request r returns the grant of what it consumed.
Validated(r, c, k, at) ==
  /\ stage'    = [stage EXCEPT ![r] = "validated"]
  /\ endpoint' = [endpoint EXCEPT ![r] = at]
  /\ caller'   = [caller EXCEPT ![r] = c]
  /\ subject'  = [subject EXCEPT ![r] = k]
  /\ UNCHANGED fresh

\* It returns an error.
Refused(r) ==
  /\ stage' = [stage EXCEPT ![r] = "refused"]
  /\ UNCHANGED <<endpoint, caller, subject, fresh>>

\* Seeded fault: the code is checked and not deleted.
ValidateAuthorizationCode_Kept(r, c, k, fits, at) ==
  /\ UNCHANGED <<authCodes, codeClient, refreshTokens, tokenClient, grant>>
  /\ IF k \in authCodes /\ k \notin expired /\ codeClient[k] = c /\ fits
       THEN Validated(r, c, k, at)
       ELSE Refused(r)

\* The code goes first: a failed check has used it up.  fits: the redirect URI
\* is the one of the authorization request, and so is the PKCE verifier.
ValidateAuthorizationCode(r, c, k, fits, at) ==
  /\ authCodes' = authCodes \ {k}
  /\ UNCHANGED <<codeClient, refreshTokens, tokenClient, grant>>
  /\ IF k \in authCodes /\ k \notin expired /\ codeClient[k] = c /\ fits
       THEN Validated(r, c, k, at)
       ELSE Refused(r)

\* Seeded faults: whoever presents the token may use it; the signature of the
\* token is taken for its presence in the store; the token is deleted first.
ValidateRefreshToken_AnyClient(r, c, t, at) ==
  /\ refreshTokens' = refreshTokens \ {t}
  /\ UNCHANGED <<authCodes, codeClient, tokenClient, grant>>
  /\ IF t \in refreshTokens /\ t \notin expired
       THEN Validated(r, c, grant[t], at)
       ELSE Refused(r)

ValidateRefreshToken_Stateless(r, c, t, at) ==
  /\ refreshTokens' = IF tokenClient[t] = c THEN refreshTokens \ {t} ELSE refreshTokens
  /\ UNCHANGED <<authCodes, codeClient, tokenClient, grant>>
  /\ IF t \notin expired /\ tokenClient[t] = c
       THEN Validated(r, c, grant[t], at)
       ELSE Refused(r)

ValidateRefreshToken_DeletesFirst(r, c, t, at) ==
  /\ refreshTokens' = refreshTokens \ {t}
  /\ UNCHANGED <<authCodes, codeClient, tokenClient, grant>>
  /\ IF t \in refreshTokens /\ t \notin expired /\ tokenClient[t] = c
       THEN Validated(r, c, grant[t], at)
       ELSE Refused(r)

\* Rotation: an accepted token is deleted, and so is an expired one; a client
\* that presents the token of another one leaves it where it is.
ValidateRefreshToken(r, c, t, at) ==
  /\ refreshTokens' = IF t \in expired \/ tokenClient[t] = c THEN refreshTokens \ {t}
                                                             ELSE refreshTokens
  /\ UNCHANGED <<authCodes, codeClient, tokenClient, grant>>
  /\ IF t \in refreshTokens /\ t \notin expired /\ tokenClient[t] = c
       THEN Validated(r, c, grant[t], at)
       ELSE Refused(r)

\* Seeded fault: client and user change places in the call.
StoreRefreshToken_Swapped(t, c, k) ==
  /\ refreshTokens' = refreshTokens \cup {t}
  /\ tokenClient'   = [tokenClient EXCEPT ![t] = k]
  /\ grant'         = [grant EXCEPT ![t] = c]
  /\ UNCHANGED <<authCodes, codeClient>>

StoreRefreshToken(t, c, k) ==
  /\ refreshTokens' = refreshTokens \cup {t}
  /\ tokenClient'   = [tokenClient EXCEPT ![t] = c]
  /\ grant'         = [grant EXCEPT ![t] = k]
  /\ UNCHANGED <<authCodes, codeClient>>

RevokeRefreshToken(t) ==
  /\ refreshTokens' = refreshTokens \ {t}
  /\ UNCHANGED <<authCodes, codeClient, tokenClient, grant>>

\* Ten minutes, or seven days, have gone by.
Expire(x) ==
  /\ x \in (authCodes \cup refreshTokens) \ expired
  /\ expired' = expired \cup {x}
  /\ UNCHANGED <<storeVars, requestVars, held, revoked>>

-----------------------------------------------------------------------------
(* The authorize endpoints: a user logs in, for a client whose redirect    *)
(* URI was checked, and the code travels in the redirect.                  *)

HandleAuthorizeSubmit(k, c) ==
  /\ CreateAuthorizationCode(k, c)
  /\ UNCHANGED <<expired, requestVars, held, revoked>>

\* response_type "code"; the implicit flow only signs tokens.
HandleOIDCAuthorizeSubmit(k, c) ==
  /\ CreateAuthorizationCode(k, c)
  /\ UNCHANGED <<expired, requestVars, held, revoked>>

-----------------------------------------------------------------------------
(* The token endpoints: consuming the code or the token. *)

\* Unknown client, or a confidential one with a wrong secret: nothing is touched.
RefuseClient(r) ==
  /\ stage[r] = "idle"
  /\ Refused(r)
  /\ UNCHANGED <<storeVars, expired, held, revoked>>

\* Any code that ever left in a redirect may be presented, by any client.
Presentable(k) == codeClient[k] # None

HandleAuthorizationCodeGrant(r, c, k, fits) ==
  /\ stage[r] = "idle" /\ Presentable(k)
  /\ ValidateAuthorizationCode(r, c, k, fits, "oauth2")
  /\ UNCHANGED <<expired, held, revoked>>

HandleOIDCCodeGrant(r, c, k, fits) ==
  /\ stage[r] = "idle" /\ Presentable(k)
  /\ ValidateAuthorizationCode(r, c, k, fits, "oidc_code")
  /\ UNCHANGED <<expired, held, revoked>>

HandleRefreshTokenGrant(r, c, t) ==
  /\ stage[r] = "idle" /\ t \in held
  /\ ValidateRefreshToken(r, c, t, "oauth2")
  /\ UNCHANGED <<expired, held, revoked>>

HandleOIDCRefreshGrant(r, c, t) ==
  /\ stage[r] = "idle" /\ t \in held
  /\ ValidateRefreshToken(r, c, t, "oidc_refresh")
  /\ UNCHANGED <<expired, held, revoked>>

-----------------------------------------------------------------------------
(* The token endpoints: issuing and answering. *)

\* The new token carries the client of the request and the grant it consumed.
Issue(r, t) ==
  /\ stage[r] = "validated" /\ grant[t] = None
  /\ StoreRefreshToken(t, caller[r], subject[r])
  /\ stage' = [stage EXCEPT ![r] = "stored"]
  /\ fresh' = [fresh EXCEPT ![r] = t]
  /\ UNCHANGED <<expired, endpoint, caller, subject, held, revoked>>

IssueTokens(r, t)        == endpoint[r] = "oauth2"       /\ Issue(r, t)
IssueOIDCTokens(r, t)    == endpoint[r] = "oidc_code"    /\ Issue(r, t)
IssueOIDCRefreshed(r, t) == endpoint[r] = "oidc_refresh" /\ Issue(r, t)

\* Signing the access or the refresh token failed, before anything was stored.
IssueFails(r) ==
  /\ stage[r] = "validated"
  /\ stage' = [stage EXCEPT ![r] = "failed"]
  /\ UNCHANGED <<storeVars, expired, endpoint, caller, subject, fresh, held, revoked>>

\* Signing the ID token failed after the refresh token was stored: an error is
\* answered to a code exchange; a refresh goes on without an ID token.
IDTokenFails(r) ==
  /\ stage[r] = "stored" /\ endpoint[r] = "oidc_code"
  /\ stage' = [stage EXCEPT ![r] = "failed"]
  /\ UNCHANGED <<storeVars, expired, endpoint, caller, subject, fresh, held, revoked>>

Respond(r) ==
  /\ stage[r] = "stored"
  /\ stage' = [stage EXCEPT ![r] = "answered"]
  /\ held'  = held \cup {fresh[r]}
  /\ UNCHANGED <<storeVars, expired, endpoint, caller, subject, fresh, revoked>>

\* The response is written to a connection that is gone.
LoseResponse(r) ==
  /\ stage[r] = "stored"
  /\ stage' = [stage EXCEPT ![r] = "failed"]
  /\ UNCHANGED <<storeVars, expired, endpoint, caller, subject, fresh, held, revoked>>

-----------------------------------------------------------------------------
(* The revocation endpoint.  Any authenticated client may name the token,  *)
(* and the event says it is revoked whatever the hint led to.              *)

HandleRevoke(t, hint) ==
  /\ t \in held
  /\ IF hint \in {"refresh_token", ""} THEN RevokeRefreshToken(t) ELSE UNCHANGED storeVars
  /\ revoked' = revoked \cup {t}
  /\ UNCHANGED <<expired, requestVars, held>>

-----------------------------------------------------------------------------
AuthorizeStep == \E k \in Codes, c \in Clients :
  HandleAuthorizeSubmit(k, c) \/ HandleOIDCAuthorizeSubmit(k, c)

ConsumeStep(r) ==
  \/ RefuseClient(r)
  \/ \E c \in Clients, k \in Codes, fits \in BOOLEAN :
       HandleAuthorizationCodeGrant(r, c, k, fits) \/ HandleOIDCCodeGrant(r, c, k, fits)
  \/ \E c \in Clients, t \in Tokens :
       HandleRefreshTokenGrant(r, c, t) \/ HandleOIDCRefreshGrant(r, c, t)

IssueStep(r) ==
  \/ \E t \in Tokens : IssueTokens(r, t) \/ IssueOIDCTokens(r, t) \/ IssueOIDCRefreshed(r, t)
  \/ IssueFails(r) \/ IDTokenFails(r) \/ Respond(r) \/ LoseResponse(r)

Next ==
  \/ AuthorizeStep
  \/ \E r \in Requests : ConsumeStep(r) \/ IssueStep(r)
  \/ \E t \in Tokens, hint \in {"refresh_token", "access_token", ""} : HandleRevoke(t, hint)
  \/ \E x \in Codes \cup Tokens : Expire(x)

Spec == Init /\ [][Next]_vars

-----------------------------------------------------------------------------
(* Properties. *)

LiveTokens(k) == {t \in refreshTokens : grant[t] = k}
Takers(k)     == {r \in Requests : stage[r] = "validated" /\ subject[r] = k}
InCode(k)     == {k} \cap authCodes

\* A grant is in one place at a time: its code, one request that consumed the
\* code or the token, or one stored refresh token.  So a code buys one set of
\* tokens and a refresh token one successor, however requests to both
\* endpoints interleave (ValidateAuthorizationCode, ValidateRefreshToken).
OnePlace ==
  \A k \in Codes :
    /\ LiveTokens(k) # {} => Takers(k) = {} /\ InCode(k) = {}
    /\ Takers(k) # {} => InCode(k) = {}
    /\ \A t, u \in LiveTokens(k) : t = u
    /\ \A r, q \in Takers(k) : r = q

\* Through any chain of rotations a refresh token stays with the client the
\* user authorized.
StaysWithClient ==
  /\ \A t \in refreshTokens : tokenClient[t] = codeClient[grant[t]]
  /\ \A r \in Requests : stage[r] = "validated" => caller[r] = codeClient[subject[r]]

\* Where a grant is, for the abstract specification.
Phase(k) ==
  CASE codeClient[k] = None -> "none"
    [] InCode(k) # {}       -> "code"
    [] Takers(k) # {}       -> "taken"
    [] LiveTokens(k) # {}   -> "token"
    [] OTHER                -> "ended"

Lifecycle == INSTANCE GrantLifecycle WITH
  Grants <- Codes, NoClient <- None, owner <- codeClient,
  phase  <- [k \in Codes |-> Phase(k)]

\* A grant only moves along GrantLifecycle: in particular it never comes back
\* once a revocation, an expiry, a refusal or a failure has ended it.
KeepsLifecycle == Lifecycle!Spec

\* Only a call that presents a token, revokes it or finds it expired takes it
\* out of the store: another client's call is harmless to it.
OthersAreHarmless ==
  [][\A t \in refreshTokens \ refreshTokens' :
       \/ t \in expired \/ t \in revoked'
       \/ \E r \in Requests : stage[r] = "idle" /\ stage'[r] = "validated" /\ caller'[r] = tokenClient[t]]_vars

\* What the event of handleRevoke says (oauth2/handlers.go:754): "The token has
\* been revoked and can no longer be used."
RevokedIsUnusable == \A t \in revoked : t \notin refreshTokens

=============================================================================
