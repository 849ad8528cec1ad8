----------------------------- MODULE FlowPrograms -----------------------------
(***************************************************************************)
(* What each flow executor of the Looking Glass page does, as data.  An    *)
(* execute() method is a sequence of steps, one for every point at which   *)
(* it awaits something; what the code does between two awaits runs in one  *)
(* turn of the browser's event loop and belongs to the step before or      *)
(* after.  FlowExecutor runs these sequences.                              *)
(*                                                                         *)
(* A step is a record:                                                     *)
(*   await    "digest"  a WebCrypto promise: it cannot be aborted          *)
(*            "popup"   a login window, its message listener and its timer *)
(*            "request" fetch with the executor's abort signal             *)
(*            "fetch"   fetch without a signal                             *)
(*   window   the name of the login window, for a popup                    *)
(*   status   the status written before the step, or "same"                *)
(*   states   whether a new state parameter is generated before the step   *)
(*   needs    identifiers that must be known, and in lacking what the code *)
(*            does otherwise: "throw", or "skip" the step                  *)
(*   bad      what an answer that is not ok leads to: "throw" or "go" on   *)
(*   gives    what an answer that is ok puts into the executor; "merged":  *)
(*            its tokens join those that are there, else they replace them *)
(*   creates, deletes   the resource it creates or deletes on the server   *)
(***************************************************************************)
EXTENDS Naturals, Sequences, TLC

ScimIds == {"user", "group", "member"}
LoginWindows == {"oauth_authorization", "oauth_implicit", "oidc_hybrid"}
NoLoginWindow == "none"

Plain ==
  [await |-> "request", window |-> NoLoginWindow, status |-> "same", states |-> FALSE,
   needs |-> {}, lacking |-> "throw", bad |-> "throw", gives |-> {},
   creates |-> {}, deletes |-> {}]

Digest == [await |-> "digest"] @@ Plain

\* processTokenResponse: the tokens of a token endpoint, a refresh token among them.
TokenResponse == {"tokens", "refresh"}

Popup(window) ==
  [await |-> "popup", window |-> window, status |-> "awaiting_user"] @@ Plain

-----------------------------------------------------------------------------
(* authorization-code.ts *)

\* State, PKCE and nonce, and the URL they go into.
AuthCodeParams(usePkce) == IF usePkce THEN <<[states |-> TRUE] @@ Digest>> ELSE <<>>

AuthCodePopup(usePkce) == [states |-> ~usePkce] @@ Popup("oauth_authorization")

AuthCodeExchange == [status |-> "executing", gives |-> TokenResponse] @@ Plain

AuthorizationCodeFlow(usePkce) ==
  AuthCodeParams(usePkce) \o <<AuthCodePopup(usePkce), AuthCodeExchange>>

(* implicit.ts: the tokens are in the message of the window. *)

ImplicitParams == [states |-> TRUE]
ImplicitPopup == ImplicitParams @@ [gives |-> {"tokens"}] @@ Popup("oauth_implicit")
ImplicitFlow == <<ImplicitPopup>>

(* oidc-hybrid.ts: after the window, the hash of the code is computed while *)
(* the status still says awaiting_user; only then are the tokens stored.    *)

HybridParams == [states |-> TRUE] @@ Digest
HybridPopup == Popup("oidc_hybrid")
HybridHashes == [gives |-> {"tokens", "merged"}] @@ Digest
HybridExchange == [status |-> "executing", gives |-> TokenResponse] @@ Plain
HybridFlow == <<HybridParams, HybridPopup, HybridHashes, HybridExchange>>

(* client-credentials.ts, resource-owner.ts, refresh-token.ts: one request. *)

RequestClientToken == [gives |-> {"tokens"}] @@ Plain
ClientCredentialsFlow == <<RequestClientToken>>

RequestOwnerToken == [gives |-> TokenResponse] @@ Plain
ResourceOwnerFlow == <<RequestOwnerToken>>

RefreshAccessToken == [gives |-> TokenResponse] @@ Plain
RefreshTokenFlow == <<RefreshAccessToken>>

-----------------------------------------------------------------------------
(* saml-sso.ts, saml-logout.ts: fetch without the abort signal. *)

Fetch == [await |-> "fetch"] @@ Plain

\* Log in, then read the sessions back and take the last one.
AuthenticateAtIdP == <<[status |-> "executing"] @@ Fetch, Fetch>>

\* RelayState is kept where the OAuth flows keep their state parameter.
ExecuteSPInitiated ==
  <<[status |-> "executing", states |-> TRUE] @@ Fetch>> \o AuthenticateAtIdP

ExecuteIdPInitiated == <<[status |-> "executing"] @@ Fetch>> \o AuthenticateAtIdP

SamlSSOFlow(spInitiated) ==
  IF spInitiated THEN ExecuteSPInitiated ELSE ExecuteIdPInitiated

SPInitiatedSSO == SamlSSOFlow(TRUE)
IdPInitiatedSSO == SamlSSOFlow(FALSE)

PerformLogoutRequest == [status |-> "executing"] @@ Fetch

ExecuteSPInitiatedLogout == <<[states |-> TRUE] @@ PerformLogoutRequest>>

ExecuteIdPInitiatedLogout == <<PerformLogoutRequest>>

SamlLogoutFlow(spInitiated) ==
  <<Fetch>> \o (IF spInitiated THEN ExecuteSPInitiatedLogout ELSE ExecuteIdPInitiatedLogout)

-----------------------------------------------------------------------------
(* spiffe-svid.ts: makeRequest without a look at response.ok. *)

Ask == [bad |-> "go"] @@ Plain

\* No Workload API: status "error" and return, what throwing comes to.
SpiffeStatus == Plain

X509SVIDFlow == <<SpiffeStatus, Ask, Ask, Ask>>

\* An answer without claims makes Object.keys throw.
JWTSVIDFlow == <<SpiffeStatus, Plain, Ask>>

MTLSFlow == <<SpiffeStatus, Ask, Ask>>

CertRotationFlow == <<SpiffeStatus, Ask>>

-----------------------------------------------------------------------------
(* scim-provisioning.ts *)

\* makeSCIMRequest: the abort signal, and no exception for a refusal.
ScimRequest == Ask

CreateUser == [bad |-> "throw", gives |-> {"user"}, creates |-> {"user"}] @@ ScimRequest
GetUser == [needs |-> {"user"}] @@ ScimRequest
PatchUser == [needs |-> {"user"}] @@ ScimRequest
DeactivateUser == [needs |-> {"user"}] @@ ScimRequest
DeleteUser == [needs |-> {"user"}, deletes |-> {"user"}] @@ ScimRequest

UserLifecycleFlow == <<CreateUser, GetUser, PatchUser, DeactivateUser, DeleteUser>>

GetExistingUser == [gives |-> {"member"}] @@ ScimRequest
CreateGroup == [gives |-> {"group"}, creates |-> {"group"}] @@ ScimRequest
AddMember == [needs |-> {"group", "member"}, lacking |-> "skip"] @@ ScimRequest
GetGroup == [needs |-> {"group"}, lacking |-> "skip"] @@ ScimRequest
RemoveMember == [needs |-> {"group", "member"}, lacking |-> "skip"] @@ ScimRequest
DeleteGroup == [needs |-> {"group"}, lacking |-> "skip", deletes |-> {"group"}] @@ ScimRequest

GroupManagementFlow ==
  <<GetExistingUser, CreateGroup, AddMember, GetGroup, RemoveMember, DeleteGroup>>

FilterQueries == [q \in 1..6 |-> ScimRequest]
FilterQueryFlow == FilterQueries

DiscoveryRequests == [q \in 1..4 |-> ScimRequest]
SchemaDiscoveryFlow == DiscoveryRequests

-----------------------------------------------------------------------------
(* executor-factory.ts: FLOW_EXECUTOR_MAP.  The device flow, which polls,   *)
(* has a module of its own, DevicePolling.                                 *)

OAuthExecutors ==
  ("authorization-code" :> AuthorizationCodeFlow(FALSE)) @@
  ("authorization-code-pkce" :> AuthorizationCodeFlow(TRUE)) @@
  ("client-credentials" :> ClientCredentialsFlow) @@
  ("implicit" :> ImplicitFlow) @@
  ("refresh-token" :> RefreshTokenFlow) @@
  ("password" :> ResourceOwnerFlow)

OIDCExecutors ==
  ("oidc-authorization-code" :> AuthorizationCodeFlow(TRUE)) @@
  ("oidc-implicit" :> ImplicitFlow) @@
  ("oidc-hybrid" :> HybridFlow)

SamlExecutors ==
  ("saml-sp-sso" :> SPInitiatedSSO) @@
  ("saml-sp-sso-redirect" :> SPInitiatedSSO) @@
  ("saml-idp-sso" :> IdPInitiatedSSO) @@
  ("saml-logout" :> SamlLogoutFlow(TRUE)) @@
  ("saml-logout-redirect" :> SamlLogoutFlow(TRUE))

SpiffeExecutors ==
  ("x509-svid-issuance" :> X509SVIDFlow) @@
  ("jwt-svid-issuance" :> JWTSVIDFlow) @@
  ("mtls-service-call" :> MTLSFlow) @@
  ("mtls-handshake" :> MTLSFlow) @@
  ("certificate-rotation" :> CertRotationFlow) @@
  ("jwt-api-auth" :> JWTSVIDFlow)

ScimExecutors ==
  ("user-lifecycle" :> UserLifecycleFlow) @@
  ("group-membership" :> GroupManagementFlow) @@
  ("user-discovery" :> FilterQueryFlow) @@
  ("schema-discovery" :> SchemaDiscoveryFlow)

FlowExecutorMap ==
  OAuthExecutors @@ OIDCExecutors @@ SamlExecutors @@ SpiffeExecutors @@ ScimExecutors

=============================================================================
