----------------------------- MODULE FlowCatalog ------------------------------
(***************************************************************************)
(* From the flow a backend offers to the executor that runs it: mapFlowId  *)
(* of lookingglass/hooks.ts, and what createFlowExecutor needs to return   *)
(* one.  Flow ids are in the form mapFlowId gives them first: lower case,  *)
(* hyphens.                                                                *)
(***************************************************************************)
EXTENDS FlowPrograms

Alias(ids, executor) == [id \in ids |-> executor]

\* Ids that start with "oidc-", of whichever protocol, and those of OIDC.
OIDCPrefixed ==
  ("oidc-authorization-code" :> "oidc-authorization-code") @@
  ("oidc-implicit" :> "oidc-implicit") @@ ("oidc-hybrid" :> "oidc-hybrid")

OIDCAliases ==
  Alias({"authorization-code", "authorization-code-pkce"}, "oidc-authorization-code") @@
  ("implicit" :> "oidc-implicit") @@
  Alias({"hybrid", "code-id-token", "code-token"}, "oidc-hybrid")

SamlAliases ==
  Alias({"sp-initiated-sso", "sp-sso"}, "saml-sp-sso") @@
  ("sp-initiated-sso-redirect" :> "saml-sp-sso-redirect") @@
  Alias({"idp-initiated-sso", "idp-sso"}, "saml-idp-sso") @@
  Alias({"single-logout", "slo", "logout"}, "saml-logout") @@
  ("single-logout-redirect" :> "saml-logout-redirect")

SpiffeAliases ==
  Alias({"x509-svid", "x509"}, "x509-svid-issuance") @@
  Alias({"jwt-svid", "jwt"}, "jwt-svid-issuance") @@
  Alias({"mtls", "mtls-call", "mtls-handshake"}, "mtls-service-call") @@
  Alias({"cert-rotation", "rotation"}, "certificate-rotation") @@
  ("jwt-auth" :> "jwt-api-auth") @@ ("attestation" :> "workload-attestation") @@
  Alias({"bundle", "trust-bundle-federation"}, "trust-bundle") @@
  ("registration" :> "workload-registration")

ScimAliases ==
  ("user-provisioning" :> "user-lifecycle") @@ ("group-management" :> "group-membership") @@
  Alias({"filter-query", "filter-queries"}, "user-discovery") @@
  ("bulk" :> "bulk-operations") @@ ("discovery" :> "schema-discovery")

OAuthAliases ==
  ("pkce" :> "authorization-code-pkce") @@ ("refresh" :> "refresh-token") @@
  Alias({"device", "device-authorization"}, "device-code") @@
  Alias({"resource-owner", "ropc"}, "password")

Lookup(aliases, id) == IF id \in DOMAIN aliases THEN aliases[id] ELSE id

MapFlowId(protocol, id) ==
  IF id \in DOMAIN OIDCPrefixed THEN id ELSE
  CASE protocol = "oidc" /\ id \in DOMAIN OIDCAliases -> OIDCAliases[id]
    [] protocol = "saml" /\ id \in DOMAIN SamlAliases -> SamlAliases[id]
    [] protocol = "spiffe" -> Lookup(SpiffeAliases, id)
    [] protocol = "scim" -> Lookup(ScimAliases, id)
    [] OTHER -> Lookup(OAuthAliases, id)

\* A flow, as the page selects it, is a protocol and an id.
ExecutorId(flow) == MapFlowId(flow[1], flow[2])

\* The page gives no user name and password, without which the constructor of
\* the password flow throws.
CanCreate(flow) ==
  ExecutorId(flow) \in DOMAIN FlowExecutorMap /\ ExecutorId(flow) # "password"

ProgramFor(flow) == IF CanCreate(flow) THEN FlowExecutorMap[ExecutorId(flow)] ELSE <<>>

\* Whether execute() spreads createInitialState() into its state.
StartsFresh(flow) == ExecutorId(flow) \notin DOMAIN (SpiffeExecutors @@ ScimExecutors)

=============================================================================
