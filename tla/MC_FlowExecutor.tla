--------------------------- MODULE MC_FlowExecutor ----------------------------
(* The page, with flows of every executor and flows it has none for.  What   *)
(* the backend offers is cut to two or three flows at a time.                *)
EXTENDS FlowCatalog, FlowExecutor

CodeFlow == <<"oauth2", "authorization-code-pkce">>
MCRefreshFlow == <<"oauth2", "refresh-token">>

Alone ==
  {<<"oauth2", "authorization-code">>, <<"oauth2", "client-credentials">>,
   <<"oauth2", "password">>, <<"oidc", "authorization-code">>,
   <<"saml", "idp-initiated-sso">>, <<"saml", "single-logout">>,
   <<"spiffe", "x509-svid-issuance">>, <<"spiffe", "mtls-service-call">>,
   <<"spiffe", "certificate-rotation">>, <<"spiffe", "trust-bundle-federation">>,
   <<"scim", "user-lifecycle">>, <<"scim", "schema-discovery">>,
   <<"scim", "bulk-operations">>}

MCOffers ==
  {{f} : f \in Alone} \cup
  {{CodeFlow, MCRefreshFlow}, {<<"oidc", "hybrid">>, <<"oauth2", "implicit">>},
   {<<"saml", "sp-initiated-sso">>, <<"spiffe", "jwt-svid-issuance">>},
   {<<"scim", "group-membership">>, <<"scim", "user-discovery">>}}

\* A third executor where the second run's own refresh token replaces it.
MCLimit == [o \in MCOffers |-> IF MCRefreshFlow \in o THEN 3 ELSE 2]

MCFlows == UNION MCOffers

MCSupported == {f \in MCFlows : CanCreate(f)}

MCProgram == [f \in MCFlows |-> ProgramFor(f)]

MCScimFlows == {f \in MCFlows : f[1] = "scim"}

MCFreshFlows == {f \in MCFlows : StartsFresh(f)}
=============================================================================
