-------------------------- MODULE TokenGrants_proofs --------------------------
(***************************************************************************)
(* A grant is in one place, and stays with its client, for any number of   *)
(* clients, codes, tokens and concurrent requests.                         *)
(***************************************************************************)
EXTENDS TokenGrants, TLAPS

-----------------------------------------------------------------------------
(* The inductive invariant. *)

\* A stored token carries a grant that was given, and so does a request that
\* consumed something; a code that was never drawn is in no store.
Given ==
  /\ \A k \in authCodes : codeClient[k] # None
  /\ \A t \in refreshTokens : grant[t] \in Codes /\ codeClient[grant[t]] # None
  /\ \A r \in Requests : stage[r] = "validated" => subject[r] \in Codes /\ codeClient[subject[r]] # None

\* OnePlace, pair by pair.
Apart ==
  /\ \A t \in refreshTokens : grant[t] \notin authCodes
  /\ \A r \in Requests : stage[r] = "validated" => subject[r] \notin authCodes
  /\ \A t \in refreshTokens, r \in Requests : stage[r] = "validated" => subject[r] # grant[t]
  /\ \A t, u \in refreshTokens : grant[t] = grant[u] => t = u
  /\ \A r, q \in Requests :
       stage[r] = "validated" /\ stage[q] = "validated" /\ subject[r] = subject[q] => r = q

\* A request that stored a token knows which.
Knows == \A r \in Requests : stage[r] = "stored" => fresh[r] \in Tokens

IInv == TypeOK /\ Given /\ Apart /\ StaysWithClient /\ Knows

LEMMA ApartIsOnePlace == IInv => OnePlace
BY DEF IInv, TypeOK, Apart, OnePlace, LiveTokens, Takers, InCode

-----------------------------------------------------------------------------
LEMMA InitIInv == Init => IInv
BY DEF Init, IInv, TypeOK, Given, Apart, StaysWithClient, Knows

LEMMA AuthorizeIInv ==
  ASSUME IInv, NEW k \in Codes, NEW c \in Clients,
         HandleAuthorizeSubmit(k, c) \/ HandleOIDCAuthorizeSubmit(k, c)
  PROVE  IInv'
<1>1. CreateAuthorizationCode(k, c) /\ UNCHANGED <<expired, requestVars, held, revoked>>
  BY DEF HandleAuthorizeSubmit, HandleOIDCAuthorizeSubmit
<1>. USE <1>1 DEF CreateAuthorizationCode, requestVars
<1>2. TypeOK'
  BY DEF IInv, TypeOK
<1>3. c # None
  BY TGAssumption
<1>4. Given'
  BY <1>3 DEF IInv, TypeOK, Given
<1>5. Apart'
  BY DEF IInv, TypeOK, Given, Apart
<1>6. StaysWithClient'
  BY DEF IInv, TypeOK, Given, StaysWithClient
<1>7. Knows'
  BY DEF IInv, Knows
<1>. QED BY <1>2, <1>4, <1>5, <1>6, <1>7 DEF IInv

\* What validation does, whichever store it consumes from: it takes at most the
\* grant k, and only hands the request a grant that it took.
LEMMA ConsumeIInv ==
  ASSUME IInv, NEW r \in Requests, NEW c \in Clients, NEW k, NEW at \in {"oauth2", "oidc_code", "oidc_refresh"},
         stage[r] = "idle",
         authCodes' \subseteq authCodes, refreshTokens' \subseteq refreshTokens,
         UNCHANGED <<codeClient, tokenClient, grant, expired, held, revoked>>,
         \/ Refused(r)
         \/ /\ Validated(r, c, k, at)
            /\ k \in Codes /\ codeClient[k] = c
            /\ k \notin authCodes' /\ \A t \in refreshTokens' : grant[t] # k
            /\ \A q \in Requests : stage[q] = "validated" => subject[q] # k
  PROVE  IInv'
<1>1. CASE Refused(r)
  <2>. USE <1>1 DEF Refused
  <2>1. \A q \in Requests : stage'[q] \in {"validated", "stored"} => stage[q] = stage'[q]
    BY DEF IInv, TypeOK
  <2>2. TypeOK'
    BY DEF IInv, TypeOK
  <2>3. Given' /\ Apart' /\ StaysWithClient' /\ Knows'
    BY <2>1 DEF IInv, Given, Apart, StaysWithClient, Knows
  <2>. QED BY <2>2, <2>3 DEF IInv
<1>2. CASE ~Refused(r)
  <2>. USE <1>2 DEF Validated
  <2>1. /\ k \in Codes /\ codeClient[k] = c /\ c # None
        /\ k \notin authCodes' /\ \A t \in refreshTokens' : grant[t] # k
        /\ \A q \in Requests : stage[q] = "validated" => subject[q] # k
    BY TGAssumption
  <2>2. TypeOK'
    BY <2>1 DEF IInv, TypeOK
  <2>3. \A q \in Requests : q # r => stage'[q] = stage[q] /\ subject'[q] = subject[q]
                                    /\ caller'[q] = caller[q] /\ fresh'[q] = fresh[q]
    BY DEF IInv, TypeOK
  <2>4. stage'[r] = "validated" /\ subject'[r] = k /\ caller'[r] = c
    BY DEF IInv, TypeOK
  <2>5. Given'
    BY <2>1, <2>3, <2>4 DEF IInv, Given
  <2>6. Apart'
    BY <2>1, <2>3, <2>4 DEF IInv, Apart
  <2>7. StaysWithClient'
    BY <2>1, <2>3, <2>4 DEF IInv, StaysWithClient
  <2>8. Knows'
    BY <2>3, <2>4 DEF IInv, Knows
  <2>. QED BY <2>2, <2>5, <2>6, <2>7, <2>8 DEF IInv
<1>. QED BY <1>1, <1>2

LEMMA CodeGrantIInv ==
  ASSUME IInv, NEW r \in Requests, NEW c \in Clients, NEW k \in Codes, NEW fits \in BOOLEAN,
         HandleAuthorizationCodeGrant(r, c, k, fits) \/ HandleOIDCCodeGrant(r, c, k, fits)
  PROVE  IInv'
<1>1. PICK at \in {"oauth2", "oidc_code"} :
        stage[r] = "idle" /\ ValidateAuthorizationCode(r, c, k, fits, at)
        /\ UNCHANGED <<expired, held, revoked>>
  BY DEF HandleAuthorizationCodeGrant, HandleOIDCCodeGrant
<1>2. k \in authCodes => /\ \A t \in refreshTokens : grant[t] # k
                         /\ \A q \in Requests : stage[q] = "validated" => subject[q] # k
  BY DEF IInv, Apart
<1>3. Refused(r) \/ (Validated(r, c, k, at) /\ k \in authCodes /\ codeClient[k] = c)
  BY <1>1 DEF ValidateAuthorizationCode
<1>4. authCodes' = authCodes \ {k} /\ UNCHANGED <<codeClient, refreshTokens, tokenClient, grant>>
  BY <1>1 DEF ValidateAuthorizationCode
<1>. QED BY <1>1, <1>2, <1>3, <1>4, ConsumeIInv

LEMMA RefreshGrantIInv ==
  ASSUME IInv, NEW r \in Requests, NEW c \in Clients, NEW t \in Tokens,
         HandleRefreshTokenGrant(r, c, t) \/ HandleOIDCRefreshGrant(r, c, t)
  PROVE  IInv'
<1>1. PICK at \in {"oauth2", "oidc_refresh"} :
        stage[r] = "idle" /\ ValidateRefreshToken(r, c, t, at) /\ UNCHANGED <<expired, held, revoked>>
  BY DEF HandleRefreshTokenGrant, HandleOIDCRefreshGrant
<1>2. /\ refreshTokens' \subseteq refreshTokens
      /\ UNCHANGED <<authCodes, codeClient, tokenClient, grant>>
  BY <1>1 DEF ValidateRefreshToken
<1>3. CASE Refused(r)
  BY <1>1, <1>2, <1>3, ConsumeIInv
<1>4. CASE ~Refused(r)
  <2>1. /\ Validated(r, c, grant[t], at)
        /\ t \in refreshTokens /\ tokenClient[t] = c /\ refreshTokens' = refreshTokens \ {t}
    BY <1>1, <1>4 DEF ValidateRefreshToken
  <2>2. grant[t] \in Codes /\ codeClient[grant[t]] = c
    BY <2>1 DEF IInv, Given, StaysWithClient
  <2>3. /\ grant[t] \notin authCodes /\ \A u \in refreshTokens' : grant[u] # grant[t]
        /\ \A q \in Requests : stage[q] = "validated" => subject[q] # grant[t]
    BY <2>1 DEF IInv, Apart
  <2>. QED BY <1>1, <1>2, <2>1, <2>2, <2>3, ConsumeIInv
<1>. QED BY <1>3, <1>4

LEMMA IssueIInv ==
  ASSUME IInv, NEW r \in Requests, NEW t \in Tokens, Issue(r, t)
  PROVE  IInv'
<1>. USE DEF Issue, StoreRefreshToken
<1>0. /\ caller[r] \in Clients \cup {None} /\ subject[r] \in Codes
      /\ codeClient[subject[r]] # None /\ caller[r] = codeClient[subject[r]]
  BY DEF IInv, TypeOK, Given, StaysWithClient
<1>1. t \notin refreshTokens
  BY TGAssumption DEF IInv, Given
<1>2. TypeOK'
  BY <1>0 DEF IInv, TypeOK
<1>3. /\ stage'[r] = "stored" /\ fresh'[r] = t
      /\ \A q \in Requests : q # r => stage'[q] = stage[q] /\ fresh'[q] = fresh[q]
  BY DEF IInv, TypeOK
<1>4. /\ refreshTokens' = refreshTokens \cup {t}
      /\ grant'[t] = subject[r] /\ tokenClient'[t] = caller[r]
      /\ \A u \in refreshTokens : grant'[u] = grant[u] /\ tokenClient'[u] = tokenClient[u]
  BY <1>1 DEF IInv, TypeOK
<1>5. UNCHANGED <<authCodes, codeClient, subject, caller>>
  OBVIOUS
<1>6. Given'
  BY <1>0, <1>3, <1>4, <1>5 DEF IInv, Given
<1>7. Apart'
  BY <1>0, <1>3, <1>4, <1>5 DEF IInv, Apart
<1>8. StaysWithClient'
  BY <1>0, <1>3, <1>4, <1>5 DEF IInv, StaysWithClient
<1>9. Knows'
  BY <1>3 DEF IInv, Knows
<1>. QED BY <1>2, <1>6, <1>7, <1>8, <1>9 DEF IInv

\* The steps that leave both stores alone and hand out no grant.
LEMMA AnswerIInv ==
  ASSUME IInv, NEW r \in Requests,
         RefuseClient(r) \/ IssueFails(r) \/ IDTokenFails(r) \/ Respond(r) \/ LoseResponse(r)
  PROVE  IInv'
<1>. USE DEF RefuseClient, Refused, IssueFails, IDTokenFails, Respond, LoseResponse, storeVars
<1>1. TypeOK'
  BY DEF IInv, TypeOK, Knows
<1>2. \A q \in Requests : stage'[q] \in {"validated", "stored"} => stage[q] = stage'[q]
  BY DEF IInv, TypeOK
<1>3. UNCHANGED <<storeVars, caller, subject, fresh>>
  OBVIOUS
<1>4. Given' /\ Apart' /\ StaysWithClient' /\ Knows'
  BY <1>2, <1>3 DEF IInv, Given, Apart, StaysWithClient, Knows
<1>. QED BY <1>1, <1>4 DEF IInv

LEMMA RevokeIInv ==
  ASSUME IInv, NEW t \in Tokens, NEW hint, HandleRevoke(t, hint)
  PROVE  IInv'
<1>1. /\ refreshTokens' \subseteq refreshTokens /\ revoked' \subseteq Tokens
      /\ UNCHANGED <<authCodes, codeClient, tokenClient, grant, expired, held>>
      /\ UNCHANGED <<stage, endpoint, caller, subject, fresh>>
  BY DEF HandleRevoke, RevokeRefreshToken, storeVars, requestVars, IInv, TypeOK
<1>2. TypeOK'
  BY <1>1 DEF IInv, TypeOK
<1>3. Given' /\ StaysWithClient' /\ Knows'
  BY <1>1 DEF IInv, Given, StaysWithClient, Knows
<1>4. Apart'
  BY <1>1 DEF IInv, Apart
<1>. QED BY <1>2, <1>3, <1>4 DEF IInv

LEMMA NextIInv == IInv /\ [Next]_vars => IInv'
<1>. SUFFICES ASSUME IInv, [Next]_vars PROVE IInv'
  OBVIOUS
<1>1. CASE AuthorizeStep
  BY <1>1, AuthorizeIInv DEF AuthorizeStep
<1>2. ASSUME NEW r \in Requests, ConsumeStep(r) PROVE IInv'
  BY <1>2, AnswerIInv, CodeGrantIInv, RefreshGrantIInv DEF ConsumeStep
<1>3. ASSUME NEW r \in Requests, IssueStep(r) PROVE IInv'
  BY <1>3, AnswerIInv, IssueIInv DEF IssueStep, IssueTokens, IssueOIDCTokens, IssueOIDCRefreshed
<1>4. ASSUME NEW t \in Tokens, NEW hint \in {"refresh_token", "access_token", ""}, HandleRevoke(t, hint)
      PROVE  IInv'
  BY <1>4, RevokeIInv
<1>5. CASE (\E x \in Codes \cup Tokens : Expire(x)) \/ UNCHANGED vars
  <2>1. UNCHANGED <<storeVars, requestVars, held, revoked>> /\ expired' \subseteq expired \cup Codes \cup Tokens
    BY <1>5 DEF Expire, vars
  <2>2. TypeOK'
    BY <2>1 DEF IInv, TypeOK, storeVars, requestVars
  <2>. QED BY <2>1, <2>2 DEF IInv, Given, Apart, StaysWithClient, Knows, storeVars, requestVars
<1>. QED BY <1>1, <1>2, <1>3, <1>4, <1>5 DEF Next

LEMMA Inductive == Spec => []IInv
BY InitIInv, NextIInv, PTL DEF Spec

\* The stores and the requests keep their types (a token is filed under a
\* client and a grant, in that order).
THEOREM TokenTypes == Spec => []TypeOK
<1>1. IInv => TypeOK
  BY DEF IInv
<1>. QED BY <1>1, Inductive, PTL

\* One use of a code and one successor of a refresh token, however many
\* requests race for them (mockidp/provider.go:244-276, 321-343).
THEOREM GrantInOnePlace == Spec => []OnePlace
BY ApartIsOnePlace, Inductive, PTL

\* Rotation never moves a grant to another client.
THEOREM GrantStaysWithClient == Spec => []StaysWithClient
<1>1. IInv => StaysWithClient
  BY DEF IInv
<1>. QED BY <1>1, Inductive, PTL

\* What OthersAreHarmless says of a step.
TakenByItsClient ==
  \A t \in refreshTokens \ refreshTokens' :
    \/ t \in expired \/ t \in revoked'
    \/ \E r \in Requests :
         stage[r] = "idle" /\ stage'[r] = "validated" /\ caller'[r] = tokenClient[t]

\* A refresh takes the token it presents, and only that, out of the store.
LEMMA RefreshTakesItsOwn ==
  ASSUME TypeOK, NEW r \in Requests, NEW c \in Clients, NEW t \in Tokens,
         HandleRefreshTokenGrant(r, c, t) \/ HandleOIDCRefreshGrant(r, c, t)
  PROVE  TakenByItsClient
<1>1. PICK at \in {"oauth2", "oidc_refresh"} :
        stage[r] = "idle" /\ ValidateRefreshToken(r, c, t, at)
  BY DEF HandleRefreshTokenGrant, HandleOIDCRefreshGrant
<1>. SUFFICES ASSUME NEW u \in refreshTokens \ refreshTokens', u \notin expired
              PROVE  stage'[r] = "validated" /\ caller'[r] = tokenClient[u]
  BY <1>1 DEF TakenByItsClient
<1>2. u = t /\ tokenClient[t] = c
  BY <1>1 DEF ValidateRefreshToken
<1>3. Validated(r, c, grant[t], at)
  BY <1>1, <1>2 DEF ValidateRefreshToken
<1>. QED BY <1>2, <1>3 DEF Validated, TypeOK

\* Every other step but a revocation leaves the tokens in the store.
LEMMA NextTakes == TypeOK /\ [Next]_vars => TakenByItsClient
<1>. SUFFICES ASSUME TypeOK, [Next]_vars PROVE TakenByItsClient
  OBVIOUS
<1>1. ASSUME refreshTokens \subseteq refreshTokens' PROVE TakenByItsClient
  BY <1>1 DEF TakenByItsClient
<1>2. CASE AuthorizeStep
  BY <1>1, <1>2 DEF AuthorizeStep, HandleAuthorizeSubmit, HandleOIDCAuthorizeSubmit,
                    CreateAuthorizationCode
<1>3. ASSUME NEW r \in Requests, ConsumeStep(r) PROVE TakenByItsClient
  <2>1. CASE RefuseClient(r)
    BY <1>1, <2>1 DEF RefuseClient, storeVars
  <2>2. ASSUME NEW c \in Clients, NEW k \in Codes, NEW fits \in BOOLEAN,
               HandleAuthorizationCodeGrant(r, c, k, fits) \/ HandleOIDCCodeGrant(r, c, k, fits)
        PROVE  TakenByItsClient
    BY <1>1, <2>2 DEF HandleAuthorizationCodeGrant, HandleOIDCCodeGrant, ValidateAuthorizationCode
  <2>. QED BY <1>3, <2>1, <2>2, RefreshTakesItsOwn DEF ConsumeStep
<1>4. ASSUME NEW r \in Requests, IssueStep(r) PROVE TakenByItsClient
  BY <1>1, <1>4 DEF IssueStep, IssueTokens, IssueOIDCTokens, IssueOIDCRefreshed, Issue,
                    StoreRefreshToken, IssueFails, IDTokenFails, Respond, LoseResponse, storeVars
<1>5. ASSUME NEW t \in Tokens, NEW hint, HandleRevoke(t, hint) PROVE TakenByItsClient
  <2>1. t \in revoked' /\ refreshTokens \ {t} \subseteq refreshTokens'
    BY <1>5 DEF HandleRevoke, RevokeRefreshToken, storeVars
  <2>. QED BY <2>1 DEF TakenByItsClient
<1>6. CASE (\E x \in Codes \cup Tokens : Expire(x)) \/ UNCHANGED vars
  BY <1>1, <1>6 DEF Expire, storeVars, vars
<1>. QED BY <1>2, <1>3, <1>4, <1>5, <1>6 DEF Next

\* ValidateRefreshToken, HandleRevoke: a client that presents the token of another
\* one does not consume it.
THEOREM ForeignCallsConsumeNothing == Spec => OthersAreHarmless
<1>1. TypeOK /\ [Next]_vars => [TakenByItsClient]_vars
  BY NextTakes
<1>2. [][TakenByItsClient]_vars => OthersAreHarmless
  BY PTL DEF TakenByItsClient, OthersAreHarmless
<1>. QED BY <1>1, <1>2, TokenTypes, PTL DEF Spec

-----------------------------------------------------------------------------
(* TokenGrants implements GrantLifecycle: every step moves at most one     *)
(* grant, and Apart says from which phase.                                 *)

Phases == [k \in Codes |-> Phase(k)]

LEMMA SamePhase ==
  ASSUME NEW k \in Codes, codeClient'[k] = codeClient[k], k \in authCodes' <=> k \in authCodes,
         Takers(k)' = {} <=> Takers(k) = {}, LiveTokens(k)' = {} <=> LiveTokens(k) = {}
  PROVE  Phase(k)' = Phase(k)
BY DEF Phase, InCode

LEMMA NoMove ==
  ASSUME UNCHANGED codeClient, \A k \in Codes : Phase(k)' = Phase(k)
  PROVE  UNCHANGED Lifecycle!vars
BY DEF Lifecycle!vars

LEMMA OneMove ==
  ASSUME NEW g \in Codes, UNCHANGED codeClient, \A k \in Codes \ {g} : Phase(k)' = Phase(k),
         NEW from, NEW to, Phase(g) \in from, Phase(g)' = to
  PROVE  Lifecycle!Move(g, from, to)
<1>1. Phases' = [Phases EXCEPT ![g] = to]
  BY DEF Phases
<1>2. Phases[g] \in from
  BY DEF Phases
<1>. QED BY <1>1, <1>2 DEF Phases, Lifecycle!Move

Simulated == Lifecycle!Next \/ UNCHANGED Lifecycle!vars

LEMMA MoveSimulated ==
  ASSUME NEW g \in Codes, UNCHANGED codeClient, \A k \in Codes \ {g} : Phase(k)' = Phase(k),
         \/ Phase(g)' = Phase(g)
         \/ Phase(g) \in {"code", "token"} /\ Phase(g)' = "taken"
         \/ Phase(g) = "taken" /\ Phase(g)' = "token"
         \/ Phase(g) \in {"code", "taken", "token"} /\ Phase(g)' = "ended"
  PROVE  Simulated
<1>1. CASE Phase(g)' = Phase(g)
  BY <1>1, NoMove DEF Simulated
<1>2. CASE Phase(g) \in {"code", "token"} /\ Phase(g)' = "taken"
  <2>1. Lifecycle!Take(g)
    BY <1>2, OneMove DEF Lifecycle!Take
  <2>. QED BY <2>1 DEF Simulated, Lifecycle!Next
<1>3. CASE Phase(g) = "taken" /\ Phase(g)' = "token"
  <2>1. Lifecycle!Rotate(g)
    BY <1>3, OneMove DEF Lifecycle!Rotate
  <2>. QED BY <2>1 DEF Simulated, Lifecycle!Next
<1>4. CASE Phase(g) \in {"code", "taken", "token"} /\ Phase(g)' = "ended"
  <2>1. Lifecycle!End(g)
    BY <1>4, OneMove DEF Lifecycle!End
  <2>. QED BY <2>1 DEF Simulated, Lifecycle!Next
<1>. QED BY <1>1, <1>2, <1>3, <1>4

LEMMA AuthorizeSimulated ==
  ASSUME IInv, NEW k \in Codes, NEW c \in Clients, CreateAuthorizationCode(k, c),
         UNCHANGED <<expired, requestVars, held, revoked>>
  PROVE  Simulated
<1>1. /\ codeClient[k] = None /\ codeClient' = [codeClient EXCEPT ![k] = c] /\ c # None
      /\ authCodes' = authCodes \cup {k} /\ codeClient \in [Codes -> Clients \cup {None}]
      /\ UNCHANGED <<refreshTokens, grant, stage, subject>>
  BY TGAssumption DEF CreateAuthorizationCode, requestVars, IInv, TypeOK
<1>2. Phase(k) = "none" /\ Phase(k)' = "code"
  <2>1. k \notin authCodes /\ Takers(k) = {} /\ LiveTokens(k) = {}
    BY <1>1 DEF IInv, Given, Takers, LiveTokens
  <2>2. k \in authCodes' /\ codeClient'[k] # None
    BY <1>1
  <2>3. Takers(k)' = {} /\ LiveTokens(k)' = {}
    BY <1>1, <2>1 DEF Takers, LiveTokens
  <2>. QED BY <1>1, <2>1, <2>2, <2>3 DEF Phase, InCode
<1>3. ASSUME NEW g \in Codes \ {k} PROVE Phase(g)' = Phase(g)
  BY <1>1, SamePhase DEF Takers, LiveTokens
<1>4. Phases' = [Phases EXCEPT ![k] = "code"] /\ Phases[k] = "none"
  BY <1>2, <1>3 DEF Phases
<1>5. Lifecycle!Give(k, c)
  BY <1>1, <1>4 DEF Lifecycle!Give, Phases
<1>. QED BY <1>5 DEF Simulated, Lifecycle!Next

\* A refused call leaves the requests that hold a grant as they are.
LEMMA SameTakers ==
  ASSUME IInv, NEW r \in Requests, NEW x, x # "validated", stage[r] # "validated",
         stage' = [stage EXCEPT ![r] = x], UNCHANGED subject, NEW k
  PROVE  Takers(k)' = Takers(k)
BY DEF Takers, IInv, TypeOK

\* An accepted one joins the takers of the grant it took, and of no other.
LEMMA NewTaker ==
  ASSUME IInv, NEW r \in Requests, NEW c, NEW g \in Codes, NEW at, Validated(r, c, g, at),
         stage[r] = "idle", NEW k \in Codes
  PROVE  Takers(k)' = Takers(k) \cup (IF k = g THEN {r} ELSE {})
BY DEF Takers, Validated, IInv, TypeOK

LEMMA CodeGrantSimulated ==
  ASSUME IInv, NEW r \in Requests, NEW c \in Clients, NEW k \in Codes, NEW fits \in BOOLEAN,
         HandleAuthorizationCodeGrant(r, c, k, fits) \/ HandleOIDCCodeGrant(r, c, k, fits)
  PROVE  Simulated
<1>1. PICK at : stage[r] = "idle" /\ codeClient[k] # None /\ ValidateAuthorizationCode(r, c, k, fits, at)
  BY DEF HandleAuthorizationCodeGrant, HandleOIDCCodeGrant, Presentable
<1>2. authCodes' = authCodes \ {k} /\ UNCHANGED <<codeClient, refreshTokens, grant>>
  BY <1>1 DEF ValidateAuthorizationCode
<1>3. \A g \in Codes : LiveTokens(g)' = LiveTokens(g)
  BY <1>2 DEF LiveTokens
<1>4. k \in authCodes => Takers(k) = {} /\ LiveTokens(k) = {} /\ Phase(k) = "code"
  BY <1>1 DEF IInv, Apart, Takers, LiveTokens, Phase, InCode
<1>5. CASE Refused(r)
  <2>1. \A g \in Codes : Takers(g)' = Takers(g)
    BY <1>1, <1>5, SameTakers DEF Refused
  <2>2. \A g \in Codes \ {k} : Phase(g)' = Phase(g)
    BY <1>2, <1>3, <2>1, SamePhase
  <2>3. CASE k \in authCodes
    <3>1. Phase(k)' = "ended"
      BY <1>1, <1>2, <1>3, <1>4, <2>1, <2>3 DEF Phase, InCode
    <3>. QED BY <1>2, <1>4, <2>2, <2>3, <3>1, MoveSimulated
  <2>4. CASE k \notin authCodes
    <3>1. Phase(k)' = Phase(k)
      BY <1>2, <1>3, <2>1, <2>4, SamePhase
    <3>. QED BY <1>2, <2>2, <3>1, MoveSimulated
  <2>. QED BY <2>3, <2>4
<1>6. CASE ~Refused(r)
  <2>1. Validated(r, c, k, at) /\ k \in authCodes
    BY <1>1, <1>6 DEF ValidateAuthorizationCode
  <2>2. \A g \in Codes : Takers(g)' = Takers(g) \cup (IF g = k THEN {r} ELSE {})
    BY <1>1, <2>1, NewTaker
  <2>3. \A g \in Codes \ {k} : Phase(g)' = Phase(g)
    BY <1>2, <1>3, <2>2, SamePhase
  <2>4. Phase(k)' = "taken"
    BY <1>1, <1>2, <1>3, <1>4, <2>1, <2>2 DEF Phase, InCode
  <2>. QED BY <1>2, <1>4, <2>1, <2>3, <2>4, MoveSimulated
<1>. QED BY <1>5, <1>6

\* What becomes of the tokens of each grant when token t leaves the store.
LEMMA TokenLeaves ==
  ASSUME IInv, NEW t \in refreshTokens, refreshTokens' = refreshTokens \ {t}, UNCHANGED grant
  PROVE  /\ grant[t] \in Codes /\ codeClient[grant[t]] # None
         /\ LiveTokens(grant[t]) # {} /\ LiveTokens(grant[t])' = {}
         /\ grant[t] \notin authCodes /\ Takers(grant[t]) = {}
         /\ Phase(grant[t]) = "token"
         /\ \A k \in Codes \ {grant[t]} : LiveTokens(k)' = LiveTokens(k)
<1>1. grant[t] \in Codes /\ codeClient[grant[t]] # None
  BY DEF IInv, Given
<1>2. t \in LiveTokens(grant[t]) /\ LiveTokens(grant[t])' = {}
  BY DEF IInv, Apart, LiveTokens
<1>3. grant[t] \notin authCodes /\ Takers(grant[t]) = {}
  BY DEF IInv, Apart, Takers
<1>4. Phase(grant[t]) = "token"
  BY <1>1, <1>2, <1>3 DEF Phase, InCode
<1>5. \A k \in Codes \ {grant[t]} : LiveTokens(k)' = LiveTokens(k)
  BY DEF LiveTokens
<1>. QED BY <1>1, <1>2, <1>3, <1>4, <1>5

\* A token leaves the store and nothing takes its grant.
LEMMA TokenDropped ==
  ASSUME IInv, NEW t \in refreshTokens, refreshTokens' = refreshTokens \ {t},
         UNCHANGED <<grant, authCodes, codeClient>>, \A k \in Codes : Takers(k)' = Takers(k)
  PROVE  Simulated
<1>1. \A k \in Codes \ {grant[t]} : Phase(k)' = Phase(k)
  BY TokenLeaves, SamePhase
<1>2. Phase(grant[t])' = "ended"
  BY TokenLeaves DEF Phase, InCode
<1>. QED BY <1>1, <1>2, TokenLeaves, MoveSimulated

\* Nothing that Phase looks at changes.
LEMMA StoresKept ==
  ASSUME UNCHANGED <<authCodes, codeClient, refreshTokens, grant>>,
         \A k \in Codes : Takers(k)' = Takers(k)
  PROVE  Simulated
<1>1. \A k \in Codes : Phase(k)' = Phase(k)
  BY SamePhase DEF LiveTokens
<1>. QED BY <1>1, NoMove DEF Simulated

LEMMA RefreshGrantSimulated ==
  ASSUME IInv, NEW r \in Requests, NEW c \in Clients, NEW t \in Tokens,
         HandleRefreshTokenGrant(r, c, t) \/ HandleOIDCRefreshGrant(r, c, t)
  PROVE  Simulated
<1>1. PICK at : stage[r] = "idle" /\ ValidateRefreshToken(r, c, t, at)
  BY DEF HandleRefreshTokenGrant, HandleOIDCRefreshGrant
<1>2. UNCHANGED <<authCodes, codeClient, grant>>
  BY <1>1 DEF ValidateRefreshToken
<1>3. CASE Refused(r)
  <2>1. \A k \in Codes : Takers(k)' = Takers(k)
    BY <1>1, <1>3, SameTakers DEF Refused
  <2>2. refreshTokens' = refreshTokens \/ (t \in refreshTokens /\ refreshTokens' = refreshTokens \ {t})
    BY <1>1 DEF ValidateRefreshToken
  <2>. QED BY <1>2, <2>1, <2>2, TokenDropped, StoresKept
<1>4. CASE ~Refused(r)
  <2>1. Validated(r, c, grant[t], at) /\ t \in refreshTokens /\ refreshTokens' = refreshTokens \ {t}
    BY <1>1, <1>4 DEF ValidateRefreshToken
  <2>2. \A k \in Codes : Takers(k)' = Takers(k) \cup (IF k = grant[t] THEN {r} ELSE {})
    BY <1>1, <1>2, <2>1, NewTaker, TokenLeaves
  <2>3. \A k \in Codes \ {grant[t]} : Phase(k)' = Phase(k)
    BY <1>2, <2>1, <2>2, TokenLeaves, SamePhase
  <2>4. Phase(grant[t])' = "taken"
    BY <1>2, <2>1, <2>2, TokenLeaves DEF Phase, InCode
  <2>. QED BY <1>2, <2>1, <2>3, <2>4, TokenLeaves, MoveSimulated
<1>. QED BY <1>3, <1>4

LEMMA IssueSimulated ==
  ASSUME IInv, NEW r \in Requests, NEW t \in Tokens, Issue(r, t)
  PROVE  Simulated
<1>. DEFINE g == subject[r]
<1>1. /\ stage[r] = "validated" /\ grant[t] = None
      /\ refreshTokens' = refreshTokens \cup {t} /\ grant' = [grant EXCEPT ![t] = g]
      /\ stage' = [stage EXCEPT ![r] = "stored"]
      /\ UNCHANGED <<authCodes, codeClient, subject>>
  BY DEF Issue, StoreRefreshToken
<1>2. g \in Codes /\ codeClient[g] # None /\ g \notin authCodes
  BY <1>1 DEF IInv, Given, Apart
<1>3. Takers(g) # {} /\ Takers(g)' = {} /\ \A k \in Codes \ {g} : Takers(k)' = Takers(k)
  <2>1. r \in Takers(g) /\ \A q \in Requests \ {r} : q \notin Takers(g)
    BY <1>1 DEF IInv, Apart, Takers
  <2>2. stage'[r] = "stored" /\ \A q \in Requests \ {r} : stage'[q] = stage[q]
    BY <1>1 DEF IInv, TypeOK
  <2>3. Takers(g)' = {}
    BY <1>1, <2>1, <2>2 DEF Takers
  <2>. QED BY <1>1, <2>1, <2>2, <2>3 DEF Takers
<1>4. /\ LiveTokens(g) = {} /\ t \in LiveTokens(g)'
      /\ \A k \in Codes \ {g} : LiveTokens(k)' = LiveTokens(k)
  <2>1. t \notin refreshTokens
    BY <1>1, TGAssumption DEF IInv, Given
  <2>2. grant'[t] = g /\ \A u \in refreshTokens : grant'[u] = grant[u]
    BY <1>1, <2>1 DEF IInv, TypeOK
  <2>3. LiveTokens(g) = {}
    BY <1>1 DEF IInv, Apart, LiveTokens
  <2>. QED BY <1>1, <2>1, <2>2, <2>3 DEF LiveTokens
<1>5. Phase(g) = "taken"
  BY <1>2, <1>3, <1>4 DEF Phase, InCode
<1>6. Phase(g)' = "token"
  BY <1>1, <1>2, <1>3, <1>4 DEF Phase, InCode
<1>7. \A k \in Codes \ {g} : Phase(k)' = Phase(k)
  BY <1>1, <1>3, <1>4, SamePhase
<1>. QED BY <1>1, <1>2, <1>5, <1>6, <1>7, MoveSimulated

LEMMA IssueFailsSimulated ==
  ASSUME IInv, NEW r \in Requests, IssueFails(r)
  PROVE  Simulated
<1>. DEFINE g == subject[r]
<1>1. /\ stage[r] = "validated" /\ stage' = [stage EXCEPT ![r] = "failed"]
      /\ UNCHANGED <<authCodes, codeClient, refreshTokens, grant, subject>>
  BY DEF IssueFails, storeVars
<1>2. g \in Codes /\ codeClient[g] # None /\ g \notin authCodes /\ LiveTokens(g) = {}
  BY <1>1 DEF IInv, Given, Apart, LiveTokens
<1>3. Takers(g) # {} /\ Takers(g)' = {} /\ \A k \in Codes \ {g} : Takers(k)' = Takers(k)
  <2>1. r \in Takers(g) /\ \A q \in Requests \ {r} : q \notin Takers(g)
    BY <1>1 DEF IInv, Apart, Takers
  <2>2. stage'[r] = "failed" /\ \A q \in Requests \ {r} : stage'[q] = stage[q]
    BY <1>1 DEF IInv, TypeOK
  <2>3. Takers(g)' = {}
    BY <1>1, <2>1, <2>2 DEF Takers
  <2>. QED BY <1>1, <2>1, <2>2, <2>3 DEF Takers
<1>4. \A k \in Codes : LiveTokens(k)' = LiveTokens(k)
  BY <1>1 DEF LiveTokens
<1>5. Phase(g) = "taken"
  BY <1>2, <1>3 DEF Phase, InCode
<1>6. Phase(g)' = "ended"
  BY <1>1, <1>2, <1>3, <1>4 DEF Phase, InCode
<1>7. \A k \in Codes \ {g} : Phase(k)' = Phase(k)
  BY <1>1, <1>3, <1>4, SamePhase
<1>. QED BY <1>1, <1>2, <1>5, <1>6, <1>7, MoveSimulated

LEMMA AnswerSimulated ==
  ASSUME IInv, NEW r \in Requests,
         RefuseClient(r) \/ IDTokenFails(r) \/ Respond(r) \/ LoseResponse(r)
  PROVE  Simulated
<1>1. PICK x \in {"refused", "answered", "failed"} :
        stage[r] # "validated" /\ stage' = [stage EXCEPT ![r] = x]
  BY DEF RefuseClient, Refused, IDTokenFails, Respond, LoseResponse
<1>2. UNCHANGED <<authCodes, codeClient, refreshTokens, grant, subject>>
  BY DEF RefuseClient, Refused, IDTokenFails, Respond, LoseResponse, storeVars
<1>3. \A k \in Codes : Takers(k)' = Takers(k)
  BY <1>1, <1>2, SameTakers
<1>. QED BY <1>2, <1>3, StoresKept

LEMMA RevokeSimulated ==
  ASSUME IInv, NEW t \in Tokens, NEW hint, HandleRevoke(t, hint)
  PROVE  Simulated
<1>1. \A k \in Codes : Takers(k)' = Takers(k)
  BY DEF HandleRevoke, requestVars, Takers
<1>2. UNCHANGED <<authCodes, codeClient, grant>>
      /\ (refreshTokens' = refreshTokens \/ (t \in refreshTokens /\ refreshTokens' = refreshTokens \ {t}))
  BY DEF HandleRevoke, RevokeRefreshToken, storeVars
<1>. QED BY <1>1, <1>2, TokenDropped, StoresKept

LEMMA NextSimulated == IInv /\ [Next]_vars => [Lifecycle!Next]_(Lifecycle!vars)
<1>. SUFFICES ASSUME IInv, [Next]_vars PROVE Simulated
  BY DEF Simulated
<1>1. CASE AuthorizeStep
  BY <1>1, AuthorizeSimulated DEF AuthorizeStep, HandleAuthorizeSubmit, HandleOIDCAuthorizeSubmit
<1>2. ASSUME NEW r \in Requests, ConsumeStep(r) PROVE Simulated
  BY <1>2, AnswerSimulated, CodeGrantSimulated, RefreshGrantSimulated DEF ConsumeStep
<1>3. ASSUME NEW r \in Requests, IssueStep(r) PROVE Simulated
  BY <1>3, AnswerSimulated, IssueSimulated, IssueFailsSimulated
     DEF IssueStep, IssueTokens, IssueOIDCTokens, IssueOIDCRefreshed
<1>4. ASSUME NEW t \in Tokens, NEW hint \in {"refresh_token", "access_token", ""}, HandleRevoke(t, hint)
      PROVE  Simulated
  BY <1>4, RevokeSimulated
<1>5. CASE (\E x \in Codes \cup Tokens : Expire(x)) \/ UNCHANGED vars
  BY <1>5, StoresKept DEF Expire, vars, storeVars, requestVars, Takers
<1>. QED BY <1>1, <1>2, <1>3, <1>4, <1>5 DEF Next

\* The stores and the concurrent requests of both plugins implement the life of
\* a grant: it is exchanged once, rotated by one request at a time, and does not
\* come back once it has ended.
THEOREM ImplementsLifecycle == Spec => KeepsLifecycle
<1>1. Init => Lifecycle!Init
  <2>. SUFFICES ASSUME Init PROVE Lifecycle!Init
    OBVIOUS
  <2>1. ASSUME NEW k \in Codes PROVE Phase(k) = "none"
    <3>1. codeClient[k] = None /\ InCode(k) = {} /\ Takers(k) = {} /\ LiveTokens(k) = {}
      BY DEF Init, InCode, Takers, LiveTokens
    <3>. QED BY <3>1 DEF Phase
  <2>. QED BY <2>1 DEF Init, Lifecycle!Init
<1>2. Spec => Lifecycle!Spec
  BY <1>1, NextSimulated, Inductive, PTL DEF Spec, Lifecycle!Spec
<1>. QED BY <1>2 DEF KeepsLifecycle

=============================================================================
