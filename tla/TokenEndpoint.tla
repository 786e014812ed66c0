---------------------------- MODULE TokenEndpoint ----------------------------
(***************************************************************************)
(* The token endpoint (access.go): HandleAccessRequest and its five grant  *)
(* handlers, the application's decision, and FinishAccessRequest.          *)
(***************************************************************************)
EXTENDS Server

CONSTANTS
    TokenRequests,   \* the requests clients send in a run
    RepeatsTokens    \* whether the generator of the application repeats tokens

ASSUME TokenRequestsAssumption == TokenRequests \subseteq TokenRequest
ASSUME RepeatsTokensAssumption == RepeatsTokens \in BOOLEAN

-----------------------------------------------------------------------------
(* HandleAccessRequest up to getClient. *)

methodAllowed(http) == http.method = "POST" \/ (http.method = "GET" /\ config.allowGetAccessRequest)

\* Whether a grant handler gets to see the request.
dispatched(http) ==
    methodAllowed(http) /\ http.wellFormed /\ http.grantType \in config.allowedAccessTypes

\* The error a request meets before its client is looked up, Nil for none.
requestError(http, auth) ==
    IF ~methodAllowed(http) \/ ~http.wellFormed THEN "invalid_request"
    ELSE IF ~dispatched(http) THEN "unsupported_grant_type"
    ELSE IF auth = Nil THEN "invalid_request"
    ELSE IF ~hasGrant(http) THEN "invalid_grant"
    ELSE Nil

\* found is what the lookup in getClientAuth returned; that lookup may fail.
Receive(r, http, found) ==
    LET auth == getClientAuth(config, http.auth, found)
        error == requestError(http, auth)
    IN  /\ IF error # Nil THEN answer(r, error)
           ELSE goto(r, [pc |-> "client", http |-> http, auth |-> auth])
        /\ UNCHANGED <<storeVars, config, now, restarts, delivered>>

HandleAccessRequest(r, http) ==
    /\ at(r, "idle")
    /\ \/ Receive(r, http, GetClient(http.auth.clientId)) /\ UNCHANGED faults
       \/ /\ dispatched(http) /\ looksUpClient(config, http.auth)
          /\ Receive(r, http, Nil) /\ fail("lookup")

-----------------------------------------------------------------------------
(* getClient, and for the grants without a stored record the rest of their *)
(* handlers. *)

loadsRecord(http) == http.grantType \in {"authorization_code", "refresh_token"}

registeredFirst(client) == registeredUris(config, client)[1]

\* The request that the password, client_credentials and assertion handlers
\* return.
directRequest(http, client) ==
    [type |-> http.grantType, client |-> client, authorizeData |-> Nil, accessData |-> Nil,
     forceAccessData |-> Nil, authorized |-> FALSE,
     redirectUri |-> registeredFirst(client), formRedirectUri |-> http.redirectUri,
     scope |-> http.scope, generateRefresh |-> http.grantType = "password",
     codeVerifier |-> Nil]

AuthenticateClient(r) ==
    /\ at(r, "client")
    /\ LET http == req[r].http
           client == GetClient(req[r].auth.username)
           error == getClientError(config, req[r].auth, client)
       IN  \/ /\ IF error # Nil THEN answer(r, error)
                 ELSE IF loadsRecord(http)
                      THEN goto(r, [pc |-> "load", http |-> http, client |-> client])
                      ELSE goto(r, [pc |-> "decide", ar |-> directRequest(http, client)])
              /\ UNCHANGED faults
           \/ answer(r, "server_error") /\ fail("lookup")
    /\ UNCHANGED <<storeVars, config, now, restarts, delivered>>

-----------------------------------------------------------------------------
(* The authorization_code grant. *)

transform(method, verifier) == IF method = "S256" THEN S256(verifier) ELSE verifier

\* Faulty: a code without a challenge is let through.
enforcementError_ifChallenged(data, verifier) ==
    IF config.enforceOAuth21 /\ data.codeChallenge # Nil /\ verifier = Nil
    THEN "invalid_grant" ELSE Nil

\* What EnforceOAuth21 demands of every exchange.
enforcementError(data, verifier) ==
    IF ~config.enforceOAuth21 THEN Nil
    ELSE IF data.codeChallenge = Nil
        THEN (IF verifier # Nil THEN "invalid_request" ELSE "invalid_grant")
    ELSE IF verifier = Nil THEN "invalid_grant"
    ELSE Nil

pkceError(data, verifier) ==
    IF enforcementError(data, verifier) # Nil THEN enforcementError(data, verifier)
    ELSE IF data.codeChallenge = Nil THEN Nil
    ELSE IF verifier \in {Nil, Malformed} THEN "invalid_request"
    ELSE IF data.codeChallengeMethod = "other" THEN "invalid_request"
    ELSE IF transform(data.codeChallengeMethod, verifier) # data.codeChallenge THEN "invalid_grant"
    ELSE Nil

\* The redirect URI of the exchange: the requested one, or the first one
\* the client registered.
exchangeUri(client, redirectUri) ==
    IF redirectUri = Nil THEN registeredFirst(client) ELSE redirectUri

redirectError(data, client, redirectUri) ==
    LET uri == exchangeUri(client, redirectUri)
    IN  IF ~validateRedirectUri(config, client, uri) THEN "invalid_request"
        ELSE IF data.redirectUri # realRedirectUri(config, client, uri) THEN "invalid_request"
        ELSE Nil

\* Faulty: public clients are not compared.
otherClient_ifSecret(data, client) == client.secret # Nil /\ data.client.id # client.id
otherClient(data, client) == data.client.id # client.id

codeError(data, http, client) ==
    LET uriError == redirectError(data, client, http.redirectUri) IN
    IF data = Nil THEN missingError("invalid_grant")
    ELSE IF data.client = Nil \/ ~clientHasRedirectUri(data.client) THEN "unauthorized_client"
    ELSE IF IsExpiredAt(data, now) THEN "invalid_grant"
    ELSE IF otherClient(data, client) THEN "invalid_grant"
    ELSE IF uriError # Nil THEN uriError
    ELSE pkceError(data, http.codeVerifier)

codeRequest(data, http, client) ==
    [type |-> "authorization_code", client |-> client, authorizeData |-> data.code,
     accessData |-> Nil, forceAccessData |-> Nil, authorized |-> FALSE,
     redirectUri |-> data.redirectUri, formRedirectUri |-> http.redirectUri,
     scope |-> data.scope, generateRefresh |-> TRUE, codeVerifier |-> http.codeVerifier]

LoadCode(r) ==
    /\ at(r, "load") /\ req[r].http.grantType = "authorization_code"
    /\ LET data == LoadAuthorize(req[r].http.code)
           error == codeError(data, req[r].http, req[r].client)
       IN  \/ /\ IF error # Nil THEN answer(r, error)
                 ELSE goto(r, [pc |-> "decide",
                               ar |-> codeRequest(data, req[r].http, req[r].client)])
              /\ UNCHANGED faults
           \/ answer(r, "invalid_grant") /\ fail("load")
    /\ UNCHANGED <<storeVars, config, now, restarts, delivered>>

-----------------------------------------------------------------------------
(* The refresh_token grant. *)

\* Faulty: the arguments swapped.
extraScopes_swapped(accessScopes, refreshScopes) == ~(accessScopes \subseteq refreshScopes)
extraScopes(accessScopes, refreshScopes) == ~(refreshScopes \subseteq accessScopes)

\* A blank scope asks for what the token had.
refreshScope(data, scope) == IF scope = {} THEN data.scope ELSE scope

\* Faulty: a storage that claims to keep bindings is believed.
unbound_trusting(data) ==
    config.requireSenderConstrainedTokens /\ ~ClaimsBinding /\ data.senderConstraint = Nil
unbound(data) == config.requireSenderConstrainedTokens /\ data.senderConstraint = Nil

refreshError(data, http, client) ==
    IF data = Nil THEN missingError("invalid_grant")
    ELSE IF data.client = Nil \/ ~clientHasRedirectUri(data.client) THEN "unauthorized_client"
    ELSE IF otherClient(data, client) THEN "invalid_client"
    ELSE IF unbound(data) THEN "invalid_grant"
    ELSE IF extraScopes(data.scope, refreshScope(data, http.scope)) THEN "access_denied"
    ELSE Nil

refreshRequest(data, http, client) ==
    [type |-> "refresh_token", client |-> client, authorizeData |-> Nil, accessData |-> data,
     forceAccessData |-> Nil, authorized |-> FALSE,
     redirectUri |-> data.redirectUri, formRedirectUri |-> http.redirectUri,
     scope |-> refreshScope(data, http.scope), generateRefresh |-> TRUE, codeVerifier |-> Nil]

LoadToken(r) ==
    /\ at(r, "load") /\ req[r].http.grantType = "refresh_token"
    /\ LET data == LoadRefresh(req[r].http.refreshToken)
           error == refreshError(data, req[r].http, req[r].client)
       IN  \/ /\ IF error # Nil THEN answer(r, error)
                 ELSE goto(r, [pc |-> "decide",
                               ar |-> refreshRequest(data, req[r].http, req[r].client)])
              /\ UNCHANGED faults
           \/ answer(r, "invalid_grant") /\ fail("load")
    /\ UNCHANGED <<storeVars, config, now, restarts, delivered>>

-----------------------------------------------------------------------------
(* The application decides: it authorizes the request or not, and may ask  *)
(* for a token record it finds in the storage to be handed out again.      *)

reusable(ar) ==
    IF ReuseAccessData
    THEN {access[t] : t \in {a \in AccessTokens :
                                access[a] # Nil /\ access[a].client.id = ar.client.id}}
    ELSE {}

Decide(r) ==
    /\ at(r, "decide")
    /\ \E authorized \in BOOLEAN :
       \E force \in {Nil} \cup reusable(req[r].ar) :
            goto(r, [pc |-> "finish", ar |-> [req[r].ar EXCEPT !.authorized = authorized,
                                                               !.forceAccessData = force]])
    /\ UNCHANGED <<storeVars, config, now, faults, restarts, delivered>>

-----------------------------------------------------------------------------
(* FinishAccessRequest: the record to save, the save, and one removal      *)
(* after the other. *)

\* The tokens GenerateAccessToken may return: none it returned before.  A
\* generator that derives them from the client, as example/jwttoken does,
\* repeats itself.
unusedAccess == {t \in AccessTokens : RepeatsTokens \/ granted[t] = Nil}

unusedRefresh ==
    {t \in RefreshTokens :
        RepeatsTokens \/ \A a \in AccessTokens : granted[a] # Nil => granted[a].refreshToken # t}

\* Faulty: the previous token is left out.
newAccessData_detached(ar, token, refreshToken, constraint) ==
    [client |-> ar.client, authorizeData |-> ar.authorizeData, accessData |-> Nil,
     accessToken |-> token, refreshToken |-> refreshToken,
     expireAt |-> now + config.accessExpiration, scope |-> ar.scope,
     redirectUri |-> ar.redirectUri, senderConstraint |-> constraint]

newAccessData(ar, token, refreshToken, constraint) ==
    [client |-> ar.client, authorizeData |-> ar.authorizeData,
     accessData |-> IF ar.accessData = Nil THEN Nil ELSE tokensOf(ar.accessData),
     accessToken |-> token, refreshToken |-> refreshToken,
     expireAt |-> now + config.accessExpiration, scope |-> ar.scope,
     redirectUri |-> IF ar.redirectUri # Nil THEN ar.redirectUri ELSE ar.formRedirectUri,
     senderConstraint |-> constraint]

\* The records FinishAccessRequest may go on with: the forced one, or one
\* with generated tokens and the binding the generator wrote into it.
produced(ar) ==
    IF ar.forceAccessData # Nil THEN {ar.forceAccessData}
    ELSE {newAccessData(ar, token, refreshToken, constraint) :
             token \in unusedAccess,
             refreshToken \in IF ar.generateRefresh THEN unusedRefresh ELSE {Nil},
             constraint \in Thumbprints \cup {Nil}}

\* A token that replaces another one takes over its binding if it has none.
withBinding(ret, ar) ==
    IF unbound(ret) /\ ar.accessData # Nil
    THEN [ret EXCEPT !.senderConstraint = ar.accessData.senderConstraint]
    ELSE ret

replacesToken_always(ret) == ret.accessData # Nil   \* faulty: tokens are never retained
replacesToken(ret) == ret.accessData # Nil /\ ~config.retainTokenAfterRefresh

\* Faulty: the code is removed only along with a previous token.
stageAfter_keepsCode(stage, ret) ==
    IF stage = "rmAccess" \/ ~replacesToken(ret) THEN "reply"
    ELSE IF stage = "save" /\ ret.authorizeData # Nil THEN "rmAuthorize"
    ELSE IF stage # "rmRefresh" /\ ret.accessData.refreshToken # Nil THEN "rmRefresh"
    ELSE "rmAccess"

\* Faulty: either the previous refresh token is removed or the access token.
stageAfter_removesOne(stage, ret) ==
    IF stage = "save" /\ ret.authorizeData # Nil THEN "rmAuthorize"
    ELSE IF stage \in {"rmAccess", "rmRefresh"} \/ ~replacesToken(ret) THEN "reply"
    ELSE IF ret.accessData.refreshToken # Nil THEN "rmRefresh"
    ELSE "rmAccess"

\* Faulty: the previous access token goes first.
stageAfter_accessFirst(stage, ret) ==
    IF stage = "save" /\ ret.authorizeData # Nil THEN "rmAuthorize"
    ELSE IF stage = "rmRefresh" \/ ~replacesToken(ret) THEN "reply"
    ELSE IF stage # "rmAccess" THEN "rmAccess"
    ELSE IF ret.accessData.refreshToken # Nil THEN "rmRefresh"
    ELSE "reply"

\* Where FinishAccessRequest goes after a stage ("save" or a removal).
stageAfter(stage, ret) ==
    IF stage = "save" /\ ret.authorizeData # Nil THEN "rmAuthorize"
    ELSE IF stage = "rmAccess" \/ ~replacesToken(ret) THEN "reply"
    ELSE IF stage # "rmRefresh" /\ ret.accessData.refreshToken # Nil THEN "rmRefresh"
    ELSE "rmAccess"

\* An implicit request is answered in the fragment of its redirect URI, every
\* other one with data.
reply(r, out) ==
    IF at(r, "finish") /\ req[r].ar.type = "implicit"
    THEN redirect(r, out, req[r].ar.redirectUri, TRUE)
    ELSE answer(r, out)

goOn(r, stage, ret) ==
    LET next == stageAfter(stage, ret)
    IN  IF next = "reply"
        THEN reply(r, "ok") /\ delivered' = delivered \cup {ret.accessToken}
        ELSE goto(r, [pc |-> next, ret |-> ret]) /\ UNCHANGED delivered

\* Faulty: the error of the save is ignored.
Save_ignoresError(r, ret) ==
    /\ \/ SaveAccess(ret) /\ UNCHANGED faults
       \/ UNCHANGED storeVars /\ fail("save")
    /\ goOn(r, "save", ret)

\* A failed save may have been written or not.
Save(r, ret) ==
    \/ SaveAccess(ret) /\ goOn(r, "save", ret) /\ UNCHANGED faults
    \/ /\ fail("save")
       /\ SaveAccess(ret) \/ UNCHANGED storeVars
       /\ reply(r, "server_error") /\ UNCHANGED delivered

issueError(ar) ==
    IF ~ar.authorized THEN "access_denied"
    ELSE IF config.requireSenderConstrainedTokens /\ ~ClaimsBinding THEN "server_error"
    ELSE Nil

Refused(r, error) == reply(r, error) /\ UNCHANGED <<storeVars, delivered>>

FinishAccessRequest(r) ==
    /\ at(r, "finish")
    /\ LET ar == req[r].ar
       IN  \/ issueError(ar) # Nil /\ Refused(r, issueError(ar)) /\ UNCHANGED faults
           \/ /\ issueError(ar) = Nil /\ ar.forceAccessData = Nil
              /\ Refused(r, "server_error")
              /\ fail("generate") \/ (produced(ar) = {} /\ UNCHANGED faults)
           \/ /\ issueError(ar) = Nil
              /\ \E data \in produced(ar) :
                    LET ret == withBinding(data, ar)
                    IN  IF unbound(ret) THEN Refused(r, "server_error") /\ UNCHANGED faults
                        ELSE Save(r, ret)
    /\ UNCHANGED <<config, now, restarts>>

\* A removal whose error FinishAccessRequest ignores.
RemoveSpentCode(r) ==
    /\ at(r, "rmAuthorize")
    /\ \/ RemoveAuthorize(req[r].ret.authorizeData) /\ UNCHANGED faults
       \/ UNCHANGED storeVars /\ fail("remove")
    /\ goOn(r, "rmAuthorize", req[r].ret)
    /\ UNCHANGED <<config, now, restarts>>

RemovePreviousRefresh(r) ==
    /\ at(r, "rmRefresh")
    /\ \/ RemoveRefresh(req[r].ret.accessData.refreshToken) /\ UNCHANGED faults
       \/ UNCHANGED storeVars /\ fail("remove")
    /\ goOn(r, "rmRefresh", req[r].ret)
    /\ UNCHANGED <<config, now, restarts>>

\* Faulty: the new token is removed.
RemovePreviousAccess_new(r) ==
    /\ at(r, "rmAccess")
    /\ RemoveAccess(req[r].ret.accessToken)
    /\ goOn(r, "rmAccess", req[r].ret)
    /\ UNCHANGED <<config, now, faults, restarts>>

RemovePreviousAccess(r) ==
    /\ at(r, "rmAccess")
    /\ \/ RemoveAccess(req[r].ret.accessData.accessToken) /\ UNCHANGED faults
       \/ UNCHANGED storeVars /\ fail("remove")
    /\ goOn(r, "rmAccess", req[r].ret)
    /\ UNCHANGED <<config, now, restarts>>

TokenStep(r) ==
    \/ \E http \in TokenRequests : HandleAccessRequest(r, http)
    \/ AuthenticateClient(r)
    \/ LoadCode(r)
    \/ LoadToken(r)
    \/ Decide(r)
    \/ FinishAccessRequest(r)
    \/ RemoveSpentCode(r)
    \/ RemovePreviousRefresh(r)
    \/ RemovePreviousAccess(r)
=============================================================================
