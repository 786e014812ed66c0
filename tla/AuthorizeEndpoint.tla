-------------------------- MODULE AuthorizeEndpoint --------------------------
(***************************************************************************)
(* The authorization endpoint (authorize.go).  HandleAuthorizeRequest and  *)
(* FinishAuthorizeRequest make one storage call each; between them the     *)
(* application has the user log in.  An authorized implicit request goes   *)
(* on in FinishAccessRequest.                                              *)
(***************************************************************************)
EXTENDS TokenEndpoint

CONSTANT AuthorizationRequests   \* the requests user agents send in a run

ASSUME AuthorizationRequestsAssumption == AuthorizationRequests \subseteq AuthorizationRequest

\* A blank redirect_uri stands for the client's only registered URI.
requestedUri(client, uri) ==
    IF uri = Nil /\ Len(registeredUris(config, client)) = 1 THEN registeredFirst(client) ELSE uri

\* The method of a challenge; plain is the default.
challengeMethod(http) == IF http.codeChallengeMethod = Nil THEN "plain" ELSE http.codeChallengeMethod

challengeRefused(http, client) ==
    IF http.codeChallenge = Nil
    THEN \/ config.enforceOAuth21
         \/ config.requirePKCEForPublicClients /\ clientSecretMatches(client, Nil)
    ELSE \/ challengeMethod(http) = "other"
         \/ config.rejectPlainPKCE /\ challengeMethod(http) = "plain"
         \/ http.codeChallenge = Malformed

\* The error of a request that is answered before its redirect URI is
\* known, Nil for none.  The redirect_uri parameter is unescaped once more than
\* the form already was.
authorizeError(http, client) ==
    LET uri == Unescape(http.redirectUri)
    IN  IF ~http.wellFormed \/ uri = BadEscape THEN "invalid_request"
        ELSE IF client = Nil THEN "unauthorized_client"
        ELSE IF ~clientHasRedirectUri(client) THEN "unauthorized_client"
        ELSE IF ~validateRedirectUri(config, client, requestedUri(client, uri)) THEN "invalid_request"
        ELSE Nil

\* The error of a request that is answered by a redirect, Nil for none.
redirectedError(http, client) ==
    IF http.responseType \notin config.allowedAuthorizeTypes THEN "unsupported_response_type"
    ELSE IF http.responseType = "code" /\ challengeRefused(http, client) THEN "invalid_request"
    ELSE Nil

\* Faulty: the URI of the request as it came in.
redirectUriOf_raw(http, client) == requestedUri(client, Unescape(http.redirectUri))

\* What HandleAuthorizeRequest keeps as the redirect URI.
redirectUriOf(http, client) ==
    realRedirectUri(config, client, requestedUri(client, Unescape(http.redirectUri)))

\* The challenge and its method are kept for a code request only.
authorizeRequest(http, client) ==
    LET keepsChallenge == http.responseType = "code" /\ http.codeChallenge # Nil
    IN  [type |-> http.responseType, client |-> client, scope |-> http.scope,
         redirectUri |-> redirectUriOf(http, client),
         codeChallenge |-> IF keepsChallenge THEN http.codeChallenge ELSE Nil,
         codeChallengeMethod |-> IF keepsChallenge THEN challengeMethod(http) ELSE Nil,
         formRedirectUri |-> http.redirectUri]

HandleAuthorizeRequest(r, http) ==
    /\ at(r, "idle")
    /\ LET client == GetClient(http.clientId)
           error == authorizeError(http, client)
           redirected == redirectedError(http, client)
       IN  \/ /\ IF error # Nil THEN answer(r, error)
                 ELSE IF redirected # Nil
                      THEN redirect(r, redirected, redirectUriOf(http, client), FALSE)
                 ELSE goto(r, [pc |-> "login", ar |-> authorizeRequest(http, client)])
              /\ UNCHANGED faults
           \/ /\ http.wellFormed /\ http.redirectUri # BadEscape
              /\ answer(r, "server_error") /\ fail("lookup")
    /\ UNCHANGED <<storeVars, config, now, restarts, delivered>>

-----------------------------------------------------------------------------
(* FinishAuthorizeRequest, with the user's decision.  It answers by a       *)
(* redirect, in the query unless it grants a token. *)

redirectBack(r, out) == redirect(r, out, req[r].ar.redirectUri, FALSE)

Deny(r) ==
    /\ at(r, "login")
    /\ redirectBack(r, "access_denied")
    /\ UNCHANGED <<storeVars, config, now, faults, restarts, delivered>>

implicitRequest(ar) ==
    [type |-> "implicit", client |-> ar.client, authorizeData |-> Nil, accessData |-> Nil,
     forceAccessData |-> Nil, authorized |-> TRUE, redirectUri |-> ar.redirectUri,
     formRedirectUri |-> ar.formRedirectUri, scope |-> ar.scope, generateRefresh |-> FALSE,
     codeVerifier |-> Nil]

GrantToken(r) ==
    /\ at(r, "login") /\ req[r].ar.type = "token"
    /\ goto(r, [pc |-> "finish", ar |-> implicitRequest(req[r].ar)])
    /\ UNCHANGED <<storeVars, config, now, faults, restarts, delivered>>

\* The codes GenerateAuthorizeToken may return: none it returned before.
unusedCodes == {c \in Codes : offered[c] = Nil}

newAuthorizeData(ar, code) ==
    [client |-> ar.client, code |-> code, expireAt |-> now + config.authorizationExpiration,
     scope |-> ar.scope, redirectUri |-> ar.redirectUri,
     codeChallenge |-> ar.codeChallenge, codeChallengeMethod |-> ar.codeChallengeMethod]

GrantCode(r) ==
    /\ at(r, "login") /\ req[r].ar.type = "code"
    /\ \/ \E code \in unusedCodes :
            LET data == newAuthorizeData(req[r].ar, code)
            IN  \/ SaveAuthorize(data) /\ redirectBack(r, "ok") /\ UNCHANGED faults
                \/ /\ fail("save")
                   /\ SaveAuthorize(data) \/ UNCHANGED storeVars
                   /\ redirectBack(r, "server_error")
       \/ /\ redirectBack(r, "server_error") /\ UNCHANGED storeVars
          /\ fail("generate") \/ (unusedCodes = {} /\ UNCHANGED faults)
    /\ UNCHANGED <<config, now, restarts, delivered>>

AuthorizeStep(r) ==
    \/ \E http \in AuthorizationRequests : HandleAuthorizeRequest(r, http)
    \/ Deny(r)
    \/ GrantToken(r)
    \/ GrantCode(r)
=============================================================================
