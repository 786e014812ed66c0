-------------------------- MODULE AuthServerProofs ---------------------------
(***************************************************************************)
(* Proofs about AuthServer, for all values of its constants.               *)
(***************************************************************************)
EXTENDS AuthServer, TLAPS

-----------------------------------------------------------------------------
(* Slots and answers. *)

LEMMA GotoType ==
    ASSUME TypeOK, NEW r \in Requests, NEW s \in Slot, goto(r, s)
    PROVE  req' \in [Requests -> Slot]
BY DEF TypeOK, ServerTypeOK, goto

LEMMA ResponseType ==
    ASSUME NEW out \in Errors \cup {"none", "ok"}, NEW url \in UriTexts, NEW fragment \in BOOLEAN
    PROVE  [pc |-> "idle", out |-> out, url |-> url, fragment |-> fragment] \in Slot
BY DEF Response, Slot

LEMMA RedirectType ==
    ASSUME TypeOK, NEW r \in Requests, NEW out \in Errors \cup {"none", "ok"},
           NEW url \in UriTexts, NEW fragment \in BOOLEAN, redirect(r, out, url, fragment)
    PROVE  req' \in [Requests -> Slot]
BY ResponseType, GotoType DEF redirect

LEMMA AnswerType ==
    ASSUME TypeOK, NEW r \in Requests, NEW out \in Errors \cup {"none", "ok"}, answer(r, out)
    PROVE  req' \in [Requests -> Slot]
BY RedirectType DEF answer, UriTexts

LEMMA NoResponseType == noResponse \in Slot
BY ResponseType DEF noResponse, UriTexts

LEMMA FailType ==
    ASSUME TypeOK, NEW kind, fail(kind)
    PROVE  faults' \in 0 .. MaxFaults
BY ServerAssumption DEF TypeOK, ServerTypeOK, fail

-----------------------------------------------------------------------------
(* The storage keeps its types whatever is saved and removed. *)

LEMMA SaveAccessType ==
    ASSUME StoreTypeOK, NEW data \in AccessData, SaveAccess(data)
    PROVE  StoreTypeOK'
<1>1. persisted(data) \in AccessData
  BY DEF persisted, AccessData
<1>2. data.accessToken \in AccessTokens /\ data.refreshToken \in RefreshTokens \cup {Nil}
  BY DEF AccessData
<1> QED
  BY <1>1, <1>2 DEF StoreTypeOK, SaveAccess

LEMMA SaveAuthorizeType ==
    ASSUME StoreTypeOK, NEW data \in AuthorizeData, SaveAuthorize(data)
    PROVE  StoreTypeOK'
<1>1. data.code \in Codes
  BY DEF AuthorizeData
<1> QED
  BY <1>1 DEF StoreTypeOK, SaveAuthorize

LEMMA RemovalType ==
    ASSUME StoreTypeOK, NEW key,
           RemoveAuthorize(key) \/ RemoveAccess(key) \/ RemoveRefresh(key)
    PROVE  StoreTypeOK'
BY DEF StoreTypeOK, RemoveAuthorize, RemoveAccess, RemoveRefresh

LEMMA StoreStutter ==
    ASSUME StoreTypeOK, UNCHANGED storeVars
    PROVE  StoreTypeOK'
BY DEF StoreTypeOK, storeVars

-----------------------------------------------------------------------------
(* Redirect URIs: what a request may name once it is validated. *)

LEMMA ValidatedIsUri ==
    ASSUME NEW conf, NEW client, NEW uri, validateRedirectUri(conf, client, uri)
    PROVE  uri \in Uris
BY DEF validateRedirectUri, validateUriExactList, ValidateUriList, validateUriExact, ValidateUri,
       ParseUrls, endsWalk, parsable

LEMMA RealUriType ==
    ASSUME NEW conf, NEW client, NEW uri, validateRedirectUri(conf, client, uri)
    PROVE  realRedirectUri(conf, client, uri) \in UriTexts
<1>1. uri \in Uris
  BY ValidatedIsUri
<1> QED
  BY <1>1, UrisAssumption DEF realRedirectUri, UriTexts

LEMMA RegisteredFirstType ==
    ASSUME NEW client \in ClientValue
    PROVE  registeredFirst(client) \in UriTexts
<1>1. client.redirectUris \in Seq(UriTexts) /\ client.redirectUri \in UriTexts
  BY DEF ClientValue
<1>2. CASE client.redirectUris # <<>>
  BY <1>1, <1>2 DEF registeredFirst, registeredUris
<1>3. CASE client.redirectUris = <<>>
  <2>1. Split[client.redirectUri] \in Seq(UriTexts) /\ Split[client.redirectUri] # <<>>
    BY <1>1, SplitAssumption
  <2>2. splitUriList(client.redirectUri, config.separator)[1] \in UriTexts
    BY <1>1, <2>1 DEF splitUriList
  <2> QED
    BY <1>3, <2>2 DEF registeredFirst, registeredUris
<1> QED
  BY <1>2, <1>3

-----------------------------------------------------------------------------
(* Each action of the token endpoint keeps the types. *)

LEMMA CredentialsType ==
    ASSUME NEW conf, NEW http \in AuthParameters, NEW found
    PROVE  getClientAuth(conf, http, found) \in Credentials \cup {Nil}
<1>1. /\ http.clientId \in ClientIds \cup {Nil} /\ http.clientSecret \in Secrets \cup {Nil}
      /\ http.header \in Headers
  BY DEF AuthParameters
<1>2. ASSUME http.header.kind = "basic"
      PROVE  http.header.username \in ClientIds \cup {Nil} /\ http.header.password \in Secrets \cup {Nil}
  BY <1>1, <1>2 DEF Headers
<1> QED
  BY <1>1, <1>2 DEF getClientAuth, Credentials

LEMMA ReceiveType ==
    ASSUME TypeOK, NEW r \in Requests, NEW http \in TokenRequest, NEW found,
           Receive(r, http, found)
    PROVE  req' \in [Requests -> Slot]
<1> DEFINE auth == getClientAuth(config, http.auth, found)
           error == requestError(http, auth)
<1>1. http.auth \in AuthParameters
  BY DEF TokenRequest
<1>2. auth \in Credentials \cup {Nil}
  BY <1>1, CredentialsType
<1>3. config.allowedAccessTypes \subseteq GrantTypes
  BY ServerAssumption DEF TypeOK, ServerTypeOK, ServerConfig
<1>4. CASE error # Nil
  <2>1. error \in Errors
    BY <1>4 DEF requestError, Errors
  <2>2. answer(r, error)
    BY <1>4 DEF Receive
  <2> QED
    BY <2>1, <2>2, AnswerType
<1>5. CASE error = Nil
  <2>1. auth \in Credentials
    BY <1>2, <1>5, ServerAssumption DEF requestError, Errors
  <2>2. http \in GrantRequest
    BY <1>3, <1>5, ServerAssumption DEF requestError, dispatched, GrantRequest, Errors
  <2>3. [pc |-> "client", http |-> http, auth |-> auth] \in Slot
    BY <2>1, <2>2 DEF Slot
  <2>4. goto(r, [pc |-> "client", http |-> http, auth |-> auth])
    BY <1>5 DEF Receive
  <2> QED
    BY <2>3, <2>4, GotoType
<1> QED
  BY <1>4, <1>5

LEMMA HandleAccessRequestType ==
    ASSUME TypeOK, NEW r \in Requests, NEW http \in TokenRequests, HandleAccessRequest(r, http)
    PROVE  TypeOK'
<1>1. http \in TokenRequest
  BY TokenRequestsAssumption
<1>2. PICK found : Receive(r, http, found)
  BY DEF HandleAccessRequest
<1>3. req' \in [Requests -> Slot]
  BY <1>1, <1>2, ReceiveType
<1>4. UNCHANGED <<storeVars, config, now, restarts, delivered>>
  BY <1>2 DEF Receive
<1>5. faults' \in 0 .. MaxFaults
  BY FailType DEF HandleAccessRequest, TypeOK, ServerTypeOK
<1>6. StoreTypeOK'
  BY <1>4, StoreStutter DEF TypeOK
<1> QED
  BY <1>3, <1>4, <1>5, <1>6 DEF TypeOK, ServerTypeOK

\* The locals of a request, by stage.
LEMMA LocalsType ==
    ASSUME TypeOK, NEW r \in Requests
    PROVE  /\ at(r, "client") => req[r].http \in GrantRequest /\ req[r].auth \in Credentials
           /\ at(r, "load") => req[r].http \in GrantRequest /\ req[r].client \in Registrations
           /\ at(r, "decide") => req[r].ar \in AccessRequest
           /\ at(r, "finish") => req[r].ar \in AccessRequest
           /\ at(r, "rmAuthorize") => req[r].ret \in AccessData
           /\ at(r, "rmRefresh") => req[r].ret \in AccessData
           /\ at(r, "rmAccess") => req[r].ret \in AccessData
           /\ at(r, "login") => req[r].ar \in AuthorizeRequest
           /\ at(r, "info") => req[r].data \in AccessData
<1>1. req[r] \in Slot
  BY DEF TypeOK, ServerTypeOK
<1> QED
  BY <1>1 DEF Slot, Response, Report, at

LEMMA DirectRequestType ==
    ASSUME NEW http \in GrantRequest, NEW client \in Registrations, clientHasRedirectUri(client)
    PROVE  directRequest(http, client) \in AccessRequest
<1>1. registeredFirst(client) \in UriTexts
  BY RegisteredFirstType, ClientsAssumption DEF UriTexts
<1>2. /\ http.redirectUri \in UriTexts /\ http.scope \in SUBSET Scopes
      /\ http.grantType \in GrantTypes
  BY DEF GrantRequest, TokenRequest
<1> QED
  BY <1>1, <1>2 DEF directRequest, AccessRequest

LEMMA GetClientType ==
    ASSUME TypeOK, NEW id
    PROVE  GetClient(id) \in Registrations \cup {Nil}
BY DEF TypeOK, StoreTypeOK, GetClient

\* A step that touches neither the storage nor the server's own variables
\* keeps the types if it keeps those of req and faults.
LEMMA LocalStepType ==
    ASSUME TypeOK, req' \in [Requests -> Slot], faults' \in 0 .. MaxFaults,
           UNCHANGED <<storeVars, config, now, restarts, delivered>>
    PROVE  TypeOK'
<1>1. StoreTypeOK'
  BY StoreStutter DEF TypeOK
<1> QED
  BY <1>1 DEF TypeOK, ServerTypeOK

LEMMA AuthenticateClientType ==
    ASSUME TypeOK, NEW r \in Requests, AuthenticateClient(r)
    PROVE  TypeOK'
<1> DEFINE http == req[r].http
           client == GetClient(req[r].auth.username)
           error == getClientError(config, req[r].auth, client)
<1>1. http \in GrantRequest
  BY LocalsType DEF AuthenticateClient
<1>2. faults' \in 0 .. MaxFaults
  BY FailType DEF AuthenticateClient, TypeOK, ServerTypeOK
<1>3. req' \in [Requests -> Slot]
  <2>1. CASE answer(r, "server_error")
    BY <2>1, AnswerType DEF Errors
  <2>2. CASE error # Nil /\ answer(r, error)
    <3>1. error \in Errors
      BY <2>2 DEF getClientError, Errors
    <3> QED
      BY <2>2, <3>1, AnswerType
  <2>3. CASE error = Nil /\ ~answer(r, "server_error")
    <3>1. client # Nil /\ clientHasRedirectUri(client)
      BY <2>3, ServerAssumption DEF getClientError, Errors
    <3>2. client \in Registrations
      BY <3>1, GetClientType
    <3>3. CASE loadsRecord(http)
      <4>1. [pc |-> "load", http |-> http, client |-> client] \in Slot
        BY <1>1, <3>2 DEF Slot
      <4> QED
        BY <2>3, <3>3, <4>1, GotoType DEF AuthenticateClient
    <3>4. CASE ~loadsRecord(http)
      <4>1. directRequest(http, client) \in AccessRequest
        BY <1>1, <3>1, <3>2, DirectRequestType
      <4>2. [pc |-> "decide", ar |-> directRequest(http, client)] \in Slot
        BY <4>1 DEF Slot
      <4> QED
        BY <2>3, <3>4, <4>2, GotoType DEF AuthenticateClient
    <3> QED
      BY <3>3, <3>4
  <2> QED
    BY <2>1, <2>2, <2>3 DEF AuthenticateClient
<1> QED
  BY <1>2, <1>3, LocalStepType DEF AuthenticateClient

LEMMA PkceErrorType ==
    ASSUME NEW data, NEW verifier
    PROVE  pkceError(data, verifier) \in Errors \cup {Nil}
BY DEF pkceError, enforcementError, Errors

LEMMA CodeErrorType ==
    ASSUME NEW data, NEW http, NEW client
    PROVE  codeError(data, http, client) \in Errors \cup {Nil}
<1>1. redirectError(data, client, http.redirectUri) \in Errors \cup {Nil}
  BY DEF redirectError, Errors
<1>2. missingError("invalid_grant") \in Errors
  BY DEF missingError, Errors
<1> QED
  BY <1>1, <1>2, PkceErrorType DEF codeError, Errors

LEMMA CodeRequestType ==
    ASSUME NEW data \in AuthorizeData, NEW http \in GrantRequest, NEW client \in Registrations
    PROVE  codeRequest(data, http, client) \in AccessRequest
<1>1. /\ data.code \in Codes /\ data.redirectUri \in UriTexts /\ data.scope \in SUBSET Scopes
  BY DEF AuthorizeData
<1>2. /\ http.redirectUri \in UriTexts /\ http.codeVerifier \in Challenges \cup {Nil}
  BY DEF GrantRequest, TokenRequest
<1> QED
  BY <1>1, <1>2 DEF codeRequest, AccessRequest, GrantTypes

LEMMA LoadCodeType ==
    ASSUME TypeOK, NEW r \in Requests, LoadCode(r)
    PROVE  TypeOK'
<1> DEFINE data == LoadAuthorize(req[r].http.code)
           error == codeError(data, req[r].http, req[r].client)
<1>1. req[r].http \in GrantRequest /\ req[r].client \in Registrations
  BY LocalsType DEF LoadCode
<1>2. req[r].http.code \in Codes
  BY <1>1 DEF LoadCode, GrantRequest, TokenRequest, hasGrant
<1>3. faults' \in 0 .. MaxFaults
  BY FailType DEF LoadCode, TypeOK, ServerTypeOK
<1>4. req' \in [Requests -> Slot]
  <2>1. CASE answer(r, "invalid_grant")
    BY <2>1, AnswerType DEF Errors
  <2>2. CASE error # Nil /\ answer(r, error)
    BY <2>2, CodeErrorType, AnswerType
  <2>3. CASE error = Nil /\ ~answer(r, "invalid_grant")
    <3>1. data # Nil
      BY <2>3, ServerAssumption DEF codeError, missingError, Errors
    <3>2. data \in AuthorizeData
      BY <1>2, <3>1 DEF TypeOK, StoreTypeOK, LoadAuthorize
    <3>3. codeRequest(data, req[r].http, req[r].client) \in AccessRequest
      BY <1>1, <3>2, CodeRequestType
    <3>4. [pc |-> "decide", ar |-> codeRequest(data, req[r].http, req[r].client)] \in Slot
      BY <3>3 DEF Slot
    <3> QED
      BY <2>3, <3>4, GotoType DEF LoadCode
  <2> QED
    BY <2>1, <2>2, <2>3 DEF LoadCode
<1> QED
  BY <1>3, <1>4, LocalStepType DEF LoadCode

LEMMA RefreshErrorType ==
    ASSUME NEW data, NEW http, NEW client
    PROVE  refreshError(data, http, client) \in Errors \cup {Nil}
<1>1. missingError("invalid_grant") \in Errors
  BY DEF missingError, Errors
<1> QED
  BY <1>1 DEF refreshError, Errors

LEMMA RefreshRequestType ==
    ASSUME NEW data \in AccessData, NEW http \in GrantRequest, NEW client \in Registrations
    PROVE  refreshRequest(data, http, client) \in AccessRequest
<1>1. data.redirectUri \in UriTexts /\ data.scope \in SUBSET Scopes
  BY DEF AccessData
<1>2. http.redirectUri \in UriTexts /\ http.scope \in SUBSET Scopes
  BY DEF GrantRequest, TokenRequest
<1> QED
  BY <1>1, <1>2 DEF refreshRequest, refreshScope, AccessRequest, GrantTypes

LEMMA LoadRefreshType ==
    ASSUME TypeOK, NEW token \in RefreshTokens
    PROVE  LoadRefresh(token) \in AccessData \cup {Nil}
BY DEF TypeOK, StoreTypeOK, LoadRefresh, LoadAccess

LEMMA LoadTokenType ==
    ASSUME TypeOK, NEW r \in Requests, LoadToken(r)
    PROVE  TypeOK'
<1> DEFINE data == LoadRefresh(req[r].http.refreshToken)
           error == refreshError(data, req[r].http, req[r].client)
<1>1. req[r].http \in GrantRequest /\ req[r].client \in Registrations
  BY LocalsType DEF LoadToken
<1>2. req[r].http.refreshToken \in RefreshTokens
  BY <1>1 DEF LoadToken, GrantRequest, TokenRequest, hasGrant
<1>3. faults' \in 0 .. MaxFaults
  BY FailType DEF LoadToken, TypeOK, ServerTypeOK
<1>4. req' \in [Requests -> Slot]
  <2>1. CASE answer(r, "invalid_grant")
    BY <2>1, AnswerType DEF Errors
  <2>2. CASE error # Nil /\ answer(r, error)
    BY <2>2, RefreshErrorType, AnswerType
  <2>3. CASE error = Nil /\ ~answer(r, "invalid_grant")
    <3>1. data # Nil
      BY <2>3, ServerAssumption DEF refreshError, missingError, Errors
    <3>2. data \in AccessData
      BY <1>2, <3>1, LoadRefreshType
    <3>3. refreshRequest(data, req[r].http, req[r].client) \in AccessRequest
      BY <1>1, <3>2, RefreshRequestType
    <3>4. [pc |-> "decide", ar |-> refreshRequest(data, req[r].http, req[r].client)] \in Slot
      BY <3>3 DEF Slot
    <3> QED
      BY <2>3, <3>4, GotoType DEF LoadToken
  <2> QED
    BY <2>1, <2>2, <2>3 DEF LoadToken
<1> QED
  BY <1>3, <1>4, LocalStepType DEF LoadToken

LEMMA DecideType ==
    ASSUME TypeOK, NEW r \in Requests, Decide(r)
    PROVE  TypeOK'
<1>1. req[r].ar \in AccessRequest
  BY LocalsType DEF Decide
<1>2. PICK authorized \in BOOLEAN, force \in {Nil} \cup reusable(req[r].ar) :
         goto(r, [pc |-> "finish", ar |-> [req[r].ar EXCEPT !.authorized = authorized,
                                                           !.forceAccessData = force]])
  BY DEF Decide
<1>3. force \in AccessData \cup {Nil}
  BY DEF reusable, TypeOK, StoreTypeOK
<1>4. [req[r].ar EXCEPT !.authorized = authorized, !.forceAccessData = force] \in AccessRequest
  BY <1>1, <1>3 DEF AccessRequest
<1>5. [pc |-> "finish", ar |-> [req[r].ar EXCEPT !.authorized = authorized,
                                                 !.forceAccessData = force]] \in Slot
  BY <1>4 DEF Slot
<1>6. req' \in [Requests -> Slot]
  BY <1>2, <1>5, GotoType
<1>7. faults' \in 0 .. MaxFaults
  BY DEF Decide, TypeOK, ServerTypeOK
<1> QED
  BY <1>6, <1>7, LocalStepType DEF Decide

LEMMA ConfigType ==
    ASSUME TypeOK
    PROVE  /\ config \in ServerConfig
           /\ now + config.accessExpiration \in 0 .. MaxTime + MaxLife
           /\ now + config.authorizationExpiration \in 0 .. MaxTime + MaxLife
<1>1. config \in ServerConfig /\ now \in 0 .. MaxTime
  BY ServerAssumption DEF TypeOK, ServerTypeOK
<1>2. config.accessExpiration \in 0 .. MaxLife /\ config.authorizationExpiration \in 0 .. MaxLife
  BY <1>1 DEF ServerConfig
<1> QED
  BY <1>1, <1>2, GrantsAssumption

LEMMA ProducedType ==
    ASSUME TypeOK, NEW ar \in AccessRequest, NEW data \in produced(ar)
    PROVE  data \in AccessData
<1>1. CASE ar.forceAccessData # Nil
  BY <1>1 DEF produced, AccessRequest
<1>2. CASE ar.forceAccessData = Nil
  <2>1. PICK token \in unusedAccess,
             refreshToken \in IF ar.generateRefresh THEN unusedRefresh ELSE {Nil},
             constraint \in Thumbprints \cup {Nil} :
                data = newAccessData(ar, token, refreshToken, constraint)
    BY <1>2 DEF produced
  <2>2. token \in AccessTokens /\ refreshToken \in RefreshTokens \cup {Nil}
    BY DEF unusedAccess, unusedRefresh
  <2>3. IF ar.accessData = Nil THEN TRUE ELSE tokensOf(ar.accessData) \in TokenPair
    BY DEF AccessRequest, AccessData, TokenPair, tokensOf
  <2>4. /\ ar.client \in Registrations /\ ar.authorizeData \in Codes \cup {Nil}
        /\ ar.scope \in SUBSET Scopes /\ ar.redirectUri \in UriTexts
        /\ ar.formRedirectUri \in UriTexts
    BY DEF AccessRequest, UriTexts
  <2> DEFINE previous == IF ar.accessData = Nil THEN Nil ELSE tokensOf(ar.accessData)
             uri == IF ar.redirectUri # Nil THEN ar.redirectUri ELSE ar.formRedirectUri
  <2>5. previous \in TokenPair \cup {Nil} /\ uri \in UriTexts
    BY <2>3, <2>4
  <2>6. now + config.accessExpiration \in 0 .. MaxTime + MaxLife
    BY ConfigType
  <2>7. newAccessData(ar, token, refreshToken, constraint) =
          [client |-> ar.client, authorizeData |-> ar.authorizeData, accessData |-> previous,
           accessToken |-> token, refreshToken |-> refreshToken,
           expireAt |-> now + config.accessExpiration, scope |-> ar.scope,
           redirectUri |-> uri, senderConstraint |-> constraint]
    BY DEF newAccessData
  <2> HIDE DEF previous, uri
  <2> QED
    BY <2>1, <2>2, <2>4, <2>5, <2>6, <2>7 DEF AccessData
<1> QED
  BY <1>1, <1>2

LEMMA WithBindingType ==
    ASSUME NEW ar \in AccessRequest, NEW data \in AccessData
    PROVE  withBinding(data, ar) \in AccessData
<1>1. ar.accessData # Nil => ar.accessData.senderConstraint \in Thumbprints \cup {Nil}
  BY DEF AccessRequest, AccessData
<1>2. CASE unbound(data) /\ ar.accessData # Nil
  BY <1>1, <1>2 DEF withBinding, AccessData
<1>3. CASE ~(unbound(data) /\ ar.accessData # Nil)
  BY <1>3 DEF withBinding
<1> QED
  BY <1>2, <1>3

\* The redirect URI of an implicit request was validated with its type.
LEMMA ReplyType ==
    ASSUME TypeOK, NEW r \in Requests, NEW out \in Errors \cup {"none", "ok"}, reply(r, out)
    PROVE  req' \in [Requests -> Slot]
<1>1. CASE at(r, "finish") /\ req[r].ar.type = "implicit"
  <2>1. req[r].ar.redirectUri \in UriTexts
    BY <1>1, LocalsType DEF AccessRequest
  <2> QED
    BY <1>1, <2>1, RedirectType DEF reply
<1>2. CASE ~(at(r, "finish") /\ req[r].ar.type = "implicit")
  BY <1>2, AnswerType DEF reply
<1> QED
  BY <1>1, <1>2

\* goOn leads to the answer, or to a removal with the record at hand.
LEMMA GoOnType ==
    ASSUME TypeOK, NEW r \in Requests, NEW ret \in AccessData, NEW stage, goOn(r, stage, ret)
    PROVE  req' \in [Requests -> Slot] /\ delivered' \subseteq AccessTokens
<1>1. ret.accessToken \in AccessTokens
  BY DEF AccessData
<1>2. CASE stageAfter(stage, ret) = "reply"
  BY <1>1, <1>2, ReplyType DEF goOn, TypeOK, ServerTypeOK
<1>3. CASE stageAfter(stage, ret) # "reply"
  <2>1. stageAfter(stage, ret) \in {"rmAuthorize", "rmRefresh", "rmAccess"}
    BY <1>3 DEF stageAfter
  <2>2. [pc |-> stageAfter(stage, ret), ret |-> ret] \in Slot
    BY <2>1 DEF Slot
  <2> QED
    BY <1>3, <2>2, GotoType DEF goOn, TypeOK, ServerTypeOK
<1> QED
  BY <1>2, <1>3

LEMMA SaveType ==
    ASSUME TypeOK, NEW r \in Requests, NEW ret \in AccessData, Save(r, ret),
           UNCHANGED <<config, now, restarts>>
    PROVE  TypeOK'
<1>1. StoreTypeOK'
  BY SaveAccessType, StoreStutter DEF Save, TypeOK
<1>2. req' \in [Requests -> Slot] /\ delivered' \subseteq AccessTokens
  <2>1. CASE goOn(r, "save", ret)
    BY <2>1, GoOnType
  <2>2. CASE reply(r, "server_error") /\ UNCHANGED delivered
    BY <2>2, ReplyType DEF Errors, TypeOK, ServerTypeOK
  <2> QED
    BY <2>1, <2>2 DEF Save
<1>3. faults' \in 0 .. MaxFaults
  BY FailType DEF Save, TypeOK, ServerTypeOK
<1> QED
  BY <1>1, <1>2, <1>3 DEF TypeOK, ServerTypeOK

LEMMA RefusedType ==
    ASSUME TypeOK, NEW r \in Requests, NEW error \in Errors, Refused(r, error),
           faults' \in 0 .. MaxFaults, UNCHANGED <<config, now, restarts>>
    PROVE  TypeOK'
<1>1. req' \in [Requests -> Slot]
  BY ReplyType DEF Refused
<1> QED
  BY <1>1, LocalStepType DEF Refused

LEMMA FinishAccessRequestType ==
    ASSUME TypeOK, NEW r \in Requests, FinishAccessRequest(r)
    PROVE  TypeOK'
<1> DEFINE ar == req[r].ar
<1>1. ar \in AccessRequest
  BY LocalsType DEF FinishAccessRequest
<1>2. UNCHANGED <<config, now, restarts>>
  BY DEF FinishAccessRequest
<1>3. UNCHANGED faults => faults' \in 0 .. MaxFaults
  BY DEF TypeOK, ServerTypeOK
<1>4. CASE issueError(ar) # Nil /\ Refused(r, issueError(ar)) /\ UNCHANGED faults
  <2>1. issueError(ar) \in Errors
    BY <1>4 DEF issueError, Errors
  <2> QED
    BY <1>2, <1>3, <1>4, <2>1, RefusedType
<1>5. CASE /\ Refused(r, "server_error")
           /\ fail("generate") \/ (produced(ar) = {} /\ UNCHANGED faults)
  <2>1. faults' \in 0 .. MaxFaults
    BY <1>3, <1>5, FailType
  <2> QED
    BY <1>2, <1>5, <2>1, RefusedType DEF Errors
<1>6. ASSUME NEW data \in produced(ar),
             IF unbound(withBinding(data, ar))
             THEN Refused(r, "server_error") /\ UNCHANGED faults
             ELSE Save(r, withBinding(data, ar))
      PROVE  TypeOK'
  <2>1. withBinding(data, ar) \in AccessData
    BY <1>1, ProducedType, WithBindingType
  <2>2. CASE unbound(withBinding(data, ar))
    BY <1>2, <1>3, <1>6, <2>2, RefusedType DEF Errors
  <2>3. CASE ~unbound(withBinding(data, ar))
    BY <1>2, <1>6, <2>1, <2>3, SaveType
  <2> QED
    BY <2>2, <2>3
<1> QED
  BY <1>4, <1>5, <1>6 DEF FinishAccessRequest

LEMMA RemoveSpentCodeType ==
    ASSUME TypeOK, NEW r \in Requests, RemoveSpentCode(r)
    PROVE  TypeOK'
<1>1. req[r].ret \in AccessData
  BY LocalsType DEF RemoveSpentCode
<1>2. StoreTypeOK'
  BY RemovalType, StoreStutter DEF RemoveSpentCode, TypeOK
<1>3. req' \in [Requests -> Slot] /\ delivered' \subseteq AccessTokens
  BY <1>1, GoOnType DEF RemoveSpentCode
<1>4. faults' \in 0 .. MaxFaults
  BY FailType DEF RemoveSpentCode, TypeOK, ServerTypeOK
<1> QED
  BY <1>2, <1>3, <1>4 DEF RemoveSpentCode, TypeOK, ServerTypeOK

LEMMA RemovePreviousRefreshType ==
    ASSUME TypeOK, NEW r \in Requests, RemovePreviousRefresh(r)
    PROVE  TypeOK'
<1>1. req[r].ret \in AccessData
  BY LocalsType DEF RemovePreviousRefresh
<1>2. StoreTypeOK'
  BY RemovalType, StoreStutter DEF RemovePreviousRefresh, TypeOK
<1>3. req' \in [Requests -> Slot] /\ delivered' \subseteq AccessTokens
  BY <1>1, GoOnType DEF RemovePreviousRefresh
<1>4. faults' \in 0 .. MaxFaults
  BY FailType DEF RemovePreviousRefresh, TypeOK, ServerTypeOK
<1> QED
  BY <1>2, <1>3, <1>4 DEF RemovePreviousRefresh, TypeOK, ServerTypeOK

LEMMA RemovePreviousAccessType ==
    ASSUME TypeOK, NEW r \in Requests, RemovePreviousAccess(r)
    PROVE  TypeOK'
<1>1. req[r].ret \in AccessData
  BY LocalsType DEF RemovePreviousAccess
<1>2. StoreTypeOK'
  BY RemovalType, StoreStutter DEF RemovePreviousAccess, TypeOK
<1>3. req' \in [Requests -> Slot] /\ delivered' \subseteq AccessTokens
  BY <1>1, GoOnType DEF RemovePreviousAccess
<1>4. faults' \in 0 .. MaxFaults
  BY FailType DEF RemovePreviousAccess, TypeOK, ServerTypeOK
<1> QED
  BY <1>2, <1>3, <1>4 DEF RemovePreviousAccess, TypeOK, ServerTypeOK

-----------------------------------------------------------------------------
(* Each action of the authorization endpoint keeps the types. *)

LEMMA AuthorizeErrorType ==
    ASSUME NEW http, NEW client
    PROVE  /\ authorizeError(http, client) \in Errors \cup {Nil}
           /\ redirectedError(http, client) \in Errors \cup {Nil}
BY DEF authorizeError, redirectedError, Errors

\* Past the first errors the client is known and its URI valid.
LEMMA RedirectUriOfType ==
    ASSUME NEW http, NEW client, authorizeError(http, client) = Nil
    PROVE  client # Nil /\ redirectUriOf(http, client) \in UriTexts
<1>1. client # Nil /\ validateRedirectUri(config, client, requestedUri(client, Unescape(http.redirectUri)))
  BY ServerAssumption DEF authorizeError, Errors
<1> QED
  BY <1>1, RealUriType DEF redirectUriOf

LEMMA AuthorizeRequestType ==
    ASSUME TypeOK, NEW http \in AuthorizationRequest, NEW client \in Registrations,
           redirectUriOf(http, client) \in UriTexts, redirectedError(http, client) = Nil
    PROVE  authorizeRequest(http, client) \in AuthorizeRequest
<1>1. http.responseType \in ResponseTypes
  <2>1. config.allowedAuthorizeTypes \subseteq ResponseTypes
    BY ConfigType DEF ServerConfig
  <2> QED
    BY <2>1, ServerAssumption DEF redirectedError, Errors
<1>2. /\ http.scope \in SUBSET Scopes /\ http.redirectUri \in UriTexts
      /\ http.codeChallenge \in Challenges \cup {Nil}
      /\ http.codeChallengeMethod \in ChallengeMethods
  BY DEF AuthorizationRequest
<1>3. challengeMethod(http) \in ChallengeMethods
  BY <1>2 DEF challengeMethod, ChallengeMethods
<1>4. Nil \in ChallengeMethods
  BY DEF ChallengeMethods
<1> QED
  BY <1>1, <1>2, <1>3, <1>4 DEF authorizeRequest, AuthorizeRequest

LEMMA HandleAuthorizeRequestType ==
    ASSUME TypeOK, NEW r \in Requests, NEW http \in AuthorizationRequests,
           HandleAuthorizeRequest(r, http)
    PROVE  TypeOK'
<1> DEFINE client == GetClient(http.clientId)
           error == authorizeError(http, client)
           redirected == redirectedError(http, client)
<1>1. http \in AuthorizationRequest
  BY AuthorizationRequestsAssumption
<1>2. faults' \in 0 .. MaxFaults
  BY FailType DEF HandleAuthorizeRequest, TypeOK, ServerTypeOK
<1>3. req' \in [Requests -> Slot]
  <2>1. CASE answer(r, "server_error")
    BY <2>1, AnswerType DEF Errors
  <2>2. CASE error # Nil /\ answer(r, error)
    BY <2>2, AuthorizeErrorType, AnswerType
  <2>3. CASE error = Nil /\ ~answer(r, "server_error")
    <3>1. client \in Registrations /\ redirectUriOf(http, client) \in UriTexts
      BY <2>3, RedirectUriOfType, GetClientType
    <3>2. CASE redirected # Nil
      <4>1. redirect(r, redirected, redirectUriOf(http, client), FALSE)
        BY <2>3, <3>2 DEF HandleAuthorizeRequest
      <4>2. redirected \in Errors
        BY <3>2, AuthorizeErrorType
      <4> QED
        BY <3>1, <4>1, <4>2, RedirectType
    <3>3. CASE redirected = Nil
      <4>1. authorizeRequest(http, client) \in AuthorizeRequest
        BY <1>1, <3>1, <3>3, AuthorizeRequestType
      <4>2. [pc |-> "login", ar |-> authorizeRequest(http, client)] \in Slot
        BY <4>1 DEF Slot
      <4> QED
        BY <2>3, <3>3, <4>2, GotoType DEF HandleAuthorizeRequest
    <3> QED
      BY <3>2, <3>3
  <2> QED
    BY <2>1, <2>2, <2>3 DEF HandleAuthorizeRequest
<1> QED
  BY <1>2, <1>3, LocalStepType DEF HandleAuthorizeRequest

LEMMA RedirectBackType ==
    ASSUME TypeOK, NEW r \in Requests, at(r, "login"), NEW out \in Errors \cup {"none", "ok"},
           redirectBack(r, out)
    PROVE  req' \in [Requests -> Slot]
<1>1. req[r].ar.redirectUri \in UriTexts
  BY LocalsType DEF AuthorizeRequest
<1> QED
  BY <1>1, RedirectType DEF redirectBack

LEMMA DenyType ==
    ASSUME TypeOK, NEW r \in Requests, Deny(r)
    PROVE  TypeOK'
<1>1. req' \in [Requests -> Slot]
  BY RedirectBackType DEF Deny, Errors
<1>2. faults' \in 0 .. MaxFaults
  BY DEF Deny, TypeOK, ServerTypeOK
<1> QED
  BY <1>1, <1>2, LocalStepType DEF Deny

LEMMA GrantTokenType ==
    ASSUME TypeOK, NEW r \in Requests, GrantToken(r)
    PROVE  TypeOK'
<1>1. req[r].ar \in AuthorizeRequest
  BY LocalsType DEF GrantToken
<1>2. implicitRequest(req[r].ar) \in AccessRequest
  BY <1>1 DEF implicitRequest, AuthorizeRequest, AccessRequest
<1>3. [pc |-> "finish", ar |-> implicitRequest(req[r].ar)] \in Slot
  BY <1>2 DEF Slot
<1>4. req' \in [Requests -> Slot]
  BY <1>3, GotoType DEF GrantToken
<1>5. faults' \in 0 .. MaxFaults
  BY DEF GrantToken, TypeOK, ServerTypeOK
<1> QED
  BY <1>4, <1>5, LocalStepType DEF GrantToken

LEMMA NewAuthorizeDataType ==
    ASSUME TypeOK, NEW ar \in AuthorizeRequest, NEW code \in Codes
    PROVE  newAuthorizeData(ar, code) \in AuthorizeData
BY ConfigType DEF newAuthorizeData, AuthorizeRequest, AuthorizeData

LEMMA GrantCodeType ==
    ASSUME TypeOK, NEW r \in Requests, GrantCode(r)
    PROVE  TypeOK'
<1>1. req[r].ar \in AuthorizeRequest
  BY LocalsType DEF GrantCode
<1>2. \A code \in unusedCodes : newAuthorizeData(req[r].ar, code) \in AuthorizeData
  BY <1>1, NewAuthorizeDataType DEF unusedCodes
<1>3. StoreTypeOK'
  BY <1>2, SaveAuthorizeType, StoreStutter DEF GrantCode, TypeOK
<1>4. req' \in [Requests -> Slot]
  BY RedirectBackType DEF GrantCode, Errors
<1>5. faults' \in 0 .. MaxFaults
  BY FailType DEF GrantCode, TypeOK, ServerTypeOK
<1> QED
  BY <1>3, <1>4, <1>5 DEF GrantCode, TypeOK, ServerTypeOK

-----------------------------------------------------------------------------
(* Each action of the info endpoint keeps the types. *)

LEMMA InfoErrorType ==
    ASSUME NEW data
    PROVE  infoError(data) \in Errors \cup {Nil}
BY DEF infoError, Errors

LEMMA HandleInfoRequestType ==
    ASSUME TypeOK, NEW r \in Requests, NEW http \in InfoRequests, HandleInfoRequest(r, http)
    PROVE  TypeOK'
<1> DEFINE data == LoadAccess(CheckBearerAuth(http))
<1>1. faults' \in 0 .. MaxFaults
  BY FailType DEF HandleInfoRequest, TypeOK, ServerTypeOK
<1>2. req' \in [Requests -> Slot]
  <2>1. CASE answer(r, "invalid_request")
    BY <2>1, AnswerType DEF Errors
  <2>2. CASE infoError(data) # Nil /\ answer(r, infoError(data))
    BY <2>2, InfoErrorType, AnswerType
  <2>3. CASE /\ asksForToken(http) /\ infoError(data) = Nil
             /\ goto(r, [pc |-> "info", data |-> data])
    <3>1. CheckBearerAuth(http) \in AccessTokens
      BY <2>3, InfoRequestsAssumption DEF asksForToken, CheckBearerAuth, InfoRequest
    <3>2. data # Nil
      BY <2>3, ServerAssumption DEF infoError, Errors
    <3>3. data \in AccessData
      BY <3>1, <3>2 DEF LoadAccess, TypeOK, StoreTypeOK
    <3>4. [pc |-> "info", data |-> data] \in Slot
      BY <3>3 DEF Slot
    <3> QED
      BY <2>3, <3>4, GotoType
  <2> QED
    BY <2>1, <2>2, <2>3 DEF HandleInfoRequest
<1> QED
  BY <1>1, <1>2, LocalStepType DEF HandleInfoRequest

\* Division by Second brings a duration no further from zero.
LEMMA QuotientType ==
    ASSUME NEW n \in Nat
    PROVE  n \div Second \in 0 .. n
BY ServerAssumption

LEMMA RemainingType ==
    ASSUME TypeOK, NEW data \in AccessData
    PROVE  remaining(data) \in Lifetimes
<1> DEFINE d == data.expireAt - now
<1>1. now \in 0 .. MaxTime /\ data.expireAt \in 0 .. MaxTime + MaxLife
  BY DEF AccessData, TypeOK, ServerTypeOK
<1>2. MaxTime \in Nat /\ MaxLife \in Nat
  BY GrantsAssumption
<1>3. d \in Int /\ -MaxTime <= d /\ d <= MaxTime + MaxLife
  BY <1>1, <1>2
<1>4. wholeSeconds(d) \in -MaxTime .. MaxTime + MaxLife
  <2>1. CASE d < 0
    <3>1. -d \in Nat
      BY <1>3, <2>1
    <3>2. (-d) \div Second \in 0 .. -d
      BY <3>1, QuotientType
    <3> HIDE DEF d
    <3> QED
      BY <1>2, <1>3, <2>1, <3>2 DEF wholeSeconds
  <2>2. CASE d >= 0
    <3>1. d \in Nat
      BY <1>3, <2>2
    <3>2. d \div Second \in 0 .. d
      BY <3>1, QuotientType
    <3> HIDE DEF d
    <3> QED
      BY <1>2, <1>3, <2>2, <3>2 DEF wholeSeconds
  <2> QED
    BY <1>3, <2>1, <2>2
<1> QED
  BY <1>4 DEF remaining, Lifetimes

LEMMA FinishInfoRequestType ==
    ASSUME TypeOK, NEW r \in Requests, FinishInfoRequest(r)
    PROVE  TypeOK'
<1> DEFINE data == req[r].data
           report == [pc |-> "idle", out |-> "report", url |-> Nil, fragment |-> FALSE,
                      token |-> data.accessToken, expiresIn |-> remaining(data)]
<1>1. data \in AccessData
  BY LocalsType DEF FinishInfoRequest
<1>2. data.accessToken \in AccessTokens /\ remaining(data) \in Lifetimes
  BY <1>1, RemainingType DEF AccessData
<1>3. report \in Slot
  BY <1>2 DEF Report, Slot
<1>4. req' \in [Requests -> Slot]
  BY <1>3, GotoType DEF FinishInfoRequest
<1>5. faults' \in 0 .. MaxFaults
  BY DEF FinishInfoRequest, TypeOK, ServerTypeOK
<1> QED
  BY <1>4, <1>5, LocalStepType DEF FinishInfoRequest

-----------------------------------------------------------------------------
(* The steps around the handlers. *)

LEMMA RegisterType ==
    ASSUME TypeOK, NEW client \in Registrations, Register(client)
    PROVE  TypeOK'
<1>1. StoreTypeOK'
  BY DEF Register, SetClient, TypeOK, StoreTypeOK
<1> QED
  BY <1>1 DEF Register, TypeOK, ServerTypeOK, serverVars

LEMMA TickType ==
    ASSUME TypeOK, Tick
    PROVE  TypeOK'
<1>1. StoreTypeOK'
  BY StoreStutter DEF Tick, TypeOK
<1>2. now' \in 0 .. MaxTime
  BY GrantsAssumption DEF Tick, TypeOK, ServerTypeOK
<1> QED
  BY <1>1, <1>2 DEF Tick, TypeOK, ServerTypeOK

LEMMA RestartType ==
    ASSUME TypeOK, Restart
    PROVE  TypeOK'
<1>1. StoreTypeOK'
  BY StoreStutter DEF Restart, TypeOK
<1>2. restarts' \in 0 .. MaxRestarts
  BY ServerAssumption DEF Restart, TypeOK, ServerTypeOK
<1>3. req' \in [Requests -> Slot]
  BY NoResponseType DEF Restart
<1> QED
  BY <1>1, <1>2, <1>3 DEF Restart, TypeOK, ServerTypeOK

LEMMA InitType ==
    ASSUME Init
    PROVE  TypeOK
<1>1. StoreTypeOK
  BY DEF Init, StoreInit, StoreTypeOK
<1>2. ServerTypeOK
  BY NoResponseType, GrantsAssumption, ServerAssumption DEF Init, ServerInit, ServerTypeOK
<1> QED
  BY <1>1, <1>2 DEF TypeOK

LEMMA NextType ==
    ASSUME TypeOK, [Next]_vars
    PROVE  TypeOK'
<1>1. ASSUME NEW r \in Requests, TokenStep(r)
      PROVE  TypeOK'
  BY <1>1, HandleAccessRequestType, AuthenticateClientType, LoadCodeType, LoadTokenType,
     DecideType, FinishAccessRequestType, RemoveSpentCodeType, RemovePreviousRefreshType,
     RemovePreviousAccessType DEF TokenStep
<1>2. ASSUME NEW r \in Requests, AuthorizeStep(r)
      PROVE  TypeOK'
  BY <1>2, HandleAuthorizeRequestType, DenyType, GrantTokenType, GrantCodeType DEF AuthorizeStep
<1>3. ASSUME NEW r \in Requests, InfoStep(r)
      PROVE  TypeOK'
  BY <1>3, HandleInfoRequestType, FinishInfoRequestType DEF InfoStep
<1>4. CASE UNCHANGED vars
  <2>1. StoreTypeOK'
    BY <1>4, StoreStutter DEF vars, TypeOK
  <2> QED
    BY <1>4, <2>1 DEF vars, serverVars, TypeOK, ServerTypeOK
<1> QED
  BY <1>1, <1>2, <1>3, <1>4, RegisterType, TickType, RestartType DEF Next

\* Type correctness: the maps of the storage and the locals of every request
\* keep their types, for every set of clients, requests and configurations.
THEOREM TypeCorrect == Spec => []TypeOK
<1>1. Init => TypeOK
  BY InitType
<1>2. TypeOK /\ [Next]_vars => TypeOK'
  BY NextType
<1> QED
  BY <1>1, <1>2, PTL DEF Spec

=============================================================================
