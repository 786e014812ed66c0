------------------------------ MODULE StepProofs ------------------------------
(***************************************************************************)
(* What a step of the server amounts to.  However a handler comes to its   *)
(* answer, all that a property about grants sees of a step of a request is *)
(* one of eight kinds; the proofs in the modules above this one go by      *)
(* these kinds and not by the actions.                                     *)
(***************************************************************************)
EXTENDS AuthServerProofs

removing(r) == req[r].pc \in {"rmAuthorize", "rmRefresh", "rmAccess"}

holding(r) == req[r].pc \in {"decide", "finish"}

\* The request goes on, or is answered, without a grant in its hands.
quiet(r) ==
    /\ ~removing(r)
    /\ \E s \in Slot :
          /\ goto(r, s)
          /\ \/ s.pc \in {"idle", "load"}
             \/ s.pc = "client" /\ \E http \in TokenRequests : HandleAccessRequest(r, http)
             \/ s.pc = "login" /\ \E http \in AuthorizationRequests : HandleAuthorizeRequest(r, http)
             \/ s.pc = "info" /\ \E http \in InfoRequests : HandleInfoRequest(r, http)
    /\ UNCHANGED <<storeVars, delivered>>

\* It asks for a token that comes from no stored record.
asks(r) ==
    /\ ~removing(r) /\ ~holding(r)
    /\ \E pc \in {"decide", "finish"}, ar \in AccessRequest :
          /\ goto(r, [pc |-> pc, ar |-> ar])
          /\ ar.authorizeData = Nil /\ ar.accessData = Nil /\ ar.forceAccessData = Nil
    /\ UNCHANGED <<storeVars, delivered>>

\* It holds the code it has loaded.
loadsCode(r) ==
    /\ at(r, "load")
    /\ req[r].http \in GrantRequest /\ req[r].http.code \in Codes
    /\ LET data == authorize[req[r].http.code]
           ar == codeRequest(data, req[r].http, req[r].client)
       IN  /\ data \in AuthorizeData /\ ar \in AccessRequest
           /\ codeError(data, req[r].http, req[r].client) = Nil
           /\ goto(r, [pc |-> "decide", ar |-> ar])
    /\ UNCHANGED <<storeVars, delivered>>

\* It holds the token it has loaded.
loadsToken(r) ==
    /\ at(r, "load")
    /\ req[r].http \in GrantRequest /\ req[r].http.refreshToken \in RefreshTokens
    /\ refresh[req[r].http.refreshToken] \in AccessTokens
    /\ LET data == access[refresh[req[r].http.refreshToken]]
           ar == refreshRequest(data, req[r].http, req[r].client)
       IN  /\ data \in AccessData /\ ar \in AccessRequest
           /\ refreshError(data, req[r].http, req[r].client) = Nil
           /\ goto(r, [pc |-> "decide", ar |-> ar])
    /\ UNCHANGED <<storeVars, delivered>>

\* The application lets it finish, and may hand it a stored record.
decided(ar, authorized, force) ==
    [ar EXCEPT !.authorized = authorized, !.forceAccessData = force]

decides(r) ==
    /\ at(r, "decide")
    /\ \E authorized \in BOOLEAN, force \in {Nil} \cup reusable(req[r].ar) :
          LET ar == decided(req[r].ar, authorized, force)
          IN  /\ goto(r, [pc |-> "finish", ar |-> ar])
              /\ ar \in AccessRequest
              /\ ar.authorizeData = req[r].ar.authorizeData
              /\ ar.accessData = req[r].ar.accessData
              /\ ar.client = req[r].ar.client /\ ar.scope = req[r].ar.scope
              /\ ar.codeVerifier = req[r].ar.codeVerifier
              /\ ar.forceAccessData = force
    /\ UNCHANGED <<storeVars, delivered>>

\* It saves a new code and is answered.
offersCode(r) ==
    /\ at(r, "login") /\ req[r].ar \in AuthorizeRequest /\ req[r].ar.type = "code"
    /\ \E code \in unusedCodes :
          /\ SaveAuthorize(newAuthorizeData(req[r].ar, code))
          /\ newAuthorizeData(req[r].ar, code) \in AuthorizeData
    /\ \E s \in Slot : goto(r, s) /\ s.pc = "idle" /\ s.url = req[r].ar.redirectUri
    /\ UNCHANGED delivered

\* It goes on to the next removal, or to the answer after the last one.
continues(r, stage, ret) ==
    \E s \in Slot :
        /\ goto(r, s)
        /\ \/ /\ stageAfter(stage, ret) = "reply" /\ s.pc = "idle"
              /\ delivered' = delivered \cup {ret.accessToken}
           \/ /\ stageAfter(stage, ret) # "reply"
              /\ s = [pc |-> stageAfter(stage, ret), ret |-> ret]
              /\ UNCHANGED delivered

\* It saves a token, and does not go on if the save reports an error.
saves(r) ==
    /\ at(r, "finish") /\ req[r].ar \in AccessRequest
    /\ \E data \in produced(req[r].ar) :
          LET ret == withBinding(data, req[r].ar)
          IN  /\ data \in AccessData /\ ret \in AccessData /\ ~unbound(ret)
              /\ SaveAccess(ret)
              /\ \/ continues(r, "save", ret)
                 \/ /\ \E s \in Slot : goto(r, s) /\ s.pc = "idle"
                    /\ UNCHANGED delivered
                    /\ faults' = faults + 1

\* It withdraws what it has replaced, unless the removal fails.
removes(r) ==
    /\ removing(r) /\ req[r].ret \in AccessData
    /\ \/ at(r, "rmAuthorize") /\ RemoveAuthorize(req[r].ret.authorizeData)
       \/ at(r, "rmRefresh") /\ RemoveRefresh(req[r].ret.accessData.refreshToken)
       \/ at(r, "rmAccess") /\ RemoveAccess(req[r].ret.accessData.accessToken)
       \/ UNCHANGED storeVars /\ fail("remove")
    /\ continues(r, req[r].pc, req[r].ret)

stepOf(r) ==
    /\ quiet(r) \/ asks(r) \/ loadsCode(r) \/ loadsToken(r)
          \/ decides(r) \/ offersCode(r) \/ saves(r) \/ removes(r)
    /\ UNCHANGED <<clients, config, now, restarts>>
    /\ faults' \in {faults, faults + 1}

-----------------------------------------------------------------------------
\* What answers a request leaves it idle.
LEMMA RedirectGoes ==
    ASSUME TypeOK, NEW r \in Requests, NEW out \in Errors \cup {"none", "ok"},
           NEW url \in UriTexts, NEW fragment \in BOOLEAN, redirect(r, out, url, fragment)
    PROVE  \E s \in Slot : goto(r, s) /\ s.pc = "idle" /\ s.url = url
<1> DEFINE s == [pc |-> "idle", out |-> out, url |-> url, fragment |-> fragment]
<1>1. s \in Slot
  BY ResponseType
<1>2. goto(r, s) /\ s.pc = "idle" /\ s.url = url
  BY DEF redirect
<1> QED
  BY <1>1, <1>2

LEMMA AnswerGoes ==
    ASSUME TypeOK, NEW r \in Requests, NEW out \in Errors \cup {"none", "ok"}, answer(r, out)
    PROVE  \E s \in Slot : goto(r, s) /\ s.pc = "idle"
BY RedirectGoes DEF answer, UriTexts

LEMMA ReplyGoes ==
    ASSUME TypeOK, NEW r \in Requests, NEW out \in Errors \cup {"none", "ok"}, reply(r, out)
    PROVE  \E s \in Slot : goto(r, s) /\ s.pc = "idle"
<1>1. CASE at(r, "finish") /\ req[r].ar.type = "implicit"
  <2>1. req[r].ar.redirectUri \in UriTexts
    BY <1>1, LocalsType DEF AccessRequest
  <2> QED
    BY <1>1, <2>1, RedirectGoes DEF reply
<1>2. CASE ~(at(r, "finish") /\ req[r].ar.type = "implicit")
  BY <1>2, AnswerGoes DEF reply
<1> QED
  BY <1>1, <1>2

LEMMA GoOnContinues ==
    ASSUME TypeOK, NEW r \in Requests, NEW ret \in AccessData, NEW stage, goOn(r, stage, ret)
    PROVE  continues(r, stage, ret)
<1> DEFINE next == stageAfter(stage, ret)
<1>1. CASE next = "reply"
  BY <1>1, ReplyGoes DEF goOn, continues
<1>2. CASE next # "reply"
  <2>1. [pc |-> next, ret |-> ret] \in Slot
    BY <1>2 DEF stageAfter, Slot
  <2> QED
    BY <1>2, <2>1 DEF goOn, continues
<1> QED
  BY <1>1, <1>2

\* After a step of request r the others are where they were.
LEMMA GotoSlots ==
    ASSUME TypeOK, NEW r \in Requests, NEW s, goto(r, s)
    PROVE  \A q \in Requests : req'[q] = IF q = r THEN s ELSE req[q]
BY DEF TypeOK, ServerTypeOK, goto

LEMMA FailCounts ==
    ASSUME TypeOK, NEW kind, fail(kind)
    PROVE  faults' = faults + 1
BY DEF fail

-----------------------------------------------------------------------------
(* The kind of each action. *)

LEMMA HandleAccessRequestKind ==
    ASSUME TypeOK, NEW r \in Requests, NEW http \in TokenRequests, HandleAccessRequest(r, http)
    PROVE  stepOf(r)
<1>1. http \in TokenRequest
  BY TokenRequestsAssumption
<1>2. PICK found : Receive(r, http, found)
  BY DEF HandleAccessRequest
<1>3. req' \in [Requests -> Slot]
  BY <1>1, <1>2, ReceiveType
<1> DEFINE auth == getClientAuth(config, http.auth, found)
           error == requestError(http, auth)
           slot == [pc |-> "client", http |-> http, auth |-> auth]
<1>4. \E s \in Slot : goto(r, s) /\ s.pc \in {"idle", "client"}
  <2>1. CASE error # Nil
    <3>1. error \in Errors /\ answer(r, error)
      BY <1>2, <2>1 DEF Receive, requestError, Errors
    <3> QED
      BY <3>1, AnswerGoes
  <2>2. CASE error = Nil
    <3>1. goto(r, slot)
      BY <1>2, <2>2 DEF Receive
    <3>2. req'[r] = slot
      BY <3>1, GotoSlots
    <3>3. slot \in Slot
      BY <1>3, <3>2
    <3> QED
      BY <3>1, <3>3
  <2> QED
    BY <2>1, <2>2
<1>5. UNCHANGED <<storeVars, config, now, restarts, delivered>>
  BY <1>2 DEF Receive
<1>6. faults' \in {faults, faults + 1}
  BY FailCounts DEF HandleAccessRequest
<1> QED
  BY <1>4, <1>5, <1>6 DEF stepOf, quiet, removing, HandleAccessRequest, at, storeVars

\* A step that leaves all but its request and the count of failures alone.
LEMMA LocalFrame ==
    ASSUME UNCHANGED <<storeVars, config, now, restarts, delivered>>,
           faults' \in {faults, faults + 1}
    PROVE  /\ UNCHANGED <<clients, config, now, restarts>> /\ UNCHANGED <<storeVars, delivered>>
           /\ faults' \in {faults, faults + 1}
BY DEF storeVars

LEMMA AuthenticateClientKind ==
    ASSUME TypeOK, NEW r \in Requests, AuthenticateClient(r)
    PROVE  stepOf(r)
<1> DEFINE http == req[r].http
           client == GetClient(req[r].auth.username)
           error == getClientError(config, req[r].auth, client)
           ar == directRequest(http, client)
<1>1. UNCHANGED <<storeVars, config, now, restarts, delivered>>
  BY DEF AuthenticateClient
<1>2. faults' \in {faults, faults + 1}
  BY FailCounts DEF AuthenticateClient
<1>3. ~removing(r) /\ ~holding(r)
  BY DEF AuthenticateClient, at, removing, holding
<1>4. req' \in [Requests -> Slot]
  BY AuthenticateClientType DEF TypeOK, ServerTypeOK
<1>5. quiet(r) \/ asks(r)
  <2>1. CASE answer(r, "server_error")
    BY <1>1, <1>3, <2>1, AnswerGoes DEF Errors, quiet
  <2>2. CASE error # Nil /\ answer(r, error)
    <3>1. error \in Errors
      BY <2>2 DEF getClientError, Errors
    <3> QED
      BY <1>1, <1>3, <2>2, <3>1, AnswerGoes DEF quiet
  <2>3. CASE goto(r, [pc |-> "load", http |-> http, client |-> client])
    <3>1. [pc |-> "load", http |-> http, client |-> client] \in Slot
      BY <1>4, <2>3, GotoSlots
    <3> QED
      BY <1>1, <1>3, <2>3, <3>1 DEF quiet
  <2>4. CASE error = Nil /\ goto(r, [pc |-> "decide", ar |-> ar])
    <3>1. client # Nil /\ clientHasRedirectUri(client)
      BY <2>4, ServerAssumption DEF getClientError, Errors
    <3>2. client \in Registrations /\ http \in GrantRequest
      BY <3>1, GetClientType, LocalsType DEF AuthenticateClient
    <3>3. ar \in AccessRequest
      BY <3>1, <3>2, DirectRequestType
    <3>4. ar.authorizeData = Nil /\ ar.accessData = Nil /\ ar.forceAccessData = Nil
      BY DEF directRequest
    <3> QED
      BY <1>1, <1>3, <2>4, <3>3, <3>4 DEF asks
  <2> QED
    BY <2>1, <2>2, <2>3, <2>4 DEF AuthenticateClient
<1> QED
  BY <1>1, <1>2, <1>5, LocalFrame DEF stepOf

LEMMA LoadCodeKind ==
    ASSUME TypeOK, NEW r \in Requests, LoadCode(r)
    PROVE  stepOf(r)
<1> DEFINE http == req[r].http
           data == LoadAuthorize(http.code)
           error == codeError(data, http, req[r].client)
           ar == codeRequest(data, http, req[r].client)
<1>1. UNCHANGED <<storeVars, config, now, restarts, delivered>>
  BY DEF LoadCode
<1>2. faults' \in {faults, faults + 1}
  BY FailCounts DEF LoadCode
<1>3. quiet(r) \/ loadsCode(r)
  <2>1. ~removing(r)
    BY DEF LoadCode, at, removing
  <2>2. CASE answer(r, "invalid_grant") \/ (error # Nil /\ answer(r, error))
    <3>1. PICK out \in Errors : answer(r, out)
      BY <2>2, CodeErrorType DEF Errors
    <3> QED
      BY <1>1, <2>1, <3>1, AnswerGoes DEF quiet
  <2>3. CASE error = Nil /\ goto(r, [pc |-> "decide", ar |-> ar])
    <3>1. http \in GrantRequest /\ req[r].client \in Registrations
      BY LocalsType DEF LoadCode
    <3>2. http.code \in Codes
      BY <3>1 DEF LoadCode, GrantRequest, TokenRequest, hasGrant
    <3>3. data # Nil
      BY <2>3, ServerAssumption DEF codeError, missingError, Errors
    <3>4. data \in AuthorizeData
      BY <3>2, <3>3 DEF TypeOK, StoreTypeOK, LoadAuthorize
    <3>5. ar \in AccessRequest
      BY <3>1, <3>4, CodeRequestType
    <3> QED
      BY <1>1, <2>3, <3>1, <3>2, <3>4, <3>5 DEF loadsCode, LoadAuthorize, LoadCode
  <2> QED
    BY <2>2, <2>3 DEF LoadCode
<1> QED
  BY <1>1, <1>2, <1>3, LocalFrame DEF stepOf

LEMMA LoadTokenKind ==
    ASSUME TypeOK, NEW r \in Requests, LoadToken(r)
    PROVE  stepOf(r)
<1> DEFINE http == req[r].http
           data == LoadRefresh(http.refreshToken)
           error == refreshError(data, http, req[r].client)
           ar == refreshRequest(data, http, req[r].client)
<1>1. UNCHANGED <<storeVars, config, now, restarts, delivered>>
  BY DEF LoadToken
<1>2. faults' \in {faults, faults + 1}
  BY FailCounts DEF LoadToken
<1>3. quiet(r) \/ loadsToken(r)
  <2>1. ~removing(r)
    BY DEF LoadToken, at, removing
  <2>2. CASE answer(r, "invalid_grant") \/ (error # Nil /\ answer(r, error))
    <3>1. PICK out \in Errors : answer(r, out)
      BY <2>2, RefreshErrorType DEF Errors
    <3> QED
      BY <1>1, <2>1, <3>1, AnswerGoes DEF quiet
  <2>3. CASE error = Nil /\ goto(r, [pc |-> "decide", ar |-> ar])
    <3>1. http \in GrantRequest /\ req[r].client \in Registrations
      BY LocalsType DEF LoadToken
    <3>2. http.refreshToken \in RefreshTokens
      BY <3>1 DEF LoadToken, GrantRequest, TokenRequest, hasGrant
    <3>3. data # Nil
      BY <2>3, ServerAssumption DEF refreshError, missingError, Errors
    <3>4. data \in AccessData
      BY <3>2, <3>3, LoadRefreshType
    <3>5. /\ refresh[http.refreshToken] \in AccessTokens
          /\ data = access[refresh[http.refreshToken]]
      BY <3>2, <3>3 DEF TypeOK, StoreTypeOK, LoadRefresh, LoadAccess
    <3>6. ar \in AccessRequest
      BY <3>1, <3>4, RefreshRequestType
    <3> QED
      BY <1>1, <2>3, <3>1, <3>2, <3>4, <3>5, <3>6 DEF loadsToken, LoadToken
  <2> QED
    BY <2>2, <2>3 DEF LoadToken
<1> QED
  BY <1>1, <1>2, <1>3, LocalFrame DEF stepOf

LEMMA DecideKind ==
    ASSUME TypeOK, NEW r \in Requests, Decide(r)
    PROVE  stepOf(r)
<1>1. req[r].ar \in AccessRequest
  BY LocalsType DEF Decide
<1>2. PICK authorized \in BOOLEAN, force \in {Nil} \cup reusable(req[r].ar) :
         goto(r, [pc |-> "finish", ar |-> decided(req[r].ar, authorized, force)])
  BY DEF Decide, decided
<1>3. force \in AccessData \cup {Nil}
  BY <1>2 DEF TypeOK, StoreTypeOK, reusable
<1> DEFINE ar == decided(req[r].ar, authorized, force)
<1>4. /\ ar \in AccessRequest
      /\ ar.authorizeData = req[r].ar.authorizeData
      /\ ar.accessData = req[r].ar.accessData
      /\ ar.client = req[r].ar.client /\ ar.scope = req[r].ar.scope
      /\ ar.codeVerifier = req[r].ar.codeVerifier
      /\ ar.forceAccessData = force
  BY <1>1, <1>3 DEF decided, AccessRequest
<1>5. UNCHANGED <<storeVars, config, now, restarts, delivered>> /\ faults' = faults
  BY DEF Decide
<1>6. decides(r)
  BY <1>2, <1>4, <1>5 DEF decides, Decide
<1> QED
  BY <1>5, <1>6, LocalFrame DEF stepOf

LEMMA FinishAccessRequestKind ==
    ASSUME TypeOK, NEW r \in Requests, FinishAccessRequest(r)
    PROVE  stepOf(r)
<1> DEFINE ar == req[r].ar
<1>1. ar \in AccessRequest /\ ~removing(r) /\ at(r, "finish")
  BY LocalsType DEF FinishAccessRequest, at, removing
<1>2. UNCHANGED <<config, now, restarts>>
  BY DEF FinishAccessRequest
<1>3. ASSUME NEW error \in Errors, Refused(r, error), faults' \in {faults, faults + 1}
      PROVE  stepOf(r)
  <2>1. quiet(r)
    BY <1>1, <1>3, ReplyGoes DEF quiet, Refused
  <2> QED
    BY <1>2, <1>3, <2>1, LocalFrame DEF stepOf, Refused
<1>4. ASSUME NEW data \in produced(ar), ~unbound(withBinding(data, ar)),
             Save(r, withBinding(data, ar))
      PROVE  stepOf(r)
  <2> DEFINE ret == withBinding(data, ar)
  <2>1. data \in AccessData /\ ret \in AccessData
    BY <1>1, ProducedType, WithBindingType
  <2>2. CASE SaveAccess(ret) /\ goOn(r, "save", ret) /\ UNCHANGED faults
    <3>1. saves(r)
      BY <1>1, <1>4, <2>1, <2>2, GoOnContinues DEF saves
    <3> QED
      BY <1>2, <2>2, <3>1 DEF stepOf, SaveAccess
  <2>3. CASE fail("save") /\ SaveAccess(ret) /\ reply(r, "server_error") /\ UNCHANGED delivered
    <3>1. saves(r)
      BY <1>1, <1>4, <2>1, <2>3, ReplyGoes, FailCounts DEF saves, Errors
    <3> QED
      BY <1>2, <2>3, <3>1, FailCounts DEF stepOf, SaveAccess
  <2>4. CASE fail("save") /\ UNCHANGED storeVars /\ reply(r, "server_error") /\ UNCHANGED delivered
    <3>1. quiet(r)
      BY <1>1, <2>4, ReplyGoes DEF quiet, Errors
    <3> QED
      BY <1>2, <2>4, <3>1, FailCounts, LocalFrame DEF stepOf
  <2> QED
    BY <1>4, <2>2, <2>3, <2>4 DEF Save
<1>5. CASE issueError(ar) # Nil /\ Refused(r, issueError(ar)) /\ UNCHANGED faults
  <2>1. issueError(ar) \in Errors
    BY <1>5 DEF issueError, Errors
  <2> QED
    BY <1>3, <1>5, <2>1
<1>6. CASE Refused(r, "server_error") /\ faults' \in {faults, faults + 1}
  BY <1>3, <1>6 DEF Errors
<1> QED
  BY <1>4, <1>5, <1>6, FailCounts DEF FinishAccessRequest

LEMMA RemovalKind ==
    ASSUME TypeOK, NEW r \in Requests,
           RemoveSpentCode(r) \/ RemovePreviousRefresh(r) \/ RemovePreviousAccess(r)
    PROVE  stepOf(r)
<1>1. removing(r) /\ req[r].ret \in AccessData
  BY LocalsType DEF RemoveSpentCode, RemovePreviousRefresh, RemovePreviousAccess, at, removing
<1>2. continues(r, req[r].pc, req[r].ret)
  BY <1>1, GoOnContinues DEF RemoveSpentCode, RemovePreviousRefresh, RemovePreviousAccess, at
<1>3. removes(r)
  BY <1>1, <1>2 DEF removes, RemoveSpentCode, RemovePreviousRefresh, RemovePreviousAccess
<1>4. faults' \in {faults, faults + 1} /\ UNCHANGED <<config, now, restarts>>
  BY FailCounts DEF RemoveSpentCode, RemovePreviousRefresh, RemovePreviousAccess
<1>5. UNCHANGED clients
  BY DEF RemoveSpentCode, RemovePreviousRefresh, RemovePreviousAccess, RemoveAuthorize,
         RemoveRefresh, RemoveAccess, storeVars
<1> QED
  BY <1>3, <1>4, <1>5 DEF stepOf

LEMMA HandleAuthorizeRequestKind ==
    ASSUME TypeOK, NEW r \in Requests, NEW http \in AuthorizationRequests,
           HandleAuthorizeRequest(r, http)
    PROVE  stepOf(r)
<1> DEFINE client == GetClient(http.clientId)
           error == authorizeError(http, client)
           redirected == redirectedError(http, client)
           slot == [pc |-> "login", ar |-> authorizeRequest(http, client)]
<1>1. UNCHANGED <<storeVars, config, now, restarts, delivered>>
  BY DEF HandleAuthorizeRequest
<1>2. faults' \in {faults, faults + 1}
  BY FailCounts DEF HandleAuthorizeRequest
<1>3. req' \in [Requests -> Slot]
  BY HandleAuthorizeRequestType DEF TypeOK, ServerTypeOK
<1>4. \E s \in Slot : goto(r, s) /\ s.pc \in {"idle", "login"}
  <2>1. CASE answer(r, "server_error") \/ (error # Nil /\ answer(r, error))
    <3>1. PICK out \in Errors : answer(r, out)
      BY <2>1, AuthorizeErrorType DEF Errors
    <3> QED
      BY <3>1, AnswerGoes
  <2>2. CASE error = Nil /\ redirected # Nil
               /\ redirect(r, redirected, redirectUriOf(http, client), FALSE)
    <3>1. redirected \in Errors /\ redirectUriOf(http, client) \in UriTexts
      BY <2>2, AuthorizeErrorType, RedirectUriOfType
    <3> QED
      BY <2>2, <3>1, RedirectGoes
  <2>3. CASE goto(r, slot)
    <3>1. slot \in Slot
      BY <1>3, <2>3, GotoSlots
    <3> QED
      BY <2>3, <3>1
  <2> QED
    BY <2>1, <2>2, <2>3 DEF HandleAuthorizeRequest
<1>5. quiet(r)
  BY <1>1, <1>4 DEF quiet, removing, HandleAuthorizeRequest, at
<1> QED
  BY <1>1, <1>2, <1>5, LocalFrame DEF stepOf

LEMMA RedirectBackGoes ==
    ASSUME TypeOK, NEW r \in Requests, at(r, "login"), NEW out \in Errors \cup {"none", "ok"},
           redirectBack(r, out)
    PROVE  \E s \in Slot : goto(r, s) /\ s.pc = "idle" /\ s.url = req[r].ar.redirectUri
<1>1. req[r].ar.redirectUri \in UriTexts
  BY LocalsType DEF AuthorizeRequest
<1> QED
  BY <1>1, RedirectGoes DEF redirectBack

LEMMA DenyKind ==
    ASSUME TypeOK, NEW r \in Requests, Deny(r)
    PROVE  stepOf(r)
<1>1. quiet(r)
  BY RedirectBackGoes DEF Deny, quiet, removing, at, Errors
<1> QED
  BY <1>1, LocalFrame DEF stepOf, Deny

LEMMA GrantTokenKind ==
    ASSUME TypeOK, NEW r \in Requests, GrantToken(r)
    PROVE  stepOf(r)
<1> DEFINE ar == implicitRequest(req[r].ar)
<1>1. req[r].ar \in AuthorizeRequest
  BY LocalsType DEF GrantToken
<1>2. ar \in AccessRequest
  BY <1>1 DEF implicitRequest, AuthorizeRequest, AccessRequest
<1>3. ar.authorizeData = Nil /\ ar.accessData = Nil /\ ar.forceAccessData = Nil
  BY DEF implicitRequest
<1>4. asks(r)
  BY <1>2, <1>3 DEF asks, GrantToken, removing, holding, at
<1> QED
  BY <1>4, LocalFrame DEF stepOf, GrantToken

LEMMA GrantCodeKind ==
    ASSUME TypeOK, NEW r \in Requests, GrantCode(r)
    PROVE  stepOf(r)
<1>1. req[r].ar \in AuthorizeRequest /\ at(r, "login") /\ ~removing(r)
  BY LocalsType DEF GrantCode, at, removing
<1>2. \E s \in Slot : goto(r, s) /\ s.pc = "idle" /\ s.url = req[r].ar.redirectUri
  BY <1>1, RedirectBackGoes DEF GrantCode, Errors
<1>3. UNCHANGED <<config, now, restarts, delivered>> /\ faults' \in {faults, faults + 1}
  BY FailCounts DEF GrantCode
<1>4. CASE UNCHANGED storeVars
  <2>1. quiet(r)
    BY <1>1, <1>2, <1>3, <1>4 DEF quiet
  <2> QED
    BY <1>3, <1>4, <2>1, LocalFrame DEF stepOf
<1>5. ASSUME NEW code \in unusedCodes, SaveAuthorize(newAuthorizeData(req[r].ar, code))
      PROVE  stepOf(r)
  <2>1. newAuthorizeData(req[r].ar, code) \in AuthorizeData
    BY <1>1, NewAuthorizeDataType DEF unusedCodes
  <2>2. offersCode(r)
    BY <1>1, <1>2, <1>3, <1>5, <2>1 DEF offersCode, GrantCode
  <2> QED
    BY <1>3, <1>5, <2>2 DEF stepOf, SaveAuthorize
<1> QED
  BY <1>4, <1>5 DEF GrantCode

LEMMA HandleInfoRequestKind ==
    ASSUME TypeOK, NEW r \in Requests, NEW http \in InfoRequests, HandleInfoRequest(r, http)
    PROVE  stepOf(r)
<1> DEFINE data == LoadAccess(CheckBearerAuth(http))
<1>1. UNCHANGED <<storeVars, config, now, restarts, delivered>>
  BY DEF HandleInfoRequest
<1>2. faults' \in {faults, faults + 1}
  BY FailCounts DEF HandleInfoRequest
<1>3. req' \in [Requests -> Slot]
  BY HandleInfoRequestType DEF TypeOK, ServerTypeOK
<1>4. \E s \in Slot : goto(r, s) /\ s.pc \in {"idle", "info"}
  <2>1. CASE answer(r, "invalid_request") \/ (infoError(data) # Nil /\ answer(r, infoError(data)))
    <3>1. PICK out \in Errors : answer(r, out)
      BY <2>1, InfoErrorType DEF Errors
    <3> QED
      BY <3>1, AnswerGoes
  <2>2. CASE goto(r, [pc |-> "info", data |-> data])
    <3>1. [pc |-> "info", data |-> data] \in Slot
      BY <1>3, <2>2, GotoSlots
    <3> QED
      BY <2>2, <3>1
  <2> QED
    BY <2>1, <2>2 DEF HandleInfoRequest
<1>5. quiet(r)
  BY <1>1, <1>4 DEF quiet, removing, HandleInfoRequest, at
<1> QED
  BY <1>1, <1>2, <1>5, LocalFrame DEF stepOf

LEMMA FinishInfoRequestKind ==
    ASSUME TypeOK, NEW r \in Requests, FinishInfoRequest(r)
    PROVE  stepOf(r)
<1> DEFINE report == [pc |-> "idle", out |-> "report", url |-> Nil, fragment |-> FALSE,
                      token |-> req[r].data.accessToken, expiresIn |-> remaining(req[r].data)]
<1>1. req' \in [Requests -> Slot]
  BY FinishInfoRequestType DEF TypeOK, ServerTypeOK
<1>2. goto(r, report)
  BY DEF FinishInfoRequest
<1>3. report \in Slot
  BY <1>1, <1>2, GotoSlots
<1>4. quiet(r)
  BY <1>2, <1>3 DEF quiet, removing, FinishInfoRequest, at
<1> QED
  BY <1>4, LocalFrame DEF stepOf, FinishInfoRequest

-----------------------------------------------------------------------------
\* A step around the handlers that neither ends requests nor changes settings.
outside ==
    UNCHANGED <<authorize, access, refresh, offered, granted, config, req, faults, restarts,
                delivered>>

\* A step that is not quiet takes its request on or answers it.
LEMMA LoudSlot ==
    ASSUME NEW r \in Requests, stepOf(r), ~quiet(r)
    PROVE  \E s : goto(r, s) /\ s.pc \notin {"client", "load", "login", "info"}
<1>1. CASE asks(r)
  <2>1. PICK pc \in {"decide", "finish"}, ar \in AccessRequest : goto(r, [pc |-> pc, ar |-> ar])
    BY <1>1 DEF asks
  <2> QED
    BY <2>1
<1>2. CASE loadsCode(r) \/ loadsToken(r)
  <2>1. PICK ar : goto(r, [pc |-> "decide", ar |-> ar])
    BY <1>2 DEF loadsCode, loadsToken
  <2> QED
    BY <2>1
<1>3. CASE decides(r)
  <2>1. PICK ar : goto(r, [pc |-> "finish", ar |-> ar])
    BY <1>3 DEF decides
  <2> QED
    BY <2>1
<1>4. CASE offersCode(r)
  <2>1. PICK s : goto(r, s) /\ s.pc = "idle"
    BY <1>4 DEF offersCode
  <2> QED
    BY <2>1
<1>5. CASE saves(r) \/ removes(r)
  <2>1. \A stage, ret : stageAfter(stage, ret) \notin {"client", "load", "login", "info"}
    BY DEF stageAfter
  <2>2. PICK s : goto(r, s) /\ s.pc \notin {"client", "load", "login", "info"}
    BY <1>5, <2>1 DEF saves, removes, continues
  <2> QED
    BY <2>2
<1> QED
  BY <1>1, <1>2, <1>3, <1>4, <1>5 DEF stepOf

LEMMA OutsideKind ==
    ASSUME Tick \/ UNCHANGED vars \/ \E client \in Registrations : Register(client)
    PROVE  outside
BY DEF Register, SetClient, Tick, vars, storeVars, serverVars, outside

LEMMA RequestKind ==
    ASSUME TypeOK, NEW r \in Requests, TokenStep(r) \/ AuthorizeStep(r) \/ InfoStep(r)
    PROVE  stepOf(r)
<1>1. TokenStep(r) => stepOf(r)
  BY HandleAccessRequestKind, AuthenticateClientKind, LoadCodeKind, LoadTokenKind,
     DecideKind, FinishAccessRequestKind, RemovalKind DEF TokenStep
<1>2. AuthorizeStep(r) => stepOf(r)
  BY HandleAuthorizeRequestKind, DenyKind, GrantTokenKind, GrantCodeKind DEF AuthorizeStep
<1>3. InfoStep(r) => stepOf(r)
  BY HandleInfoRequestKind, FinishInfoRequestKind DEF InfoStep
<1> QED
  BY <1>1, <1>2, <1>3

LEMMA StepKinds ==
    ASSUME TypeOK, [Next]_vars
    PROVE  outside \/ Restart \/ \E r \in Requests : stepOf(r)
BY RequestKind, OutsideKind DEF Next

\* A request changes by its own steps and by restarts only.
LEMMA OwnStep ==
    ASSUME TypeOK, [Next]_vars, NEW r \in Requests, req'[r] # req[r]
    PROVE  Restart \/ TokenStep(r) \/ AuthorizeStep(r) \/ InfoStep(r)
<1>1. ASSUME NEW q \in Requests, TokenStep(q) \/ AuthorizeStep(q) \/ InfoStep(q)
      PROVE  q = r
  <2>1. stepOf(q)
    BY <1>1, RequestKind
  <2>2. PICK s : goto(q, s)
    BY <2>1 DEF stepOf, quiet, asks, loadsCode, loadsToken, decides, offersCode, saves, removes,
                continues
  <2> QED
    BY <2>2, GotoSlots
<1>2. ~outside
  BY DEF outside
<1> QED
  BY <1>1, <1>2, OutsideKind DEF Next
=============================================================================
