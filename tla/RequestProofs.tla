---------------------------- MODULE RequestProofs -----------------------------
(***************************************************************************)
(* What a request was checked for still holds when it acts on it: the PKCE *)
(* verifier, the binding of the token it replaces, the setting that keeps  *)
(* replaced tokens.  The checks are made when a record is loaded; the      *)
(* token is saved steps later, and other requests run in between.          *)
(*                                                                         *)
(* These theorems hold for every generator, one that repeats tokens too.   *)
(***************************************************************************)
EXTENDS StepProofs

\* The maps of the storage hold what the history says was written last.
TablesAgree ==
    /\ \A c \in Codes :
          /\ authorize[c] # Nil => authorize[c] = offered[c]
          /\ offered[c] # Nil => offered[c].code = c /\ offered[c].codeChallenge # Malformed
    /\ \A t \in AccessTokens :
          /\ isGranted(t) => granted[t].accessToken = t
          /\ access[t] # Nil => isGranted(t) /\ access[t] = persisted(granted[t])

\* What the locals of a request still say of the checks it has passed.
codeChecked(ar) ==
    ar.authorizeData # Nil =>
        /\ offered[ar.authorizeData] # Nil
        /\ pkceError(offered[ar.authorizeData], ar.codeVerifier) = Nil

bindingChecked(ar) ==
    ar.accessData # Nil /\ config.requireSenderConstrainedTokens =>
        /\ granted[ar.accessData.accessToken] # Nil
        /\ granted[ar.accessData.accessToken].senderConstraint # Nil
        /\ ar.accessData.senderConstraint # Nil

forcedGranted(ar) == ar.forceAccessData # Nil => granted[ar.forceAccessData.accessToken] # Nil

slotChecked(s) ==
    /\ s.pc \in {"decide", "finish"} =>
          codeChecked(s.ar) /\ bindingChecked(s.ar) /\ forcedGranted(s.ar)
    /\ s.pc = "login" /\ s.ar.type = "code" => s.ar.codeChallenge # Malformed
    /\ s.pc \in {"rmRefresh", "rmAccess"} => ~config.retainTokenAfterRefresh

SlotsChecked == \A r \in Requests : slotChecked(req[r])

RequestInv == TypeOK /\ TablesAgree /\ SlotsChecked

-----------------------------------------------------------------------------
(* What was checked stays true as long as the server runs: the history     *)
(* keeps its codes, and under RequireSenderConstrainedTokens no bound      *)
(* token is overwritten by an unbound one.                                 *)

historyKept ==
    /\ config' = config
    /\ \A c \in Codes : offered[c] # Nil => offered'[c] = offered[c]
    /\ \A t \in AccessTokens : granted[t] # Nil =>
          /\ granted'[t] # Nil
          /\ config.requireSenderConstrainedTokens /\ granted[t].senderConstraint # Nil =>
                granted'[t].senderConstraint # Nil

LEMMA SlotStaysChecked ==
    ASSUME NEW s \in Slot, slotChecked(s), historyKept
    PROVE  slotChecked(s)'
<1>1. CASE s.pc \in {"decide", "finish"}
  <2>1. s.ar \in AccessRequest
    BY <1>1 DEF Slot, Response, Report
  <2>2. /\ s.ar.authorizeData \in Codes \cup {Nil}
        /\ s.ar.accessData # Nil => s.ar.accessData.accessToken \in AccessTokens
        /\ s.ar.forceAccessData # Nil => s.ar.forceAccessData.accessToken \in AccessTokens
    BY <2>1 DEF AccessRequest, AccessData
  <2>3. codeChecked(s.ar)'
    BY <1>1, <2>2 DEF slotChecked, codeChecked, historyKept, pkceError, enforcementError
  <2>4. bindingChecked(s.ar)' /\ forcedGranted(s.ar)'
    BY <1>1, <2>2 DEF slotChecked, bindingChecked, forcedGranted, historyKept
  <2> QED
    BY <1>1, <2>3, <2>4 DEF slotChecked
<1>2. CASE s.pc \notin {"decide", "finish"}
  BY <1>2 DEF slotChecked, historyKept
<1> QED
  BY <1>1, <1>2

LEMMA OthersStayChecked ==
    ASSUME TypeOK, SlotsChecked, historyKept, NEW r \in Requests, NEW s, goto(r, s),
           slotChecked(s)'
    PROVE  SlotsChecked'
<1>1. ASSUME NEW q \in Requests
      PROVE  slotChecked(req[q])' 
  <2>1. CASE q = r
    <3>1. req'[q] = s
      BY <2>1, GotoSlots
    <3> QED
      BY <3>1 DEF slotChecked, codeChecked, bindingChecked, forcedGranted
  <2>2. CASE q # r
    <3>1. req'[q] = req[q] /\ req[q] \in Slot /\ slotChecked(req[q])
      BY <2>2, GotoSlots DEF TypeOK, ServerTypeOK, SlotsChecked
    <3> DEFINE t == req[q]
    <3>2. ASSUME NEW u \in Slot, slotChecked(u), req'[q] = u
          PROVE  slotChecked(req[q])'
      <4>1. slotChecked(u)'
        BY <3>2, SlotStaysChecked
      <4> QED
        BY <3>2, <4>1 DEF slotChecked, codeChecked, bindingChecked, forcedGranted
    <3> QED
      BY <3>1, <3>2
  <2> QED
    BY <2>1, <2>2
<1> QED
  BY <1>1 DEF SlotsChecked

\* A step that leaves the tables alone.
LEMMA TablesStay ==
    ASSUME TablesAgree, UNCHANGED <<authorize, access, offered, granted>>
    PROVE  TablesAgree'
BY DEF TablesAgree, isGranted

LEMMA HistoryStays ==
    ASSUME UNCHANGED <<config, offered, granted>>
    PROVE  historyKept
BY DEF historyKept

LEMMA LocalStepChecked ==
    ASSUME RequestInv, TypeOK', UNCHANGED <<storeVars, config>>, NEW r \in Requests, NEW s,
           goto(r, s), slotChecked(s)'
    PROVE  RequestInv'
<1>1. historyKept /\ TablesAgree'
  BY HistoryStays, TablesStay DEF storeVars, RequestInv
<1> QED
  BY <1>1, OthersStayChecked DEF RequestInv

-----------------------------------------------------------------------------
(* One lemma for each kind of step. *)

\* A code request whose challenge is malformed does not reach the login.
LEMMA LoginChecked ==
    ASSUME TypeOK, NEW r \in Requests, NEW http \in AuthorizationRequests,
           HandleAuthorizeRequest(r, http), NEW s, goto(r, s), s.pc = "login",
           s.ar.type = "code"
    PROVE  s.ar.codeChallenge # Malformed
<1> DEFINE client == GetClient(http.clientId)
           ar == authorizeRequest(http, client)
<1>1. req'[r] = s /\ s.pc # "idle"
  BY GotoSlots
<1>2. ASSUME NEW out, NEW url, NEW fragment, redirect(r, out, url, fragment)
      PROVE  FALSE
  <2>1. req'[r] = [pc |-> "idle", out |-> out, url |-> url, fragment |-> fragment]
    BY <1>2, GotoSlots DEF redirect
  <2> QED
    BY <1>1, <2>1
<1>3. redirectedError(http, client) = Nil /\ goto(r, [pc |-> "login", ar |-> ar])
  BY <1>2 DEF HandleAuthorizeRequest, answer
<1>4. s = [pc |-> "login", ar |-> ar]
  BY <1>1, <1>3, GotoSlots
<1>5. http.responseType = "code"
  BY <1>4 DEF authorizeRequest
<1>6. ~challengeRefused(http, client)
  BY <1>3, <1>5, ServerAssumption DEF redirectedError, Errors
<1>7. ar.codeChallenge \in {http.codeChallenge, Nil}
  BY DEF authorizeRequest
<1>8. ar.codeChallenge # Malformed
  BY <1>6, <1>7, GrantsAssumption DEF challengeRefused, authorizeRequest
<1> QED
  BY <1>4, <1>8

LEMMA QuietChecked ==
    ASSUME RequestInv, TypeOK', NEW r \in Requests, quiet(r), UNCHANGED config
    PROVE  RequestInv'
<1>1. PICK s \in Slot :
         /\ goto(r, s)
         /\ \/ s.pc \in {"idle", "load", "client", "info"}
            \/ s.pc = "login" /\ \E http \in AuthorizationRequests : HandleAuthorizeRequest(r, http)
  BY DEF quiet
<1>2. slotChecked(s)'
  BY <1>1, LoginChecked DEF slotChecked, RequestInv
<1> QED
  BY <1>1, <1>2, LocalStepChecked DEF quiet

LEMMA AsksChecked ==
    ASSUME RequestInv, TypeOK', NEW r \in Requests, asks(r), UNCHANGED config
    PROVE  RequestInv'
<1>1. PICK pc \in {"decide", "finish"}, ar \in AccessRequest :
         /\ goto(r, [pc |-> pc, ar |-> ar])
         /\ ar.authorizeData = Nil /\ ar.accessData = Nil /\ ar.forceAccessData = Nil
  BY DEF asks
<1>2. slotChecked([pc |-> pc, ar |-> ar])'
  BY <1>1 DEF slotChecked, codeChecked, bindingChecked, forcedGranted
<1> QED
  BY <1>1, <1>2, LocalStepChecked DEF asks

\* What codeError let pass, it let pass for the code that was offered.
LEMMA CodePassed ==
    ASSUME NEW data, NEW http, NEW client, codeError(data, http, client) = Nil
    PROVE  /\ data # Nil /\ ~otherClient(data, client) /\ ~IsExpiredAt(data, now)
           /\ pkceError(data, http.codeVerifier) = Nil
BY ServerAssumption DEF codeError, missingError, Errors

LEMMA LoadsCodeChecked ==
    ASSUME RequestInv, TypeOK', NEW r \in Requests, loadsCode(r), UNCHANGED config
    PROVE  RequestInv'
<1> DEFINE http == req[r].http
           data == authorize[http.code]
<1>1. http.code \in Codes /\ data # Nil /\ pkceError(data, http.codeVerifier) = Nil
  BY CodePassed DEF loadsCode
<1>2. data = offered[http.code] /\ data.code = http.code
  BY <1>1 DEF RequestInv, TablesAgree
<1>3. PICK ar \in AccessRequest :
         /\ goto(r, [pc |-> "decide", ar |-> ar])
         /\ ar = codeRequest(data, http, req[r].client)
  BY DEF loadsCode
<1>4. /\ ar.authorizeData = http.code /\ ar.codeVerifier = http.codeVerifier
      /\ ar.accessData = Nil /\ ar.forceAccessData = Nil
  BY <1>2, <1>3 DEF codeRequest
<1>5. UNCHANGED <<offered, granted>>
  BY DEF loadsCode, storeVars
<1>6. codeChecked(ar)
  BY <1>1, <1>2, <1>4 DEF codeChecked
<1>7. codeChecked(ar)'
  BY <1>5, <1>6 DEF codeChecked, pkceError, enforcementError
<1>8. slotChecked([pc |-> "decide", ar |-> ar])'
  BY <1>4, <1>7 DEF slotChecked, bindingChecked, forcedGranted
<1> QED
  BY <1>3, <1>8, LocalStepChecked DEF loadsCode

\* What refreshError let pass.
LEMMA TokenPassed ==
    ASSUME NEW data, NEW http, NEW client, refreshError(data, http, client) = Nil
    PROVE  /\ data # Nil /\ ~otherClient(data, client) /\ ~unbound(data)
           /\ ~extraScopes(data.scope, refreshScope(data, http.scope))
BY ServerAssumption DEF refreshError, missingError, Errors

\* A bound record in the storage is bound in the history.
LEMMA PersistedBinding ==
    ASSUME NEW data, persisted(data).senderConstraint # Nil, data \in AccessData
    PROVE  data.senderConstraint # Nil
BY DEF persisted, AccessData

LEMMA LoadsTokenChecked ==
    ASSUME RequestInv, TypeOK', NEW r \in Requests, loadsToken(r), UNCHANGED config
    PROVE  RequestInv'
<1> DEFINE http == req[r].http
           token == refresh[http.refreshToken]
           data == access[token]
<1>1. token \in AccessTokens /\ data \in AccessData /\ data # Nil /\ ~unbound(data)
  BY TokenPassed DEF loadsToken
<1>2. /\ isGranted(token) /\ data = persisted(granted[token])
      /\ granted[token].accessToken = token /\ granted[token] \in AccessData
  BY <1>1 DEF RequestInv, TablesAgree, TypeOK, StoreTypeOK, isGranted
<1>3. data.accessToken = token
  BY <1>2 DEF persisted, AccessData
<1>4. config.requireSenderConstrainedTokens =>
          granted[token].senderConstraint # Nil /\ data.senderConstraint # Nil
  BY <1>1, <1>2, PersistedBinding DEF unbound
<1>5. PICK ar \in AccessRequest :
         /\ goto(r, [pc |-> "decide", ar |-> ar])
         /\ ar = refreshRequest(data, http, req[r].client)
  BY DEF loadsToken
<1>6. ar.authorizeData = Nil /\ ar.accessData = data /\ ar.forceAccessData = Nil
  BY <1>5 DEF refreshRequest
<1>7. UNCHANGED <<offered, granted>>
  BY DEF loadsToken, storeVars
<1>8. bindingChecked(ar)
  BY <1>2, <1>3, <1>4, <1>6 DEF bindingChecked, isGranted
<1>9. bindingChecked(ar)'
  BY <1>7, <1>8 DEF bindingChecked
<1>10. slotChecked([pc |-> "decide", ar |-> ar])'
  BY <1>6, <1>9 DEF slotChecked, codeChecked, forcedGranted
<1> QED
  BY <1>5, <1>10, LocalStepChecked DEF loadsToken

LEMMA DecidesChecked ==
    ASSUME RequestInv, TypeOK', NEW r \in Requests, decides(r), UNCHANGED config
    PROVE  RequestInv'
<1>1. PICK force \in {Nil} \cup reusable(req[r].ar), ar \in AccessRequest :
         /\ goto(r, [pc |-> "finish", ar |-> ar])
         /\ ar.authorizeData = req[r].ar.authorizeData /\ ar.accessData = req[r].ar.accessData
         /\ ar.codeVerifier = req[r].ar.codeVerifier /\ ar.forceAccessData = force
  BY DEF decides
<1>2. codeChecked(req[r].ar) /\ bindingChecked(req[r].ar)
  BY DEF RequestInv, SlotsChecked, slotChecked, decides, at
<1>3. forcedGranted(ar)
  <2>1. CASE force = Nil
    BY <1>1, <2>1 DEF forcedGranted
  <2>2. CASE force # Nil
    <3>1. PICK t \in AccessTokens : access[t] # Nil /\ force = access[t]
      BY <2>2 DEF reusable
    <3>2. isGranted(t) /\ force = persisted(granted[t]) /\ granted[t].accessToken = t
      BY <3>1 DEF RequestInv, TablesAgree
    <3>3. granted[t] \in AccessData
      BY <3>2 DEF RequestInv, TypeOK, StoreTypeOK, isGranted
    <3>4. force.accessToken = t
      BY <3>2, <3>3 DEF persisted, AccessData
    <3> QED
      BY <1>1, <3>2, <3>4 DEF forcedGranted, isGranted
  <2> QED
    BY <2>1, <2>2
<1>4. codeChecked(ar) /\ bindingChecked(ar)
  BY <1>1, <1>2 DEF codeChecked, bindingChecked
<1>5. UNCHANGED <<offered, granted>>
  BY DEF decides, storeVars
<1>6. slotChecked([pc |-> "finish", ar |-> ar])'
  BY <1>3, <1>4, <1>5
     DEF slotChecked, codeChecked, bindingChecked, forcedGranted, pkceError, enforcementError
<1> QED
  BY <1>1, <1>6, LocalStepChecked DEF decides

LEMMA OffersCodeChecked ==
    ASSUME RequestInv, TypeOK', NEW r \in Requests, offersCode(r), UNCHANGED config
    PROVE  RequestInv'
<1>1. PICK code \in unusedCodes, data \in AuthorizeData :
         SaveAuthorize(data) /\ data = newAuthorizeData(req[r].ar, code)
  BY DEF offersCode
<1>2. code \in Codes /\ offered[code] = Nil /\ data.code = code /\ data # Nil
  BY <1>1, RecordsAssumption DEF unusedCodes, newAuthorizeData
<1>3. data.codeChallenge # Malformed
  BY <1>1 DEF RequestInv, SlotsChecked, slotChecked, offersCode, at, newAuthorizeData
<1>4. /\ \A c \in Codes : /\ authorize'[c] = IF c = code THEN data ELSE authorize[c]
                          /\ offered'[c] = IF c = code THEN data ELSE offered[c]
      /\ UNCHANGED <<access, granted>>
  BY <1>1, <1>2 DEF RequestInv, TypeOK, StoreTypeOK, SaveAuthorize
<1>5. TablesAgree'
  BY <1>2, <1>3, <1>4 DEF RequestInv, TablesAgree, isGranted
<1>6. historyKept
  BY <1>2, <1>4 DEF historyKept
<1>7. PICK s \in Slot : goto(r, s) /\ s.pc = "idle"
  BY DEF offersCode
<1>8. slotChecked(s)'
  BY <1>7 DEF slotChecked
<1> QED
  BY <1>5, <1>6, <1>7, <1>8, OthersStayChecked DEF RequestInv

\* The slot a request continues with.
LEMMA ContinuesChecked ==
    ASSUME NEW r, NEW stage, NEW ret, continues(r, stage, ret), UNCHANGED config
    PROVE  \E s \in Slot : goto(r, s) /\ slotChecked(s)'
<1>1. PICK s \in Slot :
         /\ goto(r, s)
         /\ \/ s.pc = "idle"
            \/ stageAfter(stage, ret) # "reply" /\ s = [pc |-> stageAfter(stage, ret), ret |-> ret]
  BY DEF continues
<1>2. CASE s.pc = "idle"
  BY <1>1, <1>2 DEF slotChecked
<1>3. CASE s.pc = stageAfter(stage, ret) /\ s.pc # "reply"
  <2>1. s.pc \in {"rmAuthorize", "rmRefresh", "rmAccess"}
    BY <1>3 DEF stageAfter
  <2>2. s.pc \in {"rmRefresh", "rmAccess"} => ~config.retainTokenAfterRefresh
    BY <1>3 DEF stageAfter, replacesToken
  <2> QED
    BY <1>1, <2>1, <2>2 DEF slotChecked
<1> QED
  BY <1>1, <1>2, <1>3

LEMMA SavesChecked ==
    ASSUME RequestInv, TypeOK', NEW r \in Requests, saves(r), UNCHANGED config
    PROVE  RequestInv'
<1>1. PICK ret \in AccessData :
         /\ ~unbound(ret) /\ SaveAccess(ret)
         /\ \/ continues(r, "save", ret)
            \/ \E s \in Slot : goto(r, s) /\ s.pc = "idle"
  BY DEF saves
<1> DEFINE token == ret.accessToken
<1>2. /\ token \in AccessTokens /\ ret # Nil /\ persisted(ret) # Nil
      /\ \A t \in AccessTokens :
            /\ access'[t] = IF t = token THEN persisted(ret) ELSE access[t]
            /\ granted'[t] = IF t = token THEN ret ELSE granted[t]
      /\ UNCHANGED <<authorize, offered>>
  <2>1. token \in AccessTokens /\ persisted(ret) \in AccessData
    BY DEF AccessData, persisted
  <2> QED
    BY <1>1, <2>1, RecordsAssumption DEF RequestInv, TypeOK, StoreTypeOK, SaveAccess
<1>3. TablesAgree'
  BY <1>2 DEF RequestInv, TablesAgree, isGranted
<1>4. historyKept
  BY <1>1, <1>2 DEF historyKept, unbound
<1>5. PICK s \in Slot : goto(r, s) /\ slotChecked(s)'
  <2>1. ASSUME NEW s \in Slot, s.pc = "idle"
        PROVE  slotChecked(s)'
    BY <2>1 DEF slotChecked
  <2> QED
    BY <1>1, <2>1, ContinuesChecked
<1> QED
  BY <1>3, <1>4, <1>5, OthersStayChecked DEF RequestInv

LEMMA RemovesChecked ==
    ASSUME RequestInv, TypeOK', NEW r \in Requests, removes(r), UNCHANGED config
    PROVE  RequestInv'
<1>1. UNCHANGED <<offered, granted>>
  BY DEF removes, RemoveAuthorize, RemoveRefresh, RemoveAccess, storeVars
<1>2. /\ \A c \in Codes : authorize'[c] \in {authorize[c], Nil}
      /\ \A t \in AccessTokens : access'[t] \in {access[t], Nil}
  BY DEF removes, RemoveAuthorize, RemoveRefresh, RemoveAccess, storeVars, RequestInv, TypeOK,
         StoreTypeOK
<1>3. TablesAgree'
  BY <1>1, <1>2 DEF RequestInv, TablesAgree, isGranted
<1>4. historyKept
  BY <1>1, HistoryStays
<1>5. PICK s \in Slot : goto(r, s) /\ slotChecked(s)'
  BY ContinuesChecked DEF removes
<1> QED
  BY <1>3, <1>4, <1>5, OthersStayChecked DEF RequestInv

LEMMA OutsideChecked ==
    ASSUME RequestInv, TypeOK', outside
    PROVE  RequestInv'
<1>1. TablesAgree'
  BY TablesStay DEF outside, RequestInv
<1>2. SlotsChecked'
  BY DEF outside, RequestInv, SlotsChecked, slotChecked, codeChecked, bindingChecked,
         forcedGranted, pkceError, enforcementError
<1> QED
  BY <1>1, <1>2 DEF RequestInv

LEMMA RestartChecked ==
    ASSUME RequestInv, TypeOK', Restart
    PROVE  RequestInv'
<1>1. TablesAgree'
  BY TablesStay DEF Restart, RequestInv, storeVars
<1>2. \A r \in Requests : req'[r].pc = "idle"
  BY DEF Restart, noResponse
<1>3. SlotsChecked'
  BY <1>2 DEF SlotsChecked, slotChecked
<1> QED
  BY <1>1, <1>3 DEF RequestInv

LEMMA InitChecked ==
    ASSUME Init
    PROVE  RequestInv
<1>1. TypeOK
  BY InitType
<1>2. TablesAgree
  BY DEF Init, StoreInit, TablesAgree, isGranted
<1>3. \A r \in Requests : req[r].pc = "idle"
  BY DEF Init, ServerInit, noResponse
<1>4. SlotsChecked
  BY <1>3 DEF SlotsChecked, slotChecked
<1> QED
  BY <1>1, <1>2, <1>4 DEF RequestInv

LEMMA NextChecked ==
    ASSUME RequestInv, [Next]_vars
    PROVE  RequestInv'
<1>1. TypeOK'
  BY NextType DEF RequestInv
<1>2. outside \/ Restart \/ \E r \in Requests : stepOf(r)
  BY StepKinds DEF RequestInv
<1>3. ASSUME NEW r \in Requests, stepOf(r)
      PROVE  RequestInv'
  BY <1>1, <1>3, QuietChecked, AsksChecked, LoadsCodeChecked, LoadsTokenChecked, DecidesChecked,
     OffersCodeChecked, SavesChecked, RemovesChecked DEF stepOf
<1> QED
  BY <1>1, <1>2, <1>3, OutsideChecked, RestartChecked

\* What requests were checked for holds until they act on it, with any
\* generator, any failures and any restarts.
THEOREM RequestInvariant == Spec => []RequestInv
<1>1. Init => RequestInv
  BY InitChecked
<1>2. RequestInv /\ [Next]_vars => RequestInv'
  BY NextChecked
<1> QED
  BY <1>1, <1>2, PTL DEF Spec

-----------------------------------------------------------------------------
(* The action properties. *)

\* With RetainTokenAfterRefresh no step removes a token.
LEMMA StepRetains ==
    ASSUME RequestInv, [Next]_vars, config.retainTokenAfterRefresh
    PROVE  /\ \A t \in AccessTokens : access[t] # Nil => access'[t] # Nil
           /\ \A rt \in RefreshTokens : refresh[rt] # Nil => refresh'[rt] # Nil
<1>1. CASE UNCHANGED <<access, refresh>>
  BY <1>1
<1>2. ASSUME NEW r \in Requests, saves(r)
      PROVE  /\ \A t \in AccessTokens : access[t] # Nil => access'[t] # Nil
             /\ \A rt \in RefreshTokens : refresh[rt] # Nil => refresh'[rt] # Nil
  <2>1. PICK ret \in AccessData : SaveAccess(ret)
    BY <1>2 DEF saves
  <2>2. /\ ret.accessToken \in AccessTokens /\ ret.refreshToken \in RefreshTokens \cup {Nil}
        /\ persisted(ret) \in AccessData
    BY DEF AccessData, persisted
  <2>3. ret.accessToken # Nil /\ persisted(ret) # Nil
    BY <2>2, GrantsAssumption, RecordsAssumption
  <2> QED
    BY <2>1, <2>2, <2>3 DEF SaveAccess, RequestInv, TypeOK, StoreTypeOK
<1>3. ASSUME NEW r \in Requests, removes(r)
      PROVE  UNCHANGED <<access, refresh>>
  <2>1. slotChecked(req[r])
    BY DEF RequestInv, SlotsChecked
  <2>2. ~at(r, "rmRefresh") /\ ~at(r, "rmAccess")
    BY <2>1 DEF slotChecked, at
  <2> QED
    BY <1>3, <2>2 DEF removes, RemoveAuthorize, storeVars
<1>4. ASSUME NEW r \in Requests,
             quiet(r) \/ asks(r) \/ loadsCode(r) \/ loadsToken(r) \/ decides(r) \/ offersCode(r)
      PROVE  UNCHANGED <<access, refresh>>
  BY <1>4 DEF quiet, asks, loadsCode, loadsToken, decides, offersCode, SaveAuthorize, storeVars
<1>5. outside \/ Restart => UNCHANGED <<access, refresh>>
  BY DEF outside, Restart, storeVars
<1>6. outside \/ Restart \/ \E r \in Requests : stepOf(r)
  BY StepKinds DEF RequestInv
<1> QED
  BY <1>1, <1>2, <1>3, <1>4, <1>5, <1>6 DEF stepOf

\* With RetainTokenAfterRefresh every token and refresh token stays in the
\* storage: the setting is read again at every removal, and a request that
\* is about to remove one was started by a server without it.
THEOREM RetainedTokensKept == Spec => RetainKeepsTokens
<1>1. RequestInv /\ [Next]_vars =>
        [config.retainTokenAfterRefresh =>
          /\ \A t \in AccessTokens : access[t] # Nil => access'[t] # Nil
          /\ \A rt \in RefreshTokens : refresh[rt] # Nil => refresh'[rt] # Nil]_vars
  BY StepRetains
<1> QED
  BY <1>1, RequestInvariant, PTL DEF Spec, RetainKeepsTokens

\* A record that FinishAccessRequest generates; only its binding may be
\* another one than the generator wrote.
LEMMA ProducedFields ==
    ASSUME NEW ar \in AccessRequest, ar.forceAccessData = Nil, NEW data \in produced(ar),
           data \in AccessData
    PROVE  LET ret == withBinding(data, ar)
           IN  /\ ret.authorizeData = ar.authorizeData
               /\ ret.accessData = IF ar.accessData = Nil THEN Nil ELSE tokensOf(ar.accessData)
               /\ ret.client = ar.client /\ ret.scope = ar.scope
               /\ ret.accessToken = data.accessToken /\ ret.accessToken \in unusedAccess
               /\ ret.refreshToken \in unusedRefresh \cup {Nil}
               /\ ret.expireAt = data.expireAt
<1> DEFINE ret == withBinding(data, ar)
<1>1. PICK token \in unusedAccess,
           refreshToken \in IF ar.generateRefresh THEN unusedRefresh ELSE {Nil},
           constraint \in Thumbprints \cup {Nil} :
              data = newAccessData(ar, token, refreshToken, constraint)
  BY DEF produced
<1>2. /\ data.authorizeData = ar.authorizeData
      /\ data.accessData = IF ar.accessData = Nil THEN Nil ELSE tokensOf(ar.accessData)
      /\ data.client = ar.client /\ data.scope = ar.scope
      /\ data.accessToken = token /\ data.refreshToken = refreshToken
  BY <1>1 DEF newAccessData
<1>3. /\ ret.authorizeData = data.authorizeData /\ ret.accessData = data.accessData
      /\ ret.client = data.client /\ ret.scope = data.scope /\ ret.expireAt = data.expireAt
      /\ ret.accessToken = data.accessToken /\ ret.refreshToken = data.refreshToken
  BY DEF withBinding, AccessData
<1> QED
  BY <1>1, <1>2, <1>3

\* Any other record than the last one of a token is saved by a request that
\* came this way, and bound if tokens have to be.
LEMMA WriteStep ==
    ASSUME RequestInv, [Next]_vars, NEW r \in Requests, NEW t \in AccessTokens, writes(r, t)
    PROVE  /\ req[r].ar \in AccessRequest
           /\ \E data \in produced(req[r].ar) :
                 LET ret == withBinding(data, req[r].ar)
                 IN  /\ data \in AccessData /\ ret \in AccessData
                     /\ t = ret.accessToken /\ granted'[t] = ret /\ ~unbound(ret)
<1> DEFINE ar == req[r].ar
<1>1. outside \/ Restart \/ \E q \in Requests : stepOf(q)
  BY StepKinds DEF RequestInv
<1>2. granted' # granted
  BY DEF writes
<1>3. PICK q \in Requests : saves(q)
  BY <1>1, <1>2 DEF outside, Restart, stepOf, quiet, asks, loadsCode, loadsToken, decides,
                    offersCode, removes, SaveAuthorize, RemoveAuthorize, RemoveRefresh,
                    RemoveAccess, storeVars
<1>4. q = r
  <2>1. PICK s : goto(q, s)
    BY <1>3 DEF saves, continues
  <2> QED
    BY <2>1, GotoSlots DEF writes, RequestInv
<1>5. PICK data \in produced(ar) :
         LET ret == withBinding(data, ar)
         IN  data \in AccessData /\ ret \in AccessData /\ ~unbound(ret) /\ SaveAccess(ret)
  BY <1>3, <1>4 DEF saves
<1> DEFINE ret == withBinding(data, ar)
<1>6. ar \in AccessRequest
  BY <1>3, <1>4 DEF saves
<1>7. granted'[t] = IF t = ret.accessToken THEN ret ELSE granted[t]
  BY <1>5 DEF SaveAccess, RequestInv, TypeOK, StoreTypeOK
<1>8. t = ret.accessToken /\ granted'[t] = ret
  BY <1>7 DEF writes
<1> QED
  BY <1>5, <1>6, <1>8

\* A new token is not the one of a forced record.
LEMMA IssueStep ==
    ASSUME RequestInv, [Next]_vars, NEW r \in Requests, NEW t \in AccessTokens, issues(r, t)
    PROVE  /\ req[r].ar \in AccessRequest
           /\ granted'[t] \in AccessData
           /\ granted'[t].authorizeData = req[r].ar.authorizeData
           /\ granted'[t].accessData = IF req[r].ar.accessData = Nil THEN Nil
                                       ELSE tokensOf(req[r].ar.accessData)
<1> DEFINE ar == req[r].ar
<1>1. writes(r, t)
  BY DEF issues, writes, isGranted
<1>2. ar \in AccessRequest
  BY <1>1, WriteStep
<1>3. PICK data \in produced(ar) :
         LET ret == withBinding(data, ar)
         IN  /\ data \in AccessData /\ ret \in AccessData
             /\ t = ret.accessToken /\ granted'[t] = ret /\ ~unbound(ret)
  BY <1>1, WriteStep
<1> DEFINE ret == withBinding(data, ar)
<1>4. ar.forceAccessData = Nil
  <2>1. SUFFICES ASSUME ar.forceAccessData # Nil
                 PROVE  FALSE
    OBVIOUS
  <2>2. data = ar.forceAccessData
    BY <2>1 DEF produced
  <2>3. ret.accessToken = data.accessToken
    BY <1>3 DEF withBinding, AccessData
  <2>4. slotChecked(req[r]) /\ at(r, "finish")
    BY DEF RequestInv, SlotsChecked, issues
  <2>5. forcedGranted(ar)
    BY <2>4 DEF slotChecked, at
  <2> QED
    BY <1>3, <2>1, <2>2, <2>3, <2>5 DEF forcedGranted, issues, isGranted
<1> QED
  BY <1>2, <1>3, <1>4, ProducedFields

LEMMA StepProves ==
    ASSUME RequestInv, [Next]_vars, NEW r \in Requests, NEW t \in AccessTokens, issues(r, t),
           granted'[t].authorizeData # Nil
    PROVE  LET code == offered[granted'[t].authorizeData]
           IN  code.codeChallenge # Nil \/ config.enforceOAuth21 =>
                  /\ code.codeChallenge \notin {Nil, Malformed}
                  /\ transform(code.codeChallengeMethod, req[r].ar.codeVerifier)
                         = code.codeChallenge
<1> DEFINE ar == req[r].ar
           code == offered[ar.authorizeData]
<1>1. ar \in AccessRequest /\ granted'[t].authorizeData = ar.authorizeData
  BY IssueStep
<1>2. slotChecked(req[r]) /\ at(r, "finish")
  BY DEF RequestInv, SlotsChecked, issues
<1>3. code # Nil /\ pkceError(code, ar.codeVerifier) = Nil
  BY <1>1, <1>2 DEF slotChecked, codeChecked, at
<1>4. code.codeChallenge # Malformed
  BY <1>1, <1>3 DEF RequestInv, TablesAgree, AccessRequest
<1>5. enforcementError(code, ar.codeVerifier) = Nil
  BY <1>3, ServerAssumption DEF pkceError, Errors
<1>6. config.enforceOAuth21 => code.codeChallenge # Nil
  BY <1>5, ServerAssumption DEF enforcementError, Errors
<1>7. code.codeChallenge # Nil =>
          transform(code.codeChallengeMethod, ar.codeVerifier) = code.codeChallenge
  BY <1>3, <1>5, ServerAssumption DEF pkceError, Errors
<1> QED
  BY <1>1, <1>4, <1>6, <1>7

\* No token is saved for a code whose verifier was not proved, nor with
\* EnforceOAuth21 for a code without a challenge, even one that was issued
\* before a restart turned the setting on.
THEOREM VerifierProved == Spec => PkceProved
<1>1. RequestInv /\ [Next]_vars =>
        [\A r \in Requests, t \in AccessTokens :
          issues(r, t) /\ granted'[t].authorizeData # Nil =>
              LET code == offered[granted'[t].authorizeData]
              IN  code.codeChallenge # Nil \/ config.enforceOAuth21 =>
                     /\ code.codeChallenge \notin {Nil, Malformed}
                     /\ transform(code.codeChallengeMethod, req[r].ar.codeVerifier)
                            = code.codeChallenge]_vars
  BY StepProves
<1> QED
  BY <1>1, RequestInvariant, PTL DEF Spec, PkceProved

\* With RequireSenderConstrainedTokens every record that is saved is bound, one
\* that is handed out again as well, and so is the token that a new one
\* replaces.
THEOREM TokensBound == Spec => SenderBound
<1>1. ASSUME RequestInv, [Next]_vars, NEW r \in Requests, NEW t \in AccessTokens, writes(r, t),
             config.requireSenderConstrainedTokens
      PROVE  granted'[t].senderConstraint # Nil
  BY <1>1, WriteStep DEF unbound
<1>2. ASSUME RequestInv, [Next]_vars, NEW r \in Requests, NEW t \in AccessTokens, issues(r, t),
             config.requireSenderConstrainedTokens, granted'[t].accessData # Nil
      PROVE  granted[granted'[t].accessData.accessToken].senderConstraint # Nil
  <2>1. bindingChecked(req[r].ar)
    BY <1>2 DEF RequestInv, SlotsChecked, slotChecked, issues, at
  <2>2. granted'[t].accessData = IF req[r].ar.accessData = Nil THEN Nil
                                 ELSE tokensOf(req[r].ar.accessData)
    BY <1>2, IssueStep
  <2>3. /\ req[r].ar.accessData # Nil
        /\ granted'[t].accessData.accessToken = req[r].ar.accessData.accessToken
    BY <1>2, <2>2 DEF tokensOf
  <2> QED
    BY <1>2, <2>1, <2>3 DEF bindingChecked
<1>3. RequestInv /\ [Next]_vars =>
        [\A r \in Requests, t \in AccessTokens :
          config.requireSenderConstrainedTokens =>
              /\ writes(r, t) => granted'[t].senderConstraint # Nil
              /\ issues(r, t) /\ granted'[t].accessData # Nil =>
                    granted[granted'[t].accessData.accessToken].senderConstraint # Nil]_vars
  BY <1>1, <1>2
<1> QED
  BY <1>3, RequestInvariant, PTL DEF Spec, SenderBound

LEMMA StepForgets ==
    ASSUME RequestInv, [Next]_vars, NEW c \in Codes, expired(c),
           \A r \in Requests : ~holds(r, c), NEW r \in Requests
    PROVE  ~holds(r, c)'
<1>1. outside \/ Restart \/ \E q \in Requests : stepOf(q)
  BY StepKinds DEF RequestInv
<1>2. CASE outside \/ Restart
  BY <1>2 DEF outside, Restart, holds, noResponse
<1>3. ASSUME NEW q \in Requests, stepOf(q), NEW s, goto(q, s),
             s.pc \notin {"decide", "finish"} \/ s.ar.authorizeData # c
      PROVE  ~holds(r, c)'
  <2>1. req'[r] = IF r = q THEN s ELSE req[r]
    BY <1>3, GotoSlots DEF RequestInv
  <2> QED
    BY <1>3, <2>1 DEF holds
<1>4. ASSUME NEW q \in Requests, stepOf(q)
      PROVE  \E s : goto(q, s) /\ (s.pc \notin {"decide", "finish"} \/ s.ar.authorizeData # c)
  <2>1. CASE quiet(q) \/ offersCode(q) \/ saves(q)
    <3>1. \A stage, ret : stageAfter(stage, ret) \notin {"decide", "finish"}
      BY DEF stageAfter
    <3>2. PICK s : goto(q, s) /\ s.pc \notin {"decide", "finish"}
      BY <2>1, <3>1 DEF quiet, offersCode, saves, continues
    <3> QED
      BY <3>2
  <2>2. CASE removes(q)
    <3>1. \A stage, ret : stageAfter(stage, ret) \notin {"decide", "finish"}
      BY DEF stageAfter
    <3>2. PICK s : goto(q, s) /\ s.pc \notin {"decide", "finish"}
      BY <2>2, <3>1 DEF removes, continues
    <3> QED
      BY <3>2
  <2>3. CASE asks(q)
    BY <2>3, GrantsAssumption DEF asks
  <2>4. CASE loadsToken(q)
    BY <2>4, GrantsAssumption DEF loadsToken, refreshRequest
  <2>5. CASE decides(q)
    <3>1. req[q].ar.authorizeData # c
      BY <2>5 DEF decides, holds, at
    <3>2. PICK ar : /\ goto(q, [pc |-> "finish", ar |-> ar])
                    /\ ar.authorizeData = req[q].ar.authorizeData
      BY <2>5 DEF decides
    <3> QED
      BY <3>1, <3>2
  <2>6. CASE loadsCode(q)
    <3> DEFINE data == authorize[req[q].http.code]
    <3>1. data # Nil /\ ~IsExpiredAt(data, now) /\ req[q].http.code \in Codes
      BY <2>6, CodePassed DEF loadsCode
    <3>2. data = offered[req[q].http.code] /\ data.code = req[q].http.code
      BY <3>1 DEF RequestInv, TablesAgree
    <3>3. data.code # c
      BY <3>1, <3>2 DEF expired, IsExpiredAt
    <3>4. goto(q, [pc |-> "decide", ar |-> codeRequest(data, req[q].http, req[q].client)])
      BY <2>6 DEF loadsCode
    <3> QED
      BY <3>3, <3>4 DEF codeRequest
  <2> QED
    BY <1>4, <2>1, <2>2, <2>3, <2>4, <2>5, <2>6 DEF stepOf
<1> QED
  BY <1>1, <1>2, <1>3, <1>4

\* A code that is left in the storage by a crash or a failed removal is dead
\* once it has expired and the requests that hold it are over.
THEOREM ExpiredCodesDead == Spec => ExpiredCodeIsDead
<1>1. RequestInv /\ [Next]_vars =>
        [\A c \in Codes :
          expired(c) /\ (\A r \in Requests : ~holds(r, c)) =>
              \A r \in Requests : ~holds(r, c)']_vars
  BY StepForgets
<1> QED
  BY <1>1, RequestInvariant, PTL DEF Spec, ExpiredCodeIsDead

-----------------------------------------------------------------------------
(* Client authentication: between reading the credentials of a request and *)
(* looking up the client they name, other requests and the administrator   *)
(* run.                                                                    *)

ClientsKeyed == \A id \in ClientIds : clients[id] # Nil => clients[id].id = id

\* The credentials are those of the request, read under these settings.
credentialsRead(s) ==
    s.pc = "client" =>
        \E found \in Registrations \cup {Nil} : s.auth = getClientAuth(config, s.http.auth, found)

CredentialsInv ==
    TypeOK /\ ClientsKeyed /\ \A r \in Requests : credentialsRead(req[r])

\* Only HandleAccessRequest reads credentials.
LEMMA ReceiveReads ==
    ASSUME TypeOK, NEW r \in Requests, NEW http \in TokenRequests, HandleAccessRequest(r, http),
           req'[r].pc = "client"
    PROVE  credentialsRead(req[r])'
<1>1. PICK found \in Registrations \cup {Nil} : Receive(r, http, found)
  BY GetClientType DEF HandleAccessRequest
<1> DEFINE auth == getClientAuth(config, http.auth, found)
           error == requestError(http, auth)
<1>2. error = Nil
  <2>1. ASSUME answer(r, error)
        PROVE  FALSE
    <3>1. req'[r].pc = "idle"
      BY <2>1, GotoSlots DEF answer, redirect
    <3> QED
      BY <3>1
  <2> QED
    BY <1>1, <2>1 DEF Receive
<1>3. goto(r, [pc |-> "client", http |-> http, auth |-> auth]) /\ config' = config
  BY <1>1, <1>2 DEF Receive
<1>4. req'[r] = [pc |-> "client", http |-> http, auth |-> auth]
  BY <1>3, GotoSlots
<1> QED
  BY <1>3, <1>4 DEF credentialsRead

LEMMA StepReads ==
    ASSUME CredentialsInv, [Next]_vars, NEW r \in Requests
    PROVE  credentialsRead(req[r])'
<1>1. TypeOK /\ credentialsRead(req[r])
  BY DEF CredentialsInv
<1>2. CASE Restart
  BY <1>2 DEF Restart, noResponse, credentialsRead
<1>3. config' = config \/ Restart
  BY <1>1, StepKinds DEF outside, stepOf
<1>4. CASE req'[r] = req[r] /\ ~Restart
  BY <1>1, <1>3, <1>4 DEF credentialsRead
<1>5. CASE req'[r] # req[r] /\ ~Restart
  <2>1. TokenStep(r) \/ AuthorizeStep(r) \/ InfoStep(r)
    BY <1>1, <1>5, OwnStep
  <2>2. stepOf(r)
    BY <1>1, <2>1, RequestKind
  <2>4. PICK s : /\ goto(r, s)
                 /\ \/ s.pc # "client"
                    \/ \E http \in TokenRequests : HandleAccessRequest(r, http)
    <3>1. CASE quiet(r)
      BY <3>1 DEF quiet
    <3>2. CASE ~quiet(r)
      <4>1. PICK s : goto(r, s) /\ s.pc \notin {"client", "load", "login", "info"}
        BY <2>2, <3>2, LoudSlot
      <4> QED
        BY <4>1
    <3> QED
      BY <2>2, <3>1, <3>2 DEF stepOf
  <2>5. req'[r] = s
    BY <1>1, <2>4, GotoSlots
  <2>6. CASE s.pc # "client"
    BY <2>5, <2>6 DEF credentialsRead
  <2> QED
    BY <1>1, <2>4, <2>5, <2>6, ReceiveReads
<1> QED
  BY <1>2, <1>4, <1>5

LEMMA CredentialsInvariant == Spec => []CredentialsInv
<1>1. ASSUME Init
      PROVE  CredentialsInv
  <2>1. TypeOK
    BY <1>1, InitType
  <2> QED
    BY <1>1, <2>1 DEF Init, StoreInit, ServerInit, noResponse, CredentialsInv, ClientsKeyed,
                      credentialsRead
<1>2. ASSUME CredentialsInv, [Next]_vars
      PROVE  CredentialsInv'
  <2>1. TypeOK /\ TypeOK'
    BY <1>2, NextType DEF CredentialsInv
  <2>2. ASSUME NEW client \in Registrations, Register(client)
        PROVE  ClientsKeyed'
    BY <1>2, <2>1, <2>2
       DEF Register, SetClient, CredentialsInv, ClientsKeyed, TypeOK, StoreTypeOK
  <2>3. ASSUME NEW r \in Requests, TokenStep(r) \/ AuthorizeStep(r) \/ InfoStep(r)
        PROVE  clients' = clients
    BY <2>1, <2>3, RequestKind DEF stepOf
  <2>4. clients' = clients => ClientsKeyed'
    BY <1>2 DEF CredentialsInv, ClientsKeyed
  <2>5. ClientsKeyed'
    BY <1>2, <2>2, <2>3, <2>4 DEF Next, Tick, Restart, vars, storeVars
  <2>6. \A r \in Requests : credentialsRead(req[r])'
    BY <1>2, StepReads
  <2> QED
    BY <2>1, <2>5, <2>6 DEF CredentialsInv
<1> QED
  BY <1>1, <1>2, PTL DEF Spec

\* What the credentials getClientAuth reads say of the request.
LEMMA CredentialsPresented ==
    ASSUME NEW conf, NEW http, NEW found, NEW auth \in Credentials,
           auth = getClientAuth(conf, http, found)
    PROVE  /\ \/ auth.username = http.clientId
              \/ http.header.kind = "basic" /\ auth.username = http.header.username
           /\ auth.password # Nil =>
                 \/ http.header.kind = "basic" /\ http.header.password = auth.password
                 \/ /\ conf.allowClientSecretInParams /\ http.hasSecret
                    /\ http.clientSecret = auth.password
BY ClientsAssumption DEF getClientAuth, inParams

\* What getClient demands of the client it finds.
LEMMA ClientPassed ==
    ASSUME NEW auth, NEW client, getClientError(config, auth, client) = Nil
    PROVE  /\ client # Nil /\ clientSecretUseOf(client) # "other"
           /\ client.method # "none" => client.secret = auth.password
<1>1. client # Nil /\ CheckClientSecret(client, auth.password)
  BY ServerAssumption DEF getClientError, Errors
<1>2. clientSecretUseOf(client) \in {"none", "shared", "other"}
  BY DEF clientSecretUseOf
<1>3. clientSecretUseOf(client) # "other"
  BY <1>1 DEF CheckClientSecret
<1>4. client.method # "none" => clientSecretUseOf(client) # "none"
  BY DEF clientSecretUseOf
<1>5. clientSecretUseOf(client) = "shared" => client.secret = auth.password
  BY <1>1 DEF CheckClientSecret, clientSecretMatches
<1> QED
  BY <1>1, <1>2, <1>3, <1>4, <1>5

LEMMA StepAuthenticates ==
    ASSUME CredentialsInv, [Next]_vars, NEW r \in Requests, at(r, "client"),
           req'[r].pc \in {"load", "decide"}
    PROVE  LET http == req[r].http.auth
               client == GetClient(req[r].auth.username)
           IN  /\ \/ client.id = http.clientId
                  \/ http.header.kind = "basic" /\ client.id = http.header.username
               /\ clientSecretUseOf(client) # "other"
               /\ client.secret # Nil /\ client.method # "none" => presents(http, client.secret)
<1> DEFINE http == req[r].http.auth
           auth == req[r].auth
           client == GetClient(auth.username)
           error == getClientError(config, auth, client)
<1>1. TypeOK /\ ClientsKeyed /\ credentialsRead(req[r])
  BY DEF CredentialsInv
<1>2. ~Restart /\ req'[r] # req[r]
  BY DEF at, Restart, noResponse
<1>3. AuthenticateClient(r)
  <2>1. TokenStep(r) \/ AuthorizeStep(r) \/ InfoStep(r)
    BY <1>1, <1>2, OwnStep
  <2> QED
    BY <2>1 DEF TokenStep, AuthorizeStep, InfoStep, at, HandleAccessRequest, LoadCode, LoadToken,
                Decide, FinishAccessRequest, RemoveSpentCode, RemovePreviousRefresh,
                RemovePreviousAccess, HandleAuthorizeRequest, Deny, GrantToken, GrantCode,
                HandleInfoRequest, FinishInfoRequest
<1>4. ASSUME NEW out, answer(r, out)
      PROVE  FALSE
  <2>1. req'[r].pc = "idle"
    BY <1>1, <1>4, GotoSlots DEF answer, redirect
  <2> QED
    BY <2>1
<1>5. error = Nil
  BY <1>3, <1>4 DEF AuthenticateClient
<1>6. /\ client # Nil /\ clientSecretUseOf(client) # "other"
      /\ client.method # "none" => client.secret = auth.password
  BY <1>5, ClientPassed
<1>7. client.id = auth.username
  BY <1>1, <1>6 DEF GetClient, ClientsKeyed
<1>8. PICK found \in Registrations \cup {Nil} : auth = getClientAuth(config, http, found)
  BY <1>1 DEF credentialsRead, at
<1>9. auth \in Credentials
  BY <1>1, LocalsType
<1>10. /\ \/ auth.username = http.clientId
          \/ http.header.kind = "basic" /\ auth.username = http.header.username
       /\ auth.password # Nil => presents(http, auth.password)
  BY <1>8, <1>9, CredentialsPresented DEF presents
<1> QED
  BY <1>6, <1>7, <1>10

\* No request passes getClient but as a client it names, with that client's
\* secret if the client uses one, whatever is registered between the two
\* lookups and whatever grant it asks for.
THEOREM ClientsAuthenticated == Spec => Authenticated
<1>1. CredentialsInv /\ [Next]_vars =>
        [\A r \in Requests :
          at(r, "client") /\ req'[r].pc \in {"load", "decide"} =>
              LET http == req[r].http.auth
                  client == GetClient(req[r].auth.username)
              IN  /\ \/ client.id = http.clientId
                     \/ http.header.kind = "basic" /\ client.id = http.header.username
                  /\ clientSecretUseOf(client) # "other"
                  /\ client.secret # Nil /\ client.method # "none"
                        => presents(http, client.secret)]_vars
  BY StepAuthenticates
<1> QED
  BY <1>1, CredentialsInvariant, PTL DEF Spec, Authenticated
===============================================================================
