------------------------------ MODULE InfoProofs -------------------------------
(***************************************************************************)
(* What a resource server is told of a token: InfoIsCurrent and            *)
(* LifetimeNotOverstated.                                                  *)
(*                                                                         *)
(* The info endpoint reads the storage once and the clock twice; between   *)
(* the two the token may be replaced, removed and, by an application that  *)
(* hands it out again, saved again.  Its lifetime is reported from what    *)
(* was read first, and the report is right because a saved token never     *)
(* changes its date, as LifetimeInv has it.                                *)
(***************************************************************************)
EXTENDS RotationProofs

\* The step that takes up a token reads it from the storage.
LEMMA InfoTaken ==
    ASSUME TypeOK, NEW r \in Requests, NEW http \in InfoRequests, HandleInfoRequest(r, http),
           req'[r].pc = "info"
    PROVE  \E t \in AccessTokens :
              access[t] # Nil /\ infoError(access[t]) = Nil /\ req'[r].data = access[t]
<1> DEFINE token == CheckBearerAuth(http)
<1>1. ~answer(r, "invalid_request") /\ ~answer(r, infoError(access[token]))
  BY GotoSlots DEF answer, redirect
<1>2. /\ asksForToken(http) /\ infoError(access[token]) = Nil
      /\ goto(r, [pc |-> "info", data |-> access[token]])
  BY <1>1 DEF HandleInfoRequest, LoadAccess
<1>3. token \in AccessTokens
  BY <1>2, InfoRequestsAssumption DEF asksForToken, CheckBearerAuth, InfoRequest
<1>4. access[token] # Nil
  BY <1>2, ServerAssumption DEF infoError, Errors
<1>5. req'[r].data = access[token]
  BY <1>2, GotoSlots
<1> QED
  BY <1>2, <1>3, <1>4, <1>5

\* A record in the storage is one of the history, but for a lost binding.
LEMMA StoredIsGranted ==
    ASSUME RequestInv, NEW t \in AccessTokens, access[t] # Nil
    PROVE  /\ isGranted(t) /\ granted[t] \in AccessData /\ access[t] \in AccessData
           /\ access[t].accessToken = t /\ access[t].expireAt = granted[t].expireAt
           /\ access[t].senderConstraint # Nil => granted[t].senderConstraint # Nil
<1>1. isGranted(t) /\ access[t] = persisted(granted[t]) /\ granted[t].accessToken = t
  BY DEF RequestInv, TablesAgree
<1>2. granted[t] \in AccessData /\ access[t] \in AccessData
  BY <1>1 DEF RequestInv, TypeOK, StoreTypeOK, isGranted
<1> QED
  BY <1>1, <1>2, PersistedBinding DEF persisted, AccessData

-----------------------------------------------------------------------------
\* The step that puts a request into the stage "info".
LEMMA InfoStepOf ==
    ASSUME TypeOK, [Next]_vars, NEW r \in Requests, req'[r] # req[r], req'[r].pc = "info"
    PROVE  \E http \in InfoRequests : HandleInfoRequest(r, http)
<1>1. ~Restart
  BY DEF Restart, noResponse
<1>2. stepOf(r)
  BY <1>1, OwnStep, RequestKind
<1>3. quiet(r)
  <2>1. SUFFICES ASSUME ~quiet(r)
                 PROVE  FALSE
    OBVIOUS
  <2>2. PICK s : goto(r, s) /\ s.pc \notin {"client", "load", "login", "info"}
    BY <1>2, <2>1, LoudSlot
  <2> QED
    BY <2>2, GotoSlots
<1>4. PICK s \in Slot :
         /\ goto(r, s)
         /\ s.pc = "info" => \E http \in InfoRequests : HandleInfoRequest(r, http)
  BY <1>3 DEF quiet
<1> QED
  BY <1>4, GotoSlots

LEMMA TakenIsCurrent ==
    ASSUME neverRetains, RotationInv, RequestInv, [Next]_vars, NEW r \in Requests,
           at(r, "idle"), req'[r].pc = "info"
    PROVE  LET t == req'[r].data.accessToken
           IN  /\ isGranted(t) /\ granted[t].expireAt >= now
               /\ config.requireSenderConstrainedTokens => granted[t].senderConstraint # Nil
               /\ \A s \in delivered : ~replaces(s, t)
<1>1. PICK t \in AccessTokens :
         access[t] # Nil /\ infoError(access[t]) = Nil /\ req'[r].data = access[t]
  BY InfoStepOf, InfoTaken DEF at, RequestInv
<1>2. req'[r].data.accessToken = t /\ isGranted(t) /\ granted[t].expireAt = access[t].expireAt
  BY <1>1, StoredIsGranted
<1>3. ~unbound(access[t]) /\ ~IsExpiredAt(access[t], now)
  BY <1>1, ServerAssumption DEF infoError, Errors
<1>4. config.requireSenderConstrainedTokens => granted[t].senderConstraint # Nil
  BY <1>1, <1>3, StoredIsGranted DEF unbound
<1>5. granted[t].expireAt >= now
  <2>1. now \in Int /\ access[t].expireAt \in Int
    BY <1>1, StoredIsGranted, GrantsAssumption DEF AccessData, RequestInv, TypeOK, ServerTypeOK
  <2> QED
    BY <1>2, <1>3, <2>1 DEF IsExpiredAt
<1>6. ASSUME NEW s \in delivered
      PROVE  ~replaces(s, t)
  <2>1. sourceSpent(granted[s])
    BY DEF RotationInv, DeliveredSpent
  <2> QED
    BY <1>1, <2>1 DEF sourceSpent, tokenSpent, replaces
<1> QED
  BY <1>2, <1>4, <1>5, <1>6

\* The info endpoint takes up no token that is expired, unbound where tokens
\* must be bound, or replaced by one that its client has received.
THEOREM InfoStaysCurrent ==
    ASSUME rotates, neverRetains
    PROVE  Spec => InfoIsCurrent
<1>1. RotationInv /\ RequestInv /\ [Next]_vars =>
        [\A r \in Requests :
          at(r, "idle") /\ req'[r].pc = "info" =>
              LET t == req'[r].data.accessToken
              IN  /\ isGranted(t) /\ granted[t].expireAt >= now
                  /\ config.requireSenderConstrainedTokens => granted[t].senderConstraint # Nil
                  /\ \A s \in delivered : ~replaces(s, t)]_vars
  BY TakenIsCurrent
<1> QED
  BY <1>1, RotationInvariant, RequestInvariant, PTL DEF Spec, InfoIsCurrent

-----------------------------------------------------------------------------
(* The lifetime. *)

\* The record d says when its token expires.
datedAs(d) == isGranted(d.accessToken) /\ granted[d.accessToken].expireAt = d.expireAt

slotDated(s) ==
    /\ s.pc = "info" => datedAs(s.data)
    /\ s.pc \in {"decide", "finish"} /\ s.ar.forceAccessData # Nil => datedAs(s.ar.forceAccessData)

LifetimeInv == RequestInv /\ \A r \in Requests : slotDated(req[r])

datesKept ==
    \A t \in AccessTokens : isGranted(t) =>
        isGranted(t)' /\ granted'[t].expireAt = granted[t].expireAt

LEMMA SaveKeepsDates ==
    ASSUME ~RepeatsTokens, LifetimeInv, NEW r \in Requests, saves(r)
    PROVE  datesKept
<1> DEFINE ar == req[r].ar
<1>1. PICK data \in produced(ar) :
         LET ret == withBinding(data, ar)
         IN  data \in AccessData /\ ret \in AccessData /\ SaveAccess(ret)
  BY DEF saves
<1>2. PICK ret \in AccessData : ret = withBinding(data, ar) /\ SaveAccess(ret)
  BY <1>1
<1>3. /\ ret # Nil /\ ret.accessToken \in AccessTokens
      /\ \A t \in AccessTokens : granted'[t] = IF t = ret.accessToken THEN ret ELSE granted[t]
  BY <1>2, RecordsAssumption DEF SaveAccess, LifetimeInv, RequestInv, TypeOK, StoreTypeOK, AccessData
<1>4. ar \in AccessRequest /\ slotDated(req[r])
  BY DEF saves, LifetimeInv
<1>5. isGranted(ret.accessToken) => granted[ret.accessToken].expireAt = ret.expireAt
  <2>1. CASE ar.forceAccessData = Nil
    <3>1. ret.accessToken \in unusedAccess
      BY <1>1, <1>2, <1>4, <2>1, ProducedFields
    <3> QED
      BY <3>1 DEF unusedAccess, isGranted
  <2>2. CASE ar.forceAccessData # Nil
    <3>1. data = ar.forceAccessData /\ datedAs(data)
      BY <1>4, <2>2 DEF produced, slotDated, saves, at
    <3>2. ret.accessToken = data.accessToken /\ ret.expireAt = data.expireAt
      BY <1>1, <1>2 DEF withBinding, AccessData
    <3> QED
      BY <3>1, <3>2 DEF datedAs
  <2> QED
    BY <2>1, <2>2
<1> QED
  BY <1>3, <1>5 DEF datesKept, isGranted

LEMMA StepKeepsDates ==
    ASSUME ~RepeatsTokens, LifetimeInv, [Next]_vars
    PROVE  datesKept
<1>1. CASE UNCHANGED granted
  BY <1>1 DEF datesKept, isGranted
<1>2. CASE granted' # granted
  <2>1. outside \/ Restart \/ \E q \in Requests : stepOf(q)
    BY StepKinds DEF LifetimeInv, RequestInv
  <2>2. PICK q \in Requests : saves(q)
    BY <1>2, <2>1 DEF outside, Restart, stepOf, quiet, asks, loadsCode, loadsToken, decides,
                      offersCode, removes, SaveAuthorize, RemoveAuthorize, RemoveRefresh,
                      RemoveAccess, storeVars
  <2> QED
    BY <2>2, SaveKeepsDates
<1> QED
  BY <1>1, <1>2

LEMMA SlotStaysDated ==
    ASSUME datesKept, NEW s \in Slot, slotDated(s)
    PROVE  slotDated(s)'
<1>1. CASE s.pc = "info"
  <2>1. s.data \in AccessData
    BY <1>1 DEF Slot, Response, Report
  <2> QED
    BY <1>1, <2>1 DEF slotDated, datedAs, datesKept, AccessData, isGranted
<1>2. CASE s.pc \in {"decide", "finish"}
  <2>1. s.ar \in AccessRequest
    BY <1>2 DEF Slot, Response, Report
  <2>2. s.ar.forceAccessData # Nil => s.ar.forceAccessData \in AccessData
    BY <2>1 DEF AccessRequest
  <2> QED
    BY <1>2, <2>2 DEF slotDated, datedAs, datesKept, AccessData, isGranted
<1>3. CASE s.pc \notin {"info", "decide", "finish"}
  BY <1>3 DEF slotDated
<1> QED
  BY <1>1, <1>2, <1>3

\* What is read from the storage bears the date of its token from then on.
LEMMA StoredStaysDated ==
    ASSUME RequestInv, datesKept, NEW t \in AccessTokens, access[t] # Nil, NEW d, d = access[t]
    PROVE  datedAs(d)'
<1>1. isGranted(t) /\ d.accessToken = t /\ d.expireAt = granted[t].expireAt
  BY StoredIsGranted
<1> QED
  BY <1>1 DEF datedAs, datesKept, isGranted

LEMMA DecidesDated ==
    ASSUME RequestInv, datesKept, NEW r \in Requests, decides(r)
    PROVE  \E s : goto(r, s) /\ slotDated(s)'
<1>1. PICK force \in {Nil} \cup reusable(req[r].ar), ar \in AccessRequest :
         goto(r, [pc |-> "finish", ar |-> ar]) /\ ar.forceAccessData = force
  BY DEF decides
<1>2. CASE force = Nil
  BY <1>1, <1>2 DEF slotDated
<1>3. CASE force # Nil
  <2>1. PICK t \in AccessTokens : access[t] # Nil /\ force = access[t]
    BY <1>3 DEF reusable
  <2>2. datedAs(force)'
    BY <2>1, StoredStaysDated
  <2> QED
    BY <1>1, <2>2 DEF slotDated
<1> QED
  BY <1>2, <1>3

LEMMA LoudDated ==
    ASSUME RequestInv, datesKept, NEW r \in Requests, stepOf(r), ~quiet(r)
    PROVE  \E s : goto(r, s) /\ slotDated(s)'
<1>1. ASSUME NEW pc \in {"decide", "finish"}, NEW ar, ar.forceAccessData = Nil,
             goto(r, [pc |-> pc, ar |-> ar])
      PROVE  \E s : goto(r, s) /\ slotDated(s)'
  BY <1>1 DEF slotDated
<1>2. CASE asks(r)
  BY <1>1, <1>2 DEF asks
<1>3. CASE loadsCode(r)
  <2>1. PICK data, ar : ar = codeRequest(data, req[r].http, req[r].client)
                        /\ goto(r, [pc |-> "decide", ar |-> ar])
    BY <1>3 DEF loadsCode
  <2> QED
    BY <1>1, <2>1 DEF codeRequest
<1>4. CASE loadsToken(r)
  <2>1. PICK data, ar : ar = refreshRequest(data, req[r].http, req[r].client)
                        /\ goto(r, [pc |-> "decide", ar |-> ar])
    BY <1>4 DEF loadsToken
  <2> QED
    BY <1>1, <2>1 DEF refreshRequest
<1>5. CASE offersCode(r) \/ saves(r) \/ removes(r)
  <2>1. \A stage, ret : stageAfter(stage, ret) \notin {"info", "decide", "finish"}
    BY DEF stageAfter
  <2>2. PICK s : goto(r, s) /\ s.pc \notin {"info", "decide", "finish"}
    BY <1>5, <2>1 DEF offersCode, saves, removes, continues
  <2> QED
    BY <2>2 DEF slotDated
<1> QED
  BY <1>2, <1>3, <1>4, <1>5, DecidesDated DEF stepOf

LEMMA StepDated ==
    ASSUME LifetimeInv, datesKept, [Next]_vars, NEW r \in Requests
    PROVE  slotDated(req[r])'
<1>1. TypeOK /\ req[r] \in Slot /\ slotDated(req[r])
  BY DEF LifetimeInv, RequestInv, TypeOK, ServerTypeOK
<1>2. ASSUME NEW s, slotDated(s)', req'[r] = s
      PROVE  slotDated(req[r])'
  BY <1>2 DEF slotDated, datedAs
<1>3. CASE req'[r] = req[r]
  <2> PICK s \in Slot : s = req[r]
    BY <1>1
  <2> QED
    BY <1>1, <1>2, <1>3, SlotStaysDated
<1>4. CASE Restart
  BY <1>4 DEF Restart, noResponse, slotDated
<1>5. CASE req'[r] # req[r] /\ ~Restart
  <2>1. stepOf(r)
    BY <1>1, <1>5, OwnStep, RequestKind
  <2>2. CASE req'[r].pc = "info"
    <3>1. PICK t \in AccessTokens, d \in AccessData :
                  access[t] # Nil /\ d = access[t] /\ req'[r].data = d
      BY <1>1, <1>5, <2>2, InfoStepOf, InfoTaken, StoredIsGranted DEF LifetimeInv
    <3>2. datedAs(d)'
      BY <3>1, StoredStaysDated DEF LifetimeInv
    <3> QED
      BY <2>2, <3>1, <3>2 DEF slotDated, datedAs
  <2>3. CASE quiet(r) /\ req'[r].pc # "info"
    <3>1. PICK s \in Slot : goto(r, s) /\ s.pc \in {"idle", "load", "client", "login", "info"}
      BY <2>3 DEF quiet
    <3>2. req'[r] = s
      BY <1>1, <3>1, GotoSlots
    <3> QED
      BY <2>3, <3>1, <3>2 DEF slotDated
  <2>4. CASE ~quiet(r)
    <3>1. PICK s : goto(r, s) /\ slotDated(s)'
      BY <2>1, <2>4, LoudDated DEF LifetimeInv
    <3> QED
      BY <1>1, <1>2, <3>1, GotoSlots
  <2> QED
    BY <2>2, <2>3, <2>4
<1> QED
  BY <1>3, <1>4, <1>5

\* What the info endpoint is about to report is dated as its token is.
LEMMA LifetimeInvariant ==
    ASSUME ~RepeatsTokens
    PROVE  Spec => []LifetimeInv
<1>1. Init => LifetimeInv
  <2>1. Init => \A r \in Requests : req[r].pc = "idle"
    BY DEF Init, ServerInit, noResponse
  <2> QED
    BY <2>1, InitChecked DEF LifetimeInv, slotDated
<1>2. LifetimeInv /\ [Next]_vars => LifetimeInv'
  BY NextChecked, StepKeepsDates, StepDated DEF LifetimeInv
<1> QED
  BY <1>1, <1>2, PTL DEF Spec

\* Whole seconds do not exceed the duration they are taken from.
LEMMA WholeSecondsBound ==
    ASSUME NEW d \in Int, wholeSeconds(d) > 0
    PROVE  Second * wholeSeconds(d) <= d
<1>1. CASE d < 0
  <2>1. PICK n \in Nat : n = -d
    BY <1>1
  <2>2. n \div Second \in Nat
    BY QuotientType
  <2>3. wholeSeconds(d) = -(n \div Second)
    BY <1>1, <2>1 DEF wholeSeconds
  <2> QED
    BY <2>2, <2>3
<1>2. CASE d >= 0
  BY <1>2, ServerAssumption DEF wholeSeconds
<1> QED
  BY <1>1, <1>2

LEMMA ReportedLifetime ==
    ASSUME LifetimeInv, [Next]_vars, NEW r \in Requests,
           at(r, "info"), req'[r].pc = "idle", req'[r].out = "report", req'[r].expiresIn > 0
    PROVE  now + Second * req'[r].expiresIn <= granted[req'[r].token].expireAt
<1>1. TypeOK /\ datedAs(req[r].data) /\ req[r] \in Slot
  BY DEF LifetimeInv, slotDated, at, RequestInv, TypeOK, ServerTypeOK
<1>2. ~Restart
  BY DEF Restart, noResponse
<1>3. TokenStep(r) \/ AuthorizeStep(r) \/ InfoStep(r)
  BY <1>1, <1>2, OwnStep DEF at
<1>4. FinishInfoRequest(r)
  BY <1>3 DEF at, TokenStep, AuthorizeStep, InfoStep, HandleAccessRequest, AuthenticateClient,
              LoadCode, LoadToken, Decide, FinishAccessRequest, RemoveSpentCode,
              RemovePreviousRefresh, RemovePreviousAccess, HandleAuthorizeRequest, Deny,
              GrantToken, GrantCode, HandleInfoRequest
<1> PICK data \in AccessData : data = req[r].data
  BY <1>1 DEF at, Slot, Response, Report
<1>5. req'[r].token = data.accessToken /\ req'[r].expiresIn = remaining(data)
  BY <1>1, <1>4, GotoSlots DEF FinishInfoRequest
<1>6. now \in Int /\ data.expireAt \in Int
  BY <1>1, GrantsAssumption DEF AccessData, TypeOK, ServerTypeOK
<1> PICK d \in Int : d = data.expireAt - now
  BY <1>6
<1>7. wholeSeconds(d) > 0 /\ req'[r].expiresIn = wholeSeconds(d)
  BY <1>5 DEF remaining
<1>8. Second * wholeSeconds(d) <= d
  BY <1>7, WholeSecondsBound
<1>9. Second * wholeSeconds(d) \in Int
  <2>1. wholeSeconds(d) \in Int
    BY ServerAssumption DEF wholeSeconds
  <2> QED
    BY <2>1, ServerAssumption
<1>10. granted[req'[r].token].expireAt = data.expireAt
  BY <1>1, <1>5 DEF datedAs
<1> PICK s \in Int : s = Second * wholeSeconds(d)
  BY <1>9
<1> QED
  BY <1>6, <1>7, <1>8, <1>10

\* The lifetime that is reported ends no later than the token, whatever
\* happens between the two readings of the clock.
THEOREM LifetimesNotOverstated ==
    ASSUME ~RepeatsTokens
    PROVE  Spec => LifetimeNotOverstated
<1>1. LifetimeInv /\ [Next]_vars =>
        [\A r \in Requests :
          at(r, "info") /\ req'[r].pc = "idle" /\ req'[r].out = "report" /\ req'[r].expiresIn > 0 =>
              now + Second * req'[r].expiresIn <= granted[req'[r].token].expireAt]_vars
  BY ReportedLifetime
<1> QED
  BY <1>1, LifetimeInvariant, PTL DEF Spec, LifetimeNotOverstated
=============================================================================
