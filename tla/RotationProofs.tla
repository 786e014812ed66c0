---------------------------- MODULE RotationProofs -----------------------------
(***************************************************************************)
(* Rotation of tokens: SpentStaysSpent and RefreshResolves, for every      *)
(* number of overlapping requests, failed calls other than removals, and   *)
(* restarts.                                                               *)
(*                                                                         *)
(* Three hypotheses, and neither property holds without them.  A generator *)
(* that repeats a token, and an application that hands out a stored record *)
(* again, bring back what was withdrawn; a removal that fails is ignored.  *)
(*                                                                         *)
(* RotationInv follows a request through its removals: what it has removed *)
(* so far is gone, and what is gone stays gone, since only unused codes    *)
(* and tokens are ever written.                                            *)
(***************************************************************************)
EXTENDS RequestProofs, GrantProofs

rotates == ~RepeatsTokens /\ ~ReuseAccessData /\ "remove" \notin FaultKinds

neverRetains == \A c \in Configs : ~c.retainTokenAfterRefresh

\* Used, and withdrawn since.
codeSpent(c) == c # Nil => c \notin unusedCodes /\ authorize[c] = Nil
tokenSpent(t) == t \notin unusedAccess /\ access[t] = Nil
refreshSpent(rt) == rt # Nil => rt \notin unusedRefresh /\ refresh[rt] = Nil

\* A refresh token in the storage leads to the token it was issued with.
RefreshIndexed ==
    \A rt \in RefreshTokens : refresh[rt] # Nil =>
        /\ access[refresh[rt]] # Nil
        /\ isGranted(refresh[rt]) /\ granted[refresh[rt]].refreshToken = rt

\* What a request has removed on its way to the next removal.
slotRotated(s) ==
    /\ s.pc \in {"decide", "finish"} => s.ar.forceAccessData = Nil
    /\ s.pc \in {"rmRefresh", "rmAccess"} => s.ret.accessData # Nil /\ codeSpent(s.ret.authorizeData)
    /\ s.pc = "rmAccess" => refreshSpent(s.ret.accessData.refreshToken)

SlotsRotated == \A r \in Requests : slotRotated(req[r])

\* What a token was exchanged for is spent.
sourceSpent(data) ==
    /\ codeSpent(data.authorizeData)
    /\ neverRetains /\ data.accessData # Nil =>
          tokenSpent(data.accessData.accessToken) /\ refreshSpent(data.accessData.refreshToken)

DeliveredSpent == \A t \in delivered : isGranted(t) /\ sourceSpent(granted[t])

RotationInv == GrantInv /\ RefreshIndexed /\ SlotsRotated /\ DeliveredSpent

-----------------------------------------------------------------------------
(* What is spent stays spent. *)

spentKept ==
    /\ \A c \in Codes : codeSpent(c) => codeSpent(c)'
    /\ \A t \in AccessTokens :
          /\ tokenSpent(t) => tokenSpent(t)'
          /\ isGranted(t) => granted'[t] = granted[t]
    /\ \A rt \in RefreshTokens : refreshSpent(rt) => refreshSpent(rt)'

LEMMA StutterRotates ==
    ASSUME RefreshIndexed, UNCHANGED <<authorize, access, refresh, offered, granted>>
    PROVE  spentKept /\ RefreshIndexed'
<1>1. UNCHANGED <<unusedCodes, unusedAccess, unusedRefresh>>
  BY DEF unusedCodes, unusedAccess, unusedRefresh
<1>2. spentKept
  BY <1>1 DEF spentKept, codeSpent, tokenSpent, refreshSpent
<1> QED
  BY <1>2 DEF RefreshIndexed, isGranted

LEMMA OfferRotates ==
    ASSUME TypeOK, RefreshIndexed, NEW data \in AuthorizeData, data.code \in unusedCodes,
           SaveAuthorize(data)
    PROVE  spentKept /\ RefreshIndexed'
<1>1. UNCHANGED <<access, refresh, granted, unusedAccess, unusedRefresh>>
  BY DEF SaveAuthorize, unusedAccess, unusedRefresh
<1>2. data # Nil
  BY RecordsAssumption
<1>3. \A c \in Codes : c \notin unusedCodes =>
         offered'[c] = offered[c] /\ authorize'[c] = authorize[c]
  BY DEF SaveAuthorize, TypeOK, StoreTypeOK
<1>4. \A c \in Codes : codeSpent(c) => codeSpent(c)'
  BY <1>3 DEF codeSpent, unusedCodes
<1>5. spentKept
  BY <1>1, <1>4 DEF spentKept, tokenSpent, refreshSpent
<1> QED
  BY <1>1, <1>5 DEF RefreshIndexed, isGranted

LEMMA IssueRotates ==
    ASSUME ~RepeatsTokens, TypeOK, RefreshIndexed, NEW ret \in AccessData, SaveAccess(ret),
           ret.accessToken \in unusedAccess, ret.refreshToken \in unusedRefresh \cup {Nil}
    PROVE  spentKept /\ RefreshIndexed'
<1> DEFINE token == ret.accessToken
           rt == ret.refreshToken
<1>1. /\ token \in AccessTokens /\ granted[token] = Nil
      /\ rt \in RefreshTokens \cup {Nil} /\ Nil \notin RefreshTokens
      /\ \A a \in AccessTokens : granted[a] # Nil /\ rt # Nil => granted[a].refreshToken # rt
  BY GrantsAssumption DEF unusedAccess, unusedRefresh
<1>2. ret # Nil /\ persisted(ret) \in AccessData /\ persisted(ret) # Nil
  BY RecordsAssumption DEF persisted, AccessData
<1>3. /\ \A t \in AccessTokens :
            /\ access'[t] = IF t = token THEN persisted(ret) ELSE access[t]
            /\ granted'[t] = IF t = token THEN ret ELSE granted[t]
      /\ \A x \in RefreshTokens : refresh'[x] = IF x = rt THEN token ELSE refresh[x]
      /\ UNCHANGED <<authorize, offered>>
  BY <1>1 DEF SaveAccess, TypeOK, StoreTypeOK
<1>4. /\ \A t \in AccessTokens : t \notin unusedAccess => t \notin unusedAccess'
      /\ \A x \in RefreshTokens : x \notin unusedRefresh => x \notin unusedRefresh'
  <2>1. \A t \in AccessTokens : granted[t] # Nil => granted'[t] = granted[t]
    BY <1>1, <1>3
  <2> QED
    BY <2>1 DEF unusedAccess, unusedRefresh
<1>5. \A t \in AccessTokens :
         (tokenSpent(t) => tokenSpent(t)') /\ (isGranted(t) => granted'[t] = granted[t])
  BY <1>1, <1>3, <1>4 DEF tokenSpent, isGranted
<1>6. \A x \in RefreshTokens : refreshSpent(x) => refreshSpent(x)'
  BY <1>1, <1>3, <1>4 DEF refreshSpent
<1>7. \A c \in Codes : codeSpent(c) => codeSpent(c)'
  BY <1>3 DEF codeSpent, unusedCodes
<1>8. ASSUME NEW x \in RefreshTokens, refresh'[x] # Nil
      PROVE  /\ access'[refresh'[x]] # Nil
             /\ granted'[refresh'[x]] # Nil /\ granted'[refresh'[x]].refreshToken = x
  <2>1. CASE x = rt
    BY <1>1, <1>2, <1>3, <2>1 DEF isGranted
  <2>2. CASE x # rt
    <3>1. refresh'[x] = refresh[x] /\ refresh[x] \in AccessTokens
      BY <1>3, <1>8, <2>2 DEF TypeOK, StoreTypeOK
    <3>2. /\ access[refresh[x]] # Nil
          /\ isGranted(refresh[x]) /\ granted[refresh[x]].refreshToken = x
      BY <1>8, <3>1 DEF RefreshIndexed
    <3>3. refresh[x] # token
      BY <1>1, <3>2 DEF isGranted
    <3> QED
      BY <1>3, <3>1, <3>2, <3>3 DEF isGranted
  <2> QED
    BY <2>1, <2>2
<1> QED
  BY <1>5, <1>6, <1>7, <1>8 DEF spentKept, RefreshIndexed, isGranted

\* A removal that does not fail.
removed(r) ==
    \/ at(r, "rmAuthorize") /\ RemoveAuthorize(req[r].ret.authorizeData)
    \/ at(r, "rmRefresh") /\ RemoveRefresh(req[r].ret.accessData.refreshToken)
    \/ at(r, "rmAccess") /\ RemoveAccess(req[r].ret.accessData.accessToken)

\* The token that a request removes last is found by no refresh token any
\* more: the one that led to it was removed before.
LEMMA RemovalRotates ==
    ASSUME ~RepeatsTokens, GrantInv, RefreshIndexed, NEW r \in Requests, slotRotated(req[r]),
           req[r].ret \in AccessData, removed(r)
    PROVE  spentKept /\ RefreshIndexed'
<1> DEFINE ret == req[r].ret
           old == ret.accessData
<1>1. UNCHANGED <<offered, granted, unusedCodes, unusedAccess, unusedRefresh>>
  BY DEF removed, RemoveAuthorize, RemoveRefresh, RemoveAccess, unusedCodes, unusedAccess,
         unusedRefresh
<1>2. /\ \A c \in Codes : authorize'[c] \in {authorize[c], Nil}
      /\ \A t \in AccessTokens : access'[t] \in {access[t], Nil}
      /\ \A x \in RefreshTokens : refresh'[x] \in {refresh[x], Nil}
  BY DEF removed, RemoveAuthorize, RemoveRefresh, RemoveAccess, GrantInv, TypeOK, StoreTypeOK
<1>3. spentKept
  BY <1>1, <1>2 DEF spentKept, codeSpent, tokenSpent, refreshSpent
<1>4. ASSUME NEW x \in RefreshTokens, refresh'[x] # Nil
      PROVE  access'[refresh[x]] # Nil
  <2>1. /\ refresh[x] \in AccessTokens /\ access[refresh[x]] # Nil
        /\ isGranted(refresh[x]) /\ granted[refresh[x]].refreshToken = x
    BY <1>2, <1>4 DEF RefreshIndexed, GrantInv, TypeOK, StoreTypeOK
  <2>2. CASE ~at(r, "rmAccess")
    BY <2>1, <2>2 DEF removed, RemoveAuthorize, RemoveRefresh
  <2>3. CASE at(r, "rmAccess")
    <3>1. RemoveAccess(old.accessToken) /\ UNCHANGED refresh
      BY <2>3 DEF removed, RemoveAccess, at
    <3>2. recorded(ret, granted) /\ old # Nil /\ old \in TokenPair
      BY <2>3 DEF GrantInv, SlotsRecorded, slotRecorded, removalRecorded, at, AccessData
    <3>3. /\ isGranted(ret.accessToken) /\ ret.accessToken \in AccessTokens
          /\ granted[ret.accessToken].accessData = old
      BY <3>2 DEF recorded, sameGrant, isGranted, AccessData
    <3>4. granted[old.accessToken].refreshToken = old.refreshToken
      BY <3>2, <3>3 DEF GrantInv, StoreInv, PairsRecorded
    <3>5. refreshSpent(old.refreshToken)
      BY <2>3 DEF slotRotated, at
    <3>6. refresh[x] # old.accessToken
      BY <1>4, <2>1, <3>1, <3>4, <3>5, GrantsAssumption DEF refreshSpent
    <3> QED
      BY <2>1, <3>1, <3>6 DEF RemoveAccess, GrantInv, TypeOK, StoreTypeOK
  <2> QED
    BY <2>2, <2>3
<1>5. RefreshIndexed'
  BY <1>1, <1>2, <1>4 DEF RefreshIndexed, isGranted
<1> QED
  BY <1>3, <1>5

-----------------------------------------------------------------------------
(* The requests and the tokens delivered. *)

LEMMA SlotStaysRotated ==
    ASSUME spentKept, NEW s \in Slot, slotRotated(s)
    PROVE  slotRotated(s)'
<1>1. CASE s.pc \in {"rmAuthorize", "rmRefresh", "rmAccess"}
  <2>1. s.ret \in AccessData
    BY <1>1 DEF Slot, Response, Report
  <2>2. /\ s.ret.authorizeData \in Codes \cup {Nil}
        /\ s.ret.accessData # Nil => s.ret.accessData.refreshToken \in RefreshTokens \cup {Nil}
    BY <2>1 DEF AccessData, TokenPair
  <2>3. codeSpent(s.ret.authorizeData) => codeSpent(s.ret.authorizeData)'
    BY <2>2 DEF spentKept, codeSpent
  <2>4. ASSUME s.ret.accessData # Nil, refreshSpent(s.ret.accessData.refreshToken)
        PROVE  refreshSpent(s.ret.accessData.refreshToken)'
    BY <2>2, <2>4 DEF spentKept, refreshSpent
  <2> QED
    BY <1>1, <2>3, <2>4 DEF slotRotated
<1>2. CASE s.pc \notin {"rmAuthorize", "rmRefresh", "rmAccess"}
  BY <1>2 DEF slotRotated
<1> QED
  BY <1>1, <1>2

LEMMA OthersStayRotated ==
    ASSUME TypeOK, SlotsRotated, spentKept, NEW r \in Requests, NEW s, goto(r, s),
           slotRotated(s)'
    PROVE  SlotsRotated'
<1>1. ASSUME NEW q \in Requests, NEW t, req'[q] = t, slotRotated(t)'
      PROVE  slotRotated(req[q])'
  BY <1>1 DEF slotRotated, codeSpent, refreshSpent
<1>2. ASSUME NEW q \in Requests
      PROVE  slotRotated(req[q])'
  <2>1. CASE q = r
    BY <1>1, <2>1, GotoSlots
  <2>2. CASE q # r
    <3>1. PICK t \in Slot : t = req[q]
      BY DEF TypeOK, ServerTypeOK
    <3>2. req'[q] = t /\ slotRotated(t)
      BY <2>2, <3>1, GotoSlots DEF SlotsRotated
    <3> QED
      BY <1>1, <3>1, <3>2, SlotStaysRotated
  <2> QED
    BY <2>1, <2>2
<1> QED
  BY <1>2 DEF SlotsRotated

\* The sources of a recorded token stay spent.
LEMMA SourceStaysSpent ==
    ASSUME spentKept, NEW data \in AccessData, sourceSpent(data)
    PROVE  sourceSpent(data)'
<1>1. /\ data.authorizeData \in Codes \cup {Nil}
      /\ data.accessData # Nil => data.accessData \in TokenPair
  BY DEF AccessData
<1>2. codeSpent(data.authorizeData)'
  BY <1>1 DEF sourceSpent, spentKept, codeSpent
<1>3. ASSUME data.accessData # Nil, tokenSpent(data.accessData.accessToken),
             refreshSpent(data.accessData.refreshToken)
      PROVE  tokenSpent(data.accessData.accessToken)' /\ refreshSpent(data.accessData.refreshToken)'
  BY <1>1, <1>3 DEF spentKept, refreshSpent, TokenPair
<1> QED
  BY <1>2, <1>3 DEF sourceSpent, neverRetains

LEMMA DeliveredStaySpent ==
    ASSUME TypeOK, DeliveredSpent, spentKept, NEW t \in delivered
    PROVE  isGranted(t)' /\ sourceSpent(granted[t])'
<1>1. t \in AccessTokens /\ isGranted(t) /\ sourceSpent(granted[t])
  BY DEF TypeOK, ServerTypeOK, DeliveredSpent
<1>2. PICK data \in AccessData : granted[t] = data
  BY <1>1 DEF TypeOK, StoreTypeOK, isGranted
<1>3. granted'[t] = data /\ data # Nil
  BY <1>1, <1>2 DEF spentKept, isGranted
<1>4. sourceSpent(data)'
  BY <1>1, <1>2, SourceStaysSpent
<1> QED
  BY <1>3, <1>4 DEF isGranted, sourceSpent, codeSpent, tokenSpent, refreshSpent

\* A step that delivers nothing.
LEMMA LocalStepRotates ==
    ASSUME RotationInv, GrantInv', spentKept, RefreshIndexed', UNCHANGED delivered,
           NEW r \in Requests, NEW s, goto(r, s), slotRotated(s)'
    PROVE  RotationInv'
<1>1. SlotsRotated'
  BY OthersStayRotated DEF RotationInv, GrantInv
<1>2. DeliveredSpent'
  BY DeliveredStaySpent DEF RotationInv, GrantInv, DeliveredSpent
<1> QED
  BY <1>1, <1>2 DEF RotationInv

\* What is gone after a stage of FinishAccessRequest.
goneAfter(stage, ret) ==
    /\ stage # "save" => codeSpent(ret.authorizeData)
    /\ stage \in {"rmRefresh", "rmAccess"} =>
          ret.accessData # Nil /\ refreshSpent(ret.accessData.refreshToken)
    /\ stage = "rmAccess" => tokenSpent(ret.accessData.accessToken)

\* When no removal is left to do, all that was replaced is gone.
LEMMA AnsweredSpent ==
    ASSUME NEW ret, NEW stage \in {"save", "rmAuthorize", "rmRefresh", "rmAccess"},
           TypeOK', UNCHANGED config, goneAfter(stage, ret)', stageAfter(stage, ret) = "reply"
    PROVE  sourceSpent(ret)'
<1>1. codeSpent(ret.authorizeData)'
  BY DEF goneAfter, stageAfter, codeSpent
<1>2. ASSUME neverRetains, ret.accessData # Nil
      PROVE  tokenSpent(ret.accessData.accessToken)' /\ refreshSpent(ret.accessData.refreshToken)'
  <2>1. replacesToken(ret)
    BY <1>2 DEF replacesToken, neverRetains, TypeOK, ServerTypeOK
  <2>2. stage = "rmAccess"
    BY <2>1 DEF stageAfter
  <2> QED
    BY <2>2 DEF goneAfter
<1> QED
  BY <1>1, <1>2 DEF sourceSpent, neverRetains

\* A removal that is next finds the ones before it done.
LEMMA ContinuedRotates ==
    ASSUME NEW ret, NEW stage \in {"save", "rmAuthorize", "rmRefresh", "rmAccess"}, NEW next,
           next = stageAfter(stage, ret), goneAfter(stage, ret)', next # "reply"
    PROVE  slotRotated([pc |-> next, ret |-> ret])'
<1>1. next \in {"rmRefresh", "rmAccess"} => codeSpent(ret.authorizeData)' /\ ret.accessData # Nil
  BY DEF goneAfter, stageAfter, replacesToken, codeSpent
<1>2. next = "rmAccess" => refreshSpent(ret.accessData.refreshToken)'
  BY DEF goneAfter, stageAfter, refreshSpent
<1>3. next \notin {"decide", "finish"}
  BY DEF stageAfter
<1> QED
  BY <1>1, <1>2, <1>3 DEF slotRotated

LEMMA ContinuesRotates ==
    ASSUME RotationInv, GrantInv', spentKept, RefreshIndexed', UNCHANGED config,
           NEW r \in Requests, NEW ret \in AccessData,
           NEW stage \in {"save", "rmAuthorize", "rmRefresh", "rmAccess"},
           goneAfter(stage, ret)', continues(r, stage, ret),
           recorded(ret, granted')
    PROVE  RotationInv'
<1> PICK next : next = stageAfter(stage, ret)
  OBVIOUS
<1>1. CASE next # "reply"
  <2>1. goto(r, [pc |-> next, ret |-> ret]) /\ UNCHANGED delivered
    BY <1>1 DEF continues
  <2>2. slotRotated([pc |-> next, ret |-> ret])'
    BY <1>1, ContinuedRotates
  <2> QED
    BY <2>1, <2>2, LocalStepRotates
<1>2. CASE next = "reply"
  <2>1. PICK s \in Slot : goto(r, s) /\ s.pc = "idle"
    BY <1>2 DEF continues
  <2>2. delivered' = delivered \cup {ret.accessToken}
    BY <1>2 DEF continues
  <2>3. slotRotated(s)'
    BY <2>1 DEF slotRotated
  <2>4. SlotsRotated'
    BY <2>1, <2>3, OthersStayRotated DEF RotationInv, GrantInv
  <2>5. sourceSpent(ret)'
    BY <1>2, AnsweredSpent DEF GrantInv
  <2>6. PICK token : token = ret.accessToken
    OBVIOUS
  <2>7. /\ granted'[token] # Nil
        /\ granted'[token].authorizeData = ret.authorizeData
        /\ granted'[token].accessData = ret.accessData
    BY <2>6 DEF recorded, sameGrant
  <2>8. isGranted(token)' /\ sourceSpent(granted[token])'
    BY <2>5, <2>7 DEF isGranted, sourceSpent, codeSpent, tokenSpent, refreshSpent
  <2>9. DeliveredSpent'
    BY <2>2, <2>6, <2>8, DeliveredStaySpent DEF RotationInv, GrantInv, DeliveredSpent
  <2> QED
    BY <2>4, <2>9 DEF RotationInv
<1> QED
  BY <1>1, <1>2

-----------------------------------------------------------------------------
(* One lemma for each kind of step. *)

LEMMA HeldRotates ==
    ASSUME RotationInv, GrantInv', NEW r \in Requests,
           quiet(r) \/ asks(r) \/ loadsCode(r) \/ loadsToken(r)
    PROVE  RotationInv'
<1>1. spentKept /\ RefreshIndexed' /\ UNCHANGED delivered
  BY StutterRotates DEF RotationInv, quiet, asks, loadsCode, loadsToken, storeVars
<1>2. ASSUME NEW s, goto(r, s), s.pc \notin {"decide", "finish", "rmRefresh", "rmAccess"}
      PROVE  RotationInv'
  BY <1>1, <1>2, LocalStepRotates DEF slotRotated
<1>3. ASSUME NEW pc \in {"decide", "finish"}, NEW ar, goto(r, [pc |-> pc, ar |-> ar]),
             ar.forceAccessData = Nil
      PROVE  RotationInv'
  <2>1. slotRotated([pc |-> pc, ar |-> ar])'
    BY <1>3 DEF slotRotated
  <2> QED
    BY <1>1, <1>3, <2>1, LocalStepRotates
<1>4. CASE quiet(r)
  <2>1. PICK s \in Slot : goto(r, s) /\ s.pc \in {"idle", "load", "client", "login", "info"}
    BY <1>4 DEF quiet
  <2> QED
    BY <1>2, <2>1
<1>5. CASE asks(r)
  BY <1>3, <1>5 DEF asks
<1>6. CASE loadsCode(r)
  <2>1. PICK data, ar : ar = codeRequest(data, req[r].http, req[r].client)
                        /\ goto(r, [pc |-> "decide", ar |-> ar])
    BY <1>6 DEF loadsCode
  <2> QED
    BY <1>3, <2>1 DEF codeRequest
<1>7. CASE loadsToken(r)
  <2>1. PICK data, ar : ar = refreshRequest(data, req[r].http, req[r].client)
                        /\ goto(r, [pc |-> "decide", ar |-> ar])
    BY <1>7 DEF loadsToken
  <2> QED
    BY <1>3, <2>1 DEF refreshRequest
<1> QED
  BY <1>4, <1>5, <1>6, <1>7

LEMMA DecidesRotates ==
    ASSUME ~ReuseAccessData, RotationInv, GrantInv', NEW r \in Requests, decides(r)
    PROVE  RotationInv'
<1>1. spentKept /\ RefreshIndexed' /\ UNCHANGED delivered
  BY StutterRotates DEF RotationInv, decides, storeVars
<1>2. PICK force \in {Nil} \cup reusable(req[r].ar), ar \in AccessRequest :
         goto(r, [pc |-> "finish", ar |-> ar]) /\ ar.forceAccessData = force
  BY DEF decides
<1>3. ar.forceAccessData = Nil
  BY <1>2 DEF reusable
<1>4. slotRotated([pc |-> "finish", ar |-> ar])'
  BY <1>3 DEF slotRotated
<1> QED
  BY <1>1, <1>2, <1>4, LocalStepRotates

LEMMA OffersCodeRotates ==
    ASSUME RotationInv, GrantInv', NEW r \in Requests, offersCode(r)
    PROVE  RotationInv'
<1>1. PICK code \in unusedCodes, data \in AuthorizeData :
         SaveAuthorize(data) /\ data = newAuthorizeData(req[r].ar, code)
  BY DEF offersCode
<1>2. data.code \in unusedCodes
  BY <1>1 DEF newAuthorizeData
<1>3. spentKept /\ RefreshIndexed'
  BY <1>1, <1>2, OfferRotates DEF RotationInv, GrantInv
<1>4. PICK s \in Slot : goto(r, s) /\ s.pc = "idle"
  BY DEF offersCode
<1>5. slotRotated(s)'
  BY <1>4 DEF slotRotated
<1> QED
  BY <1>3, <1>4, <1>5, LocalStepRotates DEF offersCode

LEMMA SavesRotates ==
    ASSUME ~RepeatsTokens, RotationInv, GrantInv', NEW r \in Requests, saves(r), UNCHANGED config
    PROVE  RotationInv'
<1> DEFINE ar == req[r].ar
<1>1. PICK data \in produced(ar) :
         LET ret == withBinding(data, ar)
         IN  /\ data \in AccessData /\ ret \in AccessData
             /\ SaveAccess(ret)
             /\ \/ continues(r, "save", ret)
                \/ (\E s \in Slot : goto(r, s) /\ s.pc = "idle") /\ UNCHANGED delivered
  BY DEF saves
<1>2. PICK ret \in AccessData : ret = withBinding(data, ar)
  BY <1>1
<1>3. ar \in AccessRequest /\ ar.forceAccessData = Nil
  BY DEF saves, RotationInv, SlotsRotated, slotRotated, at
<1>4. ret.accessToken \in unusedAccess /\ ret.refreshToken \in unusedRefresh \cup {Nil}
  BY <1>1, <1>2, <1>3, ProducedFields
<1>5. SaveAccess(ret)
  BY <1>1, <1>2
<1>6. spentKept /\ RefreshIndexed'
  BY <1>4, <1>5, IssueRotates DEF RotationInv, GrantInv
<1>7. CASE continues(r, "save", ret)
  <2>1. granted'[ret.accessToken] = ret /\ ret # Nil
    BY <1>5, RecordsAssumption DEF SaveAccess, RotationInv, GrantInv, TypeOK, StoreTypeOK, AccessData
  <2>2. recorded(ret, granted')
    BY <2>1 DEF recorded, sameGrant
  <2>3. goneAfter("save", ret)'
    BY DEF goneAfter
  <2> QED
    BY <1>6, <1>7, <2>2, <2>3, ContinuesRotates
<1>8. ASSUME NEW s, goto(r, s), s.pc = "idle", UNCHANGED delivered
      PROVE  RotationInv'
  BY <1>6, <1>8, LocalStepRotates DEF slotRotated
<1> QED
  BY <1>1, <1>2, <1>7, <1>8

LEMMA RemovesRotates ==
    ASSUME ~RepeatsTokens, "remove" \notin FaultKinds, RotationInv, GrantInv',
           NEW r \in Requests, removes(r), UNCHANGED config
    PROVE  RotationInv'
<1> PICK ret \in AccessData, stage \in {"rmAuthorize", "rmRefresh", "rmAccess"} :
       ret = req[r].ret /\ stage = req[r].pc
  BY DEF removes, removing
<1>1. removed(r)
  BY DEF removes, removed, fail
<1>2. slotRotated(req[r]) /\ removalRecorded(req[r], granted)
  BY DEF RotationInv, SlotsRotated, GrantInv, SlotsRecorded, slotRecorded
<1>3. spentKept /\ RefreshIndexed'
  BY <1>1, <1>2, RemovalRotates DEF RotationInv
<1>4. UNCHANGED <<granted, unusedCodes, unusedAccess, unusedRefresh>>
  BY <1>1 DEF removed, RemoveAuthorize, RemoveRefresh, RemoveAccess, unusedCodes, unusedAccess,
              unusedRefresh
<1>5. recorded(ret, granted) /\ recorded(ret, granted')
  BY <1>2, <1>4 DEF removalRecorded
<1>6. /\ ret.authorizeData \in Codes \cup {Nil}
      /\ ret.accessData # Nil => ret.accessData \in TokenPair
      /\ ret.accessToken \in AccessTokens
  BY DEF AccessData
<1>7. /\ isGranted(ret.accessToken)
      /\ granted[ret.accessToken].authorizeData = ret.authorizeData
      /\ granted[ret.accessToken].accessData = ret.accessData
  BY <1>5 DEF recorded, sameGrant, isGranted
<1>8. ASSUME stage = "rmAuthorize"
      PROVE  goneAfter(stage, ret)'
  <2>1. ret.authorizeData # Nil /\ ret.authorizeData \in Codes
    BY <1>2, <1>6, <1>8 DEF removalRecorded
  <2>2. offered[ret.authorizeData] # Nil
    BY <1>6, <1>7, <2>1 DEF RotationInv, GrantInv, StoreInv, Lineage
  <2>3. codeSpent(ret.authorizeData)'
    BY <1>1, <1>4, <1>8, <2>1, <2>2 DEF codeSpent, unusedCodes, removed, at, RemoveAuthorize,
                                        RotationInv, GrantInv, TypeOK, StoreTypeOK
  <2> QED
    BY <1>8, <2>3 DEF goneAfter
<1>9. ASSUME stage # "rmAuthorize"
      PROVE  ret.accessData \in TokenPair /\ ret.accessData # Nil /\ codeSpent(ret.authorizeData)'
  <2>1. codeSpent(ret.authorizeData) /\ ret.accessData # Nil
    BY <1>2, <1>9 DEF slotRotated
  <2> QED
    BY <1>3, <1>6, <2>1 DEF spentKept, codeSpent
<1>10. ASSUME stage = "rmRefresh"
       PROVE  goneAfter(stage, ret)'
  <2> PICK rt \in RefreshTokens : rt = ret.accessData.refreshToken
    BY <1>2, <1>9, <1>10 DEF removalRecorded, TokenPair
  <2>1. isGranted(ret.accessData.accessToken) /\ granted[ret.accessData.accessToken].refreshToken = rt
    BY <1>6, <1>7, <1>9, <1>10 DEF RotationInv, GrantInv, StoreInv, PairsRecorded
  <2>2. rt \notin unusedRefresh
    BY <1>9, <1>10, <2>1 DEF unusedRefresh, isGranted, TokenPair
  <2>3. refreshSpent(rt)'
    BY <1>1, <1>4, <1>10, <2>2 DEF refreshSpent, removed, at, RemoveRefresh, RotationInv,
                                   GrantInv, TypeOK, StoreTypeOK
  <2> QED
    BY <1>9, <1>10, <2>3 DEF goneAfter, refreshSpent
<1>11. ASSUME stage = "rmAccess"
       PROVE  goneAfter(stage, ret)'
  <2> PICK t \in AccessTokens : t = ret.accessData.accessToken
    BY <1>9, <1>11 DEF TokenPair
  <2>1. refreshSpent(ret.accessData.refreshToken)
    BY <1>2, <1>11 DEF slotRotated
  <2>2. refreshSpent(ret.accessData.refreshToken)'
    BY <1>3, <1>9, <1>11, <2>1 DEF spentKept, refreshSpent, TokenPair
  <2>3. isGranted(t)
    BY <1>6, <1>7, <1>9, <1>11 DEF RotationInv, GrantInv, StoreInv, PairsRecorded
  <2>4. tokenSpent(t)'
    BY <1>1, <1>4, <1>11, <2>3 DEF tokenSpent, unusedAccess, isGranted, removed, at, RemoveAccess,
                                   RotationInv, GrantInv, TypeOK, StoreTypeOK
  <2> QED
    BY <1>9, <1>11, <2>2, <2>4 DEF goneAfter, tokenSpent
<1>12. goneAfter(stage, ret)' /\ continues(r, stage, ret)
  BY <1>8, <1>10, <1>11 DEF removes
<1> QED
  BY <1>3, <1>5, <1>12, ContinuesRotates

LEMMA OutsideRotates ==
    ASSUME RotationInv, GrantInv', outside
    PROVE  RotationInv'
<1>1. RefreshIndexed' /\ UNCHANGED <<unusedCodes, unusedAccess, unusedRefresh>>
  BY DEF outside, RotationInv, RefreshIndexed, isGranted, unusedCodes, unusedAccess,
         unusedRefresh
<1>2. SlotsRotated'
  BY <1>1 DEF outside, RotationInv, SlotsRotated, slotRotated, codeSpent, refreshSpent
<1>3. DeliveredSpent'
  BY <1>1 DEF outside, RotationInv, DeliveredSpent, sourceSpent, codeSpent, tokenSpent,
              refreshSpent, isGranted
<1> QED
  BY <1>1, <1>2, <1>3 DEF RotationInv

LEMMA RestartRotates ==
    ASSUME RotationInv, GrantInv', Restart
    PROVE  RotationInv'
<1>1. RefreshIndexed' /\ spentKept /\ UNCHANGED delivered
  BY StutterRotates DEF RotationInv, Restart, storeVars
<1>2. \A r \in Requests : req'[r].pc = "idle"
  BY DEF Restart, noResponse
<1>3. SlotsRotated'
  BY <1>2 DEF SlotsRotated, slotRotated
<1>4. DeliveredSpent'
  BY <1>1, DeliveredStaySpent DEF RotationInv, GrantInv, DeliveredSpent
<1> QED
  BY <1>1, <1>3, <1>4 DEF RotationInv

LEMMA InitRotates ==
    ASSUME Init
    PROVE  RotationInv
<1>1. RefreshIndexed /\ DeliveredSpent
  BY DEF Init, StoreInit, ServerInit, RefreshIndexed, DeliveredSpent
<1>2. \A r \in Requests : req[r].pc = "idle"
  BY DEF Init, ServerInit, noResponse
<1>3. SlotsRotated
  BY <1>2 DEF SlotsRotated, slotRotated
<1> QED
  BY <1>1, <1>3, InitGrants DEF RotationInv

LEMMA NextRotates ==
    ASSUME rotates, RotationInv, [Next]_vars
    PROVE  RotationInv'
<1>1. GrantInv'
  BY NextGrants DEF rotates, RotationInv
<1>2. outside \/ Restart \/ \E r \in Requests : stepOf(r)
  BY StepKinds DEF RotationInv, GrantInv
<1>3. ASSUME NEW r \in Requests, stepOf(r)
      PROVE  RotationInv'
  BY <1>1, <1>3, HeldRotates, DecidesRotates, OffersCodeRotates, SavesRotates, RemovesRotates
     DEF stepOf, rotates
<1> QED
  BY <1>1, <1>2, <1>3, OutsideRotates, RestartRotates

\* What requests removed stays removed, and no refresh token outlives the
\* token record it leads to.
THEOREM RotationInvariant ==
    ASSUME rotates
    PROVE  Spec => []RotationInv
<1>1. Init => RotationInv
  BY InitRotates
<1>2. RotationInv /\ [Next]_vars => RotationInv'
  BY NextRotates
<1> QED
  BY <1>1, <1>2, PTL DEF Spec

-----------------------------------------------------------------------------
LEMMA RotationResolves ==
    ASSUME RotationInv
    PROVE  RefreshResolves
<1>1. ASSUME NEW rt \in RefreshTokens, refresh[rt] # Nil
      PROVE  LoadRefresh(rt) # Nil /\ LoadRefresh(rt).refreshToken = rt
  <2>1. /\ refresh[rt] \in AccessTokens /\ access[refresh[rt]] # Nil
        /\ granted[refresh[rt]].refreshToken = rt
    BY <1>1 DEF RotationInv, RefreshIndexed, GrantInv, TypeOK, StoreTypeOK
  <2>2. access[refresh[rt]].refreshToken = rt
    BY <2>1 DEF RotationInv, GrantInv, StoreInv, TokensRecorded, recorded, sameGrant
  <2> QED
    BY <1>1, <2>1, <2>2 DEF LoadRefresh, LoadAccess
<1> QED
  BY <1>1 DEF RefreshResolves

\* A refresh token in the storage can always be used: the record it leads to
\* is there and names it, at every point of every overlapping rotation, and
\* after a restart in the middle of one.
THEOREM RefreshTokensResolve ==
    ASSUME rotates
    PROVE  Spec => []RefreshResolves
<1>1. RotationInv => RefreshResolves
  BY RotationResolves
<1> QED
  BY <1>1, RotationInvariant, PTL

LEMMA RotationSpends ==
    ASSUME neverRetains, RotationInv
    PROVE  SpentStaysSpent
<1>1. ASSUME NEW t \in delivered
      PROVE  sourceSpent(granted[t]) /\ granted[t] \in AccessData
  BY <1>1 DEF RotationInv, DeliveredSpent, GrantInv, TypeOK, StoreTypeOK, ServerTypeOK, isGranted
<1> QED
  BY <1>1 DEF SpentStaysSpent, sourceSpent, codeSpent, tokenSpent, refreshSpent, LoadAuthorize,
              LoadAccess, LoadRefresh

\* Once a client has received its new token, nothing brings back the code or
\* the token it was exchanged for, as long as the server is never run with
\* RetainTokenAfterRefresh.
THEOREM SpentGrantsStaySpent ==
    ASSUME rotates, neverRetains
    PROVE  Spec => []SpentStaysSpent
<1>1. RotationInv => SpentStaysSpent
  BY RotationSpends
<1> QED
  BY <1>1, RotationInvariant, PTL
=============================================================================
