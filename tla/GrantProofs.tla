----------------------------- MODULE GrantProofs -----------------------------
(***************************************************************************)
(* NoGrantLost and Lineage hold in every reachable state, for all values   *)
(* of the constants.                                                       *)
(*                                                                         *)
(* Neither is inductive by itself.  A removal is harmless because the      *)
(* request that makes it saved the successor before; a successor is what   *)
(* the history says it is because the record loaded earlier was; and no    *)
(* other token owns the refresh token that is removed.  GrantInv says so.  *)
(* What it says of a request's locals is stated over two tables, o for     *)
(* offered and g for granted, so that it can be carried from one state of  *)
(* the history to a later one.                                             *)
(***************************************************************************)
EXTENDS AuthServerProofs

\* d and e are one grant.  The binding may differ between what is persisted
\* and what is handed out again.
sameGrant(d, e) ==
    /\ d.client = e.client /\ d.scope = e.scope
    /\ d.authorizeData = e.authorizeData /\ d.accessData = e.accessData
    /\ d.accessToken = e.accessToken /\ d.refreshToken = e.refreshToken

recorded(d, g) ==
    d \in AccessData /\ g[d.accessToken] # Nil /\ sameGrant(d, g[d.accessToken])

CodesRecorded ==
    \A c \in Codes :
        /\ authorize[c] # Nil => authorize[c] = offered[c]
        /\ offered[c] # Nil => offered[c].code = c

TokensRecorded ==
    \A t \in AccessTokens :
        /\ isGranted(t) => granted[t].accessToken = t
        /\ access[t] # Nil => recorded(access[t], granted) /\ access[t].accessToken = t

\* No two records share a refresh token.
RefreshUnique ==
    \A s, t \in AccessTokens :
        /\ isGranted(s) /\ isGranted(t) /\ granted[s].refreshToken = granted[t].refreshToken
        /\ granted[s].refreshToken # Nil
        => s = t

\* The tokens a record replaces are those of one record.
PairsRecorded ==
    \A t \in AccessTokens : isGranted(t) /\ granted[t].accessData # Nil =>
        /\ isGranted(granted[t].accessData.accessToken)
        /\ granted[granted[t].accessData.accessToken].refreshToken = granted[t].accessData.refreshToken

StoreInv ==
    CodesRecorded /\ TokensRecorded /\ RefreshUnique /\ PairsRecorded /\ NoGrantLost /\ Lineage

\* What a request loaded, and what it is to hand out again, is recorded.
requestRecorded(ar, o, g) ==
    /\ ar.authorizeData # Nil =>
          /\ o[ar.authorizeData] # Nil
          /\ ar.client.id = o[ar.authorizeData].client.id
          /\ ar.scope = o[ar.authorizeData].scope
    /\ ar.accessData # Nil =>
          /\ recorded(ar.accessData, g)
          /\ ar.client.id = ar.accessData.client.id
          /\ ar.scope \subseteq ar.accessData.scope
    /\ ar.forceAccessData # Nil => recorded(ar.forceAccessData, g)

\* What a request removes it has replaced.
removalRecorded(s, g) ==
    /\ recorded(s.ret, g)
    /\ s.pc = "rmAuthorize" => s.ret.authorizeData # Nil
    /\ s.pc = "rmRefresh" => s.ret.accessData # Nil /\ s.ret.accessData.refreshToken # Nil
    /\ s.pc = "rmAccess" => s.ret.accessData # Nil

slotRecorded(s, o, g) ==
    /\ s.pc \in {"decide", "finish"} => requestRecorded(s.ar, o, g)
    /\ s.pc \in {"rmAuthorize", "rmRefresh", "rmAccess"} => removalRecorded(s, g)

SlotsRecorded == \A r \in Requests : slotRecorded(req[r], offered, granted)

GrantInv == TypeOK /\ StoreInv /\ SlotsRecorded

-----------------------------------------------------------------------------
(* The history only grows: a code keeps its record, a token its grant. *)

grown(o1, o2, g1, g2) ==
    /\ \A c \in Codes : o1[c] # Nil => o2[c] = o1[c]
    /\ \A t \in AccessTokens : g1[t] # Nil => g2[t] # Nil /\ sameGrant(g2[t], g1[t])

LEMMA SlotGrown ==
    ASSUME NEW s \in Slot, NEW o1, NEW o2, NEW g1, NEW g2,
           grown(o1, o2, g1, g2), slotRecorded(s, o1, g1)
    PROVE  slotRecorded(s, o2, g2)
<1>1. ASSUME NEW d, recorded(d, g1)
      PROVE  recorded(d, g2)
  <2>1. d.accessToken \in AccessTokens
    BY <1>1 DEF recorded, AccessData
  <2> QED
    BY <1>1, <2>1 DEF recorded, grown, sameGrant
<1>2. CASE s.pc \in {"decide", "finish"}
  <2>1. s.ar \in AccessRequest
    BY <1>2 DEF Slot, Response, Report
  <2>2. s.ar.authorizeData \in Codes \cup {Nil}
    BY <2>1 DEF AccessRequest
  <2>3. requestRecorded(s.ar, o1, g1)
    BY <1>2 DEF slotRecorded
  <2>4. requestRecorded(s.ar, o2, g2)
    BY <1>1, <2>2, <2>3 DEF requestRecorded, grown
  <2> QED
    BY <1>2, <2>4 DEF slotRecorded
<1>3. CASE s.pc \in {"rmAuthorize", "rmRefresh", "rmAccess"}
  <2>1. removalRecorded(s, g2)
    BY <1>1, <1>3 DEF slotRecorded, removalRecorded
  <2> QED
    BY <1>3, <2>1 DEF slotRecorded
<1>4. CASE s.pc \notin {"decide", "finish", "rmAuthorize", "rmRefresh", "rmAccess"}
  BY <1>4 DEF slotRecorded
<1> QED
  BY <1>2, <1>3, <1>4

\* A step of request r keeps SlotsRecorded if it does so for r.
LEMMA OtherSlots ==
    ASSUME TypeOK, SlotsRecorded, grown(offered, offered', granted, granted'),
           NEW r \in Requests, NEW s, goto(r, s), slotRecorded(s, offered', granted')
    PROVE  SlotsRecorded'
<1>1. ASSUME NEW q \in Requests
      PROVE  slotRecorded(req'[q], offered', granted')
  <2>1. CASE q = r
    BY <2>1 DEF goto, TypeOK, ServerTypeOK
  <2>2. CASE q # r
    <3>1. req'[q] = req[q] /\ req[q] \in Slot
      BY <2>2 DEF goto, TypeOK, ServerTypeOK
    <3>2. slotRecorded(req[q], offered, granted)
      BY DEF SlotsRecorded
    <3> QED
      BY <3>1, <3>2, SlotGrown
  <2> QED
    BY <2>1, <2>2
<1> QED
  BY <1>1 DEF SlotsRecorded

LEMMA GrownStutter ==
    ASSUME UNCHANGED <<offered, granted>>
    PROVE  grown(offered, offered', granted, granted')
BY DEF grown, sameGrant

\* The slot of a request that was answered.
answeredSlot(out, url, fragment) ==
    [pc |-> "idle", out |-> out, url |-> url, fragment |-> fragment]

LEMMA AnswerRecorded ==
    ASSUME NEW out, NEW url, NEW fragment, NEW o, NEW g
    PROVE  slotRecorded(answeredSlot(out, url, fragment), o, g)
BY DEF slotRecorded, answeredSlot

\* Every way to answer redirects, with Nil for no URI.
LEMMA ReplyRedirects ==
    ASSUME NEW r, NEW out, reply(r, out)
    PROVE  \E url, fragment : redirect(r, out, url, fragment)
BY DEF reply, answer

LEMMA StoreInvStutter ==
    ASSUME StoreInv, UNCHANGED storeVars
    PROVE  StoreInv' /\ grown(offered, offered', granted, granted')
<1>1. grown(offered, offered', granted, granted')
  BY GrownStutter DEF storeVars
<1>2. CodesRecorded' /\ TokensRecorded' /\ RefreshUnique' /\ PairsRecorded'
  BY DEF StoreInv, storeVars, CodesRecorded, TokensRecorded, RefreshUnique, PairsRecorded,
         isGranted
<1>3. NoGrantLost'
  BY DEF StoreInv, storeVars, NoGrantLost, CodeNotLost, TokenNotLost, RefreshNotLost,
         exchangedFor, replaces, isGranted
<1>4. Lineage'
  BY DEF StoreInv, storeVars, Lineage, isGranted
<1> QED
  BY <1>1, <1>2, <1>3, <1>4 DEF StoreInv

-----------------------------------------------------------------------------
(* What the calls of the storage keep. *)

LEMMA SaveAuthorizeKeeps ==
    ASSUME StoreTypeOK, StoreInv, NEW data \in AuthorizeData, offered[data.code] = Nil,
           SaveAuthorize(data)
    PROVE  StoreInv' /\ grown(offered, offered', granted, granted')
<1>1. data.code \in Codes /\ data # Nil
  BY RecordsAssumption DEF AuthorizeData
<1>2. \A c \in Codes : /\ authorize'[c] = IF c = data.code THEN data ELSE authorize[c]
                       /\ offered'[c] = IF c = data.code THEN data ELSE offered[c]
  BY <1>1 DEF StoreTypeOK, SaveAuthorize
<1>3. UNCHANGED <<access, refresh, granted>>
  BY DEF SaveAuthorize
<1>4. grown(offered, offered', granted, granted')
  BY <1>2, <1>3 DEF grown, sameGrant
<1>5. CodesRecorded'
  BY <1>1, <1>2 DEF StoreInv, CodesRecorded
<1>6. TokensRecorded' /\ RefreshUnique' /\ PairsRecorded'
  BY <1>3 DEF StoreInv, TokensRecorded, RefreshUnique, PairsRecorded, isGranted
<1>7. TokenNotLost' /\ RefreshNotLost'
  BY <1>3 DEF StoreInv, NoGrantLost, TokenNotLost, RefreshNotLost, replaces, isGranted
<1>8. CodeNotLost'
  BY <1>1, <1>2, <1>3 DEF StoreInv, NoGrantLost, CodeNotLost, exchangedFor, isGranted
<1>9. Lineage'
  <2>1. \A t \in AccessTokens : isGranted(t) => granted[t].authorizeData \in Codes \cup {Nil}
    BY DEF StoreTypeOK, isGranted, AccessData
  <2>2. \A t \in AccessTokens : isGranted(t) /\ granted[t].authorizeData # Nil =>
            offered'[granted[t].authorizeData] = offered[granted[t].authorizeData]
    BY <1>2, <2>1 DEF StoreInv, Lineage
  <2> QED
    BY <1>3, <2>2 DEF StoreInv, Lineage, isGranted
<1> QED
  BY <1>4, <1>5, <1>6, <1>7, <1>8, <1>9 DEF StoreInv, NoGrantLost

\* The tables after SaveAccess.
LEMMA SavedTables ==
    ASSUME StoreTypeOK, NEW data \in AccessData, SaveAccess(data)
    PROVE  /\ data.accessToken \in AccessTokens /\ data.refreshToken \in RefreshTokens \cup {Nil}
           /\ data # Nil /\ persisted(data) # Nil /\ persisted(data) \in AccessData
           /\ sameGrant(persisted(data), data)
           /\ \A t \in AccessTokens :
                 /\ access'[t] = IF t = data.accessToken THEN persisted(data) ELSE access[t]
                 /\ granted'[t] = IF t = data.accessToken THEN data ELSE granted[t]
           /\ \A rt \in RefreshTokens :
                 refresh'[rt] = IF rt = data.refreshToken THEN data.accessToken ELSE refresh[rt]
           /\ UNCHANGED <<authorize, offered>>
<1>1. data.accessToken \in AccessTokens /\ data.refreshToken \in RefreshTokens \cup {Nil}
  BY DEF AccessData
<1>2. persisted(data) \in AccessData
  BY DEF persisted, AccessData
<1>3. sameGrant(persisted(data), data)
  BY DEF sameGrant, persisted, AccessData
<1>4. data # Nil /\ persisted(data) # Nil
  BY <1>2, RecordsAssumption
<1>5. \A t \in AccessTokens :
         /\ access'[t] = IF t = data.accessToken THEN persisted(data) ELSE access[t]
         /\ granted'[t] = IF t = data.accessToken THEN data ELSE granted[t]
  BY <1>1 DEF StoreTypeOK, SaveAccess
<1>6. \A rt \in RefreshTokens :
         refresh'[rt] = IF rt = data.refreshToken THEN data.accessToken ELSE refresh[rt]
  <2>1. Nil \notin RefreshTokens
    BY GrantsAssumption
  <2> QED
    BY <1>1, <2>1 DEF StoreTypeOK, SaveAccess
<1> QED
  BY <1>1, <1>2, <1>3, <1>4, <1>5, <1>6 DEF SaveAccess

LEMMA RegrantKeeps ==
    ASSUME StoreTypeOK, StoreInv, NEW data \in AccessData, recorded(data, granted),
           SaveAccess(data)
    PROVE  StoreInv' /\ grown(offered, offered', granted, granted')
<1> DEFINE token == data.accessToken
<1>1. /\ token \in AccessTokens /\ data.refreshToken \in RefreshTokens \cup {Nil}
      /\ data # Nil /\ persisted(data) # Nil /\ persisted(data) \in AccessData
      /\ sameGrant(persisted(data), data)
      /\ \A t \in AccessTokens :
            /\ access'[t] = IF t = token THEN persisted(data) ELSE access[t]
            /\ granted'[t] = IF t = token THEN data ELSE granted[t]
      /\ \A rt \in RefreshTokens :
            refresh'[rt] = IF rt = data.refreshToken THEN token ELSE refresh[rt]
      /\ UNCHANGED <<authorize, offered>>
  BY SavedTables
<1>2. \A t \in AccessTokens : /\ isGranted(t)' <=> isGranted(t)
                              /\ isGranted(t) => sameGrant(granted'[t], granted[t])
  BY <1>1 DEF isGranted, recorded, sameGrant
<1>3. grown(offered, offered', granted, granted')
  BY <1>1, <1>2 DEF grown, isGranted
<1>4. CodesRecorded'
  BY <1>1 DEF StoreInv, CodesRecorded
<1>5. TokensRecorded'
  <2>1. \A t \in AccessTokens : isGranted(t)' => granted'[t].accessToken = t
    BY <1>2 DEF StoreInv, TokensRecorded, sameGrant
  <2>2. ASSUME NEW t \in AccessTokens, access'[t] # Nil
        PROVE  recorded(access'[t], granted') /\ access'[t].accessToken = t
    <3>1. CASE t = token
      BY <1>1, <3>1 DEF recorded, sameGrant
    <3>2. CASE t # token
      BY <1>1, <2>2, <3>2 DEF StoreInv, TokensRecorded, recorded
    <3> QED
      BY <3>1, <3>2
  <2> QED
    BY <2>1, <2>2 DEF TokensRecorded
<1>6. RefreshUnique'
  BY <1>2 DEF StoreInv, RefreshUnique, sameGrant
<1>7. \A t \in AccessTokens : isGranted(t) /\ granted[t].accessData # Nil =>
          granted[t].accessData.accessToken \in AccessTokens
  BY DEF StoreTypeOK, isGranted, AccessData, TokenPair
<1>8. PairsRecorded'
  BY <1>2, <1>7 DEF StoreInv, PairsRecorded, sameGrant
<1>9. CodeNotLost'
  BY <1>1, <1>2 DEF StoreInv, NoGrantLost, CodeNotLost, exchangedFor, sameGrant
<1>10. \A s, t \in AccessTokens : replaces(s, t) => replaces(s, t)'
  BY <1>2 DEF replaces, sameGrant
<1>11. TokenNotLost'
  BY <1>1, <1>2, <1>10 DEF StoreInv, NoGrantLost, TokenNotLost
<1>12. RefreshNotLost'
  <2>1. ASSUME NEW t \in AccessTokens, isGranted(t)', granted'[t].refreshToken # Nil
        PROVE  refresh'[granted'[t].refreshToken] = t \/ \E s \in AccessTokens : replaces(s, t)'
    <3>1. isGranted(t) /\ granted'[t].refreshToken = granted[t].refreshToken
      BY <1>2, <2>1 DEF sameGrant
    <3>2. granted[t].refreshToken \in RefreshTokens
      BY <2>1, <3>1 DEF StoreTypeOK, isGranted, AccessData
    <3>3. CASE granted[t].refreshToken = data.refreshToken
      <4>1. isGranted(token) /\ granted[token].refreshToken = data.refreshToken
        BY DEF recorded, isGranted, sameGrant
      <4>2. t = token
        BY <1>1, <2>1, <3>1, <3>3, <4>1 DEF StoreInv, RefreshUnique
      <4> QED
        BY <1>1, <3>1, <3>2, <3>3, <4>2
    <3>4. CASE granted[t].refreshToken # data.refreshToken
      BY <1>1, <1>10, <2>1, <3>1, <3>2, <3>4 DEF StoreInv, NoGrantLost, RefreshNotLost
    <3> QED
      BY <3>3, <3>4
  <2> QED
    BY <2>1 DEF RefreshNotLost
<1>13. Lineage'
  BY <1>1, <1>2, <1>7 DEF StoreInv, Lineage, sameGrant, isGranted
<1> QED
  BY <1>3, <1>4, <1>5, <1>6, <1>8, <1>9, <1>11, <1>12, <1>13 DEF StoreInv, NoGrantLost

\* What makes a new record a legitimate successor.
fresh(data) ==
    /\ granted[data.accessToken] = Nil
    /\ data.refreshToken # Nil =>
          \A t \in AccessTokens : isGranted(t) => granted[t].refreshToken # data.refreshToken
    /\ data.authorizeData # Nil =>
          /\ offered[data.authorizeData] # Nil
          /\ data.client.id = offered[data.authorizeData].client.id
          /\ data.scope = offered[data.authorizeData].scope
    /\ data.accessData # Nil =>
          LET old == granted[data.accessData.accessToken]
          IN  /\ old # Nil
              /\ old.refreshToken = data.accessData.refreshToken
              /\ data.client.id = old.client.id
              /\ data.scope \subseteq old.scope

LEMMA FreshKeeps ==
    ASSUME StoreTypeOK, StoreInv, NEW data \in AccessData, fresh(data), SaveAccess(data)
    PROVE  StoreInv' /\ grown(offered, offered', granted, granted')
<1> DEFINE token == data.accessToken
<1>1. /\ token \in AccessTokens /\ data.refreshToken \in RefreshTokens \cup {Nil}
      /\ data # Nil /\ persisted(data) # Nil /\ persisted(data) \in AccessData
      /\ sameGrant(persisted(data), data)
      /\ \A t \in AccessTokens :
            /\ access'[t] = IF t = token THEN persisted(data) ELSE access[t]
            /\ granted'[t] = IF t = token THEN data ELSE granted[t]
      /\ \A rt \in RefreshTokens :
            refresh'[rt] = IF rt = data.refreshToken THEN token ELSE refresh[rt]
      /\ UNCHANGED <<authorize, offered>>
  BY SavedTables
<1>2. ~isGranted(token)
  BY DEF fresh, isGranted
<1>3. \A t \in AccessTokens : /\ isGranted(t)' <=> (isGranted(t) \/ t = token)
                              /\ isGranted(t) => granted'[t] = granted[t]
  BY <1>1, <1>2 DEF isGranted
<1>4. grown(offered, offered', granted, granted')
  BY <1>1, <1>3 DEF grown, isGranted, sameGrant
<1>5. CodesRecorded'
  BY <1>1 DEF StoreInv, CodesRecorded
<1>6. TokensRecorded'
  <2>1. \A t \in AccessTokens : isGranted(t)' => granted'[t].accessToken = t
    BY <1>1, <1>3 DEF StoreInv, TokensRecorded
  <2>2. ASSUME NEW t \in AccessTokens, access'[t] # Nil
        PROVE  recorded(access'[t], granted') /\ access'[t].accessToken = t
    <3>1. CASE t = token
      BY <1>1, <3>1 DEF recorded, sameGrant
    <3>2. CASE t # token
      BY <1>1, <2>2, <3>2 DEF StoreInv, TokensRecorded, recorded
    <3> QED
      BY <3>1, <3>2
  <2> QED
    BY <2>1, <2>2 DEF TokensRecorded
<1>7. RefreshUnique'
  BY <1>1, <1>3 DEF StoreInv, RefreshUnique, fresh
<1>8. \A t \in AccessTokens : isGranted(t) /\ granted[t].accessData # Nil =>
          granted[t].accessData.accessToken \in AccessTokens
  BY DEF StoreTypeOK, isGranted, AccessData, TokenPair
<1>9. data.accessData # Nil =>
          /\ data.accessData.accessToken \in AccessTokens
          /\ granted'[data.accessData.accessToken] = granted[data.accessData.accessToken]
          /\ isGranted(data.accessData.accessToken)
  <2>1. data.accessData # Nil => data.accessData.accessToken \in AccessTokens
    BY DEF AccessData, TokenPair
  <2> QED
    BY <1>3, <2>1 DEF fresh, isGranted
<1>10. PairsRecorded'
  <2>1. ASSUME NEW t \in AccessTokens, isGranted(t)', granted'[t].accessData # Nil
        PROVE  LET old == granted'[t].accessData.accessToken
               IN  granted'[old] # Nil /\ granted'[old].refreshToken = granted'[t].accessData.refreshToken
    <3>1. CASE t = token
      BY <1>1, <1>9, <2>1, <3>1 DEF fresh, isGranted
    <3>2. CASE t # token
      <4>1. isGranted(t) /\ granted'[t] = granted[t]
        BY <1>3, <2>1, <3>2
      <4>2. isGranted(granted[t].accessData.accessToken)
        BY <2>1, <4>1 DEF StoreInv, PairsRecorded
      <4>3. granted'[granted[t].accessData.accessToken] = granted[granted[t].accessData.accessToken]
        BY <1>3, <1>8, <2>1, <4>1, <4>2
      <4> QED
        BY <2>1, <4>1, <4>2, <4>3 DEF StoreInv, PairsRecorded, isGranted
    <3> QED
      BY <3>1, <3>2
  <2> QED
    BY <2>1 DEF PairsRecorded, isGranted
<1>11. \A t \in AccessTokens, c \in Codes : exchangedFor(t, c) => exchangedFor(t, c)'
  BY <1>3 DEF exchangedFor
<1>12. CodeNotLost'
  BY <1>1, <1>11 DEF StoreInv, NoGrantLost, CodeNotLost
<1>13. \A s, t \in AccessTokens : replaces(s, t) => replaces(s, t)'
  BY <1>3 DEF replaces
<1>14. TokenNotLost'
  BY <1>1, <1>3, <1>13 DEF StoreInv, NoGrantLost, TokenNotLost
<1>15. RefreshNotLost'
  <2>1. ASSUME NEW t \in AccessTokens, isGranted(t)', granted'[t].refreshToken # Nil
        PROVE  refresh'[granted'[t].refreshToken] = t \/ \E s \in AccessTokens : replaces(s, t)'
    <3>1. CASE t = token
      BY <1>1, <2>1, <3>1
    <3>2. CASE t # token
      <4>1. isGranted(t) /\ granted'[t] = granted[t]
        BY <1>3, <2>1, <3>2
      <4>2. granted[t].refreshToken \in RefreshTokens
        BY <2>1, <4>1 DEF StoreTypeOK, isGranted, AccessData
      <4>3. granted[t].refreshToken # data.refreshToken
        BY <2>1, <4>1 DEF fresh
      <4> QED
        BY <1>1, <1>13, <2>1, <4>1, <4>2, <4>3 DEF StoreInv, NoGrantLost, RefreshNotLost
    <3> QED
      BY <3>1, <3>2
  <2> QED
    BY <2>1 DEF RefreshNotLost
<1>16. Lineage'
  <2>1. ASSUME NEW t \in AccessTokens, isGranted(t)', granted'[t].authorizeData # Nil
        PROVE  LET code == offered'[granted'[t].authorizeData]
               IN  /\ code # Nil
                   /\ granted'[t].client.id = code.client.id
                   /\ granted'[t].scope = code.scope
    BY <1>1, <1>3, <2>1 DEF StoreInv, Lineage, fresh
  <2>2. ASSUME NEW t \in AccessTokens, isGranted(t)', granted'[t].accessData # Nil
        PROVE  LET old == granted'[granted'[t].accessData.accessToken]
               IN  /\ old # Nil
                   /\ granted'[t].client.id = old.client.id
                   /\ granted'[t].scope \subseteq old.scope
    <3>1. CASE t = token
      BY <1>1, <1>9, <2>2, <3>1 DEF fresh
    <3>2. CASE t # token
      <4>1. isGranted(t) /\ granted'[t] = granted[t]
        BY <1>3, <2>2, <3>2
      <4>2. isGranted(granted[t].accessData.accessToken)
        BY <2>2, <4>1 DEF StoreInv, PairsRecorded
      <4>3. granted'[granted[t].accessData.accessToken] = granted[granted[t].accessData.accessToken]
        BY <1>3, <1>8, <2>2, <4>1, <4>2
      <4> QED
        BY <2>2, <4>1, <4>3 DEF StoreInv, Lineage
    <3> QED
      BY <3>1, <3>2
  <2> QED
    BY <2>1, <2>2 DEF Lineage, isGranted
<1> QED
  BY <1>4, <1>5, <1>6, <1>7, <1>10, <1>12, <1>14, <1>15, <1>16 DEF StoreInv, NoGrantLost

-----------------------------------------------------------------------------
(* A removal keeps them once its successor is saved. *)

LEMMA RemoveAuthorizeKeeps ==
    ASSUME StoreTypeOK, StoreInv, NEW data, recorded(data, granted), data.authorizeData # Nil,
           RemoveAuthorize(data.authorizeData)
    PROVE  StoreInv'
<1>1. UNCHANGED <<access, refresh, offered, granted>>
  BY DEF RemoveAuthorize
<1>2. \A c \in Codes : authorize'[c] = IF c = data.authorizeData THEN Nil ELSE authorize[c]
  BY DEF StoreTypeOK, RemoveAuthorize
<1>3. data.accessToken \in AccessTokens /\ exchangedFor(data.accessToken, data.authorizeData)
  BY DEF recorded, AccessData, exchangedFor, isGranted, sameGrant
<1>4. CodesRecorded'
  BY <1>1, <1>2 DEF StoreInv, CodesRecorded
<1>5. TokensRecorded' /\ RefreshUnique' /\ PairsRecorded'
  BY <1>1 DEF StoreInv, TokensRecorded, RefreshUnique, PairsRecorded, isGranted
<1>6. CodeNotLost'
  BY <1>1, <1>2, <1>3 DEF StoreInv, NoGrantLost, CodeNotLost, exchangedFor, isGranted
<1>7. TokenNotLost' /\ RefreshNotLost'
  BY <1>1 DEF StoreInv, NoGrantLost, TokenNotLost, RefreshNotLost, replaces, isGranted
<1>8. Lineage'
  BY <1>1 DEF StoreInv, Lineage, isGranted
<1> QED
  BY <1>4, <1>5, <1>6, <1>7, <1>8 DEF StoreInv, NoGrantLost

LEMMA RemoveRefreshKeeps ==
    ASSUME StoreTypeOK, StoreInv, NEW data, recorded(data, granted), data.accessData # Nil,
           data.accessData.refreshToken # Nil, RemoveRefresh(data.accessData.refreshToken)
    PROVE  StoreInv'
<1> DEFINE old == data.accessData.accessToken
<1>1. UNCHANGED <<authorize, access, offered, granted>>
  BY DEF RemoveRefresh
<1>2. \A rt \in RefreshTokens :
          refresh'[rt] = IF rt = data.accessData.refreshToken THEN Nil ELSE refresh[rt]
  BY DEF StoreTypeOK, RemoveRefresh
<1>3. data.accessToken \in AccessTokens /\ old \in AccessTokens
  BY DEF recorded, AccessData, TokenPair
<1>4. replaces(data.accessToken, old)
  BY DEF recorded, replaces, isGranted, sameGrant
<1>5. isGranted(old) /\ granted[old].refreshToken = data.accessData.refreshToken
  BY <1>3 DEF StoreInv, PairsRecorded, recorded, isGranted, sameGrant
<1>6. RefreshNotLost'
  <2>1. ASSUME NEW t \in AccessTokens, isGranted(t), granted[t].refreshToken # Nil
        PROVE  refresh'[granted[t].refreshToken] = t \/ \E s \in AccessTokens : replaces(s, t)
    <3>1. granted[t].refreshToken \in RefreshTokens
      BY <2>1 DEF StoreTypeOK, isGranted, AccessData
    <3>2. CASE granted[t].refreshToken = data.accessData.refreshToken
      BY <1>3, <1>4, <1>5, <2>1, <3>2 DEF StoreInv, RefreshUnique
    <3>3. CASE granted[t].refreshToken # data.accessData.refreshToken
      BY <1>2, <2>1, <3>1, <3>3 DEF StoreInv, NoGrantLost, RefreshNotLost
    <3> QED
      BY <3>2, <3>3
  <2> QED
    BY <1>1, <2>1 DEF RefreshNotLost, replaces, isGranted
<1>7. CodesRecorded' /\ TokensRecorded' /\ RefreshUnique' /\ PairsRecorded'
  BY <1>1 DEF StoreInv, CodesRecorded, TokensRecorded, RefreshUnique, PairsRecorded, isGranted
<1>8. CodeNotLost' /\ TokenNotLost'
  BY <1>1 DEF StoreInv, NoGrantLost, CodeNotLost, TokenNotLost, exchangedFor, replaces, isGranted
<1>9. Lineage'
  BY <1>1 DEF StoreInv, Lineage, isGranted
<1> QED
  BY <1>6, <1>7, <1>8, <1>9 DEF StoreInv, NoGrantLost

LEMMA RemoveAccessKeeps ==
    ASSUME StoreTypeOK, StoreInv, NEW data, recorded(data, granted), data.accessData # Nil,
           RemoveAccess(data.accessData.accessToken)
    PROVE  StoreInv'
<1> DEFINE old == data.accessData.accessToken
<1>1. UNCHANGED <<authorize, refresh, offered, granted>>
  BY DEF RemoveAccess
<1>2. \A t \in AccessTokens : access'[t] = IF t = old THEN Nil ELSE access[t]
  BY DEF StoreTypeOK, RemoveAccess
<1>3. data.accessToken \in AccessTokens /\ replaces(data.accessToken, old)
  BY DEF recorded, AccessData, replaces, isGranted, sameGrant
<1>4. TokensRecorded'
  BY <1>1, <1>2 DEF StoreInv, TokensRecorded, isGranted
<1>5. TokenNotLost'
  BY <1>1, <1>2, <1>3 DEF StoreInv, NoGrantLost, TokenNotLost, replaces, isGranted
<1>6. CodesRecorded' /\ RefreshUnique' /\ PairsRecorded'
  BY <1>1 DEF StoreInv, CodesRecorded, RefreshUnique, PairsRecorded, isGranted
<1>7. CodeNotLost' /\ RefreshNotLost'
  BY <1>1 DEF StoreInv, NoGrantLost, CodeNotLost, RefreshNotLost, exchangedFor, replaces, isGranted
<1>8. Lineage'
  BY <1>1 DEF StoreInv, Lineage, isGranted
<1> QED
  BY <1>4, <1>5, <1>6, <1>7, <1>8 DEF StoreInv, NoGrantLost

-----------------------------------------------------------------------------
(* Steps that leave the storage alone. *)

LEMMA LocalStepKeeps ==
    ASSUME GrantInv, TypeOK', UNCHANGED storeVars, NEW r \in Requests, NEW s, goto(r, s),
           slotRecorded(s, offered, granted)
    PROVE  GrantInv'
<1>1. StoreInv' /\ grown(offered, offered', granted, granted')
  BY StoreInvStutter DEF GrantInv
<1>2. offered' = offered /\ granted' = granted
  BY DEF storeVars
<1>3. SlotsRecorded'
  BY <1>1, <1>2, OtherSlots DEF GrantInv
<1> QED
  BY <1>1, <1>3 DEF GrantInv

\* A slot in which nothing is to be recorded.
LEMMA PlainSlot ==
    ASSUME NEW s, NEW o, NEW g,
           s.pc \notin {"decide", "finish", "rmAuthorize", "rmRefresh", "rmAccess"}
    PROVE  slotRecorded(s, o, g)
BY DEF slotRecorded

LEMMA RedirectKeeps ==
    ASSUME GrantInv, TypeOK', UNCHANGED storeVars, NEW r \in Requests, NEW out, NEW url,
           NEW fragment, redirect(r, out, url, fragment)
    PROVE  GrantInv'
BY LocalStepKeeps, AnswerRecorded DEF redirect, answeredSlot

LEMMA AnswerKeeps ==
    ASSUME GrantInv, TypeOK', UNCHANGED storeVars, NEW r \in Requests, NEW out, answer(r, out)
    PROVE  GrantInv'
BY RedirectKeeps DEF answer

LEMMA HandleAccessRequestKeeps ==
    ASSUME GrantInv, NEW r \in Requests, NEW http \in TokenRequests, HandleAccessRequest(r, http)
    PROVE  GrantInv'
<1>1. TypeOK'
  BY HandleAccessRequestType DEF GrantInv
<1>2. PICK found : Receive(r, http, found)
  BY DEF HandleAccessRequest
<1> DEFINE auth == getClientAuth(config, http.auth, found)
           error == requestError(http, auth)
<1>3. UNCHANGED storeVars
  BY <1>2 DEF Receive
<1>4. CASE error # Nil
  BY <1>1, <1>2, <1>3, <1>4, AnswerKeeps DEF Receive
<1>5. CASE error = Nil
  <2>1. goto(r, [pc |-> "client", http |-> http, auth |-> auth])
    BY <1>2, <1>5 DEF Receive
  <2>2. slotRecorded([pc |-> "client", http |-> http, auth |-> auth], offered, granted)
    BY PlainSlot
  <2> QED
    BY <1>1, <1>3, <2>1, <2>2, LocalStepKeeps
<1> QED
  BY <1>4, <1>5

LEMMA AuthenticateClientKeeps ==
    ASSUME GrantInv, NEW r \in Requests, AuthenticateClient(r)
    PROVE  GrantInv'
<1> DEFINE http == req[r].http
           client == GetClient(req[r].auth.username)
           error == getClientError(config, req[r].auth, client)
<1>1. TypeOK' /\ UNCHANGED storeVars
  BY AuthenticateClientType DEF GrantInv, AuthenticateClient
<1>2. CASE answer(r, "server_error") \/ answer(r, error)
  BY <1>1, <1>2, AnswerKeeps
<1>3. CASE goto(r, [pc |-> "load", http |-> http, client |-> client])
  <2>1. slotRecorded([pc |-> "load", http |-> http, client |-> client], offered, granted)
    BY PlainSlot
  <2> QED
    BY <1>1, <1>3, <2>1, LocalStepKeeps
<1>4. CASE goto(r, [pc |-> "decide", ar |-> directRequest(http, client)])
  <2>1. requestRecorded(directRequest(http, client), offered, granted)
    BY DEF requestRecorded, directRequest
  <2>2. slotRecorded([pc |-> "decide", ar |-> directRequest(http, client)], offered, granted)
    BY <2>1 DEF slotRecorded
  <2> QED
    BY <1>1, <1>4, <2>2, LocalStepKeeps
<1> QED
  BY <1>2, <1>3, <1>4 DEF AuthenticateClient

\* The code that is loaded is the one that was offered, and it belongs to
\* the client that presents it.
LEMMA LoadCodeKeeps ==
    ASSUME GrantInv, NEW r \in Requests, LoadCode(r)
    PROVE  GrantInv'
<1> DEFINE http == req[r].http
           data == LoadAuthorize(http.code)
           error == codeError(data, http, req[r].client)
           ar == codeRequest(data, http, req[r].client)
<1>1. TypeOK' /\ UNCHANGED storeVars
  BY LoadCodeType DEF GrantInv, LoadCode
<1>2. CASE answer(r, "invalid_grant") \/ answer(r, error)
  BY <1>1, <1>2, AnswerKeeps
<1>3. CASE error = Nil /\ goto(r, [pc |-> "decide", ar |-> ar])
  <2>1. http \in GrantRequest
    BY LocalsType DEF LoadCode, GrantInv
  <2>2. http.code \in Codes
    BY <2>1 DEF LoadCode, GrantRequest, TokenRequest, hasGrant
  <2>3. data # Nil /\ ~otherClient(data, req[r].client)
    BY <1>3, ServerAssumption DEF codeError, missingError, Errors
  <2>4. data = offered[http.code] /\ data.code = http.code
    BY <2>2, <2>3 DEF GrantInv, StoreInv, CodesRecorded, LoadAuthorize
  <2>5. requestRecorded(ar, offered, granted)
    BY <2>3, <2>4 DEF requestRecorded, codeRequest, otherClient
  <2>6. slotRecorded([pc |-> "decide", ar |-> ar], offered, granted)
    BY <2>5 DEF slotRecorded
  <2> QED
    BY <1>1, <1>3, <2>6, LocalStepKeeps
<1> QED
  BY <1>2, <1>3 DEF LoadCode

\* The token that is loaded is one that was granted, to the same client and
\* with the scopes that are asked for.
LEMMA LoadTokenKeeps ==
    ASSUME GrantInv, NEW r \in Requests, LoadToken(r)
    PROVE  GrantInv'
<1> DEFINE http == req[r].http
           data == LoadRefresh(http.refreshToken)
           error == refreshError(data, http, req[r].client)
           ar == refreshRequest(data, http, req[r].client)
<1>1. TypeOK' /\ UNCHANGED storeVars
  BY LoadTokenType DEF GrantInv, LoadToken
<1>2. CASE answer(r, "invalid_grant") \/ answer(r, error)
  BY <1>1, <1>2, AnswerKeeps
<1>3. CASE error = Nil /\ goto(r, [pc |-> "decide", ar |-> ar])
  <2>1. http \in GrantRequest
    BY LocalsType DEF LoadToken, GrantInv
  <2>2. http.refreshToken \in RefreshTokens
    BY <2>1 DEF LoadToken, GrantRequest, TokenRequest, hasGrant
  <2>3. /\ data # Nil /\ ~otherClient(data, req[r].client)
        /\ ~extraScopes(data.scope, refreshScope(data, http.scope))
    BY <1>3, ServerAssumption DEF refreshError, missingError, Errors
  <2>4. refresh[http.refreshToken] \in AccessTokens /\ data = access[refresh[http.refreshToken]]
    BY <2>2, <2>3 DEF GrantInv, TypeOK, StoreTypeOK, LoadRefresh, LoadAccess
  <2>5. recorded(data, granted)
    BY <2>3, <2>4 DEF GrantInv, StoreInv, TokensRecorded
  <2>6. requestRecorded(ar, offered, granted)
    BY <2>3, <2>5 DEF requestRecorded, refreshRequest, otherClient, extraScopes
  <2>7. slotRecorded([pc |-> "decide", ar |-> ar], offered, granted)
    BY <2>6 DEF slotRecorded
  <2> QED
    BY <1>1, <1>3, <2>7, LocalStepKeeps
<1> QED
  BY <1>2, <1>3 DEF LoadToken

LEMMA DecideKeeps ==
    ASSUME GrantInv, NEW r \in Requests, Decide(r)
    PROVE  GrantInv'
<1>1. TypeOK' /\ UNCHANGED storeVars
  BY DecideType DEF GrantInv, Decide
<1>2. PICK authorized \in BOOLEAN, force \in {Nil} \cup reusable(req[r].ar) :
         goto(r, [pc |-> "finish", ar |-> [req[r].ar EXCEPT !.authorized = authorized,
                                                           !.forceAccessData = force]])
  BY DEF Decide
<1> DEFINE ar == [req[r].ar EXCEPT !.authorized = authorized, !.forceAccessData = force]
<1>3. req[r].ar \in AccessRequest
  BY LocalsType DEF GrantInv, Decide
<1>4. requestRecorded(req[r].ar, offered, granted)
  BY DEF GrantInv, SlotsRecorded, slotRecorded, Decide, at
<1>5. force # Nil => recorded(force, granted)
  BY DEF reusable, GrantInv, StoreInv, TokensRecorded
<1>6. /\ ar.client = req[r].ar.client /\ ar.scope = req[r].ar.scope
      /\ ar.authorizeData = req[r].ar.authorizeData
      /\ ar.accessData = req[r].ar.accessData /\ ar.forceAccessData = force
  BY <1>3 DEF AccessRequest
<1>7. requestRecorded(ar, offered, granted)
  BY <1>4, <1>5, <1>6 DEF requestRecorded
<1>8. slotRecorded([pc |-> "finish", ar |-> ar], offered, granted)
  BY <1>7 DEF slotRecorded
<1> QED
  BY <1>1, <1>2, <1>8, LocalStepKeeps

-----------------------------------------------------------------------------
(* FinishAccessRequest. *)

\* What is saved is an old grant or a legitimate new one.
LEMMA ProducedRecorded ==
    ASSUME ~RepeatsTokens, GrantInv, NEW ar \in AccessRequest,
           requestRecorded(ar, offered, granted), NEW data \in produced(ar)
    PROVE  recorded(data, granted) \/ fresh(data)
<1>1. CASE ar.forceAccessData # Nil
  BY <1>1 DEF produced, requestRecorded
<1>2. CASE ar.forceAccessData = Nil
  <2>1. PICK token \in unusedAccess,
             refreshToken \in IF ar.generateRefresh THEN unusedRefresh ELSE {Nil},
             constraint \in Thumbprints \cup {Nil} :
                data = newAccessData(ar, token, refreshToken, constraint)
    BY <1>2 DEF produced
  <2>2. /\ data.client = ar.client /\ data.scope = ar.scope
        /\ data.authorizeData = ar.authorizeData
        /\ data.accessToken = token /\ data.refreshToken = refreshToken
        /\ data.accessData = IF ar.accessData = Nil THEN Nil ELSE tokensOf(ar.accessData)
    BY <2>1 DEF newAccessData
  <2>3. granted[data.accessToken] = Nil
    BY <2>2 DEF unusedAccess
  <2>4. data.refreshToken # Nil =>
            \A t \in AccessTokens : isGranted(t) => granted[t].refreshToken # data.refreshToken
    BY <2>2 DEF unusedRefresh, isGranted
  <2>5. data.authorizeData # Nil =>
            /\ offered[data.authorizeData] # Nil
            /\ data.client.id = offered[data.authorizeData].client.id
            /\ data.scope = offered[data.authorizeData].scope
    BY <2>2 DEF requestRecorded
  <2>6. data.accessData # Nil =>
            /\ ar.accessData # Nil
            /\ data.accessData.accessToken = ar.accessData.accessToken
            /\ data.accessData.refreshToken = ar.accessData.refreshToken
    BY <2>2 DEF tokensOf
  <2>7. data.accessData # Nil =>
            LET old == granted[data.accessData.accessToken]
            IN  /\ old # Nil
                /\ old.refreshToken = data.accessData.refreshToken
                /\ data.client.id = old.client.id
                /\ data.scope \subseteq old.scope
    BY <2>2, <2>6 DEF requestRecorded, recorded, sameGrant
  <2> QED
    BY <2>3, <2>4, <2>5, <2>7 DEF fresh
<1> QED
  BY <1>1, <1>2

\* Taking over a binding changes nothing else.
LEMMA BoundRecorded ==
    ASSUME NEW ar \in AccessRequest, NEW data \in AccessData,
           recorded(data, granted) \/ fresh(data)
    PROVE  LET ret == withBinding(data, ar) IN recorded(ret, granted) \/ fresh(ret)
<1> DEFINE ret == withBinding(data, ar)
           bound == [data EXCEPT !.senderConstraint = ar.accessData.senderConstraint]
<1>1. CASE ret = data
  BY <1>1
<1>2. CASE ret = bound /\ ret \in AccessData
  <2>1. /\ bound.client = data.client /\ bound.scope = data.scope
        /\ bound.authorizeData = data.authorizeData /\ bound.accessData = data.accessData
        /\ bound.accessToken = data.accessToken /\ bound.refreshToken = data.refreshToken
    BY DEF AccessData
  <2>2. CASE recorded(data, granted)
    BY <1>2, <2>1, <2>2 DEF recorded, sameGrant
  <2>3. CASE fresh(data)
    BY <1>2, <2>1, <2>3 DEF fresh
  <2> QED
    BY <2>2, <2>3
<1>3. ret \in AccessData
  BY WithBindingType
<1> QED
  BY <1>1, <1>2, <1>3 DEF withBinding

\* What follows a save or a removal removes only what is replaced.
LEMMA GoOnKeeps ==
    ASSUME GrantInv, StoreInv', TypeOK', grown(offered, offered', granted, granted'),
           NEW r \in Requests, NEW ret, recorded(ret, granted'), NEW stage, goOn(r, stage, ret)
    PROVE  GrantInv'
<1> DEFINE next == stageAfter(stage, ret)
           slot == [pc |-> next, ret |-> ret]
<1>1. CASE next = "reply"
  <2>1. PICK url, fragment : goto(r, answeredSlot("ok", url, fragment))
    BY <1>1, ReplyRedirects DEF goOn, redirect, answeredSlot
  <2>2. slotRecorded(answeredSlot("ok", url, fragment), offered', granted')
    BY AnswerRecorded
  <2>3. SlotsRecorded'
    BY <2>1, <2>2, OtherSlots DEF GrantInv
  <2> QED
    BY <2>3 DEF GrantInv
<1>2. CASE next # "reply"
  <2>1. goto(r, slot)
    BY <1>2 DEF goOn
  <2>2. /\ next = "rmAuthorize" => ret.authorizeData # Nil
        /\ next = "rmRefresh" => ret.accessData # Nil /\ ret.accessData.refreshToken # Nil
        /\ next = "rmAccess" => ret.accessData # Nil
    BY DEF stageAfter, replacesToken
  <2>3. removalRecorded(slot, granted')
    BY <2>2 DEF removalRecorded
  <2>4. slotRecorded(slot, offered', granted')
    BY <1>2, <2>3 DEF slotRecorded, stageAfter
  <2>5. SlotsRecorded'
    BY <2>1, <2>4, OtherSlots DEF GrantInv
  <2> QED
    BY <2>5 DEF GrantInv
<1> QED
  BY <1>1, <1>2

LEMMA SaveKeeps ==
    ASSUME GrantInv, TypeOK', NEW r \in Requests, NEW ret \in AccessData,
           recorded(ret, granted) \/ fresh(ret), Save(r, ret)
    PROVE  GrantInv'
<1>1. StoreTypeOK /\ StoreInv
  BY DEF GrantInv, TypeOK
<1>2. SaveAccess(ret) => StoreInv' /\ grown(offered, offered', granted, granted')
  BY <1>1, RegrantKeeps, FreshKeeps
<1>3. CASE SaveAccess(ret) /\ goOn(r, "save", ret)
  <2>1. recorded(ret, granted')
    <3>1. ret.accessToken \in AccessTokens /\ granted'[ret.accessToken] = ret /\ ret # Nil
      BY <1>1, <1>3, SavedTables
    <3> QED
      BY <3>1 DEF recorded, sameGrant
  <2> QED
    BY <1>2, <1>3, <2>1, GoOnKeeps
<1>4. CASE (SaveAccess(ret) \/ UNCHANGED storeVars) /\ reply(r, "server_error")
  <2>1. StoreInv' /\ grown(offered, offered', granted, granted')
    BY <1>1, <1>2, <1>4, StoreInvStutter
  <2>2. PICK url, fragment : goto(r, answeredSlot("server_error", url, fragment))
    BY <1>4, ReplyRedirects DEF redirect, answeredSlot
  <2>3. slotRecorded(answeredSlot("server_error", url, fragment), offered', granted')
    BY AnswerRecorded
  <2>4. SlotsRecorded'
    BY <2>1, <2>2, <2>3, OtherSlots DEF GrantInv
  <2> QED
    BY <2>1, <2>4 DEF GrantInv
<1> QED
  BY <1>3, <1>4 DEF Save

LEMMA FinishAccessRequestKeeps ==
    ASSUME ~RepeatsTokens, GrantInv, NEW r \in Requests, FinishAccessRequest(r)
    PROVE  GrantInv'
<1> DEFINE ar == req[r].ar
<1>1. TypeOK'
  BY FinishAccessRequestType DEF GrantInv
<1>2. ar \in AccessRequest
  BY LocalsType DEF GrantInv, FinishAccessRequest
<1>3. requestRecorded(ar, offered, granted)
  BY DEF GrantInv, SlotsRecorded, slotRecorded, FinishAccessRequest, at
<1>4. ASSUME NEW error, Refused(r, error)
      PROVE  GrantInv'
  BY <1>1, <1>4, ReplyRedirects, RedirectKeeps DEF Refused
<1>5. ASSUME NEW data \in produced(ar), Save(r, withBinding(data, ar))
      PROVE  GrantInv'
  <2>1. data \in AccessData
    BY <1>2, ProducedType DEF GrantInv
  <2>2. withBinding(data, ar) \in AccessData
    BY <1>2, <2>1, WithBindingType
  <2>3. recorded(withBinding(data, ar), granted) \/ fresh(withBinding(data, ar))
    BY <1>2, <1>3, <2>1, ProducedRecorded, BoundRecorded
  <2> QED
    BY <1>1, <1>5, <2>2, <2>3, SaveKeeps
<1> QED
  BY <1>4, <1>5 DEF FinishAccessRequest

\* A removal undone or done: the request holds the record that replaced what
\* it removes.
LEMMA RemovalKeeps ==
    ASSUME GrantInv, TypeOK', NEW r \in Requests, NEW stage, removalRecorded(req[r], granted),
           UNCHANGED <<offered, granted>>, StoreInv', goOn(r, stage, req[r].ret)
    PROVE  GrantInv'
<1>1. grown(offered, offered', granted, granted')
  BY GrownStutter
<1>2. recorded(req[r].ret, granted')
  BY DEF removalRecorded
<1> QED
  BY <1>1, <1>2, GoOnKeeps

LEMMA RemoveSpentCodeKeeps ==
    ASSUME GrantInv, NEW r \in Requests, RemoveSpentCode(r)
    PROVE  GrantInv'
<1>1. TypeOK' /\ StoreTypeOK /\ StoreInv
  BY RemoveSpentCodeType DEF GrantInv, TypeOK
<1>2. removalRecorded(req[r], granted) /\ req[r].ret.authorizeData # Nil
  BY DEF GrantInv, SlotsRecorded, slotRecorded, removalRecorded, RemoveSpentCode, at
<1>3. StoreInv'
  BY <1>1, <1>2, RemoveAuthorizeKeeps, StoreInvStutter DEF RemoveSpentCode, removalRecorded
<1>4. UNCHANGED <<offered, granted>>
  BY DEF RemoveSpentCode, RemoveAuthorize, storeVars
<1> QED
  BY <1>1, <1>2, <1>3, <1>4, RemovalKeeps DEF RemoveSpentCode

LEMMA RemovePreviousRefreshKeeps ==
    ASSUME GrantInv, NEW r \in Requests, RemovePreviousRefresh(r)
    PROVE  GrantInv'
<1>1. TypeOK' /\ StoreTypeOK /\ StoreInv
  BY RemovePreviousRefreshType DEF GrantInv, TypeOK
<1>2. /\ removalRecorded(req[r], granted)
      /\ req[r].ret.accessData # Nil /\ req[r].ret.accessData.refreshToken # Nil
  BY DEF GrantInv, SlotsRecorded, slotRecorded, removalRecorded, RemovePreviousRefresh, at
<1>3. StoreInv'
  BY <1>1, <1>2, RemoveRefreshKeeps, StoreInvStutter DEF RemovePreviousRefresh, removalRecorded
<1>4. UNCHANGED <<offered, granted>>
  BY DEF RemovePreviousRefresh, RemoveRefresh, storeVars
<1> QED
  BY <1>1, <1>2, <1>3, <1>4, RemovalKeeps DEF RemovePreviousRefresh

LEMMA RemovePreviousAccessKeeps ==
    ASSUME GrantInv, NEW r \in Requests, RemovePreviousAccess(r)
    PROVE  GrantInv'
<1>1. TypeOK' /\ StoreTypeOK /\ StoreInv
  BY RemovePreviousAccessType DEF GrantInv, TypeOK
<1>2. removalRecorded(req[r], granted) /\ req[r].ret.accessData # Nil
  BY DEF GrantInv, SlotsRecorded, slotRecorded, removalRecorded, RemovePreviousAccess, at
<1>3. StoreInv'
  BY <1>1, <1>2, RemoveAccessKeeps, StoreInvStutter DEF RemovePreviousAccess, removalRecorded
<1>4. UNCHANGED <<offered, granted>>
  BY DEF RemovePreviousAccess, RemoveAccess, storeVars
<1> QED
  BY <1>1, <1>2, <1>3, <1>4, RemovalKeeps DEF RemovePreviousAccess

-----------------------------------------------------------------------------
(* The authorization endpoint. *)

LEMMA HandleAuthorizeRequestKeeps ==
    ASSUME GrantInv, NEW r \in Requests, NEW http \in AuthorizationRequests,
           HandleAuthorizeRequest(r, http)
    PROVE  GrantInv'
<1> DEFINE client == GetClient(http.clientId)
           slot == [pc |-> "login", ar |-> authorizeRequest(http, client)]
<1>1. TypeOK' /\ UNCHANGED storeVars
  BY HandleAuthorizeRequestType DEF GrantInv, HandleAuthorizeRequest
<1>2. CASE answer(r, "server_error") \/ answer(r, authorizeError(http, client))
  BY <1>1, <1>2, AnswerKeeps
<1>3. CASE redirect(r, redirectedError(http, client), redirectUriOf(http, client), FALSE)
  BY <1>1, <1>3, RedirectKeeps
<1>4. CASE goto(r, slot)
  <2>1. slotRecorded(slot, offered, granted)
    BY PlainSlot
  <2> QED
    BY <1>1, <1>4, <2>1, LocalStepKeeps
<1> QED
  BY <1>2, <1>3, <1>4 DEF HandleAuthorizeRequest

LEMMA DenyKeeps ==
    ASSUME GrantInv, NEW r \in Requests, Deny(r)
    PROVE  GrantInv'
<1>1. TypeOK' /\ UNCHANGED storeVars
  BY DenyType DEF GrantInv, Deny
<1> QED
  BY <1>1, RedirectKeeps DEF Deny, redirectBack

LEMMA GrantTokenKeeps ==
    ASSUME GrantInv, NEW r \in Requests, GrantToken(r)
    PROVE  GrantInv'
<1> DEFINE slot == [pc |-> "finish", ar |-> implicitRequest(req[r].ar)]
<1>1. TypeOK' /\ UNCHANGED storeVars
  BY GrantTokenType DEF GrantInv, GrantToken
<1>2. requestRecorded(implicitRequest(req[r].ar), offered, granted)
  BY DEF requestRecorded, implicitRequest
<1>3. slotRecorded(slot, offered, granted)
  BY <1>2 DEF slotRecorded
<1> QED
  BY <1>1, <1>3, LocalStepKeeps DEF GrantToken

LEMMA GrantCodeKeeps ==
    ASSUME GrantInv, NEW r \in Requests, GrantCode(r)
    PROVE  GrantInv'
<1>1. TypeOK' /\ StoreTypeOK /\ StoreInv
  BY GrantCodeType DEF GrantInv, TypeOK
<1>2. PICK out : redirectBack(r, out)
  BY DEF GrantCode
<1>3. req[r].ar \in AuthorizeRequest
  BY LocalsType DEF GrantInv, GrantCode
<1>4. StoreInv' /\ grown(offered, offered', granted, granted')
  <2>1. ASSUME NEW code \in unusedCodes, SaveAuthorize(newAuthorizeData(req[r].ar, code))
        PROVE  StoreInv' /\ grown(offered, offered', granted, granted')
    <3>1. code \in Codes /\ offered[code] = Nil
      BY DEF unusedCodes
    <3>2. newAuthorizeData(req[r].ar, code) \in AuthorizeData
      BY <1>3, <3>1, NewAuthorizeDataType DEF GrantInv
    <3>3. newAuthorizeData(req[r].ar, code).code = code
      BY DEF newAuthorizeData
    <3> QED
      BY <1>1, <2>1, <3>1, <3>2, <3>3, SaveAuthorizeKeeps
  <2> QED
    BY <1>1, <2>1, StoreInvStutter DEF GrantCode
<1>5. slotRecorded(answeredSlot(out, req[r].ar.redirectUri, FALSE), offered', granted')
  BY AnswerRecorded
<1>6. SlotsRecorded'
  BY <1>2, <1>4, <1>5, OtherSlots DEF redirectBack, redirect, answeredSlot, GrantInv
<1> QED
  BY <1>1, <1>4, <1>6 DEF GrantInv

-----------------------------------------------------------------------------
(* The info endpoint. *)

LEMMA HandleInfoRequestKeeps ==
    ASSUME GrantInv, NEW r \in Requests, NEW http \in InfoRequests, HandleInfoRequest(r, http)
    PROVE  GrantInv'
<1> DEFINE data == LoadAccess(CheckBearerAuth(http))
           slot == [pc |-> "info", data |-> data]
<1>1. TypeOK' /\ UNCHANGED storeVars
  BY HandleInfoRequestType DEF GrantInv, HandleInfoRequest
<1>2. CASE answer(r, "invalid_request") \/ answer(r, infoError(data))
  BY <1>1, <1>2, AnswerKeeps
<1>3. CASE goto(r, slot)
  <2>1. slotRecorded(slot, offered, granted)
    BY PlainSlot
  <2> QED
    BY <1>1, <1>3, <2>1, LocalStepKeeps
<1> QED
  BY <1>2, <1>3 DEF HandleInfoRequest

LEMMA FinishInfoRequestKeeps ==
    ASSUME GrantInv, NEW r \in Requests, FinishInfoRequest(r)
    PROVE  GrantInv'
<1> DEFINE report == [pc |-> "idle", out |-> "report", url |-> Nil, fragment |-> FALSE,
                      token |-> req[r].data.accessToken, expiresIn |-> remaining(req[r].data)]
<1>1. TypeOK' /\ UNCHANGED storeVars
  BY FinishInfoRequestType DEF GrantInv, FinishInfoRequest
<1>2. slotRecorded(report, offered, granted)
  BY PlainSlot
<1> QED
  BY <1>1, <1>2, LocalStepKeeps DEF FinishInfoRequest

-----------------------------------------------------------------------------
(* The steps around the handlers, and the theorems. *)

\* Steps that change neither the tables but clients nor the requests.
LEMMA OutsideKeeps ==
    ASSUME GrantInv, TypeOK',
           UNCHANGED <<authorize, access, refresh, offered, granted, req>>
    PROVE  GrantInv'
<1>1. CodesRecorded' /\ TokensRecorded' /\ RefreshUnique' /\ PairsRecorded'
  BY DEF GrantInv, StoreInv, CodesRecorded, TokensRecorded, RefreshUnique, PairsRecorded,
         isGranted
<1>2. NoGrantLost'
  BY DEF GrantInv, StoreInv, NoGrantLost, CodeNotLost, TokenNotLost, RefreshNotLost,
         exchangedFor, replaces, isGranted
<1>3. Lineage'
  BY DEF GrantInv, StoreInv, Lineage, isGranted
<1>4. SlotsRecorded'
  BY DEF GrantInv, SlotsRecorded
<1> QED
  BY <1>1, <1>2, <1>3, <1>4 DEF GrantInv, StoreInv

LEMMA RestartKeeps ==
    ASSUME GrantInv, Restart
    PROVE  GrantInv'
<1>1. TypeOK'
  BY RestartType DEF GrantInv
<1>2. StoreInv'
  BY StoreInvStutter DEF GrantInv, Restart
<1>3. SlotsRecorded'
  BY AnswerRecorded DEF Restart, SlotsRecorded, noResponse, answeredSlot
<1> QED
  BY <1>1, <1>2, <1>3 DEF GrantInv

LEMMA InitGrants ==
    ASSUME Init
    PROVE  GrantInv
<1>1. TypeOK
  BY InitType
<1>2. /\ \A c \in Codes : authorize[c] = Nil /\ offered[c] = Nil
      /\ \A t \in AccessTokens : access[t] = Nil /\ granted[t] = Nil
  BY DEF Init, StoreInit
<1>3. CodesRecorded /\ TokensRecorded /\ RefreshUnique /\ PairsRecorded
  BY <1>2 DEF CodesRecorded, TokensRecorded, RefreshUnique, PairsRecorded, isGranted
<1>4. NoGrantLost /\ Lineage
  BY <1>2 DEF NoGrantLost, CodeNotLost, TokenNotLost, RefreshNotLost, Lineage, isGranted
<1>5. SlotsRecorded
  BY AnswerRecorded DEF Init, ServerInit, SlotsRecorded, noResponse, answeredSlot
<1> QED
  BY <1>1, <1>3, <1>4, <1>5 DEF GrantInv, StoreInv

LEMMA NextGrants ==
    ASSUME ~RepeatsTokens, GrantInv, [Next]_vars
    PROVE  GrantInv'
<1>1. TypeOK'
  BY NextType DEF GrantInv
<1>2. ASSUME NEW r \in Requests, TokenStep(r)
      PROVE  GrantInv'
  BY <1>2, HandleAccessRequestKeeps, AuthenticateClientKeeps, LoadCodeKeeps, LoadTokenKeeps,
     DecideKeeps, FinishAccessRequestKeeps, RemoveSpentCodeKeeps, RemovePreviousRefreshKeeps,
     RemovePreviousAccessKeeps DEF TokenStep
<1>3. ASSUME NEW r \in Requests, AuthorizeStep(r)
      PROVE  GrantInv'
  BY <1>3, HandleAuthorizeRequestKeeps, DenyKeeps, GrantTokenKeeps, GrantCodeKeeps
     DEF AuthorizeStep
<1>4. ASSUME NEW r \in Requests, InfoStep(r)
      PROVE  GrantInv'
  BY <1>4, HandleInfoRequestKeeps, FinishInfoRequestKeeps DEF InfoStep
<1>5. ASSUME NEW client \in Registrations, Register(client)
      PROVE  GrantInv'
  BY <1>1, <1>5, OutsideKeeps DEF Register, SetClient, serverVars
<1>6. CASE Tick \/ UNCHANGED vars
  BY <1>1, <1>6, OutsideKeeps DEF Tick, vars, storeVars, serverVars
<1> QED
  BY <1>2, <1>3, <1>4, <1>5, <1>6, RestartKeeps DEF Next

\* The inductive invariant: the strengthening of both properties holds, as
\* long as the generator returns no token it returned before.
THEOREM GrantInvariant ==
    ASSUME ~RepeatsTokens
    PROVE  Spec => []GrantInv
<1>1. Init => GrantInv
  BY InitGrants
<1>2. GrantInv /\ [Next]_vars => GrantInv'
  BY NextGrants
<1> QED
  BY <1>1, <1>2, PTL DEF Spec

\* No grant is lost: whatever calls fail, wherever the process dies and
\* however requests overlap, a code, a token or a refresh token that is not in
\* the storage any more has been replaced by a token that was saved before.
THEOREM GrantsKept ==
    ASSUME ~RepeatsTokens
    PROVE  Spec => []NoGrantLost
<1>1. GrantInv => NoGrantLost
  BY DEF GrantInv, StoreInv
<1> QED
  BY <1>1, GrantInvariant, PTL

\* Every token belongs to the client, and stays within the scope, of the code
\* or the token it was issued for.
THEOREM LineageKept ==
    ASSUME ~RepeatsTokens
    PROVE  Spec => []Lineage
<1>1. GrantInv => Lineage
  BY DEF GrantInv, StoreInv
<1> QED
  BY <1>1, GrantInvariant, PTL
=============================================================================
