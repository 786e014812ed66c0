----------------------------- MODULE LedgerProofs ------------------------------
(***************************************************************************)
(* The server implements the ledger of grants: ImplementsLedger, for all   *)
(* values of the constants, as long as the generator returns no token it   *)
(* returned before.                                                        *)
(*                                                                         *)
(* Each kind of step is one of the ledger's actions or none.  What has to  *)
(* be known of the state is GrantInv, and that a token was exchanged for a *)
(* code or for a token, never for both: the ledger has one source for each *)
(* grant.                                                                  *)
(***************************************************************************)
EXTENDS RequestProofs, GrantProofs

oneSource(data) == data.authorizeData = Nil \/ data.accessData = Nil

SourcesInv ==
    /\ \A t \in AccessTokens : isGranted(t) => oneSource(granted[t])
    /\ \A r \in Requests : holding(r) => oneSource(req[r].ar)

LedgerInv == GrantInv /\ SourcesInv

-----------------------------------------------------------------------------
(* The grants as values. *)

LEMMA GrantValues ==
    /\ \A c \in Codes : codeGrant(c) \in grants /\ entryIn(codeGrant(c)) = entryOf(offered[c], Nil)
    /\ \A t \in AccessTokens : tokenGrant(t) \in grants /\ entryIn(tokenGrant(t)) = tokenEntry(t)
    /\ \A g \in grants : (\E c \in Codes : g = codeGrant(c)) \/ (\E t \in AccessTokens : g = tokenGrant(t))
BY DEF grants, codeGrant, tokenGrant, entryIn

LEMMA GrantsDiffer ==
    /\ \A c, d : codeGrant(c) = codeGrant(d) => c = d
    /\ \A t, u : tokenGrant(t) = tokenGrant(u) => t = u
    /\ \A c, t : codeGrant(c) # tokenGrant(t)
BY DEF codeGrant, tokenGrant

\* The history and the storage, as far as the ledger sees them.
entriesKept == \A g \in grants : entryIn(g)' = entryIn(g)

LEMMA GrantsConstant == grants' = grants
BY DEF grants, codeGrant, tokenGrant

LEMMA TablesUnseen ==
    ASSUME UNCHANGED <<authorize, access, offered, granted>>
    PROVE  entriesKept /\ openGrants' = openGrants
BY DEF entriesKept, entryIn, entryOf, tokenEntry, isGranted, sourceOf, tokenGrant, codeGrant, openGrants

LEMMA OfferEnters ==
    ASSUME TypeOK, NEW data \in AuthorizeData, SaveAuthorize(data)
    PROVE  /\ \A g \in grants : entryIn(g)' = IF g = codeGrant(data.code) THEN entryOf(data, Nil)
                                              ELSE entryIn(g)
           /\ openGrants' = openGrants \cup {codeGrant(data.code)}
<1>1. /\ data # Nil /\ data.code \in Codes
      /\ \A c \in Codes : /\ authorize'[c] = IF c = data.code THEN data ELSE authorize[c]
                          /\ offered'[c] = IF c = data.code THEN data ELSE offered[c]
      /\ UNCHANGED <<access, granted>>
  BY RecordsAssumption DEF AuthorizeData, SaveAuthorize, TypeOK, StoreTypeOK
<1>2. ASSUME NEW g \in grants
      PROVE  entryIn(g)' = IF g = codeGrant(data.code) THEN entryOf(data, Nil) ELSE entryIn(g)
  <2>1. CASE \E c \in Codes : g = codeGrant(c)
    BY <1>1, <2>1 DEF entryIn, codeGrant, entryOf
  <2>2. CASE \E t \in AccessTokens : g = tokenGrant(t)
    BY <1>1, <2>2 DEF entryIn, codeGrant, tokenGrant, tokenEntry, isGranted, entryOf, sourceOf
  <2> QED
    BY <2>1, <2>2, GrantValues
<1>3. openGrants' = openGrants \cup {codeGrant(data.code)}
  BY <1>1 DEF openGrants, codeGrant, tokenGrant
<1> QED
  BY <1>2, <1>3

LEMMA SaveEnters ==
    ASSUME TypeOK, NEW ret \in AccessData, SaveAccess(ret)
    PROVE  /\ \A g \in grants :
                 entryIn(g)' = IF g = tokenGrant(ret.accessToken) THEN entryOf(ret, sourceOf(ret))
                               ELSE entryIn(g)
           /\ openGrants' = openGrants \cup {tokenGrant(ret.accessToken)}
<1>1. /\ ret # Nil /\ persisted(ret) # Nil /\ ret.accessToken \in AccessTokens
      /\ \A t \in AccessTokens :
            /\ access'[t] = IF t = ret.accessToken THEN persisted(ret) ELSE access[t]
            /\ granted'[t] = IF t = ret.accessToken THEN ret ELSE granted[t]
      /\ UNCHANGED <<authorize, offered>>
  <2>1. persisted(ret) \in AccessData /\ ret.accessToken \in AccessTokens
    BY DEF persisted, AccessData
  <2> QED
    BY <2>1, RecordsAssumption DEF SaveAccess, TypeOK, StoreTypeOK
<1>2. ASSUME NEW g \in grants
      PROVE  entryIn(g)' = IF g = tokenGrant(ret.accessToken) THEN entryOf(ret, sourceOf(ret))
                           ELSE entryIn(g)
  <2>1. CASE \E c \in Codes : g = codeGrant(c)
    BY <1>1, <2>1 DEF entryIn, codeGrant, tokenGrant, entryOf
  <2>2. CASE \E t \in AccessTokens : g = tokenGrant(t)
    BY <1>1, <2>2 DEF entryIn, codeGrant, tokenGrant, tokenEntry, isGranted, entryOf, sourceOf
  <2> QED
    BY <2>1, <2>2, GrantValues
<1>3. openGrants' = openGrants \cup {tokenGrant(ret.accessToken)}
  BY <1>1 DEF openGrants, codeGrant, tokenGrant
<1> QED
  BY <1>2, <1>3

LEMMA RemovalCloses ==
    ASSUME TypeOK, UNCHANGED <<offered, granted>>
    PROVE  /\ entriesKept
           /\ \A c \in Codes : authorize' = [authorize EXCEPT ![c] = Nil] /\ UNCHANGED access =>
                 openGrants' = openGrants \ {codeGrant(c)}
           /\ \A t \in AccessTokens : access' = [access EXCEPT ![t] = Nil] /\ UNCHANGED authorize =>
                 openGrants' = openGrants \ {tokenGrant(t)}
<1>1. entriesKept
  BY DEF entriesKept, entryIn, entryOf, tokenEntry, isGranted, sourceOf, tokenGrant, codeGrant
<1>2. ASSUME NEW c \in Codes, authorize' = [authorize EXCEPT ![c] = Nil], UNCHANGED access
      PROVE  openGrants' = openGrants \ {codeGrant(c)}
  BY <1>2 DEF openGrants, codeGrant, tokenGrant, TypeOK, StoreTypeOK
<1>3. ASSUME NEW t \in AccessTokens, access' = [access EXCEPT ![t] = Nil], UNCHANGED authorize
      PROVE  openGrants' = openGrants \ {tokenGrant(t)}
  BY <1>3 DEF openGrants, codeGrant, tokenGrant, TypeOK, StoreTypeOK
<1> QED
  BY <1>1, <1>2, <1>3

-----------------------------------------------------------------------------
(* The actions of the ledger, and what a step has to do to be one of them. *)

claimsKept == \A r \in Requests : claimOf(r)' = claimOf(r)

claims(r, g) == \A q \in Requests : claimOf(q)' = IF q = r THEN g ELSE claimOf(q)

LEMMA LedgerStutter ==
    ASSUME entriesKept, openGrants' = openGrants, claimsKept
    PROVE  UNCHANGED Ledger!ledgerVars
BY GrantsConstant DEF Ledger!ledgerVars, entriesKept, claimsKept

LEMMA LedgerRelease ==
    ASSUME NEW who \in SUBSET Requests, entriesKept, openGrants' = openGrants,
           \A r \in Requests : claimOf(r)' = IF r \in who THEN Nil ELSE claimOf(r)
    PROVE  Ledger!Next
<1>1. Ledger!Release(who)
  BY GrantsConstant DEF Ledger!Release, entriesKept
<1> QED
  BY <1>1 DEF Ledger!Next

LEMMA LedgerClaim ==
    ASSUME NEW r \in Requests, NEW g \in grants, g \in openGrants,
           entriesKept, openGrants' = openGrants, claims(r, g)
    PROVE  Ledger!Next
<1>1. Ledger!Claim(r, g)
  BY GrantsConstant DEF Ledger!Claim, entriesKept, claims
<1> QED
  BY <1>1 DEF Ledger!Next

LEMMA LedgerIssue ==
    ASSUME NEW r \in Requests, NEW g \in grants, NEW e \in Ledger!Entry, entryIn(g) = Nil,
           e.source = claimOf(r), claimOf(r) \in grants \cup {Nil},
           claimOf(r) # Nil => /\ e.owner = entryIn(claimOf(r)).owner
                               /\ e.scope \subseteq entryIn(claimOf(r)).scope,
           \A x \in grants : entryIn(x)' = IF x = g THEN e ELSE entryIn(x),
           openGrants' = openGrants \cup {g}, claims(r, Nil)
    PROVE  Ledger!Next
<1>1. Ledger!Issue(r, g, e)
  BY GrantsConstant DEF Ledger!Issue, Ledger!isIssued, claims
<1> QED
  BY <1>1 DEF Ledger!Next

LEMMA LedgerHandOutAgain ==
    ASSUME NEW r \in Requests, NEW g \in grants, entryIn(g) # Nil, entriesKept,
           openGrants' = openGrants \cup {g}, claims(r, Nil)
    PROVE  Ledger!Next
<1>1. Ledger!HandOutAgain(r, g)
  BY GrantsConstant DEF Ledger!HandOutAgain, Ledger!isIssued, entriesKept, claims
<1> QED
  BY <1>1 DEF Ledger!Next

LEMMA LedgerClose ==
    ASSUME NEW g \in grants, NEW s \in grants, entryIn(s) # Nil, entryIn(s).source = g,
           entriesKept, openGrants' = openGrants \ {g}, claimsKept
    PROVE  Ledger!Next
<1>1. Ledger!Close(g)
  BY GrantsConstant DEF Ledger!Close, Ledger!issuedFrom, Ledger!isIssued, entriesKept, claimsKept
<1> QED
  BY <1>1 DEF Ledger!Next

-----------------------------------------------------------------------------
(* What the requests claim. *)

LEMMA ClaimGoes ==
    ASSUME TypeOK, NEW r \in Requests, NEW s, goto(r, s)
    PROVE  claims(r, IF s.pc \in {"decide", "finish"} THEN sourceOf(s.ar) ELSE Nil)
<1>1. ASSUME NEW q \in Requests
      PROVE  claimOf(q)' = IF q = r
                           THEN (IF s.pc \in {"decide", "finish"} THEN sourceOf(s.ar) ELSE Nil)
                           ELSE claimOf(q)
  <2>1. req'[q] = IF q = r THEN s ELSE req[q]
    BY GotoSlots
  <2> QED
    BY <2>1 DEF claimOf, sourceOf, tokenGrant, codeGrant
<1> QED
  BY <1>1 DEF claims

LEMMA ReleasedClaim ==
    ASSUME TypeOK, NEW r \in Requests, NEW s, goto(r, s), s.pc \notin {"decide", "finish"}
    PROVE  claims(r, Nil)
BY ClaimGoes

LEMMA ContinuesReleases ==
    ASSUME TypeOK, NEW r \in Requests, NEW stage, NEW ret, continues(r, stage, ret)
    PROVE  claims(r, Nil)
<1>1. PICK s : /\ goto(r, s)
               /\ \/ s.pc = "idle"
                  \/ s = [pc |-> stageAfter(stage, ret), ret |-> ret]
  BY DEF continues
<1>2. s.pc \notin {"decide", "finish"}
  BY <1>1 DEF stageAfter
<1> QED
  BY <1>1, <1>2, ReleasedClaim

LEMMA SourceValue ==
    ASSUME NEW data, data.authorizeData \in Codes \cup {Nil},
           data.accessData # Nil => data.accessData.accessToken \in AccessTokens
    PROVE  sourceOf(data) \in grants \cup {Nil}
BY GrantValues DEF sourceOf

LEMMA EntryValue ==
    ASSUME NEW d \in AuthorizeData \cup AccessData, NEW source \in grants \cup {Nil}
    PROVE  /\ entryOf(d, source) = [owner |-> d.client.id, scope |-> d.scope, source |-> source]
           /\ entryOf(d, source) \in Ledger!Entry /\ entryOf(d, source) # Nil
<1>1. d # Nil /\ d.client.id \in ClientIds /\ d.scope \in SUBSET Scopes
  BY RecordsAssumption, ClientsAssumption DEF AuthorizeData, AccessData, ClientValue
<1> QED
  BY <1>1, LedgerAssumption DEF entryOf, Ledger!Entry

\* A granted token has an entry in the ledger.
LEMMA GrantedEntry ==
    ASSUME TypeOK, NEW t \in AccessTokens, isGranted(t)
    PROVE  /\ entryIn(tokenGrant(t)) = entryOf(granted[t], sourceOf(granted[t]))
           /\ entryIn(tokenGrant(t)) # Nil
           /\ entryIn(tokenGrant(t)).owner = granted[t].client.id
           /\ entryIn(tokenGrant(t)).scope = granted[t].scope
           /\ entryIn(tokenGrant(t)).source = sourceOf(granted[t])
<1>1. granted[t] \in AccessData
  BY DEF TypeOK, StoreTypeOK, isGranted
<1>2. sourceOf(granted[t]) \in grants \cup {Nil}
  BY <1>1, SourceValue DEF AccessData, TokenPair
<1>3. entryIn(tokenGrant(t)) = entryOf(granted[t], sourceOf(granted[t]))
  BY GrantValues DEF tokenEntry
<1> QED
  BY <1>1, <1>2, <1>3, EntryValue

LEMMA OfferedEntry ==
    ASSUME TypeOK, NEW c \in Codes, offered[c] # Nil
    PROVE  /\ entryIn(codeGrant(c)).owner = offered[c].client.id
           /\ entryIn(codeGrant(c)).scope = offered[c].scope
<1>1. offered[c] \in AuthorizeData
  BY DEF TypeOK, StoreTypeOK
<1>2. entryIn(codeGrant(c)) = entryOf(offered[c], Nil)
  BY GrantValues
<1> QED
  BY <1>1, <1>2, EntryValue

-----------------------------------------------------------------------------
(* One lemma for each kind of step. *)

LEMMA QuietImplements ==
    ASSUME LedgerInv, NEW r \in Requests, quiet(r) \/ asks(r)
    PROVE  Ledger!Next
<1>1. entriesKept /\ openGrants' = openGrants
  BY TablesUnseen DEF quiet, asks, storeVars
<1>2. CASE quiet(r)
  <2>1. PICK s \in Slot : goto(r, s) /\ s.pc \in {"idle", "load", "client", "login", "info"}
    BY <1>2 DEF quiet
  <2>2. claims(r, Nil)
    BY <2>1, ReleasedClaim DEF LedgerInv, GrantInv
  <2>3. \A q \in Requests : claimOf(q)' = IF q \in {r} THEN Nil ELSE claimOf(q)
    BY <2>2 DEF claims
  <2> QED
    BY <1>1, <2>3, LedgerRelease
<1>3. CASE asks(r)
  <2>1. PICK pc \in {"decide", "finish"}, ar \in AccessRequest :
           goto(r, [pc |-> pc, ar |-> ar]) /\ ar.authorizeData = Nil /\ ar.accessData = Nil
    BY <1>3 DEF asks
  <2>2. sourceOf(ar) = Nil
    BY <2>1 DEF sourceOf
  <2>3. claims(r, Nil)
    BY <2>1, <2>2, ClaimGoes DEF LedgerInv, GrantInv
  <2>4. \A q \in Requests : claimOf(q)' = IF q \in {r} THEN Nil ELSE claimOf(q)
    BY <2>3 DEF claims
  <2> QED
    BY <1>1, <2>4, LedgerRelease
<1> QED
  BY <1>2, <1>3

LEMMA LoadsImplements ==
    ASSUME LedgerInv, NEW r \in Requests, loadsCode(r) \/ loadsToken(r)
    PROVE  Ledger!Next
<1> DEFINE http == req[r].http
<1>1. entriesKept /\ openGrants' = openGrants
  BY TablesUnseen DEF loadsCode, loadsToken, storeVars
<1>2. CASE loadsCode(r)
  <2>1. PICK c \in Codes, ar \in AccessRequest :
           /\ c = http.code /\ authorize[c] \in AuthorizeData
           /\ ar = codeRequest(authorize[c], http, req[r].client)
           /\ goto(r, [pc |-> "decide", ar |-> ar])
    BY <1>2 DEF loadsCode
  <2>2. authorize[c] # Nil /\ authorize[c].code = c
    BY <2>1, RecordsAssumption DEF LedgerInv, GrantInv, StoreInv, CodesRecorded
  <2>3. sourceOf(ar) = codeGrant(c)
    BY <2>1, <2>2, GrantsAssumption DEF sourceOf, codeRequest
  <2>4. claims(r, codeGrant(c))
    BY <2>1, <2>3, ClaimGoes DEF LedgerInv, GrantInv
  <2>5. codeGrant(c) \in openGrants /\ codeGrant(c) \in grants
    BY <2>2, GrantValues DEF openGrants
  <2> QED
    BY <1>1, <2>4, <2>5, LedgerClaim
<1>3. CASE loadsToken(r)
  <2>1. PICK t \in AccessTokens, ar \in AccessRequest :
           /\ t = refresh[http.refreshToken] /\ access[t] \in AccessData
           /\ ar = refreshRequest(access[t], http, req[r].client)
           /\ goto(r, [pc |-> "decide", ar |-> ar])
    BY <1>3 DEF loadsToken
  <2>2. access[t] # Nil /\ access[t].accessToken = t
    BY <2>1, RecordsAssumption DEF LedgerInv, GrantInv, StoreInv, TokensRecorded
  <2>3. sourceOf(ar) = tokenGrant(t)
    BY <2>1, <2>2 DEF sourceOf, refreshRequest
  <2>4. claims(r, tokenGrant(t))
    BY <2>1, <2>3, ClaimGoes DEF LedgerInv, GrantInv
  <2>5. tokenGrant(t) \in openGrants /\ tokenGrant(t) \in grants
    BY <2>2, GrantValues DEF openGrants
  <2> QED
    BY <1>1, <2>4, <2>5, LedgerClaim
<1> QED
  BY <1>2, <1>3

LEMMA DecidesImplements ==
    ASSUME LedgerInv, NEW r \in Requests, decides(r)
    PROVE  UNCHANGED Ledger!ledgerVars
<1>1. entriesKept /\ openGrants' = openGrants
  BY TablesUnseen DEF decides, storeVars
<1>2. PICK ar \in AccessRequest :
         /\ goto(r, [pc |-> "finish", ar |-> ar])
         /\ ar.authorizeData = req[r].ar.authorizeData /\ ar.accessData = req[r].ar.accessData
  BY DEF decides
<1>3. sourceOf(ar) = sourceOf(req[r].ar)
  BY <1>2 DEF sourceOf
<1>4. claims(r, sourceOf(ar))
  BY <1>2, ClaimGoes DEF LedgerInv, GrantInv
<1>5. claimOf(r) = sourceOf(ar)
  BY <1>3 DEF claimOf, decides, at
<1>6. claimsKept
  BY <1>4, <1>5 DEF claims, claimsKept
<1> QED
  BY <1>1, <1>6, LedgerStutter

LEMMA OffersCodeImplements ==
    ASSUME LedgerInv, NEW r \in Requests, offersCode(r)
    PROVE  Ledger!Next
<1>1. PICK code \in unusedCodes, data \in AuthorizeData :
         SaveAuthorize(data) /\ data = newAuthorizeData(req[r].ar, code)
  BY DEF offersCode
<1>2. data.code = code /\ code \in Codes /\ offered[code] = Nil
  BY <1>1 DEF newAuthorizeData, unusedCodes
<1> DEFINE g == codeGrant(code)
           e == entryOf(data, Nil)
<1>3. g \in grants /\ entryIn(g) = Nil
  BY <1>2, GrantValues DEF entryOf
<1>4. e \in Ledger!Entry /\ e.source = Nil
  BY EntryValue
<1>5. claimOf(r) = Nil
  BY DEF claimOf, offersCode, at
<1>6. claims(r, Nil)
  <2>1. PICK s \in Slot : goto(r, s) /\ s.pc = "idle"
    BY DEF offersCode
  <2> QED
    BY <2>1, ReleasedClaim DEF LedgerInv, GrantInv
<1>7. /\ \A x \in grants : entryIn(x)' = IF x = g THEN e ELSE entryIn(x)
      /\ openGrants' = openGrants \cup {g}
  BY <1>1, <1>2, OfferEnters DEF LedgerInv, GrantInv
<1> HIDE DEF g, e
<1> QED
  BY <1>3, <1>4, <1>5, <1>6, <1>7, LedgerIssue

\* The source of a record is the claim of the request it is produced for.
LEMMA ProducedSource ==
    ASSUME NEW ar, NEW ret, ret.authorizeData = ar.authorizeData,
           ret.accessData = IF ar.accessData = Nil THEN Nil ELSE tokensOf(ar.accessData),
           ar.accessData # Nil => ar.accessData \in AccessData
    PROVE  sourceOf(ret) = sourceOf(ar)
<1>1. ASSUME ar.accessData # Nil
      PROVE  /\ tokensOf(ar.accessData) # Nil
             /\ tokensOf(ar.accessData).accessToken = ar.accessData.accessToken
  <2>1. tokensOf(ar.accessData) \in TokenPair
    BY <1>1 DEF tokensOf, TokenPair, AccessData
  <2> QED
    BY <2>1, RecordsAssumption DEF tokensOf
<1> QED
  BY <1>1 DEF sourceOf

\* A request may pass on what its claim was entered with.
LEMMA ClaimEntry ==
    ASSUME GrantInv, NEW r \in Requests, holding(r), req[r].ar \in AccessRequest
    PROVE  LET ar == req[r].ar
           IN  /\ sourceOf(ar) \in grants \cup {Nil}
               /\ sourceOf(ar) # Nil =>
                     /\ ar.client.id = entryIn(sourceOf(ar)).owner
                     /\ ar.scope \subseteq entryIn(sourceOf(ar)).scope
<1> DEFINE ar == req[r].ar
<1>1. requestRecorded(ar, offered, granted)
  BY DEF GrantInv, SlotsRecorded, slotRecorded, holding
<1>2. /\ ar.authorizeData \in Codes \cup {Nil}
      /\ ar.accessData # Nil => ar.accessData \in AccessData
  BY DEF AccessRequest
<1>3. sourceOf(ar) \in grants \cup {Nil}
  BY <1>2, SourceValue DEF AccessData
<1>4. CASE ar.accessData # Nil
  <2> PICK t \in AccessTokens : t = ar.accessData.accessToken
    BY <1>2, <1>4 DEF AccessData
  <2>1. /\ isGranted(t) /\ granted[t].client.id = ar.client.id
        /\ ar.scope \subseteq granted[t].scope
    BY <1>1, <1>4 DEF requestRecorded, recorded, sameGrant, isGranted
  <2>2. sourceOf(ar) = tokenGrant(t)
    BY <1>4 DEF sourceOf
  <2> QED
    BY <1>3, <2>1, <2>2, GrantedEntry DEF GrantInv
<1>5. CASE ar.accessData = Nil /\ ar.authorizeData # Nil
  <2> PICK c \in Codes : c = ar.authorizeData
    BY <1>2, <1>5
  <2>1. offered[c] # Nil /\ ar.client.id = offered[c].client.id /\ ar.scope = offered[c].scope
    BY <1>1, <1>5 DEF requestRecorded
  <2>2. sourceOf(ar) = codeGrant(c)
    BY <1>5 DEF sourceOf
  <2> QED
    BY <1>3, <2>1, <2>2, OfferedEntry DEF GrantInv
<1>6. CASE ar.accessData = Nil /\ ar.authorizeData = Nil
  BY <1>3, <1>6 DEF sourceOf
<1> QED
  BY <1>4, <1>5, <1>6

LEMMA SavesImplements ==
    ASSUME ~RepeatsTokens, LedgerInv, NEW r \in Requests, saves(r)
    PROVE  Ledger!Next
<1> PICK ar \in AccessRequest : ar = req[r].ar
  BY DEF saves
<1>1. PICK data \in produced(ar) :
         LET ret == withBinding(data, ar)
         IN  /\ data \in AccessData /\ ret \in AccessData
             /\ SaveAccess(ret)
             /\ continues(r, "save", ret) \/ \E s \in Slot : goto(r, s) /\ s.pc = "idle"
  BY DEF saves
<1> PICK ret \in AccessData : ret = withBinding(data, ar)
  BY <1>1
<1>2. claims(r, Nil)
  BY <1>1, ContinuesReleases, ReleasedClaim DEF LedgerInv, GrantInv
<1>3. SaveAccess(ret) /\ ret.accessToken \in AccessTokens
  BY <1>1 DEF AccessData
<1> PICK g \in grants : g = tokenGrant(ret.accessToken)
  BY <1>3, GrantValues
<1> DEFINE e == entryOf(ret, sourceOf(ret))
<1>4. /\ \A x \in grants : entryIn(x)' = IF x = g THEN e ELSE entryIn(x)
      /\ openGrants' = openGrants \cup {g}
  BY <1>3, SaveEnters DEF LedgerInv, GrantInv
<1>5. at(r, "finish") /\ claimOf(r) = sourceOf(ar)
  BY DEF saves, at, claimOf
<1>6. CASE ar.forceAccessData = Nil
  <2>1. /\ ret.authorizeData = ar.authorizeData
        /\ ret.accessData = IF ar.accessData = Nil THEN Nil ELSE tokensOf(ar.accessData)
        /\ ret.client = ar.client /\ ret.scope = ar.scope /\ ret.accessToken \in unusedAccess
    BY <1>1, <1>6, ProducedFields
  <2>2. sourceOf(ret) = sourceOf(ar)
    BY <2>1, ProducedSource DEF AccessRequest
  <2>3. /\ sourceOf(ar) \in grants \cup {Nil}
        /\ sourceOf(ar) # Nil => /\ ar.client.id = entryIn(sourceOf(ar)).owner
                                 /\ ar.scope \subseteq entryIn(sourceOf(ar)).scope
    BY <1>5, ClaimEntry DEF LedgerInv, holding, at
  <2>4. e \in Ledger!Entry /\ e.owner = ar.client.id /\ e.scope = ar.scope /\ e.source = sourceOf(ar)
    BY <2>1, <2>2, <2>3, EntryValue
  <2>5. entryIn(g) = Nil
    BY <1>3, <2>1, GrantValues DEF tokenEntry, isGranted, unusedAccess
  <2> HIDE DEF e
  <2> QED
    BY <1>2, <1>4, <1>5, <2>3, <2>4, <2>5, LedgerIssue
<1>7. CASE ar.forceAccessData # Nil
  <2>1. data = ar.forceAccessData
    BY <1>1, <1>7 DEF produced
  <2>2. recorded(data, granted)
    BY <1>5, <1>7, <2>1 DEF LedgerInv, GrantInv, SlotsRecorded, slotRecorded, requestRecorded, at
  <2>3. sameGrant(ret, data)
    BY <1>1 DEF withBinding, AccessData, sameGrant
  <2> PICK t \in AccessTokens : t = ret.accessToken
    BY <1>3
  <2>4. isGranted(t) /\ sameGrant(ret, granted[t])
    BY <2>2, <2>3 DEF recorded, sameGrant, isGranted
  <2>5. granted[t] \in AccessData
    BY <2>4 DEF LedgerInv, GrantInv, TypeOK, StoreTypeOK, isGranted
  <2>6. e = entryOf(granted[t], sourceOf(granted[t]))
    BY <2>4, <2>5, RecordsAssumption DEF entryOf, sourceOf, sameGrant
  <2>7. entryIn(g) = e /\ entryIn(g) # Nil
    BY <2>4, <2>6, GrantedEntry DEF LedgerInv, GrantInv
  <2>8. entriesKept
    BY <1>4, <2>7 DEF entriesKept
  <2> QED
    BY <1>2, <1>4, <2>7, <2>8, LedgerHandOutAgain
<1> QED
  BY <1>6, <1>7

LEMMA RemovesImplements ==
    ASSUME LedgerInv, NEW r \in Requests, removes(r)
    PROVE  Ledger!Next \/ UNCHANGED Ledger!ledgerVars
<1> PICK ret \in AccessData : ret = req[r].ret
  BY DEF removes
<1>1. claimsKept
  <2>1. claims(r, Nil)
    BY ContinuesReleases DEF removes, LedgerInv, GrantInv
  <2>2. claimOf(r) = Nil
    BY DEF claimOf, removes, removing
  <2> QED
    BY <2>1, <2>2 DEF claims, claimsKept
<1>2. UNCHANGED <<offered, granted>>
  BY DEF removes, RemoveAuthorize, RemoveRefresh, RemoveAccess, storeVars
<1>3. CASE UNCHANGED <<authorize, access>>
  BY <1>1, <1>2, <1>3, TablesUnseen, LedgerStutter
<1>4. removalRecorded(req[r], granted)
  BY DEF LedgerInv, GrantInv, SlotsRecorded, slotRecorded, removes, removing
<1> PICK t \in AccessTokens : t = ret.accessToken
  BY DEF AccessData
<1>5. isGranted(t) /\ sameGrant(ret, granted[t]) /\ oneSource(granted[t])
  BY <1>4 DEF removalRecorded, recorded, isGranted, LedgerInv, SourcesInv
<1>6. /\ tokenGrant(t) \in grants /\ entryIn(tokenGrant(t)) # Nil
      /\ entryIn(tokenGrant(t)).source = sourceOf(granted[t])
  BY <1>5, GrantedEntry, GrantValues DEF LedgerInv, GrantInv
<1>7. TypeOK /\ entriesKept
  BY <1>2, RemovalCloses DEF LedgerInv, GrantInv
<1>8. CASE at(r, "rmAuthorize") /\ RemoveAuthorize(ret.authorizeData)
  <2> PICK c \in Codes : c = ret.authorizeData
    BY <1>4, <1>8 DEF removalRecorded, at, AccessData
  <2>1. c # Nil
    BY GrantsAssumption
  <2>2. sourceOf(granted[t]) = codeGrant(c)
    BY <1>5, <2>1 DEF sourceOf, sameGrant, oneSource
  <2>3. openGrants' = openGrants \ {codeGrant(c)}
    BY <1>2, <1>7, <1>8, RemovalCloses DEF RemoveAuthorize
  <2> QED
    BY <1>1, <1>6, <1>7, <2>2, <2>3, LedgerClose, GrantValues
<1>9. CASE at(r, "rmAccess") /\ RemoveAccess(ret.accessData.accessToken)
  <2>1. ret.accessData # Nil
    BY <1>4, <1>9 DEF removalRecorded, at
  <2> PICK old \in AccessTokens : old = ret.accessData.accessToken
    BY <2>1 DEF AccessData, TokenPair
  <2>2. sourceOf(granted[t]) = tokenGrant(old)
    BY <1>5, <2>1 DEF sourceOf, sameGrant
  <2>3. openGrants' = openGrants \ {tokenGrant(old)}
    BY <1>2, <1>7, <1>9, RemovalCloses DEF RemoveAccess
  <2> QED
    BY <1>1, <1>6, <1>7, <2>2, <2>3, LedgerClose, GrantValues
<1> QED
  BY <1>3, <1>8, <1>9 DEF removes, RemoveRefresh, storeVars

LEMMA RestartImplements ==
    ASSUME Restart
    PROVE  Ledger!Next
<1>1. entriesKept /\ openGrants' = openGrants
  BY TablesUnseen DEF Restart, storeVars
<1>2. \A r \in Requests : claimOf(r)' = IF r \in Requests THEN Nil ELSE claimOf(r)
  BY DEF Restart, noResponse, claimOf
<1> QED
  BY <1>1, <1>2, LedgerRelease

LEMMA OutsideImplements ==
    ASSUME outside
    PROVE  UNCHANGED Ledger!ledgerVars
<1>1. entriesKept /\ openGrants' = openGrants
  BY TablesUnseen DEF outside
<1>2. claimsKept
  BY DEF outside, claimsKept, claimOf, sourceOf, codeGrant, tokenGrant
<1> QED
  BY <1>1, <1>2, LedgerStutter

\* Every step of the server is one of the ledger, or leaves it alone.
LEMMA StepImplements ==
    ASSUME ~RepeatsTokens, LedgerInv, [Next]_vars
    PROVE  [Ledger!Next]_(Ledger!ledgerVars)
<1>1. outside \/ Restart \/ \E r \in Requests : stepOf(r)
  BY StepKinds DEF LedgerInv, GrantInv
<1>2. ASSUME NEW r \in Requests, stepOf(r)
      PROVE  Ledger!Next \/ UNCHANGED Ledger!ledgerVars
  BY <1>2, QuietImplements, LoadsImplements, DecidesImplements, OffersCodeImplements,
     SavesImplements, RemovesImplements DEF stepOf
<1> QED
  BY <1>1, <1>2, RestartImplements, OutsideImplements

LEMMA InitImplements ==
    ASSUME Init
    PROVE  Ledger!Init
<1>1. \A g \in grants : entryIn(g) = Nil
  BY GrantValues DEF Init, StoreInit, entryOf, tokenEntry, isGranted
<1>2. openGrants = {}
  BY DEF Init, StoreInit, openGrants
<1>3. \A r \in Requests : claimOf(r) = Nil
  BY DEF Init, ServerInit, noResponse, claimOf
<1> QED
  BY <1>1, <1>2, <1>3 DEF Ledger!Init

-----------------------------------------------------------------------------
(* No token has two sources. *)

LEMMA SlotSourced ==
    ASSUME NEW r \in Requests, stepOf(r), holding(r) => oneSource(req[r].ar)
    PROVE  \E s : goto(r, s) /\ (s.pc \in {"decide", "finish"} => oneSource(s.ar))
<1>1. ASSUME NEW s, goto(r, s), s.pc \notin {"decide", "finish"}
      PROVE  \E u : goto(r, u) /\ (u.pc \in {"decide", "finish"} => oneSource(u.ar))
  BY <1>1
<1>2. ASSUME NEW pc \in {"decide", "finish"}, NEW ar, goto(r, [pc |-> pc, ar |-> ar]), oneSource(ar)
      PROVE  \E u : goto(r, u) /\ (u.pc \in {"decide", "finish"} => oneSource(u.ar))
  BY <1>2
<1>3. CASE quiet(r)
  <2>1. PICK s \in Slot : goto(r, s) /\ s.pc \in {"idle", "load", "client", "login", "info"}
    BY <1>3 DEF quiet
  <2> QED
    BY <1>1, <2>1
<1>4. CASE asks(r)
  BY <1>2, <1>4 DEF asks, oneSource
<1>5. CASE loadsCode(r)
  <2>1. PICK data \in AuthorizeData, ar \in AccessRequest :
           ar = codeRequest(data, req[r].http, req[r].client) /\ goto(r, [pc |-> "decide", ar |-> ar])
    BY <1>5 DEF loadsCode
  <2> QED
    BY <1>2, <2>1 DEF codeRequest, oneSource
<1>6. CASE loadsToken(r)
  <2>1. PICK data \in AccessData, ar \in AccessRequest :
           ar = refreshRequest(data, req[r].http, req[r].client) /\ goto(r, [pc |-> "decide", ar |-> ar])
    BY <1>6 DEF loadsToken
  <2> QED
    BY <1>2, <2>1 DEF refreshRequest, oneSource
<1>7. CASE decides(r)
  <2>1. PICK ar \in AccessRequest :
           /\ goto(r, [pc |-> "finish", ar |-> ar])
           /\ ar.authorizeData = req[r].ar.authorizeData /\ ar.accessData = req[r].ar.accessData
    BY <1>7 DEF decides
  <2> QED
    BY <1>2, <1>7, <2>1 DEF oneSource, decides, at, holding
<1>8. CASE offersCode(r) \/ saves(r) \/ removes(r)
  <2>1. \A stage, ret : stageAfter(stage, ret) \notin {"decide", "finish"}
    BY DEF stageAfter
  <2>2. PICK s : goto(r, s) /\ s.pc \notin {"decide", "finish"}
    BY <1>8, <2>1 DEF offersCode, saves, removes, continues
  <2> QED
    BY <1>1, <2>2
<1> QED
  BY <1>3, <1>4, <1>5, <1>6, <1>7, <1>8 DEF stepOf

LEMMA SlotsSourced ==
    ASSUME LedgerInv, [Next]_vars, NEW r \in Requests, holding(r)'
    PROVE  oneSource(req[r].ar)'
<1>1. TypeOK /\ (holding(r) => oneSource(req[r].ar))
  BY DEF LedgerInv, GrantInv, SourcesInv
<1>2. ~Restart
  BY DEF Restart, noResponse, holding
<1>3. CASE req'[r] = req[r]
  BY <1>1, <1>3 DEF holding, oneSource
<1>4. CASE req'[r] # req[r]
  <2>1. stepOf(r)
    BY <1>1, <1>2, <1>4, OwnStep, RequestKind
  <2>2. PICK s : goto(r, s) /\ (s.pc \in {"decide", "finish"} => oneSource(s.ar))
    BY <1>1, <2>1, SlotSourced
  <2>3. req'[r] = s
    BY <1>1, <2>2, GotoSlots
  <2> QED
    BY <2>2, <2>3 DEF holding, oneSource
<1> QED
  BY <1>3, <1>4

LEMMA TokensSourced ==
    ASSUME ~RepeatsTokens, LedgerInv, [Next]_vars, NEW t \in AccessTokens, isGranted(t)'
    PROVE  oneSource(granted[t])'
<1>1. isGranted(t) => oneSource(granted[t])
  BY DEF LedgerInv, SourcesInv
<1>2. CASE granted' = granted
  BY <1>1, <1>2 DEF isGranted, oneSource
<1>3. CASE granted' # granted
  <2>1. outside \/ Restart \/ \E q \in Requests : stepOf(q)
    BY StepKinds DEF LedgerInv, GrantInv
  <2>2. PICK r \in Requests : saves(r)
    BY <1>3, <2>1 DEF outside, Restart, stepOf, quiet, asks, loadsCode, loadsToken, decides,
                      offersCode, removes, SaveAuthorize, RemoveAuthorize, RemoveRefresh,
                      RemoveAccess, storeVars
  <2> PICK ar \in AccessRequest : ar = req[r].ar /\ oneSource(ar)
    BY <2>2 DEF saves, at, holding, LedgerInv, SourcesInv
  <2>3. PICK data \in produced(ar) :
           LET ret == withBinding(data, ar)
           IN  data \in AccessData /\ ret \in AccessData /\ SaveAccess(ret)
    BY <2>2 DEF saves
  <2> PICK ret \in AccessData : ret = withBinding(data, ar) /\ SaveAccess(ret)
    BY <2>3
  <2>4. granted'[t] = IF t = ret.accessToken THEN ret ELSE granted[t]
    BY DEF SaveAccess, LedgerInv, GrantInv, TypeOK, StoreTypeOK
  <2>5. CASE ar.forceAccessData = Nil
    <3>1. oneSource(ret)
      BY <2>3, <2>5, ProducedFields DEF oneSource
    <3> QED
      BY <1>1, <2>4, <3>1 DEF isGranted, oneSource
  <2>6. CASE ar.forceAccessData # Nil
    <3>1. data = ar.forceAccessData /\ recorded(data, granted)
      BY <2>2, <2>3, <2>6 DEF produced, LedgerInv, GrantInv, SlotsRecorded, slotRecorded,
                              requestRecorded, saves, at
    <3>2. sameGrant(ret, data)
      BY <2>3 DEF withBinding, AccessData, sameGrant
    <3>3. ret.accessToken \in AccessTokens
      BY DEF AccessData
    <3>4. oneSource(granted[ret.accessToken])
      BY <3>1, <3>2, <3>3 DEF recorded, sameGrant, isGranted, LedgerInv, SourcesInv
    <3>5. oneSource(ret)
      BY <3>1, <3>2, <3>4 DEF oneSource, sameGrant, recorded
    <3> QED
      BY <1>1, <2>4, <3>5 DEF isGranted, oneSource
  <2> QED
    BY <2>5, <2>6
<1> QED
  BY <1>2, <1>3

LEMMA LedgerInvariant ==
    ASSUME ~RepeatsTokens
    PROVE  Spec => []LedgerInv
<1>1. Init => LedgerInv
  <2>1. Init => SourcesInv
    BY DEF Init, StoreInit, ServerInit, noResponse, SourcesInv, isGranted, holding
  <2> QED
    BY <2>1, InitGrants DEF LedgerInv
<1>2. LedgerInv /\ [Next]_vars => LedgerInv'
  BY NextGrants, SlotsSourced, TokensSourced DEF LedgerInv, SourcesInv
<1> QED
  BY <1>1, <1>2, PTL DEF Spec

\* The server implements the ledger: with all its overlaps, failures and
\* restarts it never shows more than grants entered once, claimed while they
\* are open, issued to their owner within their scope, and closed after their
\* successor was entered.
THEOREM LedgerImplemented ==
    ASSUME ~RepeatsTokens
    PROVE  Spec => ImplementsLedger
<1>1. Init => Ledger!Init
  BY InitImplements
<1>2. LedgerInv /\ [Next]_vars => [Ledger!Next]_(Ledger!ledgerVars)
  BY StepImplements
<1> QED
  BY <1>1, <1>2, LedgerInvariant, PTL DEF Spec, ImplementsLedger, Ledger!Spec
=============================================================================
