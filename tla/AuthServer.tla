----------------------------- MODULE AuthServer ------------------------------
(***************************************************************************)
(* The whole server: the three endpoints over one storage, the             *)
(* administrator who registers clients, the clock, and restarts.           *)
(***************************************************************************)
EXTENDS InfoEndpoint

Init == StoreInit /\ ServerInit

Next ==
    \/ \E r \in Requests : TokenStep(r) \/ AuthorizeStep(r) \/ InfoStep(r)
    \/ \E client \in Registrations : Register(client)
    \/ Tick
    \/ Restart

Spec == Init /\ [][Next]_vars

\* The goroutine of a request at the token endpoint runs on: no step of it
\* waits for another request, and the application answers it.  (An info
\* request changes nothing that a property under fairness speaks of.)
Progress(r) ==
    \/ AuthenticateClient(r)
    \/ LoadCode(r)
    \/ LoadToken(r)
    \/ Decide(r)
    \/ FinishAccessRequest(r)
    \/ RemoveSpentCode(r)
    \/ RemovePreviousRefresh(r)
    \/ RemovePreviousAccess(r)

FairSpec == Spec /\ \A r \in Requests : WF_vars(Progress(r))

-----------------------------------------------------------------------------
(* Every variable keeps its type, the slots the locals of their stage. *)
TypeOK == StoreTypeOK /\ ServerTypeOK

-----------------------------------------------------------------------------
isGranted(t) == granted[t] # Nil

exchangedFor(t, code) == isGranted(t) /\ granted[t].authorizeData = code

replaces(t, old) ==
    isGranted(t) /\ granted[t].accessData # Nil /\ granted[t].accessData.accessToken = old

\* Whatever the user granted stays in the storage until a token that
\* replaces it is there: FinishAccessRequest saves before it removes, in
\* every interleaving, at every crash and after every failed call.
CodeNotLost ==
    \A c \in Codes : offered[c] # Nil =>
        authorize[c] # Nil \/ \E t \in AccessTokens : exchangedFor(t, c)

TokenNotLost ==
    \A t \in AccessTokens : isGranted(t) =>
        access[t] # Nil \/ \E s \in AccessTokens : replaces(s, t)

RefreshNotLost ==
    \A t \in AccessTokens : isGranted(t) /\ granted[t].refreshToken # Nil =>
        refresh[granted[t].refreshToken] = t \/ \E s \in AccessTokens : replaces(s, t)

NoGrantLost == CodeNotLost /\ TokenNotLost /\ RefreshNotLost

\* A token belongs to the client its code, or the token it replaces, was
\* issued to, and carries no scope that one did not carry, however requests
\* overlap and registrations change between them.
Lineage ==
    \A t \in AccessTokens : isGranted(t) =>
        /\ granted[t].authorizeData # Nil =>
              LET code == offered[granted[t].authorizeData]
              IN  /\ code # Nil
                  /\ granted[t].client.id = code.client.id
                  /\ granted[t].scope = code.scope
        /\ granted[t].accessData # Nil =>
              LET old == granted[granted[t].accessData.accessToken]
              IN  /\ old # Nil
                  /\ granted[t].client.id = old.client.id
                  /\ granted[t].scope \subseteq old.scope

\* Once the client has its new token, the code or the token it spent cannot
\* be loaded again, whatever other requests holding it still do.  A removal
\* that fails is ignored by FinishAccessRequest: this is about runs in which
\* none fails, and in which replaced tokens are not retained.
SpentStaysSpent ==
    \A t \in delivered :
        /\ granted[t].authorizeData # Nil => LoadAuthorize(granted[t].authorizeData) = Nil
        /\ granted[t].accessData # Nil =>
              LET old == granted[t].accessData
              IN  /\ LoadAccess(old.accessToken) = Nil
                  /\ old.refreshToken # Nil => LoadRefresh(old.refreshToken) = Nil

\* A code is redeemed at most once by each request that overlaps the first
\* redemption; only a crash or a failed call between the save and the
\* removal lets it be redeemed again.
RedemptionsBounded ==
    \A c \in Codes :
        Cardinality({t \in AccessTokens : exchangedFor(t, c)})
            <= Cardinality(Requests) * (1 + restarts) + faults

\* A refresh token in the storage leads to the token record that names it:
\* the record goes after the refresh token.  (Runs without failed removals.)
RefreshResolves ==
    \A rt \in RefreshTokens : refresh[rt] # Nil =>
        /\ LoadRefresh(rt) # Nil
        /\ LoadRefresh(rt).refreshToken = rt

-----------------------------------------------------------------------------
\* Request r saves a record of token t, other than the last one, in this step.
writes(r, t) == at(r, "finish") /\ req'[r] # req[r] /\ granted'[t] # granted[t]

\* Request r saves the new token t in this step.
issues(r, t) == at(r, "finish") /\ req'[r] # req[r] /\ ~isGranted(t) /\ granted'[t] # Nil

\* Once a code has expired and no request that loaded it in time is still
\* under way, no request gets hold of it again: a code that a crash or a
\* failed call left in the storage is dead with its lifetime.
holds(r, code) == req[r].pc \in {"decide", "finish"} /\ req[r].ar.authorizeData = code

expired(code) == offered[code] # Nil /\ offered[code].expireAt < now

ExpiredCodeIsDead ==
    [][\A c \in Codes :
          expired(c) /\ (\A r \in Requests : ~holds(r, c)) =>
              \A r \in Requests : ~holds(r, c)']_vars

\* A token for a code is saved only for a request that proved the verifier
\* of its challenge; with EnforceOAuth21 a code without a challenge yields
\* none, even one issued before a restart turned the setting on.
PkceProved ==
    [][\A r \in Requests, t \in AccessTokens :
          issues(r, t) /\ granted'[t].authorizeData # Nil =>
              LET code == offered[granted'[t].authorizeData]
              IN  code.codeChallenge # Nil \/ config.enforceOAuth21 =>
                     /\ code.codeChallenge \notin {Nil, Malformed}
                     /\ transform(code.codeChallengeMethod, req[r].ar.codeVerifier)
                            = code.codeChallenge]_vars

\* With RequireSenderConstrainedTokens every record that is saved, be it new,
\* overwritten or changed and handed out again, is bound to a key, and a new
\* token replaces only one that was: one issued before a restart turned the
\* setting on is not refreshed.
SenderBound ==
    [][\A r \in Requests, t \in AccessTokens :
          config.requireSenderConstrainedTokens =>
              /\ writes(r, t) => granted'[t].senderConstraint # Nil
              /\ issues(r, t) /\ granted'[t].accessData # Nil =>
                    granted[granted'[t].accessData.accessToken].senderConstraint # Nil]_vars

\* With RetainTokenAfterRefresh no token leaves the storage, and neither
\* does a refresh token.
RetainKeepsTokens ==
    [][config.retainTokenAfterRefresh =>
          /\ \A t \in AccessTokens : access[t] # Nil => access'[t] # Nil
          /\ \A rt \in RefreshTokens : refresh[rt] # Nil => refresh'[rt] # Nil]_vars

-----------------------------------------------------------------------------
\* A request passes getClient only as a client it names, and only with the
\* secret of that client, unless the client declared that it uses none or
\* holds none; a client that declared other credentials never passes.  The
\* registration is the one at the second lookup: it may have changed since
\* the first, on which the credentials were read from the request.
presents(http, secret) ==
    \/ http.header.kind = "basic" /\ http.header.password = secret
    \/ config.allowClientSecretInParams /\ http.hasSecret /\ http.clientSecret = secret

Authenticated ==
    [][\A r \in Requests :
          at(r, "client") /\ req'[r].pc \in {"load", "decide"} =>
              LET http == req[r].http.auth
                  client == GetClient(req[r].auth.username)
              IN  /\ \/ client.id = http.clientId
                     \/ http.header.kind = "basic" /\ client.id = http.header.username
                  /\ clientSecretUseOf(client) # "other"
                  /\ client.secret # Nil /\ client.method # "none"
                        => presents(http, client.secret)]_vars

-----------------------------------------------------------------------------
\* Request r is answered by a redirect in this step.
redirects(r) == req'[r] # req[r] /\ req'[r].pc = "idle" /\ req'[r].url # Nil

\* The client whose redirect URI request r goes by.
servedClients(r) ==
    IF at(r, "idle") THEN {clients[id] : id \in ClientIds} \ {Nil} ELSE {req[r].ar.client}

\* What a registered URI stands for: itself as it is printed, at any port for
\* a loopback address, or whatever lies beneath its path, dot segments
\* resolved.
isAt(base, uri) ==
    \/ uri = String(base)
    \/ /\ base.scheme = "http" /\ base.host \in {"127.0.0.1", "::1"}
       /\ [String(base) EXCEPT !.port = uri.port] = uri

isBeneath(base, uri) ==
    LET prefix == trimSlashes(resolvePath(base.path))
    IN  /\ <<uri.scheme, uri.host, uri.port>> = <<base.scheme, base.host, base.port>>
        /\ uri.user = Nil /\ uri.form = "printed"
        /\ \A i \in DOMAIN uri.path : uri.path[i] \notin {".", ".."}
        /\ Len(prefix) <= Len(uri.path) /\ \A i \in DOMAIN prefix : uri.path[i] = prefix[i]

isRegistered(client, uri) ==
    \E base \in ToSet(registeredUris(config, client)) \cap Uris :
        IF comparesExactly(config, client) THEN isAt(base, uri) ELSE isBeneath(base, uri)

\* A user agent is sent only to a URI its client registered, as the settings
\* in force read its list, with an error as well as with a code or a token,
\* and a token travels in the fragment only.
RedirectsRegistered ==
    [][\A r \in Requests : redirects(r) =>
          /\ \E client \in servedClients(r) : isRegistered(client, req'[r].url)
          /\ ~req'[r].url.fragment
          /\ delivered' # delivered => req'[r].fragment]_vars

\* The client registered no URI in a spelling that String() changes.
registeredAsPrinted(client) ==
    \A uri \in ToSet(registeredUris(config, client)) \cap Uris : String(uri) = uri

\* The two endpoints agree on redirect URIs: a code is sent to the URI that
\* is recorded with it, and the token endpoint does not refuse the client that
\* repeats the text it sent to the authorization endpoint (unless that has
\* escapes, which only the authorization endpoint resolves), or the recorded
\* URI.  The latter is printed anew: an exact comparison knows it only if the
\* client registered its URIs in that form.
SameUriRedeems ==
    [][\A r \in Requests, c \in Codes :
          at(r, "login") /\ req'[r] # req[r] /\ offered[c] = Nil /\ offered'[c] # Nil =>
              LET client == req[r].ar.client
                  sent == req[r].ar.formRedirectUri
              IN  /\ req'[r].url = offered'[c].redirectUri
                  /\ Unescape(sent) = sent => redirectError(offered'[c], client, sent) = Nil
                  /\ ~comparesExactly(config, client) \/ registeredAsPrinted(client) =>
                        redirectError(offered'[c], client, offered'[c].redirectUri) = Nil]_vars

-----------------------------------------------------------------------------
\* The info endpoint takes up a token only while it is good: granted, not
\* expired, bound if tokens must be, and not replaced by one its client has
\* received.  (Runs without failed removals and without retained tokens.)
InfoIsCurrent ==
    [][\A r \in Requests :
          at(r, "idle") /\ req'[r].pc = "info" =>
              LET t == req'[r].data.accessToken
              IN  /\ isGranted(t) /\ granted[t].expireAt >= now
                  /\ config.requireSenderConstrainedTokens => granted[t].senderConstraint # Nil
                  /\ \A s \in delivered : ~replaces(s, t)]_vars

\* A resource server that trusts the reported lifetime never accepts a token
\* beyond its expiry, however long after the lookup the report is made.
LifetimeNotOverstated ==
    [][\A r \in Requests :
          at(r, "info") /\ req'[r].pc = "idle" /\ req'[r].out = "report" /\ req'[r].expiresIn > 0 =>
              now + Second * req'[r].expiresIn <= granted[req'[r].token].expireAt]_vars

-----------------------------------------------------------------------------
(* The server implements the ledger of grants.  Codes and tokens are its    *)
(* grants; those in the storage are open; a request has claimed what it     *)
(* has loaded, until it saves a token or is answered. *)

codeGrant(c) == <<"code", c>>
tokenGrant(t) == <<"token", t>>

grants == {codeGrant(c) : c \in Codes} \cup {tokenGrant(t) : t \in AccessTokens}

\* What a token, or a request for one, comes from.
sourceOf(data) ==
    IF data.accessData # Nil THEN tokenGrant(data.accessData.accessToken)
    ELSE IF data.authorizeData # Nil THEN codeGrant(data.authorizeData)
    ELSE Nil

entryOf(record, source) ==
    IF record = Nil THEN Nil
    ELSE [owner |-> record.client.id, scope |-> record.scope, source |-> source]

tokenEntry(t) == IF isGranted(t) THEN entryOf(granted[t], sourceOf(granted[t])) ELSE Nil

entryIn(g) == IF g[1] = "code" THEN entryOf(offered[g[2]], Nil) ELSE tokenEntry(g[2])

openGrants ==
    {codeGrant(c) : c \in {d \in Codes : authorize[d] # Nil}}
        \cup {tokenGrant(t) : t \in {u \in AccessTokens : access[u] # Nil}}

claimOf(r) == IF req[r].pc \in {"decide", "finish"} THEN sourceOf(req[r].ar) ELSE Nil

Ledger ==
    INSTANCE GrantLedger
        WITH Grants <- grants, Holders <- Requests, Owners <- ClientIds,
             entry <- [g \in grants |-> entryIn(g)], open <- openGrants,
             claim <- [r \in Requests |-> claimOf(r)]

ASSUME LedgerAssumption == Nil \notin Ledger!Entry

\* Every behaviour of the server, with all its overlaps, failures and
\* restarts, is one of the ledger: a grant is entered once, comes from the
\* grant its request had claimed while it was open, stays with its owner and
\* within its scope, and closes only after another was issued from it.
ImplementsLedger == Ledger!Spec

-----------------------------------------------------------------------------
\* What a saved token was exchanged for is withdrawn in the end, in a server
\* in which no call ever failed and that was never restarted.
disturbed == faults > 0 \/ restarts > 0

Settles ==
    /\ \A t \in AccessTokens, c \in Codes :
          exchangedFor(t, c) ~> authorize[c] = Nil \/ disturbed
    /\ \A t, old \in AccessTokens :
          replaces(t, old) /\ ~config.retainTokenAfterRefresh ~> access[old] = Nil \/ disturbed
=============================================================================
