---------------------------- MODULE MCAuthServer -----------------------------
(***************************************************************************)
(* Instances of AuthServer for TLC: the URIs, clients, requests and        *)
(* configurations the .cfg files choose from.                              *)
(***************************************************************************)
EXTENDS Documented

CONSTANTS alice, bob,       \* two clients
          s1,               \* a secret
          c1, c2,           \* codes
          a1, a2, a3, a4, a5, a6,   \* access tokens
          t1, t2, t3,               \* refresh tokens
          v1, v2,           \* PKCE verifiers
          k1, k2            \* keys

-----------------------------------------------------------------------------
web(host, path) ==
    [host |-> host, path |-> path, scheme |-> "https", user |-> Nil, port |-> Nil,
     query |-> Nil, escapes |-> 0, fragment |-> FALSE, form |-> "printed"]
raw(uri) == [uri EXCEPT !.form = "raw"]

aliceUri == web("alice", <<"cb">>)
bobUri == web("bob", <<"cb">>)
MCUris == {aliceUri, bobUri}

\* A native app on a loopback address, at two ports.
loopback(port) == [web("127.0.0.1", <<"cb">>) EXCEPT !.scheme = "http", !.port = port]
loopbackUris == {loopback("1000"), loopback("2000")}

\* Lists joined with ";", the separator where there is one: the entries, and
\* the URI that url.Parse takes the whole for, "https://alice/app/;;https://bob/cb"
\* and "https://bob/cb;https://alice/cb".
appUri == web("alice", <<"app", "">>)
blankWithin == web("alice", <<"app", ";;https:", "", "bob", "cb">>)
bobThenAlice == web("bob", <<"cb;https:", "", "alice", "cb">>)
MCSplit ==
    [text \in UriTexts |->
        CASE text = blankWithin -> <<appUri, Nil, bobUri>>
          [] text = bobThenAlice -> <<bobUri, aliceUri>>
          [] OTHER -> <<text>>]

client(id, secret, method, uri) ==
    [id |-> id, secret |-> secret, method |-> method, redirectUris |-> <<>>, redirectUri |-> uri]

aliceClient == client(alice, s1, Nil, aliceUri)
bobClient == client(bob, Nil, Nil, bobUri)
aliceOnly == {aliceClient}

\* The configuration NewServerConfig returns, with every grant allowed and
\* no time passing.
default ==
    [allowedAuthorizeTypes |-> ResponseTypes, allowedAccessTypes |-> GrantTypes,
     authorizationExpiration |-> 0, accessExpiration |-> 0,
     allowClientSecretInParams |-> FALSE, allowGetAccessRequest |-> FALSE,
     requirePKCEForPublicClients |-> FALSE, separator |-> FALSE,
     retainTokenAfterRefresh |-> FALSE, enforceOAuth21 |-> FALSE,
     rejectPlainPKCE |-> FALSE, requireSenderConstrainedTokens |-> FALSE]

defaultOnly == {default}
oauth21 == [default EXCEPT !.enforceOAuth21 = TRUE]
strictPublic ==
    [default EXCEPT !.requirePKCEForPublicClients = TRUE, !.rejectPlainPKCE = TRUE, !.separator = TRUE]
\* Access tokens that live for a second of two ticks, bound or not.
mortal == [default EXCEPT !.accessExpiration = 2]
bindingSwitch == {mortal, [mortal EXCEPT !.requireSenderConstrainedTokens = TRUE]}
retainSwitch == {default, [default EXCEPT !.retainTokenAfterRefresh = TRUE]}

-----------------------------------------------------------------------------
basic(id, secret) ==
    [header |-> [kind |-> "basic", username |-> id, password |-> secret],
     clientId |-> Nil, hasSecret |-> FALSE, clientSecret |-> Nil]

idOnly(id) ==
    [header |-> [kind |-> "none"], clientId |-> id, hasSecret |-> FALSE, clientSecret |-> Nil]

inForm(id, secret) ==
    [header |-> [kind |-> "none"], clientId |-> id, hasSecret |-> TRUE, clientSecret |-> secret]

tokenRequest(grant, auth) ==
    [method |-> "POST", redirectUri |-> Nil, auth |-> auth, wellFormed |-> TRUE,
     grantType |-> grant, code |-> Nil, refreshToken |-> Nil, codeVerifier |-> Nil, scope |-> {},
     resourceOwner |-> FALSE, assertion |-> FALSE]

exchange(auth, code) == [tokenRequest("authorization_code", auth) EXCEPT !.code = code]
refreshing(auth, token) == [tokenRequest("refresh_token", auth) EXCEPT !.refreshToken = token]

authorization(id) ==
    [redirectUri |-> Nil, clientId |-> id, wellFormed |-> TRUE, scope |-> {},
     responseType |-> "code", codeChallenge |-> Nil, codeChallengeMethod |-> Nil]

\* Code and refresh exchanges of one confidential client.
aliceAuth == basic(alice, s1)
codeExchanges == {exchange(aliceAuth, c) : c \in Codes}
refreshes ==
    {[refreshing(aliceAuth, t) EXCEPT !.scope = s] : t \in RefreshTokens, s \in SUBSET Scopes}
codeAndRefresh == codeExchanges \cup refreshes

anyScope == {[authorization(alice) EXCEPT !.scope = s] : s \in {{"read"}, Scopes}}
fullScope == {[authorization(alice) EXCEPT !.scope = Scopes]}
codeScope == {authorization(alice)}

\* The code requests of a public client with every kind of challenge, and its
\* exchanges with every kind of verifier.
challenged(challenge, method) ==
    [authorization(alice) EXCEPT !.codeChallenge = challenge, !.codeChallengeMethod = method]
challenges ==
    {authorization(alice), challenged(v1, Nil), challenged(v1, "plain"), challenged(S256(v1), "S256"),
     challenged(Malformed, "S256"), challenged(v1, "other")}
verified ==
    {[exchange(idOnly(alice), c1) EXCEPT !.codeVerifier = v] : v \in {Nil, Malformed, v1, v2}}
        \cup {[exchange(basic(alice, s1), c1) EXCEPT !.codeVerifier = v1]}

nativeClient == {client(alice, Nil, Nil, loopback("1000"))}
nativeAtItsPort ==
    {[challenged(S256(v1), "S256") EXCEPT !.redirectUri = loopback("2000")]}
verifiedExchange == {[exchange(idOnly(alice), c1) EXCEPT !.codeVerifier = v1]}
oauth21Only == {oauth21}

\* Two clients, one of which may be registered anew, every grant and
\* response type, and requests that are refused on the way.
aliceRotated == client(alice, Nil, "none", aliceUri)
aliceKeyed == client(alice, s1, "private_key_jwt", aliceUri)
registrationChange == {aliceClient, aliceRotated, aliceKeyed, bobClient}
owned(auth) == [tokenRequest("password", auth) EXCEPT !.resourceOwner = TRUE]
asserted(auth) == [tokenRequest("assertion", auth) EXCEPT !.assertion = TRUE]
everyGrant ==
    {exchange(aliceAuth, c1), exchange(idOnly(bob), c1), exchange(idOnly(alice), c1),
     owned(aliceAuth), asserted(aliceAuth), tokenRequest("client_credentials", aliceAuth),
     tokenRequest("assertion", aliceAuth), [owned(aliceAuth) EXCEPT !.method = "GET"]} \cup
    {refreshing(auth, t) : auth \in {aliceAuth, inForm(bob, Nil)}, t \in RefreshTokens}
everyResponse ==
    {authorization(alice), [authorization(bob) EXCEPT !.responseType = "token"],
     [authorization(alice) EXCEPT !.responseType = "other"]}

\* Every token a resource server may be shown, and what it may send instead.
bearer(t) == [header |-> [kind |-> "bearer", token |-> t], wellFormed |-> TRUE, code |-> Nil]
inCode(t) == [header |-> [kind |-> "other"], wellFormed |-> TRUE, code |-> t]
bearers == {bearer(t) : t \in AccessTokens}
everyInfo ==
    bearers \cup {inCode(t) : t \in AccessTokens \cup {Nil}}
        \cup {[bearer(t) EXCEPT !.wellFormed = FALSE] : t \in AccessTokens}

\* What the settles run, which has no symmetry, asks for.
oneBearer == {bearer(a1)}

shortLived == {[default EXCEPT !.authorizationExpiration = 1]}
openForms == {[default EXCEPT !.allowClientSecretInParams = TRUE]}

\* URIs at, beneath, beside and away from registered ones.
escapedUri == [aliceUri EXCEPT !.query = "q", !.escapes = 1]
pastDots == {web("alice", <<"cb", "..", "x">>), web("alice", <<"x", "..", "cb">>),
             web("alice", <<"cb", ".">>)}
nearUris ==
    {web("alice", <<"cb", "x">>), web("alice", <<"cbx">>), web("alice", <<>>),
     [aliceUri EXCEPT !.user = "u"], [aliceUri EXCEPT !.scheme = "http"],
     [aliceUri EXCEPT !.port = "1000"], [aliceUri EXCEPT !.fragment = TRUE],
     [aliceUri EXCEPT !.query = "q"]}
otherwiseSpelt == {raw(aliceUri), raw(loopback("2000"))}
requestedUris ==
    {aliceUri, bobUri, appUri, escapedUri, blankWithin, bobThenAlice}
        \cup pastDots \cup nearUris \cup otherwiseSpelt \cup loopbackUris
\* Those, and what becomes of them once dot segments are resolved.
manyUris == requestedUris \cup {web("alice", <<"x">>), web("alice", <<"cb", "">>), web("alice", <<"">>)}

\* One list of URIs or the other, with entries that are none and with one
\* that String() prints differently.
listed(text) == client(alice, Nil, "none", text)
inSet(uris) == [listed(Nil) EXCEPT !.redirectUris = uris]
uriRegistrations ==
    {listed(aliceUri), listed(raw(aliceUri)), listed(blankWithin), listed(bobThenAlice),
     inSet(<<loopback("1000"), aliceUri, Unparsable, bobUri>>)}
uriSettings == {default, oauth21, [oauth21 EXCEPT !.separator = TRUE], strictPublic}
codeTo(uri) == [challenged(S256(v1), "S256") EXCEPT !.redirectUri = uri]
anywhere ==
    challenges \cup
    {codeTo(uri) : uri \in requestedUris \cup {Nil, Unparsable, BadEscape}} \cup
    {[codeTo(uri) EXCEPT !.responseType = type] :
        uri \in {web("alice", <<"cb", ".">>), loopback("2000")}, type \in {"token", "other"}}

\* Sets whose URIs the authorization endpoint does not all accept.
setRegistrations ==
    {inSet(<<escapedUri>>), [inSet(<<Unparsable, bobUri>>) EXCEPT !.id = bob]}
ofTheirSets ==
    {[authorization(alice) EXCEPT !.redirectUri = escapedUri],
     [authorization(bob) EXCEPT !.redirectUri = bobUri]}

symmetry ==
    Permutations(Requests) \cup Permutations(Codes)
        \cup Permutations(AccessTokens) \cup Permutations(RefreshTokens)
=============================================================================
