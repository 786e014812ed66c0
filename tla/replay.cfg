\* What failures and restarts add to the tokens a code yields in its lifetime,
\* with a generator that may return a token again.
SPECIFICATION Spec
CONSTANTS
    Nil = Nil
    Unparsable = Unparsable
    BadEscape = BadEscape
    Malformed = Malformed
    alice = alice
    bob = bob
    s1 = s1
    c1 = c1
    c2 = c2
    a1 = a1
    a2 = a2
    a3 = a3
    a4 = a4
    a5 = a5
    a6 = a6
    t1 = t1
    t2 = t2
    t3 = t3
    v1 = v1
    v2 = v2
    k1 = k1
    k2 = k2
    Uris <- MCUris
    Split <- MCSplit
    ClientIds = {alice}
    Secrets = {s1}
    AuthMethods = {"none"}
    Registrations <- aliceOnly
    Codes = {c1}
    AccessTokens = {a1, a2, a3, a4, a5, a6}
    RefreshTokens = {t1}
    Scopes = {}
    Verifiers = {v1}
    Thumbprints = {}
    MaxTime = 2
    MaxLife = 1
    ClaimsBinding = FALSE
    KeepsBinding = TRUE
    NilForMissing = FALSE
    Requests = {q1, q2}
    Configs <- shortLived
    FaultKinds = {"lookup", "load", "save", "remove", "generate"}
    MaxFaults = 1
    MaxRestarts = 1
    ReuseAccessData = FALSE
    InfoRequests = {}
    RepeatsTokens = TRUE
    Second = 1
    TokenRequests <- codeExchanges
    AuthorizationRequests <- fullScope
SYMMETRY symmetry
INVARIANTS RedemptionsBounded
PROPERTIES ExpiredCodeIsDead
