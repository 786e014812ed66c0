\* Two clients, every grant and response type, requests to the info endpoint, and
\* a registration that changes while requests are under way.
SPECIFICATION Spec
CONSTANTS
    Nil = Nil
    Unparsable = Unparsable
    BadEscape = BadEscape
    Malformed = Malformed
    alice = alice
    bob = bob
    s1 = s1
    c1 = c1
    c2 = c2
    a1 = a1
    a2 = a2
    a3 = a3
    a4 = a4
    a5 = a5
    a6 = a6
    t1 = t1
    t2 = t2
    t3 = t3
    v1 = v1
    v2 = v2
    k1 = k1
    k2 = k2
    Uris <- MCUris
    Split <- MCSplit
    ClientIds = {alice, bob}
    Secrets = {s1}
    AuthMethods = {"none", "private_key_jwt"}
    Registrations <- registrationChange
    Codes = {c1}
    AccessTokens = {a1, a2}
    RefreshTokens = {t1, t2}
    Scopes = {}
    Verifiers = {v1}
    Thumbprints = {}
    MaxTime = 0
    MaxLife = 0
    ClaimsBinding = FALSE
    KeepsBinding = TRUE
    NilForMissing = FALSE
    Requests = {q1, q2}
    Configs <- openForms
    FaultKinds = {}
    MaxFaults = 0
    MaxRestarts = 0
    ReuseAccessData = FALSE
    InfoRequests <- everyInfo
    RepeatsTokens = FALSE
    Second = 1
    TokenRequests <- everyGrant
    AuthorizationRequests <- everyResponse
SYMMETRY symmetry
INVARIANTS Lineage
PROPERTIES Authenticated
