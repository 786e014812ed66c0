---------------------------- MODULE InfoEndpoint -----------------------------
(***************************************************************************)
(* The info endpoint (info.go): a resource server asks what an access      *)
(* token stands for.  HandleInfoRequest reads the storage and the clock;   *)
(* FinishInfoRequest reports what was read and reads the clock again.      *)
(***************************************************************************)
EXTENDS AuthorizeEndpoint

CONSTANT InfoRequests   \* the requests resource servers send in a run

\* The Authorization header: absent, of another kind, or a bearer token; code
\* is the parameter of that name.
InfoRequest ==
    [wellFormed : BOOLEAN, code : AccessTokens \cup {Nil},
     header : [kind : {"none", "other"}] \cup [kind : {"bearer"}, token : AccessTokens]]

ASSUME InfoRequestsAssumption == InfoRequests \subseteq InfoRequest

\* The token asked for, Nil for none; a bearer header goes before the form.
CheckBearerAuth(http) ==
    IF http.header.kind = "bearer" THEN http.header.token ELSE http.code

asksForToken(http) == http.wellFormed /\ CheckBearerAuth(http) # Nil

infoError(data) ==
    IF data = Nil THEN "invalid_request"
    ELSE IF data.client = Nil \/ ~clientHasRedirectUri(data.client) THEN "unauthorized_client"
    ELSE IF unbound(data) \/ IsExpiredAt(data, now) THEN "invalid_grant"
    ELSE Nil

HandleInfoRequest(r, http) ==
    /\ at(r, "idle")
    /\ \/ ~asksForToken(http) /\ answer(r, "invalid_request") /\ UNCHANGED faults
       \/ /\ asksForToken(http)
          /\ LET data == LoadAccess(CheckBearerAuth(http))
             IN  IF infoError(data) # Nil THEN answer(r, infoError(data))
                 ELSE goto(r, [pc |-> "info", data |-> data])
          /\ UNCHANGED faults
       \/ asksForToken(http) /\ answer(r, "invalid_request") /\ fail("load")
    /\ UNCHANGED <<storeVars, config, now, restarts, delivered>>

\* A duration in ticks as whole seconds, the way Go's division drops the
\* fraction: towards zero.
wholeSeconds(d) == IF d < 0 THEN -((-d) \div Second) ELSE d \div Second

\* Faulty: a duration rounded up.
remaining_roundedUp(data) == wholeSeconds(data.expireAt - now + Second - 1)

\* The lifetime reported; negative once the token has expired.
remaining(data) == wholeSeconds(data.expireAt - now)

FinishInfoRequest(r) ==
    /\ at(r, "info")
    /\ LET data == req[r].data
       IN  goto(r, [pc |-> "idle", out |-> "report", url |-> Nil, fragment |-> FALSE,
                    token |-> data.accessToken, expiresIn |-> remaining(data)])
    /\ UNCHANGED <<storeVars, config, now, faults, restarts, delivered>>

InfoStep(r) ==
    \/ \E http \in InfoRequests : HandleInfoRequest(r, http)
    \/ FinishInfoRequest(r)
=============================================================================
