------------------------------- MODULE Server --------------------------------
(***************************************************************************)
(* The server and the HTTP requests it is working on.  Every request is a  *)
(* goroutine of its own with one Response; goroutines meet in the storage  *)
(* only, so one step of the model is one storage call with the computation *)
(* around it.  A slot of req holds the locals that are live at that point: *)
(*                                                                         *)
(*   idle       no request, and the Response the last one ended with       *)
(*   client     token endpoint, credentials parsed, before getClient       *)
(*   load       token endpoint, before LoadAuthorize or LoadRefresh        *)
(*   decide     HandleAccessRequest returned, the application decides      *)
(*   finish     in FinishAccessRequest, before SaveAccess                  *)
(*   rmAuthorize, rmRefresh, rmAccess                                      *)
(*              in FinishAccessRequest, before that removal                *)
(*   login      HandleAuthorizeRequest returned, the user is logging in    *)
(*   info       HandleInfoRequest returned, before FinishInfoRequest       *)
(***************************************************************************)
EXTENDS GrantStore, Integers

CONSTANTS
    Requests,        \* the slots: how many requests are handled at a time
    Configs,         \* the configurations the server may be started with
    FaultKinds,      \* which calls may fail in a run
    MaxFaults,       \* bound on failed calls
    MaxRestarts,     \* bound on restarts
    ReuseAccessData, \* whether the application sets ForceAccessData
    Second           \* how many ticks of the clock a second has

VARIABLES
    config, now, req,
    faults, restarts,   \* how many happened, for the bounds above
    delivered           \* history: the access tokens clients received

serverVars == <<config, now, req, faults, restarts, delivered>>
vars == <<storeVars, serverVars>>

GrantTypes == {"authorization_code", "refresh_token", "password", "client_credentials", "assertion"}
ResponseTypes == {"code", "token"}

ServerConfig ==
    [allowedAuthorizeTypes : SUBSET ResponseTypes, allowedAccessTypes : SUBSET GrantTypes,
     authorizationExpiration : 0 .. MaxLife, accessExpiration : 0 .. MaxLife,
     allowClientSecretInParams : BOOLEAN, allowGetAccessRequest : BOOLEAN,
     requirePKCEForPublicClients : BOOLEAN, separator : BOOLEAN,
     retainTokenAfterRefresh : BOOLEAN, enforceOAuth21 : BOOLEAN,
     rejectPlainPKCE : BOOLEAN, requireSenderConstrainedTokens : BOOLEAN]

Errors ==
    {"invalid_request", "unauthorized_client", "access_denied", "unsupported_response_type",
     "server_error", "unsupported_grant_type", "invalid_grant", "invalid_client"}

ASSUME ServerAssumption ==
    /\ Configs \subseteq ServerConfig
    /\ Nil \notin Errors
    /\ MaxFaults \in Nat /\ MaxRestarts \in Nat /\ ReuseAccessData \in BOOLEAN
    /\ Second \in Nat \ {0}
    /\ FaultKinds \subseteq {"lookup", "load", "save", "remove", "generate"}

\* A request to the token endpoint.  wellFormed is whether ParseForm accepts
\* it, resourceOwner whether it names a username and a password, assertion
\* whether it carries an assertion and its type.
TokenRequest ==
    [method : {"GET", "POST", "PUT"}, wellFormed : BOOLEAN, grantType : GrantTypes \cup {"other"},
     auth : AuthParameters, code : Codes \cup {Nil}, refreshToken : RefreshTokens \cup {Nil},
     codeVerifier : Challenges \cup {Nil}, redirectUri : UriTexts, scope : SUBSET Scopes,
     resourceOwner : BOOLEAN, assertion : BOOLEAN]

\* The parameter each grant cannot do without.
hasGrant(http) ==
    CASE http.grantType = "authorization_code" -> http.code # Nil
      [] http.grantType = "refresh_token" -> http.refreshToken # Nil
      [] http.grantType = "password" -> http.resourceOwner
      [] http.grantType = "assertion" -> http.assertion
      [] OTHER -> TRUE

\* What is known of a request once its handler reads the storage.
GrantRequest == {http \in TokenRequest : http.grantType \in GrantTypes /\ hasGrant(http)}

\* A request to the authorization endpoint.
AuthorizationRequest ==
    [wellFormed : BOOLEAN, responseType : ResponseTypes \cup {"other"},
     clientId : ClientIds \cup {Nil}, redirectUri : UriTexts, scope : SUBSET Scopes,
     codeChallenge : Challenges \cup {Nil}, codeChallengeMethod : ChallengeMethods]

AuthorizeRequest ==
    [type : ResponseTypes, client : Registrations, redirectUri : UriTexts, scope : SUBSET Scopes,
     codeChallenge : Challenges \cup {Nil}, codeChallengeMethod : ChallengeMethods,
     formRedirectUri : UriTexts]

\* authorizeData is the code of the loaded record; formRedirectUri is the
\* redirect_uri of the request itself, still reachable through HttpRequest.
AccessRequest ==
    [type : GrantTypes \cup {"implicit"}, client : Registrations,
     authorizeData : Codes \cup {Nil}, accessData : AccessData \cup {Nil},
     forceAccessData : AccessData \cup {Nil}, authorized : BOOLEAN,
     redirectUri : UriTexts, formRedirectUri : UriTexts, scope : SUBSET Scopes,
     generateRefresh : BOOLEAN, codeVerifier : Challenges \cup {Nil}]

\* A Response: url is where it redirects to, Nil for a response of type DATA,
\* and fragment whether the values go into the fragment of url.
Response ==
    [pc : {"idle"}, out : Errors \cup {"none", "ok"}, url : UriTexts, fragment : BOOLEAN]

\* The response of the info endpoint reports a token and its lifetime.
Lifetimes == -MaxTime .. MaxTime + MaxLife

Report ==
    [pc : {"idle"}, out : {"report"}, url : {Nil}, fragment : {FALSE},
     token : AccessTokens, expiresIn : Lifetimes]

Slot ==
    Response \cup Report \cup
    [pc : {"client"}, http : GrantRequest, auth : Credentials] \cup
    [pc : {"load"}, http : GrantRequest, client : Registrations] \cup
    [pc : {"decide", "finish"}, ar : AccessRequest] \cup
    [pc : {"rmAuthorize", "rmRefresh", "rmAccess"}, ret : AccessData] \cup
    [pc : {"login"}, ar : AuthorizeRequest] \cup
    [pc : {"info"}, data : AccessData]

ServerTypeOK ==
    /\ config \in Configs
    /\ now \in 0 .. MaxTime
    /\ req \in [Requests -> Slot]
    /\ faults \in 0 .. MaxFaults
    /\ restarts \in 0 .. MaxRestarts
    /\ delivered \subseteq AccessTokens

noResponse == [pc |-> "idle", out |-> "none", url |-> Nil, fragment |-> FALSE]

ServerInit ==
    /\ config \in Configs
    /\ now = 0
    /\ req = [r \in Requests |-> noResponse]
    /\ faults = 0
    /\ restarts = 0
    /\ delivered = {}

-----------------------------------------------------------------------------
(* What the handlers are made of. *)

at(r, pc) == req[r].pc = pc

\* Request r goes on with slot s.
goto(r, s) == req' = [req EXCEPT ![r] = s]

\* Request r is answered, with an error (SetError) or with "ok": with a
\* redirect to url, or with data.
redirect(r, out, url, fragment) ==
    goto(r, [pc |-> "idle", out |-> out, url |-> url, fragment |-> fragment])

answer(r, out) == redirect(r, out, Nil, FALSE)

\* A call of this kind fails.
fail(kind) == kind \in FaultKinds /\ faults < MaxFaults /\ faults' = faults + 1

\* The answer when an entry is not there: the error ErrNotFound gets, or
\* the one a nil record gets.
missingError(notFound) == IF NilForMissing THEN "unauthorized_client" ELSE notFound

-----------------------------------------------------------------------------
(* Around the handlers. *)

Tick ==
    /\ now < MaxTime
    /\ now' = now + 1
    /\ UNCHANGED <<storeVars, config, req, faults, restarts, delivered>>

\* The process dies wherever its goroutines are and starts again, perhaps
\* with other settings; the storage stays.
Restart ==
    /\ restarts < MaxRestarts
    /\ restarts' = restarts + 1
    /\ config' \in Configs
    /\ req' = [r \in Requests |-> noResponse]
    /\ UNCHANGED <<storeVars, now, faults, delivered>>

\* An administrator registers a client, or changes its registration.
Register(client) ==
    /\ clients[client.id] # client
    /\ SetClient(client)
    /\ UNCHANGED serverVars
=============================================================================
