----------------------------- MODULE ClientAuth ------------------------------
(***************************************************************************)
(* Client authentication at the token endpoint (client.go, util.go and     *)
(* getClient of access.go): which credentials a request presents, and      *)
(* whether the registered client accepts them.                             *)
(*                                                                         *)
(* The two halves read the storage separately.  getClientAuth may look the *)
(* client up to learn its declared method (found is what that lookup       *)
(* returned); getClient looks it up again.                                 *)
(***************************************************************************)
EXTENDS RedirectUri

CONSTANTS
    ClientIds,       \* the client_id values requests carry
    Secrets,         \* the shared secrets
    AuthMethods,     \* the token_endpoint_auth_method values clients declare
    Registrations    \* the Client values an administrator may register

ClientValue ==
    [id : ClientIds, secret : Secrets \cup {Nil}, method : AuthMethods \cup {Nil},
     redirectUris : Seq(UriTexts), redirectUri : UriTexts]

Credentials == [username : ClientIds \cup {Nil}, password : Secrets \cup {Nil}]

ASSUME ClientsAssumption ==
    /\ Registrations \subseteq ClientValue
    /\ Nil \notin ClientIds \cup Secrets \cup AuthMethods
    /\ Nil \notin Registrations \cup Credentials

\* The Authorization header: absent, not Basic or not decodable, or a pair.
Headers == [kind : {"none", "malformed"}] \cup
           [kind : {"basic"}, username : ClientIds \cup {Nil}, password : Secrets \cup {Nil}]

\* The credentials a token request may carry.
AuthParameters ==
    [header : Headers, clientId : ClientIds \cup {Nil},
     hasSecret : BOOLEAN, clientSecret : Secrets \cup {Nil}]

-----------------------------------------------------------------------------
(* What a declared method makes of the shared secret: "shared" for a       *)
(* client that declared none of them or a client_secret_* method.          *)

clientSecretUseOf(client) ==
    CASE client.method = "none" -> "none"
      [] client.method \in {Nil, "client_secret_post", "client_secret_basic"} -> "shared"
      [] OTHER -> "other"

clientSecretMatches(client, secret) == client.secret = secret

CheckClientSecret(client, secret) ==
    CASE clientSecretUseOf(client) = "none" -> secret = Nil
      [] clientSecretUseOf(client) = "other" -> FALSE
      [] OTHER -> clientSecretMatches(client, secret)

clientIdentifiesWithIDOnly(found) == found # Nil /\ clientSecretUseOf(found) = "none"

\* The credentials in the form are used only with both parameters present.
inParams(conf, http) == conf.allowClientSecretInParams /\ http.clientId # Nil /\ http.hasSecret

\* Whether getClientAuth looks the client up.
looksUpClient(conf, http) ==
    /\ ~inParams(conf, http) /\ http.header.kind = "none"
    /\ http.clientId # Nil /\ ~conf.enforceOAuth21

\* The credentials of a request, Nil when getClientAuth sets an error.
getClientAuth(conf, http, found) ==
    IF inParams(conf, http)
        THEN [username |-> http.clientId, password |-> http.clientSecret]
    ELSE IF http.header.kind = "malformed" THEN Nil
    ELSE IF http.header.kind = "basic"
        THEN IF http.header.password = Nil THEN Nil
             ELSE [username |-> http.header.username, password |-> http.header.password]
    ELSE IF http.clientId # Nil /\ (conf.enforceOAuth21 \/ clientIdentifiesWithIDOnly(found))
        THEN [username |-> http.clientId, password |-> Nil]
    ELSE Nil

\* Faulty: identification by client_id is taken as authentication.
getClientError_identified(conf, auth, client) ==
    IF client = Nil THEN "unauthorized_client"
    ELSE IF auth.password # Nil /\ ~CheckClientSecret(client, auth.password)
        THEN "unauthorized_client"
    ELSE IF ~clientHasRedirectUri(client) THEN "unauthorized_client"
    ELSE Nil

\* The error getClient answers for the client it found, Nil for none.
getClientError(conf, auth, client) ==
    IF client = Nil THEN "unauthorized_client"
    ELSE IF conf.enforceOAuth21 /\ auth.password = Nil /\ ~CheckClientSecret(client, Nil)
        THEN "invalid_client"
    ELSE IF ~CheckClientSecret(client, auth.password) THEN "unauthorized_client"
    ELSE IF ~clientHasRedirectUri(client) THEN "unauthorized_client"
    ELSE Nil
=============================================================================
