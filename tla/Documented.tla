----------------------------- MODULE Documented ------------------------------
(***************************************************************************)
(* Properties of the server that its comments and documents state, for the *)
(* runs that compare them with what the code does.                         *)
(***************************************************************************)
EXTENDS AuthServer

refused(r, error) == req'[r].pc = "idle" /\ req'[r].out = error

\* The scope the resource owner granted: that of the first token in the
\* line of tokens that t continues.
grantedScope[t \in AccessTokens] ==
    IF granted[t].accessData = Nil THEN granted[t].scope
    ELSE grantedScope[granted[t].accessData.accessToken]

\* "the requested scope must not include any scope not originally granted by
\* the resource owner" (access.go:366): a refresh is refused for its scope
\* only if it asks for more than the resource owner granted.
RefusedScopeWasNotGranted ==
    [][\A r \in Requests :
          at(r, "load") /\ req[r].http.grantType = "refresh_token" /\ refused(r, "access_denied") =>
              LET data == LoadRefresh(req[r].http.refreshToken)
              IN  extraScopes(grantedScope[data.accessToken], req[r].http.scope)]_vars

\* "All other returned errors must be treated as storage-specific errors"
\* (storage.go:10): a Load... call that fails is a server_error, not a
\* verdict on the code or the token.
StorageErrorIsServerError ==
    [][\A r \in Requests :
          at(r, "load") /\ req'[r] # req[r] /\ faults' = faults + 1 => refused(r, "server_error")]_vars

\* A 2.1 client that registered only one URI may omit redirect_uri at the
\* token endpoint (docs/plans/2026-09-18-001-feat-oauth21-enforcement-plan.md:91):
\* the code it holds is not refused for it.
SingleUriMayBeOmitted ==
    [][\A r \in Requests :
          at(r, "load") /\ req[r].http.grantType = "authorization_code" =>
              LET data == LoadAuthorize(req[r].http.code)
              IN  /\ config.enforceOAuth21 /\ data # Nil /\ req[r].http.redirectUri = Nil
                  /\ Len(registeredUris(config, req[r].client)) = 1
                  /\ data.client = req[r].client
                  /\ pkceError(data, req[r].http.codeVerifier) = Nil
                  => ~refused(r, "invalid_request")]_vars

=============================================================================
