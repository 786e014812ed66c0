----------------------------- MODULE GrantStore ------------------------------
(***************************************************************************)
(* The storage (storage.go), as example/teststorage.go implements it: four *)
(* maps, each call atomic.  A record refers to the authorization code it   *)
(* was exchanged for by that code, and to the record it replaces by that   *)
(* record's two tokens.                                                    *)
(*                                                                         *)
(* Two more variables record history and are read by no action: offered is *)
(* what SaveAuthorize ever wrote under a code, granted what SaveAccess     *)
(* last wrote under an access token.                                       *)
(*                                                                         *)
(* In this and the other modules an operator X_y is a faulty variant of X, *)
(* used by no action: each property is shown to fail once X is replaced by *)
(* such a variant.                                                         *)
(***************************************************************************)
EXTENDS ClientAuth, FiniteSets

CONSTANTS
    Codes, AccessTokens, RefreshTokens,
    Scopes,          \* the scope names; a scope text is the set of its names
    Verifiers,       \* the well-formed PKCE texts a client makes up
    Malformed,       \* a PKCE text of a wrong length or alphabet
    Thumbprints,     \* the keys a token can be bound to
    MaxTime,         \* bound on the clock
    MaxLife,         \* bound on the configured lifetimes
    ClaimsBinding,   \* SupportsSenderConstraints() of the storage
    KeepsBinding,    \* whether the storage does keep SenderConstraint
    NilForMissing    \* whether it answers a missing entry with nil, not ErrNotFound

VARIABLES
    clients, authorize, access, refresh,
    offered, granted

storeVars == <<clients, authorize, access, refresh, offered, granted>>

ASSUME GrantsAssumption ==
    /\ Nil \notin Codes \cup AccessTokens \cup RefreshTokens \cup Thumbprints
    /\ Malformed # Nil /\ Malformed \notin Verifiers /\ Nil \notin Verifiers
    /\ MaxTime \in Nat /\ MaxLife \in Nat
    /\ ClaimsBinding \in BOOLEAN /\ KeepsBinding \in BOOLEAN /\ NilForMissing \in BOOLEAN

S256(verifier) == <<"S256", verifier>>

Challenges == Verifiers \cup {S256(v) : v \in Verifiers} \cup {Malformed}
ChallengeMethods == {Nil, "plain", "S256", "other"}

AuthorizeData ==
    [client : Registrations, code : Codes, expireAt : 0 .. MaxTime + MaxLife,
     scope : SUBSET Scopes, redirectUri : UriTexts,
     codeChallenge : Challenges \cup {Nil}, codeChallengeMethod : ChallengeMethods]

TokenPair == [accessToken : AccessTokens, refreshToken : RefreshTokens \cup {Nil}]

AccessData ==
    [client : Registrations, authorizeData : Codes \cup {Nil}, accessData : TokenPair \cup {Nil},
     accessToken : AccessTokens, refreshToken : RefreshTokens \cup {Nil},
     expireAt : 0 .. MaxTime + MaxLife, scope : SUBSET Scopes, redirectUri : UriTexts,
     senderConstraint : Thumbprints \cup {Nil}]

ASSUME RecordsAssumption == Nil \notin AuthorizeData \cup AccessData \cup TokenPair

StoreTypeOK ==
    /\ clients \in [ClientIds -> Registrations \cup {Nil}]
    /\ authorize \in [Codes -> AuthorizeData \cup {Nil}]
    /\ access \in [AccessTokens -> AccessData \cup {Nil}]
    /\ refresh \in [RefreshTokens -> AccessTokens \cup {Nil}]
    /\ offered \in [Codes -> AuthorizeData \cup {Nil}]
    /\ granted \in [AccessTokens -> AccessData \cup {Nil}]

\* NewTestStorage, with any registrations under their own ids.
StoreInit ==
    /\ clients \in [ClientIds -> Registrations \cup {Nil}]
    /\ \A id \in ClientIds : clients[id] # Nil => clients[id].id = id
    /\ authorize = [c \in Codes |-> Nil]
    /\ access = [t \in AccessTokens |-> Nil]
    /\ refresh = [t \in RefreshTokens |-> Nil]
    /\ offered = [c \in Codes |-> Nil]
    /\ granted = [t \in AccessTokens |-> Nil]

-----------------------------------------------------------------------------
(* Lookups; Nil when there is no such entry. *)

GetClient(id) == IF id \in ClientIds THEN clients[id] ELSE Nil
LoadAuthorize(code) == authorize[code]
LoadAccess(token) == access[token]
LoadRefresh(token) == IF refresh[token] = Nil THEN Nil ELSE LoadAccess(refresh[token])

IsExpiredAt_late(data, t) == data.expireAt + 1 < t   \* faulty: off by one
IsExpiredAt(data, t) == data.expireAt < t

\* Faulty: the two tokens swapped.
tokensOf_swapped(data) == [accessToken |-> data.refreshToken, refreshToken |-> data.accessToken]
tokensOf(data) == [accessToken |-> data.accessToken, refreshToken |-> data.refreshToken]

SetClient(client) ==
    /\ clients' = [clients EXCEPT ![client.id] = client]
    /\ UNCHANGED <<authorize, access, refresh, offered, granted>>

SaveAuthorize(data) ==
    /\ authorize' = [authorize EXCEPT ![data.code] = data]
    /\ offered' = [offered EXCEPT ![data.code] = data]
    /\ UNCHANGED <<clients, access, refresh, granted>>

\* A storage with no column for the binding drops it on the way in.
persisted(data) == IF KeepsBinding THEN data ELSE [data EXCEPT !.senderConstraint = Nil]

SaveAccess(data) ==
    /\ access' = [access EXCEPT ![data.accessToken] = persisted(data)]
    /\ refresh' = IF data.refreshToken = Nil THEN refresh
                  ELSE [refresh EXCEPT ![data.refreshToken] = data.accessToken]
    /\ granted' = [granted EXCEPT ![data.accessToken] = data]
    /\ UNCHANGED <<clients, authorize, offered>>

RemoveAuthorize(code) ==
    /\ authorize' = [authorize EXCEPT ![code] = Nil]
    /\ UNCHANGED <<clients, access, refresh, offered, granted>>

RemoveAccess(token) ==
    /\ access' = [access EXCEPT ![token] = Nil]
    /\ UNCHANGED <<clients, authorize, refresh, offered, granted>>

RemoveRefresh(token) ==
    /\ refresh' = [refresh EXCEPT ![token] = Nil]
    /\ UNCHANGED <<clients, authorize, access, offered, granted>>
=============================================================================
