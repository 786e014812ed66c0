# A verification development for osin

osin is a library for writing OAuth 2 authorization servers. An application
mounts its handlers, decides in between whether a request is authorized, and
supplies the storage. The modules here model the endpoints that issue codes
and tokens, over one storage, with requests that overlap, calls that fail and
processes that die; beside them stands an abstract ledger of grants, which they
implement. TLC checks them on small instances; TLAPS proves the safety
properties about codes, tokens and clients, and that the server implements the
ledger, for every instance.

## The system

| Component | State | Operations | Talks to | Hard about it |
|---|---|---|---|---|
| Token endpoint (`access.go`) | the locals of each request | `HandleAccessRequest`, five grants, `FinishAccessRequest` | storage, generator, application | several storage calls without a transaction; the errors of the removals are ignored |
| Authorization endpoint (`authorize.go`) | the locals of each request | `HandleAuthorizeRequest`, `FinishAuthorizeRequest` | storage, generator, user | the client is read once, stored in the code and compared much later |
| Client authentication (`util.go`, `client.go`) | none | `getClientAuth`, `getClient`, `CheckClientSecret` | storage | two lookups of the same client |
| Redirect URIs (`urivalidate.go`) | none | `ValidateUri`, `validateUriExact`, the lists | - | two comparisons, dot segments, loopback ports, entries that end the walk |
| Storage (`storage.go`, `example/teststorage.go`) | clients, codes, tokens, refresh tokens | `Save...`, `Load...`, `Remove...` | - | supplied by the application; may fail, may drop the sender constraint, may answer nil for a missing entry |
| Configuration (`config.go`, `server.go`) | the settings, the clock | `NewServer` | all handlers | settings change between runs, stored codes and tokens do not |
| Token generation (`tokengen.go`) | none | `GenerateAuthorizeToken`, `GenerateAccessToken` | endpoints | may fail, may repeat itself |
| Info endpoint (`info.go`) | none | `HandleInfoRequest`, `FinishInfoRequest` | storage | expiry and remaining lifetime read the clock twice |
| Response (`response.go`, `response_json.go`) | type, redirect, output | `SetRedirect`, `SetErrorState`, `GetRedirectUrl` | endpoints | where an error is sent |
| Errors, logging, examples | - | - | - | texts, output, demonstrations |

Every request runs in a goroutine of its own with a `Response` of its own.
Goroutines share nothing but the storage, so the order of storage calls is the
only interleaving there is.

What makes the parts correct:

* a code yields one token, apart from the overlaps and failures that a storage
  without transactions cannot exclude, and those have a bound;
* nothing the user granted is lost to a failure or a crash;
* a token belongs to the client, and stays within the scopes, of what it was
  issued for;
* a token that was replaced cannot be used again, unless the settings retain it;
* PKCE, sender constraints and expiry hold for what was stored under other
  settings, too;
* nobody is taken for a client whose credentials he does not present, even while
  the registration changes;
* a user agent is sent only where its client registered, and both endpoints
  mean the same by one redirect URI;
* what the info endpoint says of a token was true when it read it, and the
  lifetime it reports is never too long;
* what was spent is withdrawn in the end.

`PROJECT.json` lists the hazards one by one with the lines where they bite.

## Modules

| Module | Models |
|---|---|
| `RedirectUri` | `urivalidate.go` and the unescaping in `authorize.go`: pure operators on URI records |
| `ClientAuth` | `util.go`, `client.go`, `getClient`: pure operators on credentials and registrations |
| `GrantStore` | the storage: `clients`, `authorize`, `access`, `refresh` are the four maps of `TestStorage` |
| `Server` | `config`, `now`, and `req`, the slots that hold the locals of the requests and the `Response` each ended with; clock, restart, registration |
| `TokenEndpoint` | `access.go` |
| `AuthorizeEndpoint` | `authorize.go` |
| `InfoEndpoint` | `info.go` and `CheckBearerAuth` |
| `AuthServer` | the composition: `Init`, `Next`, `Spec`, `FairSpec`, the properties, and the mapping to the ledger |
| `GrantLedger` | the abstract specification: grants, their owners, scopes and origins, claims on them |
| `Documented` | properties that comments and documents state and the code does not keep |
| `MCAuthServer` | URIs, clients, requests and configurations for TLC |
| `AuthServerProofs` | theorem: types |
| `GrantProofs` | theorems: nothing is lost, lineage |
| `StepProofs` | lemmas: the eight kinds of steps |
| `RequestProofs` | theorems: what was checked holds when it is acted on; authentication |
| `RotationProofs` | theorems: rotation of tokens |
| `InfoProofs` | theorems: what the info endpoint reports |
| `LedgerProofs` | theorem: the server implements the ledger |
| `RedemptionProofs` | theorems: how many tokens a code yields |

Of the modules that model the code each extends the one above it, `GrantLedger`
apart, which stands alone and is instantiated by `AuthServer`. `Documented`,
`MCAuthServer` and `AuthServerProofs` extend `AuthServer`. `GrantProofs` and
`StepProofs` extend `AuthServerProofs`, `RequestProofs` extends `StepProofs`;
`RotationProofs`, `LedgerProofs` and `RedemptionProofs` rest on `RequestProofs`,
the first two also on `GrantProofs`, and `InfoProofs` extends `RotationProofs`. The definitions keep the names of the source.

### Actions

One action is one storage call with the computation around it, because
nothing another request does can be seen in between.

| Stage of `req[r]` | Action | Code |
|---|---|---|
| `idle` | `HandleAccessRequest` | method, grant, `getClientAuth` (with its lookup), the parameter of the grant |
| `client` | `AuthenticateClient` | `getClient`; the rest of the password, client_credentials and assertion handlers |
| `load` | `LoadCode`, `LoadToken` | `LoadAuthorize` or `LoadRefresh` and every check after it |
| `decide` | `Decide` | the application sets `Authorized`, perhaps `ForceAccessData` |
| `finish` | `FinishAccessRequest` | up to and including `SaveAccess` |
| `rmAuthorize`, `rmRefresh`, `rmAccess` | `RemoveSpentCode`, `RemovePreviousRefresh`, `RemovePreviousAccess` | the three removals; the last one answers |
| `idle` | `HandleAuthorizeRequest` | everything up to its return |
| `login` | `Deny`, `GrantToken`, `GrantCode` | `FinishAuthorizeRequest`; an implicit request goes on at `finish` |
| `idle` | `HandleInfoRequest` | everything up to its return, with `LoadAccess` and the check for expiry |
| `info` | `FinishInfoRequest` | the report, with the second reading of the clock |

An answered request leaves its `Response` in the idle slot: the error or "ok",
the URL it redirects to (Nil for data), whether the values go into its fragment,
and for the info endpoint the token and lifetime reported. The next request
overwrites it, and no guard reads it.

`Tick` moves the clock, `Restart` ends all requests and may choose another
configuration, `Register` adds or changes a client.

Any storage call may fail, within `MaxFaults`: a failed save may have written
or not, a failed removal has not removed, a failed lookup in `getClientAuth`
counts as a missing client. A generator may fail, too.

Two variables are history: `offered` has every code's record, `granted` every
token's. No guard of the server reads them, except that the generators use
them to return only values that are new, unless `RepeatsTokens` says that they do
not care.

### The ledger

`GrantLedger` knows neither requests nor storage calls. A grant, be it a code or
a token, is entered once with its owner, its scope and the grant it came from;
it is open until another grant was issued from it. A holder claims an open
grant and issues at most one grant per claim. The mapping in `AuthServer`:

| Ledger | Server |
|---|---|
| `entry` | `offered` and `granted`: owner, scope, and the code or token exchanged |
| `open` | what `LoadAuthorize` and `LoadAccess` find |
| `claim` | what a request at `decide` or `finish` has loaded |
| `Claim`, `Release` | `LoadCode`, `LoadToken`; any answer, a restart |
| `Issue`, `HandOutAgain` | `SaveAuthorize` and `SaveAccess`, also one that reports an error; saving a `ForceAccessData` |
| `Close` | `RemoveAuthorize`, `RemoveAccess` |

Every other step of the server leaves the ledger as it is. What the ledger
leaves open is what the code leaves open: claims are not exclusive, so a grant may
yield one grant per holder, and a closed grant can still yield the grants of
those who had claimed it.

### Abstractions

* A scope text is the set of its names; a text of spaces only is not told from
  the blank one.
* A URI text is the record `url.Parse` makes of it, with its `form`: the text
  `String()` prints of that record, or one other spelling that parses to it (a
  scheme in upper case, an empty fragment). The exact comparison is one of
  texts, the prefix comparison one of parsed URIs, and what is kept is always
  printed anew. A blank text, an unparsable one and one with a broken escape
  are kept apart. The set `Uris` is closed under unescaping, printing and
  resolving. Escapes are modelled in queries only: paths with escapes, or with
  characters that are printed as escapes, are not among the URIs, nor are empty
  segments that dot segments leave behind above the root ("/..//x").
* `Split` is what `strings.Split` makes of a text with the configured separator.
  A list of URIs is one text; without a separator it is itself a URI that
  `url.Parse` accepts, with the entries after the first in its path, and is
  treated as that: a blank `redirect_uri` is filled in with it.
* PKCE texts are model values; `S256` is an injective constructor.
* A record refers to its code and to the record it replaces by their tokens;
  the code reads nothing else of them.
* Lifetimes are whole ticks; the application does not change `Expiration`,
  `Scope` or `UserData` of a request. `ForceAccessData` is a record of the same
  client that is in the storage when the application decides.
* Reusing a record with the sender constraint of another token changes it in
  place in Go; in the model it changes with the save that follows.
* A second is `Second` ticks of the clock, so that a lifetime can have a fraction.
* The `state` and `iss` parameters are copied from the request and the
  configuration into the output; they and the encoding of the output are left out.

## Runs

All runs use `MCAuthServer`. Unless noted there are two concurrent requests,
one code, three access and three refresh tokens, one confidential client, no time
passes and nobody asks the info endpoint. Two requests are enough for every race
the code has: a race is between two holders of one code or one token. Three
tokens are a code exchange and two refreshes in a row, or two redemptions of a
code and one refresh. Codes, tokens and requests are symmetric; the liveness run
uses no symmetry.

| Run | Instance | Properties |
|---|---|---|
| `rotation` | scopes read and write, granted in full or in part, refreshed with any subset | `Lineage`, `SpentStaysSpent`, `RefreshResolves` |
| `crash` | one failed call of any kind; one restart, which may switch RetainTokenAfterRefresh; the application reuses records | `TypeOK`, `NoGrantLost`, `RetainKeepsTokens`, `ImplementsLedger` |
| `replay` | code exchanges only, six access tokens, a generator that may return a token again, one failure, one restart, codes that live one tick of two | `RedemptionsBounded`, `ExpiredCodeIsDead` |
| `grants` | a confidential and a public client, every grant and response type, every kind of info request, two tokens; the registration of one client changes secret and method | `Lineage`, `Authenticated` |
| `binding` | RequireSenderConstrainedTokens switched by a restart; the generator binds or does not; two tokens that live for one second of two ticks, of a clock that runs to three; info requests for all of them | `SenderBound`, `InfoIsCurrent`, `LifetimeNotOverstated` |
| `redirects` | one request at a time, one token; twenty-one URIs to ask for; five registrations: a URI, another spelling of it, two joined lists, one with a blank entry, and a set with an unparsable one; default, EnforceOAuth21 with and without a separator, RequirePKCEForPublicClients with RejectPlainPKCE, switched by a restart; every challenge and verifier | `RedirectsRegistered`, `SameUriRedeems`, `PkceProved` |
| `settles` | two tokens, one failure, one restart, one info request, `FairSpec` | `Settles` |

One request at a time is enough for `redirects`: what its properties speak of is
decided by one request's own locals, the settings and the code it loads, and the
order of authorization, restart and exchange is still free. Overlap is the
matter of the other runs.

`RedemptionsBounded` is what the code guarantees about one-time use: each of
the n requests that hold a code when it is first redeemed may redeem it, a
restart allows n more, a failed removal one more. With two requests, one restart
and one failure that is five tokens; the run has six, and reaches the bound
with the failure and without it. Its generator may repeat itself:
the bound does not rest on new tokens. `ExpiredCodeIsDead` bounds it in time. `SpentStaysSpent`, `RefreshResolves` and `InfoIsCurrent` are about
runs without failed removals, for a failed removal is ignored and leaves the
spent token behind by design of the code; `NoGrantLost` and `ImplementsLedger`
are about all runs.

`RedirectsRegistered` compares what a response redirects to with a reference
definition of the registered URIs (`isAt`, `isBeneath`) that does not use the
validation of the code: equal, at another loopback port, or beneath the
registered path with no dot segment left. Registered is the list as the
settings in force read it: one that is not cut at a separator is one URI, of the
host of its first entry. `SameUriRedeems` says that the two
endpoints, which unescape, fill in, resolve, print and compare a URI each on its
own, agree. It excludes texts with escapes, about which they do not (see
`registered`). And a client that repeats the recorded URI, rather than the text
it sent, is accepted under exact comparison only if its URIs are registered as
`String()` prints them: with another spelling the code compares the printed
URI with the registered text and refuses.

Every property is also run against a faulty variant of the code, an operator
`X_y` beside `X`; `PROJECT.json` pairs them.

Four runs end in a violation. They state what the repository says of itself:

* `narrowed`: `access.go:366` speaks of the scope "originally granted by the
  resource owner"; the code compares with the scope of the refreshed token,
  which an earlier refresh may have narrowed.
* `storage_error`: `storage.go:10` has errors other than `ErrNotFound` treated
  as storage errors; the token endpoint answers `invalid_grant` to them.
* `loopback`: a client with one URI may omit `redirect_uri` according to the
  plan for EnforceOAuth21; one that authorized at a loopback port of its own
  cannot.
* `registered`: `README.md` has the requested URI compared with every entry of
  the set exactly; the authorization endpoint unescapes it once more than the form
  was encoded, so an entry with an escape is refused. (The walk also stops at an
  entry that is no URI, with the same effect on those behind it.)

### Fairness

`FairSpec` has weak fairness for the steps of a request at the token endpoint
after its first one. A goroutine waits for no other and holds no lock, so the Go
scheduler runs it to its end; the application is taken to answer what it was
asked. There is no fairness for clients, users, resource servers, the clock,
restarts or failures. `Settles` is about servers in which no call ever failed
and that were never restarted, at any time before: nothing in the code takes up
a removal that was not done.

## Theorems

TLAPS checks them for every value of the constants: any number of requests,
clients, codes, tokens, failures and restarts, any set of requests and
configurations. They assume what the modules assume of the constants
(`UrisAssumption`, `SplitAssumption`, `ClientsAssumption`, `GrantsAssumption`,
`RecordsAssumption`, `ServerAssumption`, `LedgerAssumption`, and that the
requests have the type of requests): types, and that Nil is none of the values.
TLC evaluates them in every run.

Some theorems have hypotheses. Each is a matter of what the application
supplies, holds in the run that checks the property, and cannot be
dropped: without it TLC finds a counterexample.

* `~RepeatsTokens`: the generator returns no token it returned before. With one
  that does, as that of `example/jwttoken` does, records are overwritten and the
  removal of the previous refresh token takes the new one.
* `rotates`: also, the application hands out no stored record again, and no
  removal fails. A failed removal is ignored by the code and leaves behind what
  was spent; a record that is saved again comes back.
* `neverRetains`: no configuration has RetainTokenAfterRefresh, which keeps
  replaced tokens on purpose.
* `IsFiniteSet(Requests)`: there has to be a number for the bound to speak of.

| Theorem | States | Hypotheses |
|---|---|---|
| `TypeCorrect` | `TypeOK` | - |
| `GrantsKept`, `LineageKept` | `NoGrantLost`, `Lineage` | `~RepeatsTokens` |
| `RetainedTokensKept`, `VerifierProved`, `TokensBound`, `ExpiredCodesDead` | `RetainKeepsTokens`, `PkceProved`, `SenderBound`, `ExpiredCodeIsDead` | - |
| `ClientsAuthenticated` | `Authenticated` | - |
| `RefreshTokensResolve` | `RefreshResolves` | `rotates` |
| `SpentGrantsStaySpent`, `InfoStaysCurrent` | `SpentStaysSpent`, `InfoIsCurrent` | `rotates`, `neverRetains` |
| `LifetimesNotOverstated` | `LifetimeNotOverstated` | `~RepeatsTokens` |
| `LedgerImplemented` | `ImplementsLedger` | `~RepeatsTokens` |
| `RedemptionsStayBounded` | `RedemptionsBounded` | `IsFiniteSet(Requests)` |

### The arguments

**Types.** One lemma per action. The substance is in the locals: a handler
reaches a stage only with the fields that stage reads, which follows from the
checks before it.

**Grants** (`GrantInv`). `NoGrantLost` is not inductive: that a removal is
harmless depends on what the removing request saved earlier. `GrantInv` adds
that the record a request is removing for is in the history
(`removalRecorded`), that what it loaded is, too, and is of the same client and
of a wider scope (`requestRecorded`), that maps and history agree
(`CodesRecorded`, `TokensRecorded`, `PairsRecorded`), and that no refresh token
belongs to two records (`RefreshUnique`), without which the removal of one could
take another's entry. Lemmas about the calls of the storage keep `StoreInv` and
show that the history only grows; `SlotGrown` carries the locals of all other
requests along a history that grows; one lemma per action puts them together.

**Kinds of steps** (`StepProofs`). Fifteen actions with several outcomes
each come down to eight things a request can do to grants: go on quietly, ask
for a token from no stored record, take hold of a code or of a token, be
decided, save a code, save a token, remove something. `StepKinds` shows it once;
the proofs below go by the kinds.

**Checks and acts** (`RequestInv`). A record is checked when it is loaded and a
token is saved steps later. `RequestInv` says what the locals still mean by
then: the verifier matches the challenge of the code as it was issued, the token
to be replaced was bound if tokens have to be (and `WriteStep` shows that
every record saved is), a removal is under way only in a
server that does not retain tokens. It survives other requests because a code's
record never changes and a bound token is not overwritten by an unbound one
under the setting, and restarts because they end all requests. This
needs nothing of the generator. `ClientsAuthenticated` has an invariant of its
own (`CredentialsInv`): the credentials at the second lookup are those of the
request, read under the settings in force, with whatever the first lookup found.

**Rotation** (`RotationInv`). It follows a request through its removals: at
`rmRefresh` the code is spent, at `rmAccess` the refresh token, and when the
client has its answer everything its token came from (`DeliveredSpent`), where
spent means used and withdrawn; only unused values are written, so what is
spent stays so. `RefreshIndexed` holds in the middle because the refresh
token is removed first.

**Info endpoint** (`LifetimeInv`). The record in the locals may be replaced and
removed before the report, and saved again by an application that reuses it, but
never with another date. The rest is arithmetic: a lifetime rounded to
whole seconds is not longer than the lifetime.

**Ledger** (`LedgerInv`). With `GrantInv` and `SourcesInv` (no token comes from
both a code and a token: the ledger has one source per grant) each kind of step
is one action of the ledger or none: loading claims, answering and restarting
release, saving enters or hands out again, removing closes.

**Redemptions** (`RedemptionInv`). The bound alone is not inductive: requests
that hold a code may all still redeem it. Tokens and holders together stay
within the bound, and while the code is stored the tokens are no more than the
requests about to remove it and the failures and restarts, so that a new
holder always has room. A generator that repeats itself can overwrite a
token of the code, and an application can save that token back, so tokens in
the hands of requests count as well.

### Only model-checked

* `RedirectsRegistered` and `SameUriRedeems` compare what the walks over
  segments and lists of URIs compute with reference definitions. That takes
  induction over the sequences those walks fold, which is out of the prover's
  reach.
* `Settles` is liveness under fairness, out of its reach, too.
* The four documented properties are false; there is nothing to prove.

## Not modelled

The JSON output and the encoding of redirects (`response_json.go`,
`GetRedirectUrl`), the `state` and `iss` parameters, error texts, logging, and
the example programs: they copy values and keep no state. The maps of the test
storage are unsynchronized; the model takes each storage call as atomic, as a
storage used in earnest provides.

## Plan

1. Theorems about the authorization endpoint that need no induction over URIs:
   what a redirect carries, and that an error is not sent to a URI that was not
   validated.
2. The safety half of `Settles`: a grant that is spent and still open has a
   request about to remove it, or a failure or a restart that left it behind.
3. `state` and `iss` through both endpoints, should a property about them be
   wanted.
