----------------------------- MODULE RedirectUri -----------------------------
(***************************************************************************)
(* Redirect URIs (urivalidate.go): which URI of a request is accepted for  *)
(* a client, and what the library keeps of it.                             *)
(*                                                                         *)
(* A URI text is the record url.Parse makes of it.  Its path is the        *)
(* sequence of segments after the slashes ("/a/b" is <<"a","b">>, "/a/" is *)
(* <<"a","">>, "" is <<>>); port is what Port() returns and user the       *)
(* userinfo, each Nil when absent; escapes counts the layers of percent    *)
(* escapes its query carries.  form is "printed" for the text String()     *)
(* makes of that URL and "raw" for another spelling that parses to it: a   *)
(* scheme in upper case, an empty fragment.  Three more texts exist: Nil,  *)
(* the blank string; Unparsable, which url.Parse refuses; BadEscape, which *)
(* url.QueryUnescape refuses as well.                                      *)
(***************************************************************************)
EXTENDS Naturals, Sequences, SequencesExt

CONSTANTS
    Nil,          \* the nil pointer, and the blank string
    Uris,         \* the URIs clients register and requests name
    Unparsable,   \* a text url.Parse refuses
    BadEscape,    \* a text with a broken percent escape
    Split         \* the texts strings.Split cuts a text into at the separator

Unescape(u) ==
    IF u \in Uris /\ u.escapes > 0 THEN [u EXCEPT !.escapes = @ - 1] ELSE u

UriTexts == Uris \cup {Nil, Unparsable, BadEscape}

parsable(u) == u \in Uris

\* url.URL.String: the text the library keeps of a URI it accepts.
String(u) == [u EXCEPT !.form = "printed"]

-----------------------------------------------------------------------------
(* ParseUrls rebuilds the requested URI from its path and query alone,     *)
(* against the root of its own host: userinfo is lost and the dot segments *)
(* are resolved the way ResolveReference resolves them.                    *)

isDot(segment) == segment \in {".", ".."}

resolvePath(path) ==
    LET step(done, segment) ==
            IF segment = "." THEN done
            ELSE IF segment = ".." THEN (IF done = <<>> THEN done ELSE Front(done))
            ELSE Append(done, segment)
        kept == FoldLeft(step, <<>>, path)
    IN  IF path = <<>> \/ isDot(Last(path)) THEN Append(kept, "") ELSE kept

resolveReference(u) == [String(u) EXCEPT !.user = Nil, !.path = resolvePath(u.path)]

ASSUME UrisAssumption ==
    /\ {Nil, Unparsable, BadEscape} \cap Uris = {}
    /\ Nil \notin {Unparsable, BadEscape}
    /\ \A u \in Uris : {Unescape(u), String(u), resolveReference(u)} \subseteq Uris

ASSUME SplitAssumption ==
    Split \in [UriTexts -> Seq(UriTexts)] /\ \A text \in UriTexts : Split[text] # <<>>

\* strings.TrimRight(path, "/"), as segments.
trimSlashes(path) ==
    LET full == {i \in DOMAIN path : path[i] # ""}
    IN  SubSeq(path, 1, IF full = {} THEN 0 ELSE CHOOSE i \in full : \A j \in full : j <= i)

\* A blank or unparsable text is an error of its own, which ends the walk
\* over the list; any other refusal lets the walk go on to the next entry.
endsWalk(base, redirect) == ~parsable(base) \/ ~parsable(redirect)

\* Both parse, neither has a fragment, and the origin is the same.
ParseUrls(base, redirect) ==
    /\ ~endsWalk(base, redirect)
    /\ ~base.fragment /\ ~redirect.fragment
    /\ <<redirect.scheme, redirect.host, redirect.port>> = <<base.scheme, base.host, base.port>>

\* Faulty: the paths are compared before the dot segments are resolved.
ValidateUri_unresolved(base, redirect) ==
    ParseUrls(base, redirect) /\ IsPrefix(trimSlashes(base.path), redirect.path)

ValidateUri(base, redirect) ==
    /\ ParseUrls(base, redirect)
    /\ LET basePath == resolvePath(base.path)
           path == resolvePath(redirect.path)
       IN  path = basePath \/ IsStrictPrefix(trimSlashes(basePath), path)

\* Printed alike once the port is removed from the loopback host (RFC 8252 7.3).
loopbackUriVariant(base, redirect) ==
    /\ base.scheme = "http" /\ redirect.scheme = "http"
    /\ base.host \in {"127.0.0.1", "::1"}
    /\ base.port # redirect.port
    /\ [String(base) EXCEPT !.port = Nil] = [String(redirect) EXCEPT !.port = Nil]

validateUriExact(base, redirect) ==
    /\ ~endsWalk(base, redirect)
    /\ ~base.fragment /\ ~redirect.fragment
    /\ base = redirect \/ loopbackUriVariant(base, redirect)

\* The walk over the registered URIs: some entry accepts the URI and no
\* entry before it ended the walk.
ValidateUriList(list, redirect) ==
    \E i \in DOMAIN list :
        /\ ValidateUri(list[i], redirect)
        /\ \A j \in 1 .. i - 1 : ~endsWalk(list[j], redirect)

validateUriExactList(list, redirect) ==
    \E i \in DOMAIN list :
        /\ validateUriExact(list[i], redirect)
        /\ \A j \in 1 .. i - 1 : ~endsWalk(list[j], redirect)

-----------------------------------------------------------------------------
(* The URIs of a client: redirectUris is the set GetRedirectUris() returns *)
(* (<<>> when there is none); redirectUri is the text GetRedirectUri().    *)

clientHasRedirectUri(client) == client.redirectUris # <<>> \/ client.redirectUri # Nil

\* Without a separator a list is one text.  url.Parse may well accept it, as
\* the URI of the first entry with all the others in its path.
splitUriList(text, separator) == IF separator THEN Split[text] ELSE <<text>>

registeredUris(conf, client) ==
    IF client.redirectUris # <<>> THEN client.redirectUris
    ELSE splitUriList(client.redirectUri, conf.separator)

comparesExactly(conf, client) == client.redirectUris # <<>> \/ conf.enforceOAuth21

\* The validation clientRedirectUris returns, and the URI it hands back.
validateRedirectUri(conf, client, redirect) ==
    IF comparesExactly(conf, client)
    THEN validateUriExactList(registeredUris(conf, client), redirect)
    ELSE ValidateUriList(registeredUris(conf, client), redirect)

realRedirectUri(conf, client, redirect) ==
    IF comparesExactly(conf, client) THEN String(redirect) ELSE resolveReference(redirect)
=============================================================================
