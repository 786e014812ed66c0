----------------------------- MODULE GrantLedger -----------------------------
(***************************************************************************)
(* What the server promises about grants, without requests, storage calls  *)
(* or failures: a ledger in which every grant, a code or a token, is       *)
(* entered once and for good, names its owner, its scope and the grant it  *)
(* was issued from, and stays open until another one was issued from it.   *)
(*                                                                         *)
(* A holder claims an open grant and may then issue one new grant from it, *)
(* to the same owner and within its scope.  Claims are not exclusive, and  *)
(* a claim outlives the closing of what it claims: two holders may claim   *)
(* one grant and both issue from it.                                       *)
(***************************************************************************)
CONSTANTS
    Grants,    \* the codes and the tokens
    Holders,   \* who may hold a claim
    Owners, Scopes,
    Nil        \* no grant

VARIABLES
    entry,     \* what is known of each grant, Nil before it is issued
    open,      \* the grants that can still be claimed
    claim      \* the grant each holder has claimed, Nil for none

ledgerVars == <<entry, open, claim>>

Entry == [owner : Owners, scope : SUBSET Scopes, source : Grants \cup {Nil}]

Init ==
    /\ entry = [g \in Grants |-> Nil]
    /\ open = {}
    /\ claim = [h \in Holders |-> Nil]

isIssued(g) == entry[g] # Nil

issuedFrom(g, source) == isIssued(g) /\ entry[g].source = source

Claim(h, g) ==
    /\ g \in open
    /\ claim' = [claim EXCEPT ![h] = g]
    /\ UNCHANGED <<entry, open>>

\* Holders give up their claims.
Release(who) ==
    /\ claim' = [h \in Holders |-> IF h \in who THEN Nil ELSE claim[h]]
    /\ UNCHANGED <<entry, open>>

\* A new grant from the one h has claimed, or from none.
Issue(h, g, e) ==
    /\ ~isIssued(g)
    /\ e.source = claim[h]
    /\ claim[h] # Nil => e.owner = entry[claim[h]].owner /\ e.scope \subseteq entry[claim[h]].scope
    /\ entry' = [entry EXCEPT ![g] = e]
    /\ open' = open \cup {g}
    /\ claim' = [claim EXCEPT ![h] = Nil]

\* A grant issued before is handed out again instead of a new one.
HandOutAgain(h, g) ==
    /\ isIssued(g)
    /\ open' = open \cup {g}
    /\ claim' = [claim EXCEPT ![h] = Nil]
    /\ UNCHANGED entry

Close(g) ==
    /\ \E s \in Grants : issuedFrom(s, g)
    /\ open' = open \ {g}
    /\ UNCHANGED <<entry, claim>>

Next ==
    \/ \E h \in Holders, g \in Grants : Claim(h, g) \/ HandOutAgain(h, g)
    \/ \E h \in Holders, g \in Grants, e \in Entry : Issue(h, g, e)
    \/ \E who \in SUBSET Holders : Release(who)
    \/ \E g \in Grants : Close(g)

Spec == Init /\ [][Next]_ledgerVars
=============================================================================
