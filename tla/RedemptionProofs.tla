--------------------------- MODULE RedemptionProofs ----------------------------
(***************************************************************************)
(* RedemptionsBounded: how many tokens one code can yield, for every       *)
(* number of requests, failed calls and restarts, with any generator.      *)
(*                                                                         *)
(* A code is not locked while it is exchanged, so every request that has   *)
(* loaded it may still yield a token.  The count has to foresee them:      *)
(* tokens issued and requests that hold the code together stay within the  *)
(* bound.  A request takes hold of a code only while it is stored; and     *)
(* while it is stored, each token issued for it belongs to a request about *)
(* to remove the code, or to a failed call, or to a request that a restart *)
(* cut off.                                                                *)
(*                                                                         *)
(* A generator that repeats itself may overwrite the token of a code; but  *)
(* a request whose application hands that token out again may still save   *)
(* it, so the count includes the tokens in the hands of requests.          *)
(***************************************************************************)
EXTENDS RequestProofs, FiniteSetTheorems

holdsCode(s, c) == s.pc \in {"decide", "finish"} /\ s.ar.authorizeData = c
removesCode(s, c) == s.pc = "rmAuthorize" /\ s.ret.authorizeData = c

\* Token t, issued for the code, is to be handed out again.
forces(s, t, c) ==
    /\ s.pc \in {"decide", "finish"} /\ s.ar.forceAccessData # Nil
    /\ s.ar.forceAccessData.accessToken = t /\ s.ar.forceAccessData.authorizeData = c

holders(c) == {r \in Requests : holdsCode(req[r], c)}
removers(c) == {r \in Requests : removesCode(req[r], c)}
redemptions(c) ==
    {t \in AccessTokens : exchangedFor(t, c) \/ \E r \in Requests : forces(req[r], t, c)}

\* The tokens that failures and restarts allow for, beyond the requests.
allowance == Cardinality(Requests) * restarts + faults

redeemed(c) ==
    /\ redemptions(c) # {} => offered[c] # Nil
    /\ IsFiniteSet(redemptions(c))
    /\ authorize[c] # Nil => Cardinality(redemptions(c)) <= Cardinality(removers(c)) + allowance
    /\ Cardinality(redemptions(c)) + Cardinality(holders(c)) <= Cardinality(Requests) + allowance

RedemptionInv == RequestInv /\ \A c \in Codes : redeemed(c)

-----------------------------------------------------------------------------
(* Counting. *)

LEMMA SlotsCounted ==
    ASSUME IsFiniteSet(Requests), NEW slots, NEW c
    PROVE  LET H == {r \in Requests : holdsCode(slots[r], c)}
               R == {r \in Requests : removesCode(slots[r], c)}
           IN  /\ IsFiniteSet(H) /\ Cardinality(H) \in Nat
               /\ IsFiniteSet(R) /\ Cardinality(R) \in Nat
               /\ Cardinality(H) + Cardinality(R) <= Cardinality(Requests)
<1> DEFINE H == {r \in Requests : holdsCode(slots[r], c)}
           R == {r \in Requests : removesCode(slots[r], c)}
<1>1. H \in SUBSET Requests /\ R \in SUBSET Requests
  OBVIOUS
<1>2. H \cap R = {}
  BY DEF holdsCode, removesCode
<1> HIDE DEF H, R
<1>3. IsFiniteSet(H) /\ IsFiniteSet(R)
  BY <1>1, FS_Subset
<1>4. Cardinality(Requests) \in Nat /\ Cardinality(H) \in Nat /\ Cardinality(R) \in Nat
  BY <1>3, FS_CardinalityType
<1>5. ~(Cardinality(H) + Cardinality(R) > Cardinality(Requests))
  BY <1>1, <1>2, FS_MajoritiesIntersect
<1>6. Cardinality(H) + Cardinality(R) <= Cardinality(Requests)
  BY <1>4, <1>5
<1> QED
  BY <1>3, <1>4, <1>6 DEF H, R

LEMMA Counts ==
    ASSUME IsFiniteSet(Requests), TypeOK, NEW c
    PROVE  /\ Cardinality(Requests) \in Nat /\ allowance \in Nat
           /\ IsFiniteSet(holders(c)) /\ Cardinality(holders(c)) \in Nat
           /\ IsFiniteSet(removers(c)) /\ Cardinality(removers(c)) \in Nat
           /\ Cardinality(holders(c)) + Cardinality(removers(c)) <= Cardinality(Requests)
<1>1. Cardinality(Requests) \in Nat
  BY FS_CardinalityType
<1>2. allowance \in Nat
  BY <1>1, ServerAssumption DEF allowance, TypeOK, ServerTypeOK
<1> QED
  BY <1>1, <1>2, SlotsCounted DEF holders, removers

\* The same of the next state.
LEMMA NextCounts ==
    ASSUME IsFiniteSet(Requests), TypeOK', NEW c
    PROVE  /\ allowance' \in Nat
           /\ Cardinality(holders(c)') \in Nat /\ Cardinality(removers(c)') \in Nat
           /\ Cardinality(holders(c)') + Cardinality(removers(c)') <= Cardinality(Requests)
<1>1. Cardinality(Requests) \in Nat
  BY FS_CardinalityType
<1>2. allowance' \in Nat
  BY <1>1, ServerAssumption DEF allowance, TypeOK, ServerTypeOK
<1> QED
  BY <1>1, <1>2, SlotsCounted DEF holders, removers

bit(b) == IF b THEN 1 ELSE 0

\* What the slot of one request contributes.
LEMMA SlotCounts ==
    ASSUME IsFiniteSet(Requests), TypeOK, NEW c, NEW r \in Requests, NEW s, goto(r, s)
    PROVE  /\ Cardinality(holders(c)') + bit(holdsCode(req[r], c))
                 = Cardinality(holders(c)) + bit(holdsCode(s, c))
           /\ Cardinality(removers(c)') + bit(removesCode(req[r], c))
                 = Cardinality(removers(c)) + bit(removesCode(s, c))
<1>1. \A q \in Requests : req'[q] = IF q = r THEN s ELSE req[q]
  BY GotoSlots
<1>2. holders(c)' = IF holdsCode(s, c) THEN holders(c) \cup {r} ELSE holders(c) \ {r}
  BY <1>1 DEF holders, holdsCode
<1>3. removers(c)' = IF removesCode(s, c) THEN removers(c) \cup {r} ELSE removers(c) \ {r}
  BY <1>1 DEF removers, removesCode
<1>4. ASSUME NEW S, IsFiniteSet(S), Cardinality(S) \in Nat, NEW T, NEW b \in BOOLEAN,
             T = IF b THEN S \cup {r} ELSE S \ {r}
      PROVE  Cardinality(T) + bit(r \in S) = Cardinality(S) + bit(b)
  <2>1. /\ Cardinality(S \cup {r}) = IF r \in S THEN Cardinality(S) ELSE Cardinality(S) + 1
        /\ Cardinality(S \ {r}) = IF r \in S THEN Cardinality(S) - 1 ELSE Cardinality(S)
    BY <1>4, FS_AddElement, FS_RemoveElement
  <2>2. bit(r \in S) = IF r \in S THEN 1 ELSE 0
    BY DEF bit
  <2>3. bit(b) = IF b THEN 1 ELSE 0
    BY DEF bit
  <2>4. CASE b
    BY <1>4, <2>1, <2>2, <2>3, <2>4
  <2>5. CASE ~b
    BY <1>4, <2>1, <2>2, <2>3, <2>5
  <2> QED
    BY <2>4, <2>5
<1>5. /\ (r \in holders(c)) = holdsCode(req[r], c)
      /\ (r \in removers(c)) = removesCode(req[r], c)
      /\ holdsCode(s, c) \in BOOLEAN /\ removesCode(s, c) \in BOOLEAN
  BY DEF holders, removers, holdsCode, removesCode
<1> QED
  BY <1>2, <1>3, <1>4, <1>5, Counts

\* The budget of a step within one run of the server.
LEMMA AllowanceGrows ==
    ASSUME IsFiniteSet(Requests), TypeOK, UNCHANGED restarts, faults' \in {faults, faults + 1}
    PROVE  /\ allowance' \in {allowance, allowance + 1}
           /\ faults' = faults + 1 => allowance' = allowance + 1
<1> PICK p \in Nat : p = Cardinality(Requests) * restarts
  BY FS_CardinalityType, ServerAssumption DEF TypeOK, ServerTypeOK
<1>1. faults \in Nat
  BY ServerAssumption DEF TypeOK, ServerTypeOK
<1> QED
  BY <1>1 DEF allowance

-----------------------------------------------------------------------------
(* The three ways a step bears on a code. *)

LEMMA FewerTokens ==
    ASSUME NEW S, IsFiniteSet(S), NEW T, T \subseteq S
    PROVE  /\ IsFiniteSet(T) /\ Cardinality(T) \in Nat
           /\ Cardinality(T) <= Cardinality(S)
BY FS_Subset, FS_CardinalityType

\* It yields no token and takes hold of no code.
LEMMA PlainRedeems ==
    ASSUME IsFiniteSet(Requests), TypeOK, TypeOK', NEW c \in Codes, redeemed(c),
           NEW r \in Requests, NEW s, goto(r, s),
           UNCHANGED restarts, faults' \in {faults, faults + 1},
           redemptions(c)' \subseteq redemptions(c), offered[c] # Nil => offered'[c] # Nil,
           holdsCode(s, c) => holdsCode(req[r], c),
           authorize'[c] # Nil =>
              \/ redemptions(c) = {}
              \/ authorize[c] # Nil /\ (removesCode(req[r], c) => faults' = faults + 1)
    PROVE  redeemed(c)'
<1> PICK N \in Nat : N = Cardinality(redemptions(c)) /\ (redemptions(c) = {} => N = 0)
  BY FS_CardinalityType, FS_EmptySet DEF redeemed
<1> PICK N2 \in Nat : N2 = Cardinality(redemptions(c)') /\ N2 <= N /\ IsFiniteSet(redemptions(c)')
  BY FewerTokens DEF redeemed
<1> PICK H \in Nat, R \in Nat, A \in Nat, K \in Nat :
       /\ H = Cardinality(holders(c)) /\ R = Cardinality(removers(c))
       /\ A = allowance /\ K = Cardinality(Requests)
  BY Counts
<1> PICK H2 \in Nat, R2 \in Nat, A2 \in Nat :
       H2 = Cardinality(holders(c)') /\ R2 = Cardinality(removers(c)') /\ A2 = allowance'
  BY NextCounts
<1>1. /\ H2 + bit(holdsCode(req[r], c)) = H + bit(holdsCode(s, c))
      /\ R2 + bit(removesCode(req[r], c)) = R + bit(removesCode(s, c))
  BY SlotCounts
<1>2. H2 <= H
  BY <1>1 DEF bit
<1>3. R <= R2 \/ (removesCode(req[r], c) /\ R <= R2 + 1)
  BY <1>1 DEF bit
<1>4. A2 \in {A, A + 1} /\ (faults' = faults + 1 => A2 = A + 1)
  BY AllowanceGrows
<1>5. N + H <= K + A /\ (authorize[c] # Nil => N <= R + A)
  BY DEF redeemed
<1>6. N2 + H2 <= K + A2
  BY <1>2, <1>4, <1>5
<1>7. authorize'[c] # Nil => N2 <= R2 + A2
  BY <1>3, <1>4, <1>5
<1> QED
  BY <1>6, <1>7 DEF redeemed

\* It takes hold of the code, which is stored.
LEMMA LoadRedeems ==
    ASSUME IsFiniteSet(Requests), TypeOK, TypeOK', NEW c \in Codes, redeemed(c),
           NEW r \in Requests, NEW s, goto(r, s),
           UNCHANGED restarts, faults' \in {faults, faults + 1},
           redemptions(c)' \subseteq redemptions(c), offered[c] # Nil => offered'[c] # Nil,
           authorize[c] # Nil,
           ~removesCode(req[r], c)
    PROVE  redeemed(c)'
<1> PICK N \in Nat : N = Cardinality(redemptions(c))
  BY FS_CardinalityType DEF redeemed
<1> PICK N2 \in Nat : N2 = Cardinality(redemptions(c)') /\ N2 <= N /\ IsFiniteSet(redemptions(c)')
  BY FewerTokens DEF redeemed
<1> PICK R \in Nat, A \in Nat, K \in Nat :
       R = Cardinality(removers(c)) /\ A = allowance /\ K = Cardinality(Requests)
  BY Counts
<1> PICK H2 \in Nat, R2 \in Nat, A2 \in Nat :
       /\ H2 = Cardinality(holders(c)') /\ R2 = Cardinality(removers(c)') /\ A2 = allowance'
       /\ H2 + R2 <= K
  BY NextCounts
<1>1. R2 + bit(removesCode(req[r], c)) = R + bit(removesCode(s, c))
  BY SlotCounts
<1>2. R <= R2
  BY <1>1 DEF bit
<1>3. A2 \in {A, A + 1}
  BY AllowanceGrows
<1>4. N <= R + A
  BY DEF redeemed
<1>5. N2 + H2 <= K + A2 /\ N2 <= R2 + A2
  BY <1>2, <1>3, <1>4
<1> QED
  BY <1>5 DEF redeemed

\* It yields a token for the code it holds, and goes on to remove the code
\* unless the save reports an error.
LEMMA IssueRedeems ==
    ASSUME IsFiniteSet(Requests), TypeOK, TypeOK', NEW c \in Codes, redeemed(c),
           NEW r \in Requests, NEW s, goto(r, s),
           UNCHANGED restarts, faults' \in {faults, faults + 1},
           NEW token, redemptions(c)' \subseteq redemptions(c) \cup {token}, offered'[c] # Nil,
           holdsCode(req[r], c), ~holdsCode(s, c),
           removesCode(s, c) \/ faults' = faults + 1,
           UNCHANGED authorize
    PROVE  redeemed(c)'
<1> PICK N \in Nat : N = Cardinality(redemptions(c))
  BY FS_CardinalityType DEF redeemed
<1> PICK H \in Nat, R \in Nat, A \in Nat, K \in Nat :
       /\ H = Cardinality(holders(c)) /\ R = Cardinality(removers(c))
       /\ A = allowance /\ K = Cardinality(Requests)
  BY Counts
<1> PICK H2 \in Nat, R2 \in Nat, A2 \in Nat :
       H2 = Cardinality(holders(c)') /\ R2 = Cardinality(removers(c)') /\ A2 = allowance'
  BY NextCounts
<1>1. /\ IsFiniteSet(redemptions(c) \cup {token})
      /\ Cardinality(redemptions(c) \cup {token}) \in {N, N + 1}
  BY FS_AddElement DEF redeemed
<1> PICK N2 \in Nat : N2 = Cardinality(redemptions(c)') /\ N2 <= N + 1 /\ IsFiniteSet(redemptions(c)')
  BY <1>1, FewerTokens
<1>2. /\ H2 + bit(holdsCode(req[r], c)) = H + bit(holdsCode(s, c))
      /\ R2 + bit(removesCode(req[r], c)) = R + bit(removesCode(s, c))
  BY SlotCounts
<1>3. ~removesCode(req[r], c)
  BY DEF holdsCode, removesCode
<1>4. H2 + 1 = H
  BY <1>2 DEF bit
<1>5. R2 = R + bit(removesCode(s, c))
  BY <1>2, <1>3 DEF bit
<1>6. A2 \in {A, A + 1} /\ (faults' = faults + 1 => A2 = A + 1)
  BY AllowanceGrows
<1>7. R + A + 1 <= R2 + A2
  BY <1>5, <1>6 DEF bit
<1>8. N + H <= K + A /\ (authorize[c] # Nil => N <= R + A)
  BY DEF redeemed
<1>9. N2 + H2 <= K + A2
  BY <1>4, <1>6, <1>8
<1>10. authorize'[c] # Nil => N2 <= R2 + A2
  BY <1>7, <1>8
<1> QED
  BY <1>9, <1>10 DEF redeemed

-----------------------------------------------------------------------------
(* One lemma for each kind of step. *)

LEMMA SameRedemptions ==
    ASSUME TypeOK, UNCHANGED granted, NEW r \in Requests, NEW s, goto(r, s), NEW c,
           \A t \in AccessTokens : forces(s, t, c) => t \in redemptions(c)
    PROVE  redemptions(c)' \subseteq redemptions(c)
<1>1. \A q \in Requests : req'[q] = IF q = r THEN s ELSE req[q]
  BY GotoSlots
<1>2. ASSUME NEW t \in AccessTokens, NEW q \in Requests, forces(req'[q], t, c)
      PROVE  t \in redemptions(c)
  BY <1>1, <1>2 DEF redemptions
<1>3. redemptions(c)' =
        {t \in AccessTokens : exchangedFor(t, c) \/ \E q \in Requests : forces(req'[q], t, c)}
  BY DEF redemptions, exchangedFor, isGranted, forces
<1> QED
  BY <1>2, <1>3 DEF redemptions

LEMMA HeldRedeems ==
    ASSUME IsFiniteSet(Requests), RedemptionInv, TypeOK', NEW r \in Requests, NEW c \in Codes,
           UNCHANGED restarts, faults' \in {faults, faults + 1},
           quiet(r) \/ asks(r) \/ loadsToken(r) \/ decides(r)
    PROVE  redeemed(c)'
<1>1. UNCHANGED <<authorize, offered, granted>>
  BY DEF quiet, asks, loadsToken, decides, storeVars
<1>2. ~removesCode(req[r], c)
  BY DEF removesCode, quiet, asks, loadsToken, decides, removing, at
<1>3. ASSUME NEW s, goto(r, s), holdsCode(s, c) => holdsCode(req[r], c),
             \A t \in AccessTokens : forces(s, t, c) => t \in redemptions(c)
      PROVE  redeemed(c)'
  <2>1. redemptions(c)' \subseteq redemptions(c)
    BY <1>1, <1>3, SameRedemptions DEF RedemptionInv, RequestInv
  <2> QED
    BY <1>1, <1>2, <1>3, <2>1, PlainRedeems DEF RedemptionInv, RequestInv
<1>4. c # Nil
  BY GrantsAssumption
<1>5. CASE quiet(r)
  <2>1. PICK s \in Slot : goto(r, s) /\ s.pc \in {"idle", "load", "client", "login", "info"}
    BY <1>5 DEF quiet
  <2> QED
    BY <1>3, <2>1 DEF holdsCode, forces
<1>6. CASE asks(r)
  <2>1. PICK pc \in {"decide", "finish"}, ar \in AccessRequest :
           /\ goto(r, [pc |-> pc, ar |-> ar])
           /\ ar.authorizeData = Nil /\ ar.forceAccessData = Nil
    BY <1>6 DEF asks
  <2> QED
    BY <1>3, <1>4, <2>1 DEF holdsCode, forces
<1>7. CASE loadsToken(r)
  <2>1. PICK data \in AccessData, ar \in AccessRequest :
           ar = refreshRequest(data, req[r].http, req[r].client) /\ goto(r, [pc |-> "decide", ar |-> ar])
    BY <1>7 DEF loadsToken
  <2> QED
    BY <1>3, <1>4, <2>1 DEF holdsCode, forces, refreshRequest
<1>8. CASE decides(r)
  <2>1. PICK force \in {Nil} \cup reusable(req[r].ar), ar \in AccessRequest :
           /\ goto(r, [pc |-> "finish", ar |-> ar])
           /\ ar.authorizeData = req[r].ar.authorizeData /\ ar.forceAccessData = force
    BY <1>8 DEF decides
  <2>2. holdsCode([pc |-> "finish", ar |-> ar], c) => holdsCode(req[r], c)
    BY <1>8, <2>1 DEF holdsCode, decides, at
  <2>3. ASSUME NEW t \in AccessTokens, forces([pc |-> "finish", ar |-> ar], t, c)
        PROVE  t \in redemptions(c)
    <3>1. PICK a \in AccessTokens : access[a] # Nil /\ force = access[a]
      BY <2>1, <2>3 DEF forces, reusable
    <3>2. isGranted(a) /\ force = persisted(granted[a]) /\ granted[a].accessToken = a
      BY <3>1 DEF RedemptionInv, RequestInv, TablesAgree
    <3>3. granted[a] \in AccessData
      BY <3>2 DEF RedemptionInv, RequestInv, TypeOK, StoreTypeOK, isGranted
    <3>4. t = a /\ granted[a].authorizeData = c
      BY <2>1, <2>3, <3>2, <3>3 DEF forces, persisted, AccessData
    <3> QED
      BY <3>2, <3>4 DEF redemptions, exchangedFor
  <2> QED
    BY <1>3, <2>1, <2>2, <2>3
<1> QED
  BY <1>5, <1>6, <1>7, <1>8

LEMMA LoadsCodeRedeems ==
    ASSUME IsFiniteSet(Requests), RedemptionInv, TypeOK', NEW r \in Requests, NEW c \in Codes,
           UNCHANGED restarts, faults' \in {faults, faults + 1}, loadsCode(r)
    PROVE  redeemed(c)'
<1>1. UNCHANGED <<authorize, offered, granted>> /\ ~removesCode(req[r], c)
  BY DEF loadsCode, storeVars, removesCode, at
<1>2. PICK code \in Codes, ar \in AccessRequest :
         /\ authorize[code] \in AuthorizeData
         /\ ar = codeRequest(authorize[code], req[r].http, req[r].client)
         /\ goto(r, [pc |-> "decide", ar |-> ar])
  BY DEF loadsCode
<1>3. authorize[code] # Nil /\ ar.authorizeData = code /\ ar.forceAccessData = Nil
  BY <1>2, RecordsAssumption DEF codeRequest, RedemptionInv, RequestInv, TablesAgree
<1>4. redemptions(c)' \subseteq redemptions(c)
  BY <1>1, <1>2, <1>3, SameRedemptions DEF forces, RedemptionInv, RequestInv
<1>5. CASE c = code
  BY <1>1, <1>2, <1>3, <1>4, <1>5, LoadRedeems DEF RedemptionInv, RequestInv
<1>6. CASE c # code
  <2>1. ~holdsCode([pc |-> "decide", ar |-> ar], c)
    BY <1>3, <1>6 DEF holdsCode
  <2> QED
    BY <1>1, <1>2, <1>4, <2>1, PlainRedeems DEF RedemptionInv, RequestInv
<1> QED
  BY <1>5, <1>6

LEMMA OffersCodeRedeems ==
    ASSUME IsFiniteSet(Requests), RedemptionInv, TypeOK', NEW r \in Requests, NEW c \in Codes,
           UNCHANGED restarts, faults' \in {faults, faults + 1}, offersCode(r)
    PROVE  redeemed(c)'
<1>1. PICK code \in unusedCodes, data \in AuthorizeData :
         SaveAuthorize(data) /\ data = newAuthorizeData(req[r].ar, code)
  BY DEF offersCode
<1>2. data.code = code /\ code \in Codes /\ offered[code] = Nil
  BY <1>1 DEF unusedCodes, newAuthorizeData
<1>3. /\ UNCHANGED granted
      /\ offered[c] # Nil => offered'[c] # Nil
      /\ c # code => authorize'[c] = authorize[c]
  BY <1>1, <1>2, RecordsAssumption
     DEF SaveAuthorize, RedemptionInv, RequestInv, TypeOK, StoreTypeOK
<1>4. c = code => redemptions(c) = {}
  BY <1>2 DEF RedemptionInv, redeemed
<1>5. ~removesCode(req[r], c)
  BY DEF removesCode, offersCode, at
<1>6. PICK s \in Slot : goto(r, s) /\ s.pc = "idle"
  BY DEF offersCode
<1>7. ~holdsCode(s, c) /\ \A t \in AccessTokens : ~forces(s, t, c)
  BY <1>6 DEF holdsCode, forces
<1>8. redemptions(c)' \subseteq redemptions(c)
  BY <1>3, <1>6, <1>7, SameRedemptions DEF RedemptionInv, RequestInv
<1> QED
  BY <1>3, <1>4, <1>5, <1>6, <1>7, <1>8, PlainRedeems DEF RedemptionInv, RequestInv

\* What a save adds to the redemptions of a code.
LEMMA SaveAdds ==
    ASSUME TypeOK, NEW r \in Requests, NEW s, goto(r, s), NEW c, NEW token \in AccessTokens, NEW ret,
           \A t \in AccessTokens : ~forces(s, t, c),
           \A t \in AccessTokens : granted'[t] = IF t = token THEN ret ELSE granted[t]
    PROVE  /\ redemptions(c)' \subseteq redemptions(c) \cup {token}
           /\ ret.authorizeData # c => redemptions(c)' \subseteq redemptions(c)
<1>1. \A q \in Requests : req'[q] = IF q = r THEN s ELSE req[q]
  BY GotoSlots
<1>2. redemptions(c)' =
        {t \in AccessTokens : (granted'[t] # Nil /\ granted'[t].authorizeData = c)
                              \/ \E q \in Requests : forces(req'[q], t, c)}
  BY DEF redemptions, exchangedFor, isGranted, forces
<1>3. ASSUME NEW t \in AccessTokens, NEW q \in Requests, forces(req'[q], t, c)
      PROVE  t \in redemptions(c)
  BY <1>1, <1>3 DEF redemptions
<1>4. ASSUME NEW t \in AccessTokens, t # token, granted'[t] # Nil, granted'[t].authorizeData = c
      PROVE  t \in redemptions(c)
  BY <1>4 DEF redemptions, exchangedFor, isGranted
<1> QED
  BY <1>2, <1>3, <1>4

LEMMA SavesRedeems ==
    ASSUME IsFiniteSet(Requests), RedemptionInv, TypeOK', NEW r \in Requests, NEW c \in Codes,
           UNCHANGED restarts, faults' \in {faults, faults + 1}, saves(r)
    PROVE  redeemed(c)'
<1> PICK ar \in AccessRequest : ar = req[r].ar
  BY DEF saves
<1>1. PICK data \in produced(ar) :
         LET ret == withBinding(data, ar)
         IN  /\ data \in AccessData /\ ret \in AccessData /\ SaveAccess(ret)
             /\ \/ continues(r, "save", ret)
                \/ (\E s \in Slot : goto(r, s) /\ s.pc = "idle") /\ faults' = faults + 1
  BY DEF saves
<1> PICK ret \in AccessData : ret = withBinding(data, ar)
  BY <1>1
<1> PICK token \in AccessTokens : token = ret.accessToken
  BY DEF AccessData
<1>2. /\ UNCHANGED <<authorize, offered>>
      /\ \A t \in AccessTokens : granted'[t] = IF t = token THEN ret ELSE granted[t]
  BY <1>1 DEF SaveAccess, RedemptionInv, RequestInv, TypeOK, StoreTypeOK
<1>3. ~removesCode(req[r], c) /\ req[r].pc = "finish"
  BY DEF saves, at, removesCode
<1>4. PICK s : /\ goto(r, s) /\ ~holdsCode(s, c) /\ \A t \in AccessTokens : ~forces(s, t, c)
               /\ ret.authorizeData = c => removesCode(s, c) \/ faults' = faults + 1
  <2>1. CASE continues(r, "save", ret)
    <3>1. PICK s : /\ goto(r, s)
                   /\ \/ s.pc = "idle" /\ stageAfter("save", ret) = "reply"
                      \/ s = [pc |-> stageAfter("save", ret), ret |-> ret]
      BY <2>1 DEF continues
    <3>2. stageAfter("save", ret) \notin {"decide", "finish"}
      BY DEF stageAfter
    <3>3. ret.authorizeData = c => stageAfter("save", ret) = "rmAuthorize"
      BY GrantsAssumption DEF stageAfter
    <3>4. ~holdsCode(s, c) /\ (ret.authorizeData = c => removesCode(s, c))
      BY <3>1, <3>2, <3>3 DEF holdsCode, removesCode
    <3>5. \A t \in AccessTokens : ~forces(s, t, c)
      BY <3>1, <3>2 DEF forces
    <3> QED
      BY <3>1, <3>4, <3>5
  <2>2. CASE (\E s \in Slot : goto(r, s) /\ s.pc = "idle") /\ faults' = faults + 1
    BY <2>2 DEF holdsCode, forces
  <2> QED
    BY <1>1, <2>1, <2>2
<1>5. /\ redemptions(c)' \subseteq redemptions(c) \cup {token}
      /\ ret.authorizeData # c => redemptions(c)' \subseteq redemptions(c)
  BY <1>2, <1>4, SaveAdds DEF RedemptionInv, RequestInv
<1>6. ASSUME redemptions(c)' \subseteq redemptions(c)
      PROVE  redeemed(c)'
  BY <1>2, <1>3, <1>4, <1>6, PlainRedeems DEF RedemptionInv, RequestInv
<1>7. CASE ret.authorizeData # c
  BY <1>5, <1>6, <1>7
<1>8. CASE ret.authorizeData = c /\ ar.forceAccessData = Nil
  <2>1. ar.authorizeData = c
    BY <1>1, <1>8, ProducedFields
  <2>2. holdsCode(req[r], c)
    BY <1>3, <2>1 DEF holdsCode
  <2>3. offered[c] # Nil
    BY <1>3, <2>1, GrantsAssumption
       DEF RedemptionInv, RequestInv, SlotsChecked, slotChecked, codeChecked
  <2> QED
    BY <1>2, <1>4, <1>5, <1>8, <2>2, <2>3, IssueRedeems DEF RedemptionInv, RequestInv
<1>9. CASE ret.authorizeData = c /\ ar.forceAccessData # Nil
  <2>1. data = ar.forceAccessData
    BY <1>1, <1>9 DEF produced
  <2>2. ret.accessToken = data.accessToken /\ ret.authorizeData = data.authorizeData
    BY <1>1 DEF withBinding, AccessData
  <2>3. forces(req[r], token, c)
    BY <1>3, <1>9, <2>1, <2>2 DEF forces
  <2>4. token \in redemptions(c)
    BY <2>3 DEF redemptions
  <2> QED
    BY <1>5, <1>6, <2>4
<1> QED
  BY <1>7, <1>8, <1>9

LEMMA RemovesRedeems ==
    ASSUME IsFiniteSet(Requests), RedemptionInv, TypeOK', NEW r \in Requests, NEW c \in Codes,
           UNCHANGED restarts, faults' \in {faults, faults + 1}, removes(r)
    PROVE  redeemed(c)'
<1>1. UNCHANGED <<granted, offered>>
  BY DEF removes, RemoveAuthorize, RemoveRefresh, RemoveAccess, storeVars
<1>2. authorize'[c] # Nil => /\ authorize[c] # Nil
                             /\ removesCode(req[r], c) => faults' = faults + 1
  BY DEF removes, RemoveAuthorize, RemoveRefresh, RemoveAccess, storeVars, fail, removesCode, at,
         RedemptionInv, RequestInv, TypeOK, StoreTypeOK
<1>3. PICK s : /\ goto(r, s)
               /\ \/ s.pc = "idle"
                  \/ s = [pc |-> stageAfter(req[r].pc, req[r].ret), ret |-> req[r].ret]
  BY DEF removes, continues
<1>4. ~holdsCode(s, c) /\ \A t \in AccessTokens : ~forces(s, t, c)
  BY <1>3 DEF stageAfter, holdsCode, forces
<1>5. redemptions(c)' \subseteq redemptions(c)
  BY <1>1, <1>3, <1>4, SameRedemptions DEF RedemptionInv, RequestInv
<1> QED
  BY <1>1, <1>2, <1>3, <1>4, <1>5, PlainRedeems DEF RedemptionInv, RequestInv

LEMMA OutsideRedeems ==
    ASSUME RedemptionInv, outside, NEW c \in Codes
    PROVE  redeemed(c)'
BY DEF outside, RedemptionInv, redeemed, redemptions, holders, removers, allowance, exchangedFor,
       isGranted, holdsCode, removesCode, forces

\* A restart cuts off every request, and allows for as many tokens.
LEMMA RestartRedeems ==
    ASSUME IsFiniteSet(Requests), RedemptionInv, TypeOK', Restart, NEW c \in Codes
    PROVE  redeemed(c)'
<1> PICK N \in Nat : N = Cardinality(redemptions(c))
  BY FS_CardinalityType DEF RedemptionInv, redeemed
<1> PICK H \in Nat, R \in Nat, A \in Nat, K \in Nat :
       /\ H = Cardinality(holders(c)) /\ R = Cardinality(removers(c))
       /\ A = allowance /\ K = Cardinality(Requests)
  BY Counts DEF RedemptionInv, RequestInv
<1>1. UNCHANGED <<authorize, offered, granted, faults>> /\ restarts' = restarts + 1
  BY DEF Restart, storeVars
<1>2. redemptions(c)' \subseteq redemptions(c)
  BY <1>1 DEF Restart, noResponse, redemptions, exchangedFor, isGranted, forces
<1> PICK N2 \in Nat : N2 = Cardinality(redemptions(c)') /\ N2 <= N /\ IsFiniteSet(redemptions(c)')
  BY <1>2, FewerTokens DEF RedemptionInv, redeemed
<1>3. holders(c)' = {} /\ removers(c)' = {}
  BY DEF Restart, noResponse, holders, removers, holdsCode, removesCode
<1>4. Cardinality(holders(c)') = 0 /\ Cardinality(removers(c)') = 0
  BY <1>3, FS_EmptySet
<1>5. allowance' = K + A
  <2>1. restarts \in Nat /\ faults \in Nat
    BY ServerAssumption DEF RedemptionInv, RequestInv, TypeOK, ServerTypeOK
  <2>2. K * (restarts + 1) = K * restarts + K
    BY <2>1
  <2>3. K * restarts \in Nat
    BY <2>1
  <2> QED
    BY <1>1, <2>1, <2>2, <2>3 DEF allowance
<1>6. N + H <= K + A
  BY DEF RedemptionInv, redeemed
<1>7. N2 <= K + A
  BY <1>6
<1> QED
  BY <1>1, <1>2, <1>4, <1>5, <1>7 DEF RedemptionInv, redeemed

LEMMA NextRedeems ==
    ASSUME IsFiniteSet(Requests), RedemptionInv, [Next]_vars
    PROVE  RedemptionInv'
<1>1. RequestInv' /\ TypeOK'
  BY NextChecked DEF RedemptionInv, RequestInv
<1>2. outside \/ Restart \/ \E r \in Requests : stepOf(r)
  BY StepKinds DEF RedemptionInv, RequestInv
<1>3. ASSUME NEW r \in Requests, stepOf(r), NEW c \in Codes
      PROVE  redeemed(c)'
  BY <1>1, <1>3, HeldRedeems, LoadsCodeRedeems, OffersCodeRedeems, SavesRedeems, RemovesRedeems
     DEF stepOf
<1> QED
  BY <1>1, <1>2, <1>3, OutsideRedeems, RestartRedeems DEF RedemptionInv

LEMMA InitRedeems ==
    ASSUME IsFiniteSet(Requests), Init
    PROVE  RedemptionInv
<1>1. RequestInv /\ TypeOK
  BY InitChecked DEF RequestInv
<1>2. ASSUME NEW c \in Codes
      PROVE  redeemed(c)
  <2>1. redemptions(c) = {} /\ holders(c) = {}
    BY DEF Init, StoreInit, ServerInit, noResponse, redemptions, exchangedFor, isGranted, holders,
           holdsCode, forces
  <2>2. authorize[c] = Nil
    BY DEF Init, StoreInit
  <2>3. IsFiniteSet(redemptions(c)) /\ Cardinality(redemptions(c)) = 0 /\ Cardinality(holders(c)) = 0
    BY <2>1, FS_EmptySet
  <2> QED
    BY <1>1, <2>1, <2>2, <2>3, Counts DEF redeemed
<1> QED
  BY <1>1, <1>2 DEF RedemptionInv

\* Tokens issued for a code and requests that may still yield one are never
\* more than the requests, failures and restarts account for.
THEOREM RedemptionInvariant ==
    ASSUME IsFiniteSet(Requests)
    PROVE  Spec => []RedemptionInv
<1>1. Init => RedemptionInv
  BY InitRedeems
<1>2. RedemptionInv /\ [Next]_vars => RedemptionInv'
  BY NextRedeems
<1> QED
  BY <1>1, <1>2, PTL DEF Spec

LEMMA RedemptionBound ==
    ASSUME IsFiniteSet(Requests), RedemptionInv
    PROVE  RedemptionsBounded
<1>1. ASSUME NEW c \in Codes
      PROVE  Cardinality({t \in AccessTokens : exchangedFor(t, c)})
                <= Cardinality(Requests) * (1 + restarts) + faults
  <2> DEFINE tokens == {t \in AccessTokens : exchangedFor(t, c)}
  <2>1. tokens \subseteq redemptions(c)
    BY DEF redemptions
  <2> HIDE DEF tokens
  <2> PICK M \in Nat : M = Cardinality(tokens) /\ M <= Cardinality(redemptions(c))
    BY <2>1, FewerTokens DEF RedemptionInv, redeemed
  <2> PICK N \in Nat : N = Cardinality(redemptions(c))
    BY FS_CardinalityType DEF RedemptionInv, redeemed
  <2> PICK H \in Nat, K \in Nat : H = Cardinality(holders(c)) /\ K = Cardinality(Requests)
    BY Counts DEF RedemptionInv, RequestInv
  <2>2. N + H <= K + (K * restarts + faults)
    BY DEF RedemptionInv, redeemed, allowance
  <2>3. restarts \in Nat /\ faults \in Nat
    BY ServerAssumption DEF RedemptionInv, RequestInv, TypeOK, ServerTypeOK
  <2>4. K * (1 + restarts) = K + K * restarts /\ K * restarts \in Nat
    BY <2>3
  <2> QED
    BY <2>2, <2>3, <2>4 DEF tokens
<1> QED
  BY <1>1 DEF RedemptionsBounded

\* A code yields at most one token for each request that can overlap its
\* first redemption, and one more for each failed call and for each request
\* that a restart cut off.
THEOREM RedemptionsStayBounded ==
    ASSUME IsFiniteSet(Requests)
    PROVE  Spec => []RedemptionsBounded
<1>1. RedemptionInv => RedemptionsBounded
  BY RedemptionBound
<1> QED
  BY <1>1, RedemptionInvariant, PTL
=============================================================================
