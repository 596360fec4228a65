-------------------------- MODULE EnrollmentProofs --------------------------
(***************************************************************************)
(* Proofs about Enrollment, for any sets of keys, nonces, codes, refs,     *)
(* clock readings and requests.                                            *)
(***************************************************************************)
EXTENDS Enrollment, TLAPS

(***************************************************************************)
(* The inductive invariant.  SingleUse and SessionAuthorized only need     *)
(* each other and the types.  Possession needs to know where claims come   *)
(* from: every signature in circulation that an identity's key could have  *)
(* made is on a claim that make_claim built.                               *)
(***************************************************************************)
Genuine ==
    \A m \in made : \E key \in Identities, nonce \in Nonces, when \in Times :
                       m = ClaimOf(key, nonce, when)

GrantedOnMadeClaim ==
    \A r \in redemptions :
       /\ r.claim \in made
       /\ r.claim.device_id = r.credential.device_id
       /\ r.claim.nonce = BindingFor(r.code).nonce

BoundToMadeClaim ==
    \A code \in Codes :
       BindingFor(code) # NoBinding =>
          \E m \in made : /\ Verifies(m, BindingFor(code).nonce)
                          /\ m.device_id = BindingFor(code).device_id

IInv ==
    /\ TypeOK
    /\ SingleUse
    /\ SessionAuthorized
    /\ Genuine
    /\ GrantedOnMadeClaim
    /\ BoundToMadeClaim

-----------------------------------------------------------------------------
(***************************************************************************)
(* make_claim builds a well-typed claim that verifies against its nonce.   *)
(***************************************************************************)
LEMMA MadeClaimVerifies ==
    ASSUME NEW key \in Identities, NEW nonce \in Nonces, NEW when \in Times
    PROVE  /\ ClaimOf(key, nonce, when) \in Claims
           /\ Verifies(ClaimOf(key, nonce, when), nonce)
BY KeysAssumption
   DEF ClaimOf, Claims, Signatures, Payloads, DeviceIds, Pems, PemLayouts,
       Identities, LoadsPublicKey, PublicKeyPem, DeviceFingerprint, Sign,
       SigningPayload, Verifies

(***************************************************************************)
(* Unforgeability carries over from signatures to claims: a presented      *)
(* claim that verifies is, field by field, one a device made.              *)
(***************************************************************************)
LEMMA VerifiedClaimWasMade ==
    ASSUME Genuine, made \subseteq Claims, NEW claim \in PresentedClaims,
           NEW nonce, Verifies(claim, nonce)
    PROVE  claim \in made
<1>1. claim.signature.signer \in Identities
  BY KeysAssumption
     DEF Verifies, Sign, Identities, LoadsPublicKey, PublicKeyPem,
         PresentedClaims, Pems, PemLayouts
<1>2. PICK m \in made : claim.signature = m.signature
  BY <1>1, ForeignAssumption DEF PresentedClaims
<1>3. PICK key \in Identities, n \in Nonces, when \in Times :
            m = ClaimOf(key, n, when)
  BY DEF Genuine
<1>4. m.signature.payload = [device_id |-> m.device_id,
          public_key_pem |-> m.public_key_pem, nonce |-> m.nonce,
          claimed_at |-> m.claimed_at]
  BY <1>3 DEF ClaimOf, Sign, SigningPayload
<1>5. claim.signature.payload = [device_id |-> claim.device_id,
          public_key_pem |-> claim.public_key_pem, nonce |-> claim.nonce,
          claimed_at |-> claim.claimed_at]
  BY DEF Verifies, Sign, SigningPayload
<1>6. /\ claim.device_id = m.device_id
      /\ claim.public_key_pem = m.public_key_pem
      /\ claim.nonce = m.nonce
      /\ claim.claimed_at = m.claimed_at
  BY <1>2, <1>4, <1>5
<1>7. m \in Claims
  OBVIOUS
<1>8. claim = m
  BY <1>2, <1>6, <1>7 DEF PresentedClaims, Claims
<1> QED
  BY <1>8

-----------------------------------------------------------------------------
\* An empty registry satisfies the inductive invariant.
LEMMA InitIInv == Init => IInv
BY DEF Init, IInv, TypeOK, SingleUse, SessionAuthorized, Genuine,
       GrantedOnMadeClaim, BoundToMadeClaim, BindingFor, Hashes, Redeemed

\* HashCode is injective: the code is the second component.
LEMMA HashInjective ==
    ASSUME NEW c1 \in Codes, NEW c2 \in Codes, HashCode(c1) = HashCode(c2)
    PROVE  c1 = c2
BY DEF HashCode

\* make_claim only adds a verifying claim, which disturbs no binding.
LEMMA MakeClaimIInv ==
    ASSUME IInv, NEW key \in Identities, NEW nonce \in Nonces,
           MakeClaim(key, nonce)
    PROVE  IInv'
<1> DEFINE new == ClaimOf(key, nonce, clock)
<1>1. clock \in Times
  BY DEF IInv, TypeOK
<1>2. new \in Claims /\ Verifies(new, nonce)
  BY <1>1, MadeClaimVerifies
<1>3. made' = made \cup {new} /\ UNCHANGED <<clock, bindings, redemptions, lost>>
  BY DEF MakeClaim
<1> HIDE DEF new
<1>4. TypeOK'
  BY <1>2, <1>3 DEF IInv, TypeOK
<1>5. SingleUse' /\ SessionAuthorized'
  BY <1>3 DEF IInv, SingleUse, SessionAuthorized, BindingFor, Redeemed
<1>6. Genuine'
  BY <1>1, <1>3 DEF IInv, Genuine, new
<1>7. GrantedOnMadeClaim'
  BY <1>3 DEF IInv, GrantedOnMadeClaim, BindingFor
<1>8. BoundToMadeClaim'
  BY <1>3 DEF IInv, BoundToMadeClaim, BindingFor
<1> QED
  BY <1>4, <1>5, <1>6, <1>7, <1>8 DEF IInv

\* What issue() stores is a binding.
LEMMA NewBindingTyped ==
    ASSUME TypeOK, NEW code \in Codes, NEW request \in IssueRequests,
           NEW claim \in PresentedClaims, Issue(code, claim, request)
    PROVE  NewBinding(code, claim, request) \in Bindings
<1>1. request.artifact_refs \in Seq(Refs)
  <2>1. request.artifact_refs \in Seq(Refs \cup {Empty})
    BY RequestsAssumption DEF Arguments
  <2>2. \A i \in 1 .. Len(request.artifact_refs) :
           request.artifact_refs[i] \in Refs
    BY <2>1 DEF Issue, WellFormed
  <2> QED
    BY <2>1, <2>2
<1>2. /\ request.purpose \in Purposes
      /\ request.release_set_ref \in Refs
      /\ request.boot_release_set_ref \in Refs
      /\ request.ttl_seconds \in Int
  BY RequestsAssumption DEF Issue, WellFormed, Arguments
<1>3. claim.device_id \in DeviceIds /\ claim.nonce \in Nonces
  BY DEF PresentedClaims
<1>4. clock \in Times /\ clock \in Int
  BY TimesAssumption DEF TypeOK
<1>5. HashCode(code) \in Hashes
  BY DEF Hashes
<1> QED
  BY <1>1, <1>2, <1>3, <1>4, <1>5 DEF Bindings, NewBinding

\* issue() fills a free slot with an unspent binding for a made claim.
LEMMA IssueIInv ==
    ASSUME IInv, NEW code \in Codes, NEW request \in IssueRequests,
           NEW claim \in PresentedClaims, Issue(code, claim, request)
    PROVE  IInv'
<1> DEFINE h == HashCode(code)
           b == NewBinding(code, claim, request)
<1>1. /\ BindingFor(code) = NoBinding
      /\ bindings' = [bindings EXCEPT ![h] = b]
      /\ UNCHANGED <<clock, made, redemptions, lost>>
  BY DEF Issue
<1>2. h \in Hashes
  BY DEF Hashes
<1>3. b \in Bindings
  BY NewBindingTyped DEF IInv
<1>4. /\ b.code_hash = h
      /\ b.remaining_uses = 1
      /\ b.nonce = claim.nonce
      /\ b.device_id = claim.device_id
  BY DEF NewBinding
<1> HIDE DEF h, b
<1>5. TypeOK'
  BY <1>1, <1>2, <1>3, <1>4 DEF IInv, TypeOK
<1>6. /\ bindings'[h] = b
      /\ b # NoBinding
      /\ \A c \in Codes : c # code => bindings'[HashCode(c)] = bindings[HashCode(c)]
  BY <1>1, <1>2, <1>3, HashInjective, NoBindingAssumption
     DEF IInv, TypeOK, h, Hashes
<1>7. \A r \in redemptions : r.code \in Codes /\ r.code # code
  BY <1>1 DEF IInv, TypeOK, Redemptions, SessionAuthorized
<1>8. SingleUse'
  <2>1. code \notin Redeemed \cup lost
    BY <1>1 DEF IInv, SingleUse
  <2>2. (Redeemed \cup lost)' = Redeemed \cup lost
    BY <1>1 DEF Redeemed
  <2>3. ASSUME NEW c \in Codes
        PROVE  IF bindings'[HashCode(c)] = NoBinding
               THEN c \notin Redeemed \cup lost
               ELSE bindings'[HashCode(c)].remaining_uses =
                       IF c \in Redeemed \cup lost THEN 0 ELSE 1
    <3>1. CASE c = code
      BY <3>1, <1>4, <1>6, <2>1 DEF h
    <3>2. CASE c # code
      BY <3>2, <1>6 DEF IInv, SingleUse, BindingFor
    <3> QED
      BY <3>1, <3>2
  <2> QED
    BY <1>1, <2>2, <2>3 DEF IInv, SingleUse, BindingFor, Redeemed
<1>9. SessionAuthorized'
  BY <1>1, <1>6, <1>7 DEF IInv, SessionAuthorized, GrantsWhatWasIssued, BindingFor
<1>10. Genuine'
  BY <1>1 DEF IInv, Genuine
<1>11. GrantedOnMadeClaim'
  BY <1>1, <1>6, <1>7 DEF IInv, GrantedOnMadeClaim, BindingFor
<1>12. BoundToMadeClaim'
  <2>1. claim \in made /\ Verifies(claim, claim.nonce)
    BY VerifiedClaimWasMade DEF Issue, IInv, TypeOK
  <2>2. ASSUME NEW c \in Codes, bindings'[HashCode(c)] # NoBinding
        PROVE  \E m \in made : /\ Verifies(m, bindings'[HashCode(c)].nonce)
                               /\ m.device_id = bindings'[HashCode(c)].device_id
    <3>1. CASE c = code
      BY <3>1, <2>1, <1>4, <1>6 DEF h
    <3>2. CASE c # code
      BY <3>2, <2>2, <1>6 DEF IInv, BoundToMadeClaim, BindingFor
    <3> QED
      BY <3>1, <3>2
  <2> QED
    BY <2>2, <1>1 DEF BoundToMadeClaim, BindingFor
<1> QED
  BY <1>5, <1>8, <1>9, <1>10, <1>11, <1>12 DEF IInv

\* Spending takes the one use and leaves every other field as it is.
LEMMA SpentFacts ==
    ASSUME NEW b \in Bindings, b.remaining_uses = 1
    PROVE  /\ Spent(b) \in Bindings
           /\ Spent(b).remaining_uses = 0
           /\ Spent(b).code_hash = b.code_hash
           /\ Spent(b).nonce = b.nonce
           /\ Spent(b).device_id = b.device_id
           /\ Spent(b).purpose = b.purpose
           /\ Spent(b).release_set_ref = b.release_set_ref
           /\ Spent(b).boot_release_set_ref = b.boot_release_set_ref
           /\ Spent(b).artifact_refs = b.artifact_refs
           /\ Spent(b).expires_at = b.expires_at
           /\ Spent(b) = [b EXCEPT !.remaining_uses = 0]
BY DEF Spent, Bindings

\* What redeem() knows of the binding once its checks have passed.
LEMMA RedeemFacts ==
    ASSUME IInv, NEW code \in Codes, NEW ref, NEW claim,
           Redeemable(code, claim, ref)
    PROVE  /\ BindingFor(code) \in Bindings
           /\ BindingFor(code) # NoBinding
           /\ BindingFor(code).code_hash = HashCode(code)
           /\ BindingFor(code).remaining_uses = 1
           /\ clock < BindingFor(code).expires_at
           /\ Verifies(claim, BindingFor(code).nonce)
           /\ claim.device_id = BindingFor(code).device_id
<1> DEFINE b == BindingFor(code)
<1>1. /\ b # NoBinding /\ ~IsSpent(b) /\ ~Expired(b, clock)
      /\ Verifies(claim, b.nonce) /\ claim.device_id = b.device_id
  BY DEF Redeemable, Accepts
<1>2. HashCode(code) \in Hashes /\ b = bindings[HashCode(code)]
  BY DEF Hashes, BindingFor
<1> HIDE DEF b
<1>3. b \in Bindings /\ b.code_hash = HashCode(code)
  BY <1>1, <1>2 DEF IInv, TypeOK
<1>4. b.remaining_uses = 1
  BY <1>1 DEF b, IInv, SingleUse, IsSpent
<1>5. clock < b.expires_at
  BY <1>1, <1>3, TimesAssumption DEF Expired, IInv, TypeOK, Bindings
<1> QED
  BY <1>1, <1>3, <1>4, <1>5 DEF b

\* redeem() adds one redemption and takes the use it stands for.
LEMMA RedeemIInv ==
    ASSUME IInv, NEW code \in Codes, NEW ref \in Refs, NEW sid \in SessionIds,
           NEW ttl \in SessionTTLs, NEW claim \in PresentedClaims,
           Redeem(code, claim, ref, sid, ttl)
    PROVE  IInv'
<1> DEFINE h    == HashCode(code)
           b    == BindingFor(code)
           cred == NewCredential(sid, b, ttl, clock)
           new  == [code |-> code, claim |-> claim, credential |-> cred]
<1>1. h \in Hashes /\ b = bindings[h]
  BY DEF Hashes, BindingFor
<1>2. /\ b \in Bindings
      /\ b # NoBinding
      /\ b.code_hash = h
      /\ b.remaining_uses = 1
      /\ clock < b.expires_at
      /\ Verifies(claim, b.nonce)
      /\ claim.device_id = b.device_id
  BY RedeemFacts DEF Redeem
<1>3. /\ bindings' = [bindings EXCEPT ![h] = Spent(b)]
      /\ redemptions' = redemptions \cup {new}
      /\ UNCHANGED <<clock, made, lost>>
  BY <1>2 DEF Redeem
<1>4. claim \in made /\ claim \in Claims /\ claim.nonce = b.nonce
  BY <1>2, VerifiedClaimWasMade DEF IInv, TypeOK, Verifies
<1>5. Spent(b) \in Bindings
  BY <1>2, SpentFacts
<1>6. cred \in Credentials
  BY <1>2, TimesAssumption, SessionTTLAssumption
     DEF IInv, TypeOK, NewCredential, Bindings, Credentials
<1>7. GrantsWhatWasIssued(Spent(b), cred)
  BY <1>2, SpentFacts DEF GrantsWhatWasIssued, NewCredential
<1>8. /\ Spent(b).nonce = b.nonce
      /\ Spent(b).device_id = b.device_id
      /\ Spent(b).code_hash = h
      /\ Spent(b).remaining_uses = 0
      /\ cred.device_id = b.device_id
  BY <1>2, SpentFacts DEF NewCredential
<1>9. /\ new \in Redemptions
      /\ new.code = code /\ new.claim = claim /\ new.credential = cred
  BY <1>4, <1>6 DEF Redemptions
<1>10. /\ code \notin Redeemed \cup lost
       /\ \A r \in redemptions : r.code \in Codes /\ r.code # code
  <2>1. code \notin Redeemed \cup lost
    BY <1>2 DEF IInv, SingleUse
  <2> QED
    BY <2>1 DEF IInv, TypeOK, Redemptions, Redeemed
<1> HIDE DEF h, b, cred, new
<1>11. /\ bindings'[h] = Spent(b)
       /\ Spent(b) # NoBinding
       /\ \A c \in Codes : c # code => bindings'[HashCode(c)] = bindings[HashCode(c)]
  BY <1>1, <1>3, <1>5, HashInjective, NoBindingAssumption
     DEF IInv, TypeOK, h, Hashes
<1>12. TypeOK'
  BY <1>1, <1>3, <1>5, <1>8, <1>9 DEF IInv, TypeOK
<1>13. SingleUse'
  <2>1. (\A r1, r2 \in redemptions : r1.code = r2.code => r1 = r2)'
    BY <1>3, <1>9, <1>10 DEF IInv, SingleUse
  <2>2. Redeemed' = Redeemed \cup {code} /\ lost' = lost
    BY <1>3, <1>9 DEF Redeemed
  <2>3. ASSUME NEW c \in Codes
        PROVE  IF bindings'[HashCode(c)] = NoBinding
               THEN c \notin Redeemed' \cup lost'
               ELSE bindings'[HashCode(c)].remaining_uses =
                       IF c \in Redeemed' \cup lost' THEN 0 ELSE 1
    <3>1. CASE c = code
      BY <3>1, <1>8, <1>11, <2>2 DEF h
    <3>2. CASE c # code
      BY <3>2, <1>11, <2>2 DEF IInv, SingleUse, BindingFor
    <3> QED
      BY <3>1, <3>2
  <2>4. Redeemed' \cap lost' = {}
    BY <1>10, <2>2 DEF IInv, SingleUse
  <2> QED
    BY <2>1, <2>3, <2>4 DEF SingleUse, BindingFor
<1>14. SessionAuthorized'
  <2>1. ASSUME NEW r \in redemptions'
        PROVE  /\ bindings'[HashCode(r.code)] # NoBinding
               /\ GrantsWhatWasIssued(bindings'[HashCode(r.code)], r.credential)
    <3>1. CASE r = new
      BY <3>1, <1>7, <1>9, <1>11 DEF h
    <3>2. CASE r \in redemptions
      BY <3>2, <1>10, <1>11 DEF IInv, SessionAuthorized, BindingFor
    <3> QED
      BY <3>1, <3>2, <1>3
  <2> QED
    BY <2>1 DEF SessionAuthorized, BindingFor, GrantsWhatWasIssued
<1>15. Genuine'
  BY <1>3 DEF IInv, Genuine
<1>16. GrantedOnMadeClaim'
  <2>1. ASSUME NEW r \in redemptions'
        PROVE  /\ r.claim \in made
               /\ r.claim.device_id = r.credential.device_id
               /\ r.claim.nonce = bindings'[HashCode(r.code)].nonce
    <3>1. CASE r = new
      BY <3>1, <1>2, <1>4, <1>8, <1>9, <1>11 DEF h
    <3>2. CASE r \in redemptions
      BY <3>2, <1>10, <1>11 DEF IInv, GrantedOnMadeClaim, BindingFor
    <3> QED
      BY <3>1, <3>2, <1>3
  <2> QED
    BY <2>1, <1>3 DEF GrantedOnMadeClaim, BindingFor
<1>17. BoundToMadeClaim'
  <2>1. ASSUME NEW c \in Codes, bindings'[HashCode(c)] # NoBinding
        PROVE  \E m \in made : /\ Verifies(m, bindings'[HashCode(c)].nonce)
                               /\ m.device_id = bindings'[HashCode(c)].device_id
    <3>1. CASE c = code
      BY <3>1, <1>2, <1>4, <1>8, <1>11 DEF h
    <3>2. CASE c # code
      BY <3>2, <2>1, <1>11 DEF IInv, BoundToMadeClaim, BindingFor
    <3> QED
      BY <3>1, <3>2
  <2> QED
    BY <2>1, <1>3 DEF BoundToMadeClaim, BindingFor
<1> QED
  BY <1>12, <1>13, <1>14, <1>15, <1>16, <1>17 DEF IInv

\* redeem() that overflows takes the use of its code, and grants nothing.
LEMMA OverflowIInv ==
    ASSUME IInv, NEW code \in Codes, NEW ref \in Refs, NEW ttl \in SessionTTLs,
           NEW claim \in PresentedClaims, RedeemOverflows(code, claim, ref, ttl)
    PROVE  IInv'
<1> DEFINE h == HashCode(code)
           b == BindingFor(code)
<1>1. h \in Hashes /\ b = bindings[h]
  BY DEF Hashes, BindingFor
<1>2. /\ b \in Bindings
      /\ b # NoBinding
      /\ b.code_hash = h
      /\ b.remaining_uses = 1
  BY RedeemFacts DEF RedeemOverflows
<1>3. /\ bindings' = [bindings EXCEPT ![h] = Spent(b)]
      /\ lost' = lost \cup {code}
      /\ UNCHANGED <<clock, made, redemptions>>
  BY <1>2 DEF RedeemOverflows
<1>4. /\ Spent(b) \in Bindings
      /\ Spent(b).nonce = b.nonce
      /\ Spent(b).device_id = b.device_id
      /\ Spent(b).code_hash = h
      /\ Spent(b).remaining_uses = 0
  BY <1>2, SpentFacts
<1>5. /\ code \notin Redeemed \cup lost
      /\ \A r \in redemptions : r.code \in Codes /\ r.code # code
  <2>1. code \notin Redeemed \cup lost
    BY <1>2 DEF IInv, SingleUse
  <2> QED
    BY <2>1 DEF IInv, TypeOK, Redemptions, Redeemed
<1> HIDE DEF h, b
<1>6. /\ bindings'[h] = Spent(b)
      /\ Spent(b) # NoBinding
      /\ \A c \in Codes : c # code => bindings'[HashCode(c)] = bindings[HashCode(c)]
  BY <1>1, <1>3, <1>4, HashInjective, NoBindingAssumption
     DEF IInv, TypeOK, h, Hashes
<1>7. TypeOK'
  BY <1>1, <1>3, <1>4 DEF IInv, TypeOK
<1>8. SingleUse'
  <2>1. Redeemed' = Redeemed
    BY <1>3 DEF Redeemed
  <2>2. ASSUME NEW c \in Codes
        PROVE  IF bindings'[HashCode(c)] = NoBinding
               THEN c \notin Redeemed \cup lost'
               ELSE bindings'[HashCode(c)].remaining_uses =
                       IF c \in Redeemed \cup lost' THEN 0 ELSE 1
    <3>1. CASE c = code
      BY <3>1, <1>3, <1>4, <1>6 DEF h
    <3>2. CASE c # code
      BY <3>2, <1>3, <1>6 DEF IInv, SingleUse, BindingFor
    <3> QED
      BY <3>1, <3>2
  <2>3. Redeemed \cap lost' = {}
    BY <1>3, <1>5 DEF IInv, SingleUse
  <2> QED
    BY <1>3, <2>1, <2>2, <2>3 DEF IInv, SingleUse, BindingFor
<1>9. SessionAuthorized' /\ GrantedOnMadeClaim'
  BY <1>3, <1>5, <1>6
     DEF IInv, SessionAuthorized, GrantsWhatWasIssued, GrantedOnMadeClaim, BindingFor
<1>10. Genuine'
  BY <1>3 DEF IInv, Genuine
<1>11. BoundToMadeClaim'
  <2>1. ASSUME NEW c \in Codes, bindings'[HashCode(c)] # NoBinding
        PROVE  \E m \in made : /\ Verifies(m, bindings'[HashCode(c)].nonce)
                               /\ m.device_id = bindings'[HashCode(c)].device_id
    <3>1. CASE c = code
      BY <3>1, <1>1, <1>2, <1>4, <1>6 DEF IInv, BoundToMadeClaim, BindingFor, h
    <3>2. CASE c # code
      BY <3>2, <2>1, <1>6 DEF IInv, BoundToMadeClaim, BindingFor
    <3> QED
      BY <3>1, <3>2
  <2> QED
    BY <2>1, <1>3 DEF BoundToMadeClaim, BindingFor
<1> QED
  BY <1>7, <1>8, <1>9, <1>10, <1>11 DEF IInv

(***************************************************************************)
(* The inductive invariant holds in every reachable state.                 *)
(***************************************************************************)
LEMMA Invariance == Spec => []IInv
<1>1. IInv /\ [Next]_vars => IInv'
  <2> SUFFICES ASSUME IInv, [Next]_vars PROVE IInv'
    OBVIOUS
  <2>1. CASE SetClock
    <3>1. clock' \in Times /\ UNCHANGED <<made, bindings, redemptions, lost>>
      BY <2>1 DEF SetClock
    <3> QED
      BY <3>1 DEF IInv, TypeOK, SingleUse, SessionAuthorized, Genuine,
                  GrantedOnMadeClaim, BoundToMadeClaim, BindingFor, Redeemed
  <2>2. CASE \E key \in Identities, nonce \in Nonces : MakeClaim(key, nonce)
    BY <2>2, MakeClaimIInv
  <2>3. CASE \E code \in Codes, request \in IssueRequests,
                claim \in PresentedClaims : Issue(code, claim, request)
    BY <2>3, IssueIInv
  <2>4. CASE \E code \in Codes, ref \in Refs, sid \in SessionIds,
                ttl \in SessionTTLs, claim \in PresentedClaims :
                Redeem(code, claim, ref, sid, ttl)
    BY <2>4, RedeemIInv
  <2>5. CASE \E code \in Codes, ref \in Refs, ttl \in SessionTTLs,
                claim \in PresentedClaims : RedeemOverflows(code, claim, ref, ttl)
    BY <2>5, OverflowIInv
  <2>6. CASE UNCHANGED vars
    BY <2>6 DEF vars, IInv, TypeOK, SingleUse, SessionAuthorized, Genuine,
                GrantedOnMadeClaim, BoundToMadeClaim, BindingFor, Redeemed
  <2> QED
    BY <2>1, <2>2, <2>3, <2>4, <2>5, <2>6 DEF Next
<1> QED
  BY <1>1, InitIInv, PTL DEF Spec

(***************************************************************************)
(* The registry's state stays well typed, and each binding stays under the *)
(* hash that redeem() writes it back to (enrollment.py:125, 167).          *)
(***************************************************************************)
THEOREM TypeCorrect == Spec => []TypeOK
<1>1. IInv => TypeOK
  BY DEF IInv
<1> QED
  BY <1>1, Invariance, PTL

(***************************************************************************)
(* No sequence of claims, issues, redemptions, overflows and clock changes *)
(* redeems a code twice, or redeems one whose use was lost, and a use is   *)
(* gone only if it did one of the two (enrollment.py:150-178).             *)
(***************************************************************************)
THEOREM CodesAreSingleUse == Spec => []SingleUse
<1>1. IInv => SingleUse
  BY DEF IInv
<1> QED
  BY <1>1, Invariance, PTL

(***************************************************************************)
(* Every credential carries exactly the authority of its code and was      *)
(* granted before the code expired (enrollment.py:150-178).                *)
(***************************************************************************)
THEOREM SessionsAreAuthorized == Spec => []SessionAuthorized
<1>1. IInv => SessionAuthorized
  BY DEF IInv
<1> QED
  BY <1>1, Invariance, PTL

(***************************************************************************)
(* Every credential was obtained with a claim that the bound device signed *)
(* for the bound nonce (device.py:225-256, enrollment.py:157-164).         *)
(***************************************************************************)
THEOREM SessionsProvePossession == Spec => []SessionPossession
<1>1. IInv => SessionPossession
  BY DEF IInv, GrantedOnMadeClaim, SessionPossession
<1> QED
  BY <1>1, Invariance, PTL

(***************************************************************************)
(* A live code can be redeemed by its device with a claim that exists      *)
(* already (enrollment.py:106-124).                                        *)
(***************************************************************************)
THEOREM OwnersCanRedeem == Spec => []OwnerCanRedeem
<1>1. IInv => OwnerCanRedeem
  BY DEF IInv, BoundToMadeClaim, OwnerCanRedeem, Redeemable, Accepts
<1> QED
  BY <1>1, Invariance, PTL

(***************************************************************************)
(* What a step does to the registry: nothing, a first binding for a code,  *)
(* or the one use of a binding taken, for one redemption or for none.      *)
(***************************************************************************)
LEMMA RegistryStep ==
    ASSUME IInv, [Next]_vars
    PROVE  \/ UNCHANGED <<bindings, redemptions, lost>>
           \/ \E code \in Codes, b \in Bindings :
                 /\ bindings[HashCode(code)] = NoBinding
                 /\ b.remaining_uses = 1
                 /\ bindings' = [bindings EXCEPT ![HashCode(code)] = b]
                 /\ UNCHANGED <<redemptions, lost>>
           \/ \E code \in Codes, b \in Bindings, r \in Redemptions :
                 /\ b = bindings[HashCode(code)]
                 /\ b.remaining_uses = 1
                 /\ bindings' = [bindings EXCEPT ![HashCode(code)] = Spent(b)]
                 /\ r.code = code
                 /\ r.credential.device_id = b.device_id
                 /\ redemptions' = redemptions \cup {r}
                 /\ lost' = lost
           \/ \E code \in Codes, b \in Bindings :
                 /\ b = bindings[HashCode(code)]
                 /\ b.remaining_uses = 1
                 /\ bindings' = [bindings EXCEPT ![HashCode(code)] = Spent(b)]
                 /\ lost' = lost \cup {code}
                 /\ redemptions' = redemptions
<1>1. CASE SetClock \/ UNCHANGED vars
  BY <1>1 DEF SetClock, vars
<1>2. CASE \E key \in Identities, nonce \in Nonces : MakeClaim(key, nonce)
  BY <1>2 DEF MakeClaim
<1>3. CASE \E code \in Codes, request \in IssueRequests,
              claim \in PresentedClaims : Issue(code, claim, request)
  <2>1. PICK code \in Codes, request \in IssueRequests,
             claim \in PresentedClaims : Issue(code, claim, request)
    BY <1>3
  <2> DEFINE b == NewBinding(code, claim, request)
  <2>2. /\ bindings[HashCode(code)] = NoBinding
        /\ bindings' = [bindings EXCEPT ![HashCode(code)] = b]
        /\ UNCHANGED <<redemptions, lost>>
    BY <2>1 DEF Issue, BindingFor
  <2>3. b \in Bindings
    BY <2>1, NewBindingTyped DEF IInv
  <2>4. b.remaining_uses = 1
    BY DEF NewBinding
  <2> QED
    BY <2>2, <2>3, <2>4
<1>4. CASE \E code \in Codes, ref \in Refs, sid \in SessionIds,
              ttl \in SessionTTLs, claim \in PresentedClaims :
              Redeem(code, claim, ref, sid, ttl)
  <2>1. PICK code \in Codes, ref \in Refs, sid \in SessionIds,
             ttl \in SessionTTLs, claim \in PresentedClaims :
             Redeem(code, claim, ref, sid, ttl)
    BY <1>4
  <2> DEFINE b == bindings[HashCode(code)]
             r == [code |-> code, claim |-> claim,
                   credential |-> NewCredential(sid, b, ttl, clock)]
  <2>2. b \in Bindings /\ b.remaining_uses = 1 /\ b.code_hash = HashCode(code)
    BY <2>1, RedeemFacts DEF BindingFor, Redeem
  <2>3. /\ bindings' = [bindings EXCEPT ![HashCode(code)] = Spent(b)]
        /\ redemptions' = redemptions \cup {r}
        /\ lost' = lost
    BY <2>1, <2>2 DEF Redeem, BindingFor
  <2>4. IInv'
    BY <2>1, RedeemIInv
  <2>5. r \in Redemptions
    BY <2>3, <2>4 DEF IInv, TypeOK
  <2>6. r.code = code /\ r.credential.device_id = b.device_id
    BY DEF NewCredential
  <2> QED
    BY <2>2, <2>3, <2>5, <2>6
<1>5. CASE \E code \in Codes, ref \in Refs, ttl \in SessionTTLs,
              claim \in PresentedClaims : RedeemOverflows(code, claim, ref, ttl)
  <2>1. PICK code \in Codes, ref \in Refs, ttl \in SessionTTLs,
             claim \in PresentedClaims : RedeemOverflows(code, claim, ref, ttl)
    BY <1>5
  <2> DEFINE b == bindings[HashCode(code)]
  <2>2. b \in Bindings /\ b.remaining_uses = 1 /\ b.code_hash = HashCode(code)
    BY <2>1, RedeemFacts DEF BindingFor, RedeemOverflows
  <2>3. /\ bindings' = [bindings EXCEPT ![HashCode(code)] = Spent(b)]
        /\ lost' = lost \cup {code} /\ redemptions' = redemptions
    BY <2>1, <2>2 DEF RedeemOverflows, BindingFor
  <2> QED
    BY <2>2, <2>3
<1> QED
  BY <1>1, <1>2, <1>3, <1>4, <1>5 DEF Next

(***************************************************************************)
(* No step drops, re-arms or rebinds a stored binding: the only change is  *)
(* that its single use goes away (enrollment.py:125, 167).                 *)
(***************************************************************************)
THEOREM BindingsAreImmutable == Spec => BindingImmutable
<1> DEFINE Keeps(h) == bindings[h] # NoBinding =>
             \/ bindings'[h] = bindings[h]
             \/ /\ ~IsSpent(bindings[h])
                /\ bindings'[h] = [bindings[h] EXCEPT !.remaining_uses = 0]
<1>1. ASSUME IInv, [Next]_vars, NEW h \in Hashes PROVE Keeps(h)
  <2>1. CASE bindings' = bindings
    BY <2>1
  <2>2. CASE \E code \in Codes, b \in Bindings :
                /\ bindings[HashCode(code)] = NoBinding
                /\ bindings' = [bindings EXCEPT ![HashCode(code)] = b]
    BY <1>1, <2>2 DEF IInv, TypeOK
  <2>3. CASE \E code \in Codes, b \in Bindings :
                /\ b = bindings[HashCode(code)]
                /\ b.remaining_uses = 1
                /\ bindings' = [bindings EXCEPT ![HashCode(code)] = Spent(b)]
    <3>1. PICK code \in Codes, b \in Bindings :
                /\ b = bindings[HashCode(code)]
                /\ b.remaining_uses = 1
                /\ bindings' = [bindings EXCEPT ![HashCode(code)] = Spent(b)]
      BY <2>3
    <3>2. Spent(b) = [b EXCEPT !.remaining_uses = 0]
      BY <3>1, SpentFacts
    <3>3. ~IsSpent(b)
      BY <3>1 DEF IsSpent
    <3>4. CASE h = HashCode(code)
      <4>1. bindings'[h] = Spent(b)
        BY <1>1, <3>1, <3>4 DEF IInv, TypeOK
      <4> QED
        BY <3>1, <3>2, <3>3, <3>4, <4>1, Zenon
    <3>5. CASE h # HashCode(code)
      <4>1. bindings'[h] = bindings[h]
        BY <1>1, <3>1, <3>5 DEF IInv, TypeOK
      <4> QED
        BY <4>1, Zenon
    <3> QED
      BY <3>4, <3>5
  <2> QED
    BY <1>1, <2>1, <2>2, <2>3, RegistryStep
<1>2. IInv /\ [Next]_vars => [\A h \in Hashes : Keeps(h)]_vars
  BY <1>1
<1> QED
  BY <1>2, Invariance, PTL DEF Spec, BindingImmutable

(***************************************************************************)
(* The registry implements the one-time code: with the mapping of          *)
(* Enrollment, a first binding is a HandOut, a use taken for a credential  *)
(* a Grant, a use lost to an overflow a Void, and every other step a       *)
(* stutter (enrollment.py:78-178).                                         *)
(***************************************************************************)
THEOREM RegistryImplementsOneTimeCode == Spec => ImplementsOneTimeCode
<1>1. Init => OTC!CodeInit
  <2> SUFFICES ASSUME Init PROVE OTC!CodeInit
    OBVIOUS
  <2>1. \A c \in Codes : BindingFor(c) = NoBinding
    BY DEF Init, BindingFor, Hashes
  <2>2. redemptions = {}
    BY DEF Init
  <2> QED
    BY <2>1, <2>2 DEF OTC!CodeInit, CodeStatus, CodeHolder, CodeGrants
<1>2. ASSUME IInv, [Next]_vars
      PROVE  [OTC!CodeNext]_(OTC!codeVars)
  <2>1. CASE UNCHANGED <<bindings, redemptions, lost>>
    BY <2>1 DEF OTC!codeVars, CodeStatus, CodeHolder, CodeGrants, BindingFor
  <2>2. ASSUME NEW code \in Codes, NEW b \in Bindings,
               bindings[HashCode(code)] = NoBinding,
               b.remaining_uses = 1,
               bindings' = [bindings EXCEPT ![HashCode(code)] = b],
               UNCHANGED <<redemptions, lost>>
        PROVE  OTC!CodeNext
    <3>1. b # NoBinding /\ ~IsSpent(b) /\ b.device_id \in DeviceIds
      BY <2>2, NoBindingAssumption DEF IsSpent, Bindings
    <3>2. /\ BindingFor(code) = NoBinding
          /\ BindingFor(code)' = b
          /\ \A c \in Codes \ {code} : BindingFor(c)' = BindingFor(c)
      BY <1>2, <2>2, HashInjective DEF IInv, TypeOK, BindingFor, Hashes
    <3>3. CodeStatus[code] = "fresh"
      BY <3>2 DEF CodeStatus
    <3>4. CodeStatus' = [CodeStatus EXCEPT ![code] = "issued"]
      <4>1. \A c \in Codes :
               CodeStatus'[c] = IF c = code THEN "issued" ELSE CodeStatus[c]
        BY <2>2, <3>1, <3>2 DEF CodeStatus
      <4> QED
        BY <4>1 DEF CodeStatus
    <3>5. CodeHolder' = [CodeHolder EXCEPT ![code] = b.device_id]
      <4>1. \A c \in Codes :
               CodeHolder'[c] = IF c = code THEN b.device_id ELSE CodeHolder[c]
        BY <3>1, <3>2 DEF CodeHolder
      <4> QED
        BY <4>1 DEF CodeHolder
    <3>6. CodeGrants' = CodeGrants
      BY <2>2 DEF CodeGrants
    <3>7. OTC!HandOut(code, b.device_id)
      BY <3>3, <3>4, <3>5, <3>6 DEF OTC!HandOut
    <3> QED
      BY <3>1, <3>7 DEF OTC!CodeNext
  <2>3. ASSUME NEW code \in Codes, NEW b \in Bindings, NEW r \in Redemptions,
               b = bindings[HashCode(code)],
               b.remaining_uses = 1,
               bindings' = [bindings EXCEPT ![HashCode(code)] = Spent(b)],
               r.code = code,
               r.credential.device_id = b.device_id,
               redemptions' = redemptions \cup {r}, lost' = lost
        PROVE  OTC!CodeNext
    <3>1. /\ b # NoBinding /\ Spent(b) # NoBinding
          /\ ~IsSpent(b) /\ IsSpent(Spent(b))
          /\ Spent(b).device_id = b.device_id
      BY <2>3, SpentFacts, NoBindingAssumption DEF IsSpent
    <3>2. /\ BindingFor(code) = b
          /\ BindingFor(code)' = Spent(b)
          /\ \A c \in Codes \ {code} : BindingFor(c)' = BindingFor(c)
      BY <1>2, <2>3, HashInjective DEF IInv, TypeOK, BindingFor, Hashes
    <3>3. CodeStatus[code] = "issued" /\ CodeHolder[code] = b.device_id
      BY <3>1, <3>2 DEF CodeStatus, CodeHolder
    <3>4. code \notin lost
      BY <1>2, <2>3, <3>1, <3>2 DEF IInv, SingleUse
    <3>5. CodeStatus' = [CodeStatus EXCEPT ![code] = "redeemed"]
      BY <2>3, <3>1, <3>2, <3>4 DEF CodeStatus
    <3>6. CodeHolder' = CodeHolder
      BY <3>1, <3>2 DEF CodeHolder
    <3> DEFINE sid == r.credential.session_id
    <3>7. CodeGrants' = CodeGrants \cup {<<code, CodeHolder[code], sid>>}
      BY <2>3, <3>3 DEF CodeGrants
    <3>8. sid \in SessionIds
      BY DEF Redemptions, Credentials
    <3> HIDE DEF sid
    <3>9. OTC!Grant(code, sid)
      BY <3>3, <3>5, <3>6, <3>7 DEF OTC!Grant
    <3> QED
      BY <3>8, <3>9 DEF OTC!CodeNext
  <2>4. ASSUME NEW code \in Codes, NEW b \in Bindings,
               b = bindings[HashCode(code)],
               b.remaining_uses = 1,
               bindings' = [bindings EXCEPT ![HashCode(code)] = Spent(b)],
               lost' = lost \cup {code}, redemptions' = redemptions
        PROVE  OTC!CodeNext
    <3>1. /\ b # NoBinding /\ Spent(b) # NoBinding
          /\ ~IsSpent(b) /\ IsSpent(Spent(b))
          /\ Spent(b).device_id = b.device_id
      BY <2>4, SpentFacts, NoBindingAssumption DEF IsSpent
    <3>2. /\ BindingFor(code) = b
          /\ BindingFor(code)' = Spent(b)
          /\ \A c \in Codes \ {code} : BindingFor(c)' = BindingFor(c)
      BY <1>2, <2>4, HashInjective DEF IInv, TypeOK, BindingFor, Hashes
    <3>3. CodeStatus[code] = "issued"
      BY <3>1, <3>2 DEF CodeStatus
    <3>4. CodeStatus' = [CodeStatus EXCEPT ![code] = "void"]
      BY <2>4, <3>1, <3>2 DEF CodeStatus
    <3>5. CodeHolder' = CodeHolder /\ CodeGrants' = CodeGrants
      BY <2>4, <3>1, <3>2 DEF CodeHolder, CodeGrants
    <3>6. OTC!Void(code)
      BY <3>3, <3>4, <3>5 DEF OTC!Void
    <3> QED
      BY <3>6 DEF OTC!CodeNext
  <2> QED
    BY <1>2, <2>1, <2>2, <2>3, <2>4, RegistryStep
<1> QED
  BY <1>1, <1>2, Invariance, PTL DEF Spec, ImplementsOneTimeCode, OTC!CodeSpec
=============================================================================
