----------------------------- MODULE Enrollment -----------------------------
(***************************************************************************)
(* The registry of single-use enrollment codes (nlboot/enrollment.py) and  *)
(* the devices that present claims to it.                                  *)
(*                                                                         *)
(* EnrollmentRegistry keeps one dictionary, from the hash of a code to its *)
(* binding.  A call that raises EnrollmentError changes nothing, so a      *)
(* refusal is a stuttering step and the guards of Issue and Redeem are the *)
(* conjunction of the code's checks.  One failure comes after a write: a   *)
(* session lifetime that no datetime can hold raises OverflowError when    *)
(* the use is stored already, and is an action of its own.  The clock is   *)
(* the host's: it may also be set back.  "made", "redemptions" and "lost"  *)
(* are history: the claims devices have signed, all of which can be        *)
(* presented again, the redemptions that returned a credential, and the    *)
(* codes whose use was taken by a call that returned none.                 *)
(***************************************************************************)
EXTENDS Device, FiniteSets, Sequences

CONSTANTS
    Codes,              \* what secrets.token_urlsafe draws from
    SessionIds,         \* what secrets.token_hex draws from
    NoBinding,          \* dict.get on an absent key
    Refs,               \* non-empty URNs
    IssueRequests,      \* the arguments issue() is called with
    SessionTTLs,        \* the session_ttl_seconds redeem() is called with
    ForeignSignatures,  \* bytes signed by keys this program never manages
    Datetimes,          \* the instants a datetime can hold
    MaxClaims           \* bound: claims the devices sign

VARIABLES
    clock,        \* datetime.now, or the "now" the caller passes
    made,         \* claims signed by DeviceIdentity.make_claim
    bindings,     \* EnrollmentRegistry._bindings
    redemptions,  \* completed calls of redeem, with what they returned
    lost          \* codes whose use went to a call that overflowed

vars == <<clock, made, bindings, redemptions, lost>>

Purposes  == {"enroll", "boot", "repair", "recovery"}
Empty     == ""
Arguments == [purpose : STRING, ttl_seconds : Int,
              release_set_ref : Refs \cup {Empty},
              boot_release_set_ref : Refs \cup {Empty},
              artifact_refs : Seq(Refs \cup {Empty})]

ASSUME RequestsAssumption == IssueRequests \subseteq Arguments
ASSUME SessionTTLAssumption == SessionTTLs \subseteq Int
ASSUME DatetimesAssumption == Times \subseteq Datetimes
ASSUME EmptyAssumption == Empty \notin Refs
ASSUME ForeignAssumption ==
    /\ ForeignSignatures \subseteq Signatures
    /\ \A s \in ForeignSignatures : s.signer \notin Identities

\* _hash_code
HashCode(code) == <<"sha256", code>>
Hashes == {HashCode(code) : code \in Codes}

Bindings ==
    [code_hash : Hashes, purpose : Purposes, device_id : DeviceIds,
     nonce : Nonces, release_set_ref : Refs, boot_release_set_ref : Refs,
     artifact_refs : Seq(Refs), issued_at : Times, expires_at : Int,
     remaining_uses : Int]

ASSUME NoBindingAssumption == NoBinding \notin Bindings

Credentials ==
    [session_id : SessionIds, device_id : DeviceIds, purpose : Purposes,
     release_set_ref : Refs, boot_release_set_ref : Refs,
     artifact_refs : Seq(Refs), issued_at : Times, expires_at : Int]

Redemptions == [code : Codes, claim : Claims, credential : Credentials]

\* Mutant of IsSpent: off by one.
IsSpentOffByOne(b) == b.remaining_uses < 0

\* EnrollmentCodeBinding.is_spent
IsSpent(b) == b.remaining_uses <= 0

\* The codes that have bought a credential.
Redeemed == {r.code : r \in redemptions}

\* EnrollmentRegistry.binding_for
BindingFor(code) == bindings[HashCode(code)]

Init ==
    /\ clock \in Times
    /\ made = {}
    /\ bindings = [h \in Hashes |-> NoBinding]
    /\ redemptions = {}
    /\ lost = {}

\* The host clock moves, or is corrected.
SetClock ==
    /\ clock' \in Times \ {clock}
    /\ UNCHANGED <<made, bindings, redemptions, lost>>

(***************************************************************************)
(* DeviceIdentity.make_claim                                               *)
(***************************************************************************)
MakeClaim(key, nonce) ==
    /\ nonce \notin BlankNonces
    /\ Cardinality(made) < MaxClaims
    /\ made' = made \cup {ClaimOf(key, nonce, clock)}
    /\ UNCHANGED <<clock, bindings, redemptions, lost>>

(***************************************************************************)
(* The claims a caller can present: any fields, under a signature that     *)
(* some device has made or that comes from elsewhere.                      *)
(***************************************************************************)
PresentedClaims ==
    [device_id : DeviceIds, public_key_pem : Pems, nonce : Nonces,
     claimed_at : Times,
     signature : {m.signature : m \in made} \cup ForeignSignatures]

\* Mutant of WellFormed: the release set may be empty.
WellFormedAnyRelease(request) ==
    /\ request.purpose \in Purposes
    /\ request.ttl_seconds > 0
    /\ request.boot_release_set_ref # Empty
    /\ request.artifact_refs # <<>>
    /\ \A i \in DOMAIN request.artifact_refs : request.artifact_refs[i] # Empty

\* Mutant of WellFormed: a code may have no lifetime.
WellFormedAnyTtl(request) ==
    /\ request.purpose \in Purposes
    /\ request.release_set_ref # Empty
    /\ request.boot_release_set_ref # Empty
    /\ request.artifact_refs # <<>>
    /\ \A i \in DOMAIN request.artifact_refs : request.artifact_refs[i] # Empty

(***************************************************************************)
(* The checks of issue() on its arguments other than the claim.            *)
(***************************************************************************)
WellFormed(request) ==
    /\ request.purpose \in Purposes
    /\ request.ttl_seconds > 0
    /\ request.release_set_ref # Empty
    /\ request.boot_release_set_ref # Empty
    /\ request.artifact_refs # <<>>
    /\ \A i \in DOMAIN request.artifact_refs : request.artifact_refs[i] # Empty

\* The binding issue() stores.
NewBinding(code, claim, request) ==
    [code_hash |-> HashCode(code), purpose |-> request.purpose,
     device_id |-> claim.device_id, nonce |-> claim.nonce,
     release_set_ref |-> request.release_set_ref,
     boot_release_set_ref |-> request.boot_release_set_ref,
     artifact_refs |-> request.artifact_refs,
     issued_at |-> clock, expires_at |-> clock + request.ttl_seconds,
     remaining_uses |-> 1]

(***************************************************************************)
(* EnrollmentRegistry.issue.  The code is 128 fresh random bits, so it is  *)
(* one that was never drawn before.  An expiry that no datetime can hold   *)
(* raises OverflowError before anything is stored.                         *)
(***************************************************************************)
Issue(code, claim, request) ==
    /\ WellFormed(request)
    /\ Verifies(claim, claim.nonce)
    /\ clock + request.ttl_seconds \in Datetimes
    /\ BindingFor(code) = NoBinding
    /\ bindings' = [bindings EXCEPT ![HashCode(code)] =
                        NewBinding(code, claim, request)]
    /\ UNCHANGED <<clock, made, redemptions, lost>>

\* Mutant of Expired: a code lives one instant longer.
ExpiredOffByOne(b, at) == at > b.expires_at

\* redeem()'s expiry test.
Expired(b, at) == at >= b.expires_at

(***************************************************************************)
(* The checks of redeem() on the binding it has looked up, in the order    *)
(* the code makes them; "at" is the time it read on entry.                 *)
(***************************************************************************)
Accepts(b, claim, ref, at) ==
    /\ b # NoBinding
    /\ ~IsSpent(b)
    /\ ~Expired(b, at)
    /\ ref = b.release_set_ref
    /\ Verifies(claim, b.nonce)
    /\ claim.device_id = b.device_id

Redeemable(code, claim, ref) == Accepts(BindingFor(code), claim, ref, clock)

\* The credential redeem() returns.
NewCredential(sid, b, ttl, at) ==
    [session_id |-> sid, device_id |-> b.device_id, purpose |-> b.purpose,
     release_set_ref |-> b.release_set_ref,
     boot_release_set_ref |-> b.boot_release_set_ref,
     artifact_refs |-> b.artifact_refs,
     issued_at |-> at, expires_at |-> at + ttl]

\* Mutant of Spent: the use is never taken away.
SpentNever(b) == b

\* Mutant of Spent: the binding is removed instead.
SpentByRemoval(b) == NoBinding

\* What redeem() writes back: the binding with one use less.
Spent(b) == [b EXCEPT !.remaining_uses = @ - 1]

(***************************************************************************)
(* EnrollmentRegistry.redeem, called by one thread at a time, that returns *)
(* a credential.                                                           *)
(***************************************************************************)
Redeem(code, claim, ref, sid, ttl) ==
    LET b == BindingFor(code)
    IN  /\ Redeemable(code, claim, ref)
        /\ clock + ttl \in Datetimes
        /\ \A r \in redemptions : r.credential.session_id # sid
        /\ bindings' = [bindings EXCEPT ![b.code_hash] = Spent(b)]
        /\ redemptions' = redemptions \cup
              {[code |-> code, claim |-> claim,
                credential |-> NewCredential(sid, b, ttl, clock)]}
        /\ UNCHANGED <<clock, made, lost>>

(***************************************************************************)
(* redeem() where current + timedelta(seconds=session_ttl_seconds) raises  *)
(* OverflowError: the checks have passed and the use is stored as taken,   *)
(* and the caller gets nothing for it.                                     *)
(***************************************************************************)
RedeemOverflows(code, claim, ref, ttl) ==
    LET b == BindingFor(code)
    IN  /\ Redeemable(code, claim, ref)
        /\ clock + ttl \notin Datetimes
        /\ bindings' = [bindings EXCEPT ![b.code_hash] = Spent(b)]
        /\ lost' = lost \cup {code}
        /\ UNCHANGED <<clock, made, redemptions>>

Next ==
    \/ SetClock
    \/ \E key \in Identities, nonce \in Nonces : MakeClaim(key, nonce)
    \/ \E code \in Codes, request \in IssueRequests, claim \in PresentedClaims :
          Issue(code, claim, request)
    \/ \E code \in Codes, ref \in Refs, sid \in SessionIds,
          ttl \in SessionTTLs, claim \in PresentedClaims :
          Redeem(code, claim, ref, sid, ttl)
    \/ \E code \in Codes, ref \in Refs, ttl \in SessionTTLs,
          claim \in PresentedClaims : RedeemOverflows(code, claim, ref, ttl)

Spec == Init /\ [][Next]_vars
-----------------------------------------------------------------------------
\* The state has its type, and a binding sits under the hash it names, which
\* is where redeem() writes it back.
TypeOK ==
    /\ clock \in Times
    /\ made \subseteq Claims
    /\ bindings \in [Hashes -> Bindings \cup {NoBinding}]
    /\ \A h \in Hashes : bindings[h] # NoBinding => bindings[h].code_hash = h
    /\ redemptions \subseteq Redemptions
    /\ lost \subseteq Codes

(***************************************************************************)
(* A code buys at most one credential (enrollment.py:128-178: "so the code *)
(* can never be redeemed twice").  The registry's counter is 0 exactly     *)
(* when the code bought one or its use was lost to a lifetime that         *)
(* overflows (enrollment.py:177), and never for both: a code whose use was *)
(* lost buys nothing later either.                                         *)
(***************************************************************************)
SingleUse ==
    /\ \A r1, r2 \in redemptions : r1.code = r2.code => r1 = r2
    /\ Redeemed \cap lost = {}
    /\ \A code \in Codes :
          IF BindingFor(code) = NoBinding
          THEN code \notin Redeemed \cup lost
          ELSE BindingFor(code).remaining_uses =
                  IF code \in Redeemed \cup lost THEN 0 ELSE 1

(***************************************************************************)
(* A credential carries the authority its code was issued with and no      *)
(* other, and was granted while the code was alive, whatever the clock has *)
(* done since (enrollment.py:150-178).                                     *)
(***************************************************************************)
GrantsWhatWasIssued(b, cred) ==
    /\ cred.device_id = b.device_id
    /\ cred.purpose = b.purpose
    /\ cred.release_set_ref = b.release_set_ref
    /\ cred.boot_release_set_ref = b.boot_release_set_ref
    /\ cred.artifact_refs = b.artifact_refs
    /\ cred.issued_at < b.expires_at

SessionAuthorized ==
    \A r \in redemptions :
       /\ BindingFor(r.code) # NoBinding
       /\ GrantsWhatWasIssued(BindingFor(r.code), r.credential)

(***************************************************************************)
(* Behind every credential stands a claim that the holder's own key signed *)
(* for the nonce the code was bound to: tampered fields, re-laid-out PEM   *)
(* texts, other devices' claims and weak keys never redeem a code          *)
(* (device.py:225-256, enrollment.py:157-164).                             *)
(***************************************************************************)
SessionPossession ==
    \A r \in redemptions :
       \E m \in made :
          /\ m.signature = r.claim.signature
          /\ m.device_id = r.credential.device_id
          /\ m.nonce = BindingFor(r.code).nonce

(***************************************************************************)
(* A live code is never stranded: the device it was bound to already holds *)
(* a claim that redeems it (enrollment.py:106-124).                        *)
(***************************************************************************)
OwnerCanRedeem ==
    \A code \in Codes :
       LET b == BindingFor(code)
       IN  b # NoBinding /\ ~IsSpent(b) /\ ~Expired(b, clock) =>
              \E m \in made : Redeemable(code, m, b.release_set_ref)

(***************************************************************************)
(* A stored binding is never dropped, re-armed or rebound: a step only     *)
(* takes its one use away (enrollment.py:125, 167).                        *)
(***************************************************************************)
BindingImmutable ==
    [][\A h \in Hashes :
          bindings[h] # NoBinding =>
             \/ bindings'[h] = bindings[h]
             \/ /\ ~IsSpent(bindings[h])
                /\ bindings'[h] = [bindings[h] EXCEPT !.remaining_uses = 0]]_vars

(***************************************************************************)
(* device.py:134-138 (make_claim): "The nonce binds the claim to a single  *)
(* enrollment attempt; the issuer supplies it so a captured claim cannot   *)
(* be replayed against a different code."  So no claim redeems two codes.  *)
(***************************************************************************)
ClaimRedeemsOneCode ==
    \A r1, r2 \in redemptions : r1.claim = r2.claim => r1.code = r2.code
-----------------------------------------------------------------------------
(***************************************************************************)
(* The registry implements the one-time code.                              *)
(***************************************************************************)
CodeStatus ==
    [code \in Codes |-> IF BindingFor(code) = NoBinding THEN "fresh"
                        ELSE IF ~IsSpent(BindingFor(code)) THEN "issued"
                        ELSE IF code \in lost THEN "void"
                        ELSE "redeemed"]
CodeHolder ==
    [code \in Codes |-> IF BindingFor(code) = NoBinding THEN NoBinding
                        ELSE BindingFor(code).device_id]
CodeGrants ==
    {<<r.code, r.credential.device_id, r.credential.session_id>> : r \in redemptions}

OTC == INSTANCE OneTimeCode
         WITH Holders <- DeviceIds, Nobody <- NoBinding, Tickets <- SessionIds,
              status <- CodeStatus, holder <- CodeHolder, granted <- CodeGrants

\* The registry hands a code to one device, and grants it once or voids it.
ImplementsOneTimeCode == OTC!CodeSpec
=============================================================================
