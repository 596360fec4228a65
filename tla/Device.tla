------------------------------- MODULE Device -------------------------------
(***************************************************************************)
(* Device identities and self-signed device claims (nlboot/device.py).     *)
(*                                                                         *)
(* Cryptography is symbolic: a key is a model value, SHA-256 and RSA-PSS   *)
(* are injective constructors, and nobody signs for a key of somebody      *)
(* else.  A PEM text is a key together with its layout, because the        *)
(* fingerprint is taken over the DER bytes (the layout does not matter)    *)
(* while the claim's signature covers the PEM text itself (it does).       *)
(***************************************************************************)
EXTENDS Integers

CONSTANTS
    Keys,         \* every key a PEM text may hold
    StrongKeys,   \* the RSA keys of at least 2048 bits
    NoKey,        \* signer of bytes that are not a signature
    Nonces,       \* nonce strings
    BlankNonces,  \* the nonces that are empty or white space
    Times         \* clock readings, in seconds

ASSUME KeysAssumption   == StrongKeys \subseteq Keys /\ NoKey \notin Keys
ASSUME NoncesAssumption == BlankNonces \subseteq Nonces
ASSUME TimesAssumption  == Times \subseteq Int

PemLayouts == {"canonical", "reflowed", "truncated"}
Pems       == [key : Keys, layout : PemLayouts]

(***************************************************************************)
(* _load_public_key: the text parses as a SubjectPublicKeyInfo block and   *)
(* holds an RSA key that is long enough.                                   *)
(***************************************************************************)
LoadsPublicKey(pem) == pem.layout # "truncated" /\ pem.key \in StrongKeys

\* _public_key_pem: the text this program serialises for a key.
PublicKeyPem(key) == [key |-> key, layout |-> "canonical"]

\* device_fingerprint of a text that loads: SHA-256 over the DER bytes.
DeviceFingerprint(pem) == <<"sha256", pem.key>>

DeviceIds == {<<"sha256", k>> : k \in Keys}

Payloads == [device_id : DeviceIds, public_key_pem : Pems,
             nonce : Nonces, claimed_at : Times]

\* Mutant of SigningPayload: the nonce is left out of what is signed.
SigningPayloadNoNonce(id, pem, nonce, at) ==
    [device_id |-> id, public_key_pem |-> pem, claimed_at |-> at]

\* DeviceClaim._signing_payload
SigningPayload(id, pem, nonce, at) ==
    [device_id |-> id, public_key_pem |-> pem, nonce |-> nonce,
     claimed_at |-> at]

Signatures == [signer : Keys \cup {NoKey}, payload : Payloads]
Claims     == [device_id : DeviceIds, public_key_pem : Pems, nonce : Nonces,
               claimed_at : Times, signature : Signatures]

\* DeviceIdentity._sign
Sign(key, payload) == [signer |-> key, payload |-> payload]

(***************************************************************************)
(* DeviceIdentity.generate and from_private_key_pem: a key becomes an      *)
(* identity only if its public half passes device_fingerprint.             *)
(***************************************************************************)
Identities == {k \in Keys : LoadsPublicKey(PublicKeyPem(k))}

(***************************************************************************)
(* DeviceIdentity.make_claim for a nonce that is not blank.                *)
(***************************************************************************)
ClaimOf(key, nonce, when) ==
    LET pem == PublicKeyPem(key)
        id  == DeviceFingerprint(pem)
    IN  [device_id |-> id, public_key_pem |-> pem, nonce |-> nonce,
         claimed_at |-> when,
         signature |-> Sign(key, SigningPayload(id, pem, nonce, when))]

\* Mutant of Verifies: the signature is taken at its word.
VerifiesUnsigned(c, nonce) ==
    /\ LoadsPublicKey(c.public_key_pem)
    /\ DeviceFingerprint(c.public_key_pem) = c.device_id
    /\ c.nonce = nonce

(***************************************************************************)
(* DeviceClaim.verify(expected_nonce = nonce) returns without raising.     *)
(***************************************************************************)
Verifies(c, nonce) ==
    /\ LoadsPublicKey(c.public_key_pem)
    /\ DeviceFingerprint(c.public_key_pem) = c.device_id
    /\ c.nonce = nonce
    /\ c.signature =
         Sign(c.public_key_pem.key,
              SigningPayload(c.device_id, c.public_key_pem,
                             c.nonce, c.claimed_at))
=============================================================================
