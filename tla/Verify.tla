-------------------------------- MODULE Verify --------------------------------
(***************************************************************************)
(* Trusted keys and signatures as nlboot/verify.py decides about them.     *)
(*                                                                         *)
(* A key record is [ref, material, algorithm, pem, bits, status,           *)
(* not_before, not_after, revoked_at, reason]: "material" is the key       *)
(* itself, "pem" whether the text holds a PEM public key, "bits" its       *)
(* length.  A signature is [hex, key, payload]: how it is written, the     *)
(* material it was made with and what it covers.  It is written in "hex",  *)
(* in hexadecimal with white space ("spaced") or not so ("other").         *)
(***************************************************************************)
EXTENDS Integers, Sequences

CONSTANT NoTime   \* an optional timestamp that is absent

Algorithm == "rsa-pss-sha256"
Profile   == "fips-140-3-compatible"

(***************************************************************************)
(* TrustedKey.from_dict does not raise.  A status outside the three raises *)
(* here; one of the other two raises in validate_lifecycle.                *)
(***************************************************************************)
PyKeyParses(key) ==
    /\ key.ref # ""
    /\ key.algorithm = Algorithm
    /\ key.pem
    /\ key.status \in {"active", "retired", "revoked"}

\* Mutant of PyKeyAlive: a key lives one instant longer.
PyKeyAliveLate(key, at) ==
    /\ key.status = "active" /\ key.revoked_at = NoTime
    /\ key.not_before # NoTime => at >= key.not_before
    /\ key.not_after # NoTime => at <= key.not_after

\* TrustedKey.validate_lifecycle(now = at) does not raise.
PyKeyAlive(key, at) ==
    /\ key.status = "active" /\ key.revoked_at = NoTime
    /\ key.not_before # NoTime => at >= key.not_before
    /\ key.not_after # NoTime => at < key.not_after

PyKeyValid(key, at) == PyKeyParses(key) /\ PyKeyAlive(key, at)

\* bytes.fromhex, which skips white space.
FromHex(signature) == signature.hex \in {"hex", "spaced"}

\* Mutant of PyVerifies: the payload is not looked at.
PyVerifiesAnything(signature, payload, key) ==
    /\ FromHex(signature)
    /\ key.bits >= 2048
    /\ signature.key = key.material

\* verify_rsa_pss_sha256
PyVerifies(signature, payload, key) ==
    /\ FromHex(signature)
    /\ key.bits >= 2048
    /\ signature.key = key.material
    /\ signature.payload = payload

\* The loop of load_trusted_keys: the last entry of a name stays.
PySignerAt(keys, ref, i) ==
    /\ keys[i].ref = ref
    /\ \A j \in i + 1 .. Len(keys) : keys[j].ref # ref

\* Mutant of KeysLoaded: the dictionary is keyed by the key itself.
KeysLoadedByMaterial(keys) ==
    [m \in {keys[i].material : i \in DOMAIN keys} |->
        keys[CHOOSE i \in DOMAIN keys : keys[i].material = m]]

(***************************************************************************)
(* load_trusted_keys: it returns if every entry is valid, and then it      *)
(* returns this dictionary.                                                *)
(***************************************************************************)
KeysLoad(keys, at) == \A i \in DOMAIN keys : PyKeyValid(keys[i], at)
KeysLoaded(keys) ==
    [ref \in {keys[i].ref : i \in DOMAIN keys} |->
        keys[CHOOSE i \in DOMAIN keys : PySignerAt(keys, ref, i)]]
===============================================================================
