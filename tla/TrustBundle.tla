----------------------------- MODULE TrustBundle -----------------------------
(***************************************************************************)
(* A host that takes the keys it trusts from signed trust bundles          *)
(* (load_verified_trust_bundle of nlboot/verify.py).                       *)
(*                                                                         *)
(* The host loads a document of root keys, and later bundles that a root   *)
(* has signed; the clock moves in between.  The functions keep no state:   *)
(* "roots" and "trusted" are the dictionaries the host holds from its last *)
(* successful calls.  A call that raises VerificationError changes         *)
(* nothing.  No bundle is ever withdrawn: what was signed once can be      *)
(* presented again, in any order.                                          *)
(***************************************************************************)
EXTENDS Verify, FiniteSets

CONSTANTS
    Times,           \* clock readings
    Keys,            \* the key records a document can list
    RootDocuments,   \* key documents the operator installs
    Contents,        \* what is signed of a bundle: id, signer, algorithm,
                     \* profile and keys
    RootMaterials,   \* the keys root holders sign bundles with
    Junk,            \* signatures that nobody here made
    MaxSigned        \* bound: signatures the root holders make

Entries(keys) == {keys[i] : i \in DOMAIN keys}

ASSUME DocumentsAssumption ==
    /\ RootDocuments \subseteq Seq(Keys)
    /\ \A content \in Contents : content.keys \in Seq(Keys)
\* Only the holder of a root key can make a signature of it.
ASSUME JunkAssumption ==
    \A junk \in Junk : FromHex(junk) =>
       \A document \in RootDocuments :
          \A root \in Entries(document) : junk.key # root.material

VARIABLES
    clock,     \* the "now" of the calls
    roots,     \* root_keys: what load_trusted_keys returned for the roots
    signed,    \* the signatures root holders have made
    trusted,   \* what the last load_verified_trust_bundle returned
    source     \* history: that call's bundle and time; NoTime before the first

vars == <<clock, roots, signed, trusted, source>>

NoKeys == <<>>   \* the empty dictionary

\* A bundle as it is presented: any contents under any signature there is.
Presented == [content : Contents, signature : signed \cup Junk]

\* canonical_trust_bundle_payload: all but signature_hex and signatures.
CanonicalTrustBundlePayload(bundle) == bundle.content

Init ==
    /\ clock \in Times
    /\ roots = NoKeys /\ trusted = NoKeys
    /\ signed = {} /\ source = NoTime

\* The clock moves, or is corrected.
SetClock ==
    /\ clock' \in Times \ {clock}
    /\ UNCHANGED <<roots, signed, trusted, source>>

\* The holder of a root key signs a bundle.
SignBundle(material, content) ==
    /\ Cardinality(signed) < MaxSigned
    /\ signed' = signed \cup
          {[hex |-> "hex", key |-> material, payload |-> content]}
    /\ UNCHANGED <<clock, roots, trusted, source>>

\* load_trusted_keys on the operator's root document.
LoadRoots(document) ==
    /\ KeysLoad(document, clock)
    /\ roots' = KeysLoaded(document)
    /\ UNCHANGED <<clock, signed, trusted, source>>

\* Mutant of SignerAccepts: the root was checked when it was loaded.
SignerAcceptsStale(bundle) ==
    /\ bundle.content.signer \in DOMAIN roots
    /\ PyVerifies(bundle.signature, CanonicalTrustBundlePayload(bundle),
                  roots[bundle.content.signer])

(***************************************************************************)
(* The root the bundle names is known, is alive now, whenever it was       *)
(* loaded, and made the signature.                                         *)
(***************************************************************************)
SignerAccepts(bundle) ==
    /\ bundle.content.signer \in DOMAIN roots
    /\ PyKeyAlive(roots[bundle.content.signer], clock)
    /\ PyVerifies(bundle.signature, CanonicalTrustBundlePayload(bundle),
                  roots[bundle.content.signer])

\* Mutant of TrustAfter: the new keys are added to the ones held.
TrustAfterMerge(keys) ==
    LET loaded == KeysLoaded(keys)
    IN  [ref \in DOMAIN trusted \cup DOMAIN loaded |->
            IF ref \in DOMAIN loaded THEN loaded[ref] ELSE trusted[ref]]

\* load_trusted_keys starts from an empty dictionary.
TrustAfter(keys) == KeysLoaded(keys)

\* load_verified_trust_bundle returns.
LoadBundle(bundle) ==
    /\ bundle.content.id # "" /\ bundle.content.signer # ""
    /\ bundle.content.algorithm = Algorithm
    /\ bundle.content.profile = Profile
    /\ SignerAccepts(bundle)
    /\ KeysLoad(bundle.content.keys, clock)
    /\ trusted' = TrustAfter(bundle.content.keys)
    /\ source' = [bundle |-> bundle, at |-> clock]
    /\ UNCHANGED <<clock, roots, signed>>

Next ==
    \/ SetClock
    \/ \E material \in RootMaterials, content \in Contents :
          SignBundle(material, content)
    \/ \E document \in RootDocuments : LoadRoots(document)
    \/ \E bundle \in Presented : LoadBundle(bundle)

Spec == Init /\ [][Next]_vars
-----------------------------------------------------------------------------
Refs(keys)    == {key.ref : key \in Entries(keys)}
Dictionary(d) == \A ref \in DOMAIN d : d[ref].ref = ref

\* The dictionaries are keyed by the names of the keys in them.
TypeOK ==
    /\ clock \in Times
    /\ Dictionary(roots) /\ Dictionary(trusted)
    /\ signed \subseteq [hex : {"hex"}, key : RootMaterials, payload : Contents]

(***************************************************************************)
(* What is trusted is one bundle, whole: every name it lists and no other, *)
(* each with a key it lists, and nothing of the bundles and roots that     *)
(* were loaded before (verify.py:116-127, 157).                            *)
(***************************************************************************)
TrustIsOneBundle ==
    source # NoTime =>
       LET keys == source.bundle.content.keys
       IN  /\ DOMAIN trusted = Refs(keys)
           /\ \A ref \in DOMAIN trusted : trusted[ref] \in Entries(keys)

(***************************************************************************)
(* Behind the trusted keys stands the signature, over that bundle, of a    *)
(* root that the operator installed under the name the bundle gives and    *)
(* that was alive when the bundle was loaded, not only when the root was:  *)
(* this, and the lifetimes of the keys themselves, is all that bounds the  *)
(* replay of an old bundle (verify.py:133-157).                            *)
(***************************************************************************)
TrustVouched ==
    source # NoTime =>
       /\ source.bundle.signature \in signed
       /\ source.bundle.signature.payload = source.bundle.content
       /\ \A ref \in DOMAIN trusted : PyKeyValid(trusted[ref], source.at)
       /\ \E document \in RootDocuments :
             \E root \in Entries(document) :
                /\ root.ref = source.bundle.content.signer
                /\ root.material = source.bundle.signature.key
                /\ PyKeyValid(root, source.at)
=============================================================================
