-------------------------- MODULE TrustBundleProofs --------------------------
(***************************************************************************)
(* Proofs about TrustBundle, for any clock readings, root documents,       *)
(* bundles and signatures.                                                 *)
(***************************************************************************)
EXTENDS TrustBundle, WellFoundedInduction, TLAPS

(***************************************************************************)
(* The inductive invariant.  What is trusted is only as good as the root   *)
(* that vouched for it, so the roots have to be traced too: each is an     *)
(* entry of a document the operator installed, under its own name.         *)
(***************************************************************************)
RootsInstalled ==
    \A ref \in DOMAIN roots :
       /\ PyKeyParses(roots[ref])
       /\ \E document \in RootDocuments : roots[ref] \in Entries(document)

IInv ==
    /\ TypeOK
    /\ RootsInstalled
    /\ TrustIsOneBundle
    /\ TrustVouched

-----------------------------------------------------------------------------
(***************************************************************************)
(* The loop of load_trusted_keys leaves one entry for every name it met:   *)
(* a list has a last entry of each of its names.                           *)
(***************************************************************************)
LEMMA LastOfName ==
    ASSUME NEW keys \in Seq(Keys), NEW ref \in Refs(keys)
    PROVE  \E i \in DOMAIN keys : PySignerAt(keys, ref, i)
<1> DEFINE named == {i \in 1 .. Len(keys) : keys[i].ref = ref}
           toEnd == {Len(keys) - i : i \in named}
<1>1. Len(keys) \in Nat /\ DOMAIN keys = 1 .. Len(keys)
  OBVIOUS
<1>2. toEnd \subseteq Nat /\ toEnd # {}
  BY <1>1 DEF Refs, Entries
<1> HIDE DEF toEnd
<1>3. PICK d \in toEnd : \A e \in toEnd : ~(<<e, d>> \in OpToRel(<, Nat))
  BY <1>2, NatLessThanWellFounded, WFMin
<1>4. \A e \in toEnd : ~(e < d)
  BY <1>2, <1>3 DEF OpToRel
<1>5. PICK i \in named : d = Len(keys) - i
  BY DEF toEnd
<1>6. \A j \in i + 1 .. Len(keys) : keys[j].ref # ref
  <2> SUFFICES ASSUME NEW j \in i + 1 .. Len(keys), keys[j].ref = ref
               PROVE  FALSE
    OBVIOUS
  <2>1. j \in named /\ Len(keys) - j < d
    BY <1>1, <1>5
  <2>2. Len(keys) - j \in toEnd
    BY <2>1 DEF toEnd
  <2> QED
    BY <1>4, <2>1, <2>2
<1> QED
  BY <1>1, <1>5, <1>6 DEF PySignerAt

(***************************************************************************)
(* What load_trusted_keys returns: a dictionary of exactly the names in    *)
(* the list, each with one of the list's entries of that name.             *)
(***************************************************************************)
LEMMA KeysLoadedFacts ==
    ASSUME NEW keys \in Seq(Keys)
    PROVE  /\ DOMAIN KeysLoaded(keys) = Refs(keys)
           /\ \A ref \in Refs(keys) :
                 /\ KeysLoaded(keys)[ref].ref = ref
                 /\ KeysLoaded(keys)[ref] \in Entries(keys)
<1>1. DOMAIN KeysLoaded(keys) = Refs(keys)
  BY DEF KeysLoaded, Refs, Entries
<1>2. ASSUME NEW ref \in Refs(keys)
      PROVE  /\ KeysLoaded(keys)[ref].ref = ref
             /\ KeysLoaded(keys)[ref] \in Entries(keys)
  <2> DEFINE last == CHOOSE i \in DOMAIN keys : PySignerAt(keys, ref, i)
  <2>1. last \in DOMAIN keys /\ PySignerAt(keys, ref, last)
    BY LastOfName
  <2>2. KeysLoaded(keys)[ref] = keys[last]
    BY <1>2 DEF KeysLoaded, Refs, Entries
  <2> HIDE DEF last
  <2> QED
    BY <2>1, <2>2 DEF PySignerAt, Entries
<1> QED
  BY <1>1, <1>2

-----------------------------------------------------------------------------
\* A host that has loaded nothing satisfies the inductive invariant.
LEMMA InitIInv == Init => IInv
BY DEF Init, IInv, TypeOK, Dictionary, RootsInstalled, TrustIsOneBundle,
       TrustVouched, NoKeys

\* The clock and a new signature change nothing of what is trusted.
LEMMA ClockAndSignaturesIInv ==
    ASSUME IInv,
           \/ SetClock
           \/ \E material \in RootMaterials, content \in Contents :
                 SignBundle(material, content)
    PROVE  IInv'
<1>1. UNCHANGED <<roots, trusted, source>> /\ signed \subseteq signed'
  BY DEF SetClock, SignBundle
<1>2. TypeOK'
  <2>1. CASE SetClock
    BY <2>1 DEF IInv, TypeOK, Dictionary, SetClock
  <2>2. CASE \E material \in RootMaterials, content \in Contents :
                SignBundle(material, content)
    <3>1. PICK material \in RootMaterials, content \in Contents :
                SignBundle(material, content)
      BY <2>2
    <3>2. [hex |-> "hex", key |-> material, payload |-> content]
             \in [hex : {"hex"}, key : RootMaterials, payload : Contents]
      OBVIOUS
    <3>3. signed' \subseteq [hex : {"hex"}, key : RootMaterials, payload : Contents]
      BY <3>1, <3>2 DEF IInv, TypeOK, SignBundle
    <3> QED
      BY <3>1, <3>3 DEF IInv, TypeOK, Dictionary, SignBundle
  <2> QED
    BY <2>1, <2>2
<1>3. RootsInstalled' /\ TrustIsOneBundle'
  BY <1>1 DEF IInv, RootsInstalled, TrustIsOneBundle
<1>4. TrustVouched'
  BY <1>1 DEF IInv, TrustVouched
<1> QED
  BY <1>2, <1>3, <1>4 DEF IInv

\* New roots come from a document the operator installed.
LEMMA LoadRootsIInv ==
    ASSUME IInv, NEW document \in RootDocuments, LoadRoots(document)
    PROVE  IInv'
<1>1. document \in Seq(Keys)
  BY DocumentsAssumption
<1>2. /\ roots' = KeysLoaded(document)
      /\ UNCHANGED <<clock, signed, trusted, source>>
      /\ \A key \in Entries(document) : PyKeyValid(key, clock)
  BY DEF LoadRoots, KeysLoad, Entries
<1>3. TypeOK'
  BY <1>1, <1>2, KeysLoadedFacts DEF IInv, TypeOK, Dictionary
<1>4. RootsInstalled'
  BY <1>1, <1>2, KeysLoadedFacts DEF RootsInstalled, PyKeyValid
<1>5. TrustIsOneBundle' /\ TrustVouched'
  BY <1>2 DEF IInv, TrustIsOneBundle, TrustVouched
<1> QED
  BY <1>3, <1>4, <1>5 DEF IInv

\* A bundle is accepted only on the signature of a living root.
LEMMA LoadBundleIInv ==
    ASSUME IInv, NEW bundle \in Presented, LoadBundle(bundle)
    PROVE  IInv'
<1> DEFINE keys == bundle.content.keys
           root == roots[bundle.content.signer]
<1>1. keys \in Seq(Keys)
  BY DocumentsAssumption DEF Presented
<1>2. /\ trusted' = KeysLoaded(keys)
      /\ source' = [bundle |-> bundle, at |-> clock]
      /\ UNCHANGED <<clock, roots, signed>>
      /\ \A key \in Entries(keys) : PyKeyValid(key, clock)
  BY DEF LoadBundle, TrustAfter, KeysLoad, Entries
<1>3. TypeOK'
  BY <1>1, <1>2, KeysLoadedFacts DEF IInv, TypeOK, Dictionary
<1>4. RootsInstalled'
  BY <1>2 DEF IInv, RootsInstalled
<1>5. TrustIsOneBundle'
  BY <1>1, <1>2, KeysLoadedFacts DEF TrustIsOneBundle
<1>6. /\ bundle.content.signer \in DOMAIN roots
      /\ PyKeyAlive(root, clock)
      /\ FromHex(bundle.signature)
      /\ bundle.signature.key = root.material
      /\ bundle.signature.payload = bundle.content
  <2>1. SignerAccepts(bundle)
    BY DEF LoadBundle
  <2>2. /\ bundle.content.signer \in DOMAIN roots
        /\ PyKeyAlive(root, clock)
        /\ PyVerifies(bundle.signature, bundle.content, root)
    BY <2>1 DEF SignerAccepts, CanonicalTrustBundlePayload
  <2> HIDE DEF root
  <2> QED
    BY <2>2 DEF PyVerifies
<1>7. /\ root.ref = bundle.content.signer
      /\ PyKeyValid(root, clock)
  BY <1>6 DEF IInv, TypeOK, Dictionary, RootsInstalled, PyKeyValid
<1>8. PICK document \in RootDocuments : root \in Entries(document)
  BY <1>6 DEF IInv, RootsInstalled
<1>9. bundle.signature \in signed
  BY <1>6, <1>8, JunkAssumption DEF Presented
<1>10. \A ref \in DOMAIN trusted' : PyKeyValid(trusted'[ref], clock)
  BY <1>1, <1>2, KeysLoadedFacts
<1> HIDE DEF root
<1>11. TrustVouched'
  BY <1>2, <1>6, <1>7, <1>8, <1>9, <1>10 DEF TrustVouched
<1> QED
  BY <1>3, <1>4, <1>5, <1>11 DEF IInv

LEMMA Invariance == Spec => []IInv
<1>1. IInv /\ [Next]_vars => IInv'
  <2> SUFFICES ASSUME IInv, [Next]_vars
               PROVE  IInv'
    OBVIOUS
  <2>1. CASE UNCHANGED vars
    BY <2>1 DEF vars, IInv, TypeOK, Dictionary, RootsInstalled,
                TrustIsOneBundle, TrustVouched
  <2>2. CASE SetClock \/ \E material \in RootMaterials, content \in Contents :
                            SignBundle(material, content)
    BY <2>2, ClockAndSignaturesIInv
  <2>3. CASE \E document \in RootDocuments : LoadRoots(document)
    BY <2>3, LoadRootsIInv
  <2>4. CASE \E bundle \in Presented : LoadBundle(bundle)
    BY <2>4, LoadBundleIInv
  <2> QED
    BY <2>1, <2>2, <2>3, <2>4 DEF Next
<1> QED
  BY InitIInv, <1>1, PTL DEF Spec

-----------------------------------------------------------------------------
(***************************************************************************)
(* The dictionaries of roots and trusted keys keep their type              *)
(* (verify.py:116-127).                                                    *)
(***************************************************************************)
THEOREM TypeCorrect == Spec => []TypeOK
<1>1. IInv => TypeOK
  BY DEF IInv
<1> QED
  BY Invariance, <1>1, PTL

(***************************************************************************)
(* The trusted keys are at all times exactly those of one bundle: the last *)
(* one that load_verified_trust_bundle returned (verify.py:116-127, 157).  *)
(***************************************************************************)
THEOREM TrustComesFromOneBundle == Spec => []TrustIsOneBundle
<1>1. IInv => TrustIsOneBundle
  BY DEF IInv
<1> QED
  BY Invariance, <1>1, PTL

(***************************************************************************)
(* However bundles are replayed and roots replaced, what is trusted was    *)
(* signed by an installed root that was alive when the bundle was loaded   *)
(* (verify.py:133-157).                                                    *)
(***************************************************************************)
THEOREM TrustIsVouchedFor == Spec => []TrustVouched
<1>1. IInv => TrustVouched
  BY DEF IInv
<1> QED
  BY Invariance, <1>1, PTL
===============================================================================
