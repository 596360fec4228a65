---------------------------- MODULE PlannerProofs ----------------------------
(***************************************************************************)
(* Proofs about the two planners, for any inputs.                          *)
(***************************************************************************)
EXTENDS Planner, TLAPS

(***************************************************************************)
(* The outcome of a planner is what its decision and its plan operator say *)
(* about the input it was run on.                                          *)
(***************************************************************************)
PInv ==
    /\ input \in Inputs
    /\ python = Pending \/ python = IF PyPlans(input) THEN PyPlan(input) ELSE Refused
    /\ rust = Pending \/ rust = IF RsPlans(input) THEN RsPlan(input) ELSE Refused

LEMMA PlannerInvariance == Spec => []PInv
<1>1. Init => PInv
  BY DEF Init, PInv
<1>2. PInv /\ [Next]_vars => PInv'
  BY DEF PInv, Next, vars, RunPython, RunRust
<1> QED
  BY <1>1, <1>2, PTL DEF Spec

\* What is not a mark is the plan of an accepted input.
LEMMA OutcomeIsPlan ==
    ASSUME PInv
    PROVE  /\ IsPlan(python) => PyPlans(input) /\ python = PyPlan(input)
           /\ IsPlan(rust) => RsPlans(input) /\ rust = RsPlan(input)
BY DEF PInv, IsPlan

-----------------------------------------------------------------------------
\* Both plan operators fill in the fields of a plan.
LEMMA PlansAreShaped ==
    ASSUME NEW i
    PROVE  /\ DOMAIN PyPlan(i) = PlanFields /\ DOMAIN RsPlan(i) = PlanFields
           /\ PyPlan(i).authorized_by = i.token.id
           /\ RsPlan(i).authorized_by = i.token.id
           /\ PyPlan(i).mode = i.manifest.body.mode
           /\ RsPlan(i).mode = i.manifest.body.mode
BY DEF PyPlan, RsPlan, PlanOf, PlanFields

\* What either planner accepts is signed, over this body, with a key listed
\* under the signer's name.
LEMMA AcceptedIsSigned ==
    ASSUME NEW i, PyPlans(i) \/ RsPlans(i)
    PROVE  /\ i.manifest.signature.payload.body = i.manifest.body
           /\ \E k \in SignerKeys(i) : i.manifest.signature.key = i.keys[k].material
<1> DEFINE signature == i.manifest.signature
           body == i.manifest.body
<1>1. CASE PyPlans(i)
  <2>1. PICK k \in DOMAIN i.keys : /\ PySignerAt(i.keys, body.signer, k)
                                   /\ PyAccepts(i.manifest, i.keys[k])
    BY <1>1 DEF PyPlans, PyTrusts
  <2>2. signature.payload = PyPayload(body) /\ signature.key = i.keys[k].material
    BY <2>1 DEF PyAccepts, PyVerifies
  <2>3. k \in SignerKeys(i)
    BY <2>1 DEF PySignerAt, SignerKeys
  <2> QED
    BY <2>2, <2>3 DEF PyPayload, Payload
<1>2. CASE RsPlans(i)
  <2>1. PICK k \in DOMAIN i.keys : /\ RsSignerAt(i.keys, body.signer, k)
                                   /\ RsVerifies(i.manifest, i.keys[k])
    BY <1>2 DEF RsPlans, RsTrusts
  <2>2. signature.payload = RsPayload(body) /\ signature.key = i.keys[k].material
    BY <2>1 DEF RsVerifies
  <2>3. k \in SignerKeys(i)
    BY <2>1 DEF RsSignerAt, SignerKeys
  <2> QED
    BY <2>2, <2>3 DEF RsPayload, Payload
<1> QED
  BY <1>1, <1>2

\* In a valid menu the default id names one entry, which fits the manifest.
LEMMA DefaultEntryMatches ==
    ASSUME NEW menu, NEW body, MenuValid(menu, body)
    PROVE  LET chosen == {n \in DOMAIN menu.entries :
                             menu.entries[n].id = menu.default_id}
           IN  /\ chosen # {}
               /\ \A n \in chosen : EntryMatches(menu.entries[n], body)
<1>1. PICK d \in DOMAIN menu.entries : /\ menu.entries[d].id = menu.default_id
                                       /\ EntryMatches(menu.entries[d], body)
  BY DEF MenuValid
<1>2. \A n \in DOMAIN menu.entries : menu.entries[n].id = menu.default_id => n = d
  BY <1>1 DEF MenuValid
<1> QED
  BY <1>1, <1>2

-----------------------------------------------------------------------------
(***************************************************************************)
(* The rest is about an input outside the known differences.               *)
(***************************************************************************)
\* A time that the signer's key is checked at.
LEMMA InstantTyped == ASSUME NEW i \in Inputs PROVE Instant(i) \in Int
BY InputsAssumption DEF Instant, OptionalTime

\* Both look at a key alike, at the same time.
LEMMA KeysValidAlike ==
    ASSUME NEW i \in Inputs, NEW k \in DOMAIN i.keys, NEW at \in Int,
           i.keys[k].reason # "blank"
    PROVE  PyKeyValid(i.keys[k], at) <=> RsKeyValid(i.keys[k], at)
<1> DEFINE key == i.keys[k]
<1>1. key.not_before \in OptionalTime /\ key.not_after \in OptionalTime
  BY InputsAssumption
<1>2. key.not_before # NoTime => (at >= key.not_before <=> ~(at < key.not_before))
  BY <1>1 DEF OptionalTime
<1>3. key.not_after # NoTime => (at < key.not_after <=> ~(at >= key.not_after))
  BY <1>1 DEF OptionalTime
<1> HIDE DEF key
<1>4. PyKeyValid(key, at) <=> (RsKeyValid(key, at) \/ (PyKeyValid(key, at) /\ key.reason = "blank"))
  BY <1>2, <1>3 DEF PyKeyValid, PyKeyParses, PyKeyAlive, RsKeyValid
<1> QED
  BY <1>4 DEF key

\* The signer has one key, so the first is the last.
LEMMA SignerAlike ==
    ASSUME NEW i \in Inputs, ~KnownDifference(i), NEW k \in DOMAIN i.keys
    PROVE  PySignerAt(i.keys, i.manifest.body.signer, k)
              <=> RsSignerAt(i.keys, i.manifest.body.signer, k)
<1> DEFINE ref == i.manifest.body.signer
<1>1. DOMAIN i.keys = 1 .. Len(i.keys) /\ Len(i.keys) \in Nat
  BY InputsAssumption
<1>2. \A j \in DOMAIN i.keys : i.keys[j].ref = ref /\ i.keys[k].ref = ref => j = k
  BY DEF KnownDifference, SignerKeys
<1>3. \A j \in 1 .. k - 1 : j \in DOMAIN i.keys /\ j # k
  BY <1>1
<1>4. \A j \in k + 1 .. Len(i.keys) : j \in DOMAIN i.keys /\ j # k
  BY <1>1
<1> QED
  BY <1>2, <1>3, <1>4 DEF PySignerAt, RsSignerAt

\* Of a plain manifest they verify the same signatures, if keys have a usual length.
LEMMA VerifiesAlike ==
    ASSUME NEW i \in Inputs, ~KnownDifference(i), NEW k \in SignerKeys(i)
    PROVE  PyAccepts(i.manifest, i.keys[k]) <=> RsVerifies(i.manifest, i.keys[k])
<1>1. i.manifest.body.text = "plain"
  BY DEF KnownDifference
<1>2. PyPayload(i.manifest.body) = RsPayload(i.manifest.body)
  BY <1>1 DEF PyPayload, RsPayload, Payload
<1>3. FromHex(i.manifest.signature) <=> i.manifest.signature.hex = "hex"
  BY DEF KnownDifference, FromHex
<1>4. ~(i.keys[k].bits < 2048) /\ ~(i.keys[k].bits > 4096)
  BY DEF KnownDifference
<1>5. i.keys[k].bits \in Int
  BY InputsAssumption DEF SignerKeys
<1>6. i.keys[k].bits >= 2048 /\ i.keys[k].bits <= 4096
  BY <1>4, <1>5
<1> QED
  BY <1>2, <1>3, <1>6 DEF PyAccepts, PyVerifies, RsVerifies

\* They accept the same manifests, under the same keys.
LEMMA ManifestsAlike ==
    ASSUME NEW i \in Inputs, ~KnownDifference(i)
    PROVE  PyTrusts(i) /\ PyManifestValid(i) <=> RsTrusts(i) /\ RsManifestValid(i)
<1> DEFINE body == i.manifest.body
<1>1. i.wall \in Int /\ Instant(i) \in Int /\ i.fips \in BOOLEAN
  BY InstantTyped, InputsAssumption
<1>2. /\ ~i.fips => body.profile = Profile
      /\ body.artifacts \notin {"blank", "untyped"}
      /\ body.menu # NoMenu => MenuValid(body.menu, body)
  BY <1>1 DEF KnownDifference
<1>3. ASSUME NEW k \in DOMAIN i.keys
      PROVE  PyKeyValid(i.keys[k], i.wall) = PyKeyValid(i.keys[k], Instant(i))
  BY DEF KnownDifference
<1>4. ASSUME NEW k \in DOMAIN i.keys, k \in SignerKeys(i)
      PROVE  PyKeyValid(i.keys[k], i.wall) <=> RsKeyValid(i.keys[k], Instant(i))
  <2>1. i.keys[k].reason # "blank"
    BY <1>4 DEF KnownDifference
  <2>2. PyKeyValid(i.keys[k], Instant(i)) <=> RsKeyValid(i.keys[k], Instant(i))
    BY <1>1, <2>1, KeysValidAlike
  <2> QED
    BY <2>2, <1>3
<1>5. ASSUME PyTrusts(i), PyManifestValid(i)
      PROVE  RsTrusts(i) /\ RsManifestValid(i)
  <2>1. PICK k \in DOMAIN i.keys :
           /\ PySignerAt(i.keys, body.signer, k)
           /\ i.keys[k].algorithm = body.algorithm
           /\ PyAccepts(i.manifest, i.keys[k])
    BY <1>5 DEF PyTrusts
  <2>2. k \in SignerKeys(i)
    BY <2>1 DEF PySignerAt, SignerKeys
  <2>3. RsKeyValid(i.keys[k], Instant(i))
    BY <1>4, <1>5, <2>2 DEF PyTrusts, KeysLoad
  <2>4. RsSignerAt(i.keys, body.signer, k) /\ RsVerifies(i.manifest, i.keys[k])
    BY <2>1, <2>2, SignerAlike, VerifiesAlike
  <2>5. RsTrusts(i)
    BY <2>1, <2>3, <2>4 DEF RsTrusts
  <2>6. RsManifestValid(i)
    BY <1>2, <1>5 DEF PyTrusts, PyManifestValid, RsManifestValid
  <2> QED
    BY <2>5, <2>6
<1>6. ASSUME RsTrusts(i), RsManifestValid(i)
      PROVE  PyTrusts(i) /\ PyManifestValid(i)
  <2>1. PICK k \in DOMAIN i.keys :
           /\ RsSignerAt(i.keys, body.signer, k)
           /\ RsKeyValid(i.keys[k], Instant(i))
           /\ i.keys[k].algorithm = body.algorithm
           /\ RsVerifies(i.manifest, i.keys[k])
    BY <1>6 DEF RsTrusts
  <2>2. k \in SignerKeys(i)
    BY <2>1 DEF RsSignerAt, SignerKeys
  <2>3. PyKeyValid(i.keys[k], i.wall)
    BY <1>4, <2>1, <2>2
  <2>4. \A n \in DOMAIN i.keys \ SignerKeys(i) : PyKeyValid(i.keys[n], i.wall)
    BY DEF KnownDifference
  <2>5. \A n \in SignerKeys(i) : n = k
    BY <2>2 DEF KnownDifference
  <2>6. KeysLoad(i.keys, i.wall)
    BY <2>3, <2>4, <2>5 DEF KeysLoad
  <2>7. PySignerAt(i.keys, body.signer, k) /\ PyAccepts(i.manifest, i.keys[k])
    BY <2>1, <2>2, SignerAlike, VerifiesAlike
  <2>8. body.algorithm = Algorithm
    BY <2>1 DEF RsKeyValid
  <2>9. body.profile = Profile
    BY <1>1, <1>2, <1>6 DEF RsManifestValid
  <2>10. PyTrusts(i)
    BY <2>1, <2>6, <2>7, <2>8, <2>9 DEF PyTrusts
  <2>11. PyManifestValid(i)
    BY <1>2, <1>6, <2>8, <2>9 DEF RsManifestValid, PyManifestValid
  <2> QED
    BY <2>10, <2>11
<1> QED
  BY <1>5, <1>6

\* ... and the same tokens for them.
LEMMA TokensAlike ==
    ASSUME NEW i \in Inputs, ~KnownDifference(i), i.manifest.body.mode \in Modes
    PROVE  PyTokenValid(i) <=> RsTokenValid(i)
<1> DEFINE mode == i.manifest.body.mode
           t == i.token
<1>1. i.token.subject_id # "blank" /\ ~(t.issued_at >= t.expires_at)
  BY DEF KnownDifference
<1>2. t.issued_at \in Int /\ t.expires_at \in Int
  BY InputsAssumption
<1>3. RsAlive(t, Instant(i)) <=> Instant(i) < t.expires_at
  BY <1>1, <1>2 DEF RsAlive
<1>4. t.purpose \in PurposesOf[mode] <=>
         CASE mode = "recovery"  -> t.purpose \in {"recovery", "repair"}
           [] mode = "installer" -> t.purpose \in {"enroll", "boot"}
           [] mode = "ephemeral" -> t.purpose = "boot"
           [] mode = "bootstrap" -> t.purpose \in {"enroll", "boot"}
           [] OTHER              -> FALSE
  <2>1. CASE mode = "recovery"
    BY <2>1 DEF PurposesOf
  <2>2. CASE mode = "installer"
    BY <2>2 DEF PurposesOf
  <2>3. CASE mode = "ephemeral"
    BY <2>3 DEF PurposesOf
  <2>4. CASE mode = "bootstrap"
    BY <2>4 DEF PurposesOf
  <2> QED
    BY <2>1, <2>2, <2>3, <2>4 DEF Modes
<1> QED
  BY <1>1, <1>3, <1>4 DEF PyTokenValid, RsTokenValid

\* The tables of the two programs say the same for every boot mode.
LEMMA TablesAlike ==
    ASSUME NEW mode \in Modes
    PROVE  /\ PyAction[mode] = RsAction(mode)
           /\ PyOperations[mode] = RsOperations(mode)
           /\ PyProofs(mode) = RsProofs(mode)
           /\ PyFallback(mode) = RsFallback(mode)
<1>1. PyAction[mode] = RsAction(mode)
  BY DEF Modes, PyAction, RsAction
<1>2. PyOperations[mode] = RsOperations(mode)
  <2>1. CASE mode = "recovery"
    BY <2>1 DEF PyOperations, RsOperations
  <2>2. CASE mode = "installer"
    BY <2>2 DEF PyOperations, RsOperations
  <2>3. CASE mode = "ephemeral"
    BY <2>3 DEF PyOperations, RsOperations
  <2>4. CASE mode = "bootstrap"
    BY <2>4 DEF PyOperations, RsOperations
  <2> QED
    BY <2>1, <2>2, <2>3, <2>4 DEF Modes
<1>3. PyProofs(mode) = RsProofs(mode) /\ PyFallback(mode) = RsFallback(mode)
  BY DEF PyProofs, RsProofs, PyFallback, RsFallback
<1> QED
  BY <1>1, <1>2, <1>3

\* So the plans differ in the selected entry alone.
LEMMA PlansAlike ==
    ASSUME NEW i, i.manifest.body.mode \in Modes
    PROVE  \A field \in PlanFields \ {"selected_entry"} : RsPlan(i)[field] = PyPlan(i)[field]
<1>1. /\ RsPlan(i).action = PyPlan(i).action
      /\ RsPlan(i).operations = PyPlan(i).operations
      /\ RsPlan(i).proofs = PyPlan(i).proofs
      /\ RsPlan(i).fallback = PyPlan(i).fallback
  BY TablesAlike DEF PyPlan, RsPlan, PlanOf
<1>2. /\ RsPlan(i).release = PyPlan(i).release
      /\ RsPlan(i).base = PyPlan(i).base
      /\ RsPlan(i).artifacts = PyPlan(i).artifacts
      /\ RsPlan(i).mode = PyPlan(i).mode
      /\ RsPlan(i).authorized_by = PyPlan(i).authorized_by
      /\ RsPlan(i).execute = PyPlan(i).execute
  BY DEF PyPlan, RsPlan, PlanOf
<1> QED
  BY <1>1, <1>2 DEF PlanFields

-----------------------------------------------------------------------------
(***************************************************************************)
(* The outcomes are outcomes: a plan has the fields of a boot plan, names  *)
(* its token as its authority, and has one of the four boot modes          *)
(* (protocol.py:385-410, main.rs:452-469).                                 *)
(***************************************************************************)
THEOREM TypeCorrect == Spec => []TypeOK
<1>1. PInv => TypeOK
  BY OutcomeIsPlan, PlansAreShaped DEF PInv, TypeOK, PyPlans, RsPlans, PyManifestValid,
     RsManifestValid
<1> QED
  BY <1>1, PlannerInvariance, PTL

(***************************************************************************)
(* For any documents and options: no plan without a signature over this    *)
(* very body, by a key listed under the signer's name (cli.py:28-45,       *)
(* main.rs:319-357).                                                       *)
(***************************************************************************)
THEOREM PlansAreSigned == Spec => []PlanIsSigned
<1>1. PInv => PlanIsSigned
  BY OutcomeIsPlan, AcceptedIsSigned DEF PlanIsSigned
<1> QED
  BY <1>1, PlannerInvariance, PTL

(***************************************************************************)
(* For any menu: the entry Python's plan selects is one of the signed      *)
(* menu, and every entry of this id boots the release and mode of the      *)
(* manifest (protocol.py:123-158).                                         *)
(***************************************************************************)
THEOREM SelectedEntriesFitTheManifest == Spec => []SelectedEntryBound
<1>1. ASSUME PInv, IsPlan(python), input.manifest.body.menu # NoMenu
      PROVE  /\ MenuValid(input.manifest.body.menu, input.manifest.body)
             /\ python.selected_entry = input.manifest.body.menu.default_id
  BY <1>1, OutcomeIsPlan DEF PyPlans, PyManifestValid, PyPlan, PlanOf
<1>2. PInv => SelectedEntryBound
  BY <1>1, DefaultEntryMatches DEF SelectedEntryBound
<1> QED
  BY <1>2, PlannerInvariance, PTL

(***************************************************************************)
(* For any documents, options and clock outside the known differences: the *)
(* Rust planner accepts what the Python reference accepts, and plans the   *)
(* same (RUST_STANCE_AND_MATURITY.md:71-73).                               *)
(***************************************************************************)
THEOREM PlannersAreEqual == Spec => []PlannersAgree
<1>1. ASSUME PInv, python # Pending, rust # Pending, ~KnownDifference(input)
      PROVE  /\ IsPlan(python) <=> IsPlan(rust)
             /\ IsPlan(python) =>
                   \A field \in PlanFields \ {"selected_entry"} :
                      rust[field] = python[field]
  <2>1. input \in Inputs
    BY <1>1 DEF PInv
  <2>2. PyPlans(input) <=> RsPlans(input)
    <3>1. input.readers = {"python", "rust"}
      BY <1>1 DEF KnownDifference
    <3> QED
      BY <1>1, <2>1, <3>1, ManifestsAlike, TokensAlike
         DEF PyPlans, RsPlans, PyManifestValid, RsManifestValid
  <2>3. PyPlans(input) => input.manifest.body.mode \in Modes
    BY DEF PyPlans, PyManifestValid
  <2>4. CASE PyPlans(input)
    <3>1. python = PyPlan(input) /\ rust = RsPlan(input)
      BY <1>1, <2>2, <2>4 DEF PInv
    <3>2. IsPlan(python) /\ IsPlan(rust)
      BY <2>1, <2>3, <2>4, <3>1, OutcomesAssumption DEF IsPlan
    <3> QED
      BY <2>3, <2>4, <3>1, <3>2, PlansAlike
  <2>5. CASE ~PyPlans(input)
    BY <1>1, <2>2, <2>5 DEF PInv, IsPlan
  <2> QED
    BY <2>4, <2>5
<1>2. PInv => PlannersAgree
  BY <1>1 DEF PlannersAgree
<1> QED
  BY <1>2, PlannerInvariance, PTL
=============================================================================
