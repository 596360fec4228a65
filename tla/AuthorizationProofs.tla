-------------------------- MODULE AuthorizationProofs --------------------------
(***************************************************************************)
(* Proofs about the composition of registry, planners and client, for any  *)
(* devices, codes, requests, tokens, manifests and trusted keys.           *)
(***************************************************************************)
EXTENDS Authorization, EnrollmentProofs

(***************************************************************************)
(* The inductive invariant follows the authority from the binding into the *)
(* token, from token and manifest into the plan, and from the plan into    *)
(* what is fetched, loaded and booted.                                     *)
(***************************************************************************)
RenderedFrom(token, b) ==
    token.doc = TokenPayload(b, token.doc.id, token.doc.subject_kind)

TokensRendered ==
    \A t \in tokens : /\ t.code \in Codes
                      /\ BindingFor(t.code) # NoBinding
                      /\ RenderedFrom(t, BindingFor(t.code))

\* Some code authorizes the plan, and its artifacts are signed for.
CoveredByCode(plan) ==
    \E code \in Codes : BindingFor(code) # NoBinding /\ Covers(BindingFor(code), plan)
SignedFor(plan) ==
    \E m \in Manifests :
       /\ Authentic(m)
       /\ plan.release = m.body.release /\ plan.base = m.body.base
       /\ plan.mode = m.body.mode
       /\ plan.artifacts = Rules!AsStrings(m.body.artifacts)

PlansAuthorized ==
    \A file \in plans : /\ file.token \in tokens
                        /\ CoveredByCode(file.plan)
                        /\ SignedFor(file.plan)

\* Only what plan files name is fetched, loaded and booted.
FromPlans ==
    /\ fetched \subseteq plans
    /\ {image, booted} \subseteq plans \cup {Nothing}

\* A code expires later than it is issued.
Lifetimes ==
    \A code \in Codes :
       BindingFor(code) # NoBinding =>
          BindingFor(code).issued_at < BindingFor(code).expires_at

AInv == TokensRendered /\ PlansAuthorized /\ FromPlans /\ Lifetimes

-----------------------------------------------------------------------------
\* The composition does to the registry what the registry does.
LEMMA RefinesRegistry == AuthSpec => Spec
<1>1. AuthInit => Init
  BY DEF AuthInit
<1>2. [AuthNext]_allVars => [Next]_vars
  BY DEF AuthNext, Office, Render, MakePlan, Fetch, Load, Exec, allVars
<1> QED
  BY <1>1, <1>2, PTL DEF AuthSpec, Spec

(***************************************************************************)
(* So rendering, planning, fetching, loading and booting take nothing away *)
(* from what the registry promises: its codes buy one credential each, for *)
(* the device that proves possession of its key, bindings never change,    *)
(* and the registry implements the one-time code (enrollment.py:78-204).   *)
(***************************************************************************)
THEOREM RegistryIsUndisturbed ==
    AuthSpec => /\ [](SingleUse /\ SessionAuthorized /\ SessionPossession /\ OwnerCanRedeem)
                /\ BindingImmutable
                /\ ImplementsOneTimeCode
BY RefinesRegistry, CodesAreSingleUse, SessionsAreAuthorized, SessionsProvePossession,
   OwnersCanRedeem, BindingsAreImmutable, RegistryImplementsOneTimeCode, PTL

(***************************************************************************)
(* And the client's half is the Handoff that ClientHandoff implements: the *)
(* composition assumes no more of fetch, load and exec than what is shown  *)
(* of their interleaved, failing and killed steps (main.rs:526-724).       *)
(***************************************************************************)
THEOREM ClientHalfIsHandoff == AuthSpec => Client!HandoffSpec
<1>1. AuthInit => Client!HandoffInit
  BY DEF AuthInit
<1>2. ASSUME NEW file \in plans, Fetch(file) \/ Load(file) \/ Exec(file)
      PROVE  Client!HandoffNext
  BY <1>2 DEF Fetch, Load, Exec, Client!HandoffNext, Client!Fetched
<1>3. [AuthNext]_allVars => [Client!HandoffNext]_(Client!handoffVars)
  BY <1>2 DEF AuthNext, Office, Render, MakePlan, allVars, docs, client,
              Client!handoffVars
<1> QED
  BY <1>1, <1>3, PTL DEF AuthSpec, Client!HandoffSpec

\* A binding stays what was issued.
LEMMA BindingKept ==
    ASSUME IInv, [Next]_vars, NEW code \in Codes, BindingFor(code) # NoBinding
    PROVE  /\ BindingFor(code)' # NoBinding
           /\ BindingFor(code)'.purpose = BindingFor(code).purpose
           /\ BindingFor(code)'.release_set_ref = BindingFor(code).release_set_ref
           /\ BindingFor(code)'.boot_release_set_ref = BindingFor(code).boot_release_set_ref
           /\ BindingFor(code)'.device_id = BindingFor(code).device_id
           /\ BindingFor(code)'.issued_at = BindingFor(code).issued_at
           /\ BindingFor(code)'.expires_at = BindingFor(code).expires_at
<1> DEFINE h == HashCode(code)
           b == bindings[h]
<1>1. h \in Hashes /\ bindings \in [Hashes -> Bindings \cup {NoBinding}]
  BY DEF IInv, TypeOK, Hashes
<1>2. b \in Bindings
  BY <1>1 DEF BindingFor
<1>3. \/ bindings'[h] = b
      \/ bindings'[h] = [b EXCEPT !.remaining_uses = 0]
  <2>1. CASE bindings' = bindings
    BY <2>1
  <2>2. ASSUME NEW other \in Codes, NEW c \in Bindings,
               bindings[HashCode(other)] = NoBinding,
               bindings' = [bindings EXCEPT ![HashCode(other)] = c]
        PROVE  bindings'[h] = b
    <3>1. HashCode(other) # h
      BY <2>2 DEF BindingFor
    <3> QED
      BY <1>1, <2>2, <3>1
  <2>3. ASSUME NEW other \in Codes, NEW c \in Bindings,
               c = bindings[HashCode(other)], c.remaining_uses = 1,
               bindings' = [bindings EXCEPT ![HashCode(other)] = Spent(c)]
        PROVE  bindings'[h] = b \/ bindings'[h] = [b EXCEPT !.remaining_uses = 0]
    <3>1. HashCode(other) = h => c = b
      BY <2>3
    <3>2. Spent(c) = [c EXCEPT !.remaining_uses = 0]
      BY <2>3 DEF Spent, Bindings
    <3> HIDE DEF h
    <3>3. HashCode(other) # h => bindings'[h] = b
      BY <1>1, <2>3
    <3>4. HashCode(other) = h => bindings'[h] = Spent(c)
      BY <1>1, <2>3
    <3> QED
      BY <3>1, <3>2, <3>3, <3>4
  <2> QED
    BY <2>1, <2>2, <2>3, RegistryStep
<1>4. [b EXCEPT !.remaining_uses = 0] \in Bindings
  BY <1>2 DEF Bindings
<1>5. bindings'[h] \in Bindings
  BY <1>2, <1>3, <1>4
<1>6. bindings'[h] # NoBinding
  BY <1>5, NoBindingAssumption
<1> HIDE DEF h
<1>7. /\ bindings'[h].purpose = b.purpose
      /\ bindings'[h].release_set_ref = b.release_set_ref
      /\ bindings'[h].boot_release_set_ref = b.boot_release_set_ref
      /\ bindings'[h].device_id = b.device_id
      /\ bindings'[h].issued_at = b.issued_at
      /\ bindings'[h].expires_at = b.expires_at
  BY <1>2, <1>3 DEF Bindings
<1> QED
  BY <1>6, <1>7 DEF BindingFor, h

\* So what a code authorizes, and which code it was rendered for, stays true.
LEMMA AuthorityKept ==
    ASSUME IInv, [Next]_vars
    PROVE  /\ \A plan : CoveredByCode(plan) => CoveredByCode(plan)'
           /\ TokensRendered /\ tokens' = tokens => TokensRendered'
<1>1. ASSUME NEW plan, CoveredByCode(plan) PROVE CoveredByCode(plan)'
  <2>1. PICK code \in Codes :
           BindingFor(code) # NoBinding /\ Covers(BindingFor(code), plan)
    BY <1>1 DEF CoveredByCode
  <2>2. BindingFor(code)' # NoBinding /\ Covers(BindingFor(code), plan)'
    BY <2>1, BindingKept DEF Covers
  <2> QED
    BY <2>2 DEF CoveredByCode
<1>2. ASSUME TokensRendered, tokens' = tokens PROVE TokensRendered'
  BY <1>2, BindingKept DEF TokensRendered, RenderedFrom, TokenPayload
<1> QED
  BY <1>1, <1>2

\* issue() asks for a positive lifetime, and nothing else sets one.
LEMMA LifetimesKept ==
    ASSUME IInv, Lifetimes, [Next]_vars
    PROVE  Lifetimes'
<1> SUFFICES ASSUME NEW code \in Codes, BindingFor(code)' # NoBinding
             PROVE  BindingFor(code)'.issued_at < BindingFor(code)'.expires_at
  BY DEF Lifetimes
<1>1. CASE BindingFor(code) # NoBinding
  BY <1>1, BindingKept DEF Lifetimes
<1>2. CASE BindingFor(code) = NoBinding
  <2>1. ASSUME NEW other \in Codes, NEW request \in IssueRequests,
               NEW claim \in PresentedClaims, Issue(other, claim, request)
        PROVE  BindingFor(code)'.issued_at < BindingFor(code)'.expires_at
    <3>1. bindings' = [bindings EXCEPT ![HashCode(other)] = NewBinding(other, claim, request)]
      BY <2>1 DEF Issue
    <3>2. HashCode(other) = HashCode(code)
      BY <1>2, <3>1 DEF BindingFor, IInv, TypeOK, Hashes
    <3>3. BindingFor(code)' = NewBinding(other, claim, request)
      BY <3>1, <3>2 DEF BindingFor, IInv, TypeOK, Hashes
    <3>4. clock \in Int /\ request.ttl_seconds \in Int /\ request.ttl_seconds > 0
      BY <2>1, TimesAssumption, RequestsAssumption
         DEF Issue, WellFormed, Arguments, IInv, TypeOK
    <3> QED
      BY <3>3, <3>4 DEF NewBinding
  <2>2. ASSUME NEW other \in Codes, NEW ref \in Refs, NEW sid \in SessionIds,
               NEW ttl \in SessionTTLs, NEW claim \in PresentedClaims,
               Redeem(other, claim, ref, sid, ttl)
        PROVE  FALSE
    <3>1. /\ BindingFor(other) # NoBinding
          /\ bindings' = [bindings EXCEPT ![HashCode(other)] = Spent(BindingFor(other))]
      BY <2>2, RedeemFacts DEF Redeem
    <3>2. HashCode(other) = HashCode(code)
      BY <1>2, <3>1 DEF BindingFor, IInv, TypeOK, Hashes
    <3> QED
      BY <1>2, <3>1, <3>2 DEF BindingFor
  <2>3. ASSUME NEW other \in Codes, NEW ref \in Refs, NEW ttl \in SessionTTLs,
               NEW claim \in PresentedClaims, RedeemOverflows(other, claim, ref, ttl)
        PROVE  FALSE
    <3>1. /\ BindingFor(other) # NoBinding
          /\ bindings' = [bindings EXCEPT ![HashCode(other)] = Spent(BindingFor(other))]
      BY <2>3, RedeemFacts DEF RedeemOverflows
    <3>2. HashCode(other) = HashCode(code)
      BY <1>2, <3>1 DEF BindingFor, IInv, TypeOK, Hashes
    <3> QED
      BY <1>2, <3>1, <3>2 DEF BindingFor
  <2>4. bindings' # bindings
    BY <1>2 DEF BindingFor
  <2> QED
    BY <2>1, <2>2, <2>3, <2>4 DEF Next, SetClock, MakeClaim, vars
<1> QED
  BY <1>1, <1>2

-----------------------------------------------------------------------------
\* The Rust planner asks for a purpose of the manifest's mode, too.
LEMMA RustPurpose ==
    ASSUME NEW i, NEW mode \in Rules!Modes, mode = i.manifest.body.mode
    PROVE  Rules!RsTokenValid(i) <=>
              /\ Named(i.token) /\ i.token.purpose \in Rules!Purposes
              /\ i.token.status = "issued"
              /\ Rules!RsAlive(i.token, Rules!Instant(i))
              /\ i.token.one_time_use
              /\ i.token.boot_release_set_ref = i.manifest.body.release
              /\ i.token.release_set_ref = i.manifest.body.base
              /\ i.token.purpose \in Rules!PurposesOf[mode]
              /\ i.token.subject_id # "blank"
<1> DEFINE purpose == i.token.purpose
<1>1. purpose \in Rules!PurposesOf[mode] <=>
        CASE mode = "recovery"  -> purpose \in {"recovery", "repair"}
          [] mode = "installer" -> purpose \in {"enroll", "boot"}
          [] mode = "ephemeral" -> purpose = "boot"
          [] mode = "bootstrap" -> purpose \in {"enroll", "boot"}
          [] OTHER              -> FALSE
  <2> HIDE DEF purpose
  <2>1. CASE mode = "recovery"
    BY <2>1 DEF Rules!PurposesOf
  <2>2. CASE mode = "installer"
    BY <2>2 DEF Rules!PurposesOf
  <2>3. CASE mode = "ephemeral"
    BY <2>3 DEF Rules!PurposesOf
  <2>4. CASE mode = "bootstrap"
    BY <2>4 DEF Rules!PurposesOf
  <2> QED
    BY <2>1, <2>2, <2>3, <2>4 DEF Rules!Modes
<1> QED
  BY <1>1 DEF Rules!RsTokenValid, Named

\* What a rendered token says, field by field.
LEMMA TokenFields ==
    ASSUME TokensRendered, NEW t \in tokens
    PROVE  LET b == BindingFor(t.code)
           IN  /\ t.code \in Codes /\ b # NoBinding
               /\ t.doc.purpose = b.purpose /\ t.doc.subject_id = b.device_id
               /\ t.doc.release_set_ref = b.release_set_ref
               /\ t.doc.boot_release_set_ref = b.boot_release_set_ref
               /\ t.doc.issued_at = b.issued_at /\ t.doc.expires_at = b.expires_at
               /\ t.doc.one_time_use = TRUE /\ t.doc.status = "issued"
<1> DEFINE b == BindingFor(t.code)
<1>1. /\ t.code \in Codes /\ b # NoBinding
      /\ t.doc = TokenPayload(b, t.doc.id, t.doc.subject_kind)
  BY DEF TokensRendered, RenderedFrom
<1> HIDE DEF b
<1> QED
  BY <1>1 DEF TokenPayload, b

\* What a planner accepts is signed, and the token's binding covers it and is alive.
LEMMA AcceptedIsAuthorized ==
    ASSUME TokensRendered, NEW t \in tokens, NEW m \in Manifests,
           NEW planner \in Planners, Accepted(planner, t, m)
    PROVE  LET b == BindingFor(t.code)
           IN  /\ Authentic(m) /\ Covers(b, m.body)
               /\ clock < b.expires_at
<1> DEFINE i == InputOf(t, m)
           body == m.body
<1>1. /\ i.manifest = m /\ i.token = t.doc /\ i.keys = KeyDocument
      /\ Rules!Instant(i) = clock
  BY DEF InputOf, Rules!Instant
<1>2. SUFFICES /\ Authentic(m)
               /\ t.doc.boot_release_set_ref = body.release
               /\ t.doc.release_set_ref = body.base
               /\ t.doc.purpose \in Rules!PurposesOf[body.mode]
               /\ clock < t.doc.expires_at
  BY TokenFields DEF Covers
<1>3. CASE planner = "python"
  <2>1. Rules!PyTrusts(i) /\ Rules!PyManifestValid(i) /\ Rules!PyTokenValid(i)
    BY <1>3 DEF Accepted, Rules!PyPlans
  <2>2. Authentic(m)
    BY <1>1, <2>1 DEF Rules!PyTrusts, Rules!PyAccepts, Rules!PyVerifies,
                      Rules!PyPayload, Rules!Payload, Rules!PySignerAt, Authentic
  <2> QED
    BY <1>1, <2>1, <2>2 DEF Rules!PyTokenValid
<1>4. CASE planner # "python"
  <2>1. Rules!RsTrusts(i) /\ Rules!RsManifestValid(i) /\ Rules!RsTokenValid(i)
    BY <1>4 DEF Accepted, Rules!RsPlans
  <2>2. Authentic(m)
    BY <1>1, <2>1 DEF Rules!RsTrusts, Rules!RsVerifies, Rules!RsPayload,
                      Rules!Payload, Rules!RsSignerAt, Authentic
  <2>3. body.mode \in Rules!Modes
    BY <1>1, <2>1 DEF Rules!RsManifestValid
  <2>4. t.doc.purpose \in Rules!PurposesOf[body.mode] /\ Rules!RsAlive(t.doc, clock)
    BY <1>1, <2>1, <2>3, RustPurpose
  <2>5. t.doc.boot_release_set_ref = body.release /\ t.doc.release_set_ref = body.base
    BY <1>1, <2>1 DEF Rules!RsTokenValid
  <2> QED
    BY <2>2, <2>4, <2>5 DEF Rules!RsAlive
<1> QED
  BY <1>3, <1>4

\* So a plan made from a rendered token and a manifest is authorized by the token's
\* code, and the manifest was signed.
LEMMA PlanIsAuthorized ==
    ASSUME TokensRendered, NEW t \in tokens, NEW m \in Manifests,
           NEW planner \in Planners, Accepted(planner, t, m), NEW plan,
           plan = IF planner = "python" THEN Rules!PyPlan(InputOf(t, m))
                                        ELSE Rules!RsPlan(InputOf(t, m))
    PROVE  CoveredByCode(plan) /\ SignedFor(plan)
<1>1. InputOf(t, m).manifest = m
  BY DEF InputOf
<1>2. /\ plan.release = m.body.release /\ plan.base = m.body.base
      /\ plan.mode = m.body.mode /\ plan.artifacts = Rules!AsStrings(m.body.artifacts)
  BY <1>1 DEF Rules!PyPlan, Rules!RsPlan, Rules!PlanOf
<1>3. Authentic(m) /\ Covers(BindingFor(t.code), m.body)
  BY AcceptedIsAuthorized
<1> QED
  BY <1>2, <1>3, TokenFields DEF CoveredByCode, Covers, SignedFor

LEMMA AInvariance == AuthSpec => []AInv
<1>1. AuthInit => AInv
  BY DEF AuthInit, Init, AInv, TokensRendered, PlansAuthorized, FromPlans, Lifetimes,
         BindingFor, Hashes, Client!HandoffInit
<1>2. IInv /\ AInv /\ [AuthNext]_allVars => AInv'
  <2> SUFFICES ASSUME IInv, AInv, [AuthNext]_allVars
               PROVE  AInv'
    OBVIOUS
  <2>1. [Next]_vars
    BY DEF AuthNext, Office, Render, MakePlan, Fetch, Load, Exec, allVars
  <2>2. /\ \A plan : CoveredByCode(plan) => CoveredByCode(plan)'
        /\ \A plan : SignedFor(plan) => SignedFor(plan)'
        /\ tokens' = tokens => TokensRendered'
        /\ Lifetimes'
    BY <2>1, AuthorityKept, LifetimesKept DEF AInv, SignedFor, Authentic
  <2>3. ASSUME plans' = plans, tokens \subseteq tokens' PROVE PlansAuthorized'
    BY <2>2, <2>3 DEF AInv, PlansAuthorized
  <2>4. CASE Office \/ UNCHANGED allVars
    BY <2>2, <2>3, <2>4 DEF AInv, FromPlans, Office, docs, client, allVars
  <2>5. ASSUME NEW code \in Codes, NEW id \in TokenIds, NEW kind \in SubjectKinds,
               Render(code, id, kind)
        PROVE  AInv'
    <3> DEFINE new == [code |-> code, doc |-> TokenPayload(BindingFor(code), id, kind)]
    <3>1. /\ tokens' = tokens \cup {new} /\ BindingFor(code) # NoBinding
          /\ bindings' = bindings /\ UNCHANGED <<plans, fetched, image, booted>>
      BY <2>5 DEF Render, vars, client
    <3>2. new.code = code /\ RenderedFrom(new, BindingFor(code))
      BY DEF RenderedFrom, TokenPayload
    <3> HIDE DEF new
    <3>3. TokensRendered'
      BY <3>1, <3>2 DEF AInv, TokensRendered, RenderedFrom, BindingFor
    <3> QED
      BY <2>2, <2>3, <3>1, <3>3 DEF AInv, FromPlans
  <2>6. ASSUME NEW planner \in Planners, NEW t \in tokens, NEW m \in Manifests,
               NEW bare \in BOOLEAN, MakePlan(planner, t, m, bare)
        PROVE  AInv'
    <3> DEFINE plan == IF planner = "python" THEN Rules!PyPlan(InputOf(t, m))
                                             ELSE Rules!RsPlan(InputOf(t, m))
               file == [planner |-> planner, bare |-> bare, token |-> t, plan |-> plan]
    <3>1. /\ Accepted(planner, t, m) /\ plans' = plans \cup {file}
          /\ UNCHANGED <<tokens, fetched, image, booted>>
      BY <2>6 DEF MakePlan, client
    <3> HIDE DEF plan
    <3>2. CoveredByCode(plan) /\ SignedFor(plan)
      BY <3>1, PlanIsAuthorized DEF AInv, plan
    <3>3. file.token = t /\ file.plan = plan
      OBVIOUS
    <3> HIDE DEF file
    <3>4. PlansAuthorized'
      BY <2>2, <3>1, <3>2, <3>3 DEF AInv, PlansAuthorized
    <3> QED
      BY <2>2, <3>1, <3>4 DEF AInv, FromPlans
  <2>7. ASSUME NEW file \in plans, Fetch(file) \/ Load(file) \/ Exec(file)
        PROVE  AInv'
    <3>1. /\ UNCHANGED <<tokens, plans>>
          /\ fetched' \in {fetched, fetched \cup {file}}
          /\ image' \in {image, Nothing} \cup fetched
          /\ booted' \in {booted, image}
      BY <2>7 DEF Fetch, Load, Exec, Client!Fetched, Client!Loaded, Client!Booted, FilesOf
    <3>2. FromPlans'
      BY <3>1 DEF AInv, FromPlans
    <3> QED
      BY <2>2, <2>3, <3>1, <3>2 DEF AInv
  <2> QED
    BY <2>4, <2>5, <2>6, <2>7 DEF AuthNext
<1> QED
  BY <1>1, <1>2, RefinesRegistry, Invariance, PTL DEF AuthSpec

-----------------------------------------------------------------------------
(***************************************************************************)
(* The rest is about the bridge, on a host whose keys are in order and for *)
(* a manifest that is in order.                                            *)
(***************************************************************************)
\* Either planner verifies exactly what is authentic.
LEMMA TrustIsAuthenticity ==
    ASSUME KeysInOrder, clock \in Times, NEW m \in Manifests, ManifestInOrder(m),
           NEW t \in tokens
    PROVE  /\ Rules!PyTrusts(InputOf(t, m)) <=> Authentic(m)
           /\ Rules!RsTrusts(InputOf(t, m)) <=> Authentic(m)
<1> DEFINE i == InputOf(t, m)
           body == m.body
           signature == m.signature
<1>1. /\ i.manifest = m /\ i.keys = KeyDocument /\ i.fips = TRUE
      /\ i.wall = clock /\ Rules!Instant(i) = clock
  BY DEF InputOf, Rules!Instant
<1>2. /\ body.algorithm = Rules!Algorithm /\ body.profile = Rules!Profile
      /\ body.text = "plain" /\ signature.hex = "hex"
      /\ signature.payload = Rules!PyPayload(signature.payload.body)
  BY DEF ManifestInOrder, Rules!PyManifestValid
<1>3. Rules!PyPayload(body) = Rules!RsPayload(body)
  BY <1>2 DEF Rules!PyPayload, Rules!RsPayload, Rules!Payload
<1>4. signature.payload = Rules!PyPayload(body) <=> signature.payload.body = body
  BY <1>2 DEF Rules!PyPayload, Rules!Payload
<1>5. ASSUME NEW k \in DOMAIN KeyDocument
      PROVE  /\ Rules!PySignerAt(KeyDocument, body.signer, k)
                   <=> KeyDocument[k].ref = body.signer
             /\ Rules!RsSignerAt(KeyDocument, body.signer, k)
                   <=> KeyDocument[k].ref = body.signer
  <2>1. /\ \A j \in 1 .. k - 1 : j \in DOMAIN KeyDocument /\ j # k
        /\ \A j \in k + 1 .. Len(KeyDocument) : j \in DOMAIN KeyDocument /\ j # k
    BY KeyDocumentAssumption
  <2>2. \A j \in DOMAIN KeyDocument : KeyDocument[j].ref = KeyDocument[k].ref => j = k
    BY DEF KeysInOrder
  <2> QED
    BY <2>1, <2>2 DEF Rules!PySignerAt, Rules!RsSignerAt
<1>6. ASSUME NEW k \in DOMAIN KeyDocument
      PROVE  /\ Rules!PyKeyValid(KeyDocument[k], clock)
             /\ Rules!RsKeyValid(KeyDocument[k], clock)
             /\ KeyDocument[k].bits >= 2048 /\ KeyDocument[k].bits <= 4096
             /\ KeyDocument[k].algorithm = body.algorithm
  <2> DEFINE entry == KeyDocument[k]
  <2>1. /\ Rules!PyKeyValid(entry, clock) /\ entry.reason # "blank"
        /\ entry.bits >= 2048 /\ entry.bits <= 4096
    BY DEF KeysInOrder
  <2>2. clock \in Int
    BY TimesAssumption
  <2>3. {entry.not_before, entry.not_after} \subseteq Int \cup {NoTime}
    BY KeyDocumentAssumption
  <2> HIDE DEF entry
  <2>4. entry.not_before # NoTime => (clock >= entry.not_before <=> ~(clock < entry.not_before))
    BY <2>2, <2>3
  <2>5. entry.not_after # NoTime => (clock < entry.not_after <=> ~(clock >= entry.not_after))
    BY <2>2, <2>3
  <2>6. Rules!PyKeyValid(entry, clock) <=>
           \/ Rules!RsKeyValid(entry, clock)
           \/ Rules!PyKeyValid(entry, clock) /\ entry.reason = "blank"
    BY <2>4, <2>5
       DEF Rules!PyKeyValid, Rules!PyKeyParses, Rules!PyKeyAlive, Rules!RsKeyValid
  <2>7. Rules!RsKeyValid(entry, clock) => entry.algorithm = Rules!Algorithm
    BY DEF Rules!RsKeyValid
  <2> QED
    BY <1>2, <2>1, <2>6, <2>7 DEF entry
<1>7. Rules!PyTrusts(i) <=>
         \E k \in DOMAIN KeyDocument : /\ KeyDocument[k].ref = body.signer
                                       /\ Rules!PyAccepts(m, KeyDocument[k])
  BY <1>1, <1>2, <1>5, <1>6 DEF Rules!PyTrusts, Rules!KeysLoad
<1>8. Rules!RsTrusts(i) <=>
         \E k \in DOMAIN KeyDocument : /\ KeyDocument[k].ref = body.signer
                                       /\ Rules!RsVerifies(m, KeyDocument[k])
  BY <1>1, <1>5, <1>6 DEF Rules!RsTrusts
<1>9. \A k \in DOMAIN KeyDocument :
         /\ Rules!PyAccepts(m, KeyDocument[k]) <=>
               signature.key = KeyDocument[k].material /\ signature.payload.body = body
         /\ Rules!RsVerifies(m, KeyDocument[k]) <=>
               signature.key = KeyDocument[k].material /\ signature.payload.body = body
  BY <1>2, <1>3, <1>4, <1>6 DEF Rules!PyAccepts, Rules!PyVerifies, Rules!RsVerifies, Rules!FromHex
<1> QED
  BY <1>7, <1>8, <1>9 DEF Authentic

\* Either planner accepts a rendered token exactly while its binding is alive, for
\* exactly the manifests the binding covers.
LEMMA TokenIsBinding ==
    ASSUME IInv, TokensRendered, Lifetimes, NEW t \in tokens, NEW m \in Manifests,
           ManifestInOrder(m), Named(t.doc)
    PROVE  LET b == BindingFor(t.code)
           IN  /\ Rules!PyTokenValid(InputOf(t, m)) <=>
                     ~Expired(b, clock) /\ Covers(b, m.body)
               /\ Rules!RsTokenValid(InputOf(t, m)) <=>
                     ~Expired(b, clock) /\ Covers(b, m.body)
<1> DEFINE i == InputOf(t, m)
           b == BindingFor(t.code)
           mode == m.body.mode
<1>1. i.manifest = m /\ i.token = t.doc /\ Rules!Instant(i) = clock
  BY DEF InputOf, Rules!Instant
<1>2. /\ t.doc.purpose = b.purpose /\ t.doc.subject_id = b.device_id
      /\ t.doc.release_set_ref = b.release_set_ref
      /\ t.doc.boot_release_set_ref = b.boot_release_set_ref
      /\ t.doc.issued_at = b.issued_at /\ t.doc.expires_at = b.expires_at
      /\ t.doc.one_time_use = TRUE /\ t.doc.status = "issued"
  BY TokenFields
<1>3. b \in Bindings /\ b.issued_at < b.expires_at
  BY TokenFields DEF BindingFor, IInv, TypeOK, Hashes, Lifetimes
<1>6. mode \in Rules!Modes
  BY DEF ManifestInOrder, Rules!PyManifestValid
<1> HIDE DEF b
<1>4. b.purpose \in Rules!Purposes /\ b.device_id # "blank"
  <2>1. b.purpose \in Purposes /\ b.device_id \in DeviceIds
    BY <1>3 DEF Bindings
  <2> QED
    BY <2>1, DeviceIdsAssumption DEF Purposes, Rules!Purposes
<1>5. ~Expired(b, clock) <=> clock < b.expires_at
  <2>1. clock \in Int /\ b.expires_at \in Int
    BY <1>3, TimesAssumption DEF Bindings, IInv, TypeOK
  <2> QED
    BY <2>1 DEF Expired
<1>7. Rules!PyTokenValid(i) <=> clock < b.expires_at /\ Covers(b, m.body)
  BY <1>1, <1>2, <1>4 DEF Rules!PyTokenValid, Named, Covers
<1>8. Rules!RsTokenValid(i) <=> clock < b.expires_at /\ Covers(b, m.body)
  <2>1. Rules!RsAlive(t.doc, clock) <=> clock < b.expires_at
    BY <1>2, <1>3 DEF Rules!RsAlive
  <2> QED
    BY <1>1, <1>2, <1>4, <1>6, <2>1, RustPurpose DEF Covers
<1> QED
  BY <1>5, <1>7, <1>8 DEF b

(***************************************************************************)
(* Documents refer to what they were made from.                            *)
(***************************************************************************)
THEOREM DocumentsAreTraceable == AuthSpec => []AuthTypeOK
<1>1. AInv => AuthTypeOK
  BY DEF AInv, TokensRendered, PlansAuthorized, FromPlans, AuthTypeOK
<1> QED
  BY <1>1, AInvariance, PTL

(***************************************************************************)
(* Whatever is loaded or booted was fetched for a plan that some code      *)
(* covers, and whose artifacts the trusted signer signed for, whichever    *)
(* planner made the plan and whatever has been issued, redeemed or fetched *)
(* in between (enrollment.py:184-204, protocol.py:283-302,                 *)
(* main.rs:359-403, 598-615, 680-724).                                     *)
(***************************************************************************)
THEOREM ImagesAreAuthorized == AuthSpec => []ImageAuthorized
<1>1. AInv => ImageAuthorized
  BY DEF AInv, PlansAuthorized, FromPlans, CoveredByCode, SignedFor, ImageAuthorized
<1> QED
  BY <1>1, AInvariance, PTL

(***************************************************************************)
(* The bridge: for any devices, requests, manifests and list of trusted    *)
(* keys, a planner accepts a rendered token only while its binding is      *)
(* alive and only for authentic manifests it covers; and on a host whose   *)
(* keys are in order, both accept it for all of those while its code has   *)
(* not been redeemed (enrollment.py:184-204, cli.py:28-45,                 *)
(* protocol.py:283-302, main.rs:319-403).                                  *)
(***************************************************************************)
THEOREM BridgeHolds == AuthSpec => []BridgeAccepted
<1>1. ASSUME IInv, AInv, NEW t \in tokens, NEW m \in Manifests, NEW planner \in Planners,
             Accepted(planner, t, m)
      PROVE  LET b == BindingFor(t.code)
             IN  ~Expired(b, clock) /\ Covers(b, m.body) /\ Authentic(m)
  <2> DEFINE b == BindingFor(t.code)
  <2>1. Authentic(m) /\ Covers(b, m.body) /\ clock < b.expires_at
    BY <1>1, AcceptedIsAuthorized DEF AInv
  <2>2. b \in Bindings
    BY <1>1, TokenFields DEF BindingFor, AInv, IInv, TypeOK, Hashes
  <2> HIDE DEF b
  <2>3. clock \in Int /\ b.expires_at \in Int
    BY <1>1, <2>2, TimesAssumption DEF Bindings, IInv, TypeOK
  <2> QED
    BY <2>1, <2>3 DEF Expired, b
<1>2. ASSUME IInv, AInv, NEW t \in tokens, NEW m \in Manifests, NEW planner \in Planners,
             Named(t.doc), KeysInOrder, ManifestInOrder(m),
             ~Expired(BindingFor(t.code), clock), Covers(BindingFor(t.code), m.body),
             Authentic(m)
      PROVE  Accepted(planner, t, m)
  <2> DEFINE i == InputOf(t, m)
  <2>1. i.manifest = m /\ i.fips = TRUE /\ i.readers = m.readers
    BY DEF InputOf
  <2>2. Rules!PyManifestValid(i) /\ Rules!RsManifestValid(i)
    BY <1>2, <2>1 DEF ManifestInOrder, Rules!PyManifestValid, Rules!RsManifestValid
  <2>3. clock \in Times
    BY <1>2 DEF IInv, TypeOK
  <2>4. {"python", "rust"} = i.readers
    BY <1>2, <2>1 DEF ManifestInOrder, Planners
  <2>5. /\ Rules!PyTrusts(i) /\ Rules!PyTokenValid(i)
        /\ Rules!RsTrusts(i) /\ Rules!RsTokenValid(i)
    BY <1>2, <2>3, TrustIsAuthenticity, TokenIsBinding DEF AInv
  <2> HIDE DEF i
  <2>6. Rules!PyPlans(i) /\ Rules!RsPlans(i)
    BY <2>2, <2>4, <2>5 DEF Rules!PyPlans, Rules!RsPlans
  <2> QED
    BY <2>6 DEF Accepted, i
<1>3. IInv /\ AInv => BridgeAccepted
  BY <1>1, <1>2 DEF BridgeAccepted
<1> QED
  BY <1>3, AInvariance, RefinesRegistry, Invariance, PTL
=============================================================================
