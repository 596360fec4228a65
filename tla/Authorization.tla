---------------------------- MODULE Authorization ----------------------------
(***************************************************************************)
(* The way of an authorization through the whole program: a code is issued *)
(* to a device (Enrollment), its binding is rendered as an enrollment      *)
(* token, a planner plans on the token and a signed manifest (PlanRules),  *)
(* and the Rust client fetches for the plan, loads what was fetched and    *)
(* boots it (Handoff).                                                     *)
(*                                                                         *)
(* Each command is one step here; how fetch and execute interleave, fail   *)
(* and are killed is the subject of ClientHandoff, which implements        *)
(* Handoff.  A token document carries no signature, so the tokens here are *)
(* the ones the registry has rendered.                                     *)
(***************************************************************************)
EXTENDS Enrollment

CONSTANTS
    TokenIds,      \* the token_id and subject_kind the caller passes:
    SubjectKinds,  \* strings, of which "" stands for a blank one
    Manifests,     \* signed manifests, each with the programs that can read it
    KeyDocument,   \* the trusted keys of the planning host; both programs read it
    NoMenu, NoTime,
    Nothing,       \* no cache record, no image
    MaxTokens, MaxPlans  \* bounds: documents in one behaviour

VARIABLES
    tokens,  \* rendered tokens, each with the code it was rendered for
    plans,   \* plan files, each with the planner and token it comes from
    fetched, \* the plan files that have been fetched for
    image,   \* the plan file that what the kernel holds was fetched for
    booted   \* the same of what was booted last

client == <<fetched, image, booted>>
docs == <<tokens, plans, client>>
allVars == <<vars, docs>>

Rules == INSTANCE PlanRules

\* The client, with a plan file standing for the kernel and initrd it names.
FilesOf(file) == {file}
Client == INSTANCE Handoff WITH Files <- FilesOf, NoImage <- Nothing

\* The trusted keys are a list, and their times are times.
ASSUME KeyDocumentAssumption ==
    /\ Len(KeyDocument) \in Nat /\ DOMAIN KeyDocument = 1 .. Len(KeyDocument)
    /\ \A k \in DOMAIN KeyDocument :
          {KeyDocument[k].not_before, KeyDocument[k].not_after} \subseteq Int \cup {NoTime}
\* A device id is the text of a hash, and never blank.
ASSUME DeviceIdsAssumption == \A id \in DeviceIds : id # "blank"

Planners == {"python", "rust"}

AuthInit == Init /\ tokens = {} /\ plans = {} /\ Client!HandoffInit

\* Codes are issued and redeemed, claims are made, the clock moves.
Office == Next /\ UNCHANGED docs

\* Mutant of TokenPayload: the two release refs are swapped.
TokenPayloadSwapped(b, id, kind) ==
    [id |-> id, purpose |-> b.purpose, subject_kind |-> kind,
     subject_id |-> b.device_id, release_set_ref |-> b.boot_release_set_ref,
     boot_release_set_ref |-> b.release_set_ref, one_time_use |-> TRUE,
     issued_at |-> b.issued_at, expires_at |-> b.expires_at, status |-> "issued"]

(***************************************************************************)
(* issue_enrollment_token_payload.  The ISO texts of the two UTC times     *)
(* parse back to the same times in both planners.                          *)
(***************************************************************************)
TokenPayload(b, id, kind) ==
    [id |-> id, purpose |-> b.purpose, subject_kind |-> kind,
     subject_id |-> b.device_id, release_set_ref |-> b.release_set_ref,
     boot_release_set_ref |-> b.boot_release_set_ref, one_time_use |-> TRUE,
     issued_at |-> b.issued_at, expires_at |-> b.expires_at, status |-> "issued"]

\* A token is rendered from whatever binding the code has, spent or expired too.
Render(code, id, kind) ==
    /\ BindingFor(code) # NoBinding
    /\ Cardinality(tokens) < MaxTokens
    /\ tokens' = tokens \cup
          {[code |-> code, doc |-> TokenPayload(BindingFor(code), id, kind)]}
    /\ UNCHANGED <<vars, plans, client>>

\* A planner's input here: no options, so "now" is the clock.
InputOf(token, manifest) ==
    [manifest |-> manifest, keys |-> KeyDocument, token |-> token.doc,
     fips |-> TRUE, now |-> NoTime, wall |-> clock, readers |-> manifest.readers]

Accepted(planner, token, manifest) ==
    IF planner = "python" THEN Rules!PyPlans(InputOf(token, manifest))
                          ELSE Rules!RsPlans(InputOf(token, manifest))

(***************************************************************************)
(* nlboot-plan or nlboot-client plan; the plan is kept as it was printed   *)
(* or, "bare", without the object around it.                               *)
(***************************************************************************)
MakePlan(planner, token, manifest, bare) ==
    LET i == InputOf(token, manifest)
    IN  /\ Accepted(planner, token, manifest)
        /\ Cardinality(plans) < MaxPlans
        /\ plans' = plans \cup
              {[planner |-> planner, bare |-> bare, token |-> token,
                plan |-> IF planner = "python" THEN Rules!PyPlan(i)
                                               ELSE Rules!RsPlan(i)]}
        /\ UNCHANGED <<vars, tokens, client>>

(***************************************************************************)
(* load_plan.  What Python prints has no implementation_note and does not  *)
(* parse; its plan by itself does.                                         *)
(***************************************************************************)
LoadsPlan(file) == file.bare \/ file.planner = "rust"

\* fetch_artifacts: the plan is not checked against a token or the clock.
Fetch(file) ==
    /\ LoadsPlan(file)
    /\ Client!Fetched(file)
    /\ UNCHANGED <<vars, tokens, plans>>

(***************************************************************************)
(* execute_linux_kexec_load_only: the plan goes into the proof, the        *)
(* artifacts come from the cache record, and nothing compares the two.     *)
(***************************************************************************)
Load(file) ==
    /\ LoadsPlan(file)
    /\ \E recorded \in fetched : Client!Loaded(recorded)
    /\ UNCHANGED <<vars, tokens, plans>>

\* execute_linux_kexec_exec: boots what is loaded, whatever plan is named.
Exec(file) ==
    /\ LoadsPlan(file)
    /\ Client!Booted
    /\ UNCHANGED <<vars, tokens, plans>>

AuthNext ==
    \/ Office
    \/ \E code \in Codes, id \in TokenIds, kind \in SubjectKinds :
          Render(code, id, kind)
    \/ \E planner \in Planners, token \in tokens, manifest \in Manifests,
          bare \in BOOLEAN : MakePlan(planner, token, manifest, bare)
    \/ \E file \in plans : Fetch(file) \/ Load(file) \/ Exec(file)

AuthSpec == AuthInit /\ [][AuthNext]_allVars
-----------------------------------------------------------------------------
\* The plan lies within what a binding of the registry authorizes.
Covers(b, plan) ==
    /\ plan.release = b.boot_release_set_ref
    /\ plan.base = b.release_set_ref
    /\ b.purpose \in Rules!PurposesOf[plan.mode]

\* The manifest was signed, as it stands, with a trusted key of its signer.
Authentic(manifest) ==
    /\ manifest.signature.payload.body = manifest.body
    /\ \E k \in DOMAIN KeyDocument :
          /\ KeyDocument[k].ref = manifest.body.signer
          /\ KeyDocument[k].material = manifest.signature.key

\* Documents refer to what they were made from.
AuthTypeOK ==
    /\ \A t \in tokens : BindingFor(t.code) # NoBinding
    /\ \A file \in plans : file.token \in tokens
    /\ fetched \subseteq plans
    /\ {image, booted} \subseteq plans \cup {Nothing}

(***************************************************************************)
(* Whatever is loaded or booted was fetched for a plan that some code      *)
(* authorizes: a code was issued for its boot release, its base release    *)
(* and its mode, and its artifacts are those of a manifest the trusted     *)
(* signer signed for them, although neither the load nor the exec need     *)
(* have named this plan (enrollment.py:184-204, protocol.py:283-302,       *)
(* main.rs:359-403, 598-615, 680-724).                                     *)
(***************************************************************************)
ImageAuthorized ==
    \A file \in {image, booted} \ {Nothing} :
       LET plan == file.plan
       IN  /\ \E code \in Codes : /\ BindingFor(code) # NoBinding
                                 /\ Covers(BindingFor(code), plan)
           /\ \E m \in Manifests :
                 /\ Authentic(m)
                 /\ plan.release = m.body.release /\ plan.base = m.body.base
                 /\ plan.mode = m.body.mode
                 /\ plan.artifacts = Rules!AsStrings(m.body.artifacts)

\* The host trusts one key per name, each of a usual length and alive now.
KeysInOrder ==
    /\ \A k \in DOMAIN KeyDocument :
          /\ Rules!PyKeyValid(KeyDocument[k], clock)
          /\ KeyDocument[k].bits >= 2048 /\ KeyDocument[k].bits <= 4096
          /\ KeyDocument[k].reason # "blank"
    /\ \A k, j \in DOMAIN KeyDocument : KeyDocument[k].ref = KeyDocument[j].ref => k = j

\* Both planners can read the manifest, whoever signed it and for what.
ManifestInOrder(m) ==
    /\ Rules!PyManifestValid([manifest |-> m])
    /\ m.readers = Planners
    /\ m.body.text = "plain" /\ m.body.artifacts \notin {"blank", "untyped"}
    /\ m.signature.hex = "hex"
    /\ m.signature.payload = Rules!PyPayload(m.signature.payload.body)

\* The caller has named the token and its subject.
Named(doc) == doc.id # "" /\ doc.subject_kind # ""

(***************************************************************************)
(* enrollment.py:187-192: "This is the bridge to the existing token-       *)
(* validation path".  Whatever happened to the code since and wherever the *)
(* clock has been set, a planner that accepts a rendered token does so     *)
(* while the binding is alive, for an authentic manifest that the binding  *)
(* covers.  And on a host whose keys are in order both planners do accept  *)
(* the token for every such manifest while its code has not been redeemed. *)
(* That they may accept it afterwards too is not asserted: see             *)
(* RefusesDeadTokens.                                                      *)
(***************************************************************************)
BridgeAccepted ==
    \A t \in tokens, m \in Manifests, planner \in Planners :
       LET b == BindingFor(t.code)
       IN  /\ Accepted(planner, t, m) =>
                 ~Expired(b, clock) /\ Covers(b, m.body) /\ Authentic(m)
           /\ /\ Named(t.doc) /\ KeysInOrder /\ ManifestInOrder(m)
              /\ ~IsSpent(b) /\ ~Expired(b, clock)
              /\ Covers(b, m.body) /\ Authentic(m)
              => Accepted(planner, t, m)

\* The plan files that a step makes, fetches for, or takes into the kernel.
ActedOn == (plans' \ plans) \cup (fetched' \ fetched)
              \cup ({image', booted'} \ {image, booted, Nothing})

(***************************************************************************)
(* docs/EXECUTION_BOUNDARY.md:81-86: "NLBoot must refuse to plan, fetch,   *)
(* or execute when any of the following are true: [...] enrollment token   *)
(* is expired, revoked, redeemed, or not one-time use".  No step acts on a *)
(* plan whose token's code has expired or has been redeemed.               *)
(***************************************************************************)
RefusesDeadTokens ==
    [][\A file \in ActedOn :
          LET b == BindingFor(file.token.code)
          IN  ~IsSpent(b) /\ ~Expired(b, clock)]_allVars
=============================================================================
