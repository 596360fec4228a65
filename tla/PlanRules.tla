------------------------------ MODULE PlanRules ------------------------------
(***************************************************************************)
(* What the two boot planners decide about one input, and the plan they    *)
(* build from it: the Python reference (nlboot/cli.py, verify.py,          *)
(* protocol.py) and the plan command of the Rust client (main.rs).         *)
(*                                                                         *)
(* A document is abstracted to what the planners tell apart: a string they *)
(* only require is a "kind of string", a signature is the key it was made  *)
(* with and the payload it covers.  The parsers of the two programs do not *)
(* read the same documents: serde wants every value of its type and times  *)
(* in RFC 3339, Python looks at the types it uses, at ISO 8601 and at more *)
(* PEM files.  "readers" says which of them read this input as the record  *)
(* it is here; an input that they read as different records (times finer   *)
(* than a microsecond, say) is no input of these rules.                    *)
(***************************************************************************)
EXTENDS Verify

CONSTANT NoMenu   \* a manifest without boot_menu

(***************************************************************************)
(* An input:                                                               *)
(*   manifest.body  everything but signature_hex: ids (are manifest_id,    *)
(*     boot_release_set_id, base_release_set_ref, signer_ref and           *)
(*     signature_hex non-blank), release, base, mode, artifacts ("full",   *)
(*     "missing", "blank": a required ref of white space, "extra": a       *)
(*     further key, "untyped": one whose value is no string),              *)
(*     signature_ref (is it a SourceOS URN), signer, algorithm, profile,   *)
(*     text (what is in it besides printable ASCII: "plain" nothing,       *)
(*     "unicode", "delete": the DEL character, "number": a number that     *)
(*     has several notations), menu                                        *)
(*   manifest.signature  [hex, key, payload]                               *)
(*   readers  the programs that read the input as this record              *)
(*   keys   the trusted-key document, in order                             *)
(*   token  the enrollment token                                           *)
(*   fips, now  the options --require-fips and --now;  wall  the clock     *)
(***************************************************************************)
Modes     == {"installer", "recovery", "ephemeral", "bootstrap"}
Purposes  == {"enroll", "boot", "repair", "recovery"}
Roles     == {"normal", "recovery", "installer", "rollback", "ephemeral",
              "bootstrap"}

\* The instant "now" stands for: the option, or the clock.
Instant(i) == IF i.now = NoTime THEN i.wall ELSE i.now
-----------------------------------------------------------------------------
(***************************************************************************)
(* The canonical payload that is signed, as the program's JSON writer puts *)
(* it: json.dumps escapes DEL and what is not ASCII, serde_json does not,  *)
(* and each has its own notation for floats.                               *)
(***************************************************************************)
Payload(body, writer) ==
    [body |-> body, writer |-> IF body.text = "plain" THEN "either" ELSE writer]
PyPayload(body) == Payload(body, "json.dumps")
RsPayload(body) == Payload(body, "serde_json")

(***************************************************************************)
(* The key structure and validate_trusted_key_lifecycle.  Rust looks at    *)
(* the revocation reason of a key that is not revoked.                     *)
(***************************************************************************)
RsKeyValid(key, at) ==
    /\ key.ref # "" /\ key.algorithm = Algorithm /\ key.pem
    /\ key.status = "active" /\ key.revoked_at = NoTime
    /\ key.not_before # NoTime => ~(at < key.not_before)
    /\ key.not_after # NoTime => ~(at >= key.not_after)
    /\ key.reason # "blank"

(***************************************************************************)
(* verify_rsa_pss_sha256.  Rust does not ask for 2048 bits, its RSA        *)
(* library takes no key of more than 4096, and hex::decode takes no white  *)
(* space.                                                                  *)
(***************************************************************************)
PyAccepts(m, key) == PyVerifies(m.signature, PyPayload(m.body), key)
RsVerifies(m, key) ==
    /\ m.signature.hex = "hex"
    /\ key.bits <= 4096
    /\ m.signature.key = key.material
    /\ m.signature.payload = RsPayload(m.body)

\* trusted_key_for: the first entry of a name, where Python keeps the last.
RsSignerAt(keys, ref, i) ==
    /\ keys[i].ref = ref
    /\ \A j \in 1 .. i - 1 : keys[j].ref # ref

\* Mutant of PyTrusts: a signature under any trusted key will do.
PyTrustsAnyKey(i) ==
    /\ KeysLoad(i.keys, i.wall)
    /\ \E k \in DOMAIN i.keys : PyAccepts(i.manifest, i.keys[k])

(***************************************************************************)
(* cli.verify_manifest_document: load_trusted_keys validates every key of  *)
(* the document, against the clock and not against --now.                  *)
(***************************************************************************)
PyTrusts(i) ==
    LET body == i.manifest.body
    IN  /\ i.fips => body.algorithm = Algorithm /\ body.profile = Profile
        /\ KeysLoad(i.keys, i.wall)
        /\ \E k \in DOMAIN i.keys :
              /\ PySignerAt(i.keys, body.signer, k)
              /\ i.keys[k].algorithm = body.algorithm
              /\ PyAccepts(i.manifest, i.keys[k])

\* trusted_key_for and the rest of validate_manifest: only the signer's key.
RsTrusts(i) ==
    LET body == i.manifest.body
    IN  \E k \in DOMAIN i.keys :
           /\ RsSignerAt(i.keys, body.signer, k)
           /\ RsKeyValid(i.keys[k], Instant(i))
           /\ i.keys[k].algorithm = body.algorithm
           /\ RsVerifies(i.manifest, i.keys[k])
-----------------------------------------------------------------------------
(***************************************************************************)
(* BootMenuEntry.from_dict, BootMenu.from_dict and validate_for_manifest.  *)
(* The Rust client does not read boot_menu.                                *)
(***************************************************************************)
EntryValid(e) ==
    /\ e.mode \in Modes
    /\ e.role \in Roles
    /\ e.role = "rollback" => e.rollback_eligible

EntryMatches(e, body) ==
    e.release = body.release /\ e.base = body.base /\ e.mode = body.mode

\* Mutant of MenuValid: two entries may have one id.
MenuValidDuplicates(menu, body) ==
    LET entries == menu.entries
    IN  /\ entries # <<>>
        /\ \A n \in DOMAIN entries : EntryValid(entries[n])
        /\ \E n \in DOMAIN entries :
              entries[n].id = menu.default_id /\ EntryMatches(entries[n], body)

MenuValid(menu, body) ==
    LET entries == menu.entries
        marked  == {n \in DOMAIN entries : entries[n].default}
    IN  /\ entries # <<>>
        /\ \A n \in DOMAIN entries : EntryValid(entries[n])
        /\ \A n, k \in DOMAIN entries : entries[n].id = entries[k].id => n = k
        /\ \A n, k \in marked : n = k
        /\ \A n \in marked : entries[n].id = menu.default_id
        /\ \E n \in DOMAIN entries :
              entries[n].id = menu.default_id /\ EntryMatches(entries[n], body)

(***************************************************************************)
(* SignedBootManifest.from_dict (Python) and the serde structure together  *)
(* with validate_manifest_shape (Rust).                                    *)
(***************************************************************************)
PyManifestValid(i) ==
    LET body == i.manifest.body
    IN  /\ body.ids
        /\ body.algorithm = Algorithm /\ body.profile = Profile
        /\ body.mode \in Modes
        /\ body.artifacts # "missing"
        /\ body.signature_ref
        /\ body.menu # NoMenu => MenuValid(body.menu, body)

RsManifestValid(i) ==
    LET body == i.manifest.body
    IN  /\ body.ids
        /\ body.mode \in Modes
        /\ body.artifacts \notin {"missing", "blank", "untyped"}
        /\ body.signature_ref
        /\ i.fips => body.algorithm = Algorithm /\ body.profile = Profile
-----------------------------------------------------------------------------
\* purpose_by_mode
PurposesOf == [recovery  |-> {"recovery", "repair"},
               installer |-> {"enroll", "boot"},
               ephemeral |-> {"boot"},
               bootstrap |-> {"enroll", "boot"}]

\* EnrollmentToken.from_dict and validate_for_manifest.
PyTokenValid(i) ==
    LET t == i.token
        body == i.manifest.body
    IN  /\ t.id # "" /\ t.purpose \in Purposes /\ t.subject_kind # ""
        /\ t.status = "issued"
        /\ Instant(i) < t.expires_at
        /\ t.one_time_use
        /\ t.boot_release_set_ref = body.release
        /\ t.release_set_ref = body.base
        /\ t.purpose \in PurposesOf[body.mode]

\* Mutant of RsAlive: a token lives one instant longer.
RsAliveLate(t, at) == at <= t.expires_at

\* validate_token: the two checks of the token's times.
RsAlive(t, at) == at < t.expires_at /\ t.issued_at < t.expires_at

\* validate_token.
RsTokenValid(i) ==
    LET t == i.token
        body == i.manifest.body
    IN  /\ t.id # "" /\ t.purpose \in Purposes
        /\ t.status = "issued"
        /\ RsAlive(t, Instant(i))
        /\ t.one_time_use
        /\ t.boot_release_set_ref = body.release
        /\ t.release_set_ref = body.base
        /\ CASE body.mode = "recovery"  -> t.purpose \in {"recovery", "repair"}
             [] body.mode = "installer" -> t.purpose \in {"enroll", "boot"}
             [] body.mode = "ephemeral" -> t.purpose = "boot"
             [] body.mode = "bootstrap" -> t.purpose \in {"enroll", "boot"}
             [] OTHER                   -> FALSE
        /\ t.subject_kind # ""
        /\ t.subject_id # "blank"
-----------------------------------------------------------------------------
\* The tables of protocol.py ...
PyAction == [recovery |-> "boot-recovery", installer |-> "boot-installer",
             ephemeral |-> "boot-ephemeral", bootstrap |-> "bootstrap-only"]
PyOperations ==
    [recovery  |-> <<"present-menu", "verify-artifacts", "plan-recovery", "plan-rollback">>,
     installer |-> <<"present-menu", "verify-artifacts", "plan-install">>,
     ephemeral |-> <<"present-menu", "verify-artifacts", "plan-ephemeral-boot">>,
     bootstrap |-> <<"present-menu", "verify-artifacts", "plan-bootstrap">>]
CommonProofs == <<"verified_manifest_signature", "validated_one_time_token",
                  "artifact_ref_manifest", "boot_plan_record">>
PyProofs(mode) ==
    IF mode \in {"recovery", "installer"}
    THEN CommonProofs \o <<"device_claim_record", "post_action_fingerprint">>
    ELSE CommonProofs \o <<"session_fingerprint">>
PyFallback(mode) == mode \in {"recovery", "ephemeral"}

\* ... and those of main.rs.
RsAction(mode) ==
    CASE mode = "recovery"  -> "boot-recovery"
      [] mode = "installer" -> "boot-installer"
      [] mode = "ephemeral" -> "boot-ephemeral"
      [] mode = "bootstrap" -> "bootstrap-only"
      [] OTHER              -> "present-menu"
RsOperations(mode) ==
    <<"present-menu">> \o
    CASE mode = "recovery"  -> <<"verify-artifacts", "plan-recovery", "plan-rollback">>
      [] mode = "installer" -> <<"verify-artifacts", "plan-install">>
      [] mode = "ephemeral" -> <<"verify-artifacts", "plan-ephemeral-boot">>
      [] mode = "bootstrap" -> <<"verify-artifacts", "plan-bootstrap">>
      [] OTHER              -> <<>>
RsProofs(mode) ==
    CommonProofs \o IF mode \in {"recovery", "installer"}
                    THEN <<"device_claim_record", "post_action_fingerprint">>
                    ELSE <<"session_fingerprint">>
RsFallback(mode) == mode \in {"recovery", "ephemeral"}

\* str(v) of every artifact: what was no string has become one.
AsStrings(artifacts) == IF artifacts = "untyped" THEN "extra" ELSE artifacts

\* Mutant of PlanOf: the plan names the token's subject as its authority.
PlanOfSubject(i, action, operations, proofs, fallback, entry) ==
    [action |-> action, release |-> i.manifest.body.release,
     base |-> i.manifest.body.base, artifacts |-> AsStrings(i.manifest.body.artifacts),
     mode |-> i.manifest.body.mode, authorized_by |-> i.token.subject_id,
     operations |-> operations, proofs |-> proofs, fallback |-> fallback,
     execute |-> FALSE, selected_entry |-> entry]

(***************************************************************************)
(* build_boot_plan and build_plan (which is given no untyped artifacts).   *)
(* Python's plan also carries the menu and the entry it selects.           *)
(***************************************************************************)
PlanOf(i, action, operations, proofs, fallback, entry) ==
    [action |-> action, release |-> i.manifest.body.release,
     base |-> i.manifest.body.base, artifacts |-> AsStrings(i.manifest.body.artifacts),
     mode |-> i.manifest.body.mode, authorized_by |-> i.token.id,
     operations |-> operations, proofs |-> proofs, fallback |-> fallback,
     execute |-> FALSE, selected_entry |-> entry]

PyPlan(i) ==
    LET mode == i.manifest.body.mode
        menu == i.manifest.body.menu
    IN  PlanOf(i, PyAction[mode], PyOperations[mode], PyProofs(mode),
               PyFallback(mode), IF menu = NoMenu THEN "" ELSE menu.default_id)
RsPlan(i) ==
    LET mode == i.manifest.body.mode
    IN  PlanOf(i, RsAction(mode), RsOperations(mode), RsProofs(mode),
               RsFallback(mode), "")

\* The inputs for which each planner ends with a plan.
PyPlans(i) == /\ "python" \in i.readers
              /\ PyTrusts(i) /\ PyManifestValid(i) /\ PyTokenValid(i)
RsPlans(i) == /\ "rust" \in i.readers
              /\ RsManifestValid(i) /\ RsTrusts(i) /\ RsTokenValid(i)
=============================================================================
