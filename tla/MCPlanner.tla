------------------------------ MODULE MCPlanner ------------------------------
(***************************************************************************)
(* Documents around a good one: each manifest, key document and token      *)
(* differs from it in one way, and all of them are combined.               *)
(***************************************************************************)
EXTENDS Planner

Key(ref, material) ==
    [ref |-> ref, material |-> material, algorithm |-> Algorithm, pem |-> TRUE,
     bits |-> 2048, status |-> "active", not_before |-> NoTime,
     not_after |-> NoTime, revoked_at |-> NoTime, reason |-> "none"]
K1 == Key("signer1", "m1")
K2 == Key("signer2", "m2")

\* What may be wrong with a key.
Spoilt(key) ==
    {[key EXCEPT !.ref = ""], [key EXCEPT !.algorithm = "other"],
     [key EXCEPT !.pem = FALSE], [key EXCEPT !.bits = 1024],
     [key EXCEPT !.bits = 8192],
     [key EXCEPT !.status = "retired"], [key EXCEPT !.revoked_at = 1],
     [key EXCEPT !.not_before = 2], [key EXCEPT !.not_after = 2],
     [key EXCEPT !.reason = "blank"]}
MCKeyDocuments ==
    {<<>>, <<K1>>, <<K2>>, <<K1, K2>>, <<K2, K1>>,
     <<K1, Key("signer1", "m2")>>, <<Key("signer1", "m2"), K1>>}
    \cup {<<k>> : k \in Spoilt(K1)} \cup {<<K1, k>> : k \in Spoilt(K2)}

Entry(id, role) ==
    [id |-> id, release |-> "boot1", base |-> "base1", mode |-> "recovery",
     role |-> role, default |-> FALSE, rollback_eligible |-> TRUE]
Menu(id, entries) == [default_id |-> id, entries |-> entries]
MCMenus ==
    {Menu("e1", <<Entry("e1", "recovery"), Entry("e2", "rollback")>>),
     Menu("e1", <<[Entry("e1", "recovery") EXCEPT !.default = TRUE],
                  [Entry("e2", "normal") EXCEPT !.release = "boot2"]>>),
     Menu("e2", <<[Entry("e1", "recovery") EXCEPT !.default = TRUE],
                  Entry("e2", "normal")>>),
     Menu("e1", <<[Entry("e1", "recovery") EXCEPT !.default = TRUE],
                  [Entry("e2", "normal") EXCEPT !.default = TRUE]>>),
     Menu("e1", <<[Entry("e1", "normal") EXCEPT !.release = "boot2"],
                  Entry("e1", "recovery")>>),
     Menu("e1", <<[Entry("e1", "rollback") EXCEPT !.rollback_eligible = FALSE]>>),
     Menu("e1", <<[Entry("e1", "recovery") EXCEPT !.mode = "usb"]>>),
     Menu("e1", <<[Entry("e1", "recovery") EXCEPT !.base = "base2"]>>),
     Menu("e1", <<Entry("e1", "menu")>>),
     Menu("e3", <<Entry("e1", "recovery")>>),
     Menu("e1", <<>>)}

Body ==
    [ids |-> TRUE, release |-> "boot1", base |-> "base1", mode |-> "recovery",
     artifacts |-> "full", signature_ref |-> TRUE, signer |-> "signer1",
     algorithm |-> Algorithm, profile |-> Profile, text |-> "plain",
     menu |-> NoMenu]
MCBodies ==
    {[Body EXCEPT !.mode = m] : m \in Modes \cup {"usb"}}
    \cup {[Body EXCEPT !.menu = m] : m \in MCMenus}
    \cup {[Body EXCEPT !.artifacts = a] : a \in {"missing", "blank", "extra", "untyped"}}
    \cup {[Body EXCEPT !.text = t] : t \in {"unicode", "delete", "number"}}
    \cup {[Body EXCEPT !.ids = FALSE], [Body EXCEPT !.signature_ref = FALSE],
          [Body EXCEPT !.signer = "signer3"],
          [Body EXCEPT !.algorithm = "other"], [Body EXCEPT !.profile = "other"]}

\* Signed over the reference payload.
Signed(body) == [body |-> body, signature |-> [hex |-> "hex", key |-> "m1",
                                               payload |-> PyPayload(body)]]
Good == Signed(Body)
\* ... or over another body, by another key, over the payload Rust computes, spaced or no hex.
MCManifests ==
    {Signed(body) : body \in MCBodies}
    \cup {[Good EXCEPT !.signature.payload = PyPayload([Body EXCEPT !.release = "boot2"])],
          [Good EXCEPT !.signature.key = "m2"],
          [Good EXCEPT !.signature.hex = "spaced"],
          [Good EXCEPT !.signature.hex = "other"]}
    \cup {LET body == [Body EXCEPT !.text = "unicode"]
          IN  [Signed(body) EXCEPT !.signature.payload = RsPayload(body)]}

Token ==
    [id |-> "t1", purpose |-> "recovery", subject_kind |-> "device",
     subject_id |-> "d1", status |-> "issued", one_time_use |-> TRUE,
     issued_at |-> 0, expires_at |-> 2, release_set_ref |-> "base1",
     boot_release_set_ref |-> "boot1"]
MCTokens ==
    {[Token EXCEPT !.purpose = p] : p \in Purposes \cup {"wipe"}}
    \cup {[Token EXCEPT !.status = x] : x \in {"redeemed", "expired", "revoked"}}
    \cup {[Token EXCEPT !.id = ""], [Token EXCEPT !.subject_kind = ""],
          [Token EXCEPT !.subject_id = "blank"], [Token EXCEPT !.one_time_use = FALSE],
          [Token EXCEPT !.issued_at = 2], [Token EXCEPT !.expires_at = 1],
          [Token EXCEPT !.release_set_ref = "base2"],
          [Token EXCEPT !.boot_release_set_ref = "boot2"]}

\* A fault in at most two of the three documents at a time.
Documents ==
    ({<<K1>>} \X MCManifests \X MCTokens)
    \cup (MCKeyDocuments \X {Good} \X MCTokens)
    \cup (MCKeyDocuments \X MCManifests \X {Token})

MCInputs ==
    {[keys |-> d[1], manifest |-> d[2], token |-> d[3],
      fips |-> f, now |-> n, wall |-> 1, readers |-> r] :
        d \in Documents, f \in BOOLEAN, n \in {NoTime, 2}, r \in {{"python", "rust"}}}
    \cup {[keys |-> <<K1>>, manifest |-> Good, token |-> Token, fips |-> TRUE,
           now |-> NoTime, wall |-> 1, readers |-> r] : r \in SUBSET {"python", "rust"}}
=============================================================================
