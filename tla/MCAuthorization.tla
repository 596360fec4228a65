--------------------------- MODULE MCAuthorization ---------------------------
(***************************************************************************)
(* One device, requests for releases that mirror each other and one with   *)
(* no lifetime, manifests for either release, one that was altered after   *)
(* it was signed and one that another trusted signer signed.  The recovery *)
(* manifest has an artifact value that is no string.                       *)
(***************************************************************************)
EXTENDS Authorization

CONSTANTS k1, code1, code2, nonce1, sid1

MCKeys  == {k1}
MCCodes == {code1, code2}
MCNonces == {nonce1}
MCSessionIds == {sid1}
MCTimes == 0 .. 1
MCDatetimes == 0 .. 2
MCRefs  == {"rel-a", "rel-b"}

Request(purpose, base, release, ttl) ==
    [purpose |-> purpose, ttl_seconds |-> ttl, release_set_ref |-> base,
     boot_release_set_ref |-> release, artifact_refs |-> <<"rel-a">>]
MCRequests == {Request("boot", "rel-a", "rel-b", 1),
               Request("recovery", "rel-b", "rel-a", 1),
               Request("boot", "rel-a", "rel-b", 0)}

TrustedKey(ref, material) ==
    [ref |-> ref, material |-> material, algorithm |-> Rules!Algorithm,
     pem |-> TRUE, bits |-> 2048, status |-> "active", not_before |-> NoTime,
     not_after |-> NoTime, revoked_at |-> NoTime, reason |-> "none"]
MCKeyDocument == <<TrustedKey("signer", "m1"), TrustedKey("other", "m2")>>
Body(mode, base, release) ==
    [ids |-> TRUE, release |-> release, base |-> base, mode |-> mode,
     artifacts |-> "full", signature_ref |-> TRUE, signer |-> "signer",
     algorithm |-> Rules!Algorithm, profile |-> Rules!Profile, text |-> "plain",
     menu |-> NoMenu]
SignedWith(key, body, over) ==
    [body |-> body, readers |-> Planners,
     signature |-> [hex |-> "hex", key |-> key, payload |-> Rules!PyPayload(over)]]
Signed(body, over) == SignedWith("m1", body, over)
Installer == Body("installer", "rel-a", "rel-b")
Recovery  == [Body("recovery", "rel-b", "rel-a") EXCEPT !.artifacts = "untyped"]
Ephemeral == Body("ephemeral", "rel-b", "rel-a")
MCManifests ==
    {Signed(Installer, Installer), Signed(Recovery, Recovery),
     Signed(Ephemeral, Ephemeral),
     Signed([Installer EXCEPT !.artifacts = "extra"], Installer),
     SignedWith("m2", Installer, Installer)}
=============================================================================
