---------------------------- MODULE MCEnrollment ----------------------------
(***************************************************************************)
(* A small enrollment office: two devices, one key that is too weak, two   *)
(* codes, two nonces and the blank one, requests of which some must be     *)
(* refused, session lifetimes of which one may overflow.                   *)
(***************************************************************************)
EXTENDS Enrollment, TLC

CONSTANTS k1, k2, weak, code1, code2, nonce1, nonce2, blank, sid1, sid2

MCKeys       == {k1, k2, weak}
MCStrongKeys == {k1, k2}
MCNonces     == {nonce1, nonce2, blank}
MCBlank      == {blank}
MCTimes      == 0 .. 1
MCCodes      == {code1, code2}
MCSessionIds == {sid1, sid2}
MCRefs       == {"rel-a", "rel-b"}
\* A lifetime that always fits, and one that does before the clock moves.
MCTTLs       == {1, 3}
MCDatetimes  == 0 .. 3

Good == [purpose |-> "boot", ttl_seconds |-> 1, release_set_ref |-> "rel-a",
         boot_release_set_ref |-> "rel-b", artifact_refs |-> <<"rel-a">>]

MCRequests ==
    {Good,
     [Good EXCEPT !.purpose = "recovery", !.release_set_ref = "rel-b",
                  !.ttl_seconds = 2],
     [Good EXCEPT !.purpose = "wipe"],
     [Good EXCEPT !.ttl_seconds = 0],
     [Good EXCEPT !.ttl_seconds = 4],
     [Good EXCEPT !.release_set_ref = ""],
     [Good EXCEPT !.boot_release_set_ref = ""],
     [Good EXCEPT !.artifact_refs = <<>>],
     [Good EXCEPT !.artifact_refs = <<"rel-a", "">>]}

\* A claim signed with the weak key by other software, and junk bytes.
WeakPayload == [device_id |-> <<"sha256", weak>>,
                public_key_pem |-> [key |-> weak, layout |-> "canonical"],
                nonce |-> blank, claimed_at |-> 0]
MCForeign == {[signer |-> weak, payload |-> WeakPayload],
              [signer |-> NoKey, payload |-> WeakPayload]}

Symmetry == Permutations({k1, k2}) \cup Permutations({nonce1, nonce2})
               \cup Permutations(MCCodes)
               \cup Permutations(MCSessionIds)
=============================================================================
