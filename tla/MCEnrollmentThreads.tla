------------------------- MODULE MCEnrollmentThreads -------------------------
(***************************************************************************)
(* One device, two threads, a session lifetime that fits and one           *)
(* that overflows.                                                         *)
(***************************************************************************)
EXTENDS EnrollmentThreads, TLC

CONSTANTS k1, code1, code2, nonce1, sid1, sid2, thread1, thread2

MCKeys       == {k1}
MCNonces     == {nonce1}
MCTimes      == 0 .. 1
MCDatetimes  == 0 .. 2
MCCodes      == {code1, code2}
MCSessionIds == {sid1, sid2}
MCRefs       == {"rel-a"}
MCTTLs       == {1, 3}
Good == [purpose |-> "boot", ttl_seconds |-> 1, release_set_ref |-> "rel-a",
         boot_release_set_ref |-> "rel-a", artifact_refs |-> <<"rel-a">>]
MCRequests   == {Good, [Good EXCEPT !.release_set_ref = ""]}
MCForeign    == {}

Symmetry == Permutations(MCCodes) \cup Permutations(MCSessionIds)
               \cup Permutations(Threads)
=============================================================================
