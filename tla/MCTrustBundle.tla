---------------------------- MODULE MCTrustBundle ----------------------------
(***************************************************************************)
(* Two roots, one of which expires at 2 and one that is not active before  *)
(* 1, and bundles that list a key for good, one that expires, both, one    *)
(* name twice, or a retired key.                                           *)
(***************************************************************************)
EXTENDS TrustBundle

Key(ref, material) ==
    [ref |-> ref, material |-> material, algorithm |-> Algorithm, pem |-> TRUE,
     bits |-> 2048, status |-> "active", not_before |-> NoTime,
     not_after |-> NoTime, revoked_at |-> NoTime, reason |-> "none"]
Root1 == [Key("root1", "m1") EXCEPT !.not_after = 2]
Root2 == [Key("root2", "m2") EXCEPT !.not_before = 1]

MCTimes == 0 .. 2
MCRootDocuments ==
    {<<Root1>>, <<Root2>>, <<Root1, Root2>>,
     <<Root1, [Root2 EXCEPT !.status = "revoked"]>>,
     <<Key("root1", "m2"), Root1>>,
     <<[Key("root2", "m2") EXCEPT !.bits = 1024]>>}

K1 == Key("key1", "a")
K2 == [Key("key2", "b") EXCEPT !.not_after = 1]
MCKeyLists ==
    {<<K1>>, <<K1, K2>>, <<Key("key1", "b"), K1>>,
     <<K1, [Key("key2", "b") EXCEPT !.status = "retired"]>>}
Content(signer, keys) ==
    [id |-> "bundle", signer |-> signer, algorithm |-> Algorithm,
     profile |-> Profile, keys |-> keys]
MCContents ==
    {Content("root1", keys) : keys \in MCKeyLists}
    \cup {Content("root2", <<K1>>), Content("root2", <<K2>>), Content("root3", <<K1>>)}
    \cup {[Content("root1", <<K2>>) EXCEPT !.profile = "other"]}

MCKeys == UNION {Entries(keys) : keys \in MCRootDocuments \cup MCKeyLists \cup {<<K2>>}}
MCRootMaterials == {"m1", "m2"}
MCJunk == {[hex |-> "other", key |-> "m1", payload |-> Content("root1", <<K1>>)],
           [hex |-> "spaced", key |-> "other", payload |-> Content("root1", <<K1>>)]}
=============================================================================
